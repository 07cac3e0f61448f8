---------------------------- MODULE DigikeyClient ----------------------------
(***************************************************************************)
(* One DigikeySupplier (server/providers/digikey.py) serving the calls of  *)
(* one request, one after the other: a batch of part numbers makes several *)
(* calls on the same client.  A call keeps a minimum interval to the last  *)
(* request, takes a bearer token (the cached one, unless it is within      *)
(* Buffer of its expiry), and tries the Product API up to MaxRetries       *)
(* times, sleeping between tries.  The token is taken once, BEFORE the     *)
(* tries: everything the client promises about it rests on the tries being *)
(* over before the buffer is.                                              *)
(*                                                                         *)
(* Time is a count of ticks that only the client's own waiting advances:   *)
(* each step says how long it took.                                        *)
(***************************************************************************)
EXTENDS Integers

CONSTANTS
  MinInterval,     (* _min_request_interval (digikey.py:170: 0.2 s)            *)
  InitialWait,     (* wait_time before the first try (digikey.py:288: 1 s)     *)
  Buffer,          (* of a cached token (digikey.py:215: 60 s)                 *)
  RequestTimeout,  (* longest a try takes (digikey.py:294: 15 s)               *)
  TokenTimeout,    (* longest a token request takes (digikey.py:228: 10 s)     *)
  Lifetimes,       (* the expires_in values DigiKey sends                      *)
  RetryAfters,     (* the Retry-After values DigiKey sends, in ticks           *)
  MaxCalls,        (* calls on one client                                      *)
  MaxGap           (* longest the caller lets pass between two calls           *)

ASSUME DigikeyAssumption ==
  /\ {MinInterval, InitialWait, Buffer, RequestTimeout, TokenTimeout} \subseteq Nat
  /\ {MaxCalls, MaxGap} \subseteq Nat
  /\ Lifetimes \subseteq Nat
  /\ RetryAfters \subseteq Nat
  /\ MinInterval <= InitialWait

MaxRetries == 3

VARIABLES
  pc,         (* where the client is: between calls, throttling, ...          *)
  now,        (* the clock                                                    *)
  calls,      (* calls made so far                                            *)
  attempt,    (* tries finished in this call                                  *)
  wait,       (* wait_time                                                    *)
  expires,    (* _token_expires_at, as the client reckons it                  *)
  deadline,   (* when DigiKey stops honouring that token                      *)
  cached,     (* is there an _access_token                                    *)
  bearer,     (* the deadline of the token in this call's headers             *)
  last,       (* _last_request_time                                           *)
  notBefore,  (* what the latest Retry-After asked for                        *)
  asked,      (* the shortest pause of this call: the minimum interval, or a  *)
              (* shorter one that DigiKey asked for                           *)
  outcome     (* how the latest call ended                                    *)

token == <<expires, deadline, cached>>
vars  == <<pc, now, calls, attempt, wait, token, bearer, last, notBefore, asked, outcome>>

Outcomes == {"none", "ok", "oauth_failed", "oauth_invalid_response",
             "rate_limited", "api_failed", "invalid_response"}

Init ==
  /\ pc = "idle" /\ now = 0 /\ calls = 0
  /\ attempt = 0 /\ wait = InitialWait
  /\ expires = 0 /\ deadline = 0 /\ cached = FALSE /\ bearer = 0
  /\ last = -MinInterval              \* so long ago that nothing waits for it
  /\ notBefore = 0 /\ asked = MinInterval /\ outcome = "none"

-----------------------------------------------------------------------------
(* A caller asks for a search or a detail after a pause. *)
Call(gap) ==
  /\ pc = "idle" /\ calls < MaxCalls
  /\ calls' = calls + 1
  /\ now' = now + gap
  /\ pc' = "throttle"
  /\ UNCHANGED <<attempt, wait, token, bearer, last, notBefore, asked, outcome>>

(* Sleep out the rest of the minimum interval. *)
Throttle ==
  /\ pc = "throttle"
  /\ now' = IF now - last < MinInterval THEN last + MinInterval ELSE now
  /\ pc' = "auth"
  /\ UNCHANGED <<calls, attempt, wait, token, bearer, last, notBefore, asked, outcome>>

TokenIsFresh == cached /\ now < expires - Buffer

(* Headers with this token; the first try comes next. *)
Authorized(d) ==
  /\ bearer' = d
  /\ attempt' = 0
  /\ wait' = InitialWait
  /\ asked' = MinInterval
  /\ pc' = "send"

(* Mutant: a cached token is good until the moment it expires. *)
UseCached_NoBuffer ==
  /\ pc = "auth" /\ cached /\ now < expires
  /\ Authorized(deadline)
  /\ UNCHANGED <<now, calls, token, last, notBefore, outcome>>

UseCached ==
  /\ pc = "auth" /\ TokenIsFresh
  /\ Authorized(deadline)
  /\ UNCHANGED <<now, calls, token, last, notBefore, outcome>>

(* A new token, issued some time before its answer arrives; the client     *)
(* reckons its life from the arrival.                                      *)
Refresh(toIssue, toArrive, life) ==
  /\ pc = "auth" /\ ~TokenIsFresh
  /\ toIssue + toArrive <= TokenTimeout
  /\ now' = now + toIssue + toArrive
  /\ expires' = now' + life
  /\ deadline' = now + toIssue + life
  /\ cached' = TRUE
  /\ Authorized(deadline')
  /\ UNCHANGED <<calls, last, notBefore, outcome>>

Ended(how) ==
  /\ outcome' = how
  /\ pc' = "idle"

RefreshFails(d, how) ==
  /\ pc = "auth" /\ ~TokenIsFresh
  /\ now' = now + d
  /\ Ended(how)
  /\ UNCHANGED <<calls, attempt, wait, token, bearer, last, notBefore, asked>>

-----------------------------------------------------------------------------
(* A try goes out, and its answer is there d ticks later. *)
Sent ==
  /\ pc = "send"
  /\ last' = now

(* Not the last try: sleep, and again with the same headers. *)
Again(d, sleep, nextWait) ==
  /\ attempt < MaxRetries - 1
  /\ now' = now + d + sleep
  /\ wait' = nextWait
  /\ attempt' = attempt + 1
  /\ UNCHANGED <<pc, outcome>>

(* The last try: the call fails, with no sleep. *)
GiveUp(d, how) ==
  /\ attempt = MaxRetries - 1
  /\ now' = now + d
  /\ attempt' = attempt + 1
  /\ Ended(how)
  /\ UNCHANGED wait

(* Mutant: the header is overridden by the backoff. *)
RateLimitedAfter_Backoff(d, r) ==
  /\ Sent
  /\ notBefore' = now + d + r
  /\ asked' = IF r < asked THEN r ELSE asked
  /\ Again(d, wait, 2 * wait) \/ GiveUp(d, "rate_limited")
  /\ UNCHANGED <<calls, token, bearer>>

(* 429 with a Retry-After of r. *)
RateLimitedAfter(d, r) ==
  /\ Sent
  /\ notBefore' = now + d + r
  /\ asked' = IF r < asked THEN r ELSE asked
  /\ Again(d, r, r) \/ GiveUp(d, "rate_limited")
  /\ UNCHANGED <<calls, token, bearer>>

(* 429 without the header: the wait doubles before it is slept. *)
RateLimited(d) ==
  /\ Sent
  /\ Again(d, 2 * wait, 2 * wait) \/ GiveUp(d, "rate_limited")
  /\ UNCHANGED <<calls, token, bearer, notBefore, asked>>

(* Mutant: the retry goes out with no sleep. *)
Fails_NoSleep(d) ==
  /\ Sent
  /\ Again(d, 0, 2 * wait) \/ GiveUp(d, "api_failed")
  /\ UNCHANGED <<calls, token, bearer, notBefore, asked>>

(* Mutant: the count of tries wraps around (and no time passes, which      *)
(* keeps the mutant finite).                                               *)
Fails_ForEver(d) ==
  /\ Sent
  /\ attempt' = (attempt + 1) % MaxRetries
  /\ UNCHANGED <<pc, now, outcome, wait, calls, token, bearer, notBefore, asked>>

(* Any other HTTP error, 401 and 404 included, or no answer at all: the    *)
(* wait is slept, then doubles.                                            *)
Fails(d) ==
  /\ Sent
  /\ Again(d, wait, 2 * wait) \/ GiveUp(d, "api_failed")
  /\ UNCHANGED <<calls, token, bearer, notBefore, asked>>

(* A 2xx answer ends the call, parsed or not; so does a Retry-After that   *)
(* is not a number (int() raises out of the tries).                        *)
Answers(d, how) ==
  /\ Sent
  /\ now' = now + d
  /\ attempt' = attempt + 1
  /\ Ended(how)
  /\ UNCHANGED <<calls, wait, token, bearer, notBefore, asked>>

-----------------------------------------------------------------------------
Next ==
  \/ \E gap \in 0..MaxGap : Call(gap)
  \/ Throttle
  \/ UseCached
  \/ \E i, a \in 0..TokenTimeout, life \in Lifetimes : Refresh(i, a, life)
  \/ \E d \in 0..TokenTimeout, how \in {"oauth_failed", "oauth_invalid_response"} :
       RefreshFails(d, how)
  \/ \E d \in 0..RequestTimeout, r \in RetryAfters : RateLimitedAfter(d, r)
  \/ \E d \in 0..RequestTimeout : RateLimited(d)
  \/ \E d \in 0..RequestTimeout : Fails(d)
  \/ \E d \in 0..RequestTimeout, how \in {"ok", "invalid_response"} : Answers(d, how)

Spec == Init /\ [][Next]_vars

(* The client's thread keeps running; upstream calls have timeouts. *)
FairSpec == Spec /\ WF_vars(pc # "idle" /\ Next)

-----------------------------------------------------------------------------
TypeOK ==
  /\ pc \in {"idle", "throttle", "auth", "send"}
  /\ {now, calls, wait, expires, deadline, bearer, notBefore} \subseteq Nat
  /\ attempt \in 0..MaxRetries /\ (pc = "send" => attempt < MaxRetries)
  /\ last \in Int
  /\ cached \in BOOLEAN /\ asked \in 0..MinInterval
  /\ outcome \in Outcomes

(* No try carries a token DigiKey no longer honours, the retries at the    *)
(* end of their sleeps included.  The class promises "Access tokens are    *)
(* cached and automatically refreshed when expired" (digikey.py:109); the  *)
(* token is taken once per call (:275), so it is the 60 s buffer that has  *)
(* to outlast every timeout and every sleep of the tries.                  *)
TokenLiveWhenSent == pc = "send" => now <= bearer

(* Only a call's start enforces the minimum interval (:269-272): a retry   *)
(* goes out when its sleep is over.  Two requests are closer than the      *)
(* "Minimum 200ms between requests" of the comment (:170) only where       *)
(* DigiKey itself asked this call for a shorter pause (Retry-After: 0,     *)
(* which zeroes the doublings after it too, :305-313), never closer than   *)
(* it asked for, and the first try of the next call keeps the interval     *)
(* again.                                                                  *)
PoliteSpacing == pc = "send" => now - last >= asked

(* A call that reports the API as failed or rate limited has spent all its *)
(* tries first, whichever mix of errors it met. (digikey.py:289-344)       *)
RetriesBeforeGivingUp ==
  pc = "idle" /\ outcome \in {"rate_limited", "api_failed"} => attempt = MaxRetries

(* "This implementation handles 429 responses with exponential backoff and *)
(* respects Retry-After headers" (digikey.py:112-113): no request goes out *)
(* before the time the latest Retry-After asked for, whatever other errors *)
(* come in between, as long as no call is given up as rate limited: the    *)
(* last try does not sleep, and the next call does not make up for it.     *)
RetryAfterHeard ==
  [](outcome # "rate_limited") => [](pc = "send" => now >= notBefore)

(* Every call ends: the tries are bounded and so is each of them.          *)
(* (digikey.py:289-350)                                                    *)
CallsReturn == pc # "idle" ~> pc = "idle"
=============================================================================
