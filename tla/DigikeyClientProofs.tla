------------------------- MODULE DigikeyClientProofs -------------------------
(***************************************************************************)
(* Theorems of DigikeyClient for every choice of its times, under the      *)
(* relations between them that each one needs.  Spacing and pauses need    *)
(* none.  The token needs BufferOutlastsTries, which the code's own times  *)
(* (in seconds: 0.2, 1, 60, 15, 10) meet as long as DigiKey asks for a     *)
(* Retry-After of at most 3 s and issues tokens of 60 s or more.           *)
(***************************************************************************)
EXTENDS DigikeyClient, TLAPS

(* A wait is at most base at the first try; it can double twice.  Two      *)
(* tries, their sleeps and a token request fit into the buffer.            *)
BufferOutlastsTries(base) ==
  /\ InitialWait <= base
  /\ \A r \in RetryAfters : r <= base
  /\ 2 * RequestTimeout + 6 * base + TokenTimeout <= Buffer
  /\ \A life \in Lifetimes : Buffer <= life

-----------------------------------------------------------------------------
(* Type correctness: tries never exceed the budget of a call, and every    *)
(* time the client reckons is one. (digikey.py:202-350)                    *)
THEOREM TypeCorrect == Spec => []TypeOK
<1>0. /\ MinInterval \in Nat /\ InitialWait \in Nat /\ Buffer \in Nat
      /\ RequestTimeout \in Nat /\ TokenTimeout \in Nat /\ MaxGap \in Nat
      /\ Lifetimes \subseteq Nat /\ RetryAfters \subseteq Nat
  BY DigikeyAssumption
<1> USE <1>0
<1>1. Init => TypeOK
  <2> SUFFICES ASSUME Init PROVE TypeOK
    OBVIOUS
  <2>1. last \in Int
    BY DEF Init
  <2>2. {now, calls, wait, expires, deadline, bearer, notBefore} \subseteq Nat
    BY DEF Init
  <2>3. attempt \in 0..MaxRetries /\ attempt < MaxRetries
    BY DEF Init, MaxRetries
  <2>4. cached \in BOOLEAN /\ outcome \in Outcomes /\ pc = "idle"
    BY Zenon DEF Init, Outcomes
  <2>5. asked \in 0..MinInterval
    BY DEF Init
  <2> QED BY <2>1, <2>2, <2>3, <2>4, <2>5 DEF TypeOK
<1>2. TypeOK /\ [Next]_vars => TypeOK'
  <2> SUFFICES ASSUME TypeOK, [Next]_vars
               PROVE  TypeOK'
    OBVIOUS
  <2>1. ASSUME NEW gap \in 0..MaxGap, Call(gap)
        PROVE  TypeOK'
    BY <2>1 DEF Call, TypeOK, token
  <2>2. ASSUME Throttle
        PROVE  TypeOK'
    BY <2>2 DEF Throttle, TypeOK, token
  <2>3. ASSUME UseCached
        PROVE  TypeOK'
    BY <2>3 DEF UseCached, Authorized, TypeOK, token, MaxRetries
  <2>4. ASSUME NEW i \in 0..TokenTimeout, NEW a \in 0..TokenTimeout,
               NEW life \in Lifetimes, Refresh(i, a, life)
        PROVE  TypeOK'
    BY <2>4 DEF Refresh, Authorized, TypeOK, MaxRetries
  <2>5. ASSUME NEW d \in 0..TokenTimeout,
               NEW how \in {"oauth_failed", "oauth_invalid_response"}, RefreshFails(d, how)
        PROVE  TypeOK'
    BY <2>5 DEF RefreshFails, Ended, TypeOK, token, Outcomes
  <2>6. ASSUME NEW d \in 0..RequestTimeout, NEW r \in RetryAfters, RateLimitedAfter(d, r)
        PROVE  TypeOK'
    BY <2>6 DEF RateLimitedAfter, Sent, Again, GiveUp, Ended, TypeOK, token, Outcomes, MaxRetries
  <2>7. ASSUME NEW d \in 0..RequestTimeout, RateLimited(d)
        PROVE  TypeOK'
    BY <2>7 DEF RateLimited, Sent, Again, GiveUp, Ended, TypeOK, token, Outcomes, MaxRetries
  <2>8. ASSUME NEW d \in 0..RequestTimeout, Fails(d)
        PROVE  TypeOK'
    BY <2>8 DEF Fails, Sent, Again, GiveUp, Ended, TypeOK, token, Outcomes, MaxRetries
  <2>9. ASSUME NEW d \in 0..RequestTimeout, NEW how \in {"ok", "invalid_response"}, Answers(d, how)
        PROVE  TypeOK'
    BY <2>9 DEF Answers, Sent, Ended, TypeOK, token, Outcomes, MaxRetries
  <2>10. CASE UNCHANGED vars
    BY <2>10 DEF vars, token, TypeOK
  <2> QED BY <2>1, <2>2, <2>3, <2>4, <2>5, <2>6, <2>7, <2>8, <2>9, <2>10 DEF Next
<1> QED BY <1>1, <1>2, PTL DEF Spec
-----------------------------------------------------------------------------
(* What is left of the token's life when a try goes out, worst case first: *)
(* before the first, the second and the third try.                         *)
Slack(base, n) ==
  IF n = 0 THEN 2 * RequestTimeout + 6 * base
  ELSE IF n = 1 THEN RequestTimeout + 4 * base ELSE 0

WaitCap(base, n) == IF n = 0 THEN base ELSE IF n = 1 THEN 2 * base ELSE 4 * base

TokenInv(base) ==
  /\ cached => expires <= deadline + TokenTimeout
  /\ pc = "send" => /\ wait <= WaitCap(base, attempt)
                    /\ now + Slack(base, attempt) <= bearer

(* One try and its sleep use up no more than the slack of that try.        *)
LEMMA TryFitsSlack ==
  ASSUME NEW base \in Nat, BufferOutlastsTries(base), TypeOK, TokenInv(base),
         pc = "send", NEW d \in 0..RequestTimeout, NEW sleep \in Nat, NEW w \in Nat,
         Again(d, sleep, w), bearer' = bearer,
         sleep <= 2 * WaitCap(base, attempt), w <= 2 * WaitCap(base, attempt)
  PROVE  wait' <= WaitCap(base, attempt') /\ now' + Slack(base, attempt') <= bearer'
<1>1. /\ RequestTimeout \in Nat /\ now \in Nat /\ wait \in Nat /\ bearer \in Nat
      /\ attempt \in 0..1 /\ d <= RequestTimeout /\ d \in Nat
  BY DigikeyAssumption DEF TypeOK, Again, MaxRetries
<1>2. CASE attempt = 0
  BY <1>1, <1>2 DEF Again, TokenInv, WaitCap, Slack
<1>3. CASE attempt = 1
  BY <1>1, <1>3 DEF Again, TokenInv, WaitCap, Slack
<1> QED BY <1>1, <1>2, <1>3

LEMMA TokenStep ==
  ASSUME NEW base \in Nat, BufferOutlastsTries(base), TypeOK, TokenInv(base), [Next]_vars
  PROVE  TokenInv(base)'
<1>0. /\ MinInterval \in Nat /\ InitialWait \in Nat /\ Buffer \in Nat
      /\ RequestTimeout \in Nat /\ TokenTimeout \in Nat /\ MaxGap \in Nat
      /\ Lifetimes \subseteq Nat /\ RetryAfters \subseteq Nat
  BY DigikeyAssumption
<1>t. /\ now \in Nat /\ expires \in Nat /\ deadline \in Nat /\ bearer \in Nat /\ wait \in Nat
      /\ attempt \in 0..3
  BY DEF TypeOK, MaxRetries
<1> USE <1>0, <1>t
<1>a. ASSUME UNCHANGED token, pc' # "send"
      PROVE  TokenInv(base)'
  BY <1>a DEF TokenInv, token
<1>1. ASSUME NEW gap \in 0..MaxGap, Call(gap)
      PROVE  TokenInv(base)'
  BY <1>a, <1>1 DEF Call
<1>2. ASSUME Throttle
      PROVE  TokenInv(base)'
  BY <1>a, <1>2 DEF Throttle
<1>3. ASSUME UseCached
      PROVE  TokenInv(base)'
  <2>1. now + Slack(base, 0) <= deadline
    BY <1>3 DEF UseCached, TokenIsFresh, TokenInv, BufferOutlastsTries, Slack
  <2> QED BY <1>3, <2>1 DEF UseCached, Authorized, token, TokenInv, WaitCap, BufferOutlastsTries
<1>4. ASSUME NEW i \in 0..TokenTimeout, NEW a \in 0..TokenTimeout,
             NEW life \in Lifetimes, Refresh(i, a, life)
      PROVE  TokenInv(base)'
  <2>1. /\ i \in Nat /\ a \in Nat /\ life \in Nat /\ Buffer <= life
        /\ i + a <= TokenTimeout
    BY <1>4 DEF Refresh, BufferOutlastsTries
  <2>2. /\ now' = now + i + a /\ deadline' = now + i + life
        /\ expires' = now + i + a + life
        /\ bearer' = deadline' /\ attempt' = 0 /\ wait' = InitialWait
    BY <1>4, <2>1 DEF Refresh, Authorized
  <2>3. now' + Slack(base, 0) <= bearer'
    BY <2>1, <2>2 DEF BufferOutlastsTries, Slack
  <2>4. expires' <= deadline' + TokenTimeout
    BY <2>1, <2>2
  <2> QED BY <2>2, <2>3, <2>4 DEF TokenInv, WaitCap, BufferOutlastsTries
<1>5. ASSUME NEW d \in 0..TokenTimeout,
             NEW how \in {"oauth_failed", "oauth_invalid_response"}, RefreshFails(d, how)
      PROVE  TokenInv(base)'
  BY <1>a, <1>5 DEF RefreshFails, Ended
<1>b. ASSUME NEW d, NEW how, GiveUp(d, how), UNCHANGED token
      PROVE  TokenInv(base)'
  BY <1>a, <1>b DEF GiveUp, Ended
<1>c. ASSUME NEW d \in 0..RequestTimeout, NEW sleep \in Nat, NEW w \in Nat, pc = "send",
             Again(d, sleep, w), UNCHANGED <<token, bearer>>,
             sleep <= 2 * WaitCap(base, attempt), w <= 2 * WaitCap(base, attempt)
      PROVE  TokenInv(base)'
  <2>1. wait' <= WaitCap(base, attempt') /\ now' + Slack(base, attempt') <= bearer'
    BY <1>c, TryFitsSlack
  <2> QED BY <1>c, <2>1 DEF TokenInv, token
<1>d. pc = "send" => wait <= WaitCap(base, attempt) /\ base <= WaitCap(base, attempt)
  BY DEF TokenInv, WaitCap
<1>e. WaitCap(base, attempt) \in Nat
  BY DEF WaitCap
<1>6. ASSUME NEW d \in 0..RequestTimeout, NEW r \in RetryAfters, RateLimitedAfter(d, r)
      PROVE  TokenInv(base)'
  <2>1. r \in Nat /\ pc = "send" /\ r <= 2 * WaitCap(base, attempt)
    BY <1>6, <1>d, <1>e DEF RateLimitedAfter, Sent, BufferOutlastsTries
  <2> QED BY <1>6, <1>b, <1>c, <2>1 DEF RateLimitedAfter
<1>7. ASSUME NEW d \in 0..RequestTimeout, RateLimited(d)
      PROVE  TokenInv(base)'
  <2>1. 2 * wait \in Nat /\ pc = "send" /\ 2 * wait <= 2 * WaitCap(base, attempt)
    BY <1>7, <1>d, <1>e DEF RateLimited, Sent
  <2> QED BY <1>7, <1>b, <1>c, <2>1 DEF RateLimited
<1>8. ASSUME NEW d \in 0..RequestTimeout, Fails(d)
      PROVE  TokenInv(base)'
  <2>1. /\ 2 * wait \in Nat /\ pc = "send" /\ wait <= 2 * WaitCap(base, attempt)
        /\ 2 * wait <= 2 * WaitCap(base, attempt)
    BY <1>8, <1>d, <1>e DEF Fails, Sent
  <2> QED BY <1>8, <1>b, <1>c, <2>1 DEF Fails
<1>9. ASSUME NEW d \in 0..RequestTimeout, NEW how \in {"ok", "invalid_response"},
             Answers(d, how)
      PROVE  TokenInv(base)'
  BY <1>a, <1>9 DEF Answers, Ended
<1>10. CASE UNCHANGED vars
  BY <1>10 DEF vars, token, TokenInv, WaitCap, Slack
<1> QED
  BY <1>1, <1>2, <1>3, <1>4, <1>5, <1>6, <1>7, <1>8, <1>9, <1>10 DEF Next

(* A token taken once before the tries outlives them all: the 60 s buffer  *)
(* is longer than two timed-out tries with their sleeps, for every Retry-  *)
(* After up to base.  (digikey.py:214-216 and 275-344)                     *)
THEOREM TokenOutlivesTries ==
  ASSUME NEW base \in Nat, BufferOutlastsTries(base)
  PROVE  Spec => []TokenLiveWhenSent
<1>1. Init => TokenInv(base)
  BY DEF Init, TokenInv
<1>2. TypeOK /\ TokenInv(base) /\ [Next]_vars => TokenInv(base)'
  BY TokenStep
<1>3. TypeOK /\ TokenInv(base) => TokenLiveWhenSent
  <2> SUFFICES ASSUME TypeOK, TokenInv(base), pc = "send"
               PROVE  now <= bearer
    BY DEF TokenLiveWhenSent
  <2>1. /\ Slack(base, attempt) \in Nat /\ now \in Nat /\ bearer \in Nat
    BY DigikeyAssumption DEF TypeOK, Slack
  <2> QED BY <2>1 DEF TokenInv
<1> QED BY TypeCorrect, <1>1, <1>2, <1>3, PTL DEF Spec

-----------------------------------------------------------------------------
(* Only a call's start enforces the minimum interval; a retry keeps it by  *)
(* the length of its sleep, and a sleep is shorter only after DigiKey has  *)
(* asked this call for less. (digikey.py:269-272 and 288-344)              *)
PoliteInv ==
  /\ pc = "auth" => now - last >= MinInterval
  /\ pc = "send" => now - last >= asked /\ wait >= asked

LEMMA PoliteStep ==
  ASSUME TypeOK, PoliteInv, [Next]_vars
  PROVE  PoliteInv'
<1>0. /\ MinInterval \in Nat /\ InitialWait \in Nat /\ MaxGap \in Nat
      /\ RequestTimeout \in Nat /\ TokenTimeout \in Nat /\ RetryAfters \subseteq Nat
      /\ MinInterval <= InitialWait
  BY DigikeyAssumption
<1>t. /\ now \in Nat /\ wait \in Nat /\ last \in Int /\ asked \in 0..MinInterval
      /\ attempt \in 0..3
  BY DEF TypeOK, MaxRetries
<1> USE <1>0, <1>t
<1>1. ASSUME NEW gap \in 0..MaxGap, Call(gap)
      PROVE  PoliteInv'
  BY <1>1 DEF Call, PoliteInv
<1>2. ASSUME Throttle
      PROVE  PoliteInv'
  BY <1>2 DEF Throttle, PoliteInv
<1>3. ASSUME UseCached
      PROVE  PoliteInv'
  BY <1>3 DEF UseCached, Authorized, PoliteInv
<1>4. ASSUME NEW i \in 0..TokenTimeout, NEW a \in 0..TokenTimeout,
             NEW life \in Lifetimes, Refresh(i, a, life)
      PROVE  PoliteInv'
  BY <1>4 DEF Refresh, Authorized, PoliteInv
<1>5. ASSUME NEW d \in 0..TokenTimeout,
             NEW how \in {"oauth_failed", "oauth_invalid_response"}, RefreshFails(d, how)
      PROVE  PoliteInv'
  BY <1>5 DEF RefreshFails, Ended, PoliteInv
<1>6. ASSUME NEW d \in 0..RequestTimeout, NEW r \in RetryAfters, RateLimitedAfter(d, r)
      PROVE  PoliteInv'
  BY <1>6 DEF RateLimitedAfter, Sent, Again, GiveUp, Ended, PoliteInv
<1>7. ASSUME NEW d \in 0..RequestTimeout, RateLimited(d)
      PROVE  PoliteInv'
  BY <1>7 DEF RateLimited, Sent, Again, GiveUp, Ended, PoliteInv
<1>8. ASSUME NEW d \in 0..RequestTimeout, Fails(d)
      PROVE  PoliteInv'
  BY <1>8 DEF Fails, Sent, Again, GiveUp, Ended, PoliteInv
<1>9. ASSUME NEW d \in 0..RequestTimeout, NEW how \in {"ok", "invalid_response"},
             Answers(d, how)
      PROVE  PoliteInv'
  BY <1>9 DEF Answers, Ended, PoliteInv
<1>10. CASE UNCHANGED vars
  BY <1>10 DEF vars, PoliteInv
<1> QED
  BY <1>1, <1>2, <1>3, <1>4, <1>5, <1>6, <1>7, <1>8, <1>9, <1>10 DEF Next

(* No two requests are closer than the minimum interval, whatever mix of   *)
(* errors and pauses the calls meet, but for retries of a call that        *)
(* DigiKey itself asked to come back sooner. (digikey.py:269-344)          *)
THEOREM SpacingKept == Spec => []PoliteSpacing
<1>1. Init => PoliteInv
  BY DEF Init, PoliteInv
<1>2. TypeOK /\ PoliteInv /\ [Next]_vars => PoliteInv'
  BY PoliteStep
<1>3. TypeOK /\ PoliteInv => PoliteSpacing
  BY DigikeyAssumption DEF TypeOK, PoliteInv, PoliteSpacing
<1> QED BY TypeCorrect, <1>1, <1>2, <1>3, PTL DEF Spec

(* A call blames the API only after its third try. (digikey.py:289-344)    *)
THEOREM GivesUpLast == Spec => []RetriesBeforeGivingUp
<1>1. Init => RetriesBeforeGivingUp
  BY DEF Init, RetriesBeforeGivingUp
<1>2. TypeOK /\ RetriesBeforeGivingUp /\ [Next]_vars => RetriesBeforeGivingUp'
  BY DEF TypeOK, RetriesBeforeGivingUp, Next, vars, Call, Throttle, UseCached, Refresh,
         Authorized, RefreshFails, RateLimitedAfter, RateLimited, Fails, Answers, Sent,
         Again, GiveUp, Ended, MaxRetries
<1> QED BY TypeCorrect, <1>1, <1>2, PTL DEF Spec

-----------------------------------------------------------------------------
(* Only a call that is given up as rate limited leaves a pause unmade.     *)
LEMMA PauseMade ==
  ASSUME TypeOK, [Next]_vars, now >= notBefore, outcome' # "rate_limited"
  PROVE  now' >= notBefore'
<1>0. /\ MinInterval \in Nat /\ MaxGap \in Nat /\ RequestTimeout \in Nat
      /\ TokenTimeout \in Nat /\ RetryAfters \subseteq Nat
  BY DigikeyAssumption
<1>t. now \in Nat /\ wait \in Nat /\ last \in Int /\ notBefore \in Nat
  BY DEF TypeOK
<1> USE <1>0, <1>t
<1>1. ASSUME NEW gap \in 0..MaxGap, Call(gap)
      PROVE  now' >= notBefore'
  BY <1>1 DEF Call
<1>2. ASSUME Throttle
      PROVE  now' >= notBefore'
  BY <1>2 DEF Throttle
<1>3. ASSUME UseCached
      PROVE  now' >= notBefore'
  BY <1>3 DEF UseCached
<1>4. ASSUME NEW i \in 0..TokenTimeout, NEW a \in 0..TokenTimeout,
             NEW life \in Lifetimes, Refresh(i, a, life)
      PROVE  now' >= notBefore'
  BY <1>4 DEF Refresh
<1>5. ASSUME NEW d \in 0..TokenTimeout,
             NEW how \in {"oauth_failed", "oauth_invalid_response"}, RefreshFails(d, how)
      PROVE  now' >= notBefore'
  BY <1>5 DEF RefreshFails
<1>6. ASSUME NEW d \in 0..RequestTimeout, NEW r \in RetryAfters, RateLimitedAfter(d, r)
      PROVE  now' >= notBefore'
  <2>1. ~GiveUp(d, "rate_limited")
    BY DEF GiveUp, Ended
  <2> QED BY <1>6, <2>1 DEF RateLimitedAfter, Again
<1>7. ASSUME NEW d \in 0..RequestTimeout, RateLimited(d)
      PROVE  now' >= notBefore'
  BY <1>7 DEF RateLimited, Again, GiveUp
<1>8. ASSUME NEW d \in 0..RequestTimeout, Fails(d)
      PROVE  now' >= notBefore'
  BY <1>8 DEF Fails, Again, GiveUp
<1>9. ASSUME NEW d \in 0..RequestTimeout, NEW how \in {"ok", "invalid_response"},
             Answers(d, how)
      PROVE  now' >= notBefore'
  BY <1>9 DEF Answers
<1>10. CASE UNCHANGED vars
  BY <1>10 DEF vars
<1> QED
  BY <1>1, <1>2, <1>3, <1>4, <1>5, <1>6, <1>7, <1>8, <1>9, <1>10 DEF Next

(* Every Retry-After is slept out before the next request, of whichever    *)
(* call, unless a call is given up as rate limited. (digikey.py:303-320)   *)
THEOREM PausesKept == Spec => RetryAfterHeard
<1>1. Init => now >= notBefore
  BY DEF Init
<1>2. TypeOK /\ [Next]_vars /\ now >= notBefore /\ (outcome # "rate_limited")'
        => (now >= notBefore)'
  BY PauseMade
<1>3. now >= notBefore => (pc = "send" => now >= notBefore)
  OBVIOUS
<1> QED BY TypeCorrect, <1>1, <1>2, <1>3, PTL DEF Spec, RetryAfterHeard

-----------------------------------------------------------------------------
(* What is left of a call, in time and in steps, at most: the minimum      *)
(* interval, a token request, three tries and the two sleeps between them. *)
(* base bounds the first wait and every Retry-After.                       *)
SleepsAreBounded(base) ==
  /\ InitialWait <= base
  /\ \A r \in RetryAfters : r <= base

TimeLeft(base) ==
  CASE pc = "idle"     -> 0
    [] pc = "throttle" -> MinInterval + TokenTimeout + RequestTimeout + Slack(base, 0)
    [] pc = "auth"     -> TokenTimeout + RequestTimeout + Slack(base, 0)
    [] pc = "send"     -> RequestTimeout + Slack(base, attempt)

StepsLeft ==
  CASE pc = "idle" -> 0 [] pc = "throttle" -> 5 [] pc = "auth" -> 4
    [] pc = "send" -> MaxRetries - attempt

NoLater(base) == now' + TimeLeft(base)' <= now + TimeLeft(base) /\ StepsLeft' < StepsLeft

(* The clock is past the last request, and the wait has doubled no oftener *)
(* than tries have failed.                                                 *)
WaitInv(base) ==
  /\ last <= now
  /\ pc = "send" => wait <= WaitCap(base, attempt)

(* One try, of whichever outcome. *)
LEMMA TryInTime ==
  ASSUME NEW base \in Nat, TypeOK, WaitInv(base), pc = "send", last' = now,
         NEW d \in 0..RequestTimeout, NEW sleep \in Nat, NEW w \in Nat, NEW how,
         sleep <= 2 * WaitCap(base, attempt), w <= 2 * WaitCap(base, attempt),
         Again(d, sleep, w) \/ GiveUp(d, how)
  PROVE  WaitInv(base)' /\ NoLater(base)
<1>1. /\ RequestTimeout \in Nat /\ now \in Nat /\ wait \in Nat /\ attempt \in 0..2
      /\ d \in Nat /\ d <= RequestTimeout
  BY DigikeyAssumption DEF TypeOK, MaxRetries
<1>2. CASE Again(d, sleep, w)
  <2>1. /\ attempt \in 0..1 /\ attempt' = attempt + 1 /\ pc' = "send"
        /\ now' = now + d + sleep /\ wait' = w
    BY <1>1, <1>2 DEF Again, MaxRetries
  <2>2. WaitCap(base, attempt') = 2 * WaitCap(base, attempt)
    BY <1>1, <2>1 DEF WaitCap
  <2>3. WaitInv(base)'
    BY <1>1, <2>1, <2>2 DEF WaitInv
  <2>4. d + sleep + Slack(base, attempt') <= Slack(base, attempt)
    <3>1. CASE attempt = 0
      BY <1>1, <2>1, <3>1 DEF Slack, WaitCap
    <3>2. CASE attempt = 1
      BY <1>1, <2>1, <3>2 DEF Slack, WaitCap
    <3> QED BY <2>1, <3>1, <3>2
  <2>5. Slack(base, attempt) \in Nat /\ Slack(base, attempt') \in Nat
    BY <1>1, <2>1 DEF Slack
  <2>6. /\ TimeLeft(base) = RequestTimeout + Slack(base, attempt)
        /\ TimeLeft(base)' = RequestTimeout + Slack(base, attempt')
    BY <2>1 DEF TimeLeft, Slack
  <2>7. StepsLeft = MaxRetries - attempt /\ StepsLeft' = MaxRetries - attempt'
    BY <2>1 DEF StepsLeft
  <2> QED BY <1>1, <2>1, <2>3, <2>4, <2>5, <2>6, <2>7 DEF NoLater, MaxRetries
<1>3. CASE GiveUp(d, how)
  <2>1. attempt = 2 /\ pc' = "idle" /\ now' = now + d
    BY <1>3 DEF GiveUp, Ended, MaxRetries
  <2>2. TimeLeft(base) = RequestTimeout /\ TimeLeft(base)' = 0
    BY <1>1, <2>1 DEF TimeLeft, Slack
  <2>3. StepsLeft = 1 /\ StepsLeft' = 0
    BY <2>1 DEF StepsLeft, MaxRetries
  <2> QED BY <1>1, <2>1, <2>2, <2>3 DEF NoLater, WaitInv
<1> QED BY <1>2, <1>3

LEMMA CallInTime ==
  ASSUME NEW base \in Nat, SleepsAreBounded(base), TypeOK, WaitInv(base), Next
  PROVE  WaitInv(base)' /\ (pc # "idle" => NoLater(base))
<1>0. /\ MinInterval \in Nat /\ InitialWait \in Nat /\ MaxGap \in Nat
      /\ RequestTimeout \in Nat /\ TokenTimeout \in Nat /\ RetryAfters \subseteq Nat
  BY DigikeyAssumption
<1>t. now \in Nat /\ wait \in Nat /\ last \in Int /\ last <= now
  BY DEF TypeOK, WaitInv
<1>s. \A n \in 0..2 : Slack(base, n) \in Nat
  BY <1>0 DEF Slack
<1>1. ASSUME NEW gap \in 0..MaxGap, Call(gap)
      PROVE  WaitInv(base)' /\ pc = "idle"
  BY <1>0, <1>t, <1>1 DEF Call, WaitInv
<1>2. ASSUME Throttle
      PROVE  WaitInv(base)' /\ NoLater(base)
  <2>1. /\ pc = "throttle" /\ pc' = "auth" /\ last' = last
        /\ now' \in Nat /\ now <= now' /\ now' <= now + MinInterval
    BY <1>0, <1>t, <1>2 DEF Throttle
  <2>2. /\ TimeLeft(base) = MinInterval + TokenTimeout + RequestTimeout + Slack(base, 0)
        /\ TimeLeft(base)' = TokenTimeout + RequestTimeout + Slack(base, 0)
    BY <2>1 DEF TimeLeft, Slack
  <2>3. StepsLeft = 5 /\ StepsLeft' = 4
    BY <2>1 DEF StepsLeft
  <2> QED BY <1>0, <1>t, <1>s, <2>1, <2>2, <2>3 DEF NoLater, WaitInv
<1>3. ASSUME NEW e \in Nat, NEW d, pc = "auth", Authorized(d), e <= TokenTimeout, now' = now + e,
             last' = last
      PROVE  WaitInv(base)' /\ NoLater(base)
  <2>1. pc' = "send" /\ attempt' = 0 /\ wait' = InitialWait
    BY <1>3 DEF Authorized
  <2>2. /\ TimeLeft(base) = TokenTimeout + RequestTimeout + Slack(base, 0)
        /\ TimeLeft(base)' = RequestTimeout + Slack(base, 0)
    BY <1>3, <2>1 DEF TimeLeft, Slack
  <2>3. StepsLeft = 4 /\ StepsLeft' = 3
    BY <1>3, <2>1 DEF StepsLeft, MaxRetries
  <2>4. WaitInv(base)'
    BY <1>0, <1>t, <1>3, <2>1 DEF WaitInv, WaitCap, SleepsAreBounded
  <2> QED BY <1>0, <1>t, <1>s, <1>3, <2>2, <2>3, <2>4 DEF NoLater
<1>4. ASSUME UseCached
      PROVE  WaitInv(base)' /\ NoLater(base)
  BY <1>0, <1>t, <1>3, <1>4 DEF UseCached
<1>5. ASSUME NEW i \in 0..TokenTimeout, NEW a \in 0..TokenTimeout,
             NEW life \in Lifetimes, Refresh(i, a, life)
      PROVE  WaitInv(base)' /\ NoLater(base)
  <2>1. i + a \in Nat /\ now' = now + (i + a)
    BY <1>0, <1>t, <1>5 DEF Refresh
  <2> QED BY <1>3, <1>5, <2>1 DEF Refresh
<1>6. ASSUME NEW d \in 0..TokenTimeout,
             NEW how \in {"oauth_failed", "oauth_invalid_response"}, RefreshFails(d, how)
      PROVE  WaitInv(base)' /\ NoLater(base)
  <2>1. pc = "auth" /\ pc' = "idle" /\ now' = now + d /\ last' = last
    BY <1>6 DEF RefreshFails, Ended
  <2>2. TimeLeft(base) = TokenTimeout + RequestTimeout + Slack(base, 0) /\ TimeLeft(base)' = 0
    BY <2>1 DEF TimeLeft
  <2>3. StepsLeft = 4 /\ StepsLeft' = 0
    BY <2>1 DEF StepsLeft
  <2> QED BY <1>0, <1>t, <1>s, <2>1, <2>2, <2>3 DEF NoLater, WaitInv
<1>w. pc = "send" => /\ attempt \in 0..2 /\ WaitCap(base, attempt) \in Nat
                     /\ wait <= WaitCap(base, attempt) /\ base <= WaitCap(base, attempt)
  BY DEF TypeOK, WaitInv, WaitCap, MaxRetries
<1>7. ASSUME NEW d \in 0..RequestTimeout, NEW r \in RetryAfters, RateLimitedAfter(d, r)
      PROVE  WaitInv(base)' /\ NoLater(base)
  <2>1. pc = "send" /\ last' = now /\ (Again(d, r, r) \/ GiveUp(d, "rate_limited"))
    BY <1>7 DEF RateLimitedAfter, Sent
  <2>2. r \in Nat /\ r <= 2 * WaitCap(base, attempt)
    BY <1>0, <1>w, <2>1 DEF SleepsAreBounded
  <2> QED BY <2>1, <2>2, TryInTime
<1>8. ASSUME NEW d \in 0..RequestTimeout, RateLimited(d)
      PROVE  WaitInv(base)' /\ NoLater(base)
  <2>1. /\ pc = "send" /\ last' = now
        /\ Again(d, 2 * wait, 2 * wait) \/ GiveUp(d, "rate_limited")
    BY <1>8 DEF RateLimited, Sent
  <2>2. 2 * wait \in Nat /\ 2 * wait <= 2 * WaitCap(base, attempt)
    BY <1>t, <1>w, <2>1
  <2> QED BY <2>1, <2>2, TryInTime
<1>9. ASSUME NEW d \in 0..RequestTimeout, Fails(d)
      PROVE  WaitInv(base)' /\ NoLater(base)
  <2>1. /\ pc = "send" /\ last' = now
        /\ Again(d, wait, 2 * wait) \/ GiveUp(d, "api_failed")
    BY <1>9 DEF Fails, Sent
  <2>2. 2 * wait \in Nat /\ wait <= 2 * WaitCap(base, attempt)
        /\ 2 * wait <= 2 * WaitCap(base, attempt)
    BY <1>t, <1>w, <2>1
  <2> QED BY <1>t, <2>1, <2>2, TryInTime
<1>10. ASSUME NEW d \in 0..RequestTimeout, NEW how \in {"ok", "invalid_response"},
              Answers(d, how)
       PROVE  WaitInv(base)' /\ NoLater(base)
  <2>1. pc = "send" /\ pc' = "idle" /\ now' = now + d /\ last' = now
    BY <1>10 DEF Answers, Sent, Ended
  <2>2. TimeLeft(base) = RequestTimeout + Slack(base, attempt) /\ TimeLeft(base)' = 0
    BY <2>1 DEF TimeLeft
  <2>3. StepsLeft = MaxRetries - attempt /\ StepsLeft' = 0 /\ attempt \in 0..2
    BY <1>w, <2>1 DEF StepsLeft
  <2> QED BY <1>0, <1>t, <1>s, <2>1, <2>2, <2>3 DEF NoLater, WaitInv, MaxRetries
<1> QED
  BY <1>1, <1>2, <1>4, <1>5, <1>6, <1>7, <1>8, <1>9, <1>10 DEF Next

(* Every call ends, and in time.  The times a call depends on are kept on  *)
(* the client across calls (last request, token) and within one (wait_time,*)
(* which two paths double in different order and a 429 overwrites): each   *)
(* step of a call takes one from the steps that are left of it and never   *)
(* puts off the latest moment at which it can end.  So a call returns      *)
(* within the minimum interval, one token timeout, three request timeouts  *)
(* and six times the longest pause. (digikey.py:202-350)                   *)
THEOREM CallsEndInTime ==
  ASSUME NEW base \in Nat, SleepsAreBounded(base)
  PROVE  Spec => [][pc # "idle" => NoLater(base)]_vars
<1>1. Init => WaitInv(base)
  BY DigikeyAssumption DEF Init, WaitInv
<1>2. TypeOK /\ WaitInv(base) /\ [Next]_vars => WaitInv(base)'
  <2>1. UNCHANGED vars /\ WaitInv(base) => WaitInv(base)'
    BY DEF vars, WaitInv, WaitCap
  <2> QED BY <2>1, CallInTime
<1>3. TypeOK /\ WaitInv(base) /\ [Next]_vars => [pc # "idle" => NoLater(base)]_vars
  BY CallInTime
<1> QED BY TypeCorrect, <1>1, <1>2, <1>3, PTL DEF Spec
=============================================================================
