------------------------------ MODULE ScmClient ------------------------------
(***************************************************************************)
(* The Rust client (rust/src/scm-client): the builder that decides where a *)
(* bearer token may travel (config.rs), and the exchange of one request    *)
(* and its answer over the transport it builds (client.rs).                *)
(*                                                                         *)
(* A builder method consumes the builder: after an error there is no       *)
(* builder and no client.  The calls may come in any order and more than   *)
(* once; ScmCli makes them in one.  Bodies are counted in units of which   *)
(* Limit make max_response_bytes.                                          *)
(***************************************************************************)
EXTENDS Naturals

CONSTANTS
  Requests,  (* the requests a client makes                                 *)
  Urls,      (* the base URLs it is given, see Url                          *)
  Limit,     (* max_response_bytes                                          *)
  MaxBody    (* bound: the longest body of an answer                        *)

(* A URL that parses may still be refused.  bracketed is the host [::1],   *)
(* loopback an address such as 127.0.0.1.                                  *)
UrlFaults == {"none", "InvalidBaseUrl", "UnsupportedScheme", "BaseUrlCredentials",
              "BaseUrlQueryOrFragment"}
Hosts == {"remote", "localhost", "loopback", "bracketed"}
Url   == [fault : UrlFaults, scheme : {"http", "https"}, host : Hosts]

ASSUME ClientAssumption ==
  /\ Urls \subseteq Url
  /\ Limit \in Nat
  /\ MaxBody \in Nat

ConfigError ==
  {"InvalidBaseUrl", "UnsupportedScheme", "BaseUrlCredentials", "BaseUrlQueryOrFragment",
   "AuthenticatedRemoteHttp", "AuthenticatedLoopbackProxy", "InvalidBearerToken",
   "InvalidRootCertificate", "InvalidProxy", "ZeroBound", "HttpClientBuild"}

(* What the body of an answer is to decode: an envelope of one of the four *)
(* statuses (a search may be ok and find nothing), one of the two answers  *)
(* without a status (health, providers), or nothing the contract allows.   *)
Envelopes   == {"ok", "ok_empty", "partial", "not_found", "provider_error"}
ClientError == {"MissingBearerToken", "Transport", "ResponseTooLarge", "Http", "Contract"}
Nothing     == "nothing"

VARIABLES
  builder,     (* the ClientBuilder                                         *)
  client,      (* none yet, building, built, or why it was not built        *)
  systemProxy, (* whether the environment names a proxy                     *)
  stage,       (* stage[r]: idle, sent, reading or done                     *)
  bearing,     (* the requests that left with an Authorization header       *)
  success,     (* success[r]: the status of its answer is 2xx               *)
  size,        (* size[r]: the length of the body of its answer             *)
  got,         (* got[r]: how much of it has been read                      *)
  body,        (* body[r]: the kind of answer awaited, then what came       *)
  result       (* result[r]: what the caller is told                        *)

exchangeVars == <<stage, bearing, success, size, got, body, result>>
clientVars   == <<builder, client, systemProxy, exchangeVars>>

Builder == [url : Urls, token : BOOLEAN, proxy : BOOLEAN, zero : BOOLEAN]

ClientInit ==
  /\ builder \in [url : Urls, token : {FALSE}, proxy : {FALSE}, zero : {FALSE}]
  /\ client = "none"
  /\ systemProxy \in BOOLEAN
  /\ stage   = [r \in Requests |-> "idle"]
  /\ bearing = {}
  /\ success = [r \in Requests |-> FALSE]
  /\ size    = [r \in Requests |-> 0]
  /\ got     = [r \in Requests |-> 0]
  /\ body    = [r \in Requests |-> Nothing]
  /\ result  = [r \in Requests |-> Nothing]

----------------------------------------------------------------------------
(* The builder. *)

Refuse(error) == client' = error /\ UNCHANGED builder

(* ClientBuilder::new and parse_service_url. *)
NewBuilder ==
  /\ client = "none"
  /\ IF builder.url.fault = "none" THEN client' = "building" /\ UNCHANGED builder
                                   ELSE Refuse(builder.url.fault)
  /\ UNCHANGED <<systemProxy, exchangeVars>>

BearerToken(token) ==
  /\ client = "building"
  /\ IF token = "good" THEN builder' = [builder EXCEPT !.token = TRUE] /\ UNCHANGED client
                       ELSE Refuse("InvalidBearerToken")
  /\ UNCHANGED <<systemProxy, exchangeVars>>

(* The four setters of bounds; zero is refused by build.                   *)
SetBounds(zero) ==
  /\ client = "building"
  /\ builder' = [builder EXCEPT !.zero = zero]
  /\ UNCHANGED <<client, systemProxy, exchangeVars>>

AddRootCertificates(pem) ==
  /\ client = "building"
  /\ IF pem = "good" THEN UNCHANGED <<builder, client>> ELSE Refuse("InvalidRootCertificate")
  /\ UNCHANGED <<systemProxy, exchangeVars>>

SetProxy(proxy) ==
  /\ client = "building"
  /\ IF proxy = "good" THEN builder' = [builder EXCEPT !.proxy = TRUE] /\ UNCHANGED client
                       ELSE Refuse("InvalidProxy")
  /\ UNCHANGED <<systemProxy, exchangeVars>>

(* The host of [::1] is written with its brackets, which no address has.   *)
is_loopback(url) == url.host \in {"localhost", "loopback"}

(* validate_authenticated_scheme. *)
SchemeError(b) ==
  IF ~b.token \/ b.url.scheme = "https" THEN "none"
  ELSE IF ~is_loopback(b.url) THEN "AuthenticatedRemoteHttp"
  ELSE IF b.proxy THEN "AuthenticatedLoopbackProxy" ELSE "none"

(* The transport is put together last, and may refuse what it was given.   *)
Build ==
  /\ client = "building"
  /\ IF builder.zero THEN client' = "ZeroBound"
     ELSE IF SchemeError(builder) # "none" THEN client' = SchemeError(builder)
     ELSE client' \in {"built", "HttpClientBuild"}
  /\ UNCHANGED <<builder, systemProxy, exchangeVars>>

(* Mutant: the system's proxy serves every client without one of its own. *)
Proxied_Always == builder.proxy \/ systemProxy

(* Whether the transport goes through a proxy: the explicit one, or the    *)
(* system's unless no_proxy is set.                                        *)
Proxied ==
  builder.proxy \/
  (systemProxy /\ ~(builder.token /\ builder.url.scheme = "http" /\ is_loopback(builder.url)))

----------------------------------------------------------------------------
(* One exchange. *)

Finish(r, told) ==
  /\ stage'  = [stage EXCEPT ![r] = "done"]
  /\ result' = [result EXCEPT ![r] = told]

(* An error drops the response and what was read of it.                    *)
Fail(r, error) ==
  /\ Finish(r, error)
  /\ success' = [success EXCEPT ![r] = FALSE]
  /\ size'    = [size EXCEPT ![r] = 0]
  /\ got'     = [got EXCEPT ![r] = 0]
  /\ body'    = [body EXCEPT ![r] = Nothing]

Awaits(kind) == IF kind = "plain" THEN {"ok"} ELSE Envelopes

(* A request is made.  A body is encoded before anything else; an          *)
(* authenticated request wants a token.                                    *)
Ask(r, kind, authenticated, payload) ==
  /\ client = "built" /\ stage[r] = "idle"
  /\ IF payload = "invalid" THEN Finish(r, "Contract") /\ UNCHANGED <<bearing, body>>
     ELSE IF authenticated /\ ~builder.token
     THEN Finish(r, "MissingBearerToken") /\ UNCHANGED <<bearing, body>>
     ELSE /\ stage' = [stage EXCEPT ![r] = "sent"]
          /\ bearing' = IF authenticated THEN bearing \cup {r} ELSE bearing
          /\ body' = [body EXCEPT ![r] = kind]
          /\ UNCHANGED result
  /\ UNCHANGED <<builder, client, systemProxy, success, size, got>>

(* The head of the answer: a declared length beyond the limit is enough.   *)
(* A redirect is an answer like any other that is not 2xx.                 *)
Respond(r) ==
  /\ stage[r] = "sent"
  /\ \E n \in 0 .. MaxBody, declared \in BOOLEAN :
       IF declared /\ n > Limit THEN Fail(r, "ResponseTooLarge")
       ELSE /\ stage' = [stage EXCEPT ![r] = "reading"]
            /\ size'  = [size EXCEPT ![r] = n]
            /\ \E ok \in BOOLEAN : success' = [success EXCEPT ![r] = ok]
            /\ \E b \in Awaits(body[r]) \cup {"invalid"} : body' = [body EXCEPT ![r] = b]
            /\ UNCHANGED <<got, result>>
  /\ UNCHANGED <<builder, client, systemProxy, bearing>>

(* Mutant: what does not fit is cut off, and the rest is not waited for. *)
Chunk_Truncates(r) ==
  /\ stage[r] = "reading"
  /\ \E n \in 1 .. MaxBody :
       /\ got[r] + n <= size[r]
       /\ IF got[r] + n > Limit
          THEN /\ got' = [got EXCEPT ![r] = Limit]
               /\ Finish(r, IF success[r] THEN body[r] ELSE "Http")
          ELSE got' = [got EXCEPT ![r] = @ + n] /\ UNCHANGED <<stage, result>>
  /\ UNCHANGED <<builder, client, systemProxy, bearing, success, size, body>>

(* read_bounded takes the next chunk, of any length.                       *)
Chunk(r) ==
  /\ stage[r] = "reading"
  /\ \E n \in 1 .. MaxBody :
       /\ got[r] + n <= size[r]
       /\ IF got[r] + n > Limit THEN Fail(r, "ResponseTooLarge")
          ELSE /\ got' = [got EXCEPT ![r] = @ + n]
               /\ UNCHANGED <<stage, result, success, size, body>>
  /\ UNCHANGED <<builder, client, systemProxy, bearing>>

(* The status counts before the body; the body is decoded by the contract. *)
EndOfBody(r) ==
  /\ stage[r] = "reading" /\ got[r] = size[r]
  /\ IF ~success[r] THEN Fail(r, "Http")
     ELSE IF body[r] = "invalid" THEN Fail(r, "Contract")
     ELSE Finish(r, body[r]) /\ UNCHANGED <<success, size, got, body>>
  /\ UNCHANGED <<builder, client, systemProxy, bearing>>

(* No connection, a connection lost, the request's timeout.                *)
Break(r) ==
  /\ stage[r] \in {"sent", "reading"}
  /\ Fail(r, "Transport")
  /\ UNCHANGED <<builder, client, systemProxy, bearing>>

Exchange(r) == Respond(r) \/ Chunk(r) \/ EndOfBody(r) \/ Break(r)

----------------------------------------------------------------------------
ClientTypeOK ==
  /\ builder \in Builder
  /\ client \in {"none", "building", "built"} \cup ConfigError
  /\ systemProxy \in BOOLEAN
  /\ stage \in [Requests -> {"idle", "sent", "reading", "done"}]
  /\ bearing \subseteq Requests
  /\ success \in [Requests -> BOOLEAN]
  /\ size \in [Requests -> 0 .. MaxBody] /\ got \in [Requests -> 0 .. MaxBody]
  /\ body \in [Requests -> Envelopes \cup {"plain", "envelope", "invalid", Nothing}]
  /\ result \in [Requests -> Envelopes \cup ClientError \cup {Nothing}]

(* A bearer token leaves only inside TLS, or for this very machine without *)
(* a proxy in between, whichever builder calls were made in which order    *)
(* and whatever proxy the environment names (config.rs:98-124 and          *)
(* 185-211).                                                               *)
TokenStaysHome ==
  bearing # {} =>
    \/ builder.url.scheme = "https"
    \/ builder.url.host # "remote" /\ ~Proxied

(* An envelope the caller gets was answered with success and read to its   *)
(* last byte within the limit: an answer that is cut short, by the limit   *)
(* or by the connection, is an error however its bytes would decode        *)
(* (read_bounded and execute, client.rs:362-426).                          *)
AnswersAreWhole ==
  \A r \in Requests :
    /\ got[r] <= Limit
    /\ result[r] \in Envelopes => success[r] /\ got[r] = size[r] /\ result[r] = body[r]
=============================================================================
