---------------------------- MODULE ScmCliProofs ----------------------------
(***************************************************************************)
(* Theorems of the Rust client and its command line for any suppliers, any *)
(* window, any limits and any URLs.  Each part of the inductive invariant  *)
(* has a lemma that says how a step keeps it.  Three sorts of steps occur: *)
(* calls of the builder (nothing was asked yet), the start of a request    *)
(* (Ask), and what the transport does to one that is under way (Exchange). *)
(***************************************************************************)
EXTENDS ScmCli, TLAPS

(* The builder calls, whoever makes them.                                  *)
Building ==
  \/ NewBuilder \/ Build
  \/ \E t \in {"good", "bad", "empty", "unprintable", "malformed"} :
       BearerToken(t) \/ AddRootCertificates(t) \/ SetProxy(t)
  \/ \E zero \in BOOLEAN : SetBounds(zero)

AskMain ==
  \E kind \in {"plain", "envelope"}, authenticated \in BOOLEAN, payload \in {"valid", "invalid"} :
    Ask(Main, kind, authenticated, payload)

LEMMA Names ==
  /\ Requests = Suppliers \cup {Main} /\ Main \notin Suppliers
  /\ Limit \in Nat /\ MaxBody \in Nat /\ MaxCaBundle \in Nat /\ Commands \subseteq Command
  /\ Urls \subseteq Url
BY ClientAssumption, CliAssumption

-----------------------------------------------------------------------------
(* What a builder call leaves alone.                                       *)
LEMMA BuildingFrame ==
  ASSUME Building
  PROVE  /\ UNCHANGED <<systemProxy, exchangeVars>>
         /\ client \in {"none", "building"}
BY DEF Building, NewBuilder, Build, BearerToken, AddRootCertificates, SetProxy, SetBounds

LEMMA BuildingTypes ==
  ASSUME ClientTypeOK, Building
  PROVE  ClientTypeOK'
<1>1. /\ builder' \in Builder
      /\ client' \in {"none", "building", "built"} \cup ConfigError
  <2>1. ASSUME NewBuilder
        PROVE  /\ builder' \in Builder
               /\ client' \in {"none", "building", "built"} \cup ConfigError
    <3>1. builder.url.fault \in UrlFaults
      BY Names DEF ClientTypeOK, Builder, Url
    <3> QED BY <2>1, <3>1 DEF ClientTypeOK, NewBuilder, Refuse, UrlFaults, ConfigError
  <2>2. ASSUME Build
        PROVE  /\ builder' \in Builder
               /\ client' \in {"none", "building", "built"} \cup ConfigError
    BY <2>2 DEF ClientTypeOK, Build, SchemeError, ConfigError
  <2>3. ASSUME NEW t, BearerToken(t) \/ AddRootCertificates(t) \/ SetProxy(t)
        PROVE  /\ builder' \in Builder
               /\ client' \in {"none", "building", "built"} \cup ConfigError
    BY <2>3 DEF ClientTypeOK, BearerToken, AddRootCertificates, SetProxy, Refuse, Builder,
                ConfigError
  <2>4. ASSUME NEW zero \in BOOLEAN, SetBounds(zero)
        PROVE  /\ builder' \in Builder
               /\ client' \in {"none", "building", "built"} \cup ConfigError
    BY <2>4 DEF ClientTypeOK, SetBounds, Builder
  <2> QED BY <2>1, <2>2, <2>3, <2>4 DEF Building
<1> QED BY <1>1, BuildingFrame DEF ClientTypeOK, exchangeVars

LEMMA AskTypes ==
  ASSUME ClientTypeOK, NEW r \in Requests, NEW kind \in {"plain", "envelope"},
         NEW authenticated \in BOOLEAN, NEW payload, Ask(r, kind, authenticated, payload)
  PROVE  ClientTypeOK'
BY DEF ClientTypeOK, Ask, Finish, ClientError

LEMMA ExchangeTypes ==
  ASSUME ClientTypeOK, AnswerBooks, NEW r \in Requests, Exchange(r)
  PROVE  ClientTypeOK'
<1> USE Names
<1>f. ASSUME NEW error \in ClientError, Fail(r, error), UNCHANGED <<builder, client, systemProxy, bearing>>
      PROVE  ClientTypeOK'
  BY <1>f DEF ClientTypeOK, Fail, Finish
<1>1. ASSUME Respond(r)
      PROVE  ClientTypeOK'
  <2>1. PICK n \in 0 .. MaxBody, declared \in BOOLEAN :
             IF declared /\ n > Limit THEN Fail(r, "ResponseTooLarge")
             ELSE /\ stage' = [stage EXCEPT ![r] = "reading"]
                  /\ size'  = [size EXCEPT ![r] = n]
                  /\ \E ok \in BOOLEAN : success' = [success EXCEPT ![r] = ok]
                  /\ \E b \in Awaits(body[r]) \cup {"invalid"} : body' = [body EXCEPT ![r] = b]
                  /\ UNCHANGED <<got, result>>
    BY <1>1 DEF Respond
  <2>2. Awaits(body[r]) \subseteq Envelopes
    BY DEF Awaits, Envelopes
  <2> QED BY <1>1, <1>f, <2>1, <2>2 DEF Respond, ClientTypeOK, ClientError
<1>2. ASSUME Chunk(r)
      PROVE  ClientTypeOK'
  <2>1. size[r] \in 0 .. MaxBody /\ got[r] \in 0 .. MaxBody
    BY DEF ClientTypeOK
  <2>2. PICK n \in 1 .. MaxBody :
          /\ got[r] + n <= size[r]
          /\ IF got[r] + n > Limit THEN Fail(r, "ResponseTooLarge")
             ELSE /\ got' = [got EXCEPT ![r] = @ + n]
                  /\ UNCHANGED <<stage, result, success, size, body>>
    BY <1>2 DEF Chunk
  <2>3. got[r] + n \in 0 .. MaxBody
    BY <2>1, <2>2
  <2> QED BY <1>2, <1>f, <2>2, <2>3 DEF Chunk, ClientTypeOK, ClientError
<1>3. ASSUME EndOfBody(r)
      PROVE  ClientTypeOK'
  <2>1. body[r] # "invalid" => body[r] \in Envelopes
    BY <1>3 DEF EndOfBody, AnswerBooks
  <2> QED BY <1>3, <1>f, <2>1 DEF EndOfBody, Finish, ClientTypeOK, ClientError
<1>4. ASSUME Break(r)
      PROVE  ClientTypeOK'
  BY <1>4, <1>f DEF Break, ClientError
<1> QED BY <1>1, <1>2, <1>3, <1>4 DEF Exchange

-----------------------------------------------------------------------------
(* Answers are whole so far, before and after each step of an exchange.    *)
LEMMA AskAnswers ==
  ASSUME ClientTypeOK, AnswerBooks, NEW r \in Requests, NEW kind \in {"plain", "envelope"},
         NEW authenticated \in BOOLEAN, NEW payload, Ask(r, kind, authenticated, payload)
  PROVE  AnswerBooks'
<1> SUFFICES ASSUME NEW q \in Requests
             PROVE  /\ got'[q] <= Limit
                    /\ stage'[q] \in {"idle", "sent"} => got'[q] = 0
                    /\ stage'[q] = "sent" => body'[q] \in {"plain", "envelope"}
                    /\ stage'[q] = "reading" => body'[q] \in Envelopes \cup {"invalid"}
                    /\ stage'[q] = "done" => result'[q] \in Envelopes \cup ClientError
                    /\ result'[q] \in Envelopes =>
                         /\ stage'[q] = "done" /\ success'[q] /\ got'[q] = size'[q]
                         /\ result'[q] = body'[q]
  BY DEF AnswerBooks
<1> QED BY DEF ClientTypeOK, AnswerBooks, Ask, Finish, ClientError, Envelopes

LEMMA ExchangeAnswers ==
  ASSUME ClientTypeOK, AnswerBooks, NEW r \in Requests, Exchange(r)
  PROVE  AnswerBooks'
<1> USE Names
<1> SUFFICES ASSUME NEW q \in Requests
             PROVE  /\ got'[q] <= Limit
                    /\ stage'[q] \in {"idle", "sent"} => got'[q] = 0
                    /\ stage'[q] = "sent" => body'[q] \in {"plain", "envelope"}
                    /\ stage'[q] = "reading" => body'[q] \in Envelopes \cup {"invalid"}
                    /\ stage'[q] = "done" => result'[q] \in Envelopes \cup ClientError
                    /\ result'[q] \in Envelopes =>
                         /\ stage'[q] = "done" /\ success'[q] /\ got'[q] = size'[q]
                         /\ result'[q] = body'[q]
  BY DEF AnswerBooks
<1> DEFINE Kept == /\ got'[q] <= Limit
                   /\ stage'[q] \in {"idle", "sent"} => got'[q] = 0
                   /\ stage'[q] = "sent" => body'[q] \in {"plain", "envelope"}
                   /\ stage'[q] = "reading" => body'[q] \in Envelopes \cup {"invalid"}
                   /\ stage'[q] = "done" => result'[q] \in Envelopes \cup ClientError
                   /\ result'[q] \in Envelopes =>
                         /\ stage'[q] = "done" /\ success'[q] /\ got'[q] = size'[q]
                         /\ result'[q] = body'[q]
<1>f. ASSUME NEW error \in ClientError, Fail(r, error)
      PROVE  Kept
  BY <1>f DEF ClientTypeOK, AnswerBooks, Fail, Finish, ClientError, Envelopes
<1>1. ASSUME Respond(r)
      PROVE  Kept
  <2>1. PICK n \in 0 .. MaxBody, declared \in BOOLEAN :
             IF declared /\ n > Limit THEN Fail(r, "ResponseTooLarge")
             ELSE /\ stage' = [stage EXCEPT ![r] = "reading"]
                  /\ size'  = [size EXCEPT ![r] = n]
                  /\ \E ok \in BOOLEAN : success' = [success EXCEPT ![r] = ok]
                  /\ \E b \in Awaits(body[r]) \cup {"invalid"} : body' = [body EXCEPT ![r] = b]
                  /\ UNCHANGED <<got, result>>
    BY <1>1 DEF Respond
  <2>2. Awaits(body[r]) \subseteq Envelopes
    BY DEF Awaits, Envelopes
  <2> QED BY <1>1, <1>f, <2>1, <2>2 DEF Respond, ClientTypeOK, AnswerBooks, ClientError
<1>2. ASSUME Chunk(r)
      PROVE  Kept
  <2>1. size[r] \in 0 .. MaxBody /\ got[r] \in 0 .. MaxBody
    BY DEF ClientTypeOK
  <2>2. PICK n \in 1 .. MaxBody :
          /\ got[r] + n <= size[r]
          /\ IF got[r] + n > Limit THEN Fail(r, "ResponseTooLarge")
             ELSE /\ got' = [got EXCEPT ![r] = @ + n]
                  /\ UNCHANGED <<stage, result, success, size, body>>
    BY <1>2 DEF Chunk
  <2>3. CASE got[r] + n > Limit
    BY <1>f, <2>2, <2>3 DEF ClientError
  <2>4. CASE got[r] + n <= Limit
    BY <1>2, <2>1, <2>2, <2>4 DEF Chunk, ClientTypeOK, AnswerBooks
  <2> QED BY <2>1, <2>3, <2>4
<1>3. ASSUME EndOfBody(r)
      PROVE  Kept
  BY <1>3, <1>f DEF EndOfBody, Finish, ClientTypeOK, AnswerBooks, ClientError, Envelopes
<1>4. ASSUME Break(r)
      PROVE  Kept
  BY <1>4, <1>f DEF Break, ClientError
<1> QED BY <1>1, <1>2, <1>3, <1>4 DEF Exchange

(* Which requests have been asked changes with Ask alone, and an exchange  *)
(* touches its own request only, which is under way.                       *)
LEMMA AskFrame ==
  ASSUME ClientTypeOK, NEW r \in Requests, NEW kind, NEW authenticated \in BOOLEAN,
         NEW payload, Ask(r, kind, authenticated, payload)
  PROVE  /\ client = "built" /\ r \notin Asked /\ Asked' = Asked \cup {r}
         /\ UNCHANGED <<builder, client, systemProxy>>
         /\ bearing' = bearing \/ (bearing' = bearing \cup {r} /\ builder.token)
         /\ body' = body \/ body' = [body EXCEPT ![r] = kind]
         /\ \A q \in Requests \ {r} : stage'[q] = stage[q] /\ result'[q] = result[q]
BY DEF ClientTypeOK, Ask, Finish, Asked

LEMMA ExchangeFrame ==
  ASSUME ClientTypeOK, NEW r \in Requests, Exchange(r)
  PROVE  /\ stage[r] \in {"sent", "reading"} /\ Asked' = Asked
         /\ UNCHANGED <<builder, client, systemProxy, bearing>>
         /\ \/ body' = body \/ body' = [body EXCEPT ![r] = Nothing]
            \/ /\ stage[r] = "sent"
               /\ \E b \in Awaits(body[r]) \cup {"invalid", Nothing} : body' = [body EXCEPT ![r] = b]
         /\ \A q \in Requests \ {r} : stage'[q] = stage[q] /\ result'[q] = result[q]
<1>f. ASSUME NEW error, Fail(r, error), stage[r] # "idle"
      PROVE  /\ Asked' = Asked /\ body' = [body EXCEPT ![r] = Nothing]
             /\ \A q \in Requests \ {r} : stage'[q] = stage[q] /\ result'[q] = result[q]
  BY <1>f DEF ClientTypeOK, Fail, Finish, Asked
<1>1. ASSUME Respond(r)
      PROVE  /\ Asked' = Asked
             /\ body' = body \/ \E b \in Awaits(body[r]) \cup {"invalid", Nothing} :
                                  body' = [body EXCEPT ![r] = b]
             /\ \A q \in Requests \ {r} : stage'[q] = stage[q] /\ result'[q] = result[q]
  <2>1. PICK n \in 0 .. MaxBody, declared \in BOOLEAN :
             IF declared /\ n > Limit THEN Fail(r, "ResponseTooLarge")
             ELSE /\ stage' = [stage EXCEPT ![r] = "reading"]
                  /\ size'  = [size EXCEPT ![r] = n]
                  /\ \E ok \in BOOLEAN : success' = [success EXCEPT ![r] = ok]
                  /\ \E b \in Awaits(body[r]) \cup {"invalid"} : body' = [body EXCEPT ![r] = b]
                  /\ UNCHANGED <<got, result>>
    BY <1>1 DEF Respond
  <2>2. CASE declared /\ n > Limit
    BY <1>1, <1>f, <2>1, <2>2 DEF Respond
  <2>3. CASE ~(declared /\ n > Limit)
    BY <1>1, <2>1, <2>3 DEF Respond, ClientTypeOK, Asked
  <2> QED BY <2>2, <2>3
<1>2. ASSUME Chunk(r)
      PROVE  /\ Asked' = Asked
             /\ body' = body \/ body' = [body EXCEPT ![r] = Nothing]
             /\ \A q \in Requests \ {r} : stage'[q] = stage[q] /\ result'[q] = result[q]
  BY <1>2, <1>f DEF Chunk, Asked
<1>3. ASSUME EndOfBody(r)
      PROVE  /\ Asked' = Asked
             /\ body' = body \/ body' = [body EXCEPT ![r] = Nothing]
             /\ \A q \in Requests \ {r} : stage'[q] = stage[q] /\ result'[q] = result[q]
  BY <1>3, <1>f DEF EndOfBody, Finish, ClientTypeOK, Asked
<1>4. ASSUME Break(r)
      PROVE  /\ Asked' = Asked /\ body' = [body EXCEPT ![r] = Nothing]
             /\ \A q \in Requests \ {r} : stage'[q] = stage[q] /\ result'[q] = result[q]
  BY <1>4, <1>f DEF Break
<1>5. /\ UNCHANGED <<builder, client, systemProxy, bearing>>
      /\ stage[r] \in {"sent", "reading"} /\ (Respond(r) => stage[r] = "sent")
  BY DEF Exchange, Respond, Chunk, EndOfBody, Break
<1> QED BY <1>1, <1>2, <1>3, <1>4, <1>5 DEF Exchange

-----------------------------------------------------------------------------
(* Every step is one of four sorts to the client.                          *)
Asking ==
  \E r \in Requests, kind \in {"plain", "envelope"}, authenticated \in BOOLEAN,
     payload \in {"valid", "invalid"} : Ask(r, kind, authenticated, payload)

LEMMA StepSorts ==
  ASSUME TypeOK, [Next]_vars
  PROVE  \/ UNCHANGED clientVars \/ Building \/ Asking
         \/ \E r \in Requests : Exchange(r) /\ UNCHANGED cliVars
<1> DEFINE Sort == \/ UNCHANGED clientVars \/ Building \/ Asking
                   \/ \E r \in Requests : Exchange(r) /\ UNCHANGED cliVars
<1>1. ASSUME Cli
      PROVE  Sort
  <2>1. CASE Parse \/ OpenBundle \/ Resolve \/ AllSearched \/ Render
    BY <2>1 DEF Parse, OpenBundle, Resolve, AllSearched, Render
  <2>2. CASE Url_
    BY <2>2 DEF Url_, Building
  <2>3. CASE TakeToken
    BY <2>3 DEF TakeToken, Building, TypeOK
  <2>4. CASE ReadBundle
    <3>1. bundle.pem \in {"good", "malformed"}
      BY DEF TypeOK
    <3> QED BY <2>4, <3>1 DEF ReadBundle, Building
  <2>5. CASE BuildClient
    BY <2>5 DEF BuildClient, Building
  <2>6. CASE Execute
    <3>1. requires_authentication \in BOOLEAN
      BY DEF requires_authentication
    <3> QED BY <2>6, <3>1, Names DEF Execute, Asking
  <2>7. CASE \E s \in Suppliers : Search(s)
    BY <2>7, Names DEF Search, Asking
  <2> QED BY <1>1, <2>1, <2>2, <2>3, <2>4, <2>5, <2>6, <2>7 DEF Cli
<1>2. ASSUME Program
      PROVE  Sort
  BY <1>2, Names DEF Program, Building, Asking
<1>3. ASSUME Transport
      PROVE  Sort
  BY <1>3 DEF Transport
<1>4. ASSUME UNCHANGED vars \/ OpenPipe
      PROVE  Sort
  BY <1>4 DEF vars, OpenPipe
<1> QED BY <1>1, <1>2, <1>3, <1>4 DEF Next

(* A client that sends, or has a token out, was built with it; whole       *)
(* answers stay whole.                                                     *)
LEMMA ClientStep ==
  ASSUME TypeOK, ClientBooks, AnswerBooks, [Next]_vars
  PROVE  ClientTypeOK' /\ ClientBooks' /\ AnswerBooks'
<1>t. ClientTypeOK
  BY DEF TypeOK
<1>1. CASE UNCHANGED clientVars
  BY <1>1, <1>t DEF clientVars, exchangeVars, ClientTypeOK, ClientBooks, AnswerBooks, Asked,
                    SchemeError, is_loopback
<1>2. CASE Building
  <2>1. UNCHANGED <<systemProxy, exchangeVars>> /\ client \in {"none", "building"}
    BY <1>2, BuildingFrame
  <2>2. AnswerBooks' /\ Asked' = Asked /\ Asked = {} /\ bearing' = bearing /\ bearing = {}
    BY <2>1 DEF exchangeVars, AnswerBooks, ClientBooks, Asked
  <2>3. client' = "built" => SchemeError(builder)' = "none"
    <3>1. ASSUME Build, client' = "built"
          PROVE  SchemeError(builder)' = "none"
      BY <3>1 DEF Build, SchemeError, is_loopback
    <3>2. ASSUME ~Build
          PROVE  client' # "built"
      <4>1. builder.url.fault # "built"
        BY <1>t, Names DEF ClientTypeOK, Builder, Url, UrlFaults
      <4> QED BY <1>2, <2>1, <3>2, <4>1
              DEF Building, NewBuilder, BearerToken, AddRootCertificates, SetProxy,
                  SetBounds, Refuse
    <3> QED BY <3>1, <3>2
  <2> QED BY <1>2, <1>t, <2>2, <2>3, BuildingTypes DEF ClientBooks
<1>3. CASE Asking
  <2>1. PICK r \in Requests, kind \in {"plain", "envelope"}, authenticated \in BOOLEAN,
             payload \in {"valid", "invalid"} : Ask(r, kind, authenticated, payload)
    BY <1>3 DEF Asking
  <2>2. /\ client = "built" /\ Asked' = Asked \cup {r}
        /\ UNCHANGED <<builder, client, systemProxy>>
        /\ bearing' = bearing \/ (bearing' = bearing \cup {r} /\ builder.token)
    BY <2>1, <1>t, AskFrame
  <2>3. ClientBooks'
    BY <2>2 DEF ClientBooks, SchemeError, is_loopback
  <2> QED BY <1>t, <2>1, <2>3, AskTypes, AskAnswers
<1>4. CASE \E r \in Requests : Exchange(r) /\ UNCHANGED cliVars
  <2>1. PICK r \in Requests : Exchange(r)
    BY <1>4
  <2>2. Asked' = Asked /\ UNCHANGED <<builder, client, systemProxy, bearing>>
    BY <2>1, <1>t, ExchangeFrame
  <2>3. ClientBooks'
    BY <2>2 DEF ClientBooks, SchemeError, is_loopback
  <2> QED BY <1>t, <2>1, <2>3, ExchangeTypes, ExchangeAnswers
<1> QED BY <1>1, <1>2, <1>3, <1>4, StepSorts

(* The command line keeps its own variables well formed.                   *)
LEMMA CliTypeStep ==
  ASSUME TypeOK, ClientTypeOK', AnswerBooks, SearchBooks, BundleIsBounded, [Next]_vars
  PROVE  TypeOK' /\ BundleIsBounded'
<1>0. ASSUME UNCHANGED cliVars
      PROVE  TypeOK' /\ BundleIsBounded'
  BY <1>0 DEF TypeOK, BundleIsBounded, cliVars
<1>1. CASE Parse
  BY <1>1 DEF Parse, TypeOK, BundleIsBounded, Goto, Exit, Same, Stages
<1>2. CASE Url_
  BY <1>2 DEF Url_, TypeOK, BundleIsBounded, Continue, Goto, Exit, Same, Stages
<1>3. CASE TakeToken
  BY <1>3 DEF TakeToken, TypeOK, BundleIsBounded, Continue, Goto, Exit, Same, Stages
<1>4. CASE OpenBundle \/ OpenPipe
  BY <1>4 DEF OpenBundle, OpenPipe, TypeOK, BundleIsBounded, Goto, Exit, Same, Stages
<1>5. CASE ReadBundle
  <2>1. PICK length \in Sizes :
          IF length > MaxCaBundle THEN Exit(1) /\ UNCHANGED <<clientVars, bundle>>
          ELSE /\ bundle' = [bundle EXCEPT !.kept = length]
               /\ AddRootCertificates(IF length = 0 THEN "empty" ELSE bundle.pem)
               /\ Continue("build")
    BY <1>5 DEF ReadBundle
  <2>2. length \in Nat /\ MaxCaBundle \in Nat
    BY Names DEF Sizes
  <2> QED BY <1>5, <2>1, <2>2
          DEF ReadBundle, TypeOK, BundleIsBounded, Continue, Goto, Exit, Same, Stages
<1>6. CASE BuildClient
  BY <1>6 DEF BuildClient, TypeOK, BundleIsBounded, Continue, Goto, Exit, Same, Stages
<1>7. CASE Execute
  BY <1>7 DEF Execute, TypeOK, BundleIsBounded, Goto, Exit, Same, Stages
<1>8. CASE Resolve
  BY <1>8 DEF Resolve, TypeOK, BundleIsBounded, Goto, Exit, Same, Stages
<1>9. CASE AllSearched
  BY <1>9 DEF AllSearched, TypeOK, BundleIsBounded, Goto, Exit, Same, Stages
<1>10. CASE Render
  <2>1. exit_code \in {0, 1, 3}
    BY DEF exit_code
  <2>2. \A s \in targets : note(s) \in Envelopes \cup {"client_error", Nothing}
    <3> SUFFICES ASSUME NEW s \in targets
                 PROVE  note(s) \in Envelopes \cup {"client_error", Nothing}
      OBVIOUS
    <3>1. result[s] \in Envelopes \cup ClientError \cup {Nothing}
      BY Names DEF TypeOK, ClientTypeOK
    <3> QED BY <3>1 DEF note
  <2> QED BY <1>10, <2>1, <2>2 DEF Render, TypeOK, BundleIsBounded, Exit, Same, Stages
<1>11. CASE \/ (\E s \in Suppliers : Search(s)) \/ Program \/ Transport \/ UNCHANGED vars
  BY <1>0, <1>11 DEF Search, Program, Transport, vars
<1> QED BY <1>1, <1>2, <1>3, <1>4, <1>5, <1>6, <1>7, <1>8, <1>9, <1>10, <1>11 DEF Next, Cli

-----------------------------------------------------------------------------
(* Before anything is asked, main goes on to the next stage or exits with  *)
(* an error.                                                               *)
Early ==
  Parse \/ Url_ \/ TakeToken \/ OpenBundle \/ OpenPipe \/ ReadBundle \/ BuildClient

LEMMA EarlyFrame ==
  ASSUME Early
  PROVE  /\ driver = "cli" /\ pc \in {"parse", "url", "token", "open", "read", "build"}
         /\ UNCHANGED <<exchangeVars, driver, command, requested, targets, configured, rows, notes>>
         /\ \/ pc' \in {"url", "token", "open", "read", "build", "execute"} /\ code' = code
            \/ pc' = "exited" /\ code' \in {0, 1, 2} /\ (code' = 0 => command = "help")
<1>1. CASE Parse
  BY <1>1 DEF Parse, At, Goto, Exit, Same, clientVars
<1>2. CASE Url_
  BY <1>2 DEF Url_, NewBuilder, Continue, At, Goto, Exit, Same
<1>3. CASE TakeToken
  BY <1>3 DEF TakeToken, BearerToken, Continue, At, Goto, Exit, Same, clientVars
<1>4. CASE OpenBundle \/ OpenPipe
  BY <1>4 DEF OpenBundle, OpenPipe, At, Goto, Exit, Same, clientVars
<1>5. CASE ReadBundle
  BY <1>5 DEF ReadBundle, AddRootCertificates, Continue, At, Goto, Exit, Same, clientVars
<1>6. CASE BuildClient
  BY <1>6 DEF BuildClient, Build, Continue, At, Goto, Exit, Same, clientVars
<1> QED BY <1>1, <1>2, <1>3, <1>4, <1>5, <1>6 DEF Early

(* Building, and every step of a program, leaves the searches alone.       *)
LEMMA ProgramFrame ==
  ASSUME TypeOK, Program
  PROVE  /\ driver = "program" /\ UNCHANGED cliVars
         /\ Asked' = Asked \/ Asked' = Asked \cup {Main}
<1>1. driver = "program" /\ UNCHANGED cliVars
  BY DEF Program
<1>2. CASE Building
  BY <1>1, <1>2, BuildingFrame DEF exchangeVars, Asked
<1>3. ASSUME NEW authenticated \in BOOLEAN, NEW payload \in {"valid", "invalid"},
             Ask(Main, "envelope", authenticated, payload)
      PROVE  Asked' = Asked \cup {Main}
  BY <1>3, AskFrame, Names DEF TypeOK
<1> QED BY <1>1, <1>2, <1>3 DEF Program, Building

(* A search asks the suppliers that were resolved for it.                  *)
LEMMA SearchStep ==
  ASSUME TypeOK, AnswerBooks, SearchBooks, [Next]_vars
  PROVE  SearchBooks'
<1> USE Names
<1>t. ClientTypeOK /\ Main \in Requests
  BY DEF TypeOK
<1>1. CASE Early
  <2>1. Asked' = Asked /\ targets = {}
    BY <1>1, EarlyFrame DEF exchangeVars, Asked, SearchBooks
  <2> QED BY <1>1, <2>1, EarlyFrame DEF exchangeVars, SearchBooks, At
<1>2. CASE Execute
  <2>1. PICK payload \in {"valid", "invalid"} :
          Ask(Main, IF command \in {"health", "providers", "search"} THEN "plain" ELSE "envelope",
              requires_authentication, payload)
    BY <1>2 DEF Execute
  <2>2. /\ Asked' = Asked \cup {Main}
        /\ \/ body' = body
           \/ body' = [body EXCEPT ![Main] =
                          IF command \in {"health", "providers", "search"} THEN "plain" ELSE "envelope"]
    BY <1>t, <2>1, AskFrame DEF requires_authentication
  <2>3. At("execute") /\ targets = {}
    BY <1>2 DEF Execute, SearchBooks, At
  <2>4. body \in [Requests -> Envelopes \cup {"plain", "envelope", "invalid", Nothing}]
    BY <1>t DEF ClientTypeOK
  <2>5. driver' = "cli" /\ command' = "search" => body'[Main] \in {Nothing, "plain", "ok", "invalid"}
    BY <1>2, <1>t, <2>2, <2>3, <2>4 DEF Execute, Same, SearchBooks, At
  <2> QED BY <1>2, <2>2, <2>3, <2>5 DEF Execute, Same, Goto, SearchBooks, At
<1>3. CASE Resolve
  <2>1. targets = {} /\ Asked' = Asked /\ UNCHANGED <<body, driver, command, requested>>
    BY <1>3 DEF Resolve, Same, At, SearchBooks, clientVars, exchangeVars, Asked
  <2>2. targets' \subseteq configured' /\ (requested # {} => targets' \subseteq requested)
    BY <1>3, <2>1 DEF Resolve
  <2>3. pc' \in {"search", "exited"} /\ driver = "cli" /\ command = "search"
    BY <1>3 DEF Resolve, Goto, Exit, At, SearchBooks
  <2> QED BY <2>1, <2>2, <2>3 DEF SearchBooks, At
<1>4. CASE AllSearched \/ Render
  <2>1. /\ UNCHANGED <<body, driver, command, requested, targets, configured>>
        /\ Asked' = Asked /\ driver = "cli" /\ pc' \in {"render", "exited"}
    BY <1>4 DEF AllSearched, Render, Same, Goto, Exit, At, clientVars, exchangeVars, Asked
  <2> QED BY <1>4, <2>1 DEF SearchBooks, AllSearched, Render, At
<1>5. ASSUME NEW s \in Suppliers, Search(s)
      PROVE  SearchBooks'
  <2>1. Ask(s, "envelope", TRUE, "valid") /\ s \in Requests /\ s # Main
    BY <1>5 DEF Search
  <2>2. /\ Asked' = Asked \cup {s}
        /\ body' = body \/ body' = [body EXCEPT ![s] = "envelope"]
    BY <1>t, <2>1, AskFrame
  <2>3. body'[Main] = body[Main]
    BY <1>t, <2>1, <2>2 DEF ClientTypeOK
  <2> QED BY <1>5, <2>2, <2>3 DEF Search, cliVars, SearchBooks, At
<1>6. CASE Program
  BY <1>6, ProgramFrame DEF cliVars, SearchBooks, At
<1>7. ASSUME NEW r \in Requests, Exchange(r), UNCHANGED cliVars
      PROVE  SearchBooks'
  <2>1. /\ Asked' = Asked
        /\ \/ body' = body \/ body' = [body EXCEPT ![r] = Nothing]
           \/ /\ stage[r] = "sent"
              /\ \E b \in Awaits(body[r]) \cup {"invalid", Nothing} : body' = [body EXCEPT ![r] = b]
    BY <1>t, <1>7, ExchangeFrame
  <2>2. ASSUME driver = "cli", command = "search"
        PROVE  body'[Main] \in {Nothing, "plain", "ok", "invalid"}
    <3>1. body[Main] \in {Nothing, "plain", "ok", "invalid"}
      BY <2>2 DEF SearchBooks
    <3>2. stage[Main] = "sent" => Awaits(body[Main]) = {"ok"}
      BY <3>1 DEF AnswerBooks, Awaits, Nothing
    <3>3. body \in [Requests -> Envelopes \cup {"plain", "envelope", "invalid", Nothing}]
      BY <1>t DEF ClientTypeOK
    <3>4. CASE r = Main
      BY <2>1, <3>1, <3>2, <3>3, <3>4
    <3>5. CASE r # Main
      BY <1>t, <2>1, <3>1, <3>3, <3>5
    <3> QED BY <3>4, <3>5
  <2> QED BY <1>7, <2>1, <2>2 DEF cliVars, SearchBooks, At
<1>8. CASE UNCHANGED vars
  BY <1>8 DEF vars, clientVars, exchangeVars, cliVars, SearchBooks, At, Asked
<1> QED BY <1>1, <1>2, <1>3, <1>4, <1>5, <1>6, <1>7, <1>8 DEF Next, Cli, Early, Transport

-----------------------------------------------------------------------------
(* What is rendered, and the exit code, were read off settled requests.    *)
LEMMA ExitStep ==
  ASSUME TypeOK, AnswerBooks, SearchBooks, ExitBooks, [Next]_vars
  PROVE  ExitBooks'
<1> USE Names
<1>t. ClientTypeOK /\ Main \in Requests
  BY DEF TypeOK
<1>1. CASE Early
  <2>1. /\ Asked' = {} /\ targets' = {} /\ code = 0
        /\ UNCHANGED <<driver, command>> /\ driver = "cli"
    BY <1>1, EarlyFrame DEF exchangeVars, Asked, ExitBooks, At
  <2>2. \/ pc' \in {"url", "token", "open", "read", "build", "execute"} /\ code' = code
        \/ pc' = "exited" /\ code' \in {0, 1, 2} /\ (code' = 0 => command = "help")
    BY <1>1, EarlyFrame
  <2> QED BY <2>1, <2>2 DEF ExitBooks, At, NeverAsked
<1>2. CASE Execute
  <2>1. Main \in Asked'
    <3>1. PICK payload \in {"valid", "invalid"} :
            Ask(Main, IF command \in {"health", "providers", "search"} THEN "plain" ELSE "envelope",
                requires_authentication, payload)
      BY <1>2 DEF Execute
    <3> QED BY <1>t, <3>1, AskFrame DEF requires_authentication
  <2> QED BY <1>2, <2>1 DEF Execute, Goto, Same, At, ExitBooks
<1>3. CASE Resolve
  <2>1. At("status") /\ command = "search" /\ stage[Main] = "done" /\ code = 0
    BY <1>3 DEF Resolve, SearchBooks, ExitBooks, At
  <2>2. pc' = "search" => result[Main] = "ok"
    <3>1. SUFFICES ASSUME pc' = "search" PROVE result[Main] = "ok"
      OBVIOUS
    <3>2. result[Main] \notin ClientError
      BY <1>3, <3>1 DEF Resolve, Exit
    <3>3. result[Main] = body[Main] /\ result[Main] \in Envelopes
      BY <2>1, <3>2 DEF AnswerBooks
    <3> QED BY <2>1, <3>3 DEF SearchBooks, At, Envelopes, Nothing
  <2>3. /\ UNCHANGED <<stage, result, driver, command, requested>>
        /\ \/ pc' = "search" /\ code' = 0
           \/ /\ pc' = "exited" /\ code' = 1 /\ targets' = targets
              /\ result[Main] \in ClientError \/ NoSuchSupplier'
    BY <1>3, <2>1 DEF Resolve, Goto, Exit, Same, clientVars, exchangeVars, NoSuchSupplier
  <2>4. targets = {} /\ Asked = {Main} /\ Asked' = Asked
    BY <2>1, <2>3 DEF SearchBooks, Asked, At
  <2> QED BY <2>1, <2>2, <2>3, <2>4 DEF ExitBooks, At, Unresolved
<1>4. CASE AllSearched
  BY <1>4 DEF AllSearched, Goto, Same, clientVars, exchangeVars, At, ExitBooks, Settled, Asked
<1>5. CASE Render
  <2>1. /\ At("render") /\ UNCHANGED <<stage, result, targets, driver, command>>
        /\ pc' = "exited" /\ code' = exit_code
    BY <1>5 DEF Render, Exit, Same, clientVars, exchangeVars
  <2>2. Settled
    <3>1. CASE command = "search"
      BY <2>1, <3>1 DEF ExitBooks
    <3>2. CASE command # "search"
      BY <1>5, <3>2 DEF Render, SearchBooks, Settled
    <3> QED BY <3>1, <3>2
  <2>3. Settled' /\ code' = exit_code'
    BY <2>1, <2>2 DEF Settled, exit_code
  <2>4. ASSUME command' = "search"
        PROVE  /\ rows' = {s \in targets' : result'[s] \in {"ok", "partial"}}
               /\ \A s \in targets' : notes'[s] = note(s)'
    <3>1. /\ rows' = {s \in targets : result[s] \in {"ok", "partial"}}
          /\ notes' = [s \in Suppliers |-> IF s \in targets THEN note(s) ELSE Nothing]
      BY <1>5, <2>1, <2>4 DEF Render
    <3>2. targets \subseteq Suppliers
      BY DEF TypeOK
    <3> QED BY <2>1, <3>1, <3>2 DEF note
  <2> QED BY <2>1, <2>3, <2>4 DEF ExitBooks, At, Rendered
<1>6. ASSUME NEW s \in Suppliers, Search(s)
      PROVE  ExitBooks'
  <2>1. /\ At("search") /\ UNCHANGED cliVars /\ s # Main /\ s \in Requests
        /\ Ask(s, "envelope", TRUE, "valid")
    BY <1>6 DEF Search
  <2>2. stage'[Main] = stage[Main] /\ result'[Main] = result[Main]
    BY <1>t, <2>1, AskFrame
  <2> QED BY <2>1, <2>2 DEF cliVars, ExitBooks, At
<1>7. CASE Program
  BY <1>7, ProgramFrame DEF cliVars, ExitBooks, At
<1>8. ASSUME NEW r \in Requests, Exchange(r), UNCHANGED cliVars
      PROVE  ExitBooks'
  <2>1. /\ Asked' = Asked /\ r \in Asked /\ stage[r] # "done"
        /\ \A q \in Requests \ {r} : stage'[q] = stage[q] /\ result'[q] = result[q]
    BY <1>t, <1>8, ExchangeFrame DEF Asked
  <2>2. ~Settled /\ ~NeverAsked /\ ~Unresolved
    BY <2>1 DEF Settled, SearchBooks, NeverAsked, Unresolved
  <2>3. At("search") => r # Main
    BY <2>1 DEF ExitBooks
  <2> QED BY <1>8, <1>t, <2>1, <2>2, <2>3 DEF cliVars, ExitBooks, At, Rendered
<1>9. CASE UNCHANGED vars
  BY <1>9 DEF vars, clientVars, exchangeVars, cliVars, ExitBooks, At, Settled, Asked,
              exit_code, note, NeverAsked, Unresolved, NoSuchSupplier, Rendered
<1> QED BY <1>1, <1>2, <1>3, <1>4, <1>5, <1>6, <1>7, <1>8, <1>9
        DEF Next, Cli, Early, Transport

-----------------------------------------------------------------------------
LEMMA Initially == Init => IInv
<1> SUFFICES ASSUME Init PROVE IInv
  OBVIOUS
<1> USE Names
<1>1. ClientTypeOK
  <2>1. builder \in Builder
    BY DEF Init, ClientInit, Builder
  <2>2. 0 \in 0 .. MaxBody
    OBVIOUS
  <2> QED BY <2>1, <2>2 DEF Init, ClientInit, ClientTypeOK
<1>2. TypeOK
  <2>1. bundle \in [file : Files, pem : {"good", "malformed"}, kept : Sizes]
    <3>1. 0 \in Sizes
      BY DEF Sizes
    <3> QED BY <3>1 DEF Init
  <2>2. /\ driver \in {"cli", "program"} /\ pc \in Stages /\ command \in Command
        /\ requested \subseteq Suppliers /\ targets \subseteq Suppliers
        /\ configured \subseteq Suppliers /\ rows \subseteq Suppliers
        /\ token \in {"missing", "not_unicode", "empty", "unprintable", "good"}
        /\ code \in {0, 1, 2, 3}
    BY DEF Init, Stages
  <2>3. notes \in [Suppliers -> Envelopes \cup {"client_error", Nothing}]
    BY DEF Init
  <2> QED BY <1>1, <2>1, <2>2, <2>3 DEF TypeOK
<1>3. Asked = {}
  BY DEF Init, ClientInit, Asked
<1>4. ClientBooks
  BY <1>3 DEF Init, ClientInit, ClientBooks
<1>5. AnswerBooks
  BY DEF Init, ClientInit, AnswerBooks, Nothing, Envelopes
<1>6. SearchBooks
  BY <1>3 DEF Init, ClientInit, SearchBooks, At
<1>7. ExitBooks
  BY <1>3 DEF Init, ExitBooks, At
<1>8. BundleIsBounded
  BY DEF Init, BundleIsBounded
<1> QED BY <1>2, <1>4, <1>5, <1>6, <1>7, <1>8 DEF IInv

(* Client, exchanges, searches and exit keep their books together, for any *)
(* number of suppliers, any window and any limits.                         *)
THEOREM Inductive == Spec => []IInv
<1>1. IInv /\ [Next]_vars => IInv'
  BY ClientStep, CliTypeStep, SearchStep, ExitStep DEF IInv
<1> QED BY Initially, <1>1, PTL DEF Spec

(* Every variable of client and command line keeps its type.               *)
THEOREM TypeCorrect == Spec => []TypeOK
BY Inductive, PTL DEF IInv

(* No order of builder calls, and no proxy of the environment, lets a      *)
(* bearer token leave in the clear. (config.rs:98-124 and 185-211)         *)
THEOREM TokensStayHome == Spec => []TokenStaysHome
<1>1. IInv => TokenStaysHome
  <2> SUFFICES ASSUME IInv, bearing # {}
               PROVE  \/ builder.url.scheme = "https"
                      \/ builder.url.host # "remote" /\ ~Proxied
    BY DEF TokenStaysHome
  <2>1. builder.token /\ SchemeError(builder) = "none"
    BY DEF IInv, ClientBooks
  <2>2. builder.url.scheme \in {"http", "https"}
    BY Names DEF IInv, TypeOK, ClientTypeOK, Builder, Url
  <2> QED BY <2>1, <2>2 DEF SchemeError, is_loopback, Proxied
<1> QED BY Inductive, <1>1, PTL

(* Whatever a service declares, sends and breaks off, an envelope that is  *)
(* handed out was read whole and within the limit. (client.rs:362-426)     *)
THEOREM AnswersComeWhole == Spec => []AnswersAreWhole
<1>1. IInv => AnswersAreWhole
  BY DEF IInv, AnswerBooks, AnswersAreWhole
<1> QED BY Inductive, <1>1, PTL

(* The file may change between the look at its length and its reading.     *)
(* (main.rs:162-179)                                                       *)
THEOREM BundlesAreBounded == Spec => []BundleIsBounded
BY Inductive, PTL DEF IInv

(* No supplier is searched that the service did not report as configured   *)
(* or, when some were asked for, was not asked for. (main.rs:242-268)      *)
THEOREM SearchesAreResolved == Spec => []OnlyConfigured
<1>1. IInv => OnlyConfigured
  BY Names DEF IInv, SearchBooks, OnlyConfigured, Asked
<1> QED BY Inductive, <1>1, PTL

(* Every exit code means what scripts are told it means.                   *)
(* (output.rs:53-116)                                                      *)
THEOREM ExitCodesTell == Spec => []ExitTellsTheWorst
<1>1. IInv => ExitTellsTheWorst
  <2> SUFFICES ASSUME IInv, At("exited"), ~NeverAsked, ~Unresolved
               PROVE  /\ code = 0 => /\ Asked # {} /\ client = "built"
                                     /\ \A r \in Asked : result[r] \in Envelopes \ {"provider_error"}
                      /\ code = 1 => \E r \in Asked : result[r] \in ClientError
                      /\ code # 2
                      /\ code = 3 => /\ \A r \in Asked : result[r] \in Envelopes
                                     /\ \E r \in Asked : result[r] = "provider_error"
    BY DEF ExitTellsTheWorst, NeverAsked, Unresolved
  <2> USE Names
  <2>1. /\ Settled /\ code = exit_code /\ Asked \subseteq targets \cup {Main}
        /\ (targets # {} => command = "search") /\ targets \subseteq Suppliers
    BY DEF IInv, ExitBooks, Rendered, SearchBooks, TypeOK
  <2>2. Asked = targets \cup {Main}
    BY <2>1 DEF Settled, Asked
  <2>3. client = "built"
    BY <2>2 DEF IInv, ClientBooks
  <2>4. \A r \in Asked : result[r] \in Envelopes \cup ClientError
    BY <2>1, <2>2 DEF IInv, AnswerBooks, Settled
  <2>5. CASE command = "search"
    <3>1. result[Main] = "ok"
      BY <2>1, <2>5 DEF Settled
    <3> QED BY <2>1, <2>2, <2>3, <2>4, <2>5, <3>1 DEF exit_code, Envelopes
  <2>6. CASE command # "search"
    BY <2>1, <2>2, <2>3, <2>4, <2>6 DEF exit_code
  <2> QED BY <2>5, <2>6
<1> QED BY Inductive, <1>1, PTL

(* Whatever a search met at a supplier is printed, whichever exit code the *)
(* worst of them makes; nothing is said only of a supplier that answered   *)
(* ok and had no parts. (output.rs:100-115 and 166-207)                    *)
THEOREM EverySupplierIsHeardOf == Spec => []NobodyIsSilent
<1>1. IInv => NobodyIsSilent
  <2> SUFFICES ASSUME IInv, At("exited"), command = "search", NEW s \in targets
               PROVE  /\ s \in rows \/ notes[s] # Nothing \/ result[s] = "ok_empty"
                      /\ result[s] \in {"partial", "not_found", "provider_error"} =>
                           notes[s] = result[s]
                      /\ result[s] \in ClientError => notes[s] = "client_error"
    BY DEF NobodyIsSilent
  <2>1. /\ rows = {q \in targets : result[q] \in {"ok", "partial"}}
        /\ notes[s] = note(s) /\ stage[s] = "done" /\ s \in Requests
    BY Names DEF IInv, ExitBooks, NeverAsked, Unresolved, Rendered, Settled, TypeOK
  <2>2. result[s] \in Envelopes \cup ClientError
    BY <2>1 DEF IInv, AnswerBooks
  <2> QED BY <2>1, <2>2 DEF note, Envelopes, ClientError, Nothing
<1> QED BY Inductive, <1>1, PTL

-----------------------------------------------------------------------------
(* How far a command is from its exit: the stages main goes through, and   *)
(* how far its requests are.                                               *)
Ahead == [parse |-> 10, url |-> 9, token |-> 8, open |-> 7, read |-> 6, build |-> 5,
          execute |-> 4, status |-> 3, search |-> 2, render |-> 1, exited |-> 0]
Togo  == [idle |-> 3, sent |-> 2, reading |-> 1, done |-> 0]

(* One request moves on, or more of its answer is read.                    *)
Advances(r) ==
  \/ Togo[stage'[r]] < Togo[stage[r]]
  \/ /\ stage[r] = "reading" /\ stage'[r] = "reading" /\ size'[r] = size[r]
     /\ got[r] < got'[r] /\ got'[r] <= size[r]

Nearer ==
  driver = "cli" =>
    \/ Ahead[pc'] < Ahead[pc]
    \/ /\ pc' = pc
       /\ \E r \in Requests :
            /\ Advances(r)
            /\ \A q \in Requests \ {r} : UNCHANGED <<stage[q], size[q], got[q]>>

LEMMA AskAdvances ==
  ASSUME ClientTypeOK, NEW r \in Requests, NEW kind, NEW authenticated \in BOOLEAN,
         NEW payload, Ask(r, kind, authenticated, payload)
  PROVE  /\ Advances(r)
         /\ \A q \in Requests \ {r} : UNCHANGED <<stage[q], size[q], got[q]>>
<1>1. /\ stage[r] = "idle" /\ stage'[r] \in {"sent", "done"}
      /\ size' = size /\ got' = got
      /\ \A q \in Requests \ {r} : stage'[q] = stage[q]
  BY DEF ClientTypeOK, Ask, Finish
<1> QED BY <1>1 DEF Advances, Togo

LEMMA ExchangeAdvances ==
  ASSUME ClientTypeOK, NEW r \in Requests, Exchange(r)
  PROVE  /\ Advances(r)
         /\ \A q \in Requests \ {r} : UNCHANGED <<stage[q], size[q], got[q]>>
<1> DEFINE Others == \A q \in Requests \ {r} : UNCHANGED <<stage[q], size[q], got[q]>>
<1>1. stage[r] \in {"sent", "reading"} /\ size[r] \in Nat /\ got[r] \in Nat
  BY Names, ExchangeFrame DEF ClientTypeOK
<1>2. ASSUME NEW error, Fail(r, error)
      PROVE  Advances(r) /\ Others
  <2>1. stage'[r] = "done" /\ Others
    BY <1>2 DEF Fail, Finish, ClientTypeOK
  <2> QED BY <1>1, <2>1 DEF Advances, Togo
<1>3. CASE Respond(r)
  <2>1. CASE Fail(r, "ResponseTooLarge")
    BY <2>1, <1>2
  <2>2. CASE ~Fail(r, "ResponseTooLarge")
    <3>1. stage[r] = "sent" /\ stage'[r] = "reading" /\ Others
      BY <1>3, <2>2 DEF Respond, ClientTypeOK
    <3> QED BY <3>1 DEF Advances, Togo
  <2> QED BY <2>1, <2>2
<1>4. CASE Chunk(r)
  <2>1. CASE Fail(r, "ResponseTooLarge")
    BY <2>1, <1>2
  <2>2. CASE ~Fail(r, "ResponseTooLarge")
    <3>1. PICK n \in 1 .. MaxBody :
            /\ got[r] + n <= size[r] /\ got' = [got EXCEPT ![r] = @ + n]
            /\ stage[r] = "reading" /\ UNCHANGED <<stage, size>>
      BY <1>4, <2>2 DEF Chunk
    <3>2. got'[r] = got[r] + n /\ \A q \in Requests \ {r} : got'[q] = got[q]
      BY <3>1 DEF ClientTypeOK
    <3> QED BY <1>1, <3>1, <3>2, Names DEF Advances
  <2> QED BY <2>1, <2>2
<1>5. CASE EndOfBody(r)
  <2>1. CASE \E error : Fail(r, error)
    BY <2>1, <1>2
  <2>2. CASE ~\E error : Fail(r, error)
    <3>1. stage[r] = "reading" /\ stage'[r] = "done" /\ Others
      BY <1>5, <2>2 DEF EndOfBody, Finish, ClientTypeOK
    <3> QED BY <3>1 DEF Advances, Togo
  <2> QED BY <2>1, <2>2
<1>6. CASE Break(r)
  BY <1>2, <1>6 DEF Break
<1> QED BY <1>3, <1>4, <1>5, <1>6 DEF Exchange

LEMMA EarlyAhead ==
  ASSUME Early
  PROVE  Ahead[pc'] < Ahead[pc]
<1>1. \/ pc = "parse" /\ pc' \in {"url", "exited"}
      \/ pc = "url" /\ pc' \in {"token", "exited"}
      \/ pc = "token" /\ pc' \in {"open", "exited"}
      \/ pc = "open" /\ pc' \in {"read", "build", "exited"}
      \/ pc = "read" /\ pc' \in {"build", "exited"}
      \/ pc = "build" /\ pc' \in {"execute", "exited"}
  BY DEF Early, Parse, Url_, TakeToken, OpenBundle, OpenPipe, ReadBundle, BuildClient, Continue, At, Goto, Exit
<1> QED BY <1>1 DEF Ahead

(* Nothing a service answers, and nothing in the environment, makes a      *)
(* command turn in circles: every step takes it to a later stage, or takes *)
(* one request further and leaves the others alone, and a request that is  *)
(* done is not made again. (main.rs:90-270, client.rs:362-426)             *)
THEOREM CommandsEnd == Spec => [][Nearer]_vars
<1>1. IInv /\ [Next]_vars => [Nearer]_vars
  <2> SUFFICES ASSUME IInv, Next, driver = "cli" PROVE Nearer
    BY DEF Nearer
  <2>0. ClientTypeOK /\ Main \in Requests /\ pc \in Stages
    BY Names DEF IInv, TypeOK
  <2>1. CASE Early
    BY <2>1, EarlyAhead DEF Nearer
  <2>2. CASE Execute \/ Resolve \/ AllSearched \/ Render
    <3>1. \/ pc = "execute" /\ pc' \in {"status", "render"}
          \/ pc = "status" /\ pc' \in {"exited", "search"}
          \/ pc = "search" /\ pc' = "render"
          \/ pc = "render" /\ pc' = "exited"
      BY <2>2 DEF Execute, Resolve, AllSearched, Render, At, Goto, Exit
    <3> QED BY <3>1 DEF Nearer, Ahead
  <2>3. ASSUME NEW s \in Suppliers, Search(s) PROVE Nearer
    <3>1. s \in Requests /\ Ask(s, "envelope", TRUE, "valid") /\ pc' = pc
      BY <2>3, Names DEF Search, cliVars
    <3> QED BY <2>0, <3>1, AskAdvances DEF Nearer
  <2>4. CASE Transport
    BY <2>0, <2>4, ExchangeAdvances DEF Transport, cliVars, Nearer
  <2> QED BY <2>1, <2>2, <2>3, <2>4 DEF Next, Cli, Early, Program
<1> QED BY <1>1, Inductive, PTL DEF Spec
=============================================================================
