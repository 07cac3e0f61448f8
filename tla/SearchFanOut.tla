---------------------------- MODULE SearchFanOut ----------------------------
(***************************************************************************)
(* search_all of the clients against the service's /v1/search endpoint.    *)
(*                                                                         *)
(* A call sends one request per supplier of its list and collects the      *)
(* answers in a map.  The Rust client pulls suppliers from the list into a *)
(* window of at most max_concurrency requests (buffer_unordered) and may   *)
(* be dropped at any time, which is how the broker cancels; the Python     *)
(* client sends them all at once, one thread each, and cannot be dropped.  *)
(* The window of a Python call is therefore as long as its list.           *)
(*                                                                         *)
(* At the other end every request becomes work of one small thread pool    *)
(* (search.py:30).  A client that stops waiting, by its timeout or because *)
(* the call was dropped, leaves its work there: nothing takes it back.     *)
(* The pool is first come, first served, but requests travel on different  *)
(* connections and may reach it in any order, so any waiting one is next.  *)
(* A request is <<c, i>>: position i of the list of call c.                *)
(***************************************************************************)
EXTENDS Naturals, Sequences, FiniteSets

CONSTANTS
  RustCalls,    (* calls made by the Rust client, by the CLI, by the broker    *)
  PythonCalls,  (* calls made by the Python client                             *)
  Names,        (* suppliers                                                   *)
  Known,        (* those the service knows                                     *)
  Lists,        (* the supplier lists that are asked for                       *)
  Defaults,     (* the list the Python client takes for an empty one           *)
  Window,       (* max_concurrency of the Rust client (four, the broker: two)  *)
  Threads,      (* of the pool of /v1/search (four)                            *)
  Answers,      (* the answers that arrive, see Answer                         *)
  MaxList       (* the longest list considered                                 *)

Calls     == RustCalls \cup PythonCalls
Positions == 1..MaxList
Requests  == Calls \X Positions

(* The status of an envelope; "partial" belongs to batches.  The service   *)
(* may also answer with an HTTP error, or with what is no envelope.        *)
Answer  == {"ok", "not_found", "provider_error", "no_envelope"}
Results == {"ok", "not_found", "provider_error", "client_error"}

ASSUME FanOutAssumption ==
  /\ RustCalls \cap PythonCalls = {}
  /\ MaxList \in Nat
  /\ Lists \cup {Defaults} \subseteq Seq(Names)
  /\ \A l \in Lists \cup {Defaults} : Len(l) <= MaxList
  /\ Window \in Nat \ {0}
  /\ Threads \in Nat \ {0}
  /\ Answers \subseteq Answer

VARIABLES
  phase,     (* phase[c]: idle, running, returned or dropped                 *)
  list,      (* list[c]: the suppliers asked                                 *)
  pulled,    (* pulled[c]: how many of them were pulled from the list        *)
  flight,    (* flight[c]: the positions in the window                       *)
  results,   (* results[c][s]: the map                                       *)
  work       (* work[r]: what the service does with request r: nothing that  *)
             (* it knows of, waiting for a thread, running, or its answer    *)

callVars == <<phase, list, pulled, flight, results>>
vars     == <<callVars, work>>

Nothing == "nothing"

Init ==
  /\ phase   = [c \in Calls |-> "idle"]
  /\ list    = [c \in Calls |-> <<>>]
  /\ pulled  = [c \in Calls |-> 0]
  /\ flight  = [c \in Calls |-> {}]
  /\ results = [c \in Calls |-> [s \in Names |-> Nothing]]
  /\ work    = [r \in Requests |-> "none"]

-----------------------------------------------------------------------------
(* The client. *)

Targets(c, l) == IF l = <<>> /\ c \in PythonCalls THEN Defaults ELSE l

Begin(c, l) ==
  /\ phase[c] = "idle"
  /\ phase' = [phase EXCEPT ![c] = "running"]
  /\ list'  = [list EXCEPT ![c] = Targets(c, l)]
  /\ UNCHANGED <<pulled, flight, results, work>>

WindowOf(c) == IF c \in RustCalls THEN Window ELSE Len(list[c])

(* Mutant: one request too many. *)
WindowHasRoom_OffByOne(c) ==
  /\ pulled[c] < Len(list[c])
  /\ Cardinality(flight[c]) <= WindowOf(c)

WindowHasRoom(c) ==
  /\ pulled[c] < Len(list[c])
  /\ Cardinality(flight[c]) < WindowOf(c)

(* The next supplier is searched: its request reaches the service, or it   *)
(* never does (no token, no connection) and only ends for the client.      *)
Pull(c) ==
  /\ phase[c] = "running"
  /\ WindowHasRoom(c)
  /\ pulled' = [pulled EXCEPT ![c] = @ + 1]
  /\ flight' = [flight EXCEPT ![c] = @ \cup {pulled'[c]}]
  /\ work' \in {work, [work EXCEPT ![<<c, pulled'[c]>>] = "waiting"]}
  /\ UNCHANGED <<phase, list, results>>

(* What the map says of an answer: the Rust client keeps what is no        *)
(* envelope apart as an error of its own, the Python client makes it a     *)
(* provider_error.                                                         *)
Told(c, answer) ==
  IF answer \in {"ok", "not_found", "provider_error"} THEN answer
  ELSE IF c \in RustCalls THEN "client_error" ELSE "provider_error"

(* Mutant: the answers are taken to come in the order of the list. *)
Collect_InOrder(c, i, answer) ==
  /\ phase[c] = "running"
  /\ ~WindowHasRoom(c)
  /\ i \in flight[c]
  /\ flight'  = [flight EXCEPT ![c] = @ \ {i}]
  /\ results' = [results EXCEPT
       ![c][list[c][1 + pulled[c] - Cardinality(flight[c])]] = Told(c, answer)]
  /\ UNCHANGED <<phase, list, pulled, work>>

(* The result of position i enters the map, over an earlier one of the     *)
(* same supplier.  The window is filled before anything is collected.      *)
Collect(c, i, answer) ==
  /\ phase[c] = "running"
  /\ ~WindowHasRoom(c)
  /\ i \in flight[c]
  /\ flight'  = [flight EXCEPT ![c] = @ \ {i}]
  /\ results' = [results EXCEPT ![c][list[c][i]] = Told(c, answer)]
  /\ UNCHANGED <<phase, list, pulled, work>>

Arrives(c, i) ==
  /\ work[<<c, i>>] \in Answer
  /\ Collect(c, i, work[<<c, i>>])

(* The request's own timeout, or the connection, ends it for the client.   *)
(* Whatever the service still does for it goes on.                         *)
(* Mutant: the clock starts with the thread, not with the request. *)
GivesUp_OnceStarted(c, i) ==
  /\ work[<<c, i>>] # "waiting"
  /\ Collect(c, i, "no_envelope")

GivesUp(c, i) == Collect(c, i, "no_envelope")

(* Mutant: it ends with the list, not with the window. *)
Return_Early(c) ==
  /\ phase[c] = "running"
  /\ pulled[c] = Len(list[c])
  /\ phase' = [phase EXCEPT ![c] = "returned"]
  /\ UNCHANGED <<list, pulled, flight, results, work>>

Return(c) ==
  /\ phase[c] = "running"
  /\ pulled[c] = Len(list[c])
  /\ flight[c] = {}
  /\ phase' = [phase EXCEPT ![c] = "returned"]
  /\ UNCHANGED <<list, pulled, flight, results, work>>

(* The future is dropped (search_until saw the cancellation first): its    *)
(* requests are abandoned and no other goes out.                           *)
Drop(c) ==
  /\ c \in RustCalls
  /\ phase[c] = "running"
  /\ phase'  = [phase EXCEPT ![c] = "dropped"]
  /\ flight' = [flight EXCEPT ![c] = {}]
  /\ UNCHANGED <<list, pulled, results, work>>

-----------------------------------------------------------------------------
(* The service. *)

(* Unknown suppliers are answered without the pool, unauthorised requests  *)
(* with an HTTP error.                                                     *)
Refuse(r) ==
  /\ work[r] = "waiting"
  /\ \/ work' = [work EXCEPT ![r] = "no_envelope"]
     \/ /\ list[r[1]][r[2]] \notin Known
        /\ work' = [work EXCEPT ![r] = "provider_error"]
  /\ UNCHANGED callVars

Running == {r \in Requests : work[r] = "running"}

Serve(r) ==
  /\ work[r] = "waiting"
  /\ list[r[1]][r[2]] \in Known
  /\ Cardinality(Running) < Threads
  /\ work' = [work EXCEPT ![r] = "running"]
  /\ UNCHANGED callVars

Respond(r, answer) ==
  /\ work[r] = "running"
  /\ work' = [work EXCEPT ![r] = answer]
  /\ UNCHANGED callVars

-----------------------------------------------------------------------------
Next ==
  \/ \E c \in Calls, l \in Lists : Begin(c, l)
  \/ \E c \in Calls : Pull(c) \/ Return(c) \/ Drop(c)
  \/ \E c \in Calls, i \in Positions : Arrives(c, i) \/ GivesUp(c, i)
  \/ \E r \in Requests : Refuse(r) \/ Serve(r)
  \/ \E r \in Requests, answer \in Answers : Respond(r, answer)

Spec == Init /\ [][Next]_vars

(* Clients keep running and their requests have timeouts (client.py:50,    *)
(* config.rs:11: 30 s).  Nothing is assumed of the service.                *)
FairSpec ==
  /\ Spec
  /\ \A c \in Calls : WF_vars(Pull(c)) /\ WF_vars(Return(c))
  /\ \A c \in Calls, i \in Positions : WF_vars(Arrives(c, i) \/ GivesUp(c, i))

-----------------------------------------------------------------------------
(* Every variable keeps its type; the map holds results and nothing else. *)
TypeOK ==
  /\ phase   \in [Calls -> {"idle", "running", "returned", "dropped"}]
  /\ list    \in [Calls -> Lists \cup {<<>>, Defaults}]
  /\ pulled  \in [Calls -> 0..MaxList]
  /\ flight  \in [Calls -> SUBSET Positions]
  /\ results \in [Calls -> [Names -> Results \cup {Nothing}]]
  /\ work    \in [Requests -> {"none", "waiting", "running"} \cup Answer]

Listed(c) == {list[c][i] : i \in 1..Len(list[c])}

(* A call that returns has a result for every supplier of its list, however *)
(* its requests ended, and for no other (client.py:184-199,                 *)
(* client.rs:327-331).                                                      *)
ResultsComplete ==
  \A c \in Calls : phase[c] = "returned" =>
    {s \in Names : results[c][s] # Nothing} = Listed(c)

(* Answers come back in any order, yet each result is what the service      *)
(* answered to this call about this very supplier, or the failure of such a *)
(* request.                                                                 *)
ResultsAreAnswers ==
  \A c \in Calls, s \in Names : results[c][s] # Nothing =>
    \E i \in 1..pulled[c] :
      /\ list[c][i] = s
      /\ results[c][s] \in {Told(c, "no_envelope")} \cup
           (IF work[<<c, i>>] \in Answer THEN {Told(c, work[<<c, i>>])} ELSE {})

(* The books of the window: it never holds more requests than its bound     *)
(* (client.rs:328); a supplier is not yet pulled, in the window, or has its *)
(* result; and the service has nothing of the suppliers not yet pulled.     *)
WindowBooks ==
  \A c \in Calls :
    /\ pulled[c] <= Len(list[c])
    /\ flight[c] \subseteq 1..pulled[c]
    /\ Cardinality(flight[c]) <= WindowOf(c)
    /\ phase[c] \in {"running", "returned"} =>
         \A i \in 1..pulled[c] : i \in flight[c] \/ results[c][list[c][i]] # Nothing
    /\ \A i \in Positions : i > pulled[c] => work[<<c, i>>] = "none"

(* What the books add up to at both ends of a call, and with them the       *)
(* inductive invariant.                                                     *)
EndBooks ==
  \A c \in Calls :
    /\ phase[c] = "idle" =>
         /\ pulled[c] = 0 /\ flight[c] = {}
         /\ \A s \in Names : results[c][s] = Nothing
    /\ phase[c] = "returned" => pulled[c] = Len(list[c]) /\ flight[c] = {}

IInv == TypeOK /\ WindowBooks /\ ResultsAreAnswers /\ EndBooks

(* A call that has ended, by return or by drop, sends no other request and  *)
(* its map is final, whatever its requests still do at the service          *)
(* (alexandria-scm lib.rs:53-56: no detached provider tasks).               *)
EndedMeansEnded ==
  [][\A c \in Calls : phase[c] \in {"returned", "dropped"} =>
       /\ UNCHANGED <<phase[c], results[c]>>
       /\ \A i \in Positions : work[<<c, i>>] = "none" => work'[<<c, i>>] = "none"]_vars

(* Every call ends, even if the service never answers anything: its         *)
(* requests have timeouts and nothing else holds it.                        *)
CallsReturn == \A c \in Calls : phase[c] = "running" ~> phase[c] \in {"returned", "dropped"}

(* search_all implements its contract: neither the window nor the service   *)
(* can be told from the outside.                                            *)
Contract == INSTANCE FanOutContract WITH
  state <- phase,
  asked <- [c \in Calls |-> Listed(c)],
  told  <- results
ContractSafety == Contract!Spec
=============================================================================
