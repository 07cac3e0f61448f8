--------------------------- MODULE StreamContract ---------------------------
(***************************************************************************)
(* What GET /v1/search/stream promises a browser (ADR-009 and the          *)
(* docstring of search_stream in server/routers/stream.py), with no thread *)
(* pool, no timers and no event loop: every target of the request owes one *)
(* event, events come in any order, and only a stream that owes nothing is *)
(* ended by the {"done": true} event.  A stream may also be refused before *)
(* it starts, be left by its client, or break.                             *)
(***************************************************************************)

CONSTANTS
  Streams,   (* the requests                                        *)
  Slots,     (* positions in a request's supplier list              *)
  Kinds      (* what an event may report of one search              *)

VARIABLES
  state,     (* state[s]: the life of stream s                      *)
  owed,      (* owed[s]: the targets that have had no event yet     *)
  sent       (* sent[s][i]: what the event of target i reported     *)

vars == <<state, owed, sent>>

NotSent == "not_sent"

Init ==
  /\ state = [s \in Streams |-> "idle"]
  /\ owed  = [s \in Streams |-> {}]
  /\ sent  = [s \in Streams |-> [i \in Slots |-> NotSent]]

Refuse(s) ==
  /\ state[s] = "idle"
  /\ state' = [state EXCEPT ![s] = "refused"]
  /\ UNCHANGED <<owed, sent>>

Open(s) ==
  /\ state[s] = "idle"
  /\ \E targets \in SUBSET Slots :
       /\ targets # {}
       /\ owed' = [owed EXCEPT ![s] = targets]
  /\ state' = [state EXCEPT ![s] = "open"]
  /\ UNCHANGED sent

(* One event for one owed target. *)
Send(s) ==
  /\ state[s] = "open"
  /\ \E i \in owed[s], k \in Kinds :
       /\ owed' = [owed EXCEPT ![s] = @ \ {i}]
       /\ sent' = [sent EXCEPT ![s][i] = k]
  /\ UNCHANGED state

(* The {"done": true} event. *)
End(s) ==
  /\ state[s] = "open"
  /\ owed[s] = {}
  /\ state' = [state EXCEPT ![s] = "done"]
  /\ UNCHANGED <<owed, sent>>

(* The client goes away. *)
Leave(s) ==
  /\ state[s] = "open"
  /\ state' = [state EXCEPT ![s] = "closed"]
  /\ UNCHANGED <<owed, sent>>

(* The stream breaks while an owed event is being written. *)
Break(s) ==
  /\ state[s] = "open"
  /\ owed[s] # {}
  /\ state' = [state EXCEPT ![s] = "aborted"]
  /\ UNCHANGED <<owed, sent>>

Next ==
  \E s \in Streams :
    Refuse(s) \/ Open(s) \/ Send(s) \/ End(s) \/ Leave(s) \/ Break(s)

SafeSpec == Init /\ [][Next]_vars

(* An open stream keeps moving until it is over. *)
Spec == SafeSpec /\ \A s \in Streams : WF_vars(Send(s) \/ End(s))
=============================================================================
