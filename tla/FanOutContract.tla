--------------------------- MODULE FanOutContract ---------------------------
(***************************************************************************)
(* What search_all promises its caller, in Python (client.py:168-199) as   *)
(* in Rust (client.rs:309-332): a map with a result for every supplier     *)
(* asked and for no other, or nothing at all when the call is dropped.     *)
(* How many requests are in flight, and what the service does with them,   *)
(* is not the caller's business.                                           *)
(***************************************************************************)

CONSTANTS
  Calls,      (* calls of search_all                          *)
  Names,      (* suppliers                                    *)
  Results,    (* what a call may say of a supplier            *)
  Nothing     (* no result yet                                *)

VARIABLES
  state,      (* state[c]: the life of call c                 *)
  asked,      (* asked[c]: the suppliers it is to search      *)
  told        (* told[c][s]: its result for supplier s        *)

vars == <<state, asked, told>>

Init ==
  /\ state = [c \in Calls |-> "idle"]
  /\ asked = [c \in Calls |-> {}]
  /\ told  = [c \in Calls |-> [s \in Names |-> Nothing]]

Ask(c) ==
  /\ state[c] = "idle"
  /\ state' = [state EXCEPT ![c] = "running"]
  /\ \E names \in SUBSET Names : asked' = [asked EXCEPT ![c] = names]
  /\ UNCHANGED told

(* A result comes in; a supplier asked twice may have it replaced. *)
Learn(c) ==
  /\ state[c] = "running"
  /\ \E s \in asked[c], r \in Results : told' = [told EXCEPT ![c][s] = r]
  /\ UNCHANGED <<state, asked>>

Return(c) ==
  /\ state[c] = "running"
  /\ \A s \in asked[c] : told[c][s] # Nothing
  /\ state' = [state EXCEPT ![c] = "returned"]
  /\ UNCHANGED <<asked, told>>

Drop(c) ==
  /\ state[c] = "running"
  /\ state' = [state EXCEPT ![c] = "dropped"]
  /\ UNCHANGED <<asked, told>>

Next == \E c \in Calls : Ask(c) \/ Learn(c) \/ Return(c) \/ Drop(c)

Spec == Init /\ [][Next]_vars
=============================================================================
