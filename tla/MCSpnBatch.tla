----------------------------- MODULE MCSpnBatch -----------------------------
(* Small instances of SpnBatch for TLC: chunks of two where the code has   *)
(* ten or a thousand, so that a batch of three has a full chunk, a last    *)
(* short one, and a number in both.                                        *)
EXTENDS SpnBatch

MCRequests  == {<<Blank>>, <<"c1", "c2", "c1">>, <<"c1", Blank, "c1", "c2">>}
MCSpns      == {"c1", "c2"}
MCSuppliers == Supplier
MCSize      == [s \in Supplier |-> IF s \in {"mouser", "jlcpcb_api"} THEN 2 ELSE 1]
=============================================================================
