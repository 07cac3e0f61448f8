--------------------------- MODULE MCStreamSearch ---------------------------
(* Small instances of StreamSearch for TLC.                                *)
EXTENDS StreamSearch, TLC

MCSuppliers    == {"jlcpcb", "mouser"}
MCNames        == MCSuppliers \cup {"farnell"}
MCAllSuppliers == <<"jlcpcb", "mouser">>

(* Blank; a supplier twice; an unknown name among known ones; none known. *)
MCRequests   == {<<>>, <<"mouser", "mouser">>, <<"farnell", "jlcpcb">>, <<"farnell">>}
MCFires      == {"finite", "unencodable"}   (* one that never fires is a finite one that has not *)
MCAnswers    == {"ok", "raised"}

(* Requests are alike, and so are threads: no action names one. *)
MCSymmetry == Permutations(Streams) \cup Permutations(Workers)

(* For the liveness runs: two lists, one answer, and the timeouts that are *)
(* in question.                                                            *)
MCFewRequests == {<<>>, <<"farnell", "jlcpcb">>}
MCBlank       == {<<>>}
MCOk          == {"ok"}
MCFinite      == {"finite"}
=============================================================================
