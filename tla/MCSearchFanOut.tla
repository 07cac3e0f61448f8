--------------------------- MODULE MCSearchFanOut ---------------------------
(* Lists with more suppliers than the window, a repeated one, an unknown one,*)
(* and the empty list.                                                       *)
EXTENDS SearchFanOut

CONSTANTS s1, s2, s3

MCNames    == {s1, s2, s3}
MCKnown    == {s1, s2}
MCLists    == {<<>>, <<s1, s1>>, <<s3, s1>>}
MCDefaults == <<s1, s2>>
MCAnswers  == {"ok", "not_found"}
MCLongest  == 2
=============================================================================
