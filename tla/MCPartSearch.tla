---------------------------- MODULE MCPartSearch ----------------------------
(* Small instances of PartSearch for TLC: two parts with C-codes and one   *)
(* without; an empty list, one part, two in either order, one of them in   *)
(* two packagings, and one with two offers of a part of which the later is *)
(* the better and an offer that cannot be converted.  Each supplier has    *)
(* the models that its rules tell apart.                                   *)
EXTENDS PartSearch

MCParts    == {"c1", "c2", "brand"}
MCCoded    == {"c1", "c2"}
MCLimits   == {-1, 0, 1, 2}
o(p, r, n) == [part |-> p, rank |-> r, packs |-> n]
MCListings == {<<>>, <<o("c1", 1, 1)>>, <<o("c2", 1, 2), o("c1", 1, 1)>>,
               <<o("c1", 2, 1), o("brand", 1, 0), o("c2", 1, 1), o("c1", 1, 1)>>}

is(kind, n) == [kind |-> kind, spelling |-> n]
MCAsAsked   == is("exact", 1)
MCModels    ==
  [jlcpcb  |-> {is(k, 1) : k \in Kind \ {"missing"}},
   lcsc    |-> {is(k, 1) : k \in Kind \ {"missing"}},
   mouser  |-> {MCAsAsked},
   digikey |-> {MCAsAsked, is("exact", 2), is("longer", 1), is("unnamed", 1), is("missing", 1)}]
=============================================================================
