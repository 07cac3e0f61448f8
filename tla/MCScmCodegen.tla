---------------------------- MODULE MCScmCodegen ----------------------------
(* A contract of two roots that reach a cycle of schemas and each other, a   *)
(* smaller one that makes files of the first stale, and the ways a contract  *)
(* can be broken: a dangling reference, two reachable identities with one    *)
(* prefix (and two of which only one is reachable), a root with no schema,   *)
(* a repeated identity, an input that is no regular file, a root typify      *)
(* refuses, and no schema at all.                                            *)
EXTENDS ScmCodegen

CONSTANTS r, s, a, a2, z, R, S, A

MCIds      == {r, s, a, a2, z}
MCTitles   == {R, S, A}
MCModules  == {"r", "s", "a"}
MCModuleOf == [t \in MCTitles |-> CASE t = R -> "r" [] t = S -> "s" [] t = A -> "a"]
MCPrefixes == {"r", "s", "a", "z"}
MCPrefixOf == [i \in MCIds |-> CASE i = r -> "r" [] i = s -> "s" [] i = z -> "z" [] OTHER -> "a"]

File(i, refs) == [id |-> i, refs |-> refs, regular |-> TRUE]
Three(fr, fs, fa) == [t \in MCTitles |-> CASE t = R -> fr [] t = S -> fs [] t = A -> fa]
One  == <<[id |-> r, title |-> R]>>
Both == Append(One, [id |-> s, title |-> S])
Make(fs, roots, bad) == [files |-> fs, roots |-> roots, untypable |-> bad]

Cyclic     == Make(Three(File(r, <<a, s, a>>), File(s, <<r>>), File(a, <<a, s>>)), Both, {})
Smaller    == Make(Three(File(r, <<a>>), None, File(a, <<>>)), One, {})
Dangling   == Make(Three(File(r, <<>>), File(s, <<a>>), File(a, <<z>>)), Both, {})
Colliding  == Make(Three(File(r, <<a>>), File(a2, <<>>), File(a, <<a2>>)), One, {})
Apart      == Make(Three(File(r, <<a>>), File(a2, <<>>), File(a, <<>>)), One, {})
NoRoot     == Make(Three(File(r, <<a>>), None, File(a, <<>>)), Both, {})
Twice      == Make(Three(File(r, <<>>), File(a, <<>>), File(a, <<>>)), One, {})
Unreadable == Make(Three(File(r, <<>>), [File(s, <<>>) EXCEPT !.regular = FALSE], None), One, {})
Untypable  == Make(Three(File(r, <<a>>), File(s, <<>>), File(a, <<>>)), Both, {S})
Empty      == Make([t \in MCTitles |-> None], One, {})

MCContracts ==
  {Cyclic, Smaller, Dangling, Colliding, Apart, NoRoot, Twice, Unreadable, Untypable, Empty}
=============================================================================
