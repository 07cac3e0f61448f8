-------------------------- MODULE ScmCodegenProofs --------------------------
(* What holds of the binding generator for every contract: whatever graph   *)
(* the references make, its worklist ends with the exact bundle, and what a *)
(* run says of the directories is true after any history.                   *)
EXTENDS ScmCodegen, TLAPS

LEMMA BelowTop == \A n \in Nat : \A k \in 1..n : k # n => k \in 1..(n - 1)
OBVIOUS

(* A stack without its top, and two lists in a row, hold what they held.    *)
LEMMA RangePop ==
  ASSUME NEW D, NEW s \in Seq(D), s # <<>>
  PROVE  /\ SubSeq(s, 1, Len(s) - 1) \in Seq(D)
         /\ Len(SubSeq(s, 1, Len(s) - 1)) = Len(s) - 1
         /\ s[Len(s)] \in D
         /\ Range(s) = Range(SubSeq(s, 1, Len(s) - 1)) \cup {s[Len(s)]}
<1> DEFINE rest == SubSeq(s, 1, Len(s) - 1)
<1>1. Len(s) \in Nat /\ Len(s) > 0 /\ DOMAIN s = 1..Len(s) /\ \A k \in 1..Len(s) : s[k] \in D
  OBVIOUS
<1>2. rest \in Seq(D) /\ DOMAIN rest = 1..(Len(s) - 1)
      /\ \A k \in 1..(Len(s) - 1) : rest[k] = s[k]
  BY <1>1
<1>7. Len(rest) = Len(s) - 1
  BY <1>1
<1> HIDE DEF rest
<1>3. Range(rest) \cup {s[Len(s)]} \subseteq Range(s)
  BY <1>1, <1>2 DEF Range
<1>4. ASSUME NEW x \in Range(s) PROVE x \in Range(rest) \cup {s[Len(s)]}
  <2>1. PICK k \in 1..Len(s) : x = s[k]
    BY <1>1 DEF Range
  <2>2. CASE k = Len(s)
    BY <2>1, <2>2
  <2>3. CASE k # Len(s)
    <3>1. k \in 1..(Len(s) - 1)
      BY <1>1, <2>3, BelowTop, Zenon
    <3>2. k \in DOMAIN rest /\ rest[k] = x
      BY <1>2, <2>1, <3>1
    <3> QED BY <3>2 DEF Range
  <2> QED BY <2>2, <2>3
<1>5. Range(s) = Range(rest) \cup {s[Len(s)]}
  BY <1>3, <1>4
<1>6. rest \in Seq(D) /\ s[Len(s)] \in D
  BY <1>1, <1>2
<1> QED BY <1>5, <1>6, <1>7, Zenon DEF rest

LEMMA RangeConcat ==
  ASSUME NEW D, NEW s \in Seq(D), NEW t \in Seq(D)
  PROVE  s \o t \in Seq(D) /\ Range(s \o t) = Range(s) \cup Range(t)
<1>1. /\ Len(s) \in Nat /\ Len(t) \in Nat
      /\ DOMAIN s = 1..Len(s) /\ DOMAIN t = 1..Len(t)
  OBVIOUS
<1>2. /\ s \o t \in Seq(D) /\ DOMAIN (s \o t) = 1..(Len(s) + Len(t))
      /\ \A k \in 1..(Len(s) + Len(t)) :
           (s \o t)[k] = IF k <= Len(s) THEN s[k] ELSE t[k - Len(s)]
  BY <1>1
<1> DEFINE u == s \o t
<1> HIDE DEF u
<1>3. ASSUME NEW x \in Range(u) PROVE x \in Range(s) \cup Range(t)
  <2>1. PICK k \in 1..(Len(s) + Len(t)) : x = u[k]
    BY <1>2 DEF Range, u
  <2>2. CASE k <= Len(s)
    <3>1. k \in DOMAIN s /\ x = s[k]
      BY <1>1, <1>2, <2>1, <2>2 DEF u
    <3> QED BY <3>1 DEF Range
  <2>3. CASE ~(k <= Len(s))
    <3>1. k - Len(s) \in DOMAIN t /\ x = t[k - Len(s)]
      BY <1>1, <1>2, <2>1, <2>3 DEF u
    <3> QED BY <3>1 DEF Range
  <2> QED BY <2>2, <2>3
<1>4. ASSUME NEW x \in Range(s) PROVE x \in Range(u)
  <2>1. PICK k \in 1..Len(s) : x = s[k]
    BY <1>1 DEF Range
  <2>2. k \in DOMAIN u /\ u[k] = x
    BY <1>1, <1>2, <2>1 DEF u
  <2> QED BY <2>2 DEF Range
<1>5. ASSUME NEW x \in Range(t) PROVE x \in Range(u)
  <2>1. PICK k \in 1..Len(t) : x = t[k]
    BY <1>1 DEF Range
  <2>2. k + Len(s) \in DOMAIN u /\ u[k + Len(s)] = x
    BY <1>1, <1>2, <2>1 DEF u
  <2> QED BY <2>2 DEF Range
<1> QED BY <1>2, <1>3, <1>4, <1>5 DEF u

----------------------------------------------------------------------------
(* What the assumption says of one contract.                                *)
LEMMA ContractType ==
  ASSUME NEW c \in Contracts
  PROVE  /\ c.files \in [Titles -> SchemaFile \cup {None}]
         /\ c.roots \in Seq(Root)
         /\ \A k \in 1..Len(c.roots) : c.roots[k].id \in Ids /\ c.roots[k].title \in Titles
         /\ \A t \in Present(c) : c.files[t] \in SchemaFile
         /\ Present(c) \subseteq Titles
<1>1. c \in Contract
  BY CodegenAssumption
<1>2. c.files \in [Titles -> SchemaFile \cup {None}] /\ c.roots \in Seq(Root)
  BY <1>1 DEF Contract
<1>3. \A k \in 1..Len(c.roots) : c.roots[k] \in Root
  BY <1>2
<1> QED BY <1>2, <1>3 DEF Present, Root

LEMMA RefsType ==
  ASSUME NEW c \in Contracts, NEW i, Has(c, i)
  PROVE  Refs(c, i) \in Seq(Ids) /\ Range(Refs(c, i)) \subseteq Ids
<1> DEFINE t == CHOOSE t \in Present(c) : c.files[t].id = i
<1>1. t \in Present(c)
  BY DEF Has
<1>2. c.files[t] \in SchemaFile
  BY <1>1, ContractType
<1>3. Refs(c, i) \in Seq(Ids)
  BY <1>2 DEF Refs, SchemaFile
<1>4. \A k \in DOMAIN Refs(c, i) : Refs(c, i)[k] \in Ids
  BY <1>3
<1> QED BY <1>3, <1>4 DEF Range

(* Reach is a closed set, and the least one.                                *)
LEMMA ReachClosed ==
  ASSUME NEW c \in Contracts, NEW r
  PROVE  Reach(c, r) \subseteq Ids /\ IsClosed(c, r, Reach(c, r))
<1>1. ASSUME NEW j \in Reach(c, r) \cup {r}, Has(c, j), NEW x \in Range(Refs(c, j))
      PROVE  x \in Reach(c, r)
  <2>1. x \in Ids
    BY <1>1, RefsType
  <2>2. ASSUME NEW S \in SUBSET Ids, IsClosed(c, r, S) PROVE x \in S
    <3>1. j \in S \cup {r}
      BY <1>1, <2>2 DEF Reach
    <3> QED BY <1>1, <2>2, <3>1 DEF IsClosed
  <2> QED BY <2>1, <2>2 DEF Reach
<1> QED BY <1>1 DEF IsClosed, Reach

LEMMA ReachLeast ==
  ASSUME NEW c \in Contracts, NEW r, NEW S \in SUBSET Ids, IsClosed(c, r, S)
  PROVE  Reach(c, r) \subseteq S
  BY DEF Reach

----------------------------------------------------------------------------
(* Names of files and texts.                                                *)
LEMMA PathFacts ==
  /\ \A t \in Titles : Binding(t) \in Paths /\ Text(Binding(t)) = Bundle
                        /\ Binding(t) # Registry
  /\ Registry \in Paths /\ Text(Registry) = Seq(Root) \X SUBSET Ids
  /\ \A t \in Titles : Resource(t) \in Paths /\ Text(Resource(t)) = Seq(Ids)
                        /\ Resource(t) # Registry /\ Resource(t)[2] = t
  /\ \A t, u \in Titles : Binding(t) # Resource(u)
  /\ \A t, u \in Titles : Binding(t) = Binding(u) => t = u
<1>1. ModuleOf \in [Titles -> Modules] /\ "mod" \notin Modules
  BY CodegenAssumption
<1>2. \A t, u \in Titles : ModuleOf[t] = ModuleOf[u] => t = u
  BY <1>1, CodegenAssumption DEF IsInjective
<1> QED BY <1>1, <1>2 DEF Binding, Registry, Resource, Paths, Text

LEMMA RewriteType ==
  ASSUME NEW c \in Contracts, NEW i, Has(c, i)
  PROVE  Rewrite(Refs(c, i)) \in Seq(Prefixes)
<1>1. Refs(c, i) \in Seq(Ids)
  BY RefsType
<1>2. /\ DOMAIN Refs(c, i) = 1..Len(Refs(c, i)) /\ Len(Refs(c, i)) \in Nat
      /\ \A k \in 1..Len(Refs(c, i)) : Refs(c, i)[k] \in Ids
  BY <1>1
<1>3. PrefixOf \in [Ids -> Prefixes]
  BY CodegenAssumption
<1>4. Rewrite(Refs(c, i)) \in [1..Len(Refs(c, i)) -> Prefixes]
  BY <1>2, <1>3 DEF Rewrite
<1> QED BY <1>2, <1>4

LEMMA BundleType ==
  ASSUME NEW c \in Contracts, NEW r, Has(c, r), NEW S \in SUBSET Ids, \A i \in S : Has(c, i)
  PROVE  BundleOf(c, r, S) \in Bundle
<1>1. Rewrite(Refs(c, r)) \in Seq(Prefixes)
  BY RewriteType
<1>2. \A i \in Ids : (IF i \in S THEN Rewrite(Refs(c, i)) ELSE None) \in Seq(Prefixes) \cup {None}
  BY RewriteType
<1> QED BY <1>1, <1>2 DEF BundleOf, Bundle

LEMMA TextIsSomething ==
  ASSUME NEW p \in Paths, NEW x \in Text(p)
  PROVE  x # None
BY CodegenAssumption

(* What EndRoots adds has the type of its path.                             *)
LEMMA RegistryType ==
  ASSUME NEW c \in Contracts, Loadable(c)
  PROVE  /\ RegistryOf(c) \in Text(Registry)
         /\ \A t \in Present(c) : c.files[t].refs \in Text(Resource(t))
<1>1. \A t \in Present(c) : c.files[t].id \in Ids /\ c.files[t].refs \in Seq(Ids) /\ t \in Titles
  BY ContractType DEF Loadable, SchemaFile
<1>2. RegistryOf(c) \in Seq(Root) \X SUBSET Ids
  BY <1>1, ContractType DEF RegistryOf
<1> QED BY <1>1, <1>2, PathFacts

(* One more root: the outputs bound so far and the next bundle.             *)
LEMMA OneMoreRoot ==
  ASSUME NEW c \in Contracts, NEW n \in Nat, n < Len(c.roots)
  PROVE  BoundUpTo(c, n + 1) =
           [BoundUpTo(c, n) EXCEPT ![Binding(c.roots[n + 1].title)] =
              BundleOf(c, c.roots[n + 1].id, Reach(c, c.roots[n + 1].id))]
<1> DEFINE b(k) == Binding(c.roots[k].title)
           new  == [BoundUpTo(c, n) EXCEPT ![b(n + 1)] =
                      BundleOf(c, c.roots[n + 1].id, Reach(c, c.roots[n + 1].id))]
<1>1. Len(c.roots) \in Nat /\ DOMAIN c.roots = 1..Len(c.roots)
      /\ \A k \in 1..Len(c.roots) : c.roots[k].title \in Titles
  <2>1. c.roots \in Seq(Root)
    BY ContractType
  <2> QED BY <2>1, ContractType
<1>2. \A j, k \in 1..Len(c.roots) : b(j) = b(k) => j = k
  BY <1>1, PathFacts, CodegenAssumption
<1>3. \A k \in 1..(n + 1) : k \in 1..Len(c.roots)
  BY <1>1
<1> HIDE DEF b
<1>4. ASSUME NEW p \in Paths PROVE BoundUpTo(c, n + 1)[p] = new[p]
  <2>1. CASE p = b(n + 1)
    <3>1. (CHOOSE k \in 1..(n + 1) : p = b(k)) = n + 1
      BY <2>1, <1>2, <1>3
    <3>2. \E k \in 1..(n + 1) : p = b(k)
      BY <2>1
    <3>3. BoundUpTo(c, n + 1)[p] = BundleOf(c, c.roots[n + 1].id, Reach(c, c.roots[n + 1].id))
      BY <3>1, <3>2 DEF BoundUpTo, b
    <3>4. p \in DOMAIN BoundUpTo(c, n)
      BY DEF BoundUpTo
    <3> QED BY <2>1, <3>3, <3>4 DEF b
  <2>2. CASE p # b(n + 1) /\ \E k \in 1..n : p = b(k)
    <3>1. PICK k \in 1..n : p = b(k)
      BY <2>2
    <3>2. k \in 1..(n + 1)
      OBVIOUS
    <3>3. (CHOOSE m \in 1..n : p = b(m)) = k /\ (CHOOSE m \in 1..(n + 1) : p = b(m)) = k
      BY <3>1, <3>2, <1>2, <1>3
    <3>4. BoundUpTo(c, n + 1)[p] = BundleOf(c, c.roots[k].id, Reach(c, c.roots[k].id))
      BY <3>1, <3>2, <3>3 DEF BoundUpTo, b
    <3>5. BoundUpTo(c, n)[p] = BundleOf(c, c.roots[k].id, Reach(c, c.roots[k].id))
      BY <3>1, <3>3 DEF BoundUpTo, b
    <3> QED BY <2>2, <3>4, <3>5 DEF b
  <2>3. CASE ~ \E k \in 1..(n + 1) : p = b(k)
    <3>1. ~ \E k \in 1..n : p = b(k)
      BY <2>3
    <3>2. p # b(n + 1)
      BY <2>3
    <3>3. BoundUpTo(c, n + 1)[p] = None /\ BoundUpTo(c, n)[p] = None
      BY <2>3, <3>1 DEF BoundUpTo, b
    <3> QED BY <3>2, <3>3 DEF b
  <2>4. \A k \in 1..(n + 1) : k = n + 1 \/ k \in 1..n
    OBVIOUS
  <2> QED BY <2>1, <2>2, <2>3, <2>4
<1>5. BoundUpTo(c, n + 1) = [p \in Paths |-> BoundUpTo(c, n + 1)[p]]
  BY DEF BoundUpTo
<1>6. new = [p \in Paths |-> new[p]]
  BY DEF BoundUpTo
<1> QED BY <1>4, <1>5, <1>6 DEF b

----------------------------------------------------------------------------
(* The inductive invariant.                                                 *)
LEMMA NextCases ==
  ASSUME Next
  PROVE  \/ \E flag \in BOOLEAN : Start(flag)
         \/ BeginRoot \/ Skip \/ Collect \/ EndRoot \/ EndRoots
         \/ EndInventory \/ Finish \/ \E p \in Paths : Inspect(p)
         \/ \E p \in Paths : Verify(p)
         \/ \E p \in Paths : Truncate(p)
         \/ \E p \in Paths : Fill(p)
         \/ Kill
         \/ \E c \in Contracts : Recompile(c)
         \/ \E p \in Paths, x \in {None, Irregular, Edited} : Touch(p, x)
BY DEF Next, Step, Bundling, Comparing, Writing

LEMMA InitInv == ASSUME Init PROVE IInv
<1>1. TypeOK
  <2>1. contract \in Contracts /\ Len(contract.roots) \in Nat
    BY ContractType DEF Init
  <2>2. NoOutputs = [p \in Paths |-> NoOutputs[p]] /\ \A p \in Paths : NoOutputs[p] = None
    BY DEF NoOutputs
  <2>3. /\ files = [p \in Paths |-> files[p]] /\ outputs = [p \in Paths |-> outputs[p]]
        /\ \A p \in Paths : files[p] = None /\ outputs[p] = None
    BY <2>2 DEF Init
  <2>4. MaxTroubles \in Nat /\ <<>> \in Seq(Ids)
    BY CodegenAssumption
  <2>5. bound \in 0..Len(contract.roots) /\ troubles \in 0..MaxTroubles
    BY <2>1, <2>4 DEF Init
  <2> QED BY <2>1, <2>3, <2>4, <2>5, Zenon DEF Init, TypeOK
<1>2. Worklist /\ OutputsGrow /\ Verdicts
  BY DEF Init, Worklist, OutputsGrow, Verdicts
<1>3. FilesFollow
  BY DEF Init, FilesFollow, Outputs
<1> QED BY <1>1, <1>2, <1>3 DEF IInv

(* A process that is gone keeps nothing; what it said has to be true.       *)
LEMMA ExitInv ==
  ASSUME IInv, NEW v \in {"unknown", "failed", "ok"}, Exit(v),
         v = "ok" => files = Expected(contract),
         v = "failed" => Cause /\ check' = check,
         check' \in BOOLEAN, troubles' \in 0..MaxTroubles
  PROVE  IInv'
<1>1. TypeOK'
  <2>1. contract' \in Contracts /\ Len(contract'.roots) \in Nat
    BY ContractType DEF Exit, IInv, TypeOK
  <2>2. NoOutputs = [p \in Paths |-> NoOutputs[p]] /\ \A p \in Paths : NoOutputs[p] = None
    BY DEF NoOutputs
  <2> QED BY <2>1, <2>2 DEF Exit, IInv, TypeOK
<1>2. Worklist' /\ OutputsGrow'
  BY DEF Exit, Worklist, OutputsGrow
<1>3. FilesFollow'
  BY DEF Exit, FilesFollow, Outputs
<1>4. Verdicts'
  <2>1. v = "failed" => Cause'
    BY DEF Exit, Cause
  <2> QED BY <2>1 DEF Exit, Verdicts
<1> QED BY <1>1, <1>2, <1>3, <1>4 DEF IInv

LEMMA FailInv == ASSUME IInv, Fail, Cause PROVE IInv'
BY ExitInv DEF Fail, IInv, TypeOK

LEMMA StartInv == ASSUME IInv, NEW flag \in BOOLEAN, Start(flag) PROVE IInv'
<1> USE DEF Start
<1>1. TypeOK'
  BY DEF IInv, TypeOK
<1>2. bound = 0 /\ outputs = NoOutputs /\ writing = None
  BY DEF IInv, OutputsGrow, FilesFollow
<1>3. BoundUpTo(contract, 0) = NoOutputs
  BY DEF BoundUpTo, NoOutputs
<1>4. Worklist' /\ OutputsGrow'
  BY <1>2, <1>3 DEF Worklist, OutputsGrow
<1>5. FilesFollow' /\ Verdicts'
  <2>1. result' = "failed" => Cause'
    BY DEF Cause, Defective
  <2> QED BY <1>2, <2>1 DEF FilesFollow, Verdicts, Outputs
<1> QED BY <1>1, <1>4, <1>5 DEF IInv

(* The root being bound is one of the catalog.                              *)
LEMMA RootFacts ==
  ASSUME IInv, bound < Len(contract.roots)
  PROVE  /\ contract \in Contracts /\ bound \in Nat /\ Len(contract.roots) \in Nat
         /\ bound + 1 \in 1..Len(contract.roots)
         /\ RootId \in Ids /\ RootTitle \in Titles
<1>1. contract \in Contracts /\ bound \in 0..Len(contract.roots)
  BY DEF IInv, TypeOK
<1>2. contract.roots \in Seq(Root)
  BY <1>1, ContractType
<1>3. Len(contract.roots) \in Nat
  BY <1>2
<1>4. bound \in Nat /\ bound + 1 \in 1..Len(contract.roots)
  BY <1>1, <1>3
<1> QED BY <1>1, <1>3, <1>4, ContractType DEF RootId, RootTitle

(* A root without a bundle is the cause of a failure.                       *)
LEMMA Unbindable ==
  ASSUME IInv, bound < Len(contract.roots), ~Bindable(contract, bound + 1)
  PROVE  Cause
<1>1. contract \in Contracts /\ bound + 1 \in 1..Len(contract.roots)
  BY RootFacts
<1>2. contract.roots \in Seq(Root)
  BY <1>1, ContractType
<1>3. bound + 1 \in DOMAIN contract.roots
  BY <1>1, <1>2
<1> QED BY <1>3 DEF Cause, Defective

LEMMA BeginRootInv == ASSUME IInv, BeginRoot PROVE IInv'
<1>1. CASE ~Has(contract, RootId)
  <2>1. ~Bindable(contract, bound + 1)
    BY <1>1 DEF Bindable, RootId
  <2> QED BY <1>1, <2>1, Unbindable, FailInv DEF BeginRoot
<1>2. CASE Has(contract, RootId)
  <2> USE <1>2 DEF BeginRoot
  <2>1. contract \in Contracts /\ RootId \in Ids
    BY RootFacts
  <2>2. pending' \in Seq(Ids) /\ bundled' = {}
    BY <2>1, RefsType
  <2>3. TypeOK'
    BY <2>2 DEF IInv, TypeOK
  <2>4. Worklist'
    <3>1. IsClosed(contract, RootId, Reach(contract, RootId))
      BY <2>1, ReachClosed
    <3>2. Range(Refs(contract, RootId)) \subseteq Reach(contract, RootId)
      BY <3>1 DEF IsClosed
    <3>3. RootId' = RootId /\ contract' = contract /\ pending' = Refs(contract, RootId)
      BY DEF RootId
    <3> QED BY <2>2, <3>2, <3>3 DEF Worklist
  <2>5. OutputsGrow' /\ FilesFollow' /\ Verdicts'
    BY DEF IInv, OutputsGrow, FilesFollow, Verdicts, Outputs
  <2> QED BY <2>3, <2>4, <2>5 DEF IInv
<1> QED BY <1>1, <1>2

(* The top of the worklist and the rest.                                    *)
LEMMA TopFacts ==
  ASSUME IInv, pending # <<>>
  PROVE  /\ Rest \in Seq(Ids) /\ Top \in Ids
         /\ Range(pending) = Range(Rest) \cup {Top}
BY RangePop DEF IInv, TypeOK, Top, Rest

LEMMA SkipInv == ASSUME IInv, Skip PROVE IInv'
<1> USE DEF Skip
<1>1. TypeOK'
  BY TopFacts DEF IInv, TypeOK
<1>2. Worklist'
  <2>1. bundled' \cup Range(pending') = bundled \cup Range(pending)
    BY TopFacts
  <2>2. RootId' = RootId /\ contract' = contract /\ bundled' = bundled /\ phase = "bundle"
    BY DEF RootId
  <2> QED BY <2>1, <2>2 DEF IInv, Worklist
<1>3. OutputsGrow' /\ FilesFollow' /\ Verdicts'
  BY DEF IInv, OutputsGrow, FilesFollow, Verdicts, Outputs
<1> QED BY <1>1, <1>2, <1>3 DEF IInv

LEMMA CollectInv == ASSUME IInv, Collect PROVE IInv'
<1>1. CASE ~(Has(contract, Top) /\ ~Collides(Top))
  <2> USE <1>1 DEF Collect
  <2>1. phase = "bundle" /\ Top \notin bundled /\ bound < Len(contract.roots)
    BY DEF IInv, TypeOK
  <2>2. Top \in Reach(contract, RootId) /\ bundled \subseteq Reach(contract, RootId)
    BY <2>1, TopFacts DEF IInv, Worklist
  <2>3. ~Bindable(contract, bound + 1)
    BY <2>1, <2>2 DEF Bindable, RootId, Collides
  <2> QED BY <2>1, <2>3, Unbindable, FailInv
<1>2. CASE Has(contract, Top) /\ ~Collides(Top)
  <2> USE <1>2 DEF Collect
  <2>1. contract \in Contracts /\ phase = "bundle" /\ pending # <<>>
    BY DEF IInv, TypeOK
  <2>2. Refs(contract, Top) \in Seq(Ids)
    BY <2>1, RefsType
  <2>3. pending' \in Seq(Ids) /\ Range(pending') = Range(Rest) \cup Range(Refs(contract, Top))
    <3>1. Rest \in Seq(Ids)
      BY <2>1, TopFacts
    <3>2. pending' = Rest \o Refs(contract, Top)
      OBVIOUS
    <3> QED BY <2>2, <3>1, <3>2, RangeConcat, Zenon
  <2>4. TypeOK'
    BY <2>1, <2>3, TopFacts DEF IInv, TypeOK
  <2>5. Worklist'
    <3> DEFINE met == bundled \cup Range(pending)
    <3>1. bundled' \cup Range(pending') = met \cup Range(Refs(contract, Top))
      <4>1. Range(pending) = Range(Rest) \cup {Top} /\ bundled' = bundled \cup {Top}
        BY <2>1, TopFacts
      <4> QED BY <2>3, <4>1
    <3>2. Top \in Reach(contract, RootId) /\ met \subseteq Reach(contract, RootId)
      BY <2>1, TopFacts DEF IInv, Worklist
    <3>3. Range(Refs(contract, Top)) \subseteq Reach(contract, RootId)
      BY <2>1, <3>2, ReachClosed DEF IsClosed
    <3>4. RootId' = RootId /\ contract' = contract /\ bundled' = bundled \cup {Top}
      BY DEF RootId
    <3>5. \A i \in bundled \cup {Top, RootId} :
             Has(contract, i) /\ Range(Refs(contract, i)) \subseteq met \cup Range(Refs(contract, Top))
      BY <2>1 DEF IInv, Worklist
    <3>6. \A i, j \in bundled \cup {Top} : PrefixOf[i] = PrefixOf[j] => i = j
      BY <2>1 DEF IInv, Worklist, Collides
    <3> HIDE DEF met
    <3>7. bundled' \cup Range(pending') \subseteq Reach(contract, RootId)
      BY <3>1, <3>2, <3>3
    <3>8. \A i \in bundled' \cup {RootId} :
             Has(contract, i) /\ Range(Refs(contract, i)) \subseteq bundled' \cup Range(pending')
      BY <3>1, <3>4, <3>5
    <3> QED BY <3>4, <3>6, <3>7, <3>8 DEF Worklist
  <2>6. OutputsGrow' /\ FilesFollow' /\ Verdicts'
    BY DEF IInv, OutputsGrow, FilesFollow, Verdicts, Outputs
  <2> QED BY <2>4, <2>5, <2>6 DEF IInv
<1> QED BY <1>1, <1>2

(* The empty worklist leaves the exact bundle.                              *)
LEMMA Exact ==
  ASSUME IInv, phase = "bundle", pending = <<>>
  PROVE  bundled = Reach(contract, RootId) /\ Resolved
<1>1. Range(pending) = {}
  BY DEF Range
<1>2. \A i \in bundled \cup {RootId} : Range(Refs(contract, i)) \subseteq bundled
  BY <1>1 DEF IInv, Worklist
<1>3. bundled \subseteq Reach(contract, RootId)
  BY <1>1 DEF IInv, Worklist
<1>4. contract \in Contracts /\ bundled \in SUBSET Ids
  BY DEF IInv, TypeOK
<1>5. IsClosed(contract, RootId, bundled)
  BY <1>2 DEF IsClosed
<1>6. Reach(contract, RootId) \subseteq bundled
  BY <1>4, <1>5, ReachLeast
<1> QED BY <1>2, <1>3, <1>6 DEF Resolved

LEMMA EndRootInv == ASSUME IInv, EndRoot PROVE IInv'
<1>1. CASE ~(Resolved /\ RootTitle \notin contract.untypable)
  <2>1. phase = "bundle" /\ bound < Len(contract.roots) /\ RootTitle \in contract.untypable
    BY <1>1, Exact DEF EndRoot, IInv, TypeOK
  <2>2. ~Bindable(contract, bound + 1)
    BY <2>1 DEF Bindable, RootTitle
  <2> QED BY <1>1, <2>1, <2>2, Unbindable, FailInv DEF EndRoot
<1>2. CASE Resolved /\ RootTitle \notin contract.untypable
  <2> USE <1>2 DEF EndRoot
  <2> DEFINE new == BundleOf(contract, RootId, bundled)
  <2>1. phase = "bundle" /\ bound < Len(contract.roots)
    BY DEF IInv, TypeOK
  <2>2. /\ contract \in Contracts /\ bound \in Nat /\ bound + 1 \in 1..Len(contract.roots)
        /\ RootId \in Ids /\ RootTitle \in Titles /\ Len(contract.roots) \in Nat
    BY <2>1, RootFacts
  <2>3. bundled = Reach(contract, RootId)
    BY <2>1, Exact
  <2>4. /\ \A i \in bundled \cup {RootId} : Has(contract, i)
        /\ \A i, j \in bundled : PrefixOf[i] = PrefixOf[j] => i = j
    BY <2>1 DEF IInv, Worklist
  <2>5. new \in Text(Binding(RootTitle)) /\ Binding(RootTitle) \in Paths
    <3>1. bundled \in SUBSET Ids
      BY DEF IInv, TypeOK
    <3> QED BY <2>2, <2>4, <3>1, BundleType, PathFacts
  <2>6. TypeOK'
    <3>1. /\ outputs' = [outputs EXCEPT ![Binding(RootTitle)] = new]
          /\ outputs = [p \in Paths |-> outputs[p]]
          /\ \A p \in Paths : outputs[p] \in {None} \cup Text(p)
      BY DEF IInv, TypeOK
    <3> HIDE DEF new
    <3>2. /\ outputs' = [p \in Paths |-> outputs'[p]]
          /\ \A p \in Paths : outputs'[p] \in {None} \cup Text(p)
      BY <2>5, <3>1
    <3>3. bound' \in 0..Len(contract.roots)
      BY <2>2
    <3> QED BY <3>2, <3>3 DEF IInv, TypeOK
  <2>7. outputs' = BoundUpTo(contract, bound')
    <3>1. outputs = BoundUpTo(contract, bound)
      BY <2>1 DEF IInv, OutputsGrow
    <3> QED BY <2>1, <2>2, <2>3, <3>1, OneMoreRoot DEF RootId, RootTitle
  <2>8. \A k \in 1..bound' : Bindable(contract, k)
    <3>1. \A k \in 1..bound : Bindable(contract, k)
      BY <2>1 DEF IInv, OutputsGrow
    <3>2. Bindable(contract, bound + 1)
      BY <2>3, <2>4 DEF Bindable, RootId, RootTitle
    <3>3. \A k \in 1..(bound + 1) : k = bound + 1 \/ k \in 1..bound
      BY <2>2
    <3> QED BY <3>1, <3>2, <3>3
  <2>9. OutputsGrow'
    BY <2>1, <2>7, <2>8 DEF IInv, OutputsGrow
  <2>10. Worklist' /\ FilesFollow' /\ Verdicts'
    BY <2>1 DEF IInv, Worklist, FilesFollow, Verdicts, Outputs
  <2> QED BY <2>6, <2>9, <2>10 DEF IInv
<1> QED BY <1>1, <1>2

(* The outputs are complete.                                                *)
LEMMA EndRootsInv == ASSUME IInv, EndRoots PROVE IInv'
<1> USE DEF EndRoots
<1>1. contract \in Contracts /\ Loadable(contract) /\ outputs = BoundUpTo(contract, Len(contract.roots))
      /\ \A k \in 1..bound : Bindable(contract, k)
  BY DEF IInv, TypeOK, OutputsGrow
<1>2. outputs' = Expected(contract)
  BY <1>1 DEF Expected, WithRegistry
<1>3. TypeOK'
  <2>1. outputs' = [p \in Paths |-> outputs'[p]]
    BY DEF WithRegistry
  <2>2. ASSUME NEW p \in Paths PROVE outputs'[p] \in {None} \cup Text(p)
    <3>1. outputs'[p] = IF p = Registry THEN RegistryOf(contract)
                        ELSE IF \E t \in Present(contract) : p = Resource(t)
                        THEN contract.files[p[2]].refs ELSE outputs[p]
      BY DEF WithRegistry
    <3>2. CASE p = Registry
      BY <1>1, <3>1, <3>2, RegistryType
    <3>3. CASE p # Registry /\ \E t \in Present(contract) : p = Resource(t)
      <4>1. PICK t \in Present(contract) : p = Resource(t)
        BY <3>3
      <4>2. t \in Titles
        BY <1>1, ContractType
      <4>3. p[2] = t
        BY <4>1, <4>2, PathFacts
      <4> QED BY <1>1, <3>1, <3>3, <4>1, <4>3, RegistryType
    <3>4. CASE p # Registry /\ ~ \E t \in Present(contract) : p = Resource(t)
      BY <3>1, <3>4 DEF IInv, TypeOK
    <3> QED BY <3>2, <3>3, <3>4
  <2>3. todo' \subseteq Paths
    BY DEF Entries
  <2> QED BY <2>1, <2>2, <2>3 DEF IInv, TypeOK
<1>4. FilesFollow'
  <2>1. \A p \in Paths : p[1] \in {"generated", "schema"}
    BY DEF Paths
  <2>2. writing' = None
    BY DEF IInv, FilesFollow, Outputs
  <2> QED BY <2>1, <2>2 DEF FilesFollow, Entries, Outputs
<1>5. OutputsGrow' /\ Worklist' /\ Verdicts'
  BY <1>1, <1>2 DEF IInv, OutputsGrow, Worklist, Verdicts
<1> QED BY <1>3, <1>4, <1>5 DEF IInv

----------------------------------------------------------------------------
(* The directories.                                                         *)
LEMMA OutputsType ==
  ASSUME IInv, phase \in {"bindings", "resources", "outputs"}
  PROVE  /\ contract \in Contracts /\ outputs = Expected(contract)
         /\ files = [p \in Paths |-> files[p]] /\ outputs = [p \in Paths |-> outputs[p]]
         /\ \A p \in Paths : outputs[p] \in {None} \cup Text(p)
         /\ \A p \in Paths : files[p] \in Junk \cup {None} \cup Text(p)
BY DEF IInv, TypeOK, OutputsGrow

LEMMA InspectInv == ASSUME IInv, NEW p \in Paths, Inspect(p) PROVE IInv'
<1>1. CASE Fail /\ (files[p] = Irregular \/ (check /\ p \notin Outputs))
  <2>1. p \in Outputs \/ files # Expected(contract)
    BY OutputsType DEF Inspect, IInv, FilesFollow, Outputs
  <2>2. Cause
    BY <1>1, <2>1 DEF Cause
  <2> QED BY <1>1, <2>2, FailInv
<1>2. CASE Pass(p, IF p \in Outputs THEN files[p] ELSE None)
  <2> USE <1>2 DEF Inspect, Pass
  <2>1. phase \in {"bindings", "resources"} /\ p \in todo /\ writing = None
    BY DEF IInv, FilesFollow, Outputs
  <2>2. /\ files' = [q \in Paths |-> files'[q]]
        /\ \A q \in Paths : q # p => files'[q] = files[q]
        /\ files'[p] = IF p \in Outputs THEN files[p] ELSE None
    BY <2>1, OutputsType
  <2>3. TypeOK'
    BY <2>2 DEF IInv, TypeOK
  <2>4. FilesFollow'
    BY <2>1, <2>2 DEF IInv, FilesFollow, Outputs
  <2>5. OutputsGrow' /\ Worklist' /\ Verdicts'
    BY <2>1 DEF IInv, OutputsGrow, Worklist, Verdicts
  <2> QED BY <2>3, <2>4, <2>5 DEF IInv
<1> QED BY <1>1, <1>2 DEF Inspect

LEMMA EndInventoryInv == ASSUME IInv, EndInventory PROVE IInv'
<1> USE DEF EndInventory
<1>1. TypeOK'
  BY DEF IInv, TypeOK, Entries, Outputs
<1>2. FilesFollow'
  BY DEF IInv, FilesFollow, Entries, Outputs
<1>3. OutputsGrow' /\ Worklist' /\ Verdicts'
  BY DEF IInv, OutputsGrow, Worklist, Verdicts
<1> QED BY <1>1, <1>2, <1>3 DEF IInv

LEMMA FirstOf == ASSUME NEW S, S # {} PROVE First(S) \in S
BY DEF First

LEMMA VerifyInv == ASSUME IInv, NEW p \in Paths, Verify(p) PROVE IInv'
<1>1. CASE Fail /\ files[p] # outputs[p]
  <2>1. check /\ files # Expected(contract)
    BY <1>1, OutputsType DEF Verify
  <2> QED BY <1>1, <2>1, FailInv DEF Cause
<1>2. CASE files[p] = outputs[p] /\ Pass(p, files[p])
  <2> USE <1>2 DEF Verify, Pass
  <2>1. phase = "outputs" /\ files' = files /\ todo' = todo \ {p}
    BY OutputsType
  <2>2. writing' = writing /\ (writing # None => writing \in todo')
    BY <2>1 DEF IInv, FilesFollow, Outputs
  <2>3. TypeOK'
    BY <2>1 DEF IInv, TypeOK
  <2>4. FilesFollow'
    BY <2>1, <2>2 DEF IInv, FilesFollow, Outputs
  <2>5. OutputsGrow' /\ Worklist' /\ Verdicts'
    BY <2>1 DEF IInv, OutputsGrow, Worklist, Verdicts
  <2> QED BY <2>3, <2>4, <2>5 DEF IInv
<1> QED BY <1>1, <1>2 DEF Verify

LEMMA TruncateInv == ASSUME IInv, NEW p \in Paths, Truncate(p) PROVE IInv'
<1> USE DEF Truncate
<1>1. phase = "outputs" /\ p \in todo /\ files' = [files EXCEPT ![p] = Torn]
  BY FirstOf
<1>2. /\ files' = [q \in Paths |-> files'[q]]
      /\ \A q \in Paths : q # p => files'[q] = files[q]
      /\ files'[p] \in Junk
  BY <1>1, OutputsType DEF Junk
<1>3. TypeOK'
  <2>1. \A q \in Paths : files'[q] \in Junk \cup {None} \cup Text(q)
    BY <1>1, <1>2, OutputsType
  <2> QED BY <1>2, <2>1 DEF IInv, TypeOK
<1>5. FilesFollow'
  <2>1. ASSUME NEW q \in Paths, outputs[q] = None, files'[q] # None PROVE FALSE
    <3>1. outputs[p] # None
      BY <1>1 DEF IInv, FilesFollow, Outputs
    <3> QED BY <1>1, <1>2, <2>1, <3>1 DEF IInv, FilesFollow, Outputs
  <2> QED BY <1>1, <1>2, <2>1 DEF IInv, FilesFollow, Outputs
<1>6. OutputsGrow' /\ Worklist' /\ Verdicts'
  BY <1>1 DEF IInv, OutputsGrow, Worklist, Verdicts
<1> QED BY <1>3, <1>5, <1>6 DEF IInv

LEMMA FillInv == ASSUME IInv, NEW p \in Paths, Fill(p) PROVE IInv'
<1> USE DEF Fill
<1>1. /\ files' = [q \in Paths |-> files'[q]]
      /\ \A q \in Paths : q # p => files'[q] = files[q]
      /\ files'[p] = outputs[p] /\ outputs[p] \in {None} \cup Text(p)
  BY OutputsType
<1>2. TypeOK'
  <2>1. \A q \in Paths : files'[q] \in Junk \cup {None} \cup Text(q)
    BY <1>1, OutputsType
  <2> QED BY <1>1, <2>1 DEF IInv, TypeOK
<1>3. FilesFollow'
  BY <1>1 DEF IInv, FilesFollow, Outputs
<1>4. OutputsGrow' /\ Worklist' /\ Verdicts'
  BY DEF IInv, OutputsGrow, Worklist, Verdicts
<1> QED BY <1>2, <1>3, <1>4 DEF IInv

LEMMA FinishInv == ASSUME IInv, Finish PROVE IInv'
<1> USE DEF Finish
<1>1. ASSUME NEW p \in Paths PROVE files[p] = outputs[p]
  BY DEF IInv, FilesFollow, Outputs
<1>2. files = outputs /\ outputs = Expected(contract)
  BY <1>1, OutputsType
<1> QED BY <1>2, ExitInv DEF IInv, TypeOK

LEMMA KillInv == ASSUME IInv, Kill PROVE IInv'
<1>1. troubles' \in 0..MaxTroubles
  BY CodegenAssumption DEF Kill, Trouble, IInv, TypeOK
<1> QED BY <1>1, ExitInv DEF Kill, IInv, TypeOK

LEMMA RecompileInv == ASSUME IInv, NEW c \in Contracts, Recompile(c) PROVE IInv'
<1> USE DEF Recompile, run
<1>1. troubles' \in 0..MaxTroubles
  BY CodegenAssumption DEF Trouble, IInv, TypeOK
<1>2. c.roots \in Seq(Root)
  BY ContractType
<1>3. bound' \in 0..Len(contract'.roots)
  BY <1>2 DEF IInv, OutputsGrow
<1>4. TypeOK'
  BY <1>1, <1>3 DEF IInv, TypeOK
<1>5. OutputsGrow' /\ Worklist' /\ FilesFollow' /\ Verdicts'
  BY DEF IInv, OutputsGrow, Worklist, FilesFollow, Verdicts, Outputs
<1> QED BY <1>4, <1>5 DEF IInv

LEMMA TouchInv ==
  ASSUME IInv, NEW p \in Paths, NEW x \in {None, Irregular, Edited}, Touch(p, x)
  PROVE  IInv'
<1> USE DEF Touch, run
<1>1. troubles' \in 0..MaxTroubles
  BY CodegenAssumption DEF Trouble, IInv, TypeOK
<1>2. /\ files' = [q \in Paths |-> files'[q]]
      /\ \A q \in Paths : files'[q] \in Junk \cup {None} \cup Text(q)
  <2>1. /\ files = [q \in Paths |-> files[q]]
        /\ \A q \in Paths : files[q] \in Junk \cup {None} \cup Text(q)
    BY DEF IInv, TypeOK
  <2>2. x \in Junk \cup {None}
    BY DEF Junk
  <2> QED BY <2>1, <2>2
<1>3. TypeOK'
  BY <1>1, <1>2 DEF IInv, TypeOK
<1>4. OutputsGrow' /\ Worklist' /\ FilesFollow' /\ Verdicts'
  BY DEF IInv, OutputsGrow, Worklist, FilesFollow, Verdicts, Outputs
<1> QED BY <1>3, <1>4 DEF IInv

LEMMA NextInv == ASSUME IInv, [Next]_vars PROVE IInv'
<1>1. CASE UNCHANGED vars
  BY <1>1 DEF vars, run, IInv, TypeOK, Worklist, OutputsGrow, FilesFollow, Verdicts, Cause, RootId, Outputs
<1>2. CASE Next
  BY <1>2, NextCases, StartInv, BeginRootInv, SkipInv, CollectInv, EndRootInv, EndRootsInv,
     EndInventoryInv, FinishInv, InspectInv, VerifyInv, TruncateInv, FillInv, KillInv,
     RecompileInv, TouchInv
<1> QED BY <1>1, <1>2

----------------------------------------------------------------------------
(* IInv is inductive, for any contracts, graphs of references and history.  *)
THEOREM Inductive == Spec => []IInv
BY InitInv, NextInv, PTL DEF Spec

(* The state of the generator keeps its types.                              *)
THEOREM TypeCorrect == Spec => []TypeOK
<1>1. IInv => TypeOK
  BY DEF IInv
<1> QED BY <1>1, Inductive, PTL

(* The worklist computes exactly what a root reaches, cycles or not.        *)
THEOREM BundlesAreExact == Spec => []BundleExact
<1>1. IInv => BundleExact
  BY Exact DEF BundleExact
<1> QED BY <1>1, Inductive, PTL

(* Success, checked or generated, means the directories are the contract's. *)
THEOREM OkMeansOk == Spec => []OkIsTrue
<1>1. IInv => OkIsTrue
  BY DEF IInv, Verdicts, OkIsTrue
<1> QED BY <1>1, Inductive, PTL

(* A failed run has met one of the causes, and it is still there.           *)
THEOREM FailuresHaveCauses == Spec => []FailureHasACause
<1>1. IInv => FailureHasACause
  BY DEF IInv, Verdicts, FailureHasACause
<1> QED BY <1>1, Inductive, PTL

(* No step of a --check run writes.                                         *)
THEOREM CheckIsReadOnly == Spec => CheckNeverWrites
<1>1. ASSUME IInv, [Next]_vars, check, phase # "idle" PROVE files' = files
  <2>1. CASE UNCHANGED vars
    BY <2>1 DEF vars
  <2>2. CASE \E p \in Paths : Inspect(p)
    <3>1. PICK p \in Paths : Inspect(p)
      BY <2>2
    <3>2. CASE Fail
      BY <3>2 DEF Fail, Exit
    <3>3. CASE p \in Outputs /\ Pass(p, files[p])
      BY <1>1, <3>1, <3>3, OutputsType DEF Inspect, Pass
    <3> QED BY <1>1, <3>1, <3>2, <3>3 DEF Inspect
  <2>3. CASE \E p \in Paths : Verify(p)
    <3>1. PICK p \in Paths : Verify(p)
      BY <2>3
    <3>2. CASE Fail
      BY <3>2 DEF Fail, Exit
    <3>3. CASE Pass(p, files[p])
      BY <1>1, <3>1, <3>3, OutputsType DEF Verify, Pass
    <3> QED BY <3>1, <3>2, <3>3 DEF Verify
  <2>4. CASE BeginRoot \/ Skip \/ Collect \/ EndRoot \/ EndRoots \/ EndInventory \/ Finish \/ Kill
    BY <2>4 DEF BeginRoot, Skip, Collect, EndRoot, EndRoots, EndInventory, Finish, Kill, Fail, Exit
  <2> QED BY <1>1, <2>1, <2>2, <2>3, <2>4, NextCases
       DEF Start, Truncate, Fill, Recompile, Touch
<1>2. IInv /\ [Next]_vars => [check /\ phase # "idle" => files' = files]_vars
  BY <1>1
<1> QED BY <1>2, Inductive, PTL DEF Spec, CheckNeverWrites

(* Files only move towards the contract, and only when it has bindings.     *)
THEOREM WritesAreDue == Spec => WritesTowardsExpected
<1>1. ASSUME IInv, [Next]_vars, phase # "idle", NEW p \in Paths, files'[p] # files[p]
      PROVE  files'[p] \in {Torn, Expected(contract)[p]} /\ ~Defective(contract)
  <2>1. PICK q \in Paths : Inspect(q) \/ Verify(q) \/ Truncate(q) \/ Fill(q)
    <3>1. CASE UNCHANGED vars
      BY <1>1, <3>1 DEF vars
    <3>2. CASE BeginRoot \/ Skip \/ Collect \/ EndRoot \/ EndRoots \/ EndInventory \/ Finish \/ Kill
      BY <1>1, <3>2
      DEF BeginRoot, Skip, Collect, EndRoot, EndRoots, EndInventory, Finish, Kill, Fail, Exit
    <3> QED BY <1>1, <3>1, <3>2, NextCases DEF Start, Recompile, Touch
  <2>2. phase \in {"bindings", "resources", "outputs"}
    BY <2>1 DEF Inspect, Verify, Truncate, Fill
  <2>3. ~Defective(contract)
    <3>1. Loadable(contract) /\ bound = Len(contract.roots)
          /\ \A k \in 1..bound : Bindable(contract, k)
      BY <1>1, <2>2 DEF IInv, OutputsGrow
    <3>2. contract.roots \in Seq(Root)
      BY <1>1, <2>2, OutputsType, ContractType
    <3>3. DOMAIN contract.roots = 1..Len(contract.roots)
      BY <3>2
    <3>4. \A k \in DOMAIN contract.roots : Bindable(contract, k)
      BY <3>1, <3>3
    <3> QED BY <3>1, <3>4, Zenon DEF Defective
  <2>4. files'[p] \in {Torn, outputs[p]}
    <3>0. /\ files = [r \in Paths |-> files[r]] /\ outputs = [r \in Paths |-> outputs[r]]
          /\ files'[p] # files[p]
      BY <1>1, <2>2, OutputsType
    <3>1. CASE Fail
      BY <3>0, <3>1 DEF Fail, Exit
    <3>2. CASE Inspect(q) /\ ~Fail
      <4>1. files' = [files EXCEPT ![q] = IF q \in Outputs THEN files[q] ELSE None]
        BY <3>2 DEF Inspect, Pass
      <4> QED BY <3>0, <4>1 DEF Outputs
    <3>3. CASE Verify(q) /\ ~Fail
      BY <3>0, <3>3 DEF Verify, Pass
    <3>4. CASE Truncate(q)
      BY <3>0, <3>4 DEF Truncate
    <3>5. CASE Fill(q)
      BY <3>0, <3>5 DEF Fill
    <3> QED BY <2>1, <3>1, <3>2, <3>3, <3>4, <3>5
  <2> QED BY <1>1, <2>2, <2>3, <2>4, OutputsType
<1>2. IInv /\ [Next]_vars =>
        [phase # "idle" => \A p \in Paths : files'[p] # files[p] =>
           files'[p] \in {Torn, Expected(contract)[p]} /\ ~Defective(contract)]_vars
  BY <1>1
<1> QED BY <1>2, Inductive, PTL DEF Spec, WritesTowardsExpected

-----------------------------------------------------------------------------
(* How far a run is from its end: roots still to bind, then the phases,    *)
(* and within them schemas still to bundle, references still to look at,   *)
(* files still to visit, and a file being written.                         *)
Rank == [roots |-> 5, bundle |-> 4, bindings |-> 3, resources |-> 2, outputs |-> 1]

Nearer ==
  phase # "idle" =>
    \/ phase' = "idle"
    \/ /\ contract' = contract
       /\ \/ bound < bound' /\ bound' <= Len(contract.roots)
          \/ bound' = bound /\ Rank[phase'] < Rank[phase]
          \/ /\ bound' = bound /\ phase' = phase
             /\ IF phase = "bundle"
                THEN \/ /\ bundled \subseteq bundled' /\ bundled' # bundled
                        /\ \A i \in bundled' : Has(contract, i)
                     \/ bundled' = bundled /\ Len(pending') < Len(pending)
                ELSE \/ todo' \subseteq todo /\ todo' # todo
                     \/ todo' = todo /\ writing = None /\ writing' # None

LEMMA StepsAreNearer ==
  ASSUME IInv, Next
  PROVE  Nearer
<1>1. CASE \E flag \in BOOLEAN : Start(flag)
  BY <1>1 DEF Start, Nearer
<1>2. CASE Fail \/ Finish \/ Kill
  BY <1>2 DEF Fail, Finish, Kill, Exit, Nearer
<1>3. CASE BeginRoot
  <2>1. CASE Fail
    BY <2>1, <1>2
  <2>2. CASE ~Fail
    <3>1. phase = "roots" /\ phase' = "bundle" /\ UNCHANGED <<contract, bound>>
      BY <1>3, <2>2 DEF BeginRoot
    <3> QED BY <3>1 DEF Nearer, Rank
  <2> QED BY <2>1, <2>2
<1>4. CASE Skip
  <2>1. /\ phase = "bundle" /\ pending # <<>> /\ pending' = Rest
        /\ UNCHANGED <<contract, bound, phase, bundled>>
    BY <1>4 DEF Skip
  <2>2. pending \in Seq(Ids)
    BY DEF IInv, TypeOK
  <2>3. Len(pending) \in Nat /\ Len(pending) > 0
    BY <2>1, <2>2
  <2>4. Len(Rest) = Len(pending) - 1
    BY <2>1, <2>2, RangePop DEF Rest
  <2> QED BY <2>1, <2>3, <2>4 DEF Nearer
<1>5. CASE Collect
  <2>1. CASE Fail
    BY <2>1, <1>2
  <2>2. CASE ~Fail
    <3>1. /\ phase = "bundle" /\ Top \notin bundled /\ bundled' = bundled \cup {Top}
          /\ Has(contract, Top) /\ UNCHANGED <<contract, bound, phase>>
      BY <1>5, <2>2 DEF Collect
    <3>2. \A i \in bundled' : Has(contract, i)
      BY <3>1 DEF IInv, Worklist
    <3> QED BY <3>1, <3>2 DEF Nearer
  <2> QED BY <2>1, <2>2
<1>6. CASE EndRoot
  <2>1. CASE Fail
    BY <2>1, <1>2
  <2>2. CASE ~Fail
    <3>1. phase = "bundle" /\ bound' = bound + 1 /\ contract' = contract
      BY <1>6, <2>2 DEF EndRoot
    <3>2. bound \in Nat /\ Len(contract.roots) \in Nat /\ bound < Len(contract.roots)
      BY <3>1, RootFacts DEF IInv, TypeOK
    <3> QED BY <3>1, <3>2 DEF Nearer
  <2> QED BY <2>1, <2>2
<1>7. CASE EndRoots
  <2>1. phase = "roots" /\ phase' = "bindings" /\ UNCHANGED <<contract, bound>>
    BY <1>7 DEF EndRoots
  <2> QED BY <2>1 DEF Nearer, Rank
<1>8. CASE EndInventory
  <2>1. /\ \/ phase = "bindings" /\ phase' = "resources"
           \/ phase = "resources" /\ phase' = "outputs"
        /\ UNCHANGED <<contract, bound>>
    BY <1>8 DEF EndInventory
  <2> QED BY <2>1 DEF Nearer, Rank
<1>9. ASSUME NEW p \in Paths, Inspect(p) \/ Verify(p) PROVE Nearer
  <2>1. p \in todo
    BY <1>9, FirstOf DEF Inspect, Verify
  <2>2. CASE Fail
    BY <2>2, <1>2
  <2>3. CASE ~Fail
    <3>1. \E text : Pass(p, text)
      BY <1>9, <2>3 DEF Inspect, Verify
    <3>2. /\ phase \in {"bindings", "resources", "outputs"}
          /\ todo' = todo \ {p} /\ UNCHANGED <<contract, bound, phase>>
      BY <1>9, <3>1 DEF Inspect, Verify, Pass
    <3> QED BY <2>1, <3>2 DEF Nearer
  <2> QED BY <2>2, <2>3
<1>10. ASSUME NEW p \in Paths, Truncate(p) PROVE Nearer
  <2>1. p # None
    BY CodegenAssumption
  <2> QED BY <1>10, <2>1 DEF Truncate, Nearer
<1>11. ASSUME NEW p \in Paths, Fill(p) PROVE Nearer
  <2>1. /\ phase = "outputs" /\ p \in todo /\ todo' = todo \ {p}
        /\ UNCHANGED <<contract, bound, phase>>
    BY <1>11 DEF Fill
  <2> QED BY <2>1 DEF Nearer
<1>12. ASSUME NEW c \in Contracts, Recompile(c) PROVE Nearer
  BY <1>12 DEF Recompile, Nearer
<1>13. ASSUME NEW p \in Paths, NEW x, Touch(p, x) PROVE Nearer
  BY <1>13 DEF Touch, Nearer
<1> QED BY <1>1, <1>2, <1>3, <1>4, <1>5, <1>6, <1>7, <1>8, <1>9, <1>10, <1>11, <1>12, <1>13,
           NextCases

(* No step of a run is for nothing, whatever cycles the references make:   *)
(* an identity is bundled once and a reference looked at once, so that a   *)
(* run that is not killed ends. (main.rs:212-250, 414-457)                 *)
THEOREM StepsEnd == Spec => [][Nearer]_vars
<1>1. IInv /\ [Next]_vars => [Nearer]_vars
  BY StepsAreNearer
<1> QED BY <1>1, Inductive, PTL DEF Spec
=============================================================================
