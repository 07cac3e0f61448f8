-------------------------- MODULE PartSearchProofs --------------------------
(***************************************************************************)
(* Proofs about PartSearch, for any parts, listings and limits.  First     *)
(* what the operators on lists compute, then the inductive invariant.      *)
(***************************************************************************)
EXTENDS PartSearch, FiniteSetTheorems, FunctionTheorems, WellFoundedInduction, TLAPS

----------------------------------------------------------------------------
(* Induction over sets of numbers, for the recursive functions on lists.   *)

(* The natural numbers are well founded. *)
LEMMA NatLess == IsWellFoundedOn({ss \in Nat \X Nat : ss[1] < ss[2]}, Nat)
BY NatLessThanWellFounded DEF OpToRel

(* A set of naturals that is not empty has a least element.                *)
LEMMA NatMin ==
  ASSUME NEW T, T \subseteq Nat, T # {}
  PROVE  \E n \in T : \A m \in T : ~(m < n)
<1> DEFINE R == {ss \in Nat \X Nat : ss[1] < ss[2]}
<1>1. IsWellFoundedOn(R, Nat)
  BY NatLess
<1> HIDE DEF R
<1>2. PICK n \in T : \A m \in T : <<m, n>> \notin R
  BY <1>1, WFMin
<1>3. ASSUME NEW m \in T, m < n PROVE FALSE
  <2>1. <<m, n>> \in Nat \X Nat OBVIOUS
  <2>2. <<m, n>> \in R BY <1>3, <2>1 DEF R
  <2> QED BY <1>2, <2>2
<1> QED BY <1>3

(* A set with 0 and every successor up to n has all numbers up to n.       *)
LEMMA UpTo ==
  ASSUME NEW n \in Nat, NEW T, 0 \in T,
         \A i \in 1..n : i - 1 \in T => i \in T
  PROVE  0..n \subseteq T
<1> DEFINE U == {i \in 0..n : i \notin T}
<1>1. SUFFICES ASSUME U # {} PROVE FALSE
  OBVIOUS
<1>2. PICK k \in U : \A m \in U : ~(m < k)
  <2>1. U \subseteq Nat OBVIOUS
  <2> HIDE DEF U
  <2> QED BY <1>1, <2>1, NatMin
<1>3. k \in 1..n
  OBVIOUS
<1>4. k - 1 \in 0..n /\ k - 1 < k
  BY <1>3
<1>5. k - 1 \in T
  BY <1>2, <1>4
<1> QED BY <1>3, <1>5

(* A function defined by recursion along a list exists.                    *)
AlongList(f, base, s, step) ==
  f[0] = base /\ \A i \in 1..Len(s) : f[i] = step[<<f[i - 1], s[i]>>]

LEMMA AlongExists ==
  ASSUME NEW A, NEW B, NEW base \in A, NEW s \in Seq(B), NEW step \in [A \X B -> A]
  PROVE  \E f \in [0..Len(s) -> A] : AlongList(f, base, s, step)
<1> DEFINE Along(f, n) == f[0] = base /\ \A i \in 1..n : f[i] = step[<<f[i - 1], s[i]>>]
           T == {n \in 0..Len(s) : \E f \in [0..n -> A] : Along(f, n)}
<1>1. 0 \in T
  <2> DEFINE g == [i \in 0..0 |-> base]
  <2>1. g \in [0..0 -> A] /\ g[0] = base /\ 1..0 = {}
    OBVIOUS
  <2> HIDE DEF g
  <2>2. Along(g, 0)
    BY <2>1
  <2>3. 0 \in 0..Len(s)
    OBVIOUS
  <2> QED BY <2>1, <2>2, <2>3
<1>2. ASSUME NEW n \in 1..Len(s), n - 1 \in T PROVE n \in T
  <2>1. PICK f \in [0 .. n - 1 -> A] : Along(f, n - 1)
    BY <1>2
  <2> DEFINE g == [i \in 0..n |-> IF i = n THEN step[<<f[n - 1], s[n]>>] ELSE f[i]]
  <2>2. n \in Nat /\ n - 1 \in 0 .. n - 1 /\ s[n] \in B
    OBVIOUS
  <2>3. <<f[n - 1], s[n]>> \in A \X B
    BY <2>2
  <2>4. g \in [0..n -> A]
    BY <2>2, <2>3
  <2>5. \A i \in 0 .. n - 1 : g[i] = f[i]
    BY <2>2
  <2>6. ASSUME NEW i \in 1..n PROVE g[i] = step[<<g[i - 1], s[i]>>]
    <3>1. i - 1 \in 0 .. n - 1 BY <2>2
    <3>2. g[i - 1] = f[i - 1] BY <3>1, <2>5
    <3>3. CASE i = n BY <3>2, <3>3, <2>2
    <3>4. CASE i # n
      <4>1. i \in 1 .. n - 1 BY <3>4, <2>2
      <4>2. f[i] = step[<<f[i - 1], s[i]>>] BY <2>1, <4>1
      <4>3. g[i] = f[i] BY <4>1, <2>5
      <4> HIDE DEF g
      <4> QED BY <3>2, <4>2, <4>3
    <3> QED BY <3>3, <3>4
  <2>7. g[0] = base
    BY <2>1, <2>2
  <2> HIDE DEF g
  <2> QED BY <2>4, <2>6, <2>7
<1>3. Len(s) \in Nat
  OBVIOUS
<1> HIDE DEF T
<1>4. 0..Len(s) \subseteq T
  BY <1>1, <1>2, <1>3, UpTo
<1> QED BY <1>3, <1>4 DEF T, AlongList

----------------------------------------------------------------------------
(* Picked numbers the positions from one on, each once. *)
LEMMA PickedNumbers ==
  ASSUME NEW s \in Offers, NEW I \in SUBSET DOMAIN s
  PROVE  /\ IsFiniteSet(I) /\ Cardinality(I) \in Nat
         /\ \E e \in [1..Cardinality(I) -> I] :
              /\ Picked(s, I) = [n \in 1..Cardinality(I) |-> s[e[n]]]
              /\ \A m, n \in 1..Cardinality(I) : e[m] = e[n] => m = n
              /\ \A i \in I : \E n \in 1..Cardinality(I) : e[n] = i
<1> DEFINE N == Cardinality(I)
           Upto(i) == {j \in I : j <= i}
           r == [i \in I |-> Cardinality(Upto(i))]
           e == [n \in 1..N |-> CHOOSE i \in I : Cardinality(Upto(i)) = n]
<1>1. DOMAIN s = 1..Len(s) /\ Len(s) \in Nat /\ I \subseteq Nat
  BY DEF Offers
<1>2. IsFiniteSet(I) /\ N \in Nat
  <2>1. IsFiniteSet(1..Len(s)) BY <1>1, FS_Interval
  <2>2. IsFiniteSet(I) BY <2>1, <1>1, FS_Subset
  <2> QED BY <2>2, FS_CardinalityType
<1> HIDE DEF N
<1>3. ASSUME NEW i \in I PROVE Cardinality(Upto(i)) \in 1..N
  <2>1. Upto(i) \in SUBSET I /\ i \in Upto(i)
    BY <1>1
  <2>2. IsFiniteSet(Upto(i)) /\ Cardinality(Upto(i)) <= N
    BY <2>1, <1>2, FS_Subset DEF N
  <2>3. Cardinality(Upto(i)) \in Nat /\ Cardinality(Upto(i)) # 0
    BY <2>1, <2>2, FS_CardinalityType, FS_EmptySet
  <2> QED BY <2>2, <2>3, <1>2
<1>4. ASSUME NEW i \in I, NEW j \in I, i < j PROVE Cardinality(Upto(i)) # Cardinality(Upto(j))
  <2>1. Upto(i) \in SUBSET Upto(j) /\ j \in Upto(j) /\ j \notin Upto(i)
    BY <1>1, <1>4
  <2>2. Upto(j) \in SUBSET I
    OBVIOUS
  <2>3. IsFiniteSet(Upto(j))
    BY <2>2, <1>2, FS_Subset
  <2> HIDE DEF Upto
  <2> QED BY <2>1, <2>3, FS_Subset
<1>5. r \in [I -> 1..N]
  BY <1>3
<1>6. ASSUME NEW i \in I, NEW j \in I, r[i] = r[j] PROVE i = j
  <2>1. r[i] = Cardinality(Upto(i)) /\ r[j] = Cardinality(Upto(j))
    OBVIOUS
  <2>2. ~(i < j) /\ ~(j < i)
    <3> HIDE DEF Upto, r
    <3> QED BY <1>4, <1>6, <2>1
  <2> QED BY <2>2, <1>1
<1>7. r \in Injection(I, 1..N)
  BY <1>5, <1>6, Fun_IsInj
<1>8. r \in Surjection(I, 1..N)
  <2>1. IsFiniteSet(1..N) /\ Cardinality(1..N) = N
    BY <1>2, FS_Interval
  <2> HIDE DEF r
  <2> QED BY <1>7, <2>1, FS_Injection DEF N
<1>9. \A n \in 1..N : \E i \in I : r[i] = n
  <2> HIDE DEF r
  <2> QED BY <1>8, Fun_SurjectionProperties
<1>10. \A n \in 1..N : e[n] \in I /\ r[e[n]] = n
  <2> SUFFICES ASSUME NEW n \in 1..N PROVE e[n] \in I /\ r[e[n]] = n OBVIOUS
  <2>1. \E i \in I : Cardinality(Upto(i)) = n
    BY <1>9
  <2> HIDE DEF Upto
  <2>2. e[n] \in I /\ Cardinality(Upto(e[n])) = n
    BY <2>1
  <2> QED BY <2>2
<1>11. e \in [1..N -> I]
  BY <1>10
<1>12. Picked(s, I) = [n \in 1..N |-> s[e[n]]]
  BY DEF Picked, N
<1>13. \A i \in I : r[i] \in 1..N /\ e[r[i]] = i
  <2> SUFFICES ASSUME NEW i \in I PROVE r[i] \in 1..N /\ e[r[i]] = i OBVIOUS
  <2>1. r[i] \in 1..N BY <1>5
  <2>2. e[r[i]] \in I /\ r[e[r[i]]] = r[i] BY <2>1, <1>10
  <2> HIDE DEF r, e
  <2> QED BY <2>1, <2>2, <1>6
<1>14. \A m, n \in 1..N : e[m] = e[n] => m = n
  <2> HIDE DEF r, e
  <2> QED BY <1>10
<1> HIDE DEF e, r
<1> QED BY <1>2, <1>11, <1>12, <1>13, <1>14 DEF N

(* What is picked are the elements at those positions, one for each. *)
LEMMA PickedFacts ==
  ASSUME NEW s \in Offers, NEW I \in SUBSET DOMAIN s
  PROVE  /\ IsFiniteSet(I) /\ Cardinality(I) \in Nat
         /\ Picked(s, I) \in Offers /\ Len(Picked(s, I)) = Cardinality(I)
         /\ \A n \in DOMAIN Picked(s, I) : \E i \in I : Picked(s, I)[n] = s[i]
         /\ Named(Picked(s, I)) = {s[i].part : i \in I}
         /\ (\A i, j \in I : s[i].part = s[j].part => i = j) => Distinct(Picked(s, I))
<1> DEFINE N == Cardinality(I)
           p == Picked(s, I)
<1>1. IsFiniteSet(I) /\ N \in Nat
  BY PickedNumbers
<1>2. PICK e \in [1..N -> I] :
        /\ p = [n \in 1..N |-> s[e[n]]]
        /\ \A m, n \in 1..N : e[m] = e[n] => m = n
        /\ \A i \in I : \E n \in 1..N : e[n] = i
  BY PickedNumbers
<1> HIDE DEF p, N
<1>3. \A i \in I : s[i] \in Offer
  BY DEF Offers
<1>4. p \in [1..N -> Offer]
  BY <1>2, <1>3
<1>5. p \in Offers /\ Len(p) = N /\ DOMAIN p = 1..N
  BY <1>4, <1>1 DEF Offers
<1>6. Named(p) = {s[i].part : i \in I}
  BY <1>2 DEF Named
<1>7. ASSUME \A i, j \in I : s[i].part = s[j].part => i = j PROVE Distinct(p)
  BY <1>2, <1>7 DEF Distinct
<1>8. \A n \in DOMAIN p : \E i \in I : p[n] = s[i]
  BY <1>2
<1> QED BY <1>1, <1>5, <1>6, <1>7, <1>8 DEF p, N

----------------------------------------------------------------------------
(* Every element of one list is an element of another. *)
Within(short, long) == \A n \in DOMAIN short : \E i \in DOMAIN long : short[n] = long[i]

LEMMA OnlyFacts ==
  ASSUME NEW s \in Offers, NEW P
  PROVE  /\ Only(s, P) \in Offers /\ Within(Only(s, P), s)
         /\ Named(Only(s, P)) = Named(s) \cap P
         /\ Distinct(s) => Distinct(Only(s, P))
<1> DEFINE I == {i \in DOMAIN s : s[i].part \in P}
<1>1. I \in SUBSET DOMAIN s
  OBVIOUS
<1>2. /\ Picked(s, I) \in Offers
      /\ \A n \in DOMAIN Picked(s, I) : \E i \in I : Picked(s, I)[n] = s[i]
      /\ Named(Picked(s, I)) = {s[i].part : i \in I}
      /\ (\A i, j \in I : s[i].part = s[j].part => i = j) => Distinct(Picked(s, I))
  BY <1>1, PickedFacts
<1>3. Only(s, P) = Picked(s, I)
  BY DEF Only
<1>4. {s[i].part : i \in I} = Named(s) \cap P
  BY DEF Named
<1>5. Distinct(s) => Distinct(Picked(s, I))
  BY <1>2 DEF Distinct
<1>6. Within(Picked(s, I), s)
  BY <1>2 DEF Within
<1> HIDE DEF I
<1> QED BY <1>2, <1>3, <1>4, <1>5, <1>6

LEMMA FirstFacts ==
  ASSUME NEW s \in Offers
  PROVE  /\ first_of_each(s) \in Offers /\ Distinct(first_of_each(s))
         /\ Named(first_of_each(s)) = Named(s)
<1> DEFINE I == {i \in DOMAIN s : \A j \in 1 .. i - 1 : s[j].part # s[i].part}
<1>1. I \in SUBSET DOMAIN s
  OBVIOUS
<1>2. DOMAIN s = 1..Len(s) /\ Len(s) \in Nat
  BY DEF Offers
<1>3. \A i, j \in I : s[i].part = s[j].part => i = j
  BY <1>2
<1>4. ASSUME NEW k \in DOMAIN s PROVE \E i \in I : s[i].part = s[k].part
  <2> DEFINE T == {i \in DOMAIN s : s[i].part = s[k].part}
  <2>1. T \subseteq Nat /\ k \in T
    BY <1>2
  <2>2. PICK i \in T : \A m \in T : ~(m < i)
    <3> HIDE DEF T
    <3> QED BY <2>1, NatMin
  <2>3. \A j \in 1 .. i - 1 : s[j].part # s[i].part
    BY <2>2, <1>2
  <2> QED BY <2>3
<1>5. {s[i].part : i \in I} = Named(s)
  BY <1>4 DEF Named
<1>6. first_of_each(s) = Picked(s, I)
  BY DEF first_of_each
<1> HIDE DEF I
<1>7. /\ Picked(s, I) \in Offers
      /\ Named(Picked(s, I)) = {s[i].part : i \in I}
      /\ (\A i, j \in I : s[i].part = s[j].part => i = j) => Distinct(Picked(s, I))
  BY <1>1, PickedFacts
<1> QED BY <1>3, <1>5, <1>6, <1>7

LEMMA SlicedFacts ==
  ASSUME NEW s \in Offers, NEW n \in Int
  PROVE  /\ Sliced(s, n) \in Offers /\ DOMAIN Sliced(s, n) \subseteq DOMAIN s
         /\ \A i \in DOMAIN Sliced(s, n) : Sliced(s, n)[i] = s[i]
         /\ Named(Sliced(s, n)) \subseteq Named(s) /\ Within(Sliced(s, n), s)
         /\ Distinct(s) => Distinct(Sliced(s, n))
         /\ n >= 0 => Len(Sliced(s, n)) = IF n < Len(s) THEN n ELSE Len(s)
         /\ n >= Len(s) => Sliced(s, n) = s
         /\ \A i \in DOMAIN s :
              i <= (IF n >= 0 THEN n ELSE Len(s) + n) => i \in DOMAIN Sliced(s, n)
<1> DEFINE m == IF n >= 0 THEN (IF n < Len(s) THEN n ELSE Len(s)) ELSE Len(s) + n
           p == SubSeq(s, 1, m)
<1>1. Len(s) \in Nat /\ m \in Int /\ m <= Len(s) /\ DOMAIN s = 1..Len(s) /\ s \in Seq(Offer)
  BY DEF Offers
<1>2. Sliced(s, n) = p
  BY DEF Sliced
<1>8. ASSUME n >= Len(s) PROVE m = Len(s)
  <2>1. n >= 0 /\ ~(n < Len(s)) BY <1>1, <1>8
  <2> QED BY <2>1
<1> HIDE DEF m
<1>3. p \in Offers /\ DOMAIN p = 1..m /\ (m >= 0 => Len(p) = m)
      /\ \A i \in 1..m : p[i] = s[i]
  BY <1>1 DEF Offers
<1>4. n >= Len(s) => p = s
  <2> SUFFICES ASSUME n >= Len(s) PROVE p = s OBVIOUS
  <2>1. m = Len(s) BY <1>8
  <2> QED BY <2>1, <1>1
<1> HIDE DEF p
<1>5. DOMAIN p \subseteq DOMAIN s /\ \A i \in DOMAIN p : p[i] = s[i]
  BY <1>1, <1>3
<1>6. Named(p) \subseteq Named(s) /\ Within(p, s) /\ (Distinct(s) => Distinct(p))
  BY <1>5 DEF Named, Within, Distinct
<1>7. n >= 0 => Len(p) = IF n < Len(s) THEN n ELSE Len(s)
  BY <1>1, <1>3 DEF m
<1>9. \A i \in DOMAIN s : i <= (IF n >= 0 THEN n ELSE Len(s) + n) => i \in DOMAIN p
  BY <1>1, <1>3 DEF m
<1> QED BY <1>2, <1>3, <1>4, <1>5, <1>6, <1>7, <1>9

----------------------------------------------------------------------------
(* _deduplicate_products, one offer at a time. *)
Merged(kept, o) ==
  IF o.part \notin Named(kept) THEN Append(kept, o)
  ELSE [i \in DOMAIN kept |-> IF kept[i].part = o.part /\ o.rank < kept[i].rank
                              THEN o ELSE kept[i]]

(* What is kept of the first n offers: each part once, at its best. *)
KeptOf(kept, s, n) ==
  /\ kept \in Offers /\ Distinct(kept)
  /\ Named(kept) = {s[k].part : k \in 1..n}
  /\ \A i \in DOMAIN kept, k \in 1..n : s[k].part = kept[i].part => kept[i].rank <= s[k].rank

LEMMA MergedType ==
  ASSUME NEW kept \in Offers, NEW o \in Offer
  PROVE  Merged(kept, o) \in Offers
<1>1. kept \in [1..Len(kept) -> Offer] /\ Len(kept) \in Nat
  BY DEF Offers
<1> DEFINE m == [i \in DOMAIN kept |-> IF kept[i].part = o.part /\ o.rank < kept[i].rank
                                       THEN o ELSE kept[i]]
<1>2. m \in [1..Len(kept) -> Offer]
  BY <1>1
<1>3. m \in Offers
  <2> HIDE DEF m
  <2> QED BY <1>1, <1>2 DEF Offers
<1>4. Append(kept, o) \in Offers
  BY DEF Offers
<1> QED BY <1>3, <1>4 DEF Merged

LEMMA MergedKeeps ==
  ASSUME NEW kept, NEW s \in Offers, NEW n \in 1..Len(s), KeptOf(kept, s, n - 1)
  PROVE  KeptOf(Merged(kept, s[n]), s, n)
<1> DEFINE o == s[n]
           new == Merged(kept, o)
<1>1. /\ Len(s) \in Nat /\ n \in Nat /\ 1..n = 1 .. n - 1 \cup {n}
      /\ \A k \in 1..n : s[k] \in Offer
  BY DEF Offers
<1>2. o \in Offer
  BY <1>1
<1>3. kept \in Offers /\ kept \in [1..Len(kept) -> Offer] /\ Len(kept) \in Nat
  BY DEF KeptOf, Offers
<1>4. new \in Offers
  BY <1>2, <1>3, MergedType
<1>5. /\ Distinct(kept) /\ Named(kept) = {s[k].part : k \in 1 .. n - 1}
      /\ \A i \in DOMAIN kept, k \in 1 .. n - 1 :
           s[k].part = kept[i].part => kept[i].rank <= s[k].rank
  BY DEF KeptOf
<1>6. {s[k].part : k \in 1..n} = {s[k].part : k \in 1 .. n - 1} \cup {o.part}
  BY <1>1
<1>7. CASE o.part \notin Named(kept)
  <2>1. new = Append(kept, o)
    BY <1>7 DEF Merged
  <2> HIDE DEF new, o
  <2>2. /\ DOMAIN new = 1 .. Len(kept) + 1 /\ new[Len(kept) + 1] = o
        /\ \A i \in 1..Len(kept) : new[i] = kept[i]
    BY <2>1, <1>3, <1>2
  <2>3. \A i \in 1..Len(kept) : kept[i].part # o.part
    BY <1>3, <1>7 DEF Named
  <2>4. DOMAIN kept = 1..Len(kept) /\ DOMAIN new = 1..Len(kept) \cup {Len(kept) + 1}
    BY <1>3, <2>2
  <2>5. Distinct(new)
    BY <1>5, <2>2, <2>3, <2>4 DEF Distinct
  <2>6. Named(new) = Named(kept) \cup {o.part}
    BY <2>2, <2>4 DEF Named
  <2>7. ASSUME NEW i \in DOMAIN new, NEW k \in 1..n, s[k].part = new[i].part
        PROVE  new[i].rank <= s[k].rank
    <3>1. CASE k = n
      <4>1. new[i] = o BY <3>1, <2>7, <2>2, <2>3, <2>4 DEF o
      <4> QED BY <4>1, <3>1, <1>2 DEF o, Offer
    <3>2. CASE k # n
      <4>1. k \in 1 .. n - 1 BY <3>2, <1>1
      <4>2. s[k].part \in Named(kept) BY <4>1, <1>5
      <4>3. i \in 1..Len(kept) BY <4>2, <1>7, <2>2, <2>4, <2>7
      <4> QED BY <4>1, <4>3, <1>5, <2>2, <2>4, <2>7
    <3> QED BY <3>1, <3>2
  <2> QED BY <1>4, <1>5, <1>6, <2>5, <2>6, <2>7 DEF KeptOf, new, o
<1>8. CASE o.part \in Named(kept)
  <2>1. new = [i \in DOMAIN kept |-> IF kept[i].part = o.part /\ o.rank < kept[i].rank
                                     THEN o ELSE kept[i]]
    BY <1>8 DEF Merged
  <2> HIDE DEF new, o
  <2>2. DOMAIN new = DOMAIN kept /\ \A i \in DOMAIN kept : new[i].part = kept[i].part
    BY <2>1
  <2>3. Distinct(new) /\ Named(new) = Named(kept)
    BY <1>5, <2>2 DEF Distinct, Named
  <2>4. \A i \in DOMAIN kept : kept[i].rank \in Nat /\ o.rank \in Nat
    BY <1>2, <1>3 DEF Offer
  <2>5. \A i \in DOMAIN kept :
          new[i].rank <= kept[i].rank /\ (kept[i].part = o.part => new[i].rank <= o.rank)
    BY <2>1, <2>4
  <2>6. ASSUME NEW i \in DOMAIN new, NEW k \in 1..n, s[k].part = new[i].part
        PROVE  new[i].rank <= s[k].rank
    <3>1. s[k].rank \in Nat /\ new[i].rank \in Nat /\ i \in DOMAIN kept
      BY <1>1, <2>1, <2>2, <2>4 DEF Offer
    <3>2. CASE k = n BY <3>1, <3>2, <2>2, <2>5, <2>6 DEF o
    <3>3. CASE k # n
      <4>1. k \in 1 .. n - 1 BY <3>3, <1>1
      <4>2. kept[i].rank <= s[k].rank BY <4>1, <3>1, <1>5, <2>2, <2>6
      <4> QED BY <4>2, <3>1, <2>4, <2>5
    <3> QED BY <3>2, <3>3
  <2> QED BY <1>4, <1>5, <1>6, <1>8, <2>3, <2>6 DEF KeptOf, new, o
<1> QED BY <1>7, <1>8

(* Merging offers leaves every part that is offered, once, at its best. *)
LEMMA DedupFacts ==
  ASSUME NEW s \in Offers
  PROVE  KeptOf(deduplicate_products(s), s, Len(s))
<1> DEFINE step == [x \in Offers \X Offer |-> Merged(x[1], x[2])]
           Dedups(f) == f = [n \in 0..Len(s) |-> IF n = 0 THEN <<>> ELSE Merged(f[n - 1], s[n])]
           kept == CHOOSE f : Dedups(f)
           T == {n \in 0..Len(s) : KeptOf(kept[n], s, n)}
<1>1. Len(s) \in Nat /\ s \in Seq(Offer) /\ <<>> \in Offers
  BY DEF Offers
<1>2. step \in [Offers \X Offer -> Offers]
  BY MergedType
<1>3. \E f : Dedups(f)
  <2> HIDE DEF step
  <2>0. PICK f \in [0..Len(s) -> Offers] : AlongList(f, <<>>, s, step)
    BY <1>1, <1>2, AlongExists
  <2>1. f[0] = <<>> /\ \A i \in 1..Len(s) : f[i] = step[<<f[i - 1], s[i]>>]
    BY <2>0 DEF AlongList
  <2>2. ASSUME NEW n \in 0..Len(s), n # 0 PROVE f[n] = Merged(f[n - 1], s[n])
    <3>1. n \in 1..Len(s) /\ n - 1 \in 0..Len(s) /\ s[n] \in Offer BY <1>1, <2>2
    <3>2. <<f[n - 1], s[n]>> \in Offers \X Offer BY <3>1, <2>1
    <3>3. step[<<f[n - 1], s[n]>>] = Merged(f[n - 1], s[n]) BY <3>2 DEF step
    <3> QED BY <2>1, <3>1, <3>3
  <2>3. Dedups(f)
    BY <2>1, <2>2
  <2> QED BY <2>3
<1>4. Dedups(kept)
  BY <1>3
<1>5. deduplicate_products(s) = kept[Len(s)]
  BY DEF deduplicate_products, Merged
<1> HIDE DEF kept
<1>6. kept[0] = <<>> /\ \A n \in 1..Len(s) : kept[n] = Merged(kept[n - 1], s[n])
  <2>1. \A n \in 0..Len(s) : kept[n] = IF n = 0 THEN <<>> ELSE Merged(kept[n - 1], s[n])
    BY <1>4
  <2> QED BY <1>1, <2>1
<1>7. 0 \in T
  BY <1>1, <1>6 DEF KeptOf, Distinct, Named
<1>8. ASSUME NEW n \in 1..Len(s), n - 1 \in T PROVE n \in T
  BY <1>6, <1>8, MergedKeeps
<1> HIDE DEF T
<1>9. 0..Len(s) \subseteq T
  BY <1>1, <1>7, <1>8, UpTo
<1> QED BY <1>1, <1>5, <1>9 DEF T

----------------------------------------------------------------------------
(* DigiKey's products, one at a time: what can be converted of each is     *)
(* among the results, or it came after the exact ones and has its MPN      *)
(* there already.                                                          *)
Joined(results, exact, n, o) ==
  IF n > Len(exact) /\ \E q \in Named(results) : SameMpn(o.part, q) THEN results
  ELSE results \o packagings(o)

JoinedOf(results, exact, all, n) ==
  /\ results \in Offers
  /\ Named(results) \subseteq {all[k].part : k \in 1..n}
  /\ \A k \in 1..n :
       \/ all[k].packs = 0 \/ all[k].part \in Named(results)
       \/ k > Len(exact) /\ \E q \in Named(results) : SameMpn(all[k].part, q)

LEMMA PackagingsNamed ==
  ASSUME NEW s \in Offers, NEW o \in Offer
  PROVE  /\ s \o packagings(o) \in Offers
         /\ Named(s \o packagings(o)) = Named(s) \cup (IF o.packs > 0 THEN {o.part} ELSE {})
<1>1. s \in Seq(Offer) /\ Len(s) \in Nat /\ DOMAIN s = 1..Len(s) /\ o.packs \in Nat
  BY DEF Offers, Offer
<1> DEFINE t == packagings(o)
           new == s \o t
<1>2. t \in Seq(Offer) /\ Len(t) = o.packs /\ \A i \in 1..o.packs : t[i] = o
  BY <1>1 DEF packagings
<1> HIDE DEF t
<1>3. /\ new \in Seq(Offer) /\ DOMAIN new = 1 .. Len(s) + o.packs
      /\ \A i \in 1 .. Len(s) + o.packs : new[i] = IF i <= Len(s) THEN s[i] ELSE t[i - Len(s)]
  BY <1>1, <1>2
<1> HIDE DEF new
<1>4. \A i \in DOMAIN new : new[i].part \in Named(s) \/ (o.packs > 0 /\ new[i].part = o.part)
  <2> SUFFICES ASSUME NEW i \in DOMAIN new
               PROVE  new[i].part \in Named(s) \/ (o.packs > 0 /\ new[i].part = o.part)
    OBVIOUS
  <2>1. CASE i <= Len(s) BY <1>1, <1>3, <2>1 DEF Named
  <2>2. CASE ~(i <= Len(s))
    <3>1. i - Len(s) \in 1..o.packs BY <1>1, <1>3, <2>2
    <3> QED BY <1>1, <1>2, <1>3, <2>2, <3>1
  <2> QED BY <2>1, <2>2
<1>5. \A i \in DOMAIN s : i \in DOMAIN new /\ new[i] = s[i]
  BY <1>1, <1>3
<1>6. o.packs > 0 => Len(s) + 1 \in DOMAIN new /\ new[Len(s) + 1] = o
  BY <1>1, <1>2, <1>3
<1>7. Named(new) = Named(s) \cup (IF o.packs > 0 THEN {o.part} ELSE {})
  <2>1. \A p \in Named(s) : p \in Named(new) BY <1>5 DEF Named
  <2>2. o.packs > 0 => o.part \in Named(new) BY <1>6 DEF Named
  <2>3. \A p \in Named(new) : p \in Named(s) \/ (o.packs > 0 /\ p = o.part) BY <1>4 DEF Named
  <2> QED BY <2>1, <2>2, <2>3
<1> QED BY <1>3, <1>7 DEF Offers, new, t

LEMMA AppendNamed ==
  ASSUME NEW s \in Offers, NEW o \in Offer
  PROVE  Append(s, o) \in Offers /\ Named(Append(s, o)) = Named(s) \cup {o.part}
<1>1. s \in Seq(Offer) /\ Len(s) \in Nat /\ DOMAIN s = 1..Len(s)
  BY DEF Offers
<1> DEFINE new == Append(s, o)
<1>2. /\ new \in Seq(Offer) /\ DOMAIN new = 1 .. Len(s) + 1 /\ new[Len(s) + 1] = o
      /\ \A i \in 1..Len(s) : new[i] = s[i]
  BY <1>1
<1>3. 1 .. Len(s) + 1 = 1..Len(s) \cup {Len(s) + 1}
  BY <1>1
<1> HIDE DEF new
<1>4. Named(new) = Named(s) \cup {o.part}
  BY <1>1, <1>2, <1>3 DEF Named
<1> QED BY <1>2, <1>4 DEF Offers, new

LEMMA JoinedKeeps ==
  ASSUME NEW results, NEW exact \in Offers, NEW all \in Offers,
         NEW n \in 1..Len(all), JoinedOf(results, exact, all, n - 1)
  PROVE  JoinedOf(Joined(results, exact, n, all[n]), exact, all, n)
<1> DEFINE o == all[n]
           new == Joined(results, exact, n, o)
<1>1. /\ Len(all) \in Nat /\ n \in Nat /\ 1..n = 1 .. n - 1 \cup {n} /\ o \in Offer
      /\ Len(exact) \in Nat
  BY DEF Offers
<1>2. results \in Offers
  BY DEF JoinedOf
<1>3. CASE n > Len(exact) /\ \E q \in Named(results) : SameMpn(o.part, q)
  <2>1. new = results BY <1>3 DEF Joined
  <2> HIDE DEF new
  <2> QED BY <1>1, <1>3, <2>1 DEF JoinedOf, new
<1>4. CASE ~(n > Len(exact) /\ \E q \in Named(results) : SameMpn(o.part, q))
  <2>1. new = results \o packagings(o) BY <1>4 DEF Joined
  <2> HIDE DEF new
  <2>2. /\ new \in Offers
        /\ Named(new) = Named(results) \cup (IF o.packs > 0 THEN {o.part} ELSE {})
    BY <1>1, <1>2, <2>1, PackagingsNamed
  <2>3. o.packs \in Nat BY <1>1 DEF Offer
  <2>4. o.packs = 0 \/ o.part \in Named(new) BY <2>2, <2>3
  <2> QED BY <1>1, <2>2, <2>4 DEF JoinedOf, new
<1> QED BY <1>3, <1>4

LEMMA DigikeyFacts ==
  ASSUME NEW exact \in Offers, NEW products \in Offers
  PROVE  JoinedOf(exact_then_products(exact, products), exact, exact \o products,
                  Len(exact \o products))
<1> DEFINE all == exact \o products
           numbered == [n \in 1..Len(all) |-> <<n, all[n]>>]
           step == [x \in Offers \X (Nat \X Offer) |-> Joined(x[1], exact, x[2][1], x[2][2])]
           Joins(f) == f = [n \in 0..Len(all) |->
                              IF n = 0 THEN <<>> ELSE Joined(f[n - 1], exact, n, all[n])]
           results == CHOOSE f : Joins(f)
           T == {n \in 0..Len(all) : JoinedOf(results[n], exact, all, n)}
<1>1. Len(all) \in Nat /\ all \in Seq(Offer) /\ Len(exact) \in Nat /\ <<>> \in Offers
  BY DEF Offers
<1>0. all \in Offers
  BY <1>1 DEF Offers
<1>x. exact_then_products(exact, products)
        = LET f[n \in 0..Len(all)] ==
                IF n = 0 THEN <<>>
                ELSE IF n > Len(exact) /\ \E q \in Named(f[n - 1]) : SameMpn(all[n].part, q)
                     THEN f[n - 1] ELSE f[n - 1] \o packagings(all[n])
          IN  f[Len(all)]
  BY DEF exact_then_products
<1> HIDE DEF all
<1>2. step \in [Offers \X (Nat \X Offer) -> Offers]
  BY PackagingsNamed DEF Joined
<1>n. numbered \in Seq(Nat \X Offer) /\ Len(numbered) = Len(all)
  <2>1. \A n \in 1..Len(all) : all[n] \in Offer BY <1>1
  <2>2. numbered \in [1..Len(all) -> Nat \X Offer] BY <2>1
  <2> HIDE DEF numbered
  <2> QED BY <1>1, <2>2
<1>3. \E f : Joins(f)
  <2> HIDE DEF step
  <2>0. PICK f \in [0..Len(all) -> Offers] : AlongList(f, <<>>, numbered, step)
    <3> HIDE DEF numbered
    <3> QED BY <1>1, <1>2, <1>n, AlongExists
  <2>1. f[0] = <<>> /\ \A i \in 1..Len(all) : f[i] = step[<<f[i - 1], numbered[i]>>]
    <3> HIDE DEF numbered
    <3> QED BY <1>n, <2>0 DEF AlongList
  <2>2. ASSUME NEW n \in 0..Len(all), n # 0
        PROVE  f[n] = Joined(f[n - 1], exact, n, all[n])
    <3>1. n \in 1..Len(all) /\ n - 1 \in 0..Len(all) /\ all[n] \in Offer
      BY <1>1, <2>2
    <3>2. numbered[n] = <<n, all[n]>> /\ n \in Nat
      BY <3>1
    <3> HIDE DEF numbered
    <3>3. <<f[n - 1], numbered[n]>> \in Offers \X (Nat \X Offer) BY <3>1, <3>2, <2>1
    <3>4. step[<<f[n - 1], numbered[n]>>] = Joined(f[n - 1], exact, n, all[n])
      BY <3>2, <3>3 DEF step
    <3> QED BY <2>1, <3>1, <3>4
  <2>3. Joins(f)
    BY <2>1, <2>2
  <2> QED BY <2>3
<1>4. Joins(results)
  BY <1>3
<1>5. exact_then_products(exact, products) = results[Len(all)]
  BY <1>x DEF Joined
<1> HIDE DEF results
<1>6. /\ results[0] = <<>>
      /\ \A n \in 1..Len(all) : results[n] = Joined(results[n - 1], exact, n, all[n])
  <2>1. \A n \in 0..Len(all) :
          results[n] = IF n = 0 THEN <<>> ELSE Joined(results[n - 1], exact, n, all[n])
    BY <1>4
  <2> QED BY <1>1, <2>1
<1>7. 0 \in T
  BY <1>1, <1>6 DEF JoinedOf, Named
<1>8. ASSUME NEW n \in 1..Len(all), n - 1 \in T PROVE n \in T
  BY <1>0, <1>6, <1>8, JoinedKeeps
<1> HIDE DEF T
<1>9. 0..Len(all) \subseteq T
  BY <1>1, <1>7, <1>8, UpTo
<1> QED BY <1>1, <1>5, <1>9 DEF T, all

----------------------------------------------------------------------------
(* Facts about lists and rules that several steps use. *)
LEMMA ListingsAreOffers ==
  Listings \subseteq Offers /\ <<>> \in Offers /\ Named(<<>>) = {} /\ Distinct(<<>>)
BY SearchAssumption DEF Offers, Named, Distinct

LEMMA RulesStay ==
  ASSUME keyword' = keyword, model' = model
  PROVE  /\ matches_expected_mpn' = matches_expected_mpn
         /\ matches_search_keyword' = matches_search_keyword
         /\ row_matches' = row_matches
BY DEF matches_expected_mpn, matches_search_keyword, row_matches, Of

LEMMA WantedIs ==
  /\ \A s \in Source : Wanted(s) \subseteq Named(listed[s])
  /\ Wanted("public") = Named(listed["public"]) \cap matches_expected_mpn
  /\ \A s \in {"primary", "third"} :
       Wanted(s) = IF supplier = "lcsc" THEN Named(listed[s]) \cap matches_search_keyword
                   ELSE (Named(listed[s]) \cap matches_search_keyword \cap Coded) \ refused["resolve"]
  /\ Wanted("page") = IF said["page"] = "rows" THEN Named(listed["page"]) \cap row_matches
                      ELSE Named(listed["page"]) \cap (Coded \ refused["verify"])
  /\ Wanted("claude") = {}
  /\ \A s \in {"exact", "direct"} : Wanted(s) = {listed[s][i].part : i \in Convertible(listed[s])}
BY DEF Wanted, Source, Named, Convertible

LEMMA WantedThen ==
  /\ \A s \in Source : Wanted(s)' \subseteq Named(listed'[s])
  /\ Wanted("public")' = Named(listed'["public"]) \cap matches_expected_mpn'
  /\ \A s \in {"primary", "third"} :
       Wanted(s)' = IF supplier' = "lcsc" THEN Named(listed'[s]) \cap matches_search_keyword'
                    ELSE (Named(listed'[s]) \cap matches_search_keyword' \cap Coded) \ refused'["resolve"]
  /\ Wanted("page")' = IF said'["page"] = "rows" THEN Named(listed'["page"]) \cap row_matches'
                       ELSE Named(listed'["page"]) \cap (Coded \ refused'["verify"])
  /\ Wanted("claude")' = {}
  /\ \A s \in {"exact", "direct"} :
       Wanted(s)' = {listed'[s][i].part : i \in Convertible(listed'[s])}
BY DEF Wanted, Source, Named, Convertible

LEMMA HeadTail ==
  ASSUME NEW s \in Offers, s # <<>>
  PROVE  /\ Tail(s) \in Offers /\ Head(s) \in Offer
         /\ Named(s) = Named(Tail(s)) \cup {Head(s).part}
         /\ Distinct(s) => Distinct(Tail(s)) /\ Head(s).part \notin Named(Tail(s))
<1>1. s \in Seq(Offer) /\ Len(s) \in Nat /\ Len(s) >= 1 /\ DOMAIN s = 1..Len(s)
  BY DEF Offers
<1> DEFINE t == Tail(s)
<1>2. /\ t \in Seq(Offer) /\ DOMAIN t = 1 .. Len(s) - 1 /\ Head(s) = s[1] /\ s[1] \in Offer
      /\ \A i \in 1 .. Len(s) - 1 : t[i] = s[i + 1]
  BY <1>1
<1> HIDE DEF t
<1>3. \A i \in 1..Len(s) : i = 1 \/ (i - 1 \in DOMAIN t /\ t[i - 1] = s[i])
  BY <1>1, <1>2
<1>4. \A i \in DOMAIN t : i + 1 \in 1..Len(s) /\ t[i] = s[i + 1] /\ i + 1 # 1 /\ i \in Nat
  BY <1>1, <1>2
<1>5. Named(s) = Named(t) \cup {s[1].part}
  <2>1. \A i \in DOMAIN s : s[i].part \in Named(t) \cup {s[1].part}
    BY <1>1, <1>3 DEF Named
  <2>2. \A i \in DOMAIN t : t[i].part \in Named(s)
    BY <1>1, <1>4 DEF Named
  <2>3. s[1].part \in Named(s)
    BY <1>1 DEF Named
  <2> QED BY <2>1, <2>2, <2>3 DEF Named
<1>6. ASSUME Distinct(s) PROVE Distinct(t) /\ s[1].part \notin Named(t)
  <2>1. ASSUME NEW i \in DOMAIN t, NEW j \in DOMAIN t, t[i].part = t[j].part PROVE i = j
    <3>1. i + 1 = j + 1 BY <1>1, <1>4, <1>6, <2>1 DEF Distinct
    <3> QED BY <3>1, <1>4
  <2>2. \A i \in DOMAIN t : t[i].part # s[1].part
    BY <1>1, <1>4, <1>6 DEF Distinct
  <2> QED BY <2>1, <2>2 DEF Distinct, Named
<1> QED BY <1>2, <1>5, <1>6 DEF Offers, t

LEMMA AppendDistinct ==
  ASSUME NEW s \in Offers, NEW o \in Offer, Distinct(s), o.part \notin Named(s)
  PROVE  Distinct(Append(s, o))
<1>1. s \in Seq(Offer) /\ Len(s) \in Nat /\ DOMAIN s = 1..Len(s)
  BY DEF Offers
<1> DEFINE t == Append(s, o)
<1>2. /\ DOMAIN t = 1..Len(s) \cup {Len(s) + 1} /\ t[Len(s) + 1] = o
      /\ \A i \in 1..Len(s) : t[i] = s[i]
  BY <1>1
<1>3. \A i \in 1..Len(s) : s[i].part # o.part
  BY <1>1 DEF Named
<1> HIDE DEF t
<1>4. Distinct(t)
  BY <1>1, <1>2, <1>3 DEF Distinct
<1> QED BY <1>4 DEF t

(* Results cut to the limit are all there are, or fill it. *)
Cut(s) == IF limit > 0 THEN Sliced(s, limit) ELSE s

LEMMA CutFacts ==
  ASSUME NEW s \in Offers, limit \in Int
  PROVE  /\ Cut(s) \in Offers /\ Within(Cut(s), s) /\ Named(Cut(s)) \subseteq Named(s)
         /\ Distinct(s) => Distinct(Cut(s))
         /\ Cut(s) = s \/ (limit > 0 /\ Len(Cut(s)) >= limit)
         /\ Cut(s) = <<>> => s = <<>>
<1>1. Len(s) \in Nat /\ s \in Seq(Offer)
  BY DEF Offers
<1>2. CASE limit > 0
  <2>1. Cut(s) = Sliced(s, limit) BY <1>2 DEF Cut
  <2>2. /\ Sliced(s, limit) \in Offers /\ Within(Sliced(s, limit), s)
        /\ Named(Sliced(s, limit)) \subseteq Named(s)
        /\ Distinct(s) => Distinct(Sliced(s, limit))
        /\ Len(Sliced(s, limit)) = IF limit < Len(s) THEN limit ELSE Len(s)
        /\ limit >= Len(s) => Sliced(s, limit) = s
    BY <1>2, SlicedFacts
  <2>3. Sliced(s, limit) = <<>> => s = <<>>
    BY <1>1, <1>2, <2>2
  <2> QED BY <1>1, <1>2, <2>1, <2>2, <2>3
<1>3. CASE ~(limit > 0)
  <2>1. Cut(s) = s BY <1>3 DEF Cut
  <2>2. Within(s, s) BY DEF Within
  <2> QED BY <1>3, <2>1, <2>2
<1> QED BY <1>2, <1>3

LEMMA PublicFacts ==
  ASSUME NEW s \in Offers, limit \in Int
  PROVE  /\ PublicResults(s) \in Offers
         /\ Named(PublicResults(s)) \subseteq Named(s)
         /\ \/ Named(s) \cap matches_expected_mpn \subseteq Named(PublicResults(s))
            \/ limit > 0 /\ Len(PublicResults(s)) >= limit
            \/ limit < 0
         /\ PublicResults(s) = <<>> => Named(s) \cap matches_expected_mpn = {}
<1> DEFINE m == Only(s, matches_expected_mpn)
           n == IF limit < 1 THEN 1 ELSE limit
<1>1. m \in Offers /\ Named(m) = Named(s) \cap matches_expected_mpn
  BY OnlyFacts
<1>2. PublicResults(s) = IF limit = 0 THEN m ELSE Sliced(m, n)
  BY DEF PublicResults
<1>3. n \in Int /\ n >= 1 /\ (limit > 0 => n = limit)
  OBVIOUS
<1> HIDE DEF m, n
<1>4. Len(m) \in Nat /\ m \in Seq(Offer) /\ (m = <<>> => Named(m) = {})
  BY <1>1, ListingsAreOffers DEF Offers
<1>5. /\ Sliced(m, n) \in Offers /\ Named(Sliced(m, n)) \subseteq Named(m)
      /\ Len(Sliced(m, n)) = IF n < Len(m) THEN n ELSE Len(m)
      /\ n >= Len(m) => Sliced(m, n) = m
  BY <1>1, <1>3, SlicedFacts
<1>6. Sliced(m, n) = <<>> => m = <<>>
  BY <1>3, <1>4, <1>5
<1>7. limit > 0 => Sliced(m, n) = m \/ Len(Sliced(m, n)) >= limit
  BY <1>3, <1>4, <1>5
<1> QED BY <1>1, <1>2, <1>4, <1>5, <1>6, <1>7

(* An order of some parts has each of them once. *)
LEMMA OrderFacts ==
  ASSUME NEW s \in Offers, NEW order \in Orders(Named(s) \cap Coded)
  PROVE  LET t == [i \in DOMAIN order |-> [part |-> order[i], rank |-> 0, packs |-> 1]]
         IN  t \in Offers /\ Distinct(t) /\ Named(t) = Named(s) \cap Coded
<1> DEFINE P == Named(s) \cap Coded
           N == Cardinality(P)
           R == {order[i] : i \in DOMAIN order}
           t == [i \in DOMAIN order |-> [part |-> order[i], rank |-> 0, packs |-> 1]]
           name == [i \in DOMAIN s |-> s[i].part]
<1>1. DOMAIN s = 1..Len(s) /\ Len(s) \in Nat /\ \A i \in DOMAIN s : s[i].part \in Parts
  <2>1. DOMAIN s = 1..Len(s) /\ Len(s) \in Nat BY DEF Offers
  <2>2. \A i \in DOMAIN s : s[i] \in Offer BY DEF Offers
  <2> QED BY <2>1, <2>2 DEF Offer
<1>2. IsFiniteSet(P) /\ N \in Nat /\ P \subseteq Parts
  <2>1. name \in Surjection(DOMAIN s, Named(s))
    <3>1. name \in [DOMAIN s -> Named(s)] BY DEF Named
    <3>2. \A p \in Named(s) : \E i \in DOMAIN s : name[i] = p BY DEF Named
    <3> HIDE DEF name
    <3> QED BY <3>1, <3>2, Fun_IsSurj
  <2>2. IsFiniteSet(DOMAIN s) BY <1>1, FS_Interval
  <2> HIDE DEF name
  <2>3. IsFiniteSet(Named(s)) BY <2>1, <2>2, FS_Surjection
  <2>4. IsFiniteSet(P) BY <2>3, FS_Subset
  <2>5. Named(s) \subseteq Parts BY <1>1 DEF Named
  <2> QED BY <2>4, <2>5, FS_CardinalityType
<1>3. order \in [1..N -> P] /\ Cardinality(R) = N
  BY DEF Orders
<1> HIDE DEF P, N
<1>4. R = P
  <2>1. R \in SUBSET P BY <1>3
  <2> HIDE DEF R
  <2> QED BY <1>2, <1>3, <2>1, FS_Subset DEF N
<1>5. order \in Surjection(1..N, P)
  <2>1. \A p \in P : \E i \in 1..N : order[i] = p
    BY <1>3, <1>4
  <2> QED BY <1>3, <2>1, Fun_IsSurj
<1>6. order \in Injection(1..N, P)
  <2>1. IsFiniteSet(1..N) /\ Cardinality(1..N) = N BY <1>2, FS_Interval
  <2> QED BY <1>5, <2>1, FS_Surjection DEF N
<1>7. \A i, j \in 1..N : order[i] = order[j] => i = j
  BY <1>6, Fun_InjectionProperties
<1>8. t \in [1..N -> Offer]
  BY <1>2, <1>3 DEF Offer
<1>9. t \in Offers
  <2> HIDE DEF t
  <2> QED BY <1>2, <1>8 DEF Offers
<1>10. DOMAIN t = 1..N /\ \A i \in 1..N : t[i].part = order[i]
  BY <1>3
<1> HIDE DEF t
<1>11. Distinct(t)
  BY <1>7, <1>10 DEF Distinct
<1>12. Named(t) = P
  BY <1>3, <1>4, <1>10 DEF Named
<1> QED BY <1>9, <1>11, <1>12 DEF t, P
----------------------------------------------------------------------------
(* One source is heard: it failed, or sent a page. *)
Heard(s, what, offers) ==
  /\ said'   = [said EXCEPT ![s] = what]
  /\ listed' = [listed EXCEPT ![s] = offers]
  /\ \/ what # "listed" /\ offers = <<>> /\ held' = held
     \/ /\ what = "listed"
        /\ \E holds \in Offers : /\ held' = [held EXCEPT ![s] = holds]
                                /\ offers \in {holds, Sliced(holds, page_size(s))}

LEMMA PageIsHeard ==
  ASSUME limit \in Int, NEW s, NEW holds \in Listings,
         NEW offers \in {holds, Sliced(holds, page_size(s))}, HearPage(s, holds, offers)
  PROVE  offers \in Offers /\ Heard(s, "listed", offers)
<1>1. holds \in Offers
  BY ListingsAreOffers
<1>2. page_size(s) \in Int
  BY DEF page_size
<1>3. Sliced(holds, page_size(s)) \in Offers
  BY <1>1, <1>2, SlicedFacts
<1> QED BY <1>1, <1>3 DEF HearPage, Heard

(* What either search of LCSC leaves to be looked up. *)
LEMMA LcscAnswers ==
  ASSUME limit \in Int, NEW s \in {"primary", "third"}, NEW ifEmpty, AskLcsc(s, ifEmpty)
  PROVE  /\ UNCHANGED <<supplier, hasApi, limit, keyword, model, refused, found, unfit, status, data>>
         /\ \E what \in {"failed", "broken", "listed"}, offers \in Offers :
              /\ Heard(s, what, offers)
              /\ phase' = IF what # "broken" /\ offers = <<>> THEN ifEmpty ELSE "offered"
              /\ todo' \in Offers /\ Distinct(todo') /\ Named(todo') = Named(offers)
              /\ \A i \in DOMAIN todo', k \in DOMAIN offers :
                   offers[k].part = todo'[i].part => todo'[i].rank <= offers[k].rank
<1>1. UNCHANGED <<supplier, hasApi, limit, keyword, model, refused, found, unfit, status, data>>
  BY DEF AskLcsc, world
<1>2. CASE \/ Hear(s, "broken", <<>>) /\ phase' = "offered" /\ todo' = <<>>
           \/ Hear(s, "failed", <<>>) /\ phase' = ifEmpty /\ todo' = <<>>
  <2>1. DOMAIN <<>> = {} OBVIOUS
  <2>2. \/ Heard(s, "broken", <<>>) /\ phase' = "offered" /\ todo' = <<>>
        \/ Heard(s, "failed", <<>>) /\ phase' = ifEmpty /\ todo' = <<>>
    BY <1>2 DEF Hear, Heard
  <2> QED BY <1>1, <2>1, <2>2, ListingsAreOffers
<1>3. CASE \E holds \in Listings : \E offers \in {holds, Sliced(holds, page_size(s))} :
             /\ HearPage(s, holds, offers)
             /\ phase' = IF offers = <<>> THEN ifEmpty ELSE "offered"
             /\ todo' = deduplicate_products(offers)
  <2>0. PICK holds \in Listings : \E offers \in {holds, Sliced(holds, page_size(s))} :
             /\ HearPage(s, holds, offers)
             /\ phase' = IF offers = <<>> THEN ifEmpty ELSE "offered"
             /\ todo' = deduplicate_products(offers)
    BY <1>3
  <2>1. PICK offers \in {holds, Sliced(holds, page_size(s))} :
             /\ HearPage(s, holds, offers)
             /\ phase' = IF offers = <<>> THEN ifEmpty ELSE "offered"
             /\ todo' = deduplicate_products(offers)
    BY <2>0
  <2>2. offers \in Offers /\ Heard(s, "listed", offers)
    BY <2>1, PageIsHeard
  <2>3. KeptOf(todo', offers, Len(offers)) /\ DOMAIN offers = 1..Len(offers)
    BY <2>1, <2>2, DedupFacts DEF Offers
  <2>4. /\ todo' \in Offers /\ Distinct(todo') /\ Named(todo') = Named(offers)
        /\ \A i \in DOMAIN todo', k \in DOMAIN offers :
             offers[k].part = todo'[i].part => todo'[i].rank <= offers[k].rank
    BY <2>2, <2>3 DEF KeptOf, Named
  <2> QED BY <1>1, <2>1, <2>2, <2>4
<1> QED BY <1>2, <1>3 DEF AskLcsc

(* A page stays one while nobody else is asked for one. *)
LEMMA PagesStay ==
  ASSUME PageBooks, UNCHANGED <<supplier, limit, held>>,
         \A s \in Paged : said'[s] = said[s] /\ listed'[s] = listed[s]
  PROVE  PageBooks'
BY DEF PageBooks, page_size

LEMMA PageHeard ==
  ASSUME TypeOK, PageBooks, NEW s \in Paged, said[s] = "unasked",
         NEW what, NEW offers \in Offers, Heard(s, what, offers), UNCHANGED <<supplier, limit>>
  PROVE  held' \in [Paged -> Offers] /\ PageBooks'
<1>1. /\ \A t \in Source : t # s => said'[t] = said[t] /\ listed'[t] = listed[t]
      /\ said'[s] = what /\ listed'[s] = offers /\ held \in [Paged -> Offers]
      /\ Paged \subseteq Source
  BY DEF Heard, TypeOK, Source, Paged
<1>2. \A t : page_size(t)' = page_size(t)
  BY DEF page_size
<1>3. CASE what # "listed" /\ offers = <<>> /\ held' = held
  BY <1>1, <1>2, <1>3 DEF PageBooks
<1>4. CASE what = "listed" /\ \E holds \in Offers :
             /\ held' = [held EXCEPT ![s] = holds]
             /\ offers \in {holds, Sliced(holds, page_size(s))}
  <2>1. PICK holds \in Offers : /\ held' = [held EXCEPT ![s] = holds]
                               /\ offers \in {holds, Sliced(holds, page_size(s))}
    BY <1>4
  <2>2. /\ held'[s] = holds /\ \A t \in Paged : t # s => held'[t] = held[t]
        /\ held' \in [Paged -> Offers]
    BY <1>1, <2>1
  <2> QED BY <1>1, <1>2, <1>4, <2>1, <2>2 DEF PageBooks
<1> QED BY <1>3, <1>4 DEF Heard

(* The first offers that a source holds are on its page. *)
LEMMA PagesAreSeen ==
  ASSUME TypeOK, PageBooks
  PROVE  \A s \in Paged : \A i \in DOMAIN held[s] :
           Seen(i) => held[s][i].part \in Named(listed[s])
<1> SUFFICES ASSUME NEW s \in Paged, NEW i \in DOMAIN held[s], Seen(i)
             PROVE  held[s][i].part \in Named(listed[s])
  OBVIOUS
<1>1. /\ held[s] \in Offers /\ limit \in Int /\ DOMAIN held[s] = 1..Len(held[s])
      /\ Len(held[s]) \in Nat
  BY DEF TypeOK, Offers
<1>2. listed[s] \in {held[s], Sliced(held[s], page_size(s))}
  BY <1>1 DEF PageBooks
<1>3. page_size(s) \in Nat /\ i <= page_size(s)
  BY <1>1 DEF page_size, Seen
<1>4. i \in DOMAIN Sliced(held[s], page_size(s))
      /\ Sliced(held[s], page_size(s))[i] = held[s][i]
  BY <1>1, <1>3, SlicedFacts
<1> QED BY <1>2, <1>4 DEF Named

(* Until the search is done there is nothing in its answer to be wrong. *)
LEMMA Unfinished ==
  ASSUME PhaseBooks', phase' # "done"
  PROVE  /\ NothingFoundIsLost' /\ OnceAtItsBest'
         /\ status' = "none" /\ Named(data') = {}
BY ListingsAreOffers, PhaseBooks' DEF PhaseBooks, NothingFoundIsLost, OnceAtItsBest, Best

(* A lookup can only leave less to be wanted. *)
LEMMA WantedShrinks ==
  ASSUME UNCHANGED <<supplier, limit, keyword, model, said, held, listed>>,
         refused["resolve"] \subseteq refused'["resolve"],
         refused["verify"] \subseteq refused'["verify"]
  PROVE  /\ \A s \in {"public", "primary", "third", "page"} : Wanted(s)' \subseteq Wanted(s)
         /\ refused' = refused => \A s \in Source : Wanted(s)' = Wanted(s)
<1>1. \A s \in {"public", "primary", "third", "page"} : Wanted(s)' \subseteq Wanted(s)
  BY WantedIs, WantedThen, RulesStay
<1>2. ASSUME refused' = refused PROVE \A s \in Source : Wanted(s)' = Wanted(s)
  BY <1>2, RulesStay DEF Wanted, detail_matches
<1> QED BY <1>1, <1>2

LEMMA StillInOrder ==
  ASSUME FallbacksInOrder, PhaseBooks', phase' # "done",
         UNCHANGED <<supplier, limit, keyword, model, said, held, listed>>,
         refused["resolve"] \subseteq refused'["resolve"],
         refused["verify"] \subseteq refused'["verify"]
  PROVE  FallbacksInOrder'
BY Unfinished, WantedShrinks DEF FallbacksInOrder, Asked

(* One lookup keeps the books of its loop. *)
LEMMA LookupStep ==
  ASSUME TypeOK, todo # <<>>, NEW loop \in {"resolve", "verify"}, NEW isPart \in BOOLEAN, NEW C,
         LookedUp(loop, isPart), Lookups(loop, C)
  PROVE  /\ todo' \in Offers /\ found' \in Offers
         /\ refused' \in [{"resolve", "verify"} -> SUBSET Parts]
         /\ \A l \in {"resolve", "verify"} : refused[l] \subseteq refused'[l]
         /\ loop = "resolve" => refused'["verify"] = refused["verify"]
         /\ Distinct(todo') /\ Distinct(found')
         /\ Named(todo') \cap (Named(found') \cup refused'[loop]) = {}
         /\ C \subseteq Named(todo') \cup Named(found') \cup refused'[loop]
         /\ Named(todo') \cup Named(found') \subseteq C
<1> DEFINE o == Head(todo)
<1>1. /\ todo \in Offers /\ found \in Offers
      /\ refused \in [{"resolve", "verify"} -> SUBSET Parts]
  BY DEF TypeOK
<1>2. /\ Distinct(todo) /\ Distinct(found)
      /\ Named(todo) \cap (Named(found) \cup refused[loop]) = {}
      /\ C \subseteq Named(todo) \cup Named(found) \cup refused[loop]
      /\ Named(todo) \cup Named(found) \subseteq C
  BY DEF Lookups
<1>3. /\ todo' \in Offers /\ o \in Offer
      /\ Named(todo) = Named(todo') \cup {o.part}
      /\ Distinct(todo') /\ o.part \notin Named(todo')
  BY <1>1, <1>2, HeadTail DEF LookedUp
<1>4. o.part \in Parts
  BY <1>3 DEF Offer
<1> HIDE DEF o
<1>5. CASE isPart
  <2>1. found' = Append(found, o) /\ refused' = refused
    BY <1>5 DEF LookedUp, o
  <2>2. found' \in Offers /\ Named(found') = Named(found) \cup {o.part}
    BY <1>1, <1>3, <2>1, AppendNamed
  <2>3. o.part \notin Named(found)
    BY <1>2, <1>3
  <2>4. Distinct(found')
    BY <1>1, <1>2, <1>3, <2>1, <2>3, AppendDistinct
  <2> QED BY <1>1, <1>2, <1>3, <2>1, <2>2, <2>4
<1>6. CASE ~isPart
  <2>1. found' = found /\ refused' = [refused EXCEPT ![loop] = @ \cup {o.part}]
    BY <1>6 DEF LookedUp, o
  <2>2. /\ refused'[loop] = refused[loop] \cup {o.part}
        /\ \A l \in {"resolve", "verify"} : l # loop => refused'[l] = refused[l]
        /\ refused' \in [{"resolve", "verify"} -> SUBSET Parts]
    BY <1>1, <1>4, <2>1
  <2> QED BY <1>1, <1>2, <1>3, <2>1, <2>2
<1> QED BY <1>5, <1>6


(* Once the results are there, the end of the search asks and hears nothing. *)
LEMMA ResultsStand ==
  ASSUME ResultBooks, phase = "found",
         UNCHANGED <<world, said, held, listed, refused, found>>
  PROVE  /\ ResultBooks'
         /\ \A s \in Source : Wanted(s)' = Wanted(s)
         /\ \A p, q : SameMpn(p, q)' <=> SameMpn(p, q)
         /\ \A p : LastAsked(p)' <=> LastAsked(p)
         /\ AllAsked' <=> AllAsked
<1>1. UNCHANGED <<supplier, limit, keyword, model, said, held, listed, refused, found>>
  BY DEF world
<1>2. \A s \in Source : Wanted(s)' = Wanted(s)
  BY <1>1, WantedShrinks
<1>3. \A p, q : SameMpn(p, q)' <=> SameMpn(p, q)
  BY <1>1 DEF SameMpn
<1>4. \A p : LastAsked(p)' <=> LastAsked(p)
  BY <1>1 DEF LastAsked, Asked
<1>5. AllAsked' <=> AllAsked
  BY <1>1 DEF AllAsked, Asked
<1>6. Best(found)' <=> Best(found)
  BY <1>1 DEF Best
<1>7. ResultBooks'
  <2>1. Filled' <=> Filled
    BY <1>1 DEF Filled
  <2> QED BY <1>1, <1>2, <1>3, <1>4, <1>5, <1>6, <2>1 DEF ResultBooks, Asked
<1> QED BY <1>2, <1>3, <1>4, <1>5, <1>7

----------------------------------------------------------------------------
(* Each action keeps the invariant. *)
(* No adapter: nothing was asked. *)
LEMMA NoAdapterStep ==
  ASSUME IInv, NoAdapter
  PROVE  IInv'
<1> USE DEF IInv, world
<1>1. TypeOK'
  BY ListingsAreOffers DEF NoAdapter, Done, TypeOK, PhaseBooks, Source
<1>2. SourceBooks'
  BY DEF NoAdapter, Done, TypeOK, SourceBooks, PhaseBooks, Silent, Source
<1>3. PhaseBooks'
  BY DEF NoAdapter, Done, TypeOK, SourceBooks, PhaseBooks, Silent, Source, Asked,
     LcscAsked
<1>4. LookupBooks'
  BY DEF NoAdapter, Done, LookupBooks
<1>5. ResultBooks'
  BY ListingsAreOffers DEF NoAdapter, Done, TypeOK, PhaseBooks, ResultBooks, Silent,
     Source, Asked
<1>6. FallbacksInOrder'
  BY ListingsAreOffers DEF NoAdapter, Done, TypeOK, PhaseBooks, FallbacksInOrder,
     Silent, Source, Asked
<1>7. NothingFoundIsLost' /\ OnceAtItsBest'
  BY DEF NoAdapter, Done, TypeOK, SourceBooks, PhaseBooks, NothingFoundIsLost,
     OnceAtItsBest
<1>8. PageBooks'
  BY PagesStay DEF NoAdapter, Done, TypeOK, Source, Paged
<1> QED BY <1>1, <1>2, <1>3, <1>4, <1>5, <1>6, <1>7, <1>8

(* One list, answered as it is. *)
LEMMA AskMouserStep ==
  ASSUME IInv, AskMouser
  PROVE  IInv'
<1> USE DEF IInv, world
<1>a. PICK offers \in Offers : /\ listed'["direct"] = offers /\ found' \in Offers
                              /\ Named(found') = {offers[i].part : i \in Convertible(offers)}
  <2>1. PICK offers \in Offers :
          /\ listed'["direct"] = offers
          /\ \/ offers = <<>> /\ found' = <<>>
             \/ found' = Picked(offers, Convertible(offers))
    BY ListingsAreOffers DEF AskMouser, Hear, Results, TypeOK, Source
  <2>2. Convertible(offers) \in SUBSET DOMAIN offers
    BY DEF Convertible
  <2>3. /\ Picked(offers, Convertible(offers)) \in Offers
        /\ Named(Picked(offers, Convertible(offers)))
             = {offers[i].part : i \in Convertible(offers)}
    BY <2>2, PickedFacts
  <2>4. offers = <<>> => {offers[i].part : i \in Convertible(offers)} = {}
    BY DEF Convertible
  <2> QED BY <2>1, <2>3, <2>4, ListingsAreOffers
<1>1. TypeOK'
  BY <1>a, ListingsAreOffers DEF AskMouser, Hear, Results, TypeOK, PhaseBooks, Source
<1>2. SourceBooks'
  BY DEF AskMouser, Hear, Results, TypeOK, SourceBooks, PhaseBooks, Silent, Source
<1>3. PhaseBooks'
  BY DEF AskMouser, Hear, Results, TypeOK, SourceBooks, PhaseBooks, Silent, Source,
     Asked, LcscAsked
<1>4. LookupBooks'
  BY DEF AskMouser, Hear, Results, LookupBooks
<1>5. ResultBooks'
  <2>2. \A s \in Source \ {"direct"} : Named(listed'[s]) = {}
    BY ListingsAreOffers DEF AskMouser, Hear, TypeOK, PhaseBooks, Silent, Source
  <2>3. \A s \in Source : Wanted(s)' \subseteq Named(found')
    BY <1>a, <2>2, WantedThen
  <2>4. \A p \in Named(found') : LastAsked(p)'
    <3>1. \A p \in Named(found') : p \in Named(listed'["direct"])
      BY <1>a DEF Named, Convertible
    <3> QED BY <3>1 DEF LastAsked, Source
  <2> QED BY <2>3, <2>4 DEF ResultBooks, AskMouser, Results
<1>6. FallbacksInOrder'
  BY ListingsAreOffers DEF AskMouser, Hear, Results, TypeOK, PhaseBooks,
     FallbacksInOrder, Silent, Source, Asked
<1>7. NothingFoundIsLost' /\ OnceAtItsBest'
  BY <1>3, Unfinished DEF AskMouser, Hear, Results
<1>8. PageBooks'
  BY PagesStay DEF AskMouser, Hear, Results, TypeOK, Source, Paged
<1> QED BY <1>1, <1>2, <1>3, <1>4, <1>5, <1>6, <1>7, <1>8

(* A provider error promises nothing. *)
LEMMA DigikeyFailsStep ==
  ASSUME IInv, DigikeyFails
  PROVE  IInv'
<1> USE DEF IInv, world
<1>1. TypeOK'
  BY ListingsAreOffers DEF DigikeyFails, Hear, TypeOK, PhaseBooks, Source
<1>2. SourceBooks'
  BY DEF DigikeyFails, Hear, TypeOK, SourceBooks, PhaseBooks, Silent, Source
<1>3. PhaseBooks'
  BY DEF DigikeyFails, Hear, TypeOK, SourceBooks, PhaseBooks, Silent, Source, Asked,
     LcscAsked
<1>4. LookupBooks'
  BY DEF DigikeyFails, Hear, LookupBooks
<1>5. ResultBooks'
  BY ListingsAreOffers DEF DigikeyFails, Hear, TypeOK, PhaseBooks, ResultBooks, Silent,
     Source, Asked
<1>6. FallbacksInOrder'
  BY ListingsAreOffers DEF DigikeyFails, Hear, TypeOK, PhaseBooks, FallbacksInOrder,
     Silent, Source, Asked
<1>7. NothingFoundIsLost' /\ OnceAtItsBest'
  BY DEF DigikeyFails, Hear, TypeOK, SourceBooks, PhaseBooks, NothingFoundIsLost,
     OnceAtItsBest
<1>8. PageBooks'
  BY PagesStay DEF DigikeyFails, Hear, TypeOK, Source, Paged
<1> QED BY <1>1, <1>2, <1>3, <1>4, <1>5, <1>6, <1>7, <1>8

(* Two lists, joined. *)
LEMMA AskDigikeyStep ==
  ASSUME IInv, AskDigikey
  PROVE  IInv'
<1> USE DEF IInv, world
<1>a. PICK exact \in Offers, products \in Offers :
        /\ said' = [said EXCEPT !["exact"] = "listed", !["direct"] = "listed"]
        /\ listed' = [listed EXCEPT !["exact"] = exact, !["direct"] = products]
        /\ Results(exact_then_products(exact, products))
  BY ListingsAreOffers DEF AskDigikey
<1> DEFINE all == exact \o products
<1>b. JoinedOf(found', exact, all, Len(all))
  BY <1>a, DigikeyFacts DEF Results
<1>c. found' \in Offers
  BY <1>b DEF JoinedOf
<1>1. TypeOK'
  BY <1>a, <1>c DEF AskDigikey, Results, TypeOK, PhaseBooks, Source
<1>2. SourceBooks'
  BY DEF AskDigikey, Results, TypeOK, SourceBooks, PhaseBooks, Silent, Source
<1>3. PhaseBooks'
  BY DEF AskDigikey, Results, TypeOK, SourceBooks, PhaseBooks, Silent, Source, Asked,
     LcscAsked
<1>4. LookupBooks'
  BY DEF AskDigikey, Results, LookupBooks
<1>5. ResultBooks'
  <2>1. /\ DOMAIN products = 1..Len(products) /\ DOMAIN exact = 1..Len(exact)
        /\ Len(exact) \in Nat /\ Len(products) \in Nat
        /\ \A i \in 1..Len(exact) : i \in 1..Len(all) /\ all[i] = exact[i] /\ ~(i > Len(exact))
        /\ \A i \in 1..Len(products) :
             Len(exact) + i \in 1..Len(all) /\ all[Len(exact) + i] = products[i]
        /\ \A k \in 1..Len(all) :
             \/ k \in 1..Len(exact)
             \/ k - Len(exact) \in 1..Len(products) /\ all[k] = products[k - Len(exact)]
    BY DEF Offers
  <2>2. /\ listed'["exact"] = exact /\ listed'["direct"] = products
        /\ \A s \in Source \ {"exact", "direct"} : Named(listed'[s]) = {}
    BY <1>a, ListingsAreOffers DEF AskDigikey, TypeOK, PhaseBooks, Silent, Source
  <2> HIDE DEF all
  <2>0. /\ Named(found') \subseteq {all[k].part : k \in 1..Len(all)}
        /\ \A k \in 1..Len(all) :
             \/ all[k].packs = 0 \/ all[k].part \in Named(found')
             \/ k > Len(exact) /\ \E q \in Named(found') : SameMpn(all[k].part, q)
    BY <1>b DEF JoinedOf
  <2>3. Named(found') \subseteq Named(exact) \cup Named(products)
    <3>1. \A k \in 1..Len(all) : all[k].part \in Named(exact) \cup Named(products)
      BY <2>1 DEF Named
    <3> QED BY <2>0, <3>1
  <2>4. /\ \A i \in Convertible(exact) : exact[i].part \in Named(found')
        /\ \A i \in Convertible(products) :
             \/ products[i].part \in Named(found')
             \/ \E q \in Named(found') : SameMpn(products[i].part, q)
    <3>1. /\ \A i \in Convertible(exact) : i \in 1..Len(exact) /\ exact[i].packs # 0
          /\ \A i \in Convertible(products) : i \in 1..Len(products) /\ products[i].packs # 0
      BY <2>1 DEF Convertible
    <3> QED BY <2>0, <2>1, <3>1
  <2>5. \A p, q : SameMpn(p, q)' <=> SameMpn(p, q)
    BY DEF SameMpn, AskDigikey, Results
  <2>6. \A s \in Source : \A p \in Wanted(s)' :
          p \in Named(found') \/ (s = "direct" /\ \E q \in Named(found') : SameMpn(p, q)')
    <3>1. \A p \in Wanted("exact")' : p \in Named(found')
      BY <2>2, <2>4, WantedThen
    <3>2. \A p \in Wanted("direct")' : p \in Named(found') \/ \E q \in Named(found') : SameMpn(p, q)'
      BY <2>2, <2>4, <2>5, WantedThen
    <3>3. \A s \in Source \ {"exact", "direct"} : Wanted(s)' = {}
      BY <2>2, WantedThen
    <3> QED BY <3>1, <3>2, <3>3
  <2>7. \A p \in Named(found') : LastAsked(p)'
    BY <2>2, <2>3 DEF LastAsked, Source
  <2>8. supplier' = "digikey"
    BY DEF AskDigikey, Results
  <2> QED BY <2>6, <2>7, <2>8 DEF ResultBooks
<1>6. FallbacksInOrder'
  BY ListingsAreOffers DEF AskDigikey, Results, TypeOK, PhaseBooks, FallbacksInOrder,
     Silent, Source, Asked
<1>7. NothingFoundIsLost' /\ OnceAtItsBest'
  BY <1>3, Unfinished DEF AskDigikey, Results
<1>8. PageBooks'
  BY PagesStay DEF AskDigikey, Results, TypeOK, Source, Paged
<1> QED BY <1>1, <1>2, <1>3, <1>4, <1>5, <1>6, <1>7, <1>8

(* The public search answers, or leaves nothing that matches behind. *)
LEMMA AskPublicStep ==
  ASSUME IInv, AskPublic
  PROVE  IInv'
<1> USE DEF IInv, world
<1>a. PICK what \in {"failed", "listed"}, offers \in Offers :
        /\ Heard("public", what, offers) /\ (what = "failed" => offers = <<>>)
        /\ \/ what = "listed" /\ PublicResults(offers) # <<>> /\ Results(PublicResults(offers))
           \/ /\ what = "listed" => PublicResults(offers) = <<>>
              /\ phase' = "primary"
              /\ UNCHANGED <<world, todo, refused, found, unfit, status, data>>
  <2>1. CASE /\ Hear("public", "failed", <<>>) /\ phase' = "primary"
             /\ UNCHANGED <<world, todo, refused, found, unfit, status, data>>
    BY <2>1, ListingsAreOffers DEF Hear, Heard
  <2>2. CASE \E holds \in Listings : \E offers \in {holds, Sliced(holds, page_size("public"))} :
               /\ HearPage("public", holds, offers)
               /\ IF PublicResults(offers) # <<>> THEN Results(PublicResults(offers))
                  ELSE /\ phase' = "primary"
                       /\ UNCHANGED <<world, todo, refused, found, unfit, status, data>>
    <3>0. PICK holds \in Listings : \E offers \in {holds, Sliced(holds, page_size("public"))} :
               /\ HearPage("public", holds, offers)
               /\ IF PublicResults(offers) # <<>> THEN Results(PublicResults(offers))
                  ELSE /\ phase' = "primary"
                       /\ UNCHANGED <<world, todo, refused, found, unfit, status, data>>
      BY <2>2
    <3>1. PICK offers \in {holds, Sliced(holds, page_size("public"))} :
               /\ HearPage("public", holds, offers)
               /\ IF PublicResults(offers) # <<>> THEN Results(PublicResults(offers))
                  ELSE /\ phase' = "primary"
                       /\ UNCHANGED <<world, todo, refused, found, unfit, status, data>>
      BY <3>0
    <3>2. offers \in Offers /\ Heard("public", "listed", offers)
      BY <3>1, PageIsHeard DEF TypeOK
    <3> QED BY <3>1, <3>2
  <2> QED BY <2>1, <2>2 DEF AskPublic
<1>b. /\ PublicResults(offers) \in Offers
      /\ Named(PublicResults(offers)) \subseteq Named(offers)
      /\ \/ Named(offers) \cap matches_expected_mpn \subseteq Named(PublicResults(offers))
         \/ limit > 0 /\ Len(PublicResults(offers)) >= limit
         \/ limit < 0
      /\ PublicResults(offers) = <<>> => Named(offers) \cap matches_expected_mpn = {}
  BY PublicFacts DEF TypeOK
<1>c. /\ UNCHANGED <<supplier, hasApi, limit, keyword, model, todo, refused, unfit, status, data>>
      /\ phase = "adapter" /\ supplier = "jlcpcb"
  BY <1>a DEF AskPublic, Results
<1>d. /\ said'["public"] = what /\ listed'["public"] = offers
      /\ \A s \in Source \ {"public"} : said'[s] = "unasked" /\ listed'[s] = <<>>
  BY <1>a, <1>c DEF Heard, TypeOK, PhaseBooks, Silent, Source
<1>8. held' \in [Paged -> Offers] /\ PageBooks'
  <2>1. said["public"] = "unasked"
    BY <1>c DEF PhaseBooks, Silent, Source
  <2> QED BY <1>a, <1>c, <2>1, PageHeard DEF Paged
<1>1. TypeOK'
  BY <1>a, <1>b, <1>c, <1>8 DEF Heard, Results, TypeOK, PhaseBooks, Source
<1>2. SourceBooks'
  BY <1>a, <1>c, <1>d DEF SourceBooks, Silent, Source
<1>3. PhaseBooks'
  BY <1>a, <1>c, <1>d DEF Results, PhaseBooks, Silent, Source, Asked
<1>4. LookupBooks'
  <2>1. phase' = "found" \/ (phase' = "primary" /\ Named(offers) \cap matches_expected_mpn = {})
    BY <1>a, <1>b, ListingsAreOffers DEF Results
  <2> QED BY <1>c, <1>d, <2>1, WantedThen, RulesStay DEF LookupBooks
<1>5. ResultBooks'
  <2>1. CASE phase' = "primary"
    BY <2>1 DEF ResultBooks
  <2>2. CASE found' = PublicResults(offers) /\ PublicResults(offers) # <<>>
    <3>1. \A s \in Source \ {"public"} : Wanted(s)' = {}
      BY <1>d, WantedThen, ListingsAreOffers
    <3>2. \A p \in Wanted("public")' : p \in Named(found') \/ Filled'
      BY <1>b, <1>c, <1>d, <2>2, WantedThen, RulesStay DEF Filled, Source
    <3>3. \A p \in Named(found') : LastAsked(p)'
      BY <1>b, <1>d, <2>2 DEF LastAsked, Source, Asked
    <3>4. found' # <<>> /\ ~Asked("primary")' /\ supplier' = "jlcpcb"
      BY <1>c, <1>d, <2>2 DEF Asked, Source
    <3> QED BY <3>1, <3>2, <3>3, <3>4 DEF ResultBooks
  <2> QED BY <1>a, <2>1, <2>2 DEF Results
<1>6. FallbacksInOrder'
  BY <1>3, <1>a, <1>c, <1>d, Unfinished DEF FallbacksInOrder, Results, Source, Asked
<1>7. NothingFoundIsLost' /\ OnceAtItsBest'
  BY <1>3, <1>a, Unfinished DEF Results
<1> QED BY <1>1, <1>2, <1>3, <1>4, <1>5, <1>6, <1>7, <1>8

(* LCSC's own search: what is to be looked up is what it listed, once. *)
LEMMA AskPrimaryStep ==
  ASSUME IInv, AskPrimary
  PROVE  IInv'
<1> USE DEF IInv, world
<1>a. PICK what \in {"failed", "broken", "listed"}, offers \in Offers :
        /\ Heard("primary", what, offers)
        /\ phase' = IF what # "broken" /\ offers = <<>> THEN "third" ELSE "offered"
        /\ todo' \in Offers /\ Distinct(todo') /\ Named(todo') = Named(offers)
        /\ \A i \in DOMAIN todo', k \in DOMAIN offers :
             offers[k].part = todo'[i].part => todo'[i].rank <= offers[k].rank
  BY LcscAnswers DEF AskPrimary, TypeOK
<1>b. UNCHANGED <<supplier, hasApi, limit, keyword, model, refused, found, unfit, status, data>>
  BY LcscAnswers DEF AskPrimary, TypeOK
<1>c. /\ said'["primary"] = what /\ listed'["primary"] = offers
      /\ \A t \in Source \ {"primary"} : said'[t] = said[t] /\ listed'[t] = listed[t]
  BY <1>a DEF Heard, TypeOK, Source
<1>8. held' \in [Paged -> Offers] /\ PageBooks'
  <2>1. said["primary"] = "unasked"
    BY DEF AskPrimary, PhaseBooks, Silent, Source
  <2> QED BY <1>a, <1>b, <2>1, PageHeard DEF Paged
<1>1. TypeOK'
  BY <1>a, <1>b, <1>8 DEF Heard, TypeOK, Source
<1>2. SourceBooks'
  BY DEF AskPrimary, AskLcsc, Hear, HearPage, TypeOK, SourceBooks, PhaseBooks, Silent, Source
<1>3. PhaseBooks'
  BY DEF AskPrimary, AskLcsc, Hear, HearPage, TypeOK, SourceBooks, PhaseBooks, Silent, Source,
     Asked, LcscAsked
<1>4. LookupBooks'
  <2>1. phase' = "third" \/ (phase' = "offered" /\ listed'["third"] = <<>>)
    BY <1>a, <1>c DEF AskPrimary, PhaseBooks, Silent, Source
  <2>2. /\ Named(listed'["primary"]) = Named(offers)
        /\ listed'["third"] = <<>> => Named(listed'["third"]) = {}
    BY <1>c, ListingsAreOffers
  <2>3. listed'["third"] = <<>> => Best(todo)'
    BY <1>a, <1>c DEF Best
  <2> QED BY <1>a, <2>1, <2>2, <2>3 DEF LookupBooks, FromLcsc
<1>5. ResultBooks'
  BY <1>a DEF ResultBooks
<1>6. FallbacksInOrder'
  <2>1. (supplier' = "jlcpcb" /\ Asked("primary")') => Wanted("public")' = {}
    <3>1. supplier = "jlcpcb" => Wanted("public") = {}
      BY DEF LookupBooks, FallbacksInOrder, PhaseBooks, LcscAsked, AskPrimary
    <3> QED BY <1>b, <1>c, <3>1, WantedIs, WantedThen, RulesStay DEF Source
  <2>2. Asked("third")' => listed'["primary"] = <<>> /\ said'["primary"] # "broken"
    BY <1>b, <1>c DEF AskPrimary, PhaseBooks, Silent, FallbacksInOrder, Asked, Source
  <2>3. ~Asked("page")' /\ ~Asked("claude")'
    BY <1>b, <1>c DEF AskPrimary, PhaseBooks, SourceBooks, Silent, Asked, Source
  <2>4. phase' # "done"
    BY <1>a
  <2> QED BY <1>3, <2>1, <2>2, <2>3, <2>4, Unfinished DEF FallbacksInOrder
<1>7. NothingFoundIsLost' /\ OnceAtItsBest'
  BY <1>3, <1>a, Unfinished
<1> QED BY <1>1, <1>2, <1>3, <1>4, <1>5, <1>6, <1>7, <1>8

(* And the marketplace's, when that is empty. *)
LEMMA AskThirdStep ==
  ASSUME IInv, AskThird
  PROVE  IInv'
<1> USE DEF IInv, world
<1>a. PICK what \in {"failed", "broken", "listed"}, offers \in Offers :
        /\ Heard("third", what, offers)
        /\ phase' = IF what # "broken" /\ offers = <<>> THEN "offered" ELSE "offered"
        /\ todo' \in Offers /\ Distinct(todo') /\ Named(todo') = Named(offers)
        /\ \A i \in DOMAIN todo', k \in DOMAIN offers :
             offers[k].part = todo'[i].part => todo'[i].rank <= offers[k].rank
  BY LcscAnswers DEF AskThird, TypeOK
<1>b. UNCHANGED <<supplier, hasApi, limit, keyword, model, refused, found, unfit, status, data>>
  BY LcscAnswers DEF AskThird, TypeOK
<1>c. /\ said'["third"] = what /\ listed'["third"] = offers
      /\ \A t \in Source \ {"third"} : said'[t] = said[t] /\ listed'[t] = listed[t]
  BY <1>a DEF Heard, TypeOK, Source
<1>8. held' \in [Paged -> Offers] /\ PageBooks'
  <2>1. said["third"] = "unasked"
    BY DEF AskThird, PhaseBooks, Silent, Source
  <2> QED BY <1>a, <1>b, <2>1, PageHeard DEF Paged
<1>1. TypeOK'
  BY <1>a, <1>b, <1>8 DEF Heard, TypeOK, Source
<1>2. SourceBooks'
  BY DEF AskThird, AskLcsc, Hear, HearPage, TypeOK, SourceBooks, PhaseBooks, Silent, Source
<1>3. PhaseBooks'
  BY DEF AskThird, AskLcsc, Hear, HearPage, TypeOK, SourceBooks, PhaseBooks, Silent, Source,
     Asked, LcscAsked
<1>4. LookupBooks'
  <2>1. phase' = "offered" /\ listed'["primary"] = <<>>
    BY <1>a, <1>c DEF AskThird, PhaseBooks, Source
  <2>2. Named(listed'["third"]) = Named(offers) /\ Named(listed'["primary"]) = {}
    BY <1>c, <2>1, ListingsAreOffers
  <2>3. Best(todo)'
    BY <1>a, <1>c, <2>1 DEF Best
  <2> QED BY <1>a, <2>1, <2>2, <2>3 DEF LookupBooks, FromLcsc
<1>5. ResultBooks'
  BY <1>a DEF ResultBooks
<1>6. FallbacksInOrder'
  <2>1. (supplier' = "jlcpcb" /\ Asked("primary")') => Wanted("public")' = {}
    <3>1. supplier = "jlcpcb" => Wanted("public") = {}
      BY DEF LookupBooks, FallbacksInOrder, PhaseBooks, LcscAsked, AskThird
    <3> QED BY <1>b, <1>c, <3>1, WantedIs, WantedThen, RulesStay DEF Source
  <2>2. Asked("third")' => listed'["primary"] = <<>> /\ said'["primary"] # "broken"
    BY <1>b, <1>c DEF AskThird, PhaseBooks, Silent, FallbacksInOrder, Asked, Source
  <2>3. ~Asked("page")' /\ ~Asked("claude")'
    BY <1>b, <1>c DEF AskThird, PhaseBooks, SourceBooks, Silent, Asked, Source
  <2>4. phase' # "done"
    BY <1>a
  <2> QED BY <1>3, <2>1, <2>2, <2>3, <2>4, Unfinished DEF FallbacksInOrder
<1>7. NothingFoundIsLost' /\ OnceAtItsBest'
  BY <1>3, <1>a, Unfinished
<1> QED BY <1>1, <1>2, <1>3, <1>4, <1>5, <1>6, <1>7, <1>8

(* An offer that cannot be converted ends the search. *)
LEMMA ProductRaisesStep ==
  ASSUME IInv, ProductRaises
  PROVE  IInv'
<1> USE DEF IInv, world
<1>1. TypeOK'
  BY ListingsAreOffers DEF ProductRaises, Done, TypeOK, PhaseBooks, Source
<1>2. SourceBooks'
  BY DEF ProductRaises, Done, TypeOK, SourceBooks, PhaseBooks, Silent, Source
<1>3. PhaseBooks'
  BY DEF ProductRaises, Done, TypeOK, SourceBooks, PhaseBooks, Silent, Source, Asked,
     LcscAsked
<1>4. LookupBooks'
  BY DEF ProductRaises, Done, LookupBooks
<1>5. ResultBooks'
  BY DEF ProductRaises, Done, ResultBooks
<1>6. FallbacksInOrder'
  <2>1. \A s \in Source : Wanted(s)' = Wanted(s)
    BY WantedShrinks DEF ProductRaises, Done
  <2>2. Named(data') = {}
    BY ListingsAreOffers DEF ProductRaises, Done
  <2> QED BY <2>1, <2>2 DEF ProductRaises, Done, FallbacksInOrder, Asked, Source
<1>7. NothingFoundIsLost' /\ OnceAtItsBest'
  BY DEF ProductRaises, Done, NothingFoundIsLost, OnceAtItsBest, Distinct, Best
<1>8. PageBooks'
  BY PagesStay DEF ProductRaises, Done, TypeOK, Source, Paged
<1> QED BY <1>1, <1>2, <1>3, <1>4, <1>5, <1>6, <1>7, <1>8

(* LCSC answers with what matches of it, up to the limit. *)
LEMMA LcscResultsStep ==
  ASSUME IInv, LcscResults
  PROVE  IInv'
<1> USE DEF IInv, world
<1>a. /\ phase = "offered" /\ supplier = "lcsc" /\ phase' = "found"
      /\ found' = Cut(Only(todo, matches_search_keyword))
      /\ UNCHANGED <<world, said, held, listed, todo, refused, unfit, status, data>>
  BY DEF LcscResults, Results, Cut
<1> DEFINE m == Only(todo, matches_search_keyword)
<1>b. /\ todo \in Offers /\ limit \in Int /\ m \in Offers /\ Within(m, todo)
      /\ Named(m) = Named(todo) \cap matches_search_keyword
      /\ Distinct(todo) => Distinct(m)
  BY OnlyFacts DEF TypeOK
<1>c. /\ found' \in Offers /\ Within(found', m) /\ Named(found') \subseteq Named(m)
      /\ Distinct(m) => Distinct(found')
      /\ found' = m \/ (limit > 0 /\ Len(found') >= limit)
      /\ found' = <<>> => m = <<>>
  BY <1>a, <1>b, CutFacts
<1> HIDE DEF m
<1>1. TypeOK'
  BY <1>a, <1>c DEF TypeOK, PhaseBooks
<1>2. SourceBooks'
  BY DEF LcscResults, Results, TypeOK, SourceBooks, PhaseBooks, Silent, Source
<1>3. PhaseBooks'
  BY DEF LcscResults, Results, TypeOK, SourceBooks, PhaseBooks, Silent, Source, Asked,
     LcscAsked
<1>4. LookupBooks'
  BY DEF LcscResults, Results, LookupBooks
<1>5. ResultBooks'
  <2>1. Distinct(todo) /\ Named(todo) = FromLcsc /\ Best(todo)
    BY <1>a DEF LookupBooks
  <2>2. \A s \in Source \ {"primary", "third"} : said[s] = "unasked" /\ Named(listed[s]) = {}
    BY <1>a, ListingsAreOffers DEF SourceBooks, Silent, Source
  <2>3. \A s \in Source : Wanted(s)' \subseteq Named(m)
    BY <1>a, <1>b, <2>1, <2>2, WantedThen, RulesStay DEF FromLcsc
  <2>4. ~Asked("page") /\ ~Asked("public") /\ ~Asked("claude")
    BY <2>2 DEF Asked, Source
  <2>5. \A p \in Named(found') : LastAsked(p)'
    BY <1>a, <1>b, <1>c, <2>1, <2>4 DEF LastAsked, FromLcsc, Asked, Source
  <2>6. AllAsked'
    BY <1>a, <2>2 DEF AllAsked, Asked, PhaseBooks, LcscAsked, Source
  <2>7. Best(found)'
    <3>1. Within(found', todo)
      BY <1>b, <1>c DEF Within
    <3> QED BY <1>a, <2>1, <3>1 DEF Best, Within
  <2>8. Distinct(found')
    BY <1>b, <1>c, <2>1
  <2>9. limit' = limit
    BY <1>a
  <2> QED BY <1>c, <2>3, <2>5, <2>6, <2>7, <2>8, <2>9 DEF ResultBooks, Filled
<1>6. FallbacksInOrder'
  BY <1>a, <1>3, StillInOrder DEF PhaseBooks
<1>7. NothingFoundIsLost' /\ OnceAtItsBest'
  BY <1>3, Unfinished DEF LcscResults, Results
<1>8. PageBooks'
  BY PagesStay DEF LcscResults, Results, TypeOK, Source, Paged
<1> QED BY <1>1, <1>2, <1>3, <1>4, <1>5, <1>6, <1>7, <1>8

(* JLCPCB starts to look it up. *)
LEMMA ResolvingStep ==
  ASSUME IInv, Resolving
  PROVE  IInv'
<1> USE DEF IInv, world
<1>a. /\ todo \in Offers /\ todo' \in Offers /\ (Distinct(todo) => Distinct(todo'))
      /\ Named(todo') = Named(todo) \cap (matches_search_keyword \cap Coded)
  BY OnlyFacts DEF TypeOK, Resolving
<1>1. TypeOK'
  BY <1>a DEF Resolving, TypeOK, PhaseBooks
<1>2. SourceBooks'
  BY DEF Resolving, TypeOK, SourceBooks, PhaseBooks, Silent, Source
<1>3. PhaseBooks'
  BY DEF Resolving, TypeOK, SourceBooks, PhaseBooks, Silent, Source, Asked, LcscAsked
<1>4. LookupBooks'
  <2>1. Distinct(todo) /\ Named(todo) = FromLcsc /\ found = <<>> /\ refused["resolve"] = {}
    BY DEF Resolving, LookupBooks, PhaseBooks
  <2>2. FromLcsc' = FromLcsc
    BY DEF FromLcsc, Resolving
  <2> QED BY <1>a, <2>1, <2>2, RulesStay, ListingsAreOffers DEF LookupBooks, Lookups, Resolving
<1>5. ResultBooks'
  BY DEF Resolving, ResultBooks
<1>6. FallbacksInOrder'
  BY <1>3, StillInOrder DEF Resolving
<1>7. NothingFoundIsLost' /\ OnceAtItsBest'
  BY <1>3, Unfinished DEF Resolving
<1>8. PageBooks'
  BY PagesStay DEF Resolving, TypeOK, Source, Paged
<1> QED BY <1>1, <1>2, <1>3, <1>4, <1>5, <1>6, <1>7, <1>8

(* One part is found or refused. *)
LEMMA ResolveStep ==
  ASSUME IInv, Resolve
  PROVE  IInv'
<1> USE DEF IInv, world
<1>a. /\ phase = "resolve" /\ phase' = phase /\ todo # <<>>
      /\ UNCHANGED <<world, said, held, listed, unfit, status, data>>
  BY DEF Resolve, LookedUp
<1>b. PICK isPart \in BOOLEAN : LookedUp("resolve", isPart)
  BY DEF Resolve
<1>c. PICK C : C = FromLcsc \cap matches_search_keyword \cap Coded
  OBVIOUS
<1>d. /\ todo' \in Offers /\ found' \in Offers
      /\ refused' \in [{"resolve", "verify"} -> SUBSET Parts]
      /\ \A l \in {"resolve", "verify"} : refused[l] \subseteq refused'[l]
      /\ "resolve" = "resolve" => refused'["verify"] = refused["verify"]
      /\ Distinct(todo') /\ Distinct(found')
      /\ Named(todo') \cap (Named(found') \cup refused'["resolve"]) = {}
      /\ C \subseteq Named(todo') \cup Named(found') \cup refused'["resolve"]
      /\ Named(todo') \cup Named(found') \subseteq C
  <2>1. Lookups("resolve", C)
    BY <1>a, <1>c DEF LookupBooks
  <2> QED BY <1>a, <1>b, <2>1, LookupStep
<1>1. TypeOK'
  BY <1>a, <1>d DEF TypeOK, PhaseBooks
<1>2. SourceBooks'
  BY DEF Resolve, LookedUp, TypeOK, SourceBooks, PhaseBooks, Silent, Source
<1>3. PhaseBooks'
  BY <1>a, <1>d DEF PhaseBooks, Silent, Asked, LcscAsked
<1>4. LookupBooks'
  <2>1. C = (FromLcsc \cap matches_search_keyword \cap Coded)'
    BY <1>a, <1>c, RulesStay DEF FromLcsc
  <2> HIDE DEF IInv
  <2>2. phase' = "resolve"
    BY <1>a
  <2> QED BY <1>d, <2>1, <2>2 DEF LookupBooks, Lookups
<1>5. ResultBooks'
  BY <1>a DEF ResultBooks
<1>6. FallbacksInOrder'
  BY <1>a, <1>d, <1>3, StillInOrder
<1>7. NothingFoundIsLost' /\ OnceAtItsBest'
  BY <1>3, <1>a, Unfinished
<1>8. PageBooks'
  BY PagesStay DEF Resolve, LookedUp, TypeOK, Source, Paged
<1> QED BY <1>1, <1>2, <1>3, <1>4, <1>5, <1>6, <1>7, <1>8

(* All were looked up, or enough were found. *)
LEMMA ResolvedStep ==
  ASSUME IInv, Resolved
  PROVE  IInv'
<1> USE DEF IInv, world
<1>a. /\ phase = "resolve" /\ supplier = "jlcpcb" /\ (todo = <<>> \/ Enough)
      /\ UNCHANGED <<world, said, held, listed, todo, refused, found, unfit, status, data>>
      /\ phase' = IF found = <<>> /\ said["public"] = "failed" THEN "page" ELSE "found"
  BY DEF Resolved, PhaseBooks
<1>b. Lookups("resolve", FromLcsc \cap matches_search_keyword \cap Coded)
  BY <1>a DEF LookupBooks
<1>c. \A s \in Source : Wanted(s)' = Wanted(s)
  BY <1>a, WantedShrinks
<1>d. \A s \in {"primary", "third"} :
        Wanted(s) \subseteq Named(found) \cup Named(todo)
  BY <1>a, <1>b, WantedIs DEF Lookups, FromLcsc
<1>1. TypeOK'
  BY ListingsAreOffers DEF Resolved, TypeOK, PhaseBooks, Source
<1>2. SourceBooks'
  BY DEF Resolved, TypeOK, SourceBooks, PhaseBooks, Silent, Source
<1>3. PhaseBooks'
  BY DEF Resolved, TypeOK, SourceBooks, PhaseBooks, Silent, Source, Asked, LcscAsked
<1>4. LookupBooks'
  <2>1. ASSUME phase' = "page" PROVE todo = <<>> /\ found = <<>>
    BY <1>a, <2>1 DEF Enough, TypeOK
  <2>2. phase' = "page" => Wanted("primary")' = {} /\ Wanted("third")' = {}
    BY <1>c, <1>d, <2>1, ListingsAreOffers DEF Source
  <2> QED BY <1>a, <2>2 DEF LookupBooks
<1>5. ResultBooks'
  <2>1. CASE phase' = "page"
    BY <2>1 DEF ResultBooks
  <2>2. CASE phase' = "found" /\ ~(found = <<>> /\ said["public"] = "failed")
    <3>1. \A s \in {"exact", "direct", "page", "claude"} :
            said[s] = "unasked" /\ Named(listed[s]) = {}
      BY <1>a, ListingsAreOffers DEF PhaseBooks, SourceBooks, Silent
    <3>2. Asked("primary") /\ LcscAsked
      BY <1>a DEF PhaseBooks, LcscAsked
    <3>3. Wanted("public") = {}
      BY <1>a, <3>2 DEF FallbacksInOrder
    <3>4. \A s \in Source : Wanted(s)' \subseteq Named(found) \cup Named(todo)
      BY <1>c, <1>d, <3>1, <3>3, WantedIs DEF Source
    <3>5. todo = <<>> \/ (limit > 0 /\ Len(found) >= limit)
      BY <1>a DEF Enough
    <3>6. \A p \in Named(found) : LastAsked(p)'
      BY <1>a, <1>b, <3>1 DEF Lookups, FromLcsc, LastAsked, Asked, Source
    <3>7. found = <<>> => AllAsked'
      BY <1>a, <2>2, <3>1, <3>2 DEF AllAsked, LcscAsked, Asked
    <3>8. found' = found /\ Distinct(found) /\ limit' = limit /\ supplier' = "jlcpcb"
      BY <1>a, <1>b DEF Lookups
    <3> QED BY <3>4, <3>5, <3>6, <3>7, <3>8, ListingsAreOffers DEF ResultBooks, Filled
  <2> QED BY <1>a, <2>1, <2>2
<1>6. FallbacksInOrder'
  BY <1>a, <1>3, StillInOrder
<1>7. NothingFoundIsLost' /\ OnceAtItsBest'
  BY <1>3, <1>a, Unfinished
<1>8. PageBooks'
  BY PagesStay DEF Resolved, TypeOK, Source, Paged
<1> QED BY <1>1, <1>2, <1>3, <1>4, <1>5, <1>6, <1>7, <1>8

(* The page was the last resort and failed. *)
LEMMA PageFailsStep ==
  ASSUME IInv, PageFails
  PROVE  IInv'
<1> USE DEF IInv, world
<1>p. /\ phase = "page" /\ supplier = "jlcpcb"
      /\ UNCHANGED <<supplier, hasApi, limit, keyword, model, refused, unfit, status, data>>
      /\ \A t \in Source \ {"page"} : said'[t] = said[t] /\ listed'[t] = listed[t]
  BY DEF PageFails, Hear, Results, PhaseBooks, TypeOK, Source
<1>q. /\ said["public"] = "failed" /\ LcscAsked /\ Asked("primary")
      /\ said["claude"] = "unasked" /\ Named(listed["claude"]) = {}
      /\ Wanted("primary") = {} /\ Wanted("third") = {} /\ Wanted("public") = {}
  BY <1>p, ListingsAreOffers DEF PhaseBooks, LookupBooks, FallbacksInOrder, Silent, LcscAsked
<1>r. Wanted("public")' = {} /\ Wanted("primary")' = {} /\ Wanted("third")' = {}
  BY <1>p, <1>q, WantedIs, WantedThen, RulesStay DEF Source
<1>s. \A s \in Source \ {"page"} : Wanted(s)' = {}
  <2>1. Named(listed'["exact"]) = {} /\ Named(listed'["direct"]) = {}
    BY <1>p, ListingsAreOffers DEF SourceBooks, Silent, Source
  <2> QED BY <1>r, <2>1, WantedThen DEF Source
<1>1. TypeOK'
  BY ListingsAreOffers DEF PageFails, Hear, Results, TypeOK, PhaseBooks, Source
<1>2. SourceBooks'
  BY DEF PageFails, Hear, Results, TypeOK, SourceBooks, PhaseBooks, Silent, Source
<1>3. PhaseBooks'
  BY DEF PageFails, Hear, Results, TypeOK, SourceBooks, PhaseBooks, Silent, Source,
     Asked, LcscAsked
<1>4. LookupBooks'
  BY DEF PageFails, Hear, Results, LookupBooks
<1>5. ResultBooks'
  <2>1. found' = <<>> /\ said'["page"] = "failed" /\ listed'["page"] = <<>>
    BY DEF PageFails, Hear, Results, TypeOK, Source
  <2>2. \A s \in Source : Wanted(s)' = {}
    BY <1>s, <2>1, WantedThen, ListingsAreOffers
  <2>3. AllAsked'
    BY <1>p, <1>q, <2>1 DEF AllAsked, LcscAsked, Asked, Source
  <2> QED BY <2>1, <2>2, <2>3, ListingsAreOffers DEF ResultBooks, Best
<1>6. FallbacksInOrder'
  <2>1. said'["public"] = "failed" /\ said'["claude"] = "unasked"
    BY <1>p, <1>q DEF Source
  <2>2. Asked("third")' => listed'["primary"] = <<>> /\ said'["primary"] # "broken"
    BY <1>p DEF FallbacksInOrder, Asked, Source
  <2>3. phase' # "done"
    BY DEF PageFails, Hear, Results
  <2> QED BY <1>3, <1>r, <2>1, <2>2, <2>3, Unfinished DEF FallbacksInOrder, Asked
<1>7. NothingFoundIsLost' /\ OnceAtItsBest'
  BY <1>3, Unfinished DEF PageFails, Hear, Results
<1>8. PageBooks'
  BY PagesStay DEF PageFails, Hear, Results, TypeOK, Source, Paged
<1> QED BY <1>1, <1>2, <1>3, <1>4, <1>5, <1>6, <1>7, <1>8

(* The rows of the page answer. *)
LEMMA PageRowsStep ==
  ASSUME IInv, PageRows
  PROVE  IInv'
<1> USE DEF IInv, world
<1>p. /\ phase = "page" /\ supplier = "jlcpcb"
      /\ UNCHANGED <<supplier, hasApi, limit, keyword, model, refused, unfit, status, data>>
      /\ \A t \in Source \ {"page"} : said'[t] = said[t] /\ listed'[t] = listed[t]
  BY DEF PageRows, Hear, Results, PhaseBooks, TypeOK, Source
<1>q. /\ said["public"] = "failed" /\ LcscAsked /\ Asked("primary")
      /\ said["claude"] = "unasked" /\ Named(listed["claude"]) = {}
      /\ Wanted("primary") = {} /\ Wanted("third") = {} /\ Wanted("public") = {}
  BY <1>p, ListingsAreOffers DEF PhaseBooks, LookupBooks, FallbacksInOrder, Silent, LcscAsked
<1>r. Wanted("public")' = {} /\ Wanted("primary")' = {} /\ Wanted("third")' = {}
  BY <1>p, <1>q, WantedIs, WantedThen, RulesStay DEF Source
<1>s. \A s \in Source \ {"page"} : Wanted(s)' = {}
  <2>1. Named(listed'["exact"]) = {} /\ Named(listed'["direct"]) = {}
    BY <1>p, ListingsAreOffers DEF SourceBooks, Silent, Source
  <2> QED BY <1>r, <2>1, WantedThen DEF Source
<1>a. PICK offers \in Offers :
        /\ first_of_each(Only(offers, row_matches)) # <<>>
        /\ said'["page"] = "rows" /\ listed'["page"] = offers
        /\ phase' = "found" /\ todo' = todo
        /\ found' = Cut(first_of_each(Only(offers, row_matches)))
  BY ListingsAreOffers DEF PageRows, Hear, Results, TypeOK, Source, Cut
<1> DEFINE rows == first_of_each(Only(offers, row_matches))
<1>b. rows \in Offers /\ Distinct(rows) /\ Named(rows) = Named(offers) \cap row_matches
  BY OnlyFacts, FirstFacts
<1> HIDE DEF rows
<1>c. /\ found' \in Offers /\ Named(found') \subseteq Named(rows) /\ Distinct(found')
      /\ found' = rows \/ (limit > 0 /\ Len(found') >= limit)
      /\ found' # <<>>
  BY <1>a, <1>b, CutFacts DEF TypeOK, rows
<1>1. TypeOK'
  BY <1>a, <1>c, <1>p, ListingsAreOffers DEF PageRows, Hear, TypeOK, PhaseBooks, Source
<1>2. SourceBooks'
  BY DEF PageRows, Hear, Results, TypeOK, SourceBooks, PhaseBooks, Silent, Source
<1>3. PhaseBooks'
  BY DEF PageRows, Hear, Results, TypeOK, SourceBooks, PhaseBooks, Silent, Source,
     Asked, LcscAsked
<1>4. LookupBooks'
  BY DEF PageRows, Hear, Results, LookupBooks
<1>5. ResultBooks'
  <2>1. Wanted("page")' = Named(rows)
    BY <1>a, <1>b, <1>p, WantedThen, RulesStay
  <2>2. \A p \in Named(found') : LastAsked(p)'
    BY <1>a, <1>b, <1>c, <1>p, <1>q DEF LastAsked, Asked, Source
  <2> QED BY <1>c, <1>p, <1>s, <2>1, <2>2 DEF ResultBooks, Filled
<1>6. FallbacksInOrder'
  <2>1. said'["public"] = "failed" /\ said'["claude"] = "unasked"
    BY <1>p, <1>q DEF Source
  <2>2. Asked("third")' => listed'["primary"] = <<>> /\ said'["primary"] # "broken"
    BY <1>p DEF FallbacksInOrder, Asked, Source
  <2>3. phase' # "done"
    BY DEF PageRows, Hear, Results
  <2> QED BY <1>3, <1>r, <2>1, <2>2, <2>3, Unfinished DEF FallbacksInOrder, Asked
<1>7. NothingFoundIsLost' /\ OnceAtItsBest'
  BY <1>3, Unfinished DEF PageRows, Hear, Results
<1>8. PageBooks'
  BY PagesStay DEF PageRows, Hear, Results, TypeOK, Source, Paged
<1> QED BY <1>1, <1>2, <1>3, <1>4, <1>5, <1>6, <1>7, <1>8

(* Its codes are to be verified, each once. *)
LEMMA PageCodesStep ==
  ASSUME IInv, PageCodes
  PROVE  IInv'
<1> USE DEF IInv, world
<1>p. /\ phase = "page" /\ supplier = "jlcpcb"
      /\ UNCHANGED <<supplier, hasApi, limit, keyword, model, refused, unfit, status, data>>
      /\ \A t \in Source \ {"page"} : said'[t] = said[t] /\ listed'[t] = listed[t]
  BY DEF PageCodes, Hear, PhaseBooks, TypeOK, Source
<1>q. /\ said["public"] = "failed" /\ LcscAsked /\ Asked("primary")
      /\ said["claude"] = "unasked" /\ Named(listed["claude"]) = {}
      /\ Wanted("primary") = {} /\ Wanted("third") = {} /\ Wanted("public") = {}
  BY <1>p, ListingsAreOffers DEF PhaseBooks, LookupBooks, FallbacksInOrder, Silent, LcscAsked
<1>r. Wanted("public")' = {} /\ Wanted("primary")' = {} /\ Wanted("third")' = {}
  BY <1>p, <1>q, WantedIs, WantedThen, RulesStay DEF Source
<1>s. \A s \in Source \ {"page"} : Wanted(s)' = {}
  <2>1. Named(listed'["exact"]) = {} /\ Named(listed'["direct"]) = {}
    BY <1>p, ListingsAreOffers DEF SourceBooks, Silent, Source
  <2> QED BY <1>r, <2>1, WantedThen DEF Source
<1>0. PICK offers \in Offers :
        /\ said'["page"] = "codes" /\ listed'["page"] = offers
        /\ \E order \in Orders(Named(offers) \cap Coded) :
             todo' = [i \in DOMAIN order |-> [part |-> order[i], rank |-> 0, packs |-> 1]]
  BY ListingsAreOffers DEF PageCodes, Hear, TypeOK, Source
<1>a. phase' = "verify" /\ found' = found
  BY DEF PageCodes
<1>b. todo' \in Offers /\ Distinct(todo') /\ Named(todo') = Named(offers) \cap Coded
  BY <1>0, OrderFacts
<1>1. TypeOK'
  BY <1>a, <1>b, <1>p, ListingsAreOffers DEF PageCodes, Hear, TypeOK, PhaseBooks, Source
<1>2. SourceBooks'
  BY DEF PageCodes, Hear, TypeOK, SourceBooks, PhaseBooks, Silent, Source
<1>3. PhaseBooks'
  BY DEF PageCodes, Hear, TypeOK, SourceBooks, PhaseBooks, Silent, Source, Asked,
     LcscAsked
<1>4. LookupBooks'
  <2>1. found = <<>> /\ refused["verify"] = {}
    BY <1>p DEF PhaseBooks
  <2> QED BY <1>0, <1>a, <1>b, <1>p, <2>1, ListingsAreOffers DEF LookupBooks, Lookups
<1>5. ResultBooks'
  BY DEF PageCodes, Hear, ResultBooks
<1>6. FallbacksInOrder'
  <2>1. said'["public"] = "failed" /\ said'["claude"] = "unasked"
    BY <1>p, <1>q DEF Source
  <2>2. Asked("third")' => listed'["primary"] = <<>> /\ said'["primary"] # "broken"
    BY <1>p DEF FallbacksInOrder, Asked, Source
  <2>3. phase' # "done"
    BY DEF PageCodes, Hear
  <2> QED BY <1>3, <1>r, <2>1, <2>2, <2>3, Unfinished DEF FallbacksInOrder, Asked
<1>7. NothingFoundIsLost' /\ OnceAtItsBest'
  BY <1>3, Unfinished DEF PageCodes, Hear
<1>8. PageBooks'
  BY PagesStay DEF PageCodes, Hear, TypeOK, Source, Paged
<1> QED BY <1>1, <1>2, <1>3, <1>4, <1>5, <1>6, <1>7, <1>8

(* One code is verified or refused. *)
LEMMA VerifyStep ==
  ASSUME IInv, Verify
  PROVE  IInv'
<1> USE DEF IInv, world
<1>a. /\ phase = "verify" /\ phase' = phase /\ todo # <<>>
      /\ UNCHANGED <<world, said, held, listed, unfit, status, data>>
  BY DEF Verify, LookedUp
<1>b. PICK isPart \in BOOLEAN : LookedUp("verify", isPart)
  BY DEF Verify
<1>c. PICK C : C = Named(listed["page"]) \cap Coded
  OBVIOUS
<1>d. /\ todo' \in Offers /\ found' \in Offers
      /\ refused' \in [{"resolve", "verify"} -> SUBSET Parts]
      /\ \A l \in {"resolve", "verify"} : refused[l] \subseteq refused'[l]
      /\ "verify" = "resolve" => refused'["verify"] = refused["verify"]
      /\ Distinct(todo') /\ Distinct(found')
      /\ Named(todo') \cap (Named(found') \cup refused'["verify"]) = {}
      /\ C \subseteq Named(todo') \cup Named(found') \cup refused'["verify"]
      /\ Named(todo') \cup Named(found') \subseteq C
  <2>1. Lookups("verify", C)
    BY <1>a, <1>c DEF LookupBooks
  <2> QED BY <1>a, <1>b, <2>1, LookupStep
<1>1. TypeOK'
  BY <1>a, <1>d DEF TypeOK, PhaseBooks
<1>2. SourceBooks'
  BY DEF Verify, LookedUp, TypeOK, SourceBooks, PhaseBooks, Silent, Source
<1>3. PhaseBooks'
  BY DEF Verify, LookedUp, TypeOK, SourceBooks, PhaseBooks, Silent, Source, Asked,
     LcscAsked
<1>4. LookupBooks'
  <2>1. C = (Named(listed["page"]) \cap Coded)'
    BY <1>a, <1>c, RulesStay DEF FromLcsc
  <2> HIDE DEF IInv
  <2>2. phase' = "verify"
    BY <1>a
  <2> QED BY <1>d, <2>1, <2>2 DEF LookupBooks, Lookups
<1>5. ResultBooks'
  BY <1>a DEF ResultBooks
<1>6. FallbacksInOrder'
  BY <1>a, <1>d, <1>3, StillInOrder
<1>7. NothingFoundIsLost' /\ OnceAtItsBest'
  BY <1>3, <1>a, Unfinished
<1>8. PageBooks'
  BY PagesStay DEF Verify, LookedUp, TypeOK, Source, Paged
<1> QED BY <1>1, <1>2, <1>3, <1>4, <1>5, <1>6, <1>7, <1>8

(* All were, or enough. *)
LEMMA VerifiedStep ==
  ASSUME IInv, Verified
  PROVE  IInv'
<1> USE DEF IInv, world
<1>a. /\ phase = "verify" /\ supplier = "jlcpcb" /\ (todo = <<>> \/ Enough)
      /\ UNCHANGED <<world, said, held, listed, todo, refused, found, unfit, status, data>>
      /\ phase' = IF found = <<>> THEN "claude" ELSE "found"
  BY DEF Verified, PhaseBooks
<1>b. Lookups("verify", Named(listed["page"]) \cap Coded)
  BY <1>a DEF LookupBooks
<1>c. \A s \in Source : Wanted(s)' = Wanted(s)
  BY <1>a, WantedShrinks
<1>d. said["page"] = "codes" /\ Wanted("page") \subseteq Named(found) \cup Named(todo)
  BY <1>a, <1>b, WantedIs DEF Lookups, PhaseBooks
<1>1. TypeOK'
  BY ListingsAreOffers DEF Verified, TypeOK, PhaseBooks, Source
<1>2. SourceBooks'
  BY DEF Verified, TypeOK, SourceBooks, PhaseBooks, Silent, Source
<1>3. PhaseBooks'
  BY DEF Verified, TypeOK, SourceBooks, PhaseBooks, Silent, Source, Asked, LcscAsked
<1>4. LookupBooks'
  <2>1. ASSUME phase' = "claude" PROVE todo = <<>> /\ found = <<>>
    BY <1>a, <2>1 DEF Enough, TypeOK
  <2>2. phase' = "claude" => Wanted("page")' = {}
    BY <1>c, <1>d, <2>1, ListingsAreOffers DEF Source
  <2> QED BY <1>a, <2>2 DEF LookupBooks
<1>5. ResultBooks'
  <2>1. CASE phase' = "claude"
    BY <2>1 DEF ResultBooks
  <2>2. CASE phase' = "found" /\ found # <<>>
    <3>1. \A s \in {"exact", "direct", "claude"} : said[s] = "unasked" /\ Named(listed[s]) = {}
      BY <1>a, ListingsAreOffers DEF PhaseBooks, SourceBooks, Silent
    <3>2. Asked("primary") /\ Asked("page")
      BY <1>a, <1>d DEF PhaseBooks, LcscAsked, Asked
    <3>3. Wanted("public") = {} /\ Wanted("primary") = {} /\ Wanted("third") = {}
      BY <1>a, <3>2 DEF FallbacksInOrder
    <3>4. \A s \in Source : Wanted(s)' \subseteq Named(found) \cup Named(todo)
      BY <1>c, <1>d, <3>1, <3>3, WantedIs DEF Source
    <3>5. todo = <<>> \/ (limit > 0 /\ Len(found) >= limit)
      BY <1>a DEF Enough
    <3>6. \A p \in Named(found) : LastAsked(p)'
      BY <1>a, <1>b, <3>1 DEF Lookups, LastAsked, Asked, Source
    <3>7. found' = found /\ Distinct(found) /\ limit' = limit /\ supplier' = "jlcpcb"
      BY <1>a, <1>b DEF Lookups
    <3> QED BY <2>2, <3>4, <3>5, <3>6, <3>7, ListingsAreOffers DEF ResultBooks, Filled
  <2> QED BY <1>a, <2>1, <2>2
<1>6. FallbacksInOrder'
  BY <1>a, <1>3, StillInOrder
<1>7. NothingFoundIsLost' /\ OnceAtItsBest'
  BY <1>3, <1>a, Unfinished
<1>8. PageBooks'
  BY PagesStay DEF Verified, TypeOK, Source, Paged
<1> QED BY <1>1, <1>2, <1>3, <1>4, <1>5, <1>6, <1>7, <1>8

(* The model has the last word. *)
LEMMA AskClaudeStep ==
  ASSUME IInv, AskClaude
  PROVE  IInv'
<1> USE DEF IInv, world
<1>a. PICK what \in {"failed", "listed"}, answer \in Offers :
        /\ Hear("claude", what, answer) /\ Distinct(answer)
        /\ Results(<<>>) \/ Results(answer)
  <2>1. CASE Hear("claude", "failed", <<>>) /\ Results(<<>>)
    BY <2>1, ListingsAreOffers
  <2>2. CASE \E p \in Coded, page \in BOOLEAN :
               LET answer == <<[part |-> p, rank |-> 0, packs |-> 1]>>
               IN  /\ Hear("claude", "listed", answer)
                   /\ Results(IF page THEN answer ELSE <<>>)
    <3>1. PICK p \in Coded :
            LET answer == <<[part |-> p, rank |-> 0, packs |-> 1]>>
            IN  /\ Hear("claude", "listed", answer)
                /\ Results(<<>>) \/ Results(answer)
      BY <2>2
    <3>2. [part |-> p, rank |-> 0, packs |-> 1] \in Offer
      BY SearchAssumption DEF Offer
    <3> DEFINE answer == <<[part |-> p, rank |-> 0, packs |-> 1]>>
    <3>3. answer \in Offers /\ Distinct(answer)
      BY <3>2 DEF Offers, Distinct
    <3> HIDE DEF answer
    <3>4. Hear("claude", "listed", answer) /\ (Results(<<>>) \/ Results(answer))
      BY <3>1 DEF answer
    <3> QED BY <3>3, <3>4
  <2> QED BY <2>1, <2>2 DEF AskClaude
<1>p. /\ phase = "claude" /\ supplier = "jlcpcb" /\ phase' = "found"
      /\ UNCHANGED <<supplier, hasApi, limit, keyword, model, todo, refused, unfit, status, data>>
      /\ said'["claude"] = what /\ listed'["claude"] = answer
      /\ \A t \in Source \ {"claude"} : said'[t] = said[t] /\ listed'[t] = listed[t]
      /\ found' = <<>> \/ found' = answer
  BY <1>a DEF AskClaude, Hear, Results, PhaseBooks, TypeOK, Source
<1>q. /\ said["public"] = "failed" /\ LcscAsked /\ Asked("primary") /\ said["page"] = "codes"
      /\ Wanted("primary") = {} /\ Wanted("third") = {} /\ Wanted("public") = {}
      /\ Wanted("page") = {}
  BY <1>p DEF PhaseBooks, LookupBooks, FallbacksInOrder, LcscAsked, Asked
<1>s. \A s \in Source : Wanted(s)' = {}
  <2>1. Named(listed'["exact"]) = {} /\ Named(listed'["direct"]) = {}
    BY <1>p, ListingsAreOffers DEF SourceBooks, Silent, Source
  <2> QED BY <1>p, <1>q, <2>1, WantedIs, WantedThen, RulesStay DEF Source
<1>1. TypeOK'
  BY <1>a, <1>p, ListingsAreOffers DEF Hear, TypeOK, PhaseBooks, Source
<1>2. SourceBooks'
  BY DEF AskClaude, Hear, Results, TypeOK, SourceBooks, PhaseBooks, Silent, Source
<1>3. PhaseBooks'
  BY DEF AskClaude, Hear, Results, TypeOK, SourceBooks, PhaseBooks, Silent, Source,
     Asked, LcscAsked
<1>4. LookupBooks'
  BY DEF AskClaude, Hear, Results, LookupBooks
<1>5. ResultBooks'
  <2>1. \A p \in Named(found') : LastAsked(p)'
    BY <1>p, ListingsAreOffers DEF LastAsked, Asked, Source
  <2>2. AllAsked'
    BY <1>p, <1>q DEF AllAsked, LcscAsked, Asked, Source
  <2>3. Distinct(found')
    BY <1>a, <1>p, ListingsAreOffers
  <2> QED BY <1>p, <1>s, <2>1, <2>2, <2>3 DEF ResultBooks
<1>6. FallbacksInOrder'
  <2>1. Asked("third")' => listed'["primary"] = <<>> /\ said'["primary"] # "broken"
    BY <1>p DEF FallbacksInOrder, Asked, Source
  <2>2. said'["public"] = "failed"
    BY <1>p, <1>q DEF Source
  <2> QED BY <1>3, <1>p, <1>s, <2>1, <2>2, Unfinished DEF FallbacksInOrder, Source
<1>7. NothingFoundIsLost' /\ OnceAtItsBest'
  BY <1>3, Unfinished DEF AskClaude, Hear, Results
<1>8. PageBooks'
  BY PagesStay DEF AskClaude, Hear, Results, TypeOK, Source, Paged
<1> QED BY <1>1, <1>2, <1>3, <1>4, <1>5, <1>6, <1>7, <1>8

(* Nothing was found, nothing was wanted. *)
LEMMA NotFoundStep ==
  ASSUME IInv, NotFound
  PROVE  IInv'
<1> USE DEF IInv, world
<1>a. /\ phase = "found" /\ found = <<>> /\ phase' = "done" /\ status' = "not_found"
      /\ data' = <<>> /\ status = "none" /\ unfit = {}
      /\ UNCHANGED <<world, said, held, listed, todo, refused, found, unfit>>
  BY DEF NotFound, Done, PhaseBooks
<1>b. /\ ResultBooks' /\ \A s \in Source : Wanted(s)' = Wanted(s)
      /\ AllAsked' <=> AllAsked
  BY <1>a, ResultsStand
<1>1. TypeOK'
  BY ListingsAreOffers DEF NotFound, Done, TypeOK, PhaseBooks, Source
<1>2. SourceBooks'
  BY DEF NotFound, Done, TypeOK, SourceBooks, PhaseBooks, Silent, Source
<1>3. PhaseBooks'
  BY DEF NotFound, Done, TypeOK, SourceBooks, PhaseBooks, Silent, Source, Asked,
     LcscAsked
<1>4. LookupBooks'
  BY DEF NotFound, Done, LookupBooks
<1>5. ResultBooks'
  BY <1>b
<1>6. FallbacksInOrder'
  <2>1. supplier \in {"lcsc", "jlcpcb"} => AllAsked'
    BY <1>a, <1>b DEF ResultBooks
  <2>2. Named(data') = {}
    BY <1>a, ListingsAreOffers
  <2> QED BY <1>a, <1>b, <2>1, <2>2 DEF FallbacksInOrder, Asked, Source
<1>8. PageBooks'
  BY PagesStay DEF NotFound, Done, TypeOK, Source, Paged
<1>7. NothingFoundIsLost' /\ OnceAtItsBest'
  <2>1. DOMAIN found' = {}
    BY <1>a
  <2>2. PageBooks' /\ TypeOK'
    BY <1>1, <1>8
  <2>3. NothingFoundIsLost'
    <3>1. \A s \in Paged : \A i \in DOMAIN held'[s] :
            Seen(i)' => held'[s][i].part \in Named(listed'[s])
      BY <1>a, PagesAreSeen DEF Seen
    <3> QED BY <1>a, <1>5, <2>1, <3>1 DEF NothingFoundIsLost, ResultBooks
  <2>4. OnceAtItsBest'
    BY <1>a, ListingsAreOffers DEF OnceAtItsBest, Best
  <2> QED BY <2>3, <2>4
<1> QED BY <1>1, <1>2, <1>3, <1>4, <1>5, <1>6, <1>7, <1>8

(* The limit and the response model cut the results once more. *)
LEMMA AnswerStep ==
  ASSUME IInv, Answer
  PROVE  IInv'
<1> USE DEF IInv, world
<1> DEFINE cut == IF Len(found) > limit THEN Sliced(found, limit) ELSE found
<1>0. found \in Offers /\ limit \in Int /\ Len(found) \in Nat
  BY DEF TypeOK, Offers
<1>1a. /\ cut \in Offers /\ DOMAIN cut \subseteq DOMAIN found
       /\ \A i \in DOMAIN cut : cut[i] = found[i]
       /\ Distinct(found) => Distinct(cut)
       /\ \A i \in DOMAIN found :
            i <= (IF limit < 0 THEN Len(found) + limit ELSE limit) => i \in DOMAIN cut
  <2>1. CASE Len(found) > limit
    <3> DEFINE sl == Sliced(found, limit)
    <3>1. /\ sl \in Offers /\ DOMAIN sl \subseteq DOMAIN found
          /\ \A i \in DOMAIN sl : sl[i] = found[i]
          /\ Distinct(found) => Distinct(sl)
          /\ \A i \in DOMAIN found :
               i <= (IF limit >= 0 THEN limit ELSE Len(found) + limit) => i \in DOMAIN sl
      BY <1>0, SlicedFacts
    <3>2. cut = sl BY <2>1
    <3> HIDE DEF sl, cut
    <3> QED BY <1>0, <2>1, <3>1, <3>2
  <2>2. CASE ~(Len(found) > limit)
    BY <1>0, <2>2
  <2> QED BY <2>1, <2>2
<1> HIDE DEF cut
<1>1b. PICK bad \in SUBSET DOMAIN cut :
         unfit' = bad /\ Done("ok", Picked(cut, DOMAIN cut \ bad))
  BY DEF Answer, cut
<1>1c. /\ phase = "found" /\ phase' = "done" /\ found # <<>> /\ status' = "ok" /\ status = "none"
       /\ UNCHANGED <<world, said, held, listed, todo, refused, found>>
       /\ data' = Picked(cut, DOMAIN cut \ bad)
  BY <1>1b DEF Answer, Done, PhaseBooks
<1>1d. /\ data' \in Offers /\ Len(data') = Cardinality(DOMAIN cut \ bad)
       /\ \A n \in DOMAIN data' : \E i \in DOMAIN cut \ bad : data'[n] = cut[i]
       /\ Named(data') = {cut[i].part : i \in DOMAIN cut \ bad}
       /\ Distinct(cut) => Distinct(data')
  <2>1. DOMAIN cut \ bad \in SUBSET DOMAIN cut
    OBVIOUS
  <2> DEFINE keep == DOMAIN cut \ bad
  <2>2. /\ Picked(cut, keep) \in Offers /\ Len(Picked(cut, keep)) = Cardinality(keep)
        /\ \A n \in DOMAIN Picked(cut, keep) : \E i \in keep : Picked(cut, keep)[n] = cut[i]
        /\ Named(Picked(cut, keep)) = {cut[i].part : i \in keep}
        /\ (\A i, j \in keep : cut[i].part = cut[j].part => i = j) => Distinct(Picked(cut, keep))
    BY <1>1a, <2>1, PickedFacts
  <2>3. Distinct(cut) => \A i, j \in keep : cut[i].part = cut[j].part => i = j
    BY DEF Distinct
  <2> QED BY <1>1c, <2>2, <2>3
<1>1f. /\ ResultBooks' /\ \A s \in Source : Wanted(s)' = Wanted(s)
       /\ \A p, q : SameMpn(p, q)' <=> SameMpn(p, q)
       /\ \A p : LastAsked(p)' <=> LastAsked(p)
  BY <1>1c, ResultsStand
<1>1g. UNCHANGED <<supplier, hasApi, limit, keyword, model>> /\ unfit' = bad
  BY <1>1b, <1>1c
<1>1. TypeOK'
  BY <1>1a, <1>1c, <1>1d, <1>1g DEF TypeOK
<1>2. SourceBooks'
  BY DEF Answer, Done, TypeOK, SourceBooks, PhaseBooks, Silent, Source
<1>3. PhaseBooks'
  BY DEF Answer, Done, TypeOK, SourceBooks, PhaseBooks, Silent, Source, Asked, LcscAsked
<1>4. LookupBooks'
  BY DEF Answer, Done, LookupBooks
<1>5. ResultBooks'
  BY <1>1f
<1>6. FallbacksInOrder'
  <2>1. Named(data') \subseteq Named(found)
    BY <1>1a, <1>1d DEF Named
  <2>2. \A p \in Named(data') : LastAsked(p)'
    BY <1>1c, <1>1f, <2>1 DEF ResultBooks
  <2> QED BY <1>1c, <1>1f, <1>1g, <2>2 DEF FallbacksInOrder, Asked, Source
<1>7. NothingFoundIsLost' /\ OnceAtItsBest'
  <2>1. ASSUME NEW i \in DOMAIN found', Kept(i)'
        PROVE  i \in unfit' \/ found'[i].part \in Named(data')
    <3>1. i \in DOMAIN cut /\ cut[i] = found[i]
      BY <1>0, <1>1a, <1>1c, <1>1g, <2>1 DEF Kept
    <3> QED BY <1>1c, <1>1d, <1>1g, <3>1
  <2>2. NothingFoundIsLost'
    <3>1. \A s \in Paged : \A i \in DOMAIN held'[s] :
            Seen(i)' => held'[s][i].part \in Named(listed'[s])
      BY <1>1c, <1>1g, PagesAreSeen DEF Seen
    <3> QED BY <1>1c, <1>5, <2>1, <3>1 DEF NothingFoundIsLost, ResultBooks
  <2>3. (supplier' = "lcsc" \/ (supplier' = "jlcpcb" /\ Asked("primary")')) => Distinct(data')
    BY <1>1a, <1>1c, <1>1d, <1>1g DEF ResultBooks, Asked
  <2>4. supplier' = "lcsc" => Best(data)'
    <3>1. supplier = "lcsc" => Best(found)
      BY <1>1c DEF ResultBooks
    <3>2. \A n \in DOMAIN data' : \E i \in DOMAIN found : data'[n] = found[i]
      BY <1>1a, <1>1d
    <3>3. listed' = listed /\ supplier' = supplier
      BY <1>1c, <1>1g
    <3> SUFFICES ASSUME supplier = "lcsc", NEW n \in DOMAIN data', NEW s \in {"primary", "third"},
                        NEW k \in DOMAIN listed[s], listed[s][k].part = data'[n].part
                 PROVE  data'[n].rank <= listed[s][k].rank
      BY <3>3 DEF Best
    <3>4. PICK i \in DOMAIN found : data'[n] = found[i]
      BY <3>2
    <3> QED BY <3>1, <3>4 DEF Best
  <2> QED BY <2>2, <2>3, <2>4 DEF OnceAtItsBest
<1>8. PageBooks'
  BY PagesStay DEF Answer, Done, TypeOK, Source, Paged
<1> QED BY <1>1, <1>2, <1>3, <1>4, <1>5, <1>6, <1>7, <1>8

----------------------------------------------------------------------------
(* Before anything is asked all the books are blank. *)
LEMMA InitIInv == Init => IInv
<1> SUFFICES ASSUME Init PROVE IInv OBVIOUS
<1>0. model \in [Parts -> Model]
  BY SearchAssumption DEF Init
<1>1. TypeOK
  BY <1>0, SearchAssumption, ListingsAreOffers DEF Init, TypeOK, Source
<1>2. SourceBooks /\ PageBooks /\ PhaseBooks /\ LookupBooks /\ ResultBooks
  BY DEF Init, SourceBooks, PageBooks, PhaseBooks, LookupBooks, ResultBooks, Silent, Source, Paged
<1>3. NothingFoundIsLost /\ OnceAtItsBest
  BY ListingsAreOffers DEF Init, NothingFoundIsLost, OnceAtItsBest, Best
<1>4. FallbacksInOrder
  BY ListingsAreOffers DEF Init, FallbacksInOrder, Asked, Source
<1> QED BY <1>1, <1>2, <1>3, <1>4 DEF IInv

(* Nor does a step that leaves the search alone change them. *)
LEMMA StutterIInv == IInv /\ UNCHANGED vars => IInv'
<1> SUFFICES ASSUME IInv, UNCHANGED vars PROVE IInv' OBVIOUS
<1>1. UNCHANGED <<phase, supplier, hasApi, limit, keyword, model, said, held, listed, todo, refused,
                  found, unfit, status, data>>
  BY DEF vars, world
<1> USE DEF IInv
<1>2. TypeOK'
  BY <1>1 DEF TypeOK
<1>3. SourceBooks' /\ PhaseBooks'
  BY <1>1 DEF SourceBooks, PhaseBooks, Silent, Asked, LcscAsked
<1>4. \A s \in Source : Wanted(s)' = Wanted(s)
  BY <1>1, WantedShrinks
<1>5. FromLcsc' = FromLcsc /\ matches_search_keyword' = matches_search_keyword
  BY <1>1, RulesStay DEF FromLcsc
<1>6. /\ Best(todo)' <=> Best(todo)
      /\ Best(found)' <=> Best(found)
      /\ Best(data)' <=> Best(data)
  BY <1>1 DEF Best
<1>7. LookupBooks'
  BY <1>1, <1>4, <1>5, <1>6 DEF LookupBooks, Lookups, Source
<1>8. /\ \A p : LastAsked(p)' <=> LastAsked(p)
      /\ AllAsked' <=> AllAsked
      /\ \A p, q : SameMpn(p, q)' <=> SameMpn(p, q)
  BY <1>1 DEF LastAsked, AllAsked, Asked, SameMpn
<1>9. ResultBooks' /\ FallbacksInOrder' /\ NothingFoundIsLost' /\ OnceAtItsBest'
  <2>1. (Filled' <=> Filled) /\ \A i : (Seen(i)' <=> Seen(i)) /\ (Kept(i)' <=> Kept(i))
    BY <1>1 DEF Filled, Seen, Kept
  <2>2. ResultBooks' /\ FallbacksInOrder' /\ OnceAtItsBest'
    BY <1>1, <1>4, <1>6, <1>8, <2>1
       DEF ResultBooks, FallbacksInOrder, OnceAtItsBest, Asked, Source
  <2>3. NothingFoundIsLost'
    BY <1>1, <1>4, <1>8, <2>1 DEF NothingFoundIsLost
  <2> QED BY <2>2, <2>3
<1>10. PageBooks'
  BY <1>1, PagesStay
<1> QED BY <1>2, <1>3, <1>7, <1>9, <1>10

(* The books hold throughout every search. *)
THEOREM BooksKept == Spec => []IInv
<1>1. Init => IInv
  BY InitIInv
<1>2. IInv /\ [Next]_vars => IInv'
  <2> SUFFICES ASSUME IInv, [Next]_vars PROVE IInv' OBVIOUS
  <2>1. CASE NoAdapter BY <2>1, NoAdapterStep
  <2>2. CASE AskMouser BY <2>2, AskMouserStep
  <2>3. CASE DigikeyFails BY <2>3, DigikeyFailsStep
  <2>4. CASE AskDigikey BY <2>4, AskDigikeyStep
  <2>5. CASE AskPublic BY <2>5, AskPublicStep
  <2>6. CASE AskPrimary BY <2>6, AskPrimaryStep
  <2>7. CASE AskThird BY <2>7, AskThirdStep
  <2>8. CASE LcscResults BY <2>8, LcscResultsStep
  <2>9. CASE Resolving BY <2>9, ResolvingStep
  <2>10. CASE Resolve BY <2>10, ResolveStep
  <2>11. CASE Resolved BY <2>11, ResolvedStep
  <2>12. CASE PageFails BY <2>12, PageFailsStep
  <2>13. CASE PageRows BY <2>13, PageRowsStep
  <2>14. CASE PageCodes BY <2>14, PageCodesStep
  <2>15. CASE Verify BY <2>15, VerifyStep
  <2>16. CASE Verified BY <2>16, VerifiedStep
  <2>17. CASE AskClaude BY <2>17, AskClaudeStep
  <2>18. CASE NotFound BY <2>18, NotFoundStep
  <2>19. CASE Answer BY <2>19, AnswerStep
  <2>20. CASE ProductRaises BY <2>20, ProductRaisesStep
  <2>21. CASE UNCHANGED vars BY <2>21, StutterIInv
  <2> QED BY <2>1, <2>2, <2>3, <2>4, <2>5, <2>6, <2>7, <2>8, <2>9, <2>10, <2>11, <2>12, <2>13,
         <2>14, <2>15, <2>16, <2>17, <2>18, <2>19, <2>20, <2>21 DEF Next
<1> QED BY <1>1, <1>2, PTL DEF Spec

(* Every variable of a search keeps its type. *)
THEOREM TypesKept == Spec => []TypeOK
<1>1. IInv => TypeOK
  BY DEF IInv
<1> QED BY <1>1, BooksKept, PTL

(* Whatever the sources hold, however many, and whichever offers convert: what
   comes in a page and passes its source's rule is found and answered, up to
   the exceptions that the limits make (lcsc.py:45-64, jlc.py:153-239, 398-446,
   jlc_scraper.py:354-473), and DigiKey's doubles (digikey.py:394-409). *)
THEOREM NoPartLost == Spec => []NothingFoundIsLost
<1>1. IInv => NothingFoundIsLost
  BY DEF IInv
<1> QED BY <1>1, BooksKept, PTL

(* The sources are asked in their order, the scraper and the model only after a
   failed public search (jlc.py:154-160), and the answer is the last one's. *)
THEOREM OrderKept == Spec => []FallbacksInOrder
<1>1. IInv => FallbacksInOrder
  BY DEF IInv
<1> QED BY <1>1, BooksKept, PTL

(* Where the service merges lists (lcsc_api.py:180-204, jlc.py:214-220,
   jlc_scraper.py:313-349), a part is in the answer once, LCSC's at its best offer. *)
THEOREM AnsweredOnce == Spec => []OnceAtItsBest
<1>1. IInv => OnceAtItsBest
  BY DEF IInv
<1> QED BY <1>1, BooksKept, PTL

----------------------------------------------------------------------------
(* How far a search is from its end: /v1/search has no timeout of its own  *)
(* (search.py:33-91), so that it ends rests on every step of the adapters  *)
(* bringing it nearer: on to a later phase, or one lookup less to do.      *)
Rank == [adapter |-> 9, primary |-> 8, third |-> 7, offered |-> 6, resolve |-> 5, page |-> 4,
         verify |-> 3, claude |-> 2, found |-> 1, done |-> 0]

Nearer == Rank[phase'] < Rank[phase] \/ (phase' = phase /\ Len(todo') < Len(todo))

LEMMA LookupNearer ==
  ASSUME TypeOK, todo # <<>>, NEW loop, NEW isPart, LookedUp(loop, isPart)
  PROVE  Nearer
<1>1. todo \in Offers /\ phase' = phase /\ todo' = Tail(todo)
  BY DEF TypeOK, LookedUp
<1>2. Len(Tail(todo)) < Len(todo)
  BY <1>1 DEF Offers
<1> QED BY <1>1, <1>2 DEF Nearer

LEMMA StepsAreNearer ==
  ASSUME TypeOK, Next
  PROVE  Nearer
<1>1. CASE NoAdapter \/ AskMouser \/ DigikeyFails \/ AskDigikey \/ ProductRaises
  BY <1>1 DEF NoAdapter, AskMouser, DigikeyFails, AskDigikey, ProductRaises, Done, Results,
              Nearer, Rank
<1>2. CASE AskPublic
  BY <1>2 DEF AskPublic, Results, Nearer, Rank
<1>3. CASE AskPrimary
  BY <1>3 DEF AskPrimary, AskLcsc, Nearer, Rank
<1>4. CASE AskThird
  BY <1>4 DEF AskThird, AskLcsc, Nearer, Rank
<1>5. CASE LcscResults \/ Resolving
  BY <1>5 DEF LcscResults, Resolving, Results, Nearer, Rank
<1>6. CASE Resolve \/ Verify
  BY <1>6, LookupNearer DEF Resolve, Verify
<1>7. CASE Resolved \/ Verified
  BY <1>7 DEF Resolved, Verified, Nearer, Rank
<1>8. CASE PageFails \/ PageRows \/ PageCodes \/ AskClaude
  <2>1. \/ phase = "page" /\ phase' \in {"found", "verify"}
        \/ phase = "claude" /\ phase' = "found"
    BY <1>8 DEF PageFails, PageRows, PageCodes, AskClaude, Results
  <2> QED BY <2>1 DEF Nearer, Rank
<1>9. CASE NotFound \/ Answer
  <2>1. phase = "found" /\ phase' = "done"
    BY <1>9 DEF NotFound, Answer, Done
  <2> QED BY <2>1 DEF Nearer, Rank
<1> QED BY <1>1, <1>2, <1>3, <1>4, <1>5, <1>6, <1>7, <1>8, <1>9 DEF Next

(* Every step of a search brings it nearer its end, whatever the sources   *)
(* answer and however long their lists are: no fallback of search_by_mpn   *)
(* (jlc.py:153-197) leads back to an earlier one, no lookup adds another.  *)
THEOREM SearchesEnd == Spec => [][Nearer]_vars
<1>1. TypeOK /\ [Next]_vars => [Nearer]_vars
  BY StepsAreNearer
<1> QED BY <1>1, TypesKept, PTL DEF Spec

(* A source that has been asked is not asked again, and what it said is    *)
(* not forgotten while those after it are asked: search_by_mpn looks back  *)
(* at the answer of its first source from its last (jlc.py:153-197).       *)
THEOREM AskedOnce ==
  Spec => [][\A s \in Source : Asked(s) => said'[s] = said[s] /\ listed'[s] = listed[s]]_vars
<1>1. ASSUME NEW s \in Source, NEW t \in Source, NEW what, NEW offers,
             /\ said' = [said EXCEPT ![t] = what] /\ listed' = [listed EXCEPT ![t] = offers],
             TypeOK, ~Asked(t), Asked(s)
      PROVE  said'[s] = said[s] /\ listed'[s] = listed[s]
  BY <1>1 DEF TypeOK, Asked
<1>2. IInv /\ [Next]_vars =>
        [\A s \in Source : Asked(s) => said'[s] = said[s] /\ listed'[s] = listed[s]]_vars
  <2> SUFFICES ASSUME IInv, Next, NEW s \in Source, Asked(s)
               PROVE  said'[s] = said[s] /\ listed'[s] = listed[s]
    BY DEF IInv
  <2>0. TypeOK /\ PhaseBooks
    BY DEF IInv
  <2> HIDE DEF IInv
  <2>1. phase # "adapter"
    BY <2>0 DEF PhaseBooks, Silent, Asked
  <2>2. CASE AskPrimary
    <3>1. ~Asked("primary") /\ "primary" \in Source
      BY <2>0, <2>1, <2>2 DEF AskPrimary, PhaseBooks, Silent, Asked, Source
    <3> QED BY <1>1, <2>0, <2>2, <3>1 DEF AskPrimary, AskLcsc, Hear, HearPage
  <2>3. CASE AskThird
    <3>1. ~Asked("third") /\ "third" \in Source
      BY <2>0, <2>3 DEF AskThird, PhaseBooks, Silent, Asked, Source
    <3> QED BY <1>1, <2>0, <2>3, <3>1 DEF AskThird, AskLcsc, Hear, HearPage
  <2>4. CASE PageFails \/ PageRows \/ PageCodes
    <3>1. ~Asked("page") /\ "page" \in Source
      BY <2>0, <2>4 DEF PageFails, PageRows, PageCodes, PhaseBooks, Silent, Asked, Source
    <3> QED BY <1>1, <2>0, <2>4, <3>1 DEF PageFails, PageRows, PageCodes, Hear
  <2>5. CASE AskClaude
    <3>1. ~Asked("claude") /\ "claude" \in Source
      BY <2>0, <2>5 DEF AskClaude, PhaseBooks, Silent, Asked, Source
    <3> QED BY <1>1, <2>0, <2>5, <3>1 DEF AskClaude, Hear
  <2>6. CASE ProductRaises \/ LcscResults \/ Resolving \/ Resolve \/ Resolved \/ Verify \/ Verified \/ NotFound \/ Answer
    BY <2>6 DEF ProductRaises, LcscResults, Resolving, Resolve, Resolved, Verify, Verified, NotFound, Answer,
                LookedUp, Done
  <2>7. CASE NoAdapter \/ AskMouser \/ DigikeyFails \/ AskDigikey \/ AskPublic
    BY <2>1, <2>7 DEF NoAdapter, AskMouser, DigikeyFails, AskDigikey, AskPublic
  <2> QED BY <2>2, <2>3, <2>4, <2>5, <2>6, <2>7 DEF Next
<1> QED BY <1>2, BooksKept, PTL DEF Spec
=============================================================================
