--------------------------- MODULE SpnBatchProofs ---------------------------
(***************************************************************************)
(* Proofs about SpnBatch, for any part numbers, batches and chunk sizes.   *)
(*                                                                         *)
(* Blank numbers are dropped by a recursive function.  What it computes is *)
(* proved by the least counterexample (NatMin).                            *)
(***************************************************************************)
EXTENDS SpnBatch, FiniteSetTheorems, WellFoundedInduction, TLAPS

----------------------------------------------------------------------------
(* The natural numbers are well founded. *)
LEMMA NatLess == IsWellFoundedOn({ss \in Nat \X Nat : ss[1] < ss[2]}, Nat)
BY NatLessThanWellFounded DEF OpToRel

(* A set of naturals that is not empty has a least element.                *)
LEMMA NatMin ==
  ASSUME NEW T, T \subseteq Nat, T # {}
  PROVE  \E n \in T : \A m \in T : ~(m < n)
<1> DEFINE R == {ss \in Nat \X Nat : ss[1] < ss[2]}
<1>1. IsWellFoundedOn(R, Nat)
  BY NatLess
<1> HIDE DEF R
<1>2. PICK n \in T : \A m \in T : <<m, n>> \notin R
  BY <1>1, WFMin
<1>3. ASSUME NEW m \in T, m < n PROVE FALSE
  <2>1. <<m, n>> \in Nat \X Nat OBVIOUS
  <2>2. <<m, n>> \in R BY <1>3, <2>1 DEF R
  <2> QED BY <1>2, <2>2
<1> QED BY <1>3

----------------------------------------------------------------------------
(* cleaned_spns.  Filters(s, f, n): f[i] is what is left of the first i    *)
(* numbers of s, up to n of them.                                          *)
Filters(s, f, n) ==
  f = [i \in 0..n |-> IF i = 0 THEN <<>>
                      ELSE IF s[i] = Blank THEN f[i - 1] ELSE Append(f[i - 1], s[i])]

LEMMA FiltersExists ==
  ASSUME NEW s \in Seq(Spns \cup {Blank}), NEW n \in Nat
  PROVE  \E f : Filters(s, f, n)
<1> DEFINE T == {k \in Nat : ~ \E f : Filters(s, f, k)}
<1>1. SUFFICES ASSUME T # {} PROVE FALSE
  OBVIOUS
<1>2. PICK k \in T : \A m \in T : ~(m < k)
  BY <1>1, NatMin
<1>3. k # 0
  <2>1. Filters(s, [i \in 0..0 |-> <<>>], 0) BY DEF Filters
  <2> QED BY <2>1
<1>4. k - 1 \in Nat /\ k - 1 < k /\ k - 1 \notin T
  BY <1>2, <1>3
<1>5. PICK f : Filters(s, f, k - 1)
  BY <1>4
<1> DEFINE Longer(h, i) == IF i = 0 THEN <<>>
                      ELSE IF s[i] = Blank THEN h[i - 1] ELSE Append(h[i - 1], s[i])
           g == [i \in 0..k |-> Longer(f, i)]
<1>6. k \in Nat
  OBVIOUS
<1>7. \A i \in 0 .. k - 1 : g[i] = f[i]
  <2>1. f = [i \in 0 .. k - 1 |-> Longer(f, i)] BY <1>5 DEF Filters
  <2>2. \A i \in 0 .. k - 1 : i \in 0 .. k BY <1>6
  <2> HIDE DEF Longer
  <2>3. \A i \in 0 .. k - 1 : f[i] = Longer(f, i) BY <2>1
  <2> QED BY <2>2, <2>3
<1>8. \A i \in 0..k : Longer(f, i) = Longer(g, i)
  <2> SUFFICES ASSUME NEW i \in 0..k, i # 0 PROVE f[i - 1] = g[i - 1] OBVIOUS
  <2> HIDE DEF g
  <2>1. i - 1 \in 0 .. k - 1 BY <1>6
  <2> QED BY <2>1, <1>7
<1>9. Filters(s, g, k)
  <2>1. g = [i \in 0..k |-> Longer(g, i)]
    <3> HIDE DEF Longer
    <3> QED BY <1>8
  <2> HIDE DEF g
  <2> QED BY <2>1 DEF Filters
<1> QED BY <1>9, <1>2

(* What is left of a list has no blank in it. *)
LEMMA CleanedType ==
  ASSUME NEW s \in Seq(Spns \cup {Blank})
  PROVE  Cleaned(s) \in Seq(Spns)
<1> DEFINE kept == CHOOSE f : Filters(s, f, Len(s))
           T == {i \in 0..Len(s) : kept[i] \notin Seq(Spns)}
<1>1. Filters(s, kept, Len(s))
  BY FiltersExists
<1>2. Cleaned(s) = kept[Len(s)]
  BY DEF Cleaned, Filters
<1>3. Len(s) \in Nat
  OBVIOUS
<1> HIDE DEF kept
<1>4. SUFFICES ASSUME T # {} PROVE FALSE
  <2>1. Len(s) \in 0..Len(s) BY <1>3
  <2> QED BY <1>2, <2>1
<1>5. PICK k \in T : \A m \in T : ~(m < k)
  <2>1. T \subseteq Nat OBVIOUS
  <2> HIDE DEF T
  <2> QED BY <1>4, <2>1, NatMin
<1>6. k \in 0..Len(s)
  OBVIOUS
<1>7. kept[k] = IF k = 0 THEN <<>>
                ELSE IF s[k] = Blank THEN kept[k - 1] ELSE Append(kept[k - 1], s[k])
  BY <1>1 DEF Filters
<1>8. k # 0
  <2>1. <<>> \in Seq(Spns) OBVIOUS
  <2>2. kept[k] \notin Seq(Spns) OBVIOUS
  <2> QED BY <1>7, <2>1, <2>2
<1>9. k - 1 \in 0..Len(s) /\ k - 1 < k
  BY <1>6, <1>8
<1>10. kept[k - 1] \in Seq(Spns)
  BY <1>5, <1>9
<1>11. s[k] \in Spns \cup {Blank}
  BY <1>6, <1>8
<1>12. kept[k] \in Seq(Spns)
  BY <1>7, <1>8, <1>10, <1>11, SpnAssumption
<1> QED BY <1>12

----------------------------------------------------------------------------
(* Chunks.                                                                 *)

(* Position r of chunk k is in chunk k. *)
LEMMA DivChunk ==
  ASSUME NEW k \in Nat, NEW S \in Nat \ {0}, NEW r \in 0 .. S - 1
  PROVE  (k * S + r) \div S = k
OBVIOUS

LEMMA DivBounds ==
  ASSUME NEW m \in Nat, NEW S \in Nat \ {0}
  PROVE  /\ m \div S \in Nat
         /\ (m \div S) * S <= m /\ m < (m \div S) * S + S
OBVIOUS

LEMMA ChunkFacts ==
  ASSUME TypeOK
  PROVE  /\ supplier \in Supplier /\ Size[supplier] \in Nat \ {0}
         /\ Len(cleaned) \in Nat /\ handled \in Nat /\ handled <= Len(cleaned)
         /\ DOMAIN cleaned = 1..Len(cleaned) /\ DOMAIN items = 1..handled
         /\ ChunkEnd \in Nat /\ handled <= ChunkEnd /\ ChunkEnd <= Len(cleaned)
         /\ ChunkEnd <= handled + Size[supplier]
         /\ handled < Len(cleaned) => handled < ChunkEnd
         /\ ChunkEnd < Len(cleaned) => ChunkEnd = handled + Size[supplier]
         /\ Chunk \subseteq DOMAIN cleaned
         /\ \A n \in Chunk : cleaned[n] \in Spns
BY SpnAssumption DEF TypeOK, ChunkEnd, Chunk, Smaller

(* The chunk at hand is the company of each of its numbers. *)
LEMMA ChunkIsMates ==
  ASSUME TypeOK, RequestBooks, phase \in {"chunk", "scrape", "store"}, NEW n \in Chunk
  PROVE  MateFails(n) <=> ChunkFails
<1>1. PICK k \in Nat : handled = k * Size[supplier]
  BY DEF RequestBooks, TypeOK
<1> DEFINE S == Size[supplier]
<1>2. S \in Nat \ {0} /\ handled \in Nat /\ Len(cleaned) \in Nat
  BY ChunkFacts
<1>3. \A m \in Chunk : ChunkStart(m) = handled
  <2> SUFFICES ASSUME NEW m \in Chunk PROVE ((m - 1) \div S) * S = handled
    BY DEF ChunkStart
  <2>1. m - 1 - handled \in 0 .. S - 1
    BY <1>2, ChunkFacts DEF Chunk
  <2>2. (k * S + (m - 1 - handled)) \div S = k
    BY <1>2, <2>1, DivChunk
  <2>3. k * S + (m - 1 - handled) = m - 1
    BY <1>1, <1>2, <2>1 DEF Chunk
  <2> QED BY <1>1, <2>2, <2>3
<1>4. \A m \in DOMAIN cleaned : ChunkStart(m) = handled => m \in Chunk
  <2> SUFFICES ASSUME NEW m \in DOMAIN cleaned, ((m - 1) \div S) * S = handled
               PROVE  m \in Chunk
    BY DEF ChunkStart
  <2>1. m \in 1..Len(cleaned)
    BY ChunkFacts
  <2>2. m - 1 \in handled .. handled + S - 1
    <3>1. m - 1 \in Nat BY <2>1
    <3> HIDE DEF S
    <3>2. ((m - 1) \div S) * S <= m - 1 /\ m - 1 < ((m - 1) \div S) * S + S
      BY <3>1, <1>2, DivBounds
    <3>3. handled <= m - 1 /\ m - 1 < handled + S
      BY <3>2
    <3> QED BY <3>1, <3>3, <1>2
  <2> QED BY <2>1, <2>2, <1>2, ChunkFacts DEF Chunk, ChunkEnd, Smaller
<1> QED BY <1>3, <1>4, ChunkFacts DEF MateFails, Mates, ChunkFails, ChunkSpns

----------------------------------------------------------------------------
(* What the suppliers would say does not change while they are asked.      *)
LEMMA WorldStays ==
  ASSUME UNCHANGED world
  PROVE  \A c : /\ Details(c)' = Details(c) /\ Alone(c)' = Alone(c) /\ FromPage(c)' = FromPage(c)
                /\ Answers(c)' = Answers(c) /\ SourceHas(c)' = SourceHas(c)
BY DEF world, Details, Alone, Enriched, FromApi, FromPage, Answers, SourceHas, ItemStatus

(* Whose word counts for a number. *)
LEMMA WhoAnswers ==
  ASSUME NEW c
  PROVE  /\ supplier # "jlcpcb" => api[c] \in Answers(c)
         /\ supplier \in {"jlcpcb", "jlcpcb_api"} => page[c] \in Answers(c)
         /\ \A a \in {"found", "unwritable", "respelled"} : a \in Answers(c) => SourceHas(c)
BY DEF Answers, SourceHas

(* What a page has is what it said, if it is anything. *)
LEMMA FromPageFacts ==
  ASSUME NEW c, supplier \in {"jlcpcb", "jlcpcb_api"}
  PROVE  /\ FromPage(c) \in {"part", "unwritable"} => SourceHas(c)
         /\ FromPage(c) \in {"unfit", "unwritable"} => FromPage(c) \in Answers(c)
         /\ FromPage(c) \in Parts
BY WhoAnswers DEF FromPage, Parts

(* A part spoilt or mended by its page was one of the two to begin with.   *)
LEMMA EnrichedFacts ==
  ASSUME NEW part, NEW added \in {"part", "unfit", "unwritable"}, NEW d \in Enriched(part, added),
         d \in {"unfit", "unwritable"}
  PROVE  part \in {"unfit", "unwritable"} \/ added \in {"unfit", "unwritable"}
BY DEF Enriched

----------------------------------------------------------------------------
(* Steps that add no item.                                                 *)
LEMMA ItemsStay ==
  ASSUME IInv, UNCHANGED <<world, cleaned, handled, items>>
  PROVE  /\ (\A n \in DOMAIN items : items[n].spn = cleaned[n])'
         /\ AgreesWithSingle' /\ FailuresStayInTheirChunk'
         /\ (\A n : MateFails(n)' = MateFails(n)) /\ (\A n : Excused(n)' = Excused(n))
         /\ Chunk' = Chunk
<1>1. \A c : Alone(c)' = Alone(c) /\ SourceHas(c)' = SourceHas(c) /\ Answers(c)' = Answers(c)
  BY WorldStays
<1> USE DEF world
<1>2. (\A n : MateFails(n)' = MateFails(n))
  BY DEF MateFails, Mates, ChunkStart
<1>3. \A n : Excused(n)' = Excused(n)
  BY <1>2 DEF Excused
<1>4. (\A n \in DOMAIN items : items[n].spn = cleaned[n])'
  BY DEF IInv, ItemsAligned
<1>5. AgreesWithSingle'
  BY <1>1, <1>2 DEF IInv, AgreesWithSingle
<1>6. FailuresStayInTheirChunk'
  BY <1>1, <1>2 DEF IInv, FailuresStayInTheirChunk
<1> QED BY <1>1, <1>2, <1>3, <1>4, <1>5, <1>6 DEF Chunk, ChunkEnd

----------------------------------------------------------------------------
(* Steps that store a chunk.  Fit(said, n): what is said of number n is    *)
(* what the properties allow.                                              *)
Fit(said, n) ==
  /\ said[n] \in ItemStatuses
  /\ said[n] \in Alone(cleaned[n]) \/ Excused(n)
  /\ said[n] = "ok" => SourceHas(cleaned[n])
  /\ said[n] = "provider_error" => MateFails(n) \/ "unfit" \in Answers(cleaned[n])

LEMMA ChunkStored ==
  ASSUME IInv, phase \in {"chunk", "store"}, UNCHANGED <<world, cleaned>>,
         NEW said, Store(said), \A n \in Chunk : Fit(said, n)
  PROVE  /\ phase' \in {"chunk", "finish"} /\ handled' = ChunkEnd /\ handled' > handled
         /\ DOMAIN items' = 1..ChunkEnd
         /\ \A n \in DOMAIN items : n \in DOMAIN items' /\ items'[n] = items[n]
         /\ \A n \in Chunk : n \in DOMAIN items' /\ items'[n].status = said[n]
         /\ items' \in [1..handled' -> [spn : Spns, status : ItemStatuses]]
         /\ ItemsAligned' /\ AgreesWithSingle' /\ FailuresStayInTheirChunk'
         /\ phase' = "chunk" => handled' < Len(cleaned) /\ \E k \in 0..handled' : handled' = k * Size[supplier]
         /\ phase' = "finish" => cleaned # <<>>
<1> USE DEF world
<1>1. TypeOK /\ RequestBooks
  BY DEF IInv
<1>2. handled \in Nat /\ ChunkEnd \in Nat /\ handled < ChunkEnd /\ ChunkEnd <= Len(cleaned)
        /\ DOMAIN items = 1..handled /\ Len(cleaned) \in Nat /\ handled < Len(cleaned)
  BY <1>1, ChunkFacts DEF RequestBooks
<1>3. \A n \in 1..ChunkEnd : n \in 1..handled \/ n \in Chunk
  BY <1>2 DEF Chunk
<1>4. /\ items' = [n \in 1..ChunkEnd |-> IF n <= handled THEN items[n]
                                          ELSE [spn |-> cleaned[n], status |-> said[n]]]
      /\ handled' = ChunkEnd
      /\ phase' = IF ChunkEnd = Len(cleaned) THEN "finish" ELSE "chunk"
  BY DEF Store
<1>5. DOMAIN items' = 1..ChunkEnd
  BY <1>4
<1>6. \A n \in 1..handled : n \in 1..ChunkEnd /\ items'[n] = items[n]
  BY <1>2, <1>4
<1>7. \A n \in Chunk : /\ n \in 1..ChunkEnd
                       /\ items'[n].spn = cleaned[n] /\ items'[n].status = said[n]
                       /\ items'[n] = [spn |-> cleaned[n], status |-> said[n]]
  <2> SUFFICES ASSUME NEW n \in Chunk
               PROVE  /\ n \in 1..ChunkEnd
                      /\ items'[n] = [spn |-> cleaned[n], status |-> said[n]]
    OBVIOUS
  <2> QED BY <1>2, <1>4 DEF Chunk
<1>8. items' \in [1..handled' -> [spn : Spns, status : ItemStatuses]]
  <2>1. \A n \in 1..handled : items[n] \in [spn : Spns, status : ItemStatuses]
    BY <1>1 DEF TypeOK
  <2>2. \A n \in Chunk : cleaned[n] \in Spns /\ said[n] \in ItemStatuses
    BY <1>1, ChunkFacts DEF Fit
  <2>3. \A n \in Chunk : items'[n] \in [spn : Spns, status : ItemStatuses]
    <3> SUFFICES ASSUME NEW n \in Chunk
                 PROVE  items'[n] \in [spn : Spns, status : ItemStatuses]
      OBVIOUS
    <3>1. items'[n] = [spn |-> cleaned[n], status |-> said[n]] BY <1>7
    <3> QED BY <2>2, <3>1
  <2>4. \A n \in 1..ChunkEnd : items'[n] \in [spn : Spns, status : ItemStatuses]
    BY <1>3, <1>6, <2>1, <2>3
  <2> QED BY <2>4, <1>4
<1>9. \A c : Alone(c)' = Alone(c) /\ SourceHas(c)' = SourceHas(c) /\ Answers(c)' = Answers(c)
  BY WorldStays
<1>10. (\A n : MateFails(n)' = MateFails(n))
  BY DEF MateFails, Mates, ChunkStart
<1>11. ItemsAligned'
  <2>1. \A n \in 1..ChunkEnd : items'[n].spn = cleaned[n]
    <3>1. \A n \in 1..handled : items[n].spn = cleaned[n]
      BY <1>2 DEF IInv, ItemsAligned
    <3> QED BY <1>3, <1>6, <1>7, <3>1
  <2>2. phase' = "finish" => Len(items') = Len(cleaned)
    BY <1>2, <1>4, <1>8
  <2>3. phase' # "answered"
    BY <1>4
  <2> QED BY <1>5, <2>1, <2>2, <2>3 DEF ItemsAligned
<1>12. AgreesWithSingle'
  <2>1. \A n \in 1..handled :
           items'[n].status \in Alone(cleaned[n]) \/ Excused(n)
    BY <1>2, <1>6 DEF IInv, AgreesWithSingle, Excused
  <2>2. \A n \in Chunk : items'[n].status \in Alone(cleaned[n]) \/ Excused(n)
    <3> SUFFICES ASSUME NEW n \in Chunk
                 PROVE  items'[n].status \in Alone(cleaned[n]) \/ Excused(n)
      OBVIOUS
    <3>1. Fit(said, n) /\ items'[n].status = said[n] BY <1>7
    <3> QED BY <3>1 DEF Fit
  <2> QED BY <1>3, <1>5, <1>9, <1>10, <2>1, <2>2 DEF AgreesWithSingle, Excused
<1>13. FailuresStayInTheirChunk'
  <2>1. \A n \in 1..handled :
           /\ items'[n].status = "ok" => SourceHas(cleaned[n])
           /\ items'[n].status = "provider_error" => MateFails(n) \/ "unfit" \in Answers(cleaned[n])
    BY <1>2, <1>6 DEF IInv, FailuresStayInTheirChunk
  <2>2. \A n \in Chunk :
           /\ items'[n].status = "ok" => SourceHas(cleaned[n])
           /\ items'[n].status = "provider_error" => MateFails(n) \/ "unfit" \in Answers(cleaned[n])
    <3> SUFFICES ASSUME NEW n \in Chunk
                 PROVE  /\ items'[n].status = "ok" => SourceHas(cleaned[n])
                        /\ items'[n].status = "provider_error" =>
                             MateFails(n) \/ "unfit" \in Answers(cleaned[n])
      OBVIOUS
    <3>1. Fit(said, n) /\ items'[n].status = said[n] BY <1>7
    <3> QED BY <3>1 DEF Fit
  <2> QED BY <1>3, <1>5, <1>9, <1>10, <2>1, <2>2 DEF FailuresStayInTheirChunk
<1>14. phase' = "chunk" => handled' < Len(cleaned) /\ \E k \in 0..handled' : handled' = k * Size[supplier]
  <2> SUFFICES ASSUME phase' = "chunk"
               PROVE  handled' < Len(cleaned) /\ \E k \in 0..handled' : handled' = k * Size[supplier]
    OBVIOUS
  <2>1. ChunkEnd < Len(cleaned)
    BY <1>2, <1>4
  <2>2. Size[supplier] \in Nat \ {0} /\ ChunkEnd = handled + Size[supplier]
    BY <1>1, <2>1, ChunkFacts
  <2>3. PICK k \in 0..handled : handled = k * Size[supplier]
    BY <1>1 DEF RequestBooks
  <2>4. k + 1 \in 0..ChunkEnd /\ ChunkEnd = (k + 1) * Size[supplier]
    BY <1>2, <2>2, <2>3
  <2> QED BY <1>4, <2>1, <2>4
<1>15. phase' = "finish" => cleaned # <<>>
  BY <1>2
<1>16. /\ \A n \in DOMAIN items : n \in DOMAIN items' /\ items'[n] = items[n]
       /\ \A n \in Chunk : n \in DOMAIN items' /\ items'[n].status = said[n]
  <2>1. \A n \in Chunk : n \in 1..ChunkEnd /\ items'[n].status = said[n] BY <1>7
  <2> QED BY <1>2, <1>5, <1>6, <2>1
<1>17. phase' \in {"chunk", "finish"} /\ handled' = ChunkEnd /\ handled' > handled
  BY <1>2, <1>4
<1> QED BY <1>5, <1>8, <1>11, <1>12, <1>13, <1>14, <1>15, <1>16, <1>17

----------------------------------------------------------------------------
(* Requests made of the supplier.                                          *)
Begun(h) == (h + Size[supplier] - 1) \div Size[supplier]

LEMMA Monotone ==
  ASSUME NEW S \in Nat \ {0}, NEW q \in Nat, NEW k \in Nat, q <= k
  PROVE  q * S <= k * S
OBVIOUS

(* The numbers of one more chunk are one more chunk begun. *)
LEMMA OneMoreBegun ==
  ASSUME TypeOK, RequestBooks, phase \in {"chunk", "store"}
  PROVE  /\ Begun(handled) \in Nat /\ Begun(ChunkEnd) \in Nat
         /\ Begun(ChunkEnd) >= Begun(handled) + 1
<1> DEFINE S == Size[supplier]
<1>1. PICK k \in Nat : handled = k * S
  BY DEF RequestBooks, TypeOK
<1>2. S \in Nat \ {0} /\ handled \in Nat /\ ChunkEnd \in Nat /\ handled < ChunkEnd
  BY ChunkFacts DEF RequestBooks
<1> HIDE DEF S
<1>3. (k * S + (S - 1)) \div S = k
  BY <1>2, DivChunk
<1>4. (handled + S - 1) \div S = k
  <2>1. k * S + (S - 1) = handled + S - 1
    BY <1>1, <1>2
  <2> QED BY <1>3, <2>1
<1> DEFINE q == (ChunkEnd + S - 1) \div S
<1>5. q \in Nat /\ ChunkEnd + S - 1 < q * S + S
  BY <1>2, DivBounds
<1> HIDE DEF q
<1>6. q >= k + 1
  <2> SUFFICES ASSUME q <= k PROVE FALSE
    BY <1>5
  <2>1. q * S <= k * S
    BY <1>2, <1>5, Monotone
  <2> QED BY <1>1, <1>2, <1>5, <2>1
<1> QED BY <1>4, <1>5, <1>6 DEF Begun, S, q

LEMMA ChunkCounted ==
  ASSUME TypeOK
  PROVE  /\ IsFiniteSet(Chunk) /\ Cardinality(Chunk) = ChunkEnd - handled
         /\ \A T \in SUBSET Chunk : /\ IsFiniteSet(T) /\ Cardinality(T) \in Nat
                                    /\ Cardinality(T) <= Cardinality(Chunk)
<1>1. handled \in Nat /\ ChunkEnd \in Nat /\ handled <= ChunkEnd
  BY ChunkFacts
<1>2. IsFiniteSet(Chunk) /\ Cardinality(Chunk) = ChunkEnd - handled
  <2>1. handled + 1 \in Int /\ ChunkEnd \in Int BY <1>1
  <2>2. /\ IsFiniteSet((handled + 1)..ChunkEnd)
        /\ Cardinality((handled + 1)..ChunkEnd) =
             IF handled + 1 > ChunkEnd THEN 0 ELSE ChunkEnd - (handled + 1) + 1
    BY <2>1, FS_Interval
  <2> QED BY <1>1, <2>2 DEF Chunk
<1>3. \A T \in SUBSET Chunk : IsFiniteSet(T) /\ Cardinality(T) <= Cardinality(Chunk)
  BY <1>2, FS_Subset
<1> QED BY <1>2, <1>3, FS_CardinalityType

LEMMA NothingToDo == Cardinality({}) = 0
BY FS_EmptySet

(* The bound, with its parts named. *)
LEMMA BoundIs ==
  UpstreamBounded <=>
    upstream + Cardinality(todo) <=
      handled + Begun(handled) + IF phase \in {"scrape", "store"} THEN Cardinality(Chunk) + 1 ELSE 0
BY DEF UpstreamBounded, Begun

(* A chunk is asked for by one request at most. *)
LEMMA AskedOnce ==
  ASSUME IInv, phase = "chunk", phase' \in {"scrape", "store"},
         UNCHANGED <<world, cleaned, handled>>,
         upstream' \in {upstream, upstream + 1}, todo' \subseteq Chunk
  PROVE  UpstreamBounded'
<1>1. TypeOK /\ RequestBooks /\ todo = {} /\ UpstreamBounded /\ upstream \in Nat
  BY DEF IInv, ChunkBooks, TypeOK
<1>2. upstream <= handled + Begun(handled)
  <2>1. handled \in Nat /\ Begun(handled) \in Nat BY <1>1, ChunkFacts, OneMoreBegun
  <2> QED BY <1>1, <2>1, BoundIs, NothingToDo
<1>3. Cardinality(todo') \in Nat /\ Cardinality(todo') <= Cardinality(Chunk) /\ Cardinality(Chunk) \in Nat
  BY <1>1, ChunkCounted
<1>4. handled \in Nat /\ Begun(handled) \in Nat
  BY <1>1, ChunkFacts, OneMoreBegun
<1>5. Chunk' = Chunk /\ Begun(handled)' = Begun(handled)
  BY DEF Chunk, ChunkEnd, Begun, world
<1>6. upstream' + Cardinality(todo') <= handled + Begun(handled) + (Cardinality(Chunk) + 1)
  BY <1>1, <1>2, <1>3, <1>4
<1> QED BY <1>5, <1>6 DEF UpstreamBounded, Begun

(* A chunk that is stored has paid for what it cost. *)
LEMMA StoredPaid ==
  ASSUME IInv, phase \in {"chunk", "store"}, UNCHANGED <<world, cleaned, todo>>,
         handled' = ChunkEnd, phase' \in {"chunk", "finish"},
         upstream' = IF phase = "chunk" THEN upstream + 1 ELSE upstream
  PROVE  UpstreamBounded'
<1>1. TypeOK /\ RequestBooks /\ todo = {} /\ UpstreamBounded /\ upstream \in Nat
  BY DEF IInv, ChunkBooks, TypeOK
<1>2. Cardinality(Chunk) = ChunkEnd - handled
  BY <1>1, ChunkCounted
<1>3. /\ handled \in Nat /\ ChunkEnd \in Nat /\ handled < ChunkEnd
      /\ Begun(handled) \in Nat /\ Begun(ChunkEnd) \in Nat
      /\ Begun(ChunkEnd) >= Begun(handled) + 1
  BY <1>1, ChunkFacts, OneMoreBegun DEF RequestBooks
<1>4. upstream <= handled + Begun(handled) + IF phase = "store" THEN Cardinality(Chunk) + 1 ELSE 0
  BY <1>1, BoundIs, NothingToDo
<1>5. upstream' <= ChunkEnd + Begun(ChunkEnd)
  <2>1. CASE phase = "chunk"
    BY <2>1, <1>1, <1>3, <1>4
  <2>2. CASE phase = "store"
    BY <2>2, <1>1, <1>2, <1>3, <1>4
  <2> QED BY <2>1, <2>2
<1>6. Begun(handled)' = Begun(ChunkEnd)
  BY DEF Begun, world
<1>7. upstream' + Cardinality(todo') = upstream'
  BY <1>1, NothingToDo
<1>8. (Begun(handled)' = (handled' + Size[supplier'] - 1) \div Size[supplier'])
  BY DEF Begun
<1>9. handled' + Begun(handled)' = ChunkEnd + Begun(ChunkEnd)
  BY <1>6
<1>10. handled' + Begun(handled)' + 0 = handled' + Begun(handled)'
  BY <1>3, <1>9
<1> QED BY <1>5, <1>7, <1>8, <1>9, <1>10 DEF UpstreamBounded

----------------------------------------------------------------------------
(* What is not touched while a request goes on.                            *)
LEMMA StillOpen ==
  ASSUME IInv, phase # "answered", phase' # "answered", UNCHANGED status
  PROVE  EnvelopeSpeaksForAll' /\ ServerErrorsHaveACause' /\ status' = "none"
<1>1. status' = "none"
  BY DEF IInv, RequestBooks
<1> QED BY <1>1 DEF EnvelopeSpeaksForAll, ServerErrorsHaveACause

(* A chunk goes from its request to its items, through the pages or not:   *)
(* the books that a step inside a chunk keeps.                             *)
LEMMA InsideChunk ==
  ASSUME IInv, phase \in {"chunk", "scrape"}, phase' \in {"scrape", "store"},
         UNCHANGED <<world, cleaned, handled, items, broken, status>>,
         got' \in [Spns -> Parts], todo' \subseteq Chunk, upstream' \in Nat, UpstreamBounded',
         phase' = "scrape" => supplier \in {"jlcpcb", "jlcpcb_api"},
         phase' = "store" => todo' = {},
         \A n \in Chunk : Known(n)'
  PROVE  IInv'
<1>1. /\ (\A n \in DOMAIN items : items[n].spn = cleaned[n])' /\ Chunk' = Chunk
      /\ AgreesWithSingle' /\ FailuresStayInTheirChunk'
  BY ItemsStay
<1>2. EnvelopeSpeaksForAll' /\ ServerErrorsHaveACause' /\ status' = "none"
  BY StillOpen
<1>3. TypeOK'
  <2>1. Chunk \subseteq DOMAIN cleaned BY ChunkFacts DEF IInv
  <2> QED BY <2>1 DEF IInv, TypeOK, world
<1>4. ItemsAligned'
  BY <1>1 DEF ItemsAligned
<1>5. RequestBooks'
  <2>1. \A c : Answers(c)' = Answers(c) BY WorldStays
  <2> QED BY <1>2, <2>1 DEF IInv, RequestBooks, world
<1>6. ChunkBooks'
  BY <1>1 DEF ChunkBooks, world
<1> QED BY <1>1, <1>2, <1>3, <1>4, <1>5, <1>6 DEF IInv

LEMMA FromChunkFacts ==
  ASSUME TypeOK, NEW kept
  PROVE  /\ FromChunk(kept) \in [Spns -> Parts]
         /\ \A c \in Spns : FromChunk(kept)[c] \in {"nothing", FromApi(c)}
         /\ \A c \in kept \cap Spns :
              \/ FromChunk(kept)[c] = FromApi(c)
              \/ supplier = "jlcpcb_api" /\ api[c] = "respelled"
         /\ \A c \in Spns : c \notin kept => FromChunk(kept)[c] = "nothing"
         /\ \A c \in Spns : FromApi(c) \in {"part", "unwritable"} /\ supplier # "jlcpcb" => SourceHas(c)
         /\ \A c \in Spns : FromApi(c) \in {"unfit", "unwritable"} /\ supplier # "jlcpcb" => FromApi(c) \in Answers(c)
         /\ \A c \in Spns : FromApi(c) \in Parts
<1>1. \A c \in Spns : api[c] \in Api
  BY DEF TypeOK
<1>2. \A c \in Spns : FromApi(c) \in Parts
  BY <1>1 DEF FromApi, Parts, Api
<1>3. \A c \in Spns : FromApi(c) \in {"part", "unwritable"} /\ supplier # "jlcpcb" => SourceHas(c)
  BY <1>1, WhoAnswers DEF FromApi, Api
<1>4. \A c \in Spns : FromApi(c) \in {"unfit", "unwritable"} /\ supplier # "jlcpcb" => FromApi(c) \in Answers(c)
  BY <1>1, WhoAnswers DEF FromApi, Api
<1>5. FromChunk(kept) \in [Spns -> Parts]
  BY <1>2 DEF FromChunk, Parts
<1> QED BY <1>2, <1>3, <1>4, <1>5 DEF FromChunk

(* Kept is everything the chunk asked for, unless its request failed.      *)
LEMMA KeptFacts ==
  ASSUME NEW kept \in Kept, ~ChunkFails
  PROVE  kept = ChunkSpns
BY DEF Kept

(* DigiKey, LCSC and Mouser. *)
LEMMA ChunkAnswersKeeps ==
  ASSUME IInv, ChunkAnswers
  PROVE  IInv'
<1>1. PICK kept \in Kept : got' = FromChunk(kept)
  BY DEF ChunkAnswers
<1>2. /\ phase = "chunk" /\ phase' = "store" /\ upstream' = upstream + 1
      /\ supplier \in {"mouser", "lcsc"} \/ (supplier = "digikey" /\ ~ChunkFails)
      /\ UNCHANGED <<world, cleaned, handled, todo, items, broken, status>>
  BY DEF ChunkAnswers
<1>3. TypeOK /\ RequestBooks /\ todo = {} /\ upstream \in Nat
  BY <1>2 DEF IInv, ChunkBooks, TypeOK
<1>4. UpstreamBounded'
  BY <1>2, <1>3, AskedOnce
<1>5. \A n \in Chunk : Known(n)'
  <2> SUFFICES ASSUME NEW n \in Chunk PROVE Known(n)'
    OBVIOUS
  <2> DEFINE c == cleaned[n]
  <2>1. c \in Spns /\ c \in ChunkSpns
    BY <1>3, ChunkFacts DEF ChunkSpns
  <2>2. got'[c] \in {"nothing", FromApi(c)}
    BY <1>1, <1>3, <2>1, FromChunkFacts
  <2>3. /\ Alone(c)' = Alone(c) /\ Excused(n)' = Excused(n) /\ SourceHas(c)' = SourceHas(c)
        /\ Answers(c)' = Answers(c)
    BY <1>2, ItemsStay, WorldStays
  <2>4. Details(c) = {got'[c]} \/ Excused(n)
    <3>1. CASE ChunkFails
      BY <1>2, <1>3, <3>1, ChunkIsMates DEF Excused
    <3>2. CASE ~ChunkFails
      <4>1. got'[c] = FromApi(c)
        BY <1>1, <1>2, <1>3, <2>1, <3>2, KeptFacts, FromChunkFacts
      <4>2. api[c] # "failed"
        BY <2>1, <3>2 DEF ChunkFails
      <4>3. Details(c) = {FromApi(c)}
        BY <1>2, <4>2 DEF Details
      <4> QED BY <4>1, <4>3
    <3> QED BY <3>1, <3>2
  <2>5. got'[c] \in {"part", "unwritable"} => SourceHas(c)
    BY <1>2, <1>3, <2>1, <2>2, FromChunkFacts
  <2>6. got'[c] \in {"unfit", "unwritable"} => got'[c] \in Answers(c)
    BY <1>2, <1>3, <2>1, <2>2, FromChunkFacts
  <2>7. todo' = {} /\ cleaned' = cleaned
    BY <1>2, <1>3
  <2> HIDE DEF c
  <2>8. ItemStatus(got'[c]) \in Alone(c) \/ Excused(n)
    BY <2>4 DEF Alone
  <2> QED BY <2>3, <2>5, <2>6, <2>7, <2>8 DEF Known, c, ItemStatus
<1>6. got' \in [Spns -> Parts]
  BY <1>1, <1>3, FromChunkFacts
<1> QED BY <1>2, <1>3, <1>4, <1>5, <1>6, InsideChunk

(* JLCPCB: what the API has is kept, the rest goes to the pages.           *)
LEMMA ThenScrapeKeeps ==
  ASSUME IInv, phase = "chunk", NEW kept, ThenScrape(kept),
         upstream' \in {upstream, upstream + 1},
         \/ supplier = "jlcpcb" /\ kept = {}
         \/ supplier = "jlcpcb_api" /\ (~ChunkFails => kept = ChunkSpns)
  PROVE  IInv'
<1>1. /\ got' = FromChunk(kept) /\ todo' = {n \in Chunk : got'[cleaned[n]] = "nothing"}
      /\ phase' = IF todo' = {} THEN "store" ELSE "scrape"
      /\ UNCHANGED <<world, cleaned, handled, items, broken, status>>
  BY DEF ThenScrape
<1>2. TypeOK /\ RequestBooks /\ upstream' \in Nat
  BY DEF IInv, TypeOK
<1>3. todo' \subseteq Chunk
  BY <1>1
<1>4. UpstreamBounded'
  BY <1>1, <1>2, <1>3, AskedOnce
<1>5. \A n \in Chunk : Known(n)'
  <2> SUFFICES ASSUME NEW n \in Chunk PROVE Known(n)'
    OBVIOUS
  <2> DEFINE c == cleaned[n]
  <2>1. c \in Spns /\ c \in ChunkSpns
    BY <1>2, ChunkFacts DEF ChunkSpns
  <2>2. got'[c] \in {"nothing", FromApi(c)} /\ (c \notin kept => got'[c] = "nothing")
    BY <1>1, <1>2, <2>1, FromChunkFacts
  <2>3. /\ Details(c)' = Details(c) /\ Alone(c)' = Alone(c) /\ Excused(n)' = Excused(n)
        /\ SourceHas(c)' = SourceHas(c) /\ Answers(c)' = Answers(c)
        /\ FromPage(c)' = FromPage(c) /\ cleaned' = cleaned
    BY <1>1, ItemsStay, WorldStays
  <2>4. n \in todo' <=> got'[c] = "nothing"
    BY <1>1
  <2>5. CASE supplier = "jlcpcb"
    <3>1. kept = {} /\ got'[c] = "nothing"
      BY <2>2, <2>5
    <3>2. FromPage(c) \in Details(c)
      BY <2>5 DEF Details
    <3> HIDE DEF c
    <3> QED BY <2>3, <2>4, <3>1, <3>2 DEF Known, c
  <2>6. CASE supplier = "jlcpcb_api"
    <3>1. Excused(n) \/ got'[c] = FromApi(c)
      <4>1. CASE ChunkFails
        BY <1>2, <4>1, ChunkIsMates DEF Excused
      <4>2. CASE ~ChunkFails
        <5>1. c \in kept \cap Spns BY <2>1, <2>6, <4>2
        <5> QED BY <1>1, <1>2, <5>1, FromChunkFacts DEF Excused
      <4> QED BY <4>1, <4>2
    <3>2. /\ FromApi(c) = "nothing" => FromPage(c) \in Details(c)
          /\ FromApi(c) # "nothing" => FromApi(c) \in Details(c)
      <4>1. FromApi(c) \in Parts
        BY <1>2, <2>1, FromChunkFacts
      <4> QED BY <2>6, <4>1 DEF Details, Enriched, Parts
    <3>3. got'[c] \in {"part", "unwritable"} => SourceHas(c)
      BY <1>2, <2>1, <2>2, <2>6, FromChunkFacts
    <3>4. got'[c] \in {"unfit", "unwritable"} => got'[c] \in Answers(c)
      BY <1>2, <2>1, <2>2, <2>6, FromChunkFacts
    <3> HIDE DEF c
    <3>5. n \in todo' => FromPage(c) \in Details(c) \/ Excused(n)
      BY <2>4, <3>1, <3>2
    <3>6. n \notin todo' => ItemStatus(got'[c]) \in Alone(c) \/ Excused(n)
      BY <2>4, <3>1, <3>2 DEF Alone
    <3> QED BY <2>3, <3>3, <3>4, <3>5, <3>6 DEF Known, c, ItemStatus
  <2> QED BY <2>5, <2>6
<1>6. got' \in [Spns -> Parts]
  BY <1>1, <1>2, FromChunkFacts
<1> QED BY <1>1, <1>2, <1>3, <1>4, <1>5, <1>6, InsideChunk

LEMMA AskApiKeeps ==
  ASSUME IInv, AskApi \/ ApiFails \/ SkipApi
  PROVE  IInv'
<1>1. upstream \in Nat
  BY DEF IInv, TypeOK
<1>2. CASE AskApi
  BY <1>1, <1>2, ThenScrapeKeeps DEF AskApi
<1>3. CASE ApiFails
  BY <1>1, <1>3, ThenScrapeKeeps DEF ApiFails
<1>4. CASE SkipApi
  BY <1>1, <1>4, ThenScrapeKeeps DEF SkipApi
<1> QED BY <1>2, <1>3, <1>4

(* One page, for one of the numbers that still have nothing.               *)
LEMMA ScrapeKeeps ==
  ASSUME IInv, Scrape
  PROVE  IInv'
<1>1. PICK m \in todo : /\ todo' = todo \ {m}
                        /\ got' = [got EXCEPT ![cleaned[m]] = FromPage(cleaned[m])]
  BY DEF Scrape
<1>2. /\ phase = "scrape" /\ upstream' = upstream + 1
      /\ phase' = IF todo' = {} THEN "store" ELSE "scrape"
      /\ UNCHANGED <<world, cleaned, handled, items, broken, status>>
  BY DEF Scrape
<1>3. /\ TypeOK /\ RequestBooks /\ todo \subseteq Chunk /\ upstream \in Nat /\ UpstreamBounded
      /\ supplier \in {"jlcpcb", "jlcpcb_api"} /\ \A n \in Chunk : Known(n)
  BY <1>2 DEF IInv, ChunkBooks, TypeOK
<1>4. m \in Chunk /\ cleaned[m] \in Spns /\ todo' \subseteq Chunk
  BY <1>1, <1>3, ChunkFacts
<1>5. UpstreamBounded'
  <2>1. IsFiniteSet(todo) /\ Cardinality(todo) \in Nat
    BY <1>3, ChunkCounted
  <2>2. Cardinality(todo') = Cardinality(todo) - 1
    BY <1>1, <2>1, FS_RemoveElement
  <2>3. Chunk' = Chunk /\ Size[supplier]' = Size[supplier]
    BY <1>2 DEF Chunk, ChunkEnd, world
  <2>4. upstream' + Cardinality(todo') = upstream + Cardinality(todo)
    BY <1>2, <1>3, <2>1, <2>2
  <2> QED BY <1>2, <1>3, <2>3, <2>4 DEF UpstreamBounded
<1>6. got' \in [Spns -> Parts]
  BY <1>1, <1>3, FromPageFacts DEF TypeOK
<1>7. \A n \in Chunk : Known(n)'
  <2> SUFFICES ASSUME NEW n \in Chunk PROVE Known(n)'
    OBVIOUS
  <2> DEFINE c == cleaned[n]
  <2>1. c \in Spns /\ Known(n) /\ Known(m)
    BY <1>3, <1>4, ChunkFacts
  <2>2. /\ Details(c)' = Details(c) /\ Alone(c)' = Alone(c) /\ Excused(n)' = Excused(n)
        /\ SourceHas(c)' = SourceHas(c) /\ Answers(c)' = Answers(c)
        /\ FromPage(c)' = FromPage(c) /\ cleaned' = cleaned
    BY <1>2, ItemsStay, WorldStays
  <2>3. CASE c # cleaned[m]
    <3>1. got'[c] = got[c] /\ (n \in todo' <=> n \in todo)
      BY <1>1, <1>3, <2>1, <2>3 DEF TypeOK
    <3> HIDE DEF c
    <3> QED BY <2>1, <2>2, <3>1 DEF Known, c, ItemStatus
  <2>4. CASE c = cleaned[m]
    <3>1. got'[c] = FromPage(c)
      BY <1>1, <1>3, <1>4, <2>4 DEF TypeOK
    <3>2. Excused(n) <=> Excused(m)
      BY <1>2, <1>3, <1>4, <2>4, ChunkIsMates DEF Excused
    <3>3. FromPage(c) \in Details(c) \/ Excused(n)
      BY <1>1, <2>1, <2>4, <3>2 DEF Known
    <3>4. /\ got'[c] \in {"part", "unwritable"} => SourceHas(c)
          /\ got'[c] \in {"unfit", "unwritable"} => got'[c] \in Answers(c)
      BY <1>3, <3>1, FromPageFacts
    <3> HIDE DEF c
    <3>5. ItemStatus(got'[c]) \in Alone(c) \/ Excused(n)
      BY <3>1, <3>3 DEF Alone
    <3> QED BY <2>2, <3>1, <3>3, <3>4, <3>5 DEF Known, c, ItemStatus
  <2> QED BY <2>3, <2>4
<1>8. upstream' \in Nat /\ phase' \in {"scrape", "store"} /\ (phase' = "store" => todo' = {})
  BY <1>2, <1>3
<1> QED BY <1>2, <1>3, <1>4, <1>5, <1>6, <1>7, <1>8, InsideChunk

----------------------------------------------------------------------------
(* The items of a chunk join the answer: what the two ways to store one    *)
(* have in common.                                                         *)
LEMMA AfterChunk ==
  ASSUME IInv, phase \in {"chunk", "store"}, UNCHANGED <<world, cleaned, todo, status>>,
         NEW said, Store(said), \A n \in Chunk : Fit(said, n),
         upstream' = IF phase = "chunk" THEN upstream + 1 ELSE upstream,
         got' \in [Spns -> Parts], broken' \in BOOLEAN,
         broken' => broken \/ \E n \in Chunk : said[n] = "ok" /\ "unwritable" \in Answers(cleaned[n])
  PROVE  IInv'
<1>1. /\ phase' \in {"chunk", "finish"} /\ handled' = ChunkEnd
      /\ \A n \in DOMAIN items : n \in DOMAIN items' /\ items'[n] = items[n]
      /\ \A n \in Chunk : n \in DOMAIN items' /\ items'[n].status = said[n]
      /\ items' \in [1..handled' -> [spn : Spns, status : ItemStatuses]]
      /\ ItemsAligned' /\ AgreesWithSingle' /\ FailuresStayInTheirChunk'
      /\ phase' = "chunk" => handled' < Len(cleaned) /\ \E k \in 0..handled' : handled' = k * Size[supplier]
      /\ phase' = "finish" => cleaned # <<>>
  BY ChunkStored
<1>2. TypeOK /\ RequestBooks /\ todo = {}
  BY DEF IInv, ChunkBooks
<1>3. EnvelopeSpeaksForAll' /\ ServerErrorsHaveACause' /\ status' = "none"
  BY <1>1, StillOpen
<1>4. UpstreamBounded'
  BY <1>1, StoredPaid
<1>5. TypeOK'
  <2>1. handled' \in 0..Len(cleaned)
    BY <1>1, <1>2, ChunkFacts
  <2> QED BY <1>1, <1>2, <2>1 DEF TypeOK, world
<1>6. RequestBooks'
  <2>1. broken' => \E n \in DOMAIN items' : items'[n].status = "ok" /\ "unwritable" \in Answers(cleaned[n])
    <3>1. CASE broken
      <4>1. PICK n \in DOMAIN items : items[n].status = "ok" /\ "unwritable" \in Answers(cleaned[n])
        BY <1>2, <3>1 DEF RequestBooks
      <4> QED BY <1>1, <4>1
    <3>2. CASE broken' /\ ~broken
      <4>1. PICK n \in Chunk : said[n] = "ok" /\ "unwritable" \in Answers(cleaned[n])
        BY <3>2
      <4> QED BY <1>1, <4>1
    <3> QED BY <3>1, <3>2
  <2>2. \A c : Answers(c)' = Answers(c)
    BY WorldStays DEF world
  <2> QED BY <1>1, <1>3, <2>1, <2>2 DEF RequestBooks, world
<1>7. ChunkBooks'
  BY <1>1, <1>2 DEF ChunkBooks
<1> QED BY <1>1, <1>3, <1>4, <1>5, <1>6, <1>7 DEF IInv

(* An exception costs the numbers of its own chunk. *)
LEMMA ChunkRaisesKeeps ==
  ASSUME IInv, ChunkRaises
  PROVE  IInv'
<1>1. /\ phase = "chunk" /\ ChunkFails /\ upstream' = upstream + 1
      /\ Store([n \in Chunk |-> ItemStatus("raised")])
      /\ UNCHANGED <<world, cleaned, got, todo, broken, status>>
  BY DEF ChunkRaises
<1>2. TypeOK /\ RequestBooks
  BY DEF IInv
<1> DEFINE said == [n \in Chunk |-> ItemStatus("raised")]
<1>3. \A n \in Chunk : said[n] = "provider_error" /\ MateFails(n)
  BY <1>1, <1>2, ChunkIsMates DEF ItemStatus
<1> HIDE DEF said
<1>4. \A n \in Chunk : Fit(said, n)
  BY <1>3 DEF Fit, Excused, ItemStatuses
<1>5. Store(said)
  BY <1>1 DEF said
<1>6. got' \in [Spns -> Parts] /\ broken' \in BOOLEAN /\ broken' = broken
  BY <1>1, <1>2 DEF TypeOK
<1> QED BY <1>1, <1>4, <1>5, <1>6, AfterChunk

(* An answered chunk: each number has an item of its own. *)
LEMMA StoreChunkKeeps ==
  ASSUME IInv, StoreChunk
  PROVE  IInv'
<1> DEFINE said == [n \in Chunk |-> ItemStatus(got[cleaned[n]])]
<1>1. /\ phase = "store" /\ Store(said) /\ got' = Nothing
      /\ broken' = (broken \/ \E n \in Chunk : got[cleaned[n]] = "unwritable")
      /\ UNCHANGED <<world, cleaned, todo, upstream, status>>
  BY DEF StoreChunk
<1>2. TypeOK /\ todo = {} /\ \A n \in Chunk : Known(n)
  BY <1>1 DEF IInv, ChunkBooks
<1>3. \A n \in Chunk : said[n] = ItemStatus(got[cleaned[n]])
  OBVIOUS
<1> HIDE DEF said
<1>4. ASSUME NEW n \in Chunk PROVE Fit(said, n)
  <2> DEFINE part == got[cleaned[n]]
  <2>1. part \in Parts
    BY <1>2, ChunkFacts DEF TypeOK
  <2>2. /\ ItemStatus(part) \in Alone(cleaned[n]) \/ Excused(n)
        /\ part \in {"part", "unwritable"} => SourceHas(cleaned[n])
        /\ part \in {"unfit", "unwritable"} => part \in Answers(cleaned[n])
    BY <1>2 DEF Known
  <2>3. said[n] = ItemStatus(part)
    BY <1>3
  <2> HIDE DEF part
  <2>4. /\ ItemStatus(part) \in ItemStatuses
        /\ ItemStatus(part) = "ok" => part \in {"part", "unwritable"}
        /\ ItemStatus(part) = "provider_error" => part = "unfit"
    BY <2>1 DEF ItemStatus, Parts, ItemStatuses
  <2> QED BY <2>2, <2>3, <2>4 DEF Fit
<1>5. broken' => broken \/ \E n \in Chunk : said[n] = "ok" /\ "unwritable" \in Answers(cleaned[n])
  <2> SUFFICES ASSUME NEW n \in Chunk, got[cleaned[n]] = "unwritable"
               PROVE  said[n] = "ok" /\ "unwritable" \in Answers(cleaned[n])
    BY <1>1
  <2>1. said[n] = ItemStatus("unwritable")
    BY <1>3
  <2>2. "unwritable" \in Answers(cleaned[n])
    BY <1>2 DEF Known
  <2> QED BY <2>1, <2>2 DEF ItemStatus
<1>6. got' \in [Spns -> Parts] /\ broken' \in BOOLEAN
  BY <1>1, <1>2 DEF Nothing, Parts, TypeOK
<1> QED BY <1>1, <1>4, <1>5, <1>6, AfterChunk

----------------------------------------------------------------------------
(* The ends of a request.                                                  *)

(* A status that is not partial is the only one; partial means two. *)
LEMMA BatchStatusSays ==
  ASSUME NEW said \in SUBSET ItemStatuses, said # {}
  PROVE  /\ BatchStatus(said) \in ItemStatuses => said = {BatchStatus(said)}
         /\ BatchStatus(said) = "partial" => \E a, b \in said : a # b
         /\ BatchStatus(said) \in ItemStatuses \cup {"partial"}
<1>1. PICK a \in said : TRUE
  OBVIOUS
<1>2. CASE said = {a}
  <2>1. Cardinality(said) = 1
    BY <1>2, FS_Singleton
  <2>2. (CHOOSE st \in said : TRUE) \in said
    BY <1>1
  <2>3. BatchStatus(said) = a
    BY <1>2, <2>1, <2>2 DEF BatchStatus
  <2> QED BY <1>2, <2>3 DEF ItemStatuses
<1>3. CASE said # {a}
  <2>1. Cardinality(said) # 1
    <3>1. IsFiniteSet({"ok", "not_found", "provider_error"})
      <4>1. IsFiniteSet({"ok"}) BY FS_Singleton
      <4>2. IsFiniteSet({"ok"} \cup {"not_found"}) BY <4>1, FS_AddElement
      <4>3. IsFiniteSet(({"ok"} \cup {"not_found"}) \cup {"provider_error"}) BY <4>2, FS_AddElement
      <4>4. ({"ok"} \cup {"not_found"}) \cup {"provider_error"} = {"ok", "not_found", "provider_error"} OBVIOUS
      <4> QED BY <4>3, <4>4
    <3>2. IsFiniteSet(said)
      BY <3>1, FS_Subset DEF ItemStatuses
    <3>3. \A x : said # {x}
      BY <1>1, <1>3
    <3> QED BY <3>2, <3>3, FS_Singleton
  <2>2. BatchStatus(said) = "partial"
    BY <2>1 DEF BatchStatus
  <2> QED BY <1>1, <1>3, <2>2 DEF ItemStatuses
<1> QED BY <1>2, <1>3

LEMMA FinishKeeps ==
  ASSUME IInv, Finish
  PROVE  IInv'
<1> DEFINE said == {items[n].status : n \in DOMAIN items}
<1>1. /\ phase = "finish" /\ phase' = "answered"
      /\ status' = IF broken THEN "http_500" ELSE BatchStatus(said)
      /\ UNCHANGED <<world, cleaned, handled, got, todo, items, broken, upstream>>
  BY DEF Finish
<1>2. /\ TypeOK /\ RequestBooks /\ todo = {} /\ cleaned # <<>> /\ Len(items) = Len(cleaned)
  BY <1>1 DEF IInv, ChunkBooks, RequestBooks, ItemsAligned
<1>3. DOMAIN items = 1..handled /\ DOMAIN cleaned = 1..Len(cleaned) /\ Len(cleaned) \in Nat /\ handled \in Nat
  BY <1>2, ChunkFacts
<1>4. handled = Len(cleaned) /\ DOMAIN items = DOMAIN cleaned
  <2>1. Len(items) = handled
    BY <1>2, <1>3 DEF TypeOK
  <2> QED BY <1>2, <1>3, <2>1
<1>5. said \in SUBSET ItemStatuses /\ said # {}
  <2>1. \A n \in DOMAIN items : items[n].status \in ItemStatuses
    BY <1>2 DEF TypeOK
  <2>2. 1 \in DOMAIN items
    <3>1. Len(cleaned) # 0 BY <1>2 DEF TypeOK
    <3> QED BY <1>3, <1>4, <3>1
  <2> QED BY <2>1, <2>2
<1>6. \A n \in DOMAIN cleaned : items[n].status \in said
  BY <1>4
<1>7. \A a \in said : \E n \in DOMAIN cleaned : items[n].status = a
  BY <1>4
<1> HIDE DEF said
<1>8. /\ BatchStatus(said) \in ItemStatuses => said = {BatchStatus(said)}
      /\ BatchStatus(said) = "partial" => \E a, b \in said : a # b
      /\ BatchStatus(said) \in ItemStatuses \cup {"partial"}
  BY <1>5, BatchStatusSays
<1>9. EnvelopeSpeaksForAll'
  <2>1. status' \in ItemStatuses => \A n \in DOMAIN cleaned : items[n].status = status'
    BY <1>1, <1>6, <1>8 DEF ItemStatuses
  <2>2. status' = "partial" => \E m, n \in DOMAIN cleaned : items[m].status # items[n].status
    <3> SUFFICES ASSUME status' = "partial"
                 PROVE  \E m, n \in DOMAIN cleaned : items[m].status # items[n].status
      OBVIOUS
    <3>1. PICK a \in said, b \in said : a # b
      BY <1>1, <1>8
    <3> QED BY <1>7, <3>1
  <2> QED BY <1>1, <2>1, <2>2 DEF EnvelopeSpeaksForAll
<1>10. ServerErrorsHaveACause'
  <2>1. status' = "http_500" => broken
    BY <1>1, <1>8 DEF ItemStatuses
  <2>2. \A c : Answers(c)' = Answers(c)
    BY <1>1, WorldStays
  <2> QED BY <1>1, <1>2, <2>1, <2>2 DEF ServerErrorsHaveACause, RequestBooks
<1>11. AgreesWithSingle' /\ FailuresStayInTheirChunk'
  BY <1>1, ItemsStay
<1>12. ItemsAligned'
  BY <1>1, <1>2 DEF IInv, ItemsAligned
<1>13. UpstreamBounded'
  BY <1>1 DEF IInv, UpstreamBounded, world
<1>14. TypeOK'
  <2>1. status' \in Statuses BY <1>1, <1>8 DEF Statuses
  <2> QED BY <1>1, <1>2, <2>1 DEF TypeOK, world
<1>15. RequestBooks' /\ ChunkBooks'
  <2>1. Chunk' = Chunk BY <1>1 DEF Chunk, ChunkEnd, world
  <2>2. \A c : Answers(c)' = Answers(c)
    BY <1>1, WorldStays
  <2> QED BY <1>1, <1>2, <2>1, <2>2 DEF RequestBooks, ChunkBooks, world
<1> QED BY <1>9, <1>10, <1>11, <1>12, <1>13, <1>14, <1>15 DEF IInv

(* A request that has not begun. *)
LEMMA IdleFacts ==
  ASSUME IInv, phase = "idle"
  PROVE  /\ cleaned = <<>> /\ handled = 0 /\ todo = {} /\ status = "none" /\ DOMAIN items = {}
         /\ TypeOK /\ UpstreamBounded /\ (broken => FALSE)
<1>1. cleaned = <<>> /\ todo = {} /\ status = "none" /\ TypeOK /\ UpstreamBounded
  BY DEF IInv, RequestBooks, ChunkBooks
<1>2. handled = 0 /\ DOMAIN items = {}
  BY <1>1 DEF TypeOK
<1>3. broken => FALSE
  BY <1>2 DEF IInv, RequestBooks
<1> QED BY <1>1, <1>2, <1>3

(* A single lookup, or none for want of an adapter. *)
LEMMA AnsweredAtOnceKeeps ==
  ASSUME IInv, NoAdapter \/ \E c \in Spns : LookupOne(c)
  PROVE  IInv'
<1>1. /\ phase = "idle" /\ phase' = "answered" /\ status' \in Statuses
      /\ UNCHANGED <<world, cleaned, handled, got, todo, items, broken, upstream>>
  BY DEF NoAdapter, LookupOne, Statuses, ItemStatuses
<1>2. /\ cleaned = <<>> /\ handled = 0 /\ todo = {} /\ DOMAIN items = {}
      /\ TypeOK /\ UpstreamBounded /\ (broken => FALSE)
  BY <1>1, IdleFacts
<1>3. ServerErrorsHaveACause'
  <2> SUFFICES ASSUME status' = "http_500"
               PROVE  \E c \in Spns : Answers(c) \cap {"unfit", "unwritable"} # {}
    BY <1>1, <1>2, WorldStays DEF ServerErrorsHaveACause
  <2>1. PICK c \in Spns : LookupOne(c)
    BY DEF NoAdapter
  <2>2. PICK d \in Details(c) : d \notin {"raised", "nothing", "part"}
    BY <2>1 DEF LookupOne
  <2>3. FromApi(c) \in Parts
    BY <1>2, FromChunkFacts
  <2>4. CASE d = FromApi(c) /\ supplier # "jlcpcb"
    <3>1. FromApi(c) \in {"unfit", "unwritable"}
      BY <2>2, <2>3, <2>4 DEF Parts
    <3> QED BY <1>2, <2>4, <3>1, FromChunkFacts
  <2>5. CASE d = FromPage(c) /\ supplier \in {"jlcpcb", "jlcpcb_api"}
    <3>1. FromPage(c) \in {"unfit", "unwritable"}
      BY <2>2, <2>5, FromPageFacts DEF Parts
    <3> QED BY <2>5, <3>1, FromPageFacts
  <2>6. CASE supplier = "jlcpcb_api" /\ d \in Enriched(FromApi(c), FromPage(c)) /\ FromPage(c) # "nothing"
    <3>1. FromPage(c) \in {"part", "unfit", "unwritable"}
      BY <2>6, FromPageFacts DEF Parts
    <3>2. d \in {"unfit", "unwritable"}
      BY <2>2, <2>6 DEF Enriched
    <3>3. FromApi(c) \in {"unfit", "unwritable"} \/ FromPage(c) \in {"unfit", "unwritable"}
      BY <2>6, <3>1, <3>2, EnrichedFacts
    <3> QED BY <1>2, <2>6, <3>3, FromChunkFacts, FromPageFacts
  <2>7. \/ d = FromApi(c) /\ supplier # "jlcpcb"
        \/ d = FromPage(c) /\ supplier \in {"jlcpcb", "jlcpcb_api"}
        \/ supplier = "jlcpcb_api" /\ d \in Enriched(FromApi(c), FromPage(c)) /\ FromPage(c) # "nothing"
    BY <2>2 DEF Details
  <2> QED BY <2>4, <2>5, <2>6, <2>7
<1>4. EnvelopeSpeaksForAll'
  BY <1>1, <1>2 DEF EnvelopeSpeaksForAll
<1>5. AgreesWithSingle' /\ FailuresStayInTheirChunk'
  BY <1>1, ItemsStay
<1>6. ItemsAligned'
  <2>1. items' = items /\ Len(items) = 0
    BY <1>1, <1>2 DEF TypeOK
  <2>2. Len(cleaned) = 0
    BY <1>2
  <2> QED BY <1>1, <1>2, <2>1, <2>2 DEF ItemsAligned
<1>7. UpstreamBounded'
  <2>1. Chunk' = Chunk BY <1>1 DEF Chunk, ChunkEnd, world
  <2> QED BY <1>1, <1>2, <2>1 DEF UpstreamBounded, world
<1>8. TypeOK'
  BY <1>1, <1>2 DEF TypeOK, world
<1>9. RequestBooks' /\ ChunkBooks'
  BY <1>1, <1>2 DEF RequestBooks, ChunkBooks
<1> QED BY <1>3, <1>4, <1>5, <1>6, <1>7, <1>8, <1>9 DEF IInv

(* A batch arrives. *)
LEMMA ReceiveKeeps ==
  ASSUME IInv, NEW spns \in Requests, Receive(spns)
  PROVE  IInv'
<1>1. /\ phase = "idle" /\ cleaned' = Cleaned(spns)
      /\ IF cleaned' = <<>> THEN phase' = "answered" /\ status' = "not_found"
         ELSE phase' = "chunk" /\ status' = status
      /\ UNCHANGED <<world, handled, got, todo, items, broken, upstream>>
  BY DEF Receive
<1>2. /\ handled = 0 /\ todo = {} /\ DOMAIN items = {} /\ status = "none" /\ cleaned = <<>>
      /\ TypeOK /\ UpstreamBounded /\ (broken => FALSE)
  BY <1>1, IdleFacts
<1>3. cleaned' \in Seq(Spns)
  <2>1. spns \in Seq(Spns \cup {Blank}) BY SpnAssumption
  <2> QED BY <1>1, <2>1, CleanedType
<1>4. TypeOK'
  <2>1. 0 \in 0..Len(cleaned')
    BY <1>3
  <2>2. items' \in [1..handled' -> [spn : Spns, status : ItemStatuses]]
    BY <1>1, <1>2 DEF TypeOK
  <2> QED BY <1>1, <1>2, <1>3, <2>1, <2>2 DEF TypeOK, Statuses, ItemStatuses, world
<1>5. ItemsAligned'
  <2>1. items' = items /\ Len(items) = 0
    BY <1>1, <1>2 DEF TypeOK
  <2>2. phase' = "answered" => Len(cleaned') = 0
    BY <1>1
  <2> QED BY <1>1, <1>2, <2>1, <2>2 DEF ItemsAligned
<1>6. AgreesWithSingle' /\ FailuresStayInTheirChunk'
  BY <1>1, <1>2 DEF AgreesWithSingle, FailuresStayInTheirChunk
<1>7. EnvelopeSpeaksForAll' /\ ServerErrorsHaveACause'
  BY <1>1, <1>2 DEF EnvelopeSpeaksForAll, ServerErrorsHaveACause
<1>8. UpstreamBounded'
  BY <1>1, <1>2 DEF UpstreamBounded, world
<1>9. RequestBooks'
  <2>1. Size[supplier] \in Nat \ {0}
    BY <1>2, ChunkFacts
  <2>2. 0 \in 0..handled' /\ handled' = 0 * Size[supplier']
    BY <1>1, <1>2, <2>1 DEF world
  <2>3. phase' = "chunk" => handled' < Len(cleaned')
    BY <1>1, <1>2, <1>3
  <2> QED BY <1>1, <1>2, <2>2, <2>3 DEF RequestBooks
<1>10. ChunkBooks'
  BY <1>1, <1>2 DEF ChunkBooks
<1> QED BY <1>4, <1>5, <1>6, <1>7, <1>8, <1>9, <1>10 DEF IInv

----------------------------------------------------------------------------
LEMMA InitBooks ==
  ASSUME Init
  PROVE  IInv
<1>1. /\ phase = "idle" /\ cleaned = <<>> /\ handled = 0 /\ todo = {} /\ items = <<>>
      /\ broken = FALSE /\ upstream = 0 /\ status = "none" /\ supplier \in Suppliers
  BY DEF Init
<1>2. TypeOK
  <2>1. got \in [Spns -> Parts] BY DEF Init, Nothing, Parts
  <2>2. items \in [1..0 -> [spn : Spns, status : ItemStatuses]] BY <1>1
  <2>3. cleaned \in Seq(Spns) /\ Len(cleaned) = 0 BY <1>1
  <2>4. handled \in 0..Len(cleaned) /\ todo \subseteq DOMAIN cleaned BY <1>1
  <2>5. items \in [1..handled -> [spn : Spns, status : ItemStatuses]] BY <1>1, <2>2
  <2>6. api \in [Spns -> Api] /\ page \in [Spns -> Page] BY DEF Init
  <2>7. status \in Statuses /\ upstream \in Nat /\ broken \in BOOLEAN
    BY <1>1 DEF Statuses, ItemStatuses
  <2> QED BY <1>1, <2>1, <2>3, <2>4, <2>5, <2>6, <2>7 DEF TypeOK
<1>3. ItemsAligned /\ AgreesWithSingle /\ FailuresStayInTheirChunk /\ EnvelopeSpeaksForAll
  BY <1>1 DEF ItemsAligned, AgreesWithSingle, FailuresStayInTheirChunk, EnvelopeSpeaksForAll
<1>4. UpstreamBounded
  <2>1. Size[supplier] \in Nat \ {0}
    BY <1>2, ChunkFacts
  <2>2. (0 + Size[supplier] - 1) \div Size[supplier] \in Nat
    BY <2>1, DivBounds
  <2> QED BY <1>1, <2>2, NothingToDo DEF UpstreamBounded
<1>5. ServerErrorsHaveACause /\ RequestBooks /\ ChunkBooks
  BY <1>1 DEF ServerErrorsHaveACause, RequestBooks, ChunkBooks
<1> QED BY <1>2, <1>3, <1>4, <1>5 DEF IInv

LEMMA StepBooks ==
  ASSUME IInv, [Next]_vars
  PROVE  IInv'
<1>1. CASE NoAdapter \/ \E c \in Spns : LookupOne(c)
  BY <1>1, AnsweredAtOnceKeeps
<1>2. CASE \E spns \in Requests : Receive(spns)
  BY <1>2, ReceiveKeeps
<1>3. CASE ChunkRaises
  BY <1>3, ChunkRaisesKeeps
<1>4. CASE ChunkAnswers
  BY <1>4, ChunkAnswersKeeps
<1>5. CASE AskApi \/ ApiFails \/ SkipApi
  BY <1>5, AskApiKeeps
<1>6. CASE Scrape
  BY <1>6, ScrapeKeeps
<1>7. CASE StoreChunk
  BY <1>7, StoreChunkKeeps
<1>8. CASE Finish
  BY <1>8, FinishKeeps
<1>9. CASE UNCHANGED vars
  <2>1. UNCHANGED <<phase, world, cleaned, handled, got, todo, items, broken, upstream, status>>
    BY <1>9 DEF vars
  <2>2. /\ AgreesWithSingle' /\ FailuresStayInTheirChunk' /\ Chunk' = Chunk
        /\ \A n : Excused(n)' = Excused(n)
        /\ \A c : /\ SourceHas(c)' = SourceHas(c) /\ Details(c)' = Details(c) /\ Alone(c)' = Alone(c)
                  /\ Answers(c)' = Answers(c) /\ FromPage(c)' = FromPage(c)
    BY <2>1, ItemsStay, WorldStays
  <2>3. TypeOK' /\ ItemsAligned' /\ EnvelopeSpeaksForAll' /\ ServerErrorsHaveACause' /\ RequestBooks'
    BY <2>1, <2>2 DEF IInv, TypeOK, ItemsAligned, EnvelopeSpeaksForAll, ServerErrorsHaveACause,
                RequestBooks, world
  <2>4. UpstreamBounded'
    BY <2>1, <2>2 DEF IInv, UpstreamBounded, world
  <2>5. ChunkBooks'
    BY <2>1, <2>2 DEF IInv, ChunkBooks, Known, ItemStatus, world
  <2> QED BY <2>2, <2>3, <2>4, <2>5 DEF IInv
<1> QED BY <1>1, <1>2, <1>3, <1>4, <1>5, <1>6, <1>7, <1>8, <1>9 DEF Next

(* The books of a request hold at every step, for any batch, any size of   *)
(* chunk and whatever the supplier says of each number. (spn.py:49-184)    *)
THEOREM Inductive == Spec => []IInv
<1>1. Init => IInv
  BY InitBooks
<1>2. IInv /\ [Next]_vars => IInv'
  BY StepBooks
<1> QED BY <1>1, <1>2, PTL DEF Spec

(* Every variable keeps its type; no blank number is ever asked for.       *)
(* (spn.py:130)                                                            *)
THEOREM TypeCorrect == Spec => []TypeOK
BY Inductive, PTL DEF IInv

(* Item n of an answer is about number n of the batch. (spn.py:137-172)    *)
THEOREM ItemsInOrder == Spec => []ItemsAligned
BY Inductive, PTL DEF IInv

(* A batch finds what single lookups find. (spn.py:49-106 and 137-172,     *)
(* jlc.py:241-345)                                                         *)
THEOREM BatchAgrees == Spec => []AgreesWithSingle
BY Inductive, PTL DEF IInv

(* A failed chunk costs its own numbers only. (spn.py:144-172)             *)
THEOREM FailuresContained == Spec => []FailuresStayInTheirChunk
BY Inductive, PTL DEF IInv

(* The status of an envelope is true of all its items. (spn.py:36-46)      *)
THEOREM EnvelopeSpeaks == Spec => []EnvelopeSpeaksForAll
BY Inductive, PTL DEF IInv

(* A batch costs a request for each chunk begun and one for each number at *)
(* most. (jlc.py:300-345)                                                  *)
THEOREM CostBounded == Spec => []UpstreamBounded
BY Inductive, PTL DEF IInv

(* An HTTP 500 has its cause in a part of this lookup. (spn.py:87-106 and  *)
(* 157-182)                                                                *)
THEOREM ServerErrorsExplained == Spec => []ServerErrorsHaveACause
BY Inductive, PTL DEF IInv

----------------------------------------------------------------------------
(* How far a request is from its answer.  The endpoint has no timeout, so  *)
(* that it answers rests on each step bringing it nearer: another chunk    *)
(* done, a later phase of the same chunk, one page less to fetch.          *)
Rank == [chunk |-> 4, scrape |-> 3, store |-> 2, finish |-> 1, answered |-> 0]

Nearer ==
  \/ phase = "idle" /\ phase' # "idle"
  \/ /\ phase # "idle" /\ cleaned' = cleaned
     /\ \/ handled < handled' /\ handled' <= Len(cleaned)
        \/ handled' = handled /\ Rank[phase'] < Rank[phase]
        \/ handled' = handled /\ phase' = phase /\ Cardinality(todo') < Cardinality(todo)

ItemsKept == \A n \in DOMAIN items : n \in DOMAIN items' /\ items'[n] = items[n]

LEMMA StoreNearer ==
  ASSUME IInv, phase \in {"chunk", "store"}, UNCHANGED <<world, cleaned>>, NEW said, Store(said)
  PROVE  Nearer /\ ItemsKept
<1>1. handled < Len(cleaned)
  BY DEF IInv, RequestBooks
<1>2. /\ handled < ChunkEnd /\ ChunkEnd <= Len(cleaned) /\ ChunkEnd \in Nat /\ handled \in Nat
      /\ DOMAIN items = 1..handled
  BY <1>1, ChunkFacts DEF IInv
<1>3. Nearer
  BY <1>2 DEF Nearer, Store
<1>4. ItemsKept
  <2>1. items' = [n \in 1..ChunkEnd |->
                    IF n <= handled THEN items[n] ELSE [spn |-> cleaned[n], status |-> said[n]]]
    BY DEF Store
  <2>2. 1..handled \subseteq 1..ChunkEnd /\ \A n \in 1..handled : n <= handled
    BY <1>2
  <2> QED BY <1>2, <2>1, <2>2 DEF ItemsKept
<1> QED BY <1>3, <1>4

LEMMA ScrapeNearer ==
  ASSUME IInv, Scrape
  PROVE  Nearer
<1>1. PICK n \in todo : todo' = todo \ {n}
  BY DEF Scrape
<1>2. IsFiniteSet(todo)
  <2>1. todo \subseteq 1..Len(cleaned) /\ Len(cleaned) \in Nat
    BY ChunkFacts DEF IInv, TypeOK
  <2>2. IsFiniteSet(1..Len(cleaned))
    BY <2>1, FS_Interval
  <2> QED BY <2>1, <2>2, FS_Subset
<1>3. Cardinality(todo') < Cardinality(todo)
  <2>1. /\ Cardinality(todo) \in Nat /\ Cardinality(todo') \in Nat
        /\ Cardinality(todo') = Cardinality(todo) - 1
    BY <1>1, <1>2, FS_RemoveElement, FS_CardinalityType
  <2> QED BY <2>1
<1>4. /\ phase = "scrape" /\ phase' \in {"store", "scrape"} /\ handled' = handled
      /\ cleaned' = cleaned
  BY DEF Scrape
<1> QED BY <1>3, <1>4 DEF Nearer, Rank

LEMMA StepsAreNearer ==
  ASSUME IInv, Next
  PROVE  Nearer /\ ItemsKept
<1>1. CASE NoAdapter \/ \E c \in Spns : LookupOne(c)
  BY <1>1 DEF NoAdapter, LookupOne, Nearer, ItemsKept
<1>2. CASE \E spns \in Requests : Receive(spns)
  BY <1>2 DEF Receive, Nearer, ItemsKept
<1>3. CASE ChunkRaises
  BY <1>3, StoreNearer DEF ChunkRaises
<1>4. CASE ChunkAnswers
  <2>1. /\ phase = "chunk" /\ phase' = "store"
        /\ UNCHANGED <<cleaned, handled, items>>
    BY <1>4 DEF ChunkAnswers
  <2> QED BY <2>1 DEF Nearer, Rank, ItemsKept
<1>5. CASE AskApi \/ ApiFails \/ SkipApi
  <2>1. phase = "chunk" /\ \E kept : ThenScrape(kept)
    BY <1>5 DEF AskApi, ApiFails, SkipApi
  <2>2. phase' \in {"store", "scrape"} /\ UNCHANGED <<cleaned, handled, items>>
    BY <2>1 DEF ThenScrape
  <2> QED BY <2>1, <2>2 DEF Nearer, Rank, ItemsKept
<1>6. CASE Scrape
  <2>1. items' = items
    BY <1>6 DEF Scrape
  <2> QED BY <1>6, <2>1, ScrapeNearer DEF ItemsKept
<1>7. CASE StoreChunk
  BY <1>7, StoreNearer DEF StoreChunk
<1>8. CASE Finish
  <2>1. /\ phase = "finish" /\ phase' = "answered"
        /\ UNCHANGED <<cleaned, handled, items>>
    BY <1>8 DEF Finish
  <2> QED BY <2>1 DEF Nearer, Rank, ItemsKept
<1> QED BY <1>1, <1>2, <1>3, <1>4, <1>5, <1>6, <1>7, <1>8 DEF Next

(* Every request is answered after finitely many steps, whatever fails on  *)
(* the way: a failed chunk, and a failed page, are left behind like any    *)
(* other. (spn.py:137-184, jlc.py:300-345)                                 *)
THEOREM RequestsEnd == Spec => [][Nearer]_vars
<1>1. IInv /\ [Next]_vars => [Nearer]_vars
  BY StepsAreNearer
<1> QED BY <1>1, Inductive, PTL DEF Spec

(* An item that is in the answer is not changed by what becomes of later   *)
(* chunks. (spn.py:137-172)                                                *)
THEOREM ItemsAreFinal == Spec => [][ItemsKept]_vars
<1>1. IInv /\ [Next]_vars => [ItemsKept]_vars
  BY StepsAreNearer
<1> QED BY <1>1, Inductive, PTL DEF Spec
=============================================================================
