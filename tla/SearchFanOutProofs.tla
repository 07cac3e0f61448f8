------------------------- MODULE SearchFanOutProofs -------------------------
(***************************************************************************)
(* Theorems of SearchFanOut for any number of calls and suppliers, lists   *)
(* of any length up to the bound, any window and any pool.                 *)
(***************************************************************************)
EXTENDS SearchFanOut, FiniteSetTheorems, TLAPS

USE DEF Calls

(* One step, by the action it is. *)
LEMMA NextCases ==
  ASSUME Next
  PROVE  \/ \E c \in Calls, l \in Lists : Begin(c, l)
         \/ \E c \in Calls : Pull(c)
         \/ \E c \in Calls, i \in Positions, a \in Answer : Collect(c, i, a)
         \/ \E c \in Calls : Return(c)
         \/ \E c \in Calls : Drop(c)
         \/ \E r \in Requests : Refuse(r)
         \/ \E r \in Requests : Serve(r)
         \/ \E r \in Requests, a \in Answers : Respond(r, a)
<1>1. \A c \in Calls, i \in Positions : Arrives(c, i) =>
        \E a \in Answer : Collect(c, i, a)
  BY DEF Arrives
<1>2. \A c \in Calls, i \in Positions : GivesUp(c, i) =>
        \E a \in Answer : Collect(c, i, a)
  BY DEF GivesUp, Answer
<1> QED BY <1>1, <1>2 DEF Next

(* Every list asked for is a sequence of suppliers no longer than the bound. *)
LEMMA ListsAreSequences ==
  ASSUME NEW l \in Lists \cup {<<>>, Defaults}
  PROVE  /\ l \in Seq(Names)
         /\ Len(l) \in 0..MaxList
         /\ \A i \in 1..Len(l) : l[i] \in Names
<1>1. <<>> \in Seq(Names) /\ Len(<<>>) = 0
  OBVIOUS
<1>2. l \in Seq(Names) /\ Len(l) <= MaxList
  <2>1. CASE l = <<>>
    BY <1>1, <2>1, FanOutAssumption
  <2>2. CASE l \in Lists \cup {Defaults}
    BY <2>2, FanOutAssumption
  <2> QED BY <2>1, <2>2
<1>3. Len(l) \in Nat /\ \A i \in 1..Len(l) : l[i] \in Names
  BY <1>2
<1> QED BY <1>2, <1>3, FanOutAssumption

LEMMA ListType ==
  ASSUME TypeOK, NEW c \in Calls
  PROVE  /\ list[c] \in Seq(Names)
         /\ Len(list[c]) \in 0..MaxList
         /\ \A i \in 1..Len(list[c]) : list[c][i] \in Names
BY ListsAreSequences DEF TypeOK

(* What enters the map is a result. *)
LEMMA ToldIsResult ==
  ASSUME NEW c, NEW a \in Answer
  PROVE  Told(c, a) \in Results /\ Told(c, a) # Nothing
BY DEF Told, Answer, Results, Nothing

(* The window is a finite set. *)
LEMMA FlightFinite ==
  ASSUME TypeOK, NEW c \in Calls
  PROVE  IsFiniteSet(flight[c]) /\ Cardinality(flight[c]) \in Nat
<1>1. IsFiniteSet(1..MaxList)
  BY FS_Interval, FanOutAssumption
<1>2. flight[c] \subseteq 1..MaxList
  BY DEF TypeOK, Positions
<1> QED BY <1>1, <1>2, FS_Subset, FS_CardinalityType

-----------------------------------------------------------------------------
LEMMA InitIInv == Init => IInv
<1> SUFFICES ASSUME Init PROVE IInv
  OBVIOUS
<1>1. TypeOK
  BY FanOutAssumption DEF Init, TypeOK
<1>2. WindowBooks
  <2>1. Cardinality({}) = 0
    BY FS_EmptySet
  <2>2. \A c \in Calls : WindowOf(c) >= 0
    BY FanOutAssumption DEF WindowOf, Init
  <2>3. \A c \in Calls, i \in Positions : <<c, i>> \in Requests
    BY DEF Requests
  <2> QED BY <2>1, <2>2, <2>3, FanOutAssumption DEF Init, WindowBooks, Positions
<1>3. ResultsAreAnswers
  BY DEF Init, ResultsAreAnswers
<1>4. EndBooks
  BY DEF Init, EndBooks
<1> QED BY <1>1, <1>2, <1>3, <1>4 DEF IInv

-----------------------------------------------------------------------------
LEMMA BeginStep ==
  ASSUME IInv, NEW c \in Calls, NEW l \in Lists, Begin(c, l)
  PROVE  IInv'
<1> USE DEF IInv
<1>0. Targets(c, l) \in Lists \cup {<<>>, Defaults}
  BY DEF Targets
<1>1. TypeOK'
  BY <1>0 DEF TypeOK, Begin
<1>2. /\ pulled[c] = 0 /\ flight[c] = {}
      /\ \A s \in Names : results[c][s] = Nothing
  BY DEF EndBooks, Begin
<1>3. WindowBooks'
  <2> SUFFICES ASSUME NEW d \in Calls
               PROVE  /\ pulled'[d] <= Len(list'[d])
                      /\ flight'[d] \subseteq 1..pulled'[d]
                      /\ Cardinality(flight'[d]) <= WindowOf(d)'
                      /\ phase'[d] \in {"running", "returned"} =>
                           \A i \in 1..pulled'[d] :
                             i \in flight'[d] \/ results'[d][list'[d][i]] # Nothing
                      /\ \A i \in Positions : i > pulled'[d] => work'[<<d, i>>] = "none"
    BY DEF WindowBooks
  <2>1. CASE d = c
    <3>1. Len(list'[c]) \in Nat
      BY <1>1, ListType, FanOutAssumption DEF TypeOK, Begin, Targets
    <3>2. WindowOf(c)' >= 0
      BY <3>1, FanOutAssumption DEF WindowOf
    <3>3. Cardinality({}) = 0
      BY FS_EmptySet
    <3>4. \A i \in Positions : i > pulled[c] => work[<<c, i>>] = "none"
      BY DEF WindowBooks
    <3> QED BY <2>1, <1>2, <3>1, <3>2, <3>3, <3>4 DEF Begin
  <2>2. CASE d # c
    BY <2>2 DEF WindowBooks, Begin, TypeOK, WindowOf
  <2> QED BY <2>1, <2>2
<1>4. ResultsAreAnswers'
  <2> SUFFICES ASSUME NEW d \in Calls, NEW s \in Names, results'[d][s] # Nothing
               PROVE  \E i \in 1..pulled'[d] :
                        /\ list'[d][i] = s
                        /\ results'[d][s] \in {Told(d, "no_envelope")} \cup
                             (IF work'[<<d, i>>] \in Answer
                              THEN {Told(d, work'[<<d, i>>])} ELSE {})
    BY DEF ResultsAreAnswers
  <2>1. d # c /\ results' = results /\ pulled' = pulled /\ work' = work /\ list'[d] = list[d]
    BY <1>2 DEF Begin, TypeOK
  <2> QED BY <2>1 DEF ResultsAreAnswers
<1>5. EndBooks'
  BY DEF EndBooks, Begin, TypeOK
<1> QED BY <1>1, <1>3, <1>4, <1>5

LEMMA PullStep ==
  ASSUME IInv, NEW c \in Calls, Pull(c)
  PROVE  IInv'
<1> DEFINE next == pulled[c] + 1
<1> USE DEF IInv
<1>0. /\ pulled[c] \in Nat /\ next <= Len(list[c]) /\ next \in 1..MaxList
      /\ Len(list[c]) \in Nat /\ MaxList \in Nat
      /\ Cardinality(flight[c]) < WindowOf(c)
  BY ListType, FanOutAssumption DEF Pull, WindowHasRoom, TypeOK
<1>1. /\ pulled' = [pulled EXCEPT ![c] = next]
      /\ flight' = [flight EXCEPT ![c] = @ \cup {next}]
      /\ work' \in {work, [work EXCEPT ![<<c, next>>] = "waiting"]}
      /\ UNCHANGED <<phase, list, results>>
      /\ phase[c] = "running"
  BY DEF Pull, TypeOK
<1> HIDE DEF next
<1>2. <<c, next>> \in Requests /\ next \in Positions
  BY <1>0 DEF Requests, Positions
<1>3. TypeOK'
  <2>1. work' \in [Requests -> {"none", "waiting", "running"} \cup Answer]
    BY <1>1, <1>2 DEF TypeOK
  <2>2. pulled' \in [Calls -> 0..MaxList]
    BY <1>0, <1>1 DEF TypeOK
  <2> QED BY <1>1, <1>2, <2>1, <2>2 DEF TypeOK
<1>4. next \notin flight[c] /\ work[<<c, next>>] = "none"
  BY <1>0, <1>2 DEF WindowBooks, next, Positions
<1>5. WindowBooks'
  <2> SUFFICES ASSUME NEW d \in Calls
               PROVE  /\ pulled'[d] <= Len(list'[d])
                      /\ flight'[d] \subseteq 1..pulled'[d]
                      /\ Cardinality(flight'[d]) <= WindowOf(d)'
                      /\ phase'[d] \in {"running", "returned"} =>
                           \A i \in 1..pulled'[d] :
                             i \in flight'[d] \/ results'[d][list'[d][i]] # Nothing
                      /\ \A i \in Positions : i > pulled'[d] => work'[<<d, i>>] = "none"
    BY DEF WindowBooks
  <2>1. CASE d = c
    <3>1. Cardinality(flight[c] \cup {next}) = Cardinality(flight[c]) + 1
      BY <1>4, FlightFinite, FS_AddElement
    <3>2. Cardinality(flight'[c]) <= WindowOf(c)'
      <4>1. WindowOf(c)' = WindowOf(c) /\ WindowOf(c) \in Nat
        BY <1>0, <1>1, FanOutAssumption DEF WindowOf
      <4>2. flight'[c] = flight[c] \cup {next}
        BY <1>1 DEF TypeOK
      <4> QED BY <4>1, <4>2, <3>1, <1>0, FlightFinite
    <3>3. pulled'[c] = next /\ flight'[c] = flight[c] \cup {next}
      BY <1>1 DEF TypeOK
    <3>4. flight'[c] \subseteq 1..pulled'[c]
      BY <3>3, <1>0 DEF WindowBooks, next
    <3>5. \A i \in 1..next : i \in flight'[c] \/ results[c][list[c][i]] # Nothing
      <4> SUFFICES ASSUME NEW i \in 1..next, i # next
                   PROVE  i \in flight'[c] \/ results[c][list[c][i]] # Nothing
        BY <3>3
      <4>1. i \in 1..pulled[c]
        BY <1>0 DEF next
      <4>2. i \in flight[c] \/ results[c][list[c][i]] # Nothing
        BY <4>1, <1>1 DEF WindowBooks
      <4> QED BY <4>2, <3>3
    <3>6. \A i \in Positions : i > next => work'[<<c, i>>] = "none"
      <4> SUFFICES ASSUME NEW i \in Positions, i > next
                   PROVE  work'[<<c, i>>] = "none"
        OBVIOUS
      <4>1. <<c, i>> \in Requests /\ <<c, i>> # <<c, next>>
        BY <1>0 DEF Requests, Positions, next
      <4>2. work[<<c, i>>] = "none"
        BY <1>0 DEF WindowBooks, next, Positions
      <4> QED BY <4>1, <4>2, <1>1 DEF TypeOK
    <3> QED BY <2>1, <3>2, <3>3, <3>4, <3>5, <3>6, <1>0, <1>1
  <2>2. CASE d # c
    <3>1. pulled'[d] = pulled[d] /\ flight'[d] = flight[d] /\ list' = list
      BY <2>2, <1>1 DEF TypeOK
    <3>2. \A i \in Positions : work'[<<d, i>>] = work[<<d, i>>]
      BY <2>2, <1>1 DEF TypeOK, Requests
    <3> QED BY <3>1, <3>2, <1>1 DEF WindowBooks, WindowOf
  <2> QED BY <2>1, <2>2
<1>6. ResultsAreAnswers'
  <2> SUFFICES ASSUME NEW d \in Calls, NEW s \in Names, results'[d][s] # Nothing
               PROVE  \E i \in 1..pulled'[d] :
                        /\ list'[d][i] = s
                        /\ results'[d][s] \in {Told(d, "no_envelope")} \cup
                             (IF work'[<<d, i>>] \in Answer
                              THEN {Told(d, work'[<<d, i>>])} ELSE {})
    BY DEF ResultsAreAnswers
  <2>1. PICK i \in 1..pulled[d] :
          /\ list[d][i] = s
          /\ results[d][s] \in {Told(d, "no_envelope")} \cup
               (IF work[<<d, i>>] \in Answer
                THEN {Told(d, work[<<d, i>>])} ELSE {})
    BY <1>1 DEF ResultsAreAnswers
  <2>2. i \in 1..pulled'[d]
    BY <1>0, <1>1 DEF TypeOK, next
  <2>3. work[<<d, i>>] \in Answer => work'[<<d, i>>] = work[<<d, i>>]
    <3>1. "none" \notin Answer
      BY DEF Answer
    <3>2. i \in Positions
      BY FanOutAssumption DEF TypeOK, Positions
    <3> QED BY <3>1, <3>2, <1>1, <1>4 DEF TypeOK, Requests
  <2> QED BY <2>1, <2>2, <2>3, <1>1
<1>7. EndBooks'
  BY <1>1 DEF EndBooks, TypeOK
<1> QED BY <1>3, <1>5, <1>6, <1>7

LEMMA CollectStep ==
  ASSUME IInv, NEW c \in Calls, NEW i \in Positions, NEW a \in Answer,
         Collect(c, i, a), Told(c, a) = Told(c, "no_envelope") \/ a = work[<<c, i>>]
  PROVE  IInv'
<1> USE DEF IInv
<1> DEFINE s == list[c][i]
<1>1. /\ flight' = [flight EXCEPT ![c] = @ \ {i}]
      /\ results' = [results EXCEPT ![c][s] = Told(c, a)]
      /\ UNCHANGED <<phase, list, pulled, work>>
      /\ phase[c] = "running" /\ i \in flight[c]
  BY DEF Collect
<1>2. /\ i \in 1..pulled[c] /\ i \in 1..Len(list[c]) /\ s \in Names
      /\ pulled[c] \in Nat
  <2>1. pulled[c] \in Nat /\ pulled[c] <= Len(list[c]) /\ i \in 1..pulled[c]
    BY <1>1 DEF WindowBooks, TypeOK
  <2> QED BY <2>1, ListType
<1>3. Told(c, a) \in Results /\ Told(c, a) # Nothing
  BY ToldIsResult
<1> HIDE DEF s
<1>4. /\ results'[c][s] = Told(c, a)
      /\ \A t \in Names : t # s => results'[c][t] = results[c][t]
      /\ \A d \in Calls : d # c => results'[d] = results[d] /\ flight'[d] = flight[d]
      /\ flight'[c] = flight[c] \ {i}
  BY <1>1, <1>2 DEF TypeOK
<1>5. TypeOK'
  BY <1>1, <1>2, <1>3 DEF TypeOK
<1>6. WindowBooks'
  <2> SUFFICES ASSUME NEW d \in Calls
               PROVE  /\ pulled[d] <= Len(list[d])
                      /\ flight'[d] \subseteq 1..pulled[d]
                      /\ Cardinality(flight'[d]) <= WindowOf(d)
                      /\ phase[d] \in {"running", "returned"} =>
                           \A j \in 1..pulled[d] :
                             j \in flight'[d] \/ results'[d][list[d][j]] # Nothing
                      /\ \A j \in Positions : j > pulled[d] => work[<<d, j>>] = "none"
    BY <1>1 DEF WindowBooks, WindowOf
  <2>1. CASE d = c
    <3>1. Cardinality(flight'[c]) <= WindowOf(c)
      <4>1. Cardinality(flight[c] \ {i}) = Cardinality(flight[c]) - 1
        BY <1>1, FlightFinite, FS_RemoveElement
      <4>2. Cardinality(flight[c]) <= WindowOf(c) /\ WindowOf(c) \in Nat
        BY ListType, FanOutAssumption DEF WindowBooks, WindowOf
      <4> QED BY <4>1, <4>2, <1>4, FlightFinite
    <3>2. ASSUME NEW j \in 1..pulled[c], j \notin flight'[c]
          PROVE  results'[c][list[c][j]] # Nothing
      <4>1. list[c][j] \in Names
        <5>1. j \in 1..Len(list[c])
          BY <1>2, ListType DEF WindowBooks
        <5> QED BY <5>1, ListType
      <4>2. j = i \/ j \notin flight[c]
        BY <3>2, <1>4
      <4>3. j \notin flight[c] => results[c][list[c][j]] # Nothing
        BY <1>1 DEF WindowBooks
      <4> QED BY <4>1, <4>2, <4>3, <1>3, <1>4 DEF s
    <3> QED BY <2>1, <3>1, <3>2, <1>4 DEF WindowBooks
  <2>2. CASE d # c
    BY <2>2, <1>4 DEF WindowBooks
  <2> QED BY <2>1, <2>2
<1>7. ResultsAreAnswers'
  <2> SUFFICES ASSUME NEW d \in Calls, NEW t \in Names, results'[d][t] # Nothing
               PROVE  \E j \in 1..pulled'[d] :
                        /\ list'[d][j] = t
                        /\ results'[d][t] \in {Told(d, "no_envelope")} \cup
                             (IF work'[<<d, j>>] \in Answer
                              THEN {Told(d, work'[<<d, j>>])} ELSE {})
    BY DEF ResultsAreAnswers
  <2>1. CASE d = c /\ t = s
    <3>1. i \in 1..pulled'[d] /\ list'[d][i] = t
      BY <2>1, <1>1, <1>2 DEF s
    <3>2. results'[d][t] \in {Told(d, "no_envelope")} \cup
            (IF work'[<<d, i>>] \in Answer THEN {Told(d, work'[<<d, i>>])} ELSE {})
      BY <2>1, <1>1, <1>4
    <3> QED BY <3>1, <3>2
  <2>2. CASE ~(d = c /\ t = s)
    <3>1. results'[d][t] = results[d][t]
      BY <2>2, <1>4
    <3>2. PICK j \in 1..pulled[d] :
            /\ list[d][j] = t
            /\ results[d][t] \in {Told(d, "no_envelope")} \cup
                 (IF work[<<d, j>>] \in Answer
                  THEN {Told(d, work[<<d, j>>])} ELSE {})
      BY <3>1 DEF ResultsAreAnswers
    <3>3. UNCHANGED <<pulled, list, work>>
      BY <1>1
    <3> QED BY <3>1, <3>2, <3>3
  <2> QED BY <2>1, <2>2
<1>8. EndBooks'
  BY <1>1, <1>4 DEF EndBooks
<1> QED BY <1>5, <1>6, <1>7, <1>8

(* A call that ends disturbs nothing but its own phase and window. *)
LEMMA EndStep ==
  ASSUME IInv, NEW c \in Calls, Return(c) \/ Drop(c)
  PROVE  IInv'
<1> USE DEF IInv
<1>1. /\ phase[c] = "running"
      /\ UNCHANGED <<list, pulled, results, work>>
      /\ \/ /\ phase' = [phase EXCEPT ![c] = "returned"]
            /\ flight' = flight
            /\ pulled[c] = Len(list[c]) /\ flight[c] = {}
         \/ /\ phase' = [phase EXCEPT ![c] = "dropped"]
            /\ flight' = [flight EXCEPT ![c] = {}]
  BY DEF Return, Drop
<1>2. TypeOK'
  BY <1>1 DEF TypeOK
<1>3. WindowBooks'
  <2>1. \A d \in Calls : Cardinality({}) <= WindowOf(d)
    BY ListType, FanOutAssumption, FS_EmptySet DEF WindowOf
  <2>2. \A d \in Calls : WindowOf(d)' = WindowOf(d)
    BY <1>1 DEF WindowOf
  <2> QED BY <1>1, <2>1, <2>2 DEF WindowBooks, TypeOK
<1>4. ResultsAreAnswers'
  BY <1>1 DEF ResultsAreAnswers, Told
<1>5. EndBooks'
  BY <1>1 DEF EndBooks, TypeOK
<1> QED BY <1>2, <1>3, <1>4, <1>5

(* The service changes no answer it has given and makes no work of its own. *)
LEMMA ServiceStep ==
  ASSUME IInv, NEW r \in Requests, NEW w \in {"running"} \cup Answer,
         work[r] \in {"waiting", "running"},
         work' = [work EXCEPT ![r] = w], UNCHANGED callVars
  PROVE  IInv'
<1> USE DEF IInv, callVars
<1>1. TypeOK'
  BY DEF TypeOK
<1>2. \A q \in Requests : q # r => work'[q] = work[q]
  BY DEF TypeOK
<1>3. "waiting" \notin Answer /\ "running" \notin Answer
  BY DEF Answer
<1>4. \A c \in Calls, i \in Positions : <<c, i>> \in Requests
  BY DEF Requests
<1>5. WindowBooks'
  <2>1. \A c \in Calls : WindowOf(c)' = WindowOf(c)
    BY DEF WindowOf
  <2>2. \A c \in Calls, i \in Positions :
          work[<<c, i>>] = "none" => work'[<<c, i>>] = "none"
    BY <1>2, <1>4
  <2> QED BY <2>1, <2>2 DEF WindowBooks
<1>6. ResultsAreAnswers'
  <2> SUFFICES ASSUME NEW d \in Calls, NEW t \in Names, results[d][t] # Nothing
               PROVE  \E j \in 1..pulled[d] :
                        /\ list[d][j] = t
                        /\ results[d][t] \in {Told(d, "no_envelope")} \cup
                             (IF work'[<<d, j>>] \in Answer
                              THEN {Told(d, work'[<<d, j>>])} ELSE {})
    BY DEF ResultsAreAnswers, Told
  <2>1. PICK j \in 1..pulled[d] :
          /\ list[d][j] = t
          /\ results[d][t] \in {Told(d, "no_envelope")} \cup
               (IF work[<<d, j>>] \in Answer
                THEN {Told(d, work[<<d, j>>])} ELSE {})
    BY DEF ResultsAreAnswers
  <2>2. <<d, j>> \in Requests
    BY <1>4, FanOutAssumption DEF TypeOK, Positions
  <2>3. work[<<d, j>>] \in Answer => work'[<<d, j>>] = work[<<d, j>>]
    BY <2>2, <1>2, <1>3
  <2> QED BY <2>1, <2>3
<1>7. EndBooks'
  BY DEF EndBooks
<1> QED BY <1>1, <1>5, <1>6, <1>7

LEMMA ServiceActs ==
  ASSUME NEW r \in Requests, Refuse(r) \/ Serve(r) \/ \E a \in Answers : Respond(r, a)
  PROVE  /\ work[r] \in {"waiting", "running"}
         /\ \E w \in {"running"} \cup Answer : work' = [work EXCEPT ![r] = w]
         /\ UNCHANGED callVars
BY FanOutAssumption DEF Refuse, Serve, Respond, Answer

-----------------------------------------------------------------------------
LEMMA NextIInv == IInv /\ [Next]_vars => IInv'
<1> SUFFICES ASSUME IInv, [Next]_vars PROVE IInv'
  OBVIOUS
<1>1. ASSUME NEW c \in Calls, NEW l \in Lists, Begin(c, l) PROVE IInv'
  BY <1>1, BeginStep
<1>2. ASSUME NEW c \in Calls, Pull(c) PROVE IInv'
  BY <1>2, PullStep
<1>3. ASSUME NEW c \in Calls, NEW i \in Positions, Arrives(c, i) PROVE IInv'
  BY <1>3, CollectStep DEF Arrives
<1>4. ASSUME NEW c \in Calls, NEW i \in Positions, GivesUp(c, i) PROVE IInv'
  <2>1. "no_envelope" \in Answer
    BY DEF Answer
  <2> QED BY <1>4, <2>1, CollectStep DEF GivesUp
<1>5. ASSUME NEW c \in Calls, Return(c) \/ Drop(c) PROVE IInv'
  BY <1>5, EndStep
<1>6. ASSUME NEW r \in Requests,
             Refuse(r) \/ Serve(r) \/ \E a \in Answers : Respond(r, a)
      PROVE  IInv'
  BY <1>6, ServiceActs, ServiceStep
<1>7. ASSUME UNCHANGED vars PROVE IInv'
  BY <1>7 DEF vars, callVars, IInv, TypeOK, WindowBooks, WindowOf, ResultsAreAnswers,
              Told, EndBooks
<1> QED BY <1>1, <1>2, <1>3, <1>4, <1>5, <1>6, <1>7 DEF Next

(* The books of calls, windows and service together are inductive. *)
THEOREM Inductive == Spec => []IInv
<1>1. Init => IInv
  BY InitIInv
<1>2. IInv /\ [Next]_vars => IInv'
  BY NextIInv
<1> QED BY <1>1, <1>2, PTL DEF Spec

(* Every variable keeps its type. *)
THEOREM TypeCorrect == Spec => []TypeOK
BY Inductive, PTL DEF IInv

(* The window never holds more than its bound and loses no supplier. *)
THEOREM WindowSound == Spec => []WindowBooks
BY Inductive, PTL DEF IInv

(* A result is the answer to this call about this very supplier. *)
THEOREM AnswersOwned == Spec => []ResultsAreAnswers
BY Inductive, PTL DEF IInv

(* What the books say of a call whose last request is in. *)
LEMMA AllIn ==
  ASSUME IInv, NEW c \in Calls, phase[c] \in {"running", "returned"},
         pulled[c] = Len(list[c]), flight[c] = {}
  PROVE  {s \in Names : results[c][s] # Nothing} = Listed(c)
<1>1. ASSUME NEW s \in Names, results[c][s] # Nothing PROVE s \in Listed(c)
  <2>1. PICK i \in 1..pulled[c] : list[c][i] = s
    BY <1>1 DEF IInv, ResultsAreAnswers
  <2> QED BY <2>1 DEF Listed
<1>2. ASSUME NEW s \in Listed(c) PROVE s \in Names /\ results[c][s] # Nothing
  <2>1. PICK i \in 1..Len(list[c]) : list[c][i] = s
    BY DEF Listed
  <2>2. s \in Names
    BY <2>1, ListType DEF IInv
  <2>3. i \in flight[c] \/ results[c][list[c][i]] # Nothing
    BY <2>1 DEF IInv, WindowBooks
  <2> QED BY <2>1, <2>2, <2>3
<1> QED BY <1>1, <1>2

(* A call that returns has a result for every supplier of its list and for  *)
(* no other.                                                                *)
THEOREM Complete == Spec => []ResultsComplete
<1>1. IInv => ResultsComplete
  <2> SUFFICES ASSUME IInv, NEW c \in Calls, phase[c] = "returned"
               PROVE  {s \in Names : results[c][s] # Nothing} = Listed(c)
    BY DEF ResultsComplete
  <2>1. pulled[c] = Len(list[c]) /\ flight[c] = {}
    BY DEF IInv, EndBooks
  <2> QED BY <2>1, AllIn
<1> QED BY <1>1, Inductive, PTL

-----------------------------------------------------------------------------
(* A call that has ended sends no other request, and its map is final.     *)
THEOREM EndsForGood == Spec => EndedMeansEnded
<1> DEFINE Final ==
      \A c \in Calls : phase[c] \in {"returned", "dropped"} =>
        /\ UNCHANGED <<phase[c], results[c]>>
        /\ \A i \in Positions : work[<<c, i>>] = "none" => work'[<<c, i>>] = "none"
<1>1. IInv /\ [Next]_vars => [Final]_vars
  <2> SUFFICES ASSUME IInv, Next,
                      NEW d \in Calls, phase[d] \in {"returned", "dropped"}
               PROVE  /\ phase'[d] = phase[d] /\ results'[d] = results[d]
                      /\ \A i \in Positions :
                           work[<<d, i>>] = "none" => work'[<<d, i>>] = "none"
    OBVIOUS
  <2> USE DEF IInv, TypeOK
  <2>0. \A c \in Calls, i \in Positions : <<c, i>> \in Requests
    BY DEF Requests
  <2>1. ASSUME NEW c \in Calls, NEW l \in Lists, Begin(c, l)
        PROVE  phase'[d] = phase[d] /\ results' = results /\ work' = work
    BY <2>1 DEF Begin
  <2>2. ASSUME NEW c \in Calls, Pull(c)
        PROVE  /\ phase' = phase /\ results' = results
               /\ \A i \in Positions : work'[<<d, i>>] = work[<<d, i>>]
    BY <2>2, <2>0 DEF Pull
  <2>3. ASSUME NEW c \in Calls, NEW i \in Positions, NEW a \in Answer, Collect(c, i, a)
        PROVE  phase' = phase /\ results'[d] = results[d] /\ work' = work
    BY <2>3 DEF Collect
  <2>4. ASSUME NEW c \in Calls, Return(c) \/ Drop(c)
        PROVE  phase'[d] = phase[d] /\ results' = results /\ work' = work
    BY <2>4 DEF Return, Drop
  <2>5. ASSUME NEW r \in Requests, work[r] \in {"waiting", "running"},
               NEW w, work' = [work EXCEPT ![r] = w], UNCHANGED callVars
        PROVE  /\ phase' = phase /\ results' = results
               /\ \A i \in Positions : work[<<d, i>>] = "none" => work'[<<d, i>>] = "none"
    BY <2>5, <2>0 DEF callVars
  <2>6. ASSUME NEW r \in Requests,
               Refuse(r) \/ Serve(r) \/ \E a \in Answers : Respond(r, a)
        PROVE  /\ phase' = phase /\ results' = results
               /\ \A i \in Positions : work[<<d, i>>] = "none" => work'[<<d, i>>] = "none"
    BY <2>6, <2>5, ServiceActs
  <2> HIDE DEF IInv, TypeOK
  <2> QED BY <2>1, <2>2, <2>3, <2>4, <2>6, NextCases
<1> QED BY <1>1, Inductive, PTL DEF Spec, EndedMeansEnded

(* search_all implements its contract: a result for every supplier asked    *)
(* and no other, or nothing when the call is dropped.                       *)
THEOREM ImplementsContract == Spec => ContractSafety
<1> DEFINE asked == [c \in Calls |-> Listed(c)]
<1>1. Init => Contract!Init
  BY DEF Init, Contract!Init, Listed
<1>2. IInv /\ [Next]_vars => [Contract!Next]_(Contract!vars)
  <2> SUFFICES ASSUME IInv, [Next]_vars
               PROVE  Contract!Next \/ UNCHANGED Contract!vars
    OBVIOUS
  <2> USE DEF IInv
  <2>1. ASSUME NEW c \in Calls, NEW l \in Lists, Begin(c, l) PROVE Contract!Ask(c)
    <3>1. Listed(c)' \subseteq Names
      <4>1. list'[c] = Targets(c, l) /\ Targets(c, l) \in Lists \cup {<<>>, Defaults}
        BY <2>1 DEF Begin, TypeOK, Targets
      <4>2. \A i \in 1..Len(list'[c]) : list'[c][i] \in Names
        BY <4>1, ListsAreSequences
      <4> QED BY <4>2 DEF Listed
    <3>2. asked' = [asked EXCEPT ![c] = Listed(c)']
      BY <2>1 DEF Begin, Listed, TypeOK
    <3> QED BY <2>1, <3>1, <3>2 DEF Begin, Contract!Ask
  <2>2. ASSUME NEW c \in Calls, NEW i \in Positions, NEW a \in Answer, Collect(c, i, a)
        PROVE  Contract!Learn(c)
    <3>1. i \in 1..pulled[c] /\ pulled[c] <= Len(list[c])
      BY <2>2 DEF Collect, WindowBooks
    <3>2. i \in 1..Len(list[c])
      BY <3>1, ListType DEF TypeOK
    <3>3. list[c][i] \in Listed(c) /\ Told(c, a) \in Results
      BY <3>2, ToldIsResult DEF Listed
    <3>4. UNCHANGED <<phase, list>> /\ asked' = asked
      BY <2>2 DEF Collect, Listed
    <3> QED BY <2>2, <3>3, <3>4 DEF Collect, Contract!Learn
  <2>3. ASSUME NEW c \in Calls, Return(c) PROVE Contract!Return(c)
    <3>1. \A s \in Listed(c) : results[c][s] # Nothing
      BY <2>3, AllIn DEF Return
    <3> QED BY <2>3, <3>1 DEF Return, Listed, Contract!Return
  <2>4. ASSUME NEW c \in Calls, Drop(c) PROVE Contract!Drop(c)
    BY <2>4 DEF Drop, Listed, Contract!Drop
  <2>5. ASSUME UNCHANGED <<phase, list, results>> PROVE UNCHANGED Contract!vars
    BY <2>5 DEF Contract!vars, Listed
  <2>6. ASSUME NEW c \in Calls, Pull(c) PROVE UNCHANGED Contract!vars
    BY <2>6, <2>5 DEF Pull
  <2>7. ASSUME NEW r \in Requests,
               Refuse(r) \/ Serve(r) \/ \E a \in Answers : Respond(r, a)
        PROVE  UNCHANGED Contract!vars
    BY <2>7, <2>5, ServiceActs DEF callVars
  <2>8. ASSUME UNCHANGED vars PROVE UNCHANGED Contract!vars
    BY <2>8, <2>5 DEF vars, callVars
  <2> QED BY <2>1, <2>2, <2>3, <2>4, <2>6, <2>7, <2>8, NextCases DEF Contract!Next
<1> QED BY <1>1, <1>2, Inductive, PTL DEF Spec, ContractSafety, Contract!Spec

-----------------------------------------------------------------------------
(* A running call always has something to do, whatever its window, its     *)
(* list and the service: room for the next supplier, a request of its own  *)
(* to wait for (and to give up), or nothing left and it returns.           *)
NeverStuck ==
  \A c \in Calls : phase[c] = "running" =>
    \/ WindowHasRoom(c)
    \/ flight[c] # {}
    \/ pulled[c] = Len(list[c]) /\ flight[c] = {}

THEOREM CallsAreNeverStuck == Spec => []NeverStuck
<1>1. IInv => NeverStuck
  <2> SUFFICES ASSUME IInv, NEW c \in Calls, flight[c] = {}, pulled[c] # Len(list[c])
               PROVE  WindowHasRoom(c)
    BY DEF NeverStuck
  <2>1. /\ Len(list[c]) \in Nat /\ pulled[c] \in Nat /\ pulled[c] <= Len(list[c])
    BY ListType, FanOutAssumption DEF IInv, TypeOK, WindowBooks
  <2>2. WindowOf(c) > 0
    BY <2>1, FanOutAssumption DEF WindowOf
  <2>3. Cardinality(flight[c]) = 0
    BY FS_EmptySet
  <2> QED BY <2>1, <2>2, <2>3 DEF WindowHasRoom
<1> QED BY <1>1, Inductive, PTL

(* How far a running call is from its end: every supplier is pulled once   *)
(* and collected once.                                                     *)
Left(c) == 2 * (Len(list[c]) - pulled[c]) + Cardinality(flight[c])

Nearer ==
  \A c \in Calls : phase[c] = "running" =>
    \/ phase'[c] \in {"returned", "dropped"}
    \/ UNCHANGED <<phase[c], list[c], pulled[c], flight[c]>>
    \/ /\ UNCHANGED <<phase[c], list[c]>>
       /\ Left(c) \in Nat /\ Left(c)' \in Nat /\ Left(c)' < Left(c)

LEMMA PullNearer ==
  ASSUME IInv, NEW c \in Calls, Pull(c)
  PROVE  Left(c) \in Nat /\ Left(c)' \in Nat /\ Left(c)' < Left(c)
<1> USE DEF IInv, TypeOK
<1>1. /\ Len(list[c]) \in Nat /\ pulled[c] \in Nat /\ pulled[c] < Len(list[c])
  BY ListType, FanOutAssumption DEF Pull, WindowHasRoom
<1>2. IsFiniteSet(flight[c]) /\ Cardinality(flight[c]) \in Nat
  BY FlightFinite
<1>3. /\ list' = list /\ pulled'[c] = pulled[c] + 1
      /\ flight'[c] = flight[c] \cup {pulled[c] + 1}
  BY DEF Pull
<1>4. pulled[c] + 1 \notin flight[c]
  BY <1>1 DEF WindowBooks
<1>5. Cardinality(flight'[c]) = Cardinality(flight[c]) + 1
  <2>1. Cardinality(flight[c] \cup {pulled[c] + 1}) = Cardinality(flight[c]) + 1
    BY <1>2, <1>4, FS_AddElement
  <2> QED BY <1>3, <2>1
<1>6. /\ Left(c) = 2 * (Len(list[c]) - pulled[c]) + Cardinality(flight[c])
      /\ Left(c)' = 2 * (Len(list[c]) - (pulled[c] + 1)) + (Cardinality(flight[c]) + 1)
  BY <1>3, <1>5 DEF Left
<1> QED BY <1>1, <1>2, <1>6

LEMMA CollectNearer ==
  ASSUME IInv, NEW c \in Calls, NEW i \in Positions, NEW a \in Answer, Collect(c, i, a)
  PROVE  Left(c) \in Nat /\ Left(c)' \in Nat /\ Left(c)' < Left(c)
<1> USE DEF IInv, TypeOK
<1>1. /\ Len(list[c]) \in Nat /\ pulled[c] \in Nat /\ pulled[c] <= Len(list[c])
  BY ListType, FanOutAssumption DEF WindowBooks
<1>2. IsFiniteSet(flight[c]) /\ Cardinality(flight[c]) \in Nat
  BY FlightFinite
<1>3. /\ list' = list /\ pulled' = pulled /\ i \in flight[c]
      /\ flight'[c] = flight[c] \ {i}
  BY DEF Collect
<1>4. /\ Cardinality(flight'[c]) = Cardinality(flight[c]) - 1
      /\ Cardinality(flight'[c]) \in Nat
  BY <1>2, <1>3, FS_RemoveElement, FS_CardinalityType
<1>5. /\ Left(c) = 2 * (Len(list[c]) - pulled[c]) + Cardinality(flight[c])
      /\ Left(c)' = 2 * (Len(list[c]) - pulled[c]) + Cardinality(flight'[c])
  BY <1>3 DEF Left
<1> QED BY <1>1, <1>2, <1>4, <1>5

(* Every step of a call that runs ends it or brings it nearer to its end,  *)
(* and no step of another call, or of the service, takes it back: with     *)
(* CallsAreNeverStuck, a call ends once it is scheduled and its requests   *)
(* time out. (client.py:184-199, client.rs:319-332)                        *)
THEOREM CallsEnd == Spec => [][Nearer]_vars
<1>1. IInv /\ [Next]_vars => [Nearer]_vars
  <2> SUFFICES ASSUME IInv, Next, NEW d \in Calls, phase[d] = "running"
               PROVE  \/ phase'[d] \in {"returned", "dropped"}
                      \/ UNCHANGED <<phase[d], list[d], pulled[d], flight[d]>>
                      \/ /\ UNCHANGED <<phase[d], list[d]>>
                         /\ Left(d) \in Nat /\ Left(d)' \in Nat /\ Left(d)' < Left(d)
    BY DEF Nearer
  <2>0. TypeOK
    BY DEF IInv
  <2>1. ASSUME NEW c \in Calls, NEW l \in Lists, Begin(c, l)
        PROVE  UNCHANGED <<phase[d], list[d], pulled[d], flight[d]>>
    BY <2>0, <2>1 DEF Begin, TypeOK
  <2>2. ASSUME NEW c \in Calls, Pull(c), c # d
        PROVE  UNCHANGED <<phase[d], list[d], pulled[d], flight[d]>>
    BY <2>0, <2>2 DEF Pull, TypeOK
  <2>3. ASSUME NEW c \in Calls, Pull(c), c = d
        PROVE  UNCHANGED <<phase[d], list[d]>>
    BY <2>3 DEF Pull
  <2>4. ASSUME NEW c \in Calls, NEW i \in Positions, NEW a \in Answer, Collect(c, i, a), c # d
        PROVE  UNCHANGED <<phase[d], list[d], pulled[d], flight[d]>>
    BY <2>0, <2>4 DEF Collect, TypeOK
  <2>5. ASSUME NEW c \in Calls, NEW i \in Positions, NEW a \in Answer, Collect(c, i, a), c = d
        PROVE  UNCHANGED <<phase[d], list[d]>>
    BY <2>5 DEF Collect
  <2>6. ASSUME NEW c \in Calls, Return(c) \/ Drop(c)
        PROVE  \/ phase'[d] \in {"returned", "dropped"}
               \/ UNCHANGED <<phase[d], list[d], pulled[d], flight[d]>>
    BY <2>0, <2>6 DEF Return, Drop, TypeOK
  <2>7. ASSUME NEW r \in Requests,
               Refuse(r) \/ Serve(r) \/ \E a \in Answers : Respond(r, a)
        PROVE  UNCHANGED <<phase[d], list[d], pulled[d], flight[d]>>
    BY <2>7, ServiceActs DEF callVars
  <2> QED BY <2>1, <2>2, <2>3, <2>4, <2>5, <2>6, <2>7, PullNearer, CollectNearer, NextCases
<1> QED BY <1>1, Inductive, PTL DEF Spec
=============================================================================
