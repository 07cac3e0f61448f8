------------------------- MODULE StreamSearchProofs -------------------------
(***************************************************************************)
(* Theorems of StreamSearch for every number of streams, threads and       *)
(* targets, with the inductive invariant they rest on.                     *)
(***************************************************************************)
EXTENDS StreamSearch, WellFoundedInduction, TLAPS

USE DEF Tasks, Slots

(* One event-loop or thread step, by the action it is. *)
LEMMA NextCases ==
  ASSUME Next
  PROVE  \/ \E s \in Streams, names \in Requests, a, m \in BOOLEAN : Refuse(s, names, a, m)
         \/ \E s \in Streams, names \in Requests, l \in Limits : Open(s, names, l)
         \/ \E t \in Tasks : Submit(t)
         \/ \E t \in Tasks : Deliver(t)
         \/ \E t \in Tasks : Timeout(t)
         \/ \E w \in Workers : StartWork(w)
         \/ \E w \in Workers, o \in Answers : FinishWork(w, o)
         \/ \E s \in Streams : Wait(s)
         \/ \E s \in Streams : Finish(s)
         \/ \E s \in Streams : Disconnect(s)
         \/ \E s \in Streams, i \in Slots : Emit(s, i)
         \/ \E s \in Streams, i \in Slots : Abort(s, i)
BY DEF Next

(* A request's targets are positions the model has. *)
LEMMA TargetsAreSlots ==
  ASSUME NEW names \in Requests
  PROVE  Targets(names) \subseteq Slots
<1> DEFINE listed == IF names = <<>> THEN AllSuppliers ELSE names
<1>1. listed \in Seq(Names) /\ Len(listed) <= MaxTargets
  BY StreamAssumption
<1>2. DOMAIN listed = 1..Len(listed) /\ Len(listed) \in Nat
  BY <1>1
<1>3. DOMAIN listed \subseteq Slots
  BY <1>1, <1>2, StreamAssumption
<1> QED BY <1>3 DEF Targets

-----------------------------------------------------------------------------
(* The initial state has empty books. *)
LEMMA InitIInv == Init => IInv
<1> SUFFICES ASSUME Init PROVE IInv
  OBVIOUS
<1>1. TypeOK
  BY DEF Init, TypeOK, Phases, Limit, TaskStates, WorkStates
<1>2. GeneratorBooks
  BY DEF Init, GeneratorBooks
<1>3. TaskBooks
  BY DEF Init, TaskBooks, Outcomes
<1>4. PoolAccounts
  <2>1. DOMAIN queue = {}
    BY DEF Init
  <2>2. \A w \in Workers : worker[w] = Idle
    BY DEF Init
  <2>3. \A t \in Tasks : work[t] = "none" /\ t # Idle
    BY StreamAssumption DEF Init
  <2> QED BY <2>1, <2>2, <2>3 DEF PoolAccounts
<1> QED BY <1>1, <1>2, <1>3, <1>4 DEF IInv

(* A popped event reports a settled task, so its kind is in the contract. *)
LEMMA ReportIsKind ==
  ASSUME NEW t, Settled(t)
  PROVE  Report(task[t]) \in Kinds
BY DEF Settled, Report, Kinds, Outcomes

LEMMA TypeStep == IInv /\ [Next]_vars => TypeOK'
<1> SUFFICES ASSUME IInv, [Next]_vars
             PROVE  TypeOK'
  OBVIOUS
<1>0. TypeOK
  BY DEF IInv
<1> USE <1>0 DEF TypeOK
<1>1. ASSUME NEW s \in Streams, NEW names \in Requests, NEW a \in BOOLEAN,
             NEW m \in BOOLEAN, Refuse(s, names, a, m)
      PROVE  TypeOK'
  BY <1>1 DEF Refuse, poolVars, Phases
<1>2. ASSUME NEW s \in Streams, NEW names \in Requests, NEW l \in Limits,
             Open(s, names, l)
      PROVE  TypeOK'
  <2>1. Targets(names) \in SUBSET Slots
    BY TargetsAreSlots
  <2>2. l \in Limit
    BY StreamAssumption
  <2>3. task' \in [Tasks -> TaskStates]
    BY <1>2 DEF Open, TaskStates
  <2> QED BY <1>2, <2>1, <2>2, <2>3 DEF Open, poolVars, Phases
<1>3. ASSUME NEW t \in Tasks, Submit(t)
      PROVE  TypeOK'
  BY <1>3 DEF Submit, streamVars, TaskStates, WorkStates
<1>4. ASSUME NEW t \in Tasks, Deliver(t)
      PROVE  TypeOK'
  BY <1>4 DEF Deliver, streamVars, poolVars, TaskStates
<1>5. ASSUME NEW t \in Tasks, Timeout(t)
      PROVE  TypeOK'
  BY <1>5 DEF Timeout, streamVars, TaskStates, WorkStates
<1>6. ASSUME NEW w \in Workers, StartWork(w)
      PROVE  TypeOK'
  <2>1. Head(queue) \in Tasks /\ Tail(queue) \in Seq(Tasks)
    BY <1>6 DEF StartWork
  <2> QED BY <1>6, <2>1 DEF StartWork, streamVars, WorkStates
<1>7. ASSUME NEW w \in Workers, NEW o \in Answers, FinishWork(w, o)
      PROVE  TypeOK'
  <2>1. o \in Outcomes
    BY StreamAssumption
  <2> QED BY <1>7, <2>1 DEF FinishWork, streamVars, WorkStates
<1>8. ASSUME NEW s \in Streams, Wait(s)
      PROVE  TypeOK'
  BY <1>8 DEF Wait, poolVars
<1>9. ASSUME NEW s \in Streams, Finish(s)
      PROVE  TypeOK'
  BY <1>9 DEF Finish, poolVars, Phases
<1>10. ASSUME NEW s \in Streams, Disconnect(s)
       PROVE  TypeOK'
  BY <1>10 DEF Disconnect, poolVars, Phases
<1>11. ASSUME NEW s \in Streams, NEW i \in Slots, Emit(s, i)
       PROVE  TypeOK'
  <2>1. Settled(<<s, i>>)
    BY <1>11 DEF IInv, GeneratorBooks, Emit
  <2>2. Report(task[<<s, i>>]) \in Kinds
    BY <2>1, ReportIsKind
  <2> QED BY <1>11, <2>2 DEF Emit, poolVars
<1>12. ASSUME NEW s \in Streams, NEW i \in Slots, Abort(s, i)
       PROVE  TypeOK'
  BY <1>12 DEF Abort, poolVars, Phases
<1>13. CASE UNCHANGED vars
  BY <1>13 DEF vars, streamVars, poolVars
<1> HIDE DEF TypeOK
<1> QED
  BY NextCases, <1>1, <1>2, <1>3, <1>4, <1>5, <1>6, <1>7, <1>8, <1>9, <1>10,
     <1>11, <1>12, <1>13

(* What the pool and the timers do leaves the generator's books alone: a   *)
(* settled task stays settled.                                             *)
LEMMA GeneratorBooksKept ==
  ASSUME GeneratorBooks, UNCHANGED streamVars,
         \A t \in Tasks : Settled(t) => task'[t] = task[t],
         \A t \in Tasks : task[t] = "none" => task'[t] = "none"
  PROVE  GeneratorBooks'
<1> SUFFICES ASSUME NEW s \in Streams, NEW i \in Slots
             PROVE  /\ i \in batch'[s] => i \in pending'[s] /\ Settled(<<s, i>>)'
                    /\ i \in pending'[s] => i \in targets'[s]
                    /\ sent'[<<s, i>>] = IF i \in targets'[s] /\ i \notin pending'[s]
                                         THEN 1 ELSE 0
                    /\ phase'[s] \in {"idle", "refused"}
                         => task'[<<s, i>>] = "none" /\ i \notin targets'[s]
                    /\ phase'[s] = "done" => i \notin pending'[s]
  BY DEF GeneratorBooks
<1>1. <<s, i>> \in Tasks
  OBVIOUS
<1> QED BY <1>1 DEF GeneratorBooks, Settled, streamVars

LEMMA GeneratorStep == IInv /\ [Next]_vars => GeneratorBooks'
<1> SUFFICES ASSUME IInv, [Next]_vars
             PROVE  GeneratorBooks'
  OBVIOUS
<1>0. TypeOK /\ GeneratorBooks
  BY DEF IInv
<1> USE <1>0
<1>1. ASSUME NEW s \in Streams, NEW names \in Requests, NEW a \in BOOLEAN,
             NEW m \in BOOLEAN, Refuse(s, names, a, m)
      PROVE  GeneratorBooks'
  BY <1>1 DEF Refuse, TypeOK, GeneratorBooks, Settled
<1>2. ASSUME NEW s \in Streams, NEW names \in Requests, NEW l \in Limits,
             Open(s, names, l)
      PROVE  GeneratorBooks'
  <2>1. \A u \in Tasks : u[1] # s => task'[u] = task[u]
    BY <1>2 DEF Open
  <2>2. \A i \in Slots : batch[s] = {} \/ i \notin batch[s]
    BY <1>2 DEF Open, GeneratorBooks
  <2> SUFFICES ASSUME NEW r \in Streams, NEW i \in Slots
               PROVE  /\ i \in batch'[r] => i \in pending'[r] /\ Settled(<<r, i>>)'
                      /\ i \in pending'[r] => i \in targets'[r]
                      /\ sent'[<<r, i>>] = IF i \in targets'[r] /\ i \notin pending'[r]
                                           THEN 1 ELSE 0
                      /\ phase'[r] \in {"idle", "refused"}
                           => task'[<<r, i>>] = "none" /\ i \notin targets'[r]
                      /\ phase'[r] = "done" => i \notin pending'[r]
    BY DEF GeneratorBooks
  <2>3. CASE r # s
    <3>1. task'[<<r, i>>] = task[<<r, i>>]
      BY <2>1, <2>3
    <3> QED BY <1>2, <2>3, <3>1 DEF Open, TypeOK, GeneratorBooks, Settled
  <2>4. CASE r = s
    BY <1>2, <2>4 DEF Open, TypeOK, GeneratorBooks, Settled
  <2> QED BY <2>3, <2>4
<1>3. ASSUME NEW t \in Tasks, Submit(t)
      PROVE  GeneratorBooks'
  BY <1>3, GeneratorBooksKept DEF Submit, TypeOK, Settled, Outcomes
<1>4. ASSUME NEW t \in Tasks, Deliver(t)
      PROVE  GeneratorBooks'
  BY <1>4, GeneratorBooksKept DEF Deliver, TypeOK, Settled, Outcomes
<1>5. ASSUME NEW t \in Tasks, Timeout(t)
      PROVE  GeneratorBooks'
  BY <1>5, GeneratorBooksKept DEF Timeout, TypeOK, Settled, Outcomes
<1>6. ASSUME NEW w \in Workers, StartWork(w)
      PROVE  GeneratorBooks'
  BY <1>6, GeneratorBooksKept DEF StartWork
<1>7. ASSUME NEW w \in Workers, NEW o \in Answers, FinishWork(w, o)
      PROVE  GeneratorBooks'
  BY <1>7, GeneratorBooksKept DEF FinishWork
<1>8. ASSUME NEW s \in Streams, Wait(s)
      PROVE  GeneratorBooks'
  BY <1>8 DEF Wait, TypeOK, GeneratorBooks, Settled
<1>9. ASSUME NEW s \in Streams, Finish(s)
      PROVE  GeneratorBooks'
  BY <1>9 DEF Finish, TypeOK, GeneratorBooks, Settled
<1>10. ASSUME NEW s \in Streams, Disconnect(s)
       PROVE  GeneratorBooks'
  BY <1>10 DEF Disconnect, TypeOK, GeneratorBooks, Settled
<1>11. ASSUME NEW s \in Streams, NEW i \in Slots, Emit(s, i)
       PROVE  GeneratorBooks'
  <2> SUFFICES ASSUME NEW r \in Streams, NEW j \in Slots
               PROVE  /\ j \in batch'[r] => j \in pending'[r] /\ Settled(<<r, j>>)'
                      /\ j \in pending'[r] => j \in targets'[r]
                      /\ sent'[<<r, j>>] = IF j \in targets'[r] /\ j \notin pending'[r]
                                           THEN 1 ELSE 0
                      /\ phase'[r] \in {"idle", "refused"}
                           => task'[<<r, j>>] = "none" /\ j \notin targets'[r]
                      /\ phase'[r] = "done" => j \notin pending'[r]
    BY DEF GeneratorBooks
  <2>1. CASE r = s /\ j = i
    BY <1>11, <2>1 DEF Emit, TypeOK, GeneratorBooks, Settled
  <2>2. CASE r # s \/ j # i
    <3>1. <<r, j>> \in Tasks /\ <<s, i>> \in Tasks /\ <<r, j>> # <<s, i>>
      BY <2>2
    <3>2. sent'[<<r, j>>] = sent[<<r, j>>]
      BY <1>11, <3>1 DEF Emit, TypeOK
    <3>3. (j \in pending'[r] <=> j \in pending[r]) /\ (j \in batch'[r] => j \in batch[r])
      BY <1>11, <2>2 DEF Emit, TypeOK
    <3> QED BY <1>11, <3>2, <3>3 DEF Emit, GeneratorBooks, Settled
  <2> QED BY <2>1, <2>2
<1>12. ASSUME NEW s \in Streams, NEW i \in Slots, Abort(s, i)
       PROVE  GeneratorBooks'
  BY <1>12 DEF Abort, TypeOK, GeneratorBooks, Settled
<1>13. CASE UNCHANGED vars
  BY <1>13, GeneratorBooksKept DEF vars
<1> QED
  BY NextCases, <1>1, <1>2, <1>3, <1>4, <1>5, <1>6, <1>7, <1>8, <1>9, <1>10,
     <1>11, <1>12, <1>13

LEMMA TaskStep == IInv /\ [Next]_vars => TaskBooks'
<1> SUFFICES ASSUME IInv, [Next]_vars
             PROVE  TaskBooks'
  OBVIOUS
<1>0. TypeOK /\ GeneratorBooks /\ TaskBooks /\ PoolAccounts
  BY DEF IInv
<1> USE <1>0
<1>a. ASSUME UNCHANGED <<reported, task, work>>
      PROVE  TaskBooks'
  BY <1>a DEF TaskBooks, Settled
<1>1. ASSUME NEW s \in Streams, NEW names \in Requests, NEW a \in BOOLEAN,
             NEW m \in BOOLEAN, Refuse(s, names, a, m)
      PROVE  TaskBooks'
  BY <1>a, <1>1 DEF Refuse, poolVars
<1>2. ASSUME NEW s \in Streams, NEW names \in Requests, NEW l \in Limits,
             Open(s, names, l)
      PROVE  TaskBooks'
  <2>1. \A u \in Tasks : task'[u] = task[u] \/ (task[u] = "none" /\ task'[u] = "created")
    <3> SUFFICES ASSUME NEW u \in Tasks, u[1] = s
                 PROVE  task[u] = "none" /\ task'[u] \in {task[u], "created"}
      BY <1>2 DEF Open
    <3>1. u[2] \in Slots /\ u = <<s, u[2]>>
      OBVIOUS
    <3>2. task[<<s, u[2]>>] = "none"
      BY <1>2, <3>1 DEF Open, GeneratorBooks
    <3> QED BY <1>2, <3>1, <3>2 DEF Open
  <2> QED BY <1>2, <2>1 DEF Open, poolVars, TaskBooks, Settled, Outcomes
<1>3. ASSUME NEW t \in Tasks, Submit(t)
      PROVE  TaskBooks'
  BY <1>3 DEF Submit, streamVars, TypeOK, TaskBooks, Settled, Outcomes
<1>4. ASSUME NEW t \in Tasks, Deliver(t)
      PROVE  TaskBooks'
  BY <1>4 DEF Deliver, streamVars, poolVars, TypeOK, TaskBooks, Settled, Outcomes
<1>5. ASSUME NEW t \in Tasks, Timeout(t)
      PROVE  TaskBooks'
  BY <1>5 DEF Timeout, streamVars, TypeOK, TaskBooks, Settled, Outcomes
<1>6. ASSUME NEW w \in Workers, StartWork(w)
      PROVE  TaskBooks'
  <2>1. Head(queue) \in Tasks
    BY <1>6 DEF StartWork, TypeOK
  <2> QED BY <1>6, <2>1 DEF StartWork, streamVars, TypeOK, TaskBooks, Settled, Outcomes
<1>7. ASSUME NEW w \in Workers, NEW o \in Answers, FinishWork(w, o)
      PROVE  TaskBooks'
  <2>1. worker[w] \in Tasks /\ work[worker[w]] = "running"
    BY <1>7 DEF FinishWork, TypeOK, PoolAccounts
  <2> QED BY <1>7, <2>1 DEF FinishWork, streamVars, TypeOK, TaskBooks, Settled, Outcomes
<1>8. ASSUME NEW s \in Streams, Wait(s)
      PROVE  TaskBooks'
  BY <1>a, <1>8 DEF Wait, poolVars
<1>9. ASSUME NEW s \in Streams, Finish(s)
      PROVE  TaskBooks'
  BY <1>a, <1>9 DEF Finish, poolVars
<1>10. ASSUME NEW s \in Streams, Disconnect(s)
       PROVE  TaskBooks'
  BY <1>a, <1>10 DEF Disconnect, poolVars
<1>11. ASSUME NEW s \in Streams, NEW i \in Slots, Emit(s, i)
       PROVE  TaskBooks'
  <2>1. Settled(<<s, i>>)
    BY <1>11 DEF Emit, GeneratorBooks
  <2> QED BY <1>11, <2>1 DEF Emit, poolVars, TypeOK, TaskBooks, Settled
<1>12. ASSUME NEW s \in Streams, NEW i \in Slots, Abort(s, i)
       PROVE  TaskBooks'
  BY <1>a, <1>12 DEF Abort, poolVars
<1>13. CASE UNCHANGED vars
  BY <1>a, <1>13 DEF vars, streamVars, poolVars
<1> QED
  BY NextCases, <1>1, <1>2, <1>3, <1>4, <1>5, <1>6, <1>7, <1>8, <1>9, <1>10,
     <1>11, <1>12, <1>13

(* The pool's accounts are its own: they follow from the futures, the      *)
(* queue and the threads alone.                                            *)
LEMMA PoolStep == IInv /\ [Next]_vars => PoolAccounts'
<1> SUFFICES ASSUME IInv, [Next]_vars
             PROVE  PoolAccounts'
  OBVIOUS
<1>0. TypeOK /\ GeneratorBooks /\ TaskBooks /\ PoolAccounts
  BY DEF IInv
<1> USE <1>0
<1>a. ASSUME UNCHANGED poolVars
      PROVE  PoolAccounts'
  BY <1>a DEF poolVars, PoolAccounts
<1>b. /\ queue \in Seq(Tasks)
      /\ Len(queue) \in Nat
      /\ DOMAIN queue = 1..Len(queue)
      /\ \A n \in DOMAIN queue : queue[n] \in Tasks
  BY DEF TypeOK
<1>3. ASSUME NEW t \in Tasks, Submit(t)
      PROVE  PoolAccounts'
  <2>1. work[t] = "none" /\ queue' = Append(queue, t)
    BY <1>3 DEF Submit, TaskBooks
  <2>2. /\ DOMAIN queue' = 1..(Len(queue) + 1)
        /\ queue'[Len(queue) + 1] = t
        /\ \A n \in DOMAIN queue : n \in DOMAIN queue' /\ queue'[n] = queue[n]
    BY <1>b, <2>1
  <2>3. \A n \in DOMAIN queue : queue[n] # t
    BY <2>1 DEF PoolAccounts
  <2>4. /\ work'[t] = "queued"
        /\ \A u \in Tasks : u # t => work'[u] = work[u]
        /\ worker' = worker
    BY <1>3 DEF Submit, TypeOK
  <2>5. \A m, n \in DOMAIN queue' : queue'[m] = queue'[n] => m = n
    BY <1>b, <2>2, <2>3 DEF PoolAccounts
  <2>6. \A n \in DOMAIN queue' : work'[queue'[n]] \in {"queued", "cancelled"}
    BY <1>b, <2>2, <2>3, <2>4 DEF PoolAccounts
  <2>7. \A u \in Tasks : work'[u] = "queued" => \E n \in DOMAIN queue' : queue'[n] = u
    <3> SUFFICES ASSUME NEW u \in Tasks, work'[u] = "queued"
                 PROVE  \E n \in DOMAIN queue' : queue'[n] = u
      OBVIOUS
    <3>1. CASE u = t
      BY <1>b, <2>2, <3>1
    <3>2. CASE u # t
      <4>1. PICK n \in DOMAIN queue : queue[n] = u
        BY <2>4, <3>2 DEF PoolAccounts
      <4> QED BY <2>2, <4>1
    <3> QED BY <3>1, <3>2
  <2>8. \A u \in Tasks : work'[u] = "running" <=> \E w \in Workers : worker'[w] = u
    <3> SUFFICES ASSUME NEW u \in Tasks
                 PROVE  work'[u] = "running" <=> \E w \in Workers : worker[w] = u
      BY <2>4
    <3>1. work'[u] = "running" <=> work[u] = "running"
      BY <2>1, <2>4
    <3> QED BY <3>1 DEF PoolAccounts
  <2>9. \A v, w \in Workers : worker'[v] = worker'[w] /\ worker'[v] # Idle => v = w
    BY <2>4 DEF PoolAccounts
  <2> QED BY <2>5, <2>6, <2>7, <2>8, <2>9 DEF PoolAccounts
<1>5. ASSUME NEW t \in Tasks, Timeout(t)
      PROVE  PoolAccounts'
  <2>1. UNCHANGED <<queue, worker>>
    BY <1>5 DEF Timeout
  <2>2. \A u \in Tasks : work'[u] = work[u] \/ (work[u] = "queued" /\ work'[u] = "cancelled")
    BY <1>5 DEF Timeout, TypeOK
  <2>3. \A n \in DOMAIN queue' : work'[queue'[n]] \in {"queued", "cancelled"}
    BY <1>b, <2>1, <2>2 DEF PoolAccounts
  <2>4. \A u \in Tasks : work'[u] = "queued" => \E n \in DOMAIN queue' : queue'[n] = u
    BY <2>1, <2>2 DEF PoolAccounts
  <2>5. \A u \in Tasks : work'[u] = "running" <=> work[u] = "running"
    BY <2>2
  <2>6. \A u \in Tasks : work'[u] = "running" <=> \E w \in Workers : worker'[w] = u
    <3> SUFFICES ASSUME NEW u \in Tasks
                 PROVE  work[u] = "running" <=> \E w \in Workers : worker[w] = u
      BY <2>1, <2>5
    <3> QED BY DEF PoolAccounts
  <2> QED BY <2>1, <2>3, <2>4, <2>6 DEF PoolAccounts
<1>6. ASSUME NEW w \in Workers, StartWork(w)
      PROVE  PoolAccounts'
  <2> DEFINE h == Head(queue)
  <2>1. /\ 1 \in DOMAIN queue /\ h = queue[1] /\ h \in Tasks
        /\ worker[w] = Idle
        /\ queue' = Tail(queue)
    BY <1>6, <1>b DEF StartWork
  <2>2. /\ DOMAIN queue' = 1..(Len(queue) - 1)
        /\ \A n \in DOMAIN queue' : n + 1 \in DOMAIN queue /\ queue'[n] = queue[n + 1]
    BY <1>b, <2>1
  <2>3. \A n \in DOMAIN queue' : queue'[n] # h
    <3> SUFFICES ASSUME NEW n \in DOMAIN queue', queue[n + 1] = queue[1]
                 PROVE  FALSE
      BY <2>1, <2>2
    <3>1. n + 1 = 1
      BY <2>1, <2>2 DEF PoolAccounts
    <3> QED BY <1>b, <2>2, <3>1
  <2>4. \A m, n \in DOMAIN queue' : queue'[m] = queue'[n] => m = n
    BY <1>b, <2>2 DEF PoolAccounts
  <2>5. \A u \in Tasks : u # h /\ (\E n \in DOMAIN queue : queue[n] = u)
                           => \E n \in DOMAIN queue' : queue'[n] = u
    <3> SUFFICES ASSUME NEW n \in DOMAIN queue, queue[n] # h
                 PROVE  \E k \in DOMAIN queue' : queue'[k] = queue[n]
      OBVIOUS
    <3>1. n - 1 \in DOMAIN queue' /\ queue'[n - 1] = queue[n]
      BY <1>b, <2>1, <2>2
    <3> QED BY <3>1
  <2>6. CASE work[h] = "queued"
    <3>1. /\ work'[h] = "running"
          /\ \A u \in Tasks : u # h => work'[u] = work[u]
          /\ worker'[w] = h
          /\ \A v \in Workers : v # w => worker'[v] = worker[v]
      BY <1>6, <2>1, <2>6 DEF StartWork, TypeOK
    <3>2. \A v \in Workers : worker[v] # h
      BY <2>1, <2>6 DEF PoolAccounts
    <3>3. \A n \in DOMAIN queue' : work'[queue'[n]] \in {"queued", "cancelled"}
      BY <1>b, <2>2, <2>3, <3>1 DEF PoolAccounts
    <3>4. \A u \in Tasks : work'[u] = "queued" => \E n \in DOMAIN queue' : queue'[n] = u
      BY <2>5, <3>1 DEF PoolAccounts
    <3>5. \A u \in Tasks : work'[u] = "running" <=> \E v \in Workers : worker'[v] = u
      <4>1. w \in Workers /\ \A u \in Tasks : u # Idle
        BY StreamAssumption
      <4> QED BY <2>1, <3>1, <3>2, <4>1 DEF PoolAccounts
    <3>6. \A v, x \in Workers : worker'[v] = worker'[x] /\ worker'[v] # Idle => v = x
      BY <3>1, <3>2 DEF PoolAccounts
    <3> QED BY <2>4, <3>3, <3>4, <3>5, <3>6 DEF PoolAccounts
  <2>7. CASE work[h] # "queued"
    <3>1. UNCHANGED <<work, worker>>
      BY <1>6, <2>7 DEF StartWork
    <3>2. \A n \in DOMAIN queue' : work'[queue'[n]] \in {"queued", "cancelled"}
      BY <2>2, <3>1 DEF PoolAccounts
    <3>3. \A u \in Tasks : work'[u] = "queued" => \E n \in DOMAIN queue' : queue'[n] = u
      BY <2>5, <2>7, <3>1 DEF PoolAccounts
    <3> QED BY <2>4, <3>1, <3>2, <3>3 DEF PoolAccounts
  <2> QED BY <2>6, <2>7
<1>7. ASSUME NEW w \in Workers, NEW o \in Answers, FinishWork(w, o)
      PROVE  PoolAccounts'
  <2>1. /\ worker[w] \in Tasks /\ work[worker[w]] = "running"
        /\ o \notin {"queued", "running"}
    BY <1>7, StreamAssumption DEF FinishWork, TypeOK, PoolAccounts, Outcomes
  <2>2. /\ UNCHANGED queue
        /\ work'[worker[w]] = o
        /\ \A u \in Tasks : u # worker[w] => work'[u] = work[u]
        /\ worker'[w] = Idle
        /\ \A v \in Workers : v # w => worker'[v] = worker[v]
    BY <1>7, <2>1 DEF FinishWork, TypeOK
  <2>3. \A n \in DOMAIN queue : queue[n] # worker[w]
    BY <2>1 DEF PoolAccounts
  <2>4. \A u \in Tasks : work'[u] = "running" <=> \E v \in Workers : worker'[v] = u
    <3>1. \A u \in Tasks : u # Idle
      BY StreamAssumption
    <3> QED BY <2>1, <2>2, <3>1 DEF PoolAccounts
  <2>5. \A v, x \in Workers : worker'[v] = worker'[x] /\ worker'[v] # Idle => v = x
    BY <2>2 DEF PoolAccounts
  <2>6. \A n \in DOMAIN queue' : work'[queue'[n]] \in {"queued", "cancelled"}
    BY <1>b, <2>2, <2>3 DEF PoolAccounts
  <2>7. \A u \in Tasks : work'[u] = "queued" => \E n \in DOMAIN queue' : queue'[n] = u
    BY <2>1, <2>2 DEF PoolAccounts
  <2> QED BY <2>2, <2>4, <2>5, <2>6, <2>7 DEF PoolAccounts
<1>8. ASSUME \/ \E s \in Streams, names \in Requests, a, m \in BOOLEAN : Refuse(s, names, a, m)
             \/ \E s \in Streams, names \in Requests, l \in Limits : Open(s, names, l)
             \/ \E t \in Tasks : Deliver(t)
             \/ \E s \in Streams : Wait(s)
             \/ \E s \in Streams : Finish(s)
             \/ \E s \in Streams : Disconnect(s)
             \/ \E s \in Streams, i \in Slots : Emit(s, i)
             \/ \E s \in Streams, i \in Slots : Abort(s, i)
             \/ UNCHANGED vars
      PROVE  PoolAccounts'
  BY <1>a, <1>8 DEF Refuse, Open, Deliver, Wait, Finish, Disconnect, Emit, Abort, vars
<1> QED
  BY NextCases, <1>3, <1>5, <1>6, <1>7, <1>8

(* The strengthening every theorem below rests on.                         *)
THEOREM Inductive == Spec => []IInv
<1>1. IInv /\ [Next]_vars => IInv'
  BY TypeStep, GeneratorStep, TaskStep, PoolStep DEF IInv
<1> QED BY InitIInv, <1>1, PTL DEF Spec

-----------------------------------------------------------------------------
(* Type correctness of the stream, its tasks and the pool: every event is  *)
(* of a kind the contract names, every thread holds a task or nothing.     *)
(* (stream.py:173-265)                                                     *)
THEOREM TypeCorrect == Spec => []TypeOK
<1>1. IInv => TypeOK
  BY DEF IInv
<1> QED BY Inductive, <1>1, PTL

(* No search is lost or reported twice: at most one event per target ever, *)
(* exactly one when the done event is out. (generate, stream.py:226-265)   *)
THEOREM EventsExactlyOnce == Spec => []OneEventPerTarget
<1>1. IInv => OneEventPerTarget
  <2> SUFFICES ASSUME IInv, NEW s \in Streams, NEW i \in Slots
               PROVE  /\ sent[<<s, i>>] <= IF i \in targets[s] THEN 1 ELSE 0
                      /\ phase[s] = "done" /\ i \in targets[s] => sent[<<s, i>>] = 1
    BY DEF OneEventPerTarget
  <2>1. /\ sent[<<s, i>>] = IF i \in targets[s] /\ i \notin pending[s] THEN 1 ELSE 0
        /\ phase[s] = "done" => i \notin pending[s]
    BY DEF IInv, GeneratorBooks
  <2> QED BY <2>1
<1> QED BY Inductive, <1>1, PTL

(* An event tells what became of its own search, however its timer, its    *)
(* thread and the generator interleave. (stream.py:212-262)                *)
THEOREM EventsTruthful == Spec => []EventsTellTheTruth
<1>1. IInv => EventsTellTheTruth
  <2> SUFFICES ASSUME IInv, NEW t \in Tasks, reported[t] # NotSent,
                      reported[t] # "provider_timeout"
               PROVE  reported[t] = Report(task[t]) /\ task[t] = work[t]
    BY DEF EventsTellTheTruth, IInv, TaskBooks
  <2>1. Settled(t) /\ reported[t] = Report(task[t])
    BY DEF IInv, TaskBooks
  <2>2. task[t] \in Outcomes
    BY <2>1 DEF Settled, Report
  <2> QED BY <2>1, <2>2 DEF IInv, TaskBooks
<1> QED BY Inductive, <1>1, PTL

(* The queue and the threads account for every search exactly once.        *)
(* (_executor, stream.py:34 and 212-224)                                   *)
THEOREM PoolSound == Spec => []PoolAccounts
<1>1. IInv => PoolAccounts
  BY DEF IInv
<1> QED BY Inductive, <1>1, PTL
(* A late answer never replaces a timeout, nor the other way round.        *)
(* (asyncio.wait_for, stream.py:213-224)                                   *)
THEOREM SettledForGood == Spec => SettledOnce
<1>1. IInv /\ [Next]_vars => [\A t \in Tasks : Settled(t) => task'[t] = task[t]]_vars
  <2> SUFFICES ASSUME IInv, Next, NEW t \in Tasks, Settled(t)
               PROVE  task'[t] = task[t]
    OBVIOUS
  <2>0. TypeOK /\ GeneratorBooks
    BY DEF IInv
  <2>1. ASSUME NEW s \in Streams, NEW names \in Requests, NEW l \in Limits,
               Open(s, names, l)
        PROVE  task'[t] = task[t]
    <3>1. t[1] \in Streams /\ t[2] \in Slots /\ t = <<t[1], t[2]>>
      OBVIOUS
    <3>2. t[1] # s
      BY <2>0, <2>1, <3>1 DEF Open, GeneratorBooks, Settled, Outcomes
    <3> QED BY <2>1, <3>2 DEF Open
  <2>2. ASSUME NEW u \in Tasks, Submit(u) \/ Deliver(u) \/ Timeout(u)
        PROVE  task'[t] = task[t]
    BY <2>0, <2>2 DEF Submit, Deliver, Timeout, Settled, Outcomes, TypeOK
  <2>3. ASSUME \/ \E s \in Streams, names \in Requests, a, m \in BOOLEAN :
                    Refuse(s, names, a, m)
               \/ \E w \in Workers : StartWork(w)
               \/ \E w \in Workers, o \in Answers : FinishWork(w, o)
               \/ \E s \in Streams : Wait(s) \/ Finish(s) \/ Disconnect(s)
               \/ \E s \in Streams, i \in Slots : Emit(s, i) \/ Abort(s, i)
        PROVE  task'[t] = task[t]
    BY <2>3 DEF Refuse, StartWork, FinishWork, Wait, Finish, Disconnect, Emit, Abort
  <2> QED BY <2>1, <2>2, <2>3 DEF Next
<1> QED BY Inductive, <1>1, PTL DEF Spec, SettledOnce

(* Work a timeout took back from the queue never reaches a provider.       *)
(* (stream.py:212-224, the pool of :34)                                    *)
THEOREM CancelledStaysCancelled == Spec => CancelledNeverRuns
<1>1. IInv /\ [Next]_vars
        => [\A t \in Tasks : work[t] = "cancelled" => work'[t] = "cancelled"]_vars
  <2> SUFFICES ASSUME IInv, Next, NEW t \in Tasks, work[t] = "cancelled"
               PROVE  work'[t] = "cancelled"
    OBVIOUS
  <2>0. TypeOK /\ TaskBooks /\ PoolAccounts
    BY DEF IInv
  <2>1. ASSUME NEW u \in Tasks, Submit(u)
        PROVE  work'[t] = "cancelled"
    <3>1. work[u] = "none"
      BY <2>0, <2>1 DEF Submit, TaskBooks
    <3> QED BY <2>0, <2>1, <3>1 DEF Submit, TypeOK
  <2>2. ASSUME NEW u \in Tasks, Timeout(u)
        PROVE  work'[t] = "cancelled"
    BY <2>0, <2>2 DEF Timeout, TypeOK
  <2>3. ASSUME NEW w \in Workers, StartWork(w)
        PROVE  work'[t] = "cancelled"
    BY <2>0, <2>3 DEF StartWork, TypeOK
  <2>4. ASSUME NEW w \in Workers, NEW o \in Answers, FinishWork(w, o)
        PROVE  work'[t] = "cancelled"
    <3>1. worker[w] \in Tasks /\ work[worker[w]] = "running"
      BY <2>0, <2>4 DEF FinishWork, TypeOK, PoolAccounts
    <3> QED BY <2>0, <2>4, <3>1 DEF FinishWork, TypeOK
  <2>5. ASSUME \/ \E s \in Streams, names \in Requests, a, m \in BOOLEAN :
                    Refuse(s, names, a, m)
               \/ \E s \in Streams, names \in Requests, l \in Limits : Open(s, names, l)
               \/ \E u \in Tasks : Deliver(u)
               \/ \E s \in Streams : Wait(s) \/ Finish(s) \/ Disconnect(s)
               \/ \E s \in Streams, i \in Slots : Emit(s, i) \/ Abort(s, i)
        PROVE  work'[t] = "cancelled"
    BY <2>5 DEF Refuse, Open, Deliver, Wait, Finish, Disconnect, Emit, Abort, poolVars
  <2> QED BY <2>1, <2>2, <2>3, <2>4, <2>5 DEF Next
<1> QED BY Inductive, <1>1, PTL DEF Spec, CancelledNeverRuns

-----------------------------------------------------------------------------
(* The stream keeps the browser's contract: hiding the pool, the timers    *)
(* and the batches, its steps are those of StreamContract. (stream.py:     *)
(* 173-265 against ADR-009)                                                *)
LEMMA ContractInit == Init => Contract!Init
BY DEF Init, Contract!Init, NotSent, Contract!NotSent

LEMMA ContractStep == IInv /\ [Next]_vars => [Contract!Next]_(Contract!vars)
<1> SUFFICES ASSUME IInv, [Next]_vars
             PROVE  Contract!Next \/ UNCHANGED Contract!vars
  OBVIOUS
<1>0. TypeOK /\ GeneratorBooks
  BY DEF IInv
<1> USE <1>0
<1>1. ASSUME NEW s \in Streams, NEW names \in Requests, NEW a \in BOOLEAN,
             NEW m \in BOOLEAN, Refuse(s, names, a, m)
      PROVE  Contract!Refuse(s)
  BY <1>1 DEF Refuse, Contract!Refuse
<1>2. ASSUME NEW s \in Streams, NEW names \in Requests, NEW l \in Limits,
             Open(s, names, l)
      PROVE  Contract!Open(s)
  <2>1. Targets(names) \in SUBSET Slots
    BY TargetsAreSlots
  <2> QED BY <1>2, <2>1 DEF Open, Contract!Open
<1>3. ASSUME NEW s \in Streams, NEW i \in Slots, Emit(s, i)
      PROVE  Contract!Send(s)
  <2> DEFINE k == Report(task[<<s, i>>])
  <2>1. i \in pending[s] /\ k \in Kinds
    BY <1>3, ReportIsKind DEF Emit, GeneratorBooks
  <2>2. reported' = [reported EXCEPT ![<<s, i>>] = k]
    BY <1>3 DEF Emit
  <2> HIDE DEF k
  <2>3. [r \in Streams |-> [j \in Slots |-> reported'[<<r, j>>]]]
          = [[r \in Streams |-> [j \in Slots |-> reported[<<r, j>>]]] EXCEPT ![s][i] = k]
    <3>1. \A r \in Streams, j \in Slots :
            reported'[<<r, j>>] = IF r = s /\ j = i THEN k ELSE reported[<<r, j>>]
      BY <2>2 DEF TypeOK
    <3> QED BY <3>1
  <2>4. phase[s] = "open" /\ UNCHANGED phase /\ pending' = [pending EXCEPT ![s] = @ \ {i}]
    BY <1>3 DEF Emit
  <2> QED BY <2>1, <2>3, <2>4 DEF Contract!Send
<1>4. ASSUME NEW s \in Streams, Finish(s)
      PROVE  Contract!End(s)
  BY <1>4 DEF Finish, Contract!End
<1>5. ASSUME NEW s \in Streams, Disconnect(s)
      PROVE  Contract!Leave(s)
  BY <1>5 DEF Disconnect, Contract!Leave
<1>6. ASSUME NEW s \in Streams, NEW i \in Slots, Abort(s, i)
      PROVE  Contract!Break(s)
  BY <1>6 DEF Abort, Contract!Break, GeneratorBooks
<1>7. ASSUME \/ \E t \in Tasks : Submit(t)
             \/ \E t \in Tasks : Deliver(t)
             \/ \E t \in Tasks : Timeout(t)
             \/ \E w \in Workers : StartWork(w)
             \/ \E w \in Workers, o \in Answers : FinishWork(w, o)
             \/ \E s \in Streams : Wait(s)
             \/ UNCHANGED vars
      PROVE  UNCHANGED Contract!vars
  BY <1>7 DEF Submit, Deliver, Timeout, StartWork, FinishWork, Wait, vars, streamVars,
              Contract!vars
<1> QED
  BY NextCases, <1>1, <1>2, <1>3, <1>4, <1>5, <1>6, <1>7 DEF Contract!Next

THEOREM ImplementsContract == Spec => ContractSafety
<1> QED
  BY Inductive, ContractInit, ContractStep, PTL
     DEF Spec, ContractSafety, Contract!SafeSpec

-----------------------------------------------------------------------------
(* What the end of a stream rests on.  Every target of a stream has a task *)
(* from the moment there is a target: nothing is waited for that nobody    *)
(* runs.                                                                   *)
HasTasks == \A s \in Streams, i \in Slots : i \in targets[s] => task[<<s, i>>] # "none"

LEMMA HasTasksStep ==
  ASSUME IInv, HasTasks, [Next]_vars
  PROVE  HasTasks'
<1> SUFFICES ASSUME NEW d \in Streams, NEW j \in Slots, j \in targets'[d]
             PROVE  task'[<<d, j>>] # "none"
  BY DEF HasTasks
<1>0. TypeOK /\ <<d, j>> \in Tasks
  BY DEF IInv
<1>1. ASSUME UNCHANGED <<targets, task>> PROVE task'[<<d, j>>] # "none"
  BY <1>1 DEF HasTasks
<1>2. ASSUME NEW s \in Streams, NEW names \in Requests, NEW l \in Limits, Open(s, names, l)
      PROVE  task'[<<d, j>>] # "none"
  <2>1. /\ targets' = [targets EXCEPT ![s] = Targets(names)]
        /\ task'[<<d, j>>] = IF d = s /\ j \in Targets(names) THEN "created" ELSE task[<<d, j>>]
    BY <1>0, <1>2 DEF Open
  <2> QED BY <1>0, <2>1 DEF HasTasks, TypeOK
<1>3. ASSUME NEW u \in Tasks, Submit(u) \/ Deliver(u) \/ Timeout(u)
      PROVE  task'[<<d, j>>] # "none"
  <2>1. \E x \in {"waiting", "timeout"} \cup Outcomes : task' = [task EXCEPT ![u] = x]
    BY <1>3 DEF Submit, Deliver, Timeout
  <2>2. targets' = targets
    BY <1>3 DEF Submit, Deliver, Timeout, streamVars
  <2> QED BY <1>0, <2>1, <2>2 DEF HasTasks, TypeOK, Outcomes
<1>4. ASSUME \/ \E s \in Streams, names \in Requests, a, m \in BOOLEAN :
                  Refuse(s, names, a, m)
             \/ \E w \in Workers : StartWork(w)
             \/ \E w \in Workers, o \in Answers : FinishWork(w, o)
             \/ \E s \in Streams : Wait(s) \/ Finish(s) \/ Disconnect(s)
             \/ \E s \in Streams, i \in Slots : Emit(s, i) \/ Abort(s, i)
             \/ UNCHANGED vars
      PROVE  task'[<<d, j>>] # "none"
  <2>1. UNCHANGED <<targets, task>>
    BY <1>4 DEF Refuse, StartWork, FinishWork, Wait, Finish, Disconnect, Emit, Abort,
                streamVars, vars
  <2> QED BY <1>1, <2>1
<1> QED BY <1>2, <1>3, <1>4 DEF Next

(* The natural numbers are well founded. *)
LEMMA NatLess == IsWellFoundedOn({ss \in Nat \X Nat : ss[1] < ss[2]}, Nat)
BY NatLessThanWellFounded DEF OpToRel

(* Of the new tasks one was created first. *)
LEMMA FirstCreated ==
  ASSUME ~LoopFree
  PROVE  \E t \in Tasks : /\ task[t] = "created"
                          /\ \A u \in Tasks : task[u] = "created" => t[2] <= u[2]
<1> DEFINE R == {ss \in Nat \X Nat : ss[1] < ss[2]}
           T == {t[2] : t \in {u \in Tasks : task[u] = "created"}}
<1>1. IsWellFoundedOn(R, Nat)
  BY NatLess
<1>2. T \subseteq Nat /\ T # {}
  BY DEF LoopFree
<1>3. \A m, n \in Nat : <<m, n>> \in R <=> m < n
  OBVIOUS
<1> HIDE DEF R
<1>4. PICK n \in T : \A m \in T : <<m, n>> \notin R
  <2> HIDE DEF T
  <2> QED BY <1>1, <1>2, WFMin
<1>5. ASSUME NEW m \in T PROVE n <= m
  <2>1. n \in Nat /\ m \in Nat
    BY <1>2, <1>4
  <2>2. ~(m < n)
    BY <1>3, <1>4, <2>1
  <2> QED BY <2>1, <2>2
<1>6. PICK t \in Tasks : task[t] = "created" /\ t[2] = n
  BY <1>4
<1>7. ASSUME NEW u \in Tasks, task[u] = "created" PROVE t[2] <= u[2]
  <2>1. u[2] \in T
    BY <1>7
  <2> QED BY <1>5, <1>6, <2>1
<1> QED BY <1>6, <1>7

(* The event loop always has a step to take for an open stream whose       *)
(* timeouts can fire: a new task to start, a batch to report, done to      *)
(* send, a settled task to collect or a timer to fire.                     *)
NeverStuck ==
  \A s \in Streams : phase[s] = "open" /\ limit[s] # "unbounded" =>
    \/ \E t \in Tasks : /\ task[t] = "created"
                        /\ \A u \in Tasks : task[u] = "created" => t[2] <= u[2]
    \/ LoopFree /\ batch[s] # {}
    \/ LoopFree /\ batch[s] = {} /\ pending[s] = {}
    \/ LoopFree /\ batch[s] = {} /\ \E i \in pending[s] : Settled(<<s, i>>)
    \/ LoopFree /\ \E i \in pending[s] : task[<<s, i>>] = "waiting"

(* An open stream never waits for nothing, whatever became of its searches *)
(* and of the pool. (stream.py:228-265)                                    *)
THEOREM StreamsAreNeverStuck == Spec => []NeverStuck
<1>1. Init => HasTasks
  BY DEF Init, HasTasks
<1>2. IInv /\ HasTasks => NeverStuck
  <2> SUFFICES ASSUME IInv, HasTasks, LoopFree, NEW s \in Streams, NEW i \in pending[s]
               PROVE  Settled(<<s, i>>) \/ task[<<s, i>>] = "waiting"
    BY FirstCreated DEF NeverStuck
  <2>1. i \in Slots /\ i \in targets[s] /\ <<s, i>> \in Tasks
    BY DEF IInv, TypeOK, GeneratorBooks
  <2>2. task[<<s, i>>] \in TaskStates \ {"none", "created"}
    BY <2>1 DEF IInv, TypeOK, HasTasks, LoopFree
  <2> QED BY <2>2 DEF TaskStates, Settled
<1> QED BY <1>1, <1>2, HasTasksStep, Inductive, PTL DEF Spec

(* How far an open stream is from its end: targets not yet reported, then  *)
(* the batch in hand, then the tasks still to settle.                      *)
Togo == [x \in TaskStates |-> CASE x = "created" -> 2 [] x = "waiting" -> 1 [] OTHER -> 0]

Mine(s) == {s} \X targets[s]

Nearer ==
  \A s \in Streams : phase[s] = "open" =>
    \/ phase'[s] \in {"done", "aborted", "closed"}
    \/ /\ UNCHANGED <<phase[s], targets[s]>>
       /\ \/ pending'[s] \subseteq pending[s] /\ pending'[s] # pending[s]
          \/ UNCHANGED pending[s] /\ batch[s] = {} /\ batch'[s] # {}
          \/ /\ UNCHANGED <<pending[s], batch[s]>>
             /\ \/ \A t \in Mine(s) : task'[t] = task[t]
                \/ \E t \in Mine(s) : /\ Togo[task'[t]] < Togo[task[t]]
                                      /\ \A u \in Mine(s) \ {t} : task'[u] = task[u]

LEMMA TaskNearer ==
  ASSUME IInv, NEW s \in Streams, NEW u \in Tasks, Submit(u) \/ Deliver(u) \/ Timeout(u)
  PROVE  \/ \A t \in Mine(s) : task'[t] = task[t]
         \/ \E t \in Mine(s) : /\ Togo[task'[t]] < Togo[task[t]]
                               /\ \A v \in Mine(s) \ {t} : task'[v] = task[v]
<1>1. /\ task \in [Tasks -> TaskStates] /\ Mine(s) \subseteq Tasks
      /\ \/ task[u] = "created" /\ task' = [task EXCEPT ![u] = "waiting"]
         \/ /\ task[u] = "waiting"
            /\ \E x \in {"timeout"} \cup Outcomes : task' = [task EXCEPT ![u] = x]
  BY DEF IInv, TypeOK, Mine, Submit, Deliver, Timeout
<1>2. \A t \in Tasks \ {u} : task'[t] = task[t]
  BY <1>1
<1>3. Togo[task'[u]] < Togo[task[u]]
  BY <1>1 DEF Togo, TaskStates, Outcomes
<1> QED BY <1>1, <1>2, <1>3

(* Every step for a stream brings it nearer to its end: with               *)
(* StreamsAreNeverStuck, a stream whose timeouts can fire ends once the    *)
(* event loop runs, even when every provider hangs. (stream.py:228-265)    *)
THEOREM StreamsEnd == Spec => [][Nearer]_vars
<1>1. IInv /\ [Next]_vars => [Nearer]_vars
  <2> SUFFICES ASSUME IInv, Next, NEW d \in Streams, phase[d] = "open"
               PROVE  \/ phase'[d] \in {"done", "aborted", "closed"}
                      \/ /\ UNCHANGED <<phase[d], targets[d]>>
                         /\ \/ pending'[d] \subseteq pending[d] /\ pending'[d] # pending[d]
                            \/ UNCHANGED pending[d] /\ batch[d] = {} /\ batch'[d] # {}
                            \/ /\ UNCHANGED <<pending[d], batch[d]>>
                               /\ \/ \A t \in Mine(d) : task'[t] = task[t]
                                  \/ \E t \in Mine(d) :
                                       /\ Togo[task'[t]] < Togo[task[t]]
                                       /\ \A u \in Mine(d) \ {t} : task'[u] = task[u]
    BY Zenon DEF Nearer
  <2>0. TypeOK /\ GeneratorBooks /\ Mine(d) \subseteq Tasks
    BY DEF IInv, TypeOK, Mine
  <2> DEFINE Still == /\ UNCHANGED <<phase[d], targets[d], pending[d], batch[d]>>
                      /\ \A t \in Mine(d) : task'[t] = task[t]
             Ended == phase'[d] \in {"done", "aborted", "closed"}
  <2>1. ASSUME NEW s \in Streams, NEW names \in Requests, NEW l \in Limits, Open(s, names, l)
        PROVE  Still
    BY <2>0, <2>1 DEF Open, TypeOK, Mine
  <2>2. ASSUME NEW u \in Tasks, Submit(u) \/ Deliver(u) \/ Timeout(u)
        PROVE  UNCHANGED <<phase[d], targets[d], pending[d], batch[d]>>
    BY <2>2 DEF Submit, Deliver, Timeout, streamVars
  <2>3. ASSUME \/ \E s \in Streams, names \in Requests, a, m \in BOOLEAN : Refuse(s, names, a, m)
               \/ \E w \in Workers : StartWork(w)
               \/ \E w \in Workers, o \in Answers : FinishWork(w, o)
        PROVE  Still
    BY <2>0, <2>3 DEF Refuse, StartWork, FinishWork, streamVars, TypeOK
  <2>4. ASSUME NEW s \in Streams, Finish(s) \/ Disconnect(s) \/ \E i \in Slots : Abort(s, i)
        PROVE  Still \/ Ended
    BY <2>0, <2>4 DEF Finish, Disconnect, Abort, TypeOK
  <2>5. ASSUME NEW s \in Streams, Wait(s), s # d PROVE Still
    BY <2>0, <2>5 DEF Wait, TypeOK
  <2>6. ASSUME Wait(d)
        PROVE  UNCHANGED <<phase[d], targets[d], pending[d]>> /\ batch[d] = {} /\ batch'[d] # {}
    BY <2>0, <2>6 DEF Wait, TypeOK
  <2>7. ASSUME NEW s \in Streams, NEW i \in Slots, Emit(s, i), s # d PROVE Still
    BY <2>0, <2>7 DEF Emit, TypeOK
  <2>8. ASSUME NEW i \in Slots, Emit(d, i)
        PROVE  /\ UNCHANGED <<phase[d], targets[d]>>
               /\ pending'[d] \subseteq pending[d] /\ pending'[d] # pending[d]
    <3>1. i \in pending[d]
      BY <2>0, <2>8 DEF Emit, GeneratorBooks
    <3> QED BY <2>0, <2>8, <3>1 DEF Emit, TypeOK
  <2> QED BY <2>1, <2>2, <2>3, <2>4, <2>5, <2>6, <2>7, <2>8, TaskNearer, NextCases
<1> QED BY <1>1, Inductive, PTL DEF Spec
=============================================================================
