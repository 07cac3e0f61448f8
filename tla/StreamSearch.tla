---------------------------- MODULE StreamSearch ----------------------------
(***************************************************************************)
(* The SSE search stream of the service (server/routers/stream.py): each   *)
(* request fans one search per target supplier out to a thread pool that   *)
(* ALL requests share, wraps each in asyncio.wait_for, and pushes one      *)
(* event per search as it settles, then {"done": true}.                    *)
(*                                                                         *)
(* Two kinds of actors run here.  The event loop (one thread) opens the    *)
(* requests, submits the work, fires the timers, delivers the answers and  *)
(* runs the generators; the pool's worker threads take work off one FIFO   *)
(* queue and run the provider calls.  A search is a task <<s, i>>: target  *)
(* number i of the request of stream s.  Its life has two halves that the  *)
(* code keeps apart, and that the hazards of the stream come from:         *)
(*   work[t]  what the pool does with it  (concurrent.futures.Future);     *)
(*   task[t]  what the stream waits for   (the asyncio task of _run_one).  *)
(* A timeout settles the task; it takes queued work back, but it cannot    *)
(* stop a search a worker already runs.                                    *)
(***************************************************************************)
EXTENDS Naturals, Sequences, FiniteSets

CONSTANTS
  Streams,        (* requests the service receives                           *)
  Workers,        (* threads of _executor (stream.py:34: eight)              *)
  Names,          (* names a request may list                                *)
  Suppliers,      (* the names in SUPPLIER_LOOKUP                            *)
  AllSuppliers,   (* list(SUPPLIERS): the targets of a request with no list  *)
  Requests,       (* the supplier lists that arrive; <<>> is a blank one     *)
  Limits,         (* the kinds of timeout that arrive, see Limit             *)
  Answers,        (* how a search may end here, see Outcomes                 *)
  MaxTargets,     (* the longest list considered                             *)
  Idle            (* "runs nothing": not a task                              *)

(* A timeout of the request is a float with no bounds: a "finite" one fires, *)
(* an "unbounded" one (inf, or longer than any run) never does, and an       *)
(* "unencodable" one (nan, or below the I-JSON range) fires at once but      *)
(* cannot be written as provider_latency_ms, an I-JSON integer.              *)
Limit == {"finite", "unbounded", "unencodable"}

(* What a search hands back when it is run to its end: the status of the   *)
(* envelope _search_provider_sync encodes, or an exception it let through  *)
(* (the envelope broke the contract).                                      *)
Outcomes == {"ok", "not_found", "provider_error", "raised"}

Slots == 1..MaxTargets
Tasks == Streams \X Slots

ASSUME StreamAssumption ==
  /\ MaxTargets \in Nat
  /\ Suppliers \subseteq Names
  /\ Requests \subseteq Seq(Names)
  /\ AllSuppliers \in Seq(Names)
  /\ \A r \in Requests \cup {AllSuppliers} : Len(r) <= MaxTargets
  /\ Limits \subseteq Limit
  /\ Answers \subseteq Outcomes
  /\ Idle \notin Tasks

VARIABLES
  phase,     (* phase[s]: the life of the request and its generator          *)
  limit,     (* limit[s]: its timeout                                        *)
  targets,   (* targets[s]: positions of target_suppliers                    *)
  pending,   (* pending[s]: the generator's dict of tasks not yet reported   *)
  batch,     (* batch[s]: what is left of the `done` set it iterates over    *)
  sent,      (* sent[t]: how many events were written for target t           *)
  reported,  (* reported[t]: what the last of them said                      *)
  task,      (* task[t]: the asyncio task                                    *)
  work,      (* work[t]: the future in the pool                              *)
  queue,     (* the pool's work queue                                        *)
  worker     (* worker[w]: the task thread w runs, or Idle                   *)

streamVars == <<phase, limit, targets, pending, batch, sent, reported>>
poolVars   == <<work, queue, worker>>
vars       == <<streamVars, task, poolVars>>

NotSent == "not_sent"
Kinds   == {"ok", "not_found", "provider_error",
            "provider_timeout", "stream_failure"}

Phases     == {"idle", "refused", "open", "done", "aborted", "closed"}
TaskStates == {"none", "created", "waiting", "timeout"} \cup Outcomes
WorkStates == {"none", "queued", "running", "cancelled"} \cup Outcomes

Settled(t) == task[t] \in Outcomes \cup {"timeout"}

(* The one event-loop thread runs the first step of every new _run_one     *)
(* before it handles anything else: their callbacks are ahead of it.       *)
LoopFree == \A t \in Tasks : task[t] # "created"

Init ==
  /\ phase    = [s \in Streams |-> "idle"]
  /\ limit    = [s \in Streams |-> "finite"]
  /\ targets  = [s \in Streams |-> {}]
  /\ pending  = [s \in Streams |-> {}]
  /\ batch    = [s \in Streams |-> {}]
  /\ sent     = [t \in Tasks |-> 0]
  /\ reported = [t \in Tasks |-> NotSent]
  /\ task     = [t \in Tasks |-> "none"]
  /\ work     = [t \in Tasks |-> "none"]
  /\ queue    = <<>>
  /\ worker   = [w \in Workers |-> Idle]

-----------------------------------------------------------------------------
(* The request.                                                            *)

(* Unknown names are dropped; a name listed twice is searched twice. *)
Targets(names) ==
  LET listed == IF names = <<>> THEN AllSuppliers ELSE names
  IN  {i \in DOMAIN listed : listed[i] \in Suppliers}

(* 401 for a bad token, 400 for a short mpn or for no supplier left. *)
Refuse(s, names, authorized, longEnough) ==
  /\ LoopFree
  /\ phase[s] = "idle"
  /\ ~authorized \/ ~longEnough \/ Targets(names) = {}
  /\ phase' = [phase EXCEPT ![s] = "refused"]
  /\ UNCHANGED <<limit, targets, pending, batch, sent, reported, task, poolVars>>

(* The first step of generate(): one asyncio task per target. *)
Open(s, names, l) ==
  /\ LoopFree
  /\ phase[s] = "idle"
  /\ Targets(names) # {}
  /\ phase'   = [phase EXCEPT ![s] = "open"]
  /\ limit'   = [limit EXCEPT ![s] = l]
  /\ targets' = [targets EXCEPT ![s] = Targets(names)]
  /\ pending' = [pending EXCEPT ![s] = Targets(names)]
  /\ task'    = [t \in Tasks |-> IF t[1] = s /\ t[2] \in Targets(names)
                                 THEN "created" ELSE task[t]]
  /\ UNCHANGED <<batch, sent, reported, poolVars>>

(* The first step of _run_one: the search joins the pool's queue and its   *)
(* timer starts.  Tasks take this step in the order they were created.     *)
Submit(t) ==
  /\ task[t] = "created"
  /\ \A u \in Tasks : task[u] = "created" => t[2] <= u[2]
  /\ task'  = [task EXCEPT ![t] = "waiting"]
  /\ work'  = [work EXCEPT ![t] = "queued"]
  /\ queue' = Append(queue, t)
  /\ UNCHANGED <<streamVars, worker>>

-----------------------------------------------------------------------------
(* The pool's threads.                                                     *)

(* Mutant: cancelled work is not dropped from the queue. *)
StartWork_HeadBlocks(w) ==
  /\ worker[w] = Idle
  /\ queue # <<>>
  /\ work[Head(queue)] = "queued"
  /\ queue'  = Tail(queue)
  /\ work'   = [work EXCEPT ![Head(queue)] = "running"]
  /\ worker' = [worker EXCEPT ![w] = Head(queue)]
  /\ UNCHANGED <<streamVars, task>>

(* An idle thread takes the head of the queue; a future cancelled while it *)
(* waited there is dropped (set_running_or_notify_cancel).                 *)
StartWork(w) ==
  /\ worker[w] = Idle
  /\ queue # <<>>
  /\ queue' = Tail(queue)
  /\ IF work[Head(queue)] = "queued"
     THEN /\ work'   = [work EXCEPT ![Head(queue)] = "running"]
          /\ worker' = [worker EXCEPT ![w] = Head(queue)]
     ELSE UNCHANGED <<work, worker>>
  /\ UNCHANGED <<streamVars, task>>

(* _search_provider_sync returns o, or raises, whoever still wants it. *)
FinishWork(w, o) ==
  /\ worker[w] # Idle
  /\ work'   = [work EXCEPT ![worker[w]] = o]
  /\ worker' = [worker EXCEPT ![w] = Idle]
  /\ UNCHANGED <<streamVars, task, queue>>

-----------------------------------------------------------------------------
(* The event loop settles a task.                                          *)

(* Mutant: an answer that comes after the timeout still counts. *)
Deliver_Late(t) ==
  /\ LoopFree
  /\ task[t] \in {"waiting", "timeout"}
  /\ work[t] \in Outcomes
  /\ task' = [task EXCEPT ![t] = work[t]]
  /\ UNCHANGED <<streamVars, poolVars>>

(* The answer reaches the task before its timer does. *)
Deliver(t) ==
  /\ LoopFree
  /\ task[t] = "waiting"
  /\ work[t] \in Outcomes
  /\ task' = [task EXCEPT ![t] = work[t]]
  /\ UNCHANGED <<streamVars, poolVars>>

(* Mutant: the future is written off while a thread runs it. *)
Timeout_CancelsRunning(t) ==
  /\ LoopFree
  /\ task[t] = "waiting"
  /\ limit[t[1]] # "unbounded"
  /\ task' = [task EXCEPT ![t] = "timeout"]
  /\ work' = IF work[t] \in {"queued", "running"}
             THEN [work EXCEPT ![t] = "cancelled"] ELSE work
  /\ UNCHANGED <<streamVars, queue, worker>>

(* Mutant: the clock starts when a thread takes the search. *)
Timeout_FromStart(t) ==
  /\ LoopFree
  /\ task[t] = "waiting"
  /\ work[t] # "queued"
  /\ limit[t[1]] # "unbounded"
  /\ task' = [task EXCEPT ![t] = "timeout"]
  /\ UNCHANGED <<streamVars, poolVars>>

(* The timer fires first.  The clock runs from submission, so it covers    *)
(* the time in the queue.  Queued work is cancelled where it stands; a     *)
(* running search keeps its thread.                                        *)
Timeout(t) ==
  /\ LoopFree
  /\ task[t] = "waiting"
  /\ limit[t[1]] # "unbounded"
  /\ task' = [task EXCEPT ![t] = "timeout"]
  /\ work' = IF work[t] = "queued" THEN [work EXCEPT ![t] = "cancelled"] ELSE work
  /\ UNCHANGED <<streamVars, queue, worker>>

-----------------------------------------------------------------------------
(* The generator.                                                          *)

(* asyncio.wait returns the tasks that are settled when the loop gets to   *)
(* it: one or many.                                                        *)
Wait(s) ==
  LET ready == {i \in pending[s] : Settled(<<s, i>>)}
  IN  /\ LoopFree
      /\ phase[s] = "open"
      /\ batch[s] = {}
      /\ ready # {}
      /\ batch' = [batch EXCEPT ![s] = ready]
      /\ UNCHANGED <<phase, limit, targets, pending, sent, reported, task, poolVars>>

(* How the three arms of the try statement report a settled task. *)
Report(outcome) ==
  IF outcome = "timeout" THEN "provider_timeout"
  ELSE IF outcome = "raised" THEN "stream_failure" ELSE outcome

Encodable(t) == task[t] = "timeout" => limit[t[1]] # "unencodable"

(* The next task of the batch, in the set's own order: popped, reported. *)
Emit(s, i) ==
  /\ LoopFree
  /\ phase[s] = "open"
  /\ i \in batch[s]
  /\ Encodable(<<s, i>>)
  /\ pending'  = [pending EXCEPT ![s] = @ \ {i}]
  /\ batch'    = [batch EXCEPT ![s] = @ \ {i}]
  /\ sent'     = [sent EXCEPT ![<<s, i>>] = @ + 1]
  /\ reported' = [reported EXCEPT ![<<s, i>>] = Report(task[<<s, i>>])]
  /\ UNCHANGED <<phase, limit, targets, task, poolVars>>

(* Writing the timeout envelope raises inside the except arm: the          *)
(* generator dies, and nothing catches it.                                 *)
Abort(s, i) ==
  /\ LoopFree
  /\ phase[s] = "open"
  /\ i \in batch[s]
  /\ ~Encodable(<<s, i>>)
  /\ phase' = [phase EXCEPT ![s] = "aborted"]
  /\ batch' = [batch EXCEPT ![s] = {}]
  /\ UNCHANGED <<limit, targets, pending, sent, reported, task, poolVars>>

(* Mutant: done follows the first batch. *)
Finish_Early(s) ==
  /\ LoopFree
  /\ phase[s] = "open"
  /\ batch[s] = {}
  /\ pending[s] # targets[s]
  /\ phase' = [phase EXCEPT ![s] = "done"]
  /\ UNCHANGED <<limit, targets, pending, batch, sent, reported, task, poolVars>>

(* Nothing pending: the {"done": true} event. *)
Finish(s) ==
  /\ LoopFree
  /\ phase[s] = "open"
  /\ batch[s] = {}
  /\ pending[s] = {}
  /\ phase' = [phase EXCEPT ![s] = "done"]
  /\ UNCHANGED <<limit, targets, pending, batch, sent, reported, task, poolVars>>

(* The client goes away and the generator with it.  Its tasks are not      *)
(* cancelled: their searches and timers run on with nobody to report to.   *)
Disconnect(s) ==
  /\ LoopFree
  /\ phase[s] = "open"
  /\ phase' = [phase EXCEPT ![s] = "closed"]
  /\ batch' = [batch EXCEPT ![s] = {}]
  /\ UNCHANGED <<limit, targets, pending, sent, reported, task, poolVars>>

-----------------------------------------------------------------------------
Generator(s) == Wait(s) \/ Finish(s) \/ \E i \in Slots : Emit(s, i) \/ Abort(s, i)

Next ==
  \/ \E s \in Streams, names \in Requests, a, m \in BOOLEAN : Refuse(s, names, a, m)
  \/ \E s \in Streams, names \in Requests, l \in Limits : Open(s, names, l)
  \/ \E t \in Tasks : Submit(t) \/ Deliver(t) \/ Timeout(t)
  \/ \E w \in Workers : StartWork(w)
  \/ \E w \in Workers, o \in Answers : FinishWork(w, o)
  \/ \E s \in Streams : Wait(s) \/ Finish(s) \/ Disconnect(s)
  \/ \E s \in Streams, i \in Slots : Emit(s, i) \/ Abort(s, i)

Spec == Init /\ [][Next]_vars

(* The event loop keeps running its callbacks and timers.  Nothing is      *)
(* assumed of the providers: a search may hang for ever.                   *)
LoopFairness ==
  /\ \A t \in Tasks : WF_vars(Submit(t)) /\ WF_vars(Deliver(t)) /\ WF_vars(Timeout(t))
  /\ \A s \in Streams : WF_vars(Generator(s))

(* Providers answer in the end, and idle threads take work. *)
PoolFairness ==
  \A w \in Workers :
    WF_vars(StartWork(w)) /\ WF_vars(\E o \in Answers : FinishWork(w, o))

LoopSpec == Spec /\ LoopFairness
FairSpec == LoopSpec /\ PoolFairness

-----------------------------------------------------------------------------
TypeOK ==
  /\ phase    \in [Streams -> Phases]
  /\ limit    \in [Streams -> Limit]
  /\ targets  \in [Streams -> SUBSET Slots]
  /\ pending  \in [Streams -> SUBSET Slots]
  /\ batch    \in [Streams -> SUBSET Slots]
  /\ sent     \in [Tasks -> Nat]
  /\ reported \in [Tasks -> Kinds \cup {NotSent}]
  /\ task     \in [Tasks -> TaskStates]
  /\ work     \in [Tasks -> WorkStates]
  /\ queue    \in Seq(Tasks)
  /\ worker   \in [Workers -> Tasks \cup {Idle}]

(* Each target has at most one event, and a stream that ended with done    *)
(* has written exactly one for each of them: no search is lost between the *)
(* `done` snapshot, the pop and the next wait, and none is reported twice. *)
(* (generate, stream.py:226-265)                                           *)
OneEventPerTarget ==
  \A s \in Streams, i \in Slots :
    /\ sent[<<s, i>>] <= IF i \in targets[s] THEN 1 ELSE 0
    /\ phase[s] = "done" /\ i \in targets[s] => sent[<<s, i>>] = 1

(* An event tells what really became of its own search: a status only when *)
(* a worker ran the search to that very outcome, a timeout only when no    *)
(* answer was taken, whichever way the timer and a late answer raced.      *)
(* (_run_one and the try arms, stream.py:212-262)                          *)
EventsTellTheTruth ==
  \A t \in Tasks :
    reported[t] # NotSent =>
      /\ reported[t] = Report(task[t])
      /\ reported[t] # "provider_timeout" => task[t] = work[t]

(* The shared queue and the threads account for every search exactly once: *)
(* waiting work is in the queue once, running work is on one thread, and a *)
(* thread never holds work that was cancelled, answered or taken by        *)
(* another thread.  (_executor, stream.py:34 and 212-224)                  *)
PoolAccounts ==
  /\ \A m, n \in DOMAIN queue : queue[m] = queue[n] => m = n
  /\ \A n \in DOMAIN queue : work[queue[n]] \in {"queued", "cancelled"}
  /\ \A t \in Tasks : work[t] = "queued" => \E n \in DOMAIN queue : queue[n] = t
  /\ \A t \in Tasks : work[t] = "running" <=> \E w \in Workers : worker[w] = t
  /\ \A v, w \in Workers : worker[v] = worker[w] /\ worker[v] # Idle => v = w

(* The inductive invariant: the generator's books (what is pending was     *)
(* never reported, what is popped was reported once, a batch holds settled *)
(* pending tasks only), the tasks' (an answer is the pool's own, a report  *)
(* follows the settled task) and the pool's.                               *)
GeneratorBooks ==
  \A s \in Streams, i \in Slots :
    /\ i \in batch[s] => i \in pending[s] /\ Settled(<<s, i>>)
    /\ i \in pending[s] => i \in targets[s]
    /\ sent[<<s, i>>] = IF i \in targets[s] /\ i \notin pending[s] THEN 1 ELSE 0
    /\ phase[s] \in {"idle", "refused"} => task[<<s, i>>] = "none" /\ i \notin targets[s]
    /\ phase[s] = "done" => i \notin pending[s]

TaskBooks ==
  \A t \in Tasks :
    /\ task[t] \in {"none", "created"} => work[t] = "none"
    /\ task[t] \in Outcomes => work[t] = task[t]
    /\ reported[t] # NotSent => Settled(t) /\ reported[t] = Report(task[t])

IInv == TypeOK /\ GeneratorBooks /\ TaskBooks /\ PoolAccounts

(* A settled search stays as it was settled: a late answer never replaces  *)
(* a timeout the client was told of.  (asyncio.wait_for, stream.py:213)    *)
SettledOnce ==
  [][\A t \in Tasks : Settled(t) => task'[t] = task[t]]_vars

(* A search taken back from the queue never reaches a provider, although   *)
(* it stays in the queue until a thread comes by.                          *)
CancelledNeverRuns ==
  [][\A t \in Tasks : work[t] = "cancelled" => work'[t] = "cancelled"]_vars

(* Whatever the providers do, hang for ever included, an open stream whose *)
(* timeout can fire and be written ends with the done event, or is left by *)
(* its client: it neither hangs nor breaks off.                            *)
(* (the loop of generate, stream.py:228-265)                               *)
StreamEnds ==
  \A s \in Streams :
    phase[s] = "open" /\ limit[s] = "finite" ~> phase[s] \in {"done", "closed"}

(* If the providers answer in the end, the pool is given back: searches    *)
(* orphaned by a timeout or by a client that left do not hold its threads  *)
(* or its queue for ever.  (_executor is never shut down, stream.py:34)    *)
PoolIsGivenBack ==
  PoolFairness => <>[](queue = <<>> /\ \A w \in Workers : worker[w] = Idle)

(* ADR-007, docs/adrs/ADR-007-parallel-provider-requests.md:26-27: "Slow   *)
(* providers do not block fast provider results in client-side fan-out or  *)
(* streaming workflows."  A search still in the queue when its timer fires *)
(* is then told apart from one a slow provider holds up: it finds a thread *)
(* free for it, rather than every thread held by other, slower searches.   *)
SlowDoesNotBlockFast ==
  [][\A t \in Tasks : work[t] = "queued" /\ task[t] # "timeout" /\ task'[t] = "timeout"
        => \E w \in Workers : worker[w] = Idle]_vars

-----------------------------------------------------------------------------
(* What the browser sees of all this. *)
Contract == INSTANCE StreamContract WITH
  state <- phase,
  owed  <- pending,
  sent  <- [s \in Streams |-> [i \in Slots |-> reported[<<s, i>>]]]

ContractSafety == Contract!SafeSpec
ContractSpec   == Contract!Spec
=============================================================================
