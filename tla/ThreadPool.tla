------------------------------ MODULE ThreadPool ------------------------------
(***************************************************************************)
(* The dqlite work pool, src/lib/threadpool.c.                             *)
(*                                                                         *)
(* Three kinds of thread share the pool:                                   *)
(*   - the loop thread: submits work (pool_queue_work), runs the           *)
(*     after-work callbacks (work_done) and shuts the pool down            *)
(*     (pool_fini / pool_cleanup);                                         *)
(*   - the planner thread: moves items from the two producer queues to     *)
(*     the per-worker inboxes, holding back ordered items behind barriers; *)
(*   - NThreads worker threads: run the work callbacks.                    *)
(*                                                                         *)
(* Every critical section of the pool mutex is one action.  The one place *)
(* where a thread holds the mutex across two actions is the planner        *)
(* between testing its wait condition and entering uv_cond_wait            *)
(* (ppc = "checked"); actions that take the pool mutex are disabled then   *)
(* (MutexFree), actions that do not (pool_cleanup, work_cb, the outq       *)
(* hand-off) may run.                                                      *)
(***************************************************************************)
EXTENDS Integers, Sequences, FiniteSets, SequencesExt

CONSTANTS
  EnvThreadpoolSize,     \* atoi(getenv("POOL_THREADPOOL_SIZE")), or NoEnv
  NoEnv,                 \* the variable is not set
  OrdClasses,            \* the ordered work classes WT_ORD1, WT_ORD2, ...
  Cookies,               \* cookies the producer passes to pool_queue_work
  MaxItems,              \* bound: number of work items submitted
  DrainedBeforeShutdown, \* TRUE: pool_fini only once no item is queued
  ReuseMemory            \* TRUE: a done item's pool_work_t is reused

\* enum pool_work_type: WT_UNORD < WT_BAR < WT_ORD1 < WT_ORD2 < ...
WT_UNORD == 0
WT_BAR   == 1
WT_ORD1  == 2

ASSUME /\ OrdClasses \subseteq Nat \ {WT_UNORD, WT_BAR}
       /\ WT_ORD1 \in OrdClasses
       /\ Cookies \subseteq Nat /\ Cookies # {}
       /\ MaxItems \in Nat
       /\ DrainedBeforeShutdown \in BOOLEAN /\ ReuseMemory \in BOOLEAN

WorkTypes == {WT_UNORD, WT_BAR} \cup OrdClasses

POOL_THREADPOOL_SIZE == 4
MAX_THREADPOOL_SIZE  == 1024

\* pool_threads_init: the number of workers, from the environment variable
\* through the uint32_t cast and the clamp to [1, MAX_THREADPOOL_SIZE].  A
\* negative int casts to a value of at least 2^31, which the clamp maps to
\* MAX_THREADPOOL_SIZE.
ThreadCount(env) ==
  CASE env = NoEnv                -> POOL_THREADPOOL_SIZE
    [] env < 0                    -> MAX_THREADPOOL_SIZE
    [] env = 0                    -> 1
    [] env > MAX_THREADPOOL_SIZE  -> MAX_THREADPOOL_SIZE
    [] OTHER                      -> env

NThreads == ThreadCount(EnvThreadpoolSize)
Workers  == 0 .. NThreads - 1

\* A work item: its submission number (a history field), type, target
\* worker (thread_id = cookie % nthreads) and the memory slot that holds
\* the pool_work_t.
Slots  == 1 .. MaxItems
Item   == [id : 1 .. MaxItems, type : WorkTypes, tid : Workers, slot : Slots]
NoItem == [id |-> 0, type |-> WT_UNORD, tid |-> 0, slot |-> 0]

PlannerStates == {"NOTHING", "DRAINING", "BARRIER", "DRAINING_UNORD", "EXITED"}

\* planner_states[].allowed
Allowed ==
  [NOTHING        |-> {"DRAINING", "EXITED"},
   DRAINING       |-> {"DRAINING", "NOTHING", "BARRIER"},
   BARRIER        |-> {"DRAINING_UNORD", "DRAINING", "BARRIER"},
   DRAINING_UNORD |-> {"BARRIER"},
   EXITED         |-> {}]

VARIABLES
  ordered, unordered,   \* the producer queues pi->ordered, pi->unordered
  inq,                  \* ts[i].inq, one inbox per worker
  outq,                 \* pi->outq, completed items for the loop thread
  outq_async,           \* pi->outq_async: a uv_async_send not yet run
  in_flight,            \* pi->in_flight
  exiting,              \* pi->exiting
  o_prev,               \* pi->o_prev
  qos,                  \* pi->qos, kept modulo 2 (only its parity is read)
  active_ws,            \* pi->active_ws
  ps,                   \* planner_sm state
  ppc,                  \* planner thread: run | checked | waiting | exited
  wpc,                  \* worker threads: idle | run | done | exited
  wcur,                 \* the item a worker holds (local w)
  lpc,                  \* loop thread: run | signal | joinPlanner | joinWorkers | fini
  wi,                   \* pool_cleanup's loop index i
  submitted,            \* history: items in submission order
  begun,                \* history: ids in the order their work_cb started
  freed,                \* history: ids of barriers the planner freed
  completed             \* history: ids whose after-work callback ran

queueVars   == <<ordered, unordered, inq, outq, outq_async>>
plannerVars == <<ps, ppc, qos, in_flight>>
workerVars  == <<wpc, wcur>>
loopVars    == <<lpc, wi, exiting, o_prev, active_ws>>
historyVars == <<submitted, begun, freed, completed>>
vars == <<queueVars, plannerVars, workerVars, loopVars, historyVars>>

-----------------------------------------------------------------------------
(* Queue primitives and helpers.                                           *)

\* Mutant: items are inserted at the head (QUEUE__INSERT_HEAD).
push_Head(q, x) == <<x>> \o q

\* push(): QUEUE__INSERT_TAIL
push(q, x) == Append(q, x)

\* The pool mutex is held by the planner between its wait test and the wait.
MutexFree == ppc # "checked"

\* uv_cond_signal(&pi->planner_cond): wakes the planner if it waits.
SignalPlanner(pc) == IF pc = "waiting" THEN "run" ELSE pc

\* qos_pop(): take from the non-empty queue, or alternate on the parity of
\* qos when both hold items (odd: ordered, even: unordered).
qos_pop(s) ==
  CASE s.o = <<>>    -> [w |-> Head(s.u), o |-> s.o, u |-> Tail(s.u), qos |-> s.qos]
    [] s.u = <<>>    -> [w |-> Head(s.o), o |-> Tail(s.o), u |-> s.u, qos |-> s.qos]
    [] s.qos = 1     -> [w |-> Head(s.o), o |-> Tail(s.o), u |-> s.u, qos |-> 0]
    [] OTHER         -> [w |-> Head(s.u), o |-> s.o, u |-> Tail(s.u), qos |-> 1]

\* Mutant: an ordered item is dispatched without being counted in flight.
DispatchOne_NoCount(s) ==
  LET p == qos_pop(s)
  IN  [s EXCEPT !.o = p.o, !.u = p.u, !.qos = p.qos,
                !.inq[p.w.tid] = push(@, p.w)]

\* One iteration of the DRAINING loop after the barrier test: pop an item,
\* push it to its worker's inbox (and signal it), count it if ordered.
DispatchOne(s) ==
  LET p == qos_pop(s)
  IN  [s EXCEPT !.o = p.o, !.u = p.u, !.qos = p.qos,
                !.inq[p.w.tid] = push(@, p.w),
                !.in_flight = IF p.w.type >= WT_ORD1 THEN @ + 1 ELSE @]

\* The whole DRAINING case: loop while a queue holds items, stop at a
\* barrier at the head of the ordered queue.
RECURSIVE Drain(_)
Drain(s) ==
  IF s.o = <<>> /\ s.u = <<>> THEN [s EXCEPT !.ps = "NOTHING"]
  ELSE IF s.o # <<>> /\ Head(s.o).type = WT_BAR THEN [s EXCEPT !.ps = "BARRIER"]
  ELSE Drain(DispatchOne(s))

-----------------------------------------------------------------------------
(* The planner thread.                                                     *)

\* case PS_NOTHING, nothing to do: test the wait condition (the mutex stays
\* held until PlannerWait).
PlannerIdle ==
  /\ ppc = "run" /\ ps = "NOTHING"
  /\ ordered = <<>> /\ unordered = <<>> /\ ~exiting
  /\ ppc' = "checked"
  /\ UNCHANGED <<queueVars, ps, qos, in_flight, workerVars, loopVars, historyVars>>

\* case PS_NOTHING after the wait loop: sm_move to EXITED (and then case
\* PS_EXITED: sm_fini, unlock, return) or to DRAINING.
PlannerStart ==
  /\ ppc = "run" /\ ps = "NOTHING"
  /\ ~(ordered = <<>> /\ unordered = <<>> /\ ~exiting)
  /\ ps'  = IF exiting THEN "EXITED" ELSE "DRAINING"
  /\ ppc' = IF exiting THEN "exited" ELSE "run"
  /\ UNCHANGED <<queueVars, qos, in_flight, workerVars, loopVars, historyVars>>

\* uv_cond_wait(&pi->planner_cond, mutex): release the mutex and sleep.
PlannerWait ==
  /\ ppc = "checked"
  /\ ppc' = "waiting"
  /\ UNCHANGED <<queueVars, ps, qos, in_flight, workerVars, loopVars, historyVars>>

\* case PS_DRAINING.
PlannerDraining ==
  /\ ppc = "run" /\ ps = "DRAINING"
  /\ LET r == Drain([o |-> ordered, u |-> unordered, inq |-> inq, qos |-> qos,
                     in_flight |-> in_flight, ps |-> ps])
     IN  /\ ordered' = r.o /\ unordered' = r.u /\ inq' = r.inq
         /\ qos' = r.qos /\ in_flight' = r.in_flight /\ ps' = r.ps
  /\ UNCHANGED <<outq, outq_async, ppc, workerVars, loopVars, historyVars>>

PlannerBarrier ==
  /\ ppc = "run" /\ ps = "BARRIER"
  /\ \/ /\ unordered # <<>>
        /\ ps' = "DRAINING_UNORD"
        /\ UNCHANGED <<ordered, ppc, freed>>
     \/ /\ unordered = <<>> /\ in_flight = 0
        /\ ordered' = Tail(ordered)
        /\ freed' = freed \cup {Head(ordered).id}
        /\ ps' = "DRAINING"
        /\ UNCHANGED ppc
     \/ /\ unordered = <<>> /\ in_flight # 0
        /\ ppc' = "checked"
        /\ UNCHANGED <<ordered, ps, freed>>
  /\ UNCHANGED <<unordered, inq, outq, outq_async, qos, in_flight, workerVars, loopVars,
                 submitted, begun, completed>>

\* case PS_DRAINING_UNORD: every unordered item goes to its worker.
PlannerDrainUnord ==
  /\ ppc = "run" /\ ps = "DRAINING_UNORD"
  /\ inq' = FoldLeft(LAMBDA acc, x : [acc EXCEPT ![x.tid] = push(@, x)],
                     inq, unordered)
  /\ unordered' = <<>>
  /\ ps' = "BARRIER"
  /\ UNCHANGED <<ordered, outq, outq_async, ppc, qos, in_flight, workerVars, loopVars,
                 historyVars>>

Planner ==
  \/ PlannerIdle \/ PlannerStart \/ PlannerWait
  \/ PlannerDraining \/ PlannerBarrier \/ PlannerDrainUnord

-----------------------------------------------------------------------------
(* The worker threads.                                                     *)

\* Pop the head of the inbox, unlock, and enter work_cb.
StartWork(w) ==
  /\ wpc'  = [wpc EXCEPT ![w] = "run"]
  /\ wcur' = [wcur EXCEPT ![w] = Head(inq[w])]
  /\ inq'  = [inq EXCEPT ![w] = Tail(@)]
  /\ begun' = Append(begun, Head(inq[w]).id)

\* Woken on ts[w].cond, with the mutex: take an item, or return when the
\* inbox is empty and the pool is exiting.  pool_cleanup signals worker w
\* just before joining it.
WorkerWake(w) ==
  /\ wpc[w] = "idle" /\ MutexFree
  /\ \/ /\ inq[w] # <<>>
        /\ StartWork(w)
     \/ /\ inq[w] = <<>> /\ exiting /\ lpc = "joinWorkers" /\ wi = w
        /\ wpc' = [wpc EXCEPT ![w] = "exited"]
        /\ UNCHANGED <<inq, wcur, begun>>
  /\ UNCHANGED <<ordered, unordered, outq, outq_async, plannerVars, loopVars,
                 submitted, freed, completed>>

\* work_cb returns; the item is pushed to outq and the async is sent.
WorkerComplete(w) ==
  /\ wpc[w] = "run"
  /\ outq' = push(outq, wcur[w]) /\ outq_async' = TRUE
  /\ wpc' = [wpc EXCEPT ![w] = "done"]
  /\ UNCHANGED <<ordered, unordered, inq, wcur, plannerVars, loopVars, historyVars>>

\* What the memory of slot s holds now: the type of the last item placed
\* there.
SlotType(s) == LET last == SelectLastInSeq(submitted, LAMBDA x : x.slot = s)
               IN  submitted[last].type

\* Mutant: w->type is read again after the outq push, from memory that
\* after_work_cb may have freed and the producer reused.
ReleaseInFlight_StaleType(w) ==
  LET ord == SlotType(wcur[w].slot) > WT_BAR
  IN  /\ in_flight' = IF ord THEN in_flight - 1 ELSE in_flight
      /\ ppc' = IF ord /\ in_flight = 1 THEN SignalPlanner(ppc) ELSE ppc

\* Mutant: in_flight is decremented for every item, unordered ones included.
ReleaseInFlight_AllTypes(w) ==
  /\ in_flight' = in_flight - 1
  /\ ppc' = IF in_flight = 1 THEN SignalPlanner(ppc) ELSE ppc

\* Mutant: the planner is not signalled when in_flight drops to zero.
ReleaseInFlight_NoSignal(w) ==
  /\ in_flight' = IF wcur[w].type > WT_BAR THEN in_flight - 1 ELSE in_flight
  /\ UNCHANGED ppc

\* With the pool mutex relocked after work_cb: an ordered item leaves
\* in_flight, and the planner is signalled when in_flight reaches zero.
ReleaseInFlight(w) ==
  LET ord == wcur[w].type > WT_BAR
  IN  /\ in_flight' = IF ord THEN in_flight - 1 ELSE in_flight
      /\ ppc' = IF ord /\ in_flight = 1 THEN SignalPlanner(ppc) ELSE ppc

\* Still holding the mutex, the loop test: take the next item, return if
\* the pool is exiting, or go to sleep on ts[w].cond.
NextOrSleep(w) ==
  \/ /\ inq[w] # <<>>
     /\ StartWork(w)
  \/ /\ inq[w] = <<>> /\ exiting
     /\ wpc' = [wpc EXCEPT ![w] = "exited"]
     /\ wcur' = [wcur EXCEPT ![w] = NoItem]
     /\ UNCHANGED <<inq, begun>>
  \/ /\ inq[w] = <<>> /\ ~exiting
     /\ wpc' = [wpc EXCEPT ![w] = "idle"]
     /\ wcur' = [wcur EXCEPT ![w] = NoItem]
     /\ UNCHANGED <<inq, begun>>

\* The worker relocks the pool mutex after pushing its item to outq.
WorkerFinish(w) ==
  /\ wpc[w] = "done" /\ MutexFree
  /\ ReleaseInFlight(w)
  /\ NextOrSleep(w)
  /\ UNCHANGED <<ordered, unordered, outq, outq_async, ps, qos, loopVars,
                 submitted, freed, completed>>

Worker(w) == WorkerWake(w) \/ WorkerComplete(w) \/ WorkerFinish(w)

-----------------------------------------------------------------------------
(* The loop thread.                                                        *)

\* The precondition of pool_work_submit on ordered items.
OrderedPre(t) ==
  (o_prev # WT_BAR /\ t # WT_BAR) => o_prev = t

\* pool_work_submit(w): record o_prev for ordered and barrier items, push
\* under the pool mutex, signal the planner.  Its PRE is a guard of Submit.
pool_work_submit(x) ==
  /\ o_prev' = IF x.type > WT_UNORD THEN x.type ELSE o_prev
  /\ IF x.type = WT_UNORD
       THEN unordered' = push(unordered, x) /\ UNCHANGED ordered
       ELSE ordered' = push(ordered, x) /\ UNCHANGED unordered
  /\ ppc' = SignalPlanner(ppc)

\* The producer's allocation of a pool_work_t.  With ReuseMemory, the
\* lowest slot whose last item is done (after_work_cb ran, or the planner
\* freed the barrier): freed memory is reused as early as possible.
\* Otherwise every item has fresh memory.
AllocSlot ==
  LET inUse == {x.slot : x \in {y \in ToSet(submitted) :
                                   y.id \notin completed \cup freed}}
  IN  IF ReuseMemory THEN Min(Slots \ inUse) ELSE Len(submitted) + 1

\* Mutant: barriers are registered too.
w_register_AllTypes(t) == active_ws + 1

\* w_register: every item but a barrier is counted in active_ws.
w_register(t) == IF t # WT_BAR THEN active_ws + 1 ELSE active_ws

\* pool_queue_work(pool, w, cookie, ...): w_register (barriers are not
\* counted in active_ws), thread_id = cookie % nthreads, then submit.
pool_queue_work(t, c) ==
  /\ lpc = "run" /\ MutexFree
  /\ Len(submitted) < MaxItems
  /\ LET x == [id |-> Len(submitted) + 1, type |-> t, tid |-> c % NThreads,
                slot |-> AllocSlot]
     IN  /\ submitted' = Append(submitted, x)
         /\ pool_work_submit(x)
  /\ active_ws' = w_register(t)
  /\ UNCHANGED <<inq, outq, outq_async, ps, qos, in_flight, workerVars, lpc, wi, exiting,
                 begun, freed, completed>>

\* A producer that keeps the PRE of pool_work_submit, which the code checks
\* before it touches the queues (a failed PRE aborts the process).
Submit(t, c) ==
  /\ t > WT_UNORD => OrderedPre(t)
  /\ pool_queue_work(t, c)

\* queue_done(w) on the pair <<active_ws, completed>>: w_unregister (whose
\* PRE is has_active_ws), then the after-work callback.
queue_done(s, x) == <<s[1] - 1, s[2] \cup {x.id}>>

\* Mutant: work_done pops one item instead of moving the whole outq.
WorkDone_HeadOnly ==
  /\ lpc = "run" /\ outq_async
  /\ outq_async' = FALSE
  /\ outq' = IF outq = <<>> THEN outq ELSE Tail(outq)
  /\ LET s == FoldLeft(queue_done, <<active_ws, completed>>, SubSeq(outq, 1, 1))
     IN  active_ws' = s[1] /\ completed' = s[2]
  /\ UNCHANGED <<ordered, unordered, inq, plannerVars, workerVars,
                 lpc, wi, exiting, o_prev, submitted, begun, freed>>

\* work_done, the outq_async callback: libuv clears the pending send and
\* runs it once for any number of coalesced sends; it splices outq under
\* outq_mutex (possibly empty, when an earlier run took the items) and
\* runs queue_done on every item in order.
WorkDone ==
  /\ lpc = "run" /\ outq_async
  /\ outq_async' = FALSE
  /\ outq' = <<>>
  /\ LET s == FoldLeft(queue_done, <<active_ws, completed>>, outq)
     IN  active_ws' = s[1] /\ completed' = s[2]
  /\ UNCHANGED <<ordered, unordered, inq, plannerVars, workerVars,
                 lpc, wi, exiting, o_prev, submitted, begun, freed>>

\* What the producer can know before it calls pool_fini: every callback ran.
Drained ==
  /\ active_ws = 0
  /\ DrainedBeforeShutdown => ordered = <<>> /\ unordered = <<>>

\* pool_fini -> pool_cleanup: exiting = true, without the pool mutex.
SetExiting ==
  /\ lpc = "run" /\ Drained
  /\ exiting' = TRUE
  /\ lpc' = "signal"
  /\ UNCHANGED <<queueVars, plannerVars, workerVars, wi, o_prev, active_ws,
                 historyVars>>

\* uv_cond_signal(&pi->planner_cond), without the pool mutex.
WakePlanner ==
  /\ lpc = "signal"
  /\ ppc' = SignalPlanner(ppc)
  /\ lpc' = "joinPlanner"
  /\ UNCHANGED <<queueVars, ps, qos, in_flight, workerVars, wi, exiting,
                 o_prev, active_ws, historyVars>>

\* uv_thread_join(&pi->planner_thread) returns.
JoinPlanner ==
  /\ lpc = "joinPlanner" /\ ppc = "exited"
  /\ lpc' = "joinWorkers"
  /\ wi' = 0
  /\ UNCHANGED <<queueVars, plannerVars, workerVars, exiting, o_prev,
                 active_ws, historyVars>>

\* Worker wi was signalled and uv_thread_join returns; after the last one
\* pool_cleanup and pool_fini finish.
JoinWorker ==
  /\ lpc = "joinWorkers" /\ wpc[wi] = "exited"
  /\ wi' = wi + 1
  /\ lpc' = IF wi + 1 = NThreads THEN "fini" ELSE lpc
  /\ UNCHANGED <<queueVars, plannerVars, workerVars, exiting, o_prev,
                 active_ws, historyVars>>

Loop ==
  \/ \E t \in WorkTypes, c \in Cookies : Submit(t, c)
  \/ WorkDone \/ SetExiting \/ WakePlanner \/ JoinPlanner \/ JoinWorker

-----------------------------------------------------------------------------

\* pool_threads_init: the planner's fields, the producer queues, an empty
\* inbox per worker, and the planner (sm_init in NOTHING) and every worker
\* started before it returns.
pool_threads_init ==
  /\ qos = 0 /\ o_prev = WT_BAR /\ exiting = FALSE /\ in_flight = 0
  /\ ordered = <<>> /\ unordered = <<>>
  /\ inq = [w \in Workers |-> <<>>]
  /\ ps = "NOTHING" /\ ppc = "run"
  /\ wpc = [w \in Workers |-> "idle"]
  /\ wcur = [w \in Workers |-> NoItem]

\* pool_init: a zeroed pool_impl_t (active_ws = 0), an empty outq, then
\* pool_threads_init.
Init ==
  /\ outq = <<>> /\ outq_async = FALSE /\ active_ws = 0
  /\ pool_threads_init
  /\ lpc = "run" /\ wi = 0
  /\ submitted = <<>> /\ begun = <<>> /\ freed = {} /\ completed = {}

Next == Planner \/ (\E w \in Workers : Worker(w)) \/ Loop

\* Every thread is scheduled by the OS: each of its enabled steps happens.
\* The producer's submissions and its decision to shut down are not forced.
Fairness ==
  /\ WF_vars(Planner)
  /\ \A w \in Workers : WF_vars(Worker(w))
  /\ WF_vars(WorkDone)
  /\ WF_vars(WakePlanner) /\ WF_vars(JoinPlanner) /\ WF_vars(JoinWorker)

Spec == Init /\ [][Next]_vars /\ Fairness

-----------------------------------------------------------------------------
(* Invariants and properties.                                              *)

TypeOK ==
  /\ ordered \in Seq(Item) /\ unordered \in Seq(Item)
  /\ inq \in [Workers -> Seq(Item)] /\ outq \in Seq(Item)
  /\ outq_async \in BOOLEAN
  /\ in_flight \in Nat /\ exiting \in BOOLEAN /\ qos \in {0, 1}
  /\ o_prev \in WorkTypes \ {WT_UNORD} /\ active_ws \in Nat
  /\ ps \in PlannerStates
  /\ ppc \in {"run", "checked", "waiting", "exited"}
  /\ wpc \in [Workers -> {"idle", "run", "done", "exited"}]
  /\ wcur \in [Workers -> Item \cup {NoItem}]
  /\ lpc \in {"run", "signal", "joinPlanner", "joinWorkers", "fini"}
  /\ wi \in 0 .. NThreads
  /\ submitted \in Seq(Item) /\ begun \in Seq(1 .. MaxItems)
  /\ freed \subseteq 1 .. MaxItems /\ completed \subseteq 1 .. MaxItems

IsOrdered(x)   == x.type >= WT_ORD1
Submitted      == ToSet(submitted)
Barriers       == {b \in Submitted : b.type = WT_BAR}
InboxItems     == UNION {ToSet(inq[w]) : w \in Workers}
HeldItems      == {wcur[w] : w \in {v \in Workers : wpc[v] \in {"run", "done"}}}
\* x has left the producer queues for a worker.
Dispatched(x)  == x \notin ToSet(ordered) \cup ToSet(unordered)
\* x was handed to a worker and that worker has finished with it.
Finished(x)    == Dispatched(x) /\ x \notin InboxItems \cup HeldItems

\* in_flight counts exactly the ordered items that the planner has handed
\* to a worker and whose worker has not yet relocked the mutex after
\* running them: the planner's increment (DRAINING) and the worker's
\* decrement agree, so the worker's assert(in_flight > 0) never fires and a
\* barrier never sees zero while an ordered item is still out.
InFlightAccounting ==
  in_flight = Cardinality({x \in InboxItems \cup HeldItems : IsOrdered(x)})

\* active_ws counts exactly the registered items (all but barriers) whose
\* after-work callback has not run, so w_unregister's PRE (has_active_ws)
\* holds and the uint64_t never wraps below zero; and pool_fini's POST
\* (!has_active_ws) can only be met once every callback ran.
ActiveWsAccounting ==
  active_ws = Cardinality({x \in Submitted : x.type # WT_BAR /\ x.id \notin completed})

OrderedClassFifo ==
  \A i, j \in DOMAIN begun :
    LET x == submitted[begun[i]]
        y == submitted[begun[j]]
    IN  (i < j /\ IsOrdered(x) /\ x.type = y.type /\ x.tid = y.tid) => x.id < y.id

\* planner_invariant(), with the state after the move and the state before.
planner_invariant(new, prev, o, u, inflight, ex) ==
  /\ new = "NOTHING" => o = <<>> /\ u = <<>>
  /\ new = "DRAINING" =>
       /\ prev = "BARRIER" => inflight = 0 /\ u = <<>>
       /\ prev = "NOTHING" => u # <<>> \/ o # <<>>
  /\ new = "EXITED" => ex /\ o = <<>> /\ u = <<>>
  /\ new = "BARRIER" =>
       /\ prev = "DRAINING" => o # <<>> /\ Head(o).type = WT_BAR
       /\ prev = "DRAINING_UNORD" => u = <<>>
  /\ new = "DRAINING_UNORD" => u # <<>>

\* sm_move never aborts: every planner state change is allowed by
\* planner_states[] and satisfies planner_invariant() on the queues, the
\* in-flight count and the exiting flag as the move leaves them.
PlannerTransitionsLegal ==
  [][ps' # ps =>
       /\ ps' \in Allowed[ps]
       /\ planner_invariant(ps', ps, ordered', unordered', in_flight', exiting')]_vars

-----------------------------------------------------------------------------
(* Refinement of the abstract pool WorkPool.  An item is queued while it   *)
(* sits in a producer queue or an inbox, running while its worker is in    *)
(* work_cb, ran from the outq push until the worker relocks the mutex, and *)
(* released after that; a barrier is freed when the planner consumes it.   *)

WorkerHolds(i, pc) == \E w \in Workers : wpc[w] = pc /\ wcur[w].id = i

AbsPhase ==
  [i \in 1 .. MaxItems |->
     CASE i > Len(submitted)     -> "none"
       [] i \in freed            -> "freed"
       [] WorkerHolds(i, "run")  -> "running"
       [] WorkerHolds(i, "done") -> "ran"
       [] i \in ToSet(begun)     -> "released"
       [] OTHER                  -> "queued"]

AbsItems == [i \in DOMAIN submitted |->
               [id |-> i, type |-> submitted[i].type, tid |-> submitted[i].tid]]

Abs == INSTANCE WorkPool WITH items <- AbsItems, phase <- AbsPhase, done <- completed

\* The pool, planner and workers together keep the promises of WorkPool:
\* every step of pool_queue_work, the planner, a worker or work_done is a
\* step of the abstract pool (one item at a time per worker, per-worker
\* FIFO for each of the two queues, barriers consumed only after the
\* ordered items before them and holding back the ordered items after);
\* and under the threads' weak fairness every startable item is started,
\* every barrier whose predecessors are released is consumed, and every
\* batch in outq is completed.
ImplementsWorkPool == Abs!Spec

\* pool_fini returns: once pool_cleanup sets exiting, the planner and every
\* worker are joined.
ShutdownCompletes == exiting ~> (lpc = "fini")

\* spec 8.3: "in_flight == 0 whenever the planner is in NOTHING".
InFlightZeroWhenIdle == ps = "NOTHING" => in_flight = 0

\* spec 5: "BAR separates eras: all prior ordered + all prior unordered
\* items complete before any item enqueued after the BAR begins".
WorkCbReturned(x) ==
  x.id \in ToSet(begun) /\ ~\E w \in Workers : wpc[w] = "run" /\ wcur[w] = x

BarrierCompletesEra ==
  \A b \in Barriers, y \in Submitted, x \in Submitted :
    (y.id \in ToSet(begun) /\ b.id < y.id /\ x.id < b.id /\ x.type # WT_BAR)
      => WorkCbReturned(x)

\* spec 8.1: "for any pair of ordered items of the same class, their work
\* callbacks execute in submission order".
SameClassStartsInOrder ==
  \A i, j \in DOMAIN begun :
    LET x == submitted[begun[i]]
        y == submitted[begun[j]]
    IN  (i < j /\ IsOrdered(x) /\ x.type = y.type) => x.id < y.id

=============================================================================
