------------------------------- MODULE Gateway -------------------------------
(***************************************************************************)
(* The gateway and the replication leader as producers of the thread pool  *)
(* (spec 4.5 and 4.6; their code is not part of this repository, so these *)
(* actions follow the spec).  All of them run on the loop thread and call  *)
(* pool_queue_work directly, with no producer-side check of the PRE of     *)
(* pool_work_submit: where the code would abort on a failed PRE, the model *)
(* goes on, and the invariant PreRespected reports it.                     *)
(*   - a connection has opened one database and at most one request        *)
(*     outstanding; a second request while one is outstanding is a         *)
(*     protocol error that closes the connection;                          *)
(*   - EXEC and QUERY submit an ordered item of class = database id, and   *)
(*     the after-work callback fills the response;                         *)
(*   - an OPEN that touches the file system submits an unordered item;     *)
(*   - after a commit, the replication leader enqueues a barrier.          *)
(* The cookie of a connection's items is its database id: the spec takes   *)
(* the worker of an ordered item as deterministic per class (spec 5).      *)
(* Shutdown is out of scope here (the ThreadPool runs check it).           *)
(***************************************************************************)
EXTENDS ThreadPool

CONSTANTS
  Conns,    \* client connections
  ConnDb    \* ConnDb[c]: the database id (= ordered class) c has opened

ASSUME ConnDb \in [Conns -> OrdClasses]

VARIABLES
  req,      \* req[c]: id of the item of c's last request, 0 before any
  closed    \* closed[c]: c was closed on a protocol error

gwVars  == <<req, closed>>
allVars == <<vars, gwVars>>

\* The request of c is unresolved: its after-work callback has not run.
Outstanding(c) == req[c] # 0 /\ req[c] \notin completed

\* Request handling: c is open and has nothing outstanding.  The request is
\* handed to the pool as one item of type t with cookie k.
Request(c, t, k) ==
  /\ ~closed[c] /\ ~Outstanding(c)
  /\ pool_queue_work(t, k)
  /\ req' = [req EXCEPT ![c] = Len(submitted) + 1]
  /\ UNCHANGED closed

\* EXEC or QUERY: an ordered item of class db id.
Exec(c) == Request(c, ConnDb[c], ConnDb[c])

\* OPEN touching the file system: an unordered item.
Open(c) == Request(c, WT_UNORD, ConnDb[c])

\* A second request arrives while one is unresolved: PROTOCOL error, the
\* connection is closed.  Its item stays owned by the pool.
ProtocolError(c) ==
  /\ ~closed[c] /\ Outstanding(c)
  /\ closed' = [closed EXCEPT ![c] = TRUE]
  /\ UNCHANGED <<vars, req>>

\* The leader's commit callback: a barrier for the committed database.
ReplicationBarrier(d) ==
  /\ pool_queue_work(WT_BAR, d)
  /\ UNCHANGED gwVars

\* The threads of the pool, with the gateway's state untouched.
PoolStep ==
  /\ \/ Planner
     \/ \E w \in Workers : Worker(w)
     \/ WorkDone
  /\ UNCHANGED gwVars

GwInit ==
  /\ Init
  /\ req = [c \in Conns |-> 0]
  /\ closed = [c \in Conns |-> FALSE]

GwNext ==
  \/ PoolStep
  \/ \E c \in Conns : Exec(c) \/ Open(c) \/ ProtocolError(c)
  \/ \E d \in {ConnDb[c] : c \in Conns} : ReplicationBarrier(d)

\* The pool's threads are scheduled by the OS; clients and the leader are
\* not forced to send anything.
GwFairness ==
  /\ WF_allVars(Planner /\ UNCHANGED gwVars)
  /\ \A w \in Workers : WF_allVars(Worker(w) /\ UNCHANGED gwVars)
  /\ WF_allVars(WorkDone /\ UNCHANGED gwVars)

GwSpec == GwInit /\ [][GwNext]_allVars /\ GwFairness

-----------------------------------------------------------------------------
(* Properties.                                                             *)

\* The ordered and barrier items in submission order.
OrderedSubmissions == SelectSeq(submitted, LAMBDA x : x.type > WT_UNORD)

\* The PRE of pool_work_submit (threadpool.c:445) holds at every submission
\* the gateway and the leader make: two consecutive ordered items with no
\* barrier between them have the same class.  A failure is an abort of the
\* process.
PreRespected ==
  LET o == OrderedSubmissions
  IN  \A i \in 1 .. Len(o) - 1 :
        (o[i].type # WT_BAR /\ o[i + 1].type # WT_BAR) => o[i].type = o[i + 1].type

\* Every request is answered: the after-work callback of its item runs,
\* even when other connections and barriers keep the pool busy.
RequestsAnswered == \A c \in Conns : Outstanding(c) ~> ~Outstanding(c)

=============================================================================
