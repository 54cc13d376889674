----------------------------- MODULE Replication -----------------------------
(***************************************************************************)
(* The intercepting VFS and the replication hand-off for one database on   *)
(* one node (spec 4.4, 4.5, 6 and 7; no code of theirs is in this          *)
(* repository, so every action follows the spec).                         *)
(*   - A commit buffers its frames and proposes them; the committing       *)
(*     statement is suspended until the future resolves (SQLite holds the  *)
(*     WAL write lock, so one commit is outstanding per database).  On a   *)
(*     follower, propose fails at once with NOT_LEADER.                    *)
(*   - The consensus layer commits or truncates the entry; it also commits *)
(*     entries of other leaders while this node follows.                   *)
(*   - The commit callback (propose's future, spec 6) resolves the future  *)
(*     with the entry's index; the statement resumes and writes its frames *)
(*     to the local WAL (spec 4.4 step 4).  Stepping down or a truncation  *)
(*     rejects it and the WAL is rolled back (nothing was persisted).      *)
(*   - on_commit delivers committed entries in index order, at least once, *)
(*     on every node; apply writes an entry's frames to the local WAL.     *)
(*   - Both writers go through the same VFS path, which ignores an entry   *)
(*     whose index is at most the highest applied (spec 7).                *)
(*   - The node may restart: the WAL is what persists, the highest-applied *)
(*     index is recovered from it, a suspended statement is lost, and the  *)
(*     consensus layer replays on_commit from an earlier index.            *)
(* A write is a model value; an entry carries one write's frames.          *)
(***************************************************************************)
EXTENDS Integers, Sequences, SequencesExt

CONSTANTS
  Txs,          \* writes committed on this node
  OtherTxs,     \* writes committed by other leaders
  NoTx,         \* no write
  MaxRestarts   \* bound: restarts of the node

VARIABLES
  log,        \* the committed consensus log
  pending,    \* the entry this node proposed, neither committed nor truncated
  writer,     \* the write whose statement is suspended in the VFS
  leader,     \* this node leads
  wal,        \* the frames persisted in the local WAL, as entries
  applied,    \* the VFS's highest-applied index
  delivered,  \* the highest index on_commit has delivered
  result,     \* result[t]: none | ok | err, as the statement returned
  restarts    \* restarts so far

vars == <<log, pending, writer, leader, wal, applied, delivered, result, restarts>>

Results == {"none", "ok", "err"}

\* VFS commit on the leader: buffer the frames, propose them, suspend.
Propose(t) ==
  /\ leader /\ writer = NoTx /\ pending = NoTx /\ result[t] = "none"
  /\ pending' = t /\ writer' = t
  /\ UNCHANGED <<log, leader, wal, applied, delivered, result, restarts>>

\* VFS commit on a follower: propose returns NOT_LEADER, the WAL pointer is
\* rolled back and the statement fails.
ProposeNotLeader(t) ==
  /\ ~leader /\ writer = NoTx /\ result[t] = "none"
  /\ result' = [result EXCEPT ![t] = "err"]
  /\ UNCHANGED <<log, pending, writer, leader, wal, applied, delivered, restarts>>

\* Consensus commits the proposed entry, whoever leads by then.
Commit ==
  /\ pending # NoTx
  /\ log' = Append(log, pending) /\ pending' = NoTx
  /\ UNCHANGED <<writer, leader, wal, applied, delivered, result, restarts>>

\* A new leader truncates the uncommitted entry.
Truncate ==
  /\ pending # NoTx /\ ~leader
  /\ pending' = NoTx
  /\ UNCHANGED <<log, writer, leader, wal, applied, delivered, result, restarts>>

\* Another leader commits a write while this node follows.
CommitOther(t) ==
  /\ ~leader /\ pending = NoTx /\ t \notin ToSet(log)
  /\ log' = Append(log, t)
  /\ UNCHANGED <<pending, writer, leader, wal, applied, delivered, result, restarts>>

\* The VFS write path: the frames of entry i are appended to the local WAL
\* unless i is at most the highest applied.  Returns <<wal, applied>>.
vfs_write(i) ==
  IF i > applied THEN <<Append(wal, log[i]), i>> ELSE <<wal, applied>>

\* The commit callback resolves the future with the entry's index; the
\* statement resumes, writes its frames through the VFS and succeeds.
Resolve ==
  /\ writer # NoTx /\ leader /\ writer \in ToSet(log)
  /\ LET k == SelectInSeq(log, LAMBDA x : x = writer)
     IN  wal' = vfs_write(k)[1] /\ applied' = vfs_write(k)[2]
  /\ result' = [result EXCEPT ![writer] = "ok"] /\ writer' = NoTx
  /\ UNCHANGED <<log, pending, leader, delivered, restarts>>

\* The future is rejected (stepped down, or the entry truncated): the WAL is
\* rolled back to the pre-commit position, the statement fails.
Reject ==
  /\ writer # NoTx
  /\ ~leader \/ (writer \notin ToSet(log) /\ pending = NoTx)
  /\ result' = [result EXCEPT ![writer] = "err"] /\ writer' = NoTx
  /\ UNCHANGED <<log, pending, leader, wal, applied, delivered, restarts>>

StepDown ==
  /\ leader /\ leader' = FALSE
  /\ UNCHANGED <<log, pending, writer, wal, applied, delivered, result, restarts>>

BecomeLeader ==
  /\ ~leader /\ pending = NoTx /\ leader' = TRUE
  /\ UNCHANGED <<log, pending, writer, wal, applied, delivered, result, restarts>>

\* on_commit(i): in index order (the next undelivered index) or again;
\* apply(entry) writes it through the VFS.
OnCommit(i) ==
  /\ i \in 1 .. Len(log) /\ i <= delivered + 1
  /\ delivered' = IF i > delivered THEN i ELSE delivered
  /\ wal' = vfs_write(i)[1] /\ applied' = vfs_write(i)[2]
  /\ UNCHANGED <<log, pending, writer, leader, result, restarts>>

\* The node restarts; consensus replays on_commit after index from.  The
\* suspended statement's connection is gone, its result never returned.
Restart(from) ==
  /\ restarts < MaxRestarts /\ from \in 0 .. delivered
  /\ applied' = Len(wal) /\ delivered' = from /\ writer' = NoTx /\ leader' = FALSE
  /\ restarts' = restarts + 1
  /\ UNCHANGED <<log, pending, wal, result>>

Init ==
  /\ log = <<>> /\ pending = NoTx /\ writer = NoTx /\ leader = TRUE
  /\ wal = <<>> /\ applied = 0 /\ delivered = 0
  /\ result = [t \in Txs |-> "none"] /\ restarts = 0

Next ==
  \/ \E t \in Txs : Propose(t) \/ ProposeNotLeader(t)
  \/ Commit \/ Truncate \/ Resolve \/ Reject \/ StepDown \/ BecomeLeader
  \/ \E t \in OtherTxs : CommitOther(t)
  \/ \E i \in 1 .. Len(log) : OnCommit(i)
  \/ \E from \in 0 .. delivered : Restart(from)

\* The consensus layer delivers every committed entry (spec 7: at least
\* once); nothing else is forced: leadership, commits and clients are the
\* environment's.
Fairness == WF_vars(\E i \in 1 .. Len(log) : i = delivered + 1 /\ OnCommit(i))

Spec == Init /\ [][Next]_vars /\ Fairness

-----------------------------------------------------------------------------

\* spec 8.4: the WAL frames persisted locally are a prefix of the committed
\* log, with two writers on the leader (its resumed statement and
\* on_commit), duplicate deliveries and restarts that replay the log.
WalIsLogPrefix == IsPrefix(wal, log)

=============================================================================
