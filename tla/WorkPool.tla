------------------------------- MODULE WorkPool -------------------------------
(***************************************************************************)
(* What the work pool promises its producers, without planner, inboxes or  *)
(* counters.  An item is submitted, later its work callback runs on the    *)
(* worker the cookie picked, and then its after-work callback runs on the  *)
(* loop thread; a barrier is never run, only consumed.  The promises:      *)
(*   - a worker runs one item at a time, and takes the ordered items and   *)
(*     the unordered items sent to it each in submission order;            *)
(*   - a barrier is consumed only once every ordered item submitted before *)
(*     it has been released by its worker, and an ordered item submitted   *)
(*     after a barrier starts only once the barrier is consumed;           *)
(*   - every item is eventually done.                                      *)
(* These are the orderings of spec 4.3 and 8 in the form the code keeps    *)
(* them: per worker rather than per class, and for ordered items only      *)
(* across a barrier (the class_order and unordered_era runs show the       *)
(* stronger forms fail).                                                   *)
(* Item phases: none -> queued -> running -> ran -> released, or           *)
(* queued -> freed for a barrier; done holds the items whose after-work    *)
(* callback ran (possible from ran on).                                    *)
(***************************************************************************)
EXTENDS Integers, Sequences

CONSTANTS WorkTypes, Workers, MaxItems, WT_UNORD, WT_BAR

VARIABLES items, phase, done

vars == <<items, phase, done>>

Ids    == 1 .. MaxItems
Phases == {"none", "queued", "running", "ran", "released", "freed"}

IsOrd(i) == items[i].type \notin {WT_UNORD, WT_BAR}
IsBar(i) == items[i].type = WT_BAR
Busy(ph, w) == \E j \in DOMAIN items : items[j].tid = w /\ ph[j] \in {"running", "ran"}

\* Item i may start on its worker when the phases are ph.
CanStart(i, ph) ==
  /\ ph[i] = "queued" /\ ~IsBar(i)
  /\ ~Busy(ph, items[i].tid)
  /\ \A j \in 1 .. i - 1 :
       /\ items[j].tid = items[i].tid /\ ~IsBar(j) /\ IsOrd(j) = IsOrd(i)
            => ph[j] # "queued"
       /\ IsOrd(i) /\ IsBar(j) => ph[j] = "freed"

Submit(t, w) ==
  /\ Len(items) < MaxItems
  /\ items' = Append(items, [id |-> Len(items) + 1, type |-> t, tid |-> w])
  /\ phase' = [phase EXCEPT ![Len(items) + 1] = "queued"]
  /\ UNCHANGED done

\* A barrier is consumed after every earlier barrier, once every ordered
\* item before it is released.
Free(b) ==
  /\ b \in DOMAIN items /\ IsBar(b) /\ phase[b] = "queued"
  /\ \A j \in 1 .. b - 1 : (IsBar(j) => phase[j] = "freed")
                           /\ (IsOrd(j) => phase[j] = "released")
  /\ phase' = [phase EXCEPT ![b] = "freed"]
  /\ UNCHANGED <<items, done>>

Start(i) ==
  /\ i \in DOMAIN items /\ CanStart(i, phase)
  /\ phase' = [phase EXCEPT ![i] = "running"]
  /\ UNCHANGED <<items, done>>

\* The work callback returns.
Run(i) ==
  /\ i \in DOMAIN items /\ phase[i] = "running"
  /\ phase' = [phase EXCEPT ![i] = "ran"]
  /\ UNCHANGED <<items, done>>

\* The worker lets go of i, and may at once take its next item.
Release(i) ==
  /\ i \in DOMAIN items /\ phase[i] = "ran"
  /\ LET ph == [phase EXCEPT ![i] = "released"]
     IN  \/ phase' = ph
         \/ \E j \in DOMAIN items :
              /\ items[j].tid = items[i].tid /\ CanStart(j, ph)
              /\ phase' = [ph EXCEPT ![j] = "running"]
  /\ UNCHANGED <<items, done>>

\* The loop thread runs the after-work callbacks of a batch of items.
Complete(S) ==
  /\ S # {}
  /\ \A i \in S : i \in DOMAIN items /\ ~IsBar(i) /\ i \notin done
                  /\ phase[i] \in {"ran", "released"}
  /\ done' = done \cup S
  /\ UNCHANGED <<items, phase>>

Init ==
  /\ items = <<>>
  /\ phase = [i \in Ids |-> "none"]
  /\ done = {}

Next ==
  \/ \E t \in WorkTypes, w \in Workers : Submit(t, w)
  \/ \E i \in Ids : Free(i) \/ Start(i) \/ Run(i) \/ Release(i)
  \/ \E S \in SUBSET Ids : Complete(S)

Fairness ==
  /\ \A i \in Ids : WF_vars(Free(i)) /\ WF_vars(Start(i))
                    /\ WF_vars(Run(i)) /\ WF_vars(Release(i))
  /\ WF_vars(\E S \in SUBSET Ids : Complete(S))

SafetySpec == Init /\ [][Next]_vars

Spec == SafetySpec /\ Fairness

=============================================================================
