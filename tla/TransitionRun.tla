------------------------------ MODULE TransitionRun ----------------------------
(***************************************************************************)
(* What an asynchronous transition promises, whatever queues, workers,     *)
(* freezes, retries and crashes it takes: the actions of a job are carried *)
(* out in an order that respects run_after, the transition is entered in   *)
(* the history only when all of them were, and only a job that is in the   *)
(* history may be shown as finished.                                       *)
(***************************************************************************)
CONSTANTS Job, Transition, Action, None, Actions, RunAfter

VARIABLES
  trans,     \* the transition of a job, None before it is created
  done,      \* the actions of a job that were carried out
  recorded,  \* the jobs that have a history entry
  finished   \* the jobs that are shown as finished

vars == <<trans, done, recorded, finished>>

Init ==
  /\ trans = [j \in Job |-> None]
  /\ done = [j \in Job |-> {}]
  /\ recorded = {} /\ finished = {}

Create(j, t) ==
  /\ trans[j] = None
  /\ trans' = [trans EXCEPT ![j] = t]
  /\ UNCHANGED <<done, recorded, finished>>

Carry(j, a) ==
  /\ trans[j] # None
  /\ a \in Actions[trans[j]]
  /\ RunAfter[a] \cap Actions[trans[j]] \subseteq done[j]
  /\ done' = [done EXCEPT ![j] = @ \cup {a}]
  /\ UNCHANGED <<trans, recorded, finished>>

Record(j) ==
  /\ trans[j] # None
  /\ Actions[trans[j]] \subseteq done[j]
  /\ recorded' = recorded \cup {j}
  /\ UNCHANGED <<trans, done, finished>>

Finish(j) ==
  /\ j \in recorded
  /\ finished' = finished \cup {j}
  /\ UNCHANGED <<trans, done, recorded>>

\* A finished job may be killed, or run once more.
Reopen(j) ==
  /\ finished' = finished \ {j}
  /\ UNCHANGED <<trans, done, recorded>>

Next ==
  \E j \in Job :
    \/ \E t \in Transition : Create(j, t)
    \/ \E a \in Action : Carry(j, a)
    \/ Record(j) \/ Finish(j) \/ Reopen(j)

Spec == Init /\ [][Next]_vars
=============================================================================
