--------------------------- MODULE MCTransitionJobs ---------------------------
(* A deployment transition, one that keeps the status, one whose actions       *)
(* require each other, and a synchronous one, for TLC.                         *)
EXTENDS TransitionJobs, TLC

CONSTANTS o1, o2, w1, w2, r1, r2, new, used,
          deployment, relabel, knot, release,
          assign, label, deploy, ping, tie, untie

MCAction == {assign, label, deploy, ping, tie, untie}

AllActions == (deployment :> {assign, deploy, ping}) @@ (relabel :> {assign, label})
              @@ (knot :> {tie, untie}) @@ (release :> {})
AllRunAfter == (assign :> {}) @@ (label :> {assign}) @@ (deploy :> {assign}) @@ (ping :> {deploy})
               @@ (tie :> {untie}) @@ (untie :> {tie, deploy})
AllSource == (deployment :> {new}) @@ (relabel :> {new, used}) @@ (knot :> {new})
             @@ (release :> {new, used})
AllTarget == (deployment :> used) @@ (relabel :> Keep) @@ (knot :> used)
             @@ (release :> new)

\* A cfg takes some of the transitions.
MCActions == [t \in Transition |-> AllActions[t]]
MCRunAfter == [a \in Action |-> AllRunAfter[a]]
MCSource == [t \in Transition |-> AllSource[t]]
MCTarget == [t \in Transition |-> AllTarget[t]]

Symmetry == Permutations(Worker) \cup Permutations(PingRequest)
=============================================================================
