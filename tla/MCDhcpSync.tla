------------------------------ MODULE MCDhcpSync ------------------------------
(* Addresses, one of which may be a gateway, for TLC.                           *)
EXTENDS DhcpSync, TLC

CONSTANTS e1, e2, g1, d1, r1

MCBumps == (e1 :> {"entries"}) @@ (e2 :> {"entries"}) @@ (g1 :> {"entries", "networks"})
MCShows == (e1 :> {"entries"}) @@ (e2 :> {"entries"}) @@ (g1 :> {"entries", "networks"})
RowBumps == [r \in Row |-> MCBumps[r]]
RowShows == [r \in Row |-> MCShows[r]]

\* The deployment is about the host of e1.
MCWrites == [w \in Writer |-> IF w \in Deployments THEN {e1} ELSE Row \ {e1}]
=============================================================================
