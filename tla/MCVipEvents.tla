----------------------------- MODULE MCVipEvents -----------------------------
(* Events about two ports of one address; the other one is the address of an asset. *)
EXTENDS VipEvents, TLC

CONSTANTS a1, a2, h1, e1, e2

MCEvent ==
  [kind : {"create", "update"}, address : {a1}, port : Port, cluster : Cluster,
   env : Env \cup {None}]
  \cup [kind : {"delete"}, address : {a1}, port : Port, cluster : {CHOOSE c \in Cluster : TRUE},
        env : {None}]

\* An asset has the other address, as its management address.
MCRows == [i \in Id |-> IF i = 1
  THEN [address |-> a2, owner |-> h1, exposed |-> FALSE, management |-> TRUE] ELSE None]

Symmetry == Permutations(Port) \cup Permutations(Delivery) \cup Permutations(Form)
            \cup Permutations(Env)
=============================================================================
