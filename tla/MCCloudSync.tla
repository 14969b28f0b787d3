------------------------------ MODULE MCCloudSync ------------------------------
(* Two servers, one of which is there in the beginning: in a new project, or in *)
(* one whose id is that of a project of another provider.                       *)
EXTENDS CloudSync

CONSTANTS s1, s2, p1, p2, f1, f2, x1

With(p, g, o) ==
  [nova |-> [s \in Server |-> IF s = s1
               THEN [alive |-> TRUE, project |-> p, flavor |-> f1, ips |-> {x1}] ELSE None],
   project |-> [q \in Project |-> IF q = p2 THEN "other" ELSE None],
   flavor |-> [f \in Flavor |-> IF f = g THEN "other" ELSE None],
   owner |-> [a \in Address |-> o]]

MCStart == {With(p1, f2, None), With(p2, None, "nobody")}
=============================================================================
