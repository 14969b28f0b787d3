---------------------------- MODULE MCDeployments ----------------------------
(* A deployment, a transition that adds addresses, and one that changes them.  *)
EXTENDS Deployments

CONSTANTS h1, h2, j1, j2, j3

\* 01, 10, 11, 100, 101 (in binary digits, at least two of them) in the order of strings.
MCRank == <<1, 2, 5, 3, 4>>

MCHostOf == [j \in Job |-> IF j = j2 THEN h2 ELSE h1]
MCActions == [j \in Job |->
  IF j = j1 THEN {"clean_hostname", "clean_ipaddresses", "clean_dhcp",
                  "assign_new_hostname", "create_dhcp_entries", "deploy"}
  ELSE IF j = j2 THEN {"assign_additional_hostname", "assign_new_ip"}
  ELSE {"replace_ip", "remove_from_dhcp_entries"}]

\* The first host has been deployed before.
MCRows == [i \in Id |-> IF i = 1
  THEN [address |-> 1, eth |-> h1, hostname |-> 2, dhcp_expose |-> TRUE, is_management |-> FALSE]
  ELSE None]
MCNames == [h \in Host |-> IF h = h1 THEN 1 ELSE None]
=============================================================================
