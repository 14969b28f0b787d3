-------------------------- MODULE MCAssetTransitions --------------------------
(* Transitions of both classes of assets, one with a cycle, for TLC.           *)
EXTENDS AssetTransitions, TLC

CONSTANTS a1, a2, u1, u2, pl, us, l1, l2, r1, r2, new, used, sold,
          hire, give_back, lend, rename, relabel, claim, transfer, to_dc, move, to_bo

AllActions ==
  (hire :> {"unassign_user", "assign_user", "assign_licence", "release_report",
            "send_attachments_to_user"})
  @@ (give_back :> {"must_be_user_of_asset", "return_report", "unassign_user", "unassign_owner",
                    "unassign_licences"})
  \* a loan report after the user is assigned, who is assigned after the former user is
  \* unassigned, which is after the loan report
  @@ (lend :> {"assign_requester_as_an_owner", "assign_licence", "unassign_licences",
               "assign_user", "unassign_user", "loan_report"})
  @@ (rename :> {"change_hostname", "assign_requester_as_an_owner"})
  @@ (relabel :> {"assign_hostname_if_empty_or_country_not_match"})
  @@ (claim :> {"assign_requester_as_an_owner", "assign_owner", "unassign_licences",
                "assign_licence"})
  @@ (transfer :> {"must_be_owner_of_asset", "change_user_and_owner", "loan_report"})
  @@ (to_dc :> {"convert_to_data_center_asset"})
  @@ (move :> {"change_rack"})
  @@ (to_bo :> {"convert_to_backoffice_asset"})
AllSource == [t \in {hire, give_back, lend, rename, relabel, claim, transfer, to_dc, move, to_bo}
                |-> IF t = hire THEN {new} ELSE {new, used}]
AllTarget == (hire :> used) @@ (give_back :> new) @@ (lend :> used) @@ (rename :> Keep)
             @@ (relabel :> used) @@ (claim :> used) @@ (transfer :> Keep) @@ (to_dc :> Keep)
             @@ (move :> used) @@ (to_bo :> sold)

\* A cfg takes some of the transitions and assets.
MCActions == [t \in Transition |-> AllActions[t]]
MCSource == [t \in Transition |-> AllSource[t]]
MCTarget == [t \in Transition |-> AllTarget[t]]
MCModel == [t \in Transition |-> IF t \in {move, to_bo} THEN "DataCenter" ELSE "BackOffice"]
MCRegion == [a \in Asset |-> IF a = a1 THEN pl ELSE us]
MCStatuses == [k \in Kind |-> IF k = "BackOffice" THEN {new, used} ELSE {used, sold}]
MCDefault == [k \in Kind |-> used]
=============================================================================
