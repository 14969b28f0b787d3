--------------------------- MODULE AssetTransitions ---------------------------
(***************************************************************************)
(* Synchronous transitions of assets: run_field_transition                 *)
(* (ralph.lib.transitions.models) with the actions of back office and data *)
(* center assets (ralph.back_office.models, ralph.data_center.models).     *)
(*                                                                         *)
(* A request reads its assets, works on them in memory and, in one         *)
(* transaction, on licences, hostname counters and rows.  Requests         *)
(* interleave; a row that one of them has written is locked until its      *)
(* transaction ends.                                                       *)
(***************************************************************************)
EXTENDS Naturals, FiniteSets

CONSTANTS
  Asset, User, Country, Licence, Status, Request, Transition,
  Actions,       \* the names of the actions of a transition
  Source,        \* the statuses a transition may start from
  Target,        \* the status it sets, or Keep
  Model,         \* "BackOffice" or "DataCenter": the class a transition is for
  Region,        \* the country of an asset's region
  Statuses,      \* the statuses each of the two classes has
  DefaultStatus, \* CONVERT_TO_..._DEFAULT_STATUS_ID of each class
  InitialStatus, \* the status of a new back office asset
  None, Keep

Kind == {"BackOffice", "DataCenter"}

disable_save_object == {"convert_to_data_center_asset", "convert_to_backoffice_asset"}

ASSUME ConfigAssumption ==
  /\ IsFiniteSet(Asset)
  /\ Actions \in [Transition -> SUBSET STRING]
  /\ Region \in [Asset -> Country]
  /\ Model \in [Transition -> Kind]
  /\ Source \in [Transition -> SUBSET Status] /\ Target \in [Transition -> Status \cup {Keep}]
  /\ Statuses \in [Kind -> SUBSET Status] /\ DefaultStatus \in [Kind -> Status]
  /\ \A k \in Kind : DefaultStatus[k] \in Statuses[k]
  /\ InitialStatus \in Statuses["BackOffice"]
  \* only_one_action
  /\ \A t \in Transition : \A x \in Actions[t] \cap disable_save_object : Actions[t] = {x}
  /\ Keep \notin Status /\ None \notin Status \cup User \cup Nat

VARIABLES
  child,     \* child[a][k]: the row of asset a in the table of class k, or None
  hostname,  \* Asset.hostname, which is in the table both classes share
  licences,  \* the rows of BaseObjectLicence
  counter,   \* AssetLastHostname.counter, 0 if a country has no row
  history,   \* the TransitionsHistory rows: which request, which asset
  tx         \* the requests: what they have in memory, what they have written

vars == <<child, hostname, licences, counter, history, tx>>

Hostname == [country : Country, number : Nat]
ChildRow == [status : Status, owner : User \cup {None}, user : User \cup {None}]
Instance == [row : ChildRow, host : Hostname \cup {None}]
\* A write of a row: into which table, and whether the other one loses its row.
Write == [kind : Kind, moved : BOOLEAN, inst : Instance]
Report == [name : {"release", "return", "loan"}, user : User]

\* A request for the assets S: the transition, the assets as they were read and as they
\* are now, the actions performed, the writes that wait for the commit, and what a
\* rollback needs.
RequestFor(S) ==
  [pc : {"new", "run", "done", "failed", "error", "rejected"},
   trans : Transition \cup {None}, requester : User \cup {None},
   snap : [S -> Instance], mem : [S -> Instance],
   performed : SUBSET STRING, reports : SUBSET Report, mailed : BOOLEAN,
   pending : [Asset -> Write \cup {None}],
   touched : SUBSET (Asset \X Licence), had : SUBSET (Asset \X Licence),
   was : [Country -> Nat \cup {None}]]

NewRequest == [pc |-> "new", trans |-> None, requester |-> None, snap |-> <<>>, mem |-> <<>>,
               performed |-> {}, reports |-> {}, mailed |-> FALSE,
               pending |-> [a \in Asset |-> None], touched |-> {}, had |-> {},
               was |-> [c \in Country |-> None]]

\* Types; an instance in memory is complete.
TypeOK ==
  /\ child \in [Asset -> [Kind -> ChildRow \cup {None}]]
  /\ hostname \in [Asset -> Hostname \cup {None}]
  /\ licences \subseteq Asset \X Licence
  /\ counter \in [Country -> Nat]
  /\ history \subseteq Request \X Asset
  /\ tx = [r \in Request |-> tx[r]]
  /\ \A r \in Request : \E S \in SUBSET Asset : tx[r] \in RequestFor(S)

\* At first the assets are new back office assets, used by their owners.
FirstRows ==
  {[k \in Kind |-> IF k = "BackOffice"
      THEN [status |-> InitialStatus, owner |-> u, user |-> u] ELSE None] :
     u \in User \cup {None}}

Init ==
  /\ child \in [Asset -> FirstRows]
  /\ hostname = [a \in Asset |-> None]
  /\ licences = {} /\ history = {}
  /\ counter = [c \in Country |-> 0]
  /\ tx = [r \in Request |-> NewRequest]

-----------------------------------------------------------------------------
(* Locks: whoever writes a row that another open transaction has written waits *)

Open(r) == tx[r].pc = "run"
Objects(r) == DOMAIN tx[r].mem
AssetLocked(r, a) == \E q \in Request \ {r} : Open(q) /\ tx[q].pending[a] # None
LicencesLocked(r, S) ==
  \E q \in Request \ {r} : Open(q) /\ tx[q].touched \cap S # {}
\* Mutant: as in autocommit mode the counter is not locked after the update.
CounterNeverLocked(r, c) == FALSE
CounterLocked(r, c) == \E q \in Request \ {r} : Open(q) /\ tx[q].was[c] # None

\* The tables after the writes w.
Written(w) ==
  /\ child' = [a \in Asset |-> [k \in Kind |->
       IF w[a] = None THEN child[a][k]
       ELSE IF k = w[a].kind THEN w[a].inst.row
       ELSE IF w[a].moved THEN None ELSE child[a][k]]]
  /\ hostname' = [a \in Asset |-> IF w[a] = None THEN hostname[a] ELSE w[a].inst.host]

-----------------------------------------------------------------------------
(* The request: dispatch, the checks, and the end of the transaction *)

Preconditions(t, u, insts) ==
  \A a \in DOMAIN insts :
    /\ "must_be_owner_of_asset" \in Actions[t] => insts[a].row.owner = u
    /\ "must_be_user_of_asset" \in Actions[t] => insts[a].row.user = u
    /\ "return_report" \in Actions[t] => insts[a].row.user # None

\* dispatch reads the objects; the checks look at what it has read.
Dispatch(r) ==
  /\ tx[r].pc = "new"
  /\ \E t \in Transition, u \in User : \E S \in (SUBSET Asset) \ {{}} :
       /\ \A a \in S : child[a][Model[t]] # None
       /\ LET insts == [a \in S |-> [row |-> child[a][Model[t]], host |-> hostname[a]]]
              allowed == /\ \A a \in S : insts[a].row.status \in Source[t]
                         /\ Preconditions(t, u, insts)
          IN tx' = [tx EXCEPT ![r] = [NewRequest EXCEPT
                      !.pc = IF allowed THEN "run" ELSE "rejected",
                      !.trans = t, !.requester = u, !.snap = insts, !.mem = insts]]
  /\ UNCHANGED <<child, hostname, licences, counter, history>>

\* The run_after arguments of the actions.
run_after == {
  <<"assign_user", "unassign_user">>, <<"assign_owner", "unassign_owner">>,
  <<"assign_licence", "unassign_licences">>,
  <<"unassign_owner", "loan_report">>, <<"unassign_owner", "return_report">>,
  <<"unassign_user", "loan_report">>, <<"unassign_user", "return_report">>,
  <<"assign_requester_as_an_owner", "release_report">>,
  <<"release_report", "assign_owner">>, <<"release_report", "assign_user">>,
  <<"send_attachments_to_user", "release_report">>,
  <<"send_attachments_to_user", "return_report">>,
  <<"send_attachments_to_user", "loan_report">>,
  <<"loan_report", "assign_owner">>, <<"loan_report", "assign_user">>,
  <<"loan_report", "assign_loan_end_date">>}

\* Mutant: the graph has no edges.
ReadyAnyOrder(r, name) == name \in Actions[tx[r].trans] \ tx[r].performed

\* The sort may yield an action when those it must come after have been yielded.
Ready(r, name) ==
  LET left == Actions[tx[r].trans] \ tx[r].performed
  IN name \in left /\ \A other \in left : <<name, other>> \notin run_after

Performs(r, name) == Open(r) /\ Ready(r, name)

\* transaction.atomic gives up what the request has written.
RolledBack(r, pc) ==
  /\ licences' = (licences \ tx[r].touched) \cup tx[r].had
  /\ counter' = [c \in Country |-> IF tx[r].was[c] = None THEN counter[c] ELSE tx[r].was[c]]
  /\ tx' = [tx EXCEPT ![r].pc = pc]
  /\ UNCHANGED <<child, hostname, history>>

\* The writes that are pending when every instance has been processed.
Processed(r) ==
  LET t == tx[r].trans
  IN IF Actions[t] \cap disable_save_object # {} THEN tx[r].pending
     ELSE [a \in Asset |-> IF a \notin Objects(r) THEN None ELSE
             [kind |-> Model[t], moved |-> FALSE,
              inst |-> [tx[r].mem[a] EXCEPT
                          !.row.status = IF Target[t] = Keep THEN @ ELSE Target[t]]]]

\* Mutant: an exception ends the loop over the actions, not the function: the
\* instances are saved.
ActionRaisesSaved(r) ==
  /\ Open(r) /\ \E name \in Actions[tx[r].trans] : Ready(r, name)
  /\ Written(Processed(r))
  /\ tx' = [tx EXCEPT ![r].pc = "failed"]
  /\ UNCHANGED <<licences, counter, history>>

\* An action raises: run_field_transition returns False and the transaction commits.
ActionRaises(r) ==
  /\ Open(r) /\ \E name \in Actions[tx[r].trans] : Ready(r, name)
  /\ Written(tx[r].pending)
  /\ tx' = [tx EXCEPT ![r].pc = "failed"]
  /\ UNCHANGED <<licences, counter, history>>

\* A save fails: Django marks the transaction, whoever catches the exception.
DatabaseError(r) == Open(r) /\ RolledBack(r, "error")

\* Mutant: the sort is inside of the try.
CycleErrorCaught(r) ==
  /\ Open(r) /\ tx[r].performed # Actions[tx[r].trans]
  /\ \A name \in Actions[tx[r].trans] : ~ Ready(r, name)
  /\ Written(tx[r].pending)
  /\ tx' = [tx EXCEPT ![r].pc = "failed"]
  /\ UNCHANGED <<licences, counter, history>>

\* Nothing is left to yield, but not everything has been: the generator raises
\* outside of the try.
CycleError(r) ==
  /\ Open(r) /\ tx[r].performed # Actions[tx[r].trans]
  /\ \A name \in Actions[tx[r].trans] : ~ Ready(r, name)
  /\ RolledBack(r, "error")

\* _post_transition_instance_processing of every instance, and the commit.
Finish(r) ==
  /\ Open(r) /\ tx[r].performed = Actions[tx[r].trans]
  /\ \A a \in Objects(r) : ~ AssetLocked(r, a)
  /\ Written(Processed(r))
  /\ history' = history \cup {<<r, a>> : a \in Objects(r)}
  /\ tx' = [tx EXCEPT ![r].pc = "done"]
  /\ UNCHANGED <<licences, counter>>

-----------------------------------------------------------------------------
(* The actions *)

\* An action that only changes the instances in memory.
InMemory(r, name, mem) ==
  /\ Performs(r, name)
  /\ tx' = [tx EXCEPT ![r].performed = @ \cup {name}, ![r].mem = mem]
  /\ UNCHANGED <<child, hostname, licences, counter, history>>

WithUser(r, u) == [a \in Objects(r) |-> [tx[r].mem[a] EXCEPT !.row.user = u]]
WithOwner(r, u) == [a \in Objects(r) |-> [tx[r].mem[a] EXCEPT !.row.owner = u]]

assign_user(r) == \E u \in User : InMemory(r, "assign_user", WithUser(r, u))
unassign_user(r) == InMemory(r, "unassign_user", WithUser(r, None))
assign_owner(r) == \E u \in User : InMemory(r, "assign_owner", WithOwner(r, u))
unassign_owner(r) == InMemory(r, "unassign_owner", WithOwner(r, None))

\* Without an owner in the form the user becomes the owner, too.
change_user_and_owner(r) ==
  \E u, o \in User :
    InMemory(r, "change_user_and_owner",
             [a \in Objects(r) |-> [tx[r].mem[a] EXCEPT !.row.user = u, !.row.owner = o]])

\* The fields no property tells apart: dates, remarks, warehouse, rack, ...
other_fields == {"assign_loan_end_date", "unassign_loan_end_date", "assign_warehouse",
                 "assign_office_infrastructure", "add_remarks", "assign_task_url",
                 "last_status", "hardware_replacement", "accept_asset_release_agreement",
                 "must_be_owner_of_asset", "must_be_user_of_asset", "change_rack"}
SetOtherField(r) == \E name \in other_fields : InMemory(r, name, tx[r].mem)

\* The assets S are saved as they are in mem.
Saved(r, S, mem) ==
  [a \in Asset |-> IF a \notin S THEN tx[r].pending[a]
                   ELSE [kind |-> Model[tx[r].trans], moved |-> FALSE, inst |-> mem[a]]]

\* It saves the whole instance at once.
assign_requester_as_an_owner(r) ==
  LET mem == WithOwner(r, tx[r].requester)
  IN /\ Performs(r, "assign_requester_as_an_owner")
     /\ \A a \in Objects(r) : ~ AssetLocked(r, a)
     /\ tx' = [tx EXCEPT
          ![r].performed = @ \cup {"assign_requester_as_an_owner"}, ![r].mem = mem,
          ![r].pending = Saved(r, Objects(r), mem)]
     /\ UNCHANGED <<child, hostname, licences, counter, history>>

\* get_or_create for every instance and licence.
assign_licence(r) ==
  \E L \in SUBSET Licence :
    LET created == (Objects(r) \X L) \ licences
    IN /\ Performs(r, "assign_licence")
       /\ ~ LicencesLocked(r, Objects(r) \X L)
       /\ licences' = licences \cup created
       /\ tx' = [tx EXCEPT ![r].performed = @ \cup {"assign_licence"},
                           ![r].touched = @ \cup created]
       /\ UNCHANGED <<child, hostname, counter, history>>

unassign_licences(r) ==
  LET gone == licences \cap (Objects(r) \X Licence)
  IN /\ Performs(r, "unassign_licences")
     /\ ~ LicencesLocked(r, Objects(r) \X Licence)
     /\ licences' = licences \ gone
     /\ tx' = [tx EXCEPT ![r].performed = @ \cup {"unassign_licences"},
                         ![r].touched = @ \cup gone,
                         ![r].had = @ \cup (gone \ tx[r].touched)]
     /\ UNCHANGED <<child, hostname, counter, history>>

\* AssetLastHostname.increment_hostname once for every asset of S.
Asked(S, country, c) == Cardinality({a \in S : country[a] = c})
NextNumbers(r, S, country) ==
  /\ \A a \in S : ~ CounterLocked(r, country[a])
  /\ counter' = [c \in Country |-> counter[c] + Asked(S, country, c)]

\* The assets of S, those whose model's category has a code, get the next numbers.
GenerateHostnames(r, name, S, country) ==
  /\ Performs(r, name)
  /\ NextNumbers(r, S, country)
  /\ \E place \in [S -> 1..Cardinality(S)] :
       LET same(a) == {b \in S : country[b] = country[a]}
       IN /\ \A a \in S : /\ place[a] <= Cardinality(same(a))
                          /\ \A b \in same(a) \ {a} : place[a] # place[b]
          /\ tx' = [tx EXCEPT
               ![r].performed = @ \cup {name},
               ![r].was = [c \in Country |->
                  IF Asked(S, country, c) > 0 /\ @[c] = None THEN counter[c] ELSE @[c]],
               ![r].mem = [a \in Objects(r) |-> IF a \notin S THEN @[a] ELSE
                  [@[a] EXCEPT !.host = [country |-> country[a],
                                         number |-> counter[country[a]] + place[a]]]]]
  /\ UNCHANGED <<child, hostname, licences, history>>

change_hostname(r) ==
  \E S \in SUBSET Objects(r), c \in Country :
    GenerateHostnames(r, "change_hostname", S, [a \in S |-> c])

\* The setting BACK_OFFICE_ASSET_AUTO_ASSIGN_HOSTNAME may be off: no asset gets one.
assign_hostname_if_empty_or_country_not_match(r) ==
  \E S \in SUBSET {a \in Objects(r) : \/ tx[r].mem[a].host = None
                                     \/ tx[r].mem[a].host.country # Region[a]} :
    GenerateHostnames(r, "assign_hostname_if_empty_or_country_not_match", S,
                      [a \in S |-> Region[a]])

\* generate_report is about the user of the first instance and raises without one.
GenerateReport(r, action, name) ==
  LET u == tx[r].mem[CHOOSE a \in Objects(r) : TRUE].row.user
  IN /\ Performs(r, action) /\ u # None
     /\ tx' = [tx EXCEPT ![r].performed = @ \cup {action},
                         ![r].reports = @ \cup {[name |-> name, user |-> u]}]
     /\ UNCHANGED <<child, hostname, licences, counter, history>>

release_report(r) == GenerateReport(r, "release_report", "release")
return_report(r) == GenerateReport(r, "return_report", "return")
loan_report(r) == GenerateReport(r, "loan_report", "loan")

send_attachments_to_user(r) ==
  /\ Performs(r, "send_attachments_to_user")
  /\ tx' = [tx EXCEPT ![r].performed = @ \cup {"send_attachments_to_user"},
                      ![r].mailed = tx[r].reports # {}]
  /\ UNCHANGED <<child, hostname, licences, counter, history>>

\* Mutant: the status of the same name is taken for granted.
ConvertedSameName(k, t, s) ==
  LET wanted == IF Target[t] = Keep THEN s ELSE Target[t]
  IN IF wanted \in Statuses[k] THEN wanted ELSE None

\* _status_converter: the status of the same name, or the default of the class.
Converted(k, t, s) ==
  LET wanted == IF Target[t] = Keep THEN s ELSE Target[t]
  IN IF wanted \in Statuses[k] THEN wanted ELSE DefaultStatus[k]

\* move_parents_models: a new row in the table of class k, which shares the old
\* one's key, and the old row is deleted.  Owner and user are columns of
\* BackOfficeAsset only.
ConvertTo(r, action, k) ==
  /\ Performs(r, action)
  /\ \A a \in Objects(r) : ~ AssetLocked(r, a)
  /\ tx' = [tx EXCEPT ![r].performed = @ \cup {action},
       ![r].pending = [a \in Asset |-> IF a \notin Objects(r) THEN None ELSE
          [kind |-> k, moved |-> TRUE, inst |-> [host |-> tx[r].mem[a].host,
             row |-> [status |-> Converted(k, tx[r].trans, tx[r].mem[a].row.status),
                      owner |-> None, user |-> None]]]]]
  /\ UNCHANGED <<child, hostname, licences, counter, history>>

convert_to_data_center_asset(r) == ConvertTo(r, "convert_to_data_center_asset", "DataCenter")
convert_to_backoffice_asset(r) == ConvertTo(r, "convert_to_backoffice_asset", "BackOffice")

\* An action raises after it has dealt with a part of its assets; what it did to those
\* is committed.  (The conversions are transactions of their own.)
ActionRaisesLate(r) ==
  /\ \/ \E S \in SUBSET Objects(r) :
          /\ Performs(r, "assign_requester_as_an_owner")
          /\ \A a \in S : ~ AssetLocked(r, a)
          /\ Written(Saved(r, S, WithOwner(r, tx[r].requester)))
          /\ UNCHANGED <<licences, counter>>
     \/ \E created \in SUBSET ((Objects(r) \X Licence) \ licences) :
          /\ Performs(r, "assign_licence")
          /\ ~ LicencesLocked(r, created)
          /\ licences' = licences \cup created
          /\ Written(tx[r].pending) /\ UNCHANGED counter
     \/ \E S \in SUBSET Objects(r) : \E country \in [S -> Country] :
          /\ \/ /\ Performs(r, "change_hostname")
                /\ \A a, b \in S : country[a] = country[b]
             \/ /\ Performs(r, "assign_hostname_if_empty_or_country_not_match")
                /\ \A a \in S : country[a] = Region[a]
          /\ NextNumbers(r, S, country)
          /\ Written(tx[r].pending) /\ UNCHANGED licences
  /\ tx' = [tx EXCEPT ![r].pc = "failed"]
  /\ UNCHANGED history

Next ==
  \E r \in Request :
    \/ Dispatch(r) \/ ActionRaises(r) \/ ActionRaisesLate(r) \/ DatabaseError(r) \/ CycleError(r) \/ Finish(r)
    \/ assign_user(r) \/ unassign_user(r) \/ assign_owner(r) \/ unassign_owner(r)
    \/ change_user_and_owner(r) \/ SetOtherField(r) \/ assign_requester_as_an_owner(r)
    \/ assign_licence(r) \/ unassign_licences(r)
    \/ change_hostname(r) \/ assign_hostname_if_empty_or_country_not_match(r)
    \/ release_report(r) \/ return_report(r) \/ loan_report(r) \/ send_attachments_to_user(r)
    \/ convert_to_data_center_asset(r) \/ convert_to_backoffice_asset(r)

Spec == Init /\ [][Next]_vars

-----------------------------------------------------------------------------
(* Properties *)

\* No hostname in use is ahead of its counter, from where it would be given to another
\* asset, whichever requests generate hostnames at the same time and whichever of them
\* are rolled back.  (AssetLastHostname.increment_hostname)
HostnamesAreSpent ==
  \A a \in Asset : hostname[a] # None => hostname[a].number <= counter[hostname[a].country]

\* Every status an asset has got since it was made is one its history tells of: a
\* transition wrote it that performed all of its actions and recorded this asset.  None
\* comes from a transition that failed and was committed all the same, whichever others
\* have saved stale instances over it.  (run_field_transition,
\* _post_transition_instance_processing)
StatusIsRecorded ==
  \A a \in Asset, k \in Kind : child[a][k] # None =>
    \/ k = "BackOffice" /\ child[a][k].status = InitialStatus
    \/ \E r \in Request :
         /\ <<r, a>> \in history /\ Processed(r)[a] # None
         /\ Processed(r)[a].kind = k
         /\ Processed(r)[a].inst.row.status = child[a][k].status

\* What others can read: the licences without those of open transactions, and the tables.
Shown == <<child, hostname, history,
           (licences \ UNION {tx[r].touched : r \in {q \in Request : Open(q)}})
             \cup UNION {tx[r].had : r \in {q \in Request : Open(q)}}>>

Stuck(r) == /\ Open(r) /\ tx[r].performed # Actions[tx[r].trans]
            /\ \A name \in Actions[tx[r].trans] : ~ Ready(r, name)

\* What others can read changes only when a transition ends that performed all of its
\* actions or that had one left to perform, which raised.  Actions that require each
\* other are found out only after the others have been performed: nothing of what those
\* did is ever shown, nor is anything lost of what other transitions did meanwhile.
\* (transaction.atomic, _sort_graph_topologically)
OnlyCommitsShow ==
  [][Shown' # Shown => \E r \in Request :
       Open(r) /\ ~ Stuck(r) /\ tx'[r].pc \in {"done", "failed"}]_vars

\* A return report names the user the asset is taken from, a release or loan report
\* the one it is given to.  (the run_after arguments of BackOfficeAsset's actions)
ReportsAreTrue ==
  \A r \in Request : tx[r].pc = "done" /\ "change_user_and_owner" \notin Actions[tx[r].trans] =>
    LET a == CHOOSE x \in Objects(r) : TRUE
    IN \A p \in tx[r].reports :
         /\ p.name = "return" /\ "unassign_user" \in Actions[tx[r].trans]
              => p.user = tx[r].snap[a].row.user
         /\ p.name \in {"release", "loan"} /\ "assign_user" \in Actions[tx[r].trans]
              => p.user = tx[r].mem[a].row.user
=============================================================================
