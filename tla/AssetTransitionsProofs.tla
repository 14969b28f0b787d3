------------------------ MODULE AssetTransitionsProofs ------------------------
(***************************************************************************)
(* Proofs about AssetTransitions for any assets, countries, licences and   *)
(* transitions, and any number of requests.                                *)
(***************************************************************************)
EXTENDS AssetTransitions, TLAPS, FiniteSetTheorems

-----------------------------------------------------------------------------
(* The inductive invariant *)

Performed(r, name) == name \in tx[r].performed
Wanted(r, name) == name \in Actions[tx[r].trans]

\* An action is performed after those it must come after.
RequestsAreOrderly ==
  \A r \in Request : tx[r].pc # "new" =>
    /\ tx[r].trans \in Transition /\ Objects(r) # {}
    /\ tx[r].performed \subseteq Actions[tx[r].trans]
    /\ \A p \in run_after : Performed(r, p[1]) /\ Wanted(r, p[2]) => Performed(r, p[2])

\* There are history entries of the requests that are done, and of these for every asset.
HistoryIsOfRequestsDone ==
  \A r \in Request :
    /\ tx[r].pc = "done" => tx[r].performed = Actions[tx[r].trans]
    /\ \A a \in Asset : <<r, a>> \in history <=> tx[r].pc = "done" /\ a \in Objects(r)

UserActions == {"assign_user", "unassign_user", "change_user_and_owner"}
ReportAction(name) == IF name = "release" THEN "release_report"
                      ELSE IF name = "return" THEN "return_report" ELSE "loan_report"
First(r) == CHOOSE x \in Objects(r) : TRUE

\* The users of the assets are the former ones as long as nothing has changed them, and a
\* report names the user of the first asset, then as before or from then on.
ReportsNameUsers ==
  \A r \in Request : tx[r].pc # "new" =>
    /\ tx[r].performed \cap UserActions = {} =>
         \A a \in Objects(r) : tx[r].mem[a].row.user = tx[r].snap[a].row.user
    /\ \A p \in tx[r].reports :
         /\ Performed(r, ReportAction(p.name))
         /\ ~ Wanted(r, "change_user_and_owner") =>
              /\ p.name = "return" /\ Wanted(r, "unassign_user") =>
                   p.user = tx[r].snap[First(r)].row.user
              /\ p.name # "return" /\ Wanted(r, "assign_user") =>
                   p.user = tx[r].mem[First(r)].row.user

\* The number h is one a counter has given out, and no rollback of the requests Q takes
\* the counter back behind it.
GivenOut(h, Q) ==
  h # None =>
    /\ h.number <= counter[h.country]
    /\ \A q \in Q : Open(q) /\ tx[q].was[h.country] # None => h.number <= tx[q].was[h.country]

\* One request at a time has a counter, which it has not put back.
CountersAreRight ==
  \A q \in Request, c \in Country : Open(q) /\ tx[q].was[c] # None =>
    /\ tx[q].was[c] <= counter[c]
    /\ \A r \in Request : Open(r) /\ tx[r].was[c] # None => r = q

\* The hostnames of rows, and of the instances and the writes a request has in memory.
RowHosts == {hostname[a] : a \in Asset}
KnownHosts(r) ==
  {tx[r].mem[a].host : a \in Objects(r)} \cup
  {tx[r].pending[a].inst.host : a \in {b \in Asset : tx[r].pending[b] # None}}

\* They have been given out.
HostsAreGivenOut ==
  /\ \A h \in RowHosts : GivenOut(h, Request)
  /\ \A r \in Request : Open(r) => \A h \in KnownHosts(r) : GivenOut(h, Request \ {r})

\* The licences a request found assigned are some of those it has changed, and those it
\* has changed nobody else has.
LicencesAreRight ==
  /\ \A r \in Request : tx[r].had \subseteq tx[r].touched
  /\ \A q, r \in Request : Open(q) /\ Open(r) /\ q # r => tx[q].touched \cap tx[r].touched = {}

\* The statuses of the rows of class k that transitions which tell of asset a have written
\* for it, and the one it was made with.
WhoRecorded(a, k) ==
  {r \in Request : <<r, a>> \in history /\ Processed(r)[a] # None /\ Processed(r)[a].kind = k}
Recorded ==
  [a \in Asset |-> [k \in Kind |->
     (IF k = "BackOffice" THEN {InitialStatus} ELSE {})
       \cup {Processed(r)[a].inst.row.status : r \in WhoRecorded(a, k)}]]

Converts(r) == Actions[tx[r].trans] \cap disable_save_object # {}

\* So are the statuses that wait for a commit, except those of a conversion, which has
\* no action left that could raise.
WaitsRightly(r) ==
  \A a \in Asset : tx[r].pending[a] # None =>
    /\ a \in Objects(r)
    /\ IF Converts(r) THEN tx[r].performed = Actions[tx[r].trans]
       ELSE /\ tx[r].pending[a].kind = Model[tx[r].trans]
            /\ tx[r].pending[a].inst.row.status \in Recorded[a][Model[tx[r].trans]]

\* The statuses of rows, and of the instances and the writes of open requests.
StatusesAreRecorded ==
  /\ \A a \in Asset, k \in Kind : child[a][k] # None => child[a][k].status \in Recorded[a][k]
  /\ \A r \in Request : Open(r) =>
       /\ \A a \in Objects(r) : tx[r].mem[a].row.status \in Recorded[a][Model[tx[r].trans]]
       /\ WaitsRightly(r)

IInv ==
  /\ TypeOK
  /\ RequestsAreOrderly
  /\ HistoryIsOfRequestsDone
  /\ ReportsNameUsers
  /\ CountersAreRight
  /\ HostsAreGivenOut
  /\ LicencesAreRight
  /\ StatusesAreRecorded

-----------------------------------------------------------------------------
(* Types *)

\* What TypeOK says of one request.
LEMMA RequestTypes ==
  ASSUME TypeOK, NEW r \in Request
  PROVE  /\ Objects(r) \in SUBSET Asset
         /\ tx[r] \in RequestFor(Objects(r))
<1>1. PICK S \in SUBSET Asset : tx[r] \in RequestFor(S)
  BY DEF TypeOK
<1>2. tx[r].mem \in [S -> Instance]
  BY <1>1 DEF RequestFor
<1>3. Objects(r) = S
  BY <1>2 DEF Objects
<1> QED
  BY <1>1, <1>3

\* The fields of a request.
LEMMA RequestFields ==
  ASSUME NEW S, NEW q \in RequestFor(S)
  PROVE  /\ q.pc \in {"new", "run", "done", "failed", "error", "rejected"}
         /\ q.trans \in Transition \cup {None} /\ q.requester \in User \cup {None}
         /\ q.snap \in [S -> Instance] /\ q.mem \in [S -> Instance]
         /\ q.performed \in SUBSET STRING /\ q.reports \in SUBSET Report
         /\ q.mailed \in BOOLEAN /\ q.pending \in [Asset -> Write \cup {None}]
         /\ q.touched \in SUBSET (Asset \X Licence) /\ q.had \in SUBSET (Asset \X Licence)
         /\ q.was \in [Country -> Nat \cup {None}]
  BY DEF RequestFor

\* The fields of an instance in memory and of a write.
LEMMA InstanceFields ==
  ASSUME NEW i \in Instance
  PROVE  /\ i.row \in ChildRow /\ i.host \in Hostname \cup {None}
         /\ i.row.status \in Status /\ i.row.owner \in User \cup {None}
         /\ i.row.user \in User \cup {None}
         /\ i.host # None => i.host.country \in Country /\ i.host.number \in Nat
<1>1. i.row \in ChildRow /\ i.host \in Hostname \cup {None}
  BY DEF Instance
<1> QED
  BY <1>1 DEF ChildRow, Hostname

LEMMA WriteFields ==
  ASSUME NEW w \in Write
  PROVE  w.kind \in Kind /\ w.moved \in BOOLEAN /\ w.inst \in Instance
  BY DEF Write

LEMMA NewRequestIsNew ==
  NewRequest \in RequestFor({})
  BY DEF NewRequest, RequestFor

\* Types after a step of one request.
LEMMA OneRequestTyped ==
  ASSUME TypeOK, NEW r \in Request, NEW S \in SUBSET Asset, NEW q \in RequestFor(S),
         tx' = [tx EXCEPT ![r] = q]
  PROVE  /\ (tx = [x \in Request |-> tx[x]])'
         /\ (\A x \in Request : \E T \in SUBSET Asset : tx[x] \in RequestFor(T))'
         /\ tx'[r] = q /\ \A x \in Request \ {r} : tx'[x] = tx[x]
<1>1. tx = [x \in Request |-> tx[x]]
  BY DEF TypeOK
<1>2. tx' = [x \in Request |-> IF x = r THEN q ELSE tx[x]]
  BY <1>1
<1>3. tx'[r] = q /\ \A x \in Request \ {r} : tx'[x] = tx[x]
  BY <1>2
<1>4. (tx = [x \in Request |-> tx[x]])'
  BY <1>2
<1>5. ASSUME NEW x \in Request
      PROVE  \E T \in SUBSET Asset : tx'[x] \in RequestFor(T)
  BY <1>3 DEF TypeOK
<1> QED
  BY <1>3, <1>4, <1>5

-----------------------------------------------------------------------------
(* The actions of a transition *)

ReportActions == {"release_report", "return_report", "loan_report"}
HostActions == {"change_hostname", "assign_hostname_if_empty_or_country_not_match"}
SavingActions == {"assign_requester_as_an_owner"} \cup disable_save_object

\* What an action does to licences: it assigns or unassigns X, which no other request has
\* changed, and notes what it has found assigned.
LicencesStep(r) ==
  \E X :
    /\ ~ LicencesLocked(r, X) /\ tx'[r].touched = tx[r].touched \cup X
    /\ \/ /\ X \cap licences = {} /\ licences' = licences \cup X
          /\ tx'[r].had = tx[r].had
       \/ /\ X \subseteq licences /\ licences' = licences \ X
          /\ tx'[r].had = tx[r].had \cup (X \ tx[r].touched)

LEMMA NoLicences ==
  ASSUME NEW r, licences' = licences, tx'[r].touched = tx[r].touched, tx'[r].had = tx[r].had
  PROVE  LicencesStep(r)
<1>1. ~ LicencesLocked(r, {})
  BY DEF LicencesLocked
<1> QED
  BY <1>1 DEF LicencesStep

\* What every action has in common: it changes its own request only, what it is not
\* about stays as it is, and rows are written at the end.
Step(r, name) ==
  /\ Open(r) /\ Ready(r, name)
  /\ \A q \in Request \ {r} : tx'[q] = tx[q]
  /\ tx'[r].pc = "run" /\ tx'[r].trans = tx[r].trans /\ tx'[r].snap = tx[r].snap
  /\ tx'[r].performed = tx[r].performed \cup {name}
  /\ DOMAIN tx'[r].mem = DOMAIN tx[r].mem
  /\ name \notin UserActions =>
       \A a \in Objects(r) : tx'[r].mem[a].row.user = tx[r].mem[a].row.user
  /\ \A a \in Objects(r) : tx'[r].mem[a].row.status = tx[r].mem[a].row.status
  /\ name \notin ReportActions => tx'[r].reports = tx[r].reports
  /\ name \notin HostActions =>
       /\ counter' = counter /\ tx'[r].was = tx[r].was
       /\ \A a \in Objects(r) : tx'[r].mem[a].host = tx[r].mem[a].host
  /\ name \notin SavingActions => tx'[r].pending = tx[r].pending
  /\ LicencesStep(r)
  /\ UNCHANGED <<child, hostname, history>>

\* The names of the actions of a request under way.
LEMMA PerformedTyped ==
  ASSUME TypeOK, RequestsAreOrderly, NEW r \in Request, NEW name, Performs(r, name)
  PROVE  /\ tx[r].trans \in Transition
         /\ tx[r].performed \cup {name} \in SUBSET STRING
<1>1. tx[r].trans \in Transition
  BY DEF Performs, Open, RequestsAreOrderly
<1>2. Actions[tx[r].trans] \in SUBSET STRING
  BY <1>1, ConfigAssumption
<1>3. name \in Actions[tx[r].trans]
  BY DEF Performs, Ready
<1>4. tx[r].performed \in SUBSET STRING
  BY RequestTypes, RequestFields
<1> QED
  BY <1>1, <1>2, <1>3, <1>4

LEMMA InMemoryStep ==
  ASSUME TypeOK, RequestsAreOrderly, NEW r \in Request, NEW name,
         NEW mem \in [Objects(r) -> Instance], InMemory(r, name, mem),
         name \notin HostActions, \A a \in Objects(r) : mem[a].host = tx[r].mem[a].host,
         name \notin UserActions =>
           \A a \in Objects(r) : mem[a].row.user = tx[r].mem[a].row.user,
         \A a \in Objects(r) : mem[a].row.status = tx[r].mem[a].row.status
  PROVE  TypeOK' /\ Step(r, name) /\ tx'[r].mem = mem
<1> DEFINE q == [tx[r] EXCEPT !.performed = @ \cup {name}, !.mem = mem]
<1>1. tx[r] \in RequestFor(Objects(r)) /\ Objects(r) \in SUBSET Asset
  BY RequestTypes
<1>2. q \in RequestFor(Objects(r))
  <2>1. tx[r].performed \cup {name} \in SUBSET STRING
    BY PerformedTyped DEF InMemory
  <2> QED
    BY <1>1, <2>1 DEF RequestFor
<1>3. tx' = [tx EXCEPT ![r] = q]
  BY DEF InMemory
<1>4. /\ q.pc = tx[r].pc /\ q.trans = tx[r].trans /\ q.snap = tx[r].snap /\ q.was = tx[r].was
      /\ q.performed = tx[r].performed \cup {name} /\ q.mem = mem
      /\ q.reports = tx[r].reports /\ q.pending = tx[r].pending
      /\ q.had = tx[r].had /\ q.touched = tx[r].touched
  BY <1>1 DEF RequestFor
<1> HIDE DEF q
<1>5. /\ (tx = [x \in Request |-> tx[x]])'
      /\ (\A x \in Request : \E T \in SUBSET Asset : tx[x] \in RequestFor(T))'
      /\ tx'[r] = q /\ \A x \in Request \ {r} : tx'[x] = tx[x]
  BY <1>1, <1>2, <1>3, OneRequestTyped
<1>6. TypeOK'
  BY <1>5 DEF TypeOK, InMemory
<1>7. DOMAIN mem = Objects(r)
  OBVIOUS
<1>8. LicencesStep(r)
  BY <1>4, <1>5, NoLicences DEF InMemory
<1>9. /\ Open(r) /\ Ready(r, name) /\ UNCHANGED <<child, hostname, counter, history>>
  BY DEF InMemory, Performs
<1>10. tx'[r].mem = mem
  BY <1>4, <1>5
<1>11. Step(r, name)
  BY <1>4, <1>5, <1>7, <1>8, <1>9, <1>10 DEF Step, Open, Objects
<1> QED
  BY <1>6, <1>10, <1>11

\* The assets with another user or owner.
LEMMA WithAnother ==
  ASSUME TypeOK, NEW r \in Request, NEW u \in User \cup {None}
  PROVE  /\ WithUser(r, u) \in [Objects(r) -> Instance]
         /\ WithOwner(r, u) \in [Objects(r) -> Instance]
         /\ \A a \in Objects(r) :
              /\ WithUser(r, u)[a].host = tx[r].mem[a].host
              /\ WithOwner(r, u)[a].host = tx[r].mem[a].host
              /\ WithOwner(r, u)[a].row.user = tx[r].mem[a].row.user
              /\ WithUser(r, u)[a].row.status = tx[r].mem[a].row.status
              /\ WithOwner(r, u)[a].row.status = tx[r].mem[a].row.status
<1>1. tx[r].mem \in [Objects(r) -> Instance]
  BY RequestTypes, RequestFields
<1>2. ASSUME NEW i \in Instance
      PROVE  /\ [i EXCEPT !.row.user = u] \in Instance
             /\ [i EXCEPT !.row.owner = u] \in Instance
             /\ [i EXCEPT !.row.user = u].host = i.host
             /\ [i EXCEPT !.row.owner = u].host = i.host
             /\ [i EXCEPT !.row.owner = u].row.user = i.row.user
             /\ [i EXCEPT !.row.user = u].row.status = i.row.status
             /\ [i EXCEPT !.row.owner = u].row.status = i.row.status
  BY DEF Instance, ChildRow
<1> QED
  BY <1>1, <1>2 DEF WithUser, WithOwner

LEMMA ChangedUserAndOwner ==
  ASSUME TypeOK, NEW r \in Request, NEW u \in User, NEW o \in User
  PROVE  LET mem == [a \in Objects(r) |->
                       [tx[r].mem[a] EXCEPT !.row.user = u, !.row.owner = o]]
         IN /\ mem \in [Objects(r) -> Instance]
            /\ \A a \in Objects(r) : /\ mem[a].host = tx[r].mem[a].host
                                     /\ mem[a].row.status = tx[r].mem[a].row.status
<1>1. tx[r].mem \in [Objects(r) -> Instance]
  BY RequestTypes, RequestFields
<1>2. ASSUME NEW i \in Instance
      PROVE  /\ [i EXCEPT !.row.user = u, !.row.owner = o] \in Instance
             /\ [i EXCEPT !.row.user = u, !.row.owner = o].host = i.host
             /\ [i EXCEPT !.row.user = u, !.row.owner = o].row.status = i.row.status
  BY DEF Instance, ChildRow
<1> QED
  BY <1>1, <1>2

\* The actions that change the instances in memory.
LEMMA MemoryActionSteps ==
  ASSUME TypeOK, RequestsAreOrderly, NEW r \in Request,
         \/ assign_user(r) \/ unassign_user(r) \/ assign_owner(r) \/ unassign_owner(r)
         \/ change_user_and_owner(r) \/ SetOtherField(r)
  PROVE  TypeOK' /\ \E name : name \notin ReportActions \cup HostActions \cup SavingActions /\ Step(r, name)
<1> USE DEF HostActions, UserActions, ReportActions, SavingActions, disable_save_object
<1>1. CASE assign_user(r)
  <2>1. PICK u \in User : InMemory(r, "assign_user", WithUser(r, u))
    BY <1>1 DEF assign_user
  <2>2. /\ WithUser(r, u) \in [Objects(r) -> Instance]
        /\ \A a \in Objects(r) : WithUser(r, u)[a].host = tx[r].mem[a].host
        /\ \A a \in Objects(r) : WithUser(r, u)[a].row.status = tx[r].mem[a].row.status
    BY WithAnother
  <2>3. TypeOK' /\ Step(r, "assign_user")
    BY <2>1, <2>2, InMemoryStep
  <2> QED
    BY <2>3
<1>2. CASE unassign_user(r)
  <2>1. InMemory(r, "unassign_user", WithUser(r, None))
    BY <1>2 DEF unassign_user
  <2>2. /\ WithUser(r, None) \in [Objects(r) -> Instance]
        /\ \A a \in Objects(r) : WithUser(r, None)[a].host = tx[r].mem[a].host
        /\ \A a \in Objects(r) : WithUser(r, None)[a].row.status = tx[r].mem[a].row.status
    BY WithAnother
  <2>3. TypeOK' /\ Step(r, "unassign_user")
    BY <2>1, <2>2, InMemoryStep
  <2> QED
    BY <2>3
<1>3. CASE assign_owner(r)
  <2>1. PICK u \in User : InMemory(r, "assign_owner", WithOwner(r, u))
    BY <1>3 DEF assign_owner
  <2>2. /\ WithOwner(r, u) \in [Objects(r) -> Instance]
        /\ \A a \in Objects(r) : WithOwner(r, u)[a].host = tx[r].mem[a].host
        /\ \A a \in Objects(r) : WithOwner(r, u)[a].row.user = tx[r].mem[a].row.user
        /\ \A a \in Objects(r) : WithOwner(r, u)[a].row.status = tx[r].mem[a].row.status
    BY WithAnother
  <2>3. TypeOK' /\ Step(r, "assign_owner")
    BY <2>1, <2>2, InMemoryStep
  <2> QED
    BY <2>3
<1>4. CASE unassign_owner(r)
  <2>1. InMemory(r, "unassign_owner", WithOwner(r, None))
    BY <1>4 DEF unassign_owner
  <2>2. /\ WithOwner(r, None) \in [Objects(r) -> Instance]
        /\ \A a \in Objects(r) : WithOwner(r, None)[a].host = tx[r].mem[a].host
        /\ \A a \in Objects(r) : WithOwner(r, None)[a].row.user = tx[r].mem[a].row.user
        /\ \A a \in Objects(r) : WithOwner(r, None)[a].row.status = tx[r].mem[a].row.status
    BY WithAnother
  <2>3. TypeOK' /\ Step(r, "unassign_owner")
    BY <2>1, <2>2, InMemoryStep
  <2> QED
    BY <2>3
<1>5. CASE change_user_and_owner(r)
  <2>1. PICK u \in User, o \in User :
          InMemory(r, "change_user_and_owner",
             [a \in Objects(r) |-> [tx[r].mem[a] EXCEPT !.row.user = u, !.row.owner = o]])
    BY <1>5 DEF change_user_and_owner
  <2> DEFINE mem == [a \in Objects(r) |->
                       [tx[r].mem[a] EXCEPT !.row.user = u, !.row.owner = o]]
  <2>2. /\ mem \in [Objects(r) -> Instance]
        /\ \A a \in Objects(r) : /\ mem[a].host = tx[r].mem[a].host
                                 /\ mem[a].row.status = tx[r].mem[a].row.status
    BY ChangedUserAndOwner
  <2>3. InMemory(r, "change_user_and_owner", mem)
    BY <2>1
  <2> HIDE DEF mem
  <2>4. TypeOK' /\ Step(r, "change_user_and_owner")
    BY <2>2, <2>3, InMemoryStep
  <2> QED
    BY <2>4
<1>6. CASE SetOtherField(r)
  <2>1. PICK name \in other_fields : InMemory(r, name, tx[r].mem)
    BY <1>6 DEF SetOtherField
  <2>2. tx[r].mem \in [Objects(r) -> Instance]
    BY RequestTypes, RequestFields
  <2>3. name \notin UserActions \cup ReportActions \cup HostActions \cup SavingActions
    BY <2>1 DEF other_fields
  <2>4. TypeOK' /\ Step(r, name)
    BY <2>1, <2>2, <2>3, InMemoryStep
  <2> QED
    BY <2>3, <2>4
<1> QED
  BY <1>1, <1>2, <1>3, <1>4, <1>5, <1>6

\* A step to the request q.
LEMMA StepTo ==
  ASSUME TypeOK, NEW r \in Request, NEW q \in RequestFor(Objects(r)),
         tx' = [tx EXCEPT ![r] = q]
  PROVE  /\ (tx = [x \in Request |-> tx[x]])'
         /\ (\A x \in Request : \E T \in SUBSET Asset : tx[x] \in RequestFor(T))'
         /\ tx'[r] = q /\ \A x \in Request \ {r} : tx'[x] = tx[x]
         /\ DOMAIN q.mem = Objects(r)
<1>1. Objects(r) \in SUBSET Asset
  BY RequestTypes
<1>2. q.mem \in [Objects(r) -> Instance]
  BY RequestFields
<1> QED
  BY <1>1, <1>2, OneRequestTyped

\* An asset that is saved is of the transition's class, as it is in memory.
SavedFromMemory(r, w, mem) ==
  \A a \in Asset : w[a] # None =>
    \/ w[a] = tx[r].pending[a]
    \/ /\ a \in Objects(r) /\ w[a].kind = Model[tx[r].trans]
       /\ w[a].inst.host = mem[a].host /\ w[a].inst.row.status = mem[a].row.status

LEMMA SavedTyped ==
  ASSUME TypeOK, RequestsAreOrderly, NEW r \in Request, Open(r), NEW S \in SUBSET Objects(r),
         NEW mem \in [Objects(r) -> Instance]
  PROVE  /\ Saved(r, S, mem) \in [Asset -> Write \cup {None}]
         /\ SavedFromMemory(r, Saved(r, S, mem), mem)
         /\ \A a \in S : /\ Saved(r, S, mem)[a].kind = Model[tx[r].trans]
                         /\ Saved(r, S, mem)[a].inst.host = mem[a].host
                         /\ Saved(r, S, mem)[a].inst.row.status = mem[a].row.status
         /\ \A a \in Asset \ S : Saved(r, S, mem)[a] = tx[r].pending[a]
<1> DEFINE write(a) == [kind |-> Model[tx[r].trans], moved |-> FALSE, inst |-> mem[a]]
<1>1. /\ Objects(r) \in SUBSET Asset
      /\ tx[r].pending \in [Asset -> Write \cup {None}]
  BY RequestTypes, RequestFields
<1>2. Model[tx[r].trans] \in Kind
  BY ConfigAssumption DEF Open, RequestsAreOrderly
<1>3. \A a \in Objects(r) : /\ write(a) \in Write /\ write(a).inst = mem[a]
                            /\ write(a).kind = Model[tx[r].trans]
  BY <1>2 DEF Write
<1>4. \A a \in Asset : Saved(r, S, mem)[a] = IF a \notin S THEN tx[r].pending[a] ELSE write(a)
  BY DEF Saved
<1>5. Saved(r, S, mem) = [a \in Asset |-> Saved(r, S, mem)[a]]
  BY DEF Saved
<1> HIDE DEF write
<1>6. \A a \in Asset : Saved(r, S, mem)[a] \in Write \cup {None}
  BY <1>1, <1>3, <1>4
<1>7. Saved(r, S, mem) \in [Asset -> Write \cup {None}]
  BY <1>5, <1>6
<1>8. SavedFromMemory(r, Saved(r, S, mem), mem)
  BY <1>3, <1>4 DEF SavedFromMemory
<1> QED
  BY <1>1, <1>3, <1>4, <1>7, <1>8

LEMMA SaveOwnerStep ==
  ASSUME TypeOK, RequestsAreOrderly, NEW r \in Request, assign_requester_as_an_owner(r)
  PROVE  /\ TypeOK' /\ Step(r, "assign_requester_as_an_owner")
         /\ SavedFromMemory(r, tx'[r].pending, tx[r].mem)
<1> DEFINE mem == WithOwner(r, tx[r].requester)
           pending == Saved(r, Objects(r), mem)
           q == [tx[r] EXCEPT !.performed = @ \cup {"assign_requester_as_an_owner"},
                              !.mem = mem, !.pending = pending]
<1>1. tx[r] \in RequestFor(Objects(r)) /\ Objects(r) \in SUBSET Asset
  BY RequestTypes
<1>2. /\ mem \in [Objects(r) -> Instance]
      /\ \A a \in Objects(r) : /\ mem[a].host = tx[r].mem[a].host
                               /\ mem[a].row.user = tx[r].mem[a].row.user
                               /\ mem[a].row.status = tx[r].mem[a].row.status
  BY <1>1, RequestFields, WithAnother
<1>3. tx' = [tx EXCEPT ![r] = q]
  BY DEF assign_requester_as_an_owner
<1> HIDE DEF mem
<1>4. Open(r)
  BY DEF assign_requester_as_an_owner, Performs
<1>5. pending \in [Asset -> Write \cup {None}] /\ SavedFromMemory(r, pending, mem)
  BY <1>2, <1>4, SavedTyped
<1> HIDE DEF pending
<1>6. SavedFromMemory(r, pending, tx[r].mem)
  BY <1>2, <1>5 DEF SavedFromMemory
<1>8. q \in RequestFor(Objects(r))
  <2>1. tx[r].performed \cup {"assign_requester_as_an_owner"} \in SUBSET STRING
    BY PerformedTyped DEF assign_requester_as_an_owner
  <2> QED
    BY <1>1, <1>2, <1>5, <2>1 DEF RequestFor
<1>9. /\ q.pc = tx[r].pc /\ q.trans = tx[r].trans /\ q.snap = tx[r].snap /\ q.was = tx[r].was
      /\ q.performed = tx[r].performed \cup {"assign_requester_as_an_owner"} /\ q.mem = mem
      /\ q.reports = tx[r].reports /\ q.pending = pending
      /\ q.had = tx[r].had /\ q.touched = tx[r].touched
  BY <1>1 DEF RequestFor
<1> HIDE DEF q
<1>10. /\ (tx = [x \in Request |-> tx[x]])'
       /\ (\A x \in Request : \E T \in SUBSET Asset : tx[x] \in RequestFor(T))'
       /\ tx'[r] = q /\ \A x \in Request \ {r} : tx'[x] = tx[x]
       /\ DOMAIN q.mem = Objects(r)
  BY <1>3, <1>8, StepTo
<1>11. TypeOK'
  BY <1>10 DEF TypeOK, assign_requester_as_an_owner
<1>12. LicencesStep(r)
  BY <1>9, <1>10, NoLicences DEF assign_requester_as_an_owner
<1>13. Step(r, "assign_requester_as_an_owner")
  BY <1>2, <1>9, <1>10, <1>12
     DEF Step, assign_requester_as_an_owner, Performs, Open, Objects, SavingActions
<1> QED
  BY <1>6, <1>9, <1>10, <1>11, <1>13

LEMMA ConvertStep ==
  ASSUME TypeOK, RequestsAreOrderly, NEW r \in Request, NEW k \in Kind,
         NEW name \in disable_save_object, ConvertTo(r, name, k)
  PROVE  /\ TypeOK' /\ Step(r, name)
         /\ \A a \in Asset : tx'[r].pending[a] # None =>
              a \in Objects(r) /\ tx'[r].pending[a].inst.host = tx[r].mem[a].host
<1> DEFINE row(a) == [status |-> Converted(k, tx[r].trans, tx[r].mem[a].row.status),
                      owner |-> None, user |-> None]
           inst(a) == [host |-> tx[r].mem[a].host, row |-> row(a)]
           write(a) == [kind |-> k, moved |-> TRUE, inst |-> inst(a)]
           pending == [a \in Asset |-> IF a \notin Objects(r) THEN None ELSE write(a)]
           q == [tx[r] EXCEPT !.performed = @ \cup {name}, !.pending = pending]
<1>1. tx[r] \in RequestFor(Objects(r)) /\ Objects(r) \in SUBSET Asset
  BY RequestTypes
<1>2. tx[r].mem \in [Objects(r) -> Instance]
  BY <1>1, RequestFields
<1>3. tx' = [tx EXCEPT ![r] = q]
  BY DEF ConvertTo
<1>4. ASSUME NEW a \in Objects(r)
      PROVE  write(a) \in Write /\ write(a).inst.host = tx[r].mem[a].host
  <2>1. tx[r].mem[a].host \in Hostname \cup {None} /\ tx[r].mem[a].row.status \in Status
    BY <1>2, InstanceFields
  <2>2. tx[r].trans \in Transition
    BY DEF ConvertTo, Performs, Open, RequestsAreOrderly
  <2>3. Converted(k, tx[r].trans, tx[r].mem[a].row.status) \in Status
    BY <2>2, ConfigAssumption DEF Converted
  <2>4. row(a) \in ChildRow
    BY <2>3 DEF ChildRow
  <2>5. inst(a) \in Instance /\ inst(a).host = tx[r].mem[a].host
    <3> HIDE DEF row
    <3> QED
      BY <2>1, <2>4 DEF Instance
  <2> HIDE DEF inst
  <2> QED
    BY <2>5 DEF Write
<1> HIDE DEF write
<1>5. pending \in [Asset -> Write \cup {None}]
  BY <1>1, <1>4
<1>6. \A a \in Asset : pending[a] # None =>
              a \in Objects(r) /\ pending[a].inst.host = tx[r].mem[a].host
  BY <1>4
<1> HIDE DEF pending
<1>7. name \in SavingActions
  BY DEF SavingActions
<1>8. q \in RequestFor(Objects(r))
  <2>1. tx[r].performed \cup {name} \in SUBSET STRING
    BY PerformedTyped DEF ConvertTo
  <2> QED
    BY <1>1, <1>5, <2>1 DEF RequestFor
<1>9. /\ q.pc = tx[r].pc /\ q.trans = tx[r].trans /\ q.snap = tx[r].snap /\ q.was = tx[r].was
      /\ q.performed = tx[r].performed \cup {name} /\ q.mem = tx[r].mem
      /\ q.reports = tx[r].reports /\ q.pending = pending
      /\ q.had = tx[r].had /\ q.touched = tx[r].touched
  BY <1>1 DEF RequestFor
<1> HIDE DEF q
<1>10. /\ (tx = [x \in Request |-> tx[x]])'
       /\ (\A x \in Request : \E T \in SUBSET Asset : tx[x] \in RequestFor(T))'
       /\ tx'[r] = q /\ \A x \in Request \ {r} : tx'[x] = tx[x]
       /\ DOMAIN q.mem = Objects(r)
  BY <1>3, <1>8, StepTo
<1>11. TypeOK'
  BY <1>10 DEF TypeOK, ConvertTo
<1>12. LicencesStep(r)
  BY <1>9, <1>10, NoLicences DEF ConvertTo
<1>13. Step(r, name)
  BY <1>7, <1>9, <1>10, <1>12 DEF Step, ConvertTo, Performs, Open, Objects
<1> QED
  BY <1>6, <1>9, <1>10, <1>11, <1>13

LEMMA LicenceSteps ==
  ASSUME TypeOK, RequestsAreOrderly, NEW r \in Request,
         assign_licence(r) \/ unassign_licences(r)
  PROVE  TypeOK' /\ \E name : /\ name \notin ReportActions \cup HostActions \cup SavingActions
                              /\ Step(r, name)
<1> USE DEF HostActions, UserActions, ReportActions, SavingActions, disable_save_object
<1>1. tx[r] \in RequestFor(Objects(r)) /\ Objects(r) \in SUBSET Asset
  BY RequestTypes
<1>2. tx[r].touched \in SUBSET (Asset \X Licence) /\ tx[r].had \in SUBSET (Asset \X Licence)
  BY <1>1, RequestFields
<1>3. CASE assign_licence(r)
  <2>1. PICK L \in SUBSET Licence :
          LET created == (Objects(r) \X L) \ licences
          IN /\ Performs(r, "assign_licence")
             /\ ~ LicencesLocked(r, Objects(r) \X L)
             /\ licences' = licences \cup created
             /\ tx' = [tx EXCEPT ![r].performed = @ \cup {"assign_licence"},
                                 ![r].touched = @ \cup created]
             /\ UNCHANGED <<child, hostname, counter, history>>
    BY <1>3 DEF assign_licence
  <2> DEFINE created == (Objects(r) \X L) \ licences
             q == [tx[r] EXCEPT !.performed = @ \cup {"assign_licence"},
                                !.touched = @ \cup created]
  <2>2. created \in SUBSET (Asset \X Licence) /\ created \cap licences = {}
    BY <1>1
  <2>12. ~ LicencesLocked(r, created)
    BY <2>1 DEF LicencesLocked
  <2>3. tx' = [tx EXCEPT ![r] = q] /\ licences' = licences \cup created
    BY <2>1
  <2> HIDE DEF created
  <2>4. tx[r].performed \cup {"assign_licence"} \in SUBSET STRING
    BY <2>1, PerformedTyped
  <2>5. tx[r].touched \cup created \in SUBSET (Asset \X Licence)
    BY <1>2, <2>2
  <2>6. q \in RequestFor(Objects(r))
    BY <1>1, <2>4, <2>5 DEF RequestFor
  <2>7. /\ q.pc = tx[r].pc /\ q.trans = tx[r].trans /\ q.snap = tx[r].snap
        /\ q.was = tx[r].was /\ q.mem = tx[r].mem
        /\ q.performed = tx[r].performed \cup {"assign_licence"}
        /\ q.reports = tx[r].reports /\ q.pending = tx[r].pending
        /\ q.had = tx[r].had /\ q.touched = tx[r].touched \cup created
    BY <1>1 DEF RequestFor
  <2> HIDE DEF q
  <2>8. /\ (tx = [x \in Request |-> tx[x]])'
        /\ (\A x \in Request : \E T \in SUBSET Asset : tx[x] \in RequestFor(T))'
        /\ tx'[r] = q /\ \A x \in Request \ {r} : tx'[x] = tx[x]
        /\ DOMAIN q.mem = Objects(r)
    BY <2>3, <2>6, StepTo
  <2>9. licences' \subseteq Asset \X Licence
    BY <2>2, <2>3 DEF TypeOK
  <2>10. TypeOK'
    BY <2>1, <2>8, <2>9 DEF TypeOK
  <2>13. LicencesStep(r)
    BY <2>2, <2>3, <2>7, <2>8, <2>12 DEF LicencesStep
  <2>11. Step(r, "assign_licence")
    BY <2>1, <2>7, <2>8, <2>13 DEF Step, Performs, Open, Objects
  <2> QED
    BY <2>10, <2>11
<1>4. CASE unassign_licences(r)
  <2> DEFINE gone == licences \cap (Objects(r) \X Licence)
             q == [tx[r] EXCEPT !.performed = @ \cup {"unassign_licences"},
                                !.touched = @ \cup gone,
                                !.had = @ \cup (gone \ tx[r].touched)]
  <2>1. /\ Performs(r, "unassign_licences")
        /\ ~ LicencesLocked(r, Objects(r) \X Licence)
        /\ licences' = licences \ gone
        /\ tx' = [tx EXCEPT ![r] = q]
        /\ UNCHANGED <<child, hostname, counter, history>>
    BY <1>4 DEF unassign_licences
  <2>2. gone \in SUBSET (Asset \X Licence) /\ gone \subseteq licences
    BY <1>1
  <2>3. ~ LicencesLocked(r, gone)
    BY <2>1 DEF LicencesLocked
  <2> HIDE DEF gone
  <2>4. tx[r].performed \cup {"unassign_licences"} \in SUBSET STRING
    BY <2>1, PerformedTyped
  <2>5. /\ tx[r].touched \cup gone \in SUBSET (Asset \X Licence)
        /\ tx[r].had \cup (gone \ tx[r].touched) \in SUBSET (Asset \X Licence)
    BY <1>2, <2>2
  <2>6. q \in RequestFor(Objects(r))
    BY <1>1, <2>4, <2>5 DEF RequestFor
  <2>7. /\ q.pc = tx[r].pc /\ q.trans = tx[r].trans /\ q.snap = tx[r].snap
        /\ q.was = tx[r].was /\ q.mem = tx[r].mem
        /\ q.performed = tx[r].performed \cup {"unassign_licences"}
        /\ q.reports = tx[r].reports /\ q.pending = tx[r].pending
        /\ q.had = tx[r].had \cup (gone \ tx[r].touched)
        /\ q.touched = tx[r].touched \cup gone
    BY <1>1 DEF RequestFor
  <2> HIDE DEF q
  <2>8. /\ (tx = [x \in Request |-> tx[x]])'
        /\ (\A x \in Request : \E T \in SUBSET Asset : tx[x] \in RequestFor(T))'
        /\ tx'[r] = q /\ \A x \in Request \ {r} : tx'[x] = tx[x]
        /\ DOMAIN q.mem = Objects(r)
    BY <2>1, <2>6, StepTo
  <2>9. licences' \subseteq Asset \X Licence
    BY <2>1 DEF TypeOK
  <2>10. TypeOK'
    BY <2>1, <2>8, <2>9 DEF TypeOK
  <2>12. LicencesStep(r)
    BY <2>1, <2>2, <2>3, <2>7, <2>8 DEF LicencesStep
  <2>11. Step(r, "unassign_licences")
    BY <2>1, <2>7, <2>8, <2>12 DEF Step, Performs, Open, Objects
  <2> QED
    BY <2>10, <2>11
<1> QED
  BY <1>3, <1>4

\* A report names the user of the first asset, who is there.
LEMMA ReportStep ==
  ASSUME TypeOK, RequestsAreOrderly, NEW r \in Request, NEW action, NEW name,
         GenerateReport(r, action, name),
         name \in {"release", "return", "loan"},
         action \notin HostActions \cup SavingActions \cup UserActions, action \in ReportActions
  PROVE  /\ TypeOK' /\ Step(r, action)
         /\ tx'[r].mem = tx[r].mem
         /\ tx'[r].reports =
              tx[r].reports \cup {[name |-> name, user |-> tx[r].mem[First(r)].row.user]}
<1> DEFINE u == tx[r].mem[First(r)].row.user
           report == [name |-> name, user |-> u]
           q == [tx[r] EXCEPT !.performed = @ \cup {action}, !.reports = @ \cup {report}]
<1>1. tx[r] \in RequestFor(Objects(r)) /\ Objects(r) \in SUBSET Asset
  BY RequestTypes
<1>2. /\ Performs(r, action) /\ u # None
      /\ tx' = [tx EXCEPT ![r] = q]
      /\ UNCHANGED <<child, hostname, licences, counter, history>>
  BY DEF GenerateReport, First
<1>3. report \in Report
  <2>1. First(r) \in Objects(r)
    BY <1>2 DEF First, RequestsAreOrderly, Performs, Open
  <2>2. tx[r].mem[First(r)] \in Instance
    BY <1>1, <2>1, RequestFields
  <2>3. u \in User
    BY <1>2, <2>2, InstanceFields
  <2> HIDE DEF u
  <2> QED
    BY <2>3 DEF Report
<1> HIDE DEF u, report
<1>4. tx[r].performed \cup {action} \in SUBSET STRING
  BY <1>2, PerformedTyped
<1>5. tx[r].reports \cup {report} \in SUBSET Report
  BY <1>1, <1>3, RequestFields
<1>6. q \in RequestFor(Objects(r))
  BY <1>1, <1>4, <1>5 DEF RequestFor
<1>7. /\ q.pc = tx[r].pc /\ q.trans = tx[r].trans /\ q.snap = tx[r].snap
      /\ q.was = tx[r].was /\ q.mem = tx[r].mem
      /\ q.performed = tx[r].performed \cup {action}
      /\ q.reports = tx[r].reports \cup {report} /\ q.pending = tx[r].pending
      /\ q.had = tx[r].had /\ q.touched = tx[r].touched
  BY <1>1 DEF RequestFor
<1> HIDE DEF q
<1>8. /\ (tx = [x \in Request |-> tx[x]])'
      /\ (\A x \in Request : \E T \in SUBSET Asset : tx[x] \in RequestFor(T))'
      /\ tx'[r] = q /\ \A x \in Request \ {r} : tx'[x] = tx[x]
      /\ DOMAIN q.mem = Objects(r)
  BY <1>2, <1>6, StepTo
<1>9. TypeOK'
  BY <1>2, <1>8 DEF TypeOK
<1>10. LicencesStep(r)
  BY <1>2, <1>7, <1>8, NoLicences
<1>11. Step(r, action)
  BY <1>2, <1>7, <1>8, <1>10 DEF Step, Performs, Open, Objects
<1> QED
  BY <1>7, <1>8, <1>9, <1>11 DEF report, u

LEMMA AttachmentsStep ==
  ASSUME TypeOK, RequestsAreOrderly, NEW r \in Request, send_attachments_to_user(r)
  PROVE  TypeOK' /\ Step(r, "send_attachments_to_user")
<1> DEFINE q == [tx[r] EXCEPT !.performed = @ \cup {"send_attachments_to_user"},
                              !.mailed = tx[r].reports # {}]
<1>1. tx[r] \in RequestFor(Objects(r)) /\ Objects(r) \in SUBSET Asset
  BY RequestTypes
<1>2. /\ Performs(r, "send_attachments_to_user")
      /\ tx' = [tx EXCEPT ![r] = q]
      /\ UNCHANGED <<child, hostname, licences, counter, history>>
  BY DEF send_attachments_to_user
<1>3. tx[r].performed \cup {"send_attachments_to_user"} \in SUBSET STRING
  BY <1>2, PerformedTyped
<1>4. (tx[r].reports # {}) \in BOOLEAN
  OBVIOUS
<1>5. q \in RequestFor(Objects(r))
  BY <1>1, <1>3, <1>4 DEF RequestFor
<1>6. /\ q.pc = tx[r].pc /\ q.trans = tx[r].trans /\ q.snap = tx[r].snap
      /\ q.was = tx[r].was /\ q.mem = tx[r].mem
      /\ q.performed = tx[r].performed \cup {"send_attachments_to_user"}
      /\ q.reports = tx[r].reports /\ q.pending = tx[r].pending
      /\ q.had = tx[r].had /\ q.touched = tx[r].touched
  BY <1>1 DEF RequestFor
<1> HIDE DEF q
<1>7. /\ (tx = [x \in Request |-> tx[x]])'
      /\ (\A x \in Request : \E T \in SUBSET Asset : tx[x] \in RequestFor(T))'
      /\ tx'[r] = q /\ \A x \in Request \ {r} : tx'[x] = tx[x]
      /\ DOMAIN q.mem = Objects(r)
  BY <1>2, <1>5, StepTo
<1>8. TypeOK'
  BY <1>2, <1>7 DEF TypeOK
<1>9. LicencesStep(r)
  BY <1>2, <1>6, <1>7, NoLicences
<1>10. Step(r, "send_attachments_to_user")
  BY <1>2, <1>6, <1>7, <1>9 DEF Step, Performs, Open, Objects
<1> QED
  BY <1>8, <1>10

\* What generating hostnames does to the counters: nobody else has a counter that moves,
\* and the request notes where it was.
HostsStep(r) ==
  /\ \A c \in Country :
       /\ counter[c] <= counter'[c]
       /\ counter'[c] # counter[c] => ~ CounterLocked(r, c) /\ tx'[r].was[c] # None
       /\ tx[r].was[c] # None => tx'[r].was[c] = tx[r].was[c]
       /\ tx[r].was[c] = None /\ tx'[r].was[c] # None =>
            ~ CounterLocked(r, c) /\ tx'[r].was[c] = counter[c]
  /\ \A a \in Objects(r) :
       \/ tx'[r].mem[a].host = tx[r].mem[a].host
       \/ LET h == tx'[r].mem[a].host
          IN h.number <= counter'[h.country] /\ ~ CounterLocked(r, h.country)

\* Counters only go up, and only those nobody else has.
CountersGrow(r) ==
  \A c \in Country : /\ counter[c] <= counter'[c]
                     /\ counter'[c] # counter[c] => ~ CounterLocked(r, c)

\* How many assets ask for a number of a country.
LEMMA AskedTyped ==
  ASSUME TypeOK, NEW r \in Request, NEW S \in SUBSET Objects(r), NEW country, NEW c
  PROVE  /\ Cardinality(S) \in Nat /\ Asked(S, country, c) \in Nat
         /\ Asked(S, country, c) > 0 => \E a \in S : country[a] = c
<1> DEFINE T == {a \in S : country[a] = c}
<1>1. Objects(r) \in SUBSET Asset
  BY RequestTypes
<1>2. IsFiniteSet(S)
  BY <1>1, ConfigAssumption, FS_Subset
<1>3. IsFiniteSet(T)
  BY <1>2, FS_Subset
<1>4. Cardinality(S) \in Nat /\ Cardinality(T) \in Nat
  BY <1>2, <1>3, FS_CardinalityType
<1>5. T = {} => Cardinality(T) = 0
  BY FS_EmptySet
<1>6. Asked(S, country, c) = Cardinality(T)
  BY DEF Asked
<1>7. T # {} => \E a \in S : country[a] = c
  OBVIOUS
<1> HIDE DEF T
<1> QED
  BY <1>4, <1>5, <1>6, <1>7

LEMMA NumbersTaken ==
  ASSUME TypeOK, NEW r \in Request, NEW S \in SUBSET Objects(r), NEW country,
         NextNumbers(r, S, country)
  PROVE  /\ counter' \in [Country -> Nat] /\ CountersGrow(r)
         /\ \A c \in Country : counter'[c] = counter[c] + Asked(S, country, c)
<1> DEFINE asked(c) == Asked(S, country, c)
<1>1. \A c \in Country : /\ asked(c) \in Nat
                         /\ asked(c) > 0 => \E a \in S : country[a] = c
  BY AskedTyped
<1>2. \A a \in S : ~ CounterLocked(r, country[a])
  BY DEF NextNumbers
<1>8. counter' = [c \in Country |-> counter[c] + asked(c)]
  BY DEF NextNumbers
<1> HIDE DEF asked
<1>3. \A c \in Country : counter[c] \in Nat
  BY DEF TypeOK
<1>4. \A c \in Country : counter[c] + asked(c) \in Nat
  BY <1>1, <1>3
<1>5. counter' \in [Country -> Nat]
  BY <1>4, <1>8
<1>6. \A c \in Country : counter'[c] = counter[c] + asked(c)
  BY <1>8
<1>7. CountersGrow(r)
  BY <1>1, <1>2, <1>3, <1>6 DEF CountersGrow
<1> QED
  BY <1>5, <1>6, <1>7 DEF asked

LEMMA GenerateStep ==
  ASSUME TypeOK, RequestsAreOrderly, NEW r \in Request, NEW name, NEW S \in SUBSET Objects(r),
         NEW country, \A a \in S : country[a] \in Country,
         GenerateHostnames(r, name, S, country),
         name \in HostActions,
         name \notin UserActions \cup ReportActions \cup SavingActions
  PROVE  TypeOK' /\ Step(r, name) /\ HostsStep(r)
<1> DEFINE same(a) == {b \in S : country[b] = country[a]}
           asked(c) == Asked(S, country, c)
<1>1. tx[r] \in RequestFor(Objects(r)) /\ Objects(r) \in SUBSET Asset
  BY RequestTypes
<1>3. ASSUME NEW c
      PROVE  /\ asked(c) \in Nat
             /\ asked(c) > 0 => \E a \in S : country[a] = c
  BY AskedTyped
<1>4. \A a \in S : Cardinality(same(a)) = asked(country[a])
  BY DEF Asked
<1>5. PICK place \in [S -> 1..Cardinality(S)] :
        /\ \A a \in S : place[a] <= Cardinality(same(a))
        /\ tx' = [tx EXCEPT
             ![r].performed = @ \cup {name},
             ![r].was = [c \in Country |->
                IF asked(c) > 0 /\ @[c] = None THEN counter[c] ELSE @[c]],
             ![r].mem = [a \in Objects(r) |-> IF a \notin S THEN @[a] ELSE
                [@[a] EXCEPT !.host = [country |-> country[a],
                                       number |-> counter[country[a]] + place[a]]]]]
  BY DEF GenerateHostnames
<1>6. /\ Performs(r, name) /\ NextNumbers(r, S, country)
      /\ \A a \in S : ~ CounterLocked(r, country[a])
      /\ UNCHANGED <<child, hostname, licences, history>>
  BY DEF GenerateHostnames, NextNumbers
<1>7. ASSUME NEW a \in S
      PROVE  place[a] \in Nat /\ place[a] <= asked(country[a])
  <2>1. place[a] \in 1..Cardinality(S)
    BY <1>5
  <2>2. Cardinality(S) \in Nat
    BY AskedTyped
  <2>3. place[a] \in Nat
    BY <2>1, <2>2
  <2>4. place[a] <= Cardinality(same(a))
    BY <1>5
  <2>5. Cardinality(same(a)) = asked(country[a])
    BY <1>4
  <2> HIDE DEF same, asked
  <2> QED
    BY <2>3, <2>4, <2>5
<1> HIDE DEF asked, same
<1> DEFINE host(a) == [country |-> country[a], number |-> counter[country[a]] + place[a]]
           mem == [a \in Objects(r) |-> IF a \notin S THEN tx[r].mem[a] ELSE
                     [tx[r].mem[a] EXCEPT !.host = host(a)]]
           was == [c \in Country |->
                     IF asked(c) > 0 /\ tx[r].was[c] = None THEN counter[c] ELSE tx[r].was[c]]
           q == [tx[r] EXCEPT !.performed = @ \cup {name}, !.was = was, !.mem = mem]
<1>8. tx' = [tx EXCEPT ![r] = q]
  BY <1>5
<1>9. counter \in [Country -> Nat] /\ tx[r].mem \in [Objects(r) -> Instance]
      /\ tx[r].was \in [Country -> Nat \cup {None}]
  BY <1>1, RequestFields DEF TypeOK
<1>10. ASSUME NEW a \in S
       PROVE  /\ host(a) \in Hostname
              /\ host(a).country = country[a]
              /\ host(a).number = counter[country[a]] + place[a]
  <2>1. country[a] \in Country /\ counter[country[a]] + place[a] \in Nat
    BY <1>7, <1>9
  <2> QED
    BY <2>1 DEF Hostname
<1> HIDE DEF host
<1>11. ASSUME NEW a \in Objects(r)
       PROVE  /\ mem[a] \in Instance
              /\ mem[a].row = tx[r].mem[a].row
              /\ a \notin S => mem[a].host = tx[r].mem[a].host
              /\ a \in S => mem[a].host = host(a)
  <2>1. tx[r].mem[a] \in Instance
    BY <1>9
  <2> QED
    BY <1>10, <2>1 DEF Instance
<1>12. mem \in [Objects(r) -> Instance]
  BY <1>11
<1> HIDE DEF mem
<1>13. was \in [Country -> Nat \cup {None}]
  BY <1>9
<1>14. \A c \in Country :
         was[c] = IF asked(c) > 0 /\ tx[r].was[c] = None THEN counter[c] ELSE tx[r].was[c]
  OBVIOUS
<1> HIDE DEF was
<1>15. tx[r].performed \cup {name} \in SUBSET STRING
  BY <1>6, PerformedTyped
<1>16. q \in RequestFor(Objects(r))
  BY <1>1, <1>12, <1>13, <1>15 DEF RequestFor
<1>17. /\ q.pc = tx[r].pc /\ q.trans = tx[r].trans /\ q.snap = tx[r].snap
       /\ q.was = was /\ q.mem = mem /\ q.performed = tx[r].performed \cup {name}
       /\ q.reports = tx[r].reports /\ q.pending = tx[r].pending
       /\ q.had = tx[r].had /\ q.touched = tx[r].touched
  BY <1>1 DEF RequestFor
<1> HIDE DEF q
<1>18. /\ (tx = [x \in Request |-> tx[x]])'
       /\ (\A x \in Request : \E T \in SUBSET Asset : tx[x] \in RequestFor(T))'
       /\ tx'[r] = q /\ \A x \in Request \ {r} : tx'[x] = tx[x]
       /\ DOMAIN q.mem = Objects(r)
  BY <1>8, <1>16, StepTo
<1>19. \A c \in Country : counter'[c] = counter[c] + asked(c)
  BY <1>6, NumbersTaken DEF asked
<1>20. counter' \in [Country -> Nat]
  BY <1>6, NumbersTaken
<1>21. TypeOK'
  BY <1>6, <1>18, <1>20 DEF TypeOK
<1>2. LicencesStep(r)
  BY <1>6, <1>17, <1>18, NoLicences
<1>22. Step(r, name)
  BY <1>2, <1>6, <1>11, <1>17, <1>18 DEF Step, Performs, Open, Objects
<1>23. ASSUME NEW c \in Country, asked(c) > 0
       PROVE  ~ CounterLocked(r, c)
  BY <1>3, <1>6, <1>23
<1>24. ASSUME NEW c \in Country
       PROVE  /\ counter[c] <= counter'[c]
              /\ counter'[c] # counter[c] => ~ CounterLocked(r, c) /\ was[c] # None
              /\ tx[r].was[c] # None => was[c] = tx[r].was[c]
              /\ tx[r].was[c] = None /\ was[c] # None =>
                   ~ CounterLocked(r, c) /\ was[c] = counter[c]
  <2>1. counter[c] \in Nat /\ asked(c) \in Nat /\ counter[c] # None
    BY <1>3, <1>9, ConfigAssumption
  <2>2. counter'[c] # counter[c] => asked(c) > 0
    BY <1>19, <2>1
  <2> QED
    BY <1>14, <1>19, <1>23, <2>1, <2>2
<1>25. ASSUME NEW a \in S
       PROVE  host(a).number <= counter'[host(a).country] /\ ~ CounterLocked(r, host(a).country)
  <2>1. country[a] \in Country /\ counter[country[a]] \in Nat /\ asked(country[a]) \in Nat
        /\ place[a] \in Nat /\ place[a] <= asked(country[a])
    BY <1>3, <1>7, <1>9
  <2> QED
    BY <1>6, <1>10, <1>19, <2>1
<1>26. HostsStep(r)
  BY <1>11, <1>17, <1>18, <1>24, <1>25 DEF HostsStep
<1> QED
  BY <1>21, <1>22, <1>26

\* What an action does, and those do that generate hostnames, save or report.
Acts(r) ==
  \E name :
    /\ Step(r, name)
    /\ name \in HostActions => HostsStep(r)
    /\ name \in SavingActions =>
         \/ name \in disable_save_object /\
              \A a \in Asset : tx'[r].pending[a] # None =>
                a \in Objects(r) /\ tx'[r].pending[a].inst.host = tx[r].mem[a].host
         \/ name \notin disable_save_object /\ SavedFromMemory(r, tx'[r].pending, tx[r].mem)
    /\ name \in ReportActions =>
         /\ tx'[r].mem = tx[r].mem
         /\ \E n \in {"release", "return", "loan"} :
              /\ name = ReportAction(n)
              /\ tx'[r].reports =
                   tx[r].reports \cup {[name |-> n, user |-> tx[r].mem[First(r)].row.user]}

LEMMA ActionsAct ==
  ASSUME TypeOK, RequestsAreOrderly, NEW r \in Request,
    \/ assign_user(r) \/ unassign_user(r) \/ assign_owner(r) \/ unassign_owner(r)
    \/ change_user_and_owner(r) \/ SetOtherField(r) \/ assign_requester_as_an_owner(r)
    \/ assign_licence(r) \/ unassign_licences(r)
    \/ change_hostname(r) \/ assign_hostname_if_empty_or_country_not_match(r)
    \/ release_report(r) \/ return_report(r) \/ loan_report(r) \/ send_attachments_to_user(r)
    \/ convert_to_data_center_asset(r) \/ convert_to_backoffice_asset(r)
  PROVE  TypeOK' /\ Acts(r)
<1>1. CASE \/ assign_user(r) \/ unassign_user(r) \/ assign_owner(r) \/ unassign_owner(r)
           \/ change_user_and_owner(r) \/ SetOtherField(r)
  BY <1>1, MemoryActionSteps DEF Acts
<1>2. CASE assign_requester_as_an_owner(r)
  <2>1. "assign_requester_as_an_owner" \notin HostActions \cup ReportActions \cup disable_save_object
    BY DEF HostActions, ReportActions, disable_save_object
  <2> QED
    BY <1>2, <2>1, SaveOwnerStep DEF Acts
<1>3. CASE assign_licence(r) \/ unassign_licences(r)
  BY <1>3, LicenceSteps DEF Acts
<1>4. CASE change_hostname(r)
  <2>1. PICK S \in SUBSET Objects(r), c \in Country :
          GenerateHostnames(r, "change_hostname", S, [a \in S |-> c])
    BY <1>4 DEF change_hostname
  <2> DEFINE country == [a \in S |-> c]
  <2>2. /\ \A a \in S : country[a] \in Country
        /\ GenerateHostnames(r, "change_hostname", S, country)
    BY <2>1
  <2> HIDE DEF country
  <2>3. /\ "change_hostname" \in HostActions
        /\ "change_hostname" \notin UserActions \cup ReportActions \cup SavingActions
    BY DEF HostActions, UserActions, ReportActions, SavingActions, disable_save_object
  <2>4. TypeOK' /\ Step(r, "change_hostname") /\ HostsStep(r)
    BY <2>1, <2>2, <2>3, GenerateStep
  <2> QED
    BY <2>3, <2>4 DEF Acts
<1>5. CASE assign_hostname_if_empty_or_country_not_match(r)
  <2> DEFINE name == "assign_hostname_if_empty_or_country_not_match"
  <2>1. PICK S \in SUBSET Objects(r) : GenerateHostnames(r, name, S, [a \in S |-> Region[a]])
    BY <1>5 DEF assign_hostname_if_empty_or_country_not_match
  <2> DEFINE country == [a \in S |-> Region[a]]
  <2>2. \A a \in S : country[a] \in Country
    BY <2>1, RequestTypes, ConfigAssumption
  <2>3. /\ name \in HostActions
        /\ name \notin UserActions \cup ReportActions \cup SavingActions
    BY DEF HostActions, UserActions, ReportActions, SavingActions, disable_save_object
  <2>4. GenerateHostnames(r, name, S, country)
    BY <2>1
  <2> HIDE DEF name, country
  <2>5. TypeOK' /\ Step(r, name) /\ HostsStep(r)
    BY <2>1, <2>2, <2>3, <2>4, GenerateStep
  <2> QED
    BY <2>3, <2>5 DEF Acts
<1>6. CASE release_report(r) \/ return_report(r) \/ loan_report(r)
  <2>1. PICK n \in {"release", "return", "loan"} : GenerateReport(r, ReportAction(n), n)
    BY <1>6 DEF release_report, return_report, loan_report, ReportAction
  <2>2. /\ ReportAction(n) \in ReportActions
        /\ ReportAction(n) \notin HostActions \cup SavingActions \cup UserActions
    BY DEF HostActions, UserActions, ReportActions, SavingActions, disable_save_object,
           ReportAction
  <2> DEFINE action == ReportAction(n)
  <2> HIDE DEF action
  <2>3. /\ TypeOK' /\ Step(r, action)
        /\ tx'[r].mem = tx[r].mem
        /\ tx'[r].reports =
             tx[r].reports \cup {[name |-> n, user |-> tx[r].mem[First(r)].row.user]}
    BY <2>1, <2>2, ReportStep DEF action
  <2> QED
    BY <2>2, <2>3 DEF Acts, action
<1>7. CASE send_attachments_to_user(r)
  <2>1. "send_attachments_to_user" \notin HostActions \cup ReportActions \cup SavingActions
    BY DEF HostActions, ReportActions, SavingActions, disable_save_object
  <2> QED
    BY <1>7, <2>1, AttachmentsStep DEF Acts
<1>8. CASE convert_to_data_center_asset(r) \/ convert_to_backoffice_asset(r)
  <2>1. PICK name \in disable_save_object, k \in Kind : ConvertTo(r, name, k)
    BY <1>8 DEF convert_to_data_center_asset, convert_to_backoffice_asset, disable_save_object,
                Kind
  <2>2. name \notin HostActions \cup ReportActions
    BY DEF HostActions, ReportActions, disable_save_object
  <2>3. /\ TypeOK' /\ Step(r, name)
        /\ \A a \in Asset : tx'[r].pending[a] # None =>
              a \in Objects(r) /\ tx'[r].pending[a].inst.host = tx[r].mem[a].host
    BY <2>1, ConvertStep
  <2> QED
    BY <2>2, <2>3 DEF Acts
<1> QED
  BY <1>1, <1>2, <1>3, <1>4, <1>5, <1>6, <1>7, <1>8

-----------------------------------------------------------------------------
(* The end of a request *)

\* The request ends and keeps what it has in memory.
Ends(r, pc) ==
  /\ Open(r)
  /\ \A q \in Request \ {r} : tx'[q] = tx[q]
  /\ tx'[r].pc = pc /\ tx'[r].trans = tx[r].trans /\ tx'[r].snap = tx[r].snap
  /\ tx'[r].performed = tx[r].performed /\ tx'[r].mem = tx[r].mem
  /\ tx'[r].reports = tx[r].reports /\ tx'[r].was = tx[r].was
  /\ tx'[r].had = tx[r].had /\ tx'[r].touched = tx[r].touched
  /\ tx'[r].pending = tx[r].pending

LEMMA EndTyped ==
  ASSUME TypeOK, NEW r \in Request, NEW pc \in {"done", "failed", "error"}, Open(r),
         tx' = [tx EXCEPT ![r].pc = pc]
  PROVE  /\ (tx = [x \in Request |-> tx[x]])'
         /\ (\A x \in Request : \E T \in SUBSET Asset : tx[x] \in RequestFor(T))'
         /\ Ends(r, pc)
<1> DEFINE q == [tx[r] EXCEPT !.pc = pc]
<1>1. tx[r] \in RequestFor(Objects(r))
  BY RequestTypes
<1>2. q \in RequestFor(Objects(r))
  BY <1>1 DEF RequestFor
<1>3. tx' = [tx EXCEPT ![r] = q]
  OBVIOUS
<1>4. /\ q.pc = pc /\ q.trans = tx[r].trans /\ q.snap = tx[r].snap
      /\ q.was = tx[r].was /\ q.mem = tx[r].mem
      /\ q.performed = tx[r].performed /\ q.reports = tx[r].reports
      /\ q.had = tx[r].had /\ q.touched = tx[r].touched /\ q.pending = tx[r].pending
  BY <1>1 DEF RequestFor
<1> HIDE DEF q
<1> QED
  BY <1>2, <1>3, <1>4, StepTo DEF Ends

\* The tables after writes of their types.
LEMMA WrittenTyped ==
  ASSUME TypeOK, NEW w \in [Asset -> Write \cup {None}], Written(w)
  PROVE  /\ child' \in [Asset -> [Kind -> ChildRow \cup {None}]]
         /\ hostname' \in [Asset -> Hostname \cup {None}]
<1>1. ASSUME NEW a \in Asset, w[a] # None
      PROVE  w[a].inst.row \in ChildRow /\ w[a].inst.host \in Hostname \cup {None}
  BY <1>1, WriteFields, InstanceFields
<1>2. hostname' \in [Asset -> Hostname \cup {None}]
  BY <1>1 DEF Written, TypeOK
<1>3. child' \in [Asset -> [Kind -> ChildRow \cup {None}]]
  BY <1>1 DEF Written, TypeOK
<1> QED
  BY <1>2, <1>3

\* What is written at the end is what waits, or an instance in memory with its hostname.
LEMMA ProcessedTyped ==
  ASSUME TypeOK, RequestsAreOrderly, NEW r \in Request, Open(r)
  PROVE  /\ Processed(r) \in [Asset -> Write \cup {None}]
         /\ \A a \in Asset : Processed(r)[a] # None =>
              \/ Processed(r)[a] = tx[r].pending[a]
              \/ a \in Objects(r) /\ Processed(r)[a].inst.host = tx[r].mem[a].host
         /\ ~ Converts(r) =>
              \A a \in Asset : Processed(r)[a] # None => a \in Objects(r)
         /\ Converts(r) => Processed(r) = tx[r].pending
<1>1. tx[r] \in RequestFor(Objects(r)) /\ Objects(r) \in SUBSET Asset
  BY RequestTypes
<1>2. /\ tx[r].mem \in [Objects(r) -> Instance]
      /\ tx[r].pending \in [Asset -> Write \cup {None}]
  BY <1>1, RequestFields
<1> DEFINE t == tx[r].trans
           inst(a) == [tx[r].mem[a] EXCEPT !.row.status = IF Target[t] = Keep THEN @ ELSE Target[t]]
           write(a) == [kind |-> Model[t], moved |-> FALSE, inst |-> inst(a)]
<1>3. t \in Transition
  BY DEF Open, RequestsAreOrderly
<1>4. Model[t] \in Kind /\ Target[t] \in Status \cup {Keep}
  BY <1>3, ConfigAssumption
<1>5. Processed(r) = IF Actions[t] \cap disable_save_object # {} THEN tx[r].pending
                     ELSE [a \in Asset |-> IF a \notin Objects(r) THEN None ELSE write(a)]
  BY DEF Processed
<1>10. Converts(r) <=> Actions[t] \cap disable_save_object # {}
  BY DEF Converts
<1> HIDE DEF t
<1>6. ASSUME NEW a \in Objects(r)
      PROVE  inst(a) \in Instance /\ inst(a).host = tx[r].mem[a].host
  <2>1. tx[r].mem[a] \in Instance
    BY <1>2
  <2> QED
    BY <1>4, <2>1 DEF Instance, ChildRow
<1> HIDE DEF inst
<1>7. ASSUME NEW a \in Objects(r)
      PROVE  write(a) \in Write /\ write(a).inst.host = tx[r].mem[a].host
  BY <1>4, <1>6 DEF Write
<1> HIDE DEF write
<1>8. CASE Actions[t] \cap disable_save_object # {}
  BY <1>2, <1>5, <1>8, <1>10
<1>9. CASE Actions[t] \cap disable_save_object = {}
  BY <1>1, <1>5, <1>7, <1>9, <1>10
<1> QED
  BY <1>8, <1>9

\* The request commits the writes w, and counters may have gone up.
Commits(r, pc, w) ==
  /\ Ends(r, pc) /\ Written(w)
  /\ \A a \in Asset : w[a] # None =>
       \/ tx[r].pending[a] # None /\ w[a].inst.host = tx[r].pending[a].inst.host
       \/ a \in Objects(r) /\ w[a].inst.host = tx[r].mem[a].host
  /\ CountersGrow(r)

LEMMA SameCounters ==
  ASSUME TypeOK, NEW r, counter' = counter
  PROVE  CountersGrow(r)
<1>1. \A c \in Country : counter[c] \in Nat
  BY DEF TypeOK
<1> QED
  BY <1>1 DEF CountersGrow

\* An action raises: what waits is committed, and what this action has saved.
Fails(r) ==
  /\ \E w : Commits(r, "failed", w) /\ SavedFromMemory(r, w, tx[r].mem)
  /\ history' = history
  /\ \E name \in Actions[tx[r].trans] : Ready(r, name)

LEMMA FailsTyped ==
  ASSUME TypeOK, NEW r \in Request, Open(r), NEW w \in [Asset -> Write \cup {None}],
         Written(w), SavedFromMemory(r, w, tx[r].mem),
         tx' = [tx EXCEPT ![r].pc = "failed"], licences' \subseteq Asset \X Licence,
         counter' \in [Country -> Nat], CountersGrow(r), history' = history,
         NEW name, Ready(r, name)
  PROVE  TypeOK' /\ Fails(r)
<1>1. /\ child' \in [Asset -> [Kind -> ChildRow \cup {None}]]
      /\ hostname' \in [Asset -> Hostname \cup {None}]
  BY WrittenTyped
<1>2. /\ (tx = [x \in Request |-> tx[x]])'
      /\ (\A x \in Request : \E T \in SUBSET Asset : tx[x] \in RequestFor(T))'
      /\ Ends(r, "failed")
  BY EndTyped
<1>3. TypeOK'
  BY <1>1, <1>2 DEF TypeOK
<1>4. \A a \in Asset : w[a] # None =>
       \/ tx[r].pending[a] # None /\ w[a].inst.host = tx[r].pending[a].inst.host
       \/ a \in Objects(r) /\ w[a].inst.host = tx[r].mem[a].host
  BY DEF SavedFromMemory
<1>5. Commits(r, "failed", w)
  BY <1>2, <1>4 DEF Commits
<1>6. name \in Actions[tx[r].trans]
  BY DEF Ready
<1> QED
  BY <1>3, <1>5, <1>6 DEF Fails

LEMMA ActionRaisesCommits ==
  ASSUME TypeOK, NEW r \in Request, ActionRaises(r)
  PROVE  TypeOK' /\ Fails(r)
<1>1. tx[r].pending \in [Asset -> Write \cup {None}]
  BY RequestTypes, RequestFields
<1>2. /\ Open(r) /\ Written(tx[r].pending) /\ tx' = [tx EXCEPT ![r].pc = "failed"]
      /\ UNCHANGED <<licences, counter, history>>
  BY DEF ActionRaises
<1>3. PICK name : Ready(r, name)
  BY DEF ActionRaises
<1>4. SavedFromMemory(r, tx[r].pending, tx[r].mem)
  BY DEF SavedFromMemory
<1>5. licences' \subseteq Asset \X Licence /\ counter' \in [Country -> Nat] /\ CountersGrow(r)
  BY <1>2, SameCounters DEF TypeOK
<1> QED
  BY <1>1, <1>2, <1>3, <1>4, <1>5, FailsTyped

LEMMA ActionRaisesLateCommits ==
  ASSUME TypeOK, RequestsAreOrderly, NEW r \in Request, ActionRaisesLate(r)
  PROVE  TypeOK' /\ Fails(r)
<1>1. /\ tx[r].pending \in [Asset -> Write \cup {None}] /\ Objects(r) \in SUBSET Asset
      /\ tx[r].mem \in [Objects(r) -> Instance]
      /\ tx[r].requester \in User \cup {None}
  BY RequestTypes, RequestFields
<1>2. /\ tx' = [tx EXCEPT ![r].pc = "failed"] /\ history' = history
  BY DEF ActionRaisesLate
<1>3. SavedFromMemory(r, tx[r].pending, tx[r].mem)
  BY DEF SavedFromMemory
<1>4. CASE \E S \in SUBSET Objects(r) :
          /\ Performs(r, "assign_requester_as_an_owner")
          /\ Written(Saved(r, S, WithOwner(r, tx[r].requester)))
          /\ UNCHANGED <<licences, counter>>
  <2> DEFINE mem == WithOwner(r, tx[r].requester)
  <2>1. PICK S \in SUBSET Objects(r) :
          /\ Performs(r, "assign_requester_as_an_owner")
          /\ Written(Saved(r, S, mem))
          /\ UNCHANGED <<licences, counter>>
    BY <1>4
  <2>2. /\ mem \in [Objects(r) -> Instance]
        /\ \A a \in Objects(r) : /\ mem[a].host = tx[r].mem[a].host
                                 /\ mem[a].row.status = tx[r].mem[a].row.status
    BY <1>1, WithAnother
  <2> HIDE DEF mem
  <2>3. Open(r) /\ Ready(r, "assign_requester_as_an_owner")
    BY <2>1 DEF Performs
  <2> DEFINE w == Saved(r, S, mem)
  <2>4. w \in [Asset -> Write \cup {None}] /\ SavedFromMemory(r, w, mem)
    BY <2>2, <2>3, SavedTyped
  <2>5. SavedFromMemory(r, w, tx[r].mem)
    BY <2>2, <2>4 DEF SavedFromMemory
  <2>6. licences' \subseteq Asset \X Licence /\ counter' \in [Country -> Nat] /\ CountersGrow(r)
    BY <2>1, SameCounters DEF TypeOK
  <2>7. Written(w)
    BY <2>1
  <2> HIDE DEF w
  <2> QED
    BY <1>2, <2>3, <2>4, <2>5, <2>6, <2>7, FailsTyped
<1>5. CASE \E created \in SUBSET ((Objects(r) \X Licence) \ licences) :
          /\ Performs(r, "assign_licence")
          /\ licences' = licences \cup created
          /\ Written(tx[r].pending) /\ UNCHANGED counter
  <2>1. PICK created \in SUBSET ((Objects(r) \X Licence) \ licences) :
          /\ Performs(r, "assign_licence")
          /\ licences' = licences \cup created
          /\ Written(tx[r].pending) /\ UNCHANGED counter
    BY <1>5
  <2>2. licences' \subseteq Asset \X Licence
    BY <1>1, <2>1 DEF TypeOK
  <2>3. counter' \in [Country -> Nat] /\ CountersGrow(r)
    BY <2>1, SameCounters DEF TypeOK
  <2>4. Open(r) /\ Ready(r, "assign_licence")
    BY <2>1 DEF Performs
  <2> QED
    BY <1>1, <1>2, <1>3, <2>1, <2>2, <2>3, <2>4, FailsTyped
<1>6. CASE \E S \in SUBSET Objects(r) : \E country \in [S -> Country] :
          /\ \E name : Performs(r, name)
          /\ NextNumbers(r, S, country)
          /\ Written(tx[r].pending) /\ UNCHANGED licences
  <2>1. PICK S \in SUBSET Objects(r) : \E country \in [S -> Country] : \E name :
          /\ Performs(r, name) /\ NextNumbers(r, S, country)
          /\ Written(tx[r].pending) /\ UNCHANGED licences
    BY <1>6
  <2>5. PICK country \in [S -> Country] : \E name :
          /\ Performs(r, name) /\ NextNumbers(r, S, country)
          /\ Written(tx[r].pending) /\ UNCHANGED licences
    BY <2>1
  <2>6. PICK name :
          /\ Performs(r, name) /\ NextNumbers(r, S, country)
          /\ Written(tx[r].pending) /\ UNCHANGED licences
    BY <2>5
  <2>2. counter' \in [Country -> Nat] /\ CountersGrow(r)
    BY <2>1, <2>6, NumbersTaken
  <2>3. licences' \subseteq Asset \X Licence
    BY <2>6 DEF TypeOK
  <2>4. Open(r) /\ Ready(r, name)
    BY <2>6 DEF Performs
  <2> QED
    BY <1>1, <1>2, <1>3, <2>6, <2>2, <2>3, <2>4, FailsTyped
<1> QED
  BY <1>4, <1>5, <1>6 DEF ActionRaisesLate

LEMMA FinishCommits ==
  ASSUME TypeOK, RequestsAreOrderly, NEW r \in Request, Finish(r)
  PROVE  /\ TypeOK' /\ Commits(r, "done", Processed(r))
         /\ tx[r].performed = Actions[tx[r].trans]
         /\ history' = history \cup {<<r, a>> : a \in Objects(r)}
<1>1. /\ Open(r) /\ Written(Processed(r)) /\ tx' = [tx EXCEPT ![r].pc = "done"]
      /\ history' = history \cup {<<r, a>> : a \in Objects(r)}
      /\ UNCHANGED <<licences, counter>> /\ tx[r].performed = Actions[tx[r].trans]
  BY DEF Finish
<1>2. /\ Processed(r) \in [Asset -> Write \cup {None}]
      /\ \A a \in Asset : Processed(r)[a] # None =>
              \/ Processed(r)[a] = tx[r].pending[a]
              \/ a \in Objects(r) /\ Processed(r)[a].inst.host = tx[r].mem[a].host
  BY <1>1, ProcessedTyped
<1>3. /\ child' \in [Asset -> [Kind -> ChildRow \cup {None}]]
      /\ hostname' \in [Asset -> Hostname \cup {None}]
  BY <1>1, <1>2, WrittenTyped
<1>4. /\ (tx = [x \in Request |-> tx[x]])'
      /\ (\A x \in Request : \E T \in SUBSET Asset : tx[x] \in RequestFor(T))'
      /\ Ends(r, "done")
  BY <1>1, EndTyped
<1>5. history' \subseteq Request \X Asset
  BY <1>1, RequestTypes DEF TypeOK
<1>6. TypeOK'
  BY <1>1, <1>3, <1>4, <1>5 DEF TypeOK
<1>7. \A a \in Asset : Processed(r)[a] # None =>
       \/ tx[r].pending[a] # None /\ Processed(r)[a].inst.host = tx[r].pending[a].inst.host
       \/ a \in Objects(r) /\ Processed(r)[a].inst.host = tx[r].mem[a].host
  BY <1>2
<1>8. CountersGrow(r)
  BY <1>1, SameCounters
<1> QED
  BY <1>1, <1>4, <1>6, <1>7, <1>8 DEF Commits

LEMMA RollbackTyped ==
  ASSUME TypeOK, NEW r \in Request, Open(r), RolledBack(r, "error")
  PROVE  TypeOK' /\ Ends(r, "error")
<1>1. /\ tx[r].had \in SUBSET (Asset \X Licence)
      /\ tx[r].was \in [Country -> Nat \cup {None}]
  BY RequestTypes, RequestFields
<1>2. /\ (tx = [x \in Request |-> tx[x]])'
      /\ (\A x \in Request : \E T \in SUBSET Asset : tx[x] \in RequestFor(T))'
      /\ Ends(r, "error")
  BY EndTyped DEF RolledBack
<1>3. licences' \subseteq Asset \X Licence
  BY <1>1 DEF RolledBack, TypeOK
<1>4. counter' \in [Country -> Nat]
  BY <1>1 DEF RolledBack, TypeOK
<1>5. UNCHANGED <<child, hostname, history>>
  BY DEF RolledBack
<1> QED
  BY <1>2, <1>3, <1>4, <1>5 DEF TypeOK

-----------------------------------------------------------------------------
(* Every step *)

\* A request has read its assets and has done nothing yet.
Dispatched(r) ==
  /\ tx[r].pc = "new" /\ tx'[r].pc \in {"run", "rejected"}
  /\ \A q \in Request \ {r} : tx'[q] = tx[q]
  /\ tx'[r].trans \in Transition
  /\ DOMAIN tx'[r].mem # {} /\ tx'[r].snap = tx'[r].mem
  /\ \A a \in DOMAIN tx'[r].mem : a \in Asset /\ tx'[r].mem[a].host = hostname[a]
  /\ tx'[r].performed = {} /\ tx'[r].reports = {}
  /\ tx'[r].had = {} /\ tx'[r].touched = {}
  /\ \A a \in Asset : tx'[r].pending[a] = None
  /\ \A c \in Country : tx'[r].was[c] = None
  /\ \A a \in DOMAIN tx'[r].mem :
       /\ child[a][Model[tx'[r].trans]] # None
       /\ tx'[r].mem[a].row = child[a][Model[tx'[r].trans]]
  /\ UNCHANGED <<child, hostname, licences, counter, history>>

LEMMA DispatchReads ==
  ASSUME TypeOK, NEW r \in Request, Dispatch(r)
  PROVE  TypeOK' /\ Dispatched(r)
<1>1. PICK t \in Transition, u \in User, S \in (SUBSET Asset) \ {{}} :
        /\ \A a \in S : child[a][Model[t]] # None
        /\ LET insts == [a \in S |-> [row |-> child[a][Model[t]], host |-> hostname[a]]]
               allowed == /\ \A a \in S : insts[a].row.status \in Source[t]
                          /\ Preconditions(t, u, insts)
           IN tx' = [tx EXCEPT ![r] = [NewRequest EXCEPT
                       !.pc = IF allowed THEN "run" ELSE "rejected",
                       !.trans = t, !.requester = u, !.snap = insts, !.mem = insts]]
  BY DEF Dispatch
<1> DEFINE insts == [a \in S |-> [row |-> child[a][Model[t]], host |-> hostname[a]]]
<1>2. PICK pc \in {"run", "rejected"} :
        tx' = [tx EXCEPT ![r] = [NewRequest EXCEPT
                 !.pc = pc, !.trans = t, !.requester = u, !.snap = insts, !.mem = insts]]
  <2> DEFINE allowed == /\ \A a \in S : insts[a].row.status \in Source[t]
                        /\ Preconditions(t, u, insts)
             to(pc) == [tx EXCEPT ![r] = [NewRequest EXCEPT
                 !.pc = pc, !.trans = t, !.requester = u, !.snap = insts, !.mem = insts]]
  <2>1. tx' = to(IF allowed THEN "run" ELSE "rejected")
    BY <1>1
  <2> HIDE DEF allowed, to
  <2>2. tx' = to("run") \/ tx' = to("rejected")
    BY <2>1
  <2> QED
    BY <2>2 DEF to
<1>3. ASSUME NEW a \in S
      PROVE  [row |-> child[a][Model[t]], host |-> hostname[a]] \in Instance
  <2>1. child[a][Model[t]] \in ChildRow /\ hostname[a] \in Hostname \cup {None}
    BY <1>1, ConfigAssumption DEF TypeOK
  <2> QED
    BY <2>1 DEF Instance
<1>4. /\ insts \in [S -> Instance]
      /\ \A a \in S : insts[a].host = hostname[a] /\ insts[a].row = child[a][Model[t]]
  BY <1>3
<1> HIDE DEF insts
<1> DEFINE q == [NewRequest EXCEPT
                 !.pc = pc, !.trans = t, !.requester = u, !.snap = insts, !.mem = insts]
<1>5. q \in RequestFor(S)
  <2>1. NewRequest.performed = {} /\ NewRequest.reports = {} /\ NewRequest.had = {}
        /\ NewRequest.touched = {}
    BY DEF NewRequest
  <2> QED
    BY <1>4, NewRequestIsNew DEF RequestFor
<1>6. /\ q.pc = pc /\ q.trans = t /\ q.snap = insts /\ q.mem = insts
      /\ q.performed = {} /\ q.reports = {} /\ q.had = {} /\ q.touched = {}
      /\ q.pending = [a \in Asset |-> None] /\ q.was = [c \in Country |-> None]
  BY DEF NewRequest
<1>7. tx' = [tx EXCEPT ![r] = q]
  BY <1>2
<1> HIDE DEF q
<1>8. /\ (tx = [x \in Request |-> tx[x]])'
      /\ (\A x \in Request : \E T \in SUBSET Asset : tx[x] \in RequestFor(T))'
      /\ tx'[r] = q /\ \A x \in Request \ {r} : tx'[x] = tx[x]
  BY <1>5, <1>7, OneRequestTyped
<1>9. tx[r].pc = "new" /\ UNCHANGED <<child, hostname, licences, counter, history>>
  BY DEF Dispatch
<1>10. TypeOK'
  BY <1>8, <1>9 DEF TypeOK
<1>11. DOMAIN insts = S /\ S # {} /\ S \subseteq Asset /\ \A a \in S : child[a][Model[t]] # None
  <2>1. DOMAIN insts = S
    BY <1>4
  <2>2. S # {} /\ S \subseteq Asset /\ \A a \in S : child[a][Model[t]] # None
    BY <1>1
  <2> QED
    BY <2>1, <2>2
<1> QED
  BY <1>4, <1>6, <1>8, <1>9, <1>10, <1>11 DEF Dispatched

\* A step is one request's: it reads its assets, acts, or ends.
Finishes(r) ==
  /\ Commits(r, "done", Processed(r))
  /\ tx[r].performed = Actions[tx[r].trans]
  /\ history' = history \cup {<<r, a>> : a \in Objects(r)}
GivesUp(r) == RolledBack(r, "error") /\ Ends(r, "error")

LEMMA EveryStep ==
  ASSUME TypeOK, RequestsAreOrderly, [Next]_vars
  PROVE  /\ TypeOK'
         /\ \/ UNCHANGED vars
            \/ \E r \in Request :
                 Dispatched(r) \/ Acts(r) \/ Fails(r) \/ Finishes(r) \/ GivesUp(r)
<1>1. CASE UNCHANGED vars
  BY <1>1 DEF vars, TypeOK, Objects
<1>2. CASE Next
  <2>1. PICK r \in Request :
     \/ Dispatch(r) \/ ActionRaises(r) \/ ActionRaisesLate(r) \/ DatabaseError(r) \/ CycleError(r) \/ Finish(r)
     \/ assign_user(r) \/ unassign_user(r) \/ assign_owner(r) \/ unassign_owner(r)
     \/ change_user_and_owner(r) \/ SetOtherField(r) \/ assign_requester_as_an_owner(r)
     \/ assign_licence(r) \/ unassign_licences(r)
     \/ change_hostname(r) \/ assign_hostname_if_empty_or_country_not_match(r)
     \/ release_report(r) \/ return_report(r) \/ loan_report(r) \/ send_attachments_to_user(r)
     \/ convert_to_data_center_asset(r) \/ convert_to_backoffice_asset(r)
    BY <1>2 DEF Next
  <2>2. CASE Dispatch(r)
    BY <2>2, DispatchReads
  <2>3. CASE ActionRaises(r) \/ ActionRaisesLate(r)
    BY <2>3, ActionRaisesCommits, ActionRaisesLateCommits
  <2>4. CASE DatabaseError(r) \/ CycleError(r)
    BY <2>4, RollbackTyped DEF DatabaseError, CycleError, GivesUp
  <2>5. CASE Finish(r)
    BY <2>5, FinishCommits DEF Finishes
  <2>6. CASE ~ (\/ Dispatch(r) \/ ActionRaises(r) \/ ActionRaisesLate(r)
                \/ DatabaseError(r) \/ CycleError(r) \/ Finish(r))
    BY <2>1, <2>6, ActionsAct
  <2> QED
    BY <2>2, <2>3, <2>4, <2>5, <2>6
<1> QED
  BY <1>1, <1>2

-----------------------------------------------------------------------------
(* Order, history and licences *)

LEMMA OrderPairs ==
  /\ \A p \in run_after : p = <<p[1], p[2]>>
  /\ <<"assign_user", "unassign_user">> \in run_after
  /\ <<"unassign_user", "return_report">> \in run_after
  /\ <<"release_report", "assign_user">> \in run_after
  /\ <<"loan_report", "assign_user">> \in run_after
  BY DEF run_after

LEMMA OrderKept ==
  ASSUME TypeOK, RequestsAreOrderly, [Next]_vars
  PROVE  RequestsAreOrderly'
<1> SUFFICES ASSUME NEW q \in Request, tx'[q].pc # "new"
             PROVE  (/\ tx[q].trans \in Transition /\ Objects(q) # {}
                     /\ tx[q].performed \subseteq Actions[tx[q].trans]
                     /\ \A p \in run_after :
                          Performed(q, p[1]) /\ Wanted(q, p[2]) => Performed(q, p[2]))'
  BY DEF RequestsAreOrderly
<1> USE DEF Performed, Wanted, Objects
<1>1. CASE tx'[q] = tx[q]
  BY <1>1 DEF RequestsAreOrderly
<1>2. CASE tx'[q] # tx[q]
  <2>1. Dispatched(q) \/ Acts(q) \/ \E pc : Ends(q, pc)
    BY <1>2, EveryStep
       DEF vars, Dispatched, Acts, Step, Fails, Finishes, Commits, GivesUp, Ends
  <2>2. CASE Dispatched(q)
    BY <2>2 DEF Dispatched
  <2>3. CASE Acts(q)
    <3>1. PICK name : Step(q, name)
      BY <2>3 DEF Acts
    <3>2. /\ tx'[q].trans = tx[q].trans /\ tx'[q].performed = tx[q].performed \cup {name}
          /\ DOMAIN tx'[q].mem = DOMAIN tx[q].mem /\ tx[q].pc = "run"
          /\ name \in Actions[tx[q].trans]
          /\ \A other \in Actions[tx[q].trans] \ tx[q].performed : <<name, other>> \notin run_after
      BY <3>1 DEF Step, Ready, Open
    <3> QED
      BY <3>2, OrderPairs DEF RequestsAreOrderly
  <2>4. CASE \E pc : Ends(q, pc)
    BY <2>4 DEF Ends, Open, RequestsAreOrderly
  <2> QED
    BY <2>1, <2>2, <2>3, <2>4
<1> QED
  BY <1>1, <1>2

LEMMA HistoryKept ==
  ASSUME TypeOK, RequestsAreOrderly, HistoryIsOfRequestsDone, [Next]_vars
  PROVE  HistoryIsOfRequestsDone'
<1> SUFFICES ASSUME NEW q \in Request
             PROVE  (/\ tx[q].pc = "done" => tx[q].performed = Actions[tx[q].trans]
                     /\ \A a \in Asset :
                          <<q, a>> \in history <=> tx[q].pc = "done" /\ a \in Objects(q))'
  BY DEF HistoryIsOfRequestsDone
<1> USE DEF Objects
<1>1. CASE UNCHANGED vars
  BY <1>1 DEF vars, HistoryIsOfRequestsDone
<1>2. ASSUME NEW r \in Request, Dispatched(r) \/ Acts(r) \/ Fails(r) \/ GivesUp(r)
      PROVE  (/\ tx[q].pc = "done" => tx[q].performed = Actions[tx[q].trans]
              /\ \A a \in Asset :
                   <<q, a>> \in history <=> tx[q].pc = "done" /\ a \in Objects(q))'
  <2>1. /\ history' = history /\ (q # r => tx'[q] = tx[q])
        /\ tx[r].pc # "done" /\ tx'[r].pc # "done"
    BY <1>2 DEF Dispatched, Acts, Step, Fails, Commits, GivesUp, RolledBack, Ends, Open
  <2> QED
    BY <2>1 DEF HistoryIsOfRequestsDone
<1>3. ASSUME NEW r \in Request, Finishes(r)
      PROVE  (/\ tx[q].pc = "done" => tx[q].performed = Actions[tx[q].trans]
              /\ \A a \in Asset :
                   <<q, a>> \in history <=> tx[q].pc = "done" /\ a \in Objects(q))'
  <2>1. /\ history' = history \cup {<<r, a>> : a \in Objects(r)}
        /\ q # r => tx'[q] = tx[q]
        /\ tx[r].pc # "done" /\ tx'[r].pc = "done" /\ tx'[r].mem = tx[r].mem
        /\ tx'[r].performed = Actions[tx'[r].trans]
    BY <1>3 DEF Finishes, Commits, Ends, Open
  <2> QED
    BY <2>1 DEF HistoryIsOfRequestsDone
<1> QED
  BY <1>1, <1>2, <1>3, EveryStep

LEMMA LicencesKept ==
  ASSUME TypeOK, RequestsAreOrderly, LicencesAreRight, [Next]_vars
  PROVE  LicencesAreRight'
<1>1. \A q, r \in Request : Open(q) /\ Open(r) /\ q # r => tx[q].touched \cap tx[r].touched = {}
  BY DEF LicencesAreRight
<1>2. \A q \in Request : tx[q].had \subseteq tx[q].touched
  BY DEF LicencesAreRight
<1>3. CASE UNCHANGED vars
  BY <1>3 DEF vars, LicencesAreRight, Open
<1>4. ASSUME NEW r \in Request, Dispatched(r)
      PROVE  LicencesAreRight'
  BY <1>1, <1>2, <1>4 DEF Dispatched, LicencesAreRight, Open
<1>5. ASSUME NEW r \in Request, NEW pc \in {"failed", "done", "error"}, Ends(r, pc)
      PROVE  LicencesAreRight'
  <2>1. /\ \A x \in Request \ {r} : tx'[x] = tx[x]
        /\ ~ Open(r)' /\ tx'[r].had = tx[r].had /\ tx'[r].touched = tx[r].touched
    BY <1>5 DEF Ends, Open
  <2> QED
    BY <1>1, <1>2, <2>1 DEF LicencesAreRight, Open
<1>6. ASSUME NEW r \in Request, Acts(r)
      PROVE  LicencesAreRight'
  <2>1. Open(r) /\ LicencesStep(r) /\ \A x \in Request \ {r} : tx'[x] = tx[x]
    BY <1>6 DEF Acts, Step
  <2>2. PICK X :
          /\ ~ LicencesLocked(r, X) /\ tx'[r].touched = tx[r].touched \cup X
          /\ tx'[r].had \subseteq tx[r].had \cup X
    BY <2>1 DEF LicencesStep
  <2>3. \A q \in Request \ {r} : Open(q) => tx[q].touched \cap X = {}
    BY <2>2 DEF LicencesLocked
  <2>4. \A q \in Request : tx'[q].had \subseteq tx'[q].touched
    BY <1>2, <2>1, <2>2
  <2>5. ASSUME NEW q \in Request, NEW x \in Request, Open(q)', Open(x)', q # x
        PROVE  tx'[q].touched \cap tx'[x].touched = {}
    <3>1. Open(q) /\ Open(x)
      BY <2>1, <2>5 DEF Open
    <3>2. tx[q].touched \cap tx[x].touched = {}
      BY <1>1, <2>5, <3>1
    <3>3. CASE q # r /\ x # r
      BY <2>1, <3>2, <3>3
    <3>4. CASE q = r
      BY <2>1, <2>2, <2>3, <2>5, <3>1, <3>2, <3>4
    <3>5. CASE x = r
      BY <2>1, <2>2, <2>3, <2>5, <3>1, <3>2, <3>5
    <3> QED
      BY <3>3, <3>4, <3>5
  <2> QED
    BY <2>4, <2>5 DEF LicencesAreRight
<1> QED
  BY <1>3, <1>4, <1>5, <1>6, EveryStep DEF Fails, Finishes, Commits, GivesUp

-----------------------------------------------------------------------------
(* Statuses *)

\* What is recorded stays so: the requests that are done do not change.
LEMMA RecordedStays ==
  ASSUME TypeOK, RequestsAreOrderly, HistoryIsOfRequestsDone, [Next]_vars,
         NEW a \in Asset, NEW k \in Kind
  PROVE  Recorded[a][k] \subseteq Recorded'[a][k]
<1>1. ASSUME NEW r \in Request, <<r, a>> \in history
      PROVE  <<r, a>> \in history' /\ Processed(r)' = Processed(r)
  <2>1. tx[r].pc = "done"
    BY <1>1 DEF HistoryIsOfRequestsDone
  <2>2. tx'[r] = tx[r] /\ history \subseteq history'
    <3>1. CASE UNCHANGED vars
      BY <3>1 DEF vars
    <3>2. ASSUME NEW q \in Request, Dispatched(q) \/ Acts(q) \/ Fails(q) \/ GivesUp(q)
          PROVE  tx'[r] = tx[r] /\ history \subseteq history'
      BY <2>1, <3>2 DEF Dispatched, Acts, Step, Fails, Commits, GivesUp, RolledBack, Ends, Open
    <3>3. ASSUME NEW q \in Request, Finishes(q)
          PROVE  tx'[r] = tx[r] /\ history \subseteq history'
      BY <2>1, <3>3 DEF Finishes, Commits, Ends, Open
    <3> QED
      BY <3>1, <3>2, <3>3, EveryStep
  <2>3. Processed(r)' = Processed(r)
    BY <2>2 DEF Processed, Objects
  <2> QED
    BY <1>1, <2>2, <2>3
<1>2. WhoRecorded(a, k) \subseteq WhoRecorded(a, k)'
  BY <1>1 DEF WhoRecorded
<1>3. \A r \in WhoRecorded(a, k) : Processed(r)' = Processed(r)
  BY <1>1 DEF WhoRecorded
<1> QED
  BY <1>2, <1>3 DEF Recorded

\* The rows after the writes w.
LEMMA RowsAfter ==
  ASSUME NEW w, Written(w), NEW a \in Asset, NEW k \in Kind, child'[a][k] # None
  PROVE  \/ child'[a][k] = child[a][k]
         \/ w[a] # None /\ w[a].kind = k /\ child'[a][k] = w[a].inst.row
<1>1. child'[a][k] = IF w[a] = None THEN child[a][k]
                     ELSE IF k = w[a].kind THEN w[a].inst.row
                     ELSE IF w[a].moved THEN None ELSE child[a][k]
  BY DEF Written
<1> QED
  BY <1>1

\* What a request that fails commits has been recorded before.
LEMMA FailedRows ==
  ASSUME RequestsAreOrderly, StatusesAreRecorded, NEW r \in Request, Fails(r),
         NEW a \in Asset, NEW k \in Kind, child'[a][k] # None
  PROVE  child'[a][k].status \in Recorded[a][k]
<1>1. PICK w : Commits(r, "failed", w) /\ SavedFromMemory(r, w, tx[r].mem)
  BY DEF Fails
<1>2. Open(r) /\ Written(w)
  BY <1>1 DEF Commits, Ends
<1>3. CASE child'[a][k] = child[a][k]
  BY <1>3 DEF StatusesAreRecorded
<1>4. CASE w[a] # None /\ w[a].kind = k /\ child'[a][k] = w[a].inst.row
  <2>1. CASE w[a] = tx[r].pending[a]
    <3>1. tx[r].performed # Actions[tx[r].trans]
      BY DEF Fails, Ready
    <3>2. WaitsRightly(r)
      BY <1>2 DEF StatusesAreRecorded
    <3> QED
      BY <1>4, <2>1, <3>1, <3>2 DEF WaitsRightly
  <2>2. CASE /\ a \in Objects(r) /\ w[a].kind = Model[tx[r].trans]
             /\ w[a].inst.row.status = tx[r].mem[a].row.status
    BY <1>2, <1>4, <2>2 DEF StatusesAreRecorded
  <2> QED
    BY <1>1, <1>4, <2>1, <2>2 DEF SavedFromMemory
<1> QED
  BY <1>2, <1>3, <1>4, RowsAfter

\* A request that is done records what it commits.
LEMMA FinishedRows ==
  ASSUME TypeOK, RequestsAreOrderly, StatusesAreRecorded, NEW r \in Request, Finishes(r),
         NEW a \in Asset, NEW k \in Kind, child'[a][k] # None
  PROVE  \/ child'[a][k] = child[a][k]
         \/ child'[a][k].status \in Recorded'[a][k]
<1>1. Open(r) /\ Written(Processed(r))
  BY DEF Finishes, Commits, Ends
<1>2. SUFFICES ASSUME Processed(r)[a] # None, Processed(r)[a].kind = k,
                      child'[a][k] = Processed(r)[a].inst.row
               PROVE  child'[a][k].status \in Recorded'[a][k]
  BY <1>1, RowsAfter
<1>3. a \in Objects(r)
  <2>1. CASE Converts(r)
    BY <1>1, <1>2, <2>1, ProcessedTyped DEF StatusesAreRecorded, WaitsRightly
  <2>2. CASE ~ Converts(r)
    BY <1>1, <1>2, <2>2, ProcessedTyped
  <2> QED
    BY <2>1, <2>2
<1>4. <<r, a>> \in history'
  BY <1>3 DEF Finishes
<1>5. Processed(r)' = Processed(r)
  BY DEF Processed, Objects, Finishes, Commits, Ends
<1>6. r \in WhoRecorded(a, k)'
  BY <1>2, <1>4, <1>5 DEF WhoRecorded
<1> QED
  BY <1>2, <1>5, <1>6 DEF Recorded

\* What waits for a commit while a request acts.
LEMMA ActingWaits ==
  ASSUME TypeOK, RequestsAreOrderly, HistoryIsOfRequestsDone, StatusesAreRecorded, [Next]_vars,
         NEW r \in Request, Acts(r)
  PROVE  WaitsRightly(r)'
<1>1. PICK name :
        /\ Step(r, name)
        /\ name \in SavingActions =>
             \/ name \in disable_save_object /\
                  \A a \in Asset : tx'[r].pending[a] # None =>
                    a \in Objects(r) /\ tx'[r].pending[a].inst.host = tx[r].mem[a].host
             \/ name \notin disable_save_object /\ SavedFromMemory(r, tx'[r].pending, tx[r].mem)
  BY DEF Acts
<1>2. /\ Open(r) /\ tx'[r].trans = tx[r].trans /\ tx[r].trans \in Transition
      /\ tx'[r].performed = tx[r].performed \cup {name} /\ name \in Actions[tx[r].trans]
      /\ tx[r].performed \subseteq Actions[tx[r].trans]
      /\ Objects(r)' = Objects(r) /\ Converts(r)' = Converts(r)
      /\ name \notin SavingActions => tx'[r].pending = tx[r].pending
  BY <1>1 DEF Step, Ready, Open, Objects, Converts, RequestsAreOrderly
<1>3. /\ WaitsRightly(r)
      /\ \A a \in Objects(r) : tx[r].mem[a].row.status \in Recorded[a][Model[tx[r].trans]]
  BY <1>2 DEF StatusesAreRecorded
<1>4. ASSUME NEW a \in Asset, tx'[r].pending[a] # None
      PROVE  a \in Objects(r)
  <2>1. \/ tx'[r].pending[a] = tx[r].pending[a]
        \/ a \in Objects(r)
    BY <1>1, <1>2, <1>4 DEF SavedFromMemory
  <2> QED
    BY <1>3, <1>4, <2>1 DEF WaitsRightly
<1>5. Converts(r) => tx'[r].performed = Actions[tx[r].trans]
  <2> SUFFICES ASSUME Converts(r)
               PROVE  tx'[r].performed = Actions[tx[r].trans]
    OBVIOUS
  <2>1. PICK x \in Actions[tx[r].trans] : x \in disable_save_object
    BY DEF Converts
  <2>2. Actions[tx[r].trans] = {x}
    BY <1>2, <2>1, ConfigAssumption
  <2> QED
    BY <1>2, <2>2
<1>6. ASSUME NEW a \in Asset, tx'[r].pending[a] # None, ~ Converts(r)
      PROVE  /\ tx'[r].pending[a].kind = Model[tx[r].trans]
             /\ tx'[r].pending[a].inst.row.status \in Recorded[a][Model[tx[r].trans]]
  <2>1. name \notin disable_save_object
    BY <1>2, <1>6 DEF Converts
  <2>2. \/ tx'[r].pending[a] = tx[r].pending[a]
        \/ /\ a \in Objects(r) /\ tx'[r].pending[a].kind = Model[tx[r].trans]
           /\ tx'[r].pending[a].inst.row.status = tx[r].mem[a].row.status
    BY <1>1, <1>2, <1>6, <2>1 DEF SavedFromMemory
  <2>3. CASE tx'[r].pending[a] = tx[r].pending[a]
    BY <1>3, <1>6, <2>3 DEF WaitsRightly
  <2>4. CASE /\ a \in Objects(r) /\ tx'[r].pending[a].kind = Model[tx[r].trans]
             /\ tx'[r].pending[a].inst.row.status = tx[r].mem[a].row.status
    BY <1>3, <2>4
  <2> QED
    BY <2>2, <2>3, <2>4
<1>7. ASSUME NEW a \in Asset, tx'[r].pending[a] # None, ~ Converts(r)
      PROVE  tx'[r].pending[a].inst.row.status \in Recorded'[a][Model[tx[r].trans]]
  <2>1. Model[tx[r].trans] \in Kind
    BY <1>2, ConfigAssumption
  <2> QED
    BY <1>6, <1>7, <2>1, RecordedStays
<1> QED
  BY <1>2, <1>4, <1>5, <1>6, <1>7 DEF WaitsRightly

\* What StatusesAreRecorded says of one request.
KnowsStatuses(r) ==
  Open(r) => /\ \A a \in Objects(r) : tx[r].mem[a].row.status \in Recorded[a][Model[tx[r].trans]]
             /\ WaitsRightly(r)

\* Who is not making the step knows what it knew.
LEMMA OthersKnowStatuses ==
  ASSUME TypeOK, RequestsAreOrderly, HistoryIsOfRequestsDone, [Next]_vars,
         NEW q \in Request, KnowsStatuses(q), tx'[q] = tx[q]
  PROVE  KnowsStatuses(q)'
<1> SUFFICES ASSUME Open(q)
             PROVE  (/\ \A a \in Objects(q) :
                          tx[q].mem[a].row.status \in Recorded[a][Model[tx[q].trans]]
                     /\ WaitsRightly(q))'
  BY DEF KnowsStatuses, Open
<1>1. /\ \A a \in Objects(q) : tx[q].mem[a].row.status \in Recorded[a][Model[tx[q].trans]]
      /\ WaitsRightly(q)
  BY DEF KnowsStatuses
<1>2. Objects(q)' = Objects(q) /\ Objects(q) \subseteq Asset /\ Converts(q)' = Converts(q)
  BY RequestTypes DEF Objects, Converts
<1>3. Model[tx[q].trans] \in Kind
  BY ConfigAssumption DEF Open, RequestsAreOrderly
<1>4. \A a \in Asset : Recorded[a][Model[tx[q].trans]] \subseteq Recorded'[a][Model[tx[q].trans]]
  BY <1>3, RecordedStays
<1>5. \A a \in Objects(q) : tx[q].mem[a].row.status \in Recorded'[a][Model[tx[q].trans]]
  BY <1>1, <1>2, <1>4
<1>6. WaitsRightly(q)'
  BY <1>1, <1>2, <1>4 DEF WaitsRightly
<1> QED
  BY <1>2, <1>5, <1>6

LEMMA StatusesKept ==
  ASSUME TypeOK, RequestsAreOrderly, HistoryIsOfRequestsDone, StatusesAreRecorded, [Next]_vars
  PROVE  StatusesAreRecorded'
<1>1. \A q \in Request : KnowsStatuses(q)
  BY DEF StatusesAreRecorded, KnowsStatuses
<1>2. \A a \in Asset, k \in Kind : child[a][k] # None => child[a][k].status \in Recorded[a][k]
  BY DEF StatusesAreRecorded
<1>3. \A a \in Asset, k \in Kind : Recorded[a][k] \subseteq Recorded'[a][k]
  BY RecordedStays
<1>4. ASSUME child' = child
      PROVE  \A a \in Asset, k \in Kind : child'[a][k] # None => child'[a][k].status \in Recorded'[a][k]
  BY <1>2, <1>3, <1>4
<1>5. CASE UNCHANGED vars
  <2>1. child' = child /\ \A q \in Request : tx'[q] = tx[q]
    BY <1>5 DEF vars
  <2>2. \A q \in Request : KnowsStatuses(q)'
    BY <1>1, <2>1, OthersKnowStatuses
  <2> QED
    BY <1>4, <2>1, <2>2 DEF StatusesAreRecorded, KnowsStatuses
<1>6. ASSUME NEW r \in Request, \A q \in Request \ {r} : tx'[q] = tx[q], KnowsStatuses(r)',
             \A a \in Asset, k \in Kind : child'[a][k] # None => child'[a][k].status \in Recorded'[a][k]
      PROVE  StatusesAreRecorded'
  <2>1. \A q \in Request : KnowsStatuses(q)'
    BY <1>1, <1>6, OthersKnowStatuses
  <2> QED
    BY <1>6, <2>1 DEF StatusesAreRecorded, KnowsStatuses
<1>7. ASSUME NEW r \in Request, Dispatched(r)
      PROVE  StatusesAreRecorded'
  <2>1. /\ child' = child /\ \A q \in Request \ {r} : tx'[q] = tx[q]
        /\ tx'[r].trans \in Transition /\ \A a \in Asset : tx'[r].pending[a] = None
        /\ \A a \in DOMAIN tx'[r].mem :
             /\ a \in Asset /\ child[a][Model[tx'[r].trans]] # None
             /\ tx'[r].mem[a].row = child[a][Model[tx'[r].trans]]
    BY <1>7 DEF Dispatched
  <2>2. Model[tx'[r].trans] \in Kind
    BY <2>1, ConfigAssumption
  <2>3. \A a \in DOMAIN tx'[r].mem :
          tx'[r].mem[a].row.status \in Recorded'[a][Model[tx'[r].trans]]
    BY <1>4, <2>1, <2>2
  <2>4. WaitsRightly(r)'
    BY <2>1 DEF WaitsRightly
  <2>5. KnowsStatuses(r)'
    BY <2>3, <2>4 DEF KnowsStatuses, Objects
  <2> QED
    BY <1>4, <1>6, <2>1, <2>5
<1>8. ASSUME NEW r \in Request, Acts(r)
      PROVE  StatusesAreRecorded'
  <2>1. /\ child' = child /\ \A q \in Request \ {r} : tx'[q] = tx[q]
        /\ Open(r) /\ tx'[r].trans = tx[r].trans /\ Objects(r)' = Objects(r)
        /\ \A a \in Objects(r) : tx'[r].mem[a].row.status = tx[r].mem[a].row.status
    BY <1>8 DEF Acts, Step, Objects
  <2>2. Model[tx[r].trans] \in Kind /\ Objects(r) \subseteq Asset
    BY <2>1, ConfigAssumption, RequestTypes DEF Open, RequestsAreOrderly
  <2>3. \A a \in Objects(r) : tx'[r].mem[a].row.status \in Recorded'[a][Model[tx[r].trans]]
    BY <1>1, <1>3, <2>1, <2>2 DEF KnowsStatuses
  <2>4. WaitsRightly(r)'
    BY <1>8, ActingWaits
  <2>5. KnowsStatuses(r)'
    BY <2>1, <2>3, <2>4 DEF KnowsStatuses
  <2> QED
    BY <1>4, <1>6, <2>1, <2>5
<1>9. ASSUME NEW r \in Request, Fails(r) \/ Finishes(r) \/ GivesUp(r)
      PROVE  StatusesAreRecorded'
  <2>1. (\A q \in Request \ {r} : tx'[q] = tx[q]) /\ ~ Open(r)'
    BY <1>9 DEF Fails, Finishes, GivesUp, Commits, Ends, Open
  <2>2. KnowsStatuses(r)'
    BY <2>1 DEF KnowsStatuses
  <2>3. ASSUME NEW a \in Asset, NEW k \in Kind, child'[a][k] # None
        PROVE  child'[a][k].status \in Recorded'[a][k]
    <3>1. CASE Fails(r)
      BY <1>3, <2>3, <3>1, FailedRows
    <3>2. CASE Finishes(r)
      BY <1>2, <1>3, <2>3, <3>2, FinishedRows
    <3>3. CASE GivesUp(r)
      BY <1>4, <2>3, <3>3 DEF GivesUp, RolledBack
    <3> QED
      BY <1>9, <3>1, <3>2, <3>3
  <2> QED
    BY <1>6, <2>1, <2>2, <2>3
<1> QED
  BY <1>5, <1>7, <1>8, <1>9, EveryStep

-----------------------------------------------------------------------------
(* Reports *)

\* What ReportsNameUsers says of one request.
NamesUsers(q) ==
  /\ tx[q].performed \cap UserActions = {} =>
       \A a \in Objects(q) : tx[q].mem[a].row.user = tx[q].snap[a].row.user
  /\ \A p \in tx[q].reports :
       /\ Performed(q, ReportAction(p.name))
       /\ ~ Wanted(q, "change_user_and_owner") =>
            /\ p.name = "return" /\ Wanted(q, "unassign_user") =>
                 p.user = tx[q].snap[First(q)].row.user
            /\ p.name # "return" /\ Wanted(q, "assign_user") =>
                 p.user = tx[q].mem[First(q)].row.user

LEMMA FirstIsOne ==
  ASSUME NEW q \in Request, Objects(q) # {}
  PROVE  First(q) \in Objects(q)
  BY DEF First

\* An action is performed once, and after those it must come after.
LEMMA ReadyActions ==
  ASSUME RequestsAreOrderly, NEW q \in Request, NEW name, Open(q), Ready(q, name)
  PROVE  /\ Wanted(q, name) /\ ~ Performed(q, name)
         /\ \A p \in run_after :
              /\ p[1] = name /\ Wanted(q, p[2]) => Performed(q, p[2])
              /\ p[2] = name => ~ Performed(q, p[1])
<1>1. name \in Actions[tx[q].trans] \ tx[q].performed
  BY DEF Ready
<1>2. \A other \in Actions[tx[q].trans] \ tx[q].performed : <<name, other>> \notin run_after
  BY DEF Ready
<1>3. \A p \in run_after : Performed(q, p[1]) /\ Wanted(q, p[2]) => Performed(q, p[2])
  BY DEF RequestsAreOrderly, Open
<1> QED
  BY <1>1, <1>2, <1>3, OrderPairs DEF Wanted, Performed

\* A report is about a user who is there before the users change, or whom the action has
\* just assigned.
LEMMA ReportNamesUser ==
  ASSUME TypeOK, RequestsAreOrderly, NEW q \in Request, NamesUsers(q),
         NEW n \in {"release", "return", "loan"}, Open(q), Ready(q, ReportAction(n)),
         ~ Wanted(q, "change_user_and_owner")
  PROVE  n = "return" /\ Wanted(q, "unassign_user") =>
           tx[q].mem[First(q)].row.user = tx[q].snap[First(q)].row.user
<1> SUFFICES ASSUME n = "return", Wanted(q, "unassign_user")
             PROVE  tx[q].mem[First(q)].row.user = tx[q].snap[First(q)].row.user
  OBVIOUS
<1>1. Ready(q, "return_report")
  BY DEF ReportAction
<1>2. ~ Performed(q, "unassign_user")
  BY <1>1, ReadyActions, OrderPairs
<1>3. ~ Performed(q, "assign_user")
  BY <1>2, OrderPairs DEF RequestsAreOrderly, Open
<1>4. ~ Performed(q, "change_user_and_owner")
  BY DEF RequestsAreOrderly, Open, Performed, Wanted
<1>5. tx[q].performed \cap UserActions = {}
  BY <1>2, <1>3, <1>4 DEF UserActions, Performed
<1>6. First(q) \in Objects(q)
  BY FirstIsOne DEF RequestsAreOrderly, Open
<1> QED
  BY <1>5, <1>6 DEF NamesUsers

\* After a report of a user who is given the assets the users do not change.
LEMMA UsersStay ==
  ASSUME TypeOK, RequestsAreOrderly, NEW q \in Request, NEW name, Step(q, name),
         NEW n \in {"release", "return", "loan"}, n # "return",
         Performed(q, ReportAction(n)), Wanted(q, "assign_user"),
         ~ Wanted(q, "change_user_and_owner")
  PROVE  name \notin UserActions
<1>1. Open(q) /\ Ready(q, name)
  BY DEF Step
<1>2. Performed(q, "assign_user")
  <2>1. ReportAction(n) = "release_report" \/ ReportAction(n) = "loan_report"
    BY DEF ReportAction
  <2> QED
    BY <1>1, <2>1, OrderPairs DEF RequestsAreOrderly, Open
<1>3. Wanted(q, "unassign_user") => Performed(q, "unassign_user")
  BY <1>1, <1>2, OrderPairs DEF RequestsAreOrderly, Open
<1>4. Wanted(q, name) /\ ~ Performed(q, name)
  BY <1>1, ReadyActions
<1> QED
  BY <1>2, <1>3, <1>4 DEF UserActions

LEMMA ReportsKept ==
  ASSUME TypeOK, RequestsAreOrderly, ReportsNameUsers, [Next]_vars
  PROVE  ReportsNameUsers'
<1> SUFFICES ASSUME NEW q \in Request, tx'[q].pc # "new"
             PROVE  NamesUsers(q)'
  BY DEF ReportsNameUsers, NamesUsers
<1>1. tx[q].pc # "new" => NamesUsers(q)
  BY DEF ReportsNameUsers, NamesUsers
<1>2. CASE tx'[q] = tx[q]
  BY <1>1, <1>2 DEF NamesUsers, Performed, Wanted, Objects, First
<1>3. CASE tx'[q] # tx[q]
  <2>1. Dispatched(q) \/ Acts(q) \/ \E pc : Ends(q, pc)
    BY <1>3, EveryStep
       DEF vars, Dispatched, Acts, Step, Fails, Finishes, Commits, GivesUp, Ends
  <2>2. CASE Dispatched(q)
    BY <2>2 DEF Dispatched, NamesUsers, Objects
  <2>3. CASE \E pc : Ends(q, pc)
    BY <1>1, <2>3 DEF Ends, Open, NamesUsers, Performed, Wanted, Objects, First
  <2>4. CASE Acts(q)
    <3>1. PICK name :
            /\ Step(q, name)
            /\ name \in ReportActions =>
                 /\ tx'[q].mem = tx[q].mem
                 /\ \E n \in {"release", "return", "loan"} :
                      /\ name = ReportAction(n)
                      /\ tx'[q].reports = tx[q].reports \cup
                           {[name |-> n, user |-> tx[q].mem[First(q)].row.user]}
      BY <2>4 DEF Acts
    <3>2. /\ Open(q) /\ Ready(q, name) /\ NamesUsers(q)
          /\ tx'[q].trans = tx[q].trans /\ tx'[q].snap = tx[q].snap
          /\ tx'[q].performed = tx[q].performed \cup {name}
          /\ Objects(q)' = Objects(q) /\ First(q)' = First(q)
          /\ First(q) \in Objects(q)
          /\ name \notin UserActions =>
               \A a \in Objects(q) : tx'[q].mem[a].row.user = tx[q].mem[a].row.user
          /\ name \notin ReportActions => tx'[q].reports = tx[q].reports
      BY <1>1, <3>1, FirstIsOne DEF Step, Open, Objects, First, RequestsAreOrderly
    <3>3. tx'[q].performed \cap UserActions = {} =>
            \A a \in Objects(q) : tx'[q].mem[a].row.user = tx'[q].snap[a].row.user
      BY <3>2 DEF NamesUsers
    <3>4. ASSUME NEW p \in tx'[q].reports, ~ Wanted(q, "change_user_and_owner")
          PROVE  /\ p.name = "return" /\ Wanted(q, "unassign_user") =>
                      p.user = tx[q].snap[First(q)].row.user
                 /\ p.name # "return" /\ Wanted(q, "assign_user") =>
                      p.user = tx'[q].mem[First(q)].row.user
      <4>1. CASE p \in tx[q].reports
        <5>1. tx[q].reports \in SUBSET Report
          BY RequestTypes, RequestFields
        <5>2. p.name \in {"release", "return", "loan"}
          BY <4>1, <5>1 DEF Report
        <5>3. Performed(q, ReportAction(p.name))
          BY <3>2, <4>1 DEF NamesUsers
        <5>4. p.name # "return" /\ Wanted(q, "assign_user") => name \notin UserActions
          BY <3>1, <3>4, <5>2, <5>3, UsersStay
        <5> QED
          BY <3>2, <3>4, <4>1, <5>4 DEF NamesUsers
      <4>2. CASE p \notin tx[q].reports
        <5>1. name \in ReportActions
          BY <3>2, <4>2
        <5>2. PICK n \in {"release", "return", "loan"} :
                /\ name = ReportAction(n)
                /\ tx'[q].reports = tx[q].reports \cup
                     {[name |-> n, user |-> tx[q].mem[First(q)].row.user]}
          BY <3>1, <5>1
        <5>3. p.name = n /\ p.user = tx[q].mem[First(q)].row.user
          BY <4>2, <5>2
        <5>4. tx'[q].mem = tx[q].mem
          BY <3>1, <5>1
        <5> QED
          BY <3>2, <3>4, <5>2, <5>3, <5>4, ReportNamesUser
      <4> QED
        BY <4>1, <4>2
    <3>5. ASSUME NEW p \in tx'[q].reports
          PROVE  ReportAction(p.name) \in tx'[q].performed
      <4>1. CASE p \in tx[q].reports
        BY <3>2, <4>1 DEF NamesUsers, Performed
      <4>2. CASE p \notin tx[q].reports
        <5>1. PICK n \in {"release", "return", "loan"} :
                /\ name = ReportAction(n)
                /\ tx'[q].reports = tx[q].reports \cup
                     {[name |-> n, user |-> tx[q].mem[First(q)].row.user]}
          BY <3>1, <3>2, <4>2
        <5>2. p.name = n
          BY <4>2, <5>1
        <5> QED
          BY <3>2, <5>1, <5>2
      <4> QED
        BY <4>1, <4>2
    <3> QED
      BY <3>2, <3>3, <3>4, <3>5 DEF NamesUsers, Performed, Wanted
  <2> QED
    BY <2>1, <2>2, <2>3, <2>4
<1> QED
  BY <1>2, <1>3

-----------------------------------------------------------------------------
(* Counters and hostnames *)

\* The numbers a request knows.
LEMMA NumbersTyped ==
  ASSUME TypeOK, NEW q \in Request, NEW c \in Country
  PROVE  counter[c] \in Nat /\ tx[q].was[c] \in Nat \cup {None} /\ None \notin Nat
<1>1. tx[q].was \in [Country -> Nat \cup {None}]
  BY RequestTypes, RequestFields
<1> QED
  BY <1>1, ConfigAssumption DEF TypeOK

LEMMA CountersKept ==
  ASSUME TypeOK, RequestsAreOrderly, CountersAreRight, [Next]_vars
  PROVE  CountersAreRight'
<1> SUFFICES ASSUME NEW q \in Request, NEW c \in Country, Open(q)', tx'[q].was[c] # None
             PROVE  /\ tx'[q].was[c] <= counter'[c]
                    /\ \A x \in Request : Open(x)' /\ tx'[x].was[c] # None => x = q
  BY DEF CountersAreRight
<1> USE DEF Open
<1>1. \A x, y \in Request : Open(x) /\ Open(y) /\ tx[x].was[c] # None /\ tx[y].was[c] # None => x = y
  BY DEF CountersAreRight
<1>2. \A x \in Request : Open(x) /\ tx[x].was[c] # None => tx[x].was[c] <= counter[c]
  BY DEF CountersAreRight
<1>3. TypeOK'
  BY EveryStep
<1>4. CASE UNCHANGED vars
  BY <1>1, <1>2, <1>4 DEF vars
<1>5. ASSUME NEW r \in Request, Dispatched(r)
      PROVE  /\ tx'[q].was[c] <= counter'[c]
             /\ \A x \in Request : Open(x)' /\ tx'[x].was[c] # None => x = q
  BY <1>1, <1>2, <1>5 DEF Dispatched
<1>6. ASSUME NEW r \in Request, Fails(r) \/ Finishes(r)
      PROVE  /\ tx'[q].was[c] <= counter'[c]
             /\ \A x \in Request : Open(x)' /\ tx'[x].was[c] # None => x = q
  <2>1. /\ CountersGrow(r) /\ tx'[r].pc # "run"
        /\ \A x \in Request \ {r} : tx'[x] = tx[x]
    BY <1>6 DEF Fails, Finishes, Commits, Ends
  <2>2. counter[c] \in Nat /\ counter'[c] \in Nat /\ tx[q].was[c] \in Nat \cup {None}
        /\ counter[c] <= counter'[c]
    BY <1>3, <2>1, NumbersTyped DEF TypeOK, CountersGrow
  <2> QED
    BY <1>1, <1>2, <2>1, <2>2
<1>7. ASSUME NEW r \in Request, GivesUp(r)
      PROVE  /\ tx'[q].was[c] <= counter'[c]
             /\ \A x \in Request : Open(x)' /\ tx'[x].was[c] # None => x = q
  <2>1. /\ tx[r].pc = "run" /\ tx'[r].pc # "run"
        /\ \A x \in Request \ {r} : tx'[x] = tx[x]
        /\ counter'[c] = IF tx[r].was[c] = None THEN counter[c] ELSE tx[r].was[c]
    BY <1>7 DEF GivesUp, RolledBack, Ends
  <2> QED
    BY <1>1, <1>2, <2>1
<1>8. ASSUME NEW r \in Request, Acts(r)
      PROVE  /\ tx'[q].was[c] <= counter'[c]
             /\ \A x \in Request : Open(x)' /\ tx'[x].was[c] # None => x = q
  <2>1. /\ tx[r].pc = "run" /\ tx'[r].pc = "run"
        /\ \A x \in Request \ {r} : tx'[x] = tx[x]
    BY <1>8 DEF Acts, Step
  <2>2. \/ HostsStep(r)
        \/ counter' = counter /\ tx'[r].was = tx[r].was
    BY <1>8 DEF Acts, Step
  <2>3. CASE counter' = counter /\ tx'[r].was = tx[r].was
    BY <1>1, <1>2, <2>1, <2>3
  <2>4. CASE HostsStep(r)
    <3>1. /\ counter[c] <= counter'[c]
          /\ tx[r].was[c] # None => tx'[r].was[c] = tx[r].was[c]
          /\ tx[r].was[c] = None /\ tx'[r].was[c] # None =>
            ~ CounterLocked(r, c) /\ tx'[r].was[c] = counter[c]
      BY <2>4 DEF HostsStep
    <3>2. counter[c] \in Nat /\ counter'[c] \in Nat /\ tx[q].was[c] \in Nat \cup {None}
      BY <1>3, NumbersTyped DEF TypeOK
    <3>3. ~ CounterLocked(r, c) => \A x \in Request \ {r} : Open(x) => tx[x].was[c] = None
      BY DEF CounterLocked
    <3>4. tx'[q].was[c] <= counter'[c]
      BY <1>2, <2>1, <3>1, <3>2
    <3> QED
      BY <1>1, <2>1, <3>1, <3>3, <3>4
  <2> QED
    BY <2>2, <2>3, <2>4
<1> QED
  BY <1>4, <1>5, <1>6, <1>7, <1>8, EveryStep

\* What has been given out stays so while a request acts, ...
LEMMA GivenOutWhenActing ==
  ASSUME TypeOK, NEW r \in Request, Acts(r), TypeOK', NEW h \in Hostname \cup {None},
         NEW Q \in SUBSET Request, GivenOut(h, Q)
  PROVE  GivenOut(h, Q)'
<1> SUFFICES ASSUME h # None
             PROVE  /\ h.number <= counter'[h.country]
                    /\ \A q \in Q : Open(q)' /\ tx'[q].was[h.country] # None =>
                         h.number <= tx'[q].was[h.country]
  BY DEF GivenOut
<1> DEFINE c == h.country
           n == h.number
<1>1. c \in Country /\ n \in Nat
  BY DEF Hostname
<1>2. /\ n <= counter[c]
      /\ \A q \in Q : Open(q) /\ tx[q].was[c] # None => n <= tx[q].was[c]
  BY DEF GivenOut
<1> HIDE DEF c, n
<1>3. /\ Open(r)
      /\ \A x \in Request \ {r} : tx'[x] = tx[x]
  BY DEF Acts, Step
<1>4. HostsStep(r) \/ (counter' = counter /\ tx'[r].was = tx[r].was)
  BY DEF Acts, Step
<1>5. counter[c] \in Nat /\ counter'[c] \in Nat
  BY <1>1 DEF TypeOK
<1>6. /\ counter[c] <= counter'[c]
      /\ tx[r].was[c] # None => tx'[r].was[c] = tx[r].was[c]
      /\ tx[r].was[c] = None /\ tx'[r].was[c] # None => tx'[r].was[c] = counter[c]
  BY <1>1, <1>4, <1>5 DEF HostsStep
<1>7. n <= counter'[c]
  BY <1>1, <1>2, <1>5, <1>6
<1>8. \A q \in Q : Open(q)' /\ tx'[q].was[c] # None => n <= tx'[q].was[c]
  BY <1>2, <1>3, <1>6 DEF Open
<1> QED
  BY <1>7, <1>8 DEF c, n

\* ... while one dispatches or commits, whose own numbers are then everybody's, ...
LEMMA GivenOutWhenCommitted ==
  ASSUME NEW r \in Request, NEW h \in Hostname \cup {None}, NEW Q \in SUBSET Request,
         GivenOut(h, Q \ {r}), TypeOK, TypeOK', CountersGrow(r),
         \A x \in Request \ {r} : tx'[x] = tx[x],
         \A c \in Country : tx'[r].pc = "run" => tx'[r].was[c] = None
  PROVE  GivenOut(h, Q)'
<1> SUFFICES ASSUME h # None
             PROVE  /\ h.number <= counter'[h.country]
                    /\ \A q \in Q : Open(q)' /\ tx'[q].was[h.country] # None =>
                         h.number <= tx'[q].was[h.country]
  BY DEF GivenOut
<1>1. h.country \in Country /\ h.number \in Nat
  BY DEF Hostname
<1>2. /\ counter[h.country] \in Nat /\ counter'[h.country] \in Nat
      /\ counter[h.country] <= counter'[h.country]
  BY <1>1 DEF TypeOK, CountersGrow
<1>3. h.number <= counter'[h.country]
  BY <1>1, <1>2 DEF GivenOut
<1> QED
  BY <1>1, <1>3 DEF GivenOut, Open

\* ... and when one that is among the requests is rolled back.
LEMMA GivenOutWhenRolledBack ==
  ASSUME TypeOK, NEW r \in Request, GivesUp(r), NEW h \in Hostname \cup {None},
         NEW Q \in SUBSET Request, r \in Q, GivenOut(h, Q)
  PROVE  GivenOut(h, Q)'
<1> SUFFICES ASSUME h # None
             PROVE  /\ h.number <= counter'[h.country]
                    /\ \A q \in Q : Open(q)' /\ tx'[q].was[h.country] # None =>
                         h.number <= tx'[q].was[h.country]
  BY DEF GivenOut
<1> DEFINE c == h.country
<1>1. c \in Country
  BY DEF Hostname
<1>2. /\ Open(r) /\ tx'[r].pc # "run"
      /\ \A x \in Request \ {r} : tx'[x] = tx[x]
      /\ counter'[c] = IF tx[r].was[c] = None THEN counter[c] ELSE tx[r].was[c]
  BY <1>1 DEF GivesUp, RolledBack, Ends
<1> QED
  BY <1>2 DEF GivenOut, Open

\* Hostnames are of their type.
LEMMA HostsTyped ==
  ASSUME TypeOK, NEW q \in Request
  PROVE  RowHosts \subseteq Hostname \cup {None} /\ KnownHosts(q) \subseteq Hostname \cup {None}
<1>1. /\ Objects(q) \in SUBSET Asset
      /\ tx[q].mem \in [Objects(q) -> Instance]
      /\ tx[q].pending \in [Asset -> Write \cup {None}]
  BY RequestTypes, RequestFields
<1>2. \A a \in Objects(q) : tx[q].mem[a].host \in Hostname \cup {None}
  BY <1>1, InstanceFields
<1>3. \A a \in Asset : tx[q].pending[a] # None =>
              tx[q].pending[a].inst.host \in Hostname \cup {None}
  BY <1>1, WriteFields, InstanceFields
<1>4. KnownHosts(q) \subseteq Hostname \cup {None}
  BY <1>2, <1>3 DEF KnownHosts
<1>5. RowHosts \subseteq Hostname \cup {None}
  BY DEF TypeOK, RowHosts
<1> QED
  BY <1>4, <1>5

\* What HostsAreGivenOut says of one request.
KnowsNumbers(q) == Open(q) => \A h \in KnownHosts(q) : GivenOut(h, Request \ {q})

\* Who is not making the step knows what it knew.
LEMMA OthersKnow ==
  ASSUME TypeOK, NEW q \in Request, KnowsNumbers(q), tx'[q] = tx[q],
         \A h \in Hostname \cup {None} :
           GivenOut(h, Request \ {q}) => GivenOut(h, Request \ {q})'
  PROVE  KnowsNumbers(q)'
<1>1. KnownHosts(q)' = KnownHosts(q) /\ (Open(q)' <=> Open(q))
  BY DEF Open, Objects, KnownHosts
<1>2. KnownHosts(q) \subseteq Hostname \cup {None}
  BY HostsTyped
<1> QED
  BY <1>1, <1>2 DEF KnowsNumbers

LEMMA ActingKeepsHosts ==
  ASSUME TypeOK, NEW r \in Request, Acts(r), TypeOK', HostsAreGivenOut
  PROVE  HostsAreGivenOut'
<1>1. Open(r) /\ hostname' = hostname /\ \A x \in Request \ {r} : tx'[x] = tx[x]
  BY DEF Acts, Step
<1>2. ASSUME NEW Q \in SUBSET Request, NEW h \in Hostname \cup {None}, GivenOut(h, Q)
      PROVE  GivenOut(h, Q)'
  BY <1>2, GivenOutWhenActing
<1>3. (\A h \in RowHosts : GivenOut(h, Request))'
  <2>1. RowHosts' = RowHosts /\ RowHosts \subseteq Hostname \cup {None}
    BY <1>1, HostsTyped DEF RowHosts
  <2>2. \A h \in RowHosts : GivenOut(h, Request)
    BY DEF HostsAreGivenOut
  <2> QED
    BY <1>2, <2>1, <2>2
<1>4. ASSUME NEW q \in Request \ {r}
      PROVE  KnowsNumbers(q)'
  <2>1. KnowsNumbers(q)
    BY DEF HostsAreGivenOut, KnowsNumbers
  <2>2. tx'[q] = tx[q]
    BY <1>1
  <2> QED
    BY <1>2, <2>1, <2>2, OthersKnow
<1>5. ASSUME NEW h \in KnownHosts(r)'
      PROVE  GivenOut(h, Request \ {r})'
  <2>1. PICK name :
          /\ Step(r, name)
          /\ name \in HostActions => HostsStep(r)
          /\ name \in SavingActions =>
               \A a \in Asset : tx'[r].pending[a] # None =>
                 \/ tx'[r].pending[a] = tx[r].pending[a]
                 \/ a \in Objects(r) /\ tx'[r].pending[a].inst.host = tx[r].mem[a].host
    BY DEF Acts, SavedFromMemory
  <2>2. DOMAIN tx'[r].mem = Objects(r)
    BY <2>1 DEF Step, Objects
  <2>3. ASSUME h \in KnownHosts(r)
        PROVE  GivenOut(h, Request \ {r})'
    <3>1. h \in Hostname \cup {None} /\ GivenOut(h, Request \ {r})
      BY <1>1, <2>3, HostsTyped DEF HostsAreGivenOut
    <3> QED
      BY <1>2, <3>1
  <2>4. CASE \E a \in Asset : tx'[r].pending[a] # None /\ h = tx'[r].pending[a].inst.host
    <3>1. PICK a \in Asset : tx'[r].pending[a] # None /\ h = tx'[r].pending[a].inst.host
      BY <2>4
    <3>2. \/ a \in Objects(r) /\ h = tx[r].mem[a].host
          \/ tx[r].pending[a] # None /\ h = tx[r].pending[a].inst.host
      BY <2>1, <3>1 DEF Step
    <3> QED
      BY <2>3, <3>2 DEF KnownHosts
  <2>5. CASE \E a \in Objects(r) : h = tx'[r].mem[a].host
    <3>1. PICK a \in Objects(r) : h = tx'[r].mem[a].host
      BY <2>5
    <3>2. \/ h = tx[r].mem[a].host
          \/ h.number <= counter'[h.country] /\ ~ CounterLocked(r, h.country)
      BY <2>1, <3>1 DEF Step, HostsStep
    <3>3. CASE h = tx[r].mem[a].host
      BY <2>3, <3>3 DEF KnownHosts
    <3>4. CASE h.number <= counter'[h.country] /\ ~ CounterLocked(r, h.country)
      <4>1. \A q \in Request \ {r} : Open(q)' => tx'[q].was[h.country] = None
        BY <1>1, <3>4 DEF CounterLocked, Open
      <4> QED
        BY <3>4, <4>1 DEF GivenOut
    <3> QED
      BY <3>2, <3>3, <3>4
  <2> QED
    BY <2>2, <2>4, <2>5 DEF KnownHosts, Objects
<1> QED
  BY <1>3, <1>4, <1>5 DEF HostsAreGivenOut, KnowsNumbers

LEMMA CommitKeepsHosts ==
  ASSUME TypeOK, NEW r \in Request, NEW pc \in {"failed", "done"}, NEW w, Commits(r, pc, w),
         HostsAreGivenOut, TypeOK'
  PROVE  HostsAreGivenOut'
<1>1. /\ Open(r) /\ tx'[r].pc # "run" /\ CountersGrow(r)
      /\ \A x \in Request \ {r} : tx'[x] = tx[x]
  BY DEF Commits, Ends
<1>2. ASSUME NEW Q \in SUBSET Request, NEW h \in Hostname \cup {None}, GivenOut(h, Q \ {r})
      PROVE  GivenOut(h, Q)'
  BY <1>1, <1>2, GivenOutWhenCommitted
<1>3. ASSUME NEW h \in RowHosts'
      PROVE  GivenOut(h, Request)'
  <2>1. h \in RowHosts \/ h \in KnownHosts(r)
    BY DEF Commits, Written, RowHosts, KnownHosts
  <2>2. h \in Hostname \cup {None}
    BY <2>1, HostsTyped
  <2>3. GivenOut(h, Request \ {r})
    BY <1>1, <2>1 DEF HostsAreGivenOut, GivenOut
  <2> QED
    BY <1>2, <2>2, <2>3
<1>4. ASSUME NEW q \in Request \ {r}
      PROVE  KnowsNumbers(q)'
  <2>1. KnowsNumbers(q) /\ tx'[q] = tx[q]
    BY <1>1 DEF HostsAreGivenOut, KnowsNumbers
  <2>2. \A h \in Hostname \cup {None} :
          GivenOut(h, Request \ {q}) => GivenOut(h, (Request \ {q}) \ {r})
    BY DEF GivenOut
  <2>3. \A h \in Hostname \cup {None} :
          GivenOut(h, Request \ {q}) => GivenOut(h, Request \ {q})'
    BY <1>2, <2>2
  <2> QED
    BY <2>1, <2>3, OthersKnow
<1>5. ~ Open(r)'
  BY <1>1 DEF Open
<1> QED
  BY <1>3, <1>4, <1>5 DEF HostsAreGivenOut, KnowsNumbers

LEMMA RollbackKeepsHosts ==
  ASSUME TypeOK, NEW r \in Request, GivesUp(r), HostsAreGivenOut
  PROVE  HostsAreGivenOut'
<1>1. /\ Open(r) /\ tx'[r].pc # "run" /\ hostname' = hostname
      /\ \A x \in Request \ {r} : tx'[x] = tx[x]
  BY DEF GivesUp, RolledBack, Ends
<1>2. ASSUME NEW Q \in SUBSET Request, r \in Q, NEW h \in Hostname \cup {None}, GivenOut(h, Q)
      PROVE  GivenOut(h, Q)'
  BY <1>2, GivenOutWhenRolledBack
<1>3. ASSUME NEW h \in RowHosts'
      PROVE  GivenOut(h, Request)'
  <2>1. h \in RowHosts
    BY <1>1 DEF RowHosts
  <2>2. h \in Hostname \cup {None} /\ GivenOut(h, Request)
    BY <2>1, HostsTyped DEF HostsAreGivenOut
  <2> QED
    BY <1>2, <2>2
<1>4. ASSUME NEW q \in Request \ {r}
      PROVE  KnowsNumbers(q)'
  <2>1. KnowsNumbers(q) /\ tx'[q] = tx[q]
    BY <1>1 DEF HostsAreGivenOut, KnowsNumbers
  <2>2. r \in Request \ {q}
    OBVIOUS
  <2>3. \A h \in Hostname \cup {None} :
          GivenOut(h, Request \ {q}) => GivenOut(h, Request \ {q})'
    BY <1>2, <2>2
  <2> QED
    BY <2>1, <2>3, OthersKnow
<1>5. ~ Open(r)'
  BY <1>1 DEF Open
<1> QED
  BY <1>3, <1>4, <1>5 DEF HostsAreGivenOut, KnowsNumbers

LEMMA DispatchKeepsHosts ==
  ASSUME TypeOK, NEW r \in Request, Dispatched(r), HostsAreGivenOut, TypeOK'
  PROVE  HostsAreGivenOut'
<1>1. /\ CountersGrow(r) /\ hostname' = hostname
      /\ \A x \in Request \ {r} : tx'[x] = tx[x]
      /\ \A c \in Country : tx'[r].was[c] = None
  BY SameCounters DEF Dispatched
<1>2. ASSUME NEW Q \in SUBSET Request, NEW h \in Hostname \cup {None}, GivenOut(h, Q \ {r})
      PROVE  GivenOut(h, Q)'
  BY <1>1, <1>2, GivenOutWhenCommitted
<1>3. ASSUME NEW h \in RowHosts, NEW Q \in SUBSET Request
      PROVE  GivenOut(h, Q)'
  <2>1. h \in Hostname \cup {None} /\ GivenOut(h, Q \ {r})
    BY HostsTyped DEF HostsAreGivenOut, GivenOut
  <2> QED
    BY <1>2, <2>1
<1>4. RowHosts' = RowHosts
  BY <1>1 DEF RowHosts
<1>5. ASSUME NEW q \in Request \ {r}
      PROVE  KnowsNumbers(q)'
  <2>1. KnowsNumbers(q) /\ tx'[q] = tx[q]
    BY <1>1 DEF HostsAreGivenOut, KnowsNumbers
  <2>2. \A h \in Hostname \cup {None} :
          GivenOut(h, Request \ {q}) => GivenOut(h, (Request \ {q}) \ {r})
    BY DEF GivenOut
  <2>3. \A h \in Hostname \cup {None} :
          GivenOut(h, Request \ {q}) => GivenOut(h, Request \ {q})'
    BY <1>2, <2>2
  <2> QED
    BY <2>1, <2>3, OthersKnow
<1>6. KnownHosts(r)' \subseteq RowHosts
  BY DEF Dispatched, KnownHosts, RowHosts, Objects
<1> QED
  BY <1>3, <1>4, <1>5, <1>6 DEF HostsAreGivenOut, KnowsNumbers

LEMMA HostsKept ==
  ASSUME TypeOK, RequestsAreOrderly, HostsAreGivenOut, [Next]_vars
  PROVE  HostsAreGivenOut'
<1>1. CASE UNCHANGED vars
  BY <1>1 DEF vars, HostsAreGivenOut, GivenOut, RowHosts, KnownHosts, Open, Objects
<1>2. ASSUME NEW r \in Request,
             Dispatched(r) \/ Acts(r) \/ Fails(r) \/ Finishes(r) \/ GivesUp(r)
      PROVE  HostsAreGivenOut'
  <2>1. TypeOK'
    BY EveryStep
  <2>2. CASE Fails(r)
    BY <2>1, <2>2, CommitKeepsHosts DEF Fails
  <2>3. CASE Finishes(r)
    BY <2>1, <2>3, CommitKeepsHosts DEF Finishes
  <2> QED
    BY <1>2, <2>1, <2>2, <2>3, DispatchKeepsHosts, ActingKeepsHosts, RollbackKeepsHosts
<1> QED
  BY <1>1, <1>2, EveryStep

-----------------------------------------------------------------------------
(* The invariant and the theorems *)

LEMMA InitInv == Init => IInv
<1> SUFFICES ASSUME Init
             PROVE  IInv
  OBVIOUS
<1>1. \A r \in Request : tx[r] = NewRequest
  BY DEF Init
<1>2. /\ NewRequest.pc = "new" /\ NewRequest.had = {} /\ NewRequest.touched = {}
  BY DEF NewRequest
<1>3. /\ child \in [Asset -> [Kind -> ChildRow \cup {None}]]
      /\ \A a \in Asset, k \in Kind :
           child[a][k] # None => k = "BackOffice" /\ child[a][k].status = InitialStatus
  <2>1. child \in [Asset -> FirstRows]
    BY DEF Init
  <2>2. "BackOffice" \in Kind
    BY DEF Kind
  <2>3. InitialStatus \in Status
    BY <2>2, ConfigAssumption
  <2> DEFINE row(u) == [status |-> InitialStatus, owner |-> u, user |-> u]
  <2>4. \A u \in User \cup {None} : row(u) \in ChildRow /\ row(u).status = InitialStatus
    BY <2>3 DEF ChildRow
  <2>5. ASSUME NEW f \in FirstRows
        PROVE  /\ f \in [Kind -> ChildRow \cup {None}]
               /\ \A k \in Kind : f[k] # None => k = "BackOffice" /\ f[k].status = InitialStatus
    <3>1. PICK u \in User \cup {None} :
            f = [k \in Kind |-> IF k = "BackOffice" THEN row(u) ELSE None]
      BY DEF FirstRows
    <3> HIDE DEF row
    <3> QED
      BY <2>4, <3>1
  <2> QED
    BY <2>1, <2>5
<1>4. TypeOK
  <2>1. hostname \in [Asset -> Hostname \cup {None}] /\ counter \in [Country -> Nat]
    BY DEF Init
  <2>2. licences \subseteq Asset \X Licence /\ history \subseteq Request \X Asset
    BY DEF Init
  <2>3. tx = [r \in Request |-> tx[r]]
    BY DEF Init
  <2>4. \A r \in Request : \E S \in SUBSET Asset : tx[r] \in RequestFor(S)
    BY <1>1, NewRequestIsNew
  <2> QED
    BY <1>3, <2>1, <2>2, <2>3, <2>4 DEF TypeOK
<1>5. RequestsAreOrderly /\ ReportsNameUsers /\ CountersAreRight /\ LicencesAreRight
  BY <1>1, <1>2 DEF RequestsAreOrderly, ReportsNameUsers, CountersAreRight, LicencesAreRight, Open
<1>6. HistoryIsOfRequestsDone
  BY <1>1, <1>2 DEF Init, HistoryIsOfRequestsDone
<1>8. StatusesAreRecorded
  BY <1>1, <1>2, <1>3 DEF StatusesAreRecorded, Recorded, Open
<1>7. HostsAreGivenOut
  <2>1. \A h \in RowHosts : h = None
    BY DEF Init, RowHosts
  <2> QED
    BY <1>1, <1>2, <2>1 DEF HostsAreGivenOut, GivenOut, Open
<1> QED
  BY <1>4, <1>5, <1>6, <1>7, <1>8 DEF IInv

LEMMA NextInv == IInv /\ [Next]_vars => IInv'
<1> SUFFICES ASSUME IInv, [Next]_vars
             PROVE  IInv'
  OBVIOUS
<1> USE DEF IInv
<1>1. TypeOK'
  BY EveryStep
<1>2. RequestsAreOrderly' /\ HistoryIsOfRequestsDone' /\ LicencesAreRight'
  BY OrderKept, HistoryKept, LicencesKept
<1>3. ReportsNameUsers'
  BY ReportsKept
<1>4. CountersAreRight' /\ HostsAreGivenOut'
  BY CountersKept, HostsKept
<1>5. StatusesAreRecorded'
  BY StatusesKept
<1> QED
  BY <1>1, <1>2, <1>3, <1>4, <1>5

\* The inductive invariant holds in every state.
THEOREM Invariance == Spec => []IInv
  BY InitInv, NextInv, PTL DEF Spec

\* Every row, counter and request is of its type: what an action writes is a whole row of the
\* class, with a status of the class.
THEOREM TypeCorrect == Spec => []TypeOK
<1>1. IInv => TypeOK
  BY DEF IInv
<1> QED
  BY <1>1, Invariance, PTL

\* No hostname in use is ahead of its counter, however many requests generate hostnames
\* for whatever countries side by side, and whichever of them are rolled back.
THEOREM HostnamesAreSpentAlways == Spec => []HostnamesAreSpent
<1>1. IInv => HostnamesAreSpent
  BY DEF IInv, HostsAreGivenOut, GivenOut, RowHosts, HostnamesAreSpent
<1> QED
  BY <1>1, Invariance, PTL

\* Every status an asset has got is one its history tells of, whatever transitions fail
\* after which of their actions, convert assets or save what they read long ago.
THEOREM StatusIsRecordedAlways == Spec => []StatusIsRecorded
<1>1. IInv => StatusIsRecorded
  <2> SUFFICES ASSUME IInv, NEW a \in Asset, NEW k \in Kind, child[a][k] # None
               PROVE  \/ k = "BackOffice" /\ child[a][k].status = InitialStatus
                      \/ \E r \in Request :
                           /\ <<r, a>> \in history /\ Processed(r)[a] # None
                           /\ Processed(r)[a].kind = k
                           /\ Processed(r)[a].inst.row.status = child[a][k].status
    BY DEF StatusIsRecorded
  <2>1. child[a][k].status \in Recorded[a][k]
    BY DEF IInv, StatusesAreRecorded
  <2>2. \/ k = "BackOffice" /\ child[a][k].status = InitialStatus
        \/ \E r \in WhoRecorded(a, k) : child[a][k].status = Processed(r)[a].inst.row.status
    BY <2>1 DEF Recorded
  <2> QED
    BY <2>2 DEF WhoRecorded
<1> QED
  BY <1>1, Invariance, PTL

\* A report names the user the assets are taken from or given to, whatever actions a transition
\* has, in whatever order the sort yields them.
THEOREM ReportsAreTrueAlways == Spec => []ReportsAreTrue
<1>1. IInv => ReportsAreTrue
  <2> SUFFICES ASSUME IInv, NEW r \in Request, tx[r].pc = "done",
                      "change_user_and_owner" \notin Actions[tx[r].trans],
                      NEW p \in tx[r].reports
               PROVE  /\ p.name = "return" /\ "unassign_user" \in Actions[tx[r].trans]
                           => p.user = tx[r].snap[First(r)].row.user
                      /\ p.name \in {"release", "loan"} /\ "assign_user" \in Actions[tx[r].trans]
                           => p.user = tx[r].mem[First(r)].row.user
    BY DEF ReportsAreTrue, First
  <2> QED
    BY DEF IInv, ReportsNameUsers, Wanted
<1> QED
  BY <1>1, Invariance, PTL

\* The licences others can read.
ShownLicences == (licences \ UNION {tx[r].touched : r \in {q \in Request : Open(q)}})
                   \cup UNION {tx[r].had : r \in {q \in Request : Open(q)}}
Seen(p) == \/ p \in licences /\ \A r \in Request : Open(r) => p \notin tx[r].touched
           \/ \E r \in Request : Open(r) /\ p \in tx[r].had

LEMMA SeenIsShown == \A p : p \in ShownLicences <=> Seen(p)
  BY DEF ShownLicences, Seen

\* They stay when a request acts, ...
LEMMA ActingHides ==
  ASSUME LicencesAreRight, NEW r \in Request, Acts(r), NEW p
  PROVE  Seen(p)' <=> Seen(p)
<1>1. Open(r) /\ Open(r)' /\ LicencesStep(r) /\ \A x \in Request \ {r} : tx'[x] = tx[x]
  BY DEF Acts, Step, Open
<1>2. PICK X :
        /\ ~ LicencesLocked(r, X) /\ tx'[r].touched = tx[r].touched \cup X
        /\ \/ /\ X \cap licences = {} /\ licences' = licences \cup X
              /\ tx'[r].had = tx[r].had
           \/ /\ X \subseteq licences /\ licences' = licences \ X
              /\ tx'[r].had = tx[r].had \cup (X \ tx[r].touched)
  BY <1>1 DEF LicencesStep
<1>3. \A x \in Request \ {r} : tx'[x] = tx[x] /\ (Open(x)' <=> Open(x))
  BY <1>1 DEF Open
<1> DEFINE Hidden == \E x \in Request \ {r} : Open(x) /\ p \in tx[x].touched
           Had == \E x \in Request \ {r} : Open(x) /\ p \in tx[x].had
<1>4. p \in X => ~ Hidden
  BY <1>2 DEF LicencesLocked
<1>5. Seen(p) <=> \/ p \in licences /\ p \notin tx[r].touched /\ ~ Hidden
                  \/ p \in tx[r].had \/ Had
  BY <1>1 DEF Seen
<1>6. Seen(p)' <=> \/ p \in licences' /\ p \notin tx'[r].touched /\ ~ Hidden
                   \/ p \in tx'[r].had \/ Had
  BY <1>1, <1>3 DEF Seen
<1> HIDE DEF Hidden, Had
<1> QED
  BY <1>2, <1>4, <1>5, <1>6

\* ... and when one is rolled back.
LEMMA RollbackRestores ==
  ASSUME LicencesAreRight, NEW r \in Request, GivesUp(r), NEW p
  PROVE  Seen(p)' <=> Seen(p)
<1>1. /\ Open(r) /\ ~ Open(r)' /\ \A x \in Request \ {r} : tx'[x] = tx[x]
      /\ licences' = (licences \ tx[r].touched) \cup tx[r].had
  BY DEF GivesUp, RolledBack, Ends, Open
<1>2. \A x \in Request \ {r} : Open(x)' <=> Open(x)
  BY <1>1 DEF Open
<1> DEFINE Hidden == \E x \in Request \ {r} : Open(x) /\ p \in tx[x].touched
           Had == \E x \in Request \ {r} : Open(x) /\ p \in tx[x].had
<1>3. p \in tx[r].touched => ~ Hidden
  BY <1>1 DEF LicencesAreRight
<1>4. p \in tx[r].had => p \in tx[r].touched
  BY DEF LicencesAreRight
<1>5. Seen(p) <=> \/ p \in licences /\ p \notin tx[r].touched /\ ~ Hidden
                  \/ p \in tx[r].had \/ Had
  BY <1>1 DEF Seen
<1>6. Seen(p)' <=> (p \in licences' /\ ~ Hidden) \/ Had
  BY <1>1, <1>2 DEF Seen
<1> HIDE DEF Hidden, Had
<1> QED
  BY <1>1, <1>3, <1>4, <1>5, <1>6

LEMMA DispatchHides ==
  ASSUME NEW r \in Request, Dispatched(r), NEW p
  PROVE  Seen(p)' <=> Seen(p)
<1>1. /\ ~ Open(r) /\ licences' = licences /\ \A x \in Request \ {r} : tx'[x] = tx[x]
      /\ tx'[r].touched = {} /\ tx'[r].had = {}
  BY DEF Dispatched, Open
<1> QED
  BY <1>1 DEF Seen, Open

\* What others can read changes only when a transition ends that performed all of its
\* actions or of which one raised, whatever the requests write and however they are
\* rolled back between each other's steps.
THEOREM OnlyCommitsShowAlways == Spec => OnlyCommitsShow
<1>1. IInv /\ [Next]_vars => (Shown' # Shown => \E r \in Request :
        Open(r) /\ ~ Stuck(r) /\ tx'[r].pc \in {"done", "failed"})
  <2> SUFFICES ASSUME IInv, [Next]_vars,
                      ~ \E r \in Request :
                          Open(r) /\ ~ Stuck(r) /\ tx'[r].pc \in {"done", "failed"}
               PROVE  Shown' = Shown
    OBVIOUS
  <2>1. /\ Shown = <<child, hostname, history, ShownLicences>>
        /\ Shown' = <<child', hostname', history', ShownLicences'>>
    BY DEF Shown, ShownLicences
  <2>2. ASSUME \A p : Seen(p)' <=> Seen(p), UNCHANGED <<child, hostname, history>>
        PROVE  Shown' = Shown
    <3>1. \A p : (p \in ShownLicences)' <=> Seen(p)'
      BY DEF ShownLicences, Seen
    <3>3. \A p : p \in ShownLicences' <=> p \in ShownLicences
      BY <2>2, <3>1, SeenIsShown
    <3>2. ShownLicences' = ShownLicences
      BY <3>3, Zenon
    <3> QED
      BY <2>1, <2>2, <3>2
  <2>3. CASE UNCHANGED vars
    BY <2>3 DEF vars, Shown, Open
  <2>4. ASSUME NEW r \in Request,
               Dispatched(r) \/ Acts(r) \/ Fails(r) \/ Finishes(r) \/ GivesUp(r)
        PROVE  Shown' = Shown
    <3>1. ~ Fails(r) /\ ~ Finishes(r)
      BY DEF Fails, Finishes, Commits, Ends, Stuck
    <3>2. UNCHANGED <<child, hostname, history>>
      BY <2>4, <3>1 DEF Dispatched, Acts, Step, GivesUp, RolledBack
    <3>3. \A p : Seen(p)' <=> Seen(p)
      BY <2>4, <3>1, ActingHides, RollbackRestores, DispatchHides DEF IInv
    <3> QED
      BY <2>2, <3>2, <3>3
  <2> QED
    BY <2>3, <2>4, EveryStep DEF IInv
<1> QED
  BY <1>1, Invariance, PTL DEF Spec, OnlyCommitsShow
===============================================================================
