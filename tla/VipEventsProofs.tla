---------------------------- MODULE VipEventsProofs ----------------------------
(***************************************************************************)
(* Proofs about VipEvents for any addresses, ports, clusters and events,   *)
(* and any number of deliveries and of requests of users.                  *)
(***************************************************************************)
EXTENDS VipEvents, TLAPS, FiniteSetTheorems

-----------------------------------------------------------------------------
(* The inductive invariant *)

\* A delivery under way knows its event, and addresses there have been.
TasksAreRight ==
  \A d \in Delivery :
    /\ task[d].pc \notin {"new", "done"} =>
         task[d].event \in Event /\ (task[d].id # None => task[d].id <= created)
    /\ task[d].pc \in {"update", "delete", "deleting"} =>
         task[d].id # None /\ task[d].read # None

Inserts(d) == task[d].pc = "create" /\ task[d].id = None

\* One that is about to make an address is the only one, and there is no such row.
InsertsAreAlone ==
  \A d \in Delivery : Inserts(d) =>
    /\ \A i \in Id : Exists(i) => ip[i].address # task[d].event.address
    /\ \A c \in Delivery : Inserts(c) /\ task[c].event.address = task[d].event.address => c = d

Deletes(d) == task[d].pc = "deleting"

\* Of two deletes side by side of VIPs of an address, one has found that there is
\* another.  One that has found other VIPs still does; if it has not, those there
\* are have come late.
DeletesAreRight ==
  \A d \in Delivery : Deletes(d) =>
    /\ \A c \in Delivery : Deletes(c) /\ task[c].id = task[d].id /\ c # d => task[d].id \in litter
    /\ task[d].id \notin litter /\ Exists(task[d].id) /\ ~ task[d].last =>
         Others(task[d].id, task[d].event.port) # {}
    /\ task[d].last => Others(task[d].id, task[d].event.port) \subseteq late

\* A form under way knows an asset, and the row of the address that was typed if it had one.
FormsAreRight ==
  \A u \in Form : form[u].pc = "save" =>
    /\ form[u].asset # None
    /\ form[u].id # None => /\ form[u].id <= created /\ form[u].row # None
                            /\ form[u].value # None /\ form[u].row.address = form[u].value

IInv ==
  /\ TypeOK
  /\ TasksAreRight
  /\ InsertsAreAlone
  /\ DeletesAreRight
  /\ FormsAreRight
  /\ NoLitter

-----------------------------------------------------------------------------
(* Types *)

\* None is neither an id nor one of the records.
LEMMA NoneIsElse ==
  /\ None \notin Id /\ None \notin Address /\ None \notin Row /\ None \notin Vip
  /\ None \notin Event /\ None \notin Cluster /\ None \notin Asset /\ None \notin Env
  BY EventAssumption DEF Id

LEMMA EventFields ==
  ASSUME NEW e \in Event
  PROVE  /\ e.kind \in Kind /\ e.address \in Address /\ e.port \in Port
         /\ e.cluster \in Cluster /\ e.env \in Env \cup {None}
  BY EventAssumption

LEMMA NewAndHandled ==
  /\ NewTask \in Task /\ Handled \in Task
  /\ NewTask.pc = "new" /\ Handled.pc = "done"
  /\ NewForm \in Request /\ Answered \in Request
  /\ NewForm.pc = "new" /\ Answered.pc = "done"
  BY DEF NewTask, Handled, Task, NewForm, Answered, Request

\* A row that exists is an address row.
LEMMA RowsAreRows ==
  ASSUME TypeOK, NEW i \in Id, Exists(i)
  PROVE  /\ ip[i] \in Row /\ i <= created /\ ip[i].address \in Address
         /\ ip[i].owner \in Cluster \cup Asset \cup {None}
         /\ ip[i].exposed \in BOOLEAN /\ ip[i].management \in BOOLEAN
<1>1. ip[i] \in Row
  BY DEF TypeOK, Exists
<1> QED
  BY <1>1 DEF TypeOK, Row

LEMMA VipsArePairs ==
  \A x \in Vips : x = <<x[1], x[2]>> /\ x[1] \in Id /\ x[2] \in Port /\ vip[x] # None
  BY DEF Vips

\* The row of an address is the one that has it.
LEMMA RowOfFinds ==
  ASSUME TypeOK, NEW a \in Address
  PROVE  /\ RowOf(a) = None => \A i \in Id : Exists(i) => ip[i].address # a
         /\ RowOf(a) # None => /\ RowOf(a) \in Id /\ Exists(RowOf(a))
                               /\ ip[RowOf(a)].address = a
<1> DEFINE ids == {i \in Id : Exists(i) /\ ip[i].address = a}
<1>1. CASE ids = {}
  BY <1>1 DEF RowOf
<1>2. CASE ids # {}
  <2>1. RowOf(a) \in ids
    BY <1>2 DEF RowOf
  <2> QED
    BY <2>1, NoneIsElse
<1> QED
  BY <1>1, <1>2

\* There are no VIPs at first, and the rows are numbered from 1.
LEMMA InitInv == Init => IInv
<1> SUFFICES ASSUME Init
             PROVE  IInv
  OBVIOUS
<1> DEFINE S == {i \in Id : FirstRows[i] # None}
<1>1. IsFiniteSet(Id) /\ Cardinality(Id) = MaxId /\ MaxId \in Nat
  BY EventAssumption, FS_Interval DEF Id
<1>2. IsFiniteSet(S) /\ Cardinality(S) \in Nat /\ Cardinality(S) <= MaxId
  <2>1. S \subseteq Id
    OBVIOUS
  <2> HIDE DEF S
  <2> QED
    BY <1>1, <2>1, FS_Subset, FS_CardinalityType
<1>3. ASSUME NEW i \in S
      PROVE  i <= Cardinality(S)
  <2>1. i \in Nat /\ i >= 1 /\ i \in Id
    BY DEF Id
  <2>2. 1..i \subseteq S
    BY <2>1, EventAssumption DEF Id
  <2> HIDE DEF S
  <2>3. Cardinality(1..i) = i
    BY <2>1, FS_Interval
  <2>4. Cardinality(1..i) <= Cardinality(S)
    BY <1>2, <2>2, FS_Subset
  <2> QED
    BY <2>3, <2>4
<1>4. \A i, k \in Id : i # k /\ FirstRows[i] # None /\ FirstRows[k] # None =>
        FirstRows[i].address # FirstRows[k].address
  <2>1. \A i, k \in Id : i < k /\ FirstRows[k] # None => FirstRows[i].address # FirstRows[k].address
    <3> SUFFICES ASSUME NEW i \in Id, NEW k \in Id, i < k, FirstRows[k] # None
                 PROVE  FirstRows[i].address # FirstRows[k].address
      OBVIOUS
    <3>1. i \in 1..(k - 1)
      BY EventAssumption DEF Id
    <3> QED
      BY <3>1, EventAssumption
  <2>2. \A i, k \in Id : i # k => i < k \/ k < i
    BY DEF Id
  <2> QED
    BY <2>1, <2>2
<1>5. Vips = {}
  BY DEF Init, Vips
<1>6. created = Cardinality(S) /\ ip = FirstRows
  BY DEF Init
<1>7. TypeOK
  <2>1. /\ ip \in [Id -> Row \cup {None}] /\ created \in 0..MaxId
        /\ \A i \in Id : Exists(i) => i <= created
    <3> HIDE DEF S
    <3>1. \A i \in Id : Exists(i) => i \in S
      BY <1>6 DEF S, Exists
    <3> QED
      BY <1>1, <1>2, <1>3, <1>6, <3>1, EventAssumption
  <2>2. \A i, k \in Id : i # k /\ Exists(i) /\ Exists(k) => ip[i].address # ip[k].address
    BY <1>4, <1>6 DEF Exists
  <2>3. clusters \in [Cluster -> Nat]
    BY DEF Init
  <2>4. /\ vip \in [Id \X Port -> Vip \cup {None}]
        /\ task \in [Delivery -> Task] /\ form \in [Form -> Request]
        /\ late \subseteq Id \X Port /\ litter \subseteq Id
    BY NewAndHandled DEF Init
  <2> QED
    BY <1>5, <2>1, <2>2, <2>3, <2>4 DEF TypeOK
<1>8. \A d \in Delivery : task[d].pc = "new"
  BY NewAndHandled DEF Init
<1>9. \A u \in Form : form[u].pc = "new"
  BY NewAndHandled DEF Init
<1>10. NoLitter
  BY DEF Init, NoLitter, Exists
<1> QED
  BY <1>7, <1>8, <1>9, <1>10 DEF IInv, TasksAreRight, InsertsAreAlone, DeletesAreRight,
                              FormsAreRight, Inserts, Deletes

-----------------------------------------------------------------------------
(* What a step leaves alone *)

\* No delivery begins an insert, and no address is new.
LEMMA InsertsStay ==
  ASSUME IInv,
         \A c \in Delivery : Inserts(c)' => task'[c] = task[c],
         \A i \in Id : Exists(i)' => Exists(i) /\ ip'[i].address = ip[i].address
  PROVE  InsertsAreAlone'
<1>1. \A c \in Delivery : Inserts(c)' => Inserts(c)
  BY DEF Inserts
<1> QED
  BY <1>1 DEF IInv, InsertsAreAlone

\* No delete begins; where one is under way only addresses with a reason lose VIPs, and
\* a VIP that is new is late.
LEMMA DeletesStay ==
  ASSUME IInv,
         \A c \in Delivery : Deletes(c)' => task'[c] = task[c],
         litter \subseteq litter',
         \A c \in Delivery : Deletes(c)' /\ task[c].id \notin litter' /\ Exists(task[c].id)' =>
           Exists(task[c].id) /\ \A x \in Vips : x[1] = task[c].id => x \in Vips',
         \A c \in Delivery : Deletes(c)' => \A x \in Vips' : x[1] = task[c].id =>
           x \in late' \/ (x \in Vips /\ x \notin late)
  PROVE  DeletesAreRight'
<1> SUFFICES ASSUME NEW d \in Delivery, Deletes(d)'
             PROVE  (/\ \A c \in Delivery : Deletes(c) /\ task[c].id = task[d].id /\ c # d =>
                          task[d].id \in litter
                     /\ task[d].id \notin litter /\ Exists(task[d].id) /\ ~ task[d].last =>
                          Others(task[d].id, task[d].event.port) # {}
                     /\ task[d].last => Others(task[d].id, task[d].event.port) \subseteq late)'
  BY DEF DeletesAreRight
<1> DEFINE k == task[d].id
           p == task[d].event.port
<1>1. task'[d] = task[d] /\ \A c \in Delivery : Deletes(c)' => Deletes(c) /\ task'[c] = task[c]
  BY DEF Deletes
<1>2. Deletes(d)
  BY <1>1
<1>3. /\ \A c \in Delivery : Deletes(c) /\ task[c].id = k /\ c # d => k \in litter
      /\ k \notin litter /\ Exists(k) /\ ~ task[d].last => Others(k, p) # {}
      /\ task[d].last => Others(k, p) \subseteq late
  BY <1>2 DEF IInv, DeletesAreRight
<1>4. \A c \in Delivery : Deletes(c)' /\ task'[c].id = k /\ c # d => k \in litter'
  BY <1>1, <1>3
<1>5. k \notin litter' /\ Exists(k)' /\ ~ task[d].last => Others(k, p)' # {}
  <2> SUFFICES ASSUME k \notin litter', ip'[k] # None, ~ task[d].last
               PROVE  \E x \in Vips' : x[1] = k /\ x[2] # p
    BY <1>1 DEF Exists, Others
  <2>1. Exists(k) /\ \A x \in Vips : x[1] = k => x \in Vips'
    BY DEF Exists
  <2>2. k \notin litter
    OBVIOUS
  <2> QED
    BY <1>3, <2>1, <2>2 DEF Others
<1>6. task[d].last => Others(k, p)' \subseteq late'
  <2> SUFFICES ASSUME task[d].last, NEW x \in Vips', x[1] = k, x[2] # p
               PROVE  x \in late'
    BY <1>1 DEF Others
  <2> QED
    BY <1>3 DEF Others
<1> QED
  BY <1>1, <1>4, <1>5, <1>6

\* The end of a delivery.
LEMMA Ends ==
  ASSUME IInv, NEW d \in Delivery, task' = [task EXCEPT ![d] = Handled],
         created' \in Nat, created <= created'
  PROVE  /\ task' \in [Delivery -> Task] /\ TasksAreRight'
         /\ task'[d].pc = "done"
         /\ \A c \in Delivery : c # d => task'[c] = task[c]
         /\ \A c \in Delivery : Inserts(c)' \/ Deletes(c)' => c # d /\ task'[c] = task[c]
<1>1. /\ task' \in [Delivery -> Task] /\ task'[d].pc = "done"
      /\ \A c \in Delivery : c # d => task'[c] = task[c]
  BY NewAndHandled DEF IInv, TypeOK
<1>2. TasksAreRight'
  <2> SUFFICES ASSUME NEW c \in Delivery
               PROVE  /\ task'[c].pc \notin {"new", "done"} =>
                           /\ task'[c].event \in Event
                           /\ task'[c].id # None => task'[c].id <= created'
                      /\ task'[c].pc \in {"update", "delete", "deleting"} =>
                           task'[c].id # None /\ task'[c].read # None
    BY DEF TasksAreRight
  <2>1. CASE c = d
    BY <1>1, <2>1
  <2>2. CASE c # d
    <3>1. task'[c] = task[c] /\ task[c] \in Task /\ created \in Nat
      BY <1>1, <2>2 DEF IInv, TypeOK
    <3>2. task[c].id \in Id \cup {None}
      BY <3>1 DEF Task
    <3> QED
      BY <3>1, <3>2 DEF IInv, TasksAreRight, Id
  <2> QED
    BY <2>1, <2>2
<1>3. \A c \in Delivery : Inserts(c)' \/ Deletes(c)' => c # d
  BY <1>1 DEF Inserts, Deletes
<1> QED
  BY <1>1, <1>2, <1>3

\* The types of the parts of a delivery that is under way.
LEMMA TaskFields ==
  ASSUME IInv, NEW d \in Delivery
  PROVE  /\ task[d] \in Task /\ task[d].id \in Id \cup {None} /\ task[d].read \in Vip \cup {None}
         /\ task[d].event \in Event \cup {None}
         /\ task[d].pc \notin {"new", "done"} =>
              task[d].event \in Event /\ (task[d].id # None => task[d].id <= created)
         /\ task[d].pc \in {"update", "delete", "deleting"} =>
              task[d].id \in Id /\ task[d].read \in Vip
<1>1. task[d] \in Task
  BY DEF IInv, TypeOK
<1> QED
  BY <1>1 DEF IInv, TasksAreRight, Task

\* A step of the deliveries that leaves the tables alone.
LEMMA TablesStay ==
  ASSUME IInv, UNCHANGED <<ip, created, vip, form, late, litter>>,
         TasksAreRight', task' \in [Delivery -> Task], clusters' \in [Cluster -> Nat],
         InsertsAreAlone', DeletesAreRight'
  PROVE  IInv'
<1>1. TypeOK'
  BY DEF IInv, TypeOK, Exists, Vips
<1>2. FormsAreRight'
  BY DEF IInv, FormsAreRight
<1>3. NoLitter'
  BY DEF IInv, NoLitter, Exists, Vips
<1> QED
  BY <1>1, <1>2, <1>3 DEF IInv

\* So is the end of one.
LEMMA EndsAlone ==
  ASSUME IInv, NEW d \in Delivery, task' = [task EXCEPT ![d] = Handled],
         UNCHANGED <<ip, created, vip, form, late, litter>>, clusters' \in [Cluster -> Nat]
  PROVE  IInv'
<1>1. created' \in Nat /\ created <= created'
  BY DEF IInv, TypeOK
<1>2. /\ task' \in [Delivery -> Task] /\ TasksAreRight'
      /\ \A c \in Delivery : Inserts(c)' \/ Deletes(c)' => c # d /\ task'[c] = task[c]
  BY <1>1, Ends
<1>3. InsertsAreAlone'
  BY <1>2, InsertsStay DEF Exists
<1>4. DeletesAreRight'
  BY <1>2, DeletesStay DEF Exists, Vips
<1> QED
  BY <1>2, <1>3, <1>4, TablesStay

-----------------------------------------------------------------------------
(* Deliveries *)

LEMMA CommitClusterTypes ==
  ASSUME IInv, NEW d \in Delivery, task[d].event \in Event, CommitCluster(d)
  PROVE  clusters' \in [Cluster -> Nat]
  BY EventFields DEF CommitCluster, IInv, TypeOK

\* What is read of the row and the VIP an event is about.
LEMMA ContinueTypes ==
  ASSUME IInv, NEW d \in Delivery, NEW e \in Event,
         NEW i \in Id \cup {None}, i = RowOf(e.address),
         NEW pc \in {"create", "update", "delete"},
         pc # "create" => get_vip(i, e.port) # None,
         Continue(d, pc, e, i),
         UNCHANGED <<ip, created, vip, clusters, form, late, litter>>
  PROVE  /\ task' \in [Delivery -> Task] /\ TasksAreRight'
         /\ task'[d].pc = pc /\ task'[d].event = e /\ task'[d].id = i
         /\ \A c \in Delivery : c # d => task'[c] = task[c]
<1> DEFINE t == [NewTask EXCEPT !.pc = pc, !.event = e, !.id = i,
                   !.read = get_vip(i, e.port), !.exposed = Exposed(i),
                   !.newCluster = clusters[e.cluster] = 0, !.moves = Moves(e, i)]
<1>1. task' = [task EXCEPT ![d] = t]
  BY DEF Continue
<1>2. e.address \in Address /\ e.port \in Port
  BY EventFields
<1>3. get_vip(i, e.port) \in Vip \cup {None} /\ (get_vip(i, e.port) # None => i # None)
  <2>1. CASE i = None
    BY <2>1 DEF get_vip
  <2>2. CASE i # None
    BY <1>2, <2>2 DEF get_vip, IInv, TypeOK
  <2> QED
    BY <2>1, <2>2
<1>4. Exposed(i) \in BOOLEAN /\ (i # None => i <= created)
  <2>1. CASE i = None
    BY <2>1 DEF Exposed
  <2>2. CASE i # None
    <3>1. i \in Id /\ Exists(i)
      BY <1>2, <2>2, RowOfFinds DEF IInv
    <3> QED
      BY <3>1, RowsAreRows DEF Exposed, IInv
  <2> QED
    BY <2>1, <2>2
<1>5. (clusters[e.cluster] = 0) \in BOOLEAN /\ Moves(e, i) \in BOOLEAN
  BY DEF Moves
<1>6. t \in Task /\ t.pc = pc /\ t.event = e /\ t.id = i /\ t.read = get_vip(i, e.port)
  BY <1>3, <1>4, <1>5 DEF NewTask, Task
<1> HIDE DEF t
<1>7. /\ task' \in [Delivery -> Task] /\ task'[d] = t
      /\ \A c \in Delivery : c # d => task'[c] = task[c]
  BY <1>1, <1>6 DEF IInv, TypeOK
<1>8. TasksAreRight'
  BY <1>3, <1>4, <1>6, <1>7 DEF IInv, TasksAreRight
<1> QED
  BY <1>6, <1>7, <1>8

\* A delivery of any kind is taken up, or ends at once.
LEMMA ReceiveKeeps ==
  ASSUME IInv, NEW d \in Delivery, NEW e \in Event, NEW pc \in {"create", "update", "delete"},
         NEW i, i = RowOf(e.address), task[d].pc = "new",
         pc # "create" => get_vip(i, e.port) # None,
         pc = "create" => ~ Inserting(e.address),
         Continue(d, pc, e, i),
         UNCHANGED <<ip, created, vip, clusters, form, late, litter>>
  PROVE  IInv'
<1>1. e.address \in Address
  BY EventFields
<1>2. i \in Id \cup {None} /\ (i = None => \A k \in Id : Exists(k) => ip[k].address # e.address)
  BY <1>1, RowOfFinds DEF IInv
<1>3. /\ task' \in [Delivery -> Task] /\ TasksAreRight'
      /\ task'[d].pc = pc /\ task'[d].event = e /\ task'[d].id = i
      /\ \A c \in Delivery : c # d => task'[c] = task[c]
  BY <1>2, ContinueTypes
<1>4. InsertsAreAlone'
  <2>1. CASE pc = "create" /\ i = None
    <3>1. \A c \in Delivery : Inserts(c) => task[c].event.address # e.address
      BY <2>1 DEF Inserting, Inserts
    <3>2. \A c \in Delivery : Inserts(c)' => c = d \/ (Inserts(c) /\ task'[c] = task[c])
      BY <1>3 DEF Inserts
    <3> QED
      BY <1>2, <1>3, <2>1, <3>1, <3>2 DEF IInv, InsertsAreAlone, Exists
  <2>2. CASE ~ (pc = "create" /\ i = None)
    <3>1. \A c \in Delivery : Inserts(c)' => task'[c] = task[c]
      BY <1>3, <2>2 DEF Inserts
    <3> QED
      BY <3>1, InsertsStay DEF Exists
  <2> QED
    BY <2>1, <2>2
<1>5. DeletesAreRight'
  <2>1. \A c \in Delivery : Deletes(c)' => task'[c] = task[c]
    BY <1>3 DEF Deletes
  <2> QED
    BY <2>1, DeletesStay DEF Exists, Vips
<1>6. clusters' \in [Cluster -> Nat]
  BY DEF IInv, TypeOK
<1> QED
  BY <1>3, <1>4, <1>5, <1>6, TablesStay

LEMMA ReceivesKeep ==
  ASSUME IInv, NEW d \in Delivery, NEW e \in Event,
         ReceiveCreate(d, e) \/ ReceiveUpdate(d, e) \/ ReceiveDelete(d, e)
  PROVE  IInv'
<1> DEFINE i == RowOf(e.address)
<1>1. task[d].pc = "new" /\ UNCHANGED <<ip, created, vip, clusters, form, late, litter>>
  BY DEF ReceiveCreate, ReceiveUpdate, ReceiveDelete, Receive
<1>2. CASE task' = [task EXCEPT ![d] = Handled]
  <2>1. clusters' \in [Cluster -> Nat]
    BY <1>1 DEF IInv, TypeOK
  <2> QED
    BY <1>1, <1>2, <2>1, EndsAlone
<1>3. CASE ~ Inserting(e.address) /\ Continue(d, "create", e, i)
  BY <1>1, <1>3, ReceiveKeeps
<1>4. CASE get_vip(i, e.port) # None /\ (Continue(d, "update", e, i) \/ Continue(d, "delete", e, i))
  BY <1>1, <1>4, ReceiveKeeps
<1> QED
  BY <1>2, <1>3, <1>4 DEF ReceiveCreate, ReceiveUpdate, ReceiveDelete, BeginCreate

LEMMA RollBackKeeps ==
  ASSUME IInv, NEW d \in Delivery, RollBack(d)
  PROVE  IInv'
<1>1. clusters' \in [Cluster -> Nat]
  BY DEF RollBack, IInv, TypeOK
<1> QED
  BY <1>1, EndsAlone DEF RollBack

LEMMA RefuseCreateKeeps ==
  ASSUME IInv, NEW d \in Delivery, RefuseCreate(d)
  PROVE  IInv'
<1>1. task[d].event \in Event
  BY TaskFields DEF RefuseCreate
<1>2. clusters' \in [Cluster -> Nat]
  BY <1>1, CommitClusterTypes DEF RefuseCreate
<1> QED
  BY <1>2, EndsAlone DEF RefuseCreate

\* Forms under way stay as they are.
LEMMA FormsStay ==
  ASSUME IInv, form' = form, created' \in Nat, created <= created'
  PROVE  FormsAreRight'
<1>1. form \in [Form -> Request] /\ created \in Nat
  BY DEF IInv, TypeOK
<1>2. \A u \in Form : form[u].id \in Id \cup {None}
  BY <1>1 DEF Request
<1> QED
  BY <1>1, <1>2 DEF IInv, FormsAreRight, Id

\* A new row, a new VIP, or both.
LEMMA CommitCreateKeeps ==
  ASSUME IInv, NEW d \in Delivery, CommitCreate(d)
  PROVE  IInv'
<1> DEFINE e == task[d].event
           new == task[d].id = None
           i == IF new THEN created + 1 ELSE task[d].id
           x == <<i, e.port>>
           row == [address |-> e.address, exposed |-> FALSE, management |-> FALSE,
                   owner |-> IF e.kind = "create" THEN e.cluster ELSE None]
           rec == [parent |-> e.cluster, env |-> e.env, made |-> d]
<1>1. /\ task[d].pc = "create" /\ i \in Id
      /\ IF new THEN created' = i /\ ip' = [ip EXCEPT ![i] = row] ELSE UNCHANGED <<created, ip>>
      /\ IF e.env = None
         THEN /\ litter' = IF new THEN litter \cup {i} ELSE litter
              /\ UNCHANGED <<vip, late>>
         ELSE /\ ip'[i] # None /\ vip[x] = None
              /\ vip' = [vip EXCEPT ![x] = rec]
              /\ SeenLate(i, e.port) /\ UNCHANGED litter
      /\ CommitCluster(d) /\ task' = [task EXCEPT ![d] = Handled] /\ form' = form
  BY DEF CommitCreate
<1>2. e \in Event /\ e.address \in Address /\ e.port \in Port /\ e.cluster \in Cluster
      /\ e.env \in Env \cup {None}
  BY <1>1, TaskFields, EventFields
<1>3. row \in Row /\ row.address = e.address /\ row # None
  <2>1. row.owner \in Cluster \cup Asset \cup {None}
    BY <1>2
  <2>2. row \in Row
    <3> DEFINE o == row.owner
    <3>1. row = [address |-> e.address, exposed |-> FALSE, management |-> FALSE, owner |-> o]
      OBVIOUS
    <3> HIDE DEF o, row
    <3>2. o \in Cluster \cup Asset \cup {None}
      BY <2>1 DEF o
    <3> QED
      BY <1>2, <3>1, <3>2 DEF Row
  <2> QED
    BY <2>2, NoneIsElse
<1>4. e.env # None => rec \in Vip /\ rec # None
  BY <1>2, NoneIsElse DEF Vip
<1>5. /\ ip \in [Id -> Row \cup {None}] /\ vip \in [Id \X Port -> Vip \cup {None}]
      /\ created \in 0..MaxId /\ MaxId \in Nat
  BY EventAssumption DEF IInv, TypeOK
<1>6. created' \in 0..MaxId /\ created <= created' /\ i <= created'
  <2>1. CASE new
    BY <1>1, <1>5, <2>1 DEF Id
  <2>2. CASE ~ new
    BY <1>1, <1>5, <2>2, TaskFields
  <2> QED
    BY <2>1, <2>2
<1>7. new => ~ Exists(i)
  <2>1. \A k \in Id : Exists(k) => k <= created
    BY RowsAreRows DEF IInv
  <2>2. new => i \in Id /\ ~ (i <= created)
    BY <1>1, <1>5
  <2> HIDE DEF i, new
  <2> QED
    BY <2>1, <2>2
<1>8. /\ new => ip'[i] = row
      /\ ~ new => ip'[i] = ip[i]
      /\ \A k \in Id : k # i => ip'[k] = ip[k]
      /\ ip' \in [Id -> Row \cup {None}]
  BY <1>1, <1>3, <1>5
<1>9. /\ vip' \in [Id \X Port -> Vip \cup {None}]
      /\ x \in Id \X Port
      /\ \A y \in Id \X Port : y # x => vip'[y] = vip[y]
      /\ e.env # None => vip'[x] = rec
      /\ e.env = None => vip' = vip
  BY <1>1, <1>2, <1>4, <1>5
<1>10. Vips \subseteq Vips' /\ Vips' \subseteq Vips \cup {x}
  BY <1>1, <1>4, <1>9 DEF Vips
<1>11. e.env # None => x \in Vips'
  BY <1>4, <1>9 DEF Vips
<1>12. created' \in Nat
  BY <1>5, <1>6
<1>13. /\ task' \in [Delivery -> Task] /\ TasksAreRight'
       /\ \A c \in Delivery : Inserts(c)' \/ Deletes(c)' => c # d /\ task'[c] = task[c]
  BY <1>1, <1>6, <1>12, Ends
<1>14. new => \A k \in Id : Exists(k) => ip[k].address # e.address
  BY <1>1 DEF IInv, InsertsAreAlone, Inserts
<1> HIDE DEF i, x, row, rec, e
<1>15. TypeOK'
  <2>1. \A k \in Id : Exists(k)' => k <= created'
    BY <1>5, <1>6, <1>8 DEF Exists, IInv, TypeOK, Id
  <2>2. \A j, k \in Id : j # k /\ Exists(j)' /\ Exists(k)' => ip'[j].address # ip'[k].address
    BY <1>1, <1>3, <1>8, <1>14 DEF Exists, IInv, TypeOK
  <2>3. \A y \in Vips' : Exists(y[1])'
    <3>1. CASE e.env = None
      <4>1. Vips' = Vips
        BY <1>9, <3>1 DEF Vips
      <4>2. \A y \in Vips : y[1] \in Id
        BY VipsArePairs
      <4> QED
        BY <1>3, <1>8, <4>1, <4>2 DEF Exists, IInv, TypeOK
    <3>2. CASE e.env # None
      <4>1. ip'[i] # None /\ x[1] = i
        BY <1>1, <3>2 DEF x
      <4>2. \A y \in Vips : y[1] \in Id
        BY VipsArePairs
      <4> QED
        BY <1>8, <1>10, <4>1, <4>2 DEF Exists, IInv, TypeOK
    <3> QED
      BY <3>1, <3>2
  <2>4. clusters' \in [Cluster -> Nat]
    BY <1>1, <1>2, CommitClusterTypes DEF e
  <2>5. late' \subseteq Id \X Port /\ litter' \subseteq Id
    BY <1>1, <1>2 DEF SeenLate, IInv, TypeOK
  <2> QED
    BY <1>1, <1>6, <1>8, <1>9, <1>13, <2>1, <2>2, <2>3, <2>4, <2>5 DEF IInv, TypeOK
<1>16. InsertsAreAlone'
  <2> SUFFICES ASSUME NEW c \in Delivery, Inserts(c)'
               PROVE  /\ \A k \in Id : Exists(k)' => ip'[k].address # task'[c].event.address
                      /\ \A b \in Delivery :
                           Inserts(b)' /\ task'[b].event.address = task'[c].event.address => b = c
    BY DEF InsertsAreAlone
  <2>1. c # d /\ task'[c] = task[c] /\ Inserts(c)
    BY <1>13 DEF Inserts
  <2>2. \A b \in Delivery : Inserts(b)' => Inserts(b) /\ task'[b] = task[b]
    BY <1>13 DEF Inserts
  <2>3. new => task[c].event.address # e.address
    BY <1>1, <2>1 DEF IInv, InsertsAreAlone, Inserts, e
  <2> QED
    BY <1>3, <1>8, <2>1, <2>2, <2>3 DEF IInv, InsertsAreAlone, Exists
<1>17. litter \subseteq litter'
  BY <1>1
<1>18. \A c \in Delivery : Deletes(c)' => Deletes(c) /\ task[c].id \in Id /\ task[c].id <= created
  BY <1>13, TaskFields, NoneIsElse DEF Deletes
<1>19. DeletesAreRight'
  <2>1. ASSUME NEW c \in Delivery, Deletes(c)', Exists(task[c].id)'
        PROVE  Exists(task[c].id)
    <3>1. new => task[c].id # i
      BY <1>5, <1>18, <2>1 DEF i
    <3>2. task'[c] = task[c] /\ task[c].id \in Id
      BY <1>13, <1>18, <2>1
    <3> QED
      BY <1>8, <2>1, <3>1, <3>2 DEF Exists
  <2>2. ASSUME NEW c \in Delivery, Deletes(c)', NEW y \in Vips', y[1] = task[c].id
        PROVE  y \in late' \/ (y \in Vips /\ y \notin late)
    <3>1. CASE e.env = None
      BY <1>1, <1>9, <3>1 DEF Vips
    <3>2. CASE e.env # None /\ y[1] = i
      <4>1. Deleting(i)
        BY <1>18, <2>2, <3>2 DEF Deleting, Deletes
      <4>2. late' = late \cup {x}
        BY <1>1, <3>2, <4>1 DEF SeenLate, x
      <4> QED
        BY <1>10, <4>2
    <3>3. CASE e.env # None /\ y[1] # i
      <4>1. y # x
        BY <3>3 DEF x
      <4>2. y \in late => y \in late'
        BY <1>1, <3>3, <4>1 DEF SeenLate, x
      <4> QED
        BY <1>10, <4>1, <4>2
    <3> QED
      BY <3>1, <3>2, <3>3
  <2> QED
    BY <1>10, <1>13, <1>17, <2>1, <2>2, DeletesStay
<1>20. FormsAreRight'
  BY <1>1, <1>6, <1>12, FormsStay
<1>21. NoLitter'
  <2> SUFFICES ASSUME NEW k \in Id, k \notin litter', ip'[k] # None
               PROVE  \E y \in Vips' : y[1] = k
    BY DEF NoLitter, Exists
  <2>1. CASE k = i /\ new
    <3>1. e.env # None
      BY <1>1, <2>1
    <3> QED
      BY <1>11, <2>1, <3>1 DEF x
  <2>2. CASE ~ (k = i /\ new)
    <3>1. Exists(k) /\ k \notin litter
      BY <1>8, <1>17, <2>2 DEF Exists
    <3> QED
      BY <1>10, <3>1 DEF IInv, NoLitter
  <2> QED
    BY <2>1, <2>2
<1> QED
  BY <1>13, <1>15, <1>16, <1>19, <1>20, <1>21 DEF IInv

\* Rows keep their addresses, and no VIP goes.
LEMMA CommitUpdateKeeps ==
  ASSUME IInv, NEW d \in Delivery, CommitUpdate(d)
  PROVE  IInv'
<1> DEFINE e == task[d].event
           i == task[d].id
           x == <<i, e.port>>
           moved == {y \in Vips : task[d].moves /\ y[1] = i /\ Migrates(i)}
           saves == e.env \notin {None, task[d].read.env}
<1>1. /\ task[d].pc = "update" /\ ~ Deleting(i)
      /\ saves => Exists(i)
      /\ ip' = IF moved = {} THEN ip ELSE [ip EXCEPT ![i].owner = e.cluster]
      /\ vip' = [y \in Id \X Port |->
                   IF saves /\ y = x THEN SavedVip(d)
                   ELSE IF y \in moved THEN [vip[y] EXCEPT !.parent = e.cluster] ELSE vip[y]]
      /\ CommitCluster(d) /\ task' = [task EXCEPT ![d] = Handled]
      /\ UNCHANGED <<created, form, late, litter>>
  BY DEF CommitUpdate
<1>2. /\ e \in Event /\ e.port \in Port /\ e.cluster \in Cluster /\ e.env \in Env \cup {None}
      /\ i \in Id /\ task[d].read \in Vip
  BY <1>1, TaskFields, EventFields
<1>3. saves => SavedVip(d) \in Vip
  BY <1>2 DEF SavedVip, Vip
<1>4. \A y \in moved : vip[y] \in Vip /\ [vip[y] EXCEPT !.parent = e.cluster] \in Vip
  <2> SUFFICES ASSUME NEW y \in moved
               PROVE  vip[y] \in Vip /\ [vip[y] EXCEPT !.parent = e.cluster] \in Vip
    OBVIOUS
  <2>1. vip[y] \in Vip
    BY DEF Vips, IInv, TypeOK
  <2> QED
    BY <1>2, <2>1 DEF Vip
<1> DEFINE owned == [ip EXCEPT ![i].owner = e.cluster]
<1>5. moved # {} => /\ Exists(i) /\ ip[i] \in Row /\ owned[i] \in Row
                    /\ owned \in [Id -> Row \cup {None}]
                    /\ owned[i].address = ip[i].address
                    /\ \A k \in Id : k # i => owned[k] = ip[k]
  <2>1. moved # {} => Exists(i)
    BY DEF Migrates
  <2>2. ip \in [Id -> Row \cup {None}] /\ (Exists(i) => ip[i] \in Row)
    BY <1>2, RowsAreRows DEF IInv, TypeOK
  <2>3. Exists(i) => [ip[i] EXCEPT !.owner = e.cluster] \in Row
    BY <1>2, <2>2 DEF Row
  <2>4. Exists(i) => [ip[i] EXCEPT !.owner = e.cluster].address = ip[i].address
    BY <2>2 DEF Row
  <2>5. owned[i] = [ip[i] EXCEPT !.owner = e.cluster] /\ \A k \in Id : k # i => owned[k] = ip[k]
    BY <1>2, <2>2
  <2>6. Exists(i) => owned \in [Id -> Row \cup {None}]
    BY <1>2, <2>2, <2>3
  <2> HIDE DEF owned, moved
  <2> QED
    BY <2>1, <2>2, <2>3, <2>4, <2>5, <2>6
<1> HIDE DEF owned
<1>6. /\ ip' \in [Id -> Row \cup {None}]
      /\ \A k \in Id : Exists(k)' <=> Exists(k)
      /\ \A k \in Id : Exists(k) => ip'[k].address = ip[k].address
  <2>1. CASE moved = {}
    BY <1>1, <2>1 DEF Exists, IInv, TypeOK
  <2>2. CASE moved # {}
    <3>1. ip' = owned
      BY <1>1, <2>2 DEF owned
    <3> HIDE DEF moved
    <3> QED
      BY <1>2, <1>5, <2>2, <3>1, NoneIsElse DEF Exists
  <2> QED
    BY <2>1, <2>2
<1>7. /\ vip' \in [Id \X Port -> Vip \cup {None}]
      /\ Vips \subseteq Vips' /\ \A y \in Vips' : y \in Vips \/ (saves /\ y = x)
  <2> HIDE DEF saves, moved
  <2>1. vip \in [Id \X Port -> Vip \cup {None}]
    BY DEF IInv, TypeOK
  <2>2. vip' \in [Id \X Port -> Vip \cup {None}]
    BY <1>1, <1>3, <1>4, <2>1
  <2>3. \A y \in Id \X Port : vip[y] # None => vip'[y] # None
    BY <1>1, <1>3, <1>4, NoneIsElse
  <2>4. \A y \in Id \X Port : vip'[y] # None => vip[y] # None \/ (saves /\ y = x)
    BY <1>1, <1>4, NoneIsElse
  <2> QED
    BY <2>2, <2>3, <2>4 DEF Vips
<1> HIDE DEF moved, saves
<1>8. created' \in Nat /\ created <= created'
  BY <1>1 DEF IInv, TypeOK
<1>9. /\ task' \in [Delivery -> Task] /\ TasksAreRight'
      /\ \A c \in Delivery : Inserts(c)' \/ Deletes(c)' => c # d /\ task'[c] = task[c]
  BY <1>1, <1>8, Ends
<1>10. TypeOK'
  <2>1. \A y \in Vips' : Exists(y[1])'
    <3> SUFFICES ASSUME NEW y \in Vips'
                 PROVE  Exists(y[1])'
      OBVIOUS
    <3>1. CASE y \in Vips
      <4>1. y[1] \in Id /\ Exists(y[1])
        BY <3>1, VipsArePairs DEF IInv, TypeOK
      <4> QED
        BY <1>6, <4>1 DEF Exists
    <3>2. CASE saves /\ y = x
      <4>1. y[1] = i /\ Exists(i)
        BY <1>1, <3>2
      <4> QED
        BY <1>2, <1>6, <4>1 DEF Exists
    <3> QED
      BY <1>7, <3>1, <3>2
  <2>2. clusters' \in [Cluster -> Nat]
    BY <1>1, <1>2, CommitClusterTypes
  <2>3. \A j, k \in Id : j # k /\ Exists(j)' /\ Exists(k)' => ip'[j].address # ip'[k].address
    BY <1>6 DEF IInv, TypeOK
  <2>4. \A k \in Id : Exists(k)' => k <= created'
    BY <1>1, <1>6 DEF IInv, TypeOK
  <2> QED
    BY <1>1, <1>6, <1>7, <1>9, <2>1, <2>2, <2>3, <2>4 DEF IInv, TypeOK
<1>11. InsertsAreAlone'
  BY <1>6, <1>9, InsertsStay
<1>12. DeletesAreRight'
  <2>1. \A c \in Delivery : Deletes(c)' => Deletes(c) /\ task[c].id \in Id /\ task[c].id # i
    <3> SUFFICES ASSUME NEW c \in Delivery, Deletes(c)'
                 PROVE  Deletes(c) /\ task[c].id \in Id /\ task[c].id # i
      OBVIOUS
    <3>1. Deletes(c)
      BY <1>9 DEF Deletes
    <3> QED
      BY <1>1, <3>1, TaskFields DEF Deletes, Deleting
  <2>2. \A c \in Delivery : Deletes(c)' => task'[c] = task[c]
    BY <1>9
  <2>3. \A c \in Delivery : Deletes(c)' /\ Exists(task[c].id)' => Exists(task[c].id)
    BY <1>6, <2>1, <2>2 DEF Exists
  <2>4. \A y \in Vips' : y[1] # i => y \in Vips
    BY <1>7
  <2> QED
    BY <1>1, <1>7, <2>1, <2>2, <2>3, <2>4, DeletesStay
<1>13. FormsAreRight'
  BY <1>1, <1>8, FormsStay
<1>14. NoLitter'
  <2> SUFFICES ASSUME NEW k \in Id, k \notin litter', Exists(k)'
               PROVE  \E y \in Vips' : y[1] = k
    BY DEF NoLitter
  <2> QED
    BY <1>1, <1>6, <1>7 DEF IInv, NoLitter
<1> QED
  BY <1>9, <1>10, <1>11, <1>12, <1>13, <1>14 DEF IInv

\* A delete has seen whether there are other VIPs.
LEMMA DeleteVipKeeps ==
  ASSUME IInv, NEW d \in Delivery, DeleteVip(d)
  PROVE  IInv'
<1> DEFINE i == task[d].id
           p == task[d].event.port
           t == [task[d] EXCEPT !.pc = "deleting", !.last = ~ Used(i, p)]
<1>1. /\ task[d].pc = "delete"
      /\ task' = [task EXCEPT ![d].pc = "deleting", ![d].last = ~ Used(i, p)]
      /\ litter' = IF Deleting(i) THEN litter \cup {i} ELSE litter
      /\ UNCHANGED <<ip, created, vip, clusters, form, late>>
  BY DEF DeleteVip
<1>2. task[d] \in Task /\ i \in Id /\ task[d].read \in Vip
  BY <1>1, TaskFields
<1>3. /\ t \in Task /\ t.pc = "deleting" /\ t.event = task[d].event /\ t.id = i
      /\ t.read = task[d].read /\ (t.last <=> ~ Used(i, p))
  BY <1>2 DEF Task
<1>4. task' \in [Delivery -> Task] /\ task'[d] = t /\ \A c \in Delivery : c # d => task'[c] = task[c]
  <2>1. task \in [Delivery -> Task]
    BY DEF IInv, TypeOK
  <2>2. task' = [task EXCEPT ![d] = t]
    BY <1>1, <2>1
  <2> HIDE DEF t
  <2> QED
    BY <1>3, <2>1, <2>2
<1> HIDE DEF t
<1>5. TypeOK'
  BY <1>1, <1>2, <1>4 DEF IInv, TypeOK, Exists, Vips
<1>6. TasksAreRight'
  BY <1>1, <1>2, <1>3, <1>4, NoneIsElse DEF IInv, TasksAreRight
<1>7. InsertsAreAlone'
  <2>1. \A c \in Delivery : Inserts(c)' => task'[c] = task[c]
    BY <1>3, <1>4 DEF Inserts
  <2> QED
    BY <1>1, <2>1, InsertsStay DEF Exists
<1>8. DeletesAreRight'
  <2>1. \A k, q : Others(k, q)' = Others(k, q)
    BY <1>1 DEF Others, Vips
  <2>2. ~ Deletes(d)
    BY <1>1 DEF Deletes
  <2>3. \A c \in Delivery : Deletes(c)' => c = d \/ (Deletes(c) /\ task'[c] = task[c])
    BY <1>4 DEF Deletes
  <2>4. ASSUME NEW c \in Delivery, Deletes(c)'
        PROVE  (/\ \A b \in Delivery : Deletes(b) /\ task[b].id = task[c].id /\ b # c =>
                     task[c].id \in litter
                /\ task[c].id \notin litter /\ Exists(task[c].id) /\ ~ task[c].last =>
                     Others(task[c].id, task[c].event.port) # {}
                /\ task[c].last => Others(task[c].id, task[c].event.port) \subseteq late)'
    <3>1. CASE c = d
      <4>1. task'[c].id = i /\ task'[c].event.port = p /\ (task'[c].last <=> Others(i, p) = {})
        BY <1>3, <1>4, <3>1 DEF Used
      <4>2. \A b \in Delivery : Deletes(b)' /\ task'[b].id = i /\ b # c => i \in litter'
        BY <1>1, <2>3, <3>1 DEF Deletes, Deleting
      <4> QED
        BY <2>1, <4>1, <4>2
    <3>2. CASE c # d
      <4>1. Deletes(c) /\ task'[c] = task[c]
        BY <2>3, <2>4, <3>2
      <4>2. \A b \in Delivery : Deletes(b)' /\ task'[b].id = task[c].id /\ b # c =>
              task[c].id \in litter'
        <5> SUFFICES ASSUME NEW b \in Delivery, Deletes(b)', task'[b].id = task[c].id, b # c
                     PROVE  task[c].id \in litter'
          OBVIOUS
        <5>1. CASE b = d
          <6>1. task[c].id = i
            BY <1>3, <1>4, <5>1
          <6> QED
            BY <1>1, <4>1, <6>1 DEF Deleting, Deletes
        <5>2. CASE b # d
          BY <1>1, <2>3, <4>1, <5>2 DEF IInv, DeletesAreRight
        <5> QED
          BY <5>1, <5>2
      <4>3. /\ task[c].id \notin litter /\ Exists(task[c].id) /\ ~ task[c].last =>
                 Others(task[c].id, task[c].event.port) # {}
            /\ task[c].last => Others(task[c].id, task[c].event.port) \subseteq late
        BY <4>1 DEF IInv, DeletesAreRight
      <4>4. Others(task[c].id, task[c].event.port)' = Others(task[c].id, task[c].event.port)
        BY <2>1, <4>1
      <4>5. Exists(task[c].id)' <=> Exists(task[c].id)
        BY <1>1, <4>1 DEF Exists
      <4>6. litter \subseteq litter' /\ late' = late
        BY <1>1
      <4>7. (task[c].id \notin litter /\ Exists(task[c].id) /\ ~ task[c].last =>
               Others(task[c].id, task[c].event.port) # {})'
        BY <4>1, <4>3, <4>4, <4>5, <4>6
      <4>8. (task[c].last => Others(task[c].id, task[c].event.port) \subseteq late)'
        BY <4>1, <4>3, <4>4, <4>6
      <4>9. (\A b \in Delivery : Deletes(b) /\ task[b].id = task[c].id /\ b # c =>
               task[c].id \in litter)'
        BY <4>1, <4>2
      <4> QED
        BY <4>7, <4>8, <4>9
    <3> QED
      BY <3>1, <3>2
  <2> QED
    BY <2>4 DEF DeletesAreRight
<1>9. FormsAreRight'
  BY <1>1 DEF IInv, FormsAreRight
<1>10. NoLitter'
  BY <1>1 DEF IInv, NoLitter, Exists, Vips
<1> QED
  BY <1>5, <1>6, <1>7, <1>8, <1>9, <1>10 DEF IInv

\* A VIP goes, or the address with all that are there.
LEMMA CommitDeleteKeeps ==
  ASSUME IInv, NEW d \in Delivery, CommitDelete(d)
  PROVE  IInv'
<1> DEFINE i == task[d].id
           p == task[d].event.port
           x == <<i, p>>
           own == IF vip[x] # None /\ vip[x].made = task[d].read.made THEN {x} ELSE {}
<1>1. /\ task[d].pc = "deleting"
      /\ IF task[d].last
         THEN ip' = [ip EXCEPT ![i] = None] /\ vip' = WithoutRows({i})
         ELSE vip' = [y \in Id \X Port |-> IF y \in own THEN None ELSE vip[y]] /\ UNCHANGED ip
      /\ task' = [task EXCEPT ![d] = Handled]
      /\ UNCHANGED <<created, clusters, form, late, litter>>
  BY DEF CommitDelete
<1>2. i \in Id
  BY <1>1, TaskFields
<1>3. /\ ip \in [Id -> Row \cup {None}] /\ vip \in [Id \X Port -> Vip \cup {None}]
  BY DEF IInv, TypeOK
<1>4. /\ ip' \in [Id -> Row \cup {None}]
      /\ \A k \in Id : ip'[k] # None => ip'[k] = ip[k]
      /\ task[d].last => ip'[i] = None
      /\ \A k \in Id : k # i => ip'[k] = ip[k]
  BY <1>1, <1>2, <1>3
<1>5. /\ vip' \in [Id \X Port -> Vip \cup {None}]
      /\ \A y \in Id \X Port : vip'[y] # None => vip'[y] = vip[y]
      /\ \A y \in Id \X Port : y[1] # i => vip'[y] = vip[y]
      /\ task[d].last => \A y \in Id \X Port : y[1] = i => vip'[y] = None
      /\ ~ task[d].last => \A y \in Id \X Port : y # x => vip'[y] = vip[y]
  <2>1. own \subseteq {x}
    OBVIOUS
  <2> HIDE DEF own
  <2>2. CASE task[d].last
    BY <1>1, <1>3, <2>2 DEF WithoutRows
  <2>3. CASE ~ task[d].last
    BY <1>1, <1>3, <2>1, <2>3
  <2> QED
    BY <2>2, <2>3
<1> HIDE DEF own
<1>6. /\ Vips' \subseteq Vips
      /\ \A y \in Vips : y[1] # i => y \in Vips'
      /\ task[d].last => \A y \in Vips' : y[1] # i
      /\ ~ task[d].last => \A y \in Vips : y # x => y \in Vips'
  BY <1>5 DEF Vips
<1>7. created' \in Nat /\ created <= created'
  BY <1>1 DEF IInv, TypeOK
<1>8. /\ task' \in [Delivery -> Task] /\ TasksAreRight'
      /\ \A c \in Delivery : Inserts(c)' \/ Deletes(c)' => c # d /\ task'[c] = task[c]
  BY <1>1, <1>7, Ends
<1>9. TypeOK'
  <2>1. \A k \in Id : Exists(k)' => Exists(k) /\ ip'[k] = ip[k]
    BY <1>4 DEF Exists
  <2>2. \A y \in Vips' : Exists(y[1])'
    <3> SUFFICES ASSUME NEW y \in Vips'
                 PROVE  Exists(y[1])'
      OBVIOUS
    <3>1. y \in Vips /\ y[1] \in Id /\ Exists(y[1])
      BY <1>6, VipsArePairs DEF IInv, TypeOK
    <3>2. ip'[y[1]] = ip[y[1]]
      <4>1. CASE task[d].last
        BY <1>4, <1>6, <3>1, <4>1
      <4>2. CASE ~ task[d].last
        BY <1>1, <4>2
      <4> QED
        BY <4>1, <4>2
    <3> QED
      BY <3>1, <3>2 DEF Exists
  <2>3. \A j, k \in Id : j # k /\ Exists(j)' /\ Exists(k)' => ip'[j].address # ip'[k].address
    BY <2>1 DEF IInv, TypeOK
  <2>4. \A k \in Id : Exists(k)' => k <= created'
    BY <1>1, <2>1 DEF IInv, TypeOK
  <2> QED
    BY <1>1, <1>4, <1>5, <1>8, <2>2, <2>3, <2>4 DEF IInv, TypeOK
<1>10. InsertsAreAlone'
  <2>1. \A k \in Id : Exists(k)' => Exists(k) /\ ip'[k].address = ip[k].address
    BY <1>4 DEF Exists
  <2> QED
    BY <1>8, <2>1, InsertsStay
<1>11. DeletesAreRight'
  <2>1. \A c \in Delivery : Deletes(c)' => /\ Deletes(c) /\ c # d /\ task[c].id \in Id
                                           /\ task'[c] = task[c]
    <3> SUFFICES ASSUME NEW c \in Delivery, Deletes(c)'
                 PROVE  Deletes(c) /\ c # d /\ task[c].id \in Id /\ task'[c] = task[c]
      OBVIOUS
    <3>1. Deletes(c) /\ c # d /\ task'[c] = task[c]
      BY <1>8 DEF Deletes
    <3> QED
      BY <3>1, TaskFields DEF Deletes
  <2>2. \A c \in Delivery : Deletes(c)' /\ task[c].id \notin litter' => task[c].id # i
    BY <1>1, <2>1 DEF IInv, DeletesAreRight, Deletes
  <2>3. \A c \in Delivery : Deletes(c)' /\ Exists(task[c].id)' => Exists(task[c].id)
    BY <1>4, <2>1 DEF Exists
  <2>4. late' = late /\ litter \subseteq litter'
    BY <1>1
  <2> QED
    BY <1>6, <2>1, <2>2, <2>3, <2>4, DeletesStay
<1>12. FormsAreRight'
  BY <1>1, <1>7, FormsStay
<1>13. NoLitter'
  <2> SUFFICES ASSUME NEW k \in Id, k \notin litter', ip'[k] # None
               PROVE  \E y \in Vips' : y[1] = k
    BY DEF NoLitter, Exists
  <2>1. k \notin litter /\ Exists(k)
    BY <1>1, <1>4 DEF Exists
  <2>2. CASE k # i
    BY <1>6, <2>1, <2>2 DEF IInv, NoLitter
  <2>3. CASE k = i
    <3>1. ~ task[d].last
      BY <1>4, <2>3
    <3>2. Others(i, p) # {}
      BY <1>1, <2>1, <2>3, <3>1 DEF IInv, DeletesAreRight, Deletes
    <3> QED
      BY <1>6, <2>3, <3>1, <3>2 DEF Others
  <2> QED
    BY <2>2, <2>3
<1> QED
  BY <1>8, <1>9, <1>10, <1>11, <1>12, <1>13 DEF IInv

-----------------------------------------------------------------------------
(* Users *)

\* The deliveries stay as they are, and so do the other forms.
LEMMA UserSteps ==
  ASSUME IInv, NEW u \in Form, NEW f \in Request, task' = task,
         form' = [form EXCEPT ![u] = f], created' \in Nat, created <= created',
         f.pc = "save" => /\ f.asset # None
                          /\ f.id # None => /\ f.id <= created' /\ f.row # None
                                            /\ f.value # None /\ f.row.address = f.value
  PROVE  /\ task' \in [Delivery -> Task] /\ form' \in [Form -> Request]
         /\ TasksAreRight' /\ FormsAreRight'
<1>1. /\ form' \in [Form -> Request] /\ form'[u] = f
      /\ \A v \in Form : v # u => form'[v] = form[v]
      /\ task' \in [Delivery -> Task] /\ created \in Nat
  BY DEF IInv, TypeOK
<1>2. TasksAreRight'
  <2> SUFFICES ASSUME NEW d \in Delivery
               PROVE  /\ task[d].pc \notin {"new", "done"} =>
                           /\ task[d].event \in Event
                           /\ task[d].id # None => task[d].id <= created'
                      /\ task[d].pc \in {"update", "delete", "deleting"} =>
                           task[d].id # None /\ task[d].read # None
    BY DEF TasksAreRight
  <2>1. task[d].id \in Id \cup {None}
    BY TaskFields
  <2> QED
    BY <1>1, <2>1 DEF IInv, TasksAreRight, Id
<1>3. FormsAreRight'
  <2> SUFFICES ASSUME NEW v \in Form, form'[v].pc = "save"
               PROVE  /\ form'[v].asset # None
                      /\ form'[v].id # None => /\ form'[v].id <= created' /\ form'[v].row # None
                                               /\ form'[v].value # None
                                               /\ form'[v].row.address = form'[v].value
    BY DEF FormsAreRight
  <2>1. CASE v = u
    BY <1>1, <2>1
  <2>2. CASE v # u
    <3>1. form'[v] = form[v] /\ form[v] \in Request
      BY <1>1, <2>2
    <3>2. form[v].id \in Id \cup {None}
      BY <3>1 DEF Request
    <3> QED
      BY <1>1, <3>1, <3>2 DEF IInv, FormsAreRight, Id
  <2> QED
    BY <2>1, <2>2
<1> QED
  BY <1>1, <1>2, <1>3

\* A form is read or rejected.
LEMMA ReadManagementKeeps ==
  ASSUME IInv, NEW u \in Form, ReadManagement(u) \/ RejectForm(u)
  PROVE  IInv'
<1>1. UNCHANGED <<ip, created, vip, clusters, task, late, litter>>
  BY DEF ReadManagement, RejectForm
<1>2. created \in Nat /\ created' \in Nat /\ created <= created'
  BY <1>1 DEF IInv, TypeOK
<1>3. /\ task' \in [Delivery -> Task] /\ form' \in [Form -> Request]
      /\ TasksAreRight' /\ FormsAreRight'
  <2>1. CASE ReadManagement(u)
    <3>1. PICK h \in Asset, a \in Address \cup {None} :
            LET i == IF a = None THEN None ELSE RowOf(a)
            IN \E old \in IF _get_management_ip(h) = {} THEN {None} ELSE _get_management_ip(h) :
                 form' = [form EXCEPT ![u] =
                   [pc |-> "save", asset |-> h, value |-> a, old |-> old, id |-> i,
                    row |-> IF i = None THEN None ELSE ip[i]]]
      BY <2>1 DEF ReadManagement
    <3> DEFINE i == IF a = None THEN None ELSE RowOf(a)
               r == IF i = None THEN None ELSE ip[i]
    <3>2. PICK old \in IF _get_management_ip(h) = {} THEN {None} ELSE _get_management_ip(h) :
            form' = [form EXCEPT ![u] = [pc |-> "save", asset |-> h, value |-> a, old |-> old,
                                         id |-> i, row |-> r]]
      BY <3>1
    <3>3. old \in Id \cup {None}
      BY DEF _get_management_ip
    <3>4. i \in Id \cup {None} /\ (i # None => a # None /\ Exists(i) /\ ip[i].address = a)
      BY RowOfFinds DEF IInv
    <3>5. r \in Row \cup {None} /\ (i # None => r \in Row /\ i <= created /\ r.address = a)
      BY <3>4, RowsAreRows DEF IInv
    <3> DEFINE f == [pc |-> "save", asset |-> h, value |-> a, old |-> old, id |-> i, row |-> r]
    <3> HIDE DEF i, r
    <3>6. f \in Request
      BY <3>3, <3>4, <3>5 DEF Request
    <3>7. /\ f.asset # None
          /\ f.id # None => /\ f.id <= created' /\ f.row # None
                            /\ f.value # None /\ f.row.address = f.value
      BY <1>1, <3>4, <3>5, NoneIsElse
    <3>8. form' = [form EXCEPT ![u] = f]
      BY <3>2
    <3> HIDE DEF f
    <3> QED
      BY <1>1, <1>2, <3>6, <3>7, <3>8, UserSteps
  <2>2. CASE RejectForm(u)
    BY <1>1, <1>2, <2>2, UserSteps, NewAndHandled DEF RejectForm
  <2> QED
    BY <2>1, <2>2
<1>4. TypeOK'
  BY <1>1, <1>3 DEF IInv, TypeOK, Exists, Vips
<1>5. InsertsAreAlone'
  BY <1>1, InsertsStay DEF Exists
<1>6. DeletesAreRight'
  BY <1>1, DeletesStay DEF Exists, Vips
<1>7. NoLitter'
  BY <1>1 DEF IInv, NoLitter, Exists, Vips
<1> QED
  BY <1>3, <1>4, <1>5, <1>6, <1>7 DEF IInv

\* A user deletes a VIP, and gives a reason for what is left.
LEMMA UserDeletesVipKeeps ==
  ASSUME IInv, NEW u \in Form, UserDeletesVip(u)
  PROVE  IInv'
<1>1. PICK x \in Vips : vip' = [vip EXCEPT ![x] = None] /\ litter' = litter \cup {x[1]}
  BY DEF UserDeletesVip
<1>2. /\ form' = [form EXCEPT ![u] = Answered]
      /\ UNCHANGED <<ip, created, clusters, task, late>>
  BY DEF UserDeletesVip
<1>3. x[1] \in Id /\ x \in Id \X Port
  BY VipsArePairs DEF Vips
<1>4. /\ vip' \in [Id \X Port -> Vip \cup {None}]
      /\ Vips' = Vips \ {x}
  BY <1>1, <1>3 DEF IInv, TypeOK, Vips
<1>5. created \in Nat /\ created' \in Nat /\ created <= created'
  BY <1>2 DEF IInv, TypeOK
<1>6. /\ task' \in [Delivery -> Task] /\ form' \in [Form -> Request]
      /\ TasksAreRight' /\ FormsAreRight'
  BY <1>2, <1>5, UserSteps, NewAndHandled
<1>7. TypeOK'
  BY <1>1, <1>2, <1>3, <1>4, <1>6 DEF IInv, TypeOK, Exists
<1>8. InsertsAreAlone'
  BY <1>2, InsertsStay DEF Exists
<1>9. DeletesAreRight'
  BY <1>1, <1>2, <1>4, DeletesStay DEF Exists
<1>10. NoLitter'
  BY <1>1, <1>2, <1>4 DEF IInv, NoLitter, Exists
<1> QED
  BY <1>6, <1>7, <1>8, <1>9, <1>10 DEF IInv

\* A user exposes an address.
LEMMA UserExposesKeeps ==
  ASSUME IInv, NEW u \in Form, UserExposes(u)
  PROVE  IInv'
<1>1. PICK i \in Id : Exists(i) /\ ip' = [ip EXCEPT ![i].exposed = TRUE]
  BY DEF UserExposes
<1>2. /\ form' = [form EXCEPT ![u] = Answered]
      /\ UNCHANGED <<created, vip, clusters, task, late, litter>>
  BY DEF UserExposes
<1> DEFINE r == [ip[i] EXCEPT !.exposed = TRUE]
<1>3. r \in Row /\ r.address = ip[i].address
  <2>1. ip[i] \in Row
    BY <1>1, RowsAreRows DEF IInv
  <2> QED
    BY <2>1 DEF Row
<1>4. ip \in [Id -> Row \cup {None}] /\ ip'[i] = r /\ \A k \in Id : k # i => ip'[k] = ip[k]
  BY <1>1 DEF IInv, TypeOK
<1>5. ip' \in [Id -> Row \cup {None}]
  <2>1. ip' = [ip EXCEPT ![i] = r]
    BY <1>1, <1>4
  <2> HIDE DEF r
  <2> QED
    BY <1>3, <1>4, <2>1
<1> HIDE DEF r
<1>6. \A k \in Id : (Exists(k)' <=> Exists(k)) /\ (Exists(k) => ip'[k].address = ip[k].address)
  BY <1>1, <1>3, <1>4, NoneIsElse DEF Exists
<1>7. created \in Nat /\ created' \in Nat /\ created <= created'
  BY <1>2 DEF IInv, TypeOK
<1>8. /\ task' \in [Delivery -> Task] /\ form' \in [Form -> Request]
      /\ TasksAreRight' /\ FormsAreRight'
  BY <1>2, <1>7, UserSteps, NewAndHandled
<1>9. Vips' = Vips /\ \A x \in Vips : x[1] \in Id
  BY <1>2, VipsArePairs DEF Vips
<1>10. TypeOK'
  <2>1. \A x \in Vips' : Exists(x[1])'
    BY <1>6, <1>9 DEF IInv, TypeOK, Exists
  <2>2. \A j, k \in Id : j # k /\ Exists(j)' /\ Exists(k)' => ip'[j].address # ip'[k].address
    BY <1>6 DEF IInv, TypeOK
  <2>3. \A k \in Id : Exists(k)' => k <= created'
    BY <1>2, <1>6 DEF IInv, TypeOK
  <2> QED
    BY <1>2, <1>5, <1>8, <2>1, <2>2, <2>3 DEF IInv, TypeOK
<1>11. InsertsAreAlone'
  BY <1>2, <1>6, InsertsStay
<1>12. DeletesAreRight'
  <2>1. \A c \in Delivery : Deletes(c)' => Deletes(c) /\ task[c].id \in Id /\ task'[c] = task[c]
    BY <1>2, TaskFields DEF Deletes
  <2>2. \A c \in Delivery : Deletes(c)' /\ Exists(task[c].id)' => Exists(task[c].id)
    BY <1>6, <2>1 DEF Exists
  <2> QED
    BY <1>2, <1>9, <2>1, <2>2, DeletesStay
<1>13. NoLitter'
  BY <1>2, <1>6, <1>9 DEF IInv, NoLitter
<1> QED
  BY <1>8, <1>10, <1>11, <1>12, <1>13 DEF IInv

\* A user deletes an address with its VIPs.
LEMMA UserDeletesAddressKeeps ==
  ASSUME IInv, NEW u \in Form, UserDeletesAddress(u)
  PROVE  IInv'
<1>1. PICK i \in Id : ip' = [ip EXCEPT ![i] = None] /\ vip' = WithoutRows({i})
  BY DEF UserDeletesAddress
<1>2. /\ form' = [form EXCEPT ![u] = Answered]
      /\ UNCHANGED <<created, clusters, task, late, litter>>
  BY DEF UserDeletesAddress
<1>3. /\ ip' \in [Id -> Row \cup {None}] /\ ip'[i] = None
      /\ \A k \in Id : k # i => ip'[k] = ip[k]
      /\ vip' \in [Id \X Port -> Vip \cup {None}]
      /\ Vips' = {x \in Vips : x[1] # i}
  BY <1>1 DEF IInv, TypeOK, WithoutRows, Vips
<1>4. \A k \in Id : Exists(k)' => k # i /\ Exists(k) /\ ip'[k] = ip[k]
  BY <1>3 DEF Exists
<1>5. created \in Nat /\ created' \in Nat /\ created <= created'
  BY <1>2 DEF IInv, TypeOK
<1>6. /\ task' \in [Delivery -> Task] /\ form' \in [Form -> Request]
      /\ TasksAreRight' /\ FormsAreRight'
  BY <1>2, <1>5, UserSteps, NewAndHandled
<1>7. \A x \in Vips : x[1] \in Id
  BY VipsArePairs
<1>8. TypeOK'
  <2>1. \A x \in Vips' : Exists(x[1])'
    BY <1>3, <1>7 DEF IInv, TypeOK, Exists
  <2>2. \A j, k \in Id : j # k /\ Exists(j)' /\ Exists(k)' => ip'[j].address # ip'[k].address
    BY <1>4 DEF IInv, TypeOK
  <2>3. \A k \in Id : Exists(k)' => k <= created'
    BY <1>2, <1>4 DEF IInv, TypeOK
  <2> QED
    BY <1>2, <1>3, <1>6, <2>1, <2>2, <2>3 DEF IInv, TypeOK
<1>9. InsertsAreAlone'
  BY <1>2, <1>4, InsertsStay
<1>10. DeletesAreRight'
  <2>1. \A c \in Delivery : Deletes(c)' => Deletes(c) /\ task[c].id \in Id /\ task'[c] = task[c]
    BY <1>2, TaskFields DEF Deletes
  <2>2. \A c \in Delivery : Deletes(c)' /\ Exists(task[c].id)' => Exists(task[c].id) /\ task[c].id # i
    BY <1>4, <2>1 DEF Exists
  <2> QED
    BY <1>2, <1>3, <2>1, <2>2, DeletesStay
<1>11. NoLitter'
  BY <1>2, <1>3, <1>4 DEF IInv, NoLitter
<1> QED
  BY <1>6, <1>8, <1>9, <1>10, <1>11 DEF IInv

\* The old management address goes; the row of the new one is made, or written as it was read.
LEMMA SaveManagementKeeps ==
  ASSUME IInv, NEW u \in Form, SaveManagement(u)
  PROVE  IInv'
<1> DEFINE f == form[u]
           gone == {f.old} \ {None, f.id}
           new == f.value # None /\ f.id = None
           i == IF new THEN created + 1 ELSE f.id
           row == IF new THEN [address |-> f.value, owner |-> f.asset, exposed |-> FALSE,
                               management |-> TRUE]
                  ELSE [f.row EXCEPT !.owner = f.asset, !.management = TRUE]
           without == [k \in Id |-> IF k \in gone THEN None ELSE ip[k]]
<1>1. /\ f.pc = "save" /\ i \in Id \cup {None}
      /\ IF f.value = None THEN ip' = without
         ELSE /\ ~ Inserting(f.value)
              /\ \A k \in Id \ {i} : without[k] # None => without[k].address # f.value
              /\ ip' = [without EXCEPT ![i] = row]
      /\ created' = IF new THEN i ELSE created
      /\ vip' = WithoutRows(gone) /\ litter' = litter \cup ({i} \ {None})
      /\ form' = [form EXCEPT ![u] = Answered]
      /\ UNCHANGED <<clusters, task, late>>
  BY DEF SaveManagement
<1>2. /\ f \in Request /\ f.id \in Id \cup {None} /\ f.value \in Address \cup {None}
      /\ f.asset \in Asset \cup {None} /\ f.row \in Row \cup {None}
  <2>1. f \in Request
    BY DEF IInv, TypeOK
  <2> QED
    BY <2>1 DEF Request
<1>3. /\ f.asset \in Asset
      /\ f.id # None => /\ f.id <= created /\ f.row \in Row
                        /\ f.value # None /\ f.row.address = f.value
  BY <1>1, <1>2 DEF IInv, FormsAreRight
<1>4. /\ ip \in [Id -> Row \cup {None}] /\ created \in 0..MaxId /\ MaxId \in Nat
      /\ \A k \in Id : Exists(k) => k <= created
  BY EventAssumption DEF IInv, TypeOK
<1>5. f.value # None => row \in Row /\ row.address = f.value /\ row # None
  <2>1. CASE new
    <3>1. row = [address |-> f.value, owner |-> f.asset, exposed |-> FALSE, management |-> TRUE]
      BY <2>1
    <3>2. f.value \in Address
      BY <1>2, <2>1
    <3> HIDE DEF row
    <3>3. row \in Row /\ row.address = f.value
      BY <1>3, <3>1, <3>2 DEF Row
    <3> QED
      BY <3>3, NoneIsElse
  <2>2. CASE ~ new /\ f.value # None
    <3>1. f.row \in Row /\ f.row.address = f.value
      BY <1>3, <2>2
    <3>2. row = [f.row EXCEPT !.owner = f.asset, !.management = TRUE]
      BY <2>2
    <3>3. row \in Row /\ row.address = f.value
      BY <1>3, <3>1, <3>2 DEF Row
    <3> QED
      BY <3>3, NoneIsElse
  <2> QED
    BY <2>1, <2>2
<1>6. /\ f.value # None => i \in Id /\ i <= created'
      /\ f.value = None => i = None
      /\ created' \in 0..MaxId /\ created' \in Nat /\ created <= created'
  <2>1. CASE new
    <3>1. created + 1 \in Id
      BY <1>1, <1>4, <2>1, EventAssumption
    <3> QED
      BY <1>1, <1>4, <2>1, <3>1 DEF Id
  <2>2. CASE ~ new
    BY <1>1, <1>2, <1>3, <1>4, <2>2
  <2> QED
    BY <2>1, <2>2
<1>7. /\ without \in [Id -> Row \cup {None}]
      /\ \A k \in Id : without[k] # None => k \notin gone /\ without[k] = ip[k]
      /\ \A k \in Id : k \notin gone => without[k] = ip[k]
  BY <1>4
<1> HIDE DEF i, row, without, gone
<1>8. /\ ip' \in [Id -> Row \cup {None}]
      /\ \A k \in Id : k # i => ip'[k] = without[k]
      /\ f.value # None => ip'[i] = row
  BY <1>1, <1>5, <1>6, <1>7, NoneIsElse
<1>9. \A k \in Id : ip'[k] # None /\ k # i => k \notin gone /\ Exists(k) /\ ip'[k] = ip[k]
  BY <1>7, <1>8 DEF Exists
<1>10. /\ vip' \in [Id \X Port -> Vip \cup {None}]
       /\ Vips' = {x \in Vips : x[1] \notin gone}
       /\ \A x \in Vips : x[1] \in Id
  BY <1>1, VipsArePairs DEF IInv, TypeOK, WithoutRows, Vips
<1>11. i \in Id => i \in litter' /\ f.value # None
  BY <1>1, <1>6, NoneIsElse
<1>12. litter \subseteq litter' /\ litter' \subseteq Id
  BY <1>1 DEF IInv, TypeOK
<1>13. /\ task' \in [Delivery -> Task] /\ form' \in [Form -> Request]
       /\ TasksAreRight' /\ FormsAreRight'
  BY <1>1, <1>6, UserSteps, NewAndHandled
<1>14. TypeOK'
  <2>1. \A x \in Vips' : Exists(x[1])'
    <3> SUFFICES ASSUME NEW x \in Vips'
                 PROVE  ip'[x[1]] # None
      BY DEF Exists
    <3>1. x[1] \in Id /\ x[1] \notin gone /\ ip[x[1]] # None
      BY <1>10 DEF IInv, TypeOK, Exists
    <3>2. CASE x[1] = i
      BY <1>5, <1>8, <1>11, <3>1, <3>2
    <3>3. CASE x[1] # i
      BY <1>7, <1>8, <3>1, <3>3
    <3> QED
      BY <3>2, <3>3
  <2>2. \A k \in Id : k # i /\ Exists(k)' /\ i \in Id => ip'[k].address # ip'[i].address
    BY <1>1, <1>5, <1>8, <1>11 DEF Exists
  <2>3. \A j, k \in Id : j # k /\ Exists(j)' /\ Exists(k)' => ip'[j].address # ip'[k].address
    <3> SUFFICES ASSUME NEW j \in Id, NEW k \in Id, j # k, Exists(j)', Exists(k)'
                 PROVE  ip'[j].address # ip'[k].address
      OBVIOUS
    <3>1. CASE j = i \/ k = i
      BY <2>2, <3>1
    <3>2. CASE j # i /\ k # i
      <4>1. Exists(j) /\ Exists(k) /\ ip'[j] = ip[j] /\ ip'[k] = ip[k]
        BY <1>9, <3>2 DEF Exists
      <4> QED
        BY <4>1 DEF IInv, TypeOK
    <3> QED
      BY <3>1, <3>2
  <2>4. \A k \in Id : Exists(k)' => k <= created'
    <3> SUFFICES ASSUME NEW k \in Id, ip'[k] # None
                 PROVE  k <= created'
      BY DEF Exists
    <3>1. CASE k = i
      BY <1>6, <1>11, <3>1
    <3>2. CASE k # i
      <4>1. k <= created /\ k \in Nat
        BY <1>4, <1>9, <3>2 DEF Id
      <4> QED
        BY <1>4, <1>6, <4>1
    <3> QED
      BY <3>1, <3>2
  <2> QED
    BY <1>1, <1>6, <1>8, <1>10, <1>12, <1>13, <2>1, <2>3, <2>4 DEF IInv, TypeOK
<1>15. InsertsAreAlone'
  <2> SUFFICES ASSUME NEW c \in Delivery, Inserts(c)
               PROVE  /\ \A k \in Id : ip'[k] # None => ip'[k].address # task[c].event.address
                      /\ \A b \in Delivery :
                           Inserts(b) /\ task[b].event.address = task[c].event.address => b = c
    BY <1>1 DEF InsertsAreAlone, Exists, Inserts
  <2>1. \A k \in Id : Exists(k) => ip[k].address # task[c].event.address
    BY DEF IInv, InsertsAreAlone
  <2>2. f.value # None => task[c].event.address # f.value
    BY <1>1 DEF Inserting, Inserts
  <2>3. ASSUME NEW k \in Id, ip'[k] # None
        PROVE  ip'[k].address # task[c].event.address
    <3>1. CASE k = i
      BY <1>5, <1>8, <1>11, <2>2, <3>1
    <3>2. CASE k # i
      BY <1>9, <2>1, <2>3, <3>2
    <3> QED
      BY <3>1, <3>2
  <2> QED
    BY <2>3 DEF IInv, InsertsAreAlone
<1>16. DeletesAreRight'
  <2>1. \A c \in Delivery : Deletes(c)' => Deletes(c) /\ task[c].id \in Id /\ task'[c] = task[c]
    BY <1>1, TaskFields DEF Deletes
  <2>2. ASSUME NEW c \in Delivery, Deletes(c)', task[c].id \notin litter', Exists(task[c].id)'
        PROVE  Exists(task[c].id) /\ \A x \in Vips : x[1] = task[c].id => x \in Vips'
    <3>1. task[c].id \in Id /\ task[c].id # i /\ ip'[task[c].id] # None
      BY <1>11, <2>1, <2>2 DEF Exists
    <3> QED
      BY <1>9, <1>10, <3>1
  <2> QED
    BY <1>1, <1>10, <1>12, <2>1, <2>2, DeletesStay
<1>17. NoLitter'
  <2> SUFFICES ASSUME NEW k \in Id, k \notin litter', ip'[k] # None
               PROVE  \E x \in Vips' : x[1] = k
    BY DEF NoLitter, Exists
  <2>1. k # i /\ k \notin litter
    BY <1>11, <1>12
  <2>2. k \notin gone /\ Exists(k)
    BY <1>9, <2>1
  <2> QED
    BY <1>10, <2>1, <2>2 DEF IInv, NoLitter
<1> QED
  BY <1>13, <1>14, <1>15, <1>16, <1>17 DEF IInv

\* The invariant is inductive.
LEMMA NextKeeps == IInv /\ [Next]_vars => IInv'
<1> SUFFICES ASSUME IInv, [Next]_vars
             PROVE  IInv'
  OBVIOUS
<1>1. ASSUME NEW d \in Delivery, DeliveryStep(d)
      PROVE  IInv'
  BY <1>1, ReceivesKeep, RefuseCreateKeeps, CommitCreateKeeps, CommitUpdateKeeps,
     DeleteVipKeeps, CommitDeleteKeeps, RollBackKeeps DEF DeliveryStep
<1>2. ASSUME NEW u \in Form, FormStep(u)
      PROVE  IInv'
  BY <1>2, UserDeletesVipKeeps, UserExposesKeeps, UserDeletesAddressKeeps,
     ReadManagementKeeps, SaveManagementKeeps DEF FormStep
<1>3. CASE UNCHANGED vars
  <2>1. UNCHANGED <<ip, created, vip, clusters, task, form, late, litter>>
    BY <1>3 DEF vars
  <2>2. TypeOK'
    BY <2>1 DEF IInv, TypeOK, Exists, Vips
  <2>3. TasksAreRight' /\ FormsAreRight' /\ NoLitter'
    BY <2>1 DEF IInv, TasksAreRight, FormsAreRight, NoLitter, Exists, Vips
  <2>4. InsertsAreAlone'
    BY <2>1, InsertsStay DEF Exists
  <2>5. DeletesAreRight'
    BY <2>1, DeletesStay DEF Exists, Vips
  <2> QED
    BY <2>2, <2>3, <2>4, <2>5 DEF IInv
<1> QED
  BY <1>1, <1>2, <1>3 DEF Next

-----------------------------------------------------------------------------
(* The theorems *)

\* IInv, from which the properties follow, holds for any events and any number of
\* deliveries, of address rows and of users.
THEOREM Invariance == Spec => []IInv
<1> QED
  BY InitInv, NextKeeps, PTL DEF Spec

\* However events are repeated, reordered and handled side by side, addresses stay
\* unique and no VIP is without its address (subscribers.py, IPAddress, VIP.ip).
THEOREM TypeCorrect == Spec => []TypeOK
<1>1. IInv => TypeOK
  BY DEF IInv
<1> QED
  BY Invariance, <1>1, PTL

\* An address that events have made does not outlive its VIPs, with the exceptions of
\* NoLitter (handle_create_vip_event, handle_delete_vip_event).
THEOREM NoLitterAlways == Spec => []NoLitter
<1>1. IInv => NoLitter
  BY DEF IInv
<1> QED
  BY Invariance, <1>1, PTL

\* A user's step takes a request further.
LEMMA RequestsProgress ==
  ASSUME IInv, NEW u \in Form, FormStep(u)
  PROVE  form' # form
<1>1. form[u].pc # "done"
  BY DEF FormStep, UserDeletesVip, UserExposes, UserDeletesAddress, ReadManagement,
              SaveManagement, RejectForm
<1>2. \E f : f.pc \in {"save", "done"} /\ f.pc # form[u].pc /\ form' = [form EXCEPT ![u] = f]
  <2>1. CASE ReadManagement(u)
    <3>1. form[u].pc = "new"
      BY <2>1 DEF ReadManagement
    <3>2. PICK h \in Asset, a \in Address \cup {None} :
            LET i == IF a = None THEN None ELSE RowOf(a)
            IN \E old \in IF _get_management_ip(h) = {} THEN {None} ELSE _get_management_ip(h) :
                 form' = [form EXCEPT ![u] =
                   [pc |-> "save", asset |-> h, value |-> a, old |-> old, id |-> i,
                    row |-> IF i = None THEN None ELSE ip[i]]]
      BY <2>1 DEF ReadManagement
    <3> DEFINE i == IF a = None THEN None ELSE RowOf(a)
               r == IF i = None THEN None ELSE ip[i]
    <3>3. PICK old \in IF _get_management_ip(h) = {} THEN {None} ELSE _get_management_ip(h) :
            form' = [form EXCEPT ![u] = [pc |-> "save", asset |-> h, value |-> a,
                                         old |-> old, id |-> i, row |-> r]]
      BY <3>2
    <3> DEFINE f == [pc |-> "save", asset |-> h, value |-> a, old |-> old, id |-> i, row |-> r]
    <3>4. f.pc = "save"
      OBVIOUS
    <3>5. form' = [form EXCEPT ![u] = f]
      BY <3>3
    <3> HIDE DEF f
    <3> QED
      BY <3>1, <3>4, <3>5
  <2>2. CASE ~ ReadManagement(u)
    <3>1. form' = [form EXCEPT ![u] = Answered]
      BY <2>2 DEF FormStep, UserDeletesVip, UserExposes, UserDeletesAddress,
                        SaveManagement, RejectForm
    <3> QED
      BY <1>1, <3>1, NewAndHandled
  <2> QED
    BY <2>1, <2>2
<1>3. PICK f : f.pc # form[u].pc /\ form' = [form EXCEPT ![u] = f]
  BY <1>2
<1>4. form'[u] = f
  BY <1>3 DEF IInv, TypeOK
<1> QED
  BY <1>3, <1>4

\* Handling an event takes no VIP away but the one whose deletion it is about, and
\* those that have come late (handle_delete_vip_event).
THEOREM VipsStayAlways == Spec => VipsStay
<1> DEFINE Stay == form' = form => \A x \in Vips : vip'[x] = None => Asked(x) \/ x \in late
<1>1. IInv /\ [Next]_vars => [Stay]_vars
  <2> SUFFICES ASSUME IInv, Next, form' = form, NEW x \in Vips, vip'[x] = None
               PROVE  Asked(x) \/ x \in late
    OBVIOUS
  <2>1. x = <<x[1], x[2]>> /\ x \in Id \X Port /\ vip[x] \in Vip /\ vip[x] # None
    BY VipsArePairs DEF Vips, IInv, TypeOK
  <2>2. ASSUME NEW d \in Delivery, CommitDelete(d)
        PROVE  Asked(x) \/ x \in late
    <3> DEFINE i == task[d].id
               y == <<i, task[d].event.port>>
    <3>1. task[d].pc = "deleting" /\ task' = [task EXCEPT ![d] = Handled]
      BY <2>2 DEF CommitDelete
    <3>2. task'[d].pc = "done"
      BY <3>1, NewAndHandled DEF IInv, TypeOK
    <3>3. CASE x = y
      BY <3>1, <3>2, <3>3 DEF Asked
    <3>4. CASE x # y /\ task[d].last
      <4>1. vip' = WithoutRows({i})
        BY <2>2, <3>4 DEF CommitDelete
      <4>2. x[1] = i
        BY <2>1, <4>1 DEF WithoutRows
      <4>3. x \in Others(i, task[d].event.port)
        BY <2>1, <3>4, <4>2 DEF Others
      <4> QED
        BY <3>1, <3>4, <4>3 DEF IInv, DeletesAreRight, Deletes
    <3>5. CASE x # y /\ ~ task[d].last
      <4>1. vip'[x] = vip[x]
        BY <2>1, <2>2, <3>5 DEF CommitDelete
      <4> QED
        BY <2>1, <4>1
    <3> QED
      BY <3>3, <3>4, <3>5
  <2>3. ASSUME NEW d \in Delivery, CommitCreate(d)
        PROVE  FALSE
    <3>1. \/ vip' = vip
          \/ \E k \in Id : \E r : /\ vip[<<k, task[d].event.port>>] = None
                                  /\ vip' = [vip EXCEPT ![<<k, task[d].event.port>>] = r]
      BY <2>3 DEF CommitCreate
    <3> QED
      BY <2>1, <3>1 DEF IInv, TypeOK
  <2>4. ASSUME NEW d \in Delivery, CommitUpdate(d)
        PROVE  FALSE
    <3>1. task[d].pc = "update" /\ task[d].event \in Event /\ task[d].read \in Vip
      BY <2>4, TaskFields DEF CommitUpdate
    <3>2. task[d].event.env \notin {None, task[d].read.env} => SavedVip(d) \in Vip
      BY <3>1, EventFields DEF SavedVip, Vip
    <3>3. [vip[x] EXCEPT !.parent = task[d].event.cluster] \in Vip
      BY <2>1, <3>1, EventFields DEF Vip
    <3>4. \/ task[d].event.env \notin {None, task[d].read.env} /\ vip'[x] = SavedVip(d)
          \/ vip'[x] = [vip[x] EXCEPT !.parent = task[d].event.cluster]
          \/ vip'[x] = vip[x]
      BY <2>1, <2>4 DEF CommitUpdate
    <3> QED
      BY <2>1, <3>2, <3>3, <3>4, NoneIsElse
  <2>5. ASSUME NEW u \in Form, FormStep(u)
        PROVE  FALSE
    BY <2>5, RequestsProgress
  <2>6. CASE vip' = vip
    BY <2>1, <2>6
  <2> QED
    BY <2>2, <2>3, <2>4, <2>5, <2>6 DEF Next, DeliveryStep, ReceiveCreate, ReceiveUpdate,
       ReceiveDelete, RefuseCreate, DeleteVip, RollBack
<1> QED
  BY Invariance, <1>1, PTL DEF Spec, VipsStay
=============================================================================
