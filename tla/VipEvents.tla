------------------------------ MODULE VipEvents ------------------------------
(***************************************************************************)
(* The events of load balancers about virtual addresses (VIPs), handled by *)
(* ralph.data_center.subscribers, next to the users who edit the same rows *)
(* and to the management addresses of assets (WithManagementIPMixin).      *)
(*                                                                         *)
(* Every delivery of an event is one request and one transaction at READ   *)
(* COMMITTED: it reads in one step and commits in a later one, and events  *)
(* are repeated, reordered and handled side by side.  An address row is    *)
(* known by its primary key, which is never used again; its Ethernet by    *)
(* the object that owns it, None without one.  A port is one with its      *)
(* protocol.                                                               *)
(***************************************************************************)
EXTENDS Naturals, FiniteSets

CONSTANTS
  Address, Port, Cluster, Asset,
  Env,        \* the service environments there are
  Event,      \* what load balancers announce
  Delivery,   \* how often they do
  Form,       \* requests of users
  FirstRows,  \* the address rows in the beginning
  MaxId,      \* how many address rows are made
  None

Id == 1..MaxId
Kind == {"create", "update", "delete"}
Row == [address : Address, owner : Cluster \cup Asset \cup {None},
        exposed : BOOLEAN, management : BOOLEAN]
Vip == [parent : Cluster, env : Env, made : Delivery]

ASSUME EventAssumption ==
  /\ MaxId \in Nat
  /\ Event \subseteq [kind : Kind, address : Address, port : Port, cluster : Cluster,
                      env : Env \cup {None}]
  /\ FirstRows \in [Id -> Row \cup {None}]
  /\ \A i \in Id : FirstRows[i] # None => \A k \in 1..(i - 1) :
       FirstRows[k] # None /\ FirstRows[k].address # FirstRows[i].address
  /\ Cluster \cap Asset = {} /\ None \notin Address \cup Cluster \cup Asset \cup Env \cup Nat
  /\ None \notin Row \cup Vip \cup Event

VARIABLES
  ip,        \* the address rows
  created,   \* how many there have been
  vip,       \* the VIPs of an address, by port
  clusters,  \* how many clusters have the name
  task,      \* the deliveries
  form,      \* the requests
  late,      \* observer: VIPs made while the last VIP of their address was deleted
  litter     \* observer: addresses that are left behind with a reason, or not by an event

vars == <<ip, created, vip, clusters, task, form, late, litter>>

\* A delivery that is handled, and the row of the VIP as it was read.
Task == [pc : {"new", "create", "update", "delete", "deleting", "done"},
         event : Event \cup {None}, id : Id \cup {None}, read : Vip \cup {None},
         exposed : BOOLEAN, newCluster : BOOLEAN, moves : BOOLEAN, last : BOOLEAN]
\* A form that is saved: the management address that is typed, the old one, and the row
\* of the new one as it was read.
Request == [pc : {"new", "save", "done"}, asset : Asset \cup {None},
            value : Address \cup {None}, old : Id \cup {None}, id : Id \cup {None},
            row : Row \cup {None}]

NewTask == [pc |-> "new", event |-> None, id |-> None, read |-> None,
            exposed |-> FALSE, newCluster |-> FALSE, moves |-> FALSE, last |-> FALSE]
Handled == [NewTask EXCEPT !.pc = "done"]
NewForm == [pc |-> "new", asset |-> None, value |-> None, old |-> None, id |-> None,
            row |-> None]
Answered == [NewForm EXCEPT !.pc = "done"]

Exists(i) == ip[i] # None
Vips == {x \in Id \X Port : vip[x] # None}
Others(i, p) == {x \in Vips : x[1] = i /\ x[2] # p}

\* Types; addresses are unique, and no VIP is without its address.
TypeOK ==
  /\ ip \in [Id -> Row \cup {None}] /\ created \in 0..MaxId
  /\ \A i \in Id : Exists(i) => i <= created
  /\ \A i, k \in Id : i # k /\ Exists(i) /\ Exists(k) => ip[i].address # ip[k].address
  /\ vip \in [Id \X Port -> Vip \cup {None}]
  /\ \A x \in Vips : Exists(x[1])
  /\ clusters \in [Cluster -> Nat]
  /\ task \in [Delivery -> Task] /\ form \in [Form -> Request]
  /\ late \subseteq Id \X Port /\ litter \subseteq Id

Init ==
  /\ ip = FirstRows /\ created = Cardinality({i \in Id : FirstRows[i] # None})
  /\ vip = [x \in Id \X Port |-> None]
  /\ clusters \in [Cluster -> {0, 1}]
  /\ task = [d \in Delivery |-> NewTask] /\ form = [u \in Form |-> NewForm]
  /\ late = {} /\ litter = {i \in Id : FirstRows[i] # None}

-----------------------------------------------------------------------------
(* What is read *)

RowOf(a) == LET ids == {i \in Id : Exists(i) /\ ip[i].address = a}
            IN IF ids = {} THEN None ELSE CHOOSE i \in ids : TRUE

get_vip(i, p) == IF i = None THEN None ELSE vip[<<i, p>>]

Exposed(i) == i # None /\ ip[i].exposed

\* Another transaction has inserted the address and not committed: one waits for it.
Inserting(a) ==
  \E d \in Delivery :
    task[d].pc = "create" /\ task[d].id = None /\ task[d].event.address = a

\* get_or_create of the cluster raises when there are several of the name.
Ambiguous(c) == clusters[c] > 1

-----------------------------------------------------------------------------
(* Events *)

Receive(d, kind, e) == task[d].pc = "new" /\ e \in Event /\ e.kind = kind

\* The VIP, or the Ethernet of its address, belongs to something else than the cluster.
Moves(e, i) == /\ get_vip(i, e.port) # None
               /\ \/ get_vip(i, e.port).parent # e.cluster
                  \/ ip[i].owner \notin {None, e.cluster}

Continue(d, pc, e, i) ==
  task' = [task EXCEPT ![d] = [NewTask EXCEPT !.pc = pc, !.event = e, !.id = i,
             !.read = get_vip(i, e.port), !.exposed = Exposed(i),
             !.newCluster = clusters[e.cluster] = 0, !.moves = Moves(e, i)]]

\* handle_create_vip_event, also for an update of a VIP that is not there.
BeginCreate(d, e, i) ==
  /\ ~ Inserting(e.address)
  /\ IF Ambiguous(e.cluster) THEN task' = [task EXCEPT ![d] = Handled]
     ELSE Continue(d, "create", e, i)

ReceiveCreate(d, e) ==
  /\ Receive(d, "create", e)
  /\ LET i == RowOf(e.address)
     IN IF get_vip(i, e.port) # None THEN task' = [task EXCEPT ![d] = Handled]
        ELSE BeginCreate(d, e, i)
  /\ UNCHANGED <<ip, created, vip, clusters, form, late, litter>>

ReceiveUpdate(d, e) ==
  /\ Receive(d, "update", e)
  /\ LET i == RowOf(e.address)
     IN IF Exposed(i) THEN task' = [task EXCEPT ![d] = Handled]
        ELSE IF get_vip(i, e.port) = None THEN BeginCreate(d, e, i)
        ELSE IF Ambiguous(e.cluster) THEN task' = [task EXCEPT ![d] = Handled]
        ELSE Continue(d, "update", e, i)
  /\ UNCHANGED <<ip, created, vip, clusters, form, late, litter>>

ReceiveDelete(d, e) ==
  /\ Receive(d, "delete", e)
  /\ LET i == RowOf(e.address)
     IN IF get_vip(i, e.port) = None THEN task' = [task EXCEPT ![d] = Handled]
        ELSE Continue(d, "delete", e, i)
  /\ UNCHANGED <<ip, created, vip, clusters, form, late, litter>>

\* The transaction ends without an effect: the request died, or the database refused it.
RollBack(d) ==
  /\ task[d].pc \notin {"new", "done"}
  /\ task' = [task EXCEPT ![d] = Handled]
  /\ UNCHANGED <<ip, created, vip, clusters, form, late, litter>>

CommitCluster(d) ==
  clusters' = [clusters EXCEPT ![task[d].event.cluster] =
                 IF task[d].newCluster THEN @ + 1 ELSE @]

\* The VIPs that a delete has not seen.
Deleting(i) == \E d \in Delivery : task[d].pc = "deleting" /\ task[d].id = i
SeenLate(i, p) == late' = IF Deleting(i) THEN late \cup {<<i, p>>} ELSE late \ {<<i, p>>}

\* An address that is exposed stays as it is, but not the cluster.
RefuseCreate(d) ==
  /\ task[d].pc = "create" /\ task[d].exposed
  /\ CommitCluster(d)
  /\ task' = [task EXCEPT ![d] = Handled]
  /\ UNCHANGED <<ip, created, vip, form, late, litter>>

\* A new address belongs to the cluster; one that an update has made to nobody.
CommitCreate(d) ==
  LET e == task[d].event
      new == task[d].id = None
      i == IF new THEN created + 1 ELSE task[d].id
  IN /\ task[d].pc = "create" /\ i \in Id
     /\ IF new
        THEN /\ created' = i
             /\ ip' = [ip EXCEPT ![i] =
                  [address |-> e.address, exposed |-> FALSE, management |-> FALSE,
                   owner |-> IF e.kind = "create" THEN e.cluster ELSE None]]
        ELSE ~ task[d].exposed /\ UNCHANGED <<created, ip>>
     /\ IF e.env = None
        THEN /\ litter' = IF new THEN litter \cup {i} ELSE litter
             /\ UNCHANGED <<vip, late>>
        ELSE /\ ip'[i] # None /\ vip[<<i, e.port>>] = None
             /\ vip' = [vip EXCEPT ![<<i, e.port>>] =
                          [parent |-> e.cluster, env |-> e.env, made |-> d]]
             /\ SeenLate(i, e.port) /\ UNCHANGED litter
     /\ CommitCluster(d)
     /\ task' = [task EXCEPT ![d] = Handled]
     /\ UNCHANGED form

\* migrate_vip_to_cluster: only from a cluster.
Migrates(i) == Exists(i) /\ ip[i].owner \in Cluster

\* What the row of the VIP is after vip.save(): all of it is written, as it was read.
SavedVip(d) == [task[d].read EXCEPT !.env = task[d].event.env]

\* If one was to be moved, every VIP of the address is, with its Ethernet; then the one of the event is
\* saved, if its environment has changed.
CommitUpdate(d) ==
  LET e == task[d].event
      i == task[d].id
      x == <<i, e.port>>
      moved == {y \in Vips : task[d].moves /\ y[1] = i /\ Migrates(i)}
      saves == e.env \notin {None, task[d].read.env}
  IN /\ task[d].pc = "update" /\ ~ Deleting(i)
     /\ saves => Exists(i) /\ \A row \in {vip[x]} \ {None} : row.made = task[d].read.made
     /\ ip' = IF moved = {} THEN ip ELSE [ip EXCEPT ![i].owner = e.cluster]
     /\ vip' = [y \in Id \X Port |->
                  IF saves /\ y = x THEN SavedVip(d)
                  ELSE IF y \in moved THEN [vip[y] EXCEPT !.parent = e.cluster] ELSE vip[y]]
     /\ CommitCluster(d)
     /\ task' = [task EXCEPT ![d] = Handled]
     /\ UNCHANGED <<created, form, late, litter>>

\* Mutant: the VIP itself counts.
UsedByAny(i, p) == \E x \in Vips : x[1] = i

\* Mutant: other VIPs do not count.
UsedByNone(i, p) == FALSE

\* The address is still used by other VIPs.
Used(i, p) == Others(i, p) # {}

\* vip.delete() locks the row; what other transactions have not committed is not seen.
DeleteVip(d) ==
  LET i == task[d].id
      p == task[d].event.port
  IN /\ task[d].pc = "delete"
     /\ \A f \in Delivery : task[f].pc = "deleting" /\ task[f].id = i => task[f].event.port # p
     /\ task' = [task EXCEPT ![d].pc = "deleting", ![d].last = ~ Used(i, p)]
     /\ litter' = IF Deleting(i) THEN litter \cup {i} ELSE litter
     /\ UNCHANGED <<ip, created, vip, clusters, form, late>>

\* Mutant: the VIPs do not go with their address.
KeepsVips(S) == vip

WithoutRows(S) == [x \in Id \X Port |-> IF x[1] \in S THEN None ELSE vip[x]]

\* With the last VIP its address goes, and whatever refers to it.
CommitDelete(d) ==
  LET i == task[d].id
      x == <<i, task[d].event.port>>
      own == IF vip[x] # None /\ vip[x].made = task[d].read.made THEN {x} ELSE {}
  IN /\ task[d].pc = "deleting"
     /\ IF task[d].last
        THEN ip' = [ip EXCEPT ![i] = None] /\ vip' = WithoutRows({i})
        ELSE vip' = [y \in Id \X Port |-> IF y \in own THEN None ELSE vip[y]] /\ UNCHANGED ip
     /\ task' = [task EXCEPT ![d] = Handled]
     /\ UNCHANGED <<created, clusters, form, late, litter>>

-----------------------------------------------------------------------------
(* Users *)

UserDeletesVip(u) ==
  /\ form[u].pc = "new"
  /\ \E x \in Vips :
       /\ \A d \in Delivery :
            task[d].pc = "deleting" => <<task[d].id, task[d].event.port>> # x
       /\ vip' = [vip EXCEPT ![x] = None] /\ litter' = litter \cup {x[1]}
  /\ form' = [form EXCEPT ![u] = Answered]
  /\ UNCHANGED <<ip, created, clusters, task, late>>

\* Only an Ethernet of an asset has a MAC address here.
UserExposes(u) ==
  /\ form[u].pc = "new"
  /\ \E i \in Id : /\ Exists(i) /\ ip[i].owner \in Asset
                   /\ ip' = [ip EXCEPT ![i].exposed = TRUE]
  /\ form' = [form EXCEPT ![u] = Answered]
  /\ UNCHANGED <<created, vip, clusters, task, late, litter>>

\* IPAddressViewSet.destroy
UserDeletesAddress(u) ==
  /\ form[u].pc = "new"
  /\ \E i \in Id : /\ Exists(i) /\ ~ ip[i].exposed
                   /\ ip' = [ip EXCEPT ![i] = None] /\ vip' = WithoutRows({i})
  /\ form' = [form EXCEPT ![u] = Answered]
  /\ UNCHANGED <<created, clusters, task, late, litter>>

_get_management_ip(h) == {i \in Id : Exists(i) /\ ip[i].owner = h /\ ip[i].management}

\* DataCenterAssetForm: the address that is typed belongs to nobody else.
ReadManagement(u) ==
  /\ form[u].pc = "new"
  /\ \E h \in Asset, a \in Address \cup {None} :
       LET i == IF a = None THEN None ELSE RowOf(a)
       IN /\ i # None => ip[i].owner \in {h, None}
          /\ \E old \in IF _get_management_ip(h) = {} THEN {None} ELSE _get_management_ip(h) :
               form' = [form EXCEPT ![u] =
                 [pc |-> "save", asset |-> h, value |-> a, old |-> old, id |-> i,
                  row |-> IF i = None THEN None ELSE ip[i]]]
  /\ UNCHANGED <<ip, created, vip, clusters, task, late, litter>>

\* The old management address is deleted, unless it stays; the row of the new one is
\* saved as it was read, or made.
SaveManagement(u) ==
  LET f == form[u]
      gone == {f.old} \ {None, f.id}
      new == f.value # None /\ f.id = None
      i == IF new THEN created + 1 ELSE f.id
      row == IF new THEN [address |-> f.value, owner |-> f.asset, exposed |-> FALSE,
                          management |-> TRUE]
             ELSE [f.row EXCEPT !.owner = f.asset, !.management = TRUE]
      without == [k \in Id |-> IF k \in gone THEN None ELSE ip[k]]
  IN /\ f.pc = "save" /\ i \in Id \cup {None}
     /\ IF f.value = None THEN ip' = without
        ELSE /\ ~ Inserting(f.value)
             /\ \A k \in Id \ {i} : without[k] # None => without[k].address # f.value
             /\ ip' = [without EXCEPT ![i] = row]
     /\ created' = IF new THEN i ELSE created
     /\ vip' = WithoutRows(gone)
     /\ litter' = litter \cup ({i} \ {None})
     /\ form' = [form EXCEPT ![u] = Answered]
     /\ UNCHANGED <<clusters, task, late>>

RejectForm(u) ==
  /\ form[u].pc = "save" /\ form' = [form EXCEPT ![u] = Answered]
  /\ UNCHANGED <<ip, created, vip, clusters, task, late, litter>>

DeliveryStep(d) ==
  \/ \E e \in Event : ReceiveCreate(d, e) \/ ReceiveUpdate(d, e) \/ ReceiveDelete(d, e)
  \/ RefuseCreate(d) \/ CommitCreate(d) \/ CommitUpdate(d) \/ DeleteVip(d) \/ CommitDelete(d)
  \/ RollBack(d)

FormStep(u) ==
  \/ UserDeletesVip(u) \/ UserExposes(u) \/ UserDeletesAddress(u)
  \/ ReadManagement(u) \/ SaveManagement(u) \/ RejectForm(u)

Next == (\E d \in Delivery : DeliveryStep(d)) \/ (\E u \in Form : FormStep(u))

Spec == Init /\ [][Next]_vars

-----------------------------------------------------------------------------
(* Properties *)

Asked(x) ==
  \E d \in Delivery : /\ task[d].pc = "deleting" /\ task'[d].pc = "done"
                      /\ x = <<task[d].id, task[d].event.port>>

\* Handling an event takes a VIP away only if the event is about its deletion, or if it
\* was made while a delete of what was then the last VIP of its address was under way.
\* (handle_delete_vip_event)
VipsStay ==
  [][form' = form => \A x \in Vips : vip'[x] = None => Asked(x) \/ x \in late]_vars

\* An address that events have made does not outlive its VIPs; unless it was made for a
\* service nobody knows, the last VIPs were deleted side by side, or a user had a hand in
\* it.  (handle_create_vip_event, handle_delete_vip_event)
NoLitter ==
  \A i \in Id \ litter : Exists(i) => \E x \in Vips : x[1] = i

\* "update cluster": when an event has moved the Ethernet to the cluster it names, it has
\* moved the VIP as well.  (handle_update_vip_event)
UpdatesMoveVips ==
  [][\A d \in Delivery :
       /\ task[d].pc = "update" /\ task'[d].pc = "done" /\ vip' # vip /\ Migrates(task[d].id)
       => LET e == task[d].event IN vip'[<<task[d].id, e.port>>].parent = e.cluster]_vars
=============================================================================
