------------------------------- MODULE CloudSync -------------------------------
(***************************************************************************)
(* The mirror of OpenStack in Ralph: the openstack_sync command            *)
(* (ralph.virtual.management.commands.openstack_sync) with its client      *)
(* (ralph.lib.openstack.client) and the rows it keeps                      *)
(* (ralph.virtual.models).                                                 *)
(*                                                                         *)
(* A run fetches everything from OpenStack, then everything from Ralph,    *)
(* and then changes Ralph one row at a time, without a transaction around  *)
(* it.  Cron starts it; it may be started by hand as well, also while      *)
(* another run is under way.                                               *)
(***************************************************************************)
EXTENDS Naturals, FiniteSets

CONSTANTS
  Server, Project, Flavor, Address,
  Run,          \* the runs under way at a time
  Cron,         \* those that are started again and again
  Start,        \* what there may be in the beginning
  MaxEvents,    \* how often something changes, a run dies or is started by hand
  None

Provider == {"own", "other"}
Instance == [alive : BOOLEAN, project : Project, flavor : Flavor, ips : SUBSET Address]
Host == [project : Project \cup {None}, flavor : Flavor]

ASSUME ConfigAssumption ==
  /\ Cron \subseteq Run /\ MaxEvents \in Nat
  /\ Start \subseteq [nova : [Server -> Instance \cup {None}],
                      project : [Project -> Provider \cup {None}],
                      flavor : [Flavor -> {"other", None}],
                      owner : [Address -> {None, "other", "nobody"}]]
  /\ None \notin Instance \cup Provider \cup Project \cup Server \cup Flavor \cup Host
  /\ None \notin {"other", "nobody"} /\ {"other", "nobody"} \cap Server = {}

VARIABLES
  nova,       \* OpenStack: the servers, also the deleted ones
  keystone,   \*   its projects
  catalogue,  \*   its flavors
  host,       \* Ralph: CloudHost rows
  project,    \*   CloudProject rows: the provider they belong to
  flavor,     \*   CloudFlavor rows, likewise
  owner,      \*   IPAddress rows: a cloud host, "other" asset, or "nobody"
  run,        \* the runs
  late,       \* observer: since a run has fetched the servers, the hosts that other runs
              \*   have made or given another flavor, and the flavors and addresses that
              \*   somebody else has got
  touched,    \* observer: hosts users have made or given another project or flavor
  events

cloud == <<nova, keystone, catalogue>>
ralph == <<host, project, flavor, owner>>
vars == <<cloud, ralph, run, late, touched, events>>

Idle == [pc |-> "idle", full |-> FALSE, flavors |-> {}, projects |-> {}, servers |-> <<>>,
         known |-> {}, knownFlavors |-> {}, seen |-> <<>>, todo |-> {}, left |-> {},
         at |-> None, server |-> None, free |-> {}, spare |-> {}]

\* A run that has fetched the servers S and has seen the hosts T.
RunWith(S, T) ==
  [pc : {"idle", "fetch_projects", "fetch_servers", "snapshot", "update", "addresses", "assign",
         "delete", "delete_project", "delete_flavors", "delete_flavor"},
   full : BOOLEAN, flavors : SUBSET Flavor, projects : SUBSET Project,
   servers : [S -> Instance], known : SUBSET Project, knownFlavors : SUBSET Flavor,
   seen : [T -> [project : Project, ips : SUBSET Address]],
   todo : SUBSET (Flavor \cup Server), left : SUBSET Project,
   at : Project \cup Flavor \cup {None}, server : Server \cup {None},
   free : SUBSET Address, spare : SUBSET Address]

Alive(s) == nova[s] # None /\ nova[s].alive
Hosts == {s \in Server : host[s] # None}
Flavors == {f \in Flavor : flavor[f] # None}
AddressesOf(s) == {a \in Address : owner[a] = s}

\* Types; a host has a flavor, and an address that belongs to a host its row.
TypeOK ==
  /\ nova \in [Server -> Instance \cup {None}]
  /\ keystone \subseteq Project /\ catalogue \subseteq Flavor
  /\ host \in [Server -> Host \cup {None}]
  /\ project \in [Project -> Provider \cup {None}] /\ flavor \in [Flavor -> Provider \cup {None}]
  /\ \A s \in Hosts : /\ host[s].flavor \in Flavors
                      /\ host[s].project # None => project[host[s].project] # None
  /\ owner \in [Address -> Server \cup {None, "other", "nobody"}]
  /\ \A a \in Address : owner[a] \in Server => owner[a] \in Hosts
  /\ run = [r \in Run |-> run[r]]
  /\ \A r \in Run : \E S, T \in SUBSET Server : run[r] \in RunWith(S, T)
  /\ late \in [Run -> SUBSET (Server \cup Flavor \cup Address)]
  /\ touched \subseteq Server /\ events \in Nat

Init ==
  /\ \E x \in Start :
       nova = x.nova /\ project = x.project /\ flavor = x.flavor /\ owner = x.owner
  /\ keystone = {nova[s].project : s \in {t \in Server : nova[t] # None}}
  /\ catalogue = {nova[s].flavor : s \in {t \in Server : nova[t] # None}}
  /\ host = [s \in Server |-> None]
  /\ run = [r \in Run |-> Idle] /\ late = [r \in Run |-> {}] /\ touched = {}
  /\ events = 0

-----------------------------------------------------------------------------
(* Effects on the rows *)

\* Mutant: the addresses stay.
HostsOnly(S) ==
  host' = [s \in Server |-> IF s \in S THEN None ELSE host[s]] /\ UNCHANGED owner

\* A host goes with its Ethernets and their addresses.
WithoutHosts(S) ==
  /\ host' = [s \in Server |-> IF s \in S THEN None ELSE host[s]]
  /\ owner' = [a \in Address |-> IF owner[a] \in S THEN None ELSE owner[a]]

\* parent is SET_NULL
WithoutProject(p) ==
  /\ project' = [project EXCEPT ![p] = None]
  /\ host' = [s \in Server |-> IF s \in Hosts /\ host[s].project = p
                               THEN [host[s] EXCEPT !.project = None] ELSE host[s]]

\* cloudflavor is CASCADE
WithoutFlavor(f) ==
  /\ flavor' = [flavor EXCEPT ![f] = None]
  /\ WithoutHosts({s \in Hosts : host[s].flavor = f})

\* The ip_addresses setter of CloudHost: the host gets what was free, others keep theirs,
\* and what is not listed any more is deleted.
Assigned(s, ips, free) ==
  [a \in Address |-> IF a \in free THEN s
                     ELSE IF owner[a] = s /\ a \notin ips THEN None ELSE owner[a]]

Others(r) == Run \ {r}
ChangedBy(r, s) ==
  late' = [q \in Run |-> IF q \in Others(r) THEN late[q] \cup {s} ELSE late[q]]
LostToOthers(x) == late' = [q \in Run |-> late[q] \cup {x}]

-----------------------------------------------------------------------------
(* Fetching *)

Step(r, x) == run' = [run EXCEPT ![r] = x]
Aborted(r) == Step(r, Idle)

Begin(r, full) ==
  /\ run[r].pc = "idle" /\ catalogue # {}
  /\ Step(r, [Idle EXCEPT !.pc = "fetch_projects", !.full = full, !.flavors = catalogue])
  /\ UNCHANGED <<cloud, ralph, late, touched>>

Event == events < MaxEvents /\ events' = events + 1

Scheduled(r, full) == r \in Cron /\ Begin(r, full) /\ UNCHANGED events
StartedByHand(r, full) == r \notin Cron /\ Begin(r, full) /\ Event

get_openstack_projects(r) ==
  /\ run[r].pc = "fetch_projects"
  /\ Step(r, [run[r] EXCEPT !.pc = "fetch_servers", !.projects = keystone])
  /\ UNCHANGED <<cloud, ralph, late, touched, events>>

\* Mutant: an empty list is believed.
EmptyListBelieved(full, S) == FALSE

EmptyListError(full, S) == full /\ S = {}

\* A server of a project that was not listed is left out; a flavor that was not listed
\* is added.
WithInstances(r, S) ==
  [run[r] EXCEPT
     !.pc = "snapshot",
     !.servers = [s \in {t \in S : nova[t].project \in run[r].projects} |-> nova[s]],
     !.flavors = @ \cup {nova[s].flavor : s \in S}]

\* All servers that are alive, or those that have changed lately, also the deleted ones.
\* OpenStack may fail to list any.
get_openstack_instances_data(r) ==
  /\ run[r].pc = "fetch_servers"
  /\ \E S \in SUBSET {s \in Server : nova[s] # None} :
       /\ \/ (run[r].full => S = {s \in Server : Alive(s)}) /\ UNCHANGED events
          \/ run[r].full /\ S = {} /\ Event
       /\ IF EmptyListError(run[r].full, S) THEN Aborted(r) ELSE Step(r, WithInstances(r, S))
  /\ late' = [late EXCEPT ![r] = {}]
  /\ UNCHANGED <<cloud, ralph, touched>>

\* Mutant: the flavors of all providers.
AllFlavors == Flavors

OwnFlavors == {f \in Flavor : flavor[f] = "own"}

\* get_ralph_projects, get_ralph_flavors and get_ralph_servers_data.  A host without
\* a project raises.
get_ralph_servers_data(r) ==
  /\ run[r].pc = "snapshot"
  /\ IF \E s \in Hosts : host[s].project = None THEN Aborted(r)
     ELSE Step(r, [run[r] EXCEPT
            !.pc = "update", !.todo = run[r].flavors, !.left = run[r].projects,
            !.known = {p \in Project : project[p] = "own"} \cup {host[s].project : s \in Hosts},
            !.knownFlavors = OwnFlavors,
            !.seen = [s \in Hosts |-> [project |-> host[s].project, ips |-> AddressesOf(s)]]])
  /\ UNCHANGED <<cloud, ralph, late, touched, events>>

-----------------------------------------------------------------------------
(* perform_update: all flavors, then each project with its servers *)

\* flavor_id is unique, whatever the provider: one that another provider has raises.
_add_or_modify_flavours(r) ==
  /\ run[r].pc = "update" /\ run[r].at = None
  /\ \E f \in run[r].todo \cap Flavor :
       LET new == f \notin run[r].knownFlavors
       IN IF new = (f \in Flavors) THEN Aborted(r) /\ UNCHANGED flavor
          ELSE /\ flavor' = [flavor EXCEPT ![f] = IF new THEN "own" ELSE @]
               /\ Step(r, [run[r] EXCEPT !.todo = @ \ {f}])
  /\ UNCHANGED <<cloud, host, project, owner, late, touched, events>>

ServersOf(r, p) == {s \in DOMAIN run[r].servers : run[r].servers[s].project = p}

\* Mutant: a duplicate raises as well.
DuplicateRaises(r, p) == (p \in run[r].known) = (project[p] = None)

ProjectRaises(r, p) == p \in run[r].known /\ project[p] = None

\* project_id is unique, whatever the provider: the row there is is taken.
_add_or_update_projects(r) ==
  /\ run[r].pc = "update" /\ run[r].todo = {}
  /\ \E p \in run[r].left :
       IF ProjectRaises(r, p) THEN Aborted(r) /\ UNCHANGED project
       ELSE /\ project' = [project EXCEPT ![p] = IF @ = None THEN "own" ELSE @]
            /\ Step(r, [run[r] EXCEPT !.at = p, !.left = @ \ {p},
                 !.todo = {s \in ServersOf(r, p) : run[r].servers[s].alive}])
  /\ UNCHANGED <<cloud, host, flavor, owner, late, touched, events>>

\* The snapshot has the server in this project.
Seen(r, s) == s \in DOMAIN run[r].seen /\ run[r].seen[s].project = run[r].at

\* With its addresses, which are assigned in another transaction.
AddressesNext(r, s) ==
  Step(r, [run[r] EXCEPT !.pc = "addresses", !.server = s, !.todo = @ \ {s}])
Skip(r, s) == Step(r, [run[r] EXCEPT !.todo = @ \ {s}])

WorksOn(r, s) == run[r].pc = "update" /\ run[r].at # None /\ s \in run[r].todo

\* The flavor was deleted since: before all flavors were looked up, or after it.
FlavorGone(r, s) == Skip(r, s) \/ Aborted(r)

\* host_id is unique.
_add_server(r, s) ==
  LET f == run[r].servers[s].flavor
  IN /\ WorksOn(r, s) /\ ~ Seen(r, s)
     /\ IF project[run[r].at] = None THEN Skip(r, s) /\ UNCHANGED <<host, late>>
        ELSE IF f \notin Flavors THEN FlavorGone(r, s) /\ UNCHANGED <<host, late>>
        ELSE IF host[s] # None THEN Aborted(r) /\ UNCHANGED <<host, late>>
        ELSE /\ host' = [host EXCEPT ![s] = [project |-> run[r].at, flavor |-> f]]
             /\ ChangedBy(r, s) /\ AddressesNext(r, s)
     /\ UNCHANGED <<cloud, project, flavor, owner, touched, events>>

\* Addresses are compared with those of the snapshot.
_update_server(r, s) ==
  LET new == run[r].servers[s]
  IN /\ WorksOn(r, s) /\ Seen(r, s)
     /\ IF host[s] = None THEN Aborted(r) /\ UNCHANGED <<host, late>>
        ELSE IF new.flavor \notin Flavors THEN FlavorGone(r, s) /\ UNCHANGED <<host, late>>
        ELSE /\ host' = [host EXCEPT ![s].flavor = new.flavor]
             /\ IF new.flavor = host[s].flavor THEN UNCHANGED late ELSE ChangedBy(r, s)
             /\ IF new.ips # run[r].seen[s].ips THEN AddressesNext(r, s) ELSE Skip(r, s)
     /\ UNCHANGED <<cloud, project, flavor, owner, touched, events>>

\* The addresses nobody has, those without a row and those with one.
FindAddresses(r) ==
  LET new == run[r].servers[run[r].server].ips
  IN /\ run[r].pc = "addresses"
     /\ Step(r, [run[r] EXCEPT !.pc = "assign", !.free = {a \in new : owner[a] = None},
                               !.spare = {a \in new : owner[a] = "nobody"}])
     /\ UNCHANGED <<cloud, ralph, late, touched, events>>

\* If the host is gone an Ethernet cannot be made, a row that others have made cannot
\* be made again; one that was there is saved, whoever has it by now.
AssignAddresses(r) ==
  LET s == run[r].server
      free == run[r].free \cup run[r].spare
  IN /\ run[r].pc = "assign"
     /\ IF (host[s] = None /\ free # {}) \/ (\E a \in run[r].free : owner[a] # None)
        THEN Aborted(r) /\ UNCHANGED owner
        ELSE /\ owner' = Assigned(s, run[r].servers[s].ips, free)
             /\ Step(r, [run[r] EXCEPT !.pc = "update", !.server = None,
                                       !.free = {}, !.spare = {}])
     /\ UNCHANGED <<cloud, host, project, flavor, late, touched, events>>

-----------------------------------------------------------------------------
(* perform_delete: servers, projects without children, flavors without hosts *)

\* What the snapshot has in a project OpenStack has listed, and OpenStack has not; or
\* what is listed as deleted.
calculate_servers_to_delete(r) ==
  IF run[r].full
  THEN {s \in DOMAIN run[r].seen : /\ run[r].seen[s].project \in run[r].projects
                                   /\ s \notin ServersOf(r, run[r].seen[s].project)}
  ELSE {s \in DOMAIN run[r].servers : ~ run[r].servers[s].alive}

BeginDeletes(r) ==
  /\ run[r].pc = "update" /\ run[r].todo = {} /\ run[r].left = {}
  /\ Step(r, [run[r] EXCEPT !.pc = "delete", !.todo = calculate_servers_to_delete(r),
                            !.left = run[r].known \ run[r].projects, !.at = None])
  /\ UNCHANGED <<cloud, ralph, late, touched, events>>

\* One that is not there ends the loop over them.
_delete_servers(r) ==
  /\ run[r].pc = "delete"
  /\ \E s \in run[r].todo :
       /\ WithoutHosts({s} \cap Hosts)
       /\ Step(r, [run[r] EXCEPT !.todo = IF s \in Hosts THEN @ \ {s} ELSE {}])
  /\ UNCHANGED <<cloud, project, flavor, late, touched, events>>

\* A project of another provider raises.
OwnProject(p) == project[p] = "own"

CountChildren(r) ==
  /\ run[r].pc = "delete" /\ run[r].todo = {}
  /\ \E p \in run[r].left :
       IF ~ OwnProject(p) THEN Aborted(r)
       ELSE IF \E s \in Hosts : host[s].project = p
       THEN Step(r, [run[r] EXCEPT !.left = @ \ {p}])
       ELSE Step(r, [run[r] EXCEPT !.left = @ \ {p}, !.pc = "delete_project", !.at = p])
  /\ UNCHANGED <<cloud, ralph, late, touched, events>>

DeleteProject(r) ==
  /\ run[r].pc = "delete_project"
  /\ WithoutProject(run[r].at)
  /\ Step(r, [run[r] EXCEPT !.pc = "delete", !.at = None])
  /\ UNCHANGED <<cloud, flavor, owner, late, touched, events>>

BeginFlavors(r) ==
  /\ run[r].pc = "delete" /\ run[r].todo = {} /\ run[r].left = {}
  /\ Step(r, LET gone == run[r].knownFlavors \ run[r].flavors
             IN IF gone = {} THEN Idle
                ELSE [run[r] EXCEPT !.pc = "delete_flavors", !.todo = gone])
  /\ UNCHANGED <<cloud, ralph, late, touched, events>>

FlavorDone(r, f) ==
  IF run[r].todo = {f} THEN Idle
  ELSE [run[r] EXCEPT !.pc = "delete_flavors", !.todo = @ \ {f}, !.at = None]

CountHosts(r) ==
  /\ run[r].pc = "delete_flavors"
  /\ \E f \in run[r].todo :
       IF f \notin Flavors THEN Aborted(r)
       ELSE IF \E s \in Hosts : host[s].flavor = f THEN Step(r, FlavorDone(r, f))
       ELSE Step(r, [run[r] EXCEPT !.pc = "delete_flavor", !.at = f])
  /\ UNCHANGED <<cloud, ralph, late, touched, events>>

DeleteFlavor(r) ==
  /\ run[r].pc = "delete_flavor"
  /\ IF run[r].at \notin Flavors
     THEN Aborted(r) /\ UNCHANGED <<flavor, host, owner>>
     ELSE WithoutFlavor(run[r].at) /\ Step(r, FlavorDone(r, run[r].at))
  /\ UNCHANGED <<cloud, project, late, touched, events>>

\* An exception ends the run, as does a signal; nothing is rolled back.
RunDies(r) ==
  /\ run[r].pc # "idle" /\ Event /\ Aborted(r)
  /\ UNCHANGED <<cloud, ralph, late, touched>>

-----------------------------------------------------------------------------
(* OpenStack and users *)

Change == Event /\ UNCHANGED run

\* Ids of servers are never used again.
Boot(s) ==
  /\ Change /\ nova[s] = None
  /\ \E p \in keystone, f \in catalogue, S \in SUBSET Address :
       nova' = [nova EXCEPT ![s] = [alive |-> TRUE, project |-> p, flavor |-> f, ips |-> S]]
  /\ UNCHANGED <<keystone, catalogue, ralph, late, touched>>

Terminate(s) ==
  /\ Change /\ Alive(s) /\ nova' = [nova EXCEPT ![s].alive = FALSE]
  /\ UNCHANGED <<keystone, catalogue, ralph, late, touched>>

\* Resized, or given other addresses.
Modify(s) ==
  /\ Change /\ Alive(s)
  /\ \/ \E f \in catalogue : nova' = [nova EXCEPT ![s].flavor = f]
     \/ \E S \in SUBSET Address : nova' = [nova EXCEPT ![s].ips = S]
  /\ UNCHANGED <<keystone, catalogue, ralph, late, touched>>

\* A project may go before its servers, a flavor may be used by servers still.
ChangeProjects ==
  /\ Change /\ \E p \in Project : keystone' = (keystone \ {p}) \cup ({p} \ keystone)
  /\ UNCHANGED <<nova, catalogue, ralph, late, touched>>

ChangeFlavors ==
  /\ Change /\ \E f \in Flavor : catalogue' = (catalogue \ {f}) \cup ({f} \ catalogue)
  /\ UNCHANGED <<nova, keystone, ralph, late, touched>>

\* The REST API
ApiDeletesHost(s) ==
  /\ Change /\ s \in Hosts /\ WithoutHosts({s})
  /\ UNCHANGED <<cloud, project, flavor, late, touched>>

ApiDeletesProject(p) ==
  /\ Change /\ project[p] # None /\ WithoutProject(p)
  /\ UNCHANGED <<cloud, flavor, owner, late, touched>>

\* Also one that is used, with force.
ApiDeletesFlavor(f) ==
  /\ Change /\ f \in Flavors /\ WithoutFlavor(f)
  /\ UNCHANGED <<cloud, project, late, touched>>

\* A host is made or changed, with its addresses, in one transaction.
ApiSavesHost(s) ==
  /\ Change
  /\ \E p \in {None} \cup {q \in Project : project[q] # None}, f \in Flavors,
        ips \in SUBSET Address :
       LET new == [project |-> p, flavor |-> f]
       IN /\ host' = [host EXCEPT ![s] = new]
          /\ owner' = Assigned(s, ips, {a \in ips : owner[a] \in {None, "nobody"}})
          /\ touched' = IF host[s] = new THEN touched ELSE touched \cup {s}
  /\ UNCHANGED <<cloud, project, flavor, late>>

\* The address is given to another asset, a flavor is added for another provider.
UserTakesAddress(a) ==
  /\ Change /\ owner[a] \in {None, "nobody"} /\ owner' = [owner EXCEPT ![a] = "other"]
  /\ LostToOthers(a)
  /\ UNCHANGED <<cloud, host, project, flavor, touched>>

ApiAddsFlavor(f) ==
  /\ Change /\ f \notin Flavors /\ flavor' = [flavor EXCEPT ![f] = "other"]
  /\ LostToOthers(f)
  /\ UNCHANGED <<cloud, host, project, owner, touched>>

RunStep(r) ==
  \/ get_openstack_projects(r) \/ get_openstack_instances_data(r) \/ get_ralph_servers_data(r)
  \/ _add_or_modify_flavours(r) \/ _add_or_update_projects(r)
  \/ FindAddresses(r) \/ AssignAddresses(r)
  \/ \E s \in DOMAIN run[r].servers : _add_server(r, s) \/ _update_server(r, s)
  \/ BeginDeletes(r) \/ _delete_servers(r) \/ CountChildren(r) \/ DeleteProject(r)
  \/ BeginFlavors(r) \/ CountHosts(r) \/ DeleteFlavor(r)

Next ==
  \/ \E r \in Run : \/ RunStep(r) \/ RunDies(r)
                    \/ \E full \in BOOLEAN : Scheduled(r, full) \/ StartedByHand(r, full)
  \/ \E s \in Server : Boot(s) \/ Terminate(s) \/ Modify(s) \/ ApiDeletesHost(s) \/ ApiSavesHost(s)
  \/ (\E p \in Project : ApiDeletesProject(p)) \/ (\E a \in Address : UserTakesAddress(a))
  \/ (\E f \in Flavor : ApiDeletesFlavor(f) \/ ApiAddsFlavor(f))
  \/ ChangeProjects \/ ChangeFlavors

\* A run goes on, and cron starts one for everything again and again.
Fairness ==
  /\ \A r \in Run : WF_vars(RunStep(r))
  /\ \A r \in Cron : SF_vars(Scheduled(r, TRUE))

Spec == Init /\ [][Next]_vars /\ Fairness

-----------------------------------------------------------------------------
(* Properties *)

\* A run never deletes the host of a server that is alive, whatever is removed from or
\* unavailable in OpenStack; unless the host was made, or given another flavor (whose
\* deletion takes its hosts with it), by another run after it had fetched the servers,
\* or was made or given another project or flavor by a user.
\* (calculate_servers_to_delete, get_servers_list, perform_delete)
LiveServersStay ==
  [][\A r \in Run, s \in Hosts :
       run'[r] # run[r] /\ host'[s] = None /\ Alive(s) => s \in late[r] \cup touched]_vars

\* No run deletes or takes over what belongs to somebody else, also where two providers
\* have projects or flavors with the same id; unless somebody else has got the flavor or
\* the address since the run fetched the servers.
\* (get_ralph_flavors, get_ralph_servers_data, perform_delete, CloudHost.ip_addresses)
OthersKeepTheirs ==
  [][\A r \in Run : run'[r] # run[r] =>
       /\ \A p \in Project : project[p] = "other" => project'[p] = "other"
       /\ \A f \in Flavor \ late[r] : flavor[f] = "other" => flavor'[f] = "other"
       /\ \A a \in Address \ late[r] : owner[a] = "other" => owner'[a] = "other"]_vars

\* What keeps every run from ending: a host without a project, a server that Ralph has
\* in another project, a foreign project that OpenStack does not list, and a foreign flavor
\* that OpenStack has as well.
Lost == \E s \in Hosts : host[s].project = None
Misplaced(s) == Alive(s) /\ nova[s].project \in keystone /\ s \in Hosts
                /\ host[s].project # nova[s].project
Foreign == \E s \in Hosts : host[s].project \notin keystone /\ project[host[s].project] = "other"
Used == catalogue \cup {nova[s].flavor : s \in {t \in Server : Alive(t)}}
Taken == \E f \in Used : flavor[f] = "other"

\* OpenStack lists nothing, which is an error.
Empty == catalogue = {} \/ ~ \E s \in Server : Alive(s)

\* Servers of projects that are not listed are neither added nor deleted.
Listed == {s \in Server : Alive(s) /\ nova[s].project \in keystone}
Kept == {s \in Hosts : host[s].project \notin keystone}

AddressesMatch(s) ==
  /\ AddressesOf(s) \subseteq nova[s].ips
  /\ \A a \in nova[s].ips : owner[a] # s => owner[a] \in (Hosts \ {s}) \cup {"other"}

InSync ==
  /\ Listed \subseteq Hosts /\ Hosts \subseteq Listed \cup Kept
  /\ \A s \in Listed : host[s].flavor = nova[s].flavor /\ AddressesMatch(s)
  /\ \A p \in keystone : project[p] # None
  /\ \/ Foreign
     \/ /\ \A p \in Project \ keystone :
             project[p] = "own" => \E s \in Kept : host[s].project = p
        /\ \A f \in OwnFlavors \ catalogue :
             \E s \in Server : \/ Alive(s) /\ nova[s].flavor = f
                               \/ s \in Hosts /\ host[s].flavor = f

\* When OpenStack stops to change, Ralph gets to agree with it, also after runs that died,
\* incremental ones and two at a time; unless every run fails.  ("Following executions
\* will add and modify data as well as delete all the objects which no longer exists")
Converges == <>[](Lost \/ Empty \/ Taken \/ (\E s \in Server : Misplaced(s)) \/ InSync)
=============================================================================
