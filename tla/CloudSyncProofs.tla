---------------------------- MODULE CloudSyncProofs ----------------------------
(***************************************************************************)
(* Proofs about CloudSync for any servers, projects, flavors and           *)
(* addresses, any number of runs side by side and of changes.              *)
(***************************************************************************)
EXTENDS CloudSync, TLAPS

-----------------------------------------------------------------------------
(* The inductive invariant *)

\* What a run has to do is what its stage is about.
StageIsRight(r) ==
  /\ run[r].pc \in {"fetch_projects", "fetch_servers", "snapshot"} => run[r].at = None
  /\ run[r].pc \in {"fetch_projects", "fetch_servers"} =>
       run[r].knownFlavors = {} /\ run[r].spare = {}
  /\ run[r].pc = "update" /\ run[r].at = None => run[r].todo \subseteq Flavor
  /\ run[r].pc \in {"update", "addresses", "assign"} /\ run[r].at # None =>
       run[r].at \in Project /\ run[r].todo \subseteq ServersOf(r, run[r].at)
  /\ run[r].pc \in {"addresses", "assign"} =>
       run[r].server \in DOMAIN run[r].servers /\ run[r].at # None
  /\ run[r].pc = "delete" => run[r].todo \subseteq Server
  /\ run[r].pc = "delete_project" =>
       run[r].at \in Project /\ project[run[r].at] # "other" /\ run[r].todo = {}
  /\ run[r].pc \in {"delete_flavors", "delete_flavor"} => run[r].todo \subseteq run[r].knownFlavors
  /\ run[r].pc = "delete_flavor" => run[r].at \in run[r].knownFlavors

\* Hosts are of servers there are or were, in the project of the server unless users have
\* touched them, ...
HostsAreRight ==
  \A s \in Hosts : \/ s \in touched
                   \/ nova[s] # None /\ host[s].project \in {None, nova[s].project}

\* ... which is what a run has fetched or seen of them.
CopiesAreRight(r) ==
  /\ \A s \in DOMAIN run[r].servers :
       /\ nova[s] # None /\ run[r].servers[s].project = nova[s].project
       /\ Alive(s) => run[r].servers[s].alive
  /\ \A s \in DOMAIN run[r].seen :
       s \in touched \/ (nova[s] # None /\ run[r].seen[s].project = nova[s].project)

Fetched(r) == run[r].pc \notin {"idle", "fetch_projects", "fetch_servers"}

\* A live server of a listed project that a full run has not fetched was booted later, and so
\* was its host made, unless users have made it.
MissedAreLate(r) ==
  Fetched(r) /\ run[r].full =>
    \A s \in Hosts \cup DOMAIN run[r].seen :
      Alive(s) /\ nova[s].project \in run[r].projects /\ s \notin DOMAIN run[r].servers =>
        s \in late[r] \cup touched

\* What is about to be deleted is dead, late or touched; a flavor has got its hosts so.
DeletesAreRight(r) ==
  /\ run[r].pc = "delete" =>
       \A s \in run[r].todo : \/ s \in late[r] \cup touched
                              \/ nova[s] # None /\ ~ Alive(s)
  /\ run[r].pc = "delete_flavor" =>
       \A s \in Hosts : host[s].flavor = run[r].at => s \in late[r] \cup touched

\* The flavors and addresses a run takes for its own or nobody's are, unless late.
NothingTaken(r) ==
  /\ \A f \in run[r].knownFlavors : flavor[f] # "other" \/ f \in late[r]
  /\ \A a \in run[r].spare : owner[a] # "other" \/ a \in late[r]

RunIsRight(r) ==
  /\ StageIsRight(r) /\ CopiesAreRight(r) /\ MissedAreLate(r) /\ DeletesAreRight(r)
  /\ NothingTaken(r)

IInv == TypeOK /\ HostsAreRight /\ \A r \in Run : RunIsRight(r)

-----------------------------------------------------------------------------
(* Types *)

\* The parts of TypeOK: the rows with what they refer to, the runs, and the rest.
RowsTyped ==
  /\ nova \in [Server -> Instance \cup {None}]
  /\ keystone \subseteq Project /\ catalogue \subseteq Flavor
  /\ host \in [Server -> Host \cup {None}]
  /\ project \in [Project -> Provider \cup {None}] /\ flavor \in [Flavor -> Provider \cup {None}]
  /\ \A s \in Hosts : /\ host[s].flavor \in Flavors
                      /\ host[s].project # None => project[host[s].project] # None
  /\ owner \in [Address -> Server \cup {None, "other", "nobody"}]
  /\ \A a \in Address : owner[a] \in Server => owner[a] \in Hosts

RunsTyped ==
  /\ run = [r \in Run |-> run[r]]
  /\ \A r \in Run : \E S, T \in SUBSET Server : run[r] \in RunWith(S, T)

Observed == Server \cup Flavor \cup Address

RestTyped == late \in [Run -> SUBSET Observed] /\ touched \subseteq Server /\ events \in Nat

LEMMA TypeParts == TypeOK <=> RowsTyped /\ RunsTyped /\ RestTyped
  BY DEF TypeOK, RowsTyped, RunsTyped, RestTyped, Observed

LEMMA RunFields ==
  ASSUME NEW S, NEW T, NEW x \in RunWith(S, T)
  PROVE  /\ x.pc \in {"idle", "fetch_projects", "fetch_servers", "snapshot", "update", "addresses",
                      "assign", "delete", "delete_project", "delete_flavors", "delete_flavor"}
         /\ x.full \in BOOLEAN /\ x.flavors \in SUBSET Flavor /\ x.projects \in SUBSET Project
         /\ x.servers \in [S -> Instance] /\ x.known \in SUBSET Project
         /\ x.knownFlavors \in SUBSET Flavor
         /\ x.seen \in [T -> [project : Project, ips : SUBSET Address]]
         /\ x.todo \in SUBSET (Flavor \cup Server) /\ x.left \in SUBSET Project
         /\ x.at \in Project \cup Flavor \cup {None} /\ x.server \in Server \cup {None}
         /\ x.free \in SUBSET Address /\ x.spare \in SUBSET Address
  BY DEF RunWith

\* What RunsTyped says of one run.
LEMMA RunTyped ==
  ASSUME RunsTyped, NEW r \in Run
  PROVE  /\ DOMAIN run[r].servers \in SUBSET Server /\ DOMAIN run[r].seen \in SUBSET Server
         /\ run[r] \in RunWith(DOMAIN run[r].servers, DOMAIN run[r].seen)
<1>1. PICK S, T \in SUBSET Server : run[r] \in RunWith(S, T)
  BY DEF RunsTyped
<1>2. /\ run[r].servers \in [S -> Instance]
      /\ run[r].seen \in [T -> [project : Project, ips : SUBSET Address]]
  BY <1>1, RunFields
<1>3. DOMAIN run[r].servers = S /\ DOMAIN run[r].seen = T
  BY <1>2
<1> QED
  BY <1>1, <1>3

LEMMA KnownTyped ==
  ASSUME TypeOK, NEW r \in Run
  PROVE  run[r].knownFlavors \subseteq Flavor /\ run[r].spare \subseteq Address
<1> DEFINE S == DOMAIN run[r].servers
           T == DOMAIN run[r].seen
<1>1. run[r] \in RunWith(S, T)
  BY TypeParts, RunTyped
<1> HIDE DEF S, T
<1> QED
  BY <1>1, RunFields

LEMMA StepTo ==
  ASSUME RunsTyped, NEW r \in Run, NEW S \in SUBSET Server, NEW T \in SUBSET Server,
         NEW x \in RunWith(S, T), Step(r, x)
  PROVE  /\ RunsTyped' /\ run'[r] = x /\ \A q \in Run \ {r} : run'[q] = run[q]
         /\ DOMAIN x.servers = S /\ DOMAIN x.seen = T
<1>1. run = [q \in Run |-> run[q]]
  BY DEF RunsTyped
<1>2. run' = [q \in Run |-> IF q = r THEN x ELSE run[q]]
  BY <1>1 DEF Step
<1>3. run'[r] = x /\ \A q \in Run \ {r} : run'[q] = run[q]
  BY <1>2
<1>4. run' = [q \in Run |-> run'[q]]
  BY <1>2
<1>5. \A q \in Run : \E A, B \in SUBSET Server : run'[q] \in RunWith(A, B)
  BY <1>3 DEF RunsTyped
<1>6. x.servers \in [S -> Instance] /\ x.seen \in [T -> [project : Project, ips : SUBSET Address]]
  BY RunFields
<1> QED
  BY <1>3, <1>4, <1>5, <1>6 DEF RunsTyped

LEMMA IdleIsIdle ==
  /\ Idle \in RunWith({}, {})
  /\ Idle.pc = "idle" /\ Idle.at = None /\ Idle.knownFlavors = {} /\ Idle.spare = {}
  /\ DOMAIN Idle.servers = {} /\ DOMAIN Idle.seen = {}
<1>1. Idle \in RunWith({}, {})
  BY DEF Idle, RunWith
<1>2. /\ Idle.servers \in [{} -> Instance]
      /\ Idle.seen \in [{} -> [project : Project, ips : SUBSET Address]]
  BY <1>1, RunFields
<1> QED
  BY <1>1, <1>2 DEF Idle

\* Fields of instances and hosts.
LEMMA RecordFields ==
  /\ \A i \in Instance : /\ i.alive \in BOOLEAN /\ i.project \in Project /\ i.flavor \in Flavor
                         /\ i.ips \in SUBSET Address
  /\ \A h \in Host : h.project \in Project \cup {None} /\ h.flavor \in Flavor
  BY DEF Instance, Host

-----------------------------------------------------------------------------
(* What others do to a run *)

\* Nobody else gets a flavor or an address without q being told.
Claims(q) ==
  /\ \A f \in Flavor : flavor'[f] = "other" => flavor[f] = "other" \/ f \in late'[q]
  /\ \A a \in Address : owner'[a] = "other" => owner[a] = "other" \/ a \in late'[q]

\* What a step does to the runs Q that do not take it.
Moves(Q) ==
  /\ \A s \in Server : nova[s] # None =>
       nova'[s] # None /\ nova'[s].project = nova[s].project /\ (Alive(s)' => Alive(s))
  /\ touched \subseteq touched'
  /\ \A p \in Project : project'[p] = "other" => project[p] = "other"
  /\ \A q \in Q : /\ late[q] \subseteq late'[q]
                  /\ Claims(q)
                  /\ \A s \in Hosts' : \/ s \in Hosts /\ host'[s].flavor = host[s].flavor
                                       \/ s \in late'[q] \cup touched'

LEMMA OthersStay ==
  ASSUME TypeOK, HostsAreRight, NEW q \in Run, RunIsRight(q), Moves({q}), run'[q] = run[q]
  PROVE  RunIsRight(q)'
<1>1. /\ DOMAIN run[q].servers \in SUBSET Server /\ DOMAIN run[q].seen \in SUBSET Server
      /\ RunsTyped
  BY TypeParts, RunTyped
<1>2. StageIsRight(q)'
  BY DEF RunIsRight, StageIsRight, Moves, ServersOf
<1>3. CopiesAreRight(q)'
  BY <1>1 DEF RunIsRight, CopiesAreRight, Moves
<1>4. MissedAreLate(q)'
  <2> SUFFICES ASSUME Fetched(q), run[q].full, NEW s \in Hosts' \cup DOMAIN run[q].seen,
                      Alive(s)', nova'[s].project \in run[q].projects,
                      s \notin DOMAIN run[q].servers
               PROVE  s \in late'[q] \cup touched'
    BY DEF MissedAreLate, Fetched
  <2>1. s \in Server
    BY <1>1 DEF Hosts
  <2>2. s \in Hosts \cup DOMAIN run[q].seen => nova[s] # None \/ s \in touched
    BY DEF HostsAreRight, RunIsRight, CopiesAreRight
  <2> QED
    BY <2>1, <2>2 DEF Moves, RunIsRight, MissedAreLate
<1>5. DeletesAreRight(q)'
  <2>1. ASSUME run[q].pc = "delete", NEW s \in run[q].todo
        PROVE  s \in late'[q] \cup touched' \/ (nova'[s] # None /\ ~ Alive(s)')
    <3>1. s \in Server
      BY <2>1 DEF RunIsRight, StageIsRight
    <3> QED
      BY <2>1, <3>1 DEF Moves, RunIsRight, DeletesAreRight
  <2>2. ASSUME run[q].pc = "delete_flavor", NEW s \in Hosts', host'[s].flavor = run[q].at
        PROVE  s \in late'[q] \cup touched'
    BY <2>2 DEF Moves, RunIsRight, DeletesAreRight
  <2> QED
    BY <2>1, <2>2 DEF DeletesAreRight
<1>6. NothingTaken(q)'
  BY KnownTyped DEF RunIsRight, NothingTaken, Moves, Claims
<1> QED
  BY <1>2, <1>3, <1>4, <1>5, <1>6 DEF RunIsRight

-----------------------------------------------------------------------------
(* Changes of the rows *)

\* Every step but those of users and OpenStack leaves the servers and who was touched alone.
SameCloud == UNCHANGED <<cloud, touched>>

\* The rows are as before.
LEMMA RowsStay ==
  ASSUME RowsTyped, HostsAreRight, SameCloud, UNCHANGED ralph, NEW Q \in SUBSET Run,
         \A q \in Q : late[q] \subseteq late'[q]
  PROVE  RowsTyped' /\ HostsAreRight' /\ Moves(Q)
<1> USE DEF SameCloud, cloud, ralph
<1>1. RowsTyped'
  BY DEF RowsTyped, Hosts, Flavors
<1>2. HostsAreRight'
  BY DEF HostsAreRight, Hosts
<1>3. Moves(Q)
  BY DEF Moves, Hosts, Alive, Claims
<1> QED
  BY <1>1, <1>2, <1>3

\* Hosts are deleted with their addresses.
LEMMA HostsGo ==
  ASSUME RowsTyped, HostsAreRight, SameCloud, NEW S, WithoutHosts(S),
         UNCHANGED <<project, flavor, late>>
  PROVE  RowsTyped' /\ HostsAreRight' /\ Moves(Run)
<1> USE DEF SameCloud, cloud
<1>1. Hosts' = Hosts \ S /\ \A s \in Hosts' : host'[s] = host[s]
  BY DEF WithoutHosts, Hosts
<1>2. host' \in [Server -> Host \cup {None}]
  BY DEF WithoutHosts, RowsTyped
<1>3. owner' \in [Address -> Server \cup {None, "other", "nobody"}]
  BY DEF WithoutHosts, RowsTyped
<1>4. ASSUME NEW a \in Address, owner'[a] \in Server
      PROVE  owner'[a] \in Hosts'
  <2>1. owner'[a] = IF owner[a] \in S THEN None ELSE owner[a]
    BY DEF WithoutHosts
  <2> QED
    BY <1>1, <1>4, <2>1, ConfigAssumption DEF RowsTyped
<1>5. RowsTyped'
  BY <1>1, <1>2, <1>3, <1>4 DEF RowsTyped, Flavors
<1>6. HostsAreRight'
  BY <1>1 DEF HostsAreRight
<1>7. \A q \in Run : Claims(q)
  BY ConfigAssumption DEF Claims, WithoutHosts
<1>8. Moves(Run)
  BY <1>1, <1>7 DEF Moves, Alive
<1> QED
  BY <1>5, <1>6, <1>8

\* A project is deleted; its hosts lose it.
LEMMA ProjectGoes ==
  ASSUME RowsTyped, HostsAreRight, SameCloud, NEW p \in Project, WithoutProject(p),
         UNCHANGED <<flavor, owner, late>>
  PROVE  RowsTyped' /\ HostsAreRight' /\ Moves(Run)
<1> USE DEF SameCloud, cloud
<1>1. project' \in [Project -> Provider \cup {None}]
  BY DEF WithoutProject, RowsTyped
<1>2. /\ project'[p] = None
      /\ \A x \in Project \ {p} : project'[x] = project[x]
  BY DEF WithoutProject, RowsTyped
<1>3. ASSUME NEW s \in Server
      PROVE  /\ host'[s] = None <=> host[s] = None
             /\ host'[s] \in Host \cup {None}
             /\ s \in Hosts =>
                  /\ host'[s].flavor = host[s].flavor
                  /\ host'[s].project = IF host[s].project = p THEN None ELSE host[s].project
  <2>1. host[s] \in Host \cup {None}
    BY DEF RowsTyped
  <2>2. host'[s] = IF s \in Hosts /\ host[s].project = p
                   THEN [host[s] EXCEPT !.project = None] ELSE host[s]
    BY DEF WithoutProject
  <2>3. CASE s \in Hosts /\ host[s].project = p
    <3>1. host[s] \in Host
      BY <2>1, <2>3 DEF Hosts
    <3>2. host'[s] \in Host /\ host'[s].flavor = host[s].flavor /\ host'[s].project = None
      BY <2>2, <2>3, <3>1 DEF Host
    <3> QED
      BY <2>3, <3>1, <3>2, ConfigAssumption
  <2>4. CASE ~ (s \in Hosts /\ host[s].project = p)
    BY <2>1, <2>2, <2>4
  <2> QED
    BY <2>3, <2>4
<1>4. host' = [s \in Server |-> host'[s]]
  BY DEF WithoutProject
<1>5. host' \in [Server -> Host \cup {None}]
  BY <1>3, <1>4
<1>6. Hosts' = Hosts
  BY <1>3 DEF Hosts
<1>7. ASSUME NEW s \in Hosts
      PROVE  /\ host'[s].flavor \in Flavors
             /\ host'[s].project # None => project'[host'[s].project] # None
  <2>1. s \in Server /\ host[s] \in Host
    BY DEF Hosts, RowsTyped
  <2> QED
    BY <1>2, <1>3, <2>1, RecordFields DEF RowsTyped
<1>8. RowsTyped'
  BY <1>1, <1>5, <1>6, <1>7 DEF RowsTyped, Flavors
<1>9. HostsAreRight'
  BY <1>3, <1>6 DEF HostsAreRight, Hosts
<1>10. Moves(Run)
  BY <1>2, <1>3, <1>6, ConfigAssumption DEF Moves, Alive, Hosts, Claims
<1> QED
  BY <1>8, <1>9, <1>10

\* A flavor is deleted, and its hosts with it.
LEMMA FlavorGoes ==
  ASSUME RowsTyped, HostsAreRight, SameCloud, NEW f \in Flavor, WithoutFlavor(f),
         UNCHANGED <<project, late>>
  PROVE  RowsTyped' /\ HostsAreRight' /\ Moves(Run)
<1> USE DEF SameCloud, cloud
<1> DEFINE S == {s \in Hosts : host[s].flavor = f}
<1>1. /\ WithoutHosts(S) /\ flavor' = [flavor EXCEPT ![f] = None]
      /\ flavor' \in [Flavor -> Provider \cup {None}] /\ Flavors' = Flavors \ {f}
  BY DEF WithoutFlavor, RowsTyped, Flavors
<1>2. Hosts' = Hosts \ S /\ \A s \in Hosts' : host'[s] = host[s]
  BY <1>1 DEF WithoutHosts, Hosts
<1>3. \A s \in Hosts' : host'[s].flavor \in Flavors'
  BY <1>1, <1>2 DEF RowsTyped
<1> HIDE DEF S
<1>4. host' \in [Server -> Host \cup {None}]
  BY <1>1 DEF WithoutHosts, RowsTyped
<1>5. owner' \in [Address -> Server \cup {None, "other", "nobody"}]
  BY <1>1 DEF WithoutHosts, RowsTyped
<1>6. ASSUME NEW a \in Address, owner'[a] \in Server
      PROVE  owner'[a] \in Hosts'
  <2>1. owner'[a] = IF owner[a] \in S THEN None ELSE owner[a]
    BY <1>1 DEF WithoutHosts
  <2> QED
    BY <1>2, <1>6, <2>1, ConfigAssumption DEF RowsTyped
<1>7. RowsTyped'
  BY <1>1, <1>2, <1>3, <1>4, <1>5, <1>6 DEF RowsTyped
<1>8. HostsAreRight'
  BY <1>2 DEF HostsAreRight
<1>9. \A q \in Run : Claims(q)
  BY <1>1, ConfigAssumption DEF Claims, WithoutHosts, RowsTyped
<1>10. Moves(Run)
  BY <1>2, <1>9 DEF Moves, Alive
<1> QED
  BY <1>7, <1>8, <1>10

\* The host of s is made or changed, with a flavor and the project of the server.
LEMMA HostSet ==
  ASSUME RowsTyped, HostsAreRight, SameCloud, NEW s \in Server, NEW h \in Host,
         host' = [host EXCEPT ![s] = h], UNCHANGED <<project, flavor, owner>>,
         h.flavor \in Flavors, nova[s] # None, s \in Hosts => h.project = host[s].project,
         s \notin Hosts => h.project = nova[s].project /\ project[h.project] # None,
         NEW Q \in SUBSET Run, \A q \in Q : late[q] \subseteq late'[q],
         s \notin Hosts \/ h.flavor # host[s].flavor => \A q \in Q : s \in late'[q]
  PROVE  RowsTyped' /\ HostsAreRight' /\ Moves(Q)
<1> USE DEF SameCloud, cloud
<1>1. host'[s] = h /\ h # None /\ \A x \in Server \ {s} : host'[x] = host[x]
  BY ConfigAssumption DEF RowsTyped
<1>2. Hosts' = Hosts \cup {s}
  BY <1>1 DEF Hosts
<1>3. host' \in [Server -> Host \cup {None}]
  BY DEF RowsTyped
<1>4. ASSUME NEW x \in Hosts'
      PROVE  /\ host'[x].flavor \in Flavors
             /\ host'[x].project # None => project[host'[x].project] # None
  BY <1>1, <1>2 DEF RowsTyped, Hosts
<1>5. RowsTyped'
  BY <1>2, <1>3, <1>4 DEF RowsTyped, Flavors
<1>6. HostsAreRight'
  <2> SUFFICES ASSUME NEW x \in Hosts'
               PROVE  x \in touched \/ (nova[x] # None /\ host'[x].project \in {None, nova[x].project})
    BY DEF HostsAreRight
  <2>1. CASE x = s
    BY <1>1, <2>1 DEF HostsAreRight
  <2>2. CASE x # s
    BY <1>1, <1>2, <2>2 DEF HostsAreRight, Hosts
  <2> QED
    BY <2>1, <2>2
<1>7. Moves(Q)
  <2>1. ASSUME NEW q \in Q, NEW x \in Hosts'
        PROVE  (x \in Hosts /\ host'[x].flavor = host[x].flavor) \/ x \in late'[q]
    BY <1>1, <1>2 DEF Hosts
  <2> QED
    BY <2>1 DEF Moves, Alive, Claims
<1> QED
  BY <1>5, <1>6, <1>7

-----------------------------------------------------------------------------
(* Steps of a run *)

\* What a step of the run r keeps: its own part of the invariant, and that of the others.
Good(r) ==
  /\ TypeOK' /\ HostsAreRight' /\ RunIsRight(r)'
  /\ \A q \in Run \ {r} : run'[q] = run[q] /\ Moves({q})

\* How the observer late may change.
LateGrows(r) ==
  /\ late' \in [Run -> SUBSET Observed] /\ events' \in Nat
  /\ \A q \in Run \ {r} : late[q] \subseteq late'[q]

\* A run that ends or has not fetched anything.
LEMMA NothingFetched ==
  ASSUME TypeOK, HostsAreRight, NEW r \in Run, NEW x \in RunWith({}, {}), Step(r, x),
         x.pc \in {"idle", "fetch_projects"}, x.at = None, x.knownFlavors = {}, x.spare = {},
         RowsTyped', HostsAreRight', touched' \subseteq Server,
         LateGrows(r), \A q \in Run \ {r} : Moves({q})
  PROVE  Good(r)
<1>1. /\ RunsTyped' /\ run'[r] = x /\ \A q \in Run \ {r} : run'[q] = run[q]
      /\ DOMAIN x.servers = {} /\ DOMAIN x.seen = {}
  BY TypeParts, StepTo
<1>2. TypeOK'
  <2>1. RestTyped'
    BY DEF RestTyped, LateGrows
  <2> QED
    BY <1>1, <2>1 DEF TypeOK, RowsTyped, RunsTyped, RestTyped, Observed
<1>3. RunIsRight(r)'
  BY <1>1
     DEF RunIsRight, StageIsRight, CopiesAreRight, MissedAreLate, Fetched, DeletesAreRight,
         NothingTaken
<1> QED
  BY <1>1, <1>2, <1>3 DEF Good

LEMMA QuietRows ==
  ASSUME TypeOK, HostsAreRight, NEW r \in Run, UNCHANGED <<cloud, ralph, touched>>, LateGrows(r)
  PROVE  /\ RowsTyped' /\ HostsAreRight' /\ touched' \subseteq Server /\ SameCloud
         /\ \A q \in Run \ {r} : Moves({q})
<1>1. SameCloud /\ UNCHANGED ralph /\ touched' = touched
  BY DEF SameCloud
<1>2. ASSUME NEW Q \in SUBSET (Run \ {r})
      PROVE  RowsTyped' /\ HostsAreRight' /\ Moves(Q)
  BY <1>1, RowsStay, TypeParts DEF LateGrows
<1>3. RowsTyped' /\ HostsAreRight'
  BY <1>2
<1>4. \A q \in Run \ {r} : Moves({q})
  BY <1>2
<1>5. touched' \subseteq Server
  BY <1>1 DEF TypeOK
<1> QED
  BY <1>1, <1>3, <1>4, <1>5

LEMMA AbortGood ==
  ASSUME TypeOK, HostsAreRight, NEW r \in Run, Aborted(r), UNCHANGED <<cloud, ralph, touched>>,
         LateGrows(r)
  PROVE  Good(r)
<1>1. /\ RowsTyped' /\ HostsAreRight' /\ touched' \subseteq Server
      /\ \A q \in Run \ {r} : Moves({q})
  BY QuietRows
<1>2. Idle \in RunWith({}, {}) /\ Step(r, Idle) /\ Idle.pc \in {"idle", "fetch_projects"} /\ Idle.at = None
      /\ Idle.knownFlavors = {} /\ Idle.spare = {}
  BY IdleIsIdle DEF Aborted
<1> QED
  BY <1>1, <1>2, NothingFetched

\* A run goes on with what it has fetched and seen.
LEMMA OwnStep ==
  ASSUME TypeOK, HostsAreRight, NEW r \in Run, RunIsRight(r),
         NEW x \in RunWith(DOMAIN run[r].servers, DOMAIN run[r].seen), Step(r, x),
         x.servers = run[r].servers, x.seen = run[r].seen, x.full = run[r].full,
         x.projects = run[r].projects \/ x.pc = "fetch_servers",
         Fetched(r) \/ x.pc = "fetch_servers", SameCloud, LateGrows(r), late'[r] = late[r],
         RowsTyped', HostsAreRight', Hosts' \subseteq Hosts \cup DOMAIN run[r].servers,
         \A q \in Run \ {r} : Moves({q}), Claims(r), x.knownFlavors = run[r].knownFlavors,
         \A a \in x.spare : a \in run[r].spare \/ owner'[a] # "other"
  PROVE  /\ TypeOK' /\ run'[r] = x /\ CopiesAreRight(r)' /\ MissedAreLate(r)'
         /\ NothingTaken(r)' /\ \A q \in Run \ {r} : run'[q] = run[q]
<1>1. DOMAIN run[r].servers \in SUBSET Server /\ DOMAIN run[r].seen \in SUBSET Server
  BY TypeParts, RunTyped
<1> DEFINE S == DOMAIN run[r].servers
           T == DOMAIN run[r].seen
<1>2. /\ RunsTyped' /\ run'[r] = x /\ \A q \in Run \ {r} : run'[q] = run[q]
  <2>1. RunsTyped /\ S \in SUBSET Server /\ T \in SUBSET Server /\ x \in RunWith(S, T)
    BY <1>1, TypeParts
  <2> HIDE DEF S, T
  <2> QED
    BY <2>1, StepTo
<1>3. TypeOK'
  BY <1>2 DEF TypeOK, RowsTyped, RunsTyped, LateGrows, SameCloud, Observed
<1>4. CopiesAreRight(r)'
  BY <1>1, <1>2 DEF CopiesAreRight, RunIsRight, SameCloud, cloud, Alive
<1>5. MissedAreLate(r)'
  BY <1>2 DEF MissedAreLate, RunIsRight, SameCloud, cloud, Alive, Fetched
<1>6. NothingTaken(r)'
  BY <1>2, KnownTyped DEF NothingTaken, RunIsRight, Claims
<1> QED
  BY <1>2, <1>3, <1>4, <1>5, <1>6

\* ... and leaves the rows alone.
LEMMA QuietStep ==
  ASSUME TypeOK, HostsAreRight, NEW r \in Run, RunIsRight(r),
         NEW x \in RunWith(DOMAIN run[r].servers, DOMAIN run[r].seen), Step(r, x),
         x.servers = run[r].servers, x.seen = run[r].seen, x.full = run[r].full,
         x.projects = run[r].projects \/ x.pc = "fetch_servers",
         Fetched(r) \/ x.pc = "fetch_servers", x.knownFlavors = run[r].knownFlavors,
         \A a \in x.spare : a \in run[r].spare \/ owner[a] # "other",
         UNCHANGED <<cloud, ralph, late, touched, events>>
  PROVE  /\ run'[r] = x
         /\ StageIsRight(r)' /\ DeletesAreRight(r)' => Good(r)
<1>1. LateGrows(r)
  BY DEF LateGrows, TypeOK, Observed
<1>2. /\ RowsTyped' /\ HostsAreRight' /\ touched' \subseteq Server /\ SameCloud
      /\ \A q \in Run \ {r} : Moves({q})
  BY <1>1, QuietRows
<1>3. /\ Hosts' = Hosts /\ late'[r] = late[r] /\ Claims(r)
      /\ \A a \in x.spare : a \in run[r].spare \/ owner'[a] # "other"
  BY DEF Hosts, ralph, Claims
<1>4. /\ TypeOK' /\ run'[r] = x /\ CopiesAreRight(r)' /\ MissedAreLate(r)'
      /\ NothingTaken(r)' /\ \A q \in Run \ {r} : run'[q] = run[q]
  BY <1>1, <1>2, <1>3, OwnStep
<1> QED
  BY <1>2, <1>4 DEF Good, RunIsRight

LEMMA BeginGood ==
  ASSUME TypeOK, HostsAreRight, NEW r \in Run, NEW full \in BOOLEAN, Begin(r, full),
         events' \in Nat
  PROVE  Good(r)
<1> DEFINE x == [Idle EXCEPT !.pc = "fetch_projects", !.full = full, !.flavors = catalogue]
<1>1. Step(r, x) /\ UNCHANGED <<cloud, ralph, late, touched>>
  BY DEF Begin
<1>2. LateGrows(r)
  BY <1>1 DEF LateGrows, TypeOK, Observed
<1>3. /\ x \in RunWith({}, {}) /\ x.pc = "fetch_projects" /\ x.at = None
      /\ x.knownFlavors = {} /\ x.spare = {}
  BY IdleIsIdle DEF RunWith, TypeOK
<1> HIDE DEF x
<1>4. /\ RowsTyped' /\ HostsAreRight' /\ touched' \subseteq Server
      /\ \A q \in Run \ {r} : Moves({q})
  BY <1>1, <1>2, QuietRows
<1> QED
  BY <1>1, <1>2, <1>3, <1>4, NothingFetched

LEMMA DiesGood ==
  ASSUME TypeOK, HostsAreRight, NEW r \in Run, RunDies(r)
  PROVE  Good(r)
<1>1. Aborted(r) /\ UNCHANGED <<cloud, ralph, touched>> /\ late' = late /\ events' \in Nat
  BY DEF RunDies, Event, TypeOK
<1>2. LateGrows(r)
  BY <1>1 DEF LateGrows, TypeOK, Observed
<1> QED
  BY <1>1, <1>2, AbortGood

LEMMA FetchProjectsGood ==
  ASSUME TypeOK, HostsAreRight, NEW r \in Run, RunIsRight(r), get_openstack_projects(r)
  PROVE  Good(r)
<1> DEFINE x == [run[r] EXCEPT !.pc = "fetch_servers", !.projects = keystone]
<1>1. Step(r, x) /\ UNCHANGED <<cloud, ralph, late, touched, events>>
  BY DEF get_openstack_projects
<1>2. run[r] \in RunWith(DOMAIN run[r].servers, DOMAIN run[r].seen)
  BY TypeParts, RunTyped
<1>3. /\ x \in RunWith(DOMAIN run[r].servers, DOMAIN run[r].seen)
      /\ x.servers = run[r].servers /\ x.seen = run[r].seen /\ x.full = run[r].full
      /\ x.pc = "fetch_servers" /\ x.at = run[r].at
      /\ x.knownFlavors = run[r].knownFlavors /\ x.spare = run[r].spare
  BY <1>2 DEF RunWith, TypeOK
<1> HIDE DEF x
<1>4. run'[r] = x /\ (StageIsRight(r)' /\ DeletesAreRight(r)' => Good(r))
  BY <1>1, <1>3, QuietStep
<1> QED
  BY <1>3, <1>4 DEF StageIsRight, DeletesAreRight, RunIsRight, get_openstack_projects

\* What is fetched are copies of servers; everything that is alive and listed, when all
\* are fetched.
LEMMA FetchServersGood ==
  ASSUME TypeOK, HostsAreRight, NEW r \in Run, RunIsRight(r), get_openstack_instances_data(r)
  PROVE  Good(r)
<1>1. /\ run[r].pc = "fetch_servers"
      /\ late' = [late EXCEPT ![r] = {}] /\ UNCHANGED <<cloud, ralph, touched>>
  BY DEF get_openstack_instances_data
<1>2. PICK S \in SUBSET {s \in Server : nova[s] # None} :
        /\ \/ (run[r].full => S = {s \in Server : Alive(s)}) /\ UNCHANGED events
           \/ run[r].full /\ S = {} /\ Event
        /\ IF EmptyListError(run[r].full, S) THEN Aborted(r) ELSE Step(r, WithInstances(r, S))
  BY DEF get_openstack_instances_data
<1>3. LateGrows(r) /\ late'[r] = {}
  BY <1>1, <1>2 DEF LateGrows, TypeOK, Observed, Event
<1>4. CASE Aborted(r)
  BY <1>1, <1>3, <1>4, AbortGood
<1>5. CASE ~ EmptyListError(run[r].full, S) /\ Step(r, WithInstances(r, S))
  <2> DEFINE x == WithInstances(r, S)
             D == {t \in S : nova[t].project \in run[r].projects}
             T == DOMAIN run[r].seen
  <2>1. /\ RunsTyped /\ T \in SUBSET Server /\ D \in SUBSET Server
        /\ run[r] \in RunWith(DOMAIN run[r].servers, T)
    BY TypeParts, RunTyped
  <2>2. \A s \in S : nova[s] \in Instance
    BY DEF TypeOK
  <2>3. /\ x.pc = "snapshot" /\ x.servers = [s \in D |-> nova[s]] /\ x.seen = run[r].seen
        /\ x.full = run[r].full /\ x.projects = run[r].projects /\ x.at = run[r].at
        /\ x.knownFlavors = run[r].knownFlavors /\ x.spare = run[r].spare
    BY <2>1 DEF WithInstances, RunWith
  <2>4. x \in RunWith(D, T)
    <3>1. [s \in D |-> nova[s]] \in [D -> Instance]
      BY <2>2
    <3>2. run[r].flavors \cup {nova[s].flavor : s \in S} \in SUBSET Flavor
      BY <2>1, <2>2, RunFields, RecordFields
    <3> HIDE DEF D, T
    <3> QED
      BY <2>1, <3>1, <3>2 DEF WithInstances, RunWith, D
  <2> HIDE DEF x, T
  <2>5. Step(r, x)
    BY <1>5 DEF x
  <2>6. /\ RunsTyped' /\ run'[r] = x /\ \A q \in Run \ {r} : run'[q] = run[q]
        /\ DOMAIN x.servers = D /\ DOMAIN x.seen = T
    <3> HIDE DEF D
    <3> QED
      BY <2>1, <2>4, <2>5, StepTo
  <2>7. /\ RowsTyped' /\ HostsAreRight' /\ touched' \subseteq Server /\ SameCloud
        /\ \A q \in Run \ {r} : Moves({q})
    BY <1>1, <1>3, QuietRows
  <2>8. TypeOK'
    BY <1>3, <2>6, <2>7 DEF TypeOK, RowsTyped, RunsTyped, LateGrows, Observed
  <2>9. StageIsRight(r)' /\ DeletesAreRight(r)' /\ NothingTaken(r)'
    BY <1>1, <2>3, <2>6 DEF StageIsRight, DeletesAreRight, NothingTaken, RunIsRight
  <2>10. CopiesAreRight(r)'
    BY <2>1, <2>3, <2>6, <2>7
       DEF CopiesAreRight, RunIsRight, SameCloud, cloud, Alive, T
  <2>11. MissedAreLate(r)'
    <3> SUFFICES ASSUME run[r].full, NEW s \in Hosts' \cup T, Alive(s),
                        nova[s].project \in run[r].projects, s \notin D
                 PROVE  FALSE
      BY <2>3, <2>6, <2>7 DEF MissedAreLate, SameCloud, cloud, Alive, T
    <3>1. s \in Server
      BY <2>1 DEF Hosts
    <3>2. run[r].full => S = {t \in Server : Alive(t)}
      BY <1>2, <1>5 DEF EmptyListError
    <3> QED
      BY <3>1, <3>2
  <2> QED
    BY <2>6, <2>7, <2>8, <2>9, <2>10, <2>11 DEF Good, RunIsRight
<1> QED
  BY <1>2, <1>4, <1>5

\* What is seen are the hosts, where their servers are or users have put them.
LEMMA SnapshotGood ==
  ASSUME TypeOK, HostsAreRight, NEW r \in Run, RunIsRight(r), get_ralph_servers_data(r)
  PROVE  Good(r)
<1>1. /\ run[r].pc = "snapshot" /\ UNCHANGED <<cloud, ralph, late, touched, events>>
  BY DEF get_ralph_servers_data
<1>2. LateGrows(r)
  BY <1>1 DEF LateGrows, TypeOK, Observed
<1>3. CASE Aborted(r)
  BY <1>1, <1>2, <1>3, AbortGood
<1>4. CASE ~ Aborted(r)
  <2> DEFINE known == {p \in Project : project[p] = "own"} \cup {host[s].project : s \in Hosts}
             seen == [s \in Hosts |-> [project |-> host[s].project, ips |-> AddressesOf(s)]]
             x == [run[r] EXCEPT
                     !.pc = "update", !.todo = run[r].flavors, !.left = run[r].projects,
                     !.known = known, !.knownFlavors = OwnFlavors, !.seen = seen]
             D == DOMAIN run[r].servers
  <2>1. Step(r, x) /\ \A s \in Hosts : host[s].project # None
    BY <1>4 DEF get_ralph_servers_data
  <2>2. /\ RunsTyped /\ D \in SUBSET Server /\ Hosts \in SUBSET Server
        /\ run[r] \in RunWith(D, DOMAIN run[r].seen)
    BY TypeParts, RunTyped DEF Hosts
  <2>3. \A s \in Hosts : host[s].project \in Project
    BY <2>1, RecordFields DEF Hosts, TypeOK
  <2>4. known \in SUBSET Project
    BY <2>3
  <2>5. seen \in [Hosts -> [project : Project, ips : SUBSET Address]]
    BY <2>3 DEF AddressesOf
  <2>6. OwnFlavors \in SUBSET Flavor
    BY DEF OwnFlavors
  <2>7. \A s \in Hosts : seen[s].project = host[s].project
    OBVIOUS
  <2> HIDE DEF known, seen, D
  <2>8. /\ x \in RunWith(D, Hosts) /\ x.pc = "update" /\ x.servers = run[r].servers
        /\ x.seen = seen /\ x.full = run[r].full /\ x.projects = run[r].projects
        /\ x.todo \in SUBSET Flavor /\ x.at = run[r].at
        /\ x.knownFlavors = OwnFlavors /\ x.spare = run[r].spare
    BY <2>2, <2>4, <2>5, <2>6 DEF RunWith
  <2> HIDE DEF x
  <2>9. /\ RunsTyped' /\ run'[r] = x /\ \A q \in Run \ {r} : run'[q] = run[q]
        /\ DOMAIN x.servers = D /\ DOMAIN x.seen = Hosts
    BY <2>1, <2>2, <2>8, StepTo
  <2>10. /\ RowsTyped' /\ HostsAreRight' /\ touched' \subseteq Server /\ SameCloud
         /\ \A q \in Run \ {r} : Moves({q})
    BY <1>1, <1>2, QuietRows
  <2>11. TypeOK'
    BY <1>2, <2>9, <2>10 DEF TypeOK, RowsTyped, RunsTyped, LateGrows, Observed
  <2>12. StageIsRight(r)' /\ DeletesAreRight(r)'
    BY <1>1, <2>8, <2>9 DEF StageIsRight, DeletesAreRight, RunIsRight
  <2>13. CopiesAreRight(r)'
    <3>1. \A s \in Hosts : /\ s \in Server
                          /\ \/ s \in touched
                             \/ nova[s] # None /\ seen[s].project = nova[s].project
      BY <2>1, <2>7 DEF HostsAreRight, Hosts
    <3> QED
      BY <2>8, <2>9, <2>10, <3>1 DEF CopiesAreRight, RunIsRight, SameCloud, cloud, Alive
  <2>14. MissedAreLate(r)'
    <3>1. Hosts' = Hosts /\ late' = late
      BY <1>1 DEF ralph, Hosts
    <3> QED
      BY <1>1, <2>8, <2>9, <2>10, <3>1
         DEF MissedAreLate, RunIsRight, Fetched, SameCloud, cloud, Alive
  <2>15. NothingTaken(r)'
    <3>1. \A f \in OwnFlavors : flavor'[f] # "other"
      BY <1>1 DEF OwnFlavors, ralph
    <3>2. \A a \in run[r].spare : owner'[a] # "other" \/ a \in late'[r]
      BY <1>1 DEF RunIsRight, NothingTaken, ralph
    <3> QED
      BY <2>8, <2>9, <3>1, <3>2 DEF NothingTaken
  <2> QED
    BY <2>9, <2>10, <2>11, <2>12, <2>13, <2>14, <2>15 DEF Good, RunIsRight
<1> QED
  BY <1>3, <1>4

\* Flavors and projects are only added, or the owners of addresses change.
LEMMA RowsAdded ==
  ASSUME RowsTyped, HostsAreRight, SameCloud, UNCHANGED <<host, late>>,
         flavor' \in [Flavor -> Provider \cup {None}],
         \A f \in Flavor : /\ flavor[f] # None => flavor'[f] # None
                           /\ flavor'[f] = "other" => flavor[f] = "other",
         project' \in [Project -> Provider \cup {None}],
         \A p \in Project : /\ project[p] # None => project'[p] # None
                            /\ project'[p] = "other" => project[p] = "other",
         owner' \in [Address -> Server \cup {None, "other", "nobody"}],
         \A a \in Address : /\ owner'[a] \in Server => owner'[a] \in Hosts
                            /\ owner'[a] = "other" => owner[a] = "other"
  PROVE  RowsTyped' /\ HostsAreRight' /\ Moves(Run) /\ Hosts' = Hosts
<1> USE DEF SameCloud, cloud
<1>1. Hosts' = Hosts
  BY DEF Hosts
<1>2. \A s \in Hosts : host[s].project # None => host[s].project \in Project
  BY RecordFields DEF RowsTyped, Hosts
<1>3. RowsTyped'
  <2>1. \A s \in Hosts : host'[s].flavor \in Flavors'
    BY DEF RowsTyped, Flavors
  <2>2. \A s \in Hosts : host'[s].project # None => project'[host'[s].project] # None
    BY <1>2 DEF RowsTyped
  <2> QED
    BY <1>1, <2>1, <2>2 DEF RowsTyped
<1>4. HostsAreRight'
  BY <1>1 DEF HostsAreRight
<1>5. \A q \in Run : Claims(q)
  BY DEF Claims
<1>6. Moves(Run)
  BY <1>1, <1>5 DEF Moves, Alive
<1> QED
  BY <1>1, <1>3, <1>4, <1>6

\* A step that adds or assigns, of the run's own.
LEMMA AddingStep ==
  ASSUME TypeOK, HostsAreRight, NEW r \in Run, RunIsRight(r), Fetched(r),
         NEW x \in RunWith(DOMAIN run[r].servers, DOMAIN run[r].seen), Step(r, x),
         x.servers = run[r].servers, x.seen = run[r].seen, x.full = run[r].full,
         x.projects = run[r].projects, x.knownFlavors = run[r].knownFlavors,
         \A a \in x.spare : a \in run[r].spare, UNCHANGED <<cloud, late, touched, events>>,
         RowsTyped', HostsAreRight', Moves(Run), Hosts' \subseteq Hosts
  PROVE  /\ run'[r] = x
         /\ StageIsRight(r)' /\ DeletesAreRight(r)' => Good(r)
<1>1. LateGrows(r) /\ late'[r] = late[r]
  BY DEF LateGrows, TypeOK, Observed
<1>2. SameCloud
  BY DEF SameCloud
<1>3. Claims(r) /\ \A q \in Run \ {r} : Moves({q})
  BY DEF Moves
<1>4. /\ TypeOK' /\ run'[r] = x /\ CopiesAreRight(r)' /\ MissedAreLate(r)'
      /\ NothingTaken(r)' /\ \A q \in Run \ {r} : run'[q] = run[q]
  BY <1>1, <1>2, <1>3, OwnStep
<1> QED
  BY <1>3, <1>4 DEF Good, RunIsRight

LEMMA FlavorsGood ==
  ASSUME TypeOK, HostsAreRight, NEW r \in Run, RunIsRight(r), _add_or_modify_flavours(r)
  PROVE  Good(r)
<1>1. /\ run[r].pc = "update" /\ run[r].at = None
      /\ UNCHANGED <<cloud, host, project, owner, late, touched, events>>
  BY DEF _add_or_modify_flavours
<1>2. PICK f \in run[r].todo \cap Flavor :
        \/ Aborted(r) /\ UNCHANGED flavor
        \/ (f \notin run[r].knownFlavors) = (f \in Flavors) /\ Aborted(r) /\ UNCHANGED flavor
        \/ /\ f \notin run[r].knownFlavors => f \notin Flavors
           /\ flavor' = [flavor EXCEPT ![f] = IF f \notin run[r].knownFlavors THEN "own" ELSE @]
           /\ Step(r, [run[r] EXCEPT !.todo = @ \ {f}])
  BY DEF _add_or_modify_flavours
<1>3. LateGrows(r)
  BY <1>1 DEF LateGrows, TypeOK, Observed
<1>4. CASE Aborted(r) /\ UNCHANGED flavor
  BY <1>1, <1>3, <1>4, AbortGood DEF ralph
<1>5. CASE /\ f \notin run[r].knownFlavors => f \notin Flavors
           /\ flavor' = [flavor EXCEPT ![f] = IF f \notin run[r].knownFlavors THEN "own" ELSE @]
           /\ Step(r, [run[r] EXCEPT !.todo = @ \ {f}])
  <2> DEFINE x == [run[r] EXCEPT !.todo = @ \ {f}]
  <2>1. run[r] \in RunWith(DOMAIN run[r].servers, DOMAIN run[r].seen)
    BY TypeParts, RunTyped
  <2>2. /\ x \in RunWith(DOMAIN run[r].servers, DOMAIN run[r].seen)
        /\ x.servers = run[r].servers /\ x.seen = run[r].seen /\ x.full = run[r].full
        /\ x.knownFlavors = run[r].knownFlavors /\ x.spare = run[r].spare
        /\ x.projects = run[r].projects /\ x.pc = "update" /\ x.at = None
        /\ x.todo = run[r].todo \ {f}
    BY <1>1, <2>1 DEF RunWith
  <2>3. Step(r, x)
    BY <1>5
  <2> HIDE DEF x
  <2>4. /\ RowsTyped /\ SameCloud
        /\ project' \in [Project -> Provider \cup {None}]
        /\ owner' \in [Address -> Server \cup {None, "other", "nobody"}]
        /\ \A a \in Address : owner'[a] \in Server => owner'[a] \in Hosts
    BY <1>1, TypeParts DEF RowsTyped, SameCloud
  <2>5. flavor' \in [Flavor -> Provider \cup {None}]
    BY <1>5, <2>4 DEF RowsTyped, Provider
  <2>6. \A g \in Flavor : /\ flavor[g] # None => flavor'[g] # None
                          /\ flavor'[g] = "other" => flavor[g] = "other"
    BY <1>5, <2>4, ConfigAssumption DEF RowsTyped, Provider
  <2>7. RowsTyped' /\ HostsAreRight' /\ Moves(Run) /\ Hosts' = Hosts
    BY <1>1, <2>4, <2>5, <2>6, RowsAdded
  <2>8. run'[r] = x /\ (StageIsRight(r)' /\ DeletesAreRight(r)' => Good(r))
    BY <1>1, <2>2, <2>3, <2>7, AddingStep DEF Fetched
  <2> QED
    BY <1>1, <2>2, <2>8 DEF StageIsRight, DeletesAreRight, RunIsRight
<1> QED
  BY <1>2, <1>4, <1>5

LEMMA ProjectsGood ==
  ASSUME TypeOK, HostsAreRight, NEW r \in Run, RunIsRight(r), _add_or_update_projects(r)
  PROVE  Good(r)
<1>1. /\ run[r].pc = "update"
      /\ UNCHANGED <<cloud, host, flavor, owner, late, touched, events>>
  BY DEF _add_or_update_projects
<1>2. PICK p \in run[r].left :
        \/ Aborted(r) /\ UNCHANGED project
        \/ /\ project' = [project EXCEPT ![p] = IF @ = None THEN "own" ELSE @]
           /\ Step(r, [run[r] EXCEPT !.at = p, !.left = @ \ {p},
                  !.todo = {s \in ServersOf(r, p) : run[r].servers[s].alive}])
  BY DEF _add_or_update_projects
<1>3. LateGrows(r)
  BY <1>1 DEF LateGrows, TypeOK, Observed
<1>4. CASE Aborted(r) /\ UNCHANGED project
  BY <1>1, <1>3, <1>4, AbortGood DEF ralph
<1>5. CASE /\ project' = [project EXCEPT ![p] = IF @ = None THEN "own" ELSE @]
           /\ Step(r, [run[r] EXCEPT !.at = p, !.left = @ \ {p},
                  !.todo = {s \in ServersOf(r, p) : run[r].servers[s].alive}])
  <2> DEFINE todo == {s \in ServersOf(r, p) : run[r].servers[s].alive}
             x == [run[r] EXCEPT !.at = p, !.left = @ \ {p}, !.todo = todo]
  <2>1. /\ run[r] \in RunWith(DOMAIN run[r].servers, DOMAIN run[r].seen)
        /\ DOMAIN run[r].servers \in SUBSET Server
    BY TypeParts, RunTyped
  <2>2. p \in Project
    BY <2>1, RunFields
  <2>3. todo \subseteq ServersOf(r, p) /\ todo \subseteq Server
    BY <2>1 DEF ServersOf
  <2>4. Step(r, x)
    BY <1>5
  <2> HIDE DEF todo
  <2>5. /\ x \in RunWith(DOMAIN run[r].servers, DOMAIN run[r].seen)
        /\ x.servers = run[r].servers /\ x.seen = run[r].seen /\ x.full = run[r].full
        /\ x.knownFlavors = run[r].knownFlavors /\ x.spare = run[r].spare
        /\ x.projects = run[r].projects /\ x.pc = "update" /\ x.at = p /\ x.todo = todo
    BY <1>1, <2>1, <2>2, <2>3 DEF RunWith
  <2> HIDE DEF x
  <2>6. /\ RowsTyped /\ SameCloud /\ flavor' \in [Flavor -> Provider \cup {None}]
        /\ owner' \in [Address -> Server \cup {None, "other", "nobody"}]
        /\ \A a \in Address : owner'[a] \in Server => owner'[a] \in Hosts
    BY <1>1, TypeParts DEF RowsTyped, SameCloud
  <2>7. project \in [Project -> Provider \cup {None}]
    BY DEF TypeOK
  <2>8. /\ project' \in [Project -> Provider \cup {None}]
        /\ \A q \in Project : /\ project[q] # None => project'[q] # None
                              /\ project'[q] = "other" => project[q] = "other"
    BY <1>5, <2>2, <2>7 DEF Provider
  <2>9. RowsTyped' /\ HostsAreRight' /\ Moves(Run) /\ Hosts' = Hosts
    BY <1>1, <2>6, <2>8, RowsAdded
  <2>10. run'[r] = x /\ (StageIsRight(r)' /\ DeletesAreRight(r)' => Good(r))
    BY <1>1, <2>4, <2>5, <2>9, AddingStep DEF Fetched
  <2>11. ServersOf(r, p)' = ServersOf(r, p)
    BY <2>5, <2>10 DEF ServersOf
  <2>12. p # None
    BY <2>2, ConfigAssumption
  <2> QED
    BY <1>1, <2>2, <2>3, <2>5, <2>10, <2>11, <2>12 DEF StageIsRight, DeletesAreRight, RunIsRight
<1> QED
  BY <1>2, <1>4, <1>5

\* The server that a run works on is one it has fetched, of the project it is at.
LEMMA WorkIsFetched ==
  ASSUME TypeOK, NEW r \in Run, RunIsRight(r), NEW s, WorksOn(r, s)
  PROVE  /\ s \in Server /\ s \in DOMAIN run[r].servers /\ run[r].at \in Project
         /\ nova[s] # None /\ nova[s].project = run[r].at
         /\ run[r].servers[s] \in Instance /\ Fetched(r)
<1>1. /\ run[r].pc = "update" /\ run[r].at # None /\ s \in run[r].todo
  BY DEF WorksOn
<1>2. run[r].at \in Project /\ s \in ServersOf(r, run[r].at)
  BY <1>1 DEF RunIsRight, StageIsRight
<1> DEFINE S == DOMAIN run[r].servers
           T == DOMAIN run[r].seen
<1>3. S \in SUBSET Server /\ run[r] \in RunWith(S, T)
  BY TypeParts, RunTyped
<1>4. s \in S /\ run[r].servers[s].project = run[r].at
  BY <1>2 DEF ServersOf
<1>5. nova[s] # None /\ nova[s].project = run[r].at
  BY <1>4 DEF RunIsRight, CopiesAreRight
<1> HIDE DEF S, T
<1>6. run[r].servers \in [S -> Instance]
  BY <1>3, RunFields
<1>7. run[r].servers[s] \in Instance
  BY <1>4, <1>6
<1> QED
  BY <1>1, <1>2, <1>3, <1>4, <1>5, <1>7 DEF Fetched, S

\* A run goes on to the next server, with this one's addresses or without; the rows of hosts
\* may have changed as above.
LEMMA WorkDone ==
  ASSUME TypeOK, HostsAreRight, NEW r \in Run, RunIsRight(r), NEW s, WorksOn(r, s),
         AddressesNext(r, s) \/ Skip(r, s), SameCloud, LateGrows(r), late'[r] = late[r],
         RowsTyped', HostsAreRight', Hosts' \subseteq Hosts \cup {s}, Moves(Run \ {r}),
         UNCHANGED <<flavor, owner>>
  PROVE  Good(r)
<1>1. /\ s \in Server /\ s \in DOMAIN run[r].servers /\ run[r].at \in Project /\ Fetched(r)
      /\ run[r].pc = "update" /\ run[r].at # None
  BY WorkIsFetched DEF WorksOn
<1>2. run[r] \in RunWith(DOMAIN run[r].servers, DOMAIN run[r].seen)
  BY TypeParts, RunTyped
<1>3. PICK x : /\ x \in RunWith(DOMAIN run[r].servers, DOMAIN run[r].seen) /\ Step(r, x)
               /\ x.servers = run[r].servers /\ x.seen = run[r].seen /\ x.full = run[r].full
               /\ x.knownFlavors = run[r].knownFlavors /\ x.spare = run[r].spare
               /\ x.projects = run[r].projects /\ x.at = run[r].at
               /\ x.todo = run[r].todo \ {s}
               /\ x.pc = "update" \/ (x.pc = "addresses" /\ x.server = s)
  <2>1. CASE AddressesNext(r, s)
    <3> DEFINE x == [run[r] EXCEPT !.pc = "addresses", !.server = s, !.todo = @ \ {s}]
    <3>1. /\ x \in RunWith(DOMAIN run[r].servers, DOMAIN run[r].seen)
          /\ x.servers = run[r].servers /\ x.seen = run[r].seen /\ x.full = run[r].full
          /\ x.knownFlavors = run[r].knownFlavors /\ x.spare = run[r].spare
          /\ x.projects = run[r].projects /\ x.at = run[r].at
          /\ x.todo = run[r].todo \ {s} /\ x.pc = "addresses" /\ x.server = s
      BY <1>1, <1>2 DEF RunWith
    <3>2. Step(r, x)
      BY <2>1 DEF AddressesNext
    <3> HIDE DEF x
    <3> QED
      BY <3>1, <3>2
  <2>2. CASE Skip(r, s)
    <3> DEFINE x == [run[r] EXCEPT !.todo = @ \ {s}]
    <3>1. /\ x \in RunWith(DOMAIN run[r].servers, DOMAIN run[r].seen)
          /\ x.servers = run[r].servers /\ x.seen = run[r].seen /\ x.full = run[r].full
          /\ x.knownFlavors = run[r].knownFlavors /\ x.spare = run[r].spare
          /\ x.projects = run[r].projects /\ x.at = run[r].at
          /\ x.todo = run[r].todo \ {s} /\ x.pc = "update"
      BY <1>1, <1>2 DEF RunWith
    <3>2. Step(r, x)
      BY <2>2 DEF Skip
    <3> HIDE DEF x
    <3> QED
      BY <3>1, <3>2
  <2> QED
    BY <2>1, <2>2
<1>4. Claims(r) /\ \A q \in Run \ {r} : Moves({q})
  BY DEF Moves, Claims
<1>5. Hosts' \subseteq Hosts \cup DOMAIN run[r].servers
  BY <1>1
<1>6. /\ TypeOK' /\ run'[r] = x /\ CopiesAreRight(r)' /\ MissedAreLate(r)'
      /\ NothingTaken(r)' /\ \A q \in Run \ {r} : run'[q] = run[q]
  BY <1>1, <1>3, <1>4, <1>5, OwnStep
<1>7. run[r].todo \subseteq ServersOf(r, run[r].at)
  BY <1>1 DEF RunIsRight, StageIsRight
<1>8. ServersOf(r, run[r].at)' = ServersOf(r, run[r].at) 
  BY <1>3, <1>6 DEF ServersOf
<1>9. StageIsRight(r)' /\ DeletesAreRight(r)'
  BY <1>1, <1>3, <1>6, <1>7, <1>8 DEF StageIsRight, DeletesAreRight
<1> QED
  BY <1>4, <1>6, <1>9 DEF Good, RunIsRight

\* A step on a server that leaves the rows alone.
LEMMA NoWorkGood ==
  ASSUME TypeOK, HostsAreRight, NEW r \in Run, RunIsRight(r), NEW s, WorksOn(r, s),
         Skip(r, s) \/ Aborted(r), UNCHANGED <<cloud, ralph, late, touched, events>>
  PROVE  Good(r)
<1>1. LateGrows(r) /\ late'[r] = late[r] /\ UNCHANGED <<cloud, ralph, touched, flavor, owner>>
  BY DEF LateGrows, TypeOK, Observed, ralph
<1>2. CASE Aborted(r)
  BY <1>1, <1>2, AbortGood
<1>3. CASE Skip(r, s)
  <2>1. /\ RowsTyped /\ SameCloud /\ UNCHANGED ralph
        /\ \A q \in Run \ {r} : late[q] \subseteq late'[q]
    BY <1>1, TypeParts DEF LateGrows, SameCloud
  <2>2. RowsTyped' /\ HostsAreRight' /\ Moves(Run \ {r})
    BY <2>1, RowsStay
  <2>3. Hosts' = Hosts
    BY <1>1 DEF Hosts, ralph
  <2> QED
    BY <1>1, <1>3, <2>1, <2>2, <2>3, WorkDone
<1> QED
  BY <1>2, <1>3

LEMMA AddServerGood ==
  ASSUME TypeOK, HostsAreRight, NEW r \in Run, RunIsRight(r), NEW s, _add_server(r, s)
  PROVE  Good(r)
<1> DEFINE f == run[r].servers[s].flavor
           h == [project |-> run[r].at, flavor |-> f]
<1>1. /\ WorksOn(r, s) /\ UNCHANGED <<cloud, project, flavor, owner, touched, events>>
      /\ \/ (Skip(r, s) \/ Aborted(r)) /\ UNCHANGED <<host, late>>
         \/ /\ project[run[r].at] # None /\ f \in Flavors /\ host[s] = None
            /\ host' = [host EXCEPT ![s] = h] /\ ChangedBy(r, s) /\ AddressesNext(r, s)
  BY DEF _add_server, FlavorGone
<1>2. CASE (Skip(r, s) \/ Aborted(r)) /\ UNCHANGED <<host, late>>
  BY <1>1, <1>2, NoWorkGood DEF ralph
<1>3. CASE /\ project[run[r].at] # None /\ f \in Flavors /\ host[s] = None
           /\ host' = [host EXCEPT ![s] = h] /\ ChangedBy(r, s) /\ AddressesNext(r, s)
  <2>1. /\ s \in Server /\ run[r].at \in Project /\ nova[s] # None
        /\ nova[s].project = run[r].at
    BY <1>1, WorkIsFetched
  <2>2. h \in Host /\ h.project = run[r].at /\ h.flavor = f
    BY <1>3, <2>1 DEF Host, Flavors
  <2>3. /\ late' \in [Run -> SUBSET Observed] /\ late'[r] = late[r]
        /\ \A q \in Run \ {r} : late'[q] = late[q] \cup {s}
    BY <1>3, <2>1 DEF ChangedBy, Others, TypeOK, Observed
  <2>4. LateGrows(r)
    BY <1>1, <2>3 DEF LateGrows, TypeOK, Observed
  <2>5. /\ RowsTyped /\ SameCloud /\ s \notin Hosts
    BY <1>1, <1>3, TypeParts DEF SameCloud, Hosts
  <2> HIDE DEF h, f
  <2>6. RowsTyped' /\ HostsAreRight' /\ Moves(Run \ {r})
    BY <1>1, <1>3, <2>1, <2>2, <2>3, <2>5, HostSet
  <2>7. Hosts' \subseteq Hosts \cup {s}
    BY <1>3 DEF Hosts, TypeOK
  <2> QED
    BY <1>1, <1>3, <2>3, <2>4, <2>5, <2>6, <2>7, WorkDone
<1> QED
  BY <1>1, <1>2, <1>3

LEMMA UpdateServerGood ==
  ASSUME TypeOK, HostsAreRight, NEW r \in Run, RunIsRight(r), NEW s, _update_server(r, s)
  PROVE  Good(r)
<1> DEFINE f == run[r].servers[s].flavor
           h == [host[s] EXCEPT !.flavor = f]
<1>1. /\ WorksOn(r, s) /\ UNCHANGED <<cloud, project, flavor, owner, touched, events>>
      /\ \/ (Skip(r, s) \/ Aborted(r)) /\ UNCHANGED <<host, late>>
         \/ /\ f \in Flavors /\ host[s] # None /\ host' = [host EXCEPT ![s] = h]
            /\ IF f = host[s].flavor THEN UNCHANGED late ELSE ChangedBy(r, s)
            /\ AddressesNext(r, s) \/ Skip(r, s)
  BY DEF _update_server, FlavorGone
<1>2. CASE (Skip(r, s) \/ Aborted(r)) /\ UNCHANGED <<host, late>>
  BY <1>1, <1>2, NoWorkGood DEF ralph
<1>3. CASE /\ f \in Flavors /\ host[s] # None /\ host' = [host EXCEPT ![s] = h]
           /\ IF f = host[s].flavor THEN UNCHANGED late ELSE ChangedBy(r, s)
           /\ AddressesNext(r, s) \/ Skip(r, s)
  <2>1. s \in Server /\ nova[s] # None
    BY <1>1, WorkIsFetched
  <2>2. host[s] \in Host /\ s \in Hosts
    BY <1>3, <2>1 DEF Hosts, TypeOK
  <2>3. h \in Host /\ h.project = host[s].project /\ h.flavor = f
    BY <1>3, <2>2 DEF Host, Flavors
  <2>4. /\ late' \in [Run -> SUBSET Observed] /\ late'[r] = late[r]
        /\ \A q \in Run \ {r} : late[q] \subseteq late'[q]
        /\ h.flavor # host[s].flavor => \A q \in Run \ {r} : s \in late'[q]
    BY <1>3, <2>1, <2>3 DEF ChangedBy, Others, TypeOK, Observed
  <2>5. LateGrows(r)
    BY <1>1, <2>4 DEF LateGrows, TypeOK, Observed
  <2>6. /\ RowsTyped /\ SameCloud
    BY <1>1, TypeParts DEF SameCloud
  <2> HIDE DEF h, f
  <2>7. RowsTyped' /\ HostsAreRight' /\ Moves(Run \ {r})
    BY <1>1, <1>3, <2>1, <2>2, <2>3, <2>4, <2>6, HostSet DEF f
  <2>8. Hosts' \subseteq Hosts \cup {s}
    BY <1>3 DEF Hosts, TypeOK
  <2> QED
    BY <1>1, <1>3, <2>4, <2>5, <2>6, <2>7, <2>8, WorkDone
<1> QED
  BY <1>1, <1>2, <1>3

LEMMA FindAddressesGood ==
  ASSUME TypeOK, HostsAreRight, NEW r \in Run, RunIsRight(r), FindAddresses(r)
  PROVE  Good(r)
<1> DEFINE new == run[r].servers[run[r].server].ips
           free == {a \in new : owner[a] = None}
           spare == {a \in new : owner[a] = "nobody"}
           x == [run[r] EXCEPT !.pc = "assign", !.free = free, !.spare = spare]
<1>1. /\ run[r].pc = "addresses" /\ Step(r, x) /\ UNCHANGED <<cloud, ralph, late, touched, events>>
  BY DEF FindAddresses
<1>2. run[r] \in RunWith(DOMAIN run[r].servers, DOMAIN run[r].seen)
  BY TypeParts, RunTyped
<1>3. new \in SUBSET Address
  <2> DEFINE S == DOMAIN run[r].servers
             T == DOMAIN run[r].seen
  <2>1. run[r].server \in S
    BY <1>1 DEF RunIsRight, StageIsRight
  <2>2. run[r] \in RunWith(S, T)
    BY <1>2
  <2> HIDE DEF S, T
  <2>3. run[r].servers \in [S -> Instance]
    BY <2>2, RunFields
  <2>4. run[r].servers[run[r].server] \in Instance
    BY <2>1, <2>3
  <2> QED
    BY <2>4, RecordFields
<1>4. free \in SUBSET Address /\ spare \in SUBSET Address /\ \A a \in spare : owner[a] # "other"
  BY <1>3
<1> HIDE DEF new, free, spare
<1>5. /\ x \in RunWith(DOMAIN run[r].servers, DOMAIN run[r].seen)
      /\ x.servers = run[r].servers /\ x.seen = run[r].seen /\ x.full = run[r].full
      /\ x.knownFlavors = run[r].knownFlavors /\ x.spare = spare
      /\ x.projects = run[r].projects /\ x.pc = "assign" /\ x.at = run[r].at
      /\ x.todo = run[r].todo /\ x.server = run[r].server
  BY <1>2, <1>4 DEF RunWith
<1> HIDE DEF x
<1>6. run'[r] = x /\ (StageIsRight(r)' /\ DeletesAreRight(r)' => Good(r))
  BY <1>1, <1>4, <1>5, QuietStep DEF Fetched
<1>7. ServersOf(r, run[r].at)' = ServersOf(r, run[r].at)
  BY <1>5, <1>6 DEF ServersOf
<1> QED
  BY <1>1, <1>5, <1>6, <1>7 DEF StageIsRight, DeletesAreRight, RunIsRight

LEMMA AssignAddressesGood ==
  ASSUME TypeOK, HostsAreRight, NEW r \in Run, RunIsRight(r), AssignAddresses(r)
  PROVE  Good(r)
<1> DEFINE s == run[r].server
           free == run[r].free \cup run[r].spare
           new == Assigned(s, run[r].servers[s].ips, free)
           x == [run[r] EXCEPT !.pc = "update", !.server = None, !.free = {}, !.spare = {}]
<1>1. /\ run[r].pc = "assign" /\ UNCHANGED <<cloud, host, project, flavor, late, touched, events>>
      /\ \/ Aborted(r) /\ UNCHANGED owner
         \/ owner' = new /\ Step(r, x) /\ (host[s] # None \/ free = {})
  BY DEF AssignAddresses
<1>2. LateGrows(r)
  BY <1>1 DEF LateGrows, TypeOK, Observed
<1>3. CASE Aborted(r) /\ UNCHANGED owner
  BY <1>1, <1>2, <1>3, AbortGood DEF ralph
<1>4. CASE owner' = new /\ Step(r, x) /\ (host[s] # None \/ free = {})
  <2>1. /\ run[r] \in RunWith(DOMAIN run[r].servers, DOMAIN run[r].seen)
        /\ DOMAIN run[r].servers \in SUBSET Server
    BY TypeParts, RunTyped
  <2>2. s \in Server /\ run[r].at # None
    BY <1>1, <2>1 DEF RunIsRight, StageIsRight
  <2>3. owner \in [Address -> Server \cup {None, "other", "nobody"}]
    BY DEF TypeOK
  <2>4. \A a \in Address : owner'[a] \in {None, owner[a]} \/ (owner'[a] = s /\ host[s] # None)
    BY <1>4 DEF Assigned
  <2>5. owner' \in [Address -> Server \cup {None, "other", "nobody"}]
    BY <1>4, <2>2, <2>3 DEF Assigned
  <2>6. \A a \in Address : /\ owner'[a] \in Server => owner'[a] \in Hosts
                           /\ owner'[a] = "other" => owner[a] = "other"
    BY <2>2, <2>3, <2>4, ConfigAssumption DEF TypeOK, Hosts
  <2>7. /\ RowsTyped /\ SameCloud /\ flavor' \in [Flavor -> Provider \cup {None}]
        /\ \A f \in Flavor : /\ flavor[f] # None => flavor'[f] # None
                             /\ flavor'[f] = "other" => flavor[f] = "other"
        /\ project' \in [Project -> Provider \cup {None}]
        /\ \A p \in Project : /\ project[p] # None => project'[p] # None
                              /\ project'[p] = "other" => project[p] = "other"
    BY <1>1, TypeParts DEF RowsTyped, SameCloud
  <2>8. RowsTyped' /\ HostsAreRight' /\ Moves(Run) /\ Hosts' = Hosts
    BY <1>1, <2>5, <2>6, <2>7, RowsAdded
  <2>9. /\ x \in RunWith(DOMAIN run[r].servers, DOMAIN run[r].seen)
        /\ x.servers = run[r].servers /\ x.seen = run[r].seen /\ x.full = run[r].full
        /\ x.knownFlavors = run[r].knownFlavors /\ x.spare = {}
        /\ x.projects = run[r].projects /\ x.pc = "update" /\ x.at = run[r].at
        /\ x.todo = run[r].todo
    BY <2>1 DEF RunWith
  <2>10. Step(r, x)
    BY <1>4
  <2> HIDE DEF x, new, s
  <2>11. run'[r] = x /\ (StageIsRight(r)' /\ DeletesAreRight(r)' => Good(r))
    BY <1>1, <2>8, <2>9, <2>10, AddingStep DEF Fetched
  <2>12. ServersOf(r, run[r].at)' = ServersOf(r, run[r].at)
    BY <2>9, <2>11 DEF ServersOf
  <2> QED
    BY <1>1, <2>2, <2>9, <2>11, <2>12 DEF StageIsRight, DeletesAreRight, RunIsRight
<1> QED
  BY <1>1, <1>3, <1>4

\* What a run is about to delete is not alive, as far as it could see: a full run has
\* fetched all servers of the projects it has listed, an incremental one deletes what is
\* listed as deleted.
LEMMA DeletesAreChosen ==
  ASSUME TypeOK, NEW r \in Run, RunIsRight(r), Fetched(r),
         NEW s \in calculate_servers_to_delete(r)
  PROVE  s \in Server /\ (s \in late[r] \cup touched \/ (nova[s] # None /\ ~ Alive(s)))
<1>1. DOMAIN run[r].servers \in SUBSET Server /\ DOMAIN run[r].seen \in SUBSET Server
  BY TypeParts, RunTyped
<1>2. CopiesAreRight(r) /\ MissedAreLate(r)
  BY DEF RunIsRight
<1>3. CASE run[r].full
  <2>1. /\ s \in DOMAIN run[r].seen /\ run[r].seen[s].project \in run[r].projects
        /\ s \notin ServersOf(r, run[r].seen[s].project)
    BY <1>3 DEF calculate_servers_to_delete
  <2>2. s \in touched \/ (nova[s] # None /\ run[r].seen[s].project = nova[s].project)
    BY <1>2, <2>1 DEF CopiesAreRight
  <2>3. ASSUME Alive(s), s \notin touched
        PROVE  s \in late[r] \cup touched
    <3>1. run[r].seen[s].project = nova[s].project
      BY <2>2, <2>3
    <3>2. s \notin DOMAIN run[r].servers
      BY <1>2, <2>1, <3>1 DEF CopiesAreRight, ServersOf
    <3> QED
      BY <1>2, <1>3, <2>1, <2>3, <3>1, <3>2 DEF MissedAreLate
  <2> QED
    BY <1>1, <2>1, <2>2, <2>3
<1>4. CASE ~ run[r].full
  <2>1. s \in DOMAIN run[r].servers /\ ~ run[r].servers[s].alive
    BY <1>4 DEF calculate_servers_to_delete
  <2> QED
    BY <1>1, <1>2, <2>1 DEF CopiesAreRight
<1> QED
  BY <1>3, <1>4

LEMMA BeginDeletesGood ==
  ASSUME TypeOK, HostsAreRight, NEW r \in Run, RunIsRight(r), BeginDeletes(r)
  PROVE  Good(r)
<1> DEFINE todo == calculate_servers_to_delete(r)
           x == [run[r] EXCEPT !.pc = "delete", !.todo = todo,
                               !.left = run[r].known \ run[r].projects, !.at = None]
<1>1. /\ run[r].pc = "update" /\ Step(r, x) /\ UNCHANGED <<cloud, ralph, late, touched, events>>
  BY DEF BeginDeletes
<1>2. Fetched(r)
  BY <1>1 DEF Fetched
<1>3. \A s \in todo : s \in Server /\ (s \in late[r] \cup touched \/ (nova[s] # None /\ ~ Alive(s)))
  BY <1>2, DeletesAreChosen
<1> HIDE DEF todo
<1>4. run[r] \in RunWith(DOMAIN run[r].servers, DOMAIN run[r].seen)
  BY TypeParts, RunTyped
<1>5. /\ x \in RunWith(DOMAIN run[r].servers, DOMAIN run[r].seen)
      /\ x.servers = run[r].servers /\ x.seen = run[r].seen /\ x.full = run[r].full
      /\ x.knownFlavors = run[r].knownFlavors /\ x.spare = run[r].spare
      /\ x.projects = run[r].projects /\ x.pc = "delete" /\ x.todo = todo
  <2>1. todo \in SUBSET (Flavor \cup Server)
    BY <1>3
  <2>2. run[r].known \ run[r].projects \in SUBSET Project
    BY <1>4, RunFields
  <2> QED
    BY <1>4, <2>1, <2>2 DEF RunWith
<1> HIDE DEF x
<1>6. run'[r] = x /\ (StageIsRight(r)' /\ DeletesAreRight(r)' => Good(r))
  BY <1>1, <1>2, <1>5, QuietStep
<1>7. StageIsRight(r)'
  BY <1>3, <1>5, <1>6 DEF StageIsRight
<1>8. DeletesAreRight(r)'
  BY <1>1, <1>3, <1>5, <1>6 DEF DeletesAreRight, Alive, cloud
<1> QED
  BY <1>6, <1>7, <1>8

LEMMA DeleteServersGood ==
  ASSUME TypeOK, HostsAreRight, NEW r \in Run, RunIsRight(r), _delete_servers(r)
  PROVE  Good(r)
<1>1. run[r].pc = "delete" /\ UNCHANGED <<cloud, project, flavor, late, touched, events>>
  BY DEF _delete_servers
<1>2. PICK s \in run[r].todo :
        /\ WithoutHosts({s} \cap Hosts)
        /\ Step(r, [run[r] EXCEPT !.todo = IF s \in Hosts THEN @ \ {s} ELSE {}])
  BY DEF _delete_servers
<1> DEFINE x == [run[r] EXCEPT !.todo = IF s \in Hosts THEN @ \ {s} ELSE {}]
<1>3. run[r] \in RunWith(DOMAIN run[r].servers, DOMAIN run[r].seen)
  BY TypeParts, RunTyped
<1>4. /\ x \in RunWith(DOMAIN run[r].servers, DOMAIN run[r].seen)
      /\ x.servers = run[r].servers /\ x.seen = run[r].seen /\ x.full = run[r].full
      /\ x.knownFlavors = run[r].knownFlavors /\ x.spare = run[r].spare
      /\ x.projects = run[r].projects /\ x.pc = "delete" /\ x.todo \subseteq run[r].todo
  BY <1>1, <1>3 DEF RunWith
<1>5. Step(r, x)
  BY <1>2
<1> HIDE DEF x
<1>6. RowsTyped /\ SameCloud
  BY <1>1, TypeParts DEF SameCloud
<1>7. RowsTyped' /\ HostsAreRight' /\ Moves(Run)
  BY <1>1, <1>2, <1>6, HostsGo
<1>8. Hosts' \subseteq Hosts
  BY <1>2 DEF WithoutHosts, Hosts
<1>9. run'[r] = x /\ (StageIsRight(r)' /\ DeletesAreRight(r)' => Good(r))
  BY <1>1, <1>4, <1>5, <1>7, <1>8, AddingStep DEF Fetched
<1>10. StageIsRight(r)'
  BY <1>1, <1>4, <1>9 DEF StageIsRight, RunIsRight
<1>11. DeletesAreRight(r)'
  BY <1>1, <1>4, <1>9 DEF DeletesAreRight, RunIsRight, Alive, cloud
<1> QED
  BY <1>9, <1>10, <1>11

LEMMA CountChildrenGood ==
  ASSUME TypeOK, HostsAreRight, NEW r \in Run, RunIsRight(r), CountChildren(r)
  PROVE  Good(r)
<1>1. /\ run[r].pc = "delete" /\ run[r].todo = {}
      /\ UNCHANGED <<cloud, ralph, late, touched, events>>
  BY DEF CountChildren
<1>2. PICK p \in run[r].left :
        \/ Aborted(r)
        \/ Step(r, [run[r] EXCEPT !.left = @ \ {p}])
        \/ OwnProject(p) /\ Step(r, [run[r] EXCEPT !.left = @ \ {p}, !.pc = "delete_project",
                                                   !.at = p])
  BY DEF CountChildren
<1>3. run[r] \in RunWith(DOMAIN run[r].servers, DOMAIN run[r].seen)
  BY TypeParts, RunTyped
<1>4. p \in Project
  BY <1>3, RunFields
<1>5. CASE Aborted(r)
  <2>1. LateGrows(r)
    BY <1>1 DEF LateGrows, TypeOK, Observed
  <2> QED
    BY <1>1, <1>5, <2>1, AbortGood
<1>6. CASE ~ Aborted(r)
  <2>1. PICK x : /\ x \in RunWith(DOMAIN run[r].servers, DOMAIN run[r].seen) /\ Step(r, x)
                 /\ x.servers = run[r].servers /\ x.seen = run[r].seen /\ x.full = run[r].full
                 /\ x.knownFlavors = run[r].knownFlavors /\ x.spare = run[r].spare
                 /\ x.projects = run[r].projects /\ x.todo = run[r].todo
                 /\ \/ x.pc = "delete"
                    \/ x.pc = "delete_project" /\ x.at = p /\ OwnProject(p)
    <3>1. CASE Step(r, [run[r] EXCEPT !.left = @ \ {p}])
      <4> DEFINE x == [run[r] EXCEPT !.left = @ \ {p}]
      <4>1. /\ x \in RunWith(DOMAIN run[r].servers, DOMAIN run[r].seen)
            /\ x.servers = run[r].servers /\ x.seen = run[r].seen /\ x.full = run[r].full
            /\ x.knownFlavors = run[r].knownFlavors /\ x.spare = run[r].spare
            /\ x.projects = run[r].projects /\ x.todo = run[r].todo /\ x.pc = "delete"
        BY <1>1, <1>3 DEF RunWith
      <4>2. Step(r, x)
        BY <3>1
      <4> HIDE DEF x
      <4> QED
        BY <4>1, <4>2
    <3>2. CASE OwnProject(p) /\ Step(r, [run[r] EXCEPT !.left = @ \ {p},
                                           !.pc = "delete_project", !.at = p])
      <4> DEFINE x == [run[r] EXCEPT !.left = @ \ {p}, !.pc = "delete_project", !.at = p]
      <4>1. /\ x \in RunWith(DOMAIN run[r].servers, DOMAIN run[r].seen)
            /\ x.servers = run[r].servers /\ x.seen = run[r].seen /\ x.full = run[r].full
            /\ x.knownFlavors = run[r].knownFlavors /\ x.spare = run[r].spare
            /\ x.projects = run[r].projects /\ x.todo = run[r].todo
            /\ x.pc = "delete_project" /\ x.at = p
        BY <1>3, <1>4 DEF RunWith
      <4>2. Step(r, x)
        BY <3>2
      <4> HIDE DEF x
      <4> QED
        BY <3>2, <4>1, <4>2
    <3> QED
      BY <1>2, <1>6, <3>1, <3>2
  <2>2. run'[r] = x /\ (StageIsRight(r)' /\ DeletesAreRight(r)' => Good(r))
    BY <1>1, <2>1, QuietStep DEF Fetched
  <2>3. StageIsRight(r)'
    BY <1>1, <1>4, <2>1, <2>2 DEF StageIsRight, OwnProject, ralph
  <2>4. DeletesAreRight(r)'
    BY <1>1, <2>1, <2>2 DEF DeletesAreRight
  <2> QED
    BY <2>2, <2>3, <2>4
<1> QED
  BY <1>5, <1>6

LEMMA DeleteProjectGood ==
  ASSUME TypeOK, HostsAreRight, NEW r \in Run, RunIsRight(r), DeleteProject(r)
  PROVE  Good(r)
<1> DEFINE x == [run[r] EXCEPT !.pc = "delete", !.at = None]
<1>1. /\ run[r].pc = "delete_project" /\ WithoutProject(run[r].at) /\ Step(r, x)
      /\ UNCHANGED <<cloud, flavor, owner, late, touched, events>>
  BY DEF DeleteProject
<1>2. run[r].at \in Project /\ run[r].todo = {}
  BY <1>1 DEF RunIsRight, StageIsRight
<1>3. run[r] \in RunWith(DOMAIN run[r].servers, DOMAIN run[r].seen)
  BY TypeParts, RunTyped
<1>4. /\ x \in RunWith(DOMAIN run[r].servers, DOMAIN run[r].seen)
      /\ x.servers = run[r].servers /\ x.seen = run[r].seen /\ x.full = run[r].full
      /\ x.knownFlavors = run[r].knownFlavors /\ x.spare = run[r].spare
      /\ x.projects = run[r].projects /\ x.pc = "delete" /\ x.todo = {}
  BY <1>2, <1>3 DEF RunWith
<1> HIDE DEF x
<1>5. RowsTyped /\ SameCloud
  BY <1>1, TypeParts DEF SameCloud
<1>6. RowsTyped' /\ HostsAreRight' /\ Moves(Run)
  BY <1>1, <1>2, <1>5, ProjectGoes
<1>7. Hosts' \subseteq Hosts
  BY <1>1 DEF WithoutProject, Hosts
<1>8. run'[r] = x /\ (StageIsRight(r)' /\ DeletesAreRight(r)' => Good(r))
  BY <1>1, <1>4, <1>6, <1>7, AddingStep DEF Fetched
<1> QED
  BY <1>4, <1>8 DEF StageIsRight, DeletesAreRight

LEMMA BeginFlavorsGood ==
  ASSUME TypeOK, HostsAreRight, NEW r \in Run, RunIsRight(r), BeginFlavors(r)
  PROVE  Good(r)
<1> DEFINE gone == run[r].knownFlavors \ run[r].flavors
           x == [run[r] EXCEPT !.pc = "delete_flavors", !.todo = gone]
<1>1. /\ run[r].pc = "delete" /\ UNCHANGED <<cloud, ralph, late, touched, events>>
      /\ Step(r, Idle) \/ Step(r, x)
  BY DEF BeginFlavors
<1>2. CASE Step(r, Idle)
  <2>1. LateGrows(r)
    BY <1>1 DEF LateGrows, TypeOK, Observed
  <2> QED
    BY <1>1, <1>2, <2>1, AbortGood DEF Aborted
<1>3. CASE Step(r, x)
  <2>1. run[r] \in RunWith(DOMAIN run[r].servers, DOMAIN run[r].seen)
    BY TypeParts, RunTyped
  <2>2. gone \subseteq run[r].knownFlavors /\ gone \in SUBSET Flavor
    BY KnownTyped
  <2> HIDE DEF gone
  <2>3. /\ x \in RunWith(DOMAIN run[r].servers, DOMAIN run[r].seen)
        /\ x.servers = run[r].servers /\ x.seen = run[r].seen /\ x.full = run[r].full
        /\ x.knownFlavors = run[r].knownFlavors /\ x.spare = run[r].spare
        /\ x.projects = run[r].projects /\ x.pc = "delete_flavors" /\ x.todo = gone
    BY <2>1, <2>2 DEF RunWith
  <2> HIDE DEF x
  <2>4. run'[r] = x /\ (StageIsRight(r)' /\ DeletesAreRight(r)' => Good(r))
    BY <1>1, <1>3, <2>3, QuietStep DEF Fetched
  <2> QED
    BY <2>2, <2>3, <2>4 DEF StageIsRight, DeletesAreRight
<1> QED
  BY <1>1, <1>2, <1>3

\* One flavor less to do; the run ends with the last.
LEMMA FlavorDoneGood ==
  ASSUME TypeOK, HostsAreRight, NEW r \in Run, RunIsRight(r), NEW f,
         run[r].pc \in {"delete_flavors", "delete_flavor"}, Step(r, FlavorDone(r, f)),
         UNCHANGED <<cloud, late, touched, events>>,
         RowsTyped', HostsAreRight', Moves(Run), Hosts' \subseteq Hosts
  PROVE  Good(r)
<1> DEFINE x == [run[r] EXCEPT !.pc = "delete_flavors", !.todo = @ \ {f}, !.at = None]
<1>1. Step(r, Idle) \/ Step(r, x)
  BY DEF FlavorDone
<1>2. CASE Step(r, Idle)
  <2>1. LateGrows(r) /\ touched' \subseteq Server
    BY DEF LateGrows, TypeOK, Observed
  <2>2. \A q \in Run \ {r} : Moves({q})
    BY DEF Moves
  <2> QED
    BY <1>2, <2>1, <2>2, IdleIsIdle, NothingFetched
<1>3. CASE Step(r, x)
  <2>1. run[r] \in RunWith(DOMAIN run[r].servers, DOMAIN run[r].seen)
    BY TypeParts, RunTyped
  <2>2. run[r].todo \subseteq run[r].knownFlavors /\ run[r].knownFlavors \subseteq Flavor
    BY KnownTyped DEF RunIsRight, StageIsRight
  <2>3. /\ x \in RunWith(DOMAIN run[r].servers, DOMAIN run[r].seen)
        /\ x.servers = run[r].servers /\ x.seen = run[r].seen /\ x.full = run[r].full
        /\ x.knownFlavors = run[r].knownFlavors /\ x.spare = run[r].spare
        /\ x.projects = run[r].projects /\ x.pc = "delete_flavors"
        /\ x.todo \subseteq run[r].knownFlavors
    BY <2>1, <2>2 DEF RunWith
  <2> HIDE DEF x
  <2>4. run'[r] = x /\ (StageIsRight(r)' /\ DeletesAreRight(r)' => Good(r))
    BY <1>3, <2>3, AddingStep DEF Fetched
  <2> QED
    BY <2>3, <2>4 DEF StageIsRight, DeletesAreRight
<1> QED
  BY <1>1, <1>2, <1>3

LEMMA CountHostsGood ==
  ASSUME TypeOK, HostsAreRight, NEW r \in Run, RunIsRight(r), CountHosts(r)
  PROVE  Good(r)
<1>1. run[r].pc = "delete_flavors" /\ UNCHANGED <<cloud, ralph, late, touched, events>>
  BY DEF CountHosts
<1>2. PICK f \in run[r].todo :
        \/ Aborted(r)
        \/ Step(r, FlavorDone(r, f))
        \/ /\ \A s \in Hosts : host[s].flavor # f
           /\ Step(r, [run[r] EXCEPT !.pc = "delete_flavor", !.at = f])
  BY DEF CountHosts
<1>3. f \in run[r].knownFlavors /\ f \in Flavor /\ run[r].todo \subseteq run[r].knownFlavors
  BY <1>1, KnownTyped DEF RunIsRight, StageIsRight
<1>4. LateGrows(r)
  BY <1>1 DEF LateGrows, TypeOK, Observed
<1>5. CASE Aborted(r)
  BY <1>1, <1>4, <1>5, AbortGood
<1>6. CASE Step(r, FlavorDone(r, f))
  <2>1. /\ RowsTyped /\ SameCloud /\ UNCHANGED ralph /\ \A q \in Run : late[q] \subseteq late'[q]
    BY <1>1, TypeParts DEF SameCloud
  <2>2. RowsTyped' /\ HostsAreRight' /\ Moves(Run)
    BY <2>1, RowsStay
  <2>3. Hosts' = Hosts
    BY <1>1 DEF Hosts, ralph
  <2> QED
    BY <1>1, <1>6, <2>2, <2>3, FlavorDoneGood
<1>7. CASE /\ \A s \in Hosts : host[s].flavor # f
           /\ Step(r, [run[r] EXCEPT !.pc = "delete_flavor", !.at = f])
  <2> DEFINE x == [run[r] EXCEPT !.pc = "delete_flavor", !.at = f]
  <2>1. run[r] \in RunWith(DOMAIN run[r].servers, DOMAIN run[r].seen)
    BY TypeParts, RunTyped
  <2>2. /\ x \in RunWith(DOMAIN run[r].servers, DOMAIN run[r].seen)
        /\ x.servers = run[r].servers /\ x.seen = run[r].seen /\ x.full = run[r].full
        /\ x.knownFlavors = run[r].knownFlavors /\ x.spare = run[r].spare
        /\ x.projects = run[r].projects /\ x.pc = "delete_flavor" /\ x.todo = run[r].todo
        /\ x.at = f
    BY <1>3, <2>1 DEF RunWith
  <2>3. Step(r, x)
    BY <1>7
  <2> HIDE DEF x
  <2>4. run'[r] = x /\ (StageIsRight(r)' /\ DeletesAreRight(r)' => Good(r))
    BY <1>1, <2>2, <2>3, QuietStep DEF Fetched
  <2>5. StageIsRight(r)'
    BY <1>3, <2>2, <2>4 DEF StageIsRight
  <2>6. DeletesAreRight(r)'
    BY <1>1, <1>7, <2>2, <2>4 DEF DeletesAreRight, Hosts, ralph
  <2> QED
    BY <2>4, <2>5, <2>6
<1> QED
  BY <1>2, <1>5, <1>6, <1>7

LEMMA DeleteFlavorGood ==
  ASSUME TypeOK, HostsAreRight, NEW r \in Run, RunIsRight(r), DeleteFlavor(r)
  PROVE  Good(r)
<1>1. /\ run[r].pc = "delete_flavor" /\ UNCHANGED <<cloud, project, late, touched, events>>
      /\ \/ Aborted(r) /\ UNCHANGED <<flavor, host, owner>>
         \/ WithoutFlavor(run[r].at) /\ Step(r, FlavorDone(r, run[r].at))
  BY DEF DeleteFlavor
<1>2. CASE Aborted(r) /\ UNCHANGED <<flavor, host, owner>>
  <2>1. LateGrows(r) /\ UNCHANGED <<cloud, ralph, touched>>
    BY <1>1, <1>2 DEF LateGrows, TypeOK, Observed, ralph
  <2> QED
    BY <1>2, <2>1, AbortGood
<1>3. CASE WithoutFlavor(run[r].at) /\ Step(r, FlavorDone(r, run[r].at))
  <2>1. run[r].at \in Flavor
    BY <1>1, KnownTyped DEF RunIsRight, StageIsRight
  <2>2. RowsTyped /\ SameCloud
    BY <1>1, TypeParts DEF SameCloud
  <2>3. RowsTyped' /\ HostsAreRight' /\ Moves(Run)
    BY <1>1, <1>3, <2>1, <2>2, FlavorGoes
  <2>4. Hosts' \subseteq Hosts
    BY <1>3 DEF WithoutFlavor, WithoutHosts, Hosts
  <2> QED
    BY <1>1, <1>3, <2>3, <2>4, FlavorDoneGood
<1> QED
  BY <1>1, <1>2, <1>3

\* Whatever a run does.
LEMMA RunStepGood ==
  ASSUME TypeOK, HostsAreRight, NEW r \in Run, RunIsRight(r), RunStep(r)
  PROVE  Good(r)
<1>1. CASE get_openstack_projects(r)
  BY <1>1, FetchProjectsGood
<1>2. CASE get_openstack_instances_data(r)
  BY <1>2, FetchServersGood
<1>3. CASE get_ralph_servers_data(r)
  BY <1>3, SnapshotGood
<1>4. CASE _add_or_modify_flavours(r)
  BY <1>4, FlavorsGood
<1>5. CASE _add_or_update_projects(r)
  BY <1>5, ProjectsGood
<1>6. CASE FindAddresses(r) \/ AssignAddresses(r)
  BY <1>6, FindAddressesGood, AssignAddressesGood
<1>7. CASE \E s \in DOMAIN run[r].servers : _add_server(r, s) \/ _update_server(r, s)
  BY <1>7, AddServerGood, UpdateServerGood
<1>8. CASE BeginDeletes(r)
  BY <1>8, BeginDeletesGood
<1>9. CASE _delete_servers(r)
  BY <1>9, DeleteServersGood
<1>10. CASE CountChildren(r)
  BY <1>10, CountChildrenGood
<1>11. CASE DeleteProject(r)
  BY <1>11, DeleteProjectGood
<1>12. CASE BeginFlavors(r)
  BY <1>12, BeginFlavorsGood
<1>13. CASE CountHosts(r)
  BY <1>13, CountHostsGood
<1>14. CASE DeleteFlavor(r)
  BY <1>14, DeleteFlavorGood
<1> QED
  BY <1>1, <1>2, <1>3, <1>4, <1>5, <1>6, <1>7, <1>8, <1>9, <1>10, <1>11, <1>12, <1>13, <1>14
     DEF RunStep

-----------------------------------------------------------------------------
(* Steps of OpenStack and users *)

\* A step of theirs keeps what it changes right.
Sound ==
  /\ RowsTyped' /\ HostsAreRight' /\ Moves(Run) /\ touched' \subseteq Server
  /\ late' \in [Run -> SUBSET Observed]

\* OpenStack changes a server it has, or boots a new one.
LEMMA ServerChanges ==
  ASSUME TypeOK, HostsAreRight, NEW s \in Server, NEW i \in Instance, nova' = [nova EXCEPT ![s] = i],
         nova[s] # None => i.project = nova[s].project /\ (i.alive => nova[s].alive),
         UNCHANGED <<keystone, catalogue, ralph, late, touched>>
  PROVE  Sound
<1>1. nova'[s] = i /\ i # None /\ \A x \in Server \ {s} : nova'[x] = nova[x]
  BY ConfigAssumption DEF TypeOK
<1>2. nova' \in [Server -> Instance \cup {None}]
  BY DEF TypeOK
<1>3. Hosts' = Hosts
  BY DEF Hosts, ralph
<1>4. RowsTyped'
  BY <1>2, <1>3, TypeParts DEF RowsTyped, ralph, Flavors
<1>5. HostsAreRight'
  BY <1>1, <1>3 DEF HostsAreRight, Hosts, ralph
<1>6. Moves(Run)
  BY <1>1, <1>3 DEF Moves, Alive, ralph, Claims
<1> QED
  BY <1>4, <1>5, <1>6 DEF Sound, TypeOK, Observed

LEMMA BootSound ==
  ASSUME TypeOK, HostsAreRight, NEW s \in Server, Boot(s)
  PROVE  Sound
<1>1. PICK p \in keystone, f \in catalogue, S \in SUBSET Address :
        nova' = [nova EXCEPT ![s] = [alive |-> TRUE, project |-> p, flavor |-> f, ips |-> S]]
  BY DEF Boot
<1> DEFINE i == [alive |-> TRUE, project |-> p, flavor |-> f, ips |-> S]
<1>2. i \in Instance
  BY DEF Instance, TypeOK
<1>3. nova[s] = None /\ UNCHANGED <<keystone, catalogue, ralph, late, touched>>
  BY DEF Boot
<1>4. nova' = [nova EXCEPT ![s] = i]
  BY <1>1
<1> HIDE DEF i
<1> QED
  BY <1>2, <1>3, <1>4, ServerChanges

LEMMA TerminateSound ==
  ASSUME TypeOK, HostsAreRight, NEW s \in Server, Terminate(s)
  PROVE  Sound
<1> DEFINE i == [nova[s] EXCEPT !.alive = FALSE]
<1>1. /\ nova[s] \in Instance /\ nova' = [nova EXCEPT ![s] = i]
      /\ UNCHANGED <<keystone, catalogue, ralph, late, touched>>
  BY DEF Terminate, Alive, TypeOK
<1>2. i \in Instance /\ i.project = nova[s].project /\ i.alive = FALSE
  BY <1>1 DEF Instance
<1> HIDE DEF i
<1> QED
  BY <1>1, <1>2, ServerChanges

LEMMA ModifySound ==
  ASSUME TypeOK, HostsAreRight, NEW s \in Server, Modify(s)
  PROVE  Sound
<1>1. /\ nova[s] \in Instance /\ UNCHANGED <<keystone, catalogue, ralph, late, touched>>
  BY DEF Modify, Alive, TypeOK
<1>2. CASE \E f \in catalogue : nova' = [nova EXCEPT ![s].flavor = f]
  <2>1. PICK f \in Flavor : nova' = [nova EXCEPT ![s].flavor = f]
    BY <1>2 DEF TypeOK
  <2> DEFINE i == [nova[s] EXCEPT !.flavor = f]
  <2>2. i \in Instance /\ i.project = nova[s].project /\ i.alive = nova[s].alive
    BY <1>1 DEF Instance
  <2>3. nova' = [nova EXCEPT ![s] = i]
    BY <2>1
  <2> HIDE DEF i
  <2> QED
    BY <1>1, <2>2, <2>3, ServerChanges
<1>3. CASE \E S \in SUBSET Address : nova' = [nova EXCEPT ![s].ips = S]
  <2>1. PICK S \in SUBSET Address : nova' = [nova EXCEPT ![s].ips = S]
    BY <1>3
  <2> DEFINE i == [nova[s] EXCEPT !.ips = S]
  <2>2. i \in Instance /\ i.project = nova[s].project /\ i.alive = nova[s].alive
    BY <1>1 DEF Instance
  <2>3. nova' = [nova EXCEPT ![s] = i]
    BY <2>1
  <2> HIDE DEF i
  <2> QED
    BY <1>1, <2>2, <2>3, ServerChanges
<1> QED
  BY <1>2, <1>3 DEF Modify

\* What OpenStack lists says nothing of the rows.
LEMMA ListsSound ==
  ASSUME TypeOK, HostsAreRight, keystone' \subseteq Project, catalogue' \subseteq Flavor,
         UNCHANGED <<nova, ralph, late, touched>>
  PROVE  Sound
<1>1. Hosts' = Hosts
  BY DEF Hosts, ralph
<1>2. RowsTyped'
  BY <1>1, TypeParts DEF RowsTyped, ralph, Flavors
<1>3. HostsAreRight'
  BY <1>1 DEF HostsAreRight, Hosts, ralph
<1>4. Moves(Run)
  BY <1>1 DEF Moves, Alive, ralph, Claims
<1> QED
  BY <1>2, <1>3, <1>4 DEF Sound, TypeOK, Observed

\* Users delete a host, a project, or a flavor.
LEMMA ApiHostSound ==
  ASSUME TypeOK, HostsAreRight, NEW s \in Server, ApiDeletesHost(s)
  PROVE  Sound
<1>1. /\ WithoutHosts({s}) /\ UNCHANGED <<project, flavor, late>> /\ RowsTyped
      /\ SameCloud /\ touched' \subseteq Server /\ late' \in [Run -> SUBSET Observed]
  BY TypeParts DEF ApiDeletesHost, SameCloud, RestTyped
<1> QED
  BY <1>1, HostsGo DEF Sound

LEMMA ApiProjectSound ==
  ASSUME TypeOK, HostsAreRight, NEW p \in Project, ApiDeletesProject(p)
  PROVE  Sound
<1>1. /\ WithoutProject(p) /\ UNCHANGED <<flavor, owner, late>> /\ RowsTyped
      /\ SameCloud /\ touched' \subseteq Server /\ late' \in [Run -> SUBSET Observed]
  BY TypeParts DEF ApiDeletesProject, SameCloud, RestTyped
<1> QED
  BY <1>1, ProjectGoes DEF Sound

LEMMA ApiFlavorSound ==
  ASSUME TypeOK, HostsAreRight, NEW f \in Flavor, ApiDeletesFlavor(f)
  PROVE  Sound
<1>1. /\ WithoutFlavor(f) /\ UNCHANGED <<project, late>> /\ RowsTyped
      /\ SameCloud /\ touched' \subseteq Server /\ late' \in [Run -> SUBSET Observed]
  BY TypeParts DEF ApiDeletesFlavor, SameCloud, RestTyped
<1> QED
  BY <1>1, FlavorGoes DEF Sound

\* A host that users have made or changed is marked.
LEMMA ApiSavesHostSound ==
  ASSUME TypeOK, HostsAreRight, NEW s \in Server, ApiSavesHost(s)
  PROVE  Sound
<1>1. PICK p \in {None} \cup {q \in Project : project[q] # None}, f \in Flavors,
           ips \in SUBSET Address :
        /\ host' = [host EXCEPT ![s] = [project |-> p, flavor |-> f]]
        /\ owner' = Assigned(s, ips, {a \in ips : owner[a] \in {None, "nobody"}})
        /\ touched' = IF host[s] = [project |-> p, flavor |-> f] THEN touched
                      ELSE touched \cup {s}
  BY DEF ApiSavesHost
<1> DEFINE h == [project |-> p, flavor |-> f]
           free == {a \in ips : owner[a] \in {None, "nobody"}}
<1>2. /\ UNCHANGED <<cloud, project, flavor, late>> /\ Flavors' = Flavors
      /\ late' \in [Run -> SUBSET Observed] /\ touched' \subseteq Server /\ touched \subseteq touched'
  BY <1>1 DEF ApiSavesHost, Flavors, TypeOK, Observed
<1>3. h \in Host /\ h.project = p /\ h.flavor = f
  BY DEF Host, Flavors
<1> HIDE DEF h
<1>4. host'[s] = h /\ h # None /\ \A x \in Server \ {s} : host'[x] = host[x]
  BY <1>1, <1>3, ConfigAssumption DEF TypeOK, h
<1>5. Hosts' = Hosts \cup {s}
  BY <1>4 DEF Hosts
<1>6. host' \in [Server -> Host \cup {None}]
  BY <1>1, <1>3 DEF TypeOK, h
<1>7. \A x \in Hosts' : /\ host'[x].flavor \in Flavors
                        /\ host'[x].project # None => project[host'[x].project] # None
  BY <1>3, <1>4, <1>5 DEF TypeOK, Hosts
<1>8. host[s] = h \/ s \in touched'
  BY <1>1 DEF h
<1>9. owner' \in [Address -> Server \cup {None, "other", "nobody"}]
  BY <1>1 DEF Assigned, TypeOK
<1>10. \A a \in Address : owner'[a] \in {s, None, owner[a]}
  BY <1>1 DEF Assigned
<1>11. \A a \in Address : /\ owner'[a] \in Server => owner'[a] \in Hosts'
                          /\ owner'[a] = "other" => owner[a] = "other"
  BY <1>5, <1>10, ConfigAssumption DEF TypeOK
<1>12. RowsTyped'
  BY <1>2, <1>6, <1>7, <1>9, <1>11, TypeParts DEF RowsTyped, cloud
<1>13. HostsAreRight'
  <2> SUFFICES ASSUME NEW x \in Hosts', x \notin touched'
               PROVE  nova[x] # None /\ host'[x].project \in {None, nova[x].project}
    BY <1>2 DEF HostsAreRight, cloud
  <2>1. x \in Hosts /\ host'[x] = host[x] /\ x \notin touched
    BY <1>2, <1>4, <1>5, <1>8 DEF Hosts
  <2> QED
    BY <2>1 DEF HostsAreRight
<1>14. ASSUME NEW x \in Hosts'
       PROVE  (x \in Hosts /\ host'[x].flavor = host[x].flavor) \/ x \in touched'
  BY <1>4, <1>5, <1>8 DEF Hosts
<1>15. Moves(Run)
  BY <1>2, <1>11, <1>14 DEF Moves, Alive, cloud, Claims
<1> QED
  BY <1>2, <1>12, <1>13, <1>15 DEF Sound

\* An address or a flavor that others get is made known to the runs.
LEMMA UserTakesAddressSound ==
  ASSUME TypeOK, HostsAreRight, NEW b \in Address, UserTakesAddress(b)
  PROVE  Sound
<1>1. /\ owner' = [owner EXCEPT ![b] = "other"] /\ late' = [q \in Run |-> late[q] \cup {b}]
      /\ UNCHANGED <<cloud, host, project, flavor, touched>>
  BY DEF UserTakesAddress, LostToOthers
<1>2. late' \in [Run -> SUBSET Observed] /\ touched' \subseteq Server
  BY <1>1 DEF TypeOK, Observed
<1>3. owner' \in [Address -> Server \cup {None, "other", "nobody"}]
  BY <1>1 DEF TypeOK
<1>4. \A a \in Address : owner'[a] = owner[a] \/ (a = b /\ owner'[a] = "other")
  BY <1>1 DEF TypeOK
<1>5. Hosts' = Hosts /\ Flavors' = Flavors
  BY <1>1 DEF Hosts, Flavors
<1>6. RowsTyped'
  BY <1>1, <1>3, <1>4, <1>5, TypeParts, ConfigAssumption DEF RowsTyped, cloud
<1>7. HostsAreRight'
  BY <1>1, <1>5 DEF HostsAreRight, cloud
<1>8. \A q \in Run : Claims(q) /\ late[q] \subseteq late'[q]
  BY <1>1, <1>4 DEF Claims
<1>9. Moves(Run)
  BY <1>1, <1>5, <1>8 DEF Moves, Alive, cloud
<1> QED
  BY <1>2, <1>6, <1>7, <1>9 DEF Sound

LEMMA ApiAddsFlavorSound ==
  ASSUME TypeOK, HostsAreRight, NEW f \in Flavor, ApiAddsFlavor(f)
  PROVE  Sound
<1>1. /\ flavor' = [flavor EXCEPT ![f] = "other"] /\ late' = [q \in Run |-> late[q] \cup {f}]
      /\ UNCHANGED <<cloud, host, project, owner, touched>>
  BY DEF ApiAddsFlavor, LostToOthers
<1>2. late' \in [Run -> SUBSET Observed] /\ touched' \subseteq Server
  BY <1>1 DEF TypeOK, Observed
<1>3. flavor' \in [Flavor -> Provider \cup {None}]
  BY <1>1 DEF TypeOK, Provider
<1>4. \A g \in Flavor : flavor'[g] = flavor[g] \/ (g = f /\ flavor'[g] = "other")
  BY <1>1 DEF TypeOK
<1>5. Hosts' = Hosts /\ Flavors \subseteq Flavors'
  BY <1>1, <1>4, ConfigAssumption DEF Hosts, Flavors
<1>6. RowsTyped'
  BY <1>1, <1>3, <1>5, TypeParts DEF RowsTyped, cloud
<1>7. HostsAreRight'
  BY <1>1, <1>5 DEF HostsAreRight, cloud
<1>8. \A q \in Run : Claims(q) /\ late[q] \subseteq late'[q]
  BY <1>1, <1>4 DEF Claims
<1>9. Moves(Run)
  BY <1>1, <1>5, <1>8 DEF Moves, Alive, cloud
<1> QED
  BY <1>2, <1>6, <1>7, <1>9 DEF Sound

\* A step of OpenStack or a user.
Outside ==
  \/ \E s \in Server : Boot(s) \/ Terminate(s) \/ Modify(s) \/ ApiDeletesHost(s) \/ ApiSavesHost(s)
  \/ \E p \in Project : ApiDeletesProject(p)
  \/ \E a \in Address : UserTakesAddress(a)
  \/ \E f \in Flavor : ApiDeletesFlavor(f) \/ ApiAddsFlavor(f)
  \/ ChangeProjects
  \/ ChangeFlavors

LEMMA OutsideSound ==
  ASSUME TypeOK, HostsAreRight, Outside
  PROVE  Sound /\ UNCHANGED run /\ events' \in Nat
<1>1. Change
  BY DEF Outside, Boot, Terminate, Modify, ApiDeletesHost, ApiSavesHost, ApiDeletesProject,
         UserTakesAddress, ApiDeletesFlavor, ApiAddsFlavor, ChangeProjects, ChangeFlavors
<1>2. UNCHANGED run /\ events' \in Nat
  BY <1>1, TypeParts DEF Change, Event, RestTyped
<1>3. ASSUME NEW s \in Server, Boot(s) \/ Terminate(s) \/ Modify(s) \/ ApiDeletesHost(s) \/ ApiSavesHost(s)
      PROVE  Sound
  BY <1>3, BootSound, TerminateSound, ModifySound, ApiHostSound, ApiSavesHostSound
<1>4. ASSUME NEW f \in Flavor, ApiDeletesFlavor(f) \/ ApiAddsFlavor(f)
      PROVE  Sound
  BY <1>4, ApiFlavorSound, ApiAddsFlavorSound
<1>5. keystone \subseteq Project /\ catalogue \subseteq Flavor
  BY DEF TypeOK
<1>6. CASE ChangeProjects
  <2>1. /\ UNCHANGED <<nova, catalogue, ralph, late, touched>>
        /\ \E p \in Project : keystone' = (keystone \ {p}) \cup ({p} \ keystone)
    BY <1>6 DEF ChangeProjects
  <2>2. keystone' \subseteq Project /\ catalogue' \subseteq Flavor
    BY <1>5, <2>1
  <2> QED
    BY <1>2, <2>1, <2>2, ListsSound
<1>7. CASE ChangeFlavors
  <2>1. /\ UNCHANGED <<nova, keystone, ralph, late, touched>>
        /\ \E f \in Flavor : catalogue' = (catalogue \ {f}) \cup ({f} \ catalogue)
    BY <1>7 DEF ChangeFlavors
  <2>2. keystone' \subseteq Project /\ catalogue' \subseteq Flavor
    BY <1>5, <2>1
  <2> QED
    BY <1>2, <2>1, <2>2, ListsSound
<1> QED
  BY <1>2, <1>3, <1>4, <1>6, <1>7, ApiProjectSound, UserTakesAddressSound DEF Outside

-----------------------------------------------------------------------------
(* The invariant *)

LEMMA InitInv == Init => IInv
<1> SUFFICES ASSUME Init
             PROVE  IInv
  OBVIOUS
<1>1. PICK x \in Start :
        nova = x.nova /\ project = x.project /\ flavor = x.flavor /\ owner = x.owner
  BY DEF Init
<1>2. x \in [nova : [Server -> Instance \cup {None}],
             project : [Project -> Provider \cup {None}], flavor : [Flavor -> {"other", None}],
             owner : [Address -> {None, "other", "nobody"}]]
  BY ConfigAssumption
<1>3. /\ nova \in [Server -> Instance \cup {None}] /\ project \in [Project -> Provider \cup {None}]
      /\ flavor \in [Flavor -> Provider \cup {None}]
      /\ owner \in [Address -> {None, "other", "nobody"}]
  BY <1>1, <1>2 DEF Provider
<1>4. \A s \in Server : nova[s] # None => nova[s].project \in Project /\ nova[s].flavor \in Flavor
  BY <1>3, RecordFields
<1>5. keystone \subseteq Project /\ catalogue \subseteq Flavor
  BY <1>4 DEF Init
<1>6. host = [s \in Server |-> None] /\ Hosts = {}
  BY DEF Init, Hosts
<1>7. \A a \in Address : owner[a] \notin Server
  BY <1>3, ConfigAssumption
<1>8. RowsTyped /\ HostsAreRight
  BY <1>3, <1>5, <1>6, <1>7 DEF RowsTyped, HostsAreRight
<1>9. run = [r \in Run |-> Idle]
  BY DEF Init
<1>10. RunsTyped
  <2>1. Idle \in RunWith({}, {}) /\ {} \in SUBSET Server
    BY IdleIsIdle
  <2> QED
    BY <1>9, <2>1 DEF RunsTyped
<1>11. RestTyped
  BY DEF RestTyped, Init, Observed
<1>12. ASSUME NEW r \in Run
       PROVE  RunIsRight(r)
  BY <1>9, IdleIsIdle
     DEF RunIsRight, StageIsRight, CopiesAreRight, MissedAreLate, Fetched, DeletesAreRight,
         NothingTaken
<1> QED
  BY <1>8, <1>10, <1>11, <1>12, TypeParts DEF IInv

\* What a step of a run, and one of the others, do to everything.
LEMMA RunStepInv ==
  ASSUME IInv, NEW r \in Run, Good(r)
  PROVE  IInv'
<1>1. ASSUME NEW q \in Run
      PROVE  RunIsRight(q)'
  <2>1. CASE q = r
    BY <2>1 DEF Good
  <2>2. CASE q # r
    BY <2>2, OthersStay DEF Good, IInv
  <2> QED
    BY <2>1, <2>2
<1> QED
  BY <1>1 DEF IInv, Good

LEMMA OutsideInv ==
  ASSUME IInv, Outside
  PROVE  IInv'
<1>1. Sound /\ UNCHANGED run /\ events' \in Nat
  BY OutsideSound DEF IInv
<1>2. TypeOK'
  BY <1>1 DEF IInv, Sound, TypeOK, RowsTyped, Observed
<1>3. ASSUME NEW q \in Run
      PROVE  RunIsRight(q)'
  <2>1. Moves({q}) /\ run'[q] = run[q]
    BY <1>1 DEF Sound, Moves
  <2> QED
    BY <2>1, OthersStay DEF IInv
<1> QED
  BY <1>1, <1>2, <1>3 DEF IInv, Sound

\* Every step is one of a run, or one from outside.
LEMMA StepIs ==
  ASSUME Next
  PROVE  \/ \E r \in Run : \/ RunStep(r) \/ RunDies(r)
                           \/ \E full \in BOOLEAN : Scheduled(r, full) \/ StartedByHand(r, full)
         \/ Outside
  BY DEF Next, Outside

LEMMA NextInv == IInv /\ [Next]_vars => IInv'
<1> SUFFICES ASSUME IInv, [Next]_vars
             PROVE  IInv'
  OBVIOUS
<1>1. CASE UNCHANGED vars
  <2>1. TypeOK'
    BY <1>1 DEF vars, cloud, ralph, IInv, TypeOK, Hosts, Flavors
  <2>2. HostsAreRight' /\ \A q \in Run : Moves({q}) /\ run'[q] = run[q]
    BY <1>1 DEF vars, cloud, ralph, IInv, HostsAreRight, Hosts, Moves, Alive, Claims
  <2>3. \A q \in Run : RunIsRight(q)'
    BY <2>2, OthersStay DEF IInv
  <2> QED
    BY <2>1, <2>2, <2>3 DEF IInv
<1>2. CASE Outside
  BY <1>2, OutsideInv
<1>3. ASSUME NEW r \in Run, RunStep(r)
      PROVE  IInv'
  BY <1>3, RunStepGood, RunStepInv DEF IInv
<1>4. ASSUME NEW r \in Run, RunDies(r)
      PROVE  IInv'
  BY <1>4, DiesGood, RunStepInv DEF IInv
<1>5. ASSUME NEW r \in Run, NEW full \in BOOLEAN, Scheduled(r, full) \/ StartedByHand(r, full)
      PROVE  IInv'
  <2>1. Begin(r, full) /\ events' \in Nat
    BY <1>5 DEF Scheduled, StartedByHand, Event, IInv, TypeOK
  <2> QED
    BY <2>1, BeginGood, RunStepInv DEF IInv
<1> QED
  BY <1>1, <1>2, <1>3, <1>4, <1>5, StepIs

LEMMA Invariance == Spec => []IInv
  BY InitInv, NextInv, PTL DEF Spec

\* The types of the rows and of what every run has fetched, seen and still has to do; a host
\* has its flavor and its project and an address its host, whatever the runs delete: the
\* foreign keys and their on_delete (ralph.virtual.models).
THEOREM TypeCorrect == Spec => []TypeOK
<1>1. IInv => TypeOK
  BY DEF IInv
<1> QED
  BY <1>1, Invariance, PTL

-----------------------------------------------------------------------------
(* What runs delete and take over *)

\* A run changes the rows of hosts that are there only to delete them or to change a field.
LEMMA HostGone ==
  ASSUME TypeOK, NEW r \in Run, RunStep(r), NEW s \in Hosts, host'[s] = None
  PROVE  _delete_servers(r) \/ DeleteFlavor(r)
<1>1. s \in Server /\ host[s] # None /\ host[s] \in Host
  BY DEF Hosts, TypeOK
<1>2. UNCHANGED host => FALSE
  BY <1>1
<1>3. ASSUME NEW t, _add_server(r, t), host' # host
      PROVE  FALSE
  <2>1. host' = [host EXCEPT ![t] = [project |-> run[r].at, flavor |-> run[r].servers[t].flavor]]
        /\ host[t] = None
    BY <1>3 DEF _add_server
  <2>2. s # t
    BY <1>1, <2>1
  <2> QED
    BY <1>1, <2>1, <2>2 DEF TypeOK
<1>4. ASSUME NEW t, _update_server(r, t), host' # host
      PROVE  FALSE
  <2> DEFINE f == run[r].servers[t].flavor
             h == [host[t] EXCEPT !.flavor = f]
  <2>1. host' = [host EXCEPT ![t] = h] /\ f \in Flavors
    BY <1>4 DEF _update_server
  <2>2. CASE s = t
    <3>1. h \in Host
      BY <1>1, <2>1, <2>2 DEF Host, Flavors
    <3>2. host'[s] = h
      BY <1>1, <2>1, <2>2 DEF TypeOK
    <3> QED
      BY <3>1, <3>2, ConfigAssumption
  <2>3. CASE s # t
    BY <1>1, <2>1, <2>3 DEF TypeOK
  <2> QED
    BY <2>2, <2>3
<1>5. ASSUME DeleteProject(r)
      PROVE  FALSE
  <2> DEFINE h == [host[s] EXCEPT !.project = None]
  <2>1. host'[s] = h \/ host'[s] = host[s]
    BY <1>1, <1>5 DEF DeleteProject, WithoutProject
  <2>2. h \in Host
    BY <1>1 DEF Host
  <2> QED
    BY <1>1, <2>1, <2>2, ConfigAssumption
<1>6. CASE \E t \in DOMAIN run[r].servers : _add_server(r, t) \/ _update_server(r, t)
  BY <1>2, <1>3, <1>4, <1>6
<1>7. ASSUME \/ get_openstack_projects(r) \/ get_openstack_instances_data(r)
             \/ get_ralph_servers_data(r) \/ _add_or_modify_flavours(r)
             \/ _add_or_update_projects(r) \/ FindAddresses(r) \/ AssignAddresses(r)
             \/ BeginDeletes(r)
             \/ CountChildren(r) \/ BeginFlavors(r) \/ CountHosts(r)
      PROVE  UNCHANGED host
  BY <1>7 DEF get_openstack_projects, get_openstack_instances_data, get_ralph_servers_data,
     _add_or_modify_flavours, _add_or_update_projects, FindAddresses, AssignAddresses,
     BeginDeletes, CountChildren, BeginFlavors, CountHosts, ralph
<1> QED
  BY <1>2, <1>5, <1>6, <1>7 DEF RunStep

\* What a run deletes was chosen for it, or has the flavor it deletes.
LEMMA RunDeletes ==
  ASSUME IInv, NEW r \in Run, RunStep(r), NEW s \in Hosts, host'[s] = None, Alive(s)
  PROVE  s \in late[r] \cup touched
<1>1. /\ s \in Server /\ host[s] # None /\ TypeOK /\ StageIsRight(r) /\ DeletesAreRight(r)
  BY DEF Hosts, IInv, RunIsRight
<1>2. CASE _delete_servers(r)
  <2>1. PICK t \in run[r].todo : WithoutHosts({t} \cap Hosts)
    BY <1>2 DEF _delete_servers
  <2>2. s = t /\ run[r].pc = "delete"
    BY <1>1, <1>2, <2>1 DEF WithoutHosts, _delete_servers
  <2> QED
    BY <1>1, <2>1, <2>2 DEF DeletesAreRight
<1>3. CASE DeleteFlavor(r)
  <2>1. run[r].pc = "delete_flavor" /\ (UNCHANGED host \/ WithoutFlavor(run[r].at))
    BY <1>3 DEF DeleteFlavor
  <2>2. host[s].flavor = run[r].at
    BY <1>1, <2>1 DEF WithoutFlavor, WithoutHosts
  <2> QED
    BY <1>1, <2>1, <2>2 DEF DeletesAreRight
<1> QED
  BY <1>1, <1>2, <1>3, HostGone

\* A run changes itself only.
LEMMA RunAlone ==
  ASSUME IInv, NEW q \in Run, NEW r \in Run, run'[r] # run[r],
         \/ RunStep(q) \/ RunDies(q)
         \/ \E full \in BOOLEAN : Scheduled(q, full) \/ StartedByHand(q, full)
  PROVE  q = r
<1>1. TypeOK /\ HostsAreRight /\ RunIsRight(q)
  BY DEF IInv
<1>2. CASE RunStep(q)
  BY <1>1, <1>2, RunStepGood DEF Good
<1>3. CASE RunDies(q)
  BY <1>1, <1>3, DiesGood DEF Good
<1>4. CASE \E full \in BOOLEAN : Scheduled(q, full) \/ StartedByHand(q, full)
  <2>1. PICK full \in BOOLEAN : Begin(q, full) /\ events' \in Nat
    BY <1>1, <1>4 DEF Scheduled, StartedByHand, Event, TypeOK
  <2> QED
    BY <1>1, <2>1, BeginGood DEF Good
<1> QED
  BY <1>2, <1>3, <1>4

\* Runs that begin or die leave the rows alone.
LEMMA RowsAlone ==
  ASSUME NEW q, \/ RunDies(q)
                \/ \E full \in BOOLEAN : Scheduled(q, full) \/ StartedByHand(q, full)
  PROVE  UNCHANGED ralph
  BY DEF RunDies, Scheduled, StartedByHand, Begin

\* As the property says, for a step.
LEMMA LiveServersStep ==
  ASSUME IInv, [Next]_vars, NEW r \in Run, NEW s \in Hosts,
         run'[r] # run[r], host'[s] = None, Alive(s)
  PROVE  s \in late[r] \cup touched
<1>1. host[s] # None /\ TypeOK
  BY DEF Hosts, IInv
<1>2. ~ UNCHANGED vars
  BY DEF vars
<1>3. ~ Outside
  BY <1>1, OutsideSound DEF IInv
<1>4. PICK q \in Run : \/ RunStep(q) \/ RunDies(q)
                       \/ \E full \in BOOLEAN : Scheduled(q, full) \/ StartedByHand(q, full)
  BY <1>2, <1>3, StepIs
<1>5. q = r
  BY <1>4, RunAlone
<1>6. RunStep(r)
  BY <1>1, <1>4, <1>5, RowsAlone DEF ralph
<1> QED
  BY <1>6, RunDeletes

\* A run never deletes the host of a server that is alive, unless another run has made it or
\* given it its flavor since the run fetched the servers, or a user has made it or given it
\* another project or flavor; whatever OpenStack removes or does not list, however many runs
\* there are.
\* (perform_delete, calculate_servers_to_delete, get_servers_list)
THEOREM LiveServersStayAlways == Spec => LiveServersStay
<1> DEFINE A == \A r \in Run, s \in Hosts :
                  run'[r] # run[r] /\ host'[s] = None /\ Alive(s) => s \in late[r] \cup touched
<1>1. IInv /\ [Next]_vars => A
  BY LiveServersStep
<1>2. Spec => [][A]_vars
  BY <1>1, Invariance, PTL DEF Spec
<1> QED
  BY <1>2 DEF LiveServersStay

\* What a run may do to what belongs to others.
Spared(r) ==
  /\ \A p \in Project : project[p] = "other" => project'[p] = "other"
  /\ \A f \in Flavor \ late[r] : flavor[f] = "other" => flavor'[f] = "other"
  /\ \A a \in Address \ late[r] : owner[a] = "other" => owner'[a] = "other"

LEMMA OthersKeepStep ==
  ASSUME IInv, NEW r \in Run, RunStep(r)
  PROVE  Spared(r)
<1>1. /\ TypeOK /\ StageIsRight(r) /\ NothingTaken(r)
      /\ project \in [Project -> Provider \cup {None}] /\ flavor \in [Flavor -> Provider \cup {None}]
      /\ owner \in [Address -> Server \cup {None, "other", "nobody"}]
  BY DEF IInv, RunIsRight, TypeOK
<1>2. "other" \notin Server /\ None # "other"
  BY ConfigAssumption
<1>3. ASSUME NEW S \in SUBSET Server, WithoutHosts(S)
      PROVE  \A a \in Address : owner[a] = "other" => owner'[a] = "other"
  BY <1>2, <1>3 DEF WithoutHosts
<1>4. Hosts \subseteq Server
  BY DEF Hosts
<1>5. CASE _add_or_update_projects(r)
  <2>1. /\ owner' = owner /\ flavor' = flavor
        /\ \/ project' = project
           \/ \E p \in run[r].left : project' = [project EXCEPT ![p] = IF @ = None THEN "own" ELSE @]
    BY <1>5 DEF _add_or_update_projects
  <2> QED
    BY <1>1, <1>2, <2>1 DEF Spared
<1>6. CASE AssignAddresses(r)
  <2>1. run[r].server \in Server
    <3>1. DOMAIN run[r].servers \in SUBSET Server
      BY <1>1, TypeParts, RunTyped
    <3> QED
      BY <1>1, <1>6, <3>1 DEF AssignAddresses, StageIsRight
  <2>2. /\ project' = project /\ flavor' = flavor
        /\ \/ owner' = owner
           \/ /\ \A a \in run[r].free : owner[a] = None
              /\ owner' = Assigned(run[r].server, run[r].servers[run[r].server].ips,
                                   run[r].free \cup run[r].spare)
    BY <1>6 DEF AssignAddresses
  <2>3. ASSUME NEW a \in Address, a \notin late[r], owner[a] = "other"
        PROVE  owner'[a] = "other"
    <3>1. a \notin run[r].spare
      BY <1>1, <2>3 DEF NothingTaken
    <3> QED
      BY <1>2, <2>1, <2>2, <2>3, <3>1 DEF Assigned
  <2> QED
    BY <2>2, <2>3 DEF Spared
<1>7. CASE _delete_servers(r)
  <2>1. PICK s \in run[r].todo : WithoutHosts({s} \cap Hosts)
    BY <1>7 DEF _delete_servers
  <2>2. project' = project /\ flavor' = flavor
    BY <1>7 DEF _delete_servers
  <2> QED
    BY <1>3, <1>4, <2>1, <2>2 DEF Spared
<1>8. CASE DeleteProject(r)
  <2>1. run[r].at \in Project /\ project[run[r].at] # "other"
    BY <1>1, <1>8 DEF DeleteProject, StageIsRight
  <2>2. owner' = owner /\ flavor' = flavor /\ project' = [project EXCEPT ![run[r].at] = None]
    BY <1>8 DEF DeleteProject, WithoutProject
  <2> QED
    BY <1>1, <2>1, <2>2 DEF Spared
<1>9. CASE DeleteFlavor(r)
  <2>1. flavor[run[r].at] # "other" \/ run[r].at \in late[r]
    BY <1>1, <1>9 DEF DeleteFlavor, StageIsRight, NothingTaken
  <2>2. /\ project' = project
        /\ \/ owner' = owner /\ flavor' = flavor
           \/ /\ WithoutHosts({s \in Hosts : host[s].flavor = run[r].at})
              /\ flavor' = [flavor EXCEPT ![run[r].at] = None]
    BY <1>9 DEF DeleteFlavor, WithoutFlavor
  <2> QED
    BY <1>1, <1>3, <1>4, <2>1, <2>2 DEF Spared
<1>10. CASE _add_or_modify_flavours(r)
  <2>1. /\ project' = project /\ owner' = owner
        /\ \/ flavor' = flavor
           \/ \E f \in run[r].todo \cap Flavor :
                /\ f \notin run[r].knownFlavors => f \notin Flavors
                /\ flavor' = [flavor EXCEPT ![f] = IF f \notin run[r].knownFlavors
                                                   THEN "own" ELSE @]
    BY <1>10 DEF _add_or_modify_flavours
  <2> QED
    BY <1>1, <1>2, <2>1 DEF Spared, Flavors
<1>11. CASE \E s \in DOMAIN run[r].servers : _add_server(r, s) \/ _update_server(r, s)
  BY <1>11 DEF _add_server, _update_server, Spared
<1>12. CASE \/ get_openstack_projects(r) \/ get_openstack_instances_data(r)
            \/ get_ralph_servers_data(r) \/ FindAddresses(r) \/ BeginDeletes(r)
            \/ CountChildren(r) \/ BeginFlavors(r) \/ CountHosts(r)
  BY <1>12 DEF get_openstack_projects, get_openstack_instances_data, get_ralph_servers_data,
     FindAddresses, BeginDeletes, CountChildren, BeginFlavors, CountHosts, ralph, Spared
<1> QED
  BY <1>5, <1>6, <1>7, <1>8, <1>9, <1>10, <1>11, <1>12 DEF RunStep

\* A run deletes or takes over nothing that belongs to somebody else: no project or flavor of
\* another provider, also where its id is one that OpenStack has, and no address of another
\* asset; unless somebody else has got the flavor or the address since the run fetched the
\* servers.
\* (get_ralph_flavors, get_ralph_servers_data, perform_delete, CloudHost.ip_addresses)
THEOREM OthersKeepTheirsAlways == Spec => OthersKeepTheirs
<1> DEFINE A == \A r \in Run : run'[r] # run[r] =>
       /\ \A p \in Project : project[p] = "other" => project'[p] = "other"
       /\ \A f \in Flavor \ late[r] : flavor[f] = "other" => flavor'[f] = "other"
       /\ \A a \in Address \ late[r] : owner[a] = "other" => owner'[a] = "other"
<1>1. IInv /\ [Next]_vars => A
  <2> SUFFICES ASSUME IInv, [Next]_vars, NEW r \in Run, run'[r] # run[r]
               PROVE  Spared(r)
    BY DEF Spared
  <2>1. ~ UNCHANGED vars
    BY DEF vars
  <2>2. ~ Outside
    BY OutsideSound DEF IInv
  <2>3. PICK q \in Run : \/ RunStep(q) \/ RunDies(q)
                         \/ \E full \in BOOLEAN : Scheduled(q, full) \/ StartedByHand(q, full)
    BY <2>1, <2>2, StepIs
  <2>4. q = r
    BY <2>3, RunAlone
  <2>5. CASE RunStep(r)
    BY <2>5, OthersKeepStep
  <2>6. CASE ~ RunStep(r)
    BY <2>3, <2>4, <2>6, RowsAlone DEF ralph, Spared
  <2> QED
    BY <2>5, <2>6
<1>2. Spec => [][A]_vars
  BY <1>1, Invariance, PTL DEF Spec
<1> QED
  BY <1>2 DEF OthersKeepTheirs
===============================================================================
