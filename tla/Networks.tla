------------------------------- MODULE Networks -------------------------------
(***************************************************************************)
(* The tree of networks and the network of every address                   *)
(* (ralph.networks.models.networks): what Network.save, Network.delete and *)
(* IPAddress.save leave behind, in any order and with any blocks.          *)
(*                                                                         *)
(* A network is saved or deleted in one transaction, one at a time.  An    *)
(* address is saved in two steps, the search for its network and the       *)
(* write, and networks may be saved in between.                            *)
(***************************************************************************)
EXTENDS Integers, FiniteSets

CONSTANTS
  Net,      \* the primary keys of Network rows
  Block,    \* the address blocks networks are given, as ranges of numbers
  Addr,     \* the numbers of addresses
  Writer,   \* web requests that save or delete an address
  None

\* The address delete() saves a network with: 0.0.0.0/32.
Zero == [min |-> 0, max |-> 0]
Span == [min : Nat, max : Nat]

Within(x, y) == y.min <= x.min /\ x.max <= y.max
Holds(x, a) == x.min <= a /\ a <= x.max

\* Blocks in CIDR notation are nested or disjoint.
ASSUME BlockAssumption ==
  /\ Block \subseteq Span /\ \A x \in Block : x.min <= x.max
  /\ \A x, y \in Block : Within(x, y) \/ Within(y, x) \/ x.max < y.min \/ y.max < x.min
  /\ Addr \subseteq Nat
  /\ None \notin Net /\ None \notin Addr /\ None \notin Span

VARIABLES
  block,     \* min_ip and max_ip of the networks, None if there is no row
  parent,    \* Network.parent
  ips,       \* the numbers that have an IPAddress row
  network,   \* IPAddress.network
  writer,    \* the requests in the middle of IPAddress.save
  left       \* addresses that the saves of networks have left behind, see below

vars == <<block, parent, ips, network, writer, left>>

Idle == [addr |-> None, old |-> None, net |-> None, overtaken |-> FALSE]
WriterState == [addr : Addr \cup {None}, old : Addr \cup {None},
                net : Net \cup {None}, overtaken : BOOLEAN]

\* The types, and the foreign keys: a reference is to a row that exists.
TypeOK ==
  /\ block \in [Net -> Block \cup {None}]
  /\ parent \in [Net -> Net \cup {None}]
  /\ ips \subseteq Addr
  /\ network \in [Addr -> Net \cup {None}]
  /\ writer \in [Writer -> WriterState]
  /\ left \subseteq ips
  /\ \A n \in Net : parent[n] # None => block[n] # None /\ block[parent[n]] # None
  /\ \A a \in Addr : network[a] # None => a \in ips /\ block[network[a]] # None

Init ==
  /\ block = [n \in Net |-> None]
  /\ parent = [n \in Net |-> None]
  /\ ips = {}
  /\ network = [a \in Addr |-> None]
  /\ writer = [w \in Writer |-> Idle]
  /\ left = {}

-----------------------------------------------------------------------------
(* Searching for networks, in a table of blocks bl *)

Rows(bl) == {n \in Net : bl[n] # None}

\* order_by('-min_ip', 'max_ip')
Before(x, y) == x.min > y.min \/ (x.min = y.min /\ x.max <= y.max)

\* Mutant: ordered by min_ip ascending.
BeforeAscending(x, y) == x.min < y.min \/ (x.min = y.min /\ x.max <= y.max)

\* NetworkMixin.get_network
get_network(bl, S) ==
  IF S = {} THEN None ELSE CHOOSE m \in S : \A k \in S : Before(bl[m], bl[k])

\* search_networks of a network, and of an address
Enclosing(bl, n) == {m \in Rows(bl) \ {n} : Within(bl[n], bl[m])}
Holding(bl, a) == {m \in Rows(bl) : Holds(bl[m], a)}

Children(n) == {m \in Rows(block) : parent[m] = n}

\* get_descendants: in every set that has the children of n and of its members.
Descendants(n) ==
  {m \in Net : \A S \in SUBSET Net :
                 Children(n) \subseteq S /\ (\A k \in S : Children(k) \subseteq S) => m \in S}

-----------------------------------------------------------------------------
(* Network.save of network n, when bl is the table with its new block *)

\* Mutants: only the previous subnetworks are saved again, or only the others.
ResavedChildren(n, bl) == Children(n)
ResavedBetween(n, bl) ==
  {m \in Rows(block) : /\ parent[m] = get_network(bl, Enclosing(bl, n))
                       /\ Within(bl[m], bl[n])}

\* _update_subnetworks_parent: the previous subnetworks, and those between the
\* network and its new parent.
ResavedNetworks(n, bl) ==
  Children(n) \cup {m \in Rows(block) : /\ parent[m] = get_network(bl, Enclosing(bl, n))
                                        /\ Within(bl[m], bl[n])}

\* Every network that is saved looks for its parent.
Parents(n, bl) ==
  [m \in Net |-> IF m = n \/ m \in ResavedNetworks(n, bl)
                 THEN get_network(bl, Enclosing(bl, m)) ELSE parent[m]]

\* _assign_new_ips_to_network, which leaves out the addresses of the network
\* itself and those of its subnetworks.
AssignedIps(n, bl) ==
  {a \in ips : /\ Holds(bl[n], a)
               /\ network[a] # n /\ network[a] \notin Descendants(n)}

\* _unassign_ips_from_network: the filter asks for numbers below the block and
\* above it at once.
UnassignedIps(n, bl) == {a \in ips : network[a] = n /\ a < bl[n].min /\ a > bl[n].max}

IpNetworks(n, bl) ==
  [a \in Addr |-> IF a \in AssignedIps(n, bl) \cup UnassignedIps(n, bl)
                  THEN get_network(bl, Holding(bl, a)) ELSE network[a]]

\* Mutant: a network may be moved below a network below it.
MovableAnywhere(n, bl) == \A m \in Rows(bl) \ {n} : bl[m] # bl[n]

\* min_ip and max_ip are unique together, and the tree refuses to move a network
\* below one of its own subnetworks.
Movable(n, bl) ==
  /\ \A m \in Rows(bl) \ {n} : bl[m] # bl[n]
  /\ get_network(bl, Enclosing(bl, n)) \notin Descendants(n)

\* What a save leaves behind: the addresses of a network that gets another block
\* are not saved again.  Those in a part of the old block need not be.
LeftBehind(n, bl) ==
  (left \cup {a \in ips : /\ network[a] = n
                          /\ ~ (Holds(bl[n], a) /\ Within(bl[n], block[n]))})
    \ (AssignedIps(n, bl) \cup UnassignedIps(n, bl))

\* Writers that have searched before this save do not see what it changes.
Overtaken == [w \in Writer |-> [writer[w] EXCEPT !.overtaken = writer[w].addr # None]]

\* A network is created or is given another block.  The form or the API hands
\* over the address as a string, so it counts as changed even if it is the same.
SaveNetwork(n, b) ==
  LET bl == [block EXCEPT ![n] = b] IN
  /\ Movable(n, bl)
  /\ block' = bl
  /\ parent' = Parents(n, bl)
  /\ network' = IpNetworks(n, bl)
  /\ left' = LeftBehind(n, bl)
  /\ writer' = Overtaken
  /\ UNCHANGED ips

\* The rows that go with network n: the tree cascades to what is below it.
Cascade(n, par) ==
  {m \in Net : \A S \in SUBSET Net :
     n \in S /\ (\A k \in Net : par[k] \in S => k \in S) => m \in S}

\* Network.delete: the network is saved with a fake address, so that others take
\* over, and then removed.  Its addresses stay, without a network.
DeleteNetwork(n) ==
  LET bl == [block EXCEPT ![n] = Zero]
      par == Parents(n, bl)
      net == IpNetworks(n, bl)
      gone == Cascade(n, par)
  IN
  /\ n \in Rows(block)
  /\ Movable(n, bl)
  /\ block' = [m \in Net |-> IF m \in gone THEN None ELSE bl[m]]
  /\ parent' = [m \in Net |-> IF m \in gone THEN None ELSE par[m]]
  /\ network' = [a \in Addr |-> IF net[a] \in gone THEN None ELSE net[a]]
  /\ left' = LeftBehind(n, bl) \cup {a \in ips : net[a] \in gone}
  /\ writer' = Overtaken
  /\ UNCHANGED ips

-----------------------------------------------------------------------------
(* IPAddress.save and delete *)

\* A new address, or another number for an existing row: its network is looked
\* up ...
SearchNetwork(w, old, a) ==
  /\ writer[w].addr = None
  /\ old \in ips \cup {None}
  /\ writer' = [writer EXCEPT ![w] = [addr |-> a, old |-> old, overtaken |-> FALSE,
                                      net |-> get_network(block, Holding(block, a))]]
  /\ UNCHANGED <<block, parent, ips, network, left>>

\* Mutant: no foreign key.
ReferableAlways(n) == TRUE

\* The foreign key of IPAddress.network.
Referable(n) == n \in Rows(block) \cup {None}

\* ... and the row is written.  Numbers are unique, and the network must exist.
StoreAddress(w) ==
  LET a == writer[w].addr
      others == ips \ {writer[w].old}
  IN
  /\ a # None /\ a \notin others
  /\ Referable(writer[w].net)
  /\ ips' = others \cup {a}
  /\ network' = [x \in Addr |-> IF x = a THEN writer[w].net
                                ELSE IF x = writer[w].old THEN None ELSE network[x]]
  /\ left' = (left \ {writer[w].old, a}) \cup (IF writer[w].overtaken THEN {a} ELSE {})
  /\ writer' = [writer EXCEPT ![w] = Idle]
  /\ UNCHANGED <<block, parent>>

\* The number is taken, the network is gone, or anything else goes wrong.
FailToStore(w) ==
  /\ writer[w].addr # None
  /\ writer' = [writer EXCEPT ![w] = Idle]
  /\ UNCHANGED <<block, parent, ips, network, left>>

DeleteAddress(a) ==
  /\ a \in ips
  /\ ips' = ips \ {a}
  /\ network' = [network EXCEPT ![a] = None]
  /\ left' = left \ {a}
  /\ UNCHANGED <<block, parent, writer>>

-----------------------------------------------------------------------------
NetworkStep(n) ==
  \/ \E b \in Block : SaveNetwork(n, b)
  \/ DeleteNetwork(n)

AddressStep ==
  \/ \E w \in Writer, a \in Addr, old \in Addr \cup {None} : SearchNetwork(w, old, a)
  \/ \E w \in Writer : StoreAddress(w) \/ FailToStore(w)
  \/ \E a \in Addr : DeleteAddress(a)

Next == (\E n \in Net : NetworkStep(n)) \/ AddressStep

Spec == Init /\ [][Next]_vars

-----------------------------------------------------------------------------
(* Properties *)

\* "smallest ancestor network containing current network": nothing is between a
\* network and its parent, and what encloses it is above it.
IsSmallest(bl, m, S) ==
  IF S = {} THEN m = None ELSE m \in S /\ \A k \in S : Within(bl[m], bl[k])

\* However networks are created, given other blocks and deleted, the parent of
\* each is the smallest one around it, although only some are saved again.
TreeIsRight == \A n \in Rows(block) : IsSmallest(block, parent[n], Enclosing(block, n))

\* An address is at the smallest network that holds it, unless, since it was last
\* saved, its network was deleted or given a block that does not hold it or is not
\* part of the old one, or networks were saved while it was being saved.
AddressesAreRight ==
  \A a \in ips \ left : IsSmallest(block, network[a], Holding(block, a))

\* delete(): "all children of network changed its parent, only then network is
\* removed": never is more than the one network removed.
DeletesOnlyItself ==
  [][\A m, n \in Rows(block) : block'[m] = None /\ block'[n] = None => m = n]_vars

=============================================================================
