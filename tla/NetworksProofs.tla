---------------------------- MODULE NetworksProofs ----------------------------
(***************************************************************************)
(* Proofs about Networks for any networks, addresses, requests and blocks. *)
(*                                                                         *)
(* The first part is about blocks alone: in nested blocks the first of     *)
(* order_by('-min_ip', 'max_ip') is the smallest one.  The second is about *)
(* a save of one network in a right tree, whatever is saved.  Both lead to *)
(* the inductive invariant IInv.                                           *)
(***************************************************************************)
EXTENDS Networks, TLAPS, WellFoundedInduction

\* A set of naturals has a least element (the library's theorem about < on Nat).
LEMMA Least ==
  ASSUME NEW T \in SUBSET Nat, T # {}
  PROVE  \E x \in T : \A y \in T : x <= y
<1> DEFINE R == {ss \in Nat \X Nat : ss[1] < ss[2]}
<1>1. IsWellFoundedOn(R, Nat)
  BY ONLY NatLessThanWellFounded DEF OpToRel
<1>2. PICK x \in T : \A y \in T : ~ (<<y, x>> \in R)
  <2> HIDE DEF R
  <2> QED BY <1>1, WFMin
<1>3. \A y \in T : ~ (y < x)
  BY <1>2
<1> QED
  BY <1>3

-----------------------------------------------------------------------------
(* Tables of blocks *)

\* What every table of blocks in the model is: nested ranges.
Table(bl) ==
  /\ bl \in [Net -> Span \cup {None}]
  /\ \A n \in Rows(bl) : bl[n].min <= bl[n].max
  /\ \A m, n \in Rows(bl) : \/ Within(bl[m], bl[n]) \/ Within(bl[n], bl[m])
                            \/ bl[m].max < bl[n].min \/ bl[n].max < bl[m].min

\* No two networks have the same block.
Unique(bl) == \A m, n \in Rows(bl) : bl[m] = bl[n] => m = n

\* Tables of blocks given to networks, and of the one of a deleted network.
LEMMA TablesOfBlocks ==
  ASSUME NEW bl \in [Net -> Block \cup {Zero, None}]
  PROVE  Table(bl)
<1>1. Block \cup {Zero} \subseteq Span /\ None \notin Span
  BY BlockAssumption DEF Zero, Span
<1>2. \A n \in Rows(bl) : bl[n] \in Block \cup {Zero}
  BY DEF Rows
<1>3. \A x \in Block \cup {Zero} : x.min <= x.max
  BY BlockAssumption DEF Zero
<1>4. \A x, y \in Block \cup {Zero} : \/ Within(x, y) \/ Within(y, x)
                                      \/ x.max < y.min \/ y.max < x.min
  <2> SUFFICES ASSUME NEW x \in Block \cup {Zero}, NEW y \in Block \cup {Zero}
               PROVE  Within(x, y) \/ Within(y, x) \/ x.max < y.min \/ y.max < x.min
    OBVIOUS
  <2>1. CASE x \in Block /\ y \in Block
    BY <2>1, BlockAssumption
  <2>2. CASE x = Zero
    BY <2>2, <1>1, <1>3 DEF Zero, Span, Within
  <2>3. CASE y = Zero
    BY <2>3, <1>1, <1>3 DEF Zero, Span, Within
  <2> QED
    BY <2>1, <2>2, <2>3
<1> QED
  BY <1>1, <1>2, <1>3, <1>4 DEF Table

\* A row's block is a range of naturals.
LEMMA RowSpan ==
  ASSUME NEW bl, Table(bl), NEW n \in Rows(bl)
  PROVE  /\ n \in Net /\ bl[n] \in Span /\ bl[n] # None
         /\ bl[n].min \in Nat /\ bl[n].max \in Nat /\ bl[n].min <= bl[n].max
  BY DEF Table, Rows, Span

\* Two ranges with the same ends are the same.
LEMMA SameSpan ==
  ASSUME NEW x \in Span, NEW y \in Span, Within(x, y), Within(y, x)
  PROVE  x = y
  BY DEF Span, Within

\* Within is transitive.
LEMMA WithinTransitive ==
  ASSUME NEW x \in Span, NEW y \in Span, NEW z \in Span, Within(x, y), Within(y, z)
  PROVE  Within(x, z)
  BY DEF Span, Within

\* Two blocks that hold the same number are nested.
LEMMA Overlap ==
  ASSUME NEW bl, Table(bl), NEW m \in Rows(bl), NEW n \in Rows(bl), NEW a \in Nat,
         Holds(bl[m], a), Holds(bl[n], a)
  PROVE  Within(bl[m], bl[n]) \/ Within(bl[n], bl[m])
<1>1. /\ bl[m].min \in Nat /\ bl[m].max \in Nat
      /\ bl[n].min \in Nat /\ bl[n].max \in Nat
  BY RowSpan
<1> QED
  BY <1>1 DEF Table, Holds

\* get_network finds the smallest network among those that hold a number.
LEMMA Smallest ==
  ASSUME NEW bl, Table(bl), NEW a \in Nat,
         NEW S \in SUBSET Rows(bl), \A k \in S : Holds(bl[k], a)
  PROVE  IsSmallest(bl, get_network(bl, S), S)
<1>1. CASE S = {}
  BY <1>1 DEF IsSmallest, get_network
<1>2. CASE S # {}
  <2> DEFINE T == {a - bl[k].min : k \in S}
  <2>1. \A k \in S : /\ bl[k].min \in Nat /\ bl[k].max \in Nat
                     /\ bl[k].min <= a /\ a <= bl[k].max
    BY RowSpan DEF Holds
  <2>2. PICK x \in T : \A y \in T : x <= y
    <3>1. T \in SUBSET Nat /\ T # {}
      BY <1>2, <2>1
    <3> HIDE DEF T
    <3> QED
      BY <3>1, Least
  <2>3. PICK i \in S : \A k \in S : a - bl[i].min <= a - bl[k].min
    BY <2>2
  <2>4. \A k \in S : bl[k].min <= bl[i].min
    BY <2>1, <2>3
  <2> DEFINE U == {bl[k].max : k \in {j \in S : bl[j].min = bl[i].min}}
  <2>5. PICK z \in U : \A y \in U : z <= y
    <3>1. U \in SUBSET Nat /\ U # {}
      BY <2>1
    <3> HIDE DEF U
    <3> QED
      BY <3>1, Least
  <2>6. PICK m \in S : /\ bl[m].min = bl[i].min
                       /\ \A k \in S : bl[k].min = bl[i].min => bl[m].max <= bl[k].max
    BY <2>5
  <2>7. \A k \in S : Before(bl[m], bl[k])
    BY <2>1, <2>4, <2>6 DEF Before
  <2> DEFINE f == get_network(bl, S)
  <2>8. f \in S /\ \A k \in S : Before(bl[f], bl[k])
    BY <1>2, <2>7 DEF get_network
  <2>9. ASSUME NEW k \in S
        PROVE  Within(bl[f], bl[k])
    <3> HIDE DEF f
    <3>1. Within(bl[f], bl[k]) \/ Within(bl[k], bl[f])
      BY <2>8, Overlap
    <3>2. Before(bl[f], bl[k])
      BY <2>8
    <3>3. /\ bl[f].min \in Nat /\ bl[f].max \in Nat
          /\ bl[k].min \in Nat /\ bl[k].max \in Nat
      BY <2>1, <2>8
    <3> QED
      BY <3>1, <3>2, <3>3 DEF Before, Within
  <2> QED
    BY <1>2, <2>8, <2>9 DEF IsSmallest
<1> QED
  BY <1>1, <1>2

\* So it is for the networks around a network, and around an address.
LEMMA SmallestEnclosing ==
  ASSUME NEW bl, Table(bl), NEW n \in Rows(bl)
  PROVE  IsSmallest(bl, get_network(bl, Enclosing(bl, n)), Enclosing(bl, n))
<1>1. bl[n].min \in Nat /\ bl[n].max \in Nat /\ bl[n].min <= bl[n].max
  BY RowSpan
<1>2. \A k \in Enclosing(bl, n) : /\ k \in Rows(bl)
                                  /\ Holds(bl[k], bl[n].min)
  <2> SUFFICES ASSUME NEW k \in Enclosing(bl, n)
               PROVE  k \in Rows(bl) /\ Holds(bl[k], bl[n].min)
    OBVIOUS
  <2>1. k \in Rows(bl) /\ Within(bl[n], bl[k])
    BY DEF Enclosing
  <2>2. bl[k].min \in Nat /\ bl[k].max \in Nat
    BY <2>1, RowSpan
  <2> QED
    BY <1>1, <2>1, <2>2 DEF Within, Holds
<1>3. Enclosing(bl, n) \in SUBSET Rows(bl)
  BY <1>2
<1> QED
  BY <1>1, <1>2, <1>3, Smallest

LEMMA SmallestHolding ==
  ASSUME NEW bl, Table(bl), NEW a \in Nat
  PROVE  IsSmallest(bl, get_network(bl, Holding(bl, a)), Holding(bl, a))
<1>1. Holding(bl, a) \in SUBSET Rows(bl) /\ \A k \in Holding(bl, a) : Holds(bl[k], a)
  BY DEF Holding
<1> QED
  BY <1>1, Smallest

-----------------------------------------------------------------------------
(* The inductive invariant *)

\* A search that no save has overtaken has found the smallest network.
SearchesAreRight ==
  \A w \in Writer : writer[w].addr # None /\ ~ writer[w].overtaken =>
    IsSmallest(block, writer[w].net, Holding(block, writer[w].addr))

IInv ==
  /\ TypeOK
  /\ Unique(block)
  /\ TreeIsRight
  /\ AddressesAreRight
  /\ SearchesAreRight

\* There are no rows at first.
LEMMA InitInv == Init => IInv
<1> SUFFICES ASSUME Init
             PROVE  IInv
  OBVIOUS
<1>1. TypeOK
  BY DEF Init, TypeOK, Idle, WriterState
<1>2. Rows(block) = {}
  BY DEF Init, Rows
<1>3. \A w \in Writer : writer[w].addr = None
  BY DEF Init, Idle
<1> QED
  BY <1>1, <1>2, <1>3 DEF IInv, Unique, TreeIsRight, AddressesAreRight,
                          SearchesAreRight, Init

\* The table with the new block of one network.
Saved(n, bl) ==
  /\ \E b \in Block \cup {Zero} : bl = [block EXCEPT ![n] = b]
  /\ Movable(n, bl)

LEMMA SavedTable ==
  ASSUME IInv, NEW n \in Net, NEW bl, Saved(n, bl)
  PROVE  /\ Table(block) /\ Table(bl) /\ Unique(block) /\ Unique(bl)
         /\ bl \in [Net -> Block \cup {Zero, None}]
         /\ \A m \in Net : m # n => bl[m] = block[m]
         /\ n \in Rows(bl) /\ Rows(bl) = Rows(block) \cup {n}
<1> PICK b \in Block \cup {Zero} : bl = [block EXCEPT ![n] = b]
  BY DEF Saved
<1>1. block \in [Net -> Block \cup {Zero, None}]
  BY DEF IInv, TypeOK
<1>2. None \notin Block \cup {Zero}
  BY BlockAssumption DEF Zero, Span
<1>3. /\ bl \in [Net -> Block \cup {Zero, None}]
      /\ bl[n] = b /\ \A m \in Net : m # n => bl[m] = block[m]
  BY <1>1
<1>4. n \in Rows(bl) /\ Rows(bl) = Rows(block) \cup {n}
  BY <1>2, <1>3 DEF Rows
<1>5. Unique(block)
  BY DEF IInv
<1>6. Unique(bl)
  <2> SUFFICES ASSUME NEW k \in Rows(bl), NEW m \in Rows(bl), bl[k] = bl[m]
               PROVE  k = m
    BY DEF Unique
  <2>1. \A i \in Rows(bl) \ {n} : bl[i] # bl[n]
    BY DEF Saved, Movable
  <2> QED
    BY <1>3, <1>4, <1>5, <2>1 DEF Unique, Rows
<1> QED
  BY <1>1, <1>3, <1>4, <1>5, <1>6, TablesOfBlocks

\* In a right tree the descendants are the networks inside.
LEMMA DescendantsAreInside ==
  ASSUME IInv, Table(block), NEW n \in Net, NEW d \in Descendants(n)
  PROVE  n \in Rows(block) /\ d \in Rows(block) \ {n} /\ Within(block[d], block[n])
<1> DEFINE S == {m \in Net : /\ n \in Rows(block) /\ m \in Rows(block) \ {n}
                             /\ Within(block[m], block[n])}
<1>1. \A m \in Rows(block) : parent[m] # None =>
        /\ parent[m] \in Rows(block) \ {m}
        /\ Within(block[m], block[parent[m]])
  BY DEF IInv, TreeIsRight, IsSmallest, Enclosing
<1>2. None \notin Net
  BY BlockAssumption
<1>3. Children(n) \subseteq S
  BY <1>1, <1>2 DEF Children, Rows
<1>4. ASSUME NEW k \in S, NEW m \in Children(k)
      PROVE  m \in S
  <2>1. /\ m \in Rows(block) /\ parent[m] = k /\ k # None
        /\ n \in Rows(block) /\ k \in Rows(block) \ {n} /\ Within(block[k], block[n])
    BY <1>2, <1>4 DEF Children
  <2>2. Within(block[m], block[k])
    BY <1>1, <2>1
  <2>3. block[m] \in Span /\ block[k] \in Span /\ block[n] \in Span
    BY <2>1, RowSpan
  <2>4. Within(block[m], block[n])
    BY <2>1, <2>2, <2>3, WithinTransitive
  <2>5. m # n
    <3> SUFFICES ASSUME m = n
                 PROVE  FALSE
      OBVIOUS
    <3>1. block[k] = block[n]
      BY <2>1, <2>2, <2>3, SameSpan
    <3> QED
      BY <2>1, <3>1 DEF IInv, Unique
  <2> QED
    BY <2>1, <2>4, <2>5 DEF Rows
<1>5. d \in S
  <2>1. S \in SUBSET Net
    OBVIOUS
  <2> HIDE DEF S
  <2> QED
    BY <1>3, <1>4, <2>1 DEF Descendants
<1> QED
  BY <1>5

\* ... and everything inside is a descendant: the largest that is not would be a
\* child of the network or of one that is.
LEMMA InsideAreDescendants ==
  ASSUME IInv, Table(block), NEW n \in Rows(block), NEW d \in Rows(block) \ {n},
         Within(block[d], block[n])
  PROVE  d \in Descendants(n)
<1> DEFINE Bad == {m \in Rows(block) \ {n} : /\ Within(block[m], block[n])
                                             /\ m \notin Descendants(n)}
<1> DEFINE Gap(m) == block[m].min + (block[n].max - block[m].max)
<1> SUFFICES ASSUME Bad # {}
             PROVE  FALSE
  OBVIOUS
<1>1. \A m \in Bad : Gap(m) \in Nat
  <2> SUFFICES ASSUME NEW m \in Bad
               PROVE  Gap(m) \in Nat
    OBVIOUS
  <2>1. /\ block[m].min \in Nat /\ block[m].max \in Nat /\ block[n].max \in Nat
    BY RowSpan
  <2>2. block[m].max <= block[n].max
    BY DEF Within
  <2> QED
    BY <2>1, <2>2
<1>2. PICK m \in Bad : \A k \in Bad : Gap(m) <= Gap(k)
  <2> DEFINE T == {Gap(k) : k \in Bad}
  <2>1. T \in SUBSET Nat /\ T # {}
    BY <1>1
  <2>2. PICK x \in T : \A y \in T : x <= y
    <3> HIDE DEF T
    <3> QED
      BY <2>1, Least
  <2> QED
    BY <2>2
<1> DEFINE q == parent[m]
<1>3. n \in Enclosing(block, m)
  BY <1>2 DEF Enclosing
<1>4. /\ q \in Rows(block) \ {m} /\ Within(block[m], block[q])
      /\ Within(block[q], block[n])
  BY <1>2, <1>3 DEF IInv, TreeIsRight, IsSmallest, Enclosing
<1>5. m \in Children(q)
  BY <1>2 DEF Children
<1>6. m \in Net
  BY <1>2, RowSpan
<1>7. q # n
  BY <1>2, <1>5, <1>6 DEF Descendants
<1>8. q \notin Descendants(n)
  BY <1>2, <1>5, <1>6 DEF Descendants
<1>9. q \in Bad
  BY <1>4, <1>7, <1>8
<1>10. Gap(m) <= Gap(q)
  BY <1>2, <1>9
<1>11. /\ block[m] \in Span /\ block[m].min \in Nat /\ block[m].max \in Nat
       /\ block[q] \in Span /\ block[q].min \in Nat /\ block[q].max \in Nat
       /\ block[n].max \in Nat
  BY <1>2, <1>4, RowSpan
<1>12. Within(block[q], block[m])
  BY <1>4, <1>10, <1>11 DEF Within
<1>13. block[m] = block[q]
  BY <1>4, <1>11, <1>12, SameSpan
<1> QED
  BY <1>2, <1>4, <1>13 DEF IInv, Unique

-----------------------------------------------------------------------------
(* The save of one network, and the step that deletes one *)

\* The smallest of a set is one of its networks, or there is none.
LEMMA SmallestIsIn ==
  ASSUME NEW bl, NEW m, NEW S, IsSmallest(bl, m, S)
  PROVE  m # None => m \in S
  BY DEF IsSmallest

\* After a save every network is below the smallest one around it.
LEMMA SavedTree ==
  ASSUME IInv, NEW n \in Net, NEW bl, Saved(n, bl),
         NEW m \in Rows(bl)
  PROVE  IsSmallest(bl, Parents(n, bl)[m], Enclosing(bl, m))
<1> DEFINE p == get_network(bl, Enclosing(bl, n))
<1> DEFINE q == parent[m]
<1>1. /\ Table(block) /\ Table(bl) /\ Unique(block) /\ Unique(bl)
      /\ \A k \in Net : k # n => bl[k] = block[k]
      /\ n \in Rows(bl) /\ Rows(bl) = Rows(block) \cup {n}
  BY SavedTable
<1>2. m \in Net
  BY DEF Rows
<1>3. CASE m = n \/ m \in ResavedNetworks(n, bl)
  BY <1>1, <1>2, <1>3, SmallestEnclosing DEF Parents
<1>4. CASE ~ (m = n \/ m \in ResavedNetworks(n, bl))
  <2>1. m # n /\ m \in Rows(block) /\ bl[m] = block[m] /\ Parents(n, bl)[m] = q
    BY <1>1, <1>2, <1>4 DEF Parents
  <2>2. q # n /\ ~ (q = p /\ Within(bl[m], bl[n]))
    BY <1>4, <2>1 DEF ResavedNetworks, Children
  <2>3. IsSmallest(block, q, Enclosing(block, m))
    BY <2>1 DEF IInv, TreeIsRight
  <2>4. \A k \in Net : k # n => (k \in Enclosing(bl, m) <=> k \in Enclosing(block, m))
    BY <1>1, <2>1 DEF Enclosing
  <2>5. Enclosing(bl, m) \subseteq Net /\ Enclosing(block, m) \subseteq Net
    BY DEF Enclosing, Rows
  <2>6. CASE n \notin Enclosing(bl, m)
    \* Only the saved network can be lost, and it was not the parent.
    <3>1. CASE Enclosing(block, m) = {}
      BY <2>1, <2>3, <2>4, <2>5, <2>6, <3>1 DEF IsSmallest
    <3>2. CASE Enclosing(block, m) # {}
      <4>1. q \in Enclosing(block, m) /\ \A k \in Enclosing(block, m) : Within(block[q], block[k])
        BY <2>3, <3>2 DEF IsSmallest
      <4>2. q \in Enclosing(bl, m)
        BY <2>2, <2>4, <2>5, <4>1
      <4>3. \A k \in Enclosing(bl, m) : k # n /\ bl[k] = block[k] /\ k \in Enclosing(block, m)
        BY <1>1, <2>4, <2>5, <2>6
      <4> QED
        BY <2>1, <4>1, <4>2, <4>3 DEF IsSmallest
    <3> QED
      BY <3>1, <3>2
  <2>7. CASE n \in Enclosing(bl, m)
    <3>1. Within(bl[m], bl[n])
      BY <2>7 DEF Enclosing
    <3>2. q # p
      BY <2>2, <3>1
    <3>3. IsSmallest(bl, p, Enclosing(bl, n))
      BY <1>1, SmallestEnclosing
    <3>4. bl[m] \in Span /\ bl[n] \in Span
      BY <1>1, RowSpan
    <3>5. \A k \in Enclosing(bl, n) : k \in Enclosing(block, m)
      \* What is around the saved network is around what is inside it.
      <4> SUFFICES ASSUME NEW k \in Enclosing(bl, n)
                   PROVE  k \in Enclosing(block, m)
        OBVIOUS
      <4>1. k \in Rows(bl) \ {n} /\ Within(bl[n], bl[k])
        BY DEF Enclosing
      <4>2. bl[k] \in Span
        BY <1>1, <4>1, RowSpan
      <4>3. Within(bl[m], bl[k])
        BY <3>1, <3>4, <4>1, <4>2, WithinTransitive
      <4>4. k # m
        BY <1>1, <2>1, <3>1, <3>4, <4>1, SameSpan DEF Unique
      <4>5. k \in Enclosing(bl, m)
        BY <4>1, <4>3, <4>4 DEF Enclosing
      <4> QED
        BY <2>4, <2>5, <4>1, <4>5
    <3>6. q # None
      <4> SUFFICES ASSUME q = None
                   PROVE  FALSE
        OBVIOUS
      <4>1. None \notin Net
        BY BlockAssumption
      <4>2. Enclosing(block, m) = {}
        BY <2>3, <2>5, <4>1 DEF IsSmallest
      <4>3. p = None
        BY <3>3, <3>5, <4>2 DEF IsSmallest
      <4> QED
        BY <3>2, <4>3
    <3>7. q \in Enclosing(block, m) /\ \A k \in Enclosing(block, m) : Within(block[q], block[k])
      BY <2>3, <3>6 DEF IsSmallest
    <3>8. q \in Enclosing(bl, m) /\ q \in Rows(bl) /\ bl[q] = block[q] /\ Within(bl[m], bl[q])
      BY <1>1, <2>2, <2>4, <2>5, <3>7 DEF Enclosing
    <3>9. bl[q] \in Span
      BY <1>1, <3>8, RowSpan
    <3>10. Within(bl[q], bl[n])
      <4> SUFFICES ASSUME ~ Within(bl[q], bl[n])
                   PROVE  FALSE
        OBVIOUS
      <4>1. Within(bl[n], bl[q])
        <5>1. Holds(bl[n], bl[m].min) /\ Holds(bl[q], bl[m].min) /\ bl[m].min \in Nat
          <6>1. /\ bl[m].min \in Nat /\ bl[m].max \in Nat /\ bl[m].min <= bl[m].max
                /\ bl[n].min \in Nat /\ bl[n].max \in Nat
                /\ bl[q].min \in Nat /\ bl[q].max \in Nat
            BY <1>1, <3>8, RowSpan
          <6> QED
            BY <3>1, <3>8, <6>1 DEF Within, Holds
        <5> QED
          BY <1>1, <3>8, <5>1, Overlap
      <4>2. q \in Enclosing(bl, n)
        BY <2>2, <3>8, <4>1 DEF Enclosing
      <4>3. p \in Enclosing(bl, n) /\ Within(bl[p], bl[q])
        BY <3>3, <4>2 DEF IsSmallest
      <4>4. p \in Rows(bl) /\ bl[p] = block[p] /\ bl[p] \in Span
        BY <1>1, <4>3, RowSpan DEF Enclosing, Rows
      <4>5. Within(bl[q], bl[p])
        BY <3>5, <3>7, <3>8, <4>3, <4>4
      <4>6. bl[p] = bl[q]
        BY <3>9, <4>3, <4>4, <4>5, SameSpan
      <4> QED
        BY <1>1, <3>2, <3>8, <4>4, <4>6 DEF Unique
    <3>11. \A k \in Enclosing(bl, m) : Within(bl[q], bl[k])
      BY <1>1, <2>4, <2>5, <3>7, <3>8, <3>10
    <3> QED
      BY <2>1, <3>8, <3>11 DEF IsSmallest
  <2> QED
    BY <2>6, <2>7
<1> QED
  BY <1>3, <1>4

\* After a save every address that is not left behind is at the smallest network
\* that holds it, and all references are to rows.
LEMMA SavedAddresses ==
  ASSUME IInv, NEW n \in Net, NEW bl, Saved(n, bl),
         NEW a \in ips \ LeftBehind(n, bl)
  PROVE  IsSmallest(bl, IpNetworks(n, bl)[a], Holding(bl, a))
<1> DEFINE d == network[a]
<1>1. /\ Table(block) /\ Table(bl) /\ Unique(block) /\ Unique(bl)
      /\ \A k \in Net : k # n => bl[k] = block[k]
      /\ n \in Rows(bl) /\ Rows(bl) = Rows(block) \cup {n}
  BY SavedTable
<1>2. a \in Addr /\ a \in Nat
  BY BlockAssumption DEF IInv, TypeOK
<1>3. CASE a \in AssignedIps(n, bl) \cup UnassignedIps(n, bl)
  BY <1>1, <1>2, <1>3, SmallestHolding DEF IpNetworks
<1>4. CASE a \notin AssignedIps(n, bl) \cup UnassignedIps(n, bl)
  <2>1. IpNetworks(n, bl)[a] = d
    BY <1>2, <1>4 DEF IpNetworks
  <2>2. /\ a \notin left
        /\ d = n => Holds(bl[n], a) /\ Within(bl[n], block[n])
    BY <1>4 DEF LeftBehind
  <2>3. IsSmallest(block, d, Holding(block, a))
    BY <2>2 DEF IInv, AddressesAreRight
  <2>4. \A k \in Net : k # n => (k \in Holding(bl, a) <=> k \in Holding(block, a))
    BY <1>1 DEF Holding
  <2>5. Holding(bl, a) \subseteq Net /\ Holding(block, a) \subseteq Net
    BY DEF Holding, Rows
  <2>6. CASE d = n
    \* A part of the old block is still inside all others around the address.
    <3>1. n \in Holding(block, a) /\ \A k \in Holding(block, a) : Within(block[n], block[k])
      <4>1. d # None
        BY <2>6, BlockAssumption
      <4> QED
        BY <2>3, <2>6, <4>1 DEF IsSmallest
    <3>2. block[n] \in Span /\ bl[n] \in Span
      BY <1>1, <3>1, RowSpan DEF Holding
    <3>3. ASSUME NEW k \in Holding(bl, a)
          PROVE  Within(bl[n], bl[k])
      <4>1. CASE k = n
        BY <3>2, <4>1 DEF Within, Span
      <4>2. CASE k # n
        <5>1. k \in Holding(block, a) /\ bl[k] = block[k]
          BY <1>1, <2>4, <2>5, <4>2
        <5>2. block[k] \in Span /\ Within(block[n], block[k])
          BY <1>1, <3>1, <5>1, RowSpan DEF Holding
        <5> QED
          BY <2>2, <2>6, <3>2, <5>1, <5>2, WithinTransitive
      <4> QED
        BY <4>1, <4>2
    <3>4. n \in Holding(bl, a)
      BY <1>1, <2>2, <2>6 DEF Holding
    <3> QED
      BY <2>1, <2>6, <3>3, <3>4 DEF IsSmallest
  <2>7. CASE d # n /\ n \notin Holding(bl, a)
    <3>1. CASE Holding(block, a) = {}
      BY <2>1, <2>3, <2>4, <2>5, <2>7, <3>1 DEF IsSmallest
    <3>2. CASE Holding(block, a) # {}
      <4>1. d \in Holding(block, a) /\ \A k \in Holding(block, a) : Within(block[d], block[k])
        BY <2>3, <3>2 DEF IsSmallest
      <4>2. d \in Holding(bl, a)
        BY <2>7, <2>4, <2>5, <4>1
      <4>3. \A k \in Holding(bl, a) : k # n /\ bl[k] = block[k] /\ k \in Holding(block, a)
        BY <1>1, <2>4, <2>5, <2>7
      <4> QED
        BY <2>1, <4>1, <4>2, <4>3 DEF IsSmallest
    <3> QED
      BY <3>1, <3>2
  <2>8. CASE d # n /\ n \in Holding(bl, a)
    \* It is at a descendant, which must be inside the new block too: else the
    \* network would be moved below one of its descendants.
    <3>1. Holds(bl[n], a)
      BY <2>8 DEF Holding
    <3>2. d \in Descendants(n)
      BY <1>4, <2>8, <3>1 DEF AssignedIps
    <3>3. n \in Rows(block) /\ d \in Rows(block) \ {n} /\ Within(block[d], block[n])
      BY <1>1, <3>2, DescendantsAreInside
    <3>4. d \in Holding(block, a) /\ \A k \in Holding(block, a) : Within(block[d], block[k])
      <4>1. d # None
        BY <3>3, RowSpan, BlockAssumption, <1>1
      <4> QED
        BY <2>3, <4>1 DEF IsSmallest
    <3>5. d \in Holding(bl, a) /\ bl[d] = block[d] /\ Holds(bl[d], a)
      BY <1>1, <2>4, <2>5, <3>3, <3>4 DEF Holding
    <3>6. Within(bl[d], bl[n])
      <4> SUFFICES ASSUME ~ Within(bl[d], bl[n])
                   PROVE  FALSE
        OBVIOUS
      <4> DEFINE p == get_network(bl, Enclosing(bl, n))
      <4>1. Within(bl[n], bl[d])
        BY <1>1, <1>2, <3>1, <3>3, <3>5, Overlap
      <4>2. d \in Enclosing(bl, n)
        BY <1>1, <3>3, <4>1 DEF Enclosing
      <4>3. IsSmallest(bl, p, Enclosing(bl, n))
        BY <1>1, SmallestEnclosing
      <4>4. p \in Enclosing(bl, n) /\ Within(bl[p], bl[d])
        BY <4>2, <4>3 DEF IsSmallest
      <4>5. p \in Rows(block) \ {n} /\ bl[p] = block[p] /\ Within(block[p], block[d])
        BY <1>1, <3>5, <4>4 DEF Enclosing, Rows
      <4>6. block[p] \in Span /\ block[d] \in Span /\ block[n] \in Span
        BY <1>1, <3>3, <4>5, RowSpan
      <4>7. Within(block[p], block[n])
        BY <3>3, <4>5, <4>6, WithinTransitive
      <4>8. p \in Descendants(n)
        BY <1>1, <3>3, <4>5, <4>7, InsideAreDescendants
      <4> QED
        BY <4>8 DEF Saved, Movable
    <3>7. \A k \in Holding(bl, a) : Within(bl[d], bl[k])
      BY <1>1, <2>4, <2>5, <3>4, <3>5, <3>6
    <3> QED
      BY <2>1, <3>5, <3>7 DEF IsSmallest
  <2> QED
    BY <2>6, <2>7, <2>8
<1> QED
  BY <1>3, <1>4

\* The references after a save are to rows.
LEMMA SavedReferences ==
  ASSUME IInv, NEW n \in Net, NEW bl, Saved(n, bl)
  PROVE  /\ Parents(n, bl) \in [Net -> Net \cup {None}]
         /\ \A m \in Net : Parents(n, bl)[m] # None =>
              m \in Rows(bl) /\ Parents(n, bl)[m] \in Rows(bl) \ {m}
         /\ IpNetworks(n, bl) \in [Addr -> Net \cup {None}]
         /\ \A a \in Addr : IpNetworks(n, bl)[a] # None =>
              a \in ips /\ IpNetworks(n, bl)[a] \in Rows(bl)
         /\ LeftBehind(n, bl) \subseteq ips
<1>1. /\ Table(bl) /\ n \in Rows(bl) /\ Rows(bl) = Rows(block) \cup {n}
  BY SavedTable
<1>2. ASSUME NEW m \in Net, Parents(n, bl)[m] # None
      PROVE  m \in Rows(bl) /\ Parents(n, bl)[m] \in Rows(bl) \ {m}
  <2>1. m \in Rows(bl)
    <3> SUFFICES ASSUME m \notin Rows(bl)
                 PROVE  FALSE
      OBVIOUS
    <3>1. m # n /\ m \notin ResavedNetworks(n, bl)
      BY <1>1 DEF ResavedNetworks, Children
    <3>2. parent[m] = None
      BY <1>1 DEF IInv, TypeOK, Rows
    <3> QED
      BY <1>2, <3>1, <3>2 DEF Parents
  <2>2. IsSmallest(bl, Parents(n, bl)[m], Enclosing(bl, m))
    BY <2>1, SavedTree
  <2>3. Parents(n, bl)[m] \in Enclosing(bl, m)
    BY <1>2, <2>2, SmallestIsIn
  <2> QED
    BY <2>1, <2>3 DEF Enclosing
<1>3. Parents(n, bl) \in [Net -> Net \cup {None}]
  <2>1. \A m \in Net : Parents(n, bl)[m] \in Net \cup {None}
    BY <1>2 DEF Rows
  <2> QED
    BY <2>1 DEF Parents
<1>4. ASSUME NEW a \in Addr, IpNetworks(n, bl)[a] # None
      PROVE  a \in ips /\ IpNetworks(n, bl)[a] \in Rows(bl)
  <2>1. CASE a \in AssignedIps(n, bl) \cup UnassignedIps(n, bl)
    <3>1. a \in ips
      BY <2>1 DEF AssignedIps, UnassignedIps
    <3>2. IpNetworks(n, bl)[a] = get_network(bl, Holding(bl, a))
      BY <2>1 DEF IpNetworks
    <3>3. a \in Nat
      BY BlockAssumption
    <3>4. get_network(bl, Holding(bl, a)) \in Holding(bl, a)
      BY <1>1, <1>4, <3>2, <3>3, SmallestHolding, SmallestIsIn
    <3> QED
      BY <3>1, <3>2, <3>4 DEF Holding
  <2>2. CASE a \notin AssignedIps(n, bl) \cup UnassignedIps(n, bl)
    <3>1. IpNetworks(n, bl)[a] = network[a]
      BY <2>2 DEF IpNetworks
    <3>2. a \in ips /\ network[a] \in Rows(block)
      BY <1>4, <3>1 DEF IInv, TypeOK, Rows
    <3> QED
      BY <1>1, <3>1, <3>2
  <2> QED
    BY <2>1, <2>2
<1>5. IpNetworks(n, bl) \in [Addr -> Net \cup {None}]
  <2>1. \A a \in Addr : IpNetworks(n, bl)[a] \in Net \cup {None}
    BY <1>4 DEF Rows
  <2> QED
    BY <2>1 DEF IpNetworks
<1>6. LeftBehind(n, bl) \subseteq ips
  BY DEF LeftBehind, IInv, TypeOK
<1> QED
  BY <1>2, <1>3, <1>4, <1>5, <1>6

\* A deleted network is below nothing when its row goes, so nothing goes with it.
LEMMA NothingBelow ==
  ASSUME IInv, NEW n \in Net, NEW bl, Saved(n, bl), bl[n] = Zero
  PROVE  /\ \A m \in Net : Parents(n, bl)[m] # n
         /\ Cascade(n, Parents(n, bl)) = {n}
<1>1. /\ Table(bl) /\ Unique(bl) /\ n \in Rows(bl)
  BY SavedTable
<1>2. ASSUME NEW m \in Net, Parents(n, bl)[m] = n
      PROVE  FALSE
  <2>1. m \in Rows(bl) /\ m # n
    <3>1. n # None
      BY BlockAssumption
    <3> QED
      BY <1>2, <3>1, SavedReferences
  <2>2. CASE m \in ResavedNetworks(n, bl)
    <3>1. IsSmallest(bl, n, Enclosing(bl, m)) /\ n # None
      BY <1>2, <2>1, SavedTree, BlockAssumption
    <3>2. Within(bl[m], Zero)
      BY <3>1, SmallestIsIn DEF Enclosing
    <3>3. /\ bl[m] \in Span /\ bl[m].min \in Nat /\ bl[m].max \in Nat
          /\ bl[m].min <= bl[m].max /\ Zero \in Span
      BY <1>1, <2>1, RowSpan DEF Zero, Span
    <3>4. Within(Zero, bl[m])
      BY <3>2, <3>3 DEF Within, Zero
    <3>5. bl[m] = Zero
      BY <3>2, <3>3, <3>4, SameSpan
    <3> QED
      BY <1>1, <2>1, <3>5 DEF Unique
  <2>3. CASE m \notin ResavedNetworks(n, bl)
    <3>1. parent[m] = n
      BY <1>2, <2>1, <2>3 DEF Parents
    <3>2. m \in Rows(block)
      BY <2>1, SavedTable
    <3> QED
      BY <2>3, <3>1, <3>2 DEF ResavedNetworks, Children
  <2> QED
    BY <2>2, <2>3
<1>3. Cascade(n, Parents(n, bl)) = {n}
  <2>1. ASSUME NEW m \in Cascade(n, Parents(n, bl))
        PROVE  m = n
    <3>1. \A k \in Net : Parents(n, bl)[k] \in {n} => k \in {n}
      BY <1>2
    <3>2. m \in {n}
      BY <2>1, <3>1 DEF Cascade
    <3> QED
      BY <3>2
  <2>2. n \in Cascade(n, Parents(n, bl))
    BY DEF Cascade
  <2> QED
    BY <2>1, <2>2
<1> QED
  BY <1>2, <1>3

-----------------------------------------------------------------------------
(* Every step keeps the invariant *)

\* A save marks the writers in the middle of their own.
LEMMA OvertakenWriters ==
  ASSUME IInv
  PROVE  /\ Overtaken \in [Writer -> WriterState]
         /\ \A w \in Writer : Overtaken[w].addr # None => Overtaken[w].overtaken
<1>1. ASSUME NEW w \in Writer
      PROVE  /\ Overtaken[w] \in WriterState
             /\ Overtaken[w].addr # None => Overtaken[w].overtaken
  <2> DEFINE o == writer[w].addr # None
  <2>1. o \in BOOLEAN
    OBVIOUS
  <2>2. Overtaken[w] = [writer[w] EXCEPT !.overtaken = o]
    BY DEF Overtaken
  <2>3. writer[w] \in WriterState
    BY DEF IInv, TypeOK
  <2>4. Overtaken[w].addr = writer[w].addr /\ Overtaken[w].overtaken = o
    BY <2>2, <2>3 DEF WriterState
  <2> HIDE DEF o
  <2>5. Overtaken[w] \in WriterState
    BY <2>1, <2>2, <2>3 DEF WriterState
  <2> USE DEF o
  <2> QED
    BY <2>4, <2>5
<1> QED
  BY <1>1 DEF Overtaken

LEMMA SaveNetworkKeeps ==
  ASSUME IInv, NEW n \in Net, NEW b \in Block, SaveNetwork(n, b)
  PROVE  IInv'
<1> DEFINE bl == [block EXCEPT ![n] = b]
<1>1. /\ Saved(n, bl) /\ block' = bl /\ parent' = Parents(n, bl)
      /\ network' = IpNetworks(n, bl) /\ left' = LeftBehind(n, bl)
      /\ writer' = Overtaken /\ ips' = ips
  BY DEF SaveNetwork, Saved
<1>2. block' \in [Net -> Block \cup {None}]
  BY <1>1 DEF IInv, TypeOK
<1> HIDE DEF bl
<1>3. /\ Table(bl) /\ Unique(bl) /\ Rows(bl) = Rows(block)'
  BY <1>1, SavedTable DEF Rows
<1>4. TypeOK'
  <2>1. writer' \in [Writer -> WriterState]
    BY <1>1, OvertakenWriters
  <2>2. \A m \in Net : parent'[m] # None => block'[m] # None /\ block'[parent'[m]] # None
    BY <1>1, SavedReferences DEF Rows
  <2>3. \A a \in Addr : network'[a] # None => a \in ips /\ block'[network'[a]] # None
    BY <1>1, SavedReferences DEF Rows
  <2> QED
    BY <1>1, <1>2, <2>1, <2>2, <2>3, SavedReferences DEF IInv, TypeOK
<1>5. Unique(block)'
  BY <1>1, <1>3 DEF Unique, Rows
<1>6. TreeIsRight'
  BY <1>1, <1>3, SavedTree DEF TreeIsRight, IsSmallest, Enclosing, Rows
<1>7. AddressesAreRight'
  BY <1>1, <1>3, SavedAddresses DEF AddressesAreRight, IsSmallest, Holding, Rows
<1>8. SearchesAreRight'
  BY <1>1, OvertakenWriters DEF SearchesAreRight
<1> QED
  BY <1>4, <1>5, <1>6, <1>7, <1>8 DEF IInv

\* A delete is a save with the fake block, and then nothing is below the row.
LEMMA DeleteNetworkKeeps ==
  ASSUME IInv, NEW n \in Net, DeleteNetwork(n)
  PROVE  IInv'
<1> DEFINE bl == [block EXCEPT ![n] = Zero]
           par == Parents(n, bl)
           net == IpNetworks(n, bl)
<1>1. Saved(n, bl) /\ bl[n] = Zero /\ n \in Rows(block)
  BY DEF DeleteNetwork, Saved, IInv, TypeOK
<1> HIDE DEF bl
<1>2. \A m \in Net : par[m] # n
  BY <1>1, NothingBelow
<1>3. Cascade(n, par) = {n}
  BY <1>1, NothingBelow
<1>4. /\ block' = [m \in Net |-> IF m \in {n} THEN None ELSE bl[m]]
      /\ parent' = [m \in Net |-> IF m \in {n} THEN None ELSE par[m]]
      /\ network' = [a \in Addr |-> IF net[a] \in {n} THEN None ELSE net[a]]
      /\ left' = LeftBehind(n, bl) \cup {a \in ips : net[a] \in {n}}
      /\ writer' = Overtaken /\ ips' = ips
  <2> DEFINE gone == Cascade(n, par)
  <2>1. /\ block' = [m \in Net |-> IF m \in gone THEN None ELSE bl[m]]
        /\ parent' = [m \in Net |-> IF m \in gone THEN None ELSE par[m]]
        /\ network' = [a \in Addr |-> IF net[a] \in gone THEN None ELSE net[a]]
        /\ left' = LeftBehind(n, bl) \cup {a \in ips : net[a] \in gone}
        /\ writer' = Overtaken /\ ips' = ips
    BY DEF DeleteNetwork, bl
  <2>2. gone = {n}
    BY <1>3
  <2> HIDE DEF gone
  <2> QED
    BY <2>1, <2>2
<1>5. /\ par \in [Net -> Net \cup {None}]
      /\ \A m \in Net : par[m] # None => m \in Rows(bl) /\ par[m] \in Rows(bl) \ {m}
      /\ net \in [Addr -> Net \cup {None}]
      /\ \A a \in Addr : net[a] # None => a \in ips /\ net[a] \in Rows(bl)
      /\ LeftBehind(n, bl) \subseteq ips
  BY <1>1, SavedReferences
<1>6. /\ Table(bl) /\ Unique(bl) /\ n \in Rows(bl)
      /\ \A m \in Net : m # n => bl[m] = block[m]
  BY <1>1, SavedTable
<1>7. Rows(block)' = Rows(bl) \ {n}
  BY <1>4 DEF Rows
<1>8. \A m \in Rows(block)' : m \in Rows(bl) /\ m # n /\ m \in Net /\ block'[m] = bl[m]
  BY <1>4, <1>7 DEF Rows
<1>9. ASSUME NEW m, NEW S \in SUBSET Rows(bl), IsSmallest(bl, m, S), m # n
      PROVE  IsSmallest(block', m, S \ {n})
  <2>1. CASE S = {}
    BY <1>9, <2>1 DEF IsSmallest
  <2>2. CASE S # {}
    BY <1>9, <1>7, <1>8, <2>2 DEF IsSmallest
  <2> QED
    BY <2>1, <2>2
<1>10. TypeOK'
  <2>1. block' \in [Net -> Block \cup {None}]
    BY <1>4, <1>6 DEF IInv, TypeOK
  <2>2. parent' \in [Net -> Net \cup {None}] /\ network' \in [Addr -> Net \cup {None}]
    BY <1>4, <1>5
  <2>3. \A m \in Net : parent'[m] # None => block'[m] # None /\ block'[parent'[m]] # None
    BY <1>2, <1>4, <1>5 DEF Rows
  <2>4. \A a \in Addr : network'[a] # None => a \in ips /\ block'[network'[a]] # None
    BY <1>4, <1>5 DEF Rows
  <2>5. left' \subseteq ips
    BY <1>4, <1>5
  <2> QED
    BY <1>4, <2>1, <2>2, <2>3, <2>4, <2>5, OvertakenWriters DEF IInv, TypeOK
<1>11. Unique(block)'
  BY <1>6, <1>8 DEF Unique, Rows
<1>12. TreeIsRight'
  <2> SUFFICES ASSUME NEW m \in Rows(block)'
               PROVE  IsSmallest(block, parent[m], Enclosing(block, m))'
    BY DEF TreeIsRight
  <2>1. IsSmallest(bl, par[m], Enclosing(bl, m))
    BY <1>1, <1>8, SavedTree
  <2>2. Enclosing(block, m)' = Enclosing(bl, m) \ {n}
    BY <1>7, <1>8 DEF Enclosing, Rows
  <2>3. IsSmallest(block', par[m], Enclosing(bl, m) \ {n})
    BY <1>2, <1>8, <1>9, <2>1 DEF Enclosing
  <2>4. parent'[m] = par[m]
    BY <1>4, <1>8
  <2> QED
    BY <2>2, <2>3, <2>4 DEF IsSmallest
<1>13. AddressesAreRight'
  <2> SUFFICES ASSUME NEW a \in (ips \ left)'
               PROVE  IsSmallest(block, network[a], Holding(block, a))'
    BY DEF AddressesAreRight
  <2>1. a \in ips \ LeftBehind(n, bl) /\ net[a] # n /\ a \in Addr
    BY <1>4 DEF IInv, TypeOK
  <2>2. IsSmallest(bl, net[a], Holding(bl, a))
    BY <1>1, <2>1, SavedAddresses
  <2>3. Holding(block, a)' = Holding(bl, a) \ {n}
    BY <1>7, <1>8 DEF Holding, Rows
  <2>4. IsSmallest(block', net[a], Holding(bl, a) \ {n})
    BY <1>9, <2>1, <2>2 DEF Holding
  <2>5. network'[a] = net[a]
    BY <1>4, <2>1
  <2> QED
    BY <2>3, <2>4, <2>5 DEF IsSmallest
<1>14. SearchesAreRight'
  BY <1>4, OvertakenWriters DEF SearchesAreRight
<1> QED
  BY <1>10, <1>11, <1>12, <1>13, <1>14 DEF IInv

\* A search ends with the smallest network as the tables are then.
LEMMA SearchNetworkKeeps ==
  ASSUME IInv, NEW w \in Writer, NEW a \in Addr, NEW old \in Addr \cup {None},
         SearchNetwork(w, old, a)
  PROVE  IInv'
<1> DEFINE g == get_network(block, Holding(block, a))
<1>1. /\ UNCHANGED <<block, parent, ips, network, left>>
      /\ writer' = [writer EXCEPT ![w] = [addr |-> a, old |-> old,
                                          overtaken |-> FALSE, net |-> g]]
  BY DEF SearchNetwork
<1>2. Table(block)
  BY TablesOfBlocks DEF IInv, TypeOK
<1>3. a \in Nat
  BY BlockAssumption
<1>4. IsSmallest(block, g, Holding(block, a))
  BY <1>2, <1>3, SmallestHolding
<1>5. g \in Net \cup {None}
  BY <1>4, SmallestIsIn DEF Holding, Rows
<1> HIDE DEF g
<1>6. TypeOK'
  BY <1>1, <1>5 DEF IInv, TypeOK, WriterState
<1>7. SearchesAreRight'
  <2> SUFFICES ASSUME NEW v \in Writer, writer'[v].addr # None, ~ writer'[v].overtaken
               PROVE  IsSmallest(block, writer'[v].net, Holding(block, writer'[v].addr))
    BY <1>1 DEF SearchesAreRight, IsSmallest, Holding, Rows
  <2>1. CASE v = w
    BY <1>1, <1>4, <2>1 DEF IInv, TypeOK
  <2>2. CASE v # w
    BY <1>1, <2>2 DEF IInv, TypeOK, SearchesAreRight
  <2> QED
    BY <2>1, <2>2
<1> QED
  BY <1>1, <1>6, <1>7 DEF IInv, Unique, TreeIsRight, AddressesAreRight, IsSmallest,
                          Enclosing, Holding, Rows

\* The row that is written is right or is left behind, and no other row changes.
LEMMA StoreAddressKeeps ==
  ASSUME IInv, NEW w \in Writer, StoreAddress(w)
  PROVE  IInv'
<1> DEFINE a == writer[w].addr
           old == writer[w].old
           net == writer[w].net
<1>1. /\ a # None /\ Referable(net)
      /\ ips' = (ips \ {old}) \cup {a}
      /\ network' = [x \in Addr |-> IF x = a THEN net
                                    ELSE IF x = old THEN None ELSE network[x]]
      /\ left' = (left \ {old, a}) \cup (IF writer[w].overtaken THEN {a} ELSE {})
      /\ writer' = [writer EXCEPT ![w] = Idle]
      /\ block' = block /\ parent' = parent
  BY DEF StoreAddress
<1>2. a \in Addr /\ old \in Addr \cup {None} /\ net \in Net \cup {None}
  BY <1>1 DEF IInv, TypeOK, WriterState
<1>3. writer' \in [Writer -> WriterState] /\ \A v \in Writer : writer'[v].addr # None =>
        v # w /\ writer'[v] = writer[v]
  BY <1>1 DEF IInv, TypeOK, WriterState, Idle
<1>4. ~ writer[w].overtaken => IsSmallest(block, net, Holding(block, a))
  BY <1>1 DEF IInv, SearchesAreRight
<1> HIDE DEF a, old, net
<1>5. TypeOK'
  <2>1. ips' \subseteq Addr /\ left' \subseteq ips'
    BY <1>1, <1>2 DEF IInv, TypeOK
  <2>2. network' \in [Addr -> Net \cup {None}]
    BY <1>1, <1>2 DEF IInv, TypeOK
  <2>3. \A x \in Addr : network'[x] # None => x \in ips' /\ block'[network'[x]] # None
    BY <1>1, <1>2 DEF IInv, TypeOK, Referable, Rows
  <2> QED
    BY <1>1, <1>3, <2>1, <2>2, <2>3 DEF IInv, TypeOK
<1>6. Unique(block)' /\ TreeIsRight'
  BY <1>1 DEF IInv, Unique, TreeIsRight, IsSmallest, Enclosing, Rows
<1>7. AddressesAreRight'
  <2> SUFFICES ASSUME NEW x \in ips' \ left'
               PROVE  IsSmallest(block, network'[x], Holding(block, x))
    BY <1>1 DEF AddressesAreRight, IsSmallest, Holding, Rows
  <2>1. CASE x = a
    BY <1>1, <1>2, <1>4, <2>1
  <2>2. CASE x # a
    <3>1. x \in ips \ left /\ x # old /\ x \in Addr
      BY <1>1, <2>2 DEF IInv, TypeOK
    <3> QED
      BY <1>1, <2>2, <3>1 DEF IInv, AddressesAreRight
  <2> QED
    BY <2>1, <2>2
<1>8. SearchesAreRight'
  BY <1>1, <1>3 DEF IInv, SearchesAreRight, IsSmallest, Holding, Rows
<1> QED
  BY <1>5, <1>6, <1>7, <1>8 DEF IInv

\* The tables stay as they are.
LEMMA FailToStoreKeeps ==
  ASSUME IInv, NEW w \in Writer, FailToStore(w)
  PROVE  IInv'
<1>1. /\ UNCHANGED <<block, parent, ips, network, left>>
      /\ writer' = [writer EXCEPT ![w] = Idle]
  BY DEF FailToStore
<1>2. writer' \in [Writer -> WriterState] /\ \A v \in Writer : writer'[v].addr # None =>
        writer'[v] = writer[v]
  BY <1>1 DEF IInv, TypeOK, WriterState, Idle
<1> QED
  BY <1>1, <1>2 DEF IInv, TypeOK, Unique, TreeIsRight, AddressesAreRight,
                    SearchesAreRight, IsSmallest, Enclosing, Holding, Rows

\* One address less.
LEMMA DeleteAddressKeeps ==
  ASSUME IInv, NEW a \in Addr, DeleteAddress(a)
  PROVE  IInv'
<1>1. /\ ips' = ips \ {a} /\ left' = left \ {a}
      /\ network' = [network EXCEPT ![a] = None]
      /\ UNCHANGED <<block, parent, writer>>
  BY DEF DeleteAddress
<1>2. TypeOK'
  BY <1>1 DEF IInv, TypeOK
<1>3. AddressesAreRight'
  BY <1>1 DEF IInv, TypeOK, AddressesAreRight, IsSmallest, Holding, Rows
<1> QED
  BY <1>1, <1>2, <1>3 DEF IInv, Unique, TreeIsRight, SearchesAreRight, IsSmallest,
                          Enclosing, Holding, Rows

\* The invariant is inductive.
LEMMA NextKeeps == IInv /\ [Next]_vars => IInv'
<1> SUFFICES ASSUME IInv, [Next]_vars
             PROVE  IInv'
  OBVIOUS
<1>1. ASSUME NEW n \in Net, NEW b \in Block, SaveNetwork(n, b)
      PROVE  IInv'
  BY <1>1, SaveNetworkKeeps
<1>2. ASSUME NEW n \in Net, DeleteNetwork(n)
      PROVE  IInv'
  BY <1>2, DeleteNetworkKeeps
<1>3. ASSUME NEW w \in Writer, NEW a \in Addr, NEW old \in Addr \cup {None},
             SearchNetwork(w, old, a)
      PROVE  IInv'
  BY <1>3, SearchNetworkKeeps
<1>4. ASSUME NEW w \in Writer, StoreAddress(w)
      PROVE  IInv'
  BY <1>4, StoreAddressKeeps
<1>5. ASSUME NEW w \in Writer, FailToStore(w)
      PROVE  IInv'
  BY <1>5, FailToStoreKeeps
<1>6. ASSUME NEW a \in Addr, DeleteAddress(a)
      PROVE  IInv'
  BY <1>6, DeleteAddressKeeps
<1>7. CASE UNCHANGED vars
  BY <1>7 DEF vars, IInv, TypeOK, Unique, TreeIsRight, AddressesAreRight,
              SearchesAreRight, IsSmallest, Enclosing, Holding, Rows
<1> QED
  BY <1>1, <1>2, <1>3, <1>4, <1>5, <1>6, <1>7 DEF Next, NetworkStep, AddressStep

-----------------------------------------------------------------------------
(* The theorems *)

\* IInv, from which the invariants follow, holds for any networks, addresses,
\* requests and nested blocks (Network.save, Network.delete, IPAddress.save).
THEOREM Invariance == Spec => []IInv
<1> QED
  BY InitInv, NextKeeps, PTL DEF Spec

\* Rows keep their types and no reference is left without its row: the cascades
\* of Network.delete and the foreign key of IPAddress.network see to it.
THEOREM TypeCorrect == Spec => []TypeOK
<1>1. IInv => TypeOK
  BY DEF IInv
<1> QED
  BY Invariance, <1>1, PTL

\* Whatever is saved and deleted, every network is below the smallest one around
\* it (Network.save, _update_subnetworks_parent).
THEOREM TreeIsRightAlways == Spec => []TreeIsRight
<1>1. IInv => TreeIsRight
  BY DEF IInv
<1> QED
  BY Invariance, <1>1, PTL

\* Every address that saves have not left behind is at the smallest network that
\* holds it (_assign_new_ips_to_network, IPAddress.save).
THEOREM AddressesAreRightAlways == Spec => []AddressesAreRight
<1>1. IInv => AddressesAreRight
  BY DEF IInv
<1> QED
  BY Invariance, <1>1, PTL

\* No step removes more than one network: Network.delete does not cascade.
THEOREM DeletesOnlyItselfAlways == Spec => DeletesOnlyItself
<1> DEFINE One == \A m, n \in Rows(block) : block'[m] = None /\ block'[n] = None => m = n
<1>1. IInv /\ [Next]_vars => [One]_vars
  <2> SUFFICES ASSUME IInv, Next
               PROVE  One
    OBVIOUS
  <2>1. ASSUME NEW n \in Net, NEW b \in Block, SaveNetwork(n, b)
        PROVE  One
    <3>1. \A m \in Rows(block) : block'[m] # None
      BY <2>1, BlockAssumption DEF SaveNetwork, IInv, TypeOK, Rows
    <3> QED
      BY <3>1
  <2>2. ASSUME NEW n \in Net, DeleteNetwork(n)
        PROVE  One
    <3> DEFINE bl == [block EXCEPT ![n] = Zero]
    <3>1. Saved(n, bl) /\ bl[n] = Zero
      BY <2>2 DEF DeleteNetwork, Saved, IInv, TypeOK
    <3> DEFINE gone == Cascade(n, Parents(n, bl))
    <3>2. gone = {n}
      <4> HIDE DEF bl
      <4> QED
        BY <3>1, NothingBelow
    <3>3. block' = [m \in Net |-> IF m \in gone THEN None ELSE bl[m]]
      BY <2>2 DEF DeleteNetwork
    <3>4. block' = [m \in Net |-> IF m \in {n} THEN None ELSE bl[m]]
      <4> HIDE DEF gone
      <4> QED
        BY <3>2, <3>3
    <3>5. \A m \in Rows(block) : block'[m] = None => m = n
      BY <3>4 DEF IInv, TypeOK, Rows
    <3> QED
      BY <3>5
  <2>3. CASE AddressStep
    <3>1. block' = block
      BY <2>3 DEF AddressStep, SearchNetwork, StoreAddress, FailToStore, DeleteAddress
    <3> QED
      BY <3>1 DEF Rows
  <2> QED
    BY <2>1, <2>2, <2>3 DEF Next, NetworkStep
<1> QED
  BY Invariance, <1>1, PTL DEF Spec, DeletesOnlyItself

=============================================================================
