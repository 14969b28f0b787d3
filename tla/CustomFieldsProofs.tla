-------------------------- MODULE CustomFieldsProofs --------------------------
(***************************************************************************)
(* Proofs about CustomFields for any objects, fields and values, and any   *)
(* number of rows and of changes while a form is under way.                *)
(***************************************************************************)
EXTENDS CustomFields, TLAPS, SequenceTheorems, WellFoundedInduction

\* A set of naturals has a least element (the library's theorem about < on Nat).
LEMMA Least ==
  ASSUME NEW T \in SUBSET Nat, T # {}
  PROVE  \E x \in T : \A y \in T : x <= y
<1> DEFINE R == {ss \in Nat \X Nat : ss[1] < ss[2]}
<1>1. IsWellFoundedOn(R, Nat)
  BY ONLY NatLessThanWellFounded DEF OpToRel
<1>2. PICK x \in T : \A y \in T : ~ (<<y, x>> \in R)
  <2> HIDE DEF R
  <2> QED BY <1>1, WFMin
<1>3. \A y \in T : ~ (y < x)
  BY <1>2
<1> QED
  BY <1>3

-----------------------------------------------------------------------------
(* Objects and their links *)

\* The six types, and the ids of each.
LEMMA TypesAre ==
  /\ Types = {"cloudhost", "asset", "project", "env", "class", "module"}
  /\ Ids["cloudhost"] = CloudHost /\ Ids["asset"] = Asset /\ Ids["project"] = Project
  /\ Ids["env"] = Env /\ Ids["class"] = Class /\ Ids["module"] = Module
  BY DEF Types, Ids

\* An object is a pair of a type and one of its ids.
LEMMA ObjectsArePairs ==
  /\ \A x \in Objects : x = <<x[1], x[2]>> /\ x[1] \in Types /\ x[2] \in Ids[x[1]]
  /\ \A t \in Types : \A i \in Ids[t] : <<t, i>> \in Objects
  BY DEF Objects

\* No id is None.
LEMMA NoneIsNoId == ASSUME NEW t \in Types PROVE None \notin Ids[t]
  BY TypesAre, ObjectsAssumption

LEMMA PathsAre ==
  /\ Paths("cloudhost") = {"project", "class", "module", "env"}
  /\ Paths("asset") = {"class", "module", "env"}
  /\ Paths("project") = {"env"}
  /\ Paths("env") = {} /\ Paths("class") = {} /\ Paths("module") = {}
<1>1. Paths("cloudhost") = {"project", "class", "module", "env"}
  BY DEF Paths, custom_fields_inheritance
<1>2. Paths("asset") = {"class", "module", "env"}
  BY DEF Paths, custom_fields_inheritance
<1>3. Paths("project") = {"env"}
  BY DEF Paths, custom_fields_inheritance
<1>4. Paths("env") = {} /\ Paths("class") = {} /\ Paths("module") = {}
  BY DEF Paths, custom_fields_inheritance
<1> QED
  BY <1>1, <1>2, <1>3, <1>4

\* No model inherits from its own.
LEMMA PathsLeadElsewhere ==
  ASSUME NEW t \in Types
  PROVE  Paths(t) \subseteq Types /\ t \notin Paths(t)
  BY TypesAre, PathsAre

-----------------------------------------------------------------------------
(* The order of the links *)

\* An object's own type and those its links lead to, the nearest first.
Chain(t) == <<t>> \o custom_fields_inheritance[t]

LEMMA ChainsAre ==
  ASSUME NEW t \in Types
  PROVE  /\ DOMAIN Chain(t) = 1..(Len(custom_fields_inheritance[t]) + 1)
         /\ Chain(t)[1] = t
         /\ \A i \in DOMAIN Chain(t) \ {1} : Chain(t)[i] = custom_fields_inheritance[t][i - 1]
<1> DEFINE s == custom_fields_inheritance[t]
<1>1. s \in Seq(Types)
  <2>1. t \in {"cloudhost", "asset", "project", "env", "class", "module"}
    BY TypesAre
  <2>2. CASE t = "cloudhost"
    BY <2>2, TypesAre DEF custom_fields_inheritance
  <2>3. CASE t = "asset"
    BY <2>3, TypesAre DEF custom_fields_inheritance
  <2>4. CASE t = "project"
    BY <2>4, TypesAre DEF custom_fields_inheritance
  <2>5. CASE t \in {"env", "class", "module"}
    <3>1. s = <<>>
      BY <2>5 DEF custom_fields_inheritance
    <3>2. <<>> \in Seq(Types)
      OBVIOUS
    <3> QED
      BY <3>1, <3>2
  <2> QED
    BY <2>1, <2>2, <2>3, <2>4, <2>5
<1>2. <<t>> \in Seq(Types) /\ Len(<<t>>) = 1 /\ <<t>>[1] = t
  OBVIOUS
<1>3. Len(s) \in Nat
  BY <1>1
<1>4. Chain(t) = <<t>> \o s
  BY DEF Chain
<1> HIDE DEF s
<1>5. /\ <<t>> \o s \in Seq(Types) /\ Len(<<t>> \o s) = 1 + Len(s)
      /\ \A i \in 1 .. 1 + Len(s) : (<<t>> \o s)[i] = IF i <= 1 THEN <<t>>[i] ELSE s[i - 1]
  BY <1>1, <1>2, ConcatProperties
<1>6. DOMAIN (<<t>> \o s) = 1..(Len(s) + 1)
  BY <1>3, <1>5
<1>7. (<<t>> \o s)[1] = t
  BY <1>2, <1>3, <1>5
<1>8. \A i \in (1..(Len(s) + 1)) \ {1} : (<<t>> \o s)[i] = s[i - 1]
  BY <1>3, <1>5
<1> QED
  BY <1>4, <1>6, <1>7, <1>8 DEF s

\* The chains, written out.
LEMMA ChainOfHost ==
  /\ DOMAIN Chain("cloudhost") = {1, 2, 3, 4, 5}
  /\ Chain("cloudhost")[1] = "cloudhost" /\ Chain("cloudhost")[2] = "project"
  /\ Chain("cloudhost")[3] = "class" /\ Chain("cloudhost")[4] = "module"
  /\ Chain("cloudhost")[5] = "env"
<1> DEFINE s == custom_fields_inheritance["cloudhost"]
<1>1. Len(s) = 4 /\ s[1] = "project" /\ s[2] = "class" /\ s[3] = "module" /\ s[4] = "env"
  BY DEF custom_fields_inheritance
<1> HIDE DEF s
<1>2. /\ DOMAIN Chain("cloudhost") = 1..(Len(s) + 1) /\ Chain("cloudhost")[1] = "cloudhost"
      /\ \A i \in DOMAIN Chain("cloudhost") \ {1} : Chain("cloudhost")[i] = s[i - 1]
  BY ChainsAre, TypesAre DEF s
<1> QED
  BY <1>1, <1>2

LEMMA ChainOfAsset ==
  /\ DOMAIN Chain("asset") = {1, 2, 3, 4}
  /\ Chain("asset")[1] = "asset" /\ Chain("asset")[2] = "class"
  /\ Chain("asset")[3] = "module" /\ Chain("asset")[4] = "env"
<1> DEFINE s == custom_fields_inheritance["asset"]
<1>1. Len(s) = 3 /\ s[1] = "class" /\ s[2] = "module" /\ s[3] = "env"
  BY DEF custom_fields_inheritance
<1> HIDE DEF s
<1>2. /\ DOMAIN Chain("asset") = 1..(Len(s) + 1) /\ Chain("asset")[1] = "asset"
      /\ \A i \in DOMAIN Chain("asset") \ {1} : Chain("asset")[i] = s[i - 1]
  BY ChainsAre, TypesAre DEF s
<1> QED
  BY <1>1, <1>2

LEMMA ChainOfProject ==
  /\ DOMAIN Chain("project") = {1, 2}
  /\ Chain("project")[1] = "project" /\ Chain("project")[2] = "env"
<1> DEFINE s == custom_fields_inheritance["project"]
<1>1. Len(s) = 1 /\ s[1] = "env"
  BY DEF custom_fields_inheritance
<1> HIDE DEF s
<1>2. /\ DOMAIN Chain("project") = 1..(Len(s) + 1) /\ Chain("project")[1] = "project"
      /\ \A i \in DOMAIN Chain("project") \ {1} : Chain("project")[i] = s[i - 1]
  BY ChainsAre, TypesAre DEF s
<1> QED
  BY <1>1, <1>2

LEMMA ChainOfOthers ==
  ASSUME NEW t \in {"env", "class", "module"}
  PROVE  DOMAIN Chain(t) = {1} /\ Chain(t)[1] = t
<1>1. t \in Types /\ custom_fields_inheritance[t] = <<>>
  BY TypesAre DEF custom_fields_inheritance
<1>2. Len(custom_fields_inheritance[t]) = 0
  BY <1>1, EmptySeq
<1>3. DOMAIN Chain(t) = 1..(Len(custom_fields_inheritance[t]) + 1) /\ Chain(t)[1] = t
  BY <1>1, ChainsAre
<1> QED
  BY <1>2, <1>3

\* What the chain names after the object itself are the paths.
LEMMA ChainIsPaths ==
  ASSUME NEW t \in Types
  PROVE  /\ DOMAIN Chain(t) \in SUBSET (Nat \ {0})
         /\ 1 \in DOMAIN Chain(t) /\ Chain(t)[1] = t
         /\ \A i \in DOMAIN Chain(t) : 1..i \subseteq DOMAIN Chain(t)
         /\ \A i \in DOMAIN Chain(t) \ {1} : Chain(t)[i] \in Paths(t)
         /\ \A p \in Paths(t) : \E i \in DOMAIN Chain(t) \ {1} : Chain(t)[i] = p
<1>1. CASE t = "cloudhost"
  BY <1>1, ChainOfHost, PathsAre
<1>2. CASE t = "asset"
  BY <1>2, ChainOfAsset, PathsAre
<1>3. CASE t = "project"
  BY <1>3, ChainOfProject, PathsAre
<1>4. CASE t \in {"env", "class", "module"}
  BY <1>4, ChainOfOthers, PathsAre
<1> QED
  BY <1>1, <1>2, <1>3, <1>4, TypesAre

\* No type comes twice.
LEMMA ChainIsInjective ==
  ASSUME NEW t \in Types, NEW i \in DOMAIN Chain(t), NEW j \in DOMAIN Chain(t),
         Chain(t)[i] = Chain(t)[j]
  PROVE  i = j
<1>1. CASE t = "cloudhost"
  BY <1>1, ChainOfHost
<1>2. CASE t = "asset"
  BY <1>2, ChainOfAsset
<1>3. CASE t = "project"
  BY <1>3, ChainOfProject
<1>4. CASE t \in {"env", "class", "module"}
  BY <1>4, ChainOfOthers
<1> QED
  BY <1>1, <1>2, <1>3, <1>4, TypesAre

\* The priority of a type is its place in the chain.
LEMMA PriorityIsPlace ==
  ASSUME NEW t \in Types, NEW i \in DOMAIN Chain(t)
  PROVE  Priority(t, Chain(t)[i]) = i - 1
<1> DEFINE s == custom_fields_inheritance[t]
<1>1. CASE i = 1
  BY <1>1, ChainIsPaths DEF Priority
<1>2. CASE i # 1
  <2>1. /\ i \in Nat \ {0, 1} /\ i - 1 \in DOMAIN s /\ s[i - 1] = Chain(t)[i]
        /\ \A k \in DOMAIN s : k \in Nat /\ k + 1 \in DOMAIN Chain(t) /\ Chain(t)[k + 1] = s[k]
    <3>1. Len(s) \in Nat /\ DOMAIN s = 1..Len(s)
      <4>1. CASE t \in {"cloudhost", "asset"}
        BY <4>1 DEF custom_fields_inheritance
      <4>2. CASE t \in {"project", "env", "class", "module"}
        BY <4>2 DEF custom_fields_inheritance
      <4> QED
        BY <4>1, <4>2, TypesAre
    <3>2. /\ DOMAIN Chain(t) = 1..(Len(s) + 1)
          /\ \A k \in DOMAIN Chain(t) \ {1} : Chain(t)[k] = s[k - 1]
      BY ChainsAre
    <3> HIDE DEF s
    <3> QED
      BY <1>2, <3>1, <3>2
  <2>2. Chain(t)[i] # t
    BY <1>2, ChainIsPaths, ChainIsInjective
  <2>3. \A k \in DOMAIN s : s[k] = Chain(t)[i] => k = i - 1
    <3> SUFFICES ASSUME NEW k \in DOMAIN s, s[k] = Chain(t)[i]
                 PROVE  k = i - 1
      OBVIOUS
    <3>1. k + 1 = i
      BY <2>1, ChainIsInjective
    <3> QED
      BY <2>1, <3>1
  <2>4. (CHOOSE k \in DOMAIN s : s[k] = Chain(t)[i]) = i - 1
    <3> HIDE DEF s
    <3> QED
      BY <2>1, <2>3
  <2> QED
    BY <2>2, <2>4 DEF Priority
<1> QED
  BY <1>1, <1>2

-----------------------------------------------------------------------------
(* What is read *)

\* The object a place of the chain leads to.
LinkAt(x, i) == IF i = 1 THEN x ELSE <<Chain(x[1])[i], Target(x, Chain(x[1])[i])>>

\* A row is at one of an object's links when it is at a place of the chain.
LEMMA LinksAreChain ==
  ASSUME TypeOK, NEW x \in Objects, NEW r \in rows
  PROVE  /\ r.at \in Links(x) <=> \E i \in DOMAIN Chain(x[1]) : r.at = LinkAt(x, i)
         /\ \A i \in DOMAIN Chain(x[1]) : r.at = LinkAt(x, i) => r.at[1] = Chain(x[1])[i]
<1>1. x[1] \in Types /\ r.at \in Objects
  BY ObjectsArePairs DEF TypeOK, Row
<1>2. r.at[1] \in Types /\ r.at[2] # None
  BY <1>1, ObjectsArePairs, NoneIsNoId
<1>3. ASSUME r.at \in Links(x)
      PROVE  \E i \in DOMAIN Chain(x[1]) : r.at = LinkAt(x, i)
  <2>1. CASE r.at = x
    BY <1>1, <2>1, ChainIsPaths DEF LinkAt
  <2>2. CASE r.at # x
    <3>1. PICK p \in Paths(x[1]) : r.at = <<p, Target(x, p)>>
      BY <1>3, <2>2 DEF Links
    <3>2. PICK i \in DOMAIN Chain(x[1]) \ {1} : Chain(x[1])[i] = p
      BY <1>1, ChainIsPaths
    <3> QED
      BY <3>1, <3>2 DEF LinkAt
  <2> QED
    BY <2>1, <2>2
<1>4. ASSUME NEW i \in DOMAIN Chain(x[1]), r.at = LinkAt(x, i)
      PROVE  r.at \in Links(x) /\ r.at[1] = Chain(x[1])[i]
  <2>1. CASE i = 1
    BY <1>1, <1>4, <2>1, ChainIsPaths DEF LinkAt, Links
  <2>2. CASE i # 1
    <3> DEFINE p == Chain(x[1])[i]
    <3>1. p \in Paths(x[1])
      BY <1>1, <2>2, ChainIsPaths
    <3>2. r.at = <<p, Target(x, p)>>
      BY <1>4, <2>2 DEF LinkAt
    <3>3. r.at[1] = p /\ r.at[2] = Target(x, p)
      BY <3>2
    <3> QED
      BY <1>2, <3>1, <3>2, <3>3 DEF Links
  <2> QED
    BY <2>1, <2>2
<1> QED
  BY <1>3, <1>4

\* The values at the nearest links are those of the types that come first.
LEMMA NearestIsFirst ==
  ASSUME TypeOK, NEW x \in Objects
  PROVE  Nearest(x) = custom_fields(x)
<1> DEFINE t == x[1]
           chain == Chain(t)
           L == {r \in rows : r.at \in Links(x)}
           Held(i, f) == {r \in rows : r.at = LinkAt(x, i) /\ r.field = f}
           IsFirst(i, f) == Held(i, f) # {} /\ \A j \in 1..(i - 1) : Held(j, f) = {}
           First(f) == CHOOSE i \in DOMAIN chain : IsFirst(i, f)
           Shown == {g \in Field : \E i \in DOMAIN chain : Held(i, g) # {}}
<1>1. t \in Types
  BY ObjectsArePairs
<1>2. /\ DOMAIN chain \in SUBSET (Nat \ {0})
      /\ \A i \in DOMAIN chain : 1..i \subseteq DOMAIN chain
  BY <1>1, ChainIsPaths
<1>3. Nearest(x) = UNION {Held(First(f), f) : f \in Shown}
  BY DEF Nearest, LinkAt, Chain
<1>4. \A f \in Shown : First(f) \in DOMAIN chain /\ IsFirst(First(f), f)
  <2> SUFFICES ASSUME NEW f \in Shown
               PROVE  \E i \in DOMAIN chain : IsFirst(i, f)
    OBVIOUS
  <2> DEFINE T == {i \in DOMAIN chain : Held(i, f) # {}}
  <2>1. PICK i \in T : \A j \in T : i <= j
    <3>1. T \in SUBSET Nat /\ T # {}
      BY <1>2
    <3> HIDE DEF T
    <3> QED
      BY <3>1, Least
  <2>2. i \in DOMAIN chain /\ Held(i, f) # {}
    OBVIOUS
  <2>3. ASSUME NEW j \in 1..(i - 1), Held(j, f) # {}
        PROVE  FALSE
    <3>1. i \in Nat /\ j \in Nat /\ j < i /\ j \in 1..i
      BY <1>2, <2>2
    <3>2. j \in DOMAIN chain
      BY <1>2, <2>2, <3>1
    <3>3. j \in T
      BY <2>3, <3>2
    <3> QED
      BY <2>1, <3>1, <3>3
  <2> QED
    BY <2>2, <2>3
<1>5. \A r \in L : \E i \in DOMAIN chain : r \in Held(i, r.field) /\ Priority(t, r.at[1]) = i - 1
  BY <1>1, LinksAreChain, PriorityIsPlace
<1>6. \A f : \A i \in DOMAIN chain : \A r \in Held(i, f) :
        r \in L /\ Priority(t, r.at[1]) = i - 1
  BY <1>1, LinksAreChain, PriorityIsPlace
<1>7. \A r \in rows : r.field \in Field
  BY DEF TypeOK, Row
<1>8. custom_fields(x) = {r \in L : \A q \in L : q.field = r.field =>
                            Priority(t, r.at[1]) <= Priority(t, q.at[1])}
  BY DEF custom_fields, _prioritize_custom_field_values
<1>9. ASSUME NEW f \in Shown, NEW r \in Held(First(f), f)
      PROVE  r \in custom_fields(x)
  <2> DEFINE i == First(f)
  <2>1. i \in DOMAIN chain /\ IsFirst(i, f)
    BY <1>4
  <2> HIDE DEF First
  <2>2. r \in L /\ Priority(t, r.at[1]) = i - 1 /\ r.field = f
    BY <1>6, <2>1
  <2>3. ASSUME NEW q \in L, q.field = f
        PROVE  i - 1 <= Priority(t, q.at[1])
    <3>1. PICK j \in DOMAIN chain : q \in Held(j, f) /\ Priority(t, q.at[1]) = j - 1
      BY <1>5, <2>3
    <3>2. i \in Nat \ {0} /\ j \in Nat \ {0}
      BY <1>2, <2>1
    <3>3. j \notin 1..(i - 1)
      BY <2>1, <3>1
    <3> HIDE DEF i, L, Held, IsFirst
    <3> QED
      BY <3>1, <3>2, <3>3
  <2> QED
    BY <1>8, <2>2, <2>3
<1>10. ASSUME NEW r \in custom_fields(x)
       PROVE  r.field \in Shown /\ r \in Held(First(r.field), r.field)
  <2> DEFINE f == r.field
             k == First(f)
  <2>1. r \in L /\ \A q \in L : q.field = f => Priority(t, r.at[1]) <= Priority(t, q.at[1])
    BY <1>8
  <2>2. PICK i \in DOMAIN chain : r \in Held(i, f) /\ Priority(t, r.at[1]) = i - 1
    BY <1>5, <2>1
  <2>3. f \in Shown
    BY <1>7, <2>1, <2>2
  <2>4. k \in DOMAIN chain /\ IsFirst(k, f)
    BY <1>4, <2>3
  <2> HIDE DEF k
  <2>5. i \in Nat \ {0} /\ k \in Nat \ {0}
    BY <1>2, <2>2, <2>4
  <2>6. i \notin 1..(k - 1)
    BY <2>2, <2>4
  <2>7. PICK q \in Held(k, f) : TRUE
    BY <2>4
  <2>8. q \in L /\ Priority(t, q.at[1]) = k - 1 /\ q.field = f
    BY <1>6, <2>4
  <2>9. i - 1 <= k - 1
    BY <2>1, <2>2, <2>8
  <2>10. i = k
    BY <2>5, <2>6, <2>9
  <2> QED
    BY <2>2, <2>3, <2>10 DEF k
<1>11. Nearest(x) \subseteq custom_fields(x)
  BY <1>3, <1>9
<1>12. custom_fields(x) \subseteq Nearest(x)
  <2> SUFFICES ASSUME NEW r \in custom_fields(x)
               PROVE  r \in Nearest(x)
    OBVIOUS
  <2>1. r.field \in Shown /\ r \in Held(First(r.field), r.field)
    BY <1>10
  <2> HIDE DEF Held, First, Shown
  <2> QED
    BY <1>3, <2>1
<1> QED
  BY <1>11, <1>12

\* A list is fetched with the rows of all its objects' links.
LEMMA FetchedIsEnough ==
  ASSUME TypeOK, NEW t \in Types, NEW X \in SUBSET {y \in Objects : y[1] = t}, NEW x \in X
  PROVE  Assigned(x, Fetched(X)) = {r \in rows : r.at \in Links(x)}
<1>1. (CHOOSE y \in X : TRUE)[1] = t /\ x[1] = t
  OBVIOUS
<1>2. ASSUME NEW r \in rows, r.at \in Links(x)
      PROVE  r \in Fetched(X)
  <2>1. r.at[1] \in {t} \cup Paths(t)
    BY <1>1, <1>2 DEF Links
  <2>2. r.at[2] \in {y[2] : y \in UNION {Links(z) : z \in X}}
    BY <1>2
  <2> QED
    BY <1>1, <2>1, <2>2 DEF Fetched
<1>3. Fetched(X) \subseteq rows
  BY DEF Fetched
<1> QED
  BY <1>2, <1>3 DEF Assigned

\* An object's own value comes before all others.
LEMMA OwnIsShown ==
  ASSUME TypeOK, NEW r \in rows
  PROVE  r \in Nearest(r.at)
<1>1. r.at \in Objects /\ r.at[1] \in Types
  BY ObjectsArePairs DEF TypeOK, Row
<1>2. r.at \in Links(r.at)
  BY DEF Links
<1>3. Priority(r.at[1], r.at[1]) = 0
  BY DEF Priority
<1>4. ASSUME NEW q \in rows, q.at \in Links(r.at)
      PROVE  0 <= Priority(r.at[1], q.at[1])
  <2>1. PICK i \in DOMAIN Chain(r.at[1]) : q.at[1] = Chain(r.at[1])[i]
    BY <1>1, <1>4, LinksAreChain
  <2>2. i \in Nat \ {0}
    BY <1>1, ChainIsPaths
  <2>3. Priority(r.at[1], q.at[1]) = i - 1
    BY <1>1, <2>1, PriorityIsPlace
  <2> QED
    BY <2>2, <2>3
<1>5. r \in custom_fields(r.at)
  BY <1>2, <1>3, <1>4 DEF custom_fields, _prioritize_custom_field_values
<1> QED
  BY <1>1, <1>5, NearestIsFirst

\* A table of rows is read in one way.
LEMMA ReadsAreTheSame == TypeOK => ReadsAgree
<1> SUFFICES ASSUME TypeOK
             PROVE  ReadsAgree
  OBVIOUS
<1>1. ASSUME NEW t \in Types, NEW X \in SUBSET {x \in Objects : x[1] = t}, NEW x \in X
      PROVE  /\ custom_fields(x) = Nearest(x)
             /\ get_prefetch_queryset(X)[x] = Nearest(x)
  <2>1. x \in Objects
    OBVIOUS
  <2>2. custom_fields(x) = Nearest(x)
    BY <2>1, NearestIsFirst
  <2>3. get_prefetch_queryset(X)[x] = custom_fields(x)
    BY FetchedIsEnough DEF get_prefetch_queryset, custom_fields
  <2> QED
    BY <2>2, <2>3
<1>2. ASSUME NEW t \in Types, NEW f \in Field, NEW v \in Value, NEW x \in filter_queryset(t, f, v)
      PROVE  \E r \in Nearest(x) : r.field = f /\ r.value = v
  BY OwnIsShown DEF filter_queryset
<1> QED
  BY <1>1, <1>2 DEF ReadsAgree

\* What has a row for a field at one of its links shows a value for it.
LEMMA ShowsValues ==
  TypeOK => \A x \in Objects : \A r \in rows : r.at \in Links(x) =>
              \E q \in Nearest(x) : q \in rows /\ q.field = r.field
<1> SUFFICES ASSUME TypeOK, NEW x \in Objects, NEW r \in rows, r.at \in Links(x)
             PROVE  \E q \in Nearest(x) : q \in rows /\ q.field = r.field
  OBVIOUS
<1> DEFINE L == {q \in rows : q.at \in Links(x) /\ q.field = r.field}
           T == {Priority(x[1], q.at[1]) : q \in L}
<1>1. x[1] \in Types
  BY ObjectsArePairs
<1>2. \A q \in L : Priority(x[1], q.at[1]) \in Nat
  <2> SUFFICES ASSUME NEW q \in L
               PROVE  Priority(x[1], q.at[1]) \in Nat
    OBVIOUS
  <2>1. PICK i \in DOMAIN Chain(x[1]) : q.at[1] = Chain(x[1])[i]
    BY LinksAreChain
  <2>2. i \in Nat \ {0}
    BY <1>1, ChainIsPaths
  <2>3. Priority(x[1], q.at[1]) = i - 1
    BY <1>1, <2>1, PriorityIsPlace
  <2> QED
    BY <2>2, <2>3
<1>3. PICK n \in T : \A m \in T : n <= m
  <2>1. T \in SUBSET Nat /\ T # {}
    BY <1>2
  <2> HIDE DEF T
  <2> QED
    BY <2>1, Least
<1>4. PICK q \in L : \A s \in L : Priority(x[1], q.at[1]) <= Priority(x[1], s.at[1])
  BY <1>3
<1>5. q \in custom_fields(x)
  BY <1>4 DEF custom_fields, _prioritize_custom_field_values
<1> QED
  BY <1>4, <1>5, NearestIsFirst

-----------------------------------------------------------------------------
(* The inductive invariant *)

\* A form under way has seen the rows of its own object, and those of what inherits
\* from it by the models it is through with, unless others have changed them since.
FormIsRight ==
  form # None =>
    /\ form.todo \subseteq Models(form.at[1])
    /\ \A r \in rows : r.at = form.at /\ r.field = form.field => r \in form.gone
    /\ \A r \in form.gone : Deletable(r)
    /\ \A r \in rows : /\ r.field = form.field
                       /\ r.at \in Heirs(form.at) /\ r.at[1] \notin form.todo
                       => r \in form.gone \/ r.at \in touched
    /\ \A h \in form.hosts : form.at = <<"project", project[h]>>

IInv == TypeOK /\ HostsFollowProject /\ FormIsRight

\* Nothing is stored at first.
LEMMA InitInv == Init => IInv
<1> SUFFICES ASSUME Init
             PROVE  IInv
  OBVIOUS
<1>1. TypeOK
  BY DEF Init, TypeOK
<1>2. HostsFollowProject
  BY DEF Init, HostsFollowProject
<1>3. FormIsRight
  BY DEF Init, FormIsRight
<1> QED
  BY <1>1, <1>2, <1>3 DEF IInv

\* What an object's links depend on.
Still(x) ==
  /\ x[1] = "cloudhost" => project'[x[2]] = project[x[2]]
  /\ x[1] \in {"cloudhost", "asset", "project"} => env'[x[2]] = env[x[2]]
  /\ x[1] \in {"cloudhost", "asset"} => class'[x[2]] = class[x[2]]

LEMMA StillLinks ==
  ASSUME NEW x \in Objects, Still(x)
  PROVE  /\ \A p \in Paths(x[1]) : Target(x, p)' = Target(x, p)
         /\ Links(x)' = Links(x)
<1>1. x[1] \in Types
  BY ObjectsArePairs
<1>2. ASSUME NEW p \in Paths(x[1])
      PROVE  Target(x, p)' = Target(x, p)
  <2>1. CASE p = "project"
    <3>1. x[1] = "cloudhost"
      BY <1>1, <1>2, <2>1, TypesAre, PathsAre
    <3> QED
      BY <2>1, <3>1 DEF Target, Still
  <2>2. CASE p = "env"
    <3>1. x[1] \in {"cloudhost", "asset", "project"}
      BY <1>1, <1>2, <2>2, TypesAre, PathsAre
    <3> QED
      BY <2>2, <3>1 DEF Target, Still
  <2>3. CASE p = "class" \/ p = "module"
    <3>1. x[1] \in {"cloudhost", "asset"}
      BY <1>1, <1>2, <2>3, TypesAre, PathsAre
    <3> QED
      BY <2>3, <3>1 DEF Target, Still
  <2> QED
    BY <1>1, <1>2, <2>1, <2>2, <2>3, TypesAre, PathsAre
<1>3. Links(x)' = Links(x)
  BY <1>2 DEF Links
<1> QED
  BY <1>2, <1>3

\* What others do while a form is under way leaves what is known of it, when they
\* touch what they change and keep from what the form has written and deleted.
LEMMA Meanwhile ==
  ASSUME IInv, TypeOK', form' = form,
         touched \subseteq touched',
         form # None => /\ \A x \in Objects : x \in touched' \/ Still(x)
                        /\ \A r \in rows' \ rows : /\ r.at \in touched'
                                                   /\ r.at = form.at => r.field # form.field
                        /\ \A h \in form.hosts : project'[h] = project[h]
  PROVE  FormIsRight'
<1> SUFFICES ASSUME form # None
             PROVE  FormIsRight'
  BY DEF FormIsRight
<1> DEFINE o == form.at
<1>1. /\ form \in Form /\ form.gone \subseteq rows /\ form.gone \subseteq rows'
      /\ rows \subseteq Row /\ rows' \subseteq Row
  BY DEF IInv, TypeOK
<1>2. FormIsRight
  BY DEF IInv
<1>3. \A x \in Objects : x \in touched' \/ (x \in Heirs(o)' <=> x \in Heirs(o))
  BY StillLinks DEF Heirs
<1>4. \A r \in rows' : r.at = o /\ r.field = form.field => r \in form.gone
  BY <1>2 DEF FormIsRight
<1>5. \A r \in form.gone : Deletable(r)'
  <2> SUFFICES ASSUME NEW r \in form.gone
               PROVE  \/ r.at = o /\ r.field = form.was
                      \/ r.at \in Heirs(o)' \cup touched' /\ r.field = form.field
    BY DEF Deletable
  <2>1. r.at \in Objects
    BY <1>1 DEF Row
  <2>2. \/ r.at = o /\ r.field = form.was
        \/ r.at \in Heirs(o) \cup touched /\ r.field = form.field
    BY <1>2 DEF FormIsRight, Deletable
  <2> QED
    BY <1>3, <2>1, <2>2
<1>6. ASSUME NEW r \in rows', r.field = form.field, r.at \in Heirs(o)', r.at[1] \notin form.todo
      PROVE  r \in form.gone \/ r.at \in touched'
  <2>1. CASE r \notin rows
    BY <2>1
  <2>2. CASE r \in rows
    <3>1. r.at \in Objects
      BY <1>1, <2>2 DEF Row
    <3>2. r.at \in touched' \/ r.at \in Heirs(o)
      BY <1>3, <1>6, <3>1
    <3> QED
      BY <1>2, <1>6, <2>2, <3>2 DEF FormIsRight
  <2> QED
    BY <2>1, <2>2
<1>7. form.todo \subseteq Models(o[1]) /\ \A h \in form.hosts : o = <<"project", project'[h]>>
  BY <1>2 DEF FormIsRight
<1> QED
  BY <1>4, <1>5, <1>6, <1>7 DEF FormIsRight

\* What is touched stays so while a form is under way.
LEMMA TouchAdds ==
  ASSUME TypeOK, NEW X, X \subseteq Objects, Touch(X)
  PROVE  /\ touched \subseteq touched' /\ touched' \subseteq Objects
         /\ form # None => X \subseteq touched'
  BY DEF Touch, TypeOK

\* One row more, of an object and field that had none.
LEMMA CreateKeeps ==
  ASSUME IInv, NEW o \in Objects, NEW f \in Field, NEW v \in Value, Create(o, f, v)
  PROVE  IInv'
<1> DEFINE new == [at |-> o, field |-> f, value |-> v]
<1>1. /\ NoRow(o, f) /\ ~ Locked(o, f) /\ Touch({o})
      /\ rows' = rows \cup {new}
      /\ UNCHANGED <<project, env, class, form, patch, late>>
  BY DEF Create
<1>2. new \in Row /\ new.at = o /\ new.field = f
  BY DEF Row
<1> HIDE DEF new
<1>3. touched \subseteq touched' /\ touched' \subseteq Objects /\ (form # None => o \in touched')
  BY <1>1, TouchAdds DEF IInv
<1>4. TypeOK'
  <2>1. \A r, q \in rows' : r.at = q.at /\ r.field = q.field => r = q
    BY <1>1, <1>2 DEF IInv, TypeOK, NoRow
  <2> QED
    BY <1>1, <1>2, <1>3, <2>1 DEF IInv, TypeOK
<1>5. HostsFollowProject'
  BY <1>1 DEF IInv, HostsFollowProject
<1>6. \A x : Still(x)
  BY <1>1 DEF Still
<1>7. form # None => (o = form.at => f # form.field)
  BY <1>1 DEF Locked
<1>8. FormIsRight'
  BY <1>1, <1>2, <1>3, <1>4, <1>6, <1>7, Meanwhile
<1> QED
  BY <1>4, <1>5, <1>8 DEF IInv

\* A row changes its value, and may change to a field its object has no row for.
LEMMA UpdateKeeps ==
  ASSUME IInv, NEW r \in rows, NEW f \in Field, NEW v \in Value, Update(r, f, v)
  PROVE  IInv'
<1> DEFINE new == [at |-> r.at, field |-> f, value |-> v]
<1>1. /\ r.field = f \/ NoRow(r.at, f)
      /\ ~ Locked(r.at, r.field) /\ ~ Locked(r.at, f) /\ Touch({r.at})
      /\ rows' = (rows \ {r}) \cup {new}
      /\ UNCHANGED <<project, env, class, form, patch, late>>
  BY DEF Update
<1>2. r.at \in Objects
  BY DEF IInv, TypeOK, Row
<1>3. new \in Row /\ new.at = r.at /\ new.field = f
  BY <1>2 DEF Row
<1> HIDE DEF new
<1>4. touched \subseteq touched' /\ touched' \subseteq Objects /\ (form # None => r.at \in touched')
  BY <1>1, <1>2, TouchAdds DEF IInv
<1>5. TypeOK'
  <2>1. \A q \in rows \ {r} : ~ (q.at = r.at /\ q.field = f)
    BY <1>1 DEF IInv, TypeOK, NoRow
  <2>2. \A p, q \in rows' : p.at = q.at /\ p.field = q.field => p = q
    BY <1>1, <1>3, <2>1 DEF IInv, TypeOK
  <2>3. form # None => form.gone \subseteq rows'
    BY <1>1 DEF IInv, TypeOK, Locked
  <2> QED
    BY <1>1, <1>3, <1>4, <2>2, <2>3 DEF IInv, TypeOK
<1>6. HostsFollowProject'
  BY <1>1 DEF IInv, HostsFollowProject
<1>7. \A x : Still(x)
  BY <1>1 DEF Still
<1>8. form # None => (r.at = form.at => f # form.field)
  BY <1>1 DEF Locked
<1>9. FormIsRight'
  BY <1>1, <1>3, <1>4, <1>5, <1>7, <1>8, Meanwhile
<1> QED
  BY <1>5, <1>6, <1>9 DEF IInv

\* A row goes that no form is about to delete.
LEMMA DestroyKeeps ==
  ASSUME IInv, NEW r \in rows, Destroy(r)
  PROVE  IInv'
<1>1. /\ ~ Locked(r.at, r.field) /\ Touch({r.at}) /\ rows' = rows \ {r}
      /\ UNCHANGED <<project, env, class, form, patch, late>>
  BY DEF Destroy
<1>2. r.at \in Objects
  BY DEF IInv, TypeOK, Row
<1>3. touched \subseteq touched' /\ touched' \subseteq Objects
  BY <1>1, <1>2, TouchAdds DEF IInv
<1>4. TypeOK'
  <2>1. form # None => form.gone \subseteq rows'
    BY <1>1 DEF IInv, TypeOK, Locked
  <2> QED
    BY <1>1, <1>3, <2>1 DEF IInv, TypeOK
<1>5. HostsFollowProject'
  BY <1>1 DEF IInv, HostsFollowProject
<1>6. \A x : Still(x)
  BY <1>1 DEF Still
<1>7. FormIsRight'
  BY <1>1, <1>3, <1>4, <1>6, Meanwhile
<1> QED
  BY <1>4, <1>5, <1>7 DEF IInv

\* What inherits from an object does so by one of the models of its type.
LEMMA HeirsAreOfModels ==
  ASSUME NEW o \in Objects, NEW x \in Heirs(o)
  PROVE  x[1] \in Models(o[1]) /\ Target(x, o[1]) = o[2]
<1>1. x[1] \in Types
  BY ObjectsArePairs DEF Heirs
<1>2. PICK p \in Paths(x[1]) : o = <<p, Target(x, p)>>
  BY DEF Heirs, Links
<1>3. p = o[1] /\ Target(x, p) = o[2]
  BY <1>2
<1> QED
  BY <1>1, <1>3 DEF Models

\* A form begins with the rows of its object and with all models to do.
LEMMA SaveFormKeeps ==
  ASSUME IInv, NEW o \in Objects, NEW was \in Field, NEW f \in Field, NEW v \in Value,
         SaveForm(o, was, f, v)
  PROVE  IInv'
<1> DEFINE gone == {r \in rows : r.at = o /\ r.field = was}
           hosts == IF o[1] = "project" THEN {h \in CloudHost : project[h] = o[2]} ELSE {}
<1>1. /\ form = None /\ touched' = {} /\ (was = f \/ NoRow(o, f))
      /\ form' = [at |-> o, was |-> was, field |-> f, value |-> v, todo |-> Models(o[1]),
                  gone |-> gone, hosts |-> hosts]
      /\ UNCHANGED <<rows, project, env, class, patch, late>>
  BY DEF SaveForm
<1>2. /\ gone \subseteq rows /\ hosts \subseteq CloudHost /\ Models(o[1]) \subseteq Types
      /\ \A r \in gone : r.at = o /\ r.field = was
      /\ \A h \in hosts : o = <<"project", project[h]>>
  BY ObjectsArePairs DEF Models
<1> HIDE DEF hosts
<1>3. TypeOK'
  <2>1. form' \in Form /\ form'.gone \subseteq rows'
    <3> HIDE DEF gone
    <3> QED
      BY <1>1, <1>2 DEF IInv, TypeOK, Form
  <2> QED
    BY <1>1, <2>1 DEF IInv, TypeOK
<1>4. HostsFollowProject'
  BY <1>1 DEF IInv, HostsFollowProject
<1>5. FormIsRight'
  <2>1. \A r \in form'.gone : Deletable(r)'
    BY <1>1, <1>2 DEF Deletable
  <2>2. \A x \in Heirs(o)' : x[1] \in Models(o[1])
    <3>1. Heirs(o)' = Heirs(o)
      BY <1>1 DEF Heirs, Links, Target
    <3> QED
      BY <3>1, HeirsAreOfModels
  <2>3. \A r \in rows : r.at = o /\ r.field = f => r \in gone
    BY <1>1 DEF NoRow
  <2> QED
    BY <1>1, <1>2, <2>1, <2>2, <2>3 DEF FormIsRight
<1> QED
  BY <1>3, <1>4, <1>5 DEF IInv

\* The delete of a model's values finds all of its objects that inherit.
LEMMA ClearKeeps ==
  ASSUME IInv, NEW m \in Types, clear_children_custom_field_value(m)
  PROVE  IInv'
<1> DEFINE o == form.at
<1>1. /\ form # None /\ m \in form.todo
      /\ form' = [form EXCEPT !.todo = @ \ {m}, !.gone = @ \cup Descendants(m)]
      /\ UNCHANGED <<rows, project, env, class, patch, touched, late>>
  BY DEF clear_children_custom_field_value
<1>2. form \in Form /\ form.gone \subseteq rows /\ rows \subseteq Row /\ FormIsRight
  BY <1>1 DEF IInv, TypeOK
<1>3. Descendants(m) \subseteq rows
  BY DEF Descendants
<1>4. /\ form'.at = o /\ form'.was = form.was /\ form'.field = form.field
      /\ form'.hosts = form.hosts
      /\ form'.todo = form.todo \ {m} /\ form'.gone = form.gone \cup Descendants(m)
  BY <1>1, <1>2 DEF Form
<1>5. form' \in Form /\ form'.gone \subseteq rows' /\ form' # None
  <2>1. form' \in Form
    BY <1>1, <1>2, <1>3 DEF Form
  <2> QED
    BY <1>1, <1>2, <1>3, <1>4, <2>1, ObjectsAssumption
<1>6. TypeOK'
  BY <1>1, <1>5 DEF IInv, TypeOK
<1>7. HostsFollowProject'
  BY <1>1 DEF IInv, HostsFollowProject
<1>8. o \in Objects
  BY <1>2 DEF Form
<1>9. Heirs(o)' = Heirs(o)
  <2>1. \A x \in Objects : Links(x)' = Links(x)
    BY <1>1, StillLinks DEF Still
  <2> QED
    BY <1>4, <2>1 DEF Heirs
<1>10. ASSUME NEW r \in Descendants(m)
       PROVE  r.field = form.field /\ r.at \in Heirs(o)
  <2>1. /\ r \in rows /\ r.field = form.field
        /\ r.at[1] = m /\ Target(r.at, o[1]) = o[2]
    BY DEF Descendants
  <2>2. r.at \in Objects
    BY <1>2, <2>1 DEF Row
  <2>3. o[1] \in Paths(m)
    BY <1>1, <1>2 DEF FormIsRight, Models
  <2>4. o = <<o[1], o[2]>> /\ o[2] # None
    BY <1>8, ObjectsArePairs, NoneIsNoId
  <2>5. o \in Links(r.at)
    BY <2>1, <2>3, <2>4 DEF Links
  <2>6. r.at # o
    BY <2>1, <2>3, PathsLeadElsewhere
  <2> QED
    BY <2>1, <2>2, <2>5, <2>6 DEF Heirs
<1>11. \A r \in form'.gone : Deletable(r)'
  BY <1>1, <1>2, <1>4, <1>9, <1>10 DEF FormIsRight, Deletable
<1>12. ASSUME NEW r \in rows, r.field = form.field, r.at \in Heirs(o), r.at[1] = m
       PROVE  r \in Descendants(m)
  BY <1>8, <1>12, HeirsAreOfModels DEF Descendants
<1>13. FormIsRight'
  BY <1>1, <1>2, <1>4, <1>9, <1>11, <1>12 DEF FormIsRight
<1> QED
  BY <1>6, <1>7, <1>13 DEF IInv

\* The rows of what others have left alone are gone, and the project's hosts have its env.
LEMMA CommitFormKeeps ==
  ASSUME IInv, CommitForm
  PROVE  IInv'
<1> DEFINE new == [at |-> form.at, field |-> form.field, value |-> form.value]
<1>1. /\ form # None /\ form' = None /\ touched' = {}
      /\ rows' = (rows \ form.gone) \cup {new}
      /\ env' = IF form.at[1] = "project"
                THEN WithChildren(form.at[2], env[form.at[2]], form.hosts) ELSE env
      /\ late' = late \ form.hosts
      /\ UNCHANGED <<project, class, patch>>
  BY DEF CommitForm
<1>2. form \in Form /\ rows \subseteq Row /\ FormIsRight /\ form.at \in Objects
  BY <1>1 DEF IInv, TypeOK, Form
<1>3. new \in Row /\ new.at = form.at /\ new.field = form.field
  BY <1>2 DEF Form, Row
<1> HIDE DEF new
<1>4. DOMAIN env = CloudHost \cup Asset \cup Project
  BY DEF IInv, TypeOK
<1>5. form.at[1] = "project" => form.at[2] \in Project
  BY <1>2, ObjectsArePairs, TypesAre
<1>6. form.hosts \subseteq CloudHost /\ \A h \in form.hosts : form.at = <<"project", project[h]>>
  BY <1>1, <1>2 DEF FormIsRight, Form
<1>7. env' \in [CloudHost \cup Asset \cup Project -> Env \cup {None}]
  BY <1>1, <1>4, <1>5 DEF WithChildren, IInv, TypeOK
<1>8. TypeOK'
  <2>1. \A r \in rows \ form.gone : ~ (r.at = new.at /\ r.field = new.field)
    BY <1>1, <1>2, <1>3 DEF FormIsRight
  <2>2. \A p, q \in rows' : p.at = q.at /\ p.field = q.field => p = q
    BY <1>1, <2>1 DEF IInv, TypeOK
  <2> QED
    BY <1>1, <1>2, <1>3, <1>7, <2>2 DEF IInv, TypeOK
<1>9. ASSUME NEW p \in Project
      PROVE  env'[p] = env[p]
  <2>1. p \notin CloudHost
    BY ObjectsAssumption
  <2> QED
    BY <1>1, <1>4, <1>6, <2>1 DEF WithChildren
<1>10. ASSUME NEW h \in CloudHost \ form.hosts
       PROVE  env'[h] = env[h]
  <2>1. h \notin Project
    BY ObjectsAssumption
  <2> QED
    BY <1>1, <1>4, <1>5, <2>1 DEF WithChildren
<1>11. ASSUME NEW h \in form.hosts
       PROVE  env'[h] = env[project[h]]
  <2>1. form.at[1] = "project" /\ form.at[2] = project[h] /\ h \in CloudHost
    BY <1>6
  <2> QED
    BY <1>1, <1>4, <2>1 DEF WithChildren
<1>12. HostsFollowProject'
  <2> SUFFICES ASSUME NEW h \in CloudHost, project[h] # None, h \notin late \ form.hosts
               PROVE  env'[h] = env'[project[h]]
    BY <1>1 DEF HostsFollowProject
  <2>1. project[h] \in Project
    BY DEF IInv, TypeOK
  <2>2. CASE h \in form.hosts
    BY <1>9, <1>11, <2>1, <2>2
  <2>3. CASE h \notin form.hosts
    BY <1>9, <1>10, <2>1, <2>3 DEF IInv, HostsFollowProject
  <2> QED
    BY <2>2, <2>3
<1>13. FormIsRight'
  BY <1>1 DEF FormIsRight
<1> QED
  BY <1>8, <1>12, <1>13 DEF IInv

\* An asset changes its own links.
LEMMA SaveAssetKeeps ==
  ASSUME IInv, NEW a \in Asset, NEW e \in Env \cup {None}, NEW c \in Class \cup {None},
         SaveAsset(a, e, c)
  PROVE  IInv'
<1>1. /\ env' = [env EXCEPT ![a] = e] /\ class' = [class EXCEPT ![a] = c]
      /\ Touch({<<"asset", a>>})
      /\ UNCHANGED <<rows, project, form, patch, late>>
  BY DEF SaveAsset
<1>2. <<"asset", a>> \in Objects
  BY ObjectsArePairs, TypesAre
<1>3. /\ touched \subseteq touched' /\ touched' \subseteq Objects
      /\ form # None => <<"asset", a>> \in touched'
  BY <1>1, <1>2, TouchAdds DEF IInv
<1>4. TypeOK'
  BY <1>1, <1>3 DEF IInv, TypeOK
<1>5. \A y \in CloudHost \cup Project : y # a
  BY ObjectsAssumption
<1>6. \A y \in CloudHost \cup Project : env'[y] = env[y]
  BY <1>1, <1>5 DEF IInv, TypeOK
<1>7. HostsFollowProject'
  BY <1>1, <1>6 DEF IInv, TypeOK, HostsFollowProject
<1>8. ASSUME NEW x \in Objects, x # <<"asset", a>>
      PROVE  Still(x)
  <2>1. x[1] \in Types /\ x[2] \in Ids[x[1]] /\ x = <<x[1], x[2]>>
    BY ObjectsArePairs
  <2>2. CASE x[1] = "cloudhost"
    BY <1>1, <1>5, <2>1, <2>2, TypesAre DEF Still, IInv, TypeOK
  <2>3. CASE x[1] = "asset"
    BY <1>1, <1>8, <2>1, <2>3, TypesAre DEF Still, IInv, TypeOK
  <2>4. CASE x[1] = "project"
    BY <1>1, <1>5, <2>1, <2>4, TypesAre DEF Still, IInv, TypeOK
  <2> QED
    BY <2>2, <2>3, <2>4 DEF Still
<1>9. FormIsRight'
  BY <1>1, <1>3, <1>4, <1>8, Meanwhile
<1> QED
  BY <1>4, <1>7, <1>9 DEF IInv

\* A project takes its hosts with it.
LEMMA SaveProjectKeeps ==
  ASSUME IInv, NEW p \in Project, NEW e \in Env \cup {None}, SaveProject(p, e)
  PROVE  IInv'
<1> DEFINE children == {h \in CloudHost : project[h] = p}
           X == {<<"project", p>>} \cup {<<"cloudhost", h>> : h \in children}
<1>1. /\ env' = WithChildren(p, e, children) /\ late' = late \ children /\ Touch(X)
      /\ UNCHANGED <<rows, project, class, form, patch>>
  BY DEF SaveProject
<1>2. X \subseteq Objects
  BY ObjectsArePairs, TypesAre
<1>3. /\ touched \subseteq touched' /\ touched' \subseteq Objects
      /\ form # None => X \subseteq touched'
  <2> HIDE DEF X
  <2> QED
    BY <1>1, <1>2, TouchAdds DEF IInv
<1>4. DOMAIN env = CloudHost \cup Asset \cup Project
  BY DEF IInv, TypeOK
<1>5. /\ env'[p] = e /\ \A h \in children : env'[h] = e
      /\ \A y \in CloudHost \cup Asset \cup Project : y # p /\ y \notin children => env'[y] = env[y]
      /\ env' \in [CloudHost \cup Asset \cup Project -> Env \cup {None}]
  BY <1>1, <1>4 DEF WithChildren, IInv, TypeOK
<1>6. TypeOK'
  BY <1>1, <1>3, <1>5 DEF IInv, TypeOK
<1>7. (CloudHost \cup Asset) \cap Project = {} /\ CloudHost \cap Asset = {}
  BY ObjectsAssumption
<1>8. HostsFollowProject'
  <2> SUFFICES ASSUME NEW h \in CloudHost, project[h] # None, h \notin late \ children
               PROVE  env'[h] = env'[project[h]]
    BY <1>1 DEF HostsFollowProject
  <2>1. project[h] \in Project
    BY DEF IInv, TypeOK
  <2>2. CASE h \in children
    BY <1>5, <2>2
  <2>3. CASE h \notin children
    <3>1. project[h] # p /\ h # p /\ project[h] \notin children
      BY <1>7, <2>1, <2>3
    <3>2. env[h] = env[project[h]]
      BY <2>3 DEF IInv, HostsFollowProject
    <3> HIDE DEF children
    <3> QED
      BY <1>5, <2>1, <2>3, <3>1, <3>2
  <2> QED
    BY <2>2, <2>3
<1>9. ASSUME NEW x \in Objects, x \notin X
      PROVE  Still(x)
  <2>1. x[1] \in Types /\ x[2] \in Ids[x[1]] /\ x = <<x[1], x[2]>>
    BY ObjectsArePairs
  <2>2. CASE x[1] \in {"cloudhost", "asset", "project"}
    <3>1. x[2] \in CloudHost \cup Asset \cup Project
      BY <2>1, <2>2, TypesAre
    <3>2. x[2] # p /\ x[2] \notin children
      BY <1>7, <1>9, <2>1, <2>2, TypesAre
    <3> HIDE DEF children
    <3> QED
      BY <1>1, <1>5, <3>1, <3>2 DEF Still
  <2> QED
    BY <2>2 DEF Still
<1>10. FormIsRight'
  <2> HIDE DEF X
  <2> QED
    BY <1>1, <1>3, <1>6, <1>9, Meanwhile
<1> QED
  BY <1>6, <1>8, <1>10 DEF IInv

\* A request has read the host, and nothing is written.
LEMMA ReadHostKeeps ==
  ASSUME IInv, NEW h \in CloudHost, NEW p \in Project \cup {None},
         NEW e \in Env \cup {None}, NEW c \in Class \cup {None}, ReadHost(h, p, e, c)
  PROVE  IInv'
<1>1. /\ patch' = [host |-> h, project |-> p, class |-> c,
                   env |-> IF p = None THEN e ELSE env[p]]
      /\ UNCHANGED <<rows, project, env, class, form, touched, late>>
  BY DEF ReadHost
<1>2. patch' \in Patch
  BY <1>1 DEF IInv, TypeOK, Patch
<1>3. TypeOK'
  BY <1>1, <1>2 DEF IInv, TypeOK
<1>4. HostsFollowProject'
  BY <1>1 DEF IInv, HostsFollowProject
<1>5. \A x : Still(x)
  BY <1>1 DEF Still
<1>6. FormIsRight'
  BY <1>1, <1>3, <1>5, Meanwhile
<1> QED
  BY <1>3, <1>4, <1>6 DEF IInv

\* A host that is saved is of its project's env, or it is late.
LEMMA SaveHostKeeps ==
  ASSUME IInv, SaveHost
  PROVE  IInv'
<1> DEFINE h == patch.host
           x0 == <<"cloudhost", h>>
<1>1. /\ patch # None /\ (form # None => h \notin form.hosts)
      /\ project' = [project EXCEPT ![h] = patch.project]
      /\ env' = [env EXCEPT ![h] = patch.env]
      /\ class' = [class EXCEPT ![h] = patch.class]
      /\ late' = IF patch.project # None /\ env[patch.project] # patch.env
                 THEN late \cup {h} ELSE late \ {h}
      /\ patch' = None /\ Touch({x0}) /\ UNCHANGED <<rows, form>>
  BY DEF SaveHost
<1>2. /\ h \in CloudHost /\ patch.project \in Project \cup {None}
      /\ patch.env \in Env \cup {None} /\ patch.class \in Class \cup {None}
  BY <1>1 DEF IInv, TypeOK, Patch
<1>3. x0 \in Objects
  BY <1>2, ObjectsArePairs, TypesAre
<1> DEFINE q == patch.project
<1>4. /\ touched \subseteq touched' /\ touched' \subseteq Objects
      /\ form # None => x0 \in touched'
  <2> HIDE DEF x0
  <2> QED
    BY <1>1, <1>3, TouchAdds DEF IInv
<1> HIDE DEF h
<1>5. TypeOK'
  BY <1>1, <1>2, <1>4 DEF IInv, TypeOK
<1>6. \A y \in Asset \cup Project : y # h
  BY <1>2, ObjectsAssumption
<1>7. /\ env'[h] = patch.env /\ project'[h] = q
      /\ \A y \in CloudHost \cup Asset \cup Project : y # h => env'[y] = env[y]
      /\ \A y \in CloudHost : y # h => project'[y] = project[y]
      /\ \A y \in CloudHost \cup Asset : y # h => class'[y] = class[y]
  BY <1>1, <1>2 DEF IInv, TypeOK
<1>8. HostsFollowProject'
  <2> SUFFICES ASSUME NEW g \in CloudHost, project'[g] # None, g \notin late'
               PROVE  env'[g] = env'[project'[g]]
    BY DEF HostsFollowProject
  <2>1. CASE g = h
    <3>1. q \in Project /\ env[q] = patch.env
      BY <1>1, <1>2, <1>7, <2>1
    <3> QED
      BY <1>6, <1>7, <2>1, <3>1
  <2>2. CASE g # h
    <3>1. project[g] # None /\ g \notin late
      BY <1>1, <1>7, <2>2
    <3>2. project[g] \in Project
      BY <3>1 DEF IInv, TypeOK
    <3> QED
      BY <1>6, <1>7, <2>2, <3>1, <3>2 DEF IInv, HostsFollowProject
  <2> QED
    BY <2>1, <2>2
<1>9. ASSUME NEW x \in Objects, x # x0
      PROVE  Still(x)
  <2>1. x[1] \in Types /\ x[2] \in Ids[x[1]] /\ x = <<x[1], x[2]>>
    BY ObjectsArePairs
  <2>2. CASE x[1] \in {"cloudhost", "asset", "project"}
    <3>1. /\ x[2] # h
          /\ x[1] = "cloudhost" => x[2] \in CloudHost
          /\ x[1] = "asset" => x[2] \in Asset
          /\ x[1] = "project" => x[2] \in Project
      BY <1>6, <1>9, <2>1, <2>2, TypesAre
    <3> QED
      BY <1>7, <2>2, <3>1 DEF Still
  <2> QED
    BY <2>2 DEF Still
<1>10. form # None => \A g \in form.hosts : project'[g] = project[g]
  BY <1>1, <1>7 DEF IInv, TypeOK, Form
<1>11. FormIsRight'
  <2> HIDE DEF x0
  <2> QED
    BY <1>1, <1>4, <1>5, <1>9, <1>10, Meanwhile
<1> QED
  BY <1>5, <1>8, <1>11 DEF IInv

\* The invariant is inductive.
LEMMA NextKeeps == IInv /\ [Next]_vars => IInv'
<1> SUFFICES ASSUME IInv, [Next]_vars
             PROVE  IInv'
  OBVIOUS
<1>1. ASSUME NEW o \in Objects, NEW f \in Field, NEW v \in Value,
             Create(o, f, v) \/ \E was \in Field : SaveForm(o, was, f, v)
      PROVE  IInv'
  BY <1>1, CreateKeeps, SaveFormKeeps
<1>2. ASSUME NEW r \in rows, Destroy(r) \/ \E f \in Field, v \in Value : Update(r, f, v)
      PROVE  IInv'
  BY <1>2, DestroyKeeps, UpdateKeeps
<1>3. ASSUME NEW m \in Types, clear_children_custom_field_value(m)
      PROVE  IInv'
  BY <1>3, ClearKeeps
<1>4. CASE CommitForm
  BY <1>4, CommitFormKeeps
<1>5. ASSUME NEW a \in Asset, NEW e \in Env \cup {None}, NEW c \in Class \cup {None},
             SaveAsset(a, e, c)
      PROVE  IInv'
  BY <1>5, SaveAssetKeeps
<1>6. ASSUME NEW p \in Project, NEW e \in Env \cup {None}, SaveProject(p, e)
      PROVE  IInv'
  BY <1>6, SaveProjectKeeps
<1>7. ASSUME NEW h \in CloudHost, NEW p \in Project \cup {None},
             NEW e \in Env \cup {None}, NEW c \in Class \cup {None}, ReadHost(h, p, e, c)
      PROVE  IInv'
  BY <1>7, ReadHostKeeps
<1>8. CASE SaveHost
  BY <1>8, SaveHostKeeps
<1>9. CASE UNCHANGED vars
  <2>1. /\ UNCHANGED <<rows, project, env, class, form, patch, touched, late>>
    BY <1>9 DEF vars
  <2>2. TypeOK'
    BY <2>1 DEF IInv, TypeOK
  <2>3. HostsFollowProject'
    BY <2>1 DEF IInv, HostsFollowProject
  <2>4. \A x : Still(x)
    BY <2>1 DEF Still
  <2>5. FormIsRight'
    BY <2>1, <2>2, <2>4, Meanwhile
  <2> QED
    BY <2>2, <2>3, <2>5 DEF IInv
<1> QED
  BY <1>1, <1>2, <1>3, <1>4, <1>5, <1>6, <1>7, <1>8, <1>9 DEF Next

-----------------------------------------------------------------------------
(* The theorems *)

\* IInv, from which the properties follow, holds for any objects, fields and values.
THEOREM Invariance == Spec => []IInv
<1> QED
  BY InitInv, NextKeeps, PTL DEF Spec

\* Rows keep their types, and whatever forms and requests of the API do an object
\* has one value for a field (CustomFieldValue's unique_together).
THEOREM TypeCorrect == Spec => []TypeOK
<1>1. IInv => TypeOK
  BY DEF IInv
<1> QED
  BY Invariance, <1>1, PTL

\* Alone or in a list, an object shows for each field the value of the nearest
\* object that has one (fields.py), and what the API finds by a value shows it.
THEOREM ReadsAgreeAlways == Spec => []ReadsAgree
<1> QED
  BY TypeCorrect, ReadsAreTheSame, PTL

\* A host has the env of its project, except one that was saved with what the
\* project's env had been (CloudHost.save, update_service_env_on_cloudproject_save).
THEOREM HostsFollowProjectAlways == Spec => []HostsFollowProject
<1>1. IInv => HostsFollowProject
  BY DEF IInv
<1> QED
  BY Invariance, <1>1, PTL

\* A form that clears reaches all that inherits and spares the rest, whatever other
\* requests do between its deletes (clear_children_custom_field_value).
THEOREM ClearsWhatInheritsAlways == Spec => ClearsWhatInherits
<1> DEFINE Clears == CommitsForm => /\ \A x \in Heirs(form.at) : Reached(x)
                                    /\ \A r \in rows \ rows' : Deletable(r)
           Shows == \A x \in Objects : \A r \in rows : r.at \in Links(x) =>
                      \E q \in Nearest(x) : q \in rows /\ q.field = r.field
<1>1. IInv /\ IInv' /\ Shows' /\ [Next]_vars => [Clears]_vars
  <2> SUFFICES ASSUME IInv, IInv', Shows', Next, CommitsForm
               PROVE  /\ \A x \in Heirs(form.at) : Reached(x)
                      /\ \A r \in rows \ rows' : Deletable(r)
    OBVIOUS
  <2> DEFINE o == form.at
             new == [at |-> o, field |-> form.field, value |-> form.value]
  <2>1. form # None /\ form' = None
    BY DEF CommitsForm
  <2>2. form \in Form /\ FormIsRight /\ rows \subseteq Row /\ rows' \subseteq Row
    BY <2>1 DEF IInv, TypeOK
  <2>3. o \in Objects
    BY <2>2 DEF Form
  <2>4. CommitForm
    <3>1. ASSUME NEW m \in Types, clear_children_custom_field_value(m)
          PROVE  FALSE
      <4>1. form' = [form EXCEPT !.todo = @ \ {m}, !.gone = @ \cup Descendants(m)]
        BY <3>1 DEF clear_children_custom_field_value
      <4>2. Descendants(m) \subseteq Row
        BY <2>2 DEF Descendants
      <4>3. form' \in Form
        BY <2>2, <4>1, <4>2 DEF Form
      <4> QED
        BY <2>1, <4>3, ObjectsAssumption
    <3> QED
      BY <2>1, <3>1 DEF Next, Create, SaveForm, Destroy, Update, SaveAsset, SaveProject,
                        ReadHost, SaveHost
  <2>5. /\ form.todo = {} /\ rows' = (rows \ form.gone) \cup {new}
        /\ UNCHANGED <<project, class>>
        /\ env' = IF o[1] = "project" THEN WithChildren(o[2], env[o[2]], form.hosts) ELSE env
    BY <2>4 DEF CommitForm
  <2>6. new.at = o /\ new.field = form.field /\ new.value = form.value /\ new \in rows'
    BY <2>5
  <2> HIDE DEF new
  <2>7. ASSUME NEW r \in rows', r.field = form.field, r # new
        PROVE  /\ r.at \in Objects /\ r.at # o
               /\ o \in Links(r.at) => r.at \in touched
    <3>1. r \in rows /\ r \notin form.gone
      BY <2>5, <2>7
    <3>2. r.at \in Objects /\ r.at[1] \notin form.todo
      BY <2>2, <2>5, <3>1 DEF Row
    <3>3. r.at # o
      BY <2>1, <2>2, <2>7, <3>1 DEF FormIsRight
    <3>4. r.at \in Heirs(o) => r.at \in touched
      BY <2>1, <2>2, <2>7, <3>1, <3>2 DEF FormIsRight
    <3> QED
      BY <3>2, <3>3, <3>4 DEF Heirs
  <2>8. ASSUME NEW x \in Heirs(o)
        PROVE  Reached(x)
    <3>1. x \in Objects /\ x # o /\ o \in Links(x)
      BY DEF Heirs
    <3>2. o \in Links(x)'
      \* Only the env of a project's hosts changes, and the form is not of an env then.
      <4>1. PICK p \in Paths(x[1]) : o = <<p, Target(x, p)>> /\ Target(x, p) # None
        BY <3>1 DEF Links
      <4>2. p = o[1]
        BY <4>1
      <4>3. Target(x, p)' = Target(x, p)
        <5>1. p = "env" => env' = env
          BY <2>5, <4>2
        <5> QED
          BY <2>5, <5>1 DEF Target
      <4> QED
        BY <4>1, <4>3 DEF Links
    <3>3. PICK r \in Nearest(x)' : r \in rows' /\ r.field = form.field
      BY <2>6, <3>1, <3>2
    <3>4. CASE r = new
      BY <2>6, <3>3, <3>4 DEF Reached
    <3>5. CASE r # new
      <4>1. r.at \in Objects /\ r.at # o /\ (o \in Links(r.at) => r.at \in touched)
        BY <2>7, <3>3, <3>5
      <4>2. CASE r.at \in touched
        BY <3>3, <4>2 DEF Reached
      <4>3. CASE r.at \notin touched
        <5>1. o \notin Links(r.at) /\ r.at # x
          BY <3>1, <4>1, <4>3
        <5> QED
          BY <3>3, <5>1 DEF Reached
      <4> QED
        BY <4>2, <4>3
    <3> QED
      BY <3>4, <3>5
  <2>9. \A r \in rows \ rows' : Deletable(r)
    BY <2>1, <2>2, <2>5 DEF FormIsRight
  <2> QED
    BY <2>8, <2>9
<1>2. IInv => TypeOK
  BY DEF IInv
<1> QED
  BY Invariance, ShowsValues, <1>1, <1>2, PTL DEF Spec, ClearsWhatInherits
=============================================================================
