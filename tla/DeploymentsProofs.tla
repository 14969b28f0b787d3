-------------------------- MODULE DeploymentsProofs --------------------------
(***************************************************************************)
(* Proofs about Deployments for any hosts, jobs, forms and names, any      *)
(* number of addresses, and any order of the names as strings.             *)
(***************************************************************************)
EXTENDS Deployments, WellFoundedInduction, TLAPS

-----------------------------------------------------------------------------
(* The inductive invariant *)

\* A job under way has the locals its action needs, and one that is not has none.
RightJob(j, x) ==
  /\ x.done \subseteq Actions[j]
  /\ x.pc \notin {"ready", "acting", "frozen"} => x = Ended(x.pc)
  /\ x.pc \in {"ready", "acting", "frozen"} /\ NeedsRow \cap Actions[j] # {} => x.param # None
  /\ x.pc = "acting" => /\ x.act \in Actions[j]
                        /\ run_after[x.act] \cap Actions[j] \subseteq x.done
                        /\ x.act \in NeedsAddress => x.address # None
                        /\ x.act \in NeedsRow <=> x.row # None
  /\ x.pc # "acting" => x.row = None /\ x.got = None /\ ~ x.locks
  /\ x.locks => x.got # None
  /\ x.made # None => {"clean_ipaddresses", "clean_dhcp"} \cap Actions[j] \subseteq x.done

\* One job at a time works on a host, and one has the counter.
JobsAreRight ==
  /\ \A j \in Job : RightJob(j, job[j])
  /\ \A j, k \in Job : Active(j) /\ Active(k) /\ HostOf[j] = HostOf[k] => j = k
  /\ \A j, k \in Job : job[j].locks /\ job[k].locks => j = k

\* The row i as it is, as a form is going to save it, and as an action has read it.
IsCopy(i, r) ==
  \/ Exists(i) /\ r = ip[i]
  \/ \E u \in Form : form[u].pc = "save" /\ form[u].id = i /\ r = form[u].row
  \/ \E j \in Job : job[j].row # None /\ job[j].param = i /\ r = job[j].row

\* The keys and Ethernets of rows in memory are of rows there have been, and a request has
\* what it is about.
KeysAreOld ==
  /\ \A i \in Id, r \in Row : IsCopy(i, r) => i <= created /\ r.eth \in Host \cup 1..created
  /\ \A e \in Id : e > created => owner[e] = None
  /\ \A j \in Job : job[j].param # None => job[j].param <= created
  /\ \A u \in Form :
       /\ form[u].pc = "save" => form[u].row # None /\ (form[u].id # None => form[u].id \in Id)
       /\ form[u].pc = "delete" => form[u].id \in Id /\ form[u].id <= created
       /\ form[u].pc = "delete_ethernet" => form[u].id \in Ether
       /\ form[u].pc = "switch" => form[u].number # None

\* Nobody is about to change the entry a deployment has created.
EntryIsSafe(j) ==
  LET i == job[j].made
  IN /\ i <= created /\ Exists(i) /\ ip[i].dhcp_expose
     /\ ip[i].eth = HostOf[j] /\ ip[i].hostname = job[j].served
     /\ \A u \in Form :
          /\ form[u].pc = "save" /\ form[u].id = i =>
               /\ form[u].row.dhcp_expose
               /\ form[u].row.eth = HostOf[j] /\ form[u].row.hostname = job[j].served
          /\ ~ (form[u].pc = "delete" /\ form[u].id = i)
     /\ \A k \in Job : job[k].param # i
Entry(j) ==
  job[j].made # None /\ owner[HostOf[j]] # None /\ job[j].made \notin overruled
EntriesAreSafe == \A j \in Job : Entry(j) => EntryIsSafe(j)

\* The host has the name, or a job has read it of the host and may save it.
Remembers(j, h, n) ==
  \/ HostOf[j] = h /\ n \in {job[j].mem, job[j].name}
  \/ job[j].row # None /\ owner[job[j].row.eth] = h /\ job[j].row.hostname = n
Has(h, n) == Holds(h, n) \/ \E j \in Job : Remembers(j, h, n)

\* A name from the counter is of one host, before the commit that issues it and after it.
NamesAreRight ==
  /\ \A n \in issued \ excused, h, k \in Host : Has(h, n) /\ Has(k, n) => h = k
  /\ \A j \in Job : job[j].locks /\ job[j].got \notin excused =>
       \A h \in Host : Has(h, job[j].got) => h = HostOf[j]

IInv ==
  /\ TypeOK
  /\ JobsAreRight
  /\ KeysAreOld
  /\ EntriesAreSafe
  /\ NamesAreRight

-----------------------------------------------------------------------------
(* Types *)

\* Every set of natural numbers has a least one.
LEMMA LeastOf ==
  ASSUME NEW T \in SUBSET Nat, T # {}
  PROVE  \E n \in T : \A m \in T : n <= m
<1> DEFINE R == OpToRel(<, Nat)
<1>1. IsWellFoundedOn(R, Nat)
  BY NatLessThanWellFounded
<1>2. R = {p \in Nat \X Nat : p[1] < p[2]}
  BY DEF OpToRel
<1> HIDE DEF R
<1>3. PICK n \in T : \A m \in T : ~ (<<m, n>> \in R)
  BY <1>1, WFMin
<1>4. \A m, k \in Nat : m < k => <<m, k>> \in R
  BY <1>2
<1>5. n \in Nat /\ \A m \in T : m \in Nat /\ ~ (m < n)
  BY <1>3, <1>4
<1> QED
  BY <1>5

\* One that is bounded has a greatest one.
LEMMA GreatestOf ==
  ASSUME NEW N \in Nat, NEW T \in SUBSET (0..N), T # {}
  PROVE  \E n \in T : \A m \in T : m <= n
<1> DEFINE U == {N - m : m \in T}
<1>0. \A m \in T : m \in Nat /\ N - m \in Nat
  OBVIOUS
<1>1. U \in SUBSET Nat /\ U # {}
  <2>1. U \in SUBSET Nat
    BY <1>0
  <2>2. PICK m \in T : TRUE
    OBVIOUS
  <2>3. N - m \in U
    OBVIOUS
  <2> QED
    BY <2>1, <2>3
<1>2. /\ \A k \in U : \E n \in T : k = N - n
      /\ \A m \in T : N - m \in U /\ m \in Nat
  OBVIOUS
<1> HIDE DEF U
<1>3. PICK k \in U : \A m \in U : k <= m
  BY <1>1, LeastOf
<1>4. PICK n \in T : k = N - n
  BY <1>2
<1>5. \A m \in T : N - n <= N - m
  BY <1>2, <1>3, <1>4
<1> QED
  BY <1>2, <1>5

LEMMA NoneIsElse ==
  /\ None \notin Host /\ None \notin Nat /\ None \notin Row /\ None \notin Id
  /\ None \notin Name /\ None \notin Address /\ None \notin Ether
  /\ Id \subseteq Nat \ {0} /\ Name \subseteq Nat \ {0} /\ Address \subseteq Nat \ {0}
  /\ Ether = Host \cup Id /\ Host \cap Id = {}
  BY ConfigAssumption DEF Id, Name, Address, Ether

LEMMA RowFields ==
  ASSUME NEW r \in Row
  PROVE  /\ r.address \in Address /\ r.eth \in Ether /\ r.hostname \in Name \cup {None}
         /\ r.dhcp_expose \in BOOLEAN /\ r.is_management \in BOOLEAN
         /\ r # None
  BY NoneIsElse DEF Row

LEMMA RowOf ==
  ASSUME NEW a \in Address, NEW e \in Ether, NEW n \in Name \cup {None},
         NEW x \in BOOLEAN, NEW m \in BOOLEAN
  PROVE  [address |-> a, eth |-> e, hostname |-> n, dhcp_expose |-> x,
          is_management |-> m] \in Row
  BY DEF Row

LEMMA JobFields ==
  ASSUME NEW x \in JobState
  PROVE  /\ x.pc \in {"new", "ready", "acting", "frozen", "done", "failed"}
         /\ x.done \subseteq ActionName /\ x.act \in ActionName \cup {None}
         /\ x.mem \in Name \cup {None} /\ x.name \in Name \cup {None}
         /\ x.got \in Name \cup {None} /\ x.served \in Name \cup {None}
         /\ x.address \in Address \cup {None} /\ x.locks \in BOOLEAN
         /\ x.param \in Id \cup {None} /\ x.made \in Id \cup {None}
         /\ x.row \in Row \cup {None}
  BY DEF JobState

\* Setting a field to the value it has changes nothing.
LEMMA SamePc ==
  ASSUME NEW x \in JobState
  PROVE  [x EXCEPT !.pc = x.pc] = x
  BY DEF JobState

LEMMA FormFields ==
  ASSUME NEW x \in FormState
  PROVE  /\ x.pc \in {"new", "save", "delete", "delete_ethernet", "switch", "done"}
         /\ x.id \in Ether \cup {None} /\ x.row \in Row \cup {None}
         /\ x.number \in 0..MaxName \cup {None}
  BY DEF FormState

\* What TypeOK says, variable by variable.
RowsTyped ==
  /\ ip \in [Id -> Row \cup {None}] /\ created \in 0..MaxId
  /\ owner \in [Ether -> Host \cup {None}] /\ \A h \in Host : owner[h] \in {h, None}
  /\ \A i \in Id : Exists(i) => i <= created /\ owner[ip[i].eth] # None
  /\ \A i, k \in Id : i # k /\ Exists(i) /\ Exists(k) =>
        ip[i].address # ip[k].address /\ ip[i].eth # ip[k].eth
NamesTyped ==
  /\ hostname \in [Host -> Name \cup {None}]
  /\ counter \in 0..MaxName /\ useCounter \in BOOLEAN
  /\ issued \subseteq Name /\ excused \subseteq Name /\ overruled \subseteq Id
JobsTyped ==
  job \in [Job -> JobState] /\ \A j \in Job : job[j].done \subseteq Actions[j]
FormsTyped == form \in [Form -> FormState]

LEMMA TypesSplit == TypeOK <=> RowsTyped /\ NamesTyped /\ JobsTyped /\ FormsTyped
  BY DEF TypeOK, RowsTyped, NamesTyped, JobsTyped, FormsTyped

LEMMA Configured ==
  /\ \A j \in Job : HostOf[j] \in Host /\ Actions[j] \subseteq ActionName
  /\ MaxName \in Nat /\ MaxAddress \in Nat /\ MaxId \in Nat
  /\ Typed \subseteq Name
  BY ConfigAssumption

\* A row that exists.
LEMMA RowThere ==
  ASSUME RowsTyped, NEW i \in Id, Exists(i)
  PROVE  /\ ip[i] \in Row /\ i <= created /\ ip[i].eth \in Ether
         /\ owner[ip[i].eth] \in Host /\ ip[i].hostname \in Name \cup {None}
         /\ ip[i].eth \in Host => owner[ip[i].eth] = ip[i].eth
<1>1. ip[i] \in Row /\ i <= created /\ owner[ip[i].eth] # None
  BY DEF RowsTyped, Exists
<1>2. ip[i].eth \in Ether /\ ip[i].hostname \in Name \cup {None}
  BY <1>1, RowFields
<1> QED
  BY <1>1, <1>2 DEF RowsTyped

LEMMA NewAndEnded ==
  /\ NewJob \in JobState /\ NewJob.pc = "new" /\ NewJob.done = {}
  /\ NewForm \in FormState /\ NewForm.pc = "new" /\ NewForm.row = None
  /\ Answered \in FormState /\ Answered.pc = "done"
  /\ \A pc \in {"new", "done", "failed"} :
       LET x == Ended(pc)
       IN /\ x \in JobState /\ x.pc = pc /\ x.done = {} /\ x.mem = None /\ x.name = None
          /\ x.act = None /\ x.address = None /\ x.got = None /\ x.locks = FALSE
          /\ x.param = None /\ x.row = None /\ x.made = None /\ x.served = None
<1>1. NewJob \in JobState /\ NewJob.pc = "new" /\ NewJob.done = {}
  BY DEF NewJob, JobState
<1>2. NewForm \in FormState /\ NewForm.pc = "new" /\ NewForm.row = None
  BY DEF NewForm, FormState
<1>3. Answered \in FormState /\ Answered.pc = "done"
  BY DEF Answered, NewForm, FormState
<1>4. ASSUME NEW pc \in {"new", "done", "failed"}
      PROVE  LET x == Ended(pc)
             IN /\ x \in JobState /\ x.pc = pc /\ x.done = {} /\ x.mem = None /\ x.name = None
                /\ x.act = None /\ x.address = None /\ x.got = None /\ x.locks = FALSE
                /\ x.param = None /\ x.row = None /\ x.made = None /\ x.served = None
  BY DEF Ended, NewJob, JobState
<1> QED
  BY <1>1, <1>2, <1>3, <1>4

-----------------------------------------------------------------------------
(* Names and addresses to give *)

LEMMA UsedIs ==
  ASSUME RowsTyped, NamesTyped
  PROVE  /\ Used \subseteq Name
         /\ \A h \in Host : hostname[h] # None => hostname[h] \in Used
         /\ \A i \in Id : Exists(i) /\ ip[i].hostname # None => ip[i].hostname \in Used
<1>1. \A h \in Host : hostname[h] \in Name \cup {None}
  BY DEF NamesTyped
<1>2. \A i \in Id : Exists(i) => ip[i].hostname \in Name \cup {None}
  BY RowThere
<1> QED
  BY <1>1, <1>2 DEF Used

\* Of the names in use one is the last.
LEMMA LastName ==
  ASSUME RowsTyped, NamesTyped, Used # {}
  PROVE  /\ current_counter_without_model \in Used
         /\ \A m \in Used \ {current_counter_without_model} :
              Earlier(m, current_counter_without_model)
<1>1. /\ Used \subseteq Name /\ MaxName \in Nat /\ Rank \in [Name -> Name]
      /\ \A m, n \in Name : Rank[m] = Rank[n] => m = n
  BY UsedIs, ConfigAssumption
<1> DEFINE T == {Rank[n] : n \in Used}
<1>2. T \in SUBSET (0..MaxName) /\ T # {}
  <2>1. \A n \in Used : Rank[n] \in 0..MaxName
    BY <1>1 DEF Name
  <2>2. T \in SUBSET (0..MaxName)
    BY <2>1
  <2>3. PICK n \in Used : TRUE
    OBVIOUS
  <2>4. Rank[n] \in T
    OBVIOUS
  <2> QED
    BY <2>2, <2>4
<1>3. (\A k \in T : \E n \in Used : k = Rank[n]) /\ \A m \in Used : Rank[m] \in T
  OBVIOUS
<1> HIDE DEF T
<1>4. PICK k \in T : \A l \in T : l <= k
  BY <1>1, <1>2, GreatestOf
<1>5. PICK n \in Used : k = Rank[n]
  BY <1>3
<1>6. \A m \in Used \ {n} : Rank[m] < Rank[n]
  <2>1. \A m \in Used : Rank[m] \in Nat /\ Rank[m] <= Rank[n]
    BY <1>1, <1>3, <1>4, <1>5 DEF Name
  <2>2. \A m \in Used \ {n} : Rank[m] # Rank[n]
    BY <1>1
  <2> QED
    BY <2>1, <2>2
<1>7. \E q \in Used : \A m \in Used \ {q} : Earlier(m, q)
  BY <1>6 DEF Earlier
<1> QED
  BY <1>7 DEF current_counter_without_model

LEMMA CounterIsNat ==
  ASSUME RowsTyped, NamesTyped
  PROVE  current_counter_without_model \in 0..MaxName
<1>1. CASE Used = {}
  BY <1>1, Configured DEF current_counter_without_model
<1>2. CASE Used # {}
  BY <1>2, LastName, UsedIs, Configured DEF Name
<1> QED
  BY <1>1, <1>2

\* As long as strings are ordered as numbers are, the number after the last one is new.
LEMMA NextIsNew ==
  ASSUME RowsTyped, NamesTyped
  PROVE  NextNameIsNew
<1> SUFFICES ASSUME \A n \in Used : n <= Full, next_counter_without_model \in Used
             PROVE  FALSE
  BY DEF NextNameIsNew
<1> DEFINE c == current_counter_without_model
<1>1. /\ c \in Used /\ c + 1 \in Used /\ c \in Nat
      /\ \A m \in Used \ {c} : Earlier(m, c)
  BY LastName, CounterIsNat DEF next_counter_without_model
<1>2. c \in Name /\ c + 1 \in Name /\ c + 1 <= Full
  BY <1>1, UsedIs
<1> HIDE DEF c
<1>3. Rank[c] < Rank[c + 1]
  BY <1>1, <1>2, ConfigAssumption
<1>4. Rank[c + 1] < Rank[c]
  BY <1>1 DEF Earlier
<1>5. Rank[c] \in Nat /\ Rank[c + 1] \in Nat
  BY <1>2, ConfigAssumption DEF Name
<1> QED
  BY <1>3, <1>4, <1>5

LEMMA FirstFreeAddress ==
  get_first_free_ip \in Address \cup {None}
<1>1. CASE FreeAddresses = {}
  BY <1>1 DEF get_first_free_ip
<1>2. CASE FreeAddresses # {}
  <2>1. FreeAddresses \in SUBSET Nat /\ FreeAddresses \subseteq Address
    BY NoneIsElse DEF FreeAddresses
  <2>2. \E x \in FreeAddresses : \A y \in FreeAddresses : x <= y
    BY <1>2, <2>1, LeastOf
  <2>3. Min(FreeAddresses) \in FreeAddresses
    BY <2>2 DEF Min
  <2> QED
    BY <1>2, <2>1, <2>3 DEF get_first_free_ip
<1> QED
  BY <1>1, <1>2

-----------------------------------------------------------------------------
(* What keeps the parts of the invariant *)

\* The parts, for citing.
LEMMA Parts ==
  ASSUME IInv
  PROVE  /\ TypeOK /\ RowsTyped /\ NamesTyped /\ JobsTyped /\ FormsTyped
         /\ JobsAreRight /\ KeysAreOld
         /\ EntriesAreSafe /\ NamesAreRight
         /\ job \in [Job -> JobState] /\ form \in [Form -> FormState]
         /\ created \in Nat /\ created <= MaxId
  BY TypesSplit, Configured DEF IInv, JobsTyped, FormsTyped, RowsTyped

\* A job takes a step that leaves it with what its next action needs.
LEMMA JobsTo ==
  ASSUME IInv, NEW j \in Job, NEW x \in JobState, job' = [job EXCEPT ![j] = x],
         RightJob(j, x),
         x.pc \in {"ready", "acting", "frozen"} =>
           Active(j) \/ \A k \in Job : Active(k) => HostOf[k] # HostOf[j],
         x.locks => job[j].locks \/ ~ CounterLocked(j)
  PROVE  JobsTyped' /\ JobsAreRight'
<1>1. job \in [Job -> JobState] /\ JobsTyped /\ JobsAreRight
  BY Parts
<1>2. /\ job' \in [Job -> JobState] /\ job'[j] = x
      /\ \A k \in Job \ {j} : job'[k] = job[k]
  BY <1>1
<1>3. JobsTyped'
  BY <1>1, <1>2 DEF JobsTyped, RightJob
<1>4. \A k \in Job : RightJob(k, job'[k])
  BY <1>1, <1>2 DEF JobsAreRight
<1>5. ASSUME NEW k \in Job, NEW l \in Job, Active(k)', Active(l)', HostOf[k] = HostOf[l]
      PROVE  k = l
  BY <1>1, <1>2, <1>5 DEF JobsAreRight, Active
<1>6. ASSUME NEW k \in Job, NEW l \in Job, job'[k].locks, job'[l].locks
      PROVE  k = l
  BY <1>1, <1>2, <1>6 DEF JobsAreRight, CounterLocked
<1> QED
  BY <1>3, <1>4, <1>5, <1>6 DEF JobsAreRight

\* Rows are of keys and Ethernets there were, or the next; so is what is in memory.
LEMMA RowsTo ==
  ASSUME IInv, TypeOK', created <= created',
         \A i \in Id : ip'[i] # None =>
           \/ \E q \in Row : IsCopy(i, q) /\ q.eth = ip'[i].eth
           \/ i <= created' /\ ip'[i].eth \in Host \cup 1..created',
         \A k \in Job : job'[k].row # None /\ job'[k].param # None =>
           \E q \in Row : IsCopy(job'[k].param, q) /\ q.eth = job'[k].row.eth,
         \A k \in Job : job'[k].param # None =>
           job'[k].param = job[k].param \/ job'[k].param <= created,
         \A u \in Form : /\ form'[u].pc = "save" => form'[u].row # None
                         /\ form'[u].pc = "switch" => form'[u].number # None,
         \A u \in Form : form'[u].pc = "save" /\ form'[u].id # None =>
           /\ form'[u].id \in Id
           /\ \/ \E q \in Row : IsCopy(form'[u].id, q) /\ q.eth = form'[u].row.eth
              \/ form'[u].id <= created /\ form'[u].row.eth \in Host \cup 1..created,
         \A u \in Form : form'[u].pc = "delete" => form'[u].id \in Id /\ form'[u].id <= created,
         \A u \in Form : form'[u].pc = "delete_ethernet" => form'[u].id \in Ether,
         \A e \in Ether : \/ owner'[e] \in {owner[e], None}
                          \/ e \in Id /\ created < e /\ e <= created'
  PROVE  KeysAreOld'
<1>1. /\ KeysAreOld /\ created \in Nat /\ created' \in Nat
      /\ job \in [Job -> JobState]
      /\ ip' \in [Id -> Row \cup {None}] /\ job' \in [Job -> JobState]
  BY Parts, Configured DEF TypeOK
<1>2. ASSUME NEW i \in Id, NEW r \in Row, IsCopy(i, r)'
      PROVE  \/ \E q \in Row : IsCopy(i, q) /\ q.eth = r.eth
             \/ i <= created' /\ r.eth \in Host \cup 1..created'
             \/ i <= created /\ r.eth \in Host \cup 1..created
  <2>1. CASE ip'[i] # None /\ r = ip'[i]
    BY <2>1
  <2>2. CASE \E u \in Form : form'[u].pc = "save" /\ form'[u].id = i /\ r = form'[u].row
    BY <2>2, NoneIsElse
  <2>3. CASE \E k \in Job : job'[k].row # None /\ job'[k].param = i /\ r = job'[k].row
    BY <2>3, NoneIsElse
  <2> QED
    BY <1>2, <2>1, <2>2, <2>3 DEF IsCopy, Exists
<1>3. \A i \in Id, q \in Row : IsCopy(i, q) => i <= created /\ q.eth \in Host \cup 1..created
  BY <1>1 DEF KeysAreOld
<1>4. Id \subseteq Nat /\ Host \cap Id = {} /\ Ether = Host \cup Id
      /\ \A k \in Job : job'[k].param \in Id \cup {None} /\ job[k].param \in Id \cup {None}
  BY <1>1, NoneIsElse, JobFields
<1>5. \A p \in Id : p <= created => p <= created' /\ ~ (created < p)
  BY <1>1, <1>4
<1>6. \A i \in Id, r \in Row : IsCopy(i, r)' => i <= created' /\ r.eth \in Host \cup 1..created'
  <2> SUFFICES ASSUME NEW i \in Id, NEW r \in Row, IsCopy(i, r)'
               PROVE  i <= created' /\ r.eth \in Host \cup 1..created'
    OBVIOUS
  <2>1. CASE \E q \in Row : IsCopy(i, q) /\ q.eth = r.eth
    BY <1>1, <1>3, <1>4, <2>1
  <2>2. CASE i <= created' /\ r.eth \in Host \cup 1..created'
    BY <2>2
  <2>3. CASE i <= created /\ r.eth \in Host \cup 1..created
    BY <1>1, <1>4, <2>3
  <2> QED
    BY <1>2, <2>1, <2>2, <2>3
<1>7. \A e \in Id : e > created' => owner'[e] = None
  <2> SUFFICES ASSUME NEW e \in Id, e > created'
               PROVE  owner'[e] = None
    OBVIOUS
  <2>1. e > created /\ ~ (e <= created') /\ e \in Ether
    BY <1>1, <1>4
  <2> QED
    BY <1>1, <2>1 DEF KeysAreOld
<1>8. \A k \in Job : job'[k].param # None => job'[k].param <= created'
  <2> SUFFICES ASSUME NEW k \in Job, job'[k].param # None
               PROVE  job'[k].param <= created'
    OBVIOUS
  <2>1. job'[k].param \in Id /\ job'[k].param <= created
    BY <1>1, <1>4 DEF KeysAreOld
  <2> QED
    BY <1>5, <2>1
<1>9. \A u \in Form : form'[u].pc = "delete" => form'[u].id \in Id /\ form'[u].id <= created'
  BY <1>5
<1> QED
  BY <1>6, <1>7, <1>8, <1>9 DEF KeysAreOld

\* The entries that were safe stay so: the rows are there, forms know them as they are.
\* What a request is about to write leaves the entry of the row as it is.
SameEntry(new, old) == new.dhcp_expose /\ new.eth = old.eth /\ new.hostname = old.hostname

LEMMA EntriesTo ==
  ASSUME IInv, TypeOK', created <= created', overruled \subseteq overruled',
         \A h \in Host : owner'[h] \in {owner[h], None},
         \A k \in Job : job'[k].made # None /\ owner'[HostOf[k]] # None =>
           \/ job'[k].made = job[k].made /\ job'[k].served = job[k].served
           \/ EntryIsSafe(k)',
         \A k \in Job : Entry(k) /\ owner'[HostOf[k]] # None =>
           LET i == job[k].made
           IN /\ ip'[i] # None /\ ip'[i].dhcp_expose /\ ip'[i].eth = ip[i].eth
              /\ ip'[i].hostname = ip[i].hostname,
         \A u \in Form, i \in Id : Exists(i) /\ ip[i].dhcp_expose /\ i \notin overruled' =>
           /\ form'[u].pc = "save" /\ form'[u].id = i =>
                form'[u] = form[u] \/ SameEntry(form'[u].row, ip[i])
           /\ form'[u].pc = "delete" /\ form'[u].id = i => form'[u] = form[u],
         \A k, l \in Job : Entry(l) =>
           job'[k].param \in {job[k].param, None} \/ job'[k].param # job[l].made
  PROVE  EntriesAreSafe'
<1> SUFFICES ASSUME NEW k \in Job, job'[k].made # None, owner'[HostOf[k]] # None,
                    job'[k].made \notin overruled'
             PROVE  EntryIsSafe(k)'
  BY DEF EntriesAreSafe, Entry
<1>1. CASE EntryIsSafe(k)'
  BY <1>1
<1>2. CASE job'[k].made = job[k].made /\ job'[k].served = job[k].served
  <2> DEFINE i == job[k].made
  <2>1. HostOf[k] \in Host /\ owner[HostOf[k]] # None
    BY Configured
  <2>2. Entry(k) /\ EntryIsSafe(k)
    BY <1>2, <2>1, Parts DEF Entry, EntriesAreSafe
  <2>3. /\ i \in Id /\ i <= created /\ Exists(i) /\ ip[i].dhcp_expose /\ ip[i].eth = HostOf[k]
        /\ ip[i].hostname = job[k].served
        /\ \A u \in Form :
             /\ form[u].pc = "save" /\ form[u].id = i =>
                  /\ form[u].row.dhcp_expose
                  /\ form[u].row.eth = HostOf[k] /\ form[u].row.hostname = job[k].served
             /\ ~ (form[u].pc = "delete" /\ form[u].id = i)
        /\ \A l \in Job : job[l].param # i
    <3>1. i \in Id
      BY <2>2, Parts, JobFields DEF Entry
    <3> QED
      BY <2>2, <3>1 DEF EntryIsSafe
  <2>4. i <= created'
    <3>1. i \in Nat /\ created \in Nat /\ i <= created
      BY <2>3, Parts, NoneIsElse
    <3>2. created' \in Nat
      BY Configured DEF TypeOK
    <3> QED
      BY <3>1, <3>2
  <2>5. /\ ip'[i] # None /\ ip'[i].dhcp_expose /\ ip'[i].eth = HostOf[k]
        /\ ip'[i].hostname = job[k].served
    BY <2>2, <2>3
  <2>6. ASSUME NEW u \in Form
        PROVE  /\ form'[u].pc = "save" /\ form'[u].id = i =>
                    /\ form'[u].row.dhcp_expose
                    /\ form'[u].row.eth = HostOf[k] /\ form'[u].row.hostname = job[k].served
               /\ ~ (form'[u].pc = "delete" /\ form'[u].id = i)
    BY <1>2, <2>3 DEF SameEntry
  <2>7. \A l \in Job : job'[l].param # i
    BY <2>2, <2>3, NoneIsElse
  <2>8. i = job'[k].made /\ job[k].served = job'[k].served
    BY <1>2
  <2> QED
    BY <2>4, <2>5, <2>6, <2>7, <2>8 DEF EntryIsSafe, Exists
<1> QED
  BY <1>1, <1>2

\* A name that is known to be issued goes nowhere, unless the transaction that issues it commits.
Known(n) == n \in issued \/ \E k \in Job : job[k].locks /\ job[k].got = n
Gives(j, h, n) == HostOf[j] = h /\ job[j].locks /\ job[j].got = n

LEMMA NamesTo ==
  ASSUME IInv,
         \A n \in issued' : n \in issued \/ \E j \in Job : Gives(j, HostOf[j], n) /\ ~ job'[j].locks,
         excused \subseteq excused',
         \A k \in Job : job'[k].locks => job[k].locks /\ job'[k].got = job[k].got,
         \A h \in Host, n \in Name : Has(h, n)' /\ Known(n) /\ n \notin excused' =>
           Has(h, n) \/ \E j \in Job : Gives(j, h, n) /\ ~ job'[j].locks
  PROVE  NamesAreRight'
<1>1. NamesAreRight /\ JobsAreRight /\ issued \subseteq Name /\ job \in [Job -> JobState]
  BY Parts DEF NamesTyped
<1>2. \A k \in Job : job[k].locks => job[k].got \in Name
  BY <1>1, JobFields DEF JobsAreRight, RightJob
<1>3. \A n : n \in issued' => n \in Name /\ Known(n)
  BY <1>1, <1>2 DEF Known, Gives
<1>4. ASSUME NEW n \in issued' \ excused', NEW h \in Host, NEW k \in Host,
             Has(h, n)', Has(k, n)'
      PROVE  h = k
  <2>1. /\ Has(h, n) \/ \E j \in Job : Gives(j, h, n) /\ ~ job'[j].locks
        /\ Has(k, n) \/ \E j \in Job : Gives(j, k, n) /\ ~ job'[j].locks
        /\ n \notin excused
    BY <1>3, <1>4
  <2>2. \A j \in Job : job[j].locks /\ job[j].got = n =>
          h = HostOf[j] /\ k = HostOf[j]
    <3> SUFFICES ASSUME NEW j \in Job, job[j].locks, job[j].got = n
                 PROVE  h = HostOf[j] /\ k = HostOf[j]
      OBVIOUS
    <3>1. \A g \in Host : Has(g, n) => g = HostOf[j]
      BY <1>1, <2>1 DEF NamesAreRight
    <3>2. \A i \in Job : job[i].locks => i = j
      BY <1>1 DEF JobsAreRight
    <3> QED
      BY <2>1, <3>1, <3>2 DEF Gives
  <2>3. CASE \E j \in Job : job[j].locks /\ job[j].got = n
    BY <2>2, <2>3
  <2>4. CASE ~ \E j \in Job : job[j].locks /\ job[j].got = n
    <3>1. n \in issued /\ Has(h, n) /\ Has(k, n)
      BY <2>1, <2>4 DEF Gives
    <3> QED
      BY <1>1, <2>1, <3>1 DEF NamesAreRight
  <2> QED
    BY <2>3, <2>4
<1>5. ASSUME NEW j \in Job, job'[j].locks, job'[j].got \notin excused',
             NEW h \in Host, (Has(h, job[j].got))'
      PROVE  h = HostOf[j]
  <2> DEFINE n == job[j].got
  <2>1. job[j].locks /\ job'[j].got = n /\ n \in Name /\ Known(n) /\ n \notin excused
    BY <1>2, <1>5 DEF Known
  <2>2. PICK m \in Name : m = n
    BY <2>1
  <2>3. Has(h, m)'
    BY <1>5, <2>1, <2>2 DEF Has, Holds, Remembers, Of, Exists
  <2>4. \A i \in Job : job[i].locks => i = j
    BY <1>1, <2>1 DEF JobsAreRight
  <2>5. Has(h, m)
    BY <1>5, <2>1, <2>2, <2>3, <2>4 DEF Gives
  <2> QED
    BY <1>1, <2>1, <2>2, <2>5 DEF NamesAreRight
<1> QED
  BY <1>4, <1>5 DEF NamesAreRight

-----------------------------------------------------------------------------
(* Steps of a job that write no row *)

\* The row an active job made is there as it was made, and of its host.
LEMMA EntryFacts ==
  ASSUME IInv, NEW l \in Job, Entry(l)
  PROVE  /\ Active(l) /\ EntryIsSafe(l)
         /\ job[l].made \in Id /\ Exists(job[l].made) /\ job[l].made <= created
         /\ ip[job[l].made].dhcp_expose /\ ip[job[l].made].eth = HostOf[l]
         /\ owner[ip[job[l].made].eth] = HostOf[l]
         /\ {"clean_ipaddresses", "clean_dhcp"} \cap Actions[l] \subseteq job[l].done
<1>1. job[l].made # None /\ job[l].made \in Id /\ RightJob(l, job[l])
  BY Parts, JobFields DEF Entry, JobsAreRight
<1>2. Active(l)
  <2> SUFFICES ASSUME ~ Active(l)
               PROVE  FALSE
    OBVIOUS
  <2>1. job[l].pc \in {"new", "done", "failed"} /\ job[l] = Ended(job[l].pc)
    BY <1>1, Parts, JobFields DEF Active, RightJob
  <2>2. job[l].made = None
    BY <2>1, NewAndEnded
  <2> QED
    BY <1>1, <2>2
<1>3. EntryIsSafe(l)
  BY Parts DEF Entry, EntriesAreSafe
<1>4. owner[HostOf[l]] = HostOf[l]
  BY Parts, Configured DEF Entry, RowsTyped
<1>5. {"clean_ipaddresses", "clean_dhcp"} \cap Actions[l] \subseteq job[l].done
  BY <1>1 DEF RightJob
<1> QED
  BY <1>1, <1>2, <1>3, <1>4, <1>5 DEF EntryIsSafe

\* A step of a job that changes nothing but the job and names.
LEMMA JobOnly ==
  ASSUME IInv, NEW j \in Job, NEW x \in JobState, job' = [job EXCEPT ![j] = x],
         RightJob(j, x),
         x.pc \in {"ready", "acting", "frozen"} =>
           Active(j) \/ \A k \in Job : Active(k) => HostOf[k] # HostOf[j],
         x.locks => job[j].locks \/ ~ CounterLocked(j),
         UNCHANGED <<ip, owner, created, form, overruled>>,
         x.param # None =>
           \/ x.param = job[j].param
           \/ /\ x.param \in Of(HostOf[j])
              /\ \A k \in Job : Active(k) => HostOf[k] # HostOf[j],
         x.row # None => /\ x.param = job[j].param
                         /\ x.row = job[j].row \/ (Exists(x.param) /\ x.row = ip[x.param]),
         x.made # None => x.made = job[j].made /\ x.served = job[j].served,
         NamesTyped', NamesAreRight'
  PROVE  IInv'
<1>1. /\ job \in [Job -> JobState] /\ job'[j] = x /\ RowsTyped /\ KeysAreOld /\ JobsAreRight
      /\ \A k \in Job \ {j} : job'[k] = job[k]
      /\ created \in Nat
  BY Parts
<1>2. JobsTyped' /\ JobsAreRight'
  BY JobsTo
<1>3. RowsTyped' /\ FormsTyped'
  BY Parts DEF RowsTyped, FormsTyped, Exists
<1>4. TypeOK'
  BY <1>2, <1>3, TypesSplit DEF TypeOK, RowsTyped, NamesTyped, FormsTyped, JobsTyped
<1>5. \A i \in Id : Exists(i) => ip[i] \in Row /\ IsCopy(i, ip[i])
  BY <1>1, RowThere DEF IsCopy
<1>6. \A k \in Job : job[k].row # None /\ job[k].param # None =>
        job[k].row \in Row /\ job[k].param \in Id /\ IsCopy(job[k].param, job[k].row)
  BY <1>1, JobFields DEF IsCopy
<1>7. /\ x.param \in Id \cup {None}
      /\ x.row # None /\ x.param # None =>
           \E q \in Row : IsCopy(x.param, q) /\ q.eth = x.row.eth
  BY <1>5, <1>6, JobFields
<1>8. ASSUME NEW i \in Of(HostOf[j])
      PROVE  i \in Id /\ i <= created
  BY <1>1, RowThere DEF Of
<1>9. KeysAreOld'
  <2>1. created <= created'
    BY <1>1
  <2>2. \A i \in Id : ip'[i] # None =>
           \/ \E q \in Row : IsCopy(i, q) /\ q.eth = ip'[i].eth
           \/ i <= created' /\ ip'[i].eth \in Host \cup 1..created'
    BY <1>5 DEF Exists
  <2>3. \A k \in Job : job'[k].row # None /\ job'[k].param # None =>
           \E q \in Row : IsCopy(job'[k].param, q) /\ q.eth = job'[k].row.eth
    BY <1>1, <1>6, <1>7
  <2>4. \A k \in Job : job'[k].param # None =>
           job'[k].param = job[k].param \/ job'[k].param <= created
    BY <1>1, <1>8
  <2>5. \A u \in Form : /\ form'[u].pc = "save" => form'[u].row # None
                        /\ form'[u].pc = "switch" => form'[u].number # None
    BY <1>1 DEF KeysAreOld
  <2>6. \A u \in Form : form'[u].pc = "save" /\ form'[u].id # None =>
           /\ form'[u].id \in Id
           /\ \E q \in Row : IsCopy(form'[u].id, q) /\ q.eth = form'[u].row.eth
    BY <1>1, Parts, FormFields DEF KeysAreOld, IsCopy
  <2>7. /\ \A u \in Form : form'[u].pc = "delete" => form'[u].id \in Id /\ form'[u].id <= created
        /\ \A u \in Form : form'[u].pc = "delete_ethernet" => form'[u].id \in Ether
    BY <1>1 DEF KeysAreOld
  <2>8. \A e \in Ether : \/ owner'[e] \in {owner[e], None}
                         \/ e \in Id /\ created < e /\ e <= created'
    OBVIOUS
  <2> QED
    BY <1>4, <2>1, <2>2, <2>3, <2>4, <2>5, <2>6, <2>7, <2>8, RowsTo
<1>10. EntriesAreSafe'
  <2>1. \A h \in Host : owner'[h] \in {owner[h], None}
    OBVIOUS
  <2>2. \A k \in Job : job'[k].made # None /\ owner'[HostOf[k]] # None =>
           \/ job'[k].made = job[k].made /\ job'[k].served = job[k].served
           \/ EntryIsSafe(k)'
    BY <1>1
  <2>3. \A k \in Job : Entry(k) /\ owner'[HostOf[k]] # None =>
           LET i == job[k].made
           IN /\ ip'[i] # None /\ ip'[i].dhcp_expose /\ ip'[i].eth = ip[i].eth
              /\ ip'[i].hostname = ip[i].hostname
    BY EntryFacts DEF Exists
  <2>4. \A u \in Form, i \in Id : Exists(i) /\ ip[i].dhcp_expose /\ i \notin overruled' =>
           /\ form'[u].pc = "save" /\ form'[u].id = i =>
                form'[u] = form[u] \/ SameEntry(form'[u].row, ip[i])
           /\ form'[u].pc = "delete" /\ form'[u].id = i => form'[u] = form[u]
    OBVIOUS
  <2>5. \A k, l \in Job : Entry(l) =>
           job'[k].param \in {job[k].param, None} \/ job'[k].param # job[l].made
    BY <1>1, EntryFacts DEF Of
  <2>6. created <= created'
    BY <1>1
  <2> QED
    BY <1>4, <2>1, <2>2, <2>3, <2>4, <2>5, <2>6, EntriesTo
<1> QED
  BY <1>2, <1>4, <1>9, <1>10 DEF IInv

\* A step by which a job learns no name but of its host.
LEMMA JobLearns ==
  ASSUME IInv, NEW j \in Job, NEW x \in JobState, job' = [job EXCEPT ![j] = x],
         UNCHANGED <<ip, owner, hostname, issued, excused, overruled>>,
         x.mem \in {job[j].mem, None, hostname[HostOf[j]]},
         x.name \in {job[j].name, None},
         x.row # None => \/ x.row = job[j].row
                         \/ /\ job[j].param # None /\ Exists(job[j].param)
                            /\ x.row = ip[job[j].param],
         x.locks => job[j].locks /\ x.got = job[j].got
  PROVE  NamesAreRight'
<1>1. /\ job \in [Job -> JobState] /\ job'[j] = x
      /\ \A k \in Job \ {j} : job'[k] = job[k]
  BY Parts
<1>2. \A h \in Host, n \in Name : Holds(h, n)' => Holds(h, n)
  BY DEF Holds, Of, Exists
<1>3. ASSUME NEW h \in Host, NEW n \in Name, Remembers(j, h, n)'
      PROVE  Has(h, n)
  <2>1. n # None /\ HostOf[j] \in Host
    BY NoneIsElse, Configured
  <2>2. \/ h = HostOf[j] /\ n \in {x.mem, x.name}
        \/ x.row # None /\ owner[x.row.eth] = h /\ x.row.hostname = n
    BY <1>1, <1>3 DEF Remembers
  <2>3. CASE h = HostOf[j] /\ n = x.mem
    BY <2>1, <2>3 DEF Has, Holds, Remembers
  <2>4. CASE h = HostOf[j] /\ n = x.name
    BY <2>1, <2>4 DEF Has, Remembers
  <2>5. CASE x.row # None /\ owner[x.row.eth] = h /\ x.row.hostname = n
    <3>1. CASE x.row = job[j].row
      BY <2>5, <3>1 DEF Has, Remembers
    <3>2. CASE job[j].param # None /\ Exists(job[j].param) /\ x.row = ip[job[j].param]
      <4>1. job[j].param \in Id
        BY <1>1, <3>2, JobFields
      <4> QED
        BY <2>5, <3>2, <4>1 DEF Has, Holds, Of
    <3> QED
      BY <2>5, <3>1, <3>2
  <2> QED
    BY <2>2, <2>3, <2>4, <2>5
<1>4. \A h \in Host, n \in Name : Has(h, n)' => Has(h, n)
  <2> SUFFICES ASSUME NEW h \in Host, NEW n \in Name, Has(h, n)'
               PROVE  Has(h, n)
    OBVIOUS
  <2>1. CASE Holds(h, n)'
    BY <1>2, <2>1 DEF Has
  <2>2. CASE \E k \in Job : Remembers(k, h, n)'
    <3>1. PICK k \in Job : Remembers(k, h, n)'
      BY <2>2
    <3>2. CASE k = j
      BY <1>3, <3>1, <3>2
    <3>3. CASE k # j
      BY <1>1, <3>1, <3>3 DEF Has, Remembers
    <3> QED
      BY <3>2, <3>3
  <2> QED
    BY <2>1, <2>2 DEF Has
<1>5. \A k \in Job : job'[k].locks => job[k].locks /\ job'[k].got = job[k].got
  BY <1>1
<1>6. issued' = issued /\ excused \subseteq excused'
  OBVIOUS
<1> QED
  BY <1>4, <1>5, <1>6, NamesTo

\* The job as an action leaves it.
LEMMA ReturnedIs ==
  ASSUME NEW j \in Job, job[j] \in JobState, NEW a \in ActionName
  PROVE  LET x == Returned(j, a)
         IN /\ x \in JobState /\ x.pc = "ready" /\ x.done = job[j].done \cup {a}
            /\ x.act = None /\ x.address = None /\ x.got = None /\ x.locks = FALSE
            /\ x.row = None /\ x.mem = job[j].mem /\ x.name = job[j].name
            /\ x.param = job[j].param /\ x.made = job[j].made /\ x.served = job[j].served
  BY DEF Returned, JobState

\* A job is right when it has done another action.
LEMMA ReadyIsRight ==
  ASSUME IInv, NEW j \in Job, NEW x \in JobState, NEW S, S \subseteq Actions[j], Active(j),
         x.pc \in {"ready", "frozen"}, x.done = job[j].done \cup S,
         x.row = None, x.got = None, x.locks = FALSE, x.param = job[j].param,
         \/ x.made = job[j].made
         \/ {"clean_ipaddresses", "clean_dhcp"} \cap Actions[j] \subseteq job[j].done
  PROVE  RightJob(j, x)
<1>1. RightJob(j, job[j]) /\ job[j].pc \in {"ready", "acting", "frozen"}
  BY Parts DEF JobsAreRight, Active
<1> QED
  BY <1>1 DEF RightJob

\* What may run, and what runs.
LEMMA MayRunIs ==
  ASSUME IInv, NEW j \in Job, NEW a, MayRun(j, a)
  PROVE  /\ Active(j) /\ a \in Actions[j] /\ a \in ActionName /\ job[j].pc = "ready"
         /\ run_after[a] \cap Actions[j] \subseteq job[j].done
         /\ job[j] \in JobState /\ RightJob(j, job[j])
         /\ job[j].row = None /\ job[j].got = None /\ ~ job[j].locks
  BY Parts, Configured DEF MayRun, Active, JobsAreRight, RightJob

LEMMA ActsIs ==
  ASSUME IInv, NEW j \in Job, NEW a \in ActionName, Acts(j, a)
  PROVE  /\ Active(j) /\ a \in Actions[j] /\ job[j].pc = "acting" /\ job[j].act = a
         /\ run_after[a] \cap Actions[j] \subseteq job[j].done
         /\ job[j] \in JobState /\ RightJob(j, job[j])
         /\ a \in NeedsAddress => job[j].address \in Address
         /\ a \in NeedsRow => job[j].row \in Row /\ job[j].param \in Id
<1>1. job[j] \in JobState /\ RightJob(j, job[j]) /\ job[j].pc = "acting" /\ job[j].act = a
  BY Parts DEF JobsAreRight, Acts
<1>2. /\ a \in Actions[j] /\ run_after[a] \cap Actions[j] \subseteq job[j].done
      /\ a \in NeedsAddress => job[j].address # None
      /\ a \in NeedsRow => job[j].row # None /\ job[j].param # None
  BY <1>1 DEF RightJob
<1> QED
  BY <1>1, <1>2, JobFields DEF Active

LEMMA ParamChoicesAre ==
  ASSUME NEW j \in Job, NEW p \in ParamChoices(j)
  PROVE  p \in Of(HostOf[j]) \/ (p = None /\ NeedsRow \cap Actions[j] = {})
<1>1. CASE "replace_ip" \in Actions[j] /\ "remove_from_dhcp_entries" \in Actions[j]
  BY <1>1 DEF ParamChoices
<1>2. CASE "replace_ip" \in Actions[j] /\ "remove_from_dhcp_entries" \notin Actions[j]
  BY <1>2 DEF ParamChoices
<1>3. CASE "replace_ip" \notin Actions[j] /\ "remove_from_dhcp_entries" \in Actions[j]
  BY <1>3 DEF ParamChoices
<1>4. CASE "replace_ip" \notin Actions[j] /\ "remove_from_dhcp_entries" \notin Actions[j]
  BY <1>4 DEF ParamChoices, NeedsRow
<1> QED
  BY <1>1, <1>2, <1>3, <1>4

LEMMA StartJobInv ==
  ASSUME IInv, NEW j \in Job, StartJob(j)
  PROVE  IInv'
<1>1. PICK p \in ParamChoices(j) :
        job' = [job EXCEPT ![j] = [job[j] EXCEPT !.pc = "ready", !.param = p,
                                                 !.mem = hostname[HostOf[j]]]]
  BY Parts DEF StartJob
<1>2. /\ job[j].pc = "new" /\ job[j] = Ended("new") /\ job[j] \in JobState
      /\ \A k \in Job : Active(k) => HostOf[k] # HostOf[j]
      /\ UNCHANGED <<hostname, ip, created, owner, counter, useCounter, form, issued, excused,
                     overruled>>
      /\ hostname[HostOf[j]] \in Name \cup {None}
  BY Parts, Configured DEF StartJob, JobsAreRight, RightJob, NamesTyped
<1>3. /\ job[j].done = {} /\ job[j].row = None /\ job[j].got = None /\ job[j].locks = FALSE
      /\ job[j].name = None /\ job[j].made = None
  BY <1>2, NewAndEnded
<1>4. p \in Of(HostOf[j]) \/ (p = None /\ NeedsRow \cap Actions[j] = {})
  BY <1>1, ParamChoicesAre
<1>5. p \in Id \cup {None} /\ (p # None => p \in Of(HostOf[j]))
  BY <1>4 DEF Of
<1> DEFINE x == [job[j] EXCEPT !.pc = "ready", !.param = p, !.mem = hostname[HostOf[j]]]
<1>6. x \in JobState
  BY <1>2, <1>5 DEF JobState
<1>7. /\ x.pc = "ready" /\ x.param = p /\ x.mem = hostname[HostOf[j]] /\ x.done = {}
      /\ x.row = None /\ x.got = None /\ x.locks = FALSE /\ x.name = None /\ x.made = None
  BY <1>2, <1>3 DEF JobState
<1>8. job' = [job EXCEPT ![j] = x]
  BY <1>1
<1> HIDE DEF x
<1>9. RightJob(j, x)
  BY <1>4, <1>7, NoneIsElse DEF RightJob, Of
<1>10. NamesTyped'
  BY <1>2, Parts DEF NamesTyped
<1>11. NamesAreRight'
  BY <1>2, <1>3, <1>6, <1>7, <1>8, JobLearns
<1> QED
  BY <1>2, <1>5, <1>6, <1>7, <1>8, <1>9, <1>10, <1>11, JobOnly

LEMMA CleanHostnameInv ==
  ASSUME IInv, NEW j \in Job, clean_hostname(j)
  PROVE  IInv'
<1> DEFINE a == "clean_hostname"
           y == Returned(j, a)
           x == [y EXCEPT !.mem = None]
<1>1. MayRun(j, a) /\ job' = [job EXCEPT ![j] = x]
      /\ UNCHANGED <<hostname, ip, created, owner, counter, useCounter, form, issued, excused,
                     overruled>>
  BY DEF clean_hostname
<1>2. /\ Active(j) /\ a \in Actions[j] /\ a \in ActionName /\ job[j] \in JobState
  BY <1>1, MayRunIs
<1>3. /\ y \in JobState /\ y.pc = "ready" /\ y.done = job[j].done \cup {a}
      /\ y.row = None /\ y.got = None /\ y.locks = FALSE /\ y.mem = job[j].mem
      /\ y.name = job[j].name /\ y.param = job[j].param /\ y.made = job[j].made
      /\ y.served = job[j].served
  BY <1>2, ReturnedIs
<1> HIDE DEF y
<1>4. /\ x \in JobState /\ x.pc = "ready" /\ x.done = job[j].done \cup {a}
      /\ x.row = None /\ x.got = None /\ x.locks = FALSE /\ x.mem = None
      /\ x.name = job[j].name /\ x.param = job[j].param /\ x.made = job[j].made
      /\ x.served = job[j].served
  BY <1>3 DEF JobState
<1> HIDE DEF x
<1>5. RightJob(j, x)
  BY <1>2, <1>4, ReadyIsRight
<1>6. NamesTyped'
  BY <1>1, Parts DEF NamesTyped
<1>7. NamesAreRight'
  BY <1>1, <1>4, JobLearns
<1> QED
  BY <1>1, <1>2, <1>4, <1>5, <1>6, <1>7, JobOnly

LEMMA BeginActionInv ==
  ASSUME IInv, NEW j \in Job, BeginAction(j)
  PROVE  IInv'
<1>1. PICK a \in NeedsRow \cup NeedsAddress \cup {"assign_new_hostname"} :
        LET row == IF a \in NeedsRow THEN ip[job[j].param] ELSE None
        IN /\ MayRun(j, a)
           /\ job' = [job EXCEPT ![j] =
                IF (a \in NeedsRow /\ row = None)
                   \/ (a \in NeedsAddress /\ get_first_free_ip = None)
                THEN Ended("failed")
                ELSE [job[j] EXCEPT !.pc = "acting", !.act = a, !.row = row, !.address =
                        IF a \in NeedsAddress THEN get_first_free_ip ELSE None]]
  BY Parts DEF BeginAction
<1> DEFINE row == IF a \in NeedsRow THEN ip[job[j].param] ELSE None
           free == IF a \in NeedsAddress THEN get_first_free_ip ELSE None
           y == job[j]
           x == [y EXCEPT !.pc = "acting", !.act = a, !.row = row, !.address = free]
<1>2. UNCHANGED <<hostname, ip, created, owner, counter, useCounter, form, issued, excused,
                  overruled>>
  BY DEF BeginAction
<1>3. /\ MayRun(j, a)
      /\ job' = [job EXCEPT ![j] = Ended("failed")] \/ job' = [job EXCEPT ![j] = x]
      /\ job' = [job EXCEPT ![j] = x] =>
           \/ job' = [job EXCEPT ![j] = Ended("failed")]
           \/ (a \in NeedsRow => row # None) /\ (a \in NeedsAddress => free # None)
  BY <1>1
<1>4. /\ Active(j) /\ a \in Actions[j] /\ a \in ActionName /\ y.pc = "ready"
      /\ run_after[a] \cap Actions[j] \subseteq y.done
      /\ y \in JobState /\ RightJob(j, y)
      /\ y.row = None /\ y.got = None /\ ~ y.locks
  BY <1>3, MayRunIs
<1>5. /\ a \in NeedsRow => y.param # None /\ y.param \in Id
      /\ free \in Address \cup {None}
  BY <1>4, JobFields, FirstFreeAddress DEF RightJob
<1>6. /\ row \in Row \cup {None} /\ (a \notin NeedsRow => row = None)
      /\ row # None => /\ y.param # None /\ y.param \in Id /\ Exists(y.param) /\ row = ip[y.param]
  BY <1>5, Parts DEF RowsTyped, Exists
<1>7. NamesTyped'
  BY <1>2, Parts DEF NamesTyped
<1>8. CASE job' = [job EXCEPT ![j] = Ended("failed")]
  <2> DEFINE z == Ended("failed")
  <2>1. /\ z \in JobState /\ z.pc = "failed" /\ z = Ended(z.pc) /\ z.mem = None /\ z.name = None
        /\ z.got = None /\ z.locks = FALSE /\ z.param = None /\ z.row = None /\ z.made = None
        /\ z.done = {}
    BY NewAndEnded
  <2>2. job' = [job EXCEPT ![j] = z]
    BY <1>8
  <2> HIDE DEF z
  <2>3. RightJob(j, z)
    BY <2>1 DEF RightJob
  <2>4. NamesAreRight'
    BY <1>2, <2>1, <2>2, JobLearns
  <2> QED
    BY <1>2, <1>7, <2>1, <2>2, <2>3, <2>4, JobOnly
<1>9. CASE /\ job' = [job EXCEPT ![j] = x]
           /\ (a \in NeedsRow => row # None) /\ (a \in NeedsAddress => free # None)
  <2> HIDE DEF row, free, y
  <2>1. /\ x \in JobState /\ x.pc = "acting" /\ x.act = a /\ x.row = row /\ x.address = free
        /\ x.done = y.done /\ x.got = y.got /\ x.locks = y.locks /\ x.mem = y.mem
        /\ x.name = y.name /\ x.param = y.param /\ x.made = y.made /\ x.served = y.served
    BY <1>4, <1>5, <1>6 DEF JobState
  <2>2. job' = [job EXCEPT ![j] = x]
    BY <1>9
  <2> HIDE DEF x
  <2>3. RightJob(j, x)
    BY <1>4, <1>5, <1>6, <1>9, <2>1 DEF RightJob
  <2>4. x.row # None => /\ job[j].param # None /\ Exists(job[j].param)
                        /\ x.row = ip[job[j].param] /\ x.param = job[j].param
                        /\ Exists(x.param) /\ x.row = ip[x.param]
    BY <1>6, <2>1 DEF y
  <2>5. /\ x.mem = job[j].mem /\ x.name = job[j].name /\ ~ x.locks /\ x.param = job[j].param
        /\ x.made = job[j].made /\ x.served = job[j].served
    BY <1>4, <2>1 DEF y
  <2>6. NamesAreRight'
    BY <1>2, <2>1, <2>2, <2>4, <2>5, JobLearns
  <2> QED
    BY <1>2, <1>4, <1>7, <2>1, <2>2, <2>3, <2>4, <2>5, <2>6, JobOnly
<1> QED
  BY <1>3, <1>8, <1>9

LEMMA DeployInv ==
  ASSUME IInv, NEW j \in Job, deploy(j)
  PROVE  IInv'
<1> DEFINE a == "deploy"
           y == Returned(j, a)
           x == [y EXCEPT !.pc = "frozen"]
<1>1. MayRun(j, a) /\ job' = [job EXCEPT ![j] = x]
      /\ UNCHANGED <<hostname, ip, created, owner, counter, useCounter, form, issued, excused,
                     overruled>>
  BY DEF deploy
<1>2. /\ Active(j) /\ a \in Actions[j] /\ a \in ActionName /\ job[j] \in JobState
  BY <1>1, MayRunIs
<1>3. /\ y \in JobState /\ y.done = job[j].done \cup {a}
      /\ y.row = None /\ y.got = None /\ y.locks = FALSE /\ y.mem = job[j].mem
      /\ y.name = job[j].name /\ y.param = job[j].param /\ y.made = job[j].made
      /\ y.served = job[j].served
  BY <1>2, ReturnedIs
<1> HIDE DEF y
<1>4. /\ x \in JobState /\ x.pc = "frozen" /\ x.done = job[j].done \cup {a}
      /\ x.row = None /\ x.got = None /\ x.locks = FALSE /\ x.mem = job[j].mem
      /\ x.name = job[j].name /\ x.param = job[j].param /\ x.made = job[j].made
      /\ x.served = job[j].served
  BY <1>3 DEF JobState
<1> HIDE DEF x
<1>5. RightJob(j, x)
  BY <1>2, <1>4, ReadyIsRight
<1>6. NamesTyped'
  BY <1>1, Parts DEF NamesTyped
<1>7. NamesAreRight'
  BY <1>1, <1>4, JobLearns
<1> QED
  BY <1>1, <1>2, <1>4, <1>5, <1>6, <1>7, JobOnly

LEMMA UnfreezeInv ==
  ASSUME IInv, NEW j \in Job, Unfreeze(j)
  PROVE  IInv'
<1> DEFINE y == job[j]
           name == hostname[HostOf[j]]
           x == [y EXCEPT !.pc = "ready", !.mem = name]
<1>1. /\ job[j].pc = "frozen" /\ job' = [job EXCEPT ![j] = x]
      /\ UNCHANGED <<hostname, ip, created, owner, counter, useCounter, form, issued, excused,
                     overruled>>
  BY Parts DEF Unfreeze
<1>2. /\ Active(j) /\ y \in JobState /\ RightJob(j, y) /\ name \in Name \cup {None}
  BY <1>1, Parts, Configured DEF Active, JobsAreRight, NamesTyped
<1>3. y.row = None /\ y.got = None /\ y.locks = FALSE /\ y.done \subseteq Actions[j]
  BY <1>1, <1>2, JobFields DEF RightJob
<1> HIDE DEF name
<1>4. /\ x \in JobState /\ x.pc = "ready" /\ x.done = job[j].done
      /\ x.row = None /\ x.got = None /\ x.locks = FALSE /\ x.mem = name
      /\ x.name = job[j].name /\ x.param = job[j].param /\ x.made = job[j].made
      /\ x.served = job[j].served
  BY <1>2, <1>3 DEF JobState
<1> HIDE DEF x, y
<1>5. RightJob(j, x)
  BY <1>1, <1>2, <1>4 DEF RightJob, y
<1>6. NamesTyped'
  BY <1>1, Parts DEF NamesTyped
<1>7. NamesAreRight'
  BY <1>1, <1>4, JobLearns DEF name
<1> QED
  BY <1>1, <1>2, <1>4, <1>5, <1>6, <1>7, JobOnly

LEMMA ActionRaisesInv ==
  ASSUME IInv, NEW j \in Job, ActionRaises(j)
  PROVE  IInv'
<1> DEFINE z == Ended("failed")
<1>1. /\ z \in JobState /\ z.pc = "failed" /\ z = Ended(z.pc) /\ z.mem = None /\ z.name = None
      /\ z.got = None /\ z.locks = FALSE /\ z.param = None /\ z.row = None /\ z.made = None
      /\ z.done = {}
  BY NewAndEnded
<1>2. /\ job' = [job EXCEPT ![j] = z]
      /\ UNCHANGED <<hostname, ip, created, owner, counter, useCounter, form, issued, excused,
                     overruled>>
  BY DEF ActionRaises
<1> HIDE DEF z
<1>3. RightJob(j, z)
  BY <1>1 DEF RightJob
<1>4. NamesTyped'
  BY <1>2, Parts DEF NamesTyped
<1>5. NamesAreRight'
  BY <1>1, <1>2, JobLearns
<1> QED
  BY <1>1, <1>2, <1>3, <1>4, <1>5, JobOnly

\* The number is of nobody, or the job of another host remembers it and it is excused.
LEMMA TakeNumberInv ==
  ASSUME IInv, NEW j \in Job, TakeNumber(j)
  PROVE  IInv'
<1> DEFINE y == job[j]
<1>1. PICK n \in NextNumber \cap Name :
        /\ job' = [job EXCEPT ![j] = [y EXCEPT !.got = n, !.locks = TRUE]]
        /\ excused' = IF Remembered(j, n) THEN excused \cup {n} ELSE excused
  BY Parts DEF TakeNumber
<1> DEFINE x == [y EXCEPT !.got = n, !.locks = TRUE]
<1>2. /\ job' = [job EXCEPT ![j] = x] /\ ~ CounterLocked(j) /\ y.got = None
      /\ UNCHANGED <<hostname, ip, created, owner, counter, useCounter, form, issued,
                     overruled>>
  BY <1>1 DEF TakeNumber
<1>3. y.pc = "acting" /\ Active(j) /\ y \in JobState /\ RightJob(j, y)
  BY Parts DEF TakeNumber, Acts, Active, JobsAreRight
<1>4. /\ n \in Name /\ n \notin Used /\ n # None
  BY NoneIsElse DEF NextNumber, check_hostname_is_available
<1>5. /\ x \in JobState /\ x.pc = "acting" /\ x.act = y.act /\ x.row = y.row
      /\ x.address = y.address /\ x.done = y.done /\ x.got = n /\ x.locks = TRUE
      /\ x.mem = y.mem /\ x.name = y.name /\ x.param = y.param /\ x.made = y.made
      /\ x.served = y.served
  BY <1>3, <1>4 DEF JobState
<1> HIDE DEF x
<1>6. RightJob(j, x)
  BY <1>3, <1>4, <1>5 DEF RightJob
<1>7. NamesTyped'
  BY <1>1, <1>2, <1>4, Parts DEF NamesTyped
<1>8. /\ job \in [Job -> JobState] /\ job'[j] = x
      /\ \A k \in Job \ {j} : job'[k] = job[k]
      /\ NamesAreRight /\ JobsAreRight /\ excused \subseteq excused'
  BY <1>1, <1>2, Parts
<1>9. \A h \in Host, m \in Name : Has(h, m)' => Has(h, m)
  <2>1. \A h \in Host, m \in Name : Holds(h, m)' => Holds(h, m)
    BY <1>2 DEF Holds, Of, Exists
  <2>2. \A k \in Job, h \in Host, m \in Name : Remembers(k, h, m)' => Remembers(k, h, m)
    BY <1>2, <1>5, <1>8 DEF Remembers
  <2> QED
    BY <2>1, <2>2 DEF Has
<1>10. ASSUME NEW h \in Host, Has(h, n), n \notin excused'
       PROVE  h = HostOf[j]
  <2>1. ~ Holds(h, n)
    BY <1>4, Parts, UsedIs DEF Holds, Of
  <2>2. PICK k \in Job : Remembers(k, h, n)
    BY <1>10, <2>1 DEF Has
  <2>3. ~ Remembered(j, n)
    BY <1>1, <1>10
  <2>4. CASE HostOf[k] # HostOf[j]
    BY <2>2, <2>3, <2>4 DEF Remembered, Remembers
  <2>5. CASE HostOf[k] = HostOf[j] /\ job[k].row # None
    <3>1. Active(k) /\ RightJob(k, job[k])
      BY <1>8, <2>5, Parts, JobFields DEF Active, JobsAreRight, RightJob
    <3>2. k = j
      BY <1>3, <1>8, <2>5, <3>1 DEF JobsAreRight
    <3>3. y.act \notin NeedsRow
      BY DEF TakeNumber, Acts, NeedsRow
    <3> QED
      BY <1>3, <2>5, <3>2, <3>3 DEF RightJob
  <2>6. CASE HostOf[k] = HostOf[j] /\ job[k].row = None
    BY <2>2, <2>6 DEF Remembers
  <2> QED
    BY <2>4, <2>5, <2>6
<1>11. NamesAreRight'
  <2>1. ASSUME NEW m \in issued \ excused', NEW h \in Host, NEW k \in Host,
               Has(h, m)', Has(k, m)'
        PROVE  h = k
    <3>1. m \in Name /\ m \in issued \ excused
      BY <1>8, <2>1, Parts DEF NamesTyped
    <3> QED
      BY <1>8, <1>9, <2>1, <3>1 DEF NamesAreRight
  <2>2. ASSUME NEW k \in Job, job'[k].locks, job'[k].got \notin excused',
               NEW h \in Host, (Has(h, job[k].got))'
        PROVE  h = HostOf[k]
    <3>1. k = j
      BY <1>2, <1>8, <2>2 DEF CounterLocked
    <3>2. Has(h, n)'
      BY <1>5, <1>8, <2>2, <3>1 DEF Has, Holds, Remembers, Of, Exists
    <3>3. n \notin excused'
      BY <1>5, <1>8, <2>2, <3>1
    <3> QED
      BY <1>4, <1>9, <1>10, <3>1, <3>2, <3>3
  <2>3. issued' = issued
    BY <1>2
  <2> QED
    BY <2>1, <2>2, <2>3 DEF NamesAreRight
<1> QED
  BY <1>2, <1>3, <1>5, <1>6, <1>7, <1>11, JobOnly

LEMMA ReadNumberInv ==
  ASSUME IInv, NEW j \in Job, ReadNumber(j)
  PROVE  IInv'
<1> DEFINE y == job[j]
           n == next_counter_without_model
           x == [y EXCEPT !.got = n]
<1>1. /\ job' = [job EXCEPT ![j] = x] /\ y.got = None /\ n \in Name
      /\ UNCHANGED <<hostname, ip, created, owner, counter, useCounter, form, issued, excused,
                     overruled>>
  BY Parts DEF ReadNumber
<1>2. y.pc = "acting" /\ Active(j) /\ y \in JobState /\ RightJob(j, y)
  BY Parts DEF ReadNumber, Acts, Active, JobsAreRight
<1>3. y.locks = FALSE
  BY <1>1, <1>2, JobFields DEF RightJob
<1> HIDE DEF n
<1>4. /\ x \in JobState /\ x.pc = "acting" /\ x.act = y.act /\ x.row = y.row
      /\ x.address = y.address /\ x.done = y.done /\ x.got = n /\ x.locks = FALSE
      /\ x.mem = y.mem /\ x.name = y.name /\ x.param = y.param /\ x.made = y.made
      /\ x.served = y.served
  BY <1>1, <1>2, <1>3 DEF JobState
<1> HIDE DEF x
<1>5. RightJob(j, x)
  BY <1>2, <1>4 DEF RightJob
<1>6. NamesTyped'
  BY <1>1, Parts DEF NamesTyped
<1>7. NamesAreRight'
  BY <1>1, <1>4, JobLearns
<1> QED
  BY <1>1, <1>2, <1>4, <1>5, <1>6, <1>7, JobOnly

-----------------------------------------------------------------------------
(* Steps that write rows *)

LEMMA TypesTogether ==
  ASSUME RowsTyped', NamesTyped', JobsTyped', FormsTyped'
  PROVE  TypeOK'
  BY DEF TypeOK, RowsTyped, NamesTyped, JobsTyped, FormsTyped

\* Rows are deleted, at least those of the Ethernets that are.
LEMMA RowsRemoved ==
  ASSUME RowsTyped, NEW S, ip' = Without(S), created' = created,
         owner' \in [Ether -> Host \cup {None}],
         \A e \in Ether : owner'[e] \in {owner[e], None},
         \A i \in Id : Exists(i) /\ owner'[ip[i].eth] = None => i \in S
  PROVE  /\ RowsTyped'
         /\ \A i \in Id : ip'[i] # None => i \notin S /\ Exists(i) /\ ip'[i] = ip[i]
         /\ \A i \in Id \ S : ip'[i] = ip[i]
<1>1. \A i \in Id : ip'[i] = IF i \in S THEN None ELSE ip[i]
  BY DEF Without
<1>2. \A i \in Id : ip'[i] # None => i \notin S /\ Exists(i) /\ ip'[i] = ip[i]
  BY <1>1 DEF Exists
<1>3. ip' \in [Id -> Row \cup {None}]
  BY DEF Without, RowsTyped
<1>4. \A h \in Host : owner'[h] \in {h, None}
  BY DEF RowsTyped, Ether
<1>5. RowsTyped'
  BY <1>2, <1>3, <1>4 DEF RowsTyped, Exists
<1> QED
  BY <1>1, <1>2, <1>5

\* A row is saved or inserted.
LEMMA RowSaved ==
  ASSUME RowsTyped, NEW i \in Id, NEW row \in Row, Fits(i, row),
         ip' = [ip EXCEPT ![i] = row], owner' = owner,
         created' \in 0..MaxId, created <= created', i <= created'
  PROVE  /\ RowsTyped' /\ ip'[i] = row
         /\ \A k \in Id \ {i} : ip'[k] = ip[k]
<1>1. /\ ip'[i] = row /\ row # None /\ \A k \in Id \ {i} : ip'[k] = ip[k]
      /\ ip' \in [Id -> Row \cup {None}]
  BY RowFields DEF RowsTyped
<1>2. ASSUME NEW k \in Id, ip'[k] # None
      PROVE  k <= created' /\ owner[ip'[k].eth] # None
  <2>1. CASE k = i
    BY <1>1, <2>1 DEF Fits
  <2>2. CASE k # i
    <3>1. Exists(k) /\ ip'[k] = ip[k]
      BY <1>1, <1>2, <2>2 DEF Exists
    <3>2. k \in Nat /\ created \in Nat /\ k <= created /\ owner[ip[k].eth] # None
      BY <3>1, NoneIsElse DEF RowsTyped
    <3> QED
      BY <3>1, <3>2
  <2> QED
    BY <2>1, <2>2
<1>3. \A k \in Id \ {i} : ip'[k] # None =>
        ip[k].address # row.address /\ ip[k].eth # row.eth
  BY <1>1 DEF Fits, Exists
<1>4. ASSUME NEW k \in Id, NEW l \in Id, k # l, ip'[k] # None, ip'[l] # None
      PROVE  ip'[k].address # ip'[l].address /\ ip'[k].eth # ip'[l].eth
  <2>1. CASE k = i
    BY <1>1, <1>3, <1>4, <2>1
  <2>2. CASE l = i
    BY <1>1, <1>3, <1>4, <2>2
  <2>3. CASE k # i /\ l # i
    BY <1>1, <1>4, <2>3 DEF RowsTyped, Exists
  <2> QED
    BY <2>1, <2>2, <2>3
<1>5. RowsTyped'
  BY <1>1, <1>2, <1>4 DEF RowsTyped, Exists
<1> QED
  BY <1>1, <1>5

\* RowsTo and EntriesTo for a step of a job that ends an action.
LEMMA RowsToByJob ==
  ASSUME IInv, TypeOK', NEW j \in Job, NEW x \in JobState, job' = [job EXCEPT ![j] = x],
         UNCHANGED form, x.row = None, x.param \in {job[j].param, None}, created <= created',
         \A i \in Id : ip'[i] # None =>
           \/ \E q \in Row : IsCopy(i, q) /\ q.eth = ip'[i].eth
           \/ i <= created' /\ ip'[i].eth \in Host \cup 1..created',
         \A e \in Ether : \/ owner'[e] \in {owner[e], None}
                          \/ e \in Id /\ created < e /\ e <= created'
  PROVE  KeysAreOld'
<1>1. /\ job \in [Job -> JobState] /\ job'[j] = x /\ KeysAreOld
      /\ \A k \in Job \ {j} : job'[k] = job[k]
  BY Parts
<1>2. \A k \in Job : job[k].row # None /\ job[k].param # None =>
        job[k].row \in Row /\ IsCopy(job[k].param, job[k].row)
  BY <1>1, JobFields DEF IsCopy
<1>3. \A k \in Job : job'[k].row # None /\ job'[k].param # None =>
         \E q \in Row : IsCopy(job'[k].param, q) /\ q.eth = job'[k].row.eth
  BY <1>1, <1>2
<1>4. \A k \in Job : job'[k].param # None => job'[k].param = job[k].param
  BY <1>1
<1>5. \A u \in Form : /\ form'[u].pc = "save" => form'[u].row # None
                      /\ form'[u].pc = "switch" => form'[u].number # None
  BY <1>1 DEF KeysAreOld
<1>6. \A u \in Form : form'[u].pc = "save" /\ form'[u].id # None =>
         /\ form'[u].id \in Id
         /\ \E q \in Row : IsCopy(form'[u].id, q) /\ q.eth = form'[u].row.eth
  BY <1>1, Parts, FormFields DEF KeysAreOld, IsCopy
<1>7. /\ \A u \in Form : form'[u].pc = "delete" => form'[u].id \in Id /\ form'[u].id <= created
      /\ \A u \in Form : form'[u].pc = "delete_ethernet" => form'[u].id \in Ether
  BY <1>1 DEF KeysAreOld
<1> QED
  BY <1>3, <1>4, <1>5, <1>6, <1>7, RowsTo

LEMMA EntriesToByJob ==
  ASSUME IInv, TypeOK', NEW j \in Job, NEW x \in JobState, job' = [job EXCEPT ![j] = x],
         UNCHANGED <<form, overruled>>, x.param \in {job[j].param, None}, created <= created',
         \/ x.made = None \/ EntryIsSafe(j)'
         \/ x.made = job[j].made /\ x.served = job[j].served,
         \A h \in Host : owner'[h] \in {owner[h], None},
         \A k \in Job : Entry(k) /\ owner'[HostOf[k]] # None => ip'[job[k].made] = ip[job[k].made]
  PROVE  EntriesAreSafe'
<1>1. /\ job \in [Job -> JobState] /\ job'[j] = x
      /\ \A k \in Job \ {j} : job'[k] = job[k]
  BY Parts
<1>2. \A k \in Job : job'[k].made # None /\ owner'[HostOf[k]] # None =>
         \/ job'[k].made = job[k].made /\ job'[k].served = job[k].served
         \/ EntryIsSafe(k)'
  BY <1>1
<1>3. \A k \in Job : Entry(k) /\ owner'[HostOf[k]] # None =>
         LET i == job[k].made
         IN /\ ip'[i] # None /\ ip'[i].dhcp_expose /\ ip'[i].eth = ip[i].eth
            /\ ip'[i].hostname = ip[i].hostname
  BY EntryFacts DEF Exists
<1>4. \A u \in Form, i \in Id : Exists(i) /\ ip[i].dhcp_expose /\ i \notin overruled' =>
         /\ form'[u].pc = "save" /\ form'[u].id = i =>
              form'[u] = form[u] \/ SameEntry(form'[u].row, ip[i])
         /\ form'[u].pc = "delete" /\ form'[u].id = i => form'[u] = form[u]
  OBVIOUS
<1>5. \A k, l \in Job : Entry(l) =>
         job'[k].param \in {job[k].param, None} \/ job'[k].param # job[l].made
  BY <1>1
<1> QED
  BY <1>2, <1>3, <1>4, <1>5, EntriesTo

\* What another job has read is of the host it was of.
LEMMA RememberedBefore ==
  ASSUME IInv, NEW k \in Job, job'[k] = job[k], NEW h \in Host, NEW n, Remembers(k, h, n)',
         \A e \in Ether : owner'[e] \in {owner[e], None} \/ (e \in Id /\ created < e)
  PROVE  Remembers(k, h, n)
<1>1. job[k] \in JobState /\ RightJob(k, job[k]) /\ KeysAreOld /\ created \in Nat
  BY Parts DEF JobsAreRight
<1>2. CASE HostOf[k] = h /\ n \in {job[k].mem, job[k].name}
  BY <1>2 DEF Remembers
<1>3. CASE job[k].row # None /\ owner'[job[k].row.eth] = h /\ job[k].row.hostname = n
  <2>1. /\ job[k].row \in Row /\ job[k].row.eth \in Ether /\ h # None
        /\ job[k].param \in Id
    BY <1>1, <1>3, JobFields, RowFields, NoneIsElse DEF RightJob
  <2>2. job[k].row.eth \in Host \cup 1..created
    BY <1>1, <1>3, <2>1 DEF KeysAreOld, IsCopy
  <2>3. ~ (job[k].row.eth \in Id /\ created < job[k].row.eth)
    BY <1>1, <2>2, NoneIsElse
  <2> QED
    BY <1>3, <2>1, <2>3 DEF Remembers
<1> QED
  BY <1>2, <1>3 DEF Remembers

\* NamesTo for a step of a job that ends an action.
LEMMA NamesToByJob ==
  ASSUME IInv, NEW j \in Job, NEW x \in JobState, job' = [job EXCEPT ![j] = x],
         x.locks = FALSE, x.row = None, excused \subseteq excused',
         \A e \in Ether : owner'[e] \in {owner[e], None} \/ (e \in Id /\ created < e),
         \A n \in issued' : n \in issued \/ Gives(j, HostOf[j], n),
         \A h \in Host, n \in Name : Holds(h, n)' /\ Known(n) /\ n \notin excused' =>
           Has(h, n) \/ Gives(j, h, n),
         \A n \in Name : n \in {x.mem, x.name} /\ Known(n) /\ n \notin excused' =>
           Has(HostOf[j], n) \/ Gives(j, HostOf[j], n)
  PROVE  NamesAreRight'
<1>1. /\ job \in [Job -> JobState] /\ job'[j] = x
      /\ \A k \in Job \ {j} : job'[k] = job[k]
  BY Parts
<1>2. ASSUME NEW h \in Host, NEW n \in Name, Has(h, n)', Known(n), n \notin excused'
      PROVE  Has(h, n) \/ Gives(j, h, n)
  <2>1. CASE Holds(h, n)'
    BY <1>2, <2>1
  <2>2. CASE \E k \in Job : Remembers(k, h, n)'
    <3>1. PICK k \in Job : Remembers(k, h, n)'
      BY <2>2
    <3>2. CASE k = j
      BY <1>1, <1>2, <3>1, <3>2 DEF Remembers
    <3>3. CASE k # j
      BY <1>1, <3>1, <3>3, RememberedBefore DEF Has
    <3> QED
      BY <3>2, <3>3
  <2> QED
    BY <1>2, <2>1, <2>2 DEF Has
<1>3. \A h \in Host, n \in Name : Has(h, n)' /\ Known(n) /\ n \notin excused' =>
        Has(h, n) \/ \E k \in Job : Gives(k, h, n) /\ ~ job'[k].locks
  BY <1>1, <1>2
<1>4. \A n \in issued' : n \in issued \/ \E k \in Job : Gives(k, HostOf[k], n) /\ ~ job'[k].locks
  BY <1>1
<1>5. \A k \in Job : job'[k].locks => job[k].locks /\ job'[k].got = job[k].got
  BY <1>1
<1> QED
  BY <1>3, <1>4, <1>5, NamesTo

\* What is left of the rows after a deletion, for the rest of the invariant.
LEMMA RowsKept ==
  ASSUME IInv, RowsTyped', created' = created,
         \A i \in Id : ip'[i] # None => Exists(i) /\ ip'[i] = ip[i],
         \A e \in Ether : owner'[e] \in {owner[e], None}
  PROVE  /\ \A i \in Id : ip'[i] # None => \E q \in Row : IsCopy(i, q) /\ q.eth = ip'[i].eth
         /\ hostname' = hostname => \A h \in Host, n \in Name : Holds(h, n)' => Holds(h, n)
<1>1. RowsTyped
  BY Parts
<1>2. \A i \in Id : Exists(i) => ip[i] \in Row /\ ip[i].eth \in Ether /\ IsCopy(i, ip[i])
  BY <1>1, RowThere DEF IsCopy
<1>3. \A h \in Host : Of(h)' \subseteq Of(h) /\ \A i \in Of(h)' : ip'[i] = ip[i]
  BY <1>2, NoneIsElse DEF Of, Exists
<1> QED
  BY <1>2, <1>3 DEF Holds

\* The deletions come before the entry is made.
LEMMA CleanedFirst ==
  ASSUME IInv, NEW j \in Job, NEW a \in {"clean_ipaddresses", "clean_dhcp"}, MayRun(j, a),
         NEW l \in Job, Entry(l)
  PROVE  job[l].made \notin Of(HostOf[j])
<1>1. /\ Active(l) /\ owner[ip[job[l].made].eth] = HostOf[l]
      /\ {"clean_ipaddresses", "clean_dhcp"} \cap Actions[l] \subseteq job[l].done
  BY EntryFacts
<1>2. Active(j) /\ a \in Actions[j] /\ a \notin job[j].done
  BY MayRunIs DEF MayRun
<1>3. l # j
  BY <1>1, <1>2
<1>4. HostOf[l] # HostOf[j]
  BY <1>1, <1>2, <1>3, Parts DEF JobsAreRight
<1> QED
  BY <1>1, <1>4 DEF Of

LEMMA CleanIpaddressesInv ==
  ASSUME IInv, NEW j \in Job, clean_ipaddresses(j)
  PROVE  IInv'
<1> DEFINE a == "clean_ipaddresses"
           x == Returned(j, a)
           gone == {i \in Of(HostOf[j]) : ~ ip[i].is_management}
           ends == {ip[i].eth : i \in gone} \ Host
<1>1. /\ MayRun(j, a) /\ ip' = Without(gone) /\ job' = [job EXCEPT ![j] = x]
      /\ owner' = [e \in Ether |-> IF e \in ends THEN None ELSE owner[e]]
      /\ UNCHANGED <<hostname, created, counter, useCounter, form, issued, excused, overruled>>
  BY DEF clean_ipaddresses
<1>2. /\ Active(j) /\ a \in Actions[j] /\ a \in ActionName /\ job[j] \in JobState
  BY <1>1, MayRunIs
<1>3. /\ x \in JobState /\ x.pc = "ready" /\ x.done = job[j].done \cup {a}
      /\ x.row = None /\ x.got = None /\ x.locks = FALSE /\ x.mem = job[j].mem
      /\ x.name = job[j].name /\ x.param = job[j].param /\ x.made = job[j].made
      /\ x.served = job[j].served
  BY <1>2, ReturnedIs
<1> HIDE DEF x
<1>4. RightJob(j, x)
  BY <1>2, <1>3, ReadyIsRight
<1>5. JobsTyped' /\ JobsAreRight'
  BY <1>1, <1>2, <1>3, <1>4, JobsTo
<1>6. /\ RowsTyped
      /\ \A i, k \in Id : i # k /\ Exists(i) /\ Exists(k) => ip[i].eth # ip[k].eth
      /\ \A i \in gone : i \in Id /\ Exists(i)
      /\ \A e \in ends : \E i \in gone : e = ip[i].eth
  BY Parts DEF RowsTyped, Of
<1>7. /\ owner' \in [Ether -> Host \cup {None}]
      /\ \A e \in Ether : owner'[e] \in {owner[e], None}
  BY <1>1, <1>6 DEF RowsTyped
<1>8. ASSUME NEW i \in Id, Exists(i), owner'[ip[i].eth] = None
      PROVE  i \in gone
  <2>1. ip[i].eth \in Ether /\ owner[ip[i].eth] \in Host
    BY <1>6, <1>8, RowThere
  <2>2. ip[i].eth \in ends
    BY <1>1, <1>8, <2>1, NoneIsElse
  <2>3. PICK k \in gone : ip[i].eth = ip[k].eth
    BY <1>6, <2>2
  <2> QED
    BY <1>6, <1>8, <2>3
<1>9. \A h \in Host : owner'[h] = owner[h]
  BY <1>1, NoneIsElse
<1> HIDE DEF ends
<1>10. /\ RowsTyped'
       /\ \A i \in Id : ip'[i] # None => i \notin gone /\ Exists(i) /\ ip'[i] = ip[i]
       /\ \A i \in Id \ gone : ip'[i] = ip[i]
  BY <1>1, <1>6, <1>7, <1>8, RowsRemoved
<1>11. \A k \in Job : Entry(k) => ip'[job[k].made] = ip[job[k].made]
  BY <1>1, <1>10, EntryFacts, CleanedFirst
<1> HIDE DEF gone
<1>12. /\ \A i \in Id : ip'[i] # None => \E q \in Row : IsCopy(i, q) /\ q.eth = ip'[i].eth
       /\ \A h \in Host, n \in Name : Holds(h, n)' => Holds(h, n)
  BY <1>1, <1>7, <1>10, RowsKept
<1>13. NamesTyped' /\ FormsTyped'
  BY <1>1, Parts DEF NamesTyped, FormsTyped
<1>14. TypeOK'
  BY <1>5, <1>10, <1>13, TypesTogether
<1>15. created <= created'
  BY <1>1, Parts
<1>16. KeysAreOld'
  BY <1>1, <1>3, <1>7, <1>12, <1>14, <1>15, RowsToByJob
<1>17. EntriesAreSafe'
  BY <1>1, <1>3, <1>9, <1>11, <1>14, <1>15, EntriesToByJob
<1>18. NamesAreRight'
  <2>1. \A n \in Name : n \in {x.mem, x.name} => Has(HostOf[j], n)
    BY <1>3, Configured DEF Has, Remembers
  <2>2. \A h \in Host, n \in Name : Holds(h, n)' => Has(h, n)
    BY <1>12 DEF Has
  <2> QED
    BY <1>1, <1>3, <2>1, <2>2, NamesToByJob
<1> QED
  BY <1>5, <1>14, <1>16, <1>17, <1>18 DEF IInv

LEMMA CleanDhcpInv ==
  ASSUME IInv, NEW j \in Job, clean_dhcp(j)
  PROVE  IInv'
<1> DEFINE a == "clean_dhcp"
           x == Returned(j, a)
           gone == {i \in Of(HostOf[j]) : IsDhcpEntry(i)}
<1>1. /\ MayRun(j, a) /\ ip' = Without(gone) /\ job' = [job EXCEPT ![j] = x]
      /\ UNCHANGED <<hostname, created, owner, counter, useCounter, form, issued, excused,
                     overruled>>
  BY DEF clean_dhcp
<1>2. /\ Active(j) /\ a \in Actions[j] /\ a \in ActionName /\ job[j] \in JobState
  BY <1>1, MayRunIs
<1>3. /\ x \in JobState /\ x.pc = "ready" /\ x.done = job[j].done \cup {a}
      /\ x.row = None /\ x.got = None /\ x.locks = FALSE /\ x.mem = job[j].mem
      /\ x.name = job[j].name /\ x.param = job[j].param /\ x.made = job[j].made
      /\ x.served = job[j].served
  BY <1>2, ReturnedIs
<1> HIDE DEF x
<1>4. RightJob(j, x)
  BY <1>2, <1>3, ReadyIsRight
<1>5. JobsTyped' /\ JobsAreRight'
  BY <1>1, <1>2, <1>3, <1>4, JobsTo
<1>6. RowsTyped /\ owner' \in [Ether -> Host \cup {None}]
  BY <1>1, Parts DEF RowsTyped
<1>7. \A i \in Id : Exists(i) /\ owner'[ip[i].eth] = None => i \in gone
  BY <1>1, <1>6 DEF RowsTyped
<1>8. /\ RowsTyped'
      /\ \A i \in Id : ip'[i] # None => i \notin gone /\ Exists(i) /\ ip'[i] = ip[i]
      /\ \A i \in Id \ gone : ip'[i] = ip[i]
  BY <1>1, <1>6, <1>7, RowsRemoved
<1>9. \A k \in Job : Entry(k) => ip'[job[k].made] = ip[job[k].made]
  BY <1>1, <1>8, EntryFacts, CleanedFirst
<1> HIDE DEF gone
<1>10. /\ \A i \in Id : ip'[i] # None => \E q \in Row : IsCopy(i, q) /\ q.eth = ip'[i].eth
       /\ \A h \in Host, n \in Name : Holds(h, n)' => Holds(h, n)
  BY <1>1, <1>8, RowsKept
<1>11. NamesTyped' /\ FormsTyped'
  BY <1>1, Parts DEF NamesTyped, FormsTyped
<1>12. TypeOK'
  BY <1>5, <1>8, <1>11, TypesTogether
<1>13. created <= created'
  BY <1>1, Parts
<1>14. KeysAreOld'
  BY <1>1, <1>3, <1>10, <1>12, <1>13, RowsToByJob
<1>15. EntriesAreSafe'
  BY <1>1, <1>3, <1>9, <1>12, <1>13, EntriesToByJob
<1>16. NamesAreRight'
  <2>1. \A n \in Name : n \in {x.mem, x.name} => Has(HostOf[j], n)
    BY <1>3, Configured DEF Has, Remembers
  <2>2. \A h \in Host, n \in Name : Holds(h, n)' => Has(h, n)
    BY <1>10 DEF Has
  <2> QED
    BY <1>1, <1>3, <2>1, <2>2, NamesToByJob
<1> QED
  BY <1>5, <1>12, <1>14, <1>15, <1>16 DEF IInv

-----------------------------------------------------------------------------
(* Steps that give names and addresses *)

\* What the host of a job is called now is the only thing that changes of what hosts hold.
LEMMA HostNamed ==
  ASSUME IInv, NEW g \in Host, NEW m \in Name \cup {None},
         hostname' = [hostname EXCEPT ![g] = m], UNCHANGED <<ip, owner>>
  PROVE  \A h \in Host, n \in Name : Holds(h, n)' => Holds(h, n) \/ (h = g /\ n = m)
<1>1. hostname \in [Host -> Name \cup {None}]
  BY Parts DEF NamesTyped
<1>2. \A h \in Host : hostname'[h] = IF h = g THEN m ELSE hostname[h]
  BY <1>1
<1> QED
  BY <1>2 DEF Holds, Of, Exists

\* A number the job has got is issued by the commit, or else is excused.
LEMMA NumberCommitted ==
  ASSUME IInv, NEW j \in Job, job[j].got # None, CommitNumber(j)
  PROVE  /\ job[j].got \in Name /\ excused \subseteq excused'
         /\ \A n \in issued' : n \in issued \/ Gives(j, HostOf[j], n)
         /\ job[j].got \notin excused' => Gives(j, HostOf[j], job[j].got)
         /\ counter' \in 0..MaxName /\ issued' \subseteq Name /\ excused' \subseteq Name
<1>1. /\ job[j].got \in Name /\ counter \in 0..MaxName /\ issued \subseteq Name
      /\ excused \subseteq Name /\ job[j].locks \in BOOLEAN
  BY Parts, JobFields DEF NamesTyped
<1>2. job[j].got \in 0..MaxName
  BY <1>1, Configured DEF Name
<1> QED
  BY <1>1, <1>2 DEF CommitNumber, Gives

LEMMA AssignNewHostnameInv ==
  ASSUME IInv, NEW j \in Job, assign_new_hostname(j)
  PROVE  IInv'
<1> DEFINE a == "assign_new_hostname"
           n == job[j].got
           y == Returned(j, a)
           x == [y EXCEPT !.mem = n, !.name = n]
<1>1. /\ Acts(j, a) /\ n # None /\ hostname' = [hostname EXCEPT ![HostOf[j]] = n]
      /\ job' = [job EXCEPT ![j] = x] /\ CommitNumber(j)
      /\ UNCHANGED <<ip, created, owner, useCounter, form, overruled>>
  BY DEF assign_new_hostname
<1>2. a \in ActionName
  BY DEF ActionName
<1>3. /\ Active(j) /\ a \in Actions[j] /\ job[j] \in JobState /\ HostOf[j] \in Host
  BY <1>1, <1>2, ActsIs, Configured
<1>4. /\ y \in JobState /\ y.pc = "ready" /\ y.done = job[j].done \cup {a}
      /\ y.row = None /\ y.got = None /\ y.locks = FALSE /\ y.param = job[j].param
      /\ y.made = job[j].made /\ y.served = job[j].served
  BY <1>2, <1>3, ReturnedIs
<1> HIDE DEF y
<1>5. /\ n \in Name /\ excused \subseteq excused'
      /\ \A m \in issued' : m \in issued \/ Gives(j, HostOf[j], m)
      /\ n \notin excused' => Gives(j, HostOf[j], n)
      /\ counter' \in 0..MaxName /\ issued' \subseteq Name /\ excused' \subseteq Name
  BY <1>1, NumberCommitted
<1>6. /\ x \in JobState /\ x.pc = "ready" /\ x.done = job[j].done \cup {a}
      /\ x.row = None /\ x.got = None /\ x.locks = FALSE /\ x.mem = n /\ x.name = n
      /\ x.param = job[j].param /\ x.made = job[j].made /\ x.served = job[j].served
  BY <1>4, <1>5 DEF JobState
<1> HIDE DEF x
<1>7. RightJob(j, x)
  BY <1>3, <1>6, ReadyIsRight
<1>8. NamesTyped'
  BY <1>1, <1>3, <1>5, Parts DEF NamesTyped
<1>9. NamesAreRight'
  <2>1. \A h \in Host, m \in Name : Holds(h, m)' => Holds(h, m) \/ (h = HostOf[j] /\ m = n)
    BY <1>1, <1>3, <1>5, HostNamed
  <2>2. \A h \in Host, m \in Name : Holds(h, m)' /\ Known(m) /\ m \notin excused' =>
          Has(h, m) \/ Gives(j, h, m)
    BY <1>5, <2>1 DEF Has
  <2>3. \A m \in Name : m \in {x.mem, x.name} /\ Known(m) /\ m \notin excused' =>
          Has(HostOf[j], m) \/ Gives(j, HostOf[j], m)
    BY <1>5, <1>6
  <2> QED
    BY <1>1, <1>5, <1>6, <2>2, <2>3, NamesToByJob
<1> QED
  BY <1>1, <1>3, <1>6, <1>7, <1>8, <1>9, JobOnly

LEMMA AssignTypedInv ==
  ASSUME IInv, NEW j \in Job, NEW n \in Typed, AssignTyped(j, n)
  PROVE  IInv'
<1> DEFINE a == "assign_new_hostname"
           y == Returned(j, a)
           x == [y EXCEPT !.mem = n, !.name = n]
<1>1. /\ MayRun(j, a) /\ hostname' = [hostname EXCEPT ![HostOf[j]] = n]
      /\ job' = [job EXCEPT ![j] = x]
      /\ excused' = IF Taken(n) THEN excused \cup {n} ELSE excused
      /\ UNCHANGED <<ip, created, owner, counter, useCounter, form, issued, overruled>>
  BY DEF AssignTyped
<1>2. /\ Active(j) /\ a \in Actions[j] /\ a \in ActionName /\ job[j] \in JobState
      /\ HostOf[j] \in Host /\ n \in Name
  BY <1>1, MayRunIs, Configured
<1>3. /\ y \in JobState /\ y.pc = "ready" /\ y.done = job[j].done \cup {a}
      /\ y.row = None /\ y.got = None /\ y.locks = FALSE /\ y.param = job[j].param
      /\ y.made = job[j].made /\ y.served = job[j].served
  BY <1>2, ReturnedIs
<1> HIDE DEF y
<1>4. /\ x \in JobState /\ x.pc = "ready" /\ x.done = job[j].done \cup {a}
      /\ x.row = None /\ x.got = None /\ x.locks = FALSE /\ x.mem = n /\ x.name = n
      /\ x.param = job[j].param /\ x.made = job[j].made /\ x.served = job[j].served
  BY <1>2, <1>3 DEF JobState
<1> HIDE DEF x
<1>5. RightJob(j, x)
  BY <1>2, <1>4, ReadyIsRight
<1>6. NamesTyped'
  BY <1>1, <1>2, Parts DEF NamesTyped
<1>7. excused \subseteq excused' /\ (Known(n) => n \in excused')
  BY <1>1 DEF Taken, Known
<1>8. NamesAreRight'
  <2>1. \A h \in Host, m \in Name : Holds(h, m)' => Holds(h, m) \/ (h = HostOf[j] /\ m = n)
    BY <1>1, <1>2, HostNamed
  <2>2. \A h \in Host, m \in Name : Holds(h, m)' /\ Known(m) /\ m \notin excused' =>
          Has(h, m) \/ Gives(j, h, m)
    BY <1>7, <2>1 DEF Has
  <2>3. \A m \in Name : m \in {x.mem, x.name} /\ Known(m) /\ m \notin excused' =>
          Has(HostOf[j], m) \/ Gives(j, HostOf[j], m)
    BY <1>4, <1>7
  <2> QED
    BY <1>1, <1>4, <1>7, <2>2, <2>3, NamesToByJob
<1> QED
  BY <1>1, <1>2, <1>4, <1>5, <1>6, <1>8, JobOnly

\* The object is saved with a name the job remembers.
LEMMA StoreObjectInv ==
  ASSUME IInv, NEW j \in Job, StoreObject(j)
  PROVE  IInv'
<1> DEFINE x == Ended("done")
           m == job[j].mem
<1>1. /\ x \in JobState /\ x.pc = "done" /\ x = Ended(x.pc) /\ x.mem = None /\ x.name = None
      /\ x.got = None /\ x.locks = FALSE /\ x.param = None /\ x.row = None /\ x.made = None
      /\ x.done = {}
  BY NewAndEnded
<1>2. /\ job' = [job EXCEPT ![j] = x] /\ hostname' = [hostname EXCEPT ![HostOf[j]] = m]
      /\ UNCHANGED <<ip, created, owner, counter, useCounter, form, issued, excused,
                     overruled>>
  BY DEF StoreObject
<1> HIDE DEF x
<1>3. HostOf[j] \in Host /\ m \in Name \cup {None}
  BY Parts, JobFields, Configured
<1>4. RightJob(j, x)
  BY <1>1 DEF RightJob
<1>5. NamesTyped'
  BY <1>2, <1>3, Parts DEF NamesTyped
<1>6. NamesAreRight'
  <2>1. \A h \in Host, n \in Name : Holds(h, n)' => Holds(h, n) \/ (h = HostOf[j] /\ n = m)
    BY <1>2, <1>3, HostNamed
  <2>2. \A h \in Host, n \in Name : Holds(h, n)' => Has(h, n)
    BY <2>1 DEF Has, Remembers
  <2>3. \A n \in Name : n \notin {x.mem, x.name}
    BY <1>1, NoneIsElse
  <2> QED
    BY <1>1, <1>2, <2>2, <2>3, NamesToByJob
<1> QED
  BY <1>1, <1>2, <1>4, <1>5, <1>6, JobOnly

\* A new row on a new Ethernet disturbs no row, and gives the host one name.
LEMMA InsertedOnNewEthernet ==
  ASSUME IInv, NEW j \in Job, NEW name \in Name \cup {None}, job[j].address \in Address,
         InsertOnNewEthernet(j, name)
  PROVE  /\ RowsTyped' /\ created' = created + 1 /\ created + 1 \in Id
         /\ created < created' /\ created <= created'
         /\ \A i \in Id : ip'[i] # None =>
              \/ \E q \in Row : IsCopy(i, q) /\ q.eth = ip'[i].eth
              \/ i <= created' /\ ip'[i].eth \in Host \cup 1..created'
         /\ \A e \in Ether : owner'[e] = owner[e] \/ (e \in Id /\ created < e /\ e <= created')
         /\ \A h \in Host : owner'[h] = owner[h]
         /\ \A k \in Job : Entry(k) => ip'[job[k].made] = ip[job[k].made]
         /\ hostname' = hostname =>
              \A h \in Host, n \in Name :
                Holds(h, n)' => Holds(h, n) \/ (h = HostOf[j] /\ n = name)
<1> DEFINE c == created + 1
           row == [address |-> job[j].address, eth |-> c, hostname |-> name,
                   dhcp_expose |-> FALSE, is_management |-> FALSE]
<1>1. /\ created < MaxId /\ created' = c
      /\ \A k \in Id : Exists(k) => ip[k].address # row.address
      /\ ip' = [ip EXCEPT ![c] = row] /\ owner' = [owner EXCEPT ![c] = HostOf[j]]
  BY DEF InsertOnNewEthernet
<1>2. /\ created \in Nat /\ MaxId \in Nat /\ HostOf[j] \in Host
      /\ RowsTyped /\ KeysAreOld
  BY Parts, Configured
<1>3. c \in Id /\ c \in Nat /\ c \notin Host /\ c \in Ether /\ created < c /\ c <= MaxId
  BY <1>1, <1>2, NoneIsElse DEF Id, Ether
<1>4. /\ row \in Row /\ row # None /\ row.eth = c /\ row.hostname = name
      /\ row.address = job[j].address
  <2> HIDE DEF c
  <2>1. row \in Row
    BY <1>3, RowOf
  <2> QED
    BY <2>1, NoneIsElse
<1> HIDE DEF row
<1>5. /\ ip'[c] = row /\ \A i \in Id \ {c} : ip'[i] = ip[i]
      /\ ip' \in [Id -> Row \cup {None}]
      /\ owner'[c] = HostOf[j] /\ \A e \in Ether \ {c} : owner'[e] = owner[e]
      /\ owner' \in [Ether -> Host \cup {None}]
  BY <1>1, <1>2, <1>3, <1>4 DEF RowsTyped
<1>6. owner[c] = None
  BY <1>2, <1>3 DEF KeysAreOld
<1>7. ASSUME NEW i \in Id, Exists(i)
      PROVE  /\ i # c /\ ip'[i] = ip[i] /\ ip[i].eth # c /\ ip[i].eth \in Ether /\ i <= created
             /\ owner'[ip[i].eth] = owner[ip[i].eth] /\ owner[ip[i].eth] # None
             /\ IsCopy(i, ip[i]) /\ ip[i] \in Row
  <2>1. /\ ip[i] \in Row /\ i <= created /\ ip[i].eth \in Ether /\ owner[ip[i].eth] \in Host
    BY <1>2, <1>7, RowThere
  <2>2. i # c
    BY <1>2, <1>3, <2>1, NoneIsElse
  <2>3. ip[i].eth # c
    BY <1>6, <2>1, NoneIsElse
  <2> QED
    BY <1>5, <1>7, <2>1, <2>2, <2>3, NoneIsElse DEF IsCopy
<1>8. \A i \in Id : ip'[i] # None => i = c \/ Exists(i)
  BY <1>5 DEF Exists
<1>9. RowsTyped'
  <2>1. created' \in 0..MaxId
    BY <1>1, <1>2, <1>3
  <2>2. \A h \in Host : owner'[h] \in {h, None}
    BY <1>2, <1>3, <1>5 DEF RowsTyped, Ether
  <2>3. \A i \in Id : ip'[i] # None => i <= created' /\ owner'[ip'[i].eth] # None
    <3> SUFFICES ASSUME NEW i \in Id, ip'[i] # None
                 PROVE  i <= created' /\ owner'[ip'[i].eth] # None
      OBVIOUS
    <3>1. CASE i = c
      BY <1>1, <1>2, <1>3, <1>4, <1>5, <3>1, NoneIsElse
    <3>2. CASE Exists(i)
      <4>1. i \in Nat /\ i <= created
        BY <1>7, <3>2, NoneIsElse
      <4> QED
        BY <1>1, <1>2, <1>7, <3>2, <4>1
    <3> QED
      BY <1>8, <3>1, <3>2
  <2>4. ASSUME NEW i \in Id, NEW k \in Id, i # k, ip'[i] # None, ip'[k] # None
        PROVE  ip'[i].address # ip'[k].address /\ ip'[i].eth # ip'[k].eth
    <3>1. CASE i = c
      BY <1>1, <1>4, <1>5, <1>7, <1>8, <2>4, <3>1
    <3>2. CASE k = c
      BY <1>1, <1>4, <1>5, <1>7, <1>8, <2>4, <3>2
    <3>3. CASE i # c /\ k # c
      BY <1>2, <1>5, <1>7, <1>8, <2>4, <3>3 DEF RowsTyped
    <3> QED
      BY <3>1, <3>2, <3>3
  <2> QED
    BY <1>5, <2>1, <2>2, <2>3, <2>4 DEF RowsTyped, Exists
<1>10. \A i \in Id : ip'[i] # None =>
          \/ \E q \in Row : IsCopy(i, q) /\ q.eth = ip'[i].eth
          \/ i <= created' /\ ip'[i].eth \in Host \cup 1..created'
  <2>1. c \in 1..created' /\ created < c /\ c <= created'
    BY <1>1, <1>2, <1>3
  <2>2. ip'[c].eth \in Host \cup 1..created'
    BY <1>4, <1>5, <2>1
  <2> HIDE DEF c
  <2> QED
    BY <1>7, <1>8, <2>1, <2>2
<1>11. \A e \in Ether : owner'[e] = owner[e] \/ (e \in Id /\ created < e /\ e <= created')
  BY <1>1, <1>2, <1>3, <1>5
<1>12. \A h \in Host : owner'[h] = owner[h]
  BY <1>3, <1>5, NoneIsElse
<1>13. \A k \in Job : Entry(k) => ip'[job[k].made] = ip[job[k].made]
  BY <1>7, EntryFacts
<1>14. ASSUME hostname' = hostname, NEW h \in Host, NEW n \in Name, Holds(h, n)'
       PROVE  Holds(h, n) \/ (h = HostOf[j] /\ n = name)
  <2>1. CASE hostname[h] = n
    BY <2>1 DEF Holds
  <2>2. CASE \E i \in Of(h)' : ip'[i].hostname = n
    <3>1. PICK i \in Id : ip'[i] # None /\ owner'[ip'[i].eth] = h /\ ip'[i].hostname = n
      BY <2>2 DEF Of, Exists
    <3>2. CASE i = c
      BY <1>4, <1>5, <3>1, <3>2
    <3>3. CASE Exists(i)
      BY <1>7, <3>1, <3>3 DEF Holds, Of
    <3> QED
      BY <1>8, <3>1, <3>2, <3>3
  <2> QED
    BY <1>14, <2>1, <2>2 DEF Holds
<1>15. created' = created + 1 /\ created + 1 \in Id /\ created < created' /\ created <= created'
  BY <1>1, <1>2, <1>3
<1> QED
  BY <1>9, <1>10, <1>11, <1>12, <1>13, <1>14, <1>15

LEMMA AssignNewIpInv ==
  ASSUME IInv, NEW j \in Job, assign_new_ip(j)
  PROVE  IInv'
<1> DEFINE a == "assign_new_ip"
           name == job[j].name
           x == Returned(j, a)
<1>1. /\ Acts(j, a) /\ InsertOnNewEthernet(j, name) /\ job' = [job EXCEPT ![j] = x]
      /\ UNCHANGED <<hostname, counter, useCounter, form, issued, excused, overruled>>
  BY DEF assign_new_ip
<1>2. a \in ActionName /\ a \in NeedsAddress
  BY DEF ActionName, NeedsAddress
<1>3. /\ Active(j) /\ a \in Actions[j] /\ job[j] \in JobState /\ HostOf[j] \in Host
      /\ job[j].address \in Address /\ name \in Name \cup {None}
  BY <1>1, <1>2, ActsIs, Configured, JobFields
<1>4. /\ x \in JobState /\ x.pc = "ready" /\ x.done = job[j].done \cup {a}
      /\ x.row = None /\ x.got = None /\ x.locks = FALSE /\ x.mem = job[j].mem
      /\ x.name = name /\ x.param = job[j].param /\ x.made = job[j].made
      /\ x.served = job[j].served
  BY <1>2, <1>3, ReturnedIs
<1> HIDE DEF x
<1>5. RightJob(j, x)
  <2>1. {a} \subseteq Actions[j] /\ x.pc \in {"ready", "frozen"} /\ Active(j)
    BY <1>3, <1>4
  <2> QED
    BY <1>4, <2>1, ReadyIsRight
<1>6. JobsTyped' /\ JobsAreRight'
  BY <1>1, <1>3, <1>4, <1>5, JobsTo
<1>7. /\ RowsTyped' /\ created <= created'
      /\ \A i \in Id : ip'[i] # None =>
           \/ \E q \in Row : IsCopy(i, q) /\ q.eth = ip'[i].eth
           \/ i <= created' /\ ip'[i].eth \in Host \cup 1..created'
      /\ \A e \in Ether : owner'[e] = owner[e] \/ (e \in Id /\ created < e /\ e <= created')
      /\ \A h \in Host : owner'[h] = owner[h]
      /\ \A k \in Job : Entry(k) => ip'[job[k].made] = ip[job[k].made]
      /\ \A h \in Host, n \in Name : Holds(h, n)' => Holds(h, n) \/ (h = HostOf[j] /\ n = name)
  BY <1>1, <1>3, InsertedOnNewEthernet
<1>8. NamesTyped' /\ FormsTyped'
  BY <1>1, Parts DEF NamesTyped, FormsTyped
<1>9. TypeOK'
  BY <1>6, <1>7, <1>8, TypesTogether
<1>10. KeysAreOld'
  BY <1>1, <1>4, <1>7, <1>9, RowsToByJob
<1>11. EntriesAreSafe'
  BY <1>1, <1>4, <1>7, <1>9, EntriesToByJob
<1>12. NamesAreRight'
  <2>1. \A n \in Name : n \in {job[j].mem, name} => Has(HostOf[j], n)
    BY <1>3 DEF Has, Remembers
  <2>2. \A h \in Host, n \in Name : Holds(h, n)' => Has(h, n)
    BY <1>7, <2>1 DEF Has
  <2>3. \A n \in Name : n \in {x.mem, x.name} => Has(HostOf[j], n)
    BY <1>4, <2>1
  <2> QED
    BY <1>1, <1>4, <1>7, <2>2, <2>3, NamesToByJob
<1> QED
  BY <1>6, <1>9, <1>10, <1>11, <1>12 DEF IInv

LEMMA AssignAdditionalHostnameInv ==
  ASSUME IInv, NEW j \in Job, assign_additional_hostname(j)
  PROVE  IInv'
<1> DEFINE a == "assign_additional_hostname"
           name == job[j].got
           x == Returned(j, a)
<1>1. /\ Acts(j, a) /\ name # None /\ InsertOnNewEthernet(j, name) /\ CommitNumber(j)
      /\ job' = [job EXCEPT ![j] = x]
      /\ UNCHANGED <<hostname, useCounter, form, overruled>>
  BY DEF assign_additional_hostname
<1>2. a \in ActionName /\ a \in NeedsAddress
  BY DEF ActionName, NeedsAddress
<1>3. /\ Active(j) /\ a \in Actions[j] /\ job[j] \in JobState /\ HostOf[j] \in Host
      /\ job[j].address \in Address
  BY <1>1, <1>2, ActsIs, Configured
<1>4. /\ x \in JobState /\ x.pc = "ready" /\ x.done = job[j].done \cup {a}
      /\ x.row = None /\ x.got = None /\ x.locks = FALSE /\ x.mem = job[j].mem
      /\ x.name = job[j].name /\ x.param = job[j].param /\ x.made = job[j].made
      /\ x.served = job[j].served
  BY <1>2, <1>3, ReturnedIs
<1> HIDE DEF x
<1>5. RightJob(j, x)
  <2>1. {a} \subseteq Actions[j] /\ x.pc \in {"ready", "frozen"} /\ Active(j)
    BY <1>3, <1>4
  <2> QED
    BY <1>4, <2>1, ReadyIsRight
<1>6. JobsTyped' /\ JobsAreRight'
  BY <1>1, <1>3, <1>4, <1>5, JobsTo
<1>7. /\ name \in Name /\ excused \subseteq excused'
      /\ \A n \in issued' : n \in issued \/ Gives(j, HostOf[j], n)
      /\ name \notin excused' => Gives(j, HostOf[j], name)
      /\ counter' \in 0..MaxName /\ issued' \subseteq Name /\ excused' \subseteq Name
  BY <1>1, NumberCommitted
<1>8. /\ RowsTyped' /\ created <= created'
      /\ \A i \in Id : ip'[i] # None =>
           \/ \E q \in Row : IsCopy(i, q) /\ q.eth = ip'[i].eth
           \/ i <= created' /\ ip'[i].eth \in Host \cup 1..created'
      /\ \A e \in Ether : owner'[e] = owner[e] \/ (e \in Id /\ created < e /\ e <= created')
      /\ \A h \in Host : owner'[h] = owner[h]
      /\ \A k \in Job : Entry(k) => ip'[job[k].made] = ip[job[k].made]
      /\ \A h \in Host, n \in Name : Holds(h, n)' => Holds(h, n) \/ (h = HostOf[j] /\ n = name)
  BY <1>1, <1>3, <1>7, InsertedOnNewEthernet
<1>9. NamesTyped' /\ FormsTyped'
  BY <1>1, <1>7, Parts DEF NamesTyped, FormsTyped
<1>10. TypeOK'
  BY <1>6, <1>8, <1>9, TypesTogether
<1>11. KeysAreOld'
  BY <1>1, <1>4, <1>8, <1>10, RowsToByJob
<1>12. EntriesAreSafe'
  BY <1>1, <1>4, <1>8, <1>10, EntriesToByJob
<1>13. NamesAreRight'
  <2>1. \A n \in Name : n \in {x.mem, x.name} => Has(HostOf[j], n)
    BY <1>3, <1>4 DEF Has, Remembers
  <2>2. \A h \in Host, n \in Name : Holds(h, n)' /\ Known(n) /\ n \notin excused' =>
          Has(h, n) \/ Gives(j, h, n)
    BY <1>7, <1>8 DEF Has
  <2> QED
    BY <1>1, <1>4, <1>7, <1>8, <2>1, <2>2, NamesToByJob
<1> QED
  BY <1>6, <1>10, <1>11, <1>12, <1>13 DEF IInv

\* A job saves the row it has read, changed in other fields, where the row was.
LEMMA ParamSaved ==
  ASSUME IInv, NEW j \in Job, NEW r \in Row, NEW row \in Row, NEW p \in Id,
         job[j].row = r, job[j].param = p, row.eth = r.eth, row.hostname = r.hostname,
         SaveRow(p, row), UNCHANGED <<created, owner, hostname>>
  PROVE  /\ RowsTyped' /\ created <= created'
         /\ \A i \in Id : ip'[i] # None => \E q \in Row : IsCopy(i, q) /\ q.eth = ip'[i].eth
         /\ \A k \in Job : Entry(k) => ip'[job[k].made] = ip[job[k].made]
         /\ \A h \in Host, n \in Name : Holds(h, n)' => Has(h, n)
<1>1. RowsTyped /\ KeysAreOld /\ created \in 0..MaxId
  BY Parts DEF RowsTyped
<1>2. IsCopy(p, r) /\ p # None
  BY NoneIsElse DEF IsCopy
<1>3. p <= created
  BY <1>1, <1>2 DEF KeysAreOld
<1>5. Fits(p, row) /\ ip' = [ip EXCEPT ![p] = row]
  BY DEF SaveRow
<1>6. created' \in 0..MaxId /\ created <= created' /\ p <= created' /\ owner' = owner
  BY <1>1, <1>3
<1>7. /\ RowsTyped' /\ ip'[p] = row
      /\ \A k \in Id \ {p} : ip'[k] = ip[k]
  BY <1>1, <1>5, <1>6, RowSaved
<1>8. \A i \in Id : Exists(i) => ip[i] \in Row /\ IsCopy(i, ip[i])
  BY <1>1, RowThere DEF IsCopy
<1>9. \A i \in Id : ip'[i] # None => \E q \in Row : IsCopy(i, q) /\ q.eth = ip'[i].eth
  BY <1>2, <1>7, <1>8 DEF Exists
<1>10. ASSUME NEW k \in Job, Entry(k)
       PROVE  ip'[job[k].made] = ip[job[k].made]
  <2>1. job[k].made \in Id /\ EntryIsSafe(k)
    BY <1>10, EntryFacts
  <2>2. job[k].made # p
    BY <2>1 DEF EntryIsSafe
  <2> QED
    BY <1>7, <2>1, <2>2
<1>11. ASSUME NEW h \in Host, NEW n \in Name, Holds(h, n)'
       PROVE  Has(h, n)
  <2>1. CASE hostname[h] = n
    BY <2>1 DEF Has, Holds
  <2>2. CASE \E i \in Of(h)' : ip'[i].hostname = n
    <3>1. PICK i \in Id : ip'[i] # None /\ owner[ip'[i].eth] = h /\ ip'[i].hostname = n
      BY <2>2 DEF Of, Exists
    <3>2. CASE i = p
      <4>1. owner[r.eth] = h /\ r.hostname = n /\ r # None
        BY <1>7, <3>1, <3>2, NoneIsElse
      <4> QED
        BY <4>1 DEF Has, Remembers
    <3>3. CASE i # p
      BY <1>7, <3>1, <3>3 DEF Has, Holds, Of, Exists
    <3> QED
      BY <3>2, <3>3
  <2> QED
    BY <1>11, <2>1, <2>2 DEF Holds
<1> QED
  BY <1>6, <1>7, <1>9, <1>10, <1>11

LEMMA ReplaceIpInv ==
  ASSUME IInv, NEW j \in Job, replace_ip(j)
  PROVE  IInv'
<1> DEFINE a == "replace_ip"
           r == job[j].row
           row == [r EXCEPT !.address = job[j].address]
           x == Returned(j, a)
<1>1. /\ Acts(j, a) /\ SaveRow(job[j].param, row) /\ job' = [job EXCEPT ![j] = x]
      /\ UNCHANGED <<hostname, created, owner, counter, useCounter, form, issued, excused,
                     overruled>>
  BY DEF replace_ip
<1>2. a \in ActionName /\ a \in NeedsAddress /\ a \in NeedsRow
  BY DEF ActionName, NeedsAddress, NeedsRow
<1>3. /\ Active(j) /\ a \in Actions[j] /\ job[j] \in JobState /\ HostOf[j] \in Host
      /\ job[j].address \in Address /\ r \in Row /\ job[j].param \in Id
  BY <1>1, <1>2, ActsIs, Configured
<1>4. row \in Row /\ row.eth = r.eth /\ row.hostname = r.hostname
  BY <1>3 DEF Row
<1> HIDE DEF row
<1>5. /\ x \in JobState /\ x.pc = "ready" /\ x.done = job[j].done \cup {a}
      /\ x.row = None /\ x.got = None /\ x.locks = FALSE /\ x.mem = job[j].mem
      /\ x.name = job[j].name /\ x.param = job[j].param /\ x.made = job[j].made
      /\ x.served = job[j].served
  BY <1>2, <1>3, ReturnedIs
<1> HIDE DEF x
<1>6. RightJob(j, x)
  <2>1. {a} \subseteq Actions[j] /\ x.pc \in {"ready", "frozen"} /\ Active(j)
    BY <1>3, <1>5
  <2> QED
    BY <1>5, <2>1, ReadyIsRight
<1>7. JobsTyped' /\ JobsAreRight'
  BY <1>1, <1>3, <1>5, <1>6, JobsTo
<1>8. /\ RowsTyped' /\ created <= created'
      /\ \A i \in Id : ip'[i] # None => \E q \in Row : IsCopy(i, q) /\ q.eth = ip'[i].eth
      /\ \A k \in Job : Entry(k) => ip'[job[k].made] = ip[job[k].made]
      /\ \A h \in Host, n \in Name : Holds(h, n)' => Has(h, n)
  BY <1>1, <1>3, <1>4, ParamSaved
<1>9. NamesTyped' /\ FormsTyped'
  BY <1>1, Parts DEF NamesTyped, FormsTyped
<1>10. TypeOK'
  BY <1>7, <1>8, <1>9, TypesTogether
<1>11. KeysAreOld'
  BY <1>1, <1>5, <1>8, <1>10, RowsToByJob
<1>12. EntriesAreSafe'
  BY <1>1, <1>5, <1>8, <1>10, EntriesToByJob
<1>13. NamesAreRight'
  <2>1. \A n \in Name : n \in {x.mem, x.name} => Has(HostOf[j], n)
    BY <1>3, <1>5 DEF Has, Remembers
  <2> QED
    BY <1>1, <1>5, <1>8, <2>1, NamesToByJob
<1> QED
  BY <1>7, <1>10, <1>11, <1>12, <1>13 DEF IInv

LEMMA RemoveFromDhcpEntriesInv ==
  ASSUME IInv, NEW j \in Job, remove_from_dhcp_entries(j)
  PROVE  IInv'
<1> DEFINE a == "remove_from_dhcp_entries"
           r == job[j].row
           row == [r EXCEPT !.dhcp_expose = FALSE]
           x == Returned(j, a)
<1>1. /\ Acts(j, a) /\ SaveRow(job[j].param, row) /\ job' = [job EXCEPT ![j] = x]
      /\ UNCHANGED <<hostname, created, owner, counter, useCounter, form, issued, excused,
                     overruled>>
  BY DEF remove_from_dhcp_entries
<1>2. a \in ActionName /\ a \in NeedsRow
  BY DEF ActionName, NeedsRow
<1>3. /\ Active(j) /\ a \in Actions[j] /\ job[j] \in JobState /\ HostOf[j] \in Host
      /\ r \in Row /\ job[j].param \in Id
  BY <1>1, <1>2, ActsIs, Configured
<1>4. row \in Row /\ row.eth = r.eth /\ row.hostname = r.hostname
  BY <1>3 DEF Row
<1> HIDE DEF row
<1>5. /\ x \in JobState /\ x.pc = "ready" /\ x.done = job[j].done \cup {a}
      /\ x.row = None /\ x.got = None /\ x.locks = FALSE /\ x.mem = job[j].mem
      /\ x.name = job[j].name /\ x.param = job[j].param /\ x.made = job[j].made
      /\ x.served = job[j].served
  BY <1>2, <1>3, ReturnedIs
<1> HIDE DEF x
<1>6. RightJob(j, x)
  <2>1. {a} \subseteq Actions[j] /\ x.pc \in {"ready", "frozen"} /\ Active(j)
    BY <1>3, <1>5
  <2> QED
    BY <1>5, <2>1, ReadyIsRight
<1>7. JobsTyped' /\ JobsAreRight'
  BY <1>1, <1>3, <1>5, <1>6, JobsTo
<1>8. /\ RowsTyped' /\ created <= created'
      /\ \A i \in Id : ip'[i] # None => \E q \in Row : IsCopy(i, q) /\ q.eth = ip'[i].eth
      /\ \A k \in Job : Entry(k) => ip'[job[k].made] = ip[job[k].made]
      /\ \A h \in Host, n \in Name : Holds(h, n)' => Has(h, n)
  BY <1>1, <1>3, <1>4, ParamSaved
<1>9. NamesTyped' /\ FormsTyped'
  BY <1>1, Parts DEF NamesTyped, FormsTyped
<1>10. TypeOK'
  BY <1>7, <1>8, <1>9, TypesTogether
<1>11. KeysAreOld'
  BY <1>1, <1>5, <1>8, <1>10, RowsToByJob
<1>12. EntriesAreSafe'
  BY <1>1, <1>5, <1>8, <1>10, EntriesToByJob
<1>13. NamesAreRight'
  <2>1. \A n \in Name : n \in {x.mem, x.name} => Has(HostOf[j], n)
    BY <1>3, <1>5 DEF Has, Remembers
  <2> QED
    BY <1>1, <1>5, <1>8, <2>1, NamesToByJob
<1> QED
  BY <1>7, <1>10, <1>11, <1>12, <1>13 DEF IInv

\* A row is inserted on an Ethernet there is.
LEMMA RowInserted ==
  ASSUME IInv, NEW row \in Row, Insert(row), owner' = owner
  PROVE  /\ RowsTyped' /\ created <= created' /\ created' = created + 1
         /\ created + 1 \in Id /\ ip'[created + 1] = row
         /\ \A i \in Id : ip'[i] # None =>
              \/ \E q \in Row : IsCopy(i, q) /\ q.eth = ip'[i].eth
              \/ i <= created' /\ ip'[i].eth \in Host \cup 1..created'
         /\ \A k \in Job : Entry(k) => ip'[job[k].made] = ip[job[k].made]
         /\ hostname' = hostname =>
              \A h \in Host, n \in Name :
                Holds(h, n)' => Holds(h, n) \/ (h = owner[row.eth] /\ n = row.hostname)
<1> DEFINE c == created + 1
<1>1. /\ created < MaxId /\ created' = c /\ Fits(c, row) /\ ip' = [ip EXCEPT ![c] = row]
  BY DEF Insert
<1>2. created \in Nat /\ MaxId \in Nat /\ RowsTyped /\ KeysAreOld
  BY Parts, Configured
<1>3. /\ c \in Id /\ created < c /\ c <= created' /\ created <= created'
      /\ created' \in 0..MaxId
  BY <1>1, <1>2 DEF Id
<1>4. /\ RowsTyped' /\ ip'[c] = row
      /\ \A k \in Id \ {c} : ip'[k] = ip[k]
  BY <1>1, <1>2, <1>3, RowSaved
<1>5. \A i \in Id : Exists(i) => i # c /\ ip[i] \in Row /\ IsCopy(i, ip[i])
  <2> SUFFICES ASSUME NEW i \in Id, Exists(i)
               PROVE  i # c /\ ip[i] \in Row /\ IsCopy(i, ip[i])
    OBVIOUS
  <2>1. ip[i] \in Row /\ i <= created /\ i \in Nat
    BY <1>2, RowThere, NoneIsElse
  <2> QED
    BY <1>2, <2>1 DEF IsCopy
<1>6. row.eth \in Host \cup 1..created'
  <2>1. row.eth \in Ether /\ owner[row.eth] # None
    BY <1>1, RowFields DEF Fits
  <2>2. CASE row.eth \in Host
    BY <2>2
  <2>3. CASE row.eth \in Id
    <3>1. ~ (row.eth > created) /\ row.eth \in Nat \ {0}
      BY <1>2, <2>1, <2>3, NoneIsElse DEF KeysAreOld
    <3> QED
      BY <1>1, <1>2, <3>1
  <2> QED
    BY <2>1, <2>2, <2>3 DEF Ether
<1> HIDE DEF c
<1>7. \A i \in Id : ip'[i] # None =>
        \/ \E q \in Row : IsCopy(i, q) /\ q.eth = ip'[i].eth
        \/ i <= created' /\ ip'[i].eth \in Host \cup 1..created'
  BY <1>3, <1>4, <1>5, <1>6 DEF Exists
<1>8. \A k \in Job : Entry(k) => ip'[job[k].made] = ip[job[k].made]
  BY <1>4, <1>5, EntryFacts
<1>9. ASSUME hostname' = hostname, NEW h \in Host, NEW n \in Name, Holds(h, n)'
      PROVE  Holds(h, n) \/ (h = owner[row.eth] /\ n = row.hostname)
  <2>1. CASE hostname[h] = n
    BY <2>1 DEF Holds
  <2>2. CASE \E i \in Of(h)' : ip'[i].hostname = n
    <3>1. PICK i \in Id : ip'[i] # None /\ owner[ip'[i].eth] = h /\ ip'[i].hostname = n
      BY <2>2 DEF Of, Exists
    <3>2. CASE i = c
      BY <1>4, <3>1, <3>2
    <3>3. CASE i # c
      BY <1>4, <3>1, <3>3 DEF Holds, Of, Exists
    <3> QED
      BY <3>2, <3>3
  <2> QED
    BY <1>9, <2>1, <2>2 DEF Holds
<1>10. created' = created + 1 /\ created + 1 \in Id /\ ip'[created + 1] = row
  BY <1>1, <1>3, <1>4 DEF c
<1> QED
  BY <1>3, <1>4, <1>7, <1>8, <1>9, <1>10

\* No form and no job knows the entry yet.
LEMMA CreateDhcpEntriesInv ==
  ASSUME IInv, NEW j \in Job, create_dhcp_entries(j)
  PROVE  IInv'
<1> DEFINE a == "create_dhcp_entries"
           name == job[j].mem
           c == created + 1
           row == [address |-> job[j].address, eth |-> HostOf[j], hostname |-> name,
                   dhcp_expose |-> TRUE, is_management |-> FALSE]
           y == Returned(j, a)
           x == [y EXCEPT !.made = c, !.served = name]
<1>1. /\ Acts(j, a) /\ Insert(row) /\ job' = [job EXCEPT ![j] = x]
      /\ UNCHANGED <<hostname, owner, counter, useCounter, form, issued, excused, overruled>>
  BY DEF create_dhcp_entries
<1>2. a \in ActionName /\ a \in NeedsAddress
  BY DEF ActionName, NeedsAddress
<1>3. /\ Active(j) /\ a \in Actions[j] /\ job[j] \in JobState /\ HostOf[j] \in Host
      /\ job[j].address \in Address /\ name \in Name \cup {None} /\ HostOf[j] \in Ether
      /\ run_after[a] \cap Actions[j] \subseteq job[j].done
  BY <1>1, <1>2, ActsIs, Configured, JobFields DEF Ether
<1>4. {"clean_ipaddresses", "clean_dhcp"} \cap Actions[j] \subseteq job[j].done
  BY <1>3 DEF run_after
<1>5. row \in Row
  BY <1>3, RowOf
<1>6. /\ row.eth = HostOf[j] /\ row.hostname = name /\ row.dhcp_expose /\ row # None
  BY <1>5, NoneIsElse
<1> HIDE DEF row
<1>7. /\ RowsTyped' /\ created <= created' /\ created' = c /\ c \in Id /\ ip'[c] = row
      /\ \A i \in Id : ip'[i] # None =>
           \/ \E q \in Row : IsCopy(i, q) /\ q.eth = ip'[i].eth
           \/ i <= created' /\ ip'[i].eth \in Host \cup 1..created'
      /\ \A k \in Job : Entry(k) => ip'[job[k].made] = ip[job[k].made]
      /\ \A h \in Host, n \in Name :
           Holds(h, n)' => Holds(h, n) \/ (h = owner[row.eth] /\ n = row.hostname)
  BY <1>1, <1>5, RowInserted
<1>8. /\ y \in JobState /\ y.pc = "ready" /\ y.done = job[j].done \cup {a}
      /\ y.row = None /\ y.got = None /\ y.locks = FALSE /\ y.mem = job[j].mem
      /\ y.name = job[j].name /\ y.param = job[j].param
  BY <1>2, <1>3, ReturnedIs
<1> HIDE DEF y
<1>9. /\ c # None /\ created \in Nat /\ \A i \in Id : i <= created => i # c
  BY <1>7, Parts, NoneIsElse
<1> HIDE DEF c
<1>10. /\ x \in JobState /\ x.pc = "ready" /\ x.done = job[j].done \cup {a}
       /\ x.row = None /\ x.got = None /\ x.locks = FALSE /\ x.mem = name
       /\ x.name = job[j].name /\ x.param = job[j].param /\ x.made = c /\ x.served = name
  BY <1>3, <1>7, <1>8 DEF JobState
<1> HIDE DEF x
<1>11. RightJob(j, x)
  <2>1. {a} \subseteq Actions[j] /\ x.pc \in {"ready", "frozen"} /\ Active(j)
    BY <1>3, <1>10
  <2> QED
    BY <1>4, <1>10, <2>1, ReadyIsRight
<1>12. JobsTyped' /\ JobsAreRight'
  BY <1>1, <1>3, <1>10, <1>11, JobsTo
<1>13. NamesTyped' /\ FormsTyped'
  BY <1>1, Parts DEF NamesTyped, FormsTyped
<1>14. TypeOK'
  BY <1>7, <1>12, <1>13, TypesTogether
<1>15. KeysAreOld'
  BY <1>1, <1>7, <1>10, <1>14, RowsToByJob
<1>16. EntryIsSafe(j)'
  <2>1. /\ job'[j].made = c /\ job'[j].served = name
        /\ \A k \in Job : job'[k].param = job[k].param
    BY <1>1, <1>10, Parts
  <2>2. /\ KeysAreOld /\ form \in [Form -> FormState] /\ job \in [Job -> JobState]
    BY Parts
  <2>3. ASSUME NEW u \in Form
        PROVE  form[u].pc \in {"save", "delete"} => form[u].id # c
    <3>1. CASE form[u].pc = "save" /\ form[u].id = c
      <4>1. form[u].row \in Row
        BY <2>2, <3>1, FormFields DEF KeysAreOld
      <4>2. IsCopy(c, form[u].row)
        BY <3>1 DEF IsCopy
      <4> QED
        BY <1>7, <1>9, <2>2, <4>1, <4>2 DEF KeysAreOld
    <3>2. CASE form[u].pc = "delete" /\ form[u].id = c
      BY <1>9, <2>2, <3>2 DEF KeysAreOld
    <3> QED
      BY <3>1, <3>2
  <2>4. \A k \in Job : job[k].param # c
    BY <1>7, <1>9, <2>2 DEF KeysAreOld
  <2>5. /\ c <= created' /\ ip'[c] # None /\ ip'[c].dhcp_expose
        /\ ip'[c].eth = HostOf[j] /\ ip'[c].hostname = name
    BY <1>6, <1>7, NoneIsElse
  <2>6. form' = form
    BY <1>1
  <2> QED
    BY <2>1, <2>3, <2>4, <2>5, <2>6 DEF EntryIsSafe, Exists
<1>17. EntriesAreSafe'
  <2>1. \A h \in Host : owner'[h] \in {owner[h], None}
    BY <1>1
  <2> QED
    BY <1>1, <1>7, <1>10, <1>14, <1>16, <2>1, EntriesToByJob
<1>18. NamesAreRight'
  <2>1. \A n \in Name : n \in {x.mem, x.name} => Has(HostOf[j], n)
    BY <1>3, <1>10 DEF Has, Remembers
  <2>2. owner[row.eth] \in {HostOf[j], None}
    BY <1>3, <1>6, Parts DEF RowsTyped
  <2>3. \A h \in Host, n \in Name : Holds(h, n)' => Has(h, n)
    BY <1>6, <1>7, <1>10, <2>1, <2>2, NoneIsElse DEF Has
  <2> QED
    BY <1>1, <1>10, <2>1, <2>3, NamesToByJob
<1> QED
  BY <1>12, <1>14, <1>15, <1>17, <1>18 DEF IInv

-----------------------------------------------------------------------------
(* Steps of users *)

\* A request of a user changes no job, no entry, and gives nobody a name that is known.
LEMMA FormTo ==
  ASSUME IInv, NEW u \in Form, NEW z \in FormState, form' = [form EXCEPT ![u] = z],
         UNCHANGED <<job, issued>>, RowsTyped', NamesTyped', created <= created',
         \A i \in Id : ip'[i] # None =>
           \/ \E q \in Row : IsCopy(i, q) /\ q.eth = ip'[i].eth
           \/ i <= created' /\ ip'[i].eth \in Host \cup 1..created',
         \A e \in Ether : owner'[e] \in {owner[e], None},
         overruled \subseteq overruled',
         z.pc = "switch" => z.number # None,
         z.pc = "save" =>
           /\ z.row # None
           /\ z.id # None =>
                z.id \in Id /\ z.id <= created /\ z.row.eth \in Host \cup 1..created,
         z.pc = "delete" => z.id \in Id /\ z.id <= created,
         z.pc = "delete_ethernet" => z.id \in Ether,
         \A k \in Job : Entry(k) /\ owner'[HostOf[k]] # None =>
           LET i == job[k].made
           IN /\ ip'[i] # None /\ ip'[i].dhcp_expose /\ ip'[i].eth = ip[i].eth
              /\ ip'[i].hostname = ip[i].hostname,
         \A i \in Id : Exists(i) /\ ip[i].dhcp_expose /\ i \notin overruled' =>
           /\ z.pc = "save" /\ z.id = i => SameEntry(z.row, ip[i])
           /\ ~ (z.pc = "delete" /\ z.id = i),
         excused \subseteq excused',
         \A h \in Host, n \in Name : Holds(h, n)' /\ Known(n) /\ n \notin excused' => Holds(h, n)
  PROVE  IInv'
<1>1. /\ form \in [Form -> FormState] /\ form'[u] = z /\ KeysAreOld /\ JobsAreRight
      /\ \A v \in Form \ {u} : form'[v] = form[v]
      /\ job \in [Job -> JobState] /\ JobsTyped
  BY Parts
<1>2. FormsTyped' /\ JobsTyped' /\ JobsAreRight'
  <2>1. FormsTyped'
    BY <1>1 DEF FormsTyped
  <2>2. JobsTyped'
    BY <1>1 DEF JobsTyped
  <2>3. JobsAreRight'
    BY <1>1 DEF JobsAreRight, Active
  <2> QED
    BY <2>1, <2>2, <2>3
<1>3. TypeOK'
  BY <1>2, TypesTogether
<1>4. KeysAreOld'
  <2>1. \A k \in Job : job'[k].row # None /\ job'[k].param # None =>
           \E q \in Row : IsCopy(job'[k].param, q) /\ q.eth = job'[k].row.eth
    BY <1>1, JobFields DEF IsCopy
  <2>2. \A k \in Job : job'[k].param # None => job'[k].param = job[k].param
    OBVIOUS
  <2>3. \A v \in Form : /\ form'[v].pc = "save" => form'[v].row # None
                        /\ form'[v].pc = "switch" => form'[v].number # None
    BY <1>1 DEF KeysAreOld
  <2>4. \A v \in Form : form[v].pc = "save" /\ form[v].id # None =>
           /\ form[v].id \in Id
           /\ \E q \in Row : IsCopy(form[v].id, q) /\ q.eth = form[v].row.eth
    BY <1>1, FormFields DEF KeysAreOld, IsCopy
  <2>5. \A v \in Form : form'[v].pc = "save" /\ form'[v].id # None =>
           /\ form'[v].id \in Id
           /\ \/ \E q \in Row : IsCopy(form'[v].id, q) /\ q.eth = form'[v].row.eth
              \/ form'[v].id <= created /\ form'[v].row.eth \in Host \cup 1..created
    BY <1>1, <2>4
  <2>6. /\ \A v \in Form : form'[v].pc = "delete" => form'[v].id \in Id /\ form'[v].id <= created
        /\ \A v \in Form : form'[v].pc = "delete_ethernet" => form'[v].id \in Ether
    BY <1>1 DEF KeysAreOld
  <2> QED
    BY <1>3, <2>1, <2>2, <2>3, <2>5, <2>6, RowsTo
<1>5. EntriesAreSafe'
  <2>1. \A h \in Host : owner'[h] \in {owner[h], None}
    BY DEF Ether
  <2>2. \A k \in Job : job'[k].made # None /\ owner'[HostOf[k]] # None =>
           \/ job'[k].made = job[k].made /\ job'[k].served = job[k].served
           \/ EntryIsSafe(k)'
    OBVIOUS
  <2>3. \A v \in Form, i \in Id : Exists(i) /\ ip[i].dhcp_expose /\ i \notin overruled' =>
           /\ form'[v].pc = "save" /\ form'[v].id = i =>
                form'[v] = form[v] \/ SameEntry(form'[v].row, ip[i])
           /\ form'[v].pc = "delete" /\ form'[v].id = i => form'[v] = form[v]
    BY <1>1
  <2>4. \A k, l \in Job : Entry(l) =>
           job'[k].param \in {job[k].param, None} \/ job'[k].param # job[l].made
    OBVIOUS
  <2> QED
    BY <1>3, <2>1, <2>2, <2>3, <2>4, EntriesTo
<1>6. NamesAreRight'
  <2>1. \A h \in Host, n \in Name : Has(h, n)' /\ Known(n) /\ n \notin excused' =>
          Has(h, n) \/ \E k \in Job : Gives(k, h, n) /\ ~ job'[k].locks
    BY RememberedBefore DEF Has
  <2>2. \A k \in Job : job'[k].locks => job[k].locks /\ job'[k].got = job[k].got
    OBVIOUS
  <2>3. \A n \in issued' : n \in issued \/ \E k \in Job : Gives(k, HostOf[k], n) /\ ~ job'[k].locks
    OBVIOUS
  <2> QED
    BY <2>1, <2>2, <2>3, NamesTo
<1> QED
  BY <1>2, <1>3, <1>4, <1>5, <1>6 DEF IInv

\* A request that writes no row and no name.
LEMMA FormReads ==
  ASSUME IInv, NEW u \in Form, NEW z \in FormState, form' = [form EXCEPT ![u] = z],
         UNCHANGED <<hostname, ip, created, owner, job, issued, excused>>, NamesTyped',
         overruled \subseteq overruled',
         z.pc = "switch" => z.number # None,
         z.pc = "save" =>
           /\ z.row # None
           /\ z.id # None =>
                /\ z.id \in Id /\ Exists(z.id) /\ z.row.eth \in Ether /\ owner[z.row.eth] # None
                /\ ip[z.id].dhcp_expose /\ z.id \notin overruled' => SameEntry(z.row, ip[z.id]),
         z.pc = "delete" =>
           /\ z.id \in Id /\ Exists(z.id)
           /\ ip[z.id].dhcp_expose => z.id \in overruled',
         z.pc = "delete_ethernet" => z.id \in Ether
  PROVE  IInv'
<1>1. RowsTyped /\ KeysAreOld /\ created \in Nat
  BY Parts
<1>2. RowsTyped' /\ created <= created'
  BY <1>1 DEF RowsTyped, Exists
<1>3. \A i \in Id : Exists(i) => ip[i] \in Row /\ IsCopy(i, ip[i]) /\ i <= created
  BY <1>1, RowThere DEF IsCopy
<1>4. \A i \in Id : ip'[i] # None =>
        \/ \E q \in Row : IsCopy(i, q) /\ q.eth = ip'[i].eth
        \/ i <= created' /\ ip'[i].eth \in Host \cup 1..created'
  BY <1>3 DEF Exists
<1>5. \A e \in Ether : owner[e] # None => e \in Host \cup 1..created
  <2> SUFFICES ASSUME NEW e \in Id, owner[e] # None
               PROVE  e \in 1..created
    BY NoneIsElse
  <2>1. ~ (e > created) /\ e \in Nat \ {0}
    BY <1>1, NoneIsElse DEF KeysAreOld
  <2> QED
    BY <1>1, <2>1
<1>6. z.pc = "save" =>
        /\ z.row # None
        /\ z.id # None =>
             z.id \in Id /\ z.id <= created /\ z.row.eth \in Host \cup 1..created
  BY <1>3, <1>5
<1>7. z.pc = "delete" => z.id \in Id /\ z.id <= created
  BY <1>3
<1>8. \A k \in Job : Entry(k) /\ owner'[HostOf[k]] # None =>
        LET i == job[k].made
        IN /\ ip'[i] # None /\ ip'[i].dhcp_expose /\ ip'[i].eth = ip[i].eth
           /\ ip'[i].hostname = ip[i].hostname
  BY EntryFacts DEF Exists
<1>9. \A i \in Id : Exists(i) /\ ip[i].dhcp_expose /\ i \notin overruled' =>
        /\ z.pc = "save" /\ z.id = i => SameEntry(z.row, ip[i])
        /\ ~ (z.pc = "delete" /\ z.id = i)
  BY NoneIsElse
<1>10. \A h \in Host, n \in Name : Holds(h, n)' => Holds(h, n)
  BY DEF Holds, Of, Exists
<1>11. \A e \in Ether : owner'[e] \in {owner[e], None}
  OBVIOUS
<1> QED
  BY <1>2, <1>4, <1>6, <1>7, <1>8, <1>9, <1>10, <1>11, FormTo

LEMMA RowOnIs ==
  ASSUME NEW e, RowOn(e) # None
  PROVE  RowOn(e) \in Id /\ Exists(RowOn(e)) /\ ip[RowOn(e)].eth = e
  BY DEF RowOn

\* A row a user sends is a row.
LEMMA SentIs ==
  ASSUME IInv, NEW i \in Id \cup {None}, i # None => Exists(i), NEW E \in SUBSET Ether,
         NEW r \in Sent(i, E)
  PROVE  r \in Row /\ r.eth \in E
<1>1. i # None => ip[i].hostname \in Name \cup {None}
  BY Parts, RowThere, NoneIsElse
<1>2. /\ r.address \in Address /\ r.eth \in E /\ r.dhcp_expose \in BOOLEAN
      /\ r.is_management \in BOOLEAN
      /\ r.hostname \in Typed \cup {None, IF i = None THEN None ELSE ip[i].hostname}
      /\ r = [address |-> r.address, eth |-> r.eth, hostname |-> r.hostname,
              dhcp_expose |-> r.dhcp_expose, is_management |-> r.is_management]
  BY DEF Sent
<1>3. r.hostname \in Name \cup {None}
  BY <1>1, <1>2, Configured
<1> QED
  BY <1>2, <1>3, RowOf

\* A request that has read: what it is about, and the rest as it was.
LEMMA FormDeletes ==
  ASSUME NEW x \in FormState, NEW i \in Ether, NEW pc \in {"delete", "delete_ethernet"}
  PROVE  /\ [x EXCEPT !.pc = pc, !.id = i] \in FormState
         /\ [x EXCEPT !.pc = pc, !.id = i].pc = pc
         /\ [x EXCEPT !.pc = pc, !.id = i].id = i
  BY DEF FormState

LEMMA FormSwitches ==
  ASSUME NEW x \in FormState, NEW n \in 0..MaxName
  PROVE  /\ [x EXCEPT !.pc = "switch", !.number = n] \in FormState
         /\ [x EXCEPT !.pc = "switch", !.number = n].pc = "switch"
         /\ [x EXCEPT !.pc = "switch", !.number = n].number = n
  BY DEF FormState

\* An exposed row keeps all but is_management in the form.
LEMMA ReadFormInv ==
  ASSUME IInv, NEW u \in Form, ReadForm(u)
  PROVE  IInv'
<1>0. form[u] \in FormState
  BY Parts
<1>1. PICK e \in Ether :
        LET i == RowOn(e)
        IN /\ owner[e] # None
           /\ \E new \in {Cleaned(i, row) : row \in Sent(i, {e})} :
                /\ Valid(i, new)
                /\ form' = [form EXCEPT ![u] = [form[u] EXCEPT !.pc = "save", !.id = i,
                                                              !.row = new]]
  BY <1>0, Parts DEF ReadForm
<1> DEFINE i == RowOn(e)
<1>2. PICK row \in Sent(i, {e}) :
        form' = [form EXCEPT ![u] = [form[u] EXCEPT !.pc = "save", !.id = i,
                                                    !.row = Cleaned(i, row)]]
  BY <1>1
<1>3. i # None => i \in Id /\ Exists(i) /\ ip[i].eth = e /\ ip[i] \in Row
  BY RowOnIs, Parts, RowThere
<1> HIDE DEF i
<1>4. row \in Row /\ row.eth = e
  BY <1>3, SentIs
<1> DEFINE new == Cleaned(i, row)
<1>5. /\ new \in Row /\ new.eth = e /\ new # None
      /\ i # None => (ip[i].dhcp_expose => SameEntry(new, ip[i]))
  <2>1. CASE i # None /\ ip[i].dhcp_expose
    <3>1. new = [ip[i] EXCEPT !.is_management = row.is_management]
      BY <1>3, <2>1, NoneIsElse DEF Cleaned, Locks, OldRow
    <3>2. /\ new \in Row /\ new.eth = ip[i].eth /\ new.hostname = ip[i].hostname
          /\ new.dhcp_expose = ip[i].dhcp_expose
      BY <1>3, <1>4, <2>1, <3>1 DEF Row
    <3> QED
      BY <1>3, <2>1, <3>2, NoneIsElse DEF SameEntry
  <2>2. CASE ~ (i # None /\ ip[i].dhcp_expose)
    <3>1. new = row
      BY <2>2 DEF Cleaned, Locks, OldRow
    <3> QED
      BY <1>4, <2>2, <3>1, NoneIsElse
  <2> QED
    BY <2>1, <2>2
<1> HIDE DEF new
<1> DEFINE z == [form[u] EXCEPT !.pc = "save", !.id = i, !.row = new]
<1>6. z \in FormState /\ z.pc = "save" /\ z.id = i /\ z.row = new
  <2>1. i \in Ether \cup {None} /\ new \in Row \cup {None}
    BY <1>3, <1>5 DEF Ether
  <2>2. z \in FormState
    BY <1>0, <2>1 DEF FormState
  <2>3. z.pc = "save" /\ z.id = i
    BY <1>0 DEF FormState
  <2>4. z.row = new
    BY <1>0 DEF FormState
  <2> QED
    BY <2>2, <2>3, <2>4
<1>7. form' = [form EXCEPT ![u] = z]
  BY <1>2 DEF new
<1> HIDE DEF z
<1>8. UNCHANGED <<hostname, ip, created, owner, counter, useCounter, job, issued, excused,
                  overruled>>
  BY DEF ReadForm
<1>9. NamesTyped'
  BY <1>8, Parts DEF NamesTyped
<1> QED
  BY <1>1, <1>3, <1>5, <1>6, <1>7, <1>8, <1>9, FormReads

\* An exposed row keeps its hostname and Ethernet, or an administrator takes it out.
LEMMA ReadAddressInv ==
  ASSUME IInv, NEW u \in Form, NEW admin \in BOOLEAN, ReadAddress(u, admin)
  PROVE  IInv'
<1> DEFINE T == {e \in Ether : owner[e] # None}
<1>0. form[u] \in FormState
  BY Parts
<1>1. PICK i \in {None} \cup {k \in Id : Exists(k)} :
        \E new \in Sent(i, T) :
          /\ Clean(i, new) /\ (Overrules(i, new) => admin)
          /\ form' = [form EXCEPT ![u] = [form[u] EXCEPT !.pc = "save", !.id = i, !.row = new]]
          /\ overruled' = IF Overrules(i, new) THEN overruled \cup {i} ELSE overruled
  BY <1>0, Parts DEF ReadAddress
<1>2. PICK new \in Sent(i, T) :
        /\ Clean(i, new)
        /\ form' = [form EXCEPT ![u] = [form[u] EXCEPT !.pc = "save", !.id = i, !.row = new]]
        /\ overruled' = IF Overrules(i, new) THEN overruled \cup {i} ELSE overruled
  BY <1>1
<1>3. i # None => i \in Id /\ Exists(i)
  BY <1>1
<1>4. new \in Row /\ new.eth \in Ether /\ owner[new.eth] # None /\ new # None
  <2>1. T \in SUBSET Ether /\ i \in Id \cup {None}
    BY <1>1
  <2>2. new \in Row /\ new.eth \in T
    BY <1>3, <2>1, SentIs
  <2> QED
    BY <2>2, NoneIsElse
<1>5. /\ overruled \subseteq overruled' /\ overruled' \subseteq Id
      /\ i # None => (ip[i].dhcp_expose /\ i \notin overruled' => SameEntry(new, ip[i]))
  <2>1. overruled \subseteq Id
    BY Parts DEF NamesTyped
  <2>2. Overrules(i, new) => i \in Id
    BY <1>3 DEF Overrules, Locks, OldRow
  <2>3. ASSUME i # None, ip[i].dhcp_expose, i \notin overruled'
        PROVE  SameEntry(new, ip[i])
    BY <1>2, <1>3, <2>3 DEF Overrules, Clean, Locks, OldRow, SameEntry, Exists
  <2> QED
    BY <1>2, <2>1, <2>2, <2>3
<1> DEFINE z == [form[u] EXCEPT !.pc = "save", !.id = i, !.row = new]
<1>6. z \in FormState /\ z.pc = "save" /\ z.id = i /\ z.row = new
  <2>1. i \in Ether \cup {None} /\ new \in Row \cup {None}
    BY <1>3, <1>4 DEF Ether
  <2>2. z \in FormState
    BY <1>0, <2>1 DEF FormState
  <2>3. z.pc = "save" /\ z.id = i
    BY <1>0 DEF FormState
  <2>4. z.row = new
    BY <1>0 DEF FormState
  <2> QED
    BY <2>2, <2>3, <2>4
<1>7. form' = [form EXCEPT ![u] = z]
  BY <1>2
<1> HIDE DEF z
<1>8. UNCHANGED <<hostname, ip, created, owner, counter, useCounter, job, issued, excused>>
  BY DEF ReadAddress
<1>9. NamesTyped'
  BY <1>5, <1>8, Parts DEF NamesTyped
<1> QED
  BY <1>3, <1>4, <1>5, <1>6, <1>7, <1>8, <1>9, FormReads

LEMMA ReadToDeleteInv ==
  ASSUME IInv, NEW u \in Form, NEW admin \in BOOLEAN, ReadToDelete(u, admin)
  PROVE  IInv'
<1>1. /\ UNCHANGED <<hostname, ip, created, owner, counter, useCounter, job, issued, excused>>
      /\ form[u] \in FormState
  BY Parts DEF ReadToDelete
<1>2. CASE \E i \in Id :
             /\ Exists(i)
             /\ form' = [form EXCEPT ![u] = [form[u] EXCEPT !.pc = "delete", !.id = i]]
             /\ overruled' = IF ip[i].dhcp_expose THEN overruled \cup {i} ELSE overruled
  <2>1. PICK i \in Id :
             /\ Exists(i)
             /\ form' = [form EXCEPT ![u] = [form[u] EXCEPT !.pc = "delete", !.id = i]]
             /\ overruled' = IF ip[i].dhcp_expose THEN overruled \cup {i} ELSE overruled
    BY <1>2
  <2> DEFINE z == [form[u] EXCEPT !.pc = "delete", !.id = i]
  <2>2. z \in FormState /\ z.pc = "delete" /\ z.id = i
    BY <1>1, FormDeletes DEF Ether
  <2>3. form' = [form EXCEPT ![u] = z]
    BY <2>1
  <2> HIDE DEF z
  <2>4. /\ overruled \subseteq overruled' /\ (ip[i].dhcp_expose => i \in overruled')
        /\ NamesTyped'
    BY <1>1, <2>1, Parts DEF NamesTyped
  <2> QED
    BY <1>1, <2>1, <2>2, <2>3, <2>4, FormReads
<1>3. CASE /\ \E e \in Ether :
                form' = [form EXCEPT ![u] = [form[u] EXCEPT !.pc = "delete_ethernet", !.id = e]]
           /\ UNCHANGED overruled
  <2>1. PICK e \in Ether :
          form' = [form EXCEPT ![u] = [form[u] EXCEPT !.pc = "delete_ethernet", !.id = e]]
    BY <1>3
  <2> DEFINE z == [form[u] EXCEPT !.pc = "delete_ethernet", !.id = e]
  <2>2. z \in FormState /\ z.pc = "delete_ethernet" /\ z.id = e
    BY <1>1, FormDeletes
  <2>3. form' = [form EXCEPT ![u] = z]
    BY <2>1
  <2> HIDE DEF z
  <2>4. NamesTyped'
    BY <1>1, <1>3, Parts DEF NamesTyped
  <2> QED
    BY <1>1, <1>3, <2>2, <2>3, <2>4, FormReads
<1> QED
  BY <1>1, <1>2, <1>3 DEF ReadToDelete

LEMMA RejectFormInv ==
  ASSUME IInv, NEW u \in Form, RejectForm(u)
  PROVE  IInv'
<1>1. /\ form' = [form EXCEPT ![u] = Answered]
      /\ UNCHANGED <<hostname, ip, created, owner, counter, useCounter, job, issued, excused,
                     overruled>>
  BY DEF RejectForm
<1>2. Answered \in FormState /\ Answered.pc = "done"
  BY NewAndEnded
<1>3. NamesTyped'
  BY <1>1, Parts DEF NamesTyped
<1> QED
  BY <1>1, <1>2, <1>3, FormReads

\* The counter is switched off and on again, with the number read before.
LEMMA StopCounterInv ==
  ASSUME IInv, NEW u \in Form, StopCounter(u)
  PROVE  IInv'
<1>1. /\ form' = [form EXCEPT ![u] = Answered] /\ useCounter' = FALSE
      /\ UNCHANGED <<hostname, ip, created, owner, counter, job, issued, excused, overruled>>
  BY DEF StopCounter
<1>2. Answered \in FormState /\ Answered.pc = "done"
  BY NewAndEnded
<1>3. NamesTyped'
  BY <1>1, Parts DEF NamesTyped
<1> QED
  BY <1>1, <1>2, <1>3, FormReads

LEMMA AskNumberInv ==
  ASSUME IInv, NEW u \in Form, AskNumber(u)
  PROVE  IInv'
<1> DEFINE n == current_counter_without_model
           z == [form[u] EXCEPT !.pc = "switch", !.number = n]
<1>1. /\ form' = [form EXCEPT ![u] = z] /\ form[u] \in FormState
      /\ UNCHANGED <<hostname, ip, created, owner, counter, useCounter, job, issued, excused,
                     overruled>>
  BY Parts DEF AskNumber
<1>2. n \in 0..MaxName /\ n # None
  BY Parts, CounterIsNat, NoneIsElse
<1> HIDE DEF n
<1>3. z \in FormState /\ z.pc = "switch" /\ z.number = n
  BY <1>1, <1>2, FormSwitches
<1> HIDE DEF z
<1>4. NamesTyped'
  BY <1>1, Parts DEF NamesTyped
<1> QED
  BY <1>1, <1>2, <1>3, <1>4, FormReads

LEMMA SwitchCounterInv ==
  ASSUME IInv, NEW u \in Form, SwitchCounter(u)
  PROVE  IInv'
<1>1. /\ form' = [form EXCEPT ![u] = Answered] /\ counter' = form[u].number
      /\ useCounter' = TRUE /\ form[u].pc = "switch"
      /\ UNCHANGED <<hostname, ip, created, owner, job, issued, excused, overruled>>
  BY DEF SwitchCounter
<1>2. Answered \in FormState /\ Answered.pc = "done"
  BY NewAndEnded
<1>3. counter' \in 0..MaxName
  BY <1>1, Parts, FormFields DEF KeysAreOld
<1>4. NamesTyped'
  BY <1>1, <1>3, Parts DEF NamesTyped
<1> QED
  BY <1>1, <1>2, <1>4, FormReads

\* What is exposed was sent as it is; a name somebody has got is excused when it is typed.
LEMMA SaveFormInv ==
  ASSUME IInv, NEW u \in Form, SaveForm(u)
  PROVE  IInv'
<1> DEFINE i == form[u].id
           row == form[u].row
           z == Answered
<1>1. /\ form[u].pc = "save" /\ form' = [form EXCEPT ![u] = z]
      /\ IF i = None THEN Insert(row) ELSE SaveRow(i, row) /\ UNCHANGED created
      /\ ExcuseTyped(row.hostname)
      /\ UNCHANGED <<hostname, owner, counter, useCounter, job, issued, overruled>>
  BY DEF SaveForm
<1>2. z \in FormState /\ z.pc = "done"
  BY NewAndEnded
<1> HIDE DEF z
<1>3. /\ form[u] \in FormState /\ KeysAreOld /\ RowsTyped /\ created \in 0..MaxId
  BY Parts DEF RowsTyped
<1>4. row \in Row /\ (i # None => i \in Id)
  BY <1>1, <1>3, FormFields DEF KeysAreOld
<1>5. /\ row.hostname \in Name \cup {None} /\ row.eth \in Ether
      /\ excused' = IF row.hostname # None /\ Taken(row.hostname)
                    THEN excused \cup {row.hostname} ELSE excused
  BY <1>1, <1>4, RowFields DEF ExcuseTyped
<1>6. /\ excused \subseteq excused'
      /\ \A n \in Name : n = row.hostname /\ Known(n) => n \in excused'
  BY <1>5, NoneIsElse DEF Known, Taken
<1>7. NamesTyped'
  BY <1>1, <1>5, Parts DEF NamesTyped
<1>8. /\ RowsTyped' /\ created <= created'
      /\ \A k \in Id : ip'[k] # None =>
           \/ \E q \in Row : IsCopy(k, q) /\ q.eth = ip'[k].eth
           \/ k <= created' /\ ip'[k].eth \in Host \cup 1..created'
      /\ \A k \in Job : Entry(k) =>
           LET m == job[k].made
           IN /\ ip'[m] # None /\ ip'[m].dhcp_expose /\ ip'[m].eth = ip[m].eth
              /\ ip'[m].hostname = ip[m].hostname
      /\ \A h \in Host, n \in Name : Holds(h, n)' => Holds(h, n) \/ n = row.hostname
  <2>1. CASE i = None
    <3>1. Insert(row) /\ owner' = owner /\ hostname' = hostname
      BY <1>1, <2>1
    <3>2. /\ RowsTyped' /\ created <= created'
          /\ \A k \in Id : ip'[k] # None =>
               \/ \E q \in Row : IsCopy(k, q) /\ q.eth = ip'[k].eth
               \/ k <= created' /\ ip'[k].eth \in Host \cup 1..created'
          /\ \A k \in Job : Entry(k) => ip'[job[k].made] = ip[job[k].made]
          /\ \A h \in Host, n \in Name :
               Holds(h, n)' => Holds(h, n) \/ (h = owner[row.eth] /\ n = row.hostname)
      BY <1>4, <3>1, RowInserted
    <3>3. \A k \in Job : Entry(k) =>
            /\ Exists(job[k].made) /\ ip[job[k].made].dhcp_expose
      BY EntryFacts
    <3> QED
      BY <3>2, <3>3 DEF Exists
  <2>2. CASE i # None
    <3>1. /\ i \in Id /\ Fits(i, row) /\ ip' = [ip EXCEPT ![i] = row] /\ created' = created
          /\ IsCopy(i, row)
      BY <1>1, <1>4, <2>2 DEF SaveRow, IsCopy
    <3>2. i <= created' /\ created' \in 0..MaxId /\ created <= created'
      BY <1>3, <1>4, <3>1 DEF KeysAreOld
    <3>3. /\ RowsTyped' /\ ip'[i] = row
          /\ \A k \in Id \ {i} : ip'[k] = ip[k]
      BY <1>1, <1>3, <1>4, <3>1, <3>2, RowSaved
    <3>4. \A k \in Id : Exists(k) => ip[k] \in Row /\ IsCopy(k, ip[k])
      BY <1>3, RowThere DEF IsCopy
    <3>5. \A k \in Id : ip'[k] # None => \E q \in Row : IsCopy(k, q) /\ q.eth = ip'[k].eth
      BY <1>4, <3>1, <3>3, <3>4 DEF Exists
    <3>6. ASSUME NEW k \in Job, Entry(k)
          PROVE  LET m == job[k].made
                 IN /\ ip'[m] # None /\ ip'[m].dhcp_expose /\ ip'[m].eth = ip[m].eth
                    /\ ip'[m].hostname = ip[m].hostname
      <4>1. /\ job[k].made \in Id /\ Exists(job[k].made) /\ EntryIsSafe(k)
            /\ ip[job[k].made].dhcp_expose
        BY <3>6, EntryFacts
      <4>2. CASE job[k].made = i
        <5>1. /\ row.dhcp_expose /\ row.eth = HostOf[k] /\ row.hostname = job[k].served
              /\ ip[i].eth = HostOf[k] /\ ip[i].hostname = job[k].served
          BY <1>1, <4>1, <4>2 DEF EntryIsSafe
        <5> QED
          BY <1>4, <3>3, <4>2, <5>1, NoneIsElse
      <4>3. CASE job[k].made # i
        BY <3>3, <4>1, <4>3 DEF Exists
      <4> QED
        BY <4>2, <4>3
    <3>7. ASSUME NEW h \in Host, NEW n \in Name, Holds(h, n)'
          PROVE  Holds(h, n) \/ n = row.hostname
      <4>1. CASE hostname[h] = n
        BY <4>1 DEF Holds
      <4>2. CASE \E k \in Of(h)' : ip'[k].hostname = n
        <5>1. PICK k \in Id : ip'[k] # None /\ owner[ip'[k].eth] = h /\ ip'[k].hostname = n
          BY <1>1, <4>2 DEF Of, Exists
        <5> QED
          BY <3>3, <5>1 DEF Holds, Of, Exists
      <4> QED
        BY <1>1, <3>7, <4>1, <4>2 DEF Holds
    <3> QED
      BY <3>2, <3>3, <3>5, <3>6, <3>7
  <2> QED
    BY <2>1, <2>2
<1>9. \A h \in Host, n \in Name : Holds(h, n)' /\ Known(n) /\ n \notin excused' => Holds(h, n)
  BY <1>6, <1>8
<1>10. /\ \A e \in Ether : owner'[e] \in {owner[e], None}
       /\ \A k \in Id : Exists(k) /\ ip[k].dhcp_expose /\ k \notin overruled' =>
            /\ z.pc = "save" /\ z.id = k => SameEntry(z.row, ip[k])
            /\ ~ (z.pc = "delete" /\ z.id = k)
  BY <1>1, <1>2
<1> QED
  BY <1>1, <1>2, <1>6, <1>7, <1>8, <1>9, <1>10, FormTo

LEMMA DeleteAddressInv ==
  ASSUME IInv, NEW u \in Form, DeleteAddress(u)
  PROVE  IInv'
<1> DEFINE gone == {form[u].id}
           z == Answered
<1>1. /\ form[u].pc = "delete" /\ form' = [form EXCEPT ![u] = z] /\ ip' = Without(gone)
      /\ UNCHANGED <<hostname, created, owner, counter, useCounter, job, issued, excused,
                     overruled>>
  BY DEF DeleteAddress
<1>2. z \in FormState /\ z.pc = "done"
  BY NewAndEnded
<1> HIDE DEF z
<1>3. RowsTyped /\ owner' \in [Ether -> Host \cup {None}]
  BY <1>1, Parts DEF RowsTyped
<1>4. \A i \in Id : Exists(i) /\ owner'[ip[i].eth] = None => i \in gone
  BY <1>1, <1>3 DEF RowsTyped
<1>5. /\ RowsTyped'
      /\ \A i \in Id : ip'[i] # None => i \notin gone /\ Exists(i) /\ ip'[i] = ip[i]
      /\ \A i \in Id \ gone : ip'[i] = ip[i]
  BY <1>1, <1>3, <1>4, RowsRemoved
<1>6. /\ \A i \in Id : ip'[i] # None => \E q \in Row : IsCopy(i, q) /\ q.eth = ip'[i].eth
      /\ \A h \in Host, n \in Name : Holds(h, n)' => Holds(h, n)
  BY <1>1, <1>5, RowsKept
<1>7. ASSUME NEW k \in Job, Entry(k)
      PROVE  LET m == job[k].made
             IN /\ ip'[m] # None /\ ip'[m].dhcp_expose /\ ip'[m].eth = ip[m].eth
                /\ ip'[m].hostname = ip[m].hostname
  <2>1. /\ job[k].made \in Id /\ Exists(job[k].made) /\ EntryIsSafe(k)
        /\ ip[job[k].made].dhcp_expose
    BY <1>7, EntryFacts
  <2>2. job[k].made \notin gone
    BY <1>1, <2>1 DEF EntryIsSafe
  <2> QED
    BY <1>5, <2>1, <2>2 DEF Exists
<1>8. NamesTyped' /\ created <= created'
  BY <1>1, Parts DEF NamesTyped
<1> QED
  BY <1>1, <1>2, <1>5, <1>6, <1>7, <1>8, FormTo

LEMMA DeleteEthernetInv ==
  ASSUME IInv, NEW u \in Form, DeleteEthernet(u)
  PROVE  IInv'
<1> DEFINE d == form[u].id
           gone == {i \in Id : Exists(i) /\ ip[i].eth = d}
           z == Answered
<1>1. /\ form[u].pc = "delete_ethernet" /\ form' = [form EXCEPT ![u] = z]
      /\ ip' = Without(gone) /\ owner' = [owner EXCEPT ![d] = None]
      /\ UNCHANGED <<hostname, created, counter, useCounter, job, issued, excused, overruled>>
  BY DEF DeleteEthernet
<1>2. z \in FormState /\ z.pc = "done"
  BY NewAndEnded
<1> HIDE DEF z
<1>3. /\ RowsTyped /\ owner \in [Ether -> Host \cup {None}] /\ d \in Ether
  BY <1>1, Parts DEF RowsTyped, KeysAreOld
<1>4. /\ owner' \in [Ether -> Host \cup {None}] /\ owner'[d] = None
      /\ \A e \in Ether : owner'[e] \in {owner[e], None} /\ (e # d => owner'[e] = owner[e])
  BY <1>1, <1>3
<1>5. ASSUME NEW i \in Id, Exists(i), owner'[ip[i].eth] = None
      PROVE  i \in gone
  BY <1>3, <1>4, <1>5, RowThere, NoneIsElse
<1>6. /\ RowsTyped'
      /\ \A i \in Id : ip'[i] # None => i \notin gone /\ Exists(i) /\ ip'[i] = ip[i]
      /\ \A i \in Id \ gone : ip'[i] = ip[i]
  BY <1>1, <1>3, <1>4, <1>5, RowsRemoved
<1>7. ASSUME NEW k \in Job, Entry(k), owner'[HostOf[k]] # None
      PROVE  LET m == job[k].made
             IN /\ ip'[m] # None /\ ip'[m].dhcp_expose /\ ip'[m].eth = ip[m].eth
                /\ ip'[m].hostname = ip[m].hostname
  <2>1. /\ job[k].made \in Id /\ Exists(job[k].made) /\ ip[job[k].made].eth = HostOf[k]
        /\ ip[job[k].made].dhcp_expose
    BY <1>7, EntryFacts
  <2>2. job[k].made \notin gone
    BY <1>4, <1>7, <2>1
  <2> QED
    BY <1>6, <2>1, <2>2 DEF Exists
<1> HIDE DEF gone
<1>8. /\ \A i \in Id : ip'[i] # None => \E q \in Row : IsCopy(i, q) /\ q.eth = ip'[i].eth
      /\ \A h \in Host, n \in Name : Holds(h, n)' => Holds(h, n)
  BY <1>1, <1>4, <1>6, RowsKept
<1>9. NamesTyped' /\ created <= created'
  BY <1>1, Parts DEF NamesTyped
<1> QED
  BY <1>1, <1>2, <1>4, <1>6, <1>7, <1>8, <1>9, FormTo

LEMMA RenameHostInv ==
  ASSUME IInv, NEW u \in Form, NEW g \in Host, NEW m \in Typed, RenameHost(u, g, m)
  PROVE  IInv'
<1> DEFINE z == Answered
<1>1. /\ hostname' = [hostname EXCEPT ![g] = m] /\ form' = [form EXCEPT ![u] = z]
      /\ ExcuseTyped(m)
      /\ UNCHANGED <<ip, created, owner, counter, useCounter, job, issued, overruled>>
  BY DEF RenameHost
<1>2. z \in FormState /\ z.pc = "done"
  BY NewAndEnded
<1> HIDE DEF z
<1>3. m \in Name /\ m # None
  BY Configured, NoneIsElse
<1>4. excused' = IF Taken(m) THEN excused \cup {m} ELSE excused
  BY <1>1, <1>3 DEF ExcuseTyped
<1>5. excused \subseteq excused' /\ (Known(m) => m \in excused')
  BY <1>4 DEF Known, Taken
<1>6. RowsTyped' /\ NamesTyped' /\ created <= created'
  <2>1. RowsTyped'
    BY <1>1, Parts DEF RowsTyped, Exists
  <2>2. NamesTyped'
    BY <1>1, <1>3, <1>4, Parts DEF NamesTyped
  <2> QED
    BY <1>1, <2>1, <2>2, Parts
<1>7. \A i \in Id : ip'[i] # None => \E q \in Row : IsCopy(i, q) /\ q.eth = ip'[i].eth
  BY <1>1, Parts, RowThere DEF IsCopy, Exists
<1>8. \A h \in Host, n \in Name : Holds(h, n)' => Holds(h, n) \/ (h = g /\ n = m)
  BY <1>1, <1>3, HostNamed
<1>9. \A k \in Job : Entry(k) =>
        LET i == job[k].made
        IN /\ ip'[i] # None /\ ip'[i].dhcp_expose /\ ip'[i].eth = ip[i].eth
           /\ ip'[i].hostname = ip[i].hostname
  BY <1>1, EntryFacts DEF Exists
<1>10. \A h \in Host, n \in Name : Holds(h, n)' /\ Known(n) /\ n \notin excused' => Holds(h, n)
  BY <1>5, <1>8
<1>11. \A e \in Ether : owner'[e] \in {owner[e], None}
  BY <1>1
<1> QED
  BY <1>1, <1>2, <1>5, <1>6, <1>7, <1>9, <1>10, <1>11, FormTo

-----------------------------------------------------------------------------
(* The specification *)

\* Steps that change no name, no row, no job and no form.
LEMMA SameInv ==
  ASSUME IInv, NamesTyped',
         UNCHANGED <<hostname, ip, created, owner, job, form, issued, excused, overruled>>
  PROVE  IInv'
<1>1. RowsTyped' /\ JobsTyped' /\ FormsTyped'
  BY Parts DEF RowsTyped, JobsTyped, FormsTyped, Exists
<1>2. TypeOK'
  BY <1>1, TypesTogether
<1>3. JobsAreRight'
  BY Parts DEF JobsAreRight, Active
<1>4. \A i \in Id, r \in Row : IsCopy(i, r)' <=> IsCopy(i, r)
  BY DEF IsCopy, Exists
<1>5. KeysAreOld'
  BY <1>4, Parts DEF KeysAreOld
<1>6. EntriesAreSafe'
  BY Parts DEF EntriesAreSafe, Entry, EntryIsSafe, Exists
<1>7. NamesAreRight'
  BY Parts DEF NamesAreRight, Has, Holds, Of, Exists, Remembers
<1> QED
  BY <1>2, <1>3, <1>5, <1>6, <1>7 DEF IInv

LEMMA FirstKeys ==
  LET S == {0} \cup {i \in Id : FirstRows[i] # None}
  IN /\ Max(S) \in 0..MaxId
     /\ \A i \in Id : FirstRows[i] # None => i <= Max(S)
<1> DEFINE S == {0} \cup {i \in Id : FirstRows[i] # None}
<1>1. S \in SUBSET (0..MaxId) /\ S # {} /\ MaxId \in Nat
  BY Configured DEF Id
<1>2. PICK n \in S : \A m \in S : m <= n
  BY <1>1, GreatestOf
<1>3. \A m \in S : m \in Nat /\ (\A i \in Id : FirstRows[i] # None => i \in S)
  BY <1>1
<1> HIDE DEF S
<1>4. \E x \in S : \A y \in S : x >= y
  BY <1>2, <1>3
<1>5. Max(S) \in S /\ \A y \in S : Max(S) >= y
  BY <1>4 DEF Max
<1> QED
  BY <1>1, <1>3, <1>5 DEF S

LEMMA InitInv == Init => IInv
<1> SUFFICES ASSUME Init
             PROVE  IInv
  OBVIOUS
<1>1. /\ hostname = FirstNames /\ counter = 0 /\ useCounter \in BOOLEAN
      /\ ip = FirstRows /\ created = Max({0} \cup {i \in Id : FirstRows[i] # None})
      /\ owner = [e \in Ether |-> IF e \in Host THEN e ELSE None]
      /\ job = [j \in Job |-> NewJob] /\ form = [u \in Form |-> NewForm]
      /\ issued = {} /\ excused = {} /\ overruled = {}
  BY DEF Init
<1>2. created \in 0..MaxId /\ \A i \in Id : Exists(i) => i <= created
  BY <1>1, FirstKeys DEF Exists
<1>3. /\ ip \in [Id -> Row \cup {None}]
      /\ \A i \in Id : Exists(i) =>
           /\ ip[i].eth \in Host
           /\ \A k \in Id \ {i} : Exists(k) =>
                ip[i].address # ip[k].address /\ ip[i].eth # ip[k].eth
  BY <1>1, ConfigAssumption DEF Exists
<1>4. /\ owner \in [Ether -> Host \cup {None}] /\ \A h \in Host : owner[h] = h
      /\ \A e \in Id : owner[e] = None
  <2>1. /\ owner \in [Ether -> Host \cup {None}]
        /\ \A e \in Ether : owner[e] = IF e \in Host THEN e ELSE None
    BY <1>1
  <2> QED
    BY <2>1, NoneIsElse
<1>5. /\ NewJob \in JobState /\ NewJob.pc = "new" /\ NewJob.done = {} /\ NewJob = Ended("new")
      /\ NewJob.mem = None /\ NewJob.name = None /\ NewJob.got = None /\ NewJob.locks = FALSE
      /\ NewJob.param = None /\ NewJob.row = None /\ NewJob.made = None
      /\ NewForm \in FormState /\ NewForm.pc = "new"
  <2>1. NewJob = Ended("new")
    BY NewAndEnded, SamePc DEF Ended
  <2> QED
    BY <2>1, NewAndEnded
<1>6. /\ \A j \in Job : job[j] = NewJob
      /\ \A u \in Form : form[u] = NewForm
      /\ job \in [Job -> JobState] /\ form \in [Form -> FormState]
  BY <1>1, <1>5
<1>7. RowsTyped
  <2>1. \A i \in Id : Exists(i) => owner[ip[i].eth] # None
    BY <1>3, <1>4, NoneIsElse
  <2> QED
    BY <1>2, <1>3, <1>4, <2>1 DEF RowsTyped
<1>8. NamesTyped
  BY <1>1, ConfigAssumption DEF NamesTyped
<1>9. JobsTyped /\ FormsTyped
  BY <1>5, <1>6 DEF JobsTyped, FormsTyped
<1>10. TypeOK
  BY <1>7, <1>8, <1>9, TypesSplit
<1>11. JobsAreRight
  BY <1>5, <1>6 DEF JobsAreRight, RightJob, Active
<1>12. \A i \in Id, r \in Row : IsCopy(i, r) => Exists(i) /\ r = ip[i]
  BY <1>5, <1>6 DEF IsCopy
<1>13. KeysAreOld
  BY <1>2, <1>3, <1>4, <1>5, <1>6, <1>12 DEF KeysAreOld
<1>14. EntriesAreSafe
  BY <1>5, <1>6 DEF EntriesAreSafe, Entry
<1>15. NamesAreRight
  BY <1>1, <1>5, <1>6 DEF NamesAreRight
<1> QED
  BY <1>10, <1>11, <1>13, <1>14, <1>15 DEF IInv

LEMMA NextInv == IInv /\ [Next]_vars => IInv'
<1> SUFFICES ASSUME IInv, [Next]_vars
             PROVE  IInv'
  OBVIOUS
<1>1. ASSUME NEW j \in Job, JobStep(j)
      PROVE  IInv'
  <2>1. CASE StartJob(j)
    BY <2>1, StartJobInv
  <2>2. CASE BeginAction(j)
    BY <2>2, BeginActionInv
  <2>3. CASE ActionRaises(j)
    BY <2>3, ActionRaisesInv
  <2>4. CASE Unfreeze(j)
    BY <2>4, UnfreezeInv
  <2>5. CASE StoreObject(j)
    BY <2>5, StoreObjectInv
  <2>6. CASE clean_hostname(j)
    BY <2>6, CleanHostnameInv
  <2>7. CASE clean_ipaddresses(j)
    BY <2>7, CleanIpaddressesInv
  <2>8. CASE clean_dhcp(j)
    BY <2>8, CleanDhcpInv
  <2>9. CASE TakeNumber(j)
    BY <2>9, TakeNumberInv
  <2>10. CASE ReadNumber(j)
    BY <2>10, ReadNumberInv
  <2>11. CASE assign_new_hostname(j)
    BY <2>11, AssignNewHostnameInv
  <2>12. CASE \E n \in Typed : AssignTyped(j, n)
    BY <2>12, AssignTypedInv
  <2>13. CASE assign_new_ip(j)
    BY <2>13, AssignNewIpInv
  <2>14. CASE assign_additional_hostname(j)
    BY <2>14, AssignAdditionalHostnameInv
  <2>15. CASE replace_ip(j)
    BY <2>15, ReplaceIpInv
  <2>16. CASE remove_from_dhcp_entries(j)
    BY <2>16, RemoveFromDhcpEntriesInv
  <2>17. CASE create_dhcp_entries(j)
    BY <2>17, CreateDhcpEntriesInv
  <2>18. CASE deploy(j)
    BY <2>18, DeployInv
  <2> QED
    BY <1>1, <2>1, <2>2, <2>3, <2>4, <2>5, <2>6, <2>7, <2>8, <2>9, <2>10, <2>11, <2>12,
       <2>13, <2>14, <2>15, <2>16, <2>17, <2>18 DEF JobStep
<1>2. ASSUME NEW u \in Form, FormStep(u)
      PROVE  IInv'
  <2>1. CASE ReadForm(u)
    BY <2>1, ReadFormInv
  <2>2. CASE SaveForm(u)
    BY <2>2, SaveFormInv
  <2>3. CASE RejectForm(u)
    BY <2>3, RejectFormInv
  <2>4. CASE \E admin \in BOOLEAN : ReadAddress(u, admin) \/ ReadToDelete(u, admin)
    BY <2>4, ReadAddressInv, ReadToDeleteInv
  <2>5. CASE DeleteAddress(u)
    BY <2>5, DeleteAddressInv
  <2>6. CASE DeleteEthernet(u)
    BY <2>6, DeleteEthernetInv
  <2>7. CASE \E h \in Host, n \in Typed : RenameHost(u, h, n)
    BY <2>7, RenameHostInv
  <2>8. CASE StopCounter(u) \/ AskNumber(u) \/ SwitchCounter(u)
    BY <2>8, StopCounterInv, AskNumberInv, SwitchCounterInv
  <2> QED
    BY <1>2, <2>1, <2>2, <2>3, <2>4, <2>5, <2>6, <2>7, <2>8 DEF FormStep
<1>3. CASE UNCHANGED vars
  <2>1. UNCHANGED <<hostname, ip, created, owner, counter, useCounter, job, form, issued,
                    excused, overruled>>
    BY <1>3 DEF vars
  <2>2. NamesTyped'
    BY <2>1, Parts DEF NamesTyped
  <2> QED
    BY <2>1, <2>2, SameInv
<1> QED
  BY <1>1, <1>2, <1>3 DEF Next

\* Whatever jobs and users do, the rows of the database and what jobs and forms have in memory
\* keep their types; an address is on one row, an Ethernet has one, and a row's Ethernet exists.
THEOREM TypeCorrect == Spec => []TypeOK
<1>1. IInv => TypeOK
  BY DEF IInv
<1> QED
  BY <1>1, InitInv, NextInv, PTL DEF Spec

\* A name the counter of an environment has issued is of one host for good, whatever was rolled
\* back, renamed or saved from memory, with the exceptions excused counts.
\* (issue_next_free_hostname)
THEOREM IssuedNamesAreUniqueAlways == Spec => []IssuedNamesAreUnique
<1>1. IInv => IssuedNamesAreUnique
  BY DEF IInv, NamesAreRight, IssuedNamesAreUnique, Has
<1> QED
  BY <1>1, InitInv, NextInv, PTL DEF Spec

\* Without the counter the next name is new as long as names have as many digits as the template
\* says, in any set of hosts and rows.  (current_counter_without_model)
THEOREM NextNameIsNewAlways == Spec => []NextNameIsNew
<1>1. IInv => NextNameIsNew
  BY Parts, NextIsNew
<1> QED
  BY <1>1, InitInv, NextInv, PTL DEF Spec

\* The entry a deployment has created is served as it was made until the deployment ends: a
\* form or a request that has read it may only change other fields, unless an administrator
\* of addresses asks for more; no job that runs beside it has read it at all.
\* (create_dhcp_entries, clean_dhcp, NetworkForm, IPAddress.clean)
THEOREM EntriesStayAlways == Spec => []EntriesStay
<1>1. IInv => EntriesStay
  BY DEF IInv, EntriesAreSafe, Entry, EntryIsSafe, EntriesStay, MadeByUnfinished
<1> QED
  BY <1>1, InitInv, NextInv, PTL DEF Spec

=============================================================================
