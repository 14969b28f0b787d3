----------------------------- MODULE Deployments -----------------------------
(***************************************************************************)
(* What the actions of a deployment do to hostnames, addresses and DHCP    *)
(* entries (ralph.deployment.deployment), the addresses a network issues   *)
(* and the hostnames a network environment issues                          *)
(* (ralph.networks.models.networks), and the forms and requests that edit  *)
(* the same rows (ralph.networks.forms, ralph.networks.api).               *)
(*                                                                         *)
(* Every action of a job is one transaction; what it read may be stale     *)
(* when it commits.  The jobs here run on different hosts, or one after    *)
(* the other.  An address row is known by its primary key, which is never  *)
(* used again.  An Ethernet with a MAC address is known by its host; one   *)
(* without, by the key of the address it was made for.                     *)
(***************************************************************************)
EXTENDS Integers, FiniteSets, FiniteSetsExt

CONSTANTS
  Host,
  Job,
  Form,         \* requests of users
  HostOf,       \* the host of a job
  Actions,      \* the actions its transition has
  Typed,        \* the numbers of the hostnames users type
  MaxName,      \* the last number of a hostname
  Rank,         \* the places of the formatted names, sorted as strings
  Full,         \* the last number with as many digits as the template has
  MaxAddress,   \* the usable addresses of the network are 1..MaxAddress
  MaxId,        \* how many address rows are made
  FirstRows,    \* the address rows in the beginning
  FirstNames,   \* and the hostnames
  None

Name == 1..MaxName
Address == 1..MaxAddress
Id == 1..MaxId
Ether == Host \cup Id
Row == [address : Address, eth : Ether, hostname : Name \cup {None},
        dhcp_expose : BOOLEAN, is_management : BOOLEAN]

ActionName ==
  {"clean_hostname", "clean_ipaddresses", "clean_dhcp", "remove_from_dhcp_entries",
   "assign_new_hostname", "assign_new_ip", "assign_additional_hostname", "replace_ip",
   "create_dhcp_entries", "deploy"}

ASSUME ConfigAssumption ==
  /\ HostOf \in [Job -> Host] /\ Actions \in [Job -> SUBSET ActionName]
  /\ MaxName \in Nat /\ Typed \subseteq Name /\ Full \in Nat
  /\ Rank \in [Name -> Name] /\ \A m, n \in Name : Rank[m] = Rank[n] => m = n
  /\ \A m, n \in Name : m < n /\ n <= Full => Rank[m] < Rank[n]
  /\ MaxAddress \in Nat /\ MaxId \in Nat
  /\ FirstRows \in [Id -> Row \cup {None}] /\ FirstNames \in [Host -> Name \cup {None}]
  /\ \A i \in Id : FirstRows[i] # None =>
       /\ FirstRows[i].eth \in Host
       /\ \A k \in Id \ {i} : FirstRows[k] # None =>
            /\ FirstRows[i].address # FirstRows[k].address
            /\ FirstRows[i].eth # FirstRows[k].eth
  /\ Host \cap Id = {} /\ None \notin Host \cup Nat \cup Row

VARIABLES
  hostname,    \* the hostnames of the hosts
  ip,          \* the address rows
  created,     \* how many there have been
  owner,       \* the base object of the Ethernets
  counter,     \* AssetLastHostname.counter, 0 without a row
  useCounter,  \* NetworkEnvironment.use_hostname_counter
  job,
  form,
  issued,      \* observer: names that jobs got from the counter and have committed
  excused,     \* observer: names issued without it, or typed by users when taken, or
               \* issued when the job of another host still had them in memory
  overruled    \* observer: exposed rows an administrator asked to unexpose or delete

vars == <<hostname, ip, created, owner, counter, useCounter, job, form, issued, excused, overruled>>

NewJob == [pc |-> "new", done |-> {}, mem |-> None, name |-> None, act |-> None,
           address |-> None, got |-> None, locks |-> FALSE, param |-> None,
           row |-> None, made |-> None, served |-> None]
NewForm == [pc |-> "new", id |-> None, row |-> None, number |-> None]
Answered == [NewForm EXCEPT !.pc = "done"]

JobState ==
  [pc : {"new", "ready", "acting", "frozen", "done", "failed"}, done : SUBSET ActionName,
   mem : Name \cup {None}, name : Name \cup {None}, act : ActionName \cup {None},
   address : Address \cup {None}, got : Name \cup {None}, locks : BOOLEAN,
   param : Id \cup {None}, row : Row \cup {None}, made : Id \cup {None},
   served : Name \cup {None}]
FormState ==
  [pc : {"new", "save", "delete", "delete_ethernet", "switch", "done"},
   id : Ether \cup {None}, row : Row \cup {None}, number : 0..MaxName \cup {None}]

Exists(i) == ip[i] # None
Of(h) == {i \in Id : Exists(i) /\ owner[ip[i].eth] = h}

\* Types; addresses are unique and an Ethernet has at most one.
TypeOK ==
  /\ hostname \in [Host -> Name \cup {None}]
  /\ ip \in [Id -> Row \cup {None}] /\ created \in 0..MaxId
  /\ owner \in [Ether -> Host \cup {None}] /\ \A h \in Host : owner[h] \in {h, None}
  /\ \A i \in Id : Exists(i) => i <= created /\ owner[ip[i].eth] # None
  /\ \A i, k \in Id : i # k /\ Exists(i) /\ Exists(k) =>
        ip[i].address # ip[k].address /\ ip[i].eth # ip[k].eth
  /\ counter \in 0..MaxName /\ useCounter \in BOOLEAN
  /\ job \in [Job -> JobState] /\ \A j \in Job : job[j].done \subseteq Actions[j]
  /\ form \in [Form -> FormState]
  /\ issued \subseteq Name /\ excused \subseteq Name /\ overruled \subseteq Id

Init ==
  /\ hostname = FirstNames /\ counter = 0 /\ useCounter \in BOOLEAN
  /\ ip = FirstRows /\ created = Max({0} \cup {i \in Id : FirstRows[i] # None})
  /\ owner = [e \in Ether |-> IF e \in Host THEN e ELSE None]
  /\ job = [j \in Job |-> NewJob] /\ form = [u \in Form |-> NewForm]
  /\ issued = {} /\ excused = {} /\ overruled = {}

-----------------------------------------------------------------------------
(* Hostnames of a network environment *)

\* The order of the formatted numbers as strings.
Earlier(m, n) == Rank[m] < Rank[n]

Used == ({hostname[h] : h \in Host} \cup {ip[i].hostname : i \in {k \in Id : Exists(k)}})
        \ {None}
check_hostname_is_available(n) == n \notin Used

\* Mutant: the first name instead of the last one.
CounterOfFirst ==
  IF Used = {} THEN 0 ELSE CHOOSE n \in Used : \A m \in Used \ {n} : Earlier(n, m)

\* current_counter_without_model: the last name as strings are ordered, 0 without one.
current_counter_without_model ==
  IF Used = {} THEN 0 ELSE CHOOSE n \in Used : \A m \in Used \ {n} : Earlier(m, n)

next_counter_without_model == current_counter_without_model + 1

\* The row of the counter is locked from the increment to the end of the transaction.
CounterLocked(j) == \E k \in Job \ {j} : job[k].locks

\* Mutant: the next number, whoever has the name already.
NextNumberUnchecked == {counter + 1}

\* issue_next_free_hostname increments until the name is available.
NextNumber ==
  {n \in (counter + 1)..MaxName :
     /\ check_hostname_is_available(n)
     /\ \A m \in (counter + 1)..(n - 1) : ~ check_hostname_is_available(m)}

-----------------------------------------------------------------------------
(* Address rows *)

\* get_first_free_ip
FreeAddresses == Address \ {ip[i].address : i \in {k \in Id : Exists(k)}}
get_first_free_ip == IF FreeAddresses = {} THEN None ELSE Min(FreeAddresses)

\* DHCPEntryManager; only an Ethernet that a host came with has a MAC address.
IsDhcpEntry(i) ==
  Exists(i) /\ ip[i].dhcp_expose /\ ip[i].hostname # None /\ ip[i].eth \in Host

\* Mutant: the Ethernet of an address is a plain foreign key.
FitsOnAnyEthernet(i, row) ==
  /\ owner[row.eth] # None
  /\ \A k \in Id \ {i} : Exists(k) => ip[k].address # row.address

\* What the database lets be written: unique address, one address per Ethernet,
\* and the Ethernet has to exist.
Fits(i, row) ==
  /\ owner[row.eth] # None
  /\ \A k \in Id \ {i} : Exists(k) => ip[k].address # row.address /\ ip[k].eth # row.eth

Without(S) == [i \in Id |-> IF i \in S THEN None ELSE ip[i]]

-----------------------------------------------------------------------------
(* Jobs *)

Active(j) == job[j].pc \in {"ready", "acting", "frozen"}

\* The order of the actions, as far as they are selected.
run_after ==
  [clean_hostname |-> {}, clean_ipaddresses |-> {"clean_dns"},
   clean_dhcp |-> {"clean_dns", "clean_ipaddresses"}, remove_from_dhcp_entries |-> {},
   assign_new_hostname |-> {"clean_dns", "clean_dhcp", "clean_hostname"},
   assign_new_ip |-> {"assign_new_hostname"}, assign_additional_hostname |-> {},
   replace_ip |-> {},
   create_dhcp_entries |-> {"assign_new_hostname", "clean_ipaddresses", "clean_dhcp"},
   deploy |-> {"assign_new_hostname", "create_dhcp_entries", "wait_for_dhcp_servers",
               "create_dns_entries"}]

\* Mutant: the order of the actions is that of the request.
MayRunAnyOrder(j, a) == job[j].pc = "ready" /\ a \in Actions[j] \ job[j].done

MayRun(j, a) ==
  /\ job[j].pc = "ready" /\ a \in Actions[j] \ job[j].done
  /\ run_after[a] \cap Actions[j] \subseteq job[j].done

Acts(j, a) == job[j].pc = "acting" /\ job[j].act = a

\* The action ends: what it kept for itself is gone, the lock of the counter too.
Returned(j, a) ==
  [job[j] EXCEPT !.pc = "ready", !.done = @ \cup {a}, !.act = None, !.address = None,
                 !.got = None, !.locks = FALSE, !.row = None]
Ended(pc) == [NewJob EXCEPT !.pc = pc]

\* Addresses to choose from when the job is requested.
\* (base_object_ip_choices, dhcp_entries_for_objects)
ParamChoices(j) ==
  CASE "replace_ip" \in Actions[j] -> Of(HostOf[j])
    [] "remove_from_dhcp_entries" \in Actions[j] ->
         {i \in Of(HostOf[j]) : ip[i].dhcp_expose}
    [] OTHER -> {None}

StartJob(j) ==
  /\ job[j].pc = "new" /\ \A k \in Job : Active(k) => HostOf[k] # HostOf[j]
  /\ \E p \in ParamChoices(j) :
       job' = [job EXCEPT ![j] = [@ EXCEPT !.pc = "ready", !.param = p,
                                           !.mem = hostname[HostOf[j]]]]
  /\ UNCHANGED <<hostname, ip, created, owner, counter, useCounter, form, issued,
                 excused, overruled>>

\* Only in memory, until the object is saved.
clean_hostname(j) ==
  /\ MayRun(j, "clean_hostname")
  /\ job' = [job EXCEPT ![j] = [Returned(j, "clean_hostname") EXCEPT !.mem = None]]
  /\ UNCHANGED <<hostname, ip, created, owner, counter, useCounter, form, issued,
                 excused, overruled>>

\* An Ethernet without a MAC address goes with its address.
clean_ipaddresses(j) ==
  LET gone == {i \in Of(HostOf[j]) : ~ ip[i].is_management}
  IN /\ MayRun(j, "clean_ipaddresses")
     /\ ip' = Without(gone)
     /\ owner' = [e \in Ether |-> IF e \in {ip[i].eth : i \in gone} \ Host
                                  THEN None ELSE owner[e]]
     /\ job' = [job EXCEPT ![j] = Returned(j, "clean_ipaddresses")]
     /\ UNCHANGED <<hostname, created, counter, useCounter, form, issued, excused,
                    overruled>>

clean_dhcp(j) ==
  /\ MayRun(j, "clean_dhcp")
  /\ ip' = Without({i \in Of(HostOf[j]) : IsDhcpEntry(i)})
  /\ job' = [job EXCEPT ![j] = Returned(j, "clean_dhcp")]
  /\ UNCHANGED <<hostname, created, owner, counter, useCounter, form, issued, excused,
                 overruled>>

\* The actions that read before they write: the row they are about, the first free
\* address.  Without either of them they fail.
NeedsRow == {"remove_from_dhcp_entries", "replace_ip"}
NeedsAddress == {"assign_new_ip", "assign_additional_hostname", "replace_ip",
                 "create_dhcp_entries"}

BeginAction(j) ==
  /\ \E a \in NeedsRow \cup NeedsAddress \cup {"assign_new_hostname"} :
       LET row == IF a \in NeedsRow THEN ip[job[j].param] ELSE None
       IN /\ MayRun(j, a)
          /\ job' = [job EXCEPT ![j] =
               IF (a \in NeedsRow /\ row = None)
                  \/ (a \in NeedsAddress /\ get_first_free_ip = None)
               THEN Ended("failed")
               ELSE [@ EXCEPT !.pc = "acting", !.act = a, !.row = row, !.address =
                       IF a \in NeedsAddress THEN get_first_free_ip ELSE None]]
  /\ UNCHANGED <<hostname, ip, created, owner, counter, useCounter, form, issued,
                 excused, overruled>>

\* The job of another host has read the name and may save it again.
Remembered(j, n) ==
  \E k \in Job : /\ HostOf[k] # HostOf[j]
                 /\ \/ n \in {job[k].mem, job[k].name}
                    \/ job[k].row # None /\ job[k].row.hostname = n

\* increment_hostname, and the test of what it gives.
TakeNumber(j) ==
  /\ \E a \in {"assign_new_hostname", "assign_additional_hostname"} : Acts(j, a)
  /\ job[j].got = None /\ useCounter /\ ~ CounterLocked(j)
  /\ \E n \in NextNumber \cap Name :
       /\ job' = [job EXCEPT ![j] = [@ EXCEPT !.got = n, !.locks = TRUE]]
       /\ excused' = IF Remembered(j, n) THEN excused \cup {n} ELSE excused
  /\ UNCHANGED <<hostname, ip, created, owner, counter, useCounter, form, issued,
                 overruled>>

\* next_hostname_without_model_counter reserves nothing.
ReadNumber(j) ==
  /\ \E a \in {"assign_new_hostname", "assign_additional_hostname"} : Acts(j, a)
  /\ job[j].got = None /\ ~ useCounter /\ next_counter_without_model \in Name
  /\ job' = [job EXCEPT ![j] = [@ EXCEPT !.got = next_counter_without_model]]
  /\ UNCHANGED <<hostname, ip, created, owner, counter, useCounter, form, issued,
                 excused, overruled>>

\* The counter and what is known of the name when the transaction commits.
CommitNumber(j) ==
  IF job[j].locks
  THEN counter' = job[j].got /\ issued' = issued \cup {job[j].got} /\ UNCHANGED excused
  ELSE excused' = excused \cup {job[j].got} /\ UNCHANGED <<counter, issued>>

assign_new_hostname(j) ==
  /\ Acts(j, "assign_new_hostname") /\ job[j].got # None
  /\ hostname' = [hostname EXCEPT ![HostOf[j]] = job[j].got]
  /\ job' = [job EXCEPT ![j] = [Returned(j, "assign_new_hostname") EXCEPT
                                  !.mem = job[j].got, !.name = job[j].got]]
  /\ CommitNumber(j)
  /\ UNCHANGED <<ip, created, owner, useCounter, form, overruled>>

\* A name that somebody has got from the counter.
Taken(n) == n \in issued \/ \E j \in Job : job[j].got = n

\* The name is one the user has typed.
AssignTyped(j, n) ==
  /\ MayRun(j, "assign_new_hostname")
  /\ hostname' = [hostname EXCEPT ![HostOf[j]] = n]
  /\ job' = [job EXCEPT ![j] = [Returned(j, "assign_new_hostname") EXCEPT
                                  !.mem = n, !.name = n]]
  /\ excused' = IF Taken(n) THEN excused \cup {n} ELSE excused
  /\ UNCHANGED <<ip, created, owner, counter, useCounter, form, issued, overruled>>

\* A new address row, with the next key.
Insert(row) ==
  /\ created < MaxId /\ created' = created + 1
  /\ Fits(created + 1, row)
  /\ ip' = [ip EXCEPT ![created + 1] = row]

\* A new row on a new Ethernet of the host.
InsertOnNewEthernet(j, name) ==
  LET row == [address |-> job[j].address, eth |-> created + 1, hostname |-> name,
              dhcp_expose |-> FALSE, is_management |-> FALSE]
  IN /\ created < MaxId /\ created' = created + 1
     /\ \A k \in Id : Exists(k) => ip[k].address # row.address
     /\ ip' = [ip EXCEPT ![created + 1] = row]
     /\ owner' = [owner EXCEPT ![created + 1] = HostOf[j]]

assign_new_ip(j) ==
  /\ Acts(j, "assign_new_ip") /\ InsertOnNewEthernet(j, job[j].name)
  /\ job' = [job EXCEPT ![j] = Returned(j, "assign_new_ip")]
  /\ UNCHANGED <<hostname, counter, useCounter, form, issued, excused, overruled>>

assign_additional_hostname(j) ==
  /\ Acts(j, "assign_additional_hostname") /\ job[j].got # None
  /\ InsertOnNewEthernet(j, job[j].got) /\ CommitNumber(j)
  /\ job' = [job EXCEPT ![j] = Returned(j, "assign_additional_hostname")]
  /\ UNCHANGED <<hostname, useCounter, form, overruled>>

\* save() of a row in memory: one that is not there any more is inserted again.
SaveRow(i, row) == Fits(i, row) /\ ip' = [ip EXCEPT ![i] = row]

replace_ip(j) ==
  /\ Acts(j, "replace_ip")
  /\ SaveRow(job[j].param, [job[j].row EXCEPT !.address = job[j].address])
  /\ job' = [job EXCEPT ![j] = Returned(j, "replace_ip")]
  /\ UNCHANGED <<hostname, created, owner, counter, useCounter, form, issued, excused,
                 overruled>>

remove_from_dhcp_entries(j) ==
  /\ Acts(j, "remove_from_dhcp_entries")
  /\ SaveRow(job[j].param, [job[j].row EXCEPT !.dhcp_expose = FALSE])
  /\ job' = [job EXCEPT ![j] = Returned(j, "remove_from_dhcp_entries")]
  /\ UNCHANGED <<hostname, created, owner, counter, useCounter, form, issued, excused,
                 overruled>>

\* The Ethernet was chosen with the request; the name is that of the object in memory.
create_dhcp_entries(j) ==
  /\ Acts(j, "create_dhcp_entries")
  /\ Insert([address |-> job[j].address, eth |-> HostOf[j], hostname |-> job[j].mem,
             dhcp_expose |-> TRUE, is_management |-> FALSE])
  /\ job' = [job EXCEPT ![j] = [Returned(j, "create_dhcp_entries") EXCEPT
                                  !.made = created + 1, !.served = job[j].mem]]
  /\ UNCHANGED <<hostname, owner, counter, useCounter, form, issued, excused,
                 overruled>>

\* The job freezes; when the machine has pinged the object is read again.
deploy(j) ==
  /\ MayRun(j, "deploy")
  /\ job' = [job EXCEPT ![j] = [Returned(j, "deploy") EXCEPT !.pc = "frozen"]]
  /\ UNCHANGED <<hostname, ip, created, owner, counter, useCounter, form, issued,
                 excused, overruled>>

Unfreeze(j) ==
  /\ job[j].pc = "frozen"
  /\ job' = [job EXCEPT ![j] = [@ EXCEPT !.pc = "ready", !.mem = hostname[HostOf[j]]]]
  /\ UNCHANGED <<hostname, ip, created, owner, counter, useCounter, form, issued,
                 excused, overruled>>

\* Whatever goes wrong, the transaction of the action is rolled back.
ActionRaises(j) ==
  /\ job[j].pc = "acting" /\ job' = [job EXCEPT ![j] = Ended("failed")]
  /\ UNCHANGED <<hostname, ip, created, owner, counter, useCounter, form, issued,
                 excused, overruled>>

\* All actions are done: the object is saved as the job has it.
StoreObject(j) ==
  /\ job[j].pc = "ready" /\ job[j].done = Actions[j]
  /\ hostname' = [hostname EXCEPT ![HostOf[j]] = job[j].mem]
  /\ job' = [job EXCEPT ![j] = Ended("done")]
  /\ UNCHANGED <<ip, created, owner, counter, useCounter, form, issued, excused,
                 overruled>>

-----------------------------------------------------------------------------
(* Users: NetworkForm, the API and the admin of addresses, the form of the host *)

\* _dhcp_expose_should_lock_fields
Locks(row) == row # None /\ row.dhcp_expose
OldRow(i) == IF i = None THEN None ELSE ip[i]

RowOn(e) == LET ids == {i \in Id : Exists(i) /\ ip[i].eth = e}
            IN IF ids = {} THEN None ELSE CHOOSE i \in ids : TRUE

\* The rows a user may send; the hostname is typed anew or left as it is.
Sent(i, E) ==
  [address : Address, eth : E, dhcp_expose : BOOLEAN, is_management : BOOLEAN,
   hostname : Typed \cup {None, IF i = None THEN None ELSE ip[i].hostname}]

\* A hostname, a MAC address, and no other entry with that hostname.
MayBeExposed(i, new) ==
  /\ new.hostname # None /\ new.eth \in Host
  /\ \A k \in Id \ {i} : IsDhcpEntry(k) => ip[k].hostname # new.hostname

\* What the form makes of a row: one that is exposed keeps all but is_management.
Cleaned(i, new) ==
  IF Locks(OldRow(i)) THEN [ip[i] EXCEPT !.is_management = new.is_management] ELSE new

\* What the form lets through.
Valid(i, new) ==
  /\ new.is_management => \A k \in Of(owner[new.eth]) \ {i} : ~ ip[k].is_management
  /\ Locks(OldRow(i)) \/
       /\ \A k \in Id \ {i} : Exists(k) => ip[k].address # new.address
       /\ new.dhcp_expose => MayBeExposed(i, new)

ReadForm(u) ==
  /\ form[u].pc = "new"
  /\ \E e \in Ether :
       LET i == RowOn(e)
       IN /\ owner[e] # None
          /\ \E new \in {Cleaned(i, row) : row \in Sent(i, {e})} :
               /\ Valid(i, new)
               /\ form' = [form EXCEPT ![u] = [@ EXCEPT !.pc = "save", !.id = i, !.row = new]]
  /\ UNCHANGED <<hostname, ip, created, owner, counter, useCounter, job, issued,
                 excused, overruled>>

\* IPAddress.clean: what is exposed keeps its hostname, address and Ethernet.
Clean(i, new) ==
  LET old == OldRow(i)
  IN /\ Fits(i, new) /\ (new.dhcp_expose => MayBeExposed(i, new))
     /\ Locks(old) => /\ new.hostname = old.hostname
                      /\ new.address = old.address /\ new.eth = old.eth

\* The admin of addresses may take an entry out of the DHCP, the API may not.
Overrules(i, new) == Locks(OldRow(i)) /\ ~ new.dhcp_expose

ReadAddress(u, admin) ==
  /\ form[u].pc = "new"
  /\ \E i \in {None} \cup {k \in Id : Exists(k)} :
       \E new \in Sent(i, {e \in Ether : owner[e] # None}) :
         /\ Clean(i, new) /\ (Overrules(i, new) => admin)
         /\ form' = [form EXCEPT ![u] = [@ EXCEPT !.pc = "save", !.id = i, !.row = new]]
         /\ overruled' = IF Overrules(i, new) THEN overruled \cup {i} ELSE overruled
  /\ UNCHANGED <<hostname, ip, created, owner, counter, useCounter, job, issued,
                 excused>>

ExcuseTyped(n) ==
  excused' = IF n # None /\ Taken(n) THEN excused \cup {n} ELSE excused

SaveForm(u) ==
  /\ form[u].pc = "save"
  /\ IF form[u].id = None THEN Insert(form[u].row)
     ELSE SaveRow(form[u].id, form[u].row) /\ UNCHANGED created
  /\ ExcuseTyped(form[u].row.hostname)
  /\ form' = [form EXCEPT ![u] = Answered]
  /\ UNCHANGED <<hostname, owner, counter, useCounter, job, issued, overruled>>

\* The form and the API do not delete what is exposed, the admin asks nobody.
ReadToDelete(u, admin) ==
  /\ form[u].pc = "new"
  /\ \/ \E i \in Id :
          /\ Exists(i) /\ (ip[i].dhcp_expose => admin)
          /\ form' = [form EXCEPT ![u] = [@ EXCEPT !.pc = "delete", !.id = i]]
          /\ overruled' = IF ip[i].dhcp_expose THEN overruled \cup {i} ELSE overruled
     \/ \E e \in Ether :
          /\ owner[e] # None
          /\ RowOn(e) # None /\ Locks(ip[RowOn(e)]) => admin
          /\ form' = [form EXCEPT ![u] = [@ EXCEPT !.pc = "delete_ethernet", !.id = e]]
          /\ UNCHANGED overruled
  /\ UNCHANGED <<hostname, ip, created, owner, counter, useCounter, job, issued,
                 excused>>

DeleteAddress(u) ==
  /\ form[u].pc = "delete" /\ ip' = Without({form[u].id})
  /\ form' = [form EXCEPT ![u] = Answered]
  /\ UNCHANGED <<hostname, created, owner, counter, useCounter, job, issued, excused,
                 overruled>>

\* The address of the Ethernet is deleted with it.
DeleteEthernet(u) ==
  /\ form[u].pc = "delete_ethernet"
  /\ owner' = [owner EXCEPT ![form[u].id] = None]
  /\ ip' = Without({i \in Id : Exists(i) /\ ip[i].eth = form[u].id})
  /\ form' = [form EXCEPT ![u] = Answered]
  /\ UNCHANGED <<hostname, created, counter, useCounter, job, issued, excused,
                 overruled>>

RejectForm(u) ==
  /\ form[u].pc \in {"save", "delete", "delete_ethernet", "switch"}
  /\ form' = [form EXCEPT ![u] = Answered]
  /\ UNCHANGED <<hostname, ip, created, owner, counter, useCounter, job, issued,
                 excused, overruled>>

RenameHost(u, h, n) ==
  /\ form[u].pc = "new" /\ hostname' = [hostname EXCEPT ![h] = n]
  /\ ExcuseTyped(n)
  /\ form' = [form EXCEPT ![u] = Answered]
  /\ UNCHANGED <<ip, created, owner, counter, useCounter, job, issued, overruled>>

\* The environment stops to use the counter, ...
StopCounter(u) ==
  /\ form[u].pc = "new" /\ useCounter /\ useCounter' = FALSE
  /\ form' = [form EXCEPT ![u] = Answered]
  /\ UNCHANGED <<hostname, ip, created, owner, counter, job, issued, excused,
                 overruled>>

\* ... or is to use it again: update_counter reads the last number, ...
AskNumber(u) ==
  /\ form[u].pc = "new" /\ ~ useCounter
  /\ form' = [form EXCEPT ![u] = [@ EXCEPT !.pc = "switch",
                                           !.number = current_counter_without_model]]
  /\ UNCHANGED <<hostname, ip, created, owner, counter, useCounter, job, issued,
                 excused, overruled>>

\* ... and writes it when no transaction has the row of the counter.
SwitchCounter(u) ==
  /\ form[u].pc = "switch" /\ ~ (\E j \in Job : job[j].locks)
  /\ counter' = form[u].number /\ useCounter' = TRUE
  /\ form' = [form EXCEPT ![u] = Answered]
  /\ UNCHANGED <<hostname, ip, created, owner, job, issued, excused, overruled>>

JobStep(j) ==
  \/ StartJob(j) \/ BeginAction(j) \/ ActionRaises(j) \/ Unfreeze(j) \/ StoreObject(j)
  \/ clean_hostname(j) \/ clean_ipaddresses(j) \/ clean_dhcp(j)
  \/ TakeNumber(j) \/ ReadNumber(j) \/ assign_new_hostname(j)
  \/ (\E n \in Typed : AssignTyped(j, n))
  \/ assign_new_ip(j) \/ assign_additional_hostname(j) \/ replace_ip(j)
  \/ remove_from_dhcp_entries(j) \/ create_dhcp_entries(j) \/ deploy(j)

FormStep(u) ==
  \/ ReadForm(u) \/ SaveForm(u) \/ RejectForm(u)
  \/ (\E admin \in BOOLEAN : ReadAddress(u, admin) \/ ReadToDelete(u, admin))
  \/ DeleteAddress(u) \/ DeleteEthernet(u)
  \/ (\E h \in Host, n \in Typed : RenameHost(u, h, n))
  \/ StopCounter(u) \/ AskNumber(u) \/ SwitchCounter(u)

Next == (\E j \in Job : JobStep(j)) \/ (\E u \in Form : FormStep(u))

Spec == Init /\ [][Next]_vars

-----------------------------------------------------------------------------
(* Properties *)

Holds(h, n) == hostname[h] = n \/ \E i \in Of(h) : ip[i].hostname = n

\* A name that was issued by the counter belongs to one host, in spite of rollbacks,
\* of names that exist already and of objects that are saved as they were; unless
\* somebody typed it afterwards, or got it from an environment without a counter, or
\* a job had read it of another host before it was issued, and may save it again.
\* (issue_next_free_hostname)
IssuedNamesAreUnique ==
  \A n \in issued \ excused, h, k \in Host : Holds(h, n) /\ Holds(k, n) => h = k

\* Without the counter the next name is new, as long as the numbers have as many digits
\* as the template says; then strings are ordered as numbers are.
\* (current_counter_without_model)
NextNameIsNew ==
  (\A n \in Used : n <= Full) => next_counter_without_model \notin Used

\* The entry a deployment has created is served until the deployment ends, for the
\* Ethernet and with the name it had then, whatever the other actions of the job, other
\* jobs, forms and requests with stale copies of rows do meanwhile; unless the Ethernet
\* is deleted, or an administrator asks to unexpose or delete the very address, which
\* only the admin of addresses lets through.  The other fields of the row may change.
\* (create_dhcp_entries, clean_dhcp, NetworkForm, IPAddress.clean)
MadeByUnfinished(j) ==
  Active(j) /\ job[j].made # None /\ owner[HostOf[j]] # None /\ job[j].made \notin overruled
EntriesStay ==
  \A j \in Job : MadeByUnfinished(j) =>
    LET i == job[j].made
    IN /\ Exists(i) /\ ip[i].dhcp_expose
       /\ ip[i].eth = HostOf[j] /\ ip[i].hostname = job[j].served
=============================================================================
