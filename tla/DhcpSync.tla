------------------------------- MODULE DhcpSync -------------------------------
(***************************************************************************)
(* The configuration of DHCP servers: the service that renders it          *)
(* (ralph.dhcp.views), the agents that fetch it (contrib/dhcp_agent) and   *)
(* the deployments that wait for them                                      *)
(* (ralph.deployment.deployment.wait_for_dhcp_servers).                    *)
(*                                                                         *)
(* An agent asks with If-Modified-Since; the service compares it with the  *)
(* latest modification date of the rows, in seconds.  Rows get their date  *)
(* when they are saved and become visible when the transaction commits.    *)
(***************************************************************************)
EXTENDS Integers, FiniteSets, FiniteSetsExt

CONSTANTS
  Row,            \* addresses, networks, ethernets, environments, deployments
  Host,           \* the names a row may be rendered with
  Section,        \* the sections an agent fetches
  Bumps,          \* the sections whose date a row counts for
  Shows,          \* the sections a row is rendered in
  Agent,          \* the DHCP servers, each with its agent
  Writer,         \* requests and jobs that save a row in a transaction
  Writes,         \* the rows each of them may save
  Deployments,    \* the writers that then wait for a DHCP server
  TicksPerSecond,
  MaxTime,        \* the last moment at which a row is saved
  MaxFaults,      \* how many downloads, writes and restarts fail, in all
  None

Second(t) == t \div TicksPerSecond
Rows == [modified : Nat, host : Host \cup {None}]
Content == SUBSET (Row \X Nat)

ASSUME ConfigAssumption ==
  /\ Bumps \in [Row -> SUBSET Section] /\ Shows \in [Row -> SUBSET Section]
  /\ Writes \in [Writer -> SUBSET Row] /\ Deployments \subseteq Writer
  /\ TicksPerSecond \in Nat \ {0} /\ MaxTime \in Nat /\ MaxFaults \in Nat
  /\ None \notin Host \cup Nat \cup Rows

VARIABLES
  now,     \* the clock of the database and the web servers
  row,     \* the committed rows: date of modification, and name if rendered
  writer,  \* the transactions, and the deployments after them
  agent,   \* the agents: cache, files and where a run of theirs is
  synced,  \* DHCPServer.last_synchronized
  missed,  \* observer: what may keep a section of an agent behind
  escaped, \* observer: the same for the answer an agent is waiting for
  faults

vars == <<now, row, writer, agent, synced, missed, escaped, faults>>

\* A transaction, and the deployment after it; an agent and its server.
WriterState ==
  [pc : {"idle", "open", "waiting"}, row : Row \cup {None}, saved : Rows \cup {None},
   created : Nat \cup {None}]
AgentState ==
  [pc : {"ready", "stamped", "answering", "confirm"}, todo : SUBSET Section,
   section : Section \cup {None}, stamp : Nat \cup {None}, body : SUBSET Host,
   taken : SUBSET Section, cache : [Section -> Nat \cup {None}],
   file : [Section -> Content], running : [Section -> Content]]

IdleWriter == [pc |-> "idle", row |-> None, saved |-> None, created |-> None]
NewAgent == [pc |-> "ready", todo |-> Section, section |-> None, stamp |-> None,
             body |-> {},
             taken |-> {}, cache |-> [s \in Section |-> None],
             file |-> [s \in Section |-> {}], running |-> [s \in Section |-> {}]]

\* Types; no row is dated in the future, and a section is asked for once in a run.
TypeOK ==
  /\ now \in Nat /\ faults \in 0..MaxFaults
  /\ row \in [Row -> Rows \cup {None}]
  /\ \A r \in Row : row[r] # None => row[r].modified <= now
  /\ writer \in [Writer -> WriterState] /\ agent \in [Agent -> AgentState]
  /\ \A a \in Agent : agent[a].taken \subseteq Section \ agent[a].todo
  /\ synced \in [Agent -> Nat \cup {None}]
  /\ missed \in [Agent -> [Section -> BOOLEAN]] /\ escaped \in [Agent -> BOOLEAN]

Init ==
  /\ now = 0 /\ faults = 0
  /\ row = [r \in Row |-> None]
  /\ writer = [w \in Writer |-> IdleWriter]
  /\ agent = [a \in Agent |-> NewAgent]
  /\ synced = [a \in Agent |-> None]
  /\ missed = [a \in Agent |-> [s \in Section |-> FALSE]]
  /\ escaped = [a \in Agent |-> FALSE]

-----------------------------------------------------------------------------
(* What the service answers *)

\* get_last_modified: the latest date of the rows that count, None without one.
LastModified(s) ==
  LET dates == {row[r].modified : r \in {q \in Row : row[q] # None /\ s \in Bumps[q]}}
  IN IF dates = {} THEN None ELSE Max(dates)

Shown(s) == {r \in Row : row[r] # None /\ row[r].host # None /\ s \in Shows[r]}

\* _filter_dhcp_entries: hostnames that are there more than once.  (Names of
\* networks are unique.)
Duplicated(s) ==
  {r \in Shown(s) : \E q \in Shown(s) \ {r} : row[q].host = row[r].host}

Rendered(s, excluded) ==
  {<<r, row[r].modified>> : r \in {q \in Shown(s) : row[q].host \notin excluded}}
DuplicatedHosts(s) == {row[r].host : r \in Duplicated(s)}

\* What a request would be answered that is alone.
Current(s) == Rendered(s, DuplicatedHosts(s))

\* LastModifiedMixin.is_modified
IsModified(stamp, since) ==
  since # None /\ stamp # None => Second(stamp) > since

-----------------------------------------------------------------------------
(* Changes of rows.  One that carries a date no later than what an agent has   *)
(* been told, in seconds, and any delete, may escape it.                       *)

Unnoticed(r, s, t, told) ==
  s \in Shows[r] /\ (s \notin Bumps[r] \/ (told # None /\ Second(t) <= told))

Observe(r, t) ==
  /\ missed' = [a \in Agent |-> [s \in Section |->
                  missed[a][s] \/ Unnoticed(r, s, t, agent[a].cache[s])]]
  /\ escaped' = [a \in Agent |->
       escaped[a] \/ (agent[a].pc = "answering"
                      /\ Unnoticed(r, agent[a].section, t, agent[a].stamp))]

Locked(r) == \E w \in Writer : writer[w].pc = "open" /\ writer[w].row = r

\* TimeStampMixin: the date is set when the row is saved, the clock goes on.
SaveRow(w, r, host) ==
  /\ writer[w].pc = "idle" /\ r \in Writes[w] /\ now < MaxTime /\ ~ Locked(r)
  /\ now' = now + 1
  /\ writer' = [writer EXCEPT ![w] = [pc |-> "open", row |-> r,
                                      saved |-> [modified |-> now + 1, host |-> host],
                                      created |-> None]]
  /\ UNCHANGED <<row, agent, synced, missed, escaped, faults>>

\* The transaction ends.  A deployment remembers dhcp_entry_created_date.
CommitRow(w) ==
  /\ writer[w].pc = "open"
  /\ row' = [row EXCEPT ![writer[w].row] = writer[w].saved]
  /\ Observe(writer[w].row, writer[w].saved.modified)
  /\ writer' = IF w \in Deployments THEN [writer EXCEPT ![w] = [IdleWriter EXCEPT
                    !.pc = "waiting", !.created = writer[w].saved.modified]]
               ELSE [writer EXCEPT ![w] = IdleWriter]
  /\ UNCHANGED <<now, agent, synced, faults>>

RollBackRow(w) ==
  /\ writer[w].pc = "open"
  /\ writer' = [writer EXCEPT ![w] = IdleWriter]
  /\ UNCHANGED <<now, row, agent, synced, missed, escaped, faults>>

DeleteRow(r) ==
  /\ row[r] # None /\ ~ Locked(r) /\ now < MaxTime
  /\ now' = now + 1
  /\ row' = [row EXCEPT ![r] = None]
  /\ missed' = [a \in Agent |-> [s \in Section |-> missed[a][s] \/ s \in Shows[r]]]
  /\ escaped' = [a \in Agent |-> escaped[a] \/ agent[a].section \in Shows[r]]
  /\ UNCHANGED <<writer, agent, synced, faults>>

\* Time passes by itself; a confirmation after the last save is later than it.
Tick ==
  /\ now <= MaxTime /\ now' = now + 1
  /\ UNCHANGED <<row, writer, agent, synced, missed, escaped, faults>>

-----------------------------------------------------------------------------
(* A run of an agent: download_and_apply_configuration *)

Same == UNCHANGED <<now, row, writer>>

\* Mutant: the section is not taken off the list.
NextSectionAgain(x) == [x EXCEPT !.pc = "ready", !.section = None, !.stamp = None, !.body = {}]

NextSection(x) == [x EXCEPT !.pc = "ready", !.todo = @ \ {x.section},
                            !.section = None, !.stamp = None, !.body = {}]
EndedRun(x) == [NextSection(x) EXCEPT !.todo = Section, !.taken = {}]

\* The lock file lets one run at a time, so a server has one agent.
Idle(a) == agent[a].pc = "ready" /\ agent[a].todo = Section

\* DHCPConfigMixin.dispatch: the date is looked up before anything else, and
\* decides whether the answer is 304.
AskFor(a, s) ==
  /\ agent[a].pc = "ready" /\ s \in agent[a].todo
  /\ LET asked == [agent[a] EXCEPT !.section = s, !.stamp = LastModified(s)]
     IN agent' = [agent EXCEPT ![a] = IF IsModified(LastModified(s), @.cache[s])
                                      THEN [asked EXCEPT !.pc = "stamped"]
                                      ELSE NextSection(asked)]
  /\ Same /\ UNCHANGED <<synced, missed, escaped, faults>>

\* LastModifiedMixin.dispatch: the view looks for duplicates, the response gets
\* its date, which is that of the moment if there are no rows.
FindDuplicates(a) ==
  LET s == agent[a].section
      stamp == agent[a].stamp
  IN /\ agent[a].pc = "stamped"
     /\ agent' = [agent EXCEPT ![a].pc = "answering", ![a].body = DuplicatedHosts(s),
          ![a].stamp = IF stamp = None THEN Second(now) ELSE Second(stamp)]
     /\ escaped' = [escaped EXCEPT ![a] = FALSE]
     /\ Same /\ UNCHANGED <<synced, missed, faults>>

Received(a, told) ==
  [agent[a] EXCEPT !.cache[agent[a].section] = told]

\* Mutant: the date is that of the moment when the template is rendered.
DownloadLateDate(a) ==
  LET s == agent[a].section
      stamp == LastModified(s)
  IN /\ agent[a].pc = "answering"
     /\ agent' = [agent EXCEPT ![a] = NextSection(
          [Received(a, IF stamp = None THEN Second(now) ELSE Second(stamp))
             EXCEPT !.file[s] = Rendered(s, agent[a].body), !.taken = @ \cup {s}])]
     /\ missed' = [missed EXCEPT ![a][s] = escaped[a]]
     /\ Same /\ UNCHANGED <<synced, escaped, faults>>

\* The template is rendered after the view has returned; the agent remembers the
\* date, and writes the configuration.
Download(a) ==
  LET s == agent[a].section
  IN /\ agent[a].pc = "answering"
     /\ agent' = [agent EXCEPT ![a] = NextSection([Received(a, agent[a].stamp)
             EXCEPT !.file[s] = Rendered(s, agent[a].body), !.taken = @ \cup {s}])]
     /\ missed' = [missed EXCEPT ![a][s] = escaped[a]]
     /\ Same /\ UNCHANGED <<synced, escaped, faults>>

\* service ... restart: the server reads both files.
Restart(a) ==
  /\ agent[a].pc = "ready" /\ agent[a].todo = {} /\ agent[a].taken # {}
  /\ agent' = [agent EXCEPT ![a].pc = "confirm", ![a].running = agent[a].file]
  /\ Same /\ UNCHANGED <<synced, missed, escaped, faults>>

NothingToRestart(a) ==
  /\ agent[a].pc = "ready" /\ agent[a].todo = {} /\ agent[a].taken = {}
  /\ agent' = [agent EXCEPT ![a].pc = "confirm"]
  /\ Same /\ UNCHANGED <<synced, missed, escaped, faults>>

\* _send_sync_confirmation and DHCPSyncView
Confirm(a) ==
  /\ agent[a].pc = "confirm"
  /\ synced' = [synced EXCEPT ![a] = now]
  /\ agent' = [agent EXCEPT ![a] = EndedRun(@)]
  /\ Same /\ UNCHANGED <<missed, escaped, faults>>

-----------------------------------------------------------------------------
(* Faults *)

Fault == faults < MaxFaults /\ faults' = faults + 1

\* Mutant: the date is remembered before the answer is looked at.
DownloadFailsRemembered(a) ==
  /\ agent[a].pc = "answering" /\ Fault
  /\ agent' = [agent EXCEPT ![a] = NextSection(Received(a, agent[a].stamp))]
  /\ Same /\ UNCHANGED <<synced, missed, escaped>>

\* The service answers with an error: this section is left for the next run.
DownloadFails(a) ==
  /\ agent[a].pc \in {"stamped", "answering"} /\ Fault
  /\ agent' = [agent EXCEPT ![a] = NextSection(@)]
  /\ Same /\ UNCHANGED <<synced, missed, escaped>>

Forget(a, S) == [missed EXCEPT ![a] = [s \in Section |-> @[s] \/ s \in S]]

\* IOError, after the date has been remembered: the file is as it was, or empty.
WriteFails(a) ==
  LET s == agent[a].section
  IN /\ agent[a].pc = "answering" /\ Fault
     /\ \E left \in {agent[a].file[s], {}} :
          agent' = [agent EXCEPT ![a] = NextSection([Received(a, agent[a].stamp)
                                                       EXCEPT !.file[s] = left])]
     /\ missed' = Forget(a, {s})
     /\ Same /\ UNCHANGED <<synced, escaped>>

RestartFails(a) ==
  /\ agent[a].pc = "ready" /\ agent[a].todo = {} /\ agent[a].taken # {} /\ Fault
  /\ agent' = [agent EXCEPT ![a].pc = "confirm"]
  /\ missed' = Forget(a, agent[a].taken)
  /\ Same /\ UNCHANGED <<synced, escaped>>

\* URLError is not caught: the run ends, without a restart or a confirmation.
\* So does one that is killed, before or after it has remembered the date.
RunDies(a) ==
  /\ ~ Idle(a) /\ agent[a].pc # "confirm" /\ Fault
  /\ \/ /\ agent' = [agent EXCEPT ![a] = EndedRun(@)]
        /\ missed' = Forget(a, agent[a].taken)
     \/ /\ agent[a].pc = "answering"
        /\ agent' = [agent EXCEPT ![a] = EndedRun(Received(a, agent[a].stamp))]
        /\ missed' = Forget(a, agent[a].taken \cup {agent[a].section})
  /\ Same /\ UNCHANGED <<synced, escaped>>

\* The confirmation is refused, or the run ends before it.
ConfirmFails(a) ==
  /\ agent[a].pc = "confirm" /\ Fault
  /\ agent' = [agent EXCEPT ![a] = EndedRun(@)]
  /\ Same /\ UNCHANGED <<synced, missed, escaped>>

-----------------------------------------------------------------------------
(* wait_for_dhcp_servers: a poll finds a later date, or compares with none *)

\* Mutant: the dates are compared the other way round.
ProceedBackwards(w) ==
  /\ writer[w].pc = "waiting"
  /\ \E a \in Agent : synced[a] # None /\ writer[w].created > synced[a]
  /\ writer' = [writer EXCEPT ![w] = IdleWriter]
  /\ UNCHANGED <<now, row, agent, synced, missed, escaped, faults>>

Proceed(w) ==
  /\ writer[w].pc = "waiting"
  /\ \E a \in Agent : synced[a] # None /\ writer[w].created < synced[a]
  /\ writer' = [writer EXCEPT ![w] = IdleWriter]
  /\ UNCHANGED <<now, row, agent, synced, missed, escaped, faults>>

RaiseTypeError(w) ==
  /\ writer[w].pc = "waiting" /\ \E a \in Agent : synced[a] = None
  /\ writer' = [writer EXCEPT ![w] = IdleWriter]
  /\ UNCHANGED <<now, row, agent, synced, missed, escaped, faults>>

AgentStep(a) ==
  \/ (\E s \in Section : AskFor(a, s)) \/ FindDuplicates(a) \/ Download(a)
  \/ Restart(a) \/ NothingToRestart(a) \/ Confirm(a)

AgentFault(a) ==
  DownloadFails(a) \/ WriteFails(a) \/ RestartFails(a) \/ RunDies(a) \/ ConfirmFails(a)

Next ==
  \/ \E w \in Writer, r \in Row, h \in Host \cup {None} : SaveRow(w, r, h)
  \/ \E w \in Writer : CommitRow(w) \/ RollBackRow(w) \/ Proceed(w) \/ RaiseTypeError(w)
  \/ \E r \in Row : DeleteRow(r)
  \/ Tick
  \/ \E a \in Agent : AgentStep(a) \/ AgentFault(a)

\* Agents are run again and again (cron), a job goes on polling, time passes.
Fairness ==
  /\ WF_vars(Tick)
  /\ \A a \in Agent : WF_vars(AgentStep(a))
  /\ \A w \in Writer : WF_vars(Proceed(w) \/ RaiseTypeError(w))

Spec == Init /\ [][Next]_vars /\ Fairness

-----------------------------------------------------------------------------
(* Properties *)

\* When an agent has nothing to do, its server runs what the service renders, or the
\* next request will be answered in full; unless a change carried a date the agent had
\* been told already, something was deleted, or a step after the download failed.
\* (LastModifiedMixin.is_modified, DHCPConfigManager)
OnlyEscapedIsMissed ==
  \A a \in Agent, s \in Section : Idle(a) =>
    \/ agent[a].running[s] = Current(s)
    \/ IsModified(LastModified(s), agent[a].cache[s])
    \/ missed[a][s]

\* Failed downloads are made up for: in the end every server runs what is rendered, but
\* for what escapes it.  (_get_configuration, which remembers nothing then)
ChangesArrive ==
  \A a \in Agent, s \in Section :
    <>[](agent[a].running[s] = Current(s) \/ missed[a][s])

\* A deployment does not wait for ever for a DHCP server that runs its agent.
\* (wait_for_dhcp_servers)
WaitEnds ==
  \A w \in Deployments : writer[w].pc = "waiting" ~> writer[w].pc # "waiting"
=============================================================================
