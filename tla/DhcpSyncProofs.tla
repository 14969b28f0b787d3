---------------------------- MODULE DhcpSyncProofs ----------------------------
(***************************************************************************)
(* Proofs about DhcpSync for any rows, sections, agents and transactions,  *)
(* any times and any number of faults.                                     *)
(***************************************************************************)
EXTENDS DhcpSync, WellFoundedInduction, TLAPS

-----------------------------------------------------------------------------
(* The inductive invariant *)

\* A transaction that is open has saved a row.
WritersAreRight ==
  \A w \in Writer : writer[w].pc = "open" =>
    writer[w].row \in Row /\ writer[w].saved \in Rows /\ writer[w].saved.modified <= now

\* An agent that has asked has asked for a section, and is answered with a date.
StageIsRight(a) ==
  /\ agent[a].pc \in {"stamped", "answering"} => agent[a].section \in Section
  /\ agent[a].pc = "answering" => agent[a].stamp \in Nat

\* A row that is rendered in the section s is newer than what an agent has been told.
Newer(s, told) ==
  \E r \in Row : /\ row[r] # None /\ s \in Bumps[r] /\ s \in Shows[r]
                 /\ Second(row[r].modified) > told

\* What an agent has written, ...
FilesAreRight(a) ==
  \A s \in Section :
    \/ agent[a].file[s] = Current(s) \/ agent[a].cache[s] = None
    \/ Newer(s, agent[a].cache[s]) \/ missed[a][s]

\* ... what it is about to get for the section it has asked for, ...
AnswerIsRight(a) ==
  agent[a].pc = "answering" =>
    \/ Rendered(agent[a].section, agent[a].body) = Current(agent[a].section)
    \/ Newer(agent[a].section, agent[a].stamp) \/ escaped[a]

\* ... and what its server runs: the file, unless it is yet to be restarted.
ServerIsRight(a) ==
  \A s \in Section :
    \/ agent[a].running[s] = agent[a].file[s] \/ missed[a][s]
    \/ s \in agent[a].taken /\ agent[a].pc # "confirm"

AgentIsRight(a) ==
  StageIsRight(a) /\ FilesAreRight(a) /\ AnswerIsRight(a) /\ ServerIsRight(a)

IInv == TypeOK /\ WritersAreRight /\ \A a \in Agent : AgentIsRight(a)

-----------------------------------------------------------------------------
(* Dates *)

LEMMA SecondIsNat ==
  ASSUME NEW t \in Nat
  PROVE  Second(t) \in Nat
  BY ConfigAssumption DEF Second

LEMMA SecondsGrow ==
  ASSUME NEW t \in Nat, NEW u \in Nat, t <= u
  PROVE  Second(t) <= Second(u)
  BY ConfigAssumption DEF Second

\* Every set of natural numbers has a least one.
LEMMA LeastOf ==
  ASSUME NEW T \in SUBSET Nat, T # {}
  PROVE  \E n \in T : \A m \in T : n <= m
<1> DEFINE R == OpToRel(<, Nat)
<1>1. IsWellFoundedOn(R, Nat)
  BY NatLessThanWellFounded
<1>2. R = {p \in Nat \X Nat : p[1] < p[2]}
  BY DEF OpToRel
<1> HIDE DEF R
<1>3. PICK n \in T : \A m \in T : ~ (<<m, n>> \in R)
  BY <1>1, WFMin
<1>4. \A m, k \in Nat : m < k => <<m, k>> \in R
  BY <1>2
<1>5. n \in Nat /\ \A m \in T : m \in Nat /\ ~ (m < n)
  BY <1>3, <1>4
<1> QED
  BY <1>5

\* Max of a set that is bounded.
LEMMA MaxOf ==
  ASSUME NEW S \in SUBSET Nat, S # {}, NEW b \in Nat, \A m \in S : m <= b
  PROVE  Max(S) \in S /\ \A m \in S : m <= Max(S)
<1> DEFINE T == {n \in Nat : \A m \in S : m <= n}
<1>1. T \in SUBSET Nat /\ b \in T
  OBVIOUS
<1>2. PICK n \in T : \A m \in T : n <= m
  BY <1>1, LeastOf
<1>3. n \in Nat /\ \A m \in S : m <= n
  BY <1>2
<1>4. n \in S
  <2> SUFFICES ASSUME n \notin S
               PROVE  FALSE
    OBVIOUS
  <2>1. \A m \in S : m \in Nat /\ m <= n - 1
    BY <1>3
  <2>2. n - 1 \in T
    <3>1. PICK m \in S : TRUE
      OBVIOUS
    <3>2. n - 1 \in Nat
      BY <1>3, <2>1, <3>1
    <3> QED
      BY <2>1, <3>2
  <2> QED
    BY <1>2, <1>3, <2>2
<1> QED
  BY <1>3, <1>4 DEF Max

\* The date of a section is no earlier than that of any row that counts for it.
LEMMA LatestDate ==
  ASSUME TypeOK, NEW s \in Section
  PROVE  /\ LastModified(s) \in Nat \cup {None}
         /\ \A r \in Row : row[r] # None /\ s \in Bumps[r] =>
              LastModified(s) \in Nat /\ row[r].modified <= LastModified(s)
<1> DEFINE dates == {row[r].modified : r \in {q \in Row : row[q] # None /\ s \in Bumps[q]}}
<1>1. \A r \in Row : row[r] # None => row[r].modified \in Nat /\ row[r].modified <= now
  BY DEF TypeOK, Rows
<1>2. dates \in SUBSET Nat /\ \A m \in dates : m <= now
  BY <1>1
<1>3. \A r \in Row : row[r] # None /\ s \in Bumps[r] => row[r].modified \in dates
  OBVIOUS
<1>4. LastModified(s) = IF dates = {} THEN None ELSE Max(dates)
  BY DEF LastModified
<1>5. now \in Nat
  BY DEF TypeOK
<1> HIDE DEF dates
<1>6. CASE dates = {}
  BY <1>3, <1>4, <1>6
<1>7. CASE dates # {}
  <2>1. Max(dates) \in dates /\ \A m \in dates : m <= Max(dates)
    BY <1>2, <1>5, <1>7, MaxOf
  <2> QED
    BY <1>2, <1>3, <1>4, <1>7, <2>1
<1> QED
  BY <1>6, <1>7

\* What is newer is asked for.
LEMMA NewerIsModified ==
  ASSUME TypeOK, NEW s \in Section, NEW told \in Nat, Newer(s, told)
  PROVE  IsModified(LastModified(s), told)
<1>1. PICK r \in Row : /\ row[r] # None /\ s \in Bumps[r] /\ s \in Shows[r]
                       /\ Second(row[r].modified) > told
  BY DEF Newer
<1>2. LastModified(s) \in Nat /\ row[r].modified <= LastModified(s)
  BY <1>1, LatestDate
<1>3. row[r].modified \in Nat
  BY <1>1 DEF TypeOK, Rows
<1>4. /\ Second(row[r].modified) <= Second(LastModified(s))
      /\ Second(row[r].modified) \in Nat /\ Second(LastModified(s)) \in Nat
  BY <1>2, <1>3, SecondsGrow, SecondIsNat
<1> QED
  BY <1>1, <1>4 DEF IsModified

-----------------------------------------------------------------------------
(* What is rendered *)

LEMMA RenderedTyped ==
  ASSUME TypeOK, NEW s
  PROVE  DuplicatedHosts(s) \in SUBSET Host /\ \A x : Rendered(s, x) \in Content
<1>1. \A r \in Shown(s) : r \in Row /\ row[r].host \in Host /\ row[r].modified \in Nat
  BY DEF Shown, TypeOK, Rows
<1>2. DuplicatedHosts(s) \in SUBSET Host
  BY <1>1 DEF DuplicatedHosts, Duplicated
<1>3. ASSUME NEW x
      PROVE  Rendered(s, x) \in Content
  BY <1>1 DEF Rendered, Content
<1> QED
  BY <1>2, <1>3

\* Rows that are not shown in a section do not change what it is, nor what is newer in it.
LEMMA RenderedStays ==
  ASSUME NEW s, \A r \in Row : s \in Shows[r] => row'[r] = row[r]
  PROVE  /\ Current(s)' = Current(s)
         /\ \A x : Rendered(s, x)' = Rendered(s, x)
         /\ \A told : Newer(s, told) => Newer(s, told)'
<1>1. Shown(s)' = Shown(s) /\ \A r \in Shown(s) : row'[r] = row[r]
  BY DEF Shown
<1>2. Duplicated(s)' = Duplicated(s)
  BY <1>1 DEF Duplicated
<1>3. \A r \in Duplicated(s) : row'[r] = row[r]
  BY <1>1 DEF Duplicated
<1>4. DuplicatedHosts(s)' = DuplicatedHosts(s)
  BY <1>2, <1>3 DEF DuplicatedHosts
<1>5. \A x : Rendered(s, x)' = Rendered(s, x)
  BY <1>1 DEF Rendered
<1>6. Current(s)' = Current(s)
  BY <1>4, <1>5 DEF Current
<1>7. \A told : Newer(s, told) => Newer(s, told)'
  BY DEF Newer
<1> QED
  BY <1>5, <1>6, <1>7

-----------------------------------------------------------------------------
(* Changes of rows *)

\* A change of one row: the sections that show it are behind from now on, unless it carries
\* a date that is newer than what the agent was told.
LEMMA RowChanges ==
  ASSUME TypeOK, NEW r \in Row, \A q \in Row \ {r} : row'[q] = row[q], UNCHANGED agent,
         NEW a \in Agent, AgentIsRight(a),
         \A s \in Section :
           /\ missed[a][s] => missed'[a][s]
           /\ s \in Shows[r] => \/ missed'[a][s] \/ agent[a].cache[s] = None
                                \/ Newer(s, agent[a].cache[s])',
         /\ escaped[a] => escaped'[a]
         /\ agent[a].pc = "answering" /\ agent[a].section \in Shows[r] =>
              escaped'[a] \/ Newer(agent[a].section, agent[a].stamp)'
  PROVE  AgentIsRight(a)'
<1>1. StageIsRight(a)' /\ ServerIsRight(a)'
  BY DEF AgentIsRight, StageIsRight, ServerIsRight
<1>2. ASSUME NEW s \in Section, s \notin Shows[r]
      PROVE  /\ Current(s)' = Current(s)
             /\ \A x : Rendered(s, x)' = Rendered(s, x)
             /\ \A told : Newer(s, told) => Newer(s, told)'
  BY <1>2, RenderedStays
<1>3. FilesAreRight(a)'
  <2> SUFFICES ASSUME NEW s \in Section
               PROVE  \/ agent[a].file[s] = Current(s)' \/ agent[a].cache[s] = None
                      \/ Newer(s, agent[a].cache[s])' \/ missed'[a][s]
    BY DEF FilesAreRight
  <2>1. CASE s \in Shows[r]
    BY <2>1
  <2>2. CASE s \notin Shows[r]
    BY <1>2, <2>2 DEF AgentIsRight, FilesAreRight
  <2> QED
    BY <2>1, <2>2
<1>4. AnswerIsRight(a)'
  <2> SUFFICES ASSUME agent[a].pc = "answering"
               PROVE  \/ Rendered(agent[a].section, agent[a].body)' = Current(agent[a].section)'
                      \/ Newer(agent[a].section, agent[a].stamp)' \/ escaped'[a]
    BY DEF AnswerIsRight
  <2> DEFINE s == agent[a].section
  <2>1. s \in Section
    BY DEF AgentIsRight, StageIsRight
  <2>2. \/ Rendered(s, agent[a].body) = Current(s) \/ Newer(s, agent[a].stamp) \/ escaped[a]
    BY DEF AgentIsRight, AnswerIsRight
  <2>3. CASE s \in Shows[r]
    BY <2>3
  <2>4. CASE s \notin Shows[r]
    BY <1>2, <2>1, <2>2, <2>4
  <2> QED
    BY <2>3, <2>4
<1> QED
  BY <1>1, <1>3, <1>4 DEF AgentIsRight

\* A change that does not escape the agents is one they will ask for.
LEMMA NoticedIsNewer ==
  ASSUME NEW r \in Row, NEW s, NEW told, row'[r] # None, s \in Shows[r], told # None,
         ~ Unnoticed(r, s, row'[r].modified, told), row'[r].modified \in Nat, told \in Nat
  PROVE  Newer(s, told)'
<1>1. Second(row'[r].modified) \in Nat
  BY SecondIsNat
<1>2. s \in Bumps[r] /\ Second(row'[r].modified) > told
  BY <1>1 DEF Unnoticed
<1>3. Second(row'[r].modified) = Second(row[r].modified)'
  BY DEF Second
<1> QED
  BY <1>2, <1>3 DEF Newer

LEMMA CommitInv ==
  ASSUME IInv, NEW w \in Writer, CommitRow(w)
  PROVE  IInv'
<1> DEFINE r == writer[w].row
           new == writer[w].saved
<1>1. /\ writer[w].pc = "open" /\ row' = [row EXCEPT ![r] = new] /\ Observe(r, new.modified)
      /\ UNCHANGED <<now, agent, synced, faults>>
  BY DEF CommitRow
<1>2. /\ TypeOK /\ r \in Row /\ new \in Rows /\ new.modified <= now /\ new # None
      /\ new.modified \in Nat
  BY <1>1, ConfigAssumption DEF IInv, WritersAreRight, Rows
<1>3. PICK x \in WriterState : writer' = [writer EXCEPT ![w] = x] /\ x.pc # "open"
  <2>1. IdleWriter \in WriterState /\ IdleWriter.pc = "idle"
    BY DEF IdleWriter, WriterState
  <2> DEFINE y == [IdleWriter EXCEPT !.pc = "waiting", !.created = new.modified]
  <2>2. y \in WriterState /\ y.pc = "waiting"
    BY <1>2, <2>1 DEF WriterState
  <2> HIDE DEF new
  <2>3. writer' = [writer EXCEPT ![w] = y] \/ writer' = [writer EXCEPT ![w] = IdleWriter]
    BY DEF CommitRow, new
  <2> HIDE DEF y
  <2> QED
    BY <2>1, <2>2, <2>3
<1> HIDE DEF r, new
<1>4. row'[r] = new /\ \A q \in Row \ {r} : row'[q] = row[q]
  BY <1>1, <1>2 DEF TypeOK
<1>5. row' \in [Row -> Rows \cup {None}]
  BY <1>1, <1>2 DEF TypeOK
<1>6. \A q \in Row : row'[q] # None => row'[q].modified <= now
  BY <1>2, <1>4 DEF TypeOK
<1>7. /\ missed' \in [Agent -> [Section -> BOOLEAN]] /\ escaped' \in [Agent -> BOOLEAN]
      /\ \A a \in Agent, s \in Section :
           missed'[a][s] = (missed[a][s] \/ Unnoticed(r, s, new.modified, agent[a].cache[s]))
      /\ \A a \in Agent :
           escaped'[a] = (escaped[a] \/ (agent[a].pc = "answering"
                            /\ Unnoticed(r, agent[a].section, new.modified, agent[a].stamp)))
  <2>1. /\ missed \in [Agent -> [Section -> BOOLEAN]] /\ escaped \in [Agent -> BOOLEAN]
    BY <1>2 DEF TypeOK
  <2>2. /\ missed' = [a \in Agent |-> [s \in Section |->
                        missed[a][s] \/ Unnoticed(r, s, new.modified, agent[a].cache[s])]]
        /\ escaped' = [a \in Agent |->
             escaped[a] \/ (agent[a].pc = "answering"
                            /\ Unnoticed(r, agent[a].section, new.modified, agent[a].stamp))]
    BY <1>1 DEF Observe
  <2>3. \A s, t, told : Unnoticed(r, s, t, told) \in BOOLEAN
    BY DEF Unnoticed
  <2> QED
    BY <2>1, <2>2, <2>3
<1>8. /\ writer' \in [Writer -> WriterState]
      /\ \A v \in Writer : writer'[v].pc = "open" => writer'[v] = writer[v]
  BY <1>2, <1>3 DEF TypeOK
<1>9. TypeOK'
  BY <1>1, <1>2, <1>5, <1>6, <1>7, <1>8 DEF TypeOK
<1>10. WritersAreRight'
  BY <1>1, <1>8 DEF IInv, WritersAreRight
<1>11. ASSUME NEW a \in Agent
       PROVE  AgentIsRight(a)'
  <2>1. AgentIsRight(a) /\ agent[a] \in AgentState /\ agent' = agent
    BY <1>1, <1>2 DEF IInv, TypeOK
  <2>2. ASSUME NEW s \in Section, s \in Shows[r], ~ missed'[a][s], agent[a].cache[s] # None
        PROVE  Newer(s, agent[a].cache[s])'
    <3>1. agent[a].cache[s] \in Nat
      BY <2>1, <2>2 DEF AgentState
    <3>2. ~ Unnoticed(r, s, row'[r].modified, agent[a].cache[s])
      BY <1>4, <1>7, <2>2
    <3>3. row'[r] # None /\ row'[r].modified \in Nat
      BY <1>2, <1>4
    <3> QED
      BY <1>2, <2>1, <2>2, <3>1, <3>2, <3>3, NoticedIsNewer
  <2>3. ASSUME agent[a].pc = "answering", agent[a].section \in Shows[r], ~ escaped'[a]
        PROVE  Newer(agent[a].section, agent[a].stamp)'
    <3>1. agent[a].stamp \in Nat /\ agent[a].stamp # None
      BY <2>1, <2>3, ConfigAssumption DEF AgentIsRight, StageIsRight
    <3>2. ~ Unnoticed(r, agent[a].section, row'[r].modified, agent[a].stamp)
      BY <1>4, <1>7, <2>3
    <3>3. row'[r] # None /\ row'[r].modified \in Nat
      BY <1>2, <1>4
    <3> QED
      BY <1>2, <2>1, <2>3, <3>1, <3>2, <3>3, NoticedIsNewer
  <2>4. /\ \A s \in Section : missed[a][s] => missed'[a][s]
        /\ escaped[a] => escaped'[a]
    BY <1>7
  <2> QED
    BY <1>2, <1>4, <2>1, <2>2, <2>3, <2>4, RowChanges
<1> QED
  BY <1>9, <1>10, <1>11 DEF IInv

LEMMA DeleteInv ==
  ASSUME IInv, NEW r \in Row, DeleteRow(r)
  PROVE  IInv'
<1>1. /\ now' = now + 1 /\ row' = [row EXCEPT ![r] = None]
      /\ missed' = [a \in Agent |-> [s \in Section |-> missed[a][s] \/ s \in Shows[r]]]
      /\ escaped' = [a \in Agent |-> escaped[a] \/ agent[a].section \in Shows[r]]
      /\ UNCHANGED <<writer, agent, synced, faults>>
  BY DEF DeleteRow
<1>2. TypeOK
  BY DEF IInv
<1>3. now \in Nat /\ now' \in Nat /\ now <= now'
  BY <1>1, <1>2 DEF TypeOK
<1>4. row'[r] = None /\ \A q \in Row \ {r} : row'[q] = row[q]
  BY <1>1, <1>2 DEF TypeOK
<1>5. row' \in [Row -> Rows \cup {None}]
  BY <1>1, <1>2 DEF TypeOK
<1>6. \A q \in Row : row'[q] # None => row'[q].modified <= now'
  <2> SUFFICES ASSUME NEW q \in Row, row'[q] # None
               PROVE  row'[q].modified <= now'
    OBVIOUS
  <2>1. row'[q] = row[q] /\ row[q] \in Rows /\ row[q].modified <= now
    BY <1>2, <1>4 DEF TypeOK
  <2>2. row[q].modified \in Nat
    BY <2>1 DEF Rows
  <2> QED
    BY <1>3, <2>1, <2>2
<1>7. missed \in [Agent -> [Section -> BOOLEAN]] /\ escaped \in [Agent -> BOOLEAN]
  BY <1>2 DEF TypeOK
<1>8. missed' \in [Agent -> [Section -> BOOLEAN]] /\ escaped' \in [Agent -> BOOLEAN]
  BY <1>1, <1>7
<1>9. TypeOK'
  BY <1>1, <1>2, <1>3, <1>5, <1>6, <1>8 DEF TypeOK
<1>10. WritersAreRight'
  <2> SUFFICES ASSUME NEW w \in Writer, writer[w].pc = "open"
               PROVE  /\ writer[w].row \in Row /\ writer[w].saved \in Rows
                      /\ writer[w].saved.modified <= now'
    BY <1>1 DEF WritersAreRight
  <2>1. /\ writer[w].row \in Row /\ writer[w].saved \in Rows
        /\ writer[w].saved.modified <= now
    BY DEF IInv, WritersAreRight
  <2>2. writer[w].saved.modified \in Nat
    BY <2>1 DEF Rows
  <2> QED
    BY <1>3, <2>1, <2>2
<1>11. ASSUME NEW a \in Agent
       PROVE  AgentIsRight(a)'
  <2>1. /\ \A s \in Section : missed'[a][s] = (missed[a][s] \/ s \in Shows[r])
        /\ escaped'[a] = (escaped[a] \/ agent[a].section \in Shows[r])
    BY <1>1
  <2>2. AgentIsRight(a) /\ agent' = agent
    BY <1>1 DEF IInv
  <2> QED
    BY <1>2, <1>4, <2>1, <2>2, RowChanges
<1> QED
  BY <1>9, <1>10, <1>11 DEF IInv

-----------------------------------------------------------------------------
(* Transactions, deployments and time *)

\* Steps that leave the rows and the agents alone.
LEMMA AgentsStay ==
  ASSUME NEW a, AgentIsRight(a), UNCHANGED <<row, agent, missed, escaped>>
  PROVE  AgentIsRight(a)'
<1>1. \A s : Current(s)' = Current(s) /\ (\A x : Rendered(s, x)' = Rendered(s, x))
             /\ \A told : Newer(s, told) => Newer(s, told)'
  BY RenderedStays
<1>2. StageIsRight(a)' /\ ServerIsRight(a)'
  BY DEF AgentIsRight, StageIsRight, ServerIsRight
<1>3. FilesAreRight(a)'
  BY <1>1 DEF AgentIsRight, FilesAreRight
<1>4. AnswerIsRight(a)'
  BY <1>1 DEF AgentIsRight, AnswerIsRight
<1> QED
  BY <1>2, <1>3, <1>4 DEF AgentIsRight

LEMMA WriterSteps ==
  ASSUME IInv, NEW w \in Writer, NEW x \in WriterState, now' \in Nat, now <= now',
         writer' = [writer EXCEPT ![w] = x] \/ writer' = writer,
         x.pc = "open" => x.row \in Row /\ x.saved \in Rows /\ x.saved.modified <= now',
         UNCHANGED <<row, agent, synced, missed, escaped, faults>>
  PROVE  IInv'
<1>1. TypeOK /\ now \in Nat
  BY DEF IInv, TypeOK
<1>2. writer' \in [Writer -> WriterState] /\ \A v \in Writer : writer'[v] \in {x, writer[v]}
  BY <1>1 DEF TypeOK
<1>3. \A q \in Row : row[q] # None => row[q].modified <= now'
  <2> SUFFICES ASSUME NEW q \in Row, row[q] # None
               PROVE  row[q].modified <= now'
    OBVIOUS
  <2>1. row[q].modified \in Nat /\ row[q].modified <= now
    BY <1>1 DEF TypeOK, Rows
  <2> QED
    BY <1>1, <2>1
<1>4. TypeOK'
  BY <1>1, <1>2, <1>3 DEF TypeOK
<1>5. WritersAreRight'
  <2> SUFFICES ASSUME NEW v \in Writer, writer'[v].pc = "open"
               PROVE  /\ writer'[v].row \in Row /\ writer'[v].saved \in Rows
                      /\ writer'[v].saved.modified <= now'
    BY DEF WritersAreRight
  <2>1. CASE writer'[v] = x
    BY <2>1
  <2>2. CASE writer'[v] = writer[v]
    <3>1. /\ writer[v].row \in Row /\ writer[v].saved \in Rows
          /\ writer[v].saved.modified <= now
      BY <2>2 DEF IInv, WritersAreRight
    <3>2. writer[v].saved.modified \in Nat
      BY <3>1 DEF Rows
    <3> QED
      BY <1>1, <2>2, <3>1, <3>2
  <2> QED
    BY <1>2, <2>1, <2>2
<1> QED
  BY <1>4, <1>5, AgentsStay DEF IInv

LEMMA SaveInv ==
  ASSUME IInv, NEW w \in Writer, NEW r \in Row, NEW h \in Host \cup {None}, SaveRow(w, r, h)
  PROVE  IInv'
<1> DEFINE saved == [modified |-> now + 1, host |-> h]
           x == [pc |-> "open", row |-> r, saved |-> saved, created |-> None]
<1>1. /\ now' = now + 1 /\ writer' = [writer EXCEPT ![w] = x]
      /\ UNCHANGED <<row, agent, synced, missed, escaped, faults>>
  BY DEF SaveRow
<1>2. now' \in Nat /\ now <= now'
  BY <1>1 DEF IInv, TypeOK
<1>3. saved \in Rows /\ saved.modified <= now'
  BY <1>1, <1>2 DEF Rows
<1>4. x \in WriterState /\ x.row = r /\ x.saved = saved
  BY <1>3 DEF WriterState
<1> HIDE DEF x, saved
<1> QED
  BY <1>1, <1>2, <1>3, <1>4, WriterSteps

LEMMA WaitInv ==
  ASSUME IInv, NEW w \in Writer, RollBackRow(w) \/ Proceed(w) \/ RaiseTypeError(w)
  PROVE  IInv'
<1>1. /\ writer' = [writer EXCEPT ![w] = IdleWriter]
      /\ UNCHANGED <<now, row, agent, synced, missed, escaped, faults>>
  BY DEF RollBackRow, Proceed, RaiseTypeError
<1>2. IdleWriter \in WriterState /\ IdleWriter.pc = "idle"
  BY DEF IdleWriter, WriterState
<1>3. now' \in Nat /\ now <= now'
  BY <1>1 DEF IInv, TypeOK
<1> QED
  BY <1>1, <1>2, <1>3, WriterSteps

LEMMA TickInv ==
  ASSUME IInv, Tick
  PROVE  IInv'
<1>1. now' = now + 1 /\ UNCHANGED <<row, writer, agent, synced, missed, escaped, faults>>
  BY DEF Tick
<1>2. now \in Nat /\ now' \in Nat /\ now <= now'
  BY <1>1 DEF IInv, TypeOK
<1>3. \A q \in Row : row[q] # None => row[q].modified <= now'
  <2> SUFFICES ASSUME NEW q \in Row, row[q] # None
               PROVE  row[q].modified <= now'
    OBVIOUS
  <2>1. row[q].modified \in Nat /\ row[q].modified <= now
    BY DEF IInv, TypeOK, Rows
  <2> QED
    BY <1>2, <2>1
<1>4. TypeOK'
  BY <1>1, <1>2, <1>3 DEF IInv, TypeOK
<1>5. WritersAreRight'
  <2> SUFFICES ASSUME NEW w \in Writer, writer[w].pc = "open"
               PROVE  /\ writer[w].row \in Row /\ writer[w].saved \in Rows
                      /\ writer[w].saved.modified <= now'
    BY <1>1 DEF WritersAreRight
  <2>1. /\ writer[w].row \in Row /\ writer[w].saved \in Rows
        /\ writer[w].saved.modified <= now
    BY DEF IInv, WritersAreRight
  <2>2. writer[w].saved.modified \in Nat
    BY <2>1 DEF Rows
  <2> QED
    BY <1>2, <2>1, <2>2
<1> QED
  BY <1>1, <1>4, <1>5, AgentsStay DEF IInv

-----------------------------------------------------------------------------
(* Runs of agents *)

\* A run goes on to the next section, or ends, with what it has.
LEMMA NextSectionIs ==
  ASSUME NEW y \in AgentState
  PROVE  /\ NextSection(y) \in AgentState /\ NextSection(y).pc = "ready"
         /\ NextSection(y).todo = y.todo \ {y.section} /\ NextSection(y).taken = y.taken
         /\ NextSection(y).cache = y.cache /\ NextSection(y).file = y.file
         /\ NextSection(y).running = y.running
  BY DEF NextSection, AgentState

LEMMA EndedRunIs ==
  ASSUME NEW y \in AgentState
  PROVE  /\ EndedRun(y) \in AgentState /\ EndedRun(y).pc = "ready"
         /\ EndedRun(y).taken = {}
         /\ EndedRun(y).cache = y.cache /\ EndedRun(y).file = y.file
         /\ EndedRun(y).running = y.running
<1> DEFINE z == NextSection(y)
<1>1. /\ z \in AgentState /\ z.pc = "ready" /\ z.cache = y.cache /\ z.file = y.file
      /\ z.running = y.running
  BY NextSectionIs
<1>2. EndedRun(y) = [z EXCEPT !.todo = Section, !.taken = {}]
  BY DEF EndedRun
<1> HIDE DEF z
<1> QED
  BY <1>1, <1>2 DEF AgentState

LEMMA ReceivedIs ==
  ASSUME TypeOK, NEW a \in Agent, NEW told \in Nat, agent[a].section \in Section
  PROVE  /\ Received(a, told) \in AgentState
         /\ Received(a, told).cache = [agent[a].cache EXCEPT ![agent[a].section] = told]
         /\ Received(a, told).section = agent[a].section
         /\ Received(a, told).todo = agent[a].todo /\ Received(a, told).taken = agent[a].taken
         /\ Received(a, told).file = agent[a].file /\ Received(a, told).running = agent[a].running
<1>1. agent[a] \in AgentState
  BY DEF TypeOK
<1> DEFINE c == [agent[a].cache EXCEPT ![agent[a].section] = told]
<1>2. c \in [Section -> Nat \cup {None}]
  BY <1>1 DEF AgentState
<1>3. Received(a, told) = [agent[a] EXCEPT !.cache = c]
  BY <1>1 DEF Received, AgentState
<1> HIDE DEF c
<1>4. /\ [agent[a] EXCEPT !.cache = c] \in AgentState
      /\ [agent[a] EXCEPT !.cache = c].cache = c
      /\ [agent[a] EXCEPT !.cache = c].section = agent[a].section
      /\ [agent[a] EXCEPT !.cache = c].todo = agent[a].todo
      /\ [agent[a] EXCEPT !.cache = c].taken = agent[a].taken
      /\ [agent[a] EXCEPT !.cache = c].file = agent[a].file
      /\ [agent[a] EXCEPT !.cache = c].running = agent[a].running
  BY <1>1, <1>2 DEF AgentState
<1> QED
  BY <1>3, <1>4 DEF c

\* The agent a gets to be x; the rows and the others stay.
LEMMA AgentTo ==
  ASSUME IInv, NEW a \in Agent, NEW x \in AgentState, agent' = [agent EXCEPT ![a] = x], Same,
         x.taken \subseteq Section \ x.todo,
         missed' \in [Agent -> [Section -> BOOLEAN]], escaped' \in [Agent -> BOOLEAN],
         \A q \in Agent \ {a} : missed'[q] = missed[q] /\ escaped'[q] = escaped[q],
         faults' \in 0..MaxFaults, synced' \in [Agent -> Nat \cup {None}],
         x.pc \in {"stamped", "answering"} => x.section \in Section,
         x.pc = "answering" => x.stamp \in Nat,
         \A s \in Section :
           \/ x.file[s] = Current(s) \/ x.cache[s] = None
           \/ Newer(s, x.cache[s]) \/ missed'[a][s],
         x.pc = "answering" =>
           \/ Rendered(x.section, x.body) = Current(x.section)
           \/ Newer(x.section, x.stamp) \/ escaped'[a],
         \A s \in Section :
           \/ x.running[s] = x.file[s] \/ missed'[a][s]
           \/ s \in x.taken /\ x.pc # "confirm"
  PROVE  IInv'
<1>1. agent \in [Agent -> AgentState] /\ TypeOK
  BY DEF IInv, TypeOK
<1>2. /\ agent' \in [Agent -> AgentState] /\ agent'[a] = x
      /\ \A q \in Agent \ {a} : agent'[q] = agent[q]
  BY <1>1
<1>3. now' = now /\ row' = row /\ writer' = writer
  BY DEF Same
<1>4. \A q \in Agent : agent'[q].taken \subseteq Section \ agent'[q].todo
  BY <1>1, <1>2 DEF TypeOK
<1>5. TypeOK'
  BY <1>1, <1>2, <1>3, <1>4 DEF TypeOK
<1>6. WritersAreRight'
  BY <1>3 DEF IInv, WritersAreRight
<1>7. \A s : /\ Current(s)' = Current(s)
             /\ \A y : Rendered(s, y)' = Rendered(s, y)
             /\ \A told : Newer(s, told) => Newer(s, told)'
  BY <1>3, RenderedStays
<1>8. AgentIsRight(a)'
  <2>1. StageIsRight(a)' /\ ServerIsRight(a)'
    BY <1>2 DEF StageIsRight, ServerIsRight
  <2>2. FilesAreRight(a)'
    BY <1>2, <1>7 DEF FilesAreRight
  <2>3. AnswerIsRight(a)'
    BY <1>2, <1>7 DEF AnswerIsRight
  <2> QED
    BY <2>1, <2>2, <2>3 DEF AgentIsRight
<1>9. ASSUME NEW q \in Agent \ {a}
      PROVE  AgentIsRight(q)'
  <2>1. AgentIsRight(q)
    BY DEF IInv
  <2>2. StageIsRight(q)' /\ ServerIsRight(q)'
    BY <1>2, <2>1 DEF AgentIsRight, StageIsRight, ServerIsRight
  <2>3. FilesAreRight(q)'
    BY <1>2, <1>7, <2>1 DEF AgentIsRight, FilesAreRight
  <2>4. AnswerIsRight(q)'
    BY <1>2, <1>7, <2>1 DEF AgentIsRight, AnswerIsRight
  <2> QED
    BY <2>2, <2>3, <2>4 DEF AgentIsRight
<1> QED
  BY <1>5, <1>6, <1>8, <1>9 DEF IInv

\* What is right about an agent before its step.
LEMMA AgentFacts ==
  ASSUME IInv, NEW a \in Agent
  PROVE  /\ agent[a] \in AgentState /\ agent[a].taken \subseteq Section \ agent[a].todo
         /\ agent[a].pc \in {"stamped", "answering"} => agent[a].section \in Section
         /\ agent[a].pc = "answering" => agent[a].stamp \in Nat
         /\ \A s \in Section :
              \/ agent[a].file[s] = Current(s) \/ agent[a].cache[s] = None
              \/ Newer(s, agent[a].cache[s]) \/ missed[a][s]
         /\ agent[a].pc = "answering" =>
              \/ Rendered(agent[a].section, agent[a].body) = Current(agent[a].section)
              \/ Newer(agent[a].section, agent[a].stamp) \/ escaped[a]
         /\ \A s \in Section :
              \/ agent[a].running[s] = agent[a].file[s] \/ missed[a][s]
              \/ s \in agent[a].taken /\ agent[a].pc # "confirm"
         /\ missed \in [Agent -> [Section -> BOOLEAN]] /\ escaped \in [Agent -> BOOLEAN]
         /\ faults \in 0..MaxFaults /\ synced \in [Agent -> Nat \cup {None}] /\ now \in Nat
         /\ TypeOK
  BY DEF IInv, TypeOK, AgentIsRight, StageIsRight, FilesAreRight, AnswerIsRight, ServerIsRight

\* An agent that only moves on: what it has written, been told and runs is as before.
LEMMA MovesOn ==
  ASSUME IInv, NEW a \in Agent, NEW x \in AgentState, agent' = [agent EXCEPT ![a] = x], Same,
         x.taken \subseteq Section \ x.todo, UNCHANGED <<missed, escaped>>,
         faults' \in 0..MaxFaults, synced' \in [Agent -> Nat \cup {None}],
         x.pc \in {"ready", "confirm"} \/ (x.pc = "stamped" /\ x.section \in Section),
         x.cache = agent[a].cache, x.file = agent[a].file, x.running = agent[a].running,
         \A s \in Section : \/ agent[a].running[s] = agent[a].file[s] \/ missed[a][s]
                            \/ s \in x.taken /\ x.pc # "confirm"
  PROVE  IInv'
<1>1. missed' \in [Agent -> [Section -> BOOLEAN]] /\ escaped' \in [Agent -> BOOLEAN]
  BY AgentFacts
<1>2. /\ x.pc \in {"stamped", "answering"} => x.section \in Section
      /\ x.pc # "answering"
  OBVIOUS
<1>3. \A s \in Section :
        \/ x.file[s] = Current(s) \/ x.cache[s] = None \/ Newer(s, x.cache[s]) \/ missed'[a][s]
  BY AgentFacts
<1> QED
  BY <1>1, <1>2, <1>3, AgentTo

LEMMA AskInv ==
  ASSUME IInv, NEW a \in Agent, NEW s \in Section, AskFor(a, s)
  PROVE  IInv'
<1> DEFINE asked == [agent[a] EXCEPT !.section = s, !.stamp = LastModified(s)]
           x == [asked EXCEPT !.pc = "stamped"]
           y == NextSection(asked)
<1>1. /\ agent[a].pc = "ready" /\ Same /\ UNCHANGED <<synced, missed, escaped, faults>>
      /\ agent' = [agent EXCEPT ![a] = x] \/ agent' = [agent EXCEPT ![a] = y]
  BY AgentFacts DEF AskFor
<1>2. /\ agent[a] \in AgentState /\ agent[a].taken \subseteq Section \ agent[a].todo
      /\ LastModified(s) \in Nat \cup {None}
      /\ faults' \in 0..MaxFaults /\ synced' \in [Agent -> Nat \cup {None}]
      /\ \A t \in Section : \/ agent[a].running[t] = agent[a].file[t] \/ missed[a][t]
                            \/ t \in agent[a].taken /\ agent[a].pc # "confirm"
  BY <1>1, AgentFacts, LatestDate
<1>3. /\ asked \in AgentState /\ asked.section = s /\ asked.pc = agent[a].pc
      /\ asked.todo = agent[a].todo /\ asked.taken = agent[a].taken
      /\ asked.cache = agent[a].cache /\ asked.file = agent[a].file
      /\ asked.running = agent[a].running
  BY <1>2 DEF AgentState
<1> HIDE DEF asked
<1>4. CASE agent' = [agent EXCEPT ![a] = x]
  <2>1. /\ x \in AgentState /\ x.section = s /\ x.pc = "stamped"
        /\ x.todo = agent[a].todo /\ x.taken = agent[a].taken
        /\ x.cache = agent[a].cache /\ x.file = agent[a].file
        /\ x.running = agent[a].running
    BY <1>3 DEF AgentState
  <2> HIDE DEF x
  <2> QED
    BY <1>1, <1>2, <1>4, <2>1, MovesOn
<1>5. CASE agent' = [agent EXCEPT ![a] = y]
  <2>1. /\ y \in AgentState /\ y.pc = "ready" /\ y.todo = asked.todo \ {asked.section}
        /\ y.taken = asked.taken /\ y.cache = asked.cache /\ y.file = asked.file
        /\ y.running = asked.running
    BY <1>3, NextSectionIs
  <2>2. y.taken \subseteq Section \ y.todo
    BY <1>2, <1>3, <2>1
  <2> HIDE DEF y
  <2> QED
    BY <1>1, <1>2, <1>3, <1>5, <2>1, <2>2, MovesOn
<1> QED
  BY <1>1, <1>4, <1>5

LEMMA FindInv ==
  ASSUME IInv, NEW a \in Agent, FindDuplicates(a)
  PROVE  IInv'
<1> DEFINE s == agent[a].section
           stamp == IF agent[a].stamp = None THEN Second(now) ELSE Second(agent[a].stamp)
           x == [agent[a] EXCEPT !.pc = "answering", !.body = DuplicatedHosts(s), !.stamp = stamp]
<1>1. agent[a].pc = "stamped" /\ Same /\ UNCHANGED <<synced, missed, faults>>
      /\ escaped' = [escaped EXCEPT ![a] = FALSE]
  BY DEF FindDuplicates
<1>2. agent' = [agent EXCEPT ![a] = x]
  BY AgentFacts DEF FindDuplicates
<1>3. /\ agent[a] \in AgentState /\ agent[a].taken \subseteq Section \ agent[a].todo
      /\ s \in Section /\ TypeOK /\ now \in Nat
      /\ faults' \in 0..MaxFaults /\ synced' \in [Agent -> Nat \cup {None}]
      /\ missed' \in [Agent -> [Section -> BOOLEAN]] /\ escaped' \in [Agent -> BOOLEAN]
      /\ \A q \in Agent \ {a} : missed'[q] = missed[q] /\ escaped'[q] = escaped[q]
  BY <1>1, AgentFacts
<1>4. stamp \in Nat
  BY <1>3, SecondIsNat DEF AgentState
<1>5. DuplicatedHosts(s) \in SUBSET Host
  BY <1>3, RenderedTyped
<1>6. \A t \in Section :
        /\ \/ agent[a].file[t] = Current(t) \/ agent[a].cache[t] = None
           \/ Newer(t, agent[a].cache[t]) \/ missed'[a][t]
        /\ \/ agent[a].running[t] = agent[a].file[t] \/ missed'[a][t]
           \/ t \in agent[a].taken
  BY <1>1, AgentFacts
<1>7. Rendered(s, DuplicatedHosts(s)) = Current(s)
  BY DEF Current
<1> HIDE DEF stamp, s
<1>8. /\ x \in AgentState /\ x.pc = "answering" /\ x.section = s /\ x.stamp = stamp
      /\ x.body = DuplicatedHosts(s) /\ x.todo = agent[a].todo /\ x.taken = agent[a].taken
      /\ x.cache = agent[a].cache /\ x.file = agent[a].file /\ x.running = agent[a].running
  BY <1>3, <1>4, <1>5 DEF AgentState, s
<1> HIDE DEF x
<1>9. /\ x.taken \subseteq Section \ x.todo /\ x.section \in Section /\ x.stamp \in Nat
      /\ Rendered(x.section, x.body) = Current(x.section)
  BY <1>3, <1>4, <1>7, <1>8 DEF s
<1>10. \A t \in Section :
         /\ \/ x.file[t] = Current(t) \/ x.cache[t] = None
            \/ Newer(t, x.cache[t]) \/ missed'[a][t]
         /\ \/ x.running[t] = x.file[t] \/ missed'[a][t]
            \/ t \in x.taken /\ x.pc # "confirm"
  BY <1>6, <1>8
<1> QED
  BY <1>1, <1>2, <1>3, <1>8, <1>9, <1>10, AgentTo

LEMMA DownloadInv ==
  ASSUME IInv, NEW a \in Agent, Download(a)
  PROVE  IInv'
<1> DEFINE s == agent[a].section
           y == Received(a, agent[a].stamp)
           z == [y EXCEPT !.file[s] = Rendered(s, agent[a].body), !.taken = @ \cup {s}]
           x == NextSection(z)
<1>1. /\ agent[a].pc = "answering" /\ agent' = [agent EXCEPT ![a] = x]
      /\ missed' = [missed EXCEPT ![a][s] = escaped[a]]
      /\ Same /\ UNCHANGED <<synced, escaped, faults>>
  BY DEF Download
<1>2. /\ agent[a] \in AgentState /\ agent[a].taken \subseteq Section \ agent[a].todo
      /\ s \in Section /\ agent[a].stamp \in Nat /\ TypeOK
      /\ missed \in [Agent -> [Section -> BOOLEAN]] /\ escaped \in [Agent -> BOOLEAN]
      /\ faults' \in 0..MaxFaults /\ synced' \in [Agent -> Nat \cup {None}]
  BY <1>1, AgentFacts
<1>3. /\ y \in AgentState /\ y.section = s /\ y.todo = agent[a].todo /\ y.taken = agent[a].taken
      /\ y.cache = [agent[a].cache EXCEPT ![s] = agent[a].stamp]
      /\ y.file = agent[a].file /\ y.running = agent[a].running
  BY <1>2, ReceivedIs
<1>4. Rendered(s, agent[a].body) \in Content
  BY <1>2, RenderedTyped
<1>5. \/ Rendered(s, agent[a].body) = Current(s) \/ Newer(s, agent[a].stamp) \/ escaped[a]
  BY <1>1, AgentFacts
<1>6. \A t \in Section :
        /\ \/ agent[a].file[t] = Current(t) \/ agent[a].cache[t] = None
           \/ Newer(t, agent[a].cache[t]) \/ missed[a][t]
        /\ \/ agent[a].running[t] = agent[a].file[t] \/ missed[a][t]
           \/ t \in agent[a].taken
  BY AgentFacts
<1> HIDE DEF s, y
<1>7. /\ z \in AgentState /\ z.section = s /\ z.todo = agent[a].todo
      /\ z.taken = agent[a].taken \cup {s}
      /\ z.cache = [agent[a].cache EXCEPT ![s] = agent[a].stamp]
      /\ z.file = [agent[a].file EXCEPT ![s] = Rendered(s, agent[a].body)]
      /\ z.running = agent[a].running
  <2> DEFINE f == [agent[a].file EXCEPT ![s] = Rendered(s, agent[a].body)]
             T == agent[a].taken \cup {s}
  <2>1. f \in [Section -> Content] /\ T \in SUBSET Section
    BY <1>2, <1>4 DEF AgentState
  <2>2. z = [y EXCEPT !.file = f, !.taken = T]
    BY <1>3 DEF AgentState
  <2> HIDE DEF f, T, z
  <2>3. /\ z \in AgentState /\ z.section = y.section /\ z.todo = y.todo /\ z.taken = T
        /\ z.cache = y.cache /\ z.file = f /\ z.running = y.running
    BY <1>3, <2>1, <2>2 DEF AgentState
  <2> QED
    BY <1>3, <2>3 DEF f, T
<1> HIDE DEF z
<1>8. /\ x \in AgentState /\ x.pc = "ready" /\ x.todo = z.todo \ {z.section}
      /\ x.taken = z.taken /\ x.cache = z.cache /\ x.file = z.file /\ x.running = z.running
  BY <1>7, NextSectionIs
<1> HIDE DEF x
<1>9. x.taken \subseteq Section \ x.todo
  BY <1>2, <1>7, <1>8
<1>10. /\ missed' \in [Agent -> [Section -> BOOLEAN]] /\ escaped' \in [Agent -> BOOLEAN]
       /\ \A q \in Agent \ {a} : missed'[q] = missed[q] /\ escaped'[q] = escaped[q]
       /\ missed'[a][s] = escaped[a] /\ \A t \in Section \ {s} : missed'[a][t] = missed[a][t]
  BY <1>1, <1>2
<1>11. \A t \in Section :
         /\ t = s => x.file[t] = Rendered(s, agent[a].body) /\ x.cache[t] = agent[a].stamp
         /\ t # s => x.file[t] = agent[a].file[t] /\ x.cache[t] = agent[a].cache[t]
  BY <1>2, <1>7, <1>8 DEF AgentState
<1>12. ASSUME NEW t \in Section
       PROVE  /\ \/ x.file[t] = Current(t) \/ x.cache[t] = None
                 \/ Newer(t, x.cache[t]) \/ missed'[a][t]
              /\ \/ x.running[t] = x.file[t] \/ missed'[a][t]
                 \/ t \in x.taken /\ x.pc # "confirm"
  <2>1. CASE t = s
    BY <1>5, <1>7, <1>8, <1>10, <1>11, <2>1
  <2>2. CASE t # s
    BY <1>6, <1>7, <1>8, <1>10, <1>11, <2>2
  <2> QED
    BY <2>1, <2>2
<1> QED
  BY <1>1, <1>2, <1>8, <1>9, <1>10, <1>12, AgentTo

LEMMA FaultCounts ==
  ASSUME TypeOK, Fault
  PROVE  faults' \in 0..MaxFaults
  BY ConfigAssumption DEF Fault, TypeOK

\* After a restart the server runs the files.
LEMMA RestartInv ==
  ASSUME IInv, NEW a \in Agent, Restart(a)
  PROVE  IInv'
<1> DEFINE x == [agent[a] EXCEPT !.pc = "confirm", !.running = agent[a].file]
<1>1. /\ Same /\ UNCHANGED <<synced, missed, escaped, faults>>
      /\ agent' = [agent EXCEPT ![a] = x]
  BY AgentFacts DEF Restart
<1>2. /\ agent[a] \in AgentState /\ agent[a].taken \subseteq Section \ agent[a].todo
      /\ missed' \in [Agent -> [Section -> BOOLEAN]] /\ escaped' \in [Agent -> BOOLEAN]
      /\ faults' \in 0..MaxFaults /\ synced' \in [Agent -> Nat \cup {None}]
      /\ \A t \in Section : \/ agent[a].file[t] = Current(t) \/ agent[a].cache[t] = None
                            \/ Newer(t, agent[a].cache[t]) \/ missed'[a][t]
  BY <1>1, AgentFacts
<1>3. /\ x \in AgentState /\ x.pc = "confirm" /\ x.todo = agent[a].todo
      /\ x.taken = agent[a].taken /\ x.cache = agent[a].cache /\ x.file = agent[a].file
      /\ x.running = agent[a].file
  BY <1>2 DEF AgentState
<1> HIDE DEF x
<1> QED
  BY <1>1, <1>2, <1>3, AgentTo

LEMMA NothingInv ==
  ASSUME IInv, NEW a \in Agent, NothingToRestart(a)
  PROVE  IInv'
<1> DEFINE x == [agent[a] EXCEPT !.pc = "confirm"]
<1>1. /\ Same /\ UNCHANGED <<synced, missed, escaped, faults>> /\ agent[a].taken = {}
      /\ agent' = [agent EXCEPT ![a] = x]
  BY AgentFacts DEF NothingToRestart
<1>2. /\ agent[a] \in AgentState /\ agent[a].taken \subseteq Section \ agent[a].todo
      /\ faults' \in 0..MaxFaults /\ synced' \in [Agent -> Nat \cup {None}]
      /\ \A s \in Section : agent[a].running[s] = agent[a].file[s] \/ missed[a][s]
  BY <1>1, AgentFacts
<1>3. /\ x \in AgentState /\ x.pc = "confirm" /\ x.todo = agent[a].todo
      /\ x.taken = agent[a].taken /\ x.cache = agent[a].cache /\ x.file = agent[a].file
      /\ x.running = agent[a].running
  BY <1>2 DEF AgentState
<1> HIDE DEF x
<1> QED
  BY <1>1, <1>2, <1>3, MovesOn

LEMMA ConfirmInv ==
  ASSUME IInv, NEW a \in Agent, Confirm(a) \/ ConfirmFails(a)
  PROVE  IInv'
<1> DEFINE x == EndedRun(agent[a])
<1>1. /\ agent[a].pc = "confirm" /\ Same /\ UNCHANGED <<missed, escaped>>
      /\ agent' = [agent EXCEPT ![a] = x] /\ (synced' = synced \/ synced' = [synced EXCEPT ![a] = now])
      /\ Fault \/ UNCHANGED faults
  BY AgentFacts DEF Confirm, ConfirmFails
<1>2. /\ agent[a] \in AgentState
      /\ \A s \in Section : agent[a].running[s] = agent[a].file[s] \/ missed[a][s]
      /\ synced \in [Agent -> Nat \cup {None}] /\ now \in Nat
  BY <1>1, AgentFacts
<1>3. faults' \in 0..MaxFaults
  BY <1>1, AgentFacts, FaultCounts
<1>4. synced' \in [Agent -> Nat \cup {None}]
  BY <1>1, <1>2
<1>5. /\ x \in AgentState /\ x.pc = "ready" /\ x.taken = {} /\ x.cache = agent[a].cache
      /\ x.file = agent[a].file /\ x.running = agent[a].running
  BY <1>2, EndedRunIs
<1> HIDE DEF x
<1> QED
  BY <1>1, <1>2, <1>3, <1>4, <1>5, MovesOn

LEMMA DownloadFailsInv ==
  ASSUME IInv, NEW a \in Agent, DownloadFails(a)
  PROVE  IInv'
<1> DEFINE x == NextSection(agent[a])
<1>1. /\ agent[a].pc \in {"stamped", "answering"} /\ Same /\ UNCHANGED <<synced, missed, escaped>>
      /\ agent' = [agent EXCEPT ![a] = x] /\ Fault
  BY AgentFacts DEF DownloadFails
<1>2. /\ agent[a] \in AgentState /\ agent[a].taken \subseteq Section \ agent[a].todo
      /\ synced' \in [Agent -> Nat \cup {None}]
      /\ \A s \in Section : \/ agent[a].running[s] = agent[a].file[s] \/ missed[a][s]
                            \/ s \in agent[a].taken
  BY <1>1, AgentFacts
<1>3. faults' \in 0..MaxFaults
  BY <1>1, AgentFacts, FaultCounts
<1>4. /\ x \in AgentState /\ x.pc = "ready" /\ x.todo = agent[a].todo \ {agent[a].section}
      /\ x.taken = agent[a].taken /\ x.cache = agent[a].cache
      /\ x.file = agent[a].file /\ x.running = agent[a].running
  BY <1>2, NextSectionIs
<1> HIDE DEF x
<1>5. x.taken \subseteq Section \ x.todo
  BY <1>2, <1>4
<1> QED
  BY <1>1, <1>2, <1>3, <1>4, <1>5, MovesOn

\* What is marked as missed for an agent.
LEMMA ForgetIs ==
  ASSUME missed \in [Agent -> [Section -> BOOLEAN]], NEW a \in Agent, NEW S,
         missed' = Forget(a, S)
  PROVE  /\ missed' \in [Agent -> [Section -> BOOLEAN]]
         /\ \A q \in Agent \ {a} : missed'[q] = missed[q]
         /\ \A s \in Section : missed[a][s] \/ s \in S => missed'[a][s]
<1> DEFINE m == [s \in Section |-> missed[a][s] \/ s \in S]
<1>1. m \in [Section -> BOOLEAN] /\ \A s \in Section : m[s] = (missed[a][s] \/ s \in S)
  OBVIOUS
<1>2. missed' = [missed EXCEPT ![a] = m]
  BY DEF Forget
<1> HIDE DEF m
<1> QED
  BY <1>1, <1>2

LEMMA WriteFailsInv ==
  ASSUME IInv, NEW a \in Agent, WriteFails(a)
  PROVE  IInv'
<1> DEFINE s == agent[a].section
           y == Received(a, agent[a].stamp)
<1>1. /\ agent[a].pc = "answering" /\ Fault /\ missed' = Forget(a, {s})
      /\ Same /\ UNCHANGED <<synced, escaped>>
  BY DEF WriteFails
<1>2. PICK left \in {agent[a].file[s], {}} :
        agent' = [agent EXCEPT ![a] = NextSection([y EXCEPT !.file[s] = left])]
  BY DEF WriteFails
<1> DEFINE z == [y EXCEPT !.file[s] = left]
           x == NextSection(z)
<1>3. /\ agent[a] \in AgentState /\ agent[a].taken \subseteq Section \ agent[a].todo
      /\ s \in Section /\ agent[a].stamp \in Nat /\ TypeOK
      /\ missed \in [Agent -> [Section -> BOOLEAN]] /\ escaped' \in [Agent -> BOOLEAN]
      /\ synced' \in [Agent -> Nat \cup {None}]
      /\ \A q \in Agent \ {a} : escaped'[q] = escaped[q]
  BY <1>1, AgentFacts
<1>4. faults' \in 0..MaxFaults
  BY <1>1, AgentFacts, FaultCounts
<1>5. /\ y \in AgentState /\ y.section = s /\ y.todo = agent[a].todo /\ y.taken = agent[a].taken
      /\ y.cache = [agent[a].cache EXCEPT ![s] = agent[a].stamp]
      /\ y.file = agent[a].file /\ y.running = agent[a].running
  BY <1>3, ReceivedIs
<1>6. /\ missed' \in [Agent -> [Section -> BOOLEAN]]
      /\ \A q \in Agent \ {a} : missed'[q] = missed[q]
      /\ \A t \in Section : missed[a][t] \/ t = s => missed'[a][t]
  BY <1>1, <1>3, ForgetIs
<1>7. \A t \in Section :
        /\ \/ agent[a].file[t] = Current(t) \/ agent[a].cache[t] = None
           \/ Newer(t, agent[a].cache[t]) \/ missed[a][t]
        /\ \/ agent[a].running[t] = agent[a].file[t] \/ missed[a][t]
           \/ t \in agent[a].taken
  BY AgentFacts
<1>8. left \in Content
  BY <1>3 DEF AgentState, Content
<1> HIDE DEF s, y
<1>9. /\ z \in AgentState /\ z.section = s /\ z.todo = agent[a].todo
      /\ z.taken = agent[a].taken /\ z.cache = [agent[a].cache EXCEPT ![s] = agent[a].stamp]
      /\ z.file = [agent[a].file EXCEPT ![s] = left] /\ z.running = agent[a].running
  <2> DEFINE f == [agent[a].file EXCEPT ![s] = left]
  <2>1. f \in [Section -> Content]
    BY <1>3, <1>8 DEF AgentState
  <2>2. z = [y EXCEPT !.file = f]
    BY <1>5 DEF AgentState
  <2> HIDE DEF f, z
  <2>3. /\ z \in AgentState /\ z.section = y.section /\ z.todo = y.todo /\ z.taken = y.taken
        /\ z.cache = y.cache /\ z.file = f /\ z.running = y.running
    BY <1>5, <2>1, <2>2 DEF AgentState
  <2> QED
    BY <1>5, <2>3 DEF f
<1>10. agent' = [agent EXCEPT ![a] = x]
  BY <1>2
<1> HIDE DEF z
<1>11. /\ x \in AgentState /\ x.pc = "ready" /\ x.todo = z.todo \ {z.section}
       /\ x.taken = z.taken /\ x.cache = z.cache /\ x.file = z.file /\ x.running = z.running
  BY <1>9, NextSectionIs
<1> HIDE DEF x
<1>12. x.taken \subseteq Section \ x.todo
  BY <1>3, <1>9, <1>11
<1>13. \A t \in Section \ {s} : x.file[t] = agent[a].file[t] /\ x.cache[t] = agent[a].cache[t]
  BY <1>3, <1>9, <1>11 DEF AgentState
<1>14. ASSUME NEW t \in Section
       PROVE  /\ \/ x.file[t] = Current(t) \/ x.cache[t] = None
                 \/ Newer(t, x.cache[t]) \/ missed'[a][t]
              /\ \/ x.running[t] = x.file[t] \/ missed'[a][t]
                 \/ t \in x.taken /\ x.pc # "confirm"
  <2>1. CASE t = s
    BY <1>6, <2>1
  <2>2. CASE t # s
    BY <1>6, <1>7, <1>9, <1>11, <1>13, <2>2
  <2> QED
    BY <2>1, <2>2
<1> QED
  BY <1>1, <1>3, <1>4, <1>6, <1>10, <1>11, <1>12, <1>14, AgentTo

LEMMA RestartFailsInv ==
  ASSUME IInv, NEW a \in Agent, RestartFails(a)
  PROVE  IInv'
<1> DEFINE x == [agent[a] EXCEPT !.pc = "confirm"]
<1>1. /\ Same /\ UNCHANGED <<synced, escaped>> /\ agent[a].pc = "ready" /\ Fault
      /\ agent' = [agent EXCEPT ![a] = x] /\ missed' = Forget(a, agent[a].taken)
  BY AgentFacts DEF RestartFails
<1>2. /\ agent[a] \in AgentState /\ agent[a].taken \subseteq Section \ agent[a].todo
      /\ missed \in [Agent -> [Section -> BOOLEAN]] /\ escaped' \in [Agent -> BOOLEAN]
      /\ synced' \in [Agent -> Nat \cup {None}]
      /\ \A q \in Agent \ {a} : escaped'[q] = escaped[q]
  BY <1>1, AgentFacts
<1>3. faults' \in 0..MaxFaults
  BY <1>1, AgentFacts, FaultCounts
<1>4. /\ missed' \in [Agent -> [Section -> BOOLEAN]]
      /\ \A q \in Agent \ {a} : missed'[q] = missed[q]
      /\ \A s \in Section : missed[a][s] \/ s \in agent[a].taken => missed'[a][s]
  BY <1>1, <1>2, ForgetIs
<1>5. \A t \in Section :
        /\ \/ agent[a].file[t] = Current(t) \/ agent[a].cache[t] = None
           \/ Newer(t, agent[a].cache[t]) \/ missed'[a][t]
        /\ agent[a].running[t] = agent[a].file[t] \/ missed'[a][t]
  BY <1>4, AgentFacts
<1>6. /\ x \in AgentState /\ x.pc = "confirm" /\ x.todo = agent[a].todo
      /\ x.taken = agent[a].taken /\ x.cache = agent[a].cache /\ x.file = agent[a].file
      /\ x.running = agent[a].running
  BY <1>2 DEF AgentState
<1> HIDE DEF x
<1>7. \A t \in Section :
        /\ \/ x.file[t] = Current(t) \/ x.cache[t] = None
           \/ Newer(t, x.cache[t]) \/ missed'[a][t]
        /\ x.running[t] = x.file[t] \/ missed'[a][t]
  BY <1>5, <1>6
<1>8. x.taken \subseteq Section \ x.todo /\ x.pc \notin {"stamped", "answering"}
  BY <1>2, <1>6
<1>9. agent' = [agent EXCEPT ![a] = x] /\ Same /\ x \in AgentState
  BY <1>1, <1>6
<1>10. /\ \A t \in Section :
             \/ x.file[t] = Current(t) \/ x.cache[t] = None
             \/ Newer(t, x.cache[t]) \/ missed'[a][t]
       /\ \A t \in Section :
             \/ x.running[t] = x.file[t] \/ missed'[a][t]
             \/ t \in x.taken /\ x.pc # "confirm"
       /\ x.pc \notin {"stamped", "answering"} /\ x.pc # "answering"
       /\ \A q \in Agent \ {a} : missed'[q] = missed[q] /\ escaped'[q] = escaped[q]
  BY <1>2, <1>4, <1>7, <1>8
<1> QED
  BY <1>2, <1>3, <1>4, <1>8, <1>9, <1>10, AgentTo

\* A run that dies forgets what it has taken and not restarted the server for.
LEMMA DiesInv ==
  ASSUME IInv, NEW a \in Agent, RunDies(a)
  PROVE  IInv'
<1>1. PICK y, S :
        /\ agent' = [agent EXCEPT ![a] = EndedRun(y)] /\ missed' = Forget(a, S)
        /\ \/ y = agent[a] /\ S = agent[a].taken
           \/ /\ agent[a].pc = "answering" /\ y = Received(a, agent[a].stamp)
              /\ S = agent[a].taken \cup {agent[a].section}
  <2>1. agent \in [Agent -> AgentState]
    BY AgentFacts DEF IInv, TypeOK
  <2>2. CASE /\ agent' = [agent EXCEPT ![a] = EndedRun(@)]
             /\ missed' = Forget(a, agent[a].taken)
    <3>1. agent' = [agent EXCEPT ![a] = EndedRun(agent[a])]
      BY <2>1, <2>2
    <3> QED
      BY <2>2, <3>1
  <2>3. CASE /\ agent[a].pc = "answering"
             /\ agent' = [agent EXCEPT ![a] = EndedRun(Received(a, agent[a].stamp))]
             /\ missed' = Forget(a, agent[a].taken \cup {agent[a].section})
    BY <2>3
  <2> QED
    BY <2>2, <2>3 DEF RunDies
<1>2. /\ agent[a].pc # "confirm" /\ Fault /\ Same /\ UNCHANGED <<synced, escaped>>
  BY DEF RunDies
<1>3. /\ agent[a] \in AgentState /\ TypeOK
      /\ agent[a].pc = "answering" => agent[a].section \in Section /\ agent[a].stamp \in Nat
      /\ missed \in [Agent -> [Section -> BOOLEAN]] /\ escaped' \in [Agent -> BOOLEAN]
      /\ synced' \in [Agent -> Nat \cup {None}]
      /\ \A q \in Agent \ {a} : escaped'[q] = escaped[q]
  BY <1>2, AgentFacts
<1>4. faults' \in 0..MaxFaults
  BY <1>2, AgentFacts, FaultCounts
<1>5. /\ missed' \in [Agent -> [Section -> BOOLEAN]]
      /\ \A q \in Agent \ {a} : missed'[q] = missed[q]
      /\ \A s \in Section : missed[a][s] \/ s \in S => missed'[a][s]
  BY <1>1, <1>3, ForgetIs
<1>6. /\ y \in AgentState /\ y.file = agent[a].file /\ y.running = agent[a].running
      /\ \A t \in Section : y.cache[t] = agent[a].cache[t] \/ t \in S
  <2>1. CASE y = agent[a]
    BY <1>3, <2>1
  <2>2. CASE /\ agent[a].pc = "answering" /\ y = Received(a, agent[a].stamp)
             /\ S = agent[a].taken \cup {agent[a].section}
    <3>1. /\ y \in AgentState /\ y.file = agent[a].file /\ y.running = agent[a].running
          /\ y.cache = [agent[a].cache EXCEPT ![agent[a].section] = agent[a].stamp]
      BY <1>3, <2>2, ReceivedIs
    <3> QED
      BY <1>3, <2>2, <3>1 DEF AgentState
  <2> QED
    BY <1>1, <2>1, <2>2
<1> DEFINE x == EndedRun(y)
<1>7. /\ x \in AgentState /\ x.pc = "ready" /\ x.taken = {} /\ x.cache = y.cache
      /\ x.file = y.file /\ x.running = y.running
  BY <1>6, EndedRunIs
<1>8. agent' = [agent EXCEPT ![a] = x]
  BY <1>1
<1> HIDE DEF x
<1>9. \A t \in Section :
        /\ \/ agent[a].file[t] = Current(t) \/ agent[a].cache[t] = None
           \/ Newer(t, agent[a].cache[t]) \/ missed[a][t]
        /\ agent[a].running[t] = agent[a].file[t] \/ missed[a][t] \/ t \in agent[a].taken
  BY AgentFacts
<1>10. agent[a].taken \subseteq S
  BY <1>1
<1>11. ASSUME NEW t \in Section
       PROVE  /\ \/ x.file[t] = Current(t) \/ x.cache[t] = None
                 \/ Newer(t, x.cache[t]) \/ missed'[a][t]
              /\ x.running[t] = x.file[t] \/ missed'[a][t]
  <2>1. CASE t \in S
    BY <1>5, <2>1
  <2>2. CASE t \notin S
    BY <1>5, <1>6, <1>7, <1>9, <1>10, <2>2
  <2> QED
    BY <2>1, <2>2
<1> QED
  BY <1>2, <1>3, <1>4, <1>5, <1>7, <1>8, <1>11, AgentTo

-----------------------------------------------------------------------------
(* The theorems *)

LEMMA InitInv == Init => IInv
<1> SUFFICES ASSUME Init
             PROVE  IInv
  OBVIOUS
<1>1. /\ IdleWriter \in WriterState /\ IdleWriter.pc = "idle"
  BY DEF IdleWriter, WriterState
<1>2. /\ NewAgent \in AgentState /\ NewAgent.pc = "ready" /\ NewAgent.taken = {}
      /\ NewAgent.cache = [s \in Section |-> None]
      /\ NewAgent.running = [s \in Section |-> {}] /\ NewAgent.file = [s \in Section |-> {}]
  BY DEF NewAgent, AgentState, Content
<1>3. TypeOK
  BY <1>1, <1>2, ConfigAssumption DEF Init, TypeOK
<1>4. WritersAreRight
  BY <1>1 DEF Init, WritersAreRight
<1>5. \A a \in Agent : agent[a] = NewAgent
  BY DEF Init
<1>6. \A a \in Agent : AgentIsRight(a)
  BY <1>2, <1>5 DEF AgentIsRight, StageIsRight, FilesAreRight, AnswerIsRight, ServerIsRight
<1> QED
  BY <1>3, <1>4, <1>6 DEF IInv

LEMMA NextInv == IInv /\ [Next]_vars => IInv'
<1> SUFFICES ASSUME IInv, [Next]_vars
             PROVE  IInv'
  OBVIOUS
<1>1. CASE UNCHANGED vars
  <2>1. TypeOK' /\ WritersAreRight'
    BY <1>1 DEF vars, IInv, TypeOK, WritersAreRight
  <2>2. \A a \in Agent : AgentIsRight(a)'
    BY <1>1, AgentsStay DEF vars, IInv
  <2> QED
    BY <2>1, <2>2 DEF IInv
<1>2. ASSUME NEW w \in Writer, NEW r \in Row, NEW h \in Host \cup {None}, SaveRow(w, r, h)
      PROVE  IInv'
  BY <1>2, SaveInv
<1>3. ASSUME NEW w \in Writer, CommitRow(w)
      PROVE  IInv'
  BY <1>3, CommitInv
<1>4. ASSUME NEW w \in Writer, RollBackRow(w) \/ Proceed(w) \/ RaiseTypeError(w)
      PROVE  IInv'
  BY <1>4, WaitInv
<1>5. ASSUME NEW r \in Row, DeleteRow(r)
      PROVE  IInv'
  BY <1>5, DeleteInv
<1>6. CASE Tick
  BY <1>6, TickInv
<1>7. ASSUME NEW a \in Agent, AgentStep(a)
      PROVE  IInv'
  BY <1>7, AskInv, FindInv, DownloadInv, RestartInv, NothingInv, ConfirmInv DEF AgentStep
<1>8. ASSUME NEW a \in Agent, AgentFault(a)
      PROVE  IInv'
  BY <1>8, DownloadFailsInv, WriteFailsInv, RestartFailsInv, DiesInv, ConfirmInv DEF AgentFault
<1> QED
  BY <1>1, <1>2, <1>3, <1>4, <1>5, <1>6, <1>7, <1>8 DEF Next

LEMMA Invariance == Spec => []IInv
  BY InitInv, NextInv, PTL DEF Spec

\* The types of the rows, the transactions and the agents; no row is dated in the future,
\* and an agent has taken in a run only sections that it does not ask for again.
THEOREM TypeCorrect == Spec => []TypeOK
<1>1. IInv => TypeOK
  BY DEF IInv
<1> QED
  BY <1>1, Invariance, PTL

\* When an agent has nothing to do, its server runs what the service renders, or the next
\* request will be answered in full; unless a change carried a date the agent had been told
\* already, something was deleted, or a step after the download failed.  For any number of
\* agents, transactions, rows and faults, and any ticks per second.
\* (LastModifiedMixin.is_modified, DHCPConfigManager)
THEOREM OnlyEscapedIsMissedAlways == Spec => []OnlyEscapedIsMissed
<1>1. IInv => OnlyEscapedIsMissed
  <2> SUFFICES ASSUME IInv, NEW a \in Agent, NEW s \in Section, Idle(a), ~ missed[a][s],
                      ~ IsModified(LastModified(s), agent[a].cache[s])
               PROVE  agent[a].running[s] = Current(s)
    BY DEF OnlyEscapedIsMissed
  <2>1. /\ TypeOK /\ agent[a].cache \in [Section -> Nat \cup {None}]
        /\ s \notin agent[a].taken
        /\ \/ agent[a].file[s] = Current(s) \/ agent[a].cache[s] = None
           \/ Newer(s, agent[a].cache[s])
    BY AgentFacts DEF AgentState, Idle
  <2>2. agent[a].running[s] = agent[a].file[s]
    BY <2>1, AgentFacts
  <2>3. agent[a].cache[s] # None
    BY DEF IsModified
  <2>4. ~ Newer(s, agent[a].cache[s])
    BY <2>1, <2>3, NewerIsModified
  <2> QED
    BY <2>1, <2>2, <2>3, <2>4
<1> QED
  BY <1>1, Invariance, PTL
===============================================================================
