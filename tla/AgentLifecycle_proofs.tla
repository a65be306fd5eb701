----------------------- MODULE AgentLifecycle_proofs -----------------------
(***************************************************************************)
(* For every number of agents, requests and crashes: a terminal runs only  *)
(* for an agent whose record claims it and that the server has, a create   *)
(* request starts one agent, a reported success stays on record, and an    *)
(* agent with an unfinished create or delete is in the server once         *)
(* recovery is over.  What is said of terminals and reports needs a host   *)
(* that can always be reached (HostAnswers), the rest does not.            *)
(*                                                                         *)
(* The argument rests on the shape of a journal, whose last operation      *)
(* alone may be unfinished, and on what the server knows at each step of   *)
(* an operation.                                                           *)
(***************************************************************************)
EXTENDS TerminalAgents, SequenceTheorems, TLAPS

(* The server never takes a host that it cannot reach for one that has no  *)
(* terminals.                                                              *)
HostAnswers == "unreachable" \notin Faults

(* Only the last operation of a journal is unfinished.                     *)
Shaped(j) == /\ j \in Seq(Op)
             /\ \A i \in DOMAIN j : j[i].state \notin Final => i = Len(j)

(* The unfinished operation is of this type.                               *)
Running(j, type) == Len(j) >= 1 /\ j[Len(j)].state \notin Final /\ j[Len(j)].type = type

Steps == {"idle"} \cup Starting \cup Killing \cup Archiving \cup Recovering
Ended == {"fail", "delete", "mark", "provider", "archive", "recover-provider"}
Record == [journal : Seq(Op), owner : BOOLEAN, archived : BOOLEAN]
NewJournal == <<[type |-> "create", state |-> "pending"]>>

Types ==
  /\ record \in [Agents -> Record] /\ requestOf \in [Agents -> Requests \cup {None}]
  /\ alive \in [Agents -> BOOLEAN] /\ provider \in [Agents -> BOOLEAN]
  /\ stopped \in [Agents -> BOOLEAN] /\ tomb \in [Agents -> BOOLEAN]
  /\ step \in [Agents -> Steps] /\ admission = [r \in Requests |-> admission[r]]
  /\ told \subseteq [about : Requests \cup {"kill", "archive"}, agent : Agents]

(* A record that goes with a running terminal.                             *)
Clean(j) == \A i \in DOMAIN j : /\ ~(j[i].type = "create" /\ j[i].state = "failed")
                                /\ ~(j[i].type \in {"delete", "archive"} /\ j[i].state = "succeeded")
Claims(r) == r.owner /\ ~r.archived /\ Clean(r.journal)

(* What holds of an agent: while its operation runs,                       *)
AtStep(a) ==
  LET j == record[a].journal IN
  /\ HostAnswers /\ step[a] \in Ended => ~alive[a]
  /\ step[a] = "launch" => /\ record[a] = [journal |-> NewJournal, owner |-> TRUE, archived |-> FALSE]
                           /\ ~stopped[a] /\ ~tomb[a] /\ ~provider[a]
  /\ step[a] \in Starting => Running(j, "create") /\ requestOf[a] \in Requests
  /\ step[a] \in Killing => Running(j, "delete")
  /\ step[a] \in Archiving \cup Recovering => Running(j, "archive")
  /\ step[a] = "archive" => provider[a]

(* during recovery,                                                        *)
AtRecovery(a) ==
  /\ mode # "ready" => step[a] \notin Starting
  /\ mode = "boot" \/ (mode = "found" /\ a \in todo) => step[a] = "idle"
  /\ HostAnswers /\ mode \in {"found", "missing"} /\ alive[a] => a \in listed
  /\ HostAnswers /\ mode = "found" /\ a \in todo =>
       record[a].owner /\ Len(record[a].journal) >= 1
  /\ mode = "missing" /\ a \in todo => a \notin listed

(* and always.                                                             *)
AgentInv(a) ==
  /\ Shaped(record[a].journal)
  /\ HostAnswers /\ alive[a] => /\ Claims(record[a]) /\ Len(record[a].journal) >= 1
                                /\ ~provider[a] /\ ~stopped[a] /\ ~tomb[a]
  /\ requestOf[a] # None => Len(record[a].journal) >= 1 /\ record[a].journal[1].type = "create"
  /\ record[a] = NoRecord => /\ ~alive[a] /\ ~stopped[a] /\ ~tomb[a] /\ ~provider[a]
                             /\ step[a] = "idle"
  /\ AtStep(a) /\ AtRecovery(a)

Admissions ==
  \A r \in Requests : /\ admission[r] = "begin" => \A a \in Agents : requestOf[a] # r
                      /\ mode # "ready" => admission[r] = None

LInv == /\ Types /\ Admissions /\ CreatedOnce /\ (HostAnswers => ReportsHold)
        /\ \A a \in Agents : AgentInv(a)

-----------------------------------------------------------------------------
(* Journals.                                                               *)
OpState == Final \cup {"pending", "membership-pending", "provider-archive-pending", "blocked"}
OpType == {"create", "delete", "archive"}

(* k continues j: operations keep their type and place, a final state      *)
(* stays.                                                                  *)
Continues(j, k) ==
  /\ Len(j) <= Len(k)
  /\ \A i \in 1 .. Len(j) : k[i].type = j[i].type /\ (j[i].state \in Final => k[i] = j[i])

LEMMA ShapeOfJournal ==
  ASSUME NEW j, Shaped(j)
  PROVE  /\ j \in Seq(Op) /\ Len(j) \in Nat /\ DOMAIN j = 1 .. Len(j)
         /\ \A i \in 1 .. Len(j) : j[i] \in Op
         /\ \A i \in 1 .. Len(j) : j[i].state \notin Final => i = Len(j)
BY LenProperties, ElementOfSeq DEF Shaped

LEMMA ActiveIsLast ==
  ASSUME NEW j, Shaped(j)
  PROVE  /\ IsActive(j) <=> Len(j) >= 1 /\ j[Len(j)].state \notin Final
         /\ IsActive(j) => ActiveAt(j) = Len(j) /\ ActiveOp(j) = j[Len(j)]
<1>1. Unfinished(j) \subseteq {Len(j)}
  BY DEF Unfinished, Shaped
<1>2. Len(j) \in Unfinished(j) <=> Len(j) >= 1 /\ j[Len(j)].state \notin Final
  BY ShapeOfJournal DEF Unfinished
<1>3. IsActive(j) => Unfinished(j) = {Len(j)}
  BY <1>1 DEF IsActive
<1>4. IsActive(j) => ActiveAt(j) = Len(j)
  BY <1>3, ShapeOfJournal DEF ActiveAt
<1> QED
  BY <1>1, <1>2, <1>3, <1>4 DEF IsActive, ActiveOp

(* The unfinished operation moves to state s.                              *)
LEMMA TurnedJournal ==
  ASSUME NEW j, Shaped(j), NEW type, Running(j, type), NEW s \in OpState
  PROVE  /\ Shaped(Turned(j, s)) /\ Len(Turned(j, s)) = Len(j)
         /\ Turned(j, s)[Len(j)] = [type |-> type, state |-> s]
         /\ \A i \in 1 .. Len(j) : i # Len(j) => Turned(j, s)[i] = j[i]
         /\ Continues(j, Turned(j, s))
<1> DEFINE n == Len(j)
           op == [type |-> type, state |-> s]
           k == Turned(j, s)
<1>1. /\ j \in Seq(Op) /\ n \in Nat /\ n >= 1 /\ DOMAIN j = 1 .. n
      /\ \A i \in 1 .. n : j[i] \in Op
      /\ \A i \in 1 .. n : j[i].state \notin Final => i = n
      /\ ActiveAt(j) = n /\ j[n].state \notin Final /\ j[n].type = type
  BY ShapeOfJournal, ActiveIsLast DEF Running
<1>2. [j[n] EXCEPT !.state = s] = op /\ op \in Op
  <2>1. n \in 1 .. n
    <3>1. n \in Nat /\ n >= 1
      BY <1>1, ZenonT(60)
    <3> HIDE DEF n
    <3> QED
      BY <3>1, SMTT(60)
  <2>2. j[n] \in Op
    BY <1>1, <2>1
  <2> QED
    BY <1>1, <2>2 DEF Op, OpState
<1>3. k = [j EXCEPT ![n] = op]
  BY <1>1, <1>2 DEF Turned
<1> HIDE DEF op, k
<1>4. /\ k \in Seq(Op) /\ Len(k) = n /\ n \in 1 .. n /\ k[n] = op
      /\ \A i \in 1 .. n : i # n => k[i] = j[i]
  BY <1>1, <1>2, <1>3, ExceptSeq
<1>5. DOMAIN k = 1 .. n /\ op.type = type
  BY <1>4, LenProperties DEF op
<1> HIDE DEF n
<1>6. Shaped(k)
  <2>1. \A i \in DOMAIN k : k[i].state \notin Final => i = n
    BY <1>1, <1>4, <1>5
  <2> QED
    BY <1>4, <2>1 DEF Shaped
<1>7. Continues(j, k)
  <2>1. ASSUME NEW i \in 1 .. n
        PROVE  k[i].type = j[i].type /\ (j[i].state \in Final => k[i] = j[i])
    <3>1. CASE i = n
      BY <1>1, <1>4, <1>5, <3>1
    <3>2. CASE i # n
      BY <1>4, <2>1, <3>2
    <3> QED
      BY <3>1, <3>2
  <2>2. n <= n
    BY <1>1
  <2> QED
    BY <1>4, <2>1, <2>2 DEF Continues, n
<1> QED
  BY <1>4, <1>6, <1>7 DEF op, k, n

LEMMA TurnedRuns ==
  ASSUME NEW j, Shaped(j), NEW type, Running(j, type), NEW s \in OpState \ Final
  PROVE  Running(Turned(j, s), type)
<1>1. /\ Len(Turned(j, s)) = Len(j) /\ Turned(j, s)[Len(j)] = [type |-> type, state |-> s]
      /\ Len(j) >= 1
  BY TurnedJournal DEF Running
<1> QED
  BY <1>1 DEF Running

(* A terminal may run beside an operation of this type in this state.      *)
Harmless(type, s) ==
  (s = "failed" => type # "create") /\ (s = "succeeded" => type = "create")

LEMMA TurnedClean ==
  ASSUME NEW j, Shaped(j), NEW type, Running(j, type), NEW s \in OpState, Clean(j),
         Harmless(type, s)
  PROVE  Clean(Turned(j, s))
<1> DEFINE k == Turned(j, s)
           n == Len(j)
<1>1. /\ Shaped(k) /\ Len(k) = n /\ k[n] = [type |-> type, state |-> s]
      /\ \A i \in 1 .. n : i # n => k[i] = j[i]
  BY TurnedJournal
<1> HIDE DEF k
<1>2. DOMAIN k = 1 .. n /\ DOMAIN j = 1 .. n
  BY <1>1, ShapeOfJournal
<1>3. k[n].type = type /\ k[n].state = s
  BY <1>1
<1>4. ASSUME NEW i \in 1 .. n
      PROVE  /\ ~(k[i].type = "create" /\ k[i].state = "failed")
             /\ ~(k[i].type \in {"delete", "archive"} /\ k[i].state = "succeeded")
  <2>1. CASE i = n
    BY <1>3, <2>1, SMTT(60) DEF Harmless
  <2>2. CASE i # n
    BY <1>1, <1>2, <1>4, <2>2 DEF Clean
  <2> QED
    BY <2>1, <2>2
<1> QED
  BY <1>2, <1>4 DEF Clean, k

(* An operation is appended to a journal in which none is unfinished.      *)
LEMMA AppendedJournal ==
  ASSUME NEW j, Shaped(j), ~(Len(j) >= 1 /\ j[Len(j)].state \notin Final), NEW type \in OpType
  PROVE  /\ Shaped(Appended(j, type)) /\ Running(Appended(j, type), type)
         /\ Len(Appended(j, type)) = Len(j) + 1
         /\ Appended(j, type)[Len(j) + 1] = [type |-> type, state |-> "pending"]
         /\ \A i \in 1 .. Len(j) : Appended(j, type)[i] = j[i]
         /\ Continues(j, Appended(j, type))
<1> DEFINE n == Len(j)
           op == [type |-> type, state |-> "pending"]
           k == Append(j, op)
<1>1. /\ j \in Seq(Op) /\ n \in Nat /\ \A i \in 1 .. n : j[i].state \in Final
  BY ShapeOfJournal
<1>2. op \in Op /\ op.type = type /\ op.state \notin Final
  BY DEF Op, OpType, Final
<1> HIDE DEF op
<1>3. /\ k \in Seq(Op) /\ Len(k) = n + 1 /\ k[n + 1] = op
      /\ \A i \in 1 .. n : k[i] = j[i]
  BY <1>1, <1>2, AppendProperties
<1>4. DOMAIN k = 1 .. n + 1
  BY <1>3, LenProperties
<1> HIDE DEF k
<1>5. Shaped(k)
  BY <1>1, <1>3, <1>4 DEF Shaped
<1>6. Running(k, type) /\ Continues(j, k)
  BY <1>1, <1>2, <1>3 DEF Running, Continues
<1> QED
  BY <1>3, <1>5, <1>6 DEF Appended, k, op

(* What an operation changes when it begins.                               *)
BegunWell(j, k, type) ==
  Shaped(k) /\ Running(k, type) /\ Continues(j, k) /\ (Clean(j) => Clean(k))

LEMMA BegunJournal ==
  ASSUME NEW j, Shaped(j), NEW type \in {"delete", "archive"}, CanBegin(j, type)
  PROVE  BegunWell(j, Begun(j, type), type)
<1>1. CASE ~IsActive(j)
  <2>1. /\ Begun(j, type) = Appended(j, type) /\ type \in OpType
        /\ ~(Len(j) >= 1 /\ j[Len(j)].state \notin Final)
    BY <1>1, ActiveIsLast DEF Begun, OpType
  <2> DEFINE k == Appended(j, type)
             n == Len(j)
  <2>2. /\ Shaped(k) /\ Running(k, type) /\ Continues(j, k) /\ Len(k) = n + 1
        /\ k[n + 1] = [type |-> type, state |-> "pending"]
        /\ \A i \in 1 .. n : k[i] = j[i]
    BY <2>1, AppendedJournal
  <2> HIDE DEF k
  <2>3. DOMAIN k = 1 .. n + 1 /\ DOMAIN j = 1 .. n /\ n \in Nat
    BY <2>2, ShapeOfJournal
  <2>4. Clean(j) => Clean(k)
    BY <2>2, <2>3 DEF Clean
  <2> QED
    BY <2>1, <2>2, <2>4 DEF BegunWell, k
<1>2. CASE IsActive(j)
  <2>1. Running(j, type) /\ ActiveOp(j) = j[Len(j)]
    BY <1>2, ActiveIsLast DEF CanBegin, Running
  <2>2. CASE ActiveOp(j).state = "blocked"
    <3>1. Begun(j, type) = Turned(j, "pending") /\ "pending" \in OpState /\ "pending" \notin Final
      BY <1>2, <2>2 DEF Begun, OpState, Final
    <3>2. Running(Turned(j, "pending"), type)
      BY <2>1, <3>1, TurnedRuns
    <3>3. Clean(j) => Clean(Turned(j, "pending"))
      BY <2>1, <3>1, TurnedClean DEF Harmless
    <3> QED
      BY <2>1, <3>1, <3>2, <3>3, TurnedJournal DEF BegunWell
  <2>3. CASE ActiveOp(j).state # "blocked"
    <3>1. Begun(j, type) = j
      BY <1>2, <2>3 DEF Begun
    <3>2. Continues(j, j)
      BY ShapeOfJournal DEF Continues
    <3> QED
      BY <2>1, <3>1, <3>2 DEF BegunWell
  <2> QED
    BY <2>2, <2>3
<1> QED
  BY <1>1, <1>2

LEMMA DeletingJournal ==
  ASSUME NEW j, Shaped(j), CanDelete(j)
  PROVE  BegunWell(j, Deleting(j), "delete")
<1>1. CASE ~Cancels(j)
  BY <1>1, BegunJournal DEF CanDelete, Deleting
<1>2. CASE Cancels(j)
  <2> DEFINE k == Turned(j, "cancelled")
             l == Appended(k, "delete")
  <2>1. Running(j, "create") /\ "cancelled" \in OpState /\ "cancelled" \in Final
    BY <1>2, ActiveIsLast DEF Cancels, Running, OpState, Final
  <2>2. /\ Shaped(k) /\ Len(k) = Len(j) /\ k[Len(j)] = [type |-> "create", state |-> "cancelled"]
        /\ \A i \in 1 .. Len(j) : i # Len(j) => k[i] = j[i]
        /\ Continues(j, k)
    BY <2>1, TurnedJournal
  <2> HIDE DEF k
  <2>3. ~(Len(k) >= 1 /\ k[Len(k)].state \notin Final) /\ "delete" \in OpType
    BY <2>1, <2>2 DEF OpType
  <2>4. /\ Shaped(l) /\ Running(l, "delete") /\ Len(l) = Len(k) + 1
        /\ l[Len(k) + 1] = [type |-> "delete", state |-> "pending"]
        /\ \A i \in 1 .. Len(k) : l[i] = k[i]
    BY <2>2, <2>3, AppendedJournal
  <2>5. /\ Len(j) \in Nat /\ DOMAIN l = 1 .. Len(j) + 1 /\ DOMAIN j = 1 .. Len(j)
    BY <2>2, <2>4, ShapeOfJournal
  <2> HIDE DEF l
  <2>6. Continues(j, l)
    BY <2>2, <2>4, <2>5 DEF Continues
  <2>7. Clean(j) => Clean(l)
    BY <2>2, <2>4, <2>5 DEF Clean
  <2> QED
    BY <1>2, <2>4, <2>6, <2>7 DEF BegunWell, Deleting, k, l
<1> QED
  BY <1>1, <1>2

-----------------------------------------------------------------------------
(* Steps of one agent.                                                     *)
TrueReport(t) ==
  /\ t.about \in Requests => requestOf[t.agent] = t.about /\ Has(t.agent, "create")
  /\ t.about = "kill" => Has(t.agent, "delete") /\ ~alive[t.agent]
  /\ t.about = "archive" => Has(t.agent, "archive") /\ ~alive[t.agent] /\ provider[t.agent]

Same(b) ==
  /\ record'[b] = record[b] /\ requestOf'[b] = requestOf[b] /\ alive'[b] = alive[b]
  /\ provider'[b] = provider[b] /\ stopped'[b] = stopped[b] /\ tomb'[b] = tomb[b]
  /\ step'[b] = step[b]

Moves(a) ==
  /\ \E x \in Record : record' = [record EXCEPT ![a] = x]
  /\ \E x \in BOOLEAN : alive' = [alive EXCEPT ![a] = x]
  /\ \E x \in BOOLEAN : provider' = [provider EXCEPT ![a] = x]
  /\ \E x \in BOOLEAN : stopped' = [stopped EXCEPT ![a] = x]
  /\ \E x \in BOOLEAN : tomb' = [tomb EXCEPT ![a] = x]
  /\ \E x \in Steps : step' = [step EXCEPT ![a] = x]

Answered == admission' = admission \/ \E x : admission' = [admission EXCEPT ![x] = None]

Reported(a) ==
  \/ told' = told
  \/ \E x \in Requests \cup {"kill", "archive"} :
       /\ told' = told \cup {[about |-> x, agent |-> a]}
       /\ HostAnswers => TrueReport([about |-> x, agent |-> a])'

(* What a report says stays true while the agent moves like this.          *)
Forward(a) ==
  /\ requestOf[a] # None => requestOf'[a] = requestOf[a]
  /\ Continues(record[a].journal, record'[a].journal)
  /\ provider[a] => provider'[a]
  /\ alive'[a] => alive[a] \/ record[a].journal = NewJournal

Advances(a) ==
  /\ Moves(a) /\ UNCHANGED <<requestOf, listed>> /\ todo' \subseteq todo
  /\ mode' = mode \/ (mode # "ready" /\ mode' = "failed")
  /\ Answered /\ Reported(a) /\ Forward(a)
  /\ Shaped(record'[a].journal)
  /\ Len(record'[a].journal) >= 1 \/ record'[a] # NoRecord
  /\ \/ step[a] # "idle"
     \/ record' = record /\ step' = step
     \/ mode # "boot" /\ ~(mode = "found" /\ a \in todo')
  /\ HostAnswers /\ alive'[a] =>
       /\ Claims(record'[a]) /\ ~provider'[a] /\ ~stopped'[a] /\ ~tomb'[a]
       /\ mode # "ready" => alive[a]
  /\ AtStep(a)' /\ (mode # "ready" => step'[a] \notin Starting)

LEMMA HasKept ==
  ASSUME NEW a \in Agents, NEW type, Shaped(record[a].journal), Shaped(record'[a].journal),
         Continues(record[a].journal, record'[a].journal), Has(a, type)
  PROVE  Has(a, type)' /\ (type # "create" => record[a].journal # NewJournal)
<1> DEFINE j == record[a].journal
           k == record'[a].journal
           op == [type |-> type, state |-> "succeeded"]
<1>1. PICK i \in DOMAIN j : j[i] = op
  BY DEF Has
<1>2. op.state \in Final /\ op.type = type
  BY DEF Final
<1> HIDE DEF op
<1>3. /\ Len(j) \in Nat /\ DOMAIN j = 1 .. Len(j) /\ Len(k) \in Nat /\ DOMAIN k = 1 .. Len(k)
      /\ Len(j) <= Len(k)
  BY ShapeOfJournal DEF Continues
<1>4. k[i] = op /\ i \in DOMAIN k
  BY <1>1, <1>2, <1>3 DEF Continues
<1>5. j = NewJournal => type = "create"
  BY <1>1, <1>2 DEF NewJournal
<1> QED
  BY <1>4, <1>5 DEF Has, op

LEMMA ReportKept ==
  ASSUME NEW t \in [about : Requests \cup {"kill", "archive"}, agent : Agents], TrueReport(t),
         Shaped(record[t.agent].journal), Shaped(record'[t.agent].journal),
         Forward(t.agent)
  PROVE  TrueReport(t)'
<1>1. t.agent \in Agents
  OBVIOUS
<1>2. CASE t.about \in Requests
  BY <1>1, <1>2, HasKept, LifecycleAssumption DEF TrueReport, Forward
<1>3. CASE t.about = "kill"
  <2>1. Has(t.agent, "delete") /\ ~alive[t.agent]
    BY <1>3 DEF TrueReport
  <2>2. Has(t.agent, "delete")' /\ record[t.agent].journal # NewJournal
    BY <1>1, <2>1, HasKept DEF Forward
  <2> QED
    BY <1>3, <2>1, <2>2, LifecycleAssumption DEF TrueReport, Forward
<1>4. CASE t.about = "archive"
  <2>1. Has(t.agent, "archive") /\ ~alive[t.agent] /\ provider[t.agent]
    BY <1>4 DEF TrueReport
  <2>2. Has(t.agent, "archive")' /\ record[t.agent].journal # NewJournal
    BY <1>1, <2>1, HasKept DEF Forward
  <2> QED
    BY <1>4, <2>1, <2>2, LifecycleAssumption DEF TrueReport, Forward
<1> QED
  BY <1>2, <1>3, <1>4

(* What LInv says of one agent.                                            *)
LEMMA AgentFacts ==
  ASSUME LInv, NEW a \in Agents
  PROVE  /\ record[a] \in Record /\ Shaped(record[a].journal) /\ AgentInv(a)
         /\ Continues(record[a].journal, record[a].journal)
         /\ alive[a] \in BOOLEAN /\ provider[a] \in BOOLEAN /\ stopped[a] \in BOOLEAN
         /\ tomb[a] \in BOOLEAN /\ step[a] \in Steps
<1>1. record[a] \in Record /\ AgentInv(a) /\ Shaped(record[a].journal)
  BY DEF LInv, Types, AgentInv
<1>2. Continues(record[a].journal, record[a].journal)
  BY <1>1, ShapeOfJournal DEF Continues
<1> QED
  BY <1>1, <1>2 DEF LInv, Types

LEMMA SameKept ==
  ASSUME NEW b \in Agents, AgentInv(b), Same(b), listed' = listed,
         mode' = mode \/ (mode # "ready" /\ mode' = "failed"),
         todo' \subseteq todo
  PROVE  AgentInv(b)'
<1>1. AtStep(b)'
  BY DEF AgentInv, AtStep, Same
<1>2. AtRecovery(b)'
  BY DEF AgentInv, AtRecovery, Same
<1> QED
  BY <1>1, <1>2 DEF AgentInv, Same

LEMMA SameForward ==
  ASSUME LInv, NEW b \in Agents, Same(b)
  PROVE  Forward(b) /\ Shaped(record'[b].journal)
BY AgentFacts DEF Forward, Same

LEMMA MovesTypes ==
  ASSUME LInv, NEW a \in Agents, Moves(a), requestOf' = requestOf
  PROVE  /\ record' \in [Agents -> Record] /\ alive' \in [Agents -> BOOLEAN]
         /\ provider' \in [Agents -> BOOLEAN] /\ stopped' \in [Agents -> BOOLEAN]
         /\ tomb' \in [Agents -> BOOLEAN] /\ step' \in [Agents -> Steps]
         /\ \A b \in Agents \ {a} : Same(b)
<1>1. /\ record' \in [Agents -> Record] /\ \A b \in Agents \ {a} : record'[b] = record[b]
  BY DEF LInv, Types, Moves
<1>2. /\ alive' \in [Agents -> BOOLEAN] /\ \A b \in Agents \ {a} : alive'[b] = alive[b]
  BY DEF LInv, Types, Moves
<1>3. /\ provider' \in [Agents -> BOOLEAN] /\ \A b \in Agents \ {a} : provider'[b] = provider[b]
  BY DEF LInv, Types, Moves
<1>4. /\ stopped' \in [Agents -> BOOLEAN] /\ \A b \in Agents \ {a} : stopped'[b] = stopped[b]
  BY DEF LInv, Types, Moves
<1>5. /\ tomb' \in [Agents -> BOOLEAN] /\ \A b \in Agents \ {a} : tomb'[b] = tomb[b]
  BY DEF LInv, Types, Moves
<1>6. /\ step' \in [Agents -> Steps] /\ \A b \in Agents \ {a} : step'[b] = step[b]
  BY DEF LInv, Types, Moves
<1> QED
  BY <1>1, <1>2, <1>3, <1>4, <1>5, <1>6 DEF Same

LEMMA AdvancesKeeps ==
  ASSUME LInv, NEW a \in Agents, Advances(a)
  PROVE  LInv'
<1>1. /\ record' \in [Agents -> Record] /\ alive' \in [Agents -> BOOLEAN]
      /\ provider' \in [Agents -> BOOLEAN] /\ stopped' \in [Agents -> BOOLEAN]
      /\ tomb' \in [Agents -> BOOLEAN] /\ step' \in [Agents -> Steps]
      /\ \A b \in Agents \ {a} : Same(b)
      /\ requestOf' = requestOf /\ listed' = listed /\ todo' \subseteq todo
      /\ mode' = mode \/ (mode # "ready" /\ mode' = "failed")
  <2>1. /\ Moves(a) /\ requestOf' = requestOf /\ listed' = listed
        /\ mode' = mode \/ (mode # "ready" /\ mode' = "failed")
        /\ todo' \subseteq todo
    BY DEF Advances
  <2> QED
    BY <2>1, MovesTypes
<1>2. told' \subseteq [about : Requests \cup {"kill", "archive"}, agent : Agents]
  <2>1. told \subseteq [about : Requests \cup {"kill", "archive"}, agent : Agents]
    BY DEF LInv, Types
  <2>2. \A x \in Requests \cup {"kill", "archive"} :
          [about |-> x, agent |-> a] \in [about : Requests \cup {"kill", "archive"}, agent : Agents]
    OBVIOUS
  <2>3. Reported(a)
    BY DEF Advances
  <2>4. CASE told' = told
    BY <2>1, <2>4
  <2>5. ASSUME NEW x \in Requests \cup {"kill", "archive"},
               told' = told \cup {[about |-> x, agent |-> a]}
        PROVE  told' \subseteq [about : Requests \cup {"kill", "archive"}, agent : Agents]
    BY <2>1, <2>2, <2>5
  <2> QED
    BY <2>3, <2>4, <2>5 DEF Reported
<1>3. admission' = [r \in Requests |-> admission'[r]]
  BY DEF Advances, Answered, LInv, Types
<1>4. Types'
  BY <1>1, <1>2, <1>3 DEF LInv, Types
<1>5. Admissions'
  <2>1. \A r \in Requests : admission'[r] = admission[r] \/ admission'[r] = None
    BY DEF Advances, Answered, LInv, Types
  <2> QED
    BY <1>1, <2>1, LifecycleAssumption DEF LInv, Admissions
<1>6. CreatedOnce'
  BY <1>1 DEF LInv, CreatedOnce
<1>7. HostAnswers => ReportsHold'
  <2> SUFFICES ASSUME HostAnswers PROVE ReportsHold'
    OBVIOUS
  <2>1. ASSUME NEW t \in told PROVE TrueReport(t)'
    <3>1. t \in [about : Requests \cup {"kill", "archive"}, agent : Agents] /\ t.agent \in Agents
      BY DEF LInv, Types
    <3>2. TrueReport(t)
      BY DEF LInv, ReportsHold, TrueReport
    <3>3. Forward(t.agent) /\ Shaped(record[t.agent].journal) /\ Shaped(record'[t.agent].journal)
      <4>1. CASE t.agent = a
        BY <3>1, <4>1, AgentFacts DEF Advances
      <4>2. CASE t.agent # a
        BY <1>1, <3>1, <4>2, AgentFacts, SameForward
      <4> QED
        BY <4>1, <4>2
    <3> QED
      BY <3>1, <3>2, <3>3, ReportKept
  <2>2. ASSUME NEW t \in told' PROVE TrueReport(t)'
    BY <2>1, <2>2 DEF Advances, Reported
  <2> QED
    BY <2>2 DEF ReportsHold, TrueReport
<1>8. AgentInv(a)'
  <2>1. /\ AgentInv(a) /\ Shaped(record[a].journal) /\ Len(record[a].journal) \in Nat
    BY AgentFacts, ShapeOfJournal
  <2>2. requestOf'[a] # None => /\ Len(record'[a].journal) >= 1
                                /\ record'[a].journal[1].type = "create"
    BY <1>1, <2>1 DEF Advances, Forward, Continues, AgentInv
  <2>3. record'[a] # NoRecord
    <3>1. CASE Len(record'[a].journal) >= 1
      <4>1. Len(<<>>) = 0
        BY EmptySeq
      <4>2. record'[a].journal # <<>>
        BY <3>1, <4>1
      <4> QED
        BY <4>2 DEF NoRecord
    <3> QED
      BY <3>1 DEF Advances
  <2>4. AtRecovery(a)'
    BY <1>1, <2>1 DEF Advances, AtRecovery, AgentInv
  <2>5. HostAnswers /\ alive'[a] => Len(record'[a].journal) >= 1
    <3>1. Continues(record[a].journal, record'[a].journal) /\ Shaped(record'[a].journal)
      BY DEF Advances, Forward
    <3>2. Len(record'[a].journal) \in Nat /\ Len(record[a].journal) <= Len(record'[a].journal)
      BY <3>1, ShapeOfJournal DEF Continues
    <3>3. HostAnswers /\ alive'[a] => Len(record[a].journal) >= 1
      <4>1. record[a].journal = NewJournal => Len(record[a].journal) = 1
        BY DEF NewJournal
      <4> QED
        BY <2>1, <4>1 DEF Advances, Forward, AgentInv
    <3> QED
      BY <2>1, <3>2, <3>3
  <2> QED
    BY <2>2, <2>3, <2>4, <2>5 DEF Advances, AgentInv
<1>9. \A b \in Agents \ {a} : AgentInv(b)'
  BY <1>1, AgentFacts, SameKept
<1> QED
  BY <1>4, <1>5, <1>6, <1>7, <1>8, <1>9 DEF LInv

-----------------------------------------------------------------------------
(* The actions of an operation.                                            *)
LEMMA StillMoves ==
  ASSUME LInv, NEW a \in Agents
  PROVE  /\ \E x \in Record : record = [record EXCEPT ![a] = x]
         /\ \E x \in BOOLEAN : alive = [alive EXCEPT ![a] = x]
         /\ \E x \in BOOLEAN : provider = [provider EXCEPT ![a] = x]
         /\ \E x \in BOOLEAN : stopped = [stopped EXCEPT ![a] = x]
         /\ \E x \in BOOLEAN : tomb = [tomb EXCEPT ![a] = x]
         /\ \E x \in Steps : step = [step EXCEPT ![a] = x]
<1>1. record = [record EXCEPT ![a] = record[a]] /\ record[a] \in Record
  BY DEF LInv, Types
<1>2. alive = [alive EXCEPT ![a] = alive[a]] /\ alive[a] \in BOOLEAN
  BY DEF LInv, Types
<1>3. provider = [provider EXCEPT ![a] = provider[a]] /\ provider[a] \in BOOLEAN
  BY DEF LInv, Types
<1>4. stopped = [stopped EXCEPT ![a] = stopped[a]] /\ stopped[a] \in BOOLEAN
  BY DEF LInv, Types
<1>5. tomb = [tomb EXCEPT ![a] = tomb[a]] /\ tomb[a] \in BOOLEAN
  BY DEF LInv, Types
<1>6. step = [step EXCEPT ![a] = step[a]] /\ step[a] \in Steps
  BY DEF LInv, Types
<1> QED
  BY <1>1, <1>2, <1>3, <1>4, <1>5, <1>6

(* A move of the journal of an agent whose operation runs.                 *)
Written(a) ==
  /\ \E x \in Record : record' = [record EXCEPT ![a] = x]
  /\ Shaped(record'[a].journal) /\ Len(record'[a].journal) >= 1
  /\ Continues(record[a].journal, record'[a].journal)

LEMMA PutRecord ==
  ASSUME LInv, NEW a \in Agents, NEW k, Shaped(k), NEW o \in BOOLEAN, NEW d \in BOOLEAN,
         Saved(a, k, o, d)
  PROVE  /\ \E x \in Record : record' = [record EXCEPT ![a] = x]
         /\ record' \in [Agents -> Record] /\ record'[a].journal = k
         /\ record'[a].owner = o /\ record'[a].archived = d
         /\ \A b \in Agents \ {a} : record'[b] = record[b]
<1> DEFINE x == [journal |-> k, owner |-> o, archived |-> d]
<1>1. x \in Record
  BY DEF Record, Shaped
<1>2. record' = [record EXCEPT ![a] = x] /\ record \in [Agents -> Record]
  BY DEF Saved, LInv, Types
<1>3. x.journal = k /\ x.owner = o /\ x.archived = d
  OBVIOUS
<1> HIDE DEF x
<1> QED
  BY <1>1, <1>2, <1>3

LEMMA SavedRecord ==
  ASSUME LInv, NEW a \in Agents, NEW k, Shaped(k), NEW o \in BOOLEAN, NEW d \in BOOLEAN,
         Saved(a, k, o, d), Len(k) >= 1, Continues(record[a].journal, k)
  PROVE  /\ Written(a) /\ record'[a].journal = k
         /\ record'[a].owner = o /\ record'[a].archived = d
BY PutRecord DEF Written

LEMMA TurnSaved ==
  ASSUME LInv, NEW a \in Agents, NEW type, Running(record[a].journal, type),
         NEW s \in OpState, NEW o \in BOOLEAN, NEW d \in BOOLEAN,
         Saved(a, Turned(record[a].journal, s), o, d)
  PROVE  /\ Written(a) /\ record'[a].owner = o /\ record'[a].archived = d
         /\ s \notin Final => Running(record'[a].journal, type)
         /\ s = "succeeded" => Has(a, type)'
         /\ Clean(record[a].journal) /\ Harmless(type, s) => Clean(record'[a].journal)
<1> DEFINE j == record[a].journal
           k == Turned(j, s)
<1>1. Shaped(j) /\ Len(j) >= 1
  BY AgentFacts DEF Running
<1>2. /\ Shaped(k) /\ Len(k) = Len(j) /\ Continues(j, k)
      /\ k[Len(j)] = [type |-> type, state |-> s]
  BY <1>1, TurnedJournal
<1>3. /\ Written(a) /\ record'[a].journal = k
      /\ record'[a].owner = o /\ record'[a].archived = d
  BY <1>1, <1>2, SavedRecord
<1>4. s \notin Final => Running(k, type)
  BY <1>1, TurnedRuns
<1>5. s = "succeeded" => Has(a, type)'
  <2>1. Len(j) \in DOMAIN k
    BY <1>1, <1>2, ShapeOfJournal
  <2> HIDE DEF k, j
  <2> QED
    BY <1>2, <1>3, <2>1 DEF Has
<1>6. Clean(j) /\ Harmless(type, s) => Clean(k)
  BY <1>1, TurnedClean
<1> QED
  BY <1>3, <1>4, <1>5, <1>6

LEMMA UnsavedRecord ==
  ASSUME LInv, NEW a \in Agents, record' = record, Len(record[a].journal) >= 1
  PROVE  Written(a)
BY AgentFacts, StillMoves DEF Written

(* The steps that an agent whose operation runs may take.                  *)
LEMMA AtWork ==
  ASSUME LInv, NEW a \in Agents
  PROVE  /\ step[a] # "idle" => Len(record[a].journal) >= 1
         /\ step[a] \in Starting => /\ Running(record[a].journal, "create") /\ mode = "ready"
                                    /\ requestOf[a] \in Requests
         /\ step[a] \in Killing => Running(record[a].journal, "delete")
         /\ step[a] \in Archiving \cup Recovering => Running(record[a].journal, "archive")
         /\ HostAnswers /\ (step[a] \in Ended \/ stopped[a] \/ tomb[a]) => ~alive[a]
         /\ HostAnswers /\ alive[a] => Claims(record[a]) /\ ~provider[a]
BY AgentFacts DEF AgentInv, AtStep, AtRecovery, Running, Steps

LEMMA LaunchAdvances ==
  ASSUME LInv, NEW a \in Agents, Launch(a)
  PROVE  Advances(a)
<1> USE DEF durable, recovery
<1>1. /\ step[a] = "launch" /\ step[a] \in Starting /\ mode = "ready"
      /\ record[a] = [journal |-> NewJournal, owner |-> TRUE, archived |-> FALSE]
      /\ ~stopped[a] /\ ~tomb[a] /\ ~provider[a] /\ Running(record[a].journal, "create")
      /\ Len(record[a].journal) >= 1 /\ requestOf[a] \in Requests
  BY AgentFacts, AtWork DEF Launch, AgentInv, AtStep, Starting
<1>2. /\ record' = record /\ requestOf' = requestOf /\ provider' = provider /\ told' = told
      /\ stopped' = stopped /\ tomb' = tomb /\ admission' = admission
      /\ mode' = mode /\ listed' = listed /\ todo' = todo
      /\ \E x \in BOOLEAN : alive' = [alive EXCEPT ![a] = x]
      /\ \E x \in {"bind", "undo"} : step' = [step EXCEPT ![a] = x]
  BY DEF Launch, Goes
<1>3. step'[a] \in {"bind", "undo"} /\ {"bind", "undo"} \subseteq Steps
  BY <1>2 DEF LInv, Types, Steps, Starting
<1>4. Moves(a)
  BY <1>2, <1>3, StillMoves DEF Moves
<1>5. Forward(a) /\ Shaped(record'[a].journal)
  BY <1>1, <1>2, AgentFacts DEF Forward
<1>6. Claims(record[a])
  <2>1. DOMAIN NewJournal = {1} /\ NewJournal[1].state = "pending"
    BY DEF NewJournal
  <2> QED
    BY <1>1, <2>1 DEF Claims, Clean
<1>7. AtStep(a)'
  BY <1>1, <1>2, <1>3 DEF AtStep, Ended, Starting, Killing, Archiving, Recovering
<1> QED
  BY <1>1, <1>2, <1>4, <1>5, <1>6, <1>7 DEF Advances, Answered, Reported

LEMMA BindAdvances ==
  ASSUME LInv, NEW a \in Agents, BindMembership(a)
  PROVE  Advances(a)
<1> USE DEF outside, recovery
<1>1. /\ step[a] = "bind" /\ step[a] \in Starting /\ mode = "ready"
      /\ Running(record[a].journal, "create") /\ Len(record[a].journal) >= 1
      /\ requestOf[a] \in Requests
  BY AtWork DEF BindMembership, Starting
<1>2. /\ requestOf' = requestOf /\ alive' = alive /\ provider' = provider /\ told' = told
      /\ stopped' = stopped /\ tomb' = tomb /\ admission' = admission
      /\ mode' = mode /\ listed' = listed /\ todo' = todo
      /\ \E x \in {"commit", "undo"} : step' = [step EXCEPT ![a] = x]
      /\ \/ Saved(a, Turned(record[a].journal, "membership-pending"), TRUE, tomb[a])
         \/ record' = record
  BY DEF BindMembership, Goes, Plainly, Unsaved
<1>3. step'[a] \in {"commit", "undo"} /\ {"commit", "undo"} \subseteq Steps
  BY <1>2 DEF LInv, Types, Steps, Starting
<1>4. /\ Written(a) /\ Running(record'[a].journal, "create")
      /\ Claims(record[a]) /\ ~tomb[a] => Claims(record'[a])
  <2>1. CASE Saved(a, Turned(record[a].journal, "membership-pending"), TRUE, tomb[a])
    <3>1. "membership-pending" \in OpState \ Final /\ tomb[a] \in BOOLEAN
      BY AgentFacts DEF OpState, Final
    <3>2. /\ Written(a) /\ Running(record'[a].journal, "create")
          /\ record'[a].owner = TRUE /\ record'[a].archived = tomb[a]
          /\ Clean(record[a].journal) => Clean(record'[a].journal)
      BY <1>1, <2>1, <3>1, TurnSaved, ZenonT(60) DEF Harmless
    <3> QED
      BY <3>2 DEF Claims
  <2>2. CASE record' = record
    BY <1>1, <2>2, UnsavedRecord
  <2> QED
    BY <1>2, <2>1, <2>2
<1>5. Moves(a) /\ Forward(a)
  BY <1>2, <1>3, <1>4, StillMoves DEF Moves, Forward, Written
<1>6. AtStep(a)'
  BY <1>1, <1>2, <1>3, <1>4 DEF AtStep, Ended, Starting, Killing, Archiving, Recovering
<1> QED
  BY <1>1, <1>2, <1>4, <1>5, <1>6, AtWork DEF Advances, Answered, Reported, Written

LEMMA CommitAdvances ==
  ASSUME LInv, NEW a \in Agents, CommitCreate(a)
  PROVE  Advances(a)
<1> USE DEF outside, recovery
<1>1. /\ step[a] = "commit" /\ step[a] \in Starting /\ mode = "ready"
      /\ Running(record[a].journal, "create") /\ Len(record[a].journal) >= 1
      /\ requestOf[a] \in Requests /\ tomb[a] \in BOOLEAN
  BY AtWork, AgentFacts DEF CommitCreate, Starting
<1>2. /\ requestOf' = requestOf /\ alive' = alive /\ provider' = provider
      /\ stopped' = stopped /\ tomb' = tomb
      /\ mode' = mode /\ listed' = listed /\ todo' = todo
  BY DEF CommitCreate
<1>3. CASE /\ Saved(a, Turned(record[a].journal, "succeeded"), TRUE, tomb[a])
           /\ told' = told \cup {[about |-> requestOf[a], agent |-> a]}
           /\ admission' = [admission EXCEPT ![requestOf[a]] = None]
           /\ step' = [step EXCEPT ![a] = "idle"]
  <2>1. /\ Written(a) /\ record'[a].owner = TRUE /\ record'[a].archived = tomb[a]
        /\ Has(a, "create")' /\ (Clean(record[a].journal) => Clean(record'[a].journal))
    <3>1. "succeeded" \in OpState /\ Harmless("create", "succeeded")
      BY DEF OpState, Final, Harmless
    <3> QED
      BY <1>1, <1>3, <3>1, TurnSaved
  <2>2. step'[a] = "idle" /\ "idle" \in Steps
    BY <1>3 DEF LInv, Types, Steps
  <2>3. Moves(a) /\ Forward(a)
    BY <1>2, <1>3, <2>1, <2>2, StillMoves DEF Moves, Forward, Written
  <2>4. AtStep(a)'
    BY <2>2 DEF AtStep, Ended, Starting, Killing, Archiving, Recovering
  <2>5. PICK r \in Requests : r = requestOf[a]
    BY <1>1
  <2>6. Reported(a) /\ Answered
    <3>1. r \notin {"kill", "archive"}
      BY LifecycleAssumption
    <3>2. TrueReport([about |-> r, agent |-> a])'
      BY <1>2, <2>1, <2>5, <3>1 DEF TrueReport
    <3> QED
      BY <1>3, <2>5, <3>2 DEF Reported, Answered
  <2> QED
    BY <1>1, <1>2, <2>1, <2>2, <2>3, <2>4, <2>6, AtWork DEF Advances, Written, Claims, Starting
<1>4. CASE /\ record' = record /\ step' = [step EXCEPT ![a] = "undo"]
           /\ told' = told /\ admission' = admission
  <2>1. Written(a)
    BY <1>1, <1>4, UnsavedRecord
  <2>2. step'[a] = "undo" /\ "undo" \in Steps
    BY <1>4 DEF LInv, Types, Steps, Starting
  <2>3. Moves(a) /\ Forward(a)
    BY <1>2, <1>4, <2>1, <2>2, StillMoves DEF Moves, Forward, Written
  <2>4. AtStep(a)'
    BY <1>1, <1>2, <1>4, <2>2 DEF AtStep, Ended, Starting, Killing, Archiving, Recovering
  <2> QED
    BY <1>1, <1>2, <1>4, <2>1, <2>3, <2>4, AtWork DEF Advances, Written, Answered, Reported
<1> QED
  BY <1>3, <1>4 DEF CommitCreate, Plainly, Unsaved, Tell, Answers, Ends, Goes

LEMMA UndoAdvances ==
  ASSUME LInv, NEW a \in Agents, UndoCreate(a)
  PROVE  Advances(a)
<1> USE DEF outside, recovery
<1>1. /\ step[a] = "undo" /\ step[a] \in Starting /\ mode = "ready"
      /\ Running(record[a].journal, "create") /\ Len(record[a].journal) >= 1
      /\ requestOf[a] \in Requests /\ tomb[a] \in BOOLEAN
  BY AtWork, AgentFacts DEF UndoCreate, Starting
<1>2. /\ requestOf' = requestOf /\ alive' = alive /\ provider' = provider /\ told' = told
      /\ stopped' = stopped /\ tomb' = tomb
      /\ mode' = mode /\ listed' = listed /\ todo' = todo
  BY DEF UndoCreate
<1>3. /\ Answered
      /\ \/ ~alive[a] /\ step' = [step EXCEPT ![a] = "fail"] /\ record' = record
         \/ /\ step' = [step EXCEPT ![a] = "idle"]
            /\ \/ Saved(a, Turned(record[a].journal, "blocked"), TRUE, tomb[a])
               \/ record' = record
  BY DEF UndoCreate, Plainly, Unsaved, Answers, Answered, Ends, Goes
<1>4. /\ Written(a) /\ (record' = record => Running(record'[a].journal, "create"))
      /\ Claims(record[a]) /\ ~tomb[a] => Claims(record'[a])
  <2>1. CASE Saved(a, Turned(record[a].journal, "blocked"), TRUE, tomb[a])
    <3>1. "blocked" \in OpState \ Final
      BY DEF OpState, Final
    <3>2. /\ Written(a) /\ Running(record'[a].journal, "create")
          /\ record'[a].owner = TRUE /\ record'[a].archived = tomb[a]
          /\ Clean(record[a].journal) => Clean(record'[a].journal)
      BY <1>1, <2>1, <3>1, TurnSaved, ZenonT(60) DEF Harmless
    <3> QED
      BY <3>2 DEF Claims
  <2>2. CASE record' = record
    BY <1>1, <2>2, UnsavedRecord
  <2> QED
    BY <1>3, <2>1, <2>2
<1>5. /\ step'[a] \in {"idle", "fail"} /\ {"idle", "fail"} \subseteq Steps
      /\ \E x \in {"idle", "fail"} : step' = [step EXCEPT ![a] = x]
      /\ step'[a] = "fail" => ~alive[a] /\ record' = record
  BY <1>3 DEF LInv, Types, Steps, Starting
<1>6. Moves(a) /\ Forward(a)
  BY <1>2, <1>4, <1>5, StillMoves DEF Moves, Forward, Written
<1>7. AtStep(a)'
  BY <1>1, <1>2, <1>4, <1>5 DEF AtStep, Ended, Starting, Killing, Archiving, Recovering
<1> QED
  BY <1>1, <1>2, <1>3, <1>4, <1>6, <1>7, AtWork DEF Advances, Reported, Written

LEMMA FailAdvances ==
  ASSUME LInv, NEW a \in Agents, FailCreate(a)
  PROVE  Advances(a)
<1> USE DEF outside, recovery
<1>1. /\ step[a] = "fail" /\ step[a] \in Starting /\ mode = "ready" /\ (HostAnswers => ~alive[a])
      /\ Running(record[a].journal, "create") /\ Len(record[a].journal) >= 1
  BY AtWork DEF FailCreate, Starting, Ended
<1>2. /\ requestOf' = requestOf /\ alive' = alive /\ provider' = provider /\ told' = told
      /\ mode' = mode /\ listed' = listed /\ todo' = todo
      /\ Answered /\ step' = [step EXCEPT ![a] = "idle"]
      /\ \/ stopped' = stopped /\ tomb' = tomb
         \/ stopped' = [stopped EXCEPT ![a] = FALSE] /\ tomb' = [tomb EXCEPT ![a] = FALSE]
      /\ \/ Saved(a, Turned(record[a].journal, "failed"), FALSE, FALSE)
         \/ record' = record
  BY DEF FailCreate, Forget, Keep, Unsaved, Answers, Answered, Ends, Goes
<1>3. Written(a)
  <2>1. "failed" \in OpState
    BY DEF OpState, Final
  <2> QED
    BY <1>1, <1>2, <2>1, TurnSaved, UnsavedRecord
<1>4. step'[a] = "idle" /\ "idle" \in Steps
  BY <1>2 DEF LInv, Types, Steps
<1>5. Moves(a) /\ Forward(a)
  BY <1>1, <1>2, <1>3, <1>4, StillMoves DEF Moves, Forward, Written
<1>6. AtStep(a)'
  BY <1>4 DEF AtStep, Ended, Starting, Killing, Archiving, Recovering
<1> QED
  BY <1>1, <1>2, <1>3, <1>4, <1>5, <1>6 DEF Advances, Reported, Written, Starting

LEMMA StopAdvances ==
  ASSUME LInv, NEW a \in Agents, Stop(a)
  PROVE  Advances(a)
<1> USE DEF outside, recovery
<1>1. /\ step[a] \in {"stop", "release"} /\ tomb[a] \in BOOLEAN /\ Len(record[a].journal) >= 1
      /\ step[a] = "stop" => Running(record[a].journal, "delete")
      /\ step[a] = "release" => Running(record[a].journal, "archive")
  BY AtWork, AgentFacts DEF Stop, After, Killing, Archiving
<1>2. /\ requestOf' = requestOf /\ alive' = alive /\ provider' = provider /\ told' = told
      /\ tomb' = tomb /\ admission' = admission
      /\ mode' = mode /\ listed' = listed /\ todo' = todo
      /\ stopped' = [stopped EXCEPT ![a] = @ \/ (step'[a] = "mark")]
  BY DEF Stop
<1>3. \/ /\ (~HostAnswers \/ ~alive[a] \/ stopped[a]) /\ record' = record
         /\ step' = [step EXCEPT ![a] = IF step[a] = "stop" THEN "delete" ELSE "mark"]
      \/ /\ step' = [step EXCEPT ![a] = "idle"] /\ ~stopped[a]
         /\ \/ Saved(a, Turned(record[a].journal, "blocked"), TRUE, tomb[a])
            \/ record' = record
  <2>1. After[step[a]] = (IF step[a] = "stop" THEN "delete" ELSE "mark")
    BY <1>1 DEF After
  <2> QED
    BY <2>1 DEF Stop, Stopped, Plainly, Unsaved, Ends, Goes, HostAnswers
<1>4. Written(a) /\ (Claims(record[a]) /\ ~tomb[a] => Claims(record'[a]))
  <2>1. CASE Saved(a, Turned(record[a].journal, "blocked"), TRUE, tomb[a])
    <3>1. PICK type : Running(record[a].journal, type)
      BY <1>1
    <3>2. "blocked" \in OpState /\ Harmless(type, "blocked") /\ TRUE \in BOOLEAN
      BY DEF OpState, Harmless
    <3>3. /\ Written(a) /\ record'[a].owner = TRUE /\ record'[a].archived = tomb[a]
          /\ Clean(record[a].journal) => Clean(record'[a].journal)
      BY <1>1, <2>1, <3>1, <3>2, TurnSaved
    <3> QED
      BY <3>3 DEF Claims
  <2>2. CASE record' = record
    BY <1>1, <2>2, UnsavedRecord
  <2> QED
    BY <1>3, <2>1, <2>2
<1>5. /\ step'[a] \in {"idle", "delete", "mark"} /\ {"idle", "delete", "mark"} \subseteq Steps
      /\ \E x \in {"idle", "delete", "mark"} : step' = [step EXCEPT ![a] = x]
      /\ step'[a] # "idle" => (HostAnswers => ~alive[a]) /\ record' = record
      /\ step'[a] = "delete" => step[a] = "stop"
      /\ step'[a] = "mark" => step[a] = "release"
  BY <1>1, <1>3, AtWork DEF LInv, Types, Steps, Killing, Archiving
<1>6. (stopped[a] \/ (step'[a] = "mark")) \in BOOLEAN
  OBVIOUS
<1>7. \E x \in BOOLEAN : stopped' = [stopped EXCEPT ![a] = x]
  BY <1>2, <1>6
<1>8. HostAnswers /\ stopped'[a] => ~alive[a]
  BY <1>2, <1>5, AtWork DEF LInv, Types
<1>9. Moves(a) /\ Forward(a)
  BY <1>2, <1>4, <1>5, <1>7, StillMoves DEF Moves, Forward, Written
<1>10. AtStep(a)'
  BY <1>1, <1>2, <1>4, <1>5 DEF AtStep, Ended, Starting, Killing, Archiving, Recovering
<1>11. HostAnswers /\ alive'[a] =>
         Claims(record'[a]) /\ ~provider'[a] /\ ~stopped'[a] /\ ~tomb'[a]
  BY <1>2, <1>4, <1>8, AtWork
<1>12. step[a] # "idle" /\ step'[a] \notin Starting
  BY <1>1, <1>5 DEF Starting
<1> QED
  BY <1>2, <1>4, <1>9, <1>10, <1>11, <1>12 DEF Advances, Reported, Answered, Written

LEMMA DeleteAdvances ==
  ASSUME LInv, NEW a \in Agents, CommitDelete(a)
  PROVE  Advances(a)
<1> USE DEF outside, recovery
<1>1. /\ step[a] = "delete" /\ (HostAnswers => ~alive[a]) /\ Len(record[a].journal) >= 1
      /\ Running(record[a].journal, "delete")
  BY AtWork DEF CommitDelete, Killing, Ended
<1>2. /\ requestOf' = requestOf /\ alive' = alive /\ provider' = provider
      /\ admission' = admission
      /\ mode' = mode /\ listed' = listed /\ todo' = todo
      /\ step' = [step EXCEPT ![a] = "idle"]
      /\ \E x \in BOOLEAN : stopped' = [stopped EXCEPT ![a] = x]
      /\ \/ tomb' = tomb
         \/ tomb' = [tomb EXCEPT ![a] = FALSE]
      /\ \/ /\ Saved(a, Turned(record[a].journal, "succeeded"), FALSE, TRUE)
            /\ told' = told \/ told' = told \cup {[about |-> "kill", agent |-> a]}
         \/ record' = record /\ told' = told
  BY DEF CommitDelete, Forget, Retain, Unsaved, Tell, Ends, Goes
<1>3. Written(a) /\ (record' # record => Has(a, "delete")')
  <2>1. "succeeded" \in OpState
    BY DEF OpState, Final
  <2> QED
    BY <1>1, <1>2, <2>1, TurnSaved, UnsavedRecord
<1>4. step'[a] = "idle" /\ "idle" \in Steps
  BY <1>2 DEF LInv, Types, Steps
<1>5. Moves(a) /\ Forward(a)
  BY <1>1, <1>2, <1>3, <1>4, StillMoves DEF Moves, Forward, Written
<1>6. AtStep(a)'
  BY <1>4 DEF AtStep, Ended, Starting, Killing, Archiving, Recovering
<1>7. Reported(a)
  <2>1. CASE told' = told
    BY <2>1 DEF Reported
  <2>2. CASE told' # told
    <3>1. Has(a, "delete")'
      <4>1. Saved(a, Turned(record[a].journal, "succeeded"), FALSE, TRUE)
        BY <1>2, <2>2
      <4>2. "succeeded" \in OpState
        BY DEF OpState, Final
      <4> QED
        BY <1>1, <4>1, <4>2, TurnSaved
    <3>2. HostAnswers => TrueReport([about |-> "kill", agent |-> a])'
      BY <1>1, <1>2, <3>1, LifecycleAssumption DEF TrueReport
    <3> QED
      BY <1>2, <2>2, <3>2 DEF Reported
  <2> QED
    BY <2>1, <2>2
<1> QED
  BY <1>1, <1>2, <1>3, <1>4, <1>5, <1>6, <1>7 DEF Advances, Answered, Written, Starting

LEMMA MarkAdvances ==
  ASSUME LInv, NEW a \in Agents, MarkArchived(a)
  PROVE  Advances(a)
<1> USE DEF outside, recovery
<1>1. /\ step[a] = "mark" /\ (HostAnswers => ~alive[a]) /\ Len(record[a].journal) >= 1
      /\ Running(record[a].journal, "archive")
  BY AtWork DEF MarkArchived, Archiving, Ended
<1>2. /\ requestOf' = requestOf /\ alive' = alive /\ provider' = provider /\ stopped' = stopped
      /\ admission' = admission /\ told' = told
      /\ mode' = mode /\ listed' = listed /\ todo' = todo
      /\ \/ /\ step' = [step EXCEPT ![a] = "provider"] /\ tomb' = [tomb EXCEPT ![a] = TRUE]
            /\ Saved(a, Turned(record[a].journal, "provider-archive-pending"), FALSE, TRUE)
         \/ step' = [step EXCEPT ![a] = "idle"] /\ record' = record /\ tomb' = tomb
  BY DEF MarkArchived, Unsaved, Ends, Goes
<1>3. /\ Written(a)
      /\ step' = [step EXCEPT ![a] = "provider"] => Running(record'[a].journal, "archive")
  <2>1. "provider-archive-pending" \in OpState \ Final
    BY DEF OpState, Final
  <2> QED
    BY <1>1, <1>2, <2>1, TurnSaved, UnsavedRecord
<1>4. /\ step'[a] \in {"idle", "provider"} /\ {"idle", "provider"} \subseteq Steps
      /\ \E x \in {"idle", "provider"} : step' = [step EXCEPT ![a] = x]
      /\ step'[a] = "provider" => Running(record'[a].journal, "archive")
  BY <1>2, <1>3 DEF LInv, Types, Steps, Archiving
<1>5. Moves(a) /\ Forward(a)
  BY <1>1, <1>2, <1>3, <1>4, StillMoves DEF Moves, Forward, Written
<1>6. AtStep(a)'
  BY <1>1, <1>2, <1>4 DEF AtStep, Ended, Starting, Killing, Archiving, Recovering
<1> QED
  BY <1>1, <1>2, <1>3, <1>4, <1>5, <1>6 DEF Advances, Answered, Reported, Written, Starting

LEMMA ProviderAdvances ==
  ASSUME LInv, NEW a \in Agents, ArchiveProvider(a)
  PROVE  Advances(a)
<1> USE DEF outside, recovery
<1>1. /\ step[a] = "provider" /\ (HostAnswers => ~alive[a]) /\ Len(record[a].journal) >= 1
      /\ Running(record[a].journal, "archive")
  BY AtWork DEF ArchiveProvider, Archiving, Ended
<1>2. /\ requestOf' = requestOf /\ alive' = alive /\ provider' = provider /\ stopped' = stopped
      /\ tomb' = tomb /\ admission' = admission /\ told' = told
      /\ mode' = mode /\ listed' = listed /\ todo' = todo
      /\ \/ step' = [step EXCEPT ![a] = "archive"] /\ record' = record /\ provider[a]
         \/ /\ step' = [step EXCEPT ![a] = "idle"]
            /\ \/ Saved(a, Turned(record[a].journal, "blocked"), FALSE, TRUE)
               \/ record' = record
  BY DEF ArchiveProvider, Unsaved, Ends, Goes
<1>3. Written(a)
  <2>1. "blocked" \in OpState
    BY DEF OpState
  <2> QED
    BY <1>1, <1>2, <2>1, TurnSaved, UnsavedRecord
<1>4. /\ step'[a] \in {"idle", "archive"} /\ {"idle", "archive"} \subseteq Steps
      /\ \E x \in {"idle", "archive"} : step' = [step EXCEPT ![a] = x]
      /\ step'[a] = "archive" => provider[a] /\ record' = record
  BY <1>2 DEF LInv, Types, Steps, Archiving
<1>5. Moves(a) /\ Forward(a)
  BY <1>1, <1>2, <1>3, <1>4, StillMoves DEF Moves, Forward, Written
<1>6. AtStep(a)'
  BY <1>1, <1>2, <1>4 DEF AtStep, Ended, Starting, Killing, Archiving, Recovering
<1> QED
  BY <1>1, <1>2, <1>3, <1>4, <1>5, <1>6 DEF Advances, Answered, Reported, Written, Starting

LEMMA ArchiveAdvances ==
  ASSUME LInv, NEW a \in Agents, CommitArchive(a)
  PROVE  Advances(a)
<1> USE DEF outside, recovery
<1>1. /\ step[a] = "archive" /\ (HostAnswers => ~alive[a]) /\ Len(record[a].journal) >= 1
      /\ Running(record[a].journal, "archive") /\ provider[a]
  BY AtWork, AgentFacts DEF CommitArchive, Archiving, Ended, AgentInv, AtStep
<1>2. /\ requestOf' = requestOf /\ alive' = alive /\ provider' = provider
      /\ admission' = admission
      /\ mode' = mode /\ listed' = listed /\ todo' = todo
      /\ step' = [step EXCEPT ![a] = "idle"]
      /\ stopped' = stopped \/ stopped' = [stopped EXCEPT ![a] = FALSE]
      /\ tomb' = tomb \/ tomb' = [tomb EXCEPT ![a] = FALSE]
      /\ \/ /\ Saved(a, Turned(record[a].journal, "succeeded"), FALSE, TRUE)
            /\ told' = told \cup {[about |-> "archive", agent |-> a]}
         \/ record' = record /\ told' = told
  BY DEF CommitArchive, Forget, Keep, Unsaved, Tell, Ends, Goes
<1>3. "succeeded" \in OpState
  BY DEF OpState, Final
<1>4. Written(a)
  BY <1>1, <1>2, <1>3, TurnSaved, UnsavedRecord
<1>5. step'[a] = "idle" /\ "idle" \in Steps
  BY <1>2 DEF LInv, Types, Steps
<1>6. Moves(a) /\ Forward(a)
  BY <1>1, <1>2, <1>4, <1>5, StillMoves DEF Moves, Forward, Written
<1>7. AtStep(a)'
  BY <1>5 DEF AtStep, Ended, Starting, Killing, Archiving, Recovering
<1>8. Reported(a)
  <2>1. CASE told' = told
    BY <2>1 DEF Reported
  <2>2. CASE told' # told
    <3>1. Has(a, "archive")'
      BY <1>1, <1>2, <1>3, <2>2, TurnSaved
    <3>2. HostAnswers => TrueReport([about |-> "archive", agent |-> a])'
      BY <1>1, <1>2, <3>1, LifecycleAssumption DEF TrueReport
    <3> QED
      BY <1>2, <2>2, <3>2 DEF Reported
  <2> QED
    BY <2>1, <2>2
<1> QED
  BY <1>1, <1>2, <1>4, <1>5, <1>6, <1>7, <1>8 DEF Advances, Answered, Written, Starting

LEMMA RecoverArchiveAdvances ==
  ASSUME LInv, NEW a \in Agents, RecoverArchive(a)
  PROVE  Advances(a)
<1> USE DEF outside, recovery
<1>1. /\ step[a] = "recover-provider" /\ (HostAnswers => ~alive[a]) /\ Len(record[a].journal) >= 1
      /\ Running(record[a].journal, "archive")
  BY AtWork DEF RecoverArchive, Recovering, Ended
<1>2. /\ requestOf' = requestOf /\ alive' = alive /\ provider' = provider
      /\ admission' = admission /\ told' = told
      /\ mode' = mode /\ listed' = listed /\ todo' = todo
      /\ step' = [step EXCEPT ![a] = "idle"]
      /\ stopped' = stopped \/ stopped' = [stopped EXCEPT ![a] = FALSE]
      /\ tomb' = tomb \/ tomb' = [tomb EXCEPT ![a] = FALSE]
      /\ \/ \E s \in {"succeeded", "blocked"} :
              Saved(a, Turned(record[a].journal, s), TRUE, FALSE)
         \/ record' = record
  BY DEF RecoverArchive, Forget, Keep, Unsaved, Ends, Goes
<1>3. Written(a)
  <2>1. {"succeeded", "blocked"} \subseteq OpState
    BY DEF OpState, Final
  <2> QED
    BY <1>1, <1>2, <2>1, TurnSaved, UnsavedRecord
<1>4. step'[a] = "idle" /\ "idle" \in Steps
  BY <1>2 DEF LInv, Types, Steps
<1>5. Moves(a) /\ Forward(a)
  BY <1>1, <1>2, <1>3, <1>4, StillMoves DEF Moves, Forward, Written
<1>6. AtStep(a)'
  BY <1>4 DEF AtStep, Ended, Starting, Killing, Archiving, Recovering
<1> QED
  BY <1>1, <1>2, <1>3, <1>4, <1>5, <1>6 DEF Advances, Answered, Reported, Written, Starting

LEMMA DiesAdvances ==
  ASSUME LInv, NEW a \in Agents, Dies(a)
  PROVE  Advances(a)
<1> USE DEF durable, memory, recovery
<1>1. /\ alive[a] /\ record[a] # NoRecord /\ AtStep(a) /\ AtRecovery(a)
  BY AgentFacts DEF Dies, AgentInv
<1>2. /\ record' = record /\ requestOf' = requestOf /\ provider' = provider /\ told' = told
      /\ stopped' = stopped /\ tomb' = tomb /\ step' = step /\ admission' = admission
      /\ mode' = mode /\ listed' = listed /\ todo' = todo
      /\ alive' = [alive EXCEPT ![a] = FALSE]
  BY DEF Dies
<1>3. alive'[a] = FALSE
  BY <1>2 DEF LInv, Types
<1>4. Moves(a)
  BY <1>2, StillMoves DEF Moves
<1>5. Forward(a) /\ Shaped(record'[a].journal)
  BY <1>2, <1>3, AgentFacts DEF Forward
<1>6. AtStep(a)'
  BY <1>1, <1>2, <1>3 DEF AtStep
<1> QED
  BY <1>1, <1>2, <1>3, <1>4, <1>5, <1>6 DEF Advances, Answered, Reported, AtRecovery

LEMMA ProviderArchivesAdvances ==
  ASSUME LInv, NEW a \in Agents, ProviderArchives(a)
  PROVE  Advances(a)
<1> USE DEF durable, memory, recovery
<1>1. /\ (HostAnswers => ~alive[a]) /\ Len(record[a].journal) >= 1
      /\ AtStep(a) /\ AtRecovery(a) /\ step[a] \in {"provider", "recover-provider"}
  BY AgentFacts, AtWork DEF ProviderArchives, AgentInv, Ended
<1>2. /\ record' = record /\ requestOf' = requestOf /\ alive' = alive /\ told' = told
      /\ stopped' = stopped /\ tomb' = tomb /\ step' = step /\ admission' = admission
      /\ mode' = mode /\ listed' = listed /\ todo' = todo
      /\ provider' = [provider EXCEPT ![a] = TRUE]
  BY DEF ProviderArchives
<1>3. provider'[a] = TRUE
  BY <1>2 DEF LInv, Types
<1>4. Moves(a)
  BY <1>2, StillMoves DEF Moves
<1>5. Forward(a) /\ Shaped(record'[a].journal)
  BY <1>2, <1>3, AgentFacts DEF Forward
<1>6. AtStep(a)'
  BY <1>1, <1>2 DEF AtStep
<1> QED
  BY <1>1, <1>2, <1>3, <1>4, <1>5, <1>6 DEF Advances, Answered, Reported, AtRecovery

-----------------------------------------------------------------------------
(* Steps that begin an operation, or leave the agents as they are.         *)
Rests == /\ UNCHANGED <<record, requestOf, alive, provider, stopped, tomb, step, told, listed>>
         /\ mode' = mode \/ (mode # "ready" /\ mode' = "failed")

LEMMA RestsKeeps ==
  ASSUME LInv, Rests, todo' \subseteq todo, Admissions',
         admission' = [r \in Requests |-> admission'[r]]
  PROVE  LInv'
<1>1. Types'
  BY DEF LInv, Types, Rests
<1>2. CreatedOnce'
  BY DEF LInv, CreatedOnce, Rests
<1>3. HostAnswers => ReportsHold'
  BY DEF LInv, ReportsHold, Has, Rests
<1>4. ASSUME NEW b \in Agents PROVE AgentInv(b)'
  <2>1. AgentInv(b) /\ Same(b)
    BY AgentFacts DEF Same, Rests
  <2> QED
    BY <2>1, SameKept DEF Rests
<1> QED
  BY <1>1, <1>2, <1>3, <1>4 DEF LInv

LEMMA SameAdmissions ==
  ASSUME LInv, admission' = admission, requestOf' = requestOf,
         mode' = mode \/ (mode # "ready" /\ mode' = "failed")
  PROVE  Admissions' /\ admission' = [r \in Requests |-> admission'[r]]
BY DEF LInv, Types, Admissions

(* A delete or archive that begins, or cannot.                             *)
Begins(a) ==
  /\ step[a] = "idle" /\ mode # "boot" /\ ~(mode = "found" /\ a \in todo')
  /\ BeginKill(a) \/ BeginArchive(a)
  /\ UNCHANGED <<requestOf, alive, provider, stopped, tomb, admission, told, mode, listed>>
  /\ todo' \subseteq todo

LEMMA BeginsKeeps ==
  ASSUME LInv, NEW a \in Agents, Begins(a)
  PROVE  LInv'
<1>1. CASE record' = record /\ step' = step
  BY <1>1, RestsKeeps, SameAdmissions DEF Begins, Rests
<1>2. ASSUME NEW type \in {"delete", "archive"}, NEW k, NEW s \in {"stop", "release"},
             BegunWell(record[a].journal, k, type), Saved(a, k, TRUE, tomb[a]),
             step' = [step EXCEPT ![a] = s],
             s = "stop" => type = "delete", s = "release" => type = "archive"
      PROVE  LInv'
  <2>1. tomb[a] \in BOOLEAN /\ TRUE \in BOOLEAN
    BY AgentFacts
  <2>2. /\ Shaped(k) /\ Running(k, type) /\ Len(k) >= 1 /\ Continues(record[a].journal, k)
        /\ Clean(record[a].journal) => Clean(k)
    BY <1>2 DEF BegunWell, Running
  <2>3. /\ Written(a) /\ record'[a].journal = k /\ record'[a].owner = TRUE
        /\ record'[a].archived = tomb[a]
    BY <1>2, <2>1, <2>2, SavedRecord, ZenonT(60)
  <2>4. step'[a] = s /\ {"stop", "release"} \subseteq Steps
    BY <1>2 DEF LInv, Types, Steps, Killing, Archiving
  <2>5. Moves(a) /\ Forward(a)
    BY <1>2, <2>3, <2>4, StillMoves DEF Begins, Moves, Forward, Written
  <2>6. AtStep(a)'
    BY <1>2, <2>2, <2>3, <2>4 DEF AtStep, Ended, Starting, Killing, Archiving, Recovering
  <2>7. HostAnswers /\ alive'[a] =>
          Claims(record'[a]) /\ ~provider'[a] /\ ~stopped'[a] /\ ~tomb'[a]
    BY <2>2, <2>3, AtWork DEF Begins, Claims
  <2>8. Advances(a)
    BY <1>2, <2>3, <2>4, <2>5, <2>6, <2>7 DEF Begins, Advances, Answered, Reported, Written, Starting
  <2> QED
    BY <2>8, AdvancesKeeps
<1>3. CASE BeginKill(a)
  <2>1. CASE CanDelete(record[a].journal)
    BY <1>1, <1>2, <1>3, <2>1, AgentFacts, DeletingJournal DEF BeginKill, Plainly, Goes
  <2>2. CASE ~CanDelete(record[a].journal)
    BY <1>1, <1>3, <2>2 DEF BeginKill
  <2> QED
    BY <2>1, <2>2
<1>4. CASE BeginArchive(a)
  <2>1. CASE CanBegin(record[a].journal, "archive")
    BY <1>1, <1>2, <1>4, <2>1, AgentFacts, BegunJournal DEF BeginArchive, Plainly, Goes
  <2>2. CASE ~CanBegin(record[a].journal, "archive")
    BY <1>1, <1>4, <2>2 DEF BeginArchive
  <2> QED
    BY <2>1, <2>2
<1> QED
  BY <1>3, <1>4 DEF Begins

LEMMA RequestKeeps ==
  ASSUME LInv, NEW a \in Agents, NEW kind, Request(a, kind) \/ RunWaiter(a)
  PROVE  LInv'
<1> USE DEF outside, recovery
<1>1. CASE record' = record /\ step' = step
  BY <1>1, RestsKeeps, SameAdmissions DEF Request, RunWaiter, Rests
<1>2. CASE BeginKill(a) \/ BeginArchive(a)
  <2>1. CASE step[a] = "idle"
    BY <1>2, <2>1, BeginsKeeps DEF Request, RunWaiter, Begins
  <2>2. CASE step[a] # "idle"
    BY <1>1, <2>2 DEF Request, RunWaiter
  <2> QED
    BY <2>1, <2>2
<1> QED
  BY <1>1, <1>2 DEF Request, RunWaiter, Begin

-----------------------------------------------------------------------------
(* Recovery.                                                               *)
(* A terminal that no record names, restored as the host knows it.         *)
LEMMA RestoredKeeps ==
  ASSUME LInv, NEW a \in Agents, mode = "found", a \in todo, ~record[a].owner,
         Saved(a, <<>>, TRUE, FALSE), requestOf' = [requestOf EXCEPT ![a] = None],
         UNCHANGED <<alive, provider, stopped, tomb, step, admission, told, listed>>,
         mode' = mode \/ mode' = "failed", todo' = todo \ {a}
  PROVE  LInv'
<1>1. ~HostAnswers /\ step[a] = "idle" /\ AgentInv(a)
  BY AgentFacts DEF AgentInv, AtRecovery
<1>2. Shaped(<<>>) /\ TRUE \in BOOLEAN /\ FALSE \in BOOLEAN
  <2>1. <<>> \in Seq(Op) /\ DOMAIN <<>> = {}
    BY EmptySeq
  <2> QED
    BY <2>1 DEF Shaped
<1>3. /\ record' \in [Agents -> Record] /\ record'[a].journal = <<>> /\ record'[a].owner = TRUE
      /\ \A b \in Agents \ {a} : record'[b] = record[b]
  BY <1>2, PutRecord DEF LInv, Types
<1>4. /\ requestOf' \in [Agents -> Requests \cup {None}] /\ requestOf'[a] = None
      /\ \A b \in Agents \ {a} : requestOf'[b] = requestOf[b]
  BY DEF LInv, Types
<1>5. Types'
  BY <1>3, <1>4 DEF LInv, Types
<1>6. Admissions'
  BY <1>4, LifecycleAssumption DEF LInv, Admissions
<1>7. CreatedOnce'
  BY <1>4 DEF LInv, CreatedOnce
<1>8. AgentInv(a)'
  <2>1. AtStep(a)'
    BY <1>1 DEF AtStep, Ended, Starting, Killing, Archiving, Recovering
  <2>2. AtRecovery(a)'
    BY <1>1 DEF AtRecovery, AgentInv
  <2>3. record'[a] # NoRecord
    BY <1>3 DEF NoRecord
  <2> QED
    BY <1>1, <1>2, <1>3, <1>4, <2>1, <2>2, <2>3 DEF AgentInv
<1>9. ASSUME NEW b \in Agents \ {a} PROVE AgentInv(b)'
  <2>1. Same(b) /\ todo' \subseteq todo /\ AgentInv(b)
    BY <1>3, <1>4, AgentFacts DEF Same
  <2> QED
    BY <2>1, SameKept
<1> QED
  BY <1>1, <1>5, <1>6, <1>7, <1>8, <1>9 DEF LInv

LEMMA RecoverFoundKeeps ==
  ASSUME LInv, NEW a \in Agents, RecoverFound(a)
  PROVE  LInv'
<1> USE DEF outside
<1> DEFINE j == record[a].journal
<1>1. /\ mode = "found" /\ a \in todo /\ todo' = todo \ {a} /\ step[a] = "idle"
      /\ alive' = alive /\ provider' = provider /\ stopped' = stopped /\ tomb' = tomb
      /\ admission' = admission /\ told' = told /\ listed' = listed
      /\ \/ record[a].owner /\ RecoverOwned(a)
         \/ ~record[a].owner /\ RecoverOrphan(a)
  BY AgentFacts DEF RecoverFound, Quiet, Record
<1>2. Shaped(j)
  BY AgentFacts DEF AgentInv
<1>3. ASSUME record' = record, step' = step, requestOf' = requestOf,
             mode' = mode \/ mode' = "failed"
      PROVE  LInv'
  BY <1>1, <1>3, RestsKeeps, SameAdmissions DEF Rests
<1>4. ASSUME NEW k, Shaped(k), Continues(j, k), Clean(j) => Clean(k), Saved(a, k, TRUE, FALSE),
             step' = step, requestOf' = requestOf, mode' = mode \/ mode' = "failed"
      PROVE  LInv'
  <2>1. /\ \E x \in Record : record' = [record EXCEPT ![a] = x]
        /\ record'[a].journal = k /\ record'[a].owner = TRUE /\ record'[a].archived = FALSE
    BY <1>4, PutRecord
  <2>2. Moves(a) /\ Forward(a)
    BY <1>1, <1>4, <2>1, StillMoves DEF Moves, Forward
  <2>3. AtStep(a)'
    BY <1>1, <1>4 DEF AtStep, Ended, Starting, Killing, Archiving, Recovering
  <2>4. HostAnswers /\ alive'[a] =>
          Claims(record'[a]) /\ ~provider'[a] /\ ~stopped'[a] /\ ~tomb'[a]
    BY <1>1, <1>4, <2>1, AtWork DEF Claims
  <2>5. record'[a] # NoRecord
    BY <2>1 DEF NoRecord
  <2>6. Advances(a)
    BY <1>1, <1>4, <2>1, <2>2, <2>3, <2>4, <2>5 DEF Advances, Answered, Reported, Starting
  <2> QED
    BY <2>6, AdvancesKeeps
<1>5. ASSUME ActiveIs(a, "create"), Saved(a, Turned(j, "succeeded"), TRUE, FALSE),
             step' = step, requestOf' = requestOf, mode' = mode \/ mode' = "failed"
      PROVE  LInv'
  <2>1. Running(j, "create") /\ "succeeded" \in OpState /\ Harmless("create", "succeeded")
    BY <1>2, <1>5, ActiveIsLast DEF ActiveIs, Running, OpState, Final, Harmless
  <2>2. /\ Shaped(Turned(j, "succeeded")) /\ Continues(j, Turned(j, "succeeded"))
        /\ Clean(j) => Clean(Turned(j, "succeeded"))
    BY <1>2, <2>1, TurnedJournal, TurnedClean
  <2> QED
    BY <1>4, <1>5, <2>2
<1>6. ASSUME Saved(a, j, TRUE, FALSE), step' = step, requestOf' = requestOf,
             mode' = mode \/ mode' = "failed"
      PROVE  LInv'
  BY <1>2, <1>4, <1>6, AgentFacts
<1>7. ASSUME BeginKill(a) \/ BeginArchive(a), requestOf' = requestOf, mode' = mode
      PROVE  LInv'
  BY <1>1, <1>7, BeginsKeeps DEF Begins
<1>8. CASE record[a].owner /\ RecoverOwned(a)
  <2>1. requestOf' = requestOf
    BY <1>8 DEF RecoverOwned
  <2>2. CASE ActiveIs(a, "create")
    <3>1. /\ step' = step /\ Joins(a)
          /\ Saved(a, Turned(j, "succeeded"), TRUE, FALSE) \/ record' = record
      BY <1>8, <2>2 DEF RecoverOwned, Unsaved, ActiveIs
    <3>2. mode' = mode \/ mode' = "failed"
      BY <3>1 DEF Joins
    <3> QED
      BY <1>3, <1>5, <2>1, <2>2, <3>1, <3>2
  <2>3. CASE ActiveIs(a, "delete") \/ ActiveIs(a, "archive")
    <3>1. (BeginKill(a) \/ BeginArchive(a)) /\ mode' = mode
      BY <1>8, <2>3 DEF RecoverOwned, ActiveIs
    <3> QED
      BY <1>7, <2>1, <3>1
  <2>4. CASE ~IsActive(j)
    <3>1. /\ step' = step
          /\ \/ Saved(a, j, TRUE, FALSE) /\ Joins(a)
             \/ Aborts
             \/ record' = record /\ mode' = mode
      BY <1>8, <2>4 DEF RecoverOwned, ActiveIs
    <3>2. /\ mode' = mode \/ mode' = "failed"
          /\ Saved(a, j, TRUE, FALSE) \/ record' = record
      BY <3>1 DEF Joins, Aborts, Unsaved
    <3> QED
      BY <1>3, <1>6, <2>1, <3>1, <3>2
  <2> QED
    BY <1>8, <2>2, <2>3, <2>4 DEF RecoverOwned
<1>9. CASE ~record[a].owner /\ RecoverOrphan(a)
  <2>1. /\ step' = step
        /\ \/ record' = record /\ requestOf' = requestOf /\ mode' = mode
           \/ Saved(a, <<>>, TRUE, FALSE) /\ Joins(a) /\ requestOf' = [requestOf EXCEPT ![a] = None]
           \/ Aborts /\ requestOf' = requestOf
    BY <1>9 DEF RecoverOrphan
  <2>2. mode' = mode \/ mode' = "failed"
    BY <2>1 DEF Joins, Aborts
  <2>3. CASE record' = record /\ requestOf' = requestOf
    BY <1>3, <2>1, <2>2, <2>3
  <2>4. CASE Saved(a, <<>>, TRUE, FALSE) /\ requestOf' = [requestOf EXCEPT ![a] = None]
    BY <1>1, <1>9, <2>1, <2>2, <2>4, RestoredKeeps
  <2> QED
    BY <2>1, <2>3, <2>4 DEF Aborts, Unsaved
<1> QED
  BY <1>1, <1>8, <1>9

LEMMA RecoverMissingKeeps ==
  ASSUME LInv, NEW a \in Agents, RecoverMissing(a)
  PROVE  LInv'
<1> USE DEF outside
<1> DEFINE j == record[a].journal
<1>1. /\ mode = "missing" /\ a \in todo /\ todo' \subseteq todo /\ step[a] = "idle"
      /\ (HostAnswers => ~alive[a])
      /\ requestOf' = requestOf /\ alive' = alive /\ provider' = provider
      /\ stopped' = stopped /\ tomb' = tomb /\ admission' = admission /\ told' = told
      /\ mode' = mode /\ listed' = listed
  BY AgentFacts DEF RecoverMissing, Quiet, AgentInv, AtRecovery
<1>2. CASE record' = record /\ step' = step
  BY <1>1, <1>2, RestsKeeps, SameAdmissions DEF Rests
<1>3. ASSUME NEW type, ActiveIs(a, type), NEW s \in OpState, NEW d \in BOOLEAN,
             Saved(a, Turned(j, s), FALSE, d),
             \/ step' = step
             \/ /\ step' = [step EXCEPT ![a] = "recover-provider"]
                /\ type = "archive" /\ s \notin Final
      PROVE  LInv'
  <2>1. Running(j, type) /\ FALSE \in BOOLEAN
    BY <1>3, AgentFacts, ActiveIsLast DEF ActiveIs, Running
  <2>2. Written(a) /\ (s \notin Final => Running(record'[a].journal, type))
    BY <1>3, <2>1, TurnSaved
  <2>3. /\ \E x \in Steps : step' = [step EXCEPT ![a] = x]
        /\ \/ step'[a] = "idle"
           \/ step'[a] = "recover-provider" /\ Running(record'[a].journal, "archive")
    <3>1. CASE step' = step
      BY <1>1, <3>1, StillMoves
    <3>2. CASE step' # step
      BY <1>3, <2>2, <3>2 DEF LInv, Types, Steps, Recovering
    <3> QED
      BY <3>1, <3>2
  <2>4. Moves(a) /\ Forward(a)
    BY <1>1, <2>2, <2>3, StillMoves DEF Moves, Forward, Written
  <2>5. AtStep(a)'
    BY <1>1, <2>3 DEF AtStep, Ended, Starting, Killing, Archiving, Recovering
  <2>6. Advances(a)
    BY <1>1, <2>2, <2>3, <2>4, <2>5 DEF Advances, Answered, Reported, Written, Starting
  <2> QED
    BY <2>6, AdvancesKeeps
<1>4. {"failed", "succeeded", "provider-archive-pending"} \subseteq OpState
      /\ "provider-archive-pending" \notin Final /\ TRUE \in BOOLEAN /\ FALSE \in BOOLEAN
  BY DEF OpState, Final
<1>5. CASE ActiveIs(a, "create") /\ Saved(a, Turned(j, "failed"), FALSE, FALSE) /\ step' = step
  BY <1>3, <1>4, <1>5
<1>6. CASE ActiveIs(a, "delete") /\ Saved(a, Turned(j, "succeeded"), FALSE, TRUE) /\ step' = step
  BY <1>3, <1>4, <1>6
<1>7. CASE /\ ActiveIs(a, "archive") /\ Saved(a, Turned(j, "provider-archive-pending"), FALSE, TRUE)
           /\ step' = step \/ step' = [step EXCEPT ![a] = "recover-provider"]
  BY <1>3, <1>4, <1>7
<1> QED
  BY <1>2, <1>5, <1>6, <1>7 DEF RecoverMissing, Unsaved, Goes

LEMMA CrashKeeps ==
  ASSUME LInv, Crash
  PROVE  LInv'
<1> USE DEF durable, outside
<1>1. /\ record' = record /\ requestOf' = requestOf /\ alive' = alive /\ provider' = provider
      /\ told' = told /\ mode' = "boot" /\ listed' = {} /\ todo' = {}
      /\ stopped' = [b \in Agents |-> FALSE] /\ tomb' = [b \in Agents |-> FALSE]
      /\ step' = [b \in Agents |-> "idle"] /\ admission' = [r \in Requests |-> None]
  BY DEF Crash
<1>2. Types'
  BY <1>1 DEF LInv, Types, Steps
<1>3. Admissions'
  BY <1>1, LifecycleAssumption DEF Admissions
<1>4. CreatedOnce' /\ (HostAnswers => ReportsHold')
  BY <1>1 DEF LInv, CreatedOnce, ReportsHold, Has
<1>5. ASSUME NEW b \in Agents PROVE AgentInv(b)'
  <2>1. AgentInv(b) /\ stopped'[b] = FALSE /\ tomb'[b] = FALSE /\ step'[b] = "idle"
    BY <1>1, AgentFacts
  <2>2. AtStep(b)'
    BY <2>1 DEF AtStep, Ended, Starting, Killing, Archiving, Recovering
  <2>3. AtRecovery(b)'
    BY <1>1, <2>1 DEF AtRecovery, Starting
  <2> QED
    BY <1>1, <2>1, <2>2, <2>3 DEF AgentInv
<1> QED
  BY <1>2, <1>3, <1>4, <1>5 DEF LInv

(* The phases of recovery.                                                 *)
LEMMA PhaseKeeps ==
  ASSUME LInv, mode # "ready", Boot \/ FoundDone \/ RecoveryDone
  PROVE  LInv'
<1> USE DEF durable, outside, memory
<1>1. /\ record' = record /\ requestOf' = requestOf /\ alive' = alive /\ provider' = provider
      /\ told' = told /\ stopped' = stopped /\ tomb' = tomb /\ step' = step
      /\ admission' = admission
  BY DEF Boot, FoundDone, RecoveryDone
<1>2. Types'
  BY <1>1 DEF LInv, Types
<1>3. Admissions'
  BY <1>1, LifecycleAssumption DEF LInv, Admissions, Boot
<1>4. CreatedOnce' /\ (HostAnswers => ReportsHold')
  BY <1>1 DEF LInv, CreatedOnce, ReportsHold, Has
<1>5. ASSUME NEW b \in Agents PROVE AgentInv(b)'
  <2>1. AgentInv(b) /\ AtStep(b) /\ AtRecovery(b)
    BY AgentFacts DEF AgentInv
  <2>2. AtStep(b)'
    BY <1>1, <2>1 DEF AtStep
  <2>3. AtRecovery(b)'
    <3>1. CASE Boot
      <4>1. HostAnswers /\ alive[b] => record[b].owner /\ Len(record[b].journal) >= 1
        BY <2>1 DEF AgentInv, Claims
      <4>2. /\ mode = "boot" /\ todo' = listed'
            /\ \/ mode' = "found" /\ listed' = {a \in Agents : alive[a]}
               \/ ~HostAnswers /\ mode' = "found" /\ listed' = {}
               \/ mode' = "failed" /\ listed' = {}
        BY <3>1 DEF Boot, HostAnswers
      <4> QED
        BY <1>1, <2>1, <4>1, <4>2 DEF AtRecovery
    <3>2. CASE FoundDone
      BY <1>1, <2>1, <3>2 DEF AtRecovery, FoundDone
    <3>3. CASE RecoveryDone
      BY <1>1, <2>1, <3>3 DEF AtRecovery, RecoveryDone
    <3> QED
      BY <3>1, <3>2, <3>3
  <2> QED
    BY <1>1, <2>1, <2>2, <2>3 DEF AgentInv
<1> QED
  BY <1>2, <1>3, <1>4, <1>5 DEF LInv

-----------------------------------------------------------------------------
(* Requests to create an agent.                                            *)
LEMMA RequestCreateKeeps ==
  ASSUME LInv, NEW r \in Requests, RequestCreate(r)
  PROVE  LInv'
<1> USE DEF durable, outside, recovery
<1>1. Rests /\ todo' = todo /\ admission' = [admission EXCEPT ![r] = "replay"] /\ mode = "ready"
  BY DEF RequestCreate, Rests
<1>2. /\ admission' = [q \in Requests |-> admission'[q]]
      /\ \A q \in Requests : admission'[q] = admission[q] \/ admission'[q] = "replay"
  BY <1>1 DEF LInv, Types
<1>3. Admissions'
  BY <1>1, <1>2 DEF LInv, Admissions, Rests
<1> QED
  BY <1>1, <1>2, <1>3, RestsKeeps

LEMMA ReplayKeeps ==
  ASSUME LInv, NEW r \in Requests, Replay(r)
  PROVE  LInv'
<1> USE DEF durable, outside, recovery
<1>1. /\ record' = record /\ requestOf' = requestOf /\ alive' = alive /\ provider' = provider
      /\ stopped' = stopped /\ tomb' = tomb /\ step' = step
      /\ mode' = mode /\ listed' = listed /\ todo' = todo
      /\ admission[r] = "replay" /\ mode = "ready"
  BY LifecycleAssumption DEF Replay, LInv, Admissions
<1>2. CASE /\ {a \in Agents : requestOf[a] = r} = {} /\ told' = told
           /\ admission' = [admission EXCEPT ![r] = "begin"]
  <2>1. /\ admission' = [q \in Requests |-> admission'[q]]
        /\ \A q \in Requests : q # r => admission'[q] = admission[q]
    BY <1>2 DEF LInv, Types
  <2>2. \A a \in Agents : requestOf[a] # r
    BY <1>2
  <2>3. Admissions'
    BY <1>1, <2>1, <2>2 DEF LInv, Admissions
  <2> QED
    BY <1>1, <1>2, <2>1, <2>3, RestsKeeps DEF Rests
<1>3. ASSUME NEW a \in Agents, requestOf[a] = r,
             admission' = [admission EXCEPT ![r] = None],
             \/ told' = told
             \/ record[a].journal[1].state = "succeeded" /\ Tell(r, a)
      PROVE  LInv'
  <2>1. /\ Len(record[a].journal) >= 1 /\ record[a].journal[1].type = "create"
        /\ Shaped(record[a].journal) /\ AtStep(a) /\ AtRecovery(a) /\ r # None
    BY <1>3, AgentFacts, LifecycleAssumption DEF AgentInv
  <2>2. 1 \in DOMAIN record[a].journal /\ record[a].journal[1] \in Op
    BY <2>1, ShapeOfJournal
  <2>3. Reported(a)
    <3>1. CASE told' = told
      BY <3>1 DEF Reported
    <3>2. CASE record[a].journal[1].state = "succeeded" /\ Tell(r, a)
      <4>1. record[a].journal[1] = [type |-> "create", state |-> "succeeded"]
        BY <2>1, <2>2, <3>2 DEF Op
      <4>2. Has(a, "create")'
        BY <1>1, <2>2, <4>1 DEF Has
      <4>3. TrueReport([about |-> r, agent |-> a])'
        BY <1>1, <1>3, <4>2, LifecycleAssumption DEF TrueReport
      <4> QED
        BY <3>2, <4>3 DEF Reported, Tell
    <3> QED
      BY <1>3, <3>1, <3>2
  <2>4. Moves(a)
    BY <1>1, StillMoves DEF Moves
  <2>5. Forward(a)
    BY <1>1, AgentFacts DEF Forward
  <2>6. AtStep(a)'
    BY <1>1, <2>1 DEF AtStep
  <2>7. HostAnswers /\ alive'[a] =>
          Claims(record'[a]) /\ ~provider'[a] /\ ~stopped'[a] /\ ~tomb'[a]
    BY <1>1, AtWork
  <2>8. Advances(a)
    BY <1>1, <1>3, <2>1, <2>3, <2>4, <2>5, <2>6, <2>7 DEF Advances, Answered
  <2> QED
    BY <2>8, AdvancesKeeps
<1> QED
  BY <1>2, <1>3 DEF Replay, Answers

LEMMA BeginCreateKeeps ==
  ASSUME LInv, NEW r \in Requests, NEW a \in Agents, BeginCreate(r, a)
  PROVE  LInv'
<1> USE DEF outside, recovery
<1>1. /\ alive' = alive /\ provider' = provider /\ stopped' = stopped /\ tomb' = tomb
      /\ mode' = mode /\ listed' = listed /\ todo' = todo /\ told' = told
      /\ admission[r] = "begin" /\ record[a] = NoRecord /\ requestOf[a] = None
  BY DEF BeginCreate
<1>2. mode = "ready" /\ \A b \in Agents : requestOf[b] # r
  BY <1>1, LifecycleAssumption DEF LInv, Admissions
<1>3. CASE Unsaved /\ Answers(r) /\ UNCHANGED <<requestOf, present, step>>
  <2>1. /\ Rests /\ admission' = [q \in Requests |-> admission'[q]]
        /\ \A q \in Requests : admission'[q] = admission[q] \/ admission'[q] = None
    BY <1>1, <1>3 DEF LInv, Types, Rests, Unsaved, Answers
  <2>2. Admissions'
    BY <1>1, <1>3, <2>1, LifecycleAssumption DEF LInv, Admissions
  <2> QED
    BY <1>1, <2>1, <2>2, RestsKeeps
<1>4. CASE /\ Saved(a, Appended(<<>>, "create"), TRUE, FALSE)
           /\ requestOf' = [requestOf EXCEPT ![a] = r]
           /\ Goes(a, "launch")
           /\ admission' = [admission EXCEPT ![r] = a]
  <2> DEFINE x == [journal |-> NewJournal, owner |-> TRUE, archived |-> FALSE]
  <2>1. /\ AgentInv(a) /\ ~alive[a] /\ ~stopped[a] /\ ~tomb[a] /\ ~provider[a]
        /\ record[a].journal = <<>>
    <3>1. record[a].journal = <<>> /\ AgentInv(a)
      BY <1>1, AgentFacts DEF NoRecord
    <3>2. ~(Len(record[a].journal) >= 1)
      BY <3>1, EmptySeq
    <3> QED
      BY <1>1, <3>1, <3>2 DEF AgentInv
  <2>2. Appended(<<>>, "create") = NewJournal
    BY DEF Appended, NewJournal
  <2>3. /\ NewJournal \in Seq(Op) /\ Len(NewJournal) = 1 /\ DOMAIN NewJournal = {1}
        /\ NewJournal[1] = [type |-> "create", state |-> "pending"]
    BY DEF NewJournal, Op
  <2>4. NewJournal[1].type = "create" /\ NewJournal[1].state = "pending"
    BY <2>3
  <2>5. x \in Record /\ record' = [record EXCEPT ![a] = x]
    BY <1>4, <2>2, <2>3 DEF Saved, Record
  <2>6. /\ record' \in [Agents -> Record] /\ record'[a] = x
        /\ \A b \in Agents \ {a} : record'[b] = record[b]
    BY <2>5 DEF LInv, Types
  <2>7. /\ requestOf' \in [Agents -> Requests \cup {None}] /\ requestOf'[a] = r
        /\ \A b \in Agents \ {a} : requestOf'[b] = requestOf[b]
    BY <1>4 DEF LInv, Types
  <2>8. /\ step' \in [Agents -> Steps] /\ step'[a] = "launch"
        /\ \A b \in Agents \ {a} : step'[b] = step[b]
    BY <1>4 DEF LInv, Types, Goes, Steps, Starting
  <2>9. /\ admission' = [q \in Requests |-> admission'[q]] /\ admission'[r] = a
        /\ \A q \in Requests \ {r} : admission'[q] = admission[q]
    BY <1>4 DEF LInv, Types
  <2>10. Types'
    BY <1>1, <2>6, <2>7, <2>8, <2>9 DEF LInv, Types
  <2>11. Admissions'
    <3>1. ASSUME NEW q \in Requests
          PROVE  admission'[q] = "begin" => \A b \in Agents : requestOf'[b] # q
      <4>1. CASE q = r
        BY <2>9, <4>1, LifecycleAssumption
      <4>2. CASE q # r
        BY <2>7, <2>9, <4>2 DEF LInv, Admissions
      <4> QED
        BY <4>1, <4>2
    <3> QED
      BY <1>1, <1>2, <3>1 DEF Admissions
  <2>12. CreatedOnce'
    <3>1. ASSUME NEW b \in Agents, NEW c \in Agents,
                 requestOf'[b] # None, requestOf'[b] = requestOf'[c]
          PROVE  b = c
      <4>1. CASE b = a \/ c = a
        BY <1>2, <2>7, <3>1, <4>1
      <4>2. CASE b # a /\ c # a
        BY <2>7, <3>1, <4>2 DEF LInv, CreatedOnce
      <4> QED
        BY <4>1, <4>2
    <3> QED
      BY <3>1 DEF CreatedOnce
  <2>13. HostAnswers => ReportsHold'
    <3>1. ASSUME HostAnswers, NEW t \in told PROVE TrueReport(t)'
      <4>1. t \in [about : Requests \cup {"kill", "archive"}, agent : Agents] /\ TrueReport(t)
        BY <3>1 DEF LInv, Types, ReportsHold, TrueReport
      <4>2. t.agent \in Agents /\ t.about \in Requests \cup {"kill", "archive"}
        BY <4>1
      <4>3. t.agent # a
        <5>1. DOMAIN record[a].journal = {}
          BY <2>1
        <5>2. \A type : ~Has(a, type)
          BY <5>1 DEF Has
        <5> QED
          BY <4>1, <4>2, <5>2 DEF TrueReport
      <4>4. /\ record'[t.agent] = record[t.agent] /\ requestOf'[t.agent] = requestOf[t.agent]
        BY <2>6, <2>7, <4>2, <4>3
      <4> QED
        BY <1>1, <4>1, <4>4 DEF TrueReport, Has
    <3> QED
      BY <1>1, <3>1 DEF ReportsHold, TrueReport
  <2>14. AgentInv(a)'
    <3>1. x.journal = NewJournal
      OBVIOUS
    <3>2. Shaped(NewJournal)
      BY <2>3 DEF Shaped
    <3>3. Running(NewJournal, "create")
      BY <2>3, <2>4 DEF Running, Final
    <3>4. x # NoRecord
      BY <2>3, <3>1, EmptySeq DEF NoRecord
    <3>5. AtStep(a)'
      BY <1>1, <2>1, <2>6, <2>7, <2>8, <3>1, <3>3
      DEF AtStep, Ended, Starting, Killing, Archiving, Recovering
    <3>6. AtRecovery(a)'
      BY <1>1, <1>2 DEF AtRecovery
    <3> HIDE DEF x
    <3> QED
      BY <1>1, <2>1, <2>3, <2>4, <2>6, <2>8, <3>1, <3>2, <3>4, <3>5, <3>6 DEF AgentInv
  <2>15. ASSUME NEW b \in Agents \ {a} PROVE AgentInv(b)'
    <3>1. AgentInv(b) /\ Same(b)
      BY <1>1, <2>6, <2>7, <2>8, AgentFacts DEF Same
    <3> QED
      BY <1>1, <3>1, SameKept
  <2> QED
    BY <2>10, <2>11, <2>12, <2>13, <2>14, <2>15 DEF LInv
<1> QED
  BY <1>3, <1>4 DEF BeginCreate

-----------------------------------------------------------------------------
LEMMA InitHolds == Init => LInv
<1> SUFFICES ASSUME Init PROVE LInv
  OBVIOUS
<1>1. <<>> \in Seq(Op) /\ Len(<<>>) = 0 /\ DOMAIN <<>> = {}
  BY EmptySeq
<1>2. NoRecord \in Record
  BY <1>1 DEF NoRecord, Record
<1>3. Types
  BY <1>2 DEF Init, Types, Steps
<1>4. Admissions
  BY LifecycleAssumption DEF Init, Admissions
<1>5. CreatedOnce /\ ReportsHold
  BY DEF Init, CreatedOnce, ReportsHold
<1>6. ASSUME NEW b \in Agents PROVE AgentInv(b)
  <2>1. /\ record[b].journal = <<>> /\ ~alive[b] /\ ~provider[b] /\ ~stopped[b] /\ ~tomb[b]
        /\ step[b] = "idle" /\ requestOf[b] = None /\ mode = "ready"
    BY DEF Init, NoRecord
  <2>2. Shaped(record[b].journal)
    BY <1>1, <2>1 DEF Shaped
  <2>3. AtStep(b) /\ AtRecovery(b)
    BY <2>1 DEF AtStep, AtRecovery, Ended, Starting, Killing, Archiving, Recovering
  <2> QED
    BY <2>1, <2>2, <2>3 DEF AgentInv
<1> QED
  BY <1>3, <1>4, <1>5, <1>6 DEF LInv

LEMMA StutterKeeps ==
  ASSUME LInv, UNCHANGED vars
  PROVE  LInv'
<1>1. Rests /\ todo' = todo /\ admission' = admission
  BY DEF vars, durable, outside, memory, recovery, Rests
<1> QED
  BY <1>1, RestsKeeps, SameAdmissions DEF Rests

(* Every step of the server, of the terminals and of the provider keeps    *)
(* the invariant.                                                          *)
LEMMA NextKeeps == LInv /\ [Next]_vars => LInv'
<1> SUFFICES ASSUME LInv, [Next]_vars PROVE LInv'
  OBVIOUS
<1>1. CASE Clients
  BY <1>1, RequestCreateKeeps, RequestKeeps DEF Clients
<1>2. CASE Creates
  BY <1>2, ReplayKeeps, BeginCreateKeeps, LaunchAdvances, BindAdvances, CommitAdvances,
     UndoAdvances, FailAdvances, AdvancesKeeps DEF Creates, Admits
<1>3. CASE Removes
  BY <1>3, RequestKeeps, StopAdvances, DeleteAdvances, MarkAdvances, ProviderAdvances,
     ArchiveAdvances, AdvancesKeeps DEF Removes
<1>4. CASE Recovers
  <2>1. CASE Boot \/ FoundDone \/ RecoveryDone
    BY <2>1, PhaseKeeps DEF Boot, FoundDone, RecoveryDone
  <2> QED
    BY <1>4, <2>1, RecoverFoundKeeps, RecoverMissingKeeps, RecoverArchiveAdvances, AdvancesKeeps
    DEF Recovers
<1>5. CASE Outside \/ \E a \in Agents : Dies(a)
  BY <1>5, DiesAdvances, ProviderArchivesAdvances, AdvancesKeeps DEF Outside, DiesWhenKilled
<1>6. CASE Crash
  BY <1>6, CrashKeeps
<1>7. CASE UNCHANGED vars
  BY <1>7, StutterKeeps
<1> QED
  BY <1>1, <1>2, <1>3, <1>4, <1>5, <1>6, <1>7 DEF Next

LEMMA LInvHolds == Spec => []LInv
BY InitHolds, NextKeeps, PTL DEF Spec

(* A repeated create request never starts a second agent: what is recorded *)
(* is looked up before a request begins, and one request of an id is under *)
(* way at a time (agent-lifecycle-journal-service.cts,                     *)
(* replayCreateRequest; agent-start-admission-coordinator.cts, start).     *)
THEOREM RequestsCreateOnce == Spec => []CreatedOnce
<1>1. LInv => CreatedOnce
  BY DEF LInv
<1> QED
  BY <1>1, LInvHolds, PTL

(* If the host can always be reached, a create, delete or archive that was *)
(* reported stays in the journal, and the terminal of a removed agent      *)
(* stays ended (agent-manager.cts, performKillAgent, performArchiveAgent). *)
THEOREM ReportsStay == HostAnswers => (Spec => []ReportsHold)
<1> SUFFICES ASSUME HostAnswers PROVE Spec => []ReportsHold
  OBVIOUS
<1>1. LInv => ReportsHold
  BY DEF LInv
<1> QED
  BY <1>1, LInvHolds, PTL

-----------------------------------------------------------------------------
(* Whoever has an unfinished create or delete has a record that names it,  *)
(* so that recovery makes a row of it, and is in the server once recovery  *)
(* has made its rows.                                                      *)
Open(a) == ActiveIs(a, "create") \/ ActiveIs(a, "delete")
Reach(a) == Open(a) => record[a].owner /\ (mode # "boot" => present[a])
ReachInv == present \in [Agents -> BOOLEAN] /\ \A a \in Agents : Reach(a)

LEMMA OpenIsRunning ==
  ASSUME NEW a, Shaped(record[a].journal)
  PROVE  Open(a) <=> Running(record[a].journal, "create") \/ Running(record[a].journal, "delete")
BY ActiveIsLast DEF Open, ActiveIs, Running

(* A step that saves the journal k and lets the agent in or out.           *)
Lets(a) == \E x \in BOOLEAN : present' = [present EXCEPT ![a] = x]

LEMMA SavedReach ==
  ASSUME LInv, ReachInv, NEW a \in Agents, NEW k, NEW o \in BOOLEAN, NEW d, Shaped(k),
         Saved(a, k, o, d), Lets(a),
         mode' = mode \/ (mode # "boot" /\ mode' # "boot"),
         \/ ~Running(k, "create") /\ ~Running(k, "delete")
         \/ o = TRUE /\ present'[a] = TRUE
         \/ o = TRUE /\ present' = present /\ (Open(a) \/ present[a])
  PROVE  ReachInv'
<1>1. present' \in [Agents -> BOOLEAN] /\ \A b \in Agents \ {a} : present'[b] = present[b]
  BY DEF ReachInv, Lets
<1>2. /\ record'[a].journal = k /\ record'[a].owner = o
      /\ \A b \in Agents \ {a} : record'[b] = record[b]
  <2> DEFINE x == [journal |-> k, owner |-> o, archived |-> d]
  <2>1. record' = [record EXCEPT ![a] = x] /\ record \in [Agents -> Record]
    BY DEF Saved, LInv, Types
  <2>2. x.journal = k /\ x.owner = o
    OBVIOUS
  <2> HIDE DEF x
  <2> QED
    BY <2>1, <2>2
<1>3. Reach(a)'
  <2>1. (Open(a))' <=> Running(k, "create") \/ Running(k, "delete")
    BY <1>2, ActiveIsLast DEF Open, ActiveIs, Running
  <2> QED
    BY <1>2, <2>1 DEF ReachInv, Reach
<1>4. ASSUME NEW b \in Agents \ {a} PROVE Reach(b)'
  BY <1>1, <1>2 DEF ReachInv, Reach, Open, ActiveIs
<1> QED
  BY <1>1, <1>3, <1>4 DEF ReachInv

LEMMA RestReach ==
  ASSUME ReachInv, record' = record, present' = present,
         mode' = mode \/ (mode # "boot" /\ mode' # "boot")
  PROVE  ReachInv'
BY DEF ReachInv, Reach, Open, ActiveIs

(* The unfinished operation moves to state s.                              *)
LEMMA TurnReach ==
  ASSUME LInv, ReachInv, NEW a \in Agents, NEW type, Running(record[a].journal, type),
         NEW s \in OpState, NEW o \in BOOLEAN, NEW d,
         Saved(a, Turned(record[a].journal, s), o, d), Lets(a),
         mode' = mode \/ (mode # "boot" /\ mode' # "boot"),
         \/ s \in Final \/ type = "archive"
         \/ o = TRUE /\ type \in {"create", "delete"} /\ present' = present
  PROVE  ReachInv'
<1> DEFINE j == record[a].journal
           k == Turned(j, s)
<1>1. Shaped(j) /\ Len(j) >= 1
  BY AgentFacts DEF Running
<1>2. Shaped(k) /\ Len(k) = Len(j) /\ k[Len(j)] = [type |-> type, state |-> s]
  BY <1>1, TurnedJournal
<1> HIDE DEF k
<1>3. s \in Final \/ type = "archive" => ~Running(k, "create") /\ ~Running(k, "delete")
  BY <1>2 DEF Running
<1>4. type \in {"create", "delete"} => Open(a)
  BY <1>1, OpenIsRunning
<1> HIDE DEF j
<1> QED
  BY <1>2, <1>3, <1>4, SavedReach DEF k, j

LEMMA StaysLets ==
  ASSUME ReachInv, NEW a \in Agents
  PROVE  /\ present' = present => Lets(a)
         /\ \A x \in BOOLEAN : present' = [present EXCEPT ![a] = x] => Lets(a)
<1>1. present = [present EXCEPT ![a] = present[a]] /\ present[a] \in BOOLEAN
  BY DEF ReachInv
<1> QED
  BY <1>1 DEF Lets

-----------------------------------------------------------------------------
(* A delete or archive that begins.                                        *)
LEMMA BeginReach ==
  ASSUME LInv, ReachInv, NEW a \in Agents, BeginKill(a) \/ BeginArchive(a),
         present' = present, mode' = mode, present[a] \/ Open(a)
  PROVE  ReachInv'
<1>1. CASE record' = record
  BY <1>1, RestReach
<1>2. ASSUME NEW type, NEW k, BegunWell(record[a].journal, k, type), Saved(a, k, TRUE, tomb[a])
      PROVE  ReachInv'
  <2>1. Shaped(k) /\ Lets(a)
    BY <1>2, StaysLets DEF BegunWell
  <2> QED
    BY <1>2, <2>1, SavedReach
<1>3. CASE BeginKill(a)
  BY <1>1, <1>2, <1>3, AgentFacts, DeletingJournal DEF BeginKill, Plainly
<1>4. CASE BeginArchive(a)
  BY <1>1, <1>2, <1>4, AgentFacts, BegunJournal DEF BeginArchive, Plainly
<1> QED
  BY <1>3, <1>4

LEMMA RequestReach ==
  ASSUME LInv, ReachInv, NEW a \in Agents, NEW kind, Request(a, kind) \/ RunWaiter(a)
  PROVE  ReachInv'
<1>1. present' = present /\ mode' = mode
  BY DEF Request, RunWaiter, recovery
<1>2. CASE record' = record
  BY <1>1, <1>2, RestReach
<1>3. CASE (BeginKill(a) \/ BeginArchive(a)) /\ present[a]
  BY <1>1, <1>3, BeginReach
<1> QED
  BY <1>2, <1>3 DEF Request, RunWaiter, Begin

(* A create.                                                               *)
LEMMA BeginCreateReach ==
  ASSUME LInv, ReachInv, NEW r \in Requests, NEW a \in Agents, BeginCreate(r, a)
  PROVE  ReachInv'
<1>1. mode' = mode
  BY DEF BeginCreate, recovery
<1>2. CASE record' = record /\ present' = present
  BY <1>1, <1>2, RestReach
<1> DEFINE j == <<>>
           k == Appended(j, "create")
<1>3. Shaped(j) /\ Len(j) = 0 /\ "create" \in OpType
  BY EmptySeq DEF Shaped, OpType
<1> HIDE DEF j
<1>4. Shaped(k)
  <2>1. ~(Len(j) >= 1 /\ j[Len(j)].state \notin Final)
    BY <1>3
  <2> QED
    BY <1>3, <2>1, AppendedJournal
<1>5. ASSUME NEW l, Shaped(l), Saved(a, l, TRUE, FALSE), present' = [present EXCEPT ![a] = TRUE]
      PROVE  ReachInv'
  <2>1. present'[a] = TRUE /\ Lets(a)
    BY <1>5, StaysLets DEF ReachInv
  <2> QED
    BY <1>1, <1>5, <2>1, SavedReach
<1> QED
  BY <1>2, <1>4, <1>5 DEF BeginCreate, Unsaved, k, j

LEMMA CreateReach ==
  ASSUME LInv, ReachInv, NEW a \in Agents,
         Launch(a) \/ BindMembership(a) \/ CommitCreate(a) \/ UndoCreate(a) \/ FailCreate(a)
  PROVE  ReachInv'
<1> USE DEF recovery, durable
<1>1. /\ mode' = mode /\ Running(record[a].journal, "create") /\ tomb[a] \in BOOLEAN
      /\ {"membership-pending", "blocked", "succeeded", "failed"} \subseteq OpState
      /\ {"succeeded", "failed"} \subseteq Final
  BY AtWork, AgentFacts
  DEF Launch, BindMembership, CommitCreate, UndoCreate, FailCreate, Starting, OpState, Final
<1>2. CASE record' = record /\ present' = present
  BY <1>1, <1>2, RestReach
<1>3. CASE /\ Saved(a, Turned(record[a].journal, "failed"), FALSE, FALSE)
           /\ present' = [present EXCEPT ![a] = FALSE]
  <2>1. Lets(a)
    BY <1>3, StaysLets
  <2> QED
    BY <1>1, <1>3, <2>1, TurnReach
<1>4. ASSUME NEW s \in {"membership-pending", "blocked", "succeeded"},
             Saved(a, Turned(record[a].journal, s), TRUE, tomb[a]), present' = present
      PROVE  ReachInv'
  <2>1. Lets(a) /\ s \in OpState
    BY <1>1, <1>4, StaysLets
  <2> QED
    BY <1>1, <1>4, <2>1, TurnReach
<1> QED
  BY <1>2, <1>3, <1>4
  DEF Launch, BindMembership, CommitCreate, UndoCreate, FailCreate, Plainly, Unsaved, Forget, Keep

(* A delete or archive on its way.                                         *)
LEMMA StopReach ==
  ASSUME LInv, ReachInv, NEW a \in Agents, Stop(a)
  PROVE  ReachInv'
<1>1. mode' = mode /\ present' = present /\ Lets(a)
  BY StaysLets DEF Stop, recovery
<1>2. CASE record' = record
  BY <1>1, <1>2, RestReach
<1>3. CASE Saved(a, Turned(record[a].journal, "blocked"), TRUE, tomb[a])
  <2>1. "blocked" \in OpState
    BY DEF OpState
  <2>2. \E type \in {"delete", "archive"} : Running(record[a].journal, type)
    BY AtWork DEF Stop, After, Killing, Archiving
  <2> QED
    BY <1>1, <1>3, <2>1, <2>2, TurnReach
<1> QED
  BY <1>2, <1>3 DEF Stop, Plainly, Unsaved

LEMMA RemoveReach ==
  ASSUME LInv, ReachInv, NEW a \in Agents,
         CommitDelete(a) \/ MarkArchived(a) \/ ArchiveProvider(a) \/ CommitArchive(a)
           \/ RecoverArchive(a)
  PROVE  ReachInv'
<1> USE DEF recovery
<1>1. /\ mode' = mode /\ Lets(a)
      /\ {"blocked", "succeeded", "provider-archive-pending"} \subseteq OpState
      /\ "succeeded" \in Final
  <2>1. present' = present \/ present' = [present EXCEPT ![a] = FALSE]
    BY DEF CommitDelete, MarkArchived, ArchiveProvider, CommitArchive, RecoverArchive,
           Forget, Keep, Retain
  <2> QED
    BY <2>1, StaysLets
    DEF CommitDelete, MarkArchived, ArchiveProvider, CommitArchive, RecoverArchive, OpState, Final
<1>2. CASE record' = record /\ present' = present
  BY <1>1, <1>2, RestReach
<1>3. CASE Running(record[a].journal, "delete") /\ Saved(a, Turned(record[a].journal, "succeeded"), FALSE, TRUE)
  BY <1>1, <1>3, TurnReach
<1>4. ASSUME NEW s \in {"blocked", "succeeded", "provider-archive-pending"},
             NEW o \in BOOLEAN, NEW d,
             Running(record[a].journal, "archive"), Saved(a, Turned(record[a].journal, s), o, d)
      PROVE  ReachInv'
  BY <1>1, <1>4, TurnReach
<1>5. CASE CommitDelete(a)
  BY <1>2, <1>3, <1>5, AtWork DEF CommitDelete, Unsaved, Retain, Killing
<1>6. CASE ~CommitDelete(a)
  <2>1. Running(record[a].journal, "archive")
    BY <1>6, AtWork DEF MarkArchived, ArchiveProvider, CommitArchive, RecoverArchive, Archiving,
                        Recovering
  <2>2. \/ record' = record /\ present' = present
        \/ \E s \in {"blocked", "succeeded", "provider-archive-pending"}, o \in BOOLEAN, d \in BOOLEAN :
             Saved(a, Turned(record[a].journal, s), o, d)
    <3>1. CASE MarkArchived(a)
      BY <3>1 DEF MarkArchived, Unsaved
    <3>2. CASE ArchiveProvider(a)
      BY <3>2 DEF ArchiveProvider, Unsaved
    <3>3. CASE CommitArchive(a)
      BY <3>3 DEF CommitArchive, Unsaved, Keep
    <3>4. CASE RecoverArchive(a)
      BY <3>4 DEF RecoverArchive, Unsaved, Keep
    <3> QED
      BY <1>6, <3>1, <3>2, <3>3, <3>4
  <2> QED
    BY <1>2, <1>4, <2>1, <2>2
<1> QED
  BY <1>5, <1>6

(* Recovery.                                                               *)
LEMMA RecoverOwnedReach ==
  ASSUME LInv, ReachInv, NEW a \in Agents, mode = "found", RecoverOwned(a)
  PROVE  ReachInv'
<1> DEFINE j == record[a].journal
<1>1. /\ present' = present /\ Lets(a) /\ Shaped(j)
      /\ mode' = mode \/ (mode # "boot" /\ mode' # "boot")
  <2>1. present' = present
    BY DEF RecoverOwned
  <2>2. mode' = mode \/ mode' = "failed"
    BY DEF RecoverOwned, Joins, Aborts
  <2> QED
    BY <2>1, <2>2, AgentFacts, StaysLets
<1>2. CASE record' = record
  BY <1>1, <1>2, RestReach
<1>3. CASE ActiveIs(a, "create") /\ Saved(a, Turned(j, "succeeded"), TRUE, FALSE)
  <2>1. Running(j, "create") /\ "succeeded" \in OpState /\ "succeeded" \in Final
    BY <1>1, <1>3, ActiveIsLast DEF ActiveIs, Running, OpState, Final
  <2> QED
    BY <1>1, <1>3, <2>1, TurnReach
<1>4. CASE ActiveIs(a, "delete") /\ BeginKill(a) /\ mode' = mode
  BY <1>1, <1>4, BeginReach DEF Open
<1>5. CASE ActiveIs(a, "archive") /\ BeginArchive(a)
  <2>1. CASE CanBegin(j, "archive")
    <3>1. /\ BegunWell(j, Begun(j, "archive"), "archive")
          /\ Saved(a, Begun(j, "archive"), TRUE, tomb[a]) \/ record' = record
      BY <1>1, <1>5, <2>1, BegunJournal DEF BeginArchive, Plainly
    <3>2. Shaped(Begun(j, "archive")) /\ ~Running(Begun(j, "archive"), "create")
          /\ ~Running(Begun(j, "archive"), "delete")
      BY <3>1 DEF BegunWell, Running
    <3> QED
      BY <1>1, <1>2, <3>1, <3>2, SavedReach
  <2>2. CASE ~CanBegin(j, "archive")
    BY <1>2, <1>5, <2>2 DEF BeginArchive
  <2> QED
    BY <2>1, <2>2
<1>6. CASE ~IsActive(j) /\ Saved(a, j, TRUE, FALSE)
  <2>1. ~Running(j, "create") /\ ~Running(j, "delete")
    BY <1>1, <1>6, ActiveIsLast DEF Running
  <2> QED
    BY <1>1, <1>6, <2>1, SavedReach
<1> QED
  BY <1>2, <1>3, <1>4, <1>5, <1>6 DEF RecoverOwned, Unsaved, Aborts

LEMMA RecoverOrphanReach ==
  ASSUME LInv, ReachInv, NEW a \in Agents, mode = "found", ~record[a].owner, RecoverOrphan(a)
  PROVE  ReachInv'
<1>1. mode' = mode \/ (mode # "boot" /\ mode' # "boot")
  <2>1. mode' = mode \/ mode' = "failed"
    BY DEF RecoverOrphan, Joins, Aborts
  <2> QED
    BY <2>1
<1>2. CASE record' = record /\ present' = present
  BY <1>1, <1>2, RestReach
<1>3. CASE record' = record /\ present' = [present EXCEPT ![a] = TRUE]
  <2>1. /\ present' \in [Agents -> BOOLEAN] /\ present'[a] = TRUE
        /\ \A b \in Agents \ {a} : present'[b] = present[b]
    BY <1>3 DEF ReachInv
  <2>2. Reach(a)' /\ \A b \in Agents \ {a} : Reach(b)'
    BY <1>1, <1>3, <2>1 DEF ReachInv, Reach, Open, ActiveIs
  <2> QED
    BY <2>1, <2>2 DEF ReachInv
<1>4. CASE Saved(a, <<>>, TRUE, FALSE) /\ present' = [present EXCEPT ![a] = TRUE]
  <2>1. Shaped(<<>>) /\ Len(<<>>) = 0
    BY EmptySeq DEF Shaped
  <2>2. ~Running(<<>>, "create") /\ ~Running(<<>>, "delete")
    BY <2>1 DEF Running
  <2>3. Lets(a) /\ TRUE \in BOOLEAN
    BY <1>4 DEF Lets
  <2> DEFINE k == <<>>
  <2> HIDE DEF k
  <2>4. /\ Shaped(k) /\ ~Running(k, "create") /\ ~Running(k, "delete")
        /\ Saved(a, k, TRUE, FALSE)
    BY <1>4, <2>1, <2>2 DEF k
  <2> QED
    BY <1>1, <2>3, <2>4, SavedReach
<1> QED
  BY <1>2, <1>3, <1>4 DEF RecoverOrphan, Aborts, Unsaved

LEMMA RecoverMissingReach ==
  ASSUME LInv, ReachInv, NEW a \in Agents, RecoverMissing(a)
  PROVE  ReachInv'
<1> DEFINE j == record[a].journal
<1>1. mode' = mode /\ Shaped(j) /\ Lets(a)
  <2>1. present' = present \/ present' = [present EXCEPT ![a] = FALSE]
    BY DEF RecoverMissing
  <2> QED
    BY <2>1, AgentFacts, StaysLets DEF RecoverMissing
<1>2. CASE record' = record /\ present' = present
  BY <1>1, <1>2, RestReach
<1>3. ASSUME NEW type \in OpType, ActiveIs(a, type),
             NEW s \in {"failed", "succeeded", "provider-archive-pending"},
             s \in Final \/ type = "archive", NEW d \in BOOLEAN,
             Saved(a, Turned(j, s), FALSE, d)
      PROVE  ReachInv'
  <2>1. Running(j, type) /\ s \in OpState
    BY <1>1, <1>3, ActiveIsLast DEF ActiveIs, Running, OpState, Final
  <2> QED
    BY <1>1, <1>3, <2>1, TurnReach
<1> QED
  BY <1>2, <1>3 DEF RecoverMissing, Unsaved, OpType, Final

(* The rows that a restarted server makes.                                 *)
LEMMA BootReach ==
  ASSUME LInv, ReachInv, Boot
  PROVE  ReachInv'
<1>1. /\ record' = record
      /\ present' = [a \in Agents |-> record[a].owner /\ (IsActive(record[a].journal) \/ Restorable(a))]
  BY DEF Boot, durable
<1>2. present' \in [Agents -> BOOLEAN]
  <2>1. \A a \in Agents :
          (record[a].owner /\ (IsActive(record[a].journal) \/ Restorable(a))) \in BOOLEAN
    OBVIOUS
  <2> QED
    BY <1>1, <2>1
<1>3. ASSUME NEW a \in Agents PROVE Reach(a)'
  BY <1>1 DEF ReachInv, Reach, Open, ActiveIs
<1> QED
  BY <1>2, <1>3 DEF ReachInv

LEMMA NextReaches == LInv /\ ReachInv /\ [Next]_vars => ReachInv'
<1> SUFFICES ASSUME LInv, ReachInv, [Next]_vars PROVE ReachInv'
  OBVIOUS
<1> USE DEF durable, outside, memory, recovery
<1>1. CASE Clients
  <2>1. CASE \E r \in Requests : RequestCreate(r)
    BY <2>1, RestReach DEF RequestCreate
  <2> QED
    BY <1>1, <2>1, RequestReach DEF Clients
<1>2. CASE Creates
  <2>1. CASE \E r \in Requests : Replay(r)
    BY <2>1, RestReach DEF Replay
  <2> QED
    BY <1>2, <2>1, BeginCreateReach, CreateReach DEF Creates, Admits
<1>3. CASE Removes
  BY <1>3, RequestReach, StopReach, RemoveReach DEF Removes
<1>4. CASE Recovers
  <2>1. CASE FoundDone \/ RecoveryDone
    BY <2>1, RestReach DEF FoundDone, RecoveryDone
  <2> QED
    BY <1>4, <2>1, BootReach, RecoverOwnedReach, RecoverOrphanReach, RecoverMissingReach,
       RemoveReach
    DEF Recovers, RecoverFound
<1>5. CASE Outside \/ \E a \in Agents : Dies(a)
  BY <1>5, RestReach DEF Outside, DiesWhenKilled, Dies, ProviderArchives
<1>6. CASE Crash
  BY <1>6 DEF Crash, ReachInv, Reach, Open, ActiveIs
<1>7. CASE UNCHANGED vars
  BY <1>7, RestReach DEF vars
<1> QED
  BY <1>1, <1>2, <1>3, <1>4, <1>5, <1>6, <1>7 DEF Next

LEMMA ReachHolds == Spec => []ReachInv
<1>1. Init => ReachInv
  <2> SUFFICES ASSUME Init PROVE ReachInv
    OBVIOUS
  <2>1. \A a \in Agents : record[a].journal = <<>>
    BY DEF Init, NoRecord
  <2>2. \A a \in Agents : ~Open(a)
    BY <2>1 DEF Open, ActiveIs, IsActive, Unfinished
  <2> QED
    BY <2>2 DEF Init, ReachInv, Reach
<1> QED
  BY <1>1, LInvHolds, NextReaches, PTL DEF Spec

(* After recovery, an agent whose create or delete is unfinished is one    *)
(* that the server has, so that a client can ask to delete it, host        *)
(* reached or not: an operation only leaves the server's memory with a     *)
(* journal that says how it ended, and a record with an open one names its *)
(* agent (agent-manager.cts, recovery and failed starts).                  *)
THEOREM UnfinishedStaysReachable == Spec => []UnfinishedIsReachable
<1>1. ReachInv => UnfinishedIsReachable
  BY DEF ReachInv, Reach, Open, UnfinishedIsReachable
<1> QED
  BY <1>1, ReachHolds, PTL

-----------------------------------------------------------------------------
(* A journal without an unfinished operation ends with a success or with a *)
(* create that failed: a create is only cancelled for a delete behind it,  *)
(* and a delete or archive that fails stays unfinished.                    *)
Settles(j) ==
  Len(j) >= 1 /\ j[Len(j)].state \in Final =>
    \/ j[Len(j)].state = "succeeded"
    \/ j[Len(j)].type = "create" /\ j[Len(j)].state = "failed"
SettledInv == \A a \in Agents : Settles(record[a].journal)

LEMMA RunningSettles ==
  ASSUME NEW k, NEW type, Running(k, type)
  PROVE  Settles(k)
BY DEF Running, Settles

LEMMA SavedSettles ==
  ASSUME LInv, SettledInv, NEW a \in Agents, NEW k, NEW o, NEW d, Saved(a, k, o, d), Settles(k)
  PROVE  SettledInv'
<1> DEFINE x == [journal |-> k, owner |-> o, archived |-> d]
<1>1. record' = [record EXCEPT ![a] = x] /\ record \in [Agents -> Record] /\ x.journal = k
  BY DEF Saved, LInv, Types
<1> HIDE DEF x
<1>2. record'[a].journal = k /\ \A b \in Agents \ {a} : record'[b] = record[b]
  BY <1>1
<1>3. ASSUME NEW b \in Agents PROVE Settles(record'[b].journal)
  BY <1>2 DEF SettledInv
<1> QED
  BY <1>3 DEF SettledInv

LEMMA RestSettles ==
  ASSUME SettledInv, record' = record
  PROVE  SettledInv'
BY DEF SettledInv

(* The unfinished operation moves to state s.                              *)
LEMMA TurnSettles ==
  ASSUME LInv, SettledInv, NEW a \in Agents, NEW type, Running(record[a].journal, type),
         NEW s \in OpState, NEW o, NEW d, Saved(a, Turned(record[a].journal, s), o, d),
         s \notin Final \/ s = "succeeded" \/ (s = "failed" /\ type = "create")
  PROVE  SettledInv'
<1> DEFINE j == record[a].journal
           k == Turned(j, s)
<1>1. Shaped(j)
  BY AgentFacts
<1>2. Len(k) = Len(j) /\ k[Len(j)] = [type |-> type, state |-> s]
  BY <1>1, TurnedJournal
<1> HIDE DEF k
<1>3. Settles(k)
  BY <1>2 DEF Settles
<1> QED
  BY <1>3, SavedSettles DEF k

LEMMA BeginSettles ==
  ASSUME LInv, SettledInv, NEW a \in Agents, BeginKill(a) \/ BeginArchive(a)
  PROVE  SettledInv'
<1>1. ASSUME NEW k, NEW type, BegunWell(record[a].journal, k, type), Saved(a, k, TRUE, tomb[a])
      PROVE  SettledInv'
  BY <1>1, RunningSettles, SavedSettles DEF BegunWell
<1>2. CASE BeginKill(a)
  BY <1>1, <1>2, AgentFacts, DeletingJournal, RestSettles DEF BeginKill, Plainly
<1>3. CASE BeginArchive(a)
  BY <1>1, <1>3, AgentFacts, BegunJournal, RestSettles DEF BeginArchive, Plainly
<1> QED
  BY <1>2, <1>3

LEMMA CreateSettles ==
  ASSUME LInv, SettledInv, NEW a \in Agents,
         \/ \E r \in Requests : BeginCreate(r, a)
         \/ Launch(a) \/ BindMembership(a) \/ CommitCreate(a) \/ UndoCreate(a) \/ FailCreate(a)
  PROVE  SettledInv'
<1>1. CASE record' = record
  BY <1>1, RestSettles
<1>2. CASE \E r \in Requests : BeginCreate(r, a)
  <2> DEFINE j == <<>>
             k == Appended(j, "create")
  <2>1. Shaped(j) /\ Len(j) = 0 /\ "create" \in OpType
    BY EmptySeq DEF Shaped, OpType
  <2> HIDE DEF j
  <2>2. Running(k, "create")
    <3>1. ~(Len(j) >= 1 /\ j[Len(j)].state \notin Final)
      BY <2>1
    <3> QED
      BY <2>1, <3>1, AppendedJournal
  <2> HIDE DEF k
  <2>3. Settles(k)
    BY <2>2, RunningSettles
  <2>4. Saved(a, k, TRUE, FALSE) \/ record' = record
    BY <1>2 DEF BeginCreate, Unsaved, k, j
  <2> QED
    BY <1>1, <2>3, <2>4, SavedSettles
<1>3. ASSUME Running(record[a].journal, "create"),
             NEW s \in {"membership-pending", "blocked", "succeeded", "failed"},
             NEW o, NEW d, Saved(a, Turned(record[a].journal, s), o, d)
      PROVE  SettledInv'
  <2>1. s \in OpState /\ (s \notin Final \/ s = "succeeded" \/ s = "failed")
    BY <1>3 DEF OpState, Final
  <2> QED
    BY <1>3, <2>1, TurnSettles
<1>4. CASE Launch(a) \/ BindMembership(a) \/ CommitCreate(a) \/ UndoCreate(a) \/ FailCreate(a)
  <2>1. Running(record[a].journal, "create")
    BY <1>4, AtWork DEF Launch, BindMembership, CommitCreate, UndoCreate, FailCreate, Starting
  <2> QED
    BY <1>1, <1>3, <1>4, <2>1
    DEF Launch, BindMembership, CommitCreate, UndoCreate, FailCreate, Plainly, Unsaved, durable
<1> QED
  BY <1>2, <1>4

LEMMA RemoveSettles ==
  ASSUME LInv, SettledInv, NEW a \in Agents,
         Stop(a) \/ CommitDelete(a) \/ MarkArchived(a) \/ ArchiveProvider(a) \/ CommitArchive(a)
           \/ RecoverArchive(a)
  PROVE  SettledInv'
<1>1. PICK type \in {"delete", "archive"} : Running(record[a].journal, type)
  BY AtWork
  DEF Stop, CommitDelete, MarkArchived, ArchiveProvider, CommitArchive, RecoverArchive,
      After, Killing, Archiving, Recovering
<1>2. CASE record' = record
  BY <1>2, RestSettles
<1>3. ASSUME NEW s \in {"blocked", "provider-archive-pending", "succeeded"},
             NEW o, NEW d, Saved(a, Turned(record[a].journal, s), o, d)
      PROVE  SettledInv'
  <2>1. s \in OpState /\ (s \notin Final \/ s = "succeeded")
    BY <1>3 DEF OpState, Final
  <2> QED
    BY <1>1, <1>3, <2>1, TurnSettles
<1> QED
  BY <1>2, <1>3
  DEF Stop, CommitDelete, MarkArchived, ArchiveProvider, CommitArchive, RecoverArchive,
      Plainly, Unsaved

LEMMA RecoverSettles ==
  ASSUME LInv, SettledInv, NEW a \in Agents, RecoverOwned(a) \/ RecoverOrphan(a) \/ RecoverMissing(a)
  PROVE  SettledInv'
<1> DEFINE j == record[a].journal
<1>1. CASE record' = record
  BY <1>1, RestSettles
<1>2. ASSUME NEW type \in OpType, ActiveIs(a, type),
             NEW s \in {"failed", "succeeded", "provider-archive-pending"},
             s = "failed" => type = "create",
             NEW o, NEW d, Saved(a, Turned(j, s), o, d)
      PROVE  SettledInv'
  <2>1. Running(j, type)
    BY <1>2, AgentFacts, ActiveIsLast DEF ActiveIs, Running
  <2>2. s \in OpState /\ (s \notin Final \/ s = "succeeded" \/ s = "failed")
    BY <1>2 DEF OpState, Final
  <2> QED
    BY <1>2, <2>1, <2>2, TurnSettles
<1>3. CASE RecoverOwned(a)
  <2>1. ASSUME Saved(a, j, TRUE, FALSE) PROVE SettledInv'
    BY <2>1, SavedSettles DEF SettledInv
  <2>2. \/ record' = record \/ Saved(a, j, TRUE, FALSE)
        \/ BeginKill(a) \/ BeginArchive(a)
        \/ ActiveIs(a, "create") /\ Saved(a, Turned(j, "succeeded"), TRUE, FALSE)
    BY <1>3 DEF RecoverOwned, Unsaved, Aborts
  <2> QED
    BY <1>1, <1>2, <2>1, <2>2, BeginSettles DEF OpType
<1>4. CASE RecoverOrphan(a)
  <2> DEFINE k == <<>>
  <2>1. Settles(k)
    BY EmptySeq DEF Settles
  <2> HIDE DEF k
  <2>2. record' = record \/ Saved(a, k, TRUE, FALSE)
    BY <1>4 DEF RecoverOrphan, Unsaved, Aborts, k
  <2> QED
    BY <1>1, <2>1, <2>2, SavedSettles
<1>5. CASE RecoverMissing(a)
  BY <1>1, <1>2, <1>5 DEF RecoverMissing, Unsaved, OpType
<1> QED
  BY <1>3, <1>4, <1>5

LEMMA NextSettles == LInv /\ SettledInv /\ [Next]_vars => SettledInv'
<1> SUFFICES ASSUME LInv, SettledInv, [Next]_vars PROVE SettledInv'
  OBVIOUS
<1>1. CASE record' = record
  BY <1>1, RestSettles
<1>2. ASSUME NEW a \in Agents, NEW kind, Request(a, kind) \/ RunWaiter(a) PROVE SettledInv'
  BY <1>1, <1>2, BeginSettles DEF Request, RunWaiter, Begin
<1>3. CASE Clients \/ Creates \/ Removes \/ Recovers
  BY <1>1, <1>2, <1>3, CreateSettles, RemoveSettles, RecoverSettles
  DEF Clients, Creates, Admits, Removes, Recovers, RequestCreate, Replay, Boot, FoundDone,
      RecoveryDone, RecoverFound, durable
<1>4. CASE ~(Clients \/ Creates \/ Removes \/ Recovers)
  BY <1>1, <1>4
  DEF Next, Outside, DiesWhenKilled, Dies, ProviderArchives, Crash, vars, durable
<1> QED
  BY <1>3, <1>4

(* A terminal that runs has a row, but while the server comes up.          *)
ListedInv == \A a \in Agents : mode # "boot" /\ alive[a] => present[a]

LEMMA RestLists ==
  ASSUME ListedInv, mode' = "boot" \/ mode # "boot", NEW a \in Agents,
         \A b \in Agents \ {a} : alive'[b] = alive[b] /\ present'[b] = present[b],
         alive'[a] => present'[a] \/ (alive[a] /\ present'[a] = present[a])
  PROVE  ListedInv'
BY DEF ListedInv

(* The rows that a restarted server makes include every terminal that      *)
(* runs.                                                                   *)
LEMMA BootLists ==
  ASSUME HostAnswers, LInv, SettledInv, Boot
  PROVE  ListedInv'
<1> SUFFICES ASSUME NEW a \in Agents, alive[a] PROVE present'[a]
  BY DEF Boot, outside, ListedInv
<1> DEFINE j == record[a].journal
<1>1. Claims(record[a]) /\ Len(j) >= 1 /\ Shaped(j) /\ Settles(j)
  BY AgentFacts DEF AgentInv, SettledInv
<1>2. CASE IsActive(j)
  BY <1>1, <1>2 DEF Boot, Claims
<1>3. CASE ~IsActive(j)
  <2> DEFINE n == Len(j)
             op == j[n]
  <2>1. n \in DOMAIN j /\ op \in Op
    BY <1>1, ShapeOfJournal
  <2>2. op.state \in Final
    BY <1>1, <1>3, ActiveIsLast
  <2>3. /\ ~(op.type = "create" /\ op.state = "failed")
        /\ ~(op.type \in {"delete", "archive"} /\ op.state = "succeeded")
    BY <1>1, <2>1 DEF Claims, Clean
  <2>4. op.state = "succeeded" \/ (op.type = "create" /\ op.state = "failed")
    BY <1>1, <2>2 DEF Settles
  <2> HIDE DEF op
  <2>5. op = [type |-> "create", state |-> "succeeded"]
    BY <2>1, <2>3, <2>4 DEF Op
  <2>6. Created(j)
    <3>1. j # <<>>
      BY <1>1, EmptySeq
    <3> QED
      BY <2>5, <3>1 DEF Created, op
  <2> QED
    BY <1>1, <2>6 DEF Boot, Claims, Restorable
<1> QED
  BY <1>2, <1>3

LEMMA NextLists == HostAnswers /\ LInv /\ SettledInv /\ ReachInv /\ ListedInv /\ [Next]_vars => ListedInv'
<1> SUFFICES ASSUME HostAnswers, LInv, SettledInv, ReachInv, ListedInv, [Next]_vars PROVE ListedInv'
  OBVIOUS
<1> USE DEF durable, outside, memory, recovery
<1>1. alive \in [Agents -> BOOLEAN] /\ present \in [Agents -> BOOLEAN]
  BY DEF LInv, Types, ReachInv
<1>2. CASE alive' = alive /\ present' = present /\ (mode # "boot" \/ mode' = mode)
  BY <1>2 DEF ListedInv
<1>3. ASSUME NEW a \in Agents, ~alive[a], alive' = alive, mode' = mode,
             present' = present \/ present' = [present EXCEPT ![a] = FALSE]
      PROVE  ListedInv'
  BY <1>1, <1>3 DEF ListedInv
<1>4. ASSUME NEW a \in Agents, alive' = alive, mode # "boot",
             present' = [present EXCEPT ![a] = TRUE]
      PROVE  ListedInv'
  BY <1>1, <1>4 DEF ListedInv
<1>5. CASE Clients
  BY <1>2, <1>5 DEF Clients, RequestCreate, Request
<1>6. CASE Creates
  <2>1. ASSUME NEW a \in Agents, Launch(a) PROVE ListedInv'
    <3>1. step[a] = "launch" /\ present' = present /\ mode' = mode
          /\ \E x \in BOOLEAN : alive' = [alive EXCEPT ![a] = x]
      BY <2>1 DEF Launch
    <3>2. mode = "ready" /\ Running(record[a].journal, "create") /\ Shaped(record[a].journal)
      BY <3>1, AtWork, AgentFacts DEF Starting
    <3>3. present[a]
      BY <3>2, OpenIsRunning DEF ReachInv, Reach
    <3> QED
      BY <1>1, <3>1, <3>2, <3>3 DEF ListedInv
  <2>2. ASSUME NEW r \in Requests, NEW a \in Agents, BeginCreate(r, a) PROVE ListedInv'
    <3>1. mode = "ready"
      BY <2>2, LifecycleAssumption DEF BeginCreate, LInv, Admissions
    <3> QED
      BY <1>2, <1>4, <2>2, <3>1 DEF BeginCreate
  <2>3. ASSUME NEW a \in Agents, FailCreate(a) PROVE ListedInv'
    <3>1. ~alive[a]
      BY <2>3, AtWork DEF FailCreate, Ended
    <3> QED
      BY <1>3, <2>3, <3>1 DEF FailCreate, Forget, Keep
  <2> QED
    BY <1>2, <1>6, <2>1, <2>2, <2>3
    DEF Creates, Admits, Replay, BindMembership, CommitCreate, UndoCreate
<1>7. ASSUME NEW a \in Agents,
             CommitDelete(a) \/ CommitArchive(a) \/ RecoverArchive(a)
      PROVE  ListedInv'
  <2>1. ~alive[a]
    BY <1>7, AtWork DEF CommitDelete, CommitArchive, RecoverArchive, Ended
  <2> QED
    BY <1>3, <1>7, <2>1 DEF CommitDelete, CommitArchive, RecoverArchive, Forget, Keep, Retain
<1>8. CASE Removes
  BY <1>2, <1>7, <1>8 DEF Removes, RunWaiter, Stop, MarkArchived, ArchiveProvider
<1>9. CASE Recovers
  <2>1. ASSUME NEW a \in Agents, RecoverMissing(a) PROVE ListedInv'
    <3>1. mode = "missing" /\ a \in todo
      BY <2>1 DEF RecoverMissing
    <3>2. ~alive[a]
      BY <3>1, AgentFacts DEF AgentInv, AtRecovery
    <3> QED
      BY <1>3, <2>1, <3>2 DEF RecoverMissing
  <2>2. ASSUME NEW a \in Agents, RecoverFound(a) PROVE ListedInv'
    BY <1>2, <1>4, <2>2 DEF RecoverFound, RecoverOwned, RecoverOrphan
  <2> QED
    BY <1>2, <1>7, <1>9, <2>1, <2>2, BootLists DEF Recovers, FoundDone, RecoveryDone
<1>10. CASE Outside \/ \E a \in Agents : Dies(a)
  <2>1. ASSUME NEW a \in Agents, Dies(a) PROVE ListedInv'
    BY <1>1, <2>1 DEF Dies, ListedInv
  <2> QED
    BY <1>2, <1>10, <2>1 DEF Outside, DiesWhenKilled, ProviderArchives
<1>11. CASE Crash
  BY <1>11 DEF Crash, ListedInv
<1>12. CASE UNCHANGED vars
  BY <1>2, <1>12 DEF vars
<1> QED
  BY <1>5, <1>6, <1>8, <1>9, <1>10, <1>11, <1>12 DEF Next

(* If the host can always be reached, a server that takes requests has the *)
(* agent of every terminal that runs: it forgets an agent only when its    *)
(* terminal has ended, and a restarted one makes a row of every record     *)
(* that a running terminal has (agent-manager.cts, performKillAgent,       *)
(* shouldRestoreAgentFromMetadata).                                        *)
LEMMA LiveTerminalsAreListed == HostAnswers => (Spec => []LiveIsListed)
<1> SUFFICES ASSUME HostAnswers PROVE Spec => []LiveIsListed
  OBVIOUS
<1>1. Init => SettledInv /\ ListedInv
  <2> SUFFICES ASSUME Init PROVE SettledInv /\ ListedInv
    OBVIOUS
  <2>1. \A a \in Agents : record[a].journal = <<>> /\ ~alive[a]
    BY DEF Init, NoRecord
  <2> QED
    BY <2>1, EmptySeq DEF SettledInv, Settles, ListedInv
<1>2. HostAnswers /\ LInv /\ SettledInv /\ ReachInv /\ ListedInv /\ [Next]_vars => ListedInv'
  BY NextLists
<1>3. ListedInv => LiveIsListed
  BY DEF ListedInv, LiveIsListed
<1>4. Spec => []ReachInv
  BY ReachHolds
<1>5. Spec => []SettledInv
  BY <1>1, LInvHolds, NextSettles, PTL DEF Spec
<1>6. LInv /\ SettledInv /\ ReachInv /\ ListedInv /\ [Next]_vars => ListedInv'
  BY <1>2
<1> QED
  BY <1>1, <1>3, <1>4, <1>5, <1>6, LInvHolds, PTL DEF Spec

(* If the host can always be reached, a running terminal has an agent in   *)
(* every server that takes requests, and a record that names it and whose  *)
(* journal says that it was created and not yet removed, whatever crashed  *)
(* or could not be saved (agent-manager.cts, performKillAgent and recovery *)
(* of Terminal agents).                                                    *)
THEOREM LiveTerminalsAreOwned == HostAnswers => (Spec => []LiveIsOwned)
<1> SUFFICES ASSUME HostAnswers PROVE Spec => []LiveIsOwned
  OBVIOUS
<1>1. LInv => LiveIsRecorded
  <2> SUFFICES ASSUME LInv, NEW a \in Agents, alive[a]
               PROVE  Claims(record[a]) /\ ~provider[a]
    BY DEF LiveIsRecorded, Claims, Clean
  <2> QED
    BY AtWork
<1>2. LiveIsRecorded /\ LiveIsListed => LiveIsOwned
  BY DEF LiveIsOwned
<1>3. Spec => []LiveIsListed
  BY LiveTerminalsAreListed
<1> QED
  BY <1>1, <1>2, <1>3, LInvHolds, PTL

-----------------------------------------------------------------------------
(* The host that runs the terminals: what NativePtyHost_proofs shows holds *)
(* of the instance that is composed with the lifecycle.                    *)
HostProofs == INSTANCE NativePtyHost_proofs

LEMMA SameHostInit == HostControl!Init => HostProofs!Init
BY DEF HostControl!Init, HostProofs!Init

LEMMA SameHostNext ==
  [HostControl!Next]_(HostControl!vars) => [HostProofs!Next]_(HostProofs!vars)
BY DEF
  HostControl!control, HostProofs!control, HostControl!work,
     HostProofs!work, HostControl!checkpoint, HostProofs!checkpoint,
     HostControl!vars, HostProofs!vars, HostControl!Serves,
     HostProofs!Serves, HostControl!Turns, HostProofs!Turns,
     HostControl!Drained, HostProofs!Drained, HostControl!Settled,
     HostProofs!Settled, HostControl!Resumes, HostProofs!Resumes,
     HostControl!Stays, HostProofs!Stays, HostControl!Register,
     HostProofs!Register, HostControl!Task, HostProofs!Task,
     HostControl!Moot, HostProofs!Moot, HostControl!Replaces,
     HostProofs!Replaces, HostControl!Pops, HostProofs!Pops,
     HostControl!Ends, HostProofs!Ends, HostControl!Begins,
     HostProofs!Begins, HostControl!Drains, HostProofs!Drains,
     HostControl!Releases, HostProofs!Releases, HostControl!Disconnect,
     HostProofs!Disconnect, HostControl!Mutates, HostProofs!Mutates,
     HostControl!Admitted, HostProofs!Admitted, HostControl!Admit,
     HostProofs!Admit, HostControl!Run, HostProofs!Run,
     HostControl!Settle, HostProofs!Settle, HostControl!Serialize,
     HostProofs!Serialize, HostControl!Prepare, HostProofs!Prepare,
     HostControl!Answered, HostProofs!Answered, HostControl!Resumed,
     HostProofs!Resumed, HostControl!ResumeAny, HostProofs!ResumeAny,
     HostControl!RecoverSessions, HostProofs!RecoverSessions,
     HostControl!Abort, HostProofs!Abort, HostControl!ResumeAfter,
     HostProofs!ResumeAfter, HostControl!Shutdown, HostProofs!Shutdown,
     HostControl!HostEnds, HostProofs!HostEnds, HostControl!Host,
     HostProofs!Host, HostControl!Rotates, HostProofs!Rotates,
     HostControl!Next, HostProofs!Next

(* A mutation of a terminal is admitted and takes effect only for the      *)
(* server that the host has registered, and none is under way when control *)
(* passes to another (native-pty-host.cts).                                *)
THEOREM TerminalsHaveOneController == HostControl!Spec => []ControlIsExclusive
<1>1. HostProofs!HostConstants
  BY HostAssumption DEF HostProofs!HostConstants
<1>2. HostProofs!ControlIsExclusive <=> ControlIsExclusive
  BY DEF ControlIsExclusive, HostProofs!ControlIsExclusive, HostControl!ControlIsExclusive
<1> QED
  BY <1>1, <1>2, SameHostInit, SameHostNext, HostProofs!ControlStaysExclusive, PTL
  DEF HostControl!Spec, HostProofs!Spec
=============================================================================
