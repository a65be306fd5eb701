--------------------------- MODULE AgentLifecycle ---------------------------
(***************************************************************************)
(* Creating, deleting and archiving Terminal agents: the journal of        *)
(* operations in an agent's record (backend/agent-lifecycle-journal.cts,   *)
(* agent-lifecycle-journal-service.cts), the coordinator that runs one     *)
(* operation per agent at a time (agent-lifecycle-coordinator.cts), the    *)
(* admission of create requests (agent-start-admission-coordinator.cts),   *)
(* and the operations and their recovery after a restart                   *)
(* (agent-manager.cts).                                                    *)
(*                                                                         *)
(* Agents are ids that are not used twice; each has a record of its own.   *)
(* The journal in the server's memory is always the recorded one: what     *)
(* cannot be saved is taken back.  The terminals live in another process,  *)
(* their host, and survive the server.  A host that cannot be reached      *)
(* counts as one without terminals (Stop, Boot).  Main agents, side chats, *)
(* ACP agents, updates, forks, and a new agent for an old record (resume)  *)
(* are not modelled.                                                       *)
(***************************************************************************)
EXTENDS Naturals, Sequences, FiniteSets

CONSTANTS Agents, Requests,
          None,        \* no request, no admission
          Faults,      \* what may fail: disk, runtime, provider, unreachable (host)
          MaxCrashes,  \* bound: crashes of the server
          MaxOps       \* bound: operations in one journal

ASSUME LifecycleAssumption ==
  /\ Faults \subseteq {"disk", "runtime", "provider", "unreachable"}
  /\ MaxCrashes \in Nat /\ MaxOps \in Nat
  /\ None \notin Agents \cup Requests \cup {"replay", "begin"}
  /\ Agents \cap {"replay", "begin"} = {} /\ Requests \cap {"kill", "archive"} = {}

Final == {"succeeded", "failed", "cancelled"}
Op == [type : {"create", "delete", "archive"},
       state : Final \cup {"pending", "membership-pending", "provider-archive-pending",
                           "blocked"}]
(* The operation that runs under the coordinator, by what it does next.    *)
Starting == {"launch", "bind", "commit", "undo", "fail"}
Killing == {"stop", "delete"}
Archiving == {"release", "mark", "provider", "archive"}
Recovering == {"recover-provider"}

VARIABLES record,     \* the durable record: journal, owner (runtimeAgentId is set), archived
          member,     \* the agent is in the main page's index (durable)
          requestOf,  \* the create request in the agent's journal (durable)
          alive,      \* the terminal runs
          provider,   \* the provider has archived the session
          present,    \* the server has the agent
          stopped,    \* the server knows that the terminal has ended
          tomb,       \* the server's agent is marked archived
          step,       \* what the agent's operation does next
          waiting,    \* kinds of operations that wait for it, in order
          admission,  \* what a create request does: replay, begin, or the agent it starts
          told,       \* successes that were reported (history)
          mode,       \* boot, found, missing: recovery; ready; failed: the recovery threw
          listed,     \* agents whose terminals ran when recovery asked
          todo,       \* agents that recovery has still to look at
          crashes

durable == <<record, member, requestOf>>
outside == <<alive, provider>>
memory == <<present, stopped, tomb, step, waiting, admission>>
recovery == <<mode, listed, todo, crashes>>
vars == <<durable, outside, memory, told, recovery>>

NoRecord == [journal |-> <<>>, owner |-> FALSE, archived |-> FALSE]
Kind(s) == IF s \in Killing THEN "kill" ELSE IF s \in Archiving THEN "archive" ELSE "start"

TypeOK ==
  /\ \A a \in Agents : /\ record[a].journal \in Seq(Op)
                       /\ record[a].owner \in BOOLEAN /\ record[a].archived \in BOOLEAN
                       /\ waiting[a] \in Seq({"kill", "archive"})
  /\ member \in [Agents -> BOOLEAN] /\ requestOf \in [Agents -> Requests \cup {None}]
  /\ alive \in [Agents -> BOOLEAN] /\ provider \in [Agents -> BOOLEAN]
  /\ present \in [Agents -> BOOLEAN] /\ stopped \in [Agents -> BOOLEAN]
  /\ tomb \in [Agents -> BOOLEAN]
  /\ step \in [Agents -> {"idle"} \cup Starting \cup Killing \cup Archiving \cup Recovering]
  /\ admission \in [Requests -> {None, "replay", "begin"} \cup Agents]
  /\ told \subseteq [about : Requests \cup {"kill", "archive"}, agent : Agents]
  /\ mode \in {"boot", "found", "missing", "ready", "failed"}
  /\ listed \subseteq Agents /\ todo \subseteq Agents /\ crashes \in 0 .. MaxCrashes

Init ==
  /\ record = [a \in Agents |-> NoRecord] /\ member = [a \in Agents |-> FALSE]
  /\ requestOf = [a \in Agents |-> None]
  /\ alive = [a \in Agents |-> FALSE] /\ provider = [a \in Agents |-> FALSE]
  /\ present = [a \in Agents |-> FALSE] /\ stopped = [a \in Agents |-> FALSE]
  /\ tomb = [a \in Agents |-> FALSE]
  /\ step = [a \in Agents |-> "idle"] /\ waiting = [a \in Agents |-> <<>>]
  /\ admission = [r \in Requests |-> None] /\ told = {}
  /\ mode = "ready" /\ listed = {} /\ todo = {} /\ crashes = 0

-----------------------------------------------------------------------------
(* The journal.                                                            *)
Unfinished(j) == {i \in DOMAIN j : j[i].state \notin Final}
IsActive(j) == Unfinished(j) # {}
ActiveAt(j) == CHOOSE i \in Unfinished(j) : \A k \in Unfinished(j) : k <= i
ActiveOp(j) == j[ActiveAt(j)]
ActiveIs(a, type) == IsActive(record[a].journal) /\ ActiveOp(record[a].journal).type = type
Turned(j, state) == [j EXCEPT ![ActiveAt(j)].state = state]
Appended(j, type) == Append(j, [type |-> type, state |-> "pending"])

(* The journal with a begun operation: one of the same kind is joined, and *)
(* is pending again if it was blocked.                                     *)
CanBegin(j, type) == IF IsActive(j) THEN ActiveOp(j).type = type ELSE Len(j) < MaxOps
Begun(j, type) ==
  IF ~IsActive(j) THEN Appended(j, type)
  ELSE IF ActiveOp(j).state = "blocked" THEN Turned(j, "pending") ELSE j

(* A delete cancels a create that is pending or blocked.                   *)
Cancels(j) == IsActive(j) /\ ActiveOp(j).type = "create"
              /\ ActiveOp(j).state \in {"pending", "blocked"}
CanDelete(j) == IF Cancels(j) THEN Len(j) < MaxOps ELSE CanBegin(j, "delete")
Deleting(j) == IF Cancels(j) THEN Appended(Turned(j, "cancelled"), "delete")
               ELSE Begun(j, "delete")

(* Saving writes the whole agent: unless the caller says otherwise, the    *)
(* record then names the agent as its runtime.                             *)
Saved(a, j, owner, archived) ==
  record' = [record EXCEPT ![a] = [journal |-> j, owner |-> owner, archived |-> archived]]
Plainly(a, j) == Saved(a, j, TRUE, tomb[a])
Unsaved == "disk" \in Faults /\ UNCHANGED record

-----------------------------------------------------------------------------
(* The coordinator.                                                        *)
Goes(a, s) == step' = [step EXCEPT ![a] = s]
Ends(a) == Goes(a, "idle")
Forget(a) == /\ present' = [present EXCEPT ![a] = FALSE]
             /\ stopped' = [stopped EXCEPT ![a] = FALSE]
             /\ tomb' = [tomb EXCEPT ![a] = FALSE]
Keep == UNCHANGED <<present, stopped, tomb>>
Retain(a) == stopped' = [stopped EXCEPT ![a] = TRUE] /\ UNCHANGED <<present, tomb>>
Tell(what, a) == told' = told \cup {[about |-> what, agent |-> a]}

BeginKill(a) ==
  /\ \/ /\ CanDelete(record[a].journal)
        /\ Plainly(a, Deleting(record[a].journal))
        /\ Goes(a, "stop")
     \/ /\ ~CanDelete(record[a].journal) \/ "disk" \in Faults
        /\ UNCHANGED <<record, step>>

BeginArchive(a) ==
  /\ \/ /\ CanBegin(record[a].journal, "archive")
        /\ Plainly(a, Begun(record[a].journal, "archive"))
        /\ Goes(a, "release")
     \/ /\ ~CanBegin(record[a].journal, "archive") \/ "disk" \in Faults
        /\ UNCHANGED <<record, step>>

Begin(a, kind) == IF kind = "kill" THEN BeginKill(a) ELSE BeginArchive(a)

(* A client asks to delete or archive: the operation runs, is that which   *)
(* runs already, or waits for it.                                          *)
Request(a, kind) ==
  /\ mode = "ready"
  /\ IF step[a] = "idle"
       THEN /\ waiting[a] = <<>> /\ present[a]
            /\ Begin(a, kind)
            /\ UNCHANGED waiting
       ELSE /\ Kind(step[a]) # kind
            /\ \A i \in DOMAIN waiting[a] : waiting[a][i] # kind
            /\ waiting' = [waiting EXCEPT ![a] = Append(@, kind)]
            /\ UNCHANGED <<record, step>>
  /\ UNCHANGED <<member, requestOf, outside, present, stopped, tomb, admission, told, recovery>>

(* Variant: an operation that waited for one that removed the agent stays. *)
RunWaiterOfPresent(a) ==
  /\ mode = "ready" /\ step[a] = "idle" /\ waiting[a] # <<>> /\ present[a]
  /\ waiting' = [waiting EXCEPT ![a] = Tail(@)]
  /\ Begin(a, Head(waiting[a]))
  /\ UNCHANGED <<member, requestOf, outside, present, stopped, tomb, admission, told, recovery>>

(* The next operation runs when the one before it has ended; the agent may *)
(* be gone by then.                                                        *)
RunWaiter(a) ==
  /\ mode = "ready" /\ step[a] = "idle" /\ waiting[a] # <<>>
  /\ waiting' = [waiting EXCEPT ![a] = Tail(@)]
  /\ IF present[a] THEN Begin(a, Head(waiting[a])) ELSE UNCHANGED <<record, step>>
  /\ UNCHANGED <<member, requestOf, outside, present, stopped, tomb, admission, told, recovery>>

-----------------------------------------------------------------------------
(* Creating an agent.                                                      *)
RequestCreate(r) ==
  /\ mode = "ready" /\ admission[r] = None
  /\ admission' = [admission EXCEPT ![r] = "replay"]
  /\ UNCHANGED <<durable, outside, present, stopped, tomb, step, waiting, told, recovery>>

RemovedLater(j) == \E i \in DOMAIN j : j[i].type \in {"delete", "archive"} /\ j[i].state = "succeeded"
Answers(r) == admission' = [admission EXCEPT ![r] = None]

(* Variant: only a create that succeeded answers the repeated request.     *)
ReplaySucceeded(r) ==
  LET known == {a \in Agents : requestOf[a] = r /\ record[a].journal[1].state = "succeeded"} IN
  /\ admission[r] = "replay"
  /\ \/ known = {} /\ admission' = [admission EXCEPT ![r] = "begin"] /\ UNCHANGED told
     \/ \E a \in known :
          /\ Answers(r)
          /\ IF present[a] THEN Tell(r, a) ELSE UNCHANGED told
  /\ UNCHANGED <<durable, outside, present, stopped, tomb, step, waiting, recovery>>

(* A request whose operation is in a journal is answered from it; if that  *)
(* operation runs, it is waited for.                                       *)
Replay(r) ==
  LET known == {a \in Agents : requestOf[a] = r} IN
  /\ admission[r] = "replay"
  /\ \/ known = {} /\ admission' = [admission EXCEPT ![r] = "begin"] /\ UNCHANGED told
     \/ \E a \in known :
          LET create == record[a].journal[1] IN
          /\ create.state \in Final \/ step[a] = "idle"
          /\ Answers(r)
          /\ IF ~RemovedLater(record[a].journal) /\ create.state = "succeeded" /\ present[a]
               THEN Tell(r, a) ELSE UNCHANGED told
  /\ UNCHANGED <<durable, outside, present, stopped, tomb, step, waiting, recovery>>

(* The intent is saved before anything is started.                         *)
BeginCreate(r, a) ==
  /\ admission[r] = "begin" /\ record[a] = NoRecord /\ requestOf[a] = None
  /\ \/ /\ Saved(a, Appended(<<>>, "create"), TRUE, FALSE)
        /\ requestOf' = [requestOf EXCEPT ![a] = r]
        /\ present' = [present EXCEPT ![a] = TRUE]
        /\ Goes(a, "launch")
        /\ admission' = [admission EXCEPT ![r] = a]
     \/ Unsaved /\ Answers(r) /\ UNCHANGED <<requestOf, present, step>>
  /\ UNCHANGED <<member, outside, stopped, tomb, waiting, told, recovery>>

Launch(a) ==
  /\ step[a] = "launch"
  /\ \/ alive' = [alive EXCEPT ![a] = TRUE] /\ Goes(a, "bind")
     \/ /\ "runtime" \in Faults
        /\ \E started \in BOOLEAN : alive' = [alive EXCEPT ![a] = started]
        /\ Goes(a, "undo")
  /\ UNCHANGED <<durable, provider, present, stopped, tomb, waiting, admission, told, recovery>>

BindMembership(a) ==
  /\ step[a] = "bind"
  /\ \/ Plainly(a, Turned(record[a].journal, "membership-pending")) /\ Goes(a, "commit")
     \/ Unsaved /\ Goes(a, "undo")
  /\ UNCHANGED <<member, requestOf, outside, present, stopped, tomb, waiting, admission, told,
                 recovery>>

(* The agent joins the main page and its operation succeeds.               *)
CommitCreate(a) ==
  /\ step[a] = "commit"
  /\ \/ /\ member' = [member EXCEPT ![a] = TRUE]
        /\ Plainly(a, Turned(record[a].journal, "succeeded"))
        /\ Tell(requestOf[a], a) /\ Answers(requestOf[a]) /\ Ends(a)
     \/ /\ \/ UNCHANGED member
           \/ member' = [member EXCEPT ![a] = TRUE]
        /\ Unsaved /\ Goes(a, "undo") /\ UNCHANGED <<told, admission>>
  /\ UNCHANGED <<requestOf, outside, present, stopped, tomb, waiting, recovery>>

(* A failed start is undone: if the end of the terminal cannot be shown,   *)
(* the agent stays, its create blocked.                                    *)
UndoCreate(a) ==
  /\ step[a] = "undo"
  /\ \/ ~alive[a] /\ Goes(a, "fail") /\ UNCHANGED <<record, admission>>
     \/ /\ "runtime" \in Faults
        /\ Plainly(a, Turned(record[a].journal, "blocked")) \/ Unsaved
        /\ Answers(requestOf[a]) /\ Ends(a)
  /\ UNCHANGED <<member, requestOf, outside, present, stopped, tomb, waiting, told, recovery>>

(* Variant: the agent is forgotten even if its failure was not saved.      *)
FailCreateForgetting(a) ==
  /\ step[a] = "fail"
  /\ Saved(a, Turned(record[a].journal, "failed"), FALSE, FALSE) \/ Unsaved
  /\ Forget(a) /\ Answers(requestOf[a]) /\ Ends(a)
  /\ UNCHANGED <<member, requestOf, outside, waiting, told, recovery>>

FailCreate(a) ==
  /\ step[a] = "fail"
  /\ \/ Saved(a, Turned(record[a].journal, "failed"), FALSE, FALSE) /\ Forget(a)
     \/ Unsaved /\ Keep
  /\ Answers(requestOf[a]) /\ Ends(a)
  /\ UNCHANGED <<member, requestOf, outside, waiting, told, recovery>>

-----------------------------------------------------------------------------
(* Stopping the terminal, for a delete or an archive.  It counts as ended  *)
(* when the engine says so, or cannot be reached; what the kill itself     *)
(* answers does not matter.  The end of an archived one is not asked again.*)
Stopped(a) == ~alive[a] \/ stopped[a]
After == [stop |-> "delete", release |-> "mark"]

(* Variant: a kill that the engine accepted counts as the end.             *)
StopUnverified(a) ==
  /\ step[a] \in DOMAIN After
  /\ Goes(a, After[step[a]])
  /\ stopped' = [stopped EXCEPT ![a] = @ \/ (step'[a] = "mark")]
  /\ UNCHANGED <<durable, outside, present, tomb, waiting, admission, told, recovery>>

Stop(a) ==
  /\ step[a] \in DOMAIN After
  /\ \/ /\ Stopped(a) \/ "unreachable" \in Faults
        /\ Goes(a, After[step[a]]) /\ UNCHANGED record
     \/ /\ "runtime" \in Faults /\ ~stopped[a]
        /\ Plainly(a, Turned(record[a].journal, "blocked")) \/ Unsaved
        /\ Ends(a)
  /\ stopped' = [stopped EXCEPT ![a] = @ \/ (step'[a] = "mark")]
  /\ UNCHANGED <<member, requestOf, outside, present, tomb, waiting, admission, told, recovery>>

(* The delete succeeds in one save; the main page's index comes after it.  *)
CommitDelete(a) ==
  /\ step[a] = "delete"
  /\ \/ /\ Saved(a, Turned(record[a].journal, "succeeded"), FALSE, TRUE)
        /\ \/ member' = [member EXCEPT ![a] = FALSE] /\ Forget(a) /\ Tell("kill", a)
           \/ "disk" \in Faults /\ Retain(a) /\ UNCHANGED <<member, told>>
     \/ Unsaved /\ Retain(a) /\ UNCHANGED <<member, told>>
  /\ Ends(a)
  /\ UNCHANGED <<requestOf, outside, waiting, admission, recovery>>

(* The agent is archived here before its provider is asked.                *)
MarkArchived(a) ==
  /\ step[a] = "mark"
  /\ \/ /\ Saved(a, Turned(record[a].journal, "provider-archive-pending"), FALSE, TRUE)
        /\ tomb' = [tomb EXCEPT ![a] = TRUE]
        /\ \/ member' = [member EXCEPT ![a] = FALSE]
           \/ "disk" \in Faults /\ UNCHANGED member
        /\ Goes(a, "provider")
     \/ Unsaved /\ Ends(a) /\ UNCHANGED <<tomb, member>>
  /\ UNCHANGED <<requestOf, outside, present, stopped, waiting, admission, told, recovery>>

ArchiveProvider(a) ==
  /\ step[a] = "provider"
  /\ \/ provider[a] /\ Goes(a, "archive") /\ UNCHANGED record
     \/ /\ "provider" \in Faults
        /\ Saved(a, Turned(record[a].journal, "blocked"), FALSE, TRUE) \/ Unsaved
        /\ Ends(a)
  /\ UNCHANGED <<member, requestOf, outside, present, stopped, tomb, waiting, admission, told,
                 recovery>>

(* Variant: the provider's answer is the archive's, saved or not.          *)
CommitArchiveEarly(a) ==
  /\ step[a] = "archive"
  /\ Saved(a, Turned(record[a].journal, "succeeded"), FALSE, TRUE) \/ Unsaved
  /\ Forget(a) /\ Tell("archive", a) /\ Ends(a)
  /\ UNCHANGED <<member, requestOf, outside, waiting, admission, recovery>>

CommitArchive(a) ==
  /\ step[a] = "archive"
  /\ \/ /\ Saved(a, Turned(record[a].journal, "succeeded"), FALSE, TRUE)
        /\ Forget(a) /\ Tell("archive", a)
     \/ Unsaved /\ Keep /\ UNCHANGED told
  /\ Ends(a)
  /\ UNCHANGED <<member, requestOf, outside, waiting, admission, recovery>>

(* A terminal that was told to stop does, and the provider does its part,  *)
(* even if the server no longer hears of it.                               *)
Dies(a) ==
  /\ alive[a]
  /\ alive' = [alive EXCEPT ![a] = FALSE]
  /\ UNCHANGED <<durable, provider, memory, told, recovery>>
DiesWhenKilled(a) == step[a] \in DOMAIN After \cup {"undo"} /\ Dies(a)

ProviderArchives(a) ==
  /\ step[a] \in {"provider", "recover-provider"} /\ ~provider[a]
  /\ provider' = [provider EXCEPT ![a] = TRUE]
  /\ UNCHANGED <<durable, alive, memory, told, recovery>>

-----------------------------------------------------------------------------
(* The server dies, and another one recovers before it takes requests.     *)
Crash ==
  /\ crashes < MaxCrashes
  /\ crashes' = crashes + 1 /\ mode' = "boot" /\ listed' = {} /\ todo' = {}
  /\ present' = [a \in Agents |-> FALSE] /\ stopped' = [a \in Agents |-> FALSE]
  /\ tomb' = [a \in Agents |-> FALSE]
  /\ step' = [a \in Agents |-> "idle"] /\ waiting' = [a \in Agents |-> <<>>]
  /\ admission' = [r \in Requests |-> None]
  /\ UNCHANGED <<durable, outside, told>>

Created(j) == j # <<>> /\ j[Len(j)] = [type |-> "create", state |-> "succeeded"]
(* Variant: only the main page's index counts.                             *)
RestorableByIndex(a) == ~record[a].archived /\ member[a]

(* A record is restored if the main page's index has it, or its last       *)
(* operation is the create that succeeded.                                 *)
Restorable(a) == ~record[a].archived /\ (member[a] \/ Created(record[a].journal))

(* Records that name a runtime become rows; the engine lists what runs.    *)
(* If its host cannot be reached the list is empty; any other error ends   *)
(* the recovery, and the server takes no requests.                         *)
Boot ==
  /\ mode = "boot"
  /\ present' = [a \in Agents |-> /\ record[a].owner
                                  /\ IsActive(record[a].journal) \/ Restorable(a)]
  /\ \/ mode' = "found" /\ listed' = {a \in Agents : alive[a]}
     \/ "unreachable" \in Faults /\ mode' = "found" /\ listed' = {}
     \/ "runtime" \in Faults /\ mode' = "failed" /\ listed' = {}
  /\ todo' = listed'
  /\ UNCHANGED <<durable, outside, stopped, tomb, step, waiting, admission, told, crashes>>

Quiet == \A a \in Agents : step[a] = "idle"

(* A recovered agent joins the main page; the recovery ends if that, or    *)
(* the save of an agent without an operation, fails.                       *)
Joins(a) ==
  \/ member' = [member EXCEPT ![a] = TRUE] /\ UNCHANGED mode
  \/ /\ "disk" \in Faults /\ mode' = "failed"
     /\ \E joined \in {member[a], TRUE} : member' = [member EXCEPT ![a] = joined]
Aborts == Unsaved /\ mode' = "failed" /\ UNCHANGED member

(* A terminal that runs: its create has succeeded, its delete or archive   *)
(* is resumed, a create that was blocked stays blocked.  One that is not   *)
(* to be restored is killed, and its end not awaited.                      *)
RecoverOwned(a) ==
  LET j == record[a].journal IN
  /\ \/ /\ ActiveIs(a, "create") /\ ActiveOp(j).state # "blocked" /\ Joins(a)
        /\ \/ /\ Saved(a, Turned(j, "succeeded"), TRUE, FALSE)
              /\ ActiveOp(j).state = "membership-pending" => member'[a]
           \/ Unsaved
        /\ UNCHANGED step
     \/ /\ ActiveIs(a, "create") /\ ActiveOp(j).state = "blocked" /\ Joins(a)
        /\ UNCHANGED <<record, step>>
     \/ /\ ActiveIs(a, "delete") /\ BeginKill(a) /\ UNCHANGED <<member, mode>>
     \/ /\ ActiveIs(a, "archive") /\ BeginArchive(a) /\ UNCHANGED <<member, mode>>
     \/ /\ ~IsActive(j) /\ Restorable(a)
        /\ (Saved(a, j, TRUE, FALSE) /\ Joins(a)) \/ Aborts
        /\ UNCHANGED step
     \/ /\ ~IsActive(j) /\ ~Restorable(a)
        /\ UNCHANGED <<record, member, step, mode>>
  /\ UNCHANGED <<requestOf, present>>

(* A terminal that no record names is killed, or restored from what the    *)
(* host knows of it: its record loses the journal.                         *)
RecoverOrphan(a) ==
  /\ \/ ~member[a] /\ UNCHANGED <<record, member, requestOf, present, mode>>
     \/ /\ member[a] /\ present' = [present EXCEPT ![a] = TRUE]
        /\ \/ /\ Saved(a, <<>>, TRUE, FALSE) /\ Joins(a)
              /\ requestOf' = [requestOf EXCEPT ![a] = None]
           \/ Aborts /\ UNCHANGED requestOf
  /\ UNCHANGED step

RecoverFound(a) ==
  /\ mode = "found" /\ Quiet /\ a \in todo /\ todo' = todo \ {a}
  /\ IF record[a].owner THEN RecoverOwned(a) ELSE RecoverOrphan(a)
  /\ UNCHANGED <<outside, stopped, tomb, waiting, admission, told, listed, crashes>>

FoundDone ==
  /\ mode = "found" /\ Quiet /\ todo = {}
  /\ mode' = "missing"
  /\ todo' = {a \in Agents \ listed : record[a].owner /\ IsActive(record[a].journal)}
  /\ UNCHANGED <<durable, outside, memory, told, listed, crashes>>

(* A terminal that is gone: its create has failed, its delete is done, its *)
(* archive goes on with the provider.                                      *)
RecoverMissing(a) ==
  LET j == record[a].journal
      out == [present EXCEPT ![a] = FALSE]
      left == [member EXCEPT ![a] = FALSE] IN
  /\ mode = "missing" /\ Quiet /\ a \in todo /\ todo' = todo \ {a}
  /\ \/ /\ ActiveIs(a, "create") /\ Saved(a, Turned(j, "failed"), FALSE, FALSE)
        /\ present' = out /\ UNCHANGED <<member, step>>
     \/ /\ ActiveIs(a, "delete") /\ Saved(a, Turned(j, "succeeded"), FALSE, TRUE)
        /\ \/ member' = left /\ present' = out
           \/ "disk" \in Faults /\ UNCHANGED <<member, present>>
        /\ UNCHANGED step
     \/ /\ ActiveIs(a, "archive")
        /\ Saved(a, Turned(j, "provider-archive-pending"), FALSE, TRUE)
        /\ \/ member' = left /\ Goes(a, "recover-provider")
           \/ "disk" \in Faults /\ UNCHANGED <<member, step>>
        /\ UNCHANGED present
     \/ Unsaved /\ UNCHANGED <<member, present, step>>
  /\ UNCHANGED <<requestOf, outside, stopped, tomb, waiting, admission, told, mode, listed,
                 crashes>>

(* The outcome is saved with the whole agent, which here is not marked     *)
(* archived and has an id.                                                 *)
RecoverArchive(a) ==
  LET settled == IF provider[a] THEN {"succeeded"} ELSE {} IN
  /\ step[a] = "recover-provider"
  /\ \/ \E state \in settled \cup (IF "provider" \in Faults THEN {"blocked"} ELSE {}) :
          Saved(a, Turned(record[a].journal, state), TRUE, FALSE) /\ Forget(a)
     \/ /\ provider[a] \/ "provider" \in Faults
        /\ Unsaved /\ Keep
  /\ Ends(a)
  /\ UNCHANGED <<member, requestOf, outside, waiting, admission, told, recovery>>

RecoveryDone ==
  /\ mode = "missing" /\ Quiet /\ todo = {}
  /\ mode' = "ready" /\ listed' = {}
  /\ UNCHANGED <<durable, outside, memory, told, todo, crashes>>

-----------------------------------------------------------------------------
Clients == \/ \E r \in Requests : RequestCreate(r)
           \/ \E a \in Agents, kind \in {"kill", "archive"} : Request(a, kind)
Admits(r) == Replay(r) \/ \E a \in Agents : BeginCreate(r, a)
Creates == \/ \E r \in Requests : Admits(r)
           \/ \E a \in Agents : \/ Launch(a) \/ BindMembership(a) \/ CommitCreate(a)
                                \/ UndoCreate(a) \/ FailCreate(a)
Removes == \E a \in Agents : \/ RunWaiter(a) \/ Stop(a) \/ CommitDelete(a)
                             \/ MarkArchived(a) \/ ArchiveProvider(a) \/ CommitArchive(a)
Recovers == \/ Boot \/ FoundDone \/ RecoveryDone
            \/ \E a \in Agents : RecoverFound(a) \/ RecoverMissing(a) \/ RecoverArchive(a)
Outside == \E a \in Agents : DiesWhenKilled(a) \/ ProviderArchives(a)

Next == Clients \/ Creates \/ Removes \/ Recovers \/ Outside \/ Crash
        \/ \E a \in Agents : Dies(a)
Spec == Init /\ [][Next]_vars

(* The server's own steps happen, kill and archive have their effect;      *)
(* clients need not ask again.                                             *)
Work(a) == \/ Launch(a) \/ BindMembership(a) \/ CommitCreate(a) \/ UndoCreate(a) \/ FailCreate(a)
           \/ RunWaiter(a) \/ Stop(a) \/ CommitDelete(a) \/ MarkArchived(a)
           \/ ArchiveProvider(a) \/ CommitArchive(a) \/ RecoverArchive(a)
           \/ DiesWhenKilled(a) \/ ProviderArchives(a)
Fairness == /\ \A a \in Agents : WF_vars(Work(a))
            /\ \A r \in Requests : WF_vars(Admits(r))
            /\ WF_vars(Recovers)
FairSpec == Spec /\ Fairness

-----------------------------------------------------------------------------
(* A ready server has the agent of every terminal that runs: a terminal is *)
(* neither forgotten nor left behind by a recovery.                        *)
LiveIsListed == mode = "ready" => \A a \in Agents : alive[a] => present[a]

(* A terminal runs only for an agent that a ready server has, and whose    *)
(* record names it and says neither that its create failed nor that it was *)
(* deleted or archived: a restarted server finds every terminal, and none  *)
(* outlives its agent.                                                     *)
LiveIsRecorded ==
  \A a \in Agents : alive[a] =>
    /\ record[a].owner /\ ~record[a].archived
    /\ \A i \in DOMAIN record[a].journal :
         LET op == record[a].journal[i] IN
         /\ ~(op.type = "create" /\ op.state = "failed")
         /\ ~(op.type \in {"delete", "archive"} /\ op.state = "succeeded")
    /\ ~provider[a]
LiveIsOwned == LiveIsRecorded /\ LiveIsListed

(* However often a create request is repeated, before or after a restart,  *)
(* it starts one agent.                                                    *)
CreatedOnce ==
  \A a, b \in Agents : requestOf[a] # None /\ requestOf[a] = requestOf[b] => a = b

(* A success that was reported is on record: it is not taken back by a     *)
(* crash or by an operation that comes later.                              *)
Has(a, type) == \E i \in DOMAIN record[a].journal :
                  record[a].journal[i] = [type |-> type, state |-> "succeeded"]
ReportsHold ==
  \A t \in told :
    /\ t.about \in Requests => requestOf[t.agent] = t.about /\ Has(t.agent, "create")
    /\ t.about = "kill" => Has(t.agent, "delete") /\ ~alive[t.agent]
    /\ t.about = "archive" => Has(t.agent, "archive") /\ ~alive[t.agent] /\ provider[t.agent]

(* After recovery, an agent whose create or delete is not finished is one  *)
(* that the server has, so that a client can ask to delete it.             *)
UnfinishedIsReachable ==
  mode = "ready" =>
    \A a \in Agents : ActiveIs(a, "create") \/ ActiveIs(a, "delete") => present[a]

(* What was asked of the server comes to an end, and so does a recovery:   *)
(* an agent's operation, those behind it, and a create request, as long as *)
(* there is an agent left for it.                                          *)
Fresh == {a \in Agents : record[a] = NoRecord /\ requestOf[a] = None}
OperationsEnd ==
  /\ \A a \in Agents : /\ step[a] # "idle" ~> step[a] = "idle"
                       /\ waiting[a] # <<>> ~> waiting[a] = <<>>
  /\ \A r \in Requests : admission[r] # None ~> admission[r] = None \/ Fresh = {}
  /\ mode \notin {"ready", "failed"} ~> mode \in {"ready", "failed"}

(* An archive that waits for the provider comes to an end, as the comment  *)
(* on the early publication of an archive says.                            *)
AtProvider(a) == ActiveIs(a, "archive")
                 /\ ActiveOp(record[a].journal).state = "provider-archive-pending"
ArchivesReachTheirEnd == \A a \in Agents : AtProvider(a) ~> ~AtProvider(a)
=============================================================================
