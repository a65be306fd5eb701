--------------------------- MODULE UpdateOperation ---------------------------
(***************************************************************************)
(* The self-update of an npm installation: backend/update-service.cts in   *)
(* the server, backend/npm-update-helper.cts in the detached helpers it    *)
(* spawns, backend/update-operation-state.cts for the state file between   *)
(* them, and the current-image pointer of                                  *)
(* backend/package-installation.cts.                                       *)
(*                                                                         *)
(* The claim on the state file is the exclusive lock that ProcessFileLock  *)
(* establishes: a commit is one step that needs the claim to be free, a    *)
(* protected effect holds it, a dead helper's claim counts as free, and    *)
(* the server never waits for it.  One Config with one package             *)
(* installation is modelled; other Configs and the user move the pointer,  *)
(* stop the server and start it.  Elapsed time is a nondeterministic       *)
(* choice: an unfinished operation may be past its deadline at any check.  *)
(***************************************************************************)
CONSTANTS Op,       \* operation ids the server will draw
          Version,  \* versions; the package image of a version stands for it
          First,    \* the version that runs at the start
          Shared,   \* versions that other Configs of the installation select
          None

ASSUME FirstAssumption == First \in Version
ASSUME SharedAssumption == Shared \subseteq Version
ASSUME NoneAssumption == None \notin Version \cup Op /\ "start" \notin Op

VARIABLES file,     \* the update state file
          holder,   \* the helper that holds the claim across an effect
          pointer,  \* the current package image of the installation
          server,   \* the version of the running server
          turn,     \* the server is between reading the file and publishing
          call,     \* the start or apply request that awaits something
          helper,   \* where the helper process of each operation is
          job,      \* the payload of each operation's helpers
          victim,   \* the running server is the one named in that payload
          undo,     \* the pointer an activation replaced
          fenced,   \* history: operations the server timed out
          ran       \* history: operations whose target version has run

updateVars == <<file, holder, pointer, server, turn, call, helper, job, victim,
                undo, fenced, ran>>

Preparing == {"installing", "preparing-runtimes"}
Terminal == {"succeeded", "failed", "rolled-back"}
Phase == Preparing \cup Terminal
           \cup {"ready-to-restart", "restarting", "rolling-back"}

(* A timed-out record has an operation id of its own and only remembers    *)
(* the operation it replaced.                                              *)
Record == [op : Op, phase : Phase, timedOut : BOOLEAN]
Job == [prev : Version, target : Version, expected : Version]

Published == {"publish"}
Protected == {"stop", "activate", "start", "starting"}
Undoing == {"restore", "restart", "restarting"}
HelperStep ==
  {"unborn", "gone",
   "prepare", "stage", "mark", "claim", "publish", "ready", "fail",
   "apply", "reach", "stop", "activate", "start", "starting", "report",
   "caught", "undo", "regain", "restore", "restart", "restarting", "undone",
   "broken", "return"}
Context == {"check", "start", "status", "launch", "apply"}
Decision == {"keep", "clear", "fence", "succeeded", "rolled-back"}
ServerTurn == [for : Context, act : Decision, seen : Record \cup {None}]

UpdateTypeOK ==
  /\ file \in Record \cup {None}
  /\ holder \in Op \cup {None}
  /\ pointer \in Version
  /\ server \in Version \cup {None}
  /\ turn \in ServerTurn \cup {None}
  /\ call \in Op \cup {None, "start"}
  /\ helper \in [Op -> HelperStep]
  /\ job \in [Op -> Job]
  /\ victim \in [Op -> BOOLEAN]
  /\ undo \in [Op -> Version \cup {None}]
  /\ fenced \in SUBSET Op
  /\ ran \in SUBSET Op

UpdateInit ==
  /\ file = None /\ holder = None /\ pointer = First /\ server = First
  /\ turn = None /\ call = None
  /\ helper = [o \in Op |-> "unborn"]
  /\ job = [o \in Op |-> [prev |-> First, target |-> First, expected |-> First]]
  /\ victim = [o \in Op |-> FALSE]
  /\ undo = [o \in Op |-> None]
  /\ fenced = {} /\ ran = {}

serverVars == <<pointer, server, victim, undo, ran>>
requestVars == <<turn, call>>

State(o, phase) == [op |-> o, phase |-> phase, timedOut |-> FALSE]
PhaseOf(state) == IF state = None THEN "idle" ELSE state.phase
Free == holder = None

(* readUpdateOperationOwnership against the expected operation and phase.  *)
Owns(o, phases) == /\ file # None
                   /\ file.op = o /\ ~file.timedOut /\ file.phase \in phases

-----------------------------------------------------------------------------
(* The server.  Its requests run one synchronous section at a time: it     *)
(* reads the file, decides, and publishes under the claim.                 *)

(* Variant: any server that comes up while restarting counts as success.   *)
DecisionsOptimistic(state) ==
  IF PhaseOf(state) = "restarting" THEN {"succeeded"} ELSE {"keep"}

(* currentInstallState: what the server may decide about a state, from its *)
(* own version, the selected image and the clock.                          *)
Decisions(state) ==
  IF state = None THEN {"clear"}
  ELSE LET j == job[state.op] IN
    CASE state.phase = "restarting" ->
           IF server = j.target THEN {"succeeded"}
           ELSE IF server # j.prev THEN {"clear"} ELSE {"keep", "fence"}
      [] state.phase = "rolling-back" ->
           IF server = j.prev THEN {"rolled-back"}
           ELSE IF server # j.target THEN {"clear"} ELSE {"keep", "fence"}
      [] state.phase \in Preparing ->
           IF server # j.prev THEN {"clear"} ELSE {"keep", "fence"}
      [] state.phase = "ready-to-restart" ->
           IF server # j.prev \/ pointer # j.expected THEN {"clear"} ELSE {"keep"}
      [] state.phase = "succeeded" ->
           IF server # j.target THEN {"clear"} ELSE {"keep", "clear"}
      [] state.phase = "rolled-back" ->
           IF server # j.prev THEN {"clear"} ELSE {"keep", "clear"}
      [] state.phase = "failed" ->
           IF server \notin {j.prev, j.target} THEN {"clear"} ELSE {"keep", "clear"}

(* Variant: an apply is also taken for an operation already restarting.    *)
ProceedRestarting(for, state) ==
  /\ turn' = IF for = "status"
             THEN [for |-> "launch", act |-> "keep", seen |-> state] ELSE None
  /\ call' = IF for = "start" THEN "start"
             ELSE IF /\ for = "apply"
                     /\ PhaseOf(state) \in {"ready-to-restart", "restarting"}
             THEN state.op ELSE call

(* What a request does with the state it was told, still synchronously: a  *)
(* start goes on to the registry unless an update is active or prepared,   *)
(* an apply needs a prepared one, a start that is back from the registry   *)
(* launches.                                                               *)
Proceed(for, state) ==
  LET blocking == {"installing", "restarting", "rolling-back", "ready-to-restart"}
  IN /\ turn' = IF for = "status"
                THEN [for |-> "launch", act |-> "keep", seen |-> state] ELSE None
     /\ call' = IF for = "start" /\ PhaseOf(state) \notin blocking THEN "start"
                ELSE IF for = "apply" /\ PhaseOf(state) = "ready-to-restart"
                THEN state.op ELSE call

(* A request reads the state file and decides.  A start or an apply joins  *)
(* the one in flight instead of running its own.                           *)
Observe(for) ==
  /\ server # None /\ turn = None
  /\ for \in {"start", "apply"} => call = None
  /\ for = "status" => call = "start"
  /\ \E act \in Decisions(file) :
       IF act = "keep" THEN Proceed(for, file)
       ELSE /\ turn' = [for |-> for, act |-> act, seen |-> file]
            /\ UNCHANGED call
  /\ UNCHANGED <<file, holder, helper, job, fenced, serverVars>>

(* Variant: the server publishes without taking the claim.                 *)
PublishUnclaimed ==
  /\ turn # None /\ turn.act \in {"clear", "succeeded", "rolled-back"}
  /\ file' = IF turn.act = "clear" THEN None
             ELSE [turn.seen EXCEPT !.phase = turn.act]
  /\ Proceed(turn.for, file')
  /\ UNCHANGED <<holder, helper, job, fenced, serverVars>>

(* clearInstallState and persistInstallState: unconditional, but only with *)
(* the claim.                                                              *)
Publish ==
  /\ turn # None /\ turn.act \in {"clear", "succeeded", "rolled-back"} /\ Free
  /\ file' = IF turn.act = "clear" THEN None
             ELSE [turn.seen EXCEPT !.phase = turn.act]
  /\ Proceed(turn.for, file')
  /\ UNCHANGED <<holder, helper, job, fenced, serverVars>>

(* fenceTimedOutInstallState: the failed state gets an operation id of its *)
(* own, provided the operation is still where its deadline was observed;   *)
(* otherwise the file is read again.                                       *)
FenceTimedOut ==
  /\ turn # None /\ turn.act = "fence" /\ Free
  /\ IF Owns(turn.seen.op, {turn.seen.phase})
     THEN /\ file' = [op |-> turn.seen.op, phase |-> "failed", timedOut |-> TRUE]
          /\ fenced' = fenced \cup {turn.seen.op}
          /\ Proceed(turn.for, file')
     ELSE /\ \E act \in Decisions(file) :
               IF act = "keep" THEN Proceed(turn.for, file)
               ELSE /\ turn' = [for |-> turn.for, act |-> act, seen |-> file]
                    /\ UNCHANGED call
          /\ UNCHANGED <<file, fenced>>
  /\ UNCHANGED <<holder, helper, job, serverVars>>

(* A held claim, or a failed write, fails the request visibly.             *)
Contended ==
  /\ turn # None
  /\ turn' = None
  /\ call' = IF turn.for \in {"status", "launch"} THEN None ELSE call
  /\ UNCHANGED <<file, holder, helper, job, fenced, serverVars>>

(* startNpmInstall after the registry answered: a new operation is         *)
(* published and its prepare helper spawned, ...                           *)
Launch(o) ==
  /\ turn # None /\ turn.for = "launch" /\ Free
  /\ helper[o] = "unborn"
  /\ \E v \in Version \ {server} :
       job' = [job EXCEPT ![o].prev = server, ![o].target = v]
  /\ file' = State(o, "installing")
  /\ helper' = [helper EXCEPT ![o] = "prepare"]
  /\ victim' = [victim EXCEPT ![o] = TRUE]
  /\ turn' = None /\ call' = None
  /\ UNCHANGED <<holder, pointer, server, undo, fenced, ran>>

(* ... or there is nothing to install: the state is failed or cleared.     *)
Decline(o) ==
  /\ turn # None /\ turn.for = "launch" /\ Free
  /\ helper[o] = "unborn"
  /\ \/ /\ file' = State(o, "failed")
        /\ job' = [job EXCEPT ![o].prev = server, ![o].target = server]
        /\ helper' = [helper EXCEPT ![o] = "gone"]
        /\ ran' = ran \cup {o}
     \/ file' = None /\ UNCHANGED <<job, helper, ran>>
  /\ turn' = None /\ call' = None
  /\ UNCHANGED <<holder, pointer, server, victim, undo, fenced>>

(* applyPreparedUpdate after its awaits: the prepared operation is         *)
(* published as restarting, and its apply helper gets this server's        *)
(* identity.                                                               *)
Apply ==
  /\ call \in Op /\ turn = None /\ Free
  /\ file' = State(call, "restarting")
  /\ helper' = [helper EXCEPT ![call] = "apply"]
  /\ victim' = [victim EXCEPT ![call] = TRUE]
  /\ undo' = [undo EXCEPT ![call] = None]
  /\ call' = None
  /\ UNCHANGED <<holder, pointer, server, turn, job, fenced, ran>>

(* The registry, the process identity or an image check fails the call.    *)
Abandon ==
  /\ call # None /\ turn = None
  /\ call' = None
  /\ UNCHANGED <<file, holder, turn, helper, job, fenced, serverVars>>

(* The spawned helper did not start: the server takes the phase back,      *)
(* unless it cannot get the claim.                                         *)
SpawnError(o) ==
  /\ turn = None /\ victim[o] /\ helper[o] \in {"prepare", "apply"}
  /\ LET from == IF helper[o] = "prepare" THEN "installing" ELSE "restarting"
         to == IF helper[o] = "prepare" THEN "failed" ELSE "ready-to-restart"
     IN  file' = IF Free /\ Owns(o, {from}) THEN State(o, to) ELSE file
  /\ helper' = [helper EXCEPT ![o] = "gone"]
  /\ UNCHANGED <<holder, job, fenced, serverVars, requestVars>>

-----------------------------------------------------------------------------
(* What helpers do to the state file.                                      *)

Goto(o, step) == helper' = [helper EXCEPT ![o] = step]

(* Variant: publication without the ownership condition.                   *)
WriteAlways(o, phase, next, superseded) ==
  /\ Free
  /\ file' = State(o, phase) /\ Goto(o, next)
  /\ UNCHANGED <<holder, job, serverVars>>

(* writeOperationState: publish while the operation still owns the file,   *)
(* in whatever phase, or notice that it was superseded.                    *)
Write(o, phase, next, superseded) ==
  /\ Free
  /\ IF Owns(o, Phase)
     THEN file' = State(o, phase) /\ Goto(o, next)
     ELSE UNCHANGED file /\ Goto(o, superseded)
  /\ UNCHANGED <<holder, job, serverVars>>

(* runWhileOperationOwned: the claim is held from the ownership check to   *)
(* the end of the effect.                                                  *)
Enter(o, phase, next, superseded) ==
  /\ Free
  /\ IF Owns(o, {phase}) THEN holder' = o /\ Goto(o, next)
     ELSE UNCHANGED holder /\ Goto(o, superseded)
  /\ UNCHANGED <<file, job, serverVars>>

Leave(o, next) == holder' = None /\ Goto(o, next)

(* prepareNpmUpdate: claim the operation, note which image is selected,    *)
(* install, prepare the runtimes, publish the image, report.               *)
Prepare(o) ==
  /\ \/ helper[o] = "prepare" /\ Write(o, "installing", "stage", "gone")
     \/ /\ helper[o] = "stage"
        /\ job' = [job EXCEPT ![o].expected = pointer]
        /\ Goto(o, "mark")
        /\ UNCHANGED <<file, holder, serverVars>>
     \/ helper[o] = "mark" /\ Write(o, "preparing-runtimes", "claim", "gone")
     \/ helper[o] = "claim" /\ Enter(o, "preparing-runtimes", "publish", "gone")
     \/ /\ helper[o] = "publish"
        /\ Leave(o, "ready")
        /\ UNCHANGED <<file, job, serverVars>>
     \/ helper[o] = "ready" /\ Write(o, "ready-to-restart", "gone", "gone")
  /\ UNCHANGED <<requestVars, fenced>>

(* Any other error is reported if the operation still owns the file.  A    *)
(* claim that stays held past the timeout is such an error.                *)
PrepareError(o) ==
  /\ \/ /\ helper[o] \in {"prepare", "stage", "mark", "claim", "publish", "ready"}
        /\ Goto(o, "fail")
        /\ holder' = IF helper[o] = "publish" THEN None ELSE holder
        /\ UNCHANGED <<file, job, serverVars>>
     \/ helper[o] = "fail" /\ Write(o, "failed", "gone", "gone")
  /\ UNCHANGED <<requestVars, fenced>>

-----------------------------------------------------------------------------
(* The server process, as helpers, the user and crashes change it.         *)

(* Whatever replaces the server forgets its requests and is not the one an *)
(* earlier payload names.                                                  *)
ServerBecomes(version) ==
  /\ server' = version
  /\ turn' = None /\ call' = None
  /\ victim' = [o \in Op |-> FALSE]
  /\ ran' = ran \cup {o \in Op : helper[o] # "unborn" /\ job[o].target = version}

SameServer == UNCHANGED <<server, turn, call, victim, ran>>

(* stopProcess: only the server named in the payload is killed; one that   *)
(* is gone already counts as stopped.                                      *)
Stop(o) ==
  /\ helper[o] = "stop"
  /\ Goto(o, "activate")
  /\ IF victim[o] THEN ServerBecomes(None) ELSE SameServer
  /\ UNCHANGED <<file, holder, pointer, job, undo>>

(* The kill was sent, and looking for the end of the server failed: the    *)
(* helper does not know that it has stopped it.                            *)
StopError(o) ==
  /\ helper[o] = "stop" /\ victim[o]
  /\ Leave(o, "caught") /\ ServerBecomes(None)
  /\ UNCHANGED <<file, pointer, job, undo, fenced>>

(* activatePackageImage: compare the pointer with the expected image and   *)
(* replace it; a pointer at the target already is left alone.              *)
Activate(o) ==
  /\ helper[o] = "activate"
  /\ \/ /\ pointer = job[o].expected /\ pointer # job[o].target
        /\ pointer' = job[o].target
        /\ undo' = [undo EXCEPT ![o] = pointer]
        /\ Goto(o, "start") /\ UNCHANGED holder
     \/ /\ pointer = job[o].target
        /\ Goto(o, "start") /\ UNCHANGED <<pointer, undo, holder>>
     \/ /\ pointer \notin {job[o].expected, job[o].target}
        /\ Leave(o, "undo") /\ UNCHANGED <<pointer, undo>>
  /\ SameServer
  /\ UNCHANGED <<file, job>>

(* startServer: the command first stops a server of this Config that runs, *)
(* then starts the image and waits until it is stable; the new server      *)
(* serves requests meanwhile.                                              *)
Start(o, at, version, next) ==
  /\ helper[o] = at
  /\ Goto(o, next)
  /\ ServerBecomes(version)
  /\ UNCHANGED <<file, holder, pointer, job, undo>>

Started(o, at, version, next) ==
  /\ helper[o] = at
  /\ server = version
  /\ Leave(o, next)
  /\ SameServer
  /\ UNCHANGED <<file, pointer, job, undo>>

(* The start failed: its server was cleaned up, or even that failed.       *)
StartFailed(o, at, next) ==
  /\ helper[o] = at
  /\ Leave(o, next)
  /\ SameServer \/ ServerBecomes(None)
  /\ UNCHANGED <<file, pointer, job, undo>>

(* The rollback of the pointer: only while it is still the target.         *)
Restore(o) ==
  /\ helper[o] = "restore"
  /\ Goto(o, "restart")
  /\ \/ undo[o] = None /\ UNCHANGED <<pointer, undo>>
     \/ /\ undo[o] # None /\ pointer = job[o].target
        /\ \/ pointer' = undo[o] /\ undo' = [undo EXCEPT ![o] = None]
           \/ UNCHANGED <<pointer, undo>>
     \/ /\ undo[o] # None /\ pointer # job[o].target
        /\ undo' = [undo EXCEPT ![o] = None] /\ UNCHANGED pointer
  /\ SameServer
  /\ UNCHANGED <<file, holder, job>>

(* applyNpmUpdate: claim, wait, then stop, activate and start in one       *)
(* protected effect, and report; the rollback is a second one.             *)
ApplyCommit(o) ==
  /\ \/ helper[o] = "apply" /\ Write(o, "restarting", "reach", "caught")
     \/ helper[o] = "reach" /\ Enter(o, "restarting", "stop", "caught")
     \/ helper[o] = "report" /\ Write(o, "succeeded", "gone", "gone")
     \/ helper[o] = "undo" /\ Write(o, "rolling-back", "regain", "broken")
     \/ helper[o] = "regain" /\ Enter(o, "rolling-back", "restore", "broken")
     \/ /\ helper[o] = "undone"
        /\ Write(o, IF undo[o] = None THEN "rolled-back" ELSE "failed",
                 "gone", "gone")
     \/ helper[o] = "broken" /\ Write(o, "failed", "gone", "gone")
     \/ helper[o] = "return" /\ Write(o, "ready-to-restart", "gone", "gone")
  /\ UNCHANGED <<requestVars, fenced>>

ApplyEffect(o) ==
  /\ \/ Stop(o) \/ Activate(o) \/ Restore(o)
     \/ Start(o, "start", job[o].target, "starting")
     \/ Started(o, "starting", job[o].target, "report")
     \/ Start(o, "restart", job[o].prev, "restarting")
     \/ Started(o, "restarting", job[o].prev, "undone")
  /\ UNCHANGED fenced

(* Variant: a failed activation is treated as if nothing had been stopped. *)
ApplyErrorUnstopped(o) ==
  /\ \/ /\ helper[o] \in {"apply", "reach", "stop", "activate", "report"}
        /\ Goto(o, "caught")
     \/ /\ helper[o] = "caught"
        /\ Goto(o, "return")
     \/ /\ helper[o] \in {"undo", "regain", "restart", "undone"}
        /\ Goto(o, "broken")
  /\ holder' = IF helper[o] \in {"stop", "activate", "restart"} THEN None ELSE holder
  /\ UNCHANGED <<file, job, serverVars, requestVars, fenced>>

(* An error of the first effect: a helper that has not stopped the server  *)
(* hands the prepared update back, unless the server is gone anyway (or    *)
(* its PID is somebody else's by now); otherwise it rolls back.            *)
ApplyError(o) ==
  /\ \/ /\ helper[o] \in {"apply", "reach", "stop"}
        /\ Goto(o, "caught")
     \/ /\ helper[o] = "caught"
        /\ Goto(o, "return") \/ (~victim[o] /\ Goto(o, "undo"))
     \/ /\ helper[o] \in {"activate", "report"}
        /\ Goto(o, "undo")
     \/ /\ helper[o] \in {"undo", "regain", "restart", "undone"}
        /\ Goto(o, "broken")
  /\ holder' = IF helper[o] \in {"stop", "activate", "restart"} THEN None ELSE holder
  /\ UNCHANGED <<file, job, serverVars, requestVars, fenced>>

StartError(o) ==
  /\ \/ \E at \in {"start", "starting"} : StartFailed(o, at, "undo")
     \/ \E at \in {"restart", "restarting"} : StartFailed(o, at, "broken")
  /\ UNCHANGED fenced

(* The helper dies, or its last report fails; its claim is reclaimed.      *)
Die(o) ==
  /\ helper[o] \notin {"unborn", "gone"}
  /\ Goto(o, "gone")
  /\ holder' = IF holder = o THEN None ELSE holder
  /\ UNCHANGED <<file, job, serverVars, requestVars, fenced>>

(* The server crashes, or the user stops it.                               *)
ServerStops ==
  /\ server # None
  /\ ServerBecomes(None)
  /\ UNCHANGED <<file, holder, pointer, helper, job, undo, fenced>>

(* The user starts the selected image.                                     *)
UserStarts ==
  /\ server = None
  /\ ServerBecomes(pointer)
  /\ UNCHANGED <<file, holder, pointer, helper, job, undo, fenced>>

(* Another Config that shares the installation selects an image.           *)
Reselect ==
  /\ pointer' \in Shared \ {pointer}
  /\ SameServer
  /\ UNCHANGED <<file, holder, helper, job, undo, fenced>>

-----------------------------------------------------------------------------
Request == \/ \E for \in {"check", "start", "status", "apply"} : Observe(for)
           \/ Publish \/ FenceTimedOut \/ Contended \/ Apply \/ Abandon
           \/ \E o \in Op : Launch(o) \/ Decline(o) \/ SpawnError(o)

Helper(o) == Prepare(o) \/ ApplyCommit(o) \/ ApplyEffect(o)

Errors(o) == PrepareError(o) \/ ApplyError(o) \/ StartError(o)

UpdateNext == \/ Request \/ ServerStops \/ UserStarts \/ Reselect
              \/ \E o \in Op : Helper(o) \/ Errors(o) \/ StopError(o) \/ Die(o)

UpdateSpec == UpdateInit /\ [][UpdateNext]_updateVars

-----------------------------------------------------------------------------
(* A helper stops the server, moves the pointer or starts an image only    *)
(* while the state file still says that its own operation is restarting or *)
(* rolling back: no timeout, clear or newer operation slips in between its *)
(* check and the effect.                                                   *)
EffectsAreOwned ==
  \A o \in Op :
    /\ helper[o] \in Protected => holder = o /\ Owns(o, {"restarting"})
    /\ helper[o] \in Undoing => holder = o /\ Owns(o, {"rolling-back"})
    /\ helper[o] \in Published => holder = o /\ Owns(o, {"preparing-runtimes"})

(* An operation that the server timed out never owns the state file again, *)
(* whatever its helpers were doing at that moment.                         *)
FencedStaysFenced ==
  file # None /\ ~file.timedOut => file.op \notin fenced

(* Success is reported only for an operation whose target version has been *)
(* running since the operation was launched.                               *)
SucceededHasRun ==
  file # None /\ file.phase = "succeeded" => file.op \in ran

(* An apply helper is spawned only after the operation's earlier helper    *)
(* has finished: no two helpers work for one operation.                    *)
OneHelper ==
  [][\A o \in Op : helper'[o] = "apply" /\ helper[o] # "apply"
                     => helper[o] = "gone"]_updateVars

-----------------------------------------------------------------------------
(* Liveness, when helpers do not die, nobody else stops the server, and a  *)
(* helper that has killed it sees it end.                                  *)

AttendedNext == \/ Request \/ UserStarts \/ Reselect
                \/ \E o \in Op : Helper(o) \/ Errors(o)

(* A helper process runs on its own and every wait in it is bounded.       *)
AttendedFairness == \A o \in Op : WF_updateVars(Helper(o) \/ Errors(o))
AttendedSpec == UpdateInit /\ [][AttendedNext]_updateVars /\ AttendedFairness

(* A helper that stopped the server brings a server back, the target's or  *)
(* the previous one, or it records the failure.                            *)
ServerComesBack == server = None ~> (server # None \/ PhaseOf(file) = "failed")

=============================================================================
