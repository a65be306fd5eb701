----------------------- MODULE UpdateOperation_proofs -----------------------
(***************************************************************************)
(* Proofs about UpdateOperation, for any set of operations and versions.   *)
(***************************************************************************)
EXTENDS UpdateOperation, TLAPS

Current(state) == state # None /\ ~state.timedOut

(* Nothing refers to an operation that has not been launched.              *)
Launched ==
  /\ file # None => helper[file.op] # "unborn"
  /\ turn # None /\ turn.seen # None => helper[turn.seen.op] # "unborn"
  /\ \A o \in fenced : helper[o] # "unborn"

(* Timed-out records are final, and neither the file nor what a request    *)
(* read of it names a fenced operation as current.                         *)
Fences ==
  /\ file # None /\ file.timedOut => file.phase = "failed"
  /\ FencedStaysFenced
  /\ turn # None =>
       /\ Current(turn.seen) => turn.seen.op \notin fenced
       /\ turn.seen # None /\ turn.seen.timedOut => turn.seen.phase = "failed"

(* A prepared operation has no helper at work.                             *)
Prepared == Current(file) /\ file.phase = "ready-to-restart"
              => helper[file.op] = "gone"

(* While an apply awaits, its operation stays as it was read: nobody works *)
(* for it, nobody fences it, and no request is about to publish for it.    *)
Awaited ==
  call \in Op =>
    /\ helper[call] = "gone"
    /\ call \notin fenced
    /\ Current(file) /\ file.op = call => file.phase = "ready-to-restart"
    /\ turn # None /\ turn.act \in {"succeeded", "rolled-back", "fence"}
         => turn.seen.op # call

(* A decision about to be published is a running server's, and says this   *)
(* of the state it is based on.                                            *)
Decided ==
  turn # None =>
    /\ server # None
    /\ turn.act = "succeeded" => /\ turn.seen # None
                                 /\ turn.seen.phase = "restarting"
                                 /\ turn.seen.op \in ran
    /\ turn.act = "rolled-back" => /\ turn.seen # None
                                   /\ turn.seen.phase = "rolling-back"
    /\ turn.act = "fence" => /\ turn.seen # None
                             /\ turn.seen.phase \in Preparing \cup {"restarting", "rolling-back"}

(* A version that runs, or that a helper saw start, has run.               *)
HasRun ==
  /\ \A o \in Op : helper[o] # "unborn" /\ job[o].target = server => o \in ran
  /\ \A o \in Op : helper[o] \in {"starting", "report"} => o \in ran

UInv == /\ UpdateTypeOK /\ EffectsAreOwned /\ Launched /\ Fences /\ Prepared
        /\ Awaited /\ Decided /\ HasRun /\ SucceededHasRun

-----------------------------------------------------------------------------
(* What one step of a helper, whichever it is, may do.                     *)

AtEffect == Published \cup Protected \cup Undoing

(* The phase in which a helper at an effect owns the state file.           *)
OwnsAt(o, step) ==
  /\ step \in Protected => Owns(o, {"restarting"})
  /\ step \in Undoing => Owns(o, {"rolling-back"})
  /\ step \in Published => Owns(o, {"preparing-runtimes"})

(* It publishes a state of its operation if that still owns the file and   *)
(* the claim is free, or it leaves the file alone.                         *)
FileMove(o, step) ==
  \/ file' = file
  \/ /\ Free /\ Owns(o, Phase) /\ step \notin AtEffect
     /\ \E phase \in Phase :
          /\ file' = State(o, phase)
          /\ phase = "ready-to-restart" => step = "gone"
          /\ phase = "succeeded" => helper[o] = "report"

(* It takes the claim when it is free and gives back only its own.         *)
ClaimMove(o, step) ==
  /\ holder' \in {holder, o, None}
  /\ holder' = o => holder \in {o, None}
  /\ holder' = None => holder \in {o, None}
  /\ step \in AtEffect => holder' = o /\ file' = file /\ OwnsAt(o, step)

(* It replaces the server, whose requests are then forgotten, or not.      *)
ServerMove(o) ==
  /\ \/ server' = server /\ turn' = turn /\ call' = call
     \/ turn' = None /\ call' = None
  /\ server' \in Version \cup {None}
  /\ ran' \in SUBSET Op /\ ran \subseteq ran'
  /\ \A q \in Op :
       server' # server /\ helper[q] # "unborn" /\ job[q].target = server'
         => q \in ran'

Move(o, step) ==
  /\ helper[o] \notin {"unborn", "gone"}
  /\ step \in HelperStep \ {"unborn", "apply"}
  /\ helper' = [helper EXCEPT ![o] = step]
  /\ step = "starting" => o \in ran'
  /\ step = "report" => helper[o] = "starting"
  /\ fenced' = fenced
  /\ FileMove(o, step) /\ ClaimMove(o, step) /\ ServerMove(o)
  /\ pointer' \in Version /\ victim' \in [Op -> BOOLEAN]
  /\ undo' \in [Op -> Version \cup {None}]
  /\ job' \in [Op -> Job] /\ \A q \in Op : job'[q].target = job[q].target

(* A step that leaves the server alone.                                    *)
LEMMA Elsewhere ==
  ASSUME UpdateTypeOK, NEW o \in Op, UNCHANGED serverVars, turn' = turn, call' = call
  PROVE  ServerMove(o) /\ pointer' \in Version /\ victim' \in [Op -> BOOLEAN]
           /\ undo' \in [Op -> Version \cup {None}] /\ ran' = ran
BY DEF UpdateTypeOK, serverVars, ServerMove

LEMMA EffectSteps ==
  /\ AtEffect = {"publish", "stop", "activate", "start", "starting",
                 "restore", "restart", "restarting"}
  /\ AtEffect \subseteq HelperStep
BY DEF AtEffect, Published, Protected, Undoing, HelperStep

LEMMA StateIsRecord ==
  \A o \in Op, phase \in Phase : State(o, phase) \in Record
BY DEF State, Record

(* The building blocks of the helpers.                                     *)
LEMMA WriteMoves ==
  ASSUME UpdateTypeOK, NEW o \in Op, NEW phase \in Phase,
         NEW next \in HelperStep \ (AtEffect \cup {"unborn", "apply", "report"}),
         NEW superseded \in HelperStep \ (AtEffect \cup {"unborn", "apply", "report"}),
         helper[o] \notin {"unborn", "gone"},
         phase = "ready-to-restart" => next = "gone",
         phase = "succeeded" => helper[o] = "report",
         Write(o, phase, next, superseded), UNCHANGED <<requestVars, fenced>>
  PROVE  \E step \in HelperStep : Move(o, step)
<1>1. /\ UNCHANGED serverVars /\ turn' = turn /\ call' = call /\ fenced' = fenced
      /\ job' = job /\ holder' = holder /\ Free
  BY DEF Write, requestVars
<1>2. /\ ServerMove(o) /\ pointer' \in Version /\ victim' \in [Op -> BOOLEAN]
      /\ undo' \in [Op -> Version \cup {None}] /\ ran' = ran
  BY <1>1, Elsewhere
<1>3. job' \in [Op -> Job] /\ \A q \in Op : job'[q].target = job[q].target
  BY <1>1 DEF UpdateTypeOK
<1>4. ASSUME NEW step \in {next, superseded}  PROVE  ClaimMove(o, step)
  BY <1>1, NoneAssumption DEF ClaimMove, Free, UpdateTypeOK
<1>5. CASE Owns(o, Phase)
  <2>1. file' = State(o, phase) /\ helper' = [helper EXCEPT ![o] = next]
    BY <1>5 DEF Write, Goto
  <2>2. FileMove(o, next)
    BY <1>1, <1>5, <2>1 DEF FileMove
  <2> QED  BY <1>1, <1>2, <1>3, <1>4, <2>1, <2>2, EffectSteps DEF Move
<1>6. CASE ~Owns(o, Phase)
  <2>1. file' = file /\ helper' = [helper EXCEPT ![o] = superseded]
    BY <1>6 DEF Write, Goto
  <2>2. FileMove(o, superseded)
    BY <2>1 DEF FileMove
  <2> QED  BY <1>1, <1>2, <1>3, <1>4, <2>1, <2>2, EffectSteps DEF Move
<1> QED  BY <1>5, <1>6

LEMMA EnterMoves ==
  ASSUME UpdateTypeOK, NEW o \in Op, NEW phase, NEW next \in AtEffect \ {"starting"},
         NEW superseded \in HelperStep \ (AtEffect \cup {"unborn", "apply", "report"}),
         helper[o] \notin {"unborn", "gone"},
         Owns(o, {phase}) => OwnsAt(o, next),
         Enter(o, phase, next, superseded), UNCHANGED <<requestVars, fenced>>
  PROVE  \E step \in HelperStep : Move(o, step)
<1>1. /\ UNCHANGED serverVars /\ turn' = turn /\ call' = call /\ fenced' = fenced
      /\ job' = job /\ file' = file /\ Free
  BY DEF Enter, requestVars
<1>2. /\ ServerMove(o) /\ pointer' \in Version /\ victim' \in [Op -> BOOLEAN]
      /\ undo' \in [Op -> Version \cup {None}] /\ ran' = ran
  BY <1>1, Elsewhere
<1>3. job' \in [Op -> Job] /\ \A q \in Op : job'[q].target = job[q].target
  BY <1>1 DEF UpdateTypeOK
<1>4. \A step : FileMove(o, step)
  BY <1>1 DEF FileMove
<1>5. CASE Owns(o, {phase})
  <2>1. holder' = o /\ helper' = [helper EXCEPT ![o] = next]
    BY <1>5 DEF Enter, Goto
  <2>2. ClaimMove(o, next)
    BY <1>1, <1>5, <2>1, NoneAssumption DEF ClaimMove, Free
  <2> QED  BY <1>1, <1>2, <1>3, <1>4, <2>1, <2>2, EffectSteps DEF Move
<1>6. CASE ~Owns(o, {phase})
  <2>1. holder' = holder /\ helper' = [helper EXCEPT ![o] = superseded]
    BY <1>6 DEF Enter, Goto
  <2>2. ClaimMove(o, superseded)
    BY <1>1, <2>1, NoneAssumption DEF ClaimMove, Free
  <2> QED  BY <1>1, <1>2, <1>3, <1>4, <2>1, <2>2, EffectSteps DEF Move
<1> QED  BY <1>5, <1>6

(* A step that gives the claim back, or keeps what it has, and does not    *)
(* touch the state file.                                                   *)
LEMMA PlainMove ==
  ASSUME UpdateTypeOK, NEW o \in Op,
         NEW step \in HelperStep \ {"unborn", "apply", "starting", "report"},
         helper[o] \notin {"unborn", "gone"},
         helper' = [helper EXCEPT ![o] = step],
         step \in AtEffect => holder' = o /\ OwnsAt(o, step),
         holder' = holder \/ (holder \in {o, None} /\ holder' = None),
         file' = file, fenced' = fenced, ServerMove(o),
         pointer' \in Version, victim' \in [Op -> BOOLEAN],
         undo' \in [Op -> Version \cup {None}],
         job' \in [Op -> Job], \A q \in Op : job'[q].target = job[q].target
  PROVE  Move(o, step)
<1>1. ClaimMove(o, step)
  BY NoneAssumption DEF ClaimMove, UpdateTypeOK
<1> QED  BY <1>1 DEF Move, FileMove

LEMMA Replaced ==
  ASSUME UpdateTypeOK, NEW version \in Version \cup {None}, ServerBecomes(version),
         NEW o \in Op
  PROVE  /\ ServerMove(o) /\ victim' \in [Op -> BOOLEAN]
         /\ helper[o] # "unborn" /\ job[o].target = version => o \in ran'
BY DEF UpdateTypeOK, ServerBecomes, ServerMove

-----------------------------------------------------------------------------
(* Every step of a helper is such a move.                                  *)
LEMMA PrepareMoves ==
  ASSUME UpdateTypeOK, EffectsAreOwned, NEW o \in Op, Prepare(o) \/ PrepareError(o)
  PROVE  \E step \in HelperStep : Move(o, step)
<1> USE EffectSteps
<1>1. CASE helper[o] = "prepare" /\ Write(o, "installing", "stage", "gone")
           /\ UNCHANGED <<requestVars, fenced>>
  BY <1>1, WriteMoves DEF HelperStep, Phase, Preparing
<1>2. CASE /\ helper[o] = "stage"
           /\ job' = [job EXCEPT ![o].expected = pointer]
           /\ Goto(o, "mark")
           /\ UNCHANGED <<file, holder, serverVars>>
           /\ UNCHANGED <<requestVars, fenced>>
  <2>1. turn' = turn /\ call' = call
    BY <1>2 DEF requestVars
  <2>2. /\ ServerMove(o) /\ pointer' \in Version /\ victim' \in [Op -> BOOLEAN]
        /\ undo' \in [Op -> Version \cup {None}]
    BY <1>2, <2>1, Elsewhere
  <2>3. job' \in [Op -> Job] /\ \A q \in Op : job'[q].target = job[q].target
    BY <1>2 DEF UpdateTypeOK, Job
  <2>4. Move(o, "mark")
    BY <1>2, <2>2, <2>3, PlainMove DEF Goto, HelperStep
  <2> QED  BY <2>4 DEF HelperStep
<1>3. CASE helper[o] = "mark" /\ Write(o, "preparing-runtimes", "claim", "gone")
           /\ UNCHANGED <<requestVars, fenced>>
  BY <1>3, WriteMoves DEF HelperStep, Phase, Preparing
<1>4. CASE helper[o] = "claim" /\ Enter(o, "preparing-runtimes", "publish", "gone")
           /\ UNCHANGED <<requestVars, fenced>>
  <2>1. Owns(o, {"preparing-runtimes"}) => OwnsAt(o, "publish")
    BY DEF OwnsAt, Protected, Undoing, Published
  <2> QED  BY <1>4, <2>1, EnterMoves DEF HelperStep
<1>5. CASE helper[o] = "ready" /\ Write(o, "ready-to-restart", "gone", "gone")
           /\ UNCHANGED <<requestVars, fenced>>
  BY <1>5, WriteMoves DEF HelperStep, Phase
<1>6. CASE helper[o] = "fail" /\ Write(o, "failed", "gone", "gone")
           /\ UNCHANGED <<requestVars, fenced>>
  BY <1>6, WriteMoves DEF HelperStep, Phase, Terminal
<1>7. CASE /\ \/ helper[o] = "publish" /\ Leave(o, "ready")
                 /\ UNCHANGED <<file, job, serverVars>>
              \/ /\ helper[o] \in {"prepare", "stage", "mark", "claim",
                                   "publish", "ready"}
                 /\ Goto(o, "fail")
                 /\ holder' = IF helper[o] = "publish" THEN None ELSE holder
                 /\ UNCHANGED <<file, job, serverVars>>
           /\ UNCHANGED <<requestVars, fenced>>
  <2>1. turn' = turn /\ call' = call /\ fenced' = fenced
    BY <1>7 DEF requestVars
  <2>2. file' = file /\ job' = job /\ UNCHANGED serverVars
    BY <1>7
  <2>3. /\ ServerMove(o) /\ pointer' \in Version /\ victim' \in [Op -> BOOLEAN]
        /\ undo' \in [Op -> Version \cup {None}]
    BY <2>1, <2>2, Elsewhere
  <2>4. job' \in [Op -> Job] /\ \A q \in Op : job'[q].target = job[q].target
    BY <2>2 DEF UpdateTypeOK
  <2>5. helper[o] = "publish" => holder = o
    BY DEF EffectsAreOwned, Published
  <2>6. PICK step \in {"ready", "fail"} :
          /\ helper' = [helper EXCEPT ![o] = step]
          /\ holder' = holder \/ (holder = o /\ holder' = None)
    BY <1>7, <2>5 DEF Goto, Leave
  <2>7. Move(o, step)
    BY <1>7, <2>1, <2>2, <2>3, <2>4, <2>6, PlainMove, ZenonT(60) DEF HelperStep
  <2> QED  BY <2>7 DEF HelperStep
<1> QED  BY <1>1, <1>2, <1>3, <1>4, <1>5, <1>6, <1>7 DEF Prepare, PrepareError

LEMMA ApplyCommitMoves ==
  ASSUME UpdateTypeOK, NEW o \in Op, ApplyCommit(o)
  PROVE  \E step \in HelperStep : Move(o, step)
<1> USE EffectSteps
<1>1. UNCHANGED <<requestVars, fenced>>
  BY DEF ApplyCommit
<1>2. CASE helper[o] = "apply" /\ Write(o, "restarting", "reach", "caught")
  BY <1>1, <1>2, WriteMoves DEF HelperStep, Phase
<1>3. CASE helper[o] = "reach" /\ Enter(o, "restarting", "stop", "caught")
  <2>1. Owns(o, {"restarting"}) => OwnsAt(o, "stop")
    BY DEF OwnsAt, Protected, Undoing, Published
  <2> QED  BY <1>1, <1>3, <2>1, EnterMoves DEF HelperStep
<1>4. CASE helper[o] = "report" /\ Write(o, "succeeded", "gone", "gone")
  BY <1>1, <1>4, WriteMoves DEF HelperStep, Phase, Terminal
<1>5. CASE helper[o] = "undo" /\ Write(o, "rolling-back", "regain", "broken")
  BY <1>1, <1>5, WriteMoves DEF HelperStep, Phase
<1>6. CASE helper[o] = "regain" /\ Enter(o, "rolling-back", "restore", "broken")
  <2>1. Owns(o, {"rolling-back"}) => OwnsAt(o, "restore")
    BY DEF OwnsAt, Protected, Undoing, Published
  <2> QED  BY <1>1, <1>6, <2>1, EnterMoves DEF HelperStep
<1>7. CASE /\ helper[o] = "undone"
           /\ Write(o, IF undo[o] = None THEN "rolled-back" ELSE "failed",
                    "gone", "gone")
  <2>1. PICK phase \in {"rolled-back", "failed"} : Write(o, phase, "gone", "gone")
    BY <1>7
  <2> QED  BY <1>1, <1>7, <2>1, WriteMoves DEF HelperStep, Phase, Terminal
<1>8. CASE helper[o] = "broken" /\ Write(o, "failed", "gone", "gone")
  BY <1>1, <1>8, WriteMoves DEF HelperStep, Phase, Terminal
<1>9. CASE helper[o] = "return" /\ Write(o, "ready-to-restart", "gone", "gone")
  BY <1>1, <1>9, WriteMoves DEF HelperStep, Phase
<1> QED
  BY <1>2, <1>3, <1>4, <1>5, <1>6, <1>7, <1>8, <1>9 DEF ApplyCommit

(* A step inside a protected effect has the claim and the ownership that   *)
(* the effect was entered with.                                            *)
LEMMA EffectMoves ==
  ASSUME UInv, NEW o \in Op, ApplyEffect(o)
  PROVE  \E step \in HelperStep : Move(o, step)
<1> USE EffectSteps
<1>1. UpdateTypeOK /\ EffectsAreOwned /\ fenced' = fenced
  BY DEF UInv, ApplyEffect
<1>2. /\ helper[o] \in Protected => holder = o /\ Owns(o, {"restarting"})
      /\ helper[o] \in Undoing => holder = o /\ Owns(o, {"rolling-back"})
  BY <1>1 DEF EffectsAreOwned
<1>3. /\ \A step \in Protected : Owns(o, {"restarting"}) => OwnsAt(o, step)
      /\ \A step \in Undoing : Owns(o, {"rolling-back"}) => OwnsAt(o, step)
  BY DEF OwnsAt, Protected, Undoing, Published
<1>4. ASSUME SameServer  PROVE  /\ ServerMove(o) /\ victim' \in [Op -> BOOLEAN]
                                /\ ran' = ran /\ server' = server
  BY <1>1, <1>4 DEF SameServer, ServerMove, UpdateTypeOK
<1>5. ASSUME job' = job
      PROVE  job' \in [Op -> Job] /\ \A q \in Op : job'[q].target = job[q].target
  BY <1>1, <1>5 DEF UpdateTypeOK
<1>6. job[o].target \in Version /\ job[o].prev \in Version /\ pointer \in Version
      /\ undo \in [Op -> Version \cup {None}]
  BY <1>1 DEF UpdateTypeOK, Job
<1>7. CASE Stop(o)
  <2>1. /\ helper[o] = "stop" /\ helper' = [helper EXCEPT ![o] = "activate"]
        /\ file' = file /\ holder' = holder /\ pointer' = pointer
        /\ job' = job /\ undo' = undo
    BY <1>7 DEF Stop, Goto
  <2>2. ServerMove(o) /\ victim' \in [Op -> BOOLEAN]
    BY <1>1, <1>4, <1>7, Replaced DEF Stop
  <2>3. holder' = o /\ OwnsAt(o, "activate")
    BY <1>2, <1>3, <2>1 DEF Protected
  <2>4. Move(o, "activate")
    BY <1>1, <1>5, <1>6, <2>1, <2>2, <2>3, PlainMove
  <2> QED  BY <2>4
<1>8. CASE Activate(o)
  <2>1. /\ helper[o] = "activate" /\ file' = file /\ job' = job
        /\ ServerMove(o) /\ victim' \in [Op -> BOOLEAN]
    BY <1>4, <1>8 DEF Activate
  <2>2. pointer' \in Version /\ undo' \in [Op -> Version \cup {None}]
    BY <1>6, <1>8 DEF Activate
  <2>3. holder = o /\ OwnsAt(o, "start")
    BY <1>2, <1>3, <2>1 DEF Protected
  <2>4. PICK step \in {"start", "undo"} :
          /\ helper' = [helper EXCEPT ![o] = step]
          /\ holder' = IF step = "start" THEN o ELSE None
    BY <1>8, <2>3 DEF Activate, Goto, Leave
  <2>5. Move(o, step)
    BY <1>1, <1>5, <2>1, <2>2, <2>3, <2>4, PlainMove DEF HelperStep
  <2> QED  BY <2>5 DEF HelperStep
<1>9. CASE Restore(o)
  <2>1. /\ helper[o] = "restore" /\ helper' = [helper EXCEPT ![o] = "restart"]
        /\ file' = file /\ holder' = holder /\ job' = job
        /\ ServerMove(o) /\ victim' \in [Op -> BOOLEAN]
    BY <1>4, <1>9 DEF Restore, Goto
  <2>2. pointer' \in Version /\ undo' \in [Op -> Version \cup {None}]
    BY <1>6, <1>9 DEF Restore
  <2>3. holder' = o /\ OwnsAt(o, "restart")
    BY <1>2, <1>3, <2>1 DEF Undoing
  <2>4. Move(o, "restart")
    BY <1>1, <1>5, <2>1, <2>2, <2>3, PlainMove
  <2> QED  BY <2>4
<1>10. ASSUME NEW at, NEW version \in Version, NEW step, Start(o, at, version, step)
       PROVE  /\ helper[o] = at /\ helper' = [helper EXCEPT ![o] = step]
              /\ file' = file /\ holder' = holder /\ pointer' \in Version
              /\ job' = job /\ undo' \in [Op -> Version \cup {None}]
              /\ ServerMove(o) /\ victim' \in [Op -> BOOLEAN]
              /\ helper[o] # "unborn" /\ job[o].target = version => o \in ran'
  BY <1>1, <1>6, <1>10, Replaced DEF Start, Goto
<1>11. ASSUME NEW at, NEW version, NEW step, Started(o, at, version, step)
       PROVE  /\ helper[o] = at /\ helper' = [helper EXCEPT ![o] = step]
              /\ file' = file /\ holder' = None /\ pointer' \in Version
              /\ job' = job /\ undo' \in [Op -> Version \cup {None}]
              /\ ServerMove(o) /\ victim' \in [Op -> BOOLEAN]
  BY <1>4, <1>6, <1>11 DEF Started, Leave, Goto
<1>12. CASE Start(o, "start", job[o].target, "starting")
  <2>1. helper[o] = "start" /\ holder = o /\ OwnsAt(o, "starting")
    BY <1>2, <1>3, <1>6, <1>10, <1>12 DEF Protected
  <2>2. ClaimMove(o, "starting") /\ FileMove(o, "starting")
    BY <1>6, <1>10, <1>12, <2>1 DEF ClaimMove, FileMove
  <2>3. Move(o, "starting")
    BY <1>1, <1>5, <1>6, <1>10, <1>12, <2>1, <2>2 DEF Move
  <2> QED  BY <2>3
<1>13. CASE Started(o, "starting", job[o].target, "report")
  <2>1. helper[o] = "starting" /\ holder = o
    BY <1>2, <1>11, <1>13 DEF Protected
  <2>2. ClaimMove(o, "report") /\ FileMove(o, "report")
    BY <1>11, <1>13, <2>1, NoneAssumption DEF ClaimMove, FileMove
  <2>3. Move(o, "report")
    BY <1>1, <1>5, <1>11, <1>13, <2>1, <2>2 DEF Move, HelperStep
  <2> QED  BY <2>3 DEF HelperStep
<1>14. CASE Start(o, "restart", job[o].prev, "restarting")
  <2>1. helper[o] = "restart" /\ holder = o /\ OwnsAt(o, "restarting")
    BY <1>2, <1>3, <1>6, <1>10, <1>14 DEF Undoing
  <2>2. Move(o, "restarting")
    BY <1>1, <1>5, <1>6, <1>10, <1>14, <2>1, PlainMove
  <2> QED  BY <2>2
<1>15. CASE Started(o, "restarting", job[o].prev, "undone")
  <2>1. helper[o] = "restarting" /\ holder = o
    BY <1>2, <1>11, <1>15 DEF Undoing
  <2>2. Move(o, "undone")
    BY <1>1, <1>5, <1>11, <1>15, <2>1, PlainMove DEF HelperStep
  <2> QED  BY <2>2 DEF HelperStep
<1> QED
  BY <1>7, <1>8, <1>9, <1>12, <1>13, <1>14, <1>15 DEF ApplyEffect

LEMMA ErrorMoves ==
  ASSUME UInv, NEW o \in Op, ApplyError(o) \/ StartError(o) \/ StopError(o) \/ Die(o)
  PROVE  \E step \in HelperStep : Move(o, step)
<1> USE EffectSteps
<1>1. UpdateTypeOK /\ EffectsAreOwned
  BY DEF UInv
<1>2. helper[o] \in Protected \cup Undoing => holder = o
  BY <1>1 DEF EffectsAreOwned
<1>3. ASSUME job' = job
      PROVE  job' \in [Op -> Job] /\ \A q \in Op : job'[q].target = job[q].target
  BY <1>1, <1>3 DEF UpdateTypeOK
<1>4. CASE ApplyError(o) \/ Die(o)
  <2>1. /\ turn' = turn /\ call' = call /\ fenced' = fenced
        /\ file' = file /\ job' = job /\ UNCHANGED serverVars
    BY <1>4 DEF ApplyError, Die, requestVars
  <2>2. /\ ServerMove(o) /\ pointer' \in Version /\ victim' \in [Op -> BOOLEAN]
        /\ undo' \in [Op -> Version \cup {None}]
    BY <1>1, <2>1, Elsewhere
  <2>3. holder' = holder \/ (holder \in {o, None} /\ holder' = None)
    BY <1>2, <1>4 DEF ApplyError, Die, Protected, Undoing
  <2>4. PICK step \in {"caught", "return", "undo", "broken", "gone"} :
          helper' = [helper EXCEPT ![o] = step]
    BY <1>4 DEF ApplyError, Die, Goto
  <2>5. helper[o] \notin {"unborn", "gone"}
    BY <1>4 DEF ApplyError, Die
  <2>6. Move(o, step)
    BY <1>1, <1>3, <2>1, <2>2, <2>3, <2>4, <2>5, PlainMove DEF HelperStep
  <2> QED  BY <2>6 DEF HelperStep
<1>5. CASE StartError(o)
  <2>1. PICK at \in {"start", "starting", "restart", "restarting"},
             step \in {"undo", "broken"} : StartFailed(o, at, step)
    BY <1>5 DEF StartError
  <2>2. /\ helper[o] = at /\ helper' = [helper EXCEPT ![o] = step]
        /\ holder' = None /\ file' = file /\ job' = job /\ fenced' = fenced
        /\ pointer' = pointer /\ undo' = undo
    BY <1>5, <2>1 DEF StartFailed, StartError, Leave, Goto
  <2>3. holder = o
    BY <1>2, <2>2 DEF Protected, Undoing
  <2>4. ServerMove(o) /\ victim' \in [Op -> BOOLEAN]
    <3>1. CASE SameServer
      BY <1>1, <3>1 DEF SameServer, ServerMove, UpdateTypeOK
    <3>2. CASE ServerBecomes(None)
      BY <1>1, <3>2, Replaced
    <3> QED  BY <2>1, <3>1, <3>2 DEF StartFailed
  <2>5. pointer' \in Version /\ undo' \in [Op -> Version \cup {None}]
    BY <1>1, <2>2 DEF UpdateTypeOK
  <2>6. Move(o, step)
    BY <1>1, <1>3, <2>2, <2>3, <2>4, <2>5, PlainMove DEF HelperStep
  <2> QED  BY <2>6 DEF HelperStep
<1>6. CASE StopError(o)
  <2>1. /\ helper[o] = "stop" /\ helper' = [helper EXCEPT ![o] = "caught"]
        /\ holder' = None /\ file' = file /\ job' = job /\ fenced' = fenced
        /\ pointer' = pointer /\ undo' = undo
    BY <1>6 DEF StopError, Leave, Goto
  <2>2. holder = o
    BY <1>2, <2>1 DEF Protected
  <2>3. ServerMove(o) /\ victim' \in [Op -> BOOLEAN]
    BY <1>1, <1>6, Replaced DEF StopError
  <2>4. pointer' \in Version /\ undo' \in [Op -> Version \cup {None}]
    BY <1>1, <2>1 DEF UpdateTypeOK
  <2>5. Move(o, "caught")
    BY <1>1, <1>3, <2>1, <2>2, <2>3, <2>4, PlainMove DEF HelperStep
  <2> QED  BY <2>5 DEF HelperStep
<1> QED  BY <1>4, <1>5, <1>6

LEMMA HelperMoves ==
  ASSUME UInv, NEW o \in Op, Helper(o) \/ Errors(o) \/ StopError(o) \/ Die(o)
  PROVE  \E step \in HelperStep : Move(o, step)
BY PrepareMoves, ApplyCommitMoves, EffectMoves, ErrorMoves DEF Helper, Errors, UInv

-----------------------------------------------------------------------------
(* A helper's move keeps the invariant.                                    *)
LEMMA MoveKeeps ==
  ASSUME UInv, NEW o \in Op, NEW step \in HelperStep, Move(o, step)
  PROVE  UInv'
<1>1. /\ UpdateTypeOK /\ helper[o] \notin {"unborn", "gone"} /\ step # "unborn"
      /\ helper' = [helper EXCEPT ![o] = step] /\ fenced' = fenced
      /\ FileMove(o, step) /\ ClaimMove(o, step) /\ ServerMove(o)
      /\ job' \in [Op -> Job] /\ \A q \in Op : job'[q].target = job[q].target
  BY DEF UInv, Move
<1>2. /\ helper'[o] = step
      /\ \A q \in Op \ {o} : helper'[q] = helper[q]
      /\ \A q \in Op : helper[q] # "unborn" => helper'[q] # "unborn"
      /\ \A q \in Op : helper'[q] # "unborn" => helper[q] # "unborn"
  BY <1>1 DEF UpdateTypeOK
<1>3. /\ turn' = turn \/ turn' = None
      /\ call' = call \/ call' = None
      /\ ran \subseteq ran' /\ ran' \in SUBSET Op
      /\ server' \in Version \cup {None}
  BY <1>1 DEF ServerMove
<1>4. \/ file' = file
      \/ /\ Free /\ Owns(o, Phase) /\ step \notin AtEffect
         /\ \E phase \in Phase :
              /\ file' = State(o, phase)
              /\ phase = "ready-to-restart" => step = "gone"
              /\ phase = "succeeded" => helper[o] = "report"
  BY <1>1 DEF FileMove
<1>5. file' \in Record \cup {None}
  <2>1. file \in Record \cup {None}
    BY <1>1 DEF UpdateTypeOK
  <2> QED  BY <1>4, <2>1, StateIsRecord
<1>6. UpdateTypeOK'
  <2>1. holder' \in Op \cup {None}
    BY <1>1 DEF UpdateTypeOK, ClaimMove
  <2>2. turn' \in ServerTurn \cup {None} /\ call' \in Op \cup {None, "start"}
    BY <1>1, <1>3 DEF UpdateTypeOK
  <2>3. helper' \in [Op -> HelperStep] /\ fenced' \in SUBSET Op
    BY <1>1 DEF UpdateTypeOK
  <2>4. /\ pointer' \in Version /\ victim' \in [Op -> BOOLEAN]
        /\ undo' \in [Op -> Version \cup {None}]
    BY DEF Move
  <2> QED  BY <1>1, <1>3, <1>5, <2>1, <2>2, <2>3, <2>4 DEF UpdateTypeOK
<1>7. EffectsAreOwned'
  <2> SUFFICES ASSUME NEW q \in Op, helper'[q] \in AtEffect
               PROVE  holder' = q /\ file' = file /\ OwnsAt(q, helper'[q])
    BY DEF EffectsAreOwned, AtEffect, OwnsAt, Owns
  <2>1. CASE q = o
    BY <1>1, <1>2, <2>1 DEF ClaimMove
  <2>2. CASE q # o
    <3>1. helper'[q] = helper[q] /\ holder = q /\ OwnsAt(q, helper[q])
      BY <1>2, <2>2 DEF UInv, EffectsAreOwned, OwnsAt, AtEffect,
                        Published, Protected, Undoing
    <3>2. file' = file
      BY <1>4, <3>1, NoneAssumption DEF Free
    <3>3. holder' = q
      BY <1>1, <2>2, <3>1, NoneAssumption DEF ClaimMove
    <3> QED  BY <3>1, <3>2, <3>3
  <2> QED  BY <2>1, <2>2
<1>8. Launched'
  BY <1>1, <1>2, <1>3, <1>4, NoneAssumption DEF UInv, Launched, State, UpdateTypeOK, ServerTurn, Record
<1>9. Fences'
  <2>1. file' # file => file'.op = o /\ ~file'.timedOut /\ o \notin fenced
    BY <1>4 DEF UInv, Fences, FencedStaysFenced, State, Owns
  <2>2. FencedStaysFenced' /\ (file' # None /\ file'.timedOut => file'.phase = "failed")
    BY <1>1, <2>1 DEF UInv, Fences, FencedStaysFenced
  <2> QED  BY <1>1, <1>3, <2>2 DEF UInv, Fences, Current
<1>10. Prepared'
  <2>1. CASE file' = file
    BY <1>1, <1>2, <2>1 DEF UInv, Prepared, Current, UpdateTypeOK, Record
  <2>2. CASE file' # file
    BY <1>2, <1>4, <2>2 DEF Prepared, State
  <2> QED  BY <2>1, <2>2
<1>11. Awaited'
  <2> SUFFICES ASSUME call' \in Op
               PROVE  /\ helper'[call] = "gone" /\ call \notin fenced
                      /\ Current(file') /\ file'.op = call
                           => file'.phase = "ready-to-restart"
                      /\ turn # None /\ turn.act \in {"succeeded", "rolled-back", "fence"}
                           => turn.seen.op # call
                      /\ call' = call
    BY <1>1, <1>3 DEF Awaited, Current
  <2>1. call' = call /\ helper[call] = "gone" /\ call # o
    BY <1>1, <1>3, NoneAssumption DEF UInv, Awaited
  <2>2. file' # file => file'.op = o
    BY <1>4 DEF State
  <2> QED  BY <1>2, <2>1, <2>2 DEF UInv, Awaited
<1>12. Decided'
  BY <1>1, <1>3 DEF UInv, Decided, ServerMove
<1>13. HasRun'
  <2>1. ASSUME NEW q \in Op, helper'[q] # "unborn", job'[q].target = server'
        PROVE  q \in ran'
    <3>1. helper[q] # "unborn" /\ job[q].target = server'
      BY <1>1, <1>2, <2>1
    <3>2. CASE server' = server
      BY <1>3, <3>1, <3>2 DEF UInv, HasRun
    <3>3. CASE server' # server
      BY <1>1, <3>1, <3>3 DEF ServerMove
    <3> QED  BY <3>2, <3>3
  <2>2. ASSUME NEW q \in Op, helper'[q] \in {"starting", "report"}
        PROVE  q \in ran'
    BY <1>2, <1>3, <2>2 DEF UInv, HasRun, Move
  <2> QED  BY <2>1, <2>2 DEF HasRun
<1>14. SucceededHasRun'
  BY <1>3, <1>4 DEF UInv, SucceededHasRun, HasRun, State
<1> QED
  BY <1>6, <1>7, <1>8, <1>9, <1>10, <1>11, <1>12, <1>13, <1>14 DEF UInv

-----------------------------------------------------------------------------
(* What a request's turn and the awaited call may be once the request has  *)
(* dealt with the state it was told.                                       *)
Told(state) ==
  /\ turn' # None =>
       /\ turn' \in ServerTurn /\ turn'.seen = state /\ server # None
       /\ turn'.act = "succeeded" => /\ state # None
                                     /\ state.phase = "restarting"
                                     /\ state.op \in ran
       /\ turn'.act = "rolled-back" => state # None /\ state.phase = "rolling-back"
       /\ turn'.act = "fence" => /\ state # None
                                 /\ state.phase \in Preparing \cup {"restarting", "rolling-back"}
  /\ \/ call' = call
     \/ call' \in {"start", None}
     \/ /\ state # None /\ state.phase = "ready-to-restart"
        /\ call' = state.op /\ turn' = None

LEMMA ProceedTells ==
  ASSUME NEW for \in Context, NEW state \in Record \cup {None}, Proceed(for, state),
         server # None
  PROVE  Told(state)
BY NoneAssumption DEF Proceed, Told, PhaseOf, ServerTurn, Decision, Context

(* A decision other than to keep the state has its reasons.                *)
LEMMA DecisionTells ==
  ASSUME UInv, server # None, NEW for \in Context, NEW act \in Decisions(file), act # "keep",
         turn' = [for |-> for, act |-> act, seen |-> file], call' = call
  PROVE  Told(file)
<1>1. UpdateTypeOK
  BY DEF UInv
<1>2. CASE file = None
  BY <1>1, <1>2 DEF Decisions, Told, ServerTurn, Decision
<1>3. CASE file # None
  <2>1. file \in Record /\ file.phase \in Phase
    BY <1>1, <1>3 DEF UpdateTypeOK, Record
  <2>2. act \in Decision
    BY <1>3, <2>1 DEF Decisions, Decision, Phase, Preparing, Terminal
  <2>3. /\ act = "succeeded" => /\ file.phase = "restarting"
                                /\ server = job[file.op].target
        /\ act = "rolled-back" => file.phase = "rolling-back"
        /\ act = "fence" => file.phase \in Preparing \cup {"restarting", "rolling-back"}
    BY <1>3, <2>1 DEF Decisions, Phase, Preparing, Terminal
  <2>4. act = "succeeded" => file.op \in ran
    BY <1>3, <2>1, <2>3 DEF UInv, Launched, HasRun, Record
  <2> QED  BY <1>3, <2>1, <2>2, <2>3, <2>4 DEF Told, ServerTurn
<1> QED  BY <1>2, <1>3

(* What a request may leave in the state file.                             *)
Left ==
  /\ file' \in Record \cup {None}
  /\ file' = file \/ Free
  /\ file' # None =>
       /\ helper[file'.op] # "unborn"
       /\ file'.timedOut => file'.phase = "failed"
       /\ ~file'.timedOut => file'.op \notin fenced'
       /\ ~file'.timedOut /\ file'.phase = "ready-to-restart"
            => helper[file'.op] = "gone"
       /\ ~file'.timedOut /\ file'.op = call /\ call \in Op
            => file'.phase = "ready-to-restart"
       /\ file'.phase = "succeeded" => file'.op \in ran
  /\ fenced' \in SUBSET Op
  /\ \A o \in fenced' : helper[o] # "unborn"
  /\ call \in Op => call \notin fenced'

LEMMA FileLeft ==
  ASSUME UInv, file' = file, fenced' = fenced
  PROVE  Left
BY DEF UInv, UpdateTypeOK, Launched, Fences, FencedStaysFenced, Prepared, Awaited,
       SucceededHasRun, Current, Left

LEMMA RequestKeeps ==
  ASSUME UInv, Left, Told(file'), UNCHANGED <<holder, helper, job, serverVars>>
  PROVE  UInv'
<1>1. /\ holder' = holder /\ helper' = helper /\ job' = job /\ pointer' = pointer
      /\ server' = server /\ victim' = victim /\ undo' = undo /\ ran' = ran
  BY DEF serverVars
<1>2. UpdateTypeOK'
  <2>1. turn' \in ServerTurn \cup {None}
    BY DEF Told
  <2>2. call' \in Op \cup {None, "start"}
    BY DEF UInv, UpdateTypeOK, Told, Left, Record
  <2> QED  BY <1>1, <2>1, <2>2 DEF UInv, UpdateTypeOK, Left
<1>3. EffectsAreOwned'
  <2>1. file' = file \/ \A o \in Op : helper[o] \notin Published \cup Protected \cup Undoing
    BY NoneAssumption DEF Left, UInv, EffectsAreOwned, Free
  <2> QED  BY <1>1, <2>1 DEF UInv, EffectsAreOwned, Owns
<1>4. Launched'
  BY <1>1 DEF Left, Told, Launched
<1>5. Fences'
  BY DEF Left, Told, Fences, FencedStaysFenced, Current
<1>6. Prepared'
  BY <1>1 DEF Left, Prepared, Current
<1>7. Awaited'
  <2> SUFFICES ASSUME call' \in Op
               PROVE  /\ helper[call'] = "gone" /\ call' \notin fenced'
                      /\ Current(file') /\ file'.op = call'
                           => file'.phase = "ready-to-restart"
                      /\ turn' # None /\ turn'.act \in {"succeeded", "rolled-back", "fence"}
                           => turn'.seen.op # call'
    BY <1>1 DEF Awaited, Current
  <2>1. CASE call' = call
    <3>1. helper[call] = "gone" /\ call \notin fenced'
      BY <2>1 DEF UInv, Awaited, Left
    <3>2. Current(file') /\ file'.op = call => file'.phase = "ready-to-restart"
      BY <2>1 DEF Left, Current
    <3>3. turn' # None /\ turn'.act \in {"succeeded", "rolled-back", "fence"}
            => file'.op # call /\ turn'.seen = file'
      BY <2>1 DEF Told, Left, Preparing
    <3> QED  BY <2>1, <3>1, <3>2, <3>3
  <2>2. CASE /\ file' # None /\ file'.phase = "ready-to-restart"
             /\ call' = file'.op /\ turn' = None
    BY <2>2 DEF Left, Current
  <2> QED  BY <2>1, <2>2, NoneAssumption DEF Told
<1>8. Decided'
  BY <1>1 DEF Told, Decided
<1>9. HasRun' /\ SucceededHasRun'
  BY <1>1 DEF UInv, HasRun, Left, SucceededHasRun
<1> QED  BY <1>2, <1>3, <1>4, <1>5, <1>6, <1>7, <1>8, <1>9 DEF UInv

(* A request that decides again about the state file as it is.             *)
LEMMA DecideTells ==
  ASSUME UInv, server # None, NEW for \in Context, NEW act \in Decisions(file),
         IF act = "keep" THEN Proceed(for, file)
         ELSE /\ turn' = [for |-> for, act |-> act, seen |-> file]
              /\ UNCHANGED call
  PROVE  Told(file)
<1>1. file \in Record \cup {None}
  BY DEF UInv, UpdateTypeOK
<1> QED  BY <1>1, ProceedTells, DecisionTells

LEMMA ObserveKeeps ==
  ASSUME UInv, NEW for \in Context, Observe(for)
  PROVE  UInv'
<1>1. Told(file)
  BY DecideTells DEF Observe
<1> QED  BY <1>1, FileLeft, RequestKeeps DEF Observe

LEMMA PublishKeeps ==
  ASSUME UInv, Publish
  PROVE  UInv'
<1>1. /\ turn # None /\ turn \in ServerTurn /\ fenced' = fenced /\ Free
      /\ UNCHANGED <<holder, helper, job, serverVars>>
      /\ server # None /\ turn.for \in Context /\ Proceed(turn.for, file')
  BY DEF Publish, UInv, UpdateTypeOK, ServerTurn, Decided
<1>2. CASE turn.act = "clear"
  <2>1. file' = None
    BY <1>2 DEF Publish
  <2>2. Left
    BY <1>1, <2>1 DEF Left, UInv, UpdateTypeOK, Launched, Awaited
  <2> QED  BY <1>1, <2>1, <2>2, ProceedTells, RequestKeeps
<1>3. CASE turn.act \in {"succeeded", "rolled-back"}
  <2>1. /\ turn.seen # None /\ turn.seen \in Record
        /\ turn.seen.phase \in {"restarting", "rolling-back"}
        /\ turn.act = "succeeded" => turn.seen.op \in ran
    BY <1>1, <1>3 DEF UInv, Decided, ServerTurn
  <2>2. file' = [turn.seen EXCEPT !.phase = turn.act]
    BY <1>3 DEF Publish
  <2>3. /\ file' \in Record /\ file'.op = turn.seen.op /\ file'.phase = turn.act
        /\ file'.timedOut = turn.seen.timedOut
    BY <1>3, <2>1, <2>2 DEF Record, Phase, Terminal
  <2>4. ~turn.seen.timedOut /\ turn.seen.op \notin fenced /\ helper[turn.seen.op] # "unborn"
    BY <1>1, <2>1 DEF UInv, Fences, Launched, Current, UpdateTypeOK, Record
  <2>5. call \in Op => call # file'.op /\ call \notin fenced
    BY <1>1, <1>3, <2>3 DEF UInv, Awaited
  <2>6. Left
    BY <1>1, <1>3, <2>1, <2>3, <2>4, <2>5 DEF Left, UInv, UpdateTypeOK, Launched
  <2> QED  BY <1>1, <2>3, <2>6, ProceedTells, RequestKeeps
<1> QED  BY <1>2, <1>3 DEF Publish

LEMMA FenceKeeps ==
  ASSUME UInv, FenceTimedOut
  PROVE  UInv'
<1>1. /\ turn # None /\ turn \in ServerTurn /\ turn.act = "fence" /\ Free
      /\ UNCHANGED <<holder, helper, job, serverVars>>
      /\ server # None /\ turn.for \in Context /\ turn.seen # None /\ turn.seen \in Record
  BY DEF FenceTimedOut, UInv, UpdateTypeOK, ServerTurn, Decided
<1>2. CASE Owns(turn.seen.op, {turn.seen.phase})
  <2>1. /\ file' = [op |-> turn.seen.op, phase |-> "failed", timedOut |-> TRUE]
        /\ fenced' = fenced \cup {turn.seen.op}
        /\ Proceed(turn.for, file')
    BY <1>2 DEF FenceTimedOut
  <2>2. file' \in Record /\ turn.seen.op \in Op
    BY <1>1, <2>1 DEF Record, Phase, Terminal
  <2>3. helper[turn.seen.op] # "unborn" /\ (call \in Op => call # turn.seen.op)
    BY <1>1, NoneAssumption DEF UInv, Launched, Awaited, FenceTimedOut
  <2>4. Left
    BY <1>1, <2>1, <2>2, <2>3 DEF Left, UInv, UpdateTypeOK, Launched, Awaited
  <2> QED  BY <1>1, <2>1, <2>2, <2>4, ProceedTells, RequestKeeps
<1>3. CASE ~Owns(turn.seen.op, {turn.seen.phase})
  <2>1. /\ file' = file /\ fenced' = fenced
        /\ \E act \in Decisions(file) :
             IF act = "keep" THEN Proceed(turn.for, file)
             ELSE /\ turn' = [for |-> turn.for, act |-> act, seen |-> file]
                  /\ UNCHANGED call
    BY <1>3 DEF FenceTimedOut
  <2>2. Told(file)
    BY <1>1, <2>1, DecideTells
  <2> QED  BY <1>1, <2>1, <2>2, FileLeft, RequestKeeps
<1> QED  BY <1>2, <1>3

LEMMA ForgetKeeps ==
  ASSUME UInv, Contended \/ Abandon
  PROVE  UInv'
<1>1. /\ file' = file /\ fenced' = fenced
      /\ UNCHANGED <<holder, helper, job, serverVars>>
      /\ turn' = None
      /\ call' \in {call, None}
  BY DEF Contended, Abandon
<1>2. Told(file)
  BY <1>1 DEF Told
<1> QED  BY <1>1, <1>2, FileLeft, RequestKeeps

(* No helper is at an effect while the claim is free.                      *)
LEMMA FreeOfEffects ==
  ASSUME UInv, Free, NEW o \in Op
  PROVE  helper[o] \notin Published \cup Protected \cup Undoing
BY NoneAssumption DEF UInv, EffectsAreOwned, Free

LEMMA LaunchKeeps ==
  ASSUME UInv, NEW o \in Op, Launch(o) \/ Decline(o)
  PROVE  UInv'
<1>1. /\ UpdateTypeOK /\ Free /\ turn' = None /\ call' = None /\ holder' = holder
      /\ fenced' = fenced /\ server' = server /\ pointer' = pointer /\ undo' = undo
      /\ helper[o] = "unborn" /\ server # None /\ turn # None
  BY DEF Launch, Decline, UInv, Decided
<1>2. o \notin fenced
  BY <1>1 DEF UInv, Launched
<1>3. PICK step \in {"unborn", "gone", "prepare"} :
        /\ helper' = [helper EXCEPT ![o] = step]
        /\ \/ file' = None
           \/ /\ step # "unborn"
              /\ file' \in {State(o, "installing"), State(o, "failed")}
  <2>1. CASE Launch(o)
    BY <2>1 DEF Launch
  <2>2. CASE Decline(o)
    <3>1. helper = [helper EXCEPT ![o] = "unborn"]
      BY <1>1 DEF UpdateTypeOK
    <3> QED  BY <2>2, <3>1 DEF Decline
  <2> QED  BY <2>1, <2>2
<1>4. /\ helper'[o] = step
      /\ \A q \in Op \ {o} : helper'[q] = helper[q]
      /\ \A q \in Op : helper[q] # "unborn" => helper'[q] # "unborn" /\ q # o
  BY <1>1, <1>3 DEF UpdateTypeOK
<1>5. /\ job' \in [Op -> Job] /\ ran' \in SUBSET Op /\ victim' \in [Op -> BOOLEAN]
      /\ ran \subseteq ran'
      /\ \A q \in Op \ {o} : job'[q] = job[q]
      /\ job'[o].target = server => o \in ran' \/ step = "unborn"
  <2>1. server \in Version
    BY <1>1 DEF UpdateTypeOK
  <2>2. CASE Launch(o)
    <3>1. PICK v \in Version \ {server} :
            job' = [job EXCEPT ![o].prev = server, ![o].target = v]
      BY <2>2 DEF Launch
    <3>2. job' \in [Op -> Job] /\ job'[o].target = v
      BY <1>1, <2>1, <3>1, ZenonT(60) DEF UpdateTypeOK, Job
    <3>3. \A q \in Op \ {o} : job'[q] = job[q]
      BY <1>1, <3>1 DEF UpdateTypeOK
    <3>4. ran' = ran /\ ran \in SUBSET Op /\ victim' \in [Op -> BOOLEAN]
      BY <1>1, <2>2 DEF Launch, UpdateTypeOK
    <3> QED  BY <3>1, <3>2, <3>3, <3>4
  <2>3. CASE Decline(o)
    <3>1. ran' \in SUBSET Op /\ victim' \in [Op -> BOOLEAN] /\ ran \subseteq ran'
      BY <1>1, <2>3 DEF Decline, UpdateTypeOK
    <3>2. CASE job' = job /\ helper' = helper
      BY <1>1, <1>4, <3>1, <3>2 DEF UpdateTypeOK
    <3>3. CASE /\ job' = [job EXCEPT ![o].prev = server, ![o].target = server]
               /\ ran' = ran \cup {o}
      BY <1>1, <2>1, <3>1, <3>3, ZenonT(60) DEF UpdateTypeOK, Job
    <3> QED  BY <2>3, <3>2, <3>3 DEF Decline
  <2> QED  BY <2>2, <2>3
<1>6. UpdateTypeOK'
  <2>1. file' \in Record \cup {None}
    BY <1>3, StateIsRecord DEF Phase, Preparing, Terminal
  <2>2. helper' \in [Op -> HelperStep]
    BY <1>1, <1>3 DEF UpdateTypeOK, HelperStep
  <2> QED  BY <1>1, <1>5, <2>1, <2>2 DEF UpdateTypeOK
<1>7. EffectsAreOwned'
  <2>1. \A q \in Op : helper'[q] \notin Published \cup Protected \cup Undoing
    BY <1>1, <1>4, FreeOfEffects DEF Published, Protected, Undoing
  <2> QED  BY <2>1 DEF EffectsAreOwned
<1>8. Launched'
  BY <1>1, <1>3, <1>4 DEF UInv, Launched, State, UpdateTypeOK
<1>9. Fences' /\ Prepared' /\ Awaited' /\ Decided' /\ SucceededHasRun'
  BY <1>1, <1>2, <1>3, NoneAssumption
  DEF UInv, Fences, FencedStaysFenced, Prepared, Awaited, Decided,
      SucceededHasRun, State, Current
<1>10. HasRun'
  <2>1. ASSUME NEW q \in Op, helper'[q] # "unborn", job'[q].target = server'
        PROVE  q \in ran'
    BY <1>1, <1>4, <1>5, <2>1 DEF UInv, HasRun
  <2>2. ASSUME NEW q \in Op, helper'[q] \in {"starting", "report"}
        PROVE  q \in ran'
    BY <1>4, <1>5, <2>2 DEF UInv, HasRun
  <2> QED  BY <2>1, <2>2 DEF HasRun
<1> QED  BY <1>6, <1>7, <1>8, <1>9, <1>10 DEF UInv

(* The two ways a helper's process begins or fails to begin.               *)
LEMMA ApplyKeeps ==
  ASSUME UInv, Apply
  PROVE  UInv'
<1> DEFINE o == call
<1>1. /\ UpdateTypeOK /\ o \in Op /\ Free /\ turn' = None /\ turn = None /\ call' = None
      /\ file' = State(o, "restarting") /\ helper' = [helper EXCEPT ![o] = "apply"]
      /\ holder' = holder /\ fenced' = fenced /\ server' = server
      /\ pointer' = pointer /\ job' = job /\ ran' = ran
      /\ helper[o] = "gone" /\ o \notin fenced
  BY DEF Apply, UInv, Awaited
<1>2. /\ helper'[o] = "apply"
      /\ \A q \in Op \ {o} : helper'[q] = helper[q]
  BY <1>1 DEF UpdateTypeOK
<1>3. UpdateTypeOK'
  <2>1. file' \in Record /\ helper' \in [Op -> HelperStep]
    BY <1>1 DEF UpdateTypeOK, State, Record, Phase, HelperStep
  <2>2. victim' \in [Op -> BOOLEAN] /\ undo' \in [Op -> Version \cup {None}]
    BY <1>1 DEF Apply, UpdateTypeOK
  <2> QED  BY <1>1, <2>1, <2>2 DEF UpdateTypeOK
<1>4. EffectsAreOwned'
  <2>1. \A q \in Op : helper'[q] \notin Published \cup Protected \cup Undoing
    BY <1>1, <1>2, FreeOfEffects DEF Published, Protected, Undoing
  <2> QED  BY <2>1 DEF EffectsAreOwned
<1>5. Launched'
  BY <1>1, <1>2 DEF UInv, Launched, State, UpdateTypeOK
<1>6. Fences' /\ Prepared' /\ Awaited' /\ Decided' /\ SucceededHasRun'
  BY <1>1, NoneAssumption
  DEF UInv, Fences, FencedStaysFenced, Prepared, Awaited, Decided,
      SucceededHasRun, State, Current
<1>7. HasRun'
  BY <1>1, <1>2 DEF UInv, HasRun
<1> QED  BY <1>3, <1>4, <1>5, <1>6, <1>7 DEF UInv

LEMMA SpawnErrorKeeps ==
  ASSUME UInv, NEW o \in Op, SpawnError(o)
  PROVE  UInv'
<1>1. /\ UpdateTypeOK /\ turn' = turn /\ turn = None /\ call' = call
      /\ helper' = [helper EXCEPT ![o] = "gone"] /\ helper[o] \in {"prepare", "apply"}
      /\ holder' = holder /\ fenced' = fenced /\ job' = job
      /\ server' = server /\ pointer' = pointer /\ victim' = victim
      /\ undo' = undo /\ ran' = ran
  BY DEF SpawnError, UInv, requestVars, serverVars
<1>2. \/ file' = file
      \/ /\ Free /\ Owns(o, Phase)
         /\ file' \in {State(o, "failed"), State(o, "ready-to-restart")}
  BY DEF SpawnError, Owns, Phase, Preparing
<1>3. /\ helper'[o] = "gone"
      /\ \A q \in Op \ {o} : helper'[q] = helper[q]
  BY <1>1 DEF UpdateTypeOK
<1>4. UpdateTypeOK'
  <2>1. file' \in Record \cup {None} /\ helper' \in [Op -> HelperStep]
    BY <1>1, <1>2, StateIsRecord DEF UpdateTypeOK, Phase, Terminal, HelperStep
  <2> QED  BY <1>1, <2>1 DEF UpdateTypeOK
<1>5. EffectsAreOwned'
  <2>1. CASE file' = file
    BY <1>1, <1>3, <2>1 DEF UInv, EffectsAreOwned, Owns, Published, Protected, Undoing
  <2>2. CASE Free
    <3>1. \A q \in Op : helper'[q] \notin Published \cup Protected \cup Undoing
      BY <1>1, <1>3, <2>2, FreeOfEffects DEF Published, Protected, Undoing
    <3> QED  BY <3>1 DEF EffectsAreOwned
  <2> QED  BY <1>2, <2>1, <2>2
<1>6. Launched'
  BY <1>1, <1>2, <1>3 DEF UInv, Launched, State, UpdateTypeOK, Record
<1>7. file' # file => file'.op = o /\ o \notin fenced /\ ~file'.timedOut
                        /\ file'.phase \in {"failed", "ready-to-restart"}
  BY <1>2 DEF UInv, Fences, FencedStaysFenced, Owns, State
<1>8. Fences' /\ Decided' /\ SucceededHasRun'
  BY <1>1, <1>7 DEF UInv, Fences, FencedStaysFenced, Decided, SucceededHasRun
<1>9. Prepared'
  BY <1>1, <1>3, <1>7 DEF UInv, Prepared, Current, UpdateTypeOK, Record
<1>10. Awaited'
  BY <1>1, <1>3, <1>7 DEF UInv, Awaited, Current
<1>11. HasRun'
  BY <1>1, <1>3 DEF UInv, HasRun
<1> QED  BY <1>4, <1>5, <1>6, <1>8, <1>9, <1>10, <1>11 DEF UInv

LEMMA WorldKeeps ==
  ASSUME UInv, ServerStops \/ UserStarts \/ Reselect
  PROVE  UInv'
<1>1. /\ UpdateTypeOK /\ file' = file /\ holder' = holder /\ helper' = helper
      /\ job' = job /\ undo' = undo /\ fenced' = fenced
      /\ pointer' \in Version
  BY SharedAssumption DEF ServerStops, UserStarts, Reselect, UInv, UpdateTypeOK
<1>2. /\ \/ turn' = None /\ call' = None
         \/ turn' = turn /\ call' = call /\ server' = server
      /\ server' \in Version \cup {None} /\ ran \subseteq ran' /\ ran' \in SUBSET Op
      /\ victim' \in [Op -> BOOLEAN]
      /\ \A o \in Op : helper[o] # "unborn" /\ job[o].target = server' => o \in ran'
  <2>1. CASE Reselect
    BY <1>1, <2>1, SharedAssumption DEF Reselect, SameServer, UInv, HasRun, UpdateTypeOK
  <2>2. CASE \E version \in Version \cup {None} : ServerBecomes(version)
    BY <1>1, <2>2 DEF ServerBecomes, UpdateTypeOK
  <2> QED  BY <1>1, <2>1, <2>2 DEF ServerStops, UserStarts, UpdateTypeOK
<1>3. UpdateTypeOK'
  BY <1>1, <1>2 DEF UpdateTypeOK
<1>4. EffectsAreOwned' /\ Launched' /\ Prepared' /\ SucceededHasRun'
  BY <1>1, <1>2
  DEF UInv, EffectsAreOwned, Owns, Launched, Prepared, Current, SucceededHasRun
<1>5. Fences' /\ Awaited' /\ Decided'
  BY <1>1, <1>2, NoneAssumption
  DEF UInv, Fences, FencedStaysFenced, Awaited, Current, Decided
<1>6. HasRun'
  BY <1>1, <1>2 DEF UInv, HasRun
<1> QED  BY <1>3, <1>4, <1>5, <1>6 DEF UInv

-----------------------------------------------------------------------------
LEMMA InitHolds == UpdateInit => UInv
<1> SUFFICES ASSUME UpdateInit  PROVE UInv
  OBVIOUS
<1>1. UpdateTypeOK
  BY FirstAssumption DEF UpdateInit, UpdateTypeOK, HelperStep, Job
<1>2. EffectsAreOwned /\ HasRun
  BY DEF UpdateInit, EffectsAreOwned, HasRun, Published, Protected, Undoing
<1>3. Launched /\ Fences /\ Prepared /\ Awaited /\ Decided /\ SucceededHasRun
  BY NoneAssumption
  DEF UpdateInit, Launched, Fences, FencedStaysFenced, Prepared, Awaited, Decided,
      Current, SucceededHasRun
<1> QED  BY <1>1, <1>2, <1>3 DEF UInv

LEMMA NextKeeps == UInv /\ [UpdateNext]_updateVars => UInv'
<1> SUFFICES ASSUME UInv, [UpdateNext]_updateVars  PROVE UInv'
  OBVIOUS
<1>1. CASE Request
  <2>1. ASSUME NEW for \in {"check", "start", "status", "apply"}, Observe(for)
        PROVE  UInv'
    BY <2>1, ObserveKeeps DEF Context
  <2> QED
    BY <1>1, <2>1, PublishKeeps, FenceKeeps, ForgetKeeps, LaunchKeeps,
       ApplyKeeps, SpawnErrorKeeps DEF Request
<1>2. CASE ServerStops \/ UserStarts \/ Reselect
  BY <1>2, WorldKeeps
<1>3. CASE \E o \in Op : Helper(o) \/ Errors(o) \/ StopError(o) \/ Die(o)
  BY <1>3, HelperMoves, MoveKeeps
<1>4. CASE UNCHANGED updateVars
  BY <1>4
  DEF updateVars, UInv, UpdateTypeOK, EffectsAreOwned, Owns, Launched, Fences,
      FencedStaysFenced, Prepared, Awaited, Current, Decided, HasRun,
      SucceededHasRun
<1> QED  BY <1>1, <1>2, <1>3, <1>4 DEF UpdateNext

(* UInv is an inductive invariant of the update.                           *)
THEOREM UpdateInvariant == UpdateSpec => []UInv
BY InitHolds, NextKeeps, PTL DEF UpdateSpec

(* The state keeps its types.                                              *)
THEOREM UpdateTypeCorrect == UpdateSpec => []UpdateTypeOK
<1>1. UInv => UpdateTypeOK
  BY DEF UInv
<1> QED  BY <1>1, UpdateInvariant, PTL

(* A helper stops the server, moves the pointer or starts an image only    *)
(* while its operation owns the state file in the phase that calls for it, *)
(* whatever the server, the user and the other helpers do.                 *)
THEOREM EffectsOwned == UpdateSpec => []EffectsAreOwned
<1>1. UInv => EffectsAreOwned
  BY DEF UInv
<1> QED  BY <1>1, UpdateInvariant, PTL

(* An operation that was timed out never owns the state file again.        *)
THEOREM FenceIsFinal == UpdateSpec => []FencedStaysFenced
<1>1. UInv => FencedStaysFenced
  BY DEF UInv, Fences
<1> QED  BY <1>1, UpdateInvariant, PTL

(* A reported success is one of a version that has run.                    *)
THEOREM SuccessHasRun == UpdateSpec => []SucceededHasRun
<1>1. UInv => SucceededHasRun
  BY DEF UInv
<1> QED  BY <1>1, UpdateInvariant, PTL

(* No two helpers ever work for one operation.                             *)
THEOREM HelpersAreSingle == UpdateSpec => OneHelper
<1> DEFINE Single == \A o \in Op : helper'[o] = "apply" /\ helper[o] # "apply"
                                     => helper[o] = "gone"
<1>1. UInv /\ [UpdateNext]_updateVars => [Single]_updateVars
  <2> SUFFICES ASSUME UInv, UpdateNext, NEW o \in Op, helper'[o] = "apply",
                      helper[o] # "apply"
               PROVE  helper[o] = "gone"
    OBVIOUS
  <2>1. helper \in [Op -> HelperStep] /\ helper' # helper
    BY DEF UInv, UpdateTypeOK
  <2>2. CASE Request
    <3>1. CASE Apply
      BY <2>1, <3>1 DEF Apply, UInv, Awaited
    <3>2. CASE \E q \in Op : Launch(q) \/ Decline(q) \/ SpawnError(q)
      BY <2>1, <3>2 DEF Launch, Decline, SpawnError
    <3> QED
      BY <2>1, <2>2, <3>1, <3>2
      DEF Request, Observe, Publish, FenceTimedOut, Contended, Abandon
  <2>3. CASE \E q \in Op : Helper(q) \/ Errors(q) \/ StopError(q) \/ Die(q)
    <3>1. PICK q \in Op, step \in HelperStep : Move(q, step)
      BY <2>3, HelperMoves
    <3> QED  BY <2>1, <3>1 DEF Move
  <2>4. CASE ServerStops \/ UserStarts \/ Reselect
    BY <2>1, <2>4 DEF ServerStops, UserStarts, Reselect
  <2> QED  BY <2>2, <2>3, <2>4 DEF UpdateNext
<1> QED  BY <1>1, UpdateInvariant, PTL DEF UpdateSpec, OneHelper
=============================================================================
