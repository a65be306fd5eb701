# Farming: verification of the coordination core

Farming is a server that runs coding agents (terminal programs behind a PTY, and
chat agents behind the ACP protocol) and shows them to browsers. The server may be
stopped, crash, be updated in place or be started twice; the processes it drives
outlive it. What is hard about it is therefore coordination: who may act on a
shared file, a terminal, a chat session or an installation, and what may be told to
the user when the answer of the other side got lost.

This directory models that part in TLA+, checks it with TLC on small instances, and
proves the central safety properties with TLAPS for every value of the constants.
Paths below are relative to `src/`. `PROJECT.json` lists components, runs, hazards,
theorems and, for every definition, the source lines that it stands for.

## 1. How to run

    tlc -workers 2 -config Generations.cfg MCGenerations
    tlapm NativePtyGeneration_proofs.tla

Every `.cfg` belongs to the `MC...` module listed in section 4. No run takes more
than about three and a half minutes with two workers. `CHECK_DEADLOCK FALSE` is set in every
configuration because every model may legitimately stop: claims, operations,
runtimes and messages are bounded, and once all of them are used up nothing is left
to do. What must not stop before that is stated by the liveness properties instead.

## 2. The system and its parts

### 2.1 Modelled

| Part | State | Operations | Who shares it |
|---|---|---|---|
| Process-owned file lock (`backend/process-owned-file-lock.cts`) | a lock directory with one claim file, reclaim markers beside it, staging directories; in memory the releases that could not be proven | acquire (waiting or not), reclaim a dead claim, release, recover a pending release | every process of a Config: servers, PTY host, update helpers |
| Native PTY generations (`backend/native-pty-controller-generation.cts`) | a generation file under its own lock | allocate the next generation | servers that take over a PTY host |
| ACP controller generation (`backend/acp-runtime-host-controller.cts`) | a generation file, a lock directory of an older design | allocate the next generation | servers that take over an ACP runtime host |
| Self-update (`backend/update-service.cts`, `npm-update-helper.cts`, `update-operation-state.cts`) and the image pointer of `package-installation.cts` | the update state file, the pointer to the current package image, the running server, the detached helpers | check, start, status, apply in the server; prepare, stop, activate, start, roll back in the helpers | one server and up to two helpers per operation; other Configs and the user |
| Terminal input (`backend/agent-manager.cts`, `agent-input-coordinator.cts`, `native-pty-host.cts`, `native-pty-host-client.cts`) | per agent a queue, a fence with a phase, the runtime epoch; per session in the host a chain of writes | admit, take a turn, write, time out, view, checkpoint, exit, restart | browser requests, the server, the host, the PTY |
| Chat message delivery (`backend/agent-composer-admission.cts`, `agent-input-coordinator.cts`, `acp-runtime-host-client.cts`, `acp-runtime-host-runtime.cts`) | admission records in memory and in the session snapshot, the input queue, the connection | request, start, submit, accept, respond, disconnect, reconcile, persist | browser requests, the server, the runtime host |
| ACP prompt operations and turns (`backend/acp-runtime-host-state.cts`, `acp-runtime-host-service.cts`, `acp-runtime.cts`) | one operation per request id, the active turn with its control tail | submit, join, wait, begin, dispatch, steer, finish, fail | the server and the agent process (the provider) |
| Agent lifecycle (`backend/agent-lifecycle-*.cts`, `agent-start-admission-coordinator.cts`, `agent-manager.cts`) | per agent a durable record with a journal of operations, a terminal that outlives the server, the server's operation under way and those that wait | create (by request id), delete, archive, and the recovery after a restart | browser requests, the server, the terminal host, the provider |
| Agent state broadcast (`backend/agent-state-*.cts`, `websocket-agent-state-*.cts`, `shared/agent-state-reducer.ts`, `src/hooks/useWebSocket.ts`) | a tracker with numbered deltas, per client a paged snapshot and a queue; per page the state it shows | announce, flush, deliver, page, defer, drain, resynchronize | the server and every open page |
| ACP runtime host mirror (`backend/acp-runtime-host-state.cts`, `-process.cts`, `-client.cts`, `-runtime.cts`) | numbered events in a bounded buffer; the client's mirror, its buffered events; the facade's summaries | publish, register, recover, apply, close a gap, read | the runtime host and one server |
| Native PTY host control (`backend/native-pty-host.cts`, `native-pty-host-client.cts`) | the active connection, a queue of registrations, admitted mutations, a checkpoint under way | register, admit, drain, retire, checkpoint, resume, shut down | several servers and one terminal host |
| Inventory cache (`backend/authoritative-inventory-cache.cts`) | per key a value with the fingerprint of its files, a snapshot file, one pending computation | get, reconcile, invalidate, store | the server and every program that writes the files |

The hard behaviours are: processes that die between two system calls; renames that act
on a name and not on what was looked at; time-outs that race late answers; state read
before an await and used after it; messages that are on the wire when a connection
breaks; turns that a provider starts on its own.

What makes each part correct:

- lock: exclusive; only dead claims are broken; a live process never forgets a claim it
  has on disk; a dead claim does not block for good;
- generations: strictly increasing over all processes and crashes;
- update: helpers act only for the operation that owns the state file; an operation the
  server gave up stays given up; reported success is real; one helper at a time; a server
  that was stopped comes back;
- terminal: what waited when an outcome got lost never follows the unknown write; inputs reach
  a runtime whole and in order; reports are true; every input is settled;
- lifecycle: a repeated create makes one agent, no terminal outlives its record, what was reported
  stays true, every operation ends and leaves a record that can be found again;
- copies (broadcast, mirror): what is shown as current was published, is never older than what was
  shown before, and catches up once the disturbance is over;
- host control: mutations and checkpoints belong to the server in control, and control changes hands;
- inventory: an answer is not older than the request that caused it, and mixes no two states;
- chat: a message reaches the provider at most once; accepted means delivered; failed means
  not delivered; order is kept; every admission is decided.

### 2.2 Not modelled

| Part | State and hard behaviour | Why, or when |
|---|---|---|
| Fork operations (`fork-operation-coordinator.cts`) | idempotence of a fork across restarts | next in the plan |
| Agent communication (`agent-communication-*.cts`) | exchanges with time-outs and late replies | next in the plan |
| Composer limits (`agent-composer-admission.cts`) | the cap of 64 unresolved admissions, retention of records | next in the plan |
| Session resume and stores | the resume coordinator; files replaced atomically | in part |
| Admission of project operations and provider mutations | mutual exclusion in memory, one class each | follows the lifecycle |
| Process ownership of a Config | who may stop which server | planned |
| Terminal screen and stream | worker pool, flow control, stream against checkpoint; the screen emulation is a pure computation on text | in part |
| Other ACP session code (finalization, revisions, transcripts, protocol bindings) | order of finalizations and revisions; the rest is conversion | in part |
| Provider sessions and adapters | conversions of the providers' formats | not planned |
| Agent manager, the rest | wires the coordinators together | follows with each coordinator |
| HTTP and WebSocket server | routing, validation, access control | not planned |
| Reviews, workspaces, usage, history | documents, Git and file access, statistics: data without a protocol | not planned |
| Runtime dependencies, command line, Farming Net | downloads; process commands; a directory in memory | may follow |
| Frontend (two skins), desktop, extensions | user interface, half of the repository's lines; what it shows of the agents is in AgentStateBroadcast; the browser extension's relay is a candidate | relay only |

What a modelled part leaves out is said in section 3 and in the component notes of `PROJECT.json`.

## 3. The modules

    GenerationAllocator          what an allocator of generations promises
      ^ refined by  AcpControllerGeneration
      ^ refined by  NativePtyGeneration --EXTENDS--> ProcessFileLock
    UpdateOperation              (uses the lock as an exclusive claim)
    StateFollower                what somebody is promised who watches a state from afar
      ^ refined by  AgentStateBroadcast   (pages that watch the agents)
      ^ refined by  AcpHostMirror         (the server that watches its runtime host)
    InventoryCache
    TerminalInput
    NativePtyHost
    AgentLifecycle
    ComposerDelivery --EXTENDS--> AcpPromptHost

Three modules put independent components side by side: `Generations` (both allocators), `Followers` (broadcast,
mirror and inventory) and `TerminalAgents` (lifecycle and host control). Each extends one component, instantiates
the others and names their properties. `MCx` instantiates `x` for TLC; `x_proofs` holds the theorems about `x`, where
`NativePtyGeneration_proofs`, `AgentStateBroadcast_proofs` and `AgentLifecycle_proofs` speak of all of `Generations`, `Followers`
and `TerminalAgents`, so that what they prove of an instance is the property that the runs check. Three MC modules also put
parts side by side: `MCOrderly` (lock and update), `MCInputsAndUpdates` (terminal input and update, both extended, hence
`UpdateInit`, `UpdateNext` and the like in UpdateOperation) and `MCComposerFaults` (with and without crashes); and `MCTerminalAgents` has a second instance of the lifecycle, whose host may be unreachable. In all six of these a
variable `part` is chosen at the start, a behaviour takes the steps of that part only, and the others rest. Nothing is
shown about an interaction of the parts; it only saves runs.

Definitions whose comment starts with "Variant:" are not part of a specification. Each is
a plausible mistake in the definition that follows it (a dropped guard, a forgotten reset);
`PROJECT.json` names, for every checked property, the variant under which TLC finds it
violated, so that the property is known to depend on the code.

### 3.1 ProcessFileLock

One element of `Proc` is one incarnation of a process; a restart that reuses a PID is another
element, because the code identifies a holder by PID, group and start time together. Every
file-system call and every process probe of acquisition, reclaim and release is an action of its
own (`Stage`, `Publish`, `Inspect`, `JudgeDead`, `Mark`, `RereadSame`, `Break`, `Unmark`;
`Verify`, `Rename`, `Unproven`). `Fault` lets a call fail where the code distinguishes that,
`Die` stops a process anywhere. The whole primitive is modelled; the reading of process
identities from the operating system is the predicate "dead", which may also stay unproven.

The claim and its owner's name are the data; a directory rename takes *whatever is at the path
at that moment*, which is the point of the design under test: the reclaim marker is keyed to the
observed token and lives inside the directory, so that it vanishes with it.

### 3.2 NativePtyGeneration and AcpControllerGeneration

Both allocate the next number in a file. The first does so under ProcessFileLock and
conjoins its own variables (`file`, `work`, `next`, `issued`) to those of the lock. The second
has an older lock of its own: stale by age and PID, moved aside first and inspected afterwards,
put back when it turned out to be somebody else's; release unlinks the owner file and then the
directory, in two calls. `GenerationAllocator` is the abstract promise: every number issued is
above all numbers issued before. `issued` is a history variable that both concrete modules keep
for the refinement (the mapping is the identity on it).

`Disturbances` of the ACP module names what else may happen: `"stall"`, a live process needs more
than `staleLockMs` between two steps; `"breaker_dies"`, a process dies with a directory moved
aside (used to explore, in no run). `MaxRunning` is how many processes allocate at the same time.

Not modelled: the textual runtime epoch and its comparison
(`native-pty-controller-generation.cts` 100-120).

### 3.3 UpdateOperation

The state file (`file`), the claim across a protected effect (`holder`), the image pointer, the
running server, the server's current request (`turn`, `call`) and each operation's helper
(`helper`, where it is in `prepareNpmUpdate` or `applyNpmUpdate`). The server's synchronous
sections are steps: `Observe` reads and decides, `Publish`, `FenceTimedOut`, `Launch`, `Apply` write
under the claim; between reading and publishing a helper may write, exactly as at
`update-service.cts:531`. Elapsed time is nondeterministic: `Decisions` lets any unfinished
operation be past its deadline. Helpers may fail at every step (`PrepareError`, `ApplyError`,
`StartError`) or die (`Die`), or kill the server and fail to see it end (`StopError`); the server may stop, the user may start it, and other Configs that
share the installation may move the pointer (`Reselect`, to a version in `Shared`).

The claim is used as an exclusive lock that a dead holder loses, which is what
ProcessFileLock proves. Not modelled: registry and npm, legacy state formats, read-only Configs,
a change of the installation itself.

### 3.4 TerminalInput

Server side: `agent` (believed epoch and status), `fence`, `work` (each input with the phase and
epoch it was admitted under), `queue` and `served`. Runtime side: `live`, `host` (the session's
chain of writes), `wrote`, and for each write the `session` in which it began. `doubt` and `barred` are history: a runtime has an unknown outcome that no
checkpoint has looked at, and the inputs that must not follow it.

`Refuse`/`Admit` are `sendInput`, `TurnAway`/`Dispatch` are `sendInputNow`, `Interrupt` skips the queue,
`Timeout` is the client's request time-out with the reset of its connection (all requests in flight
become lost; what the host had not started may or may not still run). The host compares a request's epoch with that of its session once, when the write begins
(`Accepts`); between two chunks it only looks whether that session is still there (`Attached`). `View` and `Checkpoint` are
`getAgentSessionView` in its two uses; `Failures` says whether a read may fail (`"error"`) or the
host may be unreachable (`"unreachable"`). `Exit`, `Restart` and `Learn` are the runtime's life
and the server's knowledge of it.

Not modelled: entries of the queue that write several times (project branch switch, profile and
identity probes), input admitted without a known epoch, host rotation, deletion of agent records.

### 3.5 AcpPromptHost and ComposerDelivery

`AcpPromptHost` is the runtime host: one operation per request id (`op`, `expired`), the execution
of it (`stage`, which follows `submitMessage` from its loop through waiting, preparing, running,
steering), the active `turn` with its control tail, and a provider that is external: it answers,
takes or refuses steers, starts and ends turns as it likes. `ComposerDelivery` puts the server on
top: records, queue, connection, and the three ways in which it learns of ownership (event, response,
operations copied after a reconnection). `Crash` restarts the server from its last snapshot; the host
lives on.

`Faults` selects what may go wrong: `"disconnect"`, `"crash"`, `"native"` (turns the adapter starts on
its own), `"steer-late"` (a steer's time-out), `"turn-error"` (the provider fails a prompt it has).
`doubt` collects the messages for which the host itself reported or assumed something wrong
(section 6); the safety properties exclude exactly these. `lost` collects records that a crash set
back. The input queue is a chain of promises in the code: who joins waits for those that are there (`Joins`, `before`), and
each leaves it when it is accepted, has failed or is given up (`Releases`).

Not modelled: terminal delivery, content hashes, the caps of 64 unresolved admissions and the retention
of records, replacement of a record or binding, death of the host, cancellation of running turns,
permissions, configuration, transcripts, the host's event sequence numbers.

### 3.6 StateFollower, AgentStateBroadcast, AcpHostMirror

`StateFollower` has a log of published states and viewers: `Show` puts one of the log's states on a
viewer's screen, not an earlier one than before; `Blur` shows something without claiming that it is current;
`Leave` starts anew. Both concrete modules refine it (`Follows`), with "claims to be current" read off the code.

`AgentStateBroadcast`. `truth` are the agents and the metadata as versions; `Announce` and `FlushTimer` are the
scheduler, `Checkpoint` and `Flush` the tracker that compares with what it tracked and gives the change the next
sequence number; `log` is the history of tracked states. Per connection `client` is the server's side: the snapshot in
progress (`seq`, `offset`), the deltas deferred during it (`queue`, at most `MaxQueue`), the socket (`wire`,
`clogged`). `SendState`, `NextPage`, `Drain`, `Defer` and `Recover` are the snapshot controller; a clogged socket, a full
queue or a lost page make the client *want* a new snapshot. The page joins `TakePage` and `TakeDelta`;
`Disposition` is the shared reducer's decision to ignore, apply or resynchronize. `Trouble` says which page has
which trouble: `"clogged"`, `"closed"`, `"late"` (its deadline passes). Not modelled: scopes of the CRT skin, activity,
previews, snapshot ids and the server epoch.

`AcpHostMirror`. The host numbers its changes (`Publish` with a buffer of `MaxEvents` events); the client registers,
recovers with what it has or from scratch, buffers what arrives while it recovers (`MaxHeld`), and notices
gaps; the facade copies the mirror and overlays what a read returned. `Faults`: `"closed"`, `"host-dies"`, `"late"` (a
request times out), `"read"` (the facade reads a session). One server; hosts of another build, callbacks, configuration
overrides and frame limits are not modelled. `overlaid` and `mixed` mark what the safety property must exempt
(section 6).

### 3.7 AgentLifecycle

Durable: `record` (journal of operations with their states, whether it names a runtime, archived), `member` (the main
page's index), `requestOf`. Outside: `alive` terminals, `provider` archives. In memory: `present`, `stopped`, `tomb`, `step`
(where the agent's operation is), `waiting` (those behind it), `admission` (what a create request does), `mode` (recovery,
ready, or a recovery that failed). `told` is history. A create is `RequestCreate`, `Replay`, `BeginCreate`, `Launch`, `BindMembership`,
`CommitCreate`, or `UndoCreate` and `FailCreate`; a delete `BeginKill`, `Stop`, `CommitDelete`; an archive `BeginArchive`,
`Stop`, `MarkArchived`, `ArchiveProvider`, `CommitArchive`. `Saved` is one save of the record, which may fail
(`"disk"`); a launch, a kill or the enumeration of the terminals (`"runtime"`) and the provider (`"provider"`) may fail too.
`Crash` loses the memory between any two steps; `Boot`, `RecoverFound`, `RecoverMissing` and `RecoverArchive` are the
recovery, during which the gate holds requests back. A terminal that is found goes to the agent whose record names it
(`RecoverOwned`) or, if none does, is killed or revived from the main page's index (`RecoverOrphan`, which erases the journal of the
record). What the recovery saves outside a `try` (the save of an agent without an operation, `Aborts`; the main page's index, `Joins`)
ends it when it fails: the gate then refuses every request (`mode = "failed"`).

The fault `"unreachable"` is a host that does not answer. `performKillAgent` takes that for the end of the terminal, whatever the kill
said (`Stop`), and `recoverSessions` for a host without terminals (`Boot`). What is said of terminals does not
hold then (section 6): `terminal_agents` checks it without this fault, and its theorems assume `HostAnswers`. That operations and recoveries
end is checked with it (`FarOperationsEnd`, on the second instance), and `CreatedOnce` and `UnfinishedIsReachable` are proved with it.

Not modelled: main agents, side chats, ACP agents, updates, forks, resuming an old record, history and its warnings, journal
compaction, shutdown, and the replacement of a host while an old one lives. A create that is stuck in memory at `membership-pending`
cannot be deleted before a restart; the model shows that as the code does. `UnfinishedIsReachable` therefore promises that a client
can *ask* for the delete, not that it is admitted.

### 3.8 NativePtyHost

A connection is used once; `Generation` is its server's identity. `queue` is `controllerRegistrationQueue`: `Begins` starts the first
registration or retirement, `Drains` waits for the mutations admitted so far (`upto`), `Releases` for a checkpoint of
the connection that loses control, `Ends` gives or takes control. `Admit`, `Run` and `Settle` are a mutation of a
terminal. `Serialize`, `Prepare`, `Resumes`, `Shutdown` and `HostEnds` are the host's side of its rotation, `Answered`,
`ResumeAny`, `RecoverSessions`, `Abort` and `ResumeAfter` the server's (`rotateMismatchedHost`); requests may
time out at any point. Servers behave as the client does: over one connection one attempt at a checkpoint, before any
mutation. Not modelled: reads, the idle exit, screen workers, the start of the new host, a host that knows no tokens, and
what single terminals do while frozen.

### 3.9 InventoryCache

One entry. A fingerprint and a load are sequences of `Read`s of single files, between which other programs `Change` them.
`Check` is `resolveCurrent`, `Reconcile`/`Conclude` one loop of `reconcile`, `Store` the write of the snapshot file, `Restart` an entry
made from that file. `options` are the two kinds of callers: files to which others append while they are read, and sources that may
change during a load. Not modelled: watchers and background refreshes (both callers switch them off), a change of the watched
paths, retention, and contents of a long file behind the hashed prefix (neither fingerprint nor value depend on them).

## 4. The runs

| Run | Configuration, MC module | Instance | Distinct states | Question |
|---|---|---|---|---|
| `generations` | Generations.cfg, MCGenerations | native: 3 processes, 1 claim each, a second by one that alone has published; ACP: 4 processes, 2 at a time, stalls | 1.10 million | Is the lock exclusive, accounted for and never taken from the living? Do both allocations refine GenerationAllocator? |
| `acp_generation_repeat` | AcpControllerGenerationRepeat.cfg, MCAcpControllerGeneration | 4 processes, 3 at a time | until violated | Does the older lock hold with three? (No: section 6.) |
| `orderly` | Orderly.cfg, MCOrderly | lock: 3 processes, 1 claim each; update: 1 operation, 2 versions | 66,529 | Is a dead claim reclaimed? Does a stopped server come back? |
| `inputs_and_updates` | InputsAndUpdates.cfg, MCInputsAndUpdates | 3 inputs, 1 interrupt, 2 runtimes, no failing reads; update: 2 operations, 2 versions | 2.02 million | Does the fence hold, and are reports true? Are effects owned, fences final, success real, helpers single? |
| `terminal_input_live` | TerminalInputLive.cfg, MCTerminalInput | 2 inputs, one in two chunks, 1 interrupt, 2 runtimes, both failures | 1.28 million | Whole inputs, right order, everything settled? |
| `terminal_agents` | TerminalAgents.cfg, MCTerminalAgents | lifecycle: 2 agents, 1 create request, 4 operations, 2 crashes, every fault but an unreachable host; the same with 1 agent and every fault; host: 2 servers, 3 connections, 2 mutations | 110,634 | One agent per request, owned and listed terminals, true reports, reachable leftovers? Operations that end even if the host is not reached? Exclusive control that changes hands? |
| `lifecycle_unreachable` | AgentLifecycleUnreachable.cfg, MCAgentLifecycle | 1 agent, no crash, an unreachable host | until violated | Is every running terminal in the server? (No: section 6.) |
| `lifecycle_archive` | AgentLifecycleArchive.cfg, same | 1 agent, 1 crash | until violated | Does an archive reach its end? (No: section 6.) |
| `followers` | Followers.cfg, MCFollowers | 2 pages, 2 agents, 3 changes, 1 fault; mirror: 2 bindings, 4 changes, 1 fault; inventory: 2 files, 2 changes, 1 invalidation, 1 restart | 550,311 | Do pages and mirror follow, and catch up? Is no answer older than its request? |
| `composer_delivery` | ComposerDelivery.cfg, MCComposerFaults | 2 messages; a message and a steer with crashes | 326,204 | At most once, accepted means delivered, definite failures, order, settlement? |
| `prompt_repeat` | ComposerDeliveryRepeat.cfg, MCComposerDelivery | 1 message, autonomous turns | until violated | Delivered once? (No: section 6.) |
| `prompt_doubt` | ComposerDeliveryDoubt.cfg, same | a message and a steer, late steers | until violated | Does failed mean no effect? (No: section 6.) |

### Why the bounds are enough for the cases that matter

- *Lock.* The hazard needs a dead holder, a breaker that reclaims and a slower breaker that saw the
  same claim; with three processes the fast breaker can also be the new holder whose live claim the slow
  one would take. A state constraint of `MCGenerations` (`FewReturns`) lets each process publish one claim, and
  a process that alone has published come back for a second: so a process releases, or fails to release, and
  acquires again, and the retry of an unproven release (`pending`) is reached. In `orderly` each process
  publishes once. The proofs have no such bound.
- *ACP generation.* Four processes with two at a time: one leaves a stale lock, two break it, one of these dies with
  the lock taken, and the fourth meets the survivor. `LastAfterDeaths` lets the fourth begin when two have died; without this bound
  (2.1 million states with the native part) it holds as well.
- *Update.* Two operations are needed for one to supersede the other; two versions for a target that is
  not the running one. `Shared = {v2}` lets another Config move the pointer, `{v1, v2}` in `orderly`
  both ways.
- *Lifecycle.* One request, repeated, and a second agent that it would start if it ran twice; each agent has a journal and an operation
  of its own, so the operations that follow each other are those of one agent. Four operations
  give a create, an archive or delete behind it and one more behind that; two crashes put one into the recovery of the
  other. With an unreachable host a revived terminal loses its journal and with it the request, which may then start another agent, and another:
  ids run out (`Fresh` in `OperationsEnd`). That instance has one agent.
- *Host control.* Two connections of one server and one of a newer one: the first takes a checkpoint and breaks, the
  second resumes for it, the third takes over at any point of that. Two servers that both rotate the host were explored
  with one mutation (127,865 states with the lifecycle part).
- *Followers.* Two changes give a delta that overtakes, repeats or misses the one before, and a third one a delta behind it
  (`DispositionGap` is not found with two). One page loses its connection or its deadline, the other is clogged;
  queues of one overflow at once. Of the three changes the last is one that no event announces (`LastIsQuiet`), which only the next
  checkpoint notices. The mirror has one fault at a time: with two it holds as well (785,000 states); what two add is
  the `mixed` case, which is exempt.
- *Inventory.* Two files are what a torn read needs; two changes can fall before, into and behind a load.
- *Terminal.* One input lost, one in flight and one waiting need three; the interrupt overtakes them; two
  runtimes let an answer belong to a replaced one. `terminal_input_live` has two inputs, one of them long.
- *Chat.* Overtaking and joining a turn need two messages. The safety properties were also explored on three
  messages with every fault but crashes (4.7 million states); crashes together with every other fault
  exceed 20 million states, hence the two runs.

Symmetry is used only where no liveness property is checked, over identifiers that the specification treats
alike (processes, operation ids, short inputs).

### Fairness, and why the code justifies it

- `OrderlySpec` (lock): weak fairness of what a running process does by itself and of the holder's release,
  strong fairness of `JudgeDead` and `RereadSame`: the inspection of a dead process may fail, but not every
  time. Processes die only while they hold the lock and calls do not fail: a breaker that dies with its
  marker in place blocks that claim for good, by design of the code.
- `AttendedSpec` (update): weak fairness of each helper, whose waits are all bounded by time-outs in
  the code; no helper dies, nobody else stops the server, and a helper that has killed it sees it end. Without a watcher,
  a helper that dies after stopping the server leaves it stopped; one whose `stopProcess` throws after the kill
  (`StopError`, in `UpdateSpec` only) rolls back if the process is gone, and hands the update back if it is still to be seen.
- `FairSpec` (lifecycle): the server goes on with an operation it has begun, with an admitted request and with its recovery; kills and
  provider archives return. Clients need not ask again.
- `FairSpec` (host control): the host does not stop while it can do something, so mutations end and terminals can be
  read; a server that asked for a checkpoint goes on as long as its connection lasts. Servers need not register, mutate or leave.
- `Runs` (broadcast): timers fire, sockets deliver while open, a clogged socket drains, a page reconnects.
- Host and server (mirror): both go on working, and the client connects again because every operation of the facade begins with
  `initialize`. In `MCFollowers` and `MCTerminalAgents` the fairness is that of the part that moves.
- `FairSpec` (terminal): the queue hands out turns and every request to the host has a time-out. Nothing is
  assumed of the host, the runtime or the provider, nor of checkpoints.
- `FairSpec` (chat): server and host go on working, the connection is made again, the deadline of an
  admission passes and a steer's time-out fires. The provider owes nothing. The time-out of a steer is what
  makes `LastingMessagesSettle` true for a message steered to a silent provider, so the run includes `"steer-late"`.

## 5. What is proved

Eight modules hold proofs, from the named assumptions on constants
(`MaxClaimsAssumption`, `NoClaimAssumption`, `FirstAssumption`, `SharedAssumption`, `NoneAssumption`,
`TerminalAssumption`, `RequestsAssumption`, `FaultsAssumption`, `BroadcastAssumption`, `LifecycleAssumption`,
`HostAssumption`, `MirrorAssumption`, `CacheAssumption`), which TLC evaluates in the runs. Where a theorem needs more, it says so in its ASSUME; those conditions are named below.

- `NativePtyGeneration_proofs`, the lock: `MutualExclusion`, `HolderIsPublished`, `LiveClaimAccounted`,
  `BreakIsCurrent` and `LiveClaimNeverBroken`, for any number of processes and claims. None is inductive.
  `IInv` adds what the argument really is: a claim on disk carries the latest sequence number of its
  owner (`ClaimsFresh`), so a stale observation can never equal a new claim; and a breaker past its
  marker pins the directory it marked (`Pins`), so two breakers facing the same dead claim would need the same
  marker, which only one of them could create.
- the same module, the native generations: every step is a step of the lock, so `IInv` carries over; with "whoever
  works holds the lock" it gives `ReadIsCurrent` and the refinement `FileSpec => Fenced`.
- the same module, the ACP controllers: `OneWriter` and the refinement `AcpFenced` for any number of processes and claims, under
  `TwoAtATime`: at most two processes allocate at once, and none dies while it has a directory moved aside. Both conditions
  are those of the run, and without the first the promise is false (section 6); stalls are allowed. The argument
  (`AcpInv`): the directory of a live holder is at the lock path, or the only other process has it aside (`OwnersKeep`);
  that process judged a dead owner (`JudgedDead`), sees that it moved another one, and finds the path vacant to put it back.
- `UpdateOperation_proofs`: `EffectsAreOwned`, `FencedStaysFenced`, `SucceededHasRun`, `OneHelper`, for any
  number of operations and versions. The invariant `UInv` links the file to every place where
  somebody remembers it: a launched operation's helper and payload (`Launched`), fenced ones (`Fences`), a
  prepared one without a helper (`Prepared`), an apply that awaits (`Awaited`), a decision not yet published
  (`Decided`), and what has run (`HasRun`). `Awaited` and `Decided` carry the facts that a request checked
  before an await and relies on after it.
- `TerminalInput_proofs`: `TypeOK`, `WritesAreWhole` (`InputsStayWhole`) and `WritesAreOrdered` for all failures; `NothingCrossesDoubt` and
  `InDoubtIsFenced` under `Failures = {}`; `ReportsAreTrue` for inputs of one chunk (`Long = {}`), since for longer
  ones it is false (section 6); for any number of inputs, interrupts and runtimes. The argument for the fence: epochs only grow
  (`EpochsFollow`), waiting inputs carry a phase not above the fence's (`PhasesFollow`), a runtime in
  doubt has an active fence (`DoubtIsFenced`), and whatever is barred is behind that fence's phase for as long
  as its epoch lives (`BarredIsBehind`). That for order and reports (`PathInv`) follows one input from the queue through the
  host's chain: an input is in one place at a time, and what is behind it in one place was behind it in the one before. For whole
  inputs it says that what is partly written in a live session is the first of the host's chain and may still be written there.
- `ComposerDelivery_proofs`: `AtMostOnce`, `AcceptedWasDelivered`, `FailureIsDefinite` and `QueueIsKept` under every fault,
  crashes included. `HostInv` relates, request by request, the operation, its execution, the steer and the
  count of deliveries; `Told` says that every verdict and every event rests on a delivery; `Definite` that a
  request without a verdict, or with a definite failure, has a resting operation and nothing on its way. For the order,
  `Ordered` says that a message waits for others only while it is itself in the queue and has not been sent.
- `AgentStateBroadcast_proofs`: `ViewIsTracked` and the refinement `Follows` (safety of StateFollower), for any number of agents and pages, any
  queue length, page size and trouble. The argument follows one connection from end to end: what is on the wire,
  in the queue and on the page forms one chain, in which every delta continues the snapshot or delta before it, or is older
  than what the page has, or is followed by a resynchronization; so the page's `Disposition` can never apply a
  delta to a state that is not its predecessor.
- the same module, the mirror: `MirrorIsHost` and the refinement `MirrorFollows`, for any number of hosts, bindings, events and faults, and
  any size of the host's and the client's buffers. Four facts carry it (`MirrorInv`). While the connection is open, the host is the one
  that the client was registered with (`HostAttached`), so that a sequence number means an entry of one stretch of the log, in which
  every event leads from one entry to the next (`HostCounts`). What was heard has happened (`Heard`). At most one recovery's request or
  answer is outstanding, and only while the client takes itself for recovering (`Recoveries`): its copy stands still meanwhile, hence the
  answer is no older than the copy that it completes. And a copy that is not mixed is the log's entry for its number (`Copied`).
  What a sequence of events makes of a copy (`After`, `Reached`) is a recursive function; `AfterIsHost` and `ReachedIsHeard` show by
  the least counterexample that it follows the log and ends no later than the host is.
- `AgentLifecycle_proofs`, for any number of agents, requests and crashes: `CreatedOnce` and `UnfinishedIsReachable` under every fault;
  `LiveIsOwned` (`LiveIsRecorded` and `LiveIsListed`) and `ReportsHold` under `HostAnswers` (`"unreachable" \notin Faults`), without which they are false
  (section 6). The invariant `LInv` has two halves: the shape of a journal (`Shaped`: only its last operation may be unfinished), and, for
  each `step` of the server, what the record, the terminal and the memory must be for the code to be there. The terminal of
  an agent is alive only in the steps, and with the journals, listed there; these conjuncts are guarded by `HostAnswers`. `ReachInv`
  adds that a record with an open create or delete names its agent, and that the agent is present once the recovery has made its rows.
  For `LiveIsListed`, `SettledInv` says how a journal without an unfinished operation ends, so that the record of a
  running terminal is always one that `Restorable` restores, and `ListedInv` that nothing drops such a row before the terminal has ended.
- `NativePtyHost_proofs`: `ControlIsExclusive` for any number of servers, connections and mutations, any of which may
  break or time out (`HostAssumption`: a connection has a generation, "no connection" is none); `TerminalsHaveOneController` of
  `AgentLifecycle_proofs` carries it over to the instance in `TerminalAgents`. The inductive invariant has, besides
  the types, that a mutation belongs to who admitted it (`Owned`), where the hand-over of control stands (`Handover`) and what is
  frozen while the host prepares its end (`Preparation`).
- `InventoryCache_proofs`: `AnswersAreCurrent` for any number of requests, files and changes (`CacheAssumption`);
  `InventoriesAreCurrent` of `AgentStateBroadcast_proofs` carries it over to the instance in `Followers`. Files
  only move on (`Monotone`). A load lies between two fingerprints (`Computes`); when these are the same, the files stood still
  meanwhile and the value is what they were; what is kept or found in the snapshot file is such a value (`Keeps`), and it serves again
  only when a scan made since the request has its fingerprint (`Answered`).

`UpdateTypeOK` (UpdateOperation) and `TypeOK` (TerminalInput) are no properties of a run; they are proved (`UpdateTypeCorrect`, `TypeCorrect`).

Only model-checked:

- all liveness (`DeadClaimIsReclaimed`, `ServerComesBack`, `InputsSettle`, `LastingMessagesSettle`, `PartPagesCatchUp`,
  `MirrorCatchesUp`, `FarOperationsEnd`, `ControlChanges`), since the prover does not handle liveness under fairness;
- the type of `turn` in ComposerDelivery, whose control tail is filtered with `SelectSeq`: that is defined by recursion,
  which the prover cannot unfold.

## 6. Where code and promise disagree

Five runs end in a violation on purpose; the property states what a test, a comment or a document of the repository says.

1. `acp_generation_repeat`. While a slow breaker has a *live* lock moved aside
   (`acp-runtime-host-controller.cts:84`), a third process finds the path free, acquires it and reads the same
   file: two allocations return one generation. `backend/tests/test-acp-runtime-host-state.ts:14-18` expects
   concurrent allocations to be distinct. With two allocators at a time it holds (`generations`).
2. `prompt_repeat`. A steer that the provider took is followed by a check that its turn is still there
   (`acp-runtime.cts:3660`). If an autonomous turn ended meanwhile, the error reads as "not taken" and the same
   message is sent as a prompt. `docs/products/code/real-codex-release-case.md:31`: input arrives "exactly once".
3. `prompt_doubt`. A steer's time-out (`acp-runtime.cts:3649`) is an ordinary error and recorded as a definite
   failure although the provider may have the message. `docs/products/code/composer-input.md:33`: time-outs
   "preserve an unknown row".
4. `lifecycle_archive`. `MarkArchived` saves the record as `provider-archive-pending` with an empty `runtimeAgentId`
   (`agent-manager.cts:11107`). If the server dies before the provider's part is recorded, no recovery finds the record
   (`agent-manager.cts:2660` and `:3042` pass over records without one) and the operation stays unfinished, against the comment at `:11153`.
5. `lifecycle_unreachable`. A delete or archive ignores a failed kill, and takes "Native PTY host failed to start or connect" and "is not
   reachable" for the end of the terminal (`agent-manager.cts:11530-11535`, `:1323-1327`; the client says so for `ENOENT`, `ECONNREFUSED`,
   `ECONNRESET`, `EPIPE` and `ETIMEDOUT` once it has retried, `native-pty-host-client.cts:627-646`). The operation commits and the agent
   is forgotten, while its terminal may run on. `docs/products/crt/agent-cleanup-history.md:14`: an agent leaves the live list "only after a terminal
   runtime outcome"; `:24`: "If termination cannot be proven, the Agent remains visible with a retryable failure."
   The undo of a failed create takes the same answer for no proof (`agent-manager.cts:4996`) and keeps the agent.

Further divergences met while modelling, described here and in the notes of the hazards. The first three
show when a constant of TerminalInput is changed:

- a checkpoint whose read failed still opens the fence, since the remembered epoch passes for evidence
  (`agent-manager.cts:11932`, against the comment at `:8017`): `Failures = {"error"}` violates
  `InDoubtIsFenced`;
- a short outage of the host marks the agent dead and deletes its fence, the next view revives it
  (`agent-manager.cts:7861`, against `:7831`): `Failures = {"unreachable"}` violates `NothingCrossesDoubt`;
- an input of which one chunk was written may be reported as rejected (`native-pty-host.cts:1361`, against
  `agent-manager.cts:1332`): `Long # {}` violates `ReportsAreTrue`;
- a prompt that the provider took and then failed leaves a failed operation; after a crash that lost the
  record, the resubmitted id is answered as a definite failure and a retry runs it again (in `doubt`);
- an event gap noticed between the registration and its `recover()` starts an orphan recovery, with which
  `connectAndRegister`'s own recovery collides and throws; when the orphan fails, its `error` event has no listener
  (`acp-runtime-host-client.cts:302`). The mirror survives both (the client connects again), the server process need not;
- the facade lays what a read of a session returned over a summary that an event made newer meanwhile
  (`acp-runtime-host-runtime.cts:399-404`, against its comment `:405`); `MirrorIsHost` exempts such a facade until the
  next event or recovery, and is violated without the exemption;
- a request that times out during registration is retried against a new host with the epoch already taken from the ping
  (`acp-runtime-host-client.cts:501`), which defeats the epoch check at `:633`; such a client is `mixed` and exempt;
- when the buffer of a recovering client overflows between the answer and its continuation, the facade copies an
  empty client until the next recovery;
- the recovery takes a host that it cannot reach for one without terminals (`native-session-engine.cts:351`): unfinished creates are recorded
  as failed and deletes as done while their terminals may run. When such a terminal is found by a later recovery and the main page
  still has its session, its agent is revived with an empty journal: a repeated create request no longer finds
  it and starts another agent. `CreatedOnce` speaks of what is on record and does not count the revived one;
- a failing save in the recovery's loop ends the recovery (`agent-manager.cts:2873`, `:2894`), and the server
  refuses every request until it is started again; terminals behind the failing one were not looked at;
- the recovery's second transition of an archive writes the record without the patch of the first, so that it gets a runtime and
  `archived: false` back (`agent-manager.cts:3124`); if the provider fails, the agent is forgotten with a blocked journal
  until the next start;
- `serializeTerminalState` is not fenced by `controllerHandoff` (`native-pty-host.cts:1705`): a connection that resumed and
  asked again during a hand-over would leave a checkpoint that nobody releases. The client never does that, since over one connection
  it asks once; the model's servers behave likewise. For the same reason a checkpoint never starts while mutations are admitted, so
  the refusal in `Run` is there but not reached;
- a request that joins a computation of the inventory cache during its `await snapshots.set`
  (`authoritative-inventory-cache.cts:470`) gets a value that may be older than the request, and than an invalidation before it;
  the session inventory repeats the read (its `revision`), the extension inventory does not;
- the guard of `startInstall` omits `preparing-runtimes` (`update-service.cts:886`), so a second start
  supersedes the first; `EffectsAreOwned` and `OneHelper` hold all the same;
- a helper that dies after stopping the server leaves the state at `restarting` and no server; a failure to
  write `succeeded` rolls a healthy update back; a stop that throws after its kill may leave a prepared update and no
  server (`npm-update-helper.cts:641`, `:657`);
- `farming daemon` stops whatever server of the Config runs before it starts one
  (`farming-app-cli.cts:1646-1663`), which `Start` models.

## 7. Plan

1. `ComposerAdmission`: terminal delivery on TerminalInput, caps and retention. Hazard `agent-composer-admission.cts:254`.
2. `CommunicationExchange`: exchanges between agents, their time-outs and late replies. Hazard
   `agent-communication-service.cts:278`.
3. `ForkOperation` and `SessionResume`, both on AgentLifecycle's journal; ACP agents in AgentLifecycle.
4. Terminal flow control and the browser relay.

The hazard `npm-update-helper.cts:640` stays without a property: nothing restarts a server whose helper died after stopping it, so
there is no promise to check.

Every safety property of the passing runs is proved. To follow with the modules above: their invariants.
