# Formal model of re-prime

re-prime is a coding agent: a TypeScript monorepo in which `packages/agent` holds the
agent loop, `packages/ai` the model providers, `packages/tui` the terminal library and
`packages/coding-agent` everything else: sessions, tools, the daemon and the user
interfaces. This directory holds TLA+ models of the parts whose correctness depends on
the order of asynchronous steps, the TLC configurations that check them on small
instances, and TLAPS proofs of the results that matter most. Paths below are relative to
`packages/`; `core/` is `coding-agent/src/core/`.

## 1. Inventory

All of the program is single-threaded JavaScript. Concurrency comes from `await`: between
two awaits a function runs alone, at an await anything may happen. Separate processes meet
only through the file system and the daemon's socket.

| component | state it keeps | operations | what is hard | what makes it correct |
|---|---|---|---|---|
| file mutation queue, `core/tools/file-mutation-queue.ts` | a map from file key to the tail of a promise chain | `withFileMutationQueue` | settling races with later calls; the key depends on whether the file exists | one call per key at a time, in call order; no entry leaks; every call settles |
| edit tool, `core/tools/edit.ts` | an abort flag and a promise per call | `execute`, the abort listener | an abort answers the caller while file operations go on | successful edits survive; every call is answered |
| agent loop, `agent/src/agent-loop.ts` | context, pending messages, flags of the run | prompt, poll, reflex, stream, tool batch, stop, follow-up, continuation | an abort or a throwing listener at every await; parallel tools | the transcript agrees with the events; every call has its result; an aborted run ends |
| agent, `agent/src/agent.ts` | transcript, steering and follow-up queues, the active run | `prompt`, `continue`, `steer`, `followUp`, `abort`, clear and remove | queues filled at any time, drained by a run or by `continue` | each message recorded once, in order |
| session lease, `core/session-lease.ts` | a directory with `owner.json`, a lock file | `acquireSessionLease`, `release` | crashes anywhere, pid reuse, a lock file that goes stale | at most one live holder; every call returns |
| action store, `core/session-action-store.ts` | two lanes of actions and their lifecycles | enqueue, select, roll back, remove, release | actions cancelled while the pump holds them | legal transitions; FIFO within a priority |
| input scheduler, in `core/agent-session.ts` | pump, epoch, suspension, pauses, activities | admit, pump, abort, resume, pause, clear, wait | what is checked before an await is stale after it; every holder must wake the pump | nothing dispatched while held; nothing delivered twice or left behind |
| session manager, `core/session-manager.ts` | the tree of entries, the leaf, the labels, `flushed`, and a JSONL file | append in several variants, flush, branch, new, clone, fork, open and repair | nothing is written before the first assistant message; a crash or a failed append tears a line; copies drop entries that others hang from | what was reported as written can be loaded again; a session and its copy show the same history |
| supervisor registry, `coding-agent/src/modes/daemon/daemon-supervisor-ownership.ts` | a guard directory, owner records, one shutdown admission, startup fences | acquire, release, admit, renew, persist a fence | crashes anywhere, a guard taken from a stalled holder, leases that elapse | one owner per socket and descriptor directory; no start during a shutdown; what the dead leave behind stops nobody |
| command gate of the supervisor, `daemon-supervisor.ts`, `command-recovery-journal.ts`, `mutation-drain-latch.ts`; sender in `daemon-client.ts` | the journal, a count of commands in flight, the eviction fence, the restart phase, `shuttingDown` | admit, run, record, acknowledge; evict; prepare a restart; shut down | commands sent twice, supervisor crashes, everything waits for everything | no command runs twice or after its rejection; a restart is prepared while nothing runs, and nothing but a shutdown follows it; every command is answered |
| RLM ledger, workers, `coding-agent/src/modes/daemon/` | durable child-run records, worker table, worker journal | start, finish, recover | late answers of old workers | a child run ends once |
| cron jobs, goals, autonomous mode, `core/cron-jobs.ts`, `goals.ts`, `autonomous.ts` | jobs, goals, timers | schedule, claim, fire, pause, complete | restart while a job is due; missed runs | a due job fires once |
| REPL manager, `core/kernel/repl-manager.ts`; orphan journal | kernel processes, executions | start, execute, interrupt, restart, reap | interrupt racing completion; processes left by a crash | one execution at a time; orphans only are killed |
| compaction, refinement, retry | cut points, plans, attempt counters | compact, plan, apply, retry | they replace the transcript other code holds | no message lost or duplicated by a cut |
| context functions, `tool-output-cap.ts`, `image-ttl.ts`, `context-janitor.ts` | none | pure functions of the transcript | boundaries | size bounds, protected tail untouched |

How they interact. `AgentSession` owns an `Agent`, an `ActionStore` and a session lease.
Clients submit input; the scheduler admits it into the store and its pump hands it to
`Agent.prompt` when nothing holds dispatch. `Agent` runs `runLoop`, whose events come back
to the session, move actions through their lifecycle and are appended to the session file.
Tools run inside the loop; the edit tool runs inside the file mutation queue. In daemon mode
sessions live in worker processes under one supervisor, which owns its socket through the
registry, passes mutating commands through the gate and hands over to a successor when it is
updated: the updater holds the registry's shutdown admission, the old supervisor's gate
drains, and the new one waits for the startup fence.

`PROJECT.json` lists the components with their status, and the hazards: the places in the
code where a schedule nobody tests could go wrong, each with the properties that watch it.

## 2. Modules

| module | models | state and actions |
|---|---|---|
| `FileMutationQueue` | the queue with an abstract callback | `Enqueue` is the synchronous prefix of `withFileMutationQueue`, `RunFn` the resumption of its await, `Settle` its finally block. A promise link is named by the call that made it. Files are created and removed by the environment. |
| `EditTool` (extends it) | `execute` as the callback | one action per file operation; `Abort` fires a signal shared by several calls; `Truncate` and `WriteDone` split `writeFile`. A file's content is the set of edits it shows. |
| `AgentLoop` | `runLoop`, `streamAssistantResponse`, `executeToolCalls*` and class `Agent` | `pc` names what the run awaits. `messages` is the transcript reduced from events, `context` the loop's copy. Providers, tools and hooks answer nondeterministically. |
| `MessageDelivery` | what a message queue promises | accept, withdraw, take, deliver in order, drop. `AgentLoop` instantiates it twice, for steering and follow-ups. |
| `SessionLease` | acquisition and release by several processes | one action per file system call; processes start, crash and reuse pids; the guard lock file can go stale. |
| `Subsequences` | `Array.filter` | `Keep`, without recursion. |
| `ActionStore` (extends it) | lanes, lifecycle, insertion, selection | operators that compute the store's next value. |
| `SessionScheduler` (extends it) | admission, pump, interventions | `pump` names what the running pump awaits; `stale` says that the epoch moved since it was scheduled. `arrivals`, `interrupted` and `unseen` are history: the order of admission, the turns an abort or a pause came upon while they were prepared, and the prompts started directly after the running pump had looked for one. |
| `SessionTree` (uses `Subsequences`) | the session manager | each action is one synchronous call. `disk[f]` is a file as a sequence of lines with the state of its last line; `flushed` is the manager's belief about it. A write has a set of outcomes: done, failed, failed half way. |
| `SupervisorOwnership` | the registry, used by supervisors and updaters | one action per stretch of the code between two file system accesses another process could interleave with; `job` and `pc` say which call a process is in and where. Processes crash anywhere, and `MaxSteals` guards are taken from live holders. |
| `CommandGate` | `handleLine`, the journal, the latch, evictions, restart preparation, shutdown, and the client that resends | a step is what runs between two awaits of the supervisor. `at[l]` follows each delivery of a command; `entries` is the journal in memory, `journal` the file, `halt` how far `shutdown` has come. |
| `EditToolProofs`, `AgentLoopProofs`, `SessionLeaseProofs`, `SubsequenceProofs`, `SessionSchedulerProofs`, `SessionTreeProofs`, `SupervisorOwnershipProofs`, `CommandGateProofs` | theorems and their lemmas | each extends the module it is about; `EditToolProofs` also holds the theorems about the queue. |
| `MC*` | constants of the runs | |

Abstractions worth knowing:

* The pump's epoch is compared with the current one only, so a pump carries one bit.
* In `AgentLoop` a listener that throws in the middle of an action is modelled just before
  or after it, since a failed run drops all local state; the one exception, a listener
  that throws while other parallel tools are running, is an action of its own
  (`ToolEndThrows`), and the tools left running end later (`ZombieEnds`).
* One tool with `executionMode: "sequential"` makes its whole batch sequential, so the mode
  is a choice per batch.
* The queues of `Agent` hold batches; here a batch is one message. A message object is
  submitted through one call, so the sets of prompts, continuations, steering and follow-up
  messages are disjoint (`LoopAssumption`).
* `Array.filter` is `Keep` of `Subsequences` in every module, the specification's own
  `MessageDelivery` included.
* In `SessionScheduler` the commit fence is not modelled: the handoff is one step.
* In `SessionScheduler` `Admit` is one step: the resumption after an abort, the wait for the
  admission fence, the input handlers and the admission itself. What happens at those awaits
  happens before or after it here.
* `SessionLease`: an unreadable `owner.json` spends an attempt, a corrupt one throws; any other
  error of the rename than contention does one or the other (`RenameFails`).
* `AgentLoop`: an abort that lands in a poll rejects it or comes too late for it; which of the
  two is a matter of microtasks, so both are possible, and in the second case the loop meets
  the abort at its next `throwIfAborted`.
* `SessionTree`: an entry is a number, its parent, its kind and one reference. The kinds are
  those the code treats differently; all others are `"plain"`. Ids are never reused, so a
  clash of random ids is not represented. Sessions are not kept open by two processes: the
  lease sees to that. `createBranchedSession` writes the labels again in the order of the map
  that holds them; here in the order of the path, and no property tells the two apart.
* `SupervisorOwnership`: the guard is presumed abandoned when its holder is dead or, at most
  `MaxSteals` times, when a live holder stalled for 5000 ms. A live holder renews no guard,
  and finds out only after its action (`assertGuardHeld`). An admission's lease elapses at any
  time (`Elapse`). A process is in one call at a time, except that an admission can be
  released while its renewal waits for the guard. `"leaving"` is a supervisor that has set its
  own record aside and not yet returned from the guard; `released` is set after that, and a
  release that throws can be repeated.
* `CommandGate`: what a released fence wakes runs before the next event (`Quiet`). The code
  awaits only promises in between, among them `assertCurrent`, which reads synchronously, so
  the continuations are microtasks and no socket event or timer comes first. Faults (lost
  connection, crash, loss of the registry record) share the bound `MaxFaults`.
  For the same reason the drains of a preparation do not interleave with lines a fence has just
  woken: both go through the same number of awaits of settled promises, so the lines of one
  release, which were queued first, have begun before the latch is looked at again.
* `CommandGate`: `shutdown` stands for the command of that name and for `restart`; both answer
  first and call `shutdown()` in a `setImmediate`. Stopping the workers only takes time.
* `CommandGate`: what `load` makes of the journal is stated per command: what its last
  `received` record and the records behind it come to. `MCCommandGate` assumes that this equals
  the loop of the code (`Replay`), and TLC evaluates that assumption over all short journals.
* `Keep` says where the n-th member kept stands. `MCSessionScheduler` assumes that it equals
  `SelectSeq`, and TLC evaluates that over all short sequences.

Definitions named after a fault (`ForgetfulSettle`, `LeakyRequestAbort`, ...) are variants of
the definition they are listed with in `PROJECT.json`. Each is a slip the code could
contain, and substituting it makes TLC report the named property: the properties are not
vacuous.

## 3. Runs

| run | instance | result |
|---|---|---|
| `edit_tool` | 3 edits of 1 file under 2 names, 2 of them under one abortable signal | holds, 123,000 states |
| `agent_loop` | 1 prompt, 1 steering message, 1 continuation, 2 calls a turn, 1 reflex, 2 tool turns, 1 failure | holds, 275,000 states |
| `agent_queues` | 1 prompt, 2 steering messages, 1 follow-up, 1 failure, no tools | holds, 708,000 states |
| `session_lease` | 3 processes, 2 with the same pid, 2 leases each | holds, 21,000 states |
| `scheduler_safety` | a direct prompt, 2 follow-ups that can share a batch and one of a higher priority; all interventions but user bash, clears at any time, 2 of them, all faults | holds, 1,410,000 states |
| `scheduler_live` | a command, a direct prompt, a follow-up, a steering message; compaction, user bash, refinement, clears outside of a preparation, 2 of them | holds, 167,000 states |
| `scheduler_pause` | a direct prompt, a follow-up, a work pause | violated: the follow-up stays queued with nothing holding it |
| `session_tree` | 2 files, 3 entries of 6 kinds, 1 crash, failed write or deletion | holds, 912,000 states |
| `session_clone` | 2 files, 4 entries, labels, no faults | violated: a clone behind a label loses the history before it |
| `supervisor_registry` | 2 conflicting supervisors, 2 updaters, crashes, 1 stolen guard, 1 fence | holds, 1,087,000 states |
| `supervisor_recovery` | 3 supervisors, 1 updater, crashes, 1 fence | holds, 181,000 states |
| `command_gate` | an ordinary command, a restart preparation, a shutdown, 2 evictions, 1 fault | holds, 696,000 states |

**What the passing runs show.**

*Files.* `KeyFifo`: calls of one key run one at a time in call order. `OverlapOnlyByAbort`,
`SuccessIsKept`: bodies of edits of one key overlap only after an abort, and an edit reported
as successful is in the file unless an edit aborted inside `writeFile`, a failed write, or an
edit that was queued under another key (one name resolved before the file existed, another
after) touched it. `EveryEditAnswered`.

*Agent.* `TranscriptAgrees`: whenever the loop is between turns or about to call the
provider, its private copy equals the transcript reduced from events. `ResultsFollowCalls`,
`NoDanglingCall`: results stand in call order directly behind the message that asked for
them, and a run that goes on has answered every call. `AbortSettles`: an aborted run ends
although tools and providers may never answer. `QueuesDelivered`: both queues implement
`MessageDelivery`, that is, at most once and in order. `LossNeedsInterrupt`: a drained
message is lost only by an abort or a failure. Such losses do exist:
`pollMessagesUnlessAborted` drains before it awaits.

*Lease.* `LeaseExclusive`, `HolderOnDisk`, `EveryCallReturns`.

*Scheduler.* `HandoffIsClear`: a turn that an abort or a pause came upon while it was being
prepared is not handed to the agent by that preparation, whatever ended meanwhile; the property
looks at the interventions themselves, not at the epoch by which the code notices them.
`LaneFifo`: turns of one lane and priority enter the transcript in the order of admission,
through batches of two, a higher priority that overtakes both, rollbacks, clears and failures,
except for a prompt that a waiting pump could not see (`unseen`, below). `NothingHalfWay`: with no pump running, no undelivered action is
preparing or running. `NoIllegalTransition`: no transition outside the lifecycle, and no
action is delivered twice. `NothingStranded`: a queued action is taken up unless something
holds it back, when only compaction, user bash, refinement and clears outside of a
preparation (`"quietClear"`) intervene.

*Session file.* `SavedIsLoadable`: an entry reported as written is found when the file is
opened after a crash, unless a plain append failed on the file since it was opened or
replaced. `FlushedIsFaithful`: while the manager believes the file up to date, the file
loads as exactly what is in memory. `ForkKeepsBranches`: a fork has the same branches for
the entries it keeps. `BranchKeepsContext`: a branched session shows the model what the
branch showed it.

*Registry.* `OwnersExclusive` and `OwnerOnDisk` hold even when a stalled process loses the
guard and goes on: after its write it finds the guard gone and fails, so it is no owner.
`NoStartDuringShutdown` and `OneFreshAdmission` are about schedules in which no guard is
stolen. `StoppedNeverRewritten`: a released admission is not armed again by a renewal that
waited for the guard meanwhile. `StarterRecovers`: whatever guard, records, admission and fence
the others left, the last process alive becomes owner when it starts; its mutant is a wait for a
dead owner's fence.

*Gate.* `AtMostOnce`: no command is dispatched twice, over resends and crashes.
`RejectedNeverRuns`: a command the client was told is rejected for a restart has not run
and does not run. `JournalAgrees`: the file loads as what is in memory. `PreparedIsQuiet`:
while the manifest is written nothing else runs, and once it is, only a `shutdown`, which
`daemon-supervisor.ts:1988` lets through. `OverlapNeedsEarlierFence`: a
command runs during an eviction only when it may run while draining or had waited for an
earlier fence. `EveryCommandAnswered`: commands, evictions and the preparation do not wait
for each other for ever.

**What the violated runs show.** Each quotes a sentence of the repository in `PROJECT.json`.

* `scheduler_pause`: a queued-work pause begins and ends while a turn is prepared. The
  release finds nothing selectable; the pump rolls the turn back with `blocked` set, which
  suppresses its own reschedule.
* `session_clone`: the copy leaves out the labels on the path and re-creates them at its end
  but keeps the parents of the other entries (`core/session-manager.ts:2242`). An entry that
  hung from a label has a parent that is not in the new file, and the branch ends there.

**Variations that also fail**, for whoever changes this code. The first four take an edit of a cfg:

* `Busy = {"executeBash"}` in `MCSchedulerLive.cfg`: `executeBash` ends without scheduling
  the pump (`core/agent-session.ts:13272`), unlike `runUserBash`. With `"waiter"` in `Env`
  the property holds again, also for pauses and clears: a waiting `waitForIdle` schedules
  the pump.
* `Env = {"clear"}` in `MCSchedulerLive.cfg`: `clearQueue` moves the epoch when it removes a
  turn in preparation (`core/agent-session.ts:7403`) and schedules nothing. A direct prompt
  behind the cleared turn, which is not cleared, or a command admitted while an outdated pump
  is still requested, stays queued.
* `GuardCanExpire = TRUE` in `MCSessionLease.cfg` breaks `LeaseExclusive`: the critical
  section is synchronous, so its lock file is not refreshed, and 5 seconds inside it let a
  second process in.
* `TornWrites = TRUE`, `MaxFaults = 2` and `Cmd = {m1, d1}` in `MCCommandGate.cfg` break
  `AtMostOnce`: `load` skips a torn last line, as its comment says
  (`command-recovery-journal.ts:49`), but leaves it in the file, and the next `append`
  continues it (line 178); after a second crash that command is unknown and runs again.
* `SavedIsLoadable` without `poisoned`: a plain append that fails half way leaves `flushed`
  set over a torn line (`core/session-manager.ts:1742`), and the next entry is lost with it.
* `NothingHalfWay` with `{}` for `durable`: an abort during a run whose last event was
  rejected leaves the delivered action in state running.
* `LaneFifo` without `unseen`, in `scheduler_safety`: with a compaction under way a follow-up
  is queued; its pump finds nothing preselected and awaits; `clearQueue` removes the follow-up
  without moving the epoch; a direct prompt is admitted and selected beside the pump, and
  another follow-up is queued behind it. The pump goes on with `selectFirst`, which skips the
  selected prompt (`core/agent-session.ts:6784`), and the follow-up is delivered first, unlike
  what `core/session-action-store.ts:323` says of equal priorities ("stay FIFO within a
  priority"). `LanesInOrder` proves that no other turn can be overtaken.
* Edits of one file are not serialised under aborts: `onAbort` (`core/tools/edit.ts:362`)
  rejects the promise the queue awaits, and the key is released while `writeFile` runs. This
  is why `OverlapOnlyByAbort` is the property.
* Events can follow `agent_end`: `handleRunFailure` (`agent/src/agent.ts:525`) records a
  message and emits a second `agent_end` when a listener throws on the first.
* A release of a session lease that cannot take the guard swallows the error after it marked
  itself done: the record of a live process stays and nobody may reclaim it.
* The comment at `daemon-supervisor-ownership.ts:652` says that only updaters reclaim an
  elapsed admission; a starting supervisor does so too (line 987).
* A command woken from a fence runs beside the next evictor's action: the fence is not looked
  at again after the await, unlike what the comment at `daemon-supervisor.ts:1353` suggests.

**Variations that hold** and are not among the runs: `Cmd = {m1, d1, p1}` in
`MCCommandGate.cfg`, with a command that runs while draining in place of the shutdown (256,000
states); `Supervisor = {s1, s2, s3}`, `Updater = {u1}` and `MaxFences = 2` in
`MCSupervisorOwnership.cfg` (572,000 states).

**Bounds.** The named bounds are `MaxCalls`, `MaxTurns`, `MaxFailures` (agent),
`MaxGrants` (lease), `MaxEvents` (scheduler), `MaxEntries`, `MaxFaults` (session file),
`MaxSteals`, `MaxFences` (registry), `MaxSends`, `MaxFaults` (gate). Two calls suffice for
every order of a batch; one failure reaches every catch block, and a second starts from a
state a first can also leave; two leases per process let a process meet its own earlier
record; two interventions, whose ends are not counted, allow a pause, its end and an abort or a
clear within one preparation, and a second activity behind a first.
Three calls or processes let one act while two others conflict. Three entries are a written
prefix, an entry that a fault hits and one written after it; 4 with a label between two
messages show the clone. One stolen guard puts two processes inside the section at once; a
second thief would be stolen from in the same way. Two evictions are the least with a fence
before and a fence after a command's wait; two deliveries are a command and its resend.
`scheduler_safety` has two ranks and two follow-ups of one execution policy, so that batches of
two, and a batch behind an urgent turn, occur; the other scheduler runs have one rank. One fence
is the least with a dead predecessor behind it. Every one of these systems may be idle for ever,
hence `CHECK_DEADLOCK FALSE`.

**Symmetry** is used for files in `session_tree`, whose temporal property is an action
property, and for processes in `supervisor_registry`, whose temporal properties are action
properties too; the runs with liveness use none.

**Fairness.** Weak fairness of the steps the program itself takes: the event loop runs
callbacks of settled promises. `AgentLoop` assumes nothing of users, providers or tools.
`EditTool` assumes that file operations return, `SessionLease` and `SupervisorOwnership` that
a live process goes on with a call it is in; that it starts one is assumed of nobody, and
crashes are never fair. In `SessionScheduler` the pump, the drain after bash and a waiting
caller are fair; ends of pauses and of activities are not: a queued action is excused while
one lasts. `CommandGate` assumes `Progress`: lines are handled, a running command ends, the
eviction's action ends, and a client that lost its connection connects and sends again as
long as `MaxSends` allows; a restarted supervisor is part of it, since `EveryCommandAnswered`
is about a client that has one to talk to.

## 4. Proofs

Checked by TLAPS for every value of the constants that satisfies the named assumptions.

* `EditToolProofs`, the queue: `ChainInvariant` and `KeySerialised` (`KeyFifo` in every
  reachable state). `KeyFifo` is not inductive: it says nothing of what a waiting call waits
  for. `ChainInv` adds that the map entry of a key covers all its live calls, that no entry
  outlives its call, and that the link a waiting call awaits covers every earlier live call
  of its key.
* `EditToolProofs`, the tool: `EditTypeCorrect`; `EditImplementsQueue`, every behaviour of the
  edit tool is one of the queue, hence `EditsOfOneKeyInOrder`; and `OverlapNeedsAbort`. The
  invariant adds to `ChainInv` that a body that may write has a target file, so the file a
  write creates is one the queue's environment may create, and that a body under way that
  was not aborted has not answered, so its call still holds the key. `SuccessfulEditsKept`
  (`SuccessIsKept`) needs more: an edit aborted before `writeFile` opened the file excuses
  nothing once it gives up. `Messed` names the excuses that last, and apart from them the file
  shows what was reported or is being written by the one unanswered edit, whose new content
  shows it.
* `AgentLoopProofs`, for any messages, queue modes, batch sizes and numbers of turns and
  failures: `LoopTypeCorrect`, `CopiesAgree` (`TranscriptAgrees`), `ResultsInOrder`
  (`ResultsFollowCalls`), `CallsAnswered` (`NoDanglingCall`), `LossIsInterruption`
  (`LossNeedsInterrupt`) and `QueuesImplementDelivery` (`QueuesDelivered`). None of the
  invariants is inductive, since they say nothing of a batch under way. `LoopInv` adds
  `HoldInv`, the places where a run may hold messages it has not recorded; `BatchInv`, that
  while tools run the transcript is the loop's copy followed by the first `k` results, with
  `k` the calls ended in a sequential batch, and 0 until all have ended in a parallel one;
  `IdsBounded`, so that a new turn's results cannot be mistaken for those of an old one; and `TurnAnswered`, that between turns the
  transcript ends with the last message and an answer to each of its calls. The refinement
  is one case per action for each queue: steps of the loop that touch neither the queue nor
  what was taken of it are stutters, a poll is `Take`, recording a user message is `Deliver`
  or a stutter, and the end of an interrupted run is `Drop`. It needs `HoldInv`, since `Take`
  asks that nothing taken earlier is left, and `SubsequenceProofs` for what `Keep` does to an
  appended, a removed and a first element.
* `SessionLeaseProofs`: `LeaseTypeCorrect` for all instances, and, when no guard of a live
  process goes stale, `LeaseInvariant`, `LeaseIsExclusive`, `LeaseStaysOnDisk`. The invariant
  `LeaseInv` says that whoever is inside the critical section holds the guard, that a holder
  is idle and named on disk, that tokens name their makers, and for each place inside the
  section what the disk may hold: after a check the record is that of a dead process or
  none. Without the last part a reclaim could remove a live holder's record.
* `SupervisorOwnershipProofs`: `RegistryTypeCorrect`, `ConflictingOwnersExcluded`
  (`OwnersExclusive`) and `OwnerStaysOnDisk` (`OwnerOnDisk`) for any number of processes,
  crashes and stolen guards. `OwnershipInv` says that a conflicting live owner is still ahead
  of the scan of whoever has the guard, and that a registration about to succeed has its
  record on disk; a process whose guard was stolen is not constrained, since the check after
  its action fails it. `FreshAdmissionIsSingle` and `NoOwnerUnderAdmission` follow from
  `AdmissionInv`, which holds as long as no guard was stolen: a held and fresh admission is
  the record on disk, and what a process inside the guard has read of it is still true.
  `ReleasedStaysDown` (`StoppedNeverRewritten`) holds with stolen guards too: it rests on the
  part of the invariant that fits an updater's call to its admission.
* `CommandGateProofs`: `GateTypeCorrect`, `PreparationIsQuiet` and `EvictionOverlap` from
  `GateInv`, torn journal lines included: lines wait only while there is a fence, and once a
  restart is prepared only a shutdown does, the evictor past its acquisition holds the fence, and nothing that a
  fence let go is left when the second drain begins. `JournalIsMemory`,
  `CommandsRunAtMostOnce` and `RejectedCommandsNeverRun` hold for `TornWrites = FALSE`, appends
  that are all or nothing; section 3 says how a torn line breaks them. `JournalInv` adds that
  a command that ran is in the file unless its answer was acknowledged and no delivery of it
  is undecided: without that a compaction could let a late resend run again.
* `SubsequenceProofs`: `Keep` has exactly the members kept, once each and in order. What
  induction there is goes through the least counterexample (`LeastNumber`).
* `SessionSchedulerProofs`: `SchedulerTypeCorrect`, `NothingLeftHalfWay`, `TransitionsLegal`
  (`NoIllegalTransition`) and `HandoffClear` (`HandoffIsClear`), for any actions, lanes, ranks,
  activities, interventions (`"clear"` included) and failures. `PumpInv` ties each await of
  the pump to the lifecycles of what it holds: a preselected turn is selected unless it was
  cancelled and the epoch has moved, prepared turns are preparing or cancelled, turns handed
  over are committing or, once delivered, running. It also says that whatever is half way and
  undelivered is in the batch of a pump at work, and that a delivered action is running or
  finished, so no deferral queues it again. `HandoffClear` needs
  `InterruptedIsStale`, that a turn interrupted in its preparation is in the hands of a pump
  whose epoch has moved: `requestAbort` and both pauses must all see to that. That every step moves lifecycles legally
  (`LivesStep`) is one lemma with one case per action.
* `SessionSchedulerProofs`, the order: `LanesInOrder` (`LaneFifo`), for any interventions,
  clears at any time included; the only turn that may be overtaken is one of `unseen`, and
  section 3 says how. `FifoInv` adds to `PumpInv` that each lane is, within a rank, in the order
  of admission; that a prompt started directly has nothing unfinished before it; that under a
  pump which found nothing selected and awaits only prompts of `unseen` are selected; and that
  whatever else may still be delivered before a turn of the batch precedes it in the batch.
  `BatchPrefix`: a batch is a first part of its lane's queue.
* `SessionTreeProofs`, for any files, kinds of entries, labels and numbers of entries and
  faults: `TreeTypeCorrect`, `SavedLoadable` (`SavedIsLoadable`), `FlushedFaithful`
  (`FlushedIsFaithful`), `ForkBranchesKept` (`ForkKeepsBranches`) and `BranchContextKept`
  (`BranchKeepsContext`). `TreeInv` has four parts besides the types. `AllSound`: in memory
  and in every file, entries have growing numbers and parents with smaller ones, and a header
  stands in front only; without it the walk to the root need not end. `NoFileNoLines`: a file
  that is not there has no lines, so an append that creates it writes its first line. `FlushedInv`: while
  `flushed` is set and no plain append failed, the file has its header, a clean last line and
  exactly the entries in memory, so one appended line is enough. `SavedInv`: whatever was
  reported as written is among the entries the file loads as, and `repairJsonlDamage` drops
  none of those. Crashes inside an
  append, failed rewrites, failed appends inside a rollback and deletions are each a case.
  `getBranch` and `liveParent` are recursive functions over entry numbers; that they exist is
  shown through the least counterexample (`DescentExists`), since the library's recursion
  theorem cannot be instantiated here. The two action properties rest on that: the branch of
  an entry in a fork is the source's without its git entries, by the least entry for which it
  were not; and a branched session's branch is the path followed by the labels written again,
  which the model's context does not show.

Model-checked only: the liveness properties (`EveryEditAnswered`, `AbortSettles`,
`EveryCallReturns`, `NothingStranded`, `StarterRecovers`, `EveryCommandAnswered`), which are
out of the prover's reach under fairness. Every other property of a passing run is stated by a
theorem. What the runs add to the theorems is the instance: no theorem says that its
hypotheses, an eviction, a fork or a stolen guard are ever reached, and the mutants show that
the properties can fail.

## 5. Not modelled

Of the modelled components: `Agent.reset`, custom-role messages in `continue`,
`tool_execution_update`, the `EventStream` wrappers; the text matching of edits; the front
and tail placements, swaps and moves of the action store, forced batches, coalescing,
capacity limits, retry, update restart, disposal and branch summaries of the scheduler, and the routes that
cancel single actions without moving the epoch (a prompt's own signal, a withdrawn notice,
`removeQueuedFollowUp`; `core/agent-session.ts:5529`, 5754, 8048);
in-memory sessions, migration of old file versions, lines that a power failure filled with
zeros (`core/session-manager.ts:665`), listing and export of the session manager; of the registry, the reuse of a guard directory's inode, a steal between `mkdir`
and the `stat` that records the inode, records of the older registry format the phases an
owner publishes, and a timer's renewal beside another guarded call of the same updater; of the gate, the client's own timeouts and the commands' effects in the
workers.

Components not modelled at all are in `PROJECT.json` with the reason. The models cover a
small part of the repository's lines, and most of the rest has no state machine to check:
generated model and server catalogues, provider formats and HTTP streaming, terminal
rendering and key handling, the interactive views, settings, authentication, installation and
benchmark scripts. What is left with ordering hazards of its own is in the plan.

## 6. Plan

1. Done: file mutation queue and edit tool, agent loop, session lease, action store and
   scheduler, session manager, supervisor registry, command gate; proofs of every safety and
   action property of the passing runs.
2. Next modules: the RLM ledger and the worker-side journal; cron jobs and goals; provider
   retry and the continuation after a compaction, composed with `SessionScheduler`; the REPL
   manager and the orphan journal; the context functions as operators against reference
   definitions.
