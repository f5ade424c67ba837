---- MODULE SessionScheduler ----
(***************************************************************************)
(* The session input scheduler of AgentSession (core/agent-session.ts):    *)
(* admission of submitted input into the action store, the pump that takes *)
(* it out and runs it, and everything that holds the pump back: aborts,    *)
(* pauses, compaction, retries, bash and refinement.                       *)
(*                                                                         *)
(* The session is single-threaded; a step is what runs between two awaits. *)
(* Pumps are chained on one promise, so at most one runs; a pump remembers *)
(* the epoch in force when it was scheduled and gives up when it differs   *)
(* from the current one.  Epochs are compared with the current one only,   *)
(* so a pump carries one bit: has the epoch moved since it was scheduled?  *)
(***************************************************************************)
EXTENDS ActionStore

CONSTANTS
    Command,    \* actions that are session commands; the others are turns
    Visible,    \* turns submitted with queueVisible
    AllMode,    \* lanes whose delivery mode is "all"
    Busy,       \* activities that may hold the pump back in this instance
    Env,        \* interventions that may happen in this instance
    Faults,     \* failures that may happen in this instance
    MaxEvents,  \* bound: interventions and activities in one behaviour
    None

(* What the pump can be held back by, and what can intervene or fail.      *)
ASSUME SchedulerAssumption ==
    /\ Command \subseteq Act /\ Visible \subseteq Act \ Command
    /\ AllMode \subseteq {"steer", "follow"}
    /\ Busy \subseteq {"compaction", "userBash", "executeBash", "refine"}
    /\ Env \subseteq {"abort", "inputPause", "workPause", "clear", "quietClear", "waiter"}
    /\ Faults \subseteq {"events", "dispatch", "prepare"}
    /\ MaxEvents \in Nat
    /\ None \notin Act

VARIABLES
    requested,   \* _sessionInputPumpRequested
    chain,       \* pumps scheduled and not started: TRUE where the epoch has moved
    pump,        \* where the running pump awaits, or "off"
    stale,       \* the running pump's epoch is no longer the current one
    pre,         \* the action it found already selected, or None
    batch,       \* the actions it is running, in order
    streaming,   \* the lower agent is running a turn
    durable,     \* actions whose primary message is in the transcript
    broken,      \* the last agent event's processing was rejected
    suspended,   \* _sessionInputPumpSuspended
    inputPause,  \* an admission pause is held
    workPause,   \* a queued-work pause is held
    busy,        \* activities in progress
    drain,       \* user bash has ended and waits for the agent to be idle
    arrivals,    \* the actions admitted so far, oldest first (a history variable)
    interrupted, \* those whose latest preparation an abort or a pause came upon (history)
    unseen,      \* prompts started after the running pump had looked for one (history)
    left         \* interventions and activities still allowed

control == <<requested, chain, pump, stale, pre, batch>>
holds == <<suspended, inputPause, workPause, busy, drain, left>>
agent == <<streaming, durable, broken, arrivals, interrupted, unseen>>
vars == <<lanes, life, control, holds, agent>>

PumpPoint == {"off", "loop", "events", "select", "command", "prepare", "commit", "run", "settle"}

TypeOK ==
    /\ StoreTypeOK
    /\ requested \in BOOLEAN
    /\ chain \in Seq(BOOLEAN)
    /\ pump \in PumpPoint
    /\ stale \in BOOLEAN
    /\ pre \in Act \cup {None}
    /\ batch \in Seq(Act)
    /\ streaming \in BOOLEAN
    /\ durable \subseteq Act
    /\ broken \in BOOLEAN
    /\ suspended \in BOOLEAN /\ inputPause \in BOOLEAN /\ workPause \in BOOLEAN
    /\ busy \subseteq Busy
    /\ drain \in BOOLEAN
    /\ arrivals \in Seq(Act) /\ interrupted \subseteq Act /\ unseen \subseteq Act
    /\ left \in 0..MaxEvents

Init ==
    /\ StoreInit
    /\ requested = FALSE /\ chain = <<>> /\ pump = "off" /\ stale = FALSE
    /\ pre = None /\ batch = <<>>
    /\ streaming = FALSE /\ durable = {} /\ broken = FALSE
    /\ suspended = FALSE /\ inputPause = FALSE /\ workPause = FALSE
    /\ busy = {} /\ drain = FALSE /\ arrivals = <<>> /\ interrupted = {} /\ unseen = {}
    /\ left = MaxEvents

(***************************************************************************)
(* Predicates of the runtime                                               *)
(***************************************************************************)
\* isCompacting || isRetrying || isBashRunning
ExternalBusy == busy \ {"refine"} # {}

\* _isBusyForSessionInput
PumpBusy == ExternalBusy \/ suspended \/ workPause
PreflightBusy == ExternalBusy \/ Unfinished # {}

\* canSelectSessionAction(_runtimeActivity())
CanSelect == ~streaming /\ busy = {} /\ ~suspended /\ ~workPause

\* The pump waits for events or refinement, with the first action still to choose.
PumpAwaits == pump \in {"events", "select"} /\ pre = None

\* _isSessionInputHandoffDeferred
HandoffDeferred == stale \/ PumpBusy

(***************************************************************************)
(* Scheduling.  req and ch are the values at the point of the call; the    *)
(* primed variables it reads are those the caller has already assigned.    *)
(***************************************************************************)
\* _scheduleSessionInputPump
Schedule(req, ch) ==
    LET go == ~suspended' /\ ~workPause' /\ ~req /\ Selectable' IN
    /\ requested' = (req \/ go)
    /\ chain' = IF go THEN Append(ch, FALSE) ELSE ch

\* _sessionInputPumpEpoch++
Outdated(ch) == [i \in DOMAIN ch |-> TRUE]
BumpEpoch == stale' = (pump # "off")

(***************************************************************************)
(* Admission (_prompt and _admitSessionInput).  A submission lifts an      *)
(* abort's suspension, waits out a queued-work pause unless a turn is      *)
(* streaming, and starts at once when nothing else is unfinished.  imm:    *)
(* the action's wake policy is "immediate".  Lifting the suspension also   *)
(* flushes deferred notices, which wakes the pump for what is queued.      *)
(***************************************************************************)
Admit(a, imm) ==
    /\ life[a] = "new"
    /\ ~inputPause
    /\ ~streaming => ~workPause
    /\ a \in Visible => streaming \/ PreflightBusy
    /\ a \notin Visible \cup Command => ~streaming
    /\ a \notin Visible \/ (~streaming /\ busy = {}) => imm
    /\ LET start == a \notin Visible /\ Unfinished = {} /\ ~streaming /\ ~ExternalBusy
           wake == start \/ imm \/ (a \in Steer /\ streaming)
           resume == suspended /\ (~streaming \/ (imm /\ a \notin Command))
           ch == IF resume THEN Outdated(chain) ELSE chain
           flush == resume /\ Selectable
       IN
       /\ lanes' = Enqueued(a)
       /\ life' = [life EXCEPT ![a] = IF start THEN "selected" ELSE "queued"]
       /\ suspended' = (suspended /\ ~resume)
       /\ stale' = IF resume THEN pump # "off" ELSE stale
       /\ arrivals' = Append(arrivals, a)
       /\ unseen' = IF start /\ PumpAwaits /\ ~stale' THEN unseen \cup {a} ELSE unseen
       /\ UNCHANGED <<inputPause, workPause, busy, drain, left, pump, pre, batch>>
       /\ UNCHANGED <<streaming, durable, broken, interrupted>>
       /\ IF wake \/ flush THEN Schedule(requested, ch) ELSE requested' = requested /\ chain' = ch

(***************************************************************************)
(* The pump (_pumpSessionInputs and what it calls)                         *)
(***************************************************************************)
StartPump ==
    /\ pump = "off" /\ chain # <<>>
    /\ requested' = FALSE
    /\ stale' = Head(chain)
    /\ chain' = Tail(chain)
    /\ pump' = "loop"
    /\ UNCHANGED <<lanes, life, pre, batch, holds, agent>>

\* return, then the finally block; blocked is the local of that name.
ExitPump(blocked) ==
    /\ pump' = "off" /\ stale' = FALSE /\ pre' = None /\ batch' = <<>>
    /\ UNCHANGED <<holds, agent>>
    /\ IF blocked \/ stale
       THEN UNCHANGED <<requested, chain>>
       ELSE Schedule(requested, chain)

\* The next iteration of the while loop.
ContinuePump ==
    /\ pump' = "loop" /\ pre' = None /\ batch' = <<>>
    /\ UNCHANGED <<requested, chain, stale, holds, agent>>

\* await agent.waitForIdle(), look for a preselected action, compare epochs.
LoopStep ==
    /\ pump = "loop"
    /\ LET selected == Keep(lanes["steer"] \o lanes["follow"], InLife("selected"))
       IN
       \/ /\ ~Selectable
          /\ UNCHANGED <<lanes, life>>
          /\ ExitPump(FALSE)
       \/ /\ Selectable /\ ~streaming /\ stale
          /\ life' = IF selected = <<>> THEN life ELSE Moved({Head(selected)}, "queued")
          /\ UNCHANGED lanes
          /\ ExitPump(FALSE)
       \/ /\ Selectable /\ ~streaming /\ ~stale
          /\ pre' = IF selected = <<>> THEN None ELSE Head(selected)
          /\ pump' = "events"
          /\ UNCHANGED <<lanes, life, requested, chain, stale, batch, holds, agent>>

\* await _agentEventQueue: a rejected queue is thrown out of the pump.
AwaitEvents ==
    /\ pump = "events"
    /\ UNCHANGED <<lanes, life>>
    /\ \/ /\ broken
          /\ ExitPump(FALSE)
       \/ /\ ~broken
          /\ pump' = "select"
          /\ UNCHANGED <<requested, chain, stale, pre, batch, holds, agent>>

\* The turns that join first in one dispatch: the queued turns that follow it
\* in its lane, while they run under the same policy.
BatchWith(first) ==
    LET rest == Keep(QueuedIn(LaneOf(first)), Act \ {first})
        joins(a) == a \notin Command /\ (a \in Visible <=> first \in Visible)
        n == CHOOSE k \in 0..Len(rest) :
                /\ \A i \in 1..k : joins(rest[i])
                /\ k < Len(rest) => ~joins(rest[k + 1])
    IN IF pre = None /\ LaneOf(first) \in AllMode THEN <<first>> \o SubSeq(rest, 1, n) ELSE <<first>>

\* await _waitForRefineIdle(), then select and batch without interruption.
SelectStep ==
    /\ pump = "select"
    /\ pre = None \/ pre \in Command => "refine" \notin busy
    /\ LET canPre == pre \notin Command \cup {None} /\ ~streaming /\ ~PumpBusy
           first == IF pre # None THEN pre ELSE Head(SelectionOrder)
       IN
       \/ /\ HandoffDeferred \/ ~(canPre \/ CanSelect)
          /\ UNCHANGED <<lanes, life>>
          /\ ExitPump(TRUE)
       \/ /\ ~HandoffDeferred /\ (canPre \/ CanSelect)
          /\ pre = None /\ SelectionOrder = <<>>
          /\ UNCHANGED <<lanes, life>>
          /\ ExitPump(FALSE)
       \/ /\ ~HandoffDeferred /\ (canPre \/ CanSelect)
          /\ pre # None \/ SelectionOrder # <<>>
          /\ IF first \in Command
             THEN /\ life' = IF pre = None THEN Moved({first}, "selected") ELSE life
                  /\ batch' = <<first>>
                  /\ pump' = "command"
             ELSE /\ batch' = BatchWith(first)
                  /\ life' = Moved(ToSet(batch'), "preparing")
                  /\ pump' = "prepare"
          /\ interrupted' = interrupted \ ToSet(batch')
          /\ UNCHANGED <<lanes, requested, chain, stale, pre, holds, streaming, durable, broken, arrivals, unseen>>

\* _executeSelectedSessionCommand up to the command itself.
CommandStep ==
    /\ pump = "command"
    /\ LET cmd == batch[1] IN
       \/ /\ life[cmd] = "cancelled"
          /\ UNCHANGED <<lanes, life>>
          /\ ExitPump(FALSE)
       \/ /\ life[cmd] = "selected" /\ "refine" \notin busy
          /\ HandoffDeferred \/ ~CanSelect
          /\ life' = Moved({cmd}, "queued")
          /\ UNCHANGED lanes
          /\ ExitPump(FALSE)
       \/ /\ life[cmd] = "selected" /\ "refine" \notin busy
          /\ ~HandoffDeferred /\ CanSelect
          /\ life' = Moved({cmd}, "running")
          /\ pump' = "run"
          /\ UNCHANGED <<lanes, requested, chain, stale, pre, batch, holds, agent>>

\* The command ends or throws; either way it is released and the pump returns.
CommandEnds ==
    /\ pump = "run" /\ batch[1] \in Command
    /\ life' \in {Moved({batch[1]}, "completed"), Moved({batch[1]}, "failed")}
    /\ lanes' = Released({batch[1]})
    /\ ExitPump(FALSE)

(***************************************************************************)
(* Faulty variants, used to show that the properties can fail.             *)
(***************************************************************************)
\* A deferral leaves the turns as they are.
ForgetfulPumpFails(deferredError) ==
    LET mine == {a \in ToSet(batch) : life[a] # "cancelled"} IN
    IF deferredError \/ HandoffDeferred
    THEN /\ UNCHANGED <<lanes, life>>
         /\ IF HandoffDeferred THEN ExitPump(TRUE) ELSE ContinuePump
    ELSE /\ life' = Moved(mine, "failed")
         /\ lanes' = Released(mine)
         /\ ContinuePump

\* A deferral requeues delivered turns too.
RepeatingPumpFails(deferredError) ==
    LET mine == {a \in ToSet(batch) : life[a] # "cancelled"} IN
    IF deferredError \/ HandoffDeferred
    THEN /\ life' = Moved(mine, "queued")
         /\ UNCHANGED lanes
         /\ IF HandoffDeferred THEN ExitPump(TRUE) ELSE ContinuePump
    ELSE /\ life' = Moved(mine, "failed")
         /\ lanes' = Released(mine)
         /\ ContinuePump

\* The catch block around _startPreparedTurnActions.
PumpFails(deferredError) ==
    LET mine == {a \in ToSet(batch) : life[a] # "cancelled"} IN
    IF deferredError \/ HandoffDeferred
    THEN /\ life' = Moved(mine \ durable, "queued")
         /\ UNCHANGED lanes
         /\ IF HandoffDeferred THEN ExitPump(TRUE) ELSE ContinuePump
    ELSE /\ life' = Moved(mine, "failed")
         /\ lanes' = Released(mine)
         /\ ContinuePump

Preparing == Keep(batch, InLife("preparing"))

\* _prepareForCommit: validation, pre-turn work, hooks and the final refine
\* barrier, any of which may find the handoff deferred or throw.
PrepareStep ==
    /\ pump = "prepare"
    /\ \/ HandoffDeferred /\ PumpFails(TRUE)
       \/ "prepare" \in Faults /\ PumpFails(FALSE)
       \/ /\ ~HandoffDeferred /\ "refine" \notin busy
          /\ IF Preparing = <<>>
             THEN ContinuePump
             ELSE /\ pump' = "commit"
                  /\ batch' = Preparing
                  /\ UNCHANGED <<requested, chain, stale, pre, holds, agent>>
          /\ UNCHANGED <<lanes, life>>

\* The handoff to agent.prompt, under the commit fence.
CommitStep ==
    /\ pump = "commit"
    /\ LET refuse == HandoffDeferred \/ streaming \/ Preparing # batch IN
       \/ refuse /\ PumpFails(TRUE)
       \/ /\ ~refuse
          /\ life' = Moved(ToSet(batch), "committing")
          /\ streaming' = TRUE
          /\ pump' = "run"
          /\ UNCHANGED <<lanes, requested, chain, stale, pre, batch, holds>>
          /\ UNCHANGED <<durable, broken, arrivals, interrupted, unseen>>

\* message_end of a prompt message (_handleAgentEvent).
Deliver ==
    /\ pump = "run" /\ streaming
    /\ \E i \in 1..Len(batch) :
         /\ \A j \in 1..i - 1 : batch[j] \in durable
         /\ batch[i] \notin durable
         /\ durable' = durable \cup {batch[i]}
         /\ life' = Moved({batch[i]}, "running")
    /\ UNCHANGED <<lanes, control, holds, streaming, broken, arrivals, interrupted, unseen>>

\* The agent's run is over: every prompt message went in first, unless the
\* run itself failed.  The last event's processing may have been rejected.
RunEnds ==
    /\ pump = "run" /\ streaming
    /\ ToSet(batch) \subseteq durable \/ "dispatch" \in Faults
    /\ streaming' = FALSE
    /\ broken' \in {FALSE, "events" \in Faults}
    /\ pump' = "settle"
    /\ UNCHANGED <<lanes, life, requested, chain, stale, pre, batch, holds>>
    /\ UNCHANGED <<durable, arrivals, interrupted, unseen>>

\* After the dispatch: completion, or an error, then the next iteration.
SettleStep ==
    /\ pump = "settle"
    /\ LET delivered == ToSet(batch) \subseteq durable IN
       \/ /\ broken \/ ~delivered
          /\ PumpFails(FALSE)
       \/ /\ ~broken /\ delivered
          /\ life' = Moved(ToSet(batch), "completed")
          /\ lanes' = Released(ToSet(batch))
          /\ IF stale THEN ExitPump(FALSE) ELSE ContinuePump

(***************************************************************************)
(* Interventions                                                           *)
(***************************************************************************)
Spend == left > 0 /\ left' = left - 1

\* What is being prepared at this moment is remembered as interrupted.
Interrupt ==
    /\ interrupted' = interrupted \cup InLife("preparing")
    /\ UNCHANGED <<streaming, durable, broken, arrivals, unseen>>

\* A faulty variant: cancelled turns stay in the store.
LeakyRequestAbort ==
    /\ "abort" \in Env /\ Spend
    /\ requested' = FALSE /\ chain' = Outdated(chain) /\ BumpEpoch
    /\ suspended' = TRUE /\ Interrupt
    /\ life' = Moved(InState(Clearable) \ (Command \cup Visible), "cancelled")
    /\ UNCHANGED <<lanes, pump, pre, batch, inputPause, workPause, busy, drain>>

\* requestAbort: direct turns that have not been handed over are cancelled.
RequestAbort ==
    /\ "abort" \in Env /\ Spend
    /\ requested' = FALSE /\ chain' = Outdated(chain) /\ BumpEpoch
    /\ suspended' = TRUE /\ Interrupt
    /\ LET gone == InState(Clearable) \ (Command \cup Visible) IN
       /\ life' = Moved(gone, "cancelled")
       /\ lanes' = Released(gone)
    /\ UNCHANGED <<pump, pre, batch, inputPause, workPause, busy, drain>>

ResumeQueuedWork ==
    /\ suspended
    /\ suspended' = FALSE
    /\ BumpEpoch
    /\ UNCHANGED <<lanes, life, pump, pre, batch, inputPause, workPause, busy, drain, left, agent>>
    /\ Schedule(requested, Outdated(chain))

AcquireInputPause ==
    /\ "inputPause" \in Env /\ ~inputPause /\ Spend
    /\ inputPause' = TRUE /\ Interrupt
    /\ requested' = FALSE /\ chain' = Outdated(chain) /\ BumpEpoch
    /\ UNCHANGED <<lanes, life, pump, pre, batch, suspended, workPause, busy, drain>>

ReleaseInputPause ==
    /\ inputPause
    /\ inputPause' = FALSE
    /\ BumpEpoch
    /\ UNCHANGED <<lanes, life, pump, pre, batch, suspended, workPause, busy, drain, left, agent>>
    /\ Schedule(requested, Outdated(chain))

\* A faulty variant: the pause trusts in being noticed and leaves the epoch alone.
ForgetfulAcquireWorkPause ==
    /\ "workPause" \in Env /\ ~workPause /\ Spend
    /\ workPause' = TRUE /\ Interrupt
    /\ requested' = FALSE
    /\ UNCHANGED <<lanes, life, chain, stale, pump, pre, batch, suspended, inputPause, busy, drain>>

AcquireWorkPause ==
    /\ "workPause" \in Env /\ ~workPause /\ Spend
    /\ workPause' = TRUE /\ Interrupt
    /\ requested' = FALSE /\ chain' = Outdated(chain) /\ BumpEpoch
    /\ UNCHANGED <<lanes, life, pump, pre, batch, suspended, inputPause, busy, drain>>

ReleaseWorkPause ==
    /\ workPause
    /\ workPause' = FALSE
    /\ UNCHANGED <<lanes, life, stale, pump, pre, batch, suspended, inputPause, busy, drain, left, agent>>
    /\ Schedule(requested, chain)

\* clearQueue: the epoch moves only when a turn is being prepared, which no
\* pump is scheduled after; "quietClear" is the environment that waits that
\* out.
ClearQueue ==
    /\ \/ "clear" \in Env
       \/ "quietClear" \in Env /\ InState({"preparing"}) = {}
    /\ Spend
    /\ LET gone == InState(Clearable) \cap (Command \cup Visible)
           inPreparation == \E a \in gone : life[a] = "preparing"
       IN
       /\ gone # {}
       /\ life' = Moved(gone, "cancelled")
       /\ lanes' = Released(gone)
       /\ chain' = IF inPreparation THEN Outdated(chain) ELSE chain
       /\ stale' = (stale \/ inPreparation)
    /\ UNCHANGED <<requested, pump, pre, batch, suspended, inputPause, workPause, busy, drain, agent>>

BeginBusy(k) ==
    /\ k \in Busy \ busy /\ Spend
    /\ k = "userBash" => busy \cap {"userBash", "executeBash"} = {}
    /\ busy' = busy \cup {k}
    /\ UNCHANGED <<lanes, life, control, suspended, inputPause, workPause, drain, agent>>

\* A faulty variant: no activity wakes the pump when it ends.
SilentEndBusy(k) ==
    /\ k \in busy
    /\ busy' = busy \ {k}
    /\ drain' = (drain \/ k = "userBash")
    /\ UNCHANGED <<lanes, life, control, suspended, inputPause, workPause, left, agent>>

\* Compaction and refinement wake the pump when they end; user bash does once
\* the agent is idle; executeBash only notifies the checkpoint waiters.
EndBusy(k) ==
    /\ k \in busy
    /\ busy' = busy \ {k}
    /\ drain' = (drain \/ k = "userBash")
    /\ UNCHANGED <<lanes, life, stale, pump, pre, batch, suspended, inputPause, workPause, left, agent>>
    /\ IF k \in {"compaction", "refine"}
       THEN Schedule(requested, chain)
       ELSE UNCHANGED <<requested, chain>>

\* _drainQueuedMessagesAfterBash
DrainAfterBash ==
    /\ drain /\ ~streaming
    /\ drain' = FALSE
    /\ UNCHANGED <<lanes, life, stale, pump, pre, batch, suspended, inputPause, workPause, busy, left, agent>>
    /\ Schedule(requested, chain)

\* One turn of the loop of waitForIdle, for a caller that waits throughout: it
\* comes round when the pumps it awaited are over and schedules another while
\* work is queued and the pump would not refuse it.
WaitForIdle ==
    /\ "waiter" \in Env
    /\ pump = "off" /\ chain = <<>> /\ ~streaming /\ ~broken
    /\ SelectionOrder # <<>> /\ ~PumpBusy
    /\ UNCHANGED <<lanes, life, stale, pump, pre, batch, holds, agent>>
    /\ Schedule(requested, chain)

(***************************************************************************)
(* The specification                                                       *)
(***************************************************************************)
PumpStep ==
    \/ StartPump
    \/ LoopStep
    \/ AwaitEvents
    \/ SelectStep
    \/ CommandStep
    \/ CommandEnds
    \/ PrepareStep
    \/ CommitStep
    \/ Deliver
    \/ RunEnds
    \/ SettleStep

Intervene ==
    \/ RequestAbort
    \/ ResumeQueuedWork
    \/ AcquireInputPause
    \/ ReleaseInputPause
    \/ AcquireWorkPause
    \/ ReleaseWorkPause
    \/ ClearQueue
    \/ \E k \in Busy : BeginBusy(k) \/ EndBusy(k)

Next ==
    \/ \E a \in Act, imm \in BOOLEAN : Admit(a, imm)
    \/ PumpStep
    \/ DrainAfterBash
    \/ WaitForIdle
    \/ Intervene

Spec == Init /\ [][Next]_vars

FairSpec == Spec /\ WF_vars(PumpStep) /\ WF_vars(DrainAfterBash) /\ WF_vars(WaitForIdle)

(***************************************************************************)
(* Properties                                                              *)
(***************************************************************************)
\* Nothing submitted is left behind: a queued action is taken up, cancelled
\* or failed, unless an abort, a pause or a running activity holds it back.
HeldBack == suspended \/ inputPause \/ workPause \/ busy # {}
NothingStranded ==
    \A a \in Act : life[a] = "queued" ~> life[a] # "queued" \/ HeldBack

\* A preparation that an abort or a pause came upon does not hand its turns to
\* the agent, even when the pause is over or the abort lifted before it gets
\* there: they go back to the queue and are prepared anew (the pump's epoch).
HandoffIsClear ==
    [][\A a \in Act : life[a] # "committing" /\ life'[a] = "committing" =>
          a \notin interrupted]_vars

\* transitionSessionAction is never asked for an illegal move and so never
\* throws, although the pump still holds an action when a clear or an abort
\* cancels it; and an action whose message is in the transcript is not queued
\* again, so that no retry, rollback or deferral delivers it twice.
NoIllegalTransition ==
    [][\A a \in Act : life[a] \notin {"new", life'[a]} =>
          /\ life[a] \notin Terminal
          /\ \/ life'[a] \in LegalTransitions[life[a]]
             \/ life[a] = "queued" /\ life'[a] = "preparing"
          /\ life'[a] = "queued" => a \notin durable]_vars

\* Two turns of one lane and one priority reach the transcript in the order
\* they were admitted, whatever batching, other priorities, rollback, direct
\* starts, clears, aborts, pauses and failures did in between; a turn that
\* ended without delivery has left the race.  One kind of turn can be
\* overtaken: a prompt that was started directly after a clear had emptied
\* the queue under a pump that awaits.  That pump has looked for a selected
\* action already, and its selectFirst takes a queued turn, a later one too.
LaneFifo ==
    \A i, j \in 1..Len(arrivals) :
        LET a == arrivals[i]  b == arrivals[j] IN
        i < j /\ LaneOf(a) = LaneOf(b) /\ Rank[a] = Rank[b] /\ a \notin Command \cup unseen =>
            (b \in durable => a \in durable \/ life[a] \in Terminal)

\* When no pump is running, no undelivered action is left half way: whatever
\* failed or intervened, an action without a message in the transcript is
\* waiting to be taken up again and is not thought to be under way.
NothingHalfWay ==
    pump = "off" => InState({"preparing", "committing", "running"}) \subseteq durable
====
