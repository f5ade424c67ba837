----------------------------- MODULE AgentLoop -----------------------------
(***************************************************************************)
(* The agent (packages/agent: agent-loop.ts and agent.ts): one active run  *)
(* at a time; a run alternates provider turns, reflex turns and tool       *)
(* batches, polling two queues of user messages at turn boundaries, and    *)
(* every await may be overtaken by an abort.                               *)
(*                                                                         *)
(* `messages' is the transcript the agent keeps by reducing events and     *)
(* `context' the loop's own copy that is sent to the provider.  A value of *)
(* pc names what the run is awaiting.  What an action does before its last *)
(* await is done by the action; since a failed run drops all loop-local    *)
(* state, a listener that throws in the middle of an action is the same as *)
(* one that throws just before or just after it (RunThrows).               *)
(***************************************************************************)
EXTENDS Naturals, FiniteSets, SequencesExt, Subsequences

CONSTANTS
  PromptMsg, SteerMsg, FollowUpMsg,  \* messages for prompt(), steer(), followUp()
  ContinuationMsg,                   \* messages made by getContinuationMessages
  SteeringMode, FollowUpMode,        \* "all" or "one-at-a-time"
  ToolExecution,                     \* "parallel" or "sequential"
  MaxConsecutiveReflexes,
  MaxCalls,                          \* bound: tool calls in one response
  MaxTurns,                          \* bound: no tool call or reflex from this turn on
  MaxFailures                        \* bound: throwing listeners, hooks, providers

Msg == PromptMsg \cup SteerMsg \cup FollowUpMsg \cup ContinuationMsg
Mode == {"all", "one-at-a-time"}

ASSUME LoopAssumption ==
  /\ SteeringMode \in Mode /\ FollowUpMode \in Mode
  /\ ToolExecution \in {"parallel", "sequential"}
  /\ SteerMsg \cap FollowUpMsg = {}                \* a message is given to one of them
  /\ (PromptMsg \cup ContinuationMsg) \cap (SteerMsg \cup FollowUpMsg) = {}
  /\ MaxConsecutiveReflexes \in Nat
  /\ MaxCalls \in Nat \ {0} /\ MaxTurns \in Nat /\ MaxFailures \in Nat

VARIABLES
  pc,                \* what the active run awaits, "idle" without one
  aborted,           \* the run's AbortSignal
  ended,             \* agent_end was emitted in this run
  messages,          \* _state.messages
  pendingToolCalls,  \* _state.pendingToolCalls
  steeringQueue, followUpQueue,
  context,           \* currentContext.messages
  pending,           \* pendingMessages (before the loop: prompts still to emit)
  firstTurn, hasMore, lastTurn, skipPoll, consecutiveReflexes,
  streaming,         \* addedPartial
  turn,              \* assistant messages so far; the current one's id
  calls,             \* status of each tool call of the current message
  sequential,        \* does its batch run in sequence?
  terminate,         \* calls whose result asked to terminate
  zombies,           \* calls still running although their run failed
  base,              \* history: length of the transcript when the run began
  fresh,             \* history: messages nobody submitted yet
  lost,              \* history: messages taken from a queue and dropped
  failures           \* counter of RunThrows

agentVars == <<pc, aborted, ended>>
stateVars == <<messages, pendingToolCalls>>
queueVars == <<steeringQueue, followUpQueue, fresh>>
flowVars == <<firstTurn, hasMore, lastTurn, skipPoll, consecutiveReflexes, base>>
toolVars == <<calls, sequential, terminate, zombies>>
vars == <<agentVars, stateVars, queueVars, flowVars, toolVars,
          context, pending, streaming, turn, lost, failures>>

Entry(role, id, n, stop) == [role |-> role, id |-> id, n |-> n, stop |-> stop]
User(m) == Entry("user", m, 0, "none")
Result(t, i) == Entry("result", t, i, "none")
Results(t, k) == [i \in 1..k |-> Result(t, i)]

ReplaceLast(s, x) == [s EXCEPT ![Len(s)] = x]
NoMessages == pending = <<>>

(* A message_end event and the loop's own push.                            *)
Record(x) == messages' = Append(messages, x) /\ context' = Append(context, x)
Goto(l) == pc' = l
(* agent_end is emitted and its listeners are awaited.                     *)
EmitAgentEnd == Goto("end") /\ ended' = TRUE

NumCalls == Last(context).n
AllCalls == 1..NumCalls
EndedCalls == {i \in AllCalls : calls[i] = "ended"}
Executing == {i \in AllCalls : calls[i] = "executing"}

(* The drained batch is dropped with the loop's locals.                    *)
DropPending == lost' = lost \cup ToSet(pending) /\ pending' = <<>>

(* An assistant message with n tool calls becomes the current one.  One    *)
(* tool that asks for sequential execution decides for the whole batch.    *)
NewCalls(n) ==
  /\ \/ sequential' = FALSE /\ (n = 0 \/ ToolExecution = "parallel")
     \/ sequential' = TRUE /\ n > 0
  /\ turn' = turn + 1
  /\ calls' = [i \in 1..MaxCalls |-> IF i <= n THEN "todo" ELSE "none"]
  /\ terminate' = {}
  /\ UNCHANGED zombies

SetCall(i, s) == calls' = [calls EXCEPT ![i] = s]
CallId(i) == <<turn, i>>
Settled(i) == calls[i] = "ended" \/ (~sequential /\ calls[i] = "ready")

-----------------------------------------------------------------------------
(* Faulty variants: for each of the definitions below named like them, the *)
(* change that a plausible slip in the code would make.                    *)

PushySteer(m) ==   \* a steering message goes to the front
  /\ m \in fresh \cap SteerMsg
  /\ steeringQueue' = <<m>> \o steeringQueue
  /\ fresh' = fresh \ {m}
  /\ UNCHANGED <<agentVars, stateVars, followUpQueue, flowVars, toolVars,
                 context, pending, streaming, turn, lost, failures>>

DoublingFinishStream(n, stop) ==   \* keeps the partial message beside the final one
  LET final == Entry("assistant", turn + 1, n, stop) IN
  /\ pc = "stream"
  /\ context' = Append(context, final)
  /\ messages' = Append(messages, final)
  /\ streaming' = FALSE
  /\ consecutiveReflexes' = 0
  /\ NewCalls(n)
  /\ hasMore' = FALSE
  /\ UNCHANGED <<pendingToolCalls, queueVars, firstTurn, lastTurn, skipPoll,
                 base, pending, lost, failures, aborted>>

EagerEndCall(i) ==   \* records results in completion order
  /\ SetCall(i, "ended")
  /\ pendingToolCalls' = pendingToolCalls \ {CallId(i)}
  /\ messages' = Append(messages, Result(turn, i))

PatientBatchOver == EndedCalls = AllCalls   \* the abort does not stop a sequential batch

AbortBlindTurnEnd ==   \* goes on although the signal fired
  /\ pc = "turnEnd"
  /\ IF consecutiveReflexes > 0 THEN Goto("inner") /\ UNCHANGED lastTurn
     ELSE Goto("stopCheck") /\ lastTurn' = TRUE
  /\ UNCHANGED <<aborted, ended, stateVars, queueVars, firstTurn, hasMore, skipPoll,
                 consecutiveReflexes, base, toolVars, context, pending, streaming, turn,
                 lost, failures>>

StopFirstAfterSteeringPoll ==   \* a requested stop wins over drained messages
  /\ pc = "steeringPolled"
  /\ \/ aborted /\ DropPending /\ EmitAgentEnd
     \/ Goto("inner") /\ UNCHANGED <<ended, pending, lost>>
     \/ ~aborted /\ DropPending /\ EmitAgentEnd
  /\ UNCHANGED <<aborted, stateVars, queueVars, flowVars, toolVars,
                 context, streaming, turn, failures>>

UnlabelledRunFailure ==   \* records a stop reason nobody knows
  /\ pc = "failed"
  /\ messages' = Append(messages, Entry("assistant", turn + 1, 0, "failed"))
  /\ turn' = turn + 1
  /\ Goto("finish") /\ ended' = TRUE
  /\ UNCHANGED <<aborted, pendingToolCalls, queueVars, flowVars, toolVars,
                 context, pending, streaming, lost, failures>>

-----------------------------------------------------------------------------
(* PendingMessageQueue.drain: what it returns and what it leaves.          *)
Drained(q, mode) == IF mode = "all" THEN q ELSE SubSeq(q, 1, IF q = <<>> THEN 0 ELSE 1)
Remaining(q, mode) == IF mode = "all" \/ q = <<>> THEN <<>> ELSE Tail(q)

Steer(m) ==
  /\ m \in fresh \cap SteerMsg
  /\ steeringQueue' = Append(steeringQueue, m)
  /\ fresh' = fresh \ {m}
  /\ UNCHANGED <<agentVars, stateVars, followUpQueue, flowVars, toolVars,
                 context, pending, streaming, turn, lost, failures>>

FollowUp(m) ==
  /\ m \in fresh \cap FollowUpMsg
  /\ followUpQueue' = Append(followUpQueue, m)
  /\ fresh' = fresh \ {m}
  /\ UNCHANGED <<agentVars, stateVars, steeringQueue, flowVars, toolVars,
                 context, pending, streaming, turn, lost, failures>>

(* removeQueuedMessages (and, for every message, the clear operations)     *)
(* gives a waiting batch back to its submitter.                            *)
RemoveQueued(m) ==
  /\ m \in ToSet(steeringQueue) \cup ToSet(followUpQueue)
  /\ steeringQueue' = Keep(steeringQueue, Msg \ {m})
  /\ followUpQueue' = Keep(followUpQueue, Msg \ {m})
  /\ fresh' = fresh \cup {m}
  /\ UNCHANGED <<agentVars, stateVars, flowVars, toolVars,
                 context, pending, streaming, turn, lost, failures>>

(* runWithLifecycle installs the run; createContextSnapshot copies the     *)
(* transcript; runLoop's locals are set up.  Prompts wait to be emitted.   *)
BeginRun(prompts, skip) ==
  /\ Goto(IF prompts = <<>> THEN "poll" ELSE "prompt")
  /\ aborted' = FALSE /\ ended' = FALSE
  /\ context' = messages
  /\ pending' = prompts
  /\ firstTurn' = TRUE /\ hasMore' = TRUE /\ lastTurn' = FALSE
  /\ skipPoll' = skip
  /\ consecutiveReflexes' = 0
  /\ base' = Len(messages)
  /\ UNCHANGED <<stateVars, toolVars, streaming, turn, lost, failures>>

(* prompt() throws, and changes nothing, while a run is active.            *)
Prompt(m) ==
  /\ pc = "idle"
  /\ m \in fresh \cap PromptMsg
  /\ fresh' = fresh \ {m}
  /\ BeginRun(<<m>>, FALSE)
  /\ UNCHANGED <<steeringQueue, followUpQueue>>

(* continue(): after an assistant message (or with no message) it needs a  *)
(* queued message and runs it as a prompt; otherwise it resumes.           *)
Continue ==
  /\ pc = "idle"
  /\ IF messages = <<>> \/ Last(messages).role = "assistant"
     THEN \/ /\ steeringQueue # <<>>
             /\ BeginRun(Drained(steeringQueue, SteeringMode), TRUE)
             /\ steeringQueue' = Remaining(steeringQueue, SteeringMode)
             /\ UNCHANGED followUpQueue
          \/ /\ steeringQueue = <<>> /\ followUpQueue # <<>>
             /\ BeginRun(Drained(followUpQueue, FollowUpMode), FALSE)
             /\ followUpQueue' = Remaining(followUpQueue, FollowUpMode)
             /\ UNCHANGED steeringQueue
     ELSE BeginRun(<<>>, FALSE) /\ UNCHANGED <<steeringQueue, followUpQueue>>
  /\ UNCHANGED fresh

Abort ==
  /\ pc # "idle" /\ ~aborted
  /\ aborted' = TRUE
  /\ UNCHANGED <<pc, ended, stateVars, queueVars, flowVars, toolVars,
                 context, pending, streaming, turn, lost, failures>>

-----------------------------------------------------------------------------
EmitPrompt ==
  /\ pc = "prompt"
  /\ Record(User(Head(pending)))
  /\ pending' = Tail(pending)
  /\ Goto(IF Tail(pending) = <<>> THEN "poll" ELSE "prompt")
  /\ UNCHANGED <<aborted, ended, pendingToolCalls, queueVars, flowVars, toolVars,
                 streaming, turn, lost, failures>>

(* pollMessagesUnlessAborted drains synchronously and then awaits: an      *)
(* abort that lands in between rejects the poll and the batch is dropped.  *)
PollSteering(from, to) ==
  /\ pc = from
  /\ IF aborted THEN pending' = <<>> /\ UNCHANGED <<steeringQueue, skipPoll>>
     ELSE /\ skipPoll' = FALSE
          /\ IF skipPoll THEN pending' = <<>> /\ UNCHANGED steeringQueue
             ELSE /\ pending' = Drained(steeringQueue, SteeringMode)
                  /\ steeringQueue' = Remaining(steeringQueue, SteeringMode)
  /\ Goto(to)
  /\ UNCHANGED <<aborted, ended, stateVars, followUpQueue, fresh, firstTurn, hasMore, lastTurn,
                 consecutiveReflexes, base, toolVars, context, streaming, turn, lost, failures>>

(* The first poll: an abort makes the run throw.                           *)
FirstPoll == PollSteering("poll", "polled")

EnterLoop ==
  /\ pc = "polled"
  /\ IF aborted THEN DropPending /\ Goto("failed") ELSE Goto("inner") /\ UNCHANGED <<pending, lost>>
  /\ UNCHANGED <<aborted, ended, stateVars, queueVars, flowVars, toolVars,
                 context, streaming, turn, failures>>

-----------------------------------------------------------------------------
(* The inner while: leave it, throw on abort, or start a turn.             *)
LeaveInner ==
  /\ pc = "inner" /\ ~hasMore /\ NoMessages
  /\ \/ Goto("followUpPoll") /\ UNCHANGED ended
     \/ ~firstTurn /\ EmitAgentEnd                   \* shouldStopBeforeTurn
  /\ UNCHANGED <<aborted, stateVars, queueVars, flowVars, toolVars,
                 context, pending, streaming, turn, lost, failures>>

EnterTurn ==
  /\ pc = "inner" /\ (hasMore \/ ~NoMessages)
  /\ IF aborted THEN DropPending /\ Goto("failed")
     ELSE /\ Goto(IF NoMessages /\ consecutiveReflexes < MaxConsecutiveReflexes
                  THEN "route" ELSE "inject")
          /\ UNCHANGED <<pending, lost>>
  /\ UNCHANGED <<aborted, ended, stateVars, queueVars, flowVars, toolVars,
                 context, streaming, turn, failures>>

(* resolvePreTurnReflex: no reflex, a router that throws, or an abort while*)
(* it is awaited all mean an ordinary turn.                                *)
RouteNone ==
  /\ pc = "route"
  /\ Goto("inject")
  /\ UNCHANGED <<aborted, ended, stateVars, queueVars, flowVars, toolVars,
                 context, pending, streaming, turn, lost, failures>>

RouteReflex ==
  /\ pc = "route" /\ ~aborted /\ turn < MaxTurns
  /\ consecutiveReflexes' = consecutiveReflexes + 1
  /\ firstTurn' = FALSE
  /\ Record(Entry("assistant", turn + 1, 1, "reflex"))
  /\ NewCalls(1)
  /\ Goto("tools")
  /\ UNCHANGED <<aborted, ended, pendingToolCalls, queueVars, hasMore, lastTurn, skipPoll,
                 base, pending, streaming, lost, failures>>

(* An ordinary turn: queued messages are injected one by one, with no look *)
(* at the signal, then the provider is called.                             *)
Inject ==
  /\ pc = "inject"
  /\ firstTurn' = FALSE
  /\ IF NoMessages THEN Goto("stream") /\ UNCHANGED <<messages, context, pending>>
     ELSE /\ Record(User(Head(pending)))
          /\ pending' = Tail(pending)
          /\ UNCHANGED pc
  /\ UNCHANGED <<aborted, ended, pendingToolCalls, queueVars, hasMore, lastTurn, skipPoll,
                 consecutiveReflexes, base, toolVars, streaming, turn, lost, failures>>

-----------------------------------------------------------------------------
(* streamAssistantResponse.  The partial message sits in the context only. *)
StreamStart ==
  /\ pc = "stream" /\ ~streaming /\ ~aborted
  /\ streaming' = TRUE
  /\ context' = Append(context, Entry("assistant", turn + 1, 0, "partial"))
  /\ UNCHANGED <<agentVars, stateVars, queueVars, flowVars, toolVars,
                 pending, turn, lost, failures>>

(* The final message replaces the partial one, or is added.                *)
FinishStream(n, stop) ==
  LET final == Entry("assistant", turn + 1, n, stop) IN
  /\ pc = "stream"
  /\ context' = IF streaming THEN ReplaceLast(context, final) ELSE Append(context, final)
  /\ messages' = Append(messages, final)
  /\ streaming' = FALSE
  /\ consecutiveReflexes' = 0
  /\ NewCalls(n)
  /\ hasMore' = FALSE
  /\ UNCHANGED <<pendingToolCalls, queueVars, firstTurn, lastTurn, skipPoll,
                 base, pending, lost, failures, aborted>>

StreamDone(n) ==
  /\ ~aborted
  /\ n > 0 => turn < MaxTurns
  /\ FinishStream(n, "stop")
  /\ Goto(IF n > 0 THEN "tools" ELSE "turnEnd")
  /\ UNCHANGED ended

(* An error message from the provider ends the run after its turn_end.     *)
StreamError == ~aborted /\ FinishStream(0, "error") /\ EmitAgentEnd

(* finishAbortedMessage, whatever the provider does.                       *)
StreamAborted == aborted /\ FinishStream(0, "aborted") /\ EmitAgentEnd

-----------------------------------------------------------------------------
(* executeToolCalls.  A call is started (tool_execution_start), prepared,  *)
(* executed and ended (tool_execution_end).  In sequence each call runs to *)
(* its end, result message included, before the next starts, and an abort  *)
(* stops the batch; in parallel all calls are prepared first, then all run,*)
(* and the results are recorded in call order at the end.                  *)
StartCall(i) ==
  /\ pc = "tools" /\ calls[i] = "todo"
  /\ \A j \in 1..(i - 1) : Settled(j)
  /\ sequential => ~aborted
  /\ SetCall(i, "started")
  /\ pendingToolCalls' = pendingToolCalls \cup {CallId(i)}
  /\ UNCHANGED <<agentVars, messages, queueVars, flowVars, sequential, terminate, zombies,
                 context, pending, streaming, turn, lost, failures>>

(* emitToolExecutionEnd and, in sequence, emitToolResultMessage.           *)
EndCall(i) ==
  /\ SetCall(i, "ended")
  /\ pendingToolCalls' = pendingToolCalls \ {CallId(i)}
  /\ messages' = IF sequential
                 THEN Append(messages, Result(turn, i)) ELSE messages

(* prepareToolCall answers at once: unknown tool, invalid arguments, a     *)
(* blocking or throwing beforeToolCall, an abort while it is awaited.      *)
ImmediateCall(i) ==
  /\ pc = "tools" /\ calls[i] = "started"
  /\ EndCall(i)
  /\ UNCHANGED <<agentVars, queueVars, flowVars, sequential, terminate, zombies,
                 context, pending, streaming, turn, lost, failures>>

PrepareCall(i) ==
  /\ pc = "tools" /\ calls[i] = "started"
  /\ SetCall(i, IF sequential THEN "executing" ELSE "ready")
  /\ UNCHANGED <<agentVars, stateVars, queueVars, flowVars, sequential, terminate, zombies,
                 context, pending, streaming, turn, lost, failures>>

LaunchCalls ==
  /\ pc = "tools" /\ ~sequential
  /\ \A i \in AllCalls : calls[i] \in {"ready", "ended"}
  /\ \E i \in AllCalls : calls[i] = "ready"
  /\ calls' = [i \in 1..MaxCalls |-> IF calls[i] = "ready" THEN "executing" ELSE calls[i]]
  /\ UNCHANGED <<agentVars, stateVars, queueVars, flowVars, sequential, terminate, zombies,
                 context, pending, streaming, turn, lost, failures>>

(* The tool answered or threw, and afterToolCall had its say.              *)
ToolReturns(i) ==
  /\ pc = "tools" /\ calls[i] = "executing"
  /\ EndCall(i)
  /\ \E t \in SUBSET {i} : terminate' = terminate \cup t
  /\ UNCHANGED <<agentVars, queueVars, flowVars, sequential, zombies,
                 context, pending, streaming, turn, lost, failures>>

(* raceWithAbort answers for a tool that has not returned.                 *)
ToolAborted(i) ==
  /\ aborted
  /\ pc = "tools" /\ calls[i] = "executing"
  /\ EndCall(i)
  /\ UNCHANGED <<agentVars, queueVars, flowVars, sequential, terminate, zombies,
                 context, pending, streaming, turn, lost, failures>>

(* A listener throws on the tool_execution_end of one parallel call: the   *)
(* batch is rejected while its other calls go on running.                  *)
ToolEndThrows(i) ==
  /\ pc = "tools" /\ ~sequential /\ calls[i] = "executing"
  /\ failures < MaxFailures /\ failures' = failures + 1
  /\ pendingToolCalls' = pendingToolCalls \ {CallId(i)}
  /\ zombies' = zombies \cup {CallId(j) : j \in Executing \ {i}}
  /\ Goto("failed")
  /\ UNCHANGED <<aborted, ended, messages, queueVars, flowVars, calls, sequential, terminate,
                 context, pending, streaming, turn, lost>>

(* A call of a failed batch ends: its event reaches processEvents in       *)
(* whatever run is then active.                                            *)
ZombieEnds(z) ==
  /\ z \in zombies
  /\ zombies' = zombies \ {z}
  /\ pendingToolCalls' = pendingToolCalls \ {z}
  /\ UNCHANGED <<agentVars, messages, queueVars, flowVars, calls, sequential, terminate,
                 context, pending, streaming, turn, lost, failures>>

BatchOver ==
  \/ EndedCalls = AllCalls
  \/ sequential /\ aborted /\ \A i \in AllCalls : calls[i] \in {"todo", "ended"}

RecordedResults ==
  IF messages # <<>> /\ Last(messages).role = "result" /\ Last(messages).id = turn
  THEN Last(messages).n ELSE 0

(* In parallel, Promise.all is over: results are emitted in call order.    *)
RecordResult ==
  /\ pc = "tools" /\ ~sequential /\ BatchOver
  /\ RecordedResults < NumCalls
  /\ messages' = Append(messages, Result(turn, RecordedResults + 1))
  /\ UNCHANGED <<agentVars, pendingToolCalls, queueVars, flowVars, toolVars,
                 context, pending, streaming, turn, lost, failures>>

(* The batch returns: the loop's copy receives the results, and another    *)
(* turn follows unless every result asked to terminate.                    *)
FinishBatch ==
  /\ pc = "tools" /\ BatchOver
  /\ ~sequential => RecordedResults = NumCalls
  /\ context' = context \o Results(turn, Cardinality(EndedCalls))
  /\ hasMore' = ~(EndedCalls # {} /\ EndedCalls \subseteq terminate)
  /\ Goto("turnEnd")
  /\ UNCHANGED <<aborted, ended, stateVars, queueVars, firstTurn, lastTurn, skipPoll,
                 consecutiveReflexes, base, toolVars, pending, streaming, turn, lost, failures>>

-----------------------------------------------------------------------------
(* After turn_end: an abort ends the run; a reflex turn goes straight back *)
(* to the loop; a provider turn asks shouldStopAfterTurn.                  *)
TurnEnd ==
  /\ pc = "turnEnd"
  /\ IF aborted THEN EmitAgentEnd /\ UNCHANGED lastTurn
     ELSE IF consecutiveReflexes > 0 THEN Goto("inner") /\ UNCHANGED <<ended, lastTurn>>
     ELSE Goto("stopCheck") /\ lastTurn' = TRUE /\ UNCHANGED ended
  /\ UNCHANGED <<aborted, stateVars, queueVars, firstTurn, hasMore, skipPoll, consecutiveReflexes,
                 base, toolVars, context, pending, streaming, turn, lost, failures>>

(* shouldStopAfterTurn or shouldStopBeforeTurn says stop, or an abort.     *)
StopAfterTurn ==
  /\ pc = "stopCheck"
  /\ EmitAgentEnd
  /\ UNCHANGED <<aborted, stateVars, queueVars, flowVars, toolVars,
                 context, pending, streaming, turn, lost, failures>>

GoOnAfterTurn ==
  /\ pc = "stopCheck" /\ ~aborted
  /\ Goto("steeringPoll")
  /\ UNCHANGED <<aborted, ended, stateVars, queueVars, flowVars, toolVars,
                 context, pending, streaming, turn, lost, failures>>

SteeringPoll == PollSteering("steeringPoll", "steeringPolled")

(* Steering drained by this poll owns the turn boundary: a requested stop  *)
(* is honoured only when the poll was empty.  An abort ends the run here   *)
(* only if it rejected the poll; one that came before it, or after its     *)
(* answer, is left to the loop.                                            *)
AfterSteeringPoll ==
  /\ pc = "steeringPolled"
  /\ \/ aborted /\ DropPending /\ EmitAgentEnd
     \/ Goto("inner") /\ UNCHANGED <<ended, pending, lost>>
     \/ NoMessages /\ EmitAgentEnd /\ UNCHANGED <<pending, lost>>
  /\ UNCHANGED <<aborted, stateVars, queueVars, flowVars, toolVars,
                 context, streaming, turn, failures>>

FollowUpPoll ==
  /\ pc = "followUpPoll"
  /\ IF aborted THEN UNCHANGED <<pending, followUpQueue>>
     ELSE /\ pending' = Drained(followUpQueue, FollowUpMode)
          /\ followUpQueue' = Remaining(followUpQueue, FollowUpMode)
  /\ Goto("followUpPolled")
  /\ UNCHANGED <<aborted, ended, stateVars, steeringQueue, fresh, flowVars, toolVars,
                 context, streaming, turn, lost, failures>>

(* A follow-up starts another round of the outer loop; otherwise the run   *)
(* stops on request or asks for a continuation.                            *)
AfterFollowUpPoll ==
  /\ pc = "followUpPolled"
  /\ \/ aborted /\ DropPending /\ EmitAgentEnd /\ UNCHANGED hasMore
     \/ /\ ~NoMessages
        /\ hasMore' = TRUE /\ Goto("inner") /\ UNCHANGED <<ended, pending, lost>>
     \/ NoMessages /\ EmitAgentEnd /\ UNCHANGED <<hasMore, pending, lost>>
     \/ /\ NoMessages /\ lastTurn
        /\ Goto("continuation") /\ UNCHANGED <<ended, hasMore, pending, lost>>
  /\ UNCHANGED <<aborted, stateVars, queueVars, firstTurn, lastTurn, skipPoll, consecutiveReflexes,
                 base, toolVars, context, streaming, turn, failures>>

NoContinuation ==
  /\ pc = "continuation"
  /\ EmitAgentEnd
  /\ UNCHANGED <<aborted, stateVars, queueVars, flowVars, toolVars,
                 context, pending, streaming, turn, lost, failures>>

TakeContinuation(m) ==
  /\ pc = "continuation" /\ ~aborted
  /\ m \in fresh \cap ContinuationMsg
  /\ fresh' = fresh \ {m}
  /\ pending' = <<m>>
  /\ hasMore' = TRUE
  /\ Goto("inner")
  /\ UNCHANGED <<aborted, ended, stateVars, steeringQueue, followUpQueue, firstTurn, lastTurn,
                 skipPoll, consecutiveReflexes, base, toolVars, context, streaming, turn, lost,
                 failures>>

-----------------------------------------------------------------------------
(* A listener, a hook or the provider throws something that is no abort.   *)
RunThrows ==
  /\ pc \notin {"idle", "failed", "finish"}
  /\ pc = "tools" => Executing = {}
  /\ failures < MaxFailures /\ failures' = failures + 1
  /\ DropPending
  /\ streaming' = FALSE
  /\ Goto("failed")
  /\ UNCHANGED <<aborted, ended, stateVars, queueVars, flowVars, toolVars, context, turn>>

(* handleRunFailure records a failure message and emits agent_end; what    *)
(* its listeners throw is swallowed.                                       *)
HandleRunFailure ==
  /\ pc = "failed"
  /\ messages' = Append(messages,
       Entry("assistant", turn + 1, 0, IF aborted THEN "aborted" ELSE "error"))
  /\ turn' = turn + 1
  /\ Goto("finish") /\ ended' = TRUE
  /\ UNCHANGED <<aborted, pendingToolCalls, queueVars, flowVars, toolVars,
                 context, pending, streaming, lost, failures>>

(* The values of the loop's locals outside a run.                          *)
NoLocals ==
  /\ firstTurn' = TRUE /\ hasMore' = TRUE /\ lastTurn' = FALSE /\ skipPoll' = FALSE
  /\ consecutiveReflexes' = 0 /\ base' = 0
  /\ calls' = [i \in 1..MaxCalls |-> "none"] /\ sequential' = FALSE /\ terminate' = {}
  /\ context' = <<>>

(* The agent_end listeners settled: finishRun; the loop's locals are gone. *)
FinishRun ==
  /\ pc \in {"end", "finish"}
  /\ Goto("idle")
  /\ aborted' = FALSE /\ ended' = FALSE
  /\ pendingToolCalls' = {}
  /\ NoLocals
  /\ UNCHANGED <<messages, queueVars, zombies, pending, streaming, turn, lost, failures>>

-----------------------------------------------------------------------------
Init ==
  /\ pc = "idle" /\ aborted = FALSE /\ ended = FALSE
  /\ messages = <<>> /\ pendingToolCalls = {}
  /\ steeringQueue = <<>> /\ followUpQueue = <<>> /\ fresh = Msg
  /\ firstTurn = TRUE /\ hasMore = TRUE /\ lastTurn = FALSE /\ skipPoll = FALSE
  /\ consecutiveReflexes = 0 /\ base = 0
  /\ calls = [i \in 1..MaxCalls |-> "none"] /\ sequential = FALSE
  /\ terminate = {} /\ zombies = {}
  /\ context = <<>> /\ pending = <<>> /\ streaming = FALSE /\ turn = 0
  /\ lost = {} /\ failures = 0

(* What users, providers, tools and hooks may do, and may never do.        *)
External ==
  \/ \E m \in fresh : Steer(m) \/ FollowUp(m) \/ Prompt(m) \/ TakeContinuation(m)
  \/ \E m \in Msg : RemoveQueued(m)
  \/ Continue
  \/ Abort
  \/ RouteReflex
  \/ StreamStart \/ StreamError \/ \E n \in 0..MaxCalls : StreamDone(n)
  \/ \E i \in 1..MaxCalls : PrepareCall(i) \/ ToolReturns(i) \/ ToolEndThrows(i)
  \/ \E z \in zombies : ZombieEnds(z)
  \/ RunThrows

(* What the loop does by itself.  A hook that is raced with the signal is  *)
(* answered, or given up, so its quiet outcome counts here too.            *)
Internal ==
  \/ EmitPrompt \/ FirstPoll \/ EnterLoop
  \/ LeaveInner \/ EnterTurn \/ RouteNone \/ Inject
  \/ StreamAborted
  \/ \E i \in 1..MaxCalls : StartCall(i) \/ ImmediateCall(i) \/ ToolAborted(i)
  \/ LaunchCalls \/ RecordResult \/ FinishBatch
  \/ TurnEnd \/ StopAfterTurn \/ GoOnAfterTurn
  \/ SteeringPoll \/ AfterSteeringPoll
  \/ FollowUpPoll \/ AfterFollowUpPoll \/ NoContinuation
  \/ HandleRunFailure \/ FinishRun

Next == External \/ Internal

(* Promise callbacks of the loop run and event listeners settle.  Nothing  *)
(* is assumed of providers, tools or users.                                *)
Spec == Init /\ [][Next]_vars
FairSpec == Spec /\ WF_vars(Internal)

-----------------------------------------------------------------------------
Stops == {"none", "partial", "stop", "reflex", "error", "aborted"}
Labels == {"idle", "prompt", "poll", "polled", "inner", "route", "inject", "stream", "tools",
           "turnEnd", "stopCheck", "steeringPoll", "steeringPolled", "followUpPoll",
           "followUpPolled", "continuation", "end", "failed", "finish"}
EntrySet == [role : {"user", "assistant", "result"}, id : Msg \cup Nat, n : Nat, stop : Stops]

TypeOK ==
  /\ pc \in Labels /\ aborted \in BOOLEAN /\ ended \in BOOLEAN
  /\ messages \in Seq(EntrySet) /\ context \in Seq(EntrySet)
  /\ pendingToolCalls \subseteq Nat \X Nat /\ zombies \subseteq Nat \X Nat
  /\ steeringQueue \in Seq(SteerMsg) /\ followUpQueue \in Seq(FollowUpMsg)
  /\ pending \in Seq(Msg) /\ fresh \subseteq Msg /\ lost \subseteq Msg
  /\ {firstTurn, hasMore, lastTurn, skipPoll, streaming, sequential} \subseteq BOOLEAN
  /\ consecutiveReflexes \in Nat /\ base \in Nat /\ turn \in Nat /\ failures \in Nat
  /\ calls \in [1..MaxCalls -> {"none", "todo", "started", "ready", "executing", "ended"}]
  /\ terminate \subseteq 1..MaxCalls

(* The loop's private copy and the transcript built from its events agree  *)
(* whenever the loop is between turns or is about to call the provider: no *)
(* event was forgotten, doubled or reordered against a push.               *)
TranscriptAgrees ==
  /\ pc \in {"poll", "polled", "inner", "route", "inject", "turnEnd", "stopCheck",
            "steeringPoll", "steeringPolled", "followUpPoll", "followUpPolled", "continuation"}
     => context = messages
  /\ pc = "stream" => messages = IF streaming THEN SubSeq(context, 1, Len(context) - 1) ELSE context

(* A tool result stands right behind its assistant message, at the place   *)
(* of its call: results are in call order, nothing comes between, and none *)
(* is recorded twice.                                                      *)
ResultsFollowCalls ==
  \A q \in DOMAIN messages :
    messages[q].role = "result" =>
      LET c == messages[q].n IN
      /\ 0 < c /\ c < q
      /\ messages[q - c].role = "assistant"
      /\ messages[q - c].id = messages[q].id /\ c <= messages[q - c].n
      /\ \A d \in 1..(c - 1) : messages[q - d].role = "result"

(* While a run goes on to another turn, every tool call of its last        *)
(* assistant message has a result: only an abort of a sequential batch or  *)
(* a failed run leaves a call unanswered, and neither calls the provider.  *)
NoDanglingCall ==
  pc \in {"stopCheck", "inner", "route"} /\ ~firstTurn =>
    \A p \in DOMAIN messages :
      messages[p].role = "assistant" /\ messages[p].id = turn =>
        Cardinality({q \in DOMAIN messages :
           messages[q].role = "result" /\ messages[q].id = turn}) = messages[p].n

RecordedOf(class) ==
  LET mine == Keep(messages, {User(m) : m \in class})
  IN  [i \in DOMAIN mine |-> mine[i].id]
TakenOf(class) == Keep(pending, class)

Steering == INSTANCE MessageDelivery WITH
  M <- SteerMsg, outside <- fresh \cap SteerMsg, waiting <- steeringQueue,
  taken <- TakenOf(SteerMsg), record <- RecordedOf(SteerMsg), lost <- lost \cap SteerMsg
FollowUps == INSTANCE MessageDelivery WITH
  M <- FollowUpMsg, outside <- fresh \cap FollowUpMsg, waiting <- followUpQueue,
  taken <- TakenOf(FollowUpMsg), record <- RecordedOf(FollowUpMsg), lost <- lost \cap FollowUpMsg

(* The steering and the follow-up queue are such lines: first come, first  *)
(* recorded, at most once, and no waiting message is forgotten, whatever   *)
(* is aborted or throws and whether a run or continue() drains the queue.  *)
QueuesDelivered == Steering!Spec /\ FollowUps!Spec

(* A message taken from a queue is dropped only by an abort or by a run    *)
(* that throws: no requested stop discards what a poll has drained.        *)
LossNeedsInterrupt == [][lost' # lost => aborted \/ failures' # failures]_vars

(* An abort brings the run to an end even if the provider and the tools    *)
(* never answer: everything the loop awaits is raced with the signal.      *)
AbortSettles == (pc # "idle" /\ aborted) ~> pc = "idle"

=============================================================================
