-------------------------- MODULE AgentLoopProofs --------------------------
(***************************************************************************)
(* The agent loop, for any messages, queue modes, batch sizes, number of   *)
(* turns, reflexes and failures.                                           *)
(***************************************************************************)
EXTENDS AgentLoop, SubsequenceProofs, SequenceTheorems

(* Only in these places does a run hold messages it has not recorded; a    *)
(* prompt is recorded before the loop polls and before the first turn; a   *)
(* partial message exists only while a response is streamed.               *)
Holding == {"prompt", "polled", "inner", "inject", "steeringPolled", "followUpPolled"}
HoldInv ==
  /\ pc \notin Holding => pending = <<>>
  /\ pc = "prompt" => pending # <<>> /\ context = messages
  /\ streaming => pc = "stream" /\ context # <<>>
  /\ pc \in {"prompt", "poll", "polled"} => firstTurn

(* The first k results of the batch are recorded: in sequence as the calls *)
(* end, the call after them being the only one under way; in parallel once *)
(* all have ended.                                                         *)
Recorded(k) ==
  /\ messages = context \o Results(turn, k)
  /\ IF sequential THEN EndedCalls = 1..k /\ (\A i \in AllCalls : i > k + 1 => calls[i] = "todo")
     ELSE k = 0 \/ EndedCalls = AllCalls

(* Up to index p, p excluded, everything belongs to earlier turns.         *)
OlderBefore(p) ==
  \A q \in 1..(p - 1) : messages[q].role # "user" => messages[q].id \in Nat /\ messages[q].id < turn

BatchInv ==
  pc = "tools" =>
    /\ context # <<>> /\ Last(context).role = "assistant" /\ Last(context).id = turn
    /\ NumCalls \in 1..MaxCalls
    /\ \A i \in 1..MaxCalls : (calls[i] = "none" <=> i > NumCalls)
    /\ OlderBefore(Len(context))
    /\ \E k \in 0..NumCalls : Recorded(k)

IdsBounded ==
  \A q \in DOMAIN messages : messages[q].role # "user" => messages[q].id \in Nat /\ messages[q].id <= turn

(* The transcript ends with the turn's message and a result for each of    *)
(* its calls.                                                              *)
AnsweredAt(p) ==
  /\ messages[p].role = "assistant" /\ messages[p].id = turn /\ OlderBefore(p)
  /\ Len(messages) = p + messages[p].n
  /\ \A q \in (p + 1)..Len(messages) : messages[q].role = "result" /\ messages[q].id = turn
Answered == \E p \in DOMAIN messages : AnsweredAt(p)
Between == {"stopCheck", "steeringPoll", "steeringPolled", "inner", "route",
            "followUpPoll", "followUpPolled", "continuation"}
TurnAnswered ==
  /\ pc \in Between /\ ~firstTurn => Answered
  /\ pc = "turnEnd" /\ ~aborted => Answered

LoopInv ==
  /\ TypeOK /\ HoldInv /\ TranscriptAgrees /\ BatchInv
  /\ IdsBounded /\ ResultsFollowCalls /\ TurnAnswered
-----------------------------------------------------------------------------
(* Sequences of entries.                                                   *)

(* What the loop records, a user message, an assistant message or a tool   *)
(* result, is an entry of the transcript.                                  *)
LEMMA EntryTypes ==
    /\ \A m \in Msg : User(m) \in EntrySet
    /\ \A t, n \in Nat, s \in Stops : Entry("assistant", t, n, s) \in EntrySet
    /\ \A t, i \in Nat : Result(t, i) \in EntrySet
BY DEF User, Result, Entry, EntrySet, Stops

(* The results of a batch, as a sequence.                                  *)
LEMMA ResultsSeq ==
    ASSUME NEW t \in Nat, NEW k \in Nat
    PROVE  /\ Results(t, k) \in Seq(EntrySet) /\ Len(Results(t, k)) = k
           /\ \A i \in 1..k : Results(t, k)[i] = Result(t, i)
<1>1. \A i \in 1..k : Result(t, i) \in EntrySet
  BY EntryTypes
<1> QED
  BY <1>1 DEF Results

(* One more result is recorded.                                            *)
LEMMA OneMoreResult ==
    ASSUME NEW c \in Seq(EntrySet), NEW t \in Nat, NEW k \in Nat
    PROVE  /\ Append(c \o Results(t, k), Result(t, k + 1)) = c \o Results(t, k + 1)
           /\ c \o Results(t, 0) = c
<1> DEFINE r == Results(t, k)
           x == Result(t, k + 1)
           s == Results(t, k + 1)
<1>1. r \in Seq(EntrySet) /\ Len(r) = k /\ \A i \in 1..k : r[i] = Result(t, i)
  BY ResultsSeq
<1>2. s \in Seq(EntrySet) /\ Len(s) = k + 1 /\ \A i \in 1..(k + 1) : s[i] = Result(t, i)
  BY ResultsSeq
<1>3. Results(t, 0) \in Seq(EntrySet) /\ Len(Results(t, 0)) = 0
  BY ResultsSeq
<1>4. x \in EntrySet
  BY EntryTypes
<1>5. s[k + 1] = x
  BY <1>2
<1> HIDE DEF r, s, x
<1>6. \A i \in 1..k : s[i] = r[i]
  BY <1>1, <1>2
<1>7. s = Append(r, x)
  BY <1>1, <1>2, <1>4, <1>5, <1>6
<1>8. Append(c \o r, x) = c \o Append(r, x)
  BY <1>1, <1>4
<1>9. c \o Results(t, 0) = c
  BY <1>3
<1> QED
  BY <1>7, <1>8, <1>9 DEF r, s, x

(* The final message takes the place of the partial one.                   *)
LEMMA FinalReplacesPartial ==
    ASSUME NEW c \in Seq(EntrySet), c # <<>>, NEW x \in EntrySet
    PROVE  /\ ReplaceLast(c, x) = Append(SubSeq(c, 1, Len(c) - 1), x)
           /\ ReplaceLast(c, x) \in Seq(EntrySet)
<1> DEFINE r == ReplaceLast(c, x)
           f == SubSeq(c, 1, Len(c) - 1)
           a == Append(f, x)
<1>1. r = [i \in 1..Len(c) |-> IF i = Len(c) THEN x ELSE c[i]]
  BY DEF ReplaceLast
<1>2. r \in Seq(EntrySet) /\ Len(r) = Len(c)
  BY <1>1
<1>3. \A i \in 1..Len(c) : r[i] = IF i = Len(c) THEN x ELSE c[i]
  BY <1>1
<1> HIDE DEF r
<1>4. f \in Seq(EntrySet) /\ Len(f) = Len(c) - 1 /\ \A i \in 1..(Len(c) - 1) : f[i] = c[i]
  <2>1. 1 \in 1..(Len(c) + 1) /\ Len(c) - 1 \in (1 - 1)..Len(c)
    OBVIOUS
  <2>2. (Len(c) - 1) - 1 + 1 = Len(c) - 1 /\ \A i \in 1..(Len(c) - 1) : 1 + i - 1 = i
    OBVIOUS
  <2> QED
    BY <2>1, <2>2, SubSeqProperties
<1> HIDE DEF f
<1>5. a \in Seq(EntrySet) /\ Len(a) = Len(c) /\ \A i \in 1..Len(c) : a[i] = IF i = Len(c) THEN x ELSE c[i]
  BY <1>4
<1> HIDE DEF a
<1>6. r = a
  BY <1>2, <1>3, <1>5, SeqEqual
<1> QED
  BY <1>2, <1>6 DEF r, a, f

(* What a queue gives to a poll and what it keeps.                         *)
LEMMA DrainTypes ==
    ASSUME NEW S, NEW q \in Seq(S), NEW mode \in Mode
    PROVE  /\ Drained(q, mode) \in Seq(S) /\ Remaining(q, mode) \in Seq(S)
           /\ q # <<>> => \E k \in 1..Len(q) : /\ Drained(q, mode) = SubSeq(q, 1, k)
                                                /\ Remaining(q, mode) = SubSeq(q, k + 1, Len(q))
                                                /\ Drained(q, mode) # <<>>
           /\ q = <<>> => Drained(q, mode) = <<>> /\ Remaining(q, mode) = <<>>
<1>1. CASE q = <<>>
  BY <1>1 DEF Drained, Remaining
<1>2. CASE q # <<>> /\ mode = "all"
  <2>1. Drained(q, mode) = q /\ Remaining(q, mode) = <<>>
    BY <1>2 DEF Drained, Remaining
  <2>2. Len(q) \in 1..Len(q) /\ q = SubSeq(q, 1, Len(q)) /\ <<>> = SubSeq(q, Len(q) + 1, Len(q))
    BY <1>2
  <2>3. \E k \in 1..Len(q) : q = SubSeq(q, 1, k) /\ <<>> = SubSeq(q, k + 1, Len(q))
    BY <2>2
  <2>4. <<>> \in Seq(S)
    OBVIOUS
  <2> QED
    BY <1>2, <2>1, <2>3, <2>4
<1>3. CASE q # <<>> /\ mode # "all"
  <2>1. Drained(q, mode) = SubSeq(q, 1, 1) /\ Remaining(q, mode) = Tail(q)
    BY <1>3 DEF Drained, Remaining
  <2>2. 1 \in 1..Len(q) /\ Tail(q) = SubSeq(q, 1 + 1, Len(q)) /\ SubSeq(q, 1, 1) # <<>>
    BY <1>3
  <2>3. SubSeq(q, 1, 1) \in Seq(S) /\ Tail(q) \in Seq(S)
    BY <1>3
  <2> QED
    BY <1>3, <2>1, <2>2, <2>3
<1> QED
  BY <1>1, <1>2, <1>3

(* Where the results of a batch stand.                                     *)
LEMMA ResultsBehind ==
    ASSUME NEW c \in Seq(EntrySet), NEW t \in Nat, NEW k \in Nat
    PROVE  /\ c \o Results(t, k) \in Seq(EntrySet)
           /\ Len(c \o Results(t, k)) = Len(c) + k
           /\ \A i \in 1..Len(c) : (c \o Results(t, k))[i] = c[i]
           /\ \A i \in 1..k : (c \o Results(t, k))[Len(c) + i] = Result(t, i)
<1> DEFINE r == Results(t, k)
           m == c \o r
<1>1. r \in Seq(EntrySet) /\ Len(r) = k /\ \A i \in 1..k : r[i] = Result(t, i)
  BY ResultsSeq
<1> HIDE DEF r
<1>2. /\ m \in Seq(EntrySet) /\ Len(m) = Len(c) + k
      /\ \A i \in 1..(Len(c) + k) : m[i] = IF i <= Len(c) THEN c[i] ELSE r[i - Len(c)]
  BY <1>1, ConcatProperties
<1> HIDE DEF m
<1>3. \A i \in 1..k : m[Len(c) + i] = r[i]
  <2> TAKE i \in 1..k
  <2>1. Len(c) + i \in 1..(Len(c) + k) /\ ~(Len(c) + i <= Len(c)) /\ (Len(c) + i) - Len(c) = i
    OBVIOUS
  <2> QED
    BY <1>2, <2>1
<1>4. \A i \in 1..Len(c) : m[i] = c[i]
  BY <1>2
<1> QED
  BY <1>1, <1>2, <1>3, <1>4 DEF m, r

-----------------------------------------------------------------------------
(* What a run holds and where, step by step.                               *)
LEMMA HoldStep ==
    ASSUME TypeOK, HoldInv, [Next]_vars
    PROVE  HoldInv'
<1>0. /\ steeringQueue \in Seq(SteerMsg) /\ followUpQueue \in Seq(FollowUpMsg)
      /\ SteeringMode \in Mode /\ FollowUpMode \in Mode /\ pending \in Seq(Msg)
  BY LoopAssumption DEF TypeOK
<1>1. ASSUME NEW m \in fresh, Steer(m) PROVE HoldInv'
  BY <1>1 DEF Steer, agentVars, stateVars, queueVars, flowVars, toolVars, HoldInv, Holding
<1>2. ASSUME NEW m \in fresh, FollowUp(m) PROVE HoldInv'
  BY <1>2 DEF FollowUp, agentVars, stateVars, queueVars, flowVars, toolVars, HoldInv, Holding
<1>3. ASSUME NEW m \in fresh, Prompt(m) PROVE HoldInv'
  BY <1>3 DEF Prompt, BeginRun, Goto, agentVars, stateVars, queueVars, flowVars, toolVars, HoldInv, Holding
<1>4. ASSUME NEW m \in fresh, TakeContinuation(m) PROVE HoldInv'
  BY <1>4 DEF TakeContinuation, Goto, agentVars, stateVars, queueVars, flowVars, toolVars, HoldInv, Holding
<1>5. ASSUME NEW m \in Msg, RemoveQueued(m) PROVE HoldInv'
  BY <1>5 DEF RemoveQueued, agentVars, stateVars, queueVars, flowVars, toolVars, HoldInv, Holding
<1>6. ASSUME Continue PROVE HoldInv'
  <2>1. steeringQueue # <<>> => Drained(steeringQueue, SteeringMode) # <<>>
    BY <1>0, DrainTypes
  <2>2. followUpQueue # <<>> => Drained(followUpQueue, FollowUpMode) # <<>>
    BY <1>0, DrainTypes
  <2> QED
    BY <1>6, <2>1, <2>2 DEF Continue, BeginRun, Goto, agentVars, stateVars, queueVars, flowVars,
         toolVars, HoldInv, Holding
<1>7. ASSUME Abort PROVE HoldInv'
  BY <1>7 DEF Abort, agentVars, stateVars, queueVars, flowVars, toolVars, HoldInv, Holding
<1>8. ASSUME RouteReflex PROVE HoldInv'
  BY <1>8 DEF RouteReflex, Record, NewCalls, Goto, agentVars, stateVars, queueVars, flowVars,
       toolVars, HoldInv, Holding
<1>9. ASSUME StreamStart PROVE HoldInv'
  BY <1>9 DEF StreamStart, agentVars, stateVars, queueVars, flowVars, toolVars, HoldInv, Holding
<1>10. ASSUME StreamError PROVE HoldInv'
  BY <1>10 DEF StreamError, FinishStream, NewCalls, EmitAgentEnd, Goto, agentVars, stateVars,
       queueVars, flowVars, toolVars, HoldInv, Holding
<1>11. ASSUME NEW n \in 0..MaxCalls, StreamDone(n) PROVE HoldInv'
  BY <1>11 DEF StreamDone, FinishStream, NewCalls, Goto, agentVars, stateVars, queueVars, flowVars,
       toolVars, HoldInv, Holding
<1>12. ASSUME NEW i \in 1..MaxCalls, PrepareCall(i) PROVE HoldInv'
  BY <1>12 DEF PrepareCall, SetCall, agentVars, stateVars, queueVars, flowVars, toolVars, HoldInv, Holding
<1>13. ASSUME NEW i \in 1..MaxCalls, ToolReturns(i) PROVE HoldInv'
  BY <1>13 DEF ToolReturns, EndCall, SetCall, CallId, agentVars, stateVars, queueVars, flowVars,
       toolVars, HoldInv, Holding
<1>14. ASSUME NEW i \in 1..MaxCalls, ToolEndThrows(i) PROVE HoldInv'
  BY <1>14 DEF ToolEndThrows, Goto, CallId, agentVars, stateVars, queueVars, flowVars, toolVars,
       HoldInv, Holding
<1>15. ASSUME NEW z \in zombies, ZombieEnds(z) PROVE HoldInv'
  BY <1>15 DEF ZombieEnds, agentVars, stateVars, queueVars, flowVars, toolVars, HoldInv, Holding
<1>16. ASSUME RunThrows PROVE HoldInv'
  BY <1>16 DEF RunThrows, DropPending, Goto, agentVars, stateVars, queueVars, flowVars, toolVars,
       HoldInv, Holding
<1>17. ASSUME EmitPrompt PROVE HoldInv'
  BY <1>17, <1>0 DEF EmitPrompt, Record, Goto, agentVars, stateVars, queueVars, flowVars, toolVars,
       HoldInv, Holding
<1>18. ASSUME FirstPoll PROVE HoldInv'
  BY <1>18 DEF FirstPoll, PollSteering, Goto, agentVars, stateVars, queueVars, flowVars, toolVars,
       HoldInv, Holding
<1>19. ASSUME EnterLoop PROVE HoldInv'
  BY <1>19 DEF EnterLoop, DropPending, Goto, agentVars, stateVars, queueVars, flowVars, toolVars,
       HoldInv, Holding
<1>20. ASSUME LeaveInner PROVE HoldInv'
  BY <1>20 DEF LeaveInner, EmitAgentEnd, Goto, NoMessages, agentVars, stateVars, queueVars, flowVars,
       toolVars, HoldInv, Holding
<1>21. ASSUME EnterTurn PROVE HoldInv'
  BY <1>21 DEF EnterTurn, DropPending, Goto, NoMessages, agentVars, stateVars, queueVars, flowVars,
       toolVars, HoldInv, Holding
<1>22. ASSUME RouteNone PROVE HoldInv'
  BY <1>22 DEF RouteNone, Goto, agentVars, stateVars, queueVars, flowVars, toolVars, HoldInv, Holding
<1>23. ASSUME Inject PROVE HoldInv'
  BY <1>23 DEF Inject, Record, Goto, NoMessages, agentVars, stateVars, queueVars, flowVars, toolVars,
       HoldInv, Holding
<1>24. ASSUME StreamAborted PROVE HoldInv'
  BY <1>24 DEF StreamAborted, FinishStream, NewCalls, EmitAgentEnd, Goto, agentVars, stateVars,
       queueVars, flowVars, toolVars, HoldInv, Holding
<1>25. ASSUME NEW i \in 1..MaxCalls, StartCall(i) PROVE HoldInv'
  BY <1>25 DEF StartCall, SetCall, CallId, agentVars, stateVars, queueVars, flowVars, toolVars,
       HoldInv, Holding
<1>26. ASSUME NEW i \in 1..MaxCalls, ImmediateCall(i) PROVE HoldInv'
  BY <1>26 DEF ImmediateCall, EndCall, SetCall, CallId, agentVars, stateVars, queueVars, flowVars,
       toolVars, HoldInv, Holding
<1>27. ASSUME NEW i \in 1..MaxCalls, ToolAborted(i) PROVE HoldInv'
  BY <1>27 DEF ToolAborted, EndCall, SetCall, CallId, agentVars, stateVars, queueVars, flowVars,
       toolVars, HoldInv, Holding
<1>28. ASSUME LaunchCalls PROVE HoldInv'
  BY <1>28 DEF LaunchCalls, agentVars, stateVars, queueVars, flowVars, toolVars, HoldInv, Holding
<1>29. ASSUME RecordResult PROVE HoldInv'
  BY <1>29 DEF RecordResult, agentVars, stateVars, queueVars, flowVars, toolVars, HoldInv, Holding
<1>30. ASSUME FinishBatch PROVE HoldInv'
  BY <1>30 DEF FinishBatch, Goto, agentVars, stateVars, queueVars, flowVars, toolVars, HoldInv, Holding
<1>31. ASSUME TurnEnd PROVE HoldInv'
  BY <1>31 DEF TurnEnd, EmitAgentEnd, Goto, agentVars, stateVars, queueVars, flowVars, toolVars,
       HoldInv, Holding
<1>32. ASSUME StopAfterTurn PROVE HoldInv'
  BY <1>32 DEF StopAfterTurn, EmitAgentEnd, Goto, agentVars, stateVars, queueVars, flowVars, toolVars,
       HoldInv, Holding
<1>33. ASSUME GoOnAfterTurn PROVE HoldInv'
  BY <1>33 DEF GoOnAfterTurn, Goto, agentVars, stateVars, queueVars, flowVars, toolVars, HoldInv, Holding
<1>34. ASSUME SteeringPoll PROVE HoldInv'
  BY <1>34 DEF SteeringPoll, PollSteering, Goto, agentVars, stateVars, queueVars, flowVars, toolVars,
       HoldInv, Holding
<1>35. ASSUME AfterSteeringPoll PROVE HoldInv'
  BY <1>35 DEF AfterSteeringPoll, DropPending, EmitAgentEnd, Goto, NoMessages, agentVars, stateVars,
       queueVars, flowVars, toolVars, HoldInv, Holding
<1>36. ASSUME FollowUpPoll PROVE HoldInv'
  BY <1>36 DEF FollowUpPoll, Goto, agentVars, stateVars, queueVars, flowVars, toolVars, HoldInv, Holding
<1>37. ASSUME AfterFollowUpPoll PROVE HoldInv'
  BY <1>37 DEF AfterFollowUpPoll, DropPending, EmitAgentEnd, Goto, NoMessages, agentVars, stateVars,
       queueVars, flowVars, toolVars, HoldInv, Holding
<1>38. ASSUME NoContinuation PROVE HoldInv'
  BY <1>38 DEF NoContinuation, EmitAgentEnd, Goto, agentVars, stateVars, queueVars, flowVars,
       toolVars, HoldInv, Holding
<1>39. ASSUME HandleRunFailure PROVE HoldInv'
  BY <1>39 DEF HandleRunFailure, Goto, agentVars, stateVars, queueVars, flowVars, toolVars, HoldInv, Holding
<1>40. ASSUME FinishRun PROVE HoldInv'
  BY <1>40 DEF FinishRun, NoLocals, Goto, agentVars, stateVars, queueVars, flowVars, toolVars,
       HoldInv, Holding
<1>41. ASSUME UNCHANGED vars PROVE HoldInv'
  BY <1>41 DEF vars, agentVars, stateVars, queueVars, flowVars, toolVars, HoldInv, Holding
<1> QED
  BY <1>1, <1>2, <1>3, <1>4, <1>5, <1>6, <1>7, <1>8, <1>9, <1>10, <1>11, <1>12, <1>13, <1>14, <1>15,
       <1>16, <1>17, <1>18, <1>19, <1>20, <1>21, <1>22, <1>23, <1>24, <1>25, <1>26, <1>27, <1>28,
       <1>29, <1>30, <1>31, <1>32, <1>33, <1>34, <1>35, <1>36, <1>37, <1>38, <1>39, <1>40, <1>41 DEF
       Next, External, Internal

-----------------------------------------------------------------------------
(* The control part of the type invariant.                                 *)
ControlType ==
  /\ pc \in Labels /\ aborted \in BOOLEAN /\ ended \in BOOLEAN
  /\ firstTurn \in BOOLEAN /\ hasMore \in BOOLEAN /\ lastTurn \in BOOLEAN /\ skipPoll \in BOOLEAN
  /\ streaming \in BOOLEAN /\ sequential \in BOOLEAN

(* The messages a run or a queue has.                                      *)
QueueType ==
  /\ steeringQueue \in Seq(SteerMsg) /\ followUpQueue \in Seq(FollowUpMsg)
  /\ pending \in Seq(Msg) /\ fresh \subseteq Msg /\ lost \subseteq Msg

TranscriptType == messages \in Seq(EntrySet) /\ context \in Seq(EntrySet)

ToolType ==
  /\ pendingToolCalls \subseteq Nat \X Nat /\ zombies \subseteq Nat \X Nat
  /\ consecutiveReflexes \in Nat /\ base \in Nat /\ turn \in Nat /\ failures \in Nat
  /\ calls \in [1..MaxCalls -> {"none", "todo", "started", "ready", "executing", "ended"}]
  /\ terminate \subseteq 1..MaxCalls

(* TypeOK in four parts, so that each step below moves only the part it    *)
(* is about.                                                               *)
LEMMA TypeParts == TypeOK <=> ControlType /\ QueueType /\ TranscriptType /\ ToolType
<1>1. {firstTurn, hasMore, lastTurn, skipPoll, streaming, sequential} \subseteq BOOLEAN
      <=> /\ firstTurn \in BOOLEAN /\ hasMore \in BOOLEAN /\ lastTurn \in BOOLEAN
          /\ skipPoll \in BOOLEAN /\ streaming \in BOOLEAN /\ sequential \in BOOLEAN
  BY Zenon
<1> QED
  BY <1>1, Zenon DEF TypeOK, ControlType, QueueType, TranscriptType, ToolType

(* The same in the next state.                                             *)
LEMMA TypePartsNext == TypeOK' <=> ControlType' /\ QueueType' /\ TranscriptType' /\ ToolType'
<1>1. {firstTurn', hasMore', lastTurn', skipPoll', streaming', sequential'} \subseteq BOOLEAN
      <=> /\ firstTurn' \in BOOLEAN /\ hasMore' \in BOOLEAN /\ lastTurn' \in BOOLEAN
          /\ skipPoll' \in BOOLEAN /\ streaming' \in BOOLEAN /\ sequential' \in BOOLEAN
  BY Zenon
<1> QED
  BY <1>1, Zenon DEF TypeOK, ControlType, QueueType, TranscriptType, ToolType

(* Every step of the run and of the agent's callers keeps the control      *)
(* variables in their types.                                               *)
LEMMA ControlStep ==
    ASSUME ControlType, [Next]_vars
    PROVE  ControlType'
<1>1. ASSUME NEW m \in fresh, Steer(m) PROVE ControlType'
  BY <1>1 DEF Steer, agentVars, stateVars, queueVars, flowVars, toolVars, ControlType, Labels
<1>2. ASSUME NEW m \in fresh, FollowUp(m) PROVE ControlType'
  BY <1>2 DEF FollowUp, agentVars, stateVars, queueVars, flowVars, toolVars, ControlType, Labels
<1>3. ASSUME NEW m \in fresh, Prompt(m) PROVE ControlType'
  BY <1>3 DEF Prompt, BeginRun, Goto, agentVars, stateVars, queueVars, flowVars, toolVars, ControlType, Labels
<1>4. ASSUME NEW m \in fresh, TakeContinuation(m) PROVE ControlType'
  BY <1>4 DEF TakeContinuation, Goto, agentVars, stateVars, queueVars, flowVars, toolVars, ControlType, Labels
<1>5. ASSUME NEW m \in Msg, RemoveQueued(m) PROVE ControlType'
  BY <1>5 DEF RemoveQueued, agentVars, stateVars, queueVars, flowVars, toolVars, ControlType, Labels
<1>6. ASSUME Continue PROVE ControlType'
  BY <1>6 DEF Continue, BeginRun, Goto, agentVars, stateVars, queueVars, flowVars, toolVars,
       ControlType, Labels
<1>7. ASSUME Abort PROVE ControlType'
  BY <1>7 DEF Abort, agentVars, stateVars, queueVars, flowVars, toolVars, ControlType, Labels
<1>8. ASSUME RouteReflex PROVE ControlType'
  BY <1>8 DEF RouteReflex, Record, NewCalls, Goto, agentVars, stateVars, queueVars, flowVars,
       toolVars, ControlType, Labels
<1>9. ASSUME StreamStart PROVE ControlType'
  BY <1>9 DEF StreamStart, agentVars, stateVars, queueVars, flowVars, toolVars, ControlType, Labels
<1>10. ASSUME StreamError PROVE ControlType'
  BY <1>10 DEF StreamError, FinishStream, NewCalls, EmitAgentEnd, Goto, agentVars, stateVars,
       queueVars, flowVars, toolVars, ControlType, Labels
<1>11. ASSUME NEW n \in 0..MaxCalls, StreamDone(n) PROVE ControlType'
  BY <1>11 DEF StreamDone, FinishStream, NewCalls, Goto, agentVars, stateVars, queueVars, flowVars,
       toolVars, ControlType, Labels
<1>12. ASSUME NEW i \in 1..MaxCalls, PrepareCall(i) PROVE ControlType'
  BY <1>12 DEF PrepareCall, SetCall, agentVars, stateVars, queueVars, flowVars, toolVars, ControlType, Labels
<1>13. ASSUME NEW i \in 1..MaxCalls, ToolReturns(i) PROVE ControlType'
  BY <1>13 DEF ToolReturns, EndCall, SetCall, CallId, agentVars, stateVars, queueVars, flowVars,
       toolVars, ControlType, Labels
<1>14. ASSUME NEW i \in 1..MaxCalls, ToolEndThrows(i) PROVE ControlType'
  BY <1>14 DEF ToolEndThrows, Goto, CallId, agentVars, stateVars, queueVars, flowVars, toolVars,
       ControlType, Labels
<1>15. ASSUME NEW z \in zombies, ZombieEnds(z) PROVE ControlType'
  BY <1>15 DEF ZombieEnds, agentVars, stateVars, queueVars, flowVars, toolVars, ControlType, Labels
<1>16. ASSUME RunThrows PROVE ControlType'
  BY <1>16 DEF RunThrows, DropPending, Goto, agentVars, stateVars, queueVars, flowVars, toolVars,
       ControlType, Labels
<1>17. ASSUME EmitPrompt PROVE ControlType'
  BY <1>17 DEF EmitPrompt, Record, Goto, agentVars, stateVars, queueVars, flowVars, toolVars,
       ControlType, Labels
<1>18. ASSUME FirstPoll PROVE ControlType'
  BY <1>18 DEF FirstPoll, PollSteering, Goto, agentVars, stateVars, queueVars, flowVars, toolVars,
       ControlType, Labels
<1>19. ASSUME EnterLoop PROVE ControlType'
  BY <1>19 DEF EnterLoop, DropPending, Goto, agentVars, stateVars, queueVars, flowVars, toolVars,
       ControlType, Labels
<1>20. ASSUME LeaveInner PROVE ControlType'
  BY <1>20 DEF LeaveInner, EmitAgentEnd, Goto, NoMessages, agentVars, stateVars, queueVars, flowVars,
       toolVars, ControlType, Labels
<1>21. ASSUME EnterTurn PROVE ControlType'
  BY <1>21 DEF EnterTurn, DropPending, Goto, NoMessages, agentVars, stateVars, queueVars, flowVars,
       toolVars, ControlType, Labels
<1>22. ASSUME RouteNone PROVE ControlType'
  BY <1>22 DEF RouteNone, Goto, agentVars, stateVars, queueVars, flowVars, toolVars, ControlType, Labels
<1>23. ASSUME Inject PROVE ControlType'
  BY <1>23 DEF Inject, Record, Goto, NoMessages, agentVars, stateVars, queueVars, flowVars, toolVars,
       ControlType, Labels
<1>24. ASSUME StreamAborted PROVE ControlType'
  BY <1>24 DEF StreamAborted, FinishStream, NewCalls, EmitAgentEnd, Goto, agentVars, stateVars,
       queueVars, flowVars, toolVars, ControlType, Labels
<1>25. ASSUME NEW i \in 1..MaxCalls, StartCall(i) PROVE ControlType'
  BY <1>25 DEF StartCall, SetCall, CallId, agentVars, stateVars, queueVars, flowVars, toolVars,
       ControlType, Labels
<1>26. ASSUME NEW i \in 1..MaxCalls, ImmediateCall(i) PROVE ControlType'
  BY <1>26 DEF ImmediateCall, EndCall, SetCall, CallId, agentVars, stateVars, queueVars, flowVars,
       toolVars, ControlType, Labels
<1>27. ASSUME NEW i \in 1..MaxCalls, ToolAborted(i) PROVE ControlType'
  BY <1>27 DEF ToolAborted, EndCall, SetCall, CallId, agentVars, stateVars, queueVars, flowVars,
       toolVars, ControlType, Labels
<1>28. ASSUME LaunchCalls PROVE ControlType'
  BY <1>28 DEF LaunchCalls, agentVars, stateVars, queueVars, flowVars, toolVars, ControlType, Labels
<1>29. ASSUME RecordResult PROVE ControlType'
  BY <1>29 DEF RecordResult, agentVars, stateVars, queueVars, flowVars, toolVars, ControlType, Labels
<1>30. ASSUME FinishBatch PROVE ControlType'
  BY <1>30 DEF FinishBatch, Goto, agentVars, stateVars, queueVars, flowVars, toolVars, ControlType, Labels
<1>31. ASSUME TurnEnd PROVE ControlType'
  BY <1>31 DEF TurnEnd, EmitAgentEnd, Goto, agentVars, stateVars, queueVars, flowVars, toolVars,
       ControlType, Labels
<1>32. ASSUME StopAfterTurn PROVE ControlType'
  BY <1>32 DEF StopAfterTurn, EmitAgentEnd, Goto, agentVars, stateVars, queueVars, flowVars, toolVars,
       ControlType, Labels
<1>33. ASSUME GoOnAfterTurn PROVE ControlType'
  BY <1>33 DEF GoOnAfterTurn, Goto, agentVars, stateVars, queueVars, flowVars, toolVars, ControlType, Labels
<1>34. ASSUME SteeringPoll PROVE ControlType'
  BY <1>34 DEF SteeringPoll, PollSteering, Goto, agentVars, stateVars, queueVars, flowVars, toolVars,
       ControlType, Labels
<1>35. ASSUME AfterSteeringPoll PROVE ControlType'
  BY <1>35 DEF AfterSteeringPoll, DropPending, EmitAgentEnd, Goto, NoMessages, agentVars, stateVars,
       queueVars, flowVars, toolVars, ControlType, Labels
<1>36. ASSUME FollowUpPoll PROVE ControlType'
  BY <1>36 DEF FollowUpPoll, Goto, agentVars, stateVars, queueVars, flowVars, toolVars, ControlType, Labels
<1>37. ASSUME AfterFollowUpPoll PROVE ControlType'
  BY <1>37 DEF AfterFollowUpPoll, DropPending, EmitAgentEnd, Goto, NoMessages, agentVars, stateVars,
       queueVars, flowVars, toolVars, ControlType, Labels
<1>38. ASSUME NoContinuation PROVE ControlType'
  BY <1>38 DEF NoContinuation, EmitAgentEnd, Goto, agentVars, stateVars, queueVars, flowVars,
       toolVars, ControlType, Labels
<1>39. ASSUME HandleRunFailure PROVE ControlType'
  BY <1>39 DEF HandleRunFailure, Goto, agentVars, stateVars, queueVars, flowVars, toolVars,
       ControlType, Labels
<1>40. ASSUME FinishRun PROVE ControlType'
  BY <1>40 DEF FinishRun, NoLocals, Goto, agentVars, stateVars, queueVars, flowVars, toolVars,
       ControlType, Labels
<1>41. ASSUME UNCHANGED vars PROVE ControlType'
  BY <1>41 DEF vars, agentVars, stateVars, queueVars, flowVars, toolVars, ControlType, Labels
<1> QED
  BY <1>1, <1>2, <1>3, <1>4, <1>5, <1>6, <1>7, <1>8, <1>9, <1>10, <1>11, <1>12, <1>13, <1>14, <1>15,
       <1>16, <1>17, <1>18, <1>19, <1>20, <1>21, <1>22, <1>23, <1>24, <1>25, <1>26, <1>27, <1>28,
       <1>29, <1>30, <1>31, <1>32, <1>33, <1>34, <1>35, <1>36, <1>37, <1>38, <1>39, <1>40, <1>41 DEF
       Next, External, Internal

(* No step of a caller, a poll or a drain puts anything but messages of    *)
(* its own kind in a queue.                                                *)
LEMMA QueueStep ==
    ASSUME QueueType, HoldInv, [Next]_vars
    PROVE  QueueType'
<1>0. /\ steeringQueue \in Seq(SteerMsg) /\ followUpQueue \in Seq(FollowUpMsg)
      /\ steeringQueue \in Seq(Msg) /\ followUpQueue \in Seq(Msg)
      /\ SteeringMode \in Mode /\ FollowUpMode \in Mode
  BY LoopAssumption DEF QueueType, Msg
<1>1. ASSUME NEW m \in fresh, Steer(m) PROVE QueueType'
  BY <1>1 DEF Steer, agentVars, stateVars, queueVars, flowVars, toolVars, QueueType
<1>2. ASSUME NEW m \in fresh, FollowUp(m) PROVE QueueType'
  BY <1>2 DEF FollowUp, agentVars, stateVars, queueVars, flowVars, toolVars, QueueType
<1>3. ASSUME NEW m \in fresh, Prompt(m) PROVE QueueType'
  BY <1>3 DEF Prompt, BeginRun, Goto, agentVars, stateVars, queueVars, flowVars, toolVars, QueueType, Msg
<1>4. ASSUME NEW m \in fresh, TakeContinuation(m) PROVE QueueType'
  BY <1>4 DEF TakeContinuation, Goto, agentVars, stateVars, queueVars, flowVars, toolVars, QueueType, Msg
<1>5. ASSUME NEW m \in Msg, RemoveQueued(m) PROVE QueueType'
  <2>1. /\ Keep(steeringQueue, Msg \ {m}) \in Seq(SteerMsg)
        /\ Keep(followUpQueue, Msg \ {m}) \in Seq(FollowUpMsg)
    BY KeepMembers DEF QueueType
  <2> QED
    BY <1>5, <2>1 DEF RemoveQueued, agentVars, stateVars, queueVars, flowVars, toolVars, QueueType
<1>6. ASSUME Continue PROVE QueueType'
  <2>1. /\ Drained(steeringQueue, SteeringMode) \in Seq(Msg)
        /\ Remaining(steeringQueue, SteeringMode) \in Seq(SteerMsg)
    BY <1>0, DrainTypes
  <2>2. /\ Drained(followUpQueue, FollowUpMode) \in Seq(Msg)
        /\ Remaining(followUpQueue, FollowUpMode) \in Seq(FollowUpMsg)
    BY <1>0, DrainTypes
  <2>3. /\ UNCHANGED <<fresh, lost>>
        /\ \/ pending' = <<>> \/ pending' = pending
           \/ pending' = Drained(steeringQueue, SteeringMode)
           \/ pending' = Drained(followUpQueue, FollowUpMode)
        /\ steeringQueue' = steeringQueue \/ steeringQueue' = Remaining(steeringQueue, SteeringMode)
        /\ followUpQueue' = followUpQueue \/ followUpQueue' = Remaining(followUpQueue, FollowUpMode)
    BY <1>6 DEF Continue, BeginRun, Goto, agentVars, stateVars, queueVars, flowVars, toolVars, QueueType
  <2>4. <<>> \in Seq(Msg)
    OBVIOUS
  <2> QED
    BY <1>0, <2>1, <2>2, <2>3, <2>4 DEF QueueType
<1>7. ASSUME Abort PROVE QueueType'
  BY <1>7 DEF Abort, agentVars, stateVars, queueVars, flowVars, toolVars, QueueType
<1>8. ASSUME RouteReflex PROVE QueueType'
  BY <1>8 DEF RouteReflex, Record, NewCalls, Goto, agentVars, stateVars, queueVars, flowVars,
       toolVars, QueueType
<1>9. ASSUME StreamStart PROVE QueueType'
  BY <1>9 DEF StreamStart, agentVars, stateVars, queueVars, flowVars, toolVars, QueueType
<1>10. ASSUME StreamError PROVE QueueType'
  BY <1>10 DEF StreamError, FinishStream, NewCalls, EmitAgentEnd, Goto, agentVars, stateVars,
       queueVars, flowVars, toolVars, QueueType
<1>11. ASSUME NEW n \in 0..MaxCalls, StreamDone(n) PROVE QueueType'
  BY <1>11 DEF StreamDone, FinishStream, NewCalls, Goto, agentVars, stateVars, queueVars, flowVars,
       toolVars, QueueType
<1>12. ASSUME NEW i \in 1..MaxCalls, PrepareCall(i) PROVE QueueType'
  BY <1>12 DEF PrepareCall, SetCall, agentVars, stateVars, queueVars, flowVars, toolVars, QueueType
<1>13. ASSUME NEW i \in 1..MaxCalls, ToolReturns(i) PROVE QueueType'
  BY <1>13 DEF ToolReturns, EndCall, SetCall, CallId, agentVars, stateVars, queueVars, flowVars,
       toolVars, QueueType
<1>14. ASSUME NEW i \in 1..MaxCalls, ToolEndThrows(i) PROVE QueueType'
  BY <1>14 DEF ToolEndThrows, Goto, CallId, agentVars, stateVars, queueVars, flowVars, toolVars, QueueType
<1>15. ASSUME NEW z \in zombies, ZombieEnds(z) PROVE QueueType'
  BY <1>15 DEF ZombieEnds, agentVars, stateVars, queueVars, flowVars, toolVars, QueueType
<1>16. ASSUME RunThrows PROVE QueueType'
  <2>1. ToSet(pending) \subseteq Msg
    BY DEF ToSet, QueueType
  <2>2. /\ UNCHANGED <<steeringQueue, followUpQueue, fresh>>
        /\ \/ pending' = <<>> /\ lost' = lost \cup ToSet(pending)
           \/ pending' = pending /\ lost' = lost
    BY <1>16 DEF RunThrows, DropPending, Goto, agentVars, stateVars, queueVars, flowVars, toolVars, QueueType
  <2>3. <<>> \in Seq(Msg)
    OBVIOUS
  <2> QED
    BY <2>1, <2>2, <2>3 DEF QueueType
<1>17. ASSUME EmitPrompt PROVE QueueType'
  BY <1>17 DEF EmitPrompt, Record, Goto, agentVars, stateVars, queueVars, flowVars, toolVars,
       QueueType, HoldInv
<1>18. ASSUME FirstPoll PROVE QueueType'
  <2>1. /\ Drained(steeringQueue, SteeringMode) \in Seq(Msg)
        /\ Remaining(steeringQueue, SteeringMode) \in Seq(SteerMsg)
    BY <1>0, DrainTypes
  <2>2. /\ Drained(followUpQueue, FollowUpMode) \in Seq(Msg)
        /\ Remaining(followUpQueue, FollowUpMode) \in Seq(FollowUpMsg)
    BY <1>0, DrainTypes
  <2>3. /\ UNCHANGED <<fresh, lost>>
        /\ \/ pending' = <<>> \/ pending' = pending
           \/ pending' = Drained(steeringQueue, SteeringMode)
           \/ pending' = Drained(followUpQueue, FollowUpMode)
        /\ steeringQueue' = steeringQueue \/ steeringQueue' = Remaining(steeringQueue, SteeringMode)
        /\ followUpQueue' = followUpQueue \/ followUpQueue' = Remaining(followUpQueue, FollowUpMode)
    BY <1>18 DEF FirstPoll, PollSteering, Goto, agentVars, stateVars, queueVars, flowVars, toolVars, QueueType
  <2>4. <<>> \in Seq(Msg)
    OBVIOUS
  <2> QED
    BY <1>0, <2>1, <2>2, <2>3, <2>4 DEF QueueType
<1>19. ASSUME EnterLoop PROVE QueueType'
  <2>1. ToSet(pending) \subseteq Msg
    BY DEF ToSet, QueueType
  <2>2. /\ UNCHANGED <<steeringQueue, followUpQueue, fresh>>
        /\ \/ pending' = <<>> /\ lost' = lost \cup ToSet(pending)
           \/ pending' = pending /\ lost' = lost
    BY <1>19 DEF EnterLoop, DropPending, Goto, agentVars, stateVars, queueVars, flowVars, toolVars, QueueType
  <2>3. <<>> \in Seq(Msg)
    OBVIOUS
  <2> QED
    BY <2>1, <2>2, <2>3 DEF QueueType
<1>20. ASSUME LeaveInner PROVE QueueType'
  BY <1>20 DEF LeaveInner, EmitAgentEnd, Goto, NoMessages, agentVars, stateVars, queueVars, flowVars,
       toolVars, QueueType
<1>21. ASSUME EnterTurn PROVE QueueType'
  <2>1. ToSet(pending) \subseteq Msg
    BY DEF ToSet, QueueType
  <2>2. /\ UNCHANGED <<steeringQueue, followUpQueue, fresh>>
        /\ \/ pending' = <<>> /\ lost' = lost \cup ToSet(pending)
           \/ pending' = pending /\ lost' = lost
    BY <1>21 DEF EnterTurn, DropPending, Goto, NoMessages, agentVars, stateVars, queueVars,
         flowVars, toolVars, QueueType
  <2>3. <<>> \in Seq(Msg)
    OBVIOUS
  <2> QED
    BY <2>1, <2>2, <2>3 DEF QueueType
<1>22. ASSUME RouteNone PROVE QueueType'
  BY <1>22 DEF RouteNone, Goto, agentVars, stateVars, queueVars, flowVars, toolVars, QueueType
<1>23. ASSUME Inject PROVE QueueType'
  <2>1. /\ UNCHANGED <<steeringQueue, followUpQueue, fresh, lost>>
        /\ UNCHANGED pending \/ (pending # <<>> /\ pending' = Tail(pending))
    BY <1>23 DEF Inject, Record, Goto, NoMessages, agentVars, stateVars, queueVars, flowVars,
         toolVars, QueueType
  <2> QED
    BY <2>1 DEF QueueType
<1>24. ASSUME StreamAborted PROVE QueueType'
  BY <1>24 DEF StreamAborted, FinishStream, NewCalls, EmitAgentEnd, Goto, agentVars, stateVars,
       queueVars, flowVars, toolVars, QueueType
<1>25. ASSUME NEW i \in 1..MaxCalls, StartCall(i) PROVE QueueType'
  BY <1>25 DEF StartCall, SetCall, CallId, agentVars, stateVars, queueVars, flowVars, toolVars, QueueType
<1>26. ASSUME NEW i \in 1..MaxCalls, ImmediateCall(i) PROVE QueueType'
  BY <1>26 DEF ImmediateCall, EndCall, SetCall, CallId, agentVars, stateVars, queueVars, flowVars,
       toolVars, QueueType
<1>27. ASSUME NEW i \in 1..MaxCalls, ToolAborted(i) PROVE QueueType'
  BY <1>27 DEF ToolAborted, EndCall, SetCall, CallId, agentVars, stateVars, queueVars, flowVars,
       toolVars, QueueType
<1>28. ASSUME LaunchCalls PROVE QueueType'
  BY <1>28 DEF LaunchCalls, agentVars, stateVars, queueVars, flowVars, toolVars, QueueType
<1>29. ASSUME RecordResult PROVE QueueType'
  BY <1>29 DEF RecordResult, agentVars, stateVars, queueVars, flowVars, toolVars, QueueType
<1>30. ASSUME FinishBatch PROVE QueueType'
  BY <1>30 DEF FinishBatch, Goto, agentVars, stateVars, queueVars, flowVars, toolVars, QueueType
<1>31. ASSUME TurnEnd PROVE QueueType'
  BY <1>31 DEF TurnEnd, EmitAgentEnd, Goto, agentVars, stateVars, queueVars, flowVars, toolVars, QueueType
<1>32. ASSUME StopAfterTurn PROVE QueueType'
  BY <1>32 DEF StopAfterTurn, EmitAgentEnd, Goto, agentVars, stateVars, queueVars, flowVars, toolVars,
       QueueType
<1>33. ASSUME GoOnAfterTurn PROVE QueueType'
  BY <1>33 DEF GoOnAfterTurn, Goto, agentVars, stateVars, queueVars, flowVars, toolVars, QueueType
<1>34. ASSUME SteeringPoll PROVE QueueType'
  <2>1. /\ Drained(steeringQueue, SteeringMode) \in Seq(Msg)
        /\ Remaining(steeringQueue, SteeringMode) \in Seq(SteerMsg)
    BY <1>0, DrainTypes
  <2>2. /\ Drained(followUpQueue, FollowUpMode) \in Seq(Msg)
        /\ Remaining(followUpQueue, FollowUpMode) \in Seq(FollowUpMsg)
    BY <1>0, DrainTypes
  <2>3. /\ UNCHANGED <<fresh, lost>>
        /\ \/ pending' = <<>> \/ pending' = pending
           \/ pending' = Drained(steeringQueue, SteeringMode)
           \/ pending' = Drained(followUpQueue, FollowUpMode)
        /\ steeringQueue' = steeringQueue \/ steeringQueue' = Remaining(steeringQueue, SteeringMode)
        /\ followUpQueue' = followUpQueue \/ followUpQueue' = Remaining(followUpQueue, FollowUpMode)
    BY <1>34 DEF SteeringPoll, PollSteering, Goto, agentVars, stateVars, queueVars, flowVars,
         toolVars, QueueType
  <2>4. <<>> \in Seq(Msg)
    OBVIOUS
  <2> QED
    BY <1>0, <2>1, <2>2, <2>3, <2>4 DEF QueueType
<1>35. ASSUME AfterSteeringPoll PROVE QueueType'
  <2>1. ToSet(pending) \subseteq Msg
    BY DEF ToSet, QueueType
  <2>2. /\ UNCHANGED <<steeringQueue, followUpQueue, fresh>>
        /\ \/ pending' = <<>> /\ lost' = lost \cup ToSet(pending)
           \/ pending' = pending /\ lost' = lost
    BY <1>35 DEF AfterSteeringPoll, DropPending, EmitAgentEnd, Goto, NoMessages, agentVars,
         stateVars, queueVars, flowVars, toolVars, QueueType
  <2>3. <<>> \in Seq(Msg)
    OBVIOUS
  <2> QED
    BY <2>1, <2>2, <2>3 DEF QueueType
<1>36. ASSUME FollowUpPoll PROVE QueueType'
  <2>1. /\ Drained(steeringQueue, SteeringMode) \in Seq(Msg)
        /\ Remaining(steeringQueue, SteeringMode) \in Seq(SteerMsg)
    BY <1>0, DrainTypes
  <2>2. /\ Drained(followUpQueue, FollowUpMode) \in Seq(Msg)
        /\ Remaining(followUpQueue, FollowUpMode) \in Seq(FollowUpMsg)
    BY <1>0, DrainTypes
  <2>3. /\ UNCHANGED <<fresh, lost>>
        /\ \/ pending' = <<>> \/ pending' = pending
           \/ pending' = Drained(steeringQueue, SteeringMode)
           \/ pending' = Drained(followUpQueue, FollowUpMode)
        /\ steeringQueue' = steeringQueue \/ steeringQueue' = Remaining(steeringQueue, SteeringMode)
        /\ followUpQueue' = followUpQueue \/ followUpQueue' = Remaining(followUpQueue, FollowUpMode)
    BY <1>36 DEF FollowUpPoll, Goto, agentVars, stateVars, queueVars, flowVars, toolVars, QueueType
  <2>4. <<>> \in Seq(Msg)
    OBVIOUS
  <2> QED
    BY <1>0, <2>1, <2>2, <2>3, <2>4 DEF QueueType
<1>37. ASSUME AfterFollowUpPoll PROVE QueueType'
  <2>1. ToSet(pending) \subseteq Msg
    BY DEF ToSet, QueueType
  <2>2. /\ UNCHANGED <<steeringQueue, followUpQueue, fresh>>
        /\ \/ pending' = <<>> /\ lost' = lost \cup ToSet(pending)
           \/ pending' = pending /\ lost' = lost
    BY <1>37 DEF AfterFollowUpPoll, DropPending, EmitAgentEnd, Goto, NoMessages, agentVars,
         stateVars, queueVars, flowVars, toolVars, QueueType
  <2>3. <<>> \in Seq(Msg)
    OBVIOUS
  <2> QED
    BY <2>1, <2>2, <2>3 DEF QueueType
<1>38. ASSUME NoContinuation PROVE QueueType'
  BY <1>38 DEF NoContinuation, EmitAgentEnd, Goto, agentVars, stateVars, queueVars, flowVars,
       toolVars, QueueType
<1>39. ASSUME HandleRunFailure PROVE QueueType'
  BY <1>39 DEF HandleRunFailure, Goto, agentVars, stateVars, queueVars, flowVars, toolVars, QueueType
<1>40. ASSUME FinishRun PROVE QueueType'
  BY <1>40 DEF FinishRun, NoLocals, Goto, agentVars, stateVars, queueVars, flowVars, toolVars, QueueType
<1>41. ASSUME UNCHANGED vars PROVE QueueType'
  BY <1>41 DEF vars, agentVars, stateVars, queueVars, flowVars, toolVars, QueueType
<1> QED
  BY <1>1, <1>2, <1>3, <1>4, <1>5, <1>6, <1>7, <1>8, <1>9, <1>10, <1>11, <1>12, <1>13, <1>14, <1>15,
       <1>16, <1>17, <1>18, <1>19, <1>20, <1>21, <1>22, <1>23, <1>24, <1>25, <1>26, <1>27, <1>28,
       <1>29, <1>30, <1>31, <1>32, <1>33, <1>34, <1>35, <1>36, <1>37, <1>38, <1>39, <1>40, <1>41 DEF
       Next, External, Internal

(* What any step records is an entry: the transcript and the loop's copy   *)
(* stay sequences of entries.                                              *)
LEMMA TranscriptStep ==
    ASSUME QueueType, ToolType, TranscriptType, HoldInv, BatchInv, [Next]_vars
    PROVE  TranscriptType'
<1> USE LoopAssumption
<1>1. ASSUME NEW m \in fresh, Steer(m) PROVE TranscriptType'
  BY <1>1 DEF Steer, agentVars, stateVars, queueVars, flowVars, toolVars, TranscriptType
<1>2. ASSUME NEW m \in fresh, FollowUp(m) PROVE TranscriptType'
  BY <1>2 DEF FollowUp, agentVars, stateVars, queueVars, flowVars, toolVars, TranscriptType
<1>3. ASSUME NEW m \in fresh, Prompt(m) PROVE TranscriptType'
  BY <1>3 DEF Prompt, BeginRun, Goto, agentVars, stateVars, queueVars, flowVars, toolVars, TranscriptType
<1>4. ASSUME NEW m \in fresh, TakeContinuation(m) PROVE TranscriptType'
  BY <1>4 DEF TakeContinuation, Goto, agentVars, stateVars, queueVars, flowVars, toolVars, TranscriptType
<1>5. ASSUME NEW m \in Msg, RemoveQueued(m) PROVE TranscriptType'
  BY <1>5 DEF RemoveQueued, agentVars, stateVars, queueVars, flowVars, toolVars, TranscriptType
<1>6. ASSUME Continue PROVE TranscriptType'
  BY <1>6 DEF Continue, BeginRun, Goto, agentVars, stateVars, queueVars, flowVars, toolVars, TranscriptType
<1>7. ASSUME Abort PROVE TranscriptType'
  BY <1>7 DEF Abort, agentVars, stateVars, queueVars, flowVars, toolVars, TranscriptType
<1>8. ASSUME RouteReflex PROVE TranscriptType'
  <2>1. Entry("assistant", turn + 1, 1, "reflex") \in EntrySet
    BY EntryTypes DEF ToolType, Stops
  <2> QED
    BY <1>8, <2>1 DEF RouteReflex, Record, NewCalls, Goto, agentVars, stateVars, queueVars,
         flowVars, toolVars, TranscriptType
<1>9. ASSUME StreamStart PROVE TranscriptType'
  <2>1. Entry("assistant", turn + 1, 0, "partial") \in EntrySet
    BY EntryTypes DEF ToolType, Stops
  <2> QED
    BY <1>9, <2>1 DEF StreamStart, agentVars, stateVars, queueVars, flowVars, toolVars, TranscriptType
<1>10. ASSUME StreamError PROVE TranscriptType'
  <2> DEFINE x == Entry("assistant", turn + 1, 0, "error")
  <2>1. x \in EntrySet
    BY EntryTypes DEF ToolType, Stops
  <2>2. context' = IF streaming THEN ReplaceLast(context, x) ELSE Append(context, x)
    BY <1>10 DEF StreamError, FinishStream
  <2>3. messages' = Append(messages, x)
    BY <1>10 DEF StreamError, FinishStream
  <2>4. streaming => ReplaceLast(context, x) \in Seq(EntrySet)
    BY <2>1, FinalReplacesPartial DEF HoldInv, TranscriptType
  <2> HIDE DEF x
  <2> QED
    BY <2>1, <2>2, <2>3, <2>4 DEF TranscriptType
<1>11. ASSUME NEW n \in 0..MaxCalls, StreamDone(n) PROVE TranscriptType'
  <2> DEFINE x == Entry("assistant", turn + 1, n, "stop")
  <2>1. x \in EntrySet
    BY EntryTypes DEF ToolType, Stops
  <2>2. context' = IF streaming THEN ReplaceLast(context, x) ELSE Append(context, x)
    BY <1>11 DEF StreamDone, FinishStream
  <2>3. messages' = Append(messages, x)
    BY <1>11 DEF StreamDone, FinishStream
  <2>4. streaming => ReplaceLast(context, x) \in Seq(EntrySet)
    BY <2>1, FinalReplacesPartial DEF HoldInv, TranscriptType
  <2> HIDE DEF x
  <2> QED
    BY <2>1, <2>2, <2>3, <2>4 DEF TranscriptType
<1>12. ASSUME NEW i \in 1..MaxCalls, PrepareCall(i) PROVE TranscriptType'
  BY <1>12 DEF PrepareCall, SetCall, agentVars, stateVars, queueVars, flowVars, toolVars, TranscriptType
<1>13. ASSUME NEW i \in 1..MaxCalls, ToolReturns(i) PROVE TranscriptType'
  <2>1. Result(turn, i) \in EntrySet
    BY EntryTypes DEF ToolType
  <2> QED
    BY <1>13, <2>1 DEF ToolReturns, EndCall, SetCall, CallId, agentVars, stateVars, queueVars,
         flowVars, toolVars, TranscriptType
<1>14. ASSUME NEW i \in 1..MaxCalls, ToolEndThrows(i) PROVE TranscriptType'
  BY <1>14 DEF ToolEndThrows, Goto, CallId, agentVars, stateVars, queueVars, flowVars, toolVars,
       TranscriptType
<1>15. ASSUME NEW z \in zombies, ZombieEnds(z) PROVE TranscriptType'
  BY <1>15 DEF ZombieEnds, agentVars, stateVars, queueVars, flowVars, toolVars, TranscriptType
<1>16. ASSUME RunThrows PROVE TranscriptType'
  BY <1>16 DEF RunThrows, DropPending, Goto, agentVars, stateVars, queueVars, flowVars, toolVars,
       TranscriptType
<1>17. ASSUME EmitPrompt PROVE TranscriptType'
  <2>1. pending # <<>> => User(Head(pending)) \in EntrySet
    BY EntryTypes DEF QueueType
  <2>2. \/ messages' = messages /\ context' = context
        \/ /\ pending # <<>>
           /\ messages' = Append(messages, User(Head(pending)))
           /\ context' = Append(context, User(Head(pending)))
    BY <1>17 DEF EmitPrompt, Record, Goto, agentVars, stateVars, queueVars, flowVars, toolVars,
         TranscriptType, HoldInv
  <2>3. pending # <<>> => /\ Append(messages, User(Head(pending))) \in Seq(EntrySet)
                           /\ Append(context, User(Head(pending))) \in Seq(EntrySet)
    BY <2>1 DEF TranscriptType
  <2> QED
    BY <2>2, <2>3 DEF TranscriptType
<1>18. ASSUME FirstPoll PROVE TranscriptType'
  BY <1>18 DEF FirstPoll, PollSteering, Goto, agentVars, stateVars, queueVars, flowVars, toolVars,
       TranscriptType
<1>19. ASSUME EnterLoop PROVE TranscriptType'
  BY <1>19 DEF EnterLoop, DropPending, Goto, agentVars, stateVars, queueVars, flowVars, toolVars,
       TranscriptType
<1>20. ASSUME LeaveInner PROVE TranscriptType'
  BY <1>20 DEF LeaveInner, EmitAgentEnd, Goto, NoMessages, agentVars, stateVars, queueVars, flowVars,
       toolVars, TranscriptType
<1>21. ASSUME EnterTurn PROVE TranscriptType'
  BY <1>21 DEF EnterTurn, DropPending, Goto, NoMessages, agentVars, stateVars, queueVars, flowVars,
       toolVars, TranscriptType
<1>22. ASSUME RouteNone PROVE TranscriptType'
  BY <1>22 DEF RouteNone, Goto, agentVars, stateVars, queueVars, flowVars, toolVars, TranscriptType
<1>23. ASSUME Inject PROVE TranscriptType'
  <2>1. pending # <<>> => User(Head(pending)) \in EntrySet
    BY EntryTypes DEF QueueType
  <2>2. \/ messages' = messages /\ context' = context
        \/ /\ pending # <<>>
           /\ messages' = Append(messages, User(Head(pending)))
           /\ context' = Append(context, User(Head(pending)))
    BY <1>23 DEF Inject, Record, Goto, NoMessages, agentVars, stateVars, queueVars, flowVars,
         toolVars, TranscriptType, HoldInv
  <2>3. pending # <<>> => /\ Append(messages, User(Head(pending))) \in Seq(EntrySet)
                           /\ Append(context, User(Head(pending))) \in Seq(EntrySet)
    BY <2>1 DEF TranscriptType
  <2> QED
    BY <2>2, <2>3 DEF TranscriptType
<1>24. ASSUME StreamAborted PROVE TranscriptType'
  <2> DEFINE x == Entry("assistant", turn + 1, 0, "aborted")
  <2>1. x \in EntrySet
    BY EntryTypes DEF ToolType, Stops
  <2>2. context' = IF streaming THEN ReplaceLast(context, x) ELSE Append(context, x)
    BY <1>24 DEF StreamAborted, FinishStream
  <2>3. messages' = Append(messages, x)
    BY <1>24 DEF StreamAborted, FinishStream
  <2>4. streaming => ReplaceLast(context, x) \in Seq(EntrySet)
    BY <2>1, FinalReplacesPartial DEF HoldInv, TranscriptType
  <2> HIDE DEF x
  <2> QED
    BY <2>1, <2>2, <2>3, <2>4 DEF TranscriptType
<1>25. ASSUME NEW i \in 1..MaxCalls, StartCall(i) PROVE TranscriptType'
  BY <1>25 DEF StartCall, SetCall, CallId, agentVars, stateVars, queueVars, flowVars, toolVars, TranscriptType
<1>26. ASSUME NEW i \in 1..MaxCalls, ImmediateCall(i) PROVE TranscriptType'
  <2>1. Result(turn, i) \in EntrySet
    BY EntryTypes DEF ToolType
  <2> QED
    BY <1>26, <2>1 DEF ImmediateCall, EndCall, SetCall, CallId, agentVars, stateVars, queueVars,
         flowVars, toolVars, TranscriptType
<1>27. ASSUME NEW i \in 1..MaxCalls, ToolAborted(i) PROVE TranscriptType'
  <2>1. Result(turn, i) \in EntrySet
    BY EntryTypes DEF ToolType
  <2> QED
    BY <1>27, <2>1 DEF ToolAborted, EndCall, SetCall, CallId, agentVars, stateVars, queueVars,
         flowVars, toolVars, TranscriptType
<1>28. ASSUME LaunchCalls PROVE TranscriptType'
  BY <1>28 DEF LaunchCalls, agentVars, stateVars, queueVars, flowVars, toolVars, TranscriptType
<1>29. ASSUME RecordResult PROVE TranscriptType'
  <2>1. RecordedResults \in Nat
    <3>1. messages # <<>> => Last(messages).n \in Nat
      <4>1. messages # <<>> => Last(messages) \in EntrySet
        BY DEF Last, TranscriptType
      <4> QED
        BY <4>1 DEF EntrySet
    <3> QED
      BY <3>1 DEF RecordedResults
  <2>2. Result(turn, RecordedResults + 1) \in EntrySet
    BY <2>1, EntryTypes DEF ToolType
  <2> QED
    BY <1>29, <2>2 DEF RecordResult, agentVars, stateVars, queueVars, flowVars, toolVars, TranscriptType
<1>30. ASSUME FinishBatch PROVE TranscriptType'
  <2>1. Cardinality(EndedCalls) \in Nat
    <3>1. NumCalls \in Nat
      BY <1>30 DEF FinishBatch, BatchInv
    <3>2. IsFiniteSet(AllCalls)
      BY <3>1, FS_Interval DEF AllCalls
    <3>3. EndedCalls \in SUBSET AllCalls
      BY DEF EndedCalls
    <3> QED
      BY <3>2, <3>3, FS_Subset, FS_CardinalityType
  <2>2. Results(turn, Cardinality(EndedCalls)) \in Seq(EntrySet)
    BY <2>1, ResultsSeq DEF ToolType
  <2> QED
    BY <1>30, <2>2 DEF FinishBatch, Goto, agentVars, stateVars, queueVars, flowVars, toolVars, TranscriptType
<1>31. ASSUME TurnEnd PROVE TranscriptType'
  BY <1>31 DEF TurnEnd, EmitAgentEnd, Goto, agentVars, stateVars, queueVars, flowVars, toolVars,
       TranscriptType
<1>32. ASSUME StopAfterTurn PROVE TranscriptType'
  BY <1>32 DEF StopAfterTurn, EmitAgentEnd, Goto, agentVars, stateVars, queueVars, flowVars, toolVars,
       TranscriptType
<1>33. ASSUME GoOnAfterTurn PROVE TranscriptType'
  BY <1>33 DEF GoOnAfterTurn, Goto, agentVars, stateVars, queueVars, flowVars, toolVars, TranscriptType
<1>34. ASSUME SteeringPoll PROVE TranscriptType'
  BY <1>34 DEF SteeringPoll, PollSteering, Goto, agentVars, stateVars, queueVars, flowVars, toolVars,
       TranscriptType
<1>35. ASSUME AfterSteeringPoll PROVE TranscriptType'
  BY <1>35 DEF AfterSteeringPoll, DropPending, EmitAgentEnd, Goto, NoMessages, agentVars, stateVars,
       queueVars, flowVars, toolVars, TranscriptType
<1>36. ASSUME FollowUpPoll PROVE TranscriptType'
  BY <1>36 DEF FollowUpPoll, Goto, agentVars, stateVars, queueVars, flowVars, toolVars, TranscriptType
<1>37. ASSUME AfterFollowUpPoll PROVE TranscriptType'
  BY <1>37 DEF AfterFollowUpPoll, DropPending, EmitAgentEnd, Goto, NoMessages, agentVars, stateVars,
       queueVars, flowVars, toolVars, TranscriptType
<1>38. ASSUME NoContinuation PROVE TranscriptType'
  BY <1>38 DEF NoContinuation, EmitAgentEnd, Goto, agentVars, stateVars, queueVars, flowVars,
       toolVars, TranscriptType
<1>39. ASSUME HandleRunFailure PROVE TranscriptType'
  <2>1. /\ Entry("assistant", turn + 1, 0, "aborted") \in EntrySet
        /\ Entry("assistant", turn + 1, 0, "error") \in EntrySet
    BY EntryTypes DEF ToolType, Stops
  <2> QED
    BY <1>39, <2>1 DEF HandleRunFailure, Goto, agentVars, stateVars, queueVars, flowVars, toolVars,
         TranscriptType
<1>40. ASSUME FinishRun PROVE TranscriptType'
  BY <1>40 DEF FinishRun, NoLocals, Goto, agentVars, stateVars, queueVars, flowVars, toolVars, TranscriptType
<1>41. ASSUME UNCHANGED vars PROVE TranscriptType'
  BY <1>41 DEF vars, agentVars, stateVars, queueVars, flowVars, toolVars, TranscriptType
<1> QED
  BY <1>1, <1>2, <1>3, <1>4, <1>5, <1>6, <1>7, <1>8, <1>9, <1>10, <1>11, <1>12, <1>13, <1>14, <1>15,
       <1>16, <1>17, <1>18, <1>19, <1>20, <1>21, <1>22, <1>23, <1>24, <1>25, <1>26, <1>27, <1>28,
       <1>29, <1>30, <1>31, <1>32, <1>33, <1>34, <1>35, <1>36, <1>37, <1>38, <1>39, <1>40, <1>41 DEF
       Next, External, Internal

(* Every step keeps the state of the tool batch in its types, the turn     *)
(* counter included.                                                       *)
LEMMA ToolStep ==
    ASSUME ToolType, TranscriptType, BatchInv, [Next]_vars
    PROVE  ToolType'
<1> USE LoopAssumption
<1>1. ASSUME NEW m \in fresh, Steer(m) PROVE ToolType'
  BY <1>1 DEF Steer, agentVars, stateVars, queueVars, flowVars, toolVars, ToolType
<1>2. ASSUME NEW m \in fresh, FollowUp(m) PROVE ToolType'
  BY <1>2 DEF FollowUp, agentVars, stateVars, queueVars, flowVars, toolVars, ToolType
<1>3. ASSUME NEW m \in fresh, Prompt(m) PROVE ToolType'
  BY <1>3 DEF Prompt, BeginRun, Goto, agentVars, stateVars, queueVars, flowVars, toolVars, ToolType,
       TranscriptType
<1>4. ASSUME NEW m \in fresh, TakeContinuation(m) PROVE ToolType'
  BY <1>4 DEF TakeContinuation, Goto, agentVars, stateVars, queueVars, flowVars, toolVars, ToolType
<1>5. ASSUME NEW m \in Msg, RemoveQueued(m) PROVE ToolType'
  BY <1>5 DEF RemoveQueued, agentVars, stateVars, queueVars, flowVars, toolVars, ToolType
<1>6. ASSUME Continue PROVE ToolType'
  <2>1. /\ UNCHANGED <<pendingToolCalls, toolVars, turn, failures>>
        /\ consecutiveReflexes' = 0 /\ base' = Len(messages)
    BY <1>6 DEF Continue, BeginRun, Goto, agentVars, stateVars, queueVars, flowVars, toolVars, ToolType
  <2> QED
    BY <2>1 DEF toolVars, ToolType, TranscriptType
<1>7. ASSUME Abort PROVE ToolType'
  BY <1>7 DEF Abort, agentVars, stateVars, queueVars, flowVars, toolVars, ToolType
<1>8. ASSUME RouteReflex PROVE ToolType'
  BY <1>8 DEF RouteReflex, Record, NewCalls, Goto, agentVars, stateVars, queueVars, flowVars,
       toolVars, ToolType
<1>9. ASSUME StreamStart PROVE ToolType'
  BY <1>9 DEF StreamStart, agentVars, stateVars, queueVars, flowVars, toolVars, ToolType
<1>10. ASSUME StreamError PROVE ToolType'
  BY <1>10 DEF StreamError, FinishStream, NewCalls, EmitAgentEnd, Goto, agentVars, stateVars,
       queueVars, flowVars, toolVars, ToolType
<1>11. ASSUME NEW n \in 0..MaxCalls, StreamDone(n) PROVE ToolType'
  BY <1>11 DEF StreamDone, FinishStream, NewCalls, Goto, agentVars, stateVars, queueVars, flowVars,
       toolVars, ToolType
<1>12. ASSUME NEW i \in 1..MaxCalls, PrepareCall(i) PROVE ToolType'
  BY <1>12 DEF PrepareCall, SetCall, agentVars, stateVars, queueVars, flowVars, toolVars, ToolType
<1>13. ASSUME NEW i \in 1..MaxCalls, ToolReturns(i) PROVE ToolType'
  BY <1>13 DEF ToolReturns, EndCall, SetCall, CallId, agentVars, stateVars, queueVars, flowVars,
       toolVars, ToolType
<1>14. ASSUME NEW i \in 1..MaxCalls, ToolEndThrows(i) PROVE ToolType'
  <2>1. zombies' \subseteq Nat \X Nat
    <3>1. \A j \in Executing : j \in Nat
      BY <1>14 DEF ToolEndThrows, BatchInv, Executing, AllCalls
    <3> QED
      BY <1>14, <3>1 DEF ToolEndThrows, CallId, ToolType
  <2> QED
    BY <1>14, <2>1 DEF ToolEndThrows, Goto, CallId, agentVars, stateVars, queueVars, flowVars,
         toolVars, ToolType
<1>15. ASSUME NEW z \in zombies, ZombieEnds(z) PROVE ToolType'
  BY <1>15 DEF ZombieEnds, agentVars, stateVars, queueVars, flowVars, toolVars, ToolType
<1>16. ASSUME RunThrows PROVE ToolType'
  BY <1>16 DEF RunThrows, DropPending, Goto, agentVars, stateVars, queueVars, flowVars, toolVars, ToolType
<1>17. ASSUME EmitPrompt PROVE ToolType'
  BY <1>17 DEF EmitPrompt, Record, Goto, agentVars, stateVars, queueVars, flowVars, toolVars, ToolType
<1>18. ASSUME FirstPoll PROVE ToolType'
  BY <1>18 DEF FirstPoll, PollSteering, Goto, agentVars, stateVars, queueVars, flowVars, toolVars, ToolType
<1>19. ASSUME EnterLoop PROVE ToolType'
  BY <1>19 DEF EnterLoop, DropPending, Goto, agentVars, stateVars, queueVars, flowVars, toolVars, ToolType
<1>20. ASSUME LeaveInner PROVE ToolType'
  BY <1>20 DEF LeaveInner, EmitAgentEnd, Goto, NoMessages, agentVars, stateVars, queueVars, flowVars,
       toolVars, ToolType
<1>21. ASSUME EnterTurn PROVE ToolType'
  BY <1>21 DEF EnterTurn, DropPending, Goto, NoMessages, agentVars, stateVars, queueVars, flowVars,
       toolVars, ToolType
<1>22. ASSUME RouteNone PROVE ToolType'
  BY <1>22 DEF RouteNone, Goto, agentVars, stateVars, queueVars, flowVars, toolVars, ToolType
<1>23. ASSUME Inject PROVE ToolType'
  BY <1>23 DEF Inject, Record, Goto, NoMessages, agentVars, stateVars, queueVars, flowVars, toolVars, ToolType
<1>24. ASSUME StreamAborted PROVE ToolType'
  BY <1>24 DEF StreamAborted, FinishStream, NewCalls, EmitAgentEnd, Goto, agentVars, stateVars,
       queueVars, flowVars, toolVars, ToolType
<1>25. ASSUME NEW i \in 1..MaxCalls, StartCall(i) PROVE ToolType'
  BY <1>25 DEF StartCall, SetCall, CallId, agentVars, stateVars, queueVars, flowVars, toolVars, ToolType
<1>26. ASSUME NEW i \in 1..MaxCalls, ImmediateCall(i) PROVE ToolType'
  BY <1>26 DEF ImmediateCall, EndCall, SetCall, CallId, agentVars, stateVars, queueVars, flowVars,
       toolVars, ToolType
<1>27. ASSUME NEW i \in 1..MaxCalls, ToolAborted(i) PROVE ToolType'
  BY <1>27 DEF ToolAborted, EndCall, SetCall, CallId, agentVars, stateVars, queueVars, flowVars,
       toolVars, ToolType
<1>28. ASSUME LaunchCalls PROVE ToolType'
  BY <1>28 DEF LaunchCalls, agentVars, stateVars, queueVars, flowVars, toolVars, ToolType
<1>29. ASSUME RecordResult PROVE ToolType'
  BY <1>29 DEF RecordResult, agentVars, stateVars, queueVars, flowVars, toolVars, ToolType
<1>30. ASSUME FinishBatch PROVE ToolType'
  BY <1>30 DEF FinishBatch, Goto, agentVars, stateVars, queueVars, flowVars, toolVars, ToolType
<1>31. ASSUME TurnEnd PROVE ToolType'
  BY <1>31 DEF TurnEnd, EmitAgentEnd, Goto, agentVars, stateVars, queueVars, flowVars, toolVars, ToolType
<1>32. ASSUME StopAfterTurn PROVE ToolType'
  BY <1>32 DEF StopAfterTurn, EmitAgentEnd, Goto, agentVars, stateVars, queueVars, flowVars, toolVars,
       ToolType
<1>33. ASSUME GoOnAfterTurn PROVE ToolType'
  BY <1>33 DEF GoOnAfterTurn, Goto, agentVars, stateVars, queueVars, flowVars, toolVars, ToolType
<1>34. ASSUME SteeringPoll PROVE ToolType'
  BY <1>34 DEF SteeringPoll, PollSteering, Goto, agentVars, stateVars, queueVars, flowVars, toolVars, ToolType
<1>35. ASSUME AfterSteeringPoll PROVE ToolType'
  BY <1>35 DEF AfterSteeringPoll, DropPending, EmitAgentEnd, Goto, NoMessages, agentVars, stateVars,
       queueVars, flowVars, toolVars, ToolType
<1>36. ASSUME FollowUpPoll PROVE ToolType'
  BY <1>36 DEF FollowUpPoll, Goto, agentVars, stateVars, queueVars, flowVars, toolVars, ToolType
<1>37. ASSUME AfterFollowUpPoll PROVE ToolType'
  BY <1>37 DEF AfterFollowUpPoll, DropPending, EmitAgentEnd, Goto, NoMessages, agentVars, stateVars,
       queueVars, flowVars, toolVars, ToolType
<1>38. ASSUME NoContinuation PROVE ToolType'
  BY <1>38 DEF NoContinuation, EmitAgentEnd, Goto, agentVars, stateVars, queueVars, flowVars,
       toolVars, ToolType
<1>39. ASSUME HandleRunFailure PROVE ToolType'
  BY <1>39 DEF HandleRunFailure, Goto, agentVars, stateVars, queueVars, flowVars, toolVars, ToolType
<1>40. ASSUME FinishRun PROVE ToolType'
  BY <1>40 DEF FinishRun, NoLocals, Goto, agentVars, stateVars, queueVars, flowVars, toolVars, ToolType
<1>41. ASSUME UNCHANGED vars PROVE ToolType'
  BY <1>41 DEF vars, agentVars, stateVars, queueVars, flowVars, toolVars, ToolType
<1> QED
  BY <1>1, <1>2, <1>3, <1>4, <1>5, <1>6, <1>7, <1>8, <1>9, <1>10, <1>11, <1>12, <1>13, <1>14, <1>15,
       <1>16, <1>17, <1>18, <1>19, <1>20, <1>21, <1>22, <1>23, <1>24, <1>25, <1>26, <1>27, <1>28,
       <1>29, <1>30, <1>31, <1>32, <1>33, <1>34, <1>35, <1>36, <1>37, <1>38, <1>39, <1>40, <1>41 DEF
       Next, External, Internal

-----------------------------------------------------------------------------
(* The loop's copy and the transcript.                                     *)

(* The response is final: both copies end with it and agree.               *)
LEMMA StreamEnds ==
    ASSUME TypeOK, HoldInv, TranscriptAgrees,
           NEW n \in 0..MaxCalls, NEW stop \in Stops, FinishStream(n, stop)
    PROVE  /\ context' = messages'
           /\ messages' = Append(messages, Entry("assistant", turn + 1, n, stop))
           /\ Entry("assistant", turn + 1, n, stop) \in EntrySet
<1> DEFINE x == Entry("assistant", turn + 1, n, stop)
<1>1. x \in EntrySet
  BY EntryTypes, LoopAssumption DEF TypeOK
<1>2. /\ context' = IF streaming THEN ReplaceLast(context, x) ELSE Append(context, x)
      /\ messages' = Append(messages, x) /\ pc = "stream"
  BY DEF FinishStream
<1> HIDE DEF x
<1>3. CASE streaming
  <2>1. messages = SubSeq(context, 1, Len(context) - 1)
    BY <1>2, <1>3 DEF TranscriptAgrees
  <2>2. ReplaceLast(context, x) = Append(SubSeq(context, 1, Len(context) - 1), x)
    BY <1>1, <1>3, FinalReplacesPartial DEF HoldInv, TypeOK
  <2> QED
    BY <1>1, <1>2, <1>3, <2>1, <2>2 DEF x
<1>4. CASE ~streaming
  <2>1. messages = context
    BY <1>2, <1>4 DEF TranscriptAgrees
  <2> QED
    BY <1>1, <1>2, <1>4, <2>1 DEF x
<1> QED
  BY <1>3, <1>4

(* How many results of the batch are in the transcript.                    *)
LEMMA RecordedCount ==
    ASSUME TypeOK, BatchInv, pc = "tools", NEW k \in 0..NumCalls, Recorded(k)
    PROVE  RecordedResults = k
<1>1. /\ context \in Seq(EntrySet) /\ context # <<>> /\ Last(context).role = "assistant"
      /\ turn \in Nat /\ k \in Nat /\ messages = context \o Results(turn, k)
  BY DEF BatchInv, Recorded, TypeOK
<1>2. CASE k = 0
  <2>1. messages = context
    BY <1>1, <1>2, OneMoreResult
  <2> QED
    BY <1>1, <1>2, <2>1 DEF RecordedResults
<1>3. CASE k # 0
  <2>1. k \in 1..k /\ Len(context) \in Nat
    BY <1>1, <1>3
  <2>2. Len(messages) = Len(context) + k /\ messages[Len(context) + k] = Result(turn, k) /\ messages # <<>>
    <3>1. Len(messages) = Len(context) + k /\ messages[Len(context) + k] = Result(turn, k)
      BY <1>1, <2>1, ResultsBehind
    <3> QED
      BY <1>1, <2>1, <3>1
  <2>3. Last(messages) = Result(turn, k)
    BY <2>2 DEF Last
  <2> QED
    BY <2>2, <2>3 DEF RecordedResults, Result, Entry
<1> QED
  BY <1>2, <1>3

(* The batch is over: the results the loop adds are those in the           *)
(* transcript.                                                             *)
LEMMA BatchEnds ==
    ASSUME TypeOK, BatchInv, FinishBatch
    PROVE  /\ context' = messages' /\ messages' = messages
           /\ ~aborted => messages = context \o Results(turn, NumCalls)
<1>1. /\ pc = "tools" /\ BatchOver /\ (~sequential => RecordedResults = NumCalls)
      /\ context' = context \o Results(turn, Cardinality(EndedCalls)) /\ messages' = messages
  BY DEF FinishBatch, stateVars
<1>2. PICK k \in 0..NumCalls : Recorded(k)
  BY <1>1 DEF BatchInv
<1>3. NumCalls \in Nat
  BY <1>1, LoopAssumption DEF BatchInv
<1>4. EndedCalls = 1..k
  <2>1. CASE sequential
    BY <1>2, <2>1 DEF Recorded
  <2>2. CASE ~sequential
    <3>1. k = NumCalls
      BY <1>1, <1>2, <2>2, RecordedCount
    <3>2. EndedCalls = AllCalls
      BY <1>1, <2>2 DEF BatchOver
    <3> QED
      BY <3>1, <3>2 DEF AllCalls
  <2> QED
    BY <2>1, <2>2
<1>5. Cardinality(EndedCalls) = k
  BY <1>3, <1>4, FS_Interval
<1>6. ~aborted => k = NumCalls
  <2>1. ~aborted => EndedCalls = 1..NumCalls
    BY <1>1 DEF BatchOver, AllCalls
  <2>2. NumCalls \in 1..NumCalls
    BY <1>1, <1>3 DEF BatchInv
  <2> QED
    BY <1>3, <1>4, <2>1, <2>2
<1> QED
  BY <1>1, <1>2, <1>5, <1>6 DEF Recorded

(* Each step of runLoop that records in the transcript records the same    *)
(* in the loop's copy by the time the run is between turns or about to     *)
(* call the provider again.                                                *)
LEMMA AgreeStep ==
    ASSUME TypeOK, HoldInv, TranscriptAgrees, BatchInv, [Next]_vars
    PROVE  TranscriptAgrees'
<1>1. ASSUME NEW m \in fresh, Steer(m) PROVE TranscriptAgrees'
  BY <1>1 DEF Steer, agentVars, stateVars, queueVars, flowVars, toolVars, TranscriptAgrees, HoldInv
<1>2. ASSUME NEW m \in fresh, FollowUp(m) PROVE TranscriptAgrees'
  BY <1>2 DEF FollowUp, agentVars, stateVars, queueVars, flowVars, toolVars, TranscriptAgrees, HoldInv
<1>3. ASSUME NEW m \in fresh, Prompt(m) PROVE TranscriptAgrees'
  BY <1>3 DEF Prompt, BeginRun, Goto, agentVars, stateVars, queueVars, flowVars, toolVars,
       TranscriptAgrees, HoldInv
<1>4. ASSUME NEW m \in fresh, TakeContinuation(m) PROVE TranscriptAgrees'
  BY <1>4 DEF TakeContinuation, Goto, agentVars, stateVars, queueVars, flowVars, toolVars,
       TranscriptAgrees, HoldInv
<1>5. ASSUME NEW m \in Msg, RemoveQueued(m) PROVE TranscriptAgrees'
  BY <1>5 DEF RemoveQueued, agentVars, stateVars, queueVars, flowVars, toolVars, TranscriptAgrees, HoldInv
<1>6. ASSUME Continue PROVE TranscriptAgrees'
  BY <1>6 DEF Continue, BeginRun, Goto, agentVars, stateVars, queueVars, flowVars, toolVars,
       TranscriptAgrees, HoldInv
<1>7. ASSUME Abort PROVE TranscriptAgrees'
  BY <1>7 DEF Abort, agentVars, stateVars, queueVars, flowVars, toolVars, TranscriptAgrees, HoldInv
<1>8. ASSUME RouteReflex PROVE TranscriptAgrees'
  BY <1>8 DEF RouteReflex, Record, NewCalls, Goto, agentVars, stateVars, queueVars, flowVars,
       toolVars, TranscriptAgrees, HoldInv
<1>9. ASSUME StreamStart PROVE TranscriptAgrees'
  <2> DEFINE x == Entry("assistant", turn + 1, 0, "partial")
  <2>1. x \in EntrySet
    BY EntryTypes DEF TypeOK, Stops
  <2>2. context' = Append(context, x) /\ messages' = messages /\ messages = context /\ streaming' /\ pc' = "stream"
    BY <1>9 DEF StreamStart, agentVars, stateVars, queueVars, flowVars, toolVars, TranscriptAgrees, HoldInv
  <2> HIDE DEF x
  <2>3. SubSeq(context', 1, Len(context') - 1) = context
    <3>1. context \in Seq(EntrySet)
      BY DEF TypeOK
    <3> QED
      BY <2>1, <2>2, <3>1
  <2> QED
    BY <2>2, <2>3 DEF TranscriptAgrees
<1>10. ASSUME StreamError PROVE TranscriptAgrees'
  <2>1. FinishStream(0, "error") /\ 0 \in 0..MaxCalls /\ "error" \in Stops
    BY <1>10, LoopAssumption DEF StreamError, Stops
  <2>2. context' = messages' /\ pc' # "stream"
    BY <1>10, <2>1, StreamEnds DEF StreamError, Goto, EmitAgentEnd
  <2> QED
    BY <2>2 DEF TranscriptAgrees
<1>11. ASSUME NEW n \in 0..MaxCalls, StreamDone(n) PROVE TranscriptAgrees'
  <2>1. FinishStream(n, "stop") /\ n \in 0..MaxCalls /\ "stop" \in Stops
    BY <1>11, LoopAssumption DEF StreamDone, Stops
  <2>2. context' = messages' /\ pc' # "stream"
    BY <1>11, <2>1, StreamEnds DEF StreamDone, Goto, EmitAgentEnd
  <2> QED
    BY <2>2 DEF TranscriptAgrees
<1>12. ASSUME NEW i \in 1..MaxCalls, PrepareCall(i) PROVE TranscriptAgrees'
  BY <1>12 DEF PrepareCall, SetCall, agentVars, stateVars, queueVars, flowVars, toolVars,
       TranscriptAgrees, HoldInv
<1>13. ASSUME NEW i \in 1..MaxCalls, ToolReturns(i) PROVE TranscriptAgrees'
  BY <1>13 DEF ToolReturns, EndCall, SetCall, CallId, agentVars, stateVars, queueVars, flowVars,
       toolVars, TranscriptAgrees, HoldInv
<1>14. ASSUME NEW i \in 1..MaxCalls, ToolEndThrows(i) PROVE TranscriptAgrees'
  BY <1>14 DEF ToolEndThrows, Goto, CallId, agentVars, stateVars, queueVars, flowVars, toolVars,
       TranscriptAgrees, HoldInv
<1>15. ASSUME NEW z \in zombies, ZombieEnds(z) PROVE TranscriptAgrees'
  BY <1>15 DEF ZombieEnds, agentVars, stateVars, queueVars, flowVars, toolVars, TranscriptAgrees, HoldInv
<1>16. ASSUME RunThrows PROVE TranscriptAgrees'
  BY <1>16 DEF RunThrows, DropPending, Goto, agentVars, stateVars, queueVars, flowVars, toolVars,
       TranscriptAgrees, HoldInv
<1>17. ASSUME EmitPrompt PROVE TranscriptAgrees'
  BY <1>17 DEF EmitPrompt, Record, Goto, agentVars, stateVars, queueVars, flowVars, toolVars,
       TranscriptAgrees, HoldInv
<1>18. ASSUME FirstPoll PROVE TranscriptAgrees'
  BY <1>18 DEF FirstPoll, PollSteering, Goto, agentVars, stateVars, queueVars, flowVars, toolVars,
       TranscriptAgrees, HoldInv
<1>19. ASSUME EnterLoop PROVE TranscriptAgrees'
  BY <1>19 DEF EnterLoop, DropPending, Goto, agentVars, stateVars, queueVars, flowVars, toolVars,
       TranscriptAgrees, HoldInv
<1>20. ASSUME LeaveInner PROVE TranscriptAgrees'
  BY <1>20 DEF LeaveInner, EmitAgentEnd, Goto, NoMessages, agentVars, stateVars, queueVars, flowVars,
       toolVars, TranscriptAgrees, HoldInv
<1>21. ASSUME EnterTurn PROVE TranscriptAgrees'
  BY <1>21 DEF EnterTurn, DropPending, Goto, NoMessages, agentVars, stateVars, queueVars, flowVars,
       toolVars, TranscriptAgrees, HoldInv
<1>22. ASSUME RouteNone PROVE TranscriptAgrees'
  BY <1>22 DEF RouteNone, Goto, agentVars, stateVars, queueVars, flowVars, toolVars, TranscriptAgrees, HoldInv
<1>23. ASSUME Inject PROVE TranscriptAgrees'
  BY <1>23 DEF Inject, Record, Goto, NoMessages, agentVars, stateVars, queueVars, flowVars, toolVars,
       TranscriptAgrees, HoldInv
<1>24. ASSUME StreamAborted PROVE TranscriptAgrees'
  <2>1. FinishStream(0, "aborted") /\ 0 \in 0..MaxCalls /\ "aborted" \in Stops
    BY <1>24, LoopAssumption DEF StreamAborted, Stops
  <2>2. context' = messages' /\ pc' # "stream"
    BY <1>24, <2>1, StreamEnds DEF StreamAborted, Goto, EmitAgentEnd
  <2> QED
    BY <2>2 DEF TranscriptAgrees
<1>25. ASSUME NEW i \in 1..MaxCalls, StartCall(i) PROVE TranscriptAgrees'
  BY <1>25 DEF StartCall, SetCall, CallId, agentVars, stateVars, queueVars, flowVars, toolVars,
       TranscriptAgrees, HoldInv
<1>26. ASSUME NEW i \in 1..MaxCalls, ImmediateCall(i) PROVE TranscriptAgrees'
  BY <1>26 DEF ImmediateCall, EndCall, SetCall, CallId, agentVars, stateVars, queueVars, flowVars,
       toolVars, TranscriptAgrees, HoldInv
<1>27. ASSUME NEW i \in 1..MaxCalls, ToolAborted(i) PROVE TranscriptAgrees'
  BY <1>27 DEF ToolAborted, EndCall, SetCall, CallId, agentVars, stateVars, queueVars, flowVars,
       toolVars, TranscriptAgrees, HoldInv
<1>28. ASSUME LaunchCalls PROVE TranscriptAgrees'
  BY <1>28 DEF LaunchCalls, agentVars, stateVars, queueVars, flowVars, toolVars, TranscriptAgrees, HoldInv
<1>29. ASSUME RecordResult PROVE TranscriptAgrees'
  BY <1>29 DEF RecordResult, agentVars, stateVars, queueVars, flowVars, toolVars, TranscriptAgrees, HoldInv
<1>30. ASSUME FinishBatch PROVE TranscriptAgrees'
  <2>1. context' = messages' /\ pc' # "stream"
    BY <1>30, BatchEnds DEF FinishBatch, Goto
  <2> QED
    BY <2>1 DEF TranscriptAgrees
<1>31. ASSUME TurnEnd PROVE TranscriptAgrees'
  BY <1>31 DEF TurnEnd, EmitAgentEnd, Goto, agentVars, stateVars, queueVars, flowVars, toolVars,
       TranscriptAgrees, HoldInv
<1>32. ASSUME StopAfterTurn PROVE TranscriptAgrees'
  BY <1>32 DEF StopAfterTurn, EmitAgentEnd, Goto, agentVars, stateVars, queueVars, flowVars, toolVars,
       TranscriptAgrees, HoldInv
<1>33. ASSUME GoOnAfterTurn PROVE TranscriptAgrees'
  BY <1>33 DEF GoOnAfterTurn, Goto, agentVars, stateVars, queueVars, flowVars, toolVars,
       TranscriptAgrees, HoldInv
<1>34. ASSUME SteeringPoll PROVE TranscriptAgrees'
  BY <1>34 DEF SteeringPoll, PollSteering, Goto, agentVars, stateVars, queueVars, flowVars, toolVars,
       TranscriptAgrees, HoldInv
<1>35. ASSUME AfterSteeringPoll PROVE TranscriptAgrees'
  BY <1>35 DEF AfterSteeringPoll, DropPending, EmitAgentEnd, Goto, NoMessages, agentVars, stateVars,
       queueVars, flowVars, toolVars, TranscriptAgrees, HoldInv
<1>36. ASSUME FollowUpPoll PROVE TranscriptAgrees'
  BY <1>36 DEF FollowUpPoll, Goto, agentVars, stateVars, queueVars, flowVars, toolVars,
       TranscriptAgrees, HoldInv
<1>37. ASSUME AfterFollowUpPoll PROVE TranscriptAgrees'
  BY <1>37 DEF AfterFollowUpPoll, DropPending, EmitAgentEnd, Goto, NoMessages, agentVars, stateVars,
       queueVars, flowVars, toolVars, TranscriptAgrees, HoldInv
<1>38. ASSUME NoContinuation PROVE TranscriptAgrees'
  BY <1>38 DEF NoContinuation, EmitAgentEnd, Goto, agentVars, stateVars, queueVars, flowVars,
       toolVars, TranscriptAgrees, HoldInv
<1>39. ASSUME HandleRunFailure PROVE TranscriptAgrees'
  BY <1>39 DEF HandleRunFailure, Goto, agentVars, stateVars, queueVars, flowVars, toolVars,
       TranscriptAgrees, HoldInv
<1>40. ASSUME FinishRun PROVE TranscriptAgrees'
  BY <1>40 DEF FinishRun, NoLocals, Goto, agentVars, stateVars, queueVars, flowVars, toolVars,
       TranscriptAgrees, HoldInv
<1>41. ASSUME UNCHANGED vars PROVE TranscriptAgrees'
  BY <1>41 DEF vars, agentVars, stateVars, queueVars, flowVars, toolVars, TranscriptAgrees, HoldInv
<1> QED
  BY <1>1, <1>2, <1>3, <1>4, <1>5, <1>6, <1>7, <1>8, <1>9, <1>10, <1>11, <1>12, <1>13, <1>14, <1>15,
       <1>16, <1>17, <1>18, <1>19, <1>20, <1>21, <1>22, <1>23, <1>24, <1>25, <1>26, <1>27, <1>28,
       <1>29, <1>30, <1>31, <1>32, <1>33, <1>34, <1>35, <1>36, <1>37, <1>38, <1>39, <1>40, <1>41 DEF
       Next, External, Internal

-----------------------------------------------------------------------------
(* The tool batch.                                                         *)

(* A new assistant message with calls: nothing is recorded for it yet.     *)
LEMMA BatchBegins ==
    ASSUME TypeOK, IdsBounded, NEW n \in 1..MaxCalls, NEW stop \in Stops, NewCalls(n),
           messages' = Append(messages, Entry("assistant", turn + 1, n, stop)), context' = messages'
    PROVE  BatchInv'
<1> DEFINE x == Entry("assistant", turn + 1, n, stop)
<1>0. /\ turn \in Nat /\ MaxCalls \in Nat /\ messages \in Seq(EntrySet)
      /\ x.role = "assistant" /\ x.id = turn + 1 /\ x.n = n
  BY LoopAssumption DEF TypeOK, Entry
<1>1. /\ x \in EntrySet /\ x.role = "assistant" /\ x.id = turn + 1 /\ x.n = n
      /\ turn \in Nat /\ MaxCalls \in Nat /\ messages \in Seq(EntrySet)
  BY <1>0, EntryTypes
<1>2. context' = Append(messages, x) /\ messages' = Append(messages, x)
  OBVIOUS
<1> HIDE DEF x
<1>3. /\ messages' \in Seq(EntrySet) /\ Len(messages') = Len(messages) + 1 /\ messages' # <<>>
      /\ messages'[Len(messages) + 1] = x /\ \A q \in 1..Len(messages) : messages'[q] = messages[q]
  BY <1>1, <1>2
<1>4. Last(context') = x
  BY <1>2, <1>3 DEF Last
<1>5. NumCalls' = n /\ turn' = turn + 1
  BY <1>1, <1>4 DEF NumCalls, NewCalls
<1>6. \A i \in 1..MaxCalls : calls'[i] = IF i <= n THEN "todo" ELSE "none"
  BY DEF NewCalls
<1>7. \A i \in 1..n : calls'[i] = "todo"
  BY <1>1, <1>6
<1>8. OlderBefore(Len(context))'
  BY <1>1, <1>2, <1>3, <1>5 DEF OlderBefore, IdsBounded
<1>9. Recorded(0)'
  <2>1. EndedCalls' = {} /\ 1..0 = {}
    BY <1>1, <1>5, <1>7 DEF EndedCalls, AllCalls
  <2>2. messages' = context' \o Results(turn', 0)
    <3>1. messages' \o Results(turn + 1, 0) = messages'
      <4>1. turn + 1 \in Nat /\ 0 \in Nat
        BY <1>1
      <4>2. \A c \in Seq(EntrySet) : c \o Results(turn + 1, 0) = c
        BY <4>1, OneMoreResult
      <4> QED
        BY <1>3, <4>2
    <3> QED
      BY <1>5, <3>1
  <2>3. \A i \in AllCalls' : calls'[i] = "todo"
    BY <1>5, <1>7 DEF AllCalls
  <2> QED
    BY <2>1, <2>2, <2>3 DEF Recorded
<1>10. \E k \in 0..NumCalls' : Recorded(k)'
  BY <1>5, <1>9
<1>11. \A i \in 1..MaxCalls : calls'[i] = "none" <=> i > NumCalls'
  BY <1>1, <1>5, <1>6
<1> QED
  BY <1>1, <1>2, <1>3, <1>4, <1>5, <1>8, <1>10, <1>11 DEF BatchInv

(* Calls move on, but none ends; in sequence only the next one moves.      *)
LEMMA CallsMove ==
    ASSUME TypeOK, BatchInv, pc = "tools", UNCHANGED <<messages, context, turn, sequential>>,
           \A i \in 1..MaxCalls : /\ (calls'[i] = "none" <=> calls[i] = "none")
                                  /\ (calls'[i] = "ended" <=> calls[i] = "ended"),
           sequential => \A i \in 1..MaxCalls : calls'[i] # calls[i] => \A j \in 1..(i - 1) : calls[j] = "ended"
    PROVE  BatchInv'
<1>1. PICK k \in 0..NumCalls : Recorded(k)
  BY DEF BatchInv
<1>2. /\ NumCalls \in 1..MaxCalls /\ MaxCalls \in Nat /\ NumCalls' = NumCalls /\ AllCalls' = AllCalls
      /\ AllCalls = 1..NumCalls /\ k \in Nat
  BY LoopAssumption DEF BatchInv, NumCalls, AllCalls
<1>3. EndedCalls' = EndedCalls
  BY <1>2 DEF EndedCalls
<1>4. ASSUME sequential, NEW i \in AllCalls, i > k + 1
      PROVE  calls'[i] = "todo"
  <2>1. calls[i] = "todo" /\ EndedCalls = 1..k
    BY <1>1, <1>4 DEF Recorded
  <2>2. k + 1 \in 1..(i - 1) /\ k + 1 \in AllCalls /\ k + 1 \notin 1..k
    BY <1>2, <1>4
  <2>3. calls[k + 1] # "ended"
    BY <2>1, <2>2 DEF EndedCalls
  <2>4. calls'[i] = calls[i]
    BY <1>2, <1>4, <2>2, <2>3
  <2> QED
    BY <2>1, <2>4
<1>5. Recorded(k)'
  BY <1>1, <1>2, <1>3, <1>4 DEF Recorded
<1>6. \E j \in 0..NumCalls' : Recorded(j)'
  BY <1>2, <1>5
<1>7. OlderBefore(Len(context))'
  BY DEF BatchInv, OlderBefore
<1>8. \A i \in 1..MaxCalls : calls'[i] = "none" <=> i > NumCalls'
  BY <1>2 DEF BatchInv
<1> QED
  BY <1>2, <1>6, <1>7, <1>8 DEF BatchInv

(* A call under way is, in sequence, the one after the recorded ones; in   *)
(* parallel nothing is recorded while one is under way.                    *)
LEMMA CallUnderWay ==
    ASSUME TypeOK, BatchInv, pc = "tools", NEW k \in 0..NumCalls, Recorded(k),
           NEW i \in 1..MaxCalls, calls[i] \in {"started", "ready", "executing"}
    PROVE  /\ i \in AllCalls
           /\ IF sequential THEN i = k + 1 ELSE k = 0
<1>1. NumCalls \in 1..MaxCalls /\ MaxCalls \in Nat /\ AllCalls = 1..NumCalls /\ calls[i] # "none"
  BY LoopAssumption DEF BatchInv, AllCalls
<1>2. i \in AllCalls
  BY <1>1 DEF BatchInv
<1>3. i \notin EndedCalls
  BY DEF EndedCalls
<1>4. CASE sequential
  <2>1. i \notin 1..k /\ ~(i > k + 1)
    BY <1>2, <1>3, <1>4 DEF Recorded
  <2> QED
    BY <1>1, <1>2, <1>4, <2>1
<1>5. CASE ~sequential
  BY <1>2, <1>3, <1>5 DEF Recorded
<1> QED
  BY <1>2, <1>4, <1>5

(* A call ends, and in sequence its result is recorded.                    *)
LEMMA CallEnds ==
    ASSUME TypeOK, BatchInv, pc = "tools", NEW i \in 1..MaxCalls,
           calls[i] \in {"started", "executing"}, EndCall(i),
           UNCHANGED <<context, turn, sequential>>
    PROVE  /\ BatchInv'
           /\ sequential => \E k \in 0..NumCalls :
                 k < NumCalls /\ i = k + 1 /\ messages = context \o Results(turn, k)
<1>1. PICK k \in 0..NumCalls : Recorded(k)
  BY DEF BatchInv
<1>2. /\ NumCalls \in 1..MaxCalls /\ MaxCalls \in Nat /\ NumCalls' = NumCalls /\ AllCalls' = AllCalls
      /\ AllCalls = 1..NumCalls /\ k \in Nat /\ turn \in Nat
      /\ context \in Seq(EntrySet) /\ messages \in Seq(EntrySet)
  BY LoopAssumption DEF BatchInv, NumCalls, AllCalls, TypeOK
<1>3. i \in AllCalls /\ IF sequential THEN i = k + 1 ELSE k = 0
  BY <1>1, CallUnderWay
<1>4. /\ \A j \in 1..MaxCalls : calls'[j] = IF j = i THEN "ended" ELSE calls[j]
      /\ messages' = IF sequential THEN Append(messages, Result(turn, i)) ELSE messages
  BY DEF EndCall, SetCall, TypeOK
<1>5. EndedCalls' = EndedCalls \cup {i}
  BY <1>2, <1>3, <1>4 DEF EndedCalls
<1>6. \A j \in 1..MaxCalls : calls'[j] = "none" <=> j > NumCalls'
  BY <1>2, <1>3, <1>4 DEF BatchInv
<1>7. Len(context) \in Nat /\ Len(context) <= Len(messages)
  <2>1. Len(messages) = Len(context) + k
    BY <1>1, <1>2, ResultsBehind DEF Recorded
  <2> QED
    BY <1>2, <2>1
<1>8. OlderBefore(Len(context))'
  <2>1. \A q \in 1..(Len(context) - 1) : messages'[q] = messages[q]
    <3>1. Result(turn, i) \in EntrySet
      BY <1>2, EntryTypes
    <3>2. \A q \in 1..Len(messages) : Append(messages, Result(turn, i))[q] = messages[q]
      BY <1>2, <3>1
    <3> QED
      BY <1>4, <1>7, <3>2
  <2> QED
    BY <2>1 DEF BatchInv, OlderBefore
<1>9. \E j \in 0..NumCalls' : Recorded(j)'
  <2>1. CASE sequential
    <3>0. /\ messages = context \o Results(turn, k) /\ i = k + 1 /\ EndedCalls = 1..k
          /\ \A j \in AllCalls : j > k + 1 => calls[j] = "todo"
      BY <1>1, <1>3, <2>1 DEF Recorded
    <3>1. messages' = context \o Results(turn, k + 1)
      <4>1. messages' = Append(messages, Result(turn, k + 1))
        BY <1>4, <2>1, <3>0
      <4> QED
        BY <1>2, <3>0, <4>1, OneMoreResult
    <3>2. EndedCalls' = 1..(k + 1)
      BY <1>1, <1>2, <1>3, <1>5, <2>1 DEF Recorded
    <3>3. \A j \in AllCalls' : j > (k + 1) + 1 => calls'[j] = "todo"
      <4> TAKE j \in AllCalls'
      <4>1. j \in AllCalls /\ j \in 1..MaxCalls /\ j \in Nat
        BY <1>2
      <4>2. j > (k + 1) + 1 => j > k + 1 /\ j # i
        BY <1>2, <3>0, <4>1
      <4> QED
        BY <1>4, <3>0, <4>1, <4>2
    <3>4. Recorded(k + 1)'
      BY <2>1, <3>1, <3>2, <3>3 DEF Recorded
    <3>5. k + 1 \in 0..NumCalls'
      BY <1>2, <1>3, <2>1
    <3> QED
      BY <3>4, <3>5
  <2>2. CASE ~sequential
    <3>1. messages' = context' \o Results(turn', 0)
      BY <1>1, <1>3, <1>4, <2>2 DEF Recorded
    <3>2. Recorded(0)'
      BY <2>2, <3>1 DEF Recorded
    <3>3. 0 \in 0..NumCalls'
      BY <1>2
    <3> QED
      BY <3>2, <3>3
  <2> QED
    BY <2>1, <2>2
<1>10. BatchInv'
  BY <1>2, <1>6, <1>8, <1>9 DEF BatchInv
<1>11. sequential => k < NumCalls /\ i = k + 1 /\ messages = context \o Results(turn, k)
  BY <1>1, <1>2, <1>3 DEF Recorded
<1> QED
  BY <1>10, <1>11

(* In parallel, the next result is recorded when all calls have ended.     *)
LEMMA ResultRecorded ==
    ASSUME TypeOK, BatchInv, RecordResult
    PROVE  /\ BatchInv'
           /\ \E k \in 0..NumCalls : /\ k < NumCalls /\ messages = context \o Results(turn, k)
                                      /\ messages' = Append(messages, Result(turn, k + 1))
<1>0. /\ pc = "tools" /\ ~sequential /\ BatchOver /\ RecordedResults < NumCalls
      /\ messages' = Append(messages, Result(turn, RecordedResults + 1))
      /\ UNCHANGED <<pc, context, turn, calls, sequential>>
  BY DEF RecordResult, agentVars, toolVars
<1>1. PICK k \in 0..NumCalls : Recorded(k)
  BY <1>0 DEF BatchInv
<1>2. /\ NumCalls \in 1..MaxCalls /\ MaxCalls \in Nat /\ NumCalls' = NumCalls /\ AllCalls' = AllCalls
      /\ EndedCalls' = EndedCalls /\ k \in Nat /\ turn \in Nat
      /\ context \in Seq(EntrySet) /\ messages \in Seq(EntrySet)
  BY <1>0, LoopAssumption DEF BatchInv, NumCalls, AllCalls, EndedCalls, TypeOK
<1>3. RecordedResults = k /\ EndedCalls = AllCalls
  BY <1>0, <1>1, RecordedCount DEF BatchOver
<1>4. messages = context \o Results(turn, k)
  BY <1>1 DEF Recorded
<1>5. messages' = context \o Results(turn, k + 1)
  BY <1>0, <1>2, <1>3, <1>4, OneMoreResult
<1>6. Recorded(k + 1)'
  BY <1>0, <1>2, <1>3, <1>5 DEF Recorded
<1>7. k + 1 \in 0..NumCalls'
  BY <1>0, <1>2, <1>3
<1>8. OlderBefore(Len(context))'
  <2>1. Result(turn, k + 1) \in EntrySet
    BY <1>2, EntryTypes
  <2>2. Len(messages) = Len(context) + k
    BY <1>2, <1>4, ResultsBehind
  <2>3. \A q \in 1..(Len(context) - 1) : messages'[q] = messages[q]
    BY <1>0, <1>2, <1>3, <2>1, <2>2
  <2> QED
    BY <1>0, <2>3 DEF BatchInv, OlderBefore
<1>9. BatchInv'
  BY <1>0, <1>2, <1>6, <1>7, <1>8 DEF BatchInv
<1> QED
  BY <1>0, <1>2, <1>3, <1>4, <1>9

(* Nothing of the batch changes.                                           *)
LEMMA BatchUntouched ==
    ASSUME BatchInv, pc' = pc \/ pc' # "tools", UNCHANGED <<messages, context, turn, calls, sequential>>
    PROVE  BatchInv'
<1>1. CASE pc' # "tools"
  BY <1>1 DEF BatchInv
<1>2. CASE pc' = "tools"
  <2>1. pc = "tools"
    BY <1>2
  <2>2. NumCalls' = NumCalls /\ AllCalls' = AllCalls /\ EndedCalls' = EndedCalls
    BY DEF NumCalls, AllCalls, EndedCalls
  <2>3. OlderBefore(Len(context))'
    BY <2>1 DEF BatchInv, OlderBefore
  <2>4. \A k \in 0..NumCalls : Recorded(k) => Recorded(k)'
    BY <2>2 DEF Recorded
  <2> QED
    BY <2>1, <2>2, <2>3, <2>4 DEF BatchInv
<1> QED
  BY <1>1, <1>2

(* While tools run, the transcript ends with the message that asked for    *)
(* them and the results recorded so far, the copy with the message alone;  *)
(* no step of a tool or of a caller breaks this.                           *)
LEMMA BatchStep ==
    ASSUME TypeOK, HoldInv, TranscriptAgrees, IdsBounded, BatchInv, [Next]_vars
    PROVE  BatchInv'
<1>1. ASSUME NEW m \in fresh, Steer(m) PROVE BatchInv'
  <2>1. (pc' = pc \/ pc' # "tools") /\ UNCHANGED <<messages, context, turn, calls, sequential>>
    BY <1>1 DEF Steer, agentVars, stateVars, queueVars, flowVars, toolVars
  <2> QED
    BY <2>1, BatchUntouched
<1>2. ASSUME NEW m \in fresh, FollowUp(m) PROVE BatchInv'
  <2>1. (pc' = pc \/ pc' # "tools") /\ UNCHANGED <<messages, context, turn, calls, sequential>>
    BY <1>2 DEF FollowUp, agentVars, stateVars, queueVars, flowVars, toolVars
  <2> QED
    BY <2>1, BatchUntouched
<1>3. ASSUME NEW m \in fresh, Prompt(m) PROVE BatchInv'
  <2>1. pc' # "tools"
    BY <1>3 DEF Prompt, BeginRun, Goto, agentVars, stateVars, queueVars, flowVars, toolVars
  <2> QED
    BY <2>1 DEF BatchInv
<1>4. ASSUME NEW m \in fresh, TakeContinuation(m) PROVE BatchInv'
  <2>1. pc' # "tools"
    BY <1>4 DEF TakeContinuation, Goto, agentVars, stateVars, queueVars, flowVars, toolVars
  <2> QED
    BY <2>1 DEF BatchInv
<1>5. ASSUME NEW m \in Msg, RemoveQueued(m) PROVE BatchInv'
  <2>1. (pc' = pc \/ pc' # "tools") /\ UNCHANGED <<messages, context, turn, calls, sequential>>
    BY <1>5 DEF RemoveQueued, agentVars, stateVars, queueVars, flowVars, toolVars
  <2> QED
    BY <2>1, BatchUntouched
<1>6. ASSUME Continue PROVE BatchInv'
  <2>1. pc' # "tools"
    BY <1>6 DEF Continue, BeginRun, Goto, agentVars, stateVars, queueVars, flowVars, toolVars
  <2> QED
    BY <2>1 DEF BatchInv
<1>7. ASSUME Abort PROVE BatchInv'
  <2>1. (pc' = pc \/ pc' # "tools") /\ UNCHANGED <<messages, context, turn, calls, sequential>>
    BY <1>7 DEF Abort, agentVars, stateVars, queueVars, flowVars, toolVars
  <2> QED
    BY <2>1, BatchUntouched
<1>8. ASSUME RouteReflex PROVE BatchInv'
  <2>1. /\ NewCalls(1) /\ messages' = Append(messages, Entry("assistant", turn + 1, 1, "reflex"))
        /\ context' = messages' /\ 1 \in 1..MaxCalls /\ "reflex" \in Stops
    BY <1>8, LoopAssumption DEF RouteReflex, Record, TranscriptAgrees, Stops
  <2> QED
    BY <2>1, BatchBegins
<1>9. ASSUME StreamStart PROVE BatchInv'
  <2>1. pc' # "tools"
    BY <1>9 DEF StreamStart, agentVars, stateVars, queueVars, flowVars, toolVars
  <2> QED
    BY <2>1 DEF BatchInv
<1>10. ASSUME StreamError PROVE BatchInv'
  <2>1. pc' # "tools"
    BY <1>10 DEF StreamError, FinishStream, NewCalls, EmitAgentEnd, Goto, agentVars, stateVars,
         queueVars, flowVars, toolVars
  <2> QED
    BY <2>1 DEF BatchInv
<1>11. ASSUME NEW n \in 0..MaxCalls, StreamDone(n) PROVE BatchInv'
  <2>1. FinishStream(n, "stop") /\ "stop" \in Stops
    BY <1>11 DEF StreamDone, Stops
  <2>2. context' = messages' /\ messages' = Append(messages, Entry("assistant", turn + 1, n, "stop"))
    BY <2>1, StreamEnds
  <2>3. CASE n = 0
    BY <1>11, <2>3 DEF StreamDone, Goto, BatchInv
  <2>4. CASE n # 0
    <3>1. n \in 1..MaxCalls /\ NewCalls(n)
      BY <2>1, <2>4, LoopAssumption DEF FinishStream
    <3> QED
      BY <2>1, <2>2, <3>1, BatchBegins
  <2> QED
    BY <2>3, <2>4
<1>12. ASSUME NEW i \in 1..MaxCalls, PrepareCall(i) PROVE BatchInv'
  <2>1. /\ pc = "tools" /\ UNCHANGED <<messages, context, turn, sequential>>
        /\ \A j \in 1..MaxCalls : calls'[j] = IF j = i THEN (IF sequential THEN "executing" ELSE "ready") ELSE calls[j]
    BY <1>12 DEF PrepareCall, SetCall, agentVars, stateVars, queueVars, flowVars, toolVars, TypeOK
  <2>2. calls[i] = "started"
    BY <1>12 DEF PrepareCall
  <2>3. ASSUME sequential PROVE \A j \in 1..(i - 1) : calls[j] = "ended"
    <3>1. PICK k \in 0..NumCalls : Recorded(k)
      BY <2>1 DEF BatchInv
    <3>2. i = k + 1 /\ k \in Nat
      BY <2>1, <2>2, <2>3, <3>1, CallUnderWay
    <3>3. 1..k = EndedCalls
      BY <2>3, <3>1 DEF Recorded
    <3> QED
      BY <3>2, <3>3 DEF EndedCalls
  <2>4. /\ \A j \in 1..MaxCalls : /\ (calls'[j] = "none" <=> calls[j] = "none")
                                  /\ (calls'[j] = "ended" <=> calls[j] = "ended")
        /\ \A j \in 1..MaxCalls : calls'[j] # calls[j] => j = i
    BY <2>1, <2>2
  <2> QED
    BY <2>1, <2>3, <2>4, CallsMove
<1>13. ASSUME NEW i \in 1..MaxCalls, ToolReturns(i) PROVE BatchInv'
  <2>1. /\ pc = "tools" /\ EndCall(i) /\ calls[i] \in {"started", "executing"}
        /\ UNCHANGED <<context, turn, sequential>>
    BY <1>13 DEF ToolReturns, toolVars
  <2> QED
    BY <2>1, CallEnds
<1>14. ASSUME NEW i \in 1..MaxCalls, ToolEndThrows(i) PROVE BatchInv'
  <2>1. pc' # "tools"
    BY <1>14 DEF ToolEndThrows, Goto, CallId, agentVars, stateVars, queueVars, flowVars, toolVars
  <2> QED
    BY <2>1 DEF BatchInv
<1>15. ASSUME NEW z \in zombies, ZombieEnds(z) PROVE BatchInv'
  <2>1. (pc' = pc \/ pc' # "tools") /\ UNCHANGED <<messages, context, turn, calls, sequential>>
    BY <1>15 DEF ZombieEnds, agentVars, stateVars, queueVars, flowVars, toolVars
  <2> QED
    BY <2>1, BatchUntouched
<1>16. ASSUME RunThrows PROVE BatchInv'
  <2>1. pc' # "tools"
    BY <1>16 DEF RunThrows, DropPending, Goto, agentVars, stateVars, queueVars, flowVars, toolVars
  <2> QED
    BY <2>1 DEF BatchInv
<1>17. ASSUME EmitPrompt PROVE BatchInv'
  <2>1. pc' # "tools"
    BY <1>17 DEF EmitPrompt, Record, Goto, agentVars, stateVars, queueVars, flowVars, toolVars
  <2> QED
    BY <2>1 DEF BatchInv
<1>18. ASSUME FirstPoll PROVE BatchInv'
  <2>1. pc' # "tools"
    BY <1>18 DEF FirstPoll, PollSteering, Goto, agentVars, stateVars, queueVars, flowVars, toolVars
  <2> QED
    BY <2>1 DEF BatchInv
<1>19. ASSUME EnterLoop PROVE BatchInv'
  <2>1. pc' # "tools"
    BY <1>19 DEF EnterLoop, DropPending, Goto, agentVars, stateVars, queueVars, flowVars, toolVars
  <2> QED
    BY <2>1 DEF BatchInv
<1>20. ASSUME LeaveInner PROVE BatchInv'
  <2>1. pc' # "tools"
    BY <1>20 DEF LeaveInner, EmitAgentEnd, Goto, NoMessages, agentVars, stateVars, queueVars,
         flowVars, toolVars
  <2> QED
    BY <2>1 DEF BatchInv
<1>21. ASSUME EnterTurn PROVE BatchInv'
  <2>1. pc' # "tools"
    BY <1>21 DEF EnterTurn, DropPending, Goto, NoMessages, agentVars, stateVars, queueVars, flowVars, toolVars
  <2> QED
    BY <2>1 DEF BatchInv
<1>22. ASSUME RouteNone PROVE BatchInv'
  <2>1. pc' # "tools"
    BY <1>22 DEF RouteNone, Goto, agentVars, stateVars, queueVars, flowVars, toolVars
  <2> QED
    BY <2>1 DEF BatchInv
<1>23. ASSUME Inject PROVE BatchInv'
  <2>1. pc' # "tools"
    BY <1>23 DEF Inject, Record, Goto, NoMessages, agentVars, stateVars, queueVars, flowVars, toolVars
  <2> QED
    BY <2>1 DEF BatchInv
<1>24. ASSUME StreamAborted PROVE BatchInv'
  <2>1. pc' # "tools"
    BY <1>24 DEF StreamAborted, FinishStream, NewCalls, EmitAgentEnd, Goto, agentVars, stateVars,
         queueVars, flowVars, toolVars
  <2> QED
    BY <2>1 DEF BatchInv
<1>25. ASSUME NEW i \in 1..MaxCalls, StartCall(i) PROVE BatchInv'
  <2>1. /\ pc = "tools" /\ UNCHANGED <<messages, context, turn, sequential>>
        /\ \A j \in 1..MaxCalls : calls'[j] = IF j = i THEN "started" ELSE calls[j]
    BY <1>25 DEF StartCall, SetCall, CallId, agentVars, stateVars, queueVars, flowVars, toolVars, TypeOK
  <2>2. calls[i] = "todo"
    BY <1>25 DEF StartCall
  <2>3. sequential => \A j \in 1..(i - 1) : calls[j] = "ended"
    BY <1>25 DEF StartCall, Settled
  <2>4. /\ \A j \in 1..MaxCalls : /\ (calls'[j] = "none" <=> calls[j] = "none")
                                  /\ (calls'[j] = "ended" <=> calls[j] = "ended")
        /\ \A j \in 1..MaxCalls : calls'[j] # calls[j] => j = i
    BY <2>1, <2>2
  <2> QED
    BY <2>1, <2>3, <2>4, CallsMove
<1>26. ASSUME NEW i \in 1..MaxCalls, ImmediateCall(i) PROVE BatchInv'
  <2>1. /\ pc = "tools" /\ EndCall(i) /\ calls[i] \in {"started", "executing"}
        /\ UNCHANGED <<context, turn, sequential>>
    BY <1>26 DEF ImmediateCall, toolVars
  <2> QED
    BY <2>1, CallEnds
<1>27. ASSUME NEW i \in 1..MaxCalls, ToolAborted(i) PROVE BatchInv'
  <2>1. /\ pc = "tools" /\ EndCall(i) /\ calls[i] \in {"started", "executing"}
        /\ UNCHANGED <<context, turn, sequential>>
    BY <1>27 DEF ToolAborted, toolVars
  <2> QED
    BY <2>1, CallEnds
<1>28. ASSUME LaunchCalls PROVE BatchInv'
  <2>1. /\ pc = "tools" /\ ~sequential /\ UNCHANGED <<messages, context, turn, sequential>>
        /\ \A j \in 1..MaxCalls : calls'[j] = IF calls[j] = "ready" THEN "executing" ELSE calls[j]
    BY <1>28 DEF LaunchCalls, agentVars, stateVars, queueVars, flowVars, toolVars
  <2>2. \A j \in 1..MaxCalls : /\ (calls'[j] = "none" <=> calls[j] = "none")
                               /\ (calls'[j] = "ended" <=> calls[j] = "ended")
    BY <2>1
  <2> QED
    BY <2>1, <2>2, CallsMove
<1>29. ASSUME RecordResult PROVE BatchInv'
  BY <1>29, ResultRecorded
<1>30. ASSUME FinishBatch PROVE BatchInv'
  <2>1. pc' # "tools"
    BY <1>30 DEF FinishBatch, Goto, agentVars, stateVars, queueVars, flowVars, toolVars
  <2> QED
    BY <2>1 DEF BatchInv
<1>31. ASSUME TurnEnd PROVE BatchInv'
  <2>1. pc' # "tools"
    BY <1>31 DEF TurnEnd, EmitAgentEnd, Goto, agentVars, stateVars, queueVars, flowVars, toolVars
  <2> QED
    BY <2>1 DEF BatchInv
<1>32. ASSUME StopAfterTurn PROVE BatchInv'
  <2>1. pc' # "tools"
    BY <1>32 DEF StopAfterTurn, EmitAgentEnd, Goto, agentVars, stateVars, queueVars, flowVars, toolVars
  <2> QED
    BY <2>1 DEF BatchInv
<1>33. ASSUME GoOnAfterTurn PROVE BatchInv'
  <2>1. pc' # "tools"
    BY <1>33 DEF GoOnAfterTurn, Goto, agentVars, stateVars, queueVars, flowVars, toolVars
  <2> QED
    BY <2>1 DEF BatchInv
<1>34. ASSUME SteeringPoll PROVE BatchInv'
  <2>1. pc' # "tools"
    BY <1>34 DEF SteeringPoll, PollSteering, Goto, agentVars, stateVars, queueVars, flowVars, toolVars
  <2> QED
    BY <2>1 DEF BatchInv
<1>35. ASSUME AfterSteeringPoll PROVE BatchInv'
  <2>1. pc' # "tools"
    BY <1>35 DEF AfterSteeringPoll, DropPending, EmitAgentEnd, Goto, NoMessages, agentVars,
         stateVars, queueVars, flowVars, toolVars
  <2> QED
    BY <2>1 DEF BatchInv
<1>36. ASSUME FollowUpPoll PROVE BatchInv'
  <2>1. pc' # "tools"
    BY <1>36 DEF FollowUpPoll, Goto, agentVars, stateVars, queueVars, flowVars, toolVars
  <2> QED
    BY <2>1 DEF BatchInv
<1>37. ASSUME AfterFollowUpPoll PROVE BatchInv'
  <2>1. pc' # "tools"
    BY <1>37 DEF AfterFollowUpPoll, DropPending, EmitAgentEnd, Goto, NoMessages, agentVars,
         stateVars, queueVars, flowVars, toolVars
  <2> QED
    BY <2>1 DEF BatchInv
<1>38. ASSUME NoContinuation PROVE BatchInv'
  <2>1. pc' # "tools"
    BY <1>38 DEF NoContinuation, EmitAgentEnd, Goto, agentVars, stateVars, queueVars, flowVars, toolVars
  <2> QED
    BY <2>1 DEF BatchInv
<1>39. ASSUME HandleRunFailure PROVE BatchInv'
  <2>1. pc' # "tools"
    BY <1>39 DEF HandleRunFailure, Goto, agentVars, stateVars, queueVars, flowVars, toolVars
  <2> QED
    BY <2>1 DEF BatchInv
<1>40. ASSUME FinishRun PROVE BatchInv'
  <2>1. pc' # "tools"
    BY <1>40 DEF FinishRun, NoLocals, Goto, agentVars, stateVars, queueVars, flowVars, toolVars
  <2> QED
    BY <2>1 DEF BatchInv
<1>41. ASSUME UNCHANGED vars PROVE BatchInv'
  <2>1. pc' = pc /\ UNCHANGED <<messages, context, turn, calls, sequential>>
    BY <1>41 DEF vars, agentVars, stateVars, toolVars
  <2> QED
    BY <2>1, BatchUntouched
<1> QED
  BY <1>1, <1>2, <1>3, <1>4, <1>5, <1>6, <1>7, <1>8, <1>9, <1>10, <1>11, <1>12, <1>13, <1>14, <1>15,
       <1>16, <1>17, <1>18, <1>19, <1>20, <1>21, <1>22, <1>23, <1>24, <1>25, <1>26, <1>27, <1>28,
       <1>29, <1>30, <1>31, <1>32, <1>33, <1>34, <1>35, <1>36, <1>37, <1>38, <1>39, <1>40, <1>41 DEF
       Next, External, Internal

-----------------------------------------------------------------------------
(* Results stand behind their calls.                                       *)

(* What is recorded stays where it is.                                     *)
LEMMA Recording ==
    ASSUME messages \in Seq(EntrySet), NEW x \in EntrySet, messages' = Append(messages, x)
    PROVE  /\ Len(messages') = Len(messages) + 1 /\ DOMAIN messages' = 1..(Len(messages) + 1)
           /\ DOMAIN messages = 1..Len(messages) /\ Len(messages) \in Nat
           /\ messages'[Len(messages) + 1] = x
           /\ \A q \in 1..Len(messages) : messages'[q] = messages[q]
OBVIOUS

(* What ResultsFollowCalls says of one result.                             *)
FollowsCall(q) ==
  LET c == messages[q].n IN
  /\ 0 < c /\ c < q
  /\ messages[q - c].role = "assistant"
  /\ messages[q - c].id = messages[q].id /\ c <= messages[q - c].n
  /\ \A d \in 1..(c - 1) : messages[q - d].role = "result"

(* Results already recorded are not disturbed by what follows them.        *)
LEMMA EarlierFollow ==
    ASSUME messages \in Seq(EntrySet), NEW x \in EntrySet, messages' = Append(messages, x), ResultsFollowCalls,
           NEW q \in 1..Len(messages), messages'[q].role = "result"
    PROVE  FollowsCall(q)'
<1>1. /\ Len(messages) \in Nat /\ DOMAIN messages = 1..Len(messages)
      /\ \A p \in 1..Len(messages) : messages'[p] = messages[p] /\ messages[p].n \in Nat
  <2>1. \A p \in 1..Len(messages) : messages[p] \in EntrySet
    OBVIOUS
  <2> QED
    BY <2>1, Recording DEF EntrySet
<1> DEFINE c == messages[q].n
<1>2. /\ 0 < c /\ c < q /\ messages[q - c].role = "assistant"
      /\ messages[q - c].id = messages[q].id /\ c <= messages[q - c].n
      /\ \A d \in 1..(c - 1) : messages[q - d].role = "result"
  BY <1>1 DEF ResultsFollowCalls
<1>3. c \in Nat /\ messages'[q] = messages[q]
  BY <1>1
<1> HIDE DEF c
<1>4. q - c \in 1..Len(messages) /\ \A d \in 1..(c - 1) : q - d \in 1..Len(messages)
  BY <1>1, <1>2, <1>3
<1>5. messages'[q - c] = messages[q - c] /\ \A d \in 1..(c - 1) : messages'[q - d] = messages[q - d]
  BY <1>1, <1>4
<1>6. messages'[q].n = c
  BY <1>3 DEF c
<1> QED
  BY <1>2, <1>3, <1>5, <1>6 DEF FollowsCall

(* Recording anything but a result leaves every earlier result behind its  *)
(* call.                                                                   *)
LEMMA OtherRecorded ==
    ASSUME messages \in Seq(EntrySet), NEW x \in EntrySet, x.role # "result",
           messages' = Append(messages, x), ResultsFollowCalls
    PROVE  ResultsFollowCalls'
<1>1. /\ DOMAIN messages' = 1..(Len(messages) + 1) /\ Len(messages) \in Nat
      /\ messages'[Len(messages) + 1] = x
  BY Recording
<1>2. ASSUME NEW q \in DOMAIN messages', messages'[q].role = "result" PROVE FollowsCall(q)'
  <2>1. q \in 1..Len(messages)
    BY <1>1, <1>2
  <2> QED
    BY <1>2, <2>1, EarlierFollow
<1> QED
  BY <1>2 DEF FollowsCall, ResultsFollowCalls

(* The next result of the batch.                                           *)
LEMMA NextResultRecorded ==
    ASSUME messages \in Seq(EntrySet), turn \in Nat, NEW L \in Nat \ {0}, NEW k \in Nat,
           Len(messages) = L + k, messages[L].role = "assistant", messages[L].id = turn, k + 1 <= messages[L].n,
           \A i \in 1..k : messages[L + i].role = "result",
           messages' = Append(messages, Result(turn, k + 1)), ResultsFollowCalls
    PROVE  ResultsFollowCalls'
<1> DEFINE x == Result(turn, k + 1)
<1>1. x \in EntrySet
  BY EntryTypes
<1>3. x.role = "result" /\ x.id = turn /\ x.n = k + 1
  BY DEF Result, Entry
<1>5. /\ DOMAIN messages' = 1..(L + k + 1) /\ messages'[L + k + 1] = x
      /\ \A q \in 1..(L + k) : messages'[q] = messages[q]
  BY <1>1, Recording
<1>6. messages'[L] = messages[L]
  BY <1>5
<1>7. \A i \in 1..k : messages'[L + i].role = "result"
  <2> TAKE i \in 1..k
  <2>1. L + i \in 1..(L + k)
    OBVIOUS
  <2> QED
    BY <1>5, <2>1
<1> HIDE DEF x
<1>8. FollowsCall(L + k + 1)'
  <2>1. messages'[L + k + 1].n = k + 1 /\ messages'[L + k + 1].id = turn
    BY <1>3, <1>5
  <2>2. (L + k + 1) - (k + 1) = L /\ 0 < k + 1 /\ k + 1 < L + k + 1
    OBVIOUS
  <2>3. \A d \in 1..((k + 1) - 1) : messages'[(L + k + 1) - d].role = "result"
    <3> TAKE d \in 1..((k + 1) - 1)
    <3>1. k + 1 - d \in 1..k /\ (L + k + 1) - d = L + (k + 1 - d)
      OBVIOUS
    <3> QED
      BY <1>7, <3>1
  <2>4. messages'[L].role = "assistant" /\ messages'[L].id = turn /\ k + 1 <= messages'[L].n
    BY <1>6
  <2> QED
    BY <2>1, <2>2, <2>3, <2>4 DEF FollowsCall
<1>9. ASSUME NEW q \in DOMAIN messages', messages'[q].role = "result" PROVE FollowsCall(q)'
  <2>1. CASE q = L + k + 1
    BY <1>8, <2>1
  <2>2. CASE q # L + k + 1
    <3>0. q \in 1..(L + k + 1)
      BY <1>5, <1>9
    <3>1. q \in 1..Len(messages)
      BY <2>2, <3>0
    <3> QED
      BY <1>1, <1>9, <3>1, EarlierFollow DEF x
  <2> QED
    BY <2>1, <2>2
<1> QED
  BY <1>9 DEF FollowsCall, ResultsFollowCalls

(* Ids never exceed the number of turns.                                   *)
LEMMA IdsStayBounded ==
    ASSUME messages \in Seq(EntrySet), turn \in Nat, turn' \in Nat, turn <= turn', NEW x \in EntrySet,
           messages' = Append(messages, x), IdsBounded, x.role # "user" => x.id \in Nat /\ x.id <= turn'
    PROVE  IdsBounded'
<1>1. /\ DOMAIN messages' = 1..(Len(messages) + 1) /\ Len(messages) \in Nat
      /\ DOMAIN messages = 1..Len(messages)
      /\ messages'[Len(messages) + 1] = x /\ \A q \in 1..Len(messages) : messages'[q] = messages[q]
  BY Recording
<1> QED
  BY <1>1 DEF IdsBounded

ResultsInv == IdsBounded /\ ResultsFollowCalls

(* Every step, those that record the results of a batch included, keeps    *)
(* results in call order behind the message that asked for them.           *)
LEMMA ResultsStep ==
    ASSUME TypeOK, HoldInv, TranscriptAgrees, BatchInv, ResultsInv, [Next]_vars
    PROVE  ResultsInv'
<1>0. messages \in Seq(EntrySet) /\ context \in Seq(EntrySet) /\ turn \in Nat /\ turn + 1 \in Nat /\ turn <= turn + 1
  BY DEF TypeOK
<1>a. ASSUME UNCHANGED <<messages, turn>> PROVE ResultsInv'
  BY <1>a DEF ResultsInv, IdsBounded, ResultsFollowCalls
<1>b. ASSUME NEW n \in Nat, NEW stop \in Stops, turn' = turn + 1,
             messages' = Append(messages, Entry("assistant", turn + 1, n, stop))
      PROVE  ResultsInv'
  <2> DEFINE x == Entry("assistant", turn + 1, n, stop)
  <2>1. x \in EntrySet
    BY <1>0, EntryTypes
  <2>2. x.role = "assistant" /\ x.id = turn + 1
    BY DEF Entry
  <2>3. messages' = Append(messages, x)
    BY <1>b
  <2> HIDE DEF x
  <2>4. ResultsFollowCalls'
    BY <1>0, <2>1, <2>2, <2>3, OtherRecorded DEF ResultsInv
  <2>5. IdsBounded'
    BY <1>0, <1>b, <2>1, <2>2, <2>3, IdsStayBounded DEF ResultsInv
  <2> QED
    BY <2>4, <2>5 DEF ResultsInv
<1>c. ASSUME pending # <<>>, UNCHANGED turn, messages' = Append(messages, User(Head(pending)))
      PROVE  ResultsInv'
  <2> DEFINE x == User(Head(pending))
  <2>1. x \in EntrySet
    BY <1>c, EntryTypes DEF TypeOK
  <2>2. x.role = "user"
    BY DEF User, Entry
  <2>3. messages' = Append(messages, x)
    BY <1>c
  <2> HIDE DEF x
  <2>4. ResultsFollowCalls'
    BY <1>0, <2>1, <2>2, <2>3, OtherRecorded DEF ResultsInv
  <2>5. turn' \in Nat /\ turn <= turn'
    BY <1>0, <1>c
  <2>6. IdsBounded'
    BY <1>0, <2>1, <2>2, <2>3, <2>5, IdsStayBounded DEF ResultsInv
  <2> QED
    BY <2>4, <2>6 DEF ResultsInv
<1>d. ASSUME pc = "tools", UNCHANGED turn, NEW k \in 0..NumCalls, k < NumCalls,
             messages = context \o Results(turn, k), messages' = Append(messages, Result(turn, k + 1))
      PROVE  ResultsInv'
  <2>1. /\ NumCalls \in Nat /\ context # <<>> /\ Last(context).role = "assistant" /\ Last(context).id = turn
    BY <1>d, LoopAssumption DEF BatchInv
  <2>2. k \in Nat /\ k + 1 <= Last(context).n /\ k + 1 \in Nat
    BY <1>d, <2>1 DEF NumCalls
  <2>3. /\ Len(messages) = Len(context) + k /\ \A i \in 1..Len(context) : messages[i] = context[i]
        /\ \A i \in 1..k : messages[Len(context) + i] = Result(turn, i)
    <3> DEFINE r == context \o Results(turn, k)
    <3>1. /\ Len(r) = Len(context) + k /\ \A i \in 1..Len(context) : r[i] = context[i]
          /\ \A i \in 1..k : r[Len(context) + i] = Result(turn, i)
      BY <1>0, <2>2, ResultsBehind
    <3>2. messages = r
      BY <1>d
    <3> HIDE DEF r
    <3> QED
      BY <3>1, <3>2
  <2> PICK L \in Nat \ {0} : L = Len(context)
    BY <1>0, <2>1
  <2>a. Len(messages) = L + k /\ messages[L] = context[L] /\ \A i \in 1..k : messages[L + i] = Result(turn, i)
    BY <2>3
  <2>b. messages[L].role = "assistant" /\ messages[L].id = turn /\ k + 1 <= messages[L].n
    BY <2>1, <2>2, <2>a DEF Last
  <2>c. \A i \in 1..k : messages[L + i].role = "result"
    <3>1. \A i \in 1..k : Result(turn, i).role = "result"
      BY DEF Result, Entry
    <3> QED
      BY <2>a, <3>1
  <2>d. ResultsFollowCalls'
    BY <1>0, <1>d, <2>2, <2>a, <2>b, <2>c, NextResultRecorded DEF ResultsInv
  <2>4. Result(turn, k + 1) \in EntrySet
    BY <1>0, <2>2, EntryTypes
  <2>5. Result(turn, k + 1).id = turn /\ turn' \in Nat /\ turn <= turn'
    BY <1>0, <1>d DEF Result, Entry
  <2>6. IdsBounded'
    BY <1>0, <1>d, <2>4, <2>5, IdsStayBounded DEF ResultsInv
  <2> QED
    BY <2>d, <2>6 DEF ResultsInv
<1>1. ASSUME NEW m \in fresh, Steer(m) PROVE ResultsInv'
  <2>1. UNCHANGED <<messages, turn>>
    BY <1>1 DEF Steer, agentVars, stateVars, queueVars, flowVars, toolVars
  <2> QED
    BY <2>1, <1>a
<1>2. ASSUME NEW m \in fresh, FollowUp(m) PROVE ResultsInv'
  <2>1. UNCHANGED <<messages, turn>>
    BY <1>2 DEF FollowUp, agentVars, stateVars, queueVars, flowVars, toolVars
  <2> QED
    BY <2>1, <1>a
<1>3. ASSUME NEW m \in fresh, Prompt(m) PROVE ResultsInv'
  <2>1. UNCHANGED <<messages, turn>>
    BY <1>3 DEF Prompt, BeginRun, Goto, agentVars, stateVars, queueVars, flowVars, toolVars
  <2> QED
    BY <2>1, <1>a
<1>4. ASSUME NEW m \in fresh, TakeContinuation(m) PROVE ResultsInv'
  <2>1. UNCHANGED <<messages, turn>>
    BY <1>4 DEF TakeContinuation, Goto, agentVars, stateVars, queueVars, flowVars, toolVars
  <2> QED
    BY <2>1, <1>a
<1>5. ASSUME NEW m \in Msg, RemoveQueued(m) PROVE ResultsInv'
  <2>1. UNCHANGED <<messages, turn>>
    BY <1>5 DEF RemoveQueued, agentVars, stateVars, queueVars, flowVars, toolVars
  <2> QED
    BY <2>1, <1>a
<1>6. ASSUME Continue PROVE ResultsInv'
  <2>1. UNCHANGED <<messages, turn>>
    BY <1>6 DEF Continue, BeginRun, Goto, agentVars, stateVars, queueVars, flowVars, toolVars
  <2> QED
    BY <2>1, <1>a
<1>7. ASSUME Abort PROVE ResultsInv'
  <2>1. UNCHANGED <<messages, turn>>
    BY <1>7 DEF Abort, agentVars, stateVars, queueVars, flowVars, toolVars
  <2> QED
    BY <2>1, <1>a
<1>8. ASSUME RouteReflex PROVE ResultsInv'
  <2>1. messages' = Append(messages, Entry("assistant", turn + 1, 1, "reflex")) /\ turn' = turn + 1
    BY <1>8 DEF RouteReflex, Record, NewCalls
  <2>2. "reflex" \in Stops /\ 1 \in Nat
    BY DEF Stops
  <2> QED
    BY <2>1, <2>2, <1>b
<1>9. ASSUME StreamStart PROVE ResultsInv'
  <2>1. UNCHANGED <<messages, turn>>
    BY <1>9 DEF StreamStart, agentVars, stateVars, queueVars, flowVars, toolVars
  <2> QED
    BY <2>1, <1>a
<1>10. ASSUME StreamError PROVE ResultsInv'
  <2>1. FinishStream(0, "error") /\ 0 \in 0..MaxCalls /\ 0 \in Nat /\ "error" \in Stops
    BY <1>10, LoopAssumption DEF StreamError, Stops
  <2>2. messages' = Append(messages, Entry("assistant", turn + 1, 0, "error")) /\ turn' = turn + 1
    BY <2>1 DEF FinishStream, NewCalls
  <2> QED
    BY <2>1, <2>2, <1>b
<1>11. ASSUME NEW n \in 0..MaxCalls, StreamDone(n) PROVE ResultsInv'
  <2>1. FinishStream(n, "stop") /\ n \in 0..MaxCalls /\ n \in Nat /\ "stop" \in Stops
    BY <1>11, LoopAssumption DEF StreamDone, Stops
  <2>2. messages' = Append(messages, Entry("assistant", turn + 1, n, "stop")) /\ turn' = turn + 1
    BY <2>1 DEF FinishStream, NewCalls
  <2> QED
    BY <2>1, <2>2, <1>b
<1>12. ASSUME NEW i \in 1..MaxCalls, PrepareCall(i) PROVE ResultsInv'
  <2>1. UNCHANGED <<messages, turn>>
    BY <1>12 DEF PrepareCall, SetCall, agentVars, stateVars, queueVars, flowVars, toolVars
  <2> QED
    BY <2>1, <1>a
<1>13. ASSUME NEW i \in 1..MaxCalls, ToolReturns(i) PROVE ResultsInv'
  <2>1. /\ pc = "tools" /\ EndCall(i) /\ calls[i] \in {"started", "executing"}
        /\ UNCHANGED <<context, turn, sequential>>
    BY <1>13 DEF ToolReturns, toolVars
  <2>2. CASE sequential
    <3>1. PICK k \in 0..NumCalls : k < NumCalls /\ i = k + 1 /\ messages = context \o Results(turn, k)
      BY <2>1, <2>2, CallEnds
    <3>2. messages' = Append(messages, Result(turn, k + 1))
      BY <2>1, <2>2, <3>1 DEF EndCall
    <3> QED
      BY <2>1, <3>1, <3>2, <1>d
  <2>3. CASE ~sequential
    BY <2>1, <2>3, <1>a DEF EndCall
  <2> QED
    BY <2>2, <2>3
<1>14. ASSUME NEW i \in 1..MaxCalls, ToolEndThrows(i) PROVE ResultsInv'
  <2>1. UNCHANGED <<messages, turn>>
    BY <1>14 DEF ToolEndThrows, Goto, CallId, agentVars, stateVars, queueVars, flowVars, toolVars
  <2> QED
    BY <2>1, <1>a
<1>15. ASSUME NEW z \in zombies, ZombieEnds(z) PROVE ResultsInv'
  <2>1. UNCHANGED <<messages, turn>>
    BY <1>15 DEF ZombieEnds, agentVars, stateVars, queueVars, flowVars, toolVars
  <2> QED
    BY <2>1, <1>a
<1>16. ASSUME RunThrows PROVE ResultsInv'
  <2>1. UNCHANGED <<messages, turn>>
    BY <1>16 DEF RunThrows, DropPending, Goto, agentVars, stateVars, queueVars, flowVars, toolVars
  <2> QED
    BY <2>1, <1>a
<1>17. ASSUME EmitPrompt PROVE ResultsInv'
  <2>1. pending # <<>> /\ UNCHANGED turn /\ messages' = Append(messages, User(Head(pending)))
    BY <1>17 DEF EmitPrompt, Record, HoldInv
  <2> QED
    BY <2>1, <1>c
<1>18. ASSUME FirstPoll PROVE ResultsInv'
  <2>1. UNCHANGED <<messages, turn>>
    BY <1>18 DEF FirstPoll, PollSteering, Goto, agentVars, stateVars, queueVars, flowVars, toolVars
  <2> QED
    BY <2>1, <1>a
<1>19. ASSUME EnterLoop PROVE ResultsInv'
  <2>1. UNCHANGED <<messages, turn>>
    BY <1>19 DEF EnterLoop, DropPending, Goto, agentVars, stateVars, queueVars, flowVars, toolVars
  <2> QED
    BY <2>1, <1>a
<1>20. ASSUME LeaveInner PROVE ResultsInv'
  <2>1. UNCHANGED <<messages, turn>>
    BY <1>20 DEF LeaveInner, EmitAgentEnd, Goto, NoMessages, agentVars, stateVars, queueVars,
         flowVars, toolVars
  <2> QED
    BY <2>1, <1>a
<1>21. ASSUME EnterTurn PROVE ResultsInv'
  <2>1. UNCHANGED <<messages, turn>>
    BY <1>21 DEF EnterTurn, DropPending, Goto, NoMessages, agentVars, stateVars, queueVars, flowVars, toolVars
  <2> QED
    BY <2>1, <1>a
<1>22. ASSUME RouteNone PROVE ResultsInv'
  <2>1. UNCHANGED <<messages, turn>>
    BY <1>22 DEF RouteNone, Goto, agentVars, stateVars, queueVars, flowVars, toolVars
  <2> QED
    BY <2>1, <1>a
<1>23. ASSUME Inject PROVE ResultsInv'
  <2>1. CASE pending = <<>>
    BY <1>23, <2>1, <1>a DEF Inject, NoMessages
  <2>2. CASE pending # <<>>
    BY <1>23, <2>2, <1>c DEF Inject, Record, NoMessages
  <2> QED
    BY <2>1, <2>2
<1>24. ASSUME StreamAborted PROVE ResultsInv'
  <2>1. FinishStream(0, "aborted") /\ 0 \in 0..MaxCalls /\ 0 \in Nat /\ "aborted" \in Stops
    BY <1>24, LoopAssumption DEF StreamAborted, Stops
  <2>2. messages' = Append(messages, Entry("assistant", turn + 1, 0, "aborted")) /\ turn' = turn + 1
    BY <2>1 DEF FinishStream, NewCalls
  <2> QED
    BY <2>1, <2>2, <1>b
<1>25. ASSUME NEW i \in 1..MaxCalls, StartCall(i) PROVE ResultsInv'
  <2>1. UNCHANGED <<messages, turn>>
    BY <1>25 DEF StartCall, SetCall, CallId, agentVars, stateVars, queueVars, flowVars, toolVars
  <2> QED
    BY <2>1, <1>a
<1>26. ASSUME NEW i \in 1..MaxCalls, ImmediateCall(i) PROVE ResultsInv'
  <2>1. /\ pc = "tools" /\ EndCall(i) /\ calls[i] \in {"started", "executing"}
        /\ UNCHANGED <<context, turn, sequential>>
    BY <1>26 DEF ImmediateCall, toolVars
  <2>2. CASE sequential
    <3>1. PICK k \in 0..NumCalls : k < NumCalls /\ i = k + 1 /\ messages = context \o Results(turn, k)
      BY <2>1, <2>2, CallEnds
    <3>2. messages' = Append(messages, Result(turn, k + 1))
      BY <2>1, <2>2, <3>1 DEF EndCall
    <3> QED
      BY <2>1, <3>1, <3>2, <1>d
  <2>3. CASE ~sequential
    BY <2>1, <2>3, <1>a DEF EndCall
  <2> QED
    BY <2>2, <2>3
<1>27. ASSUME NEW i \in 1..MaxCalls, ToolAborted(i) PROVE ResultsInv'
  <2>1. /\ pc = "tools" /\ EndCall(i) /\ calls[i] \in {"started", "executing"}
        /\ UNCHANGED <<context, turn, sequential>>
    BY <1>27 DEF ToolAborted, toolVars
  <2>2. CASE sequential
    <3>1. PICK k \in 0..NumCalls : k < NumCalls /\ i = k + 1 /\ messages = context \o Results(turn, k)
      BY <2>1, <2>2, CallEnds
    <3>2. messages' = Append(messages, Result(turn, k + 1))
      BY <2>1, <2>2, <3>1 DEF EndCall
    <3> QED
      BY <2>1, <3>1, <3>2, <1>d
  <2>3. CASE ~sequential
    BY <2>1, <2>3, <1>a DEF EndCall
  <2> QED
    BY <2>2, <2>3
<1>28. ASSUME LaunchCalls PROVE ResultsInv'
  <2>1. UNCHANGED <<messages, turn>>
    BY <1>28 DEF LaunchCalls, agentVars, stateVars, queueVars, flowVars, toolVars
  <2> QED
    BY <2>1, <1>a
<1>29. ASSUME RecordResult PROVE ResultsInv'
  <2>1. pc = "tools" /\ UNCHANGED turn
    BY <1>29 DEF RecordResult
  <2> QED
    BY <1>29, <2>1, <1>d, ResultRecorded
<1>30. ASSUME FinishBatch PROVE ResultsInv'
  <2>1. UNCHANGED <<messages, turn>>
    BY <1>30 DEF FinishBatch, Goto, agentVars, stateVars, queueVars, flowVars, toolVars
  <2> QED
    BY <2>1, <1>a
<1>31. ASSUME TurnEnd PROVE ResultsInv'
  <2>1. UNCHANGED <<messages, turn>>
    BY <1>31 DEF TurnEnd, EmitAgentEnd, Goto, agentVars, stateVars, queueVars, flowVars, toolVars
  <2> QED
    BY <2>1, <1>a
<1>32. ASSUME StopAfterTurn PROVE ResultsInv'
  <2>1. UNCHANGED <<messages, turn>>
    BY <1>32 DEF StopAfterTurn, EmitAgentEnd, Goto, agentVars, stateVars, queueVars, flowVars, toolVars
  <2> QED
    BY <2>1, <1>a
<1>33. ASSUME GoOnAfterTurn PROVE ResultsInv'
  <2>1. UNCHANGED <<messages, turn>>
    BY <1>33 DEF GoOnAfterTurn, Goto, agentVars, stateVars, queueVars, flowVars, toolVars
  <2> QED
    BY <2>1, <1>a
<1>34. ASSUME SteeringPoll PROVE ResultsInv'
  <2>1. UNCHANGED <<messages, turn>>
    BY <1>34 DEF SteeringPoll, PollSteering, Goto, agentVars, stateVars, queueVars, flowVars, toolVars
  <2> QED
    BY <2>1, <1>a
<1>35. ASSUME AfterSteeringPoll PROVE ResultsInv'
  <2>1. UNCHANGED <<messages, turn>>
    BY <1>35 DEF AfterSteeringPoll, DropPending, EmitAgentEnd, Goto, NoMessages, agentVars,
         stateVars, queueVars, flowVars, toolVars
  <2> QED
    BY <2>1, <1>a
<1>36. ASSUME FollowUpPoll PROVE ResultsInv'
  <2>1. UNCHANGED <<messages, turn>>
    BY <1>36 DEF FollowUpPoll, Goto, agentVars, stateVars, queueVars, flowVars, toolVars
  <2> QED
    BY <2>1, <1>a
<1>37. ASSUME AfterFollowUpPoll PROVE ResultsInv'
  <2>1. UNCHANGED <<messages, turn>>
    BY <1>37 DEF AfterFollowUpPoll, DropPending, EmitAgentEnd, Goto, NoMessages, agentVars,
         stateVars, queueVars, flowVars, toolVars
  <2> QED
    BY <2>1, <1>a
<1>38. ASSUME NoContinuation PROVE ResultsInv'
  <2>1. UNCHANGED <<messages, turn>>
    BY <1>38 DEF NoContinuation, EmitAgentEnd, Goto, agentVars, stateVars, queueVars, flowVars, toolVars
  <2> QED
    BY <2>1, <1>a
<1>39. ASSUME HandleRunFailure PROVE ResultsInv'
  <2>1. /\ turn' = turn + 1
        /\ \E stop \in Stops : messages' = Append(messages, Entry("assistant", turn + 1, 0, stop))
    BY <1>39 DEF HandleRunFailure, Stops
  <2> QED
    BY <2>1, <1>b
<1>40. ASSUME FinishRun PROVE ResultsInv'
  <2>1. UNCHANGED <<messages, turn>>
    BY <1>40 DEF FinishRun, NoLocals, Goto, agentVars, stateVars, queueVars, flowVars, toolVars
  <2> QED
    BY <2>1, <1>a
<1>41. ASSUME UNCHANGED vars PROVE ResultsInv'
  BY <1>41, <1>a DEF vars, stateVars
<1> QED
  BY <1>1, <1>2, <1>3, <1>4, <1>5, <1>6, <1>7, <1>8, <1>9, <1>10, <1>11, <1>12, <1>13, <1>14, <1>15,
       <1>16, <1>17, <1>18, <1>19, <1>20, <1>21, <1>22, <1>23, <1>24, <1>25, <1>26, <1>27, <1>28,
       <1>29, <1>30, <1>31, <1>32, <1>33, <1>34, <1>35, <1>36, <1>37, <1>38, <1>39, <1>40, <1>41 DEF
       Next, External, Internal

-----------------------------------------------------------------------------
(* Every call of the last turn is answered.                                *)

(* A message without calls needs no answer.                                *)
LEMMA NothingToAnswer ==
    ASSUME TypeOK, IdsBounded, NEW stop \in Stops, turn' = turn + 1,
           messages' = Append(messages, Entry("assistant", turn + 1, 0, stop))
    PROVE  Answered'
<1> DEFINE x == Entry("assistant", turn + 1, 0, stop)
<1>1. x \in EntrySet /\ turn \in Nat /\ messages \in Seq(EntrySet)
  BY EntryTypes DEF TypeOK
<1>2. x.role = "assistant" /\ x.id = turn + 1 /\ x.n = 0
  BY DEF Entry
<1> HIDE DEF x
<1> PICK p \in Nat : p = Len(messages) + 1
  BY <1>1
<1>3. /\ Len(messages') = p /\ DOMAIN messages' = 1..p /\ messages'[p] = x
      /\ \A q \in 1..(p - 1) : messages'[q] = messages[q] /\ q \in DOMAIN messages
  BY <1>1, Recording DEF x
<1>4. OlderBefore(p)'
  BY <1>1, <1>3 DEF OlderBefore, IdsBounded
<1>5. AnsweredAt(p)'
  BY <1>2, <1>3, <1>4 DEF AnsweredAt
<1>6. p \in DOMAIN messages'
  BY <1>1, <1>3
<1> QED
  BY <1>5, <1>6 DEF Answered

(* A batch that is over, and was not cut short, is answered.               *)
LEMMA BatchAnswered ==
    ASSUME TypeOK, BatchInv, FinishBatch, ~aborted
    PROVE  Answered'
<1>1. messages' = messages /\ turn' = turn /\ pc = "tools" /\ messages = context \o Results(turn, NumCalls)
  BY BatchEnds DEF FinishBatch
<1>2. /\ context \in Seq(EntrySet) /\ context # <<>> /\ turn \in Nat /\ NumCalls \in Nat
      /\ Last(context).role = "assistant" /\ Last(context).id = turn /\ OlderBefore(Len(context))
  BY <1>1, LoopAssumption DEF BatchInv, TypeOK
<1>a. \A n \in Nat :
        /\ Len(context \o Results(turn, n)) = Len(context) + n
        /\ \A i \in 1..Len(context) : (context \o Results(turn, n))[i] = context[i]
        /\ \A i \in 1..n : (context \o Results(turn, n))[Len(context) + i] = Result(turn, i)
  BY <1>2, ResultsBehind
<1> PICK p \in Nat \ {0} : p = Len(context)
  BY <1>2
<1> PICK n \in Nat : n = NumCalls
  BY <1>2
<1>3. context[p].role = "assistant" /\ context[p].id = turn /\ context[p].n = n
  BY <1>2 DEF Last, NumCalls
<1>4. Len(messages) = p + n /\ messages[p] = context[p] /\ \A i \in 1..n : messages[p + i] = Result(turn, i)
  <2> DEFINE r == context \o Results(turn, n)
  <2>1. /\ Len(r) = Len(context) + n /\ \A i \in 1..Len(context) : r[i] = context[i]
        /\ \A i \in 1..n : r[Len(context) + i] = Result(turn, i)
    BY <1>a
  <2>2. messages = r /\ p \in 1..Len(context)
    BY <1>1
  <2> HIDE DEF r
  <2> QED
    BY <2>1, <2>2
<1>5. \A i \in 1..n : Result(turn, i).role = "result" /\ Result(turn, i).id = turn
  BY DEF Result, Entry
<1>6. \A q \in (p + 1)..(p + n) : messages[q].role = "result" /\ messages[q].id = turn
  <2> TAKE q \in (p + 1)..(p + n)
  <2>1. q - p \in 1..n /\ p + (q - p) = q
    OBVIOUS
  <2> QED
    BY <1>4, <1>5, <2>1
<1>7. AnsweredAt(p)
  BY <1>2, <1>3, <1>4, <1>6 DEF AnsweredAt
<1>8. p \in DOMAIN messages
  <2>1. messages \in Seq(EntrySet)
    BY DEF TypeOK
  <2> QED
    BY <1>4, <2>1
<1>9. Answered
  BY <1>7, <1>8 DEF Answered
<1> QED
  BY <1>1, <1>9 DEF Answered, AnsweredAt, OlderBefore

(* No step lets a run go on to another turn while a call of the last one   *)
(* is unanswered.                                                          *)
LEMMA AnsweredStep ==
    ASSUME TypeOK, HoldInv, TranscriptAgrees, IdsBounded, BatchInv, TurnAnswered, [Next]_vars
    PROVE  TurnAnswered'
<1>a. ASSUME UNCHANGED <<messages, turn>>, Answered PROVE Answered'
  BY <1>a DEF Answered, AnsweredAt, OlderBefore
<1>1. ASSUME NEW m \in fresh, Steer(m) PROVE TurnAnswered'
  <2>1. UNCHANGED <<pc, firstTurn, messages, turn>> /\ (aborted => aborted')
    BY <1>1 DEF Steer, agentVars, stateVars, queueVars, flowVars, toolVars
  <2> QED
    BY <2>1, <1>a DEF TurnAnswered
<1>2. ASSUME NEW m \in fresh, FollowUp(m) PROVE TurnAnswered'
  <2>1. UNCHANGED <<pc, firstTurn, messages, turn>> /\ (aborted => aborted')
    BY <1>2 DEF FollowUp, agentVars, stateVars, queueVars, flowVars, toolVars
  <2> QED
    BY <2>1, <1>a DEF TurnAnswered
<1>3. ASSUME NEW m \in fresh, Prompt(m) PROVE TurnAnswered'
  <2>1. pc' \notin Between /\ pc' # "turnEnd"
    BY <1>3 DEF Prompt, BeginRun, Goto, agentVars, stateVars, queueVars, flowVars, toolVars, Between
  <2> QED
    BY <2>1 DEF TurnAnswered
<1>4. ASSUME NEW m \in fresh, TakeContinuation(m) PROVE TurnAnswered'
  <2>1. UNCHANGED <<messages, turn, firstTurn>> /\ pc' # "turnEnd"
    BY <1>4 DEF TakeContinuation, Goto, agentVars, stateVars, queueVars, flowVars, toolVars
  <2>2. pc \in Between
    BY <1>4 DEF TakeContinuation, Goto, agentVars, stateVars, queueVars, flowVars, toolVars, Between
  <2> QED
    BY <2>1, <2>2, <1>a DEF TurnAnswered
<1>5. ASSUME NEW m \in Msg, RemoveQueued(m) PROVE TurnAnswered'
  <2>1. UNCHANGED <<pc, firstTurn, messages, turn>> /\ (aborted => aborted')
    BY <1>5 DEF RemoveQueued, agentVars, stateVars, queueVars, flowVars, toolVars
  <2> QED
    BY <2>1, <1>a DEF TurnAnswered
<1>6. ASSUME Continue PROVE TurnAnswered'
  <2>1. pc' \notin Between /\ pc' # "turnEnd"
    BY <1>6 DEF Continue, BeginRun, Goto, agentVars, stateVars, queueVars, flowVars, toolVars, Between
  <2> QED
    BY <2>1 DEF TurnAnswered
<1>7. ASSUME Abort PROVE TurnAnswered'
  <2>1. UNCHANGED <<pc, firstTurn, messages, turn>> /\ (aborted => aborted')
    BY <1>7 DEF Abort, agentVars, stateVars, queueVars, flowVars, toolVars
  <2> QED
    BY <2>1, <1>a DEF TurnAnswered
<1>8. ASSUME RouteReflex PROVE TurnAnswered'
  <2>1. pc' = "tools"
    BY <1>8 DEF RouteReflex, Record, NewCalls, Goto, agentVars, stateVars, queueVars, flowVars, toolVars
  <2> QED
    BY <2>1 DEF TurnAnswered, Between
<1>9. ASSUME StreamStart PROVE TurnAnswered'
  <2>1. pc' \notin Between /\ pc' # "turnEnd"
    BY <1>9 DEF StreamStart, agentVars, stateVars, queueVars, flowVars, toolVars, Between
  <2> QED
    BY <2>1 DEF TurnAnswered
<1>10. ASSUME StreamError PROVE TurnAnswered'
  <2>1. pc' \notin Between /\ pc' # "turnEnd"
    BY <1>10 DEF StreamError, FinishStream, NewCalls, EmitAgentEnd, Goto, agentVars, stateVars,
         queueVars, flowVars, toolVars, Between
  <2> QED
    BY <2>1 DEF TurnAnswered
<1>11. ASSUME NEW n \in 0..MaxCalls, StreamDone(n) PROVE TurnAnswered'
  <2>1. CASE n = 0
    <3>1. /\ turn' = turn + 1 /\ "stop" \in Stops
          /\ messages' = Append(messages, Entry("assistant", turn + 1, 0, "stop"))
      BY <1>11, <2>1 DEF StreamDone, FinishStream, NewCalls, Goto, agentVars, stateVars,
           queueVars, flowVars, toolVars, Stops
    <3>2. Answered'
      BY <3>1, NothingToAnswer
    <3> QED
      BY <3>2 DEF TurnAnswered
  <2>2. CASE n # 0
    <3>1. pc' = "tools"
      BY <1>11, <2>2 DEF StreamDone, Goto
    <3> QED
      BY <3>1 DEF TurnAnswered, Between
  <2> QED
    BY <2>1, <2>2
<1>12. ASSUME NEW i \in 1..MaxCalls, PrepareCall(i) PROVE TurnAnswered'
  <2>1. pc' = "tools"
    BY <1>12 DEF PrepareCall, SetCall, agentVars, stateVars, queueVars, flowVars, toolVars
  <2> QED
    BY <2>1 DEF TurnAnswered, Between
<1>13. ASSUME NEW i \in 1..MaxCalls, ToolReturns(i) PROVE TurnAnswered'
  <2>1. pc' = "tools"
    BY <1>13 DEF ToolReturns, EndCall, SetCall, CallId, agentVars, stateVars, queueVars, flowVars, toolVars
  <2> QED
    BY <2>1 DEF TurnAnswered, Between
<1>14. ASSUME NEW i \in 1..MaxCalls, ToolEndThrows(i) PROVE TurnAnswered'
  <2>1. pc' \notin Between /\ pc' # "turnEnd"
    BY <1>14 DEF ToolEndThrows, Goto, CallId, agentVars, stateVars, queueVars, flowVars, toolVars, Between
  <2> QED
    BY <2>1 DEF TurnAnswered
<1>15. ASSUME NEW z \in zombies, ZombieEnds(z) PROVE TurnAnswered'
  <2>1. UNCHANGED <<pc, firstTurn, messages, turn>> /\ (aborted => aborted')
    BY <1>15 DEF ZombieEnds, agentVars, stateVars, queueVars, flowVars, toolVars
  <2> QED
    BY <2>1, <1>a DEF TurnAnswered
<1>16. ASSUME RunThrows PROVE TurnAnswered'
  <2>1. pc' \notin Between /\ pc' # "turnEnd"
    BY <1>16 DEF RunThrows, DropPending, Goto, agentVars, stateVars, queueVars, flowVars, toolVars, Between
  <2> QED
    BY <2>1 DEF TurnAnswered
<1>17. ASSUME EmitPrompt PROVE TurnAnswered'
  <2>1. pc' \notin Between /\ pc' # "turnEnd"
    BY <1>17 DEF EmitPrompt, Record, Goto, agentVars, stateVars, queueVars, flowVars, toolVars, Between
  <2> QED
    BY <2>1 DEF TurnAnswered
<1>18. ASSUME FirstPoll PROVE TurnAnswered'
  <2>1. pc' \notin Between /\ pc' # "turnEnd"
    BY <1>18 DEF FirstPoll, PollSteering, Goto, agentVars, stateVars, queueVars, flowVars, toolVars, Between
  <2> QED
    BY <2>1 DEF TurnAnswered
<1>19. ASSUME EnterLoop PROVE TurnAnswered'
  <2>1. firstTurn' /\ pc' # "turnEnd"
    BY <1>19 DEF EnterLoop, DropPending, Goto, agentVars, stateVars, queueVars, flowVars, toolVars, HoldInv
  <2> QED
    BY <2>1 DEF TurnAnswered
<1>20. ASSUME LeaveInner PROVE TurnAnswered'
  <2>1. UNCHANGED <<messages, turn, firstTurn>> /\ pc' # "turnEnd"
    BY <1>20 DEF LeaveInner, EmitAgentEnd, Goto, NoMessages, agentVars, stateVars, queueVars,
         flowVars, toolVars
  <2>2. pc \in Between
    BY <1>20 DEF LeaveInner, EmitAgentEnd, Goto, NoMessages, agentVars, stateVars, queueVars,
         flowVars, toolVars, Between
  <2> QED
    BY <2>1, <2>2, <1>a DEF TurnAnswered
<1>21. ASSUME EnterTurn PROVE TurnAnswered'
  <2>1. UNCHANGED <<messages, turn, firstTurn>> /\ pc' # "turnEnd"
    BY <1>21 DEF EnterTurn, DropPending, Goto, NoMessages, agentVars, stateVars, queueVars, flowVars, toolVars
  <2>2. pc \in Between
    BY <1>21 DEF EnterTurn, DropPending, Goto, NoMessages, agentVars, stateVars, queueVars,
         flowVars, toolVars, Between
  <2> QED
    BY <2>1, <2>2, <1>a DEF TurnAnswered
<1>22. ASSUME RouteNone PROVE TurnAnswered'
  <2>1. pc' \notin Between /\ pc' # "turnEnd"
    BY <1>22 DEF RouteNone, Goto, agentVars, stateVars, queueVars, flowVars, toolVars, Between
  <2> QED
    BY <2>1 DEF TurnAnswered
<1>23. ASSUME Inject PROVE TurnAnswered'
  <2>1. pc' \notin Between /\ pc' # "turnEnd"
    BY <1>23 DEF Inject, Record, Goto, NoMessages, agentVars, stateVars, queueVars, flowVars,
         toolVars, Between
  <2> QED
    BY <2>1 DEF TurnAnswered
<1>24. ASSUME StreamAborted PROVE TurnAnswered'
  <2>1. pc' \notin Between /\ pc' # "turnEnd"
    BY <1>24 DEF StreamAborted, FinishStream, NewCalls, EmitAgentEnd, Goto, agentVars, stateVars,
         queueVars, flowVars, toolVars, Between
  <2> QED
    BY <2>1 DEF TurnAnswered
<1>25. ASSUME NEW i \in 1..MaxCalls, StartCall(i) PROVE TurnAnswered'
  <2>1. pc' = "tools"
    BY <1>25 DEF StartCall, SetCall, CallId, agentVars, stateVars, queueVars, flowVars, toolVars
  <2> QED
    BY <2>1 DEF TurnAnswered, Between
<1>26. ASSUME NEW i \in 1..MaxCalls, ImmediateCall(i) PROVE TurnAnswered'
  <2>1. pc' = "tools"
    BY <1>26 DEF ImmediateCall, EndCall, SetCall, CallId, agentVars, stateVars, queueVars, flowVars, toolVars
  <2> QED
    BY <2>1 DEF TurnAnswered, Between
<1>27. ASSUME NEW i \in 1..MaxCalls, ToolAborted(i) PROVE TurnAnswered'
  <2>1. pc' = "tools"
    BY <1>27 DEF ToolAborted, EndCall, SetCall, CallId, agentVars, stateVars, queueVars, flowVars, toolVars
  <2> QED
    BY <2>1 DEF TurnAnswered, Between
<1>28. ASSUME LaunchCalls PROVE TurnAnswered'
  <2>1. pc' = "tools"
    BY <1>28 DEF LaunchCalls, agentVars, stateVars, queueVars, flowVars, toolVars
  <2> QED
    BY <2>1 DEF TurnAnswered, Between
<1>29. ASSUME RecordResult PROVE TurnAnswered'
  <2>1. pc' = "tools"
    BY <1>29 DEF RecordResult, agentVars, stateVars, queueVars, flowVars, toolVars
  <2> QED
    BY <2>1 DEF TurnAnswered, Between
<1>30. ASSUME FinishBatch PROVE TurnAnswered'
  <2>1. pc' = "turnEnd" /\ aborted' = aborted
    BY <1>30 DEF FinishBatch, Goto, agentVars, stateVars, queueVars, flowVars, toolVars
  <2> QED
    BY <1>30, <2>1, BatchAnswered DEF TurnAnswered, Between
<1>31. ASSUME TurnEnd PROVE TurnAnswered'
  <2>1. UNCHANGED <<messages, turn>> /\ pc = "turnEnd" /\ pc' # "turnEnd" /\ (aborted => pc' \notin Between)
    BY <1>31 DEF TurnEnd, EmitAgentEnd, Goto, agentVars, stateVars, queueVars, flowVars, toolVars, Between
  <2> QED
    BY <2>1, <1>a DEF TurnAnswered
<1>32. ASSUME StopAfterTurn PROVE TurnAnswered'
  <2>1. UNCHANGED <<messages, turn, firstTurn>> /\ pc' # "turnEnd"
    BY <1>32 DEF StopAfterTurn, EmitAgentEnd, Goto, agentVars, stateVars, queueVars, flowVars, toolVars
  <2>2. pc \in Between
    BY <1>32 DEF StopAfterTurn, EmitAgentEnd, Goto, agentVars, stateVars, queueVars, flowVars,
         toolVars, Between
  <2> QED
    BY <2>1, <2>2, <1>a DEF TurnAnswered
<1>33. ASSUME GoOnAfterTurn PROVE TurnAnswered'
  <2>1. UNCHANGED <<messages, turn, firstTurn>> /\ pc' # "turnEnd"
    BY <1>33 DEF GoOnAfterTurn, Goto, agentVars, stateVars, queueVars, flowVars, toolVars
  <2>2. pc \in Between
    BY <1>33 DEF GoOnAfterTurn, Goto, agentVars, stateVars, queueVars, flowVars, toolVars, Between
  <2> QED
    BY <2>1, <2>2, <1>a DEF TurnAnswered
<1>34. ASSUME SteeringPoll PROVE TurnAnswered'
  <2>1. UNCHANGED <<messages, turn, firstTurn>> /\ pc' # "turnEnd"
    BY <1>34 DEF SteeringPoll, PollSteering, Goto, agentVars, stateVars, queueVars, flowVars, toolVars
  <2>2. pc \in Between
    BY <1>34 DEF SteeringPoll, PollSteering, Goto, agentVars, stateVars, queueVars, flowVars,
         toolVars, Between
  <2> QED
    BY <2>1, <2>2, <1>a DEF TurnAnswered
<1>35. ASSUME AfterSteeringPoll PROVE TurnAnswered'
  <2>1. UNCHANGED <<messages, turn, firstTurn>> /\ pc' # "turnEnd"
    BY <1>35 DEF AfterSteeringPoll, DropPending, EmitAgentEnd, Goto, NoMessages, agentVars,
         stateVars, queueVars, flowVars, toolVars
  <2>2. pc \in Between
    BY <1>35 DEF AfterSteeringPoll, DropPending, EmitAgentEnd, Goto, NoMessages, agentVars,
         stateVars, queueVars, flowVars, toolVars, Between
  <2> QED
    BY <2>1, <2>2, <1>a DEF TurnAnswered
<1>36. ASSUME FollowUpPoll PROVE TurnAnswered'
  <2>1. UNCHANGED <<messages, turn, firstTurn>> /\ pc' # "turnEnd"
    BY <1>36 DEF FollowUpPoll, Goto, agentVars, stateVars, queueVars, flowVars, toolVars
  <2>2. pc \in Between
    BY <1>36 DEF FollowUpPoll, Goto, agentVars, stateVars, queueVars, flowVars, toolVars, Between
  <2> QED
    BY <2>1, <2>2, <1>a DEF TurnAnswered
<1>37. ASSUME AfterFollowUpPoll PROVE TurnAnswered'
  <2>1. UNCHANGED <<messages, turn, firstTurn>> /\ pc' # "turnEnd"
    BY <1>37 DEF AfterFollowUpPoll, DropPending, EmitAgentEnd, Goto, NoMessages, agentVars,
         stateVars, queueVars, flowVars, toolVars
  <2>2. pc \in Between
    BY <1>37 DEF AfterFollowUpPoll, DropPending, EmitAgentEnd, Goto, NoMessages, agentVars,
         stateVars, queueVars, flowVars, toolVars, Between
  <2> QED
    BY <2>1, <2>2, <1>a DEF TurnAnswered
<1>38. ASSUME NoContinuation PROVE TurnAnswered'
  <2>1. UNCHANGED <<messages, turn, firstTurn>> /\ pc' # "turnEnd"
    BY <1>38 DEF NoContinuation, EmitAgentEnd, Goto, agentVars, stateVars, queueVars, flowVars, toolVars
  <2>2. pc \in Between
    BY <1>38 DEF NoContinuation, EmitAgentEnd, Goto, agentVars, stateVars, queueVars, flowVars,
         toolVars, Between
  <2> QED
    BY <2>1, <2>2, <1>a DEF TurnAnswered
<1>39. ASSUME HandleRunFailure PROVE TurnAnswered'
  <2>1. pc' \notin Between /\ pc' # "turnEnd"
    BY <1>39 DEF HandleRunFailure, Goto, agentVars, stateVars, queueVars, flowVars, toolVars, Between
  <2> QED
    BY <2>1 DEF TurnAnswered
<1>40. ASSUME FinishRun PROVE TurnAnswered'
  <2>1. pc' \notin Between /\ pc' # "turnEnd"
    BY <1>40 DEF FinishRun, NoLocals, Goto, agentVars, stateVars, queueVars, flowVars, toolVars, Between
  <2> QED
    BY <2>1 DEF TurnAnswered
<1>41. ASSUME UNCHANGED vars PROVE TurnAnswered'
  <2>1. UNCHANGED <<pc, aborted, firstTurn, messages, turn>>
    BY <1>41 DEF vars, agentVars, stateVars, flowVars
  <2> QED
    BY <2>1, <1>a DEF TurnAnswered
<1> QED
  BY <1>1, <1>2, <1>3, <1>4, <1>5, <1>6, <1>7, <1>8, <1>9, <1>10, <1>11, <1>12, <1>13, <1>14, <1>15,
       <1>16, <1>17, <1>18, <1>19, <1>20, <1>21, <1>22, <1>23, <1>24, <1>25, <1>26, <1>27, <1>28,
       <1>29, <1>30, <1>31, <1>32, <1>33, <1>34, <1>35, <1>36, <1>37, <1>38, <1>39, <1>40, <1>41 DEF
       Next, External, Internal

-----------------------------------------------------------------------------
(* The inductive invariant of the agent loop: besides the types and the    *)
(* three safety properties, where messages taken from a queue may be held, *)
(* how the transcript and the copy differ while tools run, and that no     *)
(* recorded entry belongs to a turn that has not started.                  *)
THEOREM LoopInvariant == Spec => []LoopInv
<1>1. Init => LoopInv
  <2> SUFFICES ASSUME Init PROVE LoopInv
    OBVIOUS
  <2>1. ControlType /\ QueueType /\ TranscriptType
    <3>1. ControlType
      BY DEF Init, ControlType, Labels
    <3>2. QueueType
      BY DEF Init, QueueType
    <3>3. TranscriptType
      BY DEF Init, TranscriptType
    <3> QED
      BY <3>1, <3>2, <3>3
  <2>2. ToolType
    BY LoopAssumption DEF Init, ToolType
  <2>3. TypeOK
    BY <2>1, <2>2, TypeParts
  <2>4. HoldInv /\ TranscriptAgrees /\ BatchInv /\ TurnAnswered
    BY DEF Init, HoldInv, TranscriptAgrees, BatchInv, TurnAnswered, Between
  <2>5. IdsBounded /\ ResultsFollowCalls
    BY DEF Init, IdsBounded, ResultsFollowCalls
  <2> QED
    BY <2>3, <2>4, <2>5 DEF LoopInv
<1>2. LoopInv /\ [Next]_vars => LoopInv'
  <2> SUFFICES ASSUME LoopInv, [Next]_vars PROVE LoopInv'
    OBVIOUS
  <2>1. TypeOK /\ HoldInv /\ TranscriptAgrees /\ BatchInv /\ IdsBounded /\ ResultsFollowCalls /\ TurnAnswered
    BY DEF LoopInv
  <2>2. ControlType /\ QueueType /\ TranscriptType /\ ToolType
    BY <2>1, TypeParts
  <2>3. ControlType' /\ QueueType' /\ TranscriptType' /\ ToolType'
    BY <2>1, <2>2, ControlStep, QueueStep, TranscriptStep, ToolStep
  <2>4. TypeOK'
    BY <2>3, TypePartsNext
  <2>5. HoldInv'
    BY <2>1, HoldStep
  <2>6. TranscriptAgrees'
    BY <2>1, AgreeStep
  <2>7. BatchInv'
    BY <2>1, BatchStep
  <2>8. IdsBounded' /\ ResultsFollowCalls'
    BY <2>1, ResultsStep DEF ResultsInv
  <2>9. TurnAnswered'
    BY <2>1, AnsweredStep
  <2> QED
    BY <2>4, <2>5, <2>6, <2>7, <2>8, <2>9 DEF LoopInv
<1> QED
  BY <1>1, <1>2, PTL DEF Spec

(* Every value has its type, whatever the queue modes and batch sizes.     *)
THEOREM LoopTypeCorrect == Spec => []TypeOK
<1>1. LoopInv => TypeOK
  BY DEF LoopInv
<1> QED
  BY <1>1, LoopInvariant, PTL

(* What the provider is sent is what the transcript says, at every         *)
(* boundary between turns and whatever was aborted, dropped or thrown.     *)
THEOREM CopiesAgree == Spec => []TranscriptAgrees
<1>1. LoopInv => TranscriptAgrees
  BY DEF LoopInv
<1> QED
  BY <1>1, LoopInvariant, PTL

(* Results stand behind their assistant message in call order, in          *)
(* sequential and in parallel batches of any size.                         *)
THEOREM ResultsInOrder == Spec => []ResultsFollowCalls
<1>1. LoopInv => ResultsFollowCalls
  BY DEF LoopInv
<1> QED
  BY <1>1, LoopInvariant, PTL

(* A run goes on to another turn only when every tool call is answered.    *)
THEOREM CallsAnswered == Spec => []NoDanglingCall
<1>1. LoopInv => NoDanglingCall
  <2> SUFFICES ASSUME LoopInv, pc \in {"stopCheck", "inner", "route"}, ~firstTurn,
                      NEW p \in DOMAIN messages, messages[p].role = "assistant", messages[p].id = turn
               PROVE  Cardinality({q \in DOMAIN messages :
                         messages[q].role = "result" /\ messages[q].id = turn}) = messages[p].n
    BY DEF NoDanglingCall
  <2>1. messages \in Seq(EntrySet) /\ turn \in Nat /\ Answered
    BY DEF LoopInv, TypeOK, TurnAnswered, Between
  <2>2. DOMAIN messages = 1..Len(messages) /\ Len(messages) \in Nat
    BY <2>1
  <2>3. PICK r \in 1..Len(messages) : AnsweredAt(r)
    BY <2>1, <2>2 DEF Answered
  <2>4. /\ OlderBefore(r) /\ Len(messages) = r + messages[r].n /\ messages[r].role = "assistant"
        /\ \A q \in (r + 1)..Len(messages) : messages[q].role = "result" /\ messages[q].id = turn
    BY <2>3 DEF AnsweredAt
  <2>5. messages[r].n \in Nat
    <3>1. messages[r] \in EntrySet
      BY <2>1, <2>3
    <3> QED
      BY <3>1 DEF EntrySet
  <2>6. \A q \in 1..(r - 1) : messages[q].role # "user" => messages[q].id # turn
    BY <2>1, <2>4 DEF OlderBefore
  <2>7. p = r
    <3>1. ~(p \in 1..(r - 1)) /\ ~(p \in (r + 1)..Len(messages))
      BY <2>4, <2>6
    <3> QED
      BY <2>2, <2>3, <3>1
  <2> DEFINE R == {q \in DOMAIN messages : messages[q].role = "result" /\ messages[q].id = turn}
  <2>8. R = (r + 1)..Len(messages)
    <3>1. \A q \in R : q \in 1..Len(messages) /\ q # r /\ q \notin 1..(r - 1)
      BY <2>2, <2>4, <2>6
    <3>2. \A q \in (r + 1)..Len(messages) : q \in R
      BY <2>2, <2>3, <2>4
    <3> HIDE DEF R
    <3>3. \A q \in R : q \in (r + 1)..Len(messages)
      BY <2>2, <2>3, <3>1
    <3> QED
      BY <3>2, <3>3
  <2> HIDE DEF R
  <2>9. Cardinality(R) = IF r + 1 > Len(messages) THEN 0 ELSE Len(messages) - (r + 1) + 1
    <3>1. r + 1 \in Int /\ Len(messages) \in Int
      BY <2>2, <2>3
    <3>2. \A a, b \in Int : Cardinality(a..b) = IF a > b THEN 0 ELSE b - a + 1
      BY FS_Interval
    <3> QED
      BY <2>8, <3>1, <3>2
  <2>10. Cardinality(R) = messages[r].n
    BY <2>2, <2>3, <2>4, <2>5, <2>9
  <2> QED
    BY <2>7, <2>10 DEF R
<1> QED
  BY <1>1, LoopInvariant, PTL

(* The only steps that drop drained messages are those of an aborted run   *)
(* and those that fail it.                                                 *)
LEMMA LossStep ==
    ASSUME TypeOK, [Next]_vars
    PROVE  lost' # lost => aborted \/ failures' # failures
<1>0. failures \in Nat
  BY DEF TypeOK
<1>1. ASSUME NEW m \in fresh, Steer(m) PROVE lost' # lost => aborted \/ failures' # failures
  BY <1>1 DEF Steer, agentVars, stateVars, queueVars, flowVars, toolVars
<1>2. ASSUME NEW m \in fresh, FollowUp(m) PROVE lost' # lost => aborted \/ failures' # failures
  BY <1>2 DEF FollowUp, agentVars, stateVars, queueVars, flowVars, toolVars
<1>3. ASSUME NEW m \in fresh, Prompt(m) PROVE lost' # lost => aborted \/ failures' # failures
  BY <1>3 DEF Prompt, BeginRun, Goto, agentVars, stateVars, queueVars, flowVars, toolVars
<1>4. ASSUME NEW m \in fresh, TakeContinuation(m) PROVE lost' # lost => aborted \/ failures' # failures
  BY <1>4 DEF TakeContinuation, Goto, agentVars, stateVars, queueVars, flowVars, toolVars
<1>5. ASSUME NEW m \in Msg, RemoveQueued(m) PROVE lost' # lost => aborted \/ failures' # failures
  BY <1>5 DEF RemoveQueued, agentVars, stateVars, queueVars, flowVars, toolVars
<1>6. ASSUME Continue PROVE lost' # lost => aborted \/ failures' # failures
  BY <1>6 DEF Continue, BeginRun, Goto, agentVars, stateVars, queueVars, flowVars, toolVars
<1>7. ASSUME Abort PROVE lost' # lost => aborted \/ failures' # failures
  BY <1>7 DEF Abort, agentVars, stateVars, queueVars, flowVars, toolVars
<1>8. ASSUME RouteReflex PROVE lost' # lost => aborted \/ failures' # failures
  BY <1>8 DEF RouteReflex, Record, NewCalls, Goto, agentVars, stateVars, queueVars, flowVars, toolVars
<1>9. ASSUME StreamStart PROVE lost' # lost => aborted \/ failures' # failures
  BY <1>9 DEF StreamStart, agentVars, stateVars, queueVars, flowVars, toolVars
<1>10. ASSUME StreamError PROVE lost' # lost => aborted \/ failures' # failures
  BY <1>10 DEF StreamError, FinishStream, NewCalls, EmitAgentEnd, Goto, agentVars, stateVars,
       queueVars, flowVars, toolVars
<1>11. ASSUME NEW n \in 0..MaxCalls, StreamDone(n) PROVE lost' # lost => aborted \/ failures' # failures
  BY <1>11 DEF StreamDone, FinishStream, NewCalls, Goto, agentVars, stateVars, queueVars, flowVars, toolVars
<1>12. ASSUME NEW i \in 1..MaxCalls, PrepareCall(i) PROVE lost' # lost => aborted \/ failures' # failures
  BY <1>12 DEF PrepareCall, SetCall, agentVars, stateVars, queueVars, flowVars, toolVars
<1>13. ASSUME NEW i \in 1..MaxCalls, ToolReturns(i) PROVE lost' # lost => aborted \/ failures' # failures
  BY <1>13 DEF ToolReturns, EndCall, SetCall, CallId, agentVars, stateVars, queueVars, flowVars, toolVars
<1>14. ASSUME NEW i \in 1..MaxCalls, ToolEndThrows(i) PROVE lost' # lost => aborted \/ failures' # failures
  BY <1>14, <1>0 DEF ToolEndThrows, Goto, CallId, agentVars, stateVars, queueVars, flowVars, toolVars
<1>15. ASSUME NEW z \in zombies, ZombieEnds(z) PROVE lost' # lost => aborted \/ failures' # failures
  BY <1>15 DEF ZombieEnds, agentVars, stateVars, queueVars, flowVars, toolVars
<1>16. ASSUME RunThrows PROVE lost' # lost => aborted \/ failures' # failures
  BY <1>16, <1>0 DEF RunThrows, DropPending, Goto, agentVars, stateVars, queueVars, flowVars, toolVars
<1>17. ASSUME EmitPrompt PROVE lost' # lost => aborted \/ failures' # failures
  BY <1>17 DEF EmitPrompt, Record, Goto, agentVars, stateVars, queueVars, flowVars, toolVars
<1>18. ASSUME FirstPoll PROVE lost' # lost => aborted \/ failures' # failures
  BY <1>18 DEF FirstPoll, PollSteering, Goto, agentVars, stateVars, queueVars, flowVars, toolVars
<1>19. ASSUME EnterLoop PROVE lost' # lost => aborted \/ failures' # failures
  BY <1>19 DEF EnterLoop, DropPending, Goto, agentVars, stateVars, queueVars, flowVars, toolVars
<1>20. ASSUME LeaveInner PROVE lost' # lost => aborted \/ failures' # failures
  BY <1>20 DEF LeaveInner, EmitAgentEnd, Goto, NoMessages, agentVars, stateVars, queueVars, flowVars, toolVars
<1>21. ASSUME EnterTurn PROVE lost' # lost => aborted \/ failures' # failures
  BY <1>21 DEF EnterTurn, DropPending, Goto, NoMessages, agentVars, stateVars, queueVars, flowVars, toolVars
<1>22. ASSUME RouteNone PROVE lost' # lost => aborted \/ failures' # failures
  BY <1>22 DEF RouteNone, Goto, agentVars, stateVars, queueVars, flowVars, toolVars
<1>23. ASSUME Inject PROVE lost' # lost => aborted \/ failures' # failures
  BY <1>23 DEF Inject, Record, Goto, NoMessages, agentVars, stateVars, queueVars, flowVars, toolVars
<1>24. ASSUME StreamAborted PROVE lost' # lost => aborted \/ failures' # failures
  BY <1>24 DEF StreamAborted, FinishStream, NewCalls, EmitAgentEnd, Goto, agentVars, stateVars,
       queueVars, flowVars, toolVars
<1>25. ASSUME NEW i \in 1..MaxCalls, StartCall(i) PROVE lost' # lost => aborted \/ failures' # failures
  BY <1>25 DEF StartCall, SetCall, CallId, agentVars, stateVars, queueVars, flowVars, toolVars
<1>26. ASSUME NEW i \in 1..MaxCalls, ImmediateCall(i) PROVE lost' # lost => aborted \/ failures' # failures
  BY <1>26 DEF ImmediateCall, EndCall, SetCall, CallId, agentVars, stateVars, queueVars, flowVars, toolVars
<1>27. ASSUME NEW i \in 1..MaxCalls, ToolAborted(i) PROVE lost' # lost => aborted \/ failures' # failures
  BY <1>27 DEF ToolAborted, EndCall, SetCall, CallId, agentVars, stateVars, queueVars, flowVars, toolVars
<1>28. ASSUME LaunchCalls PROVE lost' # lost => aborted \/ failures' # failures
  BY <1>28 DEF LaunchCalls, agentVars, stateVars, queueVars, flowVars, toolVars
<1>29. ASSUME RecordResult PROVE lost' # lost => aborted \/ failures' # failures
  BY <1>29 DEF RecordResult, agentVars, stateVars, queueVars, flowVars, toolVars
<1>30. ASSUME FinishBatch PROVE lost' # lost => aborted \/ failures' # failures
  BY <1>30 DEF FinishBatch, Goto, agentVars, stateVars, queueVars, flowVars, toolVars
<1>31. ASSUME TurnEnd PROVE lost' # lost => aborted \/ failures' # failures
  BY <1>31 DEF TurnEnd, EmitAgentEnd, Goto, agentVars, stateVars, queueVars, flowVars, toolVars
<1>32. ASSUME StopAfterTurn PROVE lost' # lost => aborted \/ failures' # failures
  BY <1>32 DEF StopAfterTurn, EmitAgentEnd, Goto, agentVars, stateVars, queueVars, flowVars, toolVars
<1>33. ASSUME GoOnAfterTurn PROVE lost' # lost => aborted \/ failures' # failures
  BY <1>33 DEF GoOnAfterTurn, Goto, agentVars, stateVars, queueVars, flowVars, toolVars
<1>34. ASSUME SteeringPoll PROVE lost' # lost => aborted \/ failures' # failures
  BY <1>34 DEF SteeringPoll, PollSteering, Goto, agentVars, stateVars, queueVars, flowVars, toolVars
<1>35. ASSUME AfterSteeringPoll PROVE lost' # lost => aborted \/ failures' # failures
  BY <1>35 DEF AfterSteeringPoll, DropPending, EmitAgentEnd, Goto, NoMessages, agentVars, stateVars,
       queueVars, flowVars, toolVars
<1>36. ASSUME FollowUpPoll PROVE lost' # lost => aborted \/ failures' # failures
  BY <1>36 DEF FollowUpPoll, Goto, agentVars, stateVars, queueVars, flowVars, toolVars
<1>37. ASSUME AfterFollowUpPoll PROVE lost' # lost => aborted \/ failures' # failures
  BY <1>37 DEF AfterFollowUpPoll, DropPending, EmitAgentEnd, Goto, NoMessages, agentVars, stateVars,
       queueVars, flowVars, toolVars
<1>38. ASSUME NoContinuation PROVE lost' # lost => aborted \/ failures' # failures
  BY <1>38 DEF NoContinuation, EmitAgentEnd, Goto, agentVars, stateVars, queueVars, flowVars, toolVars
<1>39. ASSUME HandleRunFailure PROVE lost' # lost => aborted \/ failures' # failures
  BY <1>39 DEF HandleRunFailure, Goto, agentVars, stateVars, queueVars, flowVars, toolVars
<1>40. ASSUME FinishRun PROVE lost' # lost => aborted \/ failures' # failures
  BY <1>40 DEF FinishRun, NoLocals, Goto, agentVars, stateVars, queueVars, flowVars, toolVars
<1>41. ASSUME UNCHANGED vars PROVE lost' # lost => aborted \/ failures' # failures
  BY <1>41 DEF vars, agentVars, stateVars, queueVars, flowVars, toolVars
<1> QED
  BY <1>1, <1>2, <1>3, <1>4, <1>5, <1>6, <1>7, <1>8, <1>9, <1>10, <1>11, <1>12, <1>13, <1>14, <1>15,
       <1>16, <1>17, <1>18, <1>19, <1>20, <1>21, <1>22, <1>23, <1>24, <1>25, <1>26, <1>27, <1>28,
       <1>29, <1>30, <1>31, <1>32, <1>33, <1>34, <1>35, <1>36, <1>37, <1>38, <1>39, <1>40, <1>41 DEF
       Next, External, Internal

(* Only an abort or a throw drops a message that was taken from a queue:   *)
(* neither a requested stop nor the end of a run does.                     *)
THEOREM LossIsInterruption == Spec => LossNeedsInterrupt
<1>1. TypeOK /\ [Next]_vars => [lost' # lost => aborted \/ failures' # failures]_vars
  BY LossStep
<1> QED
  BY <1>1, LoopTypeCorrect, PTL DEF Spec, LossNeedsInterrupt

-----------------------------------------------------------------------------
(* The queues: what the transcript and the batch hold of a class of        *)
(* messages.                                                               *)

UserEntries(class) == {User(m) : m \in class}

(* Recording a user message adds it to what was delivered of its own       *)
(* queue and to nothing else.                                              *)
LEMMA UserRecorded ==
    ASSUME messages \in Seq(EntrySet), NEW class, NEW m \in Msg, messages' = Append(messages, User(m))
    PROVE  RecordedOf(class)' = IF m \in class THEN Append(RecordedOf(class), m) ELSE RecordedOf(class)
<1> DEFINE S == UserEntries(class)
           x == User(m)
           k == Keep(messages, S)
           k1 == Keep(Append(messages, x), S)
<1>1. x \in EntrySet /\ x.id = m
  BY EntryTypes DEF User, Entry
<1>2. x \in S <=> m \in class
  BY DEF User, Entry, UserEntries
<1>3. RecordedOf(class) = [i \in DOMAIN k |-> k[i].id] /\ RecordedOf(class)' = [i \in DOMAIN k1 |-> k1[i].id]
  BY DEF RecordedOf, UserEntries
<1> HIDE DEF x, S
<1>4. k1 = IF x \in S THEN Append(k, x) ELSE k
  BY <1>1, KeepAppend
<1>5. k \in Seq(EntrySet)
  BY KeepMembers
<1> HIDE DEF k, k1
<1>6. CASE m \in class
  <2> DEFINE r == [i \in DOMAIN k |-> k[i].id]
             r1 == [i \in DOMAIN k1 |-> k1[i].id]
  <2>1. k1 = Append(k, x)
    BY <1>2, <1>4, <1>6
  <2>2. /\ DOMAIN k = 1..Len(k) /\ Len(k) \in Nat /\ DOMAIN k1 = 1..(Len(k) + 1)
        /\ k1[Len(k) + 1] = x /\ \A i \in 1..Len(k) : k1[i] = k[i]
    BY <1>1, <1>5, <2>1
  <2>3. \A i \in 1..Len(k) : k[i].id \in Msg \cup Nat
    <3>1. \A i \in 1..Len(k) : k[i] \in EntrySet
      BY <1>5
    <3> QED
      BY <3>1 DEF EntrySet
  <2>4. r \in Seq(Msg \cup Nat) /\ Len(r) = Len(k) /\ \A i \in 1..Len(k) : r[i] = k[i].id
    BY <2>2, <2>3
  <2>5. r1 \in Seq(Msg \cup Nat) /\ Len(r1) = Len(k) + 1 /\ \A i \in 1..(Len(k) + 1) : r1[i] = k1[i].id
    <3>1. \A i \in 1..(Len(k) + 1) : k1[i].id \in Msg \cup Nat
      BY <1>1, <2>2, <2>3
    <3> QED
      BY <2>2, <3>1
  <2> HIDE DEF r, r1
  <2>6. r1 = Append(r, m)
    <3> DEFINE a == Append(r, m)
    <3>1. /\ a \in Seq(Msg \cup Nat) /\ Len(a) = Len(k) + 1 /\ a[Len(k) + 1] = m
          /\ \A i \in 1..Len(k) : a[i] = r[i]
      BY <2>4
    <3> HIDE DEF a
    <3>2. \A i \in 1..(Len(k) + 1) : r1[i] = a[i]
      BY <1>1, <2>2, <2>4, <2>5, <3>1
    <3>3. r1 = a
      BY <2>5, <3>1, <3>2, SeqEqual
    <3> QED
      BY <3>3 DEF a
  <2> QED
    BY <1>3, <1>6, <2>6 DEF r, r1
<1>7. CASE m \notin class
  BY <1>2, <1>3, <1>4, <1>7
<1> QED
  BY <1>6, <1>7

(* Recording an assistant message or a result delivers nothing of any      *)
(* queue.                                                                  *)
LEMMA OthersNotRecorded ==
    ASSUME messages \in Seq(EntrySet), NEW class, NEW x \in EntrySet, x.role # "user",
           messages' = Append(messages, x)
    PROVE  RecordedOf(class)' = RecordedOf(class)
<1>1. x \notin UserEntries(class)
  BY DEF User, Entry, UserEntries
<1>2. Keep(Append(messages, x), UserEntries(class)) = Keep(messages, UserEntries(class))
  BY <1>1, KeepAppend
<1> QED
  BY <1>2 DEF RecordedOf, UserEntries

(* A poll takes a batch of one class.                                      *)
LEMMA TakenBatch ==
    ASSUME NEW class, NEW other, NEW b, other \cap class = {}
    PROVE  /\ b \in Seq(class) => Keep(b, class) = b
           /\ b \in Seq(other) => Keep(b, class) = <<>>
<1>1. ASSUME b \in Seq(class) PROVE Keep(b, class) = b
  <2>1. \A i \in 1..Len(b) : b[i] \in class
    BY <1>1
  <2> QED
    BY <1>1, <2>1, KeepAll
<1>2. ASSUME b \in Seq(other) PROVE Keep(b, class) = <<>>
  <2>1. \A i \in 1..Len(b) : b[i] \notin class
    BY <1>2
  <2> QED
    BY <1>2, <2>1, KeepNone
<1> QED
  BY <1>1, <1>2

-----------------------------------------------------------------------------
(* The steering queue implements the abstract delivery, step by step.      *)
LEMMA SteeringStep ==
    ASSUME LoopInv, [Next]_vars
    PROVE  [Steering!Next]_(Steering!vars)
<1>0. /\ TypeOK /\ HoldInv /\ messages \in Seq(EntrySet) /\ pending \in Seq(Msg) /\ turn \in Nat
      /\ steeringQueue \in Seq(SteerMsg) /\ followUpQueue \in Seq(FollowUpMsg)
  BY DEF LoopInv, TypeOK
<1>1. /\ SteeringMode \in Mode /\ FollowUpMode \in Mode /\ SteerMsg \cap FollowUpMsg = {}
      /\ (PromptMsg \cup ContinuationMsg) \cap (SteerMsg \cup FollowUpMsg) = {}
  BY LoopAssumption
<1>2. SteerMsg \subseteq Msg /\ FollowUpMsg \subseteq Msg
  BY DEF Msg
(* Nothing the queue's readers can tell apart.                             *)
<1>a. ASSUME fresh' \cap SteerMsg = fresh \cap SteerMsg, UNCHANGED steeringQueue, UNCHANGED <<pending, lost>>,
             RecordedOf(SteerMsg)' = RecordedOf(SteerMsg)
      PROVE  [Steering!Next]_(Steering!vars)
  BY <1>a DEF Steering!vars, TakenOf
<1>b. ASSUME UNCHANGED messages PROVE RecordedOf(SteerMsg)' = RecordedOf(SteerMsg)
  BY <1>b DEF RecordedOf
(* The next message of the batch is recorded.                              *)
<1>c. ASSUME pending # <<>>, messages' = Append(messages, User(Head(pending))), pending' = Tail(pending),
             UNCHANGED <<fresh, steeringQueue, lost>>
      PROVE  [Steering!Next]_(Steering!vars)
  <2> DEFINE m == Head(pending)
  <2>1. m \in Msg
    BY <1>0, <1>c
  <2>2. RecordedOf(SteerMsg)' = IF m \in SteerMsg THEN Append(RecordedOf(SteerMsg), m) ELSE RecordedOf(SteerMsg)
    BY <1>0, <1>c, <2>1, UserRecorded
  <2>3. /\ m \notin SteerMsg => TakenOf(SteerMsg)' = TakenOf(SteerMsg)
        /\ m \in SteerMsg => /\ TakenOf(SteerMsg) # <<>> /\ Head(TakenOf(SteerMsg)) = m
                          /\ TakenOf(SteerMsg)' = Tail(TakenOf(SteerMsg))
    BY <1>0, <1>c, KeepTail DEF TakenOf
  <2> HIDE DEF m
  <2>4. CASE m \in SteerMsg
    <3>1. Steering!Deliver
      BY <1>c, <2>2, <2>3, <2>4 DEF Steering!Deliver
    <3> QED
      BY <3>1 DEF Steering!Next
  <2>5. CASE m \notin SteerMsg
    BY <1>c, <2>2, <2>3, <2>5 DEF Steering!vars
  <2> QED
    BY <2>4, <2>5
(* The batch is dropped.                                                   *)
<1>d. ASSUME pending' = <<>>, lost' = lost \cup ToSet(pending), UNCHANGED <<fresh, steeringQueue, messages>>
      PROVE  [Steering!Next]_(Steering!vars)
  <2>1. ToSet(TakenOf(SteerMsg)) = ToSet(pending) \cap SteerMsg
    BY <1>0, KeepMembers DEF TakenOf
  <2>2. <<>> \in Seq(SteerMsg)
    OBVIOUS
  <2>3. TakenOf(SteerMsg)' = <<>>
    BY <1>1, <1>d, <2>2, TakenBatch DEF TakenOf
  <2>4. lost' \cap SteerMsg = (lost \cap SteerMsg) \cup ToSet(TakenOf(SteerMsg))
    BY <1>d, <2>1
  <2>5. Steering!Drop
    BY <1>b, <1>d, <2>3, <2>4 DEF Steering!Drop, Steering!Members, ToSet
  <2> QED
    BY <2>5 DEF Steering!Next
(* A poll of this queue, and a batch from elsewhere.                       *)
<1>e. ASSUME pending = <<>>, pending' = Drained(steeringQueue, SteeringMode), steeringQueue' = Remaining(steeringQueue, SteeringMode),
             UNCHANGED <<fresh, messages, lost>>
      PROVE  [Steering!Next]_(Steering!vars)
  <2>0. /\ Drained(steeringQueue, SteeringMode) \in Seq(SteerMsg) /\ <<>> \in Seq(SteerMsg)
        /\ steeringQueue = <<>> => Drained(steeringQueue, SteeringMode) = <<>> /\ Remaining(steeringQueue, SteeringMode) = <<>>
    BY <1>0, <1>1, DrainTypes
  <2>1. TakenOf(SteerMsg) = <<>>
    BY <1>1, <1>e, <2>0, TakenBatch DEF TakenOf
  <2>2. TakenOf(SteerMsg)' = Drained(steeringQueue, SteeringMode)
    BY <1>1, <1>e, <2>0, TakenBatch DEF TakenOf
  <2>3. CASE steeringQueue = <<>>
    BY <1>b, <1>e, <2>0, <2>1, <2>2, <2>3 DEF Steering!vars
  <2>4. CASE steeringQueue # <<>>
    <3>1. PICK k \in 1..Len(steeringQueue) :
            /\ Drained(steeringQueue, SteeringMode) = SubSeq(steeringQueue, 1, k)
            /\ Remaining(steeringQueue, SteeringMode) = SubSeq(steeringQueue, k + 1, Len(steeringQueue))
      BY <1>0, <1>1, <2>4, DrainTypes
    <3>2. Steering!Take(k)
      BY <1>b, <1>e, <2>1, <2>2, <3>1 DEF Steering!Take
    <3> QED
      BY <3>2 DEF Steering!Next
  <2> QED
    BY <2>3, <2>4
<1>f. ASSUME NEW other, other \cap SteerMsg = {}, pending = <<>>, pending' \in Seq(other), UNCHANGED <<steeringQueue, messages, lost>>,
             fresh' \cap SteerMsg = fresh \cap SteerMsg
      PROVE  [Steering!Next]_(Steering!vars)
  <2>1. <<>> \in Seq(other)
    OBVIOUS
  <2>2. TakenOf(SteerMsg) = <<>> /\ TakenOf(SteerMsg)' = <<>>
    BY <1>f, <2>1, TakenBatch DEF TakenOf
  <2> QED
    BY <1>b, <1>f, <2>2 DEF Steering!vars
<1>3. ASSUME NEW m \in fresh, Steer(m) PROVE [Steering!Next]_(Steering!vars)
  <2>1. Steering!Accept(m) /\ m \in SteerMsg
    BY <1>3, <1>b DEF Steer, agentVars, stateVars, queueVars, flowVars, toolVars, Steering!Accept, TakenOf
  <2> QED
    BY <2>1 DEF Steering!Next
<1>4. ASSUME NEW m \in fresh, FollowUp(m) PROVE [Steering!Next]_(Steering!vars)
  <2>1. fresh' = fresh \ {m} /\ m \in FollowUpMsg /\ UNCHANGED <<steeringQueue, pending, lost, messages>>
    BY <1>4 DEF FollowUp, agentVars, stateVars, queueVars, flowVars, toolVars
  <2>2. fresh' \cap SteerMsg = fresh \cap SteerMsg
    BY <1>1, <2>1
  <2> QED
    BY <2>1, <2>2, <1>a, <1>b
<1>5. ASSUME NEW m \in fresh, Prompt(m) PROVE [Steering!Next]_(Steering!vars)
  <2>1. /\ pending = <<>> /\ pending' = <<m>> /\ m \in PromptMsg /\ fresh' = fresh \ {m}
        /\ UNCHANGED <<steeringQueue, messages, lost>>
    BY <1>0, <1>5 DEF Prompt, BeginRun, Goto, agentVars, stateVars, queueVars, flowVars, toolVars,
         HoldInv, Holding
  <2>2. pending' \in Seq(PromptMsg) /\ PromptMsg \cap SteerMsg = {} /\ fresh' \cap SteerMsg = fresh \cap SteerMsg
    BY <1>1, <2>1
  <2> QED
    BY <2>1, <2>2, <1>f
<1>6. ASSUME NEW m \in fresh, TakeContinuation(m) PROVE [Steering!Next]_(Steering!vars)
  <2>1. /\ pending = <<>> /\ pending' = <<m>> /\ m \in ContinuationMsg /\ fresh' = fresh \ {m}
        /\ UNCHANGED <<steeringQueue, messages, lost>>
    BY <1>0, <1>6 DEF TakeContinuation, Goto, agentVars, stateVars, queueVars, flowVars, toolVars,
         HoldInv, Holding
  <2>2. pending' \in Seq(ContinuationMsg) /\ ContinuationMsg \cap SteerMsg = {} /\ fresh' \cap SteerMsg = fresh \cap SteerMsg
    BY <1>1, <2>1
  <2> QED
    BY <2>1, <2>2, <1>f
<1>7. ASSUME NEW m \in Msg, RemoveQueued(m) PROVE [Steering!Next]_(Steering!vars)
  <2>1. /\ m \in ToSet(steeringQueue) \cup ToSet(followUpQueue)
        /\ steeringQueue' = Keep(steeringQueue, Msg \ {m})
        /\ fresh' = fresh \cup {m}
        /\ UNCHANGED <<pending, lost, messages>>
    BY <1>7 DEF RemoveQueued, agentVars, stateVars, queueVars, flowVars, toolVars
  <2>2. KeptAt(steeringQueue, Msg \ {m}) = KeptAt(steeringQueue, SteerMsg \ {m})
    BY <1>0, <1>2 DEF KeptAt
  <2>3. steeringQueue' = Keep(steeringQueue, SteerMsg \ {m})
    BY <1>0, <2>1, <2>2, KeepSame
  <2>4. CASE m \in ToSet(steeringQueue)
    <3>1. m \in SteerMsg
      BY <1>0, <2>4 DEF ToSet
    <3>2. Steering!Withdraw(m)
      <4>1. fresh' \cap SteerMsg = (fresh \cap SteerMsg) \cup {m}
        BY <2>1, <3>1
      <4>2. m \in Steering!Members(steeringQueue)
        BY <2>4 DEF ToSet, Steering!Members
      <4>3. RecordedOf(SteerMsg)' = RecordedOf(SteerMsg) /\ TakenOf(SteerMsg)' = TakenOf(SteerMsg)
        BY <1>b, <2>1 DEF TakenOf
      <4>4. Steering!Keep(steeringQueue, SteerMsg \ {m}) = Keep(steeringQueue, SteerMsg \ {m})
        BY DEF Steering!Keep, Steering!KeptAt, Steering!Place, Steering!Cardinality, Keep,
             KeptAt, Place, Cardinality
      <4> QED
        BY <2>1, <2>3, <4>1, <4>2, <4>3, <4>4 DEF Steering!Withdraw
    <3> QED
      BY <3>1, <3>2 DEF Steering!Next
  <2>5. CASE m \notin ToSet(steeringQueue)
    <3>1. m \in FollowUpMsg
      BY <1>0, <2>1, <2>5 DEF ToSet
    <3>2. fresh' \cap SteerMsg = fresh \cap SteerMsg
      BY <1>1, <2>1, <3>1
    <3>3. \A j \in 1..Len(steeringQueue) : steeringQueue[j] \in Msg \ {m}
      BY <1>0, <1>2, <2>5 DEF ToSet
    <3>4. Keep(steeringQueue, Msg \ {m}) = steeringQueue
      BY <1>0, <3>3, KeepAll
    <3>5. UNCHANGED steeringQueue
      BY <2>1, <3>4
    <3> QED
      BY <2>1, <3>2, <3>5, <1>a, <1>b
  <2> QED
    BY <2>4, <2>5
<1>8. ASSUME Continue PROVE [Steering!Next]_(Steering!vars)
  <2>1. pending = <<>> /\ UNCHANGED <<fresh, messages, lost>>
    BY <1>0, <1>8 DEF Continue, BeginRun, Goto, agentVars, stateVars, queueVars, flowVars, toolVars,
         HoldInv, Holding
  <2>2. \/ pending' = Drained(steeringQueue, SteeringMode) /\ steeringQueue' = Remaining(steeringQueue, SteeringMode)
        \/ pending' = Drained(followUpQueue, FollowUpMode) /\ steeringQueue' = steeringQueue
        \/ pending' = <<>> /\ steeringQueue' = steeringQueue
    BY <1>8 DEF Continue, BeginRun, Goto, agentVars, stateVars, queueVars, flowVars, toolVars
  <2>3. Drained(followUpQueue, FollowUpMode) \in Seq(FollowUpMsg) /\ <<>> \in Seq(FollowUpMsg) /\ FollowUpMsg \cap SteerMsg = {}
    BY <1>0, <1>1, DrainTypes
  <2>4. CASE pending' = Drained(steeringQueue, SteeringMode) /\ steeringQueue' = Remaining(steeringQueue, SteeringMode)
    BY <2>1, <2>4, <1>e
  <2>5. CASE pending' \in Seq(FollowUpMsg) /\ steeringQueue' = steeringQueue
    BY <2>1, <2>3, <2>5, <1>f
  <2> QED
    BY <2>2, <2>3, <2>4, <2>5
<1>9. ASSUME Abort PROVE [Steering!Next]_(Steering!vars)
  <2>1. fresh' \cap SteerMsg = fresh \cap SteerMsg /\ UNCHANGED <<steeringQueue, pending, lost, messages>>
    BY <1>9 DEF Abort, agentVars, stateVars, queueVars, flowVars, toolVars
  <2> QED
    BY <2>1, <1>a, <1>b
<1>10. ASSUME RouteReflex PROVE [Steering!Next]_(Steering!vars)
  <2> DEFINE x == Entry("assistant", turn + 1, 1, "reflex")
  <2>1. x \in EntrySet
    BY <1>0, EntryTypes, LoopAssumption DEF Stops
  <2>2. x.role # "user"
    BY DEF Entry, Result
  <2>3. messages' = Append(messages, x) /\ UNCHANGED <<fresh, steeringQueue, pending, lost>>
    BY <1>10 DEF RouteReflex, Record, NewCalls, Goto, agentVars, stateVars, queueVars, flowVars, toolVars
  <2> HIDE DEF x
  <2>4. RecordedOf(SteerMsg)' = RecordedOf(SteerMsg)
    BY <1>0, <2>1, <2>2, <2>3, OthersNotRecorded
  <2> QED
    BY <2>3, <2>4, <1>a
<1>11. ASSUME StreamStart PROVE [Steering!Next]_(Steering!vars)
  <2>1. fresh' \cap SteerMsg = fresh \cap SteerMsg /\ UNCHANGED <<steeringQueue, pending, lost, messages>>
    BY <1>11 DEF StreamStart, agentVars, stateVars, queueVars, flowVars, toolVars
  <2> QED
    BY <2>1, <1>a, <1>b
<1>12. ASSUME StreamError PROVE [Steering!Next]_(Steering!vars)
  <2> DEFINE x == Entry("assistant", turn + 1, 0, "error")
  <2>1. x \in EntrySet
    BY <1>0, EntryTypes, LoopAssumption DEF Stops
  <2>2. x.role # "user"
    BY DEF Entry, Result
  <2>3. messages' = Append(messages, x) /\ UNCHANGED <<fresh, steeringQueue, pending, lost>>
    BY <1>12 DEF StreamError, FinishStream, NewCalls, EmitAgentEnd, Goto, agentVars, stateVars,
         queueVars, flowVars, toolVars
  <2> HIDE DEF x
  <2>4. RecordedOf(SteerMsg)' = RecordedOf(SteerMsg)
    BY <1>0, <2>1, <2>2, <2>3, OthersNotRecorded
  <2> QED
    BY <2>3, <2>4, <1>a
<1>13. ASSUME NEW n \in 0..MaxCalls, StreamDone(n) PROVE [Steering!Next]_(Steering!vars)
  <2> DEFINE x == Entry("assistant", turn + 1, n, "stop")
  <2>1. x \in EntrySet
    BY <1>0, EntryTypes, LoopAssumption DEF Stops
  <2>2. x.role # "user"
    BY DEF Entry, Result
  <2>3. messages' = Append(messages, x) /\ UNCHANGED <<fresh, steeringQueue, pending, lost>>
    BY <1>13 DEF StreamDone, FinishStream, NewCalls, Goto, agentVars, stateVars, queueVars, flowVars, toolVars
  <2> HIDE DEF x
  <2>4. RecordedOf(SteerMsg)' = RecordedOf(SteerMsg)
    BY <1>0, <2>1, <2>2, <2>3, OthersNotRecorded
  <2> QED
    BY <2>3, <2>4, <1>a
<1>14. ASSUME NEW i \in 1..MaxCalls, PrepareCall(i) PROVE [Steering!Next]_(Steering!vars)
  <2>1. fresh' \cap SteerMsg = fresh \cap SteerMsg /\ UNCHANGED <<steeringQueue, pending, lost, messages>>
    BY <1>14 DEF PrepareCall, SetCall, agentVars, stateVars, queueVars, flowVars, toolVars
  <2> QED
    BY <2>1, <1>a, <1>b
<1>15. ASSUME NEW i \in 1..MaxCalls, ToolReturns(i) PROVE [Steering!Next]_(Steering!vars)
  <2>1. CASE sequential
    <3> DEFINE x == Result(turn, i)
    <3>1. x \in EntrySet
      BY <1>0, EntryTypes, LoopAssumption
    <3>2. x.role # "user"
      BY DEF Entry, Result
    <3>3. messages' = Append(messages, x) /\ UNCHANGED <<fresh, steeringQueue, pending, lost>>
      BY <1>15, <2>1 DEF ToolReturns, EndCall, SetCall, CallId, agentVars, stateVars, queueVars,
           flowVars, toolVars
    <3> HIDE DEF x
    <3>4. RecordedOf(SteerMsg)' = RecordedOf(SteerMsg)
      BY <1>0, <3>1, <3>2, <3>3, OthersNotRecorded
    <3> QED
      BY <3>3, <3>4, <1>a
  <2>2. CASE ~sequential
    <3>1. UNCHANGED <<fresh, steeringQueue, pending, lost, messages>>
      BY <1>15, <2>2 DEF ToolReturns, EndCall, SetCall, CallId, agentVars, stateVars, queueVars,
           flowVars, toolVars
    <3> QED
      BY <3>1, <1>a, <1>b
  <2> QED
    BY <2>1, <2>2
<1>16. ASSUME NEW i \in 1..MaxCalls, ToolEndThrows(i) PROVE [Steering!Next]_(Steering!vars)
  <2>1. fresh' \cap SteerMsg = fresh \cap SteerMsg /\ UNCHANGED <<steeringQueue, pending, lost, messages>>
    BY <1>16 DEF ToolEndThrows, Goto, CallId, agentVars, stateVars, queueVars, flowVars, toolVars
  <2> QED
    BY <2>1, <1>a, <1>b
<1>17. ASSUME NEW z \in zombies, ZombieEnds(z) PROVE [Steering!Next]_(Steering!vars)
  <2>1. fresh' \cap SteerMsg = fresh \cap SteerMsg /\ UNCHANGED <<steeringQueue, pending, lost, messages>>
    BY <1>17 DEF ZombieEnds, agentVars, stateVars, queueVars, flowVars, toolVars
  <2> QED
    BY <2>1, <1>a, <1>b
<1>18. ASSUME RunThrows PROVE [Steering!Next]_(Steering!vars)
  <2>1. /\ UNCHANGED <<fresh, steeringQueue, messages>>
        /\ \/ pending' = <<>> /\ lost' = lost \cup ToSet(pending)
           \/ pending' = pending /\ lost' = lost
    BY <1>18 DEF RunThrows, DropPending, Goto, agentVars, stateVars, queueVars, flowVars, toolVars
  <2> QED
    BY <2>1, <1>a, <1>b, <1>d
<1>19. ASSUME EmitPrompt PROVE [Steering!Next]_(Steering!vars)
  <2>1. /\ pending # <<>> /\ messages' = Append(messages, User(Head(pending))) /\ pending' = Tail(pending)
        /\ UNCHANGED <<fresh, steeringQueue, lost>>
    BY <1>0, <1>19 DEF EmitPrompt, Record, Goto, agentVars, stateVars, queueVars, flowVars, toolVars, HoldInv
  <2> QED
    BY <2>1, <1>c
<1>20. ASSUME FirstPoll PROVE [Steering!Next]_(Steering!vars)
  <2>1. /\ pending = <<>> /\ UNCHANGED <<fresh, messages, lost>>
        /\ \/ pending' = <<>> /\ steeringQueue' = steeringQueue
           \/ pending' = Drained(steeringQueue, SteeringMode) /\ steeringQueue' = Remaining(steeringQueue, SteeringMode)
    BY <1>0, <1>20 DEF FirstPoll, PollSteering, Goto, agentVars, stateVars, queueVars, flowVars,
         toolVars, HoldInv, Holding
  <2>2. pending' = <<>> /\ steeringQueue' = steeringQueue => pending' = pending
    BY <2>1
  <2> QED
    BY <2>1, <2>2, <1>a, <1>b, <1>e
<1>21. ASSUME EnterLoop PROVE [Steering!Next]_(Steering!vars)
  <2>1. /\ UNCHANGED <<fresh, steeringQueue, messages>>
        /\ \/ pending' = <<>> /\ lost' = lost \cup ToSet(pending)
           \/ pending' = pending /\ lost' = lost
    BY <1>21 DEF EnterLoop, DropPending, Goto, agentVars, stateVars, queueVars, flowVars, toolVars
  <2> QED
    BY <2>1, <1>a, <1>b, <1>d
<1>22. ASSUME LeaveInner PROVE [Steering!Next]_(Steering!vars)
  <2>1. fresh' \cap SteerMsg = fresh \cap SteerMsg /\ UNCHANGED <<steeringQueue, pending, lost, messages>>
    BY <1>22 DEF LeaveInner, EmitAgentEnd, Goto, NoMessages, agentVars, stateVars, queueVars,
         flowVars, toolVars
  <2> QED
    BY <2>1, <1>a, <1>b
<1>23. ASSUME EnterTurn PROVE [Steering!Next]_(Steering!vars)
  <2>1. /\ UNCHANGED <<fresh, steeringQueue, messages>>
        /\ \/ pending' = <<>> /\ lost' = lost \cup ToSet(pending)
           \/ pending' = pending /\ lost' = lost
    BY <1>23 DEF EnterTurn, DropPending, Goto, NoMessages, agentVars, stateVars, queueVars, flowVars, toolVars
  <2> QED
    BY <2>1, <1>a, <1>b, <1>d
<1>24. ASSUME RouteNone PROVE [Steering!Next]_(Steering!vars)
  <2>1. fresh' \cap SteerMsg = fresh \cap SteerMsg /\ UNCHANGED <<steeringQueue, pending, lost, messages>>
    BY <1>24 DEF RouteNone, Goto, agentVars, stateVars, queueVars, flowVars, toolVars
  <2> QED
    BY <2>1, <1>a, <1>b
<1>25. ASSUME Inject PROVE [Steering!Next]_(Steering!vars)
  <2>1. CASE pending = <<>>
    <3>1. UNCHANGED <<fresh, steeringQueue, pending, lost, messages>>
      BY <1>25, <2>1 DEF Inject, Record, Goto, NoMessages, agentVars, stateVars, queueVars, flowVars, toolVars
    <3> QED
      BY <3>1, <1>a, <1>b
  <2>2. CASE pending # <<>>
    <3>1. /\ messages' = Append(messages, User(Head(pending))) /\ pending' = Tail(pending)
          /\ UNCHANGED <<fresh, steeringQueue, lost>>
      BY <1>25, <2>2 DEF Inject, Record, Goto, NoMessages, agentVars, stateVars, queueVars, flowVars, toolVars
    <3> QED
      BY <2>2, <3>1, <1>c
  <2> QED
    BY <2>1, <2>2
<1>26. ASSUME StreamAborted PROVE [Steering!Next]_(Steering!vars)
  <2> DEFINE x == Entry("assistant", turn + 1, 0, "aborted")
  <2>1. x \in EntrySet
    BY <1>0, EntryTypes, LoopAssumption DEF Stops
  <2>2. x.role # "user"
    BY DEF Entry, Result
  <2>3. messages' = Append(messages, x) /\ UNCHANGED <<fresh, steeringQueue, pending, lost>>
    BY <1>26 DEF StreamAborted, FinishStream, NewCalls, EmitAgentEnd, Goto, agentVars, stateVars,
         queueVars, flowVars, toolVars
  <2> HIDE DEF x
  <2>4. RecordedOf(SteerMsg)' = RecordedOf(SteerMsg)
    BY <1>0, <2>1, <2>2, <2>3, OthersNotRecorded
  <2> QED
    BY <2>3, <2>4, <1>a
<1>27. ASSUME NEW i \in 1..MaxCalls, StartCall(i) PROVE [Steering!Next]_(Steering!vars)
  <2>1. fresh' \cap SteerMsg = fresh \cap SteerMsg /\ UNCHANGED <<steeringQueue, pending, lost, messages>>
    BY <1>27 DEF StartCall, SetCall, CallId, agentVars, stateVars, queueVars, flowVars, toolVars
  <2> QED
    BY <2>1, <1>a, <1>b
<1>28. ASSUME NEW i \in 1..MaxCalls, ImmediateCall(i) PROVE [Steering!Next]_(Steering!vars)
  <2>1. CASE sequential
    <3> DEFINE x == Result(turn, i)
    <3>1. x \in EntrySet
      BY <1>0, EntryTypes, LoopAssumption
    <3>2. x.role # "user"
      BY DEF Entry, Result
    <3>3. messages' = Append(messages, x) /\ UNCHANGED <<fresh, steeringQueue, pending, lost>>
      BY <1>28, <2>1 DEF ImmediateCall, EndCall, SetCall, CallId, agentVars, stateVars, queueVars,
           flowVars, toolVars
    <3> HIDE DEF x
    <3>4. RecordedOf(SteerMsg)' = RecordedOf(SteerMsg)
      BY <1>0, <3>1, <3>2, <3>3, OthersNotRecorded
    <3> QED
      BY <3>3, <3>4, <1>a
  <2>2. CASE ~sequential
    <3>1. UNCHANGED <<fresh, steeringQueue, pending, lost, messages>>
      BY <1>28, <2>2 DEF ImmediateCall, EndCall, SetCall, CallId, agentVars, stateVars, queueVars,
           flowVars, toolVars
    <3> QED
      BY <3>1, <1>a, <1>b
  <2> QED
    BY <2>1, <2>2
<1>29. ASSUME NEW i \in 1..MaxCalls, ToolAborted(i) PROVE [Steering!Next]_(Steering!vars)
  <2>1. CASE sequential
    <3> DEFINE x == Result(turn, i)
    <3>1. x \in EntrySet
      BY <1>0, EntryTypes, LoopAssumption
    <3>2. x.role # "user"
      BY DEF Entry, Result
    <3>3. messages' = Append(messages, x) /\ UNCHANGED <<fresh, steeringQueue, pending, lost>>
      BY <1>29, <2>1 DEF ToolAborted, EndCall, SetCall, CallId, agentVars, stateVars, queueVars,
           flowVars, toolVars
    <3> HIDE DEF x
    <3>4. RecordedOf(SteerMsg)' = RecordedOf(SteerMsg)
      BY <1>0, <3>1, <3>2, <3>3, OthersNotRecorded
    <3> QED
      BY <3>3, <3>4, <1>a
  <2>2. CASE ~sequential
    <3>1. UNCHANGED <<fresh, steeringQueue, pending, lost, messages>>
      BY <1>29, <2>2 DEF ToolAborted, EndCall, SetCall, CallId, agentVars, stateVars, queueVars,
           flowVars, toolVars
    <3> QED
      BY <3>1, <1>a, <1>b
  <2> QED
    BY <2>1, <2>2
<1>30. ASSUME LaunchCalls PROVE [Steering!Next]_(Steering!vars)
  <2>1. fresh' \cap SteerMsg = fresh \cap SteerMsg /\ UNCHANGED <<steeringQueue, pending, lost, messages>>
    BY <1>30 DEF LaunchCalls, agentVars, stateVars, queueVars, flowVars, toolVars
  <2> QED
    BY <2>1, <1>a, <1>b
<1>31. ASSUME RecordResult PROVE [Steering!Next]_(Steering!vars)
  <2>1. PICK k \in 0..NumCalls : messages' = Append(messages, Result(turn, k + 1))
    BY <1>31, ResultRecorded DEF LoopInv
  <2>2. k + 1 \in Nat
    <3>1. NumCalls \in Nat
      BY <1>31, LoopAssumption DEF LoopInv, BatchInv, RecordResult
    <3> QED
      BY <3>1
  <2> DEFINE x == Result(turn, k + 1)
  <2>3. x \in EntrySet
    BY <1>0, <2>2, EntryTypes
  <2>4. x.role # "user"
    BY DEF Entry, Result
  <2>5. messages' = Append(messages, x) /\ UNCHANGED <<fresh, steeringQueue, pending, lost>>
    BY <1>31, <2>1 DEF RecordResult, agentVars, stateVars, queueVars, flowVars, toolVars
  <2> HIDE DEF x
  <2>6. RecordedOf(SteerMsg)' = RecordedOf(SteerMsg)
    BY <1>0, <2>3, <2>4, <2>5, OthersNotRecorded
  <2> QED
    BY <2>5, <2>6, <1>a
<1>32. ASSUME FinishBatch PROVE [Steering!Next]_(Steering!vars)
  <2>1. fresh' \cap SteerMsg = fresh \cap SteerMsg /\ UNCHANGED <<steeringQueue, pending, lost, messages>>
    BY <1>32 DEF FinishBatch, Goto, agentVars, stateVars, queueVars, flowVars, toolVars
  <2> QED
    BY <2>1, <1>a, <1>b
<1>33. ASSUME TurnEnd PROVE [Steering!Next]_(Steering!vars)
  <2>1. fresh' \cap SteerMsg = fresh \cap SteerMsg /\ UNCHANGED <<steeringQueue, pending, lost, messages>>
    BY <1>33 DEF TurnEnd, EmitAgentEnd, Goto, agentVars, stateVars, queueVars, flowVars, toolVars
  <2> QED
    BY <2>1, <1>a, <1>b
<1>34. ASSUME StopAfterTurn PROVE [Steering!Next]_(Steering!vars)
  <2>1. fresh' \cap SteerMsg = fresh \cap SteerMsg /\ UNCHANGED <<steeringQueue, pending, lost, messages>>
    BY <1>34 DEF StopAfterTurn, EmitAgentEnd, Goto, agentVars, stateVars, queueVars, flowVars, toolVars
  <2> QED
    BY <2>1, <1>a, <1>b
<1>35. ASSUME GoOnAfterTurn PROVE [Steering!Next]_(Steering!vars)
  <2>1. fresh' \cap SteerMsg = fresh \cap SteerMsg /\ UNCHANGED <<steeringQueue, pending, lost, messages>>
    BY <1>35 DEF GoOnAfterTurn, Goto, agentVars, stateVars, queueVars, flowVars, toolVars
  <2> QED
    BY <2>1, <1>a, <1>b
<1>36. ASSUME SteeringPoll PROVE [Steering!Next]_(Steering!vars)
  <2>1. /\ pending = <<>> /\ UNCHANGED <<fresh, messages, lost>>
        /\ \/ pending' = <<>> /\ steeringQueue' = steeringQueue
           \/ pending' = Drained(steeringQueue, SteeringMode) /\ steeringQueue' = Remaining(steeringQueue, SteeringMode)
    BY <1>0, <1>36 DEF SteeringPoll, PollSteering, Goto, agentVars, stateVars, queueVars, flowVars,
         toolVars, HoldInv, Holding
  <2>2. pending' = <<>> /\ steeringQueue' = steeringQueue => pending' = pending
    BY <2>1
  <2> QED
    BY <2>1, <2>2, <1>a, <1>b, <1>e
<1>37. ASSUME AfterSteeringPoll PROVE [Steering!Next]_(Steering!vars)
  <2>1. /\ UNCHANGED <<fresh, steeringQueue, messages>>
        /\ \/ pending' = <<>> /\ lost' = lost \cup ToSet(pending)
           \/ pending' = pending /\ lost' = lost
    BY <1>37 DEF AfterSteeringPoll, DropPending, EmitAgentEnd, Goto, NoMessages, agentVars,
         stateVars, queueVars, flowVars, toolVars
  <2> QED
    BY <2>1, <1>a, <1>b, <1>d
<1>38. ASSUME FollowUpPoll PROVE [Steering!Next]_(Steering!vars)
  <2>1. /\ pending = <<>> /\ UNCHANGED <<fresh, steeringQueue, messages, lost>>
        /\ pending' = <<>> \/ pending' = Drained(followUpQueue, FollowUpMode)
    BY <1>0, <1>38 DEF FollowUpPoll, Goto, agentVars, stateVars, queueVars, flowVars, toolVars,
         HoldInv, Holding
  <2>2. Drained(followUpQueue, FollowUpMode) \in Seq(FollowUpMsg) /\ <<>> \in Seq(FollowUpMsg) /\ FollowUpMsg \cap SteerMsg = {}
    BY <1>0, <1>1, DrainTypes
  <2>3. pending' \in Seq(FollowUpMsg)
    BY <2>1, <2>2
  <2> QED
    BY <2>1, <2>2, <2>3, <1>f
<1>39. ASSUME AfterFollowUpPoll PROVE [Steering!Next]_(Steering!vars)
  <2>1. /\ UNCHANGED <<fresh, steeringQueue, messages>>
        /\ \/ pending' = <<>> /\ lost' = lost \cup ToSet(pending)
           \/ pending' = pending /\ lost' = lost
    BY <1>39 DEF AfterFollowUpPoll, DropPending, EmitAgentEnd, Goto, NoMessages, agentVars,
         stateVars, queueVars, flowVars, toolVars
  <2> QED
    BY <2>1, <1>a, <1>b, <1>d
<1>40. ASSUME NoContinuation PROVE [Steering!Next]_(Steering!vars)
  <2>1. fresh' \cap SteerMsg = fresh \cap SteerMsg /\ UNCHANGED <<steeringQueue, pending, lost, messages>>
    BY <1>40 DEF NoContinuation, EmitAgentEnd, Goto, agentVars, stateVars, queueVars, flowVars, toolVars
  <2> QED
    BY <2>1, <1>a, <1>b
<1>41. ASSUME HandleRunFailure PROVE [Steering!Next]_(Steering!vars)
  <2> DEFINE x == Entry("assistant", turn + 1, 0, IF aborted THEN "aborted" ELSE "error")
  <2>1. x \in EntrySet
    BY <1>0, EntryTypes, LoopAssumption DEF Stops
  <2>2. x.role # "user"
    BY DEF Entry, Result
  <2>3. messages' = Append(messages, x) /\ UNCHANGED <<fresh, steeringQueue, pending, lost>>
    BY <1>41 DEF HandleRunFailure, Goto, agentVars, stateVars, queueVars, flowVars, toolVars
  <2> HIDE DEF x
  <2>4. RecordedOf(SteerMsg)' = RecordedOf(SteerMsg)
    BY <1>0, <2>1, <2>2, <2>3, OthersNotRecorded
  <2> QED
    BY <2>3, <2>4, <1>a
<1>42. ASSUME FinishRun PROVE [Steering!Next]_(Steering!vars)
  <2>1. fresh' \cap SteerMsg = fresh \cap SteerMsg /\ UNCHANGED <<steeringQueue, pending, lost, messages>>
    BY <1>42 DEF FinishRun, NoLocals, Goto, agentVars, stateVars, queueVars, flowVars, toolVars
  <2> QED
    BY <2>1, <1>a, <1>b
<1>43. ASSUME UNCHANGED vars PROVE [Steering!Next]_(Steering!vars)
  <2>1. UNCHANGED <<fresh, steeringQueue, pending, lost, messages>>
    BY <1>43 DEF vars, stateVars, queueVars
  <2> QED
    BY <2>1, <1>a, <1>b
<1> QED
  BY <1>3, <1>4, <1>5, <1>6, <1>7, <1>8, <1>9, <1>10, <1>11, <1>12, <1>13, <1>14, <1>15, <1>16, <1>17,
       <1>18, <1>19, <1>20, <1>21, <1>22, <1>23, <1>24, <1>25, <1>26, <1>27, <1>28, <1>29, <1>30,
       <1>31, <1>32, <1>33, <1>34, <1>35, <1>36, <1>37, <1>38, <1>39, <1>40, <1>41, <1>42, <1>43 DEF
       Next, External, Internal

-----------------------------------------------------------------------------
(* The follow-up queue implements the abstract delivery, step by step.      *)
LEMMA FollowUpsStep ==
    ASSUME LoopInv, [Next]_vars
    PROVE  [FollowUps!Next]_(FollowUps!vars)
<1>0. /\ TypeOK /\ HoldInv /\ messages \in Seq(EntrySet) /\ pending \in Seq(Msg) /\ turn \in Nat
      /\ steeringQueue \in Seq(SteerMsg) /\ followUpQueue \in Seq(FollowUpMsg)
  BY DEF LoopInv, TypeOK
<1>1. /\ SteeringMode \in Mode /\ FollowUpMode \in Mode /\ SteerMsg \cap FollowUpMsg = {}
      /\ (PromptMsg \cup ContinuationMsg) \cap (SteerMsg \cup FollowUpMsg) = {}
  BY LoopAssumption
<1>2. SteerMsg \subseteq Msg /\ FollowUpMsg \subseteq Msg
  BY DEF Msg
(* Nothing the queue's readers can tell apart.                             *)
<1>a. ASSUME fresh' \cap FollowUpMsg = fresh \cap FollowUpMsg, UNCHANGED followUpQueue, UNCHANGED <<pending, lost>>,
             RecordedOf(FollowUpMsg)' = RecordedOf(FollowUpMsg)
      PROVE  [FollowUps!Next]_(FollowUps!vars)
  BY <1>a DEF FollowUps!vars, TakenOf
<1>b. ASSUME UNCHANGED messages PROVE RecordedOf(FollowUpMsg)' = RecordedOf(FollowUpMsg)
  BY <1>b DEF RecordedOf
(* The next message of the batch is recorded.                              *)
<1>c. ASSUME pending # <<>>, messages' = Append(messages, User(Head(pending))), pending' = Tail(pending),
             UNCHANGED <<fresh, followUpQueue, lost>>
      PROVE  [FollowUps!Next]_(FollowUps!vars)
  <2> DEFINE m == Head(pending)
  <2>1. m \in Msg
    BY <1>0, <1>c
  <2>2. RecordedOf(FollowUpMsg)' = IF m \in FollowUpMsg THEN Append(RecordedOf(FollowUpMsg), m) ELSE RecordedOf(FollowUpMsg)
    BY <1>0, <1>c, <2>1, UserRecorded
  <2>3. /\ m \notin FollowUpMsg => TakenOf(FollowUpMsg)' = TakenOf(FollowUpMsg)
        /\ m \in FollowUpMsg => /\ TakenOf(FollowUpMsg) # <<>> /\ Head(TakenOf(FollowUpMsg)) = m
                          /\ TakenOf(FollowUpMsg)' = Tail(TakenOf(FollowUpMsg))
    BY <1>0, <1>c, KeepTail DEF TakenOf
  <2> HIDE DEF m
  <2>4. CASE m \in FollowUpMsg
    <3>1. FollowUps!Deliver
      BY <1>c, <2>2, <2>3, <2>4 DEF FollowUps!Deliver
    <3> QED
      BY <3>1 DEF FollowUps!Next
  <2>5. CASE m \notin FollowUpMsg
    BY <1>c, <2>2, <2>3, <2>5 DEF FollowUps!vars
  <2> QED
    BY <2>4, <2>5
(* The batch is dropped.                                                   *)
<1>d. ASSUME pending' = <<>>, lost' = lost \cup ToSet(pending), UNCHANGED <<fresh, followUpQueue, messages>>
      PROVE  [FollowUps!Next]_(FollowUps!vars)
  <2>1. ToSet(TakenOf(FollowUpMsg)) = ToSet(pending) \cap FollowUpMsg
    BY <1>0, KeepMembers DEF TakenOf
  <2>2. <<>> \in Seq(FollowUpMsg)
    OBVIOUS
  <2>3. TakenOf(FollowUpMsg)' = <<>>
    BY <1>1, <1>d, <2>2, TakenBatch DEF TakenOf
  <2>4. lost' \cap FollowUpMsg = (lost \cap FollowUpMsg) \cup ToSet(TakenOf(FollowUpMsg))
    BY <1>d, <2>1
  <2>5. FollowUps!Drop
    BY <1>b, <1>d, <2>3, <2>4 DEF FollowUps!Drop, FollowUps!Members, ToSet
  <2> QED
    BY <2>5 DEF FollowUps!Next
(* A poll of this queue, and a batch from elsewhere.                       *)
<1>e. ASSUME pending = <<>>, pending' = Drained(followUpQueue, FollowUpMode), followUpQueue' = Remaining(followUpQueue, FollowUpMode),
             UNCHANGED <<fresh, messages, lost>>
      PROVE  [FollowUps!Next]_(FollowUps!vars)
  <2>0. /\ Drained(followUpQueue, FollowUpMode) \in Seq(FollowUpMsg) /\ <<>> \in Seq(FollowUpMsg)
        /\ followUpQueue = <<>> => Drained(followUpQueue, FollowUpMode) = <<>> /\ Remaining(followUpQueue, FollowUpMode) = <<>>
    BY <1>0, <1>1, DrainTypes
  <2>1. TakenOf(FollowUpMsg) = <<>>
    BY <1>1, <1>e, <2>0, TakenBatch DEF TakenOf
  <2>2. TakenOf(FollowUpMsg)' = Drained(followUpQueue, FollowUpMode)
    BY <1>1, <1>e, <2>0, TakenBatch DEF TakenOf
  <2>3. CASE followUpQueue = <<>>
    BY <1>b, <1>e, <2>0, <2>1, <2>2, <2>3 DEF FollowUps!vars
  <2>4. CASE followUpQueue # <<>>
    <3>1. PICK k \in 1..Len(followUpQueue) :
            /\ Drained(followUpQueue, FollowUpMode) = SubSeq(followUpQueue, 1, k)
            /\ Remaining(followUpQueue, FollowUpMode) = SubSeq(followUpQueue, k + 1, Len(followUpQueue))
      BY <1>0, <1>1, <2>4, DrainTypes
    <3>2. FollowUps!Take(k)
      BY <1>b, <1>e, <2>1, <2>2, <3>1 DEF FollowUps!Take
    <3> QED
      BY <3>2 DEF FollowUps!Next
  <2> QED
    BY <2>3, <2>4
<1>f. ASSUME NEW other, other \cap FollowUpMsg = {}, pending = <<>>, pending' \in Seq(other), UNCHANGED <<followUpQueue, messages, lost>>,
             fresh' \cap FollowUpMsg = fresh \cap FollowUpMsg
      PROVE  [FollowUps!Next]_(FollowUps!vars)
  <2>1. <<>> \in Seq(other)
    OBVIOUS
  <2>2. TakenOf(FollowUpMsg) = <<>> /\ TakenOf(FollowUpMsg)' = <<>>
    BY <1>f, <2>1, TakenBatch DEF TakenOf
  <2> QED
    BY <1>b, <1>f, <2>2 DEF FollowUps!vars
<1>3. ASSUME NEW m \in fresh, Steer(m) PROVE [FollowUps!Next]_(FollowUps!vars)
  <2>1. fresh' = fresh \ {m} /\ m \in SteerMsg /\ UNCHANGED <<followUpQueue, pending, lost, messages>>
    BY <1>3 DEF Steer, agentVars, stateVars, queueVars, flowVars, toolVars
  <2>2. fresh' \cap FollowUpMsg = fresh \cap FollowUpMsg
    BY <1>1, <2>1
  <2> QED
    BY <2>1, <2>2, <1>a, <1>b
<1>4. ASSUME NEW m \in fresh, FollowUp(m) PROVE [FollowUps!Next]_(FollowUps!vars)
  <2>1. FollowUps!Accept(m) /\ m \in FollowUpMsg
    BY <1>4, <1>b DEF FollowUp, agentVars, stateVars, queueVars, flowVars, toolVars, FollowUps!Accept, TakenOf
  <2> QED
    BY <2>1 DEF FollowUps!Next
<1>5. ASSUME NEW m \in fresh, Prompt(m) PROVE [FollowUps!Next]_(FollowUps!vars)
  <2>1. /\ pending = <<>> /\ pending' = <<m>> /\ m \in PromptMsg /\ fresh' = fresh \ {m}
        /\ UNCHANGED <<followUpQueue, messages, lost>>
    BY <1>0, <1>5 DEF Prompt, BeginRun, Goto, agentVars, stateVars, queueVars, flowVars, toolVars,
         HoldInv, Holding
  <2>2. pending' \in Seq(PromptMsg) /\ PromptMsg \cap FollowUpMsg = {} /\ fresh' \cap FollowUpMsg = fresh \cap FollowUpMsg
    BY <1>1, <2>1
  <2> QED
    BY <2>1, <2>2, <1>f
<1>6. ASSUME NEW m \in fresh, TakeContinuation(m) PROVE [FollowUps!Next]_(FollowUps!vars)
  <2>1. /\ pending = <<>> /\ pending' = <<m>> /\ m \in ContinuationMsg /\ fresh' = fresh \ {m}
        /\ UNCHANGED <<followUpQueue, messages, lost>>
    BY <1>0, <1>6 DEF TakeContinuation, Goto, agentVars, stateVars, queueVars, flowVars, toolVars,
         HoldInv, Holding
  <2>2. pending' \in Seq(ContinuationMsg) /\ ContinuationMsg \cap FollowUpMsg = {} /\ fresh' \cap FollowUpMsg = fresh \cap FollowUpMsg
    BY <1>1, <2>1
  <2> QED
    BY <2>1, <2>2, <1>f
<1>7. ASSUME NEW m \in Msg, RemoveQueued(m) PROVE [FollowUps!Next]_(FollowUps!vars)
  <2>1. /\ m \in ToSet(followUpQueue) \cup ToSet(steeringQueue)
        /\ followUpQueue' = Keep(followUpQueue, Msg \ {m})
        /\ fresh' = fresh \cup {m}
        /\ UNCHANGED <<pending, lost, messages>>
    BY <1>7 DEF RemoveQueued, agentVars, stateVars, queueVars, flowVars, toolVars
  <2>2. KeptAt(followUpQueue, Msg \ {m}) = KeptAt(followUpQueue, FollowUpMsg \ {m})
    BY <1>0, <1>2 DEF KeptAt
  <2>3. followUpQueue' = Keep(followUpQueue, FollowUpMsg \ {m})
    BY <1>0, <2>1, <2>2, KeepSame
  <2>4. CASE m \in ToSet(followUpQueue)
    <3>1. m \in FollowUpMsg
      BY <1>0, <2>4 DEF ToSet
    <3>2. FollowUps!Withdraw(m)
      <4>1. fresh' \cap FollowUpMsg = (fresh \cap FollowUpMsg) \cup {m}
        BY <2>1, <3>1
      <4>2. m \in FollowUps!Members(followUpQueue)
        BY <2>4 DEF ToSet, FollowUps!Members
      <4>3. RecordedOf(FollowUpMsg)' = RecordedOf(FollowUpMsg) /\ TakenOf(FollowUpMsg)' = TakenOf(FollowUpMsg)
        BY <1>b, <2>1 DEF TakenOf
      <4>4. FollowUps!Keep(followUpQueue, FollowUpMsg \ {m}) = Keep(followUpQueue, FollowUpMsg \ {m})
        BY DEF FollowUps!Keep, FollowUps!KeptAt, FollowUps!Place, FollowUps!Cardinality, Keep,
             KeptAt, Place, Cardinality
      <4> QED
        BY <2>1, <2>3, <4>1, <4>2, <4>3, <4>4 DEF FollowUps!Withdraw
    <3> QED
      BY <3>1, <3>2 DEF FollowUps!Next
  <2>5. CASE m \notin ToSet(followUpQueue)
    <3>1. m \in SteerMsg
      BY <1>0, <2>1, <2>5 DEF ToSet
    <3>2. fresh' \cap FollowUpMsg = fresh \cap FollowUpMsg
      BY <1>1, <2>1, <3>1
    <3>3. \A j \in 1..Len(followUpQueue) : followUpQueue[j] \in Msg \ {m}
      BY <1>0, <1>2, <2>5 DEF ToSet
    <3>4. Keep(followUpQueue, Msg \ {m}) = followUpQueue
      BY <1>0, <3>3, KeepAll
    <3>5. UNCHANGED followUpQueue
      BY <2>1, <3>4
    <3> QED
      BY <2>1, <3>2, <3>5, <1>a, <1>b
  <2> QED
    BY <2>4, <2>5
<1>8. ASSUME Continue PROVE [FollowUps!Next]_(FollowUps!vars)
  <2>1. pending = <<>> /\ UNCHANGED <<fresh, messages, lost>>
    BY <1>0, <1>8 DEF Continue, BeginRun, Goto, agentVars, stateVars, queueVars, flowVars, toolVars,
         HoldInv, Holding
  <2>2. \/ pending' = Drained(followUpQueue, FollowUpMode) /\ followUpQueue' = Remaining(followUpQueue, FollowUpMode)
        \/ pending' = Drained(steeringQueue, SteeringMode) /\ followUpQueue' = followUpQueue
        \/ pending' = <<>> /\ followUpQueue' = followUpQueue
    BY <1>8 DEF Continue, BeginRun, Goto, agentVars, stateVars, queueVars, flowVars, toolVars
  <2>3. Drained(steeringQueue, SteeringMode) \in Seq(SteerMsg) /\ <<>> \in Seq(SteerMsg) /\ SteerMsg \cap FollowUpMsg = {}
    BY <1>0, <1>1, DrainTypes
  <2>4. CASE pending' = Drained(followUpQueue, FollowUpMode) /\ followUpQueue' = Remaining(followUpQueue, FollowUpMode)
    BY <2>1, <2>4, <1>e
  <2>5. CASE pending' \in Seq(SteerMsg) /\ followUpQueue' = followUpQueue
    BY <2>1, <2>3, <2>5, <1>f
  <2> QED
    BY <2>2, <2>3, <2>4, <2>5
<1>9. ASSUME Abort PROVE [FollowUps!Next]_(FollowUps!vars)
  <2>1. fresh' \cap FollowUpMsg = fresh \cap FollowUpMsg /\ UNCHANGED <<followUpQueue, pending, lost, messages>>
    BY <1>9 DEF Abort, agentVars, stateVars, queueVars, flowVars, toolVars
  <2> QED
    BY <2>1, <1>a, <1>b
<1>10. ASSUME RouteReflex PROVE [FollowUps!Next]_(FollowUps!vars)
  <2> DEFINE x == Entry("assistant", turn + 1, 1, "reflex")
  <2>1. x \in EntrySet
    BY <1>0, EntryTypes, LoopAssumption DEF Stops
  <2>2. x.role # "user"
    BY DEF Entry, Result
  <2>3. messages' = Append(messages, x) /\ UNCHANGED <<fresh, followUpQueue, pending, lost>>
    BY <1>10 DEF RouteReflex, Record, NewCalls, Goto, agentVars, stateVars, queueVars, flowVars, toolVars
  <2> HIDE DEF x
  <2>4. RecordedOf(FollowUpMsg)' = RecordedOf(FollowUpMsg)
    BY <1>0, <2>1, <2>2, <2>3, OthersNotRecorded
  <2> QED
    BY <2>3, <2>4, <1>a
<1>11. ASSUME StreamStart PROVE [FollowUps!Next]_(FollowUps!vars)
  <2>1. fresh' \cap FollowUpMsg = fresh \cap FollowUpMsg /\ UNCHANGED <<followUpQueue, pending, lost, messages>>
    BY <1>11 DEF StreamStart, agentVars, stateVars, queueVars, flowVars, toolVars
  <2> QED
    BY <2>1, <1>a, <1>b
<1>12. ASSUME StreamError PROVE [FollowUps!Next]_(FollowUps!vars)
  <2> DEFINE x == Entry("assistant", turn + 1, 0, "error")
  <2>1. x \in EntrySet
    BY <1>0, EntryTypes, LoopAssumption DEF Stops
  <2>2. x.role # "user"
    BY DEF Entry, Result
  <2>3. messages' = Append(messages, x) /\ UNCHANGED <<fresh, followUpQueue, pending, lost>>
    BY <1>12 DEF StreamError, FinishStream, NewCalls, EmitAgentEnd, Goto, agentVars, stateVars,
         queueVars, flowVars, toolVars
  <2> HIDE DEF x
  <2>4. RecordedOf(FollowUpMsg)' = RecordedOf(FollowUpMsg)
    BY <1>0, <2>1, <2>2, <2>3, OthersNotRecorded
  <2> QED
    BY <2>3, <2>4, <1>a
<1>13. ASSUME NEW n \in 0..MaxCalls, StreamDone(n) PROVE [FollowUps!Next]_(FollowUps!vars)
  <2> DEFINE x == Entry("assistant", turn + 1, n, "stop")
  <2>1. x \in EntrySet
    BY <1>0, EntryTypes, LoopAssumption DEF Stops
  <2>2. x.role # "user"
    BY DEF Entry, Result
  <2>3. messages' = Append(messages, x) /\ UNCHANGED <<fresh, followUpQueue, pending, lost>>
    BY <1>13 DEF StreamDone, FinishStream, NewCalls, Goto, agentVars, stateVars, queueVars, flowVars, toolVars
  <2> HIDE DEF x
  <2>4. RecordedOf(FollowUpMsg)' = RecordedOf(FollowUpMsg)
    BY <1>0, <2>1, <2>2, <2>3, OthersNotRecorded
  <2> QED
    BY <2>3, <2>4, <1>a
<1>14. ASSUME NEW i \in 1..MaxCalls, PrepareCall(i) PROVE [FollowUps!Next]_(FollowUps!vars)
  <2>1. fresh' \cap FollowUpMsg = fresh \cap FollowUpMsg /\ UNCHANGED <<followUpQueue, pending, lost, messages>>
    BY <1>14 DEF PrepareCall, SetCall, agentVars, stateVars, queueVars, flowVars, toolVars
  <2> QED
    BY <2>1, <1>a, <1>b
<1>15. ASSUME NEW i \in 1..MaxCalls, ToolReturns(i) PROVE [FollowUps!Next]_(FollowUps!vars)
  <2>1. CASE sequential
    <3> DEFINE x == Result(turn, i)
    <3>1. x \in EntrySet
      BY <1>0, EntryTypes, LoopAssumption
    <3>2. x.role # "user"
      BY DEF Entry, Result
    <3>3. messages' = Append(messages, x) /\ UNCHANGED <<fresh, followUpQueue, pending, lost>>
      BY <1>15, <2>1 DEF ToolReturns, EndCall, SetCall, CallId, agentVars, stateVars, queueVars,
           flowVars, toolVars
    <3> HIDE DEF x
    <3>4. RecordedOf(FollowUpMsg)' = RecordedOf(FollowUpMsg)
      BY <1>0, <3>1, <3>2, <3>3, OthersNotRecorded
    <3> QED
      BY <3>3, <3>4, <1>a
  <2>2. CASE ~sequential
    <3>1. UNCHANGED <<fresh, followUpQueue, pending, lost, messages>>
      BY <1>15, <2>2 DEF ToolReturns, EndCall, SetCall, CallId, agentVars, stateVars, queueVars,
           flowVars, toolVars
    <3> QED
      BY <3>1, <1>a, <1>b
  <2> QED
    BY <2>1, <2>2
<1>16. ASSUME NEW i \in 1..MaxCalls, ToolEndThrows(i) PROVE [FollowUps!Next]_(FollowUps!vars)
  <2>1. fresh' \cap FollowUpMsg = fresh \cap FollowUpMsg /\ UNCHANGED <<followUpQueue, pending, lost, messages>>
    BY <1>16 DEF ToolEndThrows, Goto, CallId, agentVars, stateVars, queueVars, flowVars, toolVars
  <2> QED
    BY <2>1, <1>a, <1>b
<1>17. ASSUME NEW z \in zombies, ZombieEnds(z) PROVE [FollowUps!Next]_(FollowUps!vars)
  <2>1. fresh' \cap FollowUpMsg = fresh \cap FollowUpMsg /\ UNCHANGED <<followUpQueue, pending, lost, messages>>
    BY <1>17 DEF ZombieEnds, agentVars, stateVars, queueVars, flowVars, toolVars
  <2> QED
    BY <2>1, <1>a, <1>b
<1>18. ASSUME RunThrows PROVE [FollowUps!Next]_(FollowUps!vars)
  <2>1. /\ UNCHANGED <<fresh, followUpQueue, messages>>
        /\ \/ pending' = <<>> /\ lost' = lost \cup ToSet(pending)
           \/ pending' = pending /\ lost' = lost
    BY <1>18 DEF RunThrows, DropPending, Goto, agentVars, stateVars, queueVars, flowVars, toolVars
  <2> QED
    BY <2>1, <1>a, <1>b, <1>d
<1>19. ASSUME EmitPrompt PROVE [FollowUps!Next]_(FollowUps!vars)
  <2>1. /\ pending # <<>> /\ messages' = Append(messages, User(Head(pending))) /\ pending' = Tail(pending)
        /\ UNCHANGED <<fresh, followUpQueue, lost>>
    BY <1>0, <1>19 DEF EmitPrompt, Record, Goto, agentVars, stateVars, queueVars, flowVars, toolVars, HoldInv
  <2> QED
    BY <2>1, <1>c
<1>20. ASSUME FirstPoll PROVE [FollowUps!Next]_(FollowUps!vars)
  <2>1. /\ pending = <<>> /\ UNCHANGED <<fresh, followUpQueue, messages, lost>>
        /\ pending' = <<>> \/ pending' = Drained(steeringQueue, SteeringMode)
    BY <1>0, <1>20 DEF FirstPoll, PollSteering, Goto, agentVars, stateVars, queueVars, flowVars,
         toolVars, HoldInv, Holding
  <2>2. Drained(steeringQueue, SteeringMode) \in Seq(SteerMsg) /\ <<>> \in Seq(SteerMsg) /\ SteerMsg \cap FollowUpMsg = {}
    BY <1>0, <1>1, DrainTypes
  <2>3. pending' \in Seq(SteerMsg)
    BY <2>1, <2>2
  <2> QED
    BY <2>1, <2>2, <2>3, <1>f
<1>21. ASSUME EnterLoop PROVE [FollowUps!Next]_(FollowUps!vars)
  <2>1. /\ UNCHANGED <<fresh, followUpQueue, messages>>
        /\ \/ pending' = <<>> /\ lost' = lost \cup ToSet(pending)
           \/ pending' = pending /\ lost' = lost
    BY <1>21 DEF EnterLoop, DropPending, Goto, agentVars, stateVars, queueVars, flowVars, toolVars
  <2> QED
    BY <2>1, <1>a, <1>b, <1>d
<1>22. ASSUME LeaveInner PROVE [FollowUps!Next]_(FollowUps!vars)
  <2>1. fresh' \cap FollowUpMsg = fresh \cap FollowUpMsg /\ UNCHANGED <<followUpQueue, pending, lost, messages>>
    BY <1>22 DEF LeaveInner, EmitAgentEnd, Goto, NoMessages, agentVars, stateVars, queueVars,
         flowVars, toolVars
  <2> QED
    BY <2>1, <1>a, <1>b
<1>23. ASSUME EnterTurn PROVE [FollowUps!Next]_(FollowUps!vars)
  <2>1. /\ UNCHANGED <<fresh, followUpQueue, messages>>
        /\ \/ pending' = <<>> /\ lost' = lost \cup ToSet(pending)
           \/ pending' = pending /\ lost' = lost
    BY <1>23 DEF EnterTurn, DropPending, Goto, NoMessages, agentVars, stateVars, queueVars, flowVars, toolVars
  <2> QED
    BY <2>1, <1>a, <1>b, <1>d
<1>24. ASSUME RouteNone PROVE [FollowUps!Next]_(FollowUps!vars)
  <2>1. fresh' \cap FollowUpMsg = fresh \cap FollowUpMsg /\ UNCHANGED <<followUpQueue, pending, lost, messages>>
    BY <1>24 DEF RouteNone, Goto, agentVars, stateVars, queueVars, flowVars, toolVars
  <2> QED
    BY <2>1, <1>a, <1>b
<1>25. ASSUME Inject PROVE [FollowUps!Next]_(FollowUps!vars)
  <2>1. CASE pending = <<>>
    <3>1. UNCHANGED <<fresh, followUpQueue, pending, lost, messages>>
      BY <1>25, <2>1 DEF Inject, Record, Goto, NoMessages, agentVars, stateVars, queueVars, flowVars, toolVars
    <3> QED
      BY <3>1, <1>a, <1>b
  <2>2. CASE pending # <<>>
    <3>1. /\ messages' = Append(messages, User(Head(pending))) /\ pending' = Tail(pending)
          /\ UNCHANGED <<fresh, followUpQueue, lost>>
      BY <1>25, <2>2 DEF Inject, Record, Goto, NoMessages, agentVars, stateVars, queueVars, flowVars, toolVars
    <3> QED
      BY <2>2, <3>1, <1>c
  <2> QED
    BY <2>1, <2>2
<1>26. ASSUME StreamAborted PROVE [FollowUps!Next]_(FollowUps!vars)
  <2> DEFINE x == Entry("assistant", turn + 1, 0, "aborted")
  <2>1. x \in EntrySet
    BY <1>0, EntryTypes, LoopAssumption DEF Stops
  <2>2. x.role # "user"
    BY DEF Entry, Result
  <2>3. messages' = Append(messages, x) /\ UNCHANGED <<fresh, followUpQueue, pending, lost>>
    BY <1>26 DEF StreamAborted, FinishStream, NewCalls, EmitAgentEnd, Goto, agentVars, stateVars,
         queueVars, flowVars, toolVars
  <2> HIDE DEF x
  <2>4. RecordedOf(FollowUpMsg)' = RecordedOf(FollowUpMsg)
    BY <1>0, <2>1, <2>2, <2>3, OthersNotRecorded
  <2> QED
    BY <2>3, <2>4, <1>a
<1>27. ASSUME NEW i \in 1..MaxCalls, StartCall(i) PROVE [FollowUps!Next]_(FollowUps!vars)
  <2>1. fresh' \cap FollowUpMsg = fresh \cap FollowUpMsg /\ UNCHANGED <<followUpQueue, pending, lost, messages>>
    BY <1>27 DEF StartCall, SetCall, CallId, agentVars, stateVars, queueVars, flowVars, toolVars
  <2> QED
    BY <2>1, <1>a, <1>b
<1>28. ASSUME NEW i \in 1..MaxCalls, ImmediateCall(i) PROVE [FollowUps!Next]_(FollowUps!vars)
  <2>1. CASE sequential
    <3> DEFINE x == Result(turn, i)
    <3>1. x \in EntrySet
      BY <1>0, EntryTypes, LoopAssumption
    <3>2. x.role # "user"
      BY DEF Entry, Result
    <3>3. messages' = Append(messages, x) /\ UNCHANGED <<fresh, followUpQueue, pending, lost>>
      BY <1>28, <2>1 DEF ImmediateCall, EndCall, SetCall, CallId, agentVars, stateVars, queueVars,
           flowVars, toolVars
    <3> HIDE DEF x
    <3>4. RecordedOf(FollowUpMsg)' = RecordedOf(FollowUpMsg)
      BY <1>0, <3>1, <3>2, <3>3, OthersNotRecorded
    <3> QED
      BY <3>3, <3>4, <1>a
  <2>2. CASE ~sequential
    <3>1. UNCHANGED <<fresh, followUpQueue, pending, lost, messages>>
      BY <1>28, <2>2 DEF ImmediateCall, EndCall, SetCall, CallId, agentVars, stateVars, queueVars,
           flowVars, toolVars
    <3> QED
      BY <3>1, <1>a, <1>b
  <2> QED
    BY <2>1, <2>2
<1>29. ASSUME NEW i \in 1..MaxCalls, ToolAborted(i) PROVE [FollowUps!Next]_(FollowUps!vars)
  <2>1. CASE sequential
    <3> DEFINE x == Result(turn, i)
    <3>1. x \in EntrySet
      BY <1>0, EntryTypes, LoopAssumption
    <3>2. x.role # "user"
      BY DEF Entry, Result
    <3>3. messages' = Append(messages, x) /\ UNCHANGED <<fresh, followUpQueue, pending, lost>>
      BY <1>29, <2>1 DEF ToolAborted, EndCall, SetCall, CallId, agentVars, stateVars, queueVars,
           flowVars, toolVars
    <3> HIDE DEF x
    <3>4. RecordedOf(FollowUpMsg)' = RecordedOf(FollowUpMsg)
      BY <1>0, <3>1, <3>2, <3>3, OthersNotRecorded
    <3> QED
      BY <3>3, <3>4, <1>a
  <2>2. CASE ~sequential
    <3>1. UNCHANGED <<fresh, followUpQueue, pending, lost, messages>>
      BY <1>29, <2>2 DEF ToolAborted, EndCall, SetCall, CallId, agentVars, stateVars, queueVars,
           flowVars, toolVars
    <3> QED
      BY <3>1, <1>a, <1>b
  <2> QED
    BY <2>1, <2>2
<1>30. ASSUME LaunchCalls PROVE [FollowUps!Next]_(FollowUps!vars)
  <2>1. fresh' \cap FollowUpMsg = fresh \cap FollowUpMsg /\ UNCHANGED <<followUpQueue, pending, lost, messages>>
    BY <1>30 DEF LaunchCalls, agentVars, stateVars, queueVars, flowVars, toolVars
  <2> QED
    BY <2>1, <1>a, <1>b
<1>31. ASSUME RecordResult PROVE [FollowUps!Next]_(FollowUps!vars)
  <2>1. PICK k \in 0..NumCalls : messages' = Append(messages, Result(turn, k + 1))
    BY <1>31, ResultRecorded DEF LoopInv
  <2>2. k + 1 \in Nat
    <3>1. NumCalls \in Nat
      BY <1>31, LoopAssumption DEF LoopInv, BatchInv, RecordResult
    <3> QED
      BY <3>1
  <2> DEFINE x == Result(turn, k + 1)
  <2>3. x \in EntrySet
    BY <1>0, <2>2, EntryTypes
  <2>4. x.role # "user"
    BY DEF Entry, Result
  <2>5. messages' = Append(messages, x) /\ UNCHANGED <<fresh, followUpQueue, pending, lost>>
    BY <1>31, <2>1 DEF RecordResult, agentVars, stateVars, queueVars, flowVars, toolVars
  <2> HIDE DEF x
  <2>6. RecordedOf(FollowUpMsg)' = RecordedOf(FollowUpMsg)
    BY <1>0, <2>3, <2>4, <2>5, OthersNotRecorded
  <2> QED
    BY <2>5, <2>6, <1>a
<1>32. ASSUME FinishBatch PROVE [FollowUps!Next]_(FollowUps!vars)
  <2>1. fresh' \cap FollowUpMsg = fresh \cap FollowUpMsg /\ UNCHANGED <<followUpQueue, pending, lost, messages>>
    BY <1>32 DEF FinishBatch, Goto, agentVars, stateVars, queueVars, flowVars, toolVars
  <2> QED
    BY <2>1, <1>a, <1>b
<1>33. ASSUME TurnEnd PROVE [FollowUps!Next]_(FollowUps!vars)
  <2>1. fresh' \cap FollowUpMsg = fresh \cap FollowUpMsg /\ UNCHANGED <<followUpQueue, pending, lost, messages>>
    BY <1>33 DEF TurnEnd, EmitAgentEnd, Goto, agentVars, stateVars, queueVars, flowVars, toolVars
  <2> QED
    BY <2>1, <1>a, <1>b
<1>34. ASSUME StopAfterTurn PROVE [FollowUps!Next]_(FollowUps!vars)
  <2>1. fresh' \cap FollowUpMsg = fresh \cap FollowUpMsg /\ UNCHANGED <<followUpQueue, pending, lost, messages>>
    BY <1>34 DEF StopAfterTurn, EmitAgentEnd, Goto, agentVars, stateVars, queueVars, flowVars, toolVars
  <2> QED
    BY <2>1, <1>a, <1>b
<1>35. ASSUME GoOnAfterTurn PROVE [FollowUps!Next]_(FollowUps!vars)
  <2>1. fresh' \cap FollowUpMsg = fresh \cap FollowUpMsg /\ UNCHANGED <<followUpQueue, pending, lost, messages>>
    BY <1>35 DEF GoOnAfterTurn, Goto, agentVars, stateVars, queueVars, flowVars, toolVars
  <2> QED
    BY <2>1, <1>a, <1>b
<1>36. ASSUME SteeringPoll PROVE [FollowUps!Next]_(FollowUps!vars)
  <2>1. /\ pending = <<>> /\ UNCHANGED <<fresh, followUpQueue, messages, lost>>
        /\ pending' = <<>> \/ pending' = Drained(steeringQueue, SteeringMode)
    BY <1>0, <1>36 DEF SteeringPoll, PollSteering, Goto, agentVars, stateVars, queueVars, flowVars,
         toolVars, HoldInv, Holding
  <2>2. Drained(steeringQueue, SteeringMode) \in Seq(SteerMsg) /\ <<>> \in Seq(SteerMsg) /\ SteerMsg \cap FollowUpMsg = {}
    BY <1>0, <1>1, DrainTypes
  <2>3. pending' \in Seq(SteerMsg)
    BY <2>1, <2>2
  <2> QED
    BY <2>1, <2>2, <2>3, <1>f
<1>37. ASSUME AfterSteeringPoll PROVE [FollowUps!Next]_(FollowUps!vars)
  <2>1. /\ UNCHANGED <<fresh, followUpQueue, messages>>
        /\ \/ pending' = <<>> /\ lost' = lost \cup ToSet(pending)
           \/ pending' = pending /\ lost' = lost
    BY <1>37 DEF AfterSteeringPoll, DropPending, EmitAgentEnd, Goto, NoMessages, agentVars,
         stateVars, queueVars, flowVars, toolVars
  <2> QED
    BY <2>1, <1>a, <1>b, <1>d
<1>38. ASSUME FollowUpPoll PROVE [FollowUps!Next]_(FollowUps!vars)
  <2>1. /\ pending = <<>> /\ UNCHANGED <<fresh, messages, lost>>
        /\ \/ pending' = <<>> /\ followUpQueue' = followUpQueue
           \/ pending' = Drained(followUpQueue, FollowUpMode) /\ followUpQueue' = Remaining(followUpQueue, FollowUpMode)
    BY <1>0, <1>38 DEF FollowUpPoll, Goto, agentVars, stateVars, queueVars, flowVars, toolVars,
         HoldInv, Holding
  <2>2. pending' = <<>> /\ followUpQueue' = followUpQueue => pending' = pending
    BY <2>1
  <2> QED
    BY <2>1, <2>2, <1>a, <1>b, <1>e
<1>39. ASSUME AfterFollowUpPoll PROVE [FollowUps!Next]_(FollowUps!vars)
  <2>1. /\ UNCHANGED <<fresh, followUpQueue, messages>>
        /\ \/ pending' = <<>> /\ lost' = lost \cup ToSet(pending)
           \/ pending' = pending /\ lost' = lost
    BY <1>39 DEF AfterFollowUpPoll, DropPending, EmitAgentEnd, Goto, NoMessages, agentVars,
         stateVars, queueVars, flowVars, toolVars
  <2> QED
    BY <2>1, <1>a, <1>b, <1>d
<1>40. ASSUME NoContinuation PROVE [FollowUps!Next]_(FollowUps!vars)
  <2>1. fresh' \cap FollowUpMsg = fresh \cap FollowUpMsg /\ UNCHANGED <<followUpQueue, pending, lost, messages>>
    BY <1>40 DEF NoContinuation, EmitAgentEnd, Goto, agentVars, stateVars, queueVars, flowVars, toolVars
  <2> QED
    BY <2>1, <1>a, <1>b
<1>41. ASSUME HandleRunFailure PROVE [FollowUps!Next]_(FollowUps!vars)
  <2> DEFINE x == Entry("assistant", turn + 1, 0, IF aborted THEN "aborted" ELSE "error")
  <2>1. x \in EntrySet
    BY <1>0, EntryTypes, LoopAssumption DEF Stops
  <2>2. x.role # "user"
    BY DEF Entry, Result
  <2>3. messages' = Append(messages, x) /\ UNCHANGED <<fresh, followUpQueue, pending, lost>>
    BY <1>41 DEF HandleRunFailure, Goto, agentVars, stateVars, queueVars, flowVars, toolVars
  <2> HIDE DEF x
  <2>4. RecordedOf(FollowUpMsg)' = RecordedOf(FollowUpMsg)
    BY <1>0, <2>1, <2>2, <2>3, OthersNotRecorded
  <2> QED
    BY <2>3, <2>4, <1>a
<1>42. ASSUME FinishRun PROVE [FollowUps!Next]_(FollowUps!vars)
  <2>1. fresh' \cap FollowUpMsg = fresh \cap FollowUpMsg /\ UNCHANGED <<followUpQueue, pending, lost, messages>>
    BY <1>42 DEF FinishRun, NoLocals, Goto, agentVars, stateVars, queueVars, flowVars, toolVars
  <2> QED
    BY <2>1, <1>a, <1>b
<1>43. ASSUME UNCHANGED vars PROVE [FollowUps!Next]_(FollowUps!vars)
  <2>1. UNCHANGED <<fresh, followUpQueue, pending, lost, messages>>
    BY <1>43 DEF vars, stateVars, queueVars
  <2> QED
    BY <2>1, <1>a, <1>b
<1> QED
  BY <1>3, <1>4, <1>5, <1>6, <1>7, <1>8, <1>9, <1>10, <1>11, <1>12, <1>13, <1>14, <1>15, <1>16, <1>17,
       <1>18, <1>19, <1>20, <1>21, <1>22, <1>23, <1>24, <1>25, <1>26, <1>27, <1>28, <1>29, <1>30,
       <1>31, <1>32, <1>33, <1>34, <1>35, <1>36, <1>37, <1>38, <1>39, <1>40, <1>41, <1>42, <1>43 DEF
       Next, External, Internal

(* The agent's queues implement MessageDelivery: what is submitted is      *)
(* recorded in the order it was taken, at most once, and a waiting message *)
(* is never forgotten, for any messages and modes.                         *)
THEOREM QueuesImplementDelivery == Spec => QueuesDelivered
<1>1. Init => Steering!Init /\ FollowUps!Init
  <2> SUFFICES ASSUME Init PROVE Steering!Init /\ FollowUps!Init
    OBVIOUS
  <2>1. messages = <<>> /\ pending = <<>> /\ fresh = Msg /\ lost = {} /\ steeringQueue = <<>> /\ followUpQueue = <<>>
    BY DEF Init
  <2>2. \A S : Keep(<<>>, S) = <<>>
    <3> TAKE S
    <3>1. <<>> \in Seq({}) /\ \A i \in 1..Len(<<>>) : <<>>[i] \notin S
      OBVIOUS
    <3> QED
      BY <3>1, KeepNone
  <2>3. \A C : RecordedOf(C) = <<>> /\ TakenOf(C) = <<>>
    BY <2>1, <2>2 DEF RecordedOf, TakenOf
  <2> QED
    BY <2>1, <2>3 DEF Steering!Init, FollowUps!Init, Msg
<1>2. LoopInv /\ [Next]_vars => [Steering!Next]_(Steering!vars)
  BY SteeringStep
<1>3. LoopInv /\ [Next]_vars => [FollowUps!Next]_(FollowUps!vars)
  BY FollowUpsStep
<1> QED
  BY <1>1, <1>2, <1>3, LoopInvariant, PTL DEF Spec, QueuesDelivered, Steering!Spec, FollowUps!Spec
=============================================================================
