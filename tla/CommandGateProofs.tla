---- MODULE CommandGateProofs ----
(***************************************************************************)
(* The admission of mutating commands, for any set of commands, deliveries *)
(* and evictions, and any number of lost connections, crashes and losses   *)
(* of ownership.  What rests on the journal's file is proved for appends   *)
(* that are all or nothing.                                                *)
(***************************************************************************)
EXTENDS CommandGate, TLAPS

(* A line that has not been dispatched or answered.                        *)
Undecided(l) == at[l] \in {"sent", "fenced", "woken"}

(* A line on its way is the last one of a command that is not answered.    *)
SentIsCurrent ==
    /\ \A l \in Line : at[l] = "sent" => Current(l)
    /\ \A l \in Line : at[l] # "none" => l[2] <= sends[Of(l)]
    /\ \A c \in Cmd : answer[c] # "none" \/ c \in acks => request[c] = "answered"

(* Lines wait for a fence only while there is one, before a restart is     *)
(* prepared or for the shutdown after it, and not next to lines an earlier *)
(* fence has let go.                                                       *)
FencedHaveFence ==
    /\ \A l \in Line : at[l] = "fenced" =>
          /\ fence # None /\ Woken = {} /\ entries[Of(l)] = "none" /\ Kind[Of(l)] # "drain"
          /\ phase = "none" \/ (phase = "prepared" /\ Kind[Of(l)] = "shutdown")
    /\ \A l \in Line : at[l] \in {"fenced", "woken"} => l \in waited

(* Nothing of a crashed supervisor goes on.                                *)
DownIsIdle == ~up => ~connected /\ \A l \in Line : at[l] \in {"none", "done"}

(* The evictor past its acquisition is the one that holds the fence.       *)
HolderHasFence == \A e \in Evictor : ev[e] \in {"draining", "acting", "stopping"} => fence = e

(* The phase of a restart goes with the stage of its preparation, and the  *)
(* second drain begins when nothing is left of what the fences let go;     *)
(* what a later fence lets go is the shutdown.                             *)
StageFitsPhase ==
    /\ stage \in {"first", "passed"} => phase = "draining"
    /\ stage \in {"second", "working"} => phase = "fencing"
    /\ stage = "none" => phase \in {"none", "prepared"}
    /\ phase = "fencing" => Woken = {}
    /\ phase = "prepared" => \A l \in Woken : Kind[Of(l)] = "shutdown"

GateInv ==
    /\ TypeOK
    /\ DownIsIdle
    /\ SentIsCurrent
    /\ FencedHaveFence
    /\ HolderHasFence
    /\ StageFitsPhase
    /\ PreparedIsQuiet
    /\ OverlapNeedsEarlierFence

(* The journal's file is the memory's, or what the next start will read; a *)
(* command that has run is in it unless its client has acknowledged the    *)
(* answer and nothing of it is left to decide.                             *)
RanIsKnown ==
    \A c \in Cmd : executed[c] > 0 /\ Load(journal)[c] = "none" =>
        request[c] = "answered" /\ \A l \in Line : Of(l) = c => ~Undecided(l)

RejectedIsSettled ==
    \A c \in Cmd : answer[c] = "rejected" =>
        executed[c] = 0 /\ \A l \in Line : Of(l) = c => ~Undecided(l)

JournalInv ==
    /\ GateInv
    /\ journal.tail = "clean"
    /\ JournalAgrees
    /\ RanIsKnown
    /\ AtMostOnce
    /\ RejectedIsSettled
----------------------------------------------------------------------------
(* A line is a command and a number.                                       *)
LEMMA LineFacts ==
    ASSUME GateAssumption
    PROVE  /\ \A l \in Line : Of(l) \in Cmd /\ l[2] \in Nat /\ l = <<Of(l), l[2]>>
           /\ \A c \in Cmd : \A n \in 1 .. MaxSends[c] : <<c, n>> \in Line
BY DEF Line, Of, GateAssumption

(* The journal keeps its type through appends, whole and torn, and         *)
(* compactions.                                                            *)
LEMMA JournalTypes ==
    ASSUME NEW j \in Journal, NEW c \in Cmd, NEW type \in Record
    PROVE  /\ AppendRecord(j, c, type) \in Journal
           /\ CrashedAppends(j, c, type) \subseteq Journal
<1> USE DEF Journal
<1>1. AppendRecord(j, c, type) \in Journal
  <2>1. ASSUME NEW s \in Seq(Record)
        PROVE  Front(s) \in Seq(Record) /\ Append(s, type) \in Seq(Record)
    BY DEF Front
  <2> QED
    BY <2>1 DEF AppendRecord
<1>2. [j EXCEPT !.tail = "cut"] \in Journal
  OBVIOUS
<1>3. [AppendRecord(j, c, type) EXCEPT !.tail = c] \in Journal
  BY <1>1
<1> QED
  BY <1>1, <1>2, <1>3 DEF CrashedAppends

LEMMA CompactedType ==
    ASSUME NEW es \in [Cmd -> {"none", "pending", "complete"}]
    PROVE  Compacted(es) \in Journal
<1>1. <<>> \in Seq(Record) /\ <<"received">> \in Seq(Record) /\ <<"received", "result">> \in Seq(Record)
  BY DEF Record
<1> QED
  BY <1>1 DEF Compacted, Journal

(* A line is dispatched without a fence, unless it has waited for one or   *)
(* needs none, and before the restart is prepared or to shut down.         *)
Admitted(l) ==
    /\ Dispatch(l) /\ entries[Of(l)] = "none"
    /\ at[l] = "sent" => /\ Kind[Of(l)] = "drain" \/ fence = None
                         /\ \/ phase = "none"
                            \/ phase = "draining" /\ Kind[Of(l)] = "drain"
                            \/ phase = "prepared" /\ Kind[Of(l)] = "shutdown"

(* What handleLine does with a line it takes up: it answers, waits for the *)
(* fence, or dispatches.                                                   *)
LEMMA AdmitCases ==
    ASSUME NEW l \in Line, TypeOK, Deliver(l) \/ Continue(l)
    PROVE  /\ up /\ UNCHANGED <<up, owned, fence, ev, faults>>
           /\ (at[l] = "sent" /\ Quiet) \/ at[l] = "woken"
           /\ \/ \E r \in {"result", "uncertain", "rejected", "stale", "failed"} :
                    /\ Reply(l, r)
                    /\ r = "rejected" =>
                          Quiet /\ at[l] = "sent" /\ entries[Of(l)] = "none" /\ RestartRejected(Of(l))
              \/ /\ AwaitFence(l) /\ Quiet /\ at[l] = "sent"
                 /\ entries[Of(l)] = "none" /\ fence # None /\ Kind[Of(l)] # "drain"
                 /\ phase = "none" \/ (phase = "prepared" /\ Kind[Of(l)] = "shutdown")
              \/ Admitted(l)
<1>0. entries[Of(l)] \in {"none", "pending", "complete"}
  BY GateAssumption, LineFacts DEF TypeOK
<1>1. CASE Deliver(l)
  <2> DEFINE known == entries[Of(l)]
             fenced == ~RestartRejected(Of(l)) /\ Kind[Of(l)] # "drain" /\ fence # None
  <2>0. up /\ Quiet /\ at[l] = "sent" /\ UNCHANGED <<up, owned, fence, ev, faults>>
    BY <1>1 DEF Deliver
  <2>1. known \in {"none", "pending", "complete"}
    BY <1>0
  <2>2. CASE ~Serving
    <3>1. Reply(l, "stale")
      BY <1>1, <2>2 DEF Deliver
    <3> QED
      BY <2>0, <3>1
  <2>3. CASE Serving /\ known # "none"
    <3>1. Reply(l, "result") \/ Reply(l, "uncertain")
      BY <1>1, <2>1, <2>3 DEF Deliver
    <3> QED
      BY <2>0, <3>1
  <2>4. CASE Serving /\ known = "none" /\ RestartRejected(Of(l))
    <3>1. Reply(l, "rejected")
      BY <1>1, <2>4 DEF Deliver
    <3> QED
      BY <2>0, <2>4, <3>1
  <2>5. CASE Serving /\ known = "none" /\ fenced
    <3>1. AwaitFence(l)
      BY <1>1, <2>5 DEF Deliver
    <3> QED
      BY <2>0, <2>5, <3>1 DEF RestartRejected, TypeOK
  <2>6. CASE Serving /\ known = "none" /\ ~RestartRejected(Of(l)) /\ ~fenced
    <3>1. Dispatch(l)
      BY <1>1, <2>6 DEF Deliver, Begin
    <3>2. \/ phase = "none"
          \/ phase = "draining" /\ Kind[Of(l)] = "drain"
          \/ phase = "prepared" /\ Kind[Of(l)] = "shutdown"
      BY <2>6 DEF RestartRejected, TypeOK
    <3>3. Kind[Of(l)] = "drain" \/ fence = None
      BY <2>6
    <3> QED
      BY <2>0, <2>6, <3>1, <3>2, <3>3 DEF Admitted
  <2> QED
    BY <2>2, <2>3, <2>4, <2>5, <2>6
<1>2. CASE Continue(l)
  <2>0. up /\ at[l] = "woken" /\ UNCHANGED <<up, owned, fence, ev, faults>>
    BY <1>2 DEF Continue
  <2>1. CASE Reply(l, "stale") \/ Reply(l, "result") \/ Reply(l, "uncertain")
    BY <2>0, <2>1
  <2>2. CASE Dispatch(l) /\ entries[Of(l)] = "none"
    BY <2>0, <2>2 DEF Admitted
  <2> QED
    BY <1>0, <1>2, <2>1, <2>2 DEF Continue, Begin
<1> QED
  BY <1>1, <1>2

(* An answer changes what the client sees of its own command only, and     *)
(* only when that command is waited for.                                   *)
LEMMA WriteFacts ==
    ASSUME NEW l \in Line, NEW r \in {"result", "uncertain", "rejected", "stale", "failed"},
           TypeOK, Write(l, r)
    PROVE  /\ Of(l) \in Cmd
           /\ UNCHANGED <<connected, sends>>
           /\ request' \in [Cmd -> {"new", "sent", "lost", "answered"}]
           /\ answer' \in [Cmd -> {"none", "result", "uncertain", "rejected", "stale", "failed"}]
           /\ acks' \subseteq Cmd
           /\ \A c \in Cmd : c # Of(l) => request'[c] = request[c] /\ answer'[c] = answer[c] /\ (c \in acks' <=> c \in acks)
           /\ \/ Current(l) /\ request'[Of(l)] = "answered" /\ answer'[Of(l)] = r
              \/ /\ request'[Of(l)] = request[Of(l)] /\ answer'[Of(l)] = answer[Of(l)]
                 /\ Of(l) \in acks' <=> Of(l) \in acks
<1>0. Of(l) \in Cmd
  BY GateAssumption, LineFacts
<1>1. CASE connected /\ Current(l)
  <2>1. /\ request' = [request EXCEPT ![Of(l)] = "answered"]
        /\ answer' = [answer EXCEPT ![Of(l)] = r]
        /\ acks' = acks \cup {Of(l)}
        /\ UNCHANGED <<connected, sends>>
    BY <1>1 DEF Write
  <2> QED
    BY <1>0, <1>1, <2>1 DEF TypeOK
<1>2. CASE ~(connected /\ Current(l))
  <2>1. UNCHANGED <<connected, request, answer, sends, acks>>
    BY <1>2 DEF Write, client
  <2> QED
    BY <1>0, <2>1 DEF TypeOK
<1> QED
  BY <1>1, <1>2

(* Every step keeps the variables in their types.                           *)
LEMMA TypeStep ==
    ASSUME TypeOK, [Next]_vars
    PROVE  TypeOK'
<1> USE GateAssumption, LineFacts DEF TypeOK
<1>1. CASE UNCHANGED vars
  BY <1>1 DEF vars, client, restart
<1>2. ASSUME NEW c \in Cmd, Send(c)
      PROVE  TypeOK'
  <2>1. request' \in [Cmd -> {"new", "sent", "lost", "answered"}]
    BY <1>2 DEF Send
  <2>2. sends' \in [Cmd -> Nat] /\ \A d \in Cmd : sends'[d] <= MaxSends[d]
    BY <1>2 DEF Send, GateAssumption
  <2>3. at' \in [Line -> {"none", "sent", "fenced", "woken", "running", "done"}]
    BY <1>2 DEF Send
  <2>4. UNCHANGED <<connected, answer, acks, up, owned, waited, entries, journal, fence, ev, phase, stage,
                    halt, executed, faults>>
    BY <1>2 DEF Send, restart
  <2> QED
    BY <2>1, <2>2, <2>3, <2>4
<1>3. ASSUME NEW c \in Cmd, Acknowledge(c)
      PROVE  TypeOK'
  <2>1. [entries EXCEPT ![c] = "none"] \in [Cmd -> {"none", "pending", "complete"}]
    OBVIOUS
  <2>2. AppendRecord(journal, c, "acknowledged") \in Journal
    BY JournalTypes DEF Record
  <2>3. Compacted([entries EXCEPT ![c] = "none"]) \in Journal
    BY <2>1, CompactedType
  <2>4. entries' \in [Cmd -> {"none", "pending", "complete"}] /\ journal' \in Journal
    BY <1>3, <2>1, <2>2, <2>3 DEF Acknowledge
  <2>5. /\ acks' \subseteq Cmd
        /\ UNCHANGED <<connected, request, answer, sends, up, owned, at, waited, fence, ev, phase, stage, halt,
                        executed, faults>>
    BY <1>3 DEF Acknowledge, client, restart
  <2> QED
    BY <2>4, <2>5
<1>4. CASE Drop
  <2>1. connected' \in BOOLEAN
    BY <1>4, Zenon DEF Drop, Disconnected
  <2>2. request' \in [Cmd -> {"new", "sent", "lost", "answered"}] /\ acks' \subseteq Cmd
    BY <1>4 DEF Drop, Disconnected
  <2>3. at' \in [Line -> {"none", "sent", "fenced", "woken", "running", "done"}] /\ faults' \in 0 .. MaxFaults
    BY <1>4 DEF Drop
  <2>4. UNCHANGED <<answer, sends, up, owned, waited, entries, journal, fence, ev, phase, stage, halt, executed>>
    BY <1>4 DEF Drop, Disconnected, restart
  <2> QED
    BY <2>1, <2>2, <2>3, <2>4
<1>5. CASE Reconnect
  BY <1>5 DEF Reconnect, Preparing, Disconnected, client, restart
<1>6. CASE FirstDrained
  BY <1>6 DEF FirstDrained, Preparing, Disconnected, client, restart
<1>7. CASE SecondDrain
  BY <1>7 DEF SecondDrain, Preparing, Disconnected, client, restart
<1>8. CASE SecondDrained
  BY <1>8 DEF SecondDrained, Preparing, Disconnected, client, restart
<1>9. CASE Prepared
  BY <1>9 DEF Prepared, Preparing, Disconnected, client, restart
<1>10. CASE PreparationFails
  BY <1>10 DEF PreparationFails, Preparing, Disconnected, client, restart
<1>11. CASE LoseOwnership
  <2>1. owned' \in BOOLEAN
    BY <1>11, Zenon DEF LoseOwnership
  <2>2. /\ faults' \in 0 .. MaxFaults
        /\ UNCHANGED <<connected, request, answer, sends, acks, up, at, waited, entries, journal, fence, ev,
                        phase, stage, halt, executed>>
    BY <1>11 DEF LoseOwnership, client, restart
  <2> QED
    BY <2>1, <2>2
<1>12. CASE Crash
  <2>1. connected' \in BOOLEAN /\ up' \in BOOLEAN
    BY <1>12, Zenon DEF Crash, Ended, Disconnected
  <2>2. request' \in [Cmd -> {"new", "sent", "lost", "answered"}] /\ acks' \subseteq Cmd
    BY <1>12 DEF Crash, Ended, Disconnected
  <2>3. /\ at' \in [Line -> {"none", "sent", "fenced", "woken", "running", "done"}]
        /\ waited' \subseteq Line /\ faults' \in 0 .. MaxFaults
    BY <1>12 DEF Crash, Ended
  <2>4. entries' \in [Cmd -> {"none", "pending", "complete"}]
    BY <1>12 DEF Crash, Ended
  <2>5. /\ fence' \in Evictor \cup {None}
        /\ ev' \in [Evictor -> {"idle", "waiting", "woken", "draining", "acting", "stopping", "over"}]
        /\ phase' = "none" /\ stage' = "none" /\ halt' = "no"
    BY <1>12 DEF Crash, Ended
  <2>6. journal' \in Journal
    <3>1. \A r \in InWriting : r[1] \in Cmd /\ r[2] \in Record
      BY DEF InWriting, Record, Running
    <3> QED
      BY <1>12, <3>1, JournalTypes DEF Crash, Ended
  <2>7. UNCHANGED <<answer, sends, owned, executed>>
    BY <1>12 DEF Crash, Ended, Disconnected
  <2> QED
    BY <2>1, <2>2, <2>3, <2>4, <2>5, <2>6, <2>7
<1>13. CASE Restart
  <2>1. up' \in BOOLEAN /\ owned' \in BOOLEAN
    BY <1>13, Zenon DEF Restart
  <2>2. entries' \in [Cmd -> {"none", "pending", "complete"}]
    BY <1>13 DEF Restart, Load, LoadEntry
  <2>3. UNCHANGED <<connected, request, answer, sends, acks, at, waited, journal, fence, ev, phase, stage, halt,
                    executed, faults>>
    BY <1>13 DEF Restart, client, restart
  <2> QED
    BY <2>1, <2>2, <2>3
<1>14. ASSUME NEW l \in Line, Deliver(l) \/ Continue(l)
      PROVE  TypeOK'
  <2>0. UNCHANGED <<up, owned, fence, ev, faults>> /\ Of(l) \in Cmd
    BY <1>14, AdmitCases
  <2>1. CASE \E r \in {"result", "uncertain", "rejected", "stale", "failed"} : Reply(l, r)
    <3>1. UNCHANGED <<connected, sends, entries, journal, phase, stage, halt, executed>>
      BY <2>1 DEF Reply, Write, client, restart
    <3>2. /\ request' \in [Cmd -> {"new", "sent", "lost", "answered"}]
          /\ answer' \in [Cmd -> {"none", "result", "uncertain", "rejected", "stale", "failed"}]
          /\ acks' \subseteq Cmd
      BY <2>1, WriteFacts DEF Reply
    <3>3. /\ at' \in [Line -> {"none", "sent", "fenced", "woken", "running", "done"}]
          /\ waited' \subseteq Line
      BY <2>1 DEF Reply
    <3> QED
      BY <2>0, <3>1, <3>2, <3>3
  <2>2. CASE AwaitFence(l)
    BY <2>0, <2>2 DEF AwaitFence, client, restart
  <2>3. CASE Dispatch(l)
    <3>1. journal' \in Journal
      BY <2>0, <2>3, JournalTypes DEF Dispatch, Record
    <3>2. /\ entries' \in [Cmd -> {"none", "pending", "complete"}]
          /\ at' \in [Line -> {"none", "sent", "fenced", "woken", "running", "done"}]
          /\ executed' \in [Cmd -> Nat]
      BY <2>0, <2>3 DEF Dispatch
    <3>3. /\ phase' \in {"none", "draining", "fencing", "prepared"}
          /\ stage' \in {"none", "first", "passed", "second", "working"}
          /\ halt' \in {"no", "called", "halting", "closed"}
      BY <2>3 DEF Dispatch, StartPreparation, CallShutdown
    <3>4. UNCHANGED <<connected, request, answer, sends, acks, waited>>
      BY <2>3 DEF Dispatch, client
    <3> QED
      BY <2>0, <3>1, <3>2, <3>3, <3>4
  <2> QED
    BY <1>14, <2>1, <2>2, <2>3, AdmitCases DEF Admitted
<1>15. ASSUME NEW l \in Line, Finish(l)
      PROVE  TypeOK'
  <2>0. Of(l) \in Cmd
    BY LineFacts
  <2>1. entries' \in [Cmd -> {"none", "pending", "complete"}]
    BY <1>15, <2>0 DEF Finish
  <2>2. journal' \in Journal
    <3>1. AppendRecord(journal, Of(l), "result") \in Journal
      BY <2>0, JournalTypes DEF Record
    <3>2. Compacted([entries EXCEPT ![Of(l)] = "complete"]) \in Journal
      BY <2>0, CompactedType
    <3> QED
      BY <1>15, <3>1, <3>2 DEF Finish
  <2>3. /\ request' \in [Cmd -> {"new", "sent", "lost", "answered"}]
        /\ answer' \in [Cmd -> {"none", "result", "uncertain", "rejected", "stale", "failed"}]
        /\ acks' \subseteq Cmd /\ UNCHANGED <<connected, sends>>
    <3>1. \E r \in {"result", "stale", "failed"} : Write(l, r)
      BY <1>15 DEF Finish
    <3> QED
      BY <3>1, WriteFacts
  <2>4. /\ at' \in [Line -> {"none", "sent", "fenced", "woken", "running", "done"}]
        /\ waited' \subseteq Line
        /\ UNCHANGED <<up, owned, fence, ev, phase, stage, halt, executed, faults>>
    BY <1>15 DEF Finish, restart
  <2> QED
    BY <2>1, <2>2, <2>3, <2>4
<1>16. ASSUME NEW e \in Evictor, StartEviction(e)
      PROVE  TypeOK'
  <2>1. fence' \in Evictor \cup {None} /\ UNCHANGED at
    BY <1>16 DEF StartEviction, Acquire
  <2>2. ev' \in [Evictor -> {"idle", "waiting", "woken", "draining", "acting", "stopping", "over"}]
    <3>1. ev' = [ev EXCEPT ![e] = "draining"] \/ ev' = [ev EXCEPT ![e] = "waiting"]
      BY <1>16 DEF StartEviction, Acquire, EvictorMoves
    <3> QED
      BY <3>1
  <2>3. UNCHANGED <<connected, request, answer, sends, acks, up, owned, waited, entries, journal, phase, stage, halt,
                    executed, faults>>
    BY <1>16 DEF StartEviction, Acquire, EvictorMoves, client, restart
  <2> QED
    BY <2>1, <2>2, <2>3
<1>17. ASSUME NEW e \in Evictor, ResumeEviction(e)
      PROVE  TypeOK'
  <2>1. fence' \in Evictor \cup {None} /\ UNCHANGED at
    BY <1>17 DEF ResumeEviction, Acquire
  <2>2. ev' \in [Evictor -> {"idle", "waiting", "woken", "draining", "acting", "stopping", "over"}]
    BY <1>17 DEF ResumeEviction, Acquire, EvictorMoves
  <2>3. UNCHANGED <<connected, request, answer, sends, acks, up, owned, waited, entries, journal, phase, stage, halt,
                    executed, faults>>
    BY <1>17 DEF ResumeEviction, Acquire, EvictorMoves, client, restart
  <2> QED
    BY <2>1, <2>2, <2>3
<1>18. ASSUME NEW e \in Evictor, EvictionDrained(e)
      PROVE  TypeOK'
  BY <1>18 DEF EvictionDrained, Acquire, EvictorMoves, client, restart
<1>19. ASSUME NEW e \in Evictor, Decide(e)
      PROVE  TypeOK'
  BY <1>19 DEF Decide, Acquire, EvictorMoves, client, restart
<1>20. ASSUME NEW e \in Evictor, ReleaseFence(e)
      PROVE  TypeOK'
  BY <1>20 DEF ReleaseFence, Acquire, EvictorMoves, client, restart
<1>21. CASE BeginShutdown
  BY <1>21 DEF BeginShutdown, Halts, client
<1>22. CASE CloseClients
  <2>1. connected' \in BOOLEAN
    BY <1>22, Zenon DEF CloseClients, Disconnected
  <2>2. request' \in [Cmd -> {"new", "sent", "lost", "answered"}] /\ acks' \subseteq Cmd
    BY <1>22 DEF CloseClients, Disconnected
  <2>3. at' \in [Line -> {"none", "sent", "fenced", "woken", "running", "done"}]
    BY <1>22 DEF CloseClients
  <2>4. halt' = "closed"
    BY <1>22 DEF CloseClients, Halts
  <2>5. UNCHANGED <<answer, sends, up, owned, waited, entries, journal, fence, ev, phase, stage, executed, faults>>
    BY <1>22 DEF CloseClients, Disconnected
  <2> QED
    BY <2>1, <2>2, <2>3, <2>4, <2>5
<1>23. CASE Exit
  <2>1. connected' \in BOOLEAN /\ up' \in BOOLEAN
    BY <1>23, Zenon DEF Exit, Ended, Disconnected
  <2>2. request' \in [Cmd -> {"new", "sent", "lost", "answered"}] /\ acks' \subseteq Cmd
    BY <1>23 DEF Exit, Ended, Disconnected
  <2>3. /\ at' \in [Line -> {"none", "sent", "fenced", "woken", "running", "done"}]
        /\ waited' \subseteq Line
    BY <1>23 DEF Exit, Ended
  <2>4. entries' \in [Cmd -> {"none", "pending", "complete"}]
    BY <1>23 DEF Exit, Ended
  <2>5. /\ fence' \in Evictor \cup {None}
        /\ ev' \in [Evictor -> {"idle", "waiting", "woken", "draining", "acting", "stopping", "over"}]
        /\ phase' = "none" /\ stage' = "none" /\ halt' = "no"
    BY <1>23 DEF Exit, Ended
  <2>6. UNCHANGED <<journal, faults>>
    BY <1>23 DEF Exit
  <2>7. UNCHANGED <<answer, sends, owned, executed>>
    BY <1>23 DEF Exit, Ended, Disconnected
  <2> QED
    BY <2>1, <2>2, <2>3, <2>4, <2>5, <2>6, <2>7
<1> QED
  BY <1>1, <1>2, <1>3, <1>4, <1>5, <1>6, <1>7, <1>8, <1>9, <1>10, <1>11, <1>12, <1>13, <1>14, <1>15, <1>16, <1>17, <1>18, <1>19, <1>20,
     <1>21, <1>22, <1>23
  DEF Next, LineStep, PrepareStep, EvictStep, ShutdownStep

(* An answer leaves the other commands' lines as current as they were, and *)
(* no second line of its own command is on its way.                        *)
LEMMA AnswerKeepsCurrent ==
    ASSUME NEW l \in Line, NEW r \in {"result", "uncertain", "rejected", "stale", "failed"},
           TypeOK, SentIsCurrent, Write(l, r), at[l] # "none",
           at' = [at EXCEPT ![l] = at'[l]], at'[l] \notin {"sent", "none"}
    PROVE  SentIsCurrent'
<1>0. /\ \A k \in Line : k # l => at'[k] = at[k]
      /\ \A k \in Line : Of(k) \in Cmd
      /\ UNCHANGED sends
  BY GateAssumption, LineFacts, WriteFacts DEF TypeOK
<1>1. ASSUME NEW k \in Line, at'[k] = "sent"
      PROVE  request'[Of(k)] = "sent" /\ sends'[Of(k)] = k[2]
  <2>1. k # l /\ at[k] = "sent"
    BY <1>0, <1>1
  <2>2. request[Of(k)] = "sent" /\ sends[Of(k)] = k[2]
    BY <2>1 DEF SentIsCurrent, Current
  <2>3. CASE Of(k) # Of(l)
    BY <1>0, <2>2, <2>3, WriteFacts
  <2>4. CASE Of(k) = Of(l)
    <3>1. k[2] # l[2]
      BY <2>1, <2>4, GateAssumption, LineFacts
    <3>2. ~Current(l)
      BY <2>2, <2>4, <3>1 DEF Current
    <3> QED
      BY <1>0, <2>2, <2>4, <3>2, WriteFacts
  <2> QED
    BY <2>3, <2>4
<1>2. \A k \in Line : at'[k] # "none" => k[2] <= sends'[Of(k)]
  BY <1>0 DEF SentIsCurrent
<1>3. ASSUME NEW c \in Cmd, answer'[c] # "none" \/ c \in acks'
      PROVE  request'[c] = "answered"
  <2>1. CASE c # Of(l)
    <3>1. request'[c] = request[c] /\ answer'[c] = answer[c] /\ (c \in acks' <=> c \in acks)
      BY <2>1, WriteFacts
    <3> QED
      BY <1>3, <3>1 DEF SentIsCurrent
  <2>2. CASE c = Of(l)
    <3>1. \/ request'[c] = "answered"
          \/ request'[c] = request[c] /\ answer'[c] = answer[c] /\ (c \in acks' <=> c \in acks)
      BY <2>2, WriteFacts
    <3> QED
      BY <1>3, <3>1 DEF SentIsCurrent
  <2> QED
    BY <2>1, <2>2
<1> QED
  BY <1>1, <1>2, <1>3 DEF SentIsCurrent, Current

(* A crash leaves no line under way, and no client before the restart.      *)
LEMMA DownStep ==
    ASSUME GateInv, [Next]_vars
    PROVE  DownIsIdle'
<1> USE DEF GateInv, DownIsIdle
<1>1. CASE UNCHANGED vars
  BY <1>1 DEF vars, client, restart
<1>2. ASSUME NEW c \in Cmd, Send(c)
      PROVE  DownIsIdle'
  BY <1>2 DEF Send, client, restart
<1>3. ASSUME NEW c \in Cmd, Acknowledge(c)
      PROVE  DownIsIdle'
  BY <1>3 DEF Acknowledge, client, restart
<1>4. CASE Drop
  BY <1>4 DEF Drop, Disconnected, TypeOK
<1>5. CASE Reconnect
  BY <1>5 DEF Reconnect, Preparing, Disconnected, client, restart
<1>6. CASE FirstDrained
  BY <1>6 DEF FirstDrained, Preparing, Disconnected, client, restart
<1>7. CASE SecondDrain
  BY <1>7 DEF SecondDrain, Preparing, Disconnected, client, restart
<1>8. CASE SecondDrained
  BY <1>8 DEF SecondDrained, Preparing, Disconnected, client, restart
<1>9. CASE Prepared
  BY <1>9 DEF Prepared, Preparing, Disconnected, client, restart
<1>10. CASE PreparationFails
  BY <1>10 DEF PreparationFails, Preparing, Disconnected, client, restart
<1>11. CASE LoseOwnership
  BY <1>11 DEF LoseOwnership, Preparing, Disconnected, client, restart
<1>12. CASE Crash
  BY <1>12 DEF Crash, Ended, Disconnected
<1>13. CASE Restart
  BY <1>13 DEF Restart, Preparing, Disconnected, client, restart
<1>14. ASSUME NEW l \in Line, Deliver(l) \/ Continue(l)
      PROVE  DownIsIdle'
  <2>1. up /\ up' /\ UNCHANGED connected
    BY <1>14, AdmitCases, WriteFacts DEF GateInv, Reply, AwaitFence, Admitted, Dispatch, client
  <2> QED
    BY <2>1
<1>15. ASSUME NEW l \in Line, Finish(l)
      PROVE  DownIsIdle'
  <2>1. up /\ up'
    BY <1>15 DEF Finish
  <2> QED
    BY <2>1
<1>16. ASSUME NEW e \in Evictor, StartEviction(e)
      PROVE  DownIsIdle'
  BY <1>16 DEF StartEviction, Acquire, EvictorMoves, client, restart
<1>17. ASSUME NEW e \in Evictor, ResumeEviction(e)
      PROVE  DownIsIdle'
  BY <1>17 DEF ResumeEviction, Acquire, EvictorMoves, client, restart
<1>18. ASSUME NEW e \in Evictor, EvictionDrained(e)
      PROVE  DownIsIdle'
  BY <1>18 DEF EvictionDrained, Acquire, EvictorMoves, client, restart
<1>19. ASSUME NEW e \in Evictor, Decide(e)
      PROVE  DownIsIdle'
  BY <1>19 DEF Decide, Acquire, EvictorMoves, client, restart
<1>20. ASSUME NEW e \in Evictor, ReleaseFence(e)
      PROVE  DownIsIdle'
  BY <1>20 DEF ReleaseFence, Acquire, EvictorMoves, client, restart
<1>21. CASE BeginShutdown
  BY <1>21 DEF BeginShutdown, client
<1>22. CASE CloseClients
  BY <1>22 DEF CloseClients, Disconnected, TypeOK
<1>23. CASE Exit
  BY <1>23 DEF Exit, Ended, Disconnected
<1> QED
  BY <1>1, <1>2, <1>3, <1>4, <1>5, <1>6, <1>7, <1>8, <1>9, <1>10, <1>11, <1>12, <1>13, <1>14, <1>15, <1>16, <1>17, <1>18, <1>19, <1>20,
     <1>21, <1>22, <1>23
  DEF Next, LineStep, PrepareStep, EvictStep, ShutdownStep

(* One evictor at a time is past the acquisition of the fence.              *)
LEMMA HolderStep ==
    ASSUME GateInv, [Next]_vars
    PROVE  HolderHasFence'
<1> USE GateAssumption DEF GateAssumption, GateInv, HolderHasFence, TypeOK
<1>1. CASE UNCHANGED vars
  BY <1>1 DEF vars, client, restart
<1>2. ASSUME NEW c \in Cmd, Send(c)
      PROVE  HolderHasFence'
  BY <1>2 DEF Send, client, restart
<1>3. ASSUME NEW c \in Cmd, Acknowledge(c)
      PROVE  HolderHasFence'
  BY <1>3 DEF Acknowledge, client, restart
<1>4. CASE Drop
  BY <1>4 DEF Drop, Preparing, Disconnected, client, restart
<1>5. CASE Reconnect
  BY <1>5 DEF Reconnect, Preparing, Disconnected, client, restart
<1>6. CASE FirstDrained
  BY <1>6 DEF FirstDrained, Preparing, Disconnected, client, restart
<1>7. CASE SecondDrain
  BY <1>7 DEF SecondDrain, Preparing, Disconnected, client, restart
<1>8. CASE SecondDrained
  BY <1>8 DEF SecondDrained, Preparing, Disconnected, client, restart
<1>9. CASE Prepared
  BY <1>9 DEF Prepared, Preparing, Disconnected, client, restart
<1>10. CASE PreparationFails
  BY <1>10 DEF PreparationFails, Preparing, Disconnected, client, restart
<1>11. CASE LoseOwnership
  BY <1>11 DEF LoseOwnership, Preparing, Disconnected, client, restart
<1>12. CASE Crash
  BY <1>12 DEF Crash, Ended, Disconnected
<1>13. CASE Restart
  BY <1>13 DEF Restart, Preparing, Disconnected, client, restart
<1>14. ASSUME NEW l \in Line, Deliver(l) \/ Continue(l)
      PROVE  HolderHasFence'
  BY <1>14, AdmitCases DEF Reply, Write, AwaitFence, Dispatch, StartPreparation, client, restart
<1>15. ASSUME NEW l \in Line, Finish(l)
      PROVE  HolderHasFence'
  BY <1>15 DEF Finish, Write, client, restart
<1>16. ASSUME NEW e \in Evictor, StartEviction(e)
      PROVE  HolderHasFence'
  BY <1>16 DEF StartEviction, Acquire, EvictorMoves, client, restart
<1>17. ASSUME NEW e \in Evictor, ResumeEviction(e)
      PROVE  HolderHasFence'
  BY <1>17 DEF ResumeEviction, Acquire, EvictorMoves, client, restart
<1>18. ASSUME NEW e \in Evictor, EvictionDrained(e)
      PROVE  HolderHasFence'
  BY <1>18 DEF EvictionDrained, Acquire, EvictorMoves, client, restart
<1>19. ASSUME NEW e \in Evictor, Decide(e)
      PROVE  HolderHasFence'
  BY <1>19 DEF Decide, Acquire, EvictorMoves, client, restart
<1>20. ASSUME NEW e \in Evictor, ReleaseFence(e)
      PROVE  HolderHasFence'
  BY <1>20 DEF ReleaseFence, Acquire, EvictorMoves, client, restart
<1>21. CASE BeginShutdown
  BY <1>21 DEF BeginShutdown, client
<1>22. CASE CloseClients
  BY <1>22 DEF CloseClients, Disconnected
<1>23. CASE Exit
  BY <1>23 DEF Exit, Ended, Disconnected
<1> QED
  BY <1>1, <1>2, <1>3, <1>4, <1>5, <1>6, <1>7, <1>8, <1>9, <1>10, <1>11, <1>12, <1>13, <1>14, <1>15, <1>16, <1>17, <1>18, <1>19, <1>20,
     <1>21, <1>22, <1>23
  DEF Next, LineStep, PrepareStep, EvictStep, ShutdownStep

(* The phase and the stage of a preparation move together.                  *)
LEMMA StageStep ==
    ASSUME GateInv, [Next]_vars
    PROVE  StageFitsPhase'
<1> USE DEF GateInv, StageFitsPhase, FencedHaveFence, Woken
<1>1. CASE UNCHANGED vars
  BY <1>1 DEF vars, client, restart
<1>2. ASSUME NEW c \in Cmd, Send(c)
      PROVE  StageFitsPhase'
  BY <1>2, GateAssumption, LineFacts DEF Send, TypeOK, restart
<1>3. ASSUME NEW c \in Cmd, Acknowledge(c)
      PROVE  StageFitsPhase'
  BY <1>3 DEF Acknowledge, client, restart
<1>4. CASE Drop
  BY <1>4 DEF Drop, Preparing, Disconnected, client, restart
<1>5. CASE Reconnect
  BY <1>5 DEF Reconnect, Preparing, Disconnected, client, restart
<1>6. CASE FirstDrained
  BY <1>6 DEF FirstDrained, Preparing, Disconnected, client, restart
<1>7. CASE SecondDrain
  BY <1>7 DEF SecondDrain, Preparing, Disconnected, client, restart
<1>8. CASE SecondDrained
  BY <1>8 DEF SecondDrained, Preparing, Disconnected, client, restart
<1>9. CASE Prepared
  BY <1>9 DEF Prepared, Preparing, Disconnected, client, restart
<1>10. CASE PreparationFails
  BY <1>10 DEF PreparationFails, Preparing, Disconnected, client, restart
<1>11. CASE LoseOwnership
  BY <1>11 DEF LoseOwnership, Preparing, Disconnected, client, restart
<1>12. CASE Crash
  BY <1>12 DEF Crash, Ended, Disconnected
<1>13. CASE Restart
  BY <1>13 DEF Restart, Preparing, Disconnected, client, restart
<1>14. ASSUME NEW l \in Line, Deliver(l) \/ Continue(l)
      PROVE  StageFitsPhase'
  <2>0. at' = [at EXCEPT ![l] = at'[l]] /\ at'[l] # "woken"
    BY <1>14, AdmitCases DEF Reply, AwaitFence, Admitted, Dispatch, TypeOK
  <2>1. \A k \in Line : at'[k] = "woken" => at[k] = "woken"
    BY <2>0 DEF TypeOK
  <2>2. CASE UNCHANGED <<phase, stage>>
    BY <2>1, <2>2
  <2>3. CASE phase' = "draining" /\ stage' \in {"first", "passed"}
    BY <2>3
  <2> QED
    BY <1>14, <2>2, <2>3, AdmitCases DEF Reply, AwaitFence, Admitted, Dispatch, StartPreparation, restart
<1>15. ASSUME NEW l \in Line, Finish(l)
      PROVE  StageFitsPhase'
  <2>1. UNCHANGED <<phase, stage>> /\ at' = [at EXCEPT ![l] = "done"]
    BY <1>15 DEF Finish, restart
  <2> QED
    BY <2>1 DEF TypeOK
<1>16. ASSUME NEW e \in Evictor, StartEviction(e)
      PROVE  StageFitsPhase'
  BY <1>16 DEF StartEviction, Acquire, EvictorMoves, client, restart
<1>17. ASSUME NEW e \in Evictor, ResumeEviction(e)
      PROVE  StageFitsPhase'
  BY <1>17 DEF ResumeEviction, Acquire, EvictorMoves, client, restart
<1>18. ASSUME NEW e \in Evictor, EvictionDrained(e)
      PROVE  StageFitsPhase'
  BY <1>18 DEF EvictionDrained, Acquire, EvictorMoves, client, restart
<1>19. ASSUME NEW e \in Evictor, Decide(e)
      PROVE  StageFitsPhase'
  BY <1>19 DEF Decide, Acquire, EvictorMoves, client, restart
<1>20. ASSUME NEW e \in Evictor, ReleaseFence(e)
      PROVE  StageFitsPhase'
  BY <1>20 DEF ReleaseFence, Acquire, EvictorMoves, client, restart
<1>21. CASE BeginShutdown
  BY <1>21 DEF BeginShutdown, client
<1>22. CASE CloseClients
  BY <1>22 DEF CloseClients, Disconnected
<1>23. CASE Exit
  BY <1>23 DEF Exit, Ended, Disconnected
<1> QED
  BY <1>1, <1>2, <1>3, <1>4, <1>5, <1>6, <1>7, <1>8, <1>9, <1>10, <1>11, <1>12, <1>13, <1>14, <1>15, <1>16, <1>17, <1>18, <1>19, <1>20,
     <1>21, <1>22, <1>23
  DEF Next, LineStep, PrepareStep, EvictStep, ShutdownStep

(* From the second drain on nothing but the preparation and the shutdown    *)
(* runs.                                                                    *)
LEMMA QuietStep ==
    ASSUME GateInv, [Next]_vars
    PROVE  PreparedIsQuiet'
<1> USE DEF GateInv, PreparedIsQuiet, OthersDrained, Running
<1>1. CASE UNCHANGED vars
  BY <1>1 DEF vars, client, restart
<1>2. ASSUME NEW c \in Cmd, Send(c)
      PROVE  PreparedIsQuiet'
  BY <1>2, GateAssumption, LineFacts DEF Send, TypeOK, restart
<1>3. ASSUME NEW c \in Cmd, Acknowledge(c)
      PROVE  PreparedIsQuiet'
  BY <1>3 DEF Acknowledge, client, restart
<1>4. CASE Drop
  BY <1>4 DEF Drop, Preparing, Disconnected, client, restart
<1>5. CASE Reconnect
  BY <1>5 DEF Reconnect, Preparing, Disconnected, client, restart
<1>6. CASE FirstDrained
  BY <1>6 DEF FirstDrained, Preparing, Disconnected, client, restart
<1>7. CASE SecondDrain
  BY <1>7 DEF SecondDrain, Preparing, Disconnected, client, restart
<1>8. CASE SecondDrained
  BY <1>8 DEF SecondDrained, Preparing, Disconnected, client, restart
<1>9. CASE Prepared
  BY <1>9 DEF Prepared, Preparing, Disconnected, client, restart
<1>10. CASE PreparationFails
  BY <1>10 DEF PreparationFails, Preparing, Disconnected, client, restart
<1>11. CASE LoseOwnership
  BY <1>11 DEF LoseOwnership, Preparing, Disconnected, client, restart
<1>12. CASE Crash
  BY <1>12 DEF Crash, Ended, Disconnected
<1>13. CASE Restart
  BY <1>13 DEF Restart, Preparing, Disconnected, client, restart
<1>14. ASSUME NEW l \in Line, Deliver(l) \/ Continue(l)
      PROVE  PreparedIsQuiet'
  <2>1. CASE Admitted(l)
    <3>1. at' = [at EXCEPT ![l] = "running"]
      BY <2>1 DEF Admitted, Dispatch
    <3>2. at[l] \in {"sent", "woken"}
      BY <1>14, AdmitCases
    <3>3. CASE phase = "prepared"
      <4>1. Kind[Of(l)] = "shutdown"
        BY <2>1, <3>2, <3>3 DEF Admitted, StageFitsPhase, Woken
      <4>2. UNCHANGED <<phase, stage>>
        BY <2>1, <3>3 DEF Admitted, Dispatch, StartPreparation
      <4> QED
        BY <3>1, <3>3, <4>1, <4>2 DEF TypeOK
    <3>4. CASE phase # "prepared"
      <4>1. phase # "fencing" /\ phase' \notin {"fencing", "prepared"}
        BY <2>1, <3>2, <3>4 DEF Admitted, Dispatch, StartPreparation, StageFitsPhase, Woken
      <4>2. stage' # "working"
        BY <2>1, <4>1 DEF Admitted, Dispatch, StartPreparation, StageFitsPhase
      <4> QED
        BY <4>1, <4>2
    <3> QED
      BY <3>3, <3>4
  <2>2. CASE ~Admitted(l)
    <3>1. UNCHANGED <<phase, stage>> /\ at' = [at EXCEPT ![l] = at'[l]] /\ at'[l] # "running"
      BY <1>14, <2>2, AdmitCases DEF Reply, AwaitFence, restart, TypeOK
    <3> QED
      BY <3>1 DEF TypeOK
  <2> QED
    BY <2>1, <2>2
<1>15. ASSUME NEW l \in Line, Finish(l)
      PROVE  PreparedIsQuiet'
  <2>1. UNCHANGED <<phase, stage>> /\ at' = [at EXCEPT ![l] = "done"]
    BY <1>15 DEF Finish, restart
  <2> QED
    BY <2>1 DEF TypeOK
<1>16. ASSUME NEW e \in Evictor, StartEviction(e)
      PROVE  PreparedIsQuiet'
  BY <1>16 DEF StartEviction, Acquire, EvictorMoves, client, restart
<1>17. ASSUME NEW e \in Evictor, ResumeEviction(e)
      PROVE  PreparedIsQuiet'
  BY <1>17 DEF ResumeEviction, Acquire, EvictorMoves, client, restart
<1>18. ASSUME NEW e \in Evictor, EvictionDrained(e)
      PROVE  PreparedIsQuiet'
  BY <1>18 DEF EvictionDrained, Acquire, EvictorMoves, client, restart
<1>19. ASSUME NEW e \in Evictor, Decide(e)
      PROVE  PreparedIsQuiet'
  BY <1>19 DEF Decide, Acquire, EvictorMoves, client, restart
<1>20. ASSUME NEW e \in Evictor, ReleaseFence(e)
      PROVE  PreparedIsQuiet'
  BY <1>20 DEF ReleaseFence, Acquire, EvictorMoves, client, restart
<1>21. CASE BeginShutdown
  BY <1>21 DEF BeginShutdown, client
<1>22. CASE CloseClients
  BY <1>22 DEF CloseClients, Disconnected
<1>23. CASE Exit
  BY <1>23 DEF Exit, Ended, Disconnected
<1> QED
  BY <1>1, <1>2, <1>3, <1>4, <1>5, <1>6, <1>7, <1>8, <1>9, <1>10, <1>11, <1>12, <1>13, <1>14, <1>15, <1>16, <1>17, <1>18, <1>19, <1>20,
     <1>21, <1>22, <1>23
  DEF Next, LineStep, PrepareStep, EvictStep, ShutdownStep

(* A line starts beside an eviction that has drained the latch only from an earlier fence. *)
LEMMA OverlapStep ==
    ASSUME GateInv, [Next]_vars
    PROVE  OverlapNeedsEarlierFence'
<1> USE DEF GateInv, OverlapNeedsEarlierFence, Running
<1>1. CASE UNCHANGED vars
  BY <1>1 DEF vars, client, restart
<1>2. ASSUME NEW c \in Cmd, Send(c)
      PROVE  OverlapNeedsEarlierFence'
  BY <1>2, GateAssumption, LineFacts DEF Send, TypeOK
<1>3. ASSUME NEW c \in Cmd, Acknowledge(c)
      PROVE  OverlapNeedsEarlierFence'
  BY <1>3 DEF Acknowledge, client, restart
<1>4. CASE Drop
  BY <1>4 DEF Drop, Preparing, Disconnected, client, restart
<1>5. CASE Reconnect
  BY <1>5 DEF Reconnect, Preparing, Disconnected, client, restart
<1>6. CASE FirstDrained
  BY <1>6 DEF FirstDrained, Preparing, Disconnected, client, restart
<1>7. CASE SecondDrain
  BY <1>7 DEF SecondDrain, Preparing, Disconnected, client, restart
<1>8. CASE SecondDrained
  BY <1>8 DEF SecondDrained, Preparing, Disconnected, client, restart
<1>9. CASE Prepared
  BY <1>9 DEF Prepared, Preparing, Disconnected, client, restart
<1>10. CASE PreparationFails
  BY <1>10 DEF PreparationFails, Preparing, Disconnected, client, restart
<1>11. CASE LoseOwnership
  BY <1>11 DEF LoseOwnership, Preparing, Disconnected, client, restart
<1>12. CASE Crash
  BY <1>12 DEF Crash, Ended, Disconnected
<1>13. CASE Restart
  BY <1>13 DEF Restart, Preparing, Disconnected, client, restart
<1>14. ASSUME NEW l \in Line, Deliver(l) \/ Continue(l)
      PROVE  OverlapNeedsEarlierFence'
  <2>0. UNCHANGED ev
    BY <1>14, AdmitCases
  <2>1. CASE Admitted(l)
    <3>1. at' = [at EXCEPT ![l] = "running"] /\ UNCHANGED waited
      BY <2>1 DEF Admitted, Dispatch
    <3>2. l \in waited \/ Kind[Of(l)] = "drain" \/ fence = None
      BY <1>14, <2>1, AdmitCases DEF FencedHaveFence, Admitted
    <3>3. fence = None => \A e \in Evictor : ev[e] \notin {"acting", "stopping"}
      BY GateAssumption DEF HolderHasFence, GateAssumption
    <3> QED
      BY <2>0, <3>1, <3>2, <3>3 DEF TypeOK
  <2>2. CASE ~Admitted(l)
    <3>1. /\ at' = [at EXCEPT ![l] = at'[l]] /\ at'[l] # "running"
          /\ waited' = waited \ {l} \/ waited' = waited \cup {l}
      BY <1>14, <2>2, AdmitCases DEF Reply, AwaitFence, TypeOK
    <3> QED
      BY <2>0, <3>1 DEF TypeOK
  <2> QED
    BY <2>1, <2>2
<1>15. ASSUME NEW l \in Line, Finish(l)
      PROVE  OverlapNeedsEarlierFence'
  <2>1. UNCHANGED ev /\ at' = [at EXCEPT ![l] = "done"] /\ waited' = waited \ {l}
    BY <1>15 DEF Finish
  <2> QED
    BY <2>1 DEF TypeOK
<1>16. ASSUME NEW e \in Evictor, StartEviction(e)
      PROVE  OverlapNeedsEarlierFence'
  BY <1>16, GateAssumption DEF StartEviction, Acquire, EvictorMoves, TypeOK, GateAssumption
<1>17. ASSUME NEW e \in Evictor, ResumeEviction(e)
      PROVE  OverlapNeedsEarlierFence'
  BY <1>17, GateAssumption DEF ResumeEviction, Acquire, EvictorMoves, TypeOK, GateAssumption
<1>18. ASSUME NEW e \in Evictor, EvictionDrained(e)
      PROVE  OverlapNeedsEarlierFence'
  BY <1>18 DEF EvictionDrained, Acquire, EvictorMoves, client, restart
<1>19. ASSUME NEW e \in Evictor, Decide(e)
      PROVE  OverlapNeedsEarlierFence'
  BY <1>19 DEF Decide, Acquire, EvictorMoves, client, restart
<1>20. ASSUME NEW e \in Evictor, ReleaseFence(e)
      PROVE  OverlapNeedsEarlierFence'
  BY <1>20 DEF ReleaseFence, Acquire, EvictorMoves, client, restart
<1>21. CASE BeginShutdown
  BY <1>21 DEF BeginShutdown, client
<1>22. CASE CloseClients
  BY <1>22 DEF CloseClients, Disconnected
<1>23. CASE Exit
  BY <1>23 DEF Exit, Ended, Disconnected
<1> QED
  BY <1>1, <1>2, <1>3, <1>4, <1>5, <1>6, <1>7, <1>8, <1>9, <1>10, <1>11, <1>12, <1>13, <1>14, <1>15, <1>16, <1>17, <1>18, <1>19, <1>20,
     <1>21, <1>22, <1>23
  DEF Next, LineStep, PrepareStep, EvictStep, ShutdownStep

(* Lines wait for a fence that is held, and are let go together.            *)
LEMMA FenceStep ==
    ASSUME GateInv, [Next]_vars
    PROVE  FencedHaveFence'
<1> USE DEF GateInv, FencedHaveFence, Woken
<1>1. CASE UNCHANGED vars
  BY <1>1 DEF vars, client, restart
<1>2. ASSUME NEW c \in Cmd, Send(c)
      PROVE  FencedHaveFence'
  BY <1>2, GateAssumption, LineFacts DEF Send, TypeOK, restart
<1>3. ASSUME NEW c \in Cmd, Acknowledge(c)
      PROVE  FencedHaveFence'
  <2>1. UNCHANGED <<fence, phase, at, waited>>
    BY <1>3 DEF Acknowledge, restart
  <2>2. \A k \in Line : entries[Of(k)] = "none" => entries'[Of(k)] = "none"
    BY <1>3, GateAssumption, LineFacts DEF Acknowledge, TypeOK
  <2> QED
    BY <2>1, <2>2
<1>4. CASE Drop
  BY <1>4 DEF Drop, Preparing, Disconnected, client, restart
<1>5. CASE Reconnect
  BY <1>5 DEF Reconnect, Preparing, Disconnected, client, restart
<1>6. CASE FirstDrained
  BY <1>6 DEF FirstDrained, Preparing
<1>7. CASE SecondDrain
  BY <1>7 DEF SecondDrain, Preparing, StageFitsPhase
<1>8. CASE SecondDrained
  BY <1>8 DEF SecondDrained, Preparing
<1>9. CASE Prepared
  BY <1>9 DEF Prepared, Preparing, StageFitsPhase
<1>10. CASE PreparationFails
  BY <1>10 DEF PreparationFails, Preparing, Disconnected, client, restart
<1>11. CASE LoseOwnership
  BY <1>11 DEF LoseOwnership, Preparing, Disconnected, client, restart
<1>12. CASE Crash
  BY <1>12 DEF Crash, Ended, Disconnected
<1>13. CASE Restart
  <2>1. \A k \in Line : at[k] \in {"none", "done"}
    BY <1>13 DEF Restart, DownIsIdle
  <2> QED
    BY <1>13, <2>1 DEF Restart
<1>14. ASSUME NEW l \in Line, Deliver(l) \/ Continue(l)
      PROVE  FencedHaveFence'
  <2>0. UNCHANGED fence /\ Of(l) \in Cmd
    BY <1>14, AdmitCases, GateAssumption, LineFacts
  <2>1. CASE Admitted(l)
    <3>1. at' = [at EXCEPT ![l] = "running"] /\ UNCHANGED waited /\ entries' = [entries EXCEPT ![Of(l)] = "pending"]
      BY <2>1 DEF Admitted, Dispatch
    <3>2. at[l] \in {"sent", "woken"}
      BY <1>14, AdmitCases
    <3>3. CASE Kind[Of(l)] = "drain"
      <4>1. UNCHANGED phase
        BY <2>1, <3>3 DEF Admitted, Dispatch, StartPreparation, restart
      <4>2. \A k \in Line : at[k] = "fenced" => Of(k) # Of(l)
        BY <3>3
      <4> QED
        BY <2>0, <3>1, <4>1, <4>2, GateAssumption, LineFacts DEF TypeOK
    <3>4. CASE Kind[Of(l)] # "drain"
      <4>1. \A k \in Line : at[k] # "fenced"
        BY <2>1, <3>2, <3>4 DEF Admitted
      <4> QED
        BY <3>1, <4>1 DEF TypeOK
    <3> QED
      BY <3>3, <3>4
  <2>2. CASE AwaitFence(l) /\ Quiet /\ at[l] = "sent" /\ entries[Of(l)] = "none" /\ fence # None
             /\ Kind[Of(l)] # "drain" /\ (phase = "none" \/ (phase = "prepared" /\ Kind[Of(l)] = "shutdown"))
    <3>1. at' = [at EXCEPT ![l] = "fenced"] /\ waited' = waited \cup {l} /\ UNCHANGED <<entries, phase>>
      BY <2>2 DEF AwaitFence, restart
    <3>2. \A k \in Line : at'[k] # "woken"
      BY <2>2, <3>1 DEF Quiet, TypeOK
    <3> QED
      BY <2>0, <2>2, <3>1, <3>2 DEF TypeOK
  <2>3. CASE \E r \in {"result", "uncertain", "rejected", "stale", "failed"} : Reply(l, r)
    <3>1. at' = [at EXCEPT ![l] = "done"] /\ waited' = waited \ {l} /\ UNCHANGED <<entries, phase>>
      BY <2>3 DEF Reply, restart
    <3> QED
      BY <2>0, <3>1 DEF TypeOK
  <2> QED
    BY <1>14, <2>1, <2>2, <2>3, AdmitCases
<1>15. ASSUME NEW l \in Line, Finish(l)
      PROVE  FencedHaveFence'
  <2>1. UNCHANGED <<fence, phase>> /\ at' = [at EXCEPT ![l] = "done"] /\ waited' = waited \ {l}
    BY <1>15 DEF Finish, restart
  <2>2. \A k \in Line : entries[Of(k)] = "none" => entries'[Of(k)] = "none"
    BY <1>15, GateAssumption, LineFacts DEF Finish, TypeOK
  <2> QED
    BY <2>1, <2>2 DEF TypeOK
<1>16. ASSUME NEW e \in Evictor, StartEviction(e)
      PROVE  FencedHaveFence'
  BY <1>16 DEF StartEviction, Acquire, EvictorMoves, client, restart
<1>17. ASSUME NEW e \in Evictor, ResumeEviction(e)
      PROVE  FencedHaveFence'
  BY <1>17 DEF ResumeEviction, Acquire, EvictorMoves, client, restart
<1>18. ASSUME NEW e \in Evictor, EvictionDrained(e)
      PROVE  FencedHaveFence'
  BY <1>18 DEF EvictionDrained, Acquire, EvictorMoves, client, restart
<1>19. ASSUME NEW e \in Evictor, Decide(e)
      PROVE  FencedHaveFence'
  BY <1>19 DEF Decide, Acquire, EvictorMoves, client, restart
<1>20. ASSUME NEW e \in Evictor, ReleaseFence(e)
      PROVE  FencedHaveFence'
  BY <1>20 DEF ReleaseFence, Acquire, EvictorMoves, client, restart
<1>21. CASE BeginShutdown
  BY <1>21 DEF BeginShutdown, client
<1>22. CASE CloseClients
  BY <1>22 DEF CloseClients, Disconnected
<1>23. CASE Exit
  BY <1>23 DEF Exit, Ended, Disconnected
<1> QED
  BY <1>1, <1>2, <1>3, <1>4, <1>5, <1>6, <1>7, <1>8, <1>9, <1>10, <1>11, <1>12, <1>13, <1>14, <1>15, <1>16, <1>17, <1>18, <1>19, <1>20,
     <1>21, <1>22, <1>23
  DEF Next, LineStep, PrepareStep, EvictStep, ShutdownStep

(* What is sent is the last delivery of a command without an answer.        *)
LEMMA SentStep ==
    ASSUME GateInv, [Next]_vars
    PROVE  SentIsCurrent'
<1> USE GateAssumption, LineFacts DEF GateInv, SentIsCurrent, Current, TypeOK
<1>1. CASE UNCHANGED vars
  BY <1>1 DEF vars, client, restart
<1>2. ASSUME NEW c \in Cmd, Send(c)
      PROVE  SentIsCurrent'
  BY <1>2 DEF Send, client, restart
<1>3. ASSUME NEW c \in Cmd, Acknowledge(c)
      PROVE  SentIsCurrent'
  BY <1>3 DEF Acknowledge, client, restart
<1>4. CASE Drop
  BY <1>4 DEF Drop, Preparing, Disconnected, client, restart
<1>5. CASE Reconnect
  BY <1>5 DEF Reconnect, Preparing, Disconnected, client, restart
<1>6. CASE FirstDrained
  BY <1>6 DEF FirstDrained, Preparing, Disconnected, client, restart
<1>7. CASE SecondDrain
  BY <1>7 DEF SecondDrain, Preparing, Disconnected, client, restart
<1>8. CASE SecondDrained
  BY <1>8 DEF SecondDrained, Preparing, Disconnected, client, restart
<1>9. CASE Prepared
  BY <1>9 DEF Prepared, Preparing, Disconnected, client, restart
<1>10. CASE PreparationFails
  BY <1>10 DEF PreparationFails, Preparing, Disconnected, client, restart
<1>11. CASE LoseOwnership
  BY <1>11 DEF LoseOwnership, Preparing, Disconnected, client, restart
<1>12. CASE Crash
  BY <1>12 DEF Crash, Ended, Disconnected
<1>13. CASE Restart
  BY <1>13 DEF Restart, Preparing, Disconnected, client, restart
<1>14. ASSUME NEW l \in Line, Deliver(l) \/ Continue(l)
      PROVE  SentIsCurrent'
  <2>0. Of(l) \in Cmd /\ UNCHANGED sends
    <3>1. CASE \E r \in {"result", "uncertain", "rejected", "stale", "failed"} : Reply(l, r)
      BY <3>1, WriteFacts DEF Reply
    <3>2. CASE AwaitFence(l) \/ Admitted(l)
      BY <3>2 DEF AwaitFence, Admitted, Dispatch, client
    <3> QED
      BY <1>14, <3>1, <3>2, AdmitCases
  <2>1. at' = [at EXCEPT ![l] = at'[l]] /\ at'[l] \notin {"sent", "none"} /\ at[l] # "none"
    BY <1>14, AdmitCases DEF Reply, AwaitFence, Admitted, Dispatch
  <2>2. CASE UNCHANGED <<request, answer, acks>>
    BY <2>0, <2>1, <2>2
  <2>3. CASE \E r \in {"result", "uncertain", "rejected", "stale", "failed"} : Write(l, r)
    <3> HIDE GateAssumption, LineFacts DEF SentIsCurrent, Current, TypeOK
    <3> QED
      BY <2>1, <2>3, AnswerKeepsCurrent
  <2> QED
    BY <1>14, <2>2, <2>3, AdmitCases DEF Reply, AwaitFence, Admitted, Dispatch, client
<1>15. ASSUME NEW l \in Line, Finish(l)
      PROVE  SentIsCurrent'
  <2>1. \E r \in {"result", "stale", "failed"} : Write(l, r)
    BY <1>15 DEF Finish
  <2>2. at[l] # "none" /\ at' = [at EXCEPT ![l] = at'[l]] /\ at'[l] \notin {"sent", "none"}
    BY <1>15 DEF Finish
  <2> HIDE GateAssumption, LineFacts DEF SentIsCurrent, Current, TypeOK
  <2> QED
    BY <2>1, <2>2, AnswerKeepsCurrent
<1>16. ASSUME NEW e \in Evictor, StartEviction(e)
      PROVE  SentIsCurrent'
  BY <1>16 DEF StartEviction, Acquire, EvictorMoves, client, restart
<1>17. ASSUME NEW e \in Evictor, ResumeEviction(e)
      PROVE  SentIsCurrent'
  BY <1>17 DEF ResumeEviction, Acquire, EvictorMoves, client, restart
<1>18. ASSUME NEW e \in Evictor, EvictionDrained(e)
      PROVE  SentIsCurrent'
  BY <1>18 DEF EvictionDrained, Acquire, EvictorMoves, client, restart
<1>19. ASSUME NEW e \in Evictor, Decide(e)
      PROVE  SentIsCurrent'
  BY <1>19 DEF Decide, Acquire, EvictorMoves, client, restart
<1>20. ASSUME NEW e \in Evictor, ReleaseFence(e)
      PROVE  SentIsCurrent'
  BY <1>20 DEF ReleaseFence, Acquire, EvictorMoves, client, restart
<1>21. CASE BeginShutdown
  BY <1>21 DEF BeginShutdown, client
<1>22. CASE CloseClients
  BY <1>22 DEF CloseClients, Disconnected
<1>23. CASE Exit
  BY <1>23 DEF Exit, Ended, Disconnected
<1> QED
  BY <1>1, <1>2, <1>3, <1>4, <1>5, <1>6, <1>7, <1>8, <1>9, <1>10, <1>11, <1>12, <1>13, <1>14, <1>15, <1>16, <1>17, <1>18, <1>19, <1>20,
     <1>21, <1>22, <1>23
  DEF Next, LineStep, PrepareStep, EvictStep, ShutdownStep

(* load, record by record: a received record makes the entry pending.      *)
LEMMA LoadReceived ==
    ASSUME NEW rs \in Seq(Record)
    PROVE  LoadEntry(Append(rs, "received")) = "pending"
<1> DEFINE ss == Append(rs, "received")
<1>1. Len(ss) = Len(rs) + 1 /\ ss[Len(ss)] = "received" /\ Len(rs) \in Nat /\ DOMAIN ss = 1 .. Len(ss)
  OBVIOUS
<1>2. ReceivedAt(ss, Len(ss))
  BY <1>1 DEF ReceivedAt
<1> QED
  BY <1>1, <1>2 DEF LoadEntry

(* load: an acknowledged record removes the entry.                         *)
LEMMA LoadAcknowledged ==
    ASSUME NEW rs \in Seq(Record)
    PROVE  LoadEntry(Append(rs, "acknowledged")) = "none"
<1> DEFINE ss == Append(rs, "acknowledged")
<1>1. Len(ss) = Len(rs) + 1 /\ ss[Len(ss)] = "acknowledged" /\ Len(rs) \in Nat /\ DOMAIN ss = 1 .. Len(ss)
  OBVIOUS
<1>2. ASSUME NEW i \in DOMAIN ss
      PROVE  ~ReceivedAt(ss, i)
  <2>1. CASE i = Len(ss)
    BY <1>1, <2>1 DEF ReceivedAt
  <2>2. CASE i # Len(ss)
    <3>1. Len(ss) \in i + 1 .. Len(ss)
      BY <1>1, <2>2
    <3> QED
      BY <1>1, <3>1 DEF ReceivedAt
  <2> QED
    BY <2>1, <2>2
<1> QED
  BY <1>2 DEF LoadEntry

(* load: a result completes the entry there is.                            *)
LEMMA LoadResult ==
    ASSUME NEW rs \in Seq(Record)
    PROVE  LoadEntry(Append(rs, "result")) = IF LoadEntry(rs) = "none" THEN "none" ELSE "complete"
<1> DEFINE ss == Append(rs, "result")
<1>1. /\ Len(ss) = Len(rs) + 1 /\ ss[Len(ss)] = "result" /\ Len(rs) \in Nat
      /\ DOMAIN ss = 1 .. Len(ss) /\ DOMAIN rs = 1 .. Len(rs)
      /\ \A i \in 1 .. Len(rs) : ss[i] = rs[i]
  OBVIOUS
<1>2. ASSUME NEW i \in DOMAIN rs
      PROVE  ReceivedAt(ss, i) <=> ReceivedAt(rs, i)
  <2>1. \A k \in i + 1 .. Len(ss) : k = Len(ss) \/ k \in i + 1 .. Len(rs)
    BY <1>1
  <2>2. \A k \in i + 1 .. Len(rs) : k \in i + 1 .. Len(ss) /\ ss[k] = rs[k]
    BY <1>1
  <2>3. ss[i] = rs[i]
    BY <1>1
  <2> QED
    BY <1>1, <2>1, <2>2, <2>3 DEF ReceivedAt
<1>3. ~ReceivedAt(ss, Len(ss))
  BY <1>1 DEF ReceivedAt
<1>4. (\E i \in DOMAIN ss : ReceivedAt(ss, i)) <=> (\E i \in DOMAIN rs : ReceivedAt(rs, i))
  <2>1. \A i \in DOMAIN ss : i = Len(ss) \/ i \in DOMAIN rs
    BY <1>1
  <2>2. \A i \in DOMAIN rs : i \in DOMAIN ss
    BY <1>1
  <2> QED
    BY <1>2, <1>3, <2>1, <2>2
<1> QED
  BY <1>1, <1>4 DEF LoadEntry

(* What append changes of what load will read, when lines are whole.       *)
LEMMA LoadAppended ==
    ASSUME NEW j \in Journal, j.tail = "clean", NEW c \in Cmd, NEW type \in Record
    PROVE  /\ AppendRecord(j, c, type).tail = "clean"
           /\ \A d \in Cmd : d # c => Load(AppendRecord(j, c, type))[d] = Load(j)[d]
           /\ type = "received" => Load(AppendRecord(j, c, type))[c] = "pending"
           /\ type = "acknowledged" => Load(AppendRecord(j, c, type))[c] = "none"
           /\ type = "result" => Load(AppendRecord(j, c, type))[c] = IF Load(j)[c] = "none" THEN "none" ELSE "complete"
<1>1. AppendRecord(j, c, type) = [tail |-> "clean", records |-> [j.records EXCEPT ![c] = Append(@, type)]]
  BY DEF AppendRecord
<1>2. j.records \in [Cmd -> Seq(Record)]
  BY DEF Journal
<1>3. AppendRecord(j, c, type).records = [j.records EXCEPT ![c] = Append(j.records[c], type)]
  BY <1>1, <1>2
<1>4. \A d \in Cmd : d # c => AppendRecord(j, c, type).records[d] = j.records[d]
  BY <1>2, <1>3
<1>5. AppendRecord(j, c, type).records[c] = Append(j.records[c], type)
  BY <1>2, <1>3
<1>6. j.records[c] \in Seq(Record)
  BY <1>2
<1>7. AppendRecord(j, c, type).tail = "clean"
  BY <1>1
<1> QED
  BY <1>4, <1>5, <1>6, <1>7, LoadReceived, LoadAcknowledged, LoadResult DEF Load

(* load reads back what compact has written.                               *)
LEMMA LoadCompacted ==
    ASSUME NEW es \in [Cmd -> {"none", "pending", "complete"}]
    PROVE  Compacted(es).tail = "clean" /\ Load(Compacted(es)) = es
<1>1. LoadEntry(<<>>) = "none"
  BY DEF LoadEntry
<1>2. LoadEntry(<<"received">>) = "pending"
  <2>1. <<>> \in Seq(Record) /\ <<"received">> = Append(<<>>, "received")
    OBVIOUS
  <2> QED
    BY <2>1, LoadReceived
<1>3. LoadEntry(<<"received", "result">>) = "complete"
  <2>1. <<"received">> \in Seq(Record) /\ <<"received", "result">> = Append(<<"received">>, "result")
    BY DEF Record
  <2> QED
    BY <1>2, <2>1, LoadResult
<1>4. ASSUME NEW c \in Cmd
      PROVE  LoadEntry(Compacted(es).records[c]) = es[c]
  BY <1>1, <1>2, <1>3 DEF Compacted
<1> QED
  BY <1>4 DEF Load, Compacted

(* The file goes with the memory through every record and compaction.       *)
LEMMA AgreeStep ==
    ASSUME TornWrites = FALSE, JournalInv, [Next]_vars
    PROVE  journal'.tail = "clean" /\ JournalAgrees'
<1> USE DEF JournalInv, GateInv, JournalAgrees
<1>1. CASE UNCHANGED vars
  BY <1>1 DEF vars, client, restart
<1>2. ASSUME NEW c \in Cmd, Send(c)
      PROVE  journal'.tail = "clean" /\ JournalAgrees'
  BY <1>2 DEF Send, client, restart
<1>3. ASSUME NEW c \in Cmd, Acknowledge(c)
      PROVE  journal'.tail = "clean" /\ JournalAgrees'
  <2>0. up /\ up' /\ Load(journal) = entries /\ entries \in [Cmd -> {"none", "pending", "complete"}] /\ journal \in Journal
    BY <1>3 DEF Acknowledge, TypeOK
  <2> DEFINE es == [entries EXCEPT ![c] = "none"]
  <2>1. CASE UNCHANGED <<entries, journal>>
    BY <2>0, <2>1
  <2>2. CASE entries' = es /\ journal' = Compacted(es)
    <3>1. es \in [Cmd -> {"none", "pending", "complete"}]
      BY <2>0
    <3> HIDE DEF es
    <3> QED
      BY <2>0, <2>2, <3>1, LoadCompacted
  <2>3. CASE entries' = es /\ journal' = AppendRecord(journal, c, "acknowledged")
    <3>1. journal'.tail = "clean" /\ \A d \in Cmd : Load(journal')[d] = es[d]
      BY <2>0, <2>3, LoadAppended DEF Record
    <3> QED
      BY <2>0, <2>3, <3>1 DEF Load
  <2> QED
    BY <1>3, <2>1, <2>2, <2>3 DEF Acknowledge
<1>4. CASE Drop
  BY <1>4 DEF Drop, Preparing, Disconnected, client, restart
<1>5. CASE Reconnect
  BY <1>5 DEF Reconnect, Preparing, Disconnected, client, restart
<1>6. CASE FirstDrained
  BY <1>6 DEF FirstDrained, Preparing, Disconnected, client, restart
<1>7. CASE SecondDrain
  BY <1>7 DEF SecondDrain, Preparing, Disconnected, client, restart
<1>8. CASE SecondDrained
  BY <1>8 DEF SecondDrained, Preparing, Disconnected, client, restart
<1>9. CASE Prepared
  BY <1>9 DEF Prepared, Preparing, Disconnected, client, restart
<1>10. CASE PreparationFails
  BY <1>10 DEF PreparationFails, Preparing, Disconnected, client, restart
<1>11. CASE LoseOwnership
  BY <1>11 DEF LoseOwnership, Preparing, Disconnected, client, restart
<1>12. CASE Crash
  <2>1. ~up'
    BY <1>12 DEF Crash, Ended
  <2>2. \A r \in InWriting : r[1] \in Cmd /\ r[2] \in Record
    BY GateAssumption, LineFacts DEF InWriting, Record, Running, TypeOK
  <2>3. \A r \in InWriting : \A j \in CrashedAppends(journal, r[1], r[2]) : j.tail = "clean"
    BY <2>2, LoadAppended DEF CrashedAppends, TypeOK
  <2>4. journal'.tail = "clean"
    BY <1>12, <2>3 DEF Crash
  <2> QED
    BY <2>1, <2>4
<1>13. CASE Restart
  BY <1>13 DEF Restart
<1>14. ASSUME NEW l \in Line, Deliver(l) \/ Continue(l)
      PROVE  journal'.tail = "clean" /\ JournalAgrees'
  <2>0. up /\ up' /\ Load(journal) = entries /\ entries \in [Cmd -> {"none", "pending", "complete"}] /\ journal \in Journal
    BY <1>14, AdmitCases DEF TypeOK
  <2>1. CASE UNCHANGED <<entries, journal>>
    BY <2>0, <2>1
  <2>2. CASE Admitted(l)
    <3>0. Of(l) \in Cmd
      BY GateAssumption, LineFacts
    <3>1. entries' = [entries EXCEPT ![Of(l)] = "pending"] /\ journal' = AppendRecord(journal, Of(l), "received")
      BY <2>2 DEF Admitted, Dispatch
    <3>2. journal'.tail = "clean" /\ \A d \in Cmd : Load(journal')[d] = entries'[d]
      BY <2>0, <3>0, <3>1, LoadAppended DEF Record
    <3> QED
      BY <2>0, <3>1, <3>2 DEF Load
  <2> QED
    BY <1>14, <2>1, <2>2, AdmitCases DEF Reply, AwaitFence
<1>15. ASSUME NEW l \in Line, Finish(l)
      PROVE  journal'.tail = "clean" /\ JournalAgrees'
  <2>0. /\ up /\ up' /\ Load(journal) = entries /\ entries \in [Cmd -> {"none", "pending", "complete"}]
        /\ journal \in Journal /\ Of(l) \in Cmd
    BY <1>15, GateAssumption, LineFacts DEF Finish, TypeOK
  <2> DEFINE es == [entries EXCEPT ![Of(l)] = "complete"]
  <2>1. CASE UNCHANGED <<entries, journal>>
    BY <2>0, <2>1
  <2>2. CASE entries' = es /\ journal' = Compacted(es)
    <3>1. es \in [Cmd -> {"none", "pending", "complete"}]
      BY <2>0
    <3> HIDE DEF es
    <3> QED
      BY <2>0, <2>2, <3>1, LoadCompacted
  <2>3. CASE entries[Of(l)] # "none" /\ entries' = es /\ journal' = AppendRecord(journal, Of(l), "result")
    <3>1. journal'.tail = "clean" /\ \A d \in Cmd : Load(journal')[d] = es[d]
      BY <2>0, <2>3, LoadAppended DEF Record
    <3> QED
      BY <2>0, <2>3, <3>1 DEF Load
  <2> QED
    BY <1>15, <2>1, <2>2, <2>3 DEF Finish
<1>16. ASSUME NEW e \in Evictor, StartEviction(e)
      PROVE  journal'.tail = "clean" /\ JournalAgrees'
  BY <1>16 DEF StartEviction, Acquire, EvictorMoves, client, restart
<1>17. ASSUME NEW e \in Evictor, ResumeEviction(e)
      PROVE  journal'.tail = "clean" /\ JournalAgrees'
  BY <1>17 DEF ResumeEviction, Acquire, EvictorMoves, client, restart
<1>18. ASSUME NEW e \in Evictor, EvictionDrained(e)
      PROVE  journal'.tail = "clean" /\ JournalAgrees'
  BY <1>18 DEF EvictionDrained, Acquire, EvictorMoves, client, restart
<1>19. ASSUME NEW e \in Evictor, Decide(e)
      PROVE  journal'.tail = "clean" /\ JournalAgrees'
  BY <1>19 DEF Decide, Acquire, EvictorMoves, client, restart
<1>20. ASSUME NEW e \in Evictor, ReleaseFence(e)
      PROVE  journal'.tail = "clean" /\ JournalAgrees'
  BY <1>20 DEF ReleaseFence, Acquire, EvictorMoves, client, restart
<1>21. CASE BeginShutdown
  BY <1>21 DEF BeginShutdown, client
<1>22. CASE CloseClients
  BY <1>22 DEF CloseClients, Disconnected
<1>23. CASE Exit
  BY <1>23 DEF Exit, Ended, Disconnected
<1> QED
  BY <1>1, <1>2, <1>3, <1>4, <1>5, <1>6, <1>7, <1>8, <1>9, <1>10, <1>11, <1>12, <1>13, <1>14, <1>15, <1>16, <1>17, <1>18, <1>19, <1>20,
     <1>21, <1>22, <1>23
  DEF Next, LineStep, PrepareStep, EvictStep, ShutdownStep

(* A command that has run is forgotten only when nothing of it is left to decide. *)
LEMMA RanStep ==
    ASSUME TornWrites = FALSE, JournalInv, [Next]_vars
    PROVE  RanIsKnown'
<1> USE DEF JournalInv, GateInv, RanIsKnown, Undecided
<1>1. CASE UNCHANGED vars
  BY <1>1 DEF vars, client, restart
<1>2. ASSUME NEW c \in Cmd, Send(c)
      PROVE  RanIsKnown'
  <2>1. /\ UNCHANGED <<journal, executed>>
        /\ request[c] # "answered" /\ \A d \in Cmd : d # c => request'[d] = request[d]
        /\ \A k \in Line : Of(k) # c => at'[k] = at[k]
    BY <1>2 DEF Send, TypeOK, Of
  <2>2. \A k \in Line : Of(k) \in Cmd
    BY GateAssumption, LineFacts
  <2> QED
    BY <2>1, <2>2
<1>3. ASSUME NEW c \in Cmd, Acknowledge(c)
      PROVE  RanIsKnown'
  <2>1. /\ UNCHANGED <<request, at, executed>> /\ up /\ up' /\ Quiet /\ c \in acks
        /\ \A d \in Cmd : d # c => entries'[d] = entries[d]
        /\ entries[c] = "none" => entries'[c] = "none"
    BY <1>3 DEF Acknowledge, client, TypeOK
  <2>2. Load(journal) = entries /\ Load(journal') = entries'
    BY <2>1, AgreeStep DEF JournalAgrees
  <2>3. request[c] = "answered"
    BY <2>1 DEF SentIsCurrent
  <2>4. entries[c] # "none" => \A l \in Line : Of(l) = c => ~Undecided(l)
    BY <2>1, <2>3 DEF Undecided, SentIsCurrent, Current, FencedHaveFence, Quiet, Woken
  <2> QED
    BY <2>1, <2>2, <2>3, <2>4
<1>4. CASE Drop
  <2>1. UNCHANGED <<journal, executed>>
    BY <1>4 DEF Drop
  <2>2. \A c \in Cmd : request[c] = "answered" => request'[c] = "answered"
    BY <1>4 DEF Drop, Disconnected, TypeOK
  <2>3. \A l \in Line : ~Undecided(l) => ~Undecided(l)'
    BY <1>4 DEF Drop, TypeOK
  <2> QED
    BY <2>1, <2>2, <2>3
<1>5. CASE Reconnect
  BY <1>5 DEF Reconnect, Preparing, Disconnected, client, restart
<1>6. CASE FirstDrained
  BY <1>6 DEF FirstDrained, Preparing, Disconnected, client, restart
<1>7. CASE SecondDrain
  BY <1>7 DEF SecondDrain, Preparing, Disconnected, client, restart
<1>8. CASE SecondDrained
  BY <1>8 DEF SecondDrained, Preparing, Disconnected, client, restart
<1>9. CASE Prepared
  BY <1>9 DEF Prepared, Preparing, Disconnected, client, restart
<1>10. CASE PreparationFails
  BY <1>10 DEF PreparationFails, Preparing, Disconnected, client, restart
<1>11. CASE LoseOwnership
  BY <1>11 DEF LoseOwnership, Preparing, Disconnected, client, restart
<1>12. CASE Crash
  <2>1. UNCHANGED executed /\ \A l \in Line : ~Undecided(l)'
    BY <1>12 DEF Crash, Ended
  <2>2. \A c \in Cmd : request[c] = "answered" => request'[c] = "answered"
    BY <1>12 DEF Crash, Ended, Disconnected, TypeOK
  <2>3. journal \in Journal /\ acks \subseteq Cmd
    BY DEF TypeOK
  <2>4. ASSUME NEW c \in Cmd, Load(journal')[c] = "none", Load(journal)[c] # "none"
        PROVE  c \in acks
    <3>1. PICK r \in InWriting : journal' \in CrashedAppends(journal, r[1], r[2])
      BY <1>12, <2>4 DEF Crash
    <3>2. journal' = AppendRecord(journal, r[1], r[2])
      BY <2>4, <3>1 DEF CrashedAppends
    <3>3. r[1] \in Cmd /\ r[2] \in Record /\ (r[2] = "acknowledged" => r[1] \in acks)
      BY GateAssumption, LineFacts DEF InWriting, Record, Running, TypeOK
    <3> QED
      BY <2>3, <2>4, <3>2, <3>3, LoadAppended DEF Record
  <2>5. \A c \in acks : request[c] = "answered"
    BY <2>3 DEF SentIsCurrent
  <2> QED
    BY <2>1, <2>2, <2>4, <2>5
<1>13. CASE Restart
  BY <1>13 DEF Restart, Preparing, Disconnected, client, restart
<1>14. ASSUME NEW l \in Line, Deliver(l) \/ Continue(l)
      PROVE  RanIsKnown'
  <2>0. up /\ up' /\ Of(l) \in Cmd /\ (\A k \in Line : Of(k) \in Cmd)
    BY <1>14, AdmitCases, GateAssumption, LineFacts
  <2>1. CASE Admitted(l)
    <3>1. /\ at' = [at EXCEPT ![l] = "running"]
          /\ executed' = [executed EXCEPT ![Of(l)] = executed[Of(l)] + 1]
          /\ entries' = [entries EXCEPT ![Of(l)] = "pending"]
          /\ UNCHANGED request
      BY <2>1 DEF Admitted, Dispatch, client
    <3>2. Load(journal) = entries /\ Load(journal') = entries'
      BY <2>0, AgreeStep DEF JournalAgrees
    <3> QED
      BY <2>0, <3>1, <3>2 DEF TypeOK
  <2>2. CASE AwaitFence(l) /\ at[l] = "sent"
    <3>1. at' = [at EXCEPT ![l] = "fenced"] /\ UNCHANGED <<journal, executed, request>>
      BY <2>2 DEF AwaitFence, client
    <3> QED
      BY <2>2, <3>1 DEF TypeOK
  <2>3. CASE \E r \in {"result", "uncertain", "rejected", "stale", "failed"} : Reply(l, r)
    <3>1. at' = [at EXCEPT ![l] = "done"] /\ UNCHANGED <<journal, executed>>
      BY <2>3 DEF Reply
    <3>2. \A c \in Cmd : request[c] = "answered" => request'[c] = "answered"
      BY <2>3, WriteFacts DEF Reply
    <3> QED
      BY <3>1, <3>2 DEF TypeOK
  <2> QED
    BY <1>14, <2>1, <2>2, <2>3, AdmitCases
<1>15. ASSUME NEW l \in Line, Finish(l)
      PROVE  RanIsKnown'
  <2>1. /\ UNCHANGED executed /\ up /\ up' /\ at' = [at EXCEPT ![l] = "done"]
        /\ \A d \in Cmd : entries'[d] = "none" => entries[d] = "none"
    BY <1>15, GateAssumption, LineFacts DEF Finish, TypeOK
  <2>2. Load(journal) = entries /\ Load(journal') = entries'
    BY <2>1, AgreeStep DEF JournalAgrees
  <2>3. \A c \in Cmd : request[c] = "answered" => request'[c] = "answered"
    <3>1. \E r \in {"result", "stale", "failed"} : Write(l, r)
      BY <1>15 DEF Finish
    <3> QED
      BY <3>1, WriteFacts
  <2> QED
    BY <2>1, <2>2, <2>3 DEF TypeOK
<1>16. ASSUME NEW e \in Evictor, StartEviction(e)
      PROVE  RanIsKnown'
  BY <1>16 DEF StartEviction, Acquire, EvictorMoves, client, restart
<1>17. ASSUME NEW e \in Evictor, ResumeEviction(e)
      PROVE  RanIsKnown'
  BY <1>17 DEF ResumeEviction, Acquire, EvictorMoves, client, restart
<1>18. ASSUME NEW e \in Evictor, EvictionDrained(e)
      PROVE  RanIsKnown'
  BY <1>18 DEF EvictionDrained, Acquire, EvictorMoves, client, restart
<1>19. ASSUME NEW e \in Evictor, Decide(e)
      PROVE  RanIsKnown'
  BY <1>19 DEF Decide, Acquire, EvictorMoves, client, restart
<1>20. ASSUME NEW e \in Evictor, ReleaseFence(e)
      PROVE  RanIsKnown'
  <2>1. UNCHANGED <<journal, executed, request>> /\ \A l \in Line : ~Undecided(l) => ~Undecided(l)'
    BY <1>20 DEF ReleaseFence, client, TypeOK
  <2> QED
    BY <2>1
<1>21. CASE BeginShutdown
  BY <1>21 DEF BeginShutdown, client
<1>22. CASE CloseClients
  <2>1. UNCHANGED <<journal, executed>>
    BY <1>22 DEF CloseClients
  <2>2. \A c \in Cmd : request[c] = "answered" => request'[c] = "answered"
    BY <1>22 DEF CloseClients, Disconnected, TypeOK
  <2>3. \A l \in Line : ~Undecided(l) => ~Undecided(l)'
    BY <1>22 DEF CloseClients, TypeOK
  <2> QED
    BY <2>1, <2>2, <2>3
<1>23. CASE Exit
  <2>1. UNCHANGED <<journal, executed>> /\ \A l \in Line : ~Undecided(l)'
    BY <1>23 DEF Exit, Ended
  <2>2. \A c \in Cmd : request[c] = "answered" => request'[c] = "answered"
    BY <1>23 DEF Exit, Ended, Disconnected, TypeOK
  <2> QED
    BY <2>1, <2>2
<1> QED
  BY <1>1, <1>2, <1>3, <1>4, <1>5, <1>6, <1>7, <1>8, <1>9, <1>10, <1>11, <1>12, <1>13, <1>14, <1>15, <1>16, <1>17, <1>18, <1>19, <1>20,
     <1>21, <1>22, <1>23
  DEF Next, LineStep, PrepareStep, EvictStep, ShutdownStep

(* A dispatched command had not run.                                         *)
LEMMA OnceStep ==
    ASSUME TornWrites = FALSE, JournalInv, [Next]_vars
    PROVE  AtMostOnce'
<1> USE DEF JournalInv, GateInv, AtMostOnce
<1>1. CASE UNCHANGED vars
  BY <1>1 DEF vars, client, restart
<1>2. ASSUME NEW c \in Cmd, Send(c)
      PROVE  AtMostOnce'
  BY <1>2 DEF Send, client, restart
<1>3. ASSUME NEW c \in Cmd, Acknowledge(c)
      PROVE  AtMostOnce'
  BY <1>3 DEF Acknowledge
<1>4. CASE Drop
  BY <1>4 DEF Drop, Preparing, Disconnected, client, restart
<1>5. CASE Reconnect
  BY <1>5 DEF Reconnect, Preparing, Disconnected, client, restart
<1>6. CASE FirstDrained
  BY <1>6 DEF FirstDrained, Preparing, Disconnected, client, restart
<1>7. CASE SecondDrain
  BY <1>7 DEF SecondDrain, Preparing, Disconnected, client, restart
<1>8. CASE SecondDrained
  BY <1>8 DEF SecondDrained, Preparing, Disconnected, client, restart
<1>9. CASE Prepared
  BY <1>9 DEF Prepared, Preparing, Disconnected, client, restart
<1>10. CASE PreparationFails
  BY <1>10 DEF PreparationFails, Preparing, Disconnected, client, restart
<1>11. CASE LoseOwnership
  BY <1>11 DEF LoseOwnership, Preparing, Disconnected, client, restart
<1>12. CASE Crash
  BY <1>12 DEF Crash, Ended, Disconnected
<1>13. CASE Restart
  BY <1>13 DEF Restart, Preparing, Disconnected, client, restart
<1>14. ASSUME NEW l \in Line, Deliver(l) \/ Continue(l)
      PROVE  AtMostOnce'
  <2>1. CASE Admitted(l)
    <3>1. executed' = [executed EXCEPT ![Of(l)] = executed[Of(l)] + 1] /\ entries[Of(l)] = "none" /\ Of(l) \in Cmd
      BY <2>1, GateAssumption, LineFacts DEF Admitted, Dispatch
    <3>2. up /\ Undecided(l)
      BY <1>14, AdmitCases DEF Undecided
    <3>3. ~(executed[Of(l)] > 0)
      BY <3>1, <3>2 DEF RanIsKnown, JournalAgrees
    <3> QED
      BY <3>1, <3>3 DEF TypeOK
  <2>2. CASE ~Admitted(l)
    <3>1. UNCHANGED executed
      BY <1>14, <2>2, AdmitCases DEF Reply, AwaitFence
    <3> QED
      BY <3>1
  <2> QED
    BY <2>1, <2>2
<1>15. ASSUME NEW l \in Line, Finish(l)
      PROVE  AtMostOnce'
  BY <1>15 DEF Finish
<1>16. ASSUME NEW e \in Evictor, StartEviction(e)
      PROVE  AtMostOnce'
  BY <1>16 DEF StartEviction, Acquire, EvictorMoves, client, restart
<1>17. ASSUME NEW e \in Evictor, ResumeEviction(e)
      PROVE  AtMostOnce'
  BY <1>17 DEF ResumeEviction, Acquire, EvictorMoves, client, restart
<1>18. ASSUME NEW e \in Evictor, EvictionDrained(e)
      PROVE  AtMostOnce'
  BY <1>18 DEF EvictionDrained, Acquire, EvictorMoves, client, restart
<1>19. ASSUME NEW e \in Evictor, Decide(e)
      PROVE  AtMostOnce'
  BY <1>19 DEF Decide, Acquire, EvictorMoves, client, restart
<1>20. ASSUME NEW e \in Evictor, ReleaseFence(e)
      PROVE  AtMostOnce'
  BY <1>20 DEF ReleaseFence, Acquire, EvictorMoves, client, restart
<1>21. CASE BeginShutdown
  BY <1>21 DEF BeginShutdown, client
<1>22. CASE CloseClients
  BY <1>22 DEF CloseClients, Disconnected
<1>23. CASE Exit
  BY <1>23 DEF Exit, Ended, Disconnected
<1> QED
  BY <1>1, <1>2, <1>3, <1>4, <1>5, <1>6, <1>7, <1>8, <1>9, <1>10, <1>11, <1>12, <1>13, <1>14, <1>15, <1>16, <1>17, <1>18, <1>19, <1>20,
     <1>21, <1>22, <1>23
  DEF Next, LineStep, PrepareStep, EvictStep, ShutdownStep

(* A command is turned away only when no delivery of it can still run.       *)
LEMMA RejectStep ==
    ASSUME TornWrites = FALSE, JournalInv, [Next]_vars
    PROVE  RejectedIsSettled'
<1> USE DEF JournalInv, GateInv, RejectedIsSettled, Undecided
<1>1. CASE UNCHANGED vars
  BY <1>1 DEF vars, client, restart
<1>2. ASSUME NEW c \in Cmd, Send(c)
      PROVE  RejectedIsSettled'
  <2>1. /\ UNCHANGED <<answer, executed>> /\ request[c] # "answered"
        /\ \A k \in Line : Of(k) # c => at'[k] = at[k]
    BY <1>2 DEF Send, TypeOK, Of
  <2>2. answer[c] = "none"
    BY <2>1 DEF SentIsCurrent
  <2> QED
    BY <2>1, <2>2
<1>3. ASSUME NEW c \in Cmd, Acknowledge(c)
      PROVE  RejectedIsSettled'
  BY <1>3 DEF Acknowledge, client
<1>4. CASE Drop
  <2>1. UNCHANGED <<answer, executed>> /\ \A l \in Line : ~Undecided(l) => ~Undecided(l)'
    BY <1>4 DEF Drop, Disconnected, TypeOK
  <2> QED
    BY <2>1
<1>5. CASE Reconnect
  BY <1>5 DEF Reconnect, Preparing, Disconnected, client, restart
<1>6. CASE FirstDrained
  BY <1>6 DEF FirstDrained, Preparing, Disconnected, client, restart
<1>7. CASE SecondDrain
  BY <1>7 DEF SecondDrain, Preparing, Disconnected, client, restart
<1>8. CASE SecondDrained
  BY <1>8 DEF SecondDrained, Preparing, Disconnected, client, restart
<1>9. CASE Prepared
  BY <1>9 DEF Prepared, Preparing, Disconnected, client, restart
<1>10. CASE PreparationFails
  BY <1>10 DEF PreparationFails, Preparing, Disconnected, client, restart
<1>11. CASE LoseOwnership
  BY <1>11 DEF LoseOwnership, Preparing, Disconnected, client, restart
<1>12. CASE Crash
  BY <1>12 DEF Crash, Ended, Disconnected
<1>13. CASE Restart
  BY <1>13 DEF Restart, Preparing, Disconnected, client, restart
<1>14. ASSUME NEW l \in Line, Deliver(l) \/ Continue(l)
      PROVE  RejectedIsSettled'
  <2>0. /\ Of(l) \in Cmd /\ (\A k \in Line : Of(k) \in Cmd)
        /\ at[l] \in {"sent", "woken"} /\ up
    BY <1>14, AdmitCases, GateAssumption, LineFacts
  <2>1. CASE Admitted(l)
    <3>1. /\ at' = [at EXCEPT ![l] = "running"]
          /\ executed' = [executed EXCEPT ![Of(l)] = executed[Of(l)] + 1]
          /\ UNCHANGED answer
      BY <2>1 DEF Admitted, Dispatch, client
    <3>2. answer[Of(l)] # "rejected"
      BY <2>0
    <3> QED
      BY <2>0, <3>1, <3>2 DEF TypeOK
  <2>2. CASE AwaitFence(l) /\ at[l] = "sent"
    <3>1. at' = [at EXCEPT ![l] = "fenced"] /\ UNCHANGED <<executed, answer>>
      BY <2>2 DEF AwaitFence, client
    <3> QED
      BY <2>2, <3>1 DEF TypeOK
  <2>3. ASSUME NEW r \in {"result", "uncertain", "rejected", "stale", "failed"}, Reply(l, r),
               r = "rejected" =>
                  Quiet /\ at[l] = "sent" /\ entries[Of(l)] = "none" /\ RestartRejected(Of(l))
        PROVE  RejectedIsSettled'
    <3>1. at' = [at EXCEPT ![l] = "done"] /\ UNCHANGED executed /\ Write(l, r)
      BY <2>3 DEF Reply
    <3>2. \A k \in Line : Undecided(k)' => Undecided(k) /\ k # l
      BY <3>1 DEF TypeOK
    <3>3. ASSUME NEW c \in Cmd, answer'[c] = "rejected", answer[c] # "rejected"
          PROVE  c = Of(l) /\ r = "rejected"
      BY <3>1, <3>3, WriteFacts
    <3>4. ASSUME r = "rejected"
          PROVE  executed[Of(l)] = 0 /\ \A k \in Line : Of(k) = Of(l) => ~Undecided(k)'
      <4>1. executed[Of(l)] = 0
        <5>1. ~(executed[Of(l)] > 0)
          BY <2>0, <2>3, <3>4 DEF RanIsKnown, JournalAgrees
        <5> QED
          BY <2>0, <5>1 DEF TypeOK
      <4>2. ASSUME NEW k \in Line, Of(k) = Of(l), Undecided(k)'
            PROVE  FALSE
        <5>1. Undecided(k) /\ k # l
          BY <3>2, <4>2
        <5>2. at[k] = "sent"
          BY <2>3, <3>4, <4>2, <5>1 DEF FencedHaveFence, Quiet, Woken, RestartRejected
        <5>3. k[2] = l[2]
          BY <2>3, <3>4, <4>2, <5>2 DEF SentIsCurrent, Current
        <5> QED
          BY <4>2, <5>1, <5>3, GateAssumption, LineFacts
      <4> QED
        BY <4>1, <4>2
    <3> QED
      BY <3>1, <3>2, <3>3, <3>4
  <2> QED
    BY <1>14, <2>1, <2>2, <2>3, AdmitCases
<1>15. ASSUME NEW l \in Line, Finish(l)
      PROVE  RejectedIsSettled'
  <2>1. UNCHANGED executed /\ at' = [at EXCEPT ![l] = "done"]
    BY <1>15 DEF Finish
  <2>2. \E r \in {"result", "stale", "failed"} : Write(l, r)
    BY <1>15 DEF Finish
  <2>3. \A c \in Cmd : answer'[c] = "rejected" => answer[c] = "rejected"
    BY <2>2, WriteFacts
  <2> QED
    BY <2>1, <2>3 DEF TypeOK
<1>16. ASSUME NEW e \in Evictor, StartEviction(e)
      PROVE  RejectedIsSettled'
  BY <1>16 DEF StartEviction, Acquire, EvictorMoves, client, restart
<1>17. ASSUME NEW e \in Evictor, ResumeEviction(e)
      PROVE  RejectedIsSettled'
  BY <1>17 DEF ResumeEviction, Acquire, EvictorMoves, client, restart
<1>18. ASSUME NEW e \in Evictor, EvictionDrained(e)
      PROVE  RejectedIsSettled'
  BY <1>18 DEF EvictionDrained, Acquire, EvictorMoves, client, restart
<1>19. ASSUME NEW e \in Evictor, Decide(e)
      PROVE  RejectedIsSettled'
  BY <1>19 DEF Decide, Acquire, EvictorMoves, client, restart
<1>20. ASSUME NEW e \in Evictor, ReleaseFence(e)
      PROVE  RejectedIsSettled'
  <2>1. UNCHANGED <<executed, answer>> /\ \A l \in Line : ~Undecided(l) => ~Undecided(l)'
    BY <1>20 DEF ReleaseFence, client, TypeOK
  <2> QED
    BY <2>1
<1>21. CASE BeginShutdown
  BY <1>21 DEF BeginShutdown, client
<1>22. CASE CloseClients
  <2>1. UNCHANGED <<answer, executed>> /\ \A l \in Line : ~Undecided(l) => ~Undecided(l)'
    BY <1>22 DEF CloseClients, Disconnected, TypeOK
  <2> QED
    BY <2>1
<1>23. CASE Exit
  BY <1>23 DEF Exit, Ended, Disconnected
<1> QED
  BY <1>1, <1>2, <1>3, <1>4, <1>5, <1>6, <1>7, <1>8, <1>9, <1>10, <1>11, <1>12, <1>13, <1>14, <1>15, <1>16, <1>17, <1>18, <1>19, <1>20,
     <1>21, <1>22, <1>23
  DEF Next, LineStep, PrepareStep, EvictStep, ShutdownStep

----------------------------------------------------------------------------
(* The initial state: nothing sent, an empty journal, no fence.            *)
LEMMA InitHolds ==
    ASSUME Init
    PROVE  JournalInv
<1> USE GateAssumption DEF Init, GateAssumption
<1>1. TypeOK
  <2>1. connected \in BOOLEAN /\ up \in BOOLEAN /\ owned \in BOOLEAN
    BY Zenon
  <2>2. journal \in Journal
    BY DEF Journal
  <2> QED
    BY <2>1, <2>2 DEF TypeOK
<1>2. DownIsIdle /\ SentIsCurrent /\ FencedHaveFence /\ HolderHasFence /\ StageFitsPhase
  BY DEF DownIsIdle, SentIsCurrent, FencedHaveFence, HolderHasFence, StageFitsPhase, Woken
<1>3. PreparedIsQuiet /\ OverlapNeedsEarlierFence
  BY DEF PreparedIsQuiet, OverlapNeedsEarlierFence
<1>4. JournalAgrees
  BY DEF JournalAgrees, Load, LoadEntry
<1>5. RanIsKnown /\ AtMostOnce /\ RejectedIsSettled
  BY DEF RanIsKnown, AtMostOnce, RejectedIsSettled
<1> QED
  BY <1>1, <1>2, <1>3, <1>4, <1>5 DEF JournalInv, GateInv

(* The fence, the phase of a restart and the lines under way stay in step, *)
(* whatever is sent, lost, evicted, prepared or crashed, torn journal      *)
(* lines included (handleLine, withEvictionFence, prepareUpdateRestart).   *)
THEOREM GateInvariant == Spec => []GateInv
<1>1. Init => GateInv
  BY InitHolds DEF JournalInv
<1>2. GateInv /\ [Next]_vars => GateInv'
  BY TypeStep, DownStep, SentStep, FenceStep, HolderStep, StageStep, QuietStep, OverlapStep DEF GateInv
<1> QED
  BY <1>1, <1>2, PTL DEF Spec

(* The variables of the gate and of the client keep their types.           *)
THEOREM GateTypeCorrect == Spec => []TypeOK
<1>1. GateInv => TypeOK
  BY DEF GateInv
<1> QED
  BY <1>1, GateInvariant, PTL

(* prepareUpdateRestart writes its manifest with no other mutation in      *)
(* flight: its second drain waits for every line that a fence let go after *)
(* the first.  Once prepared, the only one that handleLine admits, at once *)
(* or from behind a fence, is the shutdown.                                *)
THEOREM PreparationIsQuiet == Spec => []PreparedIsQuiet
<1>1. GateInv => PreparedIsQuiet
  BY DEF GateInv
<1> QED
  BY <1>1, GateInvariant, PTL

(* A mutation that runs beside an eviction with a drained latch waited for *)
(* an earlier fence, or is of a kind that no fence holds back: handleLine  *)
(* does not look at the fence again after it has waited.                   *)
THEOREM EvictionOverlap == Spec => []OverlapNeedsEarlierFence
<1>1. GateInv => OverlapNeedsEarlierFence
  BY DEF GateInv
<1> QED
  BY <1>1, GateInvariant, PTL

(* With appends that are all or nothing, the journal's file is what the    *)
(* supervisor knows, and a command that has run is forgotten only when     *)
(* nothing of it is left to decide (begin, complete, acknowledge, compact, *)
(* load).                                                                  *)
THEOREM JournalInvariant ==
    ASSUME TornWrites = FALSE
    PROVE  Spec => []JournalInv
<1>1. Init => JournalInv
  BY InitHolds
<1>2. JournalInv /\ [Next]_vars => JournalInv'
  <2> SUFFICES ASSUME JournalInv, [Next]_vars
               PROVE  JournalInv'
    OBVIOUS
  <2>1. GateInv'
    BY TypeStep, DownStep, SentStep, FenceStep, HolderStep, StageStep, QuietStep, OverlapStep
    DEF JournalInv, GateInv
  <2> QED
    BY <2>1, AgreeStep, RanStep, OnceStep, RejectStep DEF JournalInv
<1> QED
  BY <1>1, <1>2, PTL DEF Spec

(* What a restarted supervisor reads is what this one knows.               *)
THEOREM JournalIsMemory ==
    ASSUME TornWrites = FALSE
    PROVE  Spec => []JournalAgrees
<1>1. JournalInv => JournalAgrees
  BY DEF JournalInv
<1> QED
  BY <1>1, JournalInvariant, PTL

(* No command runs twice, however often it is delivered and however often  *)
(* the supervisor crashes, before or after the client's acknowledgement.   *)
THEOREM CommandsRunAtMostOnce ==
    ASSUME TornWrites = FALSE
    PROVE  Spec => []AtMostOnce
<1>1. JournalInv => AtMostOnce
  BY DEF JournalInv
<1> QED
  BY <1>1, JournalInvariant, PTL

(* A command turned away for a restart has not run and will not: handleLine *)
(* looks into the journal first.                                           *)
THEOREM RejectedCommandsNeverRun ==
    ASSUME TornWrites = FALSE
    PROVE  Spec => []RejectedNeverRuns
<1>1. JournalInv => RejectedNeverRuns
  BY DEF JournalInv, RejectedIsSettled, RejectedNeverRuns
<1> QED
  BY <1>1, JournalInvariant, PTL
====
