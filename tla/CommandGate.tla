---- MODULE CommandGate ----
(***************************************************************************)
(* How the daemon supervisor admits mutating commands                      *)
(* (modes/daemon/daemon-supervisor.ts, handleLine): the recovery journal   *)
(* that keeps a command from running twice (command-recovery-journal.ts),  *)
(* the latch that counts the commands in flight                            *)
(* (mutation-drain-latch.ts), the fence held around an eviction, and the   *)
(* preparation of an update restart, which drains the latch twice, and the *)
(* shutdown, which a prepared restart still lets in.                       *)
(*                                                                         *)
(* A client sends each command with an id, sends it again after it has     *)
(* reconnected, and acknowledges the answer (daemon-client.ts).  The       *)
(* supervisor is one event loop: a step of this module is what runs        *)
(* between two awaits, and the continuations a released fence wakes run    *)
(* before the next event is taken (Quiet).                                 *)
(***************************************************************************)
EXTENDS Naturals, FiniteSets, Sequences, SequencesExt

CONSTANTS
    Cmd,          \* command ids of one client
    Kind,         \* Kind[c]: "normal", "drain" (runs while draining), "prepare", "shutdown"
    Evictor,      \* evictions that will be tried, each once
    None,
    MaxSends,     \* bound: deliveries of each command
    MaxFaults,    \* bound: lost connections, crashes and losses of the registry ownership
    TornWrites    \* can a crash leave part of a journal line?

ASSUME GateAssumption ==
    /\ Kind \in [Cmd -> {"normal", "drain", "prepare", "shutdown"}]
    /\ \A c, d \in Cmd : Kind[c] = Kind[d] /\ Kind[c] \in {"prepare", "shutdown"} => c = d
    /\ None \notin Evictor
    /\ MaxSends \in [Cmd -> Nat]
    /\ MaxFaults \in Nat
    /\ TornWrites \in BOOLEAN

(* The n-th delivery of command c.                                         *)
Line == UNION {{c} \X (1 .. MaxSends[c]) : c \in Cmd}
Of(l) == l[1]

VARIABLES
    connected,  \* the client has a connection
    request,    \* request[c]: "new", "sent", "lost", "answered"
    answer,     \* answer[c]: the response the client got
    sends,      \* sends[c]: how often c was sent
    acks,       \* ack_result lines under way
    up, owned,  \* the supervisor runs; its registry record is its own
    at,         \* at[l]: where the supervisor is with a line
    waited,     \* lines that waited for a fence
    entries,    \* entries[c] of the journal: "none", "pending", "complete"
    journal,    \* [records, tail]: the journal file
    fence,      \* the evictor holding the fence, or None
    ev,         \* ev[e]: where an eviction stands
    phase,      \* updateRestartPhase
    stage,      \* where the preparation stands
    halt,       \* the shutdown: "no", "called", "halting", "closed" (to clients)
    executed,   \* executed[c]: how often c was dispatched
    faults      \* faults so far

client == <<connected, request, answer, sends>>
restart == <<phase, stage, halt>>
vars == <<client, acks, up, owned, at, waited, entries, journal, fence, ev, restart, executed,
          faults>>

----------------------------------------------------------------------------
(* The journal file: records[c] are the lines about c in their order; tail *)
(* tells whether the last line is whole ("clean"), cut short ("cut"), or   *)
(* lacks only its newline, in which case it is the last record of tail.    *)

(* append: a line behind a tail without newline is one line with it, and   *)
(* neither can be parsed.                                                  *)
AppendRecord(j, c, type) ==
    [tail |-> "clean",
     records |-> CASE j.tail = "clean" -> [j.records EXCEPT ![c] = Append(@, type)]
                   [] j.tail = "cut" -> j.records
                   [] OTHER -> [j.records EXCEPT ![j.tail] = Front(@)]]

(* What a crash during append leaves: nothing, the line, or part of it.    *)
CrashedAppends(j, c, type) ==
    {j, AppendRecord(j, c, type)}
    \cup (IF TornWrites /\ j.tail = "clean"
          THEN {[j EXCEPT !.tail = "cut"], [AppendRecord(j, c, type) EXCEPT !.tail = c]}
          ELSE {})

(* load: lines that do not parse are skipped; the file is left as it is.   *)
(* A received record makes a pending entry, an acknowledged one removes    *)
(* the entry and a result completes it, if there is one: a command is      *)
(* known when only results follow its last received record.                *)
ReceivedAt(rs, i) == rs[i] = "received" /\ \A k \in i + 1 .. Len(rs) : rs[k] = "result"

LoadEntry(rs) ==
    IF ~ \E i \in DOMAIN rs : ReceivedAt(rs, i) THEN "none"
    ELSE IF rs[Len(rs)] = "result" THEN "complete" ELSE "pending"

Load(j) == [c \in Cmd |-> LoadEntry(j.records[c])]

(* compact: the file is replaced by the records of the entries.            *)
Compacted(es) ==
    [tail |-> "clean",
     records |-> [c \in Cmd |-> CASE es[c] = "none" -> <<>>
                                  [] es[c] = "pending" -> <<"received">>
                                  [] es[c] = "complete" -> <<"received", "result">>]]

----------------------------------------------------------------------------
Running == {l \in Line : at[l] = "running"}
Woken == {l \in Line : at[l] = "woken"}
Quiet == Woken = {} /\ stage # "passed" /\ \A e \in Evictor : ev[e] # "woken"

(* What handleLine asserts of the supervisor before anything else: neither *)
(* shuttingDown nor without its registry record.                           *)
ShuttingDown == halt \in {"halting", "closed"}
Serving == owned /\ ~ShuttingDown

(* The line whose answer the client still waits for.                       *)
Current(l) == request[Of(l)] = "sent" /\ sends[Of(l)] = l[2]

(* write: an answer on a connection that is gone is lost.                  *)
Write(l, response) ==
    IF connected /\ Current(l)
    THEN /\ request' = [request EXCEPT ![Of(l)] = "answered"]
         /\ answer' = [answer EXCEPT ![Of(l)] = response]
         /\ acks' = acks \cup {Of(l)}
         /\ UNCHANGED <<connected, sends>>
    ELSE UNCHANGED <<client, acks>>

Reply(l, response) ==
    /\ Write(l, response)
    /\ at' = [at EXCEPT ![l] = "done"] /\ waited' = waited \ {l}
    /\ UNCHANGED <<entries, journal, restart, executed>>

Record == {"received", "result", "acknowledged"}
Journal == [records : [Cmd -> Seq(Record)], tail : Cmd \cup {"clean", "cut"}]

TypeOK ==
    /\ connected \in BOOLEAN /\ up \in BOOLEAN /\ owned \in BOOLEAN
    /\ request \in [Cmd -> {"new", "sent", "lost", "answered"}]
    /\ answer \in [Cmd -> {"none", "result", "uncertain", "rejected", "stale", "failed"}]
    /\ sends \in [Cmd -> Nat] /\ \A c \in Cmd : sends[c] <= MaxSends[c]
    /\ executed \in [Cmd -> Nat]
    /\ acks \subseteq Cmd
    /\ at \in [Line -> {"none", "sent", "fenced", "woken", "running", "done"}]
    /\ waited \subseteq Line
    /\ entries \in [Cmd -> {"none", "pending", "complete"}]
    /\ journal \in Journal
    /\ fence \in Evictor \cup {None}
    /\ ev \in [Evictor -> {"idle", "waiting", "woken", "draining", "acting", "stopping", "over"}]
    /\ phase \in {"none", "draining", "fencing", "prepared"}
    /\ stage \in {"none", "first", "passed", "second", "working"}
    /\ halt \in {"no", "called", "halting", "closed"}
    /\ faults \in 0 .. MaxFaults

Init ==
    /\ connected = TRUE /\ up = TRUE /\ owned = TRUE
    /\ request = [c \in Cmd |-> "new"] /\ answer = [c \in Cmd |-> "none"]
    /\ sends = [c \in Cmd |-> 0] /\ acks = {}
    /\ at = [l \in Line |-> "none"] /\ waited = {}
    /\ entries = [c \in Cmd |-> "none"] /\ journal = [records |-> [c \in Cmd |-> <<>>], tail |-> "clean"]
    /\ fence = None /\ ev = [e \in Evictor |-> "idle"]
    /\ phase = "none" /\ stage = "none" /\ halt = "no"
    /\ executed = [c \in Cmd |-> 0]
    /\ faults = 0

----------------------------------------------------------------------------
(* The client (daemon-client.ts).                                          *)

Send(c) ==
    /\ connected /\ request[c] \in {"new", "lost"} /\ sends[c] < MaxSends[c]
    /\ request' = [request EXCEPT ![c] = "sent"]
    /\ sends' = [sends EXCEPT ![c] = @ + 1]
    /\ at' = [at EXCEPT ![<<c, sends[c] + 1>>] = "sent"]
    /\ UNCHANGED <<connected, answer, acks, up, owned, waited, entries, journal, fence, ev,
                   restart, executed, faults>>

Disconnected ==
    /\ connected' = FALSE
    /\ request' = [c \in Cmd |-> IF request[c] = "sent" THEN "lost" ELSE request[c]]
    /\ acks' = {}
    /\ UNCHANGED <<answer, sends>>

(* The connection breaks; lines not read yet are lost with it.             *)
Drop ==
    /\ connected /\ faults < MaxFaults
    /\ Disconnected
    /\ faults' = faults + 1
    /\ at' = [l \in Line |-> IF at[l] = "sent" THEN "done" ELSE at[l]]
    /\ UNCHANGED <<up, owned, waited, entries, journal, fence, ev, restart, executed>>

Reconnect ==
    /\ ~connected /\ up /\ halt # "closed"
    /\ connected' = TRUE
    /\ UNCHANGED <<request, answer, sends, acks, up, owned, at, waited, entries, journal,
                   fence, ev, restart, executed, faults>>

----------------------------------------------------------------------------
(* The gate.                                                               *)

(* The first check of the preparation's first drain is made in the step    *)
(* that starts it; a second preparation is refused.                        *)
StartPreparation(l) ==
    IF Kind[Of(l)] = "prepare" /\ phase = "none"
    THEN /\ phase' = "draining"
         /\ stage' = IF Running = {} THEN "passed" ELSE "first"
    ELSE UNCHANGED <<phase, stage>>

(* The command "shutdown" answers at once and leaves the rest to a         *)
(* setImmediate; "restart" does the same with its workers left running.    *)
CallShutdown(l) == halt' = IF Kind[Of(l)] = "shutdown" THEN "called" ELSE halt

(* begin, the latch and the first stretch of handleCommand.                *)
Dispatch(l) ==
    /\ journal' = AppendRecord(journal, Of(l), "received")
    /\ entries' = [entries EXCEPT ![Of(l)] = "pending"]
    /\ at' = [at EXCEPT ![l] = "running"]
    /\ executed' = [executed EXCEPT ![Of(l)] = @ + 1]
    /\ StartPreparation(l) /\ CallShutdown(l)
    /\ UNCHANGED <<client, acks, waited>>

(* begin without looking the command up again.                             *)
ForgetfulBegin(l) == Dispatch(l)

Begin(l) ==
    CASE entries[Of(l)] = "complete" -> Reply(l, "result")
      [] entries[Of(l)] = "pending" -> Reply(l, "uncertain")
      [] OTHER -> Dispatch(l)

(* A prepared restart lets the shutdown in, and nothing else.              *)
RestartRejected(c) ==
    CASE phase = "none" -> FALSE
      [] phase = "draining" -> Kind[c] # "drain"
      [] phase = "fencing" -> TRUE
      [] phase = "prepared" -> Kind[c] # "shutdown"

AwaitFence(l) ==
    /\ at' = [at EXCEPT ![l] = "fenced"]
    /\ waited' = waited \cup {l}
    /\ UNCHANGED <<client, acks, entries, journal, restart, executed>>

(* The restart phase is consulted before the journal.                      *)
EagerDeliver(l) ==
    /\ up /\ Quiet /\ at[l] = "sent"
    /\ CASE ~Serving -> Reply(l, "stale")
         [] Serving /\ RestartRejected(Of(l)) -> Reply(l, "rejected")
         [] Serving /\ ~RestartRejected(Of(l)) /\ entries[Of(l)] = "none"
              /\ Kind[Of(l)] # "drain" /\ fence # None ->
              AwaitFence(l)
         [] OTHER -> Begin(l)
    /\ UNCHANGED <<up, owned, fence, ev, faults>>

(* handleLine up to its await of a fence, or to handleCommand.             *)
Deliver(l) ==
    /\ up /\ Quiet /\ at[l] = "sent"
    /\ LET known == entries[Of(l)]
       IN  CASE ~Serving -> Reply(l, "stale")
             [] Serving /\ known = "complete" -> Reply(l, "result")
             [] Serving /\ known = "pending" -> Reply(l, "uncertain")
             [] Serving /\ known = "none" /\ RestartRejected(Of(l)) -> Reply(l, "rejected")
             [] Serving /\ known = "none" /\ ~RestartRejected(Of(l))
                  /\ Kind[Of(l)] # "drain" /\ fence # None ->
                  AwaitFence(l)
             [] OTHER -> Begin(l)
    /\ UNCHANGED <<up, owned, fence, ev, faults>>

(* After the fence: the assertion again, but neither the phase nor the fence.  *)
Continue(l) ==
    /\ up /\ at[l] = "woken"
    /\ IF Serving THEN Begin(l) ELSE Reply(l, "stale")
    /\ UNCHANGED <<up, owned, fence, ev, faults>>

(* The journal's entry is complete before the record is written.           *)
UnwrittenFinish(l) ==
    /\ up /\ Quiet /\ at[l] = "running"
    /\ Kind[Of(l)] = "prepare" => stage = "none"
    /\ entries' = [entries EXCEPT ![Of(l)] = "complete"]
    /\ Write(l, "result")
    /\ at' = [at EXCEPT ![l] = "done"] /\ waited' = waited \ {l}
    /\ UNCHANGED <<up, owned, journal, fence, ev, restart, executed, faults>>

(* handleCommand returns or throws: the result is recorded, which fails    *)
(* when the entry was acknowledged meanwhile; the latch counts down.       *)
Finish(l) ==
    /\ up /\ Quiet /\ at[l] = "running"
    /\ Kind[Of(l)] = "prepare" => stage = "none"
    /\ CASE ~owned -> Write(l, "stale") /\ UNCHANGED <<entries, journal>>
         [] owned /\ entries[Of(l)] = "none" -> Write(l, "failed") /\ UNCHANGED <<entries, journal>>
         [] OTHER ->
              /\ entries' = [entries EXCEPT ![Of(l)] = "complete"]
              /\ \/ journal' = AppendRecord(journal, Of(l), "result")
                 \/ journal' = Compacted([entries EXCEPT ![Of(l)] = "complete"])
              /\ Write(l, "result")
    /\ at' = [at EXCEPT ![l] = "done"] /\ waited' = waited \ {l}
    /\ UNCHANGED <<up, owned, fence, ev, restart, executed, faults>>

(* ack_result: an unknown entry is ignored; an empty journal is compacted, *)
(* and so is one with 4096 records.                                        *)
Acknowledge(c) ==
    /\ up /\ Quiet /\ c \in acks
    /\ acks' = acks \ {c}
    /\ IF ~Serving \/ entries[c] = "none" THEN UNCHANGED <<entries, journal>>
       ELSE LET es == [entries EXCEPT ![c] = "none"]
            IN  /\ entries' = es
                /\ \/ journal' = Compacted(es)
                   \/ /\ \E d \in Cmd : es[d] # "none"
                      /\ journal' = AppendRecord(journal, c, "acknowledged")
    /\ UNCHANGED <<client, up, owned, at, waited, fence, ev, restart, executed, faults>>

----------------------------------------------------------------------------
(* prepareUpdateRestart.  It is itself a mutation in flight, so it waits   *)
(* for the latch to come down to one.  The lines and the preparation that  *)
(* one released fence wakes advance together, and none is fenced or woken  *)
(* after the phase is set, so that no line is awake beside a drain.        *)
OthersDrained == \A l \in Running : Kind[Of(l)] = "prepare"

Preparing(at1, to, newPhase) ==
    /\ up /\ Woken = {} /\ stage = at1
    /\ stage' = to /\ phase' = newPhase
    /\ UNCHANGED <<client, acks, up, owned, at, waited, entries, journal, fence, ev, halt,
                   executed, faults>>

FirstDrained == OthersDrained /\ Preparing("first", "passed", phase)

(* Only the first drain is waited for.                                     *)
SingleDrain == Preparing("passed", "working", "fencing")

SecondDrain == Preparing("passed", IF OthersDrained THEN "working" ELSE "second", "fencing")

SecondDrained == OthersDrained /\ Preparing("second", "working", phase)

Prepared == Quiet /\ Preparing("working", "none", "prepared")

(* A failed preparation leaves a phase of its own.                         *)
MarkingPreparationFails == Quiet /\ \E s \in {"first", "second", "working"} : Preparing(s, "none", "failed")

PreparationFails == Quiet /\ \E s \in {"first", "second", "working"} : Preparing(s, "none", "none")

----------------------------------------------------------------------------
(* withEvictionFence.                                                      *)

EvictorMoves(e, from, to) ==
    /\ up /\ ev[e] = from
    /\ ev' = [ev EXCEPT ![e] = to]
    /\ UNCHANGED <<client, acks, up, owned, waited, entries, journal, restart, executed, faults>>

(* acquireIdleEvictionFence: wait for the fence there is, else take it.    *)
Acquire(e, from) ==
    IF fence = None
    THEN EvictorMoves(e, from, "draining") /\ fence' = e /\ UNCHANGED at
    ELSE EvictorMoves(e, from, "waiting") /\ UNCHANGED <<fence, at>>

StartEviction(e) == Quiet /\ phase = "none" /\ ~ShuttingDown /\ Acquire(e, "idle")

ResumeEviction(e) == Acquire(e, "woken")

(* The latch is not waited for.                                            *)
UndrainedEviction(e) == EvictorMoves(e, "draining", "acting") /\ UNCHANGED <<fence, at>>

EvictionDrained(e) == Running = {} /\ EvictorMoves(e, "draining", "acting") /\ UNCHANGED <<fence, at>>

(* The action reads the workers again and yields to a restart or shutdown. *)
Decide(e) ==
    /\ Quiet /\ phase = "none" /\ ~ShuttingDown
    /\ EvictorMoves(e, "acting", "stopping")
    /\ UNCHANGED <<fence, at>>

(* The slot is cleared but the promise others await is not resolved.       *)
SilentReleaseFence(e) ==
    /\ up /\ Quiet /\ ev[e] \in {"draining", "acting", "stopping"}
    /\ fence' = None
    /\ ev' = [ev EXCEPT ![e] = "over"]
    /\ UNCHANGED <<client, acks, up, owned, at, waited, entries, journal, restart, executed, faults>>

(* The worker has stopped, nothing was evictable, or draining timed out.   *)
ReleaseFence(e) ==
    /\ up /\ Quiet /\ ev[e] \in {"draining", "acting", "stopping"}
    /\ fence' = None
    /\ ev' = [f \in Evictor |-> IF f = e THEN "over" ELSE IF ev[f] = "waiting" THEN "woken" ELSE ev[f]]
    /\ at' = [l \in Line |-> IF at[l] = "fenced" THEN "woken" ELSE at[l]]
    /\ UNCHANGED <<client, acks, up, owned, waited, entries, journal, restart, executed, faults>>

----------------------------------------------------------------------------
(* Another process replaced the registry record of this supervisor.        *)
LoseOwnership ==
    /\ up /\ owned /\ faults < MaxFaults
    /\ owned' = FALSE /\ faults' = faults + 1
    /\ UNCHANGED <<client, acks, up, at, waited, entries, journal, fence, ev, restart, executed>>

(* The journal records that may be on their way to the file.               *)
InWriting ==
    {<<Of(l), "received">> : l \in {k \in Line : at[k] \in {"sent", "woken"} /\ entries[Of(k)] = "none"}}
    \cup {<<Of(l), "result">> : l \in {k \in Running : entries[Of(k)] = "pending"}}
    \cup {<<c, "acknowledged">> : c \in {d \in acks : entries[d] # "none"}}

(* The process is gone, and with it all but the journal and the registry.  *)
Ended ==
    /\ up' = FALSE
    /\ Disconnected
    /\ at' = [l \in Line |-> IF at[l] = "none" THEN "none" ELSE "done"]
    /\ entries' = [c \in Cmd |-> "none"]
    /\ fence' = None /\ ev' = [e \in Evictor |-> IF ev[e] = "idle" THEN "idle" ELSE "over"]
    /\ phase' = "none" /\ stage' = "none" /\ halt' = "no"
    /\ waited' = {}
    /\ UNCHANGED <<owned, executed>>

Crash ==
    /\ up /\ faults < MaxFaults
    /\ journal' \in {journal} \cup UNION {CrashedAppends(journal, r[1], r[2]) : r \in InWriting}
    /\ faults' = faults + 1
    /\ Ended

Restart ==
    /\ ~up
    /\ up' = TRUE /\ owned' = TRUE
    /\ entries' = Load(journal)
    /\ UNCHANGED <<client, acks, at, waited, journal, fence, ev, restart, executed, faults>>

----------------------------------------------------------------------------
(* shutdown, in its three stretches.  The command's own answer is written  *)
(* in the microtasks before the setImmediate; a sweep in progress and the  *)
(* workers' stops only delay what follows.                                 *)
Halts(from, to) == up /\ Quiet /\ halt = from /\ halt' = to

BeginShutdown ==
    /\ Halts("called", "halting")
    /\ \A l \in Running : Kind[Of(l)] # "shutdown"
    /\ UNCHANGED <<client, acks, up, owned, at, waited, entries, journal, fence, ev, phase, stage,
                   executed, faults>>

(* detachInput and socket.end for every client; the server is closed.      *)
CloseClients ==
    /\ Halts("halting", "closed")
    /\ Disconnected
    /\ at' = [l \in Line |-> IF at[l] = "sent" THEN "done" ELSE at[l]]
    /\ UNCHANGED <<up, owned, waited, entries, journal, fence, ev, phase, stage, executed, faults>>

(* process.exit, whatever still runs.                                      *)
Exit ==
    /\ up /\ Quiet /\ halt = "closed"
    /\ Ended
    /\ UNCHANGED <<journal, faults>>

----------------------------------------------------------------------------
LineStep(l) == Deliver(l) \/ Continue(l) \/ Finish(l)
PrepareStep == FirstDrained \/ SecondDrain \/ SecondDrained \/ Prepared
ShutdownStep == BeginShutdown \/ CloseClients \/ Exit
EvictStep(e) == ResumeEviction(e) \/ EvictionDrained(e) \/ ReleaseFence(e)

Next ==
    \/ \E c \in Cmd : Send(c) \/ Acknowledge(c)
    \/ Drop \/ Reconnect
    \/ \E l \in Line : LineStep(l)
    \/ PrepareStep \/ PreparationFails
    \/ \E e \in Evictor : EvictStep(e) \/ StartEviction(e) \/ Decide(e)
    \/ ShutdownStep
    \/ LoseOwnership \/ Crash \/ Restart

Spec == Init /\ [][Next]_vars

(* What is not left undone for ever: commands, preparations, evictions and *)
(* shutdowns come to an end, by their timeouts if need be, the client      *)
(* reconnects and sends until it is answered, and a supervisor is started  *)
(* again.  Every behaviour is finite under the bounds, so that weak        *)
(* fairness of the whole is enough.                                        *)
Progress ==
    \/ \E c \in Cmd : Send(c)
    \/ Reconnect \/ Restart
    \/ \E l \in Line : LineStep(l)
    \/ PrepareStep \/ ShutdownStep
    \/ \E e \in Evictor : EvictStep(e)

FairSpec == Spec /\ WF_vars(Progress)
----------------------------------------------------------------------------
(* Properties.                                                             *)

(* A command runs at most once, however often it is sent, across lost      *)
(* connections, restarts, acknowledgements and fences ("a missing result   *)
(* after a crash is treated as uncertain and is never replayed").  Stated  *)
(* for appends that reach the file whole (TornWrites = FALSE).             *)
AtMostOnce == \A c \in Cmd : executed[c] <= 1

(* A client that was told the command was turned away for a restart may    *)
(* send it again elsewhere: no delivery of it has run or will run          *)
(* (handleLine looks into the journal before it looks at the phase).       *)
RejectedNeverRuns == \A c \in Cmd : answer[c] = "rejected" => executed[c] = 0

(* What a restarted supervisor would read is what this one knows, through  *)
(* results, acknowledgements and compactions, as long as appends reach the *)
(* file whole (TornWrites = FALSE).                                        *)
JournalAgrees == up => Load(journal) = entries

(* While the restart manifest is being written no other mutation runs, not *)
(* even one that was waiting for a fence when the phase was set            *)
(* (prepareUpdateRestart's second drain); once it is written, the only     *)
(* other one is the shutdown that handleLine lets in for the restart.      *)
PreparedIsQuiet ==
    phase = "prepared" \/ stage = "working" =>
        \A l \in Running : \/ Kind[Of(l)] = "prepare"
                           \/ phase = "prepared" /\ Kind[Of(l)] = "shutdown"

(* A mutation runs beside an eviction that has drained the latch only if   *)
(* it had waited for an earlier fence, or is one that no fence holds back. *)
OverlapNeedsEarlierFence ==
    \A e \in Evictor : ev[e] \in {"acting", "stopping"} =>
        \A l \in Running : l \in waited \/ Kind[Of(l)] = "drain"

(* The bound on deliveries is used up.                                     *)
GivenUp(c) == sends[c] = MaxSends[c] /\ request[c] = "lost"

(* In the end every command is answered: no line waits for ever on a       *)
(* fence, the latch or the preparation, which waits for the others while   *)
(* it is in flight itself (acquireIdleEvictionFence, waitForDrain).        *)
EveryCommandAnswered == []<>(\A c \in Cmd : request[c] = "answered" \/ GivenUp(c))
====
