---- MODULE SessionSchedulerProofs ----
(***************************************************************************)
(* The session input scheduler, for any set of actions, lanes, ranks,      *)
(* activities, interventions and failures, and any number of them.         *)
(*                                                                         *)
(* PumpInv, in the first part, ties each await of the pump to the          *)
(* lifecycles of the actions it holds.  FifoInv, in the last part, ties    *)
(* the lanes and the batch to the order of admission.                      *)
(***************************************************************************)
EXTENDS SessionScheduler, SubsequenceProofs

(* The actions a pump has taken up are turns, or one command.              *)
Turns == ToSet(batch) \cap Command = {}
OneCommand == Len(batch) = 1 /\ batch[1] \in Command

(* Handed over, and delivered or not.                                      *)
HandedOver == \A a \in ToSet(batch) : life[a] = IF a \in durable THEN "running" ELSE "committing"

(* Where the pump stands, and what has become of the actions it holds: an  *)
(* abort or a clear may have cancelled them while it waited.               *)
PumpHolds ==
    /\ streaming => pump = "run" /\ Turns
    /\ pump \in {"off", "loop"} => pre = None
    /\ pump \in {"off", "loop", "events", "select"} => batch = <<>>
    /\ pump \in {"prepare", "commit", "run", "settle"} => batch # <<>>
    /\ pump \in {"events", "select"} /\ pre # None =>
          life[pre] = "selected" \/ (life[pre] = "cancelled" /\ (stale \/ pre \in Command))
    /\ pump = "command" => OneCommand /\ life[batch[1]] \in {"selected", "cancelled"}
    /\ pump \in {"prepare", "commit"} => Turns /\ \A a \in ToSet(batch) : life[a] \in {"preparing", "cancelled"}
    /\ pump = "run" => \/ streaming /\ Turns /\ HandedOver
                       \/ ~streaming /\ OneCommand /\ life[batch[1]] = "running"
    /\ pump = "settle" => Turns /\ HandedOver

(* What is delivered is under way or over, and what is under way and not   *)
(* delivered is in the pump's hands; a queued turn is not selected before  *)
(* it is prepared.                                                         *)
LivesFit ==
    /\ \A a \in durable : life[a] \in {"running"} \cup Terminal
    /\ \A a \in Visible : life[a] # "selected"
    /\ \A a \in Act : life[a] \in {"preparing", "committing", "running"} /\ a \notin durable =>
          pump \in {"prepare", "commit", "run", "settle"} /\ a \in ToSet(batch)

PumpInv == TypeOK /\ PumpHolds /\ LivesFit
----------------------------------------------------------------------------
(* The store.                                                              *)

(* There is a place for a new action, and it overtakes only lower ranks.   *)
LEMMA InsertionIndexType ==
    ASSUME NEW list \in Seq(Act), NEW a
    PROVE  /\ InsertionIndex(list, a) \in 1 .. Len(list) + 1
           /\ \A j \in InsertionIndex(list, a) .. Len(list) : Rank[list[j]] < Rank[a]
<1> DEFINE Low(j) == life[list[j]] = "queued" /\ Rank[list[j]] < Rank[a]
           I == {i \in 1 .. Len(list) + 1 : \A j \in i .. Len(list) : Low(j)}
<1>1. Len(list) + 1 \in I /\ I \subseteq Nat
  OBVIOUS
<1>2. PICK i \in I : \A j \in I : i <= j
  BY <1>1, LeastNumber
<1>3. i > 1 => ~Low(i - 1)
  <2> SUFFICES ASSUME i > 1, Low(i - 1) PROVE FALSE
    OBVIOUS
  <2> HIDE DEF Low
  <2>1. i - 1 \in I
    OBVIOUS
  <2> HIDE DEF I
  <2> QED
    BY <1>1, <1>2, <2>1
<1>4. \E k \in 1 .. Len(list) + 1 :
         /\ \A j \in k .. Len(list) : life[list[j]] = "queued" /\ Rank[list[j]] < Rank[a]
         /\ k > 1 => ~(life[list[k - 1]] = "queued" /\ Rank[list[k - 1]] < Rank[a])
  BY <1>3
<1> QED
  BY <1>4 DEF InsertionIndex

(* What stands where after an insertion.                                   *)
LEMMA InsertPlaces ==
    ASSUME NEW s \in Seq(Act), NEW a \in Act, NEW i \in 1 .. Len(s) + 1
    PROVE  LET t == InsertAt(s, i, a)
           IN  /\ t \in Seq(Act) /\ Len(t) = Len(s) + 1 /\ DOMAIN t = 1 .. Len(t)
               /\ \A j \in 1 .. Len(t) : t[j] = IF j < i THEN s[j] ELSE IF j = i THEN a ELSE s[j - 1]
<1> DEFINE t == InsertAt(s, i, a)
<1> DEFINE p == SubSeq(s, 1, i - 1)
           q == SubSeq(s, i, Len(s))
           r == p \o <<a>>
<1>1. p \in Seq(Act) /\ Len(p) = i - 1 /\ \A j \in 1 .. i - 1 : p[j] = s[j]
  OBVIOUS
<1>2. q \in Seq(Act) /\ Len(q) = Len(s) - i + 1 /\ \A j \in 1 .. Len(s) - i + 1 : q[j] = s[j + i - 1]
  OBVIOUS
<1>3. t = r \o q
  BY DEF InsertAt
<1> HIDE DEF p, q, t
<1>4. r \in Seq(Act) /\ Len(r) = i /\ r[i] = a /\ \A j \in 1 .. i - 1 : r[j] = s[j]
  BY <1>1
<1> HIDE DEF r
<1>5. t \in Seq(Act) /\ Len(t) = Len(s) + 1 /\ DOMAIN t = 1 .. Len(t)
  <2>1. t \in Seq(Act) /\ Len(t) = Len(r) + Len(q)
    BY <1>2, <1>3, <1>4
  <2>2. Len(r) + Len(q) = Len(s) + 1
    BY <1>2, <1>4
  <2> QED
    BY <2>1, <2>2
<1>6. ASSUME NEW j \in 1 .. Len(t)
      PROVE  t[j] = IF j < i THEN s[j] ELSE IF j = i THEN a ELSE s[j - 1]
  <2>1. CASE j <= i
    <3>1. t[j] = r[j]
      BY <1>2, <1>3, <1>4, <1>5, <2>1
    <3> QED
      BY <1>4, <2>1, <3>1
  <2>2. CASE j > i
    <3>1. t[j] = q[j - i]
      BY <1>2, <1>3, <1>4, <1>5, <2>2
    <3>2. j - i \in 1 .. Len(s) - i + 1 /\ (j - i) + i - 1 = j - 1
      BY <1>5, <2>2
    <3> QED
      BY <1>2, <2>2, <3>1, <3>2
  <2> QED
    BY <2>1, <2>2
<1> QED
  BY <1>5, <1>6 DEF t

(* An insertion adds one member, and no duplicate of another.              *)
LEMMA InsertMembers ==
    ASSUME NEW s \in Seq(Act), NEW a \in Act, NEW i \in 1 .. Len(s) + 1
    PROVE  /\ InsertAt(s, i, a) \in Seq(Act)
           /\ ToSet(InsertAt(s, i, a)) = ToSet(s) \cup {a}
           /\ IsInjective(s) /\ a \notin ToSet(s) => IsInjective(InsertAt(s, i, a))
<1> DEFINE t == InsertAt(s, i, a)
<1>1. /\ t \in Seq(Act) /\ Len(t) = Len(s) + 1 /\ DOMAIN t = 1 .. Len(t)
      /\ \A j \in 1 .. Len(t) : t[j] = IF j < i THEN s[j] ELSE IF j = i THEN a ELSE s[j - 1]
  BY InsertPlaces
<1> HIDE DEF t
<1>2. ToSet(t) \subseteq ToSet(s) \cup {a}
  BY <1>1 DEF ToSet
<1>3. a \in ToSet(t)
  BY <1>1 DEF ToSet
<1>4. ASSUME NEW j \in 1 .. Len(s)
      PROVE  s[j] \in ToSet(t)
  <2>1. \A k \in 1 .. Len(t) : t[k] \in ToSet(t)
    BY <1>1 DEF ToSet
  <2>2. CASE j < i
    <3>1. j \in 1 .. Len(t) /\ t[j] = s[j]
      BY <1>1, <2>2
    <3> QED
      BY <2>1, <3>1
  <2>3. CASE ~(j < i)
    <3>1. j + 1 \in 1 .. Len(t) /\ t[j + 1] = s[j]
      BY <1>1, <2>3
    <3> QED
      BY <2>1, <3>1
  <2> QED
    BY <2>2, <2>3
<1>5. ASSUME IsInjective(s), a \notin ToSet(s), NEW j \in 1 .. Len(t), NEW k \in 1 .. Len(t), t[j] = t[k]
      PROVE  j = k
  <2>1. \A n \in 1 .. Len(s) : s[n] # a
    BY <1>5 DEF ToSet
  <2>2. \A n, m \in 1 .. Len(s) : s[n] = s[m] => n = m
    BY <1>5 DEF IsInjective
  <2>3. \A k1 \in 1 .. Len(t) : k1 = i \/ (k1 < i /\ k1 \in 1 .. Len(s) /\ t[k1] = s[k1])
                                 \/ (k1 > i /\ k1 - 1 \in 1 .. Len(s) /\ t[k1] = s[k1 - 1])
    BY <1>1
  <2>4. t[i] = a /\ i \in 1 .. Len(t)
    BY <1>1
  <2> QED
    BY <1>5, <2>1, <2>2, <2>3, <2>4
<1>6. ToSet(t) = ToSet(s) \cup {a}
  <2>1. ToSet(s) \subseteq ToSet(t)
    BY <1>4 DEF ToSet
  <2> QED
    BY <1>2, <1>3, <2>1
<1> QED
  BY <1>1, <1>5, <1>6 DEF t, IsInjective

(* Moves of actions that the store owns leave it whole.                    *)
LEMMA StoreMoved ==
    ASSUME StoreTypeOK, NEW S, NEW t \in {"queued"} \cup Active,
           \A a \in S : a \in Act /\ life[a] \in {"queued"} \cup Active,
           lanes' = lanes, life' = Moved(S, t)
    PROVE  StoreTypeOK'
<1>1. \A a \in Act : life'[a] \in {"new"} \cup Terminal <=> life[a] \in {"new"} \cup Terminal
  BY DEF Moved, Active, Terminal
<1>2. life' \in [Act -> {"new", "queued"} \cup Active \cup Terminal]
  BY DEF Moved, StoreTypeOK
<1>3. Owned' = Owned
  BY DEF Owned
<1> QED
  BY <1>1, <1>2, <1>3 DEF StoreTypeOK

(* Finished actions leave the store, and nothing else does.                *)
LEMMA StoreReleased ==
    ASSUME StoreTypeOK, NEW S, NEW t \in Terminal, lanes' = Released(S), life' = Moved(S, t)
    PROVE  StoreTypeOK'
<1>1. \A l \in Lane : lanes[l] \in Seq(Act)
  BY DEF StoreTypeOK
<1>2. \A l \in Lane : lanes'[l] = Keep(lanes[l], Act \ S)
  BY DEF Released
<1>3. \A l \in Lane : /\ lanes'[l] \in Seq(Act)
                      /\ ToSet(lanes'[l]) = ToSet(lanes[l]) \cap (Act \ S)
                      /\ IsInjective(lanes[l]) => IsInjective(lanes'[l])
  BY <1>1, <1>2, KeepMembers
<1>4. lanes' \in [Lane -> Seq(Act)]
  BY <1>1, <1>2, <1>3 DEF Released
<1>5. life' \in [Act -> {"new", "queued"} \cup Active \cup Terminal]
  BY DEF Moved, StoreTypeOK
<1>6. Owned' = Owned \cap (Act \ S)
  BY <1>3 DEF Owned, Lane
<1>7. \A a \in Act : life'[a] \notin {"new"} \cup Terminal <=> life[a] \notin {"new"} \cup Terminal /\ a \notin S
  BY DEF Moved
<1>8. \A l \in Lane : IsInjective(lanes'[l]) /\ \A a \in ToSet(lanes'[l]) : LaneOf(a) = l
  BY <1>3 DEF StoreTypeOK
<1>9. Owned' = {a \in Act : life'[a] \notin {"new"} \cup Terminal}
  BY <1>6, <1>7 DEF StoreTypeOK
<1> QED
  BY <1>4, <1>5, <1>8, <1>9 DEF StoreTypeOK

(* enqueue adds an action to its lane.                                     *)
LEMMA StoreAdmitted ==
    ASSUME StoreTypeOK, NEW a \in Act, life[a] = "new", NEW t \in {"queued", "selected"},
           lanes' = Enqueued(a), life' = [life EXCEPT ![a] = t]
    PROVE  StoreTypeOK'
<1> DEFINE l == LaneOf(a)
           i == InsertionIndex(lanes[l], a)
<1>0. l \in Lane /\ lanes \in [Lane -> Seq(Act)] /\ i \in 1 .. Len(lanes[l]) + 1
  BY InsertionIndexType DEF LaneOf, Lane, StoreTypeOK
<1>1. lanes' = [lanes EXCEPT ![l] = InsertAt(lanes[l], i, a)]
  BY <1>0 DEF Enqueued
<1>2. a \notin ToSet(lanes[l])
  BY <1>0 DEF StoreTypeOK, Owned, Lane
<1>3. /\ InsertAt(lanes[l], i, a) \in Seq(Act)
      /\ ToSet(InsertAt(lanes[l], i, a)) = ToSet(lanes[l]) \cup {a}
      /\ IsInjective(InsertAt(lanes[l], i, a))
  BY <1>0, <1>2, InsertMembers DEF StoreTypeOK
<1> HIDE DEF i
<1>4. lanes' \in [Lane -> Seq(Act)]
  BY <1>0, <1>1, <1>3
<1>5. \A k \in Lane : IsInjective(lanes'[k]) /\ \A b \in ToSet(lanes'[k]) : LaneOf(b) = k
  BY <1>0, <1>1, <1>3 DEF StoreTypeOK
<1>6. Owned' = Owned \cup {a}
  <2>1. \A k \in Lane : ToSet(lanes'[k]) = IF k = l THEN ToSet(lanes[k]) \cup {a} ELSE ToSet(lanes[k])
    BY <1>0, <1>1, <1>3
  <2> QED
    BY <1>0, <2>1 DEF Owned, Lane
<1>7. life' \in [Act -> {"new", "queued"} \cup Active \cup Terminal]
  BY DEF StoreTypeOK, Active
<1>8. \A b \in Act : life'[b] \notin {"new"} \cup Terminal <=> life[b] \notin {"new"} \cup Terminal \/ b = a
  BY DEF StoreTypeOK, Terminal
<1> QED
  BY <1>4, <1>5, <1>6, <1>7, <1>8 DEF StoreTypeOK

(* The queued actions are the ones selection looks at.                     *)
LEMMA QueuedMembers ==
    ASSUME StoreTypeOK
    PROVE  /\ \A l \in Lane : QueuedIn(l) \in Seq(Act) /\ \A a \in ToSet(QueuedIn(l)) : a \in Act /\ life[a] = "queued"
           /\ SelectionOrder # <<>> => Head(SelectionOrder) \in Act /\ life[Head(SelectionOrder)] = "queued"
<1>1. ASSUME NEW l \in Lane
      PROVE  QueuedIn(l) \in Seq(Act) /\ \A a \in ToSet(QueuedIn(l)) : a \in Act /\ life[a] = "queued"
  <2>1. lanes[l] \in Seq(Act)
    BY DEF StoreTypeOK
  <2> QED
    BY <2>1, KeepMembers DEF QueuedIn, InLife
<1>2. QueuedIn("steer") \in Seq(Act) /\ QueuedIn("follow") \in Seq(Act)
  BY <1>1 DEF Lane
<1>3. ASSUME SelectionOrder # <<>>
      PROVE  Head(SelectionOrder) \in ToSet(QueuedIn("steer")) \cup ToSet(QueuedIn("follow"))
  BY <1>2, <1>3 DEF SelectionOrder, ToSet
<1> QED
  BY <1>1, <1>3 DEF Lane

(* A sequence begins with a longest part inside a set.                     *)
LEMMA FirstOutside ==
    ASSUME NEW r \in Seq(Act), NEW J
    PROVE  \E k \in 0..Len(r) : (\A i \in 1..k : r[i] \in J) /\ (k < Len(r) => r[k + 1] \notin J)
<1> DEFINE I == {k \in 0..Len(r) : k < Len(r) => r[k + 1] \notin J}
<1>1. Len(r) \in I /\ I \subseteq Nat
  OBVIOUS
<1>2. PICK k \in I : \A j \in I : k <= j
  BY <1>1, LeastNumber
<1>3. ASSUME NEW i \in 1..k, r[i] \notin J
      PROVE  FALSE
  <2>1. i - 1 \in I
    BY <1>1, <1>3
  <2> HIDE DEF I
  <2> QED
    BY <1>1, <1>2, <2>1
<1> QED
  BY <1>3

(* The turns of a batch: the first one, and queued ones.                   *)
LEMMA BatchMembers ==
    ASSUME StoreTypeOK, NEW first \in Act \ Command
    PROVE  /\ BatchWith(first) \in Seq(Act)
           /\ first \in ToSet(BatchWith(first))
           /\ \A a \in ToSet(BatchWith(first)) : a = first \/ (a \notin Command /\ life[a] = "queued")
<1> DEFINE rest == Keep(QueuedIn(LaneOf(first)), Act \ {first})
           joins(a) == a \notin Command /\ (a \in Visible <=> first \in Visible)
           n == CHOOSE k \in 0..Len(rest) :
                   /\ \A i \in 1..k : joins(rest[i])
                   /\ k < Len(rest) => ~joins(rest[k + 1])
<1>1. rest \in Seq(Act) /\ \A a \in ToSet(rest) : life[a] = "queued"
  <2>1. QueuedIn(LaneOf(first)) \in Seq(Act) /\ \A a \in ToSet(QueuedIn(LaneOf(first))) : life[a] = "queued"
    BY QueuedMembers DEF LaneOf, Lane
  <2> QED
    BY <2>1, KeepMembers
<1> HIDE DEF rest
<1>2. \E k \in 0..Len(rest) : (\A i \in 1..k : joins(rest[i])) /\ (k < Len(rest) => ~joins(rest[k + 1]))
  <2> DEFINE J == {a \in Act : joins(a)}
  <2>1. PICK k \in 0..Len(rest) : (\A i \in 1..k : rest[i] \in J) /\ (k < Len(rest) => rest[k + 1] \notin J)
    BY <1>1, FirstOutside
  <2>2. k < Len(rest) => rest[k + 1] \in Act
    BY <1>1
  <2> QED
    BY <2>1, <2>2
<1>3. n \in 0..Len(rest) /\ \A i \in 1..n : joins(rest[i])
  BY <1>2
<1>4. BatchWith(first) = IF pre = None /\ LaneOf(first) \in AllMode THEN <<first>> \o SubSeq(rest, 1, n) ELSE <<first>>
  BY DEF BatchWith, rest
<1> HIDE DEF n
<1>5. SubSeq(rest, 1, n) \in Seq(Act) /\ Len(SubSeq(rest, 1, n)) = n /\ \A i \in 1..n : SubSeq(rest, 1, n)[i] = rest[i]
  BY <1>1, <1>3
<1>6. \A i \in 1..n : rest[i] \notin Command /\ life[rest[i]] = "queued"
  BY <1>1, <1>3 DEF ToSet
<1>7. CASE BatchWith(first) = <<first>>
  BY <1>7 DEF ToSet
<1>8. CASE BatchWith(first) = <<first>> \o SubSeq(rest, 1, n)
  <2> DEFINE q == SubSeq(rest, 1, n)
  <2>1. q \in Seq(Act) /\ \A i \in 1..Len(q) : q[i] \notin Command /\ life[q[i]] = "queued"
    BY <1>5, <1>6
  <2> HIDE DEF q
  <2>2. <<first>> \o q \in Seq(Act) /\ (<<first>> \o q)[1] = first /\ Len(<<first>> \o q) = 1 + Len(q)
    BY <2>1
  <2>3. \A i \in 2..Len(<<first>> \o q) : (<<first>> \o q)[i] = q[i - 1]
    BY <2>1
  <2> QED
    BY <1>8, <2>1, <2>2, <2>3 DEF ToSet, q
<1> QED
  BY <1>4, <1>7, <1>8

----------------------------------------------------------------------------
(* Types.                                                                  *)

ControlType ==
    /\ requested \in BOOLEAN /\ chain \in Seq(BOOLEAN) /\ pump \in PumpPoint /\ stale \in BOOLEAN
    /\ pre \in Act \cup {None} /\ batch \in Seq(Act)

HoldsType ==
    /\ suspended \in BOOLEAN /\ inputPause \in BOOLEAN /\ workPause \in BOOLEAN
    /\ busy \subseteq Busy /\ drain \in BOOLEAN /\ left \in 0..MaxEvents

AgentType ==
    /\ streaming \in BOOLEAN /\ durable \subseteq Act /\ broken \in BOOLEAN /\ arrivals \in Seq(Act)
    /\ interrupted \subseteq Act /\ unseen \subseteq Act

(* TypeOK in four parts, one for the store, the pump, the holds on it and  *)
(* the agent.                                                              *)
LEMMA TypeParts ==
    TypeOK <=> StoreTypeOK /\ ControlType /\ HoldsType /\ AgentType
BY DEF TypeOK, ControlType, HoldsType, AgentType

(* The same in the next state.                                             *)
LEMMA TypePartsPrimed ==
    TypeOK' <=> StoreTypeOK' /\ ControlType' /\ HoldsType' /\ AgentType'
BY DEF TypeOK, ControlType, HoldsType, AgentType

(* Scheduling adds at most one pump to the chain.                          *)
LEMMA ScheduleType ==
    ASSUME NEW req \in BOOLEAN, NEW ch \in Seq(BOOLEAN), Schedule(req, ch)
    PROVE  requested' \in BOOLEAN /\ chain' \in Seq(BOOLEAN)
<1>1. requested' \in BOOLEAN
  BY DEF Schedule
<1>2. Append(ch, FALSE) \in Seq(BOOLEAN)
  OBVIOUS
<1>3. chain' = Append(ch, FALSE) \/ chain' = ch
  BY DEF Schedule
<1> QED
  BY <1>1, <1>2, <1>3

(* Moving the epoch marks the scheduled pumps stale and adds none.         *)
LEMMA OutdatedType ==
    ASSUME NEW ch \in Seq(BOOLEAN)
    PROVE  Outdated(ch) \in Seq(BOOLEAN)
<1>1. Outdated(ch) = [i \in 1 .. Len(ch) |-> TRUE] /\ Len(ch) \in Nat
  BY DEF Outdated
<1>2. \A x : x = TRUE => [i \in 1 .. Len(ch) |-> x] \in Seq(BOOLEAN)
  BY <1>1
<1> QED
  BY <1>1, <1>2

(* What the ends of a pump's iteration and of the pump leave behind.       *)
LEMMA ExitFacts ==
    ASSUME ControlType, NEW b, ExitPump(b)
    PROVE  /\ ControlType' /\ UNCHANGED <<holds, agent>>
           /\ pump' = "off" /\ pre' = None /\ batch' = <<>>
<1>1. pump' = "off" /\ stale' = FALSE /\ pre' = None /\ batch' = <<>> /\ UNCHANGED <<holds, agent>>
  BY DEF ExitPump
<1>2. requested' \in BOOLEAN /\ chain' \in Seq(BOOLEAN)
  <2>1. CASE UNCHANGED <<requested, chain>>
    BY <2>1 DEF ControlType
  <2>2. CASE Schedule(requested, chain)
    BY <2>2, ScheduleType DEF ControlType
  <2> QED
    BY <2>1, <2>2 DEF ExitPump
<1>3. pump' \in PumpPoint /\ pre' \in Act \cup {None} /\ batch' \in Seq(Act)
  BY <1>1 DEF PumpPoint
<1>4. stale' \in BOOLEAN
  BY <1>1
<1> QED
  BY <1>1, <1>2, <1>3, <1>4 DEF ControlType

(* A pump that goes on to its next iteration holds nothing.                *)
LEMMA ContinueFacts ==
    ASSUME ControlType, ContinuePump
    PROVE  /\ ControlType' /\ UNCHANGED <<holds, agent>>
           /\ pump' = "loop" /\ pre' = None /\ batch' = <<>>
BY DEF ContinuePump, ControlType, PumpPoint

(* A pump that fails goes on or exits, and holds nothing either way.       *)
LEMMA FailFacts ==
    ASSUME ControlType, NEW d, PumpFails(d)
    PROVE  /\ ControlType' /\ UNCHANGED <<holds, agent>>
           /\ pump' \in {"off", "loop"} /\ pre' = None /\ batch' = <<>>
BY ExitFacts, ContinueFacts DEF PumpFails

(* The action a pump finds selected is one of the store's.                 *)
LEMMA SelectedHead ==
    ASSUME StoreTypeOK
    PROVE  LET sel == Keep(lanes["steer"] \o lanes["follow"], InLife("selected"))
           IN  sel # <<>> => Head(sel) \in Act /\ life[Head(sel)] = "selected"
<1> DEFINE all == lanes["steer"] \o lanes["follow"]
           sel == Keep(all, InLife("selected"))
<1>1. all \in Seq(Act)
  BY DEF StoreTypeOK, Lane
<1> HIDE DEF all
<1>2. sel \in Seq(Act) /\ ToSet(sel) \subseteq InLife("selected")
  BY <1>1, KeepMembers
<1> HIDE DEF sel
<1>3. sel # <<>> => Head(sel) \in Act /\ Head(sel) \in ToSet(sel)
  BY <1>2 DEF ToSet
<1> QED
  BY <1>2, <1>3 DEF sel, all, InLife

(* The choice of the pump: it returns, or takes up one command, or turns   *)
(* that were queued or selected.                                           *)
LEMMA SelectFacts ==
    ASSUME PumpInv, SelectStep
    PROVE  \/ /\ \E b \in BOOLEAN : ExitPump(b)
              /\ UNCHANGED <<lanes, life>>
           \/ /\ pump' = "command" /\ interrupted' = interrupted \ ToSet(batch')
              /\ UNCHANGED <<lanes, requested, chain, stale, pre, holds, streaming, durable, broken, arrivals, unseen>>
              /\ \E c \in Command \cap Act :
                    /\ batch' = <<c>>
                    /\ \/ life' = life /\ life[c] \in {"selected", "cancelled"}
                       \/ life' = Moved({c}, "selected") /\ life[c] = "queued"
           \/ /\ pump' = "prepare" /\ interrupted' = interrupted \ ToSet(batch')
              /\ UNCHANGED <<lanes, requested, chain, stale, pre, holds, streaming, durable, broken, arrivals, unseen>>
              /\ batch' \in Seq(Act) /\ batch' # <<>> /\ ToSet(batch') \cap Command = {}
              /\ \A a \in ToSet(batch') : life[a] \in {"queued", "selected"}
              /\ life' = Moved(ToSet(batch'), "preparing")
<1> DEFINE first == IF pre # None THEN pre ELSE Head(SelectionOrder)
<1>1. CASE (\E b \in BOOLEAN : ExitPump(b)) /\ UNCHANGED <<lanes, life>>
  BY <1>1
<1>2. CASE /\ ~HandoffDeferred /\ (pre # None \/ SelectionOrder # <<>>)
           /\ IF first \in Command
              THEN /\ life' = IF pre = None THEN Moved({first}, "selected") ELSE life
                   /\ batch' = <<first>>
                   /\ pump' = "command"
              ELSE /\ batch' = BatchWith(first)
                   /\ life' = Moved(ToSet(batch'), "preparing")
                   /\ pump' = "prepare"
           /\ interrupted' = interrupted \ ToSet(batch')
           /\ UNCHANGED <<lanes, requested, chain, stale, pre, holds, streaming, durable, broken, arrivals, unseen>>
  <2>1. StoreTypeOK /\ pre \in Act \cup {None}
    BY DEF PumpInv, TypeOK
  <2>2. pre # None => life[pre] = "selected" \/ (life[pre] = "cancelled" /\ pre \in Command)
    BY <1>2 DEF PumpInv, PumpHolds, SelectStep, HandoffDeferred
  <2>3. pre = None => Head(SelectionOrder) \in Act /\ life[Head(SelectionOrder)] = "queued"
    BY <1>2, <2>1, QueuedMembers
  <2>4. first \in Act
    BY <2>1, <2>3
  <2>5. CASE first \in Command
    BY <1>2, <2>2, <2>3, <2>4, <2>5
  <2>6. CASE first \notin Command
    <3>1. life[first] \in {"queued", "selected"}
      BY <2>2, <2>3, <2>6
    <3> HIDE DEF first
    <3>2. /\ BatchWith(first) \in Seq(Act) /\ first \in ToSet(BatchWith(first))
          /\ \A a \in ToSet(BatchWith(first)) : a = first \/ (a \notin Command /\ life[a] = "queued")
      BY <2>1, <2>4, <2>6, BatchMembers
    <3>3. BatchWith(first) # <<>>
      BY <3>2 DEF ToSet
    <3> QED
      BY <1>2, <2>6, <3>1, <3>2, <3>3
  <2> QED
    BY <2>5, <2>6
<1> QED
  BY <1>1, <1>2 DEF SelectStep

(* The pump's own variables keep their types.                                *)
LEMMA ControlStep ==
    ASSUME PumpInv, [Next]_vars
    PROVE  ControlType'
<1>0. StoreTypeOK /\ ControlType /\ HoldsType /\ AgentType
  BY TypeParts DEF PumpInv
<1> USE <1>0 DEF ControlType, PumpPoint, AgentType, HoldsType
<1>1. CASE UNCHANGED vars
  BY <1>1 DEF vars, control
<1>2. ASSUME NEW a \in Act, NEW imm \in BOOLEAN, Admit(a, imm)
      PROVE  ControlType'
  <2>1. requested' \in BOOLEAN /\ chain' \in Seq(BOOLEAN)
    <3> DEFINE resume == suspended /\ (~streaming \/ (imm /\ a \notin Command))
               ch == IF resume THEN Outdated(chain) ELSE chain
    <3>1. ch \in Seq(BOOLEAN)
      BY OutdatedType
    <3>2. Schedule(requested, ch) \/ (requested' = requested /\ chain' = ch)
      BY <1>2 DEF Admit
    <3> HIDE DEF ch
    <3> QED
      BY <3>1, <3>2, ScheduleType
  <2>2. UNCHANGED <<pump, pre, batch>> /\ stale' \in BOOLEAN
    BY <1>2 DEF Admit
  <2> QED
    BY <2>1, <2>2
<1>3. CASE StartPump
  <2>1. Head(chain) \in BOOLEAN /\ Tail(chain) \in Seq(BOOLEAN)
    BY <1>3 DEF StartPump
  <2>2. requested' = FALSE /\ stale' = Head(chain) /\ chain' = Tail(chain) /\ pump' = "loop" /\ UNCHANGED <<pre, batch>>
    BY <1>3 DEF StartPump
  <2>3. requested' \in BOOLEAN
    BY <2>2
  <2> QED
    BY <2>1, <2>2, <2>3
<1>4. CASE LoopStep
  <2> DEFINE sel == Keep(lanes["steer"] \o lanes["follow"], InLife("selected"))
  <2>1. CASE ExitPump(FALSE)
    BY <2>1, ExitFacts
  <2>2. CASE pre' = (IF sel = <<>> THEN None ELSE Head(sel)) /\ pump' = "events" /\ UNCHANGED <<requested, chain, stale, batch>>
    BY <2>2, SelectedHead
  <2> QED
    BY <1>4, <2>1, <2>2 DEF LoopStep
<1>5. CASE AwaitEvents
  BY <1>5, ExitFacts DEF AwaitEvents
<1>6. CASE SelectStep
  <2>1. CASE \E b \in BOOLEAN : ExitPump(b)
    BY <2>1, ExitFacts
  <2>2. CASE ~ \E b \in BOOLEAN : ExitPump(b)
    <3>1. UNCHANGED <<requested, chain, stale, pre>> /\ pump' \in {"command", "prepare"}
      BY <1>6, <2>2 DEF SelectStep
    <3>2. batch' \in Seq(Act)
      <4>1. batch' \in Seq(Act) \/ \E c \in Act : batch' = <<c>>
        BY <1>6, <2>2, SelectFacts
      <4>2. \A c \in Act : <<c>> \in Seq(Act)
        OBVIOUS
      <4> QED
        BY <4>1, <4>2
    <3> QED
      BY <3>1, <3>2
  <2> QED
    BY <2>1, <2>2
<1>7. CASE CommandStep
  BY <1>7, ExitFacts DEF CommandStep
<1>8. CASE CommandEnds
  BY <1>8, ExitFacts DEF CommandEnds
<1>9. CASE PrepareStep
  <2>1. Preparing \in Seq(Act)
    BY KeepMembers DEF Preparing
  <2>2. CASE \E d \in BOOLEAN : PumpFails(d)
    BY <2>2, FailFacts
  <2>3. CASE ContinuePump
    BY <2>3, ContinueFacts
  <2>4. CASE pump' = "commit" /\ batch' = Preparing /\ UNCHANGED <<requested, chain, stale, pre>>
    BY <2>1, <2>4
  <2> QED
    BY <1>9, <2>2, <2>3, <2>4 DEF PrepareStep
<1>10. CASE CommitStep
  BY <1>10, FailFacts DEF CommitStep
<1>11. CASE Deliver
  BY <1>11 DEF Deliver, control
<1>12. CASE RunEnds
  BY <1>12 DEF RunEnds
<1>13. CASE SettleStep
  BY <1>13, FailFacts, ExitFacts, ContinueFacts DEF SettleStep
<1>14. CASE DrainAfterBash
  <2>1. requested' \in BOOLEAN /\ chain' \in Seq(BOOLEAN)
    BY <1>14, ScheduleType, OutdatedType DEF DrainAfterBash
  <2>2. UNCHANGED <<pump, pre, batch>> /\ stale' \in BOOLEAN
    BY <1>14 DEF DrainAfterBash, BumpEpoch
  <2> QED
    BY <2>1, <2>2
<1>15. CASE WaitForIdle
  <2>1. requested' \in BOOLEAN /\ chain' \in Seq(BOOLEAN)
    BY <1>15, ScheduleType, OutdatedType DEF WaitForIdle
  <2>2. UNCHANGED <<pump, pre, batch>> /\ stale' \in BOOLEAN
    BY <1>15 DEF WaitForIdle, BumpEpoch
  <2> QED
    BY <2>1, <2>2
<1>16. CASE RequestAbort
  <2>1. requested' \in BOOLEAN /\ chain' \in Seq(BOOLEAN)
    BY <1>16, OutdatedType DEF RequestAbort
  <2>2. UNCHANGED <<pump, pre, batch>> /\ stale' \in BOOLEAN
    BY <1>16 DEF RequestAbort, BumpEpoch
  <2> QED
    BY <2>1, <2>2
<1>17. CASE ResumeQueuedWork
  <2>1. requested' \in BOOLEAN /\ chain' \in Seq(BOOLEAN)
    BY <1>17, ScheduleType, OutdatedType DEF ResumeQueuedWork
  <2>2. UNCHANGED <<pump, pre, batch>> /\ stale' \in BOOLEAN
    BY <1>17 DEF ResumeQueuedWork, BumpEpoch
  <2> QED
    BY <2>1, <2>2
<1>18. CASE AcquireInputPause
  <2>1. requested' \in BOOLEAN /\ chain' \in Seq(BOOLEAN)
    BY <1>18, OutdatedType DEF AcquireInputPause
  <2>2. UNCHANGED <<pump, pre, batch>> /\ stale' \in BOOLEAN
    BY <1>18 DEF AcquireInputPause, BumpEpoch
  <2> QED
    BY <2>1, <2>2
<1>19. CASE ReleaseInputPause
  <2>1. requested' \in BOOLEAN /\ chain' \in Seq(BOOLEAN)
    BY <1>19, ScheduleType, OutdatedType DEF ReleaseInputPause
  <2>2. UNCHANGED <<pump, pre, batch>> /\ stale' \in BOOLEAN
    BY <1>19 DEF ReleaseInputPause, BumpEpoch
  <2> QED
    BY <2>1, <2>2
<1>20. CASE AcquireWorkPause
  <2>1. requested' \in BOOLEAN /\ chain' \in Seq(BOOLEAN)
    BY <1>20, OutdatedType DEF AcquireWorkPause
  <2>2. UNCHANGED <<pump, pre, batch>> /\ stale' \in BOOLEAN
    BY <1>20 DEF AcquireWorkPause, BumpEpoch
  <2> QED
    BY <2>1, <2>2
<1>21. CASE ReleaseWorkPause
  <2>1. requested' \in BOOLEAN /\ chain' \in Seq(BOOLEAN)
    BY <1>21, ScheduleType, OutdatedType DEF ReleaseWorkPause
  <2>2. UNCHANGED <<pump, pre, batch>> /\ stale' \in BOOLEAN
    BY <1>21 DEF ReleaseWorkPause, BumpEpoch
  <2> QED
    BY <2>1, <2>2
<1>22. CASE ClearQueue
  <2>1. chain' \in Seq(BOOLEAN) /\ UNCHANGED <<requested, pump, pre, batch>>
    BY <1>22, OutdatedType DEF ClearQueue
  <2>2. stale' \in BOOLEAN
    BY <1>22 DEF ClearQueue
  <2> QED
    BY <2>1, <2>2
<1>23. ASSUME NEW k \in Busy, BeginBusy(k)
      PROVE  ControlType'
  BY <1>23 DEF BeginBusy, control
<1>24. ASSUME NEW k \in Busy, EndBusy(k)
      PROVE  ControlType'
  <2>1. requested' \in BOOLEAN /\ chain' \in Seq(BOOLEAN)
    BY <1>24, ScheduleType, OutdatedType DEF EndBusy
  <2>2. UNCHANGED <<pump, pre, batch>> /\ stale' \in BOOLEAN
    BY <1>24 DEF EndBusy, BumpEpoch
  <2> QED
    BY <2>1, <2>2
<1> QED
  BY <1>1, <1>2, <1>3, <1>4, <1>5, <1>6, <1>7, <1>8, <1>9, <1>10, <1>11, <1>12, <1>13, <1>14, <1>15, <1>16, <1>17, <1>18, <1>19, <1>20, <1>21, <1>22, <1>23, <1>24
  DEF Next, PumpStep, Intervene

(* What holds the pump back and what the agent does keep their types.         *)
LEMMA HoldsStep ==
    ASSUME PumpInv, [Next]_vars
    PROVE  HoldsType' /\ AgentType'
<1>0. StoreTypeOK /\ ControlType /\ HoldsType /\ AgentType
  BY TypeParts DEF PumpInv
<1> USE <1>0 DEF ControlType, HoldsType, AgentType
<1>1. CASE UNCHANGED vars
  BY <1>1 DEF vars, holds, agent
<1>2. ASSUME NEW a \in Act, NEW imm \in BOOLEAN, Admit(a, imm)
      PROVE  HoldsType' /\ AgentType'
  <2>1. UNCHANGED <<inputPause, workPause, busy, drain, left, streaming, durable, broken, interrupted>> /\ suspended' \in BOOLEAN
    BY <1>2 DEF Admit
  <2>2. arrivals' \in Seq(Act) /\ unseen' \subseteq Act
    BY <1>2 DEF Admit
  <2> QED
    BY <2>1, <2>2
<1>3. CASE StartPump
  BY <1>3 DEF StartPump, holds, agent
<1>4. CASE LoopStep
  BY <1>4, ExitFacts DEF LoopStep, holds, agent
<1>5. CASE AwaitEvents
  BY <1>5, ExitFacts DEF AwaitEvents, holds, agent
<1>6. CASE SelectStep
  BY <1>6, SelectFacts, ExitFacts DEF holds, agent
<1>7. CASE CommandStep
  BY <1>7, ExitFacts DEF CommandStep, holds, agent
<1>8. CASE CommandEnds
  BY <1>8, ExitFacts DEF CommandEnds, holds, agent
<1>9. CASE PrepareStep
  BY <1>9, FailFacts, ContinueFacts DEF PrepareStep, holds, agent
<1>10. CASE CommitStep
  <2>1. CASE \E d \in BOOLEAN : PumpFails(d)
    BY <2>1, FailFacts DEF holds, agent
  <2>2. CASE streaming' = TRUE /\ UNCHANGED <<holds, durable, broken, arrivals, interrupted, unseen>>
    <3>1. streaming' \in BOOLEAN
      BY <2>2
    <3> QED
      BY <2>2, <3>1 DEF holds
  <2> QED
    BY <1>10, <2>1, <2>2 DEF CommitStep
<1>11. CASE Deliver
  <2>1. UNCHANGED <<holds, streaming, broken, arrivals, interrupted, unseen>>
    BY <1>11 DEF Deliver
  <2>2. durable' \subseteq Act
    BY <1>11 DEF Deliver
  <2> QED
    BY <2>1, <2>2 DEF holds
<1>12. CASE RunEnds
  <2>1. UNCHANGED <<holds, durable, arrivals, interrupted, unseen>>
    BY <1>12 DEF RunEnds
  <2>2. streaming' = FALSE /\ (broken' = FALSE \/ broken' = ("events" \in Faults))
    BY <1>12 DEF RunEnds
  <2>3. broken' \in BOOLEAN
    <3>1. CASE broken' = FALSE
      BY <3>1
    <3>2. CASE broken' = ("events" \in Faults)
      BY <3>2
    <3> QED
      BY <2>2, <3>1, <3>2
  <2>4. streaming' \in BOOLEAN
    BY <2>2
  <2> QED
    BY <2>1, <2>3, <2>4 DEF holds
<1>13. CASE SettleStep
  BY <1>13, FailFacts, ExitFacts, ContinueFacts DEF SettleStep, holds, agent
<1>14. CASE DrainAfterBash
  <2>1. UNCHANGED <<suspended, inputPause, workPause, busy, agent>> /\ left' \in 0..MaxEvents
    BY <1>14, SchedulerAssumption DEF DrainAfterBash, Spend, SchedulerAssumption
  <2>2. drain' \in BOOLEAN
    BY <1>14 DEF DrainAfterBash
  <2> QED
    BY <2>1, <2>2 DEF agent
<1>15. CASE WaitForIdle
  BY <1>15 DEF WaitForIdle, holds, agent
<1>16. CASE RequestAbort
  <2>1. UNCHANGED <<inputPause, workPause, busy, drain, streaming, durable, broken, arrivals, unseen>> /\ left' \in 0..MaxEvents
    BY <1>16, SchedulerAssumption DEF RequestAbort, Interrupt, Spend, SchedulerAssumption
  <2>2. suspended' \in BOOLEAN
    BY <1>16 DEF RequestAbort
  <2>3. interrupted' \subseteq Act
    BY <1>16 DEF RequestAbort, Interrupt, InLife
  <2> QED
    BY <2>1, <2>2, <2>3
<1>17. CASE ResumeQueuedWork
  <2>1. UNCHANGED <<inputPause, workPause, busy, drain, agent>> /\ left' \in 0..MaxEvents
    BY <1>17, SchedulerAssumption DEF ResumeQueuedWork, Spend, SchedulerAssumption
  <2>2. suspended' \in BOOLEAN
    BY <1>17 DEF ResumeQueuedWork
  <2> QED
    BY <2>1, <2>2 DEF agent
<1>18. CASE AcquireInputPause
  <2>1. UNCHANGED <<suspended, workPause, busy, drain, streaming, durable, broken, arrivals, unseen>> /\ left' \in 0..MaxEvents
    BY <1>18, SchedulerAssumption DEF AcquireInputPause, Interrupt, Spend, SchedulerAssumption
  <2>2. inputPause' \in BOOLEAN
    BY <1>18 DEF AcquireInputPause
  <2>3. interrupted' \subseteq Act
    BY <1>18 DEF AcquireInputPause, Interrupt, InLife
  <2> QED
    BY <2>1, <2>2, <2>3
<1>19. CASE ReleaseInputPause
  <2>1. UNCHANGED <<suspended, workPause, busy, drain, agent>> /\ left' \in 0..MaxEvents
    BY <1>19, SchedulerAssumption DEF ReleaseInputPause, Spend, SchedulerAssumption
  <2>2. inputPause' \in BOOLEAN
    BY <1>19 DEF ReleaseInputPause
  <2> QED
    BY <2>1, <2>2 DEF agent
<1>20. CASE AcquireWorkPause
  <2>1. UNCHANGED <<suspended, inputPause, busy, drain, streaming, durable, broken, arrivals, unseen>> /\ left' \in 0..MaxEvents
    BY <1>20, SchedulerAssumption DEF AcquireWorkPause, Interrupt, Spend, SchedulerAssumption
  <2>2. workPause' \in BOOLEAN
    BY <1>20 DEF AcquireWorkPause
  <2>3. interrupted' \subseteq Act
    BY <1>20 DEF AcquireWorkPause, Interrupt, InLife
  <2> QED
    BY <2>1, <2>2, <2>3
<1>21. CASE ReleaseWorkPause
  <2>1. UNCHANGED <<suspended, inputPause, busy, drain, agent>> /\ left' \in 0..MaxEvents
    BY <1>21, SchedulerAssumption DEF ReleaseWorkPause, Spend, SchedulerAssumption
  <2>2. workPause' \in BOOLEAN
    BY <1>21 DEF ReleaseWorkPause
  <2> QED
    BY <2>1, <2>2 DEF agent
<1>22. CASE ClearQueue
  <2>1. UNCHANGED <<suspended, inputPause, workPause, busy, drain, agent>> /\ left' \in 0..MaxEvents
    BY <1>22, SchedulerAssumption DEF ClearQueue, Spend, SchedulerAssumption
  <2> QED
    BY <2>1 DEF agent
<1>23. ASSUME NEW k \in Busy, BeginBusy(k)
      PROVE  HoldsType' /\ AgentType'
  <2>1. UNCHANGED <<suspended, inputPause, workPause, drain, agent>> /\ busy' \subseteq Busy /\ left' \in 0..MaxEvents
    BY <1>23, SchedulerAssumption DEF BeginBusy, Spend, SchedulerAssumption
  <2> QED
    BY <2>1 DEF agent
<1>24. ASSUME NEW k \in Busy, EndBusy(k)
      PROVE  HoldsType' /\ AgentType'
  <2>1. UNCHANGED <<suspended, inputPause, workPause, left, agent>> /\ busy' \subseteq Busy
    BY <1>24 DEF EndBusy
  <2>2. drain' \in BOOLEAN
    BY <1>24 DEF EndBusy
  <2> QED
    BY <2>1, <2>2 DEF agent
<1> QED
  BY <1>1, <1>2, <1>3, <1>4, <1>5, <1>6, <1>7, <1>8, <1>9, <1>10, <1>11, <1>12, <1>13, <1>14, <1>15, <1>16, <1>17, <1>18, <1>19, <1>20, <1>21, <1>22, <1>23, <1>24
  DEF Next, PumpStep, Intervene

----------------------------------------------------------------------------
(* Lifecycles.                                                             *)

(* Preparation goes on with those that are still preparing.                *)
LEMMA PreparingMembers ==
    ASSUME PumpInv
    PROVE  /\ Preparing \in Seq(Act)
           /\ ToSet(Preparing) = {a \in ToSet(batch) : life[a] = "preparing"}
           /\ Preparing = <<>> => ToSet(Preparing) = {}
<1>1. batch \in Seq(Act)
  BY DEF PumpInv, TypeOK
<1>2. Preparing \in Seq(Act) /\ ToSet(Preparing) = ToSet(batch) \cap InLife("preparing")
  BY <1>1, KeepMembers DEF Preparing
<1>3. ToSet(batch) \subseteq Act
  BY <1>1 DEF ToSet
<1>4. ToSet(<<>>) = {}
  BY DEF ToSet
<1> QED
  BY <1>2, <1>3, <1>4 DEF InLife

(* A pump that fails or defers puts back or fails all it still holds and   *)
(* has not delivered.                                                      *)
LEMMA FailMoves ==
    ASSUME PumpInv, NEW d, PumpFails(d), pump \in {"prepare", "commit", "settle"}
    PROVE  /\ \A a \in ToSet(batch) : a \in Act
           /\ \E S \in SUBSET ToSet(batch) :
                /\ \A a \in S : life[a] \in {"preparing", "committing", "running"}
                /\ \A a \in ToSet(batch) \ S : a \in durable \/ life[a] \in Terminal
                /\ \/ life' = Moved(S, "queued") /\ lanes' = lanes /\ S \cap durable = {}
                      /\ \A a \in S : life[a] \in {"preparing", "committing"}
                   \/ life' = Moved(S, "failed") /\ lanes' = Released(S)
<1> DEFINE mine == {a \in ToSet(batch) : life[a] # "cancelled"}
<1>1. \A a \in ToSet(batch) : a \in Act
  BY DEF PumpInv, TypeOK, ToSet
<1>2. \A a \in mine : \/ life[a] \in {"preparing", "committing"}
                      \/ life[a] = "running" /\ a \in durable
  BY DEF PumpInv, PumpHolds, HandedOver
<1>3. CASE life' = Moved(mine \ durable, "queued") /\ lanes' = lanes
  <2> DEFINE S == mine \ durable
  <2>1. /\ S \in SUBSET ToSet(batch) /\ S \cap durable = {}
        /\ \A a \in S : life[a] \in {"preparing", "committing"}
        /\ \A a \in ToSet(batch) \ S : a \in durable \/ life[a] \in Terminal
    BY <1>2 DEF Terminal
  <2> HIDE DEF mine
  <2> QED
    BY <1>1, <1>3, <2>1
<1>4. CASE life' = Moved(mine, "failed") /\ lanes' = Released(mine)
  <2>1. /\ mine \in SUBSET ToSet(batch)
        /\ \A a \in mine : life[a] \in {"preparing", "committing", "running"}
        /\ \A a \in ToSet(batch) \ mine : a \in durable \/ life[a] \in Terminal
    BY <1>2 DEF Terminal
  <2> HIDE DEF mine
  <2> QED
    BY <1>1, <1>4, <2>1
<1> QED
  BY <1>3, <1>4 DEF PumpFails

(* The command a pump holds.                                               *)
LEMMA CommandHeld ==
    ASSUME PumpInv, OneCommand
    PROVE  batch[1] \in Act /\ ToSet(batch) = {batch[1]}
<1>1. batch \in Seq(Act) /\ Len(batch) = 1
  BY DEF PumpInv, TypeOK, OneCommand
<1>2. DOMAIN batch = {1}
  BY <1>1
<1>3. batch[1] \in Act
  BY <1>1
<1> QED
  BY <1>2, <1>3 DEF ToSet

(* The store keeps each unfinished action once, in its lane.                 *)
LEMMA StoreStep ==
    ASSUME PumpInv, [Next]_vars
    PROVE  StoreTypeOK'
<1>0. StoreTypeOK /\ ControlType /\ HoldsType /\ AgentType
  BY TypeParts DEF PumpInv
<1> USE <1>0
<1>1. CASE UNCHANGED vars
  BY <1>1 DEF vars, StoreTypeOK, Owned
<1>2. ASSUME NEW a \in Act, NEW imm \in BOOLEAN, Admit(a, imm)
      PROVE  StoreTypeOK'
  <2>1. life[a] = "new" /\ lanes' = Enqueued(a) /\ \E t \in {"queued", "selected"} : life' = [life EXCEPT ![a] = t]
    BY <1>2 DEF Admit
  <2> QED
    BY <2>1, StoreAdmitted
<1>3. CASE StartPump
  BY <1>3 DEF StartPump, StoreTypeOK, Owned
<1>4. CASE LoopStep
  <2>1. CASE UNCHANGED <<lanes, life>>
    BY <2>1 DEF StoreTypeOK, Owned
  <2>2. CASE lanes' = lanes /\ \E a \in Act : life[a] = "selected" /\ life' = Moved({a}, "queued")
    BY <2>2, StoreMoved DEF Active
  <2> QED
    BY <1>4, <2>1, <2>2, SelectedHead DEF LoopStep
<1>5. CASE AwaitEvents
  BY <1>5 DEF AwaitEvents, StoreTypeOK, Owned
<1>6. CASE SelectStep
  <2>1. CASE UNCHANGED <<lanes, life>>
    BY <2>1 DEF StoreTypeOK, Owned
  <2>2. CASE lanes' = lanes /\ \E c \in Act : life[c] = "queued" /\ life' = Moved({c}, "selected")
    BY <2>2, StoreMoved DEF Active
  <2>3. CASE /\ lanes' = lanes /\ batch' \in Seq(Act) /\ life' = Moved(ToSet(batch'), "preparing")
             /\ \A a \in ToSet(batch') : life[a] \in {"queued", "selected"}
    <3>1. \A a \in ToSet(batch') : a \in Act
      BY <2>3 DEF ToSet
    <3> QED
      BY <2>3, <3>1, StoreMoved DEF Active
  <2> QED
    BY <1>6, <2>1, <2>2, <2>3, SelectFacts
<1>7. CASE CommandStep
  <2>0. batch[1] \in Act
    BY <1>7, CommandHeld DEF CommandStep, PumpInv, PumpHolds
  <2>1. CASE UNCHANGED <<lanes, life>>
    BY <2>1 DEF StoreTypeOK, Owned
  <2>2. CASE lanes' = lanes /\ life[batch[1]] = "selected" /\ \E t \in {"queued", "running"} : life' = Moved({batch[1]}, t)
    BY <2>0, <2>2, StoreMoved DEF Active
  <2> QED
    BY <1>7, <2>1, <2>2 DEF CommandStep
<1>8. CASE CommandEnds
  BY <1>8, StoreReleased DEF CommandEnds, Terminal
<1>9. CASE PrepareStep
  <2>1. CASE UNCHANGED <<lanes, life>>
    BY <2>1 DEF StoreTypeOK, Owned
  <2>2. CASE \E d \in BOOLEAN : PumpFails(d)
    BY <1>9, <2>2, FailMoves, StoreMoved, StoreReleased DEF PrepareStep, Active, Terminal
  <2> QED
    BY <1>9, <2>1, <2>2 DEF PrepareStep
<1>10. CASE CommitStep
  <2>1. CASE \E d \in BOOLEAN : PumpFails(d)
    BY <1>10, <2>1, FailMoves, StoreMoved, StoreReleased DEF CommitStep, Active, Terminal
  <2>2. CASE lanes' = lanes /\ life' = Moved(ToSet(batch), "committing") /\ Preparing = batch
    <3>1. \A a \in ToSet(batch) : a \in Act /\ life[a] = "preparing"
      BY <2>2, PreparingMembers DEF ToSet, ControlType
    <3> QED
      BY <2>2, <3>1, StoreMoved DEF Active
  <2> QED
    BY <1>10, <2>1, <2>2 DEF CommitStep
<1>11. CASE Deliver
  <2>1. PICK i \in 1..Len(batch) : batch[i] \notin durable /\ life' = Moved({batch[i]}, "running")
    BY <1>11 DEF Deliver
  <2>2. batch[i] \in Act /\ batch[i] \in ToSet(batch)
    BY DEF ControlType, ToSet
  <2>3. life[batch[i]] = "committing" /\ lanes' = lanes
    BY <1>11, <2>1, <2>2 DEF Deliver, PumpInv, PumpHolds, HandedOver
  <2> QED
    BY <2>1, <2>2, <2>3, StoreMoved DEF Active
<1>12. CASE RunEnds
  BY <1>12 DEF RunEnds, StoreTypeOK, Owned
<1>13. CASE SettleStep
  <2>1. CASE \E d \in BOOLEAN : PumpFails(d)
    BY <1>13, <2>1, FailMoves, StoreMoved, StoreReleased DEF SettleStep, Active, Terminal
  <2>2. CASE life' = Moved(ToSet(batch), "completed") /\ lanes' = Released(ToSet(batch))
    BY <2>2, StoreReleased DEF Terminal
  <2> QED
    BY <1>13, <2>1, <2>2 DEF SettleStep
<1>14. CASE DrainAfterBash
  BY <1>14 DEF DrainAfterBash, StoreTypeOK, Owned
<1>15. CASE WaitForIdle
  BY <1>15 DEF WaitForIdle, StoreTypeOK, Owned
<1>16. CASE RequestAbort
  BY <1>16, StoreReleased DEF RequestAbort, Terminal
<1>17. CASE ResumeQueuedWork
  BY <1>17 DEF ResumeQueuedWork, StoreTypeOK, Owned
<1>18. CASE AcquireInputPause
  BY <1>18 DEF AcquireInputPause, StoreTypeOK, Owned
<1>19. CASE ReleaseInputPause
  BY <1>19 DEF ReleaseInputPause, StoreTypeOK, Owned
<1>20. CASE AcquireWorkPause
  BY <1>20 DEF AcquireWorkPause, StoreTypeOK, Owned
<1>21. CASE ReleaseWorkPause
  BY <1>21 DEF ReleaseWorkPause, StoreTypeOK, Owned
<1>22. CASE ClearQueue
  BY <1>22, StoreReleased DEF ClearQueue, Terminal
<1>23. ASSUME NEW k \in Busy, BeginBusy(k)
      PROVE  StoreTypeOK'
  BY <1>23 DEF BeginBusy, StoreTypeOK, Owned
<1>24. ASSUME NEW k \in Busy, EndBusy(k)
      PROVE  StoreTypeOK'
  BY <1>24 DEF EndBusy, StoreTypeOK, Owned
<1> QED
  BY <1>1, <1>2, <1>3, <1>4, <1>5, <1>6, <1>7, <1>8, <1>9, <1>10, <1>11, <1>12, <1>13, <1>14, <1>15, <1>16, <1>17, <1>18, <1>19, <1>20, <1>21, <1>22, <1>23, <1>24
  DEF Next, PumpStep, Intervene

(* A move of the actions S to state t that transitionSessionAction allows, *)
(* that repeats no delivery, that selects only commands, and that hands    *)
(* over only when nothing holds.                                           *)
GoesTo(S, t) ==
    /\ S \subseteq Act
    /\ life' = Moved(S, t)
    /\ \A a \in S : /\ life[a] \in {"queued"} \cup Active
                    /\ t \in LegalTransitions[life[a]] \/ (life[a] = "queued" /\ t = "preparing")
                    /\ t = "queued" => a \notin durable
                    /\ t = "selected" => a \in Command
    /\ t = "committing" => ~suspended /\ ~workPause /\ ~streaming /\ ~stale

(* What a step may do to the lifecycles.                                   *)
LivesMove ==
    \/ life' = life
    \/ \E a \in Act, imm \in BOOLEAN : Admit(a, imm)
    \/ \E S, t : GoesTo(S, t)

(* The lifecycle table of the action store, row by row.                    *)
LEMMA Legality ==
    /\ LegalTransitions["queued"] = {"selected", "failed", "cancelled"}
    /\ LegalTransitions["selected"] = {"queued", "preparing", "running", "failed", "cancelled"}
    /\ LegalTransitions["preparing"] = {"queued", "committing", "failed", "cancelled"}
    /\ LegalTransitions["committing"] = {"queued", "running", "failed", "cancelled"}
    /\ LegalTransitions["running"] = {"completed", "failed", "cancelled"}
BY DEF LegalTransitions

(* A failing pump moves what it holds legally.                             *)
LEMMA FailLegal ==
    ASSUME PumpInv, NEW d, PumpFails(d), pump \in {"prepare", "commit", "settle"}
    PROVE  LivesMove
<1>1. PICK S \in SUBSET ToSet(batch) :
         /\ \A a \in S : life[a] \in {"preparing", "committing", "running"}
         /\ \/ life' = Moved(S, "queued") /\ S \cap durable = {}
               /\ \A a \in S : life[a] \in {"preparing", "committing"}
            \/ life' = Moved(S, "failed")
  BY FailMoves
<1>2. S \subseteq Act
  BY FailMoves
<1>3. CASE life' = Moved(S, "queued") /\ S \cap durable = {} /\ \A a \in S : life[a] \in {"preparing", "committing"}
  <2>1. GoesTo(S, "queued")
    BY <1>2, <1>3, Legality DEF GoesTo, Active
  <2> QED
    BY <2>1 DEF LivesMove
<1>4. CASE life' = Moved(S, "failed")
  <2>1. GoesTo(S, "failed")
    BY <1>1, <1>2, <1>4, Legality DEF GoesTo, Active
  <2> QED
    BY <2>1 DEF LivesMove
<1> QED
  BY <1>1, <1>3, <1>4

(* Every step moves lifecycles legally.                                      *)
LEMMA LivesStep ==
    ASSUME PumpInv, [Next]_vars
    PROVE  LivesMove
<1>0. StoreTypeOK /\ ControlType /\ HoldsType /\ AgentType
  BY TypeParts DEF PumpInv
<1> USE <1>0
<1>1. CASE UNCHANGED vars
  BY <1>1 DEF vars, LivesMove
<1>2. ASSUME NEW a \in Act, NEW imm \in BOOLEAN, Admit(a, imm)
      PROVE  LivesMove
  BY <1>2 DEF LivesMove
<1>3. CASE StartPump
  BY <1>3 DEF StartPump, LivesMove
<1>4. CASE LoopStep
  <2>1. CASE life' = life
    BY <2>1 DEF LivesMove
  <2>2. CASE \E a \in Act : life[a] = "selected" /\ life' = Moved({a}, "queued")
    <3>1. PICK a \in Act : life[a] = "selected" /\ life' = Moved({a}, "queued")
      BY <2>2
    <3>2. a \notin durable
      BY <3>1 DEF PumpInv, LivesFit, Terminal
    <3>3. GoesTo({a}, "queued")
      BY <3>1, <3>2, Legality DEF GoesTo, Active
    <3> QED
      BY <3>3 DEF LivesMove
  <2> QED
    BY <1>4, <2>1, <2>2, SelectedHead DEF LoopStep
<1>5. CASE AwaitEvents
  BY <1>5 DEF AwaitEvents, LivesMove
<1>6. CASE SelectStep
  <2>1. CASE life' = life
    BY <2>1 DEF LivesMove
  <2>2. CASE \E c \in Command \cap Act : life[c] = "queued" /\ life' = Moved({c}, "selected")
    <3>1. PICK c \in Command \cap Act : life[c] = "queued" /\ life' = Moved({c}, "selected")
      BY <2>2
    <3>2. GoesTo({c}, "selected")
      BY <3>1, Legality DEF GoesTo
    <3> QED
      BY <3>2 DEF LivesMove
  <2>3. CASE /\ batch' \in Seq(Act) /\ life' = Moved(ToSet(batch'), "preparing")
             /\ \A a \in ToSet(batch') : life[a] \in {"queued", "selected"}
    <3>1. ToSet(batch') \subseteq Act
      BY <2>3 DEF ToSet
    <3>2. GoesTo(ToSet(batch'), "preparing")
      BY <2>3, <3>1, Legality DEF GoesTo, Active
    <3> QED
      BY <3>2 DEF LivesMove
  <2> QED
    BY <1>6, <2>1, <2>2, <2>3, SelectFacts
<1>7. CASE CommandStep
  <2>0. batch[1] \in Act
    BY <1>7, CommandHeld DEF CommandStep, PumpInv, PumpHolds
  <2>1. CASE life' = life
    BY <2>1 DEF LivesMove
  <2>2. CASE life[batch[1]] = "selected" /\ \E t \in {"queued", "running"} : life' = Moved({batch[1]}, t)
    <3>1. PICK t \in {"queued", "running"} : life' = Moved({batch[1]}, t)
      BY <2>2
    <3>2. batch[1] \notin durable
      BY <2>2 DEF PumpInv, LivesFit, Terminal
    <3>3. GoesTo({batch[1]}, t)
      BY <2>0, <2>2, <3>1, <3>2, Legality DEF GoesTo, Active
    <3> QED
      BY <3>3 DEF LivesMove
  <2> QED
    BY <1>7, <2>1, <2>2 DEF CommandStep
<1>8. CASE CommandEnds
  <2>1. batch[1] \in Act /\ life[batch[1]] = "running"
    <3>1. ~streaming
      <4>1. batch \in Seq(Act)
        BY <1>0 DEF ControlType
      <4>2. batch # <<>> /\ Turns => batch[1] \notin Command
        BY <4>1 DEF Turns, ToSet
      <4> QED
        BY <1>8, <4>2 DEF CommandEnds, PumpInv, PumpHolds
    <3> QED
      BY <1>8, <3>1, CommandHeld DEF CommandEnds, PumpInv, PumpHolds
  <2>2. PICK t \in {"completed", "failed"} : life' = Moved({batch[1]}, t)
    BY <1>8 DEF CommandEnds
  <2>3. GoesTo({batch[1]}, t)
    BY <2>1, <2>2, Legality DEF GoesTo, Active
  <2> QED
    BY <2>3 DEF LivesMove
<1>9. CASE PrepareStep
  <2>1. CASE \E d \in BOOLEAN : PumpFails(d)
    BY <1>9, <2>1, FailLegal DEF PrepareStep
  <2>2. CASE life' = life
    BY <2>2 DEF LivesMove
  <2> QED
    BY <1>9, <2>1, <2>2 DEF PrepareStep
<1>10. CASE CommitStep
  <2>1. CASE \E d \in BOOLEAN : PumpFails(d)
    BY <1>10, <2>1, FailLegal DEF CommitStep
  <2>2. CASE life' = Moved(ToSet(batch), "committing") /\ Preparing = batch /\ ~HandoffDeferred /\ ~streaming
    <3>1. ToSet(batch) \subseteq Act /\ \A a \in ToSet(batch) : life[a] = "preparing"
      BY <2>2, PreparingMembers DEF ToSet, ControlType
    <3>2. GoesTo(ToSet(batch), "committing")
      BY <2>2, <3>1, Legality DEF GoesTo, Active, HandoffDeferred, PumpBusy
    <3> QED
      BY <3>2 DEF LivesMove
  <2> QED
    BY <1>10, <2>1, <2>2 DEF CommitStep
<1>11. CASE Deliver
  <2>1. PICK i \in 1..Len(batch) : batch[i] \notin durable /\ life' = Moved({batch[i]}, "running")
    BY <1>11 DEF Deliver
  <2>2. batch[i] \in Act /\ batch[i] \in ToSet(batch)
    BY DEF ControlType, ToSet
  <2>3. life[batch[i]] = "committing"
    BY <1>11, <2>1, <2>2 DEF Deliver, PumpInv, PumpHolds, HandedOver
  <2>4. GoesTo({batch[i]}, "running")
    BY <2>1, <2>2, <2>3, Legality DEF GoesTo, Active
  <2> QED
    BY <2>4 DEF LivesMove
<1>12. CASE RunEnds
  BY <1>12 DEF RunEnds, LivesMove
<1>13. CASE SettleStep
  <2>1. CASE \E d \in BOOLEAN : PumpFails(d)
    BY <1>13, <2>1, FailLegal DEF SettleStep
  <2>2. CASE life' = Moved(ToSet(batch), "completed") /\ ToSet(batch) \subseteq durable
    <3>1. ToSet(batch) \subseteq Act /\ \A a \in ToSet(batch) : life[a] = "running"
      BY <1>13, <2>2 DEF ToSet, ControlType, SettleStep, PumpInv, PumpHolds, HandedOver
    <3>2. GoesTo(ToSet(batch), "completed")
      BY <2>2, <3>1, Legality DEF GoesTo, Active
    <3> QED
      BY <3>2 DEF LivesMove
  <2> QED
    BY <1>13, <2>1, <2>2 DEF SettleStep
<1>14. CASE DrainAfterBash
  BY <1>14 DEF DrainAfterBash, LivesMove
<1>15. CASE WaitForIdle
  BY <1>15 DEF WaitForIdle, LivesMove
<1>16. CASE RequestAbort
  <2>1. PICK S \in SUBSET InState(Clearable) : life' = Moved(S, "cancelled")
    BY <1>16 DEF RequestAbort
  <2>2. \A a \in S : a \in Act /\ life[a] \in Clearable
    BY DEF InState, StoreTypeOK
  <2>3. GoesTo(S, "cancelled")
    BY <2>1, <2>2, Legality DEF GoesTo, Active, Clearable
  <2> QED
    BY <2>3 DEF LivesMove
<1>17. CASE ResumeQueuedWork
  BY <1>17 DEF ResumeQueuedWork, LivesMove
<1>18. CASE AcquireInputPause
  BY <1>18 DEF AcquireInputPause, LivesMove
<1>19. CASE ReleaseInputPause
  BY <1>19 DEF ReleaseInputPause, LivesMove
<1>20. CASE AcquireWorkPause
  BY <1>20 DEF AcquireWorkPause, LivesMove
<1>21. CASE ReleaseWorkPause
  BY <1>21 DEF ReleaseWorkPause, LivesMove
<1>22. CASE ClearQueue
  <2>1. PICK S \in SUBSET InState(Clearable) : life' = Moved(S, "cancelled")
    BY <1>22 DEF ClearQueue
  <2>2. \A a \in S : a \in Act /\ life[a] \in Clearable
    BY DEF InState, StoreTypeOK
  <2>3. GoesTo(S, "cancelled")
    BY <2>1, <2>2, Legality DEF GoesTo, Active, Clearable
  <2> QED
    BY <2>3 DEF LivesMove
<1>23. ASSUME NEW k \in Busy, BeginBusy(k)
      PROVE  LivesMove
  BY <1>23 DEF BeginBusy, LivesMove
<1>24. ASSUME NEW k \in Busy, EndBusy(k)
      PROVE  LivesMove
  BY <1>24 DEF EndBusy, LivesMove
<1> QED
  BY <1>1, <1>2, <1>3, <1>4, <1>5, <1>6, <1>7, <1>8, <1>9, <1>10, <1>11, <1>12, <1>13, <1>14, <1>15, <1>16, <1>17, <1>18, <1>19, <1>20, <1>21, <1>22, <1>23, <1>24
  DEF Next, PumpStep, Intervene

----------------------------------------------------------------------------
(* Where the pump stands.                                                  *)

(* A step that leaves the pump alone, whatever it does to the epoch.       *)
LEMMA QuietStep ==
    ASSUME PumpInv, UNCHANGED <<life, pump, pre, batch, streaming, durable>>,
           stale => stale' \/ pump = "off"
    PROVE  PumpHolds' /\ LivesFit'
<1>1. ToSet(batch)' = ToSet(batch)
  BY DEF ToSet
<1>2. (Turns' <=> Turns) /\ (OneCommand' <=> OneCommand) /\ (HandedOver' <=> HandedOver)
  BY <1>1 DEF Turns, OneCommand, HandedOver
<1>3. PumpHolds'
  BY <1>1, <1>2 DEF PumpInv, PumpHolds
<1> QED
  BY <1>1, <1>3 DEF PumpInv, LivesFit

(* An abort or a clear cancels what is not handed over.                    *)
LEMMA CancelStep ==
    ASSUME PumpInv, UNCHANGED <<pump, pre, batch, streaming, durable>>,
           stale => stale' \/ pump = "off",
           NEW S, \A a \in S : a \in Act /\ life[a] \in Clearable, life' = Moved(S, "cancelled"),
           pre \in S /\ pump \in {"events", "select"} => stale' \/ pre \in Command
    PROVE  PumpHolds' /\ LivesFit'
<1>0. batch \in Seq(Act) /\ pre \in Act \cup {None}
  BY DEF PumpInv, TypeOK
<1>1. ToSet(batch)' = ToSet(batch) /\ ToSet(batch) \subseteq Act
  BY <1>0 DEF ToSet
<1>2. \A a \in Act : life'[a] = life[a] \/ (a \in S /\ life'[a] = "cancelled" /\ life[a] \in {"queued", "selected", "preparing"})
  BY DEF Moved, Clearable
<1>3. (Turns' <=> Turns) /\ (OneCommand' <=> OneCommand) /\ (HandedOver => HandedOver')
  BY <1>1, <1>2 DEF Turns, OneCommand, HandedOver
<1>4. OneCommand => batch[1] \in Act
  BY CommandHeld
<1>5. pump \in {"events", "select"} /\ pre # None =>
         life'[pre] = "selected" \/ (life'[pre] = "cancelled" /\ (stale' \/ pre \in Command))
  BY <1>0, <1>2 DEF PumpInv, PumpHolds
<1>6. pump = "run" => \/ streaming /\ Turns /\ HandedOver'
                      \/ ~streaming /\ OneCommand /\ life'[batch[1]] = "running"
  BY <1>2, <1>3, <1>4 DEF PumpInv, PumpHolds
<1>7. pump \in {"prepare", "commit"} => Turns /\ \A a \in ToSet(batch) : life'[a] \in {"preparing", "cancelled"}
  BY <1>1, <1>2 DEF PumpInv, PumpHolds
<1>8. pump = "command" => OneCommand /\ life'[batch[1]] \in {"selected", "cancelled"}
  BY <1>2, <1>4 DEF PumpInv, PumpHolds
<1>9. PumpHolds'
  BY <1>1, <1>3, <1>5, <1>6, <1>7, <1>8 DEF PumpInv, PumpHolds
<1>10. durable \subseteq Act /\ Visible \subseteq Act
  BY SchedulerAssumption DEF PumpInv, TypeOK, SchedulerAssumption
<1> QED
  BY <1>1, <1>2, <1>9, <1>10 DEF PumpInv, LivesFit, Terminal

(* The end of an iteration or of the pump: what it held is put back,       *)
(* finished or delivered.                                                  *)
LEMMA EndStep ==
    ASSUME PumpInv, pump' \in {"off", "loop"}, pre' = None, batch' = <<>>, ~streaming', durable' = durable,
           NEW S \in SUBSET Act, NEW t \in {"queued"} \cup Terminal, life' = Moved(S, t),
           t = "queued" => S \cap durable = {},
           \A a \in ToSet(batch) \ S : a \in durable \/ life[a] \notin {"preparing", "committing", "running"}
    PROVE  PumpHolds' /\ LivesFit'
<1>1. PumpHolds'
  BY DEF PumpHolds
<1>2. \A a \in Act : life'[a] = IF a \in S THEN t ELSE life[a]
  BY DEF Moved
<1>3. durable \subseteq Act /\ Visible \subseteq Act
  BY SchedulerAssumption DEF PumpInv, TypeOK, SchedulerAssumption
<1>4. \A a \in durable : life'[a] \in {"running"} \cup Terminal
  BY <1>2, <1>3 DEF PumpInv, LivesFit
<1>5. \A a \in Visible : life'[a] # "selected"
  BY <1>2, <1>3 DEF PumpInv, LivesFit, Terminal
<1>6. \A a \in Act : life'[a] \in {"preparing", "committing", "running"} => a \in durable
  BY <1>2 DEF PumpInv, LivesFit, Terminal
<1> QED
  BY <1>1, <1>4, <1>5, <1>6 DEF LivesFit

(* Nothing is moved by a move of nothing.                                  *)
LEMMA NoMove ==
    ASSUME PumpInv
    PROVE  life = Moved({}, "queued")
BY DEF PumpInv, TypeOK, StoreTypeOK, Moved

(* A pump may let go of its batch without moving a lifecycle when every    *)
(* action in it is delivered or not half way.                              *)
LEMMA EndUnmoved ==
    ASSUME PumpInv, pump' \in {"off", "loop"}, pre' = None, batch' = <<>>, ~streaming', durable' = durable, life' = life,
           \A a \in ToSet(batch) : a \in durable \/ life[a] \notin {"preparing", "committing", "running"}
    PROVE  PumpHolds' /\ LivesFit'
<1>1. life' = Moved({}, "queued")
  BY NoMove
<1> QED
  BY <1>1, EndStep

(* A failing pump.                                                         *)
LEMMA FailStep ==
    ASSUME PumpInv, NEW d, PumpFails(d), pump \in {"prepare", "commit", "settle"}
    PROVE  PumpHolds' /\ LivesFit'
<1>1. pump' \in {"off", "loop"} /\ pre' = None /\ batch' = <<>> /\ UNCHANGED <<holds, agent>>
  BY FailFacts, TypeParts DEF PumpInv
<1>2. ~streaming' /\ durable' = durable
  BY <1>1 DEF agent, PumpInv, PumpHolds
<1>3. PICK S \in SUBSET ToSet(batch) :
         /\ \A a \in ToSet(batch) \ S : a \in durable \/ life[a] \in Terminal
         /\ \E t \in {"queued", "failed"} : life' = Moved(S, t) /\ (t = "queued" => S \cap durable = {})
  BY FailMoves
<1>4. S \in SUBSET Act
  BY FailMoves
<1>5. PICK t \in {"queued", "failed"} : life' = Moved(S, t) /\ (t = "queued" => S \cap durable = {})
  BY <1>3
<1>6. t \in {"queued"} \cup Terminal
  BY DEF Terminal
<1>7. \A a \in ToSet(batch) \ S : a \in durable \/ life[a] \notin {"preparing", "committing", "running"}
  BY <1>3 DEF Terminal
<1> QED
  BY <1>1, <1>2, <1>4, <1>5, <1>6, <1>7, EndStep

(* The pump stays in step with the actions it holds.                         *)
LEMMA PumpStepHolds ==
    ASSUME PumpInv, [Next]_vars
    PROVE  PumpHolds' /\ LivesFit'
<1>0. StoreTypeOK /\ ControlType /\ HoldsType /\ AgentType
  BY TypeParts DEF PumpInv
<1> USE <1>0
<1>1. CASE UNCHANGED vars
  BY <1>1, QuietStep DEF vars, control, agent
<1>2. ASSUME NEW a \in Act, NEW imm \in BOOLEAN, Admit(a, imm)
      PROVE  PumpHolds' /\ LivesFit'
  <2>1. PICK t \in {"queued", "selected"} : life' = [life EXCEPT ![a] = t] /\ (a \in Visible => t = "queued")
    BY <1>2 DEF Admit
  <2>2. UNCHANGED <<pump, pre, batch, streaming, durable>> /\ life[a] = "new"
    BY <1>2 DEF Admit
  <2>3. stale => stale' \/ pump = "off"
    BY <1>2 DEF Admit
  <2>4. \A b \in Act : life'[b] = IF b = a THEN t ELSE life[b]
    BY <1>0, <2>1 DEF StoreTypeOK
  <2>5. batch \in Seq(Act) /\ pre \in Act \cup {None} /\ durable \subseteq Act /\ Visible \subseteq Act
    BY <1>0, SchedulerAssumption DEF ControlType, AgentType, SchedulerAssumption
  <2>6. ToSet(batch)' = ToSet(batch) /\ ToSet(batch) \subseteq Act
    BY <2>2, <2>5 DEF ToSet
  <2>7. (Turns' <=> Turns) /\ (OneCommand' <=> OneCommand) /\ (HandedOver => HandedOver')
    BY <2>2, <2>4, <2>6 DEF Turns, OneCommand, HandedOver
  <2>8. OneCommand => batch[1] \in Act
    BY CommandHeld
  <2>9. PumpHolds'
    <3>1. pump \in {"events", "select"} /\ pre # None =>
             life'[pre] = "selected" \/ (life'[pre] = "cancelled" /\ (stale' \/ pre \in Command))
      BY <2>2, <2>3, <2>4, <2>5 DEF PumpInv, PumpHolds
    <3>2. pump = "command" => OneCommand /\ life'[batch[1]] \in {"selected", "cancelled"}
      BY <2>2, <2>4, <2>8 DEF PumpInv, PumpHolds
    <3>3. pump \in {"prepare", "commit"} => Turns /\ \A b \in ToSet(batch) : life'[b] \in {"preparing", "cancelled"}
      BY <2>2, <2>4, <2>6 DEF PumpInv, PumpHolds
    <3>4. pump = "run" => \/ streaming /\ Turns /\ HandedOver'
                          \/ ~streaming /\ OneCommand /\ life'[batch[1]] = "running"
      BY <2>2, <2>4, <2>7, <2>8 DEF PumpInv, PumpHolds
    <3> QED
      BY <2>2, <2>6, <2>7, <3>1, <3>2, <3>3, <3>4 DEF PumpInv, PumpHolds
  <2>10. LivesFit'
    BY <2>1, <2>2, <2>4, <2>5, <2>6 DEF PumpInv, LivesFit, Terminal
  <2> QED
    BY <2>9, <2>10
<1>3. CASE StartPump
  <2>1. pump' = "loop" /\ pump = "off" /\ UNCHANGED <<life, pre, batch, streaming, durable>>
    BY <1>3 DEF StartPump, agent
  <2>2. pre = None /\ batch = <<>> /\ ~streaming
    BY <2>1 DEF PumpInv, PumpHolds
  <2>3. ToSet(batch) = {}
    BY <2>2 DEF ToSet
  <2> QED
    BY <2>1, <2>2, <2>3, EndUnmoved
<1>4. CASE LoopStep
  <2> DEFINE sel == Keep(lanes["steer"] \o lanes["follow"], InLife("selected"))
  <2>0. pump = "loop" /\ batch = <<>> /\ ~streaming /\ pre = None
    BY <1>4 DEF LoopStep, PumpInv, PumpHolds
  <2>1. ToSet(batch) = {}
    BY <2>0 DEF ToSet
  <2>2. CASE life' = life /\ ExitPump(FALSE)
    BY <2>0, <2>1, <2>2, ExitFacts, EndUnmoved DEF agent
  <2>3. CASE ExitPump(FALSE) /\ \E a \in Act : life[a] = "selected" /\ life' = Moved({a}, "queued")
    <3>1. PICK a \in Act : life[a] = "selected" /\ life' = Moved({a}, "queued")
      BY <2>3
    <3>2. a \notin durable
      BY <3>1 DEF PumpInv, LivesFit, Terminal
    <3>3. pump' = "off" /\ pre' = None /\ batch' = <<>> /\ ~streaming' /\ durable' = durable
      BY <2>0, <2>3, ExitFacts DEF agent
    <3>4. {a} \in SUBSET Act /\ {a} \cap durable = {}
      BY <3>2
    <3> QED
      BY <2>1, <3>1, <3>3, <3>4, EndStep
  <2>4. CASE /\ pre' = IF sel = <<>> THEN None ELSE Head(sel)
             /\ pump' = "events"
             /\ UNCHANGED <<life, stale, batch, agent>>
    <3>1. pre' # None => life[pre'] = "selected"
      BY <2>4, SelectedHead
    <3>2. PumpHolds'
      BY <2>0, <2>4, <3>1 DEF PumpHolds, agent
    <3>3. LivesFit'
      BY <2>0, <2>4 DEF PumpInv, LivesFit, agent
    <3> QED
      BY <3>2, <3>3
  <2>5. sel # <<>> => Head(sel) \in Act /\ life[Head(sel)] = "selected"
    BY SelectedHead
  <2> QED
    BY <1>4, <2>2, <2>3, <2>4, <2>5 DEF LoopStep
<1>5. CASE AwaitEvents
  <2>0. pump = "events" /\ life' = life /\ batch = <<>> /\ ~streaming
    BY <1>5 DEF AwaitEvents, PumpInv, PumpHolds
  <2>1. ToSet(batch) = {}
    BY <2>0 DEF ToSet
  <2>2. CASE ExitPump(FALSE)
    BY <2>0, <2>1, <2>2, ExitFacts, EndUnmoved DEF agent
  <2>3. CASE pump' = "select" /\ UNCHANGED <<stale, pre, batch, agent>>
    <3>1. PumpHolds'
      BY <2>0, <2>3 DEF PumpInv, PumpHolds, agent
    <3>2. LivesFit'
      BY <2>0, <2>3 DEF PumpInv, LivesFit, agent
    <3> QED
      BY <3>1, <3>2
  <2> QED
    BY <1>5, <2>2, <2>3 DEF AwaitEvents
<1>6. CASE SelectStep
  <2>0. pump = "select" /\ batch = <<>> /\ ~streaming /\ durable \subseteq Act /\ Visible \subseteq Act \ Command
    BY <1>6, SchedulerAssumption DEF SelectStep, PumpInv, PumpHolds, AgentType, SchedulerAssumption
  <2>1. ToSet(batch) = {}
    BY <2>0 DEF ToSet
  <2>2. CASE life' = life /\ \E b \in BOOLEAN : ExitPump(b)
    BY <2>0, <2>1, <2>2, ExitFacts, EndUnmoved DEF agent
  <2>3. CASE /\ pump' = "command" /\ UNCHANGED <<stale, pre, streaming, durable, broken, arrivals>>
             /\ \E c \in Command \cap Act :
                   /\ batch' = <<c>>
                   /\ \/ life' = life /\ life[c] \in {"selected", "cancelled"}
                      \/ life' = Moved({c}, "selected") /\ life[c] = "queued"
    <3>1. PICK c \in Command \cap Act :
             /\ batch' = <<c>>
             /\ \/ life' = life /\ life[c] \in {"selected", "cancelled"}
                \/ life' = Moved({c}, "selected") /\ life[c] = "queued"
      BY <2>3
    <3>2. OneCommand' /\ batch'[1] = c
      BY <3>1 DEF OneCommand
    <3>3. \A a \in Act : life'[a] = life[a] \/ (a = c /\ life[a] = "queued" /\ life'[a] = "selected")
      BY <3>1 DEF Moved
    <3>4. life'[c] \in {"selected", "cancelled"}
      BY <3>1 DEF Moved
    <3>5. PumpHolds'
      BY <2>0, <2>3, <3>2, <3>4 DEF PumpHolds, agent
    <3>6. LivesFit'
      BY <2>0, <2>1, <2>3, <3>3 DEF PumpInv, LivesFit, agent, Terminal
    <3> QED
      BY <3>5, <3>6
  <2>4. CASE /\ pump' = "prepare" /\ UNCHANGED <<stale, pre, streaming, durable, broken, arrivals>>
             /\ batch' \in Seq(Act) /\ batch' # <<>> /\ ToSet(batch') \cap Command = {}
             /\ \A a \in ToSet(batch') : life[a] \in {"queued", "selected"}
             /\ life' = Moved(ToSet(batch'), "preparing")
    <3>1. ToSet(batch)' = ToSet(batch') /\ ToSet(batch') \subseteq Act
      BY <2>4 DEF ToSet
    <3>2. \A a \in Act : life'[a] = IF a \in ToSet(batch') THEN "preparing" ELSE life[a]
      BY <2>4 DEF Moved
    <3>3. Turns'
      BY <2>4, <3>1 DEF Turns
    <3>4. PumpHolds'
      BY <2>0, <2>4, <3>1, <3>2, <3>3 DEF PumpHolds, agent
    <3>5. LivesFit'
      BY <2>0, <2>1, <2>4, <3>1, <3>2 DEF PumpInv, LivesFit, agent, Terminal
    <3> QED
      BY <3>4, <3>5
  <2> QED
    BY <1>6, <2>2, <2>3, <2>4, SelectFacts
<1>7. CASE CommandStep
  <2>0. pump = "command" /\ OneCommand /\ life[batch[1]] \in {"selected", "cancelled"} /\ ~streaming
    BY <1>7 DEF CommandStep, PumpInv, PumpHolds
  <2>1. batch[1] \in Act /\ ToSet(batch) = {batch[1]}
    BY <2>0, CommandHeld
  <2>2. durable \subseteq Act /\ Visible \subseteq Act \ Command
    BY SchedulerAssumption DEF AgentType, SchedulerAssumption
  <2>3. CASE life' = life /\ ExitPump(FALSE)
    BY <2>0, <2>1, <2>3, ExitFacts, EndUnmoved DEF agent
  <2>4. CASE ExitPump(FALSE) /\ life[batch[1]] = "selected" /\ life' = Moved({batch[1]}, "queued")
    <3>1. batch[1] \notin durable
      BY <2>4 DEF PumpInv, LivesFit, Terminal
    <3>2. pump' = "off" /\ pre' = None /\ batch' = <<>> /\ ~streaming' /\ durable' = durable
      BY <2>0, <2>4, ExitFacts DEF agent
    <3> QED
      BY <2>1, <2>4, <3>1, <3>2, EndStep
  <2>5. CASE /\ life[batch[1]] = "selected" /\ life' = Moved({batch[1]}, "running")
             /\ pump' = "run" /\ UNCHANGED <<stale, pre, batch, agent>>
    <3>1. \A a \in Act : life'[a] = IF a = batch[1] THEN "running" ELSE life[a]
      BY <2>1, <2>5 DEF Moved
    <3>2. OneCommand' /\ batch' = batch /\ batch # <<>> /\ ToSet(batch)' = ToSet(batch)
      BY <2>0, <2>5 DEF OneCommand, ToSet
    <3>3. PumpHolds'
      BY <2>0, <2>1, <2>5, <3>1, <3>2 DEF PumpHolds, agent
    <3>4. LivesFit'
      BY <2>0, <2>1, <2>2, <2>5, <3>1, <3>2 DEF PumpInv, LivesFit, agent
    <3> QED
      BY <3>3, <3>4
  <2> QED
    BY <1>7, <2>3, <2>4, <2>5 DEF CommandStep
<1>8. CASE CommandEnds
  <2>1. pump = "run" /\ batch[1] \in Command /\ ~streaming /\ OneCommand
    <3>1. batch # <<>> /\ Turns => batch[1] \notin Command
      BY DEF ControlType, Turns, ToSet
    <3> QED
      BY <1>8, <3>1 DEF CommandEnds, PumpInv, PumpHolds
  <2>2. batch[1] \in Act /\ ToSet(batch) = {batch[1]}
    BY <2>1, CommandHeld
  <2>3. pump' = "off" /\ pre' = None /\ batch' = <<>> /\ ~streaming' /\ durable' = durable
    BY <1>8, <2>1, ExitFacts DEF CommandEnds, agent
  <2>4. PICK t \in {"completed", "failed"} : life' = Moved({batch[1]}, t)
    BY <1>8 DEF CommandEnds
  <2>5. t \in Terminal /\ t # "queued"
    BY DEF Terminal
  <2> QED
    BY <2>2, <2>3, <2>4, <2>5, EndStep
<1>9. CASE PrepareStep
  <2>0. pump = "prepare" /\ Turns /\ ~streaming /\ \A a \in ToSet(batch) : life[a] \in {"preparing", "cancelled"}
    BY <1>9 DEF PrepareStep, PumpInv, PumpHolds
  <2>1. CASE \E d \in BOOLEAN : PumpFails(d)
    BY <2>0, <2>1, FailStep
  <2>2. CASE life' = life /\ Preparing = <<>> /\ ContinuePump
    <3>1. \A a \in ToSet(batch) : life[a] # "preparing"
      BY <2>2, PreparingMembers
    <3> QED
      BY <2>0, <2>2, <3>1, ContinueFacts, EndUnmoved DEF agent
  <2>3. CASE life' = life /\ Preparing # <<>> /\ pump' = "commit" /\ batch' = Preparing /\ UNCHANGED <<stale, pre, agent>>
    <3>1. ToSet(batch)' = ToSet(Preparing)
      BY <2>3 DEF ToSet
    <3>2. ToSet(batch)' = {a \in ToSet(batch) : life[a] = "preparing"}
      BY <3>1, PreparingMembers
    <3>3. Turns'
      BY <2>0, <3>2 DEF Turns
    <3>4. PumpHolds'
      BY <2>0, <2>3, <3>2, <3>3 DEF PumpHolds, agent
    <3>5. LivesFit'
      BY <2>0, <2>3, <3>2 DEF PumpInv, LivesFit, agent
    <3> QED
      BY <3>4, <3>5
  <2> QED
    BY <1>9, <2>1, <2>2, <2>3 DEF PrepareStep
<1>10. CASE CommitStep
  <2>0. pump = "commit" /\ Turns /\ batch # <<>> /\ durable \subseteq Act /\ Visible \subseteq Act
    BY <1>10, SchedulerAssumption DEF CommitStep, PumpInv, PumpHolds, AgentType, SchedulerAssumption
  <2>1. CASE \E d \in BOOLEAN : PumpFails(d)
    BY <2>0, <2>1, FailStep
  <2>2. CASE /\ life' = Moved(ToSet(batch), "committing") /\ Preparing = batch
             /\ streaming' = TRUE /\ pump' = "run" /\ UNCHANGED <<stale, pre, batch, durable>>
    <3>1. ToSet(batch)' = ToSet(batch) /\ ToSet(batch) \subseteq Act /\ \A a \in ToSet(batch) : life[a] = "preparing"
      BY <2>2, PreparingMembers DEF ToSet, ControlType
    <3>2. \A a \in Act : life'[a] = IF a \in ToSet(batch) THEN "committing" ELSE life[a]
      BY <2>2 DEF Moved
    <3>3. \A a \in ToSet(batch) : a \notin durable
      BY <3>1 DEF PumpInv, LivesFit, Terminal
    <3>4. Turns' /\ HandedOver'
      BY <2>0, <2>2, <3>1, <3>2, <3>3 DEF Turns, HandedOver
    <3>5. PumpHolds'
      BY <2>0, <2>2, <3>4 DEF PumpHolds
    <3>6. LivesFit'
      BY <2>0, <2>2, <3>1, <3>2, <3>3 DEF PumpInv, LivesFit
    <3> QED
      BY <3>5, <3>6
  <2> QED
    BY <1>10, <2>1, <2>2 DEF CommitStep
<1>11. CASE Deliver
  <2>0. /\ pump = "run" /\ streaming /\ Turns /\ HandedOver /\ batch # <<>>
        /\ durable \subseteq Act /\ Visible \subseteq Act
    <3>1. pump = "run" /\ streaming
      BY <1>11 DEF Deliver
    <3> QED
      BY <3>1, SchedulerAssumption DEF PumpInv, PumpHolds, AgentType, SchedulerAssumption
  <2>1. PICK i \in 1..Len(batch) : /\ batch[i] \notin durable /\ durable' = durable \cup {batch[i]}
                                   /\ life' = Moved({batch[i]}, "running")
    BY <1>11 DEF Deliver
  <2> DEFINE b == batch[i]
  <2>2. b \in Act /\ b \in ToSet(batch) /\ ToSet(batch) \subseteq Act
    BY DEF ControlType, ToSet
  <2>3. UNCHANGED <<pump, stale, pre, batch, streaming>>
    BY <1>11 DEF Deliver, control
  <2>4. b \notin durable /\ durable' = durable \cup {b} /\ \A a \in Act : life'[a] = IF a = b THEN "running" ELSE life[a]
    BY <2>1 DEF Moved
  <2> HIDE DEF b
  <2>5. ToSet(batch)' = ToSet(batch)
    BY <2>3 DEF ToSet
  <2>6. Turns' /\ HandedOver'
    BY <2>0, <2>2, <2>4, <2>5 DEF Turns, HandedOver
  <2>7. PumpHolds'
    BY <2>0, <2>3, <2>6 DEF PumpHolds
  <2>8. LivesFit'
    BY <2>0, <2>2, <2>3, <2>4, <2>5 DEF PumpInv, LivesFit
  <2> QED
    BY <2>7, <2>8
<1>12. CASE RunEnds
  <2>0. pump = "run" /\ streaming /\ Turns /\ HandedOver /\ batch # <<>>
    <3>1. pump = "run" /\ streaming
      BY <1>12 DEF RunEnds
    <3> QED
      BY <3>1 DEF PumpInv, PumpHolds
  <2>1. ~streaming' /\ pump' = "settle" /\ UNCHANGED <<life, stale, pre, batch, durable>>
    BY <1>12 DEF RunEnds
  <2>2. ToSet(batch)' = ToSet(batch)
    BY <2>1 DEF ToSet
  <2>3. Turns' /\ HandedOver'
    BY <2>0, <2>1, <2>2 DEF Turns, HandedOver
  <2>4. PumpHolds'
    BY <2>0, <2>1, <2>3 DEF PumpHolds
  <2>5. LivesFit'
    BY <2>0, <2>1, <2>2 DEF PumpInv, LivesFit
  <2> QED
    BY <2>4, <2>5
<1>13. CASE SettleStep
  <2>0. pump = "settle" /\ ~streaming /\ ToSet(batch) \in SUBSET Act
    BY <1>13 DEF SettleStep, PumpInv, PumpHolds, ControlType, ToSet
  <2>1. CASE \E d \in BOOLEAN : PumpFails(d)
    BY <2>0, <2>1, FailStep
  <2>2. CASE life' = Moved(ToSet(batch), "completed") /\ (ExitPump(FALSE) \/ ContinuePump)
    <3>1. pump' \in {"off", "loop"} /\ pre' = None /\ batch' = <<>> /\ ~streaming' /\ durable' = durable
      <4>1. CASE ExitPump(FALSE)
        BY <2>0, <4>1, ExitFacts DEF agent
      <4>2. CASE ContinuePump
        BY <2>0, <4>2, ContinueFacts DEF agent
      <4> QED
        BY <2>2, <4>1, <4>2
    <3>2. "completed" \in {"queued"} \cup Terminal /\ "completed" # "queued"
      BY DEF Terminal
    <3> QED
      BY <2>0, <2>2, <3>1, <3>2, EndStep
  <2> QED
    BY <1>13, <2>1, <2>2 DEF SettleStep
<1>14. CASE DrainAfterBash
  <2>1. UNCHANGED <<life, pump, pre, batch, streaming, durable>>
    BY <1>14 DEF DrainAfterBash, agent, control, holds
  <2>2. stale => stale' \/ pump = "off"
    BY <1>14 DEF DrainAfterBash, BumpEpoch, control, holds
  <2> QED
    BY <2>1, <2>2, QuietStep
<1>15. CASE WaitForIdle
  <2>1. UNCHANGED <<life, pump, pre, batch, streaming, durable>>
    BY <1>15 DEF WaitForIdle, agent, control, holds
  <2>2. stale => stale' \/ pump = "off"
    BY <1>15 DEF WaitForIdle, BumpEpoch, control, holds
  <2> QED
    BY <2>1, <2>2, QuietStep
<1>16. CASE RequestAbort
  <2>1. PICK S \in SUBSET InState(Clearable) : life' = Moved(S, "cancelled")
    BY <1>16 DEF RequestAbort
  <2>2. \A a \in S : a \in Act /\ life[a] \in Clearable
    BY DEF InState, StoreTypeOK
  <2>3. UNCHANGED <<pump, pre, batch, streaming, durable>>
    BY <1>16 DEF RequestAbort, Interrupt
  <2>4. stale' = (pump # "off")
    BY <1>16 DEF RequestAbort, BumpEpoch
  <2> QED
    BY <2>1, <2>2, <2>3, <2>4, CancelStep
<1>17. CASE ResumeQueuedWork
  <2>1. UNCHANGED <<life, pump, pre, batch, streaming, durable>>
    BY <1>17 DEF ResumeQueuedWork, agent, control, holds
  <2>2. stale => stale' \/ pump = "off"
    BY <1>17 DEF ResumeQueuedWork, BumpEpoch, control, holds
  <2> QED
    BY <2>1, <2>2, QuietStep
<1>18. CASE AcquireInputPause
  <2>1. UNCHANGED <<life, pump, pre, batch, streaming, durable>>
    BY <1>18 DEF AcquireInputPause, Interrupt, control, holds
  <2>2. stale => stale' \/ pump = "off"
    BY <1>18 DEF AcquireInputPause, BumpEpoch, control, holds
  <2> QED
    BY <2>1, <2>2, QuietStep
<1>19. CASE ReleaseInputPause
  <2>1. UNCHANGED <<life, pump, pre, batch, streaming, durable>>
    BY <1>19 DEF ReleaseInputPause, agent, control, holds
  <2>2. stale => stale' \/ pump = "off"
    BY <1>19 DEF ReleaseInputPause, BumpEpoch, control, holds
  <2> QED
    BY <2>1, <2>2, QuietStep
<1>20. CASE AcquireWorkPause
  <2>1. UNCHANGED <<life, pump, pre, batch, streaming, durable>>
    BY <1>20 DEF AcquireWorkPause, Interrupt, control, holds
  <2>2. stale => stale' \/ pump = "off"
    BY <1>20 DEF AcquireWorkPause, BumpEpoch, control, holds
  <2> QED
    BY <2>1, <2>2, QuietStep
<1>21. CASE ReleaseWorkPause
  <2>1. UNCHANGED <<life, pump, pre, batch, streaming, durable>>
    BY <1>21 DEF ReleaseWorkPause, agent, control, holds
  <2>2. stale => stale' \/ pump = "off"
    BY <1>21 DEF ReleaseWorkPause, BumpEpoch, control, holds
  <2> QED
    BY <2>1, <2>2, QuietStep
<1>22. CASE ClearQueue
  <2> DEFINE S == InState(Clearable) \cap (Command \cup Visible)
  <2>1. life' = Moved(S, "cancelled")
    BY <1>22 DEF ClearQueue
  <2>2. \A a \in S : a \in Act /\ life[a] \in Clearable
    BY DEF InState, StoreTypeOK
  <2>3. UNCHANGED <<pump, pre, batch, streaming, durable>>
    BY <1>22 DEF ClearQueue, agent
  <2>4. stale => stale'
    BY <1>22 DEF ClearQueue
  <2>5. pre \in S /\ pump \in {"events", "select"} => pre \in Command
    <3>1. pre \in S => pre \in Act /\ life[pre] \in {"queued", "selected", "preparing"}
      BY <2>2 DEF Clearable
    <3>2. pre \in S /\ pump \in {"events", "select"} => life[pre] = "selected"
      BY <3>1, SchedulerAssumption DEF PumpInv, PumpHolds, SchedulerAssumption
    <3> QED
      BY <3>2 DEF PumpInv, LivesFit
  <2> HIDE DEF S
  <2> QED
    BY <2>1, <2>2, <2>3, <2>4, <2>5, CancelStep
<1>23. ASSUME NEW k \in Busy, BeginBusy(k)
      PROVE  PumpHolds' /\ LivesFit'
  <2>1. UNCHANGED <<life, pump, pre, batch, streaming, durable>>
    BY <1>23 DEF BeginBusy, agent, control, holds
  <2>2. stale => stale' \/ pump = "off"
    BY <1>23 DEF BeginBusy, BumpEpoch, control, holds
  <2> QED
    BY <2>1, <2>2, QuietStep
<1>24. ASSUME NEW k \in Busy, EndBusy(k)
      PROVE  PumpHolds' /\ LivesFit'
  <2>1. UNCHANGED <<life, pump, pre, batch, streaming, durable>>
    BY <1>24 DEF EndBusy, agent, control, holds
  <2>2. stale => stale' \/ pump = "off"
    BY <1>24 DEF EndBusy, BumpEpoch, control, holds
  <2> QED
    BY <2>1, <2>2, QuietStep
<1> QED
  BY <1>1, <1>2, <1>3, <1>4, <1>5, <1>6, <1>7, <1>8, <1>9, <1>10, <1>11, <1>12, <1>13, <1>14, <1>15, <1>16, <1>17, <1>18, <1>19, <1>20, <1>21, <1>22, <1>23, <1>24
  DEF Next, PumpStep, Intervene


----------------------------------------------------------------------------
(* The theorems.                                                           *)

(* The scheduler starts with empty lanes and no pump, so nothing is half   *)
(* way.                                                                    *)
LEMMA InitHolds == Init => PumpInv
<1> SUFFICES ASSUME Init PROVE PumpInv
  OBVIOUS
<1>1. StoreTypeOK
  <2>1. \A l \in Lane : lanes[l] = <<>>
    BY DEF Init, StoreInit
  <2>2. Owned = {}
    BY <2>1 DEF Owned, Lane, ToSet
  <2>3. \A l \in Lane : IsInjective(lanes[l]) /\ ToSet(lanes[l]) = {}
    BY <2>1 DEF IsInjective, ToSet
  <2>4. lanes \in [Lane -> Seq(Act)] /\ life \in [Act -> {"new", "queued"} \cup Active \cup Terminal]
    BY DEF Init, StoreInit
  <2>5. \A a \in Act : life[a] = "new"
    BY DEF Init, StoreInit
  <2> QED
    BY <2>2, <2>3, <2>4, <2>5 DEF StoreTypeOK
<1>2. ControlType
  <2>1. chain \in Seq(BOOLEAN) /\ batch \in Seq(Act) /\ pre \in Act \cup {None} /\ pump \in PumpPoint
    BY DEF Init, PumpPoint
  <2>2. requested \in BOOLEAN /\ stale \in BOOLEAN
    BY DEF Init
  <2> QED
    BY <2>1, <2>2 DEF ControlType
<1>3. HoldsType
  <2>1. left \in 0..MaxEvents /\ busy \subseteq Busy
    BY SchedulerAssumption DEF Init, SchedulerAssumption
  <2>2. suspended \in BOOLEAN /\ inputPause \in BOOLEAN /\ workPause \in BOOLEAN /\ drain \in BOOLEAN
    BY DEF Init
  <2> QED
    BY <2>1, <2>2 DEF HoldsType
<1>4. AgentType
  <2>1. durable \subseteq Act /\ arrivals \in Seq(Act) /\ interrupted \subseteq Act /\ unseen \subseteq Act
    BY DEF Init
  <2>2. streaming \in BOOLEAN /\ broken \in BOOLEAN
    BY DEF Init
  <2> QED
    BY <2>1, <2>2 DEF AgentType
<1>5. PumpHolds
  BY DEF Init, PumpHolds
<1>6. LivesFit
  BY SchedulerAssumption DEF Init, StoreInit, LivesFit, SchedulerAssumption
<1> QED
  BY <1>1, <1>2, <1>3, <1>4, <1>5, <1>6, TypeParts DEF PumpInv

(* The inductive invariant: the types, and that the pump and the           *)
(* lifecycles of the actions it holds agree, after any abort, pause, clear *)
(* or failure between two of its steps.                                    *)
THEOREM PumpInvariant == Spec => []PumpInv
<1>1. PumpInv /\ [Next]_vars => PumpInv'
  <2> SUFFICES ASSUME PumpInv, [Next]_vars PROVE PumpInv'
    OBVIOUS
  <2>1. TypeOK'
    BY ControlStep, HoldsStep, StoreStep, TypePartsPrimed
  <2>2. PumpHolds' /\ LivesFit'
    BY PumpStepHolds
  <2> QED
    BY <2>1, <2>2 DEF PumpInv
<1> QED
  BY <1>1, InitHolds, PTL DEF Spec

(* Every variable keeps its type, and SessionActionStore owns each action  *)
(* once, in its own lane, exactly from enqueue to its terminal state.      *)
THEOREM SchedulerTypeCorrect == Spec => []TypeOK
<1>1. PumpInv => TypeOK
  BY DEF PumpInv
<1> QED
  BY <1>1, PumpInvariant, PTL

(* When _pumpSessionInputs has returned, no undelivered action is left     *)
(* half way.                                                               *)
THEOREM NothingLeftHalfWay == Spec => []NothingHalfWay
<1>1. PumpInv => NothingHalfWay
  <2> SUFFICES ASSUME PumpInv, pump = "off", NEW a \in InState({"preparing", "committing", "running"})
               PROVE  a \in durable
    BY DEF NothingHalfWay
  <2>1. a \in Act /\ life[a] \in {"preparing", "committing", "running"}
    BY DEF InState, PumpInv, TypeOK, StoreTypeOK
  <2> QED
    BY <2>1 DEF PumpInv, LivesFit
<1> QED
  BY <1>1, PumpInvariant, PTL

(* transitionSessionAction never throws: no step asks for an illegal move, *)
(* and no step queues an action again whose message is in the transcript.  *)
THEOREM TransitionsLegal == Spec => NoIllegalTransition
<1> DEFINE Legal == \A a \in Act : life[a] \notin {"new", life'[a]} =>
                       /\ life[a] \notin Terminal
                       /\ \/ life'[a] \in LegalTransitions[life[a]]
                          \/ life[a] = "queued" /\ life'[a] = "preparing"
                       /\ life'[a] = "queued" => a \notin durable
<1>1. PumpInv /\ [Next]_vars => [Legal]_vars
  <2> SUFFICES ASSUME PumpInv, [Next]_vars PROVE Legal
    OBVIOUS
  <2>1. LivesMove
    BY LivesStep
  <2>2. CASE life' = life
    BY <2>2
  <2>3. CASE \E a \in Act, imm \in BOOLEAN : Admit(a, imm)
    BY <2>3 DEF Admit, PumpInv, TypeOK, StoreTypeOK
  <2>4. ASSUME NEW S, NEW t, GoesTo(S, t)
        PROVE  Legal
    <3> SUFFICES ASSUME NEW a \in Act, life[a] # life'[a]
                 PROVE  /\ life[a] \notin Terminal
                        /\ \/ life'[a] \in LegalTransitions[life[a]]
                           \/ life[a] = "queued" /\ life'[a] = "preparing"
                        /\ life'[a] = "queued" => a \notin durable
      OBVIOUS
    <3>1. a \in S /\ life'[a] = t
      BY <2>4 DEF GoesTo, Moved
    <3> QED
      BY <2>4, <3>1 DEF GoesTo, Active, Terminal
  <2> QED
    BY <2>1, <2>2, <2>3, <2>4 DEF LivesMove
<1>2. Spec => [][Legal]_vars
  BY <1>1, PumpInvariant, PTL DEF Spec
<1> QED
  BY <1>2 DEF NoIllegalTransition

(* A pump whose preparation an abort or a pause came upon knows that its   *)
(* epoch is over.                                                          *)
InterruptedIsStale == pump \in {"prepare", "commit"} /\ ToSet(batch) \cap interrupted # {} => stale

(* An interruption moves the epoch of the running pump, no step moves it   *)
(* back, and a batch is taken up with a clean record.                      *)
LEMMA InterruptedStep ==
    ASSUME PumpInv, InterruptedIsStale, [Next]_vars
    PROVE  InterruptedIsStale'
<1>0. ControlType
  BY TypeParts DEF PumpInv
<1> DEFINE Forward == /\ pump' = pump /\ ToSet(batch') \subseteq ToSet(batch)
                      /\ interrupted' = interrupted /\ (stale => stale')
<1>a. ASSUME Forward
      PROVE  InterruptedIsStale'
  BY <1>a DEF InterruptedIsStale
<1>b. ASSUME pump' \notin {"prepare", "commit"} \/ stale'
      PROVE  InterruptedIsStale'
  BY <1>b DEF InterruptedIsStale
<1>c. ASSUME pump' = pump, stale' = (pump # "off")
      PROVE  InterruptedIsStale'
  BY <1>c DEF InterruptedIsStale
<1>1. CASE UNCHANGED vars
  BY <1>1, <1>a DEF vars, control, agent
<1>2. ASSUME NEW a \in Act, NEW imm \in BOOLEAN, Admit(a, imm)
      PROVE  InterruptedIsStale'
  <2>1. UNCHANGED <<pump, batch, interrupted>> /\ (stale' = (pump # "off") \/ stale' = stale)
    BY <1>2 DEF Admit
  <2> QED
    BY <2>1 DEF InterruptedIsStale
<1>3. CASE StartPump \/ LoopStep \/ AwaitEvents \/ CommandStep \/ CommandEnds \/ SettleStep
  <2>1. pump' \notin {"prepare", "commit"}
    BY <1>0, <1>3, ExitFacts, ContinueFacts, FailFacts
    DEF StartPump, LoopStep, AwaitEvents, CommandStep, CommandEnds, SettleStep
  <2> QED
    BY <1>b, <2>1
<1>4. CASE SelectStep
  <2>1. pump' \in {"off", "command"} \/ interrupted' = interrupted \ ToSet(batch')
    BY <1>0, <1>4, SelectFacts, ExitFacts
  <2> QED
    BY <2>1 DEF InterruptedIsStale
<1>5. CASE PrepareStep
  <2>1. CASE pump' \in {"off", "loop"}
    BY <1>b, <2>1
  <2>2. CASE pump' = "commit" /\ batch' = Preparing /\ UNCHANGED <<stale, agent>>
    <3>1. pump = "prepare" /\ ToSet(batch') \subseteq ToSet(batch)
      BY <1>5, <2>2, PreparingMembers DEF PrepareStep
    <3> QED
      BY <2>2, <3>1 DEF InterruptedIsStale, agent
  <2> QED
    BY <1>0, <1>5, <2>1, <2>2, FailFacts, ContinueFacts DEF PrepareStep
<1>6. CASE CommitStep \/ Deliver \/ RunEnds
  <2>1. pump' \notin {"prepare", "commit"}
    BY <1>0, <1>6, FailFacts DEF CommitStep, Deliver, RunEnds, control
  <2> QED
    BY <1>b, <2>1
<1>7. CASE DrainAfterBash \/ WaitForIdle \/ ReleaseWorkPause \/ ClearQueue \/ (\E k \in Busy : BeginBusy(k) \/ EndBusy(k))
  <2>1. UNCHANGED <<pump, batch, interrupted>>
    BY <1>7 DEF DrainAfterBash, WaitForIdle, ReleaseWorkPause, ClearQueue, BeginBusy, EndBusy, control, agent
  <2>2. CASE ClearQueue
    <3>1. stale => stale'
      BY <2>2, Zenon DEF ClearQueue
    <3> QED
      BY <1>a, <2>1, <3>1
  <2>3. CASE ~ClearQueue
    <3>1. UNCHANGED stale
      BY <1>7, <2>3 DEF DrainAfterBash, WaitForIdle, ReleaseWorkPause, BeginBusy, EndBusy, control
    <3> QED
      BY <1>a, <2>1, <3>1
  <2> QED
    BY <2>2, <2>3
<1>8. CASE RequestAbort \/ ResumeQueuedWork \/ AcquireInputPause \/ ReleaseInputPause \/ AcquireWorkPause
  BY <1>8, <1>c DEF RequestAbort, ResumeQueuedWork, AcquireInputPause, ReleaseInputPause, AcquireWorkPause, BumpEpoch
<1> QED
  BY <1>1, <1>2, <1>3, <1>4, <1>5, <1>6, <1>7, <1>8 DEF Next, PumpStep, Intervene

(* A turn that is handed over is one of the pump's batch, and the pump's   *)
(* epoch is current.                                                       *)
LEMMA HandoverFacts ==
    ASSUME PumpInv, [Next]_vars, NEW a \in Act, life[a] # "committing", life'[a] = "committing"
    PROVE  pump \in {"prepare", "commit"} /\ a \in ToSet(batch) /\ ~stale
<1>1. LivesMove
  BY LivesStep
<1>2. ASSUME NEW c \in Act, NEW imm \in BOOLEAN, Admit(c, imm)
      PROVE  FALSE
  BY <1>2 DEF Admit, PumpInv, TypeOK, StoreTypeOK
<1>3. ASSUME NEW S, NEW t, GoesTo(S, t)
      PROVE  /\ life[a] \in {"queued"} \cup Active
             /\ "committing" \in LegalTransitions[life[a]]
             /\ ~stale
  <2>1. t = "committing" /\ a \in S
    BY <1>3 DEF GoesTo, Moved
  <2> QED
    BY <1>3, <2>1 DEF GoesTo
<1>4. life[a] = "preparing" /\ ~stale
  <2>1. CASE life' = life
    BY <2>1
  <2>2. CASE \E S, t : GoesTo(S, t)
    <3>1. life[a] \in {"queued"} \cup Active /\ "committing" \in LegalTransitions[life[a]] /\ ~stale
      BY <1>3, <2>2
    <3> QED
      BY <3>1 DEF LegalTransitions, Active
  <2> QED
    BY <1>1, <1>2, <2>1, <2>2 DEF LivesMove
<1>5. pump \in {"prepare", "commit"} /\ a \in ToSet(batch)
  <2>1. a \notin durable
    BY <1>4 DEF PumpInv, LivesFit, Terminal
  <2>2. pump \in {"prepare", "commit", "run", "settle"} /\ a \in ToSet(batch)
    BY <1>4, <2>1 DEF PumpInv, LivesFit
  <2>3. pump \notin {"run", "settle"}
    BY <1>4, <2>1, <2>2 DEF PumpInv, PumpHolds, HandedOver, OneCommand, ToSet
  <2> QED
    BY <2>2, <2>3
<1> QED
  BY <1>4, <1>5

(* A preparation that an abort or a pause came upon never hands its turns  *)
(* to agent.prompt, whatever has become of the pause by then: a step that  *)
(* commits finds the pump's epoch current, and InterruptedIsStale says     *)
(* that it would not be.                                                   *)
THEOREM HandoffClear == Spec => HandoffIsClear
<1> DEFINE Clear == \A a \in Act : life[a] # "committing" /\ life'[a] = "committing" => a \notin interrupted
<1>1. Init => InterruptedIsStale
  BY DEF Init, InterruptedIsStale
<1>2. PumpInv /\ InterruptedIsStale /\ [Next]_vars => InterruptedIsStale'
  BY InterruptedStep
<1>3. PumpInv /\ InterruptedIsStale /\ [Next]_vars => [Clear]_vars
  BY HandoverFacts DEF InterruptedIsStale
<1>4. Spec => [][Clear]_vars
  BY <1>1, <1>2, <1>3, PumpInvariant, PTL DEF Spec
<1> QED
  BY <1>4 DEF HandoffIsClear

----------------------------------------------------------------------------
(* The order of delivery.                                                  *)

(* Two actions of one lane and one rank, in the order of their admission.  *)
Before(a, b) ==
    /\ LaneOf(a) = LaneOf(b) /\ Rank[a] = Rank[b]
    /\ \E i, j \in DOMAIN arrivals : i < j /\ arrivals[i] = a /\ arrivals[j] = b

(* A turn that may still be delivered and was started in a pump's sight.   *)
Racing(a) == a \notin Command \cup unseen /\ a \notin durable /\ life[a] \notin Terminal

(* An action is admitted once.                                             *)
Arrived == IsInjective(arrivals) /\ ToSet(arrivals) = {a \in Act : life[a] # "new"}

(* Within a rank a lane is in the order of admission.                      *)
LanesOrdered ==
    \A l \in Lane : \A x, y \in DOMAIN lanes[l] : Before(lanes[l][x], lanes[l][y]) => x < y

(* A prompt that was started directly has nothing unfinished before it.    *)
SelectedAlone ==
    \A a, b \in Act : life[b] = "selected" /\ b \notin Command /\ Before(a, b) => life[a] \in Terminal

(* While a pump that found nothing selected awaits, only a prompt started  *)
(* since then is selected.                                                 *)
SelectedUnseen == PumpAwaits /\ ~stale => InLife("selected") \subseteq unseen

(* Whatever may still be delivered before a turn of the batch precedes it  *)
(* in the batch.                                                           *)
BatchFirst ==
    \A y \in DOMAIN batch, a \in Act :
        batch[y] \notin Command /\ Racing(a) /\ Before(a, batch[y]) => \E x \in 1 .. y - 1 : batch[x] = a

(* No turn is delivered while one before it may be.                        *)
NoneOvertaken == \A a, b \in Act : Before(a, b) /\ Racing(a) => b \notin durable

FifoInv == Arrived /\ LanesOrdered /\ SelectedAlone /\ SelectedUnseen /\ BatchFirst /\ NoneOvertaken

(* What a step that admits nothing leaves as it was.                       *)
LEMMA NoArrival ==
    ASSUME PumpInv, [Next]_vars, ~ \E a \in Act, imm \in BOOLEAN : Admit(a, imm)
    PROVE  /\ arrivals' = arrivals /\ unseen' = unseen
           /\ durable' = durable \/ Deliver
           /\ lanes' = lanes \/ \E S : lanes' = Released(S)
<1>0. ControlType
  BY TypeParts DEF PumpInv
<1>1. CASE UNCHANGED vars
  BY <1>1 DEF vars, agent
<1>2. CASE StartPump \/ LoopStep \/ AwaitEvents \/ CommandStep \/ CommandEnds
  BY <1>0, <1>2, ExitFacts DEF StartPump, LoopStep, AwaitEvents, CommandStep, CommandEnds, agent
<1>3. CASE SelectStep
  BY <1>0, <1>3, ExitFacts, SelectFacts DEF agent
<1>4. CASE PrepareStep \/ CommitStep \/ SettleStep
  <2>1. ASSUME NEW d, PumpFails(d)
        PROVE  UNCHANGED agent /\ (lanes' = lanes \/ \E S : lanes' = Released(S))
    BY <1>0, <2>1, FailFacts DEF PumpFails
  <2> QED
    BY <1>0, <1>4, <2>1, ExitFacts, ContinueFacts DEF PrepareStep, CommitStep, SettleStep, agent
<1>5. CASE Deliver \/ RunEnds
  BY <1>5 DEF Deliver, RunEnds
<1>6. CASE DrainAfterBash \/ WaitForIdle
  BY <1>6 DEF DrainAfterBash, WaitForIdle, agent
<1>7. CASE Intervene
  BY <1>7 DEF Intervene, RequestAbort, ResumeQueuedWork, AcquireInputPause, ReleaseInputPause, AcquireWorkPause,
              ReleaseWorkPause, ClearQueue, BeginBusy, EndBusy, Interrupt, agent
<1> QED
  BY <1>1, <1>2, <1>3, <1>4, <1>5, <1>6, <1>7 DEF Next, PumpStep

(* Admission puts an action behind all that came before it.                *)
LEMMA AdmitFacts ==
    ASSUME PumpInv, Arrived, NEW c \in Act, NEW imm \in BOOLEAN, Admit(c, imm)
    PROVE  /\ Arrived' /\ life[c] = "new" /\ durable' = durable /\ unseen \subseteq unseen' /\ batch' = batch /\ c \notin durable
           /\ \A a \in Act \ {c} : life'[a] = life[a]
           /\ life'[c] \in {"queued", "selected"}
           /\ \A a, b \in Act : Before(a, b)' =>
                 \/ Before(a, b) /\ a # c /\ b # c
                 \/ b = c /\ a # c /\ life[a] # "new" /\ LaneOf(a) = LaneOf(c) /\ Rank[a] = Rank[c]
<1>1. arrivals \in Seq(Act) /\ life \in [Act -> {"new", "queued"} \cup Active \cup Terminal] /\ durable \subseteq Act
  BY DEF PumpInv, TypeOK, StoreTypeOK
<1>2. /\ life[c] = "new" /\ durable' = durable /\ unseen \subseteq unseen' /\ batch' = batch /\ arrivals' = Append(arrivals, c)
      /\ \E t \in {"queued", "selected"} : life' = [life EXCEPT ![c] = t]
  BY DEF Admit
<1>3. /\ \A a \in Act \ {c} : life'[a] = life[a]
      /\ life'[c] \in {"queued", "selected"}
  BY <1>1, <1>2
<1>4. c \notin durable
  BY <1>1, <1>2 DEF PumpInv, LivesFit, Terminal
<1> DEFINE n == Len(arrivals)
<1>5. /\ n \in Nat /\ DOMAIN arrivals = 1 .. n /\ DOMAIN arrivals' = 1 .. n + 1
      /\ arrivals'[n + 1] = c /\ \A i \in 1 .. n : arrivals'[i] = arrivals[i] /\ arrivals[i] \in Act
  BY <1>1, <1>2
<1> HIDE DEF n
<1>6. \A i \in 1 .. n : arrivals[i] # c /\ life[arrivals[i]] # "new"
  <2>1. \A i \in 1 .. n : arrivals[i] \in ToSet(arrivals)
    BY <1>5 DEF ToSet
  <2> QED
    BY <1>2, <2>1 DEF Arrived
<1>7. IsInjective(arrivals')
  <2>1. \A i, j \in 1 .. n : arrivals[i] = arrivals[j] => i = j
    BY <1>5 DEF Arrived, IsInjective
  <2>2. \A i, j \in 1 .. n + 1 : arrivals'[i] = arrivals'[j] => i = j
    BY <1>5, <1>6, <2>1
  <2> QED
    BY <1>5, <2>2 DEF IsInjective
<1>8. ToSet(arrivals') = {a \in Act : life'[a] # "new"}
  <2>1. ToSet(arrivals') = ToSet(arrivals) \cup {c}
    <3>1. ToSet(arrivals') \subseteq ToSet(arrivals) \cup {c}
      BY <1>5 DEF ToSet
    <3>2. c \in ToSet(arrivals')
      BY <1>5 DEF ToSet
    <3>3. ToSet(arrivals) \subseteq ToSet(arrivals')
      <4>1. \A i \in 1 .. n : i \in 1 .. n + 1
        BY <1>5
      <4> QED
        BY <1>5, <4>1 DEF ToSet
    <3> QED
      BY <3>1, <3>2, <3>3
  <2> QED
    BY <1>3, <2>1 DEF Arrived
<1>9. ASSUME NEW a \in Act, NEW b \in Act, Before(a, b)'
      PROVE  \/ Before(a, b) /\ a # c /\ b # c
             \/ b = c /\ a # c /\ life[a] # "new" /\ LaneOf(a) = LaneOf(c) /\ Rank[a] = Rank[c]
  <2>1. /\ LaneOf(a) = LaneOf(b) /\ Rank[a] = Rank[b]
        /\ \E i, j \in 1 .. n + 1 : i < j /\ arrivals'[i] = a /\ arrivals'[j] = b
    BY <1>5, <1>9 DEF Before
  <2>2. PICK i \in 1 .. n + 1, j \in 1 .. n + 1 : i < j /\ arrivals'[i] = a /\ arrivals'[j] = b
    BY <2>1
  <2>3. i \in 1 .. n /\ a = arrivals[i] /\ a # c /\ life[a] # "new"
    BY <1>5, <1>6, <2>2
  <2>4. CASE j = n + 1
    BY <1>5, <2>1, <2>2, <2>3, <2>4
  <2>5. CASE j # n + 1
    <3>1. j \in 1 .. n /\ b = arrivals[j] /\ b # c
      BY <1>5, <1>6, <2>2, <2>5
    <3> QED
      BY <1>5, <2>1, <2>2, <2>3, <3>1 DEF Before
  <2> QED
    BY <2>4, <2>5
<1>10. Arrived'
  BY <1>7, <1>8 DEF Arrived
<1> QED
  BY <1>2, <1>3, <1>4, <1>9, <1>10

(* Lifecycles only move on: an action is not unsubmitted again, does not   *)
(* leave a terminal state, and only admission selects a turn.              *)
LEMMA LivesKeep ==
    ASSUME PumpInv, [Next]_vars, ~ \E a \in Act, imm \in BOOLEAN : Admit(a, imm), NEW a \in Act
    PROVE  /\ life'[a] = "new" <=> life[a] = "new"
           /\ life[a] \in Terminal => life'[a] = life[a]
           /\ life'[a] = "selected" /\ a \notin Command => life[a] = "selected"
<1>1. CASE life' = life
  BY <1>1
<1>2. ASSUME NEW S, NEW t, GoesTo(S, t), a \in S
      PROVE  /\ life'[a] = t /\ t # "new" /\ life[a] \in {"queued"} \cup Active
             /\ t = "selected" => a \in Command
  BY <1>2, Legality DEF GoesTo, Moved, Active
<1>3. ASSUME NEW S, NEW t, GoesTo(S, t), a \notin S
      PROVE  life'[a] = life[a]
  BY <1>3 DEF GoesTo, Moved
<1> QED
  BY <1>1, <1>2, <1>3, LivesStep DEF LivesMove, Active, Terminal

(* The race goes on among those who were in it; a new action comes last.   *)
LEMMA RaceStep ==
    ASSUME PumpInv, Arrived, [Next]_vars
    PROVE  /\ Arrived'
           /\ \A a, b \in Act : Before(a, b)' =>
                 /\ life[a] # "new"
                 /\ Racing(a)' => Racing(a)
                 /\ Before(a, b) \/ life[b] = "new"
                 /\ life[b] # "new" => Before(a, b)
<1>0. durable \subseteq Act /\ arrivals \in Seq(Act)
  BY DEF PumpInv, TypeOK
<1>1. CASE \E c \in Act, imm \in BOOLEAN : Admit(c, imm)
  <2>1. PICK c \in Act, imm \in BOOLEAN : Admit(c, imm)
    BY <1>1
  <2>2. \A a, b \in Act : Before(a, b) => life[a] # "new"
    BY <1>0 DEF Before, Arrived, ToSet
  <2> QED
    BY <2>1, <2>2, AdmitFacts DEF Racing
<1>2. CASE ~ \E c \in Act, imm \in BOOLEAN : Admit(c, imm)
  <2>1. arrivals' = arrivals /\ unseen' = unseen /\ durable \subseteq durable'
    BY <1>2, NoArrival DEF Deliver
  <2>2. \A a, b \in Act : Before(a, b)' <=> Before(a, b)
    BY <2>1 DEF Before
  <2>3. \A a, b \in Act : Before(a, b) => life[a] # "new" /\ life[b] # "new"
    BY <1>0 DEF Before, Arrived, ToSet
  <2>4. Arrived'
    BY <1>2, <2>1, LivesKeep DEF Arrived, ToSet
  <2>5. \A a \in Act : Racing(a)' => Racing(a)
    BY <1>2, <2>1, LivesKeep DEF Racing
  <2> QED
    BY <2>2, <2>3, <2>4, <2>5
<1> QED
  BY <1>1, <1>2

(* A direct start finds everything before it finished.                     *)
LEMMA SelectedStep ==
    ASSUME PumpInv, FifoInv, [Next]_vars
    PROVE  SelectedAlone'
<1> SUFFICES ASSUME NEW a \in Act, NEW b \in Act, life'[b] = "selected", b \notin Command, Before(a, b)'
             PROVE  life'[a] \in Terminal
  BY DEF SelectedAlone
<1>0. Arrived /\ SelectedAlone
  BY DEF FifoInv
<1>1. ASSUME NEW c \in Act, NEW imm \in BOOLEAN, Admit(c, imm)
      PROVE  life'[a] \in Terminal
  <2>1. CASE Before(a, b) /\ a # c /\ b # c
    BY <1>0, <1>1, <2>1, AdmitFacts DEF SelectedAlone
  <2>2. CASE b = c /\ a # c /\ life[a] # "new"
    <3>1. Unfinished = {}
      BY <1>1, <2>2 DEF Admit, PumpInv, TypeOK, StoreTypeOK
    <3>2. life[a] \in Terminal
      BY <2>2, <3>1 DEF PumpInv, TypeOK, StoreTypeOK, Unfinished, InState
    <3> QED
      BY <1>0, <1>1, <2>2, <3>2, AdmitFacts
  <2> QED
    BY <1>0, <1>1, <2>1, <2>2, AdmitFacts
<1>2. CASE ~ \E c \in Act, imm \in BOOLEAN : Admit(c, imm)
  <2>1. Before(a, b)
    BY <1>2, NoArrival DEF Before
  <2>2. life[b] = "selected"
    BY <1>2, LivesKeep
  <2> QED
    BY <1>0, <1>2, <2>1, <2>2, LivesKeep DEF SelectedAlone
<1> QED
  BY <1>1, <1>2

(* Filtering keeps an order.                                               *)
LEMMA OrderKept ==
    ASSUME NEW s \in Seq(Act), \A z, w \in DOMAIN s : Before(s[z], s[w]) => z < w, NEW S
    PROVE  \A x, y \in DOMAIN Keep(s, S) : Before(Keep(s, S)[x], Keep(s, S)[y]) => x < y
<1> DEFINE r == Keep(s, S)
<1>1. DOMAIN r = 1 .. Len(r) /\ Len(r) \in Nat
  BY KeepIndices
<1>2. PICK f : ReadAt(f, r, s, S)
  BY KeepIndices
<1> HIDE DEF r
<1>3. ASSUME NEW x \in DOMAIN r, NEW y \in DOMAIN r, Before(r[x], r[y])
      PROVE  x < y
  <2>1. /\ f[x] \in DOMAIN s /\ f[y] \in DOMAIN s /\ r[x] = s[f[x]] /\ r[y] = s[f[y]]
        /\ f[x] \in Nat /\ f[y] \in Nat
        /\ y < x => f[y] < f[x]
    BY <1>1, <1>2 DEF ReadAt, KeptAt
  <2>2. f[x] < f[y]
    BY <1>3, <2>1
  <2> QED
    BY <1>1, <2>1, <2>2
<1> QED
  BY <1>3 DEF r

(* A release or an admission leaves each lane in order.                    *)
LEMMA LanesStep ==
    ASSUME PumpInv, FifoInv, [Next]_vars
    PROVE  LanesOrdered'
<1> SUFFICES ASSUME NEW l \in Lane, NEW x \in DOMAIN lanes'[l], NEW y \in DOMAIN lanes'[l],
                    NEW a \in Act, NEW b \in Act, a = lanes'[l][x], b = lanes'[l][y], Before(a, b)'
             PROVE  x < y
  <2>1. \A l \in Lane : lanes'[l] \in Seq(Act)
    BY StoreStep DEF StoreTypeOK
  <2>2. \A l \in Lane : \A x \in DOMAIN lanes'[l] : lanes'[l][x] \in Act
    BY <2>1
  <2>3. \A l \in Lane : \A x, y \in DOMAIN lanes'[l] : \A a, b \in Act :
           a = lanes'[l][x] /\ b = lanes'[l][y] /\ Before(a, b)' => x < y
    OBVIOUS
  <2> QED
    BY <2>2, <2>3 DEF LanesOrdered, Before
<1>0. /\ Arrived /\ LanesOrdered
      /\ lanes \in [Lane -> Seq(Act)]
      /\ \A k \in Lane : \A d \in ToSet(lanes[k]) : LaneOf(d) = k /\ d \in Act
      /\ \A k \in Lane : \A d \in ToSet(lanes[k]) : life[d] # "new"
  <2>1. \A k \in Lane : \A d \in ToSet(lanes[k]) : d \in Owned
    BY DEF Owned, Lane
  <2> QED
    BY <2>1 DEF FifoInv, PumpInv, TypeOK, StoreTypeOK
<1> DEFINE s == lanes[l]
           r == lanes'[l]
<1>1. s \in Seq(Act) /\ \A z \in DOMAIN s : s[z] \in Act /\ life[s[z]] # "new" /\ LaneOf(s[z]) = l
  BY <1>0 DEF ToSet
<1>2. \A z, w \in DOMAIN s : Before(s[z], s[w]) => z < w
  BY <1>0 DEF LanesOrdered
<1>3. ASSUME NEW c \in Act, NEW imm \in BOOLEAN, Admit(c, imm)
      PROVE  x < y
  <2> DEFINE i == InsertionIndex(s, c)
  <2>1. CASE l # LaneOf(c)
    <3>1. r = s
      BY <1>0, <1>3, <2>1 DEF Admit, Enqueued
    <3>2. Before(a, b)
      BY <1>0, <1>1, <1>3, <2>1, <3>1, AdmitFacts
    <3> QED
      BY <1>2, <3>1, <3>2
  <2>2. CASE l = LaneOf(c)
    <3>1. r = InsertAt(s, i, c)
      BY <1>0, <1>3, <2>2 DEF Admit, Enqueued
    <3>2. i \in 1 .. Len(s) + 1 /\ \A j \in i .. Len(s) : Rank[s[j]] < Rank[c]
      BY <1>1, InsertionIndexType
    <3>3. /\ DOMAIN r = 1 .. Len(s) + 1 /\ Len(s) \in Nat /\ DOMAIN s = 1 .. Len(s)
          /\ \A j \in 1 .. Len(s) + 1 : r[j] = IF j < i THEN s[j] ELSE IF j = i THEN c ELSE s[j - 1]
      <4>1. s \in Seq(Act) /\ c \in Act /\ i \in 1 .. Len(s) + 1
        BY <1>1, <3>2
      <4> HIDE DEF i, s, r
      <4>2. Len(s) \in Nat /\ DOMAIN s = 1 .. Len(s)
        BY <4>1
      <4>3. LET t == InsertAt(s, i, c)
            IN  /\ Len(t) = Len(s) + 1 /\ DOMAIN t = 1 .. Len(t)
                /\ \A j \in 1 .. Len(t) : t[j] = IF j < i THEN s[j] ELSE IF j = i THEN c ELSE s[j - 1]
        BY <4>1, InsertPlaces
      <4>4. /\ Len(r) = Len(s) + 1 /\ DOMAIN r = 1 .. Len(r)
            /\ \A j \in 1 .. Len(r) : r[j] = IF j < i THEN s[j] ELSE IF j = i THEN c ELSE s[j - 1]
        BY <3>1, <4>3
      <4> QED
        BY <4>2, <4>4
    <3> HIDE DEF i, s, r
    <3>4. a = r[x] /\ b = r[y] /\ x \in DOMAIN r /\ y \in DOMAIN r
      BY DEF r
    <3>5. a # c
      BY <1>0, <1>3, <3>4, AdmitFacts
    <3>6. PICK z \in DOMAIN s : a = s[z] /\ (IF x < i THEN z = x ELSE z = x - 1 /\ x > i)
      <4>1. x \in 1 .. Len(s) + 1 /\ a = IF x < i THEN s[x] ELSE IF x = i THEN c ELSE s[x - 1]
        BY <3>3, <3>4
      <4>2. CASE x < i
        <5>1. x \in DOMAIN s /\ a = s[x]
          BY <3>2, <3>3, <4>1, <4>2
        <5> QED
          BY <4>2, <5>1
      <4>3. CASE ~(x < i)
        <5>1. x - 1 \in DOMAIN s /\ a = s[x - 1] /\ x > i
          BY <3>2, <3>3, <3>5, <4>1, <4>3
        <5> QED
          BY <4>3, <5>1
      <4> QED
        BY <4>2, <4>3
    <3>7. CASE b = c
      <4>1. Rank[s[z]] = Rank[c]
        BY <1>0, <1>3, <3>4, <3>6, <3>7, AdmitFacts
      <4>2. Rank[c] \in 0 .. 2
        BY StoreAssumption DEF StoreAssumption
      <4>3. x < i
        BY <3>2, <3>3, <3>6, <4>1, <4>2, <3>4
      <4>4. y = i
        <5>1. \A w \in DOMAIN s : s[w] # c
          BY <1>0, <1>1, <1>3, AdmitFacts
        <5> QED
          BY <3>2, <3>3, <3>7, <5>1, <3>4
      <4> QED
        BY <4>3, <4>4
    <3>8. CASE b # c
      <4>1. PICK w \in DOMAIN s : b = s[w] /\ (IF y < i THEN w = y ELSE w = y - 1 /\ y > i)
        BY <3>2, <3>3, <3>4, <3>8
      <4>2. Before(s[z], s[w])
        BY <1>0, <1>3, <3>4, <3>6, <3>8, <4>1, AdmitFacts
      <4>3. z < w
        BY <1>2, <4>2
      <4> QED
        BY <3>2, <3>3, <3>6, <4>1, <4>3, <3>4
    <3> QED
      BY <3>7, <3>8
  <2> QED
    BY <2>1, <2>2
<1>4. CASE ~ \E c \in Act, imm \in BOOLEAN : Admit(c, imm)
  <2>1. Before(a, b)
    BY <1>4, NoArrival DEF Before
  <2>2. CASE lanes' = lanes
    BY <1>2, <2>1, <2>2
  <2>3. CASE \E S : lanes' = Released(S)
    <3>1. PICK S : r = Keep(s, Act \ S)
      BY <2>3 DEF Released
    <3> QED
      BY <1>1, <1>2, <2>1, <3>1, OrderKept
  <2> QED
    BY <1>4, <2>2, <2>3, NoArrival
<1> QED
  BY <1>3, <1>4

(* What becomes selected under a pump that found nothing selected is a     *)
(* prompt started directly.                                                *)
LEMMA AwaitsStep ==
    ASSUME PumpInv, FifoInv, [Next]_vars
    PROVE  SelectedUnseen'
<1> SUFFICES ASSUME PumpAwaits', ~stale'
             PROVE  InLife("selected")' \subseteq unseen'
  BY DEF SelectedUnseen
<1>0. StoreTypeOK /\ ControlType /\ SelectedUnseen /\ pump' \in {"events", "select"} /\ pre' = None
  BY TypeParts DEF PumpInv, FifoInv, PumpAwaits
<1>1. ASSUME life' = life, unseen' = unseen, PumpAwaits, ~stale
      PROVE  InLife("selected")' \subseteq unseen'
  BY <1>0, <1>1 DEF SelectedUnseen, InLife
<1>2. ASSUME UNCHANGED <<life, unseen, pump, pre>>, stale' = stale \/ BumpEpoch
      PROVE  InLife("selected")' \subseteq unseen'
  BY <1>0, <1>1, <1>2 DEF PumpAwaits, BumpEpoch
<1>3. CASE UNCHANGED vars
  BY <1>2, <1>3 DEF vars, control, agent
<1>4. ASSUME NEW c \in Act, NEW imm \in BOOLEAN, Admit(c, imm)
      PROVE  InLife("selected")' \subseteq unseen'
  <2>1. PumpAwaits /\ ~stale
    BY <1>0, <1>4 DEF Admit, PumpAwaits
  <2>2. InLife("selected") \subseteq unseen /\ unseen \subseteq unseen'
    BY <1>0, <1>4, <2>1 DEF Admit, SelectedUnseen
  <2>3. life' = [life EXCEPT ![c] = "queued"] \/ (life' = [life EXCEPT ![c] = "selected"] /\ c \in unseen')
    BY <1>4, <2>1 DEF Admit
  <2> QED
    BY <1>0, <2>2, <2>3 DEF InLife, StoreTypeOK
<1>5. CASE LoopStep
  <2> DEFINE all == lanes["steer"] \o lanes["follow"]
             sel == Keep(all, InLife("selected"))
  <2>1. /\ Selectable /\ pre' = IF sel = <<>> THEN None ELSE Head(sel)
        /\ life' = life
    BY <1>0, <1>5, ExitFacts DEF LoopStep
  <2>2. sel = <<>>
    BY <1>0, <2>1, SelectedHead, SchedulerAssumption DEF SchedulerAssumption
  <2>3. all \in Seq(Act) /\ Owned \subseteq ToSet(all)
    <3>1. lanes["steer"] \in Seq(Act) /\ lanes["follow"] \in Seq(Act)
      BY <1>0 DEF StoreTypeOK, Lane
    <3>2. \A p, q \in Seq(Act) : p \o q \in Seq(Act) /\ ToSet(p) \cup ToSet(q) \subseteq ToSet(p \o q)
      <4> SUFFICES ASSUME NEW p \in Seq(Act), NEW q \in Seq(Act)
                   PROVE  p \o q \in Seq(Act) /\ ToSet(p) \cup ToSet(q) \subseteq ToSet(p \o q)
        OBVIOUS
      <4>1. p \o q \in Seq(Act) /\ Len(p \o q) = Len(p) + Len(q)
        OBVIOUS
      <4>2. ASSUME NEW i \in DOMAIN p PROVE p[i] \in ToSet(p \o q)
        <5>1. i \in DOMAIN (p \o q) /\ (p \o q)[i] = p[i]
          BY <4>1
        <5> QED
          BY <5>1 DEF ToSet
      <4>3. ASSUME NEW i \in DOMAIN q PROVE q[i] \in ToSet(p \o q)
        <5>1. Len(p) + i \in DOMAIN (p \o q) /\ (p \o q)[Len(p) + i] = q[i]
          BY <4>1
        <5> QED
          BY <5>1 DEF ToSet
      <4> QED
        BY <4>1, <4>2, <4>3 DEF ToSet
    <3> QED
      BY <3>1, <3>2 DEF Owned
  <2> HIDE DEF all
  <2>4. ToSet(all) \cap InLife("selected") = {}
    <3>1. ToSet(sel) = ToSet(all) \cap InLife("selected")
      BY <2>3, KeepMembers
    <3> QED
      BY <2>2, <3>1 DEF ToSet
  <2>5. InLife("selected") = {}
    BY <1>0, <2>3, <2>4 DEF InLife, StoreTypeOK, Terminal
  <2> QED
    BY <2>1, <2>5 DEF InLife
<1>6. CASE AwaitEvents
  <2>1. life' = life /\ unseen' = unseen /\ pump = "events" /\ UNCHANGED <<stale, pre>>
    BY <1>0, <1>6, ExitFacts DEF AwaitEvents, agent
  <2> QED
    BY <1>0, <1>1, <2>1 DEF PumpAwaits
<1>7. CASE StartPump \/ CommandStep \/ CommandEnds \/ Deliver \/ RunEnds
  BY <1>0, <1>7, ExitFacts DEF StartPump, CommandStep, CommandEnds, Deliver, RunEnds, control
<1>8. CASE SelectStep
  BY <1>0, <1>8, ExitFacts, SelectFacts
<1>9. CASE PrepareStep \/ CommitStep \/ SettleStep
  BY <1>0, <1>9, FailFacts, ExitFacts, ContinueFacts DEF PrepareStep, CommitStep, SettleStep
<1>10. CASE RequestAbort
  BY <1>0, <1>10 DEF RequestAbort, BumpEpoch
<1>11. CASE ClearQueue
  <2>1. PumpAwaits /\ ~stale /\ unseen' = unseen
    BY <1>0, <1>11 DEF ClearQueue, PumpAwaits, agent
  <2>2. InLife("selected")' \subseteq InLife("selected")
    BY <1>0, <1>11 DEF ClearQueue, Moved, InLife, StoreTypeOK
  <2> QED
    BY <1>0, <2>1, <2>2 DEF SelectedUnseen
<1>12. CASE DrainAfterBash \/ WaitForIdle
  BY <1>2, <1>12 DEF DrainAfterBash, WaitForIdle, agent
<1>13. CASE ResumeQueuedWork \/ AcquireInputPause \/ ReleaseInputPause \/ AcquireWorkPause \/ ReleaseWorkPause
  BY <1>2, <1>13 DEF ResumeQueuedWork, AcquireInputPause, ReleaseInputPause, AcquireWorkPause, ReleaseWorkPause,
                     Interrupt, agent
<1>14. CASE \E k \in Busy : BeginBusy(k) \/ EndBusy(k)
  BY <1>2, <1>14 DEF BeginBusy, EndBusy, control, agent
<1> QED
  BY <1>3, <1>4, <1>5, <1>6, <1>7, <1>8, <1>9, <1>10, <1>11, <1>12, <1>13, <1>14 DEF Next, PumpStep, Intervene

(* A batch that begins with the first queued action is a first part of its *)
(* lane's queue.                                                           *)
LEMMA BatchPrefix ==
    ASSUME StoreTypeOK, SelectionOrder # <<>>, NEW first, first = Head(SelectionOrder), first \notin Command
    PROVE  LET Q == QueuedIn(LaneOf(first))
           IN  \A i \in DOMAIN BatchWith(first) : i \in DOMAIN Q /\ BatchWith(first)[i] = Q[i]
<1> DEFINE Q == QueuedIn(LaneOf(first))
           rest == Keep(Q, Act \ {first})
           joins(a) == a \notin Command /\ (a \in Visible <=> first \in Visible)
           n == CHOOSE k \in 0..Len(rest) :
                   /\ \A i \in 1..k : joins(rest[i])
                   /\ k < Len(rest) => ~joins(rest[k + 1])
<1>1. \A l \in Lane : /\ QueuedIn(l) \in Seq(Act) /\ IsInjective(QueuedIn(l))
                      /\ \A a \in ToSet(QueuedIn(l)) : LaneOf(a) = l
  <2>1. \A l \in Lane : lanes[l] \in Seq(Act) /\ IsInjective(lanes[l])
    BY DEF StoreTypeOK
  <2>2. \A l \in Lane : QueuedIn(l) \in Seq(Act) /\ IsInjective(QueuedIn(l)) /\ ToSet(QueuedIn(l)) \subseteq ToSet(lanes[l])
    BY <2>1, KeepMembers DEF QueuedIn
  <2> QED
    BY <2>2 DEF StoreTypeOK
<1>2. Q \in Seq(Act) /\ IsInjective(Q) /\ Q # <<>> /\ first = Q[1]
  <2> DEFINE p == QueuedIn("steer")
             q == QueuedIn("follow")
  <2>1. p \in Seq(Act) /\ q \in Seq(Act)
    BY <1>1 DEF Lane
  <2>2. CASE p # <<>>
    <3>1. first = p[1] /\ p[1] \in ToSet(p)
      <4> HIDE DEF p, q
      <4>1. SelectionOrder = p \o q
        BY DEF SelectionOrder, p, q
      <4> QED
        BY <2>1, <2>2, <4>1 DEF ToSet
    <3> QED
      BY <1>1, <2>2, <3>1 DEF Lane
  <2>3. CASE p = <<>>
    <3>1. first = q[1] /\ q[1] \in ToSet(q) /\ q # <<>>
      <4> HIDE DEF p, q
      <4>1. SelectionOrder = p \o q
        BY DEF SelectionOrder, p, q
      <4>2. SelectionOrder = q
        BY <2>1, <2>3, <4>1
      <4> QED
        BY <2>1, <4>2 DEF ToSet
    <3> QED
      BY <1>1, <3>1 DEF Lane
  <2> QED
    BY <2>2, <2>3
<1> HIDE DEF Q
<1>3. rest = Tail(Q)
  <2>1. Tail(Q) \in Seq(Act) /\ Len(Tail(Q)) = Len(Q) - 1 /\ \A i \in 1 .. Len(Q) - 1 : Tail(Q)[i] = Q[i + 1]
    BY <1>2
  <2>2. \A i \in 1 .. Len(Q) - 1 : i + 1 \in DOMAIN Q /\ i + 1 # 1
    BY <1>2
  <2>3. \A i \in 1 .. Len(Q) - 1 : Q[i + 1] # first
    BY <1>2, <2>2 DEF IsInjective
  <2>4. Keep(Tail(Q), Act \ {first}) = Tail(Q)
    <3>1. \A i \in 1 .. Len(Tail(Q)) : Tail(Q)[i] \in Act /\ Tail(Q)[i] # first
      BY <2>1, <2>3
    <3>2. \A i \in 1 .. Len(Tail(Q)) : Tail(Q)[i] \in Act \ {first}
      BY <3>1
    <3> QED
      BY <2>1, <3>2, KeepAll
  <2>5. Head(Q) = first
    BY <1>2
  <2> QED
    BY <1>2, <2>4, <2>5, KeepTail
<1> HIDE DEF rest
<1>4. \A i \in 1 .. Len(rest) : i + 1 \in DOMAIN Q /\ rest[i] = Q[i + 1]
  BY <1>2, <1>3
<1>5. rest \in Seq(Act)
  BY <1>2, <1>3
<1>6. BatchWith(first) = IF pre = None /\ LaneOf(first) \in AllMode THEN <<first>> \o SubSeq(rest, 1, n) ELSE <<first>>
  BY DEF BatchWith, rest, Q
<1>7. CASE BatchWith(first) = <<first>>
  BY <1>2, <1>7 DEF Q
<1>8. CASE BatchWith(first) = <<first>> \o SubSeq(rest, 1, n)
  <2>1. n \in 0 .. Len(rest)
    <3> DEFINE J == {a \in Act : joins(a)}
    <3>1. PICK k \in 0..Len(rest) : (\A i \in 1..k : rest[i] \in J) /\ (k < Len(rest) => rest[k + 1] \notin J)
      BY <1>5, FirstOutside
    <3>2. k < Len(rest) => rest[k + 1] \in Act
      BY <1>5
    <3>3. \E m \in 0..Len(rest) : (\A i \in 1..m : joins(rest[i])) /\ (m < Len(rest) => ~joins(rest[m + 1]))
      BY <3>1, <3>2
    <3> QED
      BY <3>3
  <2> HIDE DEF n
  <2> DEFINE q == SubSeq(rest, 1, n)
  <2>2. q \in Seq(Act) /\ Len(q) = n /\ \A i \in 1..n : q[i] = rest[i]
    BY <1>5, <2>1
  <2> HIDE DEF q
  <2>3. first \in Act
    BY <1>2
  <2>4. /\ DOMAIN (<<first>> \o q) = 1 .. n + 1
        /\ (<<first>> \o q)[1] = first
        /\ \A i \in 2 .. n + 1 : (<<first>> \o q)[i] = q[i - 1]
    BY <2>1, <2>2, <2>3
  <2>5. \A i \in 2 .. n + 1 : i - 1 \in 1 .. n /\ i - 1 \in 1 .. Len(rest) /\ (i - 1) + 1 = i
    BY <1>5, <2>1
  <2>6. \A i \in 2 .. n + 1 : i \in DOMAIN Q /\ (<<first>> \o q)[i] = Q[i]
    BY <1>4, <2>2, <2>4, <2>5
  <2>7. 1 \in DOMAIN Q /\ (<<first>> \o q)[1] = Q[1]
    BY <1>2, <2>4
  <2>8. \A i \in 1 .. n + 1 : i = 1 \/ i \in 2 .. n + 1
    BY <2>1
  <2> QED
    BY <1>8, <2>4, <2>6, <2>7, <2>8 DEF Q, q
<1> QED
  BY <1>6, <1>7, <1>8

(* Where the pump's batch comes from.                                      *)
LEMMA BatchMoves ==
    ASSUME PumpInv, [Next]_vars
    PROVE  \/ batch' = batch
           \/ batch' = <<>>
           \/ \E c \in Command \cap Act : batch' = <<c>>
           \/ pump = "prepare" /\ batch' = Preparing
           \/ LET first == IF pre # None THEN pre ELSE Head(SelectionOrder)
              IN  /\ pump = "select" /\ ~stale /\ first \notin Command /\ batch' = BatchWith(first)
                  /\ pre # None \/ SelectionOrder # <<>>
<1>0. ControlType
  BY TypeParts DEF PumpInv
<1>1. CASE UNCHANGED vars
  BY <1>1 DEF vars, control
<1>2. ASSUME NEW a \in Act, NEW imm \in BOOLEAN, Admit(a, imm)
      PROVE  batch' = batch
  BY <1>2 DEF Admit
<1>3. CASE StartPump \/ LoopStep \/ AwaitEvents \/ CommandStep \/ CommandEnds \/ Deliver \/ RunEnds
  BY <1>0, <1>3, ExitFacts DEF StartPump, LoopStep, AwaitEvents, CommandStep, CommandEnds, Deliver, RunEnds, control
<1>4. CASE SelectStep
  <2> DEFINE first == IF pre # None THEN pre ELSE Head(SelectionOrder)
  <2>1. CASE \E b \in BOOLEAN : ExitPump(b)
    BY <1>0, <2>1, ExitFacts
  <2>2. CASE first \in Command /\ batch' = <<first>> /\ (pre # None \/ SelectionOrder # <<>>)
    <3>1. first \in Command \cap Act
      BY <2>2, SchedulerAssumption DEF SchedulerAssumption
    <3> QED
      BY <2>2, <3>1
  <2>3. CASE /\ ~HandoffDeferred /\ first \notin Command /\ batch' = BatchWith(first)
             /\ pre # None \/ SelectionOrder # <<>>
    BY <1>4, <2>3 DEF SelectStep, HandoffDeferred
  <2> QED
    BY <1>4, <2>1, <2>2, <2>3 DEF SelectStep
<1>5. CASE PrepareStep \/ CommitStep \/ SettleStep
  BY <1>0, <1>5, FailFacts, ExitFacts, ContinueFacts DEF PrepareStep, CommitStep, SettleStep
<1>6. CASE DrainAfterBash \/ WaitForIdle
  BY <1>6 DEF DrainAfterBash, WaitForIdle
<1>7. CASE Intervene
  BY <1>7 DEF Intervene, RequestAbort, ResumeQueuedWork, AcquireInputPause, ReleaseInputPause, AcquireWorkPause,
              ReleaseWorkPause, ClearQueue, BeginBusy, EndBusy, control
<1> QED
  BY <1>1, <1>2, <1>3, <1>4, <1>5, <1>6, <1>7 DEF Next, PumpStep

(* The actions a pump holds have been admitted.                            *)
LEMMA HeldArrived ==
    ASSUME PumpInv, NEW b \in ToSet(batch)
    PROVE  life[b] # "new" /\ b \in Act
<1>1. batch \in Seq(Act) /\ pump \in PumpPoint
  BY DEF PumpInv, TypeOK
<1>2. b \in Act /\ batch # <<>>
  BY <1>1 DEF ToSet
<1>3. OneCommand => b = batch[1]
  BY CommandHeld
<1> QED
  BY <1>1, <1>2, <1>3 DEF PumpInv, PumpHolds, HandedOver, PumpPoint

(* Selection and preparation keep the order of admission.                  *)
LEMMA BatchStep ==
    ASSUME PumpInv, FifoInv, [Next]_vars
    PROVE  BatchFirst'
<1>0. /\ Arrived /\ LanesOrdered /\ SelectedAlone /\ SelectedUnseen /\ BatchFirst
      /\ StoreTypeOK /\ batch \in Seq(Act) /\ batch' \in Seq(Act) /\ pre \in Act \cup {None}
  BY ControlStep DEF FifoInv, PumpInv, TypeOK, ControlType
<1> SUFFICES ASSUME NEW y \in DOMAIN batch', NEW a \in Act, NEW b \in Act, b = batch'[y],
                    b \notin Command, Racing(a)', Before(a, b)'
             PROVE  \E x \in 1 .. y - 1 : batch'[x] = a
  <2>1. \A y \in DOMAIN batch' : batch'[y] \in Act
    BY <1>0
  <2>2. \A y \in DOMAIN batch', a, b \in Act :
           b = batch'[y] /\ b \notin Command /\ Racing(a)' /\ Before(a, b)' => \E x \in 1 .. y - 1 : batch'[x] = a
    OBVIOUS
  <2> QED
    BY <2>1, <2>2 DEF BatchFirst, Before
<1>1. Racing(a) /\ life[a] # "new" /\ (life[b] # "new" => Before(a, b))
  BY <1>0, RaceStep
<1>2. CASE batch' = batch
  <2>1. b \in ToSet(batch)
    BY <1>2 DEF ToSet
  <2>2. Before(a, b)
    BY <1>1, <2>1, HeldArrived
  <2> QED
    BY <1>0, <1>1, <1>2, <2>2 DEF BatchFirst
<1>3. CASE batch' = <<>>
  BY <1>3
<1>4. CASE \E c \in Command \cap Act : batch' = <<c>>
  BY <1>4
<1>5. CASE pump = "prepare" /\ batch' = Preparing
  <2> DEFINE r == batch'
             K == InLife("preparing")
  <2>1. r = Keep(batch, K) /\ y \in DOMAIN r /\ b = r[y]
    BY <1>5 DEF Preparing
  <2>2. DOMAIN r = 1 .. Len(r) /\ Len(r) \in Nat
    BY <1>0, <2>1, KeepIndices
  <2>3. PICK f : ReadAt(f, r, batch, K)
    BY <1>0, <2>1, KeepIndices
  <2> HIDE DEF r
  <2>4. f[y] \in KeptAt(batch, K) /\ b = batch[f[y]]
    BY <2>1, <2>2, <2>3 DEF ReadAt
  <2>5. f[y] \in DOMAIN batch /\ f[y] \in Nat /\ b \in ToSet(batch)
    BY <1>0, <2>4 DEF KeptAt, ToSet
  <2>6. Before(a, b)
    BY <1>1, <2>5, HeldArrived
  <2>7. PICK x \in 1 .. f[y] - 1 : batch[x] = a
    BY <1>0, <1>1, <2>4, <2>5, <2>6 DEF BatchFirst
  <2>8. x \in 1 .. Len(batch) /\ a \in ToSet(batch)
    BY <1>0, <2>5, <2>7 DEF ToSet
  <2>9. a \in K
    BY <1>1, <1>5, <2>8 DEF PumpInv, PumpHolds, Racing, Terminal, InLife
  <2>10. x \in KeptAt(batch, K)
    BY <2>7, <2>8, <2>9 DEF KeptAt
  <2>11. PICK m \in 1 .. Len(r) : f[m] = x
    BY <2>3, <2>10 DEF ReadAt
  <2>12. r[m] = a
    BY <2>3, <2>7, <2>11 DEF ReadAt
  <2>13. m < y
    <3>1. y < m => f[y] < f[m]
      BY <2>1, <2>2, <2>3, <2>11 DEF ReadAt
    <3>2. f[m] < f[y] /\ f[m] \in Nat
      BY <2>5, <2>7, <2>11
    <3> QED
      BY <2>1, <2>2, <2>5, <2>11, <3>1, <3>2
  <2>14. m \in 1 .. y - 1
    BY <2>1, <2>2, <2>11, <2>13
  <2> QED
    BY <2>12, <2>14 DEF r
<1>6. CASE /\ pump = "select" /\ ~stale /\ pre # None /\ pre \notin Command /\ batch' = BatchWith(pre)
  <2>1. b = pre
    BY <1>6 DEF BatchWith
  <2>2. life[pre] = "selected"
    BY <1>6 DEF PumpInv, PumpHolds
  <2>3. Before(a, b)
    BY <1>1, <2>1, <2>2
  <2> QED
    BY <1>0, <1>1, <2>1, <2>2, <2>3 DEF SelectedAlone, Racing
<1>7. CASE /\ pump = "select" /\ ~stale /\ pre = None /\ SelectionOrder # <<>>
           /\ Head(SelectionOrder) \notin Command /\ batch' = BatchWith(Head(SelectionOrder))
  <2> DEFINE first == Head(SelectionOrder)
             l == LaneOf(first)
             Q == QueuedIn(l)
  <2>1. l \in Lane /\ lanes[l] \in Seq(Act) /\ Q = Keep(lanes[l], InLife("queued"))
    BY <1>0 DEF LaneOf, Lane, QueuedIn, StoreTypeOK
  <2>2. \A i \in DOMAIN batch' : i \in DOMAIN Q /\ batch'[i] = Q[i]
    BY <1>0, <1>7, BatchPrefix
  <2>3. Q \in Seq(Act) /\ ToSet(Q) = ToSet(lanes[l]) \cap InLife("queued")
    BY <2>1, KeepMembers
  <2>4. \A x, z \in DOMAIN Q : Before(Q[x], Q[z]) => x < z
    <3>1. \A z, w \in DOMAIN lanes[l] : Before(lanes[l][z], lanes[l][w]) => z < w
      BY <1>0, <2>1 DEF LanesOrdered
    <3> QED
      BY <2>1, <3>1, OrderKept
  <2> HIDE DEF Q, l, first
  <2>5. y \in DOMAIN Q /\ b = Q[y] /\ b \in ToSet(Q)
    BY <2>2 DEF ToSet
  <2>6. life[b] = "queued" /\ LaneOf(b) = l
    BY <1>0, <2>1, <2>3, <2>5 DEF StoreTypeOK, InLife
  <2>7. Before(a, b) /\ LaneOf(a) = l
    BY <1>1, <2>6 DEF Before
  <2>8. life[a] = "queued"
    <3>1. InLife("selected") \subseteq unseen
      BY <1>0, <1>7 DEF SelectedUnseen, PumpAwaits
    <3>2. life[a] \notin {"selected", "preparing", "committing", "running"}
      BY <1>1, <1>7, <3>1 DEF InLife, PumpInv, LivesFit, Racing
    <3> QED
      BY <1>0, <1>1, <3>2 DEF StoreTypeOK, Racing, Active
  <2>9. a \in ToSet(lanes[l])
    <3>1. a \in Owned
      BY <1>0, <2>8 DEF StoreTypeOK, Terminal
    <3> QED
      BY <1>0, <2>7, <3>1 DEF Owned, StoreTypeOK, Lane
  <2>10. a \in ToSet(Q)
    BY <2>3, <2>8, <2>9 DEF InLife
  <2>11. PICK x \in DOMAIN Q : Q[x] = a
    BY <2>10 DEF ToSet
  <2>12. x < y /\ x \in Nat /\ x >= 1 /\ y \in Nat
    BY <2>3, <2>4, <2>5, <2>7, <2>11
  <2>13. x \in DOMAIN batch' /\ x \in 1 .. y - 1
    BY <1>0, <2>12
  <2> QED
    BY <2>2, <2>11, <2>13
<1> QED
  BY <1>2, <1>3, <1>4, <1>5, <1>6, <1>7, BatchMoves

(* Nothing is delivered ahead of what may still be delivered before it.    *)
LEMMA OvertakenStep ==
    ASSUME PumpInv, FifoInv, [Next]_vars
    PROVE  NoneOvertaken'
<1>0. Arrived /\ BatchFirst /\ NoneOvertaken /\ batch \in Seq(Act) /\ durable \subseteq Act
  BY DEF FifoInv, PumpInv, TypeOK
<1> SUFFICES ASSUME NEW a \in Act, NEW b \in Act, Before(a, b)', Racing(a)', b \in durable'
             PROVE  FALSE
  BY DEF NoneOvertaken
<1>1. Racing(a) /\ (life[b] # "new" => Before(a, b))
  BY <1>0, RaceStep
<1>2. b \notin durable
  BY <1>0, <1>1 DEF NoneOvertaken, PumpInv, LivesFit, Terminal
<1>3. Deliver
  <2>1. CASE \E c \in Act, imm \in BOOLEAN : Admit(c, imm)
    BY <1>0, <1>2, <2>1, AdmitFacts
  <2>2. CASE ~ \E c \in Act, imm \in BOOLEAN : Admit(c, imm)
    BY <1>2, <2>2, NoArrival
  <2> QED
    BY <2>1, <2>2
<1>4. PICK i \in 1 .. Len(batch) : /\ \A j \in 1 .. i - 1 : batch[j] \in durable
                                   /\ durable' = durable \cup {batch[i]}
  BY <1>3 DEF Deliver
<1>5. b = batch[i] /\ i \in DOMAIN batch /\ b \in ToSet(batch)
  BY <1>0, <1>2, <1>4 DEF ToSet
<1>6. b \notin Command
  BY <1>3, <1>5 DEF Deliver, PumpInv, PumpHolds, Turns
<1>7. Before(a, b)
  BY <1>1, <1>5, HeldArrived
<1>8. a \in durable
  BY <1>0, <1>1, <1>4, <1>5, <1>6, <1>7 DEF BatchFirst
<1> QED
  BY <1>1, <1>8 DEF Racing

(* Two turns of one lane and one priority are delivered in the order in    *)
(* which _admitSessionInput enqueued them, through batches, rollbacks,     *)
(* direct starts, clears, aborts, pauses and failures, except that a       *)
(* prompt started directly under a pump that awaits and found no selected  *)
(* action may be overtaken.                                                *)
THEOREM LanesInOrder == Spec => []LaneFifo
<1>1. Init => FifoInv
  <2> SUFFICES ASSUME Init PROVE FifoInv
    OBVIOUS
  <2>1. arrivals = <<>> /\ batch = <<>> /\ durable = {} /\ pump = "off" /\ \A a \in Act : life[a] = "new"
    BY DEF Init, StoreInit
  <2>2. \A a, b : ~Before(a, b)
    BY <2>1 DEF Before
  <2>3. Arrived
    BY <2>1 DEF Arrived, IsInjective, ToSet
  <2>4. BatchFirst /\ SelectedUnseen
    BY <2>1 DEF BatchFirst, SelectedUnseen, PumpAwaits
  <2> QED
    BY <2>2, <2>3, <2>4 DEF FifoInv, LanesOrdered, SelectedAlone, NoneOvertaken
<1>2. PumpInv /\ FifoInv /\ [Next]_vars => FifoInv'
  <2> SUFFICES ASSUME PumpInv, FifoInv, [Next]_vars PROVE FifoInv'
    OBVIOUS
  <2>1. Arrived'
    BY RaceStep DEF FifoInv
  <2> QED
    BY <2>1, AwaitsStep, LanesStep, SelectedStep, BatchStep, OvertakenStep DEF FifoInv
<1>3. PumpInv /\ FifoInv => LaneFifo
  <2> SUFFICES ASSUME PumpInv, FifoInv, NEW i \in 1 .. Len(arrivals), NEW j \in 1 .. Len(arrivals), i < j,
                      LaneOf(arrivals[i]) = LaneOf(arrivals[j]), Rank[arrivals[i]] = Rank[arrivals[j]],
                      arrivals[i] \notin Command \cup unseen, arrivals[j] \in durable
               PROVE  arrivals[i] \in durable \/ life[arrivals[i]] \in Terminal
    BY DEF LaneFifo
  <2>1. arrivals[i] \in Act /\ arrivals[j] \in Act /\ DOMAIN arrivals = 1 .. Len(arrivals)
    BY DEF PumpInv, TypeOK
  <2>2. Before(arrivals[i], arrivals[j])
    BY <2>1 DEF Before
  <2> QED
    BY <2>1, <2>2 DEF FifoInv, NoneOvertaken, Racing
<1> QED
  BY <1>1, <1>2, <1>3, PumpInvariant, PTL DEF Spec

====
