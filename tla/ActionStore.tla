---- MODULE ActionStore ----
(***************************************************************************)
(* The store of session actions (core/session-action-store.ts): two lanes, *)
(* each a list in queue order, and the lifecycle of every action.  The     *)
(* operators below compute the store's next value; the scheduler decides   *)
(* when they are applied.                                                  *)
(***************************************************************************)
EXTENDS Naturals, Sequences, FiniteSets, SequencesExt, Subsequences

CONSTANTS
    Act,     \* actions a client may submit
    Steer,   \* those delivered at the next turn boundary; the rest wait for an idle run
    Rank     \* PRIORITY_RANK of each action: pinned 2, user 1, background 0

ASSUME StoreAssumption ==
    /\ Steer \subseteq Act
    /\ Rank \in [Act -> 0..2]

VARIABLES
    lanes,   \* "steer" and "follow": the actions the store owns, in queue order
    life     \* lifecycle state of each action; "new" before it is submitted

Lane == {"steer", "follow"}
LaneOf(a) == IF a \in Steer THEN "steer" ELSE "follow"

Terminal == {"completed", "failed", "cancelled"}
Active == {"selected", "preparing", "committing", "running"}
Clearable == {"queued", "selected", "preparing"}

LegalTransitions ==
    [queued     |-> {"selected", "failed", "cancelled"},
     selected   |-> {"queued", "preparing", "running", "failed", "cancelled"},
     preparing  |-> {"queued", "committing", "failed", "cancelled"},
     committing |-> {"queued", "running", "failed", "cancelled"},
     running    |-> {"completed", "failed", "cancelled"}]

StoreInit ==
    /\ lanes = [l \in Lane |-> <<>>]
    /\ life = [a \in Act |-> "new"]

(***************************************************************************)
(* Queries                                                                 *)
(***************************************************************************)
Owned == ToSet(lanes["steer"]) \cup ToSet(lanes["follow"])
InState(states) == {a \in Owned : life[a] \in states}
Unfinished == InState({"queued"} \cup Active)
Selectable == InState({"queued", "selected"}) # {}

\* The store owns each action once, in its own lane, and exactly while it is
\* neither unsubmitted nor finished.
StoreTypeOK ==
    /\ lanes \in [Lane -> Seq(Act)]
    /\ life \in [Act -> {"new", "queued"} \cup Active \cup Terminal]
    /\ \A l \in Lane : IsInjective(lanes[l]) /\ \A a \in ToSet(lanes[l]) : LaneOf(a) = l
    /\ Owned = {a \in Act : life[a] \notin {"new"} \cup Terminal}

InLife(state) == {a \in Act : life[a] = state}

QueuedIn(l) == Keep(lanes[l], InLife("queued"))

\* selectFirst looks in the steering lane, then in the other.
SelectionOrder == QueuedIn("steer") \o QueuedIn("follow")

(***************************************************************************)
(* Faulty variants, used to show that the properties can fail.             *)
(***************************************************************************)
\* Equal priority is overtaken.
OvertakingInsertionIndex(list, a) ==
    CHOOSE i \in 1..Len(list) + 1 :
        /\ \A j \in i..Len(list) : life[list[j]] = "queued" /\ Rank[list[j]] <= Rank[a]
        /\ i > 1 => ~(life[list[i - 1]] = "queued" /\ Rank[list[i - 1]] <= Rank[a])

(***************************************************************************)
(* Updates                                                                 *)
(***************************************************************************)
\* insertionIndex for placement "priority": behind the last action that is no
\* longer queued or does not rank below the new one.
InsertionIndex(list, a) ==
    CHOOSE i \in 1..Len(list) + 1 :
        /\ \A j \in i..Len(list) : life[list[j]] = "queued" /\ Rank[list[j]] < Rank[a]
        /\ i > 1 => ~(life[list[i - 1]] = "queued" /\ Rank[list[i - 1]] < Rank[a])

Enqueued(a) ==
    LET l == LaneOf(a) IN
    [lanes EXCEPT ![l] = InsertAt(@, InsertionIndex(@, a), a)]

\* releaseTerminal for a set of actions.
Released(S) ==
    [l \in Lane |-> Keep(lanes[l], Act \ S)]

Moved(S, state) == [a \in Act |-> IF a \in S THEN state ELSE life[a]]
====
