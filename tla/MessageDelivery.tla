-------------------------- MODULE MessageDelivery --------------------------
(***************************************************************************)
(* What a queue of user messages promises: messages are accepted into a    *)
(* waiting line, taken from its front, and recorded in the transcript in   *)
(* the order they were taken.  A taken message may be dropped; a waiting   *)
(* one leaves the line only to be taken or to go back to its submitter,    *)
(* and nothing is recorded twice or out of turn.                           *)
(***************************************************************************)
EXTENDS Naturals, Subsequences

CONSTANT M
VARIABLES
  outside,  \* messages their submitters have
  waiting, taken, record, lost

vars == <<outside, waiting, taken, record, lost>>

Members(s) == {s[i] : i \in DOMAIN s}

Accept(m) ==
  /\ m \in outside
  /\ outside' = outside \ {m}
  /\ waiting' = Append(waiting, m)
  /\ UNCHANGED <<taken, record, lost>>

Withdraw(m) ==
  /\ m \in Members(waiting)
  /\ outside' = outside \cup {m}
  /\ waiting' = Keep(waiting, M \ {m})
  /\ UNCHANGED <<taken, record, lost>>

Take(k) ==
  /\ taken = <<>>
  /\ taken' = SubSeq(waiting, 1, k)
  /\ waiting' = SubSeq(waiting, k + 1, Len(waiting))
  /\ UNCHANGED <<outside, record, lost>>

Deliver ==
  /\ taken # <<>>
  /\ record' = Append(record, Head(taken))
  /\ taken' = Tail(taken)
  /\ UNCHANGED <<outside, waiting, lost>>

Drop ==
  /\ lost' = lost \cup Members(taken)
  /\ taken' = <<>>
  /\ UNCHANGED <<outside, waiting, record>>

Init == outside = M /\ waiting = <<>> /\ taken = <<>> /\ record = <<>> /\ lost = {}

Next ==
  \/ \E m \in M : Accept(m) \/ Withdraw(m)
  \/ \E k \in 1..Len(waiting) : Take(k)
  \/ Deliver
  \/ Drop

Spec == Init /\ [][Next]_vars
=============================================================================
