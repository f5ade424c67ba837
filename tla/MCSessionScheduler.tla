---- MODULE MCSessionScheduler ----
(* Inputs of each kind: a direct prompt d, follow-ups f and g, a follow-up *)
(* p of a higher priority and a steering message s queued behind other     *)
(* work, and a session command c.                                          *)
EXTENDS SessionScheduler

CONSTANTS c, d, f, g, p, s

MCRank == [a \in Act |-> IF a = p THEN 2 ELSE 1]

\* Keep is SelectSeq on short sequences.
ASSUME KeepIsSelectSeq ==
    \A n \in 0 .. 4 : \A q \in [1 .. n -> 1 .. 3], S \in SUBSET (1 .. 3) :
        Keep(q, S) = SelectSeq(q, LAMBDA x : x \in S)
====
