---- MODULE MCCommandGate ----
(* An ordinary command, one that may run while draining, the preparation   *)
(* of an update restart and a shutdown.                                    *)
EXTENDS CommandGate

CONSTANTS m1, d1, p1, s1, e1, e2

MCKind ==
    [c \in Cmd |-> CASE c = m1 -> "normal" [] c = d1 -> "drain" [] c = p1 -> "prepare" [] c = s1 -> "shutdown"]

\* The ordinary command may be sent again.
MCSends == [c \in Cmd |-> IF c = m1 THEN 2 ELSE 1]

\* The loop of load, record by record, and its result for every file of up to
\* six records about a command.
Replay(entry, type) ==
    CASE type = "received" -> "pending"
      [] type = "acknowledged" -> "none"
      [] type = "result" -> IF entry = "none" THEN entry ELSE "complete"

ASSUME LoadEntryIsReplay ==
    \A n \in 0 .. 6 : \A rs \in [1 .. n -> Record] : LoadEntry(rs) = FoldLeft(Replay, "none", rs)
====
