---------------------------- MODULE MCEditTool ----------------------------
(* Three edits of one file that has an alias: two share the signal of one  *)
(* run, the third belongs to another run.                                  *)
EXTENDS EditTool

CONSTANTS o1, o2, o3, s1, s2

MCOp == {o1, o2, o3}
MCCanon == [p \in Path |-> IF p = "alias" THEN "file" ELSE p]
MCSignalOf == [o \in MCOp |-> IF o = o3 THEN s2 ELSE s1]
=============================================================================
