---- MODULE MCSessionLease ----
(* Three process incarnations; the third has the pid of the first.         *)
EXTENDS SessionLease

CONSTANTS a, b, c

MCPid == [p \in Proc |-> IF p = b THEN 2 ELSE 1]
\* b cannot learn its own start identity; a and c differ in theirs.
MCStartId == [p \in Proc |-> IF p = b THEN NoStart ELSE p]
====
