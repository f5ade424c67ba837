---- MODULE MCSupervisorOwnership ----
(* Supervisors of one socket and descriptor directory, and updaters.       *)
EXTENDS SupervisorOwnership, TLC

CONSTANTS s1, s2, s3, u1, u2

OneSocket == [s \in Supervisor |-> 1]
OneDir == [s \in Supervisor |-> 1]

ProcSymmetry == Permutations(Supervisor) \cup Permutations(Updater)
====
