---- MODULE SupervisorOwnershipProofs ----
(***************************************************************************)
(* The registry of daemon supervisors, for any set of supervisors and      *)
(* updaters, any sockets and descriptor directories, and any number of     *)
(* crashes and stolen guards: conflicting supervisors are never both       *)
(* owners and an owner's record stays on disk.  As long as no guard is     *)
(* stolen, there is one fresh shutdown admission and nobody becomes owner  *)
(* under it.                                                               *)
(***************************************************************************)
EXTENDS SupervisorOwnership, TLAPS

(* Which process makes which call; a dead one makes none.                  *)
SupervisorJobs == {"own", "release", "clear"}
UpdaterJobs == {"admit", "renew", "drop", "persist"}

JobsFit ==
    \A p \in alive :
        /\ p \in Supervisor => job[p] \in SupervisorJobs
        /\ p \in Updater => job[p] \in UpdaterJobs

(* How an updater's call fits its admission: dropped only once released,   *)
(* renewed only while held, acquired only once.                            *)
CallsFitAdmission ==
    \A u \in Updater :
        /\ job[u] = "drop" => admitted[u] = "released"
        /\ job[u] = "renew" /\ pc[u] = "write" => admitted[u] = "held"
        /\ job[u] = "admit" /\ pc[u] # "idle" => admitted[u] = "no"

(* A registration that is about to succeed has its record on disk.         *)
CandidateOnDisk ==
    \A s \in Supervisor \cap alive : pc[s] = "check" /\ job[s] = "own" /\ out[s] = "ok" => s \in owners

(* While a registering supervisor has the guard, a conflicting live owner  *)
(* is one it still has to read, and there is none once it succeeds.  A     *)
(* process whose guard was stolen is not constrained.                      *)
ScanCoversOwners ==
    \A s, t \in Supervisor \cap alive :
        s # t /\ guard = s /\ job[s] = "own" /\ role[t] = "owner" /\ OwnerConflicts(s, t) =>
            /\ pc[s] = "scan" => t \in seen[s]
            /\ pc[s] = "check" => out[s] # "ok"

OwnershipInv ==
    /\ TypeOK
    /\ JobsFit
    /\ CallsFitAdmission
    /\ OwnerOnDisk
    /\ CandidateOnDisk
    /\ ScanCoversOwners
    /\ OwnersExclusive

(* Without steals the guard excludes, and the admission record on disk is  *)
(* what the process inside the guard has made sure of.                     *)
GuardExcludes == \A p \in alive : pc[p] \in Inside => guard = p

HeldIsOnDisk == \A u \in Updater \cap alive : admitted[u] = "held" /\ fresh[u] => admission = u

AdmissionStepsAgree ==
    \A p \in alive :
        /\ pc[p] = "purge" => ~ShutdownAdmissionIsActive
        /\ pc[p] = "write" /\ job[p] = "admit" => admission = None
        /\ pc[p] = "write" /\ job[p] \in {"renew", "drop"} => admission = p
        /\ pc[p] = "check" /\ job[p] = "admit" /\ out[p] = "ok" => admission = p
        /\ pc[p] \in {"list", "scan"} => admission = None
        /\ pc[p] = "check" /\ job[p] = "own" /\ out[p] = "ok" => admission = None

AdmissionInv ==
    /\ TypeOK
    /\ JobsFit
    /\ CallsFitAdmission
    /\ steals = 0 => GuardExcludes /\ HeldIsOnDisk /\ AdmissionStepsAgree

USE DEF Proc, Jobs, Inside, SupervisorJobs, UpdaterJobs, NoFence, Fence, Sockets

(* Every step keeps the variables in their types.                           *)
LEMMA TypeStep ==
    ASSUME TypeOK, JobsFit, [Next]_vars
    PROVE  TypeOK'
<1> USE OwnershipAssumption DEF TypeOK, JobsFit, disk, objects, Move, Return, At, AfterRenewal
<1>1. CASE UNCHANGED vars
  BY <1>1 DEF vars, disk, objects
<1>2. ASSUME NEW p \in Proc, Step(p) \/ LockFails(p) \/ Crash(p)
      PROVE  TypeOK'
  <2>1. CASE Lock(p)
    BY <2>1 DEF Lock
  <2>2. CASE LockFails(p)
    <3>1. pc' \in [Proc -> {"fence", "lock", "idle", "failed"} \cup Inside]
      BY <2>2 DEF LockFails, Refused
    <3>2. job' \in [Proc -> Jobs]
      BY <2>2 DEF LockFails
    <3>3. UNCHANGED <<alive, out, guard, steals, seen, disk, objects>>
      BY <2>2 DEF LockFails
    <3> QED
      BY <3>1, <3>2, <3>3
  <2>3. CASE Finish(p)
    <3>1. pc' \in [Proc -> {"fence", "lock", "idle", "failed"} \cup Inside]
      BY <2>3 DEF Finish, Outcome
    <3>2. job' \in [Proc -> Jobs]
      BY <2>3 DEF Finish, Outcome
    <3>3. role' \in [Supervisor -> {"none", "owner", "leaving", "released"}]
      BY <2>3 DEF Finish, Outcome
    <3>4. admitted' \in [Updater -> {"no", "held", "lost", "released"}]
      BY <2>3 DEF Finish, Outcome
    <3>5. UNCHANGED <<fresh, readFence>>
      BY <2>3 DEF Finish, Outcome
    <3>6. /\ out' \in [Proc -> {"ok", "no", "throw"}] /\ seen' \in [Proc -> SUBSET Supervisor]
          /\ guard' \in Proc \cup {None} /\ UNCHANGED <<alive, steals, disk>>
      BY <2>3 DEF Finish
    <3> QED
      BY <3>1, <3>2, <3>3, <3>4, <3>5, <3>6
  <2>4. CASE ReadFence(p)
    <3>1. pc' \in [Proc -> {"fence", "lock", "idle", "failed"} \cup Inside] /\ job' \in [Proc -> Jobs]
      BY <2>4 DEF ReadFence
    <3>2. readFence' \in [Supervisor -> 0 .. MaxFences]
      BY <2>4 DEF ReadFence
    <3>3. UNCHANGED <<alive, out, guard, steals, seen, disk, role, admitted, fresh>>
      BY <2>4 DEF ReadFence
    <3> QED
      BY <3>1, <3>2, <3>3
  <2>5. CASE ClearFence(p)
    <3>1. pc' \in [Proc -> {"fence", "lock", "idle", "failed"} \cup Inside] /\ out' \in [Proc -> {"ok", "no", "throw"}]
      BY <2>5 DEF ClearFence
    <3>2. UNCHANGED <<alive, job, guard, steals, seen, owners, role, admission, admitted, fresh, fence, readFence, fences>>
      BY <2>5 DEF ClearFence
    <3> QED
      BY <3>1, <3>2
  <2>6. CASE RemoveFence(p)
    BY <2>6 DEF RemoveFence
  <2>7. CASE ReadActiveShutdownAdmission(p)
    <3>1. pc' \in [Proc -> {"fence", "lock", "idle", "failed"} \cup Inside]
      BY <2>7 DEF ReadActiveShutdownAdmission
    <3>2. out' \in [Proc -> {"ok", "no", "throw"}]
      BY <2>7 DEF ReadActiveShutdownAdmission
    <3>3. UNCHANGED <<alive, job, guard, steals, seen, disk, objects>>
      BY <2>7 DEF ReadActiveShutdownAdmission
    <3> QED
      BY <3>1, <3>2, <3>3
  <2>8. CASE Purge(p)
    BY <2>8 DEF Purge
  <2>9. CASE ListOwners(p)
    BY <2>9 DEF ListOwners
  <2>10. CASE Publish(p)
    BY <2>10 DEF Publish
  <2>11. CASE ReleaseOwner(p)
    BY <2>11 DEF ReleaseOwner
  <2>12. CASE RemoveOwner(p)
    BY <2>12 DEF RemoveOwner
  <2>13. CASE WriteAdmission(p)
    BY <2>13 DEF WriteAdmission
  <2>14. CASE RenewUnderGuard(p)
    BY <2>14 DEF RenewUnderGuard
  <2>15. CASE DropAdmission(p)
    BY <2>15 DEF DropAdmission
  <2>16. CASE RemoveAdmission(p)
    BY <2>16 DEF RemoveAdmission
  <2>17. CASE MatchOwner(p)
    <3>1. pc' \in [Proc -> {"fence", "lock", "idle", "failed"} \cup Inside]
      BY <2>17 DEF MatchOwner
    <3>a. out' \in [Proc -> {"ok", "no", "throw"}]
      BY <2>17 DEF MatchOwner
    <3>b. seen' \in [Proc -> SUBSET Supervisor]
      BY <2>17 DEF MatchOwner
    <3>2. UNCHANGED <<alive, job, guard, steals, owners, role, admission, admitted, fresh, fence, readFence, fences>>
      BY <2>17 DEF MatchOwner
    <3> QED
      BY <3>1, <3>2, <3>a, <3>b
  <2>18. CASE WriteFence(p)
    BY <2>18 DEF WriteFence
  <2>19. CASE Crash(p)
    <3>1. fresh' \in [Updater -> BOOLEAN]
      BY <2>19, Zenon DEF Crash
    <3>2. /\ role' \in [Supervisor -> {"none", "owner", "leaving", "released"}]
          /\ admitted' \in [Updater -> {"no", "held", "lost", "released"}]
          /\ readFence' \in [Supervisor -> 0 .. MaxFences]
      BY <2>19 DEF Crash
    <3>3. /\ alive' \subseteq Proc
          /\ pc' \in [Proc -> {"fence", "lock", "idle", "failed"} \cup Inside]
          /\ job' \in [Proc -> Jobs]
          /\ out' \in [Proc -> {"ok", "no", "throw"}]
          /\ seen' \in [Proc -> SUBSET Supervisor]
      BY <2>19 DEF Crash
    <3>4. UNCHANGED <<guard, steals, owners, admission, fence, fences>>
      BY <2>19 DEF Crash
    <3> QED
      BY <3>1, <3>2, <3>3, <3>4
  <2>20. ASSUME NEW d \in Supervisor, ScanOwner(p, d)
        PROVE  TypeOK'
    BY <2>20 DEF ScanOwner
  <2> QED
    BY <1>2, <2>1, <2>2, <2>3, <2>4, <2>5, <2>6, <2>7, <2>8, <2>9, <2>10, <2>11, <2>12, <2>13, <2>14, <2>15, <2>16, <2>17, <2>18, <2>19, <2>20 DEF Step
<1>3. ASSUME NEW p \in Supervisor, Release(p)
      PROVE  TypeOK'
  BY <1>3 DEF Release
<1>4. ASSUME NEW p \in Updater, Renew(p)
      PROVE  TypeOK'
  BY <1>4 DEF Renew
<1>5. ASSUME NEW p \in Updater, Drop(p)
      PROVE  TypeOK'
  <2>1. admitted' \in [Updater -> {"no", "held", "lost", "released"}]
    BY <1>5 DEF Drop
  <2>2. pc' \in [Proc -> {"fence", "lock", "idle", "failed"} \cup Inside] /\ job' \in [Proc -> Jobs]
    BY <1>5 DEF Drop
  <2>3. UNCHANGED <<alive, out, guard, steals, seen, owners, role, admission, fresh, fence, readFence, fences>>
    BY <1>5 DEF Drop
  <2> QED
    BY <2>1, <2>2, <2>3
<1>6. ASSUME NEW p \in Updater, Persist(p)
      PROVE  TypeOK'
  BY <1>6 DEF Persist
<1>7. ASSUME NEW p \in Updater, Elapse(p)
      PROVE  TypeOK'
  BY <1>7 DEF Elapse
<1> QED
  BY <1>1, <1>2, <1>3, <1>4, <1>5, <1>6, <1>7 DEF Next

(* Every step keeps the calls with the processes that make them.            *)
LEMMA CallStep ==
    ASSUME TypeOK, JobsFit, CallsFitAdmission, [Next]_vars
    PROVE  JobsFit' /\ CallsFitAdmission'
<1> DEFINE Goal == JobsFit' /\ CallsFitAdmission'
<1> USE OwnershipAssumption DEF TypeOK, JobsFit, CallsFitAdmission, disk, objects, Move, Return, At, AfterRenewal
<1>1. CASE UNCHANGED vars
  BY <1>1 DEF vars, disk, objects
<1>2. ASSUME NEW p \in Proc, Step(p) \/ LockFails(p) \/ Crash(p)
      PROVE  Goal
  <2>1. CASE Lock(p)
    BY <2>1 DEF Lock
  <2>2. CASE LockFails(p)
    BY <2>2 DEF LockFails, Refused
  <2>3. CASE Finish(p)
    BY <2>3, SMTT(30) DEF Finish, Outcome
  <2>4. CASE ReadFence(p)
    BY <2>4, SMTT(30) DEF ReadFence
  <2>5. CASE ClearFence(p)
    BY <2>5 DEF ClearFence
  <2>6. CASE RemoveFence(p)
    BY <2>6 DEF RemoveFence
  <2>7. CASE ReadActiveShutdownAdmission(p)
    BY <2>7, SMTT(30) DEF ReadActiveShutdownAdmission
  <2>8. CASE Purge(p)
    BY <2>8 DEF Purge
  <2>9. CASE ListOwners(p)
    BY <2>9 DEF ListOwners
  <2>10. CASE Publish(p)
    BY <2>10 DEF Publish
  <2>11. CASE ReleaseOwner(p)
    BY <2>11 DEF ReleaseOwner
  <2>12. CASE RemoveOwner(p)
    BY <2>12 DEF RemoveOwner
  <2>13. CASE WriteAdmission(p)
    BY <2>13 DEF WriteAdmission
  <2>14. CASE RenewUnderGuard(p)
    BY <2>14 DEF RenewUnderGuard
  <2>15. CASE DropAdmission(p)
    BY <2>15 DEF DropAdmission
  <2>16. CASE RemoveAdmission(p)
    BY <2>16 DEF RemoveAdmission
  <2>17. CASE MatchOwner(p)
    BY <2>17, SMTT(30) DEF MatchOwner
  <2>18. CASE WriteFence(p)
    BY <2>18 DEF WriteFence
  <2>19. CASE Crash(p)
    BY <2>19 DEF Crash
  <2>20. ASSUME NEW d \in Supervisor, ScanOwner(p, d)
        PROVE  Goal
    BY <2>20 DEF ScanOwner
  <2> QED
    BY <1>2, <2>1, <2>2, <2>3, <2>4, <2>5, <2>6, <2>7, <2>8, <2>9, <2>10, <2>11, <2>12, <2>13, <2>14, <2>15, <2>16, <2>17, <2>18, <2>19, <2>20 DEF Step
<1>3. ASSUME NEW p \in Supervisor, Release(p)
      PROVE  Goal
  BY <1>3 DEF Release
<1>4. ASSUME NEW p \in Updater, Renew(p)
      PROVE  Goal
  BY <1>4 DEF Renew
<1>5. ASSUME NEW p \in Updater, Drop(p)
      PROVE  Goal
  BY <1>5 DEF Drop
<1>6. ASSUME NEW p \in Updater, Persist(p)
      PROVE  Goal
  BY <1>6 DEF Persist
<1>7. ASSUME NEW p \in Updater, Elapse(p)
      PROVE  Goal
  BY <1>7 DEF Elapse
<1> QED
  BY <1>1, <1>2, <1>3, <1>4, <1>5, <1>6, <1>7 DEF Next

(* Every step keeps owners apart and their records on disk.                 *)
LEMMA OwnershipStep ==
    ASSUME OwnershipInv, [Next]_vars
    PROVE  OwnerOnDisk' /\ CandidateOnDisk' /\ ScanCoversOwners' /\ OwnersExclusive'
<1> DEFINE Goal == OwnerOnDisk' /\ CandidateOnDisk' /\ ScanCoversOwners' /\ OwnersExclusive'
<1> USE OwnershipAssumption DEF OwnershipInv, TypeOK, JobsFit, CallsFitAdmission, OwnerOnDisk, CandidateOnDisk, ScanCoversOwners,
        OwnersExclusive, OwnerConflicts, GuardStolen, IsProcessIdentityAlive, disk, objects, Move, Return, At, AfterRenewal
<1>1. CASE UNCHANGED vars
  BY <1>1 DEF vars, disk, objects
<1>2. ASSUME NEW p \in Proc, Step(p) \/ LockFails(p) \/ Crash(p)
      PROVE  Goal
  <2>1. CASE Lock(p)
    BY <2>1 DEF Lock
  <2>2. CASE LockFails(p)
    BY <2>2 DEF LockFails, Refused
  <2>3. CASE Finish(p)
    BY <2>3, SMTT(30) DEF Finish, Outcome
  <2>4. CASE ReadFence(p)
    BY <2>4, SMTT(30) DEF ReadFence
  <2>5. CASE ClearFence(p)
    BY <2>5 DEF ClearFence
  <2>6. CASE RemoveFence(p)
    BY <2>6 DEF RemoveFence
  <2>7. CASE ReadActiveShutdownAdmission(p)
    BY <2>7, SMTT(30) DEF ReadActiveShutdownAdmission
  <2>8. CASE Purge(p)
    BY <2>8 DEF Purge
  <2>9. CASE ListOwners(p)
    BY <2>9 DEF ListOwners
  <2>10. CASE Publish(p)
    BY <2>10 DEF Publish
  <2>11. CASE ReleaseOwner(p)
    BY <2>11 DEF ReleaseOwner
  <2>12. CASE RemoveOwner(p)
    BY <2>12 DEF RemoveOwner
  <2>13. CASE WriteAdmission(p)
    BY <2>13 DEF WriteAdmission
  <2>14. CASE RenewUnderGuard(p)
    BY <2>14 DEF RenewUnderGuard
  <2>15. CASE DropAdmission(p)
    BY <2>15 DEF DropAdmission
  <2>16. CASE RemoveAdmission(p)
    BY <2>16 DEF RemoveAdmission
  <2>17. CASE MatchOwner(p)
    BY <2>17, SMTT(30) DEF MatchOwner
  <2>18. CASE WriteFence(p)
    BY <2>18 DEF WriteFence
  <2>19. CASE Crash(p)
    BY <2>19 DEF Crash
  <2>20. ASSUME NEW d \in Supervisor, ScanOwner(p, d)
        PROVE  Goal
    BY <2>20 DEF ScanOwner
  <2> QED
    BY <1>2, <2>1, <2>2, <2>3, <2>4, <2>5, <2>6, <2>7, <2>8, <2>9, <2>10, <2>11, <2>12, <2>13, <2>14, <2>15, <2>16, <2>17, <2>18, <2>19, <2>20 DEF Step
<1>3. ASSUME NEW p \in Supervisor, Release(p)
      PROVE  Goal
  BY <1>3 DEF Release
<1>4. ASSUME NEW p \in Updater, Renew(p)
      PROVE  Goal
  BY <1>4 DEF Renew
<1>5. ASSUME NEW p \in Updater, Drop(p)
      PROVE  Goal
  BY <1>5 DEF Drop
<1>6. ASSUME NEW p \in Updater, Persist(p)
      PROVE  Goal
  BY <1>6 DEF Persist
<1>7. ASSUME NEW p \in Updater, Elapse(p)
      PROVE  Goal
  BY <1>7 DEF Elapse
<1> QED
  BY <1>1, <1>2, <1>3, <1>4, <1>5, <1>6, <1>7 DEF Next

(* Without steals, every step keeps what the guard makes of the admission. *)
LEMMA AdmissionStep ==
    ASSUME AdmissionInv, [Next]_vars
    PROVE  (steals = 0 => GuardExcludes /\ HeldIsOnDisk /\ AdmissionStepsAgree)'
<1> DEFINE Goal == (steals = 0 => GuardExcludes /\ HeldIsOnDisk /\ AdmissionStepsAgree)'
<1> USE OwnershipAssumption DEF AdmissionInv, TypeOK, JobsFit, CallsFitAdmission, GuardExcludes, HeldIsOnDisk, AdmissionStepsAgree,
        ShutdownAdmissionIsActive, GuardStolen, IsProcessIdentityAlive, disk, objects, Move, Return, At, AfterRenewal
<1>1. CASE UNCHANGED vars
  BY <1>1 DEF vars, disk, objects
<1>2. ASSUME NEW p \in Proc, Step(p) \/ LockFails(p) \/ Crash(p)
      PROVE  Goal
  <2>1. CASE Lock(p)
    BY <2>1 DEF Lock
  <2>2. CASE LockFails(p)
    BY <2>2 DEF LockFails, Refused
  <2>3. CASE Finish(p)
    BY <2>3, SMTT(30) DEF Finish, Outcome
  <2>4. CASE ReadFence(p)
    BY <2>4, SMTT(30) DEF ReadFence
  <2>5. CASE ClearFence(p)
    BY <2>5 DEF ClearFence
  <2>6. CASE RemoveFence(p)
    BY <2>6 DEF RemoveFence
  <2>7. CASE ReadActiveShutdownAdmission(p)
    BY <2>7, SMTT(30) DEF ReadActiveShutdownAdmission
  <2>8. CASE Purge(p)
    BY <2>8 DEF Purge
  <2>9. CASE ListOwners(p)
    BY <2>9 DEF ListOwners
  <2>10. CASE Publish(p)
    BY <2>10 DEF Publish
  <2>11. CASE ReleaseOwner(p)
    BY <2>11 DEF ReleaseOwner
  <2>12. CASE RemoveOwner(p)
    BY <2>12 DEF RemoveOwner
  <2>13. CASE WriteAdmission(p)
    BY <2>13 DEF WriteAdmission
  <2>14. CASE RenewUnderGuard(p)
    BY <2>14 DEF RenewUnderGuard
  <2>15. CASE DropAdmission(p)
    BY <2>15 DEF DropAdmission
  <2>16. CASE RemoveAdmission(p)
    BY <2>16 DEF RemoveAdmission
  <2>17. CASE MatchOwner(p)
    BY <2>17, SMTT(30) DEF MatchOwner
  <2>18. CASE WriteFence(p)
    BY <2>18 DEF WriteFence
  <2>19. CASE Crash(p)
    <3>1. ASSUME NEW u \in Updater, u # p
          PROVE  fresh'[u] = fresh[u] /\ admitted'[u] = admitted[u]
      BY <2>19, <3>1, Zenon DEF Crash
    <3>2. p \notin alive' /\ alive' \subseteq alive /\ UNCHANGED <<guard, steals, admission>>
      BY <2>19 DEF Crash
    <3>3. \A q \in alive' : pc'[q] = pc[q] /\ job'[q] = job[q] /\ out'[q] = out[q]
      BY <2>19 DEF Crash
    <3>4. ASSUME ~ShutdownAdmissionIsActive PROVE ~ShutdownAdmissionIsActive'
      BY <3>1, <3>2, <3>4
    <3> QED
      BY <3>1, <3>2, <3>3, <3>4
  <2>20. ASSUME NEW d \in Supervisor, ScanOwner(p, d)
        PROVE  Goal
    BY <2>20 DEF ScanOwner
  <2> QED
    BY <1>2, <2>1, <2>2, <2>3, <2>4, <2>5, <2>6, <2>7, <2>8, <2>9, <2>10, <2>11, <2>12, <2>13, <2>14, <2>15, <2>16, <2>17, <2>18, <2>19, <2>20 DEF Step
<1>3. ASSUME NEW p \in Supervisor, Release(p)
      PROVE  Goal
  BY <1>3 DEF Release
<1>4. ASSUME NEW p \in Updater, Renew(p)
      PROVE  Goal
  BY <1>4 DEF Renew
<1>5. ASSUME NEW p \in Updater, Drop(p)
      PROVE  Goal
  BY <1>5 DEF Drop
<1>6. ASSUME NEW p \in Updater, Persist(p)
      PROVE  Goal
  BY <1>6 DEF Persist
<1>7. ASSUME NEW p \in Updater, Elapse(p)
      PROVE  Goal
  BY <1>7 DEF Elapse
<1> QED
  BY <1>1, <1>2, <1>3, <1>4, <1>5, <1>6, <1>7 DEF Next

(* The initial state: nothing on disk and nobody inside the guard.         *)
LEMMA InitHolds == Init => OwnershipInv /\ AdmissionInv
<1> SUFFICES ASSUME Init PROVE OwnershipInv /\ AdmissionInv
  OBVIOUS
<1> USE OwnershipAssumption DEF Init
<1>1. fresh \in [Updater -> BOOLEAN]
  BY Zenon
<1>2. TypeOK
  BY <1>1 DEF TypeOK
<1>3. JobsFit /\ CallsFitAdmission
  BY DEF JobsFit, CallsFitAdmission
<1>4. OwnerOnDisk /\ CandidateOnDisk /\ ScanCoversOwners /\ OwnersExclusive
  BY DEF OwnerOnDisk, CandidateOnDisk, ScanCoversOwners, OwnersExclusive
<1>5. GuardExcludes /\ HeldIsOnDisk /\ AdmissionStepsAgree
  BY DEF GuardExcludes, HeldIsOnDisk, AdmissionStepsAgree
<1> QED
  BY <1>2, <1>3, <1>4, <1>5 DEF OwnershipInv, AdmissionInv

(* The inductive invariant behind exclusion: a conflicting live owner is   *)
(* always still ahead of the scan of whoever has the guard, and the check  *)
(* of the guard after the action fails whoever was overtaken.              *)
THEOREM OwnershipInvariant == Spec => []OwnershipInv
<1>1. OwnershipInv /\ [Next]_vars => OwnershipInv'
  <2> SUFFICES ASSUME OwnershipInv, [Next]_vars PROVE OwnershipInv'
    OBVIOUS
  <2>1. TypeOK' /\ JobsFit' /\ CallsFitAdmission'
    BY TypeStep, CallStep DEF OwnershipInv
  <2> QED
    BY <2>1, OwnershipStep DEF OwnershipInv
<1> QED
  BY <1>1, InitHolds, PTL DEF Spec

(* The registry's variables keep their types, whatever is stolen.          *)
THEOREM RegistryTypeCorrect == Spec => []TypeOK
<1>1. OwnershipInv => TypeOK
  BY DEF OwnershipInv
<1> QED
  BY <1>1, OwnershipInvariant, PTL

(* acquireDaemonSupervisorOwnership makes at most one of two conflicting   *)
(* supervisors owner, for any number of processes, crashes and guards      *)
(* taken from stalled holders.                                             *)
THEOREM ConflictingOwnersExcluded == Spec => []OwnersExclusive
<1>1. OwnershipInv => OwnersExclusive
  BY DEF OwnershipInv
<1> QED
  BY <1>1, OwnershipInvariant, PTL

(* Nobody but its owner removes the record of a live owner, however old    *)
(* the listing is that a reclaiming supervisor works from.                 *)
THEOREM OwnerStaysOnDisk == Spec => []OwnerOnDisk
<1>1. OwnershipInv => OwnerOnDisk
  BY DEF OwnershipInv
<1> QED
  BY <1>1, OwnershipInvariant, PTL

(* The inductive invariant of the shutdown admission: while no guard is    *)
(* stolen, a held and fresh admission is the record on disk, and what a    *)
(* process inside the guard has read of that record is still true.         *)
THEOREM AdmissionInvariant == Spec => []AdmissionInv
<1>1. AdmissionInv /\ [Next]_vars => AdmissionInv'
  <2> SUFFICES ASSUME AdmissionInv, [Next]_vars PROVE AdmissionInv'
    OBVIOUS
  <2>1. TypeOK' /\ JobsFit' /\ CallsFitAdmission'
    BY TypeStep, CallStep DEF AdmissionInv
  <2> QED
    BY <2>1, AdmissionStep DEF AdmissionInv
<1> QED
  BY <1>1, InitHolds, PTL DEF Spec

(* Two updaters never both hold an admission whose lease has not elapsed,  *)
(* although performRenew re-arms elapsed leases.                           *)
THEOREM FreshAdmissionIsSingle == Spec => []OneFreshAdmission
<1>1. AdmissionInv => OneFreshAdmission
  BY DEF AdmissionInv, OneFreshAdmission, HeldIsOnDisk
<1> QED
  BY <1>1, AdmissionInvariant, PTL

(* A released admission is not armed again: performRenew looks at stopped  *)
(* inside the guard, and stop cannot come between that and the write.      *)
THEOREM ReleasedStaysDown == Spec => StoppedNeverRewritten
<1> DEFINE Kept(u) == admitted[u] = "released" /\ ~fresh[u] => ~fresh'[u]
<1>1. AdmissionInv /\ [Next]_vars => [\A u \in Updater : Kept(u)]_vars
  <2> SUFFICES ASSUME AdmissionInv, Next, NEW u \in Updater, admitted[u] = "released", ~fresh[u]
               PROVE  ~fresh'[u]
    OBVIOUS
  <2> USE OwnershipAssumption DEF AdmissionInv, TypeOK, JobsFit, CallsFitAdmission, disk, objects, Move, Return, At,
          AfterRenewal
  <2>1. ASSUME NEW p \in Proc, WriteAdmission(p) PROVE ~fresh'[u]
    <3>1. p # u
      BY <2>1 DEF WriteAdmission
    <3> QED
      BY <2>1, <3>1 DEF WriteAdmission
  <2>2. ASSUME NEW p \in Proc, Crash(p) PROVE ~fresh'[u]
    BY <2>2, Zenon DEF Crash
  <2>3. ASSUME NEW t \in Updater, Elapse(t) PROVE ~fresh'[u]
    BY <2>3 DEF Elapse
  <2>4. ASSUME NEW t \in Updater, Renew(t) \/ Drop(t) \/ Persist(t) PROVE UNCHANGED fresh
    BY <2>4 DEF Renew, Drop, Persist
  <2>5. ASSUME NEW t \in Supervisor, Release(t) PROVE UNCHANGED fresh
    BY <2>5 DEF Release
  <2>6. ASSUME NEW p \in Proc, Step(p) \/ LockFails(p), ~WriteAdmission(p) PROVE UNCHANGED fresh
    BY <2>6 DEF Step, Lock, LockFails, Finish, Outcome, ReadFence, ClearFence, RemoveFence, ReadActiveShutdownAdmission,
       Purge, ListOwners, Publish, ScanOwner, ReleaseOwner, RemoveOwner, RenewUnderGuard,
       DropAdmission, RemoveAdmission, MatchOwner, WriteFence
  <2> QED
    BY <2>1, <2>2, <2>3, <2>4, <2>5, <2>6 DEF Next
<1> QED
  BY <1>1, AdmissionInvariant, PTL DEF Spec, StoppedNeverRewritten

(* No supervisor becomes owner under a held and fresh admission: the       *)
(* admission it found missing or purged is still missing when it finishes. *)
THEOREM NoOwnerUnderAdmission == Spec => NoStartDuringShutdown
<1> DEFINE Started(s) == steals = 0 /\ role[s] # "owner" /\ role'[s] = "owner"
           Admitted == \E u \in Updater \cap alive : admitted[u] = "held" /\ fresh[u]
<1>1. AdmissionInv /\ [Next]_vars => [\A s \in Supervisor : Started(s) => ~Admitted]_vars
  <2> SUFFICES ASSUME AdmissionInv, Next, NEW s \in Supervisor, Started(s)
               PROVE  ~Admitted
    OBVIOUS
  <2> USE OwnershipAssumption DEF AdmissionInv, TypeOK, JobsFit, disk, objects, Move, Return, At, AfterRenewal
  <2>1. Finish(s) /\ job[s] = "own"
    <3>1. \A p \in Proc : Crash(p) => role'[s] # "owner" \/ role[s] = "owner"
      BY DEF Crash
    <3>2. \A u \in Updater : Renew(u) \/ Drop(u) \/ Persist(u) \/ Elapse(u) => UNCHANGED role
      BY DEF Renew, Drop, Persist, Elapse
    <3>3. \A t \in Supervisor : Release(t) => role'[s] # "owner" \/ role[s] = "owner"
      BY DEF Release
    <3>4. ASSUME NEW p \in Proc, Step(p) \/ LockFails(p), ~Finish(p)
          PROVE  role'[s] # "owner" \/ role[s] = "owner"
      BY <3>4 DEF Step, Lock, LockFails, ReadFence, ClearFence, RemoveFence, ReadActiveShutdownAdmission,
         Purge, ListOwners, Publish, ScanOwner, ReleaseOwner, RemoveOwner, WriteAdmission, RenewUnderGuard,
         DropAdmission, RemoveAdmission, MatchOwner, WriteFence
    <3>5. PICK p \in Proc : Finish(p)
      BY <3>1, <3>2, <3>3, <3>4 DEF Next
    <3>6. job[p] = "own"
      BY <3>5 DEF Finish, Outcome
    <3>7. p \in Supervisor /\ \E r : role' = [role EXCEPT ![p] = r]
      BY <3>5, <3>6 DEF Finish, Outcome, SupervisorJobs, UpdaterJobs
    <3>8. p = s
      BY <3>7
    <3> QED
      BY <3>5, <3>6, <3>8
  <2>2. admission = None
    BY <2>1 DEF Finish, Outcome, GuardStolen, AdmissionStepsAgree
  <2> QED
    BY <2>2 DEF HeldIsOnDisk
<1> QED
  BY <1>1, AdmissionInvariant, PTL DEF Spec, NoStartDuringShutdown
====
