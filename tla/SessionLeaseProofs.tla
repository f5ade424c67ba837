---- MODULE SessionLeaseProofs ----
(***************************************************************************)
(* Mutual exclusion of the session lease, for any set of processes, pids   *)
(* and start identities, as long as nobody spends the guard's stale time   *)
(* inside the guarded action.                                              *)
(***************************************************************************)
EXTENDS SessionLease, TLAPS

\* What the guard and the token comparison maintain between the file system
\* calls of the processes.
GuardIsHeld ==
    \A p \in Proc : pc[p] \in Guarded => Alive(p) /\ guard = p /\ ~stale

HolderIsIdle ==
    \A p \in Proc : held[p] => Alive(p) /\ pc[p] = "idle"

TokensAreOwn ==
    /\ \A p \in Proc : tok[p] # None => tok[p][1] = p
    /\ dir # None => phase[dir[1]] # "unborn"

StepsAgreeWithDisk ==
    \A p \in Proc :
        /\ pc[p] = "granted" => dir # None /\ dir = tok[p]
        /\ pc[p] = "remove" => dir # None /\ dir = tok[p]
        /\ pc[p] = "check" => seen[p] = dir
        /\ pc[p] = "reclaim" /\ dir # None => ~Alive(dir[1])

AttemptsLeft ==
    \A p \in Proc :
        /\ pc[p] \in {"idle", "lock"} => attempt[p] = 0
        /\ pc[p] \in {"rename", "read", "check", "reclaim"} => attempt[p] < MaxAttempts
        /\ pc[p] \in {"relock", "reread", "remove"} => attempt[p] = 0

LeaseInv ==
    /\ TypeOK
    /\ AttemptsLeft
    /\ GuardIsHeld
    /\ HolderIsIdle
    /\ HolderOnDisk
    /\ TokensAreOwn
    /\ StepsAgreeWithDisk

USE DEF Acquiring, Releasing, Leaving, Guarded, Alive, MaxAttempts

\* The initial state has the types.
LEMMA InitTypeCorrect == Init => TypeOK /\ AttemptsLeft
<1> SUFFICES ASSUME Init PROVE TypeOK /\ AttemptsLeft
  OBVIOUS
<1>1. held \in [Proc -> BOOLEAN]
  BY Zenon DEF Init
<1>2. stale \in BOOLEAN
  BY Zenon DEF Init
<1>3. 0 \in 0..MaxAttempts /\ 0 \in 0..MaxGrants
  BY LeaseAssumption
<1>4. AttemptsLeft
  BY DEF Init, AttemptsLeft
<1> QED
  BY <1>1, <1>2, <1>3, <1>4 DEF Init, TypeOK

\* Every step keeps the variables in their types.
LEMMA TypeStep ==
    ASSUME TypeOK, AttemptsLeft, [Next]_vars
    PROVE  TypeOK' /\ AttemptsLeft'
<1> USE LeaseAssumption DEF TypeOK, Token, AttemptsLeft
<1>1. CASE UNCHANGED vars
  BY <1>1 DEF vars
<1>2. CASE GuardExpires
  BY <1>2 DEF GuardExpires
<1>3. ASSUME NEW p \in Proc,
             Start(p) \/ Crash(p) \/ BeginAcquire(p) \/ BeginRelease(p)
      PROVE  TypeOK' /\ AttemptsLeft'
  <2>1. held' \in [Proc -> BOOLEAN]
    BY <1>3, Zenon DEF Start, Crash, BeginAcquire, BeginRelease
  <2>2. CASE Start(p) \/ BeginAcquire(p)
    BY <2>2 DEF Start, BeginAcquire
  <2>3. CASE Crash(p)
    BY <2>1, <2>3 DEF Crash
  <2>4. CASE BeginRelease(p)
    BY <2>1, <2>4 DEF BeginRelease
  <2> QED
    BY <1>3, <2>2, <2>3, <2>4
<1>4. ASSUME NEW p \in Proc, Step(p)
      PROVE  TypeOK' /\ AttemptsLeft'
  <2>1. CASE TakeGuard(p, "lock", "rename") \/ TakeGuard(p, "relock", "reread")
    <3>1. stale' \in BOOLEAN /\ guard' \in Proc \cup {None} /\ pc' \in [Proc -> {"idle"} \cup Acquiring \cup Releasing \cup Leaving]
      BY <2>1 DEF TakeGuard
    <3> QED
      BY <2>1, <3>1 DEF TakeGuard
  <2>2. CASE GuardUnavailable(p)
    BY <2>2 DEF GuardUnavailable
  <2>10. CASE DropGuard(p)
    <3>1. held' \in [Proc -> BOOLEAN]
      <4>1. (pc[p] = "granted") \in BOOLEAN
        OBVIOUS
      <4> QED
        BY <2>10, <4>1, Zenon DEF DropGuard
    <3>2. stale' \in BOOLEAN
      BY <2>10, Zenon DEF DropGuard
    <3>3. tok' \in [Proc -> Token \cup {None}]
      BY <2>10 DEF DropGuard
    <3>4. guard' \in Proc \cup {None}
      BY <2>10, Zenon DEF DropGuard
    <3>5. /\ pc' \in [Proc -> {"idle"} \cup Acquiring \cup Releasing \cup Leaving]
          /\ attempt' \in [Proc -> 0..MaxAttempts]
          /\ AttemptsLeft'
      BY <2>10 DEF DropGuard
    <3>6. UNCHANGED <<phase, dir, seen, grants>>
      BY <2>10, Zenon DEF DropGuard
    <3> QED
      BY <3>1, <3>2, <3>3, <3>4, <3>5, <3>6
  <2>3. CASE Rename(p)
    <3>1. grants[p] + 1 \in 1..MaxGrants
      BY <2>3 DEF Rename
    <3>2. <<p, grants[p] + 1>> \in Proc \X (1..MaxGrants)
      BY <3>1
    <3> QED
      BY <2>3, <3>1, <3>2 DEF Rename
  <2>4. CASE RenameContention(p)
    BY <2>4 DEF RenameContention
  <2>5. CASE RenameFails(p)
    BY <2>5 DEF RenameFails, NextAttempt
  <2>6. CASE ReadOwner(p)
    BY <2>6 DEF ReadOwner, NextAttempt
  <2>7. CASE CheckOwner(p)
    BY <2>7 DEF CheckOwner
  <2>8. CASE Reclaim(p)
    BY <2>8 DEF Reclaim, NextAttempt
  <2>9. CASE RereadOwner(p) \/ RemoveOwn(p)
    BY <2>9 DEF RereadOwner, RemoveOwn
  <2> QED
    BY <1>4, <2>1, <2>2, <2>3, <2>4, <2>5, <2>6, <2>7, <2>8, <2>9, <2>10 DEF Step
<1> QED
  BY <1>1, <1>2, <1>3, <1>4 DEF Next

\* A process whose pid is probed while it is alive is found alive, so an owner
\* that isLeaseOwnerAlive rejects is gone.
LEMMA RejectedOwnerIsGone ==
    ASSUME NEW o \in Proc, NEW queried \in BOOLEAN, ~IsLeaseOwnerAlive(o, queried)
    PROVE  ~Alive(o)
BY DEF IsLeaseOwnerAlive

\* Every step keeps the parts of the invariant that tie the processes to the
\* guard and to the directory.
LEMMA LeaseStep ==
    ASSUME GuardCanExpire = FALSE, LeaseInv, TypeOK', [Next]_vars
    PROVE  /\ GuardIsHeld' /\ HolderIsIdle' /\ HolderOnDisk'
           /\ TokensAreOwn' /\ StepsAgreeWithDisk'
<1> DEFINE Goal == /\ GuardIsHeld' /\ HolderIsIdle' /\ HolderOnDisk'
                   /\ TokensAreOwn' /\ StepsAgreeWithDisk'
<1> USE LeaseAssumption DEF LeaseInv, TypeOK, Token, GuardIsHeld, HolderIsIdle, HolderOnDisk,
        TokensAreOwn, StepsAgreeWithDisk
<1>1. CASE UNCHANGED vars
  BY <1>1 DEF vars
<1>2. CASE GuardExpires
  BY <1>2 DEF GuardExpires
<1>3. ASSUME NEW p \in Proc, Start(p)
      PROVE  Goal
  BY <1>3 DEF Start
<1>4. ASSUME NEW p \in Proc, Crash(p)
      PROVE  Goal
  BY <1>4 DEF Crash
<1>5. ASSUME NEW p \in Proc, BeginAcquire(p) \/ BeginRelease(p)
      PROVE  Goal
  BY <1>5 DEF BeginAcquire, BeginRelease
<1>6. ASSUME NEW p \in Proc, Step(p)
      PROVE  Goal
  <2>1. CASE TakeGuard(p, "lock", "rename") \/ TakeGuard(p, "relock", "reread")
    BY <2>1 DEF TakeGuard
  <2>2. CASE GuardUnavailable(p)
    BY <2>2 DEF GuardUnavailable
  <2>3. CASE DropGuard(p)
    BY <2>3 DEF DropGuard
  <2>4. CASE Rename(p)
    BY <2>4 DEF Rename
  <2>5. CASE RenameContention(p)
    BY <2>5 DEF RenameContention
  <2>6. CASE ReadOwner(p)
    BY <2>6 DEF ReadOwner, NextAttempt
  <2>7. CASE CheckOwner(p)
    <3>1. PICK queried \in BOOLEAN :
             pc' = [pc EXCEPT ![p] =
                      IF seen[p] # None /\ IsLeaseOwnerAlive(seen[p][1], queried)
                      THEN "refused" ELSE "reclaim"]
      BY <2>7 DEF CheckOwner
    <3>2. ASSUME pc'[p] = "reclaim", dir # None
          PROVE  ~Alive(dir[1])
      <4>1. seen[p] = dir /\ dir[1] \in Proc
        BY <2>7, <3>2 DEF CheckOwner
      <4>2. ~IsLeaseOwnerAlive(dir[1], queried)
        BY <3>1, <3>2, <4>1
      <4> QED
        BY <4>1, <4>2, RejectedOwnerIsGone
    <3> QED
      BY <2>7, <3>1, <3>2 DEF CheckOwner
  <2>8. CASE Reclaim(p)
    BY <2>8 DEF Reclaim, NextAttempt
  <2>9. CASE RereadOwner(p)
    BY <2>9 DEF RereadOwner
  <2>10. CASE RemoveOwn(p)
    BY <2>10 DEF RemoveOwn
  <2>11. CASE RenameFails(p)
    BY <2>11 DEF RenameFails, NextAttempt
  <2> QED
    BY <1>6, <2>1, <2>2, <2>3, <2>4, <2>5, <2>6, <2>7, <2>8, <2>9, <2>10, <2>11 DEF Step
<1> QED
  BY <1>1, <1>2, <1>3, <1>4, <1>5, <1>6 DEF Next

\* The lease variables keep their types whatever the guard does.
THEOREM LeaseTypeCorrect == Spec => []TypeOK
<1>1. Init => TypeOK /\ AttemptsLeft
  BY InitTypeCorrect
<1>2. TypeOK /\ AttemptsLeft /\ [Next]_vars => TypeOK' /\ AttemptsLeft'
  BY TypeStep
<1> QED
  BY <1>1, <1>2, PTL DEF Spec

\* The inductive invariant of acquire and release, when no live process is
\* overtaken inside the guard.
THEOREM LeaseInvariant ==
    ASSUME GuardCanExpire = FALSE
    PROVE  Spec => []LeaseInv
<1>1. Init => LeaseInv
  BY InitTypeCorrect DEF Init, LeaseInv, GuardIsHeld, HolderIsIdle,
     HolderOnDisk, TokensAreOwn, StepsAgreeWithDisk
<1>2. LeaseInv /\ [Next]_vars => LeaseInv'
  <2> SUFFICES ASSUME LeaseInv, [Next]_vars PROVE LeaseInv'
    OBVIOUS
  <2>1. TypeOK' /\ AttemptsLeft'
    BY TypeStep DEF LeaseInv
  <2> QED
    BY <2>1, LeaseStep DEF LeaseInv
<1> QED
  BY <1>1, <1>2, PTL DEF Spec

\* acquireSessionLease gives the session file to at most one live process at
\* a time: the directory names one token, a holder's token is the one it
\* names, and a token names its process.
THEOREM LeaseIsExclusive ==
    ASSUME GuardCanExpire = FALSE
    PROVE  Spec => []LeaseExclusive
<1>1. LeaseInv => LeaseExclusive
  BY DEF LeaseInv, LeaseExclusive, HolderOnDisk, TokensAreOwn
<1> QED
  BY <1>1, LeaseInvariant, PTL

\* A holder's directory stays in place until the holder releases it or dies.
THEOREM LeaseStaysOnDisk ==
    ASSUME GuardCanExpire = FALSE
    PROVE  Spec => []HolderOnDisk
<1>1. LeaseInv => HolderOnDisk
  BY DEF LeaseInv
<1> QED
  BY <1>1, LeaseInvariant, PTL
====
