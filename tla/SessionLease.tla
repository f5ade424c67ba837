---- MODULE SessionLease ----
(***************************************************************************)
(* The on-disk lease of one session file (core/session-lease.ts).          *)
(*                                                                         *)
(* A process that opens the session installs a directory holding           *)
(* owner.json at the lease path; a process that finds a directory there    *)
(* decides from the owner's pid and start identity whether the owner is    *)
(* still alive, and reclaims the directory when it is not.  Both           *)
(* acquireSessionLease and SessionLease.release run under a lock file, the *)
(* guard, whose holder is presumed gone once it is 5000 ms old.            *)
(*                                                                         *)
(* Each member of Proc is one incarnation of a process: it starts once and *)
(* dies once, and its pid may be that of an earlier incarnation.  The file *)
(* system calls are separate steps, because the guard can be taken from a  *)
(* holder between any two of them when GuardCanExpire is TRUE.             *)
(***************************************************************************)
EXTENDS Naturals

CONSTANTS
    Proc,            \* process incarnations
    Pid,             \* the pid of each incarnation
    StartId,         \* what getProcessStartId recorded for it, or NoStart
    NoStart,         \* getProcessStartId returned undefined
    None,            \* no process, no token, no directory
    MaxGrants,       \* bound: leases one incarnation may be granted
    GuardCanExpire   \* can 5000 ms pass inside a live holder's action?

(* The start identity is an optional field, a grant is counted, and None   *)
(* is neither a process nor a token.                                       *)
ASSUME LeaseAssumption ==
    /\ None \notin Proc
    /\ \A p \in Proc, n \in 1..MaxGrants : None # <<p, n>>
    /\ MaxGrants \in Nat
    /\ GuardCanExpire \in BOOLEAN

MaxAttempts == 3

VARIABLES
    phase,    \* "unborn", "alive" or "dead"
    pc,       \* where the process is inside acquire or release
    guard,    \* holder of the guard lock file, or None
    stale,    \* is the guard older than its stale time?
    dir,      \* token in owner.json at the lease path, or None
    tok,      \* token the process is installing, holding or releasing
    held,     \* does the process have an unreleased SessionLease object?
    attempt,  \* iterations of acquire's retry loop so far
    seen,     \* the token read from owner.json
    grants    \* leases granted to the process so far

vars == <<phase, pc, guard, stale, dir, tok, held, attempt, seen, grants>>

Acquiring == {"lock", "rename", "read", "check", "reclaim"}
Releasing == {"relock", "reread", "remove"}
Leaving == {"granted", "refused"}
(* Inside withLeaseGuard's action, or about to drop the guard.             *)
Guarded == (Acquiring \cup Releasing \cup Leaving) \ {"lock", "relock"}

Token == Proc \X (1..MaxGrants)

TypeOK ==
    /\ phase \in [Proc -> {"unborn", "alive", "dead"}]
    /\ pc \in [Proc -> {"idle"} \cup Acquiring \cup Releasing \cup Leaving]
    /\ guard \in Proc \cup {None}
    /\ stale \in BOOLEAN
    /\ dir \in Token \cup {None}
    /\ tok \in [Proc -> Token \cup {None}]
    /\ held \in [Proc -> BOOLEAN]
    /\ attempt \in [Proc -> 0..MaxAttempts]
    /\ seen \in [Proc -> Token \cup {None}]
    /\ grants \in [Proc -> 0..MaxGrants]

Init ==
    /\ phase = [p \in Proc |-> "unborn"]
    /\ pc = [p \in Proc |-> "idle"]
    /\ guard = None
    /\ stale = FALSE
    /\ dir = None
    /\ tok = [p \in Proc |-> None]
    /\ held = [p \in Proc |-> FALSE]
    /\ attempt = [p \in Proc |-> 0]
    /\ seen = [p \in Proc |-> None]
    /\ grants = [p \in Proc |-> 0]

Alive(p) == phase[p] = "alive"

(***************************************************************************)
(* The environment: processes start, reusing a pid only when its previous  *)
(* bearer is gone, and die anywhere; the guard grows old.                  *)
(***************************************************************************)
Start(p) ==
    /\ phase[p] = "unborn"
    /\ \A q \in Proc : Alive(q) => Pid[q] # Pid[p]
    /\ phase' = [phase EXCEPT ![p] = "alive"]
    /\ UNCHANGED <<pc, guard, stale, dir, tok, held, attempt, seen, grants>>

Crash(p) ==
    /\ Alive(p)
    /\ phase' = [phase EXCEPT ![p] = "dead"]
    /\ pc' = [pc EXCEPT ![p] = "idle"]
    /\ held' = [held EXCEPT ![p] = FALSE]
    /\ tok' = [tok EXCEPT ![p] = None]
    /\ seen' = [seen EXCEPT ![p] = None]
    /\ attempt' = [attempt EXCEPT ![p] = 0]
    /\ UNCHANGED <<guard, stale, dir, grants>>

(* The holder refreshes the lock file from a timer, and withLeaseGuard is  *)
(* synchronous, so the timer never runs before the action returns: the     *)
(* guard of a dead process, of one that failed to remove it, and of one    *)
(* that spends 5000 ms inside the action all go stale.                     *)
GuardExpires ==
    /\ guard # None
    /\ ~stale
    /\ (Alive(guard) /\ pc[guard] \in Guarded) => GuardCanExpire
    /\ stale' = TRUE
    /\ UNCHANGED <<phase, pc, guard, dir, tok, held, attempt, seen, grants>>

(***************************************************************************)
(* Deciding whether an owner is alive.                                     *)
(***************************************************************************)
\* isLeaseOwnerAlive.  queried: getProcessStartId(owner.pid) gave an answer.
IsLeaseOwnerAlive(owner, queried) ==
    \E q \in Proc :
        /\ Alive(q)
        /\ Pid[q] = Pid[owner]
        /\ \/ StartId[owner] = NoStart
           \/ ~queried
           \/ StartId[q] = NoStart
           \/ StartId[q] = StartId[owner]

(***************************************************************************)
(* Faulty variants, used to show that the properties can fail.             *)
(***************************************************************************)
\* An unreadable owner is taken for an absent one and reclaimed.
HastyReadOwner(p) ==
    /\ Alive(p) /\ pc[p] = "read"
    /\ \/ seen' = [seen EXCEPT ![p] = dir]
       \/ seen' = [seen EXCEPT ![p] = None]
    /\ pc' = [pc EXCEPT ![p] = "check"]
    /\ UNCHANGED <<phase, guard, stale, dir, tok, held, attempt, grants>>

\* The retry counter is reset with every attempt.
EndlessNextAttempt(p) ==
    /\ attempt' = [attempt EXCEPT ![p] = 0]
    /\ pc' = [pc EXCEPT ![p] = "rename"]

\* The retry budget is compared with the wrong bound.
GenerousNextAttempt(p) ==
    /\ attempt' = [attempt EXCEPT ![p] = @ + 1]
    /\ pc' = [pc EXCEPT ![p] = IF attempt[p] <= MaxAttempts THEN "rename" ELSE "refused"]

\* The token installed is not the one the SessionLease object keeps.
MislabelledRename(p) ==
    /\ Alive(p) /\ pc[p] = "rename"
    /\ dir = None
    /\ grants[p] < MaxGrants
    /\ grants' = [grants EXCEPT ![p] = @ + 1]
    /\ dir' = <<p, grants[p]>>
    /\ tok' = [tok EXCEPT ![p] = <<p, grants[p] + 1>>]
    /\ pc' = [pc EXCEPT ![p] = "granted"]
    /\ UNCHANGED <<phase, guard, stale, held, attempt, seen>>

(***************************************************************************)
(* withLeaseGuard                                                          *)
(***************************************************************************)
\* lockSync: the guard is free, or stale and taken over.
TakeGuard(p, from, to) ==
    /\ Alive(p) /\ pc[p] = from
    /\ guard = None \/ stale
    /\ guard' = p
    /\ stale' = FALSE
    /\ pc' = [pc EXCEPT ![p] = to]
    /\ UNCHANGED <<phase, dir, tok, held, attempt, seen, grants>>

\* ELOCKED a hundred times over, one second in all: the call throws, and
\* release swallows the error.
GuardUnavailable(p) ==
    /\ Alive(p) /\ pc[p] \in {"lock", "relock"}
    /\ guard # None /\ ~stale
    /\ pc' = [pc EXCEPT ![p] = "idle"]
    /\ UNCHANGED <<phase, guard, stale, dir, tok, held, attempt, seen, grants>>

\* The finally block.  assertGuardHeld never fires: the flag it tests is
\* set by the same timer that cannot run.  release() removes the lock file
\* whoever made it; when that fails, the call throws what it had obtained.
DropGuard(p) ==
    /\ Alive(p) /\ pc[p] \in Leaving
    /\ \/ /\ guard' = None
          /\ stale' = FALSE
          /\ held' = [held EXCEPT ![p] = pc[p] = "granted"]
          /\ UNCHANGED tok
       \/ /\ tok' = [tok EXCEPT ![p] = IF pc[p] = "granted" THEN None ELSE @]
          /\ UNCHANGED <<guard, stale, held>>
    /\ pc' = [pc EXCEPT ![p] = "idle"]
    /\ attempt' = [attempt EXCEPT ![p] = 0]
    /\ UNCHANGED <<phase, dir, seen, grants>>

(***************************************************************************)
(* acquireSessionLease                                                     *)
(***************************************************************************)
BeginAcquire(p) ==
    /\ Alive(p) /\ pc[p] = "idle" /\ ~held[p]
    /\ grants[p] < MaxGrants
    /\ pc' = [pc EXCEPT ![p] = "lock"]
    /\ tok' = [tok EXCEPT ![p] = None]
    /\ UNCHANGED <<phase, guard, stale, dir, held, attempt, seen, grants>>

\* `continue`: the next attempt, or the error after the last.
NextAttempt(p) ==
    /\ attempt' = [attempt EXCEPT ![p] = @ + 1]
    /\ pc' = [pc EXCEPT ![p] = IF attempt[p] + 1 < MaxAttempts THEN "rename" ELSE "refused"]

\* The candidate directory, owner.json inside it, is renamed to a free path.
Rename(p) ==
    /\ Alive(p) /\ pc[p] = "rename"
    /\ dir = None
    /\ grants[p] < MaxGrants
    /\ grants' = [grants EXCEPT ![p] = @ + 1]
    /\ dir' = <<p, grants[p] + 1>>
    /\ tok' = [tok EXCEPT ![p] = <<p, grants[p] + 1>>]
    /\ pc' = [pc EXCEPT ![p] = "granted"]
    /\ UNCHANGED <<phase, guard, stale, held, attempt, seen>>

\* EEXIST or ENOTEMPTY: somebody's lease directory is in the way.
RenameContention(p) ==
    /\ Alive(p) /\ pc[p] = "rename"
    /\ dir # None
    /\ pc' = [pc EXCEPT ![p] = "read"]
    /\ UNCHANGED <<phase, guard, stale, dir, tok, held, attempt, seen, grants>>

\* Any other error of the rename: the candidate vanished (ENOENT), which
\* spends an attempt, or the error is thrown.
RenameFails(p) ==
    /\ Alive(p) /\ pc[p] = "rename"
    /\ \/ NextAttempt(p)
       \/ pc' = [pc EXCEPT ![p] = "refused"] /\ UNCHANGED attempt
    /\ UNCHANGED <<phase, guard, stale, dir, tok, held, seen, grants>>

\* readLeaseOwner: the owner, "absent", "unreadable", which only spends an
\* attempt, or a corrupt owner.json, which throws.
ReadOwner(p) ==
    /\ Alive(p) /\ pc[p] = "read"
    /\ \/ /\ seen' = [seen EXCEPT ![p] = dir]
          /\ pc' = [pc EXCEPT ![p] = "check"]
          /\ UNCHANGED attempt
       \/ /\ NextAttempt(p)
          /\ UNCHANGED seen
       \/ /\ pc' = [pc EXCEPT ![p] = "refused"]
          /\ UNCHANGED <<attempt, seen>>
    /\ UNCHANGED <<phase, guard, stale, dir, tok, held, grants>>

\* SessionAlreadyActiveError when the owner is alive, else on to reclaim it.
CheckOwner(p) ==
    /\ Alive(p) /\ pc[p] = "check"
    /\ \E queried \in BOOLEAN :
         pc' = [pc EXCEPT ![p] =
                  IF seen[p] # None /\ IsLeaseOwnerAlive(seen[p][1], queried)
                  THEN "refused" ELSE "reclaim"]
    /\ seen' = [seen EXCEPT ![p] = None]
    /\ UNCHANGED <<phase, guard, stale, dir, tok, held, attempt, grants>>

\* reclaimStaleLease renames whatever is at the path now, or fails to.
Reclaim(p) ==
    /\ Alive(p) /\ pc[p] = "reclaim"
    /\ dir' \in {None, dir}
    /\ NextAttempt(p)
    /\ UNCHANGED <<phase, guard, stale, tok, held, seen, grants>>

(***************************************************************************)
(* SessionLease.release                                                    *)
(***************************************************************************)
BeginRelease(p) ==
    /\ Alive(p) /\ pc[p] = "idle" /\ held[p]
    /\ held' = [held EXCEPT ![p] = FALSE]
    /\ pc' = [pc EXCEPT ![p] = "relock"]
    /\ UNCHANGED <<phase, guard, stale, dir, tok, attempt, seen, grants>>

\* owner.token is compared with this lease's token; an owner that is absent,
\* unreadable or somebody else's is left alone.
RereadOwner(p) ==
    /\ Alive(p) /\ pc[p] = "reread"
    /\ \/ pc' = [pc EXCEPT ![p] = IF dir # None /\ dir = tok[p] THEN "remove" ELSE "refused"]
       \/ pc' = [pc EXCEPT ![p] = "refused"]
    /\ UNCHANGED <<phase, guard, stale, dir, tok, held, attempt, seen, grants>>

RemoveOwn(p) ==
    /\ Alive(p) /\ pc[p] = "remove"
    /\ dir' \in {None, dir}
    /\ pc' = [pc EXCEPT ![p] = "refused"]
    /\ UNCHANGED <<phase, guard, stale, tok, held, attempt, seen, grants>>

(***************************************************************************)
(* The specification                                                       *)
(***************************************************************************)
\* The steps of a call that has begun: synchronous code, so it runs on.
Step(p) ==
    \/ TakeGuard(p, "lock", "rename")
    \/ TakeGuard(p, "relock", "reread")
    \/ GuardUnavailable(p)
    \/ Rename(p)
    \/ RenameContention(p)
    \/ RenameFails(p)
    \/ ReadOwner(p)
    \/ CheckOwner(p)
    \/ Reclaim(p)
    \/ RereadOwner(p)
    \/ RemoveOwn(p)
    \/ DropGuard(p)

Next ==
    \/ GuardExpires
    \/ \E p \in Proc :
         \/ Start(p)
         \/ Crash(p)
         \/ BeginAcquire(p)
         \/ BeginRelease(p)
         \/ Step(p)

Spec == Init /\ [][Next]_vars

FairSpec == Spec /\ \A p \in Proc : WF_vars(Step(p))

(***************************************************************************)
(* Properties                                                              *)
(***************************************************************************)
\* The lease does its job: two live processes never both have an unreleased
\* SessionLease for the same session file, whatever crashed before, whichever
\* pids were reused and whichever reads, reclaims and releases failed.
LeaseExclusive ==
    \A p, q \in Proc : held[p] /\ held[q] => p = q

\* A live holder's token is what owner.json says: no release, reclaim or
\* retry of anybody else's removes or replaces the directory under it.
HolderOnDisk ==
    \A p \in Proc : held[p] => dir # None /\ dir = tok[p]

\* Every acquire and release returns or throws: nobody spins on the guard, on
\* an owner nobody can read or on a directory nobody can remove.
EveryCallReturns ==
    \A p \in Proc : pc[p] # "idle" ~> pc[p] = "idle"
====
