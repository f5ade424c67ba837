---- MODULE SupervisorOwnership ----
(***************************************************************************)
(* The registry of daemon supervisors                                      *)
(* (modes/daemon/daemon-supervisor-ownership.ts): one directory per owner, *)
(* one shutdown admission record, one startup fence per socket, and a lock *)
(* file, the guard, around every change of them.                           *)
(*                                                                         *)
(* A supervisor waits for the startup fence of its socket, then registers  *)
(* as owner unless a live owner conflicts with it.  An updater takes the   *)
(* shutdown admission, which keeps supervisors from starting, fences the   *)
(* running owner, and gives the admission up.  Its lease is renewed by a   *)
(* timer and may elapse while the process is busy.                         *)
(*                                                                         *)
(* The guard of a holder that stalls for 5000 ms can be taken by another   *)
(* process; the holder finds out from the inode of the lock directory when *)
(* its action is over, with whatever it wrote already on disk.  The calls  *)
(* of an action that read and those that write are therefore separate      *)
(* steps.                                                                  *)
(***************************************************************************)
EXTENDS Naturals, FiniteSets

CONSTANTS
    Supervisor,  \* supervisor processes, each with a generation of its own
    Updater,     \* processes that shut supervisors down
    Socket,      \* Socket[s]: the normalised socket path of a supervisor
    DescDir,     \* DescDir[s]: its descriptor directory
    None,
    MaxSteals,   \* bound: guards taken from a live holder
    MaxFences    \* bound: startup fences written

ASSUME OwnershipAssumption ==
    /\ Supervisor \cap Updater = {}
    /\ None \notin Supervisor \cup Updater
    /\ MaxSteals \in Nat /\ MaxFences \in Nat

Proc == Supervisor \cup Updater

VARIABLES
    alive,      \* the processes that run
    pc,         \* where a process stands
    job,        \* the call it is in
    out,        \* what the action under the guard will return
    guard,      \* the holder of the lock directory, or None
    steals,
    owners,     \* the owner directories on disk; the record names the process
    seen,       \* seen[p]: directories p has listed and not yet read
    role,       \* role[s]: "none", "owner", "leaving" (its record set aside by itself), "released"
    admission,  \* the process in shutdown-admission.json, or None
    admitted,   \* admitted[u]: "no", "held", "lost", "released"
    fresh,      \* fresh[u]: u's lease has not elapsed since it was written
    fence,      \* fence[k]: the fence of socket k, or NoFence
    readFence,  \* the token of the fence a supervisor has found dead
    fences

vars == <<alive, pc, job, out, guard, steals, owners, seen, role, admission, admitted, fresh,
          fence, readFence, fences>>

Sockets == {Socket[s] : s \in Supervisor}
NoFence == [by |-> None, token |-> 0]
Fence == [by : Supervisor, token : 1 .. MaxFences]

(* Places inside the guarded action.                                       *)
Inside == {"body", "purge", "list", "scan", "write", "check"}
Jobs == {"own", "release", "clear", "admit", "renew", "drop", "persist"}

TypeOK ==
    /\ alive \subseteq Proc
    /\ pc \in [Proc -> {"fence", "lock", "idle", "failed"} \cup Inside]
    /\ job \in [Proc -> Jobs]
    /\ out \in [Proc -> {"ok", "no", "throw"}]
    /\ guard \in Proc \cup {None} /\ steals \in 0 .. MaxSteals
    /\ owners \subseteq Supervisor
    /\ seen \in [Proc -> SUBSET Supervisor]
    /\ role \in [Supervisor -> {"none", "owner", "leaving", "released"}]
    /\ admission \in Updater \cup {None}
    /\ admitted \in [Updater -> {"no", "held", "lost", "released"}]
    /\ fresh \in [Updater -> BOOLEAN]
    /\ fence \in [Sockets -> Fence \cup {NoFence}]
    /\ readFence \in [Supervisor -> 0 .. MaxFences] /\ fences \in 0 .. MaxFences

Init ==
    /\ alive = Proc
    /\ pc = [p \in Proc |-> IF p \in Supervisor THEN "fence" ELSE "lock"]
    /\ job = [p \in Proc |-> IF p \in Supervisor THEN "own" ELSE "admit"]
    /\ out = [p \in Proc |-> "ok"]
    /\ guard = None /\ steals = 0
    /\ owners = {} /\ seen = [p \in Proc |-> {}]
    /\ role = [s \in Supervisor |-> "none"]
    /\ admission = None
    /\ admitted = [u \in Updater |-> "no"] /\ fresh = [u \in Updater |-> FALSE]
    /\ fence = [k \in Sockets |-> NoFence]
    /\ readFence = [s \in Supervisor |-> 0] /\ fences = 0

----------------------------------------------------------------------------
(* isProcessIdentityAlive.  A record carries pid and start identity, so it *)
(* names one process; an unreadable start identity is not modelled.        *)
IsProcessIdentityAlive(p) == p \in alive

OwnerConflicts(p, q) == Socket[p] = Socket[q] \/ DescDir[p] = DescDir[q]

ShutdownAdmissionIsActive == admission # None /\ fresh[admission] /\ IsProcessIdentityAlive(admission)

(* guardStolen: a steal removes the directory and makes another.           *)
GuardStolen(p) == guard # p

disk == <<owners, admission, fence, fences>>
objects == <<role, admitted, fresh, readFence>>
Move(p, to) == pc' = [pc EXCEPT ![p] = to]
Return(p, result) == Move(p, "check") /\ out' = [out EXCEPT ![p] = result]
At(p, where, what) == p \in alive /\ pc[p] = where /\ job[p] \in what

----------------------------------------------------------------------------
(* The guard (withDaemonSupervisorRegistryGuard).                          *)

(* lockfile.lock: the directory is free, stale with its holder dead, or    *)
(* taken from a holder that stalls inside its action.                      *)
Lock(p) ==
    /\ At(p, "lock", Jobs)
    /\ \/ /\ guard \notin alive
          /\ UNCHANGED steals
       \/ /\ guard \in alive /\ guard # p /\ steals < MaxSteals
          /\ steals' = steals + 1
    /\ guard' = p
    /\ Move(p, "body")
    /\ UNCHANGED <<alive, job, out, seen, disk, objects>>

(* The 500 retries, spread over the stale time, are used up while live     *)
(* processes hold the guard.                                               *)
Refused(p) == IF job[p] \in {"release", "drop", "persist"} THEN "idle" ELSE "failed"

(* stop waits for the renewal in progress, however it ends, before release *)
(* goes on to the record.                                                  *)
AfterRenewal(p) ==
    IF admitted[p] = "released"
    THEN Move(p, "lock") /\ job' = [job EXCEPT ![p] = "drop"]
    ELSE Move(p, "idle") /\ UNCHANGED job

LockFails(p) ==
    /\ At(p, "lock", Jobs)
    /\ guard \in alive /\ guard # p
    /\ IF job[p] = "renew" THEN AfterRenewal(p) ELSE Move(p, Refused(p)) /\ UNCHANGED job
    /\ UNCHANGED <<alive, out, guard, steals, seen, disk, objects>>

(* What a call does with the result of its action.                         *)
Outcome(p, result) ==
    CASE job[p] = "own" ->
           /\ role' = [role EXCEPT ![p] = IF result = "ok" THEN "owner" ELSE @]
           /\ Move(p, IF result = "ok" THEN "idle" ELSE "failed")
           /\ UNCHANGED <<job, admitted, fresh, readFence>>
      [] job[p] = "clear" ->
           /\ Move(p, CASE result = "ok" -> "lock" [] result = "no" -> "fence" [] OTHER -> "failed")
           /\ job' = [job EXCEPT ![p] = "own"]
           /\ UNCHANGED objects
      [] job[p] = "admit" ->
           /\ admitted' = [admitted EXCEPT ![p] = IF result = "ok" THEN "held" ELSE @]
           /\ Move(p, CASE result = "ok" -> "idle" [] result = "no" -> "lock" [] OTHER -> "failed")
           /\ UNCHANGED <<job, role, fresh, readFence>>
      [] job[p] = "renew" ->
           /\ admitted' = [admitted EXCEPT ![p] = IF result = "no" /\ @ = "held" THEN "lost" ELSE @]
           /\ AfterRenewal(p)
           /\ UNCHANGED <<role, fresh, readFence>>
      [] job[p] = "release" ->
           /\ role' = [role EXCEPT ![p] = IF result = "throw" THEN @ ELSE "released"]
           /\ Move(p, "idle")
           /\ UNCHANGED <<job, admitted, fresh, readFence>>
      [] OTHER -> Move(p, "idle") /\ UNCHANGED <<job, objects>>

(* The same, trusting the action's result whoever holds the guard.         *)
TrustingFinish(p) ==
    /\ At(p, "check", Jobs)
    /\ guard' = IF GuardStolen(p) THEN guard ELSE None
    /\ Outcome(p, out[p])
    /\ out' = [out EXCEPT ![p] = "ok"] /\ seen' = [seen EXCEPT ![p] = {}]
    /\ UNCHANGED <<alive, steals, disk>>

(* assertGuardHeld after the action, and the release of a guard that is    *)
(* still ours.                                                             *)
Finish(p) ==
    /\ At(p, "check", Jobs)
    /\ guard' = IF GuardStolen(p) THEN guard ELSE None
    /\ Outcome(p, IF GuardStolen(p) THEN "throw" ELSE out[p])
    /\ out' = [out EXCEPT ![p] = "ok"] /\ seen' = [seen EXCEPT ![p] = {}]
    /\ UNCHANGED <<alive, steals, disk>>

----------------------------------------------------------------------------
(* waitForDaemonStartupFence.                                              *)

(* A fence is waited for to the deadline, whoever wrote it is gone or not. *)
PatientReadFence(p) ==
    /\ At(p, "fence", {"own"})
    /\ Move(p, IF fence[Socket[p]] = NoFence THEN "lock" ELSE "failed")
    /\ UNCHANGED <<alive, job, out, guard, steals, seen, disk, objects>>

ReadFence(p) ==
    /\ At(p, "fence", {"own"})
    /\ LET f == fence[Socket[p]]
       IN  \/ /\ f = NoFence
              /\ Move(p, "lock") /\ UNCHANGED <<job, readFence>>
           \/ /\ f # NoFence /\ IsProcessIdentityAlive(f.by)
              /\ Move(p, "failed") /\ UNCHANGED <<job, readFence>>  \* the deadline passed
           \/ /\ f # NoFence /\ ~IsProcessIdentityAlive(f.by)
              /\ Move(p, "lock")
              /\ job' = [job EXCEPT ![p] = "clear"]
              /\ readFence' = [readFence EXCEPT ![p] = f.token]
    /\ UNCHANGED <<alive, out, guard, steals, seen, disk, role, admitted, fresh>>

ClearFence(p) ==
    /\ At(p, "body", {"clear"})
    /\ LET f == fence[Socket[p]]
       IN  CASE f = NoFence -> Return(p, "ok")
             [] f # NoFence /\ f.token = readFence[p] -> Move(p, "write") /\ UNCHANGED out
             [] OTHER -> Return(p, "no")
    /\ UNCHANGED <<alive, job, guard, steals, seen, disk, objects>>

RemoveFence(p) ==
    /\ At(p, "write", {"clear"})
    /\ fence' = [fence EXCEPT ![Socket[p]] = NoFence]
    /\ Return(p, "ok")
    /\ UNCHANGED <<alive, job, guard, steals, seen, owners, admission, fences, objects>>

----------------------------------------------------------------------------
(* acquireDaemonSupervisorOwnership.                                       *)

(* An admission counts as inactive as soon as its holder is another one.   *)
ImpatientReadActiveShutdownAdmission(p) ==
    /\ At(p, "body", {"own", "admit"})
    /\ Move(p, IF admission # None THEN "purge" ELSE IF job[p] = "own" THEN "list" ELSE "write")
    /\ UNCHANGED <<alive, job, out, guard, steals, seen, disk, objects>>

(* readActiveShutdownAdmission, in a starting supervisor and in an updater.*)
ReadActiveShutdownAdmission(p) ==
    /\ At(p, "body", {"own", "admit"})
    /\ CASE admission = None -> Move(p, IF job[p] = "own" THEN "list" ELSE "write") /\ UNCHANGED out
         [] ShutdownAdmissionIsActive -> Return(p, IF job[p] = "own" THEN "throw" ELSE "no")
         [] OTHER -> Move(p, "purge") /\ UNCHANGED out
    /\ UNCHANGED <<alive, job, guard, steals, seen, disk, objects>>

Purge(p) ==
    /\ At(p, "purge", {"own", "admit"})
    /\ admission' = None
    /\ Move(p, IF job[p] = "own" THEN "list" ELSE "write")
    /\ UNCHANGED <<alive, job, out, guard, steals, seen, owners, fence, fences, objects>>

ListOwners(p) ==
    /\ At(p, "list", {"own"})
    /\ seen' = [seen EXCEPT ![p] = owners]
    /\ Move(p, "scan")
    /\ UNCHANGED <<alive, job, out, guard, steals, disk, objects>>

(* Sets every conflicting directory aside, whoever lives.                  *)
HastyScanOwner(p, d) ==
    /\ At(p, "scan", {"own"}) /\ d \in seen[p]
    /\ seen' = [seen EXCEPT ![p] = @ \ {d}]
    /\ owners' = IF OwnerConflicts(d, p) THEN owners \ {d} ELSE owners
    /\ UNCHANGED <<alive, pc, job, out, guard, steals, admission, fence, fences, objects>>

(* One directory: gone, no concern of ours, alive, or to be set aside.     *)
ScanOwner(p, d) ==
    /\ At(p, "scan", {"own"}) /\ d \in seen[p]
    /\ seen' = [seen EXCEPT ![p] = @ \ {d}]
    /\ CASE d \notin owners -> Return(p, "throw") /\ UNCHANGED owners
         [] d \in owners /\ ~OwnerConflicts(d, p) -> UNCHANGED <<pc, out, owners>>
         [] d \in owners /\ OwnerConflicts(d, p) /\ IsProcessIdentityAlive(d) ->
              Return(p, "throw") /\ UNCHANGED owners
         [] OTHER -> owners' = owners \ {d} /\ UNCHANGED <<pc, out>>
    /\ UNCHANGED <<alive, job, guard, steals, admission, fence, fences, objects>>

(* The candidate directory is renamed to its owner name.                   *)
Publish(p) ==
    /\ At(p, "scan", {"own"}) /\ seen[p] = {}
    /\ owners' = owners \cup {p}
    /\ Return(p, "ok")
    /\ UNCHANGED <<alive, job, guard, steals, seen, admission, fence, fences, objects>>

(* release, again when an earlier one has thrown: the object is released   *)
(* only once the guarded action has returned.                              *)
Release(p) ==
    /\ p \in Supervisor /\ At(p, "idle", Jobs) /\ role[p] \in {"owner", "leaving"}
    /\ job' = [job EXCEPT ![p] = "release"]
    /\ Move(p, "lock")
    /\ UNCHANGED <<alive, out, guard, steals, seen, disk, objects>>

ReleaseOwner(p) ==
    /\ At(p, "body", {"release"})
    /\ IF p \in owners THEN Move(p, "write") /\ UNCHANGED out ELSE Return(p, "no")
    /\ UNCHANGED <<alive, job, guard, steals, seen, disk, objects>>

RemoveOwner(p) ==
    /\ At(p, "write", {"release"})
    /\ owners' = owners \ {p}
    /\ role' = [role EXCEPT ![p] = "leaving"]
    /\ Return(p, "ok")
    /\ UNCHANGED <<alive, job, guard, steals, seen, admission, fence, fences, admitted, fresh, readFence>>

----------------------------------------------------------------------------
(* The shutdown admission.                                                 *)

WriteAdmission(p) ==
    /\ At(p, "write", {"admit", "renew"})
    /\ admission' = p
    /\ fresh' = [fresh EXCEPT ![p] = TRUE]
    /\ Return(p, "ok")
    /\ UNCHANGED <<alive, job, guard, steals, seen, owners, fence, fences, role, admitted, readFence>>

(* 5000 ms have passed since the record was written.                       *)
Elapse(u) ==
    /\ fresh[u]
    /\ fresh' = [fresh EXCEPT ![u] = FALSE]
    /\ UNCHANGED <<alive, pc, job, out, guard, steals, seen, disk, role, admitted, readFence>>

(* The renewal timer or assertOrRenew, one at a time.                      *)
Renew(u) ==
    /\ At(u, "idle", Jobs) /\ u \in Updater /\ admitted[u] = "held"
    /\ job' = [job EXCEPT ![u] = "renew"]
    /\ Move(u, "lock")
    /\ UNCHANGED <<alive, out, guard, steals, seen, disk, objects>>

(* Renews whatever record is there.                                        *)
BlindRenewUnderGuard(p) ==
    /\ At(p, "body", {"renew"})
    /\ Move(p, "write")
    /\ UNCHANGED <<alive, job, out, guard, steals, seen, disk, objects>>

(* Renews its own record, stopped or not.                                  *)
UnstoppedRenewUnderGuard(p) ==
    /\ At(p, "body", {"renew"})
    /\ IF admission = p THEN Move(p, "write") /\ UNCHANGED out ELSE Return(p, "no")
    /\ UNCHANGED <<alive, job, guard, steals, seen, disk, objects>>

(* performRenew writes only over its own record; an elapsed lease is none  *)
(* of its concern.                                                         *)
RenewUnderGuard(p) ==
    /\ At(p, "body", {"renew"})
    /\ IF admitted[p] = "held" /\ admission = p THEN Move(p, "write") /\ UNCHANGED out ELSE Return(p, "no")
    /\ UNCHANGED <<alive, job, guard, steals, seen, disk, objects>>

(* release: stop the timer, then remove the record if it is ours.  A       *)
(* renewal that still waits for the guard is awaited first.                *)
Drop(u) ==
    /\ u \in Updater /\ admitted[u] \in {"held", "lost"}
    /\ admitted' = [admitted EXCEPT ![u] = "released"]
    /\ \/ /\ At(u, "idle", Jobs)
          /\ Move(u, "lock") /\ job' = [job EXCEPT ![u] = "drop"]
       \/ At(u, "lock", {"renew"}) /\ UNCHANGED <<pc, job>>
    /\ UNCHANGED <<alive, out, guard, steals, seen, disk, role, fresh, readFence>>

DropAdmission(p) ==
    /\ At(p, "body", {"drop"})
    /\ IF admission = p THEN Move(p, "write") /\ UNCHANGED out ELSE Return(p, "ok")
    /\ UNCHANGED <<alive, job, guard, steals, seen, disk, objects>>

RemoveAdmission(p) ==
    /\ At(p, "write", {"drop"})
    /\ admission' = None
    /\ Return(p, "ok")
    /\ UNCHANGED <<alive, job, guard, steals, seen, owners, fence, fences, objects>>

----------------------------------------------------------------------------
(* persistDaemonStartupFenceFromOwner.                                     *)

Persist(u) ==
    /\ At(u, "idle", Jobs) /\ u \in Updater /\ admitted[u] = "held"
    /\ job' = [job EXCEPT ![u] = "persist"]
    /\ Move(u, "lock")
    /\ UNCHANGED <<alive, out, guard, steals, seen, disk, objects>>

(* Exactly one owner of the socket, and it still is the process it was:    *)
(* seen keeps it until it is written.                                      *)
MatchOwner(p) ==
    /\ At(p, "body", {"persist"})
    /\ \E k \in Sockets :
         LET matching == {s \in owners : Socket[s] = k}
         IN  IF Cardinality(matching) = 1 /\ matching \subseteq alive /\ fences < MaxFences
             THEN /\ seen' = [seen EXCEPT ![p] = matching]
                  /\ Move(p, "write") /\ UNCHANGED out
             ELSE Return(p, "throw") /\ UNCHANGED seen
    /\ UNCHANGED <<alive, job, guard, steals, disk, objects>>

WriteFence(p) ==
    /\ At(p, "write", {"persist"})
    /\ fences < MaxFences
    /\ fences' = fences + 1
    /\ \E s \in seen[p] : fence' = [fence EXCEPT ![Socket[s]] = [by |-> s, token |-> fences + 1]]
    /\ seen' = [seen EXCEPT ![p] = {}]
    /\ Return(p, "ok")
    /\ UNCHANGED <<alive, job, guard, steals, owners, admission, objects>>

(* A process ends, wherever it stands; its lock directory stays behind.    *)
Crash(p) ==
    /\ p \in alive
    /\ alive' = alive \ {p}
    /\ Move(p, "idle")
    /\ job' = [job EXCEPT ![p] = "own"] /\ out' = [out EXCEPT ![p] = "ok"]
    /\ seen' = [seen EXCEPT ![p] = {}]
    /\ role' = [s \in Supervisor |-> IF s = p THEN "none" ELSE role[s]]
    /\ admitted' = [u \in Updater |-> IF u = p THEN "no" ELSE admitted[u]]
    /\ fresh' = [u \in Updater |-> IF u = p THEN FALSE ELSE fresh[u]]
    /\ readFence' = [s \in Supervisor |-> IF s = p THEN 0 ELSE readFence[s]]
    /\ UNCHANGED <<guard, steals, disk>>

----------------------------------------------------------------------------
Step(p) ==
    \/ Lock(p) \/ Finish(p)
    \/ ReadFence(p) \/ ClearFence(p) \/ RemoveFence(p)
    \/ ReadActiveShutdownAdmission(p) \/ Purge(p) \/ ListOwners(p) \/ Publish(p)
    \/ \E d \in Supervisor : ScanOwner(p, d)
    \/ ReleaseOwner(p) \/ RemoveOwner(p)
    \/ WriteAdmission(p) \/ RenewUnderGuard(p) \/ DropAdmission(p) \/ RemoveAdmission(p)
    \/ MatchOwner(p) \/ WriteFence(p)

Next ==
    \/ \E p \in Proc : Step(p) \/ LockFails(p) \/ Crash(p)
    \/ \E s \in Supervisor : Release(s)
    \/ \E u \in Updater : Renew(u) \/ Drop(u) \/ Persist(u) \/ Elapse(u)

Spec == Init /\ [][Next]_vars

(* A live process goes on with a call it is in.                            *)
FairSpec == Spec /\ \A p \in Proc : WF_vars(Step(p))
----------------------------------------------------------------------------
(* Properties.                                                             *)

(* Two live supervisors that share a socket path or a descriptor directory *)
(* are never both owners, even when a stalled process loses the guard and  *)
(* then writes its record anyway (assertGuardHeld after the action).       *)
OwnersExclusive ==
    \A p, q \in Supervisor :
        p # q /\ {p, q} \subseteq alive /\ role[p] = "owner" /\ role[q] = "owner" => ~OwnerConflicts(p, q)

(* The record of a live owner stays on disk until the owner releases it:   *)
(* nobody's stale listing removes it (assertCurrent keeps succeeding).     *)
OwnerOnDisk == \A p \in alive \cap Supervisor : role[p] = "owner" => p \in owners

(* While no guard is stolen, at most one process holds an admission whose  *)
(* lease has not elapsed, renewals of elapsed leases included.             *)
OneFreshAdmission ==
    steals = 0 => \A t, u \in Updater \cap alive :
        admitted[t] = "held" /\ fresh[t] /\ admitted[u] = "held" /\ fresh[u] => t = u

(* While no guard is stolen, no supervisor becomes owner under a shutdown  *)
(* admission that is held and has not elapsed.                             *)
NoStartDuringShutdown ==
    [][\A s \in Supervisor : steals = 0 /\ role[s] # "owner" /\ role'[s] = "owner" =>
          ~ \E u \in Updater \cap alive : admitted[u] = "held" /\ fresh[u]]_vars

(* An admission that was released is never armed again, a renewal that     *)
(* waited for the guard when stop was called included ("a stopped record   *)
(* must never be rewritten to disk").                                      *)
StoppedNeverRewritten ==
    [][\A u \in Updater : admitted[u] = "released" /\ ~fresh[u] => ~fresh'[u]]_vars

(* Whatever crashed processes left behind (a held guard, owner records, an *)
(* admission, a fence), the last one left becomes owner when it starts.    *)
StarterRecovers ==
    \A s \in Supervisor :
        alive = {s} /\ pc[s] = "fence" ~> role[s] = "owner" \/ s \notin alive

====
