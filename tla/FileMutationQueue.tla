------------------------- MODULE FileMutationQueue -------------------------
(***************************************************************************)
(* The per-file mutation queue of core/tools/file-mutation-queue.ts: a map *)
(* from a key to the tail of a promise chain.  A caller reads the tail,    *)
(* installs its own link and awaits the link it found; when its callback   *)
(* settles it releases its link and drops the map entry if it is still the *)
(* tail.  A link is named by the call that created it.                     *)
(*                                                                         *)
(* The callback is abstract here (module EditTool gives the built-in one). *)
(* The file system is the environment: `exists' decides whether realpath   *)
(* succeeds at the moment a key is computed.                               *)
(***************************************************************************)
EXTENDS Naturals

CONSTANTS
  Op,     \* calls of withFileMutationQueue
  Path,   \* absolute paths a call may name
  Canon,  \* canonical path of each path, once its file exists
  None    \* no map entry / nothing to wait for / not called yet

ASSUME QueueAssumption ==
  /\ None \notin Op
  /\ None \notin Path
  /\ Canon \in [Path -> Path]

VARIABLES
  exists,              \* canonical paths that name a file now
  fileMutationQueues,  \* key -> call whose link is the tail, or None
  phase,               \* where each call is
  key,                 \* queue key the call computed
  ahead,               \* link the call awaits
  clock,               \* history: places taken so far
  arrival              \* history: the place each call took

queueVars == <<fileMutationQueues, phase, key, ahead, clock, arrival>>
vars == <<exists, queueVars>>

Live(o) == phase[o] \in {"waiting", "running"}
Files == {Canon[p] : p \in Path}

-----------------------------------------------------------------------------
(* Faulty variants of the actions below, each a bug this code could have;  *)
(* the checks show that the properties detect them.                        *)

ForgetfulSettle(o) ==   \* deletes the entry without comparing it with its own link
  /\ phase[o] = "running"
  /\ phase' = [phase EXCEPT ![o] = "released"]
  /\ fileMutationQueues' = [fileMutationQueues EXCEPT ![key[o]] = None]
  /\ UNCHANGED <<exists, key, ahead, clock, arrival>>

-----------------------------------------------------------------------------
(* realpath when the file exists, otherwise the resolved path itself.      *)
GetMutationQueueKey(p) == IF Canon[p] \in exists THEN Canon[p] ELSE p

(* The synchronous prefix of withFileMutationQueue, up to its first await. *)
Enqueue(o, p) ==
  LET k == GetMutationQueueKey(p) IN
  /\ phase[o] = "idle"
  /\ phase' = [phase EXCEPT ![o] = "waiting"]
  /\ key' = [key EXCEPT ![o] = k]
  /\ ahead' = [ahead EXCEPT ![o] = fileMutationQueues[k]]
  /\ fileMutationQueues' = [fileMutationQueues EXCEPT ![k] = o]
  /\ clock' = clock + 1
  /\ arrival' = [arrival EXCEPT ![o] = clock + 1]
  /\ UNCHANGED exists

(* `await currentQueue' resumes once the link ahead is released.           *)
RunFn(o) ==
  /\ phase[o] = "waiting"
  /\ ahead[o] # None => phase[ahead[o]] = "released"
  /\ phase' = [phase EXCEPT ![o] = "running"]
  /\ UNCHANGED <<exists, fileMutationQueues, key, ahead, clock, arrival>>

(* The finally block: releaseNext and the conditional delete run together. *)
Settle(o) ==
  /\ phase[o] = "running"
  /\ phase' = [phase EXCEPT ![o] = "released"]
  /\ fileMutationQueues' =
       [fileMutationQueues EXCEPT ![key[o]] = IF @ = o THEN None ELSE @]
  /\ UNCHANGED <<exists, key, ahead, clock, arrival>>

(* Environment: a file appears or is removed.                              *)
CreateFile(f) == f \notin exists /\ exists' = exists \cup {f} /\ UNCHANGED queueVars
RemoveFile(f) == f \in exists /\ exists' = exists \ {f} /\ UNCHANGED queueVars

-----------------------------------------------------------------------------
Init ==
  /\ exists \in SUBSET Files
  /\ fileMutationQueues = [k \in Path |-> None]
  /\ phase = [o \in Op |-> "idle"]
  /\ key = [o \in Op |-> None]
  /\ ahead = [o \in Op |-> None]
  /\ clock = 0
  /\ arrival = [o \in Op |-> 0]

Next ==
  \/ \E o \in Op, p \in Path : Enqueue(o, p)
  \/ \E o \in Op : RunFn(o)
  \/ \E o \in Op : Settle(o)
  \/ \E f \in Files : CreateFile(f)
  \/ \E f \in Files : RemoveFile(f)

Spec == Init /\ [][Next]_vars

-----------------------------------------------------------------------------
TypeOK ==
  /\ exists \in SUBSET Files
  /\ fileMutationQueues \in [Path -> Op \cup {None}]
  /\ phase \in [Op -> {"idle", "waiting", "running", "released"}]
  /\ key \in [Op -> Path \cup {None}]
  /\ ahead \in [Op -> Op \cup {None}]
  /\ clock \in Nat
  /\ arrival \in [Op -> Nat]

(* Calls that computed the same key run one at a time, in call order: the  *)
(* chain built by `currentQueue.then(() => nextQueue)' serialises them.    *)
KeyFifo ==
  \A o, q \in Op :
    /\ phase[o] # "idle"
    /\ phase[q] \in {"running", "released"}
    /\ key[o] = key[q]
    /\ arrival[o] < arrival[q]
    => phase[o] = "released"

=============================================================================
