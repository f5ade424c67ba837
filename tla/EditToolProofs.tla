-------------------------- MODULE EditToolProofs --------------------------
(***************************************************************************)
(* The file mutation queue and the edit tool that uses it.                 *)
(*                                                                         *)
(* First the queue.  For any number of calls, any set of paths and any     *)
(* aliasing between them, calls with the same key run one at a time in     *)
(* call order.  KeyFifo is not inductive: it does not say why the link a   *)
(* call awaits covers every earlier call of its key.  ChainInv adds that:  *)
(* the tail of a key covers all its live calls, and a waiting call's       *)
(* `ahead' covers all earlier live calls of its key.                       *)
(*                                                                         *)
(* Then the edit tool, which uses the queue as the queue's own module      *)
(* says: every step of an edit is a step of FileMutationQueue or leaves    *)
(* its state alone, for any number of calls, paths and signals.  So the    *)
(* order proved for the queue holds for edits.  A write may create the     *)
(* file it writes to; that this is a file the queue's environment may      *)
(* create needs an invariant: a call that entered the queue has a target,  *)
(* and only such a call has a body.                                        *)
(***************************************************************************)
EXTENDS EditTool, TLAPS

(* Places are handed out from the clock, once each.                        *)
Placed ==
  /\ \A o \in Op : phase[o] # "idle" => key[o] \in Path /\ arrival[o] <= clock
  /\ \A o, q \in Op : phase[o] # "idle" /\ phase[q] # "idle" /\ arrival[o] = arrival[q] => o = q

(* The map entry of a key is one of its live calls and covers the others.  *)
TailCovers ==
  \A o \in Op : Live(o) =>
    \E last \in Op : /\ fileMutationQueues[key[o]] = last
                     /\ phase[last] \in {"waiting", "running"}
                     /\ key[last] = key[o]
                     /\ arrival[o] <= arrival[last]

(* No entry outlives its call.                                             *)
TailIsLive ==
  \A k \in Path : fileMutationQueues[k] # None =>
    Live(fileMutationQueues[k]) /\ key[fileMutationQueues[k]] = k

(* The link a waiting call found covers every earlier live call of its key.*)
AheadCovers ==
  \A o, q \in Op :
    /\ phase[o] = "waiting" /\ Live(q)
    /\ key[q] = key[o] /\ arrival[q] < arrival[o]
    => /\ ahead[o] \in Op
       /\ phase[ahead[o]] # "idle"
       /\ key[ahead[o]] = key[o]
       /\ arrival[q] <= arrival[ahead[o]]

ChainInv == TypeOK /\ Placed /\ TailCovers /\ TailIsLive /\ AheadCovers /\ KeyFifo

LEMMA InitChain == Init => ChainInv
  BY QueueAssumption DEF Init, ChainInv, TypeOK, Placed, TailCovers, TailIsLive,
     AheadCovers, KeyFifo, Live

LEMMA KeyIsPath ==
  ASSUME TypeOK, NEW p \in Path
  PROVE  GetMutationQueueKey(p) \in Path
  BY QueueAssumption DEF GetMutationQueueKey

LEMMA EnqueueKeepsChain ==
  ASSUME ChainInv, NEW o \in Op, NEW p \in Path, Enqueue(o, p)
  PROVE  ChainInv'
<1> DEFINE k == GetMutationQueueKey(p)
<1> k \in Path
  BY KeyIsPath DEF ChainInv
<1> HIDE DEF k
<1> USE DEF ChainInv
<1>0. /\ phase[o] = "idle"
      /\ phase' = [phase EXCEPT ![o] = "waiting"]
      /\ key' = [key EXCEPT ![o] = k]
      /\ ahead' = [ahead EXCEPT ![o] = fileMutationQueues[k]]
      /\ fileMutationQueues' = [fileMutationQueues EXCEPT ![k] = o]
      /\ clock' = clock + 1
      /\ arrival' = [arrival EXCEPT ![o] = clock + 1]
      /\ exists' = exists
  BY DEF Enqueue, k
<1>1. TypeOK'
  BY <1>0 DEF TypeOK
<1>2. Placed'
  BY <1>0 DEF TypeOK, Placed
<1>3. TailCovers'
  BY <1>0, QueueAssumption DEF TypeOK, Placed, TailCovers, Live
<1>4. TailIsLive'
  BY <1>0, QueueAssumption DEF TypeOK, Placed, TailIsLive, Live
<1>5. AheadCovers'
  BY <1>0, QueueAssumption DEF TypeOK, Placed, TailCovers, AheadCovers, Live
<1>6. KeyFifo'
  BY <1>0 DEF TypeOK, Placed, KeyFifo
<1> QED
  BY <1>1, <1>2, <1>3, <1>4, <1>5, <1>6

LEMMA RunFnKeepsChain ==
  ASSUME ChainInv, NEW o \in Op, RunFn(o)
  PROVE  ChainInv'
<1> USE DEF ChainInv
<1>1. TypeOK' /\ Placed' /\ TailCovers' /\ TailIsLive'
  BY QueueAssumption DEF RunFn, TypeOK, Placed, TailCovers, TailIsLive, Live
<1>2. AheadCovers'
  BY DEF RunFn, TypeOK, AheadCovers, Live
<1>3. KeyFifo'
  <2> SUFFICES ASSUME NEW q \in Op, phase'[q] # "idle", key'[q] = key'[o],
                      arrival'[q] < arrival'[o]
               PROVE  phase'[q] = "released"
    BY DEF RunFn, TypeOK, KeyFifo
  <2>1. CASE Live(q)
    <3>1. ahead[o] \in Op /\ phase[ahead[o]] = "released"
          /\ key[ahead[o]] = key[o] /\ arrival[q] <= arrival[ahead[o]]
      BY <2>1, QueueAssumption DEF RunFn, TypeOK, AheadCovers
    <3>2. q # ahead[o]
      BY <2>1, <3>1 DEF Live
    <3>3. arrival[q] < arrival[ahead[o]]
      BY <3>1, <3>2, <2>1 DEF RunFn, TypeOK, Placed, Live
    <3> QED
      BY <3>1, <3>3, <2>1 DEF KeyFifo, RunFn, TypeOK, Live
  <2>2. CASE ~Live(q)
    BY <2>2 DEF RunFn, TypeOK, Live
  <2> QED
    BY <2>1, <2>2
<1> QED
  BY <1>1, <1>2, <1>3

LEMMA SettleKeepsChain ==
  ASSUME ChainInv, NEW o \in Op, Settle(o)
  PROVE  ChainInv'
<1> USE DEF ChainInv
<1>1. TypeOK' /\ Placed'
  BY DEF Settle, TypeOK, Placed
<1>2. TailCovers'
  <2> SUFFICES ASSUME NEW q \in Op, Live(q)'
               PROVE  \E last \in Op : /\ fileMutationQueues'[key'[q]] = last
                                       /\ phase'[last] \in {"waiting", "running"}
                                       /\ key'[last] = key'[q]
                                       /\ arrival'[q] <= arrival'[last]
    BY DEF TailCovers
  <2>1. Live(q) /\ q # o /\ key[q] \in Path /\ key[o] \in Path
    BY DEF Settle, TypeOK, Live, Placed
  <2>2. PICK last \in Op : /\ fileMutationQueues[key[q]] = last
                          /\ phase[last] \in {"waiting", "running"}
                          /\ key[last] = key[q]
                          /\ arrival[q] <= arrival[last]
    BY <2>1 DEF TailCovers
  <2>3. last # o
    \* o runs, so the earlier calls of its key are released, and q is live
    BY <2>1, <2>2 DEF KeyFifo, Settle, TypeOK, Placed, Live
  <2> QED
    BY <2>1, <2>2, <2>3 DEF Settle, TypeOK
<1>3. TailIsLive'
  BY QueueAssumption DEF Settle, TypeOK, TailIsLive, Placed, Live
<1>4. AheadCovers'
  BY DEF Settle, TypeOK, AheadCovers, Live
<1>5. KeyFifo'
  BY DEF Settle, TypeOK, KeyFifo
<1> QED
  BY <1>1, <1>2, <1>3, <1>4, <1>5

LEMMA FileSystemKeepsChain ==
  ASSUME ChainInv, exists' \in SUBSET Files, UNCHANGED queueVars
  PROVE  ChainInv'
  BY DEF ChainInv, queueVars, TypeOK, Placed, TailCovers, TailIsLive, AheadCovers,
     KeyFifo, Live

LEMMA NextKeepsChain == ChainInv /\ [Next]_vars => ChainInv'
<1> SUFFICES ASSUME ChainInv, [Next]_vars PROVE ChainInv'
  OBVIOUS
<1>1. ASSUME NEW o \in Op, NEW p \in Path, Enqueue(o, p) PROVE ChainInv'
  BY <1>1, EnqueueKeepsChain
<1>2. ASSUME NEW o \in Op, RunFn(o) PROVE ChainInv'
  BY <1>2, RunFnKeepsChain
<1>3. ASSUME NEW o \in Op, Settle(o) PROVE ChainInv'
  BY <1>3, SettleKeepsChain
<1>4. ASSUME NEW f \in Files, CreateFile(f) \/ RemoveFile(f) PROVE ChainInv'
  BY <1>4, FileSystemKeepsChain DEF CreateFile, RemoveFile, ChainInv, TypeOK
<1>5. CASE UNCHANGED vars
  BY <1>5, FileSystemKeepsChain DEF vars, ChainInv, TypeOK
<1> QED
  BY <1>1, <1>2, <1>3, <1>4, <1>5 DEF Next

(* ChainInv holds throughout every execution of the queue.                 *)
THEOREM ChainInvariant == Spec => []ChainInv
  BY InitChain, NextKeepsChain, PTL DEF Spec

(* withFileMutationQueue serialises the calls of a key in call order.      *)
THEOREM KeySerialised == Spec => []KeyFifo
<1>1. ChainInv => KeyFifo
  BY DEF ChainInv
<1> QED
  BY <1>1, ChainInvariant, PTL

(***************************************************************************)
(* The edit tool.                                                          *)
(***************************************************************************)

Targeted == \A o \in Op : phase[o] # "idle" => target[o] \in Files
Begun == \A o \in Op : body[o] # "none" => phase[o] \in {"running", "released"}

(* A body under way whose promise was not rejected by an abort has not     *)
(* answered, so its call still holds the key.                              *)
Held ==
  \A o \in Op :
    /\ body[o] = "none" => outcome[o] = "pending"
    /\ Working(o) => outcome[o] \in {"pending", "aborted"}
    /\ Working(o) /\ outcome[o] = "pending" => phase[o] = "running"

EditInv == ChainInv /\ EditTypeOK /\ Targeted /\ Begun /\ Held

LEMMA CanonIsFile == \A p \in Path : Canon[p] \in Files
  BY QueueAssumption DEF Files

LEMMA InitEdit == EditInit => EditInv
<1> SUFFICES ASSUME EditInit PROVE EditInv
  OBVIOUS
<1>1. ChainInv
  BY InitChain DEF EditInit
<1>2. EditTypeOK
  BY <1>1, QueueAssumption DEF ChainInv, EditInit, EditTypeOK, BodyState
<1> QED
  BY <1>1, <1>2 DEF EditInit, Init, EditInv, Targeted, Begun, Held, Working

(* The queue's part of a step: one of its actions, or nothing.             *)
LEMMA StepOfQueue ==
  ASSUME EditInv, [EditNext]_allVars
  PROVE  [Next]_vars
<1>1. ASSUME NEW o \in Op, NEW p \in Path, Execute(o, p) PROVE Next
  BY <1>1 DEF Execute, Next
<1>2. ASSUME NEW o \in Op, StartBody(o) PROVE Next
  BY <1>2 DEF StartBody, Next
<1>3. ASSUME NEW s \in Signal, Abort(s) PROVE UNCHANGED vars
  BY <1>3 DEF Abort
<1>4. ASSUME NEW o \in Op, BodyStep(o) PROVE [Next]_vars
  <2>1. CASE AccessDone(o)
    BY <2>1 DEF AccessDone
  <2>2. CASE ReadDone(o)
    BY <2>2 DEF ReadDone
  <2>3. CASE Truncate(o)
    <3>1. target[o] \in Files
      BY <2>3 DEF Truncate, EditInv, Targeted, Begun
    <3>2. CASE target[o] \in exists
      BY <2>3, <3>2 DEF Truncate, vars, queueVars
    <3>3. CASE target[o] \notin exists
      BY <2>3, <3>1, <3>3 DEF Truncate, Next, CreateFile
    <3> QED
      BY <3>2, <3>3
  <2>4. CASE WriteDone(o)
    BY <2>4 DEF WriteDone
  <2>5. CASE WriteFails(o)
    BY <2>5 DEF WriteFails
  <2> QED
    BY <1>4, <2>1, <2>2, <2>3, <2>4, <2>5 DEF BodyStep
<1>5. ASSUME NEW o \in Op, Leave(o) PROVE Next
  BY <1>5 DEF Leave, Next
<1>6. ASSUME NEW f \in Files, Remove(f) PROVE Next
  BY <1>6 DEF Remove, Next
<1>7. CASE UNCHANGED allVars
  BY <1>7 DEF allVars
<1> QED
  BY <1>1, <1>2, <1>3, <1>4, <1>5, <1>6, <1>7 DEF EditNext

(* The types of the edit tool's own variables.                             *)
EditTypes ==
  /\ target \in [Op -> Files \cup {None}]
  /\ body \in [Op -> BodyState]
  /\ buf \in [Op -> SUBSET Op]
  /\ outcome \in [Op -> {"pending", "ok", "error", "aborted"}]
  /\ aborted \in SUBSET Signal
  /\ content \in [Files -> (SUBSET Op) \cup {{Torn}}]
  /\ applied \in [Files -> SUBSET Op]

LEMMA StepKeepsTypes ==
  ASSUME EditInv, [EditNext]_allVars
  PROVE  EditTypes'
<1> USE DEF EditTypes
<1>0. EditTypes
  BY DEF EditInv, EditTypeOK
<1>1. ASSUME NEW o \in Op, NEW p \in Path, Execute(o, p) PROVE EditTypes'
  BY <1>0, <1>1, CanonIsFile DEF Execute
<1>2. ASSUME NEW o \in Op, StartBody(o) PROVE EditTypes'
  BY <1>0, <1>2 DEF StartBody, Report, BodyAt, BodyState
<1>3. ASSUME NEW s \in Signal, Abort(s) PROVE EditTypes'
  BY <1>0, <1>3 DEF Abort
<1>4. ASSUME NEW o \in Op, BodyStep(o) PROVE EditTypes'
  <2>0. body[o] # "none" => target[o] \in Files
    BY DEF EditInv, Targeted, Begun
  <2>1. CASE AccessDone(o)
    BY <1>0, <2>1 DEF AccessDone, Report, BodyAt, BodyState
  <2>2. CASE ReadDone(o)
    <3>1. content[target[o]] # {Torn} => content[target[o]] \in SUBSET Op
      BY <1>0, <2>0, <2>2 DEF ReadDone
    <3>2. buf' \in [Op -> SUBSET Op]
      BY <1>0, <2>2, <3>1 DEF ReadDone
    <3>3. body' \in [Op -> BodyState] /\ outcome' \in [Op -> {"pending", "ok", "error", "aborted"}]
      BY <1>0, <2>2 DEF ReadDone, Report, BodyAt, BodyState
    <3> QED
      BY <1>0, <2>2, <3>2, <3>3 DEF ReadDone
  <2>3. CASE Truncate(o)
    BY <1>0, <2>3 DEF Truncate, BodyAt, BodyState
  <2>4. CASE WriteDone(o)
    <3>1. content' \in [Files -> (SUBSET Op) \cup {{Torn}}]
      BY <1>0, <2>4 DEF WriteDone
    <3>2. applied' \in [Files -> SUBSET Op]
      BY <1>0, <2>4 DEF WriteDone
    <3>3. body' \in [Op -> BodyState] /\ outcome' \in [Op -> {"pending", "ok", "error", "aborted"}]
      BY <1>0, <2>4 DEF WriteDone, Report, BodyAt, BodyState
    <3> QED
      BY <1>0, <2>4, <3>1, <3>2, <3>3 DEF WriteDone
  <2>5. CASE WriteFails(o)
    BY <1>0, <2>5 DEF WriteFails, Report, BodyAt, BodyState
  <2> QED
    BY <1>4, <2>1, <2>2, <2>3, <2>4, <2>5 DEF BodyStep
<1>5. ASSUME NEW o \in Op, Leave(o) PROVE EditTypes'
  BY <1>0, <1>5 DEF Leave, editVars
<1>6. ASSUME NEW f \in Files, Remove(f) PROVE EditTypes'
  BY <1>0, <1>6 DEF Remove
<1>7. CASE UNCHANGED allVars
  BY <1>0, <1>7 DEF allVars, editVars
<1> QED
  BY <1>1, <1>2, <1>3, <1>4, <1>5, <1>6, <1>7 DEF EditNext

LEMMA StepKeepsTargets ==
  ASSUME EditInv, [EditNext]_allVars
  PROVE  Targeted' /\ Begun'
<1> USE DEF Targeted, Begun
<1>0. EditTypes /\ TypeOK /\ Targeted /\ Begun
  BY DEF EditInv, EditTypeOK, EditTypes
<1>1. ASSUME NEW o \in Op, NEW p \in Path, Execute(o, p) PROVE Targeted' /\ Begun'
  BY <1>0, <1>1, CanonIsFile DEF Execute, Enqueue, TypeOK, EditTypes
<1>2. ASSUME NEW o \in Op, StartBody(o) PROVE Targeted' /\ Begun'
  BY <1>0, <1>2 DEF StartBody, RunFn, BodyAt, TypeOK, EditTypes
<1>3. ASSUME NEW s \in Signal, Abort(s) PROVE Targeted' /\ Begun'
  BY <1>0, <1>3 DEF Abort, vars, queueVars
<1>4. ASSUME NEW o \in Op, BodyStep(o) PROVE Targeted' /\ Begun'
  <2>1. UNCHANGED <<phase, target>>
    BY <1>4 DEF BodyStep, AccessDone, ReadDone, Truncate, WriteDone, WriteFails, vars, queueVars
  <2>2. \A q \in Op : body'[q] # "none" => body[q] # "none"
    BY <1>0, <1>4 DEF BodyStep, AccessDone, ReadDone, Truncate, WriteDone, WriteFails, BodyAt, EditTypes
  <2> QED
    BY <1>0, <2>1, <2>2
<1>5. ASSUME NEW o \in Op, Leave(o) PROVE Targeted' /\ Begun'
  BY <1>0, <1>5 DEF Leave, Settle, editVars, TypeOK, EditTypes
<1>6. ASSUME NEW f \in Files, Remove(f) PROVE Targeted' /\ Begun'
  BY <1>0, <1>6 DEF Remove, RemoveFile, queueVars
<1>7. CASE UNCHANGED allVars
  BY <1>0, <1>7 DEF allVars, editVars, vars, queueVars
<1> QED
  BY <1>1, <1>2, <1>3, <1>4, <1>5, <1>6, <1>7 DEF EditNext

LEMMA StepKeepsHeld ==
  ASSUME EditInv, [EditNext]_allVars
  PROVE  Held'
<1> USE DEF Held, Working
<1>0. EditTypes /\ TypeOK /\ Begun /\ Held
  BY DEF EditInv, EditTypeOK, EditTypes
<1>1. ASSUME NEW o \in Op, NEW p \in Path, Execute(o, p) PROVE Held'
  <2>1. UNCHANGED <<body, outcome>> /\ body[o] = "none"
    BY <1>0, <1>1 DEF Execute, Enqueue, Begun
  <2>2. \A q \in Op : q # o => phase'[q] = phase[q]
    BY <1>0, <1>1 DEF Execute, Enqueue, TypeOK
  <2> QED
    BY <1>0, <2>1, <2>2
<1>2. ASSUME NEW o \in Op, StartBody(o) PROVE Held'
  BY <1>0, <1>2 DEF StartBody, RunFn, BodyAt, Report, TypeOK, EditTypes, Begun
<1>3. ASSUME NEW s \in Signal, Abort(s) PROVE Held'
  BY <1>0, <1>3 DEF Abort, vars, queueVars, EditTypes
<1>4. ASSUME NEW o \in Op, BodyStep(o) PROVE Held'
  <2>0. UNCHANGED phase
    BY <1>4 DEF BodyStep, AccessDone, ReadDone, Truncate, WriteDone, WriteFails, vars, queueVars
  <2>1. CASE AccessDone(o)
    BY <1>0, <2>0, <2>1 DEF AccessDone, Report, BodyAt, EditTypes
  <2>2. CASE ReadDone(o)
    BY <1>0, <2>0, <2>2 DEF ReadDone, Report, BodyAt, EditTypes
  <2>3. CASE Truncate(o)
    BY <1>0, <2>0, <2>3 DEF Truncate, BodyAt, EditTypes
  <2>4. CASE WriteDone(o)
    BY <1>0, <2>0, <2>4 DEF WriteDone, Report, BodyAt, EditTypes
  <2>5. CASE WriteFails(o)
    BY <1>0, <2>0, <2>5 DEF WriteFails, Report, BodyAt, EditTypes
  <2> QED
    BY <1>4, <2>1, <2>2, <2>3, <2>4, <2>5 DEF BodyStep
<1>5. ASSUME NEW o \in Op, Leave(o) PROVE Held'
  BY <1>0, <1>5 DEF Leave, Settle, editVars, TypeOK, EditTypes
<1>6. ASSUME NEW f \in Files, Remove(f) PROVE Held'
  BY <1>0, <1>6 DEF Remove, RemoveFile, queueVars
<1>7. CASE UNCHANGED allVars
  BY <1>0, <1>7 DEF allVars, editVars, vars, queueVars
<1> QED
  BY <1>1, <1>2, <1>3, <1>4, <1>5, <1>6, <1>7 DEF EditNext

LEMMA StepKeepsEdit == EditInv /\ [EditNext]_allVars => EditInv'
<1> SUFFICES ASSUME EditInv, [EditNext]_allVars PROVE EditInv'
  OBVIOUS
<1>1. ChainInv'
  BY StepOfQueue, NextKeepsChain DEF EditInv
<1>2. EditTypeOK'
  BY <1>1, StepKeepsTypes DEF ChainInv, EditTypeOK, EditTypes
<1> QED
  BY <1>1, <1>2, StepKeepsTargets, StepKeepsHeld DEF EditInv

(* Edits never leave their types, a file's content included: it is a set   *)
(* of edits or a torn file, whichever calls overlap.                       *)
THEOREM EditTypeCorrect == EditSpec => []EditTypeOK
<1>1. EditInv => EditTypeOK
  BY DEF EditInv
<1> QED
  BY <1>1, InitEdit, StepKeepsEdit, PTL DEF EditSpec

(* The edit tool with its file operations, aborts and failures implements  *)
(* the queue's specification.                                              *)
THEOREM EditImplementsQueue == EditSpec => Spec
<1>1. EditInit => Init
  BY DEF EditInit
<1>2. EditInv /\ [EditNext]_allVars => [Next]_vars
  BY StepOfQueue
<1> QED
  BY <1>1, <1>2, InitEdit, StepKeepsEdit, PTL DEF EditSpec, Spec

(* So edits with one key run one at a time, in call order.                 *)
THEOREM EditsOfOneKeyInOrder == EditSpec => []KeyFifo
  BY EditImplementsQueue, KeySerialised, PTL

(* The bodies of two edits with one key overlap only when an abort has     *)
(* answered for one of them: nothing else lets go of the key early.        *)
THEOREM OverlapNeedsAbort == EditSpec => []OverlapOnlyByAbort
<1>1. EditInv => OverlapOnlyByAbort
  <2> SUFFICES ASSUME EditInv, NEW o \in Op, NEW q \in Op,
                      o # q, key[o] = key[q], Working(o), Working(q),
                      outcome[o] # "aborted", outcome[q] # "aborted"
               PROVE  FALSE
    BY DEF OverlapOnlyByAbort
  <2>1. phase[o] = "running" /\ phase[q] = "running"
    BY DEF EditInv, Held
  <2>2. arrival[o] < arrival[q] \/ arrival[q] < arrival[o]
    BY <2>1 DEF EditInv, ChainInv, Placed, TypeOK
  <2> QED
    BY <2>1, <2>2 DEF EditInv, ChainInv, KeyFifo
<1> QED
  BY <1>1, InitEdit, StepKeepsEdit, PTL DEF EditSpec

-----------------------------------------------------------------------------
(* What is written.                                                        *)

(* Nothing repairs these: an edit aborted after writeFile began, a write   *)
(* that failed half way, edits of the file under two keys.                 *)
Messed(f) ==
  \/ \E o \in Op : /\ target[o] = f
                   /\ \/ outcome[o] = "aborted" /\ body[o] \in {"truncated", "written"}
                      \/ body[o] = "failed"
  \/ \E o, q \in Op : target[o] = f /\ target[q] = f /\ key[o] # key[q]

(* Otherwise the file shows what was reported, or a write is under way...  *)
Whole(f) ==
  applied[f] \subseteq content[f] \/ \E o \in Op : target[o] = f /\ body[o] = "truncated"

(* ... and what an unanswered write will put there shows it.               *)
Carried(f) ==
  \A o \in Op : target[o] = f /\ body[o] \in {"write", "truncated"} /\ outcome[o] = "pending"
                => applied[f] \cup {o} \subseteq buf[o]

Kept == \A f \in Files : Messed(f) \/ (Whole(f) /\ Carried(f))

(* The listener has answered for exactly the bodies whose signal fired; a  *)
(* call not made has no target; nothing is reported of a missing file.     *)
Marked ==
  /\ \A o \in Op : Working(o) => (IsAborted(o) <=> outcome[o] = "aborted")
  /\ \A o \in Op : phase[o] = "idle" => target[o] = None
  /\ \A f \in Files : f \notin exists => applied[f] = {}

KeptInv == EditInv /\ Marked /\ Kept

LEMMA InitKept == EditInit => KeptInv
<1> SUFFICES ASSUME EditInit PROVE KeptInv
  OBVIOUS
<1>1. EditInv
  BY InitEdit
<1>2. Marked
  BY DEF EditInit, Marked, Working, IsAborted
<1>3. Kept
  BY DEF EditInit, Kept, Whole, Carried
<1> QED
  BY <1>1, <1>2, <1>3 DEF KeptInv

LEMMA StepKeepsMarked ==
  ASSUME KeptInv, [EditNext]_allVars
  PROVE  Marked'
<1> USE DEF Marked, Working, IsAborted
<1>0. EditTypes /\ TypeOK /\ Begun /\ Held /\ Marked /\ Targeted
  BY DEF KeptInv, EditInv, EditTypeOK, EditTypes
<1>1. ASSUME NEW o \in Op, NEW p \in Path, Execute(o, p) PROVE Marked'
  BY <1>0, <1>1 DEF Execute, Enqueue, TypeOK, EditTypes
<1>2. ASSUME NEW o \in Op, StartBody(o) PROVE Marked'
  <2>1. \A q \in Op : (q # o => body'[q] = body[q] /\ outcome'[q] = outcome[q]) /\ (phase'[q] = "idle" => phase[q] = "idle")
    BY <1>0, <1>2 DEF StartBody, RunFn, BodyAt, Report, TypeOK, EditTypes
  <2>2. UNCHANGED <<target, aborted, applied, exists>>
    BY <1>2 DEF StartBody, RunFn
  <2>3. outcome[o] = "pending"
    BY <1>0, <1>2 DEF StartBody, RunFn, Begun, Held
  <2>4. body'[o] = "done" \/ (body'[o] = "access" /\ ~IsAborted(o) /\ outcome'[o] = "pending")
    BY <1>0, <1>2, <2>3 DEF StartBody, BodyAt, EditTypes
  <2> QED
    BY <1>0, <2>1, <2>2, <2>4
<1>3. ASSUME NEW s \in Signal, Abort(s) PROVE Marked'
  BY <1>0, <1>3 DEF Abort, vars, queueVars, EditTypes, Held
<1>4. ASSUME NEW o \in Op, BodyStep(o) PROVE Marked'
  <2>0. UNCHANGED <<phase, target, aborted>>
    BY <1>4 DEF BodyStep, AccessDone, ReadDone, Truncate, WriteDone, WriteFails, vars, queueVars
  <2>1. CASE AccessDone(o)
    BY <1>0, <2>0, <2>1 DEF AccessDone, Report, BodyAt, EditTypes, vars
  <2>2. CASE ReadDone(o)
    BY <1>0, <2>0, <2>2 DEF ReadDone, Report, BodyAt, EditTypes, vars
  <2>3. CASE Truncate(o)
    BY <1>0, <2>0, <2>3 DEF Truncate, BodyAt, EditTypes
  <2>4. CASE WriteDone(o)
    BY <1>0, <2>0, <2>4 DEF WriteDone, Report, BodyAt, EditTypes, vars
  <2>5. CASE WriteFails(o)
    BY <1>0, <2>0, <2>5 DEF WriteFails, Report, BodyAt, EditTypes, vars
  <2> QED
    BY <1>4, <2>1, <2>2, <2>3, <2>4, <2>5 DEF BodyStep
<1>5. ASSUME NEW o \in Op, Leave(o) PROVE Marked'
  BY <1>0, <1>5 DEF Leave, Settle, editVars, TypeOK, EditTypes
<1>6. ASSUME NEW f \in Files, Remove(f) PROVE Marked'
  BY <1>0, <1>6 DEF Remove, RemoveFile, queueVars, EditTypes
<1>7. CASE UNCHANGED allVars
  BY <1>0, <1>7 DEF allVars, editVars, vars, queueVars
<1> QED
  BY <1>1, <1>2, <1>3, <1>4, <1>5, <1>6, <1>7 DEF EditNext

(* What is messed up stays so: calls keep their target and key, an answer  *)
(* is final, and a write that began ends as written or failed.             *)
LEMMA MessedStays ==
  ASSUME KeptInv, [EditNext]_allVars, NEW f \in Files, Messed(f)
  PROVE  Messed(f)'
<1>0. EditTypes /\ TypeOK /\ Begun /\ Marked /\ f # None
  BY QueueAssumption DEF KeptInv, EditInv, EditTypeOK, EditTypes, Files
<1>1. \A o \in Op : target[o] = f => target'[o] = f /\ key'[o] = key[o]
  <2>1. ASSUME NEW o \in Op, NEW p \in Path, Execute(o, p)
        PROVE  target[o] # f /\ \A q \in Op : q # o => target'[q] = target[q] /\ key'[q] = key[q]
    BY <1>0, <2>1 DEF Execute, Enqueue, Marked, TypeOK, EditTypes
  <2>2. (\E o \in Op, p \in Path : Execute(o, p)) \/ UNCHANGED <<target, key>>
    BY DEF EditNext, StartBody, RunFn, Abort, BodyStep, AccessDone, ReadDone, Truncate,
       WriteDone, WriteFails, Leave, Settle, Remove, RemoveFile, vars, queueVars, editVars, allVars
  <2> QED
    BY <2>1, <2>2
<1>2. \A o \in Op : outcome[o] = "aborted" => outcome'[o] = "aborted"
  BY <1>0 DEF EditNext, Execute, StartBody, Abort, BodyStep, AccessDone, ReadDone, Truncate,
     WriteDone, WriteFails, Leave, Remove, editVars, allVars, Report, EditTypes
<1>3. \A o \in Op : /\ body[o] = "truncated" => body'[o] \in {"truncated", "written", "failed"}
                    /\ body[o] = "written" => body'[o] = "written"
                    /\ body[o] = "failed" => body'[o] = "failed"
  <2>1. ASSUME NEW o \in Op, StartBody(o) PROVE body[o] = "none"
    BY <1>0, <2>1 DEF StartBody, RunFn, Begun
  <2> QED
    BY <1>0, <2>1 DEF EditNext, Execute, StartBody, Abort, BodyStep, AccessDone, ReadDone, Truncate,
       WriteDone, WriteFails, Leave, Remove, editVars, allVars, BodyAt, EditTypes
<1> QED
  BY <1>1, <1>2, <1>3 DEF Messed

(* Of the edits of a file under one key only one is unanswered and has a   *)
(* body under way.                                                         *)
LEMMA OneUnanswered ==
  ASSUME EditInv, NEW o \in Op, NEW q \in Op, key[o] = key[q], Working(o), Working(q),
         outcome[o] = "pending", outcome[q] = "pending"
  PROVE  o = q
<1> SUFFICES ASSUME o # q PROVE FALSE
  OBVIOUS
<1>1. phase[o] = "running" /\ phase[q] = "running"
  BY DEF EditInv, Held
<1>2. arrival[o] < arrival[q] \/ arrival[q] < arrival[o]
  BY <1>1 DEF EditInv, ChainInv, Placed, TypeOK
<1> QED
  BY <1>1, <1>2 DEF EditInv, ChainInv, KeyFifo

LEMMA StepKeepsKept ==
  ASSUME KeptInv, [EditNext]_allVars
  PROVE  Kept'
<1> SUFFICES ASSUME NEW f \in Files, ~Messed(f)' PROVE Whole(f)' /\ Carried(f)'
  BY DEF Kept
<1>0. EditTypes /\ TypeOK /\ Begun /\ Held /\ Marked /\ f # None
  BY QueueAssumption DEF KeptInv, EditInv, EditTypeOK, EditTypes, Files
<1>a. ~Messed(f) /\ Whole(f) /\ Carried(f)
  BY MessedStays DEF KeptInv, Kept
<1>1. ASSUME NEW o \in Op, NEW p \in Path, Execute(o, p) PROVE Whole(f)' /\ Carried(f)'
  <2>1. body[o] = "none"
    BY <1>0, <1>1 DEF Execute, Enqueue, Begun
  <2>2. \A q \in Op : q # o => target'[q] = target[q]
    BY <1>0, <1>1 DEF Execute, EditTypes
  <2>3. UNCHANGED <<body, buf, outcome, content, applied>>
    BY <1>1 DEF Execute
  <2> QED
    BY <1>a, <2>1, <2>2, <2>3 DEF Whole, Carried
<1>2. ASSUME NEW o \in Op, StartBody(o) PROVE Whole(f)' /\ Carried(f)'
  <2>1. body[o] = "none" /\ body'[o] \in {"access", "done"} /\ \A q \in Op : q # o => body'[q] = body[q] /\ outcome'[q] = outcome[q]
    BY <1>0, <1>2 DEF StartBody, RunFn, Begun, BodyAt, Report, EditTypes
  <2>2. UNCHANGED <<target, buf, content, applied>>
    BY <1>2 DEF StartBody
  <2> QED
    BY <1>a, <2>1, <2>2 DEF Whole, Carried
<1>3. ASSUME NEW s \in Signal, Abort(s) PROVE Whole(f)' /\ Carried(f)'
  <2>1. \A q \in Op : outcome'[q] = "pending" => outcome[q] = "pending"
    BY <1>0, <1>3 DEF Abort, EditTypes
  <2>2. UNCHANGED <<target, body, buf, content, applied>>
    BY <1>3 DEF Abort
  <2> QED
    BY <1>a, <2>1, <2>2 DEF Whole, Carried
<1>4. ASSUME NEW o \in Op, BodyStep(o) PROVE Whole(f)' /\ Carried(f)'
  <2>0. UNCHANGED <<target, key>> /\ (body[o] # "none" => target[o] \in Files)
    BY <1>4, <1>0 DEF BodyStep, AccessDone, ReadDone, Truncate, WriteDone, WriteFails, vars, queueVars, KeptInv, EditInv, Targeted, Begun
  <2>a. \A q \in Op : q # o => body'[q] = body[q] /\ outcome'[q] = outcome[q] /\ buf'[q] = buf[q]
    BY <1>0, <1>4 DEF BodyStep, AccessDone, ReadDone, Truncate, WriteDone, WriteFails, BodyAt, Report, EditTypes
  <2>1. CASE AccessDone(o)
    <3>1. body[o] = "access" /\ body'[o] \in {"done", "read"} /\ UNCHANGED <<content, applied>>
      BY <1>0, <2>1 DEF AccessDone, BodyAt, EditTypes
    <3> QED
      BY <1>a, <2>0, <2>a, <3>1 DEF Whole, Carried
  <2>2. CASE ReadDone(o)
    <3>1. body[o] = "read" /\ UNCHANGED <<content, applied>>
      BY <2>2 DEF ReadDone
    <3>2. CASE body'[o] = "done"
      BY <1>a, <2>0, <2>a, <3>1, <3>2 DEF Whole, Carried
    <3>3. CASE /\ ~IsAborted(o) /\ body'[o] = "write" /\ outcome' = outcome
               /\ buf'[o] = content[target[o]] \cup {o}
      <4>1. Whole(f)'
        BY <1>a, <2>0, <2>a, <3>1 DEF Whole
      <4>2. CASE target[o] # f
        BY <1>a, <2>0, <2>a, <3>1, <4>1, <4>2 DEF Carried
      <4>3. CASE target[o] = f
        <5>1. outcome[o] = "pending"
          BY <1>0, <3>1, <3>3 DEF Held, Marked, Working
        <5>2. ASSUME NEW q \in Op, target[q] = f, body[q] = "truncated" PROVE FALSE
          <6>1. key[q] = key[o] /\ outcome[q] # "aborted"
            BY <1>a, <4>3, <5>2 DEF Messed
          <6>2. outcome[q] = "pending" /\ Working(q) /\ Working(o)
            BY <1>0, <3>1, <5>2, <6>1 DEF Held, Working
          <6>3. q = o
            BY <5>1, <6>1, <6>2, OneUnanswered DEF KeptInv
          <6> QED
            BY <3>1, <5>2, <6>3
        <5>3. applied[f] \subseteq content[f]
          BY <1>a, <5>2 DEF Whole
        <5> QED
          BY <1>a, <2>0, <2>a, <3>1, <3>3, <4>1, <4>3, <5>3 DEF Carried
      <4> QED
        BY <4>2, <4>3
    <3> QED
      BY <1>0, <2>2, <3>2, <3>3 DEF ReadDone, BodyAt, EditTypes
  <2>3. CASE Truncate(o)
    <3>1. body[o] = "write" /\ body'[o] = "truncated" /\ UNCHANGED <<buf, outcome, applied>>
      BY <1>0, <2>3 DEF Truncate, BodyAt, EditTypes
    <3>2. target[o] # f => content'[f] = content[f]
      BY <1>0, <2>3 DEF Truncate, EditTypes
    <3> QED
      BY <1>a, <2>0, <2>a, <3>1, <3>2 DEF Whole, Carried
  <2>4. CASE WriteDone(o)
    <3>1. body[o] = "truncated" /\ body'[o] = "written" /\ buf' = buf
      BY <1>0, <2>4 DEF WriteDone, BodyAt, EditTypes
    <3>2. target[o] # f => content'[f] = content[f] /\ applied'[f] = applied[f]
      BY <1>0, <2>4 DEF WriteDone, EditTypes
    <3>3. CASE target[o] # f
      BY <1>a, <2>0, <2>a, <3>1, <3>2, <3>3 DEF Whole, Carried
    <3>4. CASE target[o] = f
      <4>1. outcome[o] = "pending" /\ ~IsAborted(o)
        BY <1>0, <1>a, <3>1, <3>4 DEF Held, Marked, Working, Messed
      <4>2. applied[f] \cup {o} \subseteq buf[o]
        BY <1>a, <3>1, <3>4, <4>1 DEF Carried
      <4>3. ASSUME NEW q \in Op, target[q] = f, body'[q] \in {"write", "truncated"}, outcome'[q] = "pending"
            PROVE  FALSE
        <5>1. q # o
          BY <3>1, <4>3
        <5>2. key[q] = key[o] /\ Working(q) /\ Working(o) /\ outcome[q] = "pending"
          BY <1>a, <2>a, <3>1, <3>4, <4>3, <5>1 DEF Messed, Working
        <5> QED
          BY <4>1, <5>1, <5>2, OneUnanswered DEF KeptInv
      <4>4. applied'[f] \subseteq content'[f]
        <5>1. CASE f \in exists
          <6>1. content'[f] = buf[o] /\ applied'[f] = applied[f] \cup {o}
            BY <1>0, <2>4, <3>4, <4>1, <5>1 DEF WriteDone, EditTypes
          <6> QED
            BY <4>2, <6>1
        <5>2. CASE f \notin exists
          <6>1. applied'[f] = applied[f]
            BY <1>0, <2>4, <3>4, <5>2 DEF WriteDone, EditTypes
          <6> QED
            BY <1>0, <5>2, <6>1 DEF Marked
        <5> QED
          BY <5>1, <5>2
      <4> QED
        BY <2>0, <4>3, <4>4 DEF Whole, Carried
    <3> QED
      BY <3>3, <3>4
  <2>5. CASE WriteFails(o)
    <3>1. UNCHANGED <<buf, content, applied>> /\ body[o] \in {"write", "truncated"} /\ body'[o] \in {"done", "failed"}
      BY <1>0, <2>5 DEF WriteFails, BodyAt, EditTypes
    <3>2. body[o] = "truncated" => target[o] # f
      <4>1. body[o] = "truncated" => body'[o] = "failed"
        BY <1>0, <2>5 DEF WriteFails, BodyAt, EditTypes
      <4> QED
        BY <2>0, <4>1 DEF Messed
    <3> QED
      BY <1>a, <2>0, <2>a, <3>1, <3>2 DEF Whole, Carried
  <2> QED
    BY <1>4, <2>1, <2>2, <2>3, <2>4, <2>5 DEF BodyStep
<1>5. ASSUME NEW o \in Op, Leave(o) PROVE Whole(f)' /\ Carried(f)'
  BY <1>a, <1>5 DEF Leave, editVars, Whole, Carried
<1>6. ASSUME NEW g \in Files, Remove(g) PROVE Whole(f)' /\ Carried(f)'
  <2>1. UNCHANGED <<target, body, buf, outcome>>
    BY <1>6 DEF Remove
  <2>2. CASE g = f
    <3>1. applied'[f] = {}
      BY <1>0, <1>6, <2>2 DEF Remove, EditTypes
    <3>2. \A o \in Op : applied[f] \cup {o} \subseteq buf[o] => applied'[f] \cup {o} \subseteq buf[o]
      BY <3>1
    <3> QED
      BY <1>a, <2>1, <3>1, <3>2 DEF Whole, Carried
  <2>3. CASE g # f
    <3>1. applied'[f] = applied[f] /\ content'[f] = content[f]
      BY <1>0, <1>6, <2>3 DEF Remove, EditTypes
    <3> QED
      BY <1>a, <2>1, <3>1 DEF Whole, Carried
  <2> QED
    BY <2>2, <2>3
<1>7. CASE UNCHANGED allVars
  BY <1>a, <1>7 DEF allVars, editVars, Whole, Carried
<1> QED
  BY <1>1, <1>2, <1>3, <1>4, <1>5, <1>6, <1>7 DEF EditNext

(* An edit that execute reported as successful is in the file, unless an   *)
(* edit aborted inside writeFile, a torn write or edits under two keys     *)
(* touched it: the key is held from the read to the end of the write.      *)
THEOREM SuccessfulEditsKept == EditSpec => []SuccessIsKept
<1>1. KeptInv /\ [EditNext]_allVars => KeptInv'
  BY StepKeepsEdit, StepKeepsMarked, StepKeepsKept DEF KeptInv
<1>2. KeptInv => SuccessIsKept
  <2> SUFFICES ASSUME KeptInv, NEW f \in Files, ~(applied[f] \subseteq content[f])
               PROVE  \/ \E o \in Op : target[o] = f /\ (LateWriter(o) \/ body[o] \in {"truncated", "failed"})
                      \/ \E o, q \in Op : target[o] = f /\ target[q] = f /\ key[o] # key[q]
    BY DEF SuccessIsKept
  <2>1. Messed(f) \/ Whole(f)
    BY DEF KeptInv, Kept
  <2>2. CASE Messed(f)
    BY <2>2 DEF Messed, LateWriter
  <2>3. CASE Whole(f)
    BY <2>3 DEF Whole
  <2> QED
    BY <2>1, <2>2, <2>3
<1> QED
  BY <1>1, <1>2, InitKept, PTL DEF EditSpec
=============================================================================
