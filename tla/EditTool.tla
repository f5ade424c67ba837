----------------------------- MODULE EditTool -----------------------------
(***************************************************************************)
(* The edit tool (core/tools/edit.ts, execute) as the callback run inside  *)
(* withFileMutationQueue.  The callback returns a promise that an abort    *)
(* rejects at once; the asynchronous body behind it is not cancelled and   *)
(* only looks at its `aborted' flag between file operations.  A file's     *)
(* content is the set of edits it shows, {Torn} once writeFile truncated   *)
(* it.  Calls that share an AbortSignal are aborted together.              *)
(***************************************************************************)
EXTENDS FileMutationQueue

CONSTANTS
  Signal,     \* abort signals
  SignalOf,   \* the signal each call was given
  Abortable,  \* signals that may fire
  Torn        \* mark of a truncated file

ASSUME EditAssumption ==
  /\ SignalOf \in [Op -> Signal]
  /\ Abortable \subseteq Signal
  /\ Torn \notin Op

VARIABLES
  target,   \* canonical file of each call
  body,     \* where the asynchronous body is
  buf,      \* finalContent, once computed
  outcome,  \* state of the promise the callback returned
  aborted,  \* signals that fired
  content,  \* file -> edits it shows, or {Torn}
  applied   \* history: edits reported as successful since the file was created

editVars == <<target, body, buf, outcome, aborted, content, applied>>
allVars == <<vars, editVars>>

IsAborted(o) == SignalOf[o] \in aborted
(* resolve and reject have no effect on a promise that is settled.         *)
Report(o, r) == outcome' = [outcome EXCEPT ![o] = IF @ = "pending" THEN r ELSE @]
BodyAt(o, s) == body' = [body EXCEPT ![o] = s]

-----------------------------------------------------------------------------
(* Faulty variants, used to show what the properties detect.               *)

EarlySettle(o) ==   \* the queue is released without awaiting the callback
  Settle(o) /\ UNCHANGED editVars

SilentAbort(s) ==   \* the abort listener sets the flag and never rejects
  /\ s \in Abortable \ aborted
  /\ aborted' = aborted \cup {s}
  /\ UNCHANGED <<vars, target, body, buf, outcome, content, applied>>

UncheckedReadDone(o) ==   \* does not look whether the old text is in what was read
  /\ body[o] = "read"
  /\ IF target[o] \in exists
     THEN /\ buf' = [buf EXCEPT ![o] = content[target[o]] \cup {o}]
          /\ BodyAt(o, "write") /\ UNCHANGED outcome
     ELSE Report(o, "error") /\ BodyAt(o, "done") /\ UNCHANGED buf
  /\ UNCHANGED <<vars, target, aborted, content, applied>>

StaleReadDone(o) ==   \* computes the new content from the file at call time
  /\ body[o] = "read"
  /\ BodyAt(o, "write")
  /\ buf' = [buf EXCEPT ![o] = {o}]
  /\ UNCHANGED <<vars, target, outcome, aborted, content, applied>>

-----------------------------------------------------------------------------
(* execute: resolve the path and enter the queue.                          *)
Execute(o, p) ==
  /\ Enqueue(o, p)
  /\ target' = [target EXCEPT ![o] = Canon[p]]
  /\ UNCHANGED <<body, buf, outcome, aborted, content, applied>>

(* The queue reaches the call: a fired signal rejects before anything is   *)
(* started, otherwise the body starts and access() is under way.           *)
StartBody(o) ==
  /\ RunFn(o)
  /\ IF IsAborted(o) THEN Report(o, "aborted") /\ BodyAt(o, "done")
                     ELSE BodyAt(o, "access") /\ UNCHANGED outcome
  /\ UNCHANGED <<target, buf, aborted, content, applied>>

(* onAbort of every started call that was given the signal.                *)
Abort(s) ==
  /\ s \in Abortable \ aborted
  /\ aborted' = aborted \cup {s}
  /\ outcome' = [o \in Op |->
       IF SignalOf[o] = s /\ body[o] # "none" /\ outcome[o] = "pending"
       THEN "aborted" ELSE outcome[o]]
  /\ UNCHANGED <<vars, target, body, buf, content, applied>>

(* access() failed, as it does on a missing or forbidden file, or allows   *)
(* the body to go on unless the abort is noticed.                          *)
AccessDone(o) ==
  /\ body[o] = "access"
  /\ \/ Report(o, "error") /\ BodyAt(o, "done")
     \/ /\ target[o] \in exists
        /\ BodyAt(o, IF IsAborted(o) THEN "done" ELSE "read")
        /\ UNCHANGED outcome
  /\ UNCHANGED <<vars, target, buf, aborted, content, applied>>

(* readFile returned: it failed, or the abort is noticed, or the old text  *)
(* is not there (applyEditsToNormalizedContent throws), or the replacement *)
(* is computed and writeFile is called.                                    *)
ReadDone(o) ==
  /\ body[o] = "read"
  /\ \/ /\ target[o] \notin exists
        /\ Report(o, "error") /\ BodyAt(o, "done") /\ UNCHANGED buf
     \/ /\ target[o] \in exists /\ IsAborted(o)
        /\ BodyAt(o, "done") /\ UNCHANGED <<outcome, buf>>
     \/ /\ target[o] \in exists /\ ~IsAborted(o)
        /\ Report(o, "error") /\ BodyAt(o, "done") /\ UNCHANGED buf
     \/ /\ target[o] \in exists /\ ~IsAborted(o) /\ content[target[o]] # {Torn}
        /\ buf' = [buf EXCEPT ![o] = content[target[o]] \cup {o}]
        /\ BodyAt(o, "write") /\ UNCHANGED outcome
  /\ UNCHANGED <<vars, target, aborted, content, applied>>

(* writeFile opens the file for writing, which truncates or creates it.    *)
Truncate(o) ==
  /\ body[o] = "write"
  /\ BodyAt(o, "truncated")
  /\ content' = [content EXCEPT ![target[o]] = {Torn}]
  /\ exists' = exists \cup {target[o]}
  /\ UNCHANGED <<queueVars, target, buf, outcome, aborted, applied>>

(* writeFile resolved.  The write went to the file that is there now.      *)
WriteDone(o) ==
  /\ body[o] = "truncated"
  /\ content' = [content EXCEPT ![target[o]] = IF target[o] \in exists THEN buf[o] ELSE @]
  /\ BodyAt(o, "written")
  /\ IF IsAborted(o) THEN UNCHANGED <<outcome, applied>>
     ELSE /\ Report(o, "ok")
          /\ applied' = [applied EXCEPT ![target[o]] =
                           IF target[o] \in exists THEN @ \cup {o} ELSE @]
  /\ UNCHANGED <<vars, target, buf, aborted>>

(* writeFile failed before or after it opened the file.                    *)
WriteFails(o) ==
  /\ body[o] \in {"write", "truncated"}
  /\ BodyAt(o, IF body[o] = "write" THEN "done" ELSE "failed")
  /\ Report(o, "error")
  /\ UNCHANGED <<vars, target, buf, aborted, content, applied>>

(* The callback's promise is settled, so the queue moves on.               *)
Leave(o) == outcome[o] # "pending" /\ Settle(o) /\ UNCHANGED editVars

(* The user removes the file.  (A file appears through writeFile only.)    *)
Remove(f) ==
  /\ RemoveFile(f)
  /\ content' = [content EXCEPT ![f] = {}]
  /\ applied' = [applied EXCEPT ![f] = {}]
  /\ UNCHANGED <<target, body, buf, outcome, aborted>>

-----------------------------------------------------------------------------
EditInit ==
  /\ Init
  /\ target = [o \in Op |-> None]
  /\ body = [o \in Op |-> "none"]
  /\ buf = [o \in Op |-> {}]
  /\ outcome = [o \in Op |-> "pending"]
  /\ aborted = {}
  /\ content = [f \in Files |-> {}]
  /\ applied = [f \in Files |-> {}]

BodyStep(o) == AccessDone(o) \/ ReadDone(o) \/ Truncate(o) \/ WriteDone(o) \/ WriteFails(o)

EditNext ==
  \/ \E o \in Op, p \in Path : Execute(o, p)
  \/ \E o \in Op : StartBody(o)
  \/ \E s \in Signal : Abort(s)
  \/ \E o \in Op : BodyStep(o)
  \/ \E o \in Op : Leave(o)
  \/ \E f \in Files : Remove(f)

(* File operations return, and the event loop runs what they resolve.      *)
EditFairness ==
  \A o \in Op : WF_allVars(StartBody(o)) /\ WF_allVars(BodyStep(o)) /\ WF_allVars(Leave(o))

EditSpec == EditInit /\ [][EditNext]_allVars
FairEditSpec == EditSpec /\ EditFairness

-----------------------------------------------------------------------------
BodyState == {"none", "access", "read", "write", "truncated", "written", "failed", "done"}

EditTypeOK ==
  /\ TypeOK
  /\ target \in [Op -> Files \cup {None}]
  /\ body \in [Op -> BodyState]
  /\ buf \in [Op -> SUBSET Op]
  /\ outcome \in [Op -> {"pending", "ok", "error", "aborted"}]
  /\ aborted \in SUBSET Signal
  /\ content \in [Files -> (SUBSET Op) \cup {{Torn}}]
  /\ applied \in [Files -> SUBSET Op]

Working(o) == body[o] \in {"access", "read", "write", "truncated"}

(* The queue key is held for the whole body of an edit: the bodies of two  *)
(* calls with one key overlap only when the abort of one of them rejected  *)
(* its promise, and so released the queue, while a file operation of its   *)
(* body was under way.                                                     *)
OverlapOnlyByAbort ==
  \A o, q \in Op :
    o # q /\ key[o] = key[q] /\ Working(o) /\ Working(q)
    => outcome[o] = "aborted" \/ outcome[q] = "aborted"

LateWriter(o) ==
  outcome[o] = "aborted" /\ body[o] \in {"write", "truncated", "written", "failed"}

(* Every edit reported as successful is in the file, unless an edit that   *)
(* was aborted during writeFile wrote too, a write that failed half-way    *)
(* left the file torn, or edits of the file queued under different keys    *)
(* (getMutationQueueKey falls back to the path while the file is missing). *)
SuccessIsKept ==
  \A f \in Files :
    \/ applied[f] \subseteq content[f]
    \/ \E o \in Op : target[o] = f /\ (LateWriter(o) \/ body[o] \in {"truncated", "failed"})
    \/ \E o, q \in Op : target[o] = f /\ target[q] = f /\ key[o] # key[q]

(* Every edit call is answered, whatever is aborted, removed or fails.     *)
EveryEditAnswered == \A o \in Op : phase[o] = "waiting" ~> phase[o] = "released"

=============================================================================
