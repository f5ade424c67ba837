---------------------------- MODULE SessionTree ----------------------------
(* The session manager (core/session-manager.ts): a tree of entries held   *)
(* in memory, and the JSONL file it is written to.  Nothing is written     *)
(* before the first assistant message; from then on an entry is appended   *)
(* to the file, or the whole file is replaced when it is not up to date.   *)
(* A crash or a failing append can leave a torn line behind, and opening   *)
(* the file again repairs it.                                              *)
EXTENDS Naturals, FiniteSets, SequencesExt, Subsequences

CONSTANTS
    File,        \* session files
    Kinds,       \* kinds of entry this instance appends
    Faults,      \* subset of {"crash", "error", "delete"}
    MaxEntries,  \* bound: entries ever made
    MaxFaults    \* bound: crashes, failing writes and deletions

ASSUME SessionTreeAssumption ==
    /\ Kinds \subseteq {"message", "assistant", "state", "label", "compaction", "git", "plain"}
    /\ Faults \subseteq {"crash", "error", "delete"}
    /\ MaxEntries \in Nat /\ MaxFaults \in Nat

(* An entry is identified by a number; Root is the parentId of a first     *)
(* entry.  ref is the target of a label, or the first kept entry of a      *)
(* compaction; on tells a label that is set from one that is cleared.      *)
Root == 0
Id == 1 .. MaxEntries
Entry == [id : Id, parent : Id \cup {Root}, kind : Kinds \cup {"message", "summary", "label"},
          ref : Id \cup {Root}, on : BOOLEAN]

(* A line that parses is an entry or the header; Junk is one that does not.*)
Line(kind) == [id |-> Root, parent |-> Root, kind |-> kind, ref |-> Root, on |-> FALSE]
Header == Line("header")
Junk == Line("junk")

VARIABLES
    up,        \* a process has the session open
    file,      \* sessionFile
    entries,   \* fileEntries without the header
    leaf,      \* leafId
    labels,    \* the keys of labelsById
    hasAssistant, flushed,
    disk,      \* disk[f]: [exists, lines, tail]; tail "cut": part of a line
               \* follows the lines; "whole": the last line has no newline
    nextId, faults,
    saved,     \* saved[f]: entries reported as written to f
    poisoned   \* files on which a plain append failed since they were last
               \* opened or replaced: later lines may be welded to its remains

vars == <<up, file, entries, leaf, labels, hasAssistant, flushed, disk, nextId, faults,
          saved, poisoned>>

----------------------------------------------------------------------------
(* Operators on entries.                                                   *)

IdsOf(es) == {es[i].id : i \in DOMAIN es}

EntryOf(es, id) == es[CHOOSE i \in DOMAIN es : es[i].id = id]

(* getBranch: from an entry up to the first one whose parent is not there. *)
GetBranch(es, from) ==
    LET walk[i \in Nat] ==
            IF i \notin IdsOf(es) THEN <<>>
            ELSE Append(walk[EntryOf(es, i).parent], EntryOf(es, i))
    IN  walk[from]

(* Entries without those of a kind.                                        *)
Without(es, kind) == Keep(es, {e \in ToSet(es) : e.kind # kind})

Ids(es) == [i \in DOMAIN es |-> es[i].id]

InContext(e) == e.kind \in {"message", "assistant", "summary"}

ContextIds(es) == Ids(Keep(es, {e \in ToSet(es) : InContext(e)}))

(* buildSessionContext: the messages of the branch; the last compaction on *)
(* it comes first and hides what lies before its first kept entry.         *)
ContextOf(path) ==
    LET compactions == {i \in DOMAIN path : path[i].kind = "compaction"}
    IN  IF compactions = {} THEN ContextIds(path)
        ELSE LET last == CHOOSE i \in compactions : \A j \in compactions : j <= i
                 kept == {i \in 1 .. last - 1 : path[i].id = path[last].ref}
                 retained == IF kept = {} THEN <<>>
                             ELSE SubSeq(path, CHOOSE i \in kept : TRUE, last - 1)
             IN  <<path[last].id>> \o ContextIds(retained)
                 \o ContextIds(SubSeq(path, last + 1, Len(path)))

BuildSessionContext(es, at) == ContextOf(GetBranch(es, at))

(* The label part of _buildIndex: the last label entry for a target says   *)
(* whether it has a label.                                                 *)
LabelsOf(es) ==
    {es[i].ref : i \in {i \in DOMAIN es :
        /\ es[i].kind = "label" /\ es[i].on
        /\ \A j \in i + 1 .. Len(es) : ~(es[j].kind = "label" /\ es[j].ref = es[i].ref)}}

HasAssistant(es) == \E i \in DOMAIN es : es[i].kind = "assistant"

LeafOf(es) == IF es = <<>> THEN Root ELSE es[Len(es)].id

----------------------------------------------------------------------------
(* The file.                                                               *)

NoFile == [exists |-> FALSE, lines |-> <<>>, tail |-> "clean"]

(* _rewriteFile: a temporary file renamed over the old one.                *)
Rewritten(es) == [exists |-> TRUE, lines |-> <<Header>> \o es, tail |-> "clean"]

(* appendFileSync: a line written behind a tail without a newline becomes  *)
(* one line with it, which no longer parses.                               *)
AppendLine(d, e) ==
    [d EXCEPT !.tail = "clean",
              !.lines = CASE d.tail = "clean" -> Append(d.lines, e)
                          [] d.tail = "cut"   -> Append(d.lines, Junk)
                          [] d.tail = "whole" -> Append(Front(d.lines), Junk)]

(* What an append that fails, or is cut short by a crash, can leave.       *)
PartialLines(d, e) ==
    {d} \cup (CASE d.tail = "clean" -> {[d EXCEPT !.tail = "cut"],
                                        [d EXCEPT !.tail = "whole", !.lines = Append(@, e)]}
                [] d.tail = "cut"   -> {}
                [] d.tail = "whole" -> {[d EXCEPT !.tail = "cut", !.lines = Front(@)]})

(* Leaves the tail to the loader, which skips what does not parse.         *)
LenientRepair(d) == d

(* repairJsonlDamage: terminate a complete last line, drop a broken one.   *)
Repair(d) ==
    LET n == Len(d.lines)
    IN  [d EXCEPT !.tail = "clean",
                  !.lines = IF d.tail = "clean" /\ n > 0 /\ d.lines[n] = Junk
                            THEN Front(d.lines) ELSE d.lines]

(* loadEntriesFromFile: lines that do not parse are skipped, and a file    *)
(* that does not start with a header counts as empty.                      *)
Parsed(d) == Keep(d.lines, ToSet(d.lines) \ {Junk})

HasHeader(d) == Parsed(d) # <<>> /\ Parsed(d)[1] = Header

LoadEntries(d) == IF HasHeader(d) THEN Tail(Parsed(d)) ELSE <<>>

MayFail(fault) == fault \in Faults /\ faults < MaxFaults

(* flushNow without its early return, and the rewriting branch of _persist.*)
RewriteOutcomes(es, d, wasFlushed) ==
    {[d |-> Rewritten(es), flushed |-> TRUE, how |-> "replaced"]}
    \cup (IF MayFail("error") THEN {[d |-> d, flushed |-> wasFlushed, how |-> "failed"]} ELSE {})

(* _persist without the reset of flushed while nothing is written.         *)
HastyPersistOutcomes(es, assistant, e) ==
    LET d == disk[file]
    IN  IF ~assistant /\ e.kind # "state"
        THEN {[d |-> d, flushed |-> flushed, how |-> "deferred"]}
        ELSE IF ~flushed \/ ~d.exists THEN RewriteOutcomes(es, d, flushed)
        ELSE {[d |-> AppendLine(d, e), flushed |-> TRUE, how |-> "appended"]}

(* _persist: es and assistant already include the entry e.                 *)
PersistOutcomes(es, assistant, e) ==
    LET d == disk[file]
    IN  IF ~assistant /\ e.kind # "state"
        THEN {[d |-> d, flushed |-> FALSE, how |-> "deferred"]}
        ELSE IF ~flushed \/ ~d.exists
        THEN RewriteOutcomes(es, d, flushed)
        ELSE {[d |-> AppendLine(d, e), flushed |-> TRUE, how |-> "appended"]}
             \cup (IF MayFail("error")
                   THEN {[d |-> p, flushed |-> TRUE, how |-> "torn"] : p \in PartialLines(d, e)}
                   ELSE {})

----------------------------------------------------------------------------
(* Actions.  Each is one synchronous call.                                 *)

TypeOK ==
    /\ up \in BOOLEAN /\ file \in File
    /\ entries \in Seq(Entry) /\ leaf \in Id \cup {Root} /\ labels \subseteq Id
    /\ hasAssistant \in BOOLEAN /\ flushed \in BOOLEAN
    /\ disk \in [File -> [exists : BOOLEAN, lines : Seq(Entry \cup {Header, Junk}),
                          tail : {"clean", "cut", "whole"}]]
    /\ nextId \in 1 .. MaxEntries + 1 /\ faults \in 0 .. MaxFaults
    /\ saved \in [File -> SUBSET Id] /\ poisoned \subseteq File

Init ==
    /\ up = TRUE /\ file \in File
    /\ entries = <<>> /\ leaf = Root /\ labels = {}
    /\ hasAssistant = FALSE /\ flushed = FALSE
    /\ disk = [f \in File |-> NoFile]
    /\ nextId = 1 /\ faults = 0
    /\ saved = [f \in File |-> {}] /\ poisoned = {}

Failed(o) == o.how \in {"failed", "torn"}

(* Take over the outcome o of writing es.                                  *)
Take(es, o) ==
    /\ disk' = [disk EXCEPT ![file] = o.d]
    /\ flushed' = o.flushed
    /\ saved' = CASE o.how = "replaced" -> [saved EXCEPT ![file] = IdsOf(es)]
                  [] o.how = "appended" -> [saved EXCEPT ![file] = @ \cup {es[Len(es)].id}]
                  [] OTHER -> saved
    /\ faults' = IF Failed(o) THEN faults + 1 ELSE faults
    /\ poisoned' = CASE o.how = "replaced" -> poisoned \ {file}
                     [] o.how = "torn" -> poisoned \cup {file}
                     [] OTHER -> poisoned

NewEntry(kind, parent, ref, on) ==
    [id |-> nextId, parent |-> parent, kind |-> kind, ref |-> ref, on |-> on]

UncheckedRefs(kind) == IF kind = "compaction" THEN IdsOf(GetBranch(entries, leaf)) ELSE IdsOf(entries) \cup {Root}

(* The ref an entry of this kind can have: appendLabelChange requires its  *)
(* target, compaction keeps an entry of the active branch.                 *)
Refs(kind) ==
    CASE kind = "label" -> IdsOf(entries)
      [] kind = "compaction" -> IdsOf(GetBranch(entries, leaf))
      [] OTHER -> {Root}

(* The append* methods: the entry is in memory before it is written, and   *)
(* stays there when writing fails.                                         *)
AppendEntry(kind, parent, ref, on) ==
    /\ up /\ nextId <= MaxEntries
    /\ LET e == NewEntry(kind, parent, ref, on)
           es == Append(entries, e)
           assistant == hasAssistant \/ kind = "assistant"
       IN  \E o \in PersistOutcomes(es, assistant, e) :
             /\ Take(es, o)
             /\ entries' = es /\ leaf' = e.id /\ hasAssistant' = assistant
             /\ labels' = IF kind = "label" /\ ~Failed(o) THEN LabelsOf(<<e>>) \cup (labels \ {ref}) ELSE labels
    /\ nextId' = nextId + 1
    /\ UNCHANGED <<up, file>>

AppendMessage ==
    \E kind \in Kinds, on \in BOOLEAN : \E ref \in Refs(kind) :
      /\ kind = "label" \/ ~on
      /\ AppendEntry(kind, leaf, ref, on)

(* branchWithSummary: the summary hangs below the entry branched from.     *)
BranchWithSummary == \E from \in IdsOf(entries) \cup {Root} : AppendEntry("summary", from, Root, FALSE)

(* _appendEntryWithRollback: append, flush, and undo both on failure; the  *)
(* file is restored now or, failing that, by the next write.               *)
AppendWithRollback ==
    /\ up /\ nextId <= MaxEntries
    /\ \E kind \in Kinds \cap {"message", "plain"} :
       LET e == NewEntry(kind, leaf, Root, FALSE)
           es == Append(entries, e)
       IN  \E o \in PersistOutcomes(es, hasAssistant, e) :
           \E o2 \in IF ~Failed(o) /\ ~(o.flushed /\ o.d.exists)
                      THEN RewriteOutcomes(es, o.d, o.flushed) ELSE {o} :
             \/ /\ ~Failed(o2)
                /\ Take(es, o2)
                /\ entries' = es /\ leaf' = e.id
             \/ /\ Failed(o2)
                /\ faults' = faults + 1
                /\ \/ /\ disk' = [disk EXCEPT ![file] = Rewritten(entries)] /\ flushed' = TRUE
                      /\ saved' = [saved EXCEPT ![file] = IdsOf(entries)]
                      /\ poisoned' = poisoned \ {file}
                   \/ /\ disk' = [disk EXCEPT ![file] = o2.d] /\ flushed' = FALSE
                      /\ UNCHANGED <<saved, poisoned>>
                /\ UNCHANGED <<entries, leaf>>
    /\ nextId' = nextId + 1
    /\ UNCHANGED <<up, file, labels, hasAssistant>>

FlushNow ==
    /\ up /\ ~(flushed /\ disk[file].exists)
    /\ \E o \in RewriteOutcomes(entries, disk[file], flushed) : Take(entries, o)
    /\ UNCHANGED <<up, file, entries, leaf, labels, hasAssistant, nextId>>

(* branch and resetLeaf move the leaf and write nothing.                   *)
Branch ==
    /\ up /\ leaf' \in (IdsOf(entries) \cup {Root}) \ {leaf}
    /\ UNCHANGED <<up, file, entries, labels, hasAssistant, flushed, disk, nextId, faults, saved, poisoned>>

(* The path createBranchedSession copies.                                  *)
PathTo(at) == Without(GetBranch(entries, at), "label")

(* The label entries written behind the path, one for each label in force  *)
(* on it, here in the order of the path.                                   *)
LabelEntries(path) ==
    LET ts == Keep(Ids(path), labels)
    IN  [i \in DOMAIN ts |->
          [id |-> nextId + i - 1, parent |-> IF i = 1 THEN LeafOf(path) ELSE nextId + i - 2,
           kind |-> "label", ref |-> ts[i], on |-> TRUE]]

DroppingBranchedEntries(at) == Without(GetBranch(entries, at), "git")

(* The entries of the new session: the path without its label entries, and *)
(* the labels in force written again.                                      *)
BranchedEntries(at) == PathTo(at) \o LabelEntries(PathTo(at))

(* createUniqueSessionFileTarget: the name of a file that does not exist.  *)
UnusedFiles == {f \in File \ {file} : ~disk[f].exists /\ f \notin poisoned}

(* newSession: an empty tree and a file that is written later.             *)
NewSession ==
    /\ up /\ entries # <<>> /\ file' \in UnusedFiles
    /\ entries' = <<>> /\ leaf' = Root /\ labels' = {}
    /\ hasAssistant' = FALSE /\ flushed' = FALSE
    /\ UNCHANGED <<up, disk, nextId, faults, saved, poisoned>>

(* createBranchedSession: the file is written now only if it holds an      *)
(* assistant message.                                                      *)
CreateBranchedSession(at) ==
    /\ up /\ at \in IdsOf(entries)
    /\ LET es == BranchedEntries(at)
       IN  /\ nextId + Cardinality(labels) <= MaxEntries + 1
           /\ \E f \in UnusedFiles :
                              /\ file' = f
                              /\ \/ /\ HasAssistant(es)
                                    /\ disk' = [disk EXCEPT ![f] = Rewritten(es)]
                                    /\ saved' = [saved EXCEPT ![f] = IdsOf(es)]
                                    /\ flushed' = TRUE /\ UNCHANGED faults
                                 \/ /\ HasAssistant(es) /\ MayFail("error")
                                    /\ faults' = faults + 1 /\ UNCHANGED <<disk, saved, flushed>>
                                 \/ /\ ~HasAssistant(es)
                                    /\ flushed' = FALSE /\ UNCHANGED <<disk, saved, faults>>
           /\ entries' = es /\ leaf' = LeafOf(es) /\ labels' = LabelsOf(es)
           /\ hasAssistant' = HasAssistant(es)
           /\ nextId' = nextId + Len(LabelEntries(PathTo(at)))
    /\ UNCHANGED <<up, poisoned>>

(* setSessionFile: repair, load, index; the last entry becomes the leaf.   *)
(* A file without a header is replaced by a new session's.                 *)
Open(f) ==
    LET d == Repair(disk[f]) es == LoadEntries(d)
    IN  /\ file' = f /\ up' = TRUE
        /\ entries' = es /\ leaf' = LeafOf(es) /\ labels' = LabelsOf(es)
        /\ hasAssistant' = HasAssistant(es)
        /\ flushed' = disk[f].exists
        /\ disk' = [disk EXCEPT ![f] = IF ~disk[f].exists THEN @
                                       ELSE IF HasHeader(d) THEN d ELSE Rewritten(<<>>)]
        /\ saved' = IF f \in poisoned THEN [saved EXCEPT ![f] = IdsOf(es)] ELSE saved
        /\ poisoned' = poisoned \ {f}
        /\ UNCHANGED <<nextId, faults>>

Reopen == ~up /\ \E f \in File : Open(f)

UnlinkedForkEntries(es) == Without(es, "git")

(* forkFrom: the source's git entries are dropped and what hung below them *)
(* is linked to their nearest other ancestor.                              *)
ForkEntries(es) ==
    LET dropped(id) == id \in IdsOf(es) /\ EntryOf(es, id).kind = "git"
        live[i \in Nat] == IF dropped(i) THEN live[EntryOf(es, i).parent] ELSE i
        kept == Without(es, "git")
    IN  [i \in DOMAIN kept |-> [kept[i] EXCEPT !.parent = live[@]]]

ForkFrom(src) ==
    /\ ~up /\ HasHeader(disk[src])
    /\ \E f \in File \ {src} :
         LET es == ForkEntries(LoadEntries(disk[src]))
         IN  /\ ~disk[f].exists /\ f \notin poisoned
             /\ up' = TRUE /\ file' = f
             /\ disk' = [disk EXCEPT ![f] = Rewritten(es)]
             /\ saved' = [saved EXCEPT ![f] = IdsOf(es)]
             /\ entries' = es /\ leaf' = LeafOf(es) /\ labels' = LabelsOf(es)
             /\ hasAssistant' = HasAssistant(es) /\ flushed' = TRUE
    /\ UNCHANGED <<nextId, faults, poisoned>>

(* The process ends, between two calls or while appending a line.          *)
Forget ==
    /\ up /\ up' = FALSE
    /\ entries' = <<>> /\ leaf' = Root /\ labels' = {}
    /\ hasAssistant' = FALSE /\ flushed' = FALSE
    /\ UNCHANGED <<file, saved, poisoned>>

Exit == Forget /\ UNCHANGED <<disk, nextId, faults>>

CrashInAppend ==
    /\ Forget /\ MayFail("crash") /\ nextId <= MaxEntries
    /\ hasAssistant /\ flushed /\ disk[file].exists
    /\ \E d \in PartialLines(disk[file], NewEntry("message", leaf, Root, FALSE)) \ {disk[file]} :
         disk' = [disk EXCEPT ![file] = d]
    /\ faults' = faults + 1 /\ nextId' = nextId + 1

(* forkFrom writes line by line: dying on the way leaves a part of it.     *)
ForkDies(src) ==
    /\ ~up /\ MayFail("crash") /\ HasHeader(disk[src])
    /\ \E f \in File \ {src} :
         LET lines == <<Header>> \o ForkEntries(LoadEntries(disk[src]))
         IN  /\ ~disk[f].exists /\ f \notin poisoned
             /\ \E n \in 0 .. Len(lines) - 1, tail \in {"clean", "cut"} :
                  disk' = [disk EXCEPT ![f] = [exists |-> TRUE, lines |-> SubSeq(lines, 1, n), tail |-> tail]]
    /\ faults' = faults + 1
    /\ UNCHANGED <<up, file, entries, leaf, labels, hasAssistant, flushed, nextId, saved, poisoned>>

(* Somebody deletes the file of a live session.                            *)
DeleteFile ==
    /\ up /\ MayFail("delete") /\ disk[file].exists
    /\ disk' = [disk EXCEPT ![file] = NoFile]
    /\ saved' = [saved EXCEPT ![file] = {}]
    /\ faults' = faults + 1
    /\ UNCHANGED <<up, file, entries, leaf, labels, hasAssistant, flushed, nextId, poisoned>>

Next ==
    \/ AppendMessage \/ BranchWithSummary \/ AppendWithRollback \/ FlushNow \/ Branch
    \/ \E at \in Id : CreateBranchedSession(at)
    \/ NewSession \/ Reopen \/ (\E src \in File : ForkFrom(src) \/ ForkDies(src))
    \/ Exit \/ CrashInAppend \/ DeleteFile

Spec == Init /\ [][Next]_vars
----------------------------------------------------------------------------
(* Properties.                                                             *)

(* Whatever was reported as written survives: it is loaded again after any *)
(* sequence of crashes, torn lines, failing rollback appends and repairs.  *)
(* Only a failing append outside a rollback, which leaves flushed set over *)
(* a torn line, can cost an entry (_persist).                              *)
SavedIsLoadable ==
    \A f \in File \ poisoned : saved[f] \subseteq IdsOf(LoadEntries(Repair(disk[f])))

(* flushed means what it says: the file, read back, is the tree in memory, *)
(* in its order, so that appending one line is enough (_persist).          *)
FlushedIsFaithful ==
    up /\ flushed /\ disk[file].exists /\ file \notin poisoned =>
        LoadEntries(disk[file]) = entries

(* A fork has every branch of its source without the git entries, wherever *)
(* they stood on it (forkFrom's liveParent).                               *)
ForkKeepsBranches ==
    [][\A src \in File : ForkFrom(src) =>
          \A id \in IdsOf(entries') :
              Ids(GetBranch(entries', id))
              = Ids(Without(GetBranch(LoadEntries(disk[src]), id), "git"))]_vars

(* Extracting a branch keeps the conversation the model sees, provided no  *)
(* label entry stands on the path.                                         *)
BranchKeepsContext ==
    [][\A at \in Id : CreateBranchedSession(at)
            /\ (\A i \in DOMAIN GetBranch(entries, at) : GetBranch(entries, at)[i].kind # "label")
          => BuildSessionContext(entries', leaf') = BuildSessionContext(entries, at)]_vars

(* "The new session keeps the full active-path history" (README of the     *)
(* coding agent, /clone): the same without the proviso.                    *)
CloneKeepsHistory ==
    [][CreateBranchedSession(leaf)
          => BuildSessionContext(entries', leaf') = BuildSessionContext(entries, leaf)]_vars
============================================================================
