--------------------------- MODULE MemoryDocument ---------------------------
(***************************************************************************)
(* The transaction by which the memory document, its notes and its state   *)
(* are written (src/memoryDocumentTransaction.ts): several files that must  *)
(* change together on a file system that renames one at a time, while      *)
(* people edit them.  A manifest with the text of every file before and    *)
(* after is published beside them first, as a marker that stops everybody  *)
(* else; who finds it finishes the same transaction.  The workspace lease  *)
(* admits one writer at a time; it may die between any two steps.          *)
(***************************************************************************)
EXTENDS Naturals, FiniteSets

CONSTANTS
    File,       \* the primary document, notes, manifest, config and state
    Text,       \* contents, that of no file among them
    MaxPrepared,\* bound: transactions prepared
    None

VARIABLES
    file,       \* file[f] : its content
    marker,     \* the manifest in .pending-document-write.json, or None
    plan,       \* the manifest the host keeps (a session plan), or None
    prepared,   \* how many transactions were prepared
    pc,         \* the writer
    work,       \* the manifest it applies
    todo,       \* the files it has not come to yet
    current,    \* the file it has checked and is about to rename over
    last,       \* history: the last manifest prepared
    edited,     \* history: files somebody edited since then
    raced       \* history: files edited between their check and the rename after it

vars == <<file, marker, plan, prepared, pc, work, todo, current, last, edited, raced>>
writer == <<pc, work, todo, current>>
history == <<last, edited, raced>>

\* The texts are total here: only those of the files that differ are in the code's.
Manifest == [id : 1 .. MaxPrepared, files : (SUBSET File) \ {{}},
             before : [File -> Text], after : [File -> Text]]

TypeOK ==
    /\ file \in [File -> Text]
    /\ {marker, plan, work, last} \subseteq Manifest \cup {None}
    /\ prepared \in 0 .. MaxPrepared
    /\ pc \in {"idle", "prepared", "scanned", "published", "writing", "applied", "cleared"}
    /\ pc = "idle" <=> work = None
    /\ todo \subseteq File
    /\ current \in todo \cup {None}
    /\ edited \subseteq File
    /\ raced \subseteq edited

Init ==
    /\ file \in [File -> Text]
    /\ marker = None /\ plan = None /\ prepared = 0
    /\ pc = "idle" /\ work = None /\ todo = {} /\ current = None
    /\ last = None /\ edited = {} /\ raced = {}

Applied(m) == {f \in m.files : file[f] = m.after[f]}
Untouched(m) == {f \in m.files : file[f] = m.before[f]}

\* scan, its state ready.  The reads of one scan are one step.
Ready(m) == Applied(m) \cup Untouched(m) = m.files

\* prepareMemoryDocumentTransaction.  A host that must be able to repeat it keeps
\* the manifest of its own (keep) before it applies it.
Prepare ==
    /\ pc = "idle" /\ marker = None /\ plan = None
    /\ prepared < MaxPrepared
    /\ \E wanted \in [File -> Text], keep \in BOOLEAN :
          LET changed == {f \in File : wanted[f] # file[f]}
              manifest == [id |-> prepared + 1, files |-> changed, before |-> file, after |-> wanted]
          IN
          /\ changed # {}
          /\ work' = manifest /\ last' = manifest
          /\ plan' = IF keep THEN manifest ELSE None
    /\ prepared' = prepared + 1
    /\ pc' = "prepared"
    /\ edited' = {} /\ raced' = {}
    /\ UNCHANGED <<file, marker, todo, current>>

\* The host comes back to the plan it kept.
Resume ==
    /\ pc = "idle" /\ plan # None
    /\ work' = plan
    /\ pc' = "prepared"
    /\ UNCHANGED <<file, marker, plan, prepared, todo, current, history>>

\* applyPreparedMemoryDocumentTransaction, of a transaction that may be half done.
ScanPrepared ==
    /\ pc = "prepared"
    /\ marker \in {None, work}
    /\ Ready(work)
    /\ pc' = "scanned"
    /\ UNCHANGED <<file, marker, plan, prepared, work, todo, current, history>>

\* recoverMemoryDocumentTransaction, of the marker alone.
Recover ==
    /\ pc = "idle" /\ marker # None
    /\ work' = marker
    /\ pc' = "published"
    /\ UNCHANGED <<file, marker, plan, prepared, todo, current, history>>

\* Faulty: the host's own manifest is evidence enough.
PublishNothing ==
    /\ pc = "scanned"
    /\ pc' = "published"
    /\ UNCHANGED <<file, marker, plan, prepared, work, todo, current, history>>

\* durableWrite, exclusive: linked from a complete and synced file.
Publish ==
    /\ pc = "scanned"
    /\ marker' = work
    /\ pc' = "published"
    /\ UNCHANGED <<file, plan, prepared, work, todo, current, history>>

\* apply scans once more.
BeginApply ==
    /\ pc = "published"
    /\ Ready(work)
    /\ pc' = "writing"
    /\ todo' = work.files
    /\ UNCHANGED <<file, marker, plan, prepared, work, current, history>>

SkipApplied(f) ==
    /\ pc = "writing" /\ current = None /\ f \in todo
    /\ file[f] = work.after[f]
    /\ todo' = todo \ {f}
    /\ UNCHANGED <<file, marker, plan, prepared, pc, work, current, history>>

\* Faulty: the scan before the loop is enough.
CheckNothing(f) ==
    /\ pc = "writing" /\ current = None /\ f \in todo
    /\ current' = f
    /\ raced' = raced \ {f}
    /\ UNCHANGED <<file, marker, plan, prepared, pc, work, todo, last, edited>>

\* A file is looked at right before it is replaced.
CheckFile(f) ==
    /\ pc = "writing" /\ current = None /\ f \in todo
    /\ file[f] = work.before[f]
    /\ current' = f
    /\ raced' = raced \ {f}
    /\ UNCHANGED <<file, marker, plan, prepared, pc, work, todo, last, edited>>

\* Faulty: the file in hand is not let go.
ReplaceHolding ==
    /\ pc = "writing" /\ current # None
    /\ file' = [file EXCEPT ![current] = work.after[current]]
    /\ todo' = todo \ {current}
    /\ UNCHANGED <<marker, plan, prepared, pc, work, current, history>>

\* durableWrite renames a synced temporary file, or the file is unlinked.
ReplaceFile ==
    /\ pc = "writing" /\ current # None
    /\ file' = [file EXCEPT ![current] = work.after[current]]
    /\ todo' = todo \ {current}
    /\ current' = None
    /\ UNCHANGED <<marker, plan, prepared, pc, work, history>>

\* The second scan: every file holds its new text.
VerifyApplied ==
    /\ pc = "writing" /\ current = None /\ todo = {}
    /\ Applied(work) = work.files
    /\ pc' = "applied"
    /\ UNCHANGED <<file, marker, plan, prepared, work, todo, current, history>>

\* Faulty: a marker over a document that is all new stops nobody.
LeaveMarker ==
    /\ pc = "applied"
    /\ marker = work
    /\ pc' = "cleared"
    /\ UNCHANGED <<file, marker, plan, prepared, work, todo, current, history>>

\* The marker must still be this one.
ClearMarker ==
    /\ pc = "applied"
    /\ marker = work
    /\ marker' = None
    /\ pc' = "cleared"
    /\ UNCHANGED <<file, plan, prepared, work, todo, current, history>>

\* The host gives up its plan once the transaction is through.
Return ==
    /\ pc = "cleared"
    /\ plan' = None
    /\ pc' = "idle" /\ work' = None
    /\ UNCHANGED <<file, marker, prepared, todo, current, history>>

\* A check fails, a write fails, or the process dies.
Stop ==
    /\ pc # "idle"
    /\ pc' = "idle" /\ work' = None /\ todo' = {} /\ current' = None
    /\ UNCHANGED <<file, marker, plan, prepared, history>>

\* Another program edits a file.
Edit(f) ==
    /\ \E t \in Text \ {file[f]} : file' = [file EXCEPT ![f] = t]
    /\ edited' = edited \cup {f}
    /\ raced' = IF current = f THEN raced \cup {f} ELSE raced
    /\ UNCHANGED <<marker, plan, prepared, writer, last>>

Step ==
    \/ ScanPrepared \/ Publish \/ BeginApply \/ ReplaceFile \/ VerifyApplied
    \/ ClearMarker \/ Return
    \/ \E f \in File : SkipApplied(f) \/ CheckFile(f)

Next ==
    \/ Prepare \/ Resume \/ Recover \/ Step \/ Stop
    \/ \E f \in File : Edit(f)

Spec == Init /\ [][Next]_vars

\* The writer goes on, an error ends its run, and recovery is asked for again.
Refused == ~ENABLED Step
Fairness == WF_vars(Step) /\ WF_vars(Refused /\ Stop) /\ WF_vars(Recover)

-----------------------------------------------------------------------------
(* Properties.                                                             *)

\* What is overwritten is the text the transaction recorded as it found it, however
\* many runs it takes, unless somebody edits that very file between its check and
\* the rename right after (apply reads each file again before it replaces it).
EditsSurvive ==
    [][ReplaceFile /\ file[current] # work.before[current] => current \in raced]_vars

\* Without edits, a reader who finds no marker finds all of the last transaction or
\* nothing of it, wherever its runs stopped (assertMemoryDocumentReady refuses
\* who finds one).
NoTornDocument ==
    marker = None /\ edited = {} /\ last # None =>
        Applied(last) = last.files \/ Untouched(last) = last.files

\* Neither half a transaction nor the loss of somebody's edit: the two above.
DocumentKept == [](TypeOK /\ NoTornDocument) /\ EditsSurvive

\* Once edits and deaths cease, a marker over files that hold either text goes,
\* and nothing but finishing the transaction takes it away.
Calm == (\A f \in File : ~Edit(f)) /\ (Stop => Return \/ Refused)
HalfDone == marker # None /\ Ready(marker)
HalfDoneCompletes == <>[][Calm]_vars => []<>~HalfDone

=============================================================================
