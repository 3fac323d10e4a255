----------------------------- MODULE MemorySync -----------------------------
(***************************************************************************)
(* The revisions of a memory document on the server and its copies on      *)
(* devices (project-memory-server.ts): pushProjectMemory, pullProject-     *)
(* Memory, resolveProjectMemoryConflict, restoreProjectMemoryRevision, and *)
(* the backup outbox that pushes a saved text later (memorySaveMaintenance *)
(* .ts, memorySaveStore.ts).  A revision is appended by a compare-and-set  *)
(* of the head (src/schemaSql.ts), so the server's history is a sequence.  *)
(* Several operations run at one device, in processes of their own; people *)
(* and agents edit the document meanwhile.                                 *)
(***************************************************************************)
EXTENDS Integers, Sequences, FiniteSets

CONSTANTS
    Device,
    Proc,          \* a run of an operation
    DeviceOf,      \* DeviceOf[p] : where p runs
    Text,          \* documents; equal hashes are equal texts
    Template,      \* the document initializeProjectMemory seeds
    Stable,        \* Stable[t] : stabilizeProjectMemoryEntryIds
    Kinds,         \* the operations people use in an instance
    MaxRevisions,  \* bound: revisions
    MaxEdits,      \* bound: edits of documents
    MaxAttempts,   \* attempts of a backup, 20
    MaxLate,       \* bound: requests under way that nobody waits for
    None

ASSUME SyncAssumption ==
    /\ DeviceOf \in [Proc -> Device]
    /\ Template \in Text /\ None \notin Text
    /\ Stable \in [Text -> Text] /\ \A t \in Text : Stable[Stable[t]] = Stable[t]
    /\ Kinds \subseteq {"push", "force-push", "pull", "force-pull", "keep-local", "merged",
                        "use-remote", "restore", "backup"}
    /\ {MaxRevisions, MaxEdits, MaxAttempts, MaxLate} \subseteq Nat

VARIABLES
    revs,      \* the revisions in order, [text, knew, kind]
    requests,  \* appends the server may still execute
    doc,       \* doc[d] : the memory document
    config,    \* config[d] : lastPulledRevisionId and lastSyncedHash
    backups,   \* backups[d] : what only .agent-memory/backups has
    op,        \* op[p] : the operation p runs
    outbox,    \* outbox[d] : the row of a saved text in backup_outbox
    edits      \* bound

vars == <<revs, requests, doc, config, backups, op, outbox, edits>>

Config == [cursor : 0 .. MaxRevisions, synced : Text \cup {None}]
NoConfig == [cursor |-> 0, synced |-> None]
Idle == [kind |-> "none", pc |-> "idle", text |-> None, latest |-> 0, seen |-> NoConfig]
NoBackup == [state |-> "none", text |-> None, parent |-> 0, attempts |-> 0]
PushKinds == {"push", "force-push", "backup"}
PullKinds == {"pull", "force-pull"}
AppendKinds == {"keep-local", "merged"}
ResolveKinds == AppendKinds \cup {"use-remote"}

TypeOK ==
    /\ revs \in Seq([text : Text, knew : Text \cup {None}, kind : PushKinds]) /\ Len(revs) <= MaxRevisions
    /\ requests \subseteq [by : Proc, parent : 0 .. MaxRevisions, text : Text,
                           knew : Text \cup {None}, kind : PushKinds, awaited : BOOLEAN]
    /\ doc \in [Device -> Text]
    /\ config \in [Device -> Config]
    /\ \A d \in Device :
          config[d] # NoConfig => config[d].cursor \in 1 .. Len(revs)
                                  /\ config[d].synced = revs[config[d].cursor].text
    /\ backups \in [Device -> SUBSET Text]
    /\ op \in [Proc -> [kind : Kinds \cup {"none"}, text : Text \cup {None},
                        pc : {"idle", "head", "decide", "cas", "check", "install", "save"},
                        latest : 0 .. MaxRevisions, seen : Config]]
    /\ outbox \in [Device -> [state : {"none", "pending", "complete", "blocked"},
                              text : Text \cup {None}, parent : 0 .. MaxRevisions,
                              attempts : 0 .. MaxAttempts]]
    /\ edits \in 0 .. MaxEdits

Init ==
    /\ revs = <<>> /\ requests = {}
    /\ doc = [d \in Device |-> Template]
    /\ config = [d \in Device |-> NoConfig]
    /\ backups = [d \in Device |-> {}]
    /\ op = [p \in Proc |-> Idle]
    /\ outbox = [d \in Device |-> NoBackup]
    /\ edits = 0

At(p, pc) == op[p].pc = pc
Goto(p, pc) == op' = [op EXCEPT ![p].pc = pc]
End(p) == op' = [op EXCEPT ![p] = Idle]
Here(p) == doc[DeviceOf[p]]
\* The seed holds nobody's work.
OnServer == {Template} \cup {revs[i].text : i \in 1 .. Len(revs)}
TextOf(i) == IF i = 0 THEN None ELSE revs[i].text

\* The tick of the maintenance takes the result of its backup.
EndBackup(p, results) ==
    /\ End(p)
    /\ IF op[p].kind # "backup" THEN UNCHANGED outbox
       ELSE \E r \in results : outbox' = [outbox EXCEPT ![DeviceOf[p]].state = r]

-----------------------------------------------------------------------------
(* Beginnings.                                                             *)

\* The document is read, with the agreement of that moment; a push repairs lost
\* entry identities first.
StartPush(p) ==
    /\ At(p, "idle")
    /\ \E k \in Kinds \cap {"push", "force-push"} :
          op' = [op EXCEPT ![p] = [kind |-> k, pc |-> "head", text |-> Stable[Here(p)],
                                   latest |-> 0, seen |-> config[DeviceOf[p]]]]
    /\ doc' = [doc EXCEPT ![DeviceOf[p]] = Stable[@]]
    /\ UNCHANGED <<revs, requests, config, backups, outbox, edits>>

StartPull(p) ==
    /\ At(p, "idle")
    /\ \E k \in Kinds \cap PullKinds : op' = [op EXCEPT ![p] = [Idle EXCEPT !.kind = k, !.pc = "head"]]
    /\ UNCHANGED <<revs, requests, doc, config, backups, outbox, edits>>

\* resolveProjectMemoryConflict: a person was shown a head, maybe one of the past,
\* and the document as it is; at another document it stops at once.
StartResolve(p) ==
    /\ At(p, "idle")
    /\ \E k \in Kinds \cap ResolveKinds, shown \in 1 .. Len(revs) :
          op' = [op EXCEPT ![p] = [Idle EXCEPT !.kind = k, !.pc = "head", !.text = Here(p),
                                               !.latest = shown]]
    /\ UNCHANGED <<revs, requests, doc, config, backups, outbox, edits>>

\* restoreProjectMemoryRevision: any revision, over any document.
StartRestore(p) ==
    /\ At(p, "idle") /\ "restore" \in Kinds
    /\ \E i \in 1 .. Len(revs) :
          op' = [op EXCEPT ![p] = [Idle EXCEPT !.kind = "restore", !.pc = "check", !.latest = i]]
    /\ UNCHANGED <<revs, requests, doc, config, backups, outbox, edits>>

\* A save leaves a backup intent with its text and the head it was made under.
Enqueue(d) ==
    /\ "backup" \in Kinds /\ outbox[d].state = "none"
    /\ outbox' = [outbox EXCEPT ![d] = [state |-> "pending", text |-> doc[d],
                                        parent |-> config[d].cursor, attempts |-> 0]]
    /\ UNCHANGED <<revs, requests, doc, config, backups, op, edits>>

Guarded(p) == op[p].kind = "backup"

\* Faulty: the backup is of whatever the document says now.
GuardIgnored(d) == TRUE

\* assertBackupGuard: the document still has the text that was saved.
GuardHolds(d) == doc[d] = outbox[d].text

TakeAttempt(p) ==
    LET d == DeviceOf[p] IN
    op' = [op EXCEPT ![p] = [kind |-> "backup", pc |-> "head", text |-> doc[d], latest |-> 0,
                             seen |-> config[d]]]

\* Faulty: only an answer counts as an attempt.
ReserveUncounted(p) ==
    LET d == DeviceOf[p] IN
    IF GuardHolds(d) THEN TakeAttempt(p) /\ UNCHANGED outbox
    ELSE outbox' = [outbox EXCEPT ![d].state = "blocked"] /\ UNCHANGED op

\* nextBackup counts an attempt before it is made and blocks the row after the last.
Reserve(p) ==
    LET d == DeviceOf[p] IN
    IF outbox[d].attempts >= MaxAttempts
    THEN outbox' = [outbox EXCEPT ![d].state = "blocked"] /\ UNCHANGED op
    ELSE /\ outbox' = [outbox EXCEPT ![d].attempts = @ + 1,
                                     ![d].state = IF GuardHolds(d) THEN @ ELSE "blocked"]
         /\ IF GuardHolds(d) THEN TakeAttempt(p) ELSE UNCHANGED op

\* The maintenance's tick; it runs once at a time.
StartBackup(p) ==
    /\ At(p, "idle") /\ outbox[DeviceOf[p]].state = "pending"
    /\ \A q \in Proc : DeviceOf[q] = DeviceOf[p] => ~Guarded(q)
    /\ Reserve(p)
    /\ UNCHANGED <<revs, requests, doc, config, backups, edits>>

-----------------------------------------------------------------------------
(* The head is asked for, and what follows may see it moved.               *)

\* latestRemoteRevision.  A resolution stops at a head that was not shown.
ReadHead(p) ==
    /\ At(p, "head")
    /\ IF op[p].kind \in ResolveKinds
       THEN /\ IF Len(revs) # op[p].latest THEN End(p)
               ELSE Goto(p, IF op[p].kind \in AppendKinds THEN "decide" ELSE "check")
            /\ UNCHANGED outbox
       ELSE IF op[p].kind \in PullKinds
       THEN /\ IF revs = <<>> THEN End(p)
               ELSE op' = [op EXCEPT ![p].latest = Len(revs), ![p].pc = "check",
                                     ![p].seen = config[DeviceOf[p]]]
            /\ UNCHANGED outbox
       ELSE IF Guarded(p) /\ ~(GuardHolds(DeviceOf[p])
                  /\ (TextOf(Len(revs)) = op[p].text \/ Len(revs) = outbox[DeviceOf[p]].parent))
       THEN EndBackup(p, {"blocked"})
       ELSE op' = [op EXCEPT ![p].latest = Len(revs), ![p].pc = "decide"] /\ UNCHANGED outbox
    /\ UNCHANGED <<revs, requests, doc, config, backups, edits>>

\* projectMemoryRemoteMovedSinceSync.
Moved(p) ==
    LET o == op[p] IN
    /\ o.latest # 0
    /\ o.latest # o.seen.cursor
    /\ TextOf(o.latest) # o.seen.synced

\* Faulty: the agreement is on the text that was in the document.
AgreeOnOwn(p) ==
    /\ config' = [config EXCEPT ![DeviceOf[p]] = [cursor |-> op[p].latest, synced |-> op[p].text]]
    /\ EndBackup(p, {"complete", "pending"})

\* saveConfig of the agreement.  A backup is complete when the journal and the
\* feedback are there too.
Agree(p) ==
    /\ config' = [config EXCEPT ![DeviceOf[p]] = [cursor |-> op[p].latest,
                                                  synced |-> TextOf(op[p].latest)]]
    /\ EndBackup(p, {"complete", "pending"})

\* The head has the text already: the agreement is noted.
PushIsThere(p) ==
    /\ At(p, "decide") /\ op[p].kind \in PushKinds
    /\ TextOf(op[p].latest) = op[p].text
    /\ Agree(p)
    /\ UNCHANGED <<revs, requests, doc, backups, edits>>

PushConflict(p) ==
    /\ At(p, "decide") /\ op[p].kind \in {"push", "backup"}
    /\ TextOf(op[p].latest) # op[p].text /\ Moved(p)
    /\ EndBackup(p, {"blocked"})
    /\ UNCHANGED <<revs, requests, doc, config, backups, edits>>

RequestAppend(p, text, knew) ==
    /\ requests' = requests \cup {[by |-> p, parent |-> op[p].latest, text |-> text,
                                   knew |-> knew, kind |-> op[p].kind, awaited |-> TRUE]}
    /\ op' = [op EXCEPT ![p].pc = "cas", ![p].text = text]

\* appendProjectMemoryRevisionCas under the head that was read.  A backup looks at
\* its guard once more.
SendPush(p) ==
    /\ At(p, "decide") /\ op[p].kind \in PushKinds
    /\ TextOf(op[p].latest) # op[p].text
    /\ op[p].kind # "force-push" => ~Moved(p)
    /\ IF Guarded(p) /\ ~GuardHolds(DeviceOf[p])
       THEN EndBackup(p, {"blocked"}) /\ UNCHANGED requests
       ELSE RequestAppend(p, op[p].text, op[p].seen.synced) /\ UNCHANGED outbox
    /\ UNCHANGED <<revs, doc, config, backups, edits>>

\* A resolution appends what the person chose to the head that was shown.  Its
\* own agreement keeps the text of the document for the comparison afterwards.
SendResolve(p) ==
    /\ At(p, "decide") /\ op[p].kind \in AppendKinds
    /\ \E t \in IF op[p].kind = "keep-local" THEN {op[p].text} ELSE Text :
          /\ requests' = requests \cup {[by |-> p, parent |-> op[p].latest, text |-> Stable[t],
                                         knew |-> TextOf(op[p].latest), kind |-> "push",
                                         awaited |-> TRUE]}
          /\ op' = [op EXCEPT ![p].pc = "cas", ![p].text = Stable[t],
                              ![p].seen.synced = op[p].text]
    /\ UNCHANGED <<revs, doc, config, backups, outbox, edits>>

\* Faulty: the row is inserted whatever the head is.
MayAppendAnywhere(r) == TRUE

\* portmgr_append_project_memory_revision.
MayAppend(r) == Len(revs) = r.parent

\* The server executes an append, and answers whoever still waits.
Execute(r) ==
    /\ MayAppend(r) => Len(revs) < MaxRevisions
    /\ requests' = requests \ {r}
    /\ revs' = IF MayAppend(r)
               THEN Append(revs, [text |-> r.text, knew |-> r.knew, kind |-> r.kind]) ELSE revs
    /\ IF ~r.awaited THEN UNCHANGED <<op, outbox>>
       ELSE IF MayAppend(r)
       THEN /\ op' = [op EXCEPT ![r.by].latest = Len(revs) + 1,
                                ![r.by].pc = IF op[r.by].kind \in AppendKinds THEN "check" ELSE "save"]
            /\ UNCHANGED outbox
       ELSE EndBackup(r.by, {"blocked"})
    /\ UNCHANGED <<doc, config, backups, edits>>

-----------------------------------------------------------------------------
(* Writing at the device.                                                  *)

\* Faulty: a device without an agreement takes what the server has.
LocallyChangedSince(p) ==
    /\ op[p].seen.synced # None
    /\ Here(p) # op[p].seen.synced

\* A pull may replace what was agreed on, or a document that nobody wrote in.
LocallyChanged(p) ==
    IF op[p].seen.synced # None THEN Here(p) # op[p].seen.synced ELSE Here(p) # Template

\* Faulty: what is replaced is believed to be on the server.
ReplaceUnsaved(p) ==
    /\ op' = [op EXCEPT ![p].pc = "install", ![p].text = Here(p)]
    /\ UNCHANGED backups

\* backupMemory.  From here on op.text is the text that is replaced.
Replace(p) ==
    /\ backups' = [backups EXCEPT ![DeviceOf[p]] = @ \cup ({Here(p)} \ OnServer)]
    /\ op' = [op EXCEPT ![p].pc = "install", ![p].text = Here(p)]

\* pullProjectMemory compares after the last of its waits.
CheckPull(p) ==
    /\ At(p, "check") /\ op[p].kind \in PullKinds
    /\ IF Here(p) = TextOf(op[p].latest)
       THEN op' = [op EXCEPT ![p].pc = "install", ![p].text = Here(p)] /\ UNCHANGED backups
       ELSE IF op[p].kind = "pull" /\ LocallyChanged(p) THEN End(p) /\ UNCHANGED backups
       ELSE Replace(p)
    /\ UNCHANGED <<revs, requests, doc, config, outbox, edits>>

\* assertProjectMemoryLocalVersion: the document is still the one that was shown.
CheckResolve(p) ==
    LET o == op[p]
        shown == IF o.kind = "use-remote" THEN o.text ELSE o.seen.synced IN
    /\ At(p, "check") /\ o.kind \in ResolveKinds
    /\ IF Here(p) # shown THEN End(p) /\ UNCHANGED backups
       ELSE IF o.kind = "keep-local" /\ o.text = shown THEN Goto(p, "save") /\ UNCHANGED backups
       ELSE Replace(p)
    /\ UNCHANGED <<revs, requests, doc, config, outbox, edits>>

CheckRestore(p) ==
    /\ At(p, "check") /\ op[p].kind = "restore"
    /\ Replace(p)
    /\ UNCHANGED <<revs, requests, doc, config, outbox, edits>>

\* installIncomingProjectMemoryContent; a resolution's text is stable already.
Install(p) ==
    /\ At(p, "install")
    /\ doc' = [doc EXCEPT ![DeviceOf[p]] = Stable[TextOf(op[p].latest)]]
    /\ Goto(p, "save")
    /\ UNCHANGED <<revs, requests, config, backups, outbox, edits>>

SaveConfig(p) ==
    /\ At(p, "save")
    /\ Agree(p)
    /\ UNCHANGED <<revs, requests, doc, backups, edits>>

\* A request times out or fails, or the process dies; what was sent is lost or
\* may still be executed.
Fail(p) ==
    /\ op[p].pc # "idle"
    /\ LET mine == {r \in requests : r.by = p /\ r.awaited} IN
       \/ requests' = requests \ mine
       \/ /\ mine # {} /\ Cardinality({r \in requests : ~r.awaited}) < MaxLate
          /\ requests' = (requests \ mine) \cup {[r EXCEPT !.awaited = FALSE] : r \in mine}
    /\ End(p)
    /\ UNCHANGED <<revs, doc, config, backups, outbox, edits>>

Edit(d) ==
    /\ edits < MaxEdits
    /\ edits' = edits + 1
    /\ \E t \in Text \ {Template, doc[d]} : doc' = [doc EXCEPT ![d] = t]
    /\ UNCHANGED <<revs, requests, config, backups, op, outbox>>

Step(p) ==
    \/ ReadHead(p)
    \/ PushIsThere(p) \/ PushConflict(p) \/ SendPush(p) \/ SendResolve(p)
    \/ CheckPull(p) \/ CheckResolve(p) \/ CheckRestore(p)
    \/ Install(p) \/ SaveConfig(p)

Next ==
    \/ \E p \in Proc :
          \/ StartPush(p) \/ StartPull(p) \/ StartResolve(p) \/ StartRestore(p) \/ StartBackup(p)
          \/ Step(p) \/ Fail(p)
    \/ \E r \in requests : Execute(r)
    \/ \E d \in Device : Edit(d) \/ Enqueue(d)

Spec == Init /\ [][Next]_vars

\* The maintenance ticks for ever in a run of its own, and every operation ends, its
\* waits being bounded.
Fairness ==
    /\ SF_vars(\E p \in Proc : StartBackup(p))
    /\ \A p \in Proc : WF_vars(Step(p) \/ Fail(p))

-----------------------------------------------------------------------------
(* Properties.                                                             *)

\* Nobody covers up a revision unseen: whoever appended one, unless told to force
\* it, had agreed on or was shown the text of the revision before, whatever was
\* appended, delayed or lost meanwhile.
InformedChain ==
    \A i \in 2 .. Len(revs) : revs[i].kind # "force-push" => revs[i].knew = revs[i - 1].text

\* A text that an operation replaces is on the server or in a backup, unless it is
\* the seed or was edited in after the operation had read it.
NothingLost ==
    [][\A p \in Proc : Install(p) /\ Here(p) = op[p].text =>
          Here(p) \in backups[DeviceOf[p]] \cup OnServer]_vars

\* A pull that is not forced starts replacing only what the server has, or what
\* nobody wrote in.
UnsyncedKept ==
    [][\A p \in Proc : CheckPull(p) /\ op'[p].pc = "install" /\ op[p].kind = "pull" =>
          Here(p) \in OnServer]_vars

\* A backup that is called complete is on the server.
BackupIsExact ==
    \A d \in Device :
        outbox[d].state = "complete" => \E i \in 1 .. Len(revs) : revs[i].text = outbox[d].text

\* A saved text is appended by its backup once at most, however its attempts time
\* out and arrive late: right after the head that the save was made under, and
\* there is one revision in that place.
BackedUpOnce ==
    \A i \in 1 .. Len(revs) : revs[i].kind = "backup" =>
        \E d \in Device : outbox[d].text = revs[i].text /\ outbox[d].parent + 1 = i

\* The history of the server as a whole: the three invariants above.
HistoryIsSound == TypeOK /\ InformedChain /\ BackupIsExact /\ BackedUpOnce

\* Every backup is completed or handed to a person.
OutboxSettles == \A d \in Device : []<>(outbox[d].state # "pending")

=============================================================================
