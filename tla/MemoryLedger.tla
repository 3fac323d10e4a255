---------------------------- MODULE MemoryLedger ----------------------------
(***************************************************************************)
(* The replication of the session journal and the feedback of a memory     *)
(* between devices (project-memory-server.ts, src/projectMemoryLedgerState *)
(* .ts) through a table in which a trigger of the database numbers the     *)
(* rows (PROJECT_MEMORY_LEDGER_SCALE_SQL of src/schemaSql.ts).  A device    *)
(* pulls the rows after its cursor and pushes what it does not know to be  *)
(* stored; cursor and acknowledgements are a cache that may be lost.       *)
(* Entries are known by a hash of their content, of either layer.          *)
(***************************************************************************)
EXTENDS Integers, FiniteSets, FiniteSetsExt

CONSTANTS
    Device,
    Entry,         \* journal entries and feedback events
    PageSize,      \* p_limit of a page, 1000
    MaxSeq,        \* bound: numbers given out
    MaxLosses,     \* bound: caches and files lost, transactions aborted
    MaxRewinds,    \* bound: restorations of the database to an earlier moment
    RewindTails    \* whether one may fall between a cursor and later acknowledgements

ASSUME LedgerAssumption ==
    /\ PageSize \in Nat \ {0}
    /\ {MaxSeq, MaxLosses, MaxRewinds} \subseteq Nat
    /\ RewindTails \in BOOLEAN

VARIABLES
    rows,      \* committed ledger changes, {[seq, entry]}
    nextSeq,   \* the identity of portmgr_project_memory_ledger_changes
    txns,      \* uploads the database works on, {[device, entry, seq]}, 0 before its number
    local,     \* local[d] : the entries in the files of d
    acked,     \* acked[d] : ledger_ack
    cursor,    \* cursor[d] : remote_cursor, 0 for none
    anchor,    \* anchor[d] : the entry of its row
    pc,        \* pc[d] : the sync of d
    page,      \* page[d] : rows pulled and not committed to the cache
    upload,    \* upload[d] : entries of the push in hand that were not sent
    sent,      \* sent[d] : the batch it waits for, of one entry here
    losses,    \* bounds
    rewinds

server == <<rows, nextSeq, txns, rewinds>>
cache == <<acked, cursor, anchor>>
push == <<upload, sent>>
vars == <<server, local, cache, pc, page, push, losses>>

Stored == {r.entry : r \in rows}
TopSeq == IF rows = {} THEN 0 ELSE Max({r.seq : r \in rows})
Row == [seq : 1 .. MaxSeq, entry : Entry]

TypeOK ==
    /\ rows \subseteq Row
    /\ \A r, q \in rows : r # q => r.seq # q.seq /\ r.entry # q.entry
    /\ nextSeq \in 1 .. MaxSeq + 1
    /\ txns \subseteq [device : Device, entry : Entry, seq : 0 .. MaxSeq]
    /\ local \in [Device -> SUBSET Entry]
    /\ acked \in [Device -> SUBSET Entry]
    /\ cursor \in [Device -> 0 .. MaxSeq]
    /\ anchor \in [Device -> SUBSET Entry]
    /\ \A d \in Device : Cardinality(anchor[d]) = (IF cursor[d] = 0 THEN 0 ELSE 1)
    /\ pc \in [Device -> {"idle", "verify", "pull", "page", "plan", "push", "wait"}]
    /\ page \in [Device -> SUBSET Row]
    /\ upload \in [Device -> SUBSET Entry]
    /\ sent \in [Device -> SUBSET Entry]
    /\ \A d \in Device : Cardinality(sent[d]) = (IF pc[d] = "wait" THEN 1 ELSE 0)
    /\ losses \in 0 .. MaxLosses /\ rewinds \in 0 .. MaxRewinds

Init ==
    /\ rows = {} /\ nextSeq = 1 /\ txns = {} /\ rewinds = 0
    /\ local = [d \in Device |-> {}]
    /\ acked = [d \in Device |-> {}]
    /\ cursor = [d \in Device |-> 0]
    /\ anchor = [d \in Device |-> {}]
    /\ pc = [d \in Device |-> "idle"]
    /\ page = [d \in Device |-> {}]
    /\ upload = [d \in Device |-> {}]
    /\ sent = [d \in Device |-> {}]
    /\ losses = 0

Goto(d, where) == pc' = [pc EXCEPT ![d] = where]

\* resetProjectMemoryLedgerState, and the loss of the disposable database.
Reset(d) ==
    /\ acked' = [acked EXCEPT ![d] = {}]
    /\ cursor' = [cursor EXCEPT ![d] = 0]
    /\ anchor' = [anchor EXCEPT ![d] = {}]

-----------------------------------------------------------------------------
(* The database.                                                           *)

\* Faulty: the order in which numbers are given out is taken for that of the commits.
NumberAnytime(t) ==
    /\ t.seq = 0 /\ t.entry \notin Stored
    /\ nextSeq <= MaxSeq
    /\ txns' = (txns \ {t}) \cup {[t EXCEPT !.seq = nextSeq]}
    /\ nextSeq' = nextSeq + 1
    /\ UNCHANGED <<rows, rewinds, local, cache, pc, page, push, losses>>

\* portmgr_record_project_memory_ledger_change: a new row gets its number under
\* the advisory lock of the memory, which its transaction holds to its end.
Number(t) ==
    /\ t.seq = 0 /\ t.entry \notin Stored
    /\ \A u \in txns : u.seq = 0
    /\ nextSeq <= MaxSeq
    /\ txns' = (txns \ {t}) \cup {[t EXCEPT !.seq = nextSeq]}
    /\ nextSeq' = nextSeq + 1
    /\ UNCHANGED <<rows, rewinds, local, cache, pc, page, push, losses>>

\* Faulty: a row is acknowledged whether or not it could be stored.
CommitUnchecked(t) ==
    /\ rows' = IF t.entry \in Stored \/ t.seq = 0 THEN rows
               ELSE rows \cup {[seq |-> t.seq, entry |-> t.entry]}
    /\ txns' = txns \ {t}
    /\ acked' = [acked EXCEPT ![t.device] = @ \cup {t.entry}]
    /\ UNCHANGED <<nextSeq, rewinds, local, cursor, anchor, pc, page, push, losses>>

\* It commits; of an entry that is there it changed nothing.  The device that waits
\* for it acknowledges, unless the answer is lost.
Commit(t) ==
    /\ t.seq > 0 \/ t.entry \in Stored
    /\ rows' = IF t.entry \in Stored THEN rows
               ELSE rows \cup {[seq |-> t.seq, entry |-> t.entry]}
    /\ txns' = txns \ {t}
    /\ \/ /\ sent[t.device] = {t.entry}
          /\ acked' = [acked EXCEPT ![t.device] = @ \cup {t.entry}]
          /\ sent' = [sent EXCEPT ![t.device] = {}]
          /\ Goto(t.device, "push")
       \/ UNCHANGED <<acked, sent, pc>>
    /\ UNCHANGED <<nextSeq, rewinds, local, cursor, anchor, page, upload, losses>>

\* It fails: the number is never used.
Abort(t) ==
    /\ losses < MaxLosses
    /\ losses' = losses + 1
    /\ txns' = txns \ {t}
    /\ UNCHANGED <<rows, nextSeq, rewinds, local, cache, pc, page, push>>

\* The database is restored to an earlier moment, its sequence with it.
Rewind(top) ==
    /\ rewinds < MaxRewinds /\ top < TopSeq
    /\ \A d \in Device : RewindTails \/ cursor[d] > top \/ acked[d] = {}
    /\ rewinds' = rewinds + 1
    /\ rows' = {r \in rows : r.seq <= top}
    /\ nextSeq' = top + 1
    /\ txns' = {}
    /\ UNCHANGED <<local, cache, pc, page, push, losses>>

-----------------------------------------------------------------------------
(* A device, syncProjectMemoryAppendOnlyLayers.                            *)

\* A session or a correction is recorded.
Record(d, e) ==
    /\ \A c \in Device : e \notin local[c] \cup acked[c]
    /\ e \notin Stored /\ \A t \in txns : t.entry # e
    /\ local' = [local EXCEPT ![d] = @ \cup {e}]
    /\ UNCHANGED <<server, cache, pc, page, push, losses>>

\* Faulty: as many entries as acknowledgements are taken for all of them.
BeginCounting(d) ==
    /\ pc[d] = "idle"
    /\ IF Cardinality(acked[d]) <= Cardinality(local[d]) THEN UNCHANGED cache ELSE Reset(d)
    /\ Goto(d, "verify")
    /\ UNCHANGED <<server, local, page, push, losses>>

\* prepareProjectMemoryLedgerState: every entry acknowledged must still be in the files.
Begin(d) ==
    /\ pc[d] = "idle"
    /\ IF acked[d] \subseteq local[d] THEN UNCHANGED cache ELSE Reset(d)
    /\ Goto(d, "verify")
    /\ UNCHANGED <<server, local, page, push, losses>>

\* Faulty: a ledger as long as the cursor is the ledger of the cursor.
AnchorReached(d) == cursor[d] <= TopSeq

\* portmgr_project_memory_ledger_cursor_status.
AnchorStands(d) == \E r \in rows : r.seq = cursor[d] /\ r.entry \in anchor[d]

\* The cursor is good while the very row it points at is there.
Verify(d) ==
    /\ pc[d] = "verify"
    /\ IF cursor[d] = 0 \/ AnchorStands(d) THEN UNCHANGED cache ELSE Reset(d)
    /\ Goto(d, "pull")
    /\ UNCHANGED <<server, local, page, push, losses>>

\* The question fails: nothing is pulled this time.
VerifyFails(d) ==
    /\ pc[d] = "verify" /\ cursor[d] > 0
    /\ Goto(d, "plan")
    /\ UNCHANGED <<server, local, cache, page, push, losses>>

After(d) == {r \in rows : r.seq > cursor[d]}
FirstPage(R) == {r \in R : Cardinality({q \in R : q.seq <= r.seq}) <= PageSize}

\* pullProjectMemoryLedgerDelta: a page is appended to the files first.
PullPage(d) ==
    /\ pc[d] = "pull"
    /\ page' = [page EXCEPT ![d] = FirstPage(After(d))]
    /\ local' = [local EXCEPT ![d] = @ \cup {r.entry : r \in FirstPage(After(d))}]
    /\ Goto(d, "page")
    /\ UNCHANGED <<server, cache, push, losses>>

\* Pulling stops at an error.
PullFails(d) ==
    /\ pc[d] = "pull"
    /\ Goto(d, "plan")
    /\ UNCHANGED <<server, local, cache, page, push, losses>>

LastOf(R) == CHOOSE r \in R : \A q \in R : q.seq <= r.seq

\* commitProjectMemoryLedgerState of a page: acknowledgements, cursor and anchor.
Advance(d) ==
    /\ acked' = [acked EXCEPT ![d] = @ \cup {r.entry : r \in page[d]}]
    /\ IF page[d] = {} THEN UNCHANGED <<cursor, anchor>>
       ELSE /\ cursor' = [cursor EXCEPT ![d] = LastOf(page[d]).seq]
            /\ anchor' = [anchor EXCEPT ![d] = {LastOf(page[d]).entry}]

\* confirmPage.  A short page was the last.
CommitPage(d) ==
    /\ pc[d] = "page"
    /\ Advance(d)
    /\ page' = [page EXCEPT ![d] = {}]
    /\ Goto(d, IF Cardinality(page[d]) < PageSize THEN "plan" ELSE "pull")
    /\ UNCHANGED <<server, local, push, losses>>

\* pushProjectMemoryJournal and syncProjectMemoryFeedback: what is not acknowledged.
PlanPush(d) ==
    /\ pc[d] = "plan"
    /\ upload' = [upload EXCEPT ![d] = local[d] \ acked[d]]
    /\ Goto(d, "push")
    /\ UNCHANGED <<server, local, cache, page, sent, losses>>

\* A batch goes to the database.
Send(d, e) ==
    /\ pc[d] = "push" /\ e \in upload[d]
    /\ txns' = txns \cup {[device |-> d, entry |-> e, seq |-> 0]}
    /\ upload' = [upload EXCEPT ![d] = @ \ {e}]
    /\ sent' = [sent EXCEPT ![d] = {e}]
    /\ Goto(d, "wait")
    /\ UNCHANGED <<rows, nextSeq, rewinds, local, cache, page, losses>>

\* Faulty: the batch that was not answered stays behind.
EndWaiting(d) ==
    /\ pc[d] # "idle"
    /\ Goto(d, "idle")
    /\ page' = [page EXCEPT ![d] = {}]
    /\ upload' = [upload EXCEPT ![d] = {}]
    /\ UNCHANGED <<server, local, cache, sent, losses>>

\* All batches are answered, a batch failed, or the process died.
End(d) ==
    /\ pc[d] # "idle"
    /\ Goto(d, "idle")
    /\ page' = [page EXCEPT ![d] = {}]
    /\ upload' = [upload EXCEPT ![d] = {}]
    /\ sent' = [sent EXCEPT ![d] = {}]
    /\ UNCHANGED <<server, local, cache, losses>>

\* The cache is lost or found to be broken.
LoseCache(d) ==
    /\ losses < MaxLosses /\ acked[d] # {} /\ pc[d] = "idle"
    /\ losses' = losses + 1
    /\ Reset(d)
    /\ UNCHANGED <<server, local, pc, page, push>>

\* A file of the project goes back to what it was.
LoseEntries(d) ==
    /\ losses < MaxLosses /\ pc[d] = "idle"
    /\ \E kept \in SUBSET local[d] : kept # local[d] /\ local' = [local EXCEPT ![d] = kept]
    /\ losses' = losses + 1
    /\ UNCHANGED <<server, cache, pc, page, push>>

\* Nothing is left to send, or to wait for.
Through(d) ==
    \/ pc[d] = "push" /\ upload[d] = {}
    \/ pc[d] = "wait" /\ \A t \in txns : sent[d] # {t.entry} \/ t.device # d

Database == \E t \in txns : Number(t) \/ Commit(t)
Sync(d) ==
    \/ Begin(d) \/ Verify(d) \/ PullPage(d) \/ CommitPage(d) \/ PlanPush(d)
    \/ \E e \in Entry : Send(d, e)
    \/ Through(d) /\ End(d)

Next ==
    \/ Database
    \/ \E t \in txns : Abort(t)
    \/ \E top \in 0 .. MaxSeq : Rewind(top)
    \/ \E d \in Device :
          \/ Sync(d) \/ VerifyFails(d) \/ PullFails(d) \/ End(d)
          \/ LoseCache(d) \/ LoseEntries(d)
          \/ \E e \in Entry : Record(d, e)

Spec == Init /\ [][Next]_vars

\* Devices sync from time to time, and the database works on what it was sent.
Fairness == WF_vars(Database) /\ \A d \in Device : WF_vars(Sync(d))

-----------------------------------------------------------------------------
(* Properties.                                                             *)

\* The cache of d tells the truth: its cursor never passed a row that it did not
\* receive, whatever the order in which uploads of several devices commit, and what it
\* no longer sends is stored (the acknowledgements of the outbox).
CacheIsTrue(d) ==
    /\ \A r \in rows : r.seq <= cursor[d] => r.entry \in acked[d]
    /\ acked[d] \subseteq Stored

\* The check of the cursor finds nothing wrong.
Anchored(d) == cursor[d] = 0 \/ AnchorStands(d)

\* The database was not set back; or only one device writes to it, and it was set back
\* to before whatever that device knew of.
Traceable == rewinds = 0 \/ (~RewindTails /\ \A c, d \in Device : c = d)

\* After its first check a sync lists nothing as received that the files lost.
AckedIsLocal == \A d \in Device : pc[d] # "idle" => acked[d] \subseteq local[d]

\* The cache of a device tells the truth whenever the check of its cursor passes, and
\* the check passes as long as the database was not set back.
CursorsTellTruth ==
    /\ TypeOK /\ AckedIsLocal
    /\ rewinds = 0 => \A d \in Device : Anchored(d)
    /\ Traceable => \A d \in Device : Anchored(d) => CacheIsTrue(d)

\* No check or pull fails and no sync stops halfway.
Calm == \A d \in Device :
    ~VerifyFails(d) /\ ~PullFails(d) /\ (End(d) => Through(d))

\* Once failures cease, what any device recorded reaches every device.
EntriesSpread ==
    <>[][Calm]_vars =>
        \A d \in Device, e \in Entry :
            []<>((\E c \in Device : e \in local[c]) => e \in local[d])

\* Once failures cease, what the files of a device hold is stored, also when the
\* database lost it again ("every local row is idempotently re-sent, repairing both
\* local truncation and a rewound/restored Supabase ledger").
EntriesStored ==
    <>[][Calm]_vars =>
        \A d \in Device, e \in Entry : []<>(e \in local[d] => e \in Stored)

=============================================================================
