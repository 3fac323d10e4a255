-------------------------- MODULE MemorySyncProofs --------------------------
(***************************************************************************)
(* Proofs about the two ways in which a memory goes from device to device: *)
(* its revisions (MemorySync), for every set of devices, runs and texts,   *)
(* any number of revisions, edits and attempts and any number of requests  *)
(* that nobody waits for; and its ledger (MemoryLedger), for every set of  *)
(* devices and entries, every size of page, and any number of rows and of  *)
(* losses, as long as the database keeps its rows.                         *)
(***************************************************************************)
EXTENDS MemorySync, FiniteSetTheorems, TLAPS

-----------------------------------------------------------------------------
(* The invariant.                                                          *)

Op == [kind : Kinds \cup {"none"}, text : Text \cup {None},
       pc : {"idle", "head", "decide", "cas", "check", "install", "save"},
       latest : 0 .. MaxRevisions, seen : Config]
Request == [by : Proc, parent : 0 .. MaxRevisions, text : Text,
            knew : Text \cup {None}, kind : PushKinds, awaited : BOOLEAN]
Row == [state : {"none", "pending", "complete", "blocked"},
        text : Text \cup {None}, parent : 0 .. MaxRevisions, attempts : 0 .. MaxAttempts]
Revision == [text : Text, knew : Text \cup {None}, kind : PushKinds]

\* Where an operation of a kind may be.
Stationed(p) ==
    /\ op[p].kind = "none" <=> op[p].pc = "idle"
    /\ op[p].kind \in PushKinds => op[p].pc \in {"head", "decide", "cas", "save"}
    /\ op[p].kind \in PullKinds => op[p].pc \in {"head", "check", "install", "save"}
    /\ op[p].kind = "restore" => op[p].pc \in {"check", "install", "save"}

\* What an operation holds: a head that exists, an agreement or a choice of
\* texts; what it is about to replace is kept.
Holds(p) ==
    /\ op[p].latest \in 0 .. Len(revs)
    /\ op[p].pc \in {"check", "install", "save"} => op[p].latest # 0
    /\ op[p].kind \in ResolveKinds => op[p].latest # 0
    /\ op[p].kind \in PushKinds \cup ResolveKinds => op[p].text # None
    /\ op[p].kind \in PushKinds \cup PullKinds /\ op[p].seen # NoConfig =>
          /\ op[p].seen.cursor \in 1 .. Len(revs)
          /\ op[p].seen.synced = revs[op[p].seen.cursor].text
    /\ op[p].pc = "install" => op[p].text \in backups[DeviceOf[p]] \cup OnServer

\* A backup has the text of its row, and sends it under the row's head only.
BacksUp(p) ==
    op[p].kind = "backup" =>
        /\ outbox[DeviceOf[p]].state # "none"
        /\ op[p].text = outbox[DeviceOf[p]].text
        /\ op[p].pc = "decide" =>
              \/ op[p].latest = outbox[DeviceOf[p]].parent
              \/ op[p].latest # 0 /\ revs[op[p].latest].text = op[p].text
        /\ op[p].pc = "save" => revs[op[p].latest].text = op[p].text

OpKnows(p) == Stationed(p) /\ Holds(p) /\ BacksUp(p)

Operations == \A p \in Proc : OpKnows(p)

\* A row that is there stays what it is about.
Rows ==
    \A d \in Device : IF outbox[d].state = "none" THEN outbox[d].text = None
                      ELSE "backup" \in Kinds /\ outbox[d].text \in Text

\* A request knows its parent, if there is one, and a backup's is its row's.
RequestsKnow ==
    \A r \in requests :
        /\ r.parent \in 0 .. Len(revs)
        /\ r.kind # "force-push" /\ r.parent # 0 => r.knew = revs[r.parent].text
        /\ r.kind = "backup" =>
              /\ outbox[DeviceOf[r.by]].state # "none"
              /\ r.text = outbox[DeviceOf[r.by]].text
              /\ r.parent = outbox[DeviceOf[r.by]].parent

\* Who waits for an append waits for that one.
Awaited ==
    \A r \in requests : r.awaited =>
        /\ op[r.by].pc = "cas" /\ op[r.by].text = r.text
        /\ \A q \in requests : q.awaited /\ q.by = r.by => q = r

SyncInv == HistoryIsSound /\ Operations /\ Rows /\ RequestsKnow /\ Awaited

-----------------------------------------------------------------------------
(* What the parts say together.                                            *)

\* The types of the variables, by the names above.
LEMMA Types ==
    ASSUME SyncInv
    PROVE  /\ revs \in Seq(Revision) /\ Len(revs) \in Nat /\ Len(revs) <= MaxRevisions
           /\ \A i \in 1 .. Len(revs) : revs[i] \in Revision
           /\ requests \subseteq Request /\ doc \in [Device -> Text]
           /\ config \in [Device -> Config] /\ backups \in [Device -> SUBSET Text]
           /\ op \in [Proc -> Op] /\ outbox \in [Device -> Row] /\ edits \in 0 .. MaxEdits
<1>1. /\ revs \in Seq(Revision) /\ Len(revs) <= MaxRevisions
      /\ requests \subseteq Request /\ doc \in [Device -> Text]
      /\ config \in [Device -> Config] /\ backups \in [Device -> SUBSET Text]
      /\ op \in [Proc -> Op] /\ outbox \in [Device -> Row] /\ edits \in 0 .. MaxEdits
  BY Zenon DEF SyncInv, HistoryIsSound, TypeOK, Revision, Request, Op, Row
<1>2. Len(revs) \in Nat /\ \A i \in 1 .. Len(revs) : revs[i] \in Revision
  BY <1>1
<1> QED BY <1>1, <1>2

LEMMA Agreements ==
    ASSUME SyncInv, NEW d \in Device, config[d] # NoConfig
    PROVE  config[d].cursor \in 1 .. Len(revs) /\ config[d].synced = revs[config[d].cursor].text
BY DEF SyncInv, HistoryIsSound, TypeOK

LEMMA SyncInit == Init => SyncInv
<1> SUFFICES ASSUME Init PROVE SyncInv
  OBVIOUS
<1> USE SyncAssumption DEF Init, SyncAssumption
<1>1. TypeOK
  BY DEF TypeOK, Config, NoConfig, Idle, NoBackup
<1>2. InformedChain /\ BackupIsExact /\ BackedUpOnce
  BY DEF InformedChain, BackupIsExact, BackedUpOnce, NoBackup
<1>3. Operations
  BY DEF Operations, OpKnows, Stationed, Holds, BacksUp, Idle, NoConfig,
         PushKinds, PullKinds, ResolveKinds, AppendKinds
<1>4. Rows /\ RequestsKnow /\ Awaited
  BY DEF Rows, RequestsKnow, Awaited, NoBackup
<1> QED BY <1>1, <1>2, <1>3, <1>4 DEF SyncInv, HistoryIsSound

-----------------------------------------------------------------------------
(* Lemmas about the parts of the state a step touches.                     *)

\* Rows keep their text and head, and are complete only when the server has it.
RowsMove ==
    /\ outbox' \in [Device -> Row]
    /\ \A d \in Device :
          /\ outbox'[d].state = "none" <=> outbox[d].state = "none"
          /\ outbox'[d].text = outbox[d].text /\ outbox'[d].parent = outbox[d].parent
          /\ outbox'[d].state = "complete" =>
                \E i \in 1 .. Len(revs) : revs[i].text = outbox[d].text

LEMMA RowsStay == ASSUME SyncInv, UNCHANGED outbox PROVE RowsMove
BY Types DEF RowsMove, SyncInv, HistoryIsSound, BackupIsExact

LEMMA IdleIsOp == Idle \in Op
BY SyncAssumption DEF Idle, Op, NoConfig, Config, SyncAssumption

LEMMA IdleKnows ==
    ASSUME SyncInv, NEW p \in Proc, op'[p] = Idle, UNCHANGED revs
    PROVE  OpKnows(p)'
<1>1. op'[p].kind = "none" /\ op'[p].pc = "idle" /\ op'[p].latest = 0
  BY DEF Idle
<1>2. 0 \in 0 .. Len(revs)'
  BY Types
<1> QED BY <1>1, <1>2 DEF OpKnows, Stationed, Holds, BacksUp, PushKinds, PullKinds,
                          ResolveKinds, AppendKinds

\* A run that becomes what it does next.
LEMMA OpBecomes ==
    ASSUME SyncInv, NEW p \in Proc, NEW o \in Op, op' = [op EXCEPT ![p] = o]
    PROVE  /\ op' \in [Proc -> Op] /\ op'[p] = o
           /\ \A q \in Proc \ {p} : op'[q] = op[q]
BY Types

LEMMA OpGoes ==
    ASSUME SyncInv, NEW p \in Proc, op[p].kind # "none",
           NEW pc \in {"head", "decide", "cas", "check", "install", "save"},
           op' = [op EXCEPT ![p].pc = pc]
    PROVE  /\ op' \in [Proc -> Op]
           /\ op'[p].pc = pc /\ op'[p].kind = op[p].kind /\ op'[p].text = op[p].text
           /\ op'[p].latest = op[p].latest /\ op'[p].seen = op[p].seen
           /\ \A q \in Proc \ {p} : op'[q] = op[q]
<1>1. op \in [Proc -> Op]
  BY Types
<1> QED BY <1>1 DEF Op

\* A run other than the one that steps keeps what it knows.
LEMMA OthersKnow ==
    ASSUME SyncInv, NEW q \in Proc, op'[q] = op[q], UNCHANGED revs, RowsMove,
           \A d \in Device : backups[d] \subseteq backups'[d]
    PROVE  OpKnows(q)'
<1>1. OpKnows(q) /\ DeviceOf[q] \in Device
  BY SyncAssumption DEF SyncInv, Operations, SyncAssumption
<1>2. Stationed(q)'
  BY <1>1 DEF OpKnows, Stationed
<1>3. Holds(q)'
  BY <1>1 DEF OpKnows, Holds, OnServer
<1>4. BacksUp(q)'
  BY <1>1 DEF OpKnows, BacksUp, RowsMove
<1> QED BY <1>2, <1>3, <1>4 DEF OpKnows

\* A step at a device that neither sends nor executes anything.
LEMMA OpMoves ==
    ASSUME SyncInv, NEW p \in Proc, op[p].pc # "cas",
           UNCHANGED <<revs, requests>>,
           op' \in [Proc -> Op], \A q \in Proc \ {p} : op'[q] = op[q],
           config' \in [Device -> Config],
           \A d \in Device : config'[d] # NoConfig =>
               config'[d].cursor \in 1 .. Len(revs)
               /\ config'[d].synced = revs[config'[d].cursor].text,
           doc' \in [Device -> Text], backups' \in [Device -> SUBSET Text],
           \A d \in Device : backups[d] \subseteq backups'[d],
           RowsMove, UNCHANGED edits,
           OpKnows(p)'
    PROVE  SyncInv'
<1>1. TypeOK'
  BY DEF SyncInv, HistoryIsSound, TypeOK, Op, Row, RowsMove
<1>2. InformedChain'
  BY DEF SyncInv, HistoryIsSound, InformedChain
<1>3. BackupIsExact' /\ BackedUpOnce'
  BY DEF SyncInv, HistoryIsSound, BackupIsExact, BackedUpOnce, RowsMove
<1>4. Operations'
  <2>1. ASSUME NEW q \in Proc, q # p PROVE OpKnows(q)'
    BY <2>1, OthersKnow
  <2> QED BY <2>1 DEF Operations
<1>5. Rows'
  BY DEF SyncInv, Rows, RowsMove
<1>6. RequestsKnow'
  <2>1. \A r \in requests : r.by \in Proc /\ DeviceOf[r.by] \in Device
    BY Types, SyncAssumption DEF Request, SyncAssumption
  <2> QED BY <2>1 DEF SyncInv, RequestsKnow, RowsMove
<1>7. Awaited'
  <2>1. \A r \in requests : r.by \in Proc /\ (r.awaited => r.by # p)
    BY Types DEF SyncInv, Awaited, Request
  <2> QED BY <2>1 DEF SyncInv, Awaited
<1> QED BY <1>1, <1>2, <1>3, <1>4, <1>5, <1>6, <1>7 DEF SyncInv, HistoryIsSound

\* An operation that ends, with what the maintenance notes of its backup.
LEMMA EndMoves ==
    ASSUME SyncInv, NEW p \in Proc, End(p), UNCHANGED revs
    PROVE  /\ op' \in [Proc -> Op] /\ \A q \in Proc \ {p} : op'[q] = op[q]
           /\ OpKnows(p)'
BY IdleIsOp, OpBecomes, IdleKnows DEF End

LEMMA EndBackupMoves ==
    ASSUME SyncInv, NEW p \in Proc, UNCHANGED revs,
           NEW results \in SUBSET {"complete", "pending", "blocked"}, EndBackup(p, results),
           op[p].kind = "backup" /\ "complete" \in results =>
               \E i \in 1 .. Len(revs) : revs[i].text = op[p].text
    PROVE  /\ op' \in [Proc -> Op] /\ \A q \in Proc \ {p} : op'[q] = op[q]
           /\ OpKnows(p)' /\ RowsMove
<1>1. /\ op' \in [Proc -> Op] /\ \A q \in Proc \ {p} : op'[q] = op[q]
      /\ OpKnows(p)'
  BY EndMoves DEF EndBackup
<1>2. RowsMove
  <2>1. CASE op[p].kind # "backup"
    BY <2>1, RowsStay DEF EndBackup
  <2>2. CASE op[p].kind = "backup"
    <3>1. PICK r \in results : outbox' = [outbox EXCEPT ![DeviceOf[p]].state = r]
      BY <2>2 DEF EndBackup
    <3>2. /\ DeviceOf[p] \in Device /\ outbox \in [Device -> Row]
          /\ r \in {"complete", "pending", "blocked"}
      BY Types, SyncAssumption DEF SyncAssumption
    <3>3. /\ outbox[DeviceOf[p]].state # "none" /\ outbox[DeviceOf[p]].text = op[p].text
      BY <2>2 DEF SyncInv, Operations, OpKnows, BacksUp
    <3>4. /\ outbox' \in [Device -> Row]
          /\ \A d \in Device : outbox'[d].text = outbox[d].text /\ outbox'[d].parent = outbox[d].parent
          /\ outbox'[DeviceOf[p]].state = r
          /\ \A d \in Device \ {DeviceOf[p]} : outbox'[d].state = outbox[d].state
      BY <3>1, <3>2 DEF Row
    <3> QED BY <2>2, <3>2, <3>3, <3>4 DEF RowsMove, SyncInv, HistoryIsSound, BackupIsExact
  <2> QED BY <2>1, <2>2
<1> QED BY <1>1, <1>2

\* What does not change where only operations go on.
LEMMA DeviceStays ==
    ASSUME SyncInv, UNCHANGED <<revs, config>>
    PROVE  /\ config' \in [Device -> Config]
           /\ \A d \in Device : config'[d] # NoConfig =>
                 config'[d].cursor \in 1 .. Len(revs)
                 /\ config'[d].synced = revs[config'[d].cursor].text
BY Types, Agreements

-----------------------------------------------------------------------------
(* Beginnings.                                                             *)

LEMMA StartPushKeeps == ASSUME SyncInv, NEW p \in Proc, StartPush(p) PROVE SyncInv'
<1>1. PICK k \in Kinds \cap {"push", "force-push"} :
          op' = [op EXCEPT ![p] = [kind |-> k, pc |-> "head", text |-> Stable[Here(p)],
                                   latest |-> 0, seen |-> config[DeviceOf[p]]]]
  BY DEF StartPush
<1> DEFINE o == [kind |-> k, pc |-> "head", text |-> Stable[Here(p)],
                 latest |-> 0, seen |-> config[DeviceOf[p]]]
<1>2. /\ op[p].pc = "idle" /\ doc' = [doc EXCEPT ![DeviceOf[p]] = Stable[@]]
      /\ UNCHANGED <<revs, requests, config, backups, outbox, edits>>
  BY DEF StartPush, At
<1>3. /\ DeviceOf[p] \in Device /\ Stable[Here(p)] \in Text
      /\ config[DeviceOf[p]] \in Config
  BY Types, SyncAssumption DEF SyncAssumption, Here
<1>4. /\ o \in Op /\ o.kind = k /\ o.pc = "head" /\ o.latest = 0
      /\ o.text = Stable[Here(p)] /\ o.seen = config[DeviceOf[p]]
  BY <1>3, SyncAssumption DEF Op, SyncAssumption
<1>5. op' = [op EXCEPT ![p] = o]
  BY <1>1
<1> HIDE DEF o
<1>6. op' \in [Proc -> Op] /\ op'[p] = o /\ \A q \in Proc \ {p} : op'[q] = op[q]
  BY <1>4, <1>5, OpBecomes
<1>7. OpKnows(p)'
  <2>1. o.text # None
    BY <1>3, <1>4, SyncAssumption DEF SyncAssumption
  <2>2. o.seen # NoConfig => /\ o.seen.cursor \in 1 .. Len(revs)
                             /\ o.seen.synced = revs[o.seen.cursor].text
    BY <1>3, <1>4, Agreements
  <2> QED BY <1>2, <1>4, <1>6, <2>1, <2>2, Types
          DEF OpKnows, Stationed, Holds, BacksUp, PushKinds, PullKinds, ResolveKinds, AppendKinds
<1>8. doc' \in [Device -> Text] /\ backups' \in [Device -> SUBSET Text]
  BY <1>2, <1>3, Types DEF Here
<1> QED BY <1>2, <1>6, <1>7, <1>8, RowsStay, DeviceStays, OpMoves

LEMMA StartPullKeeps == ASSUME SyncInv, NEW p \in Proc, StartPull(p) PROVE SyncInv'
<1>1. PICK k \in Kinds \cap PullKinds : op' = [op EXCEPT ![p] = [Idle EXCEPT !.kind = k, !.pc = "head"]]
  BY DEF StartPull
<1> DEFINE o == [Idle EXCEPT !.kind = k, !.pc = "head"]
<1>2. /\ op[p].pc = "idle"
      /\ UNCHANGED <<revs, requests, doc, config, backups, outbox, edits>>
  BY DEF StartPull, At
<1>3. o \in Op /\ o.kind = k /\ o.pc = "head" /\ o.latest = 0 /\ o.seen = NoConfig
  BY IdleIsOp DEF Op, Idle
<1>4. op' = [op EXCEPT ![p] = o]
  BY <1>1
<1> HIDE DEF o
<1>5. op' \in [Proc -> Op] /\ op'[p] = o /\ \A q \in Proc \ {p} : op'[q] = op[q]
  BY <1>3, <1>4, OpBecomes
<1>6. OpKnows(p)'
  BY <1>2, <1>3, <1>5, Types
     DEF OpKnows, Stationed, Holds, BacksUp, PushKinds, PullKinds, ResolveKinds, AppendKinds
<1>7. doc' \in [Device -> Text] /\ backups' \in [Device -> SUBSET Text]
  BY <1>2, Types
<1> QED BY <1>2, <1>5, <1>6, <1>7, RowsStay, DeviceStays, OpMoves

LEMMA StartResolveKeeps == ASSUME SyncInv, NEW p \in Proc, StartResolve(p) PROVE SyncInv'
<1>1. PICK k \in Kinds \cap ResolveKinds, shown \in 1 .. Len(revs) :
          op' = [op EXCEPT ![p] = [Idle EXCEPT !.kind = k, !.pc = "head", !.text = Here(p),
                                               !.latest = shown]]
  BY DEF StartResolve
<1> DEFINE o == [Idle EXCEPT !.kind = k, !.pc = "head", !.text = Here(p), !.latest = shown]
<1>2. /\ op[p].pc = "idle"
      /\ UNCHANGED <<revs, requests, doc, config, backups, outbox, edits>>
  BY DEF StartResolve, At
<1>3. Here(p) \in Text /\ Here(p) # None /\ shown \in 0 .. MaxRevisions /\ shown # 0
  BY Types, SyncAssumption DEF SyncAssumption, Here
<1>4. /\ o \in Op /\ o.kind = k /\ o.pc = "head" /\ o.latest = shown
      /\ o.text = Here(p) /\ o.seen = NoConfig
  BY <1>3, IdleIsOp DEF Op, Idle
<1>5. op' = [op EXCEPT ![p] = o]
  BY <1>1
<1> HIDE DEF o
<1>6. op' \in [Proc -> Op] /\ op'[p] = o /\ \A q \in Proc \ {p} : op'[q] = op[q]
  BY <1>4, <1>5, OpBecomes
<1>7. OpKnows(p)'
  BY <1>2, <1>3, <1>4, <1>6, Types
     DEF OpKnows, Stationed, Holds, BacksUp, PushKinds, PullKinds, ResolveKinds, AppendKinds
<1>8. doc' \in [Device -> Text] /\ backups' \in [Device -> SUBSET Text]
  BY <1>2, Types
<1> QED BY <1>2, <1>6, <1>7, <1>8, RowsStay, DeviceStays, OpMoves

LEMMA StartRestoreKeeps == ASSUME SyncInv, NEW p \in Proc, StartRestore(p) PROVE SyncInv'
<1>1. PICK i \in 1 .. Len(revs) :
          op' = [op EXCEPT ![p] = [Idle EXCEPT !.kind = "restore", !.pc = "check", !.latest = i]]
  BY DEF StartRestore
<1> DEFINE o == [Idle EXCEPT !.kind = "restore", !.pc = "check", !.latest = i]
<1>2. /\ op[p].pc = "idle" /\ "restore" \in Kinds
      /\ UNCHANGED <<revs, requests, doc, config, backups, outbox, edits>>
  BY DEF StartRestore, At
<1>3. i \in 0 .. MaxRevisions /\ i # 0
  BY Types, SyncAssumption DEF SyncAssumption
<1>4. o \in Op /\ o.kind = "restore" /\ o.pc = "check" /\ o.latest = i
  BY <1>2, <1>3, IdleIsOp DEF Op, Idle
<1>5. op' = [op EXCEPT ![p] = o]
  BY <1>1
<1> HIDE DEF o
<1>6. op' \in [Proc -> Op] /\ op'[p] = o /\ \A q \in Proc \ {p} : op'[q] = op[q]
  BY <1>4, <1>5, OpBecomes
<1>7. OpKnows(p)'
  BY <1>2, <1>3, <1>4, <1>6, Types
     DEF OpKnows, Stationed, Holds, BacksUp, PushKinds, PullKinds, ResolveKinds, AppendKinds
<1>8. doc' \in [Device -> Text] /\ backups' \in [Device -> SUBSET Text]
  BY <1>2, Types
<1> QED BY <1>2, <1>6, <1>7, <1>8, RowsStay, DeviceStays, OpMoves

\* The tick takes the text that the row was made for.
LEMMA StartBackupKeeps == ASSUME SyncInv, NEW p \in Proc, StartBackup(p) PROVE SyncInv'
<1> DEFINE d == DeviceOf[p]
           o == [kind |-> "backup", pc |-> "head", text |-> doc[d], latest |-> 0,
                 seen |-> config[d]]
<1>1. /\ op[p].pc = "idle" /\ outbox[d].state = "pending"
      /\ UNCHANGED <<revs, requests, doc, config, backups, edits>>
  BY DEF StartBackup, At
<1>2. d \in Device /\ outbox \in [Device -> Row] /\ doc[d] \in Text /\ config[d] \in Config
      /\ "backup" \in Kinds
  BY <1>1, Types, SyncAssumption DEF SyncAssumption, SyncInv, Rows
<1>3. /\ \/ GuardHolds(d) /\ op' = [op EXCEPT ![p] = o]
         \/ UNCHANGED op
      /\ \E s \in {"pending", "blocked"}, n \in 0 .. MaxAttempts :
            outbox' = [outbox EXCEPT ![d].attempts = n, ![d].state = s]
  <2>1. CASE outbox[d].attempts >= MaxAttempts
    <3>1. outbox' = [outbox EXCEPT ![d].state = "blocked"] /\ UNCHANGED op
      BY <2>1 DEF StartBackup, Reserve
    <3>2. outbox[d].attempts \in 0 .. MaxAttempts
      BY <1>2 DEF Row
    <3>3. outbox' = [outbox EXCEPT ![d].attempts = outbox[d].attempts, ![d].state = "blocked"]
      BY <1>2, <3>1 DEF Row
    <3> QED BY <3>1, <3>2, <3>3
  <2>2. CASE ~(outbox[d].attempts >= MaxAttempts)
    <3>1. /\ outbox' = [outbox EXCEPT ![d].attempts = @ + 1,
                                      ![d].state = IF GuardHolds(d) THEN @ ELSE "blocked"]
          /\ IF GuardHolds(d) THEN TakeAttempt(p) ELSE UNCHANGED op
      BY <2>2 DEF StartBackup, Reserve
    <3>2. outbox[d].attempts + 1 \in 0 .. MaxAttempts
      BY <1>2, <2>2, SyncAssumption DEF Row, SyncAssumption
    <3>3. GuardHolds(d) => op' = [op EXCEPT ![p] = o]
      BY <3>1 DEF TakeAttempt
    <3>4. PICK s \in {"pending", "blocked"} : s = IF GuardHolds(d) THEN "pending" ELSE "blocked"
      OBVIOUS
    <3>5. outbox' = [outbox EXCEPT ![d].attempts = outbox[d].attempts + 1, ![d].state = s]
      BY <1>1, <1>2, <3>1, <3>4 DEF Row
    <3> QED BY <3>1, <3>2, <3>3, <3>5
  <2> QED BY <2>1, <2>2
<1>4. RowsMove
  <2>1. PICK s \in {"pending", "blocked"}, n \in 0 .. MaxAttempts :
            outbox' = [outbox EXCEPT ![d].attempts = n, ![d].state = s]
    BY <1>3
  <2>2. /\ outbox' \in [Device -> Row] /\ outbox'[d].state = s
        /\ \A e \in Device : outbox'[e].text = outbox[e].text /\ outbox'[e].parent = outbox[e].parent
        /\ \A e \in Device \ {d} : outbox'[e].state = outbox[e].state
    BY <1>2, <2>1 DEF Row
  <2> QED BY <1>1, <1>2, <2>2 DEF RowsMove, SyncInv, HistoryIsSound, BackupIsExact
<1>5. /\ o \in Op /\ o.kind = "backup" /\ o.pc = "head" /\ o.latest = 0
      /\ o.text = doc[d] /\ o.seen = config[d]
  BY <1>2, SyncAssumption DEF Op, SyncAssumption
<1>6. o.seen # NoConfig => /\ o.seen.cursor \in 1 .. Len(revs)
                           /\ o.seen.synced = revs[o.seen.cursor].text
  BY <1>2, <1>5, Agreements
<1>7. CASE UNCHANGED op
  <2>1. op' \in [Proc -> Op] /\ \A q \in Proc \ {p} : op'[q] = op[q]
    BY <1>7, Types
  <2>2. OpKnows(p)'
    BY <1>1, <1>4, <1>7, OthersKnow
  <2>3. doc' \in [Device -> Text] /\ backups' \in [Device -> SUBSET Text]
    BY <1>1, Types
  <2> QED BY <1>1, <1>4, <2>1, <2>2, <2>3, DeviceStays, OpMoves
<1>8. CASE GuardHolds(d) /\ op' = [op EXCEPT ![p] = o]
  <2>1. op' \in [Proc -> Op] /\ op'[p] = o /\ \A q \in Proc \ {p} : op'[q] = op[q]
    BY <1>5, <1>8, OpBecomes
  <2>2. /\ outbox'[d].state # "none" /\ o.text = outbox'[d].text /\ o.text # None
    BY <1>1, <1>2, <1>4, <1>5, <1>8, SyncAssumption DEF GuardHolds, RowsMove, SyncAssumption
  <2> HIDE DEF o
  <2>3. OpKnows(p)'
    BY <1>1, <1>5, <1>6, <2>1, <2>2, Types
       DEF OpKnows, Stationed, Holds, BacksUp, PushKinds, PullKinds, ResolveKinds, AppendKinds
  <2>4. doc' \in [Device -> Text] /\ backups' \in [Device -> SUBSET Text]
    BY <1>1, Types
  <2> QED BY <1>1, <1>4, <2>1, <2>3, <2>4, DeviceStays, OpMoves
<1> QED BY <1>3, <1>7, <1>8

-----------------------------------------------------------------------------
(* The head, the decision, and the agreement.                              *)

\* Every kind of operation is one of these.
LEMMA KindCases ==
    ASSUME SyncInv, NEW p \in Proc
    PROVE  /\ op[p] \in Op /\ OpKnows(p) /\ DeviceOf[p] \in Device
           /\ op[p].kind \in PushKinds \cup PullKinds \cup ResolveKinds \cup {"restore", "none"}
<1>1. op[p] \in Op /\ OpKnows(p) /\ DeviceOf[p] \in Device
  BY Types, SyncAssumption DEF SyncAssumption, SyncInv, Operations
<1> QED BY <1>1, SyncAssumption
        DEF Op, SyncAssumption, PushKinds, PullKinds, ResolveKinds, AppendKinds

LEMMA ReadHeadKeeps == ASSUME SyncInv, NEW p \in Proc, ReadHead(p) PROVE SyncInv'
<1>1. /\ op[p].pc = "head"
      /\ UNCHANGED <<revs, requests, doc, config, backups, edits>>
  BY DEF ReadHead, At
<1>2. doc' \in [Device -> Text] /\ backups' \in [Device -> SUBSET Text]
  BY <1>1, Types
<1>3. /\ op[p] \in Op /\ OpKnows(p) /\ DeviceOf[p] \in Device
      /\ op[p].kind # "none"
  BY <1>1, KindCases DEF OpKnows, Stationed
<1>4. Len(revs) \in 0 .. MaxRevisions /\ Len(revs) \in 0 .. Len(revs)
  BY Types, SyncAssumption DEF SyncAssumption
<1>5. CASE op[p].kind \in ResolveKinds
  <2>1. CASE End(p) /\ UNCHANGED outbox
    BY <1>1, <1>2, <2>1, EndMoves, RowsStay, DeviceStays, OpMoves
  <2>2. CASE /\ Goto(p, IF op[p].kind \in AppendKinds THEN "decide" ELSE "check")
             /\ UNCHANGED outbox
    <3>1. PICK pc \in {"decide", "check"} :
              /\ op' = [op EXCEPT ![p].pc = pc]
              /\ pc = "decide" <=> op[p].kind \in AppendKinds
      BY <2>2 DEF Goto
    <3>2. /\ op' \in [Proc -> Op]
          /\ op'[p].pc = pc /\ op'[p].kind = op[p].kind /\ op'[p].text = op[p].text
          /\ op'[p].latest = op[p].latest
          /\ \A q \in Proc \ {p} : op'[q] = op[q]
      BY <1>3, <3>1, OpGoes
    <3>3. OpKnows(p)'
      BY <1>1, <1>3, <1>5, <3>2
         DEF OpKnows, Stationed, Holds, BacksUp, PushKinds, PullKinds, ResolveKinds, AppendKinds
    <3> QED BY <1>1, <1>2, <2>2, <3>2, <3>3, RowsStay, DeviceStays, OpMoves
  <2> QED BY <1>5, <2>1, <2>2 DEF ReadHead
<1>6. CASE op[p].kind \in PullKinds
  <2>1. CASE End(p) /\ UNCHANGED outbox
    BY <1>1, <1>2, <2>1, EndMoves, RowsStay, DeviceStays, OpMoves
  <2>2. CASE /\ revs # <<>> /\ UNCHANGED outbox
             /\ op' = [op EXCEPT ![p].latest = Len(revs), ![p].pc = "check",
                                 ![p].seen = config[DeviceOf[p]]]
    <3>1. Len(revs) # 0
      BY <2>2, Types
    <3>2. config[DeviceOf[p]] \in Config /\ op \in [Proc -> Op]
      BY <1>3, Types
    <3>3. /\ op' \in [Proc -> Op]
          /\ op'[p].pc = "check" /\ op'[p].kind = op[p].kind
          /\ op'[p].latest = Len(revs) /\ op'[p].seen = config[DeviceOf[p]]
          /\ \A q \in Proc \ {p} : op'[q] = op[q]
      BY <1>4, <2>2, <3>2 DEF Op
    <3>4. op'[p].seen # NoConfig => /\ op'[p].seen.cursor \in 1 .. Len(revs)
                                    /\ op'[p].seen.synced = revs[op'[p].seen.cursor].text
      BY <1>3, <3>3, Agreements
    <3>5. OpKnows(p)'
      BY <1>1, <1>4, <1>6, <3>1, <3>3, <3>4
         DEF OpKnows, Stationed, Holds, BacksUp, PushKinds, PullKinds, ResolveKinds, AppendKinds
    <3> QED BY <1>1, <1>2, <2>2, <3>3, <3>5, RowsStay, DeviceStays, OpMoves
  <2> QED BY <1>6, <2>1, <2>2 DEF ReadHead, PullKinds, ResolveKinds, AppendKinds
<1>7. CASE op[p].kind \in PushKinds
  <2>1. CASE EndBackup(p, {"blocked"})
    BY <1>1, <1>2, <2>1, EndBackupMoves, DeviceStays, OpMoves
  <2>2. CASE /\ op[p].kind = "backup" => TextOf(Len(revs)) = op[p].text
                                         \/ Len(revs) = outbox[DeviceOf[p]].parent
             /\ op' = [op EXCEPT ![p].latest = Len(revs), ![p].pc = "decide"]
             /\ UNCHANGED outbox
    <3>1. op \in [Proc -> Op]
      BY Types
    <3>2. /\ op' \in [Proc -> Op]
          /\ op'[p].pc = "decide" /\ op'[p].kind = op[p].kind /\ op'[p].text = op[p].text
          /\ op'[p].latest = Len(revs) /\ op'[p].seen = op[p].seen
          /\ \A q \in Proc \ {p} : op'[q] = op[q]
      BY <1>4, <2>2, <3>1 DEF Op
    <3>3. Stationed(p)' /\ Holds(p)'
      BY <1>1, <1>3, <1>4, <1>7, <3>2
         DEF OpKnows, Stationed, Holds, PushKinds, PullKinds, ResolveKinds, AppendKinds
    <3>4. BacksUp(p)'
      <4>1. op[p].kind = "backup" =>
                \/ Len(revs) = outbox[DeviceOf[p]].parent
                \/ Len(revs) # 0 /\ revs[Len(revs)].text = op[p].text
        BY <1>3, <2>2 DEF TextOf, OpKnows, Holds, PushKinds
      <4> QED BY <1>1, <1>3, <2>2, <3>2, <4>1 DEF OpKnows, BacksUp
    <3> QED BY <1>1, <1>2, <2>2, <3>2, <3>3, <3>4, RowsStay, DeviceStays, OpMoves DEF OpKnows
  <2> QED BY <1>7, <2>1, <2>2
          DEF ReadHead, Guarded, PushKinds, PullKinds, ResolveKinds, AppendKinds
<1>8. op[p].kind # "restore"
  BY <1>1, <1>3 DEF OpKnows, Stationed
<1> QED BY <1>3, <1>5, <1>6, <1>7, <1>8, KindCases

\* The agreement on a head.
LEMMA AgreeKeeps ==
    ASSUME SyncInv, NEW p \in Proc, op[p].pc # "cas", Agree(p),
           UNCHANGED <<revs, requests, doc, backups, edits>>,
           op[p].latest # 0, op[p].kind = "backup" => revs[op[p].latest].text = op[p].text
    PROVE  SyncInv'
<1>1. op[p] \in Op /\ OpKnows(p) /\ DeviceOf[p] \in Device
  BY KindCases
<1>2. op[p].latest \in 1 .. Len(revs) /\ op[p].latest \in 0 .. MaxRevisions
  BY <1>1, Types DEF OpKnows, Holds, Op
<1> DEFINE c == [cursor |-> op[p].latest, synced |-> revs[op[p].latest].text]
<1>3. c \in Config /\ c.cursor = op[p].latest /\ c.synced = revs[op[p].latest].text
  BY <1>2, Types DEF Config, Revision
<1>4. config' = [config EXCEPT ![DeviceOf[p]] = c]
  BY <1>2 DEF Agree, TextOf
<1> HIDE DEF c
<1>5. /\ config' \in [Device -> Config]
      /\ \A d \in Device : config'[d] # NoConfig =>
             config'[d].cursor \in 1 .. Len(revs)
             /\ config'[d].synced = revs[config'[d].cursor].text
  BY <1>1, <1>2, <1>3, <1>4, Types, Agreements
<1>6. /\ op' \in [Proc -> Op] /\ \A q \in Proc \ {p} : op'[q] = op[q]
      /\ OpKnows(p)' /\ RowsMove
  BY <1>2, EndBackupMoves DEF Agree
<1>7. doc' \in [Device -> Text] /\ backups' \in [Device -> SUBSET Text]
  BY Types
<1> QED BY <1>5, <1>6, <1>7, OpMoves

LEMMA PushIsThereKeeps == ASSUME SyncInv, NEW p \in Proc, PushIsThere(p) PROVE SyncInv'
<1>1. /\ op[p].pc = "decide" /\ op[p].kind \in PushKinds /\ TextOf(op[p].latest) = op[p].text
      /\ Agree(p) /\ UNCHANGED <<revs, requests, doc, backups, edits>>
  BY DEF PushIsThere, At
<1>2. op[p].text # None
  BY <1>1, KindCases DEF OpKnows, Holds
<1>3. op[p].latest # 0 /\ revs[op[p].latest].text = op[p].text
  BY <1>1, <1>2 DEF TextOf
<1> QED BY <1>1, <1>3, AgreeKeeps

LEMMA SaveConfigKeeps == ASSUME SyncInv, NEW p \in Proc, SaveConfig(p) PROVE SyncInv'
<1>1. op[p].pc = "save" /\ Agree(p) /\ UNCHANGED <<revs, requests, doc, backups, edits>>
  BY DEF SaveConfig, At
<1>2. op[p].latest # 0 /\ (op[p].kind = "backup" => revs[op[p].latest].text = op[p].text)
  BY <1>1, KindCases DEF OpKnows, Holds, BacksUp
<1> QED BY <1>1, <1>2, AgreeKeeps

LEMMA PushConflictKeeps == ASSUME SyncInv, NEW p \in Proc, PushConflict(p) PROVE SyncInv'
<1>1. /\ op[p].pc = "decide" /\ EndBackup(p, {"blocked"})
      /\ UNCHANGED <<revs, requests, doc, config, backups, edits>>
  BY DEF PushConflict, At
<1>2. doc' \in [Device -> Text] /\ backups' \in [Device -> SUBSET Text]
  BY <1>1, Types
<1> QED BY <1>1, <1>2, EndBackupMoves, DeviceStays, OpMoves

-----------------------------------------------------------------------------
(* Requests, and their execution by the server.                            *)

\* An operation sends one request and waits for it.
LEMMA SendKeeps ==
    ASSUME SyncInv, NEW p \in Proc, op[p].pc = "decide",
           NEW r \in Request, r.by = p, r.awaited, requests' = requests \cup {r},
           UNCHANGED <<revs, doc, config, backups, outbox, edits>>,
           op' \in [Proc -> Op], \A q \in Proc \ {p} : op'[q] = op[q],
           op'[p].pc = "cas", op'[p].text = r.text,
           r.parent \in 0 .. Len(revs),
           r.kind # "force-push" /\ r.parent # 0 => r.knew = revs[r.parent].text,
           r.kind = "backup" =>
               /\ outbox[DeviceOf[p]].state # "none" /\ r.text = outbox[DeviceOf[p]].text
               /\ r.parent = outbox[DeviceOf[p]].parent,
           OpKnows(p)'
    PROVE  SyncInv'
<1>1. TypeOK'
  <2>1. requests' \subseteq Request
    BY Types
  <2> QED BY <2>1 DEF SyncInv, HistoryIsSound, TypeOK, Op, Request
<1>2. InformedChain' /\ BackupIsExact' /\ BackedUpOnce'
  BY DEF SyncInv, HistoryIsSound, InformedChain, BackupIsExact, BackedUpOnce
<1>3. Operations'
  <2>1. ASSUME NEW q \in Proc, q # p PROVE OpKnows(q)'
    BY <2>1, OthersKnow, RowsStay
  <2> QED BY <2>1 DEF Operations
<1>4. Rows'
  BY DEF SyncInv, Rows
<1>5. RequestsKnow'
  <2>1. \A q \in requests' : q \in requests \/ q = r
    OBVIOUS
  <2> QED BY <2>1 DEF SyncInv, RequestsKnow
<1>6. Awaited'
  <2>1. \A q \in requests : q.by \in Proc /\ (q.awaited => q.by # p)
    BY Types DEF SyncInv, Awaited, Request
  <2>2. ASSUME NEW q \in requests, q.awaited
        PROVE  /\ op'[q.by].pc = "cas" /\ op'[q.by].text = q.text
               /\ \A t \in requests' : t.awaited /\ t.by = q.by => t = q
    BY <2>1, <2>2 DEF SyncInv, Awaited
  <2>3. \A t \in requests' : t.awaited /\ t.by = r.by => t = r
    BY <2>1
  <2> QED BY <2>2, <2>3 DEF Awaited
<1> QED BY <1>1, <1>2, <1>3, <1>4, <1>5, <1>6 DEF SyncInv, HistoryIsSound

\* What was agreed on is the text of the head, when nothing moved.
LEMMA SendPushKeeps == ASSUME SyncInv, NEW p \in Proc, SendPush(p) PROVE SyncInv'
<1>1. /\ op[p].pc = "decide" /\ op[p].kind \in PushKinds
      /\ TextOf(op[p].latest) # op[p].text
      /\ op[p].kind # "force-push" => ~Moved(p)
      /\ UNCHANGED <<revs, doc, config, backups, edits>>
  BY DEF SendPush, At
<1>2. CASE EndBackup(p, {"blocked"}) /\ UNCHANGED requests
  <2>1. doc' \in [Device -> Text] /\ backups' \in [Device -> SUBSET Text]
    BY <1>1, Types
  <2> QED BY <1>1, <1>2, <2>1, EndBackupMoves, DeviceStays, OpMoves
<1>3. CASE RequestAppend(p, op[p].text, op[p].seen.synced) /\ UNCHANGED outbox
  <2> DEFINE r == [by |-> p, parent |-> op[p].latest, text |-> op[p].text,
                   knew |-> op[p].seen.synced, kind |-> op[p].kind, awaited |-> TRUE]
  <2>1. op[p] \in Op /\ OpKnows(p)
    BY KindCases
  <2>2. op[p].text \in Text /\ op[p].latest \in 0 .. Len(revs) /\ op[p].seen \in Config
    BY <1>1, <2>1 DEF OpKnows, Holds, Op
  <2>3. /\ r \in Request /\ r.by = p /\ r.awaited /\ r.text = op[p].text
        /\ r.parent = op[p].latest /\ r.knew = op[p].seen.synced /\ r.kind = op[p].kind
    BY <1>1, <2>1, <2>2 DEF Request, Op, Config
  <2>4. requests' = requests \cup {r} /\ op' = [op EXCEPT ![p].pc = "cas", ![p].text = op[p].text]
    BY <1>3 DEF RequestAppend
  <2> HIDE DEF r
  <2>5. /\ op' \in [Proc -> Op]
        /\ op'[p].pc = "cas" /\ op'[p].kind = op[p].kind /\ op'[p].text = op[p].text
        /\ op'[p].latest = op[p].latest /\ op'[p].seen = op[p].seen
        /\ \A q \in Proc \ {p} : op'[q] = op[q]
    <3>1. op \in [Proc -> Op]
      BY Types
    <3> QED BY <2>2, <2>4, <3>1 DEF Op
  <2>6. r.kind # "force-push" /\ r.parent # 0 => r.knew = revs[r.parent].text
    <3>1. SUFFICES ASSUME op[p].kind # "force-push", op[p].latest # 0
                   PROVE  op[p].seen.synced = revs[op[p].latest].text
      BY <2>3
    <3>2. op[p].latest = op[p].seen.cursor \/ revs[op[p].latest].text = op[p].seen.synced
      BY <1>1, <3>1 DEF Moved, TextOf
    <3>3. op[p].seen.cursor # 0 => op[p].seen # NoConfig
      BY DEF NoConfig
    <3> QED BY <1>1, <2>1, <3>1, <3>2, <3>3 DEF OpKnows, Holds
  <2>7. r.kind = "backup" =>
            /\ outbox[DeviceOf[p]].state # "none" /\ r.text = outbox[DeviceOf[p]].text
            /\ r.parent = outbox[DeviceOf[p]].parent
    BY <1>1, <2>1, <2>3 DEF OpKnows, BacksUp, TextOf
  <2>8. OpKnows(p)'
    BY <1>1, <1>3, <2>1, <2>5
       DEF OpKnows, Stationed, Holds, BacksUp, PushKinds, PullKinds, ResolveKinds, AppendKinds
  <2> QED BY <1>1, <1>3, <2>2, <2>3, <2>4, <2>5, <2>6, <2>7, <2>8, SendKeeps
<1> QED BY <1>2, <1>3 DEF SendPush

\* A person knew the head that the choice is appended to.
LEMMA SendResolveKeeps == ASSUME SyncInv, NEW p \in Proc, SendResolve(p) PROVE SyncInv'
<1>1. /\ op[p].pc = "decide" /\ op[p].kind \in AppendKinds
      /\ UNCHANGED <<revs, doc, config, backups, outbox, edits>>
  BY DEF SendResolve, At
<1>2. op[p] \in Op /\ OpKnows(p)
  BY KindCases
<1>3. op[p].text \in Text /\ op[p].latest \in 1 .. Len(revs)
  BY <1>1, <1>2, Types DEF OpKnows, Holds, Op, ResolveKinds
<1>4. PICK t \in Text :
          /\ requests' = requests \cup {[by |-> p, parent |-> op[p].latest, text |-> Stable[t],
                                         knew |-> TextOf(op[p].latest), kind |-> "push",
                                         awaited |-> TRUE]}
          /\ op' = [op EXCEPT ![p].pc = "cas", ![p].text = Stable[t],
                              ![p].seen.synced = op[p].text]
  <2>1. (IF op[p].kind = "keep-local" THEN {op[p].text} ELSE Text) \subseteq Text
    BY <1>3
  <2> QED BY <2>1 DEF SendResolve
<1> DEFINE r == [by |-> p, parent |-> op[p].latest, text |-> Stable[t],
                 knew |-> revs[op[p].latest].text, kind |-> "push", awaited |-> TRUE]
<1>5. requests' = requests \cup {r}
  BY <1>3, <1>4 DEF TextOf
<1>6. Stable[t] \in Text
  BY SyncAssumption DEF SyncAssumption
<1>7. /\ r \in Request /\ r.by = p /\ r.awaited /\ r.text = Stable[t]
      /\ r.parent = op[p].latest /\ r.knew = revs[op[p].latest].text /\ r.kind = "push"
  BY <1>2, <1>3, <1>6, Types DEF Request, Op, Revision, PushKinds
<1> HIDE DEF r
<1>8. /\ op' \in [Proc -> Op]
      /\ op'[p].pc = "cas" /\ op'[p].kind = op[p].kind /\ op'[p].text = Stable[t]
      /\ op'[p].latest = op[p].latest
      /\ \A q \in Proc \ {p} : op'[q] = op[q]
  <2> DEFINE seen == [op[p].seen EXCEPT !.synced = op[p].text]
             o == [op[p] EXCEPT !.pc = "cas", !.text = Stable[t], !.seen = seen]
  <2>1. op' = [op EXCEPT ![p] = o]
    BY <1>4, Zenon
  <2>2. seen \in Config
    BY <1>2, <1>3 DEF Op, Config
  <2> HIDE DEF seen
  <2>3. /\ o \in Op /\ o.pc = "cas" /\ o.kind = op[p].kind /\ o.text = Stable[t]
        /\ o.latest = op[p].latest
    BY <1>2, <1>6, <2>2 DEF Op
  <2> HIDE DEF o
  <2> QED BY <2>1, <2>3, OpBecomes
<1>9. OpKnows(p)'
  <2>1. Stable[t] # None
    BY <1>6, SyncAssumption DEF SyncAssumption
  <2> QED BY <1>1, <1>2, <1>8, <2>1
       DEF OpKnows, Stationed, Holds, BacksUp, PushKinds, PullKinds, ResolveKinds, AppendKinds
<1>10. r.parent \in 0 .. Len(revs)
  BY <1>3, <1>7
<1> QED BY <1>1, <1>5, <1>7, <1>8, <1>9, <1>10, SendKeeps

LEMMA ExecuteKeeps == ASSUME SyncInv, NEW r \in requests, Execute(r) PROVE SyncInv'
<1>1. /\ requests' = requests \ {r} /\ UNCHANGED <<doc, config, backups, edits>>
      /\ MayAppend(r) => Len(revs) < MaxRevisions
  BY DEF Execute
<1>2. /\ r \in Request /\ r.by \in Proc /\ DeviceOf[r.by] \in Device
  BY Types, SyncAssumption DEF Request, SyncAssumption
<1>3. /\ op[r.by] \in Op /\ OpKnows(r.by)
  BY <1>2, KindCases
<1>4. r.awaited => op[r.by].pc = "cas" /\ op[r.by].text = r.text /\ op[r.by].kind # "none"
  BY <1>2, <1>3 DEF SyncInv, Awaited, OpKnows, Stationed
\* Whoever is answered leaves, and nobody else waits for that request.
<1>5. ASSUME op' \in [Proc -> Op], RowsMove,
             IF r.awaited THEN \A q \in Proc \ {r.by} : op'[q] = op[q] ELSE UNCHANGED op
      PROVE  Awaited' /\ Rows' /\ (UNCHANGED revs => RequestsKnow')
  <2>1. \A q \in requests \ {r} : /\ q.by \in Proc /\ DeviceOf[q.by] \in Device
                                  /\ q.awaited /\ r.awaited => q.by # r.by
    BY Types, SyncAssumption DEF SyncInv, Awaited, Request, SyncAssumption
  <2>2. Awaited'
    BY <1>1, <1>5, <2>1 DEF SyncInv, Awaited
  <2>3. Rows'
    BY <1>5 DEF SyncInv, Rows, RowsMove
  <2>4. UNCHANGED revs => RequestsKnow'
    BY <1>1, <1>5, <2>1 DEF SyncInv, RequestsKnow, RowsMove
  <2> QED BY <2>2, <2>3, <2>4
<1>6. CASE ~MayAppend(r)
  <2>1. UNCHANGED revs
    BY <1>6 DEF Execute
  <2>2. /\ op' \in [Proc -> Op] /\ RowsMove
        /\ IF r.awaited THEN \A q \in Proc \ {r.by} : op'[q] = op[q] ELSE UNCHANGED op
        /\ OpKnows(r.by)'
    <3>1. CASE r.awaited
      <4>1. EndBackup(r.by, {"blocked"})
        BY <1>6, <3>1 DEF Execute
      <4> QED BY <1>2, <2>1, <3>1, <4>1, EndBackupMoves
    <3>2. CASE ~r.awaited
      <4>1. UNCHANGED <<op, outbox>>
        BY <3>2 DEF Execute
      <4> QED BY <1>1, <1>2, <2>1, <3>2, <4>1, Types, RowsStay, OthersKnow
    <3> QED BY <3>1, <3>2
  <2>3. TypeOK'
    <3>1. requests' \subseteq Request
      BY <1>1, Types
    <3> QED BY <1>1, <2>1, <2>2, <3>1
            DEF SyncInv, HistoryIsSound, TypeOK, Op, Row, Request, RowsMove
  <2>4. InformedChain'
    BY <2>1 DEF SyncInv, HistoryIsSound, InformedChain
  <2>5. BackupIsExact' /\ BackedUpOnce'
    BY <2>1, <2>2 DEF SyncInv, HistoryIsSound, BackupIsExact, BackedUpOnce, RowsMove
  <2>6. Operations'
    <3>1. ASSUME NEW q \in Proc, q # r.by PROVE OpKnows(q)'
      BY <1>1, <2>1, <2>2, <3>1, OthersKnow
    <3> QED BY <2>2, <3>1 DEF Operations
  <2> QED BY <1>5, <2>1, <2>2, <2>3, <2>4, <2>5, <2>6 DEF SyncInv, HistoryIsSound
<1>7. CASE MayAppend(r)
  <2> DEFINE rev == [text |-> r.text, knew |-> r.knew, kind |-> r.kind]
  <2>1. revs' = Append(revs, rev) /\ Len(revs) = r.parent /\ Len(revs) < MaxRevisions
    BY <1>1, <1>7 DEF Execute, MayAppend
  <2>2. rev \in Revision /\ rev.text = r.text /\ rev.knew = r.knew /\ rev.kind = r.kind
    BY <1>2 DEF Request, Revision
  <2> HIDE DEF rev
  <2>3. /\ revs' \in Seq(Revision) /\ Len(revs') = Len(revs) + 1 /\ Len(revs') <= MaxRevisions
        /\ revs'[Len(revs) + 1] = rev
        /\ \A i \in 1 .. Len(revs) : revs'[i] = revs[i]
    BY <2>1, <2>2, Types, SyncAssumption DEF SyncAssumption
  <2>4. Len(revs) \in Nat /\ Len(revs) + 1 \in 0 .. MaxRevisions /\ MaxRevisions \in Nat
    BY <2>1, Types, SyncAssumption DEF SyncAssumption
  <2>5. UNCHANGED outbox
    BY <1>7 DEF Execute
  <2>6. RowsMove
    BY <2>5, RowsStay
  <2>7. OnServer \subseteq OnServer'
    BY <2>3, <2>4 DEF OnServer
  <2>8. ASSUME NEW q \in Proc, op'[q] = op[q] PROVE OpKnows(q)'
    <3>1. OpKnows(q) /\ op[q].latest \in Nat
      BY <2>4, KindCases DEF OpKnows, Holds
    <3>2. Stationed(q)' /\ Holds(q)'
      BY <1>1, <2>3, <2>4, <2>7, <2>8, <3>1 DEF OpKnows, Stationed, Holds
    <3>3. BacksUp(q)'
      BY <2>3, <2>4, <2>5, <2>8, <3>1
         DEF OpKnows, Stationed, Holds, BacksUp, PushKinds
    <3> QED BY <3>2, <3>3 DEF OpKnows
  <2>9. /\ op' \in [Proc -> Op] /\ OpKnows(r.by)'
        /\ IF r.awaited THEN \A q \in Proc \ {r.by} : op'[q] = op[q] ELSE UNCHANGED op
    <3>1. CASE ~r.awaited
      <4>1. UNCHANGED op
        BY <3>1 DEF Execute
      <4> QED BY <1>2, <2>8, <3>1, <4>1, Types
    <3>2. CASE r.awaited
      <4>1. PICK pc \in {"check", "save"} :
                /\ op' = [op EXCEPT ![r.by].latest = Len(revs) + 1, ![r.by].pc = pc]
                /\ pc = "check" <=> op[r.by].kind \in AppendKinds
        BY <1>7, <3>2 DEF Execute
      <4>2. op \in [Proc -> Op]
        BY Types
      <4>3. /\ op' \in [Proc -> Op]
            /\ op'[r.by].pc = pc /\ op'[r.by].kind = op[r.by].kind
            /\ op'[r.by].text = op[r.by].text /\ op'[r.by].seen = op[r.by].seen
            /\ op'[r.by].latest = Len(revs) + 1
            /\ \A q \in Proc \ {r.by} : op'[q] = op[q]
        BY <1>2, <2>4, <4>1, <4>2 DEF Op
      <4>4. Stationed(r.by)'
        BY <1>3, <1>4, <3>2, <4>1, <4>3
           DEF OpKnows, Stationed, PushKinds, PullKinds, AppendKinds
      <4>5. Holds(r.by)'
        BY <1>3, <1>4, <2>3, <2>4, <3>2, <4>3 DEF OpKnows, Holds
      <4>6. BacksUp(r.by)'
        BY <1>3, <1>4, <2>2, <2>3, <2>5, <3>2, <4>3 DEF OpKnows, BacksUp
      <4> QED BY <3>2, <4>3, <4>4, <4>5, <4>6 DEF OpKnows
    <3> QED BY <3>1, <3>2
  <2>10. TypeOK'
    <3>1. requests' \subseteq Request
      BY <1>1, Types
    <3>2. \A d \in Device : config'[d] # NoConfig =>
              config'[d].cursor \in 1 .. Len(revs') /\ config'[d].synced = revs'[config'[d].cursor].text
      BY <1>1, <2>3, <2>4, Agreements
    <3> QED BY <1>1, <2>3, <2>5, <2>9, <3>1, <3>2
            DEF SyncInv, HistoryIsSound, TypeOK, Op, Row, Request, Revision
  <2>11. InformedChain'
    <3>1. ASSUME NEW i \in 2 .. Len(revs'), revs'[i].kind # "force-push"
          PROVE  revs'[i].knew = revs'[i - 1].text
      <4>1. CASE i \in 2 .. Len(revs)
        <5>1. i - 1 \in 1 .. Len(revs) /\ i \in 1 .. Len(revs)
          BY <4>1, <2>4
        <5> QED BY <2>3, <3>1, <4>1, <5>1 DEF SyncInv, HistoryIsSound, InformedChain
      <4>2. CASE i = Len(revs) + 1
        <5>1. i - 1 = Len(revs) /\ Len(revs) \in 1 .. Len(revs) /\ r.parent # 0
          BY <2>1, <2>4, <4>2
        <5>2. r.knew = revs[Len(revs)].text
          BY <2>1, <2>2, <2>3, <3>1, <4>2, <5>1 DEF SyncInv, RequestsKnow
        <5> QED BY <2>2, <2>3, <4>2, <5>1, <5>2
      <4> QED BY <2>3, <2>4, <4>1, <4>2
    <3> QED BY <3>1 DEF InformedChain
  <2>12. BackupIsExact'
    BY <2>3, <2>4, <2>5 DEF SyncInv, HistoryIsSound, BackupIsExact
  <2>13. BackedUpOnce'
    <3>1. ASSUME NEW i \in 1 .. Len(revs'), revs'[i].kind = "backup"
          PROVE  \E d \in Device : outbox[d].text = revs'[i].text /\ outbox[d].parent + 1 = i
      <4>1. CASE i \in 1 .. Len(revs)
        BY <2>3, <3>1, <4>1 DEF SyncInv, HistoryIsSound, BackedUpOnce
      <4>2. CASE i = Len(revs) + 1
        <5>1. r.text = outbox[DeviceOf[r.by]].text /\ r.parent = outbox[DeviceOf[r.by]].parent
          BY <2>2, <2>3, <3>1, <4>2 DEF SyncInv, RequestsKnow
        <5> QED BY <1>2, <2>1, <2>2, <2>3, <4>2, <5>1
      <4> QED BY <2>3, <2>4, <4>1, <4>2
    <3> QED BY <2>5, <3>1 DEF BackedUpOnce
  <2>14. Operations'
    <3>1. ASSUME NEW q \in Proc, q # r.by PROVE OpKnows(q)'
      BY <2>8, <2>9, <3>1
    <3> QED BY <2>9, <3>1 DEF Operations
  <2>15. RequestsKnow'
    <3>1. \A q \in requests \ {r} : q.parent \in Nat
      BY Types DEF Request
    <3> QED BY <1>1, <2>3, <2>4, <2>5, <3>1 DEF SyncInv, RequestsKnow
  <2> QED BY <1>5, <2>6, <2>9, <2>10, <2>11, <2>12, <2>13, <2>14, <2>15 DEF SyncInv, HistoryIsSound
<1> QED BY <1>6, <1>7

-----------------------------------------------------------------------------
(* Writing at the device.                                                  *)

\* What is replaced is on the server or in a backup.
LEMMA ReplaceKeeps ==
    ASSUME SyncInv, NEW p \in Proc, op[p].pc = "check",
           op' = [op EXCEPT ![p].pc = "install", ![p].text = Here(p)],
           backups' \in [Device -> SUBSET Text],
           \A d \in Device : backups[d] \subseteq backups'[d],
           Here(p) \in backups'[DeviceOf[p]] \cup OnServer,
           UNCHANGED <<revs, requests, doc, config, outbox, edits>>
    PROVE  SyncInv'
<1>1. op[p] \in Op /\ OpKnows(p) /\ DeviceOf[p] \in Device
  BY KindCases
<1>2. Here(p) \in Text /\ Here(p) # None
  BY <1>1, Types, SyncAssumption DEF Here, SyncAssumption
<1>3. /\ op' \in [Proc -> Op]
      /\ op'[p].pc = "install" /\ op'[p].kind = op[p].kind /\ op'[p].text = Here(p)
      /\ op'[p].latest = op[p].latest /\ op'[p].seen = op[p].seen
      /\ \A q \in Proc \ {p} : op'[q] = op[q]
  <2>1. op \in [Proc -> Op]
    BY Types
  <2> QED BY <1>2, <2>1 DEF Op
<1>4. OpKnows(p)'
  <2>1. Stationed(p)' /\ BacksUp(p)'
    BY <1>1, <1>3 DEF OpKnows, Stationed, BacksUp, PushKinds, PullKinds
  <2>2. OnServer' = OnServer
    BY DEF OnServer
  <2>3. Holds(p)'
    BY <1>1, <1>2, <1>3, <2>2 DEF OpKnows, Holds
  <2> QED BY <2>1, <2>3 DEF OpKnows
<1>5. doc' \in [Device -> Text]
  BY Types
<1> QED BY <1>3, <1>4, <1>5, RowsStay, DeviceStays, OpMoves

LEMMA ReplaceBacksUp ==
    ASSUME SyncInv, NEW p \in Proc, op[p].pc = "check", Replace(p),
           UNCHANGED <<revs, requests, doc, config, outbox, edits>>
    PROVE  SyncInv'
<1>1. DeviceOf[p] \in Device /\ Here(p) \in Text
  BY Types, SyncAssumption DEF SyncAssumption, Here
<1>2. /\ backups' \in [Device -> SUBSET Text]
      /\ \A d \in Device : backups[d] \subseteq backups'[d]
      /\ Here(p) \in backups'[DeviceOf[p]] \cup OnServer
      /\ op' = [op EXCEPT ![p].pc = "install", ![p].text = Here(p)]
  BY <1>1, Types DEF Replace
<1> QED BY <1>2, ReplaceKeeps

LEMMA EndKeeps ==
    ASSUME SyncInv, NEW p \in Proc, op[p].pc # "cas", End(p),
           UNCHANGED <<revs, requests, doc, config, backups, outbox, edits>>
    PROVE  SyncInv'
BY Types, EndMoves, RowsStay, DeviceStays, OpMoves

LEMMA CheckKeeps ==
    ASSUME SyncInv, NEW p \in Proc, CheckPull(p) \/ CheckResolve(p) \/ CheckRestore(p)
    PROVE  SyncInv'
<1>1. /\ op[p].pc = "check"
      /\ UNCHANGED <<revs, requests, doc, config, outbox, edits>>
  BY DEF CheckPull, CheckResolve, CheckRestore, At
<1>2. op[p] \in Op /\ OpKnows(p) /\ DeviceOf[p] \in Device /\ op[p].latest \in 1 .. Len(revs)
  BY <1>1, KindCases, Types DEF OpKnows, Holds
<1>3. CASE End(p) /\ UNCHANGED backups
  BY <1>1, <1>3, EndKeeps
<1>4. CASE Replace(p)
  BY <1>1, <1>4, ReplaceBacksUp
<1>5. CASE /\ op' = [op EXCEPT ![p].pc = "install", ![p].text = Here(p)]
           /\ Here(p) = TextOf(op[p].latest) /\ UNCHANGED backups
  <2>1. Here(p) \in OnServer
    BY <1>2, <1>5 DEF TextOf, OnServer
  <2> QED BY <1>1, <1>5, <2>1, Types, ReplaceKeeps
<1>6. CASE Goto(p, "save") /\ UNCHANGED backups /\ op[p].kind = "keep-local"
  <2>1. /\ op' \in [Proc -> Op]
        /\ op'[p].pc = "save" /\ op'[p].kind = op[p].kind /\ op'[p].text = op[p].text
        /\ op'[p].latest = op[p].latest /\ op'[p].seen = op[p].seen
        /\ \A q \in Proc \ {p} : op'[q] = op[q]
    BY <1>6, OpGoes DEF Goto
  <2>2. OpKnows(p)'
    BY <1>1, <1>2, <1>6, <2>1
       DEF OpKnows, Stationed, Holds, BacksUp, PushKinds, PullKinds, ResolveKinds, AppendKinds
  <2>3. doc' \in [Device -> Text] /\ backups' \in [Device -> SUBSET Text]
    BY <1>1, <1>6, Types
  <2> QED BY <1>1, <1>6, <2>1, <2>2, <2>3, RowsStay, DeviceStays, OpMoves
<1> QED BY <1>3, <1>4, <1>5, <1>6 DEF CheckPull, CheckResolve, CheckRestore

LEMMA InstallKeeps == ASSUME SyncInv, NEW p \in Proc, Install(p) PROVE SyncInv'
<1>1. /\ op[p].pc = "install" /\ Goto(p, "save")
      /\ doc' = [doc EXCEPT ![DeviceOf[p]] = Stable[TextOf(op[p].latest)]]
      /\ UNCHANGED <<revs, requests, config, backups, outbox, edits>>
  BY DEF Install, At
<1>2. /\ op[p] \in Op /\ OpKnows(p) /\ DeviceOf[p] \in Device /\ op[p].kind # "none"
      /\ op[p].latest \in 1 .. Len(revs)
  BY <1>1, KindCases, Types DEF OpKnows, Stationed, Holds
<1>3. doc' \in [Device -> Text] /\ backups' \in [Device -> SUBSET Text]
  BY <1>1, <1>2, Types, SyncAssumption DEF TextOf, Revision, SyncAssumption
<1>4. /\ op' \in [Proc -> Op]
      /\ op'[p].pc = "save" /\ op'[p].kind = op[p].kind /\ op'[p].text = op[p].text
      /\ op'[p].latest = op[p].latest /\ op'[p].seen = op[p].seen
      /\ \A q \in Proc \ {p} : op'[q] = op[q]
  BY <1>1, <1>2, OpGoes DEF Goto
<1>5. OpKnows(p)'
  BY <1>1, <1>2, <1>4
     DEF OpKnows, Stationed, Holds, BacksUp, PushKinds, PullKinds, ResolveKinds, AppendKinds
<1> QED BY <1>1, <1>3, <1>4, <1>5, RowsStay, DeviceStays, OpMoves

-----------------------------------------------------------------------------
(* Failures, edits and saves.                                              *)

\* A request that nobody waits for any more is what it was.
LEMMA FailKeeps == ASSUME SyncInv, NEW p \in Proc, Fail(p) PROVE SyncInv'
<1> DEFINE mine == {r \in requests : r.by = p /\ r.awaited}
           late == {[r EXCEPT !.awaited = FALSE] : r \in mine}
<1>1. /\ End(p) /\ UNCHANGED <<revs, doc, config, backups, outbox, edits>>
      /\ requests' = requests \ mine \/ requests' = (requests \ mine) \cup late
  BY DEF Fail
<1>2. /\ op' \in [Proc -> Op] /\ \A q \in Proc \ {p} : op'[q] = op[q]
      /\ OpKnows(p)'
  BY <1>1, EndMoves
<1>3. \A q \in requests' :
          \/ q \in requests /\ ~(q.by = p /\ q.awaited)
          \/ /\ q \in Request /\ ~q.awaited
             /\ \E r \in requests : /\ q.by = r.by /\ q.parent = r.parent /\ q.text = r.text
                                    /\ q.knew = r.knew /\ q.kind = r.kind
  <2>1. ASSUME NEW q \in late
        PROVE  /\ q \in Request /\ ~q.awaited
               /\ \E r \in requests : /\ q.by = r.by /\ q.parent = r.parent /\ q.text = r.text
                                      /\ q.knew = r.knew /\ q.kind = r.kind
    <3>1. PICK r \in mine : q = [r EXCEPT !.awaited = FALSE]
      OBVIOUS
    <3>2. r \in Request /\ r \in requests
      BY Types
    <3> QED BY <3>1, <3>2 DEF Request
  <2>2. \A q \in requests \ mine : q \in requests /\ ~(q.by = p /\ q.awaited)
    OBVIOUS
  <2> HIDE DEF late, mine
  <2> QED BY <1>1, <2>1, <2>2
<1> HIDE DEF late, mine
<1>4. TypeOK'
  <2>1. requests' \subseteq Request
    BY <1>3, Types
  <2> QED BY <1>1, <1>2, <2>1 DEF SyncInv, HistoryIsSound, TypeOK, Op, Request
<1>5. InformedChain' /\ BackupIsExact' /\ BackedUpOnce'
  BY <1>1 DEF SyncInv, HistoryIsSound, InformedChain, BackupIsExact, BackedUpOnce
<1>6. Operations'
  <2>1. ASSUME NEW q \in Proc, q # p PROVE OpKnows(q)'
    BY <1>1, <1>2, <2>1, OthersKnow, RowsStay
  <2> QED BY <1>2, <2>1 DEF Operations
<1>7. Rows'
  BY <1>1 DEF SyncInv, Rows
<1>8. RequestsKnow'
  <2>1. ASSUME NEW q \in requests'
        PROVE  /\ q.parent \in 0 .. Len(revs)
               /\ q.kind # "force-push" /\ q.parent # 0 => q.knew = revs[q.parent].text
               /\ q.kind = "backup" =>
                     /\ outbox[DeviceOf[q.by]].state # "none"
                     /\ q.text = outbox[DeviceOf[q.by]].text
                     /\ q.parent = outbox[DeviceOf[q.by]].parent
    <3>1. PICK r \in requests : /\ q.by = r.by /\ q.parent = r.parent /\ q.text = r.text
                                /\ q.knew = r.knew /\ q.kind = r.kind
      BY <1>3
    <3> QED BY <3>1 DEF SyncInv, RequestsKnow
  <2> QED BY <1>1, <2>1 DEF RequestsKnow
<1>9. Awaited'
  <2>1. \A q \in requests' : q.awaited => q \in requests /\ q.by # p /\ q.by \in Proc
    BY <1>3, Types DEF Request
  <2> QED BY <1>2, <2>1 DEF SyncInv, Awaited
<1> QED BY <1>4, <1>5, <1>6, <1>7, <1>8, <1>9 DEF SyncInv, HistoryIsSound

LEMMA EditKeeps == ASSUME SyncInv, NEW d \in Device, Edit(d) PROVE SyncInv'
<1>1. /\ doc' \in [Device -> Text] /\ edits' \in 0 .. MaxEdits
      /\ UNCHANGED <<revs, requests, config, backups, op, outbox>>
  BY Types, SyncAssumption DEF Edit, SyncAssumption
<1>2. TypeOK'
  BY <1>1 DEF SyncInv, HistoryIsSound, TypeOK
<1>3. InformedChain' /\ BackupIsExact' /\ BackedUpOnce'
  BY <1>1 DEF SyncInv, HistoryIsSound, InformedChain, BackupIsExact, BackedUpOnce
<1>4. Operations'
  BY <1>1, OthersKnow, RowsStay DEF Operations
<1>5. Rows' /\ RequestsKnow' /\ Awaited'
  BY <1>1 DEF SyncInv, Rows, RequestsKnow, Awaited
<1> QED BY <1>2, <1>3, <1>4, <1>5 DEF SyncInv, HistoryIsSound

\* A new row is nobody's yet.
LEMMA EnqueueKeeps == ASSUME SyncInv, NEW d \in Device, Enqueue(d) PROVE SyncInv'
<1> DEFINE row == [state |-> "pending", text |-> doc[d], parent |-> config[d].cursor,
                   attempts |-> 0]
<1>1. /\ "backup" \in Kinds /\ outbox[d].state = "none" /\ outbox' = [outbox EXCEPT ![d] = row]
      /\ UNCHANGED <<revs, requests, doc, config, backups, op, edits>>
  BY DEF Enqueue
<1>2. doc[d] \in Text /\ config[d] \in Config /\ None \notin Text /\ 0 \in 0 .. MaxAttempts
  BY Types, SyncAssumption DEF SyncAssumption
<1>3. row \in Row /\ row.state = "pending" /\ row.text \in Text
  BY <1>2 DEF Row, Config
<1> HIDE DEF row
<1>4. /\ outbox' \in [Device -> Row] /\ outbox'[d] = row
      /\ \A e \in Device \ {d} : outbox'[e] = outbox[e]
  BY <1>1, <1>3, Types
<1>5. outbox[d].text = None
  BY <1>1 DEF SyncInv, Rows
<1>6. TypeOK'
  BY <1>1, <1>4 DEF SyncInv, HistoryIsSound, TypeOK, Row
<1>7. InformedChain' /\ BackupIsExact'
  BY <1>1, <1>3, <1>4 DEF SyncInv, HistoryIsSound, InformedChain, BackupIsExact
<1>8. BackedUpOnce'
  <2>1. ASSUME NEW i \in 1 .. Len(revs), revs[i].kind = "backup"
        PROVE  \E e \in Device : outbox'[e].text = revs[i].text /\ outbox'[e].parent + 1 = i
    <3>1. PICK e \in Device : outbox[e].text = revs[i].text /\ outbox[e].parent + 1 = i
      BY <2>1 DEF SyncInv, HistoryIsSound, BackedUpOnce
    <3>2. revs[i].text \in Text
      BY Types DEF Revision
    <3>3. e # d
      BY <1>2, <1>5, <3>1, <3>2
    <3> QED BY <1>4, <3>1, <3>3
  <2> QED BY <1>1, <2>1 DEF BackedUpOnce
<1>9. Operations'
  <2>1. ASSUME NEW q \in Proc PROVE OpKnows(q)'
    <3>1. OpKnows(q) /\ DeviceOf[q] \in Device
      BY KindCases
    <3>2. Stationed(q)' /\ Holds(q)'
      BY <1>1, <3>1 DEF OpKnows, Stationed, Holds, OnServer
    <3>3. BacksUp(q)'
      BY <1>1, <1>4, <3>1 DEF OpKnows, BacksUp
    <3> QED BY <3>2, <3>3 DEF OpKnows
  <2> QED BY <2>1 DEF Operations
<1>10. Rows'
  BY <1>1, <1>3, <1>4 DEF SyncInv, Rows
<1>11. RequestsKnow'
  <2>1. \A r \in requests : DeviceOf[r.by] \in Device
    BY Types, SyncAssumption DEF Request, SyncAssumption
  <2> QED BY <1>1, <1>4, <2>1 DEF SyncInv, RequestsKnow
<1>12. Awaited'
  BY <1>1 DEF SyncInv, Awaited
<1> QED BY <1>6, <1>7, <1>8, <1>9, <1>10, <1>11, <1>12 DEF SyncInv, HistoryIsSound

-----------------------------------------------------------------------------
(* The theorems.                                                           *)

LEMMA SyncNext == SyncInv /\ [Next]_vars => SyncInv'
<1> SUFFICES ASSUME SyncInv, [Next]_vars PROVE SyncInv'
  OBVIOUS
<1>1. CASE UNCHANGED vars
  <2> USE <1>1 DEF vars
  <2>1. TypeOK'
    BY DEF SyncInv, HistoryIsSound, TypeOK
  <2>2. InformedChain' /\ BackupIsExact' /\ BackedUpOnce'
    BY DEF SyncInv, HistoryIsSound, InformedChain, BackupIsExact, BackedUpOnce
  <2>3. Operations'
    BY OthersKnow, RowsStay DEF Operations
  <2>4. Rows' /\ RequestsKnow' /\ Awaited'
    BY DEF SyncInv, Rows, RequestsKnow, Awaited
  <2> QED BY <2>1, <2>2, <2>3, <2>4 DEF SyncInv, HistoryIsSound
<1>2. ASSUME NEW p \in Proc, Step(p) PROVE SyncInv'
  BY <1>2, ReadHeadKeeps, PushIsThereKeeps, PushConflictKeeps, SendPushKeeps, SendResolveKeeps,
     CheckKeeps, InstallKeeps, SaveConfigKeeps DEF Step
<1> QED BY <1>1, <1>2, StartPushKeeps, StartPullKeeps, StartResolveKeeps, StartRestoreKeeps,
           StartBackupKeeps, FailKeeps, ExecuteKeeps, EditKeeps, EnqueueKeeps DEF Next

\* The invariant holds however operations interleave, fail and are executed late.
THEOREM SyncInvariant == Spec => []SyncInv
<1> QED BY SyncInit, SyncNext, PTL DEF Spec

\* HistoryIsSound: every revision but a forced one was appended by somebody who
\* knew the one before; a complete backup is on the server; a backup appends its
\* text once, right after the head its save was made under.
THEOREM HistorySound == Spec => []HistoryIsSound
<1>1. SyncInv => HistoryIsSound
  BY DEF SyncInv
<1> QED BY <1>1, SyncInvariant, PTL

LEMMA InstallLosesNothing ==
    SyncInv => \A p \in Proc : Install(p) /\ Here(p) = op[p].text =>
                   Here(p) \in backups[DeviceOf[p]] \cup OnServer
BY KindCases DEF OpKnows, Holds, Install, At

\* NothingLost: no operation replaces a text it had read that is neither on the
\* server nor in a backup.
THEOREM NothingIsLost == Spec => NothingLost
<1>1. SyncInv /\ [Next]_vars =>
          [\A p \in Proc : Install(p) /\ Here(p) = op[p].text =>
               Here(p) \in backups[DeviceOf[p]] \cup OnServer]_vars
  BY InstallLosesNothing
<1> QED BY <1>1, SyncInvariant, PTL DEF Spec, NothingLost

LEMMA PullKeepsUnsynced ==
    ASSUME SyncInv, NEW p \in Proc, CheckPull(p), op'[p].pc = "install", op[p].kind = "pull"
    PROVE  Here(p) \in OnServer
<1>1. op[p].pc = "check"
  BY DEF CheckPull, At
<1>2. op[p] \in Op /\ OpKnows(p) /\ op[p].latest \in 1 .. Len(revs) /\ op \in [Proc -> Op]
  BY <1>1, KindCases, Types DEF OpKnows, Holds
<1>3. Here(p) = TextOf(op[p].latest) \/ ~LocallyChanged(p)
  <2>1. ~End(p)
    BY <1>2 DEF End, Idle
  <2> QED BY <2>1 DEF CheckPull
<1>4. CASE Here(p) = TextOf(op[p].latest)
  BY <1>2, <1>4 DEF TextOf, OnServer
<1>5. CASE ~LocallyChanged(p)
  <2>1. CASE op[p].seen.synced = None
    BY <1>5, <2>1 DEF LocallyChanged, OnServer
  <2>2. CASE op[p].seen.synced # None
    <3>1. op[p].seen # NoConfig
      BY <2>2 DEF NoConfig
    <3>2. /\ op[p].seen.cursor \in 1 .. Len(revs)
          /\ op[p].seen.synced = revs[op[p].seen.cursor].text
      BY <1>2, <3>1 DEF OpKnows, Holds, PullKinds
    <3> QED BY <1>5, <2>2, <3>2 DEF LocallyChanged, OnServer
  <2> QED BY <2>1, <2>2
<1> QED BY <1>3, <1>4, <1>5

\* UnsyncedKept: a pull that is not forced replaces only what the server has.
THEOREM UnsyncedIsKept == Spec => UnsyncedKept
<1>1. SyncInv /\ [Next]_vars =>
          [\A p \in Proc : CheckPull(p) /\ op'[p].pc = "install" /\ op[p].kind = "pull" =>
               Here(p) \in OnServer]_vars
  BY PullKeepsUnsynced
<1> QED BY <1>1, SyncInvariant, PTL DEF Spec, UnsyncedKept

-----------------------------------------------------------------------------
(* The ledger.  Its module is used with constants and variables of its     *)
(* own; the devices are those above.                                       *)

CONSTANTS Entry, PageSize, MaxSeq, MaxLosses, MaxRewinds, RewindTails

VARIABLES rows, nextSeq, txns, local, acked, cursor, anchor, pc, page, upload, sent,
          losses, rewinds

Ledger == INSTANCE MemoryLedger

\* The constants of the ledger have their types.
LedgerConstants ==
    /\ PageSize \in Nat \ {0}
    /\ {MaxSeq, MaxLosses, MaxRewinds} \subseteq Nat
    /\ RewindTails \in BOOLEAN

\* The types, without the sizes of sets.
Fields ==
    /\ rows \subseteq Ledger!Row
    /\ nextSeq \in 1 .. MaxSeq + 1
    /\ txns \subseteq [device : Device, entry : Entry, seq : 0 .. MaxSeq]
    /\ local \in [Device -> SUBSET Entry]
    /\ acked \in [Device -> SUBSET Entry]
    /\ cursor \in [Device -> 0 .. MaxSeq]
    /\ anchor \in [Device -> SUBSET Entry]
    /\ pc \in [Device -> {"idle", "verify", "pull", "page", "plan", "push", "wait"}]
    /\ page \in [Device -> SUBSET Ledger!Row]
    /\ upload \in [Device -> SUBSET Entry]
    /\ sent \in [Device -> SUBSET Entry]
    /\ losses \in 0 .. MaxLosses /\ rewinds \in 0 .. MaxRewinds

\* Numbers are given out in the order of the commits: an upload that has one is the
\* only one, and is above every row.
NumbersGrow ==
    /\ \A r \in rows : r.seq < nextSeq
    /\ \A r, q \in rows : r # q => r.seq # q.seq /\ r.entry # q.entry
    /\ \A t \in txns : t.seq > 0 => t.seq < nextSeq /\ \A r \in rows : r.seq < t.seq
    /\ \A t, u \in txns : t.seq > 0 /\ u.seq > 0 => t = u

\* What a sync works with is in the files, and what it sends is not acknowledged.
SyncHolds ==
    \A d \in Device :
        /\ IF pc[d] = "idle" THEN upload[d] = {}
           ELSE /\ acked[d] \cup upload[d] \cup sent[d] \subseteq local[d]
                /\ \A r \in page[d] : r.entry \in local[d]
        /\ IF pc[d] = "wait" THEN \E e \in Entry : sent[d] = {e} ELSE sent[d] = {}
        /\ upload[d] # {} => pc[d] \in {"push", "wait"}
        /\ upload[d] \cap (acked[d] \cup sent[d]) = {}

\* The anchor is what the cursor was when it was set: an entry that was acknowledged.
AnchorsKnown ==
    \A d \in Device :
        \/ cursor[d] = 0 /\ anchor[d] = {}
        \/ cursor[d] > 0 /\ \E e \in acked[d] : anchor[d] = {e}

\* A device has a page between two steps only, of rows after its cursor.
PagesAhead ==
    \A d \in Device :
        /\ page[d] # {} => pc[d] = "page"
        /\ \A r \in page[d] : r.seq > cursor[d]

\* Until the database is set back a page has rows that are there, and every cursor
\* is good.
NeverSetBack == rewinds = 0 => \A d \in Device : page[d] \subseteq rows /\ Ledger!Anchored(d)

\* A page that is there has the rows from the cursor to its own last one, none left
\* out, also when others were committed meanwhile.  One that is not was pulled before
\* the database was set back: no upload is left, and every row is below.
PageFollows(d) ==
    IF page[d] \subseteq rows
    THEN \A r \in page[d] : \A q \in rows : q.seq > cursor[d] /\ q.seq <= r.seq => q \in page[d]
    ELSE txns = {} /\ \A r \in page[d] \ rows : \A q \in rows : q.seq < r.seq

\* A cursor that is good has a cache that is true.  The entry of one that is not is
\* not sent again before it is forgotten; and a pull that is under way will find
\* nothing, as the rows end before it.
CursorTells(d) ==
    IF Ledger!Anchored(d)
    THEN Ledger!CacheIsTrue(d)
    ELSE /\ \A t \in txns : t.entry \notin anchor[d]
         /\ pc[d] \in {"pull", "page"} => txns = {} /\ \A q \in rows : q.seq < cursor[d]

Tracked == Ledger!Traceable => \A d \in Device : PageFollows(d) /\ CursorTells(d)

LedgerInv ==
    /\ Fields /\ NumbersGrow /\ SyncHolds
    /\ AnchorsKnown /\ PagesAhead /\ NeverSetBack /\ Tracked

-----------------------------------------------------------------------------
(* Pages.                                                                  *)

\* A bounded set of numbers that is not empty has a largest one.
LEMMA LargestNumber ==
    ASSUME NEW n \in Nat, NEW S, S \subseteq 0 .. n, S # {}
    PROVE  \E m \in S : \A k \in S : k <= m
<1> DEFINE T == {k .. n : k \in S}
<1>1. T \subseteq FiniteSubsetsOf(0 .. n)
  <2>1. \A k \in S : k .. n \subseteq 0 .. n /\ IsFiniteSet(k .. n)
    BY FS_Interval
  <2> QED BY <2>1 DEF FiniteSubsetsOf
<1>2. T # {}
  OBVIOUS
<1>3. PICK x \in T : \A y \in T : <<y, x>> \notin StrictSubsetOrdering(0 .. n)
  <2> HIDE DEF T
  <2> QED BY <1>1, <1>2, FS_StrictSubsetOrderingWellFounded, WFMin
<1>4. PICK m \in S : x = m .. n
  OBVIOUS
<1>5. ASSUME NEW k \in S, m < k
      PROVE  FALSE
  <2>1. k .. n \subseteq 0 .. n /\ m .. n \subseteq 0 .. n
    OBVIOUS
  <2>2. k .. n \subseteq m .. n /\ m \in m .. n /\ m \notin k .. n
    BY <1>5
  <2>3. <<k .. n, m .. n>> \in StrictSubsetOrdering(0 .. n)
    BY <2>1, <2>2 DEF StrictSubsetOrdering
  <2> QED BY <1>3, <1>4, <2>3
<1> QED BY <1>5

\* The ledger counts as this module does.
LEMMA CountsAgree == \A S : Ledger!Cardinality(S) = Cardinality(S)
BY Zenon DEF Ledger!Cardinality, Cardinality

\* The last row of a page is one of its rows, and none has a higher number.
LEMMA LastRow ==
    ASSUME LedgerConstants, NEW R, R \subseteq Ledger!Row, R # {}
    PROVE  /\ Ledger!LastOf(R) \in R
           /\ \A q \in R : q.seq <= Ledger!LastOf(R).seq
<1> DEFINE S == {r.seq : r \in R}
<1>1. S \subseteq 0 .. MaxSeq /\ S # {} /\ MaxSeq \in Nat
  BY DEF LedgerConstants, Ledger!Row
<1>2. PICK m \in S : \A k \in S : k <= m
  <2> HIDE DEF S
  <2> QED BY <1>1, LargestNumber
<1>3. \E r \in R : \A q \in R : q.seq <= r.seq
  BY <1>2
<1> QED BY <1>3 DEF Ledger!LastOf

\* The first page of some rows has, with a row, all of them that come before it.
LEMMA PageIsClosed ==
    ASSUME LedgerConstants, Fields, NumbersGrow, NEW R, R \subseteq rows,
           NEW r \in Ledger!FirstPage(R), NEW q \in R, q.seq <= r.seq
    PROVE  q \in Ledger!FirstPage(R)
<1> DEFINE Upto(x) == {y \in R : y.seq <= x.seq}
<1>0. \A x \in R : x \in Ledger!FirstPage(R) <=> Cardinality(Upto(x)) <= PageSize
  <2>1. \A x \in R : x \in Ledger!FirstPage(R) <=> Ledger!Cardinality(Upto(x)) <= PageSize
    BY DEF Ledger!FirstPage
  <2> HIDE DEF Upto
  <2> QED BY <2>1, CountsAgree
<1>1. \A y \in R : y.seq \in 1 .. MaxSeq
  BY DEF Fields, Ledger!Row
<1>2. IsFiniteSet(Upto(r))
  <2> DEFINE number == [y \in Upto(r) |-> y.seq]
  <2>1. number \in Injection(Upto(r), 1 .. MaxSeq)
    BY <1>1 DEF NumbersGrow, Injection, IsInjective
  <2>2. IsFiniteSet(1 .. MaxSeq)
    BY FS_Interval DEF LedgerConstants
  <2> HIDE DEF number, Upto
  <2> QED BY <2>1, <2>2, FS_Injection
<1>3. Upto(q) \in SUBSET Upto(r)
  BY <1>1 DEF Ledger!FirstPage
<1>4. /\ Cardinality(Upto(r)) \in Nat /\ Cardinality(Upto(q)) \in Nat
      /\ Cardinality(Upto(q)) <= Cardinality(Upto(r))
  <2> HIDE DEF Upto
  <2> QED BY <1>2, <1>3, FS_Subset, FS_CardinalityType
<1>5. Cardinality(Upto(r)) <= PageSize
  <2>1. r \in R
    BY DEF Ledger!FirstPage
  <2> HIDE DEF Upto
  <2> QED BY <1>0, <2>1
<1>6. Cardinality(Upto(q)) <= PageSize
  <2> HIDE DEF Upto
  <2> QED BY <1>4, <1>5 DEF LedgerConstants
<1> HIDE DEF Upto
<1> QED BY <1>0, <1>6

-----------------------------------------------------------------------------
(* The database.                                                           *)

\* A device whose cursor or page was overtaken by a restoration is the only one.
LEMMA OnlyOne ==
    ASSUME LedgerInv, Ledger!Traceable, NEW c \in Device, NEW d \in Device,
           ~(page[d] \subseteq rows) \/ ~Ledger!Anchored(d)
    PROVE  c = d
BY DEF LedgerInv, NeverSetBack, Ledger!Traceable

\* What the parts say of a device.
LEMMA DeviceTells ==
    ASSUME LedgerInv, Ledger!Traceable, NEW d \in Device
    PROVE  PageFollows(d) /\ CursorTells(d)
BY DEF LedgerInv, Tracked

\* The invariant at the start.
LEMMA LedgerInit == ASSUME LedgerConstants PROVE Ledger!Init => LedgerInv
<1> SUFFICES ASSUME Ledger!Init PROVE LedgerInv
  OBVIOUS
<1> USE DEF Ledger!Init
<1>1. Fields
  BY DEF LedgerConstants, Fields
<1>2. NumbersGrow /\ SyncHolds /\ AnchorsKnown /\ PagesAhead
  BY DEF NumbersGrow, SyncHolds, AnchorsKnown, PagesAhead
<1>3. \A d \in Device : Ledger!Anchored(d) /\ Ledger!CacheIsTrue(d) /\ page[d] = {}
  BY DEF Ledger!Anchored, Ledger!CacheIsTrue
<1>4. NeverSetBack /\ Tracked
  BY <1>3 DEF NeverSetBack, Tracked, PageFollows, CursorTells
<1> QED BY <1>1, <1>2, <1>4 DEF LedgerInv

\* A step that leaves the rows, the cache, the page and the uploads alone, and takes no
\* device to a pull, leaves what the cursors tell.
LEMMA CursorsStay ==
    ASSUME LedgerInv, UNCHANGED <<rows, rewinds, acked, cursor, anchor, page>>,
           \A d \in Device : pc'[d] \in {"pull", "page"} => pc[d] \in {"pull", "page"},
           \/ txns' \subseteq txns
           \/ txns # {} /\ \A t \in txns' : \E u \in txns : t.entry = u.entry
    PROVE  NeverSetBack' /\ Tracked'
<1>1. \A d \in Device : Ledger!Anchored(d)' <=> Ledger!Anchored(d)
  BY DEF Ledger!Anchored, Ledger!AnchorStands
<1>2. \A d \in Device : Ledger!CacheIsTrue(d)' <=> Ledger!CacheIsTrue(d)
  BY DEF Ledger!CacheIsTrue, Ledger!Stored
<1>3. NeverSetBack'
  BY <1>1 DEF LedgerInv, NeverSetBack
<1>4. Tracked'
  <2> SUFFICES ASSUME Ledger!Traceable, NEW d \in Device
               PROVE  PageFollows(d)' /\ CursorTells(d)'
    BY DEF Tracked, Ledger!Traceable
  <2>1. PageFollows(d) /\ CursorTells(d)
    BY DeviceTells
  <2>2. PageFollows(d)'
    BY <2>1 DEF PageFollows
  <2>3. CursorTells(d)'
    BY <1>1, <1>2, <2>1 DEF CursorTells
  <2> QED BY <2>2, <2>3
<1> QED BY <1>3, <1>4

\* An upload gets its number while no other has one.
LEMMA NumberKeeps ==
    ASSUME LedgerConstants, LedgerInv, NEW t \in txns, Ledger!Number(t)
    PROVE  LedgerInv'
<1> USE DEF LedgerInv, Ledger!Number, Ledger!cache, Ledger!push
<1>1. Fields'
  BY DEF LedgerConstants, Fields, Ledger!Row
<1>2. NumbersGrow'
  BY DEF LedgerConstants, Fields, Ledger!Row, NumbersGrow
<1>3. SyncHolds' /\ AnchorsKnown' /\ PagesAhead'
  BY DEF SyncHolds, AnchorsKnown, PagesAhead
<1>4. \A u \in txns' : \E v \in txns : u.entry = v.entry
  BY DEF Fields
<1>5. NeverSetBack' /\ Tracked'
  BY <1>4, CursorsStay
<1> QED BY <1>1, <1>2, <1>3, <1>5

\* A commit adds a row above all others and above every cursor that is good.
LEMMA CommitKeeps ==
    ASSUME LedgerConstants, LedgerInv, NEW t \in txns, Ledger!Commit(t)
    PROVE  LedgerInv'
<1> USE DEF LedgerInv
<1> DEFINE row == [seq |-> t.seq, entry |-> t.entry]
<1>1. /\ t \in [device : Device, entry : Entry, seq : 0 .. MaxSeq]
      /\ t.device \in Device /\ t.entry \in Entry /\ t.seq \in 0 .. MaxSeq /\ MaxSeq \in Nat
  BY DEF Fields, LedgerConstants
<1>2. /\ txns' = txns \ {t}
      /\ UNCHANGED <<nextSeq, rewinds, local, cursor, anchor, page, upload, losses>>
  BY DEF Ledger!Commit
<1>3. \/ t.entry \in Ledger!Stored /\ rows' = rows
      \/ t.entry \notin Ledger!Stored /\ t.seq > 0 /\ rows' = rows \cup {row}
  BY <1>1 DEF Ledger!Commit
<1>4. t.entry \in Ledger!Stored' /\ Ledger!Stored \subseteq Ledger!Stored'
  <2>1. Ledger!Stored' = {r.entry : r \in rows'}
    BY DEF Ledger!Stored
  <2>2. CASE rows' = rows /\ t.entry \in Ledger!Stored
    BY <2>1, <2>2 DEF Ledger!Stored
  <2>3. CASE rows' = rows \cup {row}
    <3>1. row \in rows' /\ row.entry = t.entry
      BY <2>3
    <3> QED BY <2>1, <2>3, <3>1 DEF Ledger!Stored
  <2> QED BY <1>3, <2>2, <2>3
<1>5. \/ /\ sent[t.device] = {t.entry}
         /\ acked' = [acked EXCEPT ![t.device] = @ \cup {t.entry}]
         /\ sent' = [sent EXCEPT ![t.device] = {}]
         /\ pc' = [pc EXCEPT ![t.device] = "push"]
      \/ UNCHANGED <<acked, sent, pc>>
  BY DEF Ledger!Commit, Ledger!Goto
<1>6. rows \subseteq rows' /\ \A r \in rows' \ rows : r = row /\ t.seq > 0
  BY <1>3
<1>7. Fields'
  BY <1>1, <1>2, <1>3, <1>5 DEF Fields, Ledger!Row
<1>8. NumbersGrow'
  <2>1. \A r \in rows : r.seq \in 1 .. MaxSeq
    BY DEF Fields, Ledger!Row
  <2>2. CASE rows' = rows
    BY <1>2, <2>2 DEF NumbersGrow
  <2>3. CASE t.entry \notin Ledger!Stored /\ t.seq > 0 /\ rows' = rows \cup {row}
    <3>1. \A r \in rows : r.entry # t.entry /\ r.seq < t.seq
      BY <2>3 DEF NumbersGrow, Ledger!Stored
    <3>2. \A u \in txns' : u.seq = 0
      BY <1>2, <2>3 DEF NumbersGrow, Fields
    <3>3. t.seq < nextSeq
      BY <2>3 DEF NumbersGrow
    <3> QED BY <1>1, <1>2, <2>1, <2>3, <3>1, <3>2, <3>3 DEF NumbersGrow
  <2> QED BY <1>3, <2>2, <2>3
<1>9. sent[t.device] = {t.entry} => pc[t.device] = "wait" /\ t.entry \notin upload[t.device]
  BY <1>1 DEF SyncHolds
<1>10. SyncHolds'
  BY <1>1, <1>2, <1>5, <1>9 DEF SyncHolds, Fields
<1>11. \A d \in Device : acked[d] \subseteq acked'[d] /\ acked'[d] \subseteq acked[d] \cup {t.entry}
  BY <1>1, <1>5 DEF Fields
<1>12. AnchorsKnown'
  BY <1>2, <1>11 DEF AnchorsKnown
<1>13. \A d \in Device : pc'[d] # pc[d] => pc[d] = "wait" /\ pc'[d] = "push"
  BY <1>1, <1>5, <1>9 DEF Fields
<1>14. PagesAhead'
  BY <1>2, <1>13 DEF PagesAhead
<1>15. \A r \in rows' \ rows : /\ r.seq = t.seq /\ r.entry = t.entry
                              /\ r.seq \in Nat /\ r.seq > 0
                              /\ \A q \in rows : q.seq \in Nat /\ q.seq < r.seq
  BY <1>1, <1>6 DEF NumbersGrow, Fields, Ledger!Row
<1>16. \A d \in Device : Ledger!Anchored(d) => Ledger!Anchored(d)'
  BY <1>2, <1>6 DEF Ledger!Anchored, Ledger!AnchorStands
<1>17. NeverSetBack'
  BY <1>2, <1>6, <1>16 DEF NeverSetBack
<1>18. Tracked'
  <2> SUFFICES ASSUME Ledger!Traceable, NEW d \in Device
               PROVE  PageFollows(d)' /\ CursorTells(d)'
    BY <1>2 DEF Tracked, Ledger!Traceable
  <2>1. PageFollows(d) /\ CursorTells(d) /\ page[d] \subseteq rows
    BY DeviceTells DEF PageFollows
  <2>2. PageFollows(d)'
    <3>1. \A r \in page[d], q \in rows' : q.seq > cursor[d] /\ q.seq <= r.seq => q \in rows
      BY <1>15, <2>1
    <3> QED BY <1>2, <1>6, <2>1, <3>1 DEF PageFollows
  <2>3. CASE Ledger!Anchored(d)
    <3>1. Ledger!CacheIsTrue(d) /\ cursor[d] \in Nat
      BY <2>1, <2>3 DEF CursorTells, Fields
    <3>2. \A r \in rows' \ rows : r.seq > cursor[d]
      BY <1>15, <2>3, <3>1 DEF Ledger!Anchored, Ledger!AnchorStands, Fields, Ledger!Row
    <3>3. Ledger!CacheIsTrue(d)'
      <4>1. \A r \in rows' : r.seq <= cursor[d] => r \in rows
        BY <1>15, <3>1, <3>2
      <4>2. acked'[d] \subseteq Ledger!Stored'
        BY <1>4, <1>11, <3>1 DEF Ledger!CacheIsTrue
      <4> QED BY <1>2, <1>11, <3>1, <4>1, <4>2 DEF Ledger!CacheIsTrue
    <3> QED BY <1>16, <2>2, <2>3, <3>3 DEF CursorTells
  <2>4. CASE ~Ledger!Anchored(d)
    <3>1. t.entry \notin anchor[d] /\ pc[d] \notin {"pull", "page"}
      BY <2>1, <2>4 DEF CursorTells
    <3>2. ~Ledger!Anchored(d)'
      BY <1>2, <1>15, <2>4, <3>1 DEF Ledger!Anchored, Ledger!AnchorStands
    <3>3. pc'[d] \notin {"pull", "page"}
      BY <1>13, <3>1
    <3> QED BY <1>2, <2>1, <2>2, <2>4, <3>2, <3>3 DEF CursorTells
  <2> QED BY <2>3, <2>4
<1> QED BY <1>7, <1>8, <1>10, <1>12, <1>14, <1>17, <1>18

\* A transaction that fails takes its number with it.
LEMMA AbortKeeps ==
    ASSUME LedgerConstants, LedgerInv, NEW t \in txns, Ledger!Abort(t)
    PROVE  LedgerInv'
<1> USE DEF LedgerInv, Ledger!Abort, Ledger!cache, Ledger!push
<1>1. Fields'
  BY DEF LedgerConstants, Fields
<1>2. NumbersGrow'
  BY DEF NumbersGrow
<1>3. SyncHolds' /\ AnchorsKnown' /\ PagesAhead'
  BY DEF SyncHolds, AnchorsKnown, PagesAhead
<1>4. NeverSetBack' /\ Tracked'
  BY CursorsStay
<1> QED BY <1>1, <1>2, <1>3, <1>4

\* The database is set back: no upload survives that, and a cursor it fell behind is
\* not good any more.
LEMMA RewindKeeps ==
    ASSUME LedgerConstants, LedgerInv, NEW top \in 0 .. MaxSeq, Ledger!Rewind(top)
    PROVE  LedgerInv'
<1> USE DEF LedgerInv
<1>1. /\ rows' = {r \in rows : r.seq <= top} /\ nextSeq' = top + 1 /\ txns' = {}
      /\ rewinds' = rewinds + 1 /\ rewinds < MaxRewinds
      /\ UNCHANGED <<local, acked, cursor, anchor, pc, page, upload, sent, losses>>
  BY DEF Ledger!Rewind, Ledger!cache, Ledger!push
<1>2. top \in Nat /\ MaxSeq \in Nat /\ \A r \in rows : r.seq \in Nat
  BY DEF LedgerConstants, Fields, Ledger!Row
<1>3. Fields'
  BY <1>1, <1>2 DEF LedgerConstants, Fields
<1>4. NumbersGrow'
  BY <1>1, <1>2 DEF NumbersGrow
<1>5. SyncHolds' /\ AnchorsKnown' /\ PagesAhead'
  BY <1>1 DEF SyncHolds, AnchorsKnown, PagesAhead
<1>6. NeverSetBack'
  BY <1>1 DEF NeverSetBack, LedgerConstants, Fields
<1>7. Tracked'
  <2> SUFFICES ASSUME Ledger!Traceable', NEW d \in Device
               PROVE  PageFollows(d)' /\ CursorTells(d)'
    BY DEF Tracked
  <2>1. Ledger!Traceable /\ ~RewindTails
    BY <1>1 DEF Ledger!Traceable, Fields, LedgerConstants
  <2>2. PageFollows(d) /\ CursorTells(d) /\ (cursor[d] > top \/ acked[d] = {})
    BY <2>1, DeviceTells DEF Ledger!Rewind
  <2>3. PageFollows(d)'
    <3>1. CASE page[d] \subseteq rows'
      BY <1>1, <2>2, <3>1 DEF PageFollows
    <3>2. CASE ~(page[d] \subseteq rows')
      <4>1. ASSUME NEW r \in page[d] \ rows', NEW q \in rows' PROVE q.seq < r.seq
        <5>1. CASE r \in rows
          BY <1>1, <1>2, <5>1
        <5>2. CASE r \notin rows
          BY <1>1, <2>2, <5>2 DEF PageFollows
        <5> QED BY <5>1, <5>2
      <4> QED BY <1>1, <3>2, <4>1 DEF PageFollows
    <3> QED BY <3>1, <3>2
  <2>4. CursorTells(d)'
    <3>1. CASE acked[d] = {}
      <4>1. cursor[d] = 0
        BY <3>1 DEF AnchorsKnown
      <4>2. Ledger!Anchored(d)' /\ Ledger!CacheIsTrue(d)'
        BY <1>1, <3>1, <4>1 DEF Ledger!Anchored, Ledger!CacheIsTrue, Fields, Ledger!Row
      <4> QED BY <4>2 DEF CursorTells
    <3>2. CASE acked[d] # {}
      <4>1. cursor[d] > top /\ cursor[d] \in Nat
        BY <2>2, <3>2 DEF Fields
      <4>2. ~Ledger!Anchored(d)' /\ \A q \in rows' : q.seq < cursor[d]
        BY <1>1, <1>2, <4>1 DEF Ledger!Anchored, Ledger!AnchorStands
      <4> QED BY <1>1, <4>2 DEF CursorTells
    <3> QED BY <3>1, <3>2
  <2> QED BY <2>3, <2>4
<1> QED BY <1>3, <1>4, <1>5, <1>6, <1>7

-----------------------------------------------------------------------------
(* The devices.                                                            *)

\* An entry is recorded in the files.
LEMMA RecordKeeps ==
    ASSUME LedgerConstants, LedgerInv, NEW d \in Device, NEW e \in Entry, Ledger!Record(d, e)
    PROVE  LedgerInv'
<1> USE DEF LedgerInv, Ledger!Record, Ledger!server, Ledger!cache, Ledger!push
<1>1. Fields'
  BY DEF Fields
<1>2. SyncHolds'
  BY DEF SyncHolds, Fields
<1>3. NumbersGrow' /\ AnchorsKnown' /\ PagesAhead'
  BY DEF NumbersGrow, AnchorsKnown, PagesAhead
<1>4. NeverSetBack' /\ Tracked'
  BY CursorsStay
<1> QED BY <1>1, <1>2, <1>3, <1>4

\* The cache of a device that holds no page may be forgotten at any time; a device
\* that goes on to a pull has found its cursor good.
LEMMA CacheForgotten ==
    ASSUME LedgerInv, NEW d \in Device, UNCHANGED <<rows, nextSeq, txns, rewinds, page>>,
           UNCHANGED Ledger!cache \/ Ledger!Reset(d),
           pc[d] # "page", pc'[d] \notin {"pull", "page"} \/ Ledger!Anchored(d)',
           \A c \in Device \ {d} : pc'[c] = pc[c]
    PROVE  NumbersGrow' /\ AnchorsKnown' /\ PagesAhead' /\ NeverSetBack' /\ Tracked'
<1> USE DEF LedgerInv, Ledger!cache, Ledger!Reset
<1>1. NumbersGrow'
  BY DEF NumbersGrow
<1>2. AnchorsKnown'
  BY DEF Fields, AnchorsKnown
<1>3. page[d] = {}
  BY DEF PagesAhead
<1>4. PagesAhead'
  BY <1>3 DEF Fields, PagesAhead
<1>5. \A c \in Device \ {d} : acked'[c] = acked[c] /\ cursor'[c] = cursor[c] /\ anchor'[c] = anchor[c]
  BY DEF Fields
<1>6. \A c \in Device \ {d} : /\ Ledger!Anchored(c)' <=> Ledger!Anchored(c)
                              /\ Ledger!CacheIsTrue(c)' <=> Ledger!CacheIsTrue(c)
  BY <1>5 DEF Ledger!Anchored, Ledger!AnchorStands, Ledger!CacheIsTrue, Ledger!Stored
<1>7. \/ /\ cursor'[d] = cursor[d] /\ anchor'[d] = anchor[d] /\ acked'[d] = acked[d]
         /\ Ledger!Anchored(d)' <=> Ledger!Anchored(d)
         /\ Ledger!CacheIsTrue(d)' <=> Ledger!CacheIsTrue(d)
      \/ Ledger!Anchored(d)' /\ Ledger!CacheIsTrue(d)'
  <2>1. CASE UNCHANGED Ledger!cache
    BY <2>1 DEF Ledger!Anchored, Ledger!AnchorStands, Ledger!CacheIsTrue, Ledger!Stored
  <2>2. CASE Ledger!Reset(d)
    BY <2>2 DEF Ledger!Anchored, Ledger!CacheIsTrue, Fields, Ledger!Row
  <2> QED BY <2>1, <2>2
<1>8. NeverSetBack'
  BY <1>3, <1>6, <1>7 DEF NeverSetBack
<1>9. Tracked'
  <2> SUFFICES ASSUME Ledger!Traceable, NEW c \in Device
               PROVE  PageFollows(c)' /\ CursorTells(c)'
    BY DEF Tracked, Ledger!Traceable
  <2>1. PageFollows(c) /\ CursorTells(c)
    BY DeviceTells
  <2>2. CASE c # d
    BY <1>5, <1>6, <2>1, <2>2 DEF PageFollows, CursorTells
  <2>3. CASE c = d
    BY <1>3, <1>7, <2>1, <2>3 DEF PageFollows, CursorTells
  <2> QED BY <2>2, <2>3
<1> QED BY <1>1, <1>2, <1>4, <1>8, <1>9

\* A sync begins: what the files lost makes it forget the cache.
LEMMA BeginKeeps ==
    ASSUME LedgerConstants, LedgerInv, NEW d \in Device, Ledger!Begin(d)
    PROVE  LedgerInv'
<1> USE DEF LedgerInv, Ledger!Begin, Ledger!Goto, Ledger!push, Ledger!server
<1>1. Fields'
  BY DEF LedgerConstants, Fields, Ledger!cache, Ledger!Reset
<1>2. NumbersGrow' /\ AnchorsKnown' /\ PagesAhead' /\ NeverSetBack' /\ Tracked'
  BY CacheForgotten DEF Fields
<1>3. SyncHolds'
  BY DEF SyncHolds, PagesAhead, Fields, Ledger!cache, Ledger!Reset
<1> QED BY <1>1, <1>2, <1>3

\* The cursor is compared with the database.
LEMMA VerifyKeeps ==
    ASSUME LedgerConstants, LedgerInv, NEW d \in Device, Ledger!Verify(d)
    PROVE  LedgerInv'
<1> USE DEF LedgerInv, Ledger!Verify, Ledger!Goto, Ledger!push, Ledger!server
<1>1. Fields'
  BY DEF LedgerConstants, Fields, Ledger!cache, Ledger!Reset
<1>2. Ledger!Anchored(d)'
  BY DEF Ledger!Anchored, Ledger!AnchorStands, Ledger!cache, Ledger!Reset, Fields
<1>3. NumbersGrow' /\ AnchorsKnown' /\ PagesAhead' /\ NeverSetBack' /\ Tracked'
  BY <1>2, CacheForgotten DEF Fields
<1>4. SyncHolds'
  BY DEF SyncHolds, Fields, Ledger!cache, Ledger!Reset
<1> QED BY <1>1, <1>3, <1>4

\* The cache is lost.
LEMMA LoseCacheKeeps ==
    ASSUME LedgerConstants, LedgerInv, NEW d \in Device, Ledger!LoseCache(d)
    PROVE  LedgerInv'
<1> USE DEF LedgerInv, Ledger!LoseCache, Ledger!push, Ledger!server
<1>1. Fields'
  BY DEF LedgerConstants, Fields, Ledger!Reset
<1>2. NumbersGrow' /\ AnchorsKnown' /\ PagesAhead' /\ NeverSetBack' /\ Tracked'
  BY CacheForgotten
<1>3. SyncHolds'
  BY DEF SyncHolds, Fields, Ledger!Reset
<1> QED BY <1>1, <1>2, <1>3

\* An idle device loses entries of its files.
LEMMA LoseEntriesKeeps ==
    ASSUME LedgerConstants, LedgerInv, NEW d \in Device, Ledger!LoseEntries(d)
    PROVE  LedgerInv'
<1> USE DEF LedgerInv, Ledger!LoseEntries, Ledger!push, Ledger!server
<1>1. Fields'
  BY DEF LedgerConstants, Fields, Ledger!cache
<1>2. NumbersGrow' /\ AnchorsKnown' /\ PagesAhead' /\ NeverSetBack' /\ Tracked'
  BY CacheForgotten
<1>3. SyncHolds'
  BY DEF SyncHolds, Fields, Ledger!cache
<1> QED BY <1>1, <1>2, <1>3

\* Steps at which a device only turns to something else, with nothing pulled or sent.
LEMMA TurnKeeps ==
    ASSUME LedgerConstants, LedgerInv, NEW d \in Device,
           Ledger!VerifyFails(d) \/ Ledger!PullFails(d) \/ Ledger!PlanPush(d)
    PROVE  LedgerInv'
<1> USE DEF LedgerInv, Ledger!VerifyFails, Ledger!PullFails, Ledger!PlanPush, Ledger!Goto,
        Ledger!push, Ledger!server, Ledger!cache
<1>1. Fields'
  BY DEF LedgerConstants, Fields
<1>2. NumbersGrow' /\ AnchorsKnown'
  BY DEF NumbersGrow, AnchorsKnown
<1>3. pc[d] # "page" /\ pc'[d] \in {"plan", "push"} /\ \A c \in Device \ {d} : pc'[c] = pc[c]
  BY DEF Fields
<1>4. PagesAhead'
  BY <1>3 DEF PagesAhead
<1>5. SyncHolds'
  BY DEF SyncHolds, Fields
<1>6. NeverSetBack' /\ Tracked'
  BY <1>3, CursorsStay
<1> QED BY <1>1, <1>2, <1>4, <1>5, <1>6

\* What is sent was never acknowledged, hence is not the entry of a cursor.
LEMMA BatchKeeps ==
    ASSUME LedgerConstants, LedgerInv, NEW d \in Device, NEW e \in Entry, Ledger!Send(d, e)
    PROVE  LedgerInv'
<1> USE DEF LedgerInv
<1>1. /\ pc[d] = "push" /\ e \in upload[d] /\ txns' = txns \cup {[device |-> d, entry |-> e, seq |-> 0]}
      /\ upload' = [upload EXCEPT ![d] = @ \ {e}] /\ sent' = [sent EXCEPT ![d] = {e}]
      /\ pc' = [pc EXCEPT ![d] = "wait"]
      /\ UNCHANGED <<rows, nextSeq, rewinds, local, acked, cursor, anchor, page, losses>>
  BY DEF Ledger!Send, Ledger!Goto, Ledger!cache
<1>2. Fields'
  BY <1>1 DEF LedgerConstants, Fields
<1>3. NumbersGrow'
  BY <1>1 DEF NumbersGrow
<1>4. SyncHolds'
  BY <1>1 DEF SyncHolds, Fields
<1>5. AnchorsKnown' /\ PagesAhead'
  BY <1>1 DEF AnchorsKnown, PagesAhead, Fields
<1>6. \A c \in Device : /\ Ledger!Anchored(c)' <=> Ledger!Anchored(c)
                        /\ Ledger!CacheIsTrue(c)' <=> Ledger!CacheIsTrue(c)
  BY <1>1 DEF Ledger!Anchored, Ledger!AnchorStands, Ledger!CacheIsTrue, Ledger!Stored
<1>7. NeverSetBack'
  BY <1>1, <1>6 DEF NeverSetBack
<1>8. Tracked'
  <2> SUFFICES ASSUME Ledger!Traceable, NEW c \in Device
               PROVE  PageFollows(c)' /\ CursorTells(c)'
    BY <1>1 DEF Tracked, Ledger!Traceable
  <2>1. PageFollows(c) /\ CursorTells(c)
    BY DeviceTells
  <2>2. page[d] = {} /\ e \notin acked[d]
    BY <1>1 DEF PagesAhead, SyncHolds
  <2>3. PageFollows(c)'
    <3>1. page[c] \subseteq rows
      BY <2>2, OnlyOne
    <3> QED BY <1>1, <2>1, <3>1 DEF PageFollows
  <2>4. CASE Ledger!Anchored(c)
    BY <1>6, <2>1, <2>3, <2>4 DEF CursorTells
  <2>5. CASE ~Ledger!Anchored(c)
    <3>1. c = d
      BY <2>5, OnlyOne
    <3>2. e \notin anchor[d]
      BY <2>2 DEF AnchorsKnown
    <3>3. pc'[d] = "wait"
      BY <1>1 DEF Fields
    <3> QED BY <1>1, <1>6, <2>1, <2>3, <2>5, <3>1, <3>2, <3>3 DEF CursorTells
  <2> QED BY <2>4, <2>5
<1> QED BY <1>2, <1>3, <1>4, <1>5, <1>7, <1>8

\* A page is pulled, and its entries are in the files first.
LEMMA PullPageKeeps ==
    ASSUME LedgerConstants, LedgerInv, NEW d \in Device, Ledger!PullPage(d)
    PROVE  LedgerInv'
<1> USE DEF LedgerInv, Ledger!PullPage, Ledger!server, Ledger!cache, Ledger!Goto, Ledger!push
<1> DEFINE P == Ledger!FirstPage(Ledger!After(d))
<1>1. P \subseteq rows /\ \A r \in P : r.seq > cursor[d] /\ r.entry \in Entry
  BY DEF Ledger!FirstPage, Ledger!After, Fields, Ledger!Row
<1>2. \A r \in P : \A q \in rows : q.seq > cursor[d] /\ q.seq <= r.seq => q \in P
  <2>1. Ledger!After(d) \subseteq rows
    BY DEF Ledger!After
  <2> QED BY <2>1, PageIsClosed DEF Ledger!After
<1> HIDE DEF P
<1>3. /\ page' = [page EXCEPT ![d] = P] /\ pc' = [pc EXCEPT ![d] = "page"]
      /\ local' = [local EXCEPT ![d] = @ \cup {r.entry : r \in P}]
      /\ pc[d] = "pull"
      /\ UNCHANGED <<rows, nextSeq, txns, rewinds, acked, cursor, anchor, upload, sent, losses>>
  BY DEF P
<1> USE <1>3
<1>4. Fields'
  BY <1>1 DEF Fields
<1>5. NumbersGrow' /\ AnchorsKnown'
  BY DEF NumbersGrow, AnchorsKnown
<1>6. PagesAhead'
  BY <1>1 DEF PagesAhead, Fields
<1>7. SyncHolds'
  BY DEF SyncHolds, Fields
<1>8. \A c \in Device : /\ Ledger!Anchored(c)' <=> Ledger!Anchored(c)
                        /\ Ledger!CacheIsTrue(c)' <=> Ledger!CacheIsTrue(c)
  BY DEF Ledger!Anchored, Ledger!AnchorStands, Ledger!CacheIsTrue, Ledger!Stored
<1>9. /\ page'[d] = P /\ pc'[d] = "page"
      /\ \A c \in Device \ {d} : page'[c] = page[c] /\ pc'[c] = pc[c]
  BY DEF Fields
<1>10. NeverSetBack'
  BY <1>1, <1>8, <1>9 DEF NeverSetBack
<1>11. Tracked'
  <2> SUFFICES ASSUME Ledger!Traceable, NEW c \in Device
               PROVE  PageFollows(c)' /\ CursorTells(c)'
    BY DEF Tracked, Ledger!Traceable
  <2>1. PageFollows(c) /\ CursorTells(c)
    BY DeviceTells
  <2>2. PageFollows(c)'
    BY <1>1, <1>2, <1>9, <2>1 DEF PageFollows
  <2>3. CursorTells(c)'
    BY <1>8, <1>9, <2>1 DEF CursorTells
  <2> QED BY <2>2, <2>3
<1> QED BY <1>4, <1>5, <1>6, <1>7, <1>10, <1>11

\* The page is acknowledged: the cursor goes to its last row, and has passed no other.
\* A page that the database lost makes a cursor that is not good.
LEMMA CommitPageKeeps ==
    ASSUME LedgerConstants, LedgerInv, NEW d \in Device, Ledger!CommitPage(d)
    PROVE  LedgerInv'
<1> USE DEF LedgerInv
<1> DEFINE P == page[d]
           last == Ledger!LastOf(P)
<1>1. /\ pc[d] = "page" /\ page' = [page EXCEPT ![d] = {}]
      /\ acked' = [acked EXCEPT ![d] = @ \cup {r.entry : r \in P}]
      /\ pc' = [pc EXCEPT ![d] = pc'[d]] /\ pc'[d] \in {"plan", "pull"}
      /\ UNCHANGED <<rows, nextSeq, txns, rewinds, local, upload, sent, losses>>
  BY DEF Ledger!CommitPage, Ledger!Advance, Ledger!Goto, Ledger!server, Ledger!push, Fields
<1>2. \/ P = {} /\ UNCHANGED <<cursor, anchor>>
      \/ /\ P # {} /\ last \in P /\ \A q \in P : q.seq <= last.seq
         /\ cursor' = [cursor EXCEPT ![d] = last.seq]
         /\ anchor' = [anchor EXCEPT ![d] = {last.entry}]
  <2>1. P \subseteq Ledger!Row
    BY DEF Fields
  <2>2. P # {} => last \in P /\ \A q \in P : q.seq <= last.seq
    BY <2>1, LastRow
  <2> QED BY <2>2 DEF Ledger!CommitPage, Ledger!Advance
<1>3. /\ P \subseteq Ledger!Row
      /\ \A r \in P : r.entry \in local[d] /\ r.seq > cursor[d] /\ r.seq \in Nat /\ r.seq > 0
      /\ upload[d] = {}
  BY <1>1 DEF Fields, PagesAhead, SyncHolds, Ledger!Row
<1>4. \A q \in rows : q.seq \in Nat
  BY DEF Fields, Ledger!Row
<1>5. P = page[d]
  OBVIOUS
<1> HIDE DEF P, last
<1>6. Fields'
  BY <1>1, <1>2, <1>3 DEF Fields, Ledger!Row
<1>7. NumbersGrow'
  BY <1>1 DEF NumbersGrow
<1>8. AnchorsKnown'
  <2>1. acked'[d] = acked[d] \cup {r.entry : r \in P} /\ \A c \in Device \ {d} : acked'[c] = acked[c]
    BY <1>1 DEF Fields
  <2>2. \A c \in Device \ {d} : cursor'[c] = cursor[c] /\ anchor'[c] = anchor[c]
    BY <1>2 DEF Fields
  <2>3. CASE P = {}
    BY <1>2, <2>1, <2>2, <2>3 DEF AnchorsKnown
  <2>4. CASE P # {}
    <3>1. cursor'[d] = last.seq /\ anchor'[d] = {last.entry} /\ last \in P
      BY <1>2, <2>4 DEF Fields
    <3>2. cursor'[d] > 0 /\ last.entry \in acked'[d]
      BY <1>3, <2>1, <3>1
    <3> QED BY <2>1, <2>2, <3>1, <3>2 DEF AnchorsKnown
  <2> QED BY <2>3, <2>4
<1>9. /\ \A c \in Device \ {d} :
            /\ cursor'[c] = cursor[c] /\ anchor'[c] = anchor[c] /\ acked'[c] = acked[c]
            /\ page'[c] = page[c] /\ pc'[c] = pc[c]
      /\ page'[d] = {} /\ acked'[d] = acked[d] \cup {r.entry : r \in P}
  BY <1>1, <1>2 DEF Fields
<1>10. PagesAhead'
  BY <1>9 DEF PagesAhead
<1>11. SyncHolds'
  BY <1>1, <1>3 DEF SyncHolds, Fields
<1>12. \A c \in Device \ {d} : /\ Ledger!Anchored(c)' <=> Ledger!Anchored(c)
                               /\ Ledger!CacheIsTrue(c)' <=> Ledger!CacheIsTrue(c)
  BY <1>1, <1>9 DEF Ledger!Anchored, Ledger!AnchorStands, Ledger!CacheIsTrue, Ledger!Stored
<1>13. CASE P = {}
  <2>1. /\ cursor'[d] = cursor[d] /\ anchor'[d] = anchor[d] /\ acked'[d] = acked[d]
        /\ pc'[d] \in {"pull", "page"} => pc[d] \in {"pull", "page"}
    BY <1>1, <1>2, <1>9, <1>13
  <2>2. /\ Ledger!Anchored(d)' <=> Ledger!Anchored(d)
        /\ Ledger!CacheIsTrue(d)' <=> Ledger!CacheIsTrue(d)
    BY <1>1, <2>1 DEF Ledger!Anchored, Ledger!AnchorStands, Ledger!CacheIsTrue, Ledger!Stored
  <2>3. NeverSetBack'
    BY <1>1, <1>9, <1>12, <2>2 DEF NeverSetBack
  <2>4. Tracked'
    <3> SUFFICES ASSUME Ledger!Traceable, NEW c \in Device
                 PROVE  PageFollows(c)' /\ CursorTells(c)'
      BY <1>1 DEF Tracked, Ledger!Traceable
    <3>1. PageFollows(c) /\ CursorTells(c)
      BY DeviceTells
    <3>2. PageFollows(c)'
      BY <1>1, <1>9, <3>1 DEF PageFollows
    <3>3. CursorTells(c)'
      BY <1>1, <1>9, <1>12, <2>1, <2>2, <3>1 DEF CursorTells
    <3> QED BY <3>2, <3>3
  <2> QED BY <1>6, <1>7, <1>8, <1>10, <1>11, <2>3, <2>4
<1>14. CASE P # {} /\ P \subseteq rows
  <2>1. last \in P /\ cursor'[d] = last.seq /\ anchor'[d] = {last.entry}
    BY <1>2, <1>14 DEF Fields
  <2>2. Ledger!Anchored(d)'
    BY <1>1, <1>14, <2>1 DEF Ledger!Anchored, Ledger!AnchorStands
  <2>3. NeverSetBack'
    BY <1>1, <1>9, <1>12, <2>2 DEF NeverSetBack
  <2>4. ASSUME Ledger!Traceable PROVE Ledger!CacheIsTrue(d)'
    <3>1. PageFollows(d) /\ CursorTells(d)
      BY <2>4, DeviceTells
    <3>2. Ledger!Anchored(d)
      BY <1>1, <1>3, <1>14, <2>1, <3>1 DEF CursorTells, Fields
    <3>3. Ledger!CacheIsTrue(d)
      BY <3>1, <3>2 DEF CursorTells
    <3>4. ASSUME NEW q \in rows, q.seq <= cursor'[d] PROVE q.entry \in acked'[d]
      <4>1. CASE q.seq <= cursor[d]
        BY <1>9, <3>3, <4>1 DEF Ledger!CacheIsTrue
      <4>2. CASE q.seq > cursor[d]
        <5>1. q \in P
          BY <1>5, <1>14, <2>1, <3>1, <3>4, <4>2 DEF PageFollows
        <5> QED BY <1>9, <5>1
      <4>3. q.seq \in Nat /\ cursor[d] \in Nat
        BY <1>4 DEF Fields
      <4> QED BY <4>1, <4>2, <4>3
    <3>5. acked'[d] \subseteq Ledger!Stored'
      BY <1>1, <1>9, <1>14, <3>3 DEF Ledger!CacheIsTrue, Ledger!Stored
    <3> QED BY <1>1, <3>4, <3>5 DEF Ledger!CacheIsTrue
  <2>5. Tracked'
    <3> SUFFICES ASSUME Ledger!Traceable, NEW c \in Device
                 PROVE  PageFollows(c)' /\ CursorTells(c)'
      BY <1>1 DEF Tracked, Ledger!Traceable
    <3>1. PageFollows(c) /\ CursorTells(c)
      BY DeviceTells
    <3>2. CASE c # d
      BY <1>1, <1>9, <1>12, <3>1, <3>2 DEF PageFollows, CursorTells
    <3>3. CASE c = d
      BY <1>9, <2>2, <2>4, <3>3 DEF PageFollows, CursorTells
    <3> QED BY <3>2, <3>3
  <2> QED BY <1>6, <1>7, <1>8, <1>10, <1>11, <2>3, <2>5
<1>15. CASE ~(P \subseteq rows)
  <2>1. rewinds # 0
    BY <1>5, <1>15 DEF NeverSetBack
  <2>2. NeverSetBack'
    BY <1>1, <2>1 DEF NeverSetBack
  <2>3. last \in P /\ cursor'[d] = last.seq /\ anchor'[d] = {last.entry}
        /\ \A q \in P : q.seq <= last.seq
    BY <1>2, <1>15 DEF Fields
  <2>4. Tracked'
    <3> SUFFICES ASSUME Ledger!Traceable, NEW c \in Device
                 PROVE  PageFollows(c)' /\ CursorTells(c)'
      BY <1>1 DEF Tracked, Ledger!Traceable
    <3>1. c = d /\ PageFollows(d)
      BY <1>5, <1>15, OnlyOne, DeviceTells
    <3>2. PICK r \in P : r \notin rows
      BY <1>15
    <3>3. txns = {} /\ \A q \in rows : q.seq < r.seq
      BY <1>5, <1>15, <3>1, <3>2 DEF PageFollows
    <3>4. \A q \in rows : q.seq < last.seq
      BY <1>3, <1>4, <2>3, <3>2, <3>3
    <3>5. ~Ledger!Anchored(d)'
      BY <1>1, <1>3, <1>4, <2>3, <3>4 DEF Ledger!Anchored, Ledger!AnchorStands
    <3>6. CursorTells(d)'
      BY <1>1, <2>3, <3>3, <3>4, <3>5 DEF CursorTells
    <3>7. PageFollows(d)'
      BY <1>9 DEF PageFollows
    <3> QED BY <3>1, <3>6, <3>7
  <2> QED BY <1>6, <1>7, <1>8, <1>10, <1>11, <2>2, <2>4
<1> QED BY <1>13, <1>14, <1>15

\* A sync ends or is cut off: what it held is forgotten, the cache stays.
LEMMA SyncEndKeeps ==
    ASSUME LedgerConstants, LedgerInv, NEW d \in Device, Ledger!End(d)
    PROVE  LedgerInv'
<1> USE DEF LedgerInv, Ledger!End, Ledger!server, Ledger!cache, Ledger!Goto
<1>1. Fields'
  BY DEF Fields
<1>2. NumbersGrow' /\ AnchorsKnown'
  BY DEF NumbersGrow, AnchorsKnown
<1>3. PagesAhead' /\ SyncHolds'
  BY DEF PagesAhead, SyncHolds, Fields
<1>4. \A c \in Device : /\ Ledger!Anchored(c)' <=> Ledger!Anchored(c)
                        /\ Ledger!CacheIsTrue(c)' <=> Ledger!CacheIsTrue(c)
  BY DEF Ledger!Anchored, Ledger!AnchorStands, Ledger!CacheIsTrue, Ledger!Stored
<1>5. /\ page'[d] = {} /\ pc'[d] = "idle"
      /\ \A c \in Device \ {d} : page'[c] = page[c] /\ pc'[c] = pc[c]
  BY DEF Fields
<1>6. NeverSetBack'
  BY <1>4, <1>5 DEF NeverSetBack
<1>7. Tracked'
  <2> SUFFICES ASSUME Ledger!Traceable, NEW c \in Device
               PROVE  PageFollows(c)' /\ CursorTells(c)'
    BY DEF Tracked, Ledger!Traceable
  <2>1. PageFollows(c) /\ CursorTells(c)
    BY DeviceTells
  <2> QED BY <1>4, <1>5, <2>1 DEF PageFollows, CursorTells
<1> QED BY <1>1, <1>2, <1>3, <1>6, <1>7

-----------------------------------------------------------------------------
(* The theorem.                                                            *)

\* Every step keeps the invariant.
LEMMA LedgerNext ==
    ASSUME LedgerConstants
    PROVE  LedgerInv /\ [Ledger!Next]_(Ledger!vars) => LedgerInv'
<1> SUFFICES ASSUME LedgerInv, [Ledger!Next]_(Ledger!vars)
             PROVE  LedgerInv'
  OBVIOUS
<1>1. CASE UNCHANGED Ledger!vars
  <2> USE <1>1 DEF Ledger!vars, Ledger!server, Ledger!cache, Ledger!push, LedgerInv
  <2>1. Fields' /\ NumbersGrow' /\ SyncHolds' /\ AnchorsKnown' /\ PagesAhead'
    BY DEF Fields, NumbersGrow, SyncHolds, AnchorsKnown, PagesAhead
  <2>2. NeverSetBack' /\ Tracked'
    BY CursorsStay
  <2> QED BY <2>1, <2>2
<1>2. CASE \E t \in txns : Ledger!Number(t) \/ Ledger!Commit(t) \/ Ledger!Abort(t)
  BY <1>2, NumberKeeps, CommitKeeps, AbortKeeps
<1>3. CASE \E top \in 0 .. MaxSeq : Ledger!Rewind(top)
  BY <1>3, RewindKeeps
<1>4. ASSUME NEW d \in Device,
             \/ Ledger!Sync(d) \/ Ledger!VerifyFails(d) \/ Ledger!PullFails(d)
             \/ Ledger!End(d) \/ Ledger!LoseCache(d) \/ Ledger!LoseEntries(d)
             \/ \E e \in Entry : Ledger!Record(d, e)
      PROVE  LedgerInv'
  <2>1. CASE \E e \in Entry : Ledger!Send(d, e)
    BY <2>1, BatchKeeps
  <2>2. CASE \E e \in Entry : Ledger!Record(d, e)
    BY <2>2, RecordKeeps
  <2>3. CASE Ledger!VerifyFails(d) \/ Ledger!PullFails(d) \/ Ledger!PlanPush(d)
    BY <2>3, TurnKeeps
  <2>4. CASE Ledger!Begin(d) \/ Ledger!Verify(d) \/ Ledger!End(d)
    BY <2>4, BeginKeeps, VerifyKeeps, SyncEndKeeps
  <2>5. CASE Ledger!PullPage(d) \/ Ledger!CommitPage(d)
    BY <2>5, PullPageKeeps, CommitPageKeeps
  <2>6. CASE Ledger!LoseCache(d) \/ Ledger!LoseEntries(d)
    BY <2>6, LoseCacheKeeps, LoseEntriesKeeps
  <2> QED BY <1>4, <2>1, <2>2, <2>3, <2>4, <2>5, <2>6 DEF Ledger!Sync
<1> QED BY <1>1, <1>2, <1>3, <1>4 DEF Ledger!Next, Ledger!Database

\* The invariant has what CursorsTellTruth says.
LEMMA LedgerInvTells == ASSUME LedgerConstants PROVE LedgerInv => Ledger!CursorsTellTruth
<1> SUFFICES ASSUME LedgerInv PROVE Ledger!CursorsTellTruth
  OBVIOUS
<1> USE DEF LedgerInv
<1>1. Cardinality({}) = 0 /\ \A x : Cardinality({x}) = 1
  BY FS_EmptySet, FS_Singleton
<1>2. \A d \in Device : Cardinality(anchor[d]) = (IF cursor[d] = 0 THEN 0 ELSE 1)
  BY <1>1 DEF AnchorsKnown
<1>3. ASSUME NEW d \in Device
      PROVE  Cardinality(sent[d]) = (IF pc[d] = "wait" THEN 1 ELSE 0)
  <2>1. CASE pc[d] = "wait"
    <3>1. PICK e \in Entry : sent[d] = {e}
      BY <2>1 DEF SyncHolds
    <3> QED BY <1>1, <2>1, <3>1
  <2>2. CASE pc[d] # "wait"
    BY <1>1, <2>2 DEF SyncHolds
  <2> QED BY <2>1, <2>2
<1>4. Ledger!TypeOK
  BY <1>2, <1>3, CountsAgree DEF Fields, NumbersGrow, Ledger!TypeOK
<1>5. Ledger!AckedIsLocal
  BY DEF SyncHolds, Ledger!AckedIsLocal
<1>6. /\ rewinds = 0 => \A d \in Device : Ledger!Anchored(d)
      /\ Ledger!Traceable => \A d \in Device : Ledger!Anchored(d) => Ledger!CacheIsTrue(d)
  BY DEF NeverSetBack, Tracked, CursorTells
<1> QED BY <1>4, <1>5, <1>6 DEF Ledger!CursorsTellTruth

\* CursorsTellTruth: as long as the database was not set back, the cursor of a device
\* never passes a row that the device did not receive, whatever the order in which
\* uploads of several devices commit, and what a device no longer sends is stored.  For
\* a device that writes alone this stays true of every cursor the check accepts, however
\* often the database is set back behind it.
THEOREM CursorsAreTrue ==
    ASSUME LedgerConstants
    PROVE  Ledger!Spec => []Ledger!CursorsTellTruth
BY LedgerInit, LedgerNext, LedgerInvTells, PTL DEF Ledger!Spec

=============================================================================
