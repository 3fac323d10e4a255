---------------------------- MODULE MCMemoryHost ----------------------------
(***************************************************************************)
(* The parts of the process that saves memories, each with variables of    *)
(* its own and under the fairness of its module.  A behaviour runs one of  *)
(* them and leaves the others at their start:                              *)
(*   "queue"     MemorySaveDispatcher: three manual saves and two in the   *)
(*               background, one of these of the memory of a manual one;   *)
(*   "document"  MemoryDocument: one transaction over three files, two of  *)
(*               which people edit;                                        *)
(*   "save"      MemorySave: two jobs about one turn of one memory, for    *)
(*               what a commit plan left behind comes to;                  *)
(*   "backup"    MemorySync: the backup of a save and the pushes of one    *)
(*               device, for what becomes of the backup.                   *)
(***************************************************************************)
EXTENDS MemorySaveDispatcher, TLC

CONSTANTS m1, m2, m3, b1, c1, f1, f2, f3, s1, j1, j2, d1, p1, p2, seed, a, b

\* m1 and c1 are saves of one memory.
MCRootOf == [r \in Request |-> IF r = c1 THEN m1 ELSE r]

VARIABLES
    instance,
    dfile, dmarker, dplan, dprepared, dpc, dwork, dtodo, dcurrent, dlast,
    dedited, draced,
    spolicy, sowner, sphase, sroot, scoverage, sbefore, sbound, sapproval,
    ssuccessor, soutbox, spending, sdoc, sjournal, sworker, sappLease, scalls,
    yrevs, yrequests, ydoc, yconfig, ybackups, yop, youtbox, yedits

dvars == <<dfile, dmarker, dplan, dprepared, dpc, dwork, dtodo, dcurrent, dlast,
           dedited, draced>>
svars == <<spolicy, sowner, sphase, sroot, scoverage, sbefore, sbound, sapproval,
           ssuccessor, soutbox, spending, sdoc, sjournal, sworker, sappLease, scalls>>
yvars == <<yrevs, yrequests, ydoc, yconfig, ybackups, yop, youtbox, yedits>>

Document == INSTANCE MemoryDocument WITH
    File <- {f1, f2, f3}, Text <- {a, b}, MaxPrepared <- 1,
    file <- dfile, marker <- dmarker, plan <- dplan, prepared <- dprepared,
    pc <- dpc, work <- dwork, todo <- dtodo, current <- dcurrent, last <- dlast,
    edited <- dedited, raced <- draced

Save == INSTANCE MemorySave WITH
    Memory <- {m1}, Source <- {s1}, MemoryOf <- (s1 :> m1), Job <- {j1, j2},
    Text <- {a, b}, MaxRevision <- 1,
    policy <- spolicy, owner <- sowner, phase <- sphase, root <- sroot,
    coverage <- scoverage, before <- sbefore, bound <- sbound,
    approval <- sapproval, successor <- ssuccessor, outbox <- soutbox,
    pending <- spending, doc <- sdoc, journal <- sjournal, worker <- sworker,
    appLease <- sappLease, calls <- scalls

Sync == INSTANCE MemorySync WITH
    Device <- {d1}, Proc <- {p1, p2}, DeviceOf <- [p \in {p1, p2} |-> d1],
    Text <- {seed, a}, Template <- seed, Stable <- [t \in {seed, a} |-> t],
    Kinds <- {"push", "backup"},
    MaxRevisions <- 2, MaxEdits <- 1, MaxAttempts <- 2, MaxLate <- 0,
    revs <- yrevs, requests <- yrequests, doc <- ydoc, config <- yconfig,
    backups <- ybackups, op <- yop, outbox <- youtbox, edits <- yedits

MCInit ==
    /\ instance \in {"queue", "document", "save", "backup"}
    /\ Init /\ Document!Init /\ Save!Init /\ Sync!Init
    \* the texts are alike
    /\ dfile[f3] = a
    \* one start for a part that does not run
    /\ instance # "document" => dfile = [f \in {f1, f2, f3} |-> a]
    /\ instance # "save" => sdoc = (m1 :> a)

MCNext ==
    /\ \/ instance = "queue" /\ Next /\ UNCHANGED <<dvars, svars, yvars>>
       \* nobody edits the last file
       \/ instance = "document" /\ Document!Next /\ f3 \notin dedited' /\ UNCHANGED <<vars, svars, yvars>>
       \/ instance = "save" /\ Save!Next /\ UNCHANGED <<vars, dvars, yvars>>
       \/ instance = "backup" /\ Sync!Next /\ UNCHANGED <<vars, dvars, svars>>
    /\ UNCHANGED instance

\* No step that fairness asks for is enabled in a part at its start.
MCSpec ==
    /\ MCInit /\ [][MCNext]_<<instance, vars, dvars, svars, yvars>>
    /\ Fairness /\ Document!Fairness /\ Save!Fairness /\ Sync!Fairness

\* See MemoryDocument.
DocumentKept == Document!DocumentKept

\* What a death left half done is completed: a transaction whose marker is there,
\* see MemoryDocument, and a plan whose text is in the document, see MemorySave.
HalfDoneCompletes == Document!HalfDoneCompletes /\ Save!RetainedPlanCompletes

\* See MemorySync.
OutboxSettles == Sync!OutboxSettles

=============================================================================
