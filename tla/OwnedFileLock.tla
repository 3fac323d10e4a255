---------------------------- MODULE OwnedFileLock ----------------------------
(***************************************************************************)
(* The cross-process owned file lock of src/portalFileLock.ts.             *)
(*                                                                         *)
(* A lock is a file created with O_EXCL whose content names its owner: a   *)
(* PID, a random token of the acquire call, and how a dead owner may be    *)
(* recovered.  Every attempt, release, refresh and recovery is one SQLite  *)
(* write transaction of withPortalFileLockCoordinator, hence one action    *)
(* here.  Between two attempts of a call anything may happen: owners       *)
(* crash, their PIDs are reused, a person confirms a recovery, time goes   *)
(* by.                                                                     *)
(***************************************************************************)
EXTENDS Integers, FiniteSets

CONSTANTS
    Call,       \* calls of acquireOwnedFileLock; the token makes each owner unique
    Proc,       \* process incarnations
    Pid,        \* process identifiers
    Request,    \* recovery requests a person may send
    ProcOf,     \* the process that makes a call
    PidOf,      \* the identifier of an incarnation; not injective: PIDs are reused
    ClassOf,    \* the recovery class a call writes into its owner record
    HasProof,   \* the calls given a canRecoverDeadOwner option
    Attempts,   \* options.attempts
    Grace,      \* options.deadOwnerGraceMs, in units of Tick
    NoFile,     \* there is no lock file
    Bare,       \* content without PID identity (a creation cut short)
    None        \* the null of observedDeadOwner, and no request

Class == {"legacy", "guarded", "manual"}

ASSUME ConfigAssumption ==
    /\ ProcOf \in [Call -> Proc]
    /\ PidOf \in [Proc -> Pid]
    /\ ClassOf \in [Call -> Class]
    /\ HasProof \subseteq Call
    /\ Attempts \in Nat \ {0}
    /\ Grace \in Nat

ASSUME DistinctAssumption ==
    /\ NoFile # Bare
    /\ {NoFile, Bare, None} \cap Call = {}

VARIABLES
    proc,       \* proc[p] : the life of process p
    deadFor,    \* deadFor[p] : time since p died, capped at Grace
    lockFile,   \* content of the lock file
    stale,      \* the file's mtime is older than staleAfterMs
    pc,         \* pc[c] : where call c is
    left,       \* left[c] : attempts that remain to c
    observed,   \* observed[c] : observedDeadOwner of c
    waited,     \* waited[c] : time since c first observed it, capped at Grace
    manualRecoveryRequired,
    descendant, \* owners a detached child of which is still writing
    request     \* request[r] : the owner the person who sent r was shown

contention == <<left, observed, waited, manualRecoveryRequired>>
vars == <<proc, deadFor, lockFile, stale, pc, contention, descendant, request>>

PcValue == {"idle", "trying", "held", "released",
            "busy", "recoveryRequired", "failed"}

TypeOK ==
    /\ proc \in [Proc -> {"unborn", "live", "dead"}]
    /\ deadFor \in [Proc -> 0..Grace]
    /\ lockFile \in Call \cup {NoFile, Bare}
    /\ stale \in BOOLEAN
    /\ pc \in [Call -> PcValue]
    /\ left \in [Call -> 0..Attempts]
    /\ observed \in [Call -> Call \cup {None}]
    /\ waited \in [Call -> 0..Grace]
    /\ manualRecoveryRequired \in [Call -> BOOLEAN]
    /\ descendant \subseteq Call
    /\ request \in [Request -> Call \cup {None}]

Init ==
    /\ proc = [p \in Proc |-> "unborn"]
    /\ deadFor = [p \in Proc |-> 0]
    /\ lockFile = NoFile
    /\ stale = FALSE
    /\ pc = [c \in Call |-> "idle"]
    /\ left = [c \in Call |-> 0]
    /\ observed = [c \in Call |-> None]
    /\ waited = [c \in Call |-> 0]
    /\ manualRecoveryRequired = [c \in Call |-> FALSE]
    /\ descendant = {}
    /\ request = [r \in Request |-> None]

-----------------------------------------------------------------------------
(* Processes and time.                                                     *)

Live(c) == proc[ProcOf[c]] = "live"

\* portalFileLockOwnerProcessAlive: signal 0 reaches whatever process has the
\* PID now, the owner or a later one.
OwnerProcessAlive(o) ==
    \E p \in Proc : PidOf[p] = PidOf[ProcOf[o]] /\ proc[p] = "live"

\* The kernel gives a PID to one process at a time.
StartProc(p) ==
    /\ proc[p] = "unborn"
    /\ \A q \in Proc : PidOf[q] = PidOf[p] => proc[q] # "live"
    /\ proc' = [proc EXCEPT ![p] = "live"]
    /\ UNCHANGED <<deadFor, lockFile, stale, pc, contention, descendant, request>>

\* A process ends between two transactions; its detached children go on.
Crash(p) ==
    /\ proc[p] = "live"
    /\ proc' = [proc EXCEPT ![p] = "dead"]
    /\ UNCHANGED <<deadFor, lockFile, stale, pc, contention, descendant, request>>

\* One unit of time; only what a grace window can tell apart is kept.
Tick ==
    /\ deadFor' = [p \in Proc |->
          IF proc[p] = "dead" /\ deadFor[p] < Grace THEN deadFor[p] + 1
                                                    ELSE deadFor[p]]
    /\ waited' = [c \in Call |->
          IF observed[c] # None /\ waited[c] < Grace THEN waited[c] + 1
                                                     ELSE waited[c]]
    /\ UNCHANGED <<proc, lockFile, stale, pc, left, observed,
                   manualRecoveryRequired, descendant, request>>

\* The mtime of the lock file passes staleAfterMs.
MtimeAges ==
    /\ lockFile # NoFile
    /\ stale' = TRUE
    /\ UNCHANGED <<proc, deadFor, lockFile, pc, contention, descendant, request>>

-----------------------------------------------------------------------------
(* acquireOwnedFileLock.                                                   *)

\* A call starts, or is made anew after it timed out: such a call never wrote
\* its token anywhere, so it may stand for one with a fresh token.
Begin(c) ==
    /\ Live(c)
    /\ pc[c] \in {"idle", "busy", "recoveryRequired"}
    /\ pc' = [pc EXCEPT ![c] = "trying"]
    /\ left' = [left EXCEPT ![c] = Attempts]
    /\ observed' = [observed EXCEPT ![c] = None]
    /\ waited' = [waited EXCEPT ![c] = 0]
    /\ manualRecoveryRequired' = [manualRecoveryRequired EXCEPT ![c] = FALSE]
    /\ UNCHANGED <<proc, deadFor, lockFile, stale, descendant, request>>

\* Faulty: the loop does not count its attempts.
AttemptUncounted(c) ==
    /\ Live(c)
    /\ pc[c] = "trying"
    /\ left' = [left EXCEPT ![c] = @ - 1]
    /\ UNCHANGED <<proc, deadFor, descendant, request>>

\* What every turn of the attempt loop does first.
Attempt(c) ==
    /\ Live(c)
    /\ pc[c] = "trying"
    /\ left[c] > 0
    /\ left' = [left EXCEPT ![c] = @ - 1]
    /\ UNCHANGED <<proc, deadFor, descendant, request>>

SetRecoveryRequired(c, b) ==
    manualRecoveryRequired' = [manualRecoveryRequired EXCEPT ![c] = b]

Observe(c, o, w) ==
    /\ observed' = [observed EXCEPT ![c] = o]
    /\ waited' = [waited EXCEPT ![c] = w]

\* O_EXCL creation and the write of the owner succeed.
Create(c) ==
    /\ Attempt(c)
    /\ lockFile = NoFile
    /\ lockFile' = c
    /\ stale' = FALSE
    /\ pc' = [pc EXCEPT ![c] = "held"]
    /\ SetRecoveryRequired(c, FALSE)
    /\ UNCHANGED <<observed, waited>>

\* The transaction throws: the coordinator is busy, or the creation fails and
\* its cleanup removes the file, leaves part of the owner, or leaves all of it.
AttemptFails(c) ==
    /\ Attempt(c)
    /\ pc' = [pc EXCEPT ![c] = "failed"]
    /\ \/ UNCHANGED <<lockFile, stale>>
       \/ /\ lockFile = NoFile
          /\ lockFile' \in {Bare, c}
          /\ stale' = FALSE
    /\ SetRecoveryRequired(c, FALSE)
    /\ UNCHANGED <<observed, waited>>

\* The process dies inside the creation; SQLite drops the transaction.
CrashWhileCreating(c) ==
    /\ Live(c)
    /\ pc[c] = "trying"
    /\ left[c] > 0
    /\ lockFile = NoFile
    /\ lockFile' \in {Bare, c}
    /\ stale' = FALSE
    /\ proc' = [proc EXCEPT ![ProcOf[c]] = "dead"]
    /\ UNCHANGED <<deadFor, pc, contention, descendant, request>>

DeadOwner(o) == o \in Call /\ ~OwnerProcessAlive(o)

\* Faulty: a replacement owner inherits the window of the one before it.
WaitedForAny(c, o) == waited[c]

\* How long c has observed o when it now finds it dead: a replacement owner
\* gets a window of its own.
WaitedFor(c, o) == IF observed[c] = o THEN waited[c] ELSE 0

\* canRecoverDeadOwner vouches that nothing the owner started still writes.
\* It may say no for reasons of its own.
ProofHolds(c, o) == c \in HasProof /\ o \notin descendant

\* Faulty: a guarded owner is reclaimed on its PID alone.
RecoverGuardedUnproved(c, o) ==
    \/ ClassOf[o] = "guarded"
    \/ ClassOf[o] = "legacy" /\ (c \notin HasProof \/ ProofHolds(c, o))

\* Faulty: a proof is taken to be enough for a manual owner too.
RecoverManualToo(c, o) ==
    \/ ClassOf[o] # "legacy" /\ ProofHolds(c, o)
    \/ ClassOf[o] = "legacy" /\ (c \notin HasProof \/ ProofHolds(c, o))

\* canRecoverPidOwner(o) may be true.
CanRecoverPidOwner(c, o) ==
    \/ ClassOf[o] = "guarded" /\ ProofHolds(c, o)
    \/ ClassOf[o] = "legacy" /\ (c \notin HasProof \/ ProofHolds(c, o))

\* canRecoverPidOwner(o) may be false.
MayRefusePidOwner(c, o) ==
    \/ ClassOf[o] # "legacy"
    \/ c \in HasProof

\* The owner is dead, and its window is not over.
WaitForGrace(c) ==
    /\ Attempt(c)
    /\ DeadOwner(lockFile)
    /\ WaitedFor(c, lockFile) < Grace
    /\ Observe(c, lockFile, WaitedFor(c, lockFile))
    /\ SetRecoveryRequired(c, FALSE)
    /\ UNCHANGED <<lockFile, stale, pc>>

\* The owner is dead, and its window is over.
WindowOver(c) == DeadOwner(lockFile) /\ WaitedFor(c, lockFile) >= Grace

\* canRecoverPidOwner said no: the turn ends with 'wait'.
KeepOwner(c) ==
    /\ Attempt(c)
    /\ Observe(c, lockFile, WaitedFor(c, lockFile))
    /\ SetRecoveryRequired(c, ClassOf[lockFile] = "manual")
    /\ UNCHANGED <<lockFile, stale, pc>>

\* Faulty: the file is unlinked if it names the caller, not the observed owner.
UnlinkIfOwn(c) ==
    /\ Attempt(c)
    /\ Observe(c, lockFile, WaitedFor(c, lockFile))
    /\ SetRecoveryRequired(c, FALSE)
    /\ UNCHANGED <<lockFile, stale, pc>>

\* canRecoverPidOwner said yes: the file is unlinked and the turn ends with
\* 'retry'.  The commit may still throw.
UnlinkOwner(c) ==
    /\ Attempt(c)
    /\ Observe(c, lockFile, WaitedFor(c, lockFile))
    /\ SetRecoveryRequired(c, FALSE)
    /\ lockFile' = NoFile
    /\ stale' = FALSE
    /\ \/ UNCHANGED pc
       \/ pc' = [pc EXCEPT ![c] = "failed"]

RefuseDeadOwner(c) ==
    WindowOver(c) /\ MayRefusePidOwner(c, lockFile) /\ KeepOwner(c)

ReclaimDeadOwner(c) ==
    WindowOver(c) /\ CanRecoverPidOwner(c, lockFile) /\ UnlinkOwner(c)

\* The owner has no PID identity and is old enough; with a canRecoverDeadOwner
\* option the answer decides, and it is either.
ReclaimStaleBare(c) ==
    /\ Attempt(c)
    /\ lockFile = Bare
    /\ stale
    /\ Observe(c, None, 0)
    /\ SetRecoveryRequired(c, FALSE)
    /\ lockFile' = NoFile
    /\ stale' = FALSE
    /\ UNCHANGED pc

\* Faulty: the advice of an earlier attempt is not withdrawn.
WaitForOwnerAdvised(c) ==
    /\ Attempt(c)
    /\ \/ lockFile \in Call /\ OwnerProcessAlive(lockFile)
       \/ lockFile = Bare /\ (~stale \/ c \in HasProof)
    /\ Observe(c, None, 0)
    /\ UNCHANGED <<lockFile, stale, pc, manualRecoveryRequired>>

\* The owner is alive, or has no PID identity and is young or vouched against.
WaitForOwner(c) ==
    /\ Attempt(c)
    /\ \/ lockFile \in Call /\ OwnerProcessAlive(lockFile)
       \/ lockFile = Bare /\ (~stale \/ c \in HasProof)
    /\ Observe(c, None, 0)
    /\ SetRecoveryRequired(c, FALSE)
    /\ UNCHANGED <<lockFile, stale, pc>>

\* The loop ran out of attempts.
GiveUp(c) ==
    /\ Live(c)
    /\ pc[c] = "trying"
    /\ left[c] = 0
    /\ pc' = [pc EXCEPT ![c] =
          IF manualRecoveryRequired[c] THEN "recoveryRequired" ELSE "busy"]
    /\ UNCHANGED <<proc, deadFor, lockFile, stale, contention, descendant, request>>

-----------------------------------------------------------------------------
(* The holder.                                                             *)

\* The holder starts work in a child that may outlive it.  Only the lock users
\* that write a recovery class do.
SpawnDescendant(c) ==
    /\ Live(c)
    /\ pc[c] = "held"
    /\ ClassOf[c] # "legacy"
    /\ descendant' = descendant \cup {c}
    /\ UNCHANGED <<proc, deadFor, lockFile, stale, pc, contention, request>>

DescendantEnds(c) ==
    /\ c \in descendant
    /\ descendant' = descendant \ {c}
    /\ UNCHANGED <<proc, deadFor, lockFile, stale, pc, contention, request>>

\* Faulty: release() unlinks whatever file is there.
ReleaseUnchecked(c) ==
    /\ Live(c)
    /\ pc[c] \in {"held", "released"}
    /\ pc' = [pc EXCEPT ![c] = "released"]
    /\ lockFile' = NoFile /\ stale' = FALSE
    /\ UNCHANGED <<proc, deadFor, contention, descendant, request>>

\* release(): unlink the file if it still names this owner.
ReleaseReturns(c) ==
    /\ Live(c)
    /\ pc[c] \in {"held", "released"}
    /\ pc' = [pc EXCEPT ![c] = "released"]
    /\ IF lockFile = c THEN lockFile' = NoFile /\ stale' = FALSE
                       ELSE UNCHANGED <<lockFile, stale>>
    /\ UNCHANGED <<proc, deadFor, contention, descendant, request>>

\* release() throws, and withOwnedPortalFileLock only logs it.
ReleaseThrows(c) ==
    /\ Live(c)
    /\ pc[c] = "held"
    /\ pc' = [pc EXCEPT ![c] = "released"]
    /\ UNCHANGED <<proc, deadFor, lockFile, stale, contention, descendant, request>>

\* The user of the lock waits for the children it started before it releases.
Release(c) ==
    c \notin descendant /\ (ReleaseReturns(c) \/ ReleaseThrows(c))

\* release.refresh(): touch the inode if it still names this owner.
Refresh(c) ==
    /\ Live(c)
    /\ pc[c] = "held"
    /\ lockFile = c
    /\ stale' = FALSE
    /\ UNCHANGED <<proc, deadFor, lockFile, pc, contention, descendant, request>>

-----------------------------------------------------------------------------
(* Recovery of a dead manual owner by a person.                            *)

\* listOrphanedWorkspaceLeases shows a dead manual owner; the person checks
\* that no child of it still writes, and confirms.
Confirm(r) ==
    /\ request[r] = None
    /\ DeadOwner(lockFile)
    /\ ClassOf[lockFile] = "manual"
    /\ lockFile \notin descendant
    /\ request' = [request EXCEPT ![r] = lockFile]
    /\ UNCHANGED <<proc, deadFor, lockFile, stale, pc, contention, descendant>>

\* The request carries the PID that was listed, and nothing more of the owner.
RecoverDeadManualFileLock(r) ==
    /\ request[r] # None
    /\ request' = [request EXCEPT ![r] = None]
    /\ IF /\ DeadOwner(lockFile)
          /\ PidOf[ProcOf[lockFile]] = PidOf[ProcOf[request[r]]]
          /\ ClassOf[lockFile] = "manual"
       THEN lockFile' = NoFile /\ stale' = FALSE
       ELSE UNCHANGED <<lockFile, stale>>
    /\ UNCHANGED <<proc, deadFor, pc, contention, descendant>>

-----------------------------------------------------------------------------
AcquireStep(c) ==
    \/ Create(c) \/ AttemptFails(c)
    \/ WaitForGrace(c) \/ RefuseDeadOwner(c) \/ ReclaimDeadOwner(c)
    \/ ReclaimStaleBare(c) \/ WaitForOwner(c) \/ GiveUp(c)

HolderStep(c) ==
    \/ SpawnDescendant(c) \/ DescendantEnds(c)
    \/ Release(c) \/ Refresh(c)

Next ==
    \/ \E p \in Proc : StartProc(p) \/ Crash(p)
    \/ Tick \/ MtimeAges
    \/ \E c \in Call : Begin(c) \/ AcquireStep(c) \/ CrashWhileCreating(c) \/ HolderStep(c)
    \/ \E r \in Request : Confirm(r) \/ RecoverDeadManualFileLock(r)

Spec == Init /\ [][Next]_vars

\* A live process goes on running its loop (setTimeout fires), its callers ask
\* again after a timeout, and time passes.  No process has to start, crash,
\* release or spawn, and no person has to confirm anything.
Fairness ==
    /\ WF_vars(Tick)
    /\ WF_vars(MtimeAges)
    /\ \A c \in Call : WF_vars(Begin(c)) /\ WF_vars(AcquireStep(c))

-----------------------------------------------------------------------------
(* Properties.                                                             *)

\* Who may be writing what the lock protects: a live holder, or a child that
\* an owner left behind.
Writer == {c \in Call : pc[c] = "held" /\ Live(c)} \cup descendant

\* Two owners never write at once, whatever crashes and whoever reclaims:
\* neither a live holder nor the surviving child of a dead one is joined by a
\* second writer.
MutualExclusion == \A c, d \in Writer : c = d

\* A live holder's file is there and names it, so refresh() never reports a
\* loss and release() never leaves the file of somebody else behind.
HolderOwnsFile ==
    \A c \in Call : pc[c] = "held" /\ Live(c) => lockFile = c

\* FILE_LOCK_RECOVERY_REQUIRED is only ever reported for a dead manual owner
\* whose window was over in the last attempt, never for what an earlier
\* attempt saw.
RecoveryAdviceJustified ==
    \A c \in Call : manualRecoveryRequired[c] =>
        /\ observed[c] \in Call
        /\ ClassOf[observed[c]] = "manual"
        /\ proc[ProcOf[observed[c]]] = "dead"
        /\ waited[c] >= Grace

\* The owner record of a dead process is taken away by an attempt only after
\* the process was dead for the whole grace window: what an earlier owner was
\* granted is not counted for its replacement.
FullGrace ==
    [][\A o \in Call :
          (/\ lockFile = o /\ lockFile' # o
           /\ proc[ProcOf[o]] = "dead"
           /\ request' = request)
          => deadFor[ProcOf[o]] >= Grace]_vars

\* The file of a manual owner goes away only by its own release, or by a
\* recovery that a person confirmed.
ManualNeedsPerson ==
    [][\A o \in Call :
          lockFile = o /\ lockFile' # o /\ ClassOf[o] = "manual"
          => \/ pc'[o] = "released" /\ Live(o)
             \/ \E r \in Request : request[r] # None /\ request'[r] = None]_vars

\* recoverDeadManualFileLock: "a new owner that appeared after the listing is
\* never removed".
OnlyListedOwnerRemoved ==
    [][\A r \in Request :
          request[r] # None /\ request'[r] = None /\ lockFile' # lockFile
          => lockFile = request[r]]_vars

\* A dead owner nobody has to vouch for, or a creation cut short, does not
\* block the lock for ever as long as a live process keeps asking for it.
StuckLegacy ==
    \/ lockFile = Bare
    \/ lockFile \in Call /\ ClassOf[lockFile] = "legacy" /\ ~OwnerProcessAlive(lockFile)

Asking == \E c \in Call \ HasProof :
    Live(c) /\ pc[c] \in {"idle", "trying", "busy", "recoveryRequired"}
LegacyNeverBlocks == StuckLegacy ~> (~StuckLegacy \/ ~Asking)

\* Who has the lock: what a failed creation left in the file is nobody's.
FileHolder ==
    IF lockFile \in Call /\ pc[lockFile] \notin {"held", "released"}
    THEN Bare ELSE lockFile

\* Whatever the recovery classes and whichever identifiers come back, the lock is
\* taken only where there is no file, and goes away only by its owner's release or
\* when the process of its owner has ended.
Part == INSTANCE PartLock WITH
    Owner  <- Call,
    Free   <- NoFile,
    Debris <- Bare,
    lock   <- FileHolder,
    held   <- {c \in Call : pc[c] = "held"},
    ended  <- {c \in Call : proc[ProcOf[c]] = "dead"}

ImplementsPartLock == Part!Spec

-----------------------------------------------------------------------------
(* The inductive invariants behind the safety properties.                  *)

\* The owner named by the file and the callers that succeeded have been started.
FileOwnerStarted ==
    /\ lockFile \in Call => proc[ProcOf[lockFile]] # "unborn"
    /\ \A c \in Call : pc[c] = "held" => proc[ProcOf[c]] # "unborn"

\* An observed owner is dead, and was so for as long as it was observed.
ObservedIsDead ==
    \A c \in Call : observed[c] # None =>
        /\ proc[ProcOf[observed[c]]] = "dead"
        /\ waited[c] <= deadFor[ProcOf[observed[c]]]

LockInv ==
    /\ HolderOwnsFile
    /\ FileOwnerStarted
    /\ ObservedIsDead
    /\ RecoveryAdviceJustified

\* A child writes only under the file of the owner that started it.
ChildUnderFile ==
    \A c \in descendant : lockFile = c /\ pc[c] = "held" /\ ClassOf[c] # "legacy"

\* The owner a person was shown is a manual one, is dead, has no child, and no
\* later owner of its process can be in the file.
RequestedIsGone ==
    \A r \in Request : request[r] # None =>
        /\ ClassOf[request[r]] = "manual"
        /\ proc[ProcOf[request[r]]] = "dead"
        /\ request[r] \notin descendant
        /\ \A c \in Call : lockFile = c /\ ProcOf[c] = ProcOf[request[r]]
                           => c = request[r]

ChildInv == ChildUnderFile /\ RequestedIsGone

=============================================================================
