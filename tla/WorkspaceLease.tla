---------------------------- MODULE WorkspaceLease ----------------------------
(***************************************************************************)
(* The composite workspace lease of src/workspaceLease.ts, as the managed  *)
(* leases of api-server.ts use it.  A lease takes the lock of its          *)
(* canonical directory, asks Git for the family the directory belongs to,  *)
(* takes the lock of that family, and asks Git again under both.  A        *)
(* directory reservation takes the first lock only and is promoted later.  *)
(* Git answers may change between two awaits.                              *)
(*                                                                         *)
(* A part is an owned file lock of class "manual": taken atomically or not *)
(* at all, though a creation that is cut short may leave a file; kept when *)
(* its process dies until a person recovers it.  OwnedFileLock is the lock *)
(* in detail, and PartLock what the two modules agree on.                  *)
(***************************************************************************)
EXTENDS Naturals, FiniteSets

CONSTANTS
    Lease,          \* handles, one per acquisition
    Reservation,    \* the handles of acquireWorkspaceDirectoryLease
    Proc,           \* sidecar processes
    Directory,      \* canonical workspace directories
    Family,         \* git common directories
    ProcOf, DirOf,  \* the process and the directory of a lease
    Free,           \* there is no lock file
    Debris,         \* a lock file that a creation cut short left
    MaxDebris,      \* bound: as many of them at a time
    NoGit           \* the directory is in no repository

ASSUME WorkspaceAssumption ==
    /\ Reservation \subseteq Lease
    /\ ProcOf \in [Lease -> Proc]
    /\ DirOf \in [Lease -> Directory]
    /\ Directory \cap Family = {}
    /\ {Free, Debris} \cap Lease = {} /\ Free # Debris
    /\ NoGit \notin Family

VARIABLES
    lock,       \* lock[k] : the lease whose token the lock file of k holds
    git,        \* git[d] : what Git answers for directory d
    proc,       \* proc[p] : running, draining (shutting down), or dead
    degraded,   \* processes whose workspaceLeaseDegraded is set
    st,         \* st[l] : where acquisition, promotion and release of l are
    wanted,     \* wanted[l] : the family the first probe named, and then l's own
    parts,      \* parts[l] : the parts l's handle refreshes and releases
    code,       \* code[l] : the error an acquisition of l was refused with
    held        \* heldLeaseParts of all processes

vars == <<lock, git, proc, degraded, st, wanted, parts, code, held>>

Key == Directory \cup Family
Part == Lease \X Key
State == {"idle", "asking", "probing", "family", "reprobing",  \* acquireWorkspaceLease
          "directory", "promoteFamily", "promoteReprobing",  \* a reservation
          "failing", "full", "released", "uncertain", "refused",
          "gone"}                                            \* with its process
Code == {"none", "OTHER", "IO"}  \* OTHER: BUSY, RECOVERY_REQUIRED or UNSAFE

TypeOK ==
    /\ lock \in [Key -> Lease \cup {Free, Debris}]
    /\ git \in [Directory -> Family \cup {NoGit}]
    /\ proc \in [Proc -> {"running", "draining", "dead"}]
    /\ degraded \subseteq Proc
    /\ st \in [Lease -> State]
    /\ wanted \in [Lease -> Family \cup {NoGit}]
    /\ parts \in [Lease -> SUBSET Key]
    /\ code \in [Lease -> Code]
    /\ held \subseteq Part

Init ==
    /\ lock = [k \in Key |-> Free]
    /\ git \in [Directory -> Family \cup {NoGit}]
    /\ proc = [p \in Proc |-> "running"]
    /\ degraded = {}
    /\ st = [l \in Lease |-> "idle"]
    /\ wanted = [l \in Lease |-> NoGit]
    /\ parts = [l \in Lease |-> {}]
    /\ code = [l \in Lease |-> "none"]
    /\ held = {}

Alive(l) == proc[ProcOf[l]] # "dead"

\* workspaceLeaseDegraded and the admission gate of a shutting down process.
Admitted(l) == proc[ProcOf[l]] = "running" /\ ProcOf[l] \notin degraded

-----------------------------------------------------------------------------
(* Parts.                                                                  *)

Goto(l, s) == st' = [st EXCEPT ![l] = s]

\* Faulty: the part is not counted among the held ones.
TakePartUncounted(l, k) ==
    /\ lock[k] = Free
    /\ lock' = [lock EXCEPT ![k] = l]
    /\ parts' = [parts EXCEPT ![l] = @ \cup {k}]
    /\ UNCHANGED held

TakePart(l, k) ==
    /\ lock[k] = Free
    /\ lock' = [lock EXCEPT ![k] = l]
    /\ parts' = [parts EXCEPT ![l] = @ \cup {k}]
    /\ held' = held \cup {<<l, k>>}

\* classifyOwnedLockError: the attempts run out, the coordinator is locked, unsafe
\* or fails, or the creation fails.
Refusals == {"OTHER", "IO"}

\* operateEveryLeasePart(ks, 'release'): every part is tried, whatever became
\* of the others; those in thrown throw and leave their file; all are
\* forgotten.
ReleaseParts(l, ks, thrown) ==
    /\ lock' = [k \in Key |-> IF k \in ks \ thrown /\ lock[k] = l THEN Free ELSE lock[k]]
    /\ held' = held \ {<<l, k>> : k \in ks}

\* It returned true: every part was there, and no release threw.
Certain(l, ks, thrown) == thrown = {} /\ \A k \in ks : lock[k] = l

\* The creation of the lock file of k fails, and its cleanup leaves a part of the
\* file or all of it.
LeaveDebris(k) ==
    /\ lock[k] = Free
    /\ Cardinality({x \in Key : lock[x] = Debris}) < MaxDebris
    /\ lock' = [lock EXCEPT ![k] = Debris]
    /\ UNCHANGED <<git, proc, degraded, wanted, parts, code, held>>

-----------------------------------------------------------------------------
(* acquireWorkspaceLease.                                                  *)

\* Admission is asked for once, before the first await.
Ask(l) ==
    /\ st[l] = "idle"
    /\ Admitted(l)
    /\ Goto(l, "asking")
    /\ UNCHANGED <<lock, git, proc, degraded, wanted, parts, code, held>>

\* acquireDirectoryLeaseFoundation: however long it waited.
AcquireDirectory(l) ==
    /\ st[l] = "asking"
    /\ Alive(l)
    /\ TakePart(l, DirOf[l])
    /\ Goto(l, IF l \in Reservation THEN "directory" ELSE "probing")
    /\ UNCHANGED <<git, proc, degraded, wanted, code>>

DirectoryRefused(l) ==
    /\ st[l] = "asking"
    /\ Alive(l)
    /\ Goto(l, "refused")
    /\ \E error \in Refusals : code' = [code EXCEPT ![l] = error]
    /\ UNCHANGED <<lock, git, proc, degraded, wanted, parts, held>>

DirectoryCut(l) ==
    /\ st[l] = "asking"
    /\ Alive(l)
    /\ LeaveDebris(DirOf[l])
    /\ Goto(l, "failing")

\* Faulty: the acquisition error is reported whatever the cleanup left.
CleanupUnreported(l, error) ==
    \E thrown \in SUBSET parts[l] :
        /\ ReleaseParts(l, parts[l], thrown)
        /\ code' = [code EXCEPT ![l] = error]
        /\ parts' = [parts EXCEPT ![l] = {}]
        /\ wanted' = [wanted EXCEPT ![l] = NoGit]
        /\ Goto(l, "refused")
        /\ UNCHANGED <<git, proc, degraded>>

\* cleanupPartialLeaseOrThrow: the acquisition error, or IO when a part may be
\* left behind.
CleanupPartialLease(l, error) ==
    \E thrown \in SUBSET parts[l] :
        /\ ReleaseParts(l, parts[l], thrown)
        /\ code' = [code EXCEPT ![l] =
              IF Certain(l, parts[l], thrown) THEN error ELSE "IO"]
        /\ parts' = [parts EXCEPT ![l] = {}]
        /\ wanted' = [wanted EXCEPT ![l] = NoGit]
        /\ Goto(l, "refused")
        /\ UNCHANGED <<git, proc, degraded>>

\* The first probe: a plain directory is complete, a family is waited for.
ProbeFamily(l) ==
    /\ st[l] = "probing"
    /\ Alive(l)
    /\ wanted' = [wanted EXCEPT ![l] = git[DirOf[l]]]
    /\ Goto(l, IF git[DirOf[l]] = NoGit THEN "full" ELSE "family")
    /\ UNCHANGED <<lock, git, proc, degraded, parts, code, held>>

\* Git cannot say what the directory is, or a creation failed.
ProbeFails(l) ==
    /\ st[l] \in {"probing", "reprobing", "failing"}
    /\ Alive(l)
    /\ CleanupPartialLease(l, "IO")

AcquireFamily(l) ==
    /\ st[l] = "family"
    /\ Alive(l)
    /\ TakePart(l, wanted[l])
    /\ Goto(l, "reprobing")
    /\ UNCHANGED <<git, proc, degraded, wanted, code>>

FamilyRefused(l) ==
    /\ st[l] = "family"
    /\ Alive(l)
    /\ \E error \in Refusals : CleanupPartialLease(l, error)

FamilyCut(l) ==
    /\ st[l] = "family"
    /\ Alive(l)
    /\ LeaveDebris(wanted[l])
    /\ Goto(l, "failing")

\* Faulty: the family named by the first probe is taken to be still the one.
ReprobeSkipped(l) ==
    /\ st[l] = "reprobing"
    /\ Alive(l)
    /\ Goto(l, "full")
    /\ UNCHANGED <<lock, git, proc, degraded, wanted, parts, code, held>>

\* The second probe, under both locks.
Reprobe(l) ==
    /\ st[l] = "reprobing"
    /\ Alive(l)
    /\ \/ /\ git[DirOf[l]] = wanted[l]
          /\ Goto(l, "full")
          /\ UNCHANGED <<lock, git, proc, degraded, wanted, parts, code, held>>
       \/ /\ git[DirOf[l]] # wanted[l]
          /\ CleanupPartialLease(l, "OTHER")

-----------------------------------------------------------------------------
(* promoteWorkspaceDirectoryLease.                                         *)

\* Up to the first await.  A directory without a repository is refused and the
\* reservation stays what it was.
Promote(l) ==
    /\ st[l] = "directory"
    /\ Admitted(l)
    /\ git[DirOf[l]] # NoGit
    /\ wanted' = [wanted EXCEPT ![l] = git[DirOf[l]]]
    /\ Goto(l, "promoteFamily")
    /\ UNCHANGED <<lock, git, proc, degraded, parts, code, held>>

\* The family lock is taken, but is not a part of the handle yet.
PromoteAcquire(l) ==
    /\ st[l] = "promoteFamily"
    /\ Alive(l)
    /\ lock[wanted[l]] = Free
    /\ lock' = [lock EXCEPT ![wanted[l]] = l]
    /\ held' = held \cup {<<l, wanted[l]>>}
    /\ Goto(l, "promoteReprobing")
    /\ UNCHANGED <<git, proc, degraded, wanted, parts, code>>

PromoteRefused(l) ==
    /\ st[l] = "promoteFamily"
    /\ Alive(l)
    /\ Goto(l, "directory")
    /\ UNCHANGED <<lock, git, proc, degraded, wanted, parts, code, held>>

PromoteCut(l) ==
    /\ st[l] = "promoteFamily"
    /\ Alive(l)
    /\ LeaveDebris(wanted[l])
    /\ Goto(l, "directory")

PromoteReprobe(l) ==
    /\ st[l] = "promoteReprobing"
    /\ Alive(l)
    /\ git[DirOf[l]] = wanted[l]
    /\ parts' = [parts EXCEPT ![l] = @ \cup {wanted[l]}]
    /\ Goto(l, "full")
    /\ UNCHANGED <<lock, git, proc, degraded, wanted, code, held>>

\* Faulty: a failed promotion gives back the directory as well.
PromoteFailsReleasing(l) ==
    /\ st[l] = "promoteReprobing"
    /\ Alive(l)
    /\ ReleaseParts(l, {wanted[l], DirOf[l]}, {})
    /\ Goto(l, "directory")
    /\ UNCHANGED <<git, proc, degraded, wanted, parts, code>>

\* The family moved meanwhile, or Git cannot say: the family lock is given
\* back and the directory kept; a family lock that could not be given back
\* stays with the handle.
PromoteFails(l) ==
    /\ st[l] = "promoteReprobing"
    /\ Alive(l)
    /\ \E thrown \in SUBSET {wanted[l]} :
          /\ ReleaseParts(l, {wanted[l]}, thrown)
          /\ IF Certain(l, {wanted[l]}, thrown)
             THEN Goto(l, "directory") /\ UNCHANGED parts
             ELSE /\ Goto(l, "uncertain")
                  /\ parts' = [parts EXCEPT ![l] = @ \cup {wanted[l]}]
    /\ UNCHANGED <<git, proc, degraded, wanted, code>>

-----------------------------------------------------------------------------
(* Release, shutdown and recovery.                                         *)

\* releaseManagedWorkspaceLease; release() refuses while a promotion is under
\* way, which sets the process degraded like any other failure.
Release(l) ==
    /\ st[l] \in {"full", "directory", "uncertain"}
    /\ Alive(l)
    /\ \E thrown \in SUBSET parts[l] :
          /\ ReleaseParts(l, parts[l], thrown)
          /\ IF Certain(l, parts[l], thrown)
             THEN Goto(l, "released") /\ UNCHANGED degraded
             ELSE Goto(l, "uncertain") /\ degraded' = degraded \cup {ProcOf[l]}
    /\ wanted' = [wanted EXCEPT ![l] = NoGit]
    /\ UNCHANGED <<git, proc, parts, code>>

ReleaseWhilePromoting(l) ==
    /\ st[l] \in {"promoteFamily", "promoteReprobing"}
    /\ Alive(l)
    /\ degraded' = degraded \cup {ProcOf[l]}
    /\ UNCHANGED <<lock, git, proc, st, wanted, parts, code, held>>

HeldBy(p) == {h \in held : ProcOf[h[1]] = p}

\* closeManagedWorkspaceLeaseAdmission.
CloseAdmission(p) ==
    /\ proc[p] = "running"
    /\ proc' = [proc EXCEPT ![p] = "draining"]
    /\ UNCHANGED <<lock, git, degraded, st, wanted, parts, code, held>>

\* What a process knew of its leases ends with it, and the lock files are there.
Ends(p) ==
    /\ proc' = [proc EXCEPT ![p] = "dead"]
    /\ st' = [l \in Lease |-> IF ProcOf[l] = p THEN "gone" ELSE st[l]]
    /\ wanted' = [l \in Lease |-> IF ProcOf[l] = p THEN NoGit ELSE wanted[l]]
    /\ parts' = [l \in Lease |-> IF ProcOf[l] = p THEN {} ELSE parts[l]]
    /\ code' = [l \in Lease |-> IF ProcOf[l] = p THEN "none" ELSE code[l]]
    /\ held' = held \ HeldBy(p)
    /\ degraded' = degraded \ {p}
    /\ UNCHANGED <<lock, git>>

\* waitForHeldWorkspaceLeases resolves true.
Drained(p) == proc[p] = "draining" /\ HeldBy(p) = {}

DrainedExit(p) == Drained(p) /\ Ends(p)

\* A crash, or an exit when the drain budget is over.
Die(p) == proc[p] # "dead" /\ Ends(p)

\* Faulty: the lock is recovered whether its process has ended or not.
RecoverUnchecked(k) ==
    /\ lock[k] \in Lease
    /\ lock' = [lock EXCEPT ![k] = Free]
    /\ UNCHANGED <<git, proc, degraded, st, wanted, parts, code, held>>

\* A person recovers the lock of a dead process.
RecoverOrphan(k) ==
    /\ lock[k] \in Lease
    /\ ~Alive(lock[k])
    /\ lock' = [lock EXCEPT ![k] = Free]
    /\ UNCHANGED <<git, proc, degraded, st, wanted, parts, code, held>>

\* A later attempt removes a file without an owner once it is old enough, or a
\* person the file of an owner that is gone.
DebrisRemoved(k) ==
    /\ lock[k] = Debris
    /\ lock' = [lock EXCEPT ![k] = Free]
    /\ UNCHANGED <<git, proc, degraded, st, wanted, parts, code, held>>

\* Some program, the holder of a lease among them, creates, removes or moves a
\* repository.
GitChanges(d, f) ==
    /\ git' = [git EXCEPT ![d] = f]
    /\ UNCHANGED <<lock, proc, degraded, st, wanted, parts, code, held>>

AcquireStep(l) ==
    \/ Ask(l) \/ AcquireDirectory(l) \/ DirectoryRefused(l) \/ DirectoryCut(l)
    \/ ProbeFamily(l) \/ ProbeFails(l)
    \/ AcquireFamily(l) \/ FamilyRefused(l) \/ FamilyCut(l) \/ Reprobe(l)
PromoteStep(l) ==
    \/ Promote(l) \/ PromoteAcquire(l) \/ PromoteRefused(l) \/ PromoteCut(l)
    \/ PromoteReprobe(l) \/ PromoteFails(l)

Next ==
    \/ \E l \in Lease : \/ AcquireStep(l) \/ PromoteStep(l)
                        \/ Release(l) \/ ReleaseWhilePromoting(l)
    \/ \E p \in Proc : CloseAdmission(p) \/ DrainedExit(p) \/ Die(p)
    \/ \E k \in Key : RecoverOrphan(k) \/ DebrisRemoved(k)
    \/ \E d \in Directory, f \in Family \cup {NoGit} : GitChanges(d, f)

Spec == Init /\ [][Next]_vars

-----------------------------------------------------------------------------
(* Properties.                                                             *)

Complete(l) == st[l] = "full" /\ Alive(l)

\* A lease never becomes complete in the directory of another complete lease,
\* nor in its Git family: not even if repositories appeared, moved and vanished
\* while it waited.  Only a lease the repository of which changed after it was
\* complete is not protected, since Git is not asked again.
FamilyExclusive ==
    [][\A l, m \in Lease :
          ~Complete(l) /\ Complete(l)' /\ Complete(m) /\ git[DirOf[m]] = wanted[m]
          => /\ DirOf[l] # DirOf[m]
             /\ git[DirOf[l]] = NoGit \/ git[DirOf[l]] # git[DirOf[m]]]_vars

\* While a reservation is alive and not being released its directory lock is
\* never given up, whatever its promotion meets.
ReservationKeepsDirectory ==
    \A l \in Reservation :
        /\ Alive(l)
        /\ st[l] \in {"directory", "promoteFamily", "promoteReprobing", "full"}
        => lock[DirOf[l]] = l

\* An acquisition refused with anything but IO, and a release that returned
\* true, leave no lock behind.
ReleaseLeavesNothing ==
    \A l \in Lease :
        (st[l] = "released" \/ (st[l] = "refused" /\ code[l] # "IO"))
        => \A k \in Key : lock[k] # l

\* A process that is shutting down and waits for no lease any more leaves a lock
\* only where a release had thrown.
DrainLeavesNothing ==
    \A l \in Lease, k \in Key :
        lock[k] = l /\ Drained(ProcOf[l])
        => st[l] = "uncertain" \/ (st[l] = "refused" /\ code[l] = "IO")

\* Whatever throws, a lock file never outlives its use unnoticed: who was told that
\* all is released has no lock, and a shutdown waits for those that have one.
NothingLeftBehind == ReleaseLeavesNothing /\ DrainLeavesNothing

\* A part is taken only where there is no lock file, given back only by the lease
\* it belongs to, and taken from a lease only when its process has ended: every
\* key is a PartLock, whatever acquisitions, promotions and cleanups do to it.
LockOf(k) == INSTANCE PartLock WITH
    Owner <- Lease,
    lock  <- lock[k],
    held  <- {l \in Lease : <<l, k>> \in held},
    ended <- {l \in Lease : ~Alive(l)}

PartsAreOwned ==
    /\ \A k \in Key : LockOf(k)!Init
    /\ [][\A k \in Key : [LockOf(k)!Next]_(LockOf(k)!vars)]_vars

-----------------------------------------------------------------------------
(* The inductive invariants behind the safety properties.                  *)

\* A lease that is being acquired, or was and is not being released, has the
\* lock of its directory.
Holding == {"probing", "family", "reprobing", "directory", "promoteFamily",
            "promoteReprobing", "full"}

DirectoryLocked ==
    \A l \in Lease : Alive(l) /\ st[l] \in Holding => lock[DirOf[l]] = l

\* The first probe named a family, and once its lock is taken it is kept.
FamilyNamed ==
    \A l \in Lease :
        st[l] \in {"family", "reprobing", "promoteFamily", "promoteReprobing"}
        => wanted[l] \in Family

FamilyLocked ==
    \A l \in Lease : Alive(l) =>
        /\ st[l] \in {"reprobing", "promoteReprobing"} => lock[wanted[l]] = l
        /\ st[l] = "full" => wanted[l] = NoGit \/ lock[wanted[l]] = l

ExclusionInv == DirectoryLocked /\ FamilyNamed /\ FamilyLocked

\* A lock that may have outlived the release of its lease.
MayLinger(l) == st[l] = "refused" /\ code[l] = "IO"

\* Every lock of a lease is a part of its handle, or about to become one, as long
\* as there is a process that knows the handle.
PartsKnown ==
    \A l \in Lease, k \in Key : lock[k] = l /\ Alive(l) =>
        \/ k \in parts[l]
        \/ st[l] = "promoteReprobing" /\ k = wanted[l]
        \/ MayLinger(l)

MemoryEnds == \A l \in Lease : ~Alive(l) => st[l] = "gone"

NothingTaken ==
    \A l \in Lease :
        /\ st[l] \in {"idle", "asking", "refused"} => parts[l] = {}
        /\ st[l] = "released" => \A k \in Key : lock[k] # l

\* Every lock of a live process is counted among the held ones until a release
\* of it threw.
HeldCounted ==
    \A l \in Lease, k \in Key : lock[k] = l /\ Alive(l) =>
        <<l, k>> \in held \/ st[l] = "uncertain" \/ MayLinger(l)

CleanupInv == PartsKnown /\ MemoryEnds /\ NothingTaken /\ HeldCounted

=============================================================================
