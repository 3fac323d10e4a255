--------------------------- MODULE MCOwnedFileLock ---------------------------
(***************************************************************************)
(* Three instances of OwnedFileLock, each with variables of its own.  A    *)
(* behaviour runs one of them and leaves the others at their start:        *)
(*   "mixed"   a supervisor of one build next to older and newer ones;     *)
(*   "reused"  the same, when the third process may only start with the    *)
(*             PID of the dead first one;                                  *)
(*   "legacy"  three owners of the first format, with no grace window, so  *)
(*             that reclaiming is a matter of asking again.                *)
(***************************************************************************)
EXTENDS OwnedFileLock, TLC

CONSTANTS c1, c2, c3, p1, p2, p3, i1, i2, i3, r1, r2

MCCall == {c1, c2, c3}
MCProc == {p1, p2, p3}
MCPid == {i1, i2, i3}
MCProcOf == (c1 :> p1) @@ (c2 :> p2) @@ (c3 :> p3)

\* Every process has its own PID, or the third incarnation reuses the first's.
DistinctPids == (p1 :> i1) @@ (p2 :> i2) @@ (p3 :> i3)
ReusedPid == (p1 :> i1) @@ (p2 :> i2) @@ (p3 :> i1)

MixedClass == (c1 :> "guarded") @@ (c2 :> "manual") @@ (c3 :> "legacy")
LegacyClass == [c \in MCCall |-> "legacy"]

VARIABLES instance, lproc, ldeadFor, lfile, lstale, lpc, lleft, lobserved,
          lwaited, lmanual, ldescendant, lrequest,
          uproc, udeadFor, ufile, ustale, upc, uleft, uobserved, uwaited,
          umanual, udescendant, urequest

lvars == <<lproc, ldeadFor, lfile, lstale, lpc, lleft, lobserved, lwaited,
           lmanual, ldescendant, lrequest>>
uvars == <<uproc, udeadFor, ufile, ustale, upc, uleft, uobserved, uwaited,
           umanual, udescendant, urequest>>

Reused == INSTANCE OwnedFileLock WITH
    PidOf <- ReusedPid,
    proc <- uproc, deadFor <- udeadFor, lockFile <- ufile, stale <- ustale,
    pc <- upc, left <- uleft, observed <- uobserved, waited <- uwaited,
    manualRecoveryRequired <- umanual, descendant <- udescendant,
    request <- urequest

Legacy == INSTANCE OwnedFileLock WITH
    ClassOf <- LegacyClass, PidOf <- DistinctPids, HasProof <- {}, Request <- {},
    Attempts <- 2, Grace <- 0,
    proc <- lproc, deadFor <- ldeadFor, lockFile <- lfile, stale <- lstale,
    pc <- lpc, left <- lleft, observed <- lobserved, waited <- lwaited,
    manualRecoveryRequired <- lmanual, descendant <- ldescendant,
    request <- lrequest

MCInit ==
    /\ Init /\ Reused!Init /\ Legacy!Init
    /\ instance \in {"mixed", "reused", "legacy"}

MCNext ==
    /\ \/ instance = "mixed" /\ Next /\ UNCHANGED <<uvars, lvars>>
       \/ instance = "reused" /\ Reused!Next /\ UNCHANGED <<vars, lvars>>
       \/ instance = "legacy" /\ Legacy!Next /\ UNCHANGED <<vars, uvars>>
    /\ UNCHANGED instance

\* Fairness is asked of the legacy instance alone; at its start, before any
\* process, no step that it asks for is enabled.
MCSpec ==
    /\ MCInit /\ [][MCNext]_<<vars, uvars, lvars, instance>>
    /\ Legacy!Fairness

\* See OwnedFileLock: a PID that was reused delays a recovery, and never causes
\* one too many.
ExclusionDespiteReuse == Reused!TypeOK /\ Reused!MutualExclusion

\* A dead owner nobody has to vouch for, or a creation cut short, does not
\* block the lock for ever as long as a live process keeps asking for it.
LegacyLockNeverBlocks == Legacy!LegacyNeverBlocks

=============================================================================
