-------------------------- MODULE AgentRuntimeGuard --------------------------
(***************************************************************************)
(* The agent runtime supervisor with guarded recovery: the owned file lock *)
(* of src/agentRuntimeSupervisor.ts, the durable registry of provider      *)
(* process groups of src/agentRuntimeGuardRegistry.ts, the launcher of     *)
(* src/agentRuntimeGuardLauncher.ts that reserves a record and spawns a    *)
(* guard, and the guard itself (agent-runtime-process-guard.ts), which     *)
(* activates the record before it starts the provider in its own group.    *)
(*                                                                         *)
(* The lock and the registry are two databases.  canRecoverDeadOwner runs  *)
(* inside the lock's coordinator transaction and commits the registry's    *)
(* own first; guards run in other processes and take part in the registry  *)
(* only.  The module implements OwnedFileLock: what the lock only demands  *)
(* of a canRecoverDeadOwner option is what the registry delivers.          *)
(***************************************************************************)
EXTENDS Integers, FiniteSets

CONSTANTS Call, Proc, Pid, Request, ProcOf, PidOf, ClassOf, HasProof,
          Attempts, Grace, NoFile, Bare, None,
          Launch      \* launches of a provider, by their launch id and token

\* The constants are those of OwnedFileLock.  Every supervisor writes the class
\* guarded and has the registry's canRecoverDeadOwner for its proof.
ASSUME GuardAssumption ==
    /\ ProcOf \in [Call -> Proc]
    /\ PidOf \in [Proc -> Pid]
    /\ ClassOf = [c \in Call |-> "guarded"]
    /\ HasProof = Call
    /\ Attempts \in Nat \ {0}
    /\ Grace \in Nat
    /\ NoFile # Bare
    /\ {NoFile, Bare, None} \cap Call = {}

VARIABLES
    proc, deadFor, lockFile, stale, pc, left, observed, waited,
    manualRecoveryRequired, request,     \* the lock, as in OwnedFileLock
    coordinator, \* the call in the middle of a coordinator transaction
    verdict,     \* what canRecoverDeadOwner answered to it
    launcher,    \* launcher[l] : the supervisor that made launch l
    record,      \* record[l] : the row of l in process_guard_records
    guard        \* guard[l] : the guard of l and the process group it leads

lockVars == <<proc, deadFor, lockFile, stale, pc, left, observed, waited,
              manualRecoveryRequired, request>>
registryVars == <<launcher, record, guard>>
vars == <<lockVars, coordinator, verdict, registryVars>>

\* A guard goes through starting (spawned, detached, its group exists), checked
\* (the parent was its parent and alive), activated (its row is active) and
\* cleared (the parent was alive once more); then its provider runs.
GroupAlive(l) == guard[l] \in {"starting", "checked", "activated", "cleared", "providing"}

\* Owners some group of which may be, or may still become, a writer.
MayWrite == {launcher[l] : l \in {k \in Launch : GroupAlive(k) /\ record[k] # "none"}}

Lock == INSTANCE OwnedFileLock WITH descendant <- MayWrite

TypeOK ==
    /\ Lock!TypeOK
    /\ coordinator \in Call \cup {None}
    /\ verdict \in BOOLEAN
    /\ launcher \in [Launch -> Call \cup {None}]
    /\ record \in [Launch -> {"none", "reserved", "active"}]
    /\ guard \in [Launch -> {"none", "unspawned", "starting", "checked", "activated",
                             "cleared", "providing", "gone"}]

Init ==
    /\ coordinator = None
    /\ verdict = FALSE
    /\ launcher = [l \in Launch |-> None]
    /\ record = [l \in Launch |-> "none"]
    /\ guard = [l \in Launch |-> "none"]
    /\ Lock!Init

Live(c) == proc[ProcOf[c]] = "live"
ParentPid(l) == PidOf[ProcOf[launcher[l]]]
PidAbsent(i) == \A p \in Proc : PidOf[p] = i => proc[p] # "live"

-----------------------------------------------------------------------------
(* The lock without its dead guarded owners.  A creation cut short is never *)
(* reclaimed here: canRecoverDeadOwner refuses an owner without a PID.      *)

\* A dying process drops the coordinator transaction it was in.
Crash(p) ==
    /\ UNCHANGED registryVars
    /\ Lock!Crash(p)
    /\ IF coordinator # None /\ ProcOf[coordinator] = p
       THEN coordinator' = None /\ verdict' = FALSE
       ELSE UNCHANGED <<coordinator, verdict>>

Environment ==
    /\ UNCHANGED <<registryVars, coordinator, verdict>>
    /\ \/ \E p \in Proc : Lock!StartProc(p)
       \/ Lock!Tick
       \/ Lock!MtimeAges

AcquireSupervisor(c) ==
    /\ UNCHANGED <<registryVars, coordinator, verdict>>
    /\ \/ Lock!Begin(c) \/ Lock!GiveUp(c)
       \/ /\ coordinator = None
          /\ \/ Lock!Create(c) \/ Lock!AttemptFails(c) \/ Lock!CrashWhileCreating(c)
             \/ Lock!WaitForGrace(c) \/ Lock!WaitForOwner(c)

-----------------------------------------------------------------------------
(* canRecoverDeadOwner, and what the attempt does with its answer.         *)

RowsOf(i) == {l \in Launch : record[l] # "none" /\ ParentPid(l) = i}
ForeignRows(i) == {l \in Launch : record[l] # "none" /\ ParentPid(l) # i}
\* Faulty: a row is taken for stale as long as its provider has not started.
RemovableUnstarted(l) == guard[l] # "providing"

\* Faulty: an active row outlives its group.
RemovableReserved(l) == record[l] = "reserved"

Removable(l) == record[l] = "reserved" \/ ~GroupAlive(l)

\* One registry transaction: every row of the dead parent that is only
\* reserved, or whose group is gone, is deleted, and kept deleted whatever the
\* answer; the answer is yes when no row of anybody is left.
CanRecoverDeadOwner(c) ==
    LET dead == PidOf[ProcOf[lockFile]] IN
    /\ coordinator = None
    /\ Live(c) /\ pc[c] = "trying" /\ left[c] > 0
    /\ Lock!WindowOver(c)
    /\ PidAbsent(dead)
    /\ coordinator' = c
    /\ verdict' = (ForeignRows(dead) = {} /\ \A l \in RowsOf(dead) : Removable(l))
    /\ record' = [l \in Launch |->
          IF l \in RowsOf(dead) /\ Removable(l) THEN "none" ELSE record[l]]
    /\ UNCHANGED <<lockVars, launcher, guard>>

\* The attempt acts on the answer it has: by now the PID may belong to a
\* process again, and the groups may have gone on.
ConcludeAttempt(c) ==
    /\ coordinator = c
    /\ coordinator' = None
    /\ verdict' = FALSE
    /\ UNCHANGED registryVars
    /\ \/ ~verdict /\ Lock!KeepOwner(c)
       \/ verdict /\ Lock!UnlinkOwner(c)
       \/ Lock!AttemptFails(c)

-----------------------------------------------------------------------------
(* The launcher.                                                           *)

\* Faulty: the row names the process and not the owner of the lock.
ReserveForProcess(c, l) ==
    /\ Live(c) /\ pc[c] = "held"
    /\ launcher[l] = None
    /\ launcher' = [launcher EXCEPT ![l] = ProcOf[c]]
    /\ record' = [record EXCEPT ![l] = "reserved"]
    /\ UNCHANGED <<lockVars, coordinator, verdict, guard>>

\* spawnCodex: the reservation is committed before a process exists.
Reserve(c, l) ==
    /\ Live(c) /\ pc[c] = "held"
    /\ launcher[l] = None
    /\ launcher' = [launcher EXCEPT ![l] = c]
    /\ record' = [record EXCEPT ![l] = "reserved"]
    /\ UNCHANGED <<lockVars, coordinator, verdict, guard>>

SpawnGuard(c, l) ==
    /\ Live(c) /\ pc[c] = "held"
    /\ launcher[l] = c
    /\ guard[l] = "none" /\ record[l] = "reserved"
    /\ guard' = [guard EXCEPT ![l] = "starting"]
    /\ UNCHANGED <<lockVars, coordinator, verdict, launcher, record>>

\* The spawn throws; cancelReservation removes the row, or throws too and the
\* row is left to block recovery.
SpawnFails(c, l) ==
    /\ Live(c) /\ pc[c] = "held"
    /\ launcher[l] = c
    /\ guard[l] = "none" /\ record[l] = "reserved"
    /\ guard' = [guard EXCEPT ![l] = "unspawned"]
    /\ record' \in {record, [record EXCEPT ![l] = "none"]}
    /\ UNCHANGED <<lockVars, coordinator, verdict, launcher>>

\* Faulty: the row is deleted when the group was signalled.
ReleaseUnconfirmed(c, l) ==
    /\ Live(c)
    /\ launcher[l] = c
    /\ guard[l] \notin {"none", "unspawned"}
    /\ record' = [record EXCEPT ![l] = "none"]
    /\ UNCHANGED <<lockVars, coordinator, verdict, launcher, guard>>

\* close(): once the group is confirmed gone the row is deleted.
ReleaseAfterGroupTermination(c, l) ==
    /\ Live(c)
    /\ launcher[l] = c
    /\ guard[l] = "gone"
    /\ record' = [record EXCEPT ![l] = "none"]
    /\ UNCHANGED <<lockVars, coordinator, verdict, launcher, guard>>

-----------------------------------------------------------------------------
(* The guard.  Its parent is the supervisor that spawned it: ppid changes  *)
(* when that very process dies, even if the PID is used again.             *)

GuardOutcome(l, from, ok, to) ==
    /\ guard[l] = from
    /\ guard' = [guard EXCEPT ![l] = IF ok THEN to ELSE "gone"]

\* assertOwningParentStillCurrent, before the activation and again after it.
CheckParent(l) ==
    /\ \/ GuardOutcome(l, "starting", Live(launcher[l]), "checked")
       \/ GuardOutcome(l, "activated", Live(launcher[l]), "cleared")
    /\ UNCHANGED <<lockVars, coordinator, verdict, launcher, record>>

\* activateAgentRuntimeGuardReservation: only a row that is still reserved.
Activate(l) ==
    /\ GuardOutcome(l, "checked", record[l] = "reserved", "activated")
    /\ record' = IF record[l] = "reserved" THEN [record EXCEPT ![l] = "active"]
                                           ELSE record
    /\ UNCHANGED <<lockVars, coordinator, verdict, launcher>>

\* The parent may have died since the second check.
SpawnProvider(l) ==
    /\ GuardOutcome(l, "cleared", TRUE, "providing")
    /\ UNCHANGED <<lockVars, coordinator, verdict, launcher, record>>

\* The group ends: the provider exits, the launcher kills the group, or the
\* guard saw the end of its stdin or of its parent and reaped it.
GroupEnds(l) ==
    /\ GroupAlive(l)
    /\ guard' = [guard EXCEPT ![l] = "gone"]
    /\ UNCHANGED <<lockVars, coordinator, verdict, launcher, record>>

-----------------------------------------------------------------------------
(* Shutdown of a supervisor.                                               *)

\* Faulty: shutdown does not wait for a guard that is still starting.
ShutdownHasty(c) ==
    \A l \in Launch : launcher[l] = c =>
        \/ guard[l] \in {"unspawned", "starting"}
        \/ guard[l] = "gone" /\ record[l] = "none"

\* shutdownRemoteControlApi releases the supervisor only when the runtime's
\* shutdown fulfilled: every group confirmed gone and its row deleted.
ShutdownComplete(c) ==
    \A l \in Launch : launcher[l] = c =>
        \/ guard[l] = "unspawned"
        \/ guard[l] = "gone" /\ record[l] = "none"

ReleaseSupervisor(c) ==
    /\ coordinator = None
    /\ ShutdownComplete(c)
    /\ UNCHANGED <<registryVars, coordinator, verdict>>
    /\ Lock!ReleaseReturns(c) \/ Lock!ReleaseThrows(c)

LaunchStep(c) ==
    \E l \in Launch : \/ Reserve(c, l) \/ SpawnGuard(c, l) \/ SpawnFails(c, l)
                      \/ ReleaseAfterGroupTermination(c, l)

AcquireStep(c) == AcquireSupervisor(c) \/ CanRecoverDeadOwner(c) \/ ConcludeAttempt(c)
GuardStep(l) == CheckParent(l) \/ Activate(l) \/ SpawnProvider(l)

Next ==
    \/ Environment
    \/ \E p \in Proc : Crash(p)
    \/ \E c \in Call : AcquireStep(c) \/ LaunchStep(c) \/ ReleaseSupervisor(c)
    \/ \E l \in Launch : GuardStep(l) \/ GroupEnds(l)

Spec == Init /\ [][Next]_vars

\* Acquirers run their loop and come back after a timeout, guards run their
\* start-up, and a guard whose parent is gone reaps its group.
Fairness ==
    /\ WF_vars(Environment /\ Lock!Tick)
    /\ \A c \in Call : WF_vars(AcquireStep(c))
    /\ \A l \in Launch :
          /\ WF_vars(GuardStep(l))
          /\ WF_vars(GroupEnds(l) /\ ~Live(launcher[l]))

-----------------------------------------------------------------------------
(* Properties.                                                             *)

Running == {l \in Launch : guard[l] = "providing"}

\* Providers of two supervisors never run at once, and no supervisor holds the
\* lock while a provider of an earlier one runs, not even a provider whose
\* guard passed its checks before the old supervisor died and starts it now.
SoleProviderAuthority ==
    \A l \in Running :
        /\ \A k \in Running : launcher[k] = launcher[l]
        /\ \A c \in Call : pc[c] = "held" /\ Live(c) => launcher[l] = c

\* A provider never runs without the active row that keeps its dead
\* supervisor's lock from being reclaimed.
RunningIsRecorded == \A l \in Running : record[l] = "active"

\* One supervisor has authority over providers, whatever crashed before it and
\* however late a guard of an earlier one goes on.
SupervisorAuthority == TypeOK /\ SoleProviderAuthority /\ RunningIsRecorded

\* What the lock demands of canRecoverDeadOwner holds: the composition is the
\* owned file lock with the groups above as the children of its owners.
ImplementsLock == Lock!Spec

\* After a supervisor crashed its lock is reclaimed as long as somebody asks
\* for it, unless a row that is not its own is left in the registry.
StuckGuarded ==
    /\ lockFile \in Call
    /\ ~Lock!OwnerProcessAlive(lockFile)
    /\ ForeignRows(PidOf[ProcOf[lockFile]]) = {}
RecoveryCompletes == StuckGuarded ~> (~StuckGuarded \/ ~\E c \in Call :
    Live(c) /\ pc[c] \in {"idle", "trying", "busy", "recoveryRequired"})

-----------------------------------------------------------------------------
(* The inductive invariant behind the safety properties.                   *)

\* A launch has its supervisor before it has a row, and a row before it has a
\* guard; from its activation on the row of a live group is active.
LaunchInOrder ==
    \A l \in Launch :
        /\ launcher[l] = None => guard[l] = "none" /\ record[l] = "none"
        /\ guard[l] = "none" => record[l] # "active"
        /\ guard[l] \in {"activated", "cleared", "providing"} => record[l] = "active"

\* A recorded group that is alive is one of the owner that the file names.
GroupsUnderLock ==
    \A l \in Launch : GroupAlive(l) /\ record[l] # "none" => launcher[l] = lockFile

\* An attempt under way has found a dead owner whose window is over, and one
\* that was told yes has left no row of anybody.
AttemptUnderWay ==
    /\ verdict => coordinator # None /\ \A l \in Launch : record[l] = "none"
    /\ coordinator # None =>
          /\ pc[coordinator] = "trying" /\ left[coordinator] > 0
          /\ lockFile \in Call /\ proc[ProcOf[lockFile]] = "dead"
          /\ Lock!WaitedFor(coordinator, lockFile) >= Grace

GuardInv ==
    /\ TypeOK
    /\ Lock!HolderOwnsFile /\ Lock!FileOwnerStarted
    /\ LaunchInOrder /\ GroupsUnderLock /\ AttemptUnderWay

=============================================================================
