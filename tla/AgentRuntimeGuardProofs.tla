----------------------- MODULE AgentRuntimeGuardProofs -----------------------
(***************************************************************************)
(* Proofs about AgentRuntimeGuard, for every set of supervisors, processes *)
(* and launches.  Only the refinement asks that PIDs are not used again.   *)
(***************************************************************************)
EXTENDS AgentRuntimeGuard, TLAPS

USE DEF Live, GroupAlive

-----------------------------------------------------------------------------
(* Type correctness.                                                       *)

\* Whoever may write is a supervisor.
LEMMA WritersAreCalls ==
    ASSUME LaunchInOrder, launcher \in [Launch -> Call \cup {None}]
    PROVE  MayWrite \subseteq Call
BY DEF LaunchInOrder, MayWrite

\* The types of what the lock adds nothing to.
LockType ==
    /\ proc \in [Proc -> {"unborn", "live", "dead"}]
    /\ deadFor \in [Proc -> 0..Grace]
    /\ lockFile \in Call \cup {NoFile, Bare}
    /\ stale \in BOOLEAN
    /\ pc \in [Call -> Lock!PcValue]
    /\ left \in [Call -> 0..Attempts]
    /\ observed \in [Call -> Call \cup {None}]
    /\ waited \in [Call -> 0..Grace]
    /\ manualRecoveryRequired \in [Call -> BOOLEAN]
    /\ request \in [Request -> Call \cup {None}]

RegistryType ==
    /\ coordinator \in Call \cup {None}
    /\ verdict \in BOOLEAN
    /\ launcher \in [Launch -> Call \cup {None}]
    /\ record \in [Launch -> {"none", "reserved", "active"}]
    /\ guard \in [Launch -> {"none", "unspawned", "starting", "checked", "activated",
                             "cleared", "providing", "gone"}]

\* The type invariant is that of the lock and that of the registry.
LEMMA TypeParts ==
    ASSUME LaunchInOrder
    PROVE  TypeOK <=> LockType /\ RegistryType
BY WritersAreCalls DEF TypeOK, Lock!TypeOK, LockType, RegistryType, Lock!PcValue

\* Init establishes the invariant.
LEMMA InitInvariant == Init => GuardInv
<1> SUFFICES ASSUME Init PROVE GuardInv
  OBVIOUS
<1> USE GuardAssumption DEF Init, Lock!Init
<1>1. LaunchInOrder /\ GroupsUnderLock /\ AttemptUnderWay
  BY DEF LaunchInOrder, GroupsUnderLock, AttemptUnderWay
<1>2. LockType
  <2>1. pc \in [Call -> Lock!PcValue]
    BY DEF Lock!PcValue
  <2>2. left \in [Call -> 0..Attempts] /\ waited \in [Call -> 0..Grace]
    OBVIOUS
  <2>3. deadFor \in [Proc -> 0..Grace] /\ proc \in [Proc -> {"unborn", "live", "dead"}]
    OBVIOUS
  <2> QED BY <2>1, <2>2, <2>3 DEF LockType
<1>3. RegistryType
  BY DEF RegistryType
<1>4. Lock!HolderOwnsFile /\ Lock!FileOwnerStarted
  BY DEF Lock!HolderOwnsFile, Lock!FileOwnerStarted
<1> QED BY <1>1, <1>2, <1>3, <1>4, TypeParts DEF GuardInv

-----------------------------------------------------------------------------
(* What the steps leave alone.                                             *)

\* No child of the lock comes or goes while the registry stays as it is.
LEMMA SameWriters == ASSUME UNCHANGED registryVars PROVE MayWrite' = MayWrite
BY DEF registryVars, MayWrite

\* A child of the lock belongs to the owner the file names.
LEMMA OneWriter == ASSUME GroupsUnderLock PROVE MayWrite \subseteq {lockFile}
BY DEF GroupsUnderLock, MayWrite

\* The lock's part of the invariant.
LockPart == LockType /\ Lock!HolderOwnsFile /\ Lock!FileOwnerStarted

\* A step of the registry leaves the lock's part of the invariant alone.
LEMMA LockKept == ASSUME LockPart, UNCHANGED lockVars PROVE LockPart'
BY DEF LockPart, lockVars, LockType, Lock!HolderOwnsFile, Lock!FileOwnerStarted, Lock!Live,
       Lock!PcValue

\* A step of the lock leaves the registry as it is, and a lock that keeps its
\* file leaves the groups under it.
LEMMA RegistryKept ==
    ASSUME LaunchInOrder, UNCHANGED registryVars
    PROVE  LaunchInOrder'
BY DEF LaunchInOrder, registryVars

LEMMA GroupsKept ==
    ASSUME GroupsUnderLock, UNCHANGED <<registryVars, lockFile>>
    PROVE  GroupsUnderLock'
BY DEF GroupsUnderLock, registryVars

\* The invariant by its parts.
LEMMA GuardParts ==
    GuardInv <=> LockPart /\ RegistryType /\ LaunchInOrder /\ GroupsUnderLock /\ AttemptUnderWay
BY TypeParts DEF GuardInv, LockPart

\* The same of the next state.
LEMMA GuardPartsNext ==
    ASSUME LockPart', RegistryType', LaunchInOrder', GroupsUnderLock', AttemptUnderWay'
    PROVE  GuardInv'
<1>1. MayWrite' \subseteq Call
  BY DEF LaunchInOrder, MayWrite, RegistryType
<1>2. TypeOK'
  BY <1>1 DEF TypeOK, Lock!TypeOK, LockPart, LockType, RegistryType, Lock!PcValue
<1> QED BY <1>2 DEF GuardInv, LockPart

\* Without a file naming a supervisor no recorded group is alive.
LEMMA NoFileNoGroup ==
    ASSUME LaunchInOrder, GroupsUnderLock, RegistryType, lockFile = NoFile
    PROVE  \A l \in Launch : ~(GroupAlive(l) /\ record[l] # "none")
BY GuardAssumption DEF LaunchInOrder, GroupsUnderLock, RegistryType

-----------------------------------------------------------------------------
(* Processes, time and the loop of acquireAgentRuntimeSupervisor.          *)

\* Processes and time.
LEMMA EnvironmentKeeps == ASSUME GuardInv, Environment PROVE GuardInv'
<1> USE GuardParts, GuardAssumption
<1>1. UNCHANGED <<registryVars, coordinator, verdict>>
  BY DEF Environment
<1>2. /\ UNCHANGED <<lockFile, pc, left, observed>>
      /\ \A p \in Proc : proc[p] = "dead" => proc'[p] = "dead"
  BY DEF Environment, Lock!StartProc, Lock!Tick, Lock!MtimeAges, Lock!contention, LockPart, LockType
<1>3. LockPart'
  <2> USE DEF LockPart, LockType, Lock!HolderOwnsFile, Lock!FileOwnerStarted, Lock!Live,
              Lock!PcValue, Lock!contention
  <2>1. ASSUME NEW p \in Proc, Lock!StartProc(p) PROVE LockPart'
    BY <2>1 DEF Lock!StartProc
  <2>2. CASE Lock!Tick
    BY <2>2 DEF Lock!Tick
  <2>3. CASE Lock!MtimeAges
    BY <2>3 DEF Lock!MtimeAges
  <2> QED BY <2>1, <2>2, <2>3 DEF Environment
<1>4. RegistryType'
  BY <1>1 DEF RegistryType, registryVars
<1>5. LaunchInOrder' /\ GroupsUnderLock'
  BY <1>1, <1>2, RegistryKept, GroupsKept
<1>6. ASSUME coordinator # None PROVE Lock!WaitedFor(coordinator, lockFile)' >= Grace
  <2>1. coordinator \in Call /\ Lock!WaitedFor(coordinator, lockFile) >= Grace
    BY <1>6 DEF AttemptUnderWay, RegistryType
  <2>2. waited'[coordinator] >= waited[coordinator]
    BY <2>1 DEF Environment, Lock!StartProc, Lock!Tick, Lock!MtimeAges, Lock!contention,
                LockPart, LockType
  <2> QED BY <1>1, <1>2, <2>1, <2>2 DEF Lock!WaitedFor, LockPart, LockType
<1>7. AttemptUnderWay'
  BY <1>1, <1>2, <1>6 DEF AttemptUnderWay, RegistryType, LockPart, LockType, registryVars
<1> QED BY <1>3, <1>4, <1>5, <1>7, GuardPartsNext

\* The end of a supervisor drops the attempt it had under way.
LEMMA CrashKeeps == ASSUME GuardInv, NEW p \in Proc, Crash(p) PROVE GuardInv'
<1> USE GuardParts, GuardAssumption
<1>1. UNCHANGED <<registryVars, lockFile, pc, left, observed, waited>>
  BY DEF Crash, Lock!Crash, Lock!contention
<1>2. LockPart'
  BY DEF Crash, LockPart, LockType, Lock!HolderOwnsFile, Lock!FileOwnerStarted, Lock!Live,
         Lock!Crash, Lock!PcValue, Lock!contention
<1>3. RegistryType'
  BY <1>1 DEF Crash, RegistryType, registryVars
<1>4. LaunchInOrder' /\ GroupsUnderLock'
  BY <1>1, RegistryKept, GroupsKept
<1>5. AttemptUnderWay'
  BY <1>1 DEF Crash, Lock!Crash, AttemptUnderWay, Lock!WaitedFor, RegistryType, registryVars,
              LockPart, LockType
<1> QED BY <1>2, <1>3, <1>4, <1>5, GuardPartsNext

\* What every turn of the loop does first keeps the types.
LEMMA AttemptType ==
    ASSUME LockType, NEW c \in Call, Lock!Attempt(c),
           NEW b \in BOOLEAN, Lock!SetRecoveryRequired(c, b)
    PROVE  /\ left' \in [Call -> 0..Attempts]
           /\ manualRecoveryRequired' \in [Call -> BOOLEAN]
           /\ Lock!Live(c)
           /\ UNCHANGED <<proc, deadFor, request>>
<1> USE GuardAssumption DEF LockType
<1>1. left' \in [Call -> 0..Attempts]
  BY DEF Lock!Attempt
<1>2. manualRecoveryRequired' \in [Call -> BOOLEAN]
  BY DEF Lock!SetRecoveryRequired
<1> QED BY <1>1, <1>2 DEF Lock!Attempt

\* And so does what it notes of the owner it found.
LEMMA ObserveType ==
    ASSUME LockType, NEW c \in Call,
           NEW o \in Call \cup {None}, NEW w \in 0..Grace, Lock!Observe(c, o, w)
    PROVE  waited' \in [Call -> 0..Grace] /\ observed' \in [Call -> Call \cup {None}]
BY DEF LockType, Lock!Observe

\* A call has waited for an owner for no longer than the window.
LEMMA WaitedForType ==
    ASSUME LockType, NEW c \in Call, NEW o
    PROVE  Lock!WaitedFor(c, o) \in 0..Grace
BY GuardAssumption DEF LockType, Lock!WaitedFor

\* An attempt that creates the file finds none; the other turns keep the file.
LEMMA AcquireSupervisorKeeps ==
    ASSUME GuardInv, NEW c \in Call, AcquireSupervisor(c)
    PROVE  GuardInv'
<1> USE GuardParts, GuardAssumption
<1>1. UNCHANGED <<registryVars, coordinator, verdict>>
  BY DEF AcquireSupervisor
<1>2. LockPart'
  <2> USE DEF LockPart, LockType, Lock!HolderOwnsFile, Lock!FileOwnerStarted, Lock!Live,
              Lock!PcValue, Lock!contention
  <2>1. CASE Lock!Begin(c)
    BY <2>1 DEF Lock!Begin
  <2>2. CASE Lock!GiveUp(c)
    BY <2>2 DEF Lock!GiveUp
  <2>3. CASE Lock!Create(c)
    <3>1. Lock!Attempt(c) /\ Lock!SetRecoveryRequired(c, FALSE)
      BY <2>3 DEF Lock!Create
    <3>2. /\ lockFile = NoFile /\ lockFile' = c /\ stale' = FALSE
          /\ pc' = [pc EXCEPT ![c] = "held"]
          /\ UNCHANGED <<observed, waited>>
      BY <2>3 DEF Lock!Create
    <3> QED BY <3>1, <3>2, AttemptType
  <2>4. CASE Lock!AttemptFails(c)
    <3>1. Lock!Attempt(c) /\ Lock!SetRecoveryRequired(c, FALSE)
      BY <2>4 DEF Lock!AttemptFails
    <3>2. /\ pc' = [pc EXCEPT ![c] = "failed"]
          /\ \/ UNCHANGED <<lockFile, stale>>
             \/ lockFile = NoFile /\ lockFile' \in {Bare, c} /\ stale' = FALSE
          /\ UNCHANGED <<observed, waited>>
      BY <2>4 DEF Lock!AttemptFails
    <3> QED BY <3>1, <3>2, AttemptType
  <2>5. CASE Lock!CrashWhileCreating(c)
    BY <2>5 DEF Lock!CrashWhileCreating
  <2>6. CASE Lock!WaitForGrace(c)
    <3>1. /\ lockFile \in Call /\ Lock!Attempt(c) /\ Lock!SetRecoveryRequired(c, FALSE)
          /\ Lock!Observe(c, lockFile, Lock!WaitedFor(c, lockFile))
          /\ UNCHANGED <<lockFile, stale, pc>>
      BY <2>6 DEF Lock!WaitForGrace, Lock!DeadOwner
    <3> QED BY <3>1, AttemptType, ObserveType, WaitedForType
  <2>7. CASE Lock!WaitForOwner(c)
    <3>1. /\ Lock!Attempt(c) /\ Lock!SetRecoveryRequired(c, FALSE) /\ Lock!Observe(c, None, 0)
          /\ UNCHANGED <<lockFile, stale, pc>>
      BY <2>7 DEF Lock!WaitForOwner
    <3>2. 0 \in 0..Grace
      OBVIOUS
    <3> QED BY <3>1, <3>2, AttemptType, ObserveType
  <2> QED BY <2>1, <2>2, <2>3, <2>4, <2>5, <2>6, <2>7 DEF AcquireSupervisor
<1>3. RegistryType' /\ LaunchInOrder'
  BY <1>1, RegistryKept DEF RegistryType, registryVars
<1>4. lockFile' = lockFile \/ lockFile = NoFile
  BY DEF AcquireSupervisor, Lock!Begin, Lock!GiveUp, Lock!Create, Lock!AttemptFails,
         Lock!CrashWhileCreating, Lock!WaitForGrace, Lock!WaitForOwner
<1>5. GroupsUnderLock'
  BY <1>1, <1>4, GroupsKept, NoFileNoGroup DEF GroupsUnderLock, registryVars
<1>6. AttemptUnderWay'
  <2>1. CASE coordinator = None
    BY <1>1, <2>1 DEF AttemptUnderWay
  <2>2. CASE coordinator # None
    <3>1. Lock!Begin(c) \/ Lock!GiveUp(c)
      BY <2>2 DEF AcquireSupervisor
    <3>2. c # coordinator /\ coordinator \in Call
      BY <2>2, <3>1 DEF AttemptUnderWay, Lock!Begin, Lock!GiveUp, LockPart, LockType, RegistryType
    <3>3. /\ UNCHANGED <<proc, lockFile>>
          /\ pc'[coordinator] = pc[coordinator] /\ left'[coordinator] = left[coordinator]
          /\ observed'[coordinator] = observed[coordinator]
          /\ waited'[coordinator] = waited[coordinator]
      BY <3>1, <3>2 DEF Lock!Begin, Lock!GiveUp, Lock!contention, LockPart, LockType
    <3> QED BY <1>1, <3>3 DEF AttemptUnderWay, Lock!WaitedFor, registryVars
  <2> QED BY <2>1, <2>2
<1> QED BY <1>2, <1>3, <1>5, <1>6, GuardPartsNext

-----------------------------------------------------------------------------
(* canRecoverDeadOwner and the end of the attempt.                         *)

\* An owner whose PID no live process has is dead.
LEMMA AbsentIsDead ==
    ASSUME LockPart, lockFile \in Call, PidAbsent(PidOf[ProcOf[lockFile]])
    PROVE  proc[ProcOf[lockFile]] = "dead"
BY GuardAssumption DEF LockPart, LockType, Lock!FileOwnerStarted, PidAbsent

\* A yes leaves no row, of the dead process or of anybody.
LEMMA YesLeavesNoRow ==
    ASSUME RegistryType, NEW c \in Call, CanRecoverDeadOwner(c), verdict'
    PROVE  \A l \in Launch : record'[l] = "none"
BY DEF RegistryType, CanRecoverDeadOwner, RowsOf, ForeignRows

\* The registry's transaction deletes rows and adds none.
LEMMA CanRecoverDeletes ==
    ASSUME RegistryType, NEW c \in Call, CanRecoverDeadOwner(c)
    PROVE  \A l \in Launch :
             \/ record'[l] = record[l]
             \/ record'[l] = "none" /\ record[l] # "none" /\ Removable(l)
BY DEF RegistryType, CanRecoverDeadOwner, RowsOf

\* The rows it deletes are reserved, or their group is gone.
LEMMA CanRecoverKeeps ==
    ASSUME GuardInv, NEW c \in Call, CanRecoverDeadOwner(c)
    PROVE  GuardInv'
<1> USE GuardParts, GuardAssumption
<1>1. UNCHANGED <<lockVars, launcher, guard>>
  BY DEF CanRecoverDeadOwner
<1>2. LockPart'
  BY <1>1, LockKept
<1>3. RegistryType'
  BY <1>1, CanRecoverDeletes DEF RegistryType, CanRecoverDeadOwner
<1>4. LaunchInOrder'
  BY <1>1, CanRecoverDeletes DEF LaunchInOrder, Removable, RegistryType
<1>5. GroupsUnderLock'
  BY <1>1, CanRecoverDeletes DEF GroupsUnderLock, lockVars
<1>6. AttemptUnderWay'
  <2>1. lockFile \in Call /\ proc[ProcOf[lockFile]] = "dead"
    BY AbsentIsDead DEF CanRecoverDeadOwner, Lock!WindowOver, Lock!DeadOwner
  <2>2. /\ pc[c] = "trying" /\ left[c] > 0 /\ Lock!WaitedFor(c, lockFile) >= Grace
        /\ coordinator' = c /\ c # None
    BY DEF CanRecoverDeadOwner, Lock!WindowOver
  <2>3. verdict' => \A l \in Launch : record'[l] = "none"
    BY YesLeavesNoRow
  <2> QED BY <1>1, <2>1, <2>2, <2>3 DEF AttemptUnderWay, Lock!WaitedFor, lockVars
<1> QED BY <1>2, <1>3, <1>4, <1>5, <1>6, GuardPartsNext

\* The file of the dead owner goes after a yes only.
LEMMA ConcludeKeeps ==
    ASSUME GuardInv, NEW c \in Call, ConcludeAttempt(c)
    PROVE  GuardInv'
<1> USE GuardParts, GuardAssumption
<1>1. /\ UNCHANGED registryVars
      /\ coordinator = c /\ coordinator' = None /\ verdict' = FALSE
  BY DEF ConcludeAttempt
<1>2. lockFile \in Call /\ proc[ProcOf[lockFile]] = "dead"
  BY <1>1 DEF AttemptUnderWay
<1>3. LockPart'
  <2> USE DEF LockPart, LockType, Lock!HolderOwnsFile, Lock!FileOwnerStarted, Lock!Live,
              Lock!PcValue
  <2>1. CASE Lock!KeepOwner(c)
    <3>1. /\ Lock!Attempt(c) /\ Lock!SetRecoveryRequired(c, ClassOf[lockFile] = "manual")
          /\ Lock!Observe(c, lockFile, Lock!WaitedFor(c, lockFile))
          /\ UNCHANGED <<lockFile, stale, pc>> /\ (ClassOf[lockFile] = "manual") \in BOOLEAN
      BY <2>1 DEF Lock!KeepOwner
    <3> QED BY <1>2, <3>1, AttemptType, ObserveType, WaitedForType
  <2>2. CASE Lock!UnlinkOwner(c)
    <3>1. /\ Lock!Attempt(c) /\ Lock!SetRecoveryRequired(c, FALSE)
          /\ Lock!Observe(c, lockFile, Lock!WaitedFor(c, lockFile))
          /\ lockFile' = NoFile /\ stale' = FALSE
          /\ pc' \in {pc, [pc EXCEPT ![c] = "failed"]}
      BY <2>2 DEF Lock!UnlinkOwner
    <3> QED BY <1>2, <3>1, AttemptType, ObserveType, WaitedForType
  <2>3. CASE Lock!AttemptFails(c)
    <3>1. Lock!Attempt(c) /\ Lock!SetRecoveryRequired(c, FALSE)
      BY <2>3 DEF Lock!AttemptFails
    <3>2. pc' = [pc EXCEPT ![c] = "failed"] /\ UNCHANGED <<lockFile, stale, observed, waited>>
      BY <1>2, <2>3 DEF Lock!AttemptFails
    <3> QED BY <3>1, <3>2, AttemptType
  <2> QED BY <2>1, <2>2, <2>3 DEF ConcludeAttempt
<1>4. RegistryType' /\ LaunchInOrder'
  BY <1>1, RegistryKept DEF RegistryType, registryVars
<1>5. GroupsUnderLock'
  <2>1. CASE verdict
    BY <1>1, <2>1 DEF AttemptUnderWay, GroupsUnderLock, registryVars
  <2>2. CASE ~verdict
    <3>1. lockFile' = lockFile
      BY <1>2, <2>2 DEF ConcludeAttempt, Lock!KeepOwner, Lock!AttemptFails
    <3> QED BY <1>1, <3>1, GroupsKept
  <2> QED BY <2>1, <2>2
<1>6. AttemptUnderWay'
  BY <1>1 DEF AttemptUnderWay
<1> QED BY <1>3, <1>4, <1>5, <1>6, GuardPartsNext

-----------------------------------------------------------------------------
(* The launcher, the guards and the release.                               *)

\* No live process holds the lock while an attempt is under way: the owner
\* that the file names is dead.
LEMMA HolderMeansNoAttempt ==
    ASSUME GuardInv, NEW c \in Call, Live(c), pc[c] = "held"
    PROVE  lockFile = c /\ coordinator = None /\ ~verdict
BY GuardParts DEF LockPart, Lock!HolderOwnsFile, Lock!Live, AttemptUnderWay

\* A launch is reserved and spawned by the live holder of the lock; a spawn
\* that fails leaves no group, and a release only follows a group that is gone.
LEMMA LaunchKeeps ==
    ASSUME GuardInv, NEW c \in Call, LaunchStep(c)
    PROVE  GuardInv'
<1> USE GuardParts, GuardAssumption
<1>1. PICK l \in Launch : \/ Reserve(c, l) \/ SpawnGuard(c, l) \/ SpawnFails(c, l)
                          \/ ReleaseAfterGroupTermination(c, l)
  BY DEF LaunchStep
<1>2. UNCHANGED <<lockVars, coordinator, verdict>>
  BY <1>1 DEF Reserve, SpawnGuard, SpawnFails, ReleaseAfterGroupTermination
<1>3. LockPart'
  BY <1>2, LockKept
<1> USE <1>2 DEF lockVars, RegistryType, LaunchInOrder, GroupsUnderLock
<1>4. CASE Reserve(c, l)
  <2>1. lockFile = c /\ ~verdict /\ coordinator = None
    BY <1>4, HolderMeansNoAttempt DEF Reserve
  <2>2. RegistryType' /\ LaunchInOrder' /\ GroupsUnderLock'
    BY <1>4, <2>1 DEF Reserve
  <2>3. AttemptUnderWay'
    BY <2>1 DEF AttemptUnderWay
  <2> QED BY <1>3, <2>2, <2>3, GuardPartsNext
<1>5. CASE SpawnGuard(c, l)
  <2>1. lockFile = c /\ ~verdict /\ coordinator = None
    BY <1>5, HolderMeansNoAttempt DEF SpawnGuard
  <2>2. RegistryType' /\ LaunchInOrder' /\ GroupsUnderLock'
    BY <1>5, <2>1 DEF SpawnGuard
  <2>3. AttemptUnderWay'
    BY <2>1 DEF AttemptUnderWay
  <2> QED BY <1>3, <2>2, <2>3, GuardPartsNext
<1>6. CASE SpawnFails(c, l)
  <2>1. lockFile = c /\ ~verdict /\ coordinator = None
    BY <1>6, HolderMeansNoAttempt DEF SpawnFails
  <2>2. RegistryType' /\ LaunchInOrder' /\ GroupsUnderLock'
    BY <1>6, <2>1 DEF SpawnFails
  <2>3. AttemptUnderWay'
    BY <2>1 DEF AttemptUnderWay
  <2> QED BY <1>3, <2>2, <2>3, GuardPartsNext
<1>7. CASE ReleaseAfterGroupTermination(c, l)
  <2>1. RegistryType' /\ LaunchInOrder' /\ GroupsUnderLock'
    BY <1>7 DEF ReleaseAfterGroupTermination
  <2>2. AttemptUnderWay'
    BY <1>7 DEF ReleaseAfterGroupTermination, AttemptUnderWay, Lock!WaitedFor
  <2> QED BY <1>3, <2>1, <2>2, GuardPartsNext
<1> QED BY <1>1, <1>4, <1>5, <1>6, <1>7

\* A guard that activates has a row still, and it goes on being active.
LEMMA GuardKeeps ==
    ASSUME GuardInv, NEW l \in Launch, GuardStep(l) \/ GroupEnds(l)
    PROVE  GuardInv'
<1> USE GuardParts, GuardAssumption
<1>1. UNCHANGED <<lockVars, coordinator, verdict, launcher>>
  BY DEF GuardStep, CheckParent, Activate, SpawnProvider, GroupEnds
<1>2. LockPart'
  BY <1>1, LockKept
<1> USE <1>1 DEF lockVars
<1>3. RegistryType'
  BY DEF RegistryType, GuardStep, CheckParent, Activate, SpawnProvider, GroupEnds, GuardOutcome
<1>4. LaunchInOrder'
  BY DEF RegistryType, LaunchInOrder, GuardStep, CheckParent, Activate, SpawnProvider, GroupEnds,
         GuardOutcome
<1>5. \A k \in Launch : /\ GroupAlive(k)' => GroupAlive(k)
                        /\ record'[k] = "none" <=> record[k] = "none"
  BY DEF RegistryType, GuardStep, CheckParent, Activate, SpawnProvider, GroupEnds, GuardOutcome
<1>6. GroupsUnderLock'
  BY <1>5 DEF GroupsUnderLock, RegistryType
<1>7. AttemptUnderWay'
  BY <1>5 DEF AttemptUnderWay, Lock!WaitedFor
<1> QED BY <1>2, <1>3, <1>4, <1>6, <1>7, GuardPartsNext

\* A supervisor that releases the lock has no group left.
LEMMA ReleaseKeeps ==
    ASSUME GuardInv, NEW c \in Call, ReleaseSupervisor(c)
    PROVE  GuardInv'
<1> USE GuardParts, GuardAssumption
<1>1. UNCHANGED <<registryVars, coordinator, verdict>> /\ coordinator = None
  BY DEF ReleaseSupervisor
<1>2. LockPart'
  BY DEF ReleaseSupervisor, LockPart, LockType, Lock!HolderOwnsFile, Lock!FileOwnerStarted,
         Lock!Live, Lock!PcValue, Lock!contention, Lock!ReleaseReturns, Lock!ReleaseThrows
<1>3. RegistryType' /\ LaunchInOrder'
  BY <1>1, RegistryKept DEF RegistryType, registryVars
<1>4. lockFile' = lockFile \/ lockFile = c
  BY DEF ReleaseSupervisor, Lock!ReleaseReturns, Lock!ReleaseThrows
<1>5. GroupsUnderLock'
  BY <1>1, <1>4, GroupsKept DEF ReleaseSupervisor, ShutdownComplete, GroupsUnderLock, registryVars
<1>6. AttemptUnderWay'
  BY <1>1 DEF AttemptUnderWay
<1> QED BY <1>2, <1>3, <1>5, <1>6, GuardPartsNext

\* The invariant, however PIDs are given out.
THEOREM GuardInvariant == Spec => []GuardInv
<1>1. GuardInv /\ [Next]_vars => GuardInv'
  <2>1. ASSUME GuardInv, Next PROVE GuardInv'
    BY <2>1, EnvironmentKeeps, CrashKeeps, AcquireSupervisorKeeps, CanRecoverKeeps, ConcludeKeeps,
       LaunchKeeps, GuardKeeps, ReleaseKeeps DEF Next, AcquireStep
  <2>2. ASSUME GuardInv, UNCHANGED vars PROVE GuardInv'
    <3>1. UNCHANGED <<lockVars, coordinator, verdict, registryVars>>
      BY <2>2 DEF vars
    <3>2. LockPart'
      BY <2>2, <3>1, GuardParts, LockKept
    <3>3. RegistryType' /\ LaunchInOrder' /\ GroupsUnderLock'
      BY <2>2, <3>1, GuardParts, RegistryKept, GroupsKept DEF RegistryType, registryVars, lockVars
    <3>4. AttemptUnderWay'
      BY <2>2, <3>1, GuardParts DEF AttemptUnderWay, Lock!WaitedFor, registryVars, lockVars
    <3> QED BY <3>2, <3>3, <3>4, GuardPartsNext
  <2> QED BY <2>1, <2>2
<1> QED BY <1>1, InitInvariant, PTL DEF Spec

\* Providers of two supervisors never run at once, no supervisor holds the lock
\* next to a provider of another, and each provider has its active row.
THEOREM SupervisorHasAuthority == Spec => []SupervisorAuthority
<1>1. GuardInv => SupervisorAuthority
  <2> SUFFICES ASSUME GuardInv PROVE SupervisorAuthority
    OBVIOUS
  <2>1. \A l \in Running : record[l] = "active" /\ launcher[l] = lockFile
    BY DEF GuardInv, LaunchInOrder, GroupsUnderLock, Running
  <2>2. \A c \in Call : pc[c] = "held" /\ Live(c) => lockFile = c
    BY DEF GuardInv, Lock!HolderOwnsFile, Lock!Live
  <2> QED BY <2>1, <2>2 DEF GuardInv, SupervisorAuthority, SoleProviderAuthority, RunningIsRecorded
<1> QED BY <1>1, GuardInvariant, PTL

\* A live holder, and a recorded group that may still become a writer, exclude
\* each other too.
THEOREM WritersExclude == Spec => []Lock!MutualExclusion
<1>1. GuardInv => Lock!MutualExclusion
  BY OneWriter DEF GuardInv, Lock!HolderOwnsFile, Lock!MutualExclusion, Lock!Writer
<1> QED BY <1>1, GuardInvariant, PTL

\* A guard that activates late never follows a recovery: once the row of a
\* launch is deleted its provider does not start.
NoLateProvider ==
    [][\A l \in Launch :
          record[l] = "none" /\ launcher[l] # None => guard'[l] # "providing"]_vars

\* A step starts a provider only when its guard is cleared, hence its row active.
THEOREM NoProviderAfterRecovery == Spec => NoLateProvider
<1> DEFINE A == \A l \in Launch :
          record[l] = "none" /\ launcher[l] # None => guard'[l] # "providing"
<1>1. GuardInv /\ [Next]_vars => [A]_vars
  <2> SUFFICES ASSUME GuardInv, Next, NEW l \in Launch, record[l] = "none"
               PROVE  guard'[l] # "providing"
    OBVIOUS
  <2>1. guard[l] \notin {"cleared", "providing"}
    BY DEF GuardInv, LaunchInOrder
  <2>2. ASSUME NEW k \in Launch, GuardStep(k) \/ GroupEnds(k) PROVE guard'[l] # "providing"
    BY <2>1, <2>2, GuardParts
       DEF RegistryType, GuardStep, CheckParent, Activate, SpawnProvider, GroupEnds, GuardOutcome
  <2>3. ASSUME NEW c \in Call, LaunchStep(c) PROVE guard'[l] # "providing"
    BY <2>1, <2>3, GuardParts
       DEF RegistryType, LaunchStep, Reserve, SpawnGuard, SpawnFails, ReleaseAfterGroupTermination
  <2>4. ASSUME UNCHANGED guard PROVE guard'[l] # "providing"
    BY <2>1, <2>4
  <2> QED BY <2>2, <2>3, <2>4
          DEF Next, Environment, Crash, AcquireStep, AcquireSupervisor, CanRecoverDeadOwner,
              ConcludeAttempt, ReleaseSupervisor, registryVars
<1> QED BY <1>1, GuardInvariant, PTL DEF Spec, NoLateProvider

-----------------------------------------------------------------------------
(* The composition is an owned file lock.  The proof of a dead owner looks *)
(* at the PID once; if the PID is given to a process before the attempt    *)
(* acts on the answer, the lock's own look would have refused.  The        *)
(* refinement is proved of PIDs that are not used again.                   *)

PidsNotReused == \A p, q \in Proc : PidOf[p] = PidOf[q] => p = q

\* A dead owner that was found stays one.
LEMMA OwnerStaysDead ==
    ASSUME PidsNotReused, GuardInv, coordinator # None
    PROVE  Lock!WindowOver(coordinator) /\ coordinator \in Call
BY GuardParts, GuardAssumption
   DEF PidsNotReused, AttemptUnderWay, RegistryType, Lock!WindowOver, Lock!DeadOwner,
       Lock!OwnerProcessAlive

\* A step that leaves the lock's variables alone, and takes recorded groups
\* away, is the end of the owner's children.
LEMMA ChildrenEnd ==
    ASSUME GuardInv, UNCHANGED lockVars, MayWrite' \subseteq MayWrite
    PROVE  Lock!Next \/ UNCHANGED Lock!vars
<1>1. CASE MayWrite' = MayWrite
  BY <1>1 DEF lockVars, Lock!vars, Lock!contention
<1>2. CASE MayWrite' # MayWrite
  <2>1. MayWrite = {lockFile} /\ MayWrite' = {} /\ lockFile \in Call
    <3>1. MayWrite \subseteq {lockFile} /\ MayWrite \subseteq Call
      BY OneWriter, WritersAreCalls, GuardParts DEF RegistryType
    <3> QED BY <1>2, <3>1
  <2>2. Lock!DescendantEnds(lockFile)
    BY <2>1 DEF Lock!DescendantEnds, lockVars, Lock!contention
  <2> QED BY <2>1, <2>2 DEF Lock!Next, Lock!HolderStep
<1> QED BY <1>1, <1>2

\* Reservations and failed spawns start nothing; a guard is a child.
LEMMA LaunchImplements ==
    ASSUME GuardInv, NEW c \in Call, LaunchStep(c)
    PROVE  Lock!Next \/ UNCHANGED Lock!vars
<1>1. PICK l \in Launch : \/ Reserve(c, l) \/ SpawnGuard(c, l) \/ SpawnFails(c, l)
                          \/ ReleaseAfterGroupTermination(c, l)
  BY DEF LaunchStep
<1>2. UNCHANGED lockVars
  BY <1>1 DEF Reserve, SpawnGuard, SpawnFails, ReleaseAfterGroupTermination
<1>3. CASE SpawnGuard(c, l)
  <2>1. MayWrite' = MayWrite \cup {c}
    BY <1>3, GuardParts DEF SpawnGuard, MayWrite, RegistryType
  <2>2. Lock!SpawnDescendant(c)
    BY <1>2, <1>3, <2>1, GuardAssumption
       DEF SpawnGuard, Lock!SpawnDescendant, Lock!Live, lockVars, Lock!contention
  <2> QED BY <2>2 DEF Lock!Next, Lock!HolderStep
<1>4. CASE ~SpawnGuard(c, l)
  <2>1. MayWrite' \subseteq MayWrite
    BY <1>1, <1>4, GuardParts
       DEF Reserve, SpawnFails, ReleaseAfterGroupTermination, MayWrite, RegistryType, LaunchInOrder
  <2> QED BY <1>2, <2>1, ChildrenEnd
<1> QED BY <1>3, <1>4

\* A guard that ends takes at most a child away.
LEMMA GuardImplements ==
    ASSUME GuardInv, NEW l \in Launch, GuardStep(l) \/ GroupEnds(l)
    PROVE  Lock!Next \/ UNCHANGED Lock!vars
<1>1. UNCHANGED <<lockVars, launcher>>
  BY DEF GuardStep, CheckParent, Activate, SpawnProvider, GroupEnds
<1>2. \A k \in Launch : /\ GroupAlive(k)' => GroupAlive(k)
                        /\ record'[k] = "none" <=> record[k] = "none"
  BY GuardParts
     DEF RegistryType, GuardStep, CheckParent, Activate, SpawnProvider, GroupEnds, GuardOutcome
<1>3. MayWrite' \subseteq MayWrite
  BY <1>1, <1>2 DEF MayWrite
<1> QED BY <1>1, <1>3, ChildrenEnd

\* The proof takes the rows of children away that will not become writers.
LEMMA CanRecoverImplements ==
    ASSUME GuardInv, NEW c \in Call, CanRecoverDeadOwner(c)
    PROVE  Lock!Next \/ UNCHANGED Lock!vars
<1>1. UNCHANGED <<lockVars, launcher, guard>>
  BY DEF CanRecoverDeadOwner
<1>2. MayWrite' \subseteq MayWrite
  BY <1>1, CanRecoverDeletes, GuardParts DEF MayWrite
<1> QED BY <1>1, <1>2, ChildrenEnd

\* After a yes no child is left, so the lock reclaims; after a no it refuses.
LEMMA ConcludeImplements ==
    ASSUME PidsNotReused, GuardInv, NEW c \in Call, ConcludeAttempt(c)
    PROVE  Lock!AcquireStep(c)
<1> USE GuardParts, GuardAssumption
<1>1. Lock!WindowOver(c) /\ lockFile \in Call
  BY OwnerStaysDead DEF ConcludeAttempt, AttemptUnderWay
<1>2. CASE ~verdict /\ Lock!KeepOwner(c)
  BY <1>1, <1>2 DEF Lock!AcquireStep, Lock!RefuseDeadOwner, Lock!MayRefusePidOwner
<1>3. CASE verdict /\ Lock!UnlinkOwner(c)
  <2>1. MayWrite = {}
    BY <1>3 DEF AttemptUnderWay, MayWrite
  <2>2. Lock!CanRecoverPidOwner(c, lockFile)
    BY <1>1, <2>1 DEF Lock!CanRecoverPidOwner, Lock!ProofHolds
  <2> QED BY <1>1, <1>3, <2>2 DEF Lock!AcquireStep, Lock!ReclaimDeadOwner
<1>4. CASE Lock!AttemptFails(c)
  BY <1>4 DEF Lock!AcquireStep
<1> QED BY <1>2, <1>3, <1>4 DEF ConcludeAttempt

\* A supervisor that releases has no child left.
LEMMA ReleaseImplements ==
    ASSUME GuardInv, NEW c \in Call, ReleaseSupervisor(c)
    PROVE  Lock!Release(c)
<1>1. c \notin MayWrite
  BY DEF ReleaseSupervisor, ShutdownComplete, MayWrite
<1> QED BY <1>1 DEF ReleaseSupervisor, Lock!Release

\* Supervisor, registry and guards are the owned file lock, with the recorded
\* groups for the children that may outlive an owner.
THEOREM GuardImplementsLock ==
    ASSUME PidsNotReused
    PROVE  Spec => ImplementsLock
<1>1. Init => Lock!Init
  BY DEF Init
<1>2. GuardInv /\ [Next]_vars => [Lock!Next]_(Lock!vars)
  <2> SUFFICES ASSUME GuardInv, [Next]_vars PROVE Lock!Next \/ UNCHANGED Lock!vars
    OBVIOUS
  <2>1. CASE Environment
    BY <2>1 DEF Environment, Lock!Next
  <2>2. ASSUME NEW p \in Proc, Crash(p) PROVE Lock!Next
    BY <2>2 DEF Crash, Lock!Next
  <2>3. ASSUME NEW c \in Call, AcquireSupervisor(c) PROVE Lock!Next
    BY <2>3 DEF AcquireSupervisor, Lock!Next, Lock!AcquireStep
  <2>4. ASSUME NEW c \in Call, ConcludeAttempt(c) PROVE Lock!Next
    BY <2>4, ConcludeImplements DEF Lock!Next
  <2>5. ASSUME NEW c \in Call, ReleaseSupervisor(c) PROVE Lock!Next
    BY <2>5, ReleaseImplements DEF Lock!Next, Lock!HolderStep
  <2>6. CASE UNCHANGED vars
    BY <2>6, SameWriters DEF vars, lockVars, Lock!vars, Lock!contention
  <2> QED BY <2>1, <2>2, <2>3, <2>4, <2>5, <2>6, LaunchImplements, GuardImplements,
             CanRecoverImplements DEF Next, AcquireStep
<1> QED BY <1>1, <1>2, GuardInvariant, PTL DEF Spec, ImplementsLock, Lock!Spec

-----------------------------------------------------------------------------
(* The supervisor lock is a PartLock, however PIDs are given out: a proof  *)
(* that outlives the look at a PID still speaks of a process that ended.   *)

\* A step that keeps the owner in the file, and those that hold it, at most ends
\* processes.
LEMMA HolderStays ==
    ASSUME UNCHANGED <<lockFile, pc>>,
           \A c \in Call : proc[ProcOf[c]] = "dead" => proc'[ProcOf[c]] = "dead"
    PROVE  Lock!Part!Next
BY DEF Lock!Part!Next, Lock!Part!End, Lock!FileHolder

\* An attempt that ends without the lock leaves the holders as they are; what it may
\* have left in the file is nobody's.
LEMMA AttemptStays ==
    ASSUME LockPart, NEW c \in Call, pc[c] = "trying",
           pc' \in {pc, [pc EXCEPT ![c] = "failed"]},
           lockFile' = lockFile \/ (lockFile = NoFile /\ lockFile' \in {Bare, c}),
           \A d \in Call : proc[ProcOf[d]] = "dead" => proc'[ProcOf[d]] = "dead"
    PROVE  Lock!Part!Next
<1> USE GuardAssumption DEF LockPart, LockType
<1>1. \A d \in Call : /\ pc'[d] = "held" <=> pc[d] = "held"
                      /\ pc'[d] \in {"held", "released"} <=> pc[d] \in {"held", "released"}
  OBVIOUS
<1>2. CASE lockFile' = lockFile
  <2>1. UNCHANGED Lock!FileHolder
    BY <1>1, <1>2 DEF Lock!FileHolder
  <2> QED BY <1>1, <2>1 DEF Lock!Part!Next, Lock!Part!End
<1>3. CASE lockFile = NoFile /\ lockFile' \in {Bare, c}
  <2>1. Lock!FileHolder = NoFile /\ Lock!FileHolder' = Bare
    BY <1>3 DEF Lock!FileHolder
  <2>2. Lock!Part!Cut
    BY <1>1, <2>1 DEF Lock!Part!Cut, Lock!Part!End
  <2> QED BY <2>2 DEF Lock!Part!Next
<1> QED BY <1>2, <1>3

\* The loop of a supervisor that asks for the lock.
LEMMA AcquireIsPart ==
    ASSUME GuardInv, NEW c \in Call, AcquireSupervisor(c)
    PROVE  Lock!Part!Next
<1> USE GuardParts, GuardAssumption DEF LockPart, LockType
<1>1. CASE Lock!Begin(c) \/ Lock!GiveUp(c)
  <2>1. UNCHANGED <<lockFile, proc>> /\ UNCHANGED Lock!FileHolder
    BY <1>1 DEF Lock!Begin, Lock!GiveUp, Lock!FileHolder
  <2>2. \A d \in Call : pc'[d] = "held" <=> pc[d] = "held"
    BY <1>1 DEF Lock!Begin, Lock!GiveUp
  <2> QED BY <2>1, <2>2 DEF Lock!Part!Next, Lock!Part!End
<1>2. CASE Lock!Create(c)
  <2>1. /\ Lock!FileHolder = NoFile /\ Lock!FileHolder' = c
        /\ {d \in Call : pc'[d] = "held"} = {d \in Call : pc[d] = "held"} \cup {c}
        /\ UNCHANGED proc /\ proc[ProcOf[c]] # "dead"
    BY <1>2 DEF Lock!Create, Lock!Attempt, Lock!Live, Lock!FileHolder
  <2>2. Lock!Part!Take(c)
    BY <2>1 DEF Lock!Part!Take
  <2> QED BY <2>1, <2>2 DEF Lock!Part!Next
<1>3. CASE Lock!AttemptFails(c)
  BY <1>3, AttemptStays DEF Lock!AttemptFails, Lock!Attempt
<1>4. CASE Lock!CrashWhileCreating(c)
  BY <1>4, AttemptStays DEF Lock!CrashWhileCreating
<1>5. CASE Lock!WaitForGrace(c) \/ Lock!WaitForOwner(c)
  BY <1>5, HolderStays DEF Lock!WaitForGrace, Lock!WaitForOwner, Lock!Attempt
<1> QED BY <1>1, <1>2, <1>3, <1>4, <1>5 DEF AcquireSupervisor

\* The owner of the file an attempt acts on is a process that ended: nothing that
\* happened since the proof changes that, not even a new process with its PID.
LEMMA ConcludeIsPart ==
    ASSUME GuardInv, NEW c \in Call, ConcludeAttempt(c)
    PROVE  Lock!Part!Next
<1> USE GuardParts, GuardAssumption DEF LockPart, LockType
<1>1. /\ lockFile \in Call /\ proc[ProcOf[lockFile]] = "dead"
      /\ pc[c] = "trying" /\ UNCHANGED proc
  BY DEF ConcludeAttempt, AttemptUnderWay, Lock!KeepOwner, Lock!UnlinkOwner,
         Lock!AttemptFails, Lock!Attempt
<1>2. CASE Lock!KeepOwner(c)
  BY <1>1, <1>2, HolderStays DEF Lock!KeepOwner
<1>3. CASE Lock!AttemptFails(c)
  BY <1>1, <1>3, AttemptStays DEF Lock!AttemptFails
<1>4. CASE Lock!UnlinkOwner(c)
  <2>1. lockFile' = NoFile /\ \A d \in Call : pc'[d] = "held" <=> pc[d] = "held"
    BY <1>1, <1>4 DEF Lock!UnlinkOwner
  <2>2. Lock!FileHolder' = NoFile
    BY <2>1 DEF Lock!FileHolder
  <2>3. Lock!FileHolder = Bare \/ (Lock!FileHolder = lockFile /\ lockFile \in Call)
    BY <1>1 DEF Lock!FileHolder
  <2>4. Lock!Part!Clear \/ Lock!Part!Recover
    BY <1>1, <2>1, <2>2, <2>3 DEF Lock!Part!Clear, Lock!Part!Recover
  <2> QED BY <2>4 DEF Lock!Part!Next
<1> QED BY <1>2, <1>3, <1>4 DEF ConcludeAttempt

\* A supervisor gives back its own lock only.
LEMMA ReleaseIsPart ==
    ASSUME GuardInv, NEW c \in Call, ReleaseSupervisor(c)
    PROVE  Lock!Part!Next
<1> USE GuardParts, GuardAssumption DEF LockPart, LockType
<1>1. /\ proc[ProcOf[c]] = "live" /\ UNCHANGED proc
      /\ pc[c] \in {"held", "released"} /\ pc' = [pc EXCEPT ![c] = "released"]
      /\ lockFile' = lockFile \/ (lockFile = c /\ lockFile' = NoFile)
  BY DEF ReleaseSupervisor, Lock!ReleaseReturns, Lock!ReleaseThrows, Lock!Live
<1>2. \/ Lock!FileHolder' = Lock!FileHolder
      \/ Lock!FileHolder = c /\ Lock!FileHolder' = NoFile
  BY <1>1 DEF Lock!FileHolder
<1>3. {d \in Call : pc'[d] = "held"} = {d \in Call : pc[d] = "held"} \ {c}
  BY <1>1
<1>4. Lock!Part!GiveBack(c)
  BY <1>1, <1>2, <1>3 DEF Lock!Part!GiveBack
<1> QED BY <1>1, <1>4 DEF Lock!Part!Next

\* The lock of the supervisors is taken only where there is no file, given back only
\* by the supervisor it names, and taken from one only when its process has ended,
\* also when its PID was given to another process in the middle of a recovery.
THEOREM SupervisorIsPartLock == Spec => Lock!ImplementsPartLock
<1>1. Init => Lock!Part!Init
  BY GuardAssumption DEF Init, Lock!Init, Lock!Part!Init, Lock!FileHolder
<1>2. GuardInv /\ [Next]_vars => [Lock!Part!Next]_(Lock!Part!vars)
  <2> SUFFICES ASSUME GuardInv, [Next]_vars
               PROVE  Lock!Part!Next \/ UNCHANGED Lock!Part!vars
    OBVIOUS
  <2>1. CASE Environment \/ \E p \in Proc : Crash(p)
    <3>1. UNCHANGED <<lockFile, pc>>
      BY <2>1 DEF Environment, Crash, Lock!StartProc, Lock!Crash, Lock!Tick, Lock!MtimeAges
    <3>2. \A c \in Call : proc[ProcOf[c]] = "dead" => proc'[ProcOf[c]] = "dead"
      BY <2>1, GuardParts, GuardAssumption
         DEF Environment, Crash, Lock!StartProc, Lock!Crash, Lock!Tick, Lock!MtimeAges,
             LockPart, LockType
    <3> QED BY <3>1, <3>2, HolderStays
  <2>2. CASE UNCHANGED lockVars
    BY <2>2, HolderStays DEF lockVars
  <2>3. ASSUME NEW c \in Call, CanRecoverDeadOwner(c) \/ LaunchStep(c) PROVE Lock!Part!Next
    <3>1. UNCHANGED lockVars
      BY <2>3 DEF CanRecoverDeadOwner, LaunchStep, Reserve, SpawnGuard, SpawnFails,
                  ReleaseAfterGroupTermination
    <3> QED BY <3>1, HolderStays DEF lockVars
  <2>4. ASSUME NEW l \in Launch, GuardStep(l) \/ GroupEnds(l) PROVE Lock!Part!Next
    <3>1. UNCHANGED lockVars
      BY <2>4 DEF GuardStep, CheckParent, Activate, SpawnProvider, GroupEnds
    <3> QED BY <3>1, HolderStays DEF lockVars
  <2>5. CASE UNCHANGED vars
    BY <2>2, <2>5 DEF vars
  <2> QED BY <2>1, <2>3, <2>4, <2>5, AcquireIsPart, ConcludeIsPart, ReleaseIsPart
          DEF Next, AcquireStep
<1> QED BY <1>1, <1>2, GuardInvariant, PTL DEF Spec, Lock!ImplementsPartLock, Lock!Part!Spec

=============================================================================
