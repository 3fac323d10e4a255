------------------------- MODULE OwnedFileLockProofs -------------------------
(***************************************************************************)
(* Proofs about OwnedFileLock, for every set of calls, processes and PIDs, *)
(* every number of attempts and every grace window.                        *)
(***************************************************************************)
EXTENDS OwnedFileLock, TLAPS

USE DEF Live, contention

-----------------------------------------------------------------------------
(* Type correctness.                                                       *)

\* Init establishes the type invariant.
LEMMA InitType == Init => TypeOK
<1> SUFFICES ASSUME Init PROVE TypeOK
  OBVIOUS
<1> USE ConfigAssumption DEF Init
<1>1. proc \in [Proc -> {"unborn", "live", "dead"}]
  OBVIOUS
<1>2. deadFor \in [Proc -> 0..Grace]
  OBVIOUS
<1>3. pc \in [Call -> PcValue]
  BY DEF PcValue
<1>4. left \in [Call -> 0..Attempts]
  OBVIOUS
<1>5. observed \in [Call -> Call \cup {None}]
  OBVIOUS
<1>6. waited \in [Call -> 0..Grace]
  OBVIOUS
<1>7. manualRecoveryRequired \in [Call -> BOOLEAN]
  OBVIOUS
<1>8. request \in [Request -> Call \cup {None}]
  OBVIOUS
<1> QED
  BY <1>1, <1>2, <1>3, <1>4, <1>5, <1>6, <1>7, <1>8 DEF TypeOK

\* Steps of processes, of time and of persons preserve it.
LEMMA EnvironmentType ==
    ASSUME TypeOK,
           \/ \E p \in Proc : StartProc(p) \/ Crash(p)
           \/ Tick \/ MtimeAges
           \/ \E r \in Request : Confirm(r) \/ RecoverDeadManualFileLock(r)
    PROVE  TypeOK'
<1>1. ASSUME NEW p \in Proc, StartProc(p) \/ Crash(p) PROVE TypeOK'
  BY <1>1 DEF TypeOK, StartProc, Crash
<1>2. CASE Tick
  BY <1>2, ConfigAssumption DEF TypeOK, Tick
<1>3. CASE MtimeAges
  BY <1>3 DEF TypeOK, MtimeAges
<1>4. ASSUME NEW r \in Request, Confirm(r) PROVE TypeOK'
  BY <1>4 DEF TypeOK, Confirm, DeadOwner
<1>5. ASSUME NEW r \in Request, RecoverDeadManualFileLock(r) PROVE TypeOK'
  BY <1>5 DEF TypeOK, RecoverDeadManualFileLock
<1> QED BY <1>1, <1>2, <1>3, <1>4, <1>5

\* So do the steps of a call.
LEMMA CallType ==
    ASSUME TypeOK, NEW c \in Call,
           Begin(c) \/ AcquireStep(c) \/ CrashWhileCreating(c) \/ HolderStep(c)
    PROVE  TypeOK'
<1> USE ConfigAssumption DEF TypeOK, Attempt, SetRecoveryRequired, Observe, PcValue
<1>1. CASE Begin(c)
  <2> USE <1>1 DEF Begin
  <2>1. pc' \in [Call -> PcValue]
    OBVIOUS
  <2>2. left' \in [Call -> 0..Attempts]
    OBVIOUS
  <2>3. observed' \in [Call -> Call \cup {None}]
    OBVIOUS
  <2>4. waited' \in [Call -> 0..Grace]
    OBVIOUS
  <2>5. manualRecoveryRequired' \in [Call -> BOOLEAN]
    OBVIOUS
  <2>6. lockFile' \in Call \cup {NoFile, Bare} /\ stale' \in BOOLEAN
    OBVIOUS
  <2> QED
    BY <2>1, <2>2, <2>3, <2>4, <2>5, <2>6
<1>2. CASE Create(c)
  <2> USE <1>2 DEF Create
  <2>1. pc' \in [Call -> PcValue]
    OBVIOUS
  <2>2. left' \in [Call -> 0..Attempts]
    OBVIOUS
  <2>3. observed' \in [Call -> Call \cup {None}]
    OBVIOUS
  <2>4. waited' \in [Call -> 0..Grace]
    OBVIOUS
  <2>5. manualRecoveryRequired' \in [Call -> BOOLEAN]
    OBVIOUS
  <2>6. lockFile' \in Call \cup {NoFile, Bare} /\ stale' \in BOOLEAN
    OBVIOUS
  <2> QED
    BY <2>1, <2>2, <2>3, <2>4, <2>5, <2>6
<1>3. CASE AttemptFails(c)
  <2> USE <1>3 DEF AttemptFails
  <2>1. pc' \in [Call -> PcValue]
    OBVIOUS
  <2>2. left' \in [Call -> 0..Attempts]
    OBVIOUS
  <2>3. observed' \in [Call -> Call \cup {None}]
    OBVIOUS
  <2>4. waited' \in [Call -> 0..Grace]
    OBVIOUS
  <2>5. manualRecoveryRequired' \in [Call -> BOOLEAN]
    OBVIOUS
  <2>6. lockFile' \in Call \cup {NoFile, Bare} /\ stale' \in BOOLEAN
    OBVIOUS
  <2> QED
    BY <2>1, <2>2, <2>3, <2>4, <2>5, <2>6
<1>4. CASE WaitForGrace(c)
  BY <1>4 DEF WaitForGrace, DeadOwner, WaitedFor
<1>5. CASE RefuseDeadOwner(c)
  <2> USE <1>5 DEF RefuseDeadOwner, KeepOwner, WindowOver, DeadOwner, WaitedFor
  <2>1. pc' \in [Call -> PcValue]
    OBVIOUS
  <2>2. left' \in [Call -> 0..Attempts]
    OBVIOUS
  <2>3. observed' \in [Call -> Call \cup {None}]
    OBVIOUS
  <2>4. waited' \in [Call -> 0..Grace]
    OBVIOUS
  <2>5. manualRecoveryRequired' \in [Call -> BOOLEAN]
    OBVIOUS
  <2>6. lockFile' \in Call \cup {NoFile, Bare} /\ stale' \in BOOLEAN
    OBVIOUS
  <2> QED
    BY <2>1, <2>2, <2>3, <2>4, <2>5, <2>6
<1>6. CASE ReclaimDeadOwner(c)
  <2> USE <1>6 DEF ReclaimDeadOwner, UnlinkOwner, WindowOver, DeadOwner, WaitedFor
  <2>1. pc' \in [Call -> PcValue]
    OBVIOUS
  <2>2. left' \in [Call -> 0..Attempts]
    OBVIOUS
  <2>3. observed' \in [Call -> Call \cup {None}]
    OBVIOUS
  <2>4. waited' \in [Call -> 0..Grace]
    OBVIOUS
  <2>5. manualRecoveryRequired' \in [Call -> BOOLEAN]
    OBVIOUS
  <2>6. lockFile' \in Call \cup {NoFile, Bare} /\ stale' \in BOOLEAN
    OBVIOUS
  <2> QED
    BY <2>1, <2>2, <2>3, <2>4, <2>5, <2>6
<1>7. CASE ReclaimStaleBare(c)
  <2> USE <1>7 DEF ReclaimStaleBare
  <2>1. pc' \in [Call -> PcValue]
    OBVIOUS
  <2>2. left' \in [Call -> 0..Attempts]
    OBVIOUS
  <2>3. observed' \in [Call -> Call \cup {None}]
    OBVIOUS
  <2>4. waited' \in [Call -> 0..Grace]
    OBVIOUS
  <2>5. manualRecoveryRequired' \in [Call -> BOOLEAN]
    OBVIOUS
  <2>6. lockFile' \in Call \cup {NoFile, Bare} /\ stale' \in BOOLEAN
    OBVIOUS
  <2> QED
    BY <2>1, <2>2, <2>3, <2>4, <2>5, <2>6
<1>8. CASE WaitForOwner(c)
  BY <1>8 DEF WaitForOwner
<1>9. CASE GiveUp(c)
  BY <1>9 DEF GiveUp
<1>10. CASE CrashWhileCreating(c)
  BY <1>10 DEF CrashWhileCreating
<1>11. CASE HolderStep(c)
  BY <1>11 DEF HolderStep, SpawnDescendant, DescendantEnds, Release, ReleaseReturns, ReleaseThrows, Refresh
<1> QED
  BY <1>1, <1>2, <1>3, <1>4, <1>5, <1>6, <1>7, <1>8, <1>9, <1>10, <1>11 DEF AcquireStep

\* Every variable of the lock keeps its type.
THEOREM TypeCorrect == Spec => []TypeOK
<1>1. Init => TypeOK
  BY InitType
<1>2. TypeOK /\ [Next]_vars => TypeOK'
  <2>1. ASSUME TypeOK, Next PROVE TypeOK'
    BY <2>1, EnvironmentType, CallType DEF Next
  <2>2. ASSUME TypeOK, UNCHANGED vars PROVE TypeOK'
    BY <2>2 DEF TypeOK, vars
  <2> QED BY <2>1, <2>2
<1> QED BY <1>1, <1>2, PTL DEF Spec

-----------------------------------------------------------------------------
(* The file belongs to its live holder, and what a call observed is true.  *)

\* A process whose owner record is found dead is not live.
LEMMA DeadOwnerNotLive ==
    ASSUME TypeOK, NEW o, DeadOwner(o)
    PROVE  o \in Call /\ proc[ProcOf[o]] # "live"
BY ConfigAssumption DEF DeadOwner, OwnerProcessAlive

\* Processes, time and persons leave the file of a live holder alone: what a
\* person has recovered belonged to a dead owner.
LEMMA EnvironmentFile ==
    ASSUME TypeOK, HolderOwnsFile, FileOwnerStarted,
           \/ \E p \in Proc : StartProc(p) \/ Crash(p)
           \/ Tick \/ MtimeAges
           \/ \E r \in Request : Confirm(r) \/ RecoverDeadManualFileLock(r)
    PROVE  HolderOwnsFile' /\ FileOwnerStarted'
<1> USE ConfigAssumption, DistinctAssumption, DeadOwnerNotLive DEF TypeOK, HolderOwnsFile, FileOwnerStarted
<1>1. ASSUME NEW p \in Proc, StartProc(p) \/ Crash(p) PROVE HolderOwnsFile' /\ FileOwnerStarted'
  BY <1>1 DEF StartProc, Crash
<1>2. CASE Tick
  BY <1>2 DEF Tick
<1>3. CASE MtimeAges
  BY <1>3 DEF MtimeAges
<1>4. ASSUME NEW r \in Request, Confirm(r) PROVE HolderOwnsFile' /\ FileOwnerStarted'
  BY <1>4 DEF Confirm
<1>5. ASSUME NEW r \in Request, RecoverDeadManualFileLock(r) PROVE HolderOwnsFile' /\ FileOwnerStarted'
  BY <1>5 DEF RecoverDeadManualFileLock
<1> QED
  BY <1>1, <1>2, <1>3, <1>4, <1>5

\* The steps of a call leave the file of another call's live holder alone.
LEMMA CallFile ==
    ASSUME TypeOK, HolderOwnsFile, FileOwnerStarted, NEW c \in Call,
           Begin(c) \/ AcquireStep(c) \/ CrashWhileCreating(c) \/ HolderStep(c)
    PROVE  HolderOwnsFile' /\ FileOwnerStarted'
<1> USE ConfigAssumption, DistinctAssumption, DeadOwnerNotLive
    DEF TypeOK, HolderOwnsFile, FileOwnerStarted, Attempt
<1>1. CASE Begin(c)
  BY <1>1 DEF Begin
<1>2. CASE Create(c)
  BY <1>2 DEF Create
<1>3. CASE AttemptFails(c)
  BY <1>3 DEF AttemptFails
<1>4. CASE WaitForGrace(c)
  BY <1>4 DEF WaitForGrace
<1>5. CASE RefuseDeadOwner(c)
  BY <1>5 DEF RefuseDeadOwner, KeepOwner, WindowOver
<1>6. CASE ReclaimDeadOwner(c)
  BY <1>6 DEF ReclaimDeadOwner, UnlinkOwner, WindowOver
<1>7. CASE ReclaimStaleBare(c)
  BY <1>7 DEF ReclaimStaleBare
<1>8. CASE WaitForOwner(c)
  BY <1>8 DEF WaitForOwner
<1>9. CASE GiveUp(c)
  BY <1>9 DEF GiveUp
<1>10. CASE CrashWhileCreating(c)
  BY <1>10 DEF CrashWhileCreating
<1>11. CASE HolderStep(c)
  BY <1>11 DEF HolderStep, SpawnDescendant, DescendantEnds, Release, ReleaseReturns, ReleaseThrows, Refresh
<1> QED
  BY <1>1, <1>2, <1>3, <1>4, <1>5, <1>6, <1>7, <1>8, <1>9, <1>10, <1>11 DEF AcquireStep

\* Time only adds to how long a dead owner was observed and was dead.
LEMMA EnvironmentObserved ==
    ASSUME TypeOK, ObservedIsDead, RecoveryAdviceJustified,
           \/ \E p \in Proc : StartProc(p) \/ Crash(p)
           \/ Tick \/ MtimeAges
           \/ \E r \in Request : Confirm(r) \/ RecoverDeadManualFileLock(r)
    PROVE  ObservedIsDead' /\ RecoveryAdviceJustified'
<1> USE ConfigAssumption, DistinctAssumption DEF TypeOK, ObservedIsDead, RecoveryAdviceJustified
<1>1. ASSUME NEW p \in Proc, StartProc(p) \/ Crash(p) PROVE ObservedIsDead' /\ RecoveryAdviceJustified'
  BY <1>1 DEF StartProc, Crash
<1>2. CASE Tick
  BY <1>2 DEF Tick
<1>3. CASE MtimeAges
  BY <1>3 DEF MtimeAges
<1>4. ASSUME NEW r \in Request, Confirm(r) PROVE ObservedIsDead' /\ RecoveryAdviceJustified'
  BY <1>4 DEF Confirm
<1>5. ASSUME NEW r \in Request, RecoverDeadManualFileLock(r) PROVE ObservedIsDead' /\ RecoveryAdviceJustified'
  BY <1>5 DEF RecoverDeadManualFileLock
<1> QED
  BY <1>1, <1>2, <1>3, <1>4, <1>5

\* The steps of a call keep what it observed true, and its advice justified.
LEMMA CallObserved ==
    ASSUME TypeOK, FileOwnerStarted, ObservedIsDead, RecoveryAdviceJustified, NEW c \in Call,
           Begin(c) \/ AcquireStep(c) \/ CrashWhileCreating(c) \/ HolderStep(c)
    PROVE  ObservedIsDead' /\ RecoveryAdviceJustified'
<1> USE ConfigAssumption, DistinctAssumption, DeadOwnerNotLive
    DEF TypeOK, FileOwnerStarted, ObservedIsDead, RecoveryAdviceJustified, Attempt
<1>1. CASE Begin(c)
  BY <1>1 DEF Begin
<1>2. CASE Create(c)
  BY <1>2 DEF Create, SetRecoveryRequired
<1>3. CASE AttemptFails(c)
  BY <1>3 DEF AttemptFails, SetRecoveryRequired
<1>4. CASE WaitForGrace(c)
  BY <1>4 DEF WaitForGrace, WaitedFor, DeadOwner, Observe, SetRecoveryRequired
<1>5. CASE RefuseDeadOwner(c)
  <2> DEFINE o == lockFile
  <2>1. /\ o \in Call /\ proc[ProcOf[o]] = "dead"
        /\ WaitedFor(c, o) >= Grace /\ WaitedFor(c, o) \in 0..Grace
        /\ WaitedFor(c, o) <= deadFor[ProcOf[o]]
    BY <1>5 DEF RefuseDeadOwner, WindowOver, DeadOwner, WaitedFor
  <2>2. /\ observed' = [observed EXCEPT ![c] = o]
        /\ waited' = [waited EXCEPT ![c] = WaitedFor(c, o)]
        /\ manualRecoveryRequired' = [manualRecoveryRequired EXCEPT ![c] = (ClassOf[o] = "manual")]
        /\ UNCHANGED <<proc, deadFor>>
    BY <1>5 DEF RefuseDeadOwner, KeepOwner, Observe, SetRecoveryRequired
  <2> HIDE DEF o
  <2>3. ObservedIsDead'
    BY <2>1, <2>2
  <2>4. RecoveryAdviceJustified'
    BY <2>1, <2>2
  <2> QED
    BY <2>3, <2>4
<1>6. CASE ReclaimDeadOwner(c)
  BY <1>6 DEF ReclaimDeadOwner, UnlinkOwner, WindowOver, WaitedFor, DeadOwner, Observe, SetRecoveryRequired
<1>7. CASE ReclaimStaleBare(c)
  BY <1>7 DEF ReclaimStaleBare, Observe, SetRecoveryRequired
<1>8. CASE WaitForOwner(c)
  BY <1>8 DEF WaitForOwner, Observe, SetRecoveryRequired
<1>9. CASE GiveUp(c)
  BY <1>9 DEF GiveUp
<1>10. CASE CrashWhileCreating(c)
  BY <1>10 DEF CrashWhileCreating
<1>11. CASE HolderStep(c)
  BY <1>11 DEF HolderStep, SpawnDescendant, DescendantEnds, Release, ReleaseReturns, ReleaseThrows, Refresh
<1> QED
  BY <1>1, <1>2, <1>3, <1>4, <1>5, <1>6, <1>7, <1>8, <1>9, <1>10, <1>11 DEF AcquireStep

\* The strengthening that does not depend on how PIDs are given out.
THEOREM LockInvariant == Spec => []LockInv
<1>1. Init => LockInv
  BY DistinctAssumption, ConfigAssumption
     DEF Init, LockInv, HolderOwnsFile, FileOwnerStarted, ObservedIsDead, RecoveryAdviceJustified
<1>2. TypeOK /\ LockInv /\ [Next]_vars => LockInv'
  <2>1. ASSUME TypeOK, LockInv, Next PROVE LockInv'
    BY <2>1, EnvironmentFile, CallFile, EnvironmentObserved, CallObserved DEF Next, LockInv
  <2>2. ASSUME LockInv, UNCHANGED vars PROVE LockInv'
    BY <2>2 DEF vars, LockInv, HolderOwnsFile, FileOwnerStarted, ObservedIsDead,
                RecoveryAdviceJustified
  <2> QED BY <2>1, <2>2
<1> QED BY <1>1, <1>2, TypeCorrect, PTL DEF Spec

\* A live holder's file names it in every state.
THEOREM HolderKeepsFile == Spec => []HolderOwnsFile
BY LockInvariant, PTL DEF LockInv

\* Whoever is told that a recovery is required last saw a dead manual owner.
THEOREM AdviceIsJustified == Spec => []RecoveryAdviceJustified
BY LockInvariant, PTL DEF LockInv

-----------------------------------------------------------------------------
(* Action properties.                                                      *)

\* An attempt that takes the file of a dead owner away reclaims it, and saw
\* it dead for a whole window.
LEMMA ReclaimAfterGrace ==
    ASSUME TypeOK, LockInv, NEW c \in Call, ReclaimDeadOwner(c)
    PROVE  deadFor[ProcOf[lockFile]] >= Grace
<1> USE ConfigAssumption, DistinctAssumption DEF TypeOK
<1>1. lockFile \in Call /\ WaitedFor(c, lockFile) >= Grace
  BY DEF ReclaimDeadOwner, WindowOver, DeadOwner
<1>2. CASE observed[c] = lockFile
  BY <1>1, <1>2 DEF LockInv, ObservedIsDead, WaitedFor
<1>3. CASE observed[c] # lockFile
  <2>1. Grace = 0
    BY <1>1, <1>3 DEF WaitedFor
  <2> QED BY <1>1, <2>1
<1> QED BY <1>2, <1>3

\* A call that takes away the file of an owner o releases it itself, or
\* reclaims it.
LEMMA CallRemoves ==
    ASSUME TypeOK, NEW c \in Call, NEW o \in Call, lockFile = o, lockFile' # o,
           Begin(c) \/ AcquireStep(c) \/ CrashWhileCreating(c) \/ HolderStep(c)
    PROVE  \/ c = o /\ Live(o) /\ pc'[o] = "released"
           \/ ReclaimDeadOwner(c)
<1> USE DistinctAssumption DEF TypeOK, Attempt
<1>1. CASE Begin(c)
  BY <1>1 DEF Begin
<1>2. CASE Create(c)
  BY <1>2 DEF Create
<1>3. CASE AttemptFails(c)
  BY <1>3 DEF AttemptFails
<1>4. CASE WaitForGrace(c)
  BY <1>4 DEF WaitForGrace
<1>5. CASE RefuseDeadOwner(c)
  BY <1>5 DEF RefuseDeadOwner, KeepOwner, WindowOver
<1>6. CASE ReclaimDeadOwner(c)
  BY <1>6 DEF ReclaimDeadOwner, UnlinkOwner, WindowOver, CanRecoverPidOwner, ProofHolds
<1>7. CASE ReclaimStaleBare(c)
  BY <1>7 DEF ReclaimStaleBare
<1>8. CASE WaitForOwner(c)
  BY <1>8 DEF WaitForOwner
<1>9. CASE GiveUp(c)
  BY <1>9 DEF GiveUp
<1>10. CASE CrashWhileCreating(c)
  BY <1>10 DEF CrashWhileCreating
<1>11. CASE HolderStep(c)
  BY <1>11 DEF HolderStep, SpawnDescendant, DescendantEnds, Release, ReleaseReturns, ReleaseThrows, Refresh
<1> QED
  BY <1>1, <1>2, <1>3, <1>4, <1>5, <1>6, <1>7, <1>8, <1>9, <1>10, <1>11 DEF AcquireStep

\* Processes and time take no file away, and a person only by a request.
LEMMA EnvironmentRemoves ==
    ASSUME TypeOK, NEW o \in Call, lockFile = o, lockFile' # o,
           \/ \E p \in Proc : StartProc(p) \/ Crash(p)
           \/ Tick \/ MtimeAges
           \/ \E r \in Request : Confirm(r) \/ RecoverDeadManualFileLock(r)
    PROVE  \E r \in Request : request[r] # None /\ request'[r] = None
<1> USE DEF TypeOK
<1>1. ASSUME NEW p \in Proc, StartProc(p) \/ Crash(p) PROVE \E q \in Request : request[q] # None /\ request'[q] = None
  BY <1>1 DEF StartProc, Crash
<1>2. CASE Tick
  BY <1>2 DEF Tick
<1>3. CASE MtimeAges
  BY <1>3 DEF MtimeAges
<1>4. ASSUME NEW r \in Request, Confirm(r) PROVE \E q \in Request : request[q] # None /\ request'[q] = None
  BY <1>4 DEF Confirm
<1>5. ASSUME NEW r \in Request, RecoverDeadManualFileLock(r) PROVE \E q \in Request : request[q] # None /\ request'[q] = None
  BY <1>5 DEF RecoverDeadManualFileLock
<1> QED
  BY <1>1, <1>2, <1>3, <1>4, <1>5

\* An attempt takes the file of a dead process away only after a whole window.
THEOREM GraceIsFull == Spec => FullGrace
<1> DEFINE A == \A o \in Call :
          (/\ lockFile = o /\ lockFile' # o
           /\ proc[ProcOf[o]] = "dead"
           /\ request' = request)
          => deadFor[ProcOf[o]] >= Grace
<1>1. TypeOK /\ LockInv /\ [Next]_vars => [A]_vars
  <2> SUFFICES ASSUME TypeOK, LockInv, Next, NEW o \in Call,
                      lockFile = o, lockFile' # o,
                      proc[ProcOf[o]] = "dead", request' = request
               PROVE  deadFor[ProcOf[o]] >= Grace
    OBVIOUS
  <2>1. ~ \E r \in Request : request[r] # None /\ request'[r] = None
    OBVIOUS
  <2>2. PICK c \in Call : Begin(c) \/ AcquireStep(c) \/ CrashWhileCreating(c) \/ HolderStep(c)
    BY <2>1, EnvironmentRemoves DEF Next
  <2>3. ReclaimDeadOwner(c)
    BY <2>2, CallRemoves
  <2> QED BY <2>3, ReclaimAfterGrace
<1> QED BY <1>1, TypeCorrect, LockInvariant, PTL DEF Spec, FullGrace

\* The file of a manual owner goes by its own release or by a person's request.
THEOREM ManualIsKept == Spec => ManualNeedsPerson
<1> DEFINE A == \A o \in Call :
          lockFile = o /\ lockFile' # o /\ ClassOf[o] = "manual"
          => \/ pc'[o] = "released" /\ Live(o)
             \/ \E r \in Request : request[r] # None /\ request'[r] = None
<1>1. TypeOK /\ [Next]_vars => [A]_vars
  <2> SUFFICES ASSUME TypeOK, Next, NEW o \in Call,
                      lockFile = o, lockFile' # o, ClassOf[o] = "manual",
                      ~ \E r \in Request : request[r] # None /\ request'[r] = None
               PROVE  pc'[o] = "released" /\ Live(o)
    OBVIOUS
  <2>1. PICK c \in Call : Begin(c) \/ AcquireStep(c) \/ CrashWhileCreating(c) \/ HolderStep(c)
    BY EnvironmentRemoves DEF Next
  <2>2. ~ReclaimDeadOwner(c)
    BY DEF ReclaimDeadOwner, CanRecoverPidOwner
  <2> QED BY <2>1, <2>2, CallRemoves
<1> QED BY <1>1, TypeCorrect, PTL DEF Spec, ManualNeedsPerson

-----------------------------------------------------------------------------
(* Mutual exclusion.  Recovery requests name an owner by its PID only, so  *)
(* what follows is proved when no process of a manual owner has the PID of *)
(* an earlier one; PIDs may be used again by all the others.               *)

ManualPidsNotReused ==
    \A c, d \in Call :
        /\ ClassOf[c] = "manual" /\ ClassOf[d] = "manual"
        /\ PidOf[ProcOf[c]] = PidOf[ProcOf[d]]
        => ProcOf[c] = ProcOf[d]

\* A person's request reaches the owner that was shown, or nothing.
LEMMA RequestHitsShown ==
    ASSUME ManualPidsNotReused, TypeOK, RequestedIsGone, NEW r \in Request,
           request[r] # None, DeadOwner(lockFile), ClassOf[lockFile] = "manual",
           PidOf[ProcOf[lockFile]] = PidOf[ProcOf[request[r]]]
    PROVE  lockFile = request[r]
<1>1. lockFile \in Call /\ request[r] \in Call
  BY DEF DeadOwner, TypeOK
<1>2. ProcOf[lockFile] = ProcOf[request[r]]
  BY <1>1 DEF ManualPidsNotReused, RequestedIsGone
<1> QED BY <1>1, <1>2 DEF RequestedIsGone

\* Processes, time and persons leave every child under its owner's file.
LEMMA EnvironmentChild ==
    ASSUME ManualPidsNotReused, TypeOK, FileOwnerStarted, ChildInv,
           \/ \E p \in Proc : StartProc(p) \/ Crash(p)
           \/ Tick \/ MtimeAges
           \/ \E r \in Request : Confirm(r) \/ RecoverDeadManualFileLock(r)
    PROVE  ChildInv'
<1> USE ConfigAssumption, DistinctAssumption
    DEF TypeOK, FileOwnerStarted, ChildInv, ChildUnderFile, RequestedIsGone
<1>1. ASSUME NEW p \in Proc, StartProc(p) \/ Crash(p) PROVE ChildInv'
  BY <1>1 DEF StartProc, Crash
<1>2. CASE Tick
  BY <1>2 DEF Tick
<1>3. CASE MtimeAges
  BY <1>3 DEF MtimeAges
<1>4. ASSUME NEW r \in Request, Confirm(r) PROVE ChildInv'
  BY <1>4, DeadOwnerNotLive DEF Confirm
<1>5. ASSUME NEW r \in Request, RecoverDeadManualFileLock(r) PROVE ChildInv'
  BY <1>5, RequestHitsShown DEF RecoverDeadManualFileLock
<1> QED
  BY <1>1, <1>2, <1>3, <1>4, <1>5

\* So do the steps of a call: canRecoverDeadOwner vouches before a reclaim.
LEMMA CallChild ==
    ASSUME TypeOK, FileOwnerStarted, HolderOwnsFile, ChildInv, NEW c \in Call,
           Begin(c) \/ AcquireStep(c) \/ CrashWhileCreating(c) \/ HolderStep(c)
    PROVE  ChildInv'
<1> USE ConfigAssumption, DistinctAssumption
    DEF TypeOK, FileOwnerStarted, HolderOwnsFile, ChildInv, ChildUnderFile, RequestedIsGone, Attempt
<1>1. CASE Begin(c)
  BY <1>1 DEF Begin
<1>2. CASE Create(c)
  BY <1>2 DEF Create
<1>3. CASE AttemptFails(c)
  BY <1>3 DEF AttemptFails
<1>4. CASE WaitForGrace(c)
  BY <1>4 DEF WaitForGrace
<1>5. CASE RefuseDeadOwner(c)
  BY <1>5 DEF RefuseDeadOwner, KeepOwner, WindowOver
<1>6. CASE ReclaimDeadOwner(c)
  BY <1>6 DEF ReclaimDeadOwner, UnlinkOwner, WindowOver, CanRecoverPidOwner, ProofHolds
<1>7. CASE ReclaimStaleBare(c)
  BY <1>7 DEF ReclaimStaleBare
<1>8. CASE WaitForOwner(c)
  BY <1>8 DEF WaitForOwner
<1>9. CASE GiveUp(c)
  BY <1>9 DEF GiveUp
<1>10. CASE CrashWhileCreating(c)
  BY <1>10 DEF CrashWhileCreating
<1>11. CASE HolderStep(c)
  BY <1>11 DEF HolderStep, SpawnDescendant, DescendantEnds, Release, ReleaseReturns, ReleaseThrows, Refresh
<1> QED
  BY <1>1, <1>2, <1>3, <1>4, <1>5, <1>6, <1>7, <1>8, <1>9, <1>10, <1>11 DEF AcquireStep

\* Every child an owner left behind works under that owner's file, and every
\* request is for an owner that is gone for good.
THEOREM ChildInvariant ==
    ASSUME ManualPidsNotReused
    PROVE  Spec => []ChildInv
<1>1. Init => ChildInv
  BY DEF Init, ChildInv, ChildUnderFile, RequestedIsGone
<1>2. TypeOK /\ LockInv /\ ChildInv /\ [Next]_vars => ChildInv'
  <2>1. ASSUME TypeOK, LockInv, ChildInv, Next PROVE ChildInv'
    BY <2>1, EnvironmentChild, CallChild DEF Next, LockInv
  <2>2. ASSUME ChildInv, UNCHANGED vars PROVE ChildInv'
    BY <2>2 DEF vars, ChildInv, ChildUnderFile, RequestedIsGone
  <2> QED BY <2>1, <2>2
<1> QED BY <1>1, <1>2, TypeCorrect, LockInvariant, PTL DEF Spec

\* Neither a live holder nor the surviving child of a dead one is ever joined
\* by a second writer.
THEOREM MutualExclusionHolds ==
    ASSUME ManualPidsNotReused
    PROVE  Spec => []MutualExclusion
<1>1. TypeOK /\ LockInv /\ ChildInv => MutualExclusion
  BY DEF LockInv, HolderOwnsFile, ChildInv, ChildUnderFile, MutualExclusion, Writer
<1> QED BY <1>1, TypeCorrect, LockInvariant, ChildInvariant, PTL

\* A confirmed recovery removes the owner the person was shown and no other.
THEOREM OnlyShownOwnerRemoved ==
    ASSUME ManualPidsNotReused
    PROVE  Spec => OnlyListedOwnerRemoved
<1> DEFINE A == \A r \in Request :
          request[r] # None /\ request'[r] = None /\ lockFile' # lockFile
          => lockFile = request[r]
<1>1. TypeOK /\ ChildInv /\ [Next]_vars => [A]_vars
  <2> SUFFICES ASSUME TypeOK, ChildInv, Next, NEW r \in Request,
                      request[r] # None, request'[r] = None, lockFile' # lockFile
               PROVE  lockFile = request[r]
    OBVIOUS
  <2>1. ~ \E c \in Call : Begin(c) \/ AcquireStep(c) \/ CrashWhileCreating(c) \/ HolderStep(c)
    BY DEF Begin, AcquireStep, Attempt, Create, AttemptFails, WaitForGrace, RefuseDeadOwner,
           KeepOwner, ReclaimDeadOwner, UnlinkOwner, ReclaimStaleBare, WaitForOwner, GiveUp, CrashWhileCreating,
           HolderStep, SpawnDescendant, DescendantEnds, Release, ReleaseReturns, ReleaseThrows, Refresh
  <2>2. PICK q \in Request : RecoverDeadManualFileLock(q)
    BY <2>1 DEF Next, StartProc, Crash, Tick, MtimeAges, Confirm
  <2>3. q = r
    BY <2>2 DEF RecoverDeadManualFileLock, TypeOK
  <2> QED
    BY <2>2, <2>3, RequestHitsShown DEF RecoverDeadManualFileLock, ChildInv
<1> QED BY <1>1, TypeCorrect, ChildInvariant, PTL DEF Spec, OnlyListedOwnerRemoved

-----------------------------------------------------------------------------
(* The file implements PartLock.                                           *)

\* A step that leaves the holder as it is, starts no use and ends none, and brings
\* no process back.
LEMMA HolderRests ==
    ASSUME UNCHANGED FileHolder,
           \A c \in Call : pc'[c] = "held" <=> pc[c] = "held",
           \A c \in Call : proc[ProcOf[c]] = "dead" => proc'[ProcOf[c]] = "dead"
    PROVE  Part!Next
BY DEF Part!Next, Part!End

\* A file that is removed named an owner that ended, or nobody.
LEMMA FileRemoved ==
    ASSUME TypeOK, FileOwnerStarted, lockFile = Bare \/ DeadOwner(lockFile),
           lockFile' = NoFile, UNCHANGED proc,
           \A c \in Call : pc'[c] = "held" <=> pc[c] = "held"
    PROVE  Part!Next
<1> USE ConfigAssumption, DistinctAssumption
<1>1. FileHolder' = NoFile
  BY DEF FileHolder
<1>2. FileHolder = Bare \/ (FileHolder \in Call /\ proc[ProcOf[FileHolder]] = "dead")
  BY DeadOwnerNotLive DEF FileHolder, FileOwnerStarted, TypeOK
<1>3. Part!Clear \/ Part!Recover
  BY <1>1, <1>2 DEF Part!Clear, Part!Recover
<1> QED BY <1>3 DEF Part!Next

\* A creation is cut short: what it leaves is nobody's, as its call never gets the
\* lock.
LEMMA CreationCut ==
    ASSUME TypeOK, NEW c \in Call, pc[c] = "trying", pc'[c] \in {"trying", "failed"},
           lockFile = NoFile, lockFile' \in {Bare, c},
           \A d \in Call : pc'[d] = "held" <=> pc[d] = "held",
           \A d \in Call : proc[ProcOf[d]] = "dead" => proc'[ProcOf[d]] = "dead"
    PROVE  Part!Next
<1>1. FileHolder = NoFile /\ FileHolder' = Bare
  BY DistinctAssumption DEF FileHolder
<1>2. Part!Cut
  BY <1>1 DEF Part!Cut, Part!End
<1> QED BY <1>2 DEF Part!Next

\* The steps of processes, time and persons.
LEMMA EnvironmentPart ==
    ASSUME TypeOK, FileOwnerStarted,
           \/ \E p \in Proc : StartProc(p) \/ Crash(p)
           \/ Tick \/ MtimeAges
           \/ \E r \in Request : Confirm(r) \/ RecoverDeadManualFileLock(r)
    PROVE  Part!Next
<1>1. ASSUME NEW p \in Proc, StartProc(p) \/ Crash(p) PROVE Part!Next
  <2>1. UNCHANGED <<lockFile, pc>>
    BY <1>1 DEF StartProc, Crash
  <2>2. \A c \in Call : proc[ProcOf[c]] = "dead" => proc'[ProcOf[c]] = "dead"
    BY <1>1, ConfigAssumption DEF StartProc, Crash, TypeOK
  <2> QED BY <2>1, <2>2, HolderRests DEF FileHolder
<1>2. CASE Tick \/ MtimeAges \/ \E r \in Request : Confirm(r)
  BY <1>2, HolderRests DEF Tick, MtimeAges, Confirm, FileHolder
<1>3. ASSUME NEW r \in Request, RecoverDeadManualFileLock(r) PROVE Part!Next
  <2>1. UNCHANGED <<proc, pc>>
    BY <1>3 DEF RecoverDeadManualFileLock
  <2>2. CASE UNCHANGED lockFile
    BY <2>1, <2>2, HolderRests DEF FileHolder
  <2>3. CASE lockFile' # lockFile
    <3>1. DeadOwner(lockFile) /\ lockFile' = NoFile
      BY <1>3, <2>3 DEF RecoverDeadManualFileLock
    <3> QED BY <2>1, <3>1, FileRemoved
  <2> QED BY <2>2, <2>3
<1> QED BY <1>1, <1>2, <1>3

\* The steps of a call.
LEMMA CallPart ==
    ASSUME TypeOK, FileOwnerStarted, NEW c \in Call,
           Begin(c) \/ AcquireStep(c) \/ CrashWhileCreating(c) \/ HolderStep(c)
    PROVE  Part!Next
<1> USE ConfigAssumption, DistinctAssumption DEF TypeOK
<1>1. CASE Begin(c) \/ GiveUp(c)
  <2>1. UNCHANGED <<lockFile, proc>> /\ UNCHANGED FileHolder
    BY <1>1 DEF Begin, GiveUp, FileHolder
  <2>2. \A d \in Call : pc'[d] = "held" <=> pc[d] = "held"
    BY <1>1 DEF Begin, GiveUp
  <2> QED BY <2>1, <2>2, HolderRests
<1>2. CASE Create(c)
  <2>1. /\ FileHolder = NoFile /\ FileHolder' = c
        /\ {d \in Call : pc'[d] = "held"} = {d \in Call : pc[d] = "held"} \cup {c}
        /\ UNCHANGED proc /\ proc[ProcOf[c]] # "dead"
    BY <1>2 DEF Create, Attempt, Live, FileHolder
  <2>2. Part!Take(c)
    BY <2>1 DEF Part!Take
  <2> QED BY <2>1, <2>2 DEF Part!Next
<1>3. CASE AttemptFails(c)
  <2>1. /\ pc[c] = "trying" /\ pc' = [pc EXCEPT ![c] = "failed"] /\ UNCHANGED proc
        /\ lockFile' = lockFile \/ (lockFile = NoFile /\ lockFile' \in {Bare, c})
    BY <1>3 DEF AttemptFails, Attempt
  <2>2. CASE lockFile' = lockFile
    <3>1. UNCHANGED FileHolder
      BY <2>1, <2>2 DEF FileHolder
    <3> QED BY <2>1, <3>1, HolderRests
  <2>3. CASE lockFile = NoFile /\ lockFile' \in {Bare, c}
    BY <2>1, <2>3, CreationCut
  <2> QED BY <2>1, <2>2, <2>3
<1>4. CASE WaitForGrace(c) \/ RefuseDeadOwner(c) \/ WaitForOwner(c)
  BY <1>4, HolderRests DEF WaitForGrace, RefuseDeadOwner, KeepOwner, WaitForOwner, Attempt,
                           FileHolder
<1>5. CASE ReclaimDeadOwner(c)
  <2>1. DeadOwner(lockFile) /\ lockFile' = NoFile /\ UNCHANGED proc
    BY <1>5 DEF ReclaimDeadOwner, WindowOver, UnlinkOwner, Attempt
  <2>2. \A d \in Call : pc'[d] = "held" <=> pc[d] = "held"
    BY <1>5 DEF ReclaimDeadOwner, UnlinkOwner, Attempt
  <2> QED BY <2>1, <2>2, FileRemoved
<1>6. CASE ReclaimStaleBare(c)
  BY <1>6, FileRemoved DEF ReclaimStaleBare, Attempt
<1>7. CASE CrashWhileCreating(c)
  BY <1>7, CreationCut DEF CrashWhileCreating
<1>8. CASE SpawnDescendant(c) \/ DescendantEnds(c) \/ Refresh(c)
  BY <1>8, HolderRests DEF SpawnDescendant, DescendantEnds, Refresh, FileHolder
<1>9. CASE ReleaseReturns(c) \/ ReleaseThrows(c)
  <2>1. /\ proc[ProcOf[c]] = "live" /\ UNCHANGED proc
        /\ pc[c] \in {"held", "released"} /\ pc' = [pc EXCEPT ![c] = "released"]
        /\ lockFile' = lockFile \/ (lockFile = c /\ lockFile' = NoFile)
    BY <1>9 DEF ReleaseReturns, ReleaseThrows, Live
  <2>2. FileHolder' = FileHolder \/ (FileHolder = c /\ FileHolder' = NoFile)
    BY <2>1 DEF FileHolder
  <2>3. {d \in Call : pc'[d] = "held"} = {d \in Call : pc[d] = "held"} \ {c}
    BY <2>1
  <2>4. Part!GiveBack(c)
    BY <2>1, <2>2, <2>3 DEF Part!GiveBack
  <2> QED BY <2>1, <2>4 DEF Part!Next
<1> QED
  BY <1>1, <1>2, <1>3, <1>4, <1>5, <1>6, <1>7, <1>8, <1>9
  DEF AcquireStep, HolderStep, Release

\* The owned file lock is a PartLock, for every mix of recovery classes and every way
\* of giving out identifiers: attempts, windows, proofs and persons only decide when
\* the lock of an owner that ended is taken from it.
THEOREM FileIsPartLock == Spec => ImplementsPartLock
<1>1. Init => Part!Init
  BY DistinctAssumption, ConfigAssumption DEF Init, Part!Init, FileHolder
<1>2. TypeOK /\ LockInv /\ [Next]_vars => [Part!Next]_(Part!vars)
  <2>1. ASSUME TypeOK, LockInv, Next PROVE Part!Next
    BY <2>1, EnvironmentPart, CallPart DEF Next, LockInv
  <2>2. ASSUME UNCHANGED vars PROVE UNCHANGED Part!vars
    BY <2>2 DEF vars, Part!vars, FileHolder
  <2> QED BY <2>1, <2>2
<1> QED
  BY <1>1, <1>2, TypeCorrect, LockInvariant, PTL DEF Spec, ImplementsPartLock, Part!Spec

=============================================================================
