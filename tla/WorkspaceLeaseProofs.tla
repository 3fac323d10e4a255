------------------------- MODULE WorkspaceLeaseProofs -------------------------
(***************************************************************************)
(* Proofs about WorkspaceLease, for every set of leases, processes,        *)
(* directories and Git families.                                           *)
(***************************************************************************)
EXTENDS WorkspaceLease, TLAPS

USE DEF Goto

-----------------------------------------------------------------------------
(* Type correctness.                                                       *)

\* Init establishes the type invariant.
LEMMA InitType == Init => TypeOK
BY WorkspaceAssumption DEF Init, TypeOK, Key, Part, State, Code

\* A release of parts keeps locks and held parts what they are.
LEMMA ReleasePartsType ==
    ASSUME TypeOK, NEW l \in Lease, NEW ks, NEW thrown, ReleaseParts(l, ks, thrown)
    PROVE  /\ lock' \in [Key -> Lease \cup {Free, Debris}]
           /\ held' \subseteq Part
BY DEF TypeOK, ReleaseParts

\* So does the cleanup of a partial lease.
LEMMA CleanupType ==
    ASSUME TypeOK, NEW l \in Lease, NEW error \in Code, CleanupPartialLease(l, error)
    PROVE  TypeOK'
<1>1. PICK thrown \in SUBSET parts[l] :
          /\ ReleaseParts(l, parts[l], thrown)
          /\ code' = [code EXCEPT ![l] =
                IF Certain(l, parts[l], thrown) THEN error ELSE "IO"]
          /\ parts' = [parts EXCEPT ![l] = {}]
          /\ wanted' = [wanted EXCEPT ![l] = NoGit]
          /\ Goto(l, "refused")
          /\ UNCHANGED <<git, proc, degraded>>
  BY DEF CleanupPartialLease
<1>2. lock' \in [Key -> Lease \cup {Free, Debris}] /\ held' \subseteq Part
  BY <1>1, ReleasePartsType
<1>3. code' \in [Lease -> Code]
  BY <1>1 DEF TypeOK, Code
<1>4. /\ parts' \in [Lease -> SUBSET Key] /\ st' \in [Lease -> State]
      /\ wanted' \in [Lease -> Family \cup {NoGit}]
  BY <1>1 DEF TypeOK, State
<1> QED
  BY <1>1, <1>2, <1>3, <1>4 DEF TypeOK

\* The directory and the family of a lease are keys.
LEMMA KeysOfLease ==
    ASSUME TypeOK, NEW l \in Lease
    PROVE  /\ DirOf[l] \in Key
           /\ wanted[l] # NoGit => wanted[l] \in Family /\ wanted[l] \in Key
BY WorkspaceAssumption DEF TypeOK, Key

\* Every error an acquisition is refused with is a code.
LEMMA RefusalIsCode == Refusals \subseteq Code
BY DEF Refusals, Code

\* The steps of an acquisition preserve the type invariant.
LEMMA AcquireType ==
    ASSUME TypeOK, FamilyNamed, NEW l \in Lease, AcquireStep(l)
    PROVE  TypeOK'
<1> USE KeysOfLease
<1>1. CASE AcquireDirectory(l)
  BY <1>1 DEF AcquireDirectory, TakePart, TypeOK, Part, State
<1>2. CASE Ask(l) \/ DirectoryRefused(l)
  BY <1>2, RefusalIsCode DEF Ask, DirectoryRefused, TypeOK, State
<1>8. CASE DirectoryCut(l) \/ FamilyCut(l)
  BY <1>8 DEF DirectoryCut, FamilyCut, LeaveDebris, TypeOK, State
<1>3. CASE ProbeFamily(l)
  BY <1>3, WorkspaceAssumption DEF ProbeFamily, TypeOK, State
<1>4. CASE ProbeFails(l)
  <2>1. "IO" \in Code
    BY DEF Code
  <2> QED BY <1>4, <2>1, CleanupType DEF ProbeFails
<1>5. CASE AcquireFamily(l)
  <2>1. wanted[l] \in Key
    BY <1>5 DEF AcquireFamily, FamilyNamed, Key
  <2> QED BY <1>5, <2>1 DEF AcquireFamily, TakePart, TypeOK, Part, State
<1>6. CASE FamilyRefused(l)
  BY <1>6, RefusalIsCode, CleanupType DEF FamilyRefused
<1>7. CASE Reprobe(l)
  <2>1. CASE CleanupPartialLease(l, "OTHER")
    <3>1. "OTHER" \in Code
      BY DEF Code
    <3> QED BY <2>1, <3>1, CleanupType
  <2>2. CASE Goto(l, "full") /\ UNCHANGED <<lock, git, proc, degraded, wanted, parts, code, held>>
    BY <2>2 DEF TypeOK, State
  <2> QED BY <1>7, <2>1, <2>2 DEF Reprobe
<1> QED
  BY <1>1, <1>2, <1>3, <1>4, <1>5, <1>6, <1>7, <1>8 DEF AcquireStep

\* The steps of a promotion preserve it.
LEMMA PromoteType ==
    ASSUME TypeOK, FamilyNamed, NEW l \in Lease, PromoteStep(l)
    PROVE  TypeOK'
<1>1. CASE Promote(l)
  BY <1>1, WorkspaceAssumption DEF Promote, TypeOK, State
<1>2. CASE PromoteAcquire(l)
  <2>1. wanted[l] \in Key
    BY <1>2 DEF PromoteAcquire, FamilyNamed, Key
  <2> QED BY <1>2, <2>1 DEF PromoteAcquire, TypeOK, Part, State
<1>3. CASE PromoteRefused(l)
  BY <1>3 DEF PromoteRefused, TypeOK, State
<1>6. CASE PromoteCut(l)
  BY <1>6 DEF PromoteCut, LeaveDebris, TypeOK, State
<1>4. CASE PromoteReprobe(l)
  <2>1. wanted[l] \in Key
    BY <1>4 DEF PromoteReprobe, FamilyNamed, Key
  <2> QED BY <1>4, <2>1 DEF PromoteReprobe, TypeOK, State
<1>5. CASE PromoteFails(l)
  <2>1. wanted[l] \in Key
    BY <1>5 DEF PromoteFails, FamilyNamed, Key
  <2>2. PICK thrown \in SUBSET {wanted[l]} : ReleaseParts(l, {wanted[l]}, thrown)
    BY <1>5 DEF PromoteFails
  <2>3. lock' \in [Key -> Lease \cup {Free, Debris}] /\ held' \subseteq Part
    BY <2>2, ReleasePartsType
  <2>4. parts' \in [Lease -> SUBSET Key] /\ st' \in [Lease -> State]
    BY <1>5, <2>1 DEF PromoteFails, TypeOK, State
  <2> QED BY <1>5, <2>3, <2>4 DEF PromoteFails, TypeOK
<1> QED
  BY <1>1, <1>2, <1>3, <1>4, <1>5, <1>6 DEF PromoteStep

\* So do releases, processes, persons and other programs.
LEMMA OtherType ==
    ASSUME TypeOK,
           \/ \E l \in Lease : Release(l) \/ ReleaseWhilePromoting(l)
           \/ \E p \in Proc : CloseAdmission(p) \/ DrainedExit(p) \/ Die(p)
           \/ \E k \in Key : RecoverOrphan(k) \/ DebrisRemoved(k)
           \/ \E d \in Directory, f \in Family \cup {NoGit} : GitChanges(d, f)
    PROVE  TypeOK'
<1>1. ASSUME NEW l \in Lease, Release(l) PROVE TypeOK'
  <2>1. PICK thrown \in SUBSET parts[l] : ReleaseParts(l, parts[l], thrown)
    BY <1>1 DEF Release
  <2>2. lock' \in [Key -> Lease \cup {Free, Debris}] /\ held' \subseteq Part
    BY <2>1, ReleasePartsType
  <2>3. \E s \in State : st' = [st EXCEPT ![l] = s]
    BY <1>1 DEF Release, Goto, State
  <2>4. degraded' \subseteq Proc
    <3>1. degraded' = degraded \/ degraded' = degraded \cup {ProcOf[l]}
      BY <1>1 DEF Release
    <3> QED BY <3>1, WorkspaceAssumption DEF TypeOK
  <2>5. wanted' \in [Lease -> Family \cup {NoGit}]
    BY <1>1 DEF Release, TypeOK
  <2> QED BY <1>1, <2>2, <2>3, <2>4, <2>5 DEF Release, TypeOK
<1>2. ASSUME NEW l \in Lease, ReleaseWhilePromoting(l) PROVE TypeOK'
  BY <1>2, WorkspaceAssumption DEF ReleaseWhilePromoting, TypeOK
<1>3. ASSUME NEW p \in Proc, CloseAdmission(p) \/ DrainedExit(p) \/ Die(p) PROVE TypeOK'
  BY <1>3 DEF CloseAdmission, DrainedExit, Die, Ends, TypeOK, State, Code
<1>4. ASSUME NEW k \in Key, RecoverOrphan(k) \/ DebrisRemoved(k) PROVE TypeOK'
  BY <1>4 DEF RecoverOrphan, DebrisRemoved, TypeOK
<1>5. ASSUME NEW d \in Directory, NEW f \in Family \cup {NoGit}, GitChanges(d, f) PROVE TypeOK'
  BY <1>5 DEF GitChanges, TypeOK
<1> QED BY <1>1, <1>2, <1>3, <1>4, <1>5

-----------------------------------------------------------------------------
(* Directories and families are held to themselves.                        *)

\* Init establishes the invariant: there is no lease yet.
LEMMA InitExclusion == Init => ExclusionInv
BY DEF Init, ExclusionInv, DirectoryLocked, FamilyNamed, FamilyLocked, Holding

\* A release of parts touches locks of its own lease only.
LEMMA ReleaseOwnOnly ==
    ASSUME TypeOK, NEW l \in Lease, NEW ks, NEW thrown, ReleaseParts(l, ks, thrown),
           NEW m \in Lease, m # l, NEW k \in Key, lock[k] = m
    PROVE  lock'[k] = m
BY DEF ReleaseParts

\* The cleanup of a partial lease preserves the invariant: the lease holds
\* nothing any more, and others keep what they have.
LEMMA CleanupExclusion ==
    ASSUME TypeOK, ExclusionInv, NEW l \in Lease, NEW error, CleanupPartialLease(l, error)
    PROVE  ExclusionInv'
<1>1. PICK thrown \in SUBSET parts[l] : ReleaseParts(l, parts[l], thrown)
  BY DEF CleanupPartialLease
<1>2. /\ st' = [st EXCEPT ![l] = "refused"] /\ wanted' = [wanted EXCEPT ![l] = NoGit]
      /\ UNCHANGED <<git, proc>>
  BY DEF CleanupPartialLease
<1>3. ASSUME NEW m \in Lease, m # l, NEW k \in Key, lock[k] = m PROVE lock'[k] = m
  BY <1>1, <1>3, ReleaseOwnOnly
<1>4. DirectoryLocked'
  BY <1>2, <1>3, WorkspaceAssumption
     DEF TypeOK, ExclusionInv, DirectoryLocked, Holding, Alive, Key
<1>5. FamilyNamed'
  BY <1>2 DEF TypeOK, ExclusionInv, FamilyNamed
<1>6. FamilyLocked'
  BY <1>2, <1>3 DEF TypeOK, ExclusionInv, FamilyNamed, FamilyLocked, Alive, Key
<1> QED BY <1>4, <1>5, <1>6 DEF ExclusionInv

\* A lock that is taken was free, hence nobody else's.
LEMMA AcquireExclusion ==
    ASSUME TypeOK, ExclusionInv, NEW l \in Lease, AcquireStep(l)
    PROVE  ExclusionInv'
<1> USE WorkspaceAssumption
    DEF TypeOK, ExclusionInv, DirectoryLocked, FamilyNamed, FamilyLocked, Holding, Alive, Key
<1>1. CASE AcquireDirectory(l)
  BY <1>1 DEF AcquireDirectory, TakePart
<1>2. CASE Ask(l) \/ DirectoryRefused(l)
  BY <1>2 DEF Ask, DirectoryRefused
<1>8. CASE DirectoryCut(l) \/ FamilyCut(l)
  BY <1>8 DEF DirectoryCut, FamilyCut, LeaveDebris
<1>3. CASE ProbeFamily(l)
  BY <1>3 DEF ProbeFamily
<1>4. CASE ProbeFails(l)
  BY <1>4, CleanupExclusion DEF ProbeFails
<1>5. CASE AcquireFamily(l)
  BY <1>5 DEF AcquireFamily, TakePart
<1>6. CASE FamilyRefused(l)
  BY <1>6, CleanupExclusion DEF FamilyRefused
<1>7. CASE Reprobe(l)
  <2>1. CASE CleanupPartialLease(l, "OTHER")
    BY <2>1, CleanupExclusion
  <2>2. CASE /\ git[DirOf[l]] = wanted[l]
             /\ Goto(l, "full")
             /\ UNCHANGED <<lock, git, proc, degraded, wanted, parts, code, held>>
    BY <1>7, <2>2 DEF Reprobe
  <2> QED BY <1>7, <2>1, <2>2 DEF Reprobe
<1> QED
  BY <1>1, <1>2, <1>3, <1>4, <1>5, <1>6, <1>7, <1>8 DEF AcquireStep

\* A promotion that fails gives back the lock of the family, which is not the
\* lock of the directory.
LEMMA PromoteExclusion ==
    ASSUME TypeOK, ExclusionInv, NEW l \in Lease, PromoteStep(l)
    PROVE  ExclusionInv'
<1> USE WorkspaceAssumption
    DEF TypeOK, ExclusionInv, DirectoryLocked, FamilyNamed, FamilyLocked, Holding, Alive, Key
<1>1. CASE Promote(l)
  BY <1>1 DEF Promote
<1>2. CASE PromoteAcquire(l)
  BY <1>2 DEF PromoteAcquire
<1>3. CASE PromoteRefused(l)
  BY <1>3 DEF PromoteRefused
<1>6. CASE PromoteCut(l)
  BY <1>6 DEF PromoteCut, LeaveDebris
<1>4. CASE PromoteReprobe(l)
  BY <1>4 DEF PromoteReprobe
<1>5. CASE PromoteFails(l)
  <2>1. PICK thrown \in SUBSET {wanted[l]} : ReleaseParts(l, {wanted[l]}, thrown)
    BY <1>5 DEF PromoteFails
  <2>2. UNCHANGED <<git, proc, wanted>> /\ st[l] = "promoteReprobing"
    BY <1>5 DEF PromoteFails
  <2>3. /\ st' \in [Lease -> State]
        /\ st'[l] \in {"directory", "uncertain"}
        /\ \A m \in Lease : m # l => st'[m] = st[m]
    BY <1>5 DEF PromoteFails, State
  <2>4. ASSUME NEW m \in Lease, m # l, NEW k \in Key, lock[k] = m PROVE lock'[k] = m
    BY <2>1, <2>4, ReleaseOwnOnly
  <2>5. lock'[DirOf[l]] = lock[DirOf[l]]
    BY <2>1, <2>2 DEF ReleaseParts
  <2>6. DirectoryLocked'
    BY <2>2, <2>3, <2>4, <2>5
  <2>7. FamilyNamed'
    BY <2>2, <2>3
  <2>8. FamilyLocked'
    BY <2>2, <2>3, <2>4
  <2> QED BY <2>6, <2>7, <2>8
<1> QED
  BY <1>1, <1>2, <1>3, <1>4, <1>5, <1>6 DEF PromoteStep

\* A recovered lock was that of a dead process, and whatever happens to the
\* repositories takes no lock away.
LEMMA OtherExclusion ==
    ASSUME TypeOK, ExclusionInv,
           \/ \E l \in Lease : Release(l) \/ ReleaseWhilePromoting(l)
           \/ \E p \in Proc : CloseAdmission(p) \/ DrainedExit(p) \/ Die(p)
           \/ \E k \in Key : RecoverOrphan(k) \/ DebrisRemoved(k)
           \/ \E d \in Directory, f \in Family \cup {NoGit} : GitChanges(d, f)
    PROVE  ExclusionInv'
<1> USE WorkspaceAssumption
    DEF TypeOK, ExclusionInv, DirectoryLocked, FamilyNamed, FamilyLocked, Holding, Alive, Key
<1>1. ASSUME NEW l \in Lease, Release(l) PROVE ExclusionInv'
  <2>1. PICK thrown \in SUBSET parts[l] : ReleaseParts(l, parts[l], thrown)
    BY <1>1 DEF Release
  <2>2. wanted' = [wanted EXCEPT ![l] = NoGit] /\ UNCHANGED <<git, proc>>
    BY <1>1 DEF Release
  <2>3. /\ st' \in [Lease -> State]
        /\ st'[l] \in {"released", "uncertain"}
        /\ \A m \in Lease : m # l => st'[m] = st[m]
    BY <1>1 DEF Release, State
  <2>4. ASSUME NEW m \in Lease, m # l, NEW k \in Key, lock[k] = m PROVE lock'[k] = m
    BY <2>1, <2>4, ReleaseOwnOnly
  <2>5. DirectoryLocked'
    BY <2>2, <2>3, <2>4
  <2>6. FamilyNamed'
    BY <2>2, <2>3
  <2>7. FamilyLocked'
    BY <2>2, <2>3, <2>4
  <2> QED BY <2>5, <2>6, <2>7
<1>2. ASSUME NEW l \in Lease, ReleaseWhilePromoting(l) PROVE ExclusionInv'
  BY <1>2 DEF ReleaseWhilePromoting
<1>3. ASSUME NEW p \in Proc, CloseAdmission(p) \/ DrainedExit(p) \/ Die(p)
      PROVE  ExclusionInv'
  BY <1>3 DEF CloseAdmission, DrainedExit, Die, Ends
<1>4. ASSUME NEW k \in Key, RecoverOrphan(k) \/ DebrisRemoved(k) PROVE ExclusionInv'
  BY <1>4 DEF RecoverOrphan, DebrisRemoved
<1>5. ASSUME NEW d \in Directory, NEW f \in Family \cup {NoGit}, GitChanges(d, f)
      PROVE  ExclusionInv'
  BY <1>5 DEF GitChanges
<1> QED BY <1>1, <1>2, <1>3, <1>4, <1>5

\* Every value of every variable has its type, and the exclusion invariant
\* holds: who acts on a directory has its lock, and the lock of the family its
\* directory is in.
THEOREM ExclusionInvariant == Spec => [](TypeOK /\ ExclusionInv)
<1>1. Init => TypeOK /\ ExclusionInv
  BY InitType, InitExclusion
<1>2. TypeOK /\ ExclusionInv /\ [Next]_vars => (TypeOK /\ ExclusionInv)'
  <2> SUFFICES ASSUME TypeOK, ExclusionInv, [Next]_vars PROVE (TypeOK /\ ExclusionInv)'
    OBVIOUS
  <2>1. CASE UNCHANGED vars
    BY <2>1 DEF vars, TypeOK, ExclusionInv, DirectoryLocked, FamilyNamed, FamilyLocked, Alive
  <2>2. ASSUME NEW l \in Lease, AcquireStep(l) PROVE (TypeOK /\ ExclusionInv)'
    BY <2>2, AcquireType, AcquireExclusion DEF ExclusionInv
  <2>3. ASSUME NEW l \in Lease, PromoteStep(l) PROVE (TypeOK /\ ExclusionInv)'
    BY <2>3, PromoteType, PromoteExclusion DEF ExclusionInv
  <2>4. ASSUME \/ \E l \in Lease : Release(l) \/ ReleaseWhilePromoting(l)
               \/ \E p \in Proc : CloseAdmission(p) \/ DrainedExit(p) \/ Die(p)
               \/ \E k \in Key : RecoverOrphan(k) \/ DebrisRemoved(k)
               \/ \E d \in Directory, f \in Family \cup {NoGit} : GitChanges(d, f)
        PROVE  (TypeOK /\ ExclusionInv)'
    BY <2>4, OtherType, OtherExclusion
  <2> QED BY <2>1, <2>2, <2>3, <2>4 DEF Next
<1> QED BY <1>1, <1>2, PTL DEF Spec

\* Every value of every variable has its type.
THEOREM TypeCorrect == Spec => []TypeOK
BY ExclusionInvariant, PTL

\* The lease that becomes complete has seen its family under that family's lock.
LEMMA CompletesLocked ==
    ASSUME TypeOK, ExclusionInv, Next, NEW l \in Lease, ~Complete(l), Complete(l)'
    PROVE  /\ lock[DirOf[l]] = l
           /\ git[DirOf[l]] = NoGit \/ lock[git[DirOf[l]]] = l
<1> USE DEF Complete, Alive, Goto, TypeOK
<1>1. PICK m \in Lease : ProbeFamily(m) \/ Reprobe(m) \/ PromoteReprobe(m)
  <2>1. ASSUME NEW m \in Lease, AcquireStep(m)
        PROVE  ProbeFamily(m) \/ Reprobe(m)
    BY <2>1 DEF AcquireStep, Ask, AcquireDirectory, DirectoryRefused, ProbeFails, AcquireFamily,
                FamilyRefused, DirectoryCut, FamilyCut, LeaveDebris,
                CleanupPartialLease
  <2>2. ASSUME NEW m \in Lease, PromoteStep(m) PROVE PromoteReprobe(m)
    BY <2>2 DEF PromoteStep, Promote, PromoteAcquire, PromoteRefused, PromoteCut,
                LeaveDebris, PromoteFails
  <2>3. ASSUME NEW m \in Lease, Release(m) PROVE FALSE
    <3>1. st'[l] = st[l] \/ st'[l] \in {"released", "uncertain"}
      BY <2>3 DEF Release
    <3> QED BY <2>3, <3>1 DEF Release
  <2>4. ASSUME NEW p \in Proc, CloseAdmission(p) \/ DrainedExit(p) \/ Die(p) PROVE FALSE
    BY <2>4, WorkspaceAssumption DEF CloseAdmission, DrainedExit, Die, Ends
  <2>5. ASSUME UNCHANGED <<st, proc>> PROVE FALSE
    BY <2>5
  <2> QED
    BY <2>1, <2>2, <2>3, <2>4, <2>5 DEF Next, ReleaseWhilePromoting, RecoverOrphan,
                                     DebrisRemoved, GitChanges
<1>2. m = l /\ st[l] \in {"probing", "reprobing", "promoteReprobing"} /\ Alive(l)
  BY <1>1 DEF ProbeFamily, Reprobe, PromoteReprobe, CleanupPartialLease
<1>3. lock[DirOf[l]] = l
  BY <1>2 DEF ExclusionInv, DirectoryLocked, Holding
<1>4. CASE ProbeFamily(l)
  BY <1>3, <1>4 DEF ProbeFamily
<1>5. CASE Reprobe(l) \/ PromoteReprobe(l)
  BY <1>3, <1>5 DEF Reprobe, PromoteReprobe, CleanupPartialLease, ExclusionInv, FamilyLocked
<1> QED BY <1>1, <1>2, <1>4, <1>5

\* No lease becomes complete in the directory or the family of a complete one,
\* be they handles of one sidecar or of several.
THEOREM FamiliesExclude == Spec => FamilyExclusive
<1> DEFINE A == \A l, m \in Lease :
          ~Complete(l) /\ Complete(l)' /\ Complete(m) /\ git[DirOf[m]] = wanted[m]
          => /\ DirOf[l] # DirOf[m]
             /\ git[DirOf[l]] = NoGit \/ git[DirOf[l]] # git[DirOf[m]]
<1>1. TypeOK /\ ExclusionInv /\ [Next]_vars => [A]_vars
  <2> SUFFICES ASSUME TypeOK, ExclusionInv, Next, NEW l \in Lease, NEW m \in Lease,
                      ~Complete(l), Complete(l)', Complete(m), git[DirOf[m]] = wanted[m]
               PROVE  /\ DirOf[l] # DirOf[m]
                      /\ git[DirOf[l]] = NoGit \/ git[DirOf[l]] # git[DirOf[m]]
    OBVIOUS
  <2>1. l # m
    OBVIOUS
  <2>2. /\ lock[DirOf[l]] = l
        /\ git[DirOf[l]] = NoGit \/ lock[git[DirOf[l]]] = l
    BY CompletesLocked
  <2>3. /\ lock[DirOf[m]] = m
        /\ git[DirOf[m]] = NoGit \/ lock[git[DirOf[m]]] = m
    BY DEF ExclusionInv, DirectoryLocked, FamilyLocked, Holding, Complete
  <2> QED BY <2>1, <2>2, <2>3
<1> QED BY <1>1, ExclusionInvariant, PTL DEF Spec, FamilyExclusive

\* A living reservation keeps the lock of its directory through every way its
\* promotion may end.
THEOREM ReservationIsKept == Spec => []ReservationKeepsDirectory
<1>1. TypeOK /\ ExclusionInv => ReservationKeepsDirectory
  BY WorkspaceAssumption
     DEF ExclusionInv, DirectoryLocked, Holding, ReservationKeepsDirectory
<1> QED BY <1>1, ExclusionInvariant, PTL

-----------------------------------------------------------------------------
(* Nothing is left behind unnoticed.                                       *)

\* Init establishes the invariant: no lock is taken.
LEMMA InitCleanup == Init => CleanupInv
BY WorkspaceAssumption
   DEF Init, CleanupInv, PartsKnown, NothingTaken, MemoryEnds,
       HeldCounted, Alive, Key

\* What a step of one lease needs to show: the locks it takes are its own, known
\* to its handle and counted, and others keep what they have.
LEMMA OwnStepCleanup ==
    ASSUME TypeOK, CleanupInv, NEW l \in Lease, Alive(l), UNCHANGED proc,
           \A m \in Lease \ {l} :
               st'[m] = st[m] /\ code'[m] = code[m] /\ parts'[m] = parts[m],
           \A m \in Lease \ {l}, k \in Key :
               <<m, k>> \in held => <<m, k>> \in held',
           lock' \in [Key -> Lease \cup {Free, Debris}],
           \A k \in Key : lock'[k] # lock[k] => lock'[k] \in {l, Free, Debris},
           \A k \in Key : lock'[k] = l =>
               /\ \/ k \in parts'[l]
                  \/ st'[l] = "promoteReprobing" /\ k = wanted'[l]
                  \/ MayLinger(l)'
               /\ st'[l] # "released"
               /\ <<l, k>> \in held' \/ st'[l] = "uncertain" \/ MayLinger(l)',
           st'[l] \in {"idle", "asking", "refused"} => parts'[l] = {},
           \A m \in Lease \ {l} : wanted'[m] = wanted[m]
    PROVE  CleanupInv'
<1> USE WorkspaceAssumption
<1>1. ASSUME NEW m \in Lease \ {l}, NEW k \in Key, lock'[k] = m PROVE lock[k] = m
  BY <1>1
<1>2. PartsKnown'
  <2> SUFFICES ASSUME NEW m \in Lease, NEW k \in Key, lock'[k] = m, Alive(m)'
               PROVE  \/ k \in parts'[m]
                      \/ st'[m] = "promoteReprobing" /\ k = wanted'[m]
                      \/ MayLinger(m)'
    BY DEF PartsKnown
  <2>1. CASE m = l
    BY <2>1
  <2>2. CASE m # l
    <3>1. lock[k] = m /\ Alive(m)
      BY <1>1, <2>2 DEF Alive
    <3> QED BY <2>2, <3>1 DEF CleanupInv, PartsKnown, MayLinger
  <2> QED BY <2>1, <2>2
<1>5. MemoryEnds'
  BY DEF CleanupInv, MemoryEnds, Alive
<1>3. NothingTaken'
  <2>1. \A m \in Lease : st'[m] \in {"idle", "asking", "refused"} => parts'[m] = {}
    BY DEF CleanupInv, NothingTaken
  <2>2. ASSUME NEW m \in Lease \ {l}, st'[m] = "released", NEW k \in Key
        PROVE  lock'[k] # m
    BY <1>1, <2>2 DEF CleanupInv, NothingTaken
  <2>3. ASSUME st'[l] = "released", NEW k \in Key PROVE lock'[k] # l
    BY <2>3
  <2> QED BY <2>1, <2>2, <2>3 DEF NothingTaken
<1>4. HeldCounted'
  BY <1>1 DEF CleanupInv, HeldCounted, MayLinger, Alive
<1> QED BY <1>2, <1>3, <1>4, <1>5 DEF CleanupInv

\* The cleanup of a partial lease: when it was certain, all its parts are gone;
\* when not, the error says so.
LEMMA CleanupCleanup ==
    ASSUME TypeOK, CleanupInv, NEW l \in Lease, NEW error \in Code, Alive(l),
           st[l] \in {"probing", "family", "reprobing", "failing"},
           CleanupPartialLease(l, error)
    PROVE  CleanupInv'
<1>1. PICK thrown \in SUBSET parts[l] :
          /\ ReleaseParts(l, parts[l], thrown)
          /\ code' = [code EXCEPT ![l] =
                IF Certain(l, parts[l], thrown) THEN error ELSE "IO"]
  BY DEF CleanupPartialLease
<1>2. /\ st' = [st EXCEPT ![l] = "refused"]
      /\ parts' = [parts EXCEPT ![l] = {}]
      /\ wanted' = [wanted EXCEPT ![l] = NoGit] /\ UNCHANGED proc
  BY DEF CleanupPartialLease
<1>3. \A k \in Key : lock[k] = l => k \in parts[l]
  BY DEF CleanupInv, PartsKnown, MayLinger
<1>4. \A k \in Key : lock'[k] = l => code'[l] = "IO"
  BY <1>1, <1>3, WorkspaceAssumption DEF ReleaseParts, Certain, TypeOK
<1>5. /\ lock' \in [Key -> Lease \cup {Free, Debris}]
      /\ \A k \in Key : lock'[k] # lock[k] => lock'[k] \in {l, Free, Debris}
  BY <1>1 DEF ReleaseParts, TypeOK
<1>6. \A m \in Lease \ {l}, k \in Key : <<m, k>> \in held => <<m, k>> \in held'
  BY <1>1 DEF ReleaseParts
<1>7. \A m \in Lease \ {l} : /\ st'[m] = st[m] /\ code'[m] = code[m]
                            /\ parts'[m] = parts[m] /\ wanted'[m] = wanted[m]
  BY <1>1, <1>2 DEF TypeOK
<1>8. st'[l] = "refused" /\ parts'[l] = {}
  BY <1>2 DEF TypeOK
<1> QED
  BY <1>2, <1>4, <1>5, <1>6, <1>7, <1>8, OwnStepCleanup DEF MayLinger

\* The steps of an acquisition.
LEMMA AcquireCleanup ==
    ASSUME TypeOK, FamilyNamed, CleanupInv, NEW l \in Lease, AcquireStep(l)
    PROVE  CleanupInv'
<1> USE WorkspaceAssumption, KeysOfLease DEF TypeOK
<1>a. AcquireStep(l) => Alive(l)
  BY DEF AcquireStep, Ask, AcquireDirectory, DirectoryRefused, ProbeFamily, ProbeFails,
         AcquireFamily, FamilyRefused, DirectoryCut, FamilyCut, Reprobe, Admitted, Alive
<1>b. \A k \in Key : lock[k] = l =>
          /\ \/ k \in parts[l]
             \/ st[l] = "promoteReprobing" /\ k = wanted[l]
             \/ MayLinger(l)
          /\ <<l, k>> \in held \/ st[l] = "uncertain" \/ MayLinger(l)
  BY <1>a DEF CleanupInv, PartsKnown, HeldCounted
<1>1. CASE AcquireDirectory(l)
  <2>1. /\ st[l] = "asking" /\ DirOf[l] \in Key
        /\ lock' = [lock EXCEPT ![DirOf[l]] = l]
        /\ parts' = [parts EXCEPT ![l] = @ \cup {DirOf[l]}]
        /\ held' = held \cup {<<l, DirOf[l]>>}
        /\ UNCHANGED <<proc, wanted, code>>
    BY <1>1 DEF AcquireDirectory, TakePart
  <2>2. /\ st'[l] \in {"directory", "probing"}
        /\ \A m \in Lease \ {l} : st'[m] = st[m]
    BY <1>1 DEF AcquireDirectory
  <2>3. \A k \in Key : lock'[k] = l => k \in parts'[l] /\ <<l, k>> \in held'
    BY <2>1, <1>b DEF MayLinger
  <2> QED BY <1>a, <2>1, <2>2, <2>3, OwnStepCleanup
<1>2. CASE Ask(l) \/ DirectoryRefused(l)
  <2>1. /\ st[l] \in {"idle", "asking"}
        /\ UNCHANGED <<proc, wanted, lock, parts, held>>
        /\ st'[l] \in {"asking", "refused"}
        /\ \A m \in Lease \ {l} : st'[m] = st[m] /\ code'[m] = code[m]
    BY <1>2 DEF Ask, DirectoryRefused
  <2>2. parts[l] = {} /\ \A k \in Key : lock[k] # l
    BY <2>1, <1>b DEF CleanupInv, NothingTaken, MayLinger
  <2> QED BY <1>a, <2>1, <2>2, OwnStepCleanup
<1>8. CASE DirectoryCut(l) \/ FamilyCut(l)
  <2>1. /\ st[l] \in {"asking", "family"} /\ st'[l] = "failing"
        /\ \E k \in Key : lock' = [lock EXCEPT ![k] = Debris]
        /\ UNCHANGED <<proc, parts, held, code, wanted>>
        /\ \A m \in Lease \ {l} : st'[m] = st[m]
    BY <1>8 DEF DirectoryCut, FamilyCut, LeaveDebris, FamilyNamed, Key
  <2>2. \A k \in Key : lock'[k] = l => lock[k] = l
    BY <2>1
  <2> QED BY <1>a, <1>b, <2>1, <2>2, OwnStepCleanup DEF MayLinger
<1>3. CASE ProbeFamily(l)
  <2>1. /\ st[l] = "probing"
        /\ UNCHANGED <<proc, lock, parts, held, code>>
        /\ st'[l] \in {"full", "family"}
        /\ \A m \in Lease \ {l} : st'[m] = st[m] /\ wanted'[m] = wanted[m]
    BY <1>3 DEF ProbeFamily
  <2> QED BY <1>a, <1>b, <2>1, OwnStepCleanup DEF MayLinger
<1>4. CASE ProbeFails(l)
  <2>1. "IO" \in Code
    BY DEF Code
  <2> QED BY <1>4, <2>1, CleanupCleanup DEF ProbeFails
<1>5. CASE AcquireFamily(l)
  <2>1. /\ st[l] = "family" /\ wanted[l] \in Key
        /\ lock' = [lock EXCEPT ![wanted[l]] = l]
        /\ parts' = [parts EXCEPT ![l] = @ \cup {wanted[l]}]
        /\ held' = held \cup {<<l, wanted[l]>>}
        /\ UNCHANGED <<proc, wanted, code>>
        /\ st'[l] = "reprobing"
        /\ \A m \in Lease \ {l} : st'[m] = st[m]
    BY <1>5 DEF AcquireFamily, TakePart, FamilyNamed, Key
  <2>2. \A k \in Key : lock'[k] = l => k \in parts'[l] /\ <<l, k>> \in held'
    BY <2>1, <1>b DEF MayLinger
  <2> QED BY <1>a, <2>1, <2>2, OwnStepCleanup
<1>6. CASE FamilyRefused(l)
  BY <1>6, RefusalIsCode, CleanupCleanup DEF FamilyRefused
<1>7. CASE Reprobe(l)
  <2>1. CASE CleanupPartialLease(l, "OTHER")
    <3>1. "OTHER" \in Code
      BY DEF Code
    <3> QED BY <1>7, <2>1, <3>1, CleanupCleanup DEF Reprobe
  <2>2. CASE Goto(l, "full") /\ UNCHANGED <<lock, git, proc, degraded, wanted, parts, code, held>>
    <3>1. /\ st[l] = "reprobing"
          /\ st'[l] = "full"
          /\ \A m \in Lease \ {l} : st'[m] = st[m]
      BY <1>7, <2>2 DEF Reprobe
    <3> QED BY <1>a, <1>b, <1>7, <2>2, <3>1, OwnStepCleanup DEF MayLinger
  <2> QED BY <1>7, <2>1, <2>2 DEF Reprobe
<1> QED
  BY <1>1, <1>2, <1>3, <1>4, <1>5, <1>6, <1>7, <1>8 DEF AcquireStep

\* The steps of a promotion.
LEMMA PromoteCleanup ==
    ASSUME TypeOK, FamilyNamed, CleanupInv, NEW l \in Lease, PromoteStep(l)
    PROVE  CleanupInv'
<1> USE WorkspaceAssumption, KeysOfLease DEF TypeOK
<1>a. PromoteStep(l) => Alive(l)
  BY DEF PromoteStep, Promote, PromoteAcquire, PromoteRefused, PromoteCut,
         PromoteReprobe, PromoteFails, Admitted, Alive
<1>b. \A k \in Key : lock[k] = l =>
          /\ \/ k \in parts[l]
             \/ st[l] = "promoteReprobing" /\ k = wanted[l]
             \/ MayLinger(l)
          /\ <<l, k>> \in held \/ st[l] = "uncertain" \/ MayLinger(l)
  BY <1>a DEF CleanupInv, PartsKnown, HeldCounted
<1>1. CASE Promote(l)
  <2>1. /\ st[l] = "directory" /\ st'[l] = "promoteFamily"
        /\ UNCHANGED <<proc, lock, parts, held, code>>
        /\ \A m \in Lease \ {l} : st'[m] = st[m] /\ wanted'[m] = wanted[m]
    BY <1>1 DEF Promote
  <2> QED BY <1>a, <1>b, <2>1, OwnStepCleanup DEF MayLinger
<1>2. CASE PromoteAcquire(l)
  <2>1. /\ st[l] = "promoteFamily" /\ wanted[l] \in Key
        /\ lock' = [lock EXCEPT ![wanted[l]] = l]
        /\ held' = held \cup {<<l, wanted[l]>>}
        /\ UNCHANGED <<proc, wanted, code, parts>>
        /\ st'[l] = "promoteReprobing"
        /\ \A m \in Lease \ {l} : st'[m] = st[m]
    BY <1>2 DEF PromoteAcquire, FamilyNamed, Key
  <2>2. \A k \in Key : lock'[k] = l =>
            (k \in parts'[l] \/ k = wanted'[l]) /\ <<l, k>> \in held'
    BY <2>1, <1>b DEF MayLinger
  <2> QED BY <1>a, <2>1, <2>2, OwnStepCleanup
<1>3. CASE PromoteRefused(l)
  <2>1. /\ st[l] = "promoteFamily" /\ st'[l] = "directory"
        /\ UNCHANGED <<proc, lock, parts, held, code, wanted>>
        /\ \A m \in Lease \ {l} : st'[m] = st[m]
    BY <1>3 DEF PromoteRefused
  <2> QED BY <1>a, <1>b, <2>1, OwnStepCleanup DEF MayLinger
<1>6. CASE PromoteCut(l)
  <2>1. /\ st[l] = "promoteFamily" /\ st'[l] = "directory"
        /\ \E k \in Key : lock' = [lock EXCEPT ![k] = Debris]
        /\ UNCHANGED <<proc, parts, held, code, wanted>>
        /\ \A m \in Lease \ {l} : st'[m] = st[m]
    BY <1>6 DEF PromoteCut, LeaveDebris, FamilyNamed, Key
  <2>2. \A k \in Key : lock'[k] = l => lock[k] = l
    BY <2>1
  <2> QED BY <1>a, <1>b, <2>1, <2>2, OwnStepCleanup DEF MayLinger
<1>4. CASE PromoteReprobe(l)
  <2>1. /\ st[l] = "promoteReprobing" /\ st'[l] = "full"
        /\ parts'[l] = parts[l] \cup {wanted[l]}
        /\ UNCHANGED <<proc, lock, held, code, wanted>>
        /\ \A m \in Lease \ {l} : st'[m] = st[m] /\ parts'[m] = parts[m]
    BY <1>4 DEF PromoteReprobe
  <2> QED BY <1>a, <1>b, <2>1, OwnStepCleanup DEF MayLinger
<1>5. CASE PromoteFails(l)
  <2>1. PICK thrown \in SUBSET {wanted[l]} :
            /\ ReleaseParts(l, {wanted[l]}, thrown)
            /\ IF Certain(l, {wanted[l]}, thrown)
               THEN Goto(l, "directory") /\ UNCHANGED parts
               ELSE /\ Goto(l, "uncertain")
                    /\ parts' = [parts EXCEPT ![l] = @ \cup {wanted[l]}]
    BY <1>5 DEF PromoteFails
  <2>2. st[l] = "promoteReprobing" /\ UNCHANGED <<proc, code, wanted>>
    BY <1>5 DEF PromoteFails
  <2>3. /\ lock' \in [Key -> Lease \cup {Free, Debris}]
        /\ \A k \in Key : lock'[k] # lock[k] => lock'[k] \in {l, Free, Debris}
    BY <2>1 DEF ReleaseParts
  <2>4. \A m \in Lease \ {l}, k \in Key : <<m, k>> \in held => <<m, k>> \in held'
    BY <2>1 DEF ReleaseParts
  <2>5. CASE Certain(l, {wanted[l]}, thrown)
    <3>1. st'[l] = "directory" /\ \A m \in Lease \ {l} : st'[m] = st[m]
      BY <2>1, <2>5
    <3>2. \A k \in Key : lock'[k] = l => lock[k] = l /\ k # wanted[l]
      BY <2>1, <2>5 DEF ReleaseParts, Certain
    <3>3. \A k \in Key : lock'[k] = l => k \in parts'[l] /\ <<l, k>> \in held'
      BY <2>1, <2>2, <2>5, <3>2, <1>b DEF ReleaseParts, MayLinger
    <3> QED BY <1>a, <2>1, <2>2, <2>3, <2>4, <2>5, <3>1, <3>3, OwnStepCleanup
  <2>6. CASE ~Certain(l, {wanted[l]}, thrown)
    <3>1. /\ st'[l] = "uncertain"
          /\ parts'[l] = parts[l] \cup {wanted[l]}
          /\ \A m \in Lease \ {l} : st'[m] = st[m] /\ parts'[m] = parts[m]
      BY <2>1, <2>6
    <3>2. \A k \in Key : lock'[k] = l => k \in parts'[l]
      BY <2>1, <2>2, <3>1, <1>b DEF ReleaseParts, MayLinger
    <3> QED BY <1>a, <2>2, <2>3, <2>4, <3>1, <3>2, OwnStepCleanup
  <2> QED BY <2>5, <2>6
<1> QED
  BY <1>1, <1>2, <1>3, <1>4, <1>5, <1>6 DEF PromoteStep

\* A release that returned true freed every part, and a process that drained
\* had none left to count.
LEMMA OtherCleanup ==
    ASSUME TypeOK, CleanupInv,
           \/ \E l \in Lease : Release(l) \/ ReleaseWhilePromoting(l)
           \/ \E p \in Proc : CloseAdmission(p) \/ DrainedExit(p) \/ Die(p)
           \/ \E k \in Key : RecoverOrphan(k) \/ DebrisRemoved(k)
           \/ \E d \in Directory, f \in Family \cup {NoGit} : GitChanges(d, f)
    PROVE  CleanupInv'
<1> USE WorkspaceAssumption DEF TypeOK
<1>1. ASSUME NEW l \in Lease, Release(l) PROVE CleanupInv'
  <2>1. PICK thrown \in SUBSET parts[l] :
            /\ ReleaseParts(l, parts[l], thrown)
            /\ IF Certain(l, parts[l], thrown)
               THEN Goto(l, "released") /\ UNCHANGED degraded
               ELSE Goto(l, "uncertain") /\ degraded' = degraded \cup {ProcOf[l]}
    BY <1>1 DEF Release
  <2>2. /\ st[l] \in {"full", "directory", "uncertain"} /\ Alive(l)
        /\ UNCHANGED <<proc, code, parts>>
        /\ \A m \in Lease \ {l} : wanted'[m] = wanted[m]
    BY <1>1 DEF Release
  <2>3. /\ lock' \in [Key -> Lease \cup {Free, Debris}]
        /\ \A k \in Key : lock'[k] # lock[k] => lock'[k] \in {l, Free, Debris}
        /\ \A k \in Key : lock'[k] = l => lock[k] = l
    BY <2>1 DEF ReleaseParts
  <2>4. \A m \in Lease \ {l}, k \in Key : <<m, k>> \in held => <<m, k>> \in held'
    BY <2>1 DEF ReleaseParts
  <2>5. \A k \in Key : lock[k] = l => k \in parts[l]
    BY <2>2 DEF CleanupInv, PartsKnown, MayLinger
  <2>6. CASE Certain(l, parts[l], thrown)
    <3>1. st'[l] = "released" /\ \A m \in Lease \ {l} : st'[m] = st[m]
      BY <2>1, <2>6
    <3>2. \A k \in Key : lock'[k] # l
      BY <2>1, <2>5, <2>6 DEF ReleaseParts, Certain
    <3> QED BY <2>2, <2>3, <2>4, <3>1, <3>2, OwnStepCleanup
  <2>7. CASE ~Certain(l, parts[l], thrown)
    <3>1. st'[l] = "uncertain" /\ \A m \in Lease \ {l} : st'[m] = st[m]
      BY <2>1, <2>7
    <3> QED BY <2>2, <2>3, <2>4, <2>5, <3>1, OwnStepCleanup
  <2> QED BY <2>6, <2>7
<1> USE DEF CleanupInv, PartsKnown, NothingTaken, HeldCounted, MemoryEnds, MayLinger, Alive
<1>2. ASSUME NEW l \in Lease, ReleaseWhilePromoting(l) PROVE CleanupInv'
  BY <1>2 DEF ReleaseWhilePromoting
<1>3. ASSUME NEW p \in Proc, CloseAdmission(p) PROVE CleanupInv'
  BY <1>3 DEF CloseAdmission
<1>4. ASSUME NEW p \in Proc, DrainedExit(p) \/ Die(p) PROVE CleanupInv'
  <2>1. Ends(p)
    BY <1>4 DEF DrainedExit, Die
  <2>2. \A l \in Lease : Alive(l)' =>
            /\ ProcOf[l] # p /\ Alive(l)
            /\ st'[l] = st[l] /\ wanted'[l] = wanted[l]
            /\ parts'[l] = parts[l] /\ code'[l] = code[l]
            /\ \A k \in Key : <<l, k>> \in held => <<l, k>> \in held'
    BY <2>1 DEF Ends, HeldBy
  <2>3. UNCHANGED lock /\ \A l \in Lease : ProcOf[l] = p => st'[l] = "gone" /\ parts'[l] = {}
    BY <2>1 DEF Ends
  <2>4. \A l \in Lease : ProcOf[l] # p => st'[l] = st[l] /\ parts'[l] = parts[l]
    BY <2>1 DEF Ends
  <2>5. PartsKnown' /\ HeldCounted'
    BY <2>2, <2>3
  <2>6. NothingTaken'
    BY <2>3, <2>4
  <2>7. MemoryEnds'
    BY <2>1, <2>3, <2>4 DEF Ends
  <2> QED BY <2>5, <2>6, <2>7
<1>5. ASSUME NEW k \in Key, RecoverOrphan(k) \/ DebrisRemoved(k) PROVE CleanupInv'
  BY <1>5 DEF RecoverOrphan, DebrisRemoved
<1>6. ASSUME NEW d \in Directory, NEW f \in Family \cup {NoGit}, GitChanges(d, f)
      PROVE  CleanupInv'
  BY <1>6 DEF GitChanges
<1> QED BY <1>1, <1>2, <1>3, <1>4, <1>5, <1>6

\* What handles, held parts and lock files say of each other agrees, whichever
\* releases threw.
THEOREM CleanupInvariant == Spec => []CleanupInv
<1>1. Init => CleanupInv
  BY InitCleanup
<1>2. TypeOK /\ ExclusionInv /\ CleanupInv /\ [Next]_vars => CleanupInv'
  <2> SUFFICES ASSUME TypeOK, ExclusionInv, CleanupInv, [Next]_vars PROVE CleanupInv'
    OBVIOUS
  <2>1. CASE UNCHANGED vars
    <3>1. UNCHANGED <<lock, proc, st, wanted, parts, code, held>>
      BY <2>1 DEF vars
    <3>2. PartsKnown' /\ NothingTaken'
      BY <3>1 DEF CleanupInv, PartsKnown, NothingTaken, MayLinger, Alive
    <3>3. HeldCounted' /\ MemoryEnds'
      BY <3>1 DEF CleanupInv, HeldCounted, MemoryEnds, MayLinger, Alive
    <3> QED BY <3>2, <3>3 DEF CleanupInv
  <2>2. ASSUME NEW l \in Lease, AcquireStep(l) \/ PromoteStep(l) PROVE CleanupInv'
    BY <2>2, AcquireCleanup, PromoteCleanup DEF ExclusionInv
  <2>3. ASSUME \/ \E l \in Lease : Release(l) \/ ReleaseWhilePromoting(l)
               \/ \E p \in Proc : CloseAdmission(p) \/ DrainedExit(p) \/ Die(p)
               \/ \E k \in Key : RecoverOrphan(k) \/ DebrisRemoved(k)
               \/ \E d \in Directory, f \in Family \cup {NoGit} : GitChanges(d, f)
        PROVE  CleanupInv'
    BY <2>3, OtherCleanup
  <2> QED BY <2>1, <2>2, <2>3 DEF Next
<1> QED BY <1>1, <1>2, ExclusionInvariant, PTL DEF Spec

\* A refusal with anything but an I/O error, and a release that returned true,
\* leave no lock of the lease anywhere; and a process that waits for no lease any
\* more has left a lock only where a release had thrown.
THEOREM NothingIsLeft == Spec => []NothingLeftBehind
<1>1. TypeOK /\ CleanupInv => ReleaseLeavesNothing
  BY DEF CleanupInv, PartsKnown, MemoryEnds, NothingTaken, MayLinger, ReleaseLeavesNothing
<1>2. TypeOK /\ CleanupInv => DrainLeavesNothing
  <2> SUFFICES ASSUME TypeOK, CleanupInv, NEW l \in Lease, NEW k \in Key,
                      lock[k] = l, Drained(ProcOf[l])
               PROVE  st[l] = "uncertain" \/ (st[l] = "refused" /\ code[l] = "IO")
    BY DEF DrainLeavesNothing
  <2>1. Alive(l) /\ {h \in held : ProcOf[h[1]] = ProcOf[l]} = {}
    BY DEF Drained, HeldBy, Alive
  <2>2. <<l, k>> \notin held
    <3>1. <<l, k>>[1] = l
      OBVIOUS
    <3> QED BY <2>1, <3>1
  <2> QED BY <2>1, <2>2 DEF CleanupInv, HeldCounted, MayLinger
<1> QED BY <1>1, <1>2, TypeCorrect, CleanupInvariant, PTL DEF NothingLeftBehind

-----------------------------------------------------------------------------
(* Every key is a PartLock.                                                *)

\* A step that leaves the file of k alone, counts no lease of k and forgets those
\* of ended processes only.
LEMMA PartRests ==
    ASSUME NEW k \in Key, lock'[k] = lock[k],
           \A l \in Lease : ~Alive(l) => ~Alive(l)',
           \A l \in Lease : <<l, k>> \in held' => <<l, k>> \in held,
           \A l \in Lease : <<l, k>> \in held /\ Alive(l)' => <<l, k>> \in held'
    PROVE  LockOf(k)!Next
BY DEF LockOf!Next, LockOf!End

\* A live lease takes the lock of x, and may do so where x is k.
LEMMA PartTaken ==
    ASSUME TypeOK, NEW k \in Key, NEW l \in Lease, Alive(l), NEW x \in Key,
           lock[x] = Free, lock' = [lock EXCEPT ![x] = l],
           held' = held \cup {<<l, x>>}, UNCHANGED proc
    PROVE  LockOf(k)!Next
<1>1. CASE x = k
  <2>1. LockOf(k)!Take(l)
    BY <1>1 DEF LockOf!Take, TypeOK, Alive
  <2> QED BY <2>1 DEF LockOf!Next
<1>2. CASE x # k
  BY <1>2, PartRests DEF TypeOK, Alive
<1> QED BY <1>1, <1>2

\* A live lease gives back parts, or tries to: k is among them or it is not.
LEMMA PartGivenBack ==
    ASSUME TypeOK, NEW k \in Key, NEW l \in Lease, Alive(l), NEW ks \in SUBSET Key,
           NEW thrown, ReleaseParts(l, ks, thrown), UNCHANGED proc
    PROVE  LockOf(k)!Next
<1>1. CASE k \in ks
  <2>1. lock'[k] = lock[k] \/ (lock[k] = l /\ lock'[k] = Free)
    BY DEF ReleaseParts
  <2>2. {m \in Lease : <<m, k>> \in held'} = {m \in Lease : <<m, k>> \in held} \ {l}
    BY <1>1 DEF ReleaseParts
  <2>3. {m \in Lease : ~Alive(m)'} = {m \in Lease : ~Alive(m)}
    BY DEF Alive
  <2>4. LockOf(k)!GiveBack(l)
    BY <2>1, <2>2, <2>3 DEF LockOf!GiveBack
  <2> QED BY <2>4 DEF LockOf!Next
<1>2. CASE k \notin ks
  <2>1. lock'[k] = lock[k] /\ \A m \in Lease : <<m, k>> \in held' <=> <<m, k>> \in held
    BY <1>2 DEF ReleaseParts
  <2> QED BY <2>1, PartRests DEF Alive
<1> QED BY <1>1, <1>2

\* A creation is cut short at x, and k may be x.
LEMMA PartCut ==
    ASSUME TypeOK, NEW k \in Key, NEW x \in Key, LeaveDebris(x)
    PROVE  LockOf(k)!Next
<1>1. CASE x = k
  <2>1. LockOf(k)!Cut
    BY <1>1 DEF LockOf!Cut, LockOf!End, LeaveDebris, TypeOK, Alive
  <2> QED BY <2>1 DEF LockOf!Next
<1>2. CASE x # k
  BY <1>2, PartRests DEF LeaveDebris, TypeOK, Alive
<1> QED BY <1>1, <1>2

\* The steps of acquisitions, promotions and releases.
LEMMA LeaseStepsPart ==
    ASSUME TypeOK, FamilyNamed, NEW k \in Key, NEW l \in Lease,
           AcquireStep(l) \/ PromoteStep(l) \/ Release(l) \/ ReleaseWhilePromoting(l)
    PROVE  LockOf(k)!Next
<1> USE KeysOfLease
<1>1. CASE AcquireDirectory(l) \/ AcquireFamily(l) \/ PromoteAcquire(l)
  <2>1. PICK x \in Key :
            /\ lock[x] = Free
            /\ lock' = [lock EXCEPT ![x] = l]
            /\ held' = held \cup {<<l, x>>}
    BY <1>1 DEF AcquireDirectory, AcquireFamily, PromoteAcquire, TakePart, FamilyNamed, Key
  <2>2. Alive(l) /\ UNCHANGED proc
    BY <1>1 DEF AcquireDirectory, AcquireFamily, PromoteAcquire, Admitted, Alive
  <2> QED BY <2>1, <2>2, PartTaken
<1>2. CASE DirectoryCut(l) \/ FamilyCut(l) \/ PromoteCut(l)
  <2>1. \E x \in Key : LeaveDebris(x)
    BY <1>2 DEF DirectoryCut, FamilyCut, PromoteCut, FamilyNamed, Key
  <2> QED BY <2>1, PartCut
<1>3. ASSUME NEW error, CleanupPartialLease(l, error), Alive(l) PROVE LockOf(k)!Next
  <2>1. \E thrown : ReleaseParts(l, parts[l], thrown)
    BY <1>3 DEF CleanupPartialLease
  <2>2. parts[l] \in SUBSET Key
    BY DEF TypeOK
  <2>3. UNCHANGED proc
    BY <1>3 DEF CleanupPartialLease
  <2> QED BY <1>3, <2>1, <2>2, <2>3, PartGivenBack
<1>4. CASE ProbeFails(l) \/ FamilyRefused(l)
  BY <1>3, <1>4 DEF ProbeFails, FamilyRefused
<1>5. CASE PromoteFails(l) \/ Release(l)
  <2>1. \E ks \in SUBSET Key : \E thrown : ReleaseParts(l, ks, thrown)
    <3>1. {wanted[l]} \in SUBSET Key \/ ~PromoteFails(l)
      BY DEF PromoteFails, FamilyNamed, Key
    <3>2. parts[l] \in SUBSET Key
      BY DEF TypeOK
    <3>3. PromoteFails(l) => \E thrown : ReleaseParts(l, {wanted[l]}, thrown)
      BY DEF PromoteFails
    <3>4. Release(l) => \E thrown : ReleaseParts(l, parts[l], thrown)
      BY DEF Release
    <3> QED BY <1>5, <3>1, <3>2, <3>3, <3>4
  <2>2. Alive(l) /\ UNCHANGED proc
    BY <1>5 DEF PromoteFails, Release
  <2> QED BY <2>1, <2>2, PartGivenBack
<1>6. CASE UNCHANGED <<lock, proc, held>>
  BY <1>6, PartRests DEF Alive
<1>7. CASE Ask(l) \/ DirectoryRefused(l) \/ ProbeFamily(l) \/ Promote(l) \/ PromoteRefused(l)
           \/ PromoteReprobe(l) \/ ReleaseWhilePromoting(l)
  BY <1>6, <1>7 DEF Ask, DirectoryRefused, ProbeFamily, Promote, PromoteRefused,
                    PromoteReprobe, ReleaseWhilePromoting
<1>8. CASE Reprobe(l)
  BY <1>3, <1>6, <1>8 DEF Reprobe
<1> QED
  BY <1>1, <1>2, <1>4, <1>5, <1>7, <1>8 DEF AcquireStep, PromoteStep

\* The steps of processes, persons and other programs.
LEMMA OtherStepsPart ==
    ASSUME TypeOK, NEW k \in Key,
           \/ \E p \in Proc : CloseAdmission(p) \/ DrainedExit(p) \/ Die(p)
           \/ \E x \in Key : RecoverOrphan(x) \/ DebrisRemoved(x)
           \/ \E d \in Directory, f \in Family \cup {NoGit} : GitChanges(d, f)
    PROVE  LockOf(k)!Next
<1>1. ASSUME NEW p \in Proc, CloseAdmission(p) PROVE LockOf(k)!Next
  <2>1. /\ UNCHANGED <<lock, held>>
        /\ \A l \in Lease : Alive(l)' <=> Alive(l)
    BY <1>1, WorkspaceAssumption DEF CloseAdmission, Alive, TypeOK
  <2> QED BY <2>1, PartRests
<1>2. ASSUME NEW p \in Proc, DrainedExit(p) \/ Die(p) PROVE LockOf(k)!Next
  <2>1. Ends(p)
    BY <1>2 DEF DrainedExit, Die
  <2>2. UNCHANGED lock /\ \A l \in Lease : ~Alive(l) => ~Alive(l)'
    BY <2>1, WorkspaceAssumption DEF Ends, Alive, TypeOK
  <2>3. \A l \in Lease : <<l, k>> \in held' => <<l, k>> \in held
    BY <2>1 DEF Ends
  <2>4. \A l \in Lease : <<l, k>> \in held /\ Alive(l)' => <<l, k>> \in held'
    BY <2>1, WorkspaceAssumption DEF Ends, HeldBy, Alive, TypeOK
  <2> QED BY <2>2, <2>3, <2>4, PartRests
<1>3. ASSUME NEW x \in Key, RecoverOrphan(x) \/ DebrisRemoved(x) PROVE LockOf(k)!Next
  <2>1. UNCHANGED <<proc, held>>
    BY <1>3 DEF RecoverOrphan, DebrisRemoved
  <2>2. CASE x = k
    <3>1. LockOf(k)!Recover \/ LockOf(k)!Clear
      BY <1>3, <2>1, <2>2 DEF RecoverOrphan, DebrisRemoved, LockOf!Recover, LockOf!Clear,
                              TypeOK, Alive
    <3> QED BY <3>1 DEF LockOf!Next
  <2>3. CASE x # k
    BY <1>3, <2>1, <2>3, PartRests DEF RecoverOrphan, DebrisRemoved, TypeOK, Alive
  <2> QED BY <2>2, <2>3
<1>4. ASSUME NEW d \in Directory, NEW f \in Family \cup {NoGit}, GitChanges(d, f)
      PROVE  LockOf(k)!Next
  BY <1>4, PartRests DEF GitChanges, Alive
<1> QED BY <1>1, <1>2, <1>3, <1>4

\* Every key starts as a free PartLock.
LEMMA PartStarts == ASSUME Init, NEW k \in Key PROVE LockOf(k)!Init
BY WorkspaceAssumption DEF Init, LockOf!Init, Alive

\* Every step is a step of the PartLock of every key.
LEMMA PartSteps ==
    ASSUME TypeOK, FamilyNamed, [Next]_vars, NEW k \in Key
    PROVE  [LockOf(k)!Next]_(LockOf(k)!vars)
<1>1. CASE UNCHANGED vars
  BY <1>1 DEF vars, LockOf!vars, Alive
<1>2. CASE Next
  <2>1. ASSUME NEW l \in Lease, AcquireStep(l) \/ PromoteStep(l)
                               \/ Release(l) \/ ReleaseWhilePromoting(l)
        PROVE  LockOf(k)!Next
    BY <2>1, LeaseStepsPart
  <2>2. ASSUME \/ \E p \in Proc : CloseAdmission(p) \/ DrainedExit(p) \/ Die(p)
               \/ \E x \in Key : RecoverOrphan(x) \/ DebrisRemoved(x)
               \/ \E d \in Directory, f \in Family \cup {NoGit} : GitChanges(d, f)
        PROVE  LockOf(k)!Next
    BY <2>2, OtherStepsPart
  <2> QED BY <1>2, <2>1, <2>2 DEF Next
<1> QED BY <1>1, <1>2

\* Every key implements a PartLock: whatever acquisitions, promotions, cleanups and
\* shutdowns do, and however many parts they do it to at once, the lock of a part is
\* taken where there is none, given back by its lease only, and taken from a lease
\* only when its process has ended.
THEOREM PartsAreOwnedHolds == Spec => PartsAreOwned
<1> DEFINE A == \A k \in Key : [LockOf(k)!Next]_(LockOf(k)!vars)
<1>1. Init => \A k \in Key : LockOf(k)!Init
  BY PartStarts
<1>2. TypeOK /\ ExclusionInv /\ [Next]_vars => [A]_vars
  BY PartSteps DEF ExclusionInv
<1>3. Spec => [][A]_vars
  BY <1>2, ExclusionInvariant, PTL DEF Spec
<1> QED BY <1>1, <1>3, PTL DEF Spec, PartsAreOwned

\* The same of one key, as a refinement.
THEOREM EveryKeyIsAPartLock == ASSUME NEW k \in Key PROVE Spec => LockOf(k)!Spec
<1>1. Init => LockOf(k)!Init
  BY PartStarts
<1>2. TypeOK /\ ExclusionInv /\ [Next]_vars => [LockOf(k)!Next]_(LockOf(k)!vars)
  BY PartSteps DEF ExclusionInv
<1> QED BY <1>1, <1>2, ExclusionInvariant, PTL DEF Spec, LockOf!Spec

\* There is one holder of a part at most that is alive, as for every PartLock the
\* owners of which are neither of the two marks.
THEOREM OneHolderOfAPart == ASSUME NEW k \in Key PROVE Spec => []LockOf(k)!HolderHasLock
<1>1. LockOf(k)!Init => LockOf(k)!HolderHasLock
  BY DEF LockOf!Init, LockOf!HolderHasLock
<1>2. LockOf(k)!HolderHasLock /\ [LockOf(k)!Next]_(LockOf(k)!vars)
      => LockOf(k)!HolderHasLock'
  <2> SUFFICES ASSUME LockOf(k)!HolderHasLock, LockOf(k)!Next PROVE LockOf(k)!HolderHasLock'
    BY DEF LockOf!vars, LockOf!HolderHasLock
  <2> USE WorkspaceAssumption DEF LockOf!HolderHasLock
  <2>1. CASE \E c \in Lease \ {l \in Lease : ~Alive(l)} : LockOf(k)!Take(c)
    BY <2>1 DEF LockOf!Take
  <2>2. CASE \E c \in Lease \ {l \in Lease : ~Alive(l)} : LockOf(k)!GiveBack(c)
    BY <2>2 DEF LockOf!GiveBack
  <2>3. CASE LockOf(k)!Recover
    BY <2>3 DEF LockOf!Recover
  <2>4. CASE LockOf(k)!Cut \/ LockOf(k)!Clear
    BY <2>4 DEF LockOf!Cut, LockOf!Clear, LockOf!End
  <2>5. CASE UNCHANGED lock[k] /\ LockOf(k)!End
    BY <2>5 DEF LockOf!End
  <2> QED BY <2>1, <2>2, <2>3, <2>4, <2>5 DEF LockOf!Next
<1> QED BY <1>1, <1>2, EveryKeyIsAPartLock, PTL DEF LockOf!Spec

=============================================================================
