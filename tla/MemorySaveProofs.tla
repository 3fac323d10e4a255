-------------------------- MODULE MemorySaveProofs --------------------------
(***************************************************************************)
(* Proofs about MemorySave, for every set of memories, turns, jobs and     *)
(* texts, and any number of policy changes.                                *)
(***************************************************************************)
EXTENDS MemorySave, FiniteSetTheorems, TLAPS

-----------------------------------------------------------------------------
(* The invariant.                                                          *)

Open == {"prepared"} \cup Active
Bare == {"idle", "checking", "prepared", "approved"}
Asking == {"reserved", "admitted", "validated", "calling", "proposed"}
Committing == {"applying", "written", "registered", "verified", "committed"}

\* Nothing anywhere tells of a job before it exists.
Unused ==
    \A j \in Fresh :
        /\ root[j] = None /\ coverage[j] = {} /\ successor[j] = None
        /\ j \notin bound /\ j \notin outbox
        /\ \A k \in Job : successor[k] # j
        /\ \A m \in Memory : /\ doc[m] # j /\ j \notin journal[m]
                             /\ pending[m].job # j /\ worker[m].job # j

\* One open job per root, one attempt over all, one parent per successor.
Unique ==
    \A j, k \in Job :
        /\ phase[j] \in Open /\ phase[k] \in Open /\ root[j] = root[k] => j = k
        /\ phase[j] \in Active /\ phase[k] \in Active => j = k
        /\ successor[j] = successor[k] /\ successor[j] # None => j = k

\* A job is given up for its successor only, which is about the same turns and
\* has no successor itself.
Lineage ==
    \A p \in Job :
        /\ phase[p] = "superseded-unknown" <=> successor[p] # None
        /\ approval[p] = "consumed" <=> successor[p] # None
        /\ successor[p] # None => /\ successor[successor[p]] = None
                                  /\ coverage[successor[p]] = coverage[p]
                                  /\ phase[successor[p]] # "prepared"

\* A job belongs to a memory; its turns are its own or those of its parent; it
\* is bound once a model was asked, and asked once, while it is an attempt.
Jobs ==
    \A j \in Job :
        /\ phase[j] # "absent" => root[j] \in Memory /\ coverage[j] # {}
        /\ \A s \in coverage[j] : owner[s] # None /\ (j = owner[s] \/ j = successor[owner[s]])
        /\ calls[j] <= 1
        /\ phase[j] \in {"absent", "prepared"} => calls[j] = 0
        /\ j \in bound => calls[j] > 0 /\ phase[j] \in Active \cup {"local-saved"}

\* A plan is that of a job of its root which a model answered.
Plans ==
    \A m \in Memory :
        /\ pending[m].job = None <=> pending[m] = NoPlan
        /\ pending[m].job # None =>
              /\ root[pending[m].job] = m
              /\ phase[pending[m].job] \in Active \cup {"local-saved"}
              /\ calls[pending[m].job] > 0
              /\ pending[m].before = before[pending[m].job]

\* The document and the journal hold the texts of bound jobs only.
Traces == \A m \in Memory, j \in Job : doc[m] = j \/ j \in journal[m] => j \in bound

\* What a run knows of its job, by how far it came.
Knows(m) ==
    LET w == worker[m] IN
    /\ w.pc \in Bare <=> w.job = None
    /\ w.pc \in {"checking", "prepared"} => w.want # {}
    /\ w.job # None => root[w.job] = m
    /\ w.pc = "approved" => pending[m] = NoPlan /\ w.parent # None /\ root[w.parent] = m
    /\ w.pc \in Asking => before[w.job] = w.before
    /\ w.pc \in {"admitted", "validated"} => phase[w.job] = "summarizing" /\ calls[w.job] = 0
    /\ w.pc \in {"calling", "proposed"} => phase[w.job] = "summarizing" /\ calls[w.job] > 0
    /\ w.pc \in Committing => w.job \in bound /\ pending[m].job = w.job
    /\ w.pc \in {"verified", "committed"} => w.job \in journal[m]
    /\ w.pc = "committed" => phase[w.job] = "local-saved"

Workers == \A m \in Memory : Knows(m)

SaveInv ==
    /\ TypeOK /\ Unused /\ Unique /\ Lineage /\ Jobs /\ Plans /\ Traces /\ Workers
    /\ PlanOutlivesReceipt /\ ReceiptIsBacked

-----------------------------------------------------------------------------
(* What the parts say together.                                            *)

\* At most one, or at most two elements.
LEMMA AtMostOne ==
    ASSUME NEW S, \A x, y \in S : x = y
    PROVE  IsFiniteSet(S) /\ Cardinality(S) <= 1
<1>1. CASE S = {}
  BY <1>1, FS_EmptySet
<1>2. CASE S # {}
  <2>1. PICK x : x \in S
    BY <1>2
  <2>2. S = {x}
    BY <2>1
  <2>3. IsFiniteSet(S) /\ Cardinality(S) = 1
    BY <2>2, FS_Singleton
  <2> QED BY <2>3
<1> QED BY <1>1, <1>2

LEMMA AtMostTwo ==
    ASSUME NEW S, NEW x, NEW y, S \subseteq {x, y}
    PROVE  IsFiniteSet(S) /\ Cardinality(S) <= 2
<1>1. IsFiniteSet({x}) /\ Cardinality({x}) = 1
  BY FS_Singleton
<1>2. IsFiniteSet({x} \cup {y}) /\ Cardinality({x} \cup {y}) <= 2
  BY <1>1, FS_AddElement
<1>3. {x, y} = {x} \cup {y} /\ S \in SUBSET {x, y}
  OBVIOUS
<1>4. Cardinality(S) <= Cardinality({x, y}) /\ IsFiniteSet(S)
  BY <1>2, <1>3, FS_Subset
<1>5. Cardinality(S) \in Nat /\ Cardinality({x, y}) \in Nat
  BY <1>2, <1>3, <1>4, FS_CardinalityType
<1> QED BY <1>2, <1>3, <1>4, <1>5

\* The jobs about a turn are its owner and the owner's successor.
LEMMA CoveringIsLineage ==
    ASSUME SaveInv, NEW s \in Source
    PROVE  \/ owner[s] = None /\ Covering(s) = {}
           \/ owner[s] \in Job /\ Covering(s) \subseteq {owner[s], successor[owner[s]]}
BY DEF SaveInv, TypeOK, Jobs, Covering

LEMMA CoveringFinite ==
    ASSUME SaveInv, NEW s \in Source
    PROVE  IsFiniteSet(Covering(s)) /\ Cardinality(Covering(s)) <= 2
<1>1. PICK x, y : Covering(s) \subseteq {x, y}
  BY CoveringIsLineage
<1> QED BY <1>1, AtMostTwo

LEMMA UniqueIsOne == ASSUME SaveInv PROVE OneUnresolved
<1>1. ASSUME NEW m \in Memory PROVE Cardinality(OpenJob(m)) <= 1
  <2>1. \A j, k \in OpenJob(m) : j = k
    BY DEF OpenJob, SaveInv, TypeOK, Unique, Open, Active, Closed
  <2> QED BY <2>1, AtMostOne
<1>2. \A j, k \in {i \in Job : phase[i] \in Active} : j = k
  BY DEF SaveInv, Unique
<1>3. Cardinality({j \in Job : phase[j] \in Active}) <= 1
  BY <1>2, AtMostOne
<1> QED BY <1>1, <1>3 DEF OneUnresolved

LEMMA LineageAsksTwice == ASSUME SaveInv PROVE AskedOnceOrTwice
<1> SUFFICES ASSUME NEW s \in Source
             PROVE  /\ \A j \in Covering(s) : calls[j] <= 1
                    /\ Cardinality({j \in Covering(s) : calls[j] > 0})
                          <= 1 + Cardinality({j \in Covering(s) : approval[j] = "consumed"})
                    /\ Cardinality(Covering(s)) <= 2
  BY DEF AskedOnceOrTwice
<1> DEFINE asked == {j \in Covering(s) : calls[j] > 0}
           reviewed == {j \in Covering(s) : approval[j] = "consumed"}
<1>1. \A j \in Covering(s) : calls[j] <= 1
  BY DEF Covering, SaveInv, Jobs
<1>2. Cardinality(Covering(s)) <= 2 /\ IsFiniteSet(Covering(s))
  BY CoveringFinite
<1>3. asked \in SUBSET Covering(s) /\ reviewed \in SUBSET Covering(s)
  OBVIOUS
<1>4. /\ IsFiniteSet(asked) /\ IsFiniteSet(reviewed)
      /\ Cardinality(asked) <= Cardinality(Covering(s))
  BY <1>2, <1>3, FS_Subset
<1>5. Cardinality(asked) \in Nat /\ Cardinality(reviewed) \in Nat /\ Cardinality(Covering(s)) \in Nat
  BY <1>2, <1>4, FS_CardinalityType
<1>6. CASE \A j, k \in asked : j = k
  <2>1. Cardinality(asked) <= 1
    BY <1>6, AtMostOne
  <2> HIDE DEF asked, reviewed
  <2>2. Cardinality(asked) <= 1 + Cardinality(reviewed)
    BY <2>1, <1>5
  <2> QED BY <1>1, <1>2, <2>2 DEF asked, reviewed
<1>7. CASE \E j, k \in asked : j # k
  <2>1. owner[s] \in Job /\ owner[s] \in Covering(s) /\ successor[owner[s]] # None
    <3>1. PICK j, k \in Covering(s) : j # k
      BY <1>7
    <3>2. j \in Job /\ k \in Job /\ None \notin Job
      BY MemorySaveAssumption DEF Covering, MemorySaveAssumption
    <3> QED BY <3>1, <3>2, CoveringIsLineage
  <2>2. owner[s] \in reviewed
    BY <2>1 DEF SaveInv, Lineage
  <2> HIDE DEF asked, reviewed
  <2>3. Cardinality(reviewed) # 0
    BY <2>2, <1>4, FS_EmptySet
  <2>4. Cardinality(asked) <= 1 + Cardinality(reviewed)
    BY <1>2, <1>4, <1>5, <2>3
  <2> QED BY <1>1, <1>2, <2>4 DEF asked, reviewed
<1> QED BY <1>6, <1>7

LEMMA LineageSavesOnce == ASSUME SaveInv PROVE SavedOnce
<1>1. ASSUME NEW s \in Source
      PROVE  Cardinality({j \in Covering(s) : phase[j] = "local-saved"}) <= 1
  <2>1. ASSUME NEW j \in Covering(s), NEW k \in Covering(s),
               phase[j] = "local-saved", phase[k] = "local-saved"
        PROVE  j = k
    <3>1. \A i \in Job : phase[i] = "local-saved" => successor[i] = None
      BY DEF SaveInv, Lineage
    <3>2. j \in Job /\ k \in Job /\ None \notin Job
      BY MemorySaveAssumption DEF Covering, MemorySaveAssumption
    <3> QED BY <2>1, <3>1, <3>2, CoveringIsLineage
  <2> QED BY <2>1, AtMostOne
<1>2. ASSUME NEW m \in Memory, NEW j \in Job, phase[j] = "superseded-unknown"
      PROVE  doc[m] # j /\ j \notin journal[m] /\ pending[m].job # j
  <2>1. j \notin bound /\ phase[j] \notin Active \cup {"local-saved"}
    BY <1>2 DEF SaveInv, Jobs, Active
  <2>2. j # None
    BY MemorySaveAssumption DEF MemorySaveAssumption
  <2> QED BY <2>1, <2>2 DEF SaveInv, Traces, Plans
<1> QED BY <1>1, <1>2 DEF SavedOnce

LEMMA InvariantDiscipline == SaveInv => CommitDiscipline
BY UniqueIsOne, LineageAsksTwice, LineageSavesOnce DEF CommitDiscipline, SaveInv

LEMMA SaveInit == Init => SaveInv
<1> SUFFICES ASSUME Init PROVE SaveInv
  OBVIOUS
<1> USE DEF Init, MemorySaveAssumption
<1>1. TypeOK
  BY MemorySaveAssumption DEF TypeOK, Idle, NoPlan, Pc
<1>2. Unused
  BY MemorySaveAssumption DEF Unused, Fresh, NoPlan, Idle
<1>3. Unique /\ Lineage /\ Jobs
  BY MemorySaveAssumption DEF Unique, Lineage, Jobs, Open, Active
<1>4. Plans /\ Traces
  BY MemorySaveAssumption DEF Plans, Traces, NoPlan
<1>5. Workers
  BY MemorySaveAssumption DEF Workers, Knows, Idle, Bare, Asking, Committing
<1>6. PlanOutlivesReceipt /\ ReceiptIsBacked
  BY DEF PlanOutlivesReceipt, ReceiptIsBacked
<1> QED BY <1>1, <1>2, <1>3, <1>4, <1>5, <1>6 DEF SaveInv

-----------------------------------------------------------------------------
(* Lemmas about the parts of the state a step touches.                     *)

Run == [pc : Pc, job : Job \cup {None}, parent : Job \cup {None}, want : SUBSET Source,
        before : Text \cup Job \cup {None}, revision : 0 .. MaxRevision]

\* A run goes on: nothing else of it changes, nor any other run.
LEMMA GotoGoes ==
    ASSUME TypeOK, NEW m \in Memory, NEW pc \in Pc, worker' = [worker EXCEPT ![m].pc = pc]
    PROVE  /\ worker' \in [Memory -> Run]
           /\ worker'[m].pc = pc /\ worker'[m].job = worker[m].job
           /\ worker'[m].want = worker[m].want /\ worker'[m].before = worker[m].before
           /\ worker'[m].parent = worker[m].parent
           /\ worker'[m].revision = worker[m].revision
           /\ \A n \in Memory \ {m} : worker'[n] = worker[n]
<1>1. worker \in [Memory -> Run]
  BY DEF TypeOK, Run
<1> QED BY <1>1 DEF Run

\* A run that ends, and one that begins with the given record.
LEMMA RunBecomes ==
    ASSUME TypeOK, NEW m \in Memory, NEW w \in Run, worker' = [worker EXCEPT ![m] = w]
    PROVE  /\ worker' \in [Memory -> Run] /\ worker'[m] = w
           /\ \A n \in Memory \ {m} : worker'[n] = worker[n]
<1>1. worker \in [Memory -> Run]
  BY DEF TypeOK, Run
<1> QED BY <1>1

LEMMA IdleIsRun == Idle \in Run
BY MemorySaveAssumption DEF MemorySaveAssumption, Idle, Run, Pc

LEMMA LeaveLeaves ==
    ASSUME TypeOK, NEW m \in Memory, Leave(m)
    PROVE  /\ worker' \in [Memory -> Run] /\ worker'[m] = Idle
           /\ \A n \in Memory \ {m} : worker'[n] = worker[n]
           /\ appLease' \in Memory \cup {None}
<1>1. appLease' \in Memory \cup {None}
  BY DEF Leave, TypeOK
<1> QED BY <1>1, IdleIsRun, RunBecomes DEF Leave

\* An idle run knows nothing.
LEMMA IdleKnows ==
    ASSUME NEW m \in Memory, worker'[m] = Idle
    PROVE  Knows(m)'
<1>1. worker'[m].pc = "idle" /\ worker'[m].job = None
  BY DEF Idle
<1> QED BY <1>1 DEF Knows, Bare, Asking, Committing

\* What is not taken from a run it keeps knowing.
LEMMA KnowsStays ==
    ASSUME SaveInv, NEW m \in Memory, worker'[m] = worker[m],
           pending'[m] = pending[m],
           worker[m].job # None => /\ root'[worker[m].job] = root[worker[m].job]
                                   /\ before'[worker[m].job] = before[worker[m].job]
                                   /\ phase'[worker[m].job] = phase[worker[m].job]
                                   /\ calls'[worker[m].job] = calls[worker[m].job],
           worker[m].parent # None => root'[worker[m].parent] = root[worker[m].parent],
           bound \subseteq bound', journal[m] \subseteq journal'[m]
    PROVE  Knows(m)'
<1>1. Knows(m)
  BY DEF SaveInv, Workers
<1>2. worker[m].pc \in Asking \cup Committing => worker[m].job # None
  BY <1>1 DEF Knows, Bare, Asking, Committing
<1> QED BY <1>1, <1>2 DEF Knows, Asking, Committing

\* Runs of different memories work on different jobs.
LEMMA JobsApart ==
    ASSUME SaveInv, NEW m \in Memory, NEW n \in Memory \ {m}, worker[m].job # None
    PROVE  worker[n].job # worker[m].job
BY DEF SaveInv, Workers, Knows

-----------------------------------------------------------------------------
(* Steps outside the runs.                                                 *)

LEMMA ChangePolicyKeeps == ASSUME SaveInv, ChangePolicy PROVE SaveInv'
<1> USE DEF ChangePolicy, files, SaveInv
<1>1. TypeOK'
  BY MemorySaveAssumption DEF TypeOK, MemorySaveAssumption
<1>2. Unused' /\ Unique' /\ Lineage' /\ Jobs' /\ Plans' /\ Traces'
  BY DEF Unused, Fresh, Unique, Lineage, Jobs, Plans, Traces
<1>3. Workers'
  BY DEF Workers, Knows
<1>4. PlanOutlivesReceipt' /\ ReceiptIsBacked'
  BY DEF PlanOutlivesReceipt, ReceiptIsBacked
<1> QED BY <1>1, <1>2, <1>3, <1>4

LEMMA ReviewKeeps ==
    ASSUME SaveInv, NEW j \in Job, Review(j) \/ ReviewExpires(j)
    PROVE  SaveInv'
<1> USE DEF files, SaveInv
<1>1. /\ approval[j] # "consumed"
      /\ \E a \in {"none", "reviewed"} : approval' = [approval EXCEPT ![j] = a]
      /\ UNCHANGED <<policy, owner, phase, root, coverage, before, bound,
                     successor, outbox, files, worker, appLease, calls>>
  BY DEF Review, ReviewExpires, Reviewable, Candidate, Lineage
<1>2. TypeOK'
  BY <1>1 DEF TypeOK
<1>3. Unused' /\ Unique' /\ Jobs' /\ Plans' /\ Traces'
  BY <1>1 DEF Unused, Fresh, Unique, Jobs, Plans, Traces
<1>4. Lineage'
  BY <1>1 DEF Lineage, TypeOK
<1>5. Workers'
  BY <1>1 DEF Workers, Knows
<1>6. PlanOutlivesReceipt' /\ ReceiptIsBacked'
  BY <1>1 DEF PlanOutlivesReceipt, ReceiptIsBacked
<1> QED BY <1>2, <1>3, <1>4, <1>5, <1>6

LEMMA EditKeeps ==
    ASSUME SaveInv, NEW m \in Memory, Edit(m)
    PROVE  SaveInv'
<1> USE DEF store, SaveInv
<1>1. PICK t \in Text : doc' = [doc EXCEPT ![m] = t]
  BY DEF Edit
<1>2. UNCHANGED <<store, pending, journal, worker, appLease, calls>>
  BY DEF Edit
<1>3. t \notin Job
  BY MemorySaveAssumption DEF MemorySaveAssumption
<1>4. TypeOK'
  BY <1>1, <1>2 DEF TypeOK
<1>5. Unused' /\ Traces'
  BY <1>1, <1>2, <1>3 DEF Unused, Traces, Fresh, TypeOK
<1>6. Unique' /\ Lineage' /\ Jobs' /\ Plans'
  BY <1>2 DEF Unique, Lineage, Jobs, Plans
<1>7. Workers'
  BY <1>2 DEF Workers, Knows
<1>8. PlanOutlivesReceipt' /\ ReceiptIsBacked'
  BY <1>2 DEF PlanOutlivesReceipt, ReceiptIsBacked
<1> QED BY <1>4, <1>5, <1>6, <1>7, <1>8

-----------------------------------------------------------------------------
(* Steps of a run that change the run and its leases only.                 *)

LEMMA RunMoves ==
    ASSUME SaveInv, NEW m \in Memory, UNCHANGED <<store, files, calls>>,
           worker' \in [Memory -> Run], appLease' \in Memory \cup {None},
           \A n \in Memory \ {m} : worker'[n] = worker[n],
           worker'[m].job # None => worker'[m].job \notin Fresh,
           Knows(m)'
    PROVE  SaveInv'
<1> USE DEF store, files, SaveInv
<1>1. TypeOK'
  BY DEF TypeOK, Run
<1>2. Unused'
  <2>1. \A j \in Fresh : j # None
    BY MemorySaveAssumption DEF Fresh, MemorySaveAssumption
  <2>2. \A j \in Fresh, n \in Memory : worker'[n].job # j
    BY <2>1 DEF Unused
  <2> QED BY <2>2 DEF Unused, Fresh
<1>3. Unique' /\ Lineage' /\ Jobs' /\ Plans' /\ Traces'
  BY DEF Unique, Lineage, Jobs, Plans, Traces
<1>4. Workers'
  <2>1. ASSUME NEW n \in Memory, n # m PROVE Knows(n)'
    BY <2>1, KnowsStays
  <2> QED BY <2>1 DEF Workers
<1>5. PlanOutlivesReceipt' /\ ReceiptIsBacked'
  BY DEF PlanOutlivesReceipt, ReceiptIsBacked
<1> QED BY <1>1, <1>2, <1>3, <1>4, <1>5

\* The job of a run exists.
LEMMA RunHasJob ==
    ASSUME SaveInv, NEW m \in Memory
    PROVE  /\ worker[m] \in Run /\ worker[m].job \in Job \cup {None}
           /\ worker[m].job # None =>
                 /\ worker[m].job \in Job /\ root[worker[m].job] = m
                 /\ worker[m].job \notin Fresh
           /\ worker[m].pc \notin Bare => worker[m].job # None
           /\ Knows(m)
<1>1. worker[m] \in Run
  BY DEF SaveInv, TypeOK, Run
<1>2. Knows(m)
  BY DEF SaveInv, Workers
<1> QED BY <1>1, <1>2 DEF Run, Knows, SaveInv, Unused

LEMMA StartSaveKeeps == ASSUME SaveInv, NEW m \in Memory, StartSave(m) PROVE SaveInv'
<1>1. PICK want \in SUBSET Source :
          /\ want # {}
          /\ worker' = [worker EXCEPT ![m] = [Idle EXCEPT
                 !.pc = "checking", !.want = want, !.revision = policy.revision]]
  BY DEF StartSave
<1> DEFINE run == [Idle EXCEPT !.pc = "checking", !.want = want, !.revision = policy.revision]
<1>2. /\ run \in Run /\ run.pc = "checking" /\ run.job = None /\ run.want # {}
  BY <1>1, IdleIsRun DEF Idle, Run, Pc, SaveInv, TypeOK
<1>3. worker' = [worker EXCEPT ![m] = run]
  BY <1>1
<1> HIDE DEF run
<1>4. /\ worker' \in [Memory -> Run] /\ worker'[m] = run
      /\ \A n \in Memory \ {m} : worker'[n] = worker[n]
  BY <1>2, <1>3, RunBecomes DEF SaveInv
<1>5. Knows(m)'
  BY <1>2, <1>4 DEF Knows, Bare, Asking, Committing
<1>6. UNCHANGED <<store, files, calls>> /\ appLease' \in Memory \cup {None}
  BY DEF StartSave
<1> QED BY <1>2, <1>4, <1>5, <1>6, RunMoves

LEMMA PrepareUpdateKeeps ==
    ASSUME SaveInv, NEW m \in Memory, PrepareUpdate(m)
    PROVE  SaveInv'
<1>1. /\ worker[m].pc = "checking" /\ UNCHANGED <<store, files, appLease, calls>>
      /\ worker' = [worker EXCEPT ![m].pc = "prepared", ![m].before = doc[m]]
  BY DEF PrepareUpdate, At
<1>2. worker[m] \in Run /\ worker[m].job = None /\ worker[m].want # {}
  BY <1>1, RunHasJob DEF Knows, Bare
<1>3. doc[m] \in Text \cup Job \cup {None} /\ worker \in [Memory -> Run]
  BY DEF SaveInv, TypeOK, Run
<1>4. /\ worker' \in [Memory -> Run]
      /\ worker'[m].pc = "prepared" /\ worker'[m].job = None /\ worker'[m].want # {}
      /\ \A n \in Memory \ {m} : worker'[n] = worker[n]
  BY <1>1, <1>2, <1>3 DEF Run, Pc
<1>5. Knows(m)'
  BY <1>4 DEF Knows, Bare, Asking, Committing
<1>6. appLease' \in Memory \cup {None} /\ UNCHANGED <<store, files, calls>>
  BY <1>1 DEF SaveInv, TypeOK
<1> QED BY <1>4, <1>5, <1>6, RunMoves

\* Steps that only read.
LEMMA RunReadsOn ==
    ASSUME SaveInv, NEW m \in Memory, Revalidate(m) \/ Answer(m) \/ Register(m)
    PROVE  SaveInv'
<1>1. PICK pc \in {"validated", "proposed", "registered"} :
          /\ pc = "validated" => worker[m].pc = "admitted"
          /\ pc = "proposed" => worker[m].pc = "calling"
          /\ pc = "registered" => worker[m].pc = "applying"
          /\ worker' = [worker EXCEPT ![m].pc = pc]
  BY DEF Revalidate, Answer, Register, Applying, At, Goto
<1>2. UNCHANGED <<store, files, appLease, calls>>
  BY DEF Revalidate, Answer, Register
<1>3. pc \in Pc
  BY DEF Pc
<1>4. /\ worker' \in [Memory -> Run]
      /\ worker'[m].pc = pc /\ worker'[m].job = worker[m].job
      /\ worker'[m].before = worker[m].before
      /\ \A n \in Memory \ {m} : worker'[n] = worker[n]
  BY <1>1, <1>3, GotoGoes DEF SaveInv
<1>5. worker[m].job # None /\ worker[m].job \notin Fresh /\ Knows(m)
  BY <1>1, RunHasJob DEF Bare
<1>6. Knows(m)'
  BY <1>1, <1>2, <1>4, <1>5 DEF Knows, Bare, Asking, Committing, store, files
<1>7. UNCHANGED <<store, files, calls>> /\ appLease' \in Memory \cup {None}
  BY <1>2 DEF SaveInv, TypeOK
<1> QED BY <1>4, <1>5, <1>6, <1>7, RunMoves

LEMMA ResumePlanKeeps == ASSUME SaveInv, NEW m \in Memory, ResumePlan(m) PROVE SaveInv'
<1> DEFINE run == [Idle EXCEPT
           !.pc = "binding", !.job = pending[m].job, !.revision = policy.revision]
<1>1. /\ pending[m] # NoPlan /\ worker' = [worker EXCEPT ![m] = run]
      /\ UNCHANGED <<store, files, appLease, calls>>
  BY DEF ResumePlan
<1>2. /\ pending[m].job \in Job \cup {None} /\ pending[m].job # None
      /\ root[pending[m].job] = m /\ pending[m].job \notin Fresh
  BY <1>1 DEF SaveInv, TypeOK, Plans, Unused
<1>3. run \in Run /\ run.pc = "binding" /\ run.job = pending[m].job
  BY <1>2, IdleIsRun DEF Idle, Run, Pc, SaveInv, TypeOK
<1> HIDE DEF run
<1>4. /\ worker' \in [Memory -> Run] /\ worker'[m] = run
      /\ \A n \in Memory \ {m} : worker'[n] = worker[n]
  BY <1>1, <1>3, RunBecomes DEF SaveInv
<1>5. Knows(m)'
  BY <1>1, <1>2, <1>3, <1>4 DEF Knows, Bare, Asking, Committing, store
<1>6. UNCHANGED <<store, files, calls>> /\ appLease' \in Memory \cup {None}
  BY <1>1 DEF SaveInv, TypeOK
<1> QED BY <1>2, <1>3, <1>4, <1>5, <1>6, RunMoves

LEMMA StartRecoveryKeeps ==
    ASSUME SaveInv, NEW j \in Job, StartRecovery(j)
    PROVE  SaveInv'
<1>1. PICK m \in Memory : m = root[j]
  BY DEF StartRecovery, Reviewable, Candidate, SaveInv, Jobs
<1> DEFINE run == [Idle EXCEPT !.pc = "approved", !.parent = j, !.before = doc[m],
                               !.revision = policy.revision]
<1>2. /\ worker' = [worker EXCEPT ![m] = run] /\ appLease' = m
      /\ UNCHANGED <<store, files, calls>> /\ pending[m] = NoPlan /\ j # None
  BY <1>1, MemorySaveAssumption DEF StartRecovery, Reviewable, MemorySaveAssumption
<1>3. run \in Run /\ run.pc = "approved" /\ run.job = None /\ run.parent = j
  BY <1>2, IdleIsRun DEF Idle, Run, Pc, SaveInv, TypeOK
<1> HIDE DEF run
<1>4. /\ worker' \in [Memory -> Run] /\ worker'[m] = run
      /\ \A n \in Memory \ {m} : worker'[n] = worker[n]
  BY <1>2, <1>3, RunBecomes DEF SaveInv
<1>5. Knows(m)'
  BY <1>1, <1>2, <1>3, <1>4 DEF Knows, Bare, Asking, Committing, files, store
<1> QED BY <1>2, <1>3, <1>4, <1>5, RunMoves

-----------------------------------------------------------------------------
(* The attempt and its answer.                                             *)

LEMMA BeginAttemptKeeps ==
    ASSUME SaveInv, NEW m \in Memory, BeginAttempt(m)
    PROVE  SaveInv'
<1>1. /\ worker[m].pc = "reserved" /\ Admissible({})
      /\ worker' = [worker EXCEPT ![m].pc = "admitted"]
      /\ UNCHANGED <<policy, owner, root, coverage, before, bound, approval,
                     successor, outbox, pending, doc, journal, appLease, calls>>
  BY DEF BeginAttempt, At, Goto, files
<1>2. PICK j \in Job : j = worker[m].job
  BY <1>1, RunHasJob DEF Bare
<1>3. /\ phase[j] = "prepared" /\ phase' = [phase EXCEPT ![j] = "summarizing"]
      /\ root[j] = m /\ j # None /\ before[j] = worker[m].before
  BY <1>1, <1>2, RunHasJob, MemorySaveAssumption
     DEF BeginAttempt, MemorySaveAssumption, Knows, Asking, Bare
<1>4. /\ phase'[j] = "summarizing" /\ \A k \in Job \ {j} : phase'[k] = phase[k]
      /\ Fresh' = Fresh
  BY <1>3 DEF SaveInv, TypeOK, Fresh
<1>5. /\ worker' \in [Memory -> Run]
      /\ worker'[m].pc = "admitted" /\ worker'[m].job = j
      /\ worker'[m].before = worker[m].before
      /\ \A n \in Memory \ {m} : worker'[n] = worker[n]
  BY <1>1, <1>2, GotoGoes DEF SaveInv, Pc
<1>6. TypeOK'
  BY <1>1, <1>3, <1>5 DEF SaveInv, TypeOK, Run, Active
<1>7. Unused'
  BY <1>1, <1>2, <1>4, <1>5 DEF SaveInv, Unused
<1>8. Unique'
  <2>1. \A k \in Job : phase[k] \notin Active
    BY <1>1 DEF Admissible
  <2> QED BY <1>1, <1>3, <1>4, <2>1 DEF SaveInv, Unique, Open, Active
<1>9. Lineage'
  BY <1>1, <1>3, <1>4 DEF SaveInv, TypeOK, Lineage
<1>10. Jobs'
  BY <1>1, <1>3, <1>4 DEF SaveInv, Jobs, Active
<1>11. Plans' /\ Traces'
  BY <1>1, <1>3, <1>4 DEF SaveInv, TypeOK, Plans, Traces, Active
<1>12. Workers'
  <2>1. Knows(m)'
    <3>1. calls[j] = 0
      BY <1>3 DEF SaveInv, Jobs
    <3> QED BY <1>1, <1>3, <1>4, <1>5, <3>1 DEF Knows, Bare, Asking, Committing
  <2>2. ASSUME NEW n \in Memory, n # m PROVE Knows(n)'
    <3>1. worker[n].job # j /\ worker[n].job \in Job \cup {None}
      BY <1>2, <1>3, <2>2, JobsApart, RunHasJob
    <3> QED BY <1>1, <1>4, <1>5, <2>2, <3>1, KnowsStays
  <2> QED BY <2>1, <2>2 DEF Workers
<1>13. PlanOutlivesReceipt' /\ ReceiptIsBacked'
  BY <1>1, <1>3, <1>4 DEF SaveInv, TypeOK, PlanOutlivesReceipt, ReceiptIsBacked
<1> QED BY <1>6, <1>7, <1>8, <1>9, <1>10, <1>11, <1>12, <1>13 DEF SaveInv

LEMMA CallModelKeeps == ASSUME SaveInv, NEW m \in Memory, CallModel(m) PROVE SaveInv'
<1>1. /\ worker[m].pc = "validated" /\ worker' = [worker EXCEPT ![m].pc = "calling"]
      /\ UNCHANGED <<policy, owner, phase, root, coverage, before, bound, approval,
                     successor, outbox, pending, doc, journal, appLease>>
  BY DEF CallModel, At, Goto, files, store
<1>2. PICK j \in Job : j = worker[m].job
  BY <1>1, RunHasJob DEF Bare
<1>3. /\ calls' = [calls EXCEPT ![j] = calls[j] + 1] /\ calls[j] = 0
      /\ phase[j] = "summarizing"
      /\ root[j] = m /\ j # None /\ before[j] = worker[m].before
  BY <1>1, <1>2, RunHasJob, MemorySaveAssumption
     DEF CallModel, MemorySaveAssumption, Knows, Asking, Bare
<1>4. /\ calls'[j] = 1 /\ \A k \in Job \ {j} : calls'[k] = calls[k]
      /\ Fresh' = Fresh
  BY <1>1, <1>3 DEF SaveInv, TypeOK, Fresh
<1>5. /\ worker' \in [Memory -> Run]
      /\ worker'[m].pc = "calling" /\ worker'[m].job = j
      /\ worker'[m].before = worker[m].before
      /\ \A n \in Memory \ {m} : worker'[n] = worker[n]
  BY <1>1, <1>2, GotoGoes DEF SaveInv, Pc
<1>6. TypeOK'
  <2>1. calls' \in [Job -> Nat]
    BY <1>3 DEF SaveInv, TypeOK
  <2> QED BY <1>1, <1>5, <2>1 DEF SaveInv, TypeOK, Run
<1>7. Unused'
  BY <1>1, <1>2, <1>4, <1>5 DEF SaveInv, Unused
<1>8. Unique' /\ Lineage'
  BY <1>1 DEF SaveInv, Unique, Lineage
<1>9. Jobs'
  BY <1>1, <1>3, <1>4 DEF SaveInv, Jobs
<1>10. Plans' /\ Traces'
  BY <1>1, <1>3, <1>4 DEF SaveInv, TypeOK, Plans, Traces
<1>11. Workers'
  <2>1. Knows(m)'
    BY <1>1, <1>3, <1>4, <1>5 DEF Knows, Bare, Asking, Committing
  <2>2. ASSUME NEW n \in Memory, n # m PROVE Knows(n)'
    <3>1. worker[n].job # j /\ worker[n].job \in Job \cup {None}
      BY <1>2, <1>3, <2>2, JobsApart, RunHasJob
    <3> QED BY <1>1, <1>4, <1>5, <2>2, <3>1, KnowsStays
  <2> QED BY <2>1, <2>2 DEF Workers
<1>12. PlanOutlivesReceipt' /\ ReceiptIsBacked'
  BY <1>1 DEF SaveInv, PlanOutlivesReceipt, ReceiptIsBacked
<1> QED BY <1>6, <1>7, <1>8, <1>9, <1>10, <1>11, <1>12 DEF SaveInv

\* The plan of a job that a model answered takes the place of none.
LEMMA AcceptProposalKeeps ==
    ASSUME SaveInv, NEW m \in Memory, AcceptProposal(m)
    PROVE  SaveInv'
<1>1. /\ worker[m].pc = "proposed" /\ worker' = [worker EXCEPT ![m].pc = "binding"]
      /\ pending[m] = NoPlan /\ doc[m] = worker[m].before
      /\ UNCHANGED <<policy, owner, phase, root, coverage, before, bound, approval,
                     successor, outbox, doc, journal, appLease, calls>>
  BY DEF AcceptProposal, At, Goto, store
<1>2. PICK j \in Job : j = worker[m].job
  BY <1>1, RunHasJob DEF Bare
<1> DEFINE plan == [job |-> j, phase |-> "document", before |-> doc[m]]
<1>3. /\ pending' = [pending EXCEPT ![m] = plan] /\ phase[j] = "summarizing"
      /\ root[j] = m /\ j # None /\ before[j] = doc[m] /\ calls[j] > 0 /\ j \notin Fresh
  BY <1>1, <1>2, RunHasJob, MemorySaveAssumption
     DEF AcceptProposal, MemorySaveAssumption, Knows, Asking, Bare
<1>4. /\ pending'[m] = plan /\ plan.job = j /\ plan.before = doc[m] /\ plan # NoPlan
      /\ \A n \in Memory \ {m} : pending'[n] = pending[n]
      /\ Fresh' = Fresh
  BY <1>1, <1>3 DEF SaveInv, TypeOK, Fresh, NoPlan
<1>5. /\ worker' \in [Memory -> Run]
      /\ worker'[m].pc = "binding" /\ worker'[m].job = j
      /\ \A n \in Memory \ {m} : worker'[n] = worker[n]
  BY <1>1, <1>2, GotoGoes DEF SaveInv, Pc
<1>6. TypeOK'
  BY <1>1, <1>3, <1>5 DEF SaveInv, TypeOK, Run
<1> HIDE DEF plan
<1>7. Unused'
  BY <1>1, <1>2, <1>3, <1>4, <1>5 DEF SaveInv, Unused
<1>8. Unique' /\ Lineage' /\ Jobs' /\ Traces'
  BY <1>1 DEF SaveInv, Unique, Lineage, Jobs, Traces
<1>9. Plans'
  BY <1>1, <1>3, <1>4 DEF SaveInv, Plans, Active
<1>10. Workers'
  <2>1. Knows(m)'
    BY <1>1, <1>3, <1>4, <1>5 DEF Knows, Bare, Asking, Committing
  <2>2. ASSUME NEW n \in Memory, n # m PROVE Knows(n)'
    BY <1>1, <1>4, <1>5, <2>2, KnowsStays
  <2> QED BY <2>1, <2>2 DEF Workers
<1>11. PlanOutlivesReceipt' /\ ReceiptIsBacked'
  <2>1. \A k \in bound : phase[k] # "local-saved" => root[k] # m
    BY <1>1, MemorySaveAssumption
       DEF SaveInv, TypeOK, PlanOutlivesReceipt, NoPlan, MemorySaveAssumption
  <2>2. \A k \in bound : root[k] \in Memory
    BY DEF SaveInv, TypeOK, Jobs, Active
  <2> QED BY <1>1, <1>4, <2>1, <2>2 DEF SaveInv, PlanOutlivesReceipt, ReceiptIsBacked
<1> QED BY <1>6, <1>7, <1>8, <1>9, <1>10, <1>11 DEF SaveInv

-----------------------------------------------------------------------------
(* The host commit.                                                        *)

LEMMA BindSessionKeeps ==
    ASSUME SaveInv, NEW m \in Memory, BindSession(m)
    PROVE  SaveInv'
<1>1. /\ worker[m].pc = "binding" /\ worker' = [worker EXCEPT ![m].pc = "applying"]
      /\ UNCHANGED <<policy, owner, phase, root, coverage, before, approval,
                     successor, outbox, pending, doc, journal, appLease, calls>>
  BY DEF BindSession, At, Goto, files
<1>2. PICK j \in Job : j = worker[m].job
  BY <1>1, RunHasJob DEF Bare
<1>3. /\ bound' = bound \cup {j} /\ pending[m].job = j
      /\ root[j] = m /\ j # None /\ j \notin Fresh
      /\ calls[j] > 0 /\ phase[j] \in Active \cup {"local-saved"}
  BY <1>1, <1>2, RunHasJob, MemorySaveAssumption
     DEF BindSession, Planned, MemorySaveAssumption, Bare, SaveInv, Plans
<1>4. /\ worker' \in [Memory -> Run]
      /\ worker'[m].pc = "applying" /\ worker'[m].job = j
      /\ \A n \in Memory \ {m} : worker'[n] = worker[n]
  BY <1>1, <1>2, GotoGoes DEF SaveInv, Pc
<1>5. TypeOK'
  BY <1>1, <1>3, <1>4 DEF SaveInv, TypeOK, Run
<1>6. Unused'
  BY <1>1, <1>2, <1>3, <1>4 DEF SaveInv, Unused, Fresh
<1>7. Unique' /\ Lineage' /\ Plans' /\ Traces'
  BY <1>1, <1>3 DEF SaveInv, Unique, Lineage, Plans, Traces
<1>8. Jobs'
  BY <1>1, <1>3 DEF SaveInv, Jobs
<1>9. Workers'
  <2>1. Knows(m)'
    BY <1>1, <1>3, <1>4 DEF Knows, Bare, Asking, Committing
  <2>2. ASSUME NEW n \in Memory, n # m PROVE Knows(n)'
    BY <1>1, <1>3, <1>4, <2>2, KnowsStays
  <2> QED BY <2>1, <2>2 DEF Workers
<1>10. PlanOutlivesReceipt' /\ ReceiptIsBacked'
  BY <1>1, <1>3 DEF SaveInv, PlanOutlivesReceipt, ReceiptIsBacked
<1> QED BY <1>5, <1>6, <1>7, <1>8, <1>9, <1>10 DEF SaveInv

Plan == [job : Job \cup {None}, phase : {"none", "document", "journal", "state", "outcome"},
         before : Text \cup Job \cup {None}]

\* A step of the run that applies the bound plan of its job.
LEMMA HostStepKeeps ==
    ASSUME SaveInv, NEW m \in Memory, NEW j \in Job,
           worker[m].job = j, worker[m].pc \in Committing,
           UNCHANGED <<store, appLease, calls>>,
           worker' \in [Memory -> Run], worker'[m].job = j,
           \A n \in Memory \ {m} : worker'[n] = worker[n],
           pending' \in [Memory -> Plan],
           pending'[m].job = j, pending'[m].before = pending[m].before,
           \A n \in Memory \ {m} : pending'[n] = pending[n],
           doc' \in [Memory -> Text \cup Job], doc'[m] \in {doc[m], j},
           \A n \in Memory \ {m} : doc'[n] = doc[n],
           journal' \in [Memory -> SUBSET Job], journal'[m] \in {journal[m], journal[m] \cup {j}},
           \A n \in Memory \ {m} : journal'[n] = journal[n],
           Knows(m)'
    PROVE  SaveInv'
<1> USE DEF store
<1>1. /\ j \in bound /\ pending[m].job = j /\ j # None /\ j \notin Fresh
      /\ root[j] = m
  BY RunHasJob, MemorySaveAssumption DEF Knows, Committing, MemorySaveAssumption
<1>2. TypeOK'
  BY DEF SaveInv, TypeOK, Run, Plan
<1>3. \A n \in Memory : pending'[n].job = pending[n].job /\ pending'[n].before = pending[n].before
  BY <1>1
<1>4. Unused'
  <2>1. \A k \in Fresh, n \in Memory : worker'[n].job # k
    BY <1>1 DEF SaveInv, Unused
  <2>2. \A k \in Fresh, n \in Memory : doc'[n] # k /\ k \notin journal'[n]
    BY <1>1 DEF SaveInv, Unused
  <2> QED BY <1>3, <2>1, <2>2 DEF SaveInv, Unused, Fresh
<1>5. Unique' /\ Lineage' /\ Jobs'
  BY DEF SaveInv, Unique, Lineage, Jobs
<1>6. Plans'
  <2>1. pending'[m] # NoPlan /\ pending[m] # NoPlan
    BY <1>1 DEF NoPlan
  <2>2. \A n \in Memory : pending'[n] = NoPlan <=> pending[n] = NoPlan
    BY <2>1
  <2> QED BY <1>3, <2>2 DEF SaveInv, Plans
<1>7. Traces'
  BY <1>1 DEF SaveInv, Traces
<1>8. Workers'
  <2>1. ASSUME NEW n \in Memory, n # m PROVE Knows(n)'
    BY <2>1, KnowsStays
  <2> QED BY <2>1 DEF Workers
<1>9. PlanOutlivesReceipt'
  <2>1. \A k \in bound : root[k] \in Memory
    BY DEF SaveInv, TypeOK, Jobs, Active
  <2> QED BY <1>3, <2>1 DEF SaveInv, PlanOutlivesReceipt
<1>10. ReceiptIsBacked'
  <2>1. \A n \in Memory : journal[n] \subseteq journal'[n]
    OBVIOUS
  <2>2. \A k \in Job : phase[k] = "local-saved" => root[k] \in Memory
    BY DEF SaveInv, Jobs
  <2> QED BY <2>1, <2>2 DEF SaveInv, ReceiptIsBacked
<1> QED BY <1>2, <1>4, <1>5, <1>6, <1>7, <1>8, <1>9, <1>10 DEF SaveInv

\* A plan gets to its next phase.
LEMMA PlanAdvances ==
    ASSUME SaveInv, NEW m \in Memory,
           NEW to \in {"document", "journal", "state", "outcome"},
           pending' = [pending EXCEPT ![m].phase = to]
    PROVE  /\ pending' \in [Memory -> Plan]
           /\ pending'[m].job = pending[m].job /\ pending'[m].before = pending[m].before
           /\ \A n \in Memory \ {m} : pending'[n] = pending[n]
<1>1. pending \in [Memory -> Plan]
  BY DEF SaveInv, TypeOK, Plan
<1> QED BY <1>1 DEF Plan

\* What the steps below have in common.
LEMMA ApplyingRun ==
    ASSUME SaveInv, NEW m \in Memory, worker[m].pc \in Committing
    PROVE  /\ worker[m].job \in bound /\ worker[m].job \in Job /\ root[worker[m].job] = m
           /\ pending[m].job = worker[m].job /\ Knows(m)
           /\ worker \in [Memory -> Run] /\ pending \in [Memory -> Plan]
           /\ doc \in [Memory -> Text \cup Job] /\ journal \in [Memory -> SUBSET Job]
<1>1. worker[m].job # None
  BY RunHasJob DEF Committing, Bare
<1> QED BY <1>1, RunHasJob DEF SaveInv, TypeOK, Run, Plan, Knows

LEMMA WriteDocumentKeeps ==
    ASSUME SaveInv, NEW m \in Memory, WriteDocument(m)
    PROVE  SaveInv'
<1>1. /\ worker[m].pc = "applying" /\ worker' = [worker EXCEPT ![m].pc = "written"]
      /\ doc' = [doc EXCEPT ![m] = pending[m].job]
      /\ UNCHANGED <<store, pending, journal, appLease, calls>>
  BY DEF WriteDocument, Applying, At, Goto
<1>2. worker[m].pc \in Committing
  BY <1>1 DEF Committing
<1>3. PICK j \in Job : j = worker[m].job
  BY <1>2, ApplyingRun
<1>4. /\ worker' \in [Memory -> Run] /\ worker'[m].pc = "written" /\ worker'[m].job = j
      /\ \A n \in Memory \ {m} : worker'[n] = worker[n]
  BY <1>1, <1>3, GotoGoes DEF SaveInv, Pc
<1>5. /\ doc' \in [Memory -> Text \cup Job] /\ doc'[m] = j
      /\ \A n \in Memory \ {m} : doc'[n] = doc[n]
  BY <1>1, <1>2, <1>3, ApplyingRun
<1>6. Knows(m)'
  BY <1>1, <1>2, <1>3, <1>4, ApplyingRun DEF Knows, Bare, Asking, Committing, store
<1>7. /\ pending' \in [Memory -> Plan] /\ pending'[m].job = j
      /\ journal' \in [Memory -> SUBSET Job]
  BY <1>1, <1>2, <1>3, ApplyingRun
<1> QED BY <1>1, <1>2, <1>3, <1>4, <1>5, <1>6, <1>7, HostStepKeeps

LEMMA AdvanceToJournalKeeps ==
    ASSUME SaveInv, NEW m \in Memory, AdvanceToJournal(m)
    PROVE  SaveInv'
<1>1. /\ worker[m].pc = "written" /\ worker' = [worker EXCEPT ![m].pc = "applying"]
      /\ pending' = [pending EXCEPT ![m].phase = "journal"]
      /\ UNCHANGED <<store, doc, journal, appLease, calls>>
  BY DEF AdvanceToJournal, At, Goto
<1>2. worker[m].pc \in Committing
  BY <1>1 DEF Committing
<1>3. PICK j \in Job : j = worker[m].job
  BY <1>2, ApplyingRun
<1>4. /\ worker' \in [Memory -> Run] /\ worker'[m].pc = "applying" /\ worker'[m].job = j
      /\ \A n \in Memory \ {m} : worker'[n] = worker[n]
  BY <1>1, <1>3, GotoGoes DEF SaveInv, Pc
<1>5. /\ pending' \in [Memory -> Plan]
      /\ pending'[m].job = j /\ pending'[m].before = pending[m].before
      /\ \A n \in Memory \ {m} : pending'[n] = pending[n]
  BY <1>1, <1>2, <1>3, PlanAdvances, ApplyingRun
<1>6. Knows(m)'
  BY <1>1, <1>2, <1>3, <1>4, <1>5, ApplyingRun DEF Knows, Bare, Asking, Committing, store
<1>7. doc' \in [Memory -> Text \cup Job] /\ journal' \in [Memory -> SUBSET Job]
  BY <1>1, <1>2, ApplyingRun
<1> QED BY <1>1, <1>2, <1>3, <1>4, <1>5, <1>6, <1>7, HostStepKeeps

LEMMA AppendJournalKeeps ==
    ASSUME SaveInv, NEW m \in Memory, AppendJournal(m)
    PROVE  SaveInv'
<1>1. /\ worker[m].pc = "applying" /\ journal' = [journal EXCEPT ![m] = @ \cup {pending[m].job}]
      /\ pending' = [pending EXCEPT ![m].phase = "state"]
      /\ UNCHANGED <<store, doc, worker, appLease, calls>>
  BY DEF AppendJournal, Applying, At
<1>2. worker[m].pc \in Committing
  BY <1>1 DEF Committing
<1>3. PICK j \in Job : j = worker[m].job
  BY <1>2, ApplyingRun
<1>4. /\ pending' \in [Memory -> Plan]
      /\ pending'[m].job = j /\ pending'[m].before = pending[m].before
      /\ \A n \in Memory \ {m} : pending'[n] = pending[n]
  BY <1>1, <1>2, <1>3, PlanAdvances, ApplyingRun
<1>5. /\ journal' \in [Memory -> SUBSET Job] /\ journal'[m] = journal[m] \cup {j}
      /\ \A n \in Memory \ {m} : journal'[n] = journal[n]
  BY <1>1, <1>2, <1>3, ApplyingRun
<1>6. Knows(m)'
  BY <1>1, <1>2, <1>3, <1>4, <1>5, ApplyingRun DEF Knows, Bare, Asking, Committing, store
<1>7. doc' \in [Memory -> Text \cup Job] /\ worker' \in [Memory -> Run]
  BY <1>1, <1>2, ApplyingRun
<1> QED BY <1>1, <1>2, <1>3, <1>4, <1>5, <1>6, <1>7, HostStepKeeps

LEMMA WriteStateKeeps ==
    ASSUME SaveInv, NEW m \in Memory, WriteState(m)
    PROVE  SaveInv'
<1>1. /\ worker[m].pc = "applying" /\ pending' = [pending EXCEPT ![m].phase = "outcome"]
      /\ UNCHANGED <<store, doc, journal, worker, appLease, calls>>
  BY DEF WriteState, Applying, At
<1>2. worker[m].pc \in Committing
  BY <1>1 DEF Committing
<1>3. PICK j \in Job : j = worker[m].job
  BY <1>2, ApplyingRun
<1>4. /\ pending' \in [Memory -> Plan]
      /\ pending'[m].job = j /\ pending'[m].before = pending[m].before
      /\ \A n \in Memory \ {m} : pending'[n] = pending[n]
  BY <1>1, <1>2, <1>3, PlanAdvances, ApplyingRun
<1>5. Knows(m)'
  BY <1>1, <1>2, <1>3, <1>4, ApplyingRun DEF Knows, Bare, Asking, Committing, store
<1>6. /\ doc' \in [Memory -> Text \cup Job] /\ journal' \in [Memory -> SUBSET Job]
      /\ worker' \in [Memory -> Run]
  BY <1>1, <1>2, ApplyingRun
<1> QED BY <1>1, <1>2, <1>3, <1>4, <1>5, <1>6, HostStepKeeps

LEMMA RecheckKeeps == ASSUME SaveInv, NEW m \in Memory, Recheck(m) PROVE SaveInv'
<1>1. /\ worker[m].pc = "registered" /\ worker' = [worker EXCEPT ![m].pc = "verified"]
      /\ journal' = [journal EXCEPT ![m] = @ \cup {pending[m].job}]
      /\ UNCHANGED <<store, pending, doc, appLease, calls>>
  BY DEF Recheck, At, Goto
<1>2. worker[m].pc \in Committing
  BY <1>1 DEF Committing
<1>3. PICK j \in Job : j = worker[m].job
  BY <1>2, ApplyingRun
<1>4. /\ worker' \in [Memory -> Run] /\ worker'[m].pc = "verified" /\ worker'[m].job = j
      /\ \A n \in Memory \ {m} : worker'[n] = worker[n]
  BY <1>1, <1>3, GotoGoes DEF SaveInv, Pc
<1>5. /\ journal' \in [Memory -> SUBSET Job] /\ journal'[m] = journal[m] \cup {j}
      /\ \A n \in Memory \ {m} : journal'[n] = journal[n]
  BY <1>1, <1>2, <1>3, ApplyingRun
<1>6. Knows(m)'
  BY <1>1, <1>2, <1>3, <1>4, <1>5, ApplyingRun DEF Knows, Bare, Asking, Committing, store
<1>7. /\ doc' \in [Memory -> Text \cup Job] /\ pending' \in [Memory -> Plan]
      /\ pending'[m].job = j
  BY <1>1, <1>2, <1>3, ApplyingRun
<1> QED BY <1>1, <1>2, <1>3, <1>4, <1>5, <1>6, <1>7, HostStepKeeps

\* The receipt: the attempt of a run is over, its text is in the journal.
LEMMA CommitLocalKeeps ==
    ASSUME SaveInv, NEW m \in Memory, CommitLocal(m)
    PROVE  SaveInv'
<1>1. /\ worker[m].pc = "verified" /\ worker' = [worker EXCEPT ![m].pc = "committed"]
      /\ UNCHANGED <<policy, owner, root, coverage, before, bound, approval,
                     successor, pending, doc, journal, appLease, calls>>
  BY DEF CommitLocal, At, Goto, files
<1>2. worker[m].pc \in Committing
  BY <1>1 DEF Committing
<1>3. PICK j \in Job : j = worker[m].job
  BY <1>2, ApplyingRun
<1>4. /\ j \in bound /\ phase[j] \in Active /\ j \in journal[m] /\ root[j] = m
      /\ pending[m].job = j /\ j \notin Fresh /\ j # None
      /\ phase' = [phase EXCEPT ![j] = "local-saved"]
      /\ outbox' \in {outbox, outbox \cup {j}}
  BY <1>1, <1>2, <1>3, ApplyingRun, RunHasJob, MemorySaveAssumption
     DEF CommitLocal, Knows, MemorySaveAssumption
<1>5. /\ phase'[j] = "local-saved" /\ \A k \in Job \ {j} : phase'[k] = phase[k]
      /\ Fresh' = Fresh
  BY <1>4 DEF SaveInv, TypeOK, Fresh
<1>6. /\ worker' \in [Memory -> Run] /\ worker'[m].pc = "committed" /\ worker'[m].job = j
      /\ \A n \in Memory \ {m} : worker'[n] = worker[n]
  BY <1>1, <1>3, GotoGoes DEF SaveInv, Pc
<1>7. TypeOK'
  BY <1>1, <1>4, <1>6 DEF SaveInv, TypeOK, Run, Closed
<1>8. Unused'
  BY <1>1, <1>3, <1>4, <1>5, <1>6 DEF SaveInv, Unused
<1>9. Unique'
  BY <1>1, <1>5 DEF SaveInv, Unique, Open, Active
<1>10. Lineage'
  BY <1>1, <1>4, <1>5 DEF SaveInv, TypeOK, Lineage, Active
<1>11. Jobs'
  BY <1>1, <1>4, <1>5 DEF SaveInv, Jobs, Active
<1>12. Plans' /\ Traces'
  BY <1>1, <1>4, <1>5 DEF SaveInv, TypeOK, Plans, Traces
<1>13. Workers'
  <2>1. Knows(m)'
    BY <1>1, <1>3, <1>4, <1>5, <1>6, <1>2, ApplyingRun
       DEF Knows, Bare, Asking, Committing
  <2>2. ASSUME NEW n \in Memory, n # m PROVE Knows(n)'
    <3>1. worker[n].job # j /\ worker[n].job \in Job \cup {None}
      BY <1>3, <1>4, <2>2, JobsApart, RunHasJob
    <3> QED BY <1>1, <1>5, <1>6, <2>2, <3>1, KnowsStays
  <2> QED BY <2>1, <2>2 DEF Workers
<1>14. PlanOutlivesReceipt' /\ ReceiptIsBacked'
  BY <1>1, <1>4, <1>5 DEF SaveInv, TypeOK, PlanOutlivesReceipt, ReceiptIsBacked
<1> QED BY <1>7, <1>8, <1>9, <1>10, <1>11, <1>12, <1>13, <1>14 DEF SaveInv

\* The plan goes when its job has the receipt.
LEMMA FinishSessionKeeps ==
    ASSUME SaveInv, NEW m \in Memory, FinishSession(m)
    PROVE  SaveInv'
<1>1. /\ worker[m].pc \in Committing /\ Leave(m)
      /\ pending' = [pending EXCEPT ![m] = NoPlan]
      /\ UNCHANGED <<policy, owner, phase, root, coverage, before, bound, approval,
                     successor, outbox, doc, journal, calls>>
  BY DEF FinishSession, At, Committing, store
<1>2. PICK j \in Job : j = worker[m].job
  BY <1>1, ApplyingRun
<1>3. pending[m].job = j /\ phase[j] = "local-saved"
  BY <1>1, <1>2, ApplyingRun DEF FinishSession, At, Knows
<1>4. /\ worker' \in [Memory -> Run] /\ worker'[m] = Idle /\ appLease' \in Memory \cup {None}
      /\ \A n \in Memory \ {m} : worker'[n] = worker[n]
  BY <1>1, LeaveLeaves DEF SaveInv
<1>5. /\ pending' \in [Memory -> Plan] /\ pending'[m] = NoPlan
      /\ \A n \in Memory \ {m} : pending'[n] = pending[n]
  BY <1>1 DEF SaveInv, TypeOK, Plan, NoPlan
<1>6. TypeOK'
  BY <1>1, <1>4, <1>5 DEF SaveInv, TypeOK, Run, Plan
<1>7. NoPlan.job = None /\ Idle.job = None /\ None \notin Job
  BY MemorySaveAssumption DEF NoPlan, Idle, MemorySaveAssumption
<1>8. Unused'
  BY <1>1, <1>4, <1>5, <1>7 DEF SaveInv, Unused, Fresh
<1>9. Unique' /\ Lineage' /\ Jobs' /\ Traces'
  BY <1>1 DEF SaveInv, Unique, Lineage, Jobs, Traces
<1>10. Plans'
  BY <1>1, <1>5, <1>7 DEF SaveInv, Plans
<1>11. Workers'
  <2>1. Knows(m)'
    BY <1>4, IdleKnows
  <2>2. ASSUME NEW n \in Memory, n # m PROVE Knows(n)'
    BY <1>1, <1>4, <1>5, <2>2, KnowsStays
  <2> QED BY <2>1, <2>2 DEF Workers
<1>12. PlanOutlivesReceipt' /\ ReceiptIsBacked'
  <2>1. \A k \in bound : phase[k] # "local-saved" => root[k] # m
    BY <1>3 DEF SaveInv, PlanOutlivesReceipt
  <2>2. \A k \in bound : root[k] \in Memory
    BY DEF SaveInv, TypeOK, Jobs, Active
  <2> QED BY <1>1, <1>5, <2>1, <2>2 DEF SaveInv, PlanOutlivesReceipt, ReceiptIsBacked
<1> QED BY <1>6, <1>8, <1>9, <1>10, <1>11, <1>12 DEF SaveInv

\* A run that fails leaves its attempt unresolved, marked or not.
LEMMA FailKeeps == ASSUME SaveInv, NEW m \in Memory, Fail(m) PROVE SaveInv'
<1>1. /\ Leave(m)
      /\ UNCHANGED <<policy, owner, root, coverage, before, bound, approval,
                     successor, outbox, pending, doc, journal, calls>>
  BY DEF Fail, files
<1>2. /\ worker' \in [Memory -> Run] /\ worker'[m] = Idle /\ appLease' \in Memory \cup {None}
      /\ \A n \in Memory \ {m} : worker'[n] = worker[n]
  BY <1>1, LeaveLeaves DEF SaveInv
<1>3. CASE UNCHANGED phase
  <2>1. UNCHANGED <<store, files, calls>>
    BY <1>1, <1>3 DEF store, files
  <2>2. Idle.job = None
    BY DEF Idle
  <2>3. Knows(m)'
    BY <1>2, IdleKnows
  <2> QED BY <1>2, <2>1, <2>2, <2>3, RunMoves
<1>4. CASE /\ worker[m].job # None /\ phase[worker[m].job] = "summarizing"
           /\ phase' = [phase EXCEPT ![worker[m].job] = "recovery-required"]
  <2>1. PICK j \in Job : j = worker[m].job
    BY <1>4, RunHasJob
  <2>2. /\ phase[j] = "summarizing" /\ phase'[j] = "recovery-required" /\ j # None
        /\ phase' = [phase EXCEPT ![j] = "recovery-required"]
        /\ \A k \in Job \ {j} : phase'[k] = phase[k]
        /\ Fresh' = Fresh
    BY <1>4, <2>1 DEF SaveInv, TypeOK, Fresh
  <2>3. TypeOK'
    BY <1>1, <1>2, <2>2 DEF SaveInv, TypeOK, Run, Active
  <2>4. Unused'
    <3>1. Idle.job = None /\ None \notin Job
      BY MemorySaveAssumption DEF Idle, MemorySaveAssumption
    <3> QED BY <1>1, <1>2, <2>2, <3>1 DEF SaveInv, Unused, Fresh
  <2>5. Unique'
    BY <1>1, <2>2 DEF SaveInv, Unique, Open, Active
  <2>6. Lineage'
    BY <1>1, <2>2 DEF SaveInv, TypeOK, Lineage
  <2>7. Jobs'
    BY <1>1, <2>2 DEF SaveInv, Jobs, Active
  <2>8. Plans' /\ Traces'
    BY <1>1, <2>2 DEF SaveInv, TypeOK, Plans, Traces, Active
  <2>9. Workers'
    <3>1. Knows(m)'
      BY <1>2, IdleKnows
    <3>2. ASSUME NEW n \in Memory, n # m PROVE Knows(n)'
      <4>1. worker[n].job # j /\ worker[n].job \in Job \cup {None}
        BY <2>1, <2>2, <3>2, JobsApart, RunHasJob
      <4> QED BY <1>1, <1>2, <2>2, <3>2, <4>1, KnowsStays
    <3> QED BY <3>1, <3>2 DEF Workers
  <2>10. PlanOutlivesReceipt' /\ ReceiptIsBacked'
    BY <1>1, <2>2 DEF SaveInv, TypeOK, PlanOutlivesReceipt, ReceiptIsBacked
  <2> QED BY <2>3, <2>4, <2>5, <2>6, <2>7, <2>8, <2>9, <2>10 DEF SaveInv
<1> QED BY <1>3, <1>4 DEF Fail

-----------------------------------------------------------------------------
(* New jobs.                                                               *)

LEMMA ReserveKeeps == ASSUME SaveInv, NEW m \in Memory, Reserve(m) PROVE SaveInv'
<1>1. PICK j \in Fresh :
          /\ owner' = [s \in Source |-> IF s \in worker[m].want THEN j ELSE owner[s]]
          /\ phase' = [phase EXCEPT ![j] = "prepared"]
          /\ root' = [root EXCEPT ![j] = m]
          /\ coverage' = [coverage EXCEPT ![j] = worker[m].want]
          /\ before' = [before EXCEPT ![j] = worker[m].before]
          /\ worker' = [worker EXCEPT ![m].pc = "reserved", ![m].job = j]
  BY DEF Reserve
<1>2. /\ worker[m].pc = "prepared" /\ OpenJob(m) = {}
      /\ \A s \in worker[m].want : owner[s] = None
      /\ UNCHANGED <<policy, bound, approval, successor, outbox, pending, doc, journal,
                     appLease, calls>>
  BY DEF Reserve, At, files
<1>3. /\ j \in Job /\ j # None /\ phase[j] = "absent" /\ root[j] = None
      /\ successor[j] = None /\ \A k \in Job : successor[k] # j
      /\ j \notin bound /\ j \notin outbox
      /\ \A n \in Memory : /\ doc[n] # j /\ j \notin journal[n]
                           /\ pending[n].job # j /\ worker[n].job # j
  BY MemorySaveAssumption DEF Fresh, SaveInv, Unused, MemorySaveAssumption
<1>4. /\ worker[m] \in Run /\ worker[m].job = None /\ worker[m].want # {}
      /\ worker[m].want \subseteq Source /\ worker \in [Memory -> Run]
  BY <1>2, RunHasJob DEF Knows, Bare, Run, SaveInv, TypeOK
<1>5. /\ phase'[j] = "prepared" /\ root'[j] = m /\ coverage'[j] = worker[m].want
      /\ before'[j] = worker[m].before
      /\ \A k \in Job \ {j} : /\ phase'[k] = phase[k] /\ root'[k] = root[k]
                              /\ coverage'[k] = coverage[k] /\ before'[k] = before[k]
  BY <1>1, <1>3 DEF SaveInv, TypeOK
<1>6. /\ worker' \in [Memory -> Run] /\ worker'[m].pc = "reserved" /\ worker'[m].job = j
      /\ worker'[m].before = worker[m].before
      /\ \A n \in Memory \ {m} : worker'[n] = worker[n]
  BY <1>1, <1>3, <1>4 DEF Run, Pc
<1>7. \A s \in Source : owner'[s] = IF s \in worker[m].want THEN j ELSE owner[s]
  BY <1>1
<1>8. TypeOK'
  <2>1. owner' \in [Source -> Job \cup {None}]
    BY <1>1, <1>3 DEF SaveInv, TypeOK
  <2>2. phase' \in [Job -> {"absent", "prepared"} \cup Active \cup Closed]
    BY <1>1 DEF SaveInv, TypeOK
  <2>3. /\ root' \in [Job -> Memory \cup {None}] /\ coverage' \in [Job -> SUBSET Source]
        /\ before' \in [Job -> Text \cup Job \cup {None}]
    BY <1>1, <1>4 DEF SaveInv, TypeOK, Run
  <2> QED BY <1>2, <1>6, <2>1, <2>2, <2>3 DEF SaveInv, TypeOK, Run
<1>9. Fresh' = Fresh \ {j}
  BY <1>3, <1>5 DEF Fresh
<1>10. Unused'
  <2>1. ASSUME NEW k \in Fresh, k # j
        PROVE  /\ root'[k] = None /\ coverage'[k] = {}
               /\ \A n \in Memory : worker'[n].job # k
    BY <1>5, <1>6, <2>1 DEF SaveInv, Unused, Fresh
  <2> QED BY <1>2, <1>9, <2>1 DEF SaveInv, Unused
<1>11. Unique'
  <2>1. \A k \in Job : root[k] = m => phase[k] \notin Open
    BY <1>2 DEF OpenJob, Open, Active, Closed, SaveInv, TypeOK
  <2> QED BY <1>2, <1>3, <1>5, <2>1 DEF SaveInv, Unique, Open, Active
<1>12. Lineage'
  <2>1. ASSUME NEW p \in Job, successor[p] # None
        PROVE  p # j /\ successor[p] # j /\ successor[p] \in Job
    BY <1>3, <2>1 DEF SaveInv, TypeOK
  <2> QED BY <1>2, <1>3, <1>5, <2>1 DEF SaveInv, Lineage
<1>13. Jobs'
  <2>1. ASSUME NEW k \in Job, k # j, NEW s \in coverage[k]
        PROVE  owner'[s] = owner[s] /\ owner[s] # None
    BY <1>2, <1>7, <2>1 DEF SaveInv, TypeOK, Jobs
  <2>2. \A s \in coverage'[j] : owner'[s] = j
    BY <1>4, <1>5, <1>7
  <2>3. calls[j] = 0
    BY <1>3 DEF SaveInv, Jobs
  <2> QED BY <1>2, <1>3, <1>4, <1>5, <2>1, <2>2, <2>3 DEF SaveInv, Jobs
<1>14. Plans' /\ Traces'
  <2>1. \A n \in Memory : pending[n].job \in Job \cup {None}
    BY DEF SaveInv, TypeOK
  <2> QED BY <1>2, <1>3, <1>5, <2>1 DEF SaveInv, Plans, Traces
<1>15. Workers'
  <2>1. Knows(m)'
    BY <1>3, <1>5, <1>6 DEF Knows, Bare, Asking, Committing
  <2>2. ASSUME NEW n \in Memory, n # m PROVE Knows(n)'
    <3>1. worker[n].job # j /\ worker[n].job \in Job \cup {None}
      BY <1>3, RunHasJob
    <3>2. worker[n].parent \in Job \cup {None}
      BY RunHasJob DEF Run
    <3>3. CASE worker[n].parent # j
      BY <1>2, <1>5, <1>6, <2>2, <3>1, <3>2, <3>3, KnowsStays
    <3>4. CASE worker[n].parent = j
      <4>1. worker[n].pc # "approved" /\ worker'[n].pc = worker[n].pc
        BY <1>3, <1>6, <2>2, <3>4, RunHasJob, MemorySaveAssumption
           DEF Knows, MemorySaveAssumption
      <4>2. Knows(n) /\ (worker[n].pc \in Asking \cup Committing => worker[n].job # None)
        BY RunHasJob DEF Bare, Asking, Committing
      <4> QED BY <1>2, <1>5, <1>6, <2>2, <3>1, <4>1, <4>2
              DEF Knows, Bare, Asking, Committing
    <3> QED BY <3>3, <3>4
  <2> QED BY <2>1, <2>2 DEF Workers
<1>16. PlanOutlivesReceipt' /\ ReceiptIsBacked'
  <2>1. \A k \in bound : k # j /\ k \in Job
    BY <1>3 DEF SaveInv, TypeOK
  <2>2. PlanOutlivesReceipt'
    BY <1>2, <1>5, <2>1 DEF SaveInv, PlanOutlivesReceipt
  <2>3. \A k \in outbox : k # j /\ k \in Job
    BY <1>3 DEF SaveInv, TypeOK
  <2>4. ReceiptIsBacked'
    BY <1>2, <1>3, <1>5, <2>3 DEF SaveInv, ReceiptIsBacked
  <2> QED BY <2>2, <2>4
<1> QED BY <1>8, <1>10, <1>11, <1>12, <1>13, <1>14, <1>15, <1>16 DEF SaveInv

\* The parent is given up and the successor is the one attempt.
LEMMA AdmitSuccessorKeeps ==
    ASSUME SaveInv, NEW m \in Memory, AdmitSuccessor(m)
    PROVE  SaveInv'
<1>1. /\ worker[m].pc = "approved"
      /\ Candidate(worker[m].parent) /\ Admissible({worker[m].parent})
      /\ UNCHANGED <<policy, owner, bound, outbox, pending, doc, journal, appLease, calls>>
  BY DEF AdmitSuccessor, At, files
<1>2. /\ worker[m] \in Run /\ worker[m].job = None /\ worker \in [Memory -> Run]
      /\ worker[m].parent # None /\ root[worker[m].parent] = m /\ pending[m] = NoPlan
  BY <1>1, RunHasJob DEF Knows, Bare, SaveInv, TypeOK, Run
<1>3. PICK p \in Job : p = worker[m].parent
  BY <1>2 DEF Run
<1>4. PICK j \in Fresh :
          /\ phase' = [phase EXCEPT ![p] = "superseded-unknown", ![j] = "summarizing"]
          /\ root' = [root EXCEPT ![j] = m]
          /\ coverage' = [coverage EXCEPT ![j] = coverage[p]]
          /\ before' = [before EXCEPT ![j] = worker[m].before]
          /\ successor' = [successor EXCEPT ![p] = j]
          /\ worker' = [worker EXCEPT ![m].pc = "admitted", ![m].job = j]
          /\ approval' = [approval EXCEPT ![p] = "consumed"]
  BY <1>3 DEF AdmitSuccessor
<1>5. /\ j \in Job /\ j # None /\ phase[j] = "absent" /\ root[j] = None
      /\ successor[j] = None /\ \A k \in Job : successor[k] # j
      /\ j \notin bound /\ j \notin outbox
      /\ \A n \in Memory : /\ doc[n] # j /\ j \notin journal[n]
                           /\ pending[n].job # j /\ worker[n].job # j
  BY MemorySaveAssumption DEF Fresh, SaveInv, Unused, MemorySaveAssumption
<1>6. /\ phase[p] = "recovery-required" /\ p \notin bound /\ p # j /\ root[p] = m
      /\ successor[p] = None /\ p # None
      /\ \A k \in Job : successor[k] # p
      /\ \A k \in Job \ {p} : phase[k] \notin Active
  BY <1>1, <1>2, <1>3, <1>5 DEF Candidate, Admissible
<1>7. /\ phase'[p] = "superseded-unknown" /\ phase'[j] = "summarizing"
      /\ root'[j] = m /\ coverage'[j] = coverage[p] /\ before'[j] = worker[m].before
      /\ successor'[p] = j /\ approval'[p] = "consumed"
      /\ \A k \in Job \ {j} : /\ root'[k] = root[k] /\ coverage'[k] = coverage[k]
                              /\ before'[k] = before[k]
      /\ \A k \in Job \ {p} : successor'[k] = successor[k] /\ approval'[k] = approval[k]
      /\ \A k \in Job \ {p, j} : phase'[k] = phase[k]
  BY <1>4, <1>5, <1>6 DEF SaveInv, TypeOK
<1>8. /\ worker' \in [Memory -> Run] /\ worker'[m].pc = "admitted" /\ worker'[m].job = j
      /\ worker'[m].before = worker[m].before
      /\ \A n \in Memory \ {m} : worker'[n] = worker[n]
  BY <1>2, <1>4, <1>5 DEF Run, Pc
<1>9. TypeOK'
  <2>1. phase' \in [Job -> {"absent", "prepared"} \cup Active \cup Closed]
    BY <1>4 DEF SaveInv, TypeOK, Active, Closed
  <2>2. /\ root' \in [Job -> Memory \cup {None}] /\ coverage' \in [Job -> SUBSET Source]
        /\ before' \in [Job -> Text \cup Job \cup {None}]
    BY <1>2, <1>4 DEF SaveInv, TypeOK, Run
  <2>3. /\ successor' \in [Job -> Job \cup {None}]
        /\ approval' \in [Job -> {"none", "reviewed", "consumed"}]
    BY <1>4, <1>5 DEF SaveInv, TypeOK
  <2> QED BY <1>1, <1>8, <2>1, <2>2, <2>3 DEF SaveInv, TypeOK, Run
<1>10. Fresh' = Fresh \ {j}
  BY <1>5, <1>6, <1>7 DEF Fresh
<1>11. Unused'
  <2>1. ASSUME NEW k \in Fresh, k # j
        PROVE  /\ root'[k] = None /\ coverage'[k] = {} /\ successor'[k] = None
               /\ \A i \in Job : successor'[i] # k
               /\ \A n \in Memory : worker'[n].job # k
    BY <1>6, <1>7, <1>8, <2>1 DEF SaveInv, Unused, Fresh
  <2> QED BY <1>1, <1>10, <2>1 DEF SaveInv, Unused
<1>12. Unique'
  <2>1. \A k \in Job \ {p, j} : phase[k] \in Open => root[k] # m
    BY <1>6 DEF SaveInv, Unique, Open, Active
  <2> QED BY <1>5, <1>6, <1>7, <2>1 DEF SaveInv, Unique, Open, Active
<1>13. Lineage'
  <2>1. ASSUME NEW q \in Job, q # p, successor[q] # None
        PROVE  /\ q # j /\ successor[q] \in Job /\ successor[q] # j /\ successor[q] # p
               /\ successor[successor[q]] = None
               /\ coverage[successor[q]] = coverage[q] /\ phase[successor[q]] # "prepared"
    BY <1>5, <1>6, <2>1 DEF SaveInv, TypeOK, Lineage
  <2>2. ASSUME NEW q \in Job
        PROVE  /\ phase'[q] = "superseded-unknown" <=> successor'[q] # None
               /\ approval'[q] = "consumed" <=> successor'[q] # None
    BY <1>5, <1>6, <1>7 DEF SaveInv, Lineage
  <2>3. ASSUME NEW q \in Job, successor'[q] # None
        PROVE  /\ successor'[successor'[q]] = None
               /\ coverage'[successor'[q]] = coverage'[q]
               /\ phase'[successor'[q]] # "prepared"
    <3>1. CASE q = p
      BY <1>5, <1>6, <1>7, <3>1
    <3>2. CASE q # p
      BY <1>5, <1>6, <1>7, <2>1, <2>3, <3>2
    <3> QED BY <3>1, <3>2
  <2> QED BY <2>2, <2>3 DEF Lineage
<1>14. Jobs'
  <2>1. \A s \in coverage[p] : owner[s] = p /\ s \in Source
    BY <1>6 DEF SaveInv, TypeOK, Jobs
  <2>2. ASSUME NEW k \in Job, k # j, NEW s \in coverage[k]
        PROVE  owner[s] # None /\ (k = owner[s] \/ k = successor'[owner[s]])
    BY <1>6, <1>7, <2>2, MemorySaveAssumption
       DEF SaveInv, TypeOK, Jobs, MemorySaveAssumption
  <2>3. \A s \in coverage'[j] : owner[s] # None /\ j = successor'[owner[s]]
    BY <1>6, <1>7, <2>1
  <2>4. calls[j] = 0 /\ coverage[p] # {}
    BY <1>5, <1>6 DEF SaveInv, Jobs
  <2> QED BY <1>1, <1>5, <1>6, <1>7, <2>2, <2>3, <2>4 DEF SaveInv, Jobs, Active
<1>15. Plans' /\ Traces'
  <2>1. \A n \in Memory : pending[n].job \in Job \cup {None} /\ pending[n].job # p
    BY <1>2, <1>6 DEF SaveInv, TypeOK, Plans, NoPlan
  <2> QED BY <1>1, <1>5, <1>7, <2>1 DEF SaveInv, Plans, Traces
<1>16. Workers'
  <2>1. Knows(m)'
    <3>1. calls[j] = 0
      BY <1>5 DEF SaveInv, Jobs
    <3> QED BY <1>1, <1>5, <1>7, <1>8, <3>1 DEF Knows, Bare, Asking, Committing
  <2>2. ASSUME NEW n \in Memory, n # m PROVE Knows(n)'
    <3>1. /\ worker[n].job \in Job \cup {None} /\ worker[n].job # j
          /\ worker[n].job # p
      BY <1>5, <1>6, <2>2, RunHasJob
    <3>2. worker[n].parent \in Job \cup {None}
      BY RunHasJob DEF Run
    <3>3. CASE worker[n].parent # j
      BY <1>1, <1>7, <1>8, <2>2, <3>1, <3>2, <3>3, KnowsStays
    <3>4. CASE worker[n].parent = j
      <4>1. worker[n].pc # "approved" /\ worker'[n].pc = worker[n].pc
        BY <1>5, <1>8, <2>2, <3>4, RunHasJob, MemorySaveAssumption
           DEF Knows, MemorySaveAssumption
      <4>2. Knows(n) /\ (worker[n].pc \in Asking \cup Committing => worker[n].job # None)
        BY RunHasJob DEF Bare, Asking, Committing
      <4> QED BY <1>1, <1>7, <1>8, <2>2, <3>1, <4>1, <4>2
              DEF Knows, Bare, Asking, Committing
    <3> QED BY <3>3, <3>4
  <2> QED BY <2>1, <2>2 DEF Workers
<1>17. PlanOutlivesReceipt' /\ ReceiptIsBacked'
  <2>1. \A k \in bound : k # j /\ k # p /\ k \in Job
    BY <1>5, <1>6 DEF SaveInv, TypeOK
  <2>2. PlanOutlivesReceipt'
    BY <1>1, <1>7, <2>1 DEF SaveInv, PlanOutlivesReceipt
  <2>3. \A k \in outbox : k # j /\ k # p /\ k \in Job
    BY <1>5, <1>6 DEF SaveInv, TypeOK, ReceiptIsBacked
  <2>4. ReceiptIsBacked'
    BY <1>1, <1>6, <1>7, <2>3 DEF SaveInv, ReceiptIsBacked
  <2> QED BY <2>2, <2>4
<1> QED BY <1>9, <1>11, <1>12, <1>13, <1>14, <1>15, <1>16, <1>17 DEF SaveInv

-----------------------------------------------------------------------------
(* The theorems about single states and single steps.                      *)

LEMMA SaveNext == SaveInv /\ [Next]_vars => SaveInv'
<1> SUFFICES ASSUME SaveInv, [Next]_vars PROVE SaveInv'
  OBVIOUS
<1>1. CASE UNCHANGED vars
  <2> USE <1>1 DEF vars, store, files, SaveInv
  <2>1. TypeOK'
    BY DEF TypeOK
  <2>2. Unused' /\ Unique' /\ Lineage' /\ Jobs' /\ Plans' /\ Traces'
    BY DEF Unused, Fresh, Unique, Lineage, Jobs, Plans, Traces
  <2>3. Workers'
    BY DEF Workers, Knows
  <2>4. PlanOutlivesReceipt' /\ ReceiptIsBacked'
    BY DEF PlanOutlivesReceipt, ReceiptIsBacked
  <2> QED BY <2>1, <2>2, <2>3, <2>4
<1>2. ASSUME NEW m \in Memory, Step(m) PROVE SaveInv'
  BY <1>2, PrepareUpdateKeeps, ReserveKeeps, BeginAttemptKeeps, RunReadsOn, CallModelKeeps,
     AcceptProposalKeeps, BindSessionKeeps, WriteDocumentKeeps, AdvanceToJournalKeeps,
     AppendJournalKeeps, WriteStateKeeps, RecheckKeeps, CommitLocalKeeps, FinishSessionKeeps,
     AdmitSuccessorKeeps DEF Step
<1> QED BY <1>1, <1>2, ChangePolicyKeeps, StartSaveKeeps, ResumePlanKeeps, FailKeeps,
           EditKeeps, ReviewKeeps, StartRecoveryKeeps DEF Next

\* The invariant holds whatever is saved, fails, dies, is reviewed or edited.
THEOREM SaveInvariant == Spec => []SaveInv
<1> QED BY SaveInit, SaveNext, PTL DEF Spec

\* CommitDiscipline: one unresolved attempt; a turn asked about once, or once
\* more after a review, and saved once; plans kept until the receipt is there,
\* and a receipt only of what the journal has.
THEOREM DisciplineHolds == Spec => []CommitDiscipline
<1> QED BY SaveInvariant, InvariantDiscipline, PTL

LEMMA WriteSeesText ==
    SaveInv /\ [Next]_vars =>
        \A m \in Memory : doc'[m] # doc[m] /\ doc'[m] \in Job => doc[m] = before[doc'[m]]
<1> SUFFICES ASSUME SaveInv, [Next]_vars, NEW m \in Memory, doc'[m] # doc[m], doc'[m] \in Job
             PROVE  doc[m] = before[doc'[m]]
  OBVIOUS
<1>1. \/ UNCHANGED doc
      \/ \E n \in Memory : WriteDocument(n) \/ Edit(n)
  BY DEF Next, Step, vars, files, store, ChangePolicy, StartSave, ResumePlan, Fail, Review,
         ReviewExpires, StartRecovery, PrepareUpdate, Reserve, BeginAttempt, Revalidate,
         CallModel, Answer, AcceptProposal, BindSession, AdvanceToJournal, AppendJournal,
         WriteState, Register, Recheck, CommitLocal, FinishSession, AdmitSuccessor
<1>2. PICK n \in Memory : WriteDocument(n) \/ Edit(n)
  BY <1>1
<1>3. doc \in [Memory -> Text \cup Job]
  BY DEF SaveInv, TypeOK
<1>4. CASE Edit(n)
  <2>1. PICK t \in Text : doc' = [doc EXCEPT ![n] = t]
    BY <1>4 DEF Edit
  <2>2. t \notin Job
    BY MemorySaveAssumption DEF MemorySaveAssumption
  <2> QED BY <1>3, <2>1, <2>2
<1>5. CASE WriteDocument(n)
  <2>1. /\ worker[n].pc \in Committing /\ doc[n] \in {pending[n].before, pending[n].job}
        /\ doc' = [doc EXCEPT ![n] = pending[n].job]
    BY <1>5 DEF WriteDocument, Applying, At, Committing
  <2>2. n = m /\ doc'[m] = pending[m].job /\ doc[m] = pending[m].before
    BY <1>3, <2>1
  <2>3. pending[m].job # None
    BY <2>2, MemorySaveAssumption DEF MemorySaveAssumption
  <2> QED BY <2>2, <2>3 DEF SaveInv, Plans
<1> QED BY <1>2, <1>4, <1>5

\* OnlySeenTextReplaced: a save replaces no text but the one it was made from.
THEOREM SeenTextReplaced == Spec => OnlySeenTextReplaced
<1>1. Init => SaveInv
  BY SaveInit
<1>2. SaveInv /\ [Next]_vars => SaveInv'
  BY SaveNext
<1>3. SaveInv /\ [Next]_vars =>
          [\A m \in Memory : doc'[m] # doc[m] /\ doc'[m] \in Job =>
               doc[m] = before[doc'[m]]]_vars
  BY WriteSeesText
<1> QED BY <1>1, <1>2, <1>3, PTL DEF Spec, OnlySeenTextReplaced

-----------------------------------------------------------------------------
(* The refinement: an attempt is a grant, a call uses it up, a receipt     *)
(* saves the turns of its job.                                             *)

Attempts(s) == {j \in Covering(s) : Attempted(j)}
AskedFor(s) == {j \in Covering(s) : calls[j] > 0}
SavedTurns == {s \in Source : \E j \in Covering(s) : phase[j] = "local-saved"}

CoveringBounded ==
    \A s \in Source : IsFiniteSet(Covering(s)) /\ Cardinality(Covering(s)) <= 2

\* Of the jobs about a turn one at most is not given up.
LiveAlone ==
    \A j, k \in Job : phase[j] # "superseded-unknown" /\ phase[k] # "superseded-unknown"
                      /\ coverage[j] \cap coverage[k] # {} => j = k

\* What the counters of the promise stand for.
AskedAttempted ==
    \A s \in Source :
        /\ AskedFor(s) \subseteq Attempts(s)
        /\ IsFiniteSet(Attempts(s)) /\ IsFiniteSet(AskedFor(s))
        /\ Cardinality(Attempts(s)) \in 0 .. 2 /\ Cardinality(AskedFor(s)) \in 0 .. 2

LEMMA InvBounded == SaveInv => CoveringBounded
BY CoveringFinite DEF CoveringBounded

LEMMA InvAlone == SaveInv => LiveAlone
<1> SUFFICES ASSUME SaveInv, NEW j \in Job, NEW k \in Job,
                    phase[j] # "superseded-unknown", phase[k] # "superseded-unknown",
                    NEW s \in coverage[j] \cap coverage[k]
             PROVE  j = k
  BY DEF LiveAlone
<1>1. s \in Source /\ j \in Covering(s) /\ k \in Covering(s)
  BY DEF SaveInv, TypeOK, Covering
<1>2. successor[j] = None /\ successor[k] = None /\ None \notin Job
  BY MemorySaveAssumption DEF SaveInv, Lineage, MemorySaveAssumption
<1> QED BY <1>1, <1>2, CoveringIsLineage

LEMMA InvAsked == SaveInv => AskedAttempted
<1> SUFFICES ASSUME SaveInv, NEW s \in Source
             PROVE  /\ AskedFor(s) \subseteq Attempts(s)
                    /\ IsFiniteSet(Attempts(s)) /\ IsFiniteSet(AskedFor(s))
                    /\ Cardinality(Attempts(s)) \in 0 .. 2
                    /\ Cardinality(AskedFor(s)) \in 0 .. 2
  BY DEF AskedAttempted
<1>1. AskedFor(s) \subseteq Attempts(s)
  BY DEF AskedFor, Attempts, Attempted, SaveInv, Jobs, TypeOK, Covering
<1>2. Attempts(s) \in SUBSET Covering(s) /\ AskedFor(s) \in SUBSET Covering(s)
  BY DEF AskedFor, Attempts
<1>3. IsFiniteSet(Covering(s)) /\ Cardinality(Covering(s)) <= 2
  BY CoveringFinite
<1>4. /\ IsFiniteSet(Attempts(s)) /\ IsFiniteSet(AskedFor(s))
      /\ Cardinality(Attempts(s)) <= Cardinality(Covering(s))
      /\ Cardinality(AskedFor(s)) <= Cardinality(Covering(s))
  BY <1>2, <1>3, FS_Subset
<1>5. /\ Cardinality(Attempts(s)) \in Nat /\ Cardinality(AskedFor(s)) \in Nat
      /\ Cardinality(Covering(s)) \in Nat
  BY <1>3, <1>4, FS_CardinalityType
<1> QED BY <1>1, <1>3, <1>4, <1>5

\* A job gets its attempt.
LEMMA AttemptIsGrant ==
    ASSUME SaveInv, SaveInv', NEW j \in Job,
           ~Attempted(j), phase'[j] = "summarizing",
           \A k \in Job \ {j} : /\ coverage'[k] = coverage[k]
                                /\ Attempted(k)' <=> Attempted(k)
                                /\ phase'[k] = "local-saved" <=> phase[k] = "local-saved",
           UNCHANGED calls
    PROVE  Authority!Next
<1>1. AskedAttempted /\ AskedAttempted' /\ LiveAlone'
  BY InvAsked, InvAlone, PTL
<1> DEFINE batch == coverage'[j]
<1>2. batch \in SUBSET Source /\ batch # {} /\ calls[j] = 0 /\ phase[j] # "local-saved"
  BY DEF SaveInv, TypeOK, Jobs, Attempted
<1>3. Attempted(j)'
  BY DEF Attempted
<1>4. SavedTurns' = SavedTurns /\ batch \cap SavedTurns = {}
  <2>1. \A s \in Source : (\E k \in Covering(s)' : phase'[k] = "local-saved")
                          <=> (\E k \in Covering(s) : phase[k] = "local-saved")
    BY <1>2 DEF Covering
  <2>2. SavedTurns' = SavedTurns
    BY <2>1 DEF SavedTurns
  <2>3. ASSUME NEW s \in batch, s \in SavedTurns PROVE FALSE
    <3>1. PICK k \in Job : s \in coverage[k] /\ phase[k] = "local-saved"
      BY <2>3 DEF SavedTurns, Covering
    <3>2. k # j /\ s \in coverage'[k] /\ phase'[k] = "local-saved"
      BY <1>2, <3>1
    <3> QED BY <1>1, <3>2 DEF LiveAlone
  <2> QED BY <2>2, <2>3
<1>5. ASSUME NEW s \in Source
      PROVE  /\ Cardinality(Attempts(s)') = Cardinality(Attempts(s)) + (IF s \in batch THEN 1 ELSE 0)
             /\ s \in batch => Cardinality(Attempts(s)) < 2
             /\ AskedFor(s)' = AskedFor(s)
  <2>1. AskedFor(s)' = AskedFor(s)
    BY <1>2 DEF AskedFor, Covering
  <2>2. j \notin Attempts(s)
    BY DEF Attempts
  <2>3. CASE s \in batch
    <3>1. Attempts(s)' = Attempts(s) \cup {j}
      BY <1>3, <2>3 DEF Attempts, Covering
    <3>2. Cardinality(Attempts(s) \cup {j}) = Cardinality(Attempts(s)) + 1
      BY <1>1, <2>2, FS_AddElement DEF AskedAttempted
    <3>3. Cardinality(Attempts(s)') \in 0 .. 2 /\ Cardinality(Attempts(s)) \in 0 .. 2
      BY <1>1 DEF AskedAttempted
    <3> QED BY <2>1, <2>3, <3>1, <3>2, <3>3
  <2>4. CASE s \notin batch
    <3>1. Attempts(s)' = Attempts(s)
      BY <2>4 DEF Attempts, Covering
    <3>2. Cardinality(Attempts(s)) \in 0 .. 2
      BY <1>1 DEF AskedAttempted
    <3> QED BY <2>1, <2>4, <3>1, <3>2
  <2> QED BY <2>3, <2>4
<1> HIDE DEF batch
<1>6. batch \in Authority!Batches
  BY <1>2, <1>4 DEF Authority!Batches, SavedTurns
<1>7. Authority!Grant(batch)
  BY <1>2, <1>4, <1>5 DEF Authority!Grant, Attempts, AskedFor, SavedTurns
<1> QED BY <1>6, <1>7 DEF Authority!Next

\* A model is asked on behalf of the turns of an attempt.
LEMMA CallIsAsk == ASSUME SaveInv, NEW m \in Memory, CallModel(m) PROVE Authority!Next
<1>1. AskedAttempted /\ LiveAlone
  BY InvAsked, InvAlone
<1>2. worker[m].pc = "validated" /\ UNCHANGED <<phase, coverage>>
  BY DEF CallModel, At, store
<1>3. PICK j \in Job : j = worker[m].job
  BY <1>2, RunHasJob DEF Bare
<1>4. phase[j] = "summarizing" /\ calls[j] = 0 /\ calls' = [calls EXCEPT ![j] = calls[j] + 1]
  BY <1>2, <1>3, RunHasJob DEF CallModel, Knows
<1>5. calls'[j] = 1 /\ \A k \in Job \ {j} : calls'[k] = calls[k]
  BY <1>4 DEF SaveInv, TypeOK
<1> DEFINE batch == coverage[j]
<1>6. batch \in SUBSET Source /\ batch # {}
  BY <1>4 DEF SaveInv, TypeOK, Jobs
<1>7. SavedTurns' = SavedTurns /\ batch \cap SavedTurns = {}
  <2>1. SavedTurns' = SavedTurns
    BY <1>2 DEF SavedTurns, Covering
  <2>2. ASSUME NEW s \in batch, s \in SavedTurns PROVE FALSE
    <3>1. PICK k \in Job : s \in coverage[k] /\ phase[k] = "local-saved"
      BY <2>2 DEF SavedTurns, Covering
    <3> QED BY <1>1, <1>4, <3>1 DEF LiveAlone
  <2> QED BY <2>1, <2>2
<1>8. ASSUME NEW s \in Source
      PROVE  /\ Cardinality(AskedFor(s)') = Cardinality(AskedFor(s)) + (IF s \in batch THEN 1 ELSE 0)
             /\ s \in batch => Cardinality(AskedFor(s)) < Cardinality(Attempts(s))
             /\ Attempts(s)' = Attempts(s)
  <2>1. Attempts(s)' = Attempts(s)
    BY <1>2 DEF Attempts, Covering, Attempted
  <2>2. j \notin AskedFor(s)
    BY <1>4 DEF AskedFor
  <2>3. CASE s \in batch
    <3>1. AskedFor(s)' = AskedFor(s) \cup {j}
      BY <1>2, <1>5, <2>3 DEF AskedFor, Covering
    <3>2. /\ Cardinality(AskedFor(s) \cup {j}) = Cardinality(AskedFor(s)) + 1
          /\ IsFiniteSet(AskedFor(s) \cup {j})
      BY <1>1, <2>2, FS_AddElement DEF AskedAttempted
    <3>3. j \in Attempts(s)
      BY <1>4, <2>3 DEF Attempts, Covering, Attempted
    <3>4. AskedFor(s) \cup {j} \in SUBSET Attempts(s) /\ IsFiniteSet(Attempts(s))
      BY <1>1, <3>3 DEF AskedAttempted
    <3>5. Cardinality(AskedFor(s) \cup {j}) <= Cardinality(Attempts(s))
      BY <3>4, FS_Subset
    <3>6. Cardinality(Attempts(s)) \in 0 .. 2 /\ Cardinality(AskedFor(s)) \in 0 .. 2
      BY <1>1 DEF AskedAttempted
    <3> QED BY <2>1, <2>3, <3>1, <3>2, <3>5, <3>6
  <2>4. CASE s \notin batch
    <3>1. AskedFor(s)' = AskedFor(s)
      BY <1>2, <1>5, <2>4 DEF AskedFor, Covering
    <3>2. Cardinality(AskedFor(s)) \in 0 .. 2
      BY <1>1 DEF AskedAttempted
    <3> QED BY <2>1, <2>4, <3>1, <3>2
  <2> QED BY <2>3, <2>4
<1> HIDE DEF batch
<1>9. batch \in Authority!Batches
  BY <1>6, <1>7 DEF Authority!Batches, SavedTurns
<1>10. Authority!Ask(batch)
  BY <1>6, <1>7, <1>8 DEF Authority!Ask, Attempts, AskedFor, SavedTurns
<1> QED BY <1>9, <1>10 DEF Authority!Next

\* A receipt saves the turns of a job that a model was asked about.
LEMMA ReceiptIsSave == ASSUME SaveInv, NEW m \in Memory, CommitLocal(m) PROVE Authority!Next
<1>1. AskedAttempted /\ LiveAlone
  BY InvAsked, InvAlone
<1>2. worker[m].pc \in Committing /\ UNCHANGED <<coverage, calls>>
  BY DEF CommitLocal, At, Committing
<1>3. PICK j \in Job : j = worker[m].job
  BY <1>2, ApplyingRun
<1>4. /\ j \in bound /\ phase[j] \in Active /\ phase' = [phase EXCEPT ![j] = "local-saved"]
      /\ calls[j] > 0
  BY <1>3 DEF CommitLocal, SaveInv, Jobs
<1>5. phase'[j] = "local-saved" /\ \A k \in Job \ {j} : phase'[k] = phase[k]
  BY <1>4 DEF SaveInv, TypeOK
<1>6. PICK batch \in SUBSET Source : batch = coverage[j] /\ batch # {}
  BY <1>4 DEF SaveInv, TypeOK, Jobs, Active
<1>7. SavedTurns' = SavedTurns \cup batch
  <2>1. ASSUME NEW s \in Source
        PROVE  (\E k \in Covering(s)' : phase'[k] = "local-saved")
               <=> (\E k \in Covering(s) : phase[k] = "local-saved") \/ s \in batch
    BY <1>2, <1>4, <1>5, <1>6 DEF Covering, Active
  <2> QED BY <1>6, <2>1 DEF SavedTurns
<1>8. batch \cap SavedTurns = {}
  <2>1. ASSUME NEW s \in batch, s \in SavedTurns PROVE FALSE
    <3>1. PICK k \in Job : s \in coverage[k] /\ phase[k] = "local-saved"
      BY <2>1 DEF SavedTurns, Covering
    <3> QED BY <1>1, <1>4, <1>6, <3>1 DEF LiveAlone, Active
  <2> QED BY <2>1
<1>9. ASSUME NEW s \in Source
      PROVE  Attempts(s)' = Attempts(s) /\ AskedFor(s)' = AskedFor(s)
  BY <1>2, <1>4, <1>5 DEF Attempts, AskedFor, Covering, Attempted, Active
<1>10. ASSUME NEW s \in batch PROVE Cardinality(AskedFor(s)) > 0
  <2>1. j \in AskedFor(s)
    BY <1>4, <1>6 DEF AskedFor, Covering
  <2>2. s \in Source
    BY <1>6
  <2>3. Cardinality(AskedFor(s)) # 0
    BY <1>1, <2>1, <2>2, FS_EmptySet DEF AskedAttempted
  <2>4. Cardinality(AskedFor(s)) \in 0 .. 2
    BY <1>1, <2>2 DEF AskedAttempted
  <2> QED BY <2>3, <2>4
<1>11. batch \in Authority!Batches
  BY <1>6, <1>8 DEF Authority!Batches, SavedTurns
<1>12. Authority!Save(batch)
  BY <1>6, <1>7, <1>9, <1>10 DEF Authority!Save, Attempts, AskedFor, SavedTurns
<1> QED BY <1>11, <1>12 DEF Authority!Next

\* Steps the promise says nothing about: no attempt, call or receipt is new, and
\* a job that gets turns is not attempted yet.
LEMMA QuietStep ==
    ASSUME SaveInv,
           \A k \in Job : /\ Attempted(k)' <=> Attempted(k)
                          /\ Attempted(k) => coverage'[k] = coverage[k]
                          /\ phase'[k] = "local-saved" <=> phase[k] = "local-saved",
           UNCHANGED calls
    PROVE  UNCHANGED Authority!vars
<1>1. \A k \in Job : calls[k] > 0 \/ phase[k] = "local-saved" => Attempted(k)
  BY DEF SaveInv, Jobs, TypeOK, Attempted
<1>2. ASSUME NEW s \in Source
      PROVE  Attempts(s)' = Attempts(s) /\ AskedFor(s)' = AskedFor(s)
  BY <1>1 DEF Attempts, AskedFor, Covering
<1>3. SavedTurns' = SavedTurns
  BY <1>1 DEF SavedTurns, Covering
<1> QED BY <1>2, <1>3 DEF Authority!vars, Attempts, AskedFor, SavedTurns

LEMMA AuthorityInit == Init => Authority!Init
<1> SUFFICES ASSUME Init PROVE Authority!Init
  OBVIOUS
<1>1. \A s \in Source : Covering(s) = {}
  BY DEF Covering, Init
<1>2. \A s \in Source : Attempts(s) = {} /\ AskedFor(s) = {}
  BY <1>1 DEF Attempts, AskedFor
<1>3. Cardinality({}) = 0
  BY FS_EmptySet
<1>4. SavedTurns = {}
  BY <1>1 DEF SavedTurns
<1> QED BY <1>2, <1>3, <1>4 DEF Authority!Init, Attempts, AskedFor, SavedTurns

LEMMA AuthorityNext == SaveInv /\ SaveInv' /\ [Next]_vars => [Authority!Next]_(Authority!vars)
<1> SUFFICES ASSUME SaveInv, SaveInv', [Next]_vars
             PROVE  Authority!Next \/ UNCHANGED Authority!vars
  OBVIOUS
<1>1. ASSUME NEW m \in Memory, BeginAttempt(m) PROVE Authority!Next
  <2>1. worker[m].pc = "reserved" /\ UNCHANGED <<coverage, calls>>
    BY <1>1 DEF BeginAttempt, At
  <2>2. PICK j \in Job : j = worker[m].job
    BY <2>1, RunHasJob DEF Bare
  <2>3. phase[j] = "prepared" /\ phase' = [phase EXCEPT ![j] = "summarizing"]
    BY <1>1, <2>2 DEF BeginAttempt
  <2>4. phase'[j] = "summarizing" /\ \A k \in Job \ {j} : phase'[k] = phase[k]
    BY <2>3 DEF SaveInv, TypeOK
  <2> QED BY <2>1, <2>3, <2>4, AttemptIsGrant DEF Attempted
<1>2. ASSUME NEW m \in Memory, AdmitSuccessor(m) PROVE Authority!Next
  <2>1. worker[m].pc = "approved" /\ Candidate(worker[m].parent) /\ UNCHANGED calls
    BY <1>2 DEF AdmitSuccessor, At
  <2>2. PICK p \in Job : p = worker[m].parent
    BY <2>1, RunHasJob DEF Knows, Run
  <2>3. PICK j \in Fresh :
            /\ phase' = [phase EXCEPT ![p] = "superseded-unknown", ![j] = "summarizing"]
            /\ coverage' = [coverage EXCEPT ![j] = coverage[p]]
    BY <1>2, <2>2 DEF AdmitSuccessor
  <2>4. j \in Job /\ phase[j] = "absent" /\ phase[p] = "recovery-required" /\ p # j
    BY <2>1, <2>2 DEF Fresh, Candidate
  <2>5. /\ phase'[j] = "summarizing" /\ phase'[p] = "superseded-unknown"
        /\ \A k \in Job \ {j} : coverage'[k] = coverage[k]
        /\ \A k \in Job \ {p, j} : phase'[k] = phase[k]
    BY <2>3, <2>4 DEF SaveInv, TypeOK
  <2>6. ~Attempted(j)
    BY <2>4 DEF Attempted
  <2>7. \A k \in Job \ {j} : /\ coverage'[k] = coverage[k]
                             /\ Attempted(k)' <=> Attempted(k)
                             /\ phase'[k] = "local-saved" <=> phase[k] = "local-saved"
    BY <2>4, <2>5 DEF Attempted
  <2> QED BY <2>1, <2>4, <2>5, <2>6, <2>7, AttemptIsGrant
<1>3. ASSUME NEW m \in Memory, Reserve(m) PROVE UNCHANGED Authority!vars
  <2>1. PICK j \in Fresh :
            /\ phase' = [phase EXCEPT ![j] = "prepared"]
            /\ coverage' = [coverage EXCEPT ![j] = worker[m].want]
    BY <1>3 DEF Reserve
  <2>2. j \in Job /\ phase[j] = "absent" /\ UNCHANGED calls
    BY <1>3 DEF Fresh, Reserve
  <2>3. /\ phase'[j] = "prepared"
        /\ \A k \in Job \ {j} : phase'[k] = phase[k] /\ coverage'[k] = coverage[k]
    BY <2>1, <2>2 DEF SaveInv, TypeOK
  <2> QED BY <2>2, <2>3, QuietStep DEF Attempted
<1>4. ASSUME NEW m \in Memory, Fail(m) PROVE UNCHANGED Authority!vars
  <2>1. UNCHANGED <<coverage, calls>>
    BY <1>4 DEF Fail
  <2>2. CASE UNCHANGED phase
    BY <2>1, <2>2, QuietStep DEF Attempted
  <2>3. CASE /\ worker[m].job # None /\ phase[worker[m].job] = "summarizing"
             /\ phase' = [phase EXCEPT ![worker[m].job] = "recovery-required"]
    <3>1. PICK j \in Job : j = worker[m].job
      BY <2>3, RunHasJob
    <3>2. phase'[j] = "recovery-required" /\ \A k \in Job \ {j} : phase'[k] = phase[k]
      BY <2>3, <3>1 DEF SaveInv, TypeOK
    <3> QED BY <2>1, <2>3, <3>1, <3>2, QuietStep DEF Attempted
  <2> QED BY <1>4, <2>2, <2>3 DEF Fail
<1>5. CASE UNCHANGED <<phase, coverage, calls>>
  BY <1>5, QuietStep DEF Attempted
<1>6. \/ UNCHANGED <<phase, coverage, calls>>
      \/ \E m \in Memory : \/ BeginAttempt(m) \/ AdmitSuccessor(m) \/ Reserve(m)
                           \/ Fail(m) \/ CallModel(m) \/ CommitLocal(m)
  BY DEF Next, Step, vars, files, store, ChangePolicy, StartSave, ResumePlan, Edit, Review,
         ReviewExpires, StartRecovery, PrepareUpdate, Revalidate,
         Answer, AcceptProposal, BindSession, WriteDocument, AdvanceToJournal, AppendJournal,
         WriteState, Register, Recheck, FinishSession
<1> QED BY <1>1, <1>2, <1>3, <1>4, <1>5, <1>6, CallIsAsk, ReceiptIsSave

\* CallsAreAuthorized: the save pipeline implements SaveAuthority: a model is
\* asked about a turn under an unused grant only, a turn has two grants at most,
\* and nothing is granted or asked about a turn that is saved.
THEOREM CallsAuthorized == Spec => CallsAreAuthorized
<1>1. Init => Authority!Init
  BY AuthorityInit
<1>2. SaveInv /\ SaveInv' /\ [Next]_vars => [Authority!Next]_(Authority!vars)
  BY AuthorityNext
<1> QED BY <1>1, <1>2, SaveInvariant, PTL DEF Spec, CallsAreAuthorized, Authority!Spec

=============================================================================
