----------------------------- MODULE MemorySave -----------------------------
(***************************************************************************)
(* The automatic memory save: the durable store of jobs and attempts       *)
(* (src/memorySaveStore.ts, memorySaveAutomaticPolicy.ts), the executor    *)
(* that asks a model for a new memory document (memorySaveExecutor.ts),    *)
(* the host commit that writes it (memorySaveHostCommit.ts, with the       *)
(* session plans of memorySessionStore.ts and applyProjectMemorySession),  *)
(* and the reviewed second attempt (memorySaveRecoveryStore.ts and         *)
(* memorySaveRecoveryExecutor.ts).                                         *)
(*                                                                         *)
(* A memory is one project root.  A run holds the workspace lease of its   *)
(* root, and a run that may call a model the application's lease too, so   *)
(* there is a worker per memory and one of them at most has the latter;    *)
(* see WorkspaceLease for why.  Every transaction of the store is a step,  *)
(* people edit the document at any time, and a process dies between any    *)
(* two steps.  A job makes at most one attempt: they share one name.       *)
(***************************************************************************)
EXTENDS Integers, FiniteSets

CONSTANTS
    Memory,       \* memories, each of one project root
    Source,       \* completed turns observed after the consent
    MemoryOf,     \* MemoryOf[s] : the memory a turn belongs to
    Job,          \* saves; also the text that each of them proposes
    Text,         \* what else the document may say
    MaxRevision,  \* bound: policy changes
    None

ASSUME MemorySaveAssumption ==
    /\ MemoryOf \in [Source -> Memory]
    /\ None \notin Job \cup Text \cup Memory
    /\ Job \cap Text = {}
    /\ MaxRevision \in Nat

VARIABLES
    policy,     \* [enabled, revision] of save_auto_policy
    owner,      \* owner[s] : save_sources.saveId
    phase,      \* phase[j] : save_jobs.phase, "absent" before the row exists
    root,       \* root[j] : the memory of j
    coverage,   \* coverage[j] : the turns j is about
    before,     \* before[j] : beforeHash of the input binding and the intent
    bound,      \* the jobs with a row in save_host_sessions
    approval,   \* approval[j] : the review of j, none, reviewed or consumed
    successor,  \* successor[j] : save_recovery_decisions, by parent
    outbox,     \* the jobs with a row in backup_outbox
    pending,    \* pending[m] : the session plan of root m and its phase
    doc,        \* doc[m] : the text of the memory document
    journal,    \* journal[m] : the saves the project journal tells of
    worker,     \* worker[m] : the run in root m
    appLease,   \* the memory whose worker holds the application's lease
    calls       \* calls[j] : times a model was asked on behalf of j

store == <<policy, owner, phase, root, coverage, before, bound, approval,
           successor, outbox>>
files == <<pending, doc, journal>>
vars == <<store, files, worker, appLease, calls>>

Active == {"summarizing", "recovery-required"}
Closed == {"local-saved", "superseded-unknown"}
Fresh == {j \in Job : phase[j] = "absent"}
OpenJob(m) == {j \in Job : root[j] = m /\ phase[j] \notin Closed \cup {"absent"}}

Idle == [pc |-> "idle", job |-> None, parent |-> None, want |-> {},
         before |-> None, revision |-> 0]
Pc == {"idle", "checking", "prepared", "reserved", "approved", "admitted", "validated",
       "calling", "proposed", "binding", "applying", "written",
       "registered", "verified", "committed"}
NoPlan == [job |-> None, phase |-> "none", before |-> None]

TypeOK ==
    /\ policy \in [enabled : BOOLEAN, revision : 0 .. MaxRevision]
    /\ owner \in [Source -> Job \cup {None}]
    /\ phase \in [Job -> {"absent", "prepared"} \cup Active \cup Closed]
    /\ root \in [Job -> Memory \cup {None}]
    /\ coverage \in [Job -> SUBSET Source]
    /\ before \in [Job -> Text \cup Job \cup {None}]
    /\ bound \subseteq Job
    /\ approval \in [Job -> {"none", "reviewed", "consumed"}]
    /\ successor \in [Job -> Job \cup {None}]
    /\ outbox \subseteq Job
    /\ pending \in [Memory -> [job : Job \cup {None},
                               phase : {"none", "document", "journal", "state", "outcome"},
                               before : Text \cup Job \cup {None}]]
    /\ doc \in [Memory -> Text \cup Job]
    /\ journal \in [Memory -> SUBSET Job]
    /\ worker \in [Memory -> [pc : Pc, job : Job \cup {None}, parent : Job \cup {None},
                              want : SUBSET Source, before : Text \cup Job \cup {None},
                              revision : 0 .. MaxRevision]]
    /\ appLease \in Memory \cup {None}
    /\ calls \in [Job -> Nat]

Init ==
    /\ policy = [enabled |-> TRUE, revision |-> 0]
    /\ owner = [s \in Source |-> None]
    /\ phase = [j \in Job |-> "absent"]
    /\ root = [j \in Job |-> None]
    /\ coverage = [j \in Job |-> {}]
    /\ before = [j \in Job |-> None]
    /\ bound = {}
    /\ approval = [j \in Job |-> "none"]
    /\ successor = [j \in Job |-> None]
    /\ outbox = {}
    /\ pending = [m \in Memory |-> NoPlan]
    /\ doc \in [Memory -> Text]
    /\ journal = [m \in Memory |-> {}]
    /\ worker = [m \in Memory |-> Idle]
    /\ appLease = None
    /\ calls = [j \in Job |-> 0]

-----------------------------------------------------------------------------
(* Policy and admission.                                                   *)

\* setAutomaticPolicy: a change is a new revision, whatever it changes.
ChangePolicy ==
    /\ policy.revision < MaxRevision
    /\ \E on \in BOOLEAN : policy' = [enabled |-> on, revision |-> policy.revision + 1]
    /\ UNCHANGED <<owner, phase, root, coverage, before, bound, approval,
                   successor, outbox, files, worker, appLease, calls>>

\* valid(): the run's leases are its own and the policy is the one it read.
Valid(m) == policy.enabled /\ policy.revision = worker[m].revision

\* What validateRegistration asks of the run: the executor's asks for its policy
\* too, that of a recovered plan does not.
Registered(m) == appLease = m => Valid(m)

\* Faulty: only a job that is being summarized keeps others out.
AdmissibleDespiteRecovery(except) ==
    policy.enabled /\ \A j \in Job \ except : phase[j] # "summarizing"

\* checkAdmission: no attempt of any memory is unresolved, but for the one a
\* recovery replaces.
Admissible(except) ==
    policy.enabled /\ \A j \in Job \ except : phase[j] \notin Active

-----------------------------------------------------------------------------
(* The executor.                                                           *)

At(m, pc) == worker[m].pc = pc
Goto(m, pc) == worker' = [worker EXCEPT ![m].pc = pc]

\* The leases go with the run.
Leave(m) ==
    /\ worker' = [worker EXCEPT ![m] = Idle]
    /\ appLease' = IF appLease = m THEN None ELSE appLease

\* executeLeased and the checks at the head of executeAutomaticMemorySave.
StartSave(m) ==
    /\ At(m, "idle") /\ appLease = None
    /\ OpenJob(m) = {} /\ pending[m] = NoPlan
    /\ Admissible({})
    /\ \E want \in SUBSET {s \in Source : MemoryOf[s] = m /\ owner[s] = None} :
          /\ want # {}
          /\ worker' = [worker EXCEPT ![m] = [Idle EXCEPT
                 !.pc = "checking", !.want = want, !.revision = policy.revision]]
    /\ appLease' = m
    /\ UNCHANGED <<store, files, calls>>

\* prepareProjectMemoryUpdateWithCommon reads the document the model will see.
PrepareUpdate(m) ==
    /\ At(m, "checking") /\ Valid(m)
    /\ pending[m] = NoPlan
    /\ worker' = [worker EXCEPT ![m].pc = "prepared", ![m].before = doc[m]]
    /\ UNCHANGED <<store, files, appLease, calls>>

\* openJob, reserve and bindInput.  The turns are the job's for good.
Reserve(m) ==
    /\ At(m, "prepared") /\ Valid(m)
    /\ Admissible({}) /\ OpenJob(m) = {}
    /\ \A s \in worker[m].want : owner[s] = None
    /\ \E j \in Fresh :
          /\ owner' = [s \in Source |-> IF s \in worker[m].want THEN j ELSE owner[s]]
          /\ phase' = [phase EXCEPT ![j] = "prepared"]
          /\ root' = [root EXCEPT ![j] = m]
          /\ coverage' = [coverage EXCEPT ![j] = worker[m].want]
          /\ before' = [before EXCEPT ![j] = worker[m].before]
          /\ worker' = [worker EXCEPT ![m].pc = "reserved", ![m].job = j]
    /\ UNCHANGED <<policy, bound, approval, successor, outbox, files, appLease, calls>>

\* beginAttempt, once per job.
BeginAttempt(m) ==
    /\ At(m, "reserved") /\ Valid(m)
    /\ Admissible({})
    /\ phase[worker[m].job] = "prepared"
    /\ phase' = [phase EXCEPT ![worker[m].job] = "summarizing"]
    /\ Goto(m, "admitted")
    /\ UNCHANGED <<policy, owner, root, coverage, before, bound, approval,
                   successor, outbox, files, appLease, calls>>

Revalidate(m) ==
    /\ At(m, "admitted") /\ Valid(m)
    /\ Goto(m, "validated")
    /\ UNCHANGED <<store, files, appLease, calls>>

\* provider.propose.
CallModel(m) ==
    /\ At(m, "validated")
    /\ calls' = [calls EXCEPT ![worker[m].job] = @ + 1]
    /\ Goto(m, "calling")
    /\ UNCHANGED <<store, files, appLease>>

Answer(m) ==
    /\ At(m, "calling")
    /\ Goto(m, "proposed")
    /\ UNCHANGED <<store, files, appLease, calls>>

\* Faulty: the answer is taken for one about today's document.
AcceptAnyProposal(m) ==
    /\ At(m, "proposed") /\ Valid(m)
    /\ phase[worker[m].job] \in Active
    /\ pending[m] = NoPlan
    /\ pending' = [pending EXCEPT ![m] =
          [job |-> worker[m].job, phase |-> "document", before |-> doc[m]]]
    /\ Goto(m, "binding")
    /\ UNCHANGED <<store, doc, journal, appLease, calls>>

\* commitAutomaticMemoryProposal: the answer must be about today's document.  The
\* host compares it and reads it for the manifest in one synchronous block, one
\* step here; sessions.prepare takes one plan per root.
AcceptProposal(m) ==
    /\ At(m, "proposed") /\ Valid(m)
    /\ doc[m] = worker[m].before
    /\ phase[worker[m].job] \in Active
    /\ pending[m] = NoPlan
    /\ pending' = [pending EXCEPT ![m] =
          [job |-> worker[m].job, phase |-> "document", before |-> doc[m]]]
    /\ Goto(m, "binding")
    /\ UNCHANGED <<store, doc, journal, appLease, calls>>

-----------------------------------------------------------------------------
(* The host commit, by the executor or by the recovery of a bound plan.    *)

\* POST session-recovery, under the workspace lease alone.
ResumePlan(m) ==
    /\ At(m, "idle") /\ pending[m] # NoPlan
    /\ worker' = [worker EXCEPT ![m] = [Idle EXCEPT
           !.pc = "binding", !.job = pending[m].job, !.revision = policy.revision]]
    /\ UNCHANGED <<store, files, appLease, calls>>

Planned(m) == pending[m].job = worker[m].job

\* bindHostSession: the first binding needs an unresolved attempt made from the
\* text that is in the document now.
Bindable(m, j) == phase[j] \in Active /\ before[j] = doc[m]

BindSession(m) ==
    LET j == worker[m].job IN
    /\ At(m, "binding") /\ Planned(m) /\ Registered(m)
    /\ phase[j] # "superseded-unknown"
    /\ j \in bound \/ (pending[m].phase = "document" /\ Bindable(m, j))
    /\ bound' = bound \cup {j}
    /\ Goto(m, "applying")
    /\ UNCHANGED <<policy, owner, phase, root, coverage, before, approval,
                   successor, outbox, files, appLease, calls>>

Applying(m) == At(m, "applying") /\ Planned(m) /\ phase[worker[m].job] \in Active

\* The document manifest: a file that holds neither text stops the plan.
WriteDocument(m) ==
    /\ Applying(m) /\ pending[m].phase = "document"
    /\ doc[m] \in {pending[m].before, pending[m].job}
    /\ doc' = [doc EXCEPT ![m] = pending[m].job]
    /\ Goto(m, "written")
    /\ UNCHANGED <<store, pending, journal, appLease, calls>>

AdvanceToJournal(m) ==
    /\ At(m, "written")
    /\ pending' = [pending EXCEPT ![m].phase = "journal"]
    /\ Goto(m, "applying")
    /\ UNCHANGED <<store, doc, journal, appLease, calls>>

AppendJournal(m) ==
    /\ Applying(m) /\ pending[m].phase = "journal"
    /\ doc[m] = pending[m].job
    /\ journal' = [journal EXCEPT ![m] = @ \cup {pending[m].job}]
    /\ pending' = [pending EXCEPT ![m].phase = "state"]
    /\ UNCHANGED <<store, doc, worker, appLease, calls>>

WriteState(m) ==
    /\ Applying(m) /\ pending[m].phase = "state"
    /\ pending' = [pending EXCEPT ![m].phase = "outcome"]
    /\ UNCHANGED <<store, doc, journal, worker, appLease, calls>>

\* registered() yields; what follows looks at the document once more.
Register(m) ==
    /\ Applying(m) /\ pending[m].phase = "outcome"
    /\ Registered(m)
    /\ Goto(m, "registered")
    /\ UNCHANGED <<store, files, appLease, calls>>

Recheck(m) ==
    /\ At(m, "registered")
    /\ doc[m] = pending[m].job
    /\ journal' = [journal EXCEPT ![m] = @ \cup {pending[m].job}]
    /\ Goto(m, "verified")
    /\ UNCHANGED <<store, pending, doc, appLease, calls>>

\* Faulty: the backup intent is committed before the receipt.
CommitApart(m) ==
    LET j == worker[m].job IN
    /\ At(m, "verified")
    /\ j \in bound /\ phase[j] \in Active
    /\ outbox' = outbox \cup {j}
    /\ IF j \in outbox
       THEN phase' = [phase EXCEPT ![j] = "local-saved"] /\ Goto(m, "committed")
       ELSE UNCHANGED <<phase, worker>>
    /\ UNCHANGED <<policy, owner, root, coverage, before, bound, approval,
                   successor, files, appLease, calls>>

\* commitLocal: the receipt and the backup intent in one transaction.
CommitLocal(m) ==
    LET j == worker[m].job IN
    /\ At(m, "verified")
    /\ j \in bound /\ phase[j] \in Active
    /\ phase' = [phase EXCEPT ![j] = "local-saved"]
    /\ \E backupRequested \in BOOLEAN :
          outbox' = IF backupRequested THEN outbox \cup {j} ELSE outbox
    /\ Goto(m, "committed")
    /\ UNCHANGED <<policy, owner, root, coverage, before, bound, approval,
                   successor, files, appLease, calls>>

\* Faulty: the plan is retired as soon as the document was verified.
FinishEarly(m) ==
    /\ \/ At(m, "verified") \/ At(m, "committed")
       \/ At(m, "applying") /\ phase[worker[m].job] = "local-saved"
    /\ Planned(m) /\ pending[m].phase = "outcome"
    /\ pending' = [pending EXCEPT ![m] = NoPlan]
    /\ Leave(m)
    /\ UNCHANGED <<store, doc, journal, calls>>

\* Faulty: a plan is retired by the run that wrote its receipt or never.
FinishOwn(m) ==
    /\ At(m, "committed")
    /\ Planned(m) /\ pending[m].phase = "outcome"
    /\ pending' = [pending EXCEPT ![m] = NoPlan]
    /\ Leave(m)
    /\ UNCHANGED <<store, doc, journal, calls>>

\* Faulty: a finished plan is marked and stays.
FinishMarked(m) ==
    /\ At(m, "committed")
    /\ Planned(m) /\ pending[m].phase = "outcome"
    /\ pending' = [pending EXCEPT ![m].phase = "completed"]
    /\ Leave(m)
    /\ UNCHANGED <<store, doc, journal, calls>>

\* sessions.finish, also of a plan whose receipt was written by a run that died.
FinishSession(m) ==
    /\ \/ At(m, "committed")
       \/ At(m, "applying") /\ phase[worker[m].job] = "local-saved"
    /\ Planned(m) /\ pending[m].phase = "outcome"
    /\ pending' = [pending EXCEPT ![m] = NoPlan]
    /\ Leave(m)
    /\ UNCHANGED <<store, doc, journal, calls>>

-----------------------------------------------------------------------------
(* A reviewed second attempt.                                              *)

\* Faulty: a successor may have a successor.
CandidateAgain(j) ==
    /\ phase[j] = "recovery-required"
    /\ j \notin bound
    /\ successor[j] = None

\* Faulty: a receipt does not keep a job from being replaced.
CandidateSaved(j) ==
    /\ phase[j] \in {"recovery-required", "local-saved"}
    /\ successor[j] = None
    /\ \A k \in Job : successor[k] # j

\* readMemorySaveRecoveryCandidate.
Candidate(j) ==
    /\ phase[j] = "recovery-required"
    /\ j \notin bound
    /\ successor[j] = None
    /\ \A k \in Job : successor[k] # j

Reviewable(j) ==
    /\ Candidate(j) /\ Admissible({j})
    /\ pending[root[j]] = NoPlan
    /\ doc[root[j]] = before[j]

\* reviewAmbiguousMemorySave: an approval, or a new one in its place.
Review(j) ==
    /\ root[j] # None
    /\ At(root[j], "idle") /\ appLease = None
    /\ Reviewable(j)
    /\ approval' = [approval EXCEPT ![j] = "reviewed"]
    /\ UNCHANGED <<policy, owner, phase, root, coverage, before, bound,
                   successor, outbox, files, worker, appLease, calls>>

\* Five minutes pass, or the policy the review was made under is gone.
ReviewExpires(j) ==
    /\ approval[j] = "reviewed"
    /\ approval' = [approval EXCEPT ![j] = "none"]
    /\ UNCHANGED <<policy, owner, phase, root, coverage, before, bound,
                   successor, outbox, files, worker, appLease, calls>>

\* executeAmbiguousMemorySave prepares the run afresh.
StartRecovery(j) ==
    LET m == root[j] IN
    /\ approval[j] = "reviewed"
    /\ At(m, "idle") /\ appLease = None
    /\ Reviewable(j)
    /\ worker' = [worker EXCEPT ![m] = [Idle EXCEPT !.pc = "approved",
           !.parent = j, !.before = doc[m], !.revision = policy.revision]]
    /\ appLease' = m
    /\ UNCHANGED <<store, files, calls>>

\* admitMemorySaveRecoverySuccessor, one transaction: the parent is given up, the
\* successor is in its attempt at once, and the approval is used.
AdmitSuccessor(m) ==
    LET p == worker[m].parent IN
    /\ At(m, "approved") /\ Valid(m)
    /\ approval[p] = "reviewed"
    /\ Candidate(p) /\ Admissible({p})
    /\ \E j \in Fresh :
          /\ phase' = [phase EXCEPT ![p] = "superseded-unknown", ![j] = "summarizing"]
          /\ root' = [root EXCEPT ![j] = m]
          /\ coverage' = [coverage EXCEPT ![j] = coverage[p]]
          /\ before' = [before EXCEPT ![j] = worker[m].before]
          /\ successor' = [successor EXCEPT ![p] = j]
          /\ worker' = [worker EXCEPT ![m].pc = "admitted", ![m].job = j]
    /\ approval' = [approval EXCEPT ![p] = "consumed"]
    /\ UNCHANGED <<policy, owner, bound, outbox, files, appLease, calls>>

-----------------------------------------------------------------------------
(* Failures, and what goes on outside.                                     *)

\* Any step of a run may fail.  Its error path marks an admitted attempt, unless
\* it is saved or was given up; a death, or a failing store, leaves it.
Fail(m) ==
    LET j == worker[m].job IN
    /\ ~At(m, "idle")
    /\ Leave(m)
    /\ \/ UNCHANGED phase
       \/ /\ j # None
          /\ phase[j] = "summarizing"
          /\ phase' = [phase EXCEPT ![j] = "recovery-required"]
    /\ UNCHANGED <<policy, owner, root, coverage, before, bound, approval,
                   successor, outbox, files, calls>>

\* The user, a pull or another program.
Edit(m) ==
    /\ \E t \in Text \ {doc[m]} : doc' = [doc EXCEPT ![m] = t]
    /\ UNCHANGED <<store, pending, journal, worker, appLease, calls>>

Step(m) ==
    \/ PrepareUpdate(m) \/ Reserve(m) \/ BeginAttempt(m) \/ Revalidate(m)
    \/ CallModel(m) \/ Answer(m) \/ AcceptProposal(m)
    \/ BindSession(m) \/ WriteDocument(m) \/ AdvanceToJournal(m)
    \/ AppendJournal(m) \/ WriteState(m) \/ Register(m) \/ Recheck(m)
    \/ CommitLocal(m) \/ FinishSession(m) \/ AdmitSuccessor(m)

Next ==
    \/ ChangePolicy
    \/ \E m \in Memory : \/ StartSave(m) \/ ResumePlan(m) \/ Step(m)
                         \/ Fail(m) \/ Edit(m)
    \/ \E j \in Job : Review(j) \/ ReviewExpires(j) \/ StartRecovery(j)

Spec == Init /\ [][Next]_vars

\* A run that one of its own checks stops takes its error path.
Refused(m) == ~ENABLED Step(m)
Throw(m) == Refused(m) /\ Fail(m)

\* A run goes on until it returns or throws, its waits being bounded by timeouts,
\* and the user recovers a retained plan sooner or later.
Fairness ==
    /\ \A m \in Memory : WF_vars(Step(m)) /\ WF_vars(Throw(m)) /\ WF_vars(ResumePlan(m))

-----------------------------------------------------------------------------
(* Properties.                                                             *)

Covering(s) == {j \in Job : s \in coverage[j]}

\* A memory has one unfinished job at most, and all memories together have one
\* unresolved attempt at most, deaths, recoveries and policy changes included
\* (the unique index jobs_open_root, EXECUTION_BUSY).
OneUnresolved ==
    /\ \A m \in Memory : Cardinality(OpenJob(m)) <= 1
    /\ Cardinality({j \in Job : phase[j] \in Active}) <= 1

\* A model is asked about a turn once, and once more for a second attempt that
\* the user approved; never a third time, whatever died in between.
AskedOnceOrTwice ==
    \A s \in Source :
        /\ \A j \in Covering(s) : calls[j] <= 1
        /\ Cardinality({j \in Covering(s) : calls[j] > 0})
              <= 1 + Cardinality({j \in Covering(s) : approval[j] = "consumed"})
        /\ Cardinality(Covering(s)) <= 2

\* A turn is saved by one job at most, and a save that was given up leaves no
\* trace: not in the document, not in the journal, not in a plan.
SavedOnce ==
    /\ \A s \in Source : Cardinality({j \in Covering(s) : phase[j] = "local-saved"}) <= 1
    /\ \A m \in Memory, j \in Job : phase[j] = "superseded-unknown" =>
          doc[m] # j /\ j \notin journal[m] /\ pending[m].job # j

\* From the moment a job is bound to its plan until its receipt exists the plan
\* is kept, so that what was begun can be finished without a model (receipt and
\* outbox are committed before the host plan is retired).
PlanOutlivesReceipt ==
    \A j \in bound : phase[j] # "local-saved" => pending[root[j]].job = j

\* A receipt tells of a save the journal has, a backup intent of a receipt.
ReceiptIsBacked ==
    /\ \A j \in Job : phase[j] = "local-saved" => j \in journal[root[j]]
    /\ \A j \in outbox : phase[j] = "local-saved"

\* One attempt at a time, and its plan, document, journal, receipt and backup in
\* an order from which every crash can be repaired.
CommitDiscipline ==
    /\ TypeOK /\ OneUnresolved /\ AskedOnceOrTwice /\ SavedOnce
    /\ PlanOutlivesReceipt /\ ReceiptIsBacked

\* The document is only ever replaced by a text made from the very text that
\* it replaces: no edit is overwritten by an answer that did not see it.
OnlySeenTextReplaced ==
    [][\A m \in Memory : doc'[m] # doc[m] /\ doc'[m] \in Job =>
           doc[m] = before[doc'[m]]]_vars

\* A plan whose text is in the document gets its receipt and is retired, if from
\* some time on runs fail only on their own checks and nobody edits the document.
Retained(m) == pending[m].job \in bound /\ doc[m] = pending[m].job
Calm(m) == ~Edit(m) /\ (Fail(m) => Refused(m))
RetainedPlanCompletes ==
    \A m \in Memory : <>[][Calm(m)]_vars => []<>~Retained(m)

\* The store, the executor and the recoveries together implement the promise: an
\* admitted attempt is a grant, the call of a model uses it up.
Attempted(j) == phase[j] \notin {"absent", "prepared"}
Authority == INSTANCE SaveAuthority WITH
    Turn <- Source,
    granted <- [s \in Source |-> Cardinality({j \in Covering(s) : Attempted(j)})],
    asked <- [s \in Source |-> Cardinality({j \in Covering(s) : calls[j] > 0})],
    saved <- {s \in Source : \E j \in Covering(s) : phase[j] = "local-saved"}
CallsAreAuthorized == Authority!Spec

=============================================================================
