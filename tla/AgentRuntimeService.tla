------------------------- MODULE AgentRuntimeService -------------------------
(***************************************************************************)
(* The agent runtime task service of src/agentRuntimeService.ts and the    *)
(* rows it keeps in src/agentRuntimeTaskJournal.ts.                        *)
(*                                                                         *)
(* The service is one JavaScript thread: an action is the code between two *)
(* awaits.  Starts run one at a time in the order they came; cancels,      *)
(* late lease acquisitions, runners and shutdown interleave with them, and *)
(* the process may end at any await.  A journal call is one SQLite         *)
(* transaction that happens or fails as a whole (the parameter ok).        *)
(*                                                                         *)
(* A tombstone refuses its request, and a cancellation intent is kept, for *)
(* AGENT_RUNTIME_REQUEST_TOMBSTONE_TTL_MS, 35 days.  No number stands for  *)
(* the time: the end of a window is a step that may come whenever no call  *)
(* on its task is under way, since a call lasts a few bounded waits.       *)
(***************************************************************************)
EXTENDS Integers, Sequences, FiniteSets

CONSTANTS
    Request,        \* request identifiers; a request makes at most one task
    Target,         \* registered projects
    TargetOf,       \* the project a request names
    Overlap,        \* pairs of projects with one working directory inside the other
    SameLease,      \* pairs of projects whose workspace leases exclude each other
    MaxConcurrent,  \* AGENT_RUNTIME_MAX_CONCURRENT_TASKS
    MaxPending,     \* AGENT_RUNTIME_MAX_PENDING_STARTS
    Keep,           \* AGENT_RUNTIME_DEFAULT_TERMINAL_TASK_KEEP
    None

\* A request identifier has a bounded length, so there are finitely many.
ASSUME ServiceAssumption ==
    /\ IsFiniteSet(Request) /\ None \notin {"succeeded", "failed", "cancelled"}
    /\ TargetOf \in [Request -> Target]
    /\ SameLease \subseteq Overlap /\ Overlap \subseteq Target \X Target
    /\ \A t \in Target : <<t, t>> \in SameLease
    /\ \A t, u \in Target :
          /\ <<t, u>> \in Overlap => <<u, t>> \in Overlap
          /\ <<t, u>> \in SameLease => <<u, t>> \in SameLease
    /\ MaxConcurrent \in Nat \ {0} /\ MaxPending \in Nat \ {0} /\ Keep \in Nat
    /\ MaxConcurrent <= Keep

VARIABLES
    row,        \* row[r] : the status of the task of r, or its tombstone
    finished,   \* terminal rows, oldest first
    intent,     \* tasks with a durable cancellation intent
    expired,    \* request guards, tombstones and intents, past their expires_at
    lease,      \* lease[r] : the workspace lease taken for r
    writing,    \* tasks whose provider may write in the workspace
    up,         \* the service process is alive
    queue,      \* startTask calls in order; the head is the one running
    phase,      \* where the head of queue is
    recovering, \* callers inside recoverPendingTerminals
    awaiting,   \* awaiting[k] : the tasks caller k still has to go through
    exec,       \* exec[r] : the ActiveTask of r
    cancelled,  \* tasks with active.cancelRequested
    pending,    \* pending[r] : active.pendingTerminal
    uncertain,  \* tasks with active.processOwnershipUncertain
    release,    \* release[r] : active.leaseRelease
    late,       \* late[r] : the timed out lease acquisition of r
    detached,   \* detachedLeases
    degraded,
    shutdown,   \* where shutdown is
    ahead,      \* starts the awaited startTail stands for
    timedOut,   \* a bounded wait of shutdown ended without an answer
    ran,        \* history: requests a provider has run for, until their tombstone expires
    promised    \* history: tasks a person's cancel has aborted, until its intent expires

guards == <<intent, expired>>
journal == <<row, finished, guards>>
starts == <<queue, phase, ahead>>
tasks == <<exec, cancelled, pending, uncertain, release>>
stopping == <<shutdown, timedOut>>
history == <<ran, promised>>
vars == <<journal, lease, writing, up, starts, recovering, awaiting, tasks,
          late, detached, degraded, stopping, history>>

Terminal == {"succeeded", "failed", "cancelled"}
Caller == {<<"start">>, <<"late">>, <<"shutdown">>} \cup ({"cancel"} \X Request)

TypeOK ==
    /\ row \in [Request -> {"none", "accepted", "running", "retired"} \cup Terminal]
    /\ finished \in Seq(Request)
    /\ \A i, j \in DOMAIN finished : finished[i] = finished[j] => i = j
    /\ intent \subseteq Request
    /\ expired \subseteq {"start", "cancel"} \X Request
    /\ lease \in [Request -> {"none", "held", "orphan"}]
    /\ writing \subseteq Request
    /\ up \in BOOLEAN
    /\ queue \in Seq(Request) /\ Len(queue) <= MaxPending
    /\ phase \in {"queued", "recovering", "resolving", "acquiring", "preparing",
                  "releasing"}
    /\ recovering \subseteq Caller
    /\ awaiting \in [Caller -> SUBSET Request]
    /\ exec \in [Request -> {"none", "starting", "running", "settled"}]
    /\ cancelled \subseteq Request
    /\ pending \in [Request -> Terminal \cup {None}]
    /\ uncertain \subseteq Request
    /\ release \in [Request -> {"none", "pending", "failed"}]
    /\ late \in [Request -> {"none", "acquiring", "releasing"}]
    /\ detached \subseteq Request
    /\ degraded \in BOOLEAN
    /\ shutdown \in {"no", "starts", "tasks", "recovering", "fulfilled", "rejected"}
    /\ ahead \in 0..MaxPending
    /\ timedOut \in BOOLEAN
    /\ ran \subseteq Request
    /\ promised \subseteq Request

Init ==
    /\ row = [r \in Request |-> "none"]
    /\ finished = <<>> /\ intent = {} /\ expired = {}
    /\ lease = [r \in Request |-> "none"]
    /\ writing = {} /\ up = TRUE
    \* what a new process remembers
    /\ queue = <<>> /\ phase = "queued" /\ ahead = 0
    /\ recovering = {} /\ awaiting = [k \in Caller |-> {}]
    /\ exec = [r \in Request |-> "none"]
    /\ cancelled = {} /\ uncertain = {}
    /\ pending = [r \in Request |-> None]
    /\ release = [r \in Request |-> "none"]
    /\ late = [r \in Request |-> "none"]
    /\ detached = {} /\ degraded = FALSE
    /\ shutdown = "no" /\ timedOut = FALSE
    /\ ran = {} /\ promised = {}

Active == {r \in Request : exec[r] # "none"}
Settled == {r \in Request : exec[r] = "settled"}
ShuttingDown == shutdown # "no"
Overlaps(r, s) == <<TargetOf[r], TargetOf[s]>> \in Overlap

\* The contract of the workspace lease: nobody holds one that excludes r's.
LeaseFree(r) ==
    \A s \in Request : lease[s] # "none" => <<TargetOf[r], TargetOf[s]>> \notin SameLease

-----------------------------------------------------------------------------
(* The journal.                                                            *)

\* createOrGetTask and appendEvent; a terminal status enters the retention order.
Record(r, status) ==
    /\ row' = [row EXCEPT ![r] = status]
    /\ finished' = IF status \in Terminal THEN Append(finished, r) ELSE finished

\* Faulty: every tombstone and intent is deleted, whatever its age.
PruneEveryGuard(rows, ended) ==
    LET excess == IF Len(ended) > Keep THEN Len(ended) - Keep ELSE 0
        retired == {ended[i] : i \in 1..excess}
    IN  /\ row' = [r \in Request |-> IF r \in retired THEN "retired"
                                   ELSE IF row[r] = "retired" THEN "none" ELSE rows[r]]
        /\ finished' = SubSeq(ended, excess + 1, Len(ended))
        /\ intent' = {} /\ expired' = {}

\* pruneTerminalTasks: expired guards are deleted (pruneExpiredRequestGuards), and
\* each request that is retired leaves a tombstone.
Prune(rows, ended) ==
    LET excess == IF Len(ended) > Keep THEN Len(ended) - Keep ELSE 0
        retired == {ended[i] : i \in 1..excess}
    IN  /\ row' = [r \in Request |-> IF r \in retired THEN "retired"
                                   ELSE IF <<"start", r>> \in expired THEN "none" ELSE rows[r]]
        /\ finished' = SubSeq(ended, excess + 1, Len(ended))
        /\ intent' = {r \in intent : <<"cancel", r>> \notin expired}
        /\ expired' = {}

PruneOrFail(ok) == IF ok THEN Prune(row, finished) ELSE UNCHANGED journal

-----------------------------------------------------------------------------
(* recoverPendingTerminals: each settled task is finished again, one after *)
(* another, then degraded is computed anew.                                *)

BeginPass(k) ==
    /\ recovering' = recovering \cup {k}
    /\ awaiting' = [awaiting EXCEPT ![k] = Settled]

\* Everyone who awaited r goes on to the next task.
Finished(r) == awaiting' = [k \in Caller |-> awaiting[k] \ {r}]

\* One turn of the loop: persistPendingTerminal, then finishActiveTask up to
\* its await.
Retry(k, r, ok) ==
    /\ up /\ k \in recovering /\ r \in awaiting[k] /\ release[r] # "pending"
    /\ IF pending[r] # None /\ ok
       THEN /\ Record(r, pending[r])
            /\ pending' = [pending EXCEPT ![r] = None]
       ELSE UNCHANGED <<row, finished, pending>>
    /\ IF pending'[r] = None /\ r \notin uncertain /\ release[r] = "none"
       THEN /\ release' = [release EXCEPT ![r] = "pending"]
            /\ UNCHANGED <<awaiting, degraded>>
       ELSE /\ degraded' = TRUE
            /\ awaiting' = [awaiting EXCEPT ![k] = @ \ {r}]
            /\ UNCHANGED release
    /\ UNCHANGED <<guards, lease, writing, up, starts, recovering, exec, cancelled,
                   uncertain, late, detached, stopping, history>>

\* The pass of caller k is over: degraded is computed from what its prune answered.
PassOver(k, ok) ==
    /\ up /\ k \in recovering /\ awaiting[k] = {}
    /\ recovering' = recovering \ {k}
    /\ degraded' = (Settled # {} \/ detached # {} \/ ~ok
                       \/ \E r \in Request : late[r] # "none")
    /\ UNCHANGED awaiting

EndPass(k, ok) == PassOver(k, ok) /\ PruneOrFail(ok)

-----------------------------------------------------------------------------
(* startTask.                                                              *)

\* Faulty: the number of waiting starts is not limited.
SubmitUnlimited(r) ==
    /\ up /\ Len(queue) <= MaxPending
    /\ queue' = Append(queue, r)
    /\ UNCHANGED <<journal, lease, writing, up, phase, ahead, recovering, awaiting,
                   tasks, late, detached, degraded, stopping, history>>

Submit(r) ==
    /\ up /\ Len(queue) < MaxPending
    /\ queue' = Append(queue, r)
    /\ UNCHANGED <<journal, lease, writing, up, phase, ahead, recovering, awaiting,
                   tasks, late, detached, degraded, stopping, history>>

\* The call at the head ends and serializeStart lets the next one in.
Leave ==
    /\ queue' = Tail(queue)
    /\ phase' = "queued"
    /\ ahead' = IF ahead > 0 THEN ahead - 1 ELSE 0

StartIn(r, p) == up /\ queue # <<>> /\ r = Head(queue) /\ phase = p

BeginStart(r) ==
    /\ StartIn(r, "queued")
    /\ phase' = "recovering"
    /\ BeginPass(<<"start">>)
    /\ UNCHANGED <<journal, lease, writing, up, queue, ahead, tasks, late, detached,
                   degraded, stopping, history>>

\* assertStartRequestNotRetired deletes an expired tombstone the prune has left.
ForgetExpired(r) ==
    /\ <<"start", r>> \in expired
    /\ row' = [row EXCEPT ![r] = "none"]
    /\ expired' = expired \ {<<"start", r>>}
    /\ UNCHANGED <<finished, intent>>

\* A row or a tombstone of r that lasts answers the request.
Answered(r) == row[r] # "none" /\ <<"start", r>> \notin expired

\* existingIntent and the checks up to the target resolution.
CheckStart(r, ok) ==
    /\ StartIn(r, "recovering")
    /\ PassOver(<<"start">>, ok)
    /\ PruneOrFail(ok) \/ (~ok /\ ForgetExpired(r))
    /\ IF \/ Answered(r) \/ ShuttingDown \/ degraded'
          \/ Cardinality(Active) >= MaxConcurrent
          \/ \E s \in Active : TargetOf[s] = TargetOf[r]
       THEN Leave
       ELSE phase' = "resolving" /\ UNCHANGED <<queue, ahead>>
    /\ UNCHANGED <<lease, writing, up, tasks, late, detached, stopping, history>>

StartStep(r) ==
    UNCHANGED <<up, recovering, awaiting, stopping, writing, guards, history>>

\* Faulty: only the lease keeps working directories apart.
ResolveTargetUnchecked(r) ==
    /\ StartIn(r, "resolving")
    /\ \/ Leave
       \/ ~ShuttingDown /\ phase' = "acquiring" /\ UNCHANGED <<queue, ahead>>
    /\ StartStep(r)
    /\ UNCHANGED <<row, finished, lease, tasks, late, detached, degraded>>

\* resolveTarget answers or fails; then the shutdown and overlap checks.
ResolveTarget(r) ==
    /\ StartIn(r, "resolving")
    /\ \/ Leave
       \/ /\ ~ShuttingDown
          /\ \A s \in Active : ~Overlaps(s, r)
          /\ phase' = "acquiring" /\ UNCHANGED <<queue, ahead>>
    /\ StartStep(r)
    /\ UNCHANGED <<row, finished, lease, tasks, late, detached, degraded>>

AcquireLease(r) ==
    /\ StartIn(r, "acquiring") /\ LeaseFree(r)
    /\ lease' = [lease EXCEPT ![r] = "held"]
    /\ phase' = IF ShuttingDown THEN "releasing" ELSE "preparing"
    /\ StartStep(r)
    /\ UNCHANGED <<row, finished, queue, ahead, tasks, late, detached, degraded>>

\* The lease is busy or the acquisition throws.
AcquireFails(r) ==
    /\ StartIn(r, "acquiring")
    /\ Leave
    /\ StartStep(r)
    /\ UNCHANGED <<row, finished, lease, tasks, late, detached, degraded>>

\* The acquisition times out and goes on without its start.
AcquireTimesOut(r) ==
    /\ StartIn(r, "acquiring")
    /\ late' = [late EXCEPT ![r] = "acquiring"]
    /\ degraded' = TRUE
    /\ Leave
    /\ StartStep(r)
    /\ UNCHANGED <<row, finished, lease, tasks, detached>>

\* resolveRuntime and the revalidation of the lease succeed; nothing is read or
\* written between these two awaits.
CreateTask(r) ==
    /\ StartIn(r, "preparing") /\ ~ShuttingDown
    /\ Record(r, "accepted")
    /\ exec' = [exec EXCEPT ![r] = "starting"]
    /\ Leave
    /\ StartStep(r)
    /\ UNCHANGED <<lease, cancelled, pending, uncertain, release, late, detached, degraded>>

\* One of the two awaits fails, shutdown has begun, the row is not written, or it is
\* written but cannot be read back.
CreateFails(r) ==
    /\ StartIn(r, "preparing")
    /\ \/ UNCHANGED <<row, finished>>
       \/ ~ShuttingDown /\ Record(r, "accepted")
    /\ phase' = "releasing"
    /\ StartStep(r)
    /\ UNCHANGED <<lease, queue, ahead, tasks, late, detached, degraded>>

\* releasePreStartLease.  A release that is not confirmed may have happened.
PreStartReleased(r, ok) ==
    /\ StartIn(r, "releasing")
    /\ lease' \in {[lease EXCEPT ![r] = "none"]} \cup (IF ok THEN {} ELSE {lease})
    /\ detached' = IF ok THEN detached ELSE detached \cup {r}
    /\ degraded' = (degraded \/ ~ok)
    /\ Leave
    /\ StartStep(r)
    /\ UNCHANGED <<row, finished, tasks, late>>

StartProgress(r) ==
    \/ BeginStart(r) \/ ResolveTarget(r)
    \/ AcquireLease(r) \/ AcquireFails(r) \/ AcquireTimesOut(r)
    \/ CreateTask(r) \/ CreateFails(r)
    \/ \E ok \in BOOLEAN : CheckStart(r, ok) \/ PreStartReleased(r, ok)

StartTask(r) == Submit(r) \/ StartProgress(r)

-----------------------------------------------------------------------------
(* trackLateLeaseAcquisition.                                              *)

LateFrame ==
    UNCHANGED <<journal, writing, up, starts, tasks, degraded, stopping, history>>

LateAcquired(r) ==
    /\ up /\ late[r] = "acquiring" /\ LeaseFree(r)
    /\ lease' = [lease EXCEPT ![r] = "held"]
    /\ detached' = detached \cup {r}
    /\ late' = [late EXCEPT ![r] = "releasing"]
    /\ LateFrame /\ UNCHANGED <<recovering, awaiting>>

\* The acquisition was refused after all.
LateRefused(r) ==
    /\ up /\ late[r] = "acquiring"
    /\ late' = [late EXCEPT ![r] = "none"]
    /\ BeginPass(<<"late">>)
    /\ LateFrame /\ UNCHANGED <<lease, detached>>

LateReleased(r, ok) ==
    /\ up /\ late[r] = "releasing"
    /\ lease' \in {[lease EXCEPT ![r] = "none"]} \cup (IF ok THEN {} ELSE {lease})
    /\ detached' = IF ok THEN detached \ {r} ELSE detached
    /\ late' = [late EXCEPT ![r] = "none"]
    /\ BeginPass(<<"late">>)
    /\ LateFrame

LateEnds(ok) ==
    /\ EndPass(<<"late">>, ok)
    /\ UNCHANGED <<lease, writing, up, starts, tasks, late, detached, stopping, history>>

LateLease(r) ==
    \/ LateAcquired(r) \/ LateRefused(r)
    \/ \E ok \in BOOLEAN : LateReleased(r, ok)

-----------------------------------------------------------------------------
(* execute and finishActiveTask.                                           *)

\* Faulty: the lease is released though the process may still be there.
SettleUnconfirmed(r, outcome, unsure, ok) ==
    /\ exec' = [exec EXCEPT ![r] = "settled"]
    /\ UNCHANGED uncertain
    /\ IF ok THEN Record(r, outcome) /\ UNCHANGED pending
             ELSE pending' = [pending EXCEPT ![r] = outcome] /\ UNCHANGED <<row, finished>>
    /\ IF ok
       THEN release' = [release EXCEPT ![r] = "pending"] /\ UNCHANGED degraded
       ELSE degraded' = TRUE /\ UNCHANGED release

\* Faulty: the lease is released though the journal failed.
SettleUnwritten(r, outcome, unsure, ok) ==
    /\ exec' = [exec EXCEPT ![r] = "settled"]
    /\ uncertain' = IF unsure THEN uncertain \cup {r} ELSE uncertain
    /\ IF ok THEN Record(r, outcome) /\ UNCHANGED pending
             ELSE pending' = [pending EXCEPT ![r] = outcome] /\ UNCHANGED <<row, finished>>
    /\ IF ~unsure
       THEN release' = [release EXCEPT ![r] = "pending"] /\ UNCHANGED degraded
       ELSE degraded' = TRUE /\ UNCHANGED release

\* The runner has its outcome: it is settled, its terminal event is appended
\* or kept pending, and the release of the lease begins.
Settle(r, outcome, unsure, ok) ==
    /\ exec' = [exec EXCEPT ![r] = "settled"]
    /\ uncertain' = IF unsure THEN uncertain \cup {r} ELSE uncertain
    /\ IF ok THEN Record(r, outcome) /\ UNCHANGED pending
             ELSE pending' = [pending EXCEPT ![r] = outcome] /\ UNCHANGED <<row, finished>>
    /\ IF ok /\ ~unsure
       THEN release' = [release EXCEPT ![r] = "pending"] /\ UNCHANGED degraded
       ELSE degraded' = TRUE /\ UNCHANGED release

RunnerFrame ==
    UNCHANGED <<guards, lease, up, starts, recovering, awaiting, cancelled, late,
                detached, stopping>>

\* Revalidation holds, nobody cancelled, task.started is durable.
RunnerStarts(r) ==
    /\ up /\ exec[r] = "starting" /\ r \notin cancelled
    /\ Record(r, "running")
    /\ exec' = [exec EXCEPT ![r] = "running"]
    /\ writing' = writing \cup {r}
    /\ ran' = ran \cup {r}
    /\ RunnerFrame /\ UNCHANGED <<pending, uncertain, release, degraded, promised>>

Failure(r) == IF r \in cancelled THEN "cancelled" ELSE "failed"

\* Revalidation or the append failed, or the task was cancelled in between.
RunnerNeverStarts(r, ok) ==
    /\ up /\ exec[r] = "starting"
    /\ Settle(r, Failure(r), FALSE, ok)
    /\ RunnerFrame /\ UNCHANGED <<writing, history>>

\* runCodex returns: its process tree is gone.
RunnerSucceeds(r, ok) ==
    /\ up /\ exec[r] = "running"
    /\ writing' = writing \ {r}
    /\ Settle(r, IF r \in cancelled THEN "cancelled" ELSE "succeeded", FALSE, ok)
    /\ RunnerFrame /\ UNCHANGED history

\* runCodex throws, the process tree gone or its end not confirmed; or it
\* returns and binding the provider identifiers throws.
RunnerFails(r, unsure, ok) ==
    /\ up /\ exec[r] = "running"
    /\ writing' \in {writing \ {r}} \cup (IF unsure THEN {writing} ELSE {})
    /\ Settle(r, Failure(r), unsure, ok)
    /\ RunnerFrame /\ UNCHANGED history

\* finishActiveTask after its await; retention runs when the lease is gone.
LeaseReleased(r, ok) ==
    /\ up /\ exec[r] = "settled" /\ release[r] = "pending"
    /\ lease' = [lease EXCEPT ![r] = "none"]
    /\ exec' = [exec EXCEPT ![r] = "none"]
    /\ release' = [release EXCEPT ![r] = "none"]
    /\ cancelled' = cancelled \ {r}
    /\ Finished(r)
    /\ PruneOrFail(ok)
    /\ degraded' = (degraded \/ ~ok)
    /\ UNCHANGED <<writing, up, starts, recovering, pending, uncertain, late, detached,
                   stopping, history>>

LeaseReleaseFails(r) ==
    /\ up /\ exec[r] = "settled" /\ release[r] = "pending"
    /\ lease' \in {lease, [lease EXCEPT ![r] = "none"]}
    /\ release' = [release EXCEPT ![r] = "failed"]
    /\ Finished(r)
    /\ degraded' = TRUE
    /\ UNCHANGED <<journal, writing, up, starts, recovering, exec, cancelled, pending,
                   uncertain, late, detached, stopping, history>>

Runner(r) ==
    \/ RunnerStarts(r) \/ LeaseReleaseFails(r)
    \/ \E ok \in BOOLEAN :
          \/ RunnerNeverStarts(r, ok) \/ RunnerSucceeds(r, ok) \/ LeaseReleased(r, ok)
          \/ \E unsure \in BOOLEAN : RunnerFails(r, unsure, ok)

-----------------------------------------------------------------------------
(* cancelTask.                                                             *)

\* The intent is durable before anything is aborted.
RecordIntent(r) ==
    /\ up /\ row[r] \notin {"none", "retired"}
    /\ <<"cancel", r>> \notin recovering
    /\ intent' = intent \cup {r}
    /\ expired' = expired \ {<<"cancel", r>>}
    /\ BeginPass(<<"cancel", r>>)
    /\ UNCHANGED <<row, finished, lease, writing, up, starts, tasks, late, detached,
                   degraded, stopping, history>>

\* After the pass: abort a task that is still running, refuse any other.
Abort(r, ok) ==
    /\ EndPass(<<"cancel", r>>, ok)
    /\ IF row[r] \notin Terminal \cup {"retired"} /\ exec[r] \in {"starting", "running"}
       THEN cancelled' = cancelled \cup {r} /\ promised' = promised \cup {r}
       ELSE UNCHANGED <<cancelled, promised>>
    /\ UNCHANGED <<lease, writing, up, starts, exec, pending, uncertain, release, late,
                   detached, stopping, ran>>

CancelTask(r) == RecordIntent(r) \/ \E ok \in BOOLEAN : Abort(r, ok)

-----------------------------------------------------------------------------
(* shutdown.                                                               *)

AbortActive == cancelled' = cancelled \cup (Active \ Settled)

StopFrame ==
    UNCHANGED <<lease, writing, up, queue, phase, exec, pending, uncertain, release,
                late, detached, history>>

Shutdown ==
    /\ up /\ shutdown = "no"
    /\ shutdown' = "starts"
    /\ AbortActive
    /\ ahead' = Len(queue)
    /\ StopFrame
    /\ UNCHANGED <<journal, recovering, awaiting, degraded, timedOut>>

\* The starts before it are over: abort what they may have left running.
StartsOver ==
    /\ up /\ shutdown = "starts" /\ ahead = 0
    /\ shutdown' = "tasks"
    /\ AbortActive
    /\ StopFrame
    /\ UNCHANGED <<journal, recovering, awaiting, degraded, ahead, timedOut>>

\* active.completion has resolved.
Complete(r) == exec[r] = "none" \/ (exec[r] = "settled" /\ release[r] # "pending")

\* Faulty: shutdown waits for tasks without a bound.
TasksOverUnbounded ==
    /\ up /\ shutdown = "tasks"
    /\ \A r \in Request : Complete(r) /\ late[r] = "none"
    /\ shutdown' = "recovering"
    /\ BeginPass(<<"shutdown">>)
    /\ StopFrame
    /\ UNCHANGED <<journal, degraded, ahead, cancelled, timedOut>>

\* waitBounded on every task and every lease cleanup.
TasksOver ==
    /\ up /\ shutdown = "tasks"
    /\ \/ /\ \A r \in Request : Complete(r) /\ late[r] = "none"
          /\ UNCHANGED timedOut
       \/ /\ \E r \in Request : ~Complete(r) \/ late[r] # "none"
          /\ timedOut' = TRUE
    /\ shutdown' = "recovering"
    /\ BeginPass(<<"shutdown">>)
    /\ StopFrame
    /\ UNCHANGED <<journal, degraded, ahead, cancelled>>

\* Faulty: shutdown looks at tasks only.
SettlesWithoutLeases(ok) ==
    /\ shutdown = "recovering"
    /\ EndPass(<<"shutdown">>, ok)
    /\ shutdown' = IF timedOut \/ Active # {} THEN "rejected" ELSE "fulfilled"
    /\ StopFrame
    /\ UNCHANGED <<ahead, cancelled, timedOut>>

Settles(ok) ==
    /\ shutdown = "recovering"
    /\ EndPass(<<"shutdown">>, ok)
    /\ shutdown' = IF \/ timedOut \/ Active # {} \/ detached # {}
                      \/ \E r \in Request : late[r] # "none"
                   THEN "rejected" ELSE "fulfilled"
    /\ StopFrame
    /\ UNCHANGED <<ahead, cancelled, timedOut>>

Stop == Shutdown \/ StartsOver \/ TasksOver \/ \E ok \in BOOLEAN : Settles(ok)

-----------------------------------------------------------------------------
(* The process and what it leaves behind.                                  *)

\* The process ends; providers and lease files outlive it.
Crash ==
    /\ up /\ up' = FALSE
    /\ queue' = <<>> /\ phase' = "queued" /\ ahead' = 0
    /\ recovering' = {} /\ awaiting' = [k \in Caller |-> {}]
    /\ exec' = [r \in Request |-> "none"]
    /\ cancelled' = {} /\ uncertain' = {}
    /\ pending' = [r \in Request |-> None]
    /\ release' = [r \in Request |-> "none"]
    /\ late' = [r \in Request |-> "none"]
    /\ detached' = {} /\ degraded' = FALSE
    /\ shutdown' = "no" /\ timedOut' = FALSE
    /\ lease' = [r \in Request |-> IF lease[r] = "none" THEN "none" ELSE "orphan"]
    /\ UNCHANGED <<journal, writing, history>>

\* The guard ends the provider of a task nobody supervises any more.
ProviderEnds(r) ==
    /\ r \in writing /\ (~up \/ r \in uncertain)
    /\ writing' = writing \ {r}
    /\ UNCHANGED <<journal, lease, up, starts, recovering, awaiting, tasks, late,
                   detached, degraded, stopping, history>>

\* recoverOrphanedWorkspaceLeases, once the dead owner's writer is gone.
OrphanRecovered(r) ==
    /\ lease[r] = "orphan" /\ r \notin writing
    /\ lease' = [lease EXCEPT ![r] = "none"]
    /\ UNCHANGED <<journal, writing, up, starts, recovering, awaiting, tasks, late,
                   detached, degraded, stopping, history>>

\* Faulty: reconciliation does not look for a cancellation intent.
FailedByRestart(r) == "failed"

\* What reconcileInterruptedTasks makes of an interrupted task.
EndedByRestart(r) == IF r \in intent THEN "cancelled" ELSE "failed"

Interrupted == {r \in Request : row[r] \in {"accepted", "running"}}

\* The supervisor lock is had only when no provider is left; the constructor
\* then ends what was interrupted (reconcileInterruptedTasks) and prunes.
Restart ==
    /\ ~up /\ writing = {}
    /\ up' = TRUE
    /\ \E order \in [1..Cardinality(Interrupted) -> Interrupted] :
          /\ \A i, j \in DOMAIN order : order[i] = order[j] => i = j
          /\ Prune([r \in Request |->
                      IF r \in Interrupted THEN EndedByRestart(r) ELSE row[r]],
                   finished \o order)
    /\ UNCHANGED <<lease, writing, starts, recovering, awaiting, tasks, late, detached,
                   degraded, stopping, history>>

TimeFrame ==
    UNCHANGED <<row, finished, intent, lease, writing, up, starts, recovering, awaiting,
                tasks, late, detached, degraded, stopping>>

\* 35 days after the last cancel of a task.
IntentExpires(r) ==
    /\ r \in intent /\ <<"cancel", r>> \notin expired \cup recovering
    /\ expired' = expired \cup {<<"cancel", r>>}
    /\ promised' = promised \ {r}
    /\ TimeFrame /\ UNCHANGED ran

\* 35 days after the retirement of its row, hence after its intents.
TombstoneExpires(r) ==
    /\ row[r] = "retired" /\ <<"start", r>> \notin expired
    /\ r \in intent => <<"cancel", r>> \in expired
    /\ expired' = expired \cup {<<"start", r>>}
    /\ ran' = ran \ {r}
    /\ TimeFrame /\ UNCHANGED promised

Environment ==
    \/ Crash \/ Restart
    \/ \E r \in Request : \/ ProviderEnds(r) \/ OrphanRecovered(r)
                         \/ IntentExpires(r) \/ TombstoneExpires(r)

Recovery == \E k \in Caller, r \in Request, ok \in BOOLEAN : Retry(k, r, ok)

Next ==
    \/ \E r \in Request : StartTask(r) \/ LateLease(r) \/ Runner(r) \/ CancelTask(r)
    \/ \E ok \in BOOLEAN : LateEnds(ok)
    \/ Recovery \/ Stop \/ Environment

Spec == Init /\ [][Next]_vars

-----------------------------------------------------------------------------
(* Properties.                                                             *)

\* Two providers never write in overlapping working directories, whatever
\* releases time out, runners cannot be confirmed dead or processes restart,
\* although the leases of nested directories do not exclude each other.
SoleWriter ==
    \A r, s \in writing : r # s => ~Overlaps(r, s)

\* The lease of a task is there as long as its provider may write: through a
\* termination that is not confirmed and through the death of the service.
WriterKeepsLease ==
    \A r \in writing : lease[r] # "none"

\* The lease of a task is released only when its outcome is in the journal, also
\* when the journal failed at first and is tried again later.
EndIsDurableFirst ==
    \A r \in Request :
       \/ up /\ row[r] = "running"
       \/ r \in Active /\ row[r] = "accepted"
       => lease[r] = "held"

\* What a task may write, it writes alone, under a lease, and until its outcome
\* is durable: the three above together.
LeaseDiscipline == TypeOK /\ SoleWriter /\ WriterKeepsLease /\ EndIsDurableFirst

\* A task that a person's cancel has aborted ends as cancelled and nothing
\* else, even if the process dies before the terminal event is written: as long
\* as the intent of that cancel lasts, 35 days.
CancelHonoured ==
    \A r \in promised : row[r] \in Terminal => row[r] = "cancelled"

\* A fulfilled shutdown leaves no provider writing, no lease held and no
\* outcome unwritten, so the supervisor lock and the journal can be let go.
ShutdownIsComplete ==
    shutdown = "fulfilled" =>
       /\ writing = {}
       /\ \A r \in Request : lease[r] # "held" /\ pending[r] = None

\* A request runs a provider once: retries, restarts and retention do not start
\* it again while its row is kept, nor for 35 days after the row is retired.  Once
\* its tombstone has expired the request is a new one and leaves ran.
RunsOnce == [][\A r \in ran : ~RunnerStarts(r)]_vars

\* The next turn of the recovery pass of k: a retry, or the bounded end of the
\* release it waits for.
PassMoves(k) ==
    \E r \in Request, ok \in BOOLEAN :
        Retry(k, r, ok) \/ (r \in awaiting[k] /\ LeaseReleaseFails(r))

\* Wherever shutdown stands, its next step is one the service can take by
\* itself: a runner that ignores its abort, or a lease acquisition that never
\* returns, does not keep it from answering.
ShutdownUnaided ==
    up /\ ShuttingDown =>
        CASE shutdown = "starts" /\ ahead > 0 ->
                ENABLED (PassMoves(<<"start">>) \/ \E r \in Request : StartProgress(r))
          [] shutdown = "starts" /\ ahead = 0 -> ENABLED StartsOver
          [] shutdown = "tasks" -> ENABLED TasksOver
          [] shutdown = "recovering" ->
                ENABLED (PassMoves(<<"shutdown">>) \/ \E ok \in BOOLEAN : Settles(ok))
          [] OTHER -> TRUE

\* A shutdown answers whatever runners and leases do, and does not answer that
\* all is over before it is.
ShutdownSound == ShutdownIsComplete /\ ShutdownUnaided

=============================================================================
