# A TLA+ development of AgentsToZ

AgentsToZ is a desktop application (a Tauri shell, a React interface, and a Bun
sidecar, `api-server.ts`) that lets coding agents work in a person's projects.
What can go wrong for good in it goes wrong in a few places: two writers meet in
one directory; a model is asked twice, or its answer replaces text it never saw;
two devices overwrite each other's memory; a text is typed twice into a terminal;
a deleted row comes back. This directory holds a formal model of the layers that
prevent that, what TLC checks of it and what TLAPS proves of it.

All paths below are relative to the repository root, unless they are names of
modules in this directory.

## 1. Inventory

| Component | State it keeps | Operations | Status |
|---|---|---|---|
| Owned file lock, `src/portalFileLock.ts` | lock file with its owner record; coordinator database | acquire (attempt loop), release, refresh, recover a dead manual owner | modelled: `OwnedFileLock` |
| Supervisor, guard registry, launcher, process guard: `src/agentRuntimeSupervisor.ts`, `src/agentRuntimeGuardRegistry.ts`, `src/agentRuntimeGuardLauncher.ts`, `agent-runtime-process-guard.ts` | supervisor lock; `process_guard_records`; a process group per launch | acquire with proof, reserve, spawn, activate, release after termination | partly: `AgentRuntimeGuard` |
| Workspace lease, `src/workspaceLease.ts`, `src/workspaceLeaseRecovery.ts` and the managed leases of `api-server.ts` | a lock file per directory and per Git family; handle states; held parts; the degraded flag | acquire, reserve, promote, release, drain, recover | partly: `WorkspaceLease`, with the abstract `PartLock` |
| Task service, `src/agentRuntimeService.ts`, and its journal `src/agentRuntimeTaskJournal.ts` | active tasks, start queue, detached leases; rows, intents, tombstones in SQLite | start, execute, cancel, recover pending ends, shut down, reconcile | partly: `AgentRuntimeService` |
| Memory save pipeline, `src/memorySave*.ts` and the host side in `api-server.ts` | save jobs, attempts, reviews, host plans, receipts; the document and the project journal | prepare, admit, ask, propose, commit, resume a plan, review, second attempt | partly: `MemorySave`, with the abstract `SaveAuthority` |
| Memory document transaction, `src/memoryDocumentTransaction.ts` | manifest, marker, the files of a memory | prepare, apply, resume, recover | modelled: `MemoryDocument` |
| Memory save dispatcher, `src/memorySaveDispatcher.ts` | queue, roots, the running job, the burst count | schedule, pump, time out, cancel, shut down | modelled: `MemorySaveDispatcher` |
| Memory ledger, `project-memory-server.ts`, `src/projectMemoryLedgerState.ts`, `src/schemaSql.ts` | rows numbered by a trigger; cursor, anchor and acknowledgements of a device | verify, pull, plan, push, reset | partly: `MemoryLedger` |
| Memory revisions and backup outbox, `project-memory-server.ts`, `src/memorySaveStore.ts`, `src/memorySaveMaintenance.ts`, `src/schemaSql.ts` | revisions on the server; document, sync configuration, backups and outbox of a device | push, pull, resolve, restore, back up | partly: `MemorySync` |
| Workroom submissions, `src/workroomSubmissions.ts`, `src/workroomConversationJournal.ts`, and their queue in `src/aiTerminalService.ts` | receipts, assemblies, writers | begin, chunk, commit, status, release, expire, type, Escape, shut down | partly: `WorkroomSubmissions` |
| Orca context commands, `src/contextOrcaCommand.ts` | receipts in the same journal, the lock of the process | execute, receipt, acknowledge | modelled: `ContextCommand` |
| Durable port fence, `src/portDurableFence.ts`, `src/portFence*.ts`, `src/schemaSql.ts`, handlers of `App.tsx` | a port row and its fence in the database; copies, markers and calls of each client | upsert, delete, delete or tombstone, restore, snapshot, pull, propagate | partly: `PortFence` |
| Conversations, `src/agentRuntimeConversationService.ts` and journal | turns, questions, history | as tasks, with turns | planned |
| Event projection, `src/agentRuntimeState.ts`, and the event stream of the journal | per-task event sequence | append, project | planned |
| Containment registry, `src/agentRuntimeContainmentRegistry.ts` | contained runs | register, observe, retire | planned |
| OPS requests, `src/opsRequestStore.ts` | request rows, tombstones | submit, update, prune | planned |
| Portal safety lease, `src/portalSafetyLease.ts` | token lease with expiry | acquire, renew, release | planned |
| Codex conversation launch, `src/codexFirstConversationLaunch.ts`, `src/codexDesktopSubmissionFence.ts` | pending conversation per project | create, retain, finalize, submit | planned |
| Automatic remember, remote-control relay, computer use, stores, screen relay, cloud, desktop shell, native helpers | | | not modelled (section 8) |

The MCP servers, the routes of `api-server.ts`, the terminal service and the
interface are modelled where they are a part of one of these, and not otherwise.

### How the modelled components meet

```
   api-server.ts  bootstrap / shutdown / managed leases
        |                     |                     |
  AgentRuntimeService --> WorkspaceLease       supervisor lock
        |  (contract: SameLease)  |  (every key)    |  canRecoverDeadOwner
        | launches                |                 v
        +--> AgentRuntimeGuard ---|----------> OwnedFileLock
                                  v                 |
                               PartLock <-----------+  (implement)

  MemorySaveDispatcher --> MemorySave --> MemoryDocument
     one job at a time      |   |  lease of the root, lease of the application
                            |   +--> SaveAuthority (implements)
                            v outbox
  MemoryLedger          MemorySync <---> revisions on the server
   journal, feedback      documents

  portals, phones --> WorkroomSubmissions --+
                                            +--> one conversation journal
  a person --------> ContextCommand --------+

  Macs, portals --> PortFence (one row of the shared database)
```

* A sidecar first acquires the **supervisor lock**; only the holder opens the
  journal, reconciles interrupted tasks and runs providers. On shutdown it gives
  the lock up only when the runtime's shutdown fulfilled.
* The service starts a provider through the **launcher**, which commits a
  reservation, then spawns a detached guard; the guard activates its row and
  then starts the provider in its own process group.
* Each task holds a **workspace lease**: one owned file lock for its directory
  and one for the Git family of the directory. A memory save holds one too.
* Every lock, supervisor or workspace part, is an **owned file lock**. What
  differs is the recovery class in the owner record: a `legacy` owner may be
  reclaimed when its PID is dead, a `guarded` one only with a proof that nothing
  it started is left, a `manual` one only by a person.
* A **memory save** waits in the dispatcher, asks a model for a new document
  under a durable permission, keeps a plan, writes the document by a
  **transaction** over several files, appends to the project journal, writes its
  receipt, and leaves a backup in the **outbox**, which pushes it later as a
  revision. Journal and feedback entries travel by the **ledger**.
* What a portal or a phone sends to a session, and what a person sends to a
  Claude Code in Orca, is typed under a receipt of one **conversation journal**.

### What is hard here

* *Processes die at any point* and leave files, rows and children behind
  (lock owners, partial creations, guards between spawn and activation, rows of
  interrupted tasks, admitted attempts, half-replaced documents, receipts of a
  text that may have been typed).
* *Several stores, no common transaction*: the lock's coordinator and the guard
  registry; job rows, plans, documents and journals of a memory; local files and
  the shared database.
* *State read before an await and used after it*: Git families, active tasks,
  the degraded flag, the document a model works on, the head of the revisions, a
  fence.
* *Operations that time out and still happen*: lease acquisitions and releases,
  pushes, backups, database functions, typed commands.
* *Steps that fail one at a time*: the journal, releases, spawn, cancellation of
  a reservation, one of several files.
* *Numbers given out before their transaction commits*, and databases that go
  back to an earlier moment.
* *PIDs are reused*, and a request of a person names a PID.

`PROJECT.json` lists them at their lines, with the property that covers each
or the reason none does.

## 2. Plan

Done, in the order of importance:

1. `OwnedFileLock`, `WorkspaceLease`: modelled, checked, proved; both implement
   `PartLock`.
2. `AgentRuntimeGuard`: modelled, checked, its safety and that it implements
   `OwnedFileLock` proved.
3. `AgentRuntimeService`: modelled, checked, its safety proved.
4. `MemorySave`, shown to implement `SaveAuthority`, `MemoryDocument`,
   `MemorySaveDispatcher`, `MemorySync`, `MemoryLedger`: modelled, checked, their
   safety and the refinement proved.
5. `ContextCommand`, `WorkroomSubmissions`: modelled, checked, their safety
   proved.
6. `PortFence`: modelled, checked, its safety proved.

What the plan has left:

* `TaskEvents`: the event stream of the journal with its sequence numbers, the
  reserved terminal slot and the projection of `agentRuntimeState.ts`, the fold
  checked against the journal's status machine over bounded streams.
* `CodexNewChat`: the retained first conversation and the submission fence. Two
  places to look at: a legacy `prepare` that left an uncertain fence lets a
  following `new` stay `started` though nothing was sent (against
  `api-server.ts:15806-15807`), and the reopen path clears the fence on evidence
  of another thread (against `api-server.ts:15518-15520`).
* `OpsRequests`: retirement and closing do not look at the revision again
  (against `src/opsRequestHost.ts:136`).
* `AgentRuntimeConversations` on the pattern of `AgentRuntimeService`, the
  containment registry, `PortalSafetyLease`, the ledger of the remote control.

## 3. The modules

### `OwnedFileLock`, one lock file

| Model | Code |
|---|---|
| `lockFile`: a call, `NoFile`, or `Bare` (no PID identity) | the lock file and its owner record `v3:pid:token:class`; the token makes a *call* the identity of an owner |
| `proc`, `deadFor`, `PidOf` | process incarnations; `PidOf` need not be injective |
| `left`, `observed`, `waited`, `manualRecoveryRequired` | the loop's locals `attempt`, `observedDeadOwner`, its time, and `manualRecoveryRequired` |
| `Create`, `WaitForGrace`, `RefuseDeadOwner`, `ReclaimDeadOwner`, `ReclaimStaleBare`, `WaitForOwner`, `AttemptFails` | one turn of the attempt loop, by its outcome; each is one transaction of `withPortalFileLockCoordinator` |
| `WindowOver`, `KeepOwner`, `UnlinkOwner` | the test before `canRecoverPidOwner` is asked, and what the turn does with a no and a yes |
| `CrashWhileCreating` | the process ends inside the transaction; the file system is not rolled back |
| `GiveUp` | `FILE_LOCK_BUSY`, or `FILE_LOCK_RECOVERY_REQUIRED` |
| `ReleaseReturns`, `ReleaseThrows`, `Refresh` | the release handle; `withOwnedPortalFileLock` logs a release that throws |
| `Release` | the same, with what the lock expects of its users: children it started are waited for first |
| `Confirm`, `RecoverDeadManualFileLock` | the listing shown to a person, and the recovery on the listed PID |
| `descendant`, `SpawnDescendant` | detached children of a holder that may outlive it (external) |

Time is counted in units of `Tick` and capped at `Grace`, since nothing tells
larger values apart. A proof option (`HasProof`) is assumed to answer yes only
when no child of the owner is left, and may always answer no; that the real one
does so is what `AgentRuntimeGuard` shows.

### `AgentRuntimeGuard`, the supervisor lock with its proof

It keeps the variables of `OwnedFileLock`, whose instance `Lock` it uses for
every step of the lock, and adds the registry (`record`, `launcher`), the guards
(`guard`) and the coordinator transaction in which the proof runs
(`coordinator`, `verdict`). `descendant` of the lock is replaced by `MayWrite`,
the owners with a recorded group that may still write, and the property
`ImplementsLock == Lock!Spec` says that the composition is an owned file lock.
`CanRecoverDeadOwner` commits its own database; `ConcludeAttempt` is the rest of
the lock's attempt; guards, crashes and time interleave. The composition uses
the parts of a step that carry no expectation (`KeepOwner`, `UnlinkOwner`,
`ReleaseReturns`, `ReleaseThrows`): that a proof answers yes only when no child
is left, and that a supervisor with children left does not release, is what
`ImplementsLock` has to find. A guard passes
`CheckParent`, `Activate`, `CheckParent` and `SpawnProvider` as four steps. Its
parent is the process incarnation that spawned it, not a PID: `process.ppid`
changes when that very process dies. An experiment outside the listed runs: with
an `Activate` that ignores the row, `RunningIsRecorded` still holds, because the
second `CheckParent` stops every guard whose row a
recovery could have deleted. The look at the row is a second line of defence.

This is the `registered-pgid-test` mode of the supervisor. In production its
class is `manual` and it has no proof option; then only `OwnedFileLock` with
manual owners applies.

### `WorkspaceLease`, directory and family

Parts are owned file locks of class `manual`: taken atomically, or not at all but
for a file that a failed creation may leave (`Debris`), and kept when their
process dies. `st[l]` is the place between two awaits of `acquireWorkspaceLease`
or `promoteWorkspaceDirectoryLease`. `Ask` is the one look at the admission and
the degraded flag, before the first await: a call that was admitted may get its
locks while the process drains. `DirectoryCut`, `FamilyCut` and `PromoteCut` are
creations whose write throws; `DebrisRemoved` is what a later attempt, or a
person, does with the file. An acquisition ends with the error it met (`OTHER`)
or with `IO`, which is what a caller may take as "perhaps a lock is left".
`CleanupPartialLease` and `Release` choose the set of parts whose release throws.
`Ends` forgets whatever the process knew of its leases and leaves the files.
`GitChanges` may
move any directory to another family at any time, a directory under a complete
lease included: an agent, or the `git-init` route of the sidecar, makes
repositories where it works. The code asks Git for the last time under both
locks and never again, so `FamilyExclusive` speaks of the moment a lease becomes
complete, next to complete leases whose repository is still the one they were
acquired for. A lease taken on a plain directory does not keep others out of a
repository made there later; the property makes that exception explicit, and the
list of hazards names it.

### `PartLock`, what the two agree on

A lock file in one page: `lock`, the owners that took it (`held`), the owners whose
process has ended (`ended`). It is taken only where there is none (`Take`), given
back only by the owner it names (`GiveBack`), taken from an owner only when its
process has ended (`Recover`), and a creation that is cut short leaves a file that
is nobody's (`Cut`, `Clear`). `OwnedFileLock` implements it (`ImplementsPartLock`,
under `FileHolder`, the owner in the file), and `AgentRuntimeGuard`, which
implements `OwnedFileLock` while PIDs are not reused, implements `PartLock` even
when they are (`SupervisorIsPartLock`). `WorkspaceLease` has many of them and shows
that each key of its map is one (`LockOf`, `PartsAreOwned`): what is assumed there
of a part, is shown here of a file. The classes and proofs that decide when a
recovery is allowed are below this page.

### `AgentRuntimeService`, one thread with many awaits

An action is the code between two awaits. `queue` and `phase` are
`#serializeStart`; `exec`, `cancelled`, `pending`, `uncertain` and `release` are
the fields of `ActiveTask`; `recovering` and `awaiting` the passes of
`#recoverPendingTerminals`, of which several may be under way; `late` and
`detached` the lease acquisitions that outlived their start; `row`, `finished`,
`intent` and `expired` the SQLite journal. A journal call that fails is the parameter
`ok = FALSE`. The workspace lease is its contract: `LeaseFree` lets no two
conflicting leases be held, a process's leases become orphans when it dies.
`Restart` requires that no provider is left, which is what the supervisor lock
is for.

The tombstone of a retired request and the intent of a cancel carry an
`expires_at`, 35 days after they were written
(`AGENT_RUNTIME_REQUEST_TOMBSTONE_TTL_MS`). `TombstoneExpires` and
`IntentExpires` are the end of these windows: they put the guard into `expired`
and may come at any time, whether the service is up or not. A prune deletes what
has expired (`Prune`), the check of a start deletes an expired tombstone the
prune has left (`ForgetExpired`), and the request is then a new one. An expired
intent is still honoured by the reconciliation of a restart, which does not look
at `expires_at` and comes before the prune, as in the code. Two facts about time
are used: a cancel's own call, some bounded waits, ends before its intent does
(which leaves out a cancel repeated under the same id in the last moments of the
35 days, for a task that has ignored its abort all along), and a tombstone,
being written after the cancels of its task, ends after their intents.

`ran` and `promised` are history variables: `ran` holds a request until its
tombstone expires, `promised` a task until its intent does. Request ids are
bounded strings (8 to 128 characters of a fixed alphabet), so `Request` is
finite.

### `MemorySave`, from a finished turn to a receipt

One memory is one project root. A run holds the workspace lease of its root
(`worker[m]`), and a run that may ask a model the application's lease too
(`appLease`).

| Model | Code |
|---|---|
| `policy`, `owner`, `phase`, `root`, `coverage`, `before`, `bound`, `approval`, `successor`, `outbox` | rows of the save store: `save_auto_policy`, `save_sources`, `save_jobs`, `save_host_sessions`, the reviews, `save_recovery_decisions`, `backup_outbox` |
| `pending`, `doc`, `journal` | the session plan of a root, the memory document, the saves its project journal tells of |
| `PrepareUpdate`, `Reserve`, `BeginAttempt`, `Revalidate`, `CallModel`, `Answer`, `AcceptProposal` | the executor: preparation, the job row, the admitted attempt, the second look, the provider and its proposal |
| `BindSession`, `WriteDocument`, `AdvanceToJournal`, `AppendJournal`, `WriteState`, `Register`, `Recheck`, `CommitLocal`, `FinishSession` | the host commit, step by step, with the document's transaction as one step (`MemoryDocument` opens it) |
| `ResumePlan` | what a person's recovery does with a plan that is still there |
| `Review`, `ReviewExpires`, `StartRecovery`, `AdmitSuccessor` | the reviewed second attempt, admitted in one transaction |
| `Fail` | any step throws, with its error path or without it (a death) |
| `Edit`, `ChangePolicy` | a person, a pull, the settings |

`SaveAuthority` is the promise behind all this: the consent to the policy is an
authority to ask a model about a turn once; a review may add one, and one only;
asking uses it up. `MemorySave` implements it under the mapping `Authority`:
`granted` counts the admitted attempts about a turn, `asked` the calls of the
provider, `saved` are the turns with a receipt.

Two things a reader of the code may not expect, and the model has: a death
between the admission and the plan leaves the job `summarizing`, and a `prepared`
job stays prepared; either fences every later save with `EXECUTION_BUSY` or the
open root until a person deals with it.

### `MemoryDocument`, several files at once

`marker` is the manifest in `.pending-document-write.json`, `plan` the copy the
host keeps, `work`, `todo` and `current` the writer's locals. `ScanPrepared`,
`Publish`, `BeginApply`, `CheckFile`, `ReplaceFile`, `SkipApplied`,
`VerifyApplied` and `ClearMarker` are the system calls of one transaction in
their order; `Stop` is a death or an error between any two, `Recover` the
next process that finds the marker, `Resume` the host that has its plan. `Edit`
writes any file at any time. The module makes no attempt to hide the moment
between the check of a file and the rename over it: `raced` records it, and
`EditsSurvive` names it as the only exception.

### `MemorySaveDispatcher`, the one slot

`queue`, `roots`, `active`, `burst` and `stopped` are the private fields of the
class; `answer[r]` is how the promise of a call settled. Methods and
continuations run to their end, so each is one step. `Run`, `Skip` and `Settle`
are the continuations of the active job; `EndWait` a wait that ends by its timer
or its caller; `Shutdown` and `ShutdownReturns` the two halves of `shutdown`.

### `MemoryLedger`, numbers out of order

The database numbers a row in a trigger under an advisory lock (the guard of
`Number`) and commits it later; a device pulls the rows after its `cursor`,
checks the row its cursor is anchored at (`Verify`), and sends what it does not
know to be stored (`acked`). Losses of the cache, of files and of transactions,
and a restoration of the database to an earlier moment (`Rewind`), are bounded by
constants. The two layers of the code, journal and feedback, are alike; one is
modelled.

`CursorsTellTruth` says that the check finds every cursor good until the database
is set back (`Anchored`), and that a cursor it finds good belongs to a true cache
(`CacheIsTrue`): no row up to it was left out and what is acknowledged is stored.
The second half is claimed for restorations too, but for those of a database that
one device writes to (`Traceable`). An experiment outside the listed runs, with two
devices, shows why: a device has pulled a page; the database is set back, and the
other device fills it again in another order, so that an entry of that page gets a
number it had before and an earlier row is new. The first device confirms its page,
pulls on in the same sync without a new check, and ends with a cursor whose anchor
stands and a row below it that it never received. `RewindTails` is the other
exception: a restoration that falls between a cursor and acknowledgements of later
uploads leaves the cursor good and acknowledgements of rows that are gone.

### `MemorySync`, revisions and backups

`revs` is the server's history, to which the compare-and-set of the head appends;
`requests` are appends that the server may still execute, also when their sender
has given them up. `op[p]` is an operation (push, pull, resolution, restoration,
backup) between two awaits; `config[d]` what `saveConfig` keeps; `backups[d]` the
texts that only the local backups have; `outbox[d]` the row of a saved text with
its lease, attempts and guard. One lineage is modelled; the pruning of old
revisions and backups is left out; a configuration written from what an operation
read long ago can only lead to a conflict that is none.

While its history was being proved, `BackedUpOnce` turned out to say less than
was meant, and something false besides: two devices may well back up the same
text. It now says that a backup's text is appended right after the head its save
was made under, where there is one revision.

### `WorkroomSubmissions` and `ContextCommand`, one journal

`row` is the journal, `boot` the process that opened it, `asm` the assemblies in
memory, `writer` the request at work in each lane (a session; all launches).
Commands come in any order and number, which is also a command that is lost, late
or sent twice. A reservation that is late and its removal are one step.
`Escape`, `Prune`, `Shutdown` and the release of a reservation do not wait for
the lane; `Restart` and `OpenedElsewhere` turn what was being written into
`unknown`. An experiment outside the runs: an Escape key pressed while the effort
of the session is being set gets in between, since nothing looks again
afterwards; `TypedInPlace` names that exception (`escaped`).

`ContextCommand` models the commands `/compact` and `/clear`: `row` its receipts,
`job` what a host does under its lock, `flying` what Orca was given and has
not typed. Two hosts may share the journal; the lock is that of one process.
`FenceHolds` is therefore stated per host; across two hosts it fails (an
experiment outside the runs).

### `PortFence`, one row of the shared database

`row` and `fence` are the tables, each database function is one step under its
advisory lock. `job[c]` is what a client is in the middle of, `net` the requests
that may still be executed, `view`, `pull` and `local` the copies clients work
on, `marked` the Macs whose `portal.json` lists the row as deleted. `Retry`,
`Quit` and `Finish` are the three ends of a call whose answer was lost, given up
or came. `Create`, `Edit`, `Bring`, `Push`, `Look`, `Merge`, `Discover` and
`Reconcile` are the owner's window; `Mark`, `Ask`, `LookBefore`, `Unmark`,
`LookAgain` a deletion by a Mac; `Read`, `PortalSave`, `PortalDelete`, `Lift`
the other clients. A batch stands and falls as a whole, so one row stands for it.

## 4. What is checked

Several runs hold instances or subjects beside each other: a behaviour chooses
one and leaves the rest at its start. This keeps what belongs to one question in
one run; the MC module names them.

| Run (module, cfg) | Instance | Properties |
|---|---|---|
| `lock` (`MCOwnedFileLock`, `OwnedFileLock.cfg`) | 3 calls in 3 processes. *mixed*: own PIDs, classes guarded, manual and legacy, a proof option for two, 3 attempts, grace 1, a recovery request; *reused*: the third process has the first one's PID; *legacy*: all legacy, grace 0, fair | `MutualExclusion`, `ImplementsPartLock`, `RecoveryAdviceJustified`, `FullGrace`, `ManualNeedsPerson`, `ExclusionDespiteReuse` (a reused PID makes an owner look alive, never dead), `LegacyLockNeverBlocks` |
| `lock_manual_pid_reuse` (`MCManualFileLock`, `ManualFileLock.cfg`) | all manual, a PID reused, 2 requests | `OnlyListedOwnerRemoved` fails: finding below |
| `guard` (`MCAgentRuntimeGuard`, `AgentRuntimeGuard.cfg`) | 3 incarnations of the supervisor. *distinct*: own PIDs, 1 launch; *reuse*: the third has the first one's PID, 2 launches | `SupervisorAuthority`, `AuthorityDespiteReuse` (the same with the reused PID), `ImplementsLock`, `RecoveryCompletes` |
| `workspace_lease` (`MCWorkspaceLease`, `WorkspaceLease.cfg`) | 2 processes, 2 leases on one directory, a reservation on the other, 2 families, 1 failed creation at a time | `FamilyExclusive`, `ReservationKeepsDirectory`, `NothingLeftBehind`, `PartsAreOwned` |
| `service` (`MCAgentRuntimeService`, `AgentRuntimeService.cfg`) | 2 tasks in nested directories whose leases do not exclude each other. *wide*: both may run, both rows are kept; *narrow*: one of each; *aged*: as narrow, and tombstones and intents expire | `LeaseDiscipline`, `CancelHonoured`, `ShutdownSound`, `RunsOnce` |
| `save` (`MCMemorySave`, `MemorySave.cfg`) | 3 jobs. *turns*: two turns of one memory, two policy changes; *memories*: two memories with a turn each | `CommitDiscipline`, `OnlySeenTextReplaced`, `CallsAreAuthorized` |
| `memory_host` (`MCMemoryHost`, `MemoryHost.cfg`) | *queue*: 5 calls, 3 of them manual, 2 of one root, 3 may wait, bursts of 2; *document*: one transaction over 3 files, 2 of them edited; *save*: 2 jobs about one turn; *backup*: a backup and the pushes of one device. All fair | `QueueDiscipline`, `DocumentKept`, `EveryCallAnswered`, `HalfDoneCompletes`, `OutboxSettles` |
| `ledger` (`MCMemoryLedger`, `MemoryLedger.cfg`) | pages of one row, one loss. *spread*: 2 devices, 2 entries; *rewound*: 1 device, 3 entries, one restoration. Fair | `CachesTellTruth` (`CursorsTellTruth` of both), `EntriesArrive` |
| `sync` (`MCMemorySync`, `MemorySync.cfg`) | 2 devices, 4 runs of operations, 2 texts and their forms without identities, 2 revisions, 2 edits, 1 late request; nine subjects: pushes, backups of a device, conflicts and their resolutions, two operations at one device | `HistoryIsSound`, `NothingLost`, `UnsyncedKept` |
| `host_commands` (`MCHostCommands`, `HostCommands.cfg`) | *alone*: one host with 3 boots, both commands; *shared*: two hosts on one journal; *inputs*: two submissions to one session and keys; *launch*: a submission and a launch, a restart, Escape | `CommandsKeepTheirWord`, `SubmissionsKeepTheirWord`, `FenceHolds` |
| `settling` (`MCSettling`, `Settling.cfg`) | *workroom*: a submission and a launch, 2 boots, writers that go on; *hung*: writers that need not; *port*: the owner of a row and a portal. Fair | `SubmissionsEnd`, `DeletionArrives` |
| `port` (`MCPortFence`, `PortFence.cfg`) | 3 operations. *edits*: owner and portal write a row of two columns; *deletes*: two Macs and a portal write, delete, restore and take snapshots; *create*: the row does not exist yet | `OperationsOnce`, `StaysDeleted`, `ExistingKept` |

Each property of a passing run has a mutant in its module, marked *Faulty* and
defined right before what it replaces: a dropped comparison, a missing reset, a
skipped second look. TLC finds the property violated with the mutant in place,
under the bounds of the same run.

### Finding

`recoverDeadManualFileLock` is documented with "a new owner that appeared after
the listing is never removed" (`src/portalFileLock.ts:211-215`). The request
carries only the listed PID, and line 231 compares only that. In
`lock_manual_pid_reuse` a first manual owner dies and is listed twice; one
recovery removes it; a later manual owner in a process that got the same PID
takes the lock and dies; the second request then removes that owner's record,
although its child may still be writing, which nobody was asked about. While
no process of a manual owner gets the PID of an earlier one the sentence holds,
and that is proved (`OnlyShownOwnerRemoved`). A token, or a digest of the owner record, in the
request would make it true without that assumption.

Three more places where the code does less than one might expect are outside the
listed runs. A ledger that is set back to a moment *between* a cursor and later
acknowledgements (`RewindTails = TRUE`) never notices: the anchor stands, so what
was acknowledged and lost is not sent again, and `EntriesStored` fails. And a
client that creates a port row quotes the generation its first text will have,
so a creation executed late is taken for its own text; `KnewWhatItReplaced` fails
for the subject *create*, and `ExistingKept` and the theorem
`SeenBeforeReplaced` therefore speak of rows that exist. The third is the sync
that pulls on after the database was set back under it, told above with
`MemoryLedger`.

### Bounds

* **Three owners** of a lock: one that dies, one that recovers, one that comes
  after; a stale judgement about the first needs the third to do harm. With a
  reused PID the third has the first one's, where a mistake would show.
* **Grace 1** tells a window that has passed from one that has not, and an
  inherited one from a fresh one. **Attempts 3** allow: observe an owner, wait,
  act on what was observed; the guard's run uses one, since the window is not
  what it is about.
* **Two launches** make a row removed with another one left. One is enough for
  liveness, where rows do not help each other, and for the refinement.
* **Two requests** of a person: one that recovers, and one that arrives late.
* **Three leases, two directories, two families**: contenders for one
  directory, for one family from two directories, and a family to move to. **One
  file** (`MaxDebris`) that a failed creation left: it stands in the way of a
  directory or of a family.
* **Two tasks**: one that runs and one that starts, in the harder relation
  (nested). `MaxPending` is 1, `Keep` 2 or 1, instead of 8 and 500, so that the
  limits are met. `MaxConcurrent` is 2 or 1 instead of 4. Windows of tombstones
  and intents end only in *aged*, where no shutdown comes; the proofs have both
  everywhere.
* **Three jobs** of the save pipeline: an attempt, its reviewed second one, and
  another save beside them. **Three files**: one replaced, one at work, one to
  come. **Five calls** and **bursts of 2** (instead of 16 and 3): the queue is
  full, and a background save waits behind more manual ones than may pass it.
* **Two devices** and **two revisions** beyond the first state: a head that
  moves between the read and the append, by the other device. **One late
  request**, **two attempts** (instead of 20): one that is given up and one
  that comes after it. Where a person resolves conflicts no request outlives
  its operation, and one backup per device waits at a time.
* **Three operations** on a port row: one that is repeated late, one that
  overtakes it, one that undoes the other.
* **Three boots** of a host: one that dies with a command under way, one that
  finds it, one that finds what that one left.
* Symmetry is used for requests, jobs, Git families, texts, devices and hosts,
  which the constants of those runs treat alike, and never in a run with a
  liveness property.

`CHECK_DEADLOCK FALSE` is set everywhere: calls are finite in number and every
system here may come to rest, with all processes ended.

### Fairness

* The lock: `setTimeout` fires and a caller that timed out asks again
  (`AcquireStep`, `Begin`), time passes (`Tick`, `MtimeAges`). Nobody has to
  start, crash, release or confirm.
* The guard: the same, guards go through their start-up code, and a guard whose
  parent is gone ends its group (end of stdin, and the parent poll). A group
  whose supervisor lives need not end.
* The document: a writer goes on or stops on an error, and recovery is asked for
  again (every reader of a memory does so first).
* The dispatcher: continuations run and every run settles, since it honours the
  abort of its signal; whoever began a shutdown waits for it. No timer is needed.
* The save pipeline: runs go on or throw, their waits being bounded by timeouts,
  and a person resumes a retained plan sooner or later.
* The outbox: the maintenance timer comes back for ever. Strong fairness is
  asked of starting a backup, which other operations of the device may hold up
  again and again; every operation goes on or fails.
* The ledger: the database works on what it was sent, devices sync from time to
  time. Its properties speak of behaviours whose failures cease (`Calm`).
* Submissions: the expiry timer of a reservation runs. Writers go on only in
  *workroom*; in *hung* they owe nothing, and reservations must end all the same.
* The port fence: the window's poll runs, and a call is answered or given up.

`ShutdownSound` needs no fairness: it says that the next step of a shutdown is
one the service can take by itself.

## 5. What is proved

Eight modules hold proofs. Each proves its invariant inductive, one lemma per
action, for every value of the constants; the temporal theorem puts initial
states, steps and consequences together.

The assumptions are the ones named in the component's module (`ConfigAssumption`,
`DistinctAssumption`, `GuardAssumption`, `WorkspaceAssumption`, `ServiceAssumption`,
`MemorySaveAssumption`, `DispatcherAssumption`, `SyncAssumption`,
`LedgerAssumption`, `FenceAssumption`): constants have their types, bounds are natural numbers, and
the markers for "nothing" are nothing else. TLC evaluates them in the runs. Where
a theorem has a hypothesis besides, it is named below.

### `OwnedFileLockProofs`

| Theorem | States |
|---|---|
| `TypeCorrect` | `Spec => []TypeOK` |
| `HolderKeepsFile` | `Spec => []HolderOwnsFile`: a call that holds the lock is the owner in the file |
| `FileIsPartLock` | `Spec => ImplementsPartLock` |
| `AdviceIsJustified` | `Spec => []RecoveryAdviceJustified` |
| `GraceIsFull` | `Spec => FullGrace` |
| `ManualIsKept` | `Spec => ManualNeedsPerson` |
| `MutualExclusionHolds` | `Spec => []MutualExclusion`, under `ManualPidsNotReused` |
| `OnlyShownOwnerRemoved` | `Spec => OnlyListedOwnerRemoved`, under `ManualPidsNotReused` |

`ManualPidsNotReused` says that two manual owners in processes with one PID are
in one process; guarded and legacy owners may have any PID. `OnlyShownOwnerRemoved`
fails without it (`lock_manual_pid_reuse`). `MutualExclusionHolds` needs it for
the same reason: the recovery of a manual owner on a reused PID may remove an
owner with a living child. Both instances of the run `lock` satisfy it, so the
theorem is also the general form of `ExclusionDespiteReuse`.

`HolderOwnsFile` alone is not inductive: a reclaim removes a file
on the evidence of an *observed* owner, gathered in earlier attempts. `LockInv`
therefore adds that the owner in the file and all holders have been started
(`FileOwnerStarted`: so a dead PID means a dead process, not an unborn one) and
that an observed owner is dead and was so at least as long as it was observed
(`ObservedIsDead`). The latter gives the grace property: the window measured by
a contender never exceeds the time since the death. `ChildInv` adds what mutual
exclusion needs: a child writes only under the file of its owner
(`ChildUnderFile`), and the owner a person was shown is manual, dead, childless, and not
followed by another owner of the same process (`RequestedIsGone`).

`FileIsPartLock` has no hypothesis: whatever the classes and however PIDs are given
out, a file is taken from an owner only when its process is gone. In it a reclaim
and a person's recovery are `Recover` because of `FileOwnerStarted`: a PID that
nobody has is that of a process that ended. A release compares the owner itself,
so it is `GiveBack`, and the removal of a file without an owner is `Clear`.
Attempts, waits, time, requests and children stutter.

### `AgentRuntimeGuardProofs`

| Theorem | States |
|---|---|
| `GuardInvariant` | `Spec => []GuardInv` |
| `SupervisorHasAuthority` | `Spec => []SupervisorAuthority` |
| `WritersExclude` | `Spec => []Lock!MutualExclusion` |
| `NoProviderAfterRecovery` | `Spec => NoLateProvider`: a deleted row's provider does not start |
| `GuardImplementsLock` | `Spec => ImplementsLock`, under `PidsNotReused` |
| `SupervisorIsPartLock` | `Spec => Lock!ImplementsPartLock` |

`GuardAssumption` says that every supervisor writes the class guarded and has the
registry's proof (`registered-pgid-test`). `GuardInv` has the lock's own
`HolderOwnsFile` and `FileOwnerStarted`, the order in which a launch gets its
row, its guard and its activation (`LaunchInOrder`), that a recorded group that
is alive is one of the owner in the file (`GroupsUnderLock`), and what an attempt
that has asked for a proof may rely on until it acts (`AttemptUnderWay`): the
owner in the file is a dead process whose window is over, and after a yes no row
of anybody is left. The last stays true although guards and launchers go on,
because only a live holder makes rows and the file names a dead one.

None of this depends on how PIDs are given out. The refinement does: the proof
looks at the PID once, and when the PID is given to a new process before the
attempt acts on the answer, the lock's own look would have refused. In it
`SpawnGuard` is `SpawnDescendant`, `ConcludeAttempt` is `ReclaimDeadOwner`,
`RefuseDeadOwner` or `AttemptFails`, a release by a supervisor whose shutdown is
complete is `Release`, and every other step of the registry and of the guards
stutters or is `DescendantEnds` (`ChildrenEnd`; at most one owner has children).

`SupervisorIsPartLock` needs no hypothesis on PIDs, and does not follow from the
other two refinements where PIDs come back: the owner whose file a recovery removes
is a process that ended (`AttemptUnderWay`), whoever has its PID by then. With
`SupervisorHasAuthority` it is what is proved of the instances in which the run
`guard` gives PIDs out again (`AuthorityDespiteReuse`).

### `WorkspaceLeaseProofs`

| Theorem | States |
|---|---|
| `TypeCorrect` | `Spec => []TypeOK` |
| `FamiliesExclude` | `Spec => FamilyExclusive` |
| `ReservationIsKept` | `Spec => []ReservationKeepsDirectory` |
| `NothingIsLeft` | `Spec => []NothingLeftBehind`: neither after a release that returned, nor after a drain that was waited for |
| `PartsAreOwnedHolds` | `Spec => PartsAreOwned` |
| `EveryKeyIsAPartLock` | `Spec => LockOf(k)!Spec`, for every key `k` |
| `OneHolderOfAPart` | `Spec => []LockOf(k)!HolderHasLock`, for every key `k` |

`WorkspaceAssumption` says besides the types that a directory is not a family:
the code hashes them under different prefixes.

Two invariants. `ExclusionInv` says that a lease being acquired or
held has the lock of its directory (`DirectoryLocked`) and, from the acquisition
of the family on, the lock of the family it was told (`FamilyNamed`,
`FamilyLocked`). It is inductive because a lock is taken only when free, a
release of parts touches its own lease's locks only (`ReleaseOwnOnly`), and a
failed promotion releases a family's lock, which is never a directory's. The
second probe then turns "the family it was told" into "the family its directory
is in" (`CompletesLocked`). `CleanupInv` accounts for every lock: it is a part of
its lease's handle, or the family lock a promotion is about to add, or the error
said `IO` (`PartsKnown`), and the held count knows it until a release of it threw
(`HeldCounted`); what a process knew is gone with it (`MemoryEnds`), so both
speak of the living. `OwnStepCleanup` states once what a step of one lease has to
show; the case of each action is then a few facts about its parts.

For the refinement a step is looked at from one key (`PartRests`, `PartTaken`,
`PartGivenBack`, `PartCut`): a step of a lease takes, gives back or leaves alone
the lock of that key, and the end of a process is `End`, since its leases stop
being held and their files stay.

### `AgentRuntimeServiceProofs`

| Theorem | States |
|---|---|
| `ServiceInvariant` | `Spec => []ServiceInv` |
| `LeaseDisciplineHolds` | `Spec => []LeaseDiscipline`: writers do not overlap, a writer has its lease, a lease outlasts the journal's entry |
| `CancelIsHonoured` | `Spec => []CancelHonoured`, for as long as the intent of the cancel lasts |
| `ShutdownCompletes` | `Spec => []ShutdownIsComplete`, the safety half of `ShutdownSound` |
| `ShutdownNeverStuck` | `Spec => []ShutdownGoesOn`: what shutdown waits for can move without a runner, a lease or a person |
| `RunsOnceHolds` | `Spec => RunsOnce`: not again while the row is kept, nor until its tombstone has expired |

They hold for every finite set of requests, every set of projects and every
relation between their directories, however many tasks may run, wait or be kept.

`ServiceInv` has parts about the whole service and parts about one request.
`Gone`: a dead process has no task, pass or start. `Rows`: which rows the journal
can have, and that `finished` lists the finished ones, each once, so that
retention is the removal of a prefix. `Starts` and `HeadOfQueue`: one start is
between its awaits, the one at the head; what it was told of the active tasks
stays true because nothing else becomes active meanwhile. `Task`: what a place
in `#execute` says of the row, the journal and the runner. `Leases`: whose lease
is held, late, detached or orphaned. `Disjoint`: active tasks do not overlap.
`Passes`: who waits for what in a recovery pass. `Promises`: what was aborted on
a person's cancel can only end as cancelled, for which it needs the intent in the
journal until the end is written. `Guards`: what has expired binds nobody: the request of an expired tombstone is
not in `ran`, and no promise rests on an expired intent. So a prune, which
deletes expired guards and no others, breaks neither. `Over`: what a fulfilled shutdown leaves.
Mutual exclusion of the writers then is `SoleWriter`, which is not a consequence
of `ServiceInv` but preserved under it: a provider whose service died still
writes, no task stands for it any more, and it is the restart's condition that
keeps new writers out (`WritersAreTasks`, `GoneAddsNoWriter`).

The lemmas about operators say once what `Prune`, `Record`, `Leave`, `Settle`,
`Retry` and `Restart` do to rows, finished rows and intents (`PruneKeeps`,
`RecordKeeps`, `LeaveKeeps`, `SettleRows`, `RetryRows`, `RestartRows`), what the
end of a window does (`TombstoneExpiresKeeps`, `IntentExpiresKeeps`), and that
overlapping is symmetric (`OverlapsBothWays`).

### `MemorySaveProofs`

| Theorem | States |
|---|---|
| `SaveInvariant` | `Spec => []SaveInv` |
| `DisciplineHolds` | `Spec => []CommitDiscipline` |
| `SeenTextReplaced` | `Spec => OnlySeenTextReplaced` |
| `CallsAuthorized` | `Spec => CallsAreAuthorized`: the pipeline implements `SaveAuthority` |

`CommitDiscipline` counts: jobs of a memory, attempts, jobs about a turn. The
invariant does not. `Unique` says that two open jobs of a memory, or two
unresolved attempts, are the same; `Jobs` that a job about a turn is its owner or
the owner's successor; `Lineage` that a job has a successor exactly when it was
given up, and that a successor has none. The cardinalities follow from that by
lemmas (`AtMostOne` and its likes). `Plans` and `Traces` tie plan, document and
journal to bound jobs; `Knows` says what a run knows of its job by how far it
came, for every run (`Workers`). `PlanOutlivesReceipt` and `ReceiptIsBacked` are
properties and inductive beside these.

For the refinement `AttemptIsGrant`, `CallIsAsk` and `ReceiptIsSave` map a step
that begins an attempt, calls the provider or writes the receipt to `Grant`, `Ask`
and `Save` of the batch of turns of the job; `QuietStep` shows that all others
stutter. `Grant` needs that a turn has at most two jobs, `Ask` that the job was
never asked for, both from `SaveInv`.

### `HostProofs`

| Theorem | States |
|---|---|
| `QueueIsKept` | `Spec => []QueueDiscipline` of `MemorySaveDispatcher` |
| `DocumentIsKept` | `Spec => DocumentKept` of `MemoryDocument`, under `DocumentConstants` |
| `CommandsKept` | `Spec => [](TypeOK /\ SentOnce /\ BuriedStaysBuried)` of `ContextCommand`, under `OrcaConstants` |
| `FenceIsKept` | `Spec => FenceHolds` of `ContextCommand`, under `OrcaConstants` |
| `AnswersStayKept` | `Spec => []AnswersStayTrue` of `ContextCommand`, under `OrcaConstants` and `OneHost` |
| `SubmissionsKept` | `Spec => []SubmissionsKeepTheirWord` of `WorkroomSubmissions`, under `WorkroomConstants` |

The module extends the dispatcher and has instances of the document, of the
commands and of the submissions. `OrcaConstants` says that the bound of restarts is a number and that
`None` is no receipt and no job.

`CommandInv` is what a receipt says of the terminal: nothing was handed over for
a request that is new, prepared or rejected, what was handed over is the command
of the receipt, and once (`ReceiptsTell`); how far the receipt of a job is by the
phase of the job, as long as it is the host's own (`JobsKnow`); that a host with
a job has no other outcome open (`FencesStand`), which gives `FenceHolds`; and
that what was released before it arrived has a receipt that refuses it
(`BuriedRejected`). `OneHost`, that there is one host process, is what the run
asks for as well: a second host that answers from a receipt reports a prepared
one as rejected, and its owner may still send it. With it every answer given
stays backed by the journal (`AnswersBacked`).

`WorkroomConstants` says that inputs are no launches, that a text has a chunk and
a process starts, and that `None` is no text, intent, reservation or writer.
`SubmissionInv` ties four places together: what the journal says and what was
typed (`EntriesTell`); what a writer carries, its intent and its piece of it, and
how far it is (`WritersKnow`), where an input that was not escaped goes to the
revision it was made for; the reservation of a request that is being written and
its writer (`WriterOfReservation`, with the types); and what a client was shown
and the journal (`ShownStays`). A row of an earlier boot that is only prepared is
shown as held: it stays true because nobody of this boot can take it on, and the
next boot still finds it old. The steps that end a writer share `LeavingKeeps`,
those that pass a text on `HandingKeeps`, and all use how a row may move
(`EntryMoves`).

`DocumentConstants` says that the bound is a number and that `None` is no
manifest. `DocumentInv`: manifests that lie about are those of one transaction
(`OneTransaction`); the writer's locals agree with its manifest (`WriterKnows`);
and while nobody edited, each file holds what the progress of the writer says, so
that the marker is gone only when all or none are replaced (`Progress`).

`QueueInv` adds to the discipline that every accepted call is in one place, its
root's (`OnePlace`), and that what runs was called and does not wait any more
(`RunsInTurn`). The lemmas are about removing an element from a sequence without
repetitions.

### `MemorySyncProofs`

| Theorem | States |
|---|---|
| `SyncInvariant` | `Spec => []SyncInv` |
| `HistorySound` | `Spec => []HistoryIsSound` |
| `NothingIsLost` | `Spec => NothingLost` |
| `UnsyncedIsKept` | `Spec => UnsyncedKept` |
| `CursorsAreTrue` | `Spec => []CursorsTellTruth` of `MemoryLedger`, under `LedgerConstants` |

`Operations` says of an operation what its place lets it know: where it may
stand (`Stationed`), what the text it holds has to do with the document and with
the server (`Holds`), and, of a backup, how it agrees with its row (`BacksUp`).
`RequestsKnow` says that a request that may still be executed knows the text of
the revision it would follow (revisions never change, so that stays true however
late it is), or is forced, and that a backup's request is that of its row, whose
text `Rows` keeps; `Awaited` ties a request that is waited for to its
operation. A late
request is refused by the compare-and-set unless it still follows its parent:
that is why the guard needs no clock.

The module extends `MemorySync` and has an instance of the ledger.
`LedgerConstants` gives the types of its constants, as `LedgerAssumption` does, and
nothing else: any number of devices, losses and restorations. `LedgerInv`: the
numbers are given out in the order of the commits, because the upload that has one
is the only one and above every row (`NumbersGrow`); what a sync works with is in
the files, and what it sends is not acknowledged (`SyncHolds`); an anchor is an
entry that was acknowledged (`AnchorsKnown`); a page is of rows after the cursor
and is held between two steps only (`PagesAhead`); until the database is set back
pages have rows that are there, and cursors are good (`NeverSetBack`).

`Tracked` is the rest, for what `Traceable` allows. A page that is there has all
rows between the cursor and its own last one, also when others are committed before
it is confirmed (`PageFollows`); a good cursor has a true cache, and a commit lands
above it (`CursorTells`). What a restoration leaves is said in the other branches.
It ends all uploads, and the entry of a cursor it fell behind is acknowledged, so
that it is not sent again, and the cursor not good again by accident, before a
check makes the device forget it. A device that was pulling has its check behind
it: for it the database ends before the cursor, or before the rows of the page that
are gone, and stays so until the pull is over, since nobody else writes. That is
where `Traceable` asks for one device.

The lemmas say that the first page of some rows is closed downwards
(`PageIsClosed`, by the sizes of finite sets), that a page that is not empty has a
last row (`LastRow`), and which steps leave all cursors as they are
(`CursorsStay`) or let one device forget its own (`CacheForgotten`).

### `PortFenceProofs`

| Theorem | States |
|---|---|
| `OperationsAreOnce` | `Spec => []OperationsOnce`, under `FenceConstants` |
| `DeletedStaysDeleted` | `Spec => StaysDeleted`, under `FenceConstants` |
| `SeenBeforeReplaced` | `Init /\ row # None /\ [][Next]_vars => [][KnewWhatItReplaced]_database`, under `FenceConstants`, where `None` is no text |

`FenceConstants`: a Mac is no portal, drafts are whole texts, `None` is nothing
else. `FenceInv` has the types of everything in flight (`Types`), what is known of
requests with one operation id (`Once`: copies say the same, and once the
operation had its effect every copy left finds the row beyond it), and what a
marker stands for (`Marks`: a Mac that asked for a deletion is marked as long as
it may be carried out).

That nobody writes over a column it has not seen needs what every copy of a text
in the system is worth (`Sight`): no generation that anybody quotes is beyond the
fence; who quotes the present one has the present text among those it saw
(`Knowing`); and a text held by a portal, by a pull or in an answer agrees with
the row if it is of the present generation, and outside of what was written last
if it is of the one that was written over (`Holding`). The second half is what
adopting a lost answer rests on: the client gets the present generation for the
old text with its own patch over it, and that is the row only because the fence
keeps both the generation and the patch (`LastWritten`). The functions of the
database move the row in four ways (`Moves`), each of which leaves all of this
true for any text (`HoldingMoves`, `KnowingMoves`), so that only the steps that
take a copy are left to look at. When `Adopted` does not compare the patch, the
proof of `UpsertMoves` breaks.

## 6. What is model-checked only

* Liveness, out of the prover's reach: `LegacyLockNeverBlocks`,
  `RecoveryCompletes`, `EveryCallAnswered`, `HalfDoneCompletes`,
  `OutboxSettles`, `EntriesArrive`, `SubmissionsEnd`, `DeletionArrives`.
* `ShutdownUnaided`, the half of `ShutdownSound` that says that shutdown can
  always go on: it is stated with `ENABLED`. The guards it comes down to are
  proved to hold as `ShutdownGoesOn` (`ShutdownNeverStuck`).
* `PartLock` leaves open when a recovery is allowed, and `LegacyLockNeverBlocks`
  and `RecoveryCompletes` are what TLC knows of it ever happening.
* `DocumentKept`, `ExclusionDespiteReuse`, `AuthorityDespiteReuse`,
  `CachesTellTruth`, `CommandsKeepTheirWord`, `SubmissionsKeepTheirWord`,
  `FenceHolds` and `ExistingKept` are stated or checked in other modules than the
  theorems that cover them (`DocumentIsKept`, `MutualExclusionHolds`,
  `SupervisorHasAuthority`, `CursorsAreTrue`, `CommandsKept` with
  `AnswersStayKept`, `SubmissionsKept`, `FenceIsKept`, `SeenBeforeReplaced`),
  which are about the modules themselves, most of them as instances.

## 7. Abstractions a reader should know

* File systems: `O_EXCL` creation, unlink, rename and SQLite transactions are
  atomic; a crash inside a transaction keeps file effects and drops database
  effects.
* `process.kill(pid, 0)` answers truthfully; `EPERM` counts as alive, as in the
  code.
* A process group that the code has confirmed gone is gone. That a provider may
  detach a grandchild from its group is the reason production owners are
  `manual`; the model of the guard does not contain it.
* In `WorkspaceLease` the attempt loop of a part is one step: taken, refused, or
  cut short. Waiting is the time between two steps.
* In `AgentRuntimeService` the cancel wait, which only delays the answer, is
  left out, and so is `forceAbortNow`, which precedes an exit (`Crash`). The
  branch of `createOrGetTask` for an existing row cannot be reached, since
  starts are serialized and checked before. A row that could not be read back
  after its creation stays accepted until the next restart; the model has it, no
  property speaks of it.
* In `MemorySave` the two readings of the document inside the synchronous part
  of the commit are one step, and the transaction over the files is one step:
  `MemoryDocument` is what happens inside it.
* Texts are compared, never looked into: a hash stands for its text in
  `MemorySave`, `MemorySync` and `MemoryLedger`, and two equal hashes are two
  equal texts. `Stable` stands for the identities that entries are given.
* `LegacyLockNeverBlocks` is checked with grace 0: what it shows is that crashes,
  other owners and partial files do not block the lock. That a window starts anew
  for a new owner is `FullGrace`, in the instance with grace 1.
* In `WorkroomSubmissions` the journal answers. The code swallows a failing
  write where a receipt is refused or pruned (`workroomSubmissions.ts` 47-48 and
  155), so the launch half of `SubmissionsEnd` assumes that those writes succeed.
* In `PortFence` a deletion that fails before it is sent, whose marker the code
  takes back (`App.tsx` 7393-7436), is the same as one that was never begun: it
  leaves the markers as they were before `Mark`. Where a handler queries the markers
  and then writes one, the two are one step.
* Encryption, sizes, permissions and the formats of rows and messages are left
  out everywhere.

## 8. Not modelled

* Of the modelled components: event stream, provider identifiers and mode
  gates of the task journal and service; the Claude remote
  launcher, which follows the same reserve, spawn, confirm, release steps;
  refresh and assert of workspace leases, path canonicalisation; session plans a
  person writes, the provider transition probe, the encrypted input store and its
  expiry; identities and aliases of memories, retention of revisions; row
  validation and migration of the ledger's state; route delivery, attachments
  and receipt limits of submissions; `portmgr_tombstone_absent_ports`, which
  nothing in the repository calls, batches of several rows, direct writes through
  the triggers, snapshot extras, name checks and the exhaustion of generations of
  the port fence.
* Components in the plan: conversations, event projection, containment registry,
  OPS requests, portal safety lease, Codex conversation launch.
* Automatic remember, computer use, the What-I-said store, screen relay and
  community cloud, the desktop shell, native helpers, the mobile app, and most of
  the routes, MCP tools, terminals and the interface: I/O, rendering,
  cryptography or platform code around the state modelled here. The remote
  control's ledger of commands and the Windows job registry are candidates.

## 9. Running

```
tlc -workers 2 -config OwnedFileLock.cfg MCOwnedFileLock.tla
tlc -workers 2 -config MemorySave.cfg MCMemorySave.tla
tlapm OwnedFileLockProofs.tla
tlapm AgentRuntimeServiceProofs.tla
```

and so on for the modules and configurations of section 4 and the modules of
section 5. The runs take from a few seconds to about three minutes, a proof
module from half a minute to a few.
