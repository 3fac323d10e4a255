----------------------- MODULE MemorySaveDispatcher -----------------------
(***************************************************************************)
(* The queue in which memory saves wait for the one slot of the process    *)
(* (src/memorySaveDispatcher.ts).  Manual saves go before saves in the     *)
(* background, a few in a row; a wait ends with its turn, its caller, its  *)
(* timer or the shutdown.  Each method and each continuation of a promise  *)
(* runs to its end before the next: these are the steps.                   *)
(***************************************************************************)
EXTENDS Integers, Sequences, SequencesExt

CONSTANTS
    Request,     \* calls of schedule
    Manual,      \* those of the trigger 'manual'
    RootOf,      \* RootOf[r] : the memory root of a call
    MaxPending,  \* options.maxPending, 16
    MaxBurst,    \* manual jobs in a row, 3
    None

ASSUME DispatcherAssumption ==
    /\ Manual \subseteq Request
    /\ None \notin Request
    /\ DOMAIN RootOf = Request
    /\ MaxPending \in Nat \ {0}
    /\ MaxBurst \in Nat \ {0}

VARIABLES
    queue,    \* #queue
    roots,    \* #roots
    active,   \* the job of #active, or None
    aborted,  \* its controller is aborted
    stopped,  \* #stopped
    burst,    \* #manualBurst
    answer,   \* answer[r] : how the promise of r settled
    running,  \* the calls whose run was called and is not over
    called,   \* history: the calls whose run was called
    row,      \* history: manual jobs taken in a row while others waited
    returned  \* a call of shutdown has returned

vars == <<queue, roots, active, aborted, stopped, burst, answer, running, called, row, returned>>

NotStarted == {"busy", "cancelled", "stopped"}
Waiting == {queue[i] : i \in DOMAIN queue}
Accepted == Waiting \cup ({active} \ {None})

TypeOK ==
    /\ queue \in Seq(Request) /\ Len(queue) <= MaxPending
    /\ roots = {RootOf[r] : r \in Accepted}
    /\ active \in Request \cup {None}
    /\ burst \in 0 .. MaxBurst
    /\ answer \in [Request -> {"absent", "pending", "done", "failed"} \cup NotStarted]
    /\ running \subseteq Request /\ called \subseteq Request
    /\ row \in Nat
    /\ {aborted, stopped, returned} \subseteq BOOLEAN

Init ==
    /\ queue = <<>> /\ roots = {} /\ active = None /\ aborted = FALSE
    /\ stopped = FALSE /\ burst = 0
    /\ answer = [r \in Request |-> "absent"]
    /\ running = {} /\ called = {} /\ row = 0 /\ returned = FALSE

Others(q) == {i \in DOMAIN q : q[i] \notin Manual}
Manuals(q) == {i \in DOMAIN q : q[i] \in Manual}
First(I) == CHOOSE i \in I : \A k \in I : i <= k

\* Faulty: a burst of manual saves is over only past its limit.
ChoiceLate(q) ==
    IF Others(q) # {} /\ burst > MaxBurst THEN First(Others(q))
    ELSE IF Manuals(q) # {} THEN First(Manuals(q)) ELSE 1

\* The index the pump takes.
Choice(q) ==
    IF Others(q) # {} /\ burst >= MaxBurst THEN First(Others(q))
    ELSE IF Manuals(q) # {} THEN First(Manuals(q)) ELSE 1

Take(q) ==
    LET job == q[Choice(q)] IN
    /\ queue' = RemoveAt(q, Choice(q))
    /\ active' = job /\ aborted' = FALSE
    /\ burst' = IF job \in Manual THEN IF burst < MaxBurst THEN burst + 1 ELSE MaxBurst ELSE 0
    /\ row' = IF job \in Manual /\ Others(q) # {} THEN row + 1 ELSE 0

\* Faulty: a new call goes right ahead.
PumpBusy(q, free) ==
    IF ~stopped /\ q # <<>> THEN Take(q)
    ELSE /\ queue' = q
         /\ active' = IF free THEN None ELSE active
         /\ UNCHANGED <<aborted, burst, row>>

\* #pump, of the queue q, when #active is null (free) or not.
Pump(q, free) ==
    IF free /\ ~stopped /\ q # <<>> THEN Take(q)
    ELSE /\ queue' = q
         /\ active' = IF free THEN None ELSE active
         /\ UNCHANGED <<aborted, burst, row>>

\* schedule turns a call away.
Refuse(r) ==
    /\ answer[r] = "absent"
    /\ \/ stopped /\ answer' = [answer EXCEPT ![r] = "stopped"]
       \/ ~stopped /\ answer' = [answer EXCEPT ![r] = "cancelled"]  \* aborted before
       \/ /\ ~stopped /\ (RootOf[r] \in roots \/ Len(queue) >= MaxPending)
          /\ answer' = [answer EXCEPT ![r] = "busy"]
    /\ UNCHANGED <<queue, roots, active, aborted, stopped, burst, running, called, row, returned>>

\* schedule takes it.
Schedule(r) ==
    /\ answer[r] = "absent"
    /\ ~stopped /\ RootOf[r] \notin roots /\ Len(queue) < MaxPending
    /\ answer' = [answer EXCEPT ![r] = "pending"]
    /\ roots' = roots \cup {RootOf[r]}
    /\ Pump(Append(queue, r), active = None)
    /\ UNCHANGED <<stopped, running, called, returned>>

\* Faulty: the wait is given up wherever the job is by now.
EndWaitAnywhere(r) ==
    /\ answer[r] = "pending"
    /\ \E code \in {"busy", "cancelled"} : answer' = [answer EXCEPT ![r] = code]
    /\ queue' = Remove(queue, r)
    /\ roots' = roots \ {RootOf[r]}
    /\ UNCHANGED <<active, aborted, stopped, burst, running, called, row, returned>>

\* remove: the timer of a wait, or the abort of its caller.
EndWait(r) ==
    /\ \E i \in DOMAIN queue : queue[i] = r /\ queue' = RemoveAt(queue, i)
    /\ \E code \in {"busy", "cancelled"} : answer' = [answer EXCEPT ![r] = code]
    /\ roots' = roots \ {RootOf[r]}
    /\ UNCHANGED <<active, aborted, stopped, burst, running, called, row, returned>>

\* The continuation that calls run.
Run ==
    /\ active # None /\ active \notin called /\ ~aborted
    /\ running' = running \cup {active}
    /\ called' = called \cup {active}
    /\ UNCHANGED <<queue, roots, active, aborted, stopped, burst, answer, row, returned>>

\* Faulty: the next job is left to the next call of schedule.
FinishAlone(a) ==
    /\ roots' = roots \ {RootOf[active]}
    /\ answer' = [answer EXCEPT ![active] = a]
    /\ queue' = queue /\ active' = None
    /\ UNCHANGED <<aborted, stopped, burst, called, row, returned>>

\* finish, and then the answer of the job.
Finish(a) ==
    /\ roots' = roots \ {RootOf[active]}
    /\ answer' = [answer EXCEPT ![active] = a]
    /\ Pump(queue, TRUE)
    /\ UNCHANGED <<stopped, called, returned>>

\* The abort came before run was called.
Skip ==
    /\ active # None /\ active \notin called /\ aborted
    /\ Finish("stopped")
    /\ UNCHANGED running

\* run settles.
Settle ==
    /\ active \in running
    /\ running' = running \ {active}
    /\ \E a \in {"done", "failed"} : Finish(a)

\* Faulty: a queue nobody takes from any more is as good as empty.
ShutdownLeaving ==
    /\ stopped' = TRUE
    /\ aborted' = (active # None)
    /\ UNCHANGED <<queue, roots, active, burst, answer, running, called, row, returned>>

\* shutdown, up to its await.
Shutdown ==
    /\ stopped' = TRUE
    /\ answer' = [r \in Request |-> IF r \in Waiting THEN "stopped" ELSE answer[r]]
    /\ roots' = roots \ {RootOf[r] : r \in Waiting}
    /\ queue' = <<>>
    /\ aborted' = (active # None)
    /\ UNCHANGED <<active, burst, running, called, row, returned>>

\* shutdown, after it: the job that was active is through.
ShutdownReturns ==
    /\ stopped /\ active = None
    /\ returned' = TRUE
    /\ UNCHANGED <<queue, roots, active, aborted, stopped, burst, answer, running, called, row>>

Next ==
    \/ \E r \in Request : Refuse(r) \/ Schedule(r) \/ EndWait(r)
    \/ Run \/ Skip \/ Settle \/ Shutdown \/ ShutdownReturns

Spec == Init /\ [][Next]_vars

\* Continuations run, every run settles (it honours the abort of its signal), and
\* who began a shutdown waits for it.  No timer is needed.
Fairness == WF_vars(Run) /\ WF_vars(Skip) /\ WF_vars(Settle) /\ WF_vars(ShutdownReturns)

-----------------------------------------------------------------------------
(* Properties.                                                             *)

\* One save runs at a time, the one whose end hands over to the next.
OneRuns == running \subseteq {active}

\* Who is told that a save was not started can rely on it (autoRememberNotStarted
\* of MemorySaveDispatchError): its run was never called and never will be.
NotStartedIsTrue == \A r \in called : answer[r] \notin NotStarted

\* Manual saves never pass a save in the background more than MaxBurst times in a row.
BackgroundTurn == row <= MaxBurst

\* A shutdown that returned leaves no save running or waiting.
QuietAfterShutdown ==
    returned => running = {} /\ \A r \in Request : answer[r] # "pending"

\* The queue as a whole: the four above.
QueueDiscipline ==
    TypeOK /\ OneRuns /\ NotStartedIsTrue /\ BackgroundTurn /\ QuietAfterShutdown

\* Every wait is in one place: an accepted call, of a root of its own, waits in the
\* queue once or is active, and is the one that was promised an answer.
OnePlace ==
    /\ \A i, k \in DOMAIN queue : RootOf[queue[i]] = RootOf[queue[k]] => i = k
    /\ \A i \in DOMAIN queue : active # None => RootOf[queue[i]] # RootOf[active]
    /\ \A r \in Request : answer[r] = "pending" <=> r \in Accepted

\* What a run needs and what it leaves behind.
RunsInTurn ==
    /\ running \subseteq called
    /\ called \cap Waiting = {}
    /\ \A r \in called : answer[r] # "absent"
    /\ active = None => stopped \/ queue = <<>>
    /\ stopped => queue = <<>>
    /\ returned => stopped /\ active = None
    /\ row <= burst

\* The inductive invariant of HostProofs.
QueueInv == QueueDiscipline /\ OnePlace /\ RunsInTurn

\* An accepted save is answered even if its wait never times out, and a shutdown returns.
EveryCallAnswered ==
    /\ \A r \in Request : answer[r] = "pending" ~> answer[r] # "pending"
    /\ stopped ~> returned

=============================================================================
