-------------------------- MODULE ContextCommand --------------------------
(***************************************************************************)
(* /compact and /clear for a Claude Code that runs in an Orca terminal     *)
(* (src/contextOrcaCommand.ts).  A host looks the terminal up, checks it,  *)
(* records the request in the journal of workroom submissions and sends    *)
(* the command.  An outcome that is not proven fences the session until a  *)
(* person acknowledges that one receipt.  Each host serves its requests    *)
(* one after another (withOrcaLock); the journal is one file, which other  *)
(* host processes of the Mac may have open as well.                        *)
(***************************************************************************)
EXTENDS Naturals, FiniteSets

CONSTANTS
    Host,      \* host processes that use the journal
    Request,   \* request IDs, all for one session
    Command,   \* {"compact", "clear"}
    MaxBoots,  \* bound: starts of a host
    None

ASSUME CommandAssumption ==
    /\ None \notin Host \cup Request \cup Command
    /\ MaxBoots \in Nat \ {0}

VARIABLES
    row,    \* the receipts: [state, by, what, acked], or None
    boot,   \* boot[h] : the boot of a host
    job,    \* job[h] : what the host does under its lock, or None
    flying, \* commands handed to Orca that may still reach the terminal
    sent,   \* history: how often a command of a request reached it
    told    \* history: the states answered for a command of a request

orca == <<flying, sent>>
vars == <<row, boot, job, orca, told>>

Tombstone == "tombstone"  \* a fingerprint no execution has
States == {"prepared", "write_started", "written", "unknown", "rejected"}
Receipt == [state : States, by : Host \X Nat, what : Command \cup {Tombstone}, acked : BOOLEAN]

Me(h) == <<h, boot[h]>>

TypeOK ==
    /\ row \in [Request -> Receipt \cup {None}]
    /\ boot \in [Host -> 1 .. MaxBoots]
    /\ job \in [Host -> {None} \cup
                  [r : Request, what : Command, phase : {"checking", "prepared", "fenced", "waiting"}]]
    /\ \A h \in Host : (job[h] # None /\ job[h].phase # "checking") => row[job[h].r] # None
    /\ flying \subseteq Request \X Command
    /\ sent \in [Request \X Command -> Nat]
    /\ told \subseteq Request \X Command \X (States \cup {"refused", "released"})

Init ==
    /\ row = [r \in Request |-> None] /\ boot = [h \in Host |-> 1]
    /\ job = [h \in Host |-> None]
    /\ flying = {} /\ sent = [c \in Request \X Command |-> 0] /\ told = {}

\* reported: outside the lock nothing prepared is in flight.
Reported(rec) ==
    CASE rec.state = "write_started" -> "unknown"
      [] rec.state = "prepared" -> "rejected"
      [] OTHER -> rec.state
Answer(r, what, state) == told' = told \cup {<<r, what, state>>}
\* A refusal the journal did not take is only true of this attempt.
AnswerRefused(j) == Answer(j.r, j.what, IF row'[j.r] = None THEN "refused" ELSE "rejected")

\* unsettledSubmissions: what fences the session for a host.
Unproven(rec) == rec # None /\ ~rec.acked /\ rec.state \in {"write_started", "unknown"}
\* Faulty: only a receipt known to be unknown fences.
FencesLess(h, rec) == rec # None /\ ~rec.acked /\ rec.state = "unknown" /\ rec.by = Me(h)

Fences(h, rec) ==
    Unproven(rec) \/ (rec # None /\ ~rec.acked /\ rec.state = "prepared" /\ rec.by = Me(h))

\* prepareSubmission, transitionSubmission.
Stored(h, r, what, state, acked) ==
    [row EXCEPT ![r] = [state |-> state, by |-> Me(h), what |-> what, acked |-> acked]]
Can(h, r, from) == row[r] # None /\ row[r].state = from /\ row[r].by = Me(h)
Moved(r, to) == [row EXCEPT ![r].state = to]

(***************************************************************************)
(* context.orca.execute                                                    *)
(***************************************************************************)

\* A request with a receipt is answered from it.
Replay(h, r, what) ==
    /\ row[r] # None
    /\ Answer(r, what, IF row[r].what # what THEN "rejected" ELSE Reported(row[r]))
    /\ UNCHANGED <<row, job>>

\* A fenced session refuses, and the refusal is a receipt.
RefuseFenced(h, r, what) ==
    /\ row[r] = None /\ \E q \in Request : Fences(h, row[q])
    /\ row' = Stored(h, r, what, "rejected", FALSE)
    /\ Answer(r, what, "rejected") /\ UNCHANGED job

Take(h, r, what) ==
    /\ row[r] = None /\ \A q \in Request : ~Fences(h, row[q])
    /\ job' = [job EXCEPT ![h] = [r |-> r, what |-> what, phase |-> "checking"]]
    /\ UNCHANGED <<row, told>>

Execute(h, r, what) ==
    /\ job[h] = None
    /\ Replay(h, r, what) \/ RefuseFenced(h, r, what) \/ Take(h, r, what)
    /\ UNCHANGED <<boot, orca>>

In(h, phase) == job[h] # None /\ job[h].phase = phase
Goto(h, phase) == job' = [job EXCEPT ![h].phase = phase]
EndJob(h) == job' = [job EXCEPT ![h] = None]

\* A check failed.  The refusal is recorded unless that fails as well.
Refuse(h) ==
    LET j == job[h] IN
    /\ In(h, "checking")
    /\ row' \in {row} \cup (IF row[j.r] = None THEN {Stored(h, j.r, j.what, "rejected", FALSE)} ELSE {})
    /\ AnswerRefused(j) /\ EndJob(h)
    /\ UNCHANGED <<boot, orca>>

\* Faulty: the request is not stored before its fence.
PrepareNothing(h) == In(h, "checking") /\ Goto(h, "prepared") /\ UNCHANGED <<row, boot, orca, told>>

\* All checks passed.  A row made meanwhile is returned if it says the same.
Prepare(h) ==
    LET j == job[h] IN
    /\ In(h, "checking") /\ (row[j.r] # None => row[j.r].what = j.what)
    /\ row' = IF row[j.r] = None THEN Stored(h, j.r, j.what, "prepared", FALSE) ELSE row
    /\ Goto(h, "prepared") /\ UNCHANGED <<boot, orca, told>>

Fence(h) ==
    LET j == job[h] IN
    /\ In(h, "prepared") /\ Can(h, j.r, "prepared")
    /\ row' = Moved(j.r, "write_started")
    /\ Goto(h, "fenced") /\ UNCHANGED <<boot, orca, told>>

\* One of the two writes fails, or it is not this host's row: not sent.
RecordFails(h) ==
    LET j == job[h] IN
    /\ In(h, "checking") \/ In(h, "prepared")
    /\ row' \in {row} \cup (IF Can(h, j.r, "prepared") THEN {Moved(j.r, "rejected")} ELSE {})
    /\ AnswerRefused(j) /\ EndJob(h)
    /\ UNCHANGED <<boot, orca>>

\* Faulty: while no answer comes the command is sent again.
SendRetrying(h) ==
    /\ In(h, "fenced") \/ In(h, "waiting")
    /\ flying' = flying \cup {<<job[h].r, job[h].what>>}
    /\ Goto(h, "waiting") /\ UNCHANGED <<row, boot, sent, told>>

\* The CLI of Orca gets the command.
Send(h) ==
    /\ In(h, "fenced") /\ flying' = flying \cup {<<job[h].r, job[h].what>>}
    /\ Goto(h, "waiting") /\ UNCHANGED <<row, boot, sent, told>>

\* It delivers the command or drops it, whether or not the host still waits.
Deliver(c) ==
    /\ c \in flying /\ flying' = flying \ {c}
    /\ sent' = [sent EXCEPT ![c] = @ + 1]
    /\ UNCHANGED <<row, boot, job, told>>
Drop(c) ==
    /\ c \in flying /\ flying' = flying \ {c}
    /\ UNCHANGED <<row, boot, job, sent, told>>

\* Orca's answer names the same terminal and process and says what it did.
Settle(h) ==
    LET j == job[h]
        to == IF sent[<<j.r, j.what>>] > 0 THEN "written" ELSE "rejected"
    IN  /\ In(h, "waiting") /\ <<j.r, j.what>> \notin flying
        /\ Can(h, j.r, "write_started")
        /\ row' = Moved(j.r, to) /\ Answer(j.r, j.what, to)
        /\ EndJob(h) /\ UNCHANGED <<boot, orca>>

\* Faulty: no answer is taken for a command that was not sent.
UnknownRefused(h) ==
    LET j == job[h] IN
    /\ In(h, "waiting") /\ Can(h, j.r, "write_started")
    /\ row' = Moved(j.r, "rejected") /\ Answer(j.r, j.what, "rejected")
    /\ EndJob(h) /\ UNCHANGED <<boot, orca>>

\* Any other answer, none, or a journal that fails: unknown.
Unknown(h) ==
    LET j == job[h] IN
    /\ In(h, "waiting")
    /\ row' \in {row} \cup (IF Can(h, j.r, "write_started") THEN {Moved(j.r, "unknown")} ELSE {})
    /\ Answer(j.r, j.what, "unknown")
    /\ EndJob(h) /\ UNCHANGED <<boot, orca>>

(***************************************************************************)
(* context.orca.receipt, context.orca.acknowledge                          *)
(***************************************************************************)

Read(h, r) ==
    /\ job[h] = None /\ row[r] # None /\ row[r].what # Tombstone
    /\ Answer(r, row[r].what, Reported(row[r]))
    /\ UNCHANGED <<row, boot, job, orca>>

\* A person releases a fence, or a request that never arrived.
Release(h, r) ==
    /\ row[r] # None
    /\ \/ row[r].state = "unknown"
       \/ row[r].state = "write_started" /\ row[r].by # Me(h)
    /\ row' = [row EXCEPT ![r].acked = TRUE] /\ UNCHANGED told

Released(r) == told' = told \cup {<<r, what, "released">> : what \in Command}
\* Faulty: nothing is kept of a request that never arrived.
BuryNothing(h, r) == row[r] = None /\ Released(r) /\ UNCHANGED row
Bury(h, r) == row[r] = None /\ Released(r) /\ row' = Stored(h, r, Tombstone, "rejected", TRUE)

Acknowledge(h, r) ==
    /\ job[h] = None /\ (Release(h, r) \/ Bury(h, r))
    /\ UNCHANGED <<boot, job, orca>>

\* A host ends at any point and opens the journal again.
Restart(h, aged) ==
    /\ boot[h] < MaxBoots
    /\ boot' = [boot EXCEPT ![h] = @ + 1]
    /\ job' = [job EXCEPT ![h] = None]
    /\ row' = [r \in Request |->
           IF row[r] = None THEN None
           ELSE IF row[r].state = "write_started" THEN [row[r] EXCEPT !.state = "unknown"]
           ELSE IF row[r].state = "prepared" /\ r \in aged THEN [row[r] EXCEPT !.state = "rejected"]
           ELSE row[r]]
    /\ UNCHANGED <<orca, told>>

Step(h) ==
    \/ \E r \in Request : Read(h, r) \/ Acknowledge(h, r) \/ \E what \in Command : Execute(h, r, what)
    \/ Refuse(h) \/ Prepare(h) \/ Fence(h) \/ RecordFails(h) \/ Send(h) \/ Settle(h) \/ Unknown(h)
    \/ \E aged \in SUBSET Request : Restart(h, aged)

Next ==
    \/ \E h \in Host : Step(h)
    \/ \E c \in Request \X Command : Deliver(c) \/ Drop(c)

Spec == Init /\ [][Next]_vars

(***************************************************************************)
(* Properties                                                              *)
(***************************************************************************)

\* However often a request is executed, retried or interrupted, one command
\* reaches the terminal for it, and once.
SentOnce ==
    \A r \in Request : \A v, w \in Command :
        (sent[<<r, v>>] > 0 /\ sent[<<r, w>>] > 0) => (v = w /\ sent[<<r, v>>] = 1)

\* An answer stays true: a command said to be rejected is never typed later,
\* one said to be written was typed.
AnswersStayTrue ==
    \A r \in Request, what \in Command :
        /\ <<r, what, "rejected">> \in told => sent[<<r, what>>] = 0 /\ <<r, what>> \notin flying
        /\ <<r, what, "written">> \in told => sent[<<r, what>>] > 0

\* contextOrcaCommand.ts:20: "that session is fenced and nothing is ever sent
\* again for it until a person acknowledges that one receipt": a host hands no
\* command to Orca while the outcome of another that it handed over, in this or
\* an earlier boot, is neither proven nor released.  (Two hosts can pass their
\* fences at the same time; the lock is that of one process.)
FenceHolds ==
    [][\A r \in Request : (\E what \in Command : <<r, what>> \in flying' \ flying)
          => \A q \in Request \ {r} :
                Unproven(row[q]) => row[q].by[1] # row[r].by[1]]_vars

\* A request that a person released before it arrived is never sent.
BuriedStaysBuried ==
    \A r \in Request, what \in Command :
        <<r, what, "released">> \in told => sent[<<r, what>>] = 0 /\ <<r, what>> \notin flying
=============================================================================
