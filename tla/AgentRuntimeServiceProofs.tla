---------------------- MODULE AgentRuntimeServiceProofs ----------------------
(***************************************************************************)
(* Proofs about AgentRuntimeService, for every set of requests and         *)
(* projects, however their directories lie in one another, and every       *)
(* limit.                                                                  *)
(***************************************************************************)
EXTENDS AgentRuntimeService, SequenceTheorems, FiniteSetTheorems, TLAPS

Status == {"none", "accepted", "running", "retired"} \cup Terminal

At(r) == queue # <<>> /\ r = Head(queue)

-----------------------------------------------------------------------------
(* The invariant.                                                          *)

\* A process that is gone remembers nothing and holds no lease.
Gone ==
  ~up =>
    /\ queue = <<>> /\ shutdown = "no" /\ recovering = {}
    /\ \A r \in Request : exec[r] = "none" /\ late[r] = "none" /\ lease[r] # "held"

\* The retention order lists terminal rows, each once.
Listed(rows, ended) ==
  /\ rows \in [Request -> Status]
  /\ ended \in Seq(Request)
  /\ \A i, j \in DOMAIN ended : ended[i] = ended[j] => i = j
  /\ \A i \in DOMAIN ended : rows[ended[i]] \in Terminal

Rows == Listed(row, finished) /\ \A r \in ran : row[r] # "none"

\* Once the starts ahead of shutdown are over no start gets past its checks.
Starts ==
  /\ queue = <<>> => phase = "queued"
  /\ ahead <= Len(queue)
  /\ ShuttingDown /\ ahead = 0 => phase \in {"queued", "recovering"}
  /\ shutdown \notin {"no", "starts"} => ahead = 0

\* What the start at the head has made sure of and still may rely on.
HeadOfQueue(r) ==
  At(r) /\ phase \notin {"queued", "recovering"} =>
    /\ \A s \in Request : late[s] = "none"
    /\ exec[r] = "none"
    /\ phase # "releasing" => row[r] = "none"
    /\ phase \in {"acquiring", "preparing"} => \A s \in Active : ~Overlaps(s, r)
    /\ phase = "preparing" => lease[r] = "held"

Disjoint == \A r, s \in Active : r # s => ~Overlaps(r, s)

NotYetEnded(r) == pending[r] = None /\ release[r] = "none" /\ r \notin uncertain

\* The row of a task says how far it is, and until its outcome is in the row its
\* lease is not being released.
Task(r) ==
  /\ exec[r] = "none" => NotYetEnded(r) /\ r \notin cancelled
  /\ exec[r] = "starting" => NotYetEnded(r) /\ row[r] = "accepted" /\ r \notin ran
  /\ exec[r] = "running" => NotYetEnded(r) /\ row[r] = "running"
  /\ exec[r] = "settled" =>
       /\ IF pending[r] # None
          THEN release[r] = "none" /\ row[r] \in {"accepted", "running"}
          ELSE row[r] \in Terminal \cup {"retired", "none"}
       /\ r \in uncertain => release[r] = "none"
  /\ exec[r] # "none" /\ release[r] = "none" => lease[r] = "held"
  /\ up /\ row[r] = "running" => exec[r] # "none"
  /\ late[r] # "none" => exec[r] = "none"

\* Who writes is a task that runs or may still run; who holds a lease is known to
\* the service.
Leases(r) ==
  /\ r \in writing => lease[r] # "none"
  /\ r \in writing /\ up => exec[r] = "running" \/ r \in uncertain
  /\ lease[r] = "held" =>
       \/ r \in Active \cup detached
       \/ At(r) /\ phase \in {"preparing", "releasing"}

\* A recovery pass goes through settled tasks; a cancel has its intent recorded, and
\* the intent lasts.
Passes ==
  /\ \A k \in Caller : awaiting[k] \subseteq Settled
  /\ \A r \in Request :
       <<"cancel", r>> \in recovering => r \in intent /\ <<"cancel", r>> \notin expired

\* What has expired binds nobody any more: the tombstone of a request that may run
\* again, and an intent no promise rests on.
Guards(r) ==
  /\ <<"start", r>> \in expired => row[r] = "retired" /\ r \notin ran /\ r \notin promised
  /\ <<"cancel", r>> \in expired => r \notin promised

\* A cancel that was promised is on its way wherever the task is.
Promises(r) ==
  r \in promised =>
    /\ r \in intent
    /\ row[r] \in {"accepted", "running", "cancelled", "retired"}
    /\ exec[r] \in {"starting", "running"} => r \in cancelled
    /\ pending[r] \in {None, "cancelled"}
    /\ row[r] = "accepted" /\ up => exec[r] # "none"

Over ==
  shutdown = "fulfilled" =>
    detached = {} /\ \A r \in Request : late[r] = "none" /\ exec[r] = "none"

Globally == Gone /\ Rows /\ Starts /\ Disjoint /\ Passes /\ Over
Locally(r) == HeadOfQueue(r) /\ Task(r) /\ Leases(r) /\ Promises(r) /\ Guards(r)

ServiceInv == TypeOK /\ Globally /\ \A r \in Request : Locally(r)

-----------------------------------------------------------------------------
(* Lemmas about the operators.                                             *)

\* Two projects overlap whichever is named first, and each overlaps itself.
LEMMA OverlapsBothWays ==
  /\ \A r, s \in Request : Overlaps(r, s) => Overlaps(s, r)
  /\ \A r \in Request : Overlaps(r, r)
BY ServiceAssumption DEF Overlaps

\* A lease that is free to be taken is not held for the request itself.
LEMMA OwnLeaseIsFree ==
  ASSUME NEW r \in Request, LeaseFree(r)
  PROVE  lease[r] = "none"
BY ServiceAssumption DEF LeaseFree

\* What retention may do: terminal rows become tombstones, expired guards go.
Ages(rows) ==
  /\ \A r \in Request :
       \/ row'[r] = rows[r] \/ (rows[r] \in Terminal /\ row'[r] = "retired")
       \/ <<"start", r>> \in expired /\ rows[r] = "retired" /\ row'[r] = "none"
  /\ intent' \subseteq intent /\ expired' \subseteq expired
  /\ \A r \in intent : <<"cancel", r>> \notin expired => r \in intent'
  /\ \A r \in Request : <<"start", r>> \in expired' => row'[r] = rows[r]

\* Retention keeps the order sound, turns terminal rows into tombstones and deletes
\* no guard before its time.
LEMMA PruneKeeps ==
  ASSUME NEW rows, NEW ended, Listed(rows, ended), Prune(rows, ended),
         \A r \in Request : <<"start", r>> \in expired => rows[r] = "retired"
  PROVE  Listed(row', finished') /\ Ages(rows)
<1> DEFINE excess == IF Len(ended) > Keep THEN Len(ended) - Keep ELSE 0
           retired == {ended[i] : i \in 1..excess}
<1>1. /\ row' = [r \in Request |-> IF r \in retired THEN "retired"
                                   ELSE IF <<"start", r>> \in expired THEN "none" ELSE rows[r]]
      /\ finished' = SubSeq(ended, excess + 1, Len(ended))
      /\ intent' = {r \in intent : <<"cancel", r>> \notin expired} /\ expired' = {}
  BY DEF Prune
<1>2. /\ Len(ended) \in Nat /\ DOMAIN ended = 1..Len(ended)
      /\ \A i \in 1..Len(ended) : ended[i] \in Request
  BY DEF Listed
<1>3. excess \in 0..Len(ended)
  BY <1>2, ServiceAssumption
<1> HIDE DEF excess
<1>4. /\ finished' \in Seq(Request)
      /\ Len(finished') = Len(ended) - excess
      /\ \A i \in 1..Len(finished') : finished'[i] = ended[excess + i]
  <2>1. \A i \in excess + 1..Len(ended) : ended[i] \in Request
    BY <1>2, <1>3
  <2>2. /\ finished' \in Seq(Request)
        /\ Len(finished') = IF excess + 1 <= Len(ended) THEN Len(ended) - (excess + 1) + 1 ELSE 0
        /\ \A i \in 1..Len(ended) - (excess + 1) + 1 : finished'[i] = ended[(excess + 1) + i - 1]
    BY <1>1, <1>2, <1>3, <2>1, SubSeqProperties
  <2>3. Len(finished') = Len(ended) - excess
    <3>1. excess \in Int /\ Len(ended) \in Int /\ excess <= Len(ended)
      BY <1>2, <1>3
    <3>2. CASE excess + 1 <= Len(ended)
      BY <2>2, <3>1, <3>2
    <3>3. CASE ~(excess + 1 <= Len(ended))
      BY <2>2, <3>1, <3>3
    <3> QED
      BY <3>2, <3>3
  <2>4. ASSUME NEW i \in 1..Len(finished')
        PROVE  finished'[i] = ended[excess + i]
    <3>1. i \in 1..Len(ended) - (excess + 1) + 1
      BY <1>2, <1>3, <2>3
    <3>2. (excess + 1) + i - 1 = excess + i
      BY <1>3
    <3> QED
      BY <2>2, <3>1, <3>2
  <2> QED
    BY <2>2, <2>3, <2>4
<1>5. DOMAIN finished' = 1..Len(finished')
  BY <1>4
<1>6. \A i \in DOMAIN finished' : finished'[i] \notin retired
  <2> SUFFICES ASSUME NEW i \in DOMAIN finished', NEW j \in 1..excess,
                      finished'[i] = ended[j]
               PROVE  FALSE
    OBVIOUS
  <2>1. /\ i \in Nat \ {0} /\ excess \in Nat /\ excess + i \in DOMAIN ended
        /\ j \in DOMAIN ended /\ ended[excess + i] = ended[j]
    BY <1>2, <1>3, <1>4, <1>5
  <2>2. excess + i = j
    BY <2>1 DEF Listed
  <2> QED
    BY <2>1, <2>2
<1>7. Ages(rows)
  BY <1>1, <1>2, <1>3 DEF Ages, Listed
<1>8. row' \in [Request -> Status]
  BY <1>1 DEF Listed, Status
<1>9. \A i, j \in DOMAIN finished' : finished'[i] = finished'[j] => i = j
  <2> SUFFICES ASSUME NEW i \in DOMAIN finished', NEW j \in DOMAIN finished',
                      finished'[i] = finished'[j]
               PROVE  i = j
    OBVIOUS
  <2>1. /\ i \in Nat /\ j \in Nat /\ excess \in Nat
        /\ excess + i \in DOMAIN ended /\ excess + j \in DOMAIN ended
    BY <1>2, <1>3, <1>4, <1>5
  <2>2. ended[excess + i] = ended[excess + j]
    BY <1>4, <1>5
  <2>3. excess + i = excess + j
    BY <2>1, <2>2 DEF Listed
  <2> QED
    BY <2>1, <2>3
<1>10. \A i \in DOMAIN finished' : row'[finished'[i]] \in Terminal
  <2> SUFFICES ASSUME NEW i \in DOMAIN finished'
               PROVE  row'[finished'[i]] \in Terminal
    OBVIOUS
  <2>1. excess + i \in DOMAIN ended /\ finished'[i] = ended[excess + i]
    BY <1>2, <1>3, <1>4, <1>5
  <2>2. finished'[i] \in Request /\ rows[finished'[i]] \in Terminal
    BY <1>2, <2>1 DEF Listed
  <2>3. <<"start", finished'[i]>> \notin expired
    BY <2>2 DEF Terminal
  <2> QED
    BY <1>1, <1>6, <2>2, <2>3
<1> QED
  BY <1>4, <1>7, <1>8, <1>9, <1>10 DEF Listed

\* So does retention that may fail.
LEMMA PruneOrFailKeeps ==
  ASSUME NEW ok \in BOOLEAN, Listed(row, finished), PruneOrFail(ok),
         \A r \in Request : Guards(r)
  PROVE  Listed(row', finished') /\ Ages(row)
<1>1. CASE ok
  BY <1>1, PruneKeeps DEF PruneOrFail, Guards
<1>2. CASE ~ok
  BY <1>2 DEF PruneOrFail, Ages, journal, guards
<1> QED BY <1>1, <1>2

\* So does a start that deletes the expired tombstone of its request.
LEMMA ForgetExpiredKeeps ==
  ASSUME NEW r \in Request, Listed(row, finished), ForgetExpired(r), Guards(r)
  PROVE  Listed(row', finished') /\ Ages(row)
<1>1. /\ row[r] = "retired" /\ row' = [row EXCEPT ![r] = "none"]
      /\ <<"start", r>> \in expired /\ expired' = expired \ {<<"start", r>>}
      /\ finished' = finished /\ intent' = intent
  BY DEF ForgetExpired, Guards
<1>2. Ages(row)
  BY <1>1 DEF Ages, Listed
<1>3. \A i \in DOMAIN finished : finished[i] \in Request /\ finished[i] # r
  BY <1>1 DEF Listed, Terminal
<1>4. Listed(row', finished')
  BY <1>1, <1>3 DEF Listed, Status
<1> QED
  BY <1>2, <1>4

\* A row that is not terminal is recorded.
LEMMA RecordKeeps ==
  ASSUME NEW r \in Request, NEW status \in {"accepted", "running"} \cup Terminal,
         Listed(row, finished), row[r] \notin Terminal, Record(r, status)
  PROVE  Listed(row', finished') /\ row' = [row EXCEPT ![r] = status]
<1>1. row' = [row EXCEPT ![r] = status] /\ row' \in [Request -> Status]
  BY DEF Record, Listed, Status
<1>2. CASE status \in Terminal
  <2>1. finished' = Append(finished, r)
    BY <1>2 DEF Record
  <2>2. /\ finished' \in Seq(Request) /\ Len(finished') = Len(finished) + 1
        /\ \A i \in 1..Len(finished) : finished'[i] = finished[i]
        /\ finished'[Len(finished) + 1] = r
    BY <2>1, AppendProperties DEF Listed
  <2>3. /\ DOMAIN finished = 1..Len(finished) /\ Len(finished) \in Nat
        /\ DOMAIN finished' = 1..Len(finished')
        /\ \A i \in DOMAIN finished : finished[i] \in Request /\ finished[i] # r
    BY <2>2 DEF Listed
  <2> QED
    BY <1>1, <1>2, <2>2, <2>3 DEF Listed
<1>3. CASE status \notin Terminal
  <2>1. finished' = finished
    BY <1>3 DEF Record
  <2>2. \A i \in DOMAIN finished : finished[i] \in Request /\ finished[i] # r
    BY DEF Listed
  <2> QED
    BY <1>1, <2>1, <2>2 DEF Listed
<1> QED BY <1>2, <1>3

\* What the end of a start leaves of the queue.
LEMMA LeaveKeeps ==
  ASSUME TypeOK, Starts, queue # <<>>, Leave
  PROVE  /\ queue' \in Seq(Request) /\ Len(queue') <= MaxPending
         /\ phase' = "queued" /\ ahead' \in 0..MaxPending /\ ahead' <= Len(queue')
         /\ ahead = 0 => ahead' = 0
<1>1. /\ queue \in Seq(Request) /\ Len(queue) \in Nat /\ Len(queue) <= MaxPending
      /\ MaxPending \in Nat /\ ahead \in 0..MaxPending /\ ahead <= Len(queue)
  BY ServiceAssumption DEF TypeOK, Starts
<1>2. Tail(queue) \in Seq(Request) /\ Len(Tail(queue)) = Len(queue) - 1 /\ Len(queue) > 0
  BY <1>1, HeadTailProperties
<1> QED BY <1>1, <1>2 DEF Leave

\* A runner's outcome goes into its row or stays with its task.
LEMMA SettleRows ==
  ASSUME TypeOK, Rows, NEW r \in Request, NEW outcome \in Terminal,
         NEW unsure \in BOOLEAN, NEW ok \in BOOLEAN,
         row[r] \notin Terminal, Settle(r, outcome, unsure, ok)
  PROVE  /\ Listed(row', finished')
         /\ row' = IF ok THEN [row EXCEPT ![r] = outcome] ELSE row
         /\ pending' = IF ok THEN pending ELSE [pending EXCEPT ![r] = outcome]
         /\ pending' \in [Request -> Terminal \cup {None}]
         /\ exec' \in [Request -> {"none", "starting", "running", "settled"}]
         /\ release' \in [Request -> {"none", "pending", "failed"}]
         /\ uncertain' \subseteq Request /\ degraded' \in BOOLEAN
<1>1. CASE ok
  <2>1. Listed(row', finished') /\ row' = [row EXCEPT ![r] = outcome]
    BY <1>1, RecordKeeps DEF Rows, Settle
  <2> QED
    BY <1>1, <2>1 DEF TypeOK, Settle
<1>2. CASE ~ok
  BY <1>2 DEF TypeOK, Settle, Rows
<1> QED BY <1>1, <1>2

-----------------------------------------------------------------------------
(* startTask.                                                              *)

LEMMA SubmitKeeps ==
  ASSUME ServiceInv, NEW r \in Request, Submit(r)
  PROVE  ServiceInv'
<1> USE DEF ServiceInv, Globally, Locally, guards
<1>1. /\ queue' \in Seq(Request) /\ Len(queue') = Len(queue) + 1 /\ queue' # <<>>
      /\ Len(queue) \in Nat /\ Len(queue') <= MaxPending
      /\ \A s \in Request : At(s)' => queue = <<>> \/ At(s)
  BY ServiceAssumption, AppendProperties, HeadTailAppend DEF TypeOK, Submit, At
<1>2. TypeOK'
  BY <1>1 DEF TypeOK, Submit, Terminal, journal, starts, tasks, stopping, history
<1>3. Starts'
  BY <1>1 DEF TypeOK, Starts, Submit, ShuttingDown, starts, stopping
<1>4. Gone' /\ Rows' /\ Disjoint' /\ Passes' /\ Over'
  BY DEF Gone, Rows, Disjoint, Passes, Over, Submit, Active, Settled, Listed,
         journal, starts, tasks, stopping, history
<1>5. ASSUME NEW s \in Request PROVE Locally(s)'
  BY <1>1 DEF Submit, Starts, HeadOfQueue, Task, Leases, Promises, Guards, At, NotYetEnded, Active,
         journal, starts, tasks, stopping, history
<1> QED
  BY <1>2, <1>3, <1>4, <1>5

LEMMA BeginStartKeeps ==
  ASSUME ServiceInv, NEW r \in Request, BeginStart(r)
  PROVE  ServiceInv'
<1> USE DEF ServiceInv, Globally, Locally, guards
<1>1. TypeOK'
  BY ServiceAssumption
     DEF TypeOK, Caller, BeginStart, StartIn, BeginPass, Terminal, journal, starts,
        tasks, stopping, history, Settled, Active
<1>2. Globally'
  BY DEF Gone, Rows, Starts, Disjoint, Passes, Over, BeginStart, StartIn, BeginPass,
         Active, Settled, journal, tasks, stopping, history
<1>3. ASSUME NEW s \in Request PROVE Locally(s)'
  BY DEF HeadOfQueue, Task, Leases, Promises, Guards, BeginStart, StartIn, Active,
         NotYetEnded, journal, tasks, history
<1> QED
  BY <1>1, <1>2, <1>3

LEMMA CheckStartKeeps ==
  ASSUME ServiceInv, NEW r \in Request, NEW ok \in BOOLEAN, CheckStart(r, ok)
  PROVE  ServiceInv'
<1> USE DEF ServiceInv, Globally, Locally, guards
<1>1. Listed(row', finished') /\ Ages(row)
  BY PruneOrFailKeeps, ForgetExpiredKeeps DEF Rows, CheckStart
<1>2. queue # <<>> /\ TypeOK /\ Starts
  BY DEF CheckStart, StartIn
<1>3. TypeOK'
  BY <1>1, LeaveKeeps
     DEF TypeOK, Ages, Listed, Status, CheckStart, StartIn, PassOver, tasks, stopping,
         history
<1>4. Globally'
  <2>1. Gone' /\ Starts' /\ Disjoint' /\ Over'
    BY DEF TypeOK, Gone, Starts, Disjoint, Over, CheckStart, StartIn, PassOver, Leave,
           Active, ShuttingDown, tasks, stopping
  <2>2. Rows'
    BY <1>1 DEF Ages, Rows, Guards, TypeOK, CheckStart, history
  <2>3. Passes'
    BY <1>1 DEF Ages, Passes, Settled, CheckStart, PassOver, tasks
  <2> QED
    BY <2>1, <2>2, <2>3
<1>5. ASSUME NEW s \in Request PROVE HeadOfQueue(s)'
  <2>1. CASE phase' = "queued"
    BY <2>1 DEF HeadOfQueue
  <2>2. CASE phase' # "queued"
    <3>1. /\ ~Answered(r) /\ ~degraded' /\ phase' = "resolving"
          /\ queue' = queue /\ r = Head(queue)
          /\ exec' = exec /\ late' = late
      BY <2>2 DEF CheckStart, StartIn, Leave, tasks
    <3>2. /\ \A q \in Request : late[q] = "none"
          /\ r \notin Settled /\ ok
      BY <3>1 DEF CheckStart, PassOver
    <3>3. row'[r] = "none"
      <4>1. Prune(row, finished) /\ Listed(row, finished)
        BY <3>2 DEF CheckStart, PruneOrFail, Rows
      <4>2. CASE row[r] = "none"
        BY <1>1, <4>2 DEF Ages, Terminal
      <4>3. CASE <<"start", r>> \in expired
        <5>1. row[r] = "retired" /\ expired' = {}
          BY <4>1, <4>3 DEF Prune, Guards
        <5>2. \A i \in DOMAIN finished : finished[i] # r
          BY <4>1, <5>1 DEF Listed, Terminal
        <5> DEFINE excess == IF Len(finished) > Keep THEN Len(finished) - Keep ELSE 0
        <5>3. excess \in 0..Len(finished) /\ DOMAIN finished = 1..Len(finished)
          BY <4>1, ServiceAssumption DEF Listed
        <5>4. r \notin {finished[i] : i \in 1..excess}
          BY <5>2, <5>3
        <5> QED
          BY <4>1, <4>3, <5>4 DEF Prune
      <4> QED
        BY <3>1, <4>2, <4>3 DEF Answered
    <3>4. exec[r] = "none"
      BY <3>1, <3>2 DEF Answered, Task, Guards, Settled, TypeOK
    <3> QED
      BY <3>1, <3>2, <3>3, <3>4 DEF HeadOfQueue, At
  <2> QED
    BY <2>1, <2>2
<1>6. ASSUME NEW s \in Request PROVE Task(s)'
  BY <1>1 DEF Ages, Task, CheckStart, NotYetEnded, Terminal, tasks, history
<1>7. ASSUME NEW s \in Request PROVE Leases(s)'
  BY DEF Leases, CheckStart, StartIn, Active, tasks
<1>8. ASSUME NEW s \in Request PROVE Promises(s)' /\ Guards(s)'
  BY <1>1 DEF Ages, Promises, Guards, CheckStart, PassOver, tasks, history
<1> QED
  BY <1>3, <1>4, <1>5, <1>6, <1>7, <1>8

LEMMA ResolveTargetKeeps ==
  ASSUME ServiceInv, NEW r \in Request, ResolveTarget(r)
  PROVE  ServiceInv'
<1> USE DEF ServiceInv, Globally, Locally, guards
<1>1. queue # <<>> /\ TypeOK /\ Starts
  BY DEF ResolveTarget, StartIn
<1>2. TypeOK'
  BY <1>1, LeaveKeeps, ServiceAssumption
     DEF TypeOK, Caller, ResolveTarget, StartIn, StartStep, Terminal, journal,
        starts, tasks, stopping, history, Settled, Active
<1>3. Globally'
  BY DEF TypeOK, Gone, Rows, Starts, Disjoint, Passes, Over, ResolveTarget, StartIn,
         StartStep, Leave, Active, Settled, ShuttingDown, tasks, stopping, history
<1>4. ASSUME NEW s \in Request PROVE Locally(s)'
  BY DEF HeadOfQueue, Task, Leases, Promises, Guards, ResolveTarget, StartIn, StartStep,
         Leave, Active, NotYetEnded, At, tasks, history
<1> QED
  BY <1>2, <1>3, <1>4

LEMMA AcquireLeaseKeeps ==
  ASSUME ServiceInv, NEW r \in Request, AcquireLease(r)
  PROVE  ServiceInv'
<1> USE DEF ServiceInv, Globally, Locally, guards
<1>1. TypeOK'
  BY ServiceAssumption
     DEF TypeOK, Caller, AcquireLease, StartIn, StartStep, Terminal, journal,
        starts, tasks, stopping, history, Settled, Active
<1>2. Globally'
  BY DEF Gone, Rows, Starts, Disjoint, Passes, Over, AcquireLease, StartIn,
         StartStep, Active, Settled, ShuttingDown, tasks, stopping, history
<1>3. ASSUME NEW s \in Request PROVE Locally(s)'
  BY DEF TypeOK, HeadOfQueue, Task, Leases, Promises, Guards, AcquireLease, StartIn,
         StartStep, Active, NotYetEnded, At, tasks, history
<1> QED
  BY <1>1, <1>2, <1>3

LEMMA AcquireFailsKeeps ==
  ASSUME ServiceInv, NEW r \in Request, AcquireFails(r)
  PROVE  ServiceInv'
<1> USE DEF ServiceInv, Globally, Locally, guards
<1>1. queue # <<>> /\ TypeOK /\ Starts
  BY DEF AcquireFails, StartIn
<1>2. TypeOK'
  BY <1>1, LeaveKeeps, ServiceAssumption
     DEF TypeOK, Caller, AcquireFails, StartIn, StartStep, Terminal, journal,
        starts, tasks, stopping, history, Settled, Active
<1>3. Globally'
  BY DEF TypeOK, Gone, Rows, Starts, Disjoint, Passes, Over, AcquireFails,
         StartStep, Leave, Active, Settled, tasks, stopping, history
<1>4. ASSUME NEW s \in Request PROVE Locally(s)'
  BY DEF HeadOfQueue, Task, Leases, Promises, Guards, AcquireFails, StartIn, StartStep,
         Leave, Active, NotYetEnded, tasks, history
<1> QED
  BY <1>2, <1>3, <1>4

LEMMA AcquireTimesOutKeeps ==
  ASSUME ServiceInv, NEW r \in Request, AcquireTimesOut(r)
  PROVE  ServiceInv'
<1> USE DEF ServiceInv, Globally, Locally, guards
<1>1. queue # <<>> /\ TypeOK /\ Starts
  BY DEF AcquireTimesOut, StartIn
<1>2. TypeOK'
  BY <1>1, LeaveKeeps, ServiceAssumption
     DEF TypeOK, Caller, AcquireTimesOut, StartIn, StartStep, Terminal, journal,
        starts, tasks, stopping, history, Settled, Active
<1>3. Globally'
  BY DEF TypeOK, Gone, Rows, Starts, Disjoint, Passes, Over, AcquireTimesOut,
         StartIn, StartStep, Leave, Active, Settled, ShuttingDown, tasks, stopping,
         history
<1>4. ASSUME NEW s \in Request PROVE Locally(s)'
  BY DEF HeadOfQueue, Task, Leases, Promises, Guards, AcquireTimesOut, StartIn, StartStep,
         Leave, Active, NotYetEnded, At, tasks, history
<1> QED
  BY <1>2, <1>3, <1>4

LEMMA CreateTaskKeeps ==
  ASSUME ServiceInv, NEW r \in Request, CreateTask(r)
  PROVE  ServiceInv'
<1> USE DEF ServiceInv, Globally, Locally, guards
<1>1. Listed(row', finished') /\ row' = [row EXCEPT ![r] = "accepted"]
  BY RecordKeeps DEF Rows, HeadOfQueue, CreateTask, StartIn, At, Terminal
<1>2. queue # <<>> /\ TypeOK /\ Starts
  BY DEF CreateTask, StartIn
<1>3. TypeOK'
  BY <1>1, LeaveKeeps
     DEF TypeOK, Listed, CreateTask, StartIn, StartStep, stopping, history
<1>4. Globally'
  BY <1>1, OverlapsBothWays
     DEF TypeOK, Gone, Rows, Starts, Disjoint, Passes, Over, HeadOfQueue,
         CreateTask, StartIn, StartStep, Leave, Active, Settled, ShuttingDown, At,
         stopping, history
<1>5. ASSUME NEW s \in Request PROVE Locally(s)'
  BY <1>1
     DEF TypeOK, Rows, HeadOfQueue, Task, Leases, Promises, Guards, CreateTask, StartIn,
         StartStep, Leave, Active, NotYetEnded, At, history
<1> QED
  BY <1>3, <1>4, <1>5

LEMMA CreateFailsKeeps ==
  ASSUME ServiceInv, NEW r \in Request, CreateFails(r)
  PROVE  ServiceInv'
<1> USE DEF ServiceInv, Globally, Locally, guards
<1>1. Listed(row', finished') /\ (row' = row \/ (~ShuttingDown /\ row' = [row EXCEPT ![r] = "accepted"]))
  BY RecordKeeps DEF Rows, HeadOfQueue, CreateFails, StartIn, At, Terminal
<1>2. TypeOK'
  BY <1>1
     DEF TypeOK, Listed, Status, CreateFails, StartStep, tasks, stopping, history
<1>3. Globally'
  BY <1>1
     DEF TypeOK, Gone, Rows, Starts, Disjoint, Passes, Over, CreateFails, StartIn,
         StartStep, Active, Settled, ShuttingDown, tasks, stopping, history
<1>4. ASSUME NEW s \in Request PROVE Locally(s)'
  BY <1>1
     DEF TypeOK, HeadOfQueue, Task, Leases, Promises, Guards, CreateFails, StartIn,
         StartStep, Active, NotYetEnded, At, tasks, history
<1> QED
  BY <1>2, <1>3, <1>4

LEMMA PreStartReleasedKeeps ==
  ASSUME ServiceInv, NEW r \in Request, NEW ok \in BOOLEAN, PreStartReleased(r, ok)
  PROVE  ServiceInv'
<1> USE DEF ServiceInv, Globally, Locally, guards
<1>1. queue # <<>> /\ TypeOK /\ Starts
  BY DEF PreStartReleased, StartIn
<1>2. TypeOK'
  <2>1. /\ lease' \in [Request -> {"none", "held", "orphan"}]
        /\ detached' \subseteq Request /\ degraded' \in BOOLEAN
    BY DEF TypeOK, PreStartReleased
  <2>2. /\ queue' \in Seq(Request) /\ Len(queue') <= MaxPending
        /\ phase' = "queued" /\ ahead' \in 0..MaxPending
    BY <1>1, LeaveKeeps DEF PreStartReleased
  <2> QED
    BY <2>1, <2>2
       DEF TypeOK, PreStartReleased, StartStep, tasks, stopping, history
<1>3. Globally'
  BY DEF TypeOK, Gone, Rows, Starts, Disjoint, Passes, Over, PreStartReleased,
         StartIn, StartStep, Leave, Active, Settled, ShuttingDown, tasks, stopping,
         history
<1>4. ASSUME NEW s \in Request PROVE Locally(s)'
  BY DEF TypeOK, HeadOfQueue, Task, Leases, Promises, Guards, PreStartReleased, StartIn,
         StartStep, Leave, Active, NotYetEnded, At, tasks, history
<1> QED
  BY <1>2, <1>3, <1>4

-----------------------------------------------------------------------------
(* trackLateLeaseAcquisition.                                              *)

LEMMA LateAcquiredKeeps ==
  ASSUME ServiceInv, NEW r \in Request, LateAcquired(r)
  PROVE  ServiceInv'
<1> USE DEF ServiceInv, Globally, Locally, guards
<1>1. TypeOK'
  BY ServiceAssumption
     DEF TypeOK, Caller, LateAcquired, LateFrame, Terminal, journal, starts, tasks,
        stopping, history, Settled, Active
<1>2. Globally'
  BY DEF Gone, Rows, Starts, Disjoint, Passes, Over, LateAcquired, LateFrame,
         Active, Settled, ShuttingDown, journal, starts, tasks, stopping, history
<1>3. ASSUME NEW s \in Request PROVE Locally(s)'
  BY DEF HeadOfQueue, Task, Leases, Promises, Guards, LateAcquired, LateFrame, Active,
         NotYetEnded, At, journal, starts, tasks, history
<1> QED
  BY <1>1, <1>2, <1>3

LEMMA LateRefusedKeeps ==
  ASSUME ServiceInv, NEW r \in Request, LateRefused(r)
  PROVE  ServiceInv'
<1> USE DEF ServiceInv, Globally, Locally, guards
<1>1. TypeOK'
  BY ServiceAssumption
     DEF TypeOK, Caller, LateRefused, LateFrame, BeginPass, Terminal, journal,
        starts, tasks, stopping, history, Settled, Active
<1>2. Globally'
  BY DEF Gone, Rows, Starts, Disjoint, Passes, Over, LateRefused, LateFrame,
         BeginPass, Active, Settled, ShuttingDown, journal, starts, tasks, stopping,
         history
<1>3. ASSUME NEW s \in Request PROVE Locally(s)'
  BY DEF HeadOfQueue, Task, Leases, Promises, Guards, LateRefused, LateFrame, Active,
         NotYetEnded, At, journal, starts, tasks, history
<1> QED
  BY <1>1, <1>2, <1>3

LEMMA LateReleasedKeeps ==
  ASSUME ServiceInv, NEW r \in Request, NEW ok \in BOOLEAN, LateReleased(r, ok)
  PROVE  ServiceInv'
<1> USE DEF ServiceInv, Globally, Locally, guards
<1>1. TypeOK'
  BY ServiceAssumption
     DEF TypeOK, Caller, LateReleased, LateFrame, BeginPass, Terminal, journal,
        starts, tasks, stopping, history, Settled, Active
<1>2. Globally'
  BY ServiceAssumption, OverlapsBothWays
     DEF TypeOK, Listed, Ages, Caller, Gone, Rows, Starts, Disjoint, Passes, Over,
        HeadOfQueue, Task, Leases, Promises, Guards, LateReleased, LateFrame, BeginPass,
        Active, Settled, ShuttingDown, NotYetEnded, At, Terminal, Status, journal,
        starts, tasks, stopping, history
<1>3. ASSUME NEW s \in Request PROVE Locally(s)'
  BY ServiceAssumption, OwnLeaseIsFree, OverlapsBothWays
     DEF TypeOK, Listed, Ages, Caller, Gone, Rows, Starts, Disjoint, Passes, Over,
        HeadOfQueue, Task, Leases, Promises, Guards, LateReleased, LateFrame, BeginPass,
        Active, Settled, ShuttingDown, NotYetEnded, At, Terminal, Status, journal,
        starts, tasks, stopping, history
<1> QED
  BY <1>1, <1>2, <1>3

LEMMA LateEndsKeeps ==
  ASSUME ServiceInv, NEW ok \in BOOLEAN, LateEnds(ok)
  PROVE  ServiceInv'
<1> USE DEF ServiceInv, Globally, Locally, guards
<1>1. Listed(row', finished') /\ Ages(row)
  BY PruneOrFailKeeps DEF Rows, LateEnds, EndPass, PassOver
<1>2. TypeOK'
  BY <1>1, ServiceAssumption
     DEF TypeOK, Ages, Caller, Listed, Status, LateEnds, EndPass, PassOver, Terminal, journal,
        starts, tasks, stopping, history, Settled, Active
<1>3. Globally'
  <2>1. Gone' /\ Starts' /\ Disjoint' /\ Over'
    BY DEF Gone, Starts, Disjoint, Over, LateEnds, EndPass, PassOver, Active, ShuttingDown,
           starts, tasks, stopping
  <2>2. Rows'
    BY <1>1 DEF Ages, Rows, Guards, TypeOK, LateEnds, history
  <2>3. Passes'
    BY <1>1 DEF Ages, Passes, Settled, LateEnds, EndPass, PassOver, tasks
  <2> QED
    BY <2>1, <2>2, <2>3
<1>4. ASSUME NEW s \in Request PROVE Locally(s)'
  BY <1>1
     DEF Ages, HeadOfQueue, Task, Leases, Promises, Guards, LateEnds, EndPass, PassOver, Active,
         NotYetEnded, At, Terminal, starts, tasks, history
<1> QED
  BY <1>2, <1>3, <1>4

-----------------------------------------------------------------------------
(* execute and finishActiveTask.                                           *)

LEMMA RunnerStartsKeeps ==
  ASSUME ServiceInv, NEW r \in Request, RunnerStarts(r)
  PROVE  ServiceInv'
<1> USE DEF ServiceInv, Globally, Locally, guards
<1>1. Listed(row', finished') /\ row' = [row EXCEPT ![r] = "running"]
  BY RecordKeeps DEF Rows, Task, RunnerStarts, Terminal
<1>2. TypeOK'
  BY <1>1, ServiceAssumption
     DEF TypeOK, Caller, Listed, Status, RunnerStarts, RunnerFrame, Terminal,
        journal, starts, tasks, stopping, history, Settled, Active
<1>3. Globally'
  BY <1>1
     DEF Gone, Rows, Starts, Disjoint, Passes, Over, Task, RunnerStarts,
         RunnerFrame, Active, Settled, ShuttingDown, starts, stopping
<1>4. ASSUME NEW s \in Request PROVE Locally(s)'
  BY <1>1
     DEF TypeOK, HeadOfQueue, Task, Leases, Promises, Guards, RunnerStarts, RunnerFrame,
         Active, NotYetEnded, At, starts
<1> QED
  BY <1>2, <1>3, <1>4

LEMMA RunnerNeverStartsKeeps ==
  ASSUME ServiceInv, NEW r \in Request, NEW ok \in BOOLEAN, RunnerNeverStarts(r, ok)
  PROVE  ServiceInv'
<1> USE DEF ServiceInv, Globally, Locally, guards
<1>1. Listed(row', finished') /\ row' = IF ok THEN [row EXCEPT ![r] = Failure(r)] ELSE row
  BY RecordKeeps DEF Rows, Task, RunnerNeverStarts, Settle, Failure, Terminal
<1>2. TypeOK'
  <2>1. row[r] \notin Terminal /\ (Failure(r)) \in Terminal
    BY DEF Task, RunnerNeverStarts, Failure, Terminal
  <2> QED
    BY <2>1, SettleRows
       DEF TypeOK, Listed, Status, RunnerNeverStarts, RunnerFrame, journal, starts,
          tasks, stopping, history
<1>3. Globally'
  BY <1>1
     DEF Gone, Rows, Starts, Disjoint, Passes, Over, RunnerNeverStarts, RunnerFrame,
         Settle, Failure, Active, Settled, ShuttingDown, starts, stopping, history
<1>4. ASSUME NEW s \in Request PROVE Locally(s)'
  BY <1>1, ServiceAssumption
     DEF TypeOK, HeadOfQueue, Task, Leases, Promises, Guards, RunnerNeverStarts,
         RunnerFrame, Settle, Failure, Active, NotYetEnded, At, Terminal, starts,
         history
<1> QED
  BY <1>2, <1>3, <1>4

LEMMA RunnerSucceedsKeeps ==
  ASSUME ServiceInv, NEW r \in Request, NEW ok \in BOOLEAN, RunnerSucceeds(r, ok)
  PROVE  ServiceInv'
<1> USE DEF ServiceInv, Globally, Locally, guards
<1>1. /\ Listed(row', finished')
      /\ row' = IF ok THEN [row EXCEPT ![r] = IF r \in cancelled THEN "cancelled" ELSE "succeeded"] ELSE row
  BY RecordKeeps DEF Rows, Task, RunnerSucceeds, Settle, Terminal
<1>2. TypeOK'
  <2>1. row[r] \notin Terminal /\ (IF r \in cancelled THEN "cancelled" ELSE "succeeded") \in Terminal
    BY DEF Task, RunnerSucceeds, Failure, Terminal
  <2> QED
    BY <2>1, SettleRows
       DEF TypeOK, Listed, Status, RunnerSucceeds, RunnerFrame, journal, starts,
          tasks, stopping, history
<1>3. Globally'
  BY <1>1, ServiceAssumption, OverlapsBothWays
     DEF TypeOK, Listed, Ages, Caller, Gone, Rows, Starts, Disjoint, Passes, Over,
        HeadOfQueue, Task, Leases, Promises, Guards, RunnerSucceeds, RunnerFrame, Settle,
        Failure, Active, Settled, ShuttingDown, NotYetEnded, At, Terminal, Status,
        journal, starts, tasks, stopping, history
<1>4. ASSUME NEW s \in Request PROVE Locally(s)'
  BY <1>1, ServiceAssumption, OwnLeaseIsFree, OverlapsBothWays
     DEF TypeOK, Listed, Ages, Caller, Gone, Rows, Starts, Disjoint, Passes, Over,
        HeadOfQueue, Task, Leases, Promises, Guards, RunnerSucceeds, RunnerFrame, Settle,
        Failure, Active, Settled, ShuttingDown, NotYetEnded, At, Terminal, Status,
        journal, starts, tasks, stopping, history
<1> QED
  BY <1>2, <1>3, <1>4

LEMMA RunnerFailsKeeps ==
  ASSUME ServiceInv, NEW r \in Request, NEW unsure \in BOOLEAN, NEW ok \in BOOLEAN,
         RunnerFails(r, unsure, ok)
  PROVE  ServiceInv'
<1> USE DEF ServiceInv, Globally, Locally, guards
<1>1. Listed(row', finished') /\ row' = IF ok THEN [row EXCEPT ![r] = Failure(r)] ELSE row
  BY RecordKeeps DEF Rows, Task, RunnerFails, Settle, Failure, Terminal
<1>2. TypeOK'
  <2>1. row[r] \notin Terminal /\ (Failure(r)) \in Terminal
    BY DEF Task, RunnerFails, Failure, Terminal
  <2> QED
    BY <2>1, SettleRows
       DEF TypeOK, Listed, Status, RunnerFails, RunnerFrame, journal, starts, tasks,
          stopping, history
<1>3. Globally'
  BY <1>1
     DEF Gone, Rows, Starts, Disjoint, Passes, Over, RunnerFails, RunnerFrame,
         Settle, Failure, Active, Settled, ShuttingDown, starts, stopping, history
<1>4. ASSUME NEW s \in Request PROVE Locally(s)'
  BY <1>1, ServiceAssumption
     DEF TypeOK, HeadOfQueue, Task, Leases, Promises, Guards, RunnerFails, RunnerFrame,
         Settle, Failure, Active, NotYetEnded, At, Terminal, starts, history
<1> QED
  BY <1>2, <1>3, <1>4

LEMMA LeaseReleasedKeeps ==
  ASSUME ServiceInv, NEW r \in Request, NEW ok \in BOOLEAN, LeaseReleased(r, ok)
  PROVE  ServiceInv'
<1> USE DEF ServiceInv, Globally, Locally, guards
<1>1. Listed(row', finished') /\ Ages(row)
  BY PruneOrFailKeeps DEF Rows, LeaseReleased
<1>2. TypeOK'
  BY <1>1, ServiceAssumption
     DEF TypeOK, Ages, Caller, Listed, Status, LeaseReleased, Finished, Terminal, journal,
        starts, tasks, stopping, history, Settled, Active
<1>3. Gone'
  BY DEF Gone, LeaseReleased
<1>4. Rows'
  BY <1>1 DEF Rows, Guards, Ages, TypeOK, LeaseReleased, history, Terminal
<1>5. Starts'
  BY DEF Starts, LeaseReleased, ShuttingDown, starts, stopping
<1>6. Disjoint'
  BY DEF Disjoint, LeaseReleased, Active
<1>7. Passes'
  BY <1>1 DEF Ages, Passes, LeaseReleased, Finished, Settled, TypeOK
<1>8. Over'
  BY DEF Over, LeaseReleased, stopping
<1>9. ASSUME NEW s \in Request PROVE HeadOfQueue(s)'
  <2>1. /\ queue' = queue /\ phase' = phase /\ late' = late
        /\ \A q \in Request : q # r => exec'[q] = exec[q] /\ lease'[q] = lease[q]
        /\ exec'[r] = "none" /\ exec[r] = "settled"
    BY DEF TypeOK, LeaseReleased, starts
  <2>2. row[s] = "none" => row'[s] = "none"
    BY <1>1 DEF Ages, Terminal
  <2> QED
    BY <2>1, <2>2 DEF HeadOfQueue, At, Active
<1>10. ASSUME NEW s \in Request PROVE Task(s)'
  <2>1. /\ s # r => /\ exec'[s] = exec[s] /\ release'[s] = release[s] /\ lease'[s] = lease[s]
                    /\ (s \in cancelled') = (s \in cancelled)
        /\ s = r => exec'[s] = "none" /\ release'[s] = "none" /\ s \notin cancelled'
        /\ pending' = pending /\ uncertain' = uncertain /\ late' = late /\ up' = up /\ ran' = ran
    BY DEF TypeOK, LeaseReleased, history
  <2>2. /\ row[s] \in {"accepted", "running"} => row'[s] = row[s]
        /\ row'[s] \in {"accepted", "running"} => row'[s] = row[s]
        /\ row[s] \in Terminal \cup {"retired", "none"}
             => row'[s] \in Terminal \cup {"retired", "none"}
    BY <1>1 DEF Ages, Terminal
  <2>3. exec[r] = "settled" /\ release[r] = "pending"
    BY DEF LeaseReleased
  <2>4. s = r => NotYetEnded(s)' /\ row'[s] # "running"
    BY <2>1, <2>2, <2>3 DEF Task, NotYetEnded, Terminal
  <2>5. s # r => NotYetEnded(s)' = NotYetEnded(s)
    BY <2>1 DEF NotYetEnded
  <2>6. CASE s = r
    BY <2>1, <2>3, <2>4, <2>6 DEF Task
  <2>7. CASE s # r
    BY <2>1, <2>2, <2>5, <2>7 DEF Task
  <2> QED
    BY <2>6, <2>7
<1>11. ASSUME NEW s \in Request PROVE Leases(s)'
  BY DEF TypeOK, Task, Leases, LeaseReleased, Active, At, starts
<1>12. ASSUME NEW s \in Request PROVE Promises(s)' /\ Guards(s)'
  BY <1>1 DEF Ages, Task, Promises, Guards, LeaseReleased, Terminal, history
<1> QED
  BY <1>2, <1>3, <1>4, <1>5, <1>6, <1>7, <1>8, <1>9, <1>10, <1>11, <1>12

LEMMA LeaseReleaseFailsKeeps ==
  ASSUME ServiceInv, NEW r \in Request, LeaseReleaseFails(r)
  PROVE  ServiceInv'
<1> USE DEF ServiceInv, Globally, Locally, guards
<1>1. TypeOK'
  BY ServiceAssumption
     DEF TypeOK, Caller, LeaseReleaseFails, Finished, Terminal, journal, starts,
        tasks, stopping, history, Settled, Active
<1>2. Globally'
  BY DEF Gone, Rows, Starts, Disjoint, Passes, Over, LeaseReleaseFails, Finished,
         Active, Settled, ShuttingDown, journal, starts, stopping, history
<1>3. ASSUME NEW s \in Request PROVE Locally(s)'
  BY DEF TypeOK, HeadOfQueue, Task, Leases, Promises, Guards, LeaseReleaseFails, Active,
         NotYetEnded, At, journal, starts, history
<1> QED
  BY <1>1, <1>2, <1>3

-----------------------------------------------------------------------------
(* recoverPendingTerminals.                                                *)

\* One turn of a recovery pass: what it leaves of the task.
LEMMA RetryRows ==
  ASSUME ServiceInv, NEW k \in Caller, NEW r \in Request, NEW ok \in BOOLEAN,
         Retry(k, r, ok)
  PROVE  /\ exec[r] = "settled"
         /\ Listed(row', finished')
         /\ row' = IF pending[r] # None /\ ok THEN [row EXCEPT ![r] = pending[r]] ELSE row
         /\ pending' = IF pending[r] # None /\ ok THEN [pending EXCEPT ![r] = None] ELSE pending
<1> USE DEF ServiceInv, Globally, Locally, guards
<1>1. exec[r] = "settled"
  BY DEF Retry, Passes, Settled
<1>2. CASE pending[r] # None /\ ok
  <2>1. Record(r, pending[r]) /\ pending' = [pending EXCEPT ![r] = None]
    BY <1>2 DEF Retry
  <2>2. row[r] \notin Terminal /\ pending[r] \in Terminal
    BY <1>1, <1>2 DEF Task, TypeOK, Terminal
  <2> QED
    BY <1>1, <1>2, <2>1, <2>2, RecordKeeps DEF Rows
<1>3. CASE ~(pending[r] # None /\ ok)
  BY <1>1, <1>3 DEF Retry, Rows
<1> QED BY <1>2, <1>3

LEMMA RetryKeeps ==
  ASSUME ServiceInv, NEW k \in Caller, NEW r \in Request, NEW ok \in BOOLEAN,
         Retry(k, r, ok)
  PROVE  ServiceInv'
<1> USE DEF ServiceInv, Globally, Locally, guards
<1>1. /\ exec[r] = "settled"
      /\ Listed(row', finished')
      /\ row' = IF pending[r] # None /\ ok THEN [row EXCEPT ![r] = pending[r]] ELSE row
      /\ pending' = IF pending[r] # None /\ ok THEN [pending EXCEPT ![r] = None] ELSE pending
  BY RetryRows
<1>2. /\ pending' \in [Request -> Terminal \cup {None}]
      /\ release' \in [Request -> {"none", "pending", "failed"}]
      /\ awaiting' \in [Caller -> SUBSET Request]
      /\ degraded' \in BOOLEAN
  <2>1. pending' \in [Request -> Terminal \cup {None}]
    BY <1>1 DEF TypeOK
  <2> QED
    BY <2>1 DEF TypeOK, Retry
<1>3. TypeOK'
  BY <1>1, <1>2
     DEF TypeOK, Listed, Status, Retry, starts, stopping, history
<1>4. Globally'
  <2>1. Gone' /\ Starts' /\ Disjoint' /\ Over'
    BY DEF Gone, Starts, Disjoint, Over, Retry, Active, ShuttingDown, starts, stopping
  <2>2. Rows'
    BY <1>1 DEF Rows, TypeOK, Terminal, Retry, history
  <2>3. Passes'
    BY DEF TypeOK, Passes, Settled, Retry
  <2> QED
    BY <2>1, <2>2, <2>3
<1>5. ASSUME NEW s \in Request PROVE Locally(s)'
  BY <1>1, ServiceAssumption, OwnLeaseIsFree, OverlapsBothWays
     DEF TypeOK, Listed, Ages, Caller, Gone, Rows, Starts, Disjoint, Passes, Over,
        HeadOfQueue, Task, Leases, Promises, Guards, Retry, Active, Settled, ShuttingDown,
        NotYetEnded, At, Terminal, Status, journal, starts, tasks, stopping, history
<1> QED
  BY <1>3, <1>4, <1>5

-----------------------------------------------------------------------------
(* cancelTask and shutdown.                                                *)

LEMMA RecordIntentKeeps ==
  ASSUME ServiceInv, NEW r \in Request, RecordIntent(r)
  PROVE  ServiceInv'
<1> USE DEF ServiceInv, Globally, Locally, guards
<1>1. TypeOK'
  BY ServiceAssumption
     DEF TypeOK, Caller, RecordIntent, BeginPass, Terminal, journal, starts, tasks,
        stopping, history, Settled, Active
<1>2. Globally'
  BY DEF Gone, Rows, Starts, Disjoint, Passes, Over, RecordIntent, BeginPass,
         Active, Settled, ShuttingDown, starts, tasks, stopping, history
<1>3. ASSUME NEW s \in Request PROVE Locally(s)'
  BY DEF HeadOfQueue, Task, Leases, Promises, Guards, RecordIntent, Active, NotYetEnded, At,
         starts, tasks, history
<1> QED
  BY <1>1, <1>2, <1>3

LEMMA AbortKeeps ==
  ASSUME ServiceInv, NEW r \in Request, NEW ok \in BOOLEAN, Abort(r, ok)
  PROVE  ServiceInv'
<1> USE DEF ServiceInv, Globally, Locally, guards
<1>1. Listed(row', finished') /\ Ages(row)
  BY PruneOrFailKeeps DEF Rows, Abort, EndPass, PassOver
<1>2. TypeOK'
  BY <1>1, ServiceAssumption
     DEF TypeOK, Ages, Listed, Status, Abort, EndPass, PassOver, starts, stopping
<1>3. Globally'
  <2>1. Gone' /\ Starts' /\ Disjoint' /\ Over'
    BY DEF Gone, Starts, Disjoint, Over, Abort, EndPass, PassOver, Active, ShuttingDown,
           starts, stopping
  <2>2. Rows'
    BY <1>1 DEF Ages, Rows, Guards, TypeOK, Abort
  <2>3. Passes'
    BY <1>1 DEF Ages, Passes, Settled, Abort, EndPass, PassOver
  <2> QED
    BY <2>1, <2>2, <2>3
<1>4. ASSUME NEW s \in Request PROVE HeadOfQueue(s)'
  <2>1. row[s] = "none" => row'[s] = "none"
    BY <1>1 DEF Ages, Terminal
  <2> QED
    BY <2>1 DEF HeadOfQueue, Abort, Active, At, starts
<1>5. ASSUME NEW s \in Request PROVE Task(s)'
  <2>1. /\ row[s] \in {"accepted", "running"} => row'[s] = row[s]
        /\ row'[s] \in {"accepted", "running"} => row'[s] = row[s]
        /\ row[s] \in Terminal \cup {"retired", "none"}
             => row'[s] \in Terminal \cup {"retired", "none"}
    BY <1>1 DEF Ages, Terminal
  <2>2. exec[s] = "none" => s \notin cancelled'
    BY DEF Abort, Task
  <2> QED
    BY <2>1, <2>2 DEF Task, NotYetEnded, Abort
<1>6. ASSUME NEW s \in Request PROVE Leases(s)'
  BY DEF Leases, Abort, Active, At, starts
<1>7. ASSUME NEW s \in Request PROVE Promises(s)' /\ Guards(s)'
  <2>1. /\ up /\ up' /\ exec' = exec /\ pending' = pending /\ ran' = ran
        /\ cancelled \subseteq cancelled' /\ <<"cancel", r>> \in recovering
    BY DEF Abort, EndPass, PassOver
  <2>2. /\ s \in intent /\ <<"cancel", s>> \notin expired => s \in intent'
        /\ expired' \subseteq expired
        /\ <<"start", s>> \in expired' => row'[s] = row[s]
    BY <1>1 DEF Ages
  <2>3. s \in promised =>
          /\ row'[s] \in {"accepted", "running", "cancelled", "retired"}
          /\ row'[s] = "accepted" => row[s] = "accepted"
    BY <1>1 DEF Ages, Promises, Guards, Terminal
  <2>4. CASE s \in promised \/ s \notin promised'
    BY <2>1, <2>2, <2>3, <2>4 DEF Promises, Guards
  <2>5. CASE s \notin promised /\ s \in promised'
    <3>1. s = r /\ exec[r] \in {"starting", "running"} /\ r \in cancelled'
      BY <2>5 DEF Abort
    <3>2. row[r] \in {"accepted", "running"} /\ pending[r] = None /\ row'[r] = row[r]
      BY <1>1, <3>1 DEF Ages, Task, NotYetEnded, Terminal
    <3>3. r \in intent /\ <<"cancel", r>> \notin expired
      BY <2>1 DEF Passes
    <3>4. <<"start", r>> \notin expired
      BY <3>2 DEF Guards
    <3> QED
      BY <2>1, <2>2, <3>1, <3>2, <3>3, <3>4 DEF Promises, Guards
  <2> QED
    BY <2>4, <2>5
<1> QED
  BY <1>2, <1>3, <1>4, <1>5, <1>6, <1>7

LEMMA ShutdownKeeps ==
  ASSUME ServiceInv, Shutdown
  PROVE  ServiceInv'
<1> USE DEF ServiceInv, Globally, Locally, guards
<1>1. TypeOK'
  BY ServiceAssumption
     DEF TypeOK, Caller, Shutdown, StopFrame, AbortActive, Terminal, journal,
        starts, tasks, stopping, history, Settled, Active
<1>2. Globally'
  BY DEF Gone, Rows, Starts, Disjoint, Passes, Over, Shutdown, StopFrame, Active,
         Settled, journal, history
<1>3. ASSUME NEW s \in Request PROVE Locally(s)'
  BY DEF HeadOfQueue, Task, Leases, Promises, Guards, Shutdown, StopFrame, AbortActive,
         Active, NotYetEnded, At, journal, history
<1> QED
  BY <1>1, <1>2, <1>3

LEMMA StartsOverKeeps ==
  ASSUME ServiceInv, StartsOver
  PROVE  ServiceInv'
<1> USE DEF ServiceInv, Globally, Locally, guards
<1>1. TypeOK'
  BY ServiceAssumption
     DEF TypeOK, Caller, StartsOver, StopFrame, AbortActive, Terminal, journal,
        starts, tasks, stopping, history, Settled, Active
<1>2. Globally'
  BY ServiceAssumption, OverlapsBothWays
     DEF TypeOK, Listed, Ages, Caller, Gone, Rows, Starts, Disjoint, Passes, Over,
        HeadOfQueue, Task, Leases, Promises, Guards, StartsOver, StopFrame, AbortActive,
        Active, Settled, ShuttingDown, NotYetEnded, At, Terminal, Status, journal,
        starts, tasks, stopping, history
<1>3. ASSUME NEW s \in Request PROVE Locally(s)'
  BY ServiceAssumption, OwnLeaseIsFree, OverlapsBothWays
     DEF TypeOK, Listed, Ages, Caller, Gone, Rows, Starts, Disjoint, Passes, Over,
        HeadOfQueue, Task, Leases, Promises, Guards, StartsOver, StopFrame, AbortActive,
        Active, Settled, ShuttingDown, NotYetEnded, At, Terminal, Status, journal,
        starts, tasks, stopping, history
<1> QED
  BY <1>1, <1>2, <1>3

LEMMA TasksOverKeeps ==
  ASSUME ServiceInv, TasksOver
  PROVE  ServiceInv'
<1> USE DEF ServiceInv, Globally, Locally, guards
<1>1. TypeOK'
  BY ServiceAssumption
     DEF TypeOK, Caller, TasksOver, StopFrame, BeginPass, Complete, Terminal,
        journal, starts, tasks, stopping, history, Settled, Active
<1>2. Globally'
  BY DEF Gone, Rows, Starts, Disjoint, Passes, Over, TasksOver, StopFrame,
         BeginPass, Active, Settled, ShuttingDown, journal, history
<1>3. ASSUME NEW s \in Request PROVE Locally(s)'
  BY DEF HeadOfQueue, Task, Leases, Promises, Guards, TasksOver, StopFrame, Active,
         NotYetEnded, At, journal, history
<1> QED
  BY <1>1, <1>2, <1>3

LEMMA SettlesKeeps ==
  ASSUME ServiceInv, NEW ok \in BOOLEAN, Settles(ok)
  PROVE  ServiceInv'
<1> USE DEF ServiceInv, Globally, Locally, guards
<1>1. Listed(row', finished') /\ Ages(row)
  BY PruneOrFailKeeps DEF Rows, Settles, EndPass, PassOver
<1>2. TypeOK'
  BY <1>1, ServiceAssumption
     DEF TypeOK, Ages, Listed, Status, Settles, StopFrame, EndPass, PassOver, history
<1>3. Globally'
  <2>1. Gone' /\ Starts' /\ Disjoint' /\ Over'
    BY DEF TypeOK, Gone, Starts, Disjoint, Over, Settles, StopFrame, EndPass, PassOver,
           Active, ShuttingDown
  <2>2. Rows'
    BY <1>1 DEF Ages, Rows, Guards, TypeOK, Settles, StopFrame, history
  <2>3. Passes'
    BY <1>1 DEF Ages, Passes, Settled, Settles, StopFrame, EndPass, PassOver
  <2> QED
    BY <2>1, <2>2, <2>3
<1>4. ASSUME NEW s \in Request PROVE Locally(s)'
  BY <1>1, ServiceAssumption, OwnLeaseIsFree, OverlapsBothWays
     DEF TypeOK, Listed, Ages, Caller, Gone, Rows, Starts, Disjoint, Passes, Over,
        HeadOfQueue, Task, Leases, Promises, Guards, Settles, StopFrame, EndPass, PassOver, Active,
        Settled, ShuttingDown, NotYetEnded, At, Terminal, Status, journal, starts,
        tasks, stopping, history
<1> QED
  BY <1>2, <1>3, <1>4

-----------------------------------------------------------------------------
(* The process and what it leaves behind.                                  *)

LEMMA CrashKeeps ==
  ASSUME ServiceInv, Crash
  PROVE  ServiceInv'
<1> USE DEF ServiceInv, Globally, Locally, guards
<1>1. /\ lease' \in [Request -> {"none", "held", "orphan"}]
      /\ awaiting' \in [Caller -> SUBSET Request]
      /\ pending' \in [Request -> Terminal \cup {None}]
  BY DEF TypeOK, Crash
<1>2. queue' \in Seq(Request) /\ Len(queue') <= MaxPending /\ ahead' \in 0..MaxPending
  BY ServiceAssumption DEF Crash
<1>3. TypeOK'
  BY <1>1, <1>2 DEF TypeOK, Crash, journal, history, starts, tasks, stopping
<1>4. Globally'
  BY DEF Gone, Rows, Starts, Disjoint, Passes, Over, Crash, Active, journal, history
<1>5. ASSUME NEW s \in Request PROVE Locally(s)'
  BY DEF HeadOfQueue, Task, Leases, Promises, Guards, Crash, NotYetEnded, journal, history
<1> QED
  BY <1>3, <1>4, <1>5

LEMMA ProviderEndsKeeps ==
  ASSUME ServiceInv, NEW r \in Request, ProviderEnds(r)
  PROVE  ServiceInv'
<1> USE DEF ServiceInv, Globally, Locally, guards
<1>1. TypeOK'
  BY ServiceAssumption
     DEF TypeOK, Caller, ProviderEnds, Terminal, journal, starts, tasks, stopping,
        history, Settled, Active
<1>2. Globally'
  BY ServiceAssumption, OverlapsBothWays
     DEF TypeOK, Listed, Ages, Caller, Gone, Rows, Starts, Disjoint, Passes, Over,
        HeadOfQueue, Task, Leases, Promises, Guards, ProviderEnds, Active, Settled,
        ShuttingDown, NotYetEnded, At, Terminal, Status, journal, starts, tasks,
        stopping, history
<1>3. ASSUME NEW s \in Request PROVE Locally(s)'
  BY ServiceAssumption, OwnLeaseIsFree, OverlapsBothWays
     DEF TypeOK, Listed, Ages, Caller, Gone, Rows, Starts, Disjoint, Passes, Over,
        HeadOfQueue, Task, Leases, Promises, Guards, ProviderEnds, Active, Settled,
        ShuttingDown, NotYetEnded, At, Terminal, Status, journal, starts, tasks,
        stopping, history
<1> QED
  BY <1>1, <1>2, <1>3

LEMMA OrphanRecoveredKeeps ==
  ASSUME ServiceInv, NEW r \in Request, OrphanRecovered(r)
  PROVE  ServiceInv'
<1> USE DEF ServiceInv, Globally, Locally, guards
<1>1. TypeOK'
  BY ServiceAssumption
     DEF TypeOK, Caller, OrphanRecovered, Terminal, journal, starts, tasks,
        stopping, history, Settled, Active
<1>2. Globally'
  BY DEF Gone, Rows, Starts, Disjoint, Passes, Over, OrphanRecovered, Active,
         Settled, ShuttingDown, journal, starts, tasks, stopping, history
<1>3. ASSUME NEW s \in Request PROVE Locally(s)'
  BY DEF HeadOfQueue, Task, Leases, Promises, Guards, OrphanRecovered, Active, NotYetEnded,
         At, journal, starts, tasks, history
<1> QED
  BY <1>1, <1>2, <1>3

\* An intent whose window is over binds nobody: no promise rests on it any more.
LEMMA IntentExpiresKeeps ==
  ASSUME ServiceInv, NEW r \in Request, IntentExpires(r)
  PROVE  ServiceInv'
<1> USE DEF ServiceInv, Globally, Locally
<1>1. TypeOK'
  BY DEF TypeOK, IntentExpires, TimeFrame, starts, tasks, stopping
<1>2. Globally'
  BY DEF Gone, Rows, Listed, Starts, Disjoint, Passes, Over, IntentExpires, TimeFrame,
         Active, Settled, ShuttingDown, starts, tasks, stopping
<1>3. ASSUME NEW s \in Request PROVE Locally(s)'
  BY DEF HeadOfQueue, Task, Leases, Promises, Guards, IntentExpires, TimeFrame, Active,
         NotYetEnded, At, starts, tasks
<1> QED
  BY <1>1, <1>2, <1>3

\* A tombstone whose window is over makes its request a new one.
LEMMA TombstoneExpiresKeeps ==
  ASSUME ServiceInv, NEW r \in Request, TombstoneExpires(r)
  PROVE  ServiceInv'
<1> USE DEF ServiceInv, Globally, Locally
<1>1. TypeOK'
  BY DEF TypeOK, TombstoneExpires, TimeFrame, starts, tasks, stopping
<1>2. Globally'
  BY DEF Gone, Rows, Listed, Starts, Disjoint, Passes, Over, TombstoneExpires, TimeFrame,
         Active, Settled, ShuttingDown, starts, tasks, stopping
<1>3. ASSUME NEW s \in Request PROVE Locally(s)'
  BY DEF HeadOfQueue, Task, Leases, Promises, Guards, TombstoneExpires, TimeFrame, Active,
         NotYetEnded, At, starts, tasks
<1> QED
  BY <1>1, <1>2, <1>3

\* The rows as reconcileInterruptedTasks leaves them, before the prune.
Reconciled == [r \in Request |-> IF r \in Interrupted THEN EndedByRestart(r) ELSE row[r]]

\* The constructor ends what was interrupted, each task once, and prunes.
LEMMA RestartRows ==
  ASSUME ServiceInv, Restart
  PROVE  Listed(row', finished') /\ Ages(Reconciled)
<1> USE DEF ServiceInv, Globally, Locally, guards
<1> DEFINE rows == Reconciled
<1>1. PICK order \in [1..Cardinality(Interrupted) -> Interrupted] :
        /\ \A i, j \in DOMAIN order : order[i] = order[j] => i = j
        /\ Prune(rows, finished \o order)
  BY DEF Restart, Reconciled
<1>2. Cardinality(Interrupted) \in Nat
  BY FS_Subset, FS_CardinalityType, ServiceAssumption DEF Interrupted
<1>3. /\ order \in Seq(Request) /\ DOMAIN order = 1..Len(order)
      /\ \A i \in 1..Len(order) : order[i] \in Interrupted
  <2>1. order \in [1..Cardinality(Interrupted) -> Request]
    BY <1>1 DEF Interrupted
  <2>2. order \in Seq(Request) /\ Len(order) = Cardinality(Interrupted)
    BY <1>2, <2>1, IsASeq
  <2> QED
    BY <1>1, <2>1, <2>2
<1>4. /\ finished \in Seq(Request) /\ DOMAIN finished = 1..Len(finished)
      /\ Len(finished) \in Nat /\ Len(order) \in Nat
      /\ \A i \in 1..Len(finished) :
           finished[i] \in Request \ Interrupted /\ row[finished[i]] \in Terminal
      /\ \A i, j \in 1..Len(finished) : finished[i] = finished[j] => i = j
  BY <1>3 DEF Rows, Listed, Interrupted, Terminal
<1> DEFINE all == finished \o order
<1>5. /\ all \in Seq(Request) /\ DOMAIN all = 1..Len(finished) + Len(order)
      /\ \A i \in 1..Len(finished) + Len(order) :
           all[i] = IF i <= Len(finished) THEN finished[i] ELSE order[i - Len(finished)]
  BY <1>3, <1>4, ConcatProperties
<1> HIDE DEF all
<1>6. rows \in [Request -> Status]
  BY DEF Rows, Listed, Reconciled, EndedByRestart, Status, Terminal
<1>7. \A i \in DOMAIN all : rows[all[i]] \in Terminal
  <2> SUFFICES ASSUME NEW i \in DOMAIN all PROVE rows[all[i]] \in Terminal
    OBVIOUS
  <2>1. CASE i <= Len(finished)
    BY <1>4, <1>5, <2>1 DEF Reconciled
  <2>2. CASE ~(i <= Len(finished))
    <3>1. i - Len(finished) \in 1..Len(order)
      BY <1>4, <1>5, <2>2
    <3>2. all[i] \in Interrupted /\ all[i] \in Request
      BY <1>3, <1>5, <2>2, <3>1 DEF Interrupted
    <3> QED
      BY <3>2 DEF Reconciled, EndedByRestart, Terminal
  <2> QED
    BY <2>1, <2>2
<1>8. \A i, j \in DOMAIN all : all[i] = all[j] => i = j
  <2> SUFFICES ASSUME NEW i \in DOMAIN all, NEW j \in DOMAIN all, all[i] = all[j]
               PROVE  i = j
    OBVIOUS
  <2>1. CASE i <= Len(finished) /\ j <= Len(finished)
    BY <1>4, <1>5, <2>1
  <2>2. CASE ~(i <= Len(finished)) /\ ~(j <= Len(finished))
    <3>1. /\ i - Len(finished) \in 1..Len(order) /\ j - Len(finished) \in 1..Len(order)
          /\ i \in Int /\ j \in Int
      BY <1>4, <1>5, <2>2
    <3>2. i - Len(finished) = j - Len(finished)
      BY <1>1, <1>3, <1>5, <2>2, <3>1
    <3> QED
      BY <1>4, <3>1, <3>2
  <2>3. CASE ~(i <= Len(finished)) /\ j <= Len(finished)
    <3>1. i - Len(finished) \in 1..Len(order) /\ j \in 1..Len(finished)
      BY <1>4, <1>5, <2>3
    <3> QED
      BY <1>3, <1>4, <1>5, <2>3, <3>1
  <2>4. CASE i <= Len(finished) /\ ~(j <= Len(finished))
    <3>1. j - Len(finished) \in 1..Len(order) /\ i \in 1..Len(finished)
      BY <1>4, <1>5, <2>4
    <3> QED
      BY <1>3, <1>4, <1>5, <2>4, <3>1
  <2> QED
    BY <2>1, <2>2, <2>3, <2>4
<1>9. Listed(rows, all)
  BY <1>5, <1>6, <1>7, <1>8 DEF Listed
<1>10. \A r \in Request : <<"start", r>> \in expired => rows[r] = "retired"
  BY DEF Guards, Reconciled, Interrupted
<1> QED
  BY <1>1, <1>9, <1>10, PruneKeeps DEF all

LEMMA RestartKeeps ==
  ASSUME ServiceInv, Restart
  PROVE  ServiceInv'
<1> USE DEF ServiceInv, Globally, Locally, guards
<1>1. Listed(row', finished') /\ Ages(Reconciled)
  BY RestartRows
<1>2. /\ ~up /\ up' /\ writing = {}
      /\ UNCHANGED <<lease, writing, starts, recovering, awaiting, tasks, late,
                     detached, degraded, stopping, history>>
  BY DEF Restart
<1>3. TypeOK'
  BY <1>1, <1>2 DEF TypeOK, Ages, Listed, Status, starts, tasks, stopping, history
<1>4. \A r \in Request :
        /\ row'[r] \notin {"accepted", "running"}
        /\ row[r] = "none" => row'[r] = "none"
        /\ row'[r] = "none" => row[r] = "none" \/ <<"start", r>> \in expired
        /\ <<"start", r>> \in expired' => <<"start", r>> \in expired /\ row'[r] = "retired"
  BY <1>1 DEF Ages, Reconciled, Interrupted, EndedByRestart, Guards, Terminal
<1>5. Rows'
  BY <1>1, <1>2, <1>4 DEF Rows, Guards, TypeOK, history
<1>6. Gone' /\ Starts' /\ Disjoint' /\ Passes' /\ Over'
  BY <1>2 DEF Gone, Starts, Disjoint, Passes, Over, ShuttingDown, Active, Settled,
              starts, tasks, stopping
<1>7. ASSUME NEW s \in Request PROVE HeadOfQueue(s)' /\ Task(s)' /\ Leases(s)'
  BY <1>2, <1>4 DEF Gone, HeadOfQueue, Task, Leases, At, Active, NotYetEnded,
                    starts, tasks, history
<1>8. ASSUME NEW s \in Request PROVE Promises(s)' /\ Guards(s)'
  <2>1. s \in promised => row'[s] \in {"cancelled", "retired"} /\ s \in intent'
    BY <1>1 DEF Ages, Reconciled, Interrupted, Promises, Guards, EndedByRestart, Terminal, TypeOK
  <2>2. expired' \subseteq expired
    BY <1>1 DEF Ages
  <2> QED
    BY <1>2, <1>4, <2>1, <2>2 DEF Promises, Guards, tasks, history
<1> QED
  BY <1>3, <1>5, <1>6, <1>7, <1>8

-----------------------------------------------------------------------------
(* The theorems.                                                           *)

LEMMA InitHolds == Init => ServiceInv
<1> SUFFICES ASSUME Init PROVE ServiceInv
  OBVIOUS
<1>1. /\ finished \in Seq(Request) /\ queue \in Seq(Request)
      /\ Len(queue) <= MaxPending /\ ahead \in 0..MaxPending
      /\ awaiting \in [Caller -> SUBSET Request]
      /\ \A i, j \in DOMAIN finished : finished[i] = finished[j] => i = j
  BY ServiceAssumption DEF Init
<1>2. TypeOK
  BY <1>1 DEF Init, TypeOK, Terminal
<1>3. Globally
  BY DEF Globally, Init, Gone, Rows, Listed, Status, Starts, Disjoint, Passes, Over,
         ShuttingDown, Active, Settled
<1>4. ASSUME NEW r \in Request PROVE Locally(r)
  BY DEF Locally, Init, HeadOfQueue, Task, Leases, Promises, Guards, At, NotYetEnded
<1> QED
  BY <1>2, <1>3, <1>4 DEF ServiceInv

LEMMA StutterKeeps == ServiceInv /\ UNCHANGED vars => ServiceInv'
BY DEF ServiceInv, TypeOK, Globally, Locally, Gone, Rows, Listed, Starts, Disjoint, Passes,
       Over, HeadOfQueue, Task, Leases, Promises, Guards, At, NotYetEnded, ShuttingDown, Active,
       Settled, vars, journal, guards, starts, tasks, stopping, history

LEMMA StepKeeps == ServiceInv /\ Next => ServiceInv'
<1> SUFFICES ASSUME ServiceInv, Next PROVE ServiceInv'
  OBVIOUS
<1>1. ASSUME NEW r \in Request, StartTask(r) PROVE ServiceInv'
  BY <1>1, SubmitKeeps, BeginStartKeeps, CheckStartKeeps, ResolveTargetKeeps,
     AcquireLeaseKeeps, AcquireFailsKeeps, AcquireTimesOutKeeps, CreateTaskKeeps,
     CreateFailsKeeps, PreStartReleasedKeeps
     DEF StartTask, StartProgress
<1>2. ASSUME NEW r \in Request, LateLease(r) PROVE ServiceInv'
  BY <1>2, LateAcquiredKeeps, LateRefusedKeeps, LateReleasedKeeps DEF LateLease
<1>3. ASSUME NEW r \in Request, Runner(r) PROVE ServiceInv'
  BY <1>3, RunnerStartsKeeps, RunnerNeverStartsKeeps, RunnerSucceedsKeeps,
     RunnerFailsKeeps, LeaseReleasedKeeps, LeaseReleaseFailsKeeps
     DEF Runner
<1>4. ASSUME NEW r \in Request, CancelTask(r) PROVE ServiceInv'
  BY <1>4, RecordIntentKeeps, AbortKeeps DEF CancelTask
<1>5. CASE Stop
  BY <1>5, ShutdownKeeps, StartsOverKeeps, TasksOverKeeps, SettlesKeeps DEF Stop
<1>6. CASE Environment
  BY <1>6, CrashKeeps, RestartKeeps, ProviderEndsKeeps, OrphanRecoveredKeeps,
     IntentExpiresKeeps, TombstoneExpiresKeeps
     DEF Environment
<1>7. CASE Recovery
  BY <1>7, RetryKeeps DEF Recovery
<1>8. ASSUME NEW ok \in BOOLEAN, LateEnds(ok) PROVE ServiceInv'
  BY <1>8, LateEndsKeeps
<1> QED
  BY <1>1, <1>2, <1>3, <1>4, <1>5, <1>6, <1>7, <1>8 DEF Next

\* For every set of requests and projects and every limit, whatever times out, fails,
\* is cancelled or dies: the service is in a state the invariant describes.
THEOREM ServiceInvariant == Spec => []ServiceInv
<1>1. ServiceInv /\ [Next]_vars => ServiceInv'
  BY StepKeeps, StutterKeeps
<1> QED
  BY <1>1, InitHolds, PTL DEF Spec

\* While the service is up a writer is a task, and tasks do not overlap.
LEMMA InvariantKeepsLeases ==
  ASSUME ServiceInv
  PROVE  WriterKeepsLease /\ EndIsDurableFirst
<1> USE DEF ServiceInv, Globally, Locally, guards
<1>1. WriterKeepsLease
  BY DEF WriterKeepsLease, Leases, TypeOK
<1>2. ASSUME NEW r \in Request,
             (up /\ row[r] = "running") \/ (r \in Active /\ row[r] = "accepted")
      PROVE  lease[r] = "held"
  <2>1. exec[r] # "none"
    BY <1>2 DEF Task, Active
  <2>2. release[r] = "none"
    BY <1>2, <2>1 DEF Task, NotYetEnded, TypeOK, Terminal
  <2> QED
    BY <2>1, <2>2 DEF Task
<1> QED
  BY <1>1, <1>2 DEF EndIsDurableFirst

\* While the service is up nobody writes beside a writer.
LEMMA WritersAreTasks == ServiceInv /\ up => SoleWriter
<1> SUFFICES ASSUME ServiceInv, up PROVE SoleWriter
  OBVIOUS
<1>1. \A r \in writing : r \in Active
  BY DEF ServiceInv, Globally, Locally, TypeOK, Leases, Task, NotYetEnded, Active
<1> QED
  BY <1>1 DEF SoleWriter, ServiceInv, Globally, Disjoint

\* While it is gone, or when it goes, no writer is added.
LEMMA GoneAddsNoWriter ==
  ASSUME [Next]_vars, ~up'
  PROVE  writing' \subseteq writing
<1>1. ASSUME NEW r \in Request, StartTask(r) PROVE FALSE
  BY <1>1 DEF StartTask, StartProgress, Submit, BeginStart, CheckStart, ResolveTarget,
     AcquireLease, AcquireFails, AcquireTimesOut, CreateTask, CreateFails,
     PreStartReleased, StartIn, StartStep, EndPass, PassOver
<1>2. ASSUME NEW r \in Request, LateLease(r) PROVE FALSE
  BY <1>2 DEF LateLease, LateAcquired, LateRefused, LateReleased, LateFrame
<1>3. ASSUME NEW r \in Request, Runner(r) PROVE FALSE
  <2>1. ~RunnerStarts(r) /\ ~LeaseReleaseFails(r)
    BY DEF RunnerStarts, LeaseReleaseFails, RunnerFrame
  <2>2. ASSUME NEW ok \in BOOLEAN
        PROVE  ~RunnerNeverStarts(r, ok) /\ ~RunnerSucceeds(r, ok)
    BY DEF RunnerNeverStarts, RunnerSucceeds, RunnerFrame, Settle
  <2>3. ASSUME NEW ok \in BOOLEAN, NEW unsure \in BOOLEAN
        PROVE  ~RunnerFails(r, unsure, ok)
    BY DEF RunnerFails, RunnerFrame
  <2>4. ASSUME NEW ok \in BOOLEAN PROVE ~LeaseReleased(r, ok)
    BY DEF LeaseReleased
  <2> QED
    BY <1>3, <2>1, <2>2, <2>3, <2>4 DEF Runner
<1>4. ASSUME NEW r \in Request, CancelTask(r) PROVE FALSE
  BY <1>4 DEF CancelTask, RecordIntent, Abort, EndPass, PassOver
<1>5. ~Stop
  BY DEF Stop, Shutdown, StartsOver, TasksOver, Settles, StopFrame, EndPass, PassOver
<1>6. CASE Environment
  BY <1>6 DEF Environment, Crash, Restart, ProviderEnds, OrphanRecovered, IntentExpires,
     TombstoneExpires, TimeFrame
<1>7. ~Recovery
  BY DEF Recovery, Retry
<1>8. ASSUME NEW ok \in BOOLEAN, LateEnds(ok) PROVE FALSE
  BY <1>8 DEF LateEnds, EndPass, PassOver
<1>9. CASE UNCHANGED vars
  BY <1>9 DEF vars
<1> QED
  BY <1>1, <1>2, <1>3, <1>4, <1>5, <1>6, <1>7, <1>8, <1>9 DEF Next

\* Two providers never write in overlapping directories, a provider that may write
\* keeps its lease, and a lease is held until the outcome is in the journal: through
\* failed releases, terminations that are not confirmed, and deaths of the service.
THEOREM LeaseDisciplineHolds == Spec => []LeaseDiscipline
<1>1. Init => SoleWriter
  BY DEF Init, SoleWriter
<1>2. ServiceInv' /\ SoleWriter /\ [Next]_vars => SoleWriter'
  <2>1. (ServiceInv /\ up)' => SoleWriter'
    BY WritersAreTasks, PTL
  <2>2. ASSUME [Next]_vars, ~up', SoleWriter PROVE SoleWriter'
    BY <2>2, GoneAddsNoWriter DEF SoleWriter, Overlaps
  <2> QED
    BY <2>1, <2>2
<1>3. ServiceInv /\ SoleWriter => LeaseDiscipline
  BY InvariantKeepsLeases DEF LeaseDiscipline, ServiceInv
<1> QED
  BY <1>1, <1>2, <1>3, ServiceInvariant, PTL DEF Spec

\* A task that a person's cancel has aborted ends as cancelled and as nothing else,
\* also when the service dies before it is written, as long as the intent of that
\* cancel lasts.
THEOREM CancelIsHonoured == Spec => []CancelHonoured
<1>1. ServiceInv => CancelHonoured
  BY DEF ServiceInv, Globally, Locally, TypeOK, Promises, Guards, CancelHonoured, Terminal
<1> QED
  BY <1>1, ServiceInvariant, PTL

\* When shutdown is fulfilled no provider writes, no lease is held and no outcome
\* is unwritten, and none ever is again in that process.
THEOREM ShutdownCompletes == Spec => []ShutdownIsComplete
<1>1. ServiceInv => ShutdownIsComplete
  <2> SUFFICES ASSUME ServiceInv, shutdown = "fulfilled"
               PROVE  /\ writing = {}
                      /\ \A r \in Request : lease[r] # "held" /\ pending[r] = None
    BY DEF ShutdownIsComplete
  <2> USE DEF ServiceInv, Globally, Locally
  <2>1. up /\ phase \in {"queued", "recovering"}
    BY DEF Gone, Starts, ShuttingDown
  <2>2. detached = {} /\ Active = {}
    BY DEF Over, Active
  <2> QED
    BY <2>1, <2>2 DEF TypeOK, Over, Leases, Task, NotYetEnded, Active
<1> QED
  BY <1>1, ServiceInvariant, PTL

-----------------------------------------------------------------------------
(* Shutdown goes on.                                                       *)

\* Who is inside a recovery pass is counted as a caller of it.
Inside ==
  /\ phase = "recovering" => <<"start">> \in recovering
  /\ shutdown = "recovering" => <<"shutdown">> \in recovering

\* A pass ends only when its caller goes on.
LEMMA InsideKeeps ==
  ASSUME TypeOK, Inside, [Next]_vars
  PROVE  Inside'
<1> DEFINE Same == UNCHANGED <<phase, shutdown>> /\ recovering \subseteq recovering'
<1>0. Same => Inside'
  BY DEF Inside
<1> HIDE DEF Same
<1>1. ASSUME NEW r \in Request, StartTask(r) PROVE Inside'
  <2>1. CASE Submit(r)
    BY <2>1, <1>0 DEF Submit, stopping, Same
  <2>2. CASE BeginStart(r)
    BY <2>2 DEF BeginStart, BeginPass, stopping, Inside
  <2>3. ASSUME NEW ok \in BOOLEAN, CheckStart(r, ok) PROVE Inside'
    BY <2>3 DEF CheckStart, PassOver, Leave, stopping, Inside
  <2>4. ASSUME NEW ok \in BOOLEAN,
               \/ ResolveTarget(r) \/ AcquireLease(r) \/ AcquireFails(r)
               \/ AcquireTimesOut(r) \/ CreateTask(r) \/ CreateFails(r)
               \/ PreStartReleased(r, ok)
        PROVE  Inside'
    BY <2>4 DEF ResolveTarget, AcquireLease, AcquireFails, AcquireTimesOut, CreateTask,
       CreateFails, PreStartReleased, StartStep, Leave, stopping, Inside
  <2> QED
    BY <1>1, <2>1, <2>2, <2>3, <2>4 DEF StartTask, StartProgress
<1>2. ASSUME NEW r \in Request, LateLease(r) PROVE Inside'
  BY <1>2, <1>0 DEF LateLease, LateAcquired, LateRefused, LateReleased, LateFrame, BeginPass,
     starts, stopping, Same
<1>3. ASSUME NEW r \in Request, Runner(r) PROVE Inside'
  BY <1>3, <1>0 DEF Runner, RunnerStarts, RunnerNeverStarts, RunnerSucceeds, RunnerFails,
     LeaseReleased, LeaseReleaseFails, RunnerFrame, starts, stopping, Same
<1>4. ASSUME NEW r \in Request, CancelTask(r) PROVE Inside'
  BY <1>4 DEF CancelTask, RecordIntent, Abort, BeginPass, EndPass, PassOver, starts, stopping, Inside
<1>5. ASSUME NEW ok \in BOOLEAN, LateEnds(ok) PROVE Inside'
  BY <1>5 DEF LateEnds, EndPass, PassOver, starts, stopping, Inside
<1>6. CASE Recovery
  BY <1>6, <1>0 DEF Recovery, Retry, starts, stopping, Same
<1>7. CASE Stop
  BY <1>7 DEF Stop, Shutdown, StartsOver, TasksOver, Settles, StopFrame, BeginPass, EndPass, PassOver,
     Inside
<1>8. CASE Environment
  BY <1>8 DEF Environment, Crash, Restart, ProviderEnds, OrphanRecovered, IntentExpires,
     TombstoneExpires, TimeFrame, starts, stopping, Inside
<1>9. CASE UNCHANGED vars
  BY <1>9, <1>0 DEF vars, starts, stopping, Same
<1> QED
  BY <1>1, <1>2, <1>3, <1>4, <1>5, <1>6, <1>7, <1>8, <1>9 DEF Next

\* What the steps ask of a state: a turn of the pass of k, its end, and a step of
\* the start at the head that needs nobody's good will.
PassTurns(k) ==
  \E r \in awaiting[k] :
    \/ k \in recovering /\ release[r] # "pending"
    \/ exec[r] = "settled" /\ release[r] = "pending"
PassEnds(k) == k \in recovering /\ awaiting[k] = {}
HeadMoves(r) ==
  /\ queue # <<>> /\ r = Head(queue)
  /\ phase = "recovering" => PassEnds(<<"start">>)

\* Nothing that shutdown waits for is a wait without a bound.
ShutdownGoesOn ==
  up /\ ShuttingDown =>
    /\ shutdown = "starts" /\ ahead > 0 =>
         PassTurns(<<"start">>) \/ \E r \in Request : HeadMoves(r)
    /\ shutdown = "recovering" => PassTurns(<<"shutdown">>) \/ PassEnds(<<"shutdown">>)

\* A pass waits for settled tasks only: each is tried again, or its release is over
\* within its bound.
LEMMA PassGoesOn ==
  ASSUME ServiceInv, NEW k \in Caller, k \in recovering
  PROVE  PassTurns(k) \/ PassEnds(k)
<1>1. ASSUME NEW r \in awaiting[k] PROVE exec[r] = "settled"
  BY DEF ServiceInv, Globally, Passes, Settled
<1> QED
  BY <1>1 DEF PassTurns, PassEnds

\* From its first step to its answer, shutdown never waits for a runner, a lease or a
\* person: what it waits for has a step the service can take by itself, or one that a
\* bound forces.  (Where it waits for starts to end or for its pass; its other waits
\* are themselves bounded.)
THEOREM ShutdownNeverStuck == Spec => []ShutdownGoesOn
<1>1. Init => Inside
  BY DEF Init, Inside
<1>2. ServiceInv /\ Inside => ShutdownGoesOn
  <2> SUFFICES ASSUME ServiceInv, Inside PROVE ShutdownGoesOn
    OBVIOUS
  <2>1. <<"start">> \in Caller /\ <<"shutdown">> \in Caller
    BY DEF Caller
  <2>2. ASSUME ahead > 0 PROVE queue # <<>> /\ Head(queue) \in Request
    <3>1. queue \in Seq(Request) /\ ahead <= Len(queue) /\ ahead \in Nat
      BY ServiceAssumption DEF ServiceInv, TypeOK, Globally, Starts
    <3> QED
      BY <3>1, <2>2
  <2>3. ASSUME ahead > 0
        PROVE  PassTurns(<<"start">>) \/ \E r \in Request : HeadMoves(r)
    <3>1. phase = "recovering" => PassTurns(<<"start">>) \/ PassEnds(<<"start">>)
      BY <2>1, PassGoesOn DEF Inside
    <3> QED
      BY <2>2, <2>3, <3>1 DEF HeadMoves
  <2>4. shutdown = "recovering" => PassTurns(<<"shutdown">>) \/ PassEnds(<<"shutdown">>)
    BY <2>1, PassGoesOn DEF Inside
  <2> QED
    BY <2>3, <2>4 DEF ShutdownGoesOn
<1>3. ServiceInv => TypeOK
  BY DEF ServiceInv
<1> QED
  BY <1>1, <1>2, <1>3, InsideKeeps, ServiceInvariant, PTL DEF Spec
-----------------------------------------------------------------------------
\* A request that a provider has run for is not started again, by a retry of the
\* request, a restart of the service or the retirement of its row, until the window of
\* the tombstone that the retirement leaves is over.
THEOREM RunsOnceHolds == Spec => RunsOnce
<1>1. ServiceInv => \A r \in ran : ~RunnerStarts(r)
  BY DEF ServiceInv, Locally, TypeOK, Task, RunnerStarts
<1> QED
  BY <1>1, ServiceInvariant, PTL DEF RunsOnce, Spec

=============================================================================
