----------------------------- MODULE HostProofs -----------------------------
(***************************************************************************)
(* Proofs about four mechanisms of the host: the queue in which the saves  *)
(* of a memory wait for their turn (MemorySaveDispatcher), for every set   *)
(* of calls, every choice of manual ones and of roots, and every length of *)
(* queue and burst; the transaction by which a save writes the document    *)
(* (MemoryDocument), for every set of files and of texts and any number of *)
(* transactions; the commands that it types for a person into a terminal   *)
(* of Orca (ContextCommand), for every set of hosts and requests and any   *)
(* number of restarts; and the submissions to the session of a workroom    *)
(* (WorkroomSubmissions), for every set of inputs, launches and texts.     *)
(***************************************************************************)
EXTENDS MemorySaveDispatcher, SequenceTheorems, FiniteSetTheorems, TLAPS

-----------------------------------------------------------------------------
(* The queue.                                                              *)

Elems(q) == {q[i] : i \in DOMAIN q}
Distinct(q) == \A i, k \in DOMAIN q : RootOf[q[i]] = RootOf[q[k]] => i = k

-----------------------------------------------------------------------------
(* Sequences.                                                              *)

\* What RemoveAt leaves of a sequence.
LEMMA RemoveAtSeq ==
    ASSUME NEW S, NEW s \in Seq(S), NEW i \in 1 .. Len(s)
    PROVE  /\ RemoveAt(s, i) \in Seq(S)
           /\ Len(RemoveAt(s, i)) = Len(s) - 1
           /\ \A k \in 1 .. Len(s) - 1 :
                 RemoveAt(s, i)[k] = IF k < i THEN s[k] ELSE s[k + 1]
<1> DEFINE a == SubSeq(s, 1, i - 1)
           b == SubSeq(s, i + 1, Len(s))
<1>0. Len(s) \in Nat /\ \A k \in 1 .. Len(s) : s[k] \in S
  BY LenProperties, ElementOfSeq
<1>1. /\ a \in Seq(S) /\ Len(a) = i - 1
      /\ \A k \in 1 .. i - 1 : a[k] = s[k]
  <2>1. \A k \in 1 .. i - 1 : s[k] \in S
    BY <1>0
  <2>2. /\ a \in Seq(S)
        /\ Len(a) = IF 1 <= i - 1 THEN (i - 1) - 1 + 1 ELSE 0
        /\ \A k \in 1 .. (i - 1) - 1 + 1 : a[k] = s[1 + k - 1]
    BY <2>1, <1>0, SubSeqProperties
  <2> QED BY <2>2, <1>0
<1>2. /\ b \in Seq(S) /\ Len(b) = Len(s) - i
      /\ \A k \in 1 .. Len(s) - i : b[k] = s[i + k]
  <2>1. \A k \in i + 1 .. Len(s) : s[k] \in S
    BY <1>0
  <2>2. /\ b \in Seq(S)
        /\ Len(b) = IF i + 1 <= Len(s) THEN Len(s) - (i + 1) + 1 ELSE 0
        /\ \A k \in 1 .. Len(s) - (i + 1) + 1 : b[k] = s[(i + 1) + k - 1]
    BY <2>1, <1>0, SubSeqProperties
  <2> QED BY <2>2, <1>0
<1>3. /\ a \o b \in Seq(S)
      /\ Len(a \o b) = Len(a) + Len(b)
      /\ \A k \in 1 .. Len(a) + Len(b) :
            (a \o b)[k] = IF k <= Len(a) THEN a[k] ELSE b[k - Len(a)]
  BY <1>1, <1>2, ConcatProperties
<1>4. RemoveAt(s, i) = a \o b
  BY DEF RemoveAt
<1> HIDE DEF a, b
<1>5. Len(a) + Len(b) = Len(s) - 1
  BY <1>0, <1>1, <1>2
<1>6. ASSUME NEW k \in 1 .. Len(s) - 1
      PROVE  (a \o b)[k] = IF k < i THEN s[k] ELSE s[k + 1]
  <2>1. CASE k < i
    <3>1. k <= Len(a) /\ k \in 1 .. i - 1
      BY <2>1, <1>0, <1>1
    <3> QED BY <3>1, <2>1, <1>1, <1>3, <1>5
  <2>2. CASE ~(k < i)
    <3>1. ~(k <= Len(a)) /\ k - Len(a) \in 1 .. Len(s) - i /\ i + (k - Len(a)) = k + 1
      BY <2>2, <1>0, <1>1
    <3> QED BY <3>1, <2>2, <1>2, <1>3, <1>5
  <2> QED BY <2>1, <2>2
<1> QED BY <1>3, <1>4, <1>5, <1>6

\* A call taken out of a queue of distinct roots is gone, and its root with it.
LEMMA RemoveAtQueue ==
    ASSUME NEW q \in Seq(Request), Distinct(q), NEW i \in DOMAIN q
    PROVE  /\ RemoveAt(q, i) \in Seq(Request)
           /\ Len(RemoveAt(q, i)) = Len(q) - 1
           /\ Distinct(RemoveAt(q, i))
           /\ Elems(RemoveAt(q, i)) = Elems(q) \ {q[i]}
           /\ \A k \in DOMAIN RemoveAt(q, i) : RootOf[RemoveAt(q, i)[k]] # RootOf[q[i]]
<1> DEFINE s == RemoveAt(q, i)
           From(k) == IF k < i THEN k ELSE k + 1
<1>0. DOMAIN q = 1 .. Len(q) /\ Len(q) \in Nat
  BY LenProperties
<1>1. /\ s \in Seq(Request) /\ Len(s) = Len(q) - 1
      /\ \A k \in 1 .. Len(q) - 1 : s[k] = IF k < i THEN q[k] ELSE q[k + 1]
  BY <1>0, RemoveAtSeq
<1> HIDE DEF s
<1>2. DOMAIN s = 1 .. Len(q) - 1
  BY <1>1, LenProperties
<1>3. \A k \in DOMAIN s : From(k) \in DOMAIN q /\ From(k) # i /\ s[k] = q[From(k)]
  BY <1>0, <1>1, <1>2
<1>4. \A k, m \in DOMAIN s : From(k) = From(m) => k = m
  BY <1>0, <1>2
<1>5. \A n \in DOMAIN q : n # i => \E k \in DOMAIN s : From(k) = n
  <2> TAKE n \in DOMAIN q
  <2>1. CASE n < i
    BY <2>1, <1>0, <1>2
  <2>2. CASE n > i
    <3>1. n - 1 \in DOMAIN s /\ From(n - 1) = n
      BY <2>2, <1>0, <1>2
    <3> QED BY <3>1
  <2> QED BY <2>1, <2>2, <1>0
<1> HIDE DEF From
<1>6. Distinct(s)
  BY <1>3, <1>4 DEF Distinct
<1>7. \A k \in DOMAIN s : RootOf[s[k]] # RootOf[q[i]]
  BY <1>3 DEF Distinct
<1>8. \A k \in DOMAIN s : s[k] # q[i]
  BY <1>7
<1>9. Elems(s) \subseteq Elems(q) \ {q[i]}
  BY <1>3, <1>8 DEF Elems
<1>10. Elems(q) \ {q[i]} \subseteq Elems(s)
  BY <1>3, <1>5 DEF Elems
<1> QED
  BY <1>1, <1>6, <1>7, <1>9, <1>10 DEF s

\* A call of a root that does not wait may join the queue.
LEMMA AppendQueue ==
    ASSUME NEW q \in Seq(Request), Distinct(q), NEW r \in Request,
           \A k \in DOMAIN q : RootOf[q[k]] # RootOf[r]
    PROVE  /\ Append(q, r) \in Seq(Request)
           /\ Len(Append(q, r)) = Len(q) + 1
           /\ Distinct(Append(q, r))
           /\ Elems(Append(q, r)) = Elems(q) \cup {r}
<1> DEFINE s == Append(q, r)
<1>0. DOMAIN q = 1 .. Len(q) /\ Len(q) \in Nat
  BY LenProperties
<1>1. /\ s \in Seq(Request) /\ Len(s) = Len(q) + 1
      /\ \A k \in 1 .. Len(q) : s[k] = q[k]
      /\ s[Len(q) + 1] = r
  BY <1>0, AppendProperties
<1> HIDE DEF s
<1>2. DOMAIN s = 1 .. Len(q) + 1
  BY <1>1, LenProperties
<1>3. \A k \in DOMAIN s : k \in DOMAIN q \/ k = Len(q) + 1
  BY <1>0, <1>2
<1>4. DOMAIN q \subseteq DOMAIN s /\ Len(q) + 1 \in DOMAIN s /\ Len(q) + 1 \notin DOMAIN q
  BY <1>0, <1>2
<1>5. Distinct(s)
  BY <1>0, <1>1, <1>3 DEF Distinct
<1>6. Elems(s) = Elems(q) \cup {r}
  BY <1>0, <1>1, <1>3, <1>4 DEF Elems
<1> QED
  BY <1>1, <1>5, <1>6 DEF s

\* First finds an index in any set of them: of the intervals that end in the set, one
\* has no other below it.
LEMMA FirstIn ==
    ASSUME NEW I \in SUBSET Nat, I # {}
    PROVE  First(I) \in I
<1> DEFINE T == {0 .. i : i \in I}
<1>1. T \subseteq FiniteSubsetsOf(Nat) /\ T # {}
  <2>1. \A i \in I : IsFiniteSet(0 .. i) /\ 0 .. i \subseteq Nat
    BY FS_Interval
  <2> QED BY <2>1 DEF FiniteSubsetsOf
<1>2. \E x \in T : \A y \in T : <<y, x>> \notin StrictSubsetOrdering(Nat)
  <2> HIDE DEF T
  <2>1. IsWellFoundedOn(StrictSubsetOrdering(Nat), FiniteSubsetsOf(Nat))
    BY FS_StrictSubsetOrderingWellFounded
  <2> QED BY <1>1, <2>1, WFMin, Zenon
<1>3. \E i \in I : \A k \in I : <<0 .. k, 0 .. i>> \notin StrictSubsetOrdering(Nat)
  BY <1>2
<1>4. ASSUME NEW i \in I, NEW k \in I, <<0 .. k, 0 .. i>> \notin StrictSubsetOrdering(Nat)
      PROVE  i <= k
  <2>1. ASSUME k < i PROVE FALSE
    <3>1. 0 .. k \subseteq 0 .. i /\ i \in 0 .. i /\ i \notin 0 .. k
      BY <2>1
    <3>2. 0 .. k \in SUBSET Nat /\ 0 .. i \in SUBSET Nat /\ 0 .. k # 0 .. i
      BY <3>1
    <3>3. <<0 .. k, 0 .. i>> \in StrictSubsetOrdering(Nat)
      BY <3>1, <3>2 DEF StrictSubsetOrdering
    <3> QED BY <3>3, <1>4
  <2> QED BY <2>1
<1>5. \E i \in I : \A k \in I : i <= k
  BY <1>3, <1>4
<1> QED BY <1>5 DEF First

-----------------------------------------------------------------------------
(* The pump.                                                               *)

\* The pump chooses an index of the queue, and a manual save only while it may.
LEMMA ChoiceIn ==
    ASSUME NEW q \in Seq(Request), q # <<>>
    PROVE  /\ Choice(q) \in DOMAIN q
           /\ Others(q) # {} /\ burst >= MaxBurst => q[Choice(q)] \notin Manual
<1>1. DOMAIN q = 1 .. Len(q) /\ Len(q) \in Nat /\ Len(q) # 0
  BY LenProperties, EmptySeq
<1>2. Others(q) \in SUBSET Nat /\ Manuals(q) \in SUBSET Nat
  BY <1>1 DEF Others, Manuals
<1>3. Others(q) # {} => First(Others(q)) \in Others(q)
  BY <1>2, FirstIn
<1>4. Manuals(q) # {} => First(Manuals(q)) \in Manuals(q)
  BY <1>2, FirstIn
<1>5. CASE Others(q) # {} /\ burst >= MaxBurst
  <2>1. Choice(q) \in Others(q)
    BY <1>3, <1>5 DEF Choice
  <2> QED BY <2>1 DEF Others
<1>6. CASE ~(Others(q) # {} /\ burst >= MaxBurst)
  <2>1. CASE Manuals(q) # {}
    <3>1. Choice(q) \in Manuals(q)
      BY <1>4, <1>6, <2>1 DEF Choice
    <3> QED BY <3>1, <1>6 DEF Manuals
  <2>2. CASE Manuals(q) = {}
    <3>1. Choice(q) = 1
      BY <1>6, <2>2 DEF Choice
    <3> QED BY <3>1, <1>1, <1>6
  <2> QED BY <2>1, <2>2
<1> QED BY <1>5, <1>6

\* What a queue and the active job have in common with the promises.
Shape(q, a) ==
    /\ q \in Seq(Request) /\ Distinct(q)
    /\ a \in Request \cup {None}
    /\ a # None => \A k \in DOMAIN q : RootOf[q[k]] # RootOf[a]

Held(q, a) == Elems(q) \cup ({a} \ {None})

\* The pump moves calls from the queue to the slot and loses none; it keeps the count
\* of manual saves in a row within the burst.
LEMMA PumpFacts ==
    ASSUME NEW q, NEW free \in BOOLEAN,
           Shape(q, IF free THEN None ELSE active), free \/ active # None,
           burst \in 0 .. MaxBurst, row \in Nat, row <= burst, aborted \in BOOLEAN,
           Pump(q, free)
    PROVE  /\ Shape(queue', active')
           /\ Len(queue') <= Len(q)
           /\ Held(queue', active') = Held(q, IF free THEN None ELSE active)
           /\ Elems(queue') \subseteq Elems(q)
           /\ ~free => active' = active
           /\ stopped => queue' = q
           /\ active' = None => stopped \/ queue' = <<>>
           /\ burst' \in 0 .. MaxBurst /\ row' \in Nat /\ row' <= burst' /\ aborted' \in BOOLEAN
<1> USE DispatcherAssumption
<1>0. q \in Seq(Request) /\ Distinct(q) /\ Len(q) \in Nat
  BY LenProperties DEF Shape
<1>1. CASE free /\ ~stopped /\ q # <<>>
  <2> DEFINE c == Choice(q)
             job == q[c]
  <2>1. c \in DOMAIN q /\ (Others(q) # {} /\ burst >= MaxBurst => job \notin Manual)
    BY <1>0, <1>1, ChoiceIn
  <2>2. /\ queue' = RemoveAt(q, c) /\ active' = job /\ aborted' = FALSE
        /\ burst' = IF job \in Manual THEN IF burst < MaxBurst THEN burst + 1 ELSE MaxBurst ELSE 0
        /\ row' = IF job \in Manual /\ Others(q) # {} THEN row + 1 ELSE 0
    BY <1>1 DEF Pump, Take
  <2> HIDE DEF c
  <2>3. job \in Request /\ job \in Elems(q)
    BY <1>0, <2>1, ElementOfSeq, LenProperties DEF Elems
  <2>4. /\ queue' \in Seq(Request) /\ Len(queue') = Len(q) - 1 /\ Distinct(queue')
        /\ Elems(queue') = Elems(q) \ {job}
        /\ \A k \in DOMAIN queue' : RootOf[queue'[k]] # RootOf[job]
    BY <1>0, <2>1, <2>2, RemoveAtQueue
  <2> HIDE DEF job
  <2>5. Shape(queue', active')
    BY <2>2, <2>3, <2>4 DEF Shape
  <2>6. Held(queue', active') = Held(q, None)
    BY <2>2, <2>3, <2>4 DEF Held
  <2>7. burst' \in 0 .. MaxBurst /\ row' \in Nat /\ row' <= burst'
    BY <2>1, <2>2 DEF job
  <2>8. active' # None
    BY <2>2, <2>3
  <2>9. (IF free THEN None ELSE active) = None
    BY <1>1
  <2>10. Len(queue') <= Len(q)
    BY <1>0, <2>4
  <2>11. Elems(queue') \subseteq Elems(q)
    BY <2>4
  <2>12. aborted' \in BOOLEAN
    BY <2>2
  <2> QED BY ONLY <1>1, <2>5, <2>6, <2>7, <2>8, <2>9, <2>10, <2>11, <2>12
<1>2. CASE ~(free /\ ~stopped /\ q # <<>>)
  <2>1. /\ queue' = q /\ active' = IF free THEN None ELSE active
        /\ UNCHANGED <<aborted, burst, row>>
    BY <1>2 DEF Pump
  <2>2. active' = None => stopped \/ queue' = <<>>
    BY <1>2, <2>1
  <2> QED BY <1>0, <2>1, <2>2
<1> QED BY <1>1, <1>2

-----------------------------------------------------------------------------
(* The invariant.                                                          *)

\* QueueInv, said of the queue and the slot through Shape and Held.
Promises(A, rts, ans) ==
    /\ rts = {RootOf[r] : r \in A}
    /\ \A r \in Request : ans[r] = "pending" <=> r \in A

Scalars ==
    /\ burst \in 0 .. MaxBurst /\ row \in Nat /\ row <= burst
    /\ {aborted, stopped, returned} \subseteq BOOLEAN

History ==
    /\ answer \in [Request -> {"absent", "pending", "done", "failed"} \cup NotStarted]
    /\ running \subseteq called /\ called \subseteq Request
    /\ running \subseteq {active}
    /\ called \cap Elems(queue) = {}
    /\ \A r \in called : answer[r] \notin NotStarted \cup {"absent"}

Ends ==
    /\ active = None => stopped \/ queue = <<>>
    /\ stopped => queue = <<>>
    /\ returned => stopped /\ active = None

Parts ==
    /\ Shape(queue, active) /\ Len(queue) <= MaxPending
    /\ Promises(Held(queue, active), roots, answer)
    /\ Scalars /\ History /\ Ends

\* The invariant is the sum of its parts.
LEMMA QueueInvIsParts == QueueInv <=> Parts
<1>1. Waiting = Elems(queue) /\ Accepted = Held(queue, active)
  BY DEF Waiting, Accepted, Elems, Held
<1>2. ASSUME QueueInv PROVE Parts
  <2> USE <1>2 DEF QueueInv, QueueDiscipline
  <2>1. Shape(queue, active) /\ Len(queue) <= MaxPending
    BY DEF Shape, Distinct, TypeOK, OnePlace
  <2>2. Promises(Held(queue, active), roots, answer)
    BY <1>1 DEF Promises, TypeOK, OnePlace
  <2>3. Scalars
    BY DEF Scalars, TypeOK, RunsInTurn
  <2>4. History
    BY <1>1 DEF History, TypeOK, OneRuns, NotStartedIsTrue, RunsInTurn
  <2>5. Ends
    BY DEF Ends, RunsInTurn
  <2> QED BY <2>1, <2>2, <2>3, <2>4, <2>5 DEF Parts
<1>3. ASSUME Parts PROVE QueueInv
  <2> USE <1>3 DEF Parts
  <2>1. TypeOK
    BY <1>1 DEF TypeOK, Shape, Promises, Scalars, History
  <2>2. OneRuns /\ NotStartedIsTrue
    BY DEF OneRuns, NotStartedIsTrue, History
  <2>3. BackgroundTurn
    BY DispatcherAssumption DEF BackgroundTurn, Scalars
  <2>4. QuietAfterShutdown
    <3> SUFFICES ASSUME returned PROVE running = {} /\ \A r \in Request : answer[r] # "pending"
      BY DEF QuietAfterShutdown
    <3>1. queue = <<>> /\ active = None
      BY DEF Ends
    <3>2. running = {}
      BY <3>1, DispatcherAssumption DEF History
    <3>3. Held(queue, active) = {}
      BY <3>1 DEF Held, Elems
    <3> QED BY <3>2, <3>3 DEF Promises
  <2>5. OnePlace
    BY <1>1 DEF OnePlace, Shape, Distinct, Promises
  <2>6. RunsInTurn
    BY <1>1 DEF RunsInTurn, History, Ends, Scalars
  <2> QED BY <2>1, <2>2, <2>3, <2>4, <2>5, <2>6 DEF QueueInv, QueueDiscipline
<1> QED BY <1>2, <1>3

\* The roots of the calls that are held tell them apart.
LEMMA HeldApart ==
    ASSUME NEW q, NEW a, Shape(q, a)
    PROVE  \A r, s \in Held(q, a) : RootOf[r] = RootOf[s] => r = s
BY DEF Held, Elems, Shape, Distinct

LEMMA ElemsOfNone == Elems(<<>>) = {}
BY DEF Elems

\* The initial state has every part.
LEMMA InitParts == Init => Parts
<1> SUFFICES ASSUME Init PROVE Parts
  OBVIOUS
<1> USE DispatcherAssumption DEF Init
<1>1. queue \in Seq(Request) /\ Len(queue) = 0 /\ DOMAIN queue = {} /\ Elems(queue) = {}
  BY EmptySeq DEF Elems
<1>2. Shape(queue, active) /\ Len(queue) <= MaxPending /\ Held(queue, active) = {}
  BY <1>1 DEF Shape, Distinct, Held
<1>3. Promises(Held(queue, active), roots, answer)
  BY <1>2 DEF Promises
<1>4. Scalars
  <2>1. burst \in 0 .. MaxBurst /\ row \in Nat /\ row <= burst
    OBVIOUS
  <2>2. {aborted, stopped, returned} \subseteq BOOLEAN
    BY Zenon
  <2> QED BY <2>1, <2>2 DEF Scalars
<1>5. History
  BY <1>1 DEF History
<1>6. Ends
  BY DEF Ends
<1> QED BY <1>2, <1>3, <1>4, <1>5, <1>6 DEF Parts

\* A step that moves no call between the queue, the slot and the outside.
LEMMA NoMove ==
    ASSUME Parts, UNCHANGED <<queue, roots, active>>, Scalars', History', Ends',
           \A r \in Request : answer'[r] = "pending" <=> answer[r] = "pending"
    PROVE  Parts'
BY DEF Parts, Shape, Held, Elems, Distinct, Promises

\* A call turned away touches nothing but its own answer.
LEMMA RefuseKeeps ==
    ASSUME Parts, NEW r \in Request, Refuse(r)
    PROVE  Parts'
<1> USE DEF Refuse
<1>1. PICK a \in NotStarted : answer' = [answer EXCEPT ![r] = a]
  BY DEF NotStarted
<1>2. answer[r] = "absent" /\ r \notin called
  BY DEF Parts, History
<1>3. Scalars' /\ Ends'
  BY DEF Parts, Scalars, Ends
<1>4. History'
  BY <1>1, <1>2 DEF Parts, History, Elems, NotStarted
<1>5. \A x \in Request : answer'[x] = "pending" <=> answer[x] = "pending"
  BY <1>1, <1>2 DEF Parts, History, NotStarted
<1> QED BY <1>3, <1>4, <1>5, NoMove

\* A call that is taken joins the queue, or the slot when it is free.
LEMMA ScheduleKeeps ==
    ASSUME Parts, NEW r \in Request, Schedule(r)
    PROVE  Parts'
<1> DEFINE q == Append(queue, r)
           free == active = None
           a == IF free THEN None ELSE active
<1> USE DispatcherAssumption
<1>1. a = active
  OBVIOUS
<1>2. /\ answer[r] = "absent" /\ ~stopped /\ RootOf[r] \notin roots /\ Len(queue) < MaxPending
      /\ answer' = [answer EXCEPT ![r] = "pending"]
      /\ roots' = roots \cup {RootOf[r]}
      /\ Pump(q, free)
      /\ UNCHANGED <<stopped, running, called, returned>>
  BY DEF Schedule
<1>3. Shape(queue, active) /\ Promises(Held(queue, active), roots, answer)
  BY DEF Parts
<1>4. \A x \in Held(queue, active) : RootOf[x] # RootOf[r]
  BY <1>2, <1>3 DEF Promises
<1>5. /\ q \in Seq(Request) /\ Len(q) = Len(queue) + 1 /\ Distinct(q)
      /\ Elems(q) = Elems(queue) \cup {r}
  <2>1. \A k \in DOMAIN queue : RootOf[queue[k]] # RootOf[r]
    BY <1>4 DEF Held, Elems
  <2> QED BY <1>3, <2>1, AppendQueue DEF Shape
<1> HIDE DEF q
<1>6. Shape(q, active)
  <2>1. \A k \in DOMAIN q : q[k] \in Elems(queue) \cup {r}
    BY <1>5 DEF Elems
  <2>2. ASSUME active # None, NEW k \in DOMAIN q PROVE RootOf[q[k]] # RootOf[active]
    <3>1. active \in Held(queue, active)
      BY <2>2 DEF Held
    <3>2. CASE q[k] = r
      BY <3>1, <3>2, <1>4
    <3>3. CASE q[k] \in Elems(queue)
      BY <3>3, <2>2, <1>3 DEF Shape, Elems
    <3> QED BY <2>1, <3>2, <3>3
  <2> QED BY <1>3, <1>5, <2>2 DEF Shape
<1>7. /\ Shape(queue', active')
      /\ Len(queue') <= Len(q)
      /\ Held(queue', active') = Held(q, active)
      /\ Elems(queue') \subseteq Elems(q)
      /\ ~free => active' = active
      /\ active' = None => stopped \/ queue' = <<>>
      /\ burst' \in 0 .. MaxBurst /\ row' \in Nat /\ row' <= burst' /\ aborted' \in BOOLEAN
  <2>1. burst \in 0 .. MaxBurst /\ row \in Nat /\ row <= burst /\ aborted \in BOOLEAN
    BY DEF Parts, Scalars
  <2>2. Shape(q, a) /\ free \in BOOLEAN /\ (free \/ active # None)
    BY <1>1, <1>6
  <2> HIDE DEF free
  <2>3. Pump(q, free)
    BY <1>2
  <2>4. Held(q, a) = Held(q, active)
    BY <1>1
  <2> QED BY <2>1, <2>2, <2>3, <2>4, PumpFacts
<1>8. Len(queue') <= MaxPending
  <2>1. Len(queue) \in Nat /\ Len(queue') \in Nat
    BY <1>3, <1>7, LenProperties DEF Shape
  <2> QED BY <1>2, <1>5, <1>7, <2>1
<1>9. Held(queue', active') = Held(queue, active) \cup {r}
  BY <1>5, <1>7 DEF Held
<1>10. Promises(Held(queue', active'), roots', answer')
  <2>1. roots' = {RootOf[x] : x \in Held(queue, active) \cup {r}}
    BY <1>2, <1>3 DEF Promises
  <2>2. \A x \in Request : answer'[x] = "pending" <=> x \in Held(queue, active) \cup {r}
    BY <1>2, <1>3 DEF Promises, Parts, History
  <2> QED BY <2>1, <2>2, <1>9 DEF Promises
<1>11. Scalars'
  BY <1>2, <1>7 DEF Scalars, Parts
<1>12. History'
  <2>1. running \subseteq {active'}
    <3>1. CASE free
      BY <3>1, <1>2 DEF Parts, History
    <3>2. CASE ~free
      BY <3>2, <1>7 DEF Parts, History
    <3> QED BY <3>1, <3>2
  <2>2. r \notin called
    BY <1>2 DEF Parts, History
  <2>3. called \cap Elems(queue') = {}
    BY <1>5, <1>7, <2>2 DEF Parts, History
  <2> QED BY <1>2, <2>1, <2>2, <2>3 DEF Parts, History, NotStarted
<1>13. Ends'
  BY <1>2, <1>7 DEF Parts, Ends
<1> QED BY <1>7, <1>8, <1>10, <1>11, <1>12, <1>13 DEF Parts

\* The end of a wait takes the call out of the queue and its root with it.
LEMMA EndWaitKeeps ==
    ASSUME Parts, NEW r \in Request, EndWait(r)
    PROVE  Parts'
<1>1. PICK i \in DOMAIN queue : queue[i] = r /\ queue' = RemoveAt(queue, i)
  BY DEF EndWait
<1>2. PICK code \in {"busy", "cancelled"} : answer' = [answer EXCEPT ![r] = code]
  BY DEF EndWait
<1>3. /\ roots' = roots \ {RootOf[r]}
      /\ UNCHANGED <<active, aborted, stopped, burst, running, called, row, returned>>
  BY DEF EndWait
<1>4. /\ Shape(queue, active) /\ Promises(Held(queue, active), roots, answer)
      /\ Len(queue) <= MaxPending /\ Len(queue) \in Nat
  BY LenProperties DEF Parts, Shape
<1>5. /\ queue' \in Seq(Request) /\ Len(queue') = Len(queue) - 1 /\ Distinct(queue')
      /\ Elems(queue') = Elems(queue) \ {r}
  BY <1>1, <1>4, RemoveAtQueue DEF Shape
<1>6. r \in Elems(queue) /\ r # active /\ r \notin called
  BY <1>1, <1>4, DispatcherAssumption DEF Elems, Shape, Parts, History
<1>7. Shape(queue', active')
  <2>1. \A k \in DOMAIN queue' : queue'[k] \in Elems(queue)
    BY <1>5 DEF Elems
  <2>2. active # None => \A x \in Elems(queue) : RootOf[x] # RootOf[active]
    BY <1>4 DEF Shape, Elems
  <2> QED BY <1>3, <1>4, <1>5, <2>1, <2>2 DEF Shape
<1>8. Held(queue', active') = Held(queue, active) \ {r}
  BY <1>3, <1>5, <1>6 DEF Held
<1>9. Promises(Held(queue', active'), roots', answer')
  <2>1. \A x, y \in Held(queue, active) : RootOf[x] = RootOf[y] => x = y
    BY <1>4, HeldApart
  <2>2. r \in Held(queue, active)
    BY <1>6 DEF Held
  <2>3. roots' = {RootOf[x] : x \in Held(queue, active) \ {r}}
    BY <1>3, <1>4, <2>1, <2>2 DEF Promises
  <2>4. \A x \in Request : answer'[x] = "pending" <=> x \in Held(queue, active) \ {r}
    BY <1>2, <1>4 DEF Promises, Parts, History
  <2> QED BY <1>8, <2>3, <2>4 DEF Promises
<1>10. Len(queue') <= MaxPending
  BY <1>4, <1>5, DispatcherAssumption
<1>11. Scalars'
  BY <1>3 DEF Parts, Scalars
<1>12. History'
  <2>1. answer' \in [Request -> {"absent", "pending", "done", "failed"} \cup NotStarted]
    BY <1>2 DEF Parts, History, NotStarted
  <2>2. \A x \in called : answer'[x] = answer[x]
    BY <1>2, <1>6 DEF Parts, History
  <2> QED BY <1>3, <1>5, <2>1, <2>2 DEF Parts, History
<1>13. Ends'
  <2>1. queue # <<>>
    BY <1>6, ElemsOfNone
  <2> QED BY <1>3, <2>1 DEF Parts, Ends
<1> QED BY <1>7, <1>9, <1>10, <1>11, <1>12, <1>13 DEF Parts

\* The call of run moves nothing and gives no answer.
LEMMA RunKeeps ==
    ASSUME Parts, Run
    PROVE  Parts'
<1> USE DEF Run
<1>1. active \in Held(queue, active) /\ active \in Request
  BY DEF Held, Parts, Shape
<1>2. answer[active] = "pending"
  BY <1>1 DEF Parts, Promises
<1>3. active \notin Elems(queue)
  BY DEF Parts, Shape, Elems
<1>4. Scalars' /\ Ends'
  BY DEF Parts, Scalars, Ends
<1>5. History'
  BY <1>1, <1>2, <1>3 DEF Parts, History, NotStarted, Elems
<1> QED BY <1>4, <1>5, NoMove

\* The end of the active job hands the slot on.
LEMMA FinishKeeps ==
    ASSUME Parts, NEW a \in {"done", "failed", "stopped"}, Finish(a),
           active # None, active \in called => a # "stopped",
           running' = running \ {active}
    PROVE  Parts'
<1> USE DispatcherAssumption
<1>1. /\ roots' = roots \ {RootOf[active]}
      /\ answer' = [answer EXCEPT ![active] = a]
      /\ Pump(queue, TRUE)
      /\ UNCHANGED <<stopped, called, returned>>
  BY DEF Finish
<1>2. /\ Shape(queue, active) /\ Promises(Held(queue, active), roots, answer)
      /\ Len(queue) <= MaxPending /\ Len(queue) \in Nat
  BY LenProperties DEF Parts, Shape
<1>3. Shape(queue, None) /\ active \notin Elems(queue) /\ active \in Request
  BY <1>2 DEF Shape, Elems
<1>4. /\ Shape(queue', active')
      /\ Len(queue') <= Len(queue)
      /\ Held(queue', active') = Held(queue, None)
      /\ Elems(queue') \subseteq Elems(queue)
      /\ stopped => queue' = queue
      /\ active' = None => stopped \/ queue' = <<>>
      /\ burst' \in 0 .. MaxBurst /\ row' \in Nat /\ row' <= burst' /\ aborted' \in BOOLEAN
  <2>1. burst \in 0 .. MaxBurst /\ row \in Nat /\ row <= burst /\ aborted \in BOOLEAN
    BY DEF Parts, Scalars
  <2>2. Pump(queue, TRUE)
    BY <1>1
  <2> QED BY <1>3, <2>1, <2>2, PumpFacts
<1>5. Held(queue', active') = Held(queue, active) \ {active}
  BY <1>3, <1>4 DEF Held
<1>6. Promises(Held(queue', active'), roots', answer')
  <2>1. \A x, y \in Held(queue, active) : RootOf[x] = RootOf[y] => x = y
    BY <1>2, HeldApart
  <2>2. active \in Held(queue, active)
    BY DEF Held
  <2>3. roots' = {RootOf[x] : x \in Held(queue, active) \ {active}}
    BY <1>1, <1>2, <2>1, <2>2 DEF Promises
  <2>4. \A x \in Request : answer'[x] = "pending" <=> x \in Held(queue, active) \ {active}
    BY <1>1, <1>2, <1>3 DEF Promises, Parts, History
  <2> QED BY <1>5, <2>3, <2>4 DEF Promises
<1>7. Len(queue') <= MaxPending
  <2>1. Len(queue') \in Nat
    BY <1>4, LenProperties DEF Shape
  <2> QED BY <1>2, <1>4, <2>1
<1>8. Scalars'
  BY <1>1, <1>4 DEF Parts, Scalars
<1>9. History'
  <2>1. answer' \in [Request -> {"absent", "pending", "done", "failed"} \cup NotStarted]
    BY <1>1 DEF Parts, History, NotStarted
  <2>2. \A x \in called : answer'[x] \notin NotStarted \cup {"absent"}
    BY <1>1, <1>3 DEF Parts, History, NotStarted
  <2>3. running' = {}
    BY DEF Parts, History
  <2> QED BY <1>1, <1>4, <2>1, <2>2, <2>3 DEF Parts, History
<1>10. Ends'
  BY <1>1, <1>4 DEF Parts, Ends
<1> QED BY <1>4, <1>6, <1>7, <1>8, <1>9, <1>10 DEF Parts

\* The two ways a job ends.
LEMMA SkipKeeps ==
    ASSUME Parts, Skip
    PROVE  Parts'
<1>1. running' = running \ {active}
  BY DEF Skip, Parts, History
<1> QED BY <1>1, FinishKeeps DEF Skip

LEMMA SettleKeeps ==
    ASSUME Parts, Settle
    PROVE  Parts'
<1>1. PICK a \in {"done", "failed"} : Finish(a)
  BY DEF Settle
<1>2. active # None
  BY DispatcherAssumption DEF Settle, Parts, History
<1> QED BY <1>1, <1>2, FinishKeeps DEF Settle

\* A shutdown answers every wait and empties the queue.
LEMMA ShutdownKeeps ==
    ASSUME Parts, Shutdown
    PROVE  Parts'
<1> USE DispatcherAssumption
<1>1. /\ stopped' = TRUE
      /\ answer' = [r \in Request |-> IF r \in Elems(queue) THEN "stopped" ELSE answer[r]]
      /\ roots' = roots \ {RootOf[r] : r \in Elems(queue)}
      /\ queue' = <<>>
      /\ aborted' = (active # None)
      /\ UNCHANGED <<active, burst, running, called, row, returned>>
  BY DEF Shutdown, Waiting, Elems
<1>2. /\ Shape(queue, active) /\ Promises(Held(queue, active), roots, answer)
  BY DEF Parts
<1>3. queue' \in Seq(Request) /\ Len(queue') = 0 /\ DOMAIN queue' = {} /\ Elems(queue') = {}
  BY <1>1, EmptySeq, ElemsOfNone
<1>4. Shape(queue', active') /\ Len(queue') <= MaxPending
  BY <1>1, <1>2, <1>3 DEF Shape, Distinct
<1>5. Held(queue', active') = Held(queue, active) \ Elems(queue)
  BY <1>1, <1>2, <1>3 DEF Held, Shape, Elems
<1>6. Promises(Held(queue', active'), roots', answer')
  <2>1. \A x, y \in Held(queue, active) : RootOf[x] = RootOf[y] => x = y
    BY <1>2, HeldApart
  <2>2. Elems(queue) \subseteq Held(queue, active)
    BY DEF Held
  <2>3. roots' = {RootOf[x] : x \in Held(queue, active) \ Elems(queue)}
    BY <1>1, <1>2, <2>1, <2>2 DEF Promises
  <2>4. \A x \in Request : answer'[x] = "pending" <=> x \in Held(queue, active) \ Elems(queue)
    BY <1>1, <1>2 DEF Promises
  <2> QED BY <1>5, <2>3, <2>4 DEF Promises
<1>7. Scalars'
  <2>1. (active # None) \in BOOLEAN
    OBVIOUS
  <2> QED BY <1>1, <2>1 DEF Parts, Scalars
<1>8. History'
  <2>1. answer' \in [Request -> {"absent", "pending", "done", "failed"} \cup NotStarted]
    BY <1>1 DEF Parts, History, NotStarted
  <2>2. \A x \in called : answer'[x] = answer[x]
    BY <1>1 DEF Parts, History
  <2> QED BY <1>1, <1>3, <2>1, <2>2 DEF Parts, History
<1>9. Ends'
  BY <1>1 DEF Parts, Ends
<1> QED BY <1>4, <1>6, <1>7, <1>8, <1>9 DEF Parts

\* Every step keeps the invariant.
LEMMA NextKeeps == QueueInv /\ [Next]_vars => QueueInv'
<1> SUFFICES ASSUME Parts, [Next]_vars PROVE Parts'
  <2>1. QueueInv' <=> Parts'
    BY QueueInvIsParts, PTL
  <2> QED BY <2>1, QueueInvIsParts
<1>1. ASSUME NEW r \in Request, Refuse(r) PROVE Parts'
  BY <1>1, RefuseKeeps
<1>2. ASSUME NEW r \in Request, Schedule(r) PROVE Parts'
  BY <1>2, ScheduleKeeps
<1>3. ASSUME NEW r \in Request, EndWait(r) PROVE Parts'
  BY <1>3, EndWaitKeeps
<1>4. CASE Run
  BY <1>4, RunKeeps
<1>5. CASE Skip
  BY <1>5, SkipKeeps
<1>6. CASE Settle
  BY <1>6, SettleKeeps
<1>7. CASE Shutdown
  BY <1>7, ShutdownKeeps
<1>8. CASE ShutdownReturns
  <2>1. Scalars' /\ History' /\ Ends'
    BY <1>8 DEF ShutdownReturns, Parts, Scalars, History, Ends, Elems
  <2> QED BY <1>8, <2>1, NoMove DEF ShutdownReturns
<1>9. CASE UNCHANGED vars
  <2>1. Scalars' /\ History' /\ Ends'
    BY <1>9 DEF vars, Parts, Scalars, History, Ends, Elems
  <2> QED BY <1>9, <2>1, NoMove DEF vars
<1> QED BY <1>1, <1>2, <1>3, <1>4, <1>5, <1>6, <1>7, <1>8, <1>9 DEF Next

\* The queue of every process keeps its discipline: one save runs, who is told that a
\* save was not started can rely on it, background saves get their turn, and a shutdown
\* that returned left nothing behind.
THEOREM QueueIsKept == Spec => []QueueDiscipline
<1>1. Init => QueueInv
  BY InitParts, QueueInvIsParts
<1>2. QueueInv => QueueDiscipline
  BY DEF QueueInv
<1> QED BY <1>1, <1>2, NextKeeps, PTL DEF Spec

-----------------------------------------------------------------------------
(* The document's transaction.  It has constants and variables of its own. *)

CONSTANTS File, Text, MaxPrepared

VARIABLES file, marker, plan, prepared, pc, work, todo, current, last, edited, raced

Document == INSTANCE MemoryDocument

\* What the proofs ask of the constants: None stands for no manifest.
DocumentConstants == MaxPrepared \in Nat /\ None \notin Document!Manifest

-----------------------------------------------------------------------------
(* The invariant.                                                          *)

\* Manifests that lie about are those of the one transaction under way.
OneTransaction ==
    /\ marker \in {None, last} /\ plan \in {None, last} /\ work \in {None, last}

\* Where the writer is tells what it holds.
WriterKnows ==
    /\ pc \in {"published", "writing", "applied"} => marker = work
    /\ current # None => pc = "writing"
    /\ current # None => file[current] = work.before[current] \/ current \in raced

\* How far the transaction came, as long as nobody else edits.
Progress ==
    edited = {} /\ last # None =>
        /\ pc = "writing" => \A f \in last.files \ todo : file[f] = last.after[f]
        /\ pc = "applied" => \A f \in last.files : file[f] = last.after[f]
        /\ marker = None => \/ \A f \in last.files : file[f] = last.after[f]
                            \/ \A f \in last.files : file[f] = last.before[f]

DocumentInv == Document!TypeOK /\ OneTransaction /\ WriterKnows /\ Progress

\* No reader without a marker finds a torn document.
LEMMA ProgressIsWhole == Progress => Document!NoTornDocument
BY DEF Progress, Document!NoTornDocument, Document!Applied, Document!Untouched

\* The invariant at the start, with no transaction.
LEMMA DocumentInit == ASSUME DocumentConstants PROVE Document!Init => DocumentInv
BY DEF DocumentConstants, Document!Init, DocumentInv, Document!TypeOK, OneTransaction,
       WriterKnows, Progress

\* A new transaction begins where the files are.
LEMMA PrepareKeeps ==
    ASSUME DocumentConstants, DocumentInv, Document!Prepare
    PROVE  DocumentInv'
<1> USE DEF DocumentInv
<1>1. PICK wanted \in [File -> Text], keep \in BOOLEAN :
          LET changed == {f \in File : wanted[f] # file[f]}
              manifest == [id |-> prepared + 1, files |-> changed, before |-> file, after |-> wanted]
          IN
          /\ changed # {}
          /\ work' = manifest /\ last' = manifest
          /\ plan' = IF keep THEN manifest ELSE None
  BY DEF Document!Prepare
<1> DEFINE changed == {f \in File : wanted[f] # file[f]}
           manifest == [id |-> prepared + 1, files |-> changed, before |-> file, after |-> wanted]
<1>2. /\ pc = "idle" /\ marker = None /\ plan = None
      /\ prepared < MaxPrepared /\ prepared' = prepared + 1
      /\ pc' = "prepared" /\ edited' = {} /\ raced' = {}
      /\ UNCHANGED <<file, marker, todo, current>>
  BY DEF Document!Prepare
<1>3. work' = manifest /\ last' = manifest /\ plan' \in {manifest, None} /\ changed # {}
  BY <1>1
<1>4. manifest \in Document!Manifest
  <2>1. prepared + 1 \in 1 .. MaxPrepared
    BY <1>2 DEF Document!TypeOK, DocumentConstants
  <2>2. changed \in (SUBSET File) \ {{}} /\ file \in [File -> Text]
    BY <1>3 DEF Document!TypeOK
  <2> QED BY <2>1, <2>2 DEF Document!Manifest
<1>5. manifest.before = file /\ manifest.files = changed /\ changed \subseteq File
  OBVIOUS
<1> HIDE DEF manifest, changed
<1>6. Document!TypeOK'
  <2>1. prepared' \in 0 .. MaxPrepared
    BY <1>2 DEF Document!TypeOK, DocumentConstants
  <2> QED BY <1>2, <1>3, <1>4, <2>1 DEF Document!TypeOK, DocumentConstants
<1>7. OneTransaction'
  BY <1>2, <1>3 DEF OneTransaction
<1>8. WriterKnows'
  BY <1>2 DEF WriterKnows
<1>9. Progress'
  BY <1>2, <1>3, <1>5 DEF Progress
<1> QED BY <1>6, <1>7, <1>8, <1>9

\* Steps that touch no file and leave the writer where it holds nothing.
LEMMA ResumeKeeps ==
    ASSUME DocumentConstants, DocumentInv, Document!Resume
    PROVE  DocumentInv'
<1> USE DEF DocumentInv, Document!Resume, Document!history
<1>1. Document!TypeOK'
  BY DEF Document!TypeOK, DocumentConstants
<1>2. OneTransaction' /\ WriterKnows'
  BY DEF OneTransaction, WriterKnows
<1>3. Progress'
  BY DEF Progress
<1> QED BY <1>1, <1>2, <1>3

\* Recovery takes the marker's manifest up, which is that of the last transaction.
LEMMA RecoverKeeps ==
    ASSUME DocumentConstants, DocumentInv, Document!Recover
    PROVE  DocumentInv'
<1> USE DEF DocumentInv, Document!Recover, Document!history
<1>1. Document!TypeOK'
  BY DEF Document!TypeOK, DocumentConstants
<1>2. OneTransaction' /\ WriterKnows'
  BY DEF OneTransaction, WriterKnows
<1>3. Progress'
  BY DEF Progress
<1> QED BY <1>1, <1>2, <1>3

LEMMA ScanKeeps ==
    ASSUME DocumentConstants, DocumentInv, Document!ScanPrepared
    PROVE  DocumentInv'
<1> USE DEF DocumentInv, Document!ScanPrepared, Document!history
<1>1. Document!TypeOK'
  BY DEF Document!TypeOK
<1>2. OneTransaction' /\ WriterKnows'
  BY DEF OneTransaction, WriterKnows
<1>3. Progress'
  BY DEF Progress
<1> QED BY <1>1, <1>2, <1>3

\* The marker is out before any file changes.
LEMMA PublishKeeps ==
    ASSUME DocumentConstants, DocumentInv, Document!Publish
    PROVE  DocumentInv'
<1> USE DEF DocumentInv, Document!Publish, Document!history
<1>1. Document!TypeOK' /\ work # None
  BY DEF Document!TypeOK
<1>2. OneTransaction' /\ WriterKnows'
  BY DEF OneTransaction, WriterKnows
<1>3. Progress'
  BY <1>1 DEF Progress
<1> QED BY <1>1, <1>2, <1>3

LEMMA BeginApplyKeeps ==
    ASSUME DocumentConstants, DocumentInv, Document!BeginApply
    PROVE  DocumentInv'
<1> USE DEF DocumentInv, Document!BeginApply, Document!history
<1>1. work # None /\ work = last /\ work \in Document!Manifest /\ work.files \subseteq File
  BY DEF Document!TypeOK, OneTransaction, Document!Manifest
<1>2. Document!TypeOK'
  BY <1>1 DEF Document!TypeOK, WriterKnows
<1>3. OneTransaction' /\ WriterKnows'
  BY DEF OneTransaction, WriterKnows
<1>4. Progress'
  BY <1>1 DEF Progress
<1> QED BY <1>2, <1>3, <1>4

LEMMA SkipAppliedKeeps ==
    ASSUME DocumentConstants, DocumentInv, NEW f \in File, Document!SkipApplied(f)
    PROVE  DocumentInv'
<1> USE DEF DocumentInv, Document!SkipApplied, Document!history
<1>1. work # None /\ work = last
  BY DEF Document!TypeOK, OneTransaction
<1>2. Document!TypeOK'
  BY DEF Document!TypeOK
<1>3. OneTransaction' /\ WriterKnows'
  BY DEF OneTransaction, WriterKnows
<1>4. Progress'
  BY <1>1 DEF Progress
<1> QED BY <1>2, <1>3, <1>4

\* A file in hand was found as the transaction recorded it.
LEMMA CheckFileKeeps ==
    ASSUME DocumentConstants, DocumentInv, NEW f \in File, Document!CheckFile(f)
    PROVE  DocumentInv'
<1> USE DEF DocumentInv, Document!CheckFile
<1>1. Document!TypeOK'
  BY DEF Document!TypeOK
<1>2. OneTransaction' /\ WriterKnows'
  BY DEF OneTransaction, WriterKnows
<1>3. Progress'
  BY DEF Progress
<1> QED BY <1>1, <1>2, <1>3

\* A rename happens under the marker, and takes its file off the list.
LEMMA ReplaceFileKeeps ==
    ASSUME DocumentConstants, DocumentInv, Document!ReplaceFile
    PROVE  DocumentInv'
<1> USE DEF DocumentInv, Document!ReplaceFile, Document!history
<1>1. /\ work # None /\ work = last /\ marker = work
      /\ work \in Document!Manifest /\ work.after \in [File -> Text] /\ current \in File
  BY DEF Document!TypeOK, OneTransaction, WriterKnows, Document!Manifest
<1>2. file' \in [File -> Text]
  BY <1>1 DEF Document!TypeOK
<1>3. Document!TypeOK'
  BY <1>1, <1>2 DEF Document!TypeOK
<1>4. OneTransaction' /\ WriterKnows'
  BY DEF OneTransaction, WriterKnows
<1>5. Progress'
  <2> SUFFICES ASSUME edited = {}, NEW f \in last.files \ todo'
               PROVE  file'[f] = last.after[f]
    BY <1>1 DEF Progress
  <2>1. f \in File
    BY <1>1 DEF Document!Manifest
  <2>2. CASE f = current
    BY <1>1, <2>1, <2>2 DEF Document!TypeOK
  <2>3. CASE f # current
    BY <1>1, <2>1, <2>3 DEF Document!TypeOK, Progress
  <2> QED BY <2>2, <2>3
<1> QED BY <1>3, <1>4, <1>5

LEMMA VerifyKeeps ==
    ASSUME DocumentConstants, DocumentInv, Document!VerifyApplied
    PROVE  DocumentInv'
<1> USE DEF DocumentInv, Document!VerifyApplied, Document!history
<1>1. work # None /\ work = last /\ marker = work
  BY DEF Document!TypeOK, OneTransaction, WriterKnows
<1>2. Document!TypeOK'
  BY DEF Document!TypeOK
<1>3. OneTransaction' /\ WriterKnows'
  BY DEF OneTransaction, WriterKnows
<1>4. Progress'
  BY <1>1 DEF Progress, Document!Applied
<1> QED BY <1>2, <1>3, <1>4

\* The marker goes when every file is new.
LEMMA ClearMarkerKeeps ==
    ASSUME DocumentConstants, DocumentInv, Document!ClearMarker
    PROVE  DocumentInv'
<1> USE DEF DocumentInv, Document!ClearMarker, Document!history
<1>1. Document!TypeOK'
  BY DEF Document!TypeOK
<1>2. OneTransaction' /\ WriterKnows'
  BY DEF OneTransaction, WriterKnows
<1>3. Progress'
  BY DEF Progress
<1> QED BY <1>1, <1>2, <1>3

LEMMA ReturnKeeps ==
    ASSUME DocumentConstants, DocumentInv, Document!Return
    PROVE  DocumentInv'
<1> USE DEF DocumentInv, Document!Return, Document!history
<1>1. Document!TypeOK'
  BY DEF Document!TypeOK
<1>2. OneTransaction' /\ WriterKnows'
  BY DEF OneTransaction, WriterKnows
<1>3. Progress'
  BY DEF Progress
<1> QED BY <1>1, <1>2, <1>3

\* A writer that stops leaves the marker to the next.
LEMMA StopKeeps ==
    ASSUME DocumentConstants, DocumentInv, Document!Stop
    PROVE  DocumentInv'
<1> USE DEF DocumentInv, Document!Stop, Document!history
<1>1. Document!TypeOK'
  BY DEF Document!TypeOK
<1>2. OneTransaction' /\ WriterKnows'
  BY DEF OneTransaction, WriterKnows
<1>3. Progress'
  BY DEF Progress
<1> QED BY <1>1, <1>2, <1>3

\* An edit of the file in hand is a race, and any edit ends what is said of progress.
LEMMA EditKeeps ==
    ASSUME DocumentConstants, DocumentInv, NEW f \in File, Document!Edit(f)
    PROVE  DocumentInv'
<1> USE DEF DocumentInv, Document!Edit, Document!writer
<1>1. PICK t \in Text : file' = [file EXCEPT ![f] = t]
  OBVIOUS
<1>2. Document!TypeOK'
  BY <1>1 DEF Document!TypeOK
<1>3. OneTransaction'
  BY DEF OneTransaction
<1>4. WriterKnows'
  BY <1>1 DEF WriterKnows, Document!TypeOK
<1>5. Progress'
  BY DEF Progress
<1> QED BY <1>2, <1>3, <1>4, <1>5

\* Every step keeps the invariant.
LEMMA DocumentNext ==
    ASSUME DocumentConstants
    PROVE  DocumentInv /\ [Document!Next]_(Document!vars) => DocumentInv'
<1> SUFFICES ASSUME DocumentInv, [Document!Next]_(Document!vars) PROVE DocumentInv'
  OBVIOUS
<1>1. CASE Document!Prepare
  BY <1>1, PrepareKeeps
<1>2. CASE Document!Resume
  BY <1>2, ResumeKeeps
<1>3. CASE Document!Recover
  BY <1>3, RecoverKeeps
<1>4. CASE Document!ScanPrepared
  BY <1>4, ScanKeeps
<1>5. CASE Document!Publish
  BY <1>5, PublishKeeps
<1>6. CASE Document!BeginApply
  BY <1>6, BeginApplyKeeps
<1>7. CASE Document!ReplaceFile
  BY <1>7, ReplaceFileKeeps
<1>8. CASE Document!VerifyApplied
  BY <1>8, VerifyKeeps
<1>9. CASE Document!ClearMarker
  BY <1>9, ClearMarkerKeeps
<1>10. CASE Document!Return
  BY <1>10, ReturnKeeps
<1>11. ASSUME NEW f \in File, Document!SkipApplied(f) PROVE DocumentInv'
  BY <1>11, SkipAppliedKeeps
<1>12. ASSUME NEW f \in File, Document!CheckFile(f) PROVE DocumentInv'
  BY <1>12, CheckFileKeeps
<1>13. CASE Document!Stop
  BY <1>13, StopKeeps
<1>14. ASSUME NEW f \in File, Document!Edit(f) PROVE DocumentInv'
  BY <1>14, EditKeeps
<1>15. CASE UNCHANGED Document!vars
  BY <1>15 DEF Document!vars, DocumentInv, Document!TypeOK, OneTransaction, WriterKnows, Progress
<1> QED
  BY <1>1, <1>2, <1>3, <1>4, <1>5, <1>6, <1>7, <1>8, <1>9, <1>10, <1>11, <1>12, <1>13,
     <1>14, <1>15 DEF Document!Next, Document!Step

\* A rename overwrites what the transaction recorded, unless it lost a race.
LEMMA RenameKnows ==
    ASSUME DocumentInv, Document!ReplaceFile, file[current] # work.before[current]
    PROVE  current \in raced
BY DEF DocumentInv, WriterKnows, Document!ReplaceFile

-----------------------------------------------------------------------------
(* The theorems.                                                           *)

\* No half of a transaction is ever taken for a document, and no edit is overwritten
\* but in the moment between the look at its file and the rename.
THEOREM DocumentIsKept ==
    ASSUME DocumentConstants
    PROVE  Document!Spec => Document!DocumentKept
<1>1. Document!Init => DocumentInv
  BY DocumentInit
<1>2. DocumentInv /\ [Document!Next]_(Document!vars) => DocumentInv'
  BY DocumentNext
<1>3. DocumentInv => Document!TypeOK /\ Document!NoTornDocument
  BY ProgressIsWhole DEF DocumentInv
<1>4. DocumentInv /\ [Document!Next]_(Document!vars) =>
         [Document!ReplaceFile /\ file[current] # work.before[current]
          => current \in raced]_(Document!vars)
  BY RenameKnows
<1> QED
  BY <1>1, <1>2, <1>3, <1>4, PTL DEF Document!Spec, Document!DocumentKept, Document!EditsSurvive

-----------------------------------------------------------------------------
(* Commands to a terminal.                                                 *)

CONSTANTS Host, Id, Command, MaxBoots

VARIABLES receipt, boot, job, flying, sent, told

Orca == INSTANCE ContextCommand WITH Request <- Id, row <- receipt

\* What the proofs ask of the constants: None stands for no receipt and for no job.
OrcaConstants ==
    /\ MaxBoots \in Nat \ {0}
    /\ None \notin Orca!Receipt
    /\ None \notin [r : Id, what : Command, phase : {"checking", "prepared", "fenced", "waiting"}]

-----------------------------------------------------------------------------
(* The invariant.                                                          *)

\* Nothing of a request was handed to Orca.
Unsent(r) == \A w \in Command : <<r, w>> \notin flying /\ sent[<<r, w>>] = 0

\* What a receipt says of what reached the terminal, and what may still reach it.
ReceiptsTell ==
    \A r \in Id :
        /\ receipt[r] = None \/ receipt[r].state \in {"prepared", "rejected"} => Unsent(r)
        /\ receipt[r] # None /\ receipt[r].state = "written" =>
              receipt[r].what \in Command /\ sent[<<r, receipt[r].what>>] > 0
        /\ \A w \in Command :
              /\ <<r, w>> \in flying \/ sent[<<r, w>>] > 0 =>
                    receipt[r] # None /\ receipt[r].what = w
              /\ sent[<<r, w>>] \in {0, 1} /\ (<<r, w>> \in flying => sent[<<r, w>>] = 0)

\* What a host knows of the receipt of its job by how far the job came.
JobKnows(h, j, rec) ==
    /\ j.phase = "checking" => rec = None \/ rec.by[1] # h
    /\ j.phase # "checking" => rec # None /\ rec.what = j.what
    /\ j.phase = "prepared" /\ rec.by[1] = h =>
          rec.by = Orca!Me(h) /\ rec.state \in {"prepared", "rejected"}
    /\ j.phase \in {"fenced", "waiting"} =>
          rec.by = Orca!Me(h) /\ rec.state \in {"write_started", "unknown"}
    /\ j.phase = "fenced" => Unsent(j.r)

JobsKnow == \A h \in Host : job[h] # None => JobKnows(h, job[h], receipt[job[h].r])

\* While a host has a job, no other of its outcomes is open.
FencesStand ==
    \A h \in Host : job[h] # None =>
        \A q \in Id : Orca!Unproven(receipt[q]) /\ receipt[q].by[1] = h => q = job[h].r

\* What a person released before it arrived has a receipt that refuses it.
BuriedRejected ==
    \A r \in Id, w \in Command :
        <<r, w, "released">> \in told => receipt[r] # None /\ receipt[r].state = "rejected"

CommandInv == Orca!TypeOK /\ ReceiptsTell /\ JobsKnow /\ FencesStand /\ BuriedRejected

-----------------------------------------------------------------------------
(* Steps.                                                                  *)

\* Parts of a receipt and of a job.
LEMMA ReceiptParts ==
    ASSUME OrcaConstants, Orca!TypeOK
    PROVE  /\ \A r \in Id : receipt[r] # None =>
                 /\ receipt[r] \in Orca!Receipt /\ receipt[r].state \in Orca!States
                 /\ receipt[r].by \in Host \X Nat /\ receipt[r].acked \in BOOLEAN
           /\ \A h \in Host : boot[h] \in 1 .. MaxBoots /\ boot[h] \in Nat
           /\ \A h \in Host : job[h] # None =>
                 /\ job[h].r \in Id /\ job[h].what \in Command
                 /\ job[h].phase \in {"checking", "prepared", "fenced", "waiting"}
BY DEF Orca!TypeOK, Orca!Receipt, OrcaConstants

\* A receipt that moves on, and a job that does.
LEMMA FieldsMove ==
    /\ \A rec \in Orca!Receipt, to \in Orca!States :
          LET new == [rec EXCEPT !.state = to]
          IN  /\ new \in Orca!Receipt /\ new.state = to /\ new.by = rec.by
              /\ new.what = rec.what /\ new.acked = rec.acked
    /\ \A rec \in Orca!Receipt :
          LET new == [rec EXCEPT !.acked = TRUE]
          IN  /\ new \in Orca!Receipt /\ new.state = rec.state /\ new.by = rec.by
              /\ new.what = rec.what /\ new.acked
BY DEF Orca!Receipt

\* A transition of one receipt.
LEMMA ReceiptMoves ==
    ASSUME OrcaConstants, Orca!TypeOK, NEW r \in Id, receipt[r] # None, NEW to \in Orca!States,
           receipt' = [receipt EXCEPT ![r].state = to]
    PROVE  /\ receipt'[r] # None /\ receipt'[r].state = to /\ receipt'[r].by = receipt[r].by
           /\ receipt'[r].what = receipt[r].what /\ receipt'[r].acked = receipt[r].acked
           /\ \A q \in Id \ {r} : receipt'[q] = receipt[q]
<1>1. /\ receipt'[r] = [receipt[r] EXCEPT !.state = to] /\ receipt[r] \in Orca!Receipt
      /\ \A q \in Id \ {r} : receipt'[q] = receipt[q]
  BY DEF Orca!TypeOK
<1>2. /\ receipt'[r] \in Orca!Receipt /\ receipt'[r].state = to
      /\ receipt'[r].by = receipt[r].by /\ receipt'[r].what = receipt[r].what
      /\ receipt'[r].acked = receipt[r].acked
  BY <1>1 DEF Orca!Receipt
<1>3. receipt'[r] # None
  BY <1>2 DEF OrcaConstants
<1> QED BY <1>1, <1>2, <1>3

\* What is reported is a state of a receipt, never a release.
LEMMA ReportedIsState ==
    ASSUME NEW rec \in Orca!Receipt
    PROVE  Orca!Reported(rec) \in Orca!States
BY DEF Orca!Reported, Orca!Receipt, Orca!States

\* The invariant at the start.
LEMMA CommandInit == ASSUME OrcaConstants PROVE Orca!Init => CommandInv
<1> SUFFICES ASSUME Orca!Init PROVE CommandInv
  OBVIOUS
<1> USE DEF Orca!Init
<1>1. Orca!TypeOK
  BY DEF OrcaConstants, Orca!TypeOK
<1>2. \A r \in Id : Unsent(r)
  BY DEF Unsent
<1>3. ReceiptsTell
  BY <1>2 DEF ReceiptsTell
<1>4. JobsKnow /\ FencesStand /\ BuriedRejected
  BY DEF JobsKnow, FencesStand, BuriedRejected
<1> QED BY <1>1, <1>3, <1>4 DEF CommandInv

\* How the receipt of a request goes on without the command being sent or its
\* outcome being proven: as it was, released, given up by its host or by a restart,
\* or made as a refusal by a host that has no job then.
Onward(h, old, new) ==
    \/ new = old
    \/ /\ old # None /\ new # None /\ new.by = old.by /\ new.what = old.what
       /\ old.acked => new.acked
       /\ \/ new.state = old.state
          \/ old.state = "prepared" /\ new.state = "rejected"
          \/ old.state = "write_started" /\ new.state = "unknown"
    \/ old = None /\ new # None /\ new.state = "rejected" /\ new.by[1] = h /\ job'[h] = None

\* Such steps, with which jobs go on unchanged or end.
LEMMA OnwardKeeps ==
    ASSUME CommandInv, NEW h \in Host, UNCHANGED Orca!orca,
           \A r \in Id : Onward(h, receipt[r], receipt'[r]),
           \A g \in Host : job'[g] = None \/ (job'[g] = job[g] /\ boot'[g] = boot[g]),
           \A g \in Host : job[g] # None => job[g].r \in Id
    PROVE  ReceiptsTell' /\ JobsKnow' /\ FencesStand'
<1> USE DEF CommandInv, Orca!orca
<1>1. \A r \in Id : Unsent(r)' <=> Unsent(r)
  BY DEF Unsent
<1>2. ReceiptsTell'
  <2> SUFFICES ASSUME NEW r \in Id
               PROVE  ReceiptsTell!(r)'
    BY DEF ReceiptsTell
  <2>1. ReceiptsTell!(r)
    BY DEF ReceiptsTell
  <2>2. CASE receipt[r] = None
    BY <1>1, <2>1, <2>2 DEF Onward, Unsent
  <2>3. CASE receipt[r] # None
    BY <1>1, <2>1, <2>3 DEF Onward
  <2> QED BY <2>2, <2>3
<1>3. ASSUME NEW g \in Host, job'[g] # None
      PROVE  /\ JobKnows(g, job[g], receipt[job[g].r])'
             /\ \A q \in Id : Orca!Unproven(receipt'[q]) /\ receipt'[q].by[1] = g
                   => q = job'[g].r
  <2>1. job'[g] = job[g] /\ boot'[g] = boot[g] /\ job[g].r \in Id
    BY <1>3
  <2>2. \A r \in Id : Onward(h, receipt[r], receipt'[r]) /\ (Unsent(r)' <=> Unsent(r))
    BY <1>1
  <2>3. JobKnows(g, job[g], receipt[job[g].r])
    BY <1>3, <2>1 DEF JobsKnow
  <2>4. JobKnows(g, job[g], receipt[job[g].r])'
    <3> DEFINE j == job[g]
               old == receipt[j.r]
               new == receipt'[j.r]
    <3>1. Onward(h, old, new) /\ (Unsent(j.r)' <=> Unsent(j.r)) /\ Orca!Me(g)' = Orca!Me(g)
      BY <2>1, <2>2 DEF Orca!Me
    <3>2. CASE old = None
      BY <1>3, <2>1, <2>3, <3>1, <3>2 DEF JobKnows, Onward
    <3>3. CASE old # None
      BY <1>3, <2>1, <2>3, <3>1, <3>3 DEF JobKnows, Onward
    <3> QED BY <3>2, <3>3
  <2>5. ASSUME NEW q \in Id, Orca!Unproven(receipt'[q]), receipt'[q].by[1] = g
        PROVE  q = job'[g].r
    <3>1. Orca!Unproven(receipt[q]) /\ receipt[q].by[1] = g
      BY <2>2, <2>5 DEF Onward, Orca!Unproven
    <3> QED BY <1>3, <2>1, <3>1 DEF FencesStand
  <2> QED BY <2>4, <2>5
<1>4. JobsKnow' /\ FencesStand'
  BY <1>3 DEF JobsKnow, FencesStand
<1> QED BY <1>2, <1>4

\* Answers other than a release, with refusals kept.
LEMMA BuriedKeeps ==
    ASSUME CommandInv, NEW h \in Host,
           \A r \in Id : Onward(h, receipt[r], receipt'[r]),
           \A r \in Id, w \in Command : <<r, w, "released">> \in told' =>
                 <<r, w, "released">> \in told
    PROVE  BuriedRejected'
BY DEF CommandInv, BuriedRejected, Onward

\* A receipt is read.
LEMMA ReadKeeps ==
    ASSUME OrcaConstants, CommandInv, NEW h \in Host, NEW r \in Id, Orca!Read(h, r)
    PROVE  CommandInv'
<1> USE ReceiptParts DEF CommandInv, Orca!Read, Orca!orca, Orca!Answer
<1>1. Orca!TypeOK'
  BY ReportedIsState DEF Orca!TypeOK, Orca!Receipt, Orca!States, OrcaConstants, Orca!Me
<1>2. \A q \in Id : Onward(h, receipt[q], receipt'[q])
  BY DEF Onward, Orca!TypeOK, Orca!Receipt, OrcaConstants, JobsKnow, JobKnows
<1>3. \A g \in Host : job'[g] = None \/ (job'[g] = job[g] /\ boot'[g] = boot[g])
  BY DEF Orca!TypeOK
<1>4. ReceiptsTell' /\ JobsKnow' /\ FencesStand'
  BY <1>2, <1>3, OnwardKeeps
<1>5. BuriedRejected'
  <2>1. Orca!Reported(receipt[r]) \in Orca!States
    BY ReportedIsState
  <2>2. Orca!Reported(receipt[r]) # "released"
    BY <2>1 DEF Orca!States
  <2> QED BY <1>2, <2>2, BuriedKeeps
<1> QED BY <1>1, <1>4, <1>5

\* A person releases a fence.
LEMMA ReleaseKeeps ==
    ASSUME OrcaConstants, CommandInv, NEW h \in Host, NEW r \in Id, Orca!Acknowledge(h, r),
           Orca!Release(h, r)
    PROVE  CommandInv'
<1> USE ReceiptParts DEF CommandInv, Orca!Acknowledge, Orca!Release, Orca!orca
<1>1. Orca!TypeOK'
  <2>1. [receipt[r] EXCEPT !.acked = TRUE] \in Orca!Receipt
    BY FieldsMove
  <2> QED BY <2>1 DEF Orca!TypeOK, OrcaConstants
<1>2. \A q \in Id : Onward(h, receipt[q], receipt'[q])
  <2>1. /\ receipt'[r] = [receipt[r] EXCEPT !.acked = TRUE]
        /\ \A q \in Id \ {r} : receipt'[q] = receipt[q]
    BY DEF Orca!TypeOK
  <2>2. Onward(h, receipt[r], receipt'[r])
    BY <2>1, FieldsMove DEF Onward, OrcaConstants
  <2> QED BY <2>1, <2>2 DEF Onward
<1>3. \A g \in Host : job'[g] = None \/ (job'[g] = job[g] /\ boot'[g] = boot[g])
  BY DEF Orca!TypeOK
<1>4. ReceiptsTell' /\ JobsKnow' /\ FencesStand'
  BY <1>2, <1>3, OnwardKeeps
<1>5. BuriedRejected'
  BY <1>2, BuriedKeeps
<1> QED BY <1>1, <1>4, <1>5

\* A person releases a request that never arrived.
LEMMA BuryKeeps ==
    ASSUME OrcaConstants, CommandInv, NEW h \in Host, NEW r \in Id, Orca!Acknowledge(h, r),
           Orca!Bury(h, r)
    PROVE  CommandInv'
<1> USE ReceiptParts DEF CommandInv, Orca!Acknowledge, Orca!Bury, Orca!Released, Orca!Stored,
    Orca!orca
<1>1. Orca!TypeOK'
  BY DEF Orca!TypeOK, Orca!Receipt, Orca!States, OrcaConstants, Orca!Me
<1>2. \A q \in Id : Onward(h, receipt[q], receipt'[q])
  BY DEF Orca!Me, Orca!States, Onward, Orca!TypeOK, Orca!Receipt, OrcaConstants, JobsKnow,
      JobKnows
<1>3. \A g \in Host : job'[g] = None \/ (job'[g] = job[g] /\ boot'[g] = boot[g])
  BY DEF Orca!TypeOK
<1>4. ReceiptsTell' /\ JobsKnow' /\ FencesStand'
  BY <1>2, <1>3, OnwardKeeps
<1>5. BuriedRejected'
  <2>1. receipt'[r] # None /\ receipt'[r].state = "rejected"
    <3>1. [state |-> "rejected", by |-> Orca!Me(h), what |-> Orca!Tombstone, acked |-> TRUE]
             \in Orca!Receipt
      BY DEF Orca!Receipt, Orca!States, Orca!Me
    <3> QED BY <3>1 DEF Orca!TypeOK, OrcaConstants
  <2>2. \A q \in Id, w \in Command : <<q, w, "released">> \in told' =>
           <<q, w, "released">> \in told \/ q = r
    OBVIOUS
  <2> QED BY <1>2, <2>1, <2>2 DEF BuriedRejected, Onward
<1> QED BY <1>1, <1>4, <1>5

\* A request with a receipt is answered.
LEMMA ReplayKeeps ==
    ASSUME OrcaConstants, CommandInv, NEW h \in Host, NEW r \in Id, NEW what \in Command,
           Orca!Execute(h, r, what),
           Orca!Replay(h, r, what)
    PROVE  CommandInv'
<1> USE ReceiptParts DEF CommandInv, Orca!Execute, Orca!Replay, Orca!orca, Orca!Answer
<1>1. Orca!TypeOK'
  BY ReportedIsState DEF Orca!TypeOK, Orca!Receipt, Orca!States, OrcaConstants, Orca!Me
<1>2. \A q \in Id : Onward(h, receipt[q], receipt'[q])
  BY DEF Onward, Orca!TypeOK, Orca!Receipt, OrcaConstants, JobsKnow, JobKnows
<1>3. \A g \in Host : job'[g] = None \/ (job'[g] = job[g] /\ boot'[g] = boot[g])
  BY DEF Orca!TypeOK
<1>4. ReceiptsTell' /\ JobsKnow' /\ FencesStand'
  BY <1>2, <1>3, OnwardKeeps
<1>5. BuriedRejected'
  <2>1. Orca!Reported(receipt[r]) \in Orca!States
    BY ReportedIsState
  <2>2. Orca!Reported(receipt[r]) # "released"
    BY <2>1 DEF Orca!States
  <2> QED BY <1>2, <2>2, BuriedKeeps
<1> QED BY <1>1, <1>4, <1>5

\* A fenced session refuses, with a receipt.
LEMMA RefuseFencedKeeps ==
    ASSUME OrcaConstants, CommandInv, NEW h \in Host, NEW r \in Id, NEW what \in Command,
           Orca!Execute(h, r, what),
           Orca!RefuseFenced(h, r, what)
    PROVE  CommandInv'
<1> USE ReceiptParts DEF CommandInv, Orca!Execute, Orca!RefuseFenced, Orca!orca, Orca!Answer,
    Orca!Stored
<1>1. Orca!TypeOK'
  BY DEF Orca!TypeOK, Orca!Receipt, Orca!States, OrcaConstants, Orca!Me
<1>2. \A q \in Id : Onward(h, receipt[q], receipt'[q])
  BY DEF Orca!Me, Orca!States, Onward, Orca!TypeOK, Orca!Receipt, OrcaConstants, JobsKnow,
      JobKnows
<1>3. \A g \in Host : job'[g] = None \/ (job'[g] = job[g] /\ boot'[g] = boot[g])
  BY DEF Orca!TypeOK
<1>4. ReceiptsTell' /\ JobsKnow' /\ FencesStand'
  BY <1>2, <1>3, OnwardKeeps
<1>5. BuriedRejected'
  BY <1>2, BuriedKeeps
<1> QED BY <1>1, <1>4, <1>5

\* A check fails.
LEMMA CheckRefusedKeeps ==
    ASSUME OrcaConstants, CommandInv, NEW h \in Host, Orca!Refuse(h)
    PROVE  CommandInv'
<1> USE ReceiptParts DEF CommandInv, Orca!Refuse, Orca!orca, Orca!In, Orca!AnswerRefused,
    Orca!Answer, Orca!Stored,
        Orca!EndJob
<1>1. Orca!TypeOK'
  <2>1. [state |-> "rejected", by |-> Orca!Me(h), what |-> job[h].what, acked |-> FALSE]
           \in Orca!Receipt
    BY DEF Orca!Receipt, Orca!States, Orca!Me
  <2>2. /\ receipt' \in [Id -> Orca!Receipt \cup {None}]
        /\ \A q \in Id : receipt[q] # None => receipt'[q] # None
    BY <2>1 DEF Orca!TypeOK
  <2>3. told' \subseteq Id \X Command \X (Orca!States \cup {"refused", "released"})
    BY DEF Orca!TypeOK, Orca!States
  <2> QED BY <2>2, <2>3 DEF Orca!TypeOK, OrcaConstants
<1>2. \A q \in Id : Onward(h, receipt[q], receipt'[q])
  BY DEF Orca!Me, Orca!States, Onward, Orca!TypeOK, Orca!Receipt, OrcaConstants, JobsKnow,
      JobKnows
<1>3. \A g \in Host : job'[g] = None \/ (job'[g] = job[g] /\ boot'[g] = boot[g])
  BY DEF Orca!TypeOK
<1>4. ReceiptsTell' /\ JobsKnow' /\ FencesStand'
  BY <1>2, <1>3, OnwardKeeps
<1>5. BuriedRejected'
  BY <1>2, BuriedKeeps
<1> QED BY <1>1, <1>4, <1>5

\* One of the two writes fails.
LEMMA RecordFailsKeeps ==
    ASSUME OrcaConstants, CommandInv, NEW h \in Host, Orca!RecordFails(h)
    PROVE  CommandInv'
<1> USE ReceiptParts DEF CommandInv, Orca!RecordFails, Orca!orca, Orca!In, Orca!Can, Orca!Moved,
        Orca!AnswerRefused, Orca!Answer, Orca!EndJob
<1>1. Orca!TypeOK'
  BY DEF Orca!TypeOK, Orca!Receipt, Orca!States, OrcaConstants, Orca!Me
<1>2. \A q \in Id : Onward(h, receipt[q], receipt'[q])
  <2> DEFINE r == job[h].r
  <2>1. CASE receipt' = receipt
    BY <2>1 DEF Onward
  <2>2. CASE receipt' # receipt
    <3>1. /\ receipt[r] # None /\ receipt[r].state = "prepared" /\ r \in Id
          /\ receipt' = [receipt EXCEPT ![r].state = "rejected"]
      BY <2>2
    <3>2. receipt'[r] = [receipt[r] EXCEPT !.state = "rejected"]
          /\ \A q \in Id \ {r} : receipt'[q] = receipt[q]
      BY <3>1 DEF Orca!TypeOK
    <3>3. "rejected" \in Orca!States /\ receipt[r] \in Orca!Receipt
      BY <3>1 DEF Orca!States
    <3>4. Onward(h, receipt[r], receipt'[r])
      BY <3>1, <3>2, <3>3, FieldsMove DEF Onward, OrcaConstants
    <3> QED BY <3>2, <3>4 DEF Onward
  <2> QED BY <2>1, <2>2
<1>3. \A g \in Host : job'[g] = None \/ (job'[g] = job[g] /\ boot'[g] = boot[g])
  BY DEF Orca!TypeOK
<1>4. ReceiptsTell' /\ JobsKnow' /\ FencesStand'
  BY <1>2, <1>3, OnwardKeeps
<1>5. BuriedRejected'
  BY <1>2, BuriedKeeps
<1> QED BY <1>1, <1>4, <1>5

\* No answer comes.
LEMMA UnknownKeeps ==
    ASSUME OrcaConstants, CommandInv, NEW h \in Host, Orca!Unknown(h)
    PROVE  CommandInv'
<1> USE ReceiptParts DEF CommandInv, Orca!Unknown, Orca!orca, Orca!In, Orca!Can, Orca!Moved,
    Orca!Answer,
        Orca!EndJob
<1>1. Orca!TypeOK'
  BY DEF Orca!TypeOK, Orca!Receipt, Orca!States, OrcaConstants, Orca!Me
<1>2. \A q \in Id : Onward(h, receipt[q], receipt'[q])
  <2> DEFINE r == job[h].r
  <2>1. CASE receipt' = receipt
    BY <2>1 DEF Onward
  <2>2. CASE receipt' # receipt
    <3>1. /\ receipt[r] # None /\ receipt[r].state = "write_started" /\ r \in Id
          /\ receipt' = [receipt EXCEPT ![r].state = "unknown"]
      BY <2>2
    <3>2. receipt'[r] = [receipt[r] EXCEPT !.state = "unknown"]
          /\ \A q \in Id \ {r} : receipt'[q] = receipt[q]
      BY <3>1 DEF Orca!TypeOK
    <3>3. "unknown" \in Orca!States /\ receipt[r] \in Orca!Receipt
      BY <3>1 DEF Orca!States
    <3>4. Onward(h, receipt[r], receipt'[r])
      BY <3>1, <3>2, <3>3, FieldsMove DEF Onward, OrcaConstants
    <3> QED BY <3>2, <3>4 DEF Onward
  <2> QED BY <2>1, <2>2
<1>3. \A g \in Host : job'[g] = None \/ (job'[g] = job[g] /\ boot'[g] = boot[g])
  BY DEF Orca!TypeOK
<1>4. ReceiptsTell' /\ JobsKnow' /\ FencesStand'
  BY <1>2, <1>3, OnwardKeeps
<1>5. BuriedRejected'
  BY <1>2, BuriedKeeps
<1> QED BY <1>1, <1>4, <1>5

\* A host ends and opens the journal again.
LEMMA HostRestartKeeps ==
    ASSUME OrcaConstants, CommandInv, NEW h \in Host, NEW aged \in SUBSET Id, Orca!Restart(h,
           aged)
    PROVE  CommandInv'
<1> USE ReceiptParts DEF CommandInv, Orca!Restart, Orca!orca
<1>1. Orca!TypeOK'
  <2>1. \A r \in Id : receipt'[r] \in Orca!Receipt \cup {None}
    BY DEF Orca!TypeOK, Orca!Receipt, Orca!States
  <2>2. \A r \in Id : receipt[r] # None => receipt'[r] # None
    BY <2>1 DEF Orca!TypeOK, Orca!Receipt, Orca!States, OrcaConstants
  <2> QED BY <2>1, <2>2 DEF Orca!TypeOK, OrcaConstants
<1>2. \A q \in Id : Onward(h, receipt[q], receipt'[q])
  <2> SUFFICES ASSUME NEW q \in Id
               PROVE  Onward(h, receipt[q], receipt'[q])
    OBVIOUS
  <2>1. CASE receipt[q] = None \/ receipt'[q] = receipt[q]
    BY <2>1 DEF Onward
  <2>2. CASE receipt[q] # None /\ receipt[q].state = "write_started"
    <3>1. receipt'[q] = [receipt[q] EXCEPT !.state = "unknown"] /\ "unknown" \in Orca!States
      BY <2>2 DEF Orca!States
    <3> QED BY <2>2, <3>1, FieldsMove DEF Onward, OrcaConstants
  <2>3. CASE receipt[q] # None /\ receipt[q].state = "prepared" /\ q \in aged
    <3>1. receipt'[q] = [receipt[q] EXCEPT !.state = "rejected"] /\ "rejected" \in Orca!States
      BY <2>3 DEF Orca!States
    <3> QED BY <2>3, <3>1, FieldsMove DEF Onward, OrcaConstants
  <2> QED BY <2>1, <2>2, <2>3
<1>3. \A g \in Host : job'[g] = None \/ (job'[g] = job[g] /\ boot'[g] = boot[g])
  <2>1. \A g \in Host : g # h => job'[g] = job[g] /\ boot'[g] = boot[g]
    BY DEF Orca!TypeOK
  <2>2. \A g \in Host : g = h => job'[g] = None
    BY DEF Orca!TypeOK
  <2> HIDE DEF Orca!Restart
  <2> QED BY <2>1, <2>2
<1>4. ReceiptsTell' /\ JobsKnow' /\ FencesStand'
  BY <1>2, <1>3, OnwardKeeps
<1>5. BuriedRejected'
  BY <1>2, BuriedKeeps
<1> QED BY <1>1, <1>4, <1>5

\* A host takes a request when no outcome is open.
LEMMA TakeKeeps ==
    ASSUME OrcaConstants, CommandInv, NEW h \in Host, NEW r \in Id, NEW what \in Command,
           Orca!Execute(h, r, what),
           Orca!Take(h, r, what)
    PROVE  CommandInv'
<1> USE ReceiptParts DEF CommandInv, Orca!Execute, Orca!Take, Orca!orca, Orca!Fences
<1>1. Orca!TypeOK'
  BY DEF Orca!TypeOK, Orca!Receipt, Orca!States, OrcaConstants, Orca!Me
<1>2. ReceiptsTell'
  BY DEF ReceiptsTell, Unsent, Orca!TypeOK
<1>3. JobsKnow'
  BY DEF JobsKnow, JobKnows, Unsent, ReceiptsTell, Orca!Me, Orca!TypeOK
<1>4. FencesStand'
  BY DEF FencesStand, Orca!Unproven, JobsKnow, JobKnows, Orca!Me, Orca!TypeOK
<1>5. BuriedRejected'
  BY DEF BuriedRejected, Orca!TypeOK, ReceiptsTell, JobsKnow, JobKnows
<1> QED BY <1>1, <1>2, <1>3, <1>4, <1>5

\* The checks passed.
LEMMA ChecksPassedKeeps ==
    ASSUME OrcaConstants, CommandInv, NEW h \in Host, Orca!Prepare(h)
    PROVE  CommandInv'
<1> USE ReceiptParts DEF CommandInv, Orca!Prepare, Orca!orca, Orca!In, Orca!Stored, Orca!Goto
<1>1. Orca!TypeOK'
  <2>1. [state |-> "prepared", by |-> Orca!Me(h), what |-> job[h].what, acked |-> FALSE]
           \in Orca!Receipt
    BY DEF Orca!Receipt, Orca!States, Orca!Me
  <2>2. receipt'[job[h].r] # None /\ \A q \in Id : receipt[q] # None => receipt'[q] # None
    BY <2>1 DEF Orca!TypeOK, OrcaConstants
  <2> QED BY <2>1, <2>2 DEF Orca!TypeOK, OrcaConstants
<1>2. ReceiptsTell'
  BY DEF ReceiptsTell, Unsent, Orca!TypeOK
<1>3. JobsKnow'
  <2> DEFINE r == job[h].r
  <2>1. \A q \in Id : Unsent(q)' <=> Unsent(q)
    BY DEF Unsent
  <2>2. ASSUME NEW g \in Host \ {h}, job'[g] # None
        PROVE  JobKnows(g, job[g], receipt[job[g].r])'
    <3>1. job'[g] = job[g] /\ job[g] # None /\ Orca!Me(g)' = Orca!Me(g) /\ job[g].r \in Id
      BY <2>2 DEF Orca!TypeOK, Orca!Me
    <3>2. JobKnows(g, job[g], receipt[job[g].r])
      BY <3>1 DEF JobsKnow
    <3>3. CASE job[g].r # r
      <4>1. receipt'[job[g].r] = receipt[job[g].r]
        BY <3>1, <3>3 DEF Orca!TypeOK
      <4> QED BY <2>1, <3>1, <3>2, <4>1 DEF JobKnows
    <3>4. CASE job[g].r = r
      BY <2>1, <3>1, <3>2, <3>4 DEF JobKnows, Orca!TypeOK, Orca!Me
    <3> QED BY <3>3, <3>4
  <2>3. JobKnows(h, job[h], receipt[job[h].r])'
    <3>1. JobKnows(h, job[h], receipt[r]) /\ r \in Id
      BY DEF JobsKnow
    <3>2. /\ job'[h].r = r /\ job'[h].what = job[h].what /\ job'[h].phase = "prepared"
          /\ Orca!Me(h)' = Orca!Me(h)
      BY DEF Orca!TypeOK, Orca!Me
    <3>3. CASE receipt[r] = None
      <4>1. /\ receipt'[r].by = Orca!Me(h) /\ receipt'[r].state = "prepared"
            /\ receipt'[r].what = job[h].what
        BY <3>1, <3>3 DEF Orca!TypeOK
      <4>2. receipt'[r] # None
        BY <1>1, <4>1, <3>1 DEF Orca!TypeOK
      <4> QED BY <3>2, <4>1, <4>2 DEF JobKnows
    <3>4. CASE receipt[r] # None
      <4>1. receipt'[r] = receipt[r] /\ receipt[r].by[1] # h
        BY <3>1, <3>4 DEF JobKnows
      <4> QED BY <3>2, <3>4, <4>1 DEF JobKnows
    <3> QED BY <3>3, <3>4
  <2> QED BY <2>2, <2>3 DEF JobsKnow
<1>4. FencesStand'
  BY DEF FencesStand, Orca!Unproven, JobsKnow, JobKnows, Orca!Me, Orca!TypeOK
<1>5. BuriedRejected'
  BY DEF BuriedRejected, Orca!TypeOK, ReceiptsTell, JobsKnow, JobKnows
<1> QED BY <1>1, <1>2, <1>3, <1>4, <1>5

\* The receipt says first that the command is sent.
LEMMA FenceKeeps ==
    ASSUME OrcaConstants, CommandInv, NEW h \in Host, Orca!Fence(h)
    PROVE  CommandInv'
<1> USE ReceiptParts DEF CommandInv, Orca!Fence, Orca!orca, Orca!In, Orca!Can, Orca!Moved,
    Orca!Goto
<1>0. /\ receipt[job[h].r] # None /\ receipt[job[h].r].state = "prepared"
      /\ receipt[job[h].r].by = Orca!Me(h)
      /\ receipt'[job[h].r] # None /\ receipt'[job[h].r].state = "write_started"
      /\ receipt'[job[h].r].by = receipt[job[h].r].by
      /\ receipt'[job[h].r].what = receipt[job[h].r].what
  <2>1. job[h].r \in Id /\ "write_started" \in Orca!States
    BY DEF Orca!States
  <2> QED BY <2>1, ReceiptMoves
<1>1. Orca!TypeOK'
  BY DEF Orca!TypeOK, Orca!Receipt, Orca!States, OrcaConstants, Orca!Me
<1>2. ReceiptsTell'
  BY DEF ReceiptsTell, Unsent, Orca!TypeOK
<1>3. JobsKnow'
  <2> DEFINE r == job[h].r
  <2>1. \A q \in Id : Unsent(q)' <=> Unsent(q)
    BY DEF Unsent
  <2>2. ASSUME NEW g \in Host \ {h}, job'[g] # None
        PROVE  JobKnows(g, job[g], receipt[job[g].r])'
    <3>1. job'[g] = job[g] /\ job[g] # None /\ Orca!Me(g)' = Orca!Me(g) /\ job[g].r \in Id
      BY <2>2 DEF Orca!TypeOK, Orca!Me
    <3>2. JobKnows(g, job[g], receipt[job[g].r])
      BY <3>1 DEF JobsKnow
    <3>3. CASE job[g].r # r
      <4>1. receipt'[job[g].r] = receipt[job[g].r]
        BY <3>1, <3>3 DEF Orca!TypeOK
      <4> QED BY <2>1, <3>1, <3>2, <4>1 DEF JobKnows
    <3>4. CASE job[g].r = r
      <4>1. receipt[r].by = Orca!Me(h) /\ receipt'[r].by = receipt[r].by
            /\ receipt'[r].what = receipt[r].what /\ receipt'[r] # None
        BY <3>1, <3>4, <1>0
      <4>2. Orca!Me(h)[1] = h /\ Orca!Me(g)[1] = g
        BY DEF Orca!Me
      <4> QED BY <3>1, <3>2, <3>4, <4>1, <4>2 DEF JobKnows
    <3> QED BY <3>3, <3>4
  <2>3. JobKnows(h, job[h], receipt[job[h].r])'
    <3>1. JobKnows(h, job[h], receipt[r]) /\ r \in Id /\ Unsent(r)
      BY DEF JobsKnow, ReceiptsTell
    <3>2. /\ job'[h].r = r /\ job'[h].what = job[h].what /\ job'[h].phase = "fenced"
          /\ Orca!Me(h)' = Orca!Me(h)
      BY DEF Orca!TypeOK, Orca!Me
    <3>3. /\ receipt'[r].by = Orca!Me(h) /\ receipt'[r].state = "write_started"
          /\ receipt'[r].what = job[h].what /\ receipt'[r] # None
      BY <3>1, <1>0 DEF JobKnows
    <3> QED BY <2>1, <3>1, <3>2, <3>3 DEF JobKnows
  <2> QED BY <2>2, <2>3 DEF JobsKnow
<1>4. FencesStand'
  BY DEF FencesStand, Orca!Unproven, JobsKnow, JobKnows, Orca!Me, Orca!TypeOK
<1>5. BuriedRejected'
  BY DEF BuriedRejected, Orca!TypeOK, ReceiptsTell, JobsKnow, JobKnows
<1> QED BY <1>1, <1>2, <1>3, <1>4, <1>5

\* The command is handed over.
LEMMA SendKeeps ==
    ASSUME OrcaConstants, CommandInv, NEW h \in Host, Orca!Send(h)
    PROVE  CommandInv'
<1> USE ReceiptParts DEF CommandInv, Orca!Send, Orca!In, Orca!Goto
<1>1. Orca!TypeOK'
  BY DEF Orca!TypeOK, Orca!Receipt, Orca!States, OrcaConstants, Orca!Me
<1>2. ReceiptsTell'
  <2> DEFINE c == <<job[h].r, job[h].what>>
  <2> SUFFICES ASSUME NEW q \in Id
               PROVE  ReceiptsTell!(q)'
    BY DEF ReceiptsTell
  <2>1. ReceiptsTell!(q)
    BY DEF ReceiptsTell
  <2>2. CASE q # job[h].r
    <3>1. receipt'[q] = receipt[q] /\ sent' = sent
          /\ \A w \in Command : <<q, w>> \in flying' <=> <<q, w>> \in flying
      BY <2>2 DEF Orca!TypeOK
    <3> QED BY <2>1, <3>1 DEF Unsent
  <2>3. CASE q = job[h].r
    <3>1. JobKnows(h, job[h], receipt[q]) /\ receipt[q] # None
      BY <2>3 DEF JobsKnow, JobKnows
    <3> QED BY <2>1, <2>3, <3>1 DEF JobKnows, Unsent, Orca!TypeOK
  <2> QED BY <2>2, <2>3
<1>3. JobsKnow'
  BY DEF JobsKnow, JobKnows, Unsent, ReceiptsTell, Orca!Me, Orca!TypeOK
<1>4. FencesStand'
  BY DEF FencesStand, Orca!Unproven, JobsKnow, JobKnows, Orca!Me, Orca!TypeOK
<1>5. BuriedRejected'
  BY DEF BuriedRejected, Orca!TypeOK, ReceiptsTell, JobsKnow, JobKnows
<1> QED BY <1>1, <1>2, <1>3, <1>4, <1>5

\* Orca says what it did.
LEMMA AnswerKeeps ==
    ASSUME OrcaConstants, CommandInv, NEW h \in Host, Orca!Settle(h)
    PROVE  CommandInv'
<1> USE ReceiptParts DEF CommandInv, Orca!Settle, Orca!orca, Orca!In, Orca!Can, Orca!Moved,
    Orca!Answer, Orca!EndJob
<1>0. /\ receipt[job[h].r] # None /\ receipt[job[h].r].by = Orca!Me(h)
      /\ receipt'[job[h].r] # None
      /\ receipt'[job[h].r].state = (IF sent[<<job[h].r, job[h].what>>] > 0 THEN "written"
                                     ELSE "rejected")
      /\ receipt'[job[h].r].by = receipt[job[h].r].by
      /\ receipt'[job[h].r].what = receipt[job[h].r].what
  <2> DEFINE to == IF sent[<<job[h].r, job[h].what>>] > 0 THEN "written" ELSE "rejected"
  <2>1. job[h].r \in Id /\ to \in Orca!States
    BY DEF Orca!States
  <2>2. receipt' = [receipt EXCEPT ![job[h].r].state = to] /\ receipt[job[h].r] # None
    OBVIOUS
  <2>3. receipt[job[h].r].by = Orca!Me(h)
    OBVIOUS
  <2> HIDE DEF to, Orca!Settle
  <2>4. /\ receipt'[job[h].r] # None /\ receipt'[job[h].r].state = to
        /\ receipt'[job[h].r].by = receipt[job[h].r].by
        /\ receipt'[job[h].r].what = receipt[job[h].r].what
    BY <2>1, <2>2, ReceiptMoves
  <2> QED BY <2>2, <2>3, <2>4 DEF to
<1>1. Orca!TypeOK'
  BY DEF Orca!TypeOK, Orca!Receipt, Orca!States, OrcaConstants, Orca!Me
<1>2. ReceiptsTell'
  <2> DEFINE c == <<job[h].r, job[h].what>>
  <2> SUFFICES ASSUME NEW q \in Id
               PROVE  ReceiptsTell!(q)'
    BY DEF ReceiptsTell
  <2>1. ReceiptsTell!(q)
    BY DEF ReceiptsTell
  <2>2. CASE q # job[h].r
    <3>1. receipt'[q] = receipt[q] /\ sent' = sent
          /\ \A w \in Command : <<q, w>> \in flying' <=> <<q, w>> \in flying
      BY <2>2 DEF Orca!TypeOK
    <3> QED BY <2>1, <3>1 DEF Unsent
  <2>3. CASE q = job[h].r
    <3>1. JobKnows(h, job[h], receipt[q]) /\ receipt[q] # None
      BY <2>3 DEF JobsKnow, JobKnows
    <3>2. /\ receipt'[q].what = job[h].what /\ receipt'[q] # None
          /\ receipt'[q].state = IF sent[c] > 0 THEN "written" ELSE "rejected"
      BY <2>3, <3>1, <1>0 DEF JobKnows
    <3>3. \A w \in Command : w # job[h].what => <<q, w>> \notin flying /\ sent[<<q, w>>] = 0
      BY <2>1, <3>1 DEF JobKnows
    <3>4. sent[c] = 0 => Unsent(q)
      BY <2>3, <3>3 DEF Unsent
    <3> QED BY <2>1, <2>3, <3>2, <3>3, <3>4 DEF Unsent
  <2> QED BY <2>2, <2>3
<1>3. JobsKnow'
  <2> DEFINE r == job[h].r
  <2>1. \A q \in Id : Unsent(q)' <=> Unsent(q)
    BY DEF Unsent
  <2>2. ASSUME NEW g \in Host \ {h}, job'[g] # None
        PROVE  JobKnows(g, job[g], receipt[job[g].r])'
    <3>1. job'[g] = job[g] /\ job[g] # None /\ Orca!Me(g)' = Orca!Me(g) /\ job[g].r \in Id
      BY <2>2 DEF Orca!TypeOK, Orca!Me
    <3>2. JobKnows(g, job[g], receipt[job[g].r])
      BY <3>1 DEF JobsKnow
    <3>3. CASE job[g].r # r
      <4>1. receipt'[job[g].r] = receipt[job[g].r]
        BY <3>1, <3>3 DEF Orca!TypeOK
      <4> QED BY <2>1, <3>1, <3>2, <4>1 DEF JobKnows
    <3>4. CASE job[g].r = r
      <4>1. receipt[r].by = Orca!Me(h) /\ receipt'[r].by = receipt[r].by
            /\ receipt'[r].what = receipt[r].what /\ receipt'[r] # None
        BY <3>1, <3>4, <1>0
      <4>2. Orca!Me(h)[1] = h /\ Orca!Me(g)[1] = g
        BY DEF Orca!Me
      <4> QED BY <3>1, <3>2, <3>4, <4>1, <4>2 DEF JobKnows
    <3> QED BY <3>3, <3>4
  <2>3. job'[h] # None => JobKnows(h, job[h], receipt[job[h].r])'
    BY <2>1 DEF JobKnows, JobsKnow, ReceiptsTell, Orca!Me, Orca!TypeOK
  <2> QED BY <2>2, <2>3 DEF JobsKnow
<1>4. FencesStand'
  BY DEF FencesStand, Orca!Unproven, JobsKnow, JobKnows, Orca!Me, Orca!TypeOK
<1>5. BuriedRejected'
  BY DEF BuriedRejected, Orca!TypeOK, ReceiptsTell, JobsKnow, JobKnows
<1> QED BY <1>1, <1>2, <1>3, <1>4, <1>5

\* Orca types the command.
LEMMA DeliverKeeps ==
    ASSUME OrcaConstants, CommandInv, NEW c \in Id \X Command, Orca!Deliver(c)
    PROVE  CommandInv'
<1> USE ReceiptParts DEF CommandInv, Orca!Deliver
<1>1. Orca!TypeOK'
  BY DEF Orca!TypeOK, Orca!Receipt, Orca!States, OrcaConstants, Orca!Me
<1>2. ReceiptsTell'
  BY DEF ReceiptsTell, Unsent, Orca!TypeOK
<1>3. JobsKnow'
  BY DEF JobsKnow, JobKnows, Unsent, ReceiptsTell, Orca!Me, Orca!TypeOK
<1>4. FencesStand'
  BY DEF FencesStand, Orca!Unproven, JobsKnow, JobKnows, Orca!Me, Orca!TypeOK
<1>5. BuriedRejected'
  BY DEF BuriedRejected, Orca!TypeOK, ReceiptsTell, JobsKnow, JobKnows
<1> QED BY <1>1, <1>2, <1>3, <1>4, <1>5

\* Orca drops the command.
LEMMA DropKeeps ==
    ASSUME OrcaConstants, CommandInv, NEW c \in Id \X Command, Orca!Drop(c)
    PROVE  CommandInv'
<1> USE ReceiptParts DEF CommandInv, Orca!Drop
<1>1. Orca!TypeOK'
  BY DEF Orca!TypeOK, Orca!Receipt, Orca!States, OrcaConstants, Orca!Me
<1>2. ReceiptsTell'
  BY DEF ReceiptsTell, Unsent, Orca!TypeOK
<1>3. JobsKnow'
  BY DEF JobsKnow, JobKnows, Unsent, ReceiptsTell, Orca!Me, Orca!TypeOK
<1>4. FencesStand'
  BY DEF FencesStand, Orca!Unproven, JobsKnow, JobKnows, Orca!Me, Orca!TypeOK
<1>5. BuriedRejected'
  BY DEF BuriedRejected, Orca!TypeOK, ReceiptsTell, JobsKnow, JobKnows
<1> QED BY <1>1, <1>2, <1>3, <1>4, <1>5

\* Every step keeps the invariant.
LEMMA CommandNext == ASSUME OrcaConstants PROVE CommandInv /\ [Orca!Next]_Orca!vars => CommandInv'
<1> SUFFICES ASSUME CommandInv, [Orca!Next]_Orca!vars PROVE CommandInv'
  OBVIOUS
<1>1. ASSUME NEW h \in Host, Orca!Step(h) PROVE CommandInv'
  <2>1. CASE \E r \in Id : Orca!Read(h, r)
    BY <2>1, ReadKeeps
  <2>2. CASE \E r \in Id : Orca!Acknowledge(h, r)
    BY <2>2, ReleaseKeeps, BuryKeeps DEF Orca!Acknowledge
  <2>3. CASE \E r \in Id, what \in Command : Orca!Execute(h, r, what)
    BY <2>3, ReplayKeeps, RefuseFencedKeeps, TakeKeeps DEF Orca!Execute
  <2>4. CASE Orca!Refuse(h)
    BY <2>4, CheckRefusedKeeps
  <2>5. CASE Orca!Prepare(h)
    BY <2>5, ChecksPassedKeeps
  <2>6. CASE Orca!Fence(h)
    BY <2>6, FenceKeeps
  <2>7. CASE Orca!RecordFails(h)
    BY <2>7, RecordFailsKeeps
  <2>8. CASE Orca!Send(h)
    BY <2>8, SendKeeps
  <2>9. CASE Orca!Settle(h)
    BY <2>9, AnswerKeeps
  <2>10. CASE Orca!Unknown(h)
    BY <2>10, UnknownKeeps
  <2>11. CASE \E aged \in SUBSET Id : Orca!Restart(h, aged)
    BY <2>11, HostRestartKeeps
  <2> QED BY <1>1, <2>1, <2>2, <2>3, <2>4, <2>5, <2>6, <2>7, <2>8, <2>9, <2>10, <2>11
         DEF Orca!Step
<1>2. ASSUME NEW c \in Id \X Command, Orca!Deliver(c) \/ Orca!Drop(c) PROVE CommandInv'
  BY <1>2, DeliverKeeps, DropKeeps
<1>3. CASE UNCHANGED Orca!vars
  BY <1>3 DEF Orca!vars, Orca!orca, CommandInv, Orca!TypeOK, ReceiptsTell, Unsent, JobsKnow,
      JobKnows, Orca!Me, FencesStand, Orca!Unproven, BuriedRejected
<1> QED BY <1>1, <1>2, <1>3 DEF Orca!Next

LEMMA CommandInvariant == ASSUME OrcaConstants PROVE Orca!Spec => []CommandInv
BY CommandInit, CommandNext, PTL DEF Orca!Spec

\* For every set of hosts, requests and commands and any number of restarts, however
\* Orca delays, drops or answers: at most one command reaches the terminal for a
\* request, and once; and one that a person released before it arrived never does.
THEOREM CommandsKept ==
    ASSUME OrcaConstants
    PROVE  Orca!Spec => [](Orca!TypeOK /\ Orca!SentOnce /\ Orca!BuriedStaysBuried)
<1>1. CommandInv => Orca!SentOnce
  <2> SUFFICES ASSUME ReceiptsTell, NEW r \in Id, NEW v \in Command, NEW w \in Command,
                      sent[<<r, v>>] > 0, sent[<<r, w>>] > 0
               PROVE  v = w /\ sent[<<r, v>>] = 1
    BY DEF CommandInv, Orca!SentOnce
  <2>1. receipt[r].what = v /\ receipt[r].what = w /\ sent[<<r, v>>] \in {0, 1}
    BY DEF ReceiptsTell
  <2> QED BY <2>1
<1>2. CommandInv => Orca!BuriedStaysBuried
  BY DEF CommandInv, ReceiptsTell, BuriedRejected, Unsent, Orca!BuriedStaysBuried
<1>3. CommandInv => Orca!TypeOK
  BY DEF CommandInv
<1> QED BY <1>1, <1>2, <1>3, CommandInvariant, PTL

\* Only Send hands a command to Orca.
LEMMA OnlySendHands ==
    ASSUME Orca!Next, NEW r \in Id, NEW what \in Command, <<r, what>> \in flying' \ flying
    PROVE  \E h \in Host : Orca!Send(h) /\ job[h].r = r
<1>1. ASSUME NEW c \in Id \X Command, Orca!Deliver(c) \/ Orca!Drop(c) PROVE FALSE
  BY <1>1 DEF Orca!Deliver, Orca!Drop
<1>2. ASSUME NEW h \in Host, Orca!Step(h) PROVE Orca!Send(h)
  BY <1>2 DEF Orca!Step, Orca!Read, Orca!Acknowledge, Orca!Execute, Orca!Refuse, Orca!Prepare,
      Orca!Fence, Orca!RecordFails, Orca!Settle, Orca!Unknown, Orca!Restart, Orca!orca
<1>3. PICK h \in Host : Orca!Send(h)
  BY <1>1, <1>2 DEF Orca!Next
<1>4. <<r, what>> = <<job[h].r, job[h].what>>
  BY <1>3 DEF Orca!Send
<1> QED BY <1>3, <1>4

\* A host hands no command to Orca while the outcome of another one that it handed
\* over, in this boot or an earlier one, is neither proven nor released.
THEOREM FenceIsKept == ASSUME OrcaConstants PROVE Orca!Spec => Orca!FenceHolds
<1> DEFINE Fenced ==
      \A r \in Id : (\E what \in Command : <<r, what>> \in flying' \ flying)
         => \A q \in Id \ {r} :
               Orca!Unproven(receipt[q]) => receipt[q].by[1] # receipt[r].by[1]
<1>1. ASSUME CommandInv, [Orca!Next]_Orca!vars PROVE [Fenced]_Orca!vars
  <2> SUFFICES ASSUME Orca!Next, NEW r \in Id, NEW what \in Command,
                      <<r, what>> \in flying' \ flying,
                      NEW q \in Id \ {r}, Orca!Unproven(receipt[q])
               PROVE  receipt[q].by[1] # receipt[r].by[1]
    BY <1>1
  <2>1. PICK h \in Host : Orca!Send(h) /\ job[h].r = r
    BY OnlySendHands
  <2>2. job[h] # None /\ job[h].phase = "fenced"
    BY <2>1 DEF Orca!Send, Orca!In
  <2>3. receipt[r].by[1] = h
    BY <1>1, <2>1, <2>2 DEF CommandInv, JobsKnow, JobKnows, Orca!Me
  <2> QED BY <1>1, <2>1, <2>2, <2>3 DEF CommandInv, FencesStand
<1> QED BY <1>1, CommandInvariant, PTL DEF Orca!Spec, Orca!FenceHolds

-----------------------------------------------------------------------------
(* Answers, while no other host reads the journal.                         *)

OneHost == \A g, h \in Host : g = h

\* What the journal has to say for an answer to stay true.
Backed(r, w, state) ==
    /\ state = "rejected" =>
          /\ receipt[r] # None
          /\ \/ receipt[r].what # w \/ receipt[r].state = "rejected"
             \/ receipt[r].state = "prepared" /\ \A h \in Host : job[h] # None => job[h].r # r
    /\ state = "written" =>
          receipt[r] # None /\ receipt[r].what = w /\ receipt[r].state = "written"

AnswersBacked ==
    \A r \in Id, w \in Command, state \in Orca!States :
        <<r, w, state>> \in told => Backed(r, w, state)

AnswerInv == CommandInv /\ AnswersBacked

\* Receipts go on, jobs go on or end, and what is answered is backed.
LEMMA AnswersGoOn ==
    ASSUME AnswersBacked, NEW h \in Host,
           \A q \in Id : Onward(h, receipt[q], receipt'[q]),
           \A g \in Host : job'[g] = None \/ (job'[g] = job[g] /\ boot'[g] = boot[g]),
           \A r \in Id, w \in Command, state \in Orca!States :
              <<r, w, state>> \in told' => <<r, w, state>> \in told \/ Backed(r, w, state)'
    PROVE  AnswersBacked'
<1> SUFFICES ASSUME NEW r \in Id, NEW w \in Command, NEW state \in Orca!States,
                    <<r, w, state>> \in told, Backed(r, w, state)
             PROVE  Backed(r, w, state)'
  BY DEF AnswersBacked
<1>1. Onward(h, receipt[r], receipt'[r])
  OBVIOUS
<1> QED BY <1>1 DEF Backed, Onward

\* What is reported of a receipt is backed, when no job is open.
LEMMA ReportIsBacked ==
    ASSUME NEW r \in Id, receipt[r] # None, receipt' = receipt, receipt[r] \in Orca!Receipt,
           \A h \in Host : job'[h] = None
    PROVE  Backed(r, receipt[r].what, Orca!Reported(receipt[r]))'
BY DEF Backed, Orca!Reported, Orca!Receipt, Orca!States

\* A step of a host keeps answers backed.
LEMMA AnswersKept ==
    ASSUME OrcaConstants, OneHost, AnswerInv, NEW h \in Host, Orca!Step(h)
    PROVE  AnswersBacked'
<1> USE ReceiptParts DEF AnswerInv, CommandInv
<1>0. \A g \in Host : g = h
  BY DEF OneHost
<1>1. ASSUME NEW r \in Id, Orca!Read(h, r) PROVE AnswersBacked'
  <2>1. \A q \in Id : Onward(h, receipt[q], receipt'[q])
    BY <1>1 DEF Orca!Read, Onward
  <2>2. \A g \in Host : job'[g] = None
    BY <1>0, <1>1 DEF Orca!Read
  <2>3. Backed(r, receipt[r].what, Orca!Reported(receipt[r]))'
    BY <1>1, <2>2, ReportIsBacked DEF Orca!Read
  <2>4. \A q \in Id, w \in Command, state \in Orca!States :
           <<q, w, state>> \in told' => <<q, w, state>> \in told \/ Backed(q, w, state)'
    BY <1>1, <2>3 DEF Orca!Read, Orca!Answer
  <2> QED BY <2>1, <2>2, <2>4, AnswersGoOn
<1>2. ASSUME NEW r \in Id, Orca!Acknowledge(h, r) PROVE AnswersBacked'
  <2>1. \A q \in Id : Onward(h, receipt[q], receipt'[q])
    <3>1. CASE Orca!Release(h, r)
      <4>1. /\ receipt'[r] = [receipt[r] EXCEPT !.acked = TRUE]
            /\ \A q \in Id \ {r} : receipt'[q] = receipt[q]
        BY <3>1 DEF Orca!Release, Orca!TypeOK
      <4>2. receipt[r] # None /\ receipt[r] \in Orca!Receipt
        BY <3>1 DEF Orca!Release
      <4>3. Onward(h, receipt[r], receipt'[r])
        BY <4>1, <4>2, FieldsMove DEF Onward, OrcaConstants
      <4> QED BY <4>1, <4>3 DEF Onward
    <3>2. CASE Orca!Bury(h, r)
      BY <1>2, <3>2 DEF Orca!Acknowledge, Orca!Bury, Orca!Stored, Orca!Me, Orca!States, Onward,
          Orca!TypeOK, Orca!Receipt, OrcaConstants
    <3> QED BY <1>2, <3>1, <3>2 DEF Orca!Acknowledge
  <2>2. \A q \in Id, w \in Command, state \in Orca!States :
           <<q, w, state>> \in told' => <<q, w, state>> \in told
    <3>1. CASE Orca!Release(h, r)
      BY <3>1 DEF Orca!Release
    <3>2. CASE Orca!Bury(h, r)
      <4>1. \A t \in told' : t \in told \/ \E what \in Command : t = <<r, what, "released">>
        BY <3>2 DEF Orca!Bury, Orca!Released
      <4> QED BY <4>1 DEF Orca!States
    <3> QED BY <1>2, <3>1, <3>2 DEF Orca!Acknowledge
  <2>3. \A g \in Host : job'[g] = None \/ (job'[g] = job[g] /\ boot'[g] = boot[g])
    BY <1>2 DEF Orca!Acknowledge
  <2> QED BY <2>1, <2>2, <2>3, AnswersGoOn
<1>3. ASSUME NEW r \in Id, NEW what \in Command, Orca!Execute(h, r, what), Orca!Replay(h, r, what)
      PROVE  AnswersBacked'
  <2>1. \A q \in Id : Onward(h, receipt[q], receipt'[q])
    BY <1>3 DEF Orca!Replay, Onward
  <2>2. \A g \in Host : job'[g] = None
    BY <1>0, <1>3 DEF Orca!Execute, Orca!Replay
  <2>3. Backed(r, receipt[r].what, Orca!Reported(receipt[r]))'
    BY <1>3, <2>2, ReportIsBacked DEF Orca!Replay
  <2>4. receipt[r].what # what => Backed(r, what, "rejected")'
    BY <1>3 DEF Orca!Replay, Backed
  <2>5. \A q \in Id, w \in Command, state \in Orca!States :
           <<q, w, state>> \in told' => <<q, w, state>> \in told \/ Backed(q, w, state)'
    BY <1>3, <2>3, <2>4 DEF Orca!Replay, Orca!Answer
  <2> QED BY <2>1, <2>2, <2>5, AnswersGoOn
<1>4. ASSUME NEW r \in Id, NEW what \in Command, Orca!Execute(h, r, what),
             Orca!RefuseFenced(h, r, what)
      PROVE  AnswersBacked'
  <2>1. [state |-> "rejected", by |-> Orca!Me(h), what |-> what, acked |-> FALSE] \in Orca!Receipt
    BY DEF Orca!Receipt, Orca!States, Orca!Me
  <2>2. receipt'[r] # None /\ receipt'[r].state = "rejected"
    BY <1>4, <2>1 DEF Orca!RefuseFenced, Orca!Stored, Orca!TypeOK, OrcaConstants
  <2>3. \A q \in Id : Onward(h, receipt[q], receipt'[q])
    BY <1>4, <2>2 DEF Orca!Execute, Orca!RefuseFenced, Orca!Stored, Orca!Me, Onward, Orca!TypeOK
  <2>4. Backed(r, what, "rejected")'
    BY <2>2 DEF Backed
  <2>5. \A q \in Id, w \in Command, state \in Orca!States :
           <<q, w, state>> \in told' => <<q, w, state>> \in told \/ Backed(q, w, state)'
    BY <1>4, <2>4 DEF Orca!RefuseFenced, Orca!Answer
  <2>6. \A g \in Host : job'[g] = None \/ (job'[g] = job[g] /\ boot'[g] = boot[g])
    BY <1>4 DEF Orca!Execute, Orca!RefuseFenced
  <2> QED BY <2>3, <2>5, <2>6, AnswersGoOn
<1>5. ASSUME NEW r \in Id, NEW what \in Command, Orca!Execute(h, r, what), Orca!Take(h, r, what)
      PROVE  AnswersBacked'
  BY <1>0, <1>5 DEF Orca!Execute, Orca!Take, AnswersBacked, Backed, Orca!TypeOK
<1> DEFINE j == job[h]
<1>6. ASSUME Orca!Refuse(h) PROVE AnswersBacked'
  <2>0. PICK p \in Id, x \in Command : j # None /\ p = j.r /\ x = j.what
    BY <1>6 DEF Orca!In, Orca!Refuse, Orca!RecordFails, Orca!Settle
  <2>1. j # None /\ p \in Id /\ x \in Command /\ receipt[p] = None
    BY <2>0, <1>0, <1>6 DEF Orca!Refuse, Orca!In, JobsKnow, JobKnows
  <2>2. [state |-> "rejected", by |-> Orca!Me(h), what |-> x, acked |-> FALSE] \in Orca!Receipt
    BY <2>0, <2>1 DEF Orca!Receipt, Orca!States, Orca!Me
  <2>3. receipt'[p] = None \/ receipt'[p].state = "rejected"
    BY <2>0, <1>6, <2>1 DEF Orca!Refuse, Orca!Stored, Orca!TypeOK
  <2>4. \A q \in Id : Onward(h, receipt[q], receipt'[q])
    BY <2>0, <1>6, <2>1, <2>2 DEF Orca!Refuse, Orca!EndJob, Orca!Stored, Orca!Me, Onward,
        Orca!TypeOK,
        OrcaConstants
  <2>5. receipt'[p] # None => Backed(p, x, "rejected")'
    BY <2>0, <2>3 DEF Backed
  <2>6. \A q \in Id, w \in Command, state \in Orca!States :
           <<q, w, state>> \in told' => <<q, w, state>> \in told \/ Backed(q, w, state)'
    BY <2>0, <1>6, <2>5 DEF Orca!Refuse, Orca!AnswerRefused, Orca!Answer, Orca!States
  <2>7. \A g \in Host : job'[g] = None \/ (job'[g] = job[g] /\ boot'[g] = boot[g])
    BY <2>0, <1>6 DEF Orca!Refuse, Orca!EndJob, Orca!orca, Orca!TypeOK
  <2> QED BY <2>0, <2>4, <2>6, <2>7, AnswersGoOn
<1>7. ASSUME Orca!Prepare(h) PROVE AnswersBacked'
  <2>1. j # None /\ j.r \in Id /\ receipt[j.r] = None
    BY <1>0, <1>7 DEF Orca!Prepare, Orca!In, JobsKnow, JobKnows
  <2>2. /\ told' = told /\ \A q \in Id \ {j.r} : receipt'[q] = receipt[q]
        /\ \A g \in Host : job'[g] # None => job'[g].r = j.r
    BY <1>0, <1>7, <2>1 DEF Orca!Prepare, Orca!Stored, Orca!Goto, Orca!TypeOK
  <2> QED BY <2>1, <2>2 DEF AnswersBacked, Backed
<1>8. ASSUME Orca!Fence(h) PROVE AnswersBacked'
  <2>1. /\ j # None /\ j.r \in Id /\ receipt[j.r] # None
        /\ receipt[j.r].state = "prepared" /\ receipt[j.r].what = j.what
    BY <1>8 DEF Orca!Fence, Orca!In, Orca!Can, JobsKnow, JobKnows
  <2>2. /\ told' = told /\ \A q \in Id \ {j.r} : receipt'[q] = receipt[q]
        /\ \A g \in Host : job'[g] # None => job'[g].r = j.r
        /\ receipt' = [receipt EXCEPT ![j.r].state = "write_started"]
    BY <1>0, <1>8, <2>1 DEF Orca!Fence, Orca!Moved, Orca!Goto, Orca!TypeOK
  <2>3. receipt'[j.r] # None /\ receipt'[j.r].what = receipt[j.r].what
    BY <2>1, <2>2, ReceiptMoves DEF Orca!States
  <2> QED BY <2>1, <2>2, <2>3 DEF AnswersBacked, Backed
<1>9. ASSUME Orca!RecordFails(h) PROVE AnswersBacked'
  <2>0. PICK p \in Id, x \in Command : j # None /\ p = j.r /\ x = j.what
    BY <1>9 DEF Orca!In, Orca!Refuse, Orca!RecordFails, Orca!Settle
  <2>1. /\ j # None /\ p \in Id /\ x \in Command
        /\ \/ receipt[p] = None
           \/ receipt[p] # None /\ receipt[p].state \in {"prepared", "rejected"}
    BY <2>0, <1>0, <1>9 DEF Orca!RecordFails, Orca!In, JobsKnow, JobKnows
  <2>2. \/ receipt' = receipt
        \/ /\ receipt[p] # None /\ receipt[p].state = "prepared"
           /\ receipt' = [receipt EXCEPT ![p].state = "rejected"]
    BY <2>0, <1>9 DEF Orca!RecordFails, Orca!Can, Orca!Moved
  <2>3. CASE receipt' = receipt
    <3>1. \A q \in Id : Onward(h, receipt[q], receipt'[q])
      BY <2>0, <2>3 DEF Onward
    <3>2. \A g \in Host : job'[g] = None
      BY <2>0, <1>0, <1>9 DEF Orca!RecordFails, Orca!EndJob, Orca!TypeOK
    <3>3. receipt'[p] # None => Backed(p, x, "rejected")'
      BY <2>0, <2>1, <2>3, <3>2 DEF Backed
    <3>4. \A q \in Id, w \in Command, state \in Orca!States :
             <<q, w, state>> \in told' => <<q, w, state>> \in told \/ Backed(q, w, state)'
      BY <2>0, <1>9, <3>3 DEF Orca!RecordFails, Orca!AnswerRefused, Orca!Answer, Orca!States
    <3> QED BY <2>0, <3>1, <3>2, <3>4, AnswersGoOn
  <2>4. CASE /\ receipt[p] # None /\ receipt[p].state = "prepared"
             /\ receipt' = [receipt EXCEPT ![p].state = "rejected"]
    <3>1. /\ receipt'[p] # None /\ receipt'[p].state = "rejected"
          /\ receipt'[p].by = receipt[p].by /\ receipt'[p].what = receipt[p].what
          /\ receipt'[p].acked = receipt[p].acked
          /\ \A q \in Id \ {p} : receipt'[q] = receipt[q]
      BY <2>0, <2>1, <2>4, ReceiptMoves DEF Orca!States
    <3>2. \A q \in Id : Onward(h, receipt[q], receipt'[q])
      BY <2>0, <2>4, <3>1 DEF Onward
    <3>3. Backed(p, x, "rejected")'
      BY <2>0, <3>1 DEF Backed
    <3>4. \A q \in Id, w \in Command, state \in Orca!States :
             <<q, w, state>> \in told' => <<q, w, state>> \in told \/ Backed(q, w, state)'
      BY <2>0, <1>9, <3>1, <3>3 DEF Orca!RecordFails, Orca!AnswerRefused, Orca!Answer
    <3>5. \A g \in Host : job'[g] = None \/ (job'[g] = job[g] /\ boot'[g] = boot[g])
      BY <2>0, <1>9 DEF Orca!RecordFails, Orca!EndJob, Orca!TypeOK
    <3> QED BY <2>0, <3>2, <3>4, <3>5, AnswersGoOn
  <2> QED BY <2>0, <2>2, <2>3, <2>4
<1>10. ASSUME Orca!Send(h) PROVE AnswersBacked'
  <2>1. \A g \in Host : job[g] # None /\ (job'[g] # None => job'[g].r = job[g].r)
    BY <1>0, <1>10 DEF Orca!Send, Orca!In, Orca!Goto, Orca!TypeOK
  <2> QED BY <1>10, <2>1 DEF Orca!Send, AnswersBacked, Backed
<1>11. ASSUME Orca!Settle(h) PROVE AnswersBacked'
  <2>0. PICK p \in Id, x \in Command : j # None /\ p = j.r /\ x = j.what
    BY <1>11 DEF Orca!In, Orca!Refuse, Orca!RecordFails, Orca!Settle
  <2>1. /\ j # None /\ p \in Id /\ x \in Command /\ receipt[p] # None
        /\ receipt[p].state = "write_started" /\ receipt[p].what = x
    BY <2>0, <1>11 DEF Orca!Settle, Orca!In, Orca!Can, JobsKnow, JobKnows
  <2>2. PICK to \in {"written", "rejected"} :
           /\ receipt' = [receipt EXCEPT ![p].state = to]
           /\ told' = told \cup {<<p, x, to>>}
    BY <2>0, <1>11 DEF Orca!Settle, Orca!Moved, Orca!Answer
  <2>3. to \in Orca!States /\ \A g \in Host : job'[g] = None
    BY <1>0, <1>11 DEF Orca!Settle, Orca!EndJob, Orca!States, Orca!TypeOK
  <2>4. /\ receipt'[p] # None /\ receipt'[p].state = to
        /\ receipt'[p].what = receipt[p].what
        /\ \A q \in Id \ {p} : receipt'[q] = receipt[q]
    <3>1. /\ Orca!TypeOK /\ p \in Id /\ receipt[p] # None /\ to \in Orca!States
          /\ receipt' = [receipt EXCEPT ![p].state = to]
      BY <2>0, <2>1, <2>2, <2>3
    <3> QED BY <3>1, ReceiptMoves
  <2>5. Backed(p, x, to)'
    BY <2>0, <2>1, <2>4 DEF Backed
  <2>6. ASSUME NEW q \in Id, NEW w \in Command, NEW state \in Orca!States,
               <<q, w, state>> \in told
        PROVE  Backed(q, w, state)'
    <3>1. Backed(q, w, state)
      BY <2>0, <2>6 DEF AnswersBacked
    <3>2. CASE q = p
      BY <2>0, <2>1, <2>4, <3>1, <3>2 DEF Backed
    <3>3. CASE q # p
      BY <2>3, <2>4, <3>1, <3>3 DEF Backed
    <3> QED BY <2>0, <3>2, <3>3
  <2> QED BY <2>0, <2>2, <2>5, <2>6 DEF AnswersBacked
<1>12. ASSUME Orca!Unknown(h) PROVE AnswersBacked'
  <2>1. j # None /\ j.r \in Id
    BY <1>12 DEF Orca!Unknown, Orca!In
  <2>2. \/ receipt' = receipt
        \/ /\ receipt[j.r] # None /\ receipt[j.r].state = "write_started"
           /\ receipt' = [receipt EXCEPT ![j.r].state = "unknown"]
    BY <1>12 DEF Orca!Unknown, Orca!Can, Orca!Moved
  <2>3. \A q \in Id : Onward(h, receipt[q], receipt'[q])
    <3>1. CASE receipt' = receipt
      BY <3>1 DEF Onward
    <3>2. CASE receipt' # receipt
      <4>1. /\ receipt'[j.r] # None /\ receipt'[j.r].state = "unknown"
            /\ receipt'[j.r].by = receipt[j.r].by /\ receipt'[j.r].what = receipt[j.r].what
            /\ receipt'[j.r].acked = receipt[j.r].acked
            /\ \A q \in Id \ {j.r} : receipt'[q] = receipt[q]
        BY <2>1, <2>2, <3>2, ReceiptMoves DEF Orca!States
      <4> QED BY <2>2, <3>2, <4>1 DEF Onward
    <3> QED BY <3>1, <3>2
  <2>4. \A q \in Id, w \in Command, state \in Orca!States :
           <<q, w, state>> \in told' => <<q, w, state>> \in told \/ Backed(q, w, state)'
    BY <1>12 DEF Orca!Unknown, Orca!Answer, Backed
  <2>5. \A g \in Host : job'[g] = None \/ (job'[g] = job[g] /\ boot'[g] = boot[g])
    BY <1>12 DEF Orca!Unknown, Orca!EndJob, Orca!orca, Orca!TypeOK
  <2> QED BY <2>3, <2>4, <2>5, AnswersGoOn
<1>13. ASSUME NEW aged \in SUBSET Id, Orca!Restart(h, aged) PROVE AnswersBacked'
  <2>1. told' = told /\ \A g \in Host : job'[g] = None
    BY <1>0, <1>13 DEF Orca!Restart, Orca!TypeOK
  <2>2. ASSUME NEW q \in Id, NEW w \in Command, NEW state \in Orca!States, Backed(q, w, state)
        PROVE  Backed(q, w, state)'
    <3>1. CASE receipt'[q] = receipt[q]
      BY <2>1, <2>2, <3>1 DEF Backed
    <3>2. CASE receipt'[q] # receipt[q]
      <4>1. /\ receipt[q] # None
            /\ \/ receipt[q].state = "write_started"
               \/ /\ receipt[q].state = "prepared"
                  /\ receipt'[q] = [receipt[q] EXCEPT !.state = "rejected"]
            /\ \E to \in Orca!States : receipt'[q] = [receipt[q] EXCEPT !.state = to]
        BY <1>13, <3>2 DEF Orca!Restart, Orca!States
      <4>2. /\ receipt'[q] \in Orca!Receipt /\ receipt'[q].what = receipt[q].what
            /\ receipt[q].state = "prepared" => receipt'[q].state = "rejected"
        BY <4>1, FieldsMove DEF Orca!Receipt
      <4>3. receipt'[q] # None
        BY <4>2 DEF OrcaConstants
      <4> QED BY <2>2, <4>1, <4>2, <4>3 DEF Backed
    <3> QED BY <3>1, <3>2
  <2> QED BY <2>1, <2>2 DEF AnswersBacked
<1>14. \A r \in Id, what \in Command : Orca!Execute(h, r, what) => AnswersBacked'
  BY <1>3, <1>4, <1>5 DEF Orca!Execute
<1> QED BY <1>1, <1>2, <1>14, <1>6, <1>7, <1>8, <1>9, <1>10, <1>11, <1>12, <1>13 DEF Orca!Step

\* While no other host reads the journal, for every set of requests and commands and any
\* number of restarts: a command said to be rejected is never typed, also not when Orca
\* delivers late, and one said to be written was typed.
THEOREM AnswersStayKept ==
    ASSUME OrcaConstants, OneHost PROVE Orca!Spec => []Orca!AnswersStayTrue
<1>1. Orca!Init => AnswerInv
  BY CommandInit DEF Orca!Init, AnswerInv, AnswersBacked
<1>2. AnswerInv /\ [Orca!Next]_Orca!vars => AnswerInv'
  <2> SUFFICES ASSUME AnswerInv, [Orca!Next]_Orca!vars PROVE AnswersBacked'
    BY CommandNext DEF AnswerInv
  <2>1. ASSUME NEW h \in Host, Orca!Step(h) PROVE AnswersBacked'
    BY <2>1, AnswersKept
  <2>2. ASSUME NEW c \in Id \X Command, Orca!Deliver(c) \/ Orca!Drop(c) PROVE AnswersBacked'
    BY <2>2 DEF Orca!Deliver, Orca!Drop, AnswerInv, AnswersBacked, Backed
  <2>3. CASE UNCHANGED Orca!vars
    BY <2>3 DEF Orca!vars, AnswerInv, AnswersBacked, Backed
  <2> QED BY <2>1, <2>2, <2>3 DEF Orca!Next
<1>3. AnswerInv => Orca!AnswersStayTrue
  <2> SUFFICES ASSUME ReceiptsTell, AnswersBacked, NEW r \in Id, NEW w \in Command
               PROVE  /\ <<r, w, "rejected">> \in told =>
                            sent[<<r, w>>] = 0 /\ <<r, w>> \notin flying
                      /\ <<r, w, "written">> \in told => sent[<<r, w>>] > 0
    BY DEF AnswerInv, CommandInv, Orca!AnswersStayTrue
  <2>1. "rejected" \in Orca!States /\ "written" \in Orca!States
    BY DEF Orca!States
  <2>2. ReceiptsTell!(r)
    BY DEF ReceiptsTell
  <2>3. ASSUME <<r, w, "rejected">> \in told
        PROVE  sent[<<r, w>>] = 0 /\ <<r, w>> \notin flying
    <3>1. Backed(r, w, "rejected")
      BY <2>1, <2>3 DEF AnswersBacked
    <3>2. CASE receipt[r].what # w
      BY <2>2, <3>2
    <3>3. CASE receipt[r].what = w
      BY <2>2, <3>1, <3>3 DEF Backed, Unsent
    <3> QED BY <3>2, <3>3
  <2>4. ASSUME <<r, w, "written">> \in told PROVE sent[<<r, w>>] > 0
    <3>1. Backed(r, w, "written")
      BY <2>1, <2>4 DEF AnswersBacked
    <3> QED BY <2>2, <3>1 DEF Backed
  <2> QED BY <2>3, <2>4
<1> QED BY <1>1, <1>2, <1>3, PTL DEF Orca!Spec
-----------------------------------------------------------------------------
(* Submissions to a workroom.                                              *)

CONSTANTS Inputs, Launches, Texts, Chunks, MaxAssemblies, MaxRaws, MaxEscs

VARIABLES entry, opened, asm, writer, session, closed, rev, typed, shown, raws, escaped

Workroom == INSTANCE WorkroomSubmissions WITH row <- entry, boot <- opened, told <- shown

Submitted == Workroom!Ids
Pieces == [Workroom!Chunk -> Texts \cup {None}]
Intents == [text : Texts, how : {"parts", "first", "single"}, rev : Nat]
EntryStates == {"none", "prepared"} \cup Workroom!PastFence
Entries == [state : EntryStates, boot : 0 .. MaxBoots, intent : {None} \cup Intents]
Reservations == [parts : Pieces, writing : BOOLEAN]
Phases == {"asking", "settling", "ready", "fenced"}
Writers == [id : Submitted, text : Pieces, n : 0 .. 2, phase : Phases]

\* What the proofs ask of the constants: None stands for no text, no intent, no
\* reservation and no writer, and a text has a chunk.
WorkroomConstants ==
    /\ Inputs \cap Launches = {}
    /\ Chunks \in Nat \ {0} /\ MaxBoots \in Nat \ {0}
    /\ None \notin Texts \cup Intents \cup Reservations \cup Writers

-----------------------------------------------------------------------------
(* The invariant.                                                          *)

\* What the journal says of what was typed.
EntriesTell ==
    \A id \in Submitted :
        /\ entry[id].state = "none" <=> entry[id].intent = None
        /\ entry[id].state = "none" => entry[id] = Workroom!NoRow
        /\ entry[id].boot <= opened
        /\ entry[id].state \in {"none", "prepared", "rejected"} => typed[id] = <<>>
        /\ typed[id] # <<>> => typed[id][1] = Workroom!Whole(entry[id].intent.text)
        /\ Len(typed[id]) <= Workroom!Steps(id)
        /\ Len(typed[id]) = 2 => typed[id][2] = Workroom!Enter
        /\ entry[id].state = "written" => Len(typed[id]) = Workroom!Steps(id)

\* What a writer carries and how far it is.
WriterKnowsEntry(l, w) ==
    /\ Workroom!Lane(w.id) = l /\ entry[w.id].intent # None
    /\ w.text = Workroom!Whole(entry[w.id].intent.text)
    /\ w.phase # "fenced" => w.n = 0 /\ entry[w.id].state \in {"prepared", "rejected"}
    /\ w.phase = "fenced" =>
          w.n = Len(typed[w.id]) /\ entry[w.id].state \in {"write_started", "unknown"}
    /\ w.id \in Inputs \ escaped =>
          rev = entry[w.id].intent.rev + (IF w.phase = "fenced" THEN 1 ELSE 0)

WritersKnow == \A l \in Workroom!Lanes : writer[l] # None => WriterKnowsEntry(l, writer[l])

\* What a receipt showed is still in the journal.
ShownStays ==
    \A id \in Submitted :
        /\ "rejected" \in shown[id] => entry[id].state = "rejected"
        /\ "held" \in shown[id] =>
              \/ entry[id].state = "rejected"
              \/ entry[id].state = "prepared" /\ entry[id].boot < opened
        /\ "written" \in shown[id] => entry[id].state = "written"

\* TypeOK by its parts.
WriterOfReservation ==
    \A id \in Submitted : asm[id] # None /\ asm[id].writing =>
        writer[Workroom!Lane(id)] # None /\ writer[Workroom!Lane(id)].id = id

TypeParts ==
    /\ entry \in [Submitted -> Entries] /\ opened \in 1 .. MaxBoots
    /\ asm \in [Submitted -> {None} \cup Reservations]
    /\ writer \in [Workroom!Lanes -> {None} \cup Writers]
    /\ WriterOfReservation
    /\ session \in {"running", "ended"} /\ closed \in BOOLEAN
    /\ rev \in Nat /\ raws \in Nat /\ escaped \subseteq Submitted
    /\ typed \in [Submitted -> Seq(Pieces)]
    /\ shown \in [Submitted -> SUBSET ({"prepared", "held"} \cup Workroom!PastFence)]

SubmissionInv == TypeParts /\ EntriesTell /\ WritersKnow /\ ShownStays

-----------------------------------------------------------------------------
(* Types.                                                                  *)

LEMMA TypeIsParts == Workroom!TypeOK <=> TypeParts
BY DEF Workroom!TypeOK, TypeParts, WriterOfReservation, Submitted, Entries, EntryStates, Intents,
    Pieces, Reservations, Writers, Phases

\* Lanes of ids.
LEMMA LaneOf == \A id \in Submitted : Workroom!Lane(id) \in Workroom!Lanes
BY DEF Workroom!Lane, Workroom!Lanes

\* Records of the journal, of reservations and of writers by their fields.
LEMMA WorkParts ==
    ASSUME WorkroomConstants, TypeParts
    PROVE  /\ \A id \in Submitted :
                 /\ entry[id] \in Entries /\ entry[id].state \in EntryStates
                 /\ entry[id].boot \in Nat /\ entry[id].intent \in {None} \cup Intents
                 /\ entry[id].intent # None =>
                       entry[id].intent.text \in Texts /\ entry[id].intent.rev \in Nat
           /\ opened \in Nat
           /\ \A l \in Workroom!Lanes : writer[l] # None =>
                 /\ writer[l] \in Writers /\ writer[l].id \in Submitted /\ writer[l].text \in Pieces
                 /\ writer[l].n \in 0 .. 2 /\ writer[l].phase \in Phases
           /\ \A id \in Submitted : asm[id] # None =>
                 asm[id] \in Reservations /\ asm[id].parts \in Pieces /\ asm[id].writing \in BOOLEAN
           /\ \A id \in Submitted : typed[id] \in Seq(Pieces)
<1>1. \A e \in Entries :
         e.state \in EntryStates /\ e.boot \in Nat /\ e.intent \in {None} \cup Intents
  BY DEF Entries, WorkroomConstants
<1>2. \A i \in Intents : i.text \in Texts /\ i.rev \in Nat
  BY DEF Intents
<1>3. \A w \in Writers :
         w.id \in Submitted /\ w.text \in Pieces /\ w.n \in 0 .. 2 /\ w.phase \in Phases
  BY DEF Writers
<1>4. \A a \in Reservations : a.parts \in Pieces /\ a.writing \in BOOLEAN
  BY DEF Reservations
<1> QED BY <1>1, <1>2, <1>3, <1>4 DEF TypeParts, WorkroomConstants

\* transitionSubmission moves one entry of this boot, or nothing.
LEMMA MoveFacts ==
    ASSUME WorkroomConstants, TypeParts, NEW id \in Submitted, NEW from, NEW to \in EntryStates,
           entry' = Workroom!Move(id, from, to)
    PROVE  /\ entry' \in [Submitted -> Entries]
           /\ \A k \in Submitted \ {id} : entry'[k] = entry[k]
           /\ \/ entry' = entry /\ ~Workroom!Can(id, from)
              \/ /\ entry[id].state = from /\ entry[id].boot = opened
                 /\ entry'[id].state = to /\ entry'[id].boot = entry[id].boot
                 /\ entry'[id].intent = entry[id].intent
<1>1. CASE ~Workroom!Can(id, from)
  BY <1>1 DEF Workroom!Move, TypeParts
<1>2. CASE Workroom!Can(id, from)
  <2>1. entry' = [entry EXCEPT ![id].state = to] /\ entry[id] \in Entries
    BY <1>2 DEF Workroom!Move, TypeParts
  <2>2. /\ entry'[id] = [entry[id] EXCEPT !.state = to]
        /\ \A k \in Submitted \ {id} : entry'[k] = entry[k]
    BY <2>1 DEF TypeParts
  <2>3. /\ entry'[id] \in Entries /\ entry'[id].state = to
        /\ entry'[id].boot = entry[id].boot /\ entry'[id].intent = entry[id].intent
    BY <2>1, <2>2 DEF Entries
  <2>4. entry' \in [Submitted -> Entries]
    BY <2>1, <2>2, <2>3 DEF TypeParts
  <2> QED BY <1>2, <2>2, <2>3, <2>4 DEF Workroom!Can
<1> QED BY <1>1, <1>2

-----------------------------------------------------------------------------
(* Steps.                                                                  *)

\* How the entry of an id moves.
Quiet(id) ==
    \/ entry'[id] = entry[id]
    \/ /\ entry'[id].intent = entry[id].intent /\ entry'[id].boot = entry[id].boot
       /\ \/ entry[id].state = "prepared" /\ entry'[id].state = "rejected"
          \/ entry[id].state = "write_started" /\ entry'[id].state = "unknown"

EntryMoves(id) ==
    \/ Quiet(id)
    \/ /\ entry[id].state = "none" /\ entry'[id].state = "prepared"
       /\ entry'[id].intent # None /\ entry'[id].boot = opened
    \/ /\ entry'[id].intent = entry[id].intent /\ entry'[id].boot = entry[id].boot
       /\ \/ entry[id].state = "prepared" /\ entry[id].boot = opened
             /\ entry'[id].state = "write_started"
          \/ entry[id].state = "write_started" /\ entry'[id].state = "written"
             /\ Len(typed[id]) = Workroom!Steps(id)

LEMMA EntriesGoOn ==
    ASSUME EntriesTell, typed' = typed, opened \in Nat, opened' \in Nat, opened' >= opened,
           \A id \in Submitted : entry[id].boot \in Nat,
           \A id \in Submitted : EntryMoves(id)
    PROVE  EntriesTell'
<1> SUFFICES ASSUME NEW id \in Submitted PROVE EntriesTell!(id)'
  BY DEF EntriesTell, Submitted, Workroom!Ids
<1>1. EntriesTell!(id) /\ EntryMoves(id) /\ entry[id].boot \in Nat
  BY DEF EntriesTell
<1>2. CASE Quiet(id)
  BY <1>1, <1>2 DEF Quiet, Workroom!Steps, Workroom!Whole, Workroom!Enter, Workroom!Empty,
      Workroom!NoRow
<1>3. CASE ~Quiet(id)
  BY <1>1, <1>3 DEF EntryMoves, Workroom!Steps, Workroom!Whole, Workroom!Enter, Workroom!Empty,
      Workroom!NoRow
<1> QED BY <1>2, <1>3

LEMMA ShownGoesOn ==
    ASSUME EntriesTell, ShownStays, opened \in Nat, opened' \in Nat, opened' >= opened,
           \A id \in Submitted : entry[id].boot \in Nat /\ entry[id].state # "held",
           \A id \in Submitted : EntryMoves(id),
           \A id \in Submitted : \A s \in shown'[id] :
              \/ s \in shown[id] \/ s = "prepared"
              \/ s = Workroom!Shown(entry'[id]) /\ opened' = opened
    PROVE  ShownStays'
<1> SUFFICES ASSUME NEW id \in Submitted PROVE ShownStays!(id)'
  BY DEF ShownStays, Submitted, Workroom!Ids
<1>1. ShownStays!(id) /\ EntriesTell!(id) /\ EntryMoves(id) /\ entry[id].boot \in Nat
         /\ entry[id].state # "held"
  BY DEF ShownStays, EntriesTell
<1>2. ASSUME "rejected" \in shown'[id] PROVE entry'[id].state = "rejected"
  <2>1. "rejected" \in shown[id] \/ Workroom!Shown(entry'[id]) = "rejected"
    BY <1>2
  <2> QED BY <1>1, <2>1 DEF EntryMoves, Quiet, Workroom!Shown
<1>3. ASSUME "written" \in shown'[id] PROVE entry'[id].state = "written"
  <2>1. "written" \in shown[id] \/ Workroom!Shown(entry'[id]) = "written"
    BY <1>3
  <2> QED BY <1>1, <2>1 DEF EntryMoves, Quiet, Workroom!Shown
<1>4. ASSUME "held" \in shown'[id]
      PROVE  entry'[id].state = "rejected"
             \/ (entry'[id].state = "prepared" /\ entry'[id].boot < opened')
  <2>1. CASE "held" \in shown[id]
    BY <1>1, <2>1 DEF EntryMoves, Quiet
  <2>2. CASE Workroom!Shown(entry'[id]) = "held" /\ opened' = opened
    <3>1. entry'[id].state = "held" \/ (entry'[id].state = "prepared" /\ entry'[id].boot # opened)
      BY <2>2 DEF Workroom!Shown
    <3>2. entry'[id].state # "held"
      BY <1>1 DEF EntryMoves, Quiet
    <3> QED BY <1>1, <2>2, <3>1, <3>2 DEF EntryMoves, Quiet
  <2> QED BY <1>4, <2>1, <2>2
<1> QED BY <1>2, <1>3, <1>4

\* Writers that go on as they are, or come nearer to the fence.
LEMMA WritersGoOn ==
    ASSUME WritersKnow, typed' = typed, escaped \subseteq escaped',
           \A l \in Workroom!Lanes : writer'[l] # None =>
              /\ writer[l] # None /\ writer'[l].id = writer[l].id
              /\ writer'[l].text = writer[l].text /\ writer'[l].n = writer[l].n
              /\ (writer'[l].phase = "fenced") <=> (writer[l].phase = "fenced")
              /\ Quiet(writer[l].id)
              /\ rev' = rev \/ writer[l].id \notin Inputs \ escaped'
    PROVE  WritersKnow'
<1> SUFFICES ASSUME NEW l \in Workroom!Lanes, writer'[l] # None
             PROVE  WriterKnowsEntry(l, writer[l])'
  BY DEF WritersKnow, Workroom!Lanes
<1>1. /\ writer[l] # None /\ writer'[l].id = writer[l].id
      /\ writer'[l].text = writer[l].text /\ writer'[l].n = writer[l].n
      /\ (writer'[l].phase = "fenced") <=> (writer[l].phase = "fenced")
      /\ Quiet(writer[l].id)
      /\ rev' = rev \/ writer[l].id \notin Inputs \ escaped'
  OBVIOUS
<1>2. WriterKnowsEntry(l, writer[l])
  BY <1>1 DEF WritersKnow
<1> QED BY <1>1, <1>2 DEF WriterKnowsEntry, Quiet, Workroom!Lane, Workroom!Whole

\* What is answered from the journal is a state of the receipt.
LEMMA ReplyFacts ==
    ASSUME TypeParts, NEW id \in Submitted, Workroom!Reply(id),
           entry'[id].state \in EntryStates \ {"none"}
    PROVE  /\ shown' \in [Submitted -> SUBSET ({"prepared", "held"} \cup Workroom!PastFence)]
           /\ \A k \in Submitted : \A s \in shown'[k] :
                 s \in shown[k] \/ s = Workroom!Shown(entry'[k])
<1>1. Workroom!Shown(entry'[id]) \in {"prepared", "held"} \cup Workroom!PastFence
  BY DEF Workroom!Shown, EntryStates
<1>2. shown' = [shown EXCEPT ![id] = shown[id] \cup {Workroom!Shown(entry'[id])}]
  BY DEF Workroom!Reply
<1> QED BY <1>1, <1>2 DEF TypeParts

\* A reservation prepares the entry of its id, or finds it prepared with this intent.
LEMMA ReservedFacts ==
    ASSUME WorkroomConstants, SubmissionInv, NEW id \in Submitted, NEW intent \in Intents,
           Workroom!Reservable(id, intent), entry' = Workroom!Prepared(id, intent)
    PROVE  /\ entry' \in [Submitted -> Entries]
           /\ \A k \in Submitted \ {id} : entry'[k] = entry[k]
           /\ entry'[id].state = "prepared" /\ entry'[id].boot = opened
           /\ entry'[id].intent = intent /\ intent # None
           /\ \A k \in Submitted : EntryMoves(k)
           /\ asm[id] = None /\ typed[id] = <<>>
<1> USE DEF SubmissionInv
<1>1. asm[id] = None /\ intent # None
  BY DEF Workroom!Reservable, WorkroomConstants
<1>2. CASE entry[id] = Workroom!NoRow
  <2>1. [state |-> "prepared", boot |-> opened, intent |-> intent] \in Entries
    BY DEF Entries, EntryStates, TypeParts
  <2>2. entry' = [entry EXCEPT ![id] = [state |-> "prepared", boot |-> opened, intent |-> intent]]
    BY <1>2 DEF Workroom!Prepared
  <2>3. /\ entry'[id] = [state |-> "prepared", boot |-> opened, intent |-> intent]
        /\ \A k \in Submitted \ {id} : entry'[k] = entry[k]
        /\ entry' \in [Submitted -> Entries]
    BY <2>1, <2>2 DEF TypeParts
  <2>4. entry[id].state = "none"
    BY <1>2 DEF Workroom!NoRow
  <2> QED BY <1>1, <2>3, <2>4 DEF EntryMoves, Quiet, EntriesTell
<1>3. CASE entry[id] # Workroom!NoRow
  <2>1. /\ entry' = entry /\ entry[id].state = "prepared" /\ entry[id].boot = opened
        /\ entry[id].intent = intent
    BY <1>3 DEF Workroom!Prepared, Workroom!Reservable, Workroom!Current
  <2> QED BY <1>1, <2>1 DEF EntryMoves, Quiet, EntriesTell, TypeParts
<1> QED BY <1>2, <1>3

\* A text goes to the writer of its lane.
LEMMA HandedFacts ==
    ASSUME WorkroomConstants, SubmissionInv, NEW id \in Submitted, NEW parts \in Pieces,
           Workroom!Hand(id, parts), writer[Workroom!Lane(id)] = None,
           \A k \in Submitted \ {id} : entry'[k] = entry[k],
           entry'[id].state = "prepared", entry'[id].intent # None,
           parts = Workroom!Whole(entry'[id].intent.text),
           id \in Inputs => rev = entry'[id].intent.rev, rev \in Nat,
           typed' = typed, escaped' = escaped, rev' = rev
    PROVE  /\ asm' \in [Submitted -> {None} \cup Reservations]
           /\ writer' \in [Workroom!Lanes -> {None} \cup Writers]
           /\ WriterOfReservation' /\ WritersKnow'
<1> USE DEF SubmissionInv
<1>0. Workroom!Lane(id) \in Workroom!Lanes
  BY LaneOf
<1>1. PICK p \in Workroom!Phases(id) :
         writer' = [writer EXCEPT ![Workroom!Lane(id)] =
                       [id |-> id, text |-> parts, n |-> 0, phase |-> p]]
  BY DEF Workroom!Hand
<1>2. p \in Phases /\ p # "fenced"
  BY DEF Workroom!Phases, Phases
<1>3. asm' = [asm EXCEPT ![id] = [parts |-> parts, writing |-> TRUE]]
  BY DEF Workroom!Hand
<1>4. [id |-> id, text |-> parts, n |-> 0, phase |-> p] \in Writers
  BY <1>2 DEF Writers
<1>5. asm' \in [Submitted -> {None} \cup Reservations]
  BY <1>3 DEF TypeParts, Reservations
<1>6. writer' \in [Workroom!Lanes -> {None} \cup Writers]
  BY <1>0, <1>1, <1>4 DEF TypeParts
<1>7. /\ writer'[Workroom!Lane(id)] = [id |-> id, text |-> parts, n |-> 0, phase |-> p]
      /\ \A l \in Workroom!Lanes \ {Workroom!Lane(id)} : writer'[l] = writer[l]
  BY <1>0, <1>1 DEF TypeParts
<1>8. WriterOfReservation'
  <2> SUFFICES ASSUME NEW k \in Submitted, asm'[k] # None, asm'[k].writing
               PROVE  writer'[Workroom!Lane(k)] # None /\ writer'[Workroom!Lane(k)].id = k
    BY DEF WriterOfReservation, Submitted, Workroom!Ids, Workroom!Lane
  <2>1. CASE k = id
    BY <1>4, <1>7, <2>1 DEF WorkroomConstants
  <2>2. CASE k # id
    <3>1. asm'[k] = asm[k] /\ Workroom!Lane(k) \in Workroom!Lanes
      BY <1>3, <2>2, LaneOf DEF TypeParts
    <3>2. writer[Workroom!Lane(k)] # None /\ writer[Workroom!Lane(k)].id = k
      BY <3>1 DEF TypeParts, WriterOfReservation
    <3> QED BY <1>7, <3>1, <3>2
  <2> QED BY <2>1, <2>2
<1>9. WritersKnow'
  <2> SUFFICES ASSUME NEW l \in Workroom!Lanes, writer'[l] # None
               PROVE  WriterKnowsEntry(l, writer[l])'
    BY DEF WritersKnow, Workroom!Lanes
  <2>1. CASE l = Workroom!Lane(id)
    BY <1>2, <1>7, <2>1 DEF WriterKnowsEntry, Workroom!Whole, Workroom!Lane
  <2>2. CASE l # Workroom!Lane(id)
    <3>1. writer'[l] = writer[l] /\ WriterKnowsEntry(l, writer[l])
      BY <1>7, <2>2 DEF WritersKnow
    <3>2. writer[l].id \in Submitted /\ writer[l].id # id
      BY <2>2, <3>1, WorkParts DEF WriterKnowsEntry
    <3> QED BY <3>1, <3>2 DEF WriterKnowsEntry, Workroom!Whole, Workroom!Lane
  <2> QED BY <2>1, <2>2
<1> QED BY <1>5, <1>6, <1>8, <1>9

\* Writers and reservations that stay, or of which some are dropped.
LEMMA ReservationsGo ==
    ASSUME WriterOfReservation,
           \A l \in Workroom!Lanes : writer'[l] = writer[l]
              \/ (writer[l] # None /\ writer'[l] # None /\ writer'[l].id = writer[l].id),
           \A id \in Submitted : asm'[id] = None \/ asm'[id] = asm[id]
              \/ (asm'[id] # None /\ ~asm'[id].writing)
    PROVE  WriterOfReservation'
BY LaneOf DEF WriterOfReservation, Submitted, Workroom!Ids, Workroom!Lane

\* Nothing happens to entries and writers.
LEMMA StillFacts ==
    ASSUME WorkroomConstants, SubmissionInv, entry' = entry, opened' = opened, writer' = writer,
           typed' = typed, escaped' = escaped, rev' = rev
    PROVE  /\ \A k \in Submitted : EntryMoves(k) /\ Quiet(k)
           /\ EntriesTell' /\ WritersKnow'
<1> USE WorkParts DEF SubmissionInv
<1>1. \A k \in Submitted : EntryMoves(k) /\ Quiet(k)
  BY DEF EntryMoves, Quiet
<1>2. EntriesTell'
  BY <1>1, EntriesGoOn
<1>3. WritersKnow'
  BY <1>1, WritersGoOn
<1> QED BY <1>1, <1>2, <1>3

\* The states of entries, for the lemmas about receipts.
LEMMA NeverHeld ==
    ASSUME WorkroomConstants, TypeParts
    PROVE  /\ opened \in Nat
           /\ \A id \in Submitted : entry[id].boot \in Nat /\ entry[id].state # "held"
BY WorkParts DEF EntryStates, Workroom!PastFence

\* An answer from the journal, nothing else changed.
LEMMA AnsweredKeeps ==
    ASSUME WorkroomConstants, SubmissionInv, NEW id \in Submitted, entry[id].state # "none",
           Workroom!Reply(id),
           UNCHANGED <<entry, opened, asm, writer, session, closed, rev, typed, raws, escaped>>
    PROVE  SubmissionInv'
<1> USE DEF SubmissionInv
<1>1. entry'[id].state \in EntryStates \ {"none"}
  BY WorkParts
<1>2. TypeParts'
  <2>1. shown' \in [Submitted -> SUBSET ({"prepared", "held"} \cup Workroom!PastFence)]
    BY <1>1, ReplyFacts
  <2>2. WriterOfReservation'
    BY ReservationsGo DEF TypeParts
  <2> QED BY <2>1, <2>2 DEF TypeParts, Submitted, Workroom!Ids, Entries,
         EntryStates, Intents, Reservations, Pieces, Writers
<1>3. EntriesTell' /\ WritersKnow'
  BY StillFacts
<1>4. ShownStays'
  BY <1>1, StillFacts, ReplyFacts, NeverHeld, ShownGoesOn
<1> QED BY <1>2, <1>3, <1>4

-----------------------------------------------------------------------------
(* Commands of a client.                                                   *)

\* The context of an input is the revision of its session.
LEMMA InputStateIsRev ==
    ASSUME WorkroomConstants, NEW id \in Submitted
    PROVE  /\ id \in Inputs => Workroom!InputState(id) = rev
           /\ rev \in Nat => Workroom!InputState(id) \in Nat
BY DEF Workroom!InputState, WorkroomConstants

LEMMA IntentIs ==
    ASSUME WorkroomConstants, TypeParts, NEW id \in Submitted, NEW text \in Texts,
           NEW how \in {"parts", "first", "single"}
    PROVE  /\ Workroom!Intent(id, text, how) \in Intents
           /\ Workroom!Intent(id, text, how).text = text
           /\ id \in Inputs => Workroom!Intent(id, text, how).rev = rev
BY InputStateIsRev DEF Workroom!Intent, Intents, TypeParts

\* Texts in chunks.
LEMMA PiecesOf ==
    /\ \A text \in Texts : Workroom!Whole(text) \in Pieces
    /\ Workroom!Empty \in Pieces /\ Workroom!Enter \in Pieces
    /\ \A parts \in Pieces, i \in Workroom!Chunk, text \in Texts :
          [parts EXCEPT ![i] = text] \in Pieces
BY DEF Workroom!Whole, Workroom!Empty, Workroom!Enter, Pieces

\* submission.begin
LEMMA BeginKeeps ==
    ASSUME WorkroomConstants, SubmissionInv, NEW id \in Submitted, NEW text \in Texts,
           NEW how \in {"parts", "first"}, Workroom!Begin(id, text, how)
    PROVE  SubmissionInv'
<1> DEFINE intent == Workroom!Intent(id, text, how)
<1>1. UNCHANGED <<opened, writer, session, closed, rev, typed, raws, escaped>> /\ Workroom!Reply(id)
  BY DEF Workroom!Begin
<1>2. CASE UNCHANGED <<entry, asm>> /\ entry[id].state # "none"
  BY <1>1, <1>2, AnsweredKeeps
<1>3. ASSUME Workroom!Reservable(id, intent), entry' = Workroom!Prepared(id, intent),
             asm' = [asm EXCEPT ![id] =
                [parts |-> IF how = "first" THEN [Workroom!Empty EXCEPT ![1] = text]
                           ELSE Workroom!Empty, writing |-> FALSE]]
      PROVE  SubmissionInv'
  <2> USE DEF SubmissionInv
  <2>1. intent \in Intents
    BY IntentIs
  <2>2. /\ entry' \in [Submitted -> Entries]
        /\ \A k \in Submitted \ {id} : entry'[k] = entry[k]
        /\ entry'[id].state = "prepared"
        /\ \A k \in Submitted : EntryMoves(k)
    BY <1>3, <2>1, ReservedFacts
  <2>3. PICK parts \in Pieces : asm' = [asm EXCEPT ![id] = [parts |-> parts, writing |-> FALSE]]
    <3>1. 1 \in Workroom!Chunk
      BY DEF WorkroomConstants, Workroom!Chunk
    <3> QED BY <1>3, <3>1, PiecesOf
  <2>4. [parts |-> parts, writing |-> FALSE] \in Reservations
    BY DEF Reservations
  <2>5. /\ asm' \in [Submitted -> {None} \cup Reservations]
        /\ asm'[id] # None /\ ~asm'[id].writing
        /\ \A k \in Submitted \ {id} : asm'[k] = asm[k]
    BY <2>3, <2>4 DEF TypeParts, WorkroomConstants
  <2>6. WriterOfReservation'
    BY <1>1, <2>5, ReservationsGo DEF TypeParts
  <2>7. entry'[id].state \in EntryStates \ {"none"}
    BY <2>2 DEF EntryStates
  <2>8. TypeParts'
    BY <1>1, <2>2, <2>5, <2>6, <2>7, ReplyFacts DEF TypeParts, Submitted, Workroom!Ids, Entries,
        EntryStates, Intents, Reservations, Pieces, Writers, Workroom!Chunk,
        Phases, Workroom!PastFence, Workroom!Lanes
  <2>9. EntriesTell'
    BY <1>1, <2>2, EntriesGoOn, NeverHeld
  <2>10. ShownStays'
    BY <1>1, <2>2, <2>7, ReplyFacts, ShownGoesOn, NeverHeld
  <2>11. WritersKnow'
    <3>1. ASSUME NEW l \in Workroom!Lanes, writer[l] # None PROVE Quiet(writer[l].id)
      <4>1. WriterKnowsEntry(l, writer[l]) /\ writer[l].id \in Submitted
        BY <3>1, WorkParts DEF WritersKnow
      <4>2. writer[l].id # id
        BY <1>3, <3>1, <4>1 DEF WriterKnowsEntry, Workroom!Begin, Workroom!Admits
      <4> QED BY <2>2, <4>1, <4>2 DEF Quiet
    <3> QED BY <1>1, <3>1, WritersGoOn
  <2> QED BY <2>8, <2>9, <2>10, <2>11
<1> QED
  <2>1. "none" \notin Workroom!PastFence
    BY DEF Workroom!PastFence
  <2> QED BY <1>2, <1>3, <2>1 DEF Workroom!Begin

\* What was uploaded, or a whole text, goes to the writer.
LEMMA HandingKeeps ==
    ASSUME WorkroomConstants, SubmissionInv, NEW id \in Submitted, NEW parts \in Pieces,
           Workroom!Hand(id, parts), writer[Workroom!Lane(id)] = None,
           entry' \in [Submitted -> Entries], \A k \in Submitted : EntryMoves(k),
           \A k \in Submitted \ {id} : entry'[k] = entry[k],
           entry'[id].state = "prepared", entry'[id].intent # None,
           parts = Workroom!Whole(entry'[id].intent.text),
           id \in Inputs => rev = entry'[id].intent.rev,
           UNCHANGED <<opened, session, closed, rev, typed, shown, raws, escaped>>
    PROVE  SubmissionInv'
<1> USE DEF SubmissionInv
<1>1. /\ asm' \in [Submitted -> {None} \cup Reservations]
      /\ writer' \in [Workroom!Lanes -> {None} \cup Writers]
      /\ WriterOfReservation' /\ WritersKnow'
  BY HandedFacts DEF TypeParts
<1>2. TypeParts'
  BY <1>1 DEF TypeParts, Submitted, Workroom!Ids, Entries,
        EntryStates, Intents, Reservations, Pieces, Writers, Workroom!Chunk,
        Phases, Workroom!PastFence, Workroom!Lanes
<1>3. EntriesTell' /\ ShownStays'
  BY EntriesGoOn, ShownGoesOn, NeverHeld
<1> QED BY <1>1, <1>2, <1>3

\* The text of a request in one command.
LEMMA SingleKeeps ==
    ASSUME WorkroomConstants, SubmissionInv, NEW id \in Submitted, NEW text \in Texts,
           Workroom!Single(id, text)
    PROVE  SubmissionInv'
<1> DEFINE intent == Workroom!Intent(id, text, "single")
<1>1. /\ writer[Workroom!Lane(id)] = None
      /\ UNCHANGED <<opened, session, closed, rev, typed, raws, escaped>>
  BY DEF Workroom!Single, Workroom!Admits
<1>2. CASE UNCHANGED <<entry, asm, writer>> /\ entry[id].state # "none" /\ Workroom!Reply(id)
  BY <1>1, <1>2, AnsweredKeeps
<1>3. ASSUME Workroom!Reservable(id, intent), entry' = Workroom!Prepared(id, intent),
             Workroom!Hand(id, Workroom!Whole(text)), shown' = shown
      PROVE  SubmissionInv'
  <2>1. intent \in Intents /\ intent.text = text /\ (id \in Inputs => intent.rev = rev)
    BY IntentIs DEF SubmissionInv
  <2>2. /\ entry' \in [Submitted -> Entries]
        /\ \A k \in Submitted \ {id} : entry'[k] = entry[k]
        /\ entry'[id].state = "prepared" /\ entry'[id].intent = intent /\ intent # None
        /\ \A k \in Submitted : EntryMoves(k)
    BY <1>3, <2>1, ReservedFacts
  <2>3. Workroom!Whole(text) \in Pieces /\ Workroom!Whole(text) = Workroom!Whole(intent.text)
    BY <2>1, PiecesOf
  <2> HIDE DEF intent
  <2> QED BY <1>1, <1>3, <2>1, <2>2, <2>3, HandingKeeps
<1> QED
  <2>1. "none" \notin Workroom!PastFence
    BY DEF Workroom!PastFence
  <2> QED BY <1>2, <1>3, <2>1 DEF Workroom!Single

\* The commit finds the text it was announced.
LEMMA CommittableKeeps ==
    ASSUME WorkroomConstants, SubmissionInv, NEW id \in Submitted, NEW parts \in Pieces,
           Workroom!Committable(id, parts), Workroom!Hand(id, parts),
           writer[Workroom!Lane(id)] = None,
           UNCHANGED <<entry, opened, session, closed, rev, typed, shown, raws, escaped>>
    PROVE  SubmissionInv'
<1>1. /\ entry[id].state = "prepared" /\ entry[id].intent.rev = Workroom!InputState(id)
      /\ parts = Workroom!Whole(entry[id].intent.text)
  BY DEF Workroom!Committable, Workroom!Current
<1>2. entry[id].intent # None /\ entry \in [Submitted -> Entries]
  BY <1>1 DEF SubmissionInv, EntriesTell, TypeParts
<1>3. \A k \in Submitted : EntryMoves(k)
  BY DEF EntryMoves, Quiet
<1>4. id \in Inputs => rev = entry[id].intent.rev
  BY <1>1, InputStateIsRev
<1> QED BY <1>1, <1>2, <1>3, <1>4, HandingKeeps

\* submission.chunk
LEMMA ChunkKeeps ==
    ASSUME WorkroomConstants, SubmissionInv, NEW id \in Submitted, NEW i \in Workroom!Chunk,
           NEW text \in Texts, NEW commit \in BOOLEAN, Workroom!ChunkOf(id, i, text, commit)
    PROVE  SubmissionInv'
<1> USE DEF SubmissionInv
<1> DEFINE parts == [asm[id].parts EXCEPT ![i] = text]
<1>1. /\ writer[Workroom!Lane(id)] = None /\ asm[id] # None
      /\ UNCHANGED <<entry, opened, session, closed, rev, typed, raws, escaped>>
  BY DEF Workroom!ChunkOf, Workroom!Admits, Workroom!journal
<1>2. asm[id] \in Reservations /\ parts \in Pieces
  BY <1>1, WorkParts, PiecesOf
<1>3. CASE commit /\ Workroom!Committable(id, parts)
  <2>1. Workroom!Hand(id, parts) /\ shown' = shown
    BY <1>3 DEF Workroom!ChunkOf
  <2> HIDE DEF parts
  <2> QED BY <1>1, <1>2, <1>3, <2>1, CommittableKeeps
<1>4. CASE ~(commit /\ Workroom!Committable(id, parts))
  <2>1. /\ asm' = [asm EXCEPT ![id].parts = parts] /\ writer' = writer
        /\ shown' = shown \/ shown' = [shown EXCEPT ![id] = shown[id] \cup {"prepared"}]
    BY <1>4 DEF Workroom!ChunkOf
  <2>2. /\ asm'[id] = [asm[id] EXCEPT !.parts = parts]
        /\ \A k \in Submitted \ {id} : asm'[k] = asm[k]
    BY <2>1 DEF TypeParts
  <2>3. [asm[id] EXCEPT !.parts = parts] \in Reservations
        /\ [asm[id] EXCEPT !.parts = parts].writing = asm[id].writing
    BY <1>2 DEF Reservations
  <2>4. asm' \in [Submitted -> {None} \cup Reservations]
    BY <2>1, <2>2, <2>3 DEF TypeParts
  <2>5. ~asm[id].writing
    BY <1>1 DEF TypeParts, WriterOfReservation
  <2>6. WriterOfReservation'
    <3>1. asm'[id] # None /\ ~asm'[id].writing
      BY <2>2, <2>3, <2>5 DEF WorkroomConstants
    <3> QED BY <2>1, <2>2, <3>1, ReservationsGo DEF TypeParts
  <2>7. /\ shown' \in [Submitted -> SUBSET ({"prepared", "held"} \cup Workroom!PastFence)]
        /\ \A k \in Submitted : \A s \in shown'[k] : s \in shown[k] \/ s = "prepared"
    BY <2>1 DEF TypeParts
  <2> HIDE DEF parts
  <2>8. TypeParts'
    BY <1>1, <2>1, <2>4, <2>6, <2>7 DEF TypeParts, Submitted, Workroom!Ids, Entries,
        EntryStates, Intents, Reservations, Pieces, Writers, Workroom!Chunk,
        Phases, Workroom!PastFence, Workroom!Lanes
  <2>9. EntriesTell' /\ WritersKnow' /\ \A k \in Submitted : EntryMoves(k)
    BY <1>1, <2>1, StillFacts
  <2>10. ShownStays'
    BY <1>1, <2>7, <2>9, ShownGoesOn, NeverHeld
  <2> QED BY <2>8, <2>9, <2>10
<1> QED BY <1>3, <1>4

\* submission.commit
LEMMA CommitKeeps ==
    ASSUME WorkroomConstants, SubmissionInv, NEW id \in Submitted, Workroom!Commit(id)
    PROVE  SubmissionInv'
<1>1. /\ writer[Workroom!Lane(id)] = None
      /\ UNCHANGED <<entry, opened, session, closed, rev, typed, raws, escaped>>
  BY DEF Workroom!Commit, Workroom!Admits
<1>2. CASE entry[id].state \in Workroom!PastFence /\ Workroom!Reply(id) /\ UNCHANGED <<asm, writer>>
  BY <1>1, <1>2, AnsweredKeeps DEF Workroom!PastFence
<1>3. CASE /\ asm[id] # None /\ Workroom!Committable(id, asm[id].parts)
           /\ Workroom!Hand(id, asm[id].parts) /\ shown' = shown
  <2>1. asm[id].parts \in Pieces
    BY <1>3, WorkParts DEF SubmissionInv
  <2> QED BY <1>1, <1>3, <2>1, CommittableKeeps
<1> QED BY <1>2, <1>3 DEF Workroom!Commit

\* submission.status
LEMMA StatusKeeps ==
    ASSUME WorkroomConstants, SubmissionInv, NEW id \in Submitted, Workroom!Status(id)
    PROVE  SubmissionInv'
<1>1. entry[id].state # "none"
  <2>1. entry[id].state = "none" => entry[id] = Workroom!NoRow
    BY DEF SubmissionInv, EntriesTell
  <2> QED BY <2>1 DEF Workroom!Status
<1> QED BY <1>1, AnsweredKeeps DEF Workroom!Status

-----------------------------------------------------------------------------
(* The writer.                                                             *)

\* Another lane has another id.
LEMMA LanesApart ==
    ASSUME WritersKnow, NEW l \in Workroom!Lanes, NEW m \in Workroom!Lanes, l # m,
           writer[l] # None, writer[m] # None
    PROVE  writer[l].id # writer[m].id
BY DEF WritersKnow, WriterKnowsEntry

\* A writer leaves: its lane and its reservation are free, its entry says how it ended.
LEMMA LeavingKeeps ==
    ASSUME WorkroomConstants, SubmissionInv, NEW l \in Workroom!Lanes, writer[l] # None,
           Workroom!Leave(l, writer[l].id),
           entry' \in [Submitted -> Entries], \A k \in Submitted : EntryMoves(k),
           \A k \in Submitted \ {writer[l].id} : entry'[k] = entry[k],
           shown' = shown \/ (Workroom!Reply(writer[l].id)
                              /\ entry'[writer[l].id].state \in EntryStates \ {"none"}),
           UNCHANGED <<opened, session, closed, rev, typed, raws, escaped>>
    PROVE  SubmissionInv'
<1> USE DEF SubmissionInv
<1> DEFINE id == writer[l].id
<1>0. id \in Submitted /\ WriterKnowsEntry(l, writer[l])
  BY WorkParts DEF WritersKnow
<1>1. /\ writer'[l] = None /\ \A m \in Workroom!Lanes \ {l} : writer'[m] = writer[m]
      /\ asm'[id] = None /\ \A k \in Submitted \ {id} : asm'[k] = asm[k]
      /\ writer' \in [Workroom!Lanes -> {None} \cup Writers]
      /\ asm' \in [Submitted -> {None} \cup Reservations]
  BY <1>0 DEF Workroom!Leave, TypeParts
<1>2. WriterOfReservation'
  <2> SUFFICES ASSUME NEW k \in Submitted, asm'[k] # None, asm'[k].writing
               PROVE  writer'[Workroom!Lane(k)] # None /\ writer'[Workroom!Lane(k)].id = k
    BY DEF WriterOfReservation, Submitted, Workroom!Ids, Workroom!Lane
  <2>1. k # id /\ asm'[k] = asm[k]
    BY <1>1
  <2>2. writer[Workroom!Lane(k)] # None /\ writer[Workroom!Lane(k)].id = k
    BY <2>1 DEF TypeParts, WriterOfReservation
  <2> QED BY <1>1, <2>1, <2>2, LaneOf
<1>3. /\ shown' \in [Submitted -> SUBSET ({"prepared", "held"} \cup Workroom!PastFence)]
      /\ \A k \in Submitted : \A s \in shown'[k] :
            s \in shown[k] \/ s = Workroom!Shown(entry'[k])
  <2>1. CASE shown' = shown
    BY <2>1 DEF TypeParts
  <2>2. CASE shown' # shown
    BY <1>0, <2>2, ReplyFacts
  <2> QED BY <2>1, <2>2
<1>4. TypeParts'
  BY <1>1, <1>2, <1>3 DEF TypeParts, Submitted, Workroom!Ids, Entries, EntryStates, Intents,
      Reservations, Pieces, Writers, Workroom!Chunk, Phases, Workroom!PastFence, Workroom!Lanes
<1>5. EntriesTell'
  BY EntriesGoOn, NeverHeld
<1>6. ShownStays'
  <2>1. /\ opened \in Nat /\ opened' = opened /\ opened' >= opened
        /\ \A k \in Submitted : entry[k].boot \in Nat /\ entry[k].state # "held"
    BY NeverHeld
  <2>2. \A k \in Submitted : \A s \in shown'[k] :
           \/ s \in shown[k] \/ s = "prepared"
           \/ s = Workroom!Shown(entry'[k]) /\ opened' = opened
    BY <1>3, <2>1
  <2> QED BY <2>1, <2>2, ShownGoesOn
<1>7. WritersKnow'
  <2>1. ASSUME NEW m \in Workroom!Lanes, writer'[m] # None
        PROVE  writer'[m] = writer[m] /\ Quiet(writer[m].id)
    <3>1. m # l /\ writer'[m] = writer[m] /\ writer[m] # None
      BY <1>1, <2>1
    <3>2. writer[m].id \in Submitted /\ writer[m].id # id
      BY <3>1, WorkParts, LanesApart
    <3> QED BY <3>1, <3>2 DEF Quiet
  <2> QED BY <2>1, WritersGoOn
<1> QED BY <1>4, <1>5, <1>6, <1>7

\* Anything wrong before the fence.
LEMMA RefusalKeeps ==
    ASSUME WorkroomConstants, SubmissionInv, NEW l \in Workroom!Lanes, Workroom!Refuse(l)
    PROVE  SubmissionInv'
<1> USE DEF SubmissionInv
<1>1. /\ writer[l] # None /\ writer[l].id \in Submitted
      /\ entry' = Workroom!Move(writer[l].id, "prepared", "rejected")
      /\ Workroom!Leave(l, writer[l].id) /\ shown' = shown
      /\ UNCHANGED <<opened, session, closed, rev, typed, raws, escaped>>
  BY WorkParts DEF Workroom!Refuse, Workroom!history
<1>2. "rejected" \in EntryStates
  BY DEF EntryStates, Workroom!PastFence
<1>3. /\ entry' \in [Submitted -> Entries]
      /\ \A k \in Submitted \ {writer[l].id} : entry'[k] = entry[k]
      /\ Quiet(writer[l].id)
  BY <1>1, <1>2, MoveFacts DEF Quiet
<1>4. \A k \in Submitted : EntryMoves(k)
  BY <1>3 DEF EntryMoves, Quiet
<1> QED BY <1>1, <1>3, <1>4, LeavingKeeps

\* After the fence: the write failed, or all of it was typed.
LEMMA EndOfWriteKeeps ==
    ASSUME WorkroomConstants, SubmissionInv, NEW l \in Workroom!Lanes,
           Workroom!Fail(l) \/ Workroom!Finish(l)
    PROVE  SubmissionInv'
<1> USE DEF SubmissionInv
<1> DEFINE id == writer[l].id
<1>1. PICK to \in {"unknown", "written"} :
         /\ entry' = Workroom!Move(id, "write_started", to)
         /\ to = "written" => writer[l].n = Workroom!Steps(id)
  BY DEF Workroom!Fail, Workroom!Finish
<1>2. /\ writer[l] # None /\ writer[l].phase = "fenced" /\ id \in Submitted
      /\ Workroom!Leave(l, id) /\ Workroom!Reply(id)
      /\ UNCHANGED <<opened, session, closed, rev, typed, raws, escaped>>
  BY WorkParts DEF Workroom!Fail, Workroom!Finish
<1>3. to \in EntryStates
  BY DEF EntryStates, Workroom!PastFence
<1>4. writer[l].n = Len(typed[id]) /\ entry[id].state \in {"write_started", "unknown"}
  BY <1>2 DEF WritersKnow, WriterKnowsEntry
<1>5. /\ entry' \in [Submitted -> Entries]
      /\ \A k \in Submitted \ {id} : entry'[k] = entry[k]
      /\ EntryMoves(id) /\ entry'[id].state \in EntryStates \ {"none"}
  <2>1. /\ entry' \in [Submitted -> Entries]
        /\ \A k \in Submitted \ {id} : entry'[k] = entry[k]
        /\ \/ entry' = entry
           \/ /\ entry[id].state = "write_started"
              /\ entry'[id].state = to /\ entry'[id].boot = entry[id].boot
              /\ entry'[id].intent = entry[id].intent
    BY <1>1, <1>2, <1>3, MoveFacts
  <2>2. EntryMoves(id)
    BY <1>1, <1>4, <2>1 DEF EntryMoves, Quiet
  <2>3. entry'[id].state \in EntryStates \ {"none"}
    BY <1>3, <1>4, <2>1 DEF EntryStates, Workroom!PastFence
  <2> QED BY <2>1, <2>2, <2>3
<1>6. \A k \in Submitted : EntryMoves(k)
  BY <1>5 DEF EntryMoves, Quiet
<1> QED BY <1>2, <1>5, <1>6, LeavingKeeps

\* The writer waits for the CLI.
LEMMA WaitingKeeps ==
    ASSUME WorkroomConstants, SubmissionInv, NEW l \in Workroom!Lanes,
           Workroom!LastCheck(l) \/ Workroom!Settle(l)
    PROVE  SubmissionInv'
<1> USE DEF SubmissionInv
<1>1. PICK p \in {"settling", "ready"} : writer' = [writer EXCEPT ![l].phase = p]
  BY DEF Workroom!LastCheck, Workroom!Settle
<1>2. /\ writer[l] # None /\ writer[l].phase # "fenced" /\ writer[l] \in Writers
      /\ UNCHANGED <<entry, opened, asm, session, closed, rev, typed, shown, raws, escaped>>
  BY WorkParts DEF Workroom!LastCheck, Workroom!Settle, Workroom!journal, Workroom!history
<1>3. /\ writer'[l] = [writer[l] EXCEPT !.phase = p]
      /\ \A m \in Workroom!Lanes \ {l} : writer'[m] = writer[m]
  BY <1>1 DEF TypeParts
<1>4. /\ writer'[l] \in Writers /\ writer'[l].id = writer[l].id /\ writer'[l].phase = p
      /\ writer'[l].text = writer[l].text /\ writer'[l].n = writer[l].n
  BY <1>2, <1>3 DEF Writers, Phases
<1>5. writer' \in [Workroom!Lanes -> {None} \cup Writers] /\ writer'[l] # None
  BY <1>1, <1>3, <1>4 DEF TypeParts, WorkroomConstants
<1>6. WriterOfReservation'
  BY <1>2, <1>3, <1>4, <1>5, ReservationsGo DEF TypeParts
<1>7. TypeParts'
  BY <1>2, <1>5, <1>6 DEF TypeParts, Submitted, Workroom!Ids, Entries, EntryStates, Intents,
      Reservations, Pieces, Writers, Workroom!Chunk, Phases, Workroom!PastFence, Workroom!Lanes
<1>8. \A k \in Submitted : EntryMoves(k) /\ Quiet(k)
  BY <1>2 DEF EntryMoves, Quiet
<1>9. EntriesTell' /\ ShownStays'
  BY <1>2, <1>8, EntriesGoOn, ShownGoesOn, NeverHeld
<1>10. WritersKnow'
  <2>1. ASSUME NEW m \in Workroom!Lanes, writer'[m] # None
        PROVE  /\ writer[m] # None /\ writer'[m].id = writer[m].id
               /\ writer'[m].text = writer[m].text /\ writer'[m].n = writer[m].n
               /\ (writer'[m].phase = "fenced") <=> (writer[m].phase = "fenced")
               /\ Quiet(writer[m].id)
    BY <1>2, <1>3, <1>4, <2>1 DEF Quiet
  <2> QED BY <1>2, <2>1, WritersGoOn
<1> QED BY <1>7, <1>9, <1>10

\* start(): the journal says so first.
LEMMA StartKeeps ==
    ASSUME WorkroomConstants, SubmissionInv, NEW l \in Workroom!Lanes, Workroom!Start(l)
    PROVE  SubmissionInv'
<1> USE DEF SubmissionInv
<1>0. PICK id \in Submitted : writer[l] # None /\ id = writer[l].id
  BY WorkParts DEF Workroom!Start
<1>1. /\ writer[l] \in Writers /\ writer[l].phase = "ready"
      /\ Workroom!Can(id, "prepared") /\ entry' = Workroom!Move(id, "prepared", "write_started")
      /\ writer' = [writer EXCEPT ![l].phase = "fenced"]
      /\ rev' = (IF id \in Inputs THEN rev + 1 ELSE rev)
      /\ UNCHANGED <<opened, asm, session, closed, typed, shown, raws, escaped>>
  BY <1>0, WorkParts DEF Workroom!Start, Workroom!history
<1>2. /\ entry' \in [Submitted -> Entries]
      /\ \A k \in Submitted \ {id} : entry'[k] = entry[k]
      /\ entry[id].state = "prepared" /\ entry[id].boot = opened
      /\ entry'[id].state = "write_started"
      /\ entry'[id].boot = entry[id].boot /\ entry'[id].intent = entry[id].intent
  <2>1. "write_started" \in EntryStates
    BY DEF EntryStates, Workroom!PastFence
  <2> QED BY <1>1, <2>1, MoveFacts
<1>3. /\ writer'[l] = [writer[l] EXCEPT !.phase = "fenced"]
      /\ \A m \in Workroom!Lanes \ {l} : writer'[m] = writer[m]
  BY <1>1 DEF TypeParts
<1>4. /\ writer'[l] \in Writers /\ writer'[l].id = id /\ writer'[l].phase = "fenced"
      /\ writer'[l].text = writer[l].text /\ writer'[l].n = writer[l].n
  BY <1>0, <1>1, <1>3 DEF Writers, Phases
<1>5. writer' \in [Workroom!Lanes -> {None} \cup Writers] /\ writer'[l] # None
  BY <1>1, <1>3, <1>4 DEF TypeParts, WorkroomConstants
<1>6. WriterOfReservation'
  BY <1>0, <1>1, <1>3, <1>4, <1>5, ReservationsGo DEF TypeParts
<1>7. TypeParts'
  BY <1>1, <1>2, <1>5, <1>6 DEF TypeParts, Submitted, Workroom!Ids, Entries, EntryStates, Intents,
      Reservations, Pieces, Writers, Workroom!Chunk, Phases, Workroom!PastFence, Workroom!Lanes
<1>8. \A k \in Submitted : EntryMoves(k)
  BY <1>2 DEF EntryMoves, Quiet
<1>9. EntriesTell' /\ ShownStays'
  BY <1>1, <1>8, EntriesGoOn, ShownGoesOn, NeverHeld
<1>10. WritersKnow'
  <2> SUFFICES ASSUME NEW m \in Workroom!Lanes, writer'[m] # None
               PROVE  WriterKnowsEntry(m, writer[m])'
    BY DEF WritersKnow, Workroom!Lanes
  <2>1. CASE m = l
    <3>1. WriterKnowsEntry(l, writer[l]) /\ typed[id] = <<>>
      BY <1>0, <1>2 DEF WritersKnow, EntriesTell
    <3>2. id \in Inputs \ escaped' => rev' = entry'[id].intent.rev + 1
      <4>1. id \in Inputs \ escaped => rev = entry[id].intent.rev + 0 /\ rev \in Nat
        BY <1>0, <1>1, <3>1 DEF WriterKnowsEntry, TypeParts
      <4>2. entry[id].intent.rev \in Nat
        BY <1>0, <3>1, WorkParts DEF WriterKnowsEntry
      <4> QED BY <1>1, <1>2, <4>1, <4>2
    <3>3. writer'[l].n = Len(typed'[id])
      BY <1>0, <1>1, <1>4, <3>1 DEF WriterKnowsEntry
    <3>4. /\ Workroom!Lane(id) = l /\ entry'[id].intent # None
          /\ writer'[l].text = Workroom!Whole(entry'[id].intent.text)
      BY <1>0, <1>2, <1>4, <3>1 DEF WriterKnowsEntry
    <3> QED BY <1>2, <1>4, <2>1, <3>2, <3>3, <3>4 DEF WriterKnowsEntry, Workroom!Whole,
          Workroom!Lane
  <2>2. CASE m # l
    <3>1. writer'[m] = writer[m] /\ WriterKnowsEntry(m, writer[m])
      BY <1>3, <2>2 DEF WritersKnow
    <3>2. writer[m].id \in Submitted /\ writer[m].id # id
      BY <1>0, <2>2, <3>1, WorkParts, LanesApart
    <3>3. writer[m].id \in Inputs => id \notin Inputs
      <4>1. Workroom!Lane(writer[m].id) # Workroom!Lane(id)
        BY <1>0, <2>2, <3>1 DEF WritersKnow, WriterKnowsEntry
      <4> QED BY <4>1 DEF Workroom!Lane, WorkroomConstants
    <3> QED BY <1>1, <1>2, <3>1, <3>2, <3>3 DEF WriterKnowsEntry, Workroom!Whole, Workroom!Lane
  <2> QED BY <2>1, <2>2
<1> QED BY <1>7, <1>9, <1>10

\* One write to the terminal.
LEMMA TypeKeeps ==
    ASSUME WorkroomConstants, SubmissionInv, NEW l \in Workroom!Lanes, Workroom!Type(l)
    PROVE  SubmissionInv'
<1> USE DEF SubmissionInv
<1>0. PICK id \in Submitted, n \in Nat : writer[l] # None /\ id = writer[l].id /\ n = writer[l].n
  <2>1. writer[l] # None /\ writer[l].id \in Submitted /\ writer[l].n \in 0 .. 2
    BY WorkParts DEF Workroom!Type
  <2> QED BY <2>1
<1>1. /\ writer[l] \in Writers /\ writer[l].phase = "fenced" /\ n < Workroom!Steps(id)
      /\ typed' = [typed EXCEPT ![id] =
                      Append(typed[id], IF n = 0 THEN writer[l].text ELSE Workroom!Enter)]
      /\ writer' = [writer EXCEPT ![l].n = n + 1]
      /\ UNCHANGED <<entry, opened, asm, session, closed, rev, shown, raws, escaped>>
  BY <1>0, WorkParts DEF Workroom!Type, Workroom!journal
<1>2. WriterKnowsEntry(l, writer[l]) /\ EntriesTell!(id) /\ typed[id] \in Seq(Pieces)
  BY <1>0, WorkParts DEF WritersKnow, EntriesTell
<1>3. /\ n = Len(typed[id]) /\ entry[id].state \in {"write_started", "unknown"}
      /\ writer[l].text = Workroom!Whole(entry[id].intent.text)
  BY <1>0, <1>1, <1>2 DEF WriterKnowsEntry
<1>4. PICK x \in Pieces : /\ typed'[id] = Append(typed[id], x)
                          /\ x = IF n = 0 THEN writer[l].text ELSE Workroom!Enter
  BY <1>0, <1>1, WorkParts, PiecesOf DEF TypeParts
<1>5. \A k \in Submitted \ {id} : typed'[k] = typed[k]
  BY <1>1 DEF TypeParts
<1>6. /\ typed'[id] \in Seq(Pieces) /\ Len(typed'[id]) = n + 1 /\ typed'[id][n + 1] = x
      /\ \A i \in 1 .. n : typed'[id][i] = typed[id][i]
  BY <1>2, <1>3, <1>4, AppendProperties
<1>7. /\ writer'[l] = [writer[l] EXCEPT !.n = n + 1]
      /\ \A m \in Workroom!Lanes \ {l} : writer'[m] = writer[m]
  BY <1>1 DEF TypeParts
<1>8. /\ writer'[l] \in Writers /\ writer'[l].id = id /\ writer'[l].phase = "fenced"
      /\ writer'[l].text = writer[l].text /\ writer'[l].n = n + 1
  <2>1. n + 1 \in 0 .. 2
    BY <1>1 DEF Workroom!Steps
  <2> QED BY <1>0, <1>1, <1>7, <2>1 DEF Writers
<1>9. writer' \in [Workroom!Lanes -> {None} \cup Writers] /\ writer'[l] # None
  BY <1>1, <1>7, <1>8 DEF TypeParts, WorkroomConstants
<1>10. WriterOfReservation'
  BY <1>0, <1>1, <1>7, <1>8, <1>9, ReservationsGo DEF TypeParts
<1>11. TypeParts'
  <2>1. typed' \in [Submitted -> Seq(Pieces)]
    BY <1>1, <1>4, <1>6 DEF TypeParts
  <2> QED BY <1>1, <1>9, <1>10, <2>1 DEF TypeParts, Submitted, Workroom!Ids, Entries, EntryStates,
        Intents, Reservations, Pieces, Writers, Workroom!Chunk, Phases, Workroom!PastFence,
        Workroom!Lanes
<1>12. EntriesTell'
  <2> SUFFICES ASSUME NEW k \in Submitted PROVE EntriesTell!(k)'
    BY DEF EntriesTell, Submitted, Workroom!Ids
  <2>1. CASE k # id
    <3>1. typed'[k] = typed[k] /\ entry' = entry /\ opened' = opened /\ EntriesTell!(k)
      BY <1>1, <1>5, <2>1 DEF EntriesTell
    <3> QED BY <3>1 DEF Workroom!Steps, Workroom!Whole, Workroom!Enter, Workroom!Empty,
          Workroom!NoRow
  <2>2. CASE k = id
    <3>1. typed'[id] # <<>> => typed'[id][1] = Workroom!Whole(entry[id].intent.text)
      <4>1. CASE n = 0
        BY <1>3, <1>4, <1>6, <4>1
      <4>2. CASE n # 0
        <5>1. typed[id] # <<>> /\ 1 \in 1 .. n
          BY <1>3, <4>2
        <5> QED BY <1>2, <1>6, <5>1
      <4> QED BY <4>1, <4>2
    <3>2. Len(typed'[id]) <= Workroom!Steps(id)
      BY <1>1, <1>6 DEF Workroom!Steps
    <3>3. Len(typed'[id]) = 2 => typed'[id][2] = Workroom!Enter
      BY <1>4, <1>6
    <3> QED BY <1>1, <1>2, <1>3, <2>2, <3>1, <3>2, <3>3 DEF Workroom!Steps, Workroom!Whole,
          Workroom!Enter, Workroom!Empty, Workroom!NoRow
  <2> QED BY <2>1, <2>2
<1>13. ShownStays'
  BY <1>1 DEF ShownStays, Submitted, Workroom!Ids
<1>14. WritersKnow'
  <2> SUFFICES ASSUME NEW m \in Workroom!Lanes, writer'[m] # None
               PROVE  WriterKnowsEntry(m, writer[m])'
    BY DEF WritersKnow, Workroom!Lanes
  <2>1. CASE m = l
    BY <1>0, <1>1, <1>2, <1>3, <1>6, <1>8, <2>1 DEF WriterKnowsEntry, Workroom!Whole, Workroom!Lane
  <2>2. CASE m # l
    <3>1. writer'[m] = writer[m] /\ WriterKnowsEntry(m, writer[m])
      BY <1>7, <2>2 DEF WritersKnow
    <3>2. writer[m].id \in Submitted /\ writer[m].id # id
      BY <1>0, <2>2, <3>1, WorkParts, LanesApart
    <3>3. typed'[writer[m].id] = typed[writer[m].id]
      BY <1>5, <3>2
    <3> QED BY <1>1, <3>1, <3>3 DEF WriterKnowsEntry, Workroom!Whole, Workroom!Lane
  <2> QED BY <2>1, <2>2
<1> QED BY <1>11, <1>12, <1>13, <1>14

-----------------------------------------------------------------------------
(* What does not wait in the queues.                                       *)

\* Reservations are dropped, and entries of no writer settle.
LEMMA DroppingKeeps ==
    ASSUME WorkroomConstants, SubmissionInv,
           entry' \in [Submitted -> Entries], \A k \in Submitted : Quiet(k),
           asm' \in [Submitted -> {None} \cup Reservations],
           \A k \in Submitted : asm'[k] = None \/ asm'[k] = asm[k],
           session' \in {"running", "ended"}, closed' \in BOOLEAN,
           rev' \in Nat, raws' \in Nat, escaped' \subseteq Submitted, escaped \subseteq escaped',
           rev' = rev \/ \A l \in Workroom!Lanes :
              writer[l] # None => writer[l].id \notin Inputs \ escaped',
           UNCHANGED <<opened, writer, typed, shown>>
    PROVE  SubmissionInv'
<1> USE DEF SubmissionInv
<1>1. WriterOfReservation'
  BY ReservationsGo DEF TypeParts
<1>2. TypeParts'
  BY <1>1 DEF TypeParts, Submitted, Workroom!Ids, Entries, EntryStates, Intents,
      Reservations, Pieces, Writers, Workroom!Chunk, Phases, Workroom!PastFence, Workroom!Lanes
<1>3. \A k \in Submitted : EntryMoves(k)
  BY DEF EntryMoves
<1>4. EntriesTell' /\ ShownStays'
  BY <1>3, EntriesGoOn, ShownGoesOn, NeverHeld
<1>5. WritersKnow'
  BY WorkParts, WritersGoOn
<1> QED BY <1>2, <1>4, <1>5

\* A reservation is over.
LEMMA PruneKeeps ==
    ASSUME WorkroomConstants, SubmissionInv, NEW id \in Submitted, Workroom!Prune(id)
    PROVE  SubmissionInv'
<1> USE DEF SubmissionInv
<1>1. /\ asm' = [asm EXCEPT ![id] = None]
      /\ UNCHANGED <<opened, writer, session, closed, rev, typed, shown, raws, escaped>>
      /\ entry' = entry \/ entry' = Workroom!Move(id, "prepared", "rejected")
  BY DEF Workroom!Prune, Workroom!history
<1>2. entry' \in [Submitted -> Entries] /\ \A k \in Submitted : Quiet(k)
  <2>1. CASE entry' = entry
    BY <2>1 DEF Quiet, TypeParts
  <2>2. CASE entry' = Workroom!Move(id, "prepared", "rejected")
    <3>1. "rejected" \in EntryStates
      BY DEF EntryStates, Workroom!PastFence
    <3> QED BY <2>2, <3>1, MoveFacts DEF Quiet
  <2> QED BY <1>1, <2>1, <2>2
<1>3. /\ asm' \in [Submitted -> {None} \cup Reservations]
      /\ \A k \in Submitted : asm'[k] = None \/ asm'[k] = asm[k]
  BY <1>1 DEF TypeParts
<1> QED BY <1>1, <1>2, <1>3, DroppingKeeps DEF TypeParts

\* Keys typed by hand.
LEMMA RawInputKeeps ==
    ASSUME WorkroomConstants, SubmissionInv, Workroom!RawInput PROVE SubmissionInv'
<1> USE DEF SubmissionInv
<1>1. /\ writer["session"] = None /\ rev' = rev + 1 /\ raws' = raws + 1
      /\ UNCHANGED <<entry, opened, asm, writer, session, closed, typed, shown, escaped>>
  BY DEF Workroom!RawInput, Workroom!journal
<1>2. \A l \in Workroom!Lanes : writer[l] # None => writer[l].id \notin Inputs
  BY <1>1, WorkParts DEF WritersKnow, WriterKnowsEntry, Workroom!Lane, WorkroomConstants
<1>3. \A k \in Submitted : Quiet(k)
  BY <1>1 DEF Quiet
<1> QED BY <1>1, <1>2, <1>3, DroppingKeeps DEF TypeParts

\* The Escape key.
LEMMA EscapeKeeps ==
    ASSUME WorkroomConstants, SubmissionInv, Workroom!Escape PROVE SubmissionInv'
<1> USE DEF SubmissionInv
<1>1. /\ writer["session"] # None /\ rev' = rev + 1
      /\ escaped' = escaped \cup {writer["session"].id}
      /\ UNCHANGED <<entry, opened, asm, writer, session, closed, typed, shown, raws>>
  BY DEF Workroom!Escape, Workroom!journal
<1>2. "session" \in Workroom!Lanes
  BY DEF Workroom!Lanes
<1>3. writer["session"].id \in Submitted
  BY <1>1, <1>2, WorkParts
<1>4. \A l \in Workroom!Lanes : writer[l] # None => writer[l].id \notin Inputs \ escaped'
  BY <1>1, WorkParts DEF WritersKnow, WriterKnowsEntry, Workroom!Lane, Workroom!Lanes,
      WorkroomConstants
<1>5. \A k \in Submitted : Quiet(k)
  BY <1>1 DEF Quiet
<1> QED BY <1>1, <1>3, <1>4, <1>5, DroppingKeeps DEF TypeParts

\* The session ends, or the terminal service.
LEMMA EndingKeeps ==
    ASSUME WorkroomConstants, SubmissionInv, Workroom!EndSession \/ Workroom!Shutdown
    PROVE  SubmissionInv'
<1> USE DEF SubmissionInv
<1>1. /\ \A k \in Submitted : asm'[k] = None \/ asm'[k] = asm[k]
      /\ asm' \in [Submitted -> {None} \cup Reservations]
      /\ session' \in {"running", "ended"} /\ closed' \in BOOLEAN
      /\ UNCHANGED <<entry, opened, writer, rev, typed, shown, raws, escaped>>
  BY DEF Workroom!EndSession, Workroom!Shutdown, Workroom!journal, Workroom!history, TypeParts,
      Submitted
<1>2. \A k \in Submitted : Quiet(k)
  BY <1>1 DEF Quiet
<1> QED BY <1>1, <1>2, DroppingKeeps DEF TypeParts

\* Opening the journal.
LEMMA OpenedFacts ==
    ASSUME WorkroomConstants, TypeParts, NEW aged \in SUBSET Submitted,
           entry' = Workroom!Opened(aged)
    PROVE  entry' \in [Submitted -> Entries] /\ \A k \in Submitted : Quiet(k)
<1>1. ASSUME NEW k \in Submitted PROVE entry'[k] \in Entries /\ Quiet(k)
  <2>1. entry[k] \in Entries /\ "unknown" \in EntryStates /\ "rejected" \in EntryStates
    BY DEF TypeParts, EntryStates, Workroom!PastFence
  <2>2. CASE entry[k].state = "write_started"
    <3>1. entry'[k] = [entry[k] EXCEPT !.state = "unknown"]
      BY <2>2 DEF Workroom!Opened, Submitted
    <3> QED BY <2>1, <2>2, <3>1 DEF Quiet, Entries
  <2>3. CASE k \in aged /\ entry[k].state = "prepared"
    <3>1. entry'[k] = [entry[k] EXCEPT !.state = "rejected"]
      BY <2>3 DEF Workroom!Opened, Submitted
    <3> QED BY <2>1, <2>3, <3>1 DEF Quiet, Entries
  <2>4. CASE ~(entry[k].state = "write_started") /\ ~(k \in aged /\ entry[k].state = "prepared")
    <3>1. entry'[k] = entry[k]
      BY <2>4 DEF Workroom!Opened, Submitted
    <3> QED BY <2>1, <3>1 DEF Quiet
  <2> QED BY <2>2, <2>3, <2>4
<1>2. entry' = [k \in Submitted |-> entry'[k]]
  BY DEF Workroom!Opened, Submitted
<1> QED BY <1>1, <1>2

\* Another process opens the journal.
LEMMA OpenedElsewhereKeeps ==
    ASSUME WorkroomConstants, SubmissionInv, NEW aged \in SUBSET Submitted,
           Workroom!OpenedElsewhere(aged)
    PROVE  SubmissionInv'
<1> USE DEF SubmissionInv
<1>1. UNCHANGED <<opened, asm, writer, session, closed, rev, typed, shown, raws, escaped>>
  BY DEF Workroom!OpenedElsewhere, Workroom!history
<1>2. entry' \in [Submitted -> Entries] /\ \A k \in Submitted : Quiet(k)
  BY OpenedFacts DEF Workroom!OpenedElsewhere
<1> QED BY <1>1, <1>2, DroppingKeeps DEF TypeParts

\* The host starts again.
LEMMA OpeningKeeps ==
    ASSUME WorkroomConstants, SubmissionInv, NEW aged \in SUBSET Submitted,
           Workroom!Restart(aged)
    PROVE  SubmissionInv'
<1> USE DEF SubmissionInv
<1>1. /\ opened' = opened + 1 /\ opened < MaxBoots
      /\ asm' = [id \in Submitted |-> None] /\ writer' = [l \in Workroom!Lanes |-> None]
      /\ session' = "ended" /\ closed' = FALSE
      /\ UNCHANGED <<rev, typed, shown, raws, escaped>>
  BY DEF Workroom!Restart, Workroom!history, Submitted
<1>2. entry' \in [Submitted -> Entries] /\ \A k \in Submitted : Quiet(k)
  BY OpenedFacts DEF Workroom!Restart
<1>3. \A k \in Submitted : EntryMoves(k)
  BY <1>2 DEF EntryMoves
<1>4. TypeParts'
  <2>1. WriterOfReservation'
    BY <1>1 DEF WriterOfReservation, Submitted, Workroom!Ids
  <2>2. opened' \in 1 .. MaxBoots
    BY <1>1 DEF TypeParts, WorkroomConstants
  <2> QED BY <1>1, <1>2, <2>1, <2>2 DEF TypeParts, Submitted, Workroom!Ids, Entries, EntryStates,
        Intents, Reservations, Pieces, Writers, Workroom!Chunk, Phases, Workroom!PastFence,
        Workroom!Lanes
<1>5. opened \in Nat /\ opened' \in Nat /\ opened' >= opened
  BY <1>1, NeverHeld
<1>6. EntriesTell' /\ ShownStays'
  BY <1>1, <1>3, <1>5, EntriesGoOn, ShownGoesOn, NeverHeld
<1>7. WritersKnow'
  BY <1>1 DEF WritersKnow, Workroom!Lanes
<1> QED BY <1>4, <1>6, <1>7

-----------------------------------------------------------------------------
(* The theorem.                                                            *)

LEMMA SubmissionInit == ASSUME WorkroomConstants PROVE Workroom!Init => SubmissionInv
<1> SUFFICES ASSUME Workroom!Init PROVE SubmissionInv
  OBVIOUS
<1> USE DEF Workroom!Init
<1>1. Workroom!NoRow \in Entries
  BY DEF Workroom!NoRow, Entries, EntryStates, WorkroomConstants
<1>2. TypeParts
  <2>1. Submitted = Workroom!Ids /\ opened \in 1 .. MaxBoots /\ rev \in Nat /\ raws \in Nat
    BY DEF Submitted, WorkroomConstants
  <2>2. typed \in [Submitted -> Seq(Pieces)]
    BY <2>1, EmptySeq
  <2>3. entry \in [Submitted -> Entries]
    BY <1>1, <2>1
  <2>4. WriterOfReservation
    BY <2>1 DEF WriterOfReservation
  <2> QED BY <2>1, <2>2, <2>3, <2>4 DEF TypeParts
<1>3. EntriesTell
  BY DEF EntriesTell, Workroom!NoRow, Submitted, Workroom!Steps
<1>4. WritersKnow /\ ShownStays
  BY DEF WritersKnow, ShownStays, Submitted
<1> QED BY <1>2, <1>3, <1>4 DEF SubmissionInv

\* Every step keeps the invariant.
LEMMA SubmissionNext ==
    ASSUME WorkroomConstants PROVE SubmissionInv /\ [Workroom!Next]_Workroom!vars => SubmissionInv'
<1> SUFFICES ASSUME SubmissionInv, [Workroom!Next]_Workroom!vars PROVE SubmissionInv'
  OBVIOUS
<1>1. ASSUME NEW id \in Submitted, Workroom!ClientCommand(id) PROVE SubmissionInv'
  BY <1>1, BeginKeeps, SingleKeeps, ChunkKeeps, CommitKeeps, StatusKeeps DEF Workroom!ClientCommand
<1>2. ASSUME NEW l \in Workroom!Lanes, Workroom!WriterStep(l) PROVE SubmissionInv'
  BY <1>2, RefusalKeeps, WaitingKeeps, StartKeeps, TypeKeeps, EndOfWriteKeeps
      DEF Workroom!WriterStep
<1>3. CASE UNCHANGED Workroom!vars
  <2>1. /\ UNCHANGED <<entry, opened, asm, writer, session, closed, rev, typed, shown,
                    raws, escaped>>
    BY <1>3 DEF Workroom!vars, Workroom!journal, Workroom!history
  <2>2. \A k \in Submitted : Quiet(k)
    BY <2>1 DEF Quiet
  <2> QED BY <2>1, <2>2, DroppingKeeps DEF SubmissionInv, TypeParts
<1> QED BY <1>1, <1>2, <1>3, PruneKeeps, RawInputKeeps, EscapeKeeps, EndingKeeps,
       OpeningKeeps, OpenedElsewhereKeeps DEF Workroom!Next, Submitted

\* For every set of submissions and texts, every number of chunks, restarts and keys:
\* a text is typed once at most and Enter once after it; it is the text announced; a
\* receipt once shown stays true; and a request is typed into the input its client saw,
\* except after an Escape key during the control of its effort.
THEOREM SubmissionsKept ==
    ASSUME WorkroomConstants PROVE Workroom!Spec => []Workroom!SubmissionsKeepTheirWord
<1>1. SubmissionInv => Workroom!TypedOnce
  <2> SUFFICES ASSUME SubmissionInv, NEW id \in Submitted
               PROVE  /\ Len(typed[id]) <= 2
                      /\ \A i \in DOMAIN typed[id] : typed[id][i] = Workroom!Enter <=> i = 2
    BY DEF Workroom!TypedOnce, Submitted
  <2>1. EntriesTell!(id) /\ typed[id] \in Seq(Pieces)
    BY DEF SubmissionInv, EntriesTell, TypeParts
  <2>2. Len(typed[id]) <= 2
    BY <2>1 DEF Workroom!Steps
  <2>3. ASSUME NEW i \in DOMAIN typed[id] PROVE typed[id][i] = Workroom!Enter <=> i = 2
    <3>1. (i = 1 \/ i = 2) /\ typed[id] # <<>> /\ (i = 2 => Len(typed[id]) = 2)
      <4>1. i \in 1 .. Len(typed[id]) /\ Len(typed[id]) \in Nat
        BY <2>1
      <4>2. i \in 1 .. 2
        BY <2>2, <4>1
      <4>3. typed[id] # <<>>
        BY <4>1
      <4>4. i = 2 => Len(typed[id]) = 2
        <5>1. \A n \in Nat : n <= 2 /\ 2 \in 1 .. n => n = 2
          OBVIOUS
        <5> QED BY <2>2, <4>1, <5>1, Zenon
      <4> QED BY <4>2, <4>3, <4>4
    <3>2. entry[id].intent # None /\ entry[id].intent.text \in Texts
      BY <2>1, <3>1, WorkParts DEF SubmissionInv
    <3>3. Workroom!Whole(entry[id].intent.text) # Workroom!Enter
      <4>1. 1 \in Workroom!Chunk
        BY DEF Workroom!Chunk, WorkroomConstants
      <4>2. Workroom!Whole(entry[id].intent.text)[1] # Workroom!Enter[1]
        BY <3>2, <4>1 DEF Workroom!Whole, Workroom!Enter, Workroom!Empty, WorkroomConstants
      <4> QED BY <4>2
    <3> QED BY <2>1, <3>1, <3>3
  <2> QED BY <2>2, <2>3
<1>2. SubmissionInv => Workroom!AnnouncedTextTyped
  BY DEF SubmissionInv, EntriesTell, Workroom!AnnouncedTextTyped, Submitted
<1>3. SubmissionInv => Workroom!ReceiptTellsTruth
  <2> SUFFICES ASSUME SubmissionInv, NEW id \in Submitted
               PROVE  /\ shown[id] \cap {"rejected", "held"} # {} => typed[id] = <<>>
                      /\ "written" \in shown[id] => Len(typed[id]) = Workroom!Steps(id)
    BY DEF Workroom!ReceiptTellsTruth, Submitted
  <2> QED BY DEF SubmissionInv, EntriesTell, ShownStays
<1>4. SubmissionInv => Workroom!TypedInPlace
  <2> SUFFICES ASSUME SubmissionInv, NEW id \in Inputs \ escaped,
                      entry[id].state = "write_started", writer["session"] # None,
                      writer["session"].id = id
               PROVE  rev = entry[id].intent.rev + 1
    BY DEF Workroom!TypedInPlace
  <2>1. "session" \in Workroom!Lanes
    BY DEF Workroom!Lanes
  <2>2. WriterKnowsEntry("session", writer["session"])
    BY <2>1 DEF SubmissionInv, WritersKnow
  <2> QED BY <2>2 DEF WriterKnowsEntry
<1>5. SubmissionInv => Workroom!TypeOK
  BY TypeIsParts DEF SubmissionInv
<1>6. SubmissionInv => Workroom!SubmissionsKeepTheirWord
  BY <1>1, <1>2, <1>3, <1>4, <1>5 DEF Workroom!SubmissionsKeepTheirWord
<1> QED BY <1>6, SubmissionInit, SubmissionNext, PTL DEF Workroom!Spec
=============================================================================
