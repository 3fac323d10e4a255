------------------------ MODULE WorkroomSubmissions ------------------------
(***************************************************************************)
(* Whole requests sent to a workroom (src/workroomSubmissions.ts): a       *)
(* client begins a submission, uploads its text in chunks and commits it;  *)
(* the host types it into a running session, or starts a session with it,  *)
(* and answers with a receipt kept in the durable journal                  *)
(* (src/workroomConversationJournal.ts).  The terminal service             *)
(* (src/aiTerminalService.ts) runs the requests of a session one after     *)
(* another and all launches one after another; a release, the expiry of a  *)
(* reservation, the Escape key and a shutdown do not wait in that queue.   *)
(* Any client sends any command at any time, which is also a command lost, *)
(* late or sent twice.                                                     *)
(***************************************************************************)
EXTENDS Naturals, Sequences, FiniteSets

CONSTANTS
    Inputs,         \* ids of submissions to the one session modelled
    Launches,       \* ids of submissions that start a session
    Texts,          \* what a client may want to send
    Chunks,         \* chunks of an uploaded text
    MaxAssemblies,  \* reservations the host holds at once, 8
    MaxBoots,       \* bound: starts of the host process
    MaxRaws,        \* bound: keys typed by hand
    MaxEscs,        \* bound: Escape keys during the control of the effort
    None

Ids == Inputs \cup Launches

ASSUME SubmissionAssumption ==
    /\ Inputs \cap Launches = {} /\ IsFiniteSet(Ids)
    /\ None \notin Ids \cup Texts
    /\ {Chunks, MaxAssemblies, MaxBoots} \subseteq Nat \ {0}
    /\ {MaxRaws, MaxEscs} \subseteq Nat

VARIABLES
    row,      \* the journal: [state, boot, intent] of each id
    boot,     \* bootId of the journal this process opened
    asm,      \* assemblies: what was uploaded, or None
    writer,   \* the writer at work in each queue, or None
    session,  \* the session the inputs are for: "running" or "ended"
    closed,   \* #closed of the terminal service
    rev,      \* inputRevision of the session
    typed,    \* history: what the terminal or the launch was given for an id
    told,     \* history: the states receipts of an id have shown
    raws,     \* history: keys typed by hand
    escaped   \* history: ids for which Escape was pressed while its effort was pending

journal == <<row, boot>>
history == <<typed, told, raws, escaped>>
vars == <<journal, asm, writer, session, closed, rev, history>>

Chunk == 1 .. Chunks
Whole(text) == [i \in Chunk |-> text]
Empty == [i \in Chunk |-> None]
Enter == Empty   \* the key typed after the text
Lanes == {"session", "start"}
Lane(id) == IF id \in Launches THEN "start" ELSE "session"

\* The states in which a receipt answers a command instead of a new write.
PastFence == {"written", "unknown", "write_started", "rejected"}
NoRow == [state |-> "none", boot |-> 0, intent |-> None]

\* Faulty: the revision of the session is not part of the context.
InputStateLoose(id) == 0

\* What the binding and the revision of the context say of the session.
InputState(id) == IF id \in Launches THEN 0 ELSE rev
Intent(id, text, how) == [text |-> text, how |-> how, rev |-> InputState(id)]
Current(id) == row[id].state = "prepared" /\ row[id].boot = boot

TypeOK ==
    /\ row \in [Ids -> [state : {"none", "prepared"} \cup PastFence, boot : 0 .. MaxBoots,
                        intent : {None} \cup [text : Texts, how : {"parts", "first", "single"}, rev : Nat]]]
    /\ boot \in 1 .. MaxBoots
    /\ asm \in [Ids -> {None} \cup [parts : [Chunk -> Texts \cup {None}], writing : BOOLEAN]]
    /\ writer \in [Lanes -> {None} \cup
                     [id : Ids, text : [Chunk -> Texts \cup {None}], n : 0 .. 2,
                      phase : {"asking", "settling", "ready", "fenced"}]]
    /\ \A id \in Ids : (asm[id] # None /\ asm[id].writing) =>
           /\ writer[Lane(id)] # None /\ writer[Lane(id)].id = id
    /\ session \in {"running", "ended"} /\ closed \in BOOLEAN
    /\ {rev, raws} \subseteq Nat /\ escaped \subseteq Ids
    /\ typed \in [Ids -> Seq([Chunk -> Texts \cup {None}])]
    /\ told \in [Ids -> SUBSET ({"prepared", "held"} \cup PastFence)]

Init ==
    /\ row = [id \in Ids |-> NoRow] /\ boot = 1
    /\ asm = [id \in Ids |-> None] /\ writer = [l \in Lanes |-> None]
    /\ session = "running" /\ closed = FALSE /\ rev = 0
    /\ typed = [id \in Ids |-> <<>>] /\ told = [id \in Ids |-> {}]
    /\ raws = 0 /\ escaped = {}

(***************************************************************************)
(* The journal.                                                            *)
(***************************************************************************)

\* transitionSubmission: only from the state named, only in this boot.
Can(id, from) == row[id].state = from /\ row[id].boot = boot
Move(id, from, to) == IF Can(id, from) THEN [row EXCEPT ![id].state = to] ELSE row

Shown(r) == IF r.state = "prepared" /\ r.boot # boot THEN "held" ELSE r.state
Reply(id) == told' = [told EXCEPT ![id] = @ \cup {Shown(row'[id])}]

\* Opening the journal: a write begun by a boot before is unknown, prepared
\* rows of boots before that are old are rejected.
Opened(aged) ==
    [id \in Ids |->
        IF row[id].state = "write_started" THEN [row[id] EXCEPT !.state = "unknown"]
        ELSE IF id \in aged /\ row[id].state = "prepared" THEN [row[id] EXCEPT !.state = "rejected"]
        ELSE row[id]]

(***************************************************************************)
(* Commands.  They run when their queue is free; the session must run.     *)
(***************************************************************************)

Admits(id) ==
    /\ ~closed /\ writer[Lane(id)] = None
    /\ id \in Inputs => session = "running"

Held == {id \in Ids : asm[id] # None}

\* assertRawAllowed: nobody else prepares a request for that session.
RawAllowed(id) == id \in Inputs => Held \cap Inputs = {}

\* A reservation can be made: the first one of the id, or after the payload
\* of a row of this boot was dropped.
Reservable(id, intent) ==
    /\ asm[id] = None /\ Cardinality(Held) < MaxAssemblies /\ RawAllowed(id)
    /\ row[id] = NoRow \/ (Current(id) /\ row[id].intent = intent)
Prepared(id, intent) ==
    IF row[id] = NoRow THEN [row EXCEPT ![id] = [state |-> "prepared", boot |-> boot, intent |-> intent]]
    ELSE row

Begin(id, text, how) ==
    LET intent == Intent(id, text, how)
    IN  /\ Admits(id)
        /\ \/ /\ \/ row[id].state \in PastFence
                 \/ row[id].state = "prepared" /\ asm[id] # None
              /\ row[id].intent = intent
              /\ UNCHANGED <<row, asm>>
           \/ /\ row[id].state \notin PastFence
              /\ Reservable(id, intent)
              /\ row' = Prepared(id, intent)
              /\ asm' = [asm EXCEPT ![id] =
                     [parts |-> IF how = "first" THEN [Empty EXCEPT ![1] = text] ELSE Empty, writing |-> FALSE]]
        /\ Reply(id)
        /\ UNCHANGED <<boot, writer, session, closed, rev, typed, raws, escaped>>

\* Faulty: the digest of the whole is not compared.
CommittableUnread(id, parts) ==
    /\ Current(id) /\ ~asm[id].writing
    /\ row[id].intent.rev = InputState(id)
    /\ \A i \in Chunk : parts[i] # None

\* The commit of what was uploaded hands the text to the writer.  A request
\* whose effort is to be adjusted first starts by asking the CLI.
Committable(id, parts) ==
    /\ Current(id) /\ ~asm[id].writing
    /\ row[id].intent.rev = InputState(id)
    /\ parts = Whole(row[id].intent.text)
Phases(id) == {"ready"} \cup IF id \in Inputs THEN {"asking"} ELSE {}
Hand(id, parts) ==
    /\ asm' = [asm EXCEPT ![id] = [parts |-> parts, writing |-> TRUE]]
    /\ \E p \in Phases(id) : writer' = [writer EXCEPT ![Lane(id)] = [id |-> id, text |-> parts, n |-> 0, phase |-> p]]

Single(id, text) ==
    LET intent == Intent(id, text, "single")
    IN  /\ Admits(id)
        /\ \/ /\ row[id].state \in PastFence /\ row[id].intent.text = text
              /\ UNCHANGED <<row, asm, writer>>
              /\ Reply(id)
           \/ /\ row[id].state \notin PastFence /\ Reservable(id, intent)
              /\ row' = Prepared(id, intent)
              /\ Hand(id, Whole(text))
              /\ UNCHANGED told
        /\ UNCHANGED <<boot, session, closed, rev, typed, raws, escaped>>

ChunkOf(id, i, text, commit) ==
    /\ Admits(id)
    /\ asm[id] # None /\ Current(id) /\ row[id].intent.rev = InputState(id)
    /\ asm[id].parts[i] \in {None, text}
    /\ LET parts == [asm[id].parts EXCEPT ![i] = text]
       IN  IF commit /\ Committable(id, parts)
           THEN Hand(id, parts) /\ UNCHANGED told
           ELSE /\ asm' = [asm EXCEPT ![id].parts = parts]
                /\ IF commit THEN UNCHANGED told ELSE told' = [told EXCEPT ![id] = @ \cup {"prepared"}]
                /\ UNCHANGED writer
    /\ UNCHANGED <<journal, session, closed, rev, typed, raws, escaped>>

Commit(id) ==
    /\ Admits(id) /\ UNCHANGED row
    /\ \/ /\ row[id].state \in PastFence /\ Reply(id)
          /\ UNCHANGED <<asm, writer>>
       \/ /\ asm[id] # None /\ Committable(id, asm[id].parts) /\ Hand(id, asm[id].parts)
          /\ UNCHANGED told
    /\ UNCHANGED <<boot, session, closed, rev, typed, raws, escaped>>

\* status and recent read the journal at any time, outside the queue.
Status(id) ==
    /\ ~closed /\ row[id] # NoRow
    /\ UNCHANGED row /\ Reply(id)
    /\ UNCHANGED <<boot, asm, writer, session, closed, rev, typed, raws, escaped>>

(***************************************************************************)
(* The writer: the part of #mutate that types the text or spawns the       *)
(* session, between the commit and its receipt.                            *)
(***************************************************************************)

\* Typed into a terminal: the body, and after a pause Enter.  A launch is
\* given its prompt with the spawn.
Steps(id) == IF id \in Launches THEN 1 ELSE 2
Alive(id) == ~closed /\ (id \in Inputs => session = "running")

\* Faulty: a writer that is done keeps its reservation.
LeaveReserved(l, id) ==
    /\ writer' = [writer EXCEPT ![l] = None]
    /\ UNCHANGED asm

Leave(l, id) ==
    /\ writer' = [writer EXCEPT ![l] = None]
    /\ asm' = [asm EXCEPT ![id] = None]
\* Anything wrong before the fence: the receipt says it was refused.
Refuse(l) ==
    LET w == writer[l] IN
    /\ w # None /\ w.phase # "fenced"
    /\ row' = Move(w.id, "prepared", "rejected")
    /\ Leave(l, w.id)
    /\ UNCHANGED <<boot, session, closed, rev, history>>

\* The loop that waits for the CLI ends: its last check of the session.
LastCheck(l) ==
    LET w == writer[l] IN
    /\ w # None /\ w.phase = "asking"
    /\ Alive(w.id) /\ row[w.id].intent.rev = rev
    /\ writer' = [writer EXCEPT ![l].phase = "settling"]
    /\ UNCHANGED <<journal, asm, session, closed, rev, history>>

\* automaticPending ends with the last read of the screen.
Settle(l) ==
    /\ writer[l] # None /\ writer[l].phase = "settling"
    /\ writer' = [writer EXCEPT ![l].phase = "ready"]
    /\ UNCHANGED <<journal, asm, session, closed, rev, history>>

\* Faulty: the journal is written when the text is typed, not before.
StartUnrecorded(l) ==
    LET w == writer[l] IN
    /\ w # None /\ w.phase = "ready"
    /\ Alive(w.id) /\ asm[w.id] # None /\ Can(w.id, "prepared")
    /\ writer' = [writer EXCEPT ![l].phase = "fenced"]
    /\ rev' = IF w.id \in Inputs THEN rev + 1 ELSE rev
    /\ UNCHANGED <<journal, asm, session, closed, history>>

\* start(): the reservation still stands, and the journal says so first.
Start(l) ==
    LET w == writer[l] IN
    /\ w # None /\ w.phase = "ready"
    /\ Alive(w.id) /\ asm[w.id] # None /\ Can(w.id, "prepared")
    /\ row' = Move(w.id, "prepared", "write_started")
    /\ writer' = [writer EXCEPT ![l].phase = "fenced"]
    /\ rev' = IF w.id \in Inputs THEN rev + 1 ELSE rev
    /\ UNCHANGED <<boot, asm, session, closed, history>>
\* One write to the terminal.  It may be cut short: the writer then fails.
Type(l) ==
    LET w == writer[l] IN
    /\ w # None /\ w.phase = "fenced"
    /\ w.n < Steps(w.id) /\ (w.id \in Inputs => Alive(w.id))
    /\ typed' = [typed EXCEPT ![w.id] = Append(@, IF w.n = 0 THEN w.text ELSE Enter)]
    /\ writer' = [writer EXCEPT ![l].n = @ + 1]
    /\ UNCHANGED <<journal, asm, session, closed, rev, told, raws, escaped>>

\* Faulty: a write that failed may be tried again.
FailForRetry(l) ==
    LET w == writer[l] IN
    /\ w # None /\ w.phase = "fenced"
    /\ row' = Move(w.id, "write_started", "prepared")
    /\ Leave(l, w.id) /\ Reply(w.id)
    /\ UNCHANGED <<boot, session, closed, rev, typed, raws, escaped>>

\* Any error after the fence: what reached the terminal is unknown.
Fail(l) ==
    LET w == writer[l] IN
    /\ w # None /\ w.phase = "fenced"
    /\ row' = Move(w.id, "write_started", "unknown")
    /\ Leave(l, w.id) /\ Reply(w.id)
    /\ UNCHANGED <<boot, session, closed, rev, typed, raws, escaped>>
Finish(l) ==
    LET w == writer[l] IN
    /\ w # None /\ w.phase = "fenced" /\ w.n = Steps(w.id)
    /\ row' = Move(w.id, "write_started", "written")
    /\ Leave(l, w.id) /\ Reply(w.id)
    /\ UNCHANGED <<boot, session, closed, rev, typed, raws, escaped>>

(***************************************************************************)
(* What does not wait in the queues.                                       *)
(***************************************************************************)

\* Faulty: a reservation is kept while its writer works.
PruneIdle(id) ==
    /\ asm[id] # None /\ ~asm[id].writing
    /\ asm' = [asm EXCEPT ![id] = None]
    /\ row' = IF id \in Launches THEN Move(id, "prepared", "rejected") ELSE row
    /\ UNCHANGED <<boot, writer, session, closed, rev, history>>

\* Faulty: the payload of a launch is dropped and its receipt is left.
PruneSilently(id) ==
    /\ asm[id] # None
    /\ asm' = [asm EXCEPT ![id] = None]
    /\ UNCHANGED <<journal, writer, session, closed, rev, history>>

\* prune: the reservation of an id is over.  A launch that nobody writes is
\* refused for good; a writer finds out when it starts.
Prune(id) ==
    /\ asm[id] # None
    /\ asm' = [asm EXCEPT ![id] = None]
    /\ row' = IF id \in Launches /\ ~asm[id].writing THEN Move(id, "prepared", "rejected") ELSE row
    /\ UNCHANGED <<boot, writer, session, closed, rev, history>>
\* Keys typed by hand wait in the queue and for open reservations.
RawInput ==
    /\ session = "running" /\ ~closed /\ writer["session"] = None
    /\ \A id \in Inputs : RawAllowed(id)
    /\ raws < MaxRaws
    /\ rev' = rev + 1 /\ raws' = raws + 1
    /\ UNCHANGED <<journal, asm, writer, session, closed, typed, told, escaped>>

\* Escape while the effort of a request is adjusted goes ahead of the queue.
Escape ==
    LET w == writer["session"] IN
    /\ session = "running" /\ ~closed
    /\ w # None /\ w.phase \in {"asking", "settling"}
    /\ Cardinality(escaped) < MaxEscs
    /\ rev' = rev + 1 /\ escaped' = escaped \cup {w.id}
    /\ UNCHANGED <<journal, asm, writer, session, closed, typed, told, raws>>

\* The session is closed or its process ends: its reservations are released.
EndSession ==
    /\ session = "running" /\ session' = "ended"
    /\ asm' = [id \in Ids |-> IF id \in Inputs THEN None ELSE asm[id]]
    /\ UNCHANGED <<journal, writer, closed, rev, history>>

Shutdown ==
    /\ ~closed /\ closed' = TRUE
    /\ asm' = [id \in Ids |-> None]
    /\ UNCHANGED <<journal, writer, session, rev, history>>

\* The process dies, or ends after a shutdown, and a new one opens the
\* journal.  Its sessions are new ones.
Restart(aged) ==
    /\ boot < MaxBoots /\ boot' = boot + 1
    /\ row' = Opened(aged)
    /\ asm' = [id \in Ids |-> None] /\ writer' = [l \in Lanes |-> None]
    /\ session' = "ended" /\ closed' = FALSE
    /\ UNCHANGED <<rev, history>>

\* Another host process opens the same journal while this one lives.
OpenedElsewhere(aged) ==
    /\ Opened(aged) # row /\ row' = Opened(aged)
    /\ UNCHANGED <<boot, asm, writer, session, closed, rev, history>>

WriterStep(l) ==
    \/ Refuse(l) \/ LastCheck(l) \/ Settle(l) \/ Start(l)
    \/ Type(l) \/ Fail(l) \/ Finish(l)

ClientCommand(id) ==
    \/ \E text \in Texts, how \in {"parts", "first"} : Begin(id, text, how)
    \/ \E text \in Texts : Single(id, text)
    \/ \E text \in Texts, i \in Chunk, commit \in BOOLEAN : ChunkOf(id, i, text, commit)
    \/ Commit(id) \/ Status(id)

Next ==
    \/ \E id \in Ids : ClientCommand(id) \/ Prune(id)
    \/ \E l \in Lanes : WriterStep(l)
    \/ RawInput \/ Escape \/ EndSession \/ Shutdown
    \/ \E aged \in SUBSET Ids : Restart(aged) \/ OpenedElsewhere(aged)

Spec == Init /\ [][Next]_vars

\* The expiry timer is armed for every reservation.
TimerFairness == \A id \in Ids : WF_vars(Prune(id))

(***************************************************************************)
(* Properties                                                              *)
(***************************************************************************)

\* However often a submission is begun, committed, retried or interrupted,
\* its text is typed at most once, and Enter at most once and after it.
TypedOnce ==
    \A id \in Ids : /\ Len(typed[id]) <= 2
                    /\ \A i \in DOMAIN typed[id] : typed[id][i] = Enter <=> i = 2

\* What is typed is the text announced when the submission was begun, never
\* chunks of two clients put together.
AnnouncedTextTyped ==
    \A id \in Ids : typed[id] # <<>> => typed[id][1] = Whole(row[id].intent.text)

\* A receipt once shown stays true: after "rejected" or "held" nothing of
\* the request was or is ever typed, after "written" all of it was.
ReceiptTellsTruth ==
    \A id \in Ids :
        /\ told[id] \cap {"rejected", "held"} # {} => typed[id] = <<>>
        /\ "written" \in told[id] => Len(typed[id]) = Steps(id)

\* A request is typed into the input the client saw: no key and no other
\* request came between its preparation and its fence, except an Escape key
\* pressed after the last look for one (Settle has none).
TypedInPlace ==
    \A id \in Inputs \ escaped : (row[id].state = "write_started" /\ writer["session"] # None
                         /\ writer["session"].id = id) =>
                        rev = row[id].intent.rev + 1

\* What is typed, and what receipts say of it: the four above.
SubmissionsKeepTheirWord ==
    TypeOK /\ TypedOnce /\ AnnouncedTextTyped /\ ReceiptTellsTruth /\ TypedInPlace

\* A reservation, which keeps keys out of its session and takes one of few
\* places, ends although its client is gone or its writer hangs.
ReservationEnds == \A id \in Ids : asm[id] # None ~> asm[id] = None
=============================================================================
