----------------------------- MODULE PortFence -----------------------------
(***************************************************************************)
(* One port row of the shared database behind its durable fence            *)
(* (schemaSql.ts, PORT_DURABLE_FENCE_SQL) and the clients that change it   *)
(* through the database functions (portDurableFence.ts): the Mac that owns *)
(* the row and keeps a copy in its ports.json, other Macs that remove      *)
(* rows nobody seems to own, and browser portals.  A request may be        *)
(* executed late, after its client gave it up, and its answer may be lost. *)
(*                                                                         *)
(* Every function takes the advisory lock of the row before it reads and   *)
(* is one transaction, so it is one step.  A batch is accepted only when   *)
(* each of its rows is; one row stands for the batch.  The device id is    *)
(* part of the row and never changes; the name a deletion quotes is fixed  *)
(* by the generation it quotes with it.                                    *)
(***************************************************************************)
EXTENDS Naturals, FiniteSets

CONSTANTS Owner,        \* the Mac whose device id the row carries
          Others,       \* other Macs of the same member
          Portals,      \* browser portals
          Columns,      \* the columns of the row
          Shared,       \* the column the inline editor of a portal patches
          Drafts,       \* the texts of the row somebody types
          Kinds,        \* the kinds of request of this instance
          MaxOps,       \* bound: operation ids drawn
          None          \* model value

ASSUME FenceAssumption ==
  /\ Shared \in Columns
  /\ Drafts # {}
  /\ MaxOps \in Nat

Macs    == {Owner} \cup Others
Clients == Macs \cup Portals
Blank   == CHOOSE t \in Drafts : TRUE

VARIABLES row,       \* portmgr_ports: [text, gen], or None
          fence,     \* portmgr_port_fences: [state, gen, op, base, payload], or None
          net,       \* requests a client sent that were neither executed nor lost
          job,       \* what each client is in the middle of, or None
          view,      \* the row as each other client last read it
          pull,      \* what the owner has read and not used yet: [row], or None
          local,     \* the owner's row in ports.json: [text, gen, seen], or None;
                     \* seen: the texts it knows may stand under that generation
          marked,    \* Macs whose portal.json lists the id in remoteDeletedPortIds
          ops,       \* operation ids drawn so far
          effects,   \* history: how often each operation changed the database
          removed    \* history: the Mac whose operation deleted the row as it stands

database == <<row, fence>>
vars == <<row, fence, net, job, view, pull, local, marked, ops, effects, removed>>

---------------------------------------------------------------------------
(* The database functions.  Each gives the row and the fence it leaves and *)
(* its answer; a refusal is an exception, which rolls everything back.     *)

Refused(why) == [row |-> row, fence |-> fence, ok |-> FALSE, gen |-> 0, why |-> why]
Done(r, f)   == [row |-> r, fence |-> f, ok |-> TRUE, gen |-> f.gen, why |-> None]

Active == fence # None /\ fence.state = "active"
Buried == fence # None /\ fence.state = "deleted"

Fence(state, gen, q, payload) ==
  [state |-> state, gen |-> gen, op |-> q.op, base |-> q.base, payload |-> payload]

Patched(q) ==
  [c \in Columns |-> IF c \in DOMAIN q.text THEN q.text[c]
                     ELSE IF row = None THEN Blank[c] ELSE row.text[c]]

\* Faulty: the row's generation is not compared.
CurrentEnough(q) == row # None /\ fence.gen >= q.base

\* The generation the writer quotes is the one the row and its fence carry.
Current(q) == row # None /\ fence.gen = q.base /\ row.gen = q.base

\* Faulty: any patch that changes nothing is adopted.
AdoptedUnchanged(q) ==
  row # None /\ fence.gen = row.gen /\ row.gen > q.base /\ Patched(q) = row.text

\* A caller that lost a committed answer comes back with a new operation id:
\* only the exact operation before the present state is adopted.
Adopted(q) ==
  /\ row # None
  /\ fence.gen = row.gen
  /\ row.gen > q.base
  /\ Patched(q) = row.text
  /\ fence.base = q.base
  /\ fence.payload = q.text

Replayed(q) == /\ row # None
               /\ fence.base = q.base
               /\ fence.payload = q.text
               /\ row.gen = fence.gen

Upsert(q) ==
  LET changed == row = None \/ Patched(q) # row.text
      gen     == IF row = None THEN 0 ELSE IF changed THEN row.gen + 1 ELSE row.gen
      Written == Done([text |-> Patched(q), gen |-> gen],
                      Fence("active", gen, q, q.text))
  IN CASE fence = None      -> IF row # None \/ q.base # 0 THEN Refused("stale")
                                                           ELSE Written
       [] Buried            -> Refused("deleted")
       [] Active /\ fence.op = q.op
                            -> IF Replayed(q) THEN Done(row, fence) ELSE Refused("stale")
       [] OTHER             -> IF Current(q) \/ Adopted(q) THEN Written
                                                           ELSE Refused("stale")

\* Faulty: the row goes and takes its fence with it.
TombstoneNothing(q) ==
  [row |-> None, fence |-> None, ok |-> TRUE, gen |-> q.base + 1, why |-> None]

\* Faulty: the fence is closed over a row that stays.
TombstoneOver(q) == Done(row, Fence("deleted", q.base + 1, q, None))

\* The trigger on the deletion of the row moves its fence on and closes it.
Tombstone(q) == Done(None, Fence("deleted", q.base + 1, q, None))

Delete(q) ==
  CASE Active /\ Current(q)                 -> Tombstone(q)
    [] Buried /\ fence.op = q.op /\ fence.gen = q.base + 1
                                            -> Done(row, fence)
    [] OTHER                                -> Refused("stale")

\* The same, and an id that is neither stored nor fenced gets a tombstone.
DeleteOrTombstone(q) ==
  CASE row # None                           -> IF Active /\ Current(q) THEN Tombstone(q)
                                                                       ELSE Refused("stale")
    [] row = None /\ fence = None           -> Tombstone(q)
    [] Buried /\ fence.gen = q.base + 1     -> Done(row, fence)
    [] OTHER                                -> Refused("stale")

\* q.base is the generation of the tombstone the caller wants lifted.
Restore(q) ==
  CASE Active /\ fence.op = q.op /\ fence.gen = q.base + 1
         -> IF row # None /\ row.gen = fence.gen /\ row.text = q.text
            THEN Done(row, fence) ELSE Refused("stale")
    [] Buried /\ row = None /\ fence.gen = q.base
         -> Done([text |-> q.text, gen |-> q.base + 1],
                 Fence("active", q.base + 1, q, None))
    [] OTHER -> Refused("stale")

\* A historical text goes back over the row as the preflight read it; q.absent
\* says the preflight found neither row nor fence.
Snapshot(q) ==
  IF Buried THEN [Refused("skipped") EXCEPT !.ok = TRUE]
  ELSE IF \/ (IF q.absent THEN row = None /\ fence = None ELSE Active /\ Current(q))
          \/ Active /\ fence.op = q.op /\ Replayed(q)
       THEN Upsert(q) ELSE Refused("stale")

Outcome(q) == CASE q.kind = "upsert"   -> Upsert(q)
                [] q.kind = "delete"   -> Delete(q)
                [] q.kind = "remove"   -> DeleteOrTombstone(q)
                [] q.kind = "restore"  -> Restore(q)
                [] q.kind = "snapshot" -> Snapshot(q)

---------------------------------------------------------------------------
Init ==
  /\ \/ row = None /\ fence = None /\ local = None
     \/ /\ row = [text |-> Blank, gen |-> 0]
        /\ fence = [state |-> "active", gen |-> 0, op |-> 0,
                    base |-> None, payload |-> None]
        /\ local = [text |-> Blank, gen |-> 0, seen |-> {Blank}]
  /\ net = {}
  /\ job = [c \in Clients |-> None]
  /\ view = [c \in Clients \ {Owner} |-> row]
  /\ pull = None
  /\ marked = {}
  /\ ops = 0
  /\ effects = [o \in 1..MaxOps |-> 0]
  /\ removed = None

Idle(c) == job[c] = None

\* seen: the texts the client knows may stand under the generation it quotes.
Call(c, kind, base, text, seen, absent, added) ==
  LET q == [client |-> c, op |-> ops + 1, try |-> 1, kind |-> kind, base |-> base,
            text |-> text, seen |-> seen, absent |-> absent]
  IN /\ kind \in Kinds
     /\ ops < MaxOps
     /\ ops' = ops + 1
     /\ net' = net \cup {q}
     /\ job' = [job EXCEPT ![c] = [at |-> "wait", q |-> q, answer |-> None,
                                   added |-> added]]

\* The owner's window: a new project, an edit of it.
Create(t) ==
  /\ row = None /\ fence = None /\ ops = 0 /\ local = None
  /\ local' = [text |-> t, gen |-> 0, seen |-> {}]
  /\ UNCHANGED <<row, fence, net, job, view, pull, marked, ops, effects, removed>>

Edit(t) ==
  /\ local # None /\ t # local.text
  /\ local' = [local EXCEPT !.text = t]
  /\ UNCHANGED <<row, fence, net, job, view, pull, marked, ops, effects, removed>>

\* Automatic and explicit push.  The look at the fence that comes first is
\* Discover; the fence may close after it.
Push ==
  /\ Idle(Owner) /\ local # None /\ Owner \notin marked
  /\ Call(Owner, "upsert", local.gen, local.text, local.seen, FALSE, FALSE)
  /\ local' = [local EXCEPT !.seen = @ \cup {local.text}]
  /\ UNCHANGED <<row, fence, view, pull, marked, effects, removed>>

\* A read of the row: a portal's list, the scan for rows without an owner.
Read(c) ==
  /\ view' = [view EXCEPT ![c] = row]
  /\ view' # view
  /\ UNCHANGED <<row, fence, net, job, pull, local, marked, ops, effects, removed>>

\* The first half of a pull, and the preflight of a snapshot.
Look ==
  /\ pull' = [row |-> row]
  /\ UNCHANGED <<row, fence, net, job, view, local, marked, ops, effects, removed>>

\* The lease is held only while the database is asked.
Leased == job[Owner] # None /\ job[Owner].at = "wait"

\* Faulty: a pull takes the newer generation although the texts differ.
MergeAnyway ==
  LET r == pull.row IN
  /\ pull # None /\ ~Leased
  /\ pull' = None
  /\ local' = IF r = None \/ Owner \in marked THEN local
              ELSE IF local = None THEN [text |-> r.text, gen |-> r.gen, seen |-> {r.text}]
              ELSE IF local.gen > r.gen THEN local ELSE [local EXCEPT !.gen = r.gen]
  /\ UNCHANGED <<row, fence, net, job, view, marked, ops, effects, removed>>

\* The second half of a pull, under the lease: local values stay, and with them
\* their generation unless both sides agree.
Merge ==
  LET r == pull.row
      Taken == [text |-> r.text, gen |-> r.gen, seen |-> {r.text}]
  IN
  /\ pull # None /\ ~Leased
  /\ pull' = None
  /\ local' = IF \/ r = None \/ Owner \in marked
                 \/ local # None /\ (local.text # r.text \/ local.gen > r.gen)
              THEN local ELSE Taken
  /\ UNCHANGED <<row, fence, net, job, view, marked, ops, effects, removed>>

\* A portal patches one column, or saves its whole form over the row it read.
PortalSave(p, t) ==
  LET v == view[p] IN
  /\ Idle(p) /\ v # None
  /\ \/ Call(p, "upsert", v.gen, [c \in {Shared} |-> t[Shared]], {v.text}, FALSE, FALSE)
     \/ Call(p, "upsert", v.gen, t, {v.text}, FALSE, FALSE)
  /\ UNCHANGED <<row, fence, view, pull, local, marked, effects, removed>>

PortalDelete(p) ==
  /\ Idle(p) /\ view[p] # None
  /\ Call(p, "delete", view[p].gen, Blank, {}, FALSE, FALSE)
  /\ UNCHANGED <<row, fence, view, pull, local, marked, effects, removed>>

\* A Mac writes its permanent marker before it asks for the deletion of the row
\* as it stood at the click: the owner in its list, another Mac in its scan.
Mark(m) ==
  LET r == IF m = Owner THEN local ELSE view[m] IN
  /\ Idle(m) /\ ops < MaxOps /\ r # None
  /\ (IF m = Owner THEN "remove" ELSE "delete") \in Kinds
  /\ marked' = marked \cup {m}
  /\ job' = [job EXCEPT ![m] = [at |-> "marked", q |-> r, answer |-> None,
                                added |-> m \notin marked]]
  /\ UNCHANGED <<row, fence, net, view, pull, local, ops, effects, removed>>

Ask(m) ==
  /\ job[m] # None /\ job[m].at = "marked"
  /\ Call(m, IF m = Owner THEN "remove" ELSE "delete", job[m].q.gen, Blank, {}, FALSE,
          job[m].added)
  /\ UNCHANGED <<row, fence, view, pull, local, marked, effects, removed>>

\* The owner brings back a historical text; a member lifts a tombstone.
Bring(t) ==
  LET r == pull.row IN
  /\ Idle(Owner) /\ pull # None /\ Owner \notin marked
  /\ pull' = None
  /\ Call(Owner, "snapshot", IF r = None THEN 0 ELSE r.gen, t,
          IF r = None THEN {} ELSE {r.text}, r = None, FALSE)
  /\ UNCHANGED <<row, fence, view, local, marked, effects, removed>>

Lift(c) ==
  /\ Idle(c) /\ Buried /\ view[c] # None /\ view[c].gen + 1 = fence.gen
  /\ Call(c, "restore", fence.gen, view[c].text, {}, FALSE, FALSE)
  /\ UNCHANGED <<row, fence, view, pull, local, marked, effects, removed>>

---------------------------------------------------------------------------
(* Delivery.                                                               *)

Awaits(q) == /\ job[q.client] # None
             /\ job[q.client].at = "wait"
             /\ job[q.client].q = q

\* The database executes a request; its answer reaches the client or is lost.
Execute(q) ==
  LET o == Outcome(q) IN
  /\ q \in net
  /\ net' = net \ {q}
  /\ row' = o.row
  /\ fence' = o.fence
  /\ effects' = [effects EXCEPT ![q.op] =
       IF o.row # row \/ (o.fence = None) # (fence = None)
       THEN @ + 1 ELSE @]
  /\ removed' = IF row' # None THEN None
                ELSE IF fence' # fence /\ q.kind \in {"remove", "delete"}
                THEN q.client ELSE removed
  /\ \/ /\ Awaits(q)
        /\ job' = [job EXCEPT ![q.client].answer =
                     [ok |-> o.ok, gen |-> o.gen, why |-> o.why]]
     \/ UNCHANGED job
  /\ UNCHANGED <<view, pull, local, marked, ops>>

Answered(c) == job[c] # None /\ job[c].at = "wait" /\ job[c].answer # None
Close(c)    == job' = [job EXCEPT ![c] = None]

\* A Mac tries an upsert or a snapshot once more, under the same operation id,
\* when no answer says whether it was committed.
Retry(c) ==
  LET q == [job[c].q EXCEPT !.try = 2] IN
  /\ job[c] # None /\ job[c].at = "wait" /\ job[c].answer = None
  /\ c \in Macs /\ job[c].q.kind \in {"upsert", "snapshot"} /\ job[c].q.try = 1
  /\ net' = net \cup {q}
  /\ job' = [job EXCEPT ![c].q = q]
  /\ UNCHANGED <<row, fence, view, pull, local, marked, ops, effects, removed>>

\* Faulty: a deletion that got no answer is taken for a refused one.
QuitRefused(c) ==
  /\ job[c] # None
  /\ IF job[c].added /\ job[c].at = "wait"
     THEN job' = [job EXCEPT ![c].at = "refused"]
     ELSE Close(c)
  /\ UNCHANGED <<row, fence, net, view, pull, local, marked, ops, effects, removed>>

\* Everything else is given up with its fate unknown: a marker stays.  A window
\* may also end at any moment; what it had put on disk stays.
Quit(c) ==
  /\ job[c] # None
  /\ Close(c)
  /\ UNCHANGED <<row, fence, net, view, pull, local, marked, ops, effects, removed>>

\* The generation of the answer goes to the row as it now stands in the window,
\* whatever was typed meanwhile; a row that has gone is not put back.
Finish(c) ==
  LET q == job[c].q
      a == job[c].answer
      full == DOMAIN q.text = Columns
  IN
  /\ Answered(c)
  /\ marked' = IF c = Owner /\ a.ok /\ a.why = "skipped" THEN marked \cup {c} ELSE marked
  /\ local' = IF local # None /\ c = Owner /\ a.ok /\ q.kind = "upsert"
              THEN [local EXCEPT !.gen = a.gen, !.seen = {q.text}]
              ELSE IF a.ok /\ q.kind = "remove" THEN None ELSE local
  /\ view' = IF c # Owner /\ view[c] # None /\ a.ok /\ q.kind = "upsert" /\ ~full
             THEN [view EXCEPT ![c] =
                     [text |-> [@.text EXCEPT ![Shared] = q.text[Shared]], gen |-> a.gen]]
             ELSE view
  /\ IF ~a.ok /\ q.kind \in {"remove", "delete"} /\ c \in Macs /\ job[c].added
     THEN job' = [job EXCEPT ![c].at = "refused"]
     ELSE Close(c)
  /\ UNCHANGED <<row, fence, net, pull, ops, effects, removed>>

---------------------------------------------------------------------------
(* Markers.                                                                *)

\* A refused deletion takes its marker back when the fence is active ...
LookBefore(m) ==
  /\ job[m] # None /\ job[m].at = "refused"
  /\ IF Active THEN job' = [job EXCEPT ![m].at = "active"] ELSE Close(m)
  /\ UNCHANGED <<row, fence, net, view, pull, local, marked, ops, effects, removed>>

Unmark(m) ==
  /\ job[m] # None /\ job[m].at = "active"
  /\ marked' = marked \ {m}
  /\ job' = [job EXCEPT ![m].at = "unmarked"]
  /\ UNCHANGED <<row, fence, net, view, pull, local, ops, effects, removed>>

\* ... and looks again, because the fence may have closed meanwhile.
LookAgain(m) ==
  /\ job[m] # None /\ job[m].at = "unmarked"
  /\ marked' = IF Buried THEN marked \cup {m} ELSE marked
  /\ Close(m)
  /\ UNCHANGED <<row, fence, net, view, pull, local, ops, effects, removed>>

\* Every thirty seconds, and before a push or a pull, the owner looks whether
\* the fence of a row it knows has closed; then the marker, and its copy goes.
Discover ==
  /\ Buried /\ local # None
  /\ marked' = marked \cup {Owner}
  /\ marked' # marked
  /\ UNCHANGED <<row, fence, net, job, view, pull, local, ops, effects, removed>>

\* Faulty: the marker is written and the copy stays.
ReconcileNothing == FALSE /\ UNCHANGED vars

Reconcile ==
  /\ ~Leased /\ Owner \in marked /\ local # None /\ Buried
  /\ local' = None
  /\ UNCHANGED <<row, fence, net, job, view, pull, marked, ops, effects, removed>>

Window == \/ \E t \in Drafts : (Create(t) \/ Edit(t) \/ Bring(t))
          \/ Push \/ Look \/ Merge \/ Discover \/ Reconcile

Next ==
  \/ Window
  \/ \E c \in Clients \ {Owner} : Read(c) \/ Lift(c)
  \/ \E c \in Clients : Retry(c) \/ Quit(c) \/ Finish(c)
  \/ \E p \in Portals : (PortalDelete(p) \/ \E t \in Drafts : PortalSave(p, t))
  \/ \E m \in Macs : Mark(m) \/ Ask(m) \/ LookBefore(m) \/ Unmark(m) \/ LookAgain(m)
  \/ \E q \in net : Execute(q)

Spec == Init /\ [][Next]_vars

\* The poll runs for as long as the window is open, and every call is given up
\* at the latest by its timeout.
Fairness == /\ WF_vars(Discover)
            /\ WF_vars(Reconcile)
            /\ \A c \in Clients : WF_vars(Finish(c) \/ Quit(c))

---------------------------------------------------------------------------
Row == [text : [Columns -> UNION {{t[c] : c \in Columns} : t \in Drafts}], gen : Nat]

TypeOK ==
  /\ row \in Row \cup {None}
  /\ fence # None => /\ fence.state \in {"active", "deleted"}
                     /\ fence.gen \in Nat
                     /\ fence.op \in 0..ops
  /\ (row # None) = Active
  /\ row # None => row.gen = fence.gen
  /\ view \in [Clients \ {Owner} -> Row \cup {None}]
  /\ pull # None => pull.row \in Row \cup {None}
  /\ local # None => [text |-> local.text, gen |-> local.gen] \in Row
  /\ marked \subseteq Macs
  /\ ops \in 0..MaxOps

\* Whoever changes an existing row had before it exactly what the change
\* overwrites: no column another client changed is written over unseen
\* (schemaSql.ts: the generation CAS of portmgr_upsert_ports_if_generation_matches
\* and its adoption of a lost answer; App.tsx: what a pull does to a local row).
KnewWhatItReplaced ==
  row # None /\ row' # None /\ row' # row =>
    \E q \in net \ net' : \A c \in Columns :
      row'.text[c] # row.text[c] => \E t \in q.seen : t[c] = row.text[c]

\* However often a request is sent, and however late each copy arrives, the
\* operation changes the database at most once (retryPortFenceMutationAfterCommitUnknown).
AppliedOnce == \A o \in 1..MaxOps : effects[o] <= 1

\* A deleted row comes back by nothing but a restoration that names the very
\* tombstone it lifts: no stale push, snapshot or late request recreates it.
StaysDeleted ==
  [][ removed # None /\ row' # None =>
        \E q \in net \ net' : q.kind = "restore" /\ q.base = fence.gen ]_database

\* A Mac whose own request deleted the row keeps its marker, so its ports.json
\* never shows the row again, however the request ended for it.
OwnDeletionMarked ==
  \A m \in Macs : removed = m /\ row = None => m \in marked

\* An operation and its marker are one thing, done once: the two above.
OperationsOnce == TypeOK /\ AppliedOnce /\ OwnDeletionMarked

\* When the row stays deleted, the owner's copy goes for good, even when a pull
\* that had read the row before the deletion puts it back once more.
DeletionArrives == <>[]Buried => <>[](local = None)
=============================================================================
