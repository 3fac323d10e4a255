--------------------------- MODULE PortFenceProofs ---------------------------
(***************************************************************************)
(* Proofs about PortFence, for every set of clients, columns and texts and *)
(* every number of operations: that an operation is done once, that what   *)
(* was deleted stays so, and that nobody writes over what it has not seen. *)
(***************************************************************************)
EXTENDS PortFence, TLAPS

Value == UNION {{t[c] : c \in Columns} : t \in Drafts}
Full  == [Columns -> Value]
Texts == Full \cup [{Shared} -> Value]

FenceRow == [state : {"active", "deleted"}, gen : Nat, op : Nat,
             base : Nat \cup {None}, payload : Texts \cup {None}]
LocalRow == [text : Full, gen : Nat, seen : SUBSET Full]
Pulled   == [row : Row \cup {None}]
Request  == [client : Clients, op : 1..MaxOps, try : {1, 2},
             kind : {"upsert", "delete", "remove", "restore", "snapshot"},
             base : Nat, text : Texts, seen : SUBSET Full, absent : BOOLEAN]
Answer   == [ok : BOOLEAN, gen : Nat, why : {None, "stale", "deleted", "skipped"}]
Job      == [at : {"wait", "marked", "refused", "active", "unmarked"},
             q : Request \cup Row \cup LocalRow,
             answer : Answer \cup {None}, added : BOOLEAN]

\* What the proofs ask of the constants: a Mac is no portal, drafts are texts of the
\* columns, and None stands for nothing else.
FenceConstants ==
  /\ Macs \cap Portals = {}
  /\ Drafts \subseteq Full
  /\ None \notin Clients
  /\ None \notin Row \cup FenceRow \cup LocalRow \cup Pulled \cup Answer \cup Job

Waits(c)    == job[c] # None /\ job[c].at = "wait"
Removal(q)  == q.kind \in {"remove", "delete"}
Repeated(q) == q.kind \in {"upsert", "snapshot"}

-----------------------------------------------------------------------------
(* The invariant.                                                          *)

RowTypes ==
  /\ row \in Row \cup {None}
  /\ fence \in FenceRow \cup {None}
  /\ (row # None) = Active
  /\ row # None => row.gen = fence.gen
  /\ ops \in 0..MaxOps
  /\ fence # None => fence.op <= ops
  /\ effects \in [1..MaxOps -> Nat]

\* A request as clients send it: portals alone patch a part of a row.
Asked(q, drawn) ==
  /\ q \in Request /\ q.op <= drawn
  /\ q.kind # "upsert" \/ q.client = Owner => q.text \in Full

CallTypes ==
  /\ \A q \in net : Asked(q, ops)
  /\ job \in [Clients -> Job \cup {None}]
  /\ \A c \in Clients : Waits(c) =>
       Asked(job[c].q, ops) /\ job[c].q.client = c
  /\ \A c \in Clients : job[c] # None /\ job[c].at = "marked" =>
       c \in Macs /\ job[c].q \in Row \cup LocalRow

WindowTypes ==
  /\ view \in [Clients \ {Owner} -> Row \cup {None}]
  /\ pull \in Pulled \cup {None}
  /\ local \in LocalRow \cup {None}
  /\ marked \subseteq Macs

Types == RowTypes /\ CallTypes /\ WindowTypes

\* The row with its fence has come as far as the operation of q would bring it.
Overtaken(q, r, f) ==
  /\ f # None
  /\ \/ f.gen > q.base
     \/ f.gen = q.base /\ r # None /\ \A c \in DOMAIN q.text : r.text[c] = q.text[c]

SameCall(p, q) == p.client = q.client /\ p.kind = q.kind /\ p.base = q.base /\ p.text = q.text

\* Copies of one operation are the same, and what took effect once is overtaken.
Once ==
  /\ \A o \in 1..MaxOps : effects[o] <= 1 /\ (o > ops => effects[o] = 0)
  /\ \A p, q \in net : p.op = q.op => SameCall(p, q) /\ (Repeated(q) \/ p = q)
  /\ \A c \in Clients, q \in net : Waits(c) /\ job[c].q.op = q.op => SameCall(job[c].q, q)
  /\ \A c, d \in Clients : Waits(c) /\ Waits(d) /\ job[c].q.op = job[d].q.op => c = d
  /\ \A q \in net : effects[q.op] > 0 => Repeated(q) /\ Overtaken(q, row, fence)
  /\ \A c \in Clients : Waits(c) /\ Repeated(job[c].q) /\ effects[job[c].q.op] > 0 =>
       Overtaken(job[c].q, row, fence)

\* A Mac that has asked for a deletion is marked as long as it may be carried out.
Marks ==
  /\ removed # None => row = None /\ Buried
  /\ \A q \in net : q.client \in Macs /\ Removal(q) => q.client \in marked
  /\ \A m \in Macs : removed = m => m \in marked
  /\ \A m \in Macs : job[m] # None =>
       /\ job[m].at = "marked" => m \in marked
       /\ job[m].at = "wait" /\ Removal(job[m].q) => m \in marked
       /\ job[m].at \in {"refused", "active", "unmarked"} \/ (job[m].at = "marked" /\ job[m].added) =>
            removed # m /\ \A q \in net : ~(q.client = m /\ Removal(q))
       /\ job[m].at = "wait" /\ job[m].added =>
            /\ \A q \in net : q.client = m /\ Removal(q) => q = job[m].q
            /\ job[m].answer = None /\ job[m].q \in net => removed # m
            /\ job[m].answer # None => job[m].q \notin net
            /\ job[m].answer # None /\ ~job[m].answer.ok => removed # m
       /\ job[m].at = "wait" /\ job[m].added => Removal(job[m].q)

FenceInv == Types /\ Once /\ Marks

\* What was promised follows.
LEMMA InvIsEnough == FenceInv => OperationsOnce
<1> SUFFICES ASSUME FenceInv PROVE OperationsOnce
  OBVIOUS
<1> USE DEF FenceInv, Types
<1>1. fence # None => fence.state \in {"active", "deleted"} /\ fence.gen \in Nat /\ fence.op \in 0..ops
  BY DEF RowTypes, FenceRow
<1>2. pull # None => pull.row \in Row \cup {None}
  BY DEF WindowTypes, Pulled
<1>3. local # None => [text |-> local.text, gen |-> local.gen] \in Row
  BY DEF WindowTypes, LocalRow, Row, Full, Value
<1>4. TypeOK
  BY <1>1, <1>2, <1>3 DEF TypeOK, RowTypes, WindowTypes
<1> QED BY <1>4 DEF OperationsOnce, AppliedOnce, OwnDeletionMarked, Once, Marks

-----------------------------------------------------------------------------
(* What the database functions leave.                                      *)

\* The outcome o of q respects types, moves generations forward, changes nothing that
\* q had been overtaken by, and leaves a deleted row to a restoration.
Sound(q, o) ==
  /\ o.row \in Row \cup {None} /\ o.fence \in FenceRow \cup {None}
  /\ (o.row # None) = (o.fence # None /\ o.fence.state = "active")
  /\ o.row # None => o.row.gen = o.fence.gen
  /\ o.fence # None => o.fence.op <= ops
  /\ [ok |-> o.ok, gen |-> o.gen, why |-> o.why] \in Answer
  /\ fence # None => /\ o.fence # None
                     /\ o.fence.gen >= fence.gen
                     /\ o.fence.gen = fence.gen /\ row # None =>
                          o.row # None /\ o.row.text = row.text
  /\ Repeated(q) /\ Overtaken(q, row, fence) => o.row = row
  /\ Repeated(q) /\ (o.row # row \/ (o.fence = None) # (fence = None)) =>
       /\ o.row # None
       /\ \/ o.fence.gen > q.base
          \/ o.fence.gen = q.base /\ \A c \in DOMAIN q.text : o.row.text[c] = q.text[c]
  /\ Buried => \/ o.fence = fence /\ o.row = row
               \/ o.row # None /\ q.kind = "restore" /\ q.base = fence.gen
  /\ ~o.ok => o.fence = fence /\ o.row = row
  /\ Removal(q) /\ o.fence # fence => o.row = None

\* A row and its fence as they stand.
LEMMA Standing ==
  ASSUME FenceConstants, RowTypes
  PROVE  /\ row # None => row \in Row /\ row.text \in Full /\ row.gen \in Nat
                          /\ row = [text |-> row.text, gen |-> row.gen]
         /\ fence # None => fence \in FenceRow /\ fence.gen \in Nat
         /\ row # None <=> Active
         /\ fence # None <=> Active \/ Buried
         /\ ~(Active /\ Buried)
         /\ row # None => row.gen = fence.gen
         /\ fence # None => fence.op <= ops
         /\ fence # None => fence.state \in {"active", "deleted"}
<1>1. fence # None => fence \in FenceRow /\ fence.gen \in Nat /\ fence.state \in {"active", "deleted"}
  BY DEF RowTypes, FenceRow
<1>2. row # None => row \in Row /\ row.text \in Full /\ row.gen \in Nat
                    /\ row = [text |-> row.text, gen |-> row.gen]
  BY DEF RowTypes, Row, Full, Value
<1> QED BY <1>1, <1>2 DEF RowTypes, Active, Buried

\* A refusal and a replay change nothing.
LEMMA NothingSound ==
  ASSUME FenceConstants, RowTypes, NEW q, NEW o,
         o.row = row, o.fence = fence, [ok |-> o.ok, gen |-> o.gen, why |-> o.why] \in Answer
  PROVE  Sound(q, o)
<1>1. fence # None => fence.gen >= fence.gen
  BY Standing
<1> QED BY <1>1, Standing DEF Sound, RowTypes, Active, Buried

\* The answers.
LEMMA AnswersTyped ==
  ASSUME FenceConstants, RowTypes
  PROVE  /\ \A why \in {"stale", "deleted", "skipped"}, ok \in BOOLEAN :
              [ok |-> ok, gen |-> 0, why |-> why] \in Answer
         /\ \A gen \in Nat : [ok |-> TRUE, gen |-> gen, why |-> None] \in Answer
BY DEF Answer

LEMMA RefusedSound ==
  ASSUME FenceConstants, RowTypes, NEW q, NEW why \in {"stale", "deleted", "skipped"}
  PROVE  Sound(q, Refused(why))
<1> DEFINE o == Refused(why)
<1>1. [ok |-> FALSE, gen |-> 0, why |-> why] \in Answer
  BY AnswersTyped
<1>2. o.row = row /\ o.fence = fence /\ [ok |-> o.ok, gen |-> o.gen, why |-> o.why] \in Answer
  BY <1>1 DEF Refused
<1> HIDE DEF o
<1>3. Sound(q, o)
  BY <1>2, NothingSound
<1> QED BY <1>3 DEF o

LEMMA ReplaySound ==
  ASSUME FenceConstants, RowTypes, fence # None, NEW q
  PROVE  Sound(q, Done(row, fence))
<1> DEFINE o == Done(row, fence)
<1>1. [ok |-> TRUE, gen |-> fence.gen, why |-> None] \in Answer
  BY AnswersTyped, Standing
<1>2. o.row = row /\ o.fence = fence /\ [ok |-> o.ok, gen |-> o.gen, why |-> o.why] \in Answer
  BY <1>1 DEF Done
<1> HIDE DEF o
<1>3. Sound(q, o)
  BY <1>2, NothingSound
<1> QED BY <1>3 DEF o

\* A text in full, of a row and what a request brings.
LEMMA PatchedFull ==
  ASSUME FenceConstants, FenceAssumption, RowTypes, NEW q, Asked(q, ops)
  PROVE  /\ Patched(q) \in Full
         /\ \A c \in DOMAIN q.text : c \in Columns /\ Patched(q)[c] = q.text[c]
         /\ row # None /\ (\A c \in DOMAIN q.text : row.text[c] = q.text[c]) => Patched(q) = row.text
<1>1. Blank \in Full
  BY DEF Blank, FenceConstants, FenceAssumption
<1>2. q.text \in Texts /\ DOMAIN q.text \subseteq Columns /\ \A c \in DOMAIN q.text : q.text[c] \in Value
  BY DEF Asked, Request, Texts, Full, FenceAssumption
<1>3. row # None => row.text \in Full
  BY Standing
<1>4. \A c \in Columns : (IF c \in DOMAIN q.text THEN q.text[c]
                         ELSE IF row = None THEN Blank[c] ELSE row.text[c]) \in Value
  BY <1>1, <1>2, <1>3 DEF Full
<1>5. Patched(q) \in Full
  BY <1>4 DEF Patched, Full
<1>6. \A c \in DOMAIN q.text : c \in Columns /\ Patched(q)[c] = q.text[c]
  BY <1>2 DEF Patched
<1>7. ASSUME row # None, \A c \in DOMAIN q.text : row.text[c] = q.text[c]
      PROVE  Patched(q) = row.text
  <2>1. \A c \in Columns : Patched(q)[c] = row.text[c]
    BY <1>7 DEF Patched
  <2> QED BY <1>3, <1>5, <1>7, <2>1 DEF Full
<1> QED BY <1>5, <1>6, <1>7

\* A skipped snapshot.
LEMMA SkippedSound ==
  ASSUME FenceConstants, RowTypes, NEW q
  PROVE  Sound(q, [Refused("skipped") EXCEPT !.ok = TRUE])
<1> DEFINE o == [Refused("skipped") EXCEPT !.ok = TRUE]
<1>1. [ok |-> TRUE, gen |-> 0, why |-> "skipped"] \in Answer
  BY AnswersTyped
<1>2. o.row = row /\ o.fence = fence /\ [ok |-> o.ok, gen |-> o.gen, why |-> o.why] \in Answer
  BY <1>1 DEF Refused
<1> HIDE DEF o
<1>3. Sound(q, o)
  BY <1>2, NothingSound
<1> QED BY <1>3 DEF o

\* A fence as the functions write it.
LEMMA FenceTyped ==
  ASSUME FenceConstants, NEW q, Asked(q, ops), NEW state \in {"active", "deleted"}, NEW gen \in Nat,
         NEW payload \in Texts \cup {None}
  PROVE  LET f == Fence(state, gen, q, payload) IN
         /\ f \in FenceRow /\ f # None
         /\ f.state = state /\ f.gen = gen /\ f.op <= ops
<1>1. q.op \in Nat /\ q.base \in Nat /\ q.op <= ops
  BY DEF Asked, Request
<1>2. Fence(state, gen, q, payload) \in FenceRow
  BY <1>1 DEF Fence, FenceRow
<1> QED BY <1>1, <1>2 DEF Fence, FenceConstants

\* An upsert writes over the generation it quotes, or what it wrote before.
LEMMA WrittenSound ==
  ASSUME FenceConstants, FenceAssumption, RowTypes, NEW q, Asked(q, ops), Repeated(q),
         \/ row = None /\ fence = None /\ q.base = 0
         \/ Active /\ (Current(q) \/ Adopted(q))
  PROVE  LET changed == row = None \/ Patched(q) # row.text
             gen == IF row = None THEN 0 ELSE IF changed THEN row.gen + 1 ELSE row.gen
         IN Sound(q, Done([text |-> Patched(q), gen |-> gen], Fence("active", gen, q, q.text)))
<1> DEFINE changed == row = None \/ Patched(q) # row.text
           gen == IF row = None THEN 0 ELSE IF changed THEN row.gen + 1 ELSE row.gen
           r == [text |-> Patched(q), gen |-> gen]
           f == Fence("active", gen, q, q.text)
           o == Done(r, f)
<1>1. gen \in Nat /\ q.base \in Nat /\ q.text \in Texts
  BY Standing DEF Asked, Request
<1>2. f \in FenceRow /\ f # None /\ f.state = "active" /\ f.gen = gen /\ f.op <= ops
  BY <1>1, FenceTyped
<1>3. /\ Patched(q) \in Full
      /\ \A c \in DOMAIN q.text : Patched(q)[c] = q.text[c]
      /\ row # None /\ (\A c \in DOMAIN q.text : row.text[c] = q.text[c]) => Patched(q) = row.text
  BY PatchedFull
<1>4. r \in Row /\ r # None /\ r.text = Patched(q) /\ r.gen = gen
  <2> HIDE DEF gen
  <2>1. r \in [text : Full, gen : Nat] /\ r.text = Patched(q) /\ r.gen = gen
    BY <1>1, <1>3
  <2>2. Row = [text : Full, gen : Nat]
    BY DEF Row, Full, Value
  <2> QED BY <2>1, <2>2 DEF FenceConstants
<1>5. o.row = r /\ o.fence = f /\ o.ok = TRUE /\ o.gen = gen /\ o.why = None
  BY <1>2 DEF Done
<1>6. [ok |-> o.ok, gen |-> o.gen, why |-> o.why] \in Answer
  BY <1>1, <1>5, AnswersTyped
<1>7. row # None => fence # None /\ row.gen = fence.gen /\ row.gen \in Nat /\ Active
                    /\ row = [text |-> row.text, gen |-> row.gen]
  BY Standing
<1>8. row = None => fence = None /\ q.base = 0
  BY DEF Current, Adopted
<1>9. ASSUME row # None
      PROVE  /\ gen >= fence.gen
             /\ gen = fence.gen => Patched(q) = row.text
             /\ ~changed => r = row
             /\ changed => gen > q.base
  <2>1. Current(q) \/ Adopted(q)
    BY <1>9
  <2>2. CASE changed
    <3>1. row.gen = q.base
      BY <1>9, <2>1, <2>2, <1>7 DEF Current, Adopted
    <3> QED BY <1>9, <3>1, <2>2, <1>7
  <2>3. CASE ~changed
    BY <1>9, <2>3, <1>7
  <2> QED BY <2>2, <2>3
<1>10. Overtaken(q, row, fence) => r = row
  <2> SUFFICES ASSUME Overtaken(q, row, fence) PROVE r = row
    OBVIOUS
  <2>1. row # None /\ (Current(q) \/ Adopted(q))
    BY <1>8 DEF Overtaken
  <2>2. ~changed
    BY <2>1, <1>1, <1>3, <1>7 DEF Overtaken, Current, Adopted
  <2> QED BY <2>1, <2>2, <1>9
<1>11. r # row => \/ f.gen > q.base
                  \/ f.gen = q.base /\ \A c \in DOMAIN q.text : r.text[c] = q.text[c]
  BY <1>2, <1>3, <1>4, <1>8, <1>9
<1>12. (f = None) # (fence = None) => r # row
  BY <1>2, <1>4, <1>7, <1>8
<1>13. ~Buried
  BY <1>8, Standing DEF Buried
<1>14. fence # None => row # None
  BY <1>8
<1> HIDE DEF changed, gen, r, f, o
<1>15. Sound(q, o)
  <2>1. ~Removal(q)
    BY DEF Removal, Repeated
  <2> QED
    BY <1>2, <1>4, <1>5, <1>6, <1>9, <1>10, <1>11, <1>12, <1>13, <1>14, <2>1 DEF Sound
<1> QED BY <1>15 DEF changed, gen, r, f, o

LEMMA UpsertSound ==
  ASSUME FenceConstants, FenceAssumption, RowTypes, NEW q, Asked(q, ops), Repeated(q)
  PROVE  Sound(q, Upsert(q))
<1>1. Sound(q, Refused("stale")) /\ Sound(q, Refused("deleted"))
  BY RefusedSound
<1>2. fence # None => Sound(q, Done(row, fence))
  BY ReplaySound
<1> DEFINE changed == row = None \/ Patched(q) # row.text
           gen == IF row = None THEN 0 ELSE IF changed THEN row.gen + 1 ELSE row.gen
           o == Done([text |-> Patched(q), gen |-> gen], Fence("active", gen, q, q.text))
<1>3. row = None /\ fence = None /\ q.base = 0 => Sound(q, o)
  BY WrittenSound
<1>4. Active /\ (Current(q) \/ Adopted(q)) => Sound(q, o)
  BY WrittenSound
<1>5. fence # None <=> Active \/ Buried
  BY Standing
<1>6. ~(Active /\ Buried)
  BY Standing
<1> HIDE DEF o
<1>7. CASE fence = None
  <2>1. Upsert(q) = IF row # None \/ q.base # 0 THEN Refused("stale") ELSE o
    BY <1>5, <1>7 DEF Upsert, o
  <2> QED BY <1>1, <1>3, <1>7, <2>1
<1>8. CASE Buried
  <2>1. Upsert(q) = Refused("deleted")
    BY <1>5, <1>6, <1>8 DEF Upsert
  <2> QED BY <1>1, <2>1
<1>9. CASE Active
  <2>1. Upsert(q) = IF fence.op = q.op
                    THEN IF Replayed(q) THEN Done(row, fence) ELSE Refused("stale")
                    ELSE IF Current(q) \/ Adopted(q) THEN o ELSE Refused("stale")
    BY <1>5, <1>6, <1>9 DEF Upsert, o
  <2> QED BY <1>1, <1>2, <1>4, <1>5, <1>9, <2>1
<1> QED BY <1>5, <1>7, <1>8, <1>9

\* A tombstone ends a row at the generation after it, or fences an id never stored.
LEMMA TombstoneSound ==
  ASSUME FenceConstants, RowTypes, NEW q, Asked(q, ops), Removal(q),
         \/ Active /\ Current(q)
         \/ row = None /\ fence = None
  PROVE  Sound(q, Tombstone(q))
<1> DEFINE f == Fence("deleted", q.base + 1, q, None)
           o == Tombstone(q)
<1>1. q.base \in Nat /\ q.base + 1 \in Nat
  BY DEF Asked, Request
<1>2. f \in FenceRow /\ f # None /\ f.state = "deleted" /\ f.gen = q.base + 1 /\ f.op <= ops
  BY <1>1, FenceTyped
<1>3. o.row = None /\ o.fence = f /\ o.ok = TRUE /\ o.gen = q.base + 1 /\ o.why = None
  BY <1>2 DEF Tombstone, Done
<1>4. [ok |-> o.ok, gen |-> o.gen, why |-> o.why] \in Answer
  BY <1>1, <1>3, AnswersTyped
<1>5. fence # None => f.gen > fence.gen
  <2>1. fence # None => fence.gen = q.base
    BY Standing DEF Current
  <2> QED BY <2>1, <1>1, <1>2
<1>6. ~Buried
  BY Standing DEF Buried
<1>7. ~Repeated(q)
  BY DEF Repeated, Removal
<1>8. fence # None => f.gen >= fence.gen /\ ~(f.gen = fence.gen)
  BY <1>1, <1>2, <1>5, Standing
<1> HIDE DEF f, o
<1>9. Sound(q, o)
  BY <1>2, <1>3, <1>4, <1>6, <1>7, <1>8 DEF Sound
<1> QED BY <1>9 DEF o

LEMMA DeleteSound ==
  ASSUME FenceConstants, RowTypes, NEW q, Asked(q, ops), Removal(q)
  PROVE  Sound(q, Delete(q)) /\ Sound(q, DeleteOrTombstone(q))
<1>1. Sound(q, Refused("stale"))
  BY RefusedSound
<1>2. Buried => Sound(q, Done(row, fence))
  BY ReplaySound DEF Buried
<1>3. Active /\ Current(q) => Sound(q, Tombstone(q))
  BY TombstoneSound
<1>4. row = None /\ fence = None => Sound(q, Tombstone(q))
  BY TombstoneSound
<1>5. /\ fence # None <=> Active \/ Buried
      /\ ~(Active /\ Buried)
      /\ row # None <=> Active
  BY Standing
<1>6. Sound(q, Delete(q))
  <2>1. CASE Active /\ Current(q)
    <3>1. Delete(q) = Tombstone(q)
      BY <1>5, <2>1 DEF Delete
    <3> QED BY <1>3, <2>1, <3>1
  <2>2. CASE Buried /\ fence.op = q.op /\ fence.gen = q.base + 1
    <3>1. Delete(q) = Done(row, fence)
      BY <1>5, <2>2 DEF Delete
    <3> QED BY <1>2, <2>2, <3>1
  <2>3. CASE ~(Active /\ Current(q)) /\ ~(Buried /\ fence.op = q.op /\ fence.gen = q.base + 1)
    <3>1. Delete(q) = Refused("stale")
      BY <2>3 DEF Delete
    <3> QED BY <1>1, <3>1
  <2> QED BY <2>1, <2>2, <2>3
<1>7. Sound(q, DeleteOrTombstone(q))
  <2>1. CASE row # None
    <3>1. DeleteOrTombstone(q) = IF Active /\ Current(q) THEN Tombstone(q) ELSE Refused("stale")
      BY <1>5, <2>1 DEF DeleteOrTombstone
    <3> QED BY <1>1, <1>3, <3>1
  <2>2. CASE row = None /\ fence = None
    <3>1. DeleteOrTombstone(q) = Tombstone(q)
      BY <1>5, <2>2 DEF DeleteOrTombstone
    <3> QED BY <1>4, <2>2, <3>1
  <2>3. CASE row = None /\ Buried /\ fence.gen = q.base + 1
    <3>1. DeleteOrTombstone(q) = Done(row, fence)
      BY <1>5, <2>3 DEF DeleteOrTombstone
    <3> QED BY <1>2, <2>3, <3>1
  <2>4. CASE row = None /\ fence # None /\ ~(Buried /\ fence.gen = q.base + 1)
    <3>1. DeleteOrTombstone(q) = Refused("stale")
      BY <2>4 DEF DeleteOrTombstone
    <3> QED BY <1>1, <3>1
  <2> QED BY <1>5, <2>1, <2>2, <2>3, <2>4
<1> QED BY <1>6, <1>7

\* A restoration lifts the tombstone it names.
LEMMA RestoreSound ==
  ASSUME FenceConstants, RowTypes, NEW q, Asked(q, ops), q.kind = "restore"
  PROVE  Sound(q, Restore(q))
<1> DEFINE r == [text |-> q.text, gen |-> q.base + 1]
           f == Fence("active", q.base + 1, q, None)
           o == Done(r, f)
<1>0. /\ fence # None <=> Active \/ Buried
      /\ ~(Active /\ Buried)
  BY Standing
<1>1. q.base \in Nat /\ q.base + 1 \in Nat /\ q.text \in Full
  BY DEF Asked, Request
<1>2. f \in FenceRow /\ f # None /\ f.state = "active" /\ f.gen = q.base + 1 /\ f.op <= ops
  BY <1>1, FenceTyped
<1>3. r \in Row /\ r # None /\ r.gen = q.base + 1
  <2>1. r \in [text : Full, gen : Nat]
    BY <1>1
  <2>2. Row = [text : Full, gen : Nat]
    BY DEF Row, Full, Value
  <2> QED BY <2>1, <2>2 DEF FenceConstants
<1>4. o.row = r /\ o.fence = f /\ o.ok = TRUE /\ o.gen = q.base + 1 /\ o.why = None
  BY <1>2 DEF Done
<1>5. [ok |-> o.ok, gen |-> o.gen, why |-> o.why] \in Answer
  BY <1>1, <1>4, AnswersTyped
<1>6. ~Repeated(q) /\ ~Removal(q)
  BY DEF Repeated, Removal
<1> HIDE DEF r, f, o
<1>7. Buried /\ row = None /\ fence.gen = q.base => Sound(q, o)
  <2>1. fence.gen = q.base => f.gen >= fence.gen /\ f.gen # fence.gen
    BY <1>1, <1>2
  <2> QED BY <1>2, <1>3, <1>4, <1>5, <1>6, <2>1 DEF Sound
<1>8. Sound(q, Refused("stale"))
  BY RefusedSound
<1>9. fence # None => Sound(q, Done(row, fence))
  BY ReplaySound
<1>10. CASE Active /\ fence.op = q.op /\ fence.gen = q.base + 1
  <2>1. \/ Restore(q) = Done(row, fence)
        \/ Restore(q) = Refused("stale")
    BY <1>0, <1>10 DEF Restore
  <2> QED BY <1>0, <1>8, <1>9, <1>10, <2>1
<1>11. CASE Buried /\ row = None /\ fence.gen = q.base
  <2>1. Restore(q) = o
    BY <1>0, <1>11 DEF Restore, o, r, f
  <2> QED BY <1>7, <1>11, <2>1
<1>12. CASE /\ ~(Active /\ fence.op = q.op /\ fence.gen = q.base + 1)
            /\ ~(Buried /\ row = None /\ fence.gen = q.base)
  <2>1. Restore(q) = Refused("stale")
    BY <1>12 DEF Restore
  <2> QED BY <1>8, <2>1
<1> QED BY <1>10, <1>11, <1>12

\* Every function is sound.
LEMMA OutcomeSound ==
  ASSUME FenceConstants, FenceAssumption, RowTypes, NEW q, Asked(q, ops)
  PROVE  Sound(q, Outcome(q))
<1>1. q.kind \in {"upsert", "delete", "remove", "restore", "snapshot"}
  BY DEF Asked, Request
<1>2. CASE q.kind = "upsert"
  <2>1. Outcome(q) = Upsert(q)
    BY <1>2 DEF Outcome
  <2> QED BY <1>2, <2>1, UpsertSound DEF Repeated
<1>3. CASE q.kind = "delete"
  <2>1. Outcome(q) = Delete(q)
    BY <1>3 DEF Outcome
  <2> QED BY <1>3, <2>1, DeleteSound DEF Removal
<1>4. CASE q.kind = "remove"
  <2>1. Outcome(q) = DeleteOrTombstone(q)
    BY <1>4 DEF Outcome
  <2> QED BY <1>4, <2>1, DeleteSound DEF Removal
<1>5. CASE q.kind = "restore"
  <2>1. Outcome(q) = Restore(q)
    BY <1>5 DEF Outcome
  <2> QED BY <1>5, <2>1, RestoreSound
<1>6. CASE q.kind = "snapshot"
  <2>1. Outcome(q) = Snapshot(q)
    BY <1>6 DEF Outcome
  <2>2. \/ Outcome(q) = [Refused("skipped") EXCEPT !.ok = TRUE]
        \/ Outcome(q) = Upsert(q)
        \/ Outcome(q) = Refused("stale")
    BY <2>1 DEF Snapshot
  <2> QED BY <1>6, <2>2, SkippedSound, UpsertSound, RefusedSound DEF Repeated
<1> QED BY <1>1, <1>2, <1>3, <1>4, <1>5, <1>6

-----------------------------------------------------------------------------
(* Steps that send nothing and execute nothing.                            *)

LEMMA FenceInit ==
  ASSUME FenceConstants, FenceAssumption
  PROVE  Init => FenceInv
<1> SUFFICES ASSUME Init PROVE FenceInv
  OBVIOUS
<1> USE DEF Init
<1>0. Blank \in Full
  BY DEF Blank, FenceConstants, FenceAssumption
<1>1. row \in Row \cup {None} /\ local \in LocalRow \cup {None} /\ fence \in FenceRow \cup {None}
  <2>1. [text |-> Blank, gen |-> 0] \in Row
    BY <1>0 DEF Row, Full, Value
  <2>2. [text |-> Blank, gen |-> 0, seen |-> {Blank}] \in LocalRow
    BY <1>0 DEF LocalRow
  <2>3. [state |-> "active", gen |-> 0, op |-> 0, base |-> None, payload |-> None] \in FenceRow
    BY DEF FenceRow
  <2> QED BY <2>1, <2>2, <2>3
<1>2. RowTypes
  <2>1. [text |-> Blank, gen |-> 0] \in Row
    BY <1>0 DEF Row, Full, Value
  <2>2. [state |-> "active", gen |-> 0, op |-> 0, base |-> None, payload |-> None] \in FenceRow
    BY DEF FenceRow
  <2>3. CASE row = None
    BY <1>1, <2>3, <2>1, FenceAssumption DEF RowTypes, Active, FenceConstants
  <2>4. CASE row # None
    BY <1>1, <2>4, <2>2, FenceAssumption DEF RowTypes, Active, FenceConstants
  <2> QED BY <2>3, <2>4
<1>3. CallTypes
  BY DEF CallTypes, Waits
<1>4. WindowTypes
  BY <1>1 DEF WindowTypes
<1>5. Once
  BY DEF Once, Waits
<1>6. Marks
  BY DEF Marks, FenceConstants, Clients
<1> QED BY <1>2, <1>3, <1>4, <1>5, <1>6 DEF FenceInv, Types

\* Requests stay what they are while operation ids are drawn.
LEMMA AskedStays ==
  ASSUME NEW n \in Nat, NEW m \in Nat, n <= m, NEW q, Asked(q, n)
  PROVE  Asked(q, m)
<1>1. q.op \in Nat /\ q.op <= m
  BY DEF Asked, Request
<1> QED BY <1>1 DEF Asked

\* A step of a window that neither calls nor takes a marker away.
LEMMA WindowKeeps ==
  ASSUME FenceConstants, FenceInv, WindowTypes', marked \subseteq marked',
         UNCHANGED <<row, fence, net, job, ops, effects, removed>>
  PROVE  FenceInv'
<1> USE DEF FenceInv, Types
<1>1. RowTypes'
  BY DEF RowTypes, Active
<1>2. CallTypes'
  BY DEF CallTypes, Waits, Asked
<1>3. Once'
  BY DEF Once, Waits, Overtaken
<1>4. Marks'
  BY DEF Marks, Buried
<1> QED BY <1>1, <1>2, <1>3, <1>4

\* Rows and texts that windows hold.
LEMMA RowsTyped ==
  ASSUME FenceConstants, Types
  PROVE  /\ \A r \in Row : r.text \in Full /\ r.gen \in Nat
                           /\ [text |-> r.text, gen |-> r.gen, seen |-> {r.text}] \in LocalRow
         /\ \A r \in LocalRow : r.text \in Full /\ r.gen \in Nat /\ r.seen \subseteq Full
         /\ \A t \in Drafts : t \in Full
         /\ pull # None => pull.row \in Row \cup {None}
<1>1. Row = [text : Full, gen : Nat]
  BY DEF Row, Full, Value
<1>2. \A r \in Row : r.text \in Full /\ r.gen \in Nat
  BY <1>1
<1>3. \A r \in Row : [text |-> r.text, gen |-> r.gen, seen |-> {r.text}] \in LocalRow
  BY <1>2 DEF LocalRow
<1>4. \A r \in LocalRow : r.text \in Full /\ r.gen \in Nat /\ r.seen \subseteq Full
  BY DEF LocalRow
<1>5. pull # None => pull.row \in Row \cup {None}
  BY DEF Types, WindowTypes, Pulled
<1> QED BY <1>2, <1>3, <1>4, <1>5 DEF FenceConstants

LEMMA WindowSteps ==
  ASSUME FenceConstants, FenceInv,
         \/ \E t \in Drafts : Create(t) \/ Edit(t)
         \/ Look \/ Merge \/ Discover \/ Reconcile
         \/ \E c \in Clients \ {Owner} : Read(c)
  PROVE  FenceInv'
<1> USE DEF FenceInv, Types
<1>1. ASSUME NEW t \in Drafts, Create(t) PROVE FenceInv'
  <2>1. [text |-> t, gen |-> 0, seen |-> {}] \in LocalRow
    BY RowsTyped DEF LocalRow
  <2> QED BY <1>1, <2>1, WindowKeeps DEF Create, WindowTypes
<1>2. ASSUME NEW t \in Drafts, Edit(t) PROVE FenceInv'
  <2>1. local \in LocalRow /\ t \in Full
    BY <1>2, RowsTyped DEF Edit, WindowTypes
  <2>2. [local EXCEPT !.text = t] \in LocalRow
    BY <2>1 DEF LocalRow
  <2> QED BY <1>2, <2>2, WindowKeeps DEF Edit, WindowTypes
<1>3. CASE Look
  <2>1. [row |-> row] \in Pulled
    BY DEF RowTypes, Pulled
  <2> QED BY <1>3, <2>1, WindowKeeps DEF Look, WindowTypes
<1>4. CASE Merge
  <2>1. local' \in LocalRow \cup {None}
    BY <1>4, RowsTyped DEF Merge, WindowTypes
  <2> QED BY <1>4, <2>1, WindowKeeps DEF Merge, WindowTypes
<1>5. CASE Discover
  BY <1>5, WindowKeeps DEF Discover, WindowTypes, Macs
<1>6. CASE Reconcile
  BY <1>6, WindowKeeps DEF Reconcile, WindowTypes
<1>7. ASSUME NEW c \in Clients \ {Owner}, Read(c) PROVE FenceInv'
  <2>1. view' \in [Clients \ {Owner} -> Row \cup {None}]
    BY <1>7 DEF Read, WindowTypes, RowTypes
  <2> QED BY <1>7, <2>1, WindowKeeps DEF Read, WindowTypes
<1> QED BY <1>1, <1>2, <1>3, <1>4, <1>5, <1>6, <1>7

\* A client that turns to another matter, without a call, leaves types and effects alone.
LEMMA TurnKeeps ==
  ASSUME FenceConstants, FenceInv, WindowTypes', NEW c \in Clients, NEW j \in Job \cup {None},
         job' = [job EXCEPT ![c] = j],
         j # None => j.at # "wait" /\ (j.at = "marked" => c \in Macs /\ j.q \in Row \cup LocalRow),
         UNCHANGED <<row, fence, net, ops, effects, removed>>
  PROVE  Types' /\ Once'
<1> USE DEF FenceInv, Types
<1>1. RowTypes'
  BY DEF RowTypes, Active
<1>2. \A d \in Clients : job'[d] = IF d = c THEN j ELSE job[d]
  BY DEF CallTypes
<1>3. \A d \in Clients : Waits(d)' => Waits(d) /\ job'[d] = job[d]
  BY <1>2 DEF Waits
<1>4. CallTypes'
  <2>1. job' \in [Clients -> Job \cup {None}]
    BY DEF CallTypes
  <2>2. \A d \in Clients : job'[d] # None /\ job'[d].at = "marked" =>
          d \in Macs /\ job'[d].q \in Row \cup LocalRow
    BY <1>2 DEF CallTypes
  <2> QED BY <1>3, <2>1, <2>2 DEF CallTypes, Asked
<1>5. Once'
  BY <1>3 DEF Once, Overtaken
<1> QED BY <1>1, <1>4, <1>5

-----------------------------------------------------------------------------
(* Steps between two calls of one client.                                  *)

LEMMA QuitKeeps ==
  ASSUME FenceConstants, FenceInv, NEW c \in Clients, Quit(c)
  PROVE  FenceInv'
<1> USE DEF FenceInv, Types
<1>1. job' = [job EXCEPT ![c] = None]
      /\ UNCHANGED <<row, fence, net, view, pull, local, marked, ops, effects, removed>>
  BY DEF Quit, Close
<1>2. WindowTypes'
  BY <1>1 DEF WindowTypes
<1>3. Types' /\ Once'
  BY <1>1, <1>2, TurnKeeps
<1>4. Marks'
  BY <1>1 DEF Marks, CallTypes, Buried
<1> QED BY <1>3, <1>4

\* Who is marked for the first time asked for no deletion before.
LEMMA MarkKeeps ==
  ASSUME FenceConstants, FenceInv, NEW m \in Macs, Mark(m)
  PROVE  FenceInv'
<1> USE DEF FenceInv, Types
<1> DEFINE r == IF m = Owner THEN local ELSE view[m]
           j == [at |-> "marked", q |-> r, answer |-> None, added |-> m \notin marked]
<1>1. /\ r # None /\ marked' = marked \cup {m} /\ job' = [job EXCEPT ![m] = j]
      /\ UNCHANGED <<row, fence, net, view, pull, local, ops, effects, removed>>
  BY DEF Mark
<1>2. m \in Clients
  BY DEF Clients
<1>3. r \in Row \cup LocalRow
  BY <1>1, <1>2 DEF WindowTypes
<1>4. j.at = "marked" /\ j.q = r /\ j.answer = None /\ j.added = (m \notin marked)
  OBVIOUS
<1>5. j \in Job
  <2>1. (m \notin marked) \in BOOLEAN
    OBVIOUS
  <2> QED BY <1>3, <2>1 DEF Job
<1> HIDE DEF j, r
<1>6. j # None
  BY <1>5 DEF FenceConstants
<1>7. WindowTypes'
  BY <1>1 DEF WindowTypes
<1>8. Types' /\ Once'
  BY <1>1, <1>2, <1>3, <1>4, <1>5, <1>6, <1>7, TurnKeeps
<1>9. Marks'
  <2>1. \A n \in Macs : job'[n] = IF n = m THEN j ELSE job[n]
    BY <1>1 DEF CallTypes, Clients
  <2>2. j.added => removed # m /\ \A q \in net : ~(q.client = m /\ Removal(q))
    BY <1>4 DEF Marks
  <2>3. m \in marked' /\ marked \subseteq marked' /\ UNCHANGED <<row, fence, net, removed>>
    BY <1>1
  <2>4. /\ removed' # None => row' = None /\ Buried'
        /\ \A q \in net' : q.client \in Macs /\ Removal(q) => q.client \in marked'
        /\ \A n \in Macs : removed' = n => n \in marked'
    BY <2>3 DEF Marks, Buried
  <2>5. ASSUME NEW n \in Macs, n # m PROVE job'[n] = job[n]
    BY <2>1, <2>5
  <2> HIDE DEF FenceInv
  <2> QED BY <1>4, <2>1, <2>2, <2>3, <2>4 DEF Marks, FenceInv
<1> QED BY <1>8, <1>9

\* A refused deletion looks at the fence before it takes its marker back.
LEMMA LookBeforeKeeps ==
  ASSUME FenceConstants, FenceInv, NEW m \in Macs, LookBefore(m)
  PROVE  FenceInv'
<1> USE DEF FenceInv, Types
<1>0. m \in Clients /\ job[m] \in Job /\ job[m].at = "refused"
  BY DEF LookBefore, Clients, CallTypes
<1>1. PICK j \in {[job[m] EXCEPT !.at = "active"], None} :
        job' = [job EXCEPT ![m] = j]
  BY <1>0 DEF LookBefore, Close
<1>2. UNCHANGED <<row, fence, net, view, pull, local, marked, ops, effects, removed>>
  BY DEF LookBefore
<1>3. [job[m] EXCEPT !.at = "active"] \in Job /\ [job[m] EXCEPT !.at = "active"].at = "active"
  BY <1>0 DEF Job
<1>4. j \in Job \cup {None} /\ (j # None => j.at = "active")
  BY <1>3
<1>5. WindowTypes'
  BY <1>2 DEF WindowTypes
<1>6. Types' /\ Once'
  BY <1>0, <1>1, <1>2, <1>4, <1>5, TurnKeeps
<1>7. Marks'
  <2>1. removed # m /\ \A q \in net : ~(q.client = m /\ Removal(q))
    BY <1>0 DEF Marks, LookBefore
  <2>2. \A n \in Macs : job'[n] = IF n = m THEN j ELSE job[n]
    BY <1>1 DEF CallTypes, Clients
  <2>3. /\ removed' # None => row' = None /\ Buried'
        /\ \A q \in net' : q.client \in Macs /\ Removal(q) => q.client \in marked'
        /\ \A n \in Macs : removed' = n => n \in marked'
    BY <1>2 DEF Marks, Buried
  <2> QED BY <1>2, <1>4, <2>1, <2>2, <2>3 DEF Marks
<1> QED BY <1>6, <1>7

\* The marker goes when no deletion of the Mac can take effect any more.
LEMMA UnmarkKeeps ==
  ASSUME FenceConstants, FenceInv, NEW m \in Macs, Unmark(m)
  PROVE  FenceInv'
<1> USE DEF FenceInv, Types
<1> DEFINE j == [job[m] EXCEPT !.at = "unmarked"]
<1>0. m \in Clients /\ job[m] \in Job /\ job[m].at = "active"
  BY DEF Unmark, Clients, CallTypes
<1>1. job' = [job EXCEPT ![m] = j] /\ marked' = marked \ {m}
      /\ UNCHANGED <<row, fence, net, view, pull, local, ops, effects, removed>>
  BY <1>0 DEF Unmark
<1>2. j \in Job /\ j.at = "unmarked"
  BY <1>0 DEF Job
<1> HIDE DEF j
<1>3. j # None
  BY <1>2 DEF FenceConstants
<1>4. WindowTypes'
  BY <1>1 DEF WindowTypes
<1>5. Types' /\ Once'
  BY <1>0, <1>1, <1>2, <1>4, TurnKeeps
<1>6. Marks'
  <2>1. removed # m /\ \A q \in net : ~(q.client = m /\ Removal(q))
    BY <1>0, <1>2, <1>3 DEF Marks, Unmark
  <2>2. \A n \in Macs : job'[n] = IF n = m THEN j ELSE job[n]
    BY <1>1 DEF CallTypes, Clients
  <2>3. /\ removed' # None => row' = None /\ Buried'
        /\ \A q \in net' : q.client \in Macs /\ Removal(q) => q.client \in marked'
        /\ \A n \in Macs : removed' = n => n \in marked'
    BY <1>1, <2>1 DEF Marks, Buried
  <2> QED BY <1>1, <1>2, <2>1, <2>2, <2>3 DEF Marks
<1> QED BY <1>5, <1>6

LEMMA LookAgainKeeps ==
  ASSUME FenceConstants, FenceInv, NEW m \in Macs, LookAgain(m)
  PROVE  FenceInv'
<1> USE DEF FenceInv, Types
<1>0. m \in Clients
  BY DEF Clients
<1>1. /\ job' = [job EXCEPT ![m] = None]
      /\ marked \subseteq marked' /\ marked' \subseteq marked \cup {m}
      /\ UNCHANGED <<row, fence, net, view, pull, local, ops, effects, removed>>
  BY DEF LookAgain, Close
<1>2. WindowTypes'
  BY <1>1 DEF WindowTypes
<1>3. Types' /\ Once'
  BY <1>0, <1>1, <1>2, TurnKeeps
<1>4. Marks'
  BY <1>0, <1>1 DEF Marks, CallTypes, Buried
<1> QED BY <1>3, <1>4

\* An answer is taken in.
LEMMA FinishKeeps ==
  ASSUME FenceConstants, FenceAssumption, FenceInv, NEW c \in Clients, Finish(c)
  PROVE  FenceInv'
<1> USE DEF FenceInv, Types
<1> DEFINE q == job[c].q
           a == job[c].answer
           full == DOMAIN q.text = Columns
           refused == ~a.ok /\ q.kind \in {"remove", "delete"} /\ c \in Macs /\ job[c].added
           j == IF refused THEN [job[c] EXCEPT !.at = "refused"] ELSE None
<1>1. /\ job[c] \in Job /\ job[c] # None /\ job[c].at = "wait" /\ a \in Answer /\ a # None
      /\ Asked(q, ops) /\ q.client = c
  <2>1. job[c] \in Job /\ job[c] # None /\ job[c].at = "wait" /\ a # None
    BY DEF Finish, Answered, CallTypes
  <2>2. a \in Answer
    BY <2>1 DEF Job
  <2> QED BY <2>1, <2>2 DEF CallTypes, Waits
<1>2. q.text \in Texts /\ (c = Owner => q.text \in Full) /\ a.gen \in Nat
  BY <1>1 DEF Asked, Request, Answer
<1>3. job' = [job EXCEPT ![c] = j] /\ UNCHANGED <<row, fence, net, pull, ops, effects, removed>>
  <2>1. UNCHANGED <<row, fence, net, pull, ops, effects, removed>>
    BY DEF Finish
  <2>2. IF refused THEN job' = [job EXCEPT ![c].at = "refused"] ELSE job' = [job EXCEPT ![c] = None]
    BY DEF Finish, Close
  <2>3. CASE refused
    BY <2>1, <2>2, <2>3
  <2>4. CASE ~refused
    BY <2>1, <2>2, <2>4
  <2> QED BY <2>3, <2>4
<1>4. marked \subseteq marked' /\ marked' \subseteq Macs
  BY DEF Finish, WindowTypes, Macs
<1>5. local' \in LocalRow \cup {None}
  <2>1. CASE local # None /\ c = Owner /\ a.ok /\ q.kind = "upsert"
    <3>1. local' = [local EXCEPT !.gen = a.gen, !.seen = {q.text}]
      BY <2>1 DEF Finish
    <3>2. local \in LocalRow /\ {q.text} \subseteq Full
      BY <1>2, <2>1 DEF WindowTypes
    <3> QED BY <1>2, <3>1, <3>2 DEF LocalRow
  <2>2. CASE ~(local # None /\ c = Owner /\ a.ok /\ q.kind = "upsert")
    <3>1. local' \in {None, local}
      BY <2>2 DEF Finish
    <3> QED BY <3>1 DEF WindowTypes
  <2> QED BY <2>1, <2>2
<1>6. view' \in [Clients \ {Owner} -> Row \cup {None}]
  <2>1. CASE c # Owner /\ view[c] # None /\ a.ok /\ q.kind = "upsert" /\ ~full
    <3> DEFINE v == [text |-> [view[c].text EXCEPT ![Shared] = q.text[Shared]], gen |-> a.gen]
    <3>1. view' = [view EXCEPT ![c] = v]
      BY <2>1 DEF Finish
    <3>2. view[c] \in Row /\ view[c].text \in Full
      BY <2>1, RowsTyped DEF WindowTypes
    <3>3. q.text \in [{Shared} -> Value]
      BY <1>2, <2>1 DEF Texts, Full
    <3>4. v \in [text : Full, gen : Nat]
      BY <1>2, <3>2, <3>3, FenceAssumption DEF Full
    <3>5. v \in Row
      BY <3>4 DEF Row, Full, Value
    <3> HIDE DEF v
    <3> QED BY <3>1, <3>5 DEF WindowTypes
  <2>2. CASE ~(c # Owner /\ view[c] # None /\ a.ok /\ q.kind = "upsert" /\ ~full)
    <3>1. view' = view
      BY <2>2 DEF Finish
    <3> QED BY <3>1 DEF WindowTypes
  <2> QED BY <2>1, <2>2
<1>7. WindowTypes'
  BY <1>3, <1>4, <1>5, <1>6 DEF WindowTypes
<1>8. j \in Job \cup {None} /\ (j # None => refused /\ j.at = "refused")
  <2>1. [job[c] EXCEPT !.at = "refused"] \in Job /\ [job[c] EXCEPT !.at = "refused"].at = "refused"
    BY <1>1 DEF Job
  <2> QED BY <2>1
<1> HIDE DEF j
<1>9. Types' /\ Once'
  BY <1>3, <1>7, <1>8, TurnKeeps
<1>10. Marks'
  <2>1. ASSUME refused
        PROVE  removed # c /\ \A p \in net : ~(p.client = c /\ Removal(p))
    BY <1>1, <2>1 DEF Marks
  <2>2. \A n \in Macs : job'[n] = IF n = c THEN j ELSE job[n]
    BY <1>3 DEF CallTypes, Clients
  <2>3. /\ removed' # None => row' = None /\ Buried'
        /\ \A p \in net' : p.client \in Macs /\ Removal(p) => p.client \in marked'
        /\ \A n \in Macs : removed' = n => n \in marked'
    BY <1>3, <1>4 DEF Marks, Buried
  <2> HIDE DEF refused
  <2> QED BY <1>3, <1>4, <1>8, <2>1, <2>2, <2>3 DEF Marks
<1> QED BY <1>9, <1>10

-----------------------------------------------------------------------------
(* Steps that send.                                                        *)

\* A call brings an operation nobody saw before.
LEMMA CallKeeps ==
  ASSUME FenceConstants, FenceAssumption, FenceInv,
         NEW c \in Clients, NEW kind \in {"upsert", "delete", "remove", "restore", "snapshot"},
         NEW base \in Nat, NEW text \in Texts, NEW seen \in SUBSET Full,
         NEW absent \in BOOLEAN, NEW added \in BOOLEAN,
         Call(c, kind, base, text, seen, absent, added),
         kind # "upsert" \/ c = Owner => text \in Full,
         c \in Macs /\ kind \in {"remove", "delete"} => job[c] # None /\ job[c].at = "marked",
         added => c \in Macs /\ kind \in {"remove", "delete"} /\ job[c].added,
         WindowTypes', UNCHANGED <<row, fence, marked, effects, removed>>
  PROVE  FenceInv'
<1> USE DEF FenceInv, Types
<1> DEFINE q == [client |-> c, op |-> ops + 1, try |-> 1, kind |-> kind, base |-> base,
                 text |-> text, seen |-> seen, absent |-> absent]
           j == [at |-> "wait", q |-> q, answer |-> None, added |-> added]
<1>1. /\ ops < MaxOps /\ ops' = ops + 1 /\ net' = net \cup {q} /\ job' = [job EXCEPT ![c] = j]
  BY DEF Call
<1>2. ops \in Nat /\ ops' \in 0..MaxOps /\ ops + 1 \in 1..MaxOps /\ ops <= ops' /\ ops' \in Nat
  BY <1>1, FenceAssumption DEF RowTypes
<1>3. q \in Request
  BY <1>2 DEF Request
<1>4. /\ q.client = c /\ q.op = ops + 1 /\ q.kind = kind /\ q.base = base /\ q.text = text
  OBVIOUS
<1>5. Asked(q, ops')
  BY <1>1, <1>2, <1>3, <1>4 DEF Asked
<1>6. j \in Job
  BY <1>3 DEF Job
<1>7. j.at = "wait" /\ j.q = q /\ j.answer = None /\ j.added = added
  OBVIOUS
<1> HIDE DEF j, q
<1>8. \A d \in Clients : job'[d] = IF d = c THEN j ELSE job[d]
  BY <1>1 DEF CallTypes
<1>9. RowTypes'
  <2>1. fence' # None => fence'.op <= ops'
    BY <1>2, Standing DEF RowTypes, FenceRow
  <2> QED BY <1>2, <2>1 DEF RowTypes, Active
<1>10. \A p : Asked(p, ops) => Asked(p, ops')
  BY <1>2, AskedStays
<1>11. CallTypes'
  <2>1. \A p \in net' : Asked(p, ops')
    BY <1>1, <1>5, <1>10 DEF CallTypes
  <2>2. job' \in [Clients -> Job \cup {None}]
    BY <1>1, <1>6 DEF CallTypes
  <2>3. ASSUME NEW d \in Clients, Waits(d)' PROVE Asked(job'[d].q, ops') /\ job'[d].q.client = d
    BY <1>4, <1>5, <1>7, <1>8, <1>10, <2>3 DEF CallTypes, Waits
  <2>4. ASSUME NEW d \in Clients, job'[d] # None, job'[d].at = "marked"
        PROVE  d \in Macs /\ job'[d].q \in Row \cup LocalRow
    BY <1>7, <1>8, <2>4 DEF CallTypes
  <2> QED BY <2>1, <2>2, <2>3, <2>4 DEF CallTypes
<1>12. \A p \in net : p.op \in Nat /\ p.op # ops + 1
  BY <1>2 DEF CallTypes, Asked, Request
<1>13. \A d \in Clients : Waits(d) => job[d].q.op # ops + 1
  BY <1>2 DEF CallTypes, Asked, Request
<1>14. effects'[ops + 1] = 0
  BY <1>2 DEF Once
<1>15. Once'
  <2>1. \A o \in 1..MaxOps : effects'[o] <= 1 /\ (o > ops' => effects'[o] = 0)
    BY <1>1, <1>2 DEF Once
  <2>2. ASSUME NEW p \in net', NEW r \in net', p.op = r.op
        PROVE  SameCall(p, r) /\ (Repeated(r) \/ p = r)
    <3>1. CASE p \in net /\ r \in net
      BY <2>2, <3>1 DEF Once
    <3>2. CASE p = q /\ r = q
      BY <3>2 DEF SameCall
    <3> QED BY <1>1, <1>4, <1>12, <2>2, <3>1, <3>2
  <2>3. ASSUME NEW d \in Clients, NEW r \in net', Waits(d)', job'[d].q.op = r.op
        PROVE  SameCall(job'[d].q, r)
    <3>1. CASE d # c /\ r \in net
      BY <1>8, <2>3, <3>1 DEF Once, Waits
    <3>2. CASE d = c /\ r = q
      BY <1>7, <1>8, <3>2 DEF SameCall
    <3>3. CASE d # c /\ r = q
      BY <1>4, <1>8, <1>13, <2>3, <3>3 DEF Waits
    <3>4. CASE d = c /\ r \in net
      BY <1>4, <1>7, <1>8, <1>12, <2>3, <3>4
    <3> QED BY <1>1, <3>1, <3>2, <3>3, <3>4
  <2>4. ASSUME NEW r \in net', effects'[r.op] > 0 PROVE Repeated(r) /\ Overtaken(r, row', fence')
    <3>1. r # q
      BY <1>4, <1>14, <2>4
    <3> QED BY <1>1, <2>4, <3>1 DEF Once, Overtaken
  <2>5. ASSUME NEW d \in Clients, Waits(d)', Repeated(job'[d].q), effects'[job'[d].q.op] > 0
        PROVE  Overtaken(job'[d].q, row', fence')
    <3>1. d # c
      BY <1>4, <1>7, <1>8, <1>14, <2>5
    <3> QED BY <1>8, <2>5, <3>1 DEF Once, Waits, Overtaken
  <2>6. ASSUME NEW d \in Clients, NEW e \in Clients, Waits(d)', Waits(e)',
               job'[d].q.op = job'[e].q.op
        PROVE  d = e
    <3>1. CASE d # c /\ e # c
      BY <1>8, <2>6, <3>1 DEF Once, Waits
    <3>2. CASE d = c /\ e # c
      BY <1>4, <1>7, <1>8, <1>13, <2>6, <3>2 DEF Waits
    <3>3. CASE d # c /\ e = c
      BY <1>4, <1>7, <1>8, <1>13, <2>6, <3>3 DEF Waits
    <3> QED BY <3>1, <3>2, <3>3
  <2> QED BY <2>1, <2>2, <2>3, <2>4, <2>5, <2>6 DEF Once
<1>16. Marks'
  <2>1. /\ removed' # None => row' = None /\ Buried'
        /\ \A n \in Macs : removed' = n => n \in marked'
    BY DEF Marks, Buried
  <2>2. c \in Macs /\ Removal(q) => c \in marked
    BY <1>4 DEF Marks, Removal
  <2>3. \A p \in net' : p.client \in Macs /\ Removal(p) => p.client \in marked'
    BY <1>1, <1>4, <2>2 DEF Marks
  <2>4. added => c \in Macs /\ Removal(q) /\ removed # c /\ \A p \in net : ~(p.client = c /\ Removal(p))
    BY <1>4 DEF Marks, Removal
  <2>5. ASSUME NEW n \in Macs, n # c PROVE job'[n] = job[n] /\ \A p \in net' : p.client = n => p \in net
    BY <1>1, <1>4, <1>8, <2>5 DEF Clients
  <2>6. job'[c] = j
    BY <1>8
  <2>7. \A n \in Macs : n # c =>
          (job'[n] # None =>
           /\ job'[n].at = "marked" => n \in marked'
           /\ job'[n].at = "wait" /\ Removal(job'[n].q) => n \in marked'
           /\ job'[n].at \in {"refused", "active", "unmarked"} \/ (job'[n].at = "marked" /\ job'[n].added) =>
                removed' # n /\ \A p \in net' : ~(p.client = n /\ Removal(p))
           /\ job'[n].at = "wait" /\ job'[n].added =>
                /\ \A p \in net' : p.client = n /\ Removal(p) => p = job'[n].q
                /\ job'[n].answer = None /\ job'[n].q \in net' => removed' # n
                /\ job'[n].answer # None => job'[n].q \notin net'
                /\ job'[n].answer # None /\ ~job'[n].answer.ok => removed' # n
           /\ job'[n].at = "wait" /\ job'[n].added => Removal(job'[n].q))
    <3> TAKE n \in Macs
    <3>1. HAVE n # c
    <3>2. n \in Clients /\ (Waits(n) => job[n].q.client = n)
      BY DEF Clients, CallTypes
    <3>3. Waits(n) /\ job[n].q \in net' => job[n].q \in net
      BY <2>5, <3>1, <3>2
    <3> QED BY <2>5, <3>1, <3>3 DEF Marks, Waits
  <2>8. /\ \A p \in net' : added /\ p.client = c /\ Removal(p) => p = q
    BY <1>1, <2>4
  <2> QED BY <1>7, <2>1, <2>2, <2>3, <2>4, <2>6, <2>7, <2>8 DEF Marks
<1> QED BY <1>9, <1>11, <1>15, <1>16

LEMMA PushKeeps ==
  ASSUME FenceConstants, FenceAssumption, FenceInv, Push
  PROVE  FenceInv'
<1>1. local \in LocalRow /\ local.text \in Full /\ local.gen \in Nat /\ local.seen \subseteq Full
  BY RowsTyped DEF Push, FenceInv, Types, WindowTypes
<1>2. /\ Call(Owner, "upsert", local.gen, local.text, local.seen, FALSE, FALSE)
      /\ local' = [local EXCEPT !.seen = @ \cup {local.text}]
      /\ UNCHANGED <<row, fence, view, pull, marked, effects, removed>>
  BY DEF Push
<1>3. local' \in LocalRow
  <2>1. local.seen \cup {local.text} \subseteq Full
    BY <1>1
  <2> QED BY <1>1, <1>2, <2>1 DEF LocalRow
<1>4. WindowTypes'
  BY <1>2, <1>3 DEF FenceInv, Types, WindowTypes
<1>5. Owner \in Clients /\ local.text \in Texts
  BY <1>1 DEF Clients, Macs, Texts
<1> QED BY <1>1, <1>2, <1>4, <1>5, CallKeeps

LEMMA PortalSaveKeeps ==
  ASSUME FenceConstants, FenceAssumption, FenceInv, NEW p \in Portals, NEW t \in Drafts,
         PortalSave(p, t)
  PROVE  FenceInv'
<1> DEFINE v == view[p]
<1>1. p \in Clients /\ p \notin Macs /\ p # Owner
  BY DEF Clients, Macs, FenceConstants
<1>2. v \in Row /\ v.text \in Full /\ v.gen \in Nat /\ {v.text} \subseteq Full
  BY <1>1, RowsTyped DEF PortalSave, FenceInv, Types, WindowTypes
<1>3. t \in Full /\ [c \in {Shared} |-> t[Shared]] \in Texts /\ t \in Texts
  BY FenceAssumption DEF FenceConstants, Texts, Full
<1>4. UNCHANGED <<row, fence, view, pull, local, marked, effects, removed>> /\ WindowTypes'
  BY DEF PortalSave, FenceInv, Types, WindowTypes
<1>5. PICK text \in {[c \in {Shared} |-> t[Shared]], t} :
        Call(p, "upsert", v.gen, text, {v.text}, FALSE, FALSE)
  BY DEF PortalSave
<1>6. text \in Texts
  BY <1>3
<1> HIDE DEF v
<1> QED BY <1>1, <1>2, <1>4, <1>5, <1>6, CallKeeps

LEMMA PortalDeleteKeeps ==
  ASSUME FenceConstants, FenceAssumption, FenceInv, NEW p \in Portals, PortalDelete(p)
  PROVE  FenceInv'
<1>1. p \in Clients /\ p \notin Macs /\ p # Owner
  BY DEF Clients, Macs, FenceConstants
<1>2. view[p].gen \in Nat
  BY <1>1, RowsTyped DEF PortalDelete, FenceInv, Types, WindowTypes
<1>3. Blank \in Full /\ Blank \in Texts
  BY DEF Blank, FenceConstants, FenceAssumption, Texts
<1>4. UNCHANGED <<row, fence, view, pull, local, marked, effects, removed>> /\ WindowTypes'
  BY DEF PortalDelete, FenceInv, Types, WindowTypes
<1>5. Call(p, "delete", view[p].gen, Blank, {}, FALSE, FALSE)
  BY DEF PortalDelete
<1> QED BY <1>1, <1>2, <1>3, <1>4, <1>5, CallKeeps

LEMMA AskKeeps ==
  ASSUME FenceConstants, FenceAssumption, FenceInv, NEW m \in Macs, Ask(m)
  PROVE  FenceInv'
<1>1. m \in Clients /\ job[m] # None /\ job[m].at = "marked" /\ job[m] \in Job
  BY DEF Ask, Clients, FenceInv, Types, CallTypes
<1>2. job[m].q.gen \in Nat /\ job[m].added \in BOOLEAN
  <2>1. job[m].q \in Row \cup LocalRow
    BY <1>1 DEF FenceInv, Types, CallTypes
  <2>2. job[m].q.gen \in Nat
    BY <2>1, RowsTyped DEF FenceInv
  <2> QED BY <1>1, <2>2 DEF Job
<1>3. Blank \in Full /\ Blank \in Texts
  BY DEF Blank, FenceConstants, FenceAssumption, Texts
<1>4. UNCHANGED <<row, fence, view, pull, local, marked, effects, removed>> /\ WindowTypes'
  BY DEF Ask, FenceInv, Types, WindowTypes
<1>5. PICK kind \in {"remove", "delete"} :
        Call(m, kind, job[m].q.gen, Blank, {}, FALSE, job[m].added)
  BY DEF Ask
<1> QED BY <1>1, <1>2, <1>3, <1>4, <1>5, CallKeeps

LEMMA BringKeeps ==
  ASSUME FenceConstants, FenceAssumption, FenceInv, NEW t \in Drafts, Bring(t)
  PROVE  FenceInv'
<1> DEFINE r == pull.row
           base == IF r = None THEN 0 ELSE r.gen
           seen == IF r = None THEN {} ELSE {r.text}
<1>1. r \in Row \cup {None}
  BY RowsTyped DEF Bring, FenceInv
<1>2. base \in Nat /\ seen \subseteq Full /\ (r = None) \in BOOLEAN
  BY <1>1, RowsTyped DEF FenceInv
<1>3. t \in Full /\ t \in Texts /\ Owner \in Clients
  BY DEF FenceConstants, Texts, Clients, Macs
<1>4. /\ pull' = None
      /\ Call(Owner, "snapshot", base, t, seen, r = None, FALSE)
      /\ UNCHANGED <<row, fence, view, local, marked, effects, removed>>
  BY DEF Bring
<1>5. WindowTypes'
  BY <1>4 DEF FenceInv, Types, WindowTypes
<1> HIDE DEF base, seen
<1> DEFINE absent == r = None
<1>6. absent \in BOOLEAN /\ Call(Owner, "snapshot", base, t, seen, absent, FALSE)
  BY <1>2, <1>4
<1> HIDE DEF absent
<1> QED BY <1>2, <1>3, <1>4, <1>5, <1>6, CallKeeps

LEMMA LiftKeeps ==
  ASSUME FenceConstants, FenceAssumption, FenceInv, NEW c \in Clients \ {Owner}, Lift(c)
  PROVE  FenceInv'
<1>1. view[c] \in Row /\ view[c].text \in Full /\ view[c].text \in Texts
  BY RowsTyped DEF Lift, FenceInv, Types, WindowTypes, Texts
<1>2. fence.gen \in Nat
  BY Standing DEF Lift, Buried, FenceInv, Types
<1>3. UNCHANGED <<row, fence, view, pull, local, marked, effects, removed>> /\ WindowTypes'
  BY DEF Lift, FenceInv, Types, WindowTypes
<1>4. Call(c, "restore", fence.gen, view[c].text, {}, FALSE, FALSE)
  BY DEF Lift
<1> QED BY <1>1, <1>2, <1>3, <1>4, CallKeeps

\* A repetition is another copy of the same call.
LEMMA RetryKeeps ==
  ASSUME FenceConstants, FenceAssumption, FenceInv, NEW c \in Clients, Retry(c)
  PROVE  FenceInv'
<1> USE DEF FenceInv, Types
<1> DEFINE p == job[c].q
           q == [p EXCEPT !.try = 2]
           j == [job[c] EXCEPT !.q = q]
<1>1. /\ job[c] # None /\ job[c].at = "wait" /\ job[c].answer = None /\ Repeated(p)
      /\ net' = net \cup {q} /\ job' = [job EXCEPT ![c] = j]
      /\ UNCHANGED <<row, fence, view, pull, local, marked, ops, effects, removed>>
  BY DEF Retry, Repeated
<1>2. Waits(c) /\ Asked(p, ops) /\ p.client = c /\ job[c] \in Job
  BY <1>1 DEF Waits, CallTypes
<1>3. p \in Request
  BY <1>2 DEF Asked
<1>4. /\ q \in Request /\ q.op = p.op
      /\ q.client = p.client /\ q.kind = p.kind /\ q.base = p.base /\ q.text = p.text
  BY <1>3 DEF Request
<1>5. Asked(q, ops)
  BY <1>2, <1>4 DEF Asked
<1>6. j \in Job /\ j.at = "wait" /\ j.q = q /\ j.answer = None /\ j.added = job[c].added
  BY <1>1, <1>2, <1>4 DEF Job
<1>7. SameCall(p, q) /\ SameCall(q, p) /\ Repeated(q) /\ ~Removal(q) /\ ~Removal(p) /\ ~job[c].added
  <2>1. ~Removal(p)
    BY <1>1 DEF Repeated, Removal
  <2>2. c \in Macs /\ job[c].added => Removal(p)
    BY <1>1 DEF Marks
  <2>3. c \in Macs
    BY DEF Retry
  <2> QED BY <1>1, <1>4, <2>1, <2>2, <2>3 DEF SameCall, Repeated, Removal
<1>8. Overtaken(p, row, fence) => Overtaken(q, row, fence)
  BY <1>4 DEF Overtaken
<1>9. \A r : r.op = p.op /\ SameCall(p, r) => SameCall(q, r) /\ SameCall(r, q)
  BY <1>4 DEF SameCall
<1> HIDE DEF p, q, j
<1>10. \A d \in Clients : job'[d] = IF d = c THEN j ELSE job[d]
  BY <1>1 DEF CallTypes
<1>11. RowTypes' /\ WindowTypes'
  BY <1>1 DEF RowTypes, WindowTypes, Active
<1>12. CallTypes'
  <2>1. \A r \in net' : Asked(r, ops')
    BY <1>1, <1>5 DEF CallTypes
  <2>2. job' \in [Clients -> Job \cup {None}]
    BY <1>1, <1>6 DEF CallTypes
  <2>3. ASSUME NEW d \in Clients, Waits(d)' PROVE Asked(job'[d].q, ops') /\ job'[d].q.client = d
    BY <1>1, <1>2, <1>4, <1>5, <1>6, <1>10, <2>3 DEF CallTypes, Waits
  <2>4. ASSUME NEW d \in Clients, job'[d] # None, job'[d].at = "marked"
        PROVE  d \in Macs /\ job'[d].q \in Row \cup LocalRow
    BY <1>6, <1>10, <2>4 DEF CallTypes
  <2> QED BY <2>1, <2>2, <2>3, <2>4 DEF CallTypes
<1>13. \A r \in net : r.op = p.op => SameCall(q, r) /\ SameCall(r, q) /\ Repeated(r)
  <2> TAKE r \in net
  <2>1. HAVE r.op = p.op
  <2>2. SameCall(p, r)
    BY <1>2, <2>1 DEF Once, p
  <2> QED BY <1>7, <1>9, <2>1, <2>2 DEF SameCall, Repeated
<1>14. \A d \in Clients : d # c /\ Waits(d) => job[d].q.client = d
  BY DEF CallTypes
<1>15. Once'
  <2>1. \A o \in 1..MaxOps : effects'[o] <= 1 /\ (o > ops' => effects'[o] = 0)
    BY <1>1 DEF Once
  <2>2. ASSUME NEW x \in net', NEW y \in net', x.op = y.op
        PROVE  SameCall(x, y) /\ (Repeated(y) \/ x = y)
    <3>1. CASE x \in net /\ y \in net
      BY <2>2, <3>1 DEF Once
    <3>2. CASE x = q /\ y = q
      BY <1>7, <3>2 DEF SameCall
    <3>3. CASE x = q /\ y \in net
      BY <1>4, <1>13, <2>2, <3>3
    <3>4. CASE y = q /\ x \in net
      BY <1>4, <1>7, <1>13, <2>2, <3>4
    <3> QED BY <1>1, <3>1, <3>2, <3>3, <3>4
  <2>3. ASSUME NEW d \in Clients, NEW r \in net', Waits(d)', job'[d].q.op = r.op
        PROVE  SameCall(job'[d].q, r)
    <3>1. CASE d # c /\ r \in net
      BY <1>10, <2>3, <3>1 DEF Once, Waits
    <3>2. CASE d = c /\ r = q
      BY <1>6, <1>10, <3>2 DEF SameCall
    <3>3. CASE d = c /\ r \in net
      BY <1>4, <1>6, <1>10, <1>13, <2>3, <3>3
    <3>4. CASE d # c /\ r = q
      <4>1. Waits(d) /\ job[d].q.op = job[c].q.op
        BY <1>4, <1>10, <2>3, <3>4 DEF Waits, p
      <4> QED BY <1>2, <3>4, <4>1 DEF Once
    <3> QED BY <1>1, <3>1, <3>2, <3>3, <3>4
  <2>4. ASSUME NEW r \in net', effects'[r.op] > 0
        PROVE  Repeated(r) /\ Overtaken(r, row', fence')
    <3>1. CASE r \in net
      BY <1>1, <2>4, <3>1 DEF Once
    <3>2. CASE r = q
      <4>1. effects[p.op] > 0
        BY <1>1, <1>4, <2>4, <3>2
      <4>2. Overtaken(p, row, fence)
        BY <1>1, <1>2, <4>1 DEF Once, p
      <4> QED BY <1>1, <1>7, <1>8, <3>2, <4>2
    <3> QED BY <1>1, <3>1, <3>2
  <2>5. ASSUME NEW d \in Clients, Waits(d)', Repeated(job'[d].q), effects'[job'[d].q.op] > 0
        PROVE  Overtaken(job'[d].q, row', fence')
    <3>1. CASE d # c
      BY <1>1, <1>10, <2>5, <3>1 DEF Once, Waits
    <3>2. CASE d = c
      <4>1. job'[d].q = q
        BY <1>6, <1>10, <3>2
      <4> QED BY <1>1, <2>4, <2>5, <4>1
    <3> QED BY <3>1, <3>2
  <2>6. \A d \in Clients : Waits(d)' => Waits(d) /\ job'[d].q.op = job[d].q.op
    BY <1>2, <1>4, <1>6, <1>10 DEF Waits, p
  <2>7. \A d, e \in Clients : Waits(d)' /\ Waits(e)' /\ job'[d].q.op = job'[e].q.op => d = e
    BY <2>6 DEF Once
  <2> QED BY <2>1, <2>2, <2>3, <2>4, <2>5, <2>7 DEF Once
<1>16. Marks'
  <2>1. /\ removed' # None => row' = None /\ Buried'
        /\ \A n \in Macs : removed' = n => n \in marked'
    BY <1>1 DEF Marks, Buried
  <2>2. \A r \in net' : Removal(r) => r \in net
    BY <1>1, <1>7
  <2>3. \A r \in net' : r.client \in Macs /\ Removal(r) => r.client \in marked'
    BY <1>1, <2>2 DEF Marks
  <2>4. ASSUME NEW n \in Macs, job'[n] # None
        PROVE  /\ job'[n].at = "marked" => n \in marked'
               /\ job'[n].at = "wait" /\ Removal(job'[n].q) => n \in marked'
               /\ job'[n].at \in {"refused", "active", "unmarked"} \/ (job'[n].at = "marked" /\ job'[n].added) =>
                    removed' # n /\ \A r \in net' : ~(r.client = n /\ Removal(r))
               /\ job'[n].at = "wait" /\ job'[n].added =>
                    /\ \A r \in net' : r.client = n /\ Removal(r) => r = job'[n].q
                    /\ job'[n].answer = None /\ job'[n].q \in net' => removed' # n
                    /\ job'[n].answer # None => job'[n].q \notin net'
                    /\ job'[n].answer # None /\ ~job'[n].answer.ok => removed' # n
               /\ job'[n].at = "wait" /\ job'[n].added => Removal(job'[n].q)
    <3>1. n \in Clients
      BY DEF Clients
    <3>2. CASE n = c
      BY <1>6, <1>7, <1>10, <3>1, <3>2
    <3>3. CASE n # c
      <4>1. job'[n] = job[n] /\ UNCHANGED <<marked, removed>>
        BY <1>1, <1>10, <3>1, <3>3
      <4>2. job[n].at = "wait" /\ job[n].added => Removal(job[n].q)
        BY <2>4, <4>1 DEF Marks
      <4>3. job[n].at = "wait" /\ job[n].added /\ job[n].q \in net' => job[n].q \in net
        BY <2>2, <4>2
      <4>4. job[n] # None
        BY <2>4, <4>1
      <4> QED BY <2>2, <4>1, <4>3, <4>4 DEF Marks
    <3> QED BY <3>2, <3>3
  <2> QED BY <2>1, <2>3, <2>4 DEF Marks
<1> QED BY <1>11, <1>12, <1>15, <1>16

-----------------------------------------------------------------------------
(* The database executes a request.                                        *)

\* What was overtaken stays so, wherever a sound outcome brings the row.
LEMMA OvertakenStays ==
  ASSUME FenceConstants, RowTypes, NEW q, NEW p, NEW o, Sound(q, o),
         p.base \in Nat, Overtaken(p, row, fence), o.fence # None => o.fence.gen \in Nat
  PROVE  Overtaken(p, o.row, o.fence)
<1>1. /\ fence # None /\ fence.gen \in Nat /\ o.fence # None /\ o.fence.gen \in Nat
      /\ o.fence.gen >= fence.gen
      /\ o.fence.gen = fence.gen /\ row # None => o.row # None /\ o.row.text = row.text
  BY Standing DEF Sound, Overtaken
<1>2. CASE fence.gen > p.base
  BY <1>1, <1>2 DEF Overtaken
<1>3. CASE fence.gen = p.base /\ row # None /\ \A c \in DOMAIN p.text : row.text[c] = p.text[c]
  BY <1>1, <1>3 DEF Overtaken
<1> QED BY <1>2, <1>3 DEF Overtaken

\* Types, and what stands for one operation.
LEMMA ExecuteKeeps ==
  ASSUME FenceConstants, FenceAssumption, FenceInv, NEW q \in net, Execute(q)
  PROVE  FenceInv'
<1> USE DEF FenceInv, Types
<1> DEFINE o == Outcome(q)
           c == q.client
           a == [ok |-> o.ok, gen |-> o.gen, why |-> o.why]
           hit == o.row # row \/ (o.fence = None) # (fence = None)
<1>1. /\ net' = net \ {q} /\ row' = o.row /\ fence' = o.fence
      /\ effects' = [effects EXCEPT ![q.op] = IF hit THEN @ + 1 ELSE @]
      /\ removed' = IF row' # None THEN None
                    ELSE IF fence' # fence /\ Removal(q) THEN q.client ELSE removed
      /\ UNCHANGED <<view, pull, local, marked, ops>>
  BY DEF Execute, Removal
<1>2. \/ Awaits(q) /\ job' = [job EXCEPT ![c].answer = a]
      \/ UNCHANGED job
  BY DEF Execute
<1>3. Asked(q, ops)
  BY DEF CallTypes
<1>4. Sound(q, o)
  BY <1>3, OutcomeSound
<1>5. q \in Request /\ c \in Clients /\ q.op \in 1..MaxOps /\ q.op <= ops /\ q.base \in Nat
  BY <1>3 DEF Asked, Request
<1> HIDE DEF o
<1>6. a \in Answer /\ a # None /\ a.ok = o.ok
  BY <1>4 DEF Sound, FenceConstants
<1> HIDE DEF a
<1>7. ASSUME Awaits(q)
      PROVE  /\ job[c] # None /\ job[c].at = "wait" /\ job[c].q = q /\ job[c] \in Job
             /\ [job[c] EXCEPT !.answer = a] \in Job
             /\ [job[c] EXCEPT !.answer = a] # None
  <2>1. job[c] # None /\ job[c].at = "wait" /\ job[c].q = q /\ job[c] \in Job
    BY <1>5, <1>7 DEF Awaits, CallTypes
  <2>2. [job[c] EXCEPT !.answer = a] \in Job
    BY <1>6, <2>1 DEF Job
  <2> QED BY <2>1, <2>2 DEF FenceConstants
\* The jobs are as before, but for an answer.
<1>8. ASSUME NEW d \in Clients
      PROVE  /\ (job'[d] = None) = (job[d] = None)
             /\ job[d] # None =>
                  /\ job'[d].at = job[d].at /\ job'[d].q = job[d].q /\ job'[d].added = job[d].added
                  /\ \/ job'[d].answer = job[d].answer
                     \/ Awaits(q) /\ d = c /\ job'[d].answer = a
             /\ job'[d] \in Job \cup {None}
  <2>1. CASE UNCHANGED job
    BY <2>1 DEF CallTypes
  <2>2. CASE Awaits(q) /\ job' = [job EXCEPT ![c].answer = a]
    <3>1. CASE d # c
      BY <2>2, <3>1 DEF CallTypes
    <3>2. CASE d = c
      <4>1. job'[d] = [job[c] EXCEPT !.answer = a]
        BY <2>2, <3>2 DEF CallTypes
      <4>2. [job[c] EXCEPT !.answer = a] # None /\ job[c] \in Job /\ job[c] # None
            /\ [job[c] EXCEPT !.answer = a] \in Job
        BY <1>7, <2>2
      <4>3. LET n == [job[c] EXCEPT !.answer = a] IN
            n.at = job[c].at /\ n.q = job[c].q /\ n.added = job[c].added /\ n.answer = a
        BY <4>2 DEF Job
      <4> QED BY <2>2, <3>2, <4>1, <4>2, <4>3
    <3> QED BY <3>1, <3>2
  <2> QED BY <1>2, <2>1, <2>2
<1>9. \A d \in Clients : (Waits(d)' <=> Waits(d)) /\ (Waits(d) => job'[d].q = job[d].q)
  BY <1>8 DEF Waits
<1>10. effects' \in [1..MaxOps -> Nat] /\ \A n \in 1..MaxOps :
         effects'[n] = IF n = q.op /\ hit THEN effects[n] + 1 ELSE effects[n]
  BY <1>1, <1>5 DEF RowTypes
<1>11. RowTypes'
  BY <1>1, <1>4, <1>10 DEF RowTypes, Sound, Active
<1>12. CallTypes'
  <2>1. \A r \in net' : Asked(r, ops')
    BY <1>1 DEF CallTypes
  <2>2. job' \in [Clients -> Job \cup {None}]
    <3>1. CASE UNCHANGED job
      BY <3>1 DEF CallTypes
    <3>2. CASE Awaits(q) /\ job' = [job EXCEPT ![c].answer = a]
      BY <1>7, <3>2 DEF CallTypes
    <3> QED BY <1>2, <3>1, <3>2
  <2>3. ASSUME NEW d \in Clients, Waits(d)' PROVE Asked(job'[d].q, ops') /\ job'[d].q.client = d
    BY <1>1, <1>9, <2>3 DEF CallTypes
  <2>4. ASSUME NEW d \in Clients, job'[d] # None, job'[d].at = "marked"
        PROVE  d \in Macs /\ job'[d].q \in Row \cup LocalRow
    BY <1>8, <2>4 DEF CallTypes
  <2> QED BY <2>1, <2>2, <2>3, <2>4 DEF CallTypes
<1>13. WindowTypes'
  BY <1>1 DEF WindowTypes
<1>14. fence' # None => fence'.gen \in Nat
  BY <1>11 DEF RowTypes, FenceRow
\* An operation takes effect when it never did, and is overtaken by it.
<1>15. hit => effects[q.op] = 0
  <2> SUFFICES ASSUME effects[q.op] > 0 PROVE ~hit
    BY <1>5 DEF RowTypes
  <2>1. Repeated(q) /\ Overtaken(q, row, fence)
    BY DEF Once
  <2>2. o.row = row /\ o.fence # None /\ fence # None
    BY <1>4, <2>1 DEF Sound, Overtaken
  <2> QED BY <2>2
<1>16. hit /\ Repeated(q) => Overtaken(q, row', fence')
  <2> SUFFICES ASSUME hit, Repeated(q) PROVE Overtaken(q, row', fence')
    OBVIOUS
  <2>1. /\ o.row # None
        /\ \/ o.fence.gen > q.base
           \/ o.fence.gen = q.base /\ \A x \in DOMAIN q.text : o.row.text[x] = q.text[x]
    BY <1>4 DEF Sound
  <2>2. o.fence # None
    BY <1>4, <2>1 DEF Sound
  <2> QED BY <1>1, <2>1, <2>2 DEF Overtaken
<1> HIDE DEF hit
<1>17. \A r : SameCall(r, q) /\ hit /\ Repeated(q) => Overtaken(r, row', fence')
  BY <1>16 DEF SameCall, Overtaken
<1>18. \A r : r.base \in Nat /\ Overtaken(r, row, fence) => Overtaken(r, row', fence')
  BY <1>1, <1>4, <1>14, OvertakenStays
<1>19. Once'
  <2>1. \A n \in 1..MaxOps : effects'[n] <= 1 /\ (n > ops' => effects'[n] = 0)
    BY <1>1, <1>5, <1>10, <1>15 DEF Once, RowTypes
  <2>2. \A x, y \in net' : x.op = y.op => SameCall(x, y) /\ (Repeated(y) \/ x = y)
    BY <1>1 DEF Once
  <2>3. \A d \in Clients, r \in net' : Waits(d)' /\ job'[d].q.op = r.op => SameCall(job'[d].q, r)
    BY <1>1, <1>9 DEF Once
  <2>4. \A d, e \in Clients : Waits(d)' /\ Waits(e)' /\ job'[d].q.op = job'[e].q.op => d = e
    BY <1>9 DEF Once
  <2>5. ASSUME NEW r \in net', effects'[r.op] > 0
        PROVE  Repeated(r) /\ Overtaken(r, row', fence')
    <3>1. r \in net /\ r # q /\ r.op \in 1..MaxOps /\ r.base \in Nat
      BY <1>1 DEF CallTypes, Asked, Request
    <3>2. CASE r.op = q.op /\ hit
      <4>1. SameCall(r, q) /\ Repeated(q)
        BY <3>1, <3>2 DEF Once
      <4> QED BY <1>17, <3>2, <4>1 DEF SameCall, Repeated
    <3>3. CASE ~(r.op = q.op /\ hit)
      <4>1. effects[r.op] > 0
        BY <1>10, <2>5, <3>1, <3>3
      <4> QED BY <1>18, <3>1, <4>1 DEF Once
    <3> QED BY <3>2, <3>3
  <2>6. ASSUME NEW d \in Clients, Waits(d)', Repeated(job'[d].q), effects'[job'[d].q.op] > 0
        PROVE  Overtaken(job'[d].q, row', fence')
    <3> DEFINE r == job[d].q
    <3>1. Waits(d) /\ job'[d].q = r /\ Repeated(r)
      BY <1>9, <2>6
    <3>2. r.op \in 1..MaxOps /\ r.base \in Nat
      BY <3>1 DEF CallTypes, Asked, Request
    <3>3. CASE r.op = q.op /\ hit
      <4>1. SameCall(r, q) /\ Repeated(q)
        BY <3>1, <3>3 DEF Once, SameCall, Repeated
      <4> QED BY <1>17, <3>1, <3>3, <4>1
    <3>4. CASE ~(r.op = q.op /\ hit)
      <4>1. effects[r.op] > 0
        BY <1>10, <2>6, <3>1, <3>2, <3>4
      <4> QED BY <1>18, <3>1, <3>2, <4>1 DEF Once
    <3> QED BY <3>3, <3>4
  <2> QED BY <2>1, <2>2, <2>3, <2>4, <2>5, <2>6 DEF Once
\* A deletion that takes effect is one of a client that is marked.
<1>20. removed' # None => row' = None /\ Buried'
  <2> SUFFICES ASSUME removed' # None PROVE row' = None /\ Buried'
    OBVIOUS
  <2>1. row' = None
    BY <1>1
  <2>2. CASE fence' # fence /\ Removal(q)
    <3>1. fence' # None
      BY <1>1, <1>4, <2>2 DEF Sound
    <3>2. fence' \in FenceRow /\ fence'.state # "active"
      BY <1>11, <2>1, <3>1 DEF RowTypes, Active
    <3> QED BY <2>1, <3>1, <3>2 DEF Buried, FenceRow
  <2>3. CASE ~(fence' # fence /\ Removal(q))
    <3>1. removed # None /\ Buried
      BY <1>1, <2>1, <2>3 DEF Marks
    <3>2. fence' = fence
      BY <1>1, <1>4, <2>1, <3>1 DEF Sound
    <3> QED BY <2>1, <3>1, <3>2 DEF Buried
  <2> QED BY <2>2, <2>3
<1>21. removed' \in {None, removed} \/ (removed' = c /\ Removal(q) /\ fence' # fence)
  BY <1>1
<1>22. \A n \in Macs : n # None /\ n \in Clients
  BY DEF FenceConstants, Clients
<1>23. \A n \in Macs : removed' = n => n \in marked'
  BY <1>1, <1>21, <1>22 DEF Marks
<1>24. \A n \in Macs : removed # n /\ removed' = n => n = c /\ Removal(q) /\ o.ok
  <2>1. ~o.ok => fence' = fence
    BY <1>1, <1>4 DEF Sound
  <2> QED BY <1>21, <1>22, <2>1
<1>25. ASSUME NEW n \in Macs, job'[n] # None
       PROVE  /\ job'[n].at = "marked" => n \in marked'
              /\ job'[n].at = "wait" /\ Removal(job'[n].q) => n \in marked'
              /\ job'[n].at \in {"refused", "active", "unmarked"} \/ (job'[n].at = "marked" /\ job'[n].added) =>
                   removed' # n /\ \A r \in net' : ~(r.client = n /\ Removal(r))
              /\ job'[n].at = "wait" /\ job'[n].added =>
                   /\ \A r \in net' : r.client = n /\ Removal(r) => r = job'[n].q
                   /\ job'[n].answer = None /\ job'[n].q \in net' => removed' # n
                   /\ job'[n].answer # None => job'[n].q \notin net'
                   /\ job'[n].answer # None /\ ~job'[n].answer.ok => removed' # n
              /\ job'[n].at = "wait" /\ job'[n].added => Removal(job'[n].q)
  <2>1. /\ job[n] # None /\ job'[n].at = job[n].at /\ job'[n].q = job[n].q
        /\ job'[n].added = job[n].added
        /\ job'[n].answer = job[n].answer \/ (Awaits(q) /\ n = c /\ job'[n].answer = a)
    BY <1>8, <1>22, <1>25
  <2>2. net' = net \ {q} /\ marked' = marked
    BY <1>1
  <2>3. /\ job[n].at = "marked" => n \in marked'
        /\ job[n].at = "wait" /\ Removal(job[n].q) => n \in marked'
        /\ job[n].at = "wait" /\ job[n].added => Removal(job[n].q)
    BY <2>1, <2>2 DEF Marks
  <2>4. ASSUME job[n].at \in {"refused", "active", "unmarked"} \/ (job[n].at = "marked" /\ job[n].added)
        PROVE  removed' # n /\ \A r \in net' : ~(r.client = n /\ Removal(r))
    <3>1. removed # n /\ \A r \in net : ~(r.client = n /\ Removal(r))
      BY <2>1, <2>4 DEF Marks
    <3> QED BY <1>24, <2>2, <3>1
  <2>5. ASSUME job[n].at = "wait", job[n].added
        PROVE  /\ \A r \in net' : r.client = n /\ Removal(r) => r = job[n].q
               /\ job'[n].answer = None /\ job[n].q \in net' => removed' # n
               /\ job'[n].answer # None => job[n].q \notin net'
               /\ job'[n].answer # None /\ ~job'[n].answer.ok => removed' # n
    <3>1. /\ \A r \in net : r.client = n /\ Removal(r) => r = job[n].q
          /\ job[n].answer = None /\ job[n].q \in net => removed # n
          /\ job[n].answer # None => job[n].q \notin net
          /\ job[n].answer # None /\ ~job[n].answer.ok => removed # n
          /\ Removal(job[n].q)
      BY <2>1, <2>5 DEF Marks
    <3>2. CASE q = job[n].q
      <4>1. job[n].q \notin net' /\ job[n].answer = None /\ removed # n
        BY <2>2, <3>1, <3>2
      <4>2. job'[n].answer # None => job'[n].answer = a
        BY <2>1, <4>1
      <4>3. job'[n].answer # None /\ ~job'[n].answer.ok => removed' # n
        BY <1>6, <1>24, <4>1, <4>2
      <4> QED BY <2>2, <3>1, <4>1, <4>3
    <3>3. CASE q # job[n].q
      <4>1. ~(c = n /\ Removal(q))
        BY <3>1, <3>3
      <4>2. removed' = n => removed = n
        BY <1>24, <4>1
      <4>3. job'[n].answer = job[n].answer
        BY <1>7, <2>1, <3>3
      <4> QED BY <2>2, <3>1, <4>2, <4>3
    <3> QED BY <3>2, <3>3
  <2> QED BY <2>1, <2>3, <2>4, <2>5
<1>26. \A r \in net' : r.client \in Macs /\ Removal(r) => r.client \in marked'
  BY <1>1 DEF Marks
<1>27. Marks'
  BY <1>20, <1>23, <1>25, <1>26 DEF Marks
<1> QED BY <1>11, <1>12, <1>13, <1>19, <1>27

-----------------------------------------------------------------------------
(* The promises.                                                           *)

\* Every step keeps the invariant.
LEMMA NextKeeps == ASSUME FenceConstants PROVE FenceInv /\ [Next]_vars => FenceInv'
<1> SUFFICES ASSUME FenceInv, [Next]_vars PROVE FenceInv'
  OBVIOUS
<1> USE FenceAssumption
<1>1. CASE Window
  <2>1. ASSUME NEW t \in Drafts, Create(t) \/ Edit(t) PROVE FenceInv'
    BY <2>1, WindowSteps
  <2>2. ASSUME NEW t \in Drafts, Bring(t) PROVE FenceInv'
    BY <2>2, BringKeeps
  <2>3. CASE Push
    BY <2>3, PushKeeps
  <2>4. CASE Look \/ Merge \/ Discover \/ Reconcile
    BY <2>4, WindowSteps
  <2> QED BY <1>1, <2>1, <2>2, <2>3, <2>4 DEF Window
<1>2. ASSUME NEW c \in Clients \ {Owner}, Read(c) PROVE FenceInv'
  BY <1>2, WindowSteps
<1>3. ASSUME NEW c \in Clients \ {Owner}, Lift(c) PROVE FenceInv'
  BY <1>3, LiftKeeps
<1>4. ASSUME NEW c \in Clients, Retry(c) PROVE FenceInv'
  BY <1>4, RetryKeeps
<1>5. ASSUME NEW c \in Clients, Quit(c) PROVE FenceInv'
  BY <1>5, QuitKeeps
<1>6. ASSUME NEW c \in Clients, Finish(c) PROVE FenceInv'
  BY <1>6, FinishKeeps
<1>7. ASSUME NEW p \in Portals, PortalDelete(p) PROVE FenceInv'
  BY <1>7, PortalDeleteKeeps
<1>8. ASSUME NEW p \in Portals, NEW t \in Drafts, PortalSave(p, t) PROVE FenceInv'
  BY <1>8, PortalSaveKeeps
<1>9. ASSUME NEW m \in Macs, Mark(m) PROVE FenceInv'
  BY <1>9, MarkKeeps
<1>10. ASSUME NEW m \in Macs, Ask(m) PROVE FenceInv'
  BY <1>10, AskKeeps
<1>11. ASSUME NEW m \in Macs, LookBefore(m) PROVE FenceInv'
  BY <1>11, LookBeforeKeeps
<1>12. ASSUME NEW m \in Macs, Unmark(m) PROVE FenceInv'
  BY <1>12, UnmarkKeeps
<1>13. ASSUME NEW m \in Macs, LookAgain(m) PROVE FenceInv'
  BY <1>13, LookAgainKeeps
<1>14. ASSUME NEW q \in net, Execute(q) PROVE FenceInv'
  BY <1>14, ExecuteKeeps
<1>15. CASE UNCHANGED vars
  BY <1>15 DEF vars, FenceInv, Types, RowTypes, CallTypes, WindowTypes, Once, Marks,
               Waits, Active, Buried
<1> QED
  BY <1>1, <1>2, <1>3, <1>4, <1>5, <1>6, <1>7, <1>8, <1>9, <1>10, <1>11, <1>12, <1>13,
     <1>14, <1>15 DEF Next

\* Only the execution of a request changes the database.
LEMMA OnlyRequestsChange ==
  ASSUME [Next]_vars, database' # database
  PROVE  \E q \in net : Execute(q)
<1> SUFFICES ASSUME \A q \in net : ~Execute(q) PROVE FALSE
  OBVIOUS
<1>1. ~UNCHANGED <<row, fence>>
  BY DEF database
<1>2. ~Window
  <2>1. \A t \in Drafts : ~Create(t) /\ ~Edit(t) /\ ~Bring(t)
    BY <1>1, Zenon DEF Create, Edit, Bring
  <2>2. ~Push /\ ~Look
    BY <1>1, Zenon DEF Push, Look
  <2>3. ~Merge /\ ~Discover /\ ~Reconcile
    BY <1>1, Zenon DEF Merge, Discover, Reconcile
  <2> QED BY <2>1, <2>2, <2>3 DEF Window
<1>3. \A c \in Clients \ {Owner} : ~Read(c) /\ ~Lift(c)
  BY <1>1, Zenon DEF Read, Lift
<1>4. \A c \in Clients : ~Retry(c) /\ ~Quit(c) /\ ~Finish(c)
  BY <1>1, Zenon DEF Retry, Quit, Finish
<1>5. \A p \in Portals : ~PortalDelete(p) /\ \A t \in Drafts : ~PortalSave(p, t)
  BY <1>1, Zenon DEF PortalDelete, PortalSave
<1>6. \A m \in Macs : ~Mark(m) /\ ~Ask(m) /\ ~LookBefore(m)
  BY <1>1, Zenon DEF Mark, Ask, LookBefore
<1>7. \A m \in Macs : ~Unmark(m) /\ ~LookAgain(m)
  BY <1>1, Zenon DEF Unmark, LookAgain
<1>8. ~UNCHANGED vars
  BY <1>1, Zenon DEF vars
<1> QED BY <1>2, <1>3, <1>4, <1>5, <1>6, <1>7, <1>8 DEF Next

\* Only a restoration that names the tombstone puts a row over it.
LEMMA StepsLeaveItDeleted ==
  ASSUME FenceConstants, FenceInv, [Next]_vars
  PROVE  [removed # None /\ row' # None =>
            \E q \in net \ net' : q.kind = "restore" /\ q.base = fence.gen]_database
<1> USE FenceAssumption
<1> SUFFICES ASSUME database' # database, removed # None, row' # None
             PROVE  \E q \in net \ net' : q.kind = "restore" /\ q.base = fence.gen
  OBVIOUS
<1>2. PICK q \in net : Execute(q)
  BY OnlyRequestsChange
<1>3. row = None /\ Buried
  BY DEF FenceInv, Marks
<1>4. Sound(q, Outcome(q))
  BY OutcomeSound DEF FenceInv, Types, CallTypes
<1>5. row' = Outcome(q).row /\ net' = net \ {q}
  BY <1>2 DEF Execute
<1>6. q.kind = "restore" /\ q.base = fence.gen
  BY <1>3, <1>4, <1>5 DEF Sound
<1> QED BY <1>5, <1>6

\* However often and however late copies of a request arrive, its operation changes the
\* database at most once; and a Mac whose own request deleted the row stays marked.
THEOREM OperationsAreOnce == ASSUME FenceConstants PROVE Spec => []OperationsOnce
<1>1. Init => FenceInv
  BY FenceInit, FenceAssumption
<1>2. FenceInv => OperationsOnce
  BY InvIsEnough
<1>3. FenceInv /\ [Next]_vars => FenceInv'
  BY NextKeeps
<1> QED BY <1>1, <1>2, <1>3, PTL DEF Spec

\* No push, snapshot or late request recreates a row that a client deleted: only the
\* restoration that names the tombstone does.
THEOREM DeletedStaysDeleted == ASSUME FenceConstants PROVE Spec => StaysDeleted
<1>1. Init => FenceInv
  BY FenceInit, FenceAssumption
<1>2. FenceInv /\ [Next]_vars => FenceInv'
  BY NextKeeps
<1>3. FenceInv /\ [Next]_vars =>
        [removed # None /\ row' # None =>
           \E q \in net \ net' : q.kind = "restore" /\ q.base = fence.gen]_database
  BY StepsLeaveItDeleted
<1> QED BY <1>1, <1>2, <1>3, PTL DEF Spec, StaysDeleted

-----------------------------------------------------------------------------
(* What clients know of a row that exists.  Everything here is said of a   *)
(* row r and its fence f, so that it can be said of those that a request   *)
(* leaves as well.                                                         *)

\* The text t over which u was written.
Over(t, u) == [c \in Columns |-> IF c \in DOMAIN u THEN u[c] ELSE t[c]]

Patching(r, f) == r # None /\ f.payload # None

\* Who holds the text t, of the generation g, holds no column of the present one that
\* reads otherwise; and if g was written over, only what was written reads otherwise.
Holding(t, g, r, f) ==
  /\ g <= f.gen
  /\ r # None /\ g = f.gen => \A c \in DOMAIN t : t[c] = r.text[c]
  /\ Patching(r, f) /\ g = f.base =>
       \A c \in DOMAIN t \ DOMAIN f.payload : t[c] = r.text[c]

\* Who quotes the present generation has seen the text under it.
Knowing(g, seen, r, f) == g <= f.gen /\ (r # None /\ g = f.gen => r.text \in seen)

\* A fence that keeps what was written last is at most one generation beyond what that
\* was written over, and its row reads so.
LastWritten(r, f) ==
  Patching(r, f) => /\ f.base \in Nat /\ f.gen <= f.base + 1
                    /\ \A c \in DOMAIN f.payload : r.text[c] = f.payload[c]

\* Requests that may write over a row: all but snapshots of a row that was absent.
Writes(q) == Repeated(q) /\ (q.kind = "snapshot" => ~q.absent)

CopiesHold(r, f) ==
  /\ \A c \in Clients \ {Owner} : view[c] # None => Holding(view[c].text, view[c].gen, r, f)
  /\ pull # None /\ pull.row # None => Holding(pull.row.text, pull.row.gen, r, f)
  /\ local # None => Knowing(local.gen, local.seen, r, f)

CallsKnow(r, f) ==
  /\ \A q \in net : Writes(q) => Knowing(q.base, q.seen, r, f)
  /\ \A c \in Clients : Waits(c) /\ Writes(job[c].q) =>
       Knowing(job[c].q.base, job[c].q.seen, r, f)

\* What a client does with the answer to the patch q: the text it holds, or saw since,
\* with the patch over it has the generation of the answer.
AnswerHolds(c, q, a, r, f) ==
  /\ c # Owner /\ view[c] # None => view[c].gen >= q.base
  /\ a # None /\ a.ok =>
       /\ Holding(q.text, a.gen, r, f)
       /\ c # Owner /\ view[c] # None => Holding(Over(view[c].text, q.text), a.gen, r, f)

AnswersHold(r, f) ==
  \A c \in Clients : Waits(c) /\ job[c].q.kind = "upsert" =>
    AnswerHolds(c, job[c].q, job[c].answer, r, f)

Sight(r, f) ==
  f # None /\ LastWritten(r, f) /\ CopiesHold(r, f) /\ CallsKnow(r, f) /\ AnswersHold(r, f)

\* A request leaves the row as it was; or writes over the generation it quotes; or
\* removes it; or puts one where none was.
Moves(q, r, f) ==
  \/ r = row /\ f.gen = fence.gen /\ f.base = fence.base /\ f.payload = fence.payload
  \/ /\ row # None /\ r # None /\ Writes(q) /\ q.base = fence.gen
     /\ r.text = Patched(q) /\ f.base = fence.gen /\ f.payload = q.text
     /\ \/ f.gen = fence.gen /\ r.text = row.text
        \/ f.gen = fence.gen + 1
  \/ r = None /\ f.gen > fence.gen
  \/ row = None /\ f.gen > fence.gen /\ f.payload = None

\* An upsert that was done is the last one written.
Tells(q, o) ==
  q.kind = "upsert" /\ o.ok =>
    /\ o.row # None /\ o.gen = o.fence.gen
    /\ o.fence.base = q.base /\ o.fence.payload = q.text

\* An upsert, or a snapshot that writes as one.
LEMMA UpsertMoves ==
  ASSUME FenceConstants, FenceAssumption, RowTypes, fence # None, NEW q, Asked(q, ops),
         Repeated(q), Writes(q) \/ (Active /\ fence.op = q.op)
  PROVE  Moves(q, Upsert(q).row, Upsert(q).fence) /\ Tells(q, Upsert(q))
<1> DEFINE changed == row = None \/ Patched(q) # row.text
           gen == IF row = None THEN 0 ELSE IF changed THEN row.gen + 1 ELSE row.gen
           o == Done([text |-> Patched(q), gen |-> gen], Fence("active", gen, q, q.text))
<1>1. /\ fence # None <=> Active \/ Buried
      /\ ~(Active /\ Buried) /\ (row # None <=> Active)
      /\ row # None => row.gen = fence.gen /\ row = [text |-> row.text, gen |-> row.gen]
      /\ fence.gen \in Nat /\ q.base \in Nat
  BY Standing DEF Asked, Request
<1>2. ASSUME NEW why PROVE Moves(q, Refused(why).row, Refused(why).fence) /\ ~Refused(why).ok
  BY DEF Moves, Refused
<1>3. CASE Buried
  <2>1. Upsert(q) = Refused("deleted")
    BY <1>1, <1>3 DEF Upsert
  <2> QED BY <1>2, <2>1 DEF Tells
<1>4. CASE Active /\ fence.op = q.op
  <2>1. Upsert(q) = IF Replayed(q) THEN Done(row, fence) ELSE Refused("stale")
    BY <1>1, <1>4 DEF Upsert
  <2>2. Moves(q, row, fence)
    BY DEF Moves
  <2>3. Replayed(q) => Tells(q, Done(row, fence))
    BY DEF Replayed, Tells, Done
  <2>4. Done(row, fence).row = row /\ Done(row, fence).fence = fence
    BY DEF Done
  <2> QED BY <1>2, <2>1, <2>2, <2>3, <2>4 DEF Tells
<1>5. CASE Active /\ fence.op # q.op
  <2>1. Upsert(q) = IF Current(q) \/ Adopted(q) THEN o ELSE Refused("stale")
    BY <1>1, <1>5 DEF Upsert
  <2>2. /\ o.row = [text |-> Patched(q), gen |-> gen] /\ o.fence = Fence("active", gen, q, q.text)
        /\ o.gen = o.fence.gen
    BY DEF Done
  <2>3. /\ o.row.text = Patched(q) /\ o.row.gen = gen
        /\ o.fence.gen = gen /\ o.fence.base = q.base /\ o.fence.payload = q.text
    BY <2>2 DEF Fence
  <2>4. row # None /\ Writes(q)
    BY <1>1, <1>5
  <2>5. Current(q) \/ Adopted(q) => o.row # None
    <3>1. Patched(q) \in Full /\ gen \in Nat
      BY <1>1, <2>4, PatchedFull
    <3>2. o.row \in [text : Full, gen : Nat]
      BY <2>2, <3>1
    <3> QED BY <3>2 DEF FenceConstants, Row, Full, Value
  <2>6. Tells(q, o) \/ ~(Current(q) \/ Adopted(q))
    BY <2>2, <2>3, <2>5 DEF Tells
  <2>7. Current(q) => Moves(q, o.row, o.fence)
    <3> HAVE Current(q)
    <3>1. q.base = fence.gen /\ row.gen = fence.gen
      BY DEF Current
    <3>2. (gen = fence.gen /\ Patched(q) = row.text) \/ gen = fence.gen + 1
      BY <2>4, <3>1
    <3> QED BY <2>3, <2>4, <2>5, <3>1, <3>2 DEF Moves
  <2>8. Adopted(q) => Moves(q, o.row, o.fence)
    <3> HAVE Adopted(q)
    <3>1. gen = row.gen /\ Patched(q) = row.text
      BY <2>4 DEF Adopted
    <3>2. o.row = row /\ o.fence.gen = fence.gen
      BY <1>1, <2>2, <2>3, <2>4, <3>1
    <3>3. o.fence.base = fence.base /\ o.fence.payload = fence.payload
      BY <2>3 DEF Adopted
    <3> QED BY <3>2, <3>3 DEF Moves
  <2> HIDE DEF o
  <2> QED BY <1>2, <2>1, <2>6, <2>7, <2>8 DEF Tells
<1> QED BY <1>1, <1>3, <1>4, <1>5

\* Every function moves the row in one of the four ways.
LEMMA OutcomeMoves ==
  ASSUME FenceConstants, FenceAssumption, RowTypes, fence # None, NEW q, Asked(q, ops)
  PROVE  Moves(q, Outcome(q).row, Outcome(q).fence) /\ Tells(q, Outcome(q))
<1>0. /\ fence # None <=> Active \/ Buried
      /\ ~(Active /\ Buried) /\ (row # None <=> Active)
      /\ fence.gen \in Nat /\ q.base \in Nat
  BY Standing DEF Asked, Request
<1>1. q.kind \in {"upsert", "delete", "remove", "restore", "snapshot"}
  BY DEF Asked, Request
<1>2. Moves(q, row, fence)
  BY DEF Moves
<1>3. ASSUME NEW why PROVE Refused(why).row = row /\ Refused(why).fence = fence
  BY DEF Refused
<1>4. Done(row, fence).row = row /\ Done(row, fence).fence = fence
  BY DEF Done
<1>5. CASE q.kind = "upsert"
  <2>1. Outcome(q) = Upsert(q)
    BY <1>5 DEF Outcome
  <2>2. Repeated(q) /\ Writes(q)
    BY <1>5 DEF Writes, Repeated
  <2>3. Moves(q, Upsert(q).row, Upsert(q).fence) /\ Tells(q, Upsert(q))
    BY <2>2, UpsertMoves
  <2> QED BY <2>1, <2>3, Zenon
<1>6. CASE q.kind \in {"delete", "remove"}
  <2>1. Tells(q, Outcome(q))
    BY <1>6 DEF Tells
  <2>2. \/ Outcome(q) = Tombstone(q) /\ Current(q)
        \/ Outcome(q) = Done(row, fence)
        \/ Outcome(q) = Refused("stale")
    <3>1. CASE q.kind = "delete"
      <4>1. Outcome(q) = Delete(q)
        BY <3>1 DEF Outcome
      <4> QED BY <1>0, <4>1 DEF Delete
    <3>2. CASE q.kind = "remove"
      <4>1. Outcome(q) = DeleteOrTombstone(q)
        BY <3>2 DEF Outcome
      <4> QED BY <1>0, <4>1 DEF DeleteOrTombstone
    <3> QED BY <1>6, <3>1, <3>2
  <2>3. CASE Outcome(q) = Tombstone(q) /\ Current(q)
    <3>1. Outcome(q).row = None /\ Outcome(q).fence.gen = q.base + 1
      BY <2>3 DEF Tombstone, Done, Fence
    <3>2. q.base = fence.gen
      BY <2>3 DEF Current
    <3> QED BY <1>0, <2>1, <3>1, <3>2 DEF Moves
  <2>4. CASE Outcome(q) = Done(row, fence)
    BY <1>2, <1>4, <2>1, <2>4
  <2>5. CASE Outcome(q) = Refused("stale")
    BY <1>2, <1>3, <2>1, <2>5
  <2> QED BY <2>2, <2>3, <2>4, <2>5
<1>7. CASE q.kind = "restore"
  <2> DEFINE o == Done([text |-> q.text, gen |-> q.base + 1],
                       Fence("active", q.base + 1, q, None))
  <2>1. Tells(q, Outcome(q)) /\ Outcome(q) = Restore(q)
    BY <1>7 DEF Tells, Outcome
  <2>2. \/ Outcome(q) = o /\ row = None /\ fence.gen = q.base
        \/ Outcome(q) = Done(row, fence)
        \/ Outcome(q) = Refused("stale")
    BY <1>0, <2>1 DEF Restore
  <2>3. CASE Outcome(q) = o /\ row = None /\ fence.gen = q.base
    <3>1. o.fence.gen = q.base + 1 /\ o.fence.payload = None
      BY DEF Done, Fence
    <3> QED BY <1>0, <2>1, <2>3, <3>1 DEF Moves
  <2>4. CASE Outcome(q) = Done(row, fence)
    BY <1>2, <1>4, <2>1, <2>4
  <2>5. CASE Outcome(q) = Refused("stale")
    BY <1>2, <1>3, <2>1, <2>5
  <2> HIDE DEF o
  <2> QED BY <2>2, <2>3, <2>4, <2>5
<1>8. CASE q.kind = "snapshot"
  <2>1. Tells(q, Outcome(q)) /\ Outcome(q) = Snapshot(q) /\ Repeated(q)
    BY <1>8 DEF Tells, Outcome, Repeated
  <2>2. \/ Outcome(q) = [Refused("skipped") EXCEPT !.ok = TRUE]
        \/ Outcome(q) = Refused("stale")
        \/ Outcome(q) = Upsert(q) /\ (Writes(q) \/ (Active /\ fence.op = q.op))
    <3>1. CASE q.absent
      BY <1>0, <2>1, <3>1, Zenon DEF Snapshot
    <3>2. CASE ~q.absent
      <4>1. Writes(q)
        BY <2>1, <3>2, Zenon DEF Writes
      <4>2. \/ Snapshot(q) = [Refused("skipped") EXCEPT !.ok = TRUE]
            \/ Snapshot(q) = Refused("stale")
            \/ Snapshot(q) = Upsert(q)
        BY Zenon DEF Snapshot
      <4> QED BY <2>1, <4>1, <4>2
    <3> QED BY <3>1, <3>2
  <2>3. CASE Outcome(q) = [Refused("skipped") EXCEPT !.ok = TRUE]
    <3>1. Outcome(q).row = row /\ Outcome(q).fence = fence
      BY <2>3 DEF Refused
    <3> QED BY <1>2, <2>1, <3>1
  <2>4. CASE Outcome(q) = Refused("stale")
    BY <1>2, <1>3, <2>1, <2>4
  <2>5. CASE Outcome(q) = Upsert(q) /\ (Writes(q) \/ (Active /\ fence.op = q.op))
    BY <2>1, <2>5, UpsertMoves
  <2> QED BY <2>2, <2>3, <2>4, <2>5
<1> QED BY <1>1, <1>5, <1>6, <1>7, <1>8

-----------------------------------------------------------------------------
(* What a request leaves of what clients know.                             *)

\* What a client holds stays true, whatever is executed meanwhile.
LEMMA HoldingMoves ==
  ASSUME FenceConstants, FenceAssumption, RowTypes, fence # None, NEW q, Asked(q, ops),
         NEW r, NEW f, f.gen \in Nat, Moves(q, r, f),
         NEW t, DOMAIN t \subseteq Columns, NEW g \in Nat, Holding(t, g, row, fence)
  PROVE  Holding(t, g, r, f)
<1>1. fence.gen \in Nat
  BY Standing
<1>2. CASE r = row /\ f.gen = fence.gen /\ f.base = fence.base /\ f.payload = fence.payload
  BY <1>2 DEF Holding, Patching
<1>3. CASE /\ row # None /\ r # None /\ Writes(q) /\ q.base = fence.gen
           /\ r.text = Patched(q) /\ f.base = fence.gen /\ f.payload = q.text
           /\ \/ f.gen = fence.gen /\ r.text = row.text
              \/ f.gen = fence.gen + 1
  <2>1. g = fence.gen => \A c \in DOMAIN t : t[c] = row.text[c]
    BY <1>3 DEF Holding
  <2>2. g <= fence.gen /\ g <= f.gen
    BY <1>1, <1>3 DEF Holding
  <2>3. g = f.gen => \A c \in DOMAIN t : t[c] = r.text[c]
    BY <1>1, <1>3, <2>1, <2>2
  <2>4. g = f.base => \A c \in DOMAIN t \ DOMAIN f.payload : t[c] = r.text[c]
    BY <1>3, <2>1 DEF Patched
  <2> QED BY <2>2, <2>3, <2>4 DEF Holding
<1>4. CASE r = None /\ f.gen > fence.gen
  BY <1>1, <1>4 DEF Holding, Patching
<1>5. CASE row = None /\ f.gen > fence.gen /\ f.payload = None
  BY <1>1, <1>5 DEF Holding, Patching
<1> QED BY <1>2, <1>3, <1>4, <1>5 DEF Moves

\* So does what it saw.
LEMMA KnowingMoves ==
  ASSUME FenceConstants, RowTypes, fence # None, NEW q, NEW r, NEW f, f.gen \in Nat,
         Moves(q, r, f), NEW g \in Nat, NEW seen, Knowing(g, seen, row, fence)
  PROVE  Knowing(g, seen, r, f)
<1>1. fence.gen \in Nat
  BY Standing
<1> QED BY <1>1 DEF Moves, Knowing

\* So does what the fence keeps of the last writing.
LEMMA LastWrittenMoves ==
  ASSUME FenceConstants, FenceAssumption, RowTypes, fence # None, NEW q, Asked(q, ops),
         NEW r, NEW f, f.gen \in Nat, Moves(q, r, f), LastWritten(row, fence)
  PROVE  LastWritten(r, f)
<1>1. fence.gen \in Nat
  BY Standing
<1>2. \A c \in DOMAIN q.text : Patched(q)[c] = q.text[c]
  BY PatchedFull
<1> QED BY <1>1, <1>2 DEF Moves, LastWritten, Patching

\* The text a client holds, with its patch over it, is the row after the patch.
LEMMA PatchFits ==
  ASSUME NEW q, NEW r, NEW f, r # None, f.gen \in Nat, LastWritten(r, f), q.text # None,
         f.payload = q.text, f.base = q.base, DOMAIN q.text \subseteq Columns
  PROVE  /\ Holding(q.text, f.gen, r, f)
         /\ \A t, g : DOMAIN t = Columns /\ g \in Nat /\ g >= q.base /\ Holding(t, g, r, f) =>
              Holding(Over(t, q.text), f.gen, r, f)
<1>1. /\ f.base \in Nat /\ f.gen <= f.base + 1
      /\ \A c \in DOMAIN q.text : r.text[c] = q.text[c]
  BY DEF LastWritten, Patching
<1>2. f.gen <= f.gen
  OBVIOUS
<1>3. Holding(q.text, f.gen, r, f)
  BY <1>1, <1>2 DEF Holding
<1>4. ASSUME NEW t, NEW g, DOMAIN t = Columns, g \in Nat, g >= q.base, Holding(t, g, r, f)
      PROVE  Holding(Over(t, q.text), f.gen, r, f)
  <2>1. g = f.gen \/ g = f.base
    BY <1>1, <1>4 DEF Holding
  <2>2. \A c \in Columns \ DOMAIN q.text : t[c] = r.text[c]
    BY <1>4, <2>1 DEF Holding, Patching
  <2>3. /\ DOMAIN Over(t, q.text) = Columns
        /\ \A c \in Columns : Over(t, q.text)[c] = r.text[c]
    BY <1>1, <2>2 DEF Over
  <2> QED BY <1>2, <2>3 DEF Holding
<1> QED BY <1>3, <1>4

\* The present row is held, and so it is with a patch over it that is.
LEMMA RowHeld ==
  ASSUME FenceConstants, RowTypes, row # None
  PROVE  /\ Holding(row.text, row.gen, row, fence)
         /\ \A u, g : DOMAIN u \subseteq Columns /\ Holding(u, g, row, fence) =>
              Holding(Over(row.text, u), g, row, fence)
<1>1. row.gen = fence.gen /\ row.gen \in Nat /\ row.text \in Full
  BY Standing
<1>2. Holding(row.text, row.gen, row, fence)
  BY <1>1 DEF Holding
<1>3. ASSUME NEW u, NEW g, DOMAIN u \subseteq Columns, Holding(u, g, row, fence)
      PROVE  Holding(Over(row.text, u), g, row, fence)
  <2>1. DOMAIN Over(row.text, u) = Columns
    BY DEF Over
  <2>2. g = fence.gen => \A c \in Columns : Over(row.text, u)[c] = row.text[c]
    BY <1>3 DEF Over, Holding
  <2>3. Patching(row, fence) /\ g = fence.base =>
          \A c \in Columns \ DOMAIN fence.payload : Over(row.text, u)[c] = row.text[c]
    BY <1>3 DEF Over, Holding
  <2> QED BY <1>3, <2>1, <2>2, <2>3 DEF Holding
<1> QED BY <1>2, <1>3

\* Who holds a whole text knows the row.
LEMMA HeldIsKnown ==
  ASSUME FenceConstants, RowTypes, NEW t \in Full, NEW g, Holding(t, g, row, fence)
  PROVE  Knowing(g, {t}, row, fence)
<1>1. row # None => row.text \in Full
  BY Standing
<1>2. row # None /\ g = fence.gen => row.text = t
  BY <1>1 DEF Holding, Full
<1> QED BY <1>2 DEF Holding, Knowing

-----------------------------------------------------------------------------
(* Every step keeps it so.                                                 *)

SightInv == Sight(row, fence)

\* What is known of the types, for the proofs below.
LEMMA SightTypes ==
  ASSUME FenceConstants, Types
  PROVE  /\ \A q : Asked(q, ops) => q.base \in Nat /\ q.text \in Texts
                                    /\ (q.kind # "upsert" \/ q.client = Owner => q.text \in Full)
         /\ \A q \in net : Asked(q, ops)
         /\ \A c \in Clients : Waits(c) =>
              /\ Asked(job[c].q, ops) /\ job[c].q.client = c /\ job[c] \in Job
              /\ job[c].answer # None => job[c].answer \in Answer /\ job[c].answer.gen \in Nat
         /\ \A c \in Clients \ {Owner} : view[c] # None =>
              view[c] \in Row /\ view[c].text \in Full /\ view[c].gen \in Nat
         /\ pull # None /\ pull.row # None => pull.row.text \in Full /\ pull.row.gen \in Nat
         /\ local # None => local \in LocalRow /\ local.gen \in Nat
<1>1. \A q : Asked(q, ops) => q.base \in Nat /\ q.text \in Texts
             /\ (q.kind # "upsert" \/ q.client = Owner => q.text \in Full)
  BY DEF Asked, Request
<1>2. ASSUME NEW c \in Clients, Waits(c)
      PROVE  /\ Asked(job[c].q, ops) /\ job[c].q.client = c /\ job[c] \in Job
             /\ job[c].answer # None => job[c].answer \in Answer /\ job[c].answer.gen \in Nat
  <2>1. Asked(job[c].q, ops) /\ job[c].q.client = c /\ job[c] \in Job
    BY <1>2 DEF Types, CallTypes, Waits
  <2>2. job[c].answer \in Answer \cup {None}
    BY <2>1 DEF Job
  <2> QED BY <2>1, <2>2 DEF Answer
<1>3. \A q \in net : Asked(q, ops)
  BY DEF Types, CallTypes
<1> QED BY <1>1, <1>2, <1>3, RowsTyped DEF Types, WindowTypes

\* A text is about columns.
LEMMA TextsInColumns ==
  ASSUME FenceAssumption
  PROVE  \A t \in Texts : DOMAIN t \subseteq Columns
BY DEF Texts, Full, FenceAssumption

\* Steps of a window and readings.
LEMMA WindowSees ==
  ASSUME FenceConstants, FenceAssumption, FenceInv, SightInv,
         \/ \E t \in Drafts : Create(t) \/ Edit(t)
         \/ Look \/ Merge \/ Discover \/ Reconcile
         \/ \E c \in Clients \ {Owner} : Read(c)
  PROVE  SightInv'
<1> USE DEF FenceInv
<1>0. fence # None /\ RowTypes /\ CopiesHold(row, fence) /\ CallsKnow(row, fence)
      /\ AnswersHold(row, fence)
  BY DEF SightInv, Sight, Types
<1>1. ASSUME UNCHANGED <<row, fence, net, job, view>>,
             pull' # None /\ pull'.row # None =>
               Holding(pull'.row.text, pull'.row.gen, row, fence),
             local' # None => Knowing(local'.gen, local'.seen, row, fence)
      PROVE  SightInv'
  BY <1>0, <1>1 DEF SightInv, Sight, LastWritten, Patching, CopiesHold, CallsKnow, AnswersHold,
     AnswerHolds, Holding, Knowing, Waits
<1>2. \A t \in Drafts : ~Create(t)
  BY <1>0 DEF Create
<1>3. ASSUME NEW t \in Drafts, Edit(t) PROVE SightInv'
  <2>1. local # None /\ local' = [local EXCEPT !.text = t] /\ local \in LocalRow
    BY <1>3, SightTypes DEF Edit
  <2>2. local'.gen = local.gen /\ local'.seen = local.seen
    BY <2>1 DEF LocalRow
  <2>3. pull' = pull /\ UNCHANGED <<row, fence, net, job, view>>
    BY <1>3 DEF Edit
  <2> QED BY <1>0, <1>1, <2>1, <2>2, <2>3 DEF CopiesHold
<1>4. CASE Look
  <2>1. pull' = [row |-> row] /\ local' = local /\ UNCHANGED <<row, fence, net, job, view>>
    BY <1>4 DEF Look
  <2>2. row # None => Holding(row.text, row.gen, row, fence)
    BY <1>0, RowHeld
  <2> QED BY <1>0, <1>1, <2>1, <2>2 DEF CopiesHold
<1>5. CASE Merge
  <2>1. pull # None /\ pull' = None /\ UNCHANGED <<row, fence, net, job, view>>
    BY <1>5 DEF Merge
  <2>2. \/ local' = local
        \/ /\ pull.row # None
           /\ local' = [text |-> pull.row.text, gen |-> pull.row.gen, seen |-> {pull.row.text}]
    BY <1>5 DEF Merge
  <2>3. pull.row # None => Knowing(pull.row.gen, {pull.row.text}, row, fence)
    BY <1>0, <2>1, SightTypes, HeldIsKnown DEF CopiesHold
  <2>4. local' # None => Knowing(local'.gen, local'.seen, row, fence)
    <3>1. CASE local' = local
      BY <1>0, <3>1 DEF CopiesHold
    <3>2. CASE local' # local
      <4>1. local'.gen = pull.row.gen /\ local'.seen = {pull.row.text} /\ pull.row # None
        BY <2>2, <3>2
      <4> QED BY <2>3, <4>1
    <3> QED BY <3>1, <3>2
  <2> QED BY <1>1, <2>1, <2>4
<1>6. CASE Discover \/ Reconcile
  <2>1. pull' = pull /\ local' \in {None, local} /\ UNCHANGED <<row, fence, net, job, view>>
    BY <1>6 DEF Discover, Reconcile
  <2> QED BY <1>0, <1>1, <2>1 DEF CopiesHold
<1>7. ASSUME NEW c \in Clients \ {Owner}, Read(c) PROVE SightInv'
  <2>1. view' = [view EXCEPT ![c] = row] /\ UNCHANGED <<row, fence, net, job, pull, local>>
    BY <1>7 DEF Read
  <2>2. \A d \in Clients \ {Owner} : view'[d] = IF d = c THEN row ELSE view[d]
    BY <2>1 DEF Types, WindowTypes
  <2>3. row # None => Holding(row.text, row.gen, row, fence) /\ row.gen = fence.gen
    BY <1>0, RowHeld, Standing
  <2>4. CopiesHold(row, fence)'
    <3>1. ASSUME NEW d \in Clients \ {Owner}, view'[d] # None
          PROVE  Holding(view'[d].text, view'[d].gen, row, fence)
      BY <1>0, <2>2, <2>3, <3>1 DEF CopiesHold
    <3> QED BY <1>0, <2>1, <3>1 DEF CopiesHold, Holding, Patching, Knowing
  <2>5. ASSUME NEW d \in Clients, Waits(d), job[d].q.kind = "upsert"
        PROVE  AnswerHolds(d, job[d].q, job[d].answer, row, fence)'
    <3> DEFINE q == job[d].q
               a == job[d].answer
    <3>1. AnswerHolds(d, q, a, row, fence)
      BY <1>0, <2>5 DEF AnswersHold
    <3>2. Knowing(q.base, q.seen, row, fence)
      BY <1>0, <2>5 DEF CallsKnow, Writes, Repeated
    <3>3. DOMAIN q.text \subseteq Columns
      BY <2>5, SightTypes, TextsInColumns
    <3>4. row # None /\ a # None /\ a.ok => Holding(Over(row.text, q.text), a.gen, row, fence)
      BY <1>0, <3>1, <3>3, RowHeld DEF AnswerHolds
    <3>5. row # None => row.gen >= q.base
      <4>1. q.base \in Nat /\ fence.gen \in Nat
        BY <1>0, <2>5, SightTypes, Standing
      <4> QED BY <2>3, <3>2, <4>1 DEF Knowing
    <3>6. q' = q /\ a' = a
      BY <2>1
    <3>7. /\ d # Owner /\ view'[d] # None => view'[d].gen >= q.base
          /\ a # None /\ a.ok =>
               /\ Holding(q.text, a.gen, row, fence)
               /\ d # Owner /\ view'[d] # None =>
                    Holding(Over(view'[d].text, q.text), a.gen, row, fence)
      BY <2>2, <3>1, <3>4, <3>5 DEF AnswerHolds
    <3> HIDE DEF q, a
    <3>8. AnswerHolds(d, q, a, row, fence)'
      BY <2>1, <3>6, <3>7 DEF AnswerHolds, Over, Holding, Patching
    <3> QED BY <3>8 DEF q, a
  <2>6. AnswersHold(row, fence)'
    BY <2>1, <2>5 DEF AnswersHold, Waits
  <2>7. CallsKnow(row, fence)' /\ LastWritten(row, fence)'
    BY <1>0, <2>1 DEF SightInv, Sight, CallsKnow, Knowing, Waits, LastWritten, Patching
  <2> QED BY <1>0, <2>1, <2>4, <2>6, <2>7 DEF SightInv, Sight
<1> QED BY <1>2, <1>3, <1>4, <1>5, <1>6, <1>7

\* A client that turns to another matter, without a call.
LEMMA TurnSees ==
  ASSUME FenceConstants, FenceInv, SightInv, NEW c \in Clients, NEW j, job' = [job EXCEPT ![c] = j],
         j # None => j.at # "wait", UNCHANGED <<row, fence, net>>, CopiesHold(row, fence)',
         \A d \in Clients \ {Owner, c} : view'[d] = view[d]
  PROVE  SightInv'
<1> USE DEF FenceInv
<1>1. \A d \in Clients : Waits(d)' => Waits(d) /\ d # c /\ job'[d] = job[d]
  BY DEF Waits, Types, CallTypes
<1>2. CallsKnow(row, fence)' /\ LastWritten(row, fence)' /\ fence' # None
  BY <1>1 DEF SightInv, Sight, CallsKnow, Knowing, LastWritten, Patching
<1>3. AnswersHold(row, fence)'
  <2> SUFFICES ASSUME NEW d \in Clients, Waits(d)', job'[d].q.kind = "upsert"
               PROVE  AnswerHolds(d, job[d].q, job[d].answer, row, fence)'
    BY DEF AnswersHold
  <2>1. Waits(d) /\ d # c /\ job'[d] = job[d]
    BY <1>1
  <2>2. AnswerHolds(d, job[d].q, job[d].answer, row, fence)
    BY <2>1 DEF SightInv, Sight, AnswersHold
  <2>3. d # Owner => view'[d] = view[d]
    BY <2>1
  <2> QED BY <2>1, <2>2, <2>3 DEF AnswerHolds, Holding, Patching, Over
<1> QED BY <1>2, <1>3 DEF SightInv, Sight

\* Giving up, and the steps around a marker.
LEMMA QuietTurnsSee ==
  ASSUME FenceConstants, FenceInv, SightInv, NEW c \in Clients,
         Quit(c) \/ (c \in Macs /\ (Mark(c) \/ LookBefore(c) \/ Unmark(c) \/ LookAgain(c)))
  PROVE  SightInv'
<1>1. UNCHANGED <<row, fence, net, view, pull, local>>
  BY DEF Quit, Mark, LookBefore, Unmark, LookAgain
<1>2. CopiesHold(row, fence)'
  BY <1>1 DEF SightInv, Sight, CopiesHold, Holding, Patching, Knowing
<1>3. \E j : job' = [job EXCEPT ![c] = j] /\ (j # None => j.at # "wait")
  <2>0. c \in Macs /\ job[c] # None => job[c] \in Job
    BY DEF FenceInv, Types, CallTypes
  <2>1. CASE Quit(c)
    BY <2>1 DEF Quit, Close
  <2>2. CASE c \in Macs /\ Mark(c)
    <3> DEFINE j == [at |-> "marked", q |-> IF c = Owner THEN local ELSE view[c],
                     answer |-> None, added |-> c \notin marked]
    <3>1. job' = [job EXCEPT ![c] = j] /\ j.at = "marked"
      BY <2>2 DEF Mark
    <3> QED BY <3>1
  <2>3. CASE c \in Macs /\ LookBefore(c)
    <3> DEFINE j == [job[c] EXCEPT !.at = "active"]
    <3>1. job' = [job EXCEPT ![c] = j] \/ job' = [job EXCEPT ![c] = None]
      BY <2>3 DEF LookBefore, Close
    <3>2. j.at = "active"
      BY <2>0, <2>3 DEF LookBefore, Job
    <3> QED BY <3>1, <3>2
  <2>4. CASE c \in Macs /\ Unmark(c)
    <3> DEFINE j == [job[c] EXCEPT !.at = "unmarked"]
    <3>1. job' = [job EXCEPT ![c] = j]
      BY <2>4 DEF Unmark
    <3>2. j.at = "unmarked"
      BY <2>0, <2>4 DEF Unmark, Job
    <3> QED BY <3>1, <3>2
  <2>5. CASE c \in Macs /\ LookAgain(c)
    BY <2>5 DEF LookAgain, Close
  <2> QED BY <2>1, <2>2, <2>3, <2>4, <2>5
<1> QED BY <1>1, <1>2, <1>3, TurnSees

\* A client takes the generation of an answer for what it holds.
LEMMA FinishSees ==
  ASSUME FenceConstants, FenceAssumption, FenceInv, SightInv, NEW c \in Clients, Finish(c)
  PROVE  SightInv'
<1> USE DEF FenceInv
<1> DEFINE q == job[c].q
           a == job[c].answer
           full == DOMAIN q.text = Columns
           refused == ~a.ok /\ q.kind \in {"remove", "delete"} /\ c \in Macs /\ job[c].added
           j == IF refused THEN [job[c] EXCEPT !.at = "refused"] ELSE None
<1>1. /\ Waits(c) /\ job[c] \in Job /\ a # None /\ a.gen \in Nat
      /\ Asked(q, ops) /\ q.client = c /\ q.text \in Texts /\ (c = Owner => q.text \in Full)
  <2>1. Waits(c) /\ a # None
    BY DEF Finish, Answered, Waits
  <2> QED BY <2>1, SightTypes
<1>2. UNCHANGED <<row, fence, net, pull>>
  BY DEF Finish
<1>3. job' = [job EXCEPT ![c] = j] /\ (j # None => j.at # "wait")
  <2>1. CASE refused
    <3>1. job' = [job EXCEPT ![c] = [job[c] EXCEPT !.at = "refused"]]
      BY <2>1 DEF Finish
    <3>2. [job[c] EXCEPT !.at = "refused"].at = "refused"
      BY <1>1 DEF Job
    <3> QED BY <2>1, <3>1, <3>2
  <2>2. CASE ~refused
    BY <2>2 DEF Finish, Close
  <2> QED BY <2>1, <2>2
<1>4. q.kind = "upsert" /\ a.ok =>
        /\ Holding(q.text, a.gen, row, fence)
        /\ c # Owner /\ view[c] # None => Holding(Over(view[c].text, q.text), a.gen, row, fence)
  BY <1>1 DEF SightInv, Sight, AnswersHold, AnswerHolds
<1>5. CopiesHold(row, fence) /\ RowTypes
  BY DEF SightInv, Sight, Types
<1>6. local' # None => Knowing(local'.gen, local'.seen, row, fence)
  <2>1. CASE local # None /\ c = Owner /\ a.ok /\ q.kind = "upsert"
    <3>1. local' = [local EXCEPT !.gen = a.gen, !.seen = {q.text}] /\ local \in LocalRow
      BY <2>1, SightTypes DEF Finish
    <3>2. local'.gen = a.gen /\ local'.seen = {q.text}
      BY <3>1 DEF LocalRow
    <3>3. Knowing(a.gen, {q.text}, row, fence)
      BY <1>1, <1>4, <1>5, <2>1, HeldIsKnown
    <3> QED BY <3>2, <3>3
  <2>2. CASE ~(local # None /\ c = Owner /\ a.ok /\ q.kind = "upsert")
    <3>1. local' \in {None, local}
      BY <2>2 DEF Finish
    <3> QED BY <1>5, <3>1 DEF CopiesHold
  <2> QED BY <2>1, <2>2
<1>7. /\ \A d \in Clients \ {Owner, c} : view'[d] = view[d]
      /\ c # Owner /\ view'[c] # None => Holding(view'[c].text, view'[c].gen, row, fence)
  <2>1. CASE c # Owner /\ view[c] # None /\ a.ok /\ q.kind = "upsert" /\ ~full
    <3> DEFINE v == [text |-> [view[c].text EXCEPT ![Shared] = q.text[Shared]], gen |-> a.gen]
    <3>1. view' = [view EXCEPT ![c] = v]
      BY <2>1 DEF Finish
    <3>2. view[c].text \in Full
      BY <2>1, SightTypes
    <3>3. q.text \in [{Shared} -> Value]
      BY <1>1, <2>1 DEF Texts, Full
    <3>4. v.text = Over(view[c].text, q.text) /\ v.gen = a.gen
      BY <3>2, <3>3, FenceAssumption DEF Full, Over
    <3>5. Holding(v.text, v.gen, row, fence)
      BY <1>4, <2>1, <3>4
    <3> HIDE DEF v
    <3>6. view'[c] = v /\ \A d \in Clients \ {Owner, c} : view'[d] = view[d]
      BY <2>1, <3>1 DEF Types, WindowTypes
    <3> QED BY <3>5, <3>6
  <2>2. CASE ~(c # Owner /\ view[c] # None /\ a.ok /\ q.kind = "upsert" /\ ~full)
    <3>1. view' = view
      BY <2>2 DEF Finish
    <3> QED BY <1>5, <3>1 DEF CopiesHold
  <2> QED BY <2>1, <2>2
<1> HIDE DEF j, a, q
<1>8. CopiesHold(row, fence)'
  <2>1. \A d \in Clients \ {Owner} : view'[d] # None =>
          Holding(view'[d].text, view'[d].gen, row, fence)
    BY <1>5, <1>7 DEF CopiesHold
  <2> QED BY <1>2, <1>5, <1>6, <2>1 DEF CopiesHold, Holding, Patching, Knowing
<1> QED BY <1>2, <1>3, <1>7, <1>8, TurnSees

\* A call quotes what its client knows.
LEMMA CallSees ==
  ASSUME FenceConstants, FenceInv, SightInv, NEW c \in Clients,
         NEW kind, NEW base, NEW text, NEW seen, NEW absent \in BOOLEAN, NEW added,
         Call(c, kind, base, text, seen, absent, added),
         kind = "upsert" \/ (kind = "snapshot" /\ ~absent) => Knowing(base, seen, row, fence),
         kind = "upsert" /\ c # Owner /\ view[c] # None => view[c].gen >= base,
         UNCHANGED <<row, fence, view>>, CopiesHold(row, fence)'
  PROVE  SightInv'
<1> USE DEF FenceInv
<1> DEFINE q == [client |-> c, op |-> ops + 1, try |-> 1, kind |-> kind, base |-> base,
                 text |-> text, seen |-> seen, absent |-> absent]
           j == [at |-> "wait", q |-> q, answer |-> None, added |-> added]
<1>1. net' = net \cup {q} /\ job' = [job EXCEPT ![c] = j]
  BY DEF Call
<1>2. /\ q.kind = kind /\ q.base = base /\ q.seen = seen /\ q.absent = absent
      /\ j.q = q /\ j.answer = None
  OBVIOUS
<1> HIDE DEF q, j
<1>3. \A d \in Clients : job'[d] = IF d = c THEN j ELSE job[d]
  BY <1>1 DEF Types, CallTypes
<1>4. Writes(q) => Knowing(q.base, q.seen, row, fence)
  BY <1>2 DEF Writes, Repeated
<1>5. CallsKnow(row, fence)'
  <2>1. \A p \in net' : Writes(p) => Knowing(p.base, p.seen, row, fence)
    BY <1>1, <1>4 DEF SightInv, Sight, CallsKnow
  <2>2. ASSUME NEW d \in Clients, Waits(d)', Writes(job'[d].q)
        PROVE  Knowing(job'[d].q.base, job'[d].q.seen, row, fence)
    <3>1. CASE d = c
      BY <1>2, <1>3, <1>4, <2>2, <3>1
    <3>2. CASE d # c
      BY <1>3, <2>2, <3>2 DEF SightInv, Sight, CallsKnow, Waits
    <3> QED BY <3>1, <3>2
  <2> QED BY <2>1, <2>2 DEF CallsKnow, Knowing, Writes, Repeated
<1>6. AnswersHold(row, fence)'
  <2> SUFFICES ASSUME NEW d \in Clients, Waits(d)', job'[d].q.kind = "upsert"
               PROVE  AnswerHolds(d, job[d].q, job[d].answer, row, fence)'
    BY DEF AnswersHold
  <2>1. CASE d = c
    BY <1>2, <1>3, <2>1 DEF AnswerHolds
  <2>2. CASE d # c
    <3>1. job'[d] = job[d] /\ Waits(d)
      BY <1>3, <2>2 DEF Waits
    <3>2. AnswerHolds(d, job[d].q, job[d].answer, row, fence)
      BY <3>1 DEF SightInv, Sight, AnswersHold
    <3> QED BY <3>1, <3>2 DEF AnswerHolds, Holding, Patching, Over
  <2> QED BY <2>1, <2>2
<1>7. LastWritten(row, fence)' /\ fence' # None
  BY DEF SightInv, Sight, LastWritten, Patching
<1> QED BY <1>5, <1>6, <1>7 DEF SightInv, Sight

\* What the clients' calls quote.
LEMMA CallsSee ==
  ASSUME FenceConstants, FenceAssumption, FenceInv, SightInv,
         \/ Push
         \/ \E t \in Drafts : Bring(t)
         \/ \E p \in Portals : (PortalDelete(p) \/ \E t \in Drafts : PortalSave(p, t))
         \/ \E m \in Macs : Ask(m)
         \/ \E c \in Clients \ {Owner} : Lift(c)
  PROVE  SightInv'
<1> USE DEF FenceInv
<1>0. CopiesHold(row, fence) /\ RowTypes
  BY DEF SightInv, Sight, Types
<1>1. ASSUME UNCHANGED <<row, fence, view>>, pull' \in {pull, None},
             local' # None => Knowing(local'.gen, local'.seen, row, fence)
      PROVE  CopiesHold(row, fence)'
  BY <1>0, <1>1 DEF CopiesHold, Holding, Patching, Knowing
<1>2. CASE Push
  <2>1. /\ Call(Owner, "upsert", local.gen, local.text, local.seen, FALSE, FALSE)
        /\ local # None /\ local' = [local EXCEPT !.seen = @ \cup {local.text}]
        /\ UNCHANGED <<row, fence, view, pull>>
    BY <1>2 DEF Push
  <2>2. Knowing(local.gen, local.seen, row, fence)
    BY <1>0, <2>1 DEF CopiesHold
  <2>3. local'.gen = local.gen /\ local.seen \subseteq local'.seen
    <3>1. local \in LocalRow
      BY <2>1, SightTypes
    <3> QED BY <2>1, <3>1 DEF LocalRow
  <2>4. Knowing(local'.gen, local'.seen, row, fence)
    BY <2>2, <2>3 DEF Knowing
  <2>5. Owner \in Clients /\ CopiesHold(row, fence)'
    BY <1>1, <2>1, <2>4 DEF Clients, Macs
  <2> QED BY <2>1, <2>2, <2>5, CallSees
<1>3. ASSUME NEW t \in Drafts, Bring(t) PROVE SightInv'
  <2> DEFINE r == pull.row
             base == IF r = None THEN 0 ELSE r.gen
             seen == IF r = None THEN {} ELSE {r.text}
             absent == r = None
  <2>1. /\ Call(Owner, "snapshot", base, t, seen, absent, FALSE)
        /\ pull # None /\ pull' = None /\ UNCHANGED <<row, fence, view, local>>
    BY <1>3 DEF Bring
  <2>2. ~absent => Knowing(base, seen, row, fence)
    <3> HAVE ~absent
    <3>1. Holding(r.text, r.gen, row, fence) /\ r.text \in Full
      BY <1>0, <2>1, SightTypes DEF CopiesHold
    <3> QED BY <1>0, <3>1, HeldIsKnown
  <2>3. Owner \in Clients /\ CopiesHold(row, fence)'
    BY <1>0, <1>1, <2>1 DEF CopiesHold, Clients, Macs
  <2>4. absent \in BOOLEAN
    OBVIOUS
  <2> HIDE DEF base, seen, absent
  <2> QED BY <2>1, <2>2, <2>3, <2>4, CallSees
<1>4. ASSUME NEW p \in Portals, PortalDelete(p) PROVE SightInv'
  <2>1. /\ Call(p, "delete", view[p].gen, Blank, {}, FALSE, FALSE)
        /\ UNCHANGED <<row, fence, view, pull, local>>
    BY <1>4 DEF PortalDelete
  <2>2. p \in Clients /\ CopiesHold(row, fence)'
    BY <1>0, <1>1, <2>1 DEF CopiesHold, Clients
  <2> QED BY <2>1, <2>2, CallSees
<1>5. ASSUME NEW p \in Portals, NEW t \in Drafts, PortalSave(p, t) PROVE SightInv'
  <2>1. view[p] # None /\ UNCHANGED <<row, fence, view, pull, local>>
    BY <1>5 DEF PortalSave
  <2>2. PICK text \in {[c \in {Shared} |-> t[Shared]], t} :
          Call(p, "upsert", view[p].gen, text, {view[p].text}, FALSE, FALSE)
    BY <1>5 DEF PortalSave
  <2>3. p \in Clients \ {Owner}
    BY DEF Clients, Macs, FenceConstants
  <2>4. Holding(view[p].text, view[p].gen, row, fence) /\ view[p].text \in Full
        /\ view[p].gen \in Nat
    BY <1>0, <2>1, <2>3, SightTypes DEF CopiesHold
  <2>5. Knowing(view[p].gen, {view[p].text}, row, fence)
    BY <1>0, <2>4, HeldIsKnown
  <2>6. CopiesHold(row, fence)'
    BY <1>0, <1>1, <2>1 DEF CopiesHold
  <2>7. view[p].gen >= view[p].gen
    BY <2>4
  <2> QED BY <2>1, <2>2, <2>3, <2>5, <2>6, <2>7, CallSees
<1>6. ASSUME NEW m \in Macs, Ask(m) PROVE SightInv'
  <2>1. PICK kind \in {"remove", "delete"} :
          Call(m, kind, job[m].q.gen, Blank, {}, FALSE, job[m].added)
    BY <1>6 DEF Ask
  <2>2. UNCHANGED <<row, fence, view, pull, local>>
    BY <1>6 DEF Ask
  <2>3. m \in Clients /\ CopiesHold(row, fence)'
    BY <1>0, <1>1, <2>2 DEF CopiesHold, Clients
  <2>4. kind # "upsert" /\ kind # "snapshot"
    OBVIOUS
  <2> QED BY <2>1, <2>2, <2>3, <2>4, CallSees
<1>7. ASSUME NEW c \in Clients \ {Owner}, Lift(c) PROVE SightInv'
  <2>1. /\ Call(c, "restore", fence.gen, view[c].text, {}, FALSE, FALSE)
        /\ UNCHANGED <<row, fence, view, pull, local>>
    BY <1>7 DEF Lift
  <2>2. CopiesHold(row, fence)'
    BY <1>0, <1>1, <2>1 DEF CopiesHold
  <2> QED BY <2>1, <2>2, CallSees
<1> QED BY <1>2, <1>3, <1>4, <1>5, <1>6, <1>7

\* A repetition quotes what the call quoted.
LEMMA RetrySees ==
  ASSUME FenceConstants, FenceInv, SightInv, NEW c \in Clients, Retry(c)
  PROVE  SightInv'
<1> USE DEF FenceInv
<1> DEFINE p == job[c].q
           q == [p EXCEPT !.try = 2]
           j == [job[c] EXCEPT !.q = q]
<1>1. /\ job[c] # None /\ job[c].at = "wait" /\ job[c].answer = None
      /\ net' = net \cup {q} /\ job' = [job EXCEPT ![c] = j]
      /\ UNCHANGED <<row, fence, view, pull, local>>
  BY DEF Retry
<1>2. Waits(c) /\ p \in Request /\ job[c] \in Job
  BY <1>1, SightTypes DEF Waits, Asked
<1>3. /\ q.kind = p.kind /\ q.base = p.base /\ q.seen = p.seen /\ q.absent = p.absent
      /\ j.q = q /\ j.answer = None
  BY <1>1, <1>2 DEF Request, Job
<1>4. \A d \in Clients : job'[d] = IF d = c THEN j ELSE job[d]
  BY <1>1 DEF Types, CallTypes
<1>5. /\ Writes(q) => Knowing(q.base, q.seen, row, fence)
      /\ q.kind = "upsert" /\ c # Owner /\ view[c] # None => view[c].gen >= q.base
  <2>1. Writes(q) => Writes(p)
    BY <1>3 DEF Writes, Repeated
  <2> QED BY <1>2, <1>3, <2>1 DEF SightInv, Sight, CallsKnow, AnswersHold, AnswerHolds
<1> HIDE DEF p, q, j
<1>6. CallsKnow(row, fence)'
  <2>1. \A r \in net' : Writes(r) => Knowing(r.base, r.seen, row, fence)
    BY <1>1, <1>5 DEF SightInv, Sight, CallsKnow
  <2>2. ASSUME NEW d \in Clients, Waits(d)', Writes(job'[d].q)
        PROVE  Knowing(job'[d].q.base, job'[d].q.seen, row, fence)
    <3>1. CASE d = c
      BY <1>3, <1>4, <1>5, <2>2, <3>1
    <3>2. CASE d # c
      BY <1>4, <2>2, <3>2 DEF SightInv, Sight, CallsKnow, Waits
    <3> QED BY <3>1, <3>2
  <2> QED BY <1>1, <2>1, <2>2 DEF CallsKnow, Knowing, Writes, Repeated
<1>7. AnswersHold(row, fence)'
  <2> SUFFICES ASSUME NEW d \in Clients, Waits(d)', job'[d].q.kind = "upsert"
               PROVE  AnswerHolds(d, job[d].q, job[d].answer, row, fence)'
    BY DEF AnswersHold
  <2>1. CASE d = c
    BY <1>1, <1>3, <1>4, <1>5, <2>1 DEF AnswerHolds
  <2>2. CASE d # c
    <3>1. job'[d] = job[d] /\ Waits(d)
      BY <1>4, <2>2 DEF Waits
    <3>2. AnswerHolds(d, job[d].q, job[d].answer, row, fence)
      BY <3>1 DEF SightInv, Sight, AnswersHold
    <3> QED BY <1>1, <3>1, <3>2 DEF AnswerHolds, Holding, Patching, Over
  <2> QED BY <2>1, <2>2
<1>8. LastWritten(row, fence)' /\ CopiesHold(row, fence)' /\ fence' # None
  BY <1>1 DEF SightInv, Sight, LastWritten, CopiesHold, Holding, Patching, Knowing
<1> QED BY <1>6, <1>7, <1>8 DEF SightInv, Sight

\* What is executed leaves everybody's knowledge true, and answers truly.
LEMMA ExecuteSees ==
  ASSUME FenceConstants, FenceAssumption, None \notin Texts, FenceInv, SightInv,
         NEW q \in net, Execute(q)
  PROVE  SightInv'
<1> USE DEF FenceInv
<1> DEFINE o == Outcome(q)
           a == [ok |-> o.ok, gen |-> o.gen, why |-> o.why]
           c == q.client
<1>0. RowTypes /\ fence # None /\ Asked(q, ops) /\ fence.gen \in Nat
  BY SightTypes, Standing DEF SightInv, Sight, Types
<1>1. /\ row' = o.row /\ fence' = o.fence /\ net' = net \ {q}
      /\ (Awaits(q) /\ job' = [job EXCEPT ![c].answer = a]) \/ job' = job
      /\ UNCHANGED <<view, pull, local, ops>>
  BY DEF Execute
<1>2. Moves(q, row', fence') /\ Tells(q, o)
  BY <1>0, <1>1, OutcomeMoves
<1>3. fence' # None /\ fence'.gen \in Nat
  <2>1. Sound(q, o)
    BY <1>0, OutcomeSound
  <2> QED BY <1>0, <1>1, <2>1 DEF Sound, FenceRow
<1>4. LastWritten(row', fence')
  BY <1>0, <1>2, <1>3, LastWrittenMoves DEF SightInv, Sight
<1>5. \A t, g : DOMAIN t \subseteq Columns /\ g \in Nat /\ Holding(t, g, row, fence) =>
        Holding(t, g, row', fence')
  BY <1>0, <1>2, <1>3, HoldingMoves
<1>6. \A g, seen : g \in Nat /\ Knowing(g, seen, row, fence) => Knowing(g, seen, row', fence')
  BY <1>0, <1>2, <1>3, KnowingMoves
<1>7. /\ \A t \in Full : DOMAIN t \subseteq Columns /\ DOMAIN t = Columns
      /\ \A t \in Texts : DOMAIN t \subseteq Columns
      /\ \A t, u : DOMAIN Over(t, u) \subseteq Columns
  BY TextsInColumns DEF Full, Over
<1>8. CopiesHold(row', fence')
  BY <1>5, <1>6, <1>7, SightTypes DEF SightInv, Sight, CopiesHold
<1>9. \A d \in Clients : /\ Waits(d)' => Waits(d) /\ job'[d].q = job[d].q
                         /\ \/ job'[d].answer = job[d].answer
                            \/ Awaits(q) /\ d = c /\ job'[d].answer = a
  <2>1. c \in Clients
    BY <1>0 DEF Asked, Request
  <2>2. CASE job' = job
    BY <2>2 DEF Waits
  <2>3. CASE Awaits(q) /\ job' = [job EXCEPT ![c].answer = a]
    <3>1. job[c] \in Job /\ Waits(c)
      BY <2>1, <2>3, SightTypes DEF Awaits, Waits
    <3>2. \A d \in Clients : job'[d] = IF d = c THEN [job[c] EXCEPT !.answer = a] ELSE job[d]
      BY <2>3 DEF Types, CallTypes
    <3> HIDE DEF a
    <3>3. job'[c].q = job[c].q /\ job'[c].answer = a
      BY <2>1, <3>1, <3>2 DEF Job
    <3>4. \A d \in Clients \ {c} : job'[d] = job[d]
      BY <3>2
    <3> QED BY <2>3, <3>1, <3>3, <3>4 DEF Waits
  <2> QED BY <1>1, <2>2, <2>3
<1> HIDE DEF o, a
<1>10. CallsKnow(row, fence)'
  <2>1. \A r \in net' : Writes(r) => Knowing(r.base, r.seen, row', fence')
    BY <1>1, <1>6, SightTypes DEF SightInv, Sight, CallsKnow
  <2>2. \A d \in Clients : Waits(d)' /\ Writes(job'[d].q) =>
          Knowing(job'[d].q.base, job'[d].q.seen, row', fence')
    BY <1>6, <1>9, SightTypes DEF SightInv, Sight, CallsKnow
  <2> QED BY <2>1, <2>2 DEF CallsKnow, Knowing, Writes, Repeated
<1>11. ASSUME NEW d \in Clients, Waits(d)', job'[d].q.kind = "upsert"
       PROVE  AnswerHolds(d, job'[d].q, job'[d].answer, row', fence')
  <2> DEFINE p == job[d].q
             v == view[d]
  <2>1. Waits(d) /\ job'[d].q = p /\ p.kind = "upsert"
    BY <1>9, <1>11
  <2>2. /\ AnswerHolds(d, p, job[d].answer, row, fence)
        /\ p.text \in Texts /\ p.base \in Nat
        /\ job[d].answer # None => job[d].answer.gen \in Nat
    BY <2>1, SightTypes DEF SightInv, Sight, AnswersHold
  <2>3. d # Owner /\ v # None => /\ v.text \in Full /\ v.gen \in Nat /\ v.gen >= p.base
                                 /\ Holding(v.text, v.gen, row', fence')
    <3>1. d # Owner /\ v # None => /\ v.text \in Full /\ v.gen \in Nat /\ v.gen >= p.base
                                   /\ Holding(v.text, v.gen, row, fence)
      BY <2>2, SightTypes DEF AnswerHolds, SightInv, Sight, CopiesHold
    <3> QED BY <1>5, <1>7, <3>1
  <2>4. CASE job'[d].answer = job[d].answer
    <3> DEFINE b == job[d].answer
    <3>1. b # None /\ b.ok =>
            /\ Holding(p.text, b.gen, row', fence')
            /\ d # Owner /\ v # None => Holding(Over(v.text, p.text), b.gen, row', fence')
      BY <1>5, <1>7, <2>2 DEF AnswerHolds
    <3> QED BY <1>1, <2>1, <2>3, <2>4, <3>1 DEF AnswerHolds, Over, Holding, Patching
  <2>5. CASE Awaits(q) /\ d = c /\ job'[d].answer = a
    <3>1. p = q /\ q.kind = "upsert"
      BY <2>1, <2>5 DEF Awaits
    <3>2. a.ok = o.ok /\ a.gen = o.gen
      BY DEF a
    <3>3. a.ok => /\ row' # None /\ a.gen = fence'.gen
                  /\ fence'.base = q.base /\ fence'.payload = q.text
      BY <1>1, <1>2, <3>1, <3>2 DEF Tells
    <3>4. q.text # None /\ DOMAIN q.text \subseteq Columns
      BY <1>7, <2>2, <3>1
    <3>5. a.ok =>
            /\ Holding(q.text, a.gen, row', fence')
            /\ d # Owner /\ v # None => Holding(Over(v.text, q.text), a.gen, row', fence')
      BY <1>3, <1>4, <1>7, <2>3, <3>1, <3>3, <3>4, PatchFits
    <3> QED BY <1>1, <2>1, <2>3, <2>5, <3>1, <3>5 DEF AnswerHolds, Over, Holding, Patching
  <2> QED BY <1>9, <2>4, <2>5
<1> QED BY <1>1, <1>3, <1>4, <1>8, <1>10, <1>11
      DEF SightInv, Sight, AnswersHold, AnswerHolds, CopiesHold, LastWritten, Holding, Patching,
          Knowing, Over

\* While a row exists, there is a fence over it, and at first every client knows it.
LEMMA SightInit ==
  ASSUME FenceConstants, FenceAssumption, Init, row # None
  PROVE  SightInv
<1>1. FenceInv
  BY FenceInit
<1>2. /\ fence = [state |-> "active", gen |-> 0, op |-> 0, base |-> None, payload |-> None]
      /\ row.gen = 0 /\ fence # None
      /\ local # None => local.gen = 0 /\ row.text \in local.seen
      /\ net = {} /\ pull = None
      /\ \A c \in Clients : ~Waits(c)
      /\ \A c \in Clients \ {Owner} : view[c] = row
  <2>1. FenceInv => fence # None
    BY Standing DEF Init, FenceInv, Types, Active
  <2> QED BY <1>1, <2>1 DEF Init, Waits
<1>3. Holding(row.text, row.gen, row, fence)
  BY <1>1, RowHeld DEF FenceInv, Types
<1>4. CopiesHold(row, fence)
  BY <1>2, <1>3 DEF CopiesHold, Knowing
<1>5. CallsKnow(row, fence) /\ AnswersHold(row, fence)
  BY <1>2 DEF CallsKnow, AnswersHold
<1>6. LastWritten(row, fence)
  BY <1>2 DEF LastWritten, Patching
<1> QED BY <1>2, <1>4, <1>5, <1>6 DEF SightInv, Sight

\* Every step keeps what clients know true.
LEMMA NextSees ==
  ASSUME FenceConstants, None \notin Texts, FenceInv, SightInv, [Next]_vars
  PROVE  SightInv'
<1> USE FenceAssumption
<1>1. CASE Window
  <2>1. CASE \/ \E t \in Drafts : Create(t) \/ Edit(t)
             \/ Look \/ Merge \/ Discover \/ Reconcile
    BY <2>1, WindowSees
  <2>2. CASE Push \/ \E t \in Drafts : Bring(t)
    BY <2>2, CallsSee
  <2> QED BY <1>1, <2>1, <2>2 DEF Window
<1>2. ASSUME NEW c \in Clients \ {Owner}, Read(c) \/ Lift(c) PROVE SightInv'
  BY <1>2, WindowSees, CallsSee
<1>3. ASSUME NEW c \in Clients, Retry(c) \/ Quit(c) \/ Finish(c) PROVE SightInv'
  BY <1>3, RetrySees, QuietTurnsSee, FinishSees
<1>4. ASSUME NEW p \in Portals, PortalDelete(p) \/ \E t \in Drafts : PortalSave(p, t)
      PROVE  SightInv'
  BY <1>4, CallsSee
<1>5. ASSUME NEW m \in Macs, Mark(m) \/ Ask(m) \/ LookBefore(m) \/ Unmark(m) \/ LookAgain(m)
      PROVE  SightInv'
  <2>1. m \in Clients
    BY DEF Clients
  <2> QED BY <1>5, <2>1, QuietTurnsSee, CallsSee
<1>6. ASSUME NEW q \in net, Execute(q) PROVE SightInv'
  BY <1>6, ExecuteSees
<1>7. CASE UNCHANGED vars
  BY <1>7 DEF vars, SightInv, Sight, LastWritten, Patching, CopiesHold, CallsKnow, AnswersHold,
     AnswerHolds, Holding, Knowing, Waits
<1> QED BY <1>1, <1>2, <1>3, <1>4, <1>5, <1>6, <1>7 DEF Next

\* What writes over a row quotes its generation, so its writer has seen the text.
LEMMA StepsKnow ==
  ASSUME FenceConstants, FenceInv, SightInv, [Next]_vars
  PROVE  [KnewWhatItReplaced]_database
<1> USE FenceAssumption
<1> SUFFICES ASSUME database' # database, row # None, row' # None, row' # row
             PROVE  \E q \in net \ net' : \A c \in Columns :
                      row'.text[c] # row.text[c] => \E t \in q.seen : t[c] = row.text[c]
  BY DEF KnewWhatItReplaced
<1>1. PICK q \in net : Execute(q)
  BY OnlyRequestsChange
<1>2. RowTypes /\ fence # None /\ Asked(q, ops) /\ fence.gen \in Nat
  BY SightTypes, Standing DEF SightInv, Sight, FenceInv, Types
<1>3. row' = Outcome(q).row /\ fence' = Outcome(q).fence /\ net' = net \ {q}
  BY <1>1 DEF Execute
<1>4. Moves(q, row', fence')
  BY <1>2, <1>3, OutcomeMoves
<1>5. Writes(q) /\ q.base = fence.gen
  BY <1>4 DEF Moves
<1>6. row.text \in q.seen
  BY <1>5 DEF SightInv, Sight, CallsKnow, Knowing
<1> QED BY <1>3, <1>6

\* Of a row that exists at first no column is ever written over by a client that had not
\* seen what stood there: not by a late copy, not by a client that lost an answer, and not
\* by one that patched the row meanwhile or pulled another text.
THEOREM SeenBeforeReplaced ==
  ASSUME FenceConstants, None \notin Texts
  PROVE  Init /\ row # None /\ [][Next]_vars => [][KnewWhatItReplaced]_database
<1>1. Init /\ row # None => FenceInv /\ SightInv
  BY FenceInit, SightInit, FenceAssumption
<1>2. FenceInv /\ SightInv /\ [Next]_vars => FenceInv' /\ SightInv'
  BY NextKeeps, NextSees
<1>3. FenceInv /\ SightInv /\ [Next]_vars => [KnewWhatItReplaced]_database
  BY StepsKnow
<1> QED BY <1>1, <1>2, <1>3, PTL

=============================================================================
