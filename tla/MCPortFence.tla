---------------------------- MODULE MCPortFence ----------------------------
(***************************************************************************)
(* One Mac that owns a row, another one and a portal.  A behaviour is      *)
(* about one subject:                                                      *)
(*   "edits"    the owner and the portal write a row of two columns;       *)
(*   "deletes"  all of them write, delete and restore a row whole;         *)
(*   "create"   the same of the owner and the portal, beginning with a row *)
(*              that does not exist.                                       *)
(***************************************************************************)
EXTENDS PortFence, TLC

CONSTANTS mac, other, portal, name, url

MCDrafts == {[c \in Columns |-> 0], [c \in Columns |-> 1]}

VARIABLE subject

Asked == CASE subject = "edits" -> {"upsert"}
           [] subject = "deletes" -> Kinds
           [] subject = "create" -> Kinds \ {"snapshot"}

Within ==
  /\ \A q \in net' : q.kind \in Asked
  /\ subject = "deletes" => ops' <= 2
  /\ subject # "edits" => \A q \in net' : DOMAIN q.text = Columns
  /\ subject # "deletes" => \A m \in Others : job'[m] = None /\ view'[m] = view[m]
  /\ subject = "edits" => marked' = {}

MCInit ==
  /\ subject \in {"edits", "deletes", "create"}
  /\ Init
  /\ (row = None) = (subject = "create")
MCNext == Next /\ Within /\ UNCHANGED subject
MCSpec == MCInit /\ [][MCNext]_<<vars, subject>>

\* No existing row is written over unseen, see PortFence; but who creates a row
\* quotes the generation that its first text will have.
ExistingKept == [][subject # "create" => KnewWhatItReplaced]_database

=============================================================================
