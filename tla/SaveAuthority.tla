---------------------------- MODULE SaveAuthority ----------------------------
(***************************************************************************)
(* What the automatic memory save promises about a completed turn, whatever *)
(* dies and whoever asks again.  The consent to the policy is an authority  *)
(* to ask a model about the turn once; an explicit review may add one, and  *)
(* one only; an authority is used up by asking, not by an answer.  A turn   *)
(* is saved once, after a model was asked, and then nobody asks again.      *)
(* MemorySave implements this module.                                       *)
(***************************************************************************)
EXTENDS Naturals

CONSTANT Turn

VARIABLES granted, asked, saved

vars == <<granted, asked, saved>>

Init ==
    /\ granted = [t \in Turn |-> 0]
    /\ asked = [t \in Turn |-> 0]
    /\ saved = {}

\* Turns are granted, asked about and saved in the batches of their job.
Batches == {batch \in SUBSET Turn : batch # {} /\ batch \cap saved = {}}

Grant(batch) ==
    /\ \A t \in batch : granted[t] < 2
    /\ granted' = [t \in Turn |-> granted[t] + (IF t \in batch THEN 1 ELSE 0)]
    /\ UNCHANGED <<asked, saved>>

Ask(batch) ==
    /\ \A t \in batch : asked[t] < granted[t]
    /\ asked' = [t \in Turn |-> asked[t] + (IF t \in batch THEN 1 ELSE 0)]
    /\ UNCHANGED <<granted, saved>>

Save(batch) ==
    /\ \A t \in batch : asked[t] > 0
    /\ saved' = saved \cup batch
    /\ UNCHANGED <<granted, asked>>

Next == \E batch \in Batches : Grant(batch) \/ Ask(batch) \/ Save(batch)

Spec == Init /\ [][Next]_vars

=============================================================================
