------------------------ MODULE MCAgentRuntimeService ------------------------
(***************************************************************************)
(* Two requests for projects one of which lies inside the directory of the *)
(* other; their leases are on different directories and do not exclude     *)
(* each other.  A behaviour runs with one of three sets of limits:         *)
(*   "wide"    both tasks may be active and both rows are kept;            *)
(*   "narrow"  one active task and one row kept, so that retention retires *)
(*             the row of a request that may come again;                   *)
(*   "aged"    the same, and the windows of tombstones and intents end, so *)
(*             that a request may come again before and after its          *)
(*             tombstone has expired.                                      *)
(* Two bounds: windows end only with "aged", and shutdown only comes with  *)
(* the others.                                                             *)
(***************************************************************************)
EXTENDS AgentRuntimeService, TLC

CONSTANTS r1, r2

OwnTarget == [r \in Request |-> r]
NestedOverlap == Request \X Request
OwnLease == {<<r, r>> : r \in Request}

\* Every constant above is the same under a permutation of the requests.
RequestSymmetry == Permutations(Request)

VARIABLE limits

Narrow == INSTANCE AgentRuntimeService WITH MaxConcurrent <- 1, Keep <- 1

MCInit == Init /\ limits \in {"wide", "narrow", "aged"}

MCNext ==
    /\ \/ limits = "wide" /\ Next /\ expired' = {}
       \/ limits = "narrow" /\ Narrow!Next /\ expired' = {}
       \/ limits = "aged" /\ Narrow!Next /\ ~ShuttingDown'
    /\ UNCHANGED limits

MCSpec == MCInit /\ [][MCNext]_<<vars, limits>>

=============================================================================
