---------------------------- MODULE MCMemorySave ----------------------------
(***************************************************************************)
(* Three saves, in one of two surroundings:                                *)
(*   "turns"     two turns of one memory, and two changes of the policy;   *)
(*   "memories"  two memories with one turn each, as many saves as it      *)
(*               takes for a second attempt beside the save of another.    *)
(* What a surrounding leaves out is something nobody has to do: a turn     *)
(* that is not saved, a memory nobody touches, a policy nobody changes.    *)
(***************************************************************************)
EXTENDS MemorySave, TLC

CONSTANTS m1, m2, s1, s2, s3, j1, j2, j3, a, b

MCMemoryOf == [s \in Source |-> IF s = s3 THEN m2 ELSE m1]
SaveSymmetry == Permutations(Job)

VARIABLE surroundings

MCInit ==
    /\ Init
    /\ surroundings \in {"turns", "memories"}
    /\ surroundings = "turns" => doc[m2] = a

MCNext ==
    /\ Next
    /\ CASE surroundings = "turns" ->
              worker'[m2] = Idle /\ doc'[m2] = a
         [] surroundings = "memories" ->
              policy'.revision <= 1 /\ \A m \in Memory : s2 \notin worker'[m].want
    /\ UNCHANGED surroundings

MCSpec == MCInit /\ [][MCNext]_<<vars, surroundings>>

=============================================================================
