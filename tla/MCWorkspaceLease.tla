--------------------------- MODULE MCWorkspaceLease ---------------------------
(***************************************************************************)
(* Two sidecar processes, two directories that may be worktrees of one     *)
(* family or of another, two leases on one directory and a reservation on  *)
(* the other.                                                              *)
(***************************************************************************)
EXTENDS WorkspaceLease, TLC

CONSTANTS l1, l2, l3, p1, p2, d1, d2, f1, f2

MCProcOf == (l1 :> p1) @@ (l2 :> p2) @@ (l3 :> p1)
MCDirOf == (l1 :> d1) @@ (l2 :> d1) @@ (l3 :> d2)
FamilySymmetry == Permutations(Family)

=============================================================================
