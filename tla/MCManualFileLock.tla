-------------------------- MODULE MCManualFileLock --------------------------
(***************************************************************************)
(* OwnedFileLock with manual owners only, as for the parts of a workspace  *)
(* lease, and a process that gets the PID of one that died before it.      *)
(***************************************************************************)
EXTENDS OwnedFileLock, TLC

CONSTANTS c1, c2, c3, p1, p2, p3, i1, i2, i3, r1, r2

MCProcOf == (c1 :> p1) @@ (c2 :> p2) @@ (c3 :> p3)
ReusedPid == (p1 :> i1) @@ (p2 :> i2) @@ (p3 :> i1)
ManualClass == [c \in Call |-> "manual"]

=============================================================================
