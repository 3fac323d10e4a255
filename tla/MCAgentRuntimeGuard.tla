------------------------- MODULE MCAgentRuntimeGuard -------------------------
(***************************************************************************)
(* Two instances of AgentRuntimeGuard, each with variables of its own: a   *)
(* behaviour runs one of them and leaves the other at its start.  In both, *)
(* three incarnations of the sidecar each try to become the supervisor.    *)
(*   "distinct"  every process has a PID of its own; one launch;           *)
(*   "reuse"     the third incarnation may get the PID of the first, and   *)
(*               there are two launches, by one supervisor or by two.      *)
(***************************************************************************)
EXTENDS AgentRuntimeGuard, TLC

CONSTANTS c1, c2, c3, p1, p2, p3, i1, i2, i3, l1, l2

MCProcOf == (c1 :> p1) @@ (c2 :> p2) @@ (c3 :> p3)
DistinctPids == (p1 :> i1) @@ (p2 :> i2) @@ (p3 :> i3)
ReusedPid == (p1 :> i1) @@ (p2 :> i2) @@ (p3 :> i1)
MCClassOf == [c \in Call |-> "guarded"]

VARIABLES instance, rproc, rdeadFor, rfile, rstale, rpc, rleft, robserved,
          rwaited, rmanual, rrequest, rcoordinator, rverdict, rlauncher,
          rrecord, rguard

rvars == <<rproc, rdeadFor, rfile, rstale, rpc, rleft, robserved, rwaited,
           rmanual, rrequest, rcoordinator, rverdict, rlauncher, rrecord, rguard>>

Reuse == INSTANCE AgentRuntimeGuard WITH
    PidOf <- ReusedPid, Launch <- {l1, l2},
    proc <- rproc, deadFor <- rdeadFor, lockFile <- rfile, stale <- rstale,
    pc <- rpc, left <- rleft, observed <- robserved, waited <- rwaited,
    manualRecoveryRequired <- rmanual, request <- rrequest,
    coordinator <- rcoordinator, verdict <- rverdict,
    launcher <- rlauncher, record <- rrecord, guard <- rguard

MCInit == Init /\ Reuse!Init /\ instance \in {"distinct", "reuse"}

MCNext ==
    /\ \/ instance = "distinct" /\ Next /\ UNCHANGED rvars
       \/ instance = "reuse" /\ Reuse!Next /\ UNCHANGED vars
    /\ UNCHANGED instance

\* At its start, before any process, the instance owes no step to fairness.
MCSpec ==
    /\ MCInit /\ [][MCNext]_<<vars, rvars, instance>>
    /\ Fairness

\* See AgentRuntimeGuard: a reused PID keeps a row from being told from those
\* of another supervisor, and never gives a provider to two of them.
AuthorityDespiteReuse == Reuse!SupervisorAuthority

=============================================================================
