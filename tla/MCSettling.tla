----------------------------- MODULE MCSettling -----------------------------
(***************************************************************************)
(* What must come to an end: reservations and launches of workroom         *)
(* submissions, and the owner's copy of a port that was deleted            *)
(* (PortFence).  A behaviour runs one of the two and leaves the other at   *)
(* its start:                                                              *)
(*   "workroom"  a submission to a session and a launch, two boots; each   *)
(*               await of a writer returns or fails;                       *)
(*   "hung"      the same in one boot; the awaits of a writer may last for *)
(*               ever, only the expiry timer is sure to run;               *)
(*   "port"      the owner of a row and a portal.                          *)
(***************************************************************************)
EXTENDS WorkroomSubmissions, TLC

CONSTANTS i1, l1, x, mac, portal, url

VARIABLES instance, prow, pfence, pnet, pjob, pview, ppull, plocal, pmarked,
          pops, peffects, premoved

pvars == <<prow, pfence, pnet, pjob, pview, ppull, plocal, pmarked, pops,
           peffects, premoved>>

Port == INSTANCE PortFence WITH
    Owner <- mac, Others <- {}, Portals <- {portal}, Columns <- {url}, Shared <- url,
    Drafts <- {[c \in {url} |-> 0], [c \in {url} |-> 1]},
    Kinds <- {"upsert", "delete", "remove"}, MaxOps <- 2,
    row <- prow, fence <- pfence, net <- pnet, job <- pjob, view <- pview,
    pull <- ppull, local <- plocal, marked <- pmarked, ops <- pops,
    effects <- peffects, removed <- premoved

MCInit ==
    /\ instance \in {"workroom", "hung", "port"}
    /\ Init /\ Port!Init /\ prow # None

MCNext ==
    /\ \/ /\ instance \in {"workroom", "hung"} /\ Next /\ UNCHANGED pvars
          /\ instance = "hung" => boot' = 1
       \/ instance = "port" /\ Port!Next /\ UNCHANGED vars
    /\ UNCHANGED instance

\* Only the steps of a part that runs are asked for.
MCSpec ==
    /\ MCInit /\ [][MCNext]_<<instance, vars, pvars>>
    /\ TimerFairness
    /\ \A l \in Lanes : WF_vars(instance = "workroom" /\ WriterStep(l))
    /\ Port!Fairness

\* A launch does not stay prepared while the host runs and its writer is not
\* hung: it is written, said to be unknown, or refused, so that the next start is
\* not blocked.
LaunchSettles ==
    \A id \in Launches :
        (instance = "workroom" /\ Current(id) /\ ~closed) ~> ~(Current(id) /\ ~closed)

\* Nothing that was begun stays open: reservations, see WorkroomSubmissions, and
\* launches.
SubmissionsEnd == ReservationEnds /\ LaunchSettles

\* See PortFence.
DeletionArrives == Port!DeletionArrives

=============================================================================
