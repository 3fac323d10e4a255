--------------------------- MODULE MCHostCommands ---------------------------
(***************************************************************************)
(* What a host types for a person: commands for a Claude Code in Orca      *)
(* (ContextCommand) and requests to a workroom (WorkroomSubmissions), each *)
(* with variables of its own.  A behaviour is about one subject and leaves *)
(* everything else at its start:                                           *)
(*   alone      one host that restarts twice, with both commands;          *)
(*   shared     two hosts on one journal, with one command;                *)
(*   inputs     two submissions to one session, and keys typed by hand;    *)
(*   launch     a submission to a session and one that starts another,     *)
(*              with a restart and the Escape key.                         *)
(***************************************************************************)
EXTENDS ContextCommand, TLC

CONSTANTS
    h1, h2, r1, r2, compact, clear, i1, i2, l1, x, y,
    alone1, alone2, shared1, shared2, inputs, launch1, launch2  \* the subjects

VARIABLES subject, srow, sboot, sasm, swriter, ssession, sclosed, srev,
          styped, stold, sraws, sescaped

svars == <<srow, sboot, sasm, swriter, ssession, sclosed, srev, styped, stold,
           sraws, sescaped>>

Workroom == INSTANCE WorkroomSubmissions WITH
    Inputs <- {i1, i2}, Launches <- {l1}, Texts <- {x, y}, Chunks <- 2,
    MaxAssemblies <- 2, MaxBoots <- 2, MaxRaws <- 1, MaxEscs <- 1,
    row <- srow, boot <- sboot, asm <- sasm, writer <- swriter,
    session <- ssession, closed <- sclosed, rev <- srev, typed <- styped,
    told <- stold, raws <- sraws, escaped <- sescaped

Alone == {alone1, alone2}
Shared == {shared1, shared2}
Launching == {launch1, launch2}

\* The host that is not there, the command that nobody wants, the submission
\* that nobody makes.
AbsentHost == CASE subject = alone1 -> {h2} [] subject = alone2 -> {h1} [] OTHER -> {}
Unwanted == CASE subject = shared1 -> {clear} [] subject = shared2 -> {compact} [] OTHER -> {}
Unmade == CASE subject = launch1 -> {i2} [] subject = launch2 -> {i1} [] OTHER -> {l1}

OrcaStep ==
    /\ subject \in Alone \cup Shared
    /\ \/ \E h \in Host \ AbsentHost : Step(h)
       \/ \E c \in Request \X Command : Deliver(c) \/ Drop(c)
    /\ \A h \in Host : job'[h] # None => job'[h].what \notin Unwanted
    /\ \A r \in Request : row'[r] # None => row'[r].what \notin Unwanted
    /\ subject \in Shared => \A h \in Host : boot'[h] < MaxBoots
    /\ \A t \in told' : t[2] \in Unwanted => t[3] = "released"
    /\ UNCHANGED svars

WorkroomStep ==
    /\ subject \notin Alone \cup Shared
    /\ Workroom!Next
    /\ \A i \in Unmade : srow'[i] = srow[i]
    /\ subject = inputs => sboot' = 1 /\ sescaped' = {}
    /\ subject \in Launching => sraws' = 0
    /\ UNCHANGED vars

MCInit ==
    /\ subject \in Alone \cup Shared \cup Launching \cup {inputs}
    /\ Init /\ Workroom!Init
MCNext == (OrcaStep \/ WorkroomStep) /\ UNCHANGED subject
MCSpec == MCInit /\ [][MCNext]_<<vars, svars, subject>>

\* Hosts are alike; commands and texts are; requests and inputs are.
Exchange(pairs) ==
    LET exchanged == UNION pairs IN
    [v \in exchanged |-> CHOOSE w \in exchanged : w # v /\ {v, w} \in pairs]
HostsAlike == Exchange({{h1, h2}, {alone1, alone2}})
WordsAlike == Exchange({{compact, clear}, {shared1, shared2}, {x, y}})
RequestsAlike == Exchange({{r1, r2}, {i1, i2}, {launch1, launch2}})
CommandSymmetry ==
    {[v \in UNION {DOMAIN f : f \in some} |-> (CHOOSE f \in some : v \in DOMAIN f)[v]] :
        some \in SUBSET {HostsAlike, WordsAlike, RequestsAlike} \ {{}}}

\* A command reaches the terminal once at most, never after it was released, and,
\* while no other host reads the journal, never against an answer: see ContextCommand.
CommandsKeepTheirWord ==
    /\ TypeOK /\ SentOnce /\ BuriedStaysBuried
    /\ subject \in Alone => AnswersStayTrue

\* See WorkroomSubmissions.
SubmissionsKeepTheirWord == Workroom!SubmissionsKeepTheirWord

=============================================================================
