------------------------------- MODULE PartLock -------------------------------
(***************************************************************************)
(* What a lock file promises to those who build on it, in one page: it is  *)
(* taken only where there is none, given back only by the owner it names,  *)
(* and taken from an owner only when the process of that owner has ended.  *)
(* A creation that is cut short may leave a file that is nobody's.         *)
(*                                                                         *)
(* OwnedFileLock implements this with attempts, grace windows, recovery    *)
(* classes and identifiers that are reused, and every part of              *)
(* WorkspaceLease is assumed to be one and shown to be used as one.        *)
(***************************************************************************)
CONSTANTS
    Owner,      \* those who may take the lock, each of them once
    Free,       \* there is no lock file
    Debris      \* there is one, and it is nobody's

VARIABLES
    lock,       \* the owner the lock file names
    held,       \* the owners that took the lock and did not try to give it back
    ended       \* the owners the process of which has ended

vars == <<lock, held, ended>>

Init == lock = Free /\ held = {} /\ ended = {}

Take(c) ==
    /\ lock = Free
    /\ lock' = c
    /\ held' = held \cup {c}
    /\ UNCHANGED ended

\* An attempt to give the lock back may fail, and be made again; it leaves the
\* lock of another owner alone.
GiveBack(c) ==
    /\ \/ lock = c /\ lock' = Free
       \/ UNCHANGED lock
    /\ held' = held \ {c}
    /\ UNCHANGED ended

\* The lock is taken from an owner.
Recover ==
    /\ lock \in ended
    /\ lock' = Free
    /\ UNCHANGED <<held, ended>>

\* A process may end, and with it what it knew of its locks.
End ==
    /\ ended \subseteq ended'
    /\ held' \subseteq held
    /\ \A c \in held \ ended' : c \in held'

\* A creation is cut short, perhaps by the end of the process.
Cut ==
    /\ lock = Free
    /\ lock' = Debris
    /\ End

Clear ==
    /\ lock = Debris
    /\ lock' = Free
    /\ UNCHANGED <<held, ended>>

Next ==
    \/ UNCHANGED lock /\ End
    \/ \E c \in Owner \ ended : Take(c) \/ GiveBack(c)
    \/ Recover \/ Cut \/ Clear

Spec == Init /\ [][Next]_vars

-----------------------------------------------------------------------------
\* An owner that took the lock, is alive and did not try to give it back has it,
\* so that there is never a second one.
HolderHasLock == \A c \in held \ ended : lock = c

=============================================================================
