---------------------------- MODULE MCMemorySync ----------------------------
(***************************************************************************)
(* Two devices with two runs of operations each.  A behaviour is about     *)
(* some operations, texts and runs, and leaves the others out; nobody has  *)
(* to begin or to edit anything.  The texts olda and oldb lack identities  *)
(* and become a and b.  Where a person resolves conflicts, no request      *)
(* outlives the operation that made it.                                    *)
(***************************************************************************)
EXTENDS MemorySync, TLC

CONSTANTS d1, d2, p1, p2, p3, p4, seed, a, b, olda, oldb

MCDeviceOf == (p1 :> d1) @@ (p2 :> d2) @@ (p3 :> d1) @@ (p4 :> d2)
MCStable == [t \in Text |-> CASE t = olda -> a [] t = oldb -> b [] OTHER -> t]
AllKinds == PushKinds \cup PullKinds \cup ResolveKinds \cup {"restore"}

\* What a behaviour is about: pushes and pulls of two devices; the backups of
\* one device and the pushes of the other; conflicts and what a person chooses,
\* with a document that lacks identities; two operations at a time at one device.
\* The subjects that a renaming of the texts or devices makes of one another
\* have letters and numbers.
CONSTANTS pushes, backups1, backups2, local1, local2,
          conflicts1a, conflicts1b, conflicts2a, conflicts2b

Conflicts == {conflicts1a, conflicts1b, conflicts2a, conflicts2b}
Subject == Conflicts \cup {pushes, backups1, backups2, local1, local2}

\* The operations of a run.
Does ==
    LET of(p, does, q, doesToo) ==
            [r \in Proc |-> CASE r = p -> does [] r = q -> doesToo [] OTHER -> {}]
        resolves == {"push"} \cup ResolveKinds
        replaces == {"push", "force-pull", "restore"} IN
    [s \in Subject |->
        CASE s = pushes ->
                of(p1, {"push", "pull", "force-push"}, p2, {"push", "pull", "force-push"})
          [] s = backups1 -> of(p1, {"backup"}, p2, {"push"})
          [] s = backups2 -> of(p2, {"backup"}, p1, {"push"})
          [] s \in {conflicts1a, conflicts1b} -> of(p1, resolves, p2, {"push"})
          [] s \in {conflicts2a, conflicts2b} -> of(p2, resolves, p1, {"push"})
          [] s = local1 -> of(p1, {"push", "pull"}, p3, replaces)
          [] s = local2 -> of(p2, {"push", "pull"}, p4, replaces)]
Idlers == [s \in Subject |-> {p \in Proc : Does[s][p] = {}}]
Texts == [s \in Subject |->
    {Template} \cup CASE s \in {conflicts1a, conflicts2a} -> {a, olda}
                      [] s \in {conflicts1b, conflicts2b} -> {b, oldb}
                      [] OTHER -> {a, b}]
\* Devices that nobody writes at, and those without backups.
Spared == [s \in Subject |-> {d \in Device : \A p \in Proc \ Idlers[s] : DeviceOf[p] # d}]
Unsaved == [s \in Subject |->
    {d \in Device : \A p \in Proc : DeviceOf[p] = d => "backup" \notin Does[s][p]}]

VARIABLE subject

Within ==
    /\ \A p \in Idlers[subject] : op'[p] = Idle
    /\ \A p \in Proc \ Idlers[subject] : op'[p].kind \in Does[subject][p] \cup {"none"}
    /\ \A d \in Device : doc'[d] \in Texts[subject]
    /\ \A d \in Spared[subject] : doc'[d] = Template
    /\ \A d \in Unsaved[subject] : outbox'[d] = NoBackup
    /\ \A r \in requests' :
          r.text \in Texts[subject] /\ (subject \in Conflicts => r.awaited)

\* Devices and texts are alike.
Renamed == (Text \ {Template}) \cup Device \cup Proc \cup (Subject \ {pushes})
Exchange(pairs) ==
    [x \in Renamed |-> IF \E y \in Renamed : {x, y} \in pairs
                       THEN CHOOSE y \in Renamed : {x, y} \in pairs ELSE x]
ExchangeTexts == {{a, b}, {olda, oldb}, {conflicts1a, conflicts1b}, {conflicts2a, conflicts2b}}
ExchangeDevices ==
    {{d1, d2}, {p1, p2}, {p3, p4}, {backups1, backups2}, {local1, local2},
     {conflicts1a, conflicts2a}, {conflicts1b, conflicts2b}}
TextSwap == Exchange(ExchangeTexts)
DeviceSwap == Exchange(ExchangeDevices)
SyncSymmetry ==
    {[x \in Renamed |-> f[x]] : f \in {TextSwap, DeviceSwap, [x \in Renamed |-> TextSwap[DeviceSwap[x]]]}}

MCInit == Init /\ subject \in Subject
MCNext == Next /\ Within /\ UNCHANGED subject
MCSpec == MCInit /\ [][MCNext]_<<vars, subject>>

=============================================================================
