--------------------------- MODULE MCMemoryLedger ---------------------------
(***************************************************************************)
(* Two instances of MemoryLedger, each with variables of its own: a        *)
(* behaviour runs one of them and leaves the other at its start.           *)
(*   "spread"   two devices and two entries, with one loss of a cache, of  *)
(*              entries or of a transaction; the database keeps its rows;  *)
(*   "rewound"  one device with such a loss and three entries, and a       *)
(*              database that is set back once to an earlier moment.       *)
(***************************************************************************)
EXTENDS MemoryLedger, TLC

CONSTANTS d1, d2, e1, e2, e3

VARIABLES instance, wrows, wnextSeq, wtxns, wlocal, wacked, wcursor, wanchor,
          wpc, wpage, wupload, wsent, wlosses, wrewinds

wvars == <<wrows, wnextSeq, wtxns, wlocal, wacked, wcursor, wanchor, wpc, wpage,
           wupload, wsent, wlosses, wrewinds>>

Rewound == INSTANCE MemoryLedger WITH
    Device <- {d1}, Entry <- {e1, e2, e3}, MaxSeq <- 4, MaxRewinds <- 1,
    rows <- wrows, nextSeq <- wnextSeq, txns <- wtxns, local <- wlocal,
    acked <- wacked, cursor <- wcursor, anchor <- wanchor, pc <- wpc,
    page <- wpage, upload <- wupload, sent <- wsent, losses <- wlosses,
    rewinds <- wrewinds

\* Entries that are nowhere are alike: e1 is recorded before e2, e2 before e3.
\* So are the devices before the first record, which is made by d1.
Order == <<e1, e2, e3>>
InOrder(seen, e) ==
    \A i, k \in 1 .. 3 : k < i /\ Order[i] = e => Order[k] \in seen
Seen == Stored \cup {t.entry : t \in txns} \cup UNION {local[d] \cup acked[d] : d \in Device}
WSeen == Rewound!Stored \cup {t.entry : t \in wtxns} \cup wlocal[d1] \cup wacked[d1]

MCInit == Init /\ Rewound!Init /\ instance \in {"spread", "rewound"}

MCNext ==
    /\ \/ /\ instance = "spread" /\ Next /\ UNCHANGED wvars
          /\ \A d \in Device, e \in Entry :
                Record(d, e) =>
                    InOrder(Seen, e) /\ (Seen = {} /\ losses = 0 => d = d1)
       \/ /\ instance = "rewound" /\ Rewound!Next /\ UNCHANGED vars
          /\ \A e \in {e1, e2, e3} : Rewound!Record(d1, e) => InOrder(WSeen, e)
    /\ UNCHANGED instance

\* The fairness of MemoryLedger, for the devices of the instance that runs.
MCSpec ==
    /\ MCInit /\ [][MCNext]_<<instance, vars, wvars>>
    /\ WF_vars(Database) /\ WF_wvars(Rewound!Database)
    /\ \A d \in Device : WF_vars(instance = "spread" /\ Sync(d))
    /\ WF_wvars(instance = "rewound" /\ Rewound!Sync(d1))

\* What the caches say is true, also after the database was set back; see MemoryLedger.
CachesTellTruth == CursorsTellTruth /\ Rewound!CursorsTellTruth

\* Once failures cease, what a device recorded reaches every device, and what the
\* files of a device hold is stored again when the database was set back and lost
\* it; see MemoryLedger.
EntriesArrive == EntriesSpread /\ Rewound!EntriesStored

=============================================================================
