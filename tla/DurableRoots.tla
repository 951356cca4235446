---------------------------- MODULE DurableRoots ----------------------------
(***************************************************************************)
(* What the Orizon data partition promises its callers, without slots,     *)
(* sectors, sequence numbers or checksums.  The newest snapshot a load can *)
(* find ("stable") is always the last acknowledged one or one that was     *)
(* submitted after it; it is never a mixture of two of them and never an   *)
(* older one.                                                              *)
(***************************************************************************)
CONSTANTS Snapshot,   \* contents of the persistent roots
          Nothing     \* no snapshot was ever written

VARIABLES stable,     \* what a load would find now
          acked,      \* last snapshot vfs_persist_save returned 0 for
          pending     \* snapshots submitted since, outcome unknown

dvars == <<stable, acked, pending>>

Recoverable == {acked} \cup pending

Init == /\ stable \in Snapshot \cup {Nothing}
        /\ acked = stable
        /\ pending = {}

\* The caller submits new contents, by saving them or by restoring a slot.
Submit == /\ \E D \in SUBSET Snapshot : pending' = pending \cup D
          /\ UNCHANGED <<stable, acked>>

\* The medium moves, by a sector or by a whole snapshot, between outcomes
\* that are still open.
Settle == /\ stable' \in Recoverable
          /\ UNCHANGED <<acked, pending>>

\* vfs_persist_save returns 0.
Acknowledge == /\ stable \in pending
               /\ acked' = stable
               /\ pending' = {}
               /\ UNCHANGED stable

\* A boot loads what it finds; an empty or an old-format partition makes the
\* load submit a snapshot of its own.
Recover == /\ acked' = stable
           /\ \E D \in SUBSET Snapshot : pending' = D
           /\ UNCHANGED stable

Next == Submit \/ Settle \/ Acknowledge \/ Recover

Spec == Init /\ [][Next]_dvars
=============================================================================
