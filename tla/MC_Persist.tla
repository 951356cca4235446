----------------------------- MODULE MC_Persist -----------------------------
(***************************************************************************)
(* The snapshot store in two parts, one in each behaviour: sessions that   *)
(* take their metadata from the slots, and every operation of the shell    *)
(* with slots that cannot be read and a sequence counter that wraps.       *)
(***************************************************************************)
EXTENDS Persist

VARIABLE part

storeVars == <<part, vars>>

\* Three sequence numbers are enough to wrap.
Worn == INSTANCE Persist WITH SeqMod <- 3, MaxSeq <- 3, Contents <- {Default},
                              Oversize <- {}, ReadErrors <- TRUE

StoreInit == part \in {"prepared", "worn"} /\ Init

StoreNext ==
  \/ part = "prepared" /\ NextPrepared /\ UNCHANGED part
  \/ part = "worn" /\ Worn!Next /\ UNCHANGED part

StoreSpec == StoreInit /\ [][StoreNext]_storeVars

-----------------------------------------------------------------------------
(* Properties *)

\* A load of vfs_persist_load finds the last acknowledged snapshot or one
\* submitted after it, in sessions that take their metadata from the slots and
\* number no snapshot below one that is there.
LoadsRecover == part = "prepared" => NewestIsRecoverable

\* What the store keeps towards its callers is DurableRoots, as long as its
\* slots can be read and its counter has not wrapped.
Kept(v, other) == IF part = "prepared" THEN v ELSE other

Promise == INSTANCE DurableRoots
             WITH stable  <- Kept(Stable, Nothing),
                  acked   <- Kept(acked, Nothing),
                  pending <- Kept(pending, {})

\* The slot store implements the promise of DurableRoots: every save, restore,
\* repair, boot, crash and sector write of vfs.c is one of its steps or none.
KeepsPromise == Promise!Spec
=============================================================================
