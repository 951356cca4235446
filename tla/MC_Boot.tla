------------------------------- MODULE MC_Boot -------------------------------
(***************************************************************************)
(* What a boot relies on, one part in each behaviour: the writer of the    *)
(* ESP, and the boot guard with any failure and any choice at the boot     *)
(* menu.                                                                   *)
(***************************************************************************)
EXTENDS EspVolume, BootGuard

VARIABLE part

bootVars == <<part, vars, guardVars>>

BootInit == /\ part \in {"volume", "guard"}
            /\ Init /\ GuardInit
            \* The volume stands still in one initial state.
            /\ part # "volume" => layout = "installed"

BootNext ==
  \/ part = "volume" /\ NextOneSession /\ UNCHANGED <<part, guardVars>>
  \/ part = "guard" /\ NextGuarded /\ UNCHANGED <<part, vars>>

BootSpec == BootInit /\ [][BootNext]_bootVars
=============================================================================
