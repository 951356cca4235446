----------------------------- MODULE MC_Devices -----------------------------
(***************************************************************************)
(* The drivers that share rings and registers with hardware, one of them   *)
(* in each behaviour: the Wi-Fi radio, the xHCI controller, the disks, the *)
(* Ethernet controllers, and keyboard and mouse.                           *)
(***************************************************************************)
EXTENDS WifiRadio, Xhci, Storage, NetRings, InputDevices

VARIABLE part

deviceVars == <<part, radioVars, xhciVars, storageVars, netRingVars, inputVars>>

DevicesInit ==
  /\ part \in {"radio", "usb", "disks", "rings", "input"}
  /\ RadioInit /\ XhciInit /\ StorageInit /\ NetRingsInit /\ InputInit
  \* The parts that stand still are in one initial state.
  /\ part # "radio" => image = "none"
  /\ part # "input" => mouse.size = 3 /\ usb.present

Radio(A) == /\ part = "radio" /\ A
            /\ UNCHANGED <<part, xhciVars, storageVars, netRingVars, inputVars>>
Usb(A) == /\ part = "usb" /\ A
          /\ UNCHANGED <<part, radioVars, storageVars, netRingVars, inputVars>>

\* Bounds of the "usb" part: a scan asked for counts as a device, one send or
\* one wait that gives up, and the first device has the smaller endpoint.
FewPlugs ==
  /\ dev'.plugs + dev'.forced <= MaxPlugs
  /\ net'.sent + late' <= 1
  /\ \A p \in Ports : port'[p].dev = "other" \/ dev'.plugs = 1 =>
       \A ep \in Endpoints : port'[p].ep <= ep

DevicesNext ==
  \/ Radio(RadioNext)
  \/ Usb(XhciNext) /\ FewPlugs
  \/ part = "disks" /\ StorageNext /\ UNCHANGED <<part, radioVars, xhciVars, netRingVars, inputVars>>
  \/ part = "rings" /\ NetRingsNext /\ UNCHANGED <<part, radioVars, xhciVars, storageVars, inputVars>>
  \/ part = "input" /\ InputNext /\ UNCHANGED <<part, radioVars, xhciVars, storageVars, netRingVars>>

\* A call of the radio driver runs on, the main loop comes back to the scan of
\* the ports, a wait loop looks at its next event or ends when its counter
\* does, and controller and device answer what they were asked.
DevicesFairness ==
  /\ WF_deviceVars(Radio(Probe))
  /\ WF_deviceVars(Usb(Rescan))
  /\ WF_deviceVars(Usb(WaitTakes \/ WaitTimesOut))
  /\ WF_deviceVars(Usb(HcExecutes \/ HcFollowsLink \/ DeviceAnswers \/ FrameLeaves))

DevicesSpec == DevicesInit /\ [][DevicesNext]_deviceVars /\ DevicesFairness
-----------------------------------------------------------------------------
\* No driver waits for ever on its hardware: a call of the radio driver ends
\* whatever the card does, and a device plugged into an empty port and left
\* there is enumerated.
DevicesProgress == CallsEnd /\ PortsAreTried
=============================================================================
