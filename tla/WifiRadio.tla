----------------------------- MODULE WifiRadio -----------------------------
(***************************************************************************)
(* The Intel radio of drivers/wifi.c as its commands drive it: finding and *)
(* parsing the firmware, waking the card, loading the sections, the host   *)
(* queues, the context, the command queue and the receive ring.  A command *)
(* of the terminal is a list of probes; "bringup" and "join" chain them    *)
(* and stop at the first that fails.  The card answers late, never, or     *)
(* with something nobody asked for.                                        *)
(*                                                                         *)
(* wifi_find_firmware parses the image again and with it forgets all that  *)
(* was prepared; the scan and the connection call it first, so nothing of  *)
(* the driver after them (association, WPA, CCMP) runs: see the README.    *)
(***************************************************************************)
EXTENDS Integers, Sequences

CONSTANTS
  Entries,     \* WIFI_RX_QUEUE_ENTRIES and WIFI_CMD_QUEUE_ENTRIES
  Sections,    \* firmware sections the CPUs are booted from
  MaxUserCalls \* commands typed in a behaviour

ASSUME RadioAssumption ==
  /\ Entries \in Nat \ {0, 1} /\ Sections \in Nat \ {0} /\ MaxUserCalls \in Nat

VARIABLES
  image,  \* the firmware image there is: none, a file the kernel has not in memory, a blob,
          \* or a blob with more sections than the context's DRAM maps take
  radio,  \* the flags of wifi_status_state
  ring,   \* cmd_write_ptr, the staged index, rx_read_ptr, the closed index
  card,   \* the card: sections it has, its alive interrupt, doorbells it owes an answer
  air,    \* packets in the receive ring that are not read, oldest first
  call,   \* the probes still to run, and the stage of the first
  calls   \* commands typed so far

radioVars == <<image, radio, ring, card, air, call, calls>>

Idle == [todo |-> <<>>, stage |-> "start", failed |-> FALSE]

\* wifi_connect_clear_plan, wifi_scan_clear_access_points, wifi_reset_firmware_parse.
Forgotten ==
  [firmware |-> "none", apm |-> FALSE, boot |-> FALSE, alive |-> FALSE,
   queues |-> FALSE, queuesArmed |-> FALSE, context |-> FALSE, contextArmed |-> FALSE,
   command |-> FALSE, rx |-> FALSE, response |-> FALSE, scheduler |-> FALSE,
   nvm |-> FALSE, aps |-> {}]

Blobs == {"blob", "large"}

\* The image a search comes up with.
FoundImage == CASE image \in Blobs -> "valid" [] image = "file" -> "named" [] OTHER -> "none"

\* wifi_find_firmware: a boot module or the embedded image is parsed, a file is only named.
FindFirmware == [Forgotten EXCEPT !.firmware = FoundImage]

FoundRing == [ring EXCEPT !.write = 0, !.read = 0]

Programs ==
  {<<s>> : s \in {"firmware", "apm", "upload", "boot", "alive", "queues", "context",
                  "scheduler", "rx", "command", "nvm", "scan", "poll", "connect"}}

Bringup == <<"firmware", "apm", "boot", "alive", "queues", "context", "scheduler", "rx", "nvm">>

Join == Bringup \o <<"scan", "poll", "connect">>

UserCall ==
  /\ call.todo = <<>> /\ calls < MaxUserCalls
  /\ \E p \in Programs \cup {Bringup, Join} : call' = [Idle EXCEPT !.todo = p]
  /\ calls' = calls + 1
  /\ UNCHANGED <<image, radio, ring, card, air>>

\* The first probe of the call is s, at the given stage.
At(s, stage) == call.todo # <<>> /\ Head(call.todo) = s /\ call.stage = stage

Passed == call' = [Idle EXCEPT !.todo = Tail(call.todo)]
Failed == call' = [Idle EXCEPT !.failed = TRUE]
Ends(ok) == IF ok THEN Passed ELSE Failed
Stage(s) == call' = [call EXCEPT !.stage = s]
-----------------------------------------------------------------------------
(* Firmware and processors.                                                *)

FirmwareProbe ==
  /\ At("firmware", "start")
  /\ radio' = FindFirmware /\ ring' = FoundRing
  /\ Ends(radio'.firmware # "none")
  /\ UNCHANGED <<image, card, air, calls>>

\* wifi_activate_nic: the card wakes up in time or does not.
Activated(r, woke) == [r EXCEPT !.apm = woke]

ApmProbe ==
  /\ At("apm", "start")
  /\ ring' = FoundRing
  /\ \E woke \in BOOLEAN : radio' = Activated(FindFirmware, woke) /\ Ends(woke)
  /\ UNCHANGED <<image, card, air, calls>>

\* wifi_load_firmware: a valid image in memory, its first chunk in the DMA buffer.
Loadable == FindFirmware.firmware = "valid"

\* wifi_upload_firmware, wifi_upload_all_firmware: the chunks alone boot nothing.
Upload ==
  /\ At("upload", "start")
  /\ ring' = FoundRing
  /\ \E ok \in BOOLEAN :
       /\ ok => Loadable
       /\ radio' = Activated(FindFirmware, ok)
       /\ Ends(ok)
  /\ UNCHANGED <<image, card, air, calls>>

\* wifi_boot_firmware up to the release of the CPUs.
BootRelease ==
  /\ At("boot", "start")
  /\ ring' = FoundRing
  /\ \E ok \in BOOLEAN :
       /\ ok => Loadable
       /\ radio' = Activated(FindFirmware, ok)
       /\ IF ok THEN card' = [card EXCEPT !.sections = 0, !.alive = FALSE] /\ Stage("load")
          ELSE UNCHANGED card /\ Failed
  /\ UNCHANGED <<image, air, calls>>

\* wifi_arm_fh_current_chunk for the chunks of a section: done, an error, or too late.
Transferred(ok) == [card EXCEPT !.sections = IF ok THEN @ + 1 ELSE @]

\* Mutant: a section whose transfer timed out is skipped.
BootSectionSkipped ==
  /\ At("boot", "load")
  /\ \E ok \in BOOLEAN :
       /\ card' = Transferred(ok)
       /\ IF card.sections < Sections - 1 /\ ok THEN Stage("load") /\ UNCHANGED radio
          ELSE radio' = [radio EXCEPT !.boot = TRUE] /\ Passed
  /\ UNCHANGED <<image, ring, air, calls>>

\* wifi_boot_load_cpu_sections: one section, its chunks, its mark; the last marks the CPU done.
BootSection ==
  /\ At("boot", "load")
  /\ \E ok \in BOOLEAN :
       /\ card' = Transferred(ok)
       /\ IF card.sections < Sections - 1 /\ ok THEN Stage("load") /\ UNCHANGED radio
          ELSE radio' = [radio EXCEPT !.boot = ok] /\ Ends(ok)
  /\ UNCHANGED <<image, ring, air, calls>>

\* Mutant: the poll loop for the interrupt has no bound.
AliveProbeEndless ==
  /\ At("alive", "start")
  /\ radio.boot /\ card.alive
  /\ radio' = [radio EXCEPT !.alive = TRUE, !.apm = TRUE]
  /\ card' = [card EXCEPT !.alive = FALSE]
  /\ Passed
  /\ UNCHANGED <<image, ring, air, calls>>

\* wifi_alive_probe: the interrupt is seen and cleared, or the wait ends.
AliveProbe ==
  /\ At("alive", "start")
  /\ IF radio.firmware = "none" THEN radio' = FindFirmware /\ ring' = FoundRing /\ UNCHANGED card /\ Failed
     ELSE /\ UNCHANGED ring
          /\ \/ /\ radio.boot /\ card.alive
                /\ radio' = [radio EXCEPT !.alive = TRUE, !.apm = TRUE]
                /\ card' = [card EXCEPT !.alive = FALSE]
                /\ Passed
             \/ /\ radio' = [radio EXCEPT !.alive = IF radio.boot /\ radio.apm THEN FALSE ELSE @]
                /\ UNCHANGED card /\ Failed
  /\ UNCHANGED <<image, air, calls>>
-----------------------------------------------------------------------------
(* Host queues, context, staged commands.                                  *)

\* wifi_reset_queue_runtime within wifi_prepare_host_queues.
HostQueues(r) ==
  [Forgotten EXCEPT !.firmware = r.firmware, !.apm = r.apm, !.boot = r.boot, !.alive = r.alive,
                    !.queues = TRUE, !.rx = TRUE]

\* The ring memory is cleared, the closed index with it.
EmptyRing == [write |-> 0, staged |-> ring.staged, read |-> 0, closed |-> 0]

QueueProbe ==
  /\ At("queues", "start")
  /\ radio' = [HostQueues(radio) EXCEPT !.queuesArmed = radio.boot]
  /\ ring' = EmptyRing /\ air' = <<>> /\ card' = [card EXCEPT !.owed = <<>>]
  /\ Ends(radio.boot)
  /\ UNCHANGED <<image, calls>>

\* wifi_context_stage_firmware_maps, wifi_context_mark_failure: every chunk of the
\* sections has a place in the maps, or the context is not ready.
Mapped(q) == IF image = "large" THEN [q EXCEPT !.context = FALSE, !.contextArmed = FALSE]
             ELSE [q EXCEPT !.context = TRUE]

\* wifi_prepare_context_info: the flags it leaves, "valid" firmware needed.
ContextInfo(r) ==
  LET f == IF r.firmware = "valid" THEN r ELSE FindFirmware
      q == IF f.queues THEN f ELSE HostQueues(f)
  IN  IF f.firmware # "valid" THEN [f EXCEPT !.context = FALSE, !.contextArmed = FALSE]
      ELSE Mapped(q)

\* The queues that came with it.
ContextRing(r) ==
  IF r.firmware = "valid" /\ r.queues THEN <<ring, air, card>>
  ELSE IF image \in Blobs THEN <<EmptyRing, <<>>, [card EXCEPT !.owed = <<>>]>>
  ELSE <<FoundRing, air, card>>

ContextProbe ==
  LET r == ContextInfo(radio)
  IN  /\ At("context", "start")
      /\ radio' = [r EXCEPT !.contextArmed = @ \/ (r.context /\ r.queuesArmed)]
      /\ ring' = ContextRing(radio)[1] /\ air' = ContextRing(radio)[2]
      /\ card' = ContextRing(radio)[3]
      /\ Ends(r.context /\ r.queuesArmed)
      /\ UNCHANGED <<image, calls>>

\* wifi_stage_command_payload, wifi_prepare_scheduler_command: the slot of cmd_write_ptr.
Staged(r) == IF r.context THEN r ELSE ContextInfo(r)
StagedRing(r) == IF r.context THEN <<ring, air, card>> ELSE ContextRing(r)

SchedulerProbe ==
  LET r == Staged(radio)
      q == StagedRing(radio)
  IN  /\ At("scheduler", "start")
      /\ radio' = IF r.context THEN [r EXCEPT !.command = TRUE, !.scheduler = r.contextArmed] ELSE r
      /\ ring' = IF r.context THEN [q[1] EXCEPT !.staged = q[1].write] ELSE q[1]
      /\ air' = q[2] /\ card' = q[3]
      /\ Ends(r.context /\ r.contextArmed)
      /\ UNCHANGED <<image, calls>>

\* wifi_command_probe, wifi_nvm_info_probe up to the doorbell.
Doorbell ==
  \E probe \in {"command", "nvm"} :
    LET again == probe = "command" /\ radio.command
        r == IF again THEN radio ELSE Staged(radio)
        q == IF again THEN <<ring, air, card>> ELSE StagedRing(radio)
        slot == IF again THEN ring.staged ELSE q[1].write
        go == r.context /\ r.contextArmed /\ r.rx
    IN  /\ At(probe, "start")
        /\ radio' = [r EXCEPT !.command = r.context, !.response = FALSE,
                              !.nvm = IF probe = "nvm" THEN FALSE ELSE @]
        /\ ring' = [q[1] EXCEPT !.staged = slot,
                                !.write = IF go THEN (slot + 1) % Entries ELSE @]
        /\ air' = q[2]
        /\ card' = IF go THEN [q[3] EXCEPT !.owed = Append(@, probe)] ELSE q[3]
        /\ IF go THEN Stage("answer") ELSE Failed
        /\ UNCHANGED <<image, calls>>
-----------------------------------------------------------------------------
(* The receive ring.                                                       *)

\* wifi_rx_parse_one: the oldest packet, read pointer advanced.
Parsed == [ring EXCEPT !.read = (@ + 1) % Entries]

\* wifi_scan_parse_rx_mpdu: a beacon's SSID goes to the list.
SsidSeen(aps, p) == IF p = "beacon" THEN {"ssid"} ELSE aps

\* What the packet leaves: an NVM answer, an SSID.
Learned(r, p) == [r EXCEPT !.nvm = @ \/ p = "nvm", !.aps = SsidSeen(@, p)]

\* The next packet, whatever it is, ends the wait.
CommandAnswered ==
  /\ \E probe \in {"command", "nvm"} : At(probe, "answer")
  /\ ring.read # ring.closed
  /\ radio' = [Learned(radio, Head(air)) EXCEPT !.response = TRUE]
  /\ ring' = Parsed /\ air' = Tail(air)
  /\ Passed
  /\ UNCHANGED <<image, card, calls>>

\* WIFI_COMMAND_POLL_LOOPS polls, or the card reports an error.
CommandTimeout ==
  /\ \E probe \in {"command", "nvm"} : At(probe, "answer")
  /\ Failed
  /\ UNCHANGED <<image, radio, ring, card, air, calls>>

\* One packet if there is one.
PollRing ==
  IF ring.read # ring.closed
  THEN radio' = Learned(radio, Head(air)) /\ ring' = Parsed /\ air' = Tail(air)
  ELSE UNCHANGED <<radio, ring, air>>

\* wifi_rx_probe prepares the queues if there are none.
RxProbe ==
  /\ At("rx", "start")
  /\ IF radio.queues THEN PollRing /\ UNCHANGED card
     ELSE /\ radio' = HostQueues(radio) /\ ring' = EmptyRing /\ air' = <<>>
          /\ card' = [card EXCEPT !.owed = <<>>]
  /\ Passed
  /\ UNCHANGED <<image, calls>>

\* wifi_scan_poll only reads a receive path that is up.
ScanPoll ==
  /\ At("poll", "start")
  /\ IF radio.rx THEN PollRing /\ Passed ELSE UNCHANGED <<radio, ring, air>> /\ Failed
  /\ UNCHANGED <<image, card, calls>>

\* wifi_join_has_ssid.
JoinSkipsScan == Head(call.todo) = "scan" /\ Len(call.todo) = 3 /\ radio.aps # {}

\* wifi_scan(1) looks for the firmware first: the armed context it needs is gone.
Scan ==
  /\ At("scan", "start") /\ ~JoinSkipsScan
  /\ radio' = FindFirmware /\ ring' = FoundRing
  /\ Failed
  /\ UNCHANGED <<image, card, air, calls>>

\* So does wifi_connect, which needs the boot, the context and the receive path.
Connect ==
  /\ At("connect", "start")
  /\ radio' = FindFirmware /\ ring' = FoundRing
  /\ Failed
  /\ UNCHANGED <<image, card, air, calls>>

\* wifi_join_scan_until: with the SSID in the list there is no scan.
JoinKnowsSsid ==
  /\ At("scan", "start") /\ JoinSkipsScan
  /\ call' = [Idle EXCEPT !.todo = <<"connect">>]
  /\ UNCHANGED <<image, radio, ring, card, air, calls>>
-----------------------------------------------------------------------------
(* The card.                                                               *)

\* Booted from all its sections it comes alive.
CardAlive ==
  /\ card.sections = Sections /\ ~card.alive /\ radio.boot
  /\ card' = [card EXCEPT !.alive = TRUE]
  /\ UNCHANGED <<image, radio, ring, air, call, calls>>

\* A packet: the answer it owes next, or a beacon; it never fills the ring.
CardDelivers ==
  /\ radio.queues /\ radio.contextArmed /\ (ring.closed + 1) % Entries # ring.read
  /\ ring' = [ring EXCEPT !.closed = (@ + 1) % Entries]
  /\ \/ /\ card.owed # <<>>
        /\ air' = Append(air, Head(card.owed))
        /\ card' = [card EXCEPT !.owed = Tail(@)]
     \/ air' = Append(air, "beacon") /\ UNCHANGED card
  /\ UNCHANGED <<image, radio, call, calls>>
-----------------------------------------------------------------------------
RadioInit ==
  /\ image \in {"none", "file"} \cup Blobs
  /\ radio = Forgotten
  /\ ring = [write |-> 0, staged |-> 0, read |-> 0, closed |-> 0]
  /\ card = [sections |-> 0, alive |-> FALSE, owed |-> <<>>]
  /\ air = <<>> /\ call = Idle /\ calls = 0

Probe ==
  \/ FirmwareProbe \/ ApmProbe \/ Upload \/ BootRelease \/ BootSection \/ AliveProbe
  \/ QueueProbe \/ ContextProbe \/ SchedulerProbe \/ Doorbell \/ CommandAnswered
  \/ CommandTimeout \/ RxProbe \/ ScanPoll \/ Scan \/ Connect \/ JoinKnowsSsid

RadioNext == UserCall \/ Probe \/ CardAlive \/ CardDelivers

RadioSpec == RadioInit /\ [][RadioNext]_radioVars /\ WF_radioVars(Probe)
-----------------------------------------------------------------------------
(* Properties.                                                             *)

\* An armed context stands on everything it was built from: a later probe
\* that prepares a part again (wifi queues, wifi apm, wifi load) disarms it.
ArmedStackIsWhole ==
  radio.contextArmed =>
    /\ radio.context /\ radio.queues /\ radio.queuesArmed /\ radio.boot
    /\ radio.firmware = "valid"

\* While the receive path is up, what lies between rx_read_ptr and the closed
\* index is what the card delivered and nobody read.
RingHoldsUnread ==
  radio.rx => (ring.closed - ring.read) % Entries = Len(air)

\* boot_ready is the report of a boot that loaded every section, and the
\* firmware counts as alive only in such a boot.
BootIsComplete ==
  /\ radio.boot => card.sections = Sections
  /\ radio.alive => radio.boot

\* A command of the terminal ends, whatever the card does: the loops that
\* wait for it are bounded.
CallsEnd == call.todo # <<>> ~> call.todo = <<>>

\* Whatever the user calls and the card does or leaves out, the driver's idea
\* of the card is true: boot, context and ring.
RadioSound == ArmedStackIsWhole /\ RingHoldsUnread /\ BootIsComplete
=============================================================================
