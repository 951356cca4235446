---------------------------- MODULE DeviceProofs ----------------------------
(***************************************************************************)
(* What holds of the device drivers for every size of their rings: the     *)
(* radio's idea of its card is true, the rings of the USB host controller  *)
(* run in step with it, a device that fails leaves the others working, the *)
(* Ethernet rings lose no frame and no buffer, and the disks hold what was *)
(* written as long as they answer in time.                                 *)
(***************************************************************************)
EXTENDS MC_Devices, FiniteSetTheorems, SequenceTheorems, WellFoundedInduction, TLAPS

-----------------------------------------------------------------------------
(* The radio.                                                              *)

RadioFlags ==
  [firmware : {"none", "named", "valid"}, apm : BOOLEAN, boot : BOOLEAN, alive : BOOLEAN,
   queues : BOOLEAN, queuesArmed : BOOLEAN, context : BOOLEAN, contextArmed : BOOLEAN,
   command : BOOLEAN, rx : BOOLEAN, response : BOOLEAN, scheduler : BOOLEAN,
   nvm : BOOLEAN, aps : SUBSET {"ssid"}]

Slots == 0 .. Entries - 1
RingState == [write : Slots, staged : Slots, read : Slots, closed : Slots]
CardState == [sections : 0 .. Sections, alive : BOOLEAN, owed : Seq({"command", "nvm"})]

RadioTypes ==
  /\ image \in {"none", "file"} \cup Blobs
  /\ radio \in RadioFlags /\ ring \in RingState /\ card \in CardState
  /\ air \in Seq({"command", "nvm", "beacon"})
  /\ call = [todo |-> call.todo, stage |-> call.stage, failed |-> call.failed]

\* A part of the stack stands on the one below it.
FlagsStand(r) ==
  /\ r.firmware = "valid" => image \in Blobs
  /\ r.queues <=> r.rx
  /\ r.context => r.queues /\ r.firmware = "valid"
  /\ r.queuesArmed => r.queues /\ r.boot
  /\ r.contextArmed => r.context /\ r.queuesArmed
  /\ r.alive => r.boot

StackStands == FlagsStand(radio)

BootStands == radio.boot => card.sections = Sections

\* A command that waits has what it waits for still before it.
CallStands ==
  /\ call.stage = "load" => ~radio.boot /\ card.sections < Sections
  /\ call.stage = "answer" => radio.rx

RadioInv == RadioTypes /\ StackStands /\ BootStands /\ CallStands /\ RingHoldsUnread

\* One step round a ring, from a place the closed index is n ahead of.
LEMMA RingAdvance ==
  ASSUME NEW a \in Slots, NEW b \in Slots
  PROVE  /\ (a - b) % Entries \in Slots
         /\ (a - b) % Entries = 0 <=> a = b
         /\ (b + 1) % Entries \in Slots
         /\ a # b => (a - ((b + 1) % Entries)) % Entries = ((a - b) % Entries) - 1
         /\ (a + 1) % Entries # b => (((a + 1) % Entries) - b) % Entries = ((a - b) % Entries) + 1
<1>0. Entries \in Nat /\ Entries > 1  BY RadioAssumption
<1>1. \A x \in Slots : x % Entries = x  BY <1>0 DEF Slots
<1>2. \A x \in Slots : (x - Entries) % Entries = x  BY <1>0 DEF Slots
<1>3. Entries % Entries = 0  BY <1>0
<1>4. (a - b) % Entries = IF a >= b THEN a - b ELSE a - b + Entries
  <2>1. CASE a >= b  BY <2>1, <1>1, <1>0 DEF Slots
  <2>2. CASE a < b
    <3>1. a - b + Entries \in Slots  BY <2>2, <1>0 DEF Slots
    <3>2. (a - b + Entries) - Entries = a - b  BY <1>0 DEF Slots
    <3> QED  BY <3>1, <3>2, <2>2, <1>2, <1>0 DEF Slots
  <2> QED  BY <2>1, <2>2, <1>0 DEF Slots
<1> QED  BY <1>0, <1>1, <1>4 DEF Slots

LEMMA RadioStarts == RadioInit => RadioInv
<1> SUFFICES ASSUME RadioInit PROVE RadioInv
  OBVIOUS
<1>1. radio \in RadioFlags /\ FlagsStand(radio)
  BY DEF RadioInit, Forgotten, RadioFlags, FlagsStand
<1>2. ring \in RingState /\ card \in CardState
  BY RadioAssumption DEF RadioInit, RingState, CardState, Slots
<1>3. RadioTypes  BY <1>1, <1>2 DEF RadioInit, RadioTypes, Idle
<1>4. radio.boot = FALSE /\ radio.rx = FALSE /\ call.stage = "start"
  BY DEF RadioInit, Forgotten, Idle
<1> QED  BY <1>1, <1>3, <1>4 DEF RadioInv, StackStands, BootStands, CallStands, RingHoldsUnread

\* Only the firmware is known after a search; all that stood on it is gone.
LEMMA SearchForgets ==
  ASSUME image \in {"none", "file"} \cup Blobs
  PROVE  /\ FindFirmware \in RadioFlags /\ FlagsStand(FindFirmware)
         /\ FindFirmware.boot = FALSE /\ FindFirmware.alive = FALSE /\ FindFirmware.rx = FALSE
         /\ FindFirmware.queues = FALSE /\ FindFirmware.queuesArmed = FALSE
         /\ FindFirmware.context = FALSE /\ FindFirmware.contextArmed = FALSE
         /\ FindFirmware.firmware = "valid" <=> image \in Blobs
<1>1. FoundImage \in {"none", "named", "valid"} /\ (FoundImage = "valid" <=> image \in Blobs)
  BY DEF FoundImage, Blobs
<1>2. FindFirmware = [Forgotten EXCEPT !.firmware = FoundImage]  BY DEF FindFirmware
<1> QED  BY <1>1, <1>2 DEF Forgotten, RadioFlags, FlagsStand

LEMMA WakingKeeps ==
  ASSUME NEW woke \in BOOLEAN, image \in {"none", "file"} \cup Blobs, 
         NEW r, r = Activated(FindFirmware, woke)
  PROVE  /\ r \in RadioFlags /\ FlagsStand(r) /\ r.boot = FALSE /\ r.rx = FALSE
<1>1. FindFirmware \in RadioFlags /\ FlagsStand(FindFirmware)
      /\ FindFirmware.boot = FALSE /\ FindFirmware.rx = FALSE
  BY SearchForgets
<1>2. r = [FindFirmware EXCEPT !.apm = woke]  BY DEF Activated
<1> HIDE DEF FindFirmware
<1>3. r \in RadioFlags  BY <1>1, <1>2 DEF RadioFlags
<1> QED  BY <1>1, <1>2, <1>3 DEF RadioFlags, FlagsStand

\* A search leaves nothing that the ring, the boot or a waiting command is
\* measured by.
LEMMA SearchSound ==
  ASSUME RadioInv, NEW woke \in BOOLEAN,
         radio' = FindFirmware \/ radio' = Activated(FindFirmware, woke),
         ring' = FoundRing, card' \in CardState,
         Passed \/ Failed \/ (Stage("load") /\ card'.sections < Sections /\ call.stage = "start"),
         UNCHANGED <<image, air>>
  PROVE  RadioInv'
<1>0. image \in {"none", "file"} \cup Blobs /\ ring \in RingState  BY DEF RadioInv, RadioTypes
<1>1. radio' \in RadioFlags /\ FlagsStand(radio') /\ radio'.boot = FALSE /\ radio'.rx = FALSE
  BY <1>0, SearchForgets, WakingKeeps
<1>2. ring' \in RingState
  <2>1. 0 \in Slots  BY RadioAssumption DEF Slots
  <2>2. ring' = [ring EXCEPT !.write = 0, !.read = 0]  BY DEF FoundRing
  <2> QED  BY <1>0, <2>1, <2>2 DEF RingState
<1>3. /\ call' = [todo |-> call'.todo, stage |-> call'.stage, failed |-> call'.failed]
      /\ call'.stage \in {"start", "load"}
      /\ call'.stage = "load" => card'.sections < Sections
  BY DEF Passed, Failed, Stage, Idle, RadioInv, RadioTypes
<1>4. RadioTypes'  BY <1>0, <1>1, <1>2, <1>3 DEF RadioTypes, RadioInv
<1>5. StackStands'  BY <1>1, <1>0 DEF StackStands, FlagsStand
<1>6. BootStands' /\ RingHoldsUnread'  BY <1>1 DEF BootStands, RingHoldsUnread
<1>7. CallStands'  BY <1>1, <1>3 DEF CallStands
<1> QED  BY <1>4, <1>5, <1>6, <1>7 DEF RadioInv

LEMMA FirmwareStep == RadioInv /\ FirmwareProbe => RadioInv'
<1> SUFFICES ASSUME RadioInv, FirmwareProbe PROVE RadioInv'
  OBVIOUS
<1>1. card' \in CardState  BY DEF RadioInv, RadioTypes, FirmwareProbe
<1>2. radio' = FindFirmware /\ ring' = FoundRing /\ (Passed \/ Failed) /\ UNCHANGED <<image, air>>
  BY DEF FirmwareProbe, Ends
<1> QED  BY <1>1, <1>2, SearchSound

LEMMA ApmStep == RadioInv /\ (ApmProbe \/ Upload) => RadioInv'
<1> SUFFICES ASSUME RadioInv, ApmProbe \/ Upload PROVE RadioInv'
  OBVIOUS
<1>1. card' \in CardState  BY DEF RadioInv, RadioTypes, ApmProbe, Upload
<1>2. PICK woke \in BOOLEAN : radio' = Activated(FindFirmware, woke)
  BY DEF ApmProbe, Upload
<1>3. ring' = FoundRing /\ (Passed \/ Failed) /\ UNCHANGED <<image, air>>
  BY DEF ApmProbe, Upload, Ends
<1> QED  BY <1>1, <1>2, <1>3, SearchSound

\* The release takes the sections from the card.
LEMMA BootReleaseStep == RadioInv /\ BootRelease => RadioInv'
<1> SUFFICES ASSUME RadioInv, BootRelease PROVE RadioInv'
  OBVIOUS
<1>0. card \in CardState /\ ring' = FoundRing /\ call.stage = "start" /\ UNCHANGED <<image, air>>
  BY DEF RadioInv, RadioTypes, BootRelease, At
<1>1. PICK ok \in BOOLEAN :
        /\ radio' = Activated(FindFirmware, ok)
        /\ IF ok THEN card' = [card EXCEPT !.sections = 0, !.alive = FALSE] /\ Stage("load")
           ELSE UNCHANGED card /\ Failed
  BY DEF BootRelease
<1>2. CASE ok
  <2>1. card' \in CardState /\ card'.sections < Sections
    <3>1. card' = [card EXCEPT !.sections = 0, !.alive = FALSE]  BY <1>1, <1>2
    <3>2. 0 \in 0 .. Sections /\ 0 < Sections  BY RadioAssumption
    <3> QED  BY <1>0, <3>1, <3>2 DEF CardState
  <2>2. Stage("load")  BY <1>1, <1>2
  <2> QED  BY <1>0, <1>1, <2>1, <2>2, SearchSound
<1>3. CASE ~ok  BY <1>0, <1>1, <1>3, SearchSound
<1> QED  BY <1>2, <1>3

\* The last section makes the boot, if it came over.
LEMMA BootSectionStep == RadioInv /\ BootSection => RadioInv'
<1> SUFFICES ASSUME RadioInv, BootSection PROVE RadioInv'
  OBVIOUS
<1>0. /\ card \in CardState /\ card.sections < Sections /\ radio.boot = FALSE
      /\ radio \in RadioFlags /\ FlagsStand(radio)
      /\ UNCHANGED <<image, ring, air>>
  BY DEF RadioInv, RadioTypes, StackStands, CallStands, BootSection, At
<1>1. PICK ok \in BOOLEAN :
        /\ card' = Transferred(ok)
        /\ IF card.sections < Sections - 1 /\ ok THEN Stage("load") /\ UNCHANGED radio
           ELSE radio' = [radio EXCEPT !.boot = ok] /\ Ends(ok)
  BY DEF BootSection
<1>2. card' \in CardState /\ card'.sections = IF ok THEN card.sections + 1 ELSE card.sections
  <2>1. CASE ok
    <3>1. card' = [card EXCEPT !.sections = card.sections + 1]  BY <1>1, <2>1 DEF Transferred
    <3>2. card.sections + 1 \in 0 .. Sections  BY <1>0, RadioAssumption DEF CardState
    <3> QED  BY <3>1, <3>2, <2>1, <1>0 DEF CardState
  <2>2. CASE ~ok
    <3>1. card' = [card EXCEPT !.sections = card.sections]  BY <1>1, <2>2 DEF Transferred
    <3> QED  BY <3>1, <2>2, <1>0 DEF CardState
  <2> QED  BY <2>1, <2>2
<1>3. CASE card.sections < Sections - 1 /\ ok
  <2>1. call' = [todo |-> call'.todo, stage |-> call'.stage, failed |-> call'.failed] /\ call'.stage = "load"
    BY <1>1, <1>3 DEF Stage, RadioInv, RadioTypes
  <2>2. card'.sections < Sections  BY <1>0, <1>2, <1>3, RadioAssumption DEF CardState
  <2> QED
    BY <2>1, <2>2, <1>0, <1>1, <1>2, <1>3
       DEF RadioInv, RadioTypes, StackStands, FlagsStand, BootStands, CallStands, RingHoldsUnread
<1>4. CASE ~(card.sections < Sections - 1 /\ ok)
  <2>1. radio' = [radio EXCEPT !.boot = ok] /\ Ends(ok)  BY <1>1, <1>4
  <2>2. call' = [todo |-> call'.todo, stage |-> call'.stage, failed |-> call'.failed] /\ call'.stage = "start"
    BY <2>1 DEF Ends, Passed, Failed, Idle
  <2>3. radio' \in RadioFlags /\ FlagsStand(radio') /\ radio'.boot = ok /\ radio'.rx = radio.rx
    BY <2>1, <1>0 DEF RadioFlags, FlagsStand
  <2>4. ok => card'.sections = Sections  BY <1>0, <1>2, <1>4, RadioAssumption DEF CardState
  <2>5. RadioTypes'  BY <2>2, <2>3, <1>0, <1>2 DEF RadioInv, RadioTypes
  <2>6. StackStands'  BY <2>3, <1>0 DEF StackStands, FlagsStand
  <2>7. RingHoldsUnread'  BY <2>3, <1>0 DEF RadioInv, RingHoldsUnread
  <2> QED  BY <2>2, <2>3, <2>4, <2>5, <2>6, <2>7 DEF RadioInv, BootStands, CallStands
<1> QED  BY <1>3, <1>4

\* The interrupt is only believed in a boot that is complete.
LEMMA AliveStep == RadioInv /\ AliveProbe => RadioInv'
<1> SUFFICES ASSUME RadioInv, AliveProbe PROVE RadioInv'
  OBVIOUS
<1>0. /\ card \in CardState /\ radio \in RadioFlags /\ FlagsStand(radio)
      /\ UNCHANGED <<image, air>>
  BY DEF RadioInv, RadioTypes, StackStands, AliveProbe
<1>1. CASE radio.firmware = "none"
  <2>1. card' \in CardState  BY <1>0, <1>1 DEF AliveProbe
  <2>2. radio' = FindFirmware /\ ring' = FoundRing /\ Failed  BY <1>1 DEF AliveProbe
  <2> QED  BY <1>0, <2>1, <2>2, SearchSound
<1>2. CASE radio.firmware # "none"
  <2>0. UNCHANGED ring /\ (Passed \/ Failed)  BY <1>2 DEF AliveProbe
  <2>1. PICK alive \in BOOLEAN, apm \in BOOLEAN :
          /\ radio' = [radio EXCEPT !.alive = alive, !.apm = apm]
          /\ alive => radio.boot
    <3>1. CASE radio.boot /\ card.alive /\ radio' = [radio EXCEPT !.alive = TRUE, !.apm = TRUE]
      BY <3>1
    <3>2. CASE radio' = [radio EXCEPT !.alive = IF radio.boot /\ radio.apm THEN FALSE ELSE @]
      <4> DEFINE a == IF radio.boot /\ radio.apm THEN FALSE ELSE radio.alive
      <4>1. radio' = [radio EXCEPT !.alive = a, !.apm = radio.apm]
        BY <3>2, <1>0 DEF RadioFlags
      <4>2. a \in BOOLEAN /\ radio.apm \in BOOLEAN /\ (a => radio.boot)
        BY <1>0 DEF RadioFlags, FlagsStand
      <4> HIDE DEF a
      <4> QED  BY <4>1, <4>2
    <3> QED  BY <3>1, <3>2, <1>2 DEF AliveProbe
  <2>2. card' \in CardState /\ card'.sections = card.sections
    <3>1. CASE card' = [card EXCEPT !.alive = FALSE]  BY <3>1, <1>0 DEF CardState
    <3>2. CASE UNCHANGED card  BY <3>2, <1>0
    <3> QED  BY <3>1, <3>2, <1>2 DEF AliveProbe
  <2>3. radio' \in RadioFlags /\ FlagsStand(radio') /\ radio'.boot = radio.boot /\ radio'.rx = radio.rx
    BY <2>1, <1>0 DEF RadioFlags, FlagsStand
  <2>4. call' = [todo |-> call'.todo, stage |-> call'.stage, failed |-> call'.failed] /\ call'.stage = "start"
    BY <2>0 DEF Passed, Failed, Idle
  <2>5. RadioTypes'  BY <1>0, <2>0, <2>2, <2>3, <2>4 DEF RadioInv, RadioTypes
  <2>6. StackStands'  BY <1>0, <2>3 DEF StackStands, FlagsStand
  <2>7. RingHoldsUnread'  BY <1>0, <2>0, <2>3 DEF RadioInv, RingHoldsUnread
  <2> QED  BY <2>2, <2>3, <2>4, <2>5, <2>6, <2>7 DEF RadioInv, BootStands, CallStands
<1> QED  BY <1>1, <1>2

\* New queues: nothing stands on them yet, and the ring is empty.
LEMMA NewQueues ==
  ASSUME NEW r \in RadioFlags, FlagsStand(r), NEW q, q = HostQueues(r)
  PROVE  /\ q \in RadioFlags /\ FlagsStand(q)
         /\ q.boot = r.boot /\ q.firmware = r.firmware /\ q.queues = TRUE /\ q.rx = TRUE
         /\ q.context = FALSE /\ q.queuesArmed = FALSE /\ q.contextArmed = FALSE
         /\ q.alive = r.alive
<1>1. /\ r.firmware \in {"none", "named", "valid"}
      /\ r.apm \in BOOLEAN /\ r.boot \in BOOLEAN /\ r.alive \in BOOLEAN
  BY DEF RadioFlags
<1>2. q = [firmware |-> r.firmware, apm |-> r.apm, boot |-> r.boot, alive |-> r.alive,
           queues |-> TRUE, queuesArmed |-> FALSE, context |-> FALSE, contextArmed |-> FALSE,
           command |-> FALSE, rx |-> TRUE, response |-> FALSE, scheduler |-> FALSE,
           nvm |-> FALSE, aps |-> {}]
  BY DEF HostQueues, Forgotten
<1>3. q \in RadioFlags  BY <1>1, <1>2 DEF RadioFlags
<1> QED  BY <1>2, <1>3 DEF FlagsStand

LEMMA EmptyRingIsOne ==
  ASSUME ring \in RingState
  PROVE  /\ EmptyRing \in RingState
         /\ (EmptyRing.closed - EmptyRing.read) % Entries = 0
<1>1. 0 \in Slots /\ (0 - 0) % Entries = 0  BY RadioAssumption DEF Slots
<1>2. EmptyRing \in RingState /\ EmptyRing.closed = 0 /\ EmptyRing.read = 0
  BY <1>1 DEF EmptyRing, RingState
<1> QED  BY <1>1, <1>2

LEMMA FoundRingIsOne ==
  ASSUME ring \in RingState
  PROVE  FoundRing \in RingState
<1>1. 0 \in Slots  BY RadioAssumption DEF Slots
<1> QED  BY <1>1 DEF FoundRing, RingState

\* What a step that prepares must leave: flags r, ring, packets and card q.
Prepares(r, g, a, c) ==
  /\ r \in RadioFlags /\ FlagsStand(r) /\ g \in RingState
  /\ a \in Seq({"command", "nvm", "beacon"}) /\ c \in CardState
  /\ c.sections = card.sections /\ (r.boot => radio.boot)
  /\ r.rx => (g.closed - g.read) % Entries = Len(a)

\* Whether the sections have their place or not, the other flags stay.
LEMMA MappedStands ==
  ASSUME NEW h \in RadioFlags, FlagsStand(h), h.firmware = "valid", h.queues
  PROVE  /\ Mapped(h) \in RadioFlags /\ FlagsStand(Mapped(h))
         /\ Mapped(h).boot = h.boot /\ Mapped(h).rx = h.rx
<1>1. CASE image = "large"
  <2>1. Mapped(h) = [h EXCEPT !.context = FALSE, !.contextArmed = FALSE]  BY <1>1 DEF Mapped
  <2> QED  BY <2>1 DEF RadioFlags, FlagsStand
<1>2. CASE image # "large"
  <2>1. Mapped(h) = [h EXCEPT !.context = TRUE]  BY <1>2 DEF Mapped
  <2> QED  BY <2>1 DEF RadioFlags, FlagsStand
<1> QED  BY <1>1, <1>2

\* A context is built on queues that are there, or on new ones.
LEMMA ContextPrepares ==
  ASSUME RadioInv, NEW r, r = ContextInfo(radio), NEW q, q = ContextRing(radio)
  PROVE  Prepares(r, q[1], q[2], q[3])
<1>0. /\ radio \in RadioFlags /\ FlagsStand(radio) /\ ring \in RingState /\ card \in CardState
      /\ air \in Seq({"command", "nvm", "beacon"})
      /\ image \in {"none", "file"} \cup Blobs /\ RingHoldsUnread
  BY DEF RadioInv, RadioTypes, StackStands
<1>f. /\ FindFirmware \in RadioFlags /\ FlagsStand(FindFirmware)
      /\ FindFirmware.boot = FALSE /\ FindFirmware.rx = FALSE /\ FindFirmware.queues = FALSE
      /\ FindFirmware.firmware = "valid" <=> image \in Blobs
  BY <1>0, SearchForgets
<1>1. CASE radio.firmware = "valid" /\ radio.queues
  <2>1. r = Mapped(radio)  BY <1>1 DEF ContextInfo
  <2>2. q[1] = ring /\ q[2] = air /\ q[3] = card
    <3>2. q = <<ring, air, card>>  BY <1>1 DEF ContextRing
    <3> QED  BY <3>2
  <2>3. r \in RadioFlags /\ FlagsStand(r) /\ r.boot = radio.boot /\ r.rx = radio.rx
    BY <1>0, <1>1, <2>1, MappedStands
  <2> QED  BY <2>2, <2>3, <1>0 DEF Prepares, RingHoldsUnread
<1>2. CASE ~(radio.firmware = "valid" /\ radio.queues) /\ image \in Blobs
  <2>1. PICK f : /\ f \in RadioFlags /\ FlagsStand(f) /\ f.firmware = "valid" /\ (f.boot => radio.boot)
                 /\ r = Mapped(HostQueues(f))
    <3>1. CASE radio.firmware = "valid"
      BY <3>1, <1>2, <1>0 DEF ContextInfo
    <3>2. CASE radio.firmware # "valid"
      <4>1. r = Mapped(HostQueues(FindFirmware))
        BY <3>2, <1>2, <1>f DEF ContextInfo
      <4> QED  BY <4>1, <1>f, <1>2
    <3> QED  BY <3>1, <3>2
  <2> DEFINE h == HostQueues(f)
  <2>2. /\ h \in RadioFlags /\ FlagsStand(h) /\ h.boot = f.boot /\ h.firmware = "valid"
        /\ h.queues = TRUE /\ h.rx = TRUE
    BY <2>1, NewQueues
  <2>3. r = Mapped(h)  BY <2>1
  <2> HIDE DEF h
  <2>4. r \in RadioFlags /\ FlagsStand(r) /\ r.boot = f.boot
    BY <2>2, <2>3, MappedStands
  <2>5. q[1] = EmptyRing /\ q[2] = <<>> /\ q[3] = [card EXCEPT !.owed = <<>>]
    BY <1>2 DEF ContextRing
  <2>6. q[3] \in CardState /\ q[3].sections = card.sections
    <3>1. <<>> \in Seq({"command", "nvm"})  OBVIOUS
    <3> QED  BY <2>5, <3>1, <1>0 DEF CardState
  <2>7. q[1] \in RingState /\ (q[1].closed - q[1].read) % Entries = 0
    BY <2>5, <1>0, EmptyRingIsOne
  <2> QED  BY <2>1, <2>4, <2>5, <2>6, <2>7 DEF Prepares
<1>3. CASE ~(radio.firmware = "valid" /\ radio.queues) /\ image \notin Blobs
  <2>1. r = [FindFirmware EXCEPT !.context = FALSE, !.contextArmed = FALSE]
    BY <1>3, <1>0, <1>f DEF ContextInfo, FlagsStand
  <2>2. q[1] = FoundRing /\ q[2] = air /\ q[3] = card  BY <1>3 DEF ContextRing
  <2>3. r \in RadioFlags /\ FlagsStand(r) /\ r.boot = FALSE /\ r.rx = FALSE
    <3> HIDE DEF FindFirmware
    <3> QED  BY <2>1, <1>f DEF RadioFlags, FlagsStand
  <2> QED  BY <2>2, <2>3, <1>0, FoundRingIsOne DEF Prepares
<1> QED  BY <1>1, <1>2, <1>3

\* Flags that only say what was staged, answered or learned carry nothing.
LEMMA NotesKeep ==
  ASSUME NEW r \in RadioFlags, FlagsStand(r), NEW s \in RadioFlags,
         s.firmware = r.firmware, s.boot = r.boot, s.alive = r.alive,
         s.queues = r.queues, s.queuesArmed = r.queuesArmed, s.context = r.context,
         s.contextArmed = r.contextArmed, s.rx = r.rx
  PROVE  FlagsStand(s)
BY DEF FlagsStand

\* A probe that prepares and ends, or waits for an answer in a ring that is up.
LEMMA PreparedSound ==
  ASSUME RadioInv, Prepares(radio', ring', air', card'),
         Passed \/ Failed \/ (Stage("answer") /\ radio'.rx),
         UNCHANGED image
  PROVE  RadioInv'
<1>1. /\ call' = [todo |-> call'.todo, stage |-> call'.stage, failed |-> call'.failed]
      /\ call'.stage \in {"start", "answer"} /\ (call'.stage = "answer" => radio'.rx)
  BY DEF Passed, Failed, Stage, Idle, RadioInv, RadioTypes
<1>2. RadioTypes'  BY <1>1 DEF Prepares, RadioTypes, RadioInv
<1>3. StackStands'  BY DEF Prepares, StackStands, FlagsStand
<1>4. BootStands'  BY DEF Prepares, RadioInv, BootStands
<1>5. RingHoldsUnread'  BY DEF Prepares, RingHoldsUnread
<1> QED  BY <1>1, <1>2, <1>3, <1>4, <1>5 DEF RadioInv, CallStands

\* The ring as it is, under flags that stand.
LEMMA StandsPrepared == RadioInv => Prepares(radio, ring, air, card)
BY DEF RadioInv, RadioTypes, StackStands, RingHoldsUnread, Prepares

LEMMA StagedPrepares ==
  ASSUME RadioInv
  PROVE  Prepares(Staged(radio), StagedRing(radio)[1], StagedRing(radio)[2], StagedRing(radio)[3])
<1>1. CASE radio.context
  BY <1>1, StandsPrepared DEF Staged, StagedRing
<1>2. CASE ~radio.context
  <2>1. Staged(radio) = ContextInfo(radio) /\ StagedRing(radio) = ContextRing(radio)
    BY <1>2 DEF Staged, StagedRing
  <2> QED  BY <2>1, ContextPrepares
<1> QED  BY <1>1, <1>2

LEMMA QueueStep == RadioInv /\ QueueProbe => RadioInv'
<1> SUFFICES ASSUME RadioInv, QueueProbe PROVE RadioInv'
  OBVIOUS
<1>0. /\ radio \in RadioFlags /\ FlagsStand(radio) /\ ring \in RingState /\ card \in CardState
  BY DEF RadioInv, RadioTypes, StackStands
<1> DEFINE h == HostQueues(radio)
<1>1. /\ h \in RadioFlags /\ FlagsStand(h) /\ h.boot = radio.boot /\ h.queues = TRUE /\ h.rx = TRUE
      /\ h.context = FALSE /\ h.contextArmed = FALSE
  BY <1>0, NewQueues
<1>2. radio' = [h EXCEPT !.queuesArmed = radio.boot]  BY DEF QueueProbe
<1> HIDE DEF h
<1>3. radio' \in RadioFlags /\ FlagsStand(radio') /\ radio'.boot = radio.boot
  BY <1>0, <1>1, <1>2 DEF RadioFlags, FlagsStand
<1>4. card' \in CardState /\ card'.sections = card.sections
  <2>1. <<>> \in Seq({"command", "nvm"}) /\ card' = [card EXCEPT !.owed = <<>>]
    BY DEF QueueProbe
  <2> QED  BY <2>1, <1>0 DEF CardState
<1>5. ring' \in RingState /\ (ring'.closed - ring'.read) % Entries = 0
  BY <1>0, EmptyRingIsOne DEF QueueProbe
<1>6. air' = <<>> /\ UNCHANGED image /\ (Passed \/ Failed)  BY DEF QueueProbe, Ends
<1>7. Prepares(radio', ring', air', card')  BY <1>3, <1>4, <1>5, <1>6 DEF Prepares
<1> QED  BY <1>6, <1>7, PreparedSound

LEMMA ContextStep == RadioInv /\ ContextProbe => RadioInv'
<1> SUFFICES ASSUME RadioInv, ContextProbe PROVE RadioInv'
  OBVIOUS
<1> DEFINE r == ContextInfo(radio)
           q == ContextRing(radio)
<1>1. Prepares(r, q[1], q[2], q[3])  BY ContextPrepares
<1>2. /\ radio' = [r EXCEPT !.contextArmed = @ \/ (r.context /\ r.queuesArmed)]
      /\ ring' = q[1] /\ air' = q[2] /\ card' = q[3] /\ (Passed \/ Failed) /\ UNCHANGED image
  BY DEF ContextProbe, Ends
<1> HIDE DEF r, q
<1>3. /\ radio' \in RadioFlags /\ FlagsStand(radio') /\ radio'.boot = r.boot /\ radio'.rx = r.rx
  BY <1>1, <1>2 DEF Prepares, RadioFlags, FlagsStand
<1>4. Prepares(radio', ring', air', card')  BY <1>1, <1>2, <1>3 DEF Prepares
<1> QED  BY <1>2, <1>4, PreparedSound

LEMMA SchedulerStep == RadioInv /\ SchedulerProbe => RadioInv'
<1> SUFFICES ASSUME RadioInv, SchedulerProbe PROVE RadioInv'
  OBVIOUS
<1> DEFINE r == Staged(radio)
           q == StagedRing(radio)
<1>1. Prepares(r, q[1], q[2], q[3])  BY StagedPrepares
<1>2. /\ radio' = IF r.context THEN [r EXCEPT !.command = TRUE, !.scheduler = r.contextArmed] ELSE r
      /\ ring' = IF r.context THEN [q[1] EXCEPT !.staged = q[1].write] ELSE q[1]
      /\ air' = q[2] /\ card' = q[3] /\ (Passed \/ Failed) /\ UNCHANGED image
  BY DEF SchedulerProbe, Ends
<1> HIDE DEF r, q
<1>3. /\ radio' \in RadioFlags /\ FlagsStand(radio') /\ radio'.boot = r.boot /\ radio'.rx = r.rx
  BY <1>1, <1>2 DEF Prepares, RadioFlags, FlagsStand
<1>4. ring' \in RingState /\ ring'.closed = q[1].closed /\ ring'.read = q[1].read
  BY <1>1, <1>2 DEF Prepares, RingState
<1>5. Prepares(radio', ring', air', card')  BY <1>1, <1>2, <1>3, <1>4 DEF Prepares
<1> QED  BY <1>2, <1>5, PreparedSound

LEMMA DoorbellStep == RadioInv /\ Doorbell => RadioInv'
<1> SUFFICES ASSUME RadioInv, Doorbell PROVE RadioInv'
  OBVIOUS
<1>0. PICK probe \in {"command", "nvm"} :
        LET again == probe = "command" /\ radio.command
            r == IF again THEN radio ELSE Staged(radio)
            q == IF again THEN <<ring, air, card>> ELSE StagedRing(radio)
            slot == IF again THEN ring.staged ELSE q[1].write
            go == r.context /\ r.contextArmed /\ r.rx
        IN  /\ radio' = [r EXCEPT !.command = r.context, !.response = FALSE,
                                  !.nvm = IF probe = "nvm" THEN FALSE ELSE @]
            /\ ring' = [q[1] EXCEPT !.staged = slot,
                                    !.write = IF go THEN (slot + 1) % Entries ELSE @]
            /\ air' = q[2]
            /\ card' = IF go THEN [q[3] EXCEPT !.owed = Append(@, probe)] ELSE q[3]
            /\ IF go THEN Stage("answer") ELSE Failed
            /\ UNCHANGED image
  BY DEF Doorbell
<1>1. PICK r, q, slot, go :
        /\ Prepares(r, q[1], q[2], q[3]) /\ slot \in Slots
        /\ go => r.rx
        /\ radio' = [r EXCEPT !.command = r.context, !.response = FALSE,
                              !.nvm = IF probe = "nvm" THEN FALSE ELSE @]
        /\ ring' = [q[1] EXCEPT !.staged = slot,
                                !.write = IF go THEN (slot + 1) % Entries ELSE @]
        /\ air' = q[2]
        /\ card' = IF go THEN [q[3] EXCEPT !.owed = Append(@, probe)] ELSE q[3]
        /\ IF go THEN Stage("answer") ELSE Failed
        /\ UNCHANGED image
  <2> DEFINE again == probe = "command" /\ radio.command
             r == IF again THEN radio ELSE Staged(radio)
             q == IF again THEN <<ring, air, card>> ELSE StagedRing(radio)
             slot == IF again THEN ring.staged ELSE q[1].write
             go == r.context /\ r.contextArmed /\ r.rx
  <2>2. Prepares(r, q[1], q[2], q[3])  BY StandsPrepared, StagedPrepares
  <2>3. slot \in Slots
    <3>1. ring.staged \in Slots /\ q[1].write \in Slots
      BY <2>2 DEF Prepares, RingState, RadioInv, RadioTypes
    <3> QED  BY <3>1
  <2>4. go => r.rx  OBVIOUS
  <2>5. /\ radio' = [r EXCEPT !.command = r.context, !.response = FALSE,
                              !.nvm = IF probe = "nvm" THEN FALSE ELSE @]
        /\ ring' = [q[1] EXCEPT !.staged = slot,
                                !.write = IF go THEN (slot + 1) % Entries ELSE @]
        /\ air' = q[2]
        /\ card' = IF go THEN [q[3] EXCEPT !.owed = Append(@, probe)] ELSE q[3]
        /\ IF go THEN Stage("answer") ELSE Failed
        /\ UNCHANGED image
    BY <1>0
  <2> HIDE DEF r, q, slot, go
  <2> QED  BY <2>2, <2>3, <2>4, <2>5
<1>2. radio' \in RadioFlags /\ FlagsStand(radio') /\ radio'.boot = r.boot /\ radio'.rx = r.rx
  <2>1. PICK c \in BOOLEAN, n \in BOOLEAN : radio' = [r EXCEPT !.command = c, !.response = FALSE, !.nvm = n]
    <3>1. r.context \in BOOLEAN /\ r.nvm \in BOOLEAN  BY <1>1 DEF Prepares, RadioFlags
    <3>2. CASE probe = "nvm"  BY <1>1, <3>1, <3>2
    <3>3. CASE probe # "nvm"  BY <1>1, <3>1, <3>3
    <3> QED  BY <3>2, <3>3
  <2> QED  BY <1>1, <2>1 DEF Prepares, RadioFlags, FlagsStand
<1>3. ring' \in RingState /\ ring'.closed = q[1].closed /\ ring'.read = q[1].read
  <2> DEFINE w == IF go THEN (slot + 1) % Entries ELSE q[1].write
  <2>1. q[1] \in RingState  BY <1>1 DEF Prepares
  <2>2. (slot + 1) % Entries \in Slots  BY <1>1, RingAdvance
  <2>3. w \in Slots  BY <2>1, <2>2 DEF RingState
  <2>4. ring' = [q[1] EXCEPT !.staged = slot, !.write = w]  BY <1>1
  <2> HIDE DEF w
  <2> QED  BY <2>1, <2>3, <2>4, <1>1 DEF RingState
<1>4. card' \in CardState /\ card'.sections = card.sections
  <2>1. q[3] \in CardState /\ q[3].sections = card.sections  BY <1>1 DEF Prepares
  <2>2. CASE go
    <3>1. Append(q[3].owed, probe) \in Seq({"command", "nvm"})  BY <2>1, <1>1 DEF CardState
    <3>2. card' = [q[3] EXCEPT !.owed = Append(q[3].owed, probe)]  BY <1>1, <2>2
    <3> QED  BY <2>1, <3>1, <3>2 DEF CardState
  <2>3. CASE ~go  BY <1>1, <2>1, <2>3
  <2> QED  BY <2>2, <2>3
<1>5. Prepares(radio', ring', air', card')  BY <1>1, <1>2, <1>3, <1>4 DEF Prepares
<1>6. Failed \/ (Stage("answer") /\ radio'.rx)  BY <1>1, <1>2
<1> QED  BY <1>1, <1>5, <1>6, PreparedSound

\* One packet less, and the pointer one further.
LEMMA ParsingPrepares ==
  ASSUME RadioInv, radio.rx, ring.read # ring.closed,
         radio' = Learned(radio, Head(air)) \/ radio' = [Learned(radio, Head(air)) EXCEPT !.response = TRUE],
         ring' = Parsed, air' = Tail(air), UNCHANGED card
  PROVE  Prepares(radio', ring', air', card')
<1>0. /\ radio \in RadioFlags /\ FlagsStand(radio) /\ ring \in RingState /\ card \in CardState
      /\ air \in Seq({"command", "nvm", "beacon"})
      /\ (ring.closed - ring.read) % Entries = Len(air)
  BY DEF RadioInv, RadioTypes, StackStands, RingHoldsUnread
<1>1. ring.read \in Slots /\ ring.closed \in Slots  BY <1>0 DEF RingState
<1>2. /\ (ring.closed - ring.read) % Entries \in Slots
      /\ (ring.closed - ring.read) % Entries = 0 <=> ring.closed = ring.read
      /\ (ring.read + 1) % Entries \in Slots
      /\ (ring.closed - ((ring.read + 1) % Entries)) % Entries = ((ring.closed - ring.read) % Entries) - 1
  BY <1>1, RingAdvance
<1>3. air # <<>>  BY <1>0, <1>2
<1>4. air' \in Seq({"command", "nvm", "beacon"}) /\ Len(air') = Len(air) - 1
  BY <1>0, <1>3, HeadTailProperties
<1>5. ring' \in RingState /\ ring'.closed = ring.closed /\ ring'.read = (ring.read + 1) % Entries
  <2>1. ring' = [ring EXCEPT !.read = (ring.read + 1) % Entries]  BY DEF Parsed
  <2> QED  BY <2>1, <1>0, <1>2 DEF RingState
<1>6. radio' \in RadioFlags /\ FlagsStand(radio') /\ radio'.boot = radio.boot
  <2> DEFINE n == radio.nvm \/ Head(air) = "nvm"
             s == SsidSeen(radio.aps, Head(air))
             l == [radio EXCEPT !.nvm = n, !.aps = s]
  <2>1. n \in BOOLEAN /\ s \in SUBSET {"ssid"}  BY <1>0 DEF SsidSeen, RadioFlags
  <2>2. Learned(radio, Head(air)) = l  BY DEF Learned
  <2>3. radio' = l \/ radio' = [l EXCEPT !.response = TRUE]  BY <2>2
  <2> HIDE DEF n, s
  <2>4. l \in RadioFlags /\ FlagsStand(l) /\ l.boot = radio.boot
    BY <2>1, <1>0 DEF RadioFlags, FlagsStand
  <2> HIDE DEF l
  <2>5. CASE radio' = l  BY <2>4, <2>5, <1>0 DEF FlagsStand
  <2>6. CASE radio' = [l EXCEPT !.response = TRUE]
    BY <2>4, <2>6, <1>0 DEF RadioFlags, FlagsStand
  <2> QED  BY <2>3, <2>5, <2>6
<1>7. (ring'.closed - ring'.read) % Entries = Len(air')
  <2>1. ring'.closed - ring'.read = ring.closed - ((ring.read + 1) % Entries)  BY <1>5
  <2>2. (ring'.closed - ring'.read) % Entries = ((ring.closed - ring.read) % Entries) - 1
    BY <2>1, <1>1, <1>2, <1>3, <1>0
  <2> QED  BY <1>0, <1>4, <2>2
<1> QED  BY <1>0, <1>4, <1>5, <1>6, <1>7 DEF Prepares

LEMMA AnswerStep == RadioInv /\ (CommandAnswered \/ CommandTimeout) => RadioInv'
<1> SUFFICES ASSUME RadioInv, CommandAnswered \/ CommandTimeout PROVE RadioInv'
  OBVIOUS
<1>1. CASE CommandAnswered
  <2>1. radio.rx  BY <1>1 DEF CommandAnswered, At, RadioInv, CallStands
  <2>2. /\ ring.read # ring.closed /\ radio' = [Learned(radio, Head(air)) EXCEPT !.response = TRUE]
        /\ ring' = Parsed /\ air' = Tail(air) /\ UNCHANGED card /\ Passed /\ UNCHANGED image
    BY <1>1 DEF CommandAnswered
  <2>3. Prepares(radio', ring', air', card')  BY <2>1, <2>2, ParsingPrepares
  <2> QED  BY <2>2, <2>3, PreparedSound
<1>2. CASE CommandTimeout
  <2>1. Prepares(radio', ring', air', card')
    BY <1>2, StandsPrepared DEF CommandTimeout, Prepares
  <2>2. Failed /\ UNCHANGED image  BY <1>2 DEF CommandTimeout
  <2> QED  BY <2>1, <2>2, PreparedSound
<1> QED  BY <1>1, <1>2

LEMMA PollPrepares ==
  ASSUME RadioInv, radio.rx, PollRing, UNCHANGED card
  PROVE  Prepares(radio', ring', air', card')
<1>1. CASE ring.read # ring.closed
  <2>1. radio' = Learned(radio, Head(air)) /\ ring' = Parsed /\ air' = Tail(air)
    BY <1>1 DEF PollRing
  <2> QED  BY <1>1, <2>1, ParsingPrepares
<1>2. CASE ring.read = ring.closed
  BY <1>2, StandsPrepared DEF PollRing, Prepares
<1> QED  BY <1>1, <1>2

LEMMA PollStep == RadioInv /\ (RxProbe \/ ScanPoll) => RadioInv'
<1> SUFFICES ASSUME RadioInv, RxProbe \/ ScanPoll PROVE RadioInv'
  OBVIOUS
<1>0. /\ radio \in RadioFlags /\ FlagsStand(radio) /\ ring \in RingState /\ card \in CardState
  BY DEF RadioInv, RadioTypes, StackStands
<1>1. CASE RxProbe /\ radio.queues
  <2>1. radio.rx /\ PollRing /\ UNCHANGED card /\ Passed /\ UNCHANGED image
    BY <1>0, <1>1 DEF RxProbe, FlagsStand
  <2> QED  BY <2>1, PollPrepares, PreparedSound
<1>2. CASE RxProbe /\ ~radio.queues
  <2>1. /\ radio' = HostQueues(radio) /\ ring' = EmptyRing /\ air' = <<>>
        /\ card' = [card EXCEPT !.owed = <<>>] /\ Passed /\ UNCHANGED image
    BY <1>2 DEF RxProbe
  <2>2. radio' \in RadioFlags /\ FlagsStand(radio') /\ radio'.boot = radio.boot
    BY <1>0, <2>1, NewQueues
  <2>3. card' \in CardState /\ card'.sections = card.sections
    <3>1. <<>> \in Seq({"command", "nvm"})  OBVIOUS
    <3> QED  BY <2>1, <3>1, <1>0 DEF CardState
  <2>4. ring' \in RingState /\ (ring'.closed - ring'.read) % Entries = 0
    BY <2>1, <1>0, EmptyRingIsOne
  <2>5. Prepares(radio', ring', air', card')  BY <2>1, <2>2, <2>3, <2>4 DEF Prepares
  <2> QED  BY <2>1, <2>5, PreparedSound
<1>3. CASE ScanPoll /\ radio.rx
  <2>1. PollRing /\ UNCHANGED card /\ Passed /\ UNCHANGED image  BY <1>3 DEF ScanPoll
  <2> QED  BY <1>3, <2>1, PollPrepares, PreparedSound
<1>4. CASE ScanPoll /\ ~radio.rx
  <2>1. Prepares(radio', ring', air', card')
    BY <1>4, StandsPrepared DEF ScanPoll, Prepares
  <2>2. Failed /\ UNCHANGED image  BY <1>4 DEF ScanPoll
  <2> QED  BY <2>1, <2>2, PreparedSound
<1> QED  BY <1>1, <1>2, <1>3, <1>4

LEMMA ScanStep == RadioInv /\ (Scan \/ Connect) => RadioInv'
<1> SUFFICES ASSUME RadioInv, Scan \/ Connect PROVE RadioInv'
  OBVIOUS
<1>1. card' \in CardState  BY DEF RadioInv, RadioTypes, Scan, Connect
<1>2. radio' = FindFirmware /\ ring' = FoundRing /\ Failed /\ UNCHANGED <<image, air>>
  BY DEF Scan, Connect
<1> QED  BY <1>1, <1>2, SearchSound

\* A call begins, or goes on at its last probe: the radio is as it was.
LEMMA CallStep == RadioInv /\ (UserCall \/ JoinKnowsSsid) => RadioInv'
<1> SUFFICES ASSUME RadioInv, UserCall \/ JoinKnowsSsid PROVE RadioInv'
  OBVIOUS
<1>1. /\ call' = [todo |-> call'.todo, stage |-> call'.stage, failed |-> call'.failed]
      /\ call'.stage = "start"
  <2>1. PICK p : call' = [Idle EXCEPT !.todo = p]  BY DEF UserCall, JoinKnowsSsid
  <2> QED  BY <2>1 DEF Idle
<1>2. UNCHANGED <<image, radio, ring, card, air>>  BY DEF UserCall, JoinKnowsSsid
<1>3. RadioTypes'  BY <1>1, <1>2 DEF RadioInv, RadioTypes
<1>4. StackStands' /\ BootStands' /\ RingHoldsUnread'
  BY <1>2 DEF RadioInv, StackStands, FlagsStand, BootStands, RingHoldsUnread
<1> QED  BY <1>1, <1>3, <1>4 DEF RadioInv, CallStands

\* The card adds a packet at the closed index, and only where there is room.
LEMMA CardStep == RadioInv /\ (CardAlive \/ CardDelivers) => RadioInv'
<1> SUFFICES ASSUME RadioInv, CardAlive \/ CardDelivers PROVE RadioInv'
  OBVIOUS
<1>0. /\ radio \in RadioFlags /\ FlagsStand(radio) /\ ring \in RingState /\ card \in CardState
      /\ air \in Seq({"command", "nvm", "beacon"})
      /\ radio.rx => (ring.closed - ring.read) % Entries = Len(air)
  BY DEF RadioInv, RadioTypes, StackStands, RingHoldsUnread
<1>1. UNCHANGED <<image, radio, call>>  BY DEF CardAlive, CardDelivers
<1>2. CASE CardAlive
  <2>1. card' \in CardState /\ card'.sections = card.sections /\ UNCHANGED <<ring, air>>
    BY <1>0, <1>2 DEF CardAlive, CardState
  <2> QED
    BY <1>0, <1>1, <2>1
       DEF RadioInv, RadioTypes, StackStands, FlagsStand, BootStands, CallStands, RingHoldsUnread
<1>3. CASE CardDelivers
  <2>1. radio.rx /\ ring' = [ring EXCEPT !.closed = (@ + 1) % Entries] /\ (ring.closed + 1) % Entries # ring.read
    BY <1>0, <1>3 DEF CardDelivers, FlagsStand
  <2>2. /\ (ring.closed - ring.read) % Entries \in Slots
        /\ (ring.closed + 1) % Entries \in Slots
        /\ (((ring.closed + 1) % Entries) - ring.read) % Entries
             = ((ring.closed - ring.read) % Entries) + 1
    BY <1>0, <2>1, RingAdvance DEF RingState
  <2>3. ring' \in RingState /\ ring'.read = ring.read /\ ring'.closed = (ring.closed + 1) % Entries
    BY <1>0, <2>1, <2>2 DEF RingState
  <2>4. /\ air' \in Seq({"command", "nvm", "beacon"}) /\ Len(air') = Len(air) + 1
        /\ card' \in CardState /\ card'.sections = card.sections
    <3>1. CASE air' = Append(air, "beacon") /\ UNCHANGED card
      BY <1>0, <3>1
    <3>2. CASE /\ card.owed # <<>> /\ air' = Append(air, Head(card.owed))
               /\ card' = [card EXCEPT !.owed = Tail(@)]
      <4>1. card.owed \in Seq({"command", "nvm"})  BY <1>0 DEF CardState
      <4>2. Head(card.owed) \in {"command", "nvm"} /\ Tail(card.owed) \in Seq({"command", "nvm"})
        BY <3>2, <4>1, HeadTailProperties
      <4>3. air' \in Seq({"command", "nvm", "beacon"}) /\ Len(air') = Len(air) + 1
        <5> DEFINE p == Head(card.owed)
        <5>1. p \in {"command", "nvm", "beacon"} /\ air' = Append(air, p)  BY <3>2, <4>2
        <5> HIDE DEF p
        <5> QED  BY <1>0, <5>1
      <4>4. card' = [card EXCEPT !.owed = Tail(card.owed)]  BY <3>2
      <4>5. card' \in CardState /\ card'.sections = card.sections
        BY <1>0, <4>2, <4>4 DEF CardState
      <4> QED  BY <4>3, <4>5
    <3> QED  BY <3>1, <3>2, <1>3 DEF CardDelivers
  <2>5. (ring'.closed - ring'.read) % Entries = Len(air')
    <3>1. ring'.closed - ring'.read = ((ring.closed + 1) % Entries) - ring.read  BY <2>3
    <3> QED  BY <3>1, <1>0, <2>1, <2>2, <2>4
  <2>6. RadioTypes'  BY <1>0, <1>1, <2>3, <2>4 DEF RadioInv, RadioTypes
  <2>7. StackStands' /\ BootStands' /\ CallStands'
    BY <1>1, <2>4 DEF RadioInv, StackStands, FlagsStand, BootStands, CallStands
  <2> QED  BY <2>5, <2>6, <2>7 DEF RadioInv, RingHoldsUnread
<1> QED  BY <1>2, <1>3

LEMMA RadioSteps == RadioInv /\ [RadioNext]_radioVars => RadioInv'
<1>1. RadioInv /\ RadioNext => RadioInv'
  BY FirmwareStep, ApmStep, BootReleaseStep, BootSectionStep, AliveStep, QueueStep, ContextStep,
     SchedulerStep, DoorbellStep, AnswerStep, PollStep, ScanStep, CallStep, CardStep
     DEF RadioNext, Probe
<1>2. RadioInv /\ UNCHANGED radioVars => RadioInv'
  BY DEF RadioInv, RadioTypes, StackStands, FlagsStand, BootStands, CallStands, RingHoldsUnread,
         radioVars
<1> QED  BY <1>1, <1>2

LEMMA RadioSoundFollows == RadioInv => RadioSound
<1> SUFFICES ASSUME RadioInv PROVE RadioSound
  OBVIOUS
<1>1. FlagsStand(radio)  BY DEF RadioInv, StackStands
<1>2. ArmedStackIsWhole  BY <1>1 DEF FlagsStand, ArmedStackIsWhole
<1>3. BootIsComplete  BY <1>1 DEF FlagsStand, BootIsComplete, RadioInv, BootStands
<1> QED  BY <1>2, <1>3 DEF RadioSound, RadioInv

\* Whatever a terminal calls and the card does or leaves out: an armed context
\* stands on all it was built from, the receive ring holds what was delivered
\* and not read, and a boot that is reported was complete (wifi.c's flags,
\* rx_read_ptr and boot_ready).  For every ring size and number of sections.
THEOREM RadioKnowsItsCard == DevicesSpec => []RadioSound
<1>1. DevicesInit => RadioInv  BY RadioStarts DEF DevicesInit
<1>2. RadioInv /\ [DevicesNext]_deviceVars => RadioInv'
  <2>1. [DevicesNext]_deviceVars => [RadioNext]_radioVars
    BY DEF DevicesNext, Radio, Usb, deviceVars
  <2> QED  BY <2>1, RadioSteps
<1> QED  BY <1>1, <1>2, RadioSoundFollows, PTL DEF DevicesSpec

-----------------------------------------------------------------------------
(* The USB host controller.                                                *)

JobSteps == {"none", "send"} \cup Commands \cup Transfers
Positions == 0 .. RingLink - 1
Event == [type : {"cmd", "xfer"}, id : Nat, ok : BOOLEAN, ep : Nat]
PortState == [dev : Kinds \cup {"none"}, ep : Nat, changed : BOOLEAN, attempted : BOOLEAN,
              ready : BOOLEAN, seen : Kinds \cup {"none"}]
CmdRingState == [trb : [Positions -> [cycle : {0, 1}, id : Nat]], idx : Positions,
                 cycle : {0, 1}, link : {0, 1}, issued : Nat]
HcState == [at : 0 .. RingLink, cycle : {0, 1}, done : Seq(Nat)]
DevState == [slot : Nat, intrEp : Nat, slots : Nat, plugs : Nat, forced : Nat, nomem : BOOLEAN]
KbState == [ready : BOOLEAN, port : Nat, slot : Nat, ep : Nat, trbs : Nat, rung : BOOLEAN]
NetState == [ready : BOOLEAN, dci : Nat, pending : BOOLEAN, full : BOOLEAN, trbs : Nat,
             setups : Nat, sent : Nat]
JobState == [step : JobSteps, port : Nat, slot : Nat, saved : Nat, asked : Nat,
             kind : Kinds \cup {"none"}, ep : Nat, there : BOOLEAN]

XhciTypes ==
  /\ port \in [Ports -> PortState] /\ cmdRing \in CmdRingState /\ hc \in HcState
  /\ events \in Seq(Event) /\ dev \in DevState /\ kb \in KbState /\ net \in NetState
  /\ job \in JobState /\ late \in 0 .. MaxTimeouts /\ mistaken \in BOOLEAN
  /\ \A p \in Ports : port[p].dev # "none" => port[p].ep \in Endpoints

\* What a job is about: the slot it works for, the keyboard it may set up.
JobStands ==
  /\ job.step \in Commands => job.asked = cmdRing.issued
  /\ job.step \in Transfers => job.asked \in {0, job.slot}
  /\ job.step \in Commands \cup Transfers =>
       job.port \in Ports /\ job.kind \in Kinds /\ job.ep \in Endpoints
  /\ job.step \in (Commands \cup Transfers) \ {"enable"} => dev.slot = job.slot /\ job.slot > 0
  /\ job.step \in {"setconfig", "configure"} /\ job.kind = "hid" =>
       ~kb.ready /\ dev.intrEp = job.ep
  /\ job.step \in {"setconfig", "configure"} => job.kind # "other"
  /\ job.step = "configure" /\ job.kind = "net" => net.setups > 0
  /\ job.step = "send" => net.ready /\ net.sent > 0 /\ job.asked \in {0, net.sent}
  /\ kb.ready => kb.port \in Ports /\ kb.ep \in Endpoints

\* Producer and controller in the same lap of the ring: the producer, of cycle
\* c, at idx after n commands, the controller, of cycle h, at at after d.
Same(trb, idx, c, n, at, h, d) ==
  /\ h = c /\ idx = at + (n - d)
  /\ \A i \in Positions :
       /\ i < idx => trb[i].cycle = c
       /\ i >= idx => trb[i].cycle # c
       /\ at <= i /\ i < idx => trb[i].id = d + 1 + (i - at)

\* Or the controller has yet to follow the link the producer wrote.
Behind(trb, idx, c, link, n, at, h, d) ==
  /\ h # c /\ link = h
  /\ n - d = (RingLink - at) + idx
  /\ \A i \in Positions :
       /\ i < idx => trb[i].cycle = c /\ trb[i].id = d + 1 + (RingLink - at) + i
       /\ i >= idx => trb[i].cycle = h
       /\ i >= at => trb[i].id = d + 1 + (i - at)

SameLap == Same(cmdRing.trb, cmdRing.idx, cmdRing.cycle, cmdRing.issued,
                hc.at, hc.cycle, Len(hc.done))
LapBehind == Behind(cmdRing.trb, cmdRing.idx, cmdRing.cycle, cmdRing.link, cmdRing.issued,
                    hc.at, hc.cycle, Len(hc.done))

DoneInOrder == \A i \in 1 .. Len(hc.done) : hc.done[i] = i

RingStands == (SameLap \/ LapBehind) /\ DoneInOrder /\ Len(hc.done) <= cmdRing.issued

\* Commands out: one for the wait that runs, one for every wait that gave up.
Allowed == late + (IF job.step \in Commands THEN 1 ELSE 0)

\* In the event queue s the completions stand in order, and none of them, nor
\* what is still to be executed, is older than the n last commands issued.
OutWith(issued, done, s, n) ==
  /\ issued - done <= n
  /\ \A i \in 1 .. Len(s) : s[i].type = "cmd" =>
       0 < s[i].id /\ s[i].id <= done /\ issued + 1 - s[i].id <= n
  /\ \A i, j \in 1 .. Len(s) : s[i].type = "cmd" /\ s[j].type = "cmd" /\ i < j => s[i].id < s[j].id

CommandsOut == OutWith(cmdRing.issued, Len(hc.done), events, Allowed)

\* Transfers of an endpoint that are on their way back in the queue s.
IsXfer(e, ep) == e.type = "xfer" /\ e.ep = ep
NoXfer(s, ep) == \A i \in 1 .. Len(s) : ~IsXfer(s[i], ep)
SomeXfer(s, ep) == \E i \in 1 .. Len(s) : IsXfer(s[i], ep)
LoneXfer(s, ep, id) ==
  \A i, j \in 1 .. Len(s) : IsXfer(s[i], ep) /\ IsXfer(s[j], ep) => i = j /\ s[i].id = id

\* The answer to the transfer or frame that is out, while no wait has given up.
AnswersOut ==
  late = 0 =>
  /\ ~mistaken
  /\ IF job.step \in Transfers /\ job.asked > 0 THEN LoneXfer(events, Ep0, job.asked)
     ELSE NoXfer(events, Ep0)
  /\ IF job.step = "send" /\ job.asked > 0 THEN LoneXfer(events, NetOut, job.asked)
     ELSE NoXfer(events, NetOut)

\* Reports and frames are on their way from endpoints that are set up only.
NoStrays ==
  \A ep \in Endpoints :
    \/ NoXfer(events, ep)
    \/ kb.ready /\ ep = kb.ep
    \/ net.ready /\ (net.setups > 1 \/ ep = net.dci)

\* The buffer of the adapter: with the controller, on its way, or the driver's.
BufferStands ==
  /\ NoStrays
  /\ ~net.ready => net.trbs = 0 /\ ~net.pending /\ ~net.full
  /\ net.setups = 0 => ~net.ready
  /\ net.setups > 0 => net.dci \in Endpoints
  /\ net.ready /\ net.setups <= 1 /\ ~EndpointShared =>
       /\ net.trbs <= 1 /\ LoneXfer(events, net.dci, 0)
       /\ net.trbs = 1 => net.pending /\ NoXfer(events, net.dci)
       /\ ~net.pending => NoXfer(events, net.dci)
       /\ net.full => ~net.pending

\* The first device: nothing is enumerated while it waits, it is alone, and
\* once it is set up its port is READY and no scan tries it again.
FirstDevice ==
  /\ dev.plugs = 0 =>
       /\ job.step = "none" /\ ~kb.ready /\ ~net.ready
       /\ \A p \in Ports : port[p].dev = "none"
  /\ dev.plugs <= 1 =>
       /\ \A p, q \in Ports : port[p].dev # "none" /\ port[q].dev # "none" => p = q
       /\ \A p \in Ports : port[p].dev # "none" /\ ~port[p].attempted => job.step = "none"
       /\ kb.ready \/ net.ready =>
            \A p \in Ports : port[p].dev # "none" => port[p].attempted /\ port[p].ready
       /\ job.step \in Commands \cup Transfers =>
            \A p \in Ports : port[p].dev # "none" => p = job.port
       /\ kb.ready => job.step = "none" /\ ~net.ready
       /\ net.ready => job.step \in {"none", "send"}

\* The keyboard's transfer, with the controller or on its way back.
KeyboardStands ==
  /\ kb.ready /\ dev.plugs <= 1 =>
       /\ dev.slot = kb.slot /\ dev.intrEp = kb.ep
       /\ \/ kb.trbs = 1 /\ kb.rung /\ NoXfer(events, kb.ep)
          \/ kb.trbs = 0 /\ SomeXfer(events, kb.ep) /\ LoneXfer(events, kb.ep, 0)

\* The slot to put back.
SlotStands ==
  kb.ready /\ ~net.ready /\ ~dev.nomem =>
    IF job.step = "none" THEN dev.slot = kb.slot ELSE job.saved = kb.slot

XhciInv ==
  /\ XhciTypes /\ JobStands /\ RingStands /\ CommandsOut /\ AnswersOut
  /\ BufferStands /\ FirstDevice /\ KeyboardStands /\ SlotStands

\* What the driver relies on: fewer waits give up than commands fit between
\* producer and controller.
RoomInRing == MaxTimeouts + 1 < RingLink

LEMMA EndpointNumbers ==
  /\ Endpoints \subseteq Nat /\ Ep0 # NetOut
  /\ \A ep \in Endpoints : ep # Ep0 /\ ep # NetOut /\ ep # 0
<1>1. \A n \in 1 .. 15 : 2 * n + 1 \in Nat /\ 2 * n + 1 # 1 /\ 2 * n + 1 # 4 /\ 2 * n + 1 # 0
  OBVIOUS
<1>2. \A ep \in Endpoints : \E n \in 1 .. 15 : ep = 2 * n + 1  BY XhciAssumption
<1> QED  BY <1>1, <1>2 DEF Ep0, NetOut

LEMMA EventIds ==
  ASSUME NEW s \in Seq(Event)
  PROVE  \A i \in 1 .. Len(s) : s[i].id \in Nat
<1>1. ASSUME NEW i \in 1 .. Len(s) PROVE s[i] \in Event  OBVIOUS
<1>2. \A e \in Event : e.id \in Nat  BY DEF Event
<1> QED  BY <1>1, <1>2

\* A queue whose head is taken.
LEMMA TailOf ==
  ASSUME NEW s \in Seq(Event), s # <<>>
  PROVE  /\ Tail(s) \in Seq(Event) /\ Len(Tail(s)) = Len(s) - 1 /\ Len(s) \in Nat \ {0}
         /\ Head(s) = s[1] /\ Head(s) \in Event
         /\ \A i \in 1 .. Len(Tail(s)) : i + 1 \in 1 .. Len(s) /\ Tail(s)[i] = s[i + 1]
BY HeadTailProperties

\* A queue that gets one event more.
LEMMA AppendOf ==
  ASSUME NEW s \in Seq(Event), NEW e \in Event
  PROVE  /\ Append(s, e) \in Seq(Event) /\ Len(Append(s, e)) = Len(s) + 1 /\ Len(s) \in Nat
         /\ \A i \in 1 .. Len(s) : i \in 1 .. Len(Append(s, e)) /\ Append(s, e)[i] = s[i]
         /\ Append(s, e)[Len(s) + 1] = e
         /\ \A i \in 1 .. Len(Append(s, e)) : i \in 1 .. Len(s) \/ i = Len(s) + 1
BY AppendProperties

LEMMA XferTail ==
  ASSUME NEW s \in Seq(Event), s # <<>>, NEW ep, NEW id, NEW t, t = Tail(s)
  PROVE  /\ NoXfer(s, ep) => NoXfer(t, ep)
         /\ LoneXfer(s, ep, id) => LoneXfer(t, ep, id)
         /\ LoneXfer(s, ep, id) /\ IsXfer(Head(s), ep) => NoXfer(t, ep) /\ Head(s).id = id
         /\ SomeXfer(s, ep) /\ ~IsXfer(Head(s), ep) => SomeXfer(t, ep)
         /\ NoXfer(s, ep) => ~IsXfer(Head(s), ep)
<1>1. /\ Len(t) = Len(s) - 1 /\ Len(s) \in Nat \ {0} /\ Head(s) = s[1]
      /\ \A i \in 1 .. Len(t) : i + 1 \in 1 .. Len(s) /\ t[i] = s[i + 1]
  BY TailOf
<1>2. 1 \in 1 .. Len(s)  BY <1>1
<1>3. NoXfer(s, ep) => NoXfer(t, ep) /\ ~IsXfer(Head(s), ep)
  BY <1>1, <1>2 DEF NoXfer
<1>4. LoneXfer(s, ep, id) => LoneXfer(t, ep, id)
  <2> SUFFICES ASSUME LoneXfer(s, ep, id), NEW i \in 1 .. Len(t), NEW j \in 1 .. Len(t),
                      IsXfer(t[i], ep), IsXfer(t[j], ep)
               PROVE  i = j /\ t[i].id = id
    BY DEF LoneXfer
  <2>1. i + 1 \in 1 .. Len(s) /\ j + 1 \in 1 .. Len(s) /\ t[i] = s[i + 1] /\ t[j] = s[j + 1]
    BY <1>1
  <2>2. i + 1 = j + 1 /\ s[i + 1].id = id  BY <2>1 DEF LoneXfer
  <2> QED  BY <2>1, <2>2
<1>5. LoneXfer(s, ep, id) /\ IsXfer(Head(s), ep) => NoXfer(t, ep) /\ Head(s).id = id
  <2> SUFFICES ASSUME LoneXfer(s, ep, id), IsXfer(s[1], ep)
               PROVE  NoXfer(t, ep) /\ s[1].id = id
    BY <1>1
  <2>1. s[1].id = id  BY <1>2 DEF LoneXfer
  <2>2. ASSUME NEW i \in 1 .. Len(t), IsXfer(t[i], ep) PROVE FALSE
    <3>1. i + 1 \in 1 .. Len(s) /\ IsXfer(s[i + 1], ep)  BY <1>1, <2>2
    <3>2. i + 1 = 1  BY <3>1, <1>2 DEF LoneXfer
    <3> QED  BY <3>2
  <2> QED  BY <2>1, <2>2 DEF NoXfer
<1>6. SomeXfer(s, ep) /\ ~IsXfer(Head(s), ep) => SomeXfer(t, ep)
  <2> SUFFICES ASSUME NEW i \in 1 .. Len(s), IsXfer(s[i], ep), ~IsXfer(s[1], ep)
               PROVE  SomeXfer(t, ep)
    BY <1>1 DEF SomeXfer
  <2>1. i - 1 \in 1 .. Len(t) /\ t[i - 1] = s[(i - 1) + 1]  BY <1>1
  <2>2. (i - 1) + 1 = i  OBVIOUS
  <2> QED  BY <2>1, <2>2 DEF SomeXfer
<1> QED  BY <1>3, <1>4, <1>5, <1>6

LEMMA XferAppend ==
  ASSUME NEW s \in Seq(Event), NEW e \in Event, NEW ep, NEW id, NEW t, t = Append(s, e)
  PROVE  /\ NoXfer(s, ep) /\ ~IsXfer(e, ep) => NoXfer(t, ep)
         /\ NoXfer(s, ep) /\ IsXfer(e, ep) /\ e.id = id => LoneXfer(t, ep, id) /\ SomeXfer(t, ep)
         /\ LoneXfer(s, ep, id) /\ ~IsXfer(e, ep) => LoneXfer(t, ep, id)
         /\ SomeXfer(s, ep) => SomeXfer(t, ep)
<1>1. /\ Len(t) = Len(s) + 1 /\ Len(s) \in Nat /\ t[Len(s) + 1] = e
      /\ \A i \in 1 .. Len(s) : i \in 1 .. Len(t) /\ t[i] = s[i]
      /\ \A i \in 1 .. Len(t) : i \in 1 .. Len(s) \/ i = Len(s) + 1
  BY AppendOf
<1>2. Len(s) + 1 \in 1 .. Len(t)  BY <1>1
<1>3. NoXfer(s, ep) /\ ~IsXfer(e, ep) => NoXfer(t, ep)  BY <1>1 DEF NoXfer
<1>4. SomeXfer(s, ep) => SomeXfer(t, ep)  BY <1>1 DEF SomeXfer
<1>5. IsXfer(e, ep) => SomeXfer(t, ep)  BY <1>1, <1>2 DEF SomeXfer
<1>6. NoXfer(s, ep) /\ e.id = id => LoneXfer(t, ep, id)
  BY <1>1 DEF NoXfer, LoneXfer
<1>7. LoneXfer(s, ep, id) /\ ~IsXfer(e, ep) => LoneXfer(t, ep, id)
  BY <1>1 DEF LoneXfer
<1> QED  BY <1>3, <1>4, <1>5, <1>6, <1>7

LEMMA NoIsLone ==
  ASSUME NEW s, NEW ep, NEW id, NoXfer(s, ep)
  PROVE  LoneXfer(s, ep, id)
BY DEF NoXfer, LoneXfer

\* Completions: what was taken was the oldest; what comes last is the newest.
LEMMA OutTail ==
  ASSUME NEW s \in Seq(Event), s # <<>>, NEW t, t = Tail(s),
         NEW issued \in Nat, NEW done \in Nat, NEW n \in Nat, OutWith(issued, done, s, n)
  PROVE  /\ OutWith(issued, done, t, n)
         /\ Head(s).type = "cmd" =>
              /\ OutWith(issued, done, t, n - 1)
              /\ 0 < Head(s).id /\ Head(s).id <= done /\ issued + 1 - Head(s).id <= n
<1>1. /\ Len(t) = Len(s) - 1 /\ Len(s) \in Nat \ {0} /\ Head(s) = s[1] /\ Head(s) \in Event
      /\ \A i \in 1 .. Len(t) : i + 1 \in 1 .. Len(s) /\ t[i] = s[i + 1]
  BY TailOf
<1>2. 1 \in 1 .. Len(s) /\ \A i \in 1 .. Len(s) : s[i].id \in Nat  BY <1>1, EventIds
<1>3. OutWith(issued, done, t, n)
  <2>1. \A i \in 1 .. Len(t) : t[i].type = "cmd" =>
          0 < t[i].id /\ t[i].id <= done /\ issued + 1 - t[i].id <= n
    BY <1>1 DEF OutWith
  <2>2. ASSUME NEW i \in 1 .. Len(t), NEW j \in 1 .. Len(t), t[i].type = "cmd", t[j].type = "cmd", i < j
        PROVE  t[i].id < t[j].id
    <3>1. i + 1 \in 1 .. Len(s) /\ j + 1 \in 1 .. Len(s) /\ t[i] = s[i + 1] /\ t[j] = s[j + 1] /\ i + 1 < j + 1
      BY <1>1, <2>2
    <3> QED  BY <3>1, <2>2 DEF OutWith
  <2> QED  BY <2>1, <2>2 DEF OutWith
<1>4. CASE Head(s).type = "cmd"
  <2>1. 0 < Head(s).id /\ Head(s).id <= done /\ issued + 1 - Head(s).id <= n
    BY <1>1, <1>2, <1>4 DEF OutWith
  <2>2. ASSUME NEW i \in 1 .. Len(t), t[i].type = "cmd"
        PROVE  issued + 1 - t[i].id <= n - 1
    <3>1. i + 1 \in 1 .. Len(s) /\ t[i] = s[i + 1] /\ 1 < i + 1  BY <1>1
    <3>2. s[1].id < s[i + 1].id  BY <3>1, <2>2, <1>1, <1>2, <1>4 DEF OutWith
    <3> QED  BY <3>1, <3>2, <2>1, <1>1, <1>2
  <2>3. issued - done <= n - 1  BY <2>1, <1>1, <1>2
  <2> QED  BY <1>3, <2>1, <2>2, <2>3 DEF OutWith
<1> QED  BY <1>3, <1>4

LEMMA OutMore ==
  ASSUME NEW s \in Seq(Event), NEW issued \in Nat, NEW done \in Nat, NEW n \in Int,
         OutWith(issued, done, s, n)
  PROVE  OutWith(issued, done, s, n + 1) /\ OutWith(issued + 1, done, s, n + 1)
<1>1. \A i \in 1 .. Len(s) : s[i].id \in Nat  BY EventIds
<1> QED  BY <1>1 DEF OutWith

LEMMA OutAppend ==
  ASSUME NEW s \in Seq(Event), NEW e \in Event, NEW t, t = Append(s, e),
         NEW issued \in Nat, NEW done \in Nat, NEW n \in Nat, OutWith(issued, done, s, n)
  PROVE  /\ e.type # "cmd" => OutWith(issued, done, t, n)
         /\ e.type = "cmd" /\ e.id = done + 1 => OutWith(issued, done + 1, t, n)
<1>1. /\ Len(t) = Len(s) + 1 /\ Len(s) \in Nat /\ t[Len(s) + 1] = e
      /\ \A i \in 1 .. Len(s) : i \in 1 .. Len(t) /\ t[i] = s[i]
      /\ \A i \in 1 .. Len(t) : i \in 1 .. Len(s) \/ i = Len(s) + 1
  BY AppendOf
<1>2. \A i \in 1 .. Len(s) : s[i].id \in Nat  BY EventIds
<1>3. CASE e.type # "cmd"  BY <1>1, <1>2, <1>3 DEF OutWith
<1>4. CASE e.type = "cmd" /\ e.id = done + 1
  <2>1. ASSUME NEW i \in 1 .. Len(t), t[i].type = "cmd"
        PROVE  0 < t[i].id /\ t[i].id <= done + 1 /\ issued + 1 - t[i].id <= n
    BY <1>1, <1>2, <1>4, <2>1 DEF OutWith
  <2>2. ASSUME NEW i \in 1 .. Len(t), NEW j \in 1 .. Len(t), t[i].type = "cmd", t[j].type = "cmd", i < j
        PROVE  t[i].id < t[j].id
    <3>1. i \in 1 .. Len(s)  BY <1>1, <2>2
    <3>2. CASE j \in 1 .. Len(s)  BY <1>1, <2>2, <3>1, <3>2 DEF OutWith
    <3>3. CASE j = Len(s) + 1
      <4>1. t[i].id <= done /\ t[i].id \in Nat  BY <1>1, <1>2, <2>2, <3>1 DEF OutWith
      <4>2. t[j].id = done + 1  BY <1>1, <1>4, <3>3
      <4> QED  BY <4>1, <4>2
    <3> QED  BY <3>2, <3>3, <1>1
  <2>3. issued - (done + 1) <= n  BY DEF OutWith
  <2> QED  BY <1>4, <2>1, <2>2, <2>3 DEF OutWith
<1> QED  BY <1>3, <1>4

-----------------------------------------------------------------------------
\* The command ring after the next command is queued.
IssuedRing == [Enqueued(cmdRing.issued + 1) EXCEPT !.issued = @ + 1]

\* What queueing does to the fields of the ring, with and without its wrap.
LEMMA EnqueuedFields ==
  ASSUME cmdRing \in CmdRingState, NEW r, r = IssuedRing
  PROVE  /\ r \in CmdRingState /\ r.issued = cmdRing.issued + 1
         /\ \A i \in Positions : i # cmdRing.idx => r.trb[i] = cmdRing.trb[i]
         /\ r.trb[cmdRing.idx].cycle = cmdRing.cycle
         /\ r.trb[cmdRing.idx].id = cmdRing.issued + 1
         /\ cmdRing.idx + 1 < RingLink =>
              r.idx = cmdRing.idx + 1 /\ r.cycle = cmdRing.cycle /\ r.link = cmdRing.link
         /\ cmdRing.idx + 1 = RingLink =>
              r.idx = 0 /\ r.cycle = 1 - cmdRing.cycle /\ r.link = cmdRing.cycle
<1> DEFINE e == [cycle |-> cmdRing.cycle, id |-> cmdRing.issued + 1]
           q == [cmdRing.trb EXCEPT ![cmdRing.idx] = e]
           a == [cmdRing EXCEPT !.trb = q, !.idx = @ + 1]
           b == IF a.idx >= RingLink THEN [a EXCEPT !.idx = 0, !.cycle = 1 - @, !.link = a.cycle] ELSE a
<1>0. /\ cmdRing.trb \in [Positions -> [cycle : {0, 1}, id : Nat]] /\ cmdRing.idx \in Positions
      /\ cmdRing.cycle \in {0, 1} /\ cmdRing.link \in {0, 1} /\ cmdRing.issued \in Nat
      /\ RingLink \in Nat \ {0}
  BY XhciAssumption DEF CmdRingState
<1>1. e \in [cycle : {0, 1}, id : Nat] /\ e.cycle = cmdRing.cycle /\ e.id = cmdRing.issued + 1
  BY <1>0
<1>r. r = [b EXCEPT !.issued = @ + 1]
  BY DEF IssuedRing, Enqueued, Wrapped
<1> HIDE DEF e
<1>2. /\ q \in [Positions -> [cycle : {0, 1}, id : Nat]] /\ q[cmdRing.idx] = e
      /\ \A i \in Positions : i # cmdRing.idx => q[i] = cmdRing.trb[i]
  BY <1>0, <1>1
<1> HIDE DEF q
<1>3. /\ a \in [trb : [Positions -> [cycle : {0, 1}, id : Nat]], idx : 0 .. RingLink,
               cycle : {0, 1}, link : {0, 1}, issued : Nat]
      /\ a.trb = q /\ a.idx = cmdRing.idx + 1 /\ a.cycle = cmdRing.cycle
      /\ a.link = cmdRing.link /\ a.issued = cmdRing.issued
  <2>1. cmdRing.idx + 1 \in 0 .. RingLink  BY <1>0 DEF Positions
  <2>2. a = [cmdRing EXCEPT !.trb = q, !.idx = cmdRing.idx + 1]  OBVIOUS
  <2> QED  BY <2>1, <2>2, <1>2 DEF CmdRingState
<1> HIDE DEF a
<1>4. CASE cmdRing.idx + 1 < RingLink
  <2>1. b = a /\ a.idx \in Positions  BY <1>0, <1>3, <1>4 DEF Positions
  <2>2. a \in CmdRingState  BY <2>1, <1>3 DEF CmdRingState
  <2>3. r = [a EXCEPT !.issued = a.issued + 1]  BY <2>1, <1>r
  <2>4. a.issued + 1 \in Nat  BY <1>3
  <2>5. r \in CmdRingState  BY <2>2, <2>3, <2>4 DEF CmdRingState
  <2>6. /\ r.trb = q /\ r.idx = cmdRing.idx + 1 /\ r.cycle = cmdRing.cycle
        /\ r.link = cmdRing.link /\ r.issued = cmdRing.issued + 1
    BY <2>2, <2>3, <1>3 DEF CmdRingState
  <2> QED  BY <2>5, <2>6, <1>1, <1>2, <1>4, <1>0 DEF Positions
<1>5. CASE cmdRing.idx + 1 = RingLink
  <2>0. a.idx >= RingLink /\ 0 \in Positions /\ 1 - a.cycle \in {0, 1}
    BY <1>0, <1>3, <1>5 DEF Positions
  <2>1. b = [a EXCEPT !.idx = 0, !.cycle = 1 - a.cycle, !.link = a.cycle]  BY <2>0
  <2>2. /\ b \in CmdRingState /\ b.trb = a.trb /\ b.idx = 0 /\ b.cycle = 1 - a.cycle
        /\ b.link = a.cycle /\ b.issued = a.issued
    BY <2>0, <2>1, <1>3 DEF CmdRingState
  <2> HIDE DEF b
  <2>3. r = [b EXCEPT !.issued = b.issued + 1]  BY <1>r
  <2>4. b.issued + 1 \in Nat  BY <2>2, <1>3
  <2>5. r \in CmdRingState  BY <2>2, <2>3, <2>4 DEF CmdRingState
  <2>6. /\ r.trb = q /\ r.idx = 0 /\ r.cycle = 1 - cmdRing.cycle
        /\ r.link = cmdRing.cycle /\ r.issued = cmdRing.issued + 1
    BY <2>2, <2>3, <1>3 DEF CmdRingState
  <2> QED  BY <2>5, <2>6, <1>1, <1>2, <1>5, <1>0 DEF Positions
<1> QED  BY <1>0, <1>4, <1>5 DEF Positions

Written(trb2, trb, idx, c, id) ==
  /\ \A i \in Positions : i # idx => trb2[i] = trb[i]
  /\ trb2[idx].cycle = c /\ trb2[idx].id = id

\* One more entry written at idx, in numbers.
LEMMA SameGrows ==
  ASSUME NEW trb, NEW idx \in Positions, NEW c \in {0, 1}, NEW n \in Nat,
         NEW at \in 0 .. RingLink, NEW h, NEW d \in Nat, Same(trb, idx, c, n, at, h, d),
         n + 1 - d < RingLink, NEW trb2, Written(trb2, trb, idx, c, n + 1)
  PROVE  /\ idx + 1 < RingLink => Same(trb2, idx + 1, c, n + 1, at, h, d)
         /\ idx + 1 = RingLink => Behind(trb2, 0, 1 - c, c, n + 1, at, h, d)
<1>0. RingLink \in Nat \ {0}  BY XhciAssumption
<1>1. /\ h = c /\ idx = at + (n - d)
      /\ \A i \in Positions :
           /\ i < idx => trb[i].cycle = c
           /\ i >= idx => trb[i].cycle # c
           /\ at <= i /\ i < idx => trb[i].id = d + 1 + (i - at)
  BY DEF Same
<1>2. n + 1 = d + 1 + (idx - at)  BY <1>0, <1>1 DEF Positions
<1>3. ASSUME NEW i \in Positions
      PROVE  /\ i < idx + 1 => trb2[i].cycle = c
             /\ i >= idx + 1 => trb2[i].cycle # c
             /\ at <= i /\ i < idx + 1 => trb2[i].id = d + 1 + (i - at)
  <2>1. CASE i = idx  BY <2>1, <1>0, <1>2 DEF Positions, Written
  <2>2. CASE i < idx  BY <2>2, <1>0, <1>1 DEF Positions, Written
  <2>3. CASE i > idx  BY <2>3, <1>0, <1>1 DEF Positions, Written
  <2> QED  BY <2>1, <2>2, <2>3, <1>0 DEF Positions
<1>4. idx + 1 = at + (n + 1 - d)  BY <1>0, <1>1 DEF Positions
<1>5. idx + 1 < RingLink => Same(trb2, idx + 1, c, n + 1, at, h, d)
  BY <1>1, <1>3, <1>4 DEF Same
<1>6. ASSUME idx + 1 = RingLink PROVE Behind(trb2, 0, 1 - c, c, n + 1, at, h, d)
  <2>1. h # 1 - c /\ c = h /\ n + 1 - d = (RingLink - at) + 0  BY <1>0, <1>1, <1>4, <1>6
  <2>2. \A i \in Positions : ~(i < 0) /\ i < idx + 1  BY <1>0, <1>6 DEF Positions
  <2>3. \A i \in Positions : /\ trb2[i].cycle = h
                             /\ i >= at => trb2[i].id = d + 1 + (i - at)
    BY <1>1, <1>3, <2>2 DEF Positions
  <2> QED  BY <2>1, <2>2, <2>3 DEF Behind
<1> QED  BY <1>5, <1>6

LEMMA BehindGrows ==
  ASSUME NEW trb, NEW idx \in Positions, NEW c \in {0, 1}, NEW n \in Nat, NEW link,
         NEW at \in 0 .. RingLink, NEW h, NEW d \in Nat, Behind(trb, idx, c, link, n, at, h, d),
         n + 1 - d < RingLink, NEW trb2, Written(trb2, trb, idx, c, n + 1)
  PROVE  idx + 1 < RingLink /\ Behind(trb2, idx + 1, c, link, n + 1, at, h, d)
<1>0. RingLink \in Nat \ {0}  BY XhciAssumption
<1>1. /\ h # c /\ link = h
      /\ n - d = (RingLink - at) + idx
      /\ \A i \in Positions :
           /\ i < idx => trb[i].cycle = c /\ trb[i].id = d + 1 + (RingLink - at) + i
           /\ i >= idx => trb[i].cycle = h
           /\ i >= at => trb[i].id = d + 1 + (i - at)
  BY DEF Behind
<1>2. idx + 1 < at /\ idx + 1 < RingLink  BY <1>0, <1>1 DEF Positions
<1>3. n + 1 = d + 1 + (RingLink - at) + idx  BY <1>0, <1>1 DEF Positions
<1>4. ASSUME NEW i \in Positions
      PROVE  /\ i < idx + 1 => trb2[i].cycle = c /\ trb2[i].id = d + 1 + (RingLink - at) + i
             /\ i >= idx + 1 => trb2[i].cycle = h
             /\ i >= at => trb2[i].id = d + 1 + (i - at)
  <2>1. CASE i = idx  BY <2>1, <1>0, <1>2, <1>3 DEF Positions, Written
  <2>2. CASE i < idx  BY <2>2, <1>0, <1>1, <1>2 DEF Positions, Written
  <2>3. CASE i > idx  BY <2>3, <1>0, <1>1, <1>2 DEF Positions, Written
  <2> QED  BY <2>1, <2>2, <2>3, <1>0 DEF Positions
<1>5. n + 1 - d = (RingLink - at) + (idx + 1)  BY <1>0, <1>1 DEF Positions
<1> QED  BY <1>1, <1>2, <1>4, <1>5 DEF Behind

\* A command more, where the ring has room for it and its link.
LEMMA IssueKeepsRing ==
  ASSUME XhciTypes, RingStands, cmdRing.issued + 1 - Len(hc.done) < RingLink,
         cmdRing' = IssuedRing, UNCHANGED hc
  PROVE  RingStands'
<1> DEFINE d == Len(hc.done)
           n == cmdRing.issued
<1>0. /\ cmdRing \in CmdRingState /\ hc.at \in 0 .. RingLink /\ hc.cycle \in {0, 1} /\ d \in Nat
      /\ n \in Nat /\ cmdRing.idx \in Positions /\ cmdRing.cycle \in {0, 1}
      /\ RingLink \in Nat \ {0} /\ d <= n /\ n + 1 - d < RingLink
      /\ DoneInOrder
  BY XhciAssumption DEF XhciTypes, HcState, CmdRingState, RingStands
<1>1. /\ cmdRing'.issued = n + 1 /\ Len(hc'.done) = d /\ hc' = hc
      /\ \A i \in Positions : i # cmdRing.idx => cmdRing'.trb[i] = cmdRing.trb[i]
      /\ cmdRing'.trb[cmdRing.idx].cycle = cmdRing.cycle
      /\ cmdRing'.trb[cmdRing.idx].id = n + 1
      /\ cmdRing.idx + 1 < RingLink =>
           cmdRing'.idx = cmdRing.idx + 1 /\ cmdRing'.cycle = cmdRing.cycle /\ cmdRing'.link = cmdRing.link
      /\ cmdRing.idx + 1 = RingLink =>
           cmdRing'.idx = 0 /\ cmdRing'.cycle = 1 - cmdRing.cycle /\ cmdRing'.link = cmdRing.cycle
  BY <1>0, EnqueuedFields
<1>2. CASE SameLap
  <2> DEFINE idx == cmdRing.idx
             c == cmdRing.cycle
             t2 == cmdRing'.trb
  <2>1. Same(cmdRing.trb, idx, c, n, hc.at, hc.cycle, d)  BY <1>2 DEF SameLap
  <2>2. /\ idx + 1 < RingLink => Same(t2, idx + 1, c, n + 1, hc.at, hc.cycle, d)
        /\ idx + 1 = RingLink => Behind(t2, 0, 1 - c, c, n + 1, hc.at, hc.cycle, d)
    <3>1. idx \in Positions /\ c \in {0, 1} /\ n \in Nat /\ d \in Nat /\ n + 1 - d < RingLink
      BY <1>0
    <3>2. Written(t2, cmdRing.trb, idx, c, n + 1)  BY <1>1 DEF Written
    <3>3. hc.at \in 0 .. RingLink  BY <1>0
    <3> HIDE DEF idx, c, n, d, t2
    <3> QED  BY <2>1, <3>1, <3>2, <3>3, SameGrows
  <2>3. idx + 1 < RingLink \/ idx + 1 = RingLink  BY <1>0 DEF Positions
  <2>4. CASE idx + 1 < RingLink
    <3>1. SameLap'  BY <2>2, <2>4, <1>1 DEF SameLap
    <3> QED  BY <3>1, <1>0, <1>1 DEF RingStands, DoneInOrder
  <2>5. CASE idx + 1 = RingLink
    <3>1. LapBehind'  BY <2>2, <2>5, <1>1 DEF LapBehind
    <3> QED  BY <3>1, <1>0, <1>1 DEF RingStands, DoneInOrder
  <2> QED  BY <2>3, <2>4, <2>5
<1>3. CASE LapBehind
  <2> DEFINE idx == cmdRing.idx
             c == cmdRing.cycle
             t2 == cmdRing'.trb
  <2>1. Behind(cmdRing.trb, idx, c, cmdRing.link, n, hc.at, hc.cycle, d)  BY <1>3 DEF LapBehind
  <2>2. idx + 1 < RingLink /\ Behind(t2, idx + 1, c, cmdRing.link, n + 1, hc.at, hc.cycle, d)
    <3>1. idx \in Positions /\ c \in {0, 1} /\ n \in Nat /\ d \in Nat /\ n + 1 - d < RingLink
      BY <1>0
    <3>2. Written(t2, cmdRing.trb, idx, c, n + 1)  BY <1>1 DEF Written
    <3>3. hc.at \in 0 .. RingLink  BY <1>0
    <3> HIDE DEF idx, c, n, d, t2
    <3> QED  BY <2>1, <3>1, <3>2, <3>3, BehindGrows
  <2>3. LapBehind'  BY <2>2, <1>1 DEF LapBehind
  <2> QED  BY <2>3, <1>0, <1>1 DEF RingStands, DoneInOrder
<1> QED  BY <1>2, <1>3 DEF RingStands

\* The controller only finds its cycle bit in a command that is queued, and the
\* command is the one after the last it executed.
LEMMA SameRuns ==
  ASSUME NEW trb, NEW idx \in Positions, NEW c, NEW n \in Nat, NEW at \in 0 .. RingLink, NEW h,
         NEW d \in Nat, d <= n, Same(trb, idx, c, n, at, h, d)
  PROVE  /\ at < RingLink
         /\ d < n => trb[at].cycle = h
         /\ trb[at].cycle = h =>
              /\ d + 1 <= n /\ trb[at].id = d + 1
              /\ Same(trb, idx, c, n, at + 1, h, d + 1)
<1>0. RingLink \in Nat \ {0}  BY XhciAssumption
<1>1. /\ h = c /\ idx = at + (n - d)
      /\ \A i \in Positions :
           /\ i < idx => trb[i].cycle = c
           /\ i >= idx => trb[i].cycle # c
           /\ at <= i /\ i < idx => trb[i].id = d + 1 + (i - at)
  BY DEF Same
<1>2. at \in Positions /\ at < RingLink  BY <1>0, <1>1 DEF Positions
<1>3. d < n => at < idx  BY <1>0, <1>1, <1>2 DEF Positions
<1>4. d < n => trb[at].cycle = h  BY <1>1, <1>2, <1>3
<1>5. ASSUME trb[at].cycle = h
      PROVE  d + 1 <= n /\ trb[at].id = d + 1 /\ Same(trb, idx, c, n, at + 1, h, d + 1)
  <2>1. at < idx  BY <1>0, <1>1, <1>2, <1>5 DEF Positions
  <2>2. d + 1 <= n  BY <2>1, <1>0, <1>1 DEF Positions
  <2>3. trb[at].id = d + 1 + (at - at)  BY <2>1, <1>1, <1>2 DEF Positions
  <2>4. idx = (at + 1) + (n - (d + 1))  BY <1>0, <1>1 DEF Positions
  <2>5. ASSUME NEW i \in Positions, at + 1 <= i, i < idx
        PROVE  trb[i].id = (d + 1) + 1 + (i - (at + 1))
    <3>1. trb[i].id = d + 1 + (i - at)  BY <2>5, <1>0, <1>1 DEF Positions
    <3> QED  BY <3>1, <1>0 DEF Positions
  <2>6. Same(trb, idx, c, n, at + 1, h, d + 1)  BY <1>1, <2>4, <2>5 DEF Same
  <2> QED  BY <2>2, <2>3, <2>6, <1>2
<1> QED  BY <1>2, <1>4, <1>5

LEMMA BehindRuns ==
  ASSUME NEW trb, NEW idx \in Positions, NEW c, NEW link, NEW n \in Nat, NEW at \in 0 .. RingLink,
         NEW h, NEW d \in Nat, Behind(trb, idx, c, link, n, at, h, d), n - d < RingLink
  PROVE  /\ at < RingLink =>
              /\ trb[at].cycle = h /\ d + 1 <= n /\ trb[at].id = d + 1
              /\ Behind(trb, idx, c, link, n, at + 1, h, d + 1)
         /\ at = RingLink => link = h
<1>0. RingLink \in Nat \ {0}  BY XhciAssumption
<1>1. /\ h # c /\ link = h
      /\ n - d = (RingLink - at) + idx
      /\ \A i \in Positions :
           /\ i < idx => trb[i].cycle = c /\ trb[i].id = d + 1 + (RingLink - at) + i
           /\ i >= idx => trb[i].cycle = h
           /\ i >= at => trb[i].id = d + 1 + (i - at)
  BY DEF Behind
<1>2. ASSUME at < RingLink
      PROVE  /\ trb[at].cycle = h /\ d + 1 <= n /\ trb[at].id = d + 1
             /\ Behind(trb, idx, c, link, n, at + 1, h, d + 1)
  <2>1. at \in Positions /\ at >= idx  BY <1>0, <1>1, <1>2 DEF Positions
  <2>2. trb[at].cycle = h /\ trb[at].id = d + 1 + (at - at)  BY <2>1, <1>1 DEF Positions
  <2>3. d + 1 <= n  BY <1>0, <1>1, <1>2 DEF Positions
  <2>4. n - (d + 1) = (RingLink - (at + 1)) + idx  BY <1>0, <1>1, <1>2 DEF Positions
  <2>5. ASSUME NEW i \in Positions, i < idx
        PROVE  trb[i].cycle = c /\ trb[i].id = (d + 1) + 1 + (RingLink - (at + 1)) + i
    <3>1. trb[i].cycle = c /\ trb[i].id = d + 1 + (RingLink - at) + i
      BY <2>5, <1>0, <1>1 DEF Positions
    <3> QED  BY <3>1, <1>0 DEF Positions
  <2>6. ASSUME NEW i \in Positions, i >= at + 1
        PROVE  trb[i].id = (d + 1) + 1 + (i - (at + 1))
    <3>1. trb[i].id = d + 1 + (i - at)  BY <2>6, <1>0, <1>1 DEF Positions
    <3> QED  BY <3>1, <1>0 DEF Positions
  <2>7. Behind(trb, idx, c, link, n, at + 1, h, d + 1)
    BY <1>1, <2>4, <2>5, <2>6 DEF Behind
  <2> QED  BY <2>2, <2>3, <2>7, <2>1 DEF Positions
<1> QED  BY <1>1, <1>2

LEMMA BehindFollows ==
  ASSUME NEW trb, NEW idx \in Positions, NEW c \in {0, 1}, NEW link, NEW n \in Nat,
         NEW h \in {0, 1}, NEW d \in Nat, Behind(trb, idx, c, link, n, RingLink, h, d)
  PROVE  Same(trb, idx, c, n, 0, 1 - h, d)
<1>0. RingLink \in Nat \ {0}  BY XhciAssumption
<1>1. /\ h # c /\ n - d = (RingLink - RingLink) + idx
      /\ \A i \in Positions :
           /\ i < idx => trb[i].cycle = c /\ trb[i].id = d + 1 + (RingLink - RingLink) + i
           /\ i >= idx => trb[i].cycle = h
  BY DEF Behind
<1>2. 1 - h = c /\ idx = 0 + (n - d)  BY <1>0, <1>1 DEF Positions
<1>3. ASSUME NEW i \in Positions
      PROVE  /\ i < idx => trb[i].cycle = c
             /\ i >= idx => trb[i].cycle # c
             /\ 0 <= i /\ i < idx => trb[i].id = d + 1 + (i - 0)
  BY <1>0, <1>1 DEF Positions
<1> QED  BY <1>2, <1>3 DEF Same

-----------------------------------------------------------------------------
\* What the steps of the controller leave alone.
LEMMA XhciFrame ==
  ASSUME XhciInv
  PROVE  /\ UNCHANGED <<cmdRing, hc>> => RingStands'
         /\ UNCHANGED <<cmdRing, hc, events, late>> /\ (job'.step \in Commands <=> job.step \in Commands)
              => CommandsOut'
         /\ UNCHANGED <<late, mistaken, events, job>> => AnswersOut'
         /\ UNCHANGED <<net, events, kb>> => BufferStands'
         /\ UNCHANGED <<job, cmdRing, dev, kb, net>> => JobStands'
         /\ UNCHANGED <<dev, job, kb, net, port>> => FirstDevice'
         /\ UNCHANGED <<kb, events, dev>> => KeyboardStands'
         /\ UNCHANGED <<kb, net, dev, job>> => SlotStands'
<1>1. UNCHANGED <<cmdRing, hc>> => RingStands'
  BY DEF XhciInv, RingStands, SameLap, LapBehind, DoneInOrder
<1>2. UNCHANGED <<late, mistaken, events, job>> => AnswersOut'
  BY DEF XhciInv, AnswersOut
<1>3. UNCHANGED <<net, events, kb>> => BufferStands'
  BY DEF XhciInv, BufferStands, NoStrays, EndpointShared
<1>4. UNCHANGED <<job, cmdRing, dev, kb, net>> => JobStands'
  BY DEF XhciInv, JobStands
<1>5. UNCHANGED <<dev, job, kb, net, port>> => FirstDevice'
  BY DEF XhciInv, FirstDevice
<1>6. UNCHANGED <<kb, events, dev>> => KeyboardStands'
  BY DEF XhciInv, KeyboardStands
<1>7. UNCHANGED <<kb, net, dev, job>> => SlotStands'
  BY DEF XhciInv, SlotStands
<1>8. UNCHANGED <<cmdRing, hc, events, late>> /\ (job'.step \in Commands <=> job.step \in Commands)
        => CommandsOut'
  BY DEF XhciInv, CommandsOut, Allowed
<1> QED  BY <1>1, <1>2, <1>3, <1>4, <1>5, <1>6, <1>7, <1>8

\* A completion goes into the queue.
LEMMA CompletionQueued ==
  ASSUME XhciInv, NEW e \in Event, e.type = "cmd", events' = Append(events, e)
  PROVE  /\ events' \in Seq(Event)
         /\ UNCHANGED <<late, mistaken, job>> => AnswersOut'
         /\ UNCHANGED <<net, kb>> => BufferStands'
         /\ UNCHANGED <<kb, dev>> => KeyboardStands'
<1>0. events \in Seq(Event)  BY DEF XhciInv, XhciTypes
<1>1. \A ep : ~IsXfer(e, ep)  BY DEF IsXfer
<1>2. /\ \A ep : NoXfer(events, ep) => NoXfer(events', ep)
      /\ \A ep : SomeXfer(events, ep) => SomeXfer(events', ep)
      /\ \A ep, id : LoneXfer(events, ep, id) => LoneXfer(events', ep, id)
  BY <1>0, <1>1, XferAppend
<1>3. UNCHANGED <<late, mistaken, job>> => AnswersOut'
  BY <1>2 DEF XhciInv, AnswersOut
<1>4. UNCHANGED <<net, kb>> => BufferStands'
  BY <1>2 DEF XhciInv, BufferStands, NoStrays, EndpointShared
<1>5. UNCHANGED <<kb, dev>> => KeyboardStands'  BY <1>2 DEF XhciInv, KeyboardStands
<1> QED  BY <1>0, <1>3, <1>4, <1>5, AppendOf

LEMMA HcExecutesStep == RoomInRing /\ XhciInv /\ HcExecutes => XhciInv'
<1> SUFFICES ASSUME RoomInRing, XhciInv, HcExecutes PROVE XhciInv'
  OBVIOUS
<1>0. /\ cmdRing \in CmdRingState /\ hc \in HcState /\ events \in Seq(Event) /\ late \in 0 .. MaxTimeouts
      /\ RingStands /\ CommandsOut
      /\ UNCHANGED <<port, cmdRing, dev, kb, net, job, late, mistaken>>
      /\ hc.at < RingLink /\ cmdRing.trb[hc.at].cycle = hc.cycle
      /\ hc' = [hc EXCEPT !.at = hc.at + 1, !.done = Append(hc.done, cmdRing.trb[hc.at].id)]
  BY DEF XhciInv, XhciTypes, HcExecutes
<1> DEFINE d == Len(hc.done)
           n == cmdRing.issued
<1>1. /\ cmdRing.idx \in Positions /\ cmdRing.cycle \in {0, 1} /\ n \in Nat /\ d \in Nat
      /\ hc.at \in 0 .. RingLink /\ hc.cycle \in {0, 1} /\ hc.done \in Seq(Nat) /\ d <= n
      /\ cmdRing.trb \in [Positions -> [cycle : {0, 1}, id : Nat]] /\ hc.at \in Positions
  BY <1>0, XhciAssumption DEF CmdRingState, HcState, RingStands, Positions
<1>a. hc.at < RingLink /\ cmdRing.trb[hc.at].cycle = hc.cycle /\ RingLink \in Nat
  BY <1>0, XhciAssumption
<1>2. n - d < RingLink
  <2>1. n - d <= Allowed /\ Allowed <= MaxTimeouts + 1
    BY <1>0, XhciAssumption DEF CommandsOut, OutWith, Allowed
  <2>2. Allowed \in Int /\ MaxTimeouts \in Nat /\ RingLink \in Nat
    BY <1>0, XhciAssumption DEF Allowed
  <2> QED  BY <2>1, <2>2, <1>1 DEF RoomInRing
<1>3. /\ d + 1 <= n /\ cmdRing.trb[hc.at].id = d + 1
      /\ \/ Same(cmdRing.trb, cmdRing.idx, cmdRing.cycle, n, hc.at + 1, hc.cycle, d + 1)
         \/ Behind(cmdRing.trb, cmdRing.idx, cmdRing.cycle, cmdRing.link, n, hc.at + 1, hc.cycle, d + 1)
  <2> DEFINE t == cmdRing.trb
             idx == cmdRing.idx
             c == cmdRing.cycle
             link == cmdRing.link
             at == hc.at
             h == hc.cycle
  <2>1. /\ idx \in Positions /\ n \in Nat /\ d \in Nat /\ at \in 0 .. RingLink /\ d <= n
        /\ at < RingLink /\ t[at].cycle = h /\ n - d < RingLink
    BY <1>1, <1>a, <1>2
  <2>2. Same(t, idx, c, n, at, h, d) \/ Behind(t, idx, c, link, n, at, h, d)
    BY <1>0 DEF RingStands, SameLap, LapBehind
  <2>3. /\ d + 1 <= n /\ t[at].id = d + 1
        /\ Same(t, idx, c, n, at + 1, h, d + 1) \/ Behind(t, idx, c, link, n, at + 1, h, d + 1)
    <3> HIDE DEF d, n, t, idx, c, link, at, h
    <3>1. CASE Same(t, idx, c, n, at, h, d)  BY <3>1, <2>1, SameRuns
    <3>2. CASE Behind(t, idx, c, link, n, at, h, d)  BY <3>2, <2>1, BehindRuns
    <3> QED  BY <3>1, <3>2, <2>2
  <2> QED  BY <2>3
<1>4. /\ hc' \in HcState /\ hc'.at = hc.at + 1 /\ hc'.cycle = hc.cycle
      /\ hc'.done = Append(hc.done, d + 1) /\ Len(hc'.done) = d + 1
  <2>1. hc' = [hc EXCEPT !.at = hc.at + 1, !.done = Append(hc.done, d + 1)]  BY <1>0, <1>3
  <2>2. Append(hc.done, d + 1) \in Seq(Nat) /\ Len(Append(hc.done, d + 1)) = d + 1
    BY <1>1
  <2>3. hc.at + 1 \in 0 .. RingLink  BY <1>a, <1>1
  <2> QED  BY <2>1, <2>2, <2>3, <1>0 DEF HcState
<1>5. RingStands'
  <2>1. SameLap' \/ LapBehind'  BY <1>0, <1>3, <1>4 DEF SameLap, LapBehind
  <2>2. DoneInOrder'
    <3>1. ASSUME NEW i \in 1 .. (d + 1) PROVE Append(hc.done, d + 1)[i] = i
      <4>0. i \in 1 .. d \/ i = d + 1  BY <1>1
      <4>1. CASE i \in 1 .. d  BY <4>1, <1>0, <1>1 DEF RingStands, DoneInOrder
      <4>2. CASE i = d + 1  BY <4>2, <1>1
      <4> QED  BY <4>0, <4>1, <4>2
    <3> QED  BY <3>1, <1>4 DEF DoneInOrder
  <2>3. d + 1 <= cmdRing'.issued  BY <1>0, <1>3
  <2> QED  BY <2>1, <2>2, <2>3, <1>4 DEF RingStands
<1>6. PICK e \in Event : e.type = "cmd" /\ e.id = d + 1 /\ events' = Append(events, e)
  <2>1. PICK ok \in BOOLEAN :
          events' = Append(events, [type |-> "cmd", id |-> cmdRing.trb[hc.at].id, ok |-> ok, ep |-> Ep0])
    BY DEF HcExecutes
  <2>2. d + 1 \in Nat /\ 1 \in Nat  BY <1>1
  <2>3. [type |-> "cmd", id |-> d + 1, ok |-> ok, ep |-> 1] \in Event
    BY <2>2 DEF Event
  <2> QED  BY <2>1, <2>3, <1>3 DEF Ep0
<1>7. CommandsOut'
  <2>1. Allowed \in Nat /\ Allowed' = Allowed  BY <1>0, XhciAssumption DEF Allowed
  <2>2. OutWith(n, d, events, Allowed)  BY <1>0 DEF CommandsOut
  <2>3. OutWith(n, d + 1, events', Allowed)
    <3> HIDE DEF d, n
    <3> QED  BY <1>0, <1>1, <1>6, <2>1, <2>2, OutAppend
  <2> QED  BY <2>1, <2>3, <1>0, <1>4 DEF CommandsOut
<1>8. events' \in Seq(Event) /\ AnswersOut' /\ BufferStands' /\ KeyboardStands'
  BY <1>0, <1>6, CompletionQueued
<1>9. XhciTypes'  BY <1>0, <1>4, <1>8 DEF XhciInv, XhciTypes
<1>10. JobStands' /\ FirstDevice' /\ SlotStands'  BY <1>0, XhciFrame
<1> QED  BY <1>5, <1>7, <1>8, <1>9, <1>10 DEF XhciInv

LEMMA HcFollowsStep == XhciInv /\ HcFollowsLink => XhciInv'
<1> SUFFICES ASSUME XhciInv, HcFollowsLink PROVE XhciInv'
  OBVIOUS
<1>0. /\ cmdRing \in CmdRingState /\ hc \in HcState /\ RingStands
      /\ UNCHANGED <<port, cmdRing, events, dev, kb, net, job, late, mistaken>>
      /\ hc.at = RingLink /\ hc' = [hc EXCEPT !.at = 0, !.cycle = 1 - hc.cycle]
  BY DEF XhciInv, XhciTypes, HcFollowsLink
<1> DEFINE d == Len(hc.done)
           n == cmdRing.issued
<1>1. /\ cmdRing.idx \in Positions /\ cmdRing.cycle \in {0, 1} /\ n \in Nat /\ d \in Nat
      /\ hc.at \in 0 .. RingLink /\ hc.cycle \in {0, 1} /\ d <= n /\ RingLink \in Nat \ {0}
  BY <1>0, XhciAssumption DEF CmdRingState, HcState, RingStands
<1>2. /\ hc' \in HcState /\ hc'.at = 0 /\ hc'.cycle = 1 - hc.cycle /\ hc'.done = hc.done
  <2>1. 0 \in 0 .. RingLink /\ 1 - hc.cycle \in {0, 1}  BY <1>1
  <2> QED  BY <2>1, <1>0 DEF HcState
<1>3. LapBehind
  <2>1. ASSUME SameLap PROVE FALSE
    <3>1. Same(cmdRing.trb, cmdRing.idx, cmdRing.cycle, n, hc.at, hc.cycle, d)  BY <2>1 DEF SameLap
    <3> HIDE DEF d, n
    <3>2. hc.at < RingLink  BY <3>1, <1>1, SameRuns
    <3> QED  BY <3>2, <1>0, <1>1
  <2> QED  BY <2>1, <1>0 DEF RingStands
<1>4. Same(cmdRing.trb, cmdRing.idx, cmdRing.cycle, n, 0, 1 - hc.cycle, d)
  <2>1. Behind(cmdRing.trb, cmdRing.idx, cmdRing.cycle, cmdRing.link, n, RingLink, hc.cycle, d)
    BY <1>0, <1>3 DEF LapBehind
  <2> HIDE DEF d, n
  <2> QED  BY <2>1, <1>1, BehindFollows
<1>5. RingStands'
  <2>1. SameLap'  BY <1>0, <1>2, <1>4 DEF SameLap
  <2> QED  BY <2>1, <1>0, <1>2 DEF RingStands, DoneInOrder
<1>6. CommandsOut'  BY <1>0, <1>2 DEF XhciInv, CommandsOut, Allowed
<1>7. XhciTypes'  BY <1>0, <1>2 DEF XhciInv, XhciTypes
<1>8. AnswersOut' /\ BufferStands' /\ KeyboardStands' /\ JobStands' /\ FirstDevice' /\ SlotStands'
  BY <1>0, XhciFrame
<1> QED  BY <1>5, <1>6, <1>7, <1>8 DEF XhciInv

\* The end of a transfer goes into the queue.
LEMMA TransferQueued ==
  ASSUME XhciInv, NEW e \in Event, e.type = "xfer", events' = Append(events, e)
  PROVE  /\ events' \in Seq(Event)
         /\ UNCHANGED <<cmdRing, hc, late>> /\ (job'.step \in Commands <=> job.step \in Commands)
              => CommandsOut'
         /\ \A ep : ep # e.ep /\ NoXfer(events, ep) => NoXfer(events', ep)
         /\ \A ep, id : ep # e.ep /\ LoneXfer(events, ep, id) => LoneXfer(events', ep, id)
         /\ \A ep : SomeXfer(events, ep) => SomeXfer(events', ep)
         /\ NoXfer(events, e.ep) => LoneXfer(events', e.ep, e.id) /\ SomeXfer(events', e.ep)
<1>0. /\ events \in Seq(Event) /\ late \in 0 .. MaxTimeouts /\ cmdRing \in CmdRingState /\ hc \in HcState
  BY DEF XhciInv, XhciTypes
<1>1. (\A ep : ep # e.ep => ~IsXfer(e, ep)) /\ IsXfer(e, e.ep)  BY DEF IsXfer
<1>2. /\ \A ep : ep # e.ep /\ NoXfer(events, ep) => NoXfer(events', ep)
      /\ \A ep, id : ep # e.ep /\ LoneXfer(events, ep, id) => LoneXfer(events', ep, id)
      /\ \A ep : SomeXfer(events, ep) => SomeXfer(events', ep)
      /\ NoXfer(events, e.ep) => LoneXfer(events', e.ep, e.id) /\ SomeXfer(events', e.ep)
  BY <1>0, <1>1, XferAppend
<1>3. ASSUME UNCHANGED <<cmdRing, hc, late>>, job'.step \in Commands <=> job.step \in Commands
      PROVE  CommandsOut'
  <2> DEFINE d == Len(hc.done)
             n == cmdRing.issued
             m == Allowed
  <2>1. d \in Nat /\ n \in Nat /\ m \in Nat  BY <1>0, XhciAssumption DEF HcState, CmdRingState, Allowed
  <2>2. OutWith(n, d, events, m)  BY DEF XhciInv, CommandsOut
  <2>3. OutWith(n, d, events', m)
    <3> HIDE DEF d, n, m
    <3> QED  BY <1>0, <2>1, <2>2, OutAppend
  <2>4. Allowed' = m  BY <1>3 DEF Allowed
  <2> QED  BY <2>3, <2>4, <1>3 DEF CommandsOut
<1> QED  BY <1>0, <1>2, <1>3, AppendOf

LEMMA KeyReportStep == XhciInv /\ KeyReport => XhciInv'
<1> SUFFICES ASSUME XhciInv, KeyReport PROVE XhciInv'
  OBVIOUS
<1>0. /\ kb \in KbState /\ dev \in DevState /\ kb.ready /\ kb.trbs > 0
      /\ kb.ep \in Endpoints /\ kb.ep \in Nat
      /\ UNCHANGED <<port, cmdRing, hc, dev, net, job, late, mistaken>>
      /\ kb' = [kb EXCEPT !.trbs = kb.trbs - 1, !.rung = kb.rung /\ kb.trbs > 1]
  BY EndpointNumbers DEF XhciInv, XhciTypes, JobStands, KeyReport
<1>1. PICK e \in Event : e.type = "xfer" /\ e.ep = kb.ep /\ e.id = 0 /\ events' = Append(events, e)
  <2>1. PICK ok \in BOOLEAN :
          events' = Append(events, [type |-> "xfer", id |-> 0, ok |-> ok, ep |-> kb.ep])
    BY DEF KeyReport
  <2>2. 0 \in Nat  OBVIOUS
  <2>3. [type |-> "xfer", id |-> 0, ok |-> ok, ep |-> kb.ep] \in Event
    BY <1>0, <2>2 DEF Event
  <2> QED  BY <2>1, <2>3
<1>2. e.ep \notin {Ep0, NetOut}  BY <1>0, <1>1, EndpointNumbers
<1>3. /\ events' \in Seq(Event) /\ CommandsOut'
      /\ \A ep : ep # e.ep /\ NoXfer(events, ep) => NoXfer(events', ep)
      /\ \A ep, id : ep # e.ep /\ LoneXfer(events, ep, id) => LoneXfer(events', ep, id)
      /\ NoXfer(events, e.ep) => LoneXfer(events', e.ep, e.id) /\ SomeXfer(events', e.ep)
  BY <1>0, <1>1, TransferQueued
<1>4. /\ kb' \in KbState /\ kb'.ready = kb.ready /\ kb'.port = kb.port /\ kb'.slot = kb.slot
      /\ kb'.ep = kb.ep /\ kb'.trbs = kb.trbs - 1
  <2>1. kb.trbs - 1 \in Nat /\ (kb.rung /\ kb.trbs > 1) \in BOOLEAN  BY <1>0 DEF KbState
  <2> QED  BY <2>1, <1>0 DEF KbState
<1>5. AnswersOut'
  BY <1>0, <1>2, <1>3 DEF XhciInv, AnswersOut
<1>6. BufferStands'
  <2>1. NoStrays'
    BY <1>0, <1>1, <1>3, <1>4 DEF XhciInv, BufferStands, NoStrays
  <2>2. ~EndpointShared' => ~EndpointShared /\ net.dci # e.ep
    BY <1>0, <1>1, <1>4 DEF EndpointShared
  <2> QED  BY <2>1, <2>2, <1>0, <1>3 DEF XhciInv, BufferStands
<1>7. KeyboardStands'
  <2>1. ASSUME dev.plugs <= 1 PROVE kb'.trbs = 0 /\ SomeXfer(events', kb.ep) /\ LoneXfer(events', kb.ep, 0)
    <3>1. kb.trbs = 1 /\ NoXfer(events, kb.ep)  BY <1>0, <2>1 DEF XhciInv, KeyboardStands, KbState
    <3> QED  BY <3>1, <1>1, <1>3, <1>4
  <2> QED  BY <2>1, <1>0, <1>4 DEF XhciInv, KeyboardStands
<1>8. XhciTypes'  BY <1>0, <1>3, <1>4 DEF XhciInv, XhciTypes
<1>9. RingStands'  BY <1>0, XhciFrame
<1>10. JobStands' /\ FirstDevice' /\ SlotStands'
  BY <1>0, <1>4 DEF XhciInv, JobStands, FirstDevice, SlotStands
<1> QED  BY <1>3, <1>5, <1>6, <1>7, <1>8, <1>9, <1>10 DEF XhciInv

LEMMA FrameReportStep == XhciInv /\ FrameReport => XhciInv'
<1> SUFFICES ASSUME XhciInv, FrameReport PROVE XhciInv'
  OBVIOUS
<1>0. /\ net \in NetState /\ net.ready /\ net.trbs > 0 /\ dev \in DevState
      /\ net.dci \in Endpoints /\ net.dci \in Nat /\ net.setups # 0
      /\ UNCHANGED <<port, cmdRing, hc, dev, kb, job, late, mistaken>>
      /\ net' = [net EXCEPT !.trbs = net.trbs - 1]
  <2>1. net \in NetState /\ net.ready /\ net.setups \in Nat /\ net.dci \in Nat /\ BufferStands
    BY DEF XhciInv, XhciTypes, FrameReport, NetState
  <2>2. net.setups # 0 /\ net.dci \in Endpoints  BY <2>1 DEF BufferStands
  <2> QED  BY <2>1, <2>2 DEF XhciInv, XhciTypes, FrameReport
<1>1. PICK e \in Event : e.type = "xfer" /\ e.ep = net.dci /\ e.id = 0 /\ events' = Append(events, e)
  <2>1. PICK ok \in BOOLEAN :
          events' = Append(events, [type |-> "xfer", id |-> 0, ok |-> ok, ep |-> net.dci])
    BY DEF FrameReport
  <2>2. 0 \in Nat  OBVIOUS
  <2>3. [type |-> "xfer", id |-> 0, ok |-> ok, ep |-> net.dci] \in Event
    BY <1>0, <2>2 DEF Event
  <2> QED  BY <2>1, <2>3
<1>2. net.dci # Ep0 /\ net.dci # NetOut  BY <1>0, EndpointNumbers
<1>3. /\ events' \in Seq(Event) /\ CommandsOut'
      /\ \A ep : ep # net.dci /\ NoXfer(events, ep) => NoXfer(events', ep)
      /\ \A ep, id : ep # net.dci /\ LoneXfer(events, ep, id) => LoneXfer(events', ep, id)
      /\ \A ep : SomeXfer(events, ep) => SomeXfer(events', ep)
      /\ NoXfer(events, net.dci) => LoneXfer(events', net.dci, 0)
  BY <1>0, <1>1, TransferQueued
<1>4. /\ net' \in NetState /\ net'.ready = net.ready /\ net'.pending = net.pending
      /\ net'.full = net.full /\ net'.setups = net.setups /\ net'.sent = net.sent
      /\ net'.trbs = net.trbs - 1 /\ net'.dci = net.dci
  <2>1. net.trbs - 1 \in Nat  BY <1>0 DEF NetState
  <2> QED  BY <2>1, <1>0 DEF NetState
<1>5. AnswersOut'
  BY <1>0, <1>2, <1>3 DEF XhciInv, AnswersOut
<1>6. BufferStands'
  <2>1. ASSUME net.setups <= 1, ~EndpointShared
        PROVE  /\ net'.trbs = 0 /\ LoneXfer(events', net.dci, 0) /\ net.pending /\ ~net.full
    <3>1. net.trbs <= 1 /\ net.trbs \in Nat  BY <1>0, <2>1 DEF XhciInv, BufferStands, NetState
    <3>2. net.trbs = 1  BY <3>1, <1>0
    <3>3. net.pending /\ NoXfer(events, net.dci) /\ ~net.full
      BY <3>2, <2>1, <1>0 DEF XhciInv, BufferStands
    <3> QED  BY <3>2, <3>3, <1>3, <1>4
  <2>2. EndpointShared' <=> EndpointShared  BY <1>0, <1>4 DEF EndpointShared
  <2>3. NoStrays'  BY <1>0, <1>3, <1>4 DEF XhciInv, BufferStands, NoStrays
  <2> QED  BY <2>1, <2>2, <2>3, <1>0, <1>4 DEF BufferStands
<1>7. KeyboardStands'
  <2>1. ~(kb.ready /\ dev.plugs <= 1)  BY <1>0 DEF XhciInv, FirstDevice
  <2> QED  BY <2>1, <1>0 DEF KeyboardStands
<1>8. XhciTypes'  BY <1>0, <1>3, <1>4 DEF XhciInv, XhciTypes
<1>9. RingStands'  BY <1>0, XhciFrame
<1>10. JobStands' /\ FirstDevice' /\ SlotStands'
  BY <1>0, <1>4 DEF XhciInv, JobStands, FirstDevice, SlotStands
<1> QED  BY <1>3, <1>5, <1>6, <1>7, <1>8, <1>9, <1>10 DEF XhciInv

\* The device, or the adapter, answers what was asked last.
LEMMA AnswerQueued == XhciInv /\ (DeviceAnswers \/ FrameLeaves) => XhciInv'
<1> SUFFICES ASSUME XhciInv, DeviceAnswers \/ FrameLeaves PROVE XhciInv'
  OBVIOUS
<1>0. /\ job \in JobState /\ net \in NetState /\ JobStands /\ AnswersOut
      /\ UNCHANGED <<port, cmdRing, hc, dev, kb, net, late, mistaken>>
  BY DEF XhciInv, XhciTypes, DeviceAnswers, FrameLeaves
<1>1. PICK at, n : /\ \/ job.step \in Transfers /\ at = Ep0 /\ n = job.slot
                      \/ job.step = "send" /\ at = NetOut /\ n = net.sent
                   /\ job.asked = 0 /\ job' = [job EXCEPT !.asked = n]
                   /\ \E ok \in BOOLEAN :
                        events' = Append(events, [type |-> "xfer", id |-> n, ok |-> ok, ep |-> at])
  BY DEF DeviceAnswers, FrameLeaves
<1>2. n \in Nat /\ n > 0 /\ at \in Nat
  BY <1>0, <1>1 DEF JobState, NetState, JobStands, Ep0, NetOut, Transfers, Commands
<1>3. PICK e \in Event : e.type = "xfer" /\ e.ep = at /\ e.id = n /\ events' = Append(events, e)
  <2>1. PICK ok \in BOOLEAN : events' = Append(events, [type |-> "xfer", id |-> n, ok |-> ok, ep |-> at])
    BY <1>1
  <2>2. [type |-> "xfer", id |-> n, ok |-> ok, ep |-> at] \in Event
    BY <1>2 DEF Event
  <2> QED  BY <2>1, <2>2
<1>4. /\ job' \in JobState /\ job'.step = job.step /\ job'.asked = n /\ job'.slot = job.slot
      /\ job'.port = job.port /\ job'.kind = job.kind /\ job'.saved = job.saved /\ job'.ep = job.ep
  BY <1>0, <1>1, <1>2 DEF JobState
<1>5. /\ events' \in Seq(Event) /\ CommandsOut'
      /\ \A ep : ep # at /\ NoXfer(events, ep) => NoXfer(events', ep)
      /\ \A ep, id : ep # at /\ LoneXfer(events, ep, id) => LoneXfer(events', ep, id)
      /\ \A ep : SomeXfer(events, ep) => SomeXfer(events', ep)
      /\ NoXfer(events, at) => LoneXfer(events', at, n)
  BY <1>0, <1>3, <1>4, TransferQueued
<1>6. job.step \notin Commands /\ ~(job.step = "send" /\ job.step \in Transfers)
      /\ at \notin Endpoints
  BY <1>1, EndpointNumbers DEF Transfers, Commands
<1>7. AnswersOut'
  <2>1. Ep0 # NetOut  BY DEF Ep0, NetOut
  <2>2. late = 0 => ~mistaken /\ NoXfer(events, Ep0) /\ NoXfer(events, NetOut)
    BY <1>0, <1>1 DEF AnswersOut
  <2>3. CASE job.step \in Transfers /\ at = Ep0
    BY <2>1, <2>2, <2>3, <1>0, <1>2, <1>4, <1>5, <1>6 DEF AnswersOut
  <2>4. CASE job.step = "send" /\ at = NetOut
    BY <2>1, <2>2, <2>4, <1>0, <1>2, <1>4, <1>5, <1>6 DEF AnswersOut
  <2> QED  BY <2>3, <2>4, <1>1
<1>8. BufferStands'
  <2>1. NoStrays'  BY <1>0, <1>5, <1>6 DEF XhciInv, BufferStands, NoStrays
  <2>2. net.ready => net.dci # at
    BY <1>0, <1>6 DEF XhciInv, BufferStands, NetState
  <2>3. EndpointShared' <=> EndpointShared  BY <1>0 DEF EndpointShared
  <2> QED  BY <2>1, <2>2, <2>3, <1>0, <1>5 DEF XhciInv, BufferStands
<1>9. KeyboardStands'  BY <1>0, <1>5, <1>6 DEF XhciInv, KeyboardStands, JobStands
<1>10. XhciTypes'  BY <1>0, <1>4, <1>5 DEF XhciInv, XhciTypes
<1>11. RingStands'  BY <1>0, XhciFrame
<1>12. JobStands'
  BY <1>0, <1>1, <1>4, <1>6 DEF JobStands
<1>13. FirstDevice' /\ SlotStands'
  BY <1>0, <1>4 DEF XhciInv, FirstDevice, SlotStands
<1> QED  BY <1>5, <1>7, <1>8, <1>9, <1>10, <1>11, <1>12, <1>13 DEF XhciInv

-----------------------------------------------------------------------------
\* The beginning.
LEMMA XhciStarts == XhciInit => XhciInv
<1> SUFFICES ASSUME XhciInit PROVE XhciInv
  OBVIOUS
<1>0. RingLink \in Nat \ {0} /\ MaxTimeouts \in Nat /\ Ports \subseteq Nat \ {0}
  BY XhciAssumption
<1>1. 0 \in Positions /\ 0 \in 0 .. RingLink /\ 0 \in 0 .. MaxTimeouts /\ 0 \in Nat /\ 1 \in {0, 1}
  BY <1>0 DEF Positions
<1>2. cmdRing \in CmdRingState
  <2>1. [i \in Positions |-> [cycle |-> 0, id |-> 0]] \in [Positions -> [cycle : {0, 1}, id : Nat]]
    BY <1>1
  <2> HIDE DEF Positions
  <2>2. cmdRing = [trb |-> [i \in Positions |-> [cycle |-> 0, id |-> 0]], idx |-> 0,
                   cycle |-> 1, link |-> 1, issued |-> 0]
    BY DEF XhciInit, Positions
  <2> QED  BY <1>1, <2>1, <2>2 DEF CmdRingState
<1>3. hc \in HcState /\ events \in Seq(Event) /\ events = <<>> /\ Len(hc.done) = 0
  <2>1. <<>> \in Seq(Nat) /\ <<>> \in Seq(Event) /\ Len(<<>>) = 0  OBVIOUS
  <2>2. hc = [at |-> 0, cycle |-> 1, done |-> <<>>] /\ events = <<>>  BY DEF XhciInit
  <2> QED  BY <1>1, <2>1, <2>2 DEF HcState
<1>4. port \in [Ports -> PortState]
  BY DEF XhciInit, PortState
<1>5. dev \in DevState /\ kb \in KbState /\ net \in NetState
  BY <1>1 DEF XhciInit, DevState, KbState, NetState
<1>6. job \in JobState /\ job.step = "none"
  BY <1>1 DEF XhciInit, NoJob, JobState, JobSteps
<1>7. XhciTypes
  BY <1>1, <1>2, <1>3, <1>4, <1>5, <1>6 DEF XhciInit, XhciTypes
<1>8. JobStands
  BY <1>6 DEF XhciInit, JobStands, Commands, Transfers
<1>9. RingStands
  <2>1. \A i \in Positions : cmdRing.trb[i].cycle = 0  BY DEF XhciInit, Positions
  <2>2. \A i \in Positions : i \in Nat  BY <1>0 DEF Positions
  <2>3. cmdRing.idx = 0 /\ cmdRing.cycle = 1 /\ cmdRing.issued = 0 /\ hc.at = 0 /\ hc.cycle = 1
    BY DEF XhciInit
  <2>4. SameLap  BY <1>3, <2>1, <2>2, <2>3 DEF SameLap, Same
  <2> QED  BY <1>3, <2>3, <2>4 DEF RingStands, DoneInOrder
<1>10. CommandsOut
  BY <1>3, <1>6 DEF XhciInit, CommandsOut, OutWith, Allowed, Commands
<1>11. \A ep, id : NoXfer(events, ep) /\ LoneXfer(events, ep, id)
  BY <1>3 DEF NoXfer, LoneXfer
<1>12. AnswersOut  BY <1>6, <1>11 DEF XhciInit, AnswersOut, Transfers
<1>13. BufferStands
  <2>1. net.setups = 0 /\ ~net.ready /\ net.trbs = 0 /\ ~net.pending /\ ~net.full
    BY DEF XhciInit
  <2> QED  BY <1>11, <2>1 DEF BufferStands, NoStrays
<1>14. FirstDevice  BY <1>6 DEF XhciInit, FirstDevice, Commands, Transfers
<1>15. KeyboardStands /\ SlotStands  BY <1>11 DEF XhciInit, KeyboardStands, SlotStands
<1> QED  BY <1>7, <1>8, <1>9, <1>10, <1>12, <1>13, <1>14, <1>15 DEF XhciInv

\* A device comes: the first one finds nothing set up, and is alone.
LEMMA PlugStep == XhciInv /\ Plug => XhciInv'
<1> SUFFICES ASSUME XhciInv, NEW p \in Ports, NEW k \in Kinds, NEW ep \in Endpoints,
                    port[p].dev = "none",
                    port' = [port EXCEPT ![p].dev = k, ![p].ep = ep, ![p].changed = TRUE],
                    dev' = [dev EXCEPT !.plugs = @ + 1],
                    UNCHANGED <<cmdRing, hc, events, kb, net, job, late, mistaken>>
             PROVE  XhciInv'
  BY DEF Plug
<1>0. port \in [Ports -> PortState] /\ dev \in DevState  BY DEF XhciInv, XhciTypes
<1>1. /\ port' \in [Ports -> PortState]
      /\ \A q \in Ports : q # p => port'[q] = port[q]
      /\ port'[p].ep \in Endpoints
  <2>1. port' = [port EXCEPT ![p] = [port[p] EXCEPT !.dev = k, !.ep = ep, !.changed = TRUE]]  BY <1>0
  <2>2. /\ [port[p] EXCEPT !.dev = k, !.ep = ep, !.changed = TRUE] \in PortState
        /\ [port[p] EXCEPT !.dev = k, !.ep = ep, !.changed = TRUE].ep = ep
    BY <1>0, EndpointNumbers DEF PortState
  <2> QED  BY <2>1, <2>2, <1>0
<1>2. /\ dev' \in DevState /\ dev'.slot = dev.slot /\ dev'.intrEp = dev.intrEp
      /\ dev'.slots = dev.slots /\ dev'.nomem = dev.nomem /\ dev'.plugs = dev.plugs + 1
  <2>1. dev' = [dev EXCEPT !.plugs = dev.plugs + 1] /\ dev.plugs + 1 \in Nat  BY <1>0 DEF DevState
  <2> QED  BY <2>1, <1>0 DEF DevState
<1>3. FirstDevice'
  <2>1. dev'.plugs <= 1 => dev.plugs = 0  BY <1>0, <1>2 DEF DevState
  <2>2. dev'.plugs # 0  BY <1>0, <1>2 DEF DevState
  <2>3. dev.plugs = 0 => /\ job.step = "none" /\ ~kb.ready /\ ~net.ready
                         /\ \A q \in Ports : port[q].dev = "none"
    BY DEF XhciInv, FirstDevice
  <2>4. "none" \notin Commands \cup Transfers  BY DEF Commands, Transfers
  <2> QED  BY <1>1, <2>1, <2>2, <2>3, <2>4 DEF FirstDevice
<1>4. KeyboardStands'
  <2>1. dev'.plugs <= 1 => dev.plugs = 0  BY <1>0, <1>2 DEF DevState
  <2>2. dev.plugs = 0 => ~kb.ready  BY DEF XhciInv, FirstDevice
  <2> QED  BY <2>1, <2>2 DEF KeyboardStands
<1>5. XhciTypes'  BY <1>1, <1>2 DEF XhciInv, XhciTypes
<1>6. JobStands' /\ SlotStands'  BY <1>2 DEF XhciInv, JobStands, SlotStands
<1>7. RingStands' /\ CommandsOut' /\ AnswersOut' /\ BufferStands'  BY XhciFrame
<1> QED  BY <1>3, <1>4, <1>5, <1>6, <1>7 DEF XhciInv

\* A device goes.
LEMMA UnplugStep == XhciInv /\ Unplug => XhciInv'
<1> SUFFICES ASSUME XhciInv, NEW p \in Ports,
                    port' = [port EXCEPT ![p].dev = "none", ![p].ep = 0, ![p].changed = TRUE],
                    job' = [job EXCEPT !.there = @ /\ job.port # p],
                    UNCHANGED <<cmdRing, hc, events, dev, kb, net, late, mistaken>>
             PROVE  XhciInv'
  BY DEF Unplug
<1>0. port \in [Ports -> PortState] /\ job \in JobState  BY DEF XhciInv, XhciTypes
<1>1. /\ port' \in [Ports -> PortState] /\ port'[p].dev = "none"
      /\ \A q \in Ports : q # p => port'[q] = port[q]
  <2>1. port' = [port EXCEPT ![p] = [port[p] EXCEPT !.dev = "none", !.ep = 0, !.changed = TRUE]]  BY <1>0
  <2>2. /\ [port[p] EXCEPT !.dev = "none", !.ep = 0, !.changed = TRUE] \in PortState
        /\ [port[p] EXCEPT !.dev = "none", !.ep = 0, !.changed = TRUE].dev = "none"
    BY <1>0 DEF PortState
  <2> QED  BY <2>1, <2>2, <1>0
<1>2. /\ job' \in JobState /\ job'.step = job.step /\ job'.port = job.port /\ job'.slot = job.slot
      /\ job'.saved = job.saved /\ job'.asked = job.asked /\ job'.kind = job.kind /\ job'.ep = job.ep
  <2>1. job' = [job EXCEPT !.there = (job.there /\ job.port # p)] /\ (job.there /\ job.port # p) \in BOOLEAN
    BY <1>0 DEF JobState
  <2> QED  BY <2>1, <1>0 DEF JobState
<1>3. FirstDevice'
  <2>1. \A q \in Ports : port'[q].dev # "none" => port'[q] = port[q]  BY <1>1
  <2> QED  BY <1>2, <2>1, <1>1 DEF XhciInv, FirstDevice
<1>4. XhciTypes'  BY <1>1, <1>2 DEF XhciInv, XhciTypes
<1>5. JobStands'  BY <1>2 DEF XhciInv, JobStands
<1>6. AnswersOut' /\ SlotStands'  BY <1>2 DEF XhciInv, AnswersOut, SlotStands
<1>7. RingStands' /\ CommandsOut' /\ KeyboardStands' /\ BufferStands'  BY <1>2, XhciFrame
<1> QED  BY <1>3, <1>4, <1>5, <1>6, <1>7 DEF XhciInv

\* A received frame is copied out and the buffer goes back to the controller.
LEMMA RecvFrameStep == XhciInv /\ RecvFrame => XhciInv'
<1> SUFFICES ASSUME XhciInv, RecvFrame PROVE XhciInv'
  OBVIOUS
<1>0. /\ net \in NetState /\ net.ready /\ job.step = "none"
      /\ UNCHANGED <<port, cmdRing, hc, events, dev, kb, job, late, mistaken>>
  BY DEF XhciInv, XhciTypes, RecvFrame
<1> DEFINE n == [net EXCEPT !.full = FALSE]
<1>1. /\ n \in NetState /\ n.ready /\ ~n.full /\ n.pending = net.pending /\ n.trbs = net.trbs
      /\ n.setups = net.setups /\ n.sent = net.sent /\ n.dci = net.dci
  BY <1>0 DEF NetState
<1>2. net' = IF ~net.pending THEN [n EXCEPT !.pending = TRUE, !.trbs = n.trbs + 1] ELSE n
  BY <1>1 DEF RecvFrame, ArmedRx
<1> HIDE DEF n
<1>3. /\ net' \in NetState /\ net'.ready /\ ~net'.full /\ net'.pending
      /\ net'.trbs = IF net.pending THEN net.trbs ELSE net.trbs + 1
      /\ net'.setups = net.setups /\ net'.sent = net.sent /\ net'.dci = net.dci
  <2>1. n.trbs + 1 \in Nat  BY <1>1 DEF NetState
  <2> QED  BY <1>1, <1>2, <2>1 DEF NetState
<1>4. BufferStands'
  <2>1. net.setups # 0  BY <1>0 DEF XhciInv, BufferStands
  <2>2. ASSUME net.setups <= 1, ~EndpointShared
        PROVE  /\ net'.trbs <= 1 /\ LoneXfer(events, net.dci, 0)
               /\ net'.trbs = 1 => NoXfer(events, net.dci)
    <3>1. /\ net.trbs <= 1 /\ LoneXfer(events, net.dci, 0) /\ net.trbs \in Nat
          /\ net.trbs = 1 => net.pending /\ NoXfer(events, net.dci)
          /\ ~net.pending => NoXfer(events, net.dci)
      BY <1>0, <2>2 DEF XhciInv, BufferStands, NetState
    <3>2. CASE net.pending  BY <3>1, <3>2, <1>3
    <3>3. CASE ~net.pending
      <4>1. net.trbs = 0 /\ net'.trbs = net.trbs + 1  BY <3>1, <3>3, <1>3
      <4> QED  BY <4>1, <3>1, <3>3
    <3> QED  BY <3>2, <3>3
  <2>3. NoStrays' /\ (EndpointShared' <=> EndpointShared)
    BY <1>0, <1>3 DEF XhciInv, BufferStands, NoStrays, EndpointShared
  <2>4. net.setups > 0 => net.dci \in Endpoints  BY DEF XhciInv, BufferStands
  <2> QED  BY <2>1, <2>2, <2>3, <2>4, <1>0, <1>3 DEF BufferStands
<1>5. XhciTypes'  BY <1>0, <1>3 DEF XhciInv, XhciTypes
<1>6. JobStands' /\ FirstDevice' /\ SlotStands'
  BY <1>0, <1>3 DEF XhciInv, JobStands, FirstDevice, SlotStands
<1>7. RingStands' /\ CommandsOut' /\ AnswersOut' /\ KeyboardStands'  BY <1>0, XhciFrame
<1> QED  BY <1>4, <1>5, <1>6, <1>7 DEF XhciInv

\* A frame is queued and its wait begins: nothing of it is out yet.
LEMMA SendFrameStep == XhciInv /\ SendFrame => XhciInv'
<1> SUFFICES ASSUME XhciInv, SendFrame PROVE XhciInv'
  OBVIOUS
<1>0. /\ net \in NetState /\ dev \in DevState /\ net.ready /\ job.step = "none"
      /\ net' = [net EXCEPT !.sent = net.sent + 1]
      /\ job' = [NoJob EXCEPT !.step = "send", !.saved = dev.slot]
      /\ UNCHANGED <<port, cmdRing, hc, events, dev, kb, late, mistaken>>
  BY DEF XhciInv, XhciTypes, SendFrame
<1>1. /\ net' \in NetState /\ net'.ready /\ net'.full = net.full /\ net'.pending = net.pending
      /\ net'.trbs = net.trbs /\ net'.setups = net.setups /\ net'.sent > 0 /\ net'.dci = net.dci
  <2>1. net.sent + 1 \in Nat /\ net.sent + 1 > 0  BY <1>0 DEF NetState
  <2> QED  BY <1>0, <2>1 DEF NetState
<1>2. job' \in JobState /\ job'.step = "send" /\ job'.asked = 0
  <2>1. 0 \in Nat /\ dev.slot \in Nat  BY <1>0 DEF DevState
  <2>2. job' = [step |-> "send", port |-> 0, slot |-> 0, saved |-> dev.slot, asked |-> 0,
                kind |-> "none", ep |-> 0, there |-> FALSE]
    BY <1>0 DEF NoJob
  <2> QED  BY <2>1, <2>2 DEF JobState, JobSteps
<1>3. "send" \notin Commands \cup Transfers  BY DEF Commands, Transfers
<1>4. XhciTypes'  BY <1>0, <1>1, <1>2 DEF XhciInv, XhciTypes
<1>5. JobStands'  BY <1>0, <1>1, <1>2, <1>3 DEF XhciInv, JobStands
<1>6. BufferStands'  BY <1>0, <1>1 DEF XhciInv, BufferStands, NoStrays, EndpointShared
<1>7. AnswersOut'
  <2>1. "none" \notin Transfers  BY DEF Transfers
  <2> QED  BY <1>0, <1>2, <1>3, <2>1 DEF XhciInv, AnswersOut
<1>8. FirstDevice' /\ SlotStands'
  BY <1>0, <1>1, <1>2, <1>3 DEF XhciInv, FirstDevice, SlotStands
<1>9. CommandsOut'
  <2>1. job'.step \notin Commands /\ job.step \notin Commands  BY <1>0, <1>2 DEF Commands
  <2> QED  BY <2>1, <1>0, XhciFrame
<1>10. RingStands' /\ KeyboardStands'  BY <1>0, XhciFrame
<1> QED  BY <1>4, <1>5, <1>6, <1>7, <1>8, <1>9, <1>10 DEF XhciInv

-----------------------------------------------------------------------------
\* The oldest event is taken.
LEMMA EventTaken ==
  ASSUME XhciInv, events # <<>>, events' = Tail(events), NEW e, e = Head(events)
  PROVE  /\ events' \in Seq(Event) /\ e \in Event
         /\ \A ep : NoXfer(events, ep) => NoXfer(events', ep) /\ ~IsXfer(e, ep)
         /\ \A ep, id : LoneXfer(events, ep, id) => LoneXfer(events', ep, id)
         /\ \A ep, id : LoneXfer(events, ep, id) /\ IsXfer(e, ep) => NoXfer(events', ep) /\ e.id = id
         /\ \A ep : SomeXfer(events, ep) /\ ~IsXfer(e, ep) => SomeXfer(events', ep)
         /\ OutWith(cmdRing.issued, Len(hc.done), events', Allowed)
         /\ e.type = "cmd" =>
              /\ OutWith(cmdRing.issued, Len(hc.done), events', Allowed - 1)
              /\ e.id <= cmdRing.issued /\ cmdRing.issued + 1 - e.id <= Allowed
<1>0. /\ events \in Seq(Event) /\ late \in 0 .. MaxTimeouts /\ cmdRing \in CmdRingState /\ hc \in HcState
  BY DEF XhciInv, XhciTypes
<1>1. events' \in Seq(Event) /\ e \in Event  BY <1>0, TailOf
<1>2. /\ \A ep : NoXfer(events, ep) => NoXfer(events', ep) /\ ~IsXfer(e, ep)
      /\ \A ep, id : LoneXfer(events, ep, id) => LoneXfer(events', ep, id)
      /\ \A ep, id : LoneXfer(events, ep, id) /\ IsXfer(e, ep) => NoXfer(events', ep) /\ e.id = id
      /\ \A ep : SomeXfer(events, ep) /\ ~IsXfer(e, ep) => SomeXfer(events', ep)
  BY <1>0, XferTail
<1> DEFINE d == Len(hc.done)
           n == cmdRing.issued
           m == Allowed
<1>3. d \in Nat /\ n \in Nat /\ m \in Nat /\ d <= n
  BY <1>0, XhciAssumption DEF HcState, CmdRingState, Allowed, XhciInv, RingStands
<1>4. OutWith(n, d, events, m)  BY DEF XhciInv, CommandsOut
<1>5. /\ OutWith(n, d, events', m)
      /\ e.type = "cmd" => OutWith(n, d, events', m - 1) /\ e.id <= d /\ n + 1 - e.id <= m
  <2> HIDE DEF d, n, m
  <2> QED  BY <1>0, <1>3, <1>4, OutTail
<1>6. e.id \in Nat  BY <1>1 DEF Event
<1> QED  BY <1>1, <1>2, <1>3, <1>5, <1>6

\* An event that answers no wait is dropped; a received frame may be kept.
LEMMA EventDropped ==
  ASSUME XhciInv, events # <<>>, events' = Tail(events), NEW e, e = Head(events),
         net' = net \/ (IsRx(e) /\ net' = HandledRx(net, e)),
         kb.ready /\ dev.plugs <= 1 => ~(e.type = "xfer" /\ ~IsRx(e) /\ e.ep = kb.ep),
         job.step = "none" \/ ~IsAnswer(e),
         UNCHANGED <<port, cmdRing, hc, dev, kb, job, late, mistaken>>
  PROVE  XhciInv'
<1>0. /\ net \in NetState /\ e \in Event /\ events' \in Seq(Event)
      /\ \A ep : NoXfer(events, ep) => NoXfer(events', ep) /\ ~IsXfer(e, ep)
      /\ \A ep, id : LoneXfer(events, ep, id) => LoneXfer(events', ep, id)
      /\ \A ep, id : LoneXfer(events, ep, id) /\ IsXfer(e, ep) => NoXfer(events', ep) /\ e.id = id
      /\ \A ep : SomeXfer(events, ep) /\ ~IsXfer(e, ep) => SomeXfer(events', ep)
      /\ OutWith(cmdRing.issued, Len(hc.done), events', Allowed)
  BY EventTaken DEF XhciInv, XhciTypes
<1>1. /\ net' \in NetState /\ net'.ready = net.ready /\ net'.setups = net.setups
      /\ net'.sent = net.sent /\ net'.trbs = net.trbs /\ net'.dci = net.dci
  <2>1. e.ok \in BOOLEAN  BY <1>0 DEF Event
  <2>2. CASE net' = net  BY <2>2, <1>0
  <2>3. CASE net' = HandledRx(net, e)
    BY <2>1, <2>3, <1>0 DEF HandledRx, NetState
  <2> QED  BY <2>2, <2>3
<1>2. BufferStands'
  <2>0. NoStrays' /\ (EndpointShared' <=> EndpointShared)
    BY <1>0, <1>1 DEF XhciInv, BufferStands, NoStrays, EndpointShared
  <2>1. CASE net' = net
    BY <2>0, <2>1, <1>0 DEF XhciInv, BufferStands
  <2>2. CASE IsRx(e) /\ net' = HandledRx(net, e)
    <3>1. net.ready /\ net.pending /\ IsXfer(e, net.dci)  BY <2>2 DEF IsRx, IsXfer
    <3>2. ~net'.pending  BY <2>2, <1>0 DEF HandledRx, NetState
    <3>3. net.setups # 0 /\ (net.setups > 0 => net.dci \in Endpoints)
      BY <3>1 DEF XhciInv, BufferStands
    <3>4. ASSUME net.setups <= 1, ~EndpointShared
          PROVE  net.trbs <= 1 /\ net.trbs # 1 /\ NoXfer(events', net.dci)
      <4>1. /\ net.trbs <= 1 /\ LoneXfer(events, net.dci, 0)
            /\ net.trbs = 1 => NoXfer(events, net.dci)
        BY <3>1, <3>4 DEF XhciInv, BufferStands
      <4> QED  BY <4>1, <3>1, <1>0
    <3>5. ASSUME net.setups <= 1, ~EndpointShared PROVE LoneXfer(events', net.dci, 0)
      BY <3>4, <3>5, NoIsLone
    <3> QED  BY <2>0, <3>1, <3>2, <3>3, <3>4, <3>5, <1>1 DEF BufferStands
  <2> QED  BY <2>1, <2>2
<1>3. KeyboardStands'
  <2>1. ASSUME kb.ready, dev.plugs <= 1
        PROVE  /\ dev.slot = kb.slot /\ dev.intrEp = kb.ep
               /\ \/ kb.trbs = 1 /\ kb.rung /\ NoXfer(events', kb.ep)
                  \/ kb.trbs = 0 /\ SomeXfer(events', kb.ep) /\ LoneXfer(events', kb.ep, 0)
    <3>1. ~net.ready  BY <2>1 DEF XhciInv, FirstDevice
    <3>2. ~IsXfer(e, kb.ep)  BY <2>1, <3>1 DEF IsXfer, IsRx
    <3> QED  BY <2>1, <3>2, <1>0 DEF XhciInv, KeyboardStands
  <2> QED  BY <2>1 DEF KeyboardStands
<1>4. AnswersOut'
  BY <1>0 DEF XhciInv, AnswersOut
<1>5. CommandsOut'
  <2>1. Allowed' = Allowed  BY DEF Allowed
  <2> QED  BY <2>1, <1>0 DEF CommandsOut
<1>6. XhciTypes'  BY <1>0, <1>1 DEF XhciInv, XhciTypes
<1>7. JobStands' /\ FirstDevice' /\ SlotStands'
  BY <1>1 DEF XhciInv, JobStands, FirstDevice, SlotStands
<1>8. RingStands'  BY XhciFrame
<1> QED  BY <1>2, <1>3, <1>4, <1>5, <1>6, <1>7, <1>8 DEF XhciInv

\* The polls of the main loop: a frame, the keyboard's report and its next
\* transfer, or an event nobody waits for.
LEMMA HandleEventStep == XhciInv /\ HandleEvent => XhciInv'
<1> SUFFICES ASSUME XhciInv, HandleEvent PROVE XhciInv'
  OBVIOUS
<1> DEFINE e == Head(events)
<1>0. /\ job.step = "none" /\ events # <<>> /\ events' = Tail(events)
      /\ net' = IF IsRx(e) THEN HandledRx(net, e) ELSE net
      /\ kb' = IF e.type = "xfer" /\ ~IsRx(e) /\ e.ep = dev.intrEp /\ kb.ready
               THEN QueuedInterrupt(kb, dev) ELSE kb
      /\ UNCHANGED <<port, cmdRing, hc, dev, job, late, mistaken>>
  BY DEF HandleEvent, Answered
<1> HIDE DEF e
<1>e. e = Head(events)  BY DEF e
<1>1. CASE e.type = "xfer" /\ ~IsRx(e) /\ e.ep = dev.intrEp /\ kb.ready
  <2>0. /\ kb \in KbState /\ e \in Event /\ events' \in Seq(Event)
        /\ \A ep : NoXfer(events, ep) => NoXfer(events', ep) /\ ~IsXfer(e, ep)
        /\ \A ep, id : LoneXfer(events, ep, id) => LoneXfer(events', ep, id)
        /\ \A ep, id : LoneXfer(events, ep, id) /\ IsXfer(e, ep) => NoXfer(events', ep) /\ e.id = id
        /\ OutWith(cmdRing.issued, Len(hc.done), events', Allowed)
    BY <1>0, <1>e, EventTaken DEF XhciInv, XhciTypes
  <2>1. /\ kb' \in KbState /\ kb'.ready = kb.ready /\ kb'.slot = kb.slot /\ kb'.ep = kb.ep
        /\ kb'.port = kb.port /\ kb'.trbs = kb.trbs + 1
        /\ dev.slot = kb.slot /\ dev.intrEp = kb.ep => kb'.rung
    <3> DEFINE rung == kb.rung \/ (dev.slot = kb.slot /\ dev.intrEp = kb.ep)
    <3>1. kb' = [kb EXCEPT !.trbs = kb.trbs + 1, !.rung = rung]  BY <1>0, <1>1 DEF QueuedInterrupt
    <3>2. kb.trbs + 1 \in Nat /\ rung \in BOOLEAN  BY <2>0 DEF KbState
    <3>3. dev.slot = kb.slot /\ dev.intrEp = kb.ep => rung  OBVIOUS
    <3> HIDE DEF rung
    <3> QED  BY <3>1, <3>2, <3>3, <2>0 DEF KbState
  <2>2. net' = net  BY <1>0, <1>1
  <2>3. KeyboardStands'
    <3>1. ASSUME dev.plugs <= 1
          PROVE  /\ dev.slot = kb.slot /\ dev.intrEp = kb.ep
                 /\ kb'.trbs = 1 /\ NoXfer(events', kb.ep)
      <4>1. dev.slot = kb.slot /\ dev.intrEp = kb.ep
        BY <1>1, <3>1 DEF XhciInv, KeyboardStands
      <4>2. IsXfer(e, kb.ep)  BY <4>1, <1>1 DEF IsXfer
      <4>3. kb.trbs = 0 /\ LoneXfer(events, kb.ep, 0)
        BY <1>1, <3>1, <4>2, <2>0 DEF XhciInv, KeyboardStands
      <4> QED  BY <4>1, <4>2, <4>3, <2>0, <2>1
    <3> QED  BY <3>1, <2>1, <1>0, <1>1 DEF KeyboardStands
  <2>4. AnswersOut'  BY <2>0, <1>0 DEF XhciInv, AnswersOut
  <2>9. BufferStands'
    <3>1. NoStrays' /\ (EndpointShared' <=> EndpointShared)
      BY <2>0, <2>1, <2>2 DEF XhciInv, BufferStands, NoStrays, EndpointShared
    <3> QED  BY <3>1, <2>0, <2>2 DEF XhciInv, BufferStands
  <2>5. CommandsOut'
    <3>1. Allowed' = Allowed  BY <1>0 DEF Allowed
    <3> QED  BY <3>1, <2>0, <1>0 DEF CommandsOut
  <2>6. XhciTypes'  BY <2>0, <2>1, <2>2, <1>0 DEF XhciInv, XhciTypes
  <2>7. JobStands' /\ FirstDevice' /\ SlotStands'
    BY <2>1, <2>2, <1>0 DEF XhciInv, JobStands, FirstDevice, SlotStands
  <2>8. RingStands'  BY <1>0, XhciFrame
  <2> QED  BY <2>3, <2>4, <2>5, <2>6, <2>7, <2>8, <2>9 DEF XhciInv
<1>2. CASE ~(e.type = "xfer" /\ ~IsRx(e) /\ e.ep = dev.intrEp /\ kb.ready)
  <2>1. kb.ready /\ dev.plugs <= 1 => dev.intrEp = kb.ep  BY DEF XhciInv, KeyboardStands
  <2>2. kb' = kb /\ (net' = net \/ (IsRx(e) /\ net' = HandledRx(net, e)))  BY <1>0, <1>2
  <2> QED  BY <2>1, <2>2, <1>0, <1>2, <1>e, EventDropped
<1> QED  BY <1>1, <1>2

-----------------------------------------------------------------------------
\* A keyboard that is set up stays so.
KbStays == kb.ready => kb'.ready /\ kb'.ep = kb.ep

\* Where the enumeration goes on from, or ends: the completions and answers
\* that are out are those of waits that gave up.
Settled ==
  /\ OutWith(cmdRing.issued, Len(hc.done), events', late')
  /\ late' = 0 => ~mistaken' /\ NoXfer(events', Ep0) /\ NoXfer(events', NetOut)
  /\ \A ep : NoXfer(events, ep) => NoXfer(events', ep)
  /\ \A ep, id : LoneXfer(events, ep, id) => LoneXfer(events', ep, id)
  /\ UNCHANGED net /\ KbStays => BufferStands'
  /\ events' \in Seq(Event) /\ late' \in 0 .. MaxTimeouts /\ mistaken' \in BOOLEAN
  /\ hc' = hc

\* A buffer nobody touches, whatever is taken from the queue.
LEMMA BufferSettles ==
  ASSUME XhciInv, UNCHANGED net, KbStays,
         \A ep : NoXfer(events, ep) => NoXfer(events', ep),
         \A ep, id : LoneXfer(events, ep, id) => LoneXfer(events', ep, id)
  PROVE  BufferStands'
<1>1. NoStrays'  BY DEF XhciInv, BufferStands, NoStrays, KbStays
<1>2. EndpointShared => EndpointShared'  BY DEF EndpointShared, KbStays
<1> QED  BY <1>1, <1>2 DEF XhciInv, BufferStands

\* No wait runs.
LEMMA IdleSettles ==
  ASSUME XhciInv, job.step = "none", UNCHANGED <<events, late, mistaken, hc>>
  PROVE  Settled
<1>0. /\ events \in Seq(Event) /\ late \in 0 .. MaxTimeouts /\ mistaken \in BOOLEAN
  BY DEF XhciInv, XhciTypes
<1>1. job.step \notin Commands \cup Transfers \cup {"send"}  BY DEF Commands, Transfers
<1>2. Allowed = late  BY <1>0, <1>1 DEF Allowed
<1>3. OutWith(cmdRing.issued, Len(hc.done), events', late')  BY <1>2 DEF XhciInv, CommandsOut
<1>4. late = 0 => ~mistaken /\ NoXfer(events, Ep0) /\ NoXfer(events, NetOut)
  BY <1>1 DEF XhciInv, AnswersOut
<1>5. UNCHANGED net /\ KbStays => BufferStands'  BY BufferSettles
<1> QED  BY <1>0, <1>3, <1>4, <1>5 DEF Settled

\* A wait gave up: its answer may still come.
LEMMA LateSettles ==
  ASSUME XhciInv, WaitTimesOut
  PROVE  Settled
<1>0. /\ events \in Seq(Event) /\ late \in 0 .. MaxTimeouts /\ mistaken \in BOOLEAN /\ hc \in HcState
      /\ cmdRing \in CmdRingState /\ UNCHANGED <<events, mistaken, hc>>
      /\ \/ late' = late /\ job.step \in Transfers /\ events = <<>>
         \/ late' = late + 1 /\ late < MaxTimeouts
  BY DEF XhciInv, XhciTypes, WaitTimesOut
<1>1. late \in Nat /\ MaxTimeouts \in Nat  BY <1>0, XhciAssumption
<1>2. UNCHANGED net /\ KbStays => BufferStands'  BY <1>0, BufferSettles
<1>3. OutWith(cmdRing.issued, Len(hc.done), events, Allowed)  BY DEF XhciInv, CommandsOut
<1>4. CASE late' = late /\ job.step \in Transfers /\ events = <<>>
  <2>1. Allowed = late  BY <1>4, <1>1 DEF Allowed, Commands, Transfers
  <2>2. \A ep : NoXfer(events, ep)  BY <1>4 DEF NoXfer
  <2>3. late = 0 => ~mistaken  BY DEF XhciInv, AnswersOut
  <2> QED  BY <2>1, <2>2, <2>3, <1>0, <1>2, <1>3, <1>4 DEF Settled
<1>5. CASE late' = late + 1 /\ late < MaxTimeouts
  <2>1. late' # 0 /\ late' \in 0 .. MaxTimeouts  BY <1>1, <1>5
  <2>2. OutWith(cmdRing.issued, Len(hc.done), events, late')
    <3> DEFINE d == Len(hc.done)
               n == cmdRing.issued
    <3>1. d \in Nat /\ n \in Nat  BY <1>0 DEF HcState, CmdRingState
    <3>2. Allowed = late \/ Allowed = late'  BY <1>1, <1>5 DEF Allowed
    <3>3. OutWith(n, d, events, Allowed)  BY <1>3
    <3>4. late \in Int  BY <1>1
    <3> HIDE DEF d, n
    <3>5. ASSUME Allowed = late PROVE OutWith(n, d, events, late + 1)
      BY <3>1, <3>3, <3>4, <3>5, <1>0, OutMore
    <3>6. OutWith(n, d, events, late')  BY <3>2, <3>3, <3>5, <1>5
    <3> QED  BY <3>6 DEF d, n
  <2> QED  BY <2>1, <2>2, <1>0, <1>2 DEF Settled
<1> QED  BY <1>0, <1>4, <1>5

\* A wait has its answer: of a command its own, as long as none was given up.
LEMMA AnswerSettles ==
  ASSUME XhciInv, job.step # "none", events # <<>>, events' = Tail(events), NEW e, e = Head(events),
         IsAnswer(e), mistaken' = (mistaken \/ e.id # job.asked), UNCHANGED <<late, hc>>
  PROVE  Settled
<1>0. /\ job \in JobState /\ late \in 0 .. MaxTimeouts /\ mistaken \in BOOLEAN /\ late \in Int
      /\ cmdRing \in CmdRingState
  BY XhciAssumption DEF XhciInv, XhciTypes
<1>1. /\ e \in Event /\ events' \in Seq(Event)
      /\ \A ep : NoXfer(events, ep) => NoXfer(events', ep) /\ ~IsXfer(e, ep)
      /\ \A ep, id : LoneXfer(events, ep, id) => LoneXfer(events', ep, id)
      /\ \A ep, id : LoneXfer(events, ep, id) /\ IsXfer(e, ep) => NoXfer(events', ep) /\ e.id = id
      /\ OutWith(cmdRing.issued, Len(hc.done), events', Allowed)
      /\ e.type = "cmd" =>
           /\ OutWith(cmdRing.issued, Len(hc.done), events', Allowed - 1)
           /\ e.id <= cmdRing.issued /\ cmdRing.issued + 1 - e.id <= Allowed
  BY EventTaken
<1>2. UNCHANGED net /\ KbStays => BufferStands'  BY <1>1, BufferSettles
<1>3. Ep0 # NetOut  BY DEF Ep0, NetOut
<1>4. CASE job.step \in Commands
  <2>1. e.type = "cmd" /\ Allowed = late + 1  BY <1>4 DEF IsAnswer, IsCompletion, Allowed
  <2>2. OutWith(cmdRing.issued, Len(hc.done), events', late')
    <3>1. Allowed - 1 = late  BY <2>1, <1>0
    <3> QED  BY <3>1, <2>1, <1>1
  <2>3. job.step \notin Transfers /\ job.step # "send"  BY <1>4 DEF Commands, Transfers
  <2>4. ASSUME late = 0 PROVE ~mistaken' /\ NoXfer(events', Ep0) /\ NoXfer(events', NetOut)
    <3>1. e.id = cmdRing.issued
      <4>1. e.id \in Nat /\ cmdRing.issued \in Nat  BY <1>0, <1>1 DEF Event, CmdRingState
      <4>2. e.id <= cmdRing.issued /\ cmdRing.issued + 1 - e.id <= 1  BY <2>1, <2>4, <1>1
      <4> QED  BY <4>1, <4>2
    <3>2. job.asked = cmdRing.issued  BY <1>4 DEF XhciInv, JobStands
    <3>3. ~mistaken /\ NoXfer(events, Ep0) /\ NoXfer(events, NetOut)
      BY <2>3, <2>4 DEF XhciInv, AnswersOut
    <3> QED  BY <3>1, <3>2, <3>3, <1>1
  <2> QED  BY <2>2, <2>4, <1>0, <1>1, <1>2 DEF Settled
<1>5. CASE job.step \notin Commands
  <2>0. Allowed = late  BY <1>5, <1>0 DEF Allowed
  <2>1. job.step = "send" \/ job.step \in Transfers  BY <1>5, <1>0 DEF JobState, JobSteps
  <2> DEFINE at == IF job.step = "send" THEN NetOut ELSE Ep0
             other == IF job.step = "send" THEN Ep0 ELSE NetOut
  <2>2. IsXfer(e, at)  BY <1>5 DEF IsAnswer, IsXfer
  <2>3. ASSUME late = 0 PROVE ~mistaken' /\ NoXfer(events', at) /\ NoXfer(events', other)
    <3>1. /\ ~mistaken /\ NoXfer(events, other)
          /\ IF job.asked > 0 THEN LoneXfer(events, at, job.asked) ELSE NoXfer(events, at)
      <4>1. "send" \notin Transfers  BY DEF Transfers
      <4> QED  BY <2>1, <2>3, <4>1 DEF XhciInv, AnswersOut
    <3>2. LoneXfer(events, at, job.asked)
      <4> HIDE DEF at, other
      <4> QED  BY <3>1, <2>2, <1>1
    <3> HIDE DEF at, other
    <3>3. NoXfer(events', at) /\ e.id = job.asked  BY <3>2, <2>2, <1>1
    <3> QED  BY <3>1, <3>3, <1>1
  <2>4. late = 0 => ~mistaken' /\ NoXfer(events', Ep0) /\ NoXfer(events', NetOut)
    BY <2>3
  <2> QED  BY <2>0, <2>4, <1>0, <1>1, <1>2 DEF Settled
<1> QED  BY <1>4, <1>5

\* From there: no command, or the next one, which the ring has room for.
LEMMA SettledStands ==
  ASSUME RoomInRing, XhciInv, Settled,
         \/ cmdRing' = cmdRing /\ job'.step \notin Commands
         \/ cmdRing' = IssuedRing /\ job'.step \in Commands,
         job'.step \in Transfers \cup {"send"} => job'.asked = 0
  PROVE  /\ cmdRing' \in CmdRingState
         /\ cmdRing' = IssuedRing => cmdRing'.issued = cmdRing.issued + 1
         /\ RingStands' /\ CommandsOut' /\ AnswersOut'
<1>0. /\ cmdRing \in CmdRingState /\ hc \in HcState /\ XhciTypes /\ RingStands
  BY DEF XhciInv, XhciTypes
<1>1. late' \in 0 .. MaxTimeouts /\ events' \in Seq(Event) /\ hc' = hc  BY DEF Settled
<1> DEFINE d == Len(hc.done)
           n == cmdRing.issued
<1>2. d \in Nat /\ n \in Nat /\ late' \in Nat  BY <1>0, <1>1, XhciAssumption DEF HcState, CmdRingState
<1>3. OutWith(n, d, events', late')  BY DEF Settled
<1>4. AnswersOut'
  <2>1. ~(job'.asked > 0) \/ job'.step \notin Transfers  BY <1>2
  <2>2. ~(job'.asked > 0) \/ job'.step # "send"  BY <1>2
  <2> QED  BY <2>1, <2>2 DEF Settled, AnswersOut
<1>5. CASE cmdRing' = cmdRing /\ job'.step \notin Commands
  <2>1. Allowed' = late'
    <3>1. job'.step \notin Commands /\ late' \in Int  BY <1>2, <1>5
    <3>2. (IF job'.step \in Commands THEN 1 ELSE 0) = 0  BY <3>1
    <3>3. Allowed' = late' + 0  BY <3>2 DEF Allowed
    <3>4. \A x \in Int : x + 0 = x  OBVIOUS
    <3>5. late' + 0 = late'  BY ONLY <3>1, <3>4
    <3> QED  BY <3>5, <3>3
  <2>2. CommandsOut'  BY <2>1, <1>1, <1>3, <1>5 DEF CommandsOut
  <2>3. RingStands'  BY <1>1, <1>5, XhciFrame
  <2>4. cmdRing' = IssuedRing => cmdRing'.issued = cmdRing.issued + 1
    BY <1>0, <1>5, EnqueuedFields
  <2> QED  BY <2>2, <2>3, <2>4, <1>0, <1>4, <1>5
<1>6. CASE cmdRing' = IssuedRing /\ job'.step \in Commands
  <2>1. cmdRing' \in CmdRingState /\ cmdRing'.issued = n + 1  BY <1>0, <1>6, EnqueuedFields
  <2>2. Allowed' = late' + 1  BY <1>6 DEF Allowed
  <2>3. OutWith(n + 1, d, events', late' + 1)
    <3>1. late' \in Int  BY <1>2
    <3> HIDE DEF d, n
    <3> QED  BY <3>1, <1>1, <1>2, <1>3, OutMore
  <2>4. CommandsOut'  BY <2>1, <2>2, <2>3, <1>1 DEF CommandsOut
  <2>5. n + 1 - d < RingLink
    <3>1. n - d <= late'  BY <1>3 DEF OutWith
    <3> QED  BY <3>1, <1>1, <1>2, XhciAssumption DEF RoomInRing
  <2>6. RingStands'  BY <1>0, <1>1, <1>6, <2>5, IssueKeepsRing
  <2> QED  BY <2>1, <2>4, <2>6, <1>4
<1> QED  BY <1>5, <1>6

-----------------------------------------------------------------------------
\* While a job runs a first device is not waiting, and no lone keyboard is set up.
LEMMA BusyDevices ==
  ASSUME XhciInv, job.step # "none"
  PROVE  /\ dev.plugs # 0 /\ (kb.ready => ~(dev.plugs <= 1))
         /\ dev.plugs <= 1 =>
              /\ \A p, q \in Ports : port[p].dev # "none" /\ port[q].dev # "none" => p = q
              /\ \A p \in Ports : port[p].dev # "none" => port[p].attempted
              /\ net.ready =>
                   /\ job.step = "send"
                   /\ \A p \in Ports : port[p].dev # "none" => port[p].ready
              /\ job.step \in Commands \cup Transfers =>
                   \A p \in Ports : port[p].dev # "none" => p = job.port
BY DEF XhciInv, FirstDevice

LEMMA NoJobFields ==
  /\ NoJob \in JobState /\ NoJob.step = "none"
  /\ "none" \notin Commands \cup Transfers /\ "none" \notin {"send", "enable", "setconfig", "configure"}
<1>1. 0 \in Nat  OBVIOUS
<1> QED  BY <1>1 DEF NoJob, JobState, JobSteps, Commands, Transfers

\* An enumeration that ends early puts the slot back.
LEMMA AbandonKeeps ==
  ASSUME RoomInRing, XhciInv, Settled, job.step # "none", Abandoned,
         UNCHANGED <<port, cmdRing, kb, net>>
  PROVE  XhciInv'
<1>0. /\ job \in JobState /\ dev \in DevState /\ job' = NoJob
      /\ dev' = [dev EXCEPT !.slot = job.saved]
  BY DEF XhciInv, XhciTypes, Abandoned
<1>1. /\ dev' \in DevState /\ dev'.slot = job.saved /\ dev'.intrEp = dev.intrEp
      /\ dev'.plugs = dev.plugs /\ dev'.nomem = dev.nomem
  <2>1. job.saved \in Nat  BY <1>0 DEF JobState
  <2> QED  BY <2>1, <1>0 DEF DevState
<1>2. job' \in JobState /\ job'.step = "none"  BY <1>0, NoJobFields
<1>3. cmdRing' \in CmdRingState /\ RingStands' /\ CommandsOut' /\ AnswersOut'
  BY <1>2, NoJobFields, SettledStands
<1>4. XhciTypes'  BY <1>1, <1>2, <1>3 DEF XhciInv, XhciTypes, Settled
<1>5. JobStands'  BY <1>2, NoJobFields DEF XhciInv, JobStands
<1>6. BufferStands'  BY DEF Settled, KbStays
<1>7. FirstDevice'  BY <1>1, <1>2, BusyDevices, NoJobFields DEF FirstDevice
<1>8. KeyboardStands'
  BY <1>1, BusyDevices DEF XhciInv, KeyboardStands, Settled
<1>9. SlotStands'  BY <1>1, <1>2 DEF XhciInv, SlotStands
<1> QED  BY <1>3, <1>4, <1>5, <1>6, <1>7, <1>8, <1>9 DEF XhciInv

LEMMA WaitTimesOutStep == RoomInRing /\ XhciInv /\ WaitTimesOut => XhciInv'
<1> SUFFICES ASSUME RoomInRing, XhciInv, WaitTimesOut PROVE XhciInv'
  OBVIOUS
<1>1. Settled  BY LateSettles
<1> QED  BY <1>1, AbandonKeeps DEF WaitTimesOut

LEMMA LeastNumber ==
  ASSUME NEW S \in SUBSET Nat, S # {}
  PROVE  \E p \in S : \A q \in S : p <= q
<1>1. PICK R : /\ IsWellFoundedOn(R, Nat)
               /\ \A x, y \in Nat : y < x => <<y, x>> \in R
  <2> DEFINE R == OpToRel(<, Nat)
  <2>1. IsWellFoundedOn(R, Nat)  BY NatLessThanWellFounded, Zenon
  <2>2. \A x, y \in Nat : y < x => <<y, x>> \in R  BY DEF OpToRel
  <2> HIDE DEF R
  <2> QED  BY <2>1, <2>2
<1>2. PICK p \in S : \A q \in S : ~(<<q, p>> \in R)  BY <1>1, WFMin
<1>3. ASSUME NEW q \in S PROVE p <= q
  <2>1. ~(q < p)  BY <1>1, <1>2
  <2> QED  BY <2>1
<1> QED  BY <1>3

\* The ports are looked at; the first one that waits is enumerated.
LEMMA PortsScanned ==
  ASSUME RoomInRing, XhciInv, NEW force \in BOOLEAN, ScanPorts(force),
         dev' \in DevState, dev'.slot = dev.slot, dev'.intrEp = dev.intrEp,
         dev'.plugs = dev.plugs, dev'.nomem = dev.nomem
  PROVE  XhciInv'
<1> DEFINE pp == [p \in Ports |-> [Prepared(p) EXCEPT !.attempted = @ /\ (force => port[p].ready),
                                                      !.seen = port[p].dev]]
           first == CHOOSE p \in Waiting(pp) : \A q \in Waiting(pp) : p <= q
<1>0. /\ job.step = "none" /\ UNCHANGED <<hc, events, kb, net, late, mistaken>>
      /\ port \in [Ports -> PortState] /\ dev \in DevState /\ kb \in KbState
      /\ \A p \in Ports : port[p].dev # "none" => port[p].ep \in Endpoints
  BY DEF ScanPorts, XhciInv, XhciTypes
<1>1. /\ pp \in [Ports -> PortState]
      /\ \A p \in Ports :
           /\ pp[p].dev = port[p].dev /\ pp[p].ep = port[p].ep
           /\ port[p].dev # "none" /\ port[p].attempted /\ port[p].ready =>
                pp[p].attempted /\ pp[p].ready
  <2>1. ASSUME NEW p \in Ports
        PROVE  /\ pp[p] \in PortState /\ pp[p].dev = port[p].dev /\ pp[p].ep = port[p].ep
               /\ port[p].dev # "none" /\ port[p].attempted /\ port[p].ready =>
                    pp[p].attempted /\ pp[p].ready
    <3>0. port[p] \in PortState  BY <1>0
    <3> DEFINE att == (port[p].attempted /\ port[p].dev # "none") /\ (force => port[p].ready)
               rdy == port[p].ready /\ port[p].dev # "none"
    <3>1. pp[p] = [port[p] EXCEPT !.changed = FALSE, !.attempted = att, !.ready = rdy,
                                  !.seen = port[p].dev]
      BY <3>0 DEF Prepared, PortState
    <3>2. /\ att \in BOOLEAN /\ rdy \in BOOLEAN
          /\ port[p].dev # "none" /\ port[p].attempted /\ port[p].ready => att /\ rdy
      BY <3>0 DEF PortState
    <3> HIDE DEF att, rdy, pp
    <3> QED  BY <3>0, <3>1, <3>2 DEF PortState
  <2> QED  BY <2>1
<1>2. Settled  BY <1>0, IdleSettles
<1>3. IF Waiting(pp) = {} THEN port' = pp /\ UNCHANGED <<cmdRing, job>>
      ELSE /\ port' = [pp EXCEPT ![first].attempted = TRUE, ![first].ready = FALSE]
           /\ cmdRing' = IssuedRing
           /\ job' = [NoJob EXCEPT !.step = "enable", !.port = first, !.saved = dev.slot,
                                   !.asked = cmdRing.issued + 1, !.kind = pp[first].dev,
                                   !.ep = pp[first].ep, !.there = TRUE]
  BY DEF ScanPorts, IssuedRing
<1>4. BufferStands'  BY <1>0, XhciFrame
<1>5. KeyboardStands'  BY <1>0 DEF XhciInv, KeyboardStands
<1> HIDE DEF pp
<1>6. CASE Waiting(pp) = {}
  <2>0. port' = pp /\ UNCHANGED <<cmdRing, job>>  BY <1>3, <1>6
  <2>1. FirstDevice'
    BY <1>0, <1>1, <2>0, NoJobFields DEF XhciInv, FirstDevice
  <2>2. XhciTypes'  BY <1>0, <1>1, <2>0 DEF XhciInv, XhciTypes
  <2>3. AnswersOut'  BY <1>0, <2>0, XhciFrame
  <2>4. CommandsOut' /\ RingStands'  BY <1>0, <2>0, XhciFrame
  <2>5. JobStands' /\ SlotStands'  BY <1>0, <2>0 DEF XhciInv, JobStands, SlotStands
  <2> QED  BY <1>4, <1>5, <2>1, <2>2, <2>3, <2>4, <2>5 DEF XhciInv
<1>7. CASE Waiting(pp) # {}
  <2>0. /\ port' = [pp EXCEPT ![first].attempted = TRUE, ![first].ready = FALSE]
        /\ cmdRing' = IssuedRing
        /\ job' = [NoJob EXCEPT !.step = "enable", !.port = first, !.saved = dev.slot,
                                !.asked = cmdRing.issued + 1, !.kind = pp[first].dev,
                                !.ep = pp[first].ep, !.there = TRUE]
    BY <1>3, <1>7
  <2>1. first \in Waiting(pp)
    <3>1. Waiting(pp) \in SUBSET Nat  BY XhciAssumption DEF Waiting
    <3>2. \E p \in Waiting(pp) : \A q \in Waiting(pp) : p <= q  BY <3>1, <1>7, LeastNumber
    <3> QED  BY <3>2
  <2> HIDE DEF first
  <2>2. /\ first \in Ports /\ port[first].dev # "none" /\ pp[first].dev = port[first].dev
        /\ pp[first].ep = port[first].ep /\ port[first].ep \in Endpoints
        /\ ~(port[first].attempted /\ port[first].ready)
    BY <2>1, <1>0, <1>1 DEF Waiting
  <2>3. /\ port' \in [Ports -> PortState]
        /\ \A p \in Ports : port'[p].dev = port[p].dev /\ port'[p].ep = port[p].ep
        /\ port'[first].attempted
    <3>1. port' = [pp EXCEPT ![first] = [pp[first] EXCEPT !.attempted = TRUE, !.ready = FALSE]]
      BY <2>0, <2>2, <1>1
    <3>2. /\ [pp[first] EXCEPT !.attempted = TRUE, !.ready = FALSE] \in PortState
          /\ [pp[first] EXCEPT !.attempted = TRUE, !.ready = FALSE].dev = pp[first].dev
          /\ [pp[first] EXCEPT !.attempted = TRUE, !.ready = FALSE].ep = pp[first].ep
          /\ [pp[first] EXCEPT !.attempted = TRUE, !.ready = FALSE].attempted
      BY <2>2, <1>1 DEF PortState
    <3> QED  BY <3>1, <3>2, <1>1, <2>2
  <2>4. /\ job' \in JobState /\ job'.step = "enable" /\ job'.port = first /\ job'.saved = dev.slot
        /\ job'.asked = cmdRing.issued + 1 /\ job'.kind = port[first].dev /\ job'.ep = port[first].ep
    <3>1. /\ first \in Nat /\ dev.slot \in Nat /\ cmdRing.issued + 1 \in Nat /\ 0 \in Nat
          /\ port[first].dev \in Kinds \cup {"none"} /\ port[first].ep \in Nat
      BY <2>2, <1>0, XhciAssumption DEF XhciInv, XhciTypes, DevState, CmdRingState, PortState
    <3>2. job' = [step |-> "enable", port |-> first, slot |-> 0, saved |-> dev.slot,
                  asked |-> cmdRing.issued + 1, kind |-> port[first].dev, ep |-> port[first].ep,
                  there |-> TRUE]
      BY <2>0, <2>2 DEF NoJob
    <3> QED  BY <3>1, <3>2 DEF JobState, JobSteps, Commands
  <2>5. "enable" \in Commands /\ "enable" \notin Transfers /\ "enable" \notin {"send", "setconfig", "configure"}
    BY DEF Commands, Transfers
  <2>6. /\ cmdRing' \in CmdRingState /\ cmdRing'.issued = cmdRing.issued + 1
        /\ RingStands' /\ CommandsOut' /\ AnswersOut'
    BY <1>2, <2>0, <2>4, <2>5, SettledStands
  <2>7. XhciTypes'  BY <1>0, <2>3, <2>4, <2>6 DEF XhciInv, XhciTypes
  <2>8. JobStands'
    <3>1. port[first].dev \in Kinds  BY <2>2, <1>0 DEF PortState
    <3> QED  BY <3>1, <1>0, <2>2, <2>4, <2>5, <2>6 DEF XhciInv, JobStands
  <2>9. SlotStands'  BY <1>0, <2>4 DEF XhciInv, SlotStands
  <2>10. FirstDevice'
    <3>1. dev.plugs # 0  BY <2>2 DEF XhciInv, FirstDevice
    <3>2. dev.plugs <= 1 =>
            /\ ~kb.ready /\ ~net.ready
            /\ \A p, q \in Ports : port[p].dev # "none" /\ port[q].dev # "none" => p = q
      BY <2>2 DEF XhciInv, FirstDevice
    <3> QED  BY <3>1, <3>2, <1>0, <2>2, <2>3, <2>4 DEF FirstDevice
  <2> QED  BY <1>4, <1>5, <2>6, <2>7, <2>8, <2>9, <2>10 DEF XhciInv
<1> QED  BY <1>6, <1>7

LEMMA RescanStep == RoomInRing /\ XhciInv /\ (Rescan \/ ForcedRescan) => XhciInv'
<1> SUFFICES ASSUME RoomInRing, XhciInv, Rescan \/ ForcedRescan PROVE XhciInv'
  OBVIOUS
<1>0. dev \in DevState  BY DEF XhciInv, XhciTypes
<1>1. CASE Rescan
  <2>1. ScanPorts(FALSE) /\ dev' = dev  BY <1>1 DEF Rescan
  <2> QED  BY <2>1, <1>0, PortsScanned
<1>2. CASE ForcedRescan
  <2>1. ScanPorts(TRUE) /\ dev' = [dev EXCEPT !.forced = dev.forced + 1]
    BY <1>2 DEF ForcedRescan
  <2>2. /\ dev' \in DevState /\ dev'.slot = dev.slot /\ dev'.intrEp = dev.intrEp
        /\ dev'.plugs = dev.plugs /\ dev'.nomem = dev.nomem
    <3>1. dev.forced + 1 \in Nat  BY <1>0 DEF DevState
    <3> QED  BY <3>1, <2>1, <1>0 DEF DevState
  <2> QED  BY <2>1, <2>2, PortsScanned
<1> QED  BY <1>1, <1>2

-----------------------------------------------------------------------------
\* The enumeration goes on with its next command or transfer.
LEMMA GoesOn ==
  ASSUME RoomInRing, XhciInv, Settled, job.step \in Commands \cup Transfers, UNCHANGED <<port, kb>>,
         \/ cmdRing' = cmdRing /\ job'.step \in Transfers /\ job'.asked = 0
         \/ cmdRing' = IssuedRing /\ job'.step \in Commands \ {"enable"} /\ job'.asked = cmdRing.issued + 1,
         job' \in JobState, job'.port = job.port, job'.kind = job.kind, job'.saved = job.saved,
         job'.ep = job.ep, dev' \in DevState, dev'.plugs = dev.plugs, dev'.nomem = dev.nomem,
         dev'.slot = job'.slot, job'.slot > 0,
         net' \in NetState, net'.ready = net.ready, BufferStands',
         job'.step \in {"setconfig", "configure"} => job.kind # "other",
         job'.step \in {"setconfig", "configure"} /\ job.kind = "hid" =>
           ~kb.ready /\ dev'.intrEp = job.ep,
         job'.step = "configure" /\ job.kind = "net" => net'.setups > 0
  PROVE  XhciInv'
<1>0. job.step # "none" /\ job.step # "send"  BY DEF Commands, Transfers
<1>1. /\ Commands \cap Transfers = {}
      /\ job'.step # "none" /\ job'.step # "send" /\ job'.step \in Commands \cup Transfers
  BY DEF Commands, Transfers
<1>2. /\ cmdRing' \in CmdRingState
      /\ cmdRing' = IssuedRing => cmdRing'.issued = cmdRing.issued + 1
      /\ RingStands' /\ CommandsOut' /\ AnswersOut'
  <2>1. \/ cmdRing' = cmdRing /\ job'.step \notin Commands
        \/ cmdRing' = IssuedRing /\ job'.step \in Commands
    BY <1>1
  <2>2. job'.step \in Transfers \cup {"send"} => job'.asked = 0  BY <1>1
  <2> QED  BY <2>1, <2>2, SettledStands
<1>3. XhciTypes'  BY <1>2 DEF XhciInv, XhciTypes, Settled
<1>4. JobStands'
  <2>1. job.port \in Ports /\ job.kind \in Kinds /\ job.ep \in Endpoints
        /\ (kb.ready => kb.port \in Ports /\ kb.ep \in Endpoints)
    BY DEF XhciInv, JobStands
  <2>2. job'.step \in Commands => job'.asked = cmdRing'.issued  BY <1>1, <1>2
  <2>3. job'.step \in Transfers => job'.asked \in {0, job'.slot}  BY <1>1
  <2> QED  BY <1>1, <2>1, <2>2, <2>3 DEF JobStands
<1>5. FirstDevice'  BY <1>0, BusyDevices DEF FirstDevice
<1>6. KeyboardStands'
  BY <1>0, BusyDevices DEF XhciInv, KeyboardStands, Settled
<1>7. SlotStands'  BY <1>0, <1>1 DEF XhciInv, SlotStands
<1> QED  BY <1>2, <1>3, <1>4, <1>5, <1>6, <1>7 DEF XhciInv

\* The enumeration or the send ends; no keyboard is new.
LEMMA JobEnds ==
  ASSUME RoomInRing, XhciInv, Settled, job.step # "none", UNCHANGED cmdRing, job' = NoJob,
         port' \in [Ports -> PortState],
         \A p \in Ports : /\ port'[p].dev = port[p].dev /\ port'[p].ep = port[p].ep
                          /\ port'[p].attempted = port[p].attempted,
         dev.plugs <= 1 /\ net'.ready =>
           \A p \in Ports : port[p].dev # "none" => port'[p].ready,
         dev' \in DevState, dev'.plugs = dev.plugs,
         kb' \in KbState, kb'.ready = kb.ready, kb'.port = kb.port, kb'.slot = kb.slot, kb'.ep = kb.ep,
         net' \in NetState, BufferStands',
         kb.ready /\ ~net'.ready /\ ~dev'.nomem => dev'.slot = kb.slot
  PROVE  XhciInv'
<1>1. job' \in JobState /\ job'.step = "none"  BY NoJobFields
<1>2. cmdRing' \in CmdRingState /\ RingStands' /\ CommandsOut' /\ AnswersOut'
  BY <1>1, NoJobFields, SettledStands
<1>3. XhciTypes'  BY <1>1, <1>2 DEF XhciInv, XhciTypes, Settled
<1>4. JobStands'  BY <1>1, NoJobFields DEF XhciInv, JobStands
<1>5. FirstDevice'  BY <1>1, BusyDevices, NoJobFields DEF FirstDevice
<1>6. KeyboardStands'
  BY BusyDevices DEF XhciInv, KeyboardStands, Settled
<1>7. SlotStands'  BY <1>1 DEF SlotStands
<1> QED  BY <1>2, <1>3, <1>4, <1>5, <1>6, <1>7 DEF XhciInv

\* The ports stay as they are.
LEMMA PortsStay ==
  ASSUME XhciInv, job.step # "none", UNCHANGED port, net'.ready = net.ready
  PROVE  /\ port' \in [Ports -> PortState]
         /\ \A p \in Ports : /\ port'[p].dev = port[p].dev /\ port'[p].ep = port[p].ep
                             /\ port'[p].attempted = port[p].attempted
         /\ dev.plugs <= 1 /\ net'.ready =>
              \A p \in Ports : port[p].dev # "none" => port'[p].ready
BY BusyDevices DEF XhciInv, XhciTypes

\* One transfer more for the keyboard.
LEMMA QueuedFields ==
  ASSUME NEW k \in KbState, NEW d, NEW q, q = QueuedInterrupt(k, d)
  PROVE  /\ q \in KbState /\ q.ready = k.ready /\ q.port = k.port /\ q.slot = k.slot /\ q.ep = k.ep
         /\ q.trbs = k.trbs + 1
         /\ d.slot = k.slot /\ d.intrEp = k.ep => q.rung
<1> DEFINE rung == k.rung \/ (d.slot = k.slot /\ d.intrEp = k.ep)
<1>1. q = [k EXCEPT !.trbs = k.trbs + 1, !.rung = rung]  BY DEF QueuedInterrupt
<1>2. k.trbs + 1 \in Nat /\ rung \in BOOLEAN  BY DEF KbState
<1>3. d.slot = k.slot /\ d.intrEp = k.ep => rung  OBVIOUS
<1> HIDE DEF rung
<1> QED  BY <1>1, <1>2, <1>3 DEF KbState

\* The next transfer, or the next command, of the enumeration.
LEMMA ControlFields ==
  ASSUME XhciInv, NEW s \in Transfers, Control(s)
  PROVE  /\ cmdRing' = cmdRing /\ job' \in JobState /\ job'.step = s /\ job'.asked = 0
         /\ job'.port = job.port /\ job'.kind = job.kind /\ job'.saved = job.saved /\ job'.slot = job.slot
         /\ job'.ep = job.ep
<1>1. job \in JobState /\ s \in JobSteps /\ 0 \in Nat  BY DEF XhciInv, XhciTypes, JobSteps
<1>2. job' = [job EXCEPT !.step = s, !.asked = 0]  BY DEF Control
<1> QED  BY <1>1, <1>2 DEF JobState, Control

LEMMA IssueFields ==
  ASSUME XhciInv, NEW s \in Commands, Issue(s)
  PROVE  /\ cmdRing' = IssuedRing /\ job' \in JobState /\ job'.step = s
         /\ job'.asked = cmdRing.issued + 1
         /\ job'.port = job.port /\ job'.kind = job.kind /\ job'.saved = job.saved /\ job'.slot = job.slot
         /\ job'.ep = job.ep
<1>1. job \in JobState /\ s \in JobSteps /\ cmdRing.issued + 1 \in Nat
  BY DEF XhciInv, XhciTypes, JobSteps, CmdRingState
<1>2. job' = [job EXCEPT !.step = s, !.asked = cmdRing.issued + 1] /\ cmdRing' = IssuedRing
  BY DEF Issue, IssuedRing
<1> QED  BY <1>1, <1>2 DEF JobState

\* A slot was handed out: its device is addressed, or memory runs out.
LEMMA EnableAdvances ==
  ASSUME RoomInRing, XhciInv, Settled, job.step = "enable", Advance, UNCHANGED port
  PROVE  XhciInv'
<1>0. /\ job \in JobState /\ dev \in DevState /\ net \in NetState /\ kb \in KbState
      /\ dev.slots + 1 \in Nat /\ dev.slots + 1 > 0
  BY DEF XhciInv, XhciTypes, DevState
<1>1. \/ /\ cmdRing' = IssuedRing
         /\ job' = [job EXCEPT !.step = "address", !.slot = dev.slots + 1, !.asked = cmdRing.issued + 1]
         /\ dev' = [dev EXCEPT !.slot = dev.slots + 1, !.slots = @ + 1]
         /\ UNCHANGED <<kb, net>>
      \/ /\ job' = NoJob
         /\ dev' = [dev EXCEPT !.slot = dev.slots + 1, !.slots = @ + 1, !.nomem = TRUE]
         /\ UNCHANGED <<cmdRing, kb, net>>
  BY DEF Advance, IssuedRing
<1>2. UNCHANGED <<kb, net>> => BufferStands'  BY DEF Settled, KbStays
<1>3. "address" \in Commands \ {"enable"} /\ "enable" \in Commands
      /\ "address" \notin {"setconfig", "configure"} /\ job.step # "none" /\ "address" \in JobSteps
  BY DEF Commands, JobSteps
<1>4. CASE /\ cmdRing' = IssuedRing
           /\ job' = [job EXCEPT !.step = "address", !.slot = dev.slots + 1, !.asked = cmdRing.issued + 1]
           /\ dev' = [dev EXCEPT !.slot = dev.slots + 1, !.slots = @ + 1]
           /\ UNCHANGED <<kb, net>>
  <2>1. /\ dev' \in DevState /\ dev'.plugs = dev.plugs /\ dev'.nomem = dev.nomem
        /\ dev'.slot = dev.slots + 1
    <3>1. dev' = [dev EXCEPT !.slot = dev.slots + 1, !.slots = dev.slots + 1]  BY <1>4
    <3> QED  BY <3>1, <1>0 DEF DevState
  <2>2. /\ job' \in JobState /\ job'.step = "address" /\ job'.slot = dev.slots + 1
        /\ job'.asked = cmdRing.issued + 1
        /\ job'.port = job.port /\ job'.kind = job.kind /\ job'.saved = job.saved
        /\ job'.ep = job.ep
    <3>1. cmdRing.issued + 1 \in Nat  BY DEF XhciInv, XhciTypes, CmdRingState
    <3> QED  BY <3>1, <1>0, <1>3, <1>4 DEF JobState
  <2>3. cmdRing' = IssuedRing /\ net' = net /\ kb' = kb  BY <1>4
  <2> QED  BY <1>0, <1>2, <1>3, <2>1, <2>2, <2>3, GoesOn
<1>5. CASE /\ job' = NoJob
           /\ dev' = [dev EXCEPT !.slot = dev.slots + 1, !.slots = @ + 1, !.nomem = TRUE]
           /\ UNCHANGED <<cmdRing, kb, net>>
  <2>1. dev' \in DevState /\ dev'.plugs = dev.plugs /\ dev'.nomem
    <3>1. dev' = [dev EXCEPT !.slot = dev.slots + 1, !.slots = dev.slots + 1, !.nomem = TRUE]  BY <1>5
    <3> QED  BY <3>1, <1>0 DEF DevState
  <2>2. job' = NoJob /\ UNCHANGED <<cmdRing, kb, net>>  BY <1>5
  <2> QED  BY <1>0, <1>2, <1>3, <2>1, <2>2, PortsStay, JobEnds
<1> QED  BY <1>1, <1>4, <1>5

\* The steps that read a descriptor or tell the controller of it.
LEMMA DescriptorsAdvance ==
  ASSUME RoomInRing, XhciInv, Settled, job.step \in {"address", "device", "evaluate"}, Advance,
         UNCHANGED port
  PROVE  XhciInv'
<1>0. /\ job \in JobState /\ dev \in DevState /\ net \in NetState
      /\ dev.slot = job.slot /\ job.slot > 0 /\ job.step \in Commands \cup Transfers
  BY DEF XhciInv, XhciTypes, JobStands, Commands, Transfers
<1>1. /\ UNCHANGED <<dev, kb, net>>
      /\ Control("device") \/ Control("config") \/ Issue("evaluate")
  BY DEF Advance
<1>2. BufferStands'  BY <1>1 DEF Settled, KbStays
<1>3. /\ "device" \in Transfers /\ "config" \in Transfers /\ "evaluate" \in Commands \ {"enable"}
      /\ "device" \notin {"setconfig", "configure"} /\ "config" \notin {"setconfig", "configure"}
      /\ "evaluate" \notin {"setconfig", "configure"}
  BY DEF Commands, Transfers
<1>4. CASE Control("device")
  <2>1. /\ cmdRing' = cmdRing /\ job' \in JobState /\ job'.step = "device" /\ job'.asked = 0
        /\ job'.port = job.port /\ job'.kind = job.kind /\ job'.saved = job.saved /\ job'.slot = job.slot
        /\ job'.ep = job.ep
    BY <1>3, <1>4, ControlFields
  <2> QED  BY <1>0, <1>1, <1>2, <1>3, <2>1, GoesOn
<1>5. CASE Control("config")
  <2>1. /\ cmdRing' = cmdRing /\ job' \in JobState /\ job'.step = "config" /\ job'.asked = 0
        /\ job'.port = job.port /\ job'.kind = job.kind /\ job'.saved = job.saved /\ job'.slot = job.slot
        /\ job'.ep = job.ep
    BY <1>3, <1>5, ControlFields
  <2> QED  BY <1>0, <1>1, <1>2, <1>3, <2>1, GoesOn
<1>6. CASE Issue("evaluate")
  <2>1. /\ cmdRing' = IssuedRing /\ job' \in JobState /\ job'.step = "evaluate"
        /\ job'.asked = cmdRing.issued + 1
        /\ job'.port = job.port /\ job'.kind = job.kind /\ job'.saved = job.saved /\ job'.slot = job.slot
        /\ job'.ep = job.ep
    BY <1>3, <1>6, IssueFields
  <2> QED  BY <1>0, <1>1, <1>2, <1>3, <2>1, GoesOn
<1> QED  BY <1>1, <1>4, <1>5, <1>6

\* The configuration is read: an adapter, a keyboard, a second one, or neither.
LEMMA ConfigAdvances ==
  ASSUME RoomInRing, XhciInv, Settled, job.step = "config", Advance, UNCHANGED port
  PROVE  XhciInv'
<1>0. /\ job \in JobState /\ dev \in DevState /\ net \in NetState /\ kb \in KbState
      /\ dev.slot = job.slot /\ job.slot > 0 /\ job.step \in Commands \cup Transfers
      /\ job.ep \in Endpoints /\ job.ep \in Nat /\ job.kind \in {"hid", "net", "other"}
      /\ job.step # "none"
  BY EndpointNumbers DEF XhciInv, XhciTypes, JobStands, Commands, Transfers, Kinds
<1>1. UNCHANGED net /\ KbStays => BufferStands'  BY DEF Settled
<1>2. "setconfig" \in Transfers /\ "setconfig" # "configure"  BY DEF Transfers
<1>3. CASE job.kind = "net"
  <2>1. Control("setconfig") /\ UNCHANGED <<dev, kb, net>>  BY <1>3 DEF Advance
  <2>2. /\ cmdRing' = cmdRing /\ job' \in JobState /\ job'.step = "setconfig" /\ job'.asked = 0
        /\ job'.port = job.port /\ job'.kind = job.kind /\ job'.saved = job.saved /\ job'.slot = job.slot
        /\ job'.ep = job.ep
    BY <1>2, <2>1, ControlFields
  <2> QED  BY <1>0, <1>1, <1>2, <1>3, <2>1, <2>2, GoesOn DEF KbStays
<1>4. CASE job.kind = "hid" /\ ~kb.ready
  <2>1. /\ Control("setconfig") /\ UNCHANGED <<kb, net>>
        /\ dev' = [dev EXCEPT !.intrEp = job.ep]
    BY <1>4 DEF Advance
  <2>2. /\ cmdRing' = cmdRing /\ job' \in JobState /\ job'.step = "setconfig" /\ job'.asked = 0
        /\ job'.port = job.port /\ job'.kind = job.kind /\ job'.saved = job.saved /\ job'.slot = job.slot
        /\ job'.ep = job.ep
    BY <1>2, <2>1, ControlFields
  <2>3. /\ dev' \in DevState /\ dev'.plugs = dev.plugs /\ dev'.nomem = dev.nomem
        /\ dev'.slot = dev.slot /\ dev'.intrEp = job.ep
    BY <2>1, <1>0 DEF DevState
  <2>4. net' = net /\ kb' = kb  BY <2>1
  <2> QED  BY <1>0, <1>1, <1>2, <1>4, <2>2, <2>3, <2>4, GoesOn DEF KbStays
<1>5. CASE job.kind = "hid" /\ kb.ready
  <2>1. /\ job' = NoJob /\ dev' = [dev EXCEPT !.intrEp = job.ep, !.slot = job.saved]
        /\ kb' = QueuedInterrupt(kb, dev') /\ UNCHANGED <<cmdRing, net>>
    BY <1>5 DEF Advance
  <2>2. dev' \in DevState /\ dev'.plugs = dev.plugs /\ dev'.nomem = dev.nomem /\ dev'.slot = job.saved
    <3>1. job.saved \in Nat  BY <1>0 DEF JobState
    <3> QED  BY <3>1, <2>1, <1>0 DEF DevState
  <2>3. /\ kb' \in KbState /\ kb'.ready = kb.ready /\ kb'.port = kb.port
        /\ kb'.slot = kb.slot /\ kb'.ep = kb.ep
    <3>1. PICK d : kb' = QueuedInterrupt(kb, d)  BY <2>1
    <3> QED  BY <3>1, <1>0, QueuedFields
  <2>4. ~net.ready /\ ~dev.nomem => job.saved = kb.slot
    BY <1>0, <1>5 DEF XhciInv, SlotStands
  <2>5. job' = NoJob /\ cmdRing' = cmdRing /\ net' = net  BY <2>1
  <2> QED  BY <1>0, <1>1, <2>2, <2>3, <2>4, <2>5, PortsStay, JobEnds DEF KbStays
<1>6. CASE job.kind = "other"
  <2>1. Abandoned /\ UNCHANGED <<cmdRing, kb, net>>  BY <1>6 DEF Advance
  <2> QED  BY <1>0, <2>1, AbandonKeeps
<1> QED  BY <1>0, <1>3, <1>4, <1>5, <1>6

\* The configuration is set: a command for its endpoints, and for an adapter
\* rings and a buffer of its own.
LEMMA SetConfigAdvances ==
  ASSUME RoomInRing, XhciInv, Settled, job.step = "setconfig", Advance, UNCHANGED port
  PROVE  XhciInv'
<1>0. /\ job \in JobState /\ dev \in DevState /\ net \in NetState
      /\ dev.slot = job.slot /\ job.slot > 0 /\ job.step \in Commands \cup Transfers
      /\ job.kind \in {"hid", "net"} /\ (job.kind = "hid" => ~kb.ready /\ dev.intrEp = job.ep)
      /\ job.ep \in Endpoints /\ job.ep \in Nat
  BY EndpointNumbers DEF XhciInv, XhciTypes, JobStands, Commands, Transfers, Kinds
<1>1. Issue("configure") /\ UNCHANGED <<dev, kb>>
  BY <1>0 DEF Advance
<1>2. "configure" \in Commands \ {"enable"}  BY DEF Commands
<1>3. /\ cmdRing' = IssuedRing /\ job' \in JobState /\ job'.step = "configure"
      /\ job'.asked = cmdRing.issued + 1
      /\ job'.port = job.port /\ job'.kind = job.kind /\ job'.saved = job.saved /\ job'.slot = job.slot
      /\ job'.ep = job.ep
  BY <1>1, <1>2, IssueFields
<1>4. CASE job.kind = "hid"
  <2>1. net' = net  BY <1>4 DEF Advance
  <2>2. BufferStands'  BY <1>1, <2>1 DEF Settled, KbStays
  <2> QED  BY <1>0, <1>1, <1>2, <1>3, <1>4, <2>1, <2>2, GoesOn
<1>5. CASE job.kind = "net"
  <2>0. net' = [net EXCEPT !.dci = job.ep, !.pending = FALSE, !.full = FALSE, !.trbs = 0,
                            !.setups = @ + 1]
    BY <1>5 DEF Advance
  <2>1. /\ net' \in NetState /\ net'.ready = net.ready /\ net'.setups = net.setups + 1
        /\ net'.trbs = 0 /\ ~net'.pending /\ ~net'.full /\ net'.setups > 0 /\ net'.dci = job.ep
    <3>1. net.setups + 1 \in Nat /\ net.setups + 1 > 0 /\ 0 \in Nat  BY <1>0 DEF NetState
    <3>2. net' = [net EXCEPT !.dci = job.ep, !.pending = FALSE, !.full = FALSE, !.trbs = 0,
                              !.setups = net.setups + 1]
      BY <2>0
    <3> QED  BY <3>1, <3>2, <1>0 DEF NetState
  <2>2. NoStrays'
    <3> SUFFICES ASSUME NEW ep \in Endpoints
                 PROVE  \/ NoXfer(events', ep)
                        \/ kb.ready /\ ep = kb.ep
                        \/ net.ready /\ net'.setups > 1
      BY <1>1, <2>1 DEF NoStrays
    <3>1. \/ NoXfer(events, ep)
          \/ kb.ready /\ ep = kb.ep
          \/ net.ready /\ net.setups > 0
      BY <1>0 DEF XhciInv, BufferStands, NoStrays, NetState
    <3>2. net.setups > 0 => net'.setups > 1  BY <1>0, <2>1 DEF NetState
    <3> QED  BY <3>1, <3>2 DEF Settled
  <2>3. net'.setups <= 1 => ~net.ready
    <3>1. net'.setups <= 1 => net.setups = 0  BY <2>1, <1>0 DEF NetState
    <3> QED  BY <3>1 DEF XhciInv, BufferStands
  <2>4. net'.setups # 0  BY <2>1
  <2>5. BufferStands'  BY <1>0, <2>1, <2>2, <2>3, <2>4 DEF BufferStands
  <2> QED  BY <1>0, <1>1, <1>2, <1>3, <1>5, <2>1, <2>5, GoesOn
<1> QED  BY <1>0, <1>4, <1>5

\* The endpoints are configured: the adapter or the keyboard is set up.
LEMMA ConfigureAdvances ==
  ASSUME RoomInRing, XhciInv, Settled, job.step = "configure", Advance,
         port' = [port EXCEPT ![job.port].ready = TRUE]
  PROVE  XhciInv'
<1>0. /\ job \in JobState /\ dev \in DevState /\ net \in NetState /\ kb \in KbState
      /\ dev.slot = job.slot /\ job.slot > 0 /\ job.step # "none" /\ job.step # "send"
      /\ job.port \in Ports /\ job.port \in Nat
      /\ job.kind \in {"hid", "net"} /\ (job.kind = "hid" => ~kb.ready /\ dev.intrEp = job.ep)
      /\ job.ep \in Endpoints
      /\ (job.kind = "net" => net.setups > 0)
  BY XhciAssumption DEF XhciInv, XhciTypes, JobStands, Commands, Transfers, Kinds
<1>p. /\ port' \in [Ports -> PortState] /\ port'[job.port].ready
      /\ \A p \in Ports : /\ port'[p].dev = port[p].dev /\ port'[p].ep = port[p].ep
                          /\ port'[p].attempted = port[p].attempted
  <2>0. port \in [Ports -> PortState]  BY DEF XhciInv, XhciTypes
  <2>1. port' = [port EXCEPT ![job.port] = [port[job.port] EXCEPT !.ready = TRUE]]
    BY <2>0, <1>0
  <2> DEFINE q == [port[job.port] EXCEPT !.ready = TRUE]
  <2>2. /\ q \in PortState /\ q.ready /\ q.dev = port[job.port].dev /\ q.ep = port[job.port].ep
        /\ q.attempted = port[job.port].attempted
    BY <2>0, <1>0 DEF PortState
  <2> HIDE DEF q
  <2> QED  BY <2>0, <2>1, <2>2, <1>0 DEF q
<1>q. dev.plugs <= 1 =>
        /\ \A p, q \in Ports : port[p].dev # "none" /\ port[q].dev # "none" => p = q
        /\ \A p \in Ports : port'[p].dev # "none" => port'[p].attempted /\ port'[p].ready
  <2>1. job.step \in Commands  BY DEF Commands
  <2> QED  BY <1>0, <1>p, <2>1, BusyDevices
<1>1. CASE job.kind = "net"
  <2>0. NetSetUp  BY <1>1 DEF Advance
  <2>1. /\ kb' \in KbState /\ kb'.ready = kb.ready /\ kb'.port = kb.port
        /\ kb'.slot = kb.slot /\ kb'.ep = kb.ep
    BY <1>0, <2>0, QueuedFields DEF NetSetUp
  <2>2. /\ net' \in NetState /\ net'.ready /\ net'.pending = net.pending /\ net'.full = net.full
        /\ net'.trbs = net.trbs /\ net'.setups = net.setups /\ net'.dci = net.dci
    BY <1>0, <2>0 DEF NetSetUp, NetState
  <2>3. UNCHANGED <<cmdRing, dev>> /\ job' = NoJob  BY <2>0 DEF NetSetUp
  <2>4. BufferStands'
    <3>1. net.setups # 0 /\ net.dci \in Endpoints  BY <1>0, <1>1 DEF XhciInv, BufferStands
    <3>2. EndpointShared' <=> EndpointShared  BY <2>1, <2>2 DEF EndpointShared
    <3>3. NoStrays'  BY <2>1, <2>2 DEF XhciInv, BufferStands, NoStrays, Settled
    <3>4. ASSUME net.setups <= 1, ~EndpointShared
          PROVE  /\ net.trbs <= 1 /\ LoneXfer(events', net.dci, 0)
                 /\ net.trbs = 1 => net.pending /\ NoXfer(events', net.dci)
                 /\ ~net.pending => NoXfer(events', net.dci)
                 /\ net.full => ~net.pending
      <4>1. CASE net.ready  BY <3>4, <4>1 DEF XhciInv, BufferStands, Settled
      <4>2. CASE ~net.ready
        <5>1. net.trbs = 0 /\ ~net.pending /\ ~net.full  BY <4>2 DEF XhciInv, BufferStands
        <5>2. NoXfer(events, net.dci)
          BY <3>1, <3>4, <4>2 DEF XhciInv, BufferStands, NoStrays, EndpointShared
        <5>3. NoXfer(events', net.dci)  BY <5>2 DEF Settled
        <5> QED  BY <5>1, <5>3, NoIsLone
      <4> QED  BY <4>1, <4>2
    <3> QED  BY <3>1, <3>2, <3>3, <3>4, <2>2 DEF BufferStands
  <2> QED  BY <1>0, <1>p, <1>q, <2>1, <2>2, <2>3, <2>4, JobEnds
<1>2. CASE job.kind = "hid"
  <2>0. KeyboardSetUp  BY <1>2 DEF Advance
  <2>1. /\ kb' \in KbState /\ kb'.ready /\ kb'.port = job.port /\ kb'.slot = job.slot
        /\ kb'.ep = dev.intrEp /\ kb'.trbs = 1 /\ kb'.rung
    <3> DEFINE k == [ready |-> TRUE, port |-> job.port, slot |-> job.slot,
                     ep |-> dev.intrEp, trbs |-> 0, rung |-> FALSE]
    <3>1. /\ k \in KbState /\ k.ready /\ k.port = job.port /\ k.slot = job.slot
          /\ k.ep = dev.intrEp /\ k.trbs = 0
      <4>1. job.slot \in Nat /\ dev.intrEp \in Nat /\ 0 \in Nat  BY <1>0 DEF JobState, DevState
      <4> QED  BY <4>1, <1>0 DEF KbState
    <3>2. kb' = QueuedInterrupt(k, dev)  BY <2>0 DEF KeyboardSetUp
    <3> HIDE DEF k
    <3>3. /\ kb' \in KbState /\ kb'.ready = k.ready /\ kb'.port = k.port /\ kb'.slot = k.slot
          /\ kb'.ep = k.ep /\ kb'.trbs = k.trbs + 1
          /\ dev.slot = k.slot /\ dev.intrEp = k.ep => kb'.rung
      BY <3>1, <3>2, QueuedFields
    <3> QED  BY <3>1, <3>3, <1>0
  <2>2. UNCHANGED <<cmdRing, dev, net>> /\ job' = NoJob  BY <2>0 DEF KeyboardSetUp
  <2>3. job' \in JobState /\ job'.step = "none"  BY <2>2, NoJobFields
  <2>4. cmdRing' \in CmdRingState /\ RingStands' /\ CommandsOut' /\ AnswersOut'
    BY <2>2, <2>3, NoJobFields, SettledStands
  <2>5. XhciTypes'  BY <1>p, <2>1, <2>2, <2>3, <2>4 DEF XhciInv, XhciTypes, Settled
  <2>6. JobStands'  BY <1>0, <1>2, <2>1, <2>2, <2>3, NoJobFields DEF JobStands
  <2>7. BufferStands'  BY <1>0, <1>2, <2>2 DEF Settled, KbStays
  <2>8. FirstDevice'
    <3>1. dev.plugs <= 1 => ~net.ready  BY <1>0, BusyDevices
    <3> QED  BY <1>0, <1>p, <1>q, <2>2, <2>3, <3>1, BusyDevices, NoJobFields DEF FirstDevice
  <2>9. KeyboardStands'
    <3>1. ASSUME dev.plugs <= 1 PROVE NoXfer(events', dev.intrEp)
      <4>1. ~net.ready  BY <3>1, <1>0, BusyDevices
      <4>2. NoXfer(events, job.ep)
        BY <4>1, <1>0, <1>2 DEF XhciInv, BufferStands, NoStrays
      <4> QED  BY <4>2, <1>0, <1>2 DEF Settled
    <3> QED  BY <3>1, <1>0, <1>2, <2>1, <2>2 DEF KeyboardStands
  <2>10. SlotStands'  BY <1>0, <2>1, <2>2, <2>3 DEF SlotStands
  <2> QED  BY <2>4, <2>5, <2>6, <2>7, <2>8, <2>9, <2>10 DEF XhciInv
<1> QED  BY <1>0, <1>1, <1>2

\* A frame was sent.
LEMMA SendAdvances ==
  ASSUME RoomInRing, XhciInv, Settled, job.step = "send", Advance, UNCHANGED port
  PROVE  XhciInv'
<1>1. job' = NoJob /\ UNCHANGED <<cmdRing, dev, kb, net>>  BY DEF Advance
<1>2. /\ dev \in DevState /\ kb \in KbState /\ net \in NetState /\ net.ready /\ job.step # "none"
  BY DEF XhciInv, XhciTypes, JobStands
<1>3. BufferStands'  BY <1>1 DEF Settled, KbStays
<1> QED  BY <1>1, <1>2, <1>3, PortsStay, JobEnds DEF XhciInv, SlotStands

\* A wait looks at the next event.
LEMMA WaitTakesStep == RoomInRing /\ XhciInv /\ WaitTakes => XhciInv'
<1> SUFFICES ASSUME RoomInRing, XhciInv, WaitTakes PROVE XhciInv'
  OBVIOUS
<1> DEFINE e == Head(events)
<1>0. /\ job.step # "none" /\ events # <<>> /\ events' = Tail(events)
      /\ UNCHANGED <<hc, late>> /\ job \in JobState
      /\ port' = IF job.step = "configure" /\ IsAnswer(e) /\ e.ok
                 THEN [port EXCEPT ![job.port].ready = TRUE] ELSE port
      /\ IF IsAnswer(e)
         THEN /\ mistaken' = (mistaken \/ e.id # job.asked)
              /\ IF e.ok THEN Advance ELSE Abandoned /\ UNCHANGED <<cmdRing, kb, net>>
         ELSE /\ net' = IF job.step \notin Commands /\ IsRx(e) THEN HandledRx(net, e) ELSE net
              /\ UNCHANGED <<cmdRing, dev, kb, job, mistaken>>
  BY DEF WaitTakes, XhciInv, XhciTypes
<1> HIDE DEF e
<1>e. e = Head(events)  BY DEF e
<1>1. CASE IsAnswer(e)
  <2>1. Settled  BY <1>0, <1>1, <1>e, AnswerSettles
  <2>2. CASE ~e.ok
    <3>1. Abandoned /\ UNCHANGED <<port, cmdRing, kb, net>>  BY <1>0, <1>1, <2>2
    <3> QED  BY <1>0, <2>1, <3>1, AbandonKeeps
  <2>3. CASE e.ok
    <3>1. /\ Advance
          /\ job.step # "configure" => UNCHANGED port
          /\ job.step = "configure" => port' = [port EXCEPT ![job.port].ready = TRUE]
      BY <1>0, <1>1, <2>3
    <3>2. job.step \in {"enable", "address", "device", "evaluate", "config", "setconfig", "configure", "send"}
      BY <1>0 DEF JobState, JobSteps, Commands, Transfers
    <3> QED
      BY <2>1, <3>1, <3>2, EnableAdvances, DescriptorsAdvance, ConfigAdvances, SetConfigAdvances,
         ConfigureAdvances, SendAdvances
  <2> QED  BY <2>2, <2>3
<1>2. CASE ~IsAnswer(e)
  <2>1. /\ net' = net \/ (IsRx(e) /\ net' = HandledRx(net, e))
        /\ UNCHANGED <<port, cmdRing, hc, dev, kb, job, late, mistaken>>
    BY <1>0, <1>2
  <2>2. ~(kb.ready /\ dev.plugs <= 1)  BY <1>0, BusyDevices
  <2> QED  BY <1>0, <1>2, <1>e, <2>1, <2>2, EventDropped
<1> QED  BY <1>1, <1>2

LEMMA XhciSteps ==
  ASSUME RoomInRing
  PROVE  XhciInv /\ [XhciNext]_xhciVars => XhciInv'
<1>1. XhciInv /\ XhciNext => XhciInv'
  BY HandleEventStep, RecvFrameStep, SendFrameStep, RescanStep, WaitTakesStep, HcExecutesStep,
     HcFollowsStep, AnswerQueued, KeyReportStep, FrameReportStep, PlugStep, UnplugStep,
     WaitTimesOutStep DEF XhciNext, XhciDriver, XhciHardware
<1>2. XhciInv /\ UNCHANGED xhciVars => XhciInv'
  <2> SUFFICES ASSUME XhciInv, UNCHANGED xhciVars PROVE XhciInv'
    OBVIOUS
  <2>1. UNCHANGED <<port, cmdRing, hc, events, dev, kb, net, job, late, mistaken>>  BY DEF xhciVars
  <2>2. XhciTypes'  BY <2>1 DEF XhciInv, XhciTypes
  <2> QED  BY <2>1, <2>2, XhciFrame DEF XhciInv
<1> QED  BY <1>1, <1>2

LEMMA RingsInStepFollows == RoomInRing /\ XhciInv => RingsInStep
<1> SUFFICES ASSUME RoomInRing, XhciInv PROVE RingsInStep
  OBVIOUS
<1>0. /\ hc \in HcState /\ net \in NetState /\ cmdRing \in CmdRingState
  BY DEF XhciInv, XhciTypes
<1>1. CommandsOnceInOrder
  <2>1. \A i \in DOMAIN hc.done : hc.done[i] = i
    BY <1>0 DEF XhciInv, RingStands, DoneInOrder, HcState
  <2>2. ASSUME Len(hc.done) < cmdRing.issued
        PROVE  hc.cycle = IF hc.at < RingLink THEN cmdRing.trb[hc.at].cycle ELSE cmdRing.link
    <3> DEFINE t == cmdRing.trb
               idx == cmdRing.idx
               d == Len(hc.done)
               n == cmdRing.issued
    <3>0. /\ hc.at \in 0 .. RingLink /\ idx \in Positions /\ d \in Nat /\ n \in Nat /\ d < n
          /\ RingLink \in Nat \ {0}
      BY <1>0, <2>2, XhciAssumption DEF HcState, CmdRingState
    <3>1. CASE Same(t, idx, cmdRing.cycle, n, hc.at, hc.cycle, d)
      <4>1. hc.cycle = cmdRing.cycle /\ hc.at < idx /\ hc.at < RingLink /\ hc.at \in Positions
        <5> HIDE DEF d, n, idx, t
        <5> QED  BY <3>0, <3>1 DEF Same, Positions
      <4>2. t[hc.at].cycle = cmdRing.cycle
        <5> HIDE DEF d, n, idx, t
        <5> QED  BY <3>1, <4>1 DEF Same
      <4> QED  BY <4>1, <4>2
    <3>2. CASE Behind(t, idx, cmdRing.cycle, cmdRing.link, n, hc.at, hc.cycle, d)
      <4>1. cmdRing.link = hc.cycle  BY <3>2 DEF Behind
      <4>2. n - d < RingLink
        <5>1. n - d <= Allowed /\ Allowed \in Nat /\ Allowed <= MaxTimeouts + 1
          BY XhciAssumption DEF XhciInv, XhciTypes, CommandsOut, OutWith, Allowed
        <5>2. MaxTimeouts \in Nat  BY XhciAssumption
        <5> HIDE DEF d, n
        <5> QED  BY <5>1, <5>2, <3>0 DEF RoomInRing
      <4>3. ASSUME hc.at < RingLink PROVE t[hc.at].cycle = hc.cycle
        <5> HIDE DEF d, n, idx, t
        <5>1. hc.at \in Positions /\ n - d = (RingLink - hc.at) + idx
          BY <4>3, <3>0, <3>2 DEF Behind, Positions
        <5>2. hc.at >= idx  BY <5>1, <4>2, <3>0 DEF Positions
        <5> QED  BY <5>1, <5>2, <3>2 DEF Behind
      <4> QED  BY <4>1, <4>3
    <3> QED  BY <3>1, <3>2 DEF XhciInv, RingStands, SameLap, LapBehind
  <2>3. Len(hc.done) <= cmdRing.issued  BY DEF XhciInv, RingStands
  <2> QED  BY <2>1, <2>2, <2>3 DEF CommandsOnceInOrder
<1>2. AnswersAreOwn  BY DEF XhciInv, AnswersOut, AnswersAreOwn
<1>3. RxBufferHasOneOwner
  <2>1. net.trbs \in Nat  BY <1>0 DEF NetState
  <2>2. net.setups <= 1 /\ ~EndpointShared =>
          /\ net.trbs <= 1 /\ (net.trbs = 1 => net.pending) /\ (net.full => ~net.pending)
          /\ ~net.ready => net.trbs = 0 /\ ~net.full
    BY DEF XhciInv, BufferStands
  <2> QED  BY <2>1, <2>2 DEF RxBufferHasOneOwner
<1> QED  BY <1>1, <1>2, <1>3 DEF RingsInStep

LEMMA DevicesKeptFollows == XhciInv => DevicesKept
<1> SUFFICES ASSUME XhciInv PROVE DevicesKept
  OBVIOUS
<1>1. LoneKeyboardListens
  <2> SUFFICES ASSUME kb.ready, dev.plugs = 1
               PROVE  \/ kb.trbs = 1 /\ kb.rung
                      \/ kb.trbs = 0 /\ \E i \in DOMAIN events : events[i].ep = kb.ep
    BY DEF LoneKeyboardListens
  <2>1. \/ kb.trbs = 1 /\ kb.rung
        \/ kb.trbs = 0 /\ SomeXfer(events, kb.ep)
    BY DEF XhciInv, KeyboardStands
  <2>2. SomeXfer(events, kb.ep) => \E i \in DOMAIN events : events[i].ep = kb.ep
    BY DEF XhciInv, XhciTypes, SomeXfer, IsXfer
  <2> QED  BY <2>1, <2>2
<1>2. SlotIsPutBack  BY DEF XhciInv, SlotStands, SlotIsPutBack
<1> QED  BY <1>1, <1>2 DEF DevicesKept

\* The command ring runs in step with its controller, a wait takes its own
\* answer as long as none was given up, and the adapter's buffer has one owner
\* unless the keyboard answers on the adapter's endpoint
\* (xhci_cmd_enqueue, xhci_wait_for_cmd, xhci_usbnet_arm_rx): for every number
\* of ports and every ring with room for the commands of all waits that give up.
THEOREM RingsStayInStep ==
  ASSUME RoomInRing
  PROVE  DevicesSpec => []RingsInStep
<1>1. DevicesInit => XhciInv  BY XhciStarts DEF DevicesInit
<1>2. XhciInv /\ [DevicesNext]_deviceVars => XhciInv'
  <2>1. [DevicesNext]_deviceVars => [XhciNext]_xhciVars
    BY DEF DevicesNext, Radio, Usb, deviceVars
  <2> QED  BY <2>1, XhciSteps
<1>3. XhciInv => RingsInStep  BY RingsInStepFollows
<1> QED  BY <1>1, <1>2, <1>3, PTL DEF DevicesSpec

\* A keyboard that is alone keeps a transfer to answer into, and an enumeration
\* that fails half way gives device_slot back to it (xhci_setup_keyboard,
\* xhci_handle_event), for every ring with room for the commands of
\* the waits that give up.
THEOREM DevicesStayKept ==
  ASSUME RoomInRing
  PROVE  DevicesSpec => []DevicesKept
<1>1. DevicesInit => XhciInv  BY XhciStarts DEF DevicesInit
<1>2. XhciInv /\ [DevicesNext]_deviceVars => XhciInv'
  <2>1. [DevicesNext]_deviceVars => [XhciNext]_xhciVars
    BY DEF DevicesNext, Radio, Usb, deviceVars
  <2> QED  BY <2>1, XhciSteps
<1>3. XhciInv => DevicesKept  BY DevicesKeptFollows
<1> QED  BY <1>1, <1>2, <1>3, PTL DEF DevicesSpec

-----------------------------------------------------------------------------
(* The Ethernet rings.                                                     *)

EthernetKinds == {"none", "e1000", "virtio", "rtl8139"}
RtlPackets == [at : 0 .. RtlRing - 1, len : Lengths, id : Nat]

\* The two rings.
RxStates ==
  [buf : [RxSlots -> Nat], dd : [RxSlots -> BOOLEAN], next : RxSlots, head : RxSlots, tail : RxSlots,
   avail : Seq(RxSlots), used : Seq(RxSlots), packets : Seq(RtlPackets),
   offset : 0 .. RtlRing - 1, cbr : 0 .. RtlRing - 1]

TxStates ==
  [buf : [TxSlots -> Nat], free : [TxSlots -> BOOLEAN], tail : TxSlots,
   queue : Seq(TxSlots), used : Seq(TxSlots)]

\* Frames that are counted from one on.
Numbered(q) == q \in Seq(Nat) /\ \A i \in DOMAIN q : q[i] = i

\* A list that has nothing twice.
Distinct(q) == \A i, j \in DOMAIN q : q[i] = q[j] => i = j

\* Two lists that share nothing.
Apart(p, q) == \A i \in DOMAIN p, j \in DOMAIN q : p[i] # q[j]

RingTypes ==
  /\ nic \in [kind : EthernetKinds, link : BOOLEAN] /\ rx \in RxStates /\ tx \in TxStates
  /\ Numbered(delivered) /\ Numbered(received) /\ Numbered(accepted) /\ Numbered(onWire)

\* How far a descriptor is behind the next one to be read.
Distance(r, i) == IF i >= r.next THEN i - r.next ELSE i - r.next + RxDesc

FilledSlots(r) == {i \in RxSlots : r.dd[i]}

\* The e1000 has filled the descriptors from the next one to be read up to its
\* head, with the frames that follow the ones received; the one before the next
\* is the tail, which it does not fill.
DescriptorsHold(r, in, out) ==
  /\ r.tail = IF r.next = 0 THEN RxDesc - 1 ELSE r.next - 1
  /\ \A i \in RxSlots : /\ r.dd[i] <=> Distance(r, i) < Distance(r, r.head)
                        /\ r.dd[i] => r.buf[i] = out + 1 + Distance(r, i)
  /\ in = out + Distance(r, r.head)
  /\ Cardinality(FilledSlots(r)) = Distance(r, r.head)

\* Every buffer of virtio-net is listed once, as available or as used, and the
\* used ones hold the frames that follow the ones received.
ListsHold(r, in, out) ==
  /\ Distinct(r.avail) /\ Distinct(r.used) /\ Apart(r.avail, r.used)
  /\ Len(r.avail) + Len(r.used) = RxDesc
  /\ \A i \in DOMAIN r.used : r.buf[r.used[i]] = out + i
  /\ in = out + Len(r.used)

\* How far a byte of the ring is from the next one to be read.
Ahead(r, at) == IF at >= r.offset THEN at - r.offset ELSE at - r.offset + RtlRing

\* A packet at distance a ends before distance b.
Within(a, len, b) == a < b /\ a + len + 4 <= b

\* The packets of the RTL8139 lie one after the other, from the offset of the
\* driver to that of the controller, and are the frames that follow.
BytesHold(r, in, out) ==
  /\ in = out + Len(r.packets)
  /\ \A i \in DOMAIN r.packets : r.packets[i].id = out + i /\ r.packets[i].len + 8 < RtlRing
  /\ IF r.packets = <<>> THEN r.cbr = r.offset
     ELSE /\ r.packets[1].at = r.offset
          /\ r.cbr = RtlAdvance(r.packets[Len(r.packets)].at, r.packets[Len(r.packets)].len)
  /\ \A i \in DOMAIN r.packets : Within(Ahead(r, r.packets[i].at), r.packets[i].len, Ahead(r, r.cbr))
  /\ \A i, j \in DOMAIN r.packets : i < j => Ahead(r, r.packets[i].at) < Ahead(r, r.packets[j].at)
  /\ \A i \in DOMAIN r.packets : i + 1 \in DOMAIN r.packets =>
       r.packets[i + 1].at = RtlAdvance(r.packets[i].at, r.packets[i].len)

\* What the receive ring holds of the frames that came and were not taken, by
\* controller.
RxHolds(r, in, out) ==
  /\ nic.kind = "none" => r = EmptyRx /\ in = 0 /\ out = 0
  /\ nic.kind = "e1000" => DescriptorsHold(r, in, out)
  /\ nic.kind = "virtio" => ListsHold(r, in, out)
  /\ nic.kind = "rtl8139" => BytesHold(r, in, out)

\* The buffers handed over are not free, each of them is listed once, and the
\* queue holds the frames that follow the ones on the wire.
TxHolds(t, in, out) ==
  /\ Distinct(t.queue) /\ Distinct(t.used) /\ Apart(t.queue, t.used)
  /\ \A i \in DOMAIN t.queue : ~t.free[t.queue[i]] /\ t.buf[t.queue[i]] = out + i
  /\ \A i \in DOMAIN t.used : ~t.free[t.used[i]]
  /\ in = out + Len(t.queue)

\* What holds of both rings at any time.
RingsInv ==
  RingTypes /\ RxHolds(rx, Len(delivered), Len(received)) /\ TxHolds(tx, Len(accepted), Len(onWire))

\* The sizes the assumption gives.
LEMMA RingSizes ==
  /\ RxDesc \in Nat \ {0, 1} /\ TxDesc \in Nat \ {0, 1} /\ MaxFrames \in Nat
  /\ RtlRing \in Nat \ {0} /\ Lengths \subseteq Nat \ {0}
  BY NetRingsAssumption

\* The descriptor that follows.
LEMMA NextDescriptor ==
  ASSUME NEW i \in RxSlots
  PROVE  (i + 1) % RxDesc \in RxSlots /\ (i + 1) % RxDesc = IF i = RxDesc - 1 THEN 0 ELSE i + 1
  <1>1. RxDesc \in Nat /\ RxDesc > 1 /\ i \in 0 .. RxDesc - 1
    BY RingSizes DEF RxSlots
  <1>2. CASE i = RxDesc - 1
    BY ONLY <1>1, <1>2 DEF RxSlots
  <1>3. CASE i # RxDesc - 1
    BY ONLY <1>1, <1>3 DEF RxSlots
  <1>4. QED
    BY <1>2, <1>3

\* The next frame gets the next number.
LEMMA NumberedGrows ==
  ASSUME NEW q, Numbered(q), NEW r, r = Append(q, Len(q) + 1)
  PROVE  Numbered(r) /\ Len(r) = Len(q) + 1 /\ Len(q) \in Nat
  BY DEF Numbered

\* There are finitely many descriptors.
LEMMA FilledFinite ==
  ASSUME NEW r
  PROVE  IsFiniteSet(FilledSlots(r))
  <1>1. IsFiniteSet(RxSlots)
    BY RingSizes, FS_Interval DEF RxSlots
  <1>2. QED
    BY <1>1, FS_Subset DEF FilledSlots

\* The e1000 fills the descriptor at its head.
LEMMA DescriptorFilled ==
  ASSUME NEW r \in RxStates, NEW in \in Nat, NEW out \in Nat, DescriptorsHold(r, in, out), r.head # r.tail,
         NEW q, q = [r EXCEPT !.buf[r.head] = in + 1, !.dd[r.head] = TRUE, !.head = (@ + 1) % RxDesc]
  PROVE  q \in RxStates /\ DescriptorsHold(q, in + 1, out)
  <1>1. PICK h, b, d : /\ h \in RxSlots /\ h = (r.head + 1) % RxDesc /\ b = [r.buf EXCEPT ![r.head] = in + 1]
                                  /\ d = [r.dd EXCEPT ![r.head] = TRUE]
    BY NextDescriptor DEF RxStates
  <1>2. /\ r.head \in RxSlots /\ r.next \in RxSlots /\ r.tail \in RxSlots
        /\ r.dd \in [RxSlots -> BOOLEAN] /\ r.buf \in [RxSlots -> Nat]
    BY DEF RxStates
  <1>3. q = [r EXCEPT !.buf = b, !.dd = d, !.head = h]
    BY <1>1 DEF RxStates
  <1>4. q \in RxStates /\ q.next = r.next /\ q.tail = r.tail /\ q.dd = d /\ q.buf = b /\ q.head = h
    <2>1. b \in [RxSlots -> Nat] /\ d \in [RxSlots -> BOOLEAN]
      BY ONLY <1>1, <1>2, in \in Nat
    <2>2. QED
      BY ONLY <1>1, <1>3, <2>1, r \in RxStates DEF RxStates
  <1>5. \A i : Distance(q, i) = Distance(r, i)
    BY ONLY <1>4 DEF Distance
  <1>6. RxDesc \in Nat /\ RxDesc > 1 /\ h = IF r.head = RxDesc - 1 THEN 0 ELSE r.head + 1
    BY <1>1, <1>2, RingSizes, NextDescriptor
  <1>7. Distance(r, h) = Distance(r, r.head) + 1 /\ \A i \in RxSlots : Distance(r, i) \in 0 .. RxDesc - 1
    <2>1. r.tail = IF r.next = 0 THEN RxDesc - 1 ELSE r.next - 1
      BY DEF DescriptorsHold
    <2>2. PICK x, y, z : x = r.head /\ y = r.next /\ z = r.tail
      OBVIOUS
    <2>3. x \in 0 .. RxDesc - 1 /\ y \in 0 .. RxDesc - 1 /\ x # z
      BY <1>2, <2>2 DEF RxSlots
    <2>4. Distance(r, h) = Distance(r, r.head) + 1
      BY ONLY <1>6, <2>1, <2>2, <2>3 DEF Distance
    <2>5. \A i \in RxSlots : Distance(r, i) \in 0 .. RxDesc - 1
      BY ONLY <1>6, <2>2, <2>3 DEF Distance, RxSlots
    <2>6. QED
      BY <2>4, <2>5
  <1>8. \A i \in RxSlots : Distance(r, i) = Distance(r, r.head) <=> i = r.head
    BY ONLY <1>2, <1>6 DEF Distance, RxSlots
  <1>9. \A i \in RxSlots : /\ d[i] <=> Distance(r, i) < Distance(r, h)
                           /\ d[i] => b[i] = out + 1 + Distance(r, i)
    <2>1. /\ \A i \in RxSlots : /\ r.dd[i] <=> Distance(r, i) < Distance(r, r.head)
                                /\ r.dd[i] => r.buf[i] = out + 1 + Distance(r, i)
          /\ in = out + Distance(r, r.head)
      BY DEF DescriptorsHold
    <2>2. SUFFICES ASSUME NEW i \in RxSlots
                   PROVE  (d[i] <=> Distance(r, i) < Distance(r, h)) /\ (d[i] => b[i] = out + 1 + Distance(r, i))
      OBVIOUS
    <2>3. PICK x, y, z : x = Distance(r, i) /\ y = Distance(r, r.head) /\ z = Distance(r, h)
      OBVIOUS
    <2>4. x \in Int /\ y \in Int /\ z = y + 1 /\ (x = y <=> i = r.head)
      BY ONLY <1>2, <1>7, <1>8, <2>3, i \in RxSlots
    <2>5. CASE i = r.head
      <3>1. d[i] = TRUE /\ b[i] = in + 1
        BY ONLY <1>1, <1>2, <2>5
      <3>2. QED
        BY ONLY <2>1, <2>3, <2>4, <2>5, <3>1, in \in Nat, out \in Nat
    <2>6. CASE i # r.head
      <3>1. d[i] = r.dd[i] /\ b[i] = r.buf[i]
        BY ONLY <1>1, <1>2, <2>6, i \in RxSlots
      <3>2. (r.dd[i] <=> x < y) /\ (r.dd[i] => r.buf[i] = out + 1 + x)
        BY ONLY <2>1, <2>3, i \in RxSlots
      <3>3. x < y <=> x < z
        BY ONLY <2>4, <2>6
      <3>4. QED
        BY ONLY <2>3, <3>1, <3>2, <3>3
    <2>7. QED
      BY <2>5, <2>6
  <1>10. Cardinality(FilledSlots(q)) = Distance(r, h)
    <2>1. FilledSlots(q) = FilledSlots(r) \cup {r.head} /\ r.head \notin FilledSlots(r)
      <3>1. ~r.dd[r.head]
        BY <1>2, <1>7 DEF DescriptorsHold
      <3>2. QED
        BY ONLY <1>1, <1>2, <1>4, <3>1 DEF FilledSlots
    <2>2. IsFiniteSet(FilledSlots(r))
      BY FilledFinite
    <2>3. Cardinality(FilledSlots(r)) = Distance(r, r.head)
      BY DEF DescriptorsHold
    <2>4. QED
      BY <1>7, <2>1, <2>2, <2>3, FS_AddElement
  <1>11. in + 1 = out + Distance(r, h)
    <2>1. in = out + Distance(r, r.head) /\ Distance(r, r.head) \in Int
      BY <1>2, <1>7 DEF DescriptorsHold
    <2>2. QED
      BY ONLY <1>7, <2>1, in \in Nat, out \in Nat
  <1>12. q.tail = IF q.next = 0 THEN RxDesc - 1 ELSE q.next - 1
    BY <1>4 DEF DescriptorsHold
  <1>13. QED
    BY ONLY <1>4, <1>5, <1>9, <1>10, <1>11, <1>12 DEF DescriptorsHold

\* The driver reads the next descriptor, and gives it back to the controller.
LEMMA DescriptorRead ==
  ASSUME NEW r \in RxStates, NEW in \in Nat, NEW out \in Nat, DescriptorsHold(r, in, out), r.dd[r.next] = TRUE,
         NEW q, q = [r EXCEPT !.dd[r.next] = FALSE, !.tail = r.next, !.next = (@ + 1) % RxDesc]
  PROVE  q \in RxStates /\ DescriptorsHold(q, in, out + 1) /\ r.buf[r.next] = out + 1 /\ out < in
  <1>1. PICK n, d : /\ n \in RxSlots /\ n = (r.next + 1) % RxDesc /\ d = [r.dd EXCEPT ![r.next] = FALSE]
    BY NextDescriptor DEF RxStates
  <1>2. /\ r.head \in RxSlots /\ r.next \in RxSlots
        /\ r.dd \in [RxSlots -> BOOLEAN] /\ r.buf \in [RxSlots -> Nat]
    BY DEF RxStates
  <1>3. q = [r EXCEPT !.dd = d, !.tail = r.next, !.next = n]
    BY <1>1 DEF RxStates
  <1>4. q \in RxStates /\ q.next = n /\ q.tail = r.next /\ q.dd = d /\ q.buf = r.buf /\ q.head = r.head
    <2>1. d \in [RxSlots -> BOOLEAN]
      BY ONLY <1>1, <1>2
    <2>2. QED
      BY ONLY <1>1, <1>2, <1>3, <2>1, r \in RxStates DEF RxStates
  <1>5. RxDesc \in Nat /\ RxDesc > 1 /\ n = IF r.next = RxDesc - 1 THEN 0 ELSE r.next + 1
    BY <1>1, <1>2, RingSizes, NextDescriptor
  <1>6. \A i \in RxSlots : /\ Distance(r, i) \in 0 .. RxDesc - 1
                           /\ Distance(r, i) = 0 <=> i = r.next
                           /\ Distance(q, i) = IF i = r.next THEN RxDesc - 1 ELSE Distance(r, i) - 1
    <2>1. SUFFICES ASSUME NEW i \in RxSlots
                   PROVE  /\ Distance(r, i) \in 0 .. RxDesc - 1
                          /\ Distance(r, i) = 0 <=> i = r.next
                          /\ Distance(q, i) = IF i = r.next THEN RxDesc - 1 ELSE Distance(r, i) - 1
      OBVIOUS
    <2>2. PICK y : y = r.next
      OBVIOUS
    <2>3. y \in 0 .. RxDesc - 1 /\ i \in 0 .. RxDesc - 1 /\ q.next = IF y = RxDesc - 1 THEN 0 ELSE y + 1
      BY ONLY <1>2, <1>4, <1>5, <2>2, i \in RxSlots DEF RxSlots
    <2>4. QED
      BY ONLY <1>5, <2>2, <2>3 DEF Distance
  <1>7. /\ \A i \in RxSlots : /\ r.dd[i] <=> Distance(r, i) < Distance(r, r.head)
                              /\ r.dd[i] => r.buf[i] = out + 1 + Distance(r, i)
        /\ in = out + Distance(r, r.head)
    BY DEF DescriptorsHold
  <1>8. PICK y : y = Distance(r, r.head)
    OBVIOUS
  <1>9. y \in 1 .. RxDesc - 1 /\ Distance(q, q.head) = y - 1 /\ in = out + y
    <2>1. Distance(r, r.next) < y /\ Distance(r, r.next) = 0 /\ y \in 0 .. RxDesc - 1
      BY ONLY <1>2, <1>6, <1>7, <1>8, r.dd[r.next]
    <2>2. r.head # r.next
      BY ONLY <1>2, <1>6, <1>8, <2>1
    <2>3. Distance(q, q.head) = y - 1
      BY ONLY <1>2, <1>4, <1>6, <1>8, <2>2
    <2>4. QED
      BY ONLY <1>5, <1>7, <1>8, <2>1, <2>3
  <1>10. r.buf[r.next] = out + 1 /\ out < in
    <2>1. r.buf[r.next] = out + 1 + 0
      BY ONLY <1>2, <1>6, <1>7, r.dd[r.next]
    <2>2. QED
      BY ONLY <1>9, <2>1, in \in Nat, out \in Nat
  <1>11. \A i \in RxSlots : /\ q.dd[i] <=> Distance(q, i) < Distance(q, q.head)
                            /\ q.dd[i] => q.buf[i] = (out + 1) + 1 + Distance(q, i)
    <2>1. SUFFICES ASSUME NEW i \in RxSlots
                   PROVE  /\ q.dd[i] <=> Distance(q, i) < Distance(q, q.head)
                          /\ q.dd[i] => q.buf[i] = (out + 1) + 1 + Distance(q, i)
      OBVIOUS
    <2>2. CASE i = r.next
      <3>1. q.dd[i] = FALSE /\ Distance(q, i) = RxDesc - 1
        BY ONLY <1>1, <1>2, <1>4, <1>6, <2>2
      <3>2. QED
        BY ONLY <1>5, <1>9, <3>1
    <2>3. CASE i # r.next
      <3>1. q.dd[i] = r.dd[i] /\ q.buf[i] = r.buf[i] /\ Distance(q, i) = Distance(r, i) - 1
        BY ONLY <1>1, <1>2, <1>4, <1>6, <2>3, i \in RxSlots
      <3>2. PICK x : x = Distance(r, i)
        OBVIOUS
      <3>3. x \in 0 .. RxDesc - 1 /\ (r.dd[i] <=> x < y) /\ (r.dd[i] => r.buf[i] = out + 1 + x)
        BY ONLY <1>6, <1>7, <1>8, <3>2, i \in RxSlots
      <3>4. x < y <=> x - 1 < y - 1
        BY ONLY <1>5, <1>9, <3>3
      <3>5. out + 1 + x = (out + 1) + 1 + (x - 1)
        BY ONLY <1>5, <3>3, out \in Nat
      <3>6. QED
        BY ONLY <1>9, <3>1, <3>2, <3>3, <3>4, <3>5
    <2>4. QED
      BY <2>2, <2>3
  <1>12. Cardinality(FilledSlots(q)) = Distance(q, q.head)
    <2>1. FilledSlots(q) = FilledSlots(r) \ {r.next} /\ r.next \in FilledSlots(r)
      BY ONLY <1>1, <1>2, <1>4, r.dd[r.next] DEF FilledSlots
    <2>2. IsFiniteSet(FilledSlots(r))
      BY FilledFinite
    <2>3. Cardinality(FilledSlots(r)) = y
      BY <1>8 DEF DescriptorsHold
    <2>4. Cardinality(FilledSlots(q)) = y - 1
      BY <2>1, <2>2, <2>3, FS_RemoveElement
    <2>5. QED
      BY <1>9, <2>4
  <1>13. in = (out + 1) + Distance(q, q.head)
    BY ONLY <1>5, <1>9, in \in Nat, out \in Nat
  <1>14. q.tail = IF q.next = 0 THEN RxDesc - 1 ELSE q.next - 1
    <2>1. r.next \in 0 .. RxDesc - 1
      BY <1>2 DEF RxSlots
    <2>2. QED
      BY ONLY <1>4, <1>5, <2>1
  <1>15. QED
    BY ONLY <1>4, <1>10, <1>11, <1>12, <1>13, <1>14 DEF DescriptorsHold

\* The first member of p is taken off, which leaves u, and put behind q, which makes v.
Moved(p, q, x, u, v) ==
  /\ x = p[1] /\ Distinct(u) /\ Distinct(v) /\ Apart(u, v) /\ Apart(v, u)
  /\ Len(u) = Len(p) - 1 /\ Len(v) = Len(q) + 1 /\ Len(p) \in Nat \ {0} /\ Len(q) \in Nat
  /\ \A i \in DOMAIN u : u[i] = p[i + 1] /\ i + 1 \in DOMAIN p
  /\ \A i \in DOMAIN q : v[i] = q[i] /\ q[i] # x
  /\ DOMAIN v = DOMAIN q \cup {Len(q) + 1} /\ v[Len(q) + 1] = x

\* What is taken from one list and put at the end of the other.
LEMMA HeadMoves ==
  ASSUME NEW S, NEW p \in Seq(S), p # <<>>, NEW q \in Seq(S), Distinct(p), Distinct(q), Apart(p, q),
         NEW x, x = Head(p), NEW u, u = Tail(p), NEW v, v = Append(q, x)
  PROVE  x \in S /\ u \in Seq(S) /\ v \in Seq(S) /\ Moved(p, q, x, u, v)
  <1>1. PICK m \in Nat, n \in Nat : m = Len(p) /\ n = Len(q) /\ DOMAIN p = 1 .. m /\ DOMAIN q = 1 .. n
    OBVIOUS
  <1>2. m > 0
    BY ONLY <1>1, p \in Seq(S), p # <<>>
  <1>3. x \in S /\ x = p[1]
    BY ONLY <1>1, <1>2, p \in Seq(S), x = Head(p)
  <1>4. u \in Seq(S) /\ Len(u) = m - 1 /\ DOMAIN u = 1 .. m - 1 /\ \A i \in 1 .. m - 1 : u[i] = p[i + 1]
    BY ONLY <1>1, <1>2, p \in Seq(S), u = Tail(p)
  <1>5. v \in Seq(S) /\ Len(v) = n + 1 /\ DOMAIN v = 1 .. n + 1 /\ v[n + 1] = x /\ \A i \in 1 .. n : v[i] = q[i]
    BY ONLY <1>1, <1>3, q \in Seq(S), v = Append(q, x)
  <1>6. \A i \in 1 .. n : q[i] # x
    BY ONLY <1>1, <1>2, <1>3, Apart(p, q) DEF Apart
  <1>7. \A i \in 1 .. m - 1 : i + 1 \in DOMAIN p /\ i + 1 # 1
    BY ONLY <1>1
  <1>8. Distinct(u)
    <2>1. SUFFICES ASSUME NEW i \in 1 .. m - 1, NEW j \in 1 .. m - 1, u[i] = u[j] PROVE i = j
      BY <1>4 DEF Distinct
    <2>2. PICK k, l : k = i + 1 /\ l = j + 1
      OBVIOUS
    <2>3. k \in DOMAIN p /\ l \in DOMAIN p /\ p[k] = p[l]
      BY <1>4, <1>7, <2>1, <2>2
    <2>4. k = l
      BY ONLY <2>3, Distinct(p) DEF Distinct
    <2>5. QED
      BY ONLY <1>1, <2>2, <2>4, i \in 1 .. m - 1, j \in 1 .. m - 1
  <1>9. Distinct(v)
    <2>1. SUFFICES ASSUME NEW i \in 1 .. n + 1, NEW j \in 1 .. n + 1, v[i] = v[j] PROVE i = j
      BY <1>5 DEF Distinct
    <2>2. \A k \in 1 .. n + 1 : k = n + 1 \/ k \in 1 .. n
      BY <1>1
    <2>3. i \in 1 .. n /\ j \in 1 .. n => i = j
      BY ONLY <1>1, <1>5, <2>1, Distinct(q) DEF Distinct
    <2>4. ~(i = n + 1 /\ j \in 1 .. n)
      BY ONLY <1>5, <1>6, <2>1
    <2>5. ~(j = n + 1 /\ i \in 1 .. n)
      BY ONLY <1>5, <1>6, <2>1
    <2>6. (i = n + 1 \/ i \in 1 .. n) /\ (j = n + 1 \/ j \in 1 .. n)
      BY <2>2
    <2>7. QED
      BY ONLY <2>3, <2>4, <2>5, <2>6
  <1>10. \A i \in 1 .. m - 1 : u[i] # x
    <2>1. SUFFICES ASSUME NEW i \in 1 .. m - 1 PROVE u[i] # x
      OBVIOUS
    <2>2. PICK k : k = i + 1
      OBVIOUS
    <2>3. k \in DOMAIN p /\ k # 1 /\ u[i] = p[k] /\ 1 \in DOMAIN p
      BY <1>1, <1>2, <1>4, <1>7, <2>2
    <2>4. QED
      BY ONLY <1>3, <2>3, Distinct(p) DEF Distinct
  <1>11. \A i \in 1 .. m - 1, j \in 1 .. n + 1 : u[i] # v[j]
    <2>1. SUFFICES ASSUME NEW i \in 1 .. m - 1, NEW j \in 1 .. n + 1 PROVE u[i] # v[j]
      OBVIOUS
    <2>2. CASE j = n + 1
      BY ONLY <1>5, <1>10, <2>2, i \in 1 .. m - 1
    <2>3. CASE j # n + 1
      <3>1. j \in 1 .. n
        BY ONLY <1>1, <2>3, j \in 1 .. n + 1
      <3>2. QED
        <4>1. PICK k : k = i + 1
          OBVIOUS
        <4>2. k \in DOMAIN p /\ u[i] = p[k] /\ j \in DOMAIN q /\ v[j] = q[j]
          BY <1>1, <1>4, <1>5, <1>7, <3>1, <4>1
        <4>3. QED
          BY ONLY <4>2, Apart(p, q) DEF Apart
    <2>4. QED
      BY <2>2, <2>3
  <1>12. Apart(u, v) /\ Apart(v, u)
    BY ONLY <1>4, <1>5, <1>11 DEF Apart
  <1>13. 1 .. n + 1 = (1 .. n) \cup {n + 1}
    BY ONLY n \in Nat
  <1>14. QED
    BY ONLY <1>1, <1>2, <1>3, <1>4, <1>5, <1>6, <1>7, <1>8, <1>9, <1>12, <1>13 DEF Moved

\* Sharing nothing goes both ways.
LEMMA ApartTurns ==
  ASSUME NEW p, NEW q, Apart(p, q)
  PROVE  Apart(q, p)
  BY DEF Apart

\* virtio-net: a buffer that was available is filled and used.
LEMMA ListsFilled ==
  ASSUME NEW r \in RxStates, NEW in \in Nat, NEW out \in Nat, ListsHold(r, in, out), r.avail # <<>>,
         NEW q, q = [r EXCEPT !.buf[Head(r.avail)] = in + 1, !.used = Append(@, Head(r.avail)), !.avail = Tail(@)]
  PROVE  q \in RxStates /\ ListsHold(q, in + 1, out)
  <1>1. PICK x, u, v, b : /\ x = Head(r.avail) /\ u = Tail(r.avail) /\ v = Append(r.used, x)
                         /\ b = [r.buf EXCEPT ![x] = in + 1]
    OBVIOUS
  <1>2. r.avail \in Seq(RxSlots) /\ r.used \in Seq(RxSlots) /\ r.buf \in [RxSlots -> Nat]
    BY DEF RxStates
  <1>3. q = [r EXCEPT !.buf = b, !.used = v, !.avail = u]
    BY <1>1 DEF RxStates
  <1>4. /\ Distinct(r.avail) /\ Distinct(r.used) /\ Apart(r.avail, r.used)
        /\ Len(r.avail) + Len(r.used) = RxDesc
        /\ \A i \in DOMAIN r.used : r.buf[r.used[i]] = out + i
        /\ in = out + Len(r.used)
    BY DEF ListsHold
  <1>0. x \in RxSlots /\ u \in Seq(RxSlots) /\ v \in Seq(RxSlots) /\ Moved(r.avail, r.used, x, u, v)
    BY ONLY <1>1, <1>2, <1>4, r.avail # <<>>, HeadMoves
  <1>5. /\ x \in RxSlots /\ u \in Seq(RxSlots) /\ v \in Seq(RxSlots) /\ Distinct(u) /\ Distinct(v) /\ Apart(u, v)
        /\ Len(u) = Len(r.avail) - 1 /\ Len(v) = Len(r.used) + 1
        /\ \A i \in DOMAIN r.used : v[i] = r.used[i] /\ r.used[i] # x
        /\ DOMAIN v = DOMAIN r.used \cup {Len(r.used) + 1} /\ v[Len(r.used) + 1] = x /\ Len(r.used) \in Nat
    BY ONLY <1>0, Zenon DEF Moved
  <1>6. q \in RxStates /\ q.avail = u /\ q.used = v /\ q.buf = b
    <2>1. b \in [RxSlots -> Nat]
      BY ONLY <1>1, <1>2, <1>5, in \in Nat
    <2>2. QED
      BY ONLY <1>3, <1>5, <2>1, r \in RxStates DEF RxStates
  <1>7. Len(u) + Len(v) = RxDesc
    <2>1. Len(r.avail) \in Nat
      BY <1>2
    <2>2. PICK l, m, n, k : l = Len(r.avail) /\ m = Len(r.used) /\ n = Len(u) /\ k = Len(v)
      OBVIOUS
    <2>3. l \in Nat /\ m \in Nat /\ l + m = RxDesc /\ n = l - 1 /\ k = m + 1
      BY ONLY <1>4, <1>5, <2>1, <2>2
    <2>4. n + k = RxDesc
      BY ONLY <2>3
    <2>5. QED
      BY ONLY <2>2, <2>4, Zenon
  <1>8. ASSUME NEW i \in DOMAIN v PROVE b[v[i]] = out + i
    <2>1. CASE i \in DOMAIN r.used
      <3>1. v[i] = r.used[i] /\ r.used[i] # x /\ r.used[i] \in RxSlots
        BY <1>2, <1>5, <2>1
      <3>2. b[v[i]] = r.buf[r.used[i]]
        BY ONLY <1>1, <1>2, <3>1
      <3>3. QED
        BY ONLY <1>4, <2>1, <3>2
    <2>2. CASE i = Len(r.used) + 1
      <3>1. b[v[i]] = in + 1
        BY ONLY <1>1, <1>2, <1>5, <2>2
      <3>2. QED
        BY ONLY <1>4, <1>5, <2>2, <3>1, out \in Nat
    <2>3. QED
      BY <1>5, <1>8, <2>1, <2>2
  <1>9. in + 1 = out + Len(v)
    BY ONLY <1>4, <1>5, in \in Nat, out \in Nat
  <1>10. QED
    BY ONLY <1>5, <1>6, <1>7, <1>8, <1>9 DEF ListsHold

\* The driver takes the oldest used buffer and makes it available again.
LEMMA ListsRead ==
  ASSUME NEW r \in RxStates, NEW in \in Nat, NEW out \in Nat, ListsHold(r, in, out), r.used # <<>>,
         NEW q, q = [r EXCEPT !.used = Tail(@), !.avail = Append(@, Head(r.used))]
  PROVE  q \in RxStates /\ ListsHold(q, in, out + 1) /\ r.buf[Head(r.used)] = out + 1 /\ out < in
  <1>1. PICK x, u, v : x = Head(r.used) /\ u = Tail(r.used) /\ v = Append(r.avail, x)
    OBVIOUS
  <1>2. r.avail \in Seq(RxSlots) /\ r.used \in Seq(RxSlots)
    BY DEF RxStates
  <1>3. q = [r EXCEPT !.used = u, !.avail = v]
    BY <1>1 DEF RxStates
  <1>4. /\ Distinct(r.avail) /\ Distinct(r.used) /\ Apart(r.used, r.avail)
        /\ Len(r.avail) + Len(r.used) = RxDesc
        /\ \A i \in DOMAIN r.used : r.buf[r.used[i]] = out + i
        /\ in = out + Len(r.used)
    BY ApartTurns DEF ListsHold
  <1>0. x \in RxSlots /\ u \in Seq(RxSlots) /\ v \in Seq(RxSlots) /\ Moved(r.used, r.avail, x, u, v)
    BY ONLY <1>1, <1>2, <1>4, r.used # <<>>, HeadMoves
  <1>5. /\ x = r.used[1] /\ u \in Seq(RxSlots) /\ v \in Seq(RxSlots) /\ Distinct(u) /\ Distinct(v) /\ Apart(v, u)
        /\ Len(u) = Len(r.used) - 1 /\ Len(v) = Len(r.avail) + 1
        /\ \A i \in DOMAIN u : u[i] = r.used[i + 1] /\ i + 1 \in DOMAIN r.used
        /\ Len(r.avail) \in Nat
    BY ONLY <1>0, Zenon DEF Moved
  <1>6. q \in RxStates /\ q.avail = v /\ q.used = u /\ q.buf = r.buf
    BY ONLY <1>3, <1>5, r \in RxStates DEF RxStates
  <1>7. Len(r.used) \in Nat /\ Len(r.used) > 0 /\ 1 \in DOMAIN r.used /\ DOMAIN u \subseteq Nat
    BY ONLY <1>2, <1>5, r.used # <<>>
  <1>8. \A i \in DOMAIN u : r.buf[u[i]] = (out + 1) + i
    <2>1. SUFFICES ASSUME NEW i \in DOMAIN u PROVE r.buf[u[i]] = (out + 1) + i
      OBVIOUS
    <2>2. PICK k : k = i + 1
      OBVIOUS
    <2>3. r.buf[u[i]] = out + k
      BY <1>4, <1>5, <2>2
    <2>4. QED
      BY ONLY <1>7, <2>2, <2>3, i \in DOMAIN u, out \in Nat
  <1>9. Len(v) + Len(u) = RxDesc /\ in = (out + 1) + Len(u) /\ out < in
    <2>1. PICK l, m, n, k : l = Len(r.avail) /\ m = Len(r.used) /\ n = Len(u) /\ k = Len(v)
      OBVIOUS
    <2>2. l \in Nat /\ m \in Nat /\ m > 0 /\ l + m = RxDesc /\ n = m - 1 /\ k = l + 1 /\ in = out + m
      BY ONLY <1>4, <1>5, <1>7, <2>1
    <2>3. k + n = RxDesc /\ in = (out + 1) + n /\ out < in
      BY ONLY <2>2, in \in Nat, out \in Nat
    <2>4. QED
      BY ONLY <2>1, <2>3, Zenon
  <1>10. r.buf[Head(r.used)] = out + 1
    BY <1>1, <1>4, <1>5, <1>7
  <1>11. QED
    BY ONLY <1>5, <1>6, <1>8, <1>9, <1>10 DEF ListsHold

\* A packet, padded to a word, wraps at most once.
Wraps(at, len, to) ==
  \E y \in Nat : /\ at + len + 4 <= y /\ y <= at + len + 7
                 /\ to = IF y >= RtlRing THEN y - RtlRing ELSE y

\* net_recv_ethernet and the controller compute the same next offset, with one
\* subtraction and with a remainder.
LEMMA PacketWraps ==
  ASSUME NEW at \in 0 .. RtlRing - 1, NEW len \in Nat, len + 8 < RtlRing
  PROVE  /\ RtlNext(at, len) = RtlAdvance(at, len) /\ RtlAdvance(at, len) \in 0 .. RtlRing - 1
         /\ Wraps(at, len, RtlAdvance(at, len))
  <1>1. RtlRing \in Nat /\ at \in Nat /\ at < RtlRing
    BY RingSizes
  <1>2. PICK y \in Nat : y = ((at + len + 4 + 3) \div 4) * 4 /\ at + len + 4 <= y /\ y <= at + len + 7
    OBVIOUS
  <1>3. y < 2 * RtlRing
    BY ONLY <1>1, <1>2, len \in Nat, len + 8 < RtlRing
  <1>4. y % RtlRing = IF y >= RtlRing THEN y - RtlRing ELSE y
    <2>1. CASE y >= RtlRing
      BY ONLY <1>1, <1>3, <2>1, y \in Nat
    <2>2. CASE ~(y >= RtlRing)
      BY ONLY <1>1, <2>2, y \in Nat
    <2>3. QED
      BY <2>1, <2>2
  <1>5. RtlAdvance(at, len) = (IF y >= RtlRing THEN y - RtlRing ELSE y) /\ RtlNext(at, len) = RtlAdvance(at, len)
    BY <1>2, <1>4 DEF RtlAdvance, RtlNext
  <1>6. RtlAdvance(at, len) \in 0 .. RtlRing - 1
    BY ONLY <1>1, <1>3, <1>5, y \in Nat
  <1>7. QED
    BY ONLY <1>2, <1>5, <1>6 DEF Wraps

\* A packet that fits ends further ahead than it starts.
LEMMA AheadGrows ==
  ASSUME NEW R \in Nat, NEW x \in Nat, x < R, NEW o \in Nat, o < R, NEW len \in Nat, NEW y \in Nat,
         x + len + 4 <= y, y <= x + len + 7, NEW c, c = IF y >= R THEN y - R ELSE y,
         NEW a, a = IF x >= o THEN x - o ELSE x - o + R, a + len + 8 < R,
         NEW b, b = IF c >= o THEN c - o ELSE c - o + R
  PROVE  a + len + 4 <= b
  <1>1. CASE x >= o
    <2>1. a = x - o /\ y < R + o
      BY <1>1
    <2>2. CASE y >= R
      <3>1. c = y - R /\ ~(c >= o)
        BY <2>1, <2>2
      <3>2. QED
        BY ONLY <2>1, <3>1, b = IF c >= o THEN c - o ELSE c - o + R, x + len + 4 <= y,
                R \in Nat, x \in Nat, o \in Nat, len \in Nat, y \in Nat
    <2>3. CASE ~(y >= R)
      BY <1>1, <2>1, <2>3
    <2>4. QED
      BY <2>2, <2>3
  <1>2. CASE ~(x >= o)
    <2>1. a = x - o + R /\ y < o
      BY <1>2
    <2>2. c = y /\ ~(c >= o)
      BY <2>1
    <2>3. QED
      BY ONLY <2>1, <2>2, b = IF c >= o THEN c - o ELSE c - o + R, x + len + 4 <= y,
              R \in Nat, x \in Nat, o \in Nat, len \in Nat, y \in Nat
  <1>3. QED
    BY <1>1, <1>2

\* The controller writes a packet behind the others.
LEMMA BytesFilled ==
  ASSUME NEW r \in RxStates, NEW in \in Nat, NEW out \in Nat, BytesHold(r, in, out), NEW len \in Lengths,
         ((r.cbr - r.offset + RtlRing) % RtlRing) + len + 8 < RtlRing,
         NEW q, q = [r EXCEPT !.packets = Append(@, [at |-> r.cbr, len |-> len, id |-> in + 1]),
                              !.cbr = RtlAdvance(r.cbr, len)]
  PROVE  q \in RxStates /\ BytesHold(q, in + 1, out)
  <1>1. PICK p, s, c : /\ p = [at |-> r.cbr, len |-> len, id |-> in + 1] /\ s = Append(r.packets, p)
                       /\ c = RtlAdvance(r.cbr, len)
    OBVIOUS
  <1>2. /\ RtlRing \in Nat /\ RtlRing > 0 /\ len \in Nat /\ len > 0 /\ r.cbr \in 0 .. RtlRing - 1
        /\ r.offset \in 0 .. RtlRing - 1 /\ r.packets \in Seq(RtlPackets)
    <2>1. RtlRing \in Nat /\ RtlRing > 0 /\ len \in Nat /\ len > 0
      BY ONLY RingSizes, len \in Lengths
    <2>2. r.cbr \in 0 .. RtlRing - 1 /\ r.offset \in 0 .. RtlRing - 1 /\ r.packets \in Seq(RtlPackets)
      BY ONLY r \in RxStates DEF RxStates
    <2>3. QED
      BY <2>1, <2>2
  <1>3. Ahead(r, r.cbr) + len + 8 < RtlRing /\ \A x \in 0 .. RtlRing - 1 : Ahead(r, x) \in 0 .. RtlRing - 1
    <2>1. PICK x, y : x = r.cbr /\ y = r.offset
      OBVIOUS
    <2>2. x \in 0 .. RtlRing - 1 /\ y \in 0 .. RtlRing - 1
      BY <1>2, <2>1
    <2>3. (x - y + RtlRing) % RtlRing = IF x >= y THEN x - y ELSE x - y + RtlRing
      BY ONLY <1>2, <2>2
    <2>4. ((x - y + RtlRing) % RtlRing) + len + 8 < RtlRing
      BY <2>1
    <2>5. Ahead(r, r.cbr) + len + 8 < RtlRing
      BY ONLY <2>1, <2>3, <2>4 DEF Ahead
    <2>6. \A z \in 0 .. RtlRing - 1 : Ahead(r, z) \in 0 .. RtlRing - 1
      BY ONLY <1>2, <2>1, <2>2 DEF Ahead
    <2>7. QED
      BY <2>5, <2>6
  <1>4. len + 8 < RtlRing
    <2>1. PICK a : a = Ahead(r, r.cbr)
      OBVIOUS
    <2>2. a \in 0 .. RtlRing - 1 /\ a + len + 8 < RtlRing
      BY ONLY <1>2, <1>3, <2>1
    <2>3. QED
      BY ONLY <1>2, <2>2
  <1>5. c \in 0 .. RtlRing - 1 /\ Wraps(r.cbr, len, c)
    BY ONLY <1>1, <1>2, <1>4, PacketWraps
  <1>6. Within(Ahead(r, r.cbr), len, Ahead(r, c))
    <2>1. PICK y \in Nat : /\ r.cbr + len + 4 <= y /\ y <= r.cbr + len + 7
                           /\ c = IF y >= RtlRing THEN y - RtlRing ELSE y
      BY <1>5 DEF Wraps
    <2>2. PICK x, o : x = r.cbr /\ o = r.offset
      OBVIOUS
    <2>3. x \in 0 .. RtlRing - 1 /\ o \in 0 .. RtlRing - 1
      BY <1>2, <2>2
    <2>4. PICK a, b : a = Ahead(r, x) /\ b = Ahead(r, c)
      OBVIOUS
    <2>5. /\ a = IF x >= o THEN x - o ELSE x - o + RtlRing
          /\ b = IF c >= o THEN c - o ELSE c - o + RtlRing
          /\ a + len + 8 < RtlRing
      BY ONLY <1>3, <2>2, <2>4, Zenon DEF Ahead
    <2>6. x + len + 4 <= y /\ y <= x + len + 7 /\ x \in Nat /\ x < RtlRing /\ o \in Nat /\ o < RtlRing
      BY ONLY <1>2, <2>1, <2>2, <2>3
    <2>7. a + len + 4 <= b
      BY ONLY <1>2, <2>1, <2>5, <2>6, y \in Nat, AheadGrows
    <2>8. Within(a, len, b)
      <3>1. a \in Int /\ b \in Int
        BY ONLY <1>2, <1>5, <2>3, <2>5
      <3>2. QED
        BY ONLY <1>2, <2>7, <3>1 DEF Within
    <2>9. QED
      BY ONLY <2>2, <2>4, <2>8
  <1>7. PICK n \in Nat : n = Len(r.packets) /\ DOMAIN r.packets = 1 .. n
    <2>1. r.packets \in Seq(RtlPackets)
      BY <1>2
    <2>2. QED
      BY ONLY <2>1
  <1>8. p \in RtlPackets /\ p.at = r.cbr /\ p.len = len /\ p.id = in + 1
    BY ONLY <1>1, <1>2, in \in Nat, len \in Lengths DEF RtlPackets
  <1>9. /\ s \in Seq(RtlPackets) /\ Len(s) = n + 1 /\ DOMAIN s = 1 .. n + 1 /\ s[n + 1] = p
        /\ \A i \in 1 .. n : s[i] = r.packets[i]
    BY ONLY <1>1, <1>2, <1>7, <1>8
  <1>10. q = [r EXCEPT !.packets = s, !.cbr = c]
    BY <1>1 DEF RxStates
  <1>11. q \in RxStates /\ q.packets = s /\ q.cbr = c /\ q.offset = r.offset
    BY ONLY <1>5, <1>9, <1>10, r \in RxStates DEF RxStates
  <1>12. \A x : Ahead(q, x) = Ahead(r, x)
    BY ONLY <1>11 DEF Ahead
  <1>13. /\ in = out + n
         /\ \A i \in 1 .. n : r.packets[i].id = out + i /\ r.packets[i].len + 8 < RtlRing
         /\ IF n = 0 THEN r.cbr = r.offset
            ELSE r.packets[1].at = r.offset /\ r.cbr = RtlAdvance(r.packets[n].at, r.packets[n].len)
         /\ \A i \in 1 .. n : Within(Ahead(r, r.packets[i].at), r.packets[i].len, Ahead(r, r.cbr))
         /\ \A i, j \in 1 .. n : i < j => Ahead(r, r.packets[i].at) < Ahead(r, r.packets[j].at)
         /\ \A i \in 1 .. n : i + 1 \in 1 .. n => r.packets[i + 1].at = RtlAdvance(r.packets[i].at, r.packets[i].len)
    <2>1. r.packets = <<>> <=> n = 0
      BY <1>2, <1>7
    <2>2. QED
      BY ONLY <1>7, <2>1, BytesHold(r, in, out), Zenon DEF BytesHold
  <1>14. \A i \in 1 .. n + 1 : i = n + 1 \/ i \in 1 .. n
    OBVIOUS
  <1>15. \A i \in 1 .. n : /\ Ahead(r, r.packets[i].at) < Ahead(r, r.cbr)
                           /\ Within(Ahead(r, r.packets[i].at), r.packets[i].len, Ahead(r, c))
    <2>1. SUFFICES ASSUME NEW i \in 1 .. n
                   PROVE  /\ Ahead(r, r.packets[i].at) < Ahead(r, r.cbr)
                          /\ Within(Ahead(r, r.packets[i].at), r.packets[i].len, Ahead(r, c))
      OBVIOUS
    <2>2. r.packets[i].at \in 0 .. RtlRing - 1 /\ r.packets[i].len \in Nat
      <3>1. r.packets[i] \in RtlPackets
        BY <1>2, <1>7
      <3>2. QED
        BY ONLY <3>1, RingSizes DEF RtlPackets
    <2>3. PICK x, l, y, z : x = Ahead(r, r.packets[i].at) /\ l = r.packets[i].len /\ y = Ahead(r, r.cbr) /\ z = Ahead(r, c)
      OBVIOUS
    <2>4. x \in 0 .. RtlRing - 1 /\ y \in 0 .. RtlRing - 1 /\ z \in 0 .. RtlRing - 1 /\ l \in Nat
      BY ONLY <1>2, <1>3, <1>5, <2>2, <2>3
    <2>5. Within(x, l, y) /\ Within(y, len, z)
      BY ONLY <1>6, <1>13, <2>3, i \in 1 .. n, Zenon
    <2>6. x < y /\ Within(x, l, z)
      BY ONLY <1>2, <2>4, <2>5 DEF Within
    <2>7. QED
      BY ONLY <2>3, <2>6
  <1>16. \A i \in 1 .. n + 1 : s[i].id = out + i /\ s[i].len + 8 < RtlRing
    <2>1. s[n + 1].id = out + (n + 1) /\ s[n + 1].len + 8 < RtlRing
      <3>1. in + 1 = out + (n + 1)
        BY ONLY <1>13, in \in Nat, out \in Nat, n \in Nat
      <3>2. QED
        BY ONLY <1>4, <1>8, <1>9, <3>1
    <2>2. \A i \in 1 .. n : s[i].id = out + i /\ s[i].len + 8 < RtlRing
      BY ONLY <1>9, <1>13
    <2>3. QED
      BY ONLY <1>14, <2>1, <2>2
  <1>17. s[1].at = r.offset /\ c = RtlAdvance(s[n + 1].at, s[n + 1].len)
    <2>1. s[1].at = r.offset
      <3>1. CASE n = 0
        BY ONLY <1>8, <1>9, <1>13, <3>1
      <3>2. CASE n # 0
        BY ONLY <1>9, <1>13, <3>2, n \in Nat
      <3>3. QED
        BY <3>1, <3>2
    <2>2. QED
      BY ONLY <1>1, <1>8, <1>9, <2>1
  <1>18. \A i \in 1 .. n + 1 : Within(Ahead(r, s[i].at), s[i].len, Ahead(r, c))
    BY ONLY <1>6, <1>8, <1>9, <1>14, <1>15
  <1>19. \A i, j \in 1 .. n + 1 : i < j => Ahead(r, s[i].at) < Ahead(r, s[j].at)
    <2>1. SUFFICES ASSUME NEW i \in 1 .. n + 1, NEW j \in 1 .. n + 1, i < j
                   PROVE  Ahead(r, s[i].at) < Ahead(r, s[j].at)
      OBVIOUS
    <2>2. i \in 1 .. n
      BY ONLY <2>1, i \in 1 .. n + 1, j \in 1 .. n + 1, n \in Nat
    <2>3. CASE j = n + 1
      BY ONLY <1>8, <1>9, <1>15, <2>2, <2>3
    <2>4. CASE j \in 1 .. n
      BY ONLY <1>9, <1>13, <2>1, <2>2, <2>4
    <2>5. QED
      BY <1>14, <2>3, <2>4
  <1>20. \A i \in 1 .. n + 1 : i + 1 \in 1 .. n + 1 => s[i + 1].at = RtlAdvance(s[i].at, s[i].len)
    <2>1. SUFFICES ASSUME NEW i \in 1 .. n + 1, i + 1 \in 1 .. n + 1
                   PROVE  s[i + 1].at = RtlAdvance(s[i].at, s[i].len)
      OBVIOUS
    <2>2. i \in 1 .. n /\ (i = n \/ i + 1 \in 1 .. n)
      BY ONLY <2>1, i \in 1 .. n + 1, n \in Nat
    <2>3. CASE i = n
      <3>1. s[i] = r.packets[n] /\ s[i + 1].at = r.cbr /\ n # 0
        BY ONLY <1>8, <1>9, <2>2, <2>3
      <3>2. QED
        BY ONLY <1>13, <3>1
    <2>4. CASE i + 1 \in 1 .. n
      <3>1. s[i] = r.packets[i] /\ s[i + 1] = r.packets[i + 1]
        BY ONLY <1>9, <2>2, <2>4
      <3>2. QED
        BY ONLY <1>13, <2>2, <2>4, <3>1
    <2>5. QED
      BY <2>2, <2>3, <2>4
  <1>21. in + 1 = out + Len(s) /\ s # <<>>
    BY ONLY <1>9, <1>13, in \in Nat, out \in Nat, n \in Nat
  <1>22. QED
    BY ONLY <1>9, <1>11, <1>12, <1>16, <1>17, <1>18, <1>19, <1>20, <1>21, Zenon DEF BytesHold

\* The driver's offset moves on by a distance.
LEMMA AheadMoves ==
  ASSUME NEW R \in Nat, NEW x \in Nat, x < R, NEW o \in Nat, o < R, NEW p \in Nat, p < R,
         NEW a, a = (IF x >= o THEN x - o ELSE x - o + R),
         NEW m, m = (IF p >= o THEN p - o ELSE p - o + R), m <= a,
         NEW b, b = (IF x >= p THEN x - p ELSE x - p + R)
  PROVE  b = a - m
  <1>1. CASE p >= o
    <2>1. m = p - o
      BY <1>1
    <2>2. CASE x >= o
      BY <2>1, <2>2
    <2>3. CASE ~(x >= o)
      BY <1>1, <2>1, <2>3
    <2>4. QED
      BY <2>2, <2>3
  <1>2. CASE ~(p >= o)
    <2>1. m = p - o + R
      BY <1>2
    <2>2. ~(x >= o)
      BY <2>1
    <2>3. QED
      BY <1>2, <2>1, <2>2
  <1>3. QED
    BY <1>1, <1>2

\* The packets behind the first.
Follow(r, n, s) == n = Len(r.packets) /\ s = [j \in 1 .. n - 1 |-> r.packets[j + 1]]

\* What net_recv_ethernet does with it.
PassedFirst(r, s, q) == q = [r EXCEPT !.offset = RtlNext(r.offset, r.packets[1].len), !.packets = s]

\* The driver passes the first packet, the only one at its offset.
LEMMA BytesRead ==
  ASSUME NEW r \in RxStates, NEW in \in Nat, NEW out \in Nat, BytesHold(r, in, out), r.packets # <<>>,
         NEW s, NEW n \in Nat, Follow(r, n, s), NEW q, PassedFirst(r, s, q)
  PROVE  q \in RxStates /\ BytesHold(q, in, out + 1) /\ r.packets[1].id = out + 1 /\ out < in
  <1>0. n = Len(r.packets) /\ s = [j \in 1 .. n - 1 |-> r.packets[j + 1]]
        /\ q = [r EXCEPT !.offset = RtlNext(r.offset, r.packets[1].len), !.packets = s]
    BY ONLY Follow(r, n, s), PassedFirst(r, s, q), Zenon DEF Follow, PassedFirst
  <1>1. PICK o, c : o = RtlNext(r.offset, r.packets[1].len) /\ c = r.cbr
    OBVIOUS
  <1>2. /\ RtlRing \in Nat /\ RtlRing > 0 /\ r.cbr \in 0 .. RtlRing - 1 /\ r.offset \in 0 .. RtlRing - 1
        /\ r.packets \in Seq(RtlPackets) /\ DOMAIN r.packets = 1 .. n
    <2>1. r.cbr \in 0 .. RtlRing - 1 /\ r.offset \in 0 .. RtlRing - 1 /\ r.packets \in Seq(RtlPackets)
      BY ONLY r \in RxStates DEF RxStates
    <2>2. DOMAIN r.packets = 1 .. n
      BY ONLY <2>1, <1>0
    <2>3. QED
      BY ONLY <2>1, <2>2, RingSizes
  <1>3. n > 0
    BY ONLY <1>2, r.packets # <<>>, <1>0, n \in Nat
  <1>4. \A i \in 1 .. n : r.packets[i].at \in 0 .. RtlRing - 1 /\ r.packets[i].len \in Nat /\ r.packets[i] \in RtlPackets
    <2>1. SUFFICES ASSUME NEW i \in 1 .. n
                   PROVE  r.packets[i].at \in 0 .. RtlRing - 1 /\ r.packets[i].len \in Nat /\ r.packets[i] \in RtlPackets
      OBVIOUS
    <2>2. r.packets[i] \in RtlPackets
      BY <1>2
    <2>3. QED
      BY ONLY <2>2, RingSizes DEF RtlPackets
  <1>5. /\ in = out + n
        /\ \A i \in 1 .. n : r.packets[i].id = out + i /\ r.packets[i].len + 8 < RtlRing
        /\ r.packets[1].at = r.offset /\ r.cbr = RtlAdvance(r.packets[n].at, r.packets[n].len)
        /\ \A i \in 1 .. n : Within(Ahead(r, r.packets[i].at), r.packets[i].len, Ahead(r, r.cbr))
        /\ \A i, j \in 1 .. n : i < j => Ahead(r, r.packets[i].at) < Ahead(r, r.packets[j].at)
        /\ \A i \in 1 .. n : i + 1 \in 1 .. n => r.packets[i + 1].at = RtlAdvance(r.packets[i].at, r.packets[i].len)
    BY ONLY <1>2, r.packets # <<>>, <1>0, BytesHold(r, in, out), Zenon DEF BytesHold
  <1>6. o = RtlAdvance(r.packets[1].at, r.packets[1].len) /\ o \in 0 .. RtlRing - 1
    <2>1. r.packets[1].len \in Nat /\ r.packets[1].len + 8 < RtlRing
      BY ONLY <1>3, <1>4, <1>5, n \in Nat
    <2>2. RtlNext(r.offset, r.packets[1].len) = RtlAdvance(r.offset, r.packets[1].len)
          /\ RtlAdvance(r.offset, r.packets[1].len) \in 0 .. RtlRing - 1
      BY ONLY <1>2, <2>1, PacketWraps
    <2>3. QED
      BY ONLY <1>1, <1>5, <2>2
  <1>7. /\ s \in Seq(RtlPackets) /\ Len(s) = n - 1 /\ DOMAIN s = 1 .. n - 1
        /\ \A j \in 1 .. n - 1 : s[j] = r.packets[j + 1] /\ j + 1 \in 1 .. n
    <2>1. \A j \in 1 .. n - 1 : j + 1 \in 1 .. n
      BY ONLY n \in Nat
    <2>2. \A j \in 1 .. n - 1 : r.packets[j + 1] \in RtlPackets
      BY <1>4, <2>1
    <2>3. n - 1 \in Nat
      BY <1>3
    <2>4. QED
      BY ONLY <2>1, <2>2, <2>3, <1>0
  <1>8. q = [r EXCEPT !.offset = o, !.packets = s]
    BY ONLY <1>0, <1>1, Zenon
  <1>9. q \in RxStates /\ q.packets = s /\ q.cbr = c /\ q.offset = o
    BY ONLY <1>1, <1>6, <1>7, <1>8, r \in RxStates DEF RxStates
  <1>10. n = 1 => c = o
    BY ONLY <1>1, <1>5, <1>6
  <1>11. n > 1 => s[1].at = o /\ 2 \in 1 .. n /\ s[1] = r.packets[2]
    <2>1. n > 1 => 1 \in 1 .. n /\ 1 + 1 \in 1 .. n /\ 1 \in 1 .. n - 1
      BY ONLY n \in Nat
    <2>2. n > 1 => s[1] = r.packets[1 + 1] /\ r.packets[1 + 1].at = o
      BY ONLY <1>5, <1>6, <1>7, <2>1
    <2>3. 1 + 1 = 2
      OBVIOUS
    <2>4. QED
      BY ONLY <2>1, <2>2, <2>3
  <1>12. ASSUME NEW x \in 0 .. RtlRing - 1, Ahead(r, o) <= Ahead(r, x)
         PROVE  Ahead(q, x) = Ahead(r, x) - Ahead(r, o)
    <2>1. PICK a, m, b, z : a = Ahead(r, x) /\ m = Ahead(r, o) /\ b = Ahead(q, x) /\ z = r.offset
      OBVIOUS
    <2>2. /\ a = (IF x >= z THEN x - z ELSE x - z + RtlRing) /\ m = (IF o >= z THEN o - z ELSE o - z + RtlRing)
          /\ b = (IF x >= o THEN x - o ELSE x - o + RtlRing)
      BY ONLY <1>9, <2>1, Zenon DEF Ahead
    <2>3. m <= a
      BY <1>12, <2>1
    <2>4. x \in Nat /\ x < RtlRing /\ o \in Nat /\ o < RtlRing /\ z \in Nat /\ z < RtlRing
      BY ONLY <1>2, <1>6, <2>1, x \in 0 .. RtlRing - 1
    <2>5. b = a - m
      BY ONLY <1>2, <2>2, <2>3, <2>4, AheadMoves
    <2>6. QED
      BY ONLY <2>1, <2>5
  <1>13. \A x \in 0 .. RtlRing - 1 : Ahead(r, x) \in 0 .. RtlRing - 1 /\ Ahead(q, x) \in 0 .. RtlRing - 1
    <2>1. SUFFICES ASSUME NEW x \in 0 .. RtlRing - 1
                   PROVE Ahead(r, x) \in 0 .. RtlRing - 1 /\ Ahead(q, x) \in 0 .. RtlRing - 1
      OBVIOUS
    <2>2. \A y \in 0 .. RtlRing - 1 : (IF x >= y THEN x - y ELSE x - y + RtlRing) \in 0 .. RtlRing - 1
      BY ONLY <1>2, x \in 0 .. RtlRing - 1
    <2>3. r.offset \in 0 .. RtlRing - 1 /\ q.offset \in 0 .. RtlRing - 1
      BY ONLY <1>2, <1>6, <1>9
    <2>4. QED
      BY ONLY <2>2, <2>3, Zenon DEF Ahead
  <1>14. ASSUME NEW i \in 1 .. n - 1
         PROVE  /\ s[i] \in RtlPackets /\ s[i].at \in 0 .. RtlRing - 1 /\ s[i].len \in Nat
                /\ Ahead(r, o) <= Ahead(r, s[i].at)
                /\ Ahead(q, s[i].at) = Ahead(r, s[i].at) - Ahead(r, o)
    <2>1. s[i] = r.packets[i + 1] /\ i + 1 \in 1 .. n /\ n > 1
      BY ONLY <1>7, i \in 1 .. n - 1, n \in Nat
    <2>2. s[i] \in RtlPackets /\ s[i].at \in 0 .. RtlRing - 1 /\ s[i].len \in Nat
      BY ONLY <1>4, <2>1
    <2>3. Ahead(r, o) <= Ahead(r, s[i].at)
      <3>1. CASE i = 1
        <4>1. s[i].at = o /\ Ahead(r, o) \in 0 .. RtlRing - 1
          BY ONLY <1>6, <1>11, <1>13, <2>1, <3>1
        <4>2. QED
          BY ONLY <1>2, <4>1
      <3>2. CASE i # 1
        <4>1. 2 < i + 1
          BY ONLY <3>2, i \in 1 .. n - 1, n \in Nat
        <4>2. Ahead(r, r.packets[2].at) < Ahead(r, r.packets[i + 1].at)
          BY ONLY <1>5, <1>11, <2>1, <4>1
        <4>3. Ahead(r, o) < Ahead(r, s[i].at)
          BY ONLY <1>11, <2>1, <4>2
        <4>4. Ahead(r, o) \in 0 .. RtlRing - 1 /\ Ahead(r, s[i].at) \in 0 .. RtlRing - 1
          BY ONLY <1>6, <1>13, <2>2
        <4>5. QED
          BY ONLY <1>2, <4>3, <4>4
      <3>3. QED
        BY <3>1, <3>2
    <2>4. QED
      BY <1>12, <2>2, <2>3
  <1>15. Ahead(r, o) <= Ahead(r, c) /\ Ahead(q, c) = Ahead(r, c) - Ahead(r, o) /\ c \in 0 .. RtlRing - 1
    <2>1. c \in 0 .. RtlRing - 1
      BY ONLY <1>1, <1>2
    <2>2. PICK x, y : x = Ahead(r, o) /\ y = Ahead(r, c)
      OBVIOUS
    <2>3. x \in 0 .. RtlRing - 1 /\ y \in 0 .. RtlRing - 1
      BY ONLY <1>6, <1>13, <2>1, <2>2
    <2>4. n = 1 => x <= y
      BY ONLY <1>2, <1>10, <2>2, <2>3
    <2>5. ASSUME n > 1 PROVE x <= y
      <3>1. Within(Ahead(r, o), r.packets[2].len, Ahead(r, c))
        BY ONLY <1>1, <1>5, <1>11, <2>5
      <3>2. x < y
        BY ONLY <2>2, <3>1 DEF Within
      <3>3. QED
        BY ONLY <1>2, <2>2, <2>3, <3>2
    <2>6. x <= y
      BY ONLY <1>3, <2>2, <2>4, <2>5, n \in Nat
    <2>7. Ahead(r, o) <= Ahead(r, c)
      BY ONLY <2>2, <2>6
    <2>8. QED
      BY <1>12, <2>1, <2>7
  <1>16. ASSUME NEW i \in 1 .. n - 1 PROVE Within(Ahead(q, s[i].at), s[i].len, Ahead(q, c))
    <2>1. PICK x, l, y, m : x = Ahead(r, s[i].at) /\ l = s[i].len /\ y = Ahead(r, c) /\ m = Ahead(r, o)
      OBVIOUS
    <2>2. Within(x, l, y)
      <3>1. s[i] = r.packets[i + 1] /\ i + 1 \in 1 .. n
        BY ONLY <1>7, i \in 1 .. n - 1
      <3>2. QED
        BY ONLY <1>1, <1>5, <2>1, <3>1
    <2>3. x \in 0 .. RtlRing - 1 /\ l \in Nat /\ y \in 0 .. RtlRing - 1 /\ m \in 0 .. RtlRing - 1
      BY ONLY <1>6, <1>13, <1>14, <1>15, <2>1, i \in 1 .. n - 1
    <2>4. Within(x - m, l, y - m)
      BY ONLY <1>2, <2>2, <2>3 DEF Within
    <2>5. Ahead(q, s[i].at) = x - m /\ Ahead(q, c) = y - m
      BY ONLY <1>14, <1>15, <2>1, i \in 1 .. n - 1
    <2>6. QED
      BY ONLY <2>1, <2>4, <2>5
  <1>17. ASSUME NEW i \in 1 .. n - 1, NEW j \in 1 .. n - 1, i < j PROVE Ahead(q, s[i].at) < Ahead(q, s[j].at)
    <2>1. PICK x, y, m : x = Ahead(r, s[i].at) /\ y = Ahead(r, s[j].at) /\ m = Ahead(r, o)
      OBVIOUS
    <2>2. x \in 0 .. RtlRing - 1 /\ y \in 0 .. RtlRing - 1 /\ m \in 0 .. RtlRing - 1
      BY ONLY <1>6, <1>13, <1>14, <2>1, i \in 1 .. n - 1, j \in 1 .. n - 1
    <2>3. x < y
      <3>1. s[i] = r.packets[i + 1] /\ i + 1 \in 1 .. n /\ s[j] = r.packets[j + 1] /\ j + 1 \in 1 .. n
        BY ONLY <1>7, i \in 1 .. n - 1, j \in 1 .. n - 1
      <3>2. i + 1 < j + 1
        BY ONLY <1>17, i \in 1 .. n - 1, j \in 1 .. n - 1, n \in Nat
      <3>3. QED
        BY ONLY <1>5, <2>1, <3>1, <3>2
    <2>4. x - m < y - m
      BY ONLY <1>2, <2>2, <2>3
    <2>5. Ahead(q, s[i].at) = x - m /\ Ahead(q, s[j].at) = y - m
      BY ONLY <1>14, <2>1, i \in 1 .. n - 1, j \in 1 .. n - 1
    <2>6. QED
      BY ONLY <2>4, <2>5
  <1>18. ASSUME NEW i \in 1 .. n - 1, i + 1 \in 1 .. n - 1 PROVE s[i + 1].at = RtlAdvance(s[i].at, s[i].len)
    <2>1. PICK k : k = i + 1
      OBVIOUS
    <2>2. s[i] = r.packets[k] /\ s[i + 1] = r.packets[k + 1] /\ k \in 1 .. n /\ k + 1 \in 1 .. n
      BY ONLY <1>7, <1>18, <2>1, i \in 1 .. n - 1
    <2>3. QED
      BY ONLY <1>5, <2>2
  <1>19. n > 1 => c = RtlAdvance(s[n - 1].at, s[n - 1].len)
    <2>1. n > 1 => n - 1 \in 1 .. n - 1 /\ n - 1 + 1 = n
      BY ONLY n \in Nat
    <2>2. n > 1 => s[n - 1] = r.packets[n]
      BY ONLY <1>7, <2>1
    <2>3. QED
      BY ONLY <1>1, <1>5, <2>2
  <1>20. \A i \in 1 .. n - 1 : s[i].id = (out + 1) + i /\ s[i].len + 8 < RtlRing
    <2>1. SUFFICES ASSUME NEW i \in 1 .. n - 1
                   PROVE s[i].id = (out + 1) + i /\ s[i].len + 8 < RtlRing
      OBVIOUS
    <2>2. s[i].id = out + (i + 1) /\ s[i].len + 8 < RtlRing
      BY ONLY <1>5, <1>7, i \in 1 .. n - 1
    <2>3. out + (i + 1) = (out + 1) + i
      BY ONLY out \in Nat, i \in 1 .. n - 1, n \in Nat
    <2>4. QED
      BY ONLY <2>2, <2>3
  <1>21. in = (out + 1) + Len(s) /\ out < in /\ r.packets[1].id = out + 1 /\ (s = <<>> <=> n = 1)
    <2>1. in = (out + 1) + (n - 1) /\ out < in /\ 1 \in 1 .. n
      BY ONLY <1>3, <1>5, in \in Nat, out \in Nat, n \in Nat
    <2>2. s = <<>> <=> n = 1
      BY ONLY <1>3, <1>7, n \in Nat
    <2>3. QED
      BY ONLY <1>5, <1>7, <2>1, <2>2
  <1>22. BytesHold(q, in, out + 1)
    <2>1. IF s = <<>> THEN c = o
          ELSE s[1].at = o /\ c = RtlAdvance(s[Len(s)].at, s[Len(s)].len)
      <3>1. n = 1 \/ n > 1
        BY ONLY <1>3, n \in Nat
      <3>2. QED
        BY ONLY <1>7, <1>10, <1>11, <1>19, <1>21, <3>1, n \in Nat
    <2>2. \A i \in DOMAIN s : i + 1 \in DOMAIN s => s[i + 1].at = RtlAdvance(s[i].at, s[i].len)
      BY <1>7, <1>18
    <2>3. \A i \in DOMAIN s : Within(Ahead(q, s[i].at), s[i].len, Ahead(q, c))
      BY <1>7, <1>16
    <2>4. \A i, j \in DOMAIN s : i < j => Ahead(q, s[i].at) < Ahead(q, s[j].at)
      BY <1>7, <1>17
    <2>5. \A i \in DOMAIN s : s[i].id = (out + 1) + i /\ s[i].len + 8 < RtlRing
      BY ONLY <1>7, <1>20
    <2>6. QED
      BY ONLY <1>9, <1>21, <2>1, <2>2, <2>3, <2>4, <2>5, Zenon DEF BytesHold
  <1>23. QED
    BY ONLY <1>9, <1>21, <1>22

\* The frame is put into a free buffer, and the buffer behind the others.
LEMMA HandedOverHolds ==
  ASSUME NEW t \in TxStates, NEW in \in Nat, NEW out \in Nat, TxHolds(t, in, out), NEW s \in TxSlots, t.free[s],
         NEW u, u = [t EXCEPT !.buf[s] = in + 1, !.free[s] = FALSE, !.queue = Append(@, s), !.tail = (s + 1) % TxDesc]
  PROVE  u \in TxStates /\ TxHolds(u, in + 1, out)
  <1>1. PICK n, b, f, v : /\ n = (s + 1) % TxDesc /\ b = [t.buf EXCEPT ![s] = in + 1] /\ f = [t.free EXCEPT ![s] = FALSE]
                          /\ v = Append(t.queue, s)
    OBVIOUS
  <1>2. /\ t.queue \in Seq(TxSlots) /\ t.used \in Seq(TxSlots) /\ t.buf \in [TxSlots -> Nat]
        /\ t.free \in [TxSlots -> BOOLEAN]
    BY DEF TxStates
  <1>3. n \in TxSlots
    <2>1. TxDesc \in Nat /\ TxDesc > 0 /\ s \in 0 .. TxDesc - 1
      BY RingSizes DEF TxSlots
    <2>2. QED
      BY ONLY <1>1, <2>1 DEF TxSlots
  <1>4. PICK m \in Nat : m = Len(t.queue) /\ DOMAIN t.queue = 1 .. m
    BY ONLY <1>2
  <1>5. /\ v \in Seq(TxSlots) /\ Len(v) = m + 1 /\ DOMAIN v = 1 .. m + 1 /\ v[m + 1] = s
        /\ \A i \in 1 .. m : v[i] = t.queue[i]
    BY ONLY <1>1, <1>2, <1>4, s \in TxSlots
  <1>6. b \in [TxSlots -> Nat] /\ f \in [TxSlots -> BOOLEAN]
    BY ONLY <1>1, <1>2, in \in Nat
  <1>7. u = [t EXCEPT !.buf = b, !.free = f, !.queue = v, !.tail = n]
    BY <1>1 DEF TxStates
  <1>8. u \in TxStates /\ u.buf = b /\ u.free = f /\ u.queue = v /\ u.used = t.used
    BY ONLY <1>3, <1>5, <1>6, <1>7, t \in TxStates DEF TxStates
  <1>9. /\ Distinct(t.queue) /\ Distinct(t.used) /\ Apart(t.queue, t.used)
        /\ \A i \in 1 .. m : ~t.free[t.queue[i]] /\ t.buf[t.queue[i]] = out + i
        /\ \A i \in DOMAIN t.used : ~t.free[t.used[i]]
        /\ in = out + m
    BY ONLY <1>4, TxHolds(t, in, out), Zenon DEF TxHolds
  <1>10. \A i \in 1 .. m + 1 : i = m + 1 \/ i \in 1 .. m
    BY ONLY m \in Nat
  <1>11. \A i \in 1 .. m : v[i] # s /\ v[i] \in TxSlots
    <2>1. SUFFICES ASSUME NEW i \in 1 .. m PROVE v[i] # s /\ v[i] \in TxSlots
      OBVIOUS
    <2>2. t.queue[i] \in TxSlots
      BY ONLY <1>2, <1>4, i \in 1 .. m
    <2>3. v[i] = t.queue[i] /\ ~t.free[t.queue[i]]
      BY ONLY <1>5, <1>9, i \in 1 .. m, Zenon
    <2>4. QED
      BY ONLY <2>2, <2>3, t.free[s], Zenon
  <1>12. Distinct(v)
    <2>1. SUFFICES ASSUME NEW i \in 1 .. m + 1, NEW j \in 1 .. m + 1, v[i] = v[j] PROVE i = j
      BY <1>5 DEF Distinct
    <2>2. i \in 1 .. m /\ j \in 1 .. m => i = j
      BY ONLY <1>4, <1>5, <1>9, <2>1 DEF Distinct
    <2>3. ~(i = m + 1 /\ j \in 1 .. m) /\ ~(j = m + 1 /\ i \in 1 .. m)
      BY ONLY <1>5, <1>11, <2>1
    <2>4. QED
      BY ONLY <1>10, <2>2, <2>3, i \in 1 .. m + 1, j \in 1 .. m + 1
  <1>13. \A i \in DOMAIN t.used : t.used[i] # s /\ t.used[i] \in TxSlots
    BY ONLY <1>2, <1>9, t.free[s]
  <1>14. Apart(v, t.used)
    <2>1. SUFFICES ASSUME NEW i \in 1 .. m + 1, NEW j \in DOMAIN t.used PROVE v[i] # t.used[j]
      BY <1>5 DEF Apart
    <2>2. CASE i = m + 1
      BY ONLY <1>5, <1>13, <2>2, j \in DOMAIN t.used
    <2>3. CASE i \in 1 .. m
      BY ONLY <1>4, <1>5, <1>9, <2>3, j \in DOMAIN t.used DEF Apart
    <2>4. QED
      BY <1>10, <2>2, <2>3
  <1>15. \A i \in 1 .. m + 1 : ~f[v[i]] /\ b[v[i]] = out + i
    <2>1. ~f[s] /\ b[s] = out + (m + 1)
      <3>1. in + 1 = out + (m + 1)
        BY ONLY <1>9, in \in Nat, out \in Nat, m \in Nat
      <3>2. QED
        BY ONLY <1>1, <1>2, <3>1, s \in TxSlots
    <2>2. \A i \in 1 .. m : ~f[v[i]] /\ b[v[i]] = out + i
      BY ONLY <1>1, <1>2, <1>5, <1>9, <1>11
    <2>3. QED
      BY ONLY <1>5, <1>10, <2>1, <2>2
  <1>16. \A i \in DOMAIN t.used : ~f[t.used[i]]
    BY ONLY <1>1, <1>2, <1>9, <1>13
  <1>17. in + 1 = out + (m + 1)
    BY ONLY <1>9, in \in Nat, out \in Nat, m \in Nat
  <1>18. QED
    BY ONLY <1>5, <1>8, <1>9, <1>12, <1>14, <1>15, <1>16, <1>17, Zenon DEF TxHolds

\* The buffer of the oldest frame is free, or listed as used.
Freed(t, f, v) ==
  \/ f = t.free /\ v = Append(t.used, Head(t.queue))
  \/ f = [t.free EXCEPT ![Head(t.queue)] = TRUE] /\ v = t.used

TookOldest(t, f, v, u) == u = [t EXCEPT !.queue = Tail(t.queue), !.free = f, !.used = v]

\* The oldest frame leaves; its buffer is free, or listed as used.
LEMMA TransmittedHolds ==
  ASSUME NEW t \in TxStates, NEW in \in Nat, NEW out \in Nat, TxHolds(t, in, out), t.queue # <<>>,
         NEW f, NEW v, Freed(t, f, v), NEW u, TookOldest(t, f, v, u)
  PROVE  u \in TxStates /\ TxHolds(u, in, out + 1) /\ t.buf[Head(t.queue)] = out + 1 /\ out < in
  <1>1. PICK x, q, a : x = Head(t.queue) /\ q = Tail(t.queue) /\ a = Append(t.used, x)
    OBVIOUS
  <1>2. (f = t.free /\ v = a) \/ (f = [t.free EXCEPT ![x] = TRUE] /\ v = t.used)
    BY ONLY <1>1, Freed(t, f, v), Zenon DEF Freed
  <1>3. t.queue \in Seq(TxSlots) /\ t.used \in Seq(TxSlots) /\ t.free \in [TxSlots -> BOOLEAN]
    BY DEF TxStates
  <1>4. /\ Distinct(t.queue) /\ Distinct(t.used) /\ Apart(t.queue, t.used)
        /\ \A i \in DOMAIN t.queue : ~t.free[t.queue[i]] /\ t.buf[t.queue[i]] = out + i
        /\ \A i \in DOMAIN t.used : ~t.free[t.used[i]]
        /\ in = out + Len(t.queue)
    BY ONLY TxHolds(t, in, out), Zenon DEF TxHolds
  <1>5. x \in TxSlots /\ q \in Seq(TxSlots) /\ a \in Seq(TxSlots) /\ Moved(t.queue, t.used, x, q, a)
    BY ONLY <1>1, <1>3, <1>4, t.queue # <<>>, HeadMoves
  <1>6. PICK m \in Nat : m = Len(t.queue) /\ DOMAIN t.queue = 1 .. m
    BY ONLY <1>3
  <1>7. /\ m > 0 /\ x = t.queue[1] /\ Distinct(q) /\ Distinct(a) /\ Apart(q, a)
        /\ DOMAIN q = 1 .. m - 1 /\ Len(q) = m - 1
        /\ \A i \in DOMAIN q : q[i] = t.queue[i + 1] /\ i + 1 \in DOMAIN t.queue
        /\ \A i \in DOMAIN t.used : a[i] = t.used[i] /\ t.used[i] # x
        /\ DOMAIN a = DOMAIN t.used \cup {Len(t.used) + 1} /\ a[Len(t.used) + 1] = x
    <2>1. m > 0
      BY ONLY <1>3, <1>6, t.queue # <<>>
    <2>2. Len(q) = m - 1 /\ DOMAIN q = 1 .. m - 1
      BY ONLY <1>1, <1>3, <1>6, <2>1
    <2>3. QED
      BY ONLY <1>5, <2>1, <2>2, Zenon DEF Moved
  <1>8. \A i \in DOMAIN q : q[i] # x /\ q[i] \in TxSlots
    <2>1. SUFFICES ASSUME NEW i \in DOMAIN q PROVE q[i] # x /\ q[i] \in TxSlots
      OBVIOUS
    <2>2. i + 1 # 1 /\ 1 \in DOMAIN t.queue
      BY ONLY <1>6, <1>7, i \in DOMAIN q
    <2>3. PICK k : k = i + 1
      OBVIOUS
    <2>4. k \in DOMAIN t.queue /\ k # 1 /\ q[i] = t.queue[k] /\ t.queue[k] \in TxSlots
      BY ONLY <1>3, <1>7, <2>2, <2>3, i \in DOMAIN q
    <2>5. QED
      BY ONLY <1>4, <1>7, <2>2, <2>4 DEF Distinct
  <1>9. u = [t EXCEPT !.queue = q, !.free = f, !.used = v]
    BY ONLY <1>1, TookOldest(t, f, v, u), Zenon DEF TookOldest
  <1>10. f \in [TxSlots -> BOOLEAN] /\ v \in Seq(TxSlots)
    BY ONLY <1>2, <1>3, <1>5
  <1>11. u \in TxStates /\ u.buf = t.buf /\ u.free = f /\ u.queue = q /\ u.used = v
    BY ONLY <1>5, <1>9, <1>10, t \in TxStates DEF TxStates
  <1>12. Distinct(v) /\ Apart(q, v)
    <2>1. CASE f = t.free /\ v = a
      BY ONLY <1>2, <1>7, <2>1
    <2>2. CASE f = [t.free EXCEPT ![x] = TRUE] /\ v = t.used
      <3>1. \A i \in DOMAIN q, j \in DOMAIN t.used : q[i] # t.used[j]
        BY ONLY <1>4, <1>7 DEF Apart
      <3>2. QED
        BY ONLY <1>2, <1>4, <2>2, <3>1 DEF Apart
    <2>3. QED
      BY <1>2, <2>1, <2>2
  <1>13. \A i \in DOMAIN q : ~f[q[i]]
    <2>1. \A i \in DOMAIN q : ~t.free[q[i]]
      BY ONLY <1>4, <1>7
    <2>2. QED
      BY ONLY <1>2, <1>3, <1>8, <2>1
  <1>14. \A i \in DOMAIN v : ~f[v[i]]
    <2>1. CASE f = t.free /\ v = a
      <3>1. ~t.free[x]
        BY ONLY <1>4, <1>6, <1>7
      <3>2. \A i \in DOMAIN a : ~t.free[a[i]]
        BY ONLY <1>4, <1>7, <3>1
      <3>3. QED
        BY ONLY <1>2, <2>1, <3>2
    <2>2. CASE f = [t.free EXCEPT ![x] = TRUE] /\ v = t.used
      BY ONLY <1>2, <1>3, <1>4, <1>7, <2>2
    <2>3. QED
      BY <1>2, <2>1, <2>2
  <1>15. \A i \in DOMAIN q : t.buf[q[i]] = (out + 1) + i
    <2>1. SUFFICES ASSUME NEW i \in DOMAIN q PROVE t.buf[q[i]] = (out + 1) + i
      OBVIOUS
    <2>2. t.buf[q[i]] = out + (i + 1)
      BY ONLY <1>4, <1>7, i \in DOMAIN q
    <2>3. out + (i + 1) = (out + 1) + i
      BY ONLY <1>7, i \in DOMAIN q, m \in Nat, out \in Nat
    <2>4. QED
      BY ONLY <2>2, <2>3
  <1>16. in = (out + 1) + Len(q) /\ out < in /\ t.buf[x] = out + 1
    <2>1. in = out + m
      BY ONLY <1>4, <1>6, Zenon
    <2>2. m > 0 /\ Len(q) = m - 1
      BY ONLY <1>7
    <2>3. in = (out + 1) + (m - 1) /\ out < in
      BY ONLY <2>1, <2>2, in \in Nat, out \in Nat, m \in Nat
    <2>4. 1 \in DOMAIN t.queue
      BY ONLY <1>6, <2>2
    <2>5. t.buf[x] = out + 1
      BY ONLY <1>4, <1>7, <2>4, Zenon
    <2>6. in = (out + 1) + Len(q)
      BY ONLY <2>2, <2>3, Zenon
    <2>7. QED
      BY ONLY <2>3, <2>5, <2>6
  <1>17. QED
    BY ONLY <1>1, <1>7, <1>11, <1>12, <1>13, <1>14, <1>15, <1>16 DEF TxHolds

\* The driver sees that a buffer has been used.
LEMMA ReclaimedHolds ==
  ASSUME NEW t \in TxStates, NEW in \in Nat, NEW out \in Nat, TxHolds(t, in, out), t.used # <<>>,
         NEW u, u = [t EXCEPT !.free[Head(t.used)] = TRUE, !.used = Tail(@)]
  PROVE  u \in TxStates /\ TxHolds(u, in, out)
  <1>1. PICK x, v, a, f : /\ x = Head(t.used) /\ v = Tail(t.used) /\ a = Append(t.queue, x)
                          /\ f = [t.free EXCEPT ![x] = TRUE]
    OBVIOUS
  <1>2. t.queue \in Seq(TxSlots) /\ t.used \in Seq(TxSlots) /\ t.free \in [TxSlots -> BOOLEAN]
    BY DEF TxStates
  <1>3. /\ Distinct(t.queue) /\ Distinct(t.used) /\ Apart(t.used, t.queue)
        /\ \A i \in DOMAIN t.queue : ~t.free[t.queue[i]] /\ t.buf[t.queue[i]] = out + i
        /\ \A i \in DOMAIN t.used : ~t.free[t.used[i]]
        /\ in = out + Len(t.queue)
    <2>1. Apart(t.queue, t.used)
      BY DEF TxHolds
    <2>2. QED
      BY ONLY TxHolds(t, in, out), <2>1, ApartTurns, Zenon DEF TxHolds
  <1>4. x \in TxSlots /\ v \in Seq(TxSlots) /\ Moved(t.used, t.queue, x, v, a)
    BY ONLY <1>1, <1>2, <1>3, t.used # <<>>, HeadMoves
  <1>5. /\ x = t.used[1] /\ Distinct(v) /\ DOMAIN v \subseteq Nat \ {0} /\ 1 \in DOMAIN t.used
        /\ \A i \in DOMAIN v : v[i] = t.used[i + 1] /\ i + 1 \in DOMAIN t.used
        /\ \A i \in DOMAIN t.queue : t.queue[i] # x
    <2>1. DOMAIN v \subseteq Nat \ {0}
      BY ONLY <1>4
    <2>2. 1 \in DOMAIN t.used
      BY ONLY <1>2, t.used # <<>>
    <2>3. QED
      BY ONLY <1>4, <2>1, <2>2, Zenon DEF Moved
  <1>6. \A i \in DOMAIN v : v[i] # x /\ v[i] \in TxSlots
    <2>1. SUFFICES ASSUME NEW i \in DOMAIN v PROVE v[i] # x /\ v[i] \in TxSlots
      OBVIOUS
    <2>2. PICK k : k = i + 1
      OBVIOUS
    <2>3. k \in DOMAIN t.used /\ k # 1 /\ v[i] = t.used[k] /\ t.used[k] \in TxSlots
      BY ONLY <1>2, <1>5, <2>2, i \in DOMAIN v
    <2>4. QED
      BY ONLY <1>3, <1>5, <2>3 DEF Distinct
  <1>7. u = [t EXCEPT !.free = f, !.used = v]
    BY ONLY <1>1, t \in TxStates, u = [t EXCEPT !.free[Head(t.used)] = TRUE, !.used = Tail(@)] DEF TxStates
  <1>8. f \in [TxSlots -> BOOLEAN]
    BY ONLY <1>1, <1>2
  <1>9. u \in TxStates /\ u.buf = t.buf /\ u.free = f /\ u.queue = t.queue /\ u.used = v
    BY ONLY <1>4, <1>7, <1>8, t \in TxStates DEF TxStates
  <1>10. Apart(t.queue, v)
    BY ONLY <1>3, <1>5 DEF Apart
  <1>11. /\ \A i \in DOMAIN t.queue : ~f[t.queue[i]]
         /\ \A i \in DOMAIN v : ~f[v[i]]
    <2>1. \A i \in DOMAIN t.queue : t.queue[i] \in TxSlots
      BY ONLY <1>2
    <2>2. \A i \in DOMAIN v : ~t.free[v[i]]
      BY ONLY <1>3, <1>5
    <2>3. QED
      BY ONLY <1>1, <1>2, <1>3, <1>5, <1>6, <2>1, <2>2
  <1>12. QED
    BY ONLY <1>3, <1>5, <1>9, <1>10, <1>11 DEF TxHolds

\* The counts of the two directions and what the rings hold, one by one.
LEMMA RingsAre ==
  ASSUME RingsInv
  PROVE  /\ nic \in [kind : EthernetKinds, link : BOOLEAN] /\ rx \in RxStates /\ tx \in TxStates
         /\ Numbered(delivered) /\ Numbered(received) /\ Numbered(accepted) /\ Numbered(onWire)
         /\ Len(delivered) \in Nat /\ Len(received) \in Nat /\ Len(accepted) \in Nat /\ Len(onWire) \in Nat
         /\ RxHolds(rx, Len(delivered), Len(received)) /\ TxHolds(tx, Len(accepted), Len(onWire))
  <1>1. \A q : Numbered(q) => Len(q) \in Nat
    BY DEF Numbered
  <1>2. QED
    BY ONLY <1>1, RingsInv, Zenon DEF RingsInv, RingTypes

\* A step that sends nothing.
LEMMA ReceivingKeeps ==
  ASSUME RingsInv, rx' \in RxStates, Numbered(delivered'), Numbered(received'),
         RxHolds(rx, Len(delivered), Len(received))', UNCHANGED <<tx, accepted, onWire>>,
         nic' \in [kind : EthernetKinds, link : BOOLEAN]
  PROVE  RingsInv'
  <1>1. TxHolds(tx, Len(accepted), Len(onWire))'
    BY RingsAre, Zenon DEF TxHolds
  <1>2. RingTypes'
    BY RingsAre, Zenon DEF RingTypes
  <1>3. QED
    BY <1>1, <1>2, Zenon DEF RingsInv

\* A step that receives nothing.
LEMMA SendingKeepsRx ==
  ASSUME RingsInv, tx' \in TxStates, Numbered(accepted'), Numbered(onWire'),
         TxHolds(tx', Len(accepted'), Len(onWire')), UNCHANGED <<nic, rx, delivered, received>>
  PROVE  RingsInv'
  <1>1. RxHolds(rx, Len(delivered), Len(received))'
    BY RingsAre, Zenon DEF RxHolds
  <1>2. RingTypes'
    BY RingsAre, Zenon DEF RingTypes
  <1>3. QED
    BY <1>1, <1>2, Zenon DEF RingsInv

\* The steps on the receive side.
LEMMA E1000FillsKeeps ==
  ASSUME RingsInv, E1000Fills
  PROVE  RingsInv'
  <1>1. PICK in \in Nat, out \in Nat : in = Len(delivered) /\ out = Len(received)
    BY RingsAre
  <1>2. nic.kind = "e1000" /\ rx \in RxStates /\ rx.head # rx.tail
    BY RingsAre DEF E1000Fills, Is
  <1>3. DescriptorsHold(rx, in, out)
    BY RingsAre, <1>1, <1>2, Zenon DEF RxHolds
  <1>4. rx' = [rx EXCEPT !.buf[rx.head] = in + 1, !.dd[rx.head] = TRUE, !.head = (@ + 1) % RxDesc]
    BY <1>1 DEF E1000Fills, NewFrame
  <1>5. PICK q : q = rx'
    OBVIOUS
  <1>6. q \in RxStates /\ DescriptorsHold(q, in + 1, out)
    <2>1. q = [rx EXCEPT !.buf[rx.head] = in + 1, !.dd[rx.head] = TRUE, !.head = (@ + 1) % RxDesc]
      BY <1>4, <1>5, Zenon
    <2>2. QED
      BY ONLY <1>1, <1>2, <1>3, <2>1, DescriptorFilled
  <1>7. delivered' = Append(delivered, Len(delivered) + 1) /\ Numbered(delivered)
    BY RingsAre DEF E1000Fills, NewFrame
  <1>8. Numbered(delivered') /\ Len(delivered') = in + 1
    BY ONLY <1>1, <1>7, NumberedGrows
  <1>9. UNCHANGED <<nic, tx, received, accepted, onWire>>
    BY DEF E1000Fills
  <1>10. RxHolds(rx, Len(delivered), Len(received))'
    BY ONLY <1>1, <1>2, <1>5, <1>6, <1>8, <1>9 DEF RxHolds
  <1>11. QED
    BY <1>5, <1>6, <1>8, <1>9, <1>10, RingsAre, ReceivingKeeps

LEMMA E1000RecvKeeps ==
  ASSUME RingsInv, E1000Recv
  PROVE  RingsInv'
  <1>1. PICK in \in Nat, out \in Nat : in = Len(delivered) /\ out = Len(received)
    BY RingsAre
  <1>2. nic.kind = "e1000" /\ rx \in RxStates /\ rx.dd[rx.next]
    BY RingsAre DEF E1000Recv, Is
  <1>3. DescriptorsHold(rx, in, out)
    BY RingsAre, <1>1, <1>2, Zenon DEF RxHolds
  <1>4. PICK q : q = rx'
    OBVIOUS
  <1>5. q = [rx EXCEPT !.dd[rx.next] = FALSE, !.tail = rx.next, !.next = (@ + 1) % RxDesc]
    BY <1>4 DEF E1000Recv, TailAfter
  <1>6. q \in RxStates /\ DescriptorsHold(q, in, out + 1) /\ rx.buf[rx.next] = out + 1
    <2>1. rx.dd[rx.next] = TRUE
      BY ONLY <1>2 DEF RxStates
    <2>2. QED
      BY ONLY <1>2, <1>3, <1>5, <2>1, in \in Nat, out \in Nat, DescriptorRead, Zenon
  <1>7. received' = Append(received, Len(received) + 1) /\ Numbered(received)
    BY <1>1, <1>6, RingsAre, Zenon DEF E1000Recv, Taken
  <1>8. Numbered(received') /\ Len(received') = out + 1
    BY ONLY <1>1, <1>7, NumberedGrows
  <1>9. UNCHANGED <<nic, tx, delivered, accepted, onWire>>
    BY DEF E1000Recv
  <1>10. RxHolds(rx, Len(delivered), Len(received))'
    BY ONLY <1>1, <1>2, <1>4, <1>6, <1>8, <1>9 DEF RxHolds
  <1>11. QED
    BY <1>4, <1>6, <1>8, <1>9, <1>10, RingsAre, ReceivingKeeps

LEMMA VirtioFillsKeeps ==
  ASSUME RingsInv, VirtioFills
  PROVE  RingsInv'
  <1>1. PICK in \in Nat, out \in Nat : in = Len(delivered) /\ out = Len(received)
    BY RingsAre
  <1>2. nic.kind = "virtio" /\ rx \in RxStates /\ rx.avail # <<>>
    BY RingsAre DEF VirtioFills, Is
  <1>3. ListsHold(rx, in, out)
    BY RingsAre, <1>1, <1>2, Zenon DEF RxHolds
  <1>4. PICK q : q = rx'
    OBVIOUS
  <1>5. q = [rx EXCEPT !.buf[Head(rx.avail)] = in + 1, !.used = Append(@, Head(rx.avail)), !.avail = Tail(@)]
    BY <1>1, <1>4 DEF VirtioFills, NewFrame
  <1>6. q \in RxStates /\ ListsHold(q, in + 1, out)
    BY ONLY <1>1, <1>2, <1>3, <1>5, ListsFilled
  <1>7. delivered' = Append(delivered, Len(delivered) + 1) /\ Numbered(delivered)
    BY RingsAre DEF VirtioFills, NewFrame
  <1>8. Numbered(delivered') /\ Len(delivered') = in + 1
    BY ONLY <1>1, <1>7, NumberedGrows
  <1>9. UNCHANGED <<nic, tx, received, accepted, onWire>>
    BY DEF VirtioFills
  <1>10. RxHolds(rx, Len(delivered), Len(received))'
    BY ONLY <1>1, <1>2, <1>4, <1>6, <1>8, <1>9 DEF RxHolds
  <1>11. QED
    BY <1>4, <1>6, <1>8, <1>9, <1>10, RingsAre, ReceivingKeeps

LEMMA VirtioRecvKeeps ==
  ASSUME RingsInv, VirtioRecv
  PROVE  RingsInv'
  <1>1. PICK in \in Nat, out \in Nat : in = Len(delivered) /\ out = Len(received)
    BY RingsAre
  <1>2. nic.kind = "virtio" /\ rx \in RxStates /\ rx.used # <<>>
    BY RingsAre DEF VirtioRecv, Is
  <1>3. ListsHold(rx, in, out)
    BY RingsAre, <1>1, <1>2, Zenon DEF RxHolds
  <1>4. PICK q : q = rx'
    OBVIOUS
  <1>5. q = [rx EXCEPT !.used = Tail(@), !.avail = Append(@, Head(rx.used))]
    <2>1. rx' = [rx EXCEPT !.used = Tail(@), !.avail = Append(rx.avail, Head(rx.used))]
      BY DEF VirtioRecv, GivenBack
    <2>2. QED
      BY ONLY <1>2, <1>4, <2>1 DEF RxStates
  <1>6. q \in RxStates /\ ListsHold(q, in, out + 1) /\ rx.buf[Head(rx.used)] = out + 1
    BY ONLY <1>1, <1>2, <1>3, <1>5, ListsRead
  <1>7. received' = Append(received, Len(received) + 1) /\ Numbered(received)
    BY <1>1, <1>6, RingsAre, Zenon DEF VirtioRecv, Taken
  <1>8. Numbered(received') /\ Len(received') = out + 1
    BY ONLY <1>1, <1>7, NumberedGrows
  <1>9. UNCHANGED <<nic, tx, delivered, accepted, onWire>>
    BY DEF VirtioRecv
  <1>10. RxHolds(rx, Len(delivered), Len(received))'
    BY ONLY <1>1, <1>2, <1>4, <1>6, <1>8, <1>9 DEF RxHolds
  <1>11. QED
    BY <1>4, <1>6, <1>8, <1>9, <1>10, RingsAre, ReceivingKeeps

LEMMA RtlFillsKeeps ==
  ASSUME RingsInv, RtlFills
  PROVE  RingsInv'
  <1>1. PICK in \in Nat, out \in Nat : in = Len(delivered) /\ out = Len(received)
    BY RingsAre
  <1>2. nic.kind = "rtl8139" /\ rx \in RxStates
    BY RingsAre DEF RtlFills, Is
  <1>3. BytesHold(rx, in, out)
    BY RingsAre, <1>1, <1>2, Zenon DEF RxHolds
  <1>4. PICK q : q = rx'
    OBVIOUS
  <1>5. PICK len \in Lengths :
          /\ RtlBytes + len + 8 < RtlRing
          /\ q = [rx EXCEPT !.packets = Append(@, [at |-> rx.cbr, len |-> len, id |-> in + 1]),
                            !.cbr = RtlAdvance(rx.cbr, len)]
    BY <1>1, <1>4, Zenon DEF RtlFills, NewFrame
  <1>6. q \in RxStates /\ BytesHold(q, in + 1, out)
    <2>1. ((rx.cbr - rx.offset + RtlRing) % RtlRing) + len + 8 < RtlRing
      BY ONLY <1>5, Zenon DEF RtlBytes
    <2>2. QED
      BY ONLY <1>1, <1>2, <1>3, <1>5, <2>1, BytesFilled, Zenon
  <1>7. delivered' = Append(delivered, Len(delivered) + 1) /\ Numbered(delivered)
    BY RingsAre DEF RtlFills, NewFrame
  <1>8. Numbered(delivered') /\ Len(delivered') = in + 1
    BY ONLY <1>1, <1>7, NumberedGrows
  <1>9. UNCHANGED <<nic, tx, received, accepted, onWire>>
    BY DEF RtlFills
  <1>10. RxHolds(rx, Len(delivered), Len(received))'
    BY ONLY <1>1, <1>2, <1>4, <1>6, <1>8, <1>9 DEF RxHolds
  <1>11. QED
    BY <1>4, <1>6, <1>8, <1>9, <1>10, RingsAre, ReceivingKeeps

LEMMA RtlRecvKeeps ==
  ASSUME RingsInv, RtlRecv
  PROVE  RingsInv'
  <1>1. PICK in \in Nat, out \in Nat : in = Len(delivered) /\ out = Len(received)
    BY RingsAre
  <1>2. nic.kind = "rtl8139" /\ rx \in RxStates /\ rx.packets # <<>>
    BY RingsAre DEF RtlRecv, Is
  <1>3. BytesHold(rx, in, out)
    BY RingsAre, <1>1, <1>2, Zenon DEF RxHolds
  <1>4. PICK n \in Nat : n = Len(rx.packets) /\ DOMAIN rx.packets = 1 .. n /\ n > 0
    <2>1. rx.packets \in Seq(RtlPackets)
      BY ONLY <1>2 DEF RxStates
    <2>2. QED
      BY ONLY <1>2, <2>1
  <1>5. PICK o : o = rx.offset /\ rx.packets[1].at = o
    BY ONLY <1>2, <1>3, Zenon DEF BytesHold
  <1>6. o \in 0 .. RtlRing - 1 /\ RtlRing \in Nat /\ Ahead(rx, o) = 0
    <2>1. o \in 0 .. RtlRing - 1 /\ RtlRing \in Nat
      BY ONLY <1>2, <1>5, RingSizes DEF RxStates
    <2>2. QED
      BY ONLY <1>5, <2>1 DEF Ahead
  <1>7. {i \in DOMAIN rx.packets : rx.packets[i].at = rx.offset} = {1}
    <2>1. 1 \in DOMAIN rx.packets
      BY ONLY <1>4
    <2>2. ASSUME NEW i \in DOMAIN rx.packets, rx.packets[i].at = rx.offset PROVE i = 1
      <3>1. ASSUME 1 < i PROVE FALSE
        <4>1. Ahead(rx, rx.packets[1].at) < Ahead(rx, rx.packets[i].at)
          BY ONLY <1>3, <2>1, <3>1, i \in DOMAIN rx.packets, Zenon DEF BytesHold
        <4>2. Ahead(rx, o) < Ahead(rx, o)
          BY ONLY <1>5, <2>2, <4>1
        <4>3. QED
          BY ONLY <1>6, <4>2
      <3>2. QED
        BY ONLY <1>4, <3>1, i \in DOMAIN rx.packets
    <2>3. QED
      BY ONLY <1>5, <2>1, <2>2
  <1>8. (CHOOSE i \in {1} : TRUE) = 1
    OBVIOUS
  <1>9. PICK s : s = [j \in 1 .. n - 1 |-> rx.packets[j + 1]]
    OBVIOUS
  <1>10. PacketsWithout(1) = s
    <2>1. \A j \in 1 .. n - 1 : ~(j < 1)
      BY ONLY n \in Nat
    <2>2. QED
      BY ONLY <1>4, <1>9, <2>1 DEF PacketsWithout
  <1>11. PICK q : q = rx'
    OBVIOUS
  <1>12. /\ Taken(rx.packets[1].id)
         /\ q = [rx EXCEPT !.offset = RtlNext(rx.offset, rx.packets[1].len), !.packets = s]
    <2>1. /\ Taken(rx.packets[CHOOSE i \in {1} : TRUE].id)
          /\ rx' = [rx EXCEPT !.offset = RtlNext(rx.offset, rx.packets[CHOOSE i \in {1} : TRUE].len),
                              !.packets = PacketsWithout(CHOOSE i \in {1} : TRUE)]
      BY <1>7 DEF RtlRecv
    <2>2. QED
      BY ONLY <1>8, <1>10, <1>11, <2>1
  <1>13. q \in RxStates /\ BytesHold(q, in, out + 1) /\ rx.packets[1].id = out + 1
    <2>1. Follow(rx, n, s)
      BY ONLY <1>4, <1>9, Zenon DEF Follow
    <2>2. PassedFirst(rx, s, q)
      BY ONLY <1>12, Zenon DEF PassedFirst
    <2>3. rx \in RxStates /\ rx.packets # <<>>
      BY <1>2
    <2>4. QED
      BY ONLY <1>3, <2>1, <2>2, <2>3, in \in Nat, out \in Nat, n \in Nat, BytesRead
  <1>14. received' = Append(received, Len(received) + 1) /\ Numbered(received)
    BY <1>1, <1>12, <1>13, RingsAre, Zenon DEF Taken
  <1>15. Numbered(received') /\ Len(received') = out + 1
    BY ONLY <1>1, <1>14, NumberedGrows
  <1>16. UNCHANGED <<nic, tx, delivered, accepted, onWire>>
    BY DEF RtlRecv
  <1>17. RxHolds(rx, Len(delivered), Len(received))'
    BY ONLY <1>1, <1>2, <1>11, <1>13, <1>15, <1>16 DEF RxHolds
  <1>18. QED
    BY <1>11, <1>13, <1>15, <1>16, <1>17, RingsAre, ReceivingKeeps

\* The steps on the transmit side.
LEMMA SendKeeps ==
  ASSUME RingsInv, Send
  PROVE  RingsInv'
  <1>1. PICK in \in Nat, out \in Nat : in = Len(accepted) /\ out = Len(onWire)
    BY RingsAre
  <1>2. PICK s \in TxSlots : tx.free[s] /\ tx' = HandedOver(s)
    <2>1. tx.tail \in TxSlots
      BY RingsAre DEF TxStates
    <2>2. \A s \in SendSlots : s \in TxSlots /\ tx.free[s]
      BY <2>1 DEF SendSlots
    <2>3. QED
      BY <2>2 DEF Send
  <1>3. PICK u : u = tx'
    OBVIOUS
  <1>4. u = [tx EXCEPT !.buf[s] = in + 1, !.free[s] = FALSE, !.queue = Append(@, s), !.tail = (s + 1) % TxDesc]
    BY <1>1, <1>2, <1>3, Zenon DEF HandedOver, NextSent
  <1>5. tx \in TxStates /\ TxHolds(tx, in, out)
    BY RingsAre, <1>1, Zenon
  <1>6. u \in TxStates /\ TxHolds(u, in + 1, out)
    BY ONLY <1>1, <1>2, <1>4, <1>5, HandedOverHolds, Zenon
  <1>7. accepted' = Append(accepted, Len(accepted) + 1) /\ Numbered(accepted)
    BY RingsAre DEF Send, NextSent
  <1>8. Numbered(accepted') /\ Len(accepted') = in + 1
    BY ONLY <1>1, <1>7, NumberedGrows
  <1>9. UNCHANGED <<nic, rx, delivered, received, onWire>>
    BY DEF Send
  <1>10. TxHolds(tx', Len(accepted'), Len(onWire'))
    BY ONLY <1>1, <1>3, <1>6, <1>8, <1>9, Zenon
  <1>11. QED
    BY <1>3, <1>6, <1>8, <1>9, <1>10, RingsAre, SendingKeepsRx

LEMMA TransmitKeeps ==
  ASSUME RingsInv, Transmit
  PROVE  RingsInv'
  <1>1. PICK in \in Nat, out \in Nat : in = Len(accepted) /\ out = Len(onWire)
    BY RingsAre
  <1>2. PICK f, v : /\ f = (IF Is("virtio") THEN tx.free ELSE [tx.free EXCEPT ![Head(tx.queue)] = TRUE])
                    /\ v = (IF Is("virtio") THEN Append(tx.used, Head(tx.queue)) ELSE tx.used)
    OBVIOUS
  <1>3. PICK u : u = tx'
    OBVIOUS
  <1>4. TookOldest(tx, f, v, u) /\ Freed(tx, f, v)
    <2>1. tx \in TxStates
      BY RingsAre
    <2>2. u = [tx EXCEPT !.queue = Tail(tx.queue), !.free = f, !.used = v]
      BY <1>2, <1>3, <2>1 DEF Transmit, TxStates
    <2>3. Freed(tx, f, v)
      BY ONLY <1>2, Zenon DEF Freed
    <2>4. QED
      BY ONLY <2>2, <2>3, Zenon DEF TookOldest
  <1>5. tx \in TxStates /\ TxHolds(tx, in, out) /\ tx.queue # <<>>
    BY RingsAre, <1>1, Zenon DEF Transmit
  <1>6. u \in TxStates /\ TxHolds(u, in, out + 1) /\ tx.buf[Head(tx.queue)] = out + 1
    BY ONLY <1>4, <1>5, in \in Nat, out \in Nat, TransmittedHolds
  <1>7. onWire' = Append(onWire, Len(onWire) + 1) /\ Numbered(onWire)
    BY <1>1, <1>6, RingsAre, Zenon DEF Transmit
  <1>8. Numbered(onWire') /\ Len(onWire') = out + 1
    BY ONLY <1>1, <1>7, NumberedGrows
  <1>9. UNCHANGED <<nic, rx, delivered, received, accepted>>
    BY DEF Transmit
  <1>10. TxHolds(tx', Len(accepted'), Len(onWire'))
    BY ONLY <1>1, <1>3, <1>6, <1>8, <1>9, Zenon
  <1>11. QED
    BY <1>3, <1>6, <1>8, <1>9, <1>10, RingsAre, SendingKeepsRx

LEMMA ReclaimKeeps ==
  ASSUME RingsInv, Reclaim
  PROVE  RingsInv'
  <1>1. PICK in \in Nat, out \in Nat : in = Len(accepted) /\ out = Len(onWire)
    BY RingsAre
  <1>2. PICK u : u = tx'
    OBVIOUS
  <1>3. u = [tx EXCEPT !.free[Head(tx.used)] = TRUE, !.used = Tail(@)] /\ tx.used # <<>>
    BY <1>2, Zenon DEF Reclaim
  <1>4. tx \in TxStates /\ TxHolds(tx, in, out)
    BY RingsAre, <1>1, Zenon
  <1>5. u \in TxStates /\ TxHolds(u, in, out)
    BY ONLY <1>1, <1>3, <1>4, ReclaimedHolds, Zenon
  <1>6. UNCHANGED <<nic, rx, delivered, received, accepted, onWire>>
    BY DEF Reclaim
  <1>7. TxHolds(tx', Len(accepted'), Len(onWire'))
    BY ONLY <1>1, <1>2, <1>5, <1>6, Zenon
  <1>8. Numbered(accepted') /\ Numbered(onWire')
    BY RingsAre, <1>6, Zenon
  <1>9. QED
    BY <1>2, <1>5, <1>6, <1>7, <1>8, SendingKeepsRx

\* What the set-up leaves is right for each of the three controllers.
LEMMA EmptyRxHolds ==
  /\ EmptyRx \in RxStates /\ DescriptorsHold(EmptyRx, 0, 0) /\ ListsHold(EmptyRx, 0, 0)
  /\ BytesHold(EmptyRx, 0, 0)
  <1>1. RxDesc \in Nat /\ RxDesc > 1 /\ RtlRing \in Nat /\ RtlRing > 0
    BY ONLY RingSizes
  <1>2. PICK a : a = [i \in 1 .. RxDesc |-> i - 1]
    OBVIOUS
  <1>3. a \in Seq(RxSlots) /\ Len(a) = RxDesc /\ DOMAIN a = 1 .. RxDesc /\ Distinct(a)
    <2>1. \A i \in 1 .. RxDesc : i - 1 \in RxSlots
      BY ONLY <1>1 DEF RxSlots
    <2>2. a \in Seq(RxSlots) /\ Len(a) = RxDesc /\ DOMAIN a = 1 .. RxDesc
      BY ONLY <1>1, <1>2, <2>1
    <2>3. Distinct(a)
      BY ONLY <1>1, <1>2, <2>2 DEF Distinct
    <2>4. QED
      BY ONLY <2>2, <2>3
  <1>4. PICK b, d : b = [i \in RxSlots |-> 0] /\ d = [i \in RxSlots |-> FALSE]
    OBVIOUS
  <1>5. EmptyRx = [buf |-> b, dd |-> d, next |-> 0, head |-> 0, tail |-> RxDesc - 1, avail |-> a, used |-> <<>>,
                   packets |-> <<>>, offset |-> 0, cbr |-> 0]
    BY ONLY <1>2, <1>4 DEF EmptyRx
  <1>6. PICK e : e = EmptyRx
    OBVIOUS
  <1>7. /\ e.buf = b /\ e.dd = d /\ e.next = 0 /\ e.head = 0 /\ e.tail = RxDesc - 1 /\ e.avail = a
        /\ e.used = <<>> /\ e.packets = <<>> /\ e.offset = 0 /\ e.cbr = 0
    BY ONLY <1>5, <1>6
  <1>8. e \in RxStates
    <2>1. 0 \in RxSlots /\ RxDesc - 1 \in RxSlots /\ 0 \in 0 .. RtlRing - 1
      BY ONLY <1>1 DEF RxSlots
    <2>2. b \in [RxSlots -> Nat] /\ d \in [RxSlots -> BOOLEAN]
      BY ONLY <1>4
    <2>3. <<>> \in Seq(RxSlots) /\ <<>> \in Seq(RtlPackets)
      OBVIOUS
    <2>4. QED
      BY ONLY <1>3, <1>5, <1>6, <2>1, <2>2, <2>3 DEF RxStates
  <1>9. DescriptorsHold(e, 0, 0)
    <2>1. \A i \in RxSlots : ~e.dd[i] /\ Distance(e, i) \in Nat
      BY ONLY <1>1, <1>4, <1>7 DEF Distance, RxSlots
    <2>2. Distance(e, e.head) = 0
      BY ONLY <1>7 DEF Distance
    <2>3. FilledSlots(e) = {}
      BY ONLY <2>1 DEF FilledSlots
    <2>4. Cardinality(FilledSlots(e)) = 0
      BY ONLY <2>3, FS_EmptySet
    <2>5. \A i \in RxSlots : ~(Distance(e, i) < Distance(e, e.head))
      BY ONLY <2>1, <2>2
    <2>6. QED
      BY ONLY <1>7, <2>1, <2>2, <2>4, <2>5 DEF DescriptorsHold
  <1>10. ListsHold(e, 0, 0)
    <2>1. Len(e.used) = 0 /\ DOMAIN e.used = {}
      BY ONLY <1>7
    <2>2. Distinct(e.used) /\ Apart(e.avail, e.used)
      BY ONLY <2>1 DEF Distinct, Apart
    <2>3. QED
      BY ONLY <1>1, <1>3, <1>7, <2>1, <2>2 DEF ListsHold
  <1>11. BytesHold(e, 0, 0)
    <2>1. Len(e.packets) = 0 /\ DOMAIN e.packets = {}
      BY ONLY <1>7
    <2>2. QED
      BY ONLY <1>7, <2>1 DEF BytesHold
  <1>12. QED
    BY ONLY <1>6, <1>8, <1>9, <1>10, <1>11

\* net_init and the link.
LEMMA NetInitKeeps ==
  ASSUME RingsInv, NetInit
  PROVE  RingsInv'
  <1>1. rx = EmptyRx /\ Len(delivered) = 0 /\ Len(received) = 0
    BY RingsAre, Zenon DEF NetInit, RxHolds
  <1>2. nic' \in [kind : EthernetKinds, link : BOOLEAN] /\ nic'.kind # "none"
    <2>1. PICK k, l : k \in EthernetKinds /\ l \in BOOLEAN /\ k # "none" /\ nic' = [kind |-> k, link |-> l]
      BY DEF NetInit, Chosen, EthernetKinds
    <2>2. QED
      BY <2>1
  <1>3. UNCHANGED <<rx, tx, delivered, received, accepted, onWire>>
    BY DEF NetInit
  <1>4. RxHolds(rx, Len(delivered), Len(received))'
    <2>1. RxHolds(EmptyRx, 0, 0)'
      BY ONLY <1>2, EmptyRxHolds DEF RxHolds
    <2>2. QED
      BY ONLY <1>1, <1>2, <1>3, EmptyRxHolds DEF RxHolds
  <1>5. QED
    BY <1>2, <1>3, <1>4, RingsAre, ReceivingKeeps

LEMMA LinkChangesKeeps ==
  ASSUME RingsInv, LinkChanges
  PROVE  RingsInv'
  <1>1. nic' \in [kind : EthernetKinds, link : BOOLEAN] /\ nic'.kind = nic.kind
    BY RingsAre DEF LinkChanges
  <1>2. UNCHANGED <<rx, tx, delivered, received, accepted, onWire>>
    BY DEF LinkChanges
  <1>3. RxHolds(rx, Len(delivered), Len(received))'
    BY ONLY RingsAre, RingsInv, <1>1, <1>2, Zenon DEF RxHolds
  <1>4. QED
    BY <1>1, <1>2, <1>3, RingsAre, ReceivingKeeps

\* Before net_init the rings are empty.
LEMMA RingsStart == NetRingsInit => RingsInv
  <1> SUFFICES ASSUME NetRingsInit PROVE RingsInv
    OBVIOUS
  <1>1. nic \in [kind : EthernetKinds, link : BOOLEAN] /\ nic.kind = "none"
    BY DEF NetRingsInit, EthernetKinds
  <1>2. rx = EmptyRx /\ tx = EmptyTx /\ delivered = <<>> /\ received = <<>> /\ accepted = <<>> /\ onWire = <<>>
    BY DEF NetRingsInit
  <1>3. Numbered(<<>>) /\ Len(<<>>) = 0
    BY DEF Numbered
  <1>4. RxHolds(EmptyRx, 0, 0)
    BY ONLY <1>1 DEF RxHolds
  <1>5. EmptyTx \in TxStates /\ EmptyTx.queue = <<>> /\ EmptyTx.used = <<>>
    <2>1. 0 \in TxSlots
      BY ONLY RingSizes DEF TxSlots
    <2>2. <<>> \in Seq(TxSlots)
      OBVIOUS
    <2>3. QED
      BY ONLY <2>1, <2>2 DEF EmptyTx, TxStates
  <1>6. TxHolds(EmptyTx, 0, 0)
    <2>1. DOMAIN <<>> = {} /\ Len(<<>>) = 0
      OBVIOUS
    <2>2. QED
      BY ONLY <1>5, <2>1 DEF TxHolds, Distinct, Apart
  <1>7. EmptyRx \in RxStates
    BY EmptyRxHolds
  <1>8. QED
    BY ONLY <1>1, <1>2, <1>3, <1>4, <1>5, <1>6, <1>7, Zenon DEF RingsInv, RingTypes

\* Every step keeps what the rings hold.
LEMMA RingsSteps == RingsInv /\ [NetRingsNext]_netRingVars => RingsInv'
  <1> SUFFICES ASSUME RingsInv, [NetRingsNext]_netRingVars PROVE RingsInv'
    OBVIOUS
  <1>1. CASE NetController
    BY <1>1, E1000FillsKeeps, VirtioFillsKeeps, RtlFillsKeeps, TransmitKeeps, Zenon DEF NetController
  <1>2. CASE NetDriver
    BY <1>2, NetInitKeeps, E1000RecvKeeps, VirtioRecvKeeps, RtlRecvKeeps, ReclaimKeeps, SendKeeps, Zenon DEF NetDriver
  <1>3. CASE LinkChanges
    BY <1>3, LinkChangesKeeps
  <1>4. CASE UNCHANGED netRingVars
    <2>1. UNCHANGED <<nic, rx, tx, delivered, received, accepted, onWire>>
      BY <1>4 DEF netRingVars
    <2>2. QED
      BY <2>1, Zenon DEF RingsInv, RingTypes, RxHolds
  <1>5. QED
    BY <1>1, <1>2, <1>3, <1>4, Zenon DEF NetRingsNext

\* The descriptors that are neither filled nor the driver's are what the tail is
\* ahead of the head.
LEMMA DescriptorsKept ==
  ASSUME NEW r \in RxStates, NEW in \in Nat, NEW out \in Nat, DescriptorsHold(r, in, out)
  PROVE  ((r.tail - r.head + RxDesc) % RxDesc) + Cardinality({i \in RxSlots : r.dd[i]}) = RxDesc - 1
  <1>1. PICK t, h, n, c : t = r.tail /\ h = r.head /\ n = r.next /\ c = Distance(r, r.head)
    OBVIOUS
  <1>2. RxDesc \in Nat /\ RxDesc > 1 /\ t \in 0 .. RxDesc - 1 /\ h \in 0 .. RxDesc - 1 /\ n \in 0 .. RxDesc - 1
    BY ONLY <1>1, RingSizes, r \in RxStates DEF RxStates, RxSlots
  <1>3. c = IF h >= n THEN h - n ELSE h - n + RxDesc
    BY ONLY <1>1 DEF Distance
  <1>4. t = IF n = 0 THEN RxDesc - 1 ELSE n - 1
    BY ONLY <1>1, DescriptorsHold(r, in, out), Zenon DEF DescriptorsHold
  <1>5. c \in 0 .. RxDesc - 1
    BY ONLY <1>2, <1>3
  <1>6. t - h + RxDesc = (RxDesc - 1 - c) \/ t - h + RxDesc = (RxDesc - 1 - c) + RxDesc
    BY ONLY <1>2, <1>3, <1>4
  <1>7. (t - h + RxDesc) % RxDesc = RxDesc - 1 - c
    <2>1. PICK z : z = RxDesc - 1 - c
      OBVIOUS
    <2>2. z \in 0 .. RxDesc - 1
      BY ONLY <1>2, <1>5, <2>1
    <2>3. z % RxDesc = z /\ (z + RxDesc) % RxDesc = z
      BY ONLY <1>2, <2>2
    <2>4. QED
      BY ONLY <1>6, <2>1, <2>3, Zenon
  <1>8. Cardinality({i \in RxSlots : r.dd[i]}) = c
    BY ONLY <1>1, DescriptorsHold(r, in, out) DEF DescriptorsHold, FilledSlots
  <1>9. (RxDesc - 1 - c) + c = RxDesc - 1
    BY ONLY <1>2, <1>5
  <1>10. QED
    BY ONLY <1>1, <1>7, <1>8, <1>9, Zenon

\* From what the rings hold to what they keep.
LEMMA RingsKeepFollows == RingsInv => RingsKeepFrames
  <1> SUFFICES ASSUME RingsInv PROVE RingsKeepFrames
    OBVIOUS
  <1>1. PICK in \in Nat, out \in Nat : in = Len(delivered) /\ out = Len(received)
    BY RingsAre
  <1>2. PICK acc \in Nat, sent \in Nat : acc = Len(accepted) /\ sent = Len(onWire)
    BY RingsAre
  <1>3. nic.kind \in EthernetKinds /\ rx \in RxStates /\ tx \in TxStates
    BY RingsAre
  <1>4. RxHolds(rx, in, out) /\ TxHolds(tx, acc, sent)
    BY <1>1, <1>2, RingsAre, Zenon
  <1>5. out <= in
    <2>1. CASE nic.kind = "none"
      BY ONLY <1>4, <2>1 DEF RxHolds
    <2>2. CASE nic.kind = "e1000"
      <3>1. PICK c : c = Distance(rx, rx.head)
        OBVIOUS
      <3>2. in = out + c
        BY ONLY <1>4, <2>2, <3>1, Zenon DEF RxHolds, DescriptorsHold
      <3>3. c \in Nat
        <4>1. RxDesc \in Nat /\ rx.head \in 0 .. RxDesc - 1 /\ rx.next \in 0 .. RxDesc - 1
          BY ONLY <1>3, RingSizes DEF RxStates, RxSlots
        <4>2. QED
          BY ONLY <3>1, <4>1 DEF Distance
      <3>4. QED
        BY ONLY <3>2, <3>3, in \in Nat, out \in Nat
    <2>3. CASE nic.kind = "virtio"
      <3>1. in = out + Len(rx.used)
        BY ONLY <1>4, <2>3, Zenon DEF RxHolds, ListsHold
      <3>2. rx.used \in Seq(RxSlots)
        BY ONLY <1>3 DEF RxStates
      <3>3. QED
        BY ONLY <3>1, <3>2, in \in Nat, out \in Nat
    <2>4. CASE nic.kind = "rtl8139"
      <3>1. in = out + Len(rx.packets)
        BY ONLY <1>4, <2>4, Zenon DEF RxHolds, BytesHold
      <3>2. rx.packets \in Seq(RtlPackets)
        BY ONLY <1>3 DEF RxStates
      <3>3. QED
        BY ONLY <3>1, <3>2, in \in Nat, out \in Nat
    <2>5. QED
      BY ONLY <1>3, <2>1, <2>2, <2>3, <2>4 DEF EthernetKinds
  <1>6. sent <= acc
    <2>1. acc = sent + Len(tx.queue)
      BY ONLY <1>4, Zenon DEF TxHolds
    <2>2. tx.queue \in Seq(TxSlots)
      BY ONLY <1>3 DEF TxStates
    <2>3. QED
      BY ONLY <2>1, <2>2, acc \in Nat, sent \in Nat
  <1>7. RxInOrder
    <2>1. Numbered(delivered) /\ Numbered(received)
      BY RingsAre
    <2>2. QED
      BY ONLY <1>1, <1>5, <2>1 DEF RxInOrder, Numbered
  <1>8. TxInOrder
    <2>1. Numbered(accepted) /\ Numbered(onWire)
      BY RingsAre
    <2>2. QED
      BY ONLY <1>2, <1>6, <2>1 DEF TxInOrder, Numbered
  <1>9. RxBuffersKept
    <2>1. ASSUME nic.kind = "e1000"
          PROVE  ((rx.tail - rx.head + RxDesc) % RxDesc) + Cardinality({i \in RxSlots : rx.dd[i]}) = RxDesc - 1
      <3>1. DescriptorsHold(rx, in, out)
        BY ONLY <1>4, <2>1, Zenon DEF RxHolds
      <3>2. QED
        BY ONLY <1>3, <3>1, in \in Nat, out \in Nat, DescriptorsKept, Zenon
    <2>2. ASSUME nic.kind = "virtio" PROVE Len(rx.avail) + Len(rx.used) = RxDesc
      BY ONLY <1>4, <2>2, Zenon DEF RxHolds, ListsHold
    <2>3. QED
      BY ONLY <2>1, <2>2, Zenon DEF RxBuffersKept, Is
  <1>10. QED
    BY ONLY <1>7, <1>8, <1>9 DEF RingsKeepFrames

\* Whatever arrives, is read and is sent, in whichever order the controller, the stack
\* and the link act: each frame goes through the rings of net_send_ethernet and
\* net_recv_ethernet once, whole and in order, and no receive buffer is lost at a wrap.
\* For every number of descriptors, every size of the RTL8139 ring and all lengths.
THEOREM EthernetKeepsFrames == DevicesSpec => []RingsKeepFrames
<1>1. DevicesInit => RingsInv  BY RingsStart DEF DevicesInit
<1>2. RingsInv /\ [DevicesNext]_deviceVars => RingsInv'
  <2>1. [DevicesNext]_deviceVars => [NetRingsNext]_netRingVars
    BY DEF DevicesNext, Radio, Usb, deviceVars
  <2> QED  BY <2>1, RingsSteps
<1> QED  BY <1>1, <1>2, RingsKeepFollows, PTL DEF DevicesSpec

-----------------------------------------------------------------------------
(* The disks.                                                              *)

DiskEntries == [driver : Drivers, unit : Units, writable : BOOLEAN]

\* An entry belongs to the driver that found it.
Fits(e) ==
  /\ e.driver \in {"nvme512", "nvme4k"} <=> e.unit = "nvme"
  /\ e.driver = "ahci" <=> e.unit \in {"sata1", "sata2"}

DiskStates ==
  [scanned : BOOLEAN, selected : Nat, driver : Drivers \cup {"none"}, port : Units \cup {"none"},
   virtioUnit : {"vd1", "vd2"}, virtioDead : BOOLEAN, controllers : Nat]

\* The places of the two NVMe rings.
QueueEnds == 0 .. Depth - 1
\* What a buffer holds of some sectors.
SectorData == UNION {[S -> Int] : S \in SUBSET Lbas}
NvmeCommands ==
  [op : {"read", "write"}, data : SectorData, cid : Nat, from : {"scratch", "caller"}]
NvmeStates ==
  [sq : [QueueEnds -> NvmeCommands], sqTail : QueueEnds, sqHead : QueueEnds,
   cq : [QueueEnds -> [phase : {0, 1}, cid : Nat, ok : BOOLEAN]],
   cqHead : QueueEnds, phase : {0, 1}, cqTail : QueueEnds, devPhase : {0, 1}, cid : Nat,
   scratch : SectorData]

\* What the other two drivers keep.
AhciPorts == {"sata1", "sata2"}
AhciStates ==
  [busy : [AhciPorts -> BOOLEAN], halted : [AhciPorts -> BOOLEAN],
   cmd : [AhciPorts -> [op : {"read", "write"}, at : SUBSET Lbas]], val : Int]

VirtioStates ==
  [avail : Nat, used : Nat, status : {"ok", "error", "pending"}, op : {"read", "write"}, at : Lbas,
   val : Int, data : Int]

\* How far a call can be.
CallSteps == {"idle", "submit", "wait", "patch", "waitwrite"}
IoStates ==
  [step : CallSteps, op : {"read", "write"}, lba : Lbas, n : 0 .. 2, val : Int, i : Nat,
   unit : Units, cid : Nat, used : Nat]

\* What each variable may hold.
StorageTypes ==
  /\ disk \in DiskStates /\ nvme \in NvmeStates /\ ahci \in AhciStates
  /\ virtio \in VirtioStates /\ io \in IoStates
  /\ media \in [Units -> [Lbas -> Int]] /\ allowed \in [Units -> [Lbas -> SUBSET Int]]
  /\ tally \in [calls : Nat, late : Nat, exposed : BOOLEAN, misread : BOOLEAN]

\* The entries there can be: the registers of virtio are those of its one controller.
FittingEntries ==
  {e \in DiskEntries :
     /\ Fits(e)
     /\ disk.controllers <= 1 /\ e.driver = "virtio" => e.unit = disk.virtioUnit /\ ~disk.virtioDead}

\* What the selected disk is.
TableHolds ==
  /\ table \in Seq(FittingEntries)
  /\ ~disk.scanned => disk.selected = 0 /\ disk.controllers = 0
  /\ disk.selected = 0 => disk.driver = "none"
  /\ disk.selected # 0 => /\ disk.selected \in DOMAIN table
                          /\ disk.driver = table[disk.selected].driver /\ disk.port = table[disk.selected].unit

\* The unit the selected disk is.
Target == table[disk.selected].unit

\* The call under way lies on the selected disk.
CallHolds ==
  /\ io.step # "idle" => /\ disk.selected # 0 /\ io.n \in {1, 2} /\ io.lba + io.n <= Sectors /\ io.i < io.n
                         /\ disk.controllers <= 1 => io.unit = Target
                         /\ IsNvme => io.unit = "nvme"
                         /\ disk.driver = "ahci" => io.unit \in AhciPorts /\ io.unit = Target /\ io.i = 0
  /\ io.step \in {"patch", "waitwrite"} => IsNvme /\ io.op = "write"

\* One place on in a ring, and the phase there.
NextPlace(i) == IF i + 1 = Depth THEN 0 ELSE i + 1
Flipped(p, i) == IF i + 1 = Depth THEN 1 - p ELSE p

\* The completions the device has posted in this round have its phase.
PhasesHold == \A i \in QueueEnds : nvme.cq[i].phase = IF i < nvme.cqTail THEN nvme.devPhase ELSE 1 - nvme.devPhase

\* No command is out.
NvmeQuiet == nvme.sqHead = nvme.sqTail /\ nvme.cqHead = nvme.cqTail /\ nvme.phase = nvme.devPhase

\* The command of the call is in the queue.
NvmeIssued ==
  /\ nvme.sqTail = NextPlace(nvme.sqHead) /\ nvme.cqHead = nvme.cqTail /\ nvme.phase = nvme.devPhase
  /\ nvme.sq[nvme.sqHead].cid = io.cid

\* Its completion was posted.
NvmeDone ==
  /\ nvme.sqHead = nvme.sqTail /\ nvme.cqTail = NextPlace(nvme.cqHead)
  /\ nvme.devPhase = Flipped(nvme.phase, nvme.cqHead)
  /\ nvme.cq[nvme.cqHead].cid = io.cid

\* A call waits for the NVMe controller.
NvmeWaits == IsNvme /\ io.step \in {"wait", "waitwrite"}

\* As long as no poll gave up, at most one command is out, that of the call.
QueueHolds ==
  tally.late = 0 =>
    /\ PhasesHold
    /\ IF NvmeWaits THEN NvmeIssued \/ NvmeDone ELSE NvmeQuiet

\* No poll gave up, and the registers in use are those of the selected disk.
Calm == tally.late = 0 /\ Undisturbed

\* What is on the disks is allowed, and what the call has written so far is there.
MediaHold ==
  /\ \A u \in Units, s \in Lbas : media[u][s] \in allowed[u][s]
  /\ ~tally.misread
  /\ io.step # "idle" /\ io.op = "write" =>
       /\ \A s \in Span(io.lba, io.n) : io.val \in allowed[Target][s]
       /\ \A s \in Span(io.lba, io.i) : media[Target][s] = io.val

\* The sectors of the scratch block are those of the disk.
ScratchHolds == nvme.scratch = [s \in Block(Sector) |-> media["nvme"][s]]

\* What the command that is out reads or writes, and what a completed one did.
NvmeHolds ==
  /\ io.step = "patch" => ScratchHolds
  /\ IsNvme /\ io.step = "wait" /\ NvmeIssued =>
       nvme.sq[nvme.sqHead].op = "read" /\ DOMAIN nvme.sq[nvme.sqHead].data = Block(Sector)
  /\ IsNvme /\ io.step = "waitwrite" /\ NvmeIssued =>
       /\ nvme.sq[nvme.sqHead].op = "write" /\ DOMAIN nvme.sq[nvme.sqHead].data = Block(Sector)
       /\ Held(nvme.sq[nvme.sqHead]) = [s \in Block(Sector) |-> IF s = Sector THEN io.val ELSE media["nvme"][s]]
  /\ IsNvme /\ io.step = "wait" /\ NvmeDone /\ nvme.cq[nvme.cqHead].ok => ScratchHolds
  /\ IsNvme /\ io.step = "waitwrite" /\ NvmeDone /\ nvme.cq[nvme.cqHead].ok => media["nvme"][Sector] = io.val

\* A port that is busy and runs has the command of the call.
AhciHolds ==
  /\ \A u \in AhciPorts : ahci.busy[u] /\ ~ahci.halted[u] =>
       /\ io.step = "wait" /\ disk.driver = "ahci" /\ u = io.unit
       /\ ahci.cmd[u] = [op |-> io.op, at |-> Span(io.lba, io.n)] /\ ahci.val = io.val
  /\ io.step = "wait" /\ disk.driver = "ahci" /\ ~ahci.busy[io.unit] /\ ~ahci.halted[io.unit] /\ io.op = "write" =>
       \A s \in Span(io.lba, io.n) : media[io.unit][s] = io.val

\* The one request header is that of the call.
VirtioHolds ==
  IF disk.driver = "virtio" /\ io.step = "wait"
  THEN \/ /\ virtio.avail = virtio.used + 1 /\ io.used = virtio.used
          /\ virtio.op = io.op /\ virtio.at = Sector /\ virtio.val = io.val
       \/ /\ virtio.avail = virtio.used /\ virtio.used = io.used + 1
          /\ virtio.status = "ok" => IF io.op = "write" THEN media[disk.virtioUnit][Sector] = io.val
                                     ELSE virtio.data = media[disk.virtioUnit][Sector]
  ELSE virtio.avail = virtio.used

\* What holds of the disks as long as that is so.
CalmHolds == Calm => MediaHold /\ NvmeHolds /\ AhciHolds /\ VirtioHolds

\* What holds of the disks at any time.
StorageInv == StorageTypes /\ TableHolds /\ CallHolds /\ QueueHolds /\ CalmHolds

\* What a buffer is made of.
LEMMA DataIs ==
  ASSUME NEW S \in SUBSET Lbas, NEW d \in [S -> Int]
  PROVE  d \in SectorData
BY DEF SectorData

LEMMA DataHas ==
  ASSUME NEW d \in SectorData
  PROVE  /\ DOMAIN d \subseteq Lbas
         /\ \A s \in DOMAIN d : d[s] \in Int
BY DEF SectorData

\* The remainder is the next place.
LEMMA TurnsRound ==
  ASSUME NEW x \in QueueEnds
  PROVE  /\ (x + 1) % Depth = NextPlace(x)
         /\ NextPlace(x) \in QueueEnds
         /\ NextPlace(x) # x
<1>0. Depth \in Nat /\ Depth > 1  BY StorageAssumption
<1>1. CASE x + 1 = Depth
  <2>1. Depth % Depth = 0  BY <1>0
  <2> QED  BY <1>0, <1>1, <2>1 DEF NextPlace, QueueEnds
<1>2. CASE x + 1 # Depth
  <2>1. x + 1 \in 0 .. Depth - 1  BY <1>0, <1>2 DEF QueueEnds
  <2>2. (x + 1) % Depth = x + 1  BY <1>0, <2>1
  <2> QED  BY <1>0, <1>2, <2>1, <2>2 DEF NextPlace, QueueEnds
<1> QED  BY <1>1, <1>2

\* Before the scan there is no disk and no command.
LEMMA StorageStarts == ASSUME StorageInit PROVE StorageInv
<1>0. Depth \in Nat /\ Depth > 1 /\ Sectors \in Nat /\ Sectors > 0 /\ 0 \in Lbas /\ 0 \in QueueEnds
  BY StorageAssumption DEF Lbas, QueueEnds
<1>1. StorageTypes
  <2>1. <<>> \in SectorData
    <3>1. <<>> \in [{} -> Int]  OBVIOUS
    <3> QED  BY <3>1 DEF SectorData
  <2>2. disk \in DiskStates  BY DEF StorageInit, DiskStates, Drivers, Units
  <2>3. nvme \in NvmeStates
    <3>1. [op |-> "read", data |-> <<>>, cid |-> 0, from |-> "caller"] \in NvmeCommands  BY <2>1 DEF NvmeCommands
    <3> QED  BY <1>0, <2>1, <3>1 DEF StorageInit, NvmeStates, QueueEnds
  <2>4. ahci \in AhciStates  BY DEF StorageInit, AhciStates, AhciPorts
  <2>5. virtio \in VirtioStates  BY <1>0 DEF StorageInit, VirtioStates
  <2>6. io \in IoStates  BY <1>0 DEF StorageInit, IoStates, NoIo, CallSteps, Units
  <2>7. media \in [Units -> [Lbas -> Int]] /\ allowed \in [Units -> [Lbas -> SUBSET Int]]
    BY DEF StorageInit
  <2>8. tally \in [calls : Nat, late : Nat, exposed : BOOLEAN, misread : BOOLEAN]  BY DEF StorageInit
  <2> QED  BY <2>2, <2>3, <2>4, <2>5, <2>6, <2>7, <2>8 DEF StorageTypes
<1>2. TableHolds
  <2>1. table \in Seq(FittingEntries)  BY EmptySeq DEF StorageInit
  <2> QED  BY <2>1 DEF StorageInit, TableHolds
<1>3. CallHolds  BY DEF StorageInit, CallHolds, NoIo, Target
<1>4. QueueHolds  BY <1>0 DEF StorageInit, QueueHolds, PhasesHold, NvmeWaits, IsNvme, NvmeQuiet, QueueEnds
<1>5. MediaHold  BY DEF StorageInit, MediaHold, NoIo
<1>6. NvmeHolds  BY DEF StorageInit, NvmeHolds, NoIo
<1>7. AhciHolds  BY DEF StorageInit, AhciHolds, NoIo, AhciPorts
<1>8. VirtioHolds  BY DEF StorageInit, VirtioHolds, NoIo
<1> QED  BY <1>1, <1>2, <1>3, <1>4, <1>5, <1>6, <1>7, <1>8 DEF StorageInv, CalmHolds

\* A list put behind another.
LEMMA ListsJoin ==
  ASSUME NEW S, NEW p \in Seq(S), NEW q \in Seq(S)
  PROVE  p \o q \in Seq(S)
OBVIOUS

\* Lists of two at most.
LEMMA ShortLists ==
  ASSUME NEW S
  PROVE  /\ <<>> \in Seq(S)
         /\ \A e \in S : <<e>> \in Seq(S)
         /\ \A e, f \in S : <<e, f>> \in Seq(S)
<1>1. ASSUME NEW e \in S PROVE <<e>> \in Seq(S)
  OBVIOUS
<1>2. ASSUME NEW e \in S, NEW f \in S PROVE <<e, f>> \in Seq(S)
  OBVIOUS
<1> QED  BY <1>1, <1>2

\* The scan: the virtio entries are those of the controller set up last when it is
\* the only one.
LEMMA ScanKeeps == ASSUME StorageInv, ScanDisks PROVE StorageInv'
<1>0. StorageTypes /\ TableHolds /\ CallHolds /\ QueueHolds /\ CalmHolds  BY DEF StorageInv
<1> PICK nv \in NvmeDisks, at \in AhciDisks, controllers \in VirtioControllers,
         v1 \in VirtioDisk("vd1"), v2 \in VirtioDisk("vd2") :
      /\ ("vd1" \notin controllers => v1 = <<>>) /\ ("vd2" \notin controllers => v2 = <<>>)
      /\ table' = Added(nv \o at \o v1 \o v2)
      /\ disk' = [scanned |-> TRUE, selected |-> IF table' = <<>> THEN 0 ELSE 1,
                  driver |-> IF table' = <<>> THEN "none" ELSE table'[1].driver,
                  port |-> IF table' = <<>> THEN "none" ELSE table'[1].unit,
                  virtioUnit |-> IF "vd2" \in controllers THEN "vd2" ELSE "vd1",
                  virtioDead |-> (IF "vd2" \in controllers THEN v2 ELSE v1) = <<>>,
                  controllers |-> Cardinality(controllers)]
  BY DEF ScanDisks
<1>1. UNCHANGED <<nvme, ahci, virtio, media, allowed, io, tally>>  BY DEF ScanDisks
<1>2. ~disk.scanned /\ disk.selected = 0 /\ disk.driver = "none" /\ disk.controllers = 0 /\ io.step = "idle"
  BY <1>0 DEF ScanDisks, TableHolds, CallHolds
<1>3. /\ Cardinality(controllers) \in Nat
      /\ Cardinality(controllers) <= 1 => "vd2" \notin controllers
  <2>1. Cardinality({}) = 0 /\ Cardinality({"vd1"}) = 1  BY FS_EmptySet, FS_Singleton
  <2>2. IsFiniteSet({"vd1"}) /\ "vd2" \notin {"vd1"}  BY FS_Singleton
  <2>3. Cardinality({"vd1"} \cup {"vd2"}) = Cardinality({"vd1"}) + 1  BY ONLY <2>2, FS_AddElement
  <2>4. {"vd1", "vd2"} = {"vd1"} \cup {"vd2"}  BY ONLY TRUE
  <2>5. Cardinality({"vd1", "vd2"}) = 2  BY ONLY <2>1, <2>3, <2>4
  <2>6. controllers = {} \/ controllers = {"vd1"} \/ controllers = {"vd1", "vd2"}  BY DEF VirtioControllers
  <2> QED  BY ONLY <2>1, <2>5, <2>6
<1>4. /\ nv \in Seq(FittingEntries') /\ at \in Seq(FittingEntries')
      /\ v1 \in Seq(FittingEntries') /\ v2 \in Seq(FittingEntries')
  <2>2. ASSUME NEW d \in {"nvme512", "nvme4k"} PROVE Entry(d, "nvme", TRUE) \in FittingEntries'
    BY DEF FittingEntries, Entry, DiskEntries, Fits, Drivers, Units
  <2>3. Entry("ahci", "sata1", TRUE) \in FittingEntries' /\ Entry("ahci", "sata2", TRUE) \in FittingEntries'
    BY DEF FittingEntries, Entry, DiskEntries, Fits, Drivers, Units
  <2>4. ASSUME NEW w \in BOOLEAN, v1 = <<Entry("virtio", "vd1", w)>> PROVE Entry("virtio", "vd1", w) \in FittingEntries'
    <3>1. v1 # <<>>  BY <2>4
    <3>2. Cardinality(controllers) <= 1 => disk'.virtioUnit = "vd1" /\ ~disk'.virtioDead  BY <3>1, <1>3
    <3>3. disk'.controllers = Cardinality(controllers)  OBVIOUS
    <3> QED  BY <3>2, <3>3 DEF FittingEntries, Entry, DiskEntries, Fits, Drivers, Units
  <2>5. ASSUME NEW w \in BOOLEAN, v2 = <<Entry("virtio", "vd2", w)>> PROVE Entry("virtio", "vd2", w) \in FittingEntries'
    <3>1. v2 # <<>>  BY <2>5
    <3>2. disk'.controllers = Cardinality(controllers) /\ "vd2" \in controllers  BY <3>1
    <3>3. ~(Cardinality(controllers) <= 1)  BY <3>2, <1>3
    <3> QED  BY ONLY <3>2, <3>3, w \in BOOLEAN DEF FittingEntries, Entry, DiskEntries, Fits, Drivers, Units
  <2> DEFINE F == FittingEntries'
  <2> HIDE DEF F
  <2>0. F = FittingEntries'  BY DEF F
  <2>6. nv \in Seq(F)
    <3>1. nv = <<>> \/ \E d \in {"nvme512", "nvme4k"} : nv = <<Entry(d, "nvme", TRUE)>>  BY DEF NvmeDisks
    <3>2. \A d \in {"nvme512", "nvme4k"} : Entry(d, "nvme", TRUE) \in F  BY <2>0, <2>2
    <3> QED  BY ONLY <3>1, <3>2, ShortLists, Zenon
  <2>7. at \in Seq(F)
    <3>1. \/ at = <<>> \/ at = <<Entry("ahci", "sata1", TRUE)>>
          \/ at = <<Entry("ahci", "sata1", TRUE), Entry("ahci", "sata2", TRUE)>>
      BY DEF AhciDisks
    <3> QED  BY ONLY <2>0, <2>3, <3>1, ShortLists, Zenon
  <2>8. v1 \in Seq(F)
    <3>1. v1 = <<>> \/ \E w \in BOOLEAN : v1 = <<Entry("virtio", "vd1", w)>>  BY DEF VirtioDisk
    <3>2. \A w \in BOOLEAN : v1 = <<Entry("virtio", "vd1", w)>> => Entry("virtio", "vd1", w) \in F  BY <2>0, <2>4
    <3> QED  BY ONLY <3>1, <3>2, ShortLists, Zenon
  <2>9. v2 \in Seq(F)
    <3>1. v2 = <<>> \/ \E w \in BOOLEAN : v2 = <<Entry("virtio", "vd2", w)>>  BY DEF VirtioDisk
    <3>2. \A w \in BOOLEAN : v2 = <<Entry("virtio", "vd2", w)>> => Entry("virtio", "vd2", w) \in F  BY <2>0, <2>5
    <3> QED  BY ONLY <3>1, <3>2, ShortLists, Zenon
  <2> QED  BY ONLY <2>0, <2>6, <2>7, <2>8, <2>9
<1>5. table' \in Seq(FittingEntries')
  <2>1. nv \o at \in Seq(FittingEntries')  BY ONLY <1>4, ListsJoin
  <2>2. nv \o at \o v1 \in Seq(FittingEntries')  BY ONLY <1>4, <2>1, ListsJoin
  <2> DEFINE found == nv \o at \o v1 \o v2
  <2>3. found \in Seq(FittingEntries')  BY ONLY <1>4, <2>2, ListsJoin
  <2>4. table' = Added(found)  OBVIOUS
  <2> HIDE DEF found
  <2>5. Len(found) \in Nat /\ \A i \in 1 .. Len(found) : found[i] \in FittingEntries'  BY <2>3
  <2> DEFINE m == IF Len(found) <= MaxDevices THEN Len(found) ELSE MaxDevices
  <2>6. m \in Nat /\ m <= Len(found)  BY <2>5, StorageAssumption
  <2>7. \A i \in 1 .. m : found[i] \in FittingEntries'  BY <2>5, <2>6
  <2>8. SubSeq(found, 1, m) \in Seq(FittingEntries')
    <3> HIDE DEF m
    <3>1. m \in Int /\ 1 \in Int  BY <2>6
    <3> QED  BY ONLY <2>7, <3>1, SubSeqProperties
  <2> QED  BY <2>4, <2>8 DEF Added
<1>6. table' # <<>> => 1 \in DOMAIN table' /\ table'[1] \in FittingEntries'
  <2> DEFINE t == table'
  <2>1. t \in Seq(FittingEntries')  BY <1>5
  <2> HIDE DEF t
  <2>2. t # <<>> => 1 \in DOMAIN t /\ t[1] \in FittingEntries'
    <3> SUFFICES ASSUME t # <<>> PROVE 1 \in DOMAIN t /\ t[1] \in FittingEntries'  OBVIOUS
    <3>1. Len(t) \in Nat \ {0}  BY <2>1, EmptySeq
    <3> QED  BY <2>1, <3>1
  <2> QED  BY <2>2 DEF t
<1>7. disk' \in DiskStates
  <2>1. table' # <<>> => table'[1].driver \in Drivers /\ table'[1].unit \in Units
    BY <1>6 DEF FittingEntries, DiskEntries
  <2> QED  BY <1>3, <2>1 DEF DiskStates
<1>8. StorageTypes'  BY <1>0, <1>1, <1>7 DEF StorageTypes
<1>9. TableHolds'  BY <1>5, <1>6 DEF TableHolds
<1>10. CallHolds'  BY <1>1, <1>2 DEF CallHolds
<1>11. QueueHolds'  BY <1>0, <1>1, <1>2 DEF QueueHolds, PhasesHold, NvmeWaits, NvmeQuiet
<1>12. CalmHolds'
  <2> SUFFICES ASSUME Calm' PROVE (MediaHold /\ NvmeHolds /\ AhciHolds /\ VirtioHolds)'  BY DEF CalmHolds
  <2>1. Calm  BY <1>1, <1>2 DEF Calm, Undisturbed
  <2>2. MediaHold'  BY <1>0, <1>1, <1>2, <2>1 DEF CalmHolds, MediaHold
  <2>3. NvmeHolds'  BY <1>1, <1>2 DEF NvmeHolds
  <2>4. AhciHolds'  BY <1>0, <1>1, <1>2, <2>1 DEF CalmHolds, AhciHolds
  <2>5. VirtioHolds'  BY <1>0, <1>1, <1>2, <2>1 DEF CalmHolds, VirtioHolds
  <2> QED  BY <2>2, <2>3, <2>4, <2>5
<1> QED  BY <1>8, <1>9, <1>10, <1>11, <1>12 DEF StorageInv

\* Another disk can be selected between calls only.
LEMMA SelectKeeps == ASSUME StorageInv, SelectDevice PROVE StorageInv'
<1>0. StorageTypes /\ TableHolds /\ CallHolds /\ QueueHolds /\ CalmHolds  BY DEF StorageInv
<1> PICK k \in DOMAIN table : disk' = Selected(k)  BY DEF SelectDevice
<1>1. /\ UNCHANGED <<table, nvme, ahci, virtio, media, allowed, io, tally>>
      /\ disk.scanned /\ io.step = "idle"
  BY DEF SelectDevice
<1>2. k \in Nat \ {0} /\ table[k] \in FittingEntries
  <2>1. table \in Seq(FittingEntries)  BY <1>0 DEF TableHolds
  <2> QED  BY <2>1
<1>3. /\ disk'.scanned = disk.scanned /\ disk'.virtioUnit = disk.virtioUnit
      /\ disk'.virtioDead = disk.virtioDead /\ disk'.controllers = disk.controllers
      /\ disk'.selected = k /\ disk'.driver = table[k].driver /\ disk'.port = table[k].unit
      /\ disk' \in DiskStates
  BY <1>0, <1>2 DEF Selected, StorageTypes, DiskStates, FittingEntries, DiskEntries
<1>8. StorageTypes'  BY <1>0, <1>1, <1>3 DEF StorageTypes
<1>9. TableHolds'
  <2>1. FittingEntries' = FittingEntries  BY <1>3 DEF FittingEntries
  <2> QED  BY <1>0, <1>1, <1>2, <1>3, <2>1 DEF TableHolds
<1>10. CallHolds'  BY <1>1 DEF CallHolds
<1>11. QueueHolds'  BY <1>0, <1>1 DEF QueueHolds, PhasesHold, NvmeWaits, NvmeQuiet
<1>12. CalmHolds'
  <2> SUFFICES ASSUME Calm' PROVE (MediaHold /\ NvmeHolds /\ AhciHolds /\ VirtioHolds)'  BY DEF CalmHolds
  <2>1. Calm  BY <1>1, <1>3 DEF Calm, Undisturbed
  <2>2. MediaHold'  BY <1>0, <1>1, <2>1 DEF CalmHolds, MediaHold
  <2>3. NvmeHolds'  BY <1>1 DEF NvmeHolds
  <2>4. AhciHolds'  BY <1>0, <1>1, <2>1 DEF CalmHolds, AhciHolds
  <2>5. VirtioHolds'  BY <1>0, <1>1, <2>1 DEF CalmHolds, VirtioHolds
  <2> QED  BY <2>2, <2>3, <2>4, <2>5
<1> QED  BY <1>8, <1>9, <1>10, <1>11, <1>12 DEF StorageInv

\* What the selected disk is.
LEMMA SelectedFits ==
  ASSUME StorageInv, disk.selected # 0
  PROVE  /\ Target \in Units /\ disk.port = Target /\ disk.driver \in Drivers
         /\ IsNvme <=> Target = "nvme"
         /\ disk.driver = "ahci" <=> Target \in AhciPorts
         /\ disk.controllers <= 1 /\ disk.driver = "virtio" => Target = disk.virtioUnit /\ ~disk.virtioDead
<1>1. /\ disk.selected \in DOMAIN table /\ table \in Seq(FittingEntries)
      /\ disk.driver = table[disk.selected].driver /\ disk.port = table[disk.selected].unit
  BY DEF StorageInv, TableHolds
<1>2. table[disk.selected] \in FittingEntries
  BY <1>1
<1> DEFINE x == table[disk.selected]
<1>3. /\ x.driver \in Drivers /\ x.unit \in Units
      /\ x.driver \in {"nvme512", "nvme4k"} <=> x.unit = "nvme"
      /\ x.driver = "ahci" <=> x.unit \in {"sata1", "sata2"}
      /\ disk.controllers <= 1 /\ x.driver = "virtio" => x.unit = disk.virtioUnit /\ ~disk.virtioDead
  <2>1. x \in FittingEntries  BY <1>2
  <2> HIDE DEF x
  <2>2. x \in DiskEntries /\ Fits(x)
    BY ONLY <2>1 DEF FittingEntries
  <2>3. disk.controllers <= 1 /\ x.driver = "virtio" => x.unit = disk.virtioUnit /\ ~disk.virtioDead
    BY ONLY <2>1 DEF FittingEntries
  <2> QED
    BY ONLY <2>2, <2>3 DEF DiskEntries, Fits
<1>4. disk.driver = x.driver /\ disk.port = x.unit /\ Target = x.unit  BY <1>1 DEF Target
<1> HIDE DEF x
<1> QED
  BY ONLY <1>3, <1>4 DEF IsNvme, AhciPorts

\* A write may leave its value in its sectors from here on.
LEMMA CallKeeps == ASSUME StorageInv, Calls PROVE StorageInv'
<1>0. StorageTypes /\ TableHolds /\ CallHolds /\ QueueHolds /\ CalmHolds  BY DEF StorageInv
<1> PICK op \in {"read", "write"}, lba \in Lbas, n \in {1, 2} :
      lba + n <= Sectors /\ Call(op, lba, n, IF op = "read" THEN 1 ELSE tally.calls + 1)
  BY DEF Calls
<1> DEFINE val == IF op = "read" THEN 1 ELSE tally.calls + 1
<1>1. /\ io.step = "idle" /\ disk.selected # 0
      /\ io' = [NoIo EXCEPT !.step = "submit", !.op = op, !.lba = lba, !.n = n, !.val = val, !.unit = UnitInUse]
      /\ tally' = [tally EXCEPT !.calls = @ + 1]
      /\ UNCHANGED <<table, disk, nvme, ahci, virtio, media>>
  BY DEF Call
<1>2. allowed' = IF op = "read" THEN allowed
                 ELSE [allowed EXCEPT ![Target] = [s \in Lbas |-> @[s] \cup IF s \in Span(lba, n) THEN {val} ELSE {}]]
  BY DEF Call, Target
<1>3. val \in Int
  BY <1>0 DEF StorageTypes
<1> HIDE DEF val
<1>4. /\ Target \in Units /\ disk.port = Target /\ disk.driver \in Drivers
      /\ IsNvme <=> Target = "nvme"
      /\ disk.driver = "ahci" <=> Target \in AhciPorts
      /\ disk.controllers <= 1 /\ disk.driver = "virtio" => Target = disk.virtioUnit /\ ~disk.virtioDead
  BY <1>1, SelectedFits
<1>5. /\ io'.step = "submit" /\ io'.op = op /\ io'.lba = lba /\ io'.n = n /\ io'.val = val /\ io'.i = 0
      /\ io'.unit = UnitInUse /\ io'.cid = 0 /\ io'.used = 0
  BY <1>1 DEF NoIo
<1>6. UnitInUse \in Units
  BY <1>0, <1>4 DEF UnitInUse, StorageTypes, DiskStates, Units
<1>7. /\ tally'.late = tally.late /\ tally'.exposed = tally.exposed /\ tally'.misread = tally.misread
      /\ tally' \in [calls : Nat, late : Nat, exposed : BOOLEAN, misread : BOOLEAN]
  BY <1>0, <1>1 DEF StorageTypes
<1>8. /\ allowed' \in [Units -> [Lbas -> SUBSET Int]]
      /\ \A u \in Units, s \in Lbas : allowed[u][s] \subseteq allowed'[u][s]
      /\ op = "write" => \A s \in Lbas : s \in Span(lba, n) => val \in allowed'[Target][s]
  <2>1. allowed \in [Units -> [Lbas -> SUBSET Int]]  BY <1>0 DEF StorageTypes
  <2>2. CASE op = "read"
    BY <1>2, <2>1, <2>2
  <2>3. CASE op # "read"
    <3> DEFINE new == [s \in Lbas |-> allowed[Target][s] \cup IF s \in Span(lba, n) THEN {val} ELSE {}]
    <3>1. allowed' = [allowed EXCEPT ![Target] = new]  BY <1>2, <2>3
    <3>2. new \in [Lbas -> SUBSET Int]  BY <1>3, <1>4, <2>1
    <3>3. \A s \in Lbas : allowed[Target][s] \subseteq new[s]  OBVIOUS
    <3>4. \A s \in Lbas : s \in Span(lba, n) => val \in new[s]  OBVIOUS
    <3> HIDE DEF new
    <3>5. \A u \in Units : allowed'[u] = IF u = Target THEN new ELSE allowed[u]  BY ONLY <2>1, <3>1
    <3> QED  BY ONLY <1>4, <2>1, <3>1, <3>2, <3>3, <3>4, <3>5
  <2> QED  BY <2>2, <2>3
<1>9. io' \in IoStates
  <2>1. io' = [step |-> "submit", op |-> op, lba |-> lba, n |-> n, val |-> val, i |-> 0,
               unit |-> UnitInUse, cid |-> 0, used |-> 0]
    BY ONLY <1>1 DEF NoIo
  <2> QED  BY ONLY <1>3, <1>6, <2>1, op \in {"read", "write"}, lba \in Lbas, n \in {1, 2} DEF IoStates, CallSteps
<1>10. StorageTypes'
  BY <1>0, <1>1, <1>7, <1>8, <1>9 DEF StorageTypes
<1>11. TableHolds'
  <2>1. FittingEntries' = FittingEntries  BY <1>1 DEF FittingEntries
  <2> QED  BY <1>0, <1>1, <2>1 DEF TableHolds
<1>12. CallHolds'
  BY <1>1, <1>4, <1>5 DEF CallHolds, Target, UnitInUse, IsNvme
<1>13. QueueHolds'
  BY <1>0, <1>1, <1>5, <1>7 DEF QueueHolds, PhasesHold, NvmeWaits, NvmeQuiet, IsNvme
<1>14. CalmHolds'
  <2> SUFFICES ASSUME Calm' PROVE (MediaHold /\ NvmeHolds /\ AhciHolds /\ VirtioHolds)'  BY DEF CalmHolds
  <2>1. Calm  BY <1>1, <1>7 DEF Calm, Undisturbed
  <2>2. MediaHold'
    <3>1. \A u \in Units, s \in Lbas : media'[u][s] \in allowed'[u][s]
      BY <1>0, <1>1, <1>8, <2>1 DEF CalmHolds, MediaHold
    <3>2. ~tally'.misread  BY <1>0, <1>7, <2>1 DEF CalmHolds, MediaHold
    <3>3. Span(lba, n) \subseteq Lbas  BY StorageAssumption DEF Span, Lbas
    <3>4. Span(lba, 0) = {}  BY DEF Span, Lbas
    <3>5. Target' = Target  BY <1>1 DEF Target
    <3> QED  BY <1>1, <1>5, <1>8, <3>1, <3>2, <3>3, <3>4, <3>5 DEF MediaHold
  <2>3. NvmeHolds'  BY <1>5 DEF NvmeHolds
  <2>4. AhciHolds'  BY <1>0, <1>1, <1>5, <2>1 DEF CalmHolds, AhciHolds
  <2>5. VirtioHolds'  BY <1>0, <1>1, <1>5, <2>1 DEF CalmHolds, VirtioHolds
  <2> QED  BY <2>2, <2>3, <2>4, <2>5
<1> QED  BY <1>10, <1>11, <1>12, <1>13, <1>14 DEF StorageInv

\* The sector of the call is one of the disk, and one of its block.
LEMMA SectorFits ==
  ASSUME StorageInv, io.step # "idle"
  PROVE  /\ Sector \in Lbas /\ Sector \in Block(Sector) /\ Block(Sector) \in SUBSET Lbas
         /\ Sector \in Span(io.lba, io.n) /\ Sector \notin Span(io.lba, io.i)
         /\ Span(io.lba, io.n) \subseteq Lbas /\ Span(io.lba, io.i) \subseteq Lbas
         /\ Span(io.lba, io.i + 1) = Span(io.lba, io.i) \cup {Sector}
         /\ disk.driver = "nvme512" => Block(Sector) = {Sector}
<1>1. /\ io.lba \in Nat /\ io.i \in Nat /\ io.n \in Nat /\ io.i < io.n /\ io.lba + io.n <= Sectors /\ Sectors \in Nat
  BY StorageAssumption DEF StorageInv, StorageTypes, IoStates, CallHolds, Lbas
<1>2. Sector \in Lbas /\ Sector \in Span(io.lba, io.n) /\ Sector \notin Span(io.lba, io.i)
      /\ Span(io.lba, io.n) \subseteq Lbas /\ Span(io.lba, io.i) \subseteq Lbas
  BY <1>1 DEF Sector, Span, Lbas
<1>3. Span(io.lba, io.i + 1) = Span(io.lba, io.i) \cup {Sector}
  <2> SUFFICES \A s : s \in Span(io.lba, io.i + 1) <=> s \in Span(io.lba, io.i) \/ s = Sector
    OBVIOUS
  <2> QED  BY <1>1 DEF Span, Sector
<1>4. Sector \in Block(Sector) /\ Block(Sector) \in SUBSET Lbas
  BY <1>2 DEF Block
<1>5. disk.driver = "nvme512" => Block(Sector) = {Sector}
  BY DEF Block
<1> QED  BY <1>2, <1>3, <1>4, <1>5

\* What is written of a block is its patched contents.
LEMMA PatchedFits ==
  ASSUME StorageInv, io.step # "idle"
  PROVE  /\ Patched \in SectorData /\ DOMAIN Patched = Block(Sector) /\ Patched[Sector] = io.val
         /\ [s \in Block(Sector) |-> 0] \in SectorData
<1>1. Block(Sector) \in SUBSET Lbas /\ Sector \in Block(Sector)
  BY SectorFits
<1>2. io.val \in Int /\ nvme.scratch \in SectorData
  BY DEF StorageInv, StorageTypes, IoStates, NvmeStates
<1>3. \A s \in Block(Sector) : Scratch(s) \in Int
  BY <1>2, DataHas DEF Scratch
<1>4. Patched \in [Block(Sector) -> Int]
  BY <1>2, <1>3 DEF Patched
<1>5. [s \in Block(Sector) |-> 0] \in [Block(Sector) -> Int]
  OBVIOUS
<1> QED  BY <1>1, <1>4, <1>5, DataIs DEF Patched

\* Where a command of the selected disk finds its data.
Source == IF disk.driver = "nvme4k" THEN "scratch" ELSE "caller"

\* The buffer of a command has numbers for its sectors.
LEMMA HeldFits ==
  ASSUME nvme \in NvmeStates, NEW c \in NvmeCommands
  PROVE  DOMAIN Held(c) = DOMAIN c.data /\ \A s \in DOMAIN c.data : Held(c)[s] \in Int
<1>1. nvme.scratch \in SectorData /\ c.data \in SectorData  BY DEF NvmeStates, NvmeCommands
<1>2. \A s \in Lbas : Scratch(s) \in Int  BY <1>1, DataHas DEF Scratch
<1>3. DOMAIN c.data \subseteq Lbas /\ \A s \in DOMAIN c.data : c.data[s] \in Int  BY <1>1, DataHas
<1>4. CASE c.from = "scratch"
  <2>1. Held(c) = [s \in DOMAIN c.data |-> Scratch(s)]  BY <1>4 DEF Held
  <2> QED  BY <1>2, <1>3, <2>1
<1>5. CASE c.from # "scratch"
  <2>1. Held(c) = c.data  BY <1>5 DEF Held
  <2> QED  BY <1>3, <2>1
<1> QED  BY <1>4, <1>5

\* nvme_submit_sync puts the one command that is out at the head of the ring.
LEMMA SubmitKeeps ==
  ASSUME StorageInv, IsNvme, io.step \in {"submit", "patch"},
         NEW op \in {"read", "write"}, NEW data \in SectorData, NEW block \in SectorData,
         NEW step \in {"wait", "waitwrite"}, NvmeSubmit(op, data, block, step),
         UNCHANGED <<table, disk, ahci, virtio, media, allowed, tally>>,
         step = "waitwrite" => io.op = "write"
  PROVE  /\ StorageTypes' /\ TableHolds' /\ CallHolds' /\ QueueHolds'
         /\ io'.step = step /\ io'.op = io.op /\ io'.lba = io.lba /\ io'.n = io.n /\ io'.val = io.val /\ io'.i = io.i
         /\ io'.unit = io.unit
         /\ nvme'.scratch = block
         /\ tally.late = 0 => /\ nvme'.sq[nvme'.sqHead].op = op /\ nvme'.sq[nvme'.sqHead].data = data
                              /\ nvme'.sq[nvme'.sqHead].from = Source /\ ~NvmeDone'
<1>0. StorageTypes /\ TableHolds /\ CallHolds /\ QueueHolds  BY DEF StorageInv
<1>1. /\ nvme' = [nvme EXCEPT !.sq[nvme.sqTail] = [op |-> op, data |-> data, cid |-> nvme.cid, from |-> Source],
                              !.sqTail = (@ + 1) % Depth,
                              !.cid = (@ % MaxCid) + 1,
                              !.scratch = block]
      /\ io' = [io EXCEPT !.step = step, !.cid = nvme.cid]
  BY DEF NvmeSubmit, Source
<1>2. nvme \in NvmeStates /\ io \in IoStates
  BY <1>0 DEF StorageTypes
<1> DEFINE t == nvme.sqTail
           c == [op |-> op, data |-> data, cid |-> nvme.cid, from |-> Source]
<1>3. t \in QueueEnds /\ (t + 1) % Depth = NextPlace(t) /\ NextPlace(t) \in QueueEnds /\ NextPlace(t) # t
  BY <1>2, TurnsRound DEF NvmeStates
<1>4. /\ nvme'.sq = [nvme.sq EXCEPT ![t] = c]
      /\ nvme'.sqTail = NextPlace(t) /\ nvme'.cid = (nvme.cid % MaxCid) + 1
      /\ nvme'.sqHead = nvme.sqHead /\ nvme'.cq = nvme.cq /\ nvme'.cqHead = nvme.cqHead
      /\ nvme'.phase = nvme.phase /\ nvme'.cqTail = nvme.cqTail /\ nvme'.devPhase = nvme.devPhase
      /\ nvme'.scratch = block
  BY <1>1, <1>2, <1>3 DEF NvmeStates
<1>5. nvme' \in NvmeStates
  <2>1. c \in NvmeCommands  BY <1>2 DEF NvmeCommands, NvmeStates, Source
  <2>2. nvme'.sq \in [QueueEnds -> NvmeCommands]
    <3> HIDE DEF c
    <3> QED  BY ONLY <1>2, <1>3, <1>4, <2>1 DEF NvmeStates
  <2>3. nvme'.cid \in Nat
    <3>1. nvme.cid \in Nat /\ MaxCid \in Nat \ {0}  BY <1>2, StorageAssumption DEF NvmeStates
    <3>2. nvme.cid % MaxCid \in Nat  BY ONLY <3>1
    <3> QED  BY <1>4, <3>2
  <2>4. nvme' = [sq |-> nvme'.sq, sqTail |-> nvme'.sqTail, sqHead |-> nvme'.sqHead, cq |-> nvme'.cq,
                 cqHead |-> nvme'.cqHead, phase |-> nvme'.phase, cqTail |-> nvme'.cqTail,
                 devPhase |-> nvme'.devPhase, cid |-> nvme'.cid, scratch |-> nvme'.scratch]
    BY ONLY <1>1, <1>2 DEF NvmeStates
  <2> HIDE DEF t, c
  <2> QED  BY ONLY <1>2, <1>3, <1>4, <2>2, <2>3, <2>4 DEF NvmeStates
<1>6. /\ io' \in IoStates
      /\ io'.step = step /\ io'.op = io.op /\ io'.lba = io.lba /\ io'.n = io.n /\ io'.val = io.val /\ io'.i = io.i
      /\ io'.unit = io.unit /\ io'.cid = nvme.cid
  <2>1. nvme.cid \in Nat  BY <1>2 DEF NvmeStates
  <2> QED  BY ONLY <1>1, <1>2, <2>1, step \in {"wait", "waitwrite"} DEF IoStates, CallSteps
<1>7. StorageTypes'  BY <1>0, <1>5, <1>6 DEF StorageTypes
<1>8. TableHolds'
  <2>1. FittingEntries' = FittingEntries  BY DEF FittingEntries
  <2> QED  BY <1>0, <2>1 DEF TableHolds
<1>9. CallHolds'
  BY <1>0, <1>6 DEF CallHolds, Target, IsNvme
<1>10. tally.late = 0 => /\ nvme'.sq[nvme'.sqHead] = c /\ NvmeIssued' /\ ~NvmeDone' /\ PhasesHold'
  <2> SUFFICES ASSUME tally.late = 0
               PROVE  nvme'.sq[nvme'.sqHead] = c /\ NvmeIssued' /\ ~NvmeDone' /\ PhasesHold'
    OBVIOUS
  <2>1. NvmeQuiet /\ PhasesHold  BY <1>0 DEF QueueHolds, NvmeWaits
  <2>2. nvme'.sq[nvme'.sqHead] = c  BY <1>2, <1>3, <1>4, <2>1 DEF NvmeQuiet, NvmeStates
  <2>3. NvmeIssued'  BY <1>3, <1>4, <1>6, <2>1, <2>2 DEF NvmeQuiet, NvmeIssued, NextPlace
  <2>4. ~NvmeDone'  BY <1>3, <1>4, <2>1 DEF NvmeQuiet, NvmeDone
  <2>5. PhasesHold'  BY <1>4, <2>1 DEF PhasesHold
  <2> QED  BY <2>2, <2>3, <2>4, <2>5
<1>11. QueueHolds'
  BY <1>6, <1>10 DEF QueueHolds, NvmeWaits, IsNvme
<1>12. tally.late = 0 => /\ nvme'.sq[nvme'.sqHead].op = op /\ nvme'.sq[nvme'.sqHead].data = data
                         /\ nvme'.sq[nvme'.sqHead].from = Source /\ ~NvmeDone'
  BY <1>10
<1>13. nvme'.scratch = block  BY <1>4
<1> QED  BY <1>6, <1>7, <1>8, <1>9, <1>11, <1>12, <1>13

\* The block that goes back is the one on the disk but for the sector written.
LEMMA PatchKeeps == ASSUME StorageInv, NvmePatch PROVE StorageInv'
<1>0. StorageTypes /\ TableHolds /\ CallHolds /\ QueueHolds /\ CalmHolds  BY DEF StorageInv
<1>1. io.step = "patch" /\ NvmeSubmit("write", Patched, Patched, "waitwrite")
      /\ UNCHANGED <<table, disk, ahci, virtio, media, allowed, tally>>
  BY DEF NvmePatch
<1>2. IsNvme /\ io.op = "write" /\ disk.selected # 0  BY <1>0, <1>1 DEF CallHolds
<1>3. Patched \in SectorData  BY <1>1, PatchedFits
<1>4. /\ StorageTypes' /\ TableHolds' /\ CallHolds' /\ QueueHolds'
      /\ io'.step = "waitwrite" /\ io'.op = io.op /\ io'.lba = io.lba /\ io'.n = io.n /\ io'.val = io.val /\ io'.i = io.i
      /\ io'.unit = io.unit
      /\ nvme'.scratch = Patched
      /\ tally.late = 0 => /\ nvme'.sq[nvme'.sqHead].op = "write" /\ nvme'.sq[nvme'.sqHead].data = Patched /\ ~NvmeDone'
  BY <1>1, <1>2, <1>3, SubmitKeeps
<1>5. CalmHolds'
  <2> SUFFICES ASSUME Calm' PROVE (MediaHold /\ NvmeHolds /\ AhciHolds /\ VirtioHolds)'  BY DEF CalmHolds
  <2>1. Calm /\ tally.late = 0  BY <1>1 DEF Calm, Undisturbed
  <2>2. MediaHold'
    BY <1>0, <1>1, <1>4, <2>1 DEF CalmHolds, MediaHold, Target
  <2>3. NvmeHolds'
    <3>1. nvme.scratch = [s \in Block(Sector) |-> media["nvme"][s]]
      BY <1>0, <1>1, <2>1 DEF CalmHolds, NvmeHolds, ScratchHolds
    <3>2. Patched = [s \in Block(Sector) |-> IF s = Sector THEN io.val ELSE media["nvme"][s]]
      BY <3>1 DEF Patched, Scratch
    <3>3. Sector' = Sector  BY <1>4 DEF Sector
    <3>4. Block(Sector)' = Block(Sector)  BY <1>1, <3>3 DEF Block
    <3>5. DOMAIN Patched = Block(Sector)  BY <3>2
    <3>6. Held(nvme.sq[nvme.sqHead])' = Patched
      <4>1. \A s \in DOMAIN Patched : Scratch(s)' = Patched[s]  BY <1>4 DEF Scratch
      <4>2. Patched = [s \in DOMAIN Patched |-> Patched[s]]  BY DEF Patched
      <4>3. nvme'.sq[nvme'.sqHead].data = Patched  BY <1>4, <2>1
      <4> QED  BY <4>1, <4>2, <4>3 DEF Held
    <3> QED  BY <1>1, <1>4, <2>1, <3>2, <3>3, <3>4, <3>5, <3>6 DEF NvmeHolds
  <2>4. AhciHolds'  BY <1>0, <1>1, <1>4, <2>1 DEF CalmHolds, AhciHolds
  <2>5. VirtioHolds'  BY <1>0, <1>1, <1>2, <1>4, <2>1 DEF CalmHolds, VirtioHolds, IsNvme
  <2> QED  BY <2>2, <2>3, <2>4, <2>5
<1> QED  BY <1>4, <1>5 DEF StorageInv

\* The first command of a sector reads, or writes it whole.
LEMMA IssueKeeps == ASSUME StorageInv, NvmeIssue PROVE StorageInv'
<1>0. StorageTypes /\ TableHolds /\ CallHolds /\ QueueHolds /\ CalmHolds  BY DEF StorageInv
<1>1. io.step = "submit" /\ IsNvme /\ UNCHANGED <<table, disk, ahci, virtio, media, allowed, tally>>
  BY DEF NvmeIssue
<1> DEFINE op == IF FirstStep = "read" THEN "read" ELSE "write"
           data == IF FirstStep = "read" THEN [s \in Block(Sector) |-> 0] ELSE Patched
           step == IF FirstStep = "read" THEN "wait" ELSE "waitwrite"
<1>2. NvmeSubmit(op, data, nvme.scratch, step)
  <2>1. CASE FirstStep = "read"
    <3>1. NvmeSubmit("read", [s \in Block(Sector) |-> 0], nvme.scratch, "wait")  BY <2>1 DEF NvmeIssue
    <3> QED  BY <2>1, <3>1
  <2>2. CASE FirstStep # "read"
    <3>1. NvmeSubmit("write", Patched, nvme.scratch, "waitwrite")  BY <2>2 DEF NvmeIssue
    <3> QED  BY <2>2, <3>1
  <2> QED  BY <2>1, <2>2
<1>3. data \in SectorData /\ DOMAIN data = Block(Sector) /\ nvme.scratch \in SectorData
  BY <1>0, <1>1, PatchedFits DEF StorageTypes, NvmeStates
<1>4. op \in {"read", "write"} /\ step \in {"wait", "waitwrite"}  OBVIOUS
<1>5. step = "waitwrite" => io.op = "write" /\ disk.driver = "nvme512" /\ op = "write" /\ data = Patched
  BY <1>0, <1>1 DEF FirstStep, IsNvme, StorageTypes, IoStates
<1>6. step = "wait" => op = "read"  OBVIOUS
<1> HIDE DEF op, data, step
<1>7. /\ StorageTypes' /\ TableHolds' /\ CallHolds' /\ QueueHolds'
      /\ io'.step = step /\ io'.op = io.op /\ io'.lba = io.lba /\ io'.n = io.n /\ io'.val = io.val /\ io'.i = io.i
      /\ io'.unit = io.unit
      /\ tally.late = 0 => /\ nvme'.sq[nvme'.sqHead].op = op /\ nvme'.sq[nvme'.sqHead].data = data
                           /\ nvme'.sq[nvme'.sqHead].from = Source /\ ~NvmeDone'
  BY <1>1, <1>2, <1>3, <1>4, <1>5, SubmitKeeps
<1>8. CalmHolds'
  <2> SUFFICES ASSUME Calm' PROVE (MediaHold /\ NvmeHolds /\ AhciHolds /\ VirtioHolds)'  BY DEF CalmHolds
  <2>1. Calm /\ tally.late = 0  BY <1>1 DEF Calm, Undisturbed
  <2>2. MediaHold'
    BY <1>0, <1>1, <1>7, <2>1 DEF CalmHolds, MediaHold, Target
  <2>3. NvmeHolds'
    <3>1. Sector' = Sector  BY <1>7 DEF Sector
    <3>2. Block(Sector)' = Block(Sector)  BY <1>1, <3>1 DEF Block
    <3>3. disk.driver = "nvme512" => Block(Sector) = {Sector}  BY <1>1, SectorFits
    <3>4. step = "waitwrite" => data = [s \in Block(Sector) |-> IF s = Sector THEN io.val ELSE media["nvme"][s]]
      BY <1>5, <3>3 DEF Patched
    <3>5. step = "waitwrite" => Held(nvme.sq[nvme.sqHead])' = data
      BY <1>5, <1>7, <2>1 DEF Held, Source
    <3> QED  BY <1>1, <1>3, <1>4, <1>5, <1>6, <1>7, <2>1, <3>1, <3>2, <3>4, <3>5 DEF NvmeHolds
  <2>4. AhciHolds'  BY <1>0, <1>1, <1>7, <2>1 DEF CalmHolds, AhciHolds, IsNvme
  <2>5. VirtioHolds'  BY <1>0, <1>1, <1>7, <2>1 DEF CalmHolds, VirtioHolds, IsNvme
  <2> QED  BY <2>2, <2>3, <2>4, <2>5
<1> QED  BY <1>7, <1>8 DEF StorageInv

\* The command that is out is that of the call; once it is done nothing is out.
LEMMA NvmeExecutesKeeps == ASSUME StorageInv, NvmeExecutes PROVE StorageInv'
<1>0. StorageTypes /\ TableHolds /\ CallHolds /\ QueueHolds /\ CalmHolds  BY DEF StorageInv
<1> DEFINE h == nvme.sqHead
           t == nvme.cqTail
           c == nvme.sq[h]
<1> PICK ok \in BOOLEAN :
      /\ media' = IF ok /\ c.op = "write"
                  THEN [media EXCEPT !["nvme"] = [s \in Lbas |-> IF s \in DOMAIN c.data THEN Held(c)[s] ELSE @[s]]]
                  ELSE media
      /\ nvme' = [nvme EXCEPT !.sqHead = (@ + 1) % Depth,
                              !.cq[t] = [phase |-> nvme.devPhase, cid |-> c.cid, ok |-> ok],
                              !.cqTail = (@ + 1) % Depth,
                              !.devPhase = IF t + 1 = Depth THEN 1 - @ ELSE @,
                              !.scratch = IF ok /\ c.op = "read"
                                          THEN [s \in DOMAIN c.data |-> media["nvme"][s]] ELSE @]
  BY DEF NvmeExecutes
<1>1. h # nvme.sqTail /\ UNCHANGED <<table, disk, ahci, virtio, allowed, io, tally>>
  BY DEF NvmeExecutes
<1>2. nvme \in NvmeStates /\ io \in IoStates /\ media \in [Units -> [Lbas -> Int]]
  BY <1>0 DEF StorageTypes
<1>3. h \in QueueEnds /\ (h + 1) % Depth = NextPlace(h) /\ NextPlace(h) \in QueueEnds
  BY <1>2, TurnsRound DEF NvmeStates
<1>4. t \in QueueEnds /\ (t + 1) % Depth = NextPlace(t) /\ NextPlace(t) \in QueueEnds /\ NextPlace(t) # t
  BY <1>2, TurnsRound DEF NvmeStates
<1> DEFINE e == [phase |-> nvme.devPhase, cid |-> c.cid, ok |-> ok]
           read == [s \in DOMAIN c.data |-> media["nvme"][s]]
<1>5. /\ nvme'.sq = nvme.sq /\ nvme'.sqTail = nvme.sqTail /\ nvme'.sqHead = NextPlace(h)
      /\ nvme'.cq = [nvme.cq EXCEPT ![t] = e]
      /\ nvme'.cqHead = nvme.cqHead /\ nvme'.phase = nvme.phase /\ nvme'.cqTail = NextPlace(t)
      /\ nvme'.devPhase = Flipped(nvme.devPhase, t) /\ nvme'.cid = nvme.cid
      /\ nvme'.scratch = IF ok /\ c.op = "read" THEN read ELSE nvme.scratch
  BY <1>2, <1>3, <1>4 DEF NvmeStates, Flipped
<1>6. c \in NvmeCommands /\ c.data \in SectorData
  BY <1>2, <1>3 DEF NvmeStates, NvmeCommands
<1> DEFINE d == Held(c)
<1>7. DOMAIN c.data \subseteq Lbas /\ \A s \in DOMAIN c.data : d[s] \in Int
  BY <1>2, <1>6, DataHas, HeldFits
<1>8. e \in [phase : {0, 1}, cid : Nat, ok : BOOLEAN]
  BY <1>2, <1>6 DEF NvmeStates, NvmeCommands
<1>9. read \in SectorData
  <2>1. read \in [DOMAIN c.data -> Int]  BY <1>2, <1>7 DEF Units
  <2> QED  BY <1>7, <2>1, DataIs
<1>10. nvme' \in NvmeStates
  <2>1. nvme'.cq \in [QueueEnds -> [phase : {0, 1}, cid : Nat, ok : BOOLEAN]]
    <3> HIDE DEF e
    <3> QED  BY ONLY <1>2, <1>4, <1>5, <1>8 DEF NvmeStates
  <2>2. nvme'.scratch \in SectorData
    <3> HIDE DEF read, c
    <3> QED  BY ONLY <1>2, <1>5, <1>9 DEF NvmeStates
  <2>3. nvme'.devPhase \in {0, 1}
    BY ONLY <1>2, <1>5 DEF NvmeStates, Flipped
  <2>4. nvme' = [sq |-> nvme'.sq, sqTail |-> nvme'.sqTail, sqHead |-> nvme'.sqHead, cq |-> nvme'.cq,
                 cqHead |-> nvme'.cqHead, phase |-> nvme'.phase, cqTail |-> nvme'.cqTail,
                 devPhase |-> nvme'.devPhase, cid |-> nvme'.cid, scratch |-> nvme'.scratch]
    BY <1>2 DEF NvmeStates
  <2> HIDE DEF h, t, c, e, read
  <2> QED  BY ONLY <1>2, <1>3, <1>4, <1>5, <2>1, <2>2, <2>3, <2>4 DEF NvmeStates
<1>11. /\ media' \in [Units -> [Lbas -> Int]]
       /\ \A u \in Units, s \in Lbas :
            media'[u][s] = IF ok /\ c.op = "write" /\ u = "nvme" /\ s \in DOMAIN c.data THEN d[s] ELSE media[u][s]
  <2>1. CASE ok /\ c.op = "write"
    <3> DEFINE new == [s \in Lbas |-> IF s \in DOMAIN c.data THEN d[s] ELSE media["nvme"][s]]
    <3>1. media' = [media EXCEPT !["nvme"] = new]  BY <2>1
    <3>2. new \in [Lbas -> Int]  BY <1>2, <1>7 DEF Units
    <3>3. \A s \in Lbas : new[s] = IF s \in DOMAIN c.data THEN d[s] ELSE media["nvme"][s]  OBVIOUS
    <3> HIDE DEF new, d, c
    <3>4. "nvme" \in Units  BY DEF Units
    <3>5. media' \in [Units -> [Lbas -> Int]] /\ \A u \in Units : media'[u] = IF u = "nvme" THEN new ELSE media[u]
      BY ONLY <1>2, <3>1, <3>2, <3>4
    <3> QED  BY ONLY <2>1, <3>3, <3>5
  <2>2. CASE ~(ok /\ c.op = "write")
    BY <1>2, <2>2
  <2> QED  BY <2>1, <2>2
<1>12. StorageTypes'
  BY <1>0, <1>1, <1>10, <1>11 DEF StorageTypes
<1>13. TableHolds'
  <2>1. FittingEntries' = FittingEntries  BY <1>1 DEF FittingEntries
  <2> QED  BY <1>0, <1>1, <2>1 DEF TableHolds
<1>14. CallHolds'
  BY <1>0, <1>1 DEF CallHolds, Target, IsNvme
<1>15. ASSUME tally.late = 0
       PROVE  /\ NvmeWaits /\ NvmeIssued /\ NvmeDone' /\ ~NvmeIssued' /\ nvme'.cq[nvme'.cqHead] = e
              /\ PhasesHold'
  <2>1. PhasesHold /\ IF NvmeWaits THEN NvmeIssued \/ NvmeDone ELSE NvmeQuiet
    BY <1>0, <1>15 DEF QueueHolds
  <2>2. NvmeWaits /\ NvmeIssued
    BY <1>1, <2>1 DEF NvmeQuiet, NvmeDone
  <2>3. nvme'.cq[nvme'.cqHead] = e
    <3>1. nvme.cqHead = t  BY <2>2 DEF NvmeIssued
    <3> QED  BY <1>2, <1>4, <1>5, <3>1 DEF NvmeStates
  <2>4. NvmeDone'
    <3>1. nvme'.sqHead = nvme'.sqTail  BY <1>5, <2>2 DEF NvmeIssued
    <3>2. nvme'.cqTail = NextPlace(nvme'.cqHead) /\ nvme'.devPhase = Flipped(nvme'.phase, nvme'.cqHead)
      BY <1>5, <2>2 DEF NvmeIssued
    <3>3. nvme'.cq[nvme'.cqHead].cid = io'.cid  BY <1>1, <2>2, <2>3 DEF NvmeIssued
    <3> QED  BY <3>1, <3>2, <3>3 DEF NvmeDone, NextPlace, Flipped
  <2>5. ~NvmeIssued'
    BY <1>4, <1>5, <2>2 DEF NvmeIssued
  <2>6. PhasesHold'
    <3> SUFFICES ASSUME NEW i \in QueueEnds
                 PROVE  nvme'.cq[i].phase = IF i < nvme'.cqTail THEN nvme'.devPhase ELSE 1 - nvme'.devPhase
      BY DEF PhasesHold
    <3>1. nvme.cq[i].phase = IF i < t THEN nvme.devPhase ELSE 1 - nvme.devPhase  BY <2>1 DEF PhasesHold
    <3>2. nvme'.cq[i].phase = IF i = t THEN nvme.devPhase ELSE nvme.cq[i].phase
      BY <1>2, <1>5 DEF NvmeStates
    <3>3. nvme.devPhase \in Int /\ Depth \in Int /\ i \in Int /\ t \in Int /\ i >= 0 /\ i < Depth /\ t < Depth
      <4>1. nvme.devPhase \in {0, 1}  BY ONLY <1>2 DEF NvmeStates
      <4>2. Depth \in Nat  BY StorageAssumption
      <4>3. t \in 0 .. Depth - 1 /\ i \in 0 .. Depth - 1  BY <1>4 DEF QueueEnds
      <4> HIDE DEF t
      <4> QED  BY ONLY <4>1, <4>2, <4>3
    <3> HIDE DEF t
    <3> QED  BY ONLY <1>5, <3>1, <3>2, <3>3 DEF NextPlace, Flipped
  <2> QED  BY <2>2, <2>3, <2>4, <2>5, <2>6
<1>16. QueueHolds'
  BY <1>1, <1>15 DEF QueueHolds, NvmeWaits, IsNvme
<1>17. CalmHolds'
  <2> SUFFICES ASSUME Calm' PROVE (MediaHold /\ NvmeHolds /\ AhciHolds /\ VirtioHolds)'  BY DEF CalmHolds
  <2>1. Calm /\ tally.late = 0  BY <1>1 DEF Calm, Undisturbed
  <2>2. MediaHold /\ NvmeHolds /\ AhciHolds /\ VirtioHolds  BY <1>0, <2>1 DEF CalmHolds
  <2>3. /\ IsNvme /\ io.step \in {"wait", "waitwrite"} /\ NvmeIssued /\ ~NvmeIssued' /\ nvme'.cq[nvme'.cqHead] = e
    BY <1>15, <2>1 DEF NvmeWaits
  <2>4. /\ Sector \in Lbas /\ Sector \in Block(Sector) /\ Block(Sector) \in SUBSET Lbas
        /\ Sector \in Span(io.lba, io.n) /\ Sector \notin Span(io.lba, io.i)
        /\ Span(io.lba, io.n) \subseteq Lbas /\ Span(io.lba, io.i) \subseteq Lbas
        /\ Span(io.lba, io.i + 1) = Span(io.lba, io.i) \cup {Sector}
    BY <2>3, SectorFits
  <2>5. Target = "nvme" /\ "nvme" \in Units
    <3>1. disk.selected # 0  BY <1>0, <2>3 DEF CallHolds
    <3> QED  BY <2>3, <3>1, SelectedFits DEF Units
  <2>6. Sector' = Sector /\ Block(Sector)' = Block(Sector) /\ Target' = Target /\ IsNvme'
    BY <1>1, <2>3 DEF Sector, Block, Target, IsNvme
  <2>7. CASE io.step = "wait"
    <3>1. c.op = "read" /\ DOMAIN c.data = Block(Sector)  BY <2>2, <2>3, <2>7 DEF NvmeHolds
    <3>2. media' = media  BY <3>1
    <3>3. ok => nvme'.scratch = [s \in Block(Sector) |-> media["nvme"][s]]  BY <1>5, <3>1
    <3>4. MediaHold'  BY <1>1, <2>2, <2>6, <3>2 DEF MediaHold
    <3>5. NvmeHolds'
      <4>1. ok => ScratchHolds'  BY <2>6, <3>2, <3>3 DEF ScratchHolds
      <4> QED  BY <1>1, <2>3, <2>6, <2>7, <4>1 DEF NvmeHolds
    <3>6. AhciHolds'  BY <1>1, <2>2, <3>2 DEF AhciHolds
    <3>7. VirtioHolds'  BY <1>1, <2>2, <2>3 DEF VirtioHolds, IsNvme
    <3> QED  BY <3>4, <3>5, <3>6, <3>7
  <2>8. CASE io.step = "waitwrite"
    <3>1. /\ c.op = "write" /\ DOMAIN c.data = Block(Sector)
          /\ d = [s \in Block(Sector) |-> IF s = Sector THEN io.val ELSE media["nvme"][s]]
      BY <2>2, <2>3, <2>8 DEF NvmeHolds
    <3>2. \A u \in Units, s \in Lbas :
            media'[u][s] = IF ok /\ u = "nvme" /\ s = Sector THEN io.val ELSE media[u][s]
      <4>1. DOMAIN c.data = Block(Sector) /\ \A s \in Block(Sector) : d[s] = IF s = Sector THEN io.val ELSE media["nvme"][s]
        BY <3>1
      <4> HIDE DEF d, c
      <4> QED  BY ONLY <1>11, <2>4, <3>1, <4>1
    <3>3. io.op = "write"  BY <1>0, <2>8 DEF CallHolds
    <3>4. MediaHold'
      <4>1. io.val \in allowed["nvme"][Sector]  BY <2>2, <2>3, <2>4, <2>5, <3>3 DEF MediaHold
      <4>2. \A u \in Units, s \in Lbas : media'[u][s] \in allowed'[u][s]
        BY <1>1, <2>2, <3>2, <4>1 DEF MediaHold
      <4>3. \A s \in Span(io.lba, io.i) : s \in Lbas /\ s # Sector
        BY <2>4
      <4>4. \A s \in Span(io.lba, io.i) : media[Target][s] = io.val
        BY <2>2, <2>3, <3>3 DEF MediaHold
      <4>5. \A s \in Span(io.lba, io.i) : media'[Target][s] = io.val
        BY ONLY <2>5, <3>2, <4>3, <4>4
      <4> QED  BY <1>1, <2>2, <2>6, <4>2, <4>5 DEF MediaHold
    <3>5. NvmeHolds'
      <4>1. ok => media'["nvme"][Sector] = io.val  BY <2>4, <2>5, <3>2
      <4> QED  BY <1>1, <2>3, <2>6, <2>8, <4>1 DEF NvmeHolds
    <3>6. AhciHolds'  BY <1>1, <2>2, <2>8 DEF AhciHolds
    <3>7. VirtioHolds'  BY <1>1, <2>2, <2>8 DEF VirtioHolds
    <3> QED  BY <3>4, <3>5, <3>6, <3>7
  <2> QED  BY <2>3, <2>7, <2>8
<1> QED  BY <1>12, <1>13, <1>14, <1>16, <1>17 DEF StorageInv

\* No call is under way.
LEMMA NoIoIsIdle == NoIo \in IoStates /\ NoIo.step = "idle"
<1>1. 0 \in Lbas  BY StorageAssumption DEF Lbas
<1> QED  BY <1>1 DEF NoIo, IoStates, CallSteps, Units

\* What was written is what the disk may hold from now on.
LEMMA SucceededKeeps ==
  ASSUME StorageInv, io.step # "idle", Succeeded, UNCHANGED <<table, disk, media>>
  PROVE  /\ io' = NoIo /\ allowed' \in [Units -> [Lbas -> SUBSET Int]] /\ CallHolds'
         /\ /\ MediaHold /\ ~tally'.misread
            /\ io.op = "write" => \A s \in Span(io.lba, io.n) : media[Target][s] = io.val
            => MediaHold'
<1>1. io' = NoIo
  BY DEF Succeeded
<1>2. io.val \in Int /\ allowed \in [Units -> [Lbas -> SUBSET Int]] /\ io.op \in {"read", "write"}
  BY DEF StorageInv, StorageTypes, IoStates
<1>3. disk.selected # 0 /\ Target \in Units
  BY SelectedFits DEF StorageInv, CallHolds
<1>4. /\ allowed' \in [Units -> [Lbas -> SUBSET Int]]
      /\ \A u \in Units, s \in Lbas :
           allowed'[u][s] = IF io.op = "write" /\ u = Target /\ s \in Span(io.lba, io.n) THEN {io.val} ELSE allowed[u][s]
  <2>1. CASE io.op = "read"
    BY <1>2, <2>1 DEF Succeeded
  <2>2. CASE io.op = "write"
    <3> DEFINE new == [s \in Lbas |-> IF s \in Span(io.lba, io.n) THEN {io.val} ELSE allowed[Target][s]]
    <3>1. allowed' = [allowed EXCEPT ![Target] = new]  BY <2>2 DEF Succeeded, Target
    <3>2. new \in [Lbas -> SUBSET Int]  BY <1>2, <1>3
    <3>3. \A s \in Lbas : new[s] = IF s \in Span(io.lba, io.n) THEN {io.val} ELSE allowed[Target][s]  OBVIOUS
    <3> HIDE DEF new
    <3>4. allowed' \in [Units -> [Lbas -> SUBSET Int]] /\ \A u \in Units : allowed'[u] = IF u = Target THEN new ELSE allowed[u]
      BY ONLY <1>2, <1>3, <3>1, <3>2
    <3> QED  BY ONLY <2>2, <3>3, <3>4
  <2> QED  BY <1>2, <2>1, <2>2
<1>5. CallHolds'
  BY <1>1, NoIoIsIdle DEF CallHolds
<1>6. ASSUME MediaHold, ~tally'.misread,
             io.op = "write" => \A s \in Span(io.lba, io.n) : media[Target][s] = io.val
      PROVE  MediaHold'
  <2>1. \A u \in Units, s \in Lbas : media'[u][s] \in allowed'[u][s]
    BY <1>4, <1>6 DEF MediaHold
  <2> QED  BY <1>1, <1>6, <2>1, NoIoIsIdle DEF MediaHold
<1> QED  BY <1>1, <1>4, <1>5, <1>6

\* The call goes on with its next sector, or is done.
LEMMA DoneKeeps ==
  ASSUME StorageInv, io.step # "idle", disk.driver # "ahci", DoneUpTo(io.i + 1), UNCHANGED <<table, disk, media>>
  PROVE  /\ io' \in IoStates /\ io'.step \in {"idle", "submit"}
         /\ allowed' \in [Units -> [Lbas -> SUBSET Int]] /\ CallHolds'
         /\ /\ MediaHold /\ ~tally'.misread
            /\ io.op = "write" => media[Target][Sector] = io.val
            => MediaHold'
<1>1. /\ io \in IoStates /\ CallHolds /\ allowed \in [Units -> [Lbas -> SUBSET Int]]
      /\ io.i \in Nat /\ io.n \in Nat /\ io.i < io.n
  BY DEF StorageInv, StorageTypes, IoStates, CallHolds
<1>2. Span(io.lba, io.i + 1) = Span(io.lba, io.i) \cup {Sector}
  BY SectorFits
<1>3. CASE io.i + 1 = io.n
  <2>1. Succeeded  BY <1>3 DEF DoneUpTo
  <2>2. /\ io' = NoIo /\ allowed' \in [Units -> [Lbas -> SUBSET Int]] /\ CallHolds'
        /\ /\ MediaHold /\ ~tally'.misread
           /\ io.op = "write" => \A s \in Span(io.lba, io.n) : media[Target][s] = io.val
           => MediaHold'
    BY <2>1, SucceededKeeps
  <2>3. ASSUME MediaHold, io.op = "write" => media[Target][Sector] = io.val
        PROVE  io.op = "write" => \A s \in Span(io.lba, io.n) : media[Target][s] = io.val
    BY <1>2, <1>3, <2>3 DEF MediaHold
  <2> QED  BY <2>2, <2>3, NoIoIsIdle
<1>4. CASE io.i + 1 # io.n
  <2>1. io' = [io EXCEPT !.step = "submit", !.i = io.i + 1] /\ UNCHANGED allowed  BY <1>4 DEF DoneUpTo
  <2>2. /\ io' \in IoStates /\ io'.step = "submit" /\ io'.i = io.i + 1 /\ io'.op = io.op /\ io'.lba = io.lba
        /\ io'.n = io.n /\ io'.val = io.val /\ io'.unit = io.unit
    <3> DEFINE j == io.i + 1
    <3>1. j \in Nat  BY <1>1
    <3>2. io' = [io EXCEPT !.step = "submit", !.i = j]  BY <2>1
    <3> HIDE DEF j
    <3>3. /\ io' \in IoStates /\ io'.step = "submit" /\ io'.i = j /\ io'.op = io.op /\ io'.lba = io.lba
          /\ io'.n = io.n /\ io'.val = io.val /\ io'.unit = io.unit
      BY ONLY <1>1, <3>1, <3>2 DEF IoStates, CallSteps
    <3> QED  BY <3>3 DEF j
  <2>3. CallHolds'  BY <1>1, <1>4, <2>2 DEF CallHolds, Target, IsNvme
  <2>4. ASSUME MediaHold, ~tally'.misread, io.op = "write" => media[Target][Sector] = io.val
        PROVE  MediaHold'
    <3>1. Target' = Target  BY DEF Target
    <3> QED  BY <1>2, <2>1, <2>2, <2>4, <3>1 DEF MediaHold
  <2> QED  BY <1>1, <2>1, <2>2, <2>3, <2>4
<1> QED  BY <1>3, <1>4

\* A completion taken leaves the queue quiet when it was the only one.
LEMMA ConsumedKeeps ==
  ASSUME StorageInv, nvme' = Consumed
  PROVE  /\ nvme' \in NvmeStates
         /\ nvme'.scratch = nvme.scratch
         /\ NvmeDone => NvmeQuiet'
         /\ PhasesHold => PhasesHold'
<1>1. nvme \in NvmeStates
  BY DEF StorageInv, StorageTypes
<1> DEFINE h == nvme.cqHead
<1>2. h \in QueueEnds /\ (h + 1) % Depth = NextPlace(h) /\ NextPlace(h) \in QueueEnds
  BY <1>1, TurnsRound DEF NvmeStates
<1>3. /\ nvme'.sq = nvme.sq /\ nvme'.sqTail = nvme.sqTail /\ nvme'.sqHead = nvme.sqHead /\ nvme'.cq = nvme.cq
      /\ nvme'.cqHead = NextPlace(h) /\ nvme'.phase = Flipped(nvme.phase, h) /\ nvme'.cqTail = nvme.cqTail
      /\ nvme'.devPhase = nvme.devPhase /\ nvme'.cid = nvme.cid /\ nvme'.scratch = nvme.scratch
  BY <1>1, <1>2 DEF Consumed, NvmeStates, Flipped
<1>4. nvme' \in NvmeStates
  <2>1. nvme' = [sq |-> nvme'.sq, sqTail |-> nvme'.sqTail, sqHead |-> nvme'.sqHead, cq |-> nvme'.cq,
                 cqHead |-> nvme'.cqHead, phase |-> nvme'.phase, cqTail |-> nvme'.cqTail,
                 devPhase |-> nvme'.devPhase, cid |-> nvme'.cid, scratch |-> nvme'.scratch]
    BY <1>1 DEF NvmeStates, Consumed
  <2>2. nvme'.phase \in {0, 1}
    BY ONLY <1>1, <1>3 DEF NvmeStates, Flipped
  <2> HIDE DEF h
  <2> QED  BY ONLY <1>1, <1>2, <1>3, <2>1, <2>2 DEF NvmeStates
<1>5. NvmeDone => NvmeQuiet'
  BY <1>3 DEF NvmeDone, NvmeQuiet
<1>6. PhasesHold => PhasesHold'
  BY <1>3 DEF PhasesHold
<1> QED  BY <1>3, <1>4, <1>5, <1>6

\* While no poll gave up, the completion found is that of the command.
LEMMA CompletionFits ==
  ASSUME StorageInv, tally.late = 0, io.step \in {"wait", "waitwrite"}, IsNvme,
         nvme.cq[nvme.cqHead].phase = nvme.phase
  PROVE  NvmeDone /\ PhasesHold /\ OwnCid(nvme.cq[nvme.cqHead])
<1>1. PhasesHold /\ (NvmeIssued \/ NvmeDone)
  BY DEF StorageInv, QueueHolds, NvmeWaits
<1>2. ~NvmeIssued
  <2> SUFFICES ASSUME NvmeIssued PROVE FALSE  OBVIOUS
  <2>1. nvme \in NvmeStates  BY DEF StorageInv, StorageTypes
  <2>2. nvme.cqTail \in QueueEnds /\ nvme.devPhase \in {0, 1}  BY <2>1 DEF NvmeStates
  <2>3. nvme.cq[nvme.cqTail].phase = nvme.devPhase  BY DEF NvmeIssued
  <2>4. nvme.cq[nvme.cqTail].phase = IF nvme.cqTail < nvme.cqTail THEN nvme.devPhase ELSE 1 - nvme.devPhase
    BY <1>1, <2>2 DEF PhasesHold
  <2>5. ~(nvme.cqTail < nvme.cqTail)  BY <2>2, StorageAssumption DEF QueueEnds
  <2> QED  BY ONLY <2>2, <2>3, <2>4, <2>5
<1> QED  BY <1>1, <1>2 DEF NvmeDone, OwnCid

\* What the completion says of the disk lets the call go on or end.
LEMMA PollKeeps == ASSUME StorageInv, NvmePoll PROVE StorageInv'
<1>0. StorageTypes /\ TableHolds /\ CallHolds /\ QueueHolds /\ CalmHolds  BY DEF StorageInv
<1> DEFINE e == nvme.cq[nvme.cqHead]
<1>1. /\ io.step \in {"wait", "waitwrite"} /\ IsNvme /\ e.phase = nvme.phase /\ io.step # "idle"
      /\ UNCHANGED <<table, disk, ahci, virtio, media>>
  BY DEF NvmePoll
<1>2. tally.late = 0 => NvmeDone /\ PhasesHold /\ OwnCid(e)
  BY <1>1, CompletionFits
<1>3. disk.driver # "ahci" /\ disk.driver # "virtio" /\ disk.selected # 0
  BY <1>0, <1>1 DEF IsNvme, CallHolds
<1>4. TableHolds'
  <2>1. FittingEntries' = FittingEntries  BY <1>1 DEF FittingEntries
  <2> QED  BY <1>0, <1>1, <2>1 DEF TableHolds
<1>5. io.op \in {"read", "write"} /\ tally \in [calls : Nat, late : Nat, exposed : BOOLEAN, misread : BOOLEAN]
  BY <1>0 DEF StorageTypes, IoStates
\* What is left to show in each case.
<1>6. ASSUME io' \in IoStates, io'.step \in {"idle", "submit", "patch"}, CallHolds',
             allowed' \in [Units -> [Lbas -> SUBSET Int]],
             \/ nvme' = Consumed
             \/ nvme' = nvme /\ ~OwnCid(e),
             tally' \in [calls : Nat, late : Nat, exposed : BOOLEAN, misread : BOOLEAN],
             tally'.late = tally.late, tally'.exposed = tally.exposed,
             Calm => MediaHold' /\ (io'.step = "patch" => ScratchHolds')
      PROVE  StorageInv'
  <2>1. /\ nvme' \in NvmeStates
        /\ nvme' = Consumed => (NvmeDone => NvmeQuiet') /\ (PhasesHold => PhasesHold')
    BY <1>0, <1>6, ConsumedKeeps DEF StorageTypes
  <2>2. StorageTypes'  BY <1>0, <1>1, <1>6, <2>1 DEF StorageTypes
  <2>3. QueueHolds'  BY <1>2, <1>6, <2>1 DEF QueueHolds, NvmeWaits
  <2>4. CalmHolds'
    <3> SUFFICES ASSUME Calm' PROVE (MediaHold /\ NvmeHolds /\ AhciHolds /\ VirtioHolds)'  BY DEF CalmHolds
    <3>1. Calm  BY <1>1, <1>6 DEF Calm, Undisturbed
    <3>2. AhciHolds /\ VirtioHolds  BY <1>0, <3>1 DEF CalmHolds
    <3>3. NvmeHolds'  BY <1>6, <3>1 DEF NvmeHolds
    <3>4. AhciHolds'  BY <1>1, <1>3, <1>6, <3>2 DEF AhciHolds
    <3>5. VirtioHolds'  BY <1>1, <1>3, <1>6, <3>2 DEF VirtioHolds
    <3> QED  BY <1>6, <3>1, <3>3, <3>4, <3>5
  <2> QED  BY <1>4, <1>6, <2>2, <2>3, <2>4 DEF StorageInv
<1>7. ASSUME IoFailed, UNCHANGED tally, \/ nvme' = Consumed
                                        \/ nvme' = nvme /\ ~OwnCid(e)
      PROVE  StorageInv'
  <2>1. io' = NoIo /\ UNCHANGED allowed  BY <1>7 DEF IoFailed
  <2>2. io' \in IoStates /\ io'.step = "idle"  BY <2>1, NoIoIsIdle
  <2>3. CallHolds'  BY <2>2 DEF CallHolds
  <2>4. allowed' \in [Units -> [Lbas -> SUBSET Int]]  BY <1>0, <2>1 DEF StorageTypes
  <2>5. Calm => MediaHold'
    BY <1>0, <1>1, <1>7, <2>1, <2>2 DEF CalmHolds, MediaHold
  <2> QED  BY <1>5, <1>6, <1>7, <2>2, <2>3, <2>4, <2>5
<1>8. CASE ~OwnCid(e)
  <2>1. IoFailed /\ UNCHANGED <<nvme, tally>>  BY <1>8 DEF NvmePoll
  <2> QED  BY <1>7, <1>8, <2>1
<1>9. CASE OwnCid(e) /\ ~e.ok
  <2>1. IoFailed /\ nvme' = Consumed /\ UNCHANGED tally  BY <1>9 DEF NvmePoll
  <2> QED  BY <1>7, <2>1
<1>10. CASE OwnCid(e) /\ e.ok /\ io.step = "wait" /\ io.op = "write"
  <2>1. nvme' = Consumed /\ io' = [io EXCEPT !.step = "patch"] /\ UNCHANGED <<allowed, tally>>
    BY <1>10 DEF NvmePoll
  <2>2. /\ io' \in IoStates /\ io'.step = "patch" /\ io'.i = io.i /\ io'.op = io.op /\ io'.lba = io.lba
        /\ io'.n = io.n /\ io'.val = io.val /\ io'.unit = io.unit
    BY <1>0, <2>1 DEF StorageTypes, IoStates, CallSteps
  <2>3. CallHolds'  BY <1>0, <1>1, <1>10, <2>2 DEF CallHolds, Target, IsNvme
  <2>4. allowed' \in [Units -> [Lbas -> SUBSET Int]]  BY <1>0, <2>1 DEF StorageTypes
  <2>5. Calm => MediaHold'
    BY <1>0, <1>1, <2>1, <2>2 DEF CalmHolds, MediaHold, Target
  <2>6. Calm => ScratchHolds'
    <3>1. Calm => ScratchHolds
      BY <1>0, <1>1, <1>2, <1>10 DEF Calm, CalmHolds, NvmeHolds
    <3>2. nvme'.scratch = nvme.scratch  BY <2>1, ConsumedKeeps
    <3>3. Sector' = Sector  BY <2>2 DEF Sector
    <3>4. Block(Sector)' = Block(Sector)  BY <1>1, <3>3 DEF Block
    <3> QED  BY <1>1, <3>1, <3>2, <3>4 DEF ScratchHolds
  <2> QED  BY <1>5, <1>6, <2>1, <2>2, <2>3, <2>4, <2>5, <2>6
<1>11. CASE OwnCid(e) /\ e.ok /\ io.step = "wait" /\ io.op = "read"
  <2>1. /\ nvme' = Consumed /\ DoneUpTo(io.i + 1)
        /\ tally' = [tally EXCEPT !.misread = @ \/ Misread([s \in {Sector} |-> Scratch(s)])]
    BY <1>11 DEF NvmePoll
  <2>2. /\ io' \in IoStates /\ io'.step \in {"idle", "submit"}
        /\ allowed' \in [Units -> [Lbas -> SUBSET Int]] /\ CallHolds'
        /\ /\ MediaHold /\ ~tally'.misread
           /\ io.op = "write" => media[Target][Sector] = io.val
           => MediaHold'
    BY <1>1, <1>3, <2>1, DoneKeeps
  <2>3. Calm => ~Misread([s \in {Sector} |-> Scratch(s)])
    <3> SUFFICES ASSUME Calm PROVE ~Misread([s \in {Sector} |-> Scratch(s)])  OBVIOUS
    <3>1. ScratchHolds /\ MediaHold
      BY <1>0, <1>1, <1>2, <1>11 DEF Calm, CalmHolds, NvmeHolds
    <3>2. Sector \in Lbas /\ Sector \in Block(Sector)  BY <1>1, SectorFits
    <3>3. Target = "nvme" /\ Target \in Units  BY <1>1, <1>3, SelectedFits
    <3>4. Scratch(Sector) = media["nvme"][Sector]  BY <3>1, <3>2 DEF ScratchHolds, Scratch
    <3>5. Scratch(Sector) \in allowed[Target][Sector]  BY <3>1, <3>2, <3>3, <3>4 DEF MediaHold
    <3> QED  BY <3>5 DEF Misread, Target
  <2>4. /\ tally' \in [calls : Nat, late : Nat, exposed : BOOLEAN, misread : BOOLEAN]
        /\ tally'.late = tally.late /\ tally'.exposed = tally.exposed
        /\ tally'.misread = (tally.misread \/ Misread([s \in {Sector} |-> Scratch(s)]))
    <3> DEFINE m == Misread([s \in {Sector} |-> Scratch(s)])
    <3>1. m \in BOOLEAN  BY DEF Misread
    <3>2. tally' = [tally EXCEPT !.misread = @ \/ m]  BY <2>1
    <3> HIDE DEF m
    <3>3. /\ tally' \in [calls : Nat, late : Nat, exposed : BOOLEAN, misread : BOOLEAN]
          /\ tally'.late = tally.late /\ tally'.exposed = tally.exposed
          /\ tally'.misread = (tally.misread \/ m)
      BY ONLY <1>5, <3>1, <3>2
    <3> QED  BY <3>3 DEF m
  <2>5. Calm => MediaHold /\ ~tally'.misread  BY <1>0, <2>3, <2>4 DEF CalmHolds, MediaHold
  <2> QED  BY <1>6, <1>11, <2>1, <2>2, <2>4, <2>5
<1>12. CASE OwnCid(e) /\ e.ok /\ io.step = "waitwrite"
  <2>1. nvme' = Consumed /\ DoneUpTo(io.i + 1) /\ UNCHANGED tally
    BY <1>12 DEF NvmePoll
  <2>2. /\ io' \in IoStates /\ io'.step \in {"idle", "submit"}
        /\ allowed' \in [Units -> [Lbas -> SUBSET Int]] /\ CallHolds'
        /\ /\ MediaHold /\ ~tally'.misread
           /\ io.op = "write" => media[Target][Sector] = io.val
           => MediaHold'
    BY <1>1, <1>3, <2>1, DoneKeeps
  <2>3. Calm => MediaHold /\ ~tally'.misread /\ media[Target][Sector] = io.val
    <3>1. Target = "nvme"  BY <1>1, <1>3, SelectedFits
    <3> QED  BY <1>0, <1>1, <1>2, <1>12, <2>1, <3>1 DEF Calm, CalmHolds, NvmeHolds, MediaHold
  <2> QED  BY <1>5, <1>6, <2>1, <2>2, <2>3
<1> QED  BY <1>1, <1>5, <1>8, <1>9, <1>10, <1>11, <1>12

\* A call that ends with an error changes nothing that holds.
LEMMA FailedKeeps ==
  ASSUME StorageInv, IoFailed, UNCHANGED <<table, disk, nvme, ahci, virtio, media>>,
         tally' \in [calls : Nat, late : Nat, exposed : BOOLEAN, misread : BOOLEAN],
         tally'.late = 0 => UNCHANGED tally /\ ~NvmeWaits,
         Calm' => \A u \in AhciPorts : ~(ahci.busy[u] /\ ~ahci.halted[u]),
         Calm' => virtio.avail = virtio.used
  PROVE  StorageInv'
<1>0. StorageTypes /\ TableHolds /\ CallHolds /\ QueueHolds /\ CalmHolds  BY DEF StorageInv
<1>1. io' = NoIo /\ UNCHANGED allowed /\ io' \in IoStates /\ io'.step = "idle"
  BY NoIoIsIdle DEF IoFailed
<1>2. StorageTypes'  BY <1>0, <1>1 DEF StorageTypes
<1>3. TableHolds'
  <2>1. FittingEntries' = FittingEntries  BY DEF FittingEntries
  <2> QED  BY <1>0, <2>1 DEF TableHolds
<1>4. CallHolds'  BY <1>1 DEF CallHolds
<1>5. QueueHolds'  BY <1>0, <1>1 DEF QueueHolds, NvmeWaits, IsNvme, NvmeQuiet, PhasesHold
<1>6. CalmHolds'
  <2> SUFFICES ASSUME Calm' PROVE (MediaHold /\ NvmeHolds /\ AhciHolds /\ VirtioHolds)'  BY DEF CalmHolds
  <2>1. Calm /\ UNCHANGED tally  BY DEF Calm, Undisturbed
  <2>2. MediaHold'  BY <1>0, <1>1, <2>1 DEF CalmHolds, MediaHold
  <2>3. NvmeHolds'  BY <1>1 DEF NvmeHolds
  <2>4. AhciHolds'  BY <1>1 DEF AhciHolds
  <2>5. VirtioHolds'  BY <1>1 DEF VirtioHolds
  <2> QED  BY <2>2, <2>3, <2>4, <2>5
<1> QED  BY <1>2, <1>3, <1>4, <1>5, <1>6 DEF StorageInv

\* A poll may only give up without being late on a device that will not answer.
LEMMA GiveUpKeeps == ASSUME StorageInv, GiveUp PROVE StorageInv'
<1>0. StorageTypes /\ TableHolds /\ CallHolds /\ QueueHolds /\ CalmHolds  BY DEF StorageInv
<1>1. /\ io.step \in {"wait", "waitwrite"} /\ io.step # "idle" /\ IoFailed
      /\ UNCHANGED <<table, disk, nvme, ahci, virtio, media>>
  BY DEF GiveUp
<1>2. disk.selected # 0  BY <1>0, <1>1 DEF CallHolds
<1>3. tally \in [calls : Nat, late : Nat, exposed : BOOLEAN, misread : BOOLEAN]  BY <1>0 DEF StorageTypes
<1>4. CASE ~NeverAnswers
  <2>1. tally' = [tally EXCEPT !.late = @ + 1]  BY <1>4 DEF GiveUp
  <2>2. tally' \in [calls : Nat, late : Nat, exposed : BOOLEAN, misread : BOOLEAN] /\ tally'.late # 0
    BY ONLY <1>3, <2>1
  <2>3. ~Calm'  BY <2>2 DEF Calm
  <2> QED  BY <1>1, <2>2, <2>3, FailedKeeps
<1>5. CASE NeverAnswers
  <2>1. UNCHANGED tally  BY <1>5 DEF GiveUp
  <2>2. disk.driver \in {"ahci", "virtio"} /\ ~NvmeWaits
    BY <1>5 DEF NeverAnswers, NvmeWaits, IsNvme
  <2>3. Calm' => Calm  BY <1>1, <2>1 DEF Calm, Undisturbed
  <2>4. ASSUME Calm PROVE (\A u \in AhciPorts : ~(ahci.busy[u] /\ ~ahci.halted[u])) /\ virtio.avail = virtio.used
    <3>1. AhciHolds /\ VirtioHolds  BY <1>0, <2>4 DEF CalmHolds
    <3>2. ~(disk.driver = "virtio" /\ disk.virtioDead)
      BY <1>2, <2>4, SelectedFits DEF Calm, Undisturbed
    <3>3. disk.driver = "ahci" /\ ahci.halted[io.unit] /\ ahci.busy[io.unit]
      BY <1>5, <3>2 DEF NeverAnswers
    <3> QED  BY <3>1, <3>3 DEF AhciHolds, VirtioHolds
  <2> QED  BY <1>1, <1>3, <2>1, <2>2, <2>3, <2>4, FailedKeeps
<1> QED  BY <1>4, <1>5

\* The ports share their tables: one is free to use only when no other has a
\* command.
LEMMA AhciIssueKeeps == ASSUME StorageInv, AhciIssue PROVE StorageInv'
<1>0. StorageTypes /\ TableHolds /\ CallHolds /\ QueueHolds /\ CalmHolds  BY DEF StorageInv
<1>1. io.step = "submit" /\ disk.driver = "ahci" /\ UNCHANGED <<table, disk, nvme, virtio, media>>
  BY DEF AhciIssue
<1>2. /\ ahci \in AhciStates /\ io \in IoStates /\ media \in [Units -> [Lbas -> Int]]
      /\ tally \in [calls : Nat, late : Nat, exposed : BOOLEAN, misread : BOOLEAN]
      /\ io.unit \in AhciPorts /\ io.unit = Target /\ io.i = 0
  BY <1>0, <1>1 DEF StorageTypes, CallHolds
<1>3. CASE ahci.busy[io.unit]
  <2>1. IoFailed /\ UNCHANGED <<ahci, tally>>  BY <1>3 DEF AhciIssue
  <2>2. ~NvmeWaits  BY <1>1 DEF NvmeWaits
  <2>3. Calm' => Calm  BY <1>1, <2>1 DEF Calm, Undisturbed
  <2>4. Calm => (\A u \in AhciPorts : ~(ahci.busy[u] /\ ~ahci.halted[u])) /\ virtio.avail = virtio.used
    BY <1>0, <1>1 DEF CalmHolds, AhciHolds, VirtioHolds
  <2> QED  BY <1>1, <1>2, <2>1, <2>2, <2>3, <2>4, FailedKeeps
<1>4. CASE ~ahci.busy[io.unit]
  <2>1. /\ ahci' = [ahci EXCEPT !.busy[io.unit] = TRUE,
                                !.cmd[io.unit] = [op |-> io.op, at |-> Span(io.lba, io.n)], !.val = io.val]
        /\ tally' = [tally EXCEPT !.exposed = @ \/ \E u \in DOMAIN ahci.busy : ahci.busy[u]]
        /\ io' = [io EXCEPT !.step = "wait"] /\ UNCHANGED allowed
    BY <1>4 DEF AhciIssue
  <2>2. /\ io' \in IoStates /\ io'.step = "wait" /\ io'.i = io.i /\ io'.op = io.op /\ io'.lba = io.lba
        /\ io'.n = io.n /\ io'.val = io.val /\ io'.unit = io.unit
    BY ONLY <1>2, <2>1 DEF IoStates, CallSteps
  <2> DEFINE c == [op |-> io.op, at |-> Span(io.lba, io.n)]
             taken == \E u \in DOMAIN ahci.busy : ahci.busy[u]
  <2>3. c \in [op : {"read", "write"}, at : SUBSET Lbas]
    <3>1. Span(io.lba, io.n) \subseteq Lbas  BY <1>1, SectorFits
    <3>2. io.op \in {"read", "write"}  BY ONLY <1>2 DEF IoStates
    <3> QED  BY <3>1, <3>2
  <2>4. ahci' = [ahci EXCEPT !.busy[io.unit] = TRUE, !.cmd[io.unit] = c, !.val = io.val]  BY <2>1
  <2>5. tally' = [tally EXCEPT !.exposed = @ \/ taken] /\ taken \in BOOLEAN  BY <2>1
  <2>6. taken <=> \E u \in AhciPorts : ahci.busy[u]  BY <1>2 DEF AhciStates
  <2>7. c.op = io.op /\ c.at = Span(io.lba, io.n)  OBVIOUS
  <2> HIDE DEF c, taken
  <2>8. /\ ahci' \in AhciStates /\ ahci'.val = io.val /\ ahci'.halted = ahci.halted
        /\ \A u \in AhciPorts : ahci'.busy[u] = IF u = io.unit THEN TRUE ELSE ahci.busy[u]
        /\ ahci'.cmd[io.unit] = c
    BY ONLY <1>2, <2>3, <2>4 DEF AhciStates, IoStates
  <2>9. /\ tally' \in [calls : Nat, late : Nat, exposed : BOOLEAN, misread : BOOLEAN]
        /\ tally'.late = tally.late /\ tally'.exposed = (tally.exposed \/ taken) /\ tally'.misread = tally.misread
    BY ONLY <1>2, <2>5
  <2>10. StorageTypes'  BY <1>0, <1>1, <2>1, <2>2, <2>8, <2>9 DEF StorageTypes
  <2>11. TableHolds'
    <3>1. FittingEntries' = FittingEntries  BY <1>1 DEF FittingEntries
    <3> QED  BY <1>0, <1>1, <3>1 DEF TableHolds
  <2>12. CallHolds'  BY <1>0, <1>1, <2>2 DEF CallHolds, Target, IsNvme
  <2>13. QueueHolds'  BY <1>0, <1>1, <2>9 DEF QueueHolds, NvmeWaits, IsNvme, NvmeQuiet, PhasesHold
  <2>14. CalmHolds'
    <3> SUFFICES ASSUME Calm' PROVE (MediaHold /\ NvmeHolds /\ AhciHolds /\ VirtioHolds)'  BY DEF CalmHolds
    <3>1. Calm /\ ~taken  BY <1>1, <2>9 DEF Calm, Undisturbed
    <3>2. MediaHold /\ NvmeHolds /\ AhciHolds /\ VirtioHolds  BY <1>0, <3>1 DEF CalmHolds
    <3>3. MediaHold'  BY <1>1, <2>1, <2>2, <2>9, <3>2 DEF MediaHold, Target
    <3>4. NvmeHolds'  BY <1>1, <2>2 DEF NvmeHolds, IsNvme
    <3>5. AhciHolds'
      <4>1. ASSUME NEW u \in AhciPorts, ahci'.busy[u], ~ahci'.halted[u] PROVE u = io.unit
        BY <2>6, <2>8, <3>1, <4>1
      <4>2. ahci'.busy[io.unit]  BY <1>2, <2>8
      <4>3. ahci'.cmd[io.unit] = [op |-> io'.op, at |-> Span(io'.lba, io'.n)]  BY <2>2, <2>8 DEF c
      <4> QED  BY <1>1, <2>2, <2>8, <4>1, <4>2, <4>3 DEF AhciHolds
    <3>6. VirtioHolds'  BY <1>1, <3>2 DEF VirtioHolds
    <3> QED  BY <3>3, <3>4, <3>5, <3>6
  <2> QED  BY <2>10, <2>11, <2>12, <2>13, <2>14 DEF StorageInv
<1> QED  BY <1>3, <1>4

\* The one port with a command does what the call asks for.
LEMMA AhciExecutesKeeps == ASSUME StorageInv, AhciExecutes PROVE StorageInv'
<1>0. StorageTypes /\ TableHolds /\ CallHolds /\ QueueHolds /\ CalmHolds  BY DEF StorageInv
<1>1. ahci \in AhciStates /\ io \in IoStates /\ media \in [Units -> [Lbas -> Int]] /\ DOMAIN ahci.busy = AhciPorts
  BY <1>0 DEF StorageTypes, AhciStates
<1> PICK u \in AhciPorts :
      /\ ahci.busy[u] /\ ~ahci.halted[u]
      /\ \E ok \in BOOLEAN :
           /\ media' = IF ok /\ ahci.cmd[u].op = "write"
                       THEN [media EXCEPT ![u] = [s \in Lbas |-> IF s \in ahci.cmd[u].at THEN ahci.val ELSE @[s]]]
                       ELSE media
           /\ ahci' = [ahci EXCEPT !.busy[u] = FALSE, !.halted[u] = ~ok]
      /\ UNCHANGED <<table, disk, nvme, virtio, allowed, io, tally>>
  BY <1>1 DEF AhciExecutes
<1> PICK ok \in BOOLEAN :
      /\ media' = IF ok /\ ahci.cmd[u].op = "write"
                  THEN [media EXCEPT ![u] = [s \in Lbas |-> IF s \in ahci.cmd[u].at THEN ahci.val ELSE @[s]]]
                  ELSE media
      /\ ahci' = [ahci EXCEPT !.busy[u] = FALSE, !.halted[u] = ~ok]
  OBVIOUS
<1>2. /\ ahci.busy[u] /\ ~ahci.halted[u] /\ u \in Units
      /\ UNCHANGED <<table, disk, nvme, virtio, allowed, io, tally>>
  BY DEF AhciPorts, Units
<1>3. /\ ahci' \in AhciStates /\ ahci'.val = ahci.val /\ ahci'.cmd = ahci.cmd
      /\ \A v \in AhciPorts : /\ ahci'.busy[v] = IF v = u THEN FALSE ELSE ahci.busy[v]
                              /\ ahci'.halted[v] = IF v = u THEN ~ok ELSE ahci.halted[v]
  BY <1>1 DEF AhciStates
<1>4. /\ media' \in [Units -> [Lbas -> Int]]
      /\ \A v \in Units, s \in Lbas :
           media'[v][s] = IF ok /\ ahci.cmd[u].op = "write" /\ v = u /\ s \in ahci.cmd[u].at THEN ahci.val ELSE media[v][s]
  <2>1. CASE ok /\ ahci.cmd[u].op = "write"
    <3> DEFINE new == [s \in Lbas |-> IF s \in ahci.cmd[u].at THEN ahci.val ELSE media[u][s]]
    <3>1. media' = [media EXCEPT ![u] = new]  BY <2>1
    <3>2. new \in [Lbas -> Int]
      <4>1. ahci.val \in Int  BY <1>1 DEF AhciStates
      <4> QED  BY <1>1, <1>2, <4>1
    <3>3. \A s \in Lbas : new[s] = IF s \in ahci.cmd[u].at THEN ahci.val ELSE media[u][s]  OBVIOUS
    <3> HIDE DEF new
    <3>4. media' \in [Units -> [Lbas -> Int]] /\ \A v \in Units : media'[v] = IF v = u THEN new ELSE media[v]
      BY ONLY <1>1, <1>2, <3>1, <3>2
    <3> QED  BY ONLY <2>1, <3>3, <3>4
  <2>2. CASE ~(ok /\ ahci.cmd[u].op = "write")
    BY <1>1, <2>2
  <2> QED  BY <2>1, <2>2
<1>5. StorageTypes'  BY <1>0, <1>2, <1>3, <1>4 DEF StorageTypes
<1>6. TableHolds'
  <2>1. FittingEntries' = FittingEntries  BY <1>2 DEF FittingEntries
  <2> QED  BY <1>0, <1>2, <2>1 DEF TableHolds
<1>7. CallHolds'  BY <1>0, <1>2 DEF CallHolds, Target, IsNvme
<1>8. QueueHolds'  BY <1>0, <1>2 DEF QueueHolds, NvmeWaits, IsNvme, NvmeQuiet, NvmeIssued, NvmeDone, PhasesHold
<1>9. CalmHolds'
  <2> SUFFICES ASSUME Calm' PROVE (MediaHold /\ NvmeHolds /\ AhciHolds /\ VirtioHolds)'  BY DEF CalmHolds
  <2>1. Calm  BY <1>2 DEF Calm, Undisturbed
  <2>2. MediaHold /\ NvmeHolds /\ AhciHolds /\ VirtioHolds  BY <1>0, <2>1 DEF CalmHolds
  <2>3. /\ io.step = "wait" /\ disk.driver = "ahci" /\ u = io.unit
        /\ ahci.cmd[u] = [op |-> io.op, at |-> Span(io.lba, io.n)] /\ ahci.val = io.val
        /\ \A v \in AhciPorts : ahci.busy[v] /\ ~ahci.halted[v] => v = u
    BY <1>2, <2>2 DEF AhciHolds
  <2>4. io.unit = Target /\ io.i = 0  BY <1>0, <2>3 DEF CallHolds
  <2>5. Span(io.lba, io.n) \subseteq Lbas /\ Span(io.lba, io.i) = {}
    <3>1. io.lba \in Int  BY <1>1 DEF IoStates, Lbas
    <3>2. Span(io.lba, 0) = {}  BY <3>1 DEF Span
    <3> QED  BY <2>3, <2>4, <3>2, SectorFits
  <2>6. \A v \in Units, s \in Lbas :
          media'[v][s] = IF ok /\ io.op = "write" /\ v = io.unit /\ s \in Span(io.lba, io.n) THEN io.val ELSE media[v][s]
    BY <1>4, <2>3
  <2>7. MediaHold'
    <3>1. \A v \in Units, s \in Lbas : media'[v][s] \in allowed'[v][s]
      BY <1>2, <2>2, <2>3, <2>4, <2>6 DEF MediaHold
    <3> QED  BY <1>2, <2>2, <2>5, <3>1 DEF MediaHold, Target
  <2>8. NvmeHolds'  BY <1>2, <2>3 DEF NvmeHolds, IsNvme
  <2>9. AhciHolds'
    <3>1. \A v \in AhciPorts : ~(ahci'.busy[v] /\ ~ahci'.halted[v])
      BY <1>3, <2>3
    <3>2. ~ahci'.halted[io.unit] /\ io.op = "write" => \A s \in Span(io.lba, io.n) : media'[io.unit][s] = io.val
      <4>1. ahci'.halted[u] = ~ok  BY <1>3, Zenon
      <4>2. ok \/ ahci'.halted[io.unit]  BY ONLY <2>3, <4>1, ok \in BOOLEAN, Zenon
      <4>3. io.unit \in Units  BY <1>2, <2>3
      <4> QED  BY ONLY <2>5, <2>6, <4>2, <4>3
    <3> QED  BY <1>2, <3>1, <3>2 DEF AhciHolds
  <2>10. VirtioHolds'  BY <1>2, <2>2, <2>3 DEF VirtioHolds
  <2> QED  BY <2>7, <2>8, <2>9, <2>10
<1> QED  BY <1>5, <1>6, <1>7, <1>8, <1>9 DEF StorageInv

\* The call ends with what the port did.
LEMMA AhciPollKeeps == ASSUME StorageInv, AhciPoll PROVE StorageInv'
<1>0. StorageTypes /\ TableHolds /\ CallHolds /\ QueueHolds /\ CalmHolds  BY DEF StorageInv
<1>1. /\ io.step = "wait" /\ io.step # "idle" /\ disk.driver = "ahci" /\ ~ahci.busy[io.unit]
      /\ UNCHANGED <<table, disk, nvme, ahci, virtio, media>>
  BY DEF AhciPoll
<1>2. /\ tally \in [calls : Nat, late : Nat, exposed : BOOLEAN, misread : BOOLEAN]
      /\ io.unit = Target /\ io.op \in {"read", "write"} /\ disk.selected # 0 /\ ~NvmeWaits
  BY <1>0, <1>1 DEF StorageTypes, CallHolds, IoStates, NvmeWaits, IsNvme
<1>3. Calm => (\A u \in AhciPorts : ~(ahci.busy[u] /\ ~ahci.halted[u])) /\ virtio.avail = virtio.used
  BY <1>0, <1>1 DEF CalmHolds, AhciHolds, VirtioHolds
<1>4. CASE ahci.halted[io.unit]
  <2>1. IoFailed /\ UNCHANGED tally  BY <1>4 DEF AhciPoll
  <2>2. Calm' => Calm  BY <1>1, <2>1 DEF Calm, Undisturbed
  <2> QED  BY <1>1, <1>2, <1>3, <2>1, <2>2, FailedKeeps
<1>5. CASE ~ahci.halted[io.unit]
  <2> DEFINE m == io.op = "read" /\ Misread([s \in Span(io.lba, io.n) |-> media[io.unit][s]])
  <2>1. Succeeded /\ tally' = [tally EXCEPT !.misread = @ \/ m]  BY <1>5 DEF AhciPoll
  <2>2. m \in BOOLEAN  BY DEF Misread
  <2>3. Calm => ~m
    <3> SUFFICES ASSUME Calm PROVE ~Misread([s \in Span(io.lba, io.n) |-> media[io.unit][s]])  OBVIOUS
    <3>1. MediaHold  BY <1>0 DEF CalmHolds
    <3>2. Span(io.lba, io.n) \subseteq Lbas /\ Target \in Units  BY <1>1, <1>2, SectorFits, SelectedFits
    <3>3. \A s \in Span(io.lba, io.n) : media[io.unit][s] \in allowed[Target][s]
      BY <1>2, <3>1, <3>2 DEF MediaHold
    <3> QED  BY <3>3 DEF Misread, Target
  <2> HIDE DEF m
  <2>4. /\ tally' \in [calls : Nat, late : Nat, exposed : BOOLEAN, misread : BOOLEAN]
        /\ tally'.late = tally.late /\ tally'.exposed = tally.exposed /\ tally'.misread = (tally.misread \/ m)
    BY ONLY <1>2, <2>1, <2>2
  <2>5. /\ io' = NoIo /\ allowed' \in [Units -> [Lbas -> SUBSET Int]] /\ CallHolds'
        /\ /\ MediaHold /\ ~tally'.misread
           /\ io.op = "write" => \A s \in Span(io.lba, io.n) : media[Target][s] = io.val
           => MediaHold'
    BY <1>1, <2>1, SucceededKeeps
  <2>6. io' \in IoStates /\ io'.step = "idle"  BY <2>5, NoIoIsIdle
  <2>7. StorageTypes'  BY <1>0, <1>1, <2>4, <2>5, <2>6 DEF StorageTypes
  <2>8. TableHolds'
    <3>1. FittingEntries' = FittingEntries  BY <1>1 DEF FittingEntries
    <3> QED  BY <1>0, <1>1, <3>1 DEF TableHolds
  <2>9. QueueHolds'  BY <1>0, <1>1, <1>2, <2>4, <2>6 DEF QueueHolds, NvmeWaits, NvmeQuiet, PhasesHold
  <2>10. CalmHolds'
    <3> SUFFICES ASSUME Calm' PROVE (MediaHold /\ NvmeHolds /\ AhciHolds /\ VirtioHolds)'  BY DEF CalmHolds
    <3>1. Calm  BY <1>1, <2>4 DEF Calm, Undisturbed
    <3>2. MediaHold /\ AhciHolds  BY <1>0, <3>1 DEF CalmHolds
    <3>3. io.op = "write" => \A s \in Span(io.lba, io.n) : media[Target][s] = io.val
      BY <1>1, <1>2, <1>5, <3>2 DEF AhciHolds
    <3>4. MediaHold'  BY <2>3, <2>4, <2>5, <3>1, <3>2, <3>3 DEF MediaHold
    <3>5. NvmeHolds'  BY <2>6 DEF NvmeHolds
    <3>6. AhciHolds'  BY <1>1, <1>3, <2>6, <3>1 DEF AhciHolds
    <3>7. VirtioHolds'  BY <1>1, <1>3, <3>1 DEF VirtioHolds
    <3> QED  BY <3>4, <3>5, <3>6, <3>7
  <2> QED  BY <2>5, <2>7, <2>8, <2>9, <2>10 DEF StorageInv
<1> QED  BY <1>4, <1>5

\* The request header is free when every request made was used.
LEMMA VirtioIssueKeeps == ASSUME StorageInv, VirtioIssue PROVE StorageInv'
<1>0. StorageTypes /\ TableHolds /\ CallHolds /\ QueueHolds /\ CalmHolds  BY DEF StorageInv
<1>1. /\ io.step = "submit" /\ disk.driver = "virtio"
      /\ virtio' = [virtio EXCEPT !.avail = @ + 1, !.status = "pending",
                                  !.op = io.op, !.at = Sector, !.val = io.val]
      /\ tally' = [tally EXCEPT !.exposed = @ \/ virtio.avail # virtio.used]
      /\ io' = [io EXCEPT !.step = "wait", !.used = virtio.used]
      /\ UNCHANGED <<table, disk, nvme, ahci, media, allowed>>
  BY DEF VirtioIssue
<1>2. /\ virtio \in VirtioStates /\ io \in IoStates
      /\ tally \in [calls : Nat, late : Nat, exposed : BOOLEAN, misread : BOOLEAN]
  BY <1>0 DEF StorageTypes
<1>3. Sector \in Lbas  BY <1>1, SectorFits
<1>4. /\ virtio' \in VirtioStates
      /\ virtio'.avail = virtio.avail + 1 /\ virtio'.used = virtio.used
      /\ virtio'.op = io.op /\ virtio'.at = Sector /\ virtio'.val = io.val
  <2> DEFINE at == Sector
  <2>1. virtio' = [virtio EXCEPT !.avail = @ + 1, !.status = "pending", !.op = io.op, !.at = at, !.val = io.val]
    BY <1>1
  <2>2. at \in Lbas  BY <1>3
  <2>3. io.op \in {"read", "write"} /\ io.val \in Int  BY ONLY <1>2 DEF IoStates
  <2> DEFINE j == virtio.avail + 1
  <2>4. j \in Nat  BY <1>2 DEF VirtioStates
  <2>5. virtio' = [virtio EXCEPT !.avail = j, !.status = "pending", !.op = io.op, !.at = at, !.val = io.val]
    BY <2>1, <1>2 DEF VirtioStates
  <2> HIDE DEF at, j
  <2>6. /\ virtio' \in VirtioStates
        /\ virtio'.avail = j /\ virtio'.used = virtio.used
        /\ virtio'.op = io.op /\ virtio'.at = at /\ virtio'.val = io.val
    BY ONLY <1>2, <2>2, <2>3, <2>4, <2>5 DEF VirtioStates
  <2> QED  BY <2>6 DEF at, j
<1>5. /\ io' \in IoStates /\ io'.step = "wait" /\ io'.i = io.i /\ io'.op = io.op /\ io'.lba = io.lba
      /\ io'.n = io.n /\ io'.val = io.val /\ io'.unit = io.unit /\ io'.used = virtio.used
  <2>1. virtio.used \in Nat  BY ONLY <1>2 DEF VirtioStates
  <2>2. io' = [io EXCEPT !.step = "wait", !.used = virtio.used]  BY <1>1
  <2> QED  BY ONLY <1>2, <2>1, <2>2 DEF IoStates, CallSteps
<1>6. /\ tally' \in [calls : Nat, late : Nat, exposed : BOOLEAN, misread : BOOLEAN]
      /\ tally'.late = tally.late /\ tally'.misread = tally.misread
      /\ tally'.exposed = (tally.exposed \/ virtio.avail # virtio.used)
  BY ONLY <1>1, <1>2
<1>7. StorageTypes'  BY <1>0, <1>1, <1>4, <1>5, <1>6 DEF StorageTypes
<1>8. TableHolds'
  <2>1. FittingEntries' = FittingEntries  BY <1>1 DEF FittingEntries
  <2> QED  BY <1>0, <1>1, <2>1 DEF TableHolds
<1>9. CallHolds'  BY <1>0, <1>1, <1>5 DEF CallHolds, Target, IsNvme
<1>10. QueueHolds'  BY <1>0, <1>1, <1>6 DEF QueueHolds, NvmeWaits, IsNvme, NvmeQuiet, PhasesHold
<1>11. CalmHolds'
  <2> SUFFICES ASSUME Calm' PROVE (MediaHold /\ NvmeHolds /\ AhciHolds /\ VirtioHolds)'  BY DEF CalmHolds
  <2>1. Calm /\ virtio.avail = virtio.used  BY <1>1, <1>6 DEF Calm, Undisturbed
  <2>2. MediaHold /\ AhciHolds  BY <1>0, <2>1 DEF CalmHolds
  <2>3. MediaHold'  BY <1>1, <1>5, <1>6, <2>2 DEF MediaHold, Target
  <2>4. NvmeHolds'  BY <1>1, <1>5 DEF NvmeHolds, IsNvme
  <2>5. AhciHolds'  BY <1>1, <2>2 DEF AhciHolds
  <2>6. Sector' = Sector  BY <1>5 DEF Sector
  <2>7. VirtioHolds'  BY <1>1, <1>4, <1>5, <2>1, <2>6 DEF VirtioHolds
  <2> QED  BY <2>3, <2>4, <2>5, <2>7
<1> QED  BY <1>7, <1>8, <1>9, <1>10, <1>11 DEF StorageInv

\* The one request is that of the call.
LEMMA VirtioExecutesKeeps == ASSUME StorageInv, VirtioExecutes PROVE StorageInv'
<1>0. StorageTypes /\ TableHolds /\ CallHolds /\ QueueHolds /\ CalmHolds  BY DEF StorageInv
<1> DEFINE d == disk.virtioUnit
<1> PICK ok \in BOOLEAN :
       /\ media' = IF ok /\ virtio.op = "write"
                   THEN [media EXCEPT ![d][virtio.at] = virtio.val] ELSE media
       /\ virtio' = [virtio EXCEPT !.used = @ + 1, !.status = IF ok THEN "ok" ELSE "error",
                                   !.data = media[d][virtio.at]]
  BY DEF VirtioExecutes
<1>1. virtio.used # virtio.avail /\ UNCHANGED <<table, disk, nvme, ahci, allowed, io, tally>>
  BY DEF VirtioExecutes
<1>2. /\ virtio \in VirtioStates /\ io \in IoStates /\ media \in [Units -> [Lbas -> Int]] /\ d \in Units
      /\ virtio.at \in Lbas /\ virtio.val \in Int
  BY <1>0 DEF StorageTypes, VirtioStates, DiskStates, Units
<1>3. media[d][virtio.at] \in Int  BY <1>2
<1>4. /\ virtio' \in VirtioStates
      /\ virtio'.used = virtio.used + 1 /\ virtio'.avail = virtio.avail /\ virtio'.op = virtio.op
      /\ virtio'.at = virtio.at /\ virtio'.val = virtio.val
      /\ virtio'.status = IF ok THEN "ok" ELSE "error"
      /\ virtio'.data = media[d][virtio.at]
  <2> DEFINE x == media[d][virtio.at]
  <2>1. x \in Int  BY <1>3
  <2>2. virtio' = [virtio EXCEPT !.used = @ + 1, !.status = IF ok THEN "ok" ELSE "error", !.data = x]  OBVIOUS
  <2> DEFINE j == virtio.used + 1
             y == IF ok THEN "ok" ELSE "error"
  <2>4. j \in Nat /\ y \in {"ok", "error", "pending"}  BY <1>2 DEF VirtioStates
  <2>5. virtio' = [virtio EXCEPT !.used = j, !.status = y, !.data = x]  BY <2>2, <1>2 DEF VirtioStates
  <2> HIDE DEF x, j, y
  <2>3. /\ virtio' \in VirtioStates
        /\ virtio'.used = j /\ virtio'.avail = virtio.avail /\ virtio'.op = virtio.op
        /\ virtio'.at = virtio.at /\ virtio'.val = virtio.val
        /\ virtio'.status = y
        /\ virtio'.data = x
    BY ONLY <1>2, <2>1, <2>4, <2>5 DEF VirtioStates
  <2> QED  BY <2>3 DEF x, j, y
<1>5. /\ media' \in [Units -> [Lbas -> Int]]
      /\ \A u \in Units, s \in Lbas :
           media'[u][s] = IF ok /\ virtio.op = "write" /\ u = d /\ s = virtio.at THEN virtio.val ELSE media[u][s]
  <2>1. CASE ok /\ virtio.op = "write"
    <3>1. media' = [media EXCEPT ![d] = [media[d] EXCEPT ![virtio.at] = virtio.val]]  BY <2>1
    <3> DEFINE new == [media[d] EXCEPT ![virtio.at] = virtio.val]
    <3>2. new \in [Lbas -> Int] /\ \A s \in Lbas : new[s] = IF s = virtio.at THEN virtio.val ELSE media[d][s]
      BY ONLY <1>2
    <3>3. media' = [media EXCEPT ![d] = new]  BY <3>1
    <3> HIDE DEF new, d
    <3>4. media' \in [Units -> [Lbas -> Int]] /\ \A v \in Units : media'[v] = IF v = d THEN new ELSE media[v]
      BY ONLY <1>2, <3>2, <3>3
    <3> QED  BY ONLY <2>1, <3>2, <3>4
  <2>2. CASE ~(ok /\ virtio.op = "write")
    BY <1>2, <2>2
  <2> QED  BY <2>1, <2>2
<1>6. StorageTypes'  BY <1>0, <1>1, <1>4, <1>5 DEF StorageTypes
<1>7. TableHolds'
  <2>1. FittingEntries' = FittingEntries  BY <1>1 DEF FittingEntries
  <2> QED  BY <1>0, <1>1, <2>1 DEF TableHolds
<1>8. CallHolds'  BY <1>0, <1>1 DEF CallHolds, Target, IsNvme
<1>9. QueueHolds'  BY <1>0, <1>1 DEF QueueHolds, NvmeWaits, IsNvme, NvmeQuiet, NvmeIssued, NvmeDone, PhasesHold
<1>10. CalmHolds'
  <2> SUFFICES ASSUME Calm' PROVE (MediaHold /\ NvmeHolds /\ AhciHolds /\ VirtioHolds)'  BY DEF CalmHolds
  <2>1. Calm  BY <1>1 DEF Calm, Undisturbed
  <2>2. MediaHold /\ AhciHolds /\ VirtioHolds  BY <1>0, <2>1 DEF CalmHolds
  <2>3. /\ disk.driver = "virtio" /\ io.step = "wait" /\ virtio.avail = virtio.used + 1 /\ io.used = virtio.used
        /\ virtio.op = io.op /\ virtio.at = Sector /\ virtio.val = io.val
    BY <1>1, <2>2 DEF VirtioHolds
  <2>4. /\ Sector \in Lbas /\ Sector \in Span(io.lba, io.n) /\ Sector \notin Span(io.lba, io.i)
        /\ Span(io.lba, io.i) \subseteq Lbas
    BY <2>3, SectorFits
  <2>5. Target = d /\ disk.selected # 0
    BY <1>0, <2>1, <2>3, SelectedFits DEF CallHolds, Calm, Undisturbed
  <2>6. Sector' = Sector /\ Target' = Target  BY <1>1 DEF Sector, Target
  <2>7. MediaHold'
    <3>1. io.op = "write" => io.val \in allowed[d][Sector]  BY <2>2, <2>3, <2>4, <2>5 DEF MediaHold
    <3>2. \A u \in Units, s \in Lbas : media'[u][s] \in allowed'[u][s]
      BY <1>1, <1>5, <2>2, <2>3, <3>1 DEF MediaHold
    <3>3. \A s \in Span(io.lba, io.i) : media'[Target][s] = media[Target][s]
      BY <1>2, <1>5, <2>3, <2>4, <2>5
    <3> QED  BY <1>1, <2>2, <2>6, <3>2, <3>3 DEF MediaHold
  <2>8. NvmeHolds'  BY <1>1, <2>3 DEF NvmeHolds, IsNvme
  <2>9. AhciHolds'  BY <1>1, <2>2, <2>3 DEF AhciHolds
  <2>10. VirtioHolds'
    <3>1. virtio'.status = "ok" => ok = TRUE  BY <1>4
    <3>2. ok = TRUE /\ io.op = "write" => media'[d][Sector] = io.val  BY <1>2, <1>5, <2>3, <2>4
    <3>3. io.op # "write" => media'[d][Sector] = media[d][Sector]  BY <1>2, <1>5, <2>3, <2>4
    <3>4. virtio'.status = "ok" => IF io'.op = "write" THEN media'[disk'.virtioUnit][Sector'] = io'.val
                                   ELSE virtio'.data = media'[disk'.virtioUnit][Sector']
      BY <1>1, <1>4, <2>3, <2>6, <3>1, <3>2, <3>3
    <3>5. virtio'.avail = virtio'.used /\ virtio'.used = io'.used + 1  BY <1>1, <1>4, <2>3
    <3> QED  BY <1>1, <2>3, <3>4, <3>5 DEF VirtioHolds
  <2> QED  BY <2>7, <2>8, <2>9, <2>10
<1> QED  BY <1>6, <1>7, <1>8, <1>9, <1>10 DEF StorageInv

\* The used index has moved because of it.
LEMMA VirtioPollKeeps == ASSUME StorageInv, VirtioPoll PROVE StorageInv'
<1>0. StorageTypes /\ TableHolds /\ CallHolds /\ QueueHolds /\ CalmHolds  BY DEF StorageInv
<1>1. /\ io.step = "wait" /\ io.step # "idle" /\ disk.driver = "virtio" /\ disk.driver # "ahci"
      /\ virtio.used # io.used
      /\ UNCHANGED <<table, disk, nvme, ahci, virtio, media>>
  BY DEF VirtioPoll
<1>2. /\ tally \in [calls : Nat, late : Nat, exposed : BOOLEAN, misread : BOOLEAN]
      /\ io.op \in {"read", "write"} /\ disk.selected # 0 /\ ~NvmeWaits
  BY <1>0, <1>1 DEF StorageTypes, CallHolds, IoStates, NvmeWaits, IsNvme
<1>3. Calm => /\ virtio.avail = virtio.used
              /\ virtio.status = "ok" => IF io.op = "write" THEN media[disk.virtioUnit][Sector] = io.val
                                         ELSE virtio.data = media[disk.virtioUnit][Sector]
              /\ \A u \in AhciPorts : ~(ahci.busy[u] /\ ~ahci.halted[u])
  BY <1>0, <1>1 DEF CalmHolds, AhciHolds, VirtioHolds
<1>4. CASE virtio.status # "ok"
  <2>1. IoFailed /\ UNCHANGED tally  BY <1>4 DEF VirtioPoll
  <2>2. Calm' => Calm  BY <1>1, <2>1 DEF Calm, Undisturbed
  <2> QED  BY <1>1, <1>2, <1>3, <2>1, <2>2, FailedKeeps
<1>5. CASE virtio.status = "ok"
  <2> DEFINE m == io.op = "read" /\ Misread([s \in {Sector} |-> virtio.data])
  <2>1. DoneUpTo(io.i + 1) /\ tally' = [tally EXCEPT !.misread = @ \/ m]  BY <1>5 DEF VirtioPoll
  <2>2. m \in BOOLEAN  BY DEF Misread
  <2>0. Calm => Target = disk.virtioUnit /\ Target \in Units
    BY <1>1, <1>2, SelectedFits DEF Calm, Undisturbed
  <2>3. Calm => ~m
    <3> SUFFICES ASSUME Calm, io.op = "read" PROVE ~Misread([s \in {Sector} |-> virtio.data])  OBVIOUS
    <3>1. MediaHold  BY <1>0 DEF CalmHolds
    <3>2. Sector \in Lbas  BY <1>1, SectorFits
    <3>3. virtio.data \in allowed[Target][Sector]
      BY <1>3, <1>5, <2>0, <3>1, <3>2 DEF MediaHold
    <3> QED  BY <3>3 DEF Misread, Target
  <2> HIDE DEF m
  <2>4. /\ tally' \in [calls : Nat, late : Nat, exposed : BOOLEAN, misread : BOOLEAN]
        /\ tally'.late = tally.late /\ tally'.exposed = tally.exposed /\ tally'.misread = (tally.misread \/ m)
    BY ONLY <1>2, <2>1, <2>2
  <2>5. /\ io' \in IoStates /\ io'.step \in {"idle", "submit"}
        /\ allowed' \in [Units -> [Lbas -> SUBSET Int]] /\ CallHolds'
        /\ /\ MediaHold /\ ~tally'.misread
           /\ io.op = "write" => media[Target][Sector] = io.val
           => MediaHold'
    BY <1>1, <2>1, DoneKeeps
  <2>7. StorageTypes'  BY <1>0, <1>1, <2>4, <2>5 DEF StorageTypes
  <2>8. TableHolds'
    <3>1. FittingEntries' = FittingEntries  BY <1>1 DEF FittingEntries
    <3> QED  BY <1>0, <1>1, <3>1 DEF TableHolds
  <2>9. QueueHolds'  BY <1>0, <1>1, <1>2, <2>4, <2>5 DEF QueueHolds, NvmeWaits, NvmeQuiet, PhasesHold
  <2>10. CalmHolds'
    <3> SUFFICES ASSUME Calm' PROVE (MediaHold /\ NvmeHolds /\ AhciHolds /\ VirtioHolds)'  BY DEF CalmHolds
    <3>1. Calm  BY <1>1, <2>4 DEF Calm, Undisturbed
    <3>2. MediaHold  BY <1>0, <3>1 DEF CalmHolds
    <3>3. io.op = "write" => media[Target][Sector] = io.val  BY <1>3, <1>5, <2>0, <3>1
    <3>4. MediaHold'  BY <2>3, <2>4, <2>5, <3>1, <3>2, <3>3 DEF MediaHold
    <3>5. NvmeHolds'  BY <2>5 DEF NvmeHolds
    <3>6. AhciHolds'  BY <1>1, <1>3, <3>1 DEF AhciHolds
    <3>7. VirtioHolds'  BY <1>1, <1>3, <2>5, <3>1 DEF VirtioHolds
    <3> QED  BY <3>4, <3>5, <3>6, <3>7
  <2> QED  BY <2>5, <2>7, <2>8, <2>9, <2>10 DEF StorageInv
<1> QED  BY <1>4, <1>5

\* Every step keeps what holds of the disks.
LEMMA StorageSteps == ASSUME StorageInv, [StorageNext]_storageVars PROVE StorageInv'
<1>1. CASE UNCHANGED storageVars
  <2>1. UNCHANGED <<table, disk, nvme, ahci, virtio, media, allowed, io, tally>>  BY <1>1 DEF storageVars
  <2>2. FittingEntries' = FittingEntries  BY <2>1 DEF FittingEntries
  <2>3. StorageTypes'  BY <2>1 DEF StorageInv, StorageTypes
  <2>4. TableHolds'  BY <2>1, <2>2 DEF StorageInv, TableHolds
  <2>5. CallHolds'  BY <2>1 DEF StorageInv, CallHolds, Target, IsNvme
  <2>6. QueueHolds'
    BY <2>1 DEF StorageInv, QueueHolds, NvmeWaits, IsNvme, NvmeQuiet, NvmeIssued, NvmeDone, PhasesHold
  <2>7. CalmHolds'
    <3>1. Sector' = Sector /\ Target' = Target /\ IsNvme' = IsNvme  BY <2>1 DEF Sector, Target, IsNvme
    <3>2. Block(Sector)' = Block(Sector)  BY <2>1, <3>1 DEF Block
    <3>3. MediaHold' = MediaHold  BY <2>1, <3>1 DEF MediaHold
    <3>4. NvmeHolds' = NvmeHolds  BY <2>1, <3>1, <3>2 DEF NvmeHolds, NvmeIssued, NvmeDone, ScratchHolds, Held, Scratch
    <3>5. AhciHolds' = AhciHolds  BY <2>1 DEF AhciHolds
    <3>6. VirtioHolds' = VirtioHolds  BY <2>1, <3>1 DEF VirtioHolds
    <3> QED  BY <2>1, <3>3, <3>4, <3>5, <3>6 DEF StorageInv, CalmHolds, Calm, Undisturbed
  <2> QED  BY <2>3, <2>4, <2>5, <2>6, <2>7 DEF StorageInv
<1>2. CASE StorageNext
  BY <1>2, ScanKeeps, SelectKeeps, CallKeeps, IssueKeeps, PollKeeps, PatchKeeps, AhciIssueKeeps, AhciPollKeeps,
     VirtioIssueKeeps, VirtioPollKeeps, NvmeExecutesKeeps, AhciExecutesKeeps, VirtioExecutesKeeps, GiveUpKeeps
     DEF StorageNext, StorageDevices
<1> QED  BY <1>1, <1>2

\* What is read is what was written, as long as no poll gave up.
LEMMA StorageFollows == ASSUME StorageInv PROVE tally.late = 0 => StorageAgrees
<1> SUFFICES ASSUME tally.late = 0 PROVE StorageAgrees  OBVIOUS
<1>1. Undisturbed => MediaHold
  BY DEF StorageInv, CalmHolds, Calm
<1>2. QueueInStep
  <2> SUFFICES ASSUME io.step = "idle"
               PROVE  /\ nvme.cqHead = nvme.cqTail /\ nvme.phase = nvme.devPhase
                      /\ nvme.cq[nvme.cqHead].phase # nvme.phase
    BY DEF QueueInStep
  <2>1. NvmeQuiet /\ PhasesHold  BY DEF StorageInv, QueueHolds, NvmeWaits
  <2>2. nvme \in NvmeStates  BY DEF StorageInv, StorageTypes
  <2>3. nvme.cqTail \in QueueEnds /\ nvme.devPhase \in {0, 1}  BY <2>2 DEF NvmeStates
  <2>4. nvme.cq[nvme.cqTail].phase = IF nvme.cqTail < nvme.cqTail THEN nvme.devPhase ELSE 1 - nvme.devPhase
    BY <2>1, <2>3 DEF PhasesHold
  <2>5. ~(nvme.cqTail < nvme.cqTail)  BY <2>3, StorageAssumption DEF QueueEnds
  <2>6. nvme.cqHead = nvme.cqTail /\ nvme.phase = nvme.devPhase  BY <2>1 DEF NvmeQuiet
  <2> QED  BY ONLY <2>3, <2>4, <2>5, <2>6
<1> QED  BY <1>1, <1>2 DEF StorageAgrees, DiskAgrees, ReadsAgree, MediaHold

\* As long as every command was answered before its poll gave up, each disk holds what
\* storage_write reported and storage_read returns it, whichever of the disks is selected,
\* whichever commands fail, and also for the sectors that share a 4 KiB block with a
\* written one; and nvme_submit_sync looks for its completion where the controller posts
\* it, after any number of turns of both rings.  For every depth of the queue, every
\* number of sectors and of commands before their identifiers come round.
THEOREM DisksStayTrue == DevicesSpec => [](tally.late = 0 => StorageAgrees)
<1>1. DevicesInit => StorageInv  BY StorageStarts DEF DevicesInit
<1>2. StorageInv /\ [DevicesNext]_deviceVars => StorageInv'
  <2>1. [DevicesNext]_deviceVars => [StorageNext]_storageVars
    BY DEF DevicesNext, Radio, Usb, deviceVars
  <2> QED  BY <2>1, StorageSteps
<1> QED  BY <1>1, <1>2, StorageFollows, PTL DEF DevicesSpec
=============================================================================
