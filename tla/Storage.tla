------------------------------ MODULE Storage ------------------------------
(***************************************************************************)
(* Block storage, drivers/storage.c: the scan that fills the table of      *)
(* disks, the selected disk, and the three ways a call reaches the medium: *)
(* the NVMe queue pair with its phase bit and its 512-byte shim over 4 KiB *)
(* blocks, the AHCI command slot, and the virtio queue with its one        *)
(* request header.  Every call polls; a poll that gives up leaves its      *)
(* command with the device, which may still execute it.                    *)
(***************************************************************************)
EXTENDS Integers, Sequences, FiniteSets

CONSTANTS
  MaxDevices,  \* ORIZON_STORAGE_MAX_DEVICES
  Depth,       \* NVME_IO_QUEUE_DEPTH
  MaxCid,      \* command identifiers go round in 1..MaxCid
  Sectors,     \* sectors 0 .. Sectors - 1 of every unit
  Scale,       \* nvme_lba_scale of a 4 KiB namespace
  MaxCalls,    \* reads and writes
  MaxLate      \* polls that give up before the device is done

ASSUME StorageAssumption ==
  /\ MaxDevices \in Nat \ {0} /\ Depth \in Nat \ {0, 1} /\ MaxCid \in Nat \ {0}
  /\ Sectors \in Nat \ {0} /\ Scale \in Nat \ {0} /\ Sectors % Scale = 0
  /\ MaxCalls \in Nat /\ MaxLate \in Nat

VARIABLES
  table,   \* storage_devices: driver, unit and writable of each disk found
  disk,    \* storage_scanned, storage_selected_index, the unit behind the virtio globals
  nvme,    \* the I/O queue pair: both rings, the driver's and the device's ends
  ahci,    \* the command of each port that the port has not completed
  virtio,  \* the request header, requests made available and used
  media,   \* contents of each unit
  allowed, \* contents each sector may have, given what the calls reported
  io,      \* the call under way
  tally    \* calls made, polls that gave up, a command issued over an unfinished one

storageVars == <<table, disk, nvme, ahci, virtio, media, allowed, io, tally>>

Units == {"nvme", "sata1", "sata2", "vd1", "vd2"}
Drivers == {"nvme512", "nvme4k", "ahci", "virtio"}
Lbas == 0 .. Sectors - 1
NoIo == [step |-> "idle", op |-> "read", lba |-> 0, n |-> 0, val |-> 0, i |-> 0,
         unit |-> "nvme", cid |-> 0, used |-> 0]
-----------------------------------------------------------------------------
(* The scan, storage_init.                                                 *)

Entry(drv, unit, writable) == [driver |-> drv, unit |-> unit, writable |-> writable]

\* nvme_init_controller: the first controller whose namespace can be used; the
\* block size of the active format is 512 or 4096, others are refused.
NvmeDisks == {<<>>} \cup {<<Entry(d, "nvme", TRUE)>> : d \in {"nvme512", "nvme4k"}}

\* ahci_scan_controller: a disk for every port that identifies itself.
AhciDisks == {<<>>, <<Entry("ahci", "sata1", TRUE)>>,
              <<Entry("ahci", "sata1", TRUE), Entry("ahci", "sata2", TRUE)>>}

\* virtio_blk_init_modern: caps, features, queue and capacity, or no disk; the
\* device may be read-only (VIRTIO_BLK_F_RO).
VirtioDisk(unit) == {<<>>} \cup {<<Entry("virtio", unit, w)>> : w \in BOOLEAN}

\* virtio_blk_scan_controller, virtio_blk_init_one: the units there are, in order;
\* a legacy one is set up through I/O ports with the same outcome.
VirtioControllers == {{}, {"vd1"}, {"vd1", "vd2"}}

\* storage_add_device: what does not fit in the table is not added.
Added(found) == SubSeq(found, 1, IF Len(found) <= MaxDevices THEN Len(found) ELSE MaxDevices)

\* The globals of virtio (registers, queue) are those of the controller that was
\* set up last, whether it became a disk or not.
ScanDisks ==
  /\ ~disk.scanned
  /\ \E nv \in NvmeDisks, at \in AhciDisks, controllers \in VirtioControllers :
     \E v1 \in VirtioDisk("vd1"), v2 \in VirtioDisk("vd2") :
       /\ ("vd1" \notin controllers => v1 = <<>>) /\ ("vd2" \notin controllers => v2 = <<>>)
       /\ table' = Added(nv \o at \o v1 \o v2)
       /\ disk' = [scanned |-> TRUE, selected |-> IF table' = <<>> THEN 0 ELSE 1,
                   driver |-> IF table' = <<>> THEN "none" ELSE table'[1].driver,
                   port |-> IF table' = <<>> THEN "none" ELSE table'[1].unit,
                   virtioUnit |-> IF "vd2" \in controllers THEN "vd2" ELSE "vd1",
                   virtioDead |-> (IF "vd2" \in controllers THEN v2 ELSE v1) = <<>>,
                   controllers |-> Cardinality(controllers)]
  /\ UNCHANGED <<nvme, ahci, virtio, media, allowed, io, tally>>

\* storage_select_device: driver, port and size are those of the entry.
Selected(k) == [disk EXCEPT !.selected = k, !.driver = table[k].driver, !.port = table[k].unit]

SelectDevice ==
  /\ disk.scanned /\ io.step = "idle"
  /\ \E k \in DOMAIN table : k # disk.selected /\ disk' = Selected(k)
  /\ UNCHANGED <<table, nvme, ahci, virtio, media, allowed, io, tally>>
-----------------------------------------------------------------------------
(* Calls.                                                                  *)

\* The unit the registers in use belong to.
UnitInUse == IF disk.driver = "virtio" THEN disk.virtioUnit ELSE disk.port

Span(lba, n) == lba .. lba + n - 1

\* storage_read, storage_write: a read-only disk refuses writes.
Call(op, lba, n, val) ==
  /\ io.step = "idle" /\ disk.selected # 0 /\ tally.calls < MaxCalls
  /\ op = "write" => table[disk.selected].writable
  /\ io' = [NoIo EXCEPT !.step = "submit", !.op = op, !.lba = lba, !.n = n, !.val = val, !.unit = UnitInUse]
  /\ tally' = [tally EXCEPT !.calls = @ + 1]
  /\ allowed' = IF op = "read" THEN allowed
                ELSE [allowed EXCEPT ![table[disk.selected].unit] =
                        [s \in Lbas |-> @[s] \cup IF s \in Span(lba, n) THEN {val} ELSE {}]]
  /\ UNCHANGED <<table, disk, nvme, ahci, virtio, media>>

\* Every call that writes has a value of its own.
Calls ==
  \E op \in {"read", "write"}, lba \in Lbas, n \in {1, 2} :
    lba + n <= Sectors /\ Call(op, lba, n, IF op = "read" THEN 1 ELSE tally.calls + 1)

\* The call returns an error.
IoFailed == io' = NoIo /\ UNCHANGED allowed

\* The call returns success: what was written is there, and nothing older.
Succeeded ==
  /\ io' = NoIo
  /\ allowed' = IF io.op = "read" THEN allowed
                ELSE [allowed EXCEPT ![table[disk.selected].unit] =
                        [s \in Lbas |-> IF s \in Span(io.lba, io.n) THEN {io.val} ELSE @[s]]]

\* The commands of the call are done up to, not including, sector i.
DoneUpTo(i) ==
  IF i = io.n THEN Succeeded ELSE io' = [io EXCEPT !.step = "submit", !.i = i] /\ UNCHANGED allowed

\* A read hands over data of these sectors.
Misread(data) ==
  \E s \in DOMAIN data : data[s] \notin allowed[table[disk.selected].unit][s]

Sector == io.lba + io.i
-----------------------------------------------------------------------------
(* NVMe.                                                                   *)

IsNvme == disk.driver \in {"nvme512", "nvme4k"}

\* The sectors of the block a sector lies in.
Block(s) ==
  IF disk.driver = "nvme512" THEN {s} ELSE {t \in Lbas : t \div Scale = s \div Scale}

\* nvme_submit_sync, first half: the command at the tail, the doorbell.  A command
\* for a 4 KiB block points at nvme_lba_scratch, which has become `block'.
NvmeSubmit(op, data, block, step) ==
  /\ nvme' = [nvme EXCEPT !.sq[nvme.sqTail] =
                            [op |-> op, data |-> data, cid |-> nvme.cid,
                             from |-> IF disk.driver = "nvme4k" THEN "scratch" ELSE "caller"],
                          !.sqTail = (@ + 1) % Depth,
                          !.cid = (@ % MaxCid) + 1,
                          !.scratch = block]
  /\ io' = [io EXCEPT !.step = step, !.cid = nvme.cid]

\* nvme_io: a 4 KiB block is read before a sector of it is written.
FirstStep == IF io.op = "read" \/ disk.driver = "nvme4k" THEN "read" ELSE "write"

\* What the buffer holds of a sector; -1 stands for what was there before.
Scratch(s) == IF s \in DOMAIN nvme.scratch THEN nvme.scratch[s] ELSE -1

\* The scratch block with the caller's sector copied into it.
Patched == [s \in Block(Sector) |-> IF s = Sector THEN io.val ELSE Scratch(s)]

NvmeIssue ==
  /\ io.step = "submit" /\ IsNvme
  /\ IF FirstStep = "read" THEN NvmeSubmit("read", [s \in Block(Sector) |-> 0], nvme.scratch, "wait")
     ELSE NvmeSubmit("write", Patched, nvme.scratch, "waitwrite")
  /\ UNCHANGED <<table, disk, ahci, virtio, media, allowed, tally>>

\* What the device finds in the buffer of a write: the scratch block as it is now,
\* or the caller's sector, which is left alone also after a poll that gave up.
Held(c) == IF c.from = "scratch" THEN [s \in DOMAIN c.data |-> Scratch(s)] ELSE c.data

\* The device executes the next command and posts its completion.
NvmeExecutes ==
  LET c == nvme.sq[nvme.sqHead]
      last == nvme.cqTail + 1 = Depth
  IN  /\ nvme.sqHead # nvme.sqTail
      /\ \E ok \in BOOLEAN :
           /\ media' = IF ok /\ c.op = "write"
                       THEN [media EXCEPT !["nvme"] = [s \in Lbas |-> IF s \in DOMAIN c.data THEN Held(c)[s] ELSE @[s]]]
                       ELSE media
           /\ nvme' = [nvme EXCEPT !.sqHead = (@ + 1) % Depth,
                                   !.cq[nvme.cqTail] = [phase |-> nvme.devPhase, cid |-> c.cid, ok |-> ok],
                                   !.cqTail = (@ + 1) % Depth,
                                   !.devPhase = IF last THEN 1 - @ ELSE @,
                                   !.scratch = IF ok /\ c.op = "read"
                                               THEN [s \in DOMAIN c.data |-> media["nvme"][s]] ELSE @]
      /\ UNCHANGED <<table, disk, ahci, virtio, allowed, io, tally>>

\* The completion is consumed: the head, its phase, the doorbell.
Consumed ==
  [nvme EXCEPT !.cqHead = (@ + 1) % Depth,
               !.phase = IF nvme.cqHead + 1 = Depth THEN 1 - @ ELSE @]

\* Mutant: any completion is the command's.
AnyCid(e) == TRUE

OwnCid(e) == e.cid = io.cid

\* nvme_submit_sync, second half, and what nvme_io does next.
NvmePoll ==
  LET e == nvme.cq[nvme.cqHead]
  IN  /\ io.step \in {"wait", "waitwrite"} /\ IsNvme /\ e.phase = nvme.phase
      /\ CASE ~OwnCid(e) ->
               IoFailed /\ UNCHANGED <<nvme, tally>>
           [] OwnCid(e) /\ ~e.ok ->
               IoFailed /\ nvme' = Consumed /\ UNCHANGED tally
           [] OwnCid(e) /\ e.ok /\ io.step = "wait" /\ io.op = "write" ->
               /\ nvme' = Consumed
               /\ io' = [io EXCEPT !.step = "patch"]
               /\ UNCHANGED <<allowed, tally>>
           [] OwnCid(e) /\ e.ok /\ io.step = "wait" /\ io.op = "read" ->
               /\ nvme' = Consumed
               /\ tally' = [tally EXCEPT !.misread = @ \/ Misread([s \in {Sector} |-> Scratch(s)])]
               /\ DoneUpTo(io.i + 1)
           [] OwnCid(e) /\ e.ok /\ io.step = "waitwrite" ->
               nvme' = Consumed /\ DoneUpTo(io.i + 1) /\ UNCHANGED tally
      /\ UNCHANGED <<table, disk, ahci, virtio, media>>

\* The patched block goes back.
NvmePatch ==
  /\ io.step = "patch"
  /\ NvmeSubmit("write", Patched, Patched, "waitwrite")
  /\ UNCHANGED <<table, disk, ahci, virtio, media, allowed, tally>>
-----------------------------------------------------------------------------
(* AHCI: one command for the whole call; the tables are shared by the      *)
(* ports, so the buffer a port reads or writes is that of the last command.*)

AhciIssue ==
  /\ io.step = "submit" /\ disk.driver = "ahci"
  /\ IF ahci.busy[io.unit]
     THEN IoFailed /\ UNCHANGED <<ahci, tally>>
     ELSE /\ ahci' = [ahci EXCEPT !.busy[io.unit] = TRUE,
                                  !.cmd[io.unit] = [op |-> io.op, at |-> Span(io.lba, io.n)], !.val = io.val]
          /\ tally' = [tally EXCEPT !.exposed = @ \/ \E u \in DOMAIN ahci.busy : ahci.busy[u]]
          /\ io' = [io EXCEPT !.step = "wait"] /\ UNCHANGED allowed
  /\ UNCHANGED <<table, disk, nvme, virtio, media>>

\* The port completes its command, or stops at an error (PxIS.TFES): nothing
\* restarts it.
AhciExecutes ==
  \E u \in DOMAIN ahci.busy :
    /\ ahci.busy[u] /\ ~ahci.halted[u]
    /\ \E ok \in BOOLEAN :
         /\ media' = IF ok /\ ahci.cmd[u].op = "write"
                     THEN [media EXCEPT ![u] = [s \in Lbas |-> IF s \in ahci.cmd[u].at THEN ahci.val ELSE @[s]]]
                     ELSE media
         /\ ahci' = [ahci EXCEPT !.busy[u] = FALSE, !.halted[u] = ~ok]
    /\ UNCHANGED <<table, disk, nvme, virtio, allowed, io, tally>>

\* ahci_io: the bit of the slot is clear, or the error bit is set.
AhciPoll ==
  /\ io.step = "wait" /\ disk.driver = "ahci" /\ ~ahci.busy[io.unit]
  /\ IF ahci.halted[io.unit] THEN IoFailed /\ UNCHANGED tally
     ELSE /\ Succeeded
          /\ tally' = [tally EXCEPT !.misread = @ \/ (io.op = "read" /\
                        Misread([s \in Span(io.lba, io.n) |-> media[io.unit][s]]))]
  /\ UNCHANGED <<table, disk, nvme, ahci, virtio, media>>
-----------------------------------------------------------------------------
(* virtio-blk: one header, one status byte, one descriptor chain.          *)

VirtioIssue ==
  /\ io.step = "submit" /\ disk.driver = "virtio"
  /\ virtio' = [virtio EXCEPT !.avail = @ + 1, !.status = "pending",
                              !.op = io.op, !.at = Sector, !.val = io.val]
  /\ tally' = [tally EXCEPT !.exposed = @ \/ virtio.avail # virtio.used]
  /\ io' = [io EXCEPT !.step = "wait", !.used = virtio.used]
  /\ UNCHANGED <<table, disk, nvme, ahci, media, allowed>>

VirtioExecutes ==
  /\ virtio.used # virtio.avail /\ ~disk.virtioDead
  /\ \E ok \in BOOLEAN :
       /\ media' = IF ok /\ virtio.op = "write"
                   THEN [media EXCEPT ![disk.virtioUnit][virtio.at] = virtio.val] ELSE media
       /\ virtio' = [virtio EXCEPT !.used = @ + 1, !.status = IF ok THEN "ok" ELSE "error",
                                   !.data = media[disk.virtioUnit][virtio.at]]
  /\ UNCHANGED <<table, disk, nvme, ahci, allowed, io, tally>>

\* virtio_blk_io: the used index has moved.
VirtioPoll ==
  /\ io.step = "wait" /\ disk.driver = "virtio" /\ virtio.used # io.used
  /\ IF virtio.status # "ok" THEN IoFailed /\ UNCHANGED tally
     ELSE /\ DoneUpTo(io.i + 1)
          /\ tally' = [tally EXCEPT !.misread = @ \/ (io.op = "read" /\ Misread([s \in {Sector} |-> virtio.data]))]
  /\ UNCHANGED <<table, disk, nvme, ahci, virtio, media>>
-----------------------------------------------------------------------------
\* The device will never answer this command.
NeverAnswers ==
  \/ disk.driver = "virtio" /\ disk.virtioDead
  \/ disk.driver = "ahci" /\ ahci.halted[io.unit] /\ ahci.busy[io.unit]

\* A poll loop ends: the command stays with the device.
GiveUp ==
  /\ io.step \in {"wait", "waitwrite"}
  /\ IF NeverAnswers THEN UNCHANGED tally
     ELSE tally.late < MaxLate /\ tally' = [tally EXCEPT !.late = @ + 1]
  /\ IoFailed
  /\ UNCHANGED <<table, disk, nvme, ahci, virtio, media>>

StorageInit ==
  /\ table = <<>>
  /\ disk = [scanned |-> FALSE, selected |-> 0, driver |-> "none", port |-> "none",
             virtioUnit |-> "vd1", virtioDead |-> FALSE, controllers |-> 0]
  /\ nvme = [sq |-> [i \in 0 .. Depth - 1 |-> [op |-> "read", data |-> <<>>, cid |-> 0, from |-> "caller"]],
             sqTail |-> 0, sqHead |-> 0,
             cq |-> [i \in 0 .. Depth - 1 |-> [phase |-> 0, cid |-> 0, ok |-> TRUE]],
             cqHead |-> 0, phase |-> 1, cqTail |-> 0, devPhase |-> 1, cid |-> 1, scratch |-> <<>>]
  /\ ahci = [busy |-> [u \in {"sata1", "sata2"} |-> FALSE], halted |-> [u \in {"sata1", "sata2"} |-> FALSE],
             cmd |-> [u \in {"sata1", "sata2"} |-> [op |-> "read", at |-> {}]], val |-> 0]
  /\ virtio = [avail |-> 0, used |-> 0, status |-> "ok", op |-> "read", at |-> 0, val |-> 0, data |-> 0]
  /\ media = [u \in Units |-> [s \in Lbas |-> 0]]
  /\ allowed = [u \in Units |-> [s \in Lbas |-> {0}]]
  /\ io = NoIo
  /\ tally = [calls |-> 0, late |-> 0, exposed |-> FALSE, misread |-> FALSE]

StorageDevices == NvmeExecutes \/ AhciExecutes \/ VirtioExecutes

StorageNext ==
  \/ ScanDisks \/ SelectDevice \/ Calls
  \/ NvmeIssue \/ NvmePoll \/ NvmePatch
  \/ AhciIssue \/ AhciPoll
  \/ VirtioIssue \/ VirtioPoll
  \/ StorageDevices \/ GiveUp
-----------------------------------------------------------------------------
(* Properties.                                                             *)

\* Nothing was issued over a command the device still has, and there is one
\* virtio controller at most: its globals are those of the selected disk.
Undisturbed == ~tally.exposed /\ disk.controllers <= 1

\* The disk holds what the calls reported: the value of the last write that
\* succeeded, or that of a write since then that failed; sectors no call named
\* keep theirs, also those that share a 4 KiB block with one that was written.
DiskAgrees ==
  Undisturbed => \A u \in Units, s \in Lbas : media[u][s] \in allowed[u][s]

\* A read that succeeds returns such a value, also after a poll that gave up.
ReadsAgree == Undisturbed => ~tally.misread

\* Between calls, and as long as no poll gave up, the driver looks for the next
\* completion where the device will post it, with the phase it will have.
QueueInStep ==
  io.step = "idle" /\ tally.late = 0 =>
    nvme.cqHead = nvme.cqTail /\ nvme.phase = nvme.devPhase /\ nvme.cq[nvme.cqHead].phase # nvme.phase

\* What is read is what was written, also after timeouts and late completions.
StorageAgrees == DiskAgrees /\ ReadsAgree /\ QueueInStep
=============================================================================
