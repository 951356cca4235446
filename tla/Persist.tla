------------------------------ MODULE Persist ------------------------------
(***************************************************************************)
(* The snapshot store of kernel/fs/vfs.c: the persistent roots are written *)
(* as one snapshot to alternating slots of the Orizon data partition, one  *)
(* sector at a time and header first, and loaded back at boot from the     *)
(* newest slot whose checksum matches.  Power may fail between any two     *)
(* sector writes, a sector write may fail, and every operation may find    *)
(* the disk or its partition table unreadable.                             *)
(*                                                                         *)
(* A snapshot is a function from files to contents; each file fills one    *)
(* sector, file 1 shares its sector with the header.  The checksum is      *)
(* taken to be collision free and a single sector write to be atomic.      *)
(***************************************************************************)
EXTENDS Integers, FiniteSets

CONSTANTS Slots,         \* persist_slots_available
          Sectors,       \* sectors of a snapshot, one file in each
          SeqMod,        \* persist_sequence is a uint32_t: 2^32
          Contents,      \* what a file may hold
          Oversize,      \* contents that do not fit a slot's PERSIST_BYTES
          Absent,        \* the file does not exist
          Default,       \* text the kernel writes to a missing default file
          DefaultFiles,  \* files recreated when a load leaves them missing
          BootFile,      \* a file the boot tasks rewrite (/system/boot-state)
          Nothing,       \* no snapshot at all
          ReadErrors,    \* may reading a slot fail?
          MaxSeq         \* bound: no save is begun beyond this sequence

Files    == 1..Sectors
SlotIds  == 0..Slots-1
Snapshot == [Files -> Contents \cup {Absent}]

ASSUME PersistAssumption ==
  /\ Slots \in {1, 2}
  /\ Sectors \in Nat \ {0}
  /\ SeqMod \in Nat \ {0, 1}
  /\ Oversize \subseteq Contents
  /\ Absent \notin Contents
  /\ Nothing \notin Snapshot
  /\ Default \in Contents
  /\ DefaultFiles \subseteq Files
  /\ BootFile \in Files
  /\ ReadErrors \in BOOLEAN
  /\ MaxSeq \in Nat

NoHdr   == [ver |-> 0]
NoWrite == [slot |-> -1]

Headers    == [ver : {1, 2}, seq : 0..SeqMod-1, sum : Snapshot]
SlotStates == [hdr : Headers \cup {NoHdr}, body : Snapshot]
Metas      == [ready : BOOLEAN, active : SlotIds \cup {-1}, seq : 0..SeqMod-1]
Writes     == [slot : SlotIds, seq : 0..SeqMod-1, snap : Snapshot,
               next : 1..Sectors+1]

VARIABLES disk,     \* the slots of the data partition
          meta,     \* persist_ready, persist_active_slot, persist_sequence
          vfs,      \* the persistent roots in memory
          write,    \* the persist_storage_write in progress
          power,    \* "off", booting ("load", then "tasks"), or "up"
          acked,    \* history: the last snapshot acknowledged or loaded
          pending   \* history: snapshots submitted since, outcome unknown

vars == <<disk, meta, vfs, write, power, acked, pending>>

-----------------------------------------------------------------------------
(* Snapshots on the medium *)

\* Mutant: the header is believed without its checksum.
ValidUnchecked(s) == disk[s].hdr # NoHdr

Valid(s) == disk[s].hdr # NoHdr /\ disk[s].hdr.sum = disk[s].body

\* A version 1 header carries no sequence number.
Sequence(s) == IF disk[s].hdr.ver = 2 THEN disk[s].hdr.seq ELSE 0

\* persist_snapshot_is_newer: version, then sequence, then the lower slot.
IsNewer(s, t) ==
  \/ disk[s].hdr.ver > disk[t].hdr.ver
  \/ /\ disk[s].hdr.ver = disk[t].hdr.ver
     /\ \/ Sequence(s) > Sequence(t)
        \/ Sequence(s) = Sequence(t) /\ s < t

Newest(C) == CHOOSE s \in C : \A t \in C \ {s} : IsNewer(s, t)

ValidSlots == {s \in SlotIds : Valid(s)}

\* The slots one scan fails to read.
Unreadable == IF ReadErrors THEN SUBSET SlotIds ELSE {{}}

Stable == IF ValidSlots = {} THEN Nothing ELSE disk[Newest(ValidSlots)].body

WithDefaults(v) ==
  [f \in Files |-> IF f \in DefaultFiles /\ v[f] = Absent THEN Default ELSE v[f]]

Seed == WithDefaults([f \in Files |-> Absent])

-----------------------------------------------------------------------------
(* vfs_persist_save *)

NoMeta    == [ready |-> FALSE, active |-> -1, seq |-> 0]
FreshMeta == [ready |-> TRUE,  active |-> -1, seq |-> 0]

Loaded(s) == [ready |-> TRUE, active |-> s, seq |-> Sequence(s)]

\* Mutant: the session is marked ready without looking at the slots.
PreparedBlindly(m, unread) == [m EXCEPT !.ready = TRUE]

\* persist_prepare_metadata_for_save, when the session has no metadata yet.
Prepared(m, unread) ==
  LET C == ValidSlots \ unread
  IN  IF m.ready THEN m
      ELSE IF C # {} THEN Loaded(Newest(C))
      ELSE FreshMeta

\* Mutant: the slots do not alternate.
TargetSlotFirst(m) == 0

TargetSlot(m) ==
  IF Slots > 1 /\ m.active >= 0 THEN (m.active + 1) % Slots ELSE 0

NextSequence(m) ==
  LET n == (m.seq + 1) % SeqMod IN IF n = 0 THEN 1 ELSE n

Fits(v) == \A f \in Files : v[f] \notin Oversize

\* Save the roots v of a session whose metadata is m, when base is already
\* pending.  The disjuncts are the returns of vfs_persist_save: no storage, no
\* data partition, snapshot full, or the start of the write.
Save(v, m, base) ==
  \/ /\ meta' = m
     /\ pending' = base
     /\ UNCHANGED write
  \/ /\ meta' = [m EXCEPT !.ready = FALSE]
     /\ pending' = base
     /\ UNCHANGED write
  \/ \E unread \in Unreadable :
       LET p == Prepared(m, unread)
       IN  /\ meta' = p
           /\ \/ /\ ~Fits(v)
                 /\ pending' = base
                 /\ UNCHANGED write
              \/ /\ Fits(v)
                 /\ NextSequence(p) <= MaxSeq
                 /\ pending' = base \cup {v}
                 /\ write' = [slot |-> TargetSlot(p), seq |-> NextSequence(p),
                              snap |-> v, next |-> 1]

PutSector(slot, w) ==
  [hdr  |-> IF w.next = 1 THEN [ver |-> 2, seq |-> w.seq, sum |-> w.snap]
                          ELSE slot.hdr,
   body |-> [slot.body EXCEPT ![w.next] = w.snap[w.next]]]

Written == [disk EXCEPT ![write.slot] = PutSector(@, write)]

WriteSector ==
  /\ write # NoWrite
  /\ write.next <= Sectors
  /\ disk' = Written
  /\ write' = [write EXCEPT !.next = @ + 1]
  /\ UNCHANGED <<meta, vfs, power, acked, pending>>

\* storage_write reports an error; the sector may have been written.
WriteFails ==
  /\ write # NoWrite
  /\ write.next <= Sectors
  /\ disk' \in {disk, Written}
  /\ write' = NoWrite
  /\ UNCHANGED <<meta, vfs, power, acked, pending>>

SaveDone ==
  /\ write # NoWrite
  /\ write.next > Sectors
  /\ meta' = [meta EXCEPT !.active = write.slot, !.seq = write.seq]
  /\ write' = NoWrite
  /\ acked' = write.snap
  /\ pending' = {}
  /\ UNCHANGED <<disk, vfs, power>>

-----------------------------------------------------------------------------
(* Boot: vfs_seed_content, then vfs_persist_load unless the command line    *)
(* has orizon.safe=1, then the boot tasks, which end in a save.             *)

LoadUnavailable ==
  /\ meta' = NoMeta
  /\ vfs' = Seed
  /\ UNCHANGED <<write, acked, pending>>

\* No readable valid slot: the seed contents become the first snapshot.
LoadNothing(C) ==
  /\ C = {}
  /\ vfs' = Seed
  /\ acked' = Nothing
  /\ Save(Seed, FreshMeta, {})

\* The selected slot is read a second time; that read fails.
LoadRereadFails(C) ==
  /\ C # {}
  /\ ReadErrors
  /\ meta' = FreshMeta
  /\ vfs' = Seed
  /\ UNCHANGED <<write, acked, pending>>

\* A version 1 snapshot is saved again at once, in the current format.
LoadNewest(C) ==
  /\ C # {}
  /\ LET s == Newest(C)
         v == WithDefaults(disk[s].body)
     IN  /\ vfs' = v
         /\ acked' = disk[s].body
         /\ \/ /\ disk[s].hdr.ver = 1
               /\ Save(v, Loaded(s), {})
            \/ /\ disk[s].hdr.ver = 2
               /\ meta' = Loaded(s)
               /\ pending' = {}
               /\ UNCHANGED write

Boot ==
  /\ power = "off"
  /\ power' = "load"
  /\ \/ LoadUnavailable
     \/ \E unread \in Unreadable :
          LET C == ValidSlots \ unread
          IN  LoadNothing(C) \/ LoadRereadFails(C) \/ LoadNewest(C)
  /\ UNCHANGED disk

\* orizon.safe=1, which the default entry of every Limine configuration in
\* the repository passes: the load is skipped.
SafeBoot ==
  /\ power = "off"
  /\ power' = "load"
  /\ LoadUnavailable
  /\ UNCHANGED disk

\* orizon_system_run_boot_tasks rewrites its state files and saves, whether or
\* not a load took place.
BootTasks ==
  /\ power = "load"
  /\ write = NoWrite
  /\ power' = "tasks"
  /\ \E c \in Contents \ Oversize : vfs' = [vfs EXCEPT ![BootFile] = c]
  /\ Save(vfs', meta, pending)
  /\ UNCHANGED <<disk, acked>>

\* The rest of gui_run_deferred_core_services; the shell takes commands.
ShellReached ==
  /\ power = "tasks"
  /\ write = NoWrite
  /\ power' = "up"
  /\ UNCHANGED <<disk, meta, vfs, write, acked, pending>>

\* Power fails, or the machine is switched off or reset.
Crash ==
  /\ power # "off"
  /\ power' = "off"
  /\ meta' = NoMeta
  /\ vfs' = Seed
  /\ write' = NoWrite
  /\ UNCHANGED <<disk, acked, pending>>

-----------------------------------------------------------------------------
(* The running system.  One thread runs every command to its end, so none   *)
(* starts while a write is in progress.                                     *)

Idle == power = "up" /\ write = NoWrite

\* vfs_write through an open handle: memory only.
WriteFile(f, c) ==
  /\ Idle
  /\ vfs' = [vfs EXCEPT ![f] = c]
  /\ UNCHANGED <<disk, meta, write, power, acked, pending>>

\* vfs_close, vfs_create, vfs_mkdir: maybe_persist_path.
AutoSave ==
  /\ Idle
  /\ meta.ready
  /\ Save(vfs, meta, pending)
  /\ UNCHANGED <<disk, vfs, power, acked>>

\* vfs_delete saves even when the session never loaded; so does vfs_rename.
DeleteFile(f) ==
  /\ Idle
  /\ vfs[f] # Absent
  /\ vfs' = [vfs EXCEPT ![f] = Absent]
  /\ Save(vfs', meta, pending)
  /\ UNCHANGED <<disk, power, acked>>

RenameFile(f, g) ==
  /\ Idle
  /\ vfs[f] # Absent
  /\ vfs[g] = Absent
  /\ vfs' = [vfs EXCEPT ![f] = Absent, ![g] = vfs[f]]
  /\ Save(vfs', meta, pending)
  /\ UNCHANGED <<disk, power, acked>>

\* `persist save`, `sync`, reboot and shutdown.
PersistSave ==
  /\ Idle
  /\ Save(vfs, meta, pending)
  /\ UNCHANGED <<disk, vfs, power, acked>>

\* `persist restore slot n`.  The early returns that leave the metadata alone
\* are stutters; the two that clear persist_ready are LosePartition.
RestoreSlot(s) ==
  /\ Idle
  /\ Valid(s)
  /\ vfs' = WithDefaults(disk[s].body)
  /\ Save(vfs', Loaded(s), pending \cup {disk[s].body})
  /\ UNCHANGED <<disk, power, acked>>

\* `persist restore previous`: the newest valid slot that is not active.
RestorePrevious ==
  \E unread \in Unreadable :
    LET C == ValidSlots \ (unread \cup {meta.active})
    IN  C # {} /\ RestoreSlot(Newest(C))

\* `persist repair` sets persist_ready and saves without preparing metadata.
Repair ==
  /\ Idle
  /\ Save(vfs, [meta EXCEPT !.ready = TRUE], pending)
  /\ UNCHANGED <<disk, vfs, power, acked>>

\* vfs_persist_enable_installed, at the end of an installation.
EnableInstalled ==
  /\ Idle
  /\ meta' = [meta EXCEPT !.ready = TRUE, !.active = -1]
  /\ UNCHANGED <<disk, vfs, write, power, acked, pending>>

\* restore, repair and enable_installed when the disk or its partition table
\* cannot be read.
LosePartition ==
  /\ Idle
  /\ meta' = [meta EXCEPT !.ready = FALSE]
  /\ UNCHANGED <<disk, vfs, write, power, acked, pending>>

-----------------------------------------------------------------------------
EmptySlot == [hdr |-> NoHdr, body |-> [f \in Files |-> Absent]]

LegacySlot ==
  LET v == [f \in Files |-> Default]
  IN  [hdr |-> [ver |-> 1, seq |-> 0, sum |-> v], body |-> v]

\* A fresh partition, or one an older kernel left a version 1 snapshot on.
Init ==
  /\ \E first \in {EmptySlot, LegacySlot} :
       disk = [s \in SlotIds |-> IF s = 0 THEN first ELSE EmptySlot]
  /\ meta = NoMeta
  /\ vfs = Seed
  /\ write = NoWrite
  /\ power = "off"
  /\ acked = Stable
  /\ pending = {}

\* The steps every session takes.
Session ==
  \/ WriteSector \/ WriteFails \/ SaveDone
  \/ BootTasks \/ ShellReached \/ Crash
  \/ \E f \in Files, c \in Contents : WriteFile(f, c)
  \/ AutoSave
  \/ \E f \in Files : DeleteFile(f)
  \/ \E f, g \in Files : RenameFile(f, g)
  \/ PersistSave
  \/ \E s \in SlotIds : RestoreSlot(s)
  \/ RestorePrevious
  \/ LosePartition

\* Sessions whose metadata comes from the slots.  The shell offers repair at any
\* time; in a session that never loaded it numbers its snapshot from 1, which
\* the next load may find older than what is there.
NextPrepared == Session \/ Boot \/ SafeBoot \/ (meta.ready /\ Repair)

Next == Session \/ Boot \/ SafeBoot \/ Repair \/ EnableInstalled

\* The installed disk as it boots unattended.
NextDefaultEntry == Session \/ SafeBoot

Spec             == Init /\ [][Next]_vars
SpecDefaultEntry == Init /\ [][NextDefaultEntry]_vars /\ WF_vars(NextDefaultEntry)

-----------------------------------------------------------------------------
(* Properties *)

\* Every variable holds a value of its type: slots carry a header or none, the
\* write in progress names a slot and the next sector, the metadata a slot.
TypeOK ==
  /\ disk \in [SlotIds -> SlotStates]
  /\ meta \in Metas
  /\ vfs \in Snapshot
  /\ write \in Writes \cup {NoWrite}
  /\ power \in {"off", "load", "tasks", "up"}
  /\ acked \in Snapshot \cup {Nothing}
  /\ pending \subseteq Snapshot

\* With two slots the slot persist_active_slot names always holds a snapshot
\* that passes its checksum and carries persist_sequence, whatever failed,
\* crashed or was restored: the place a session falls back to is real.
ActiveSlotValid ==
  meta.active >= 0 => Valid(meta.active) /\ Sequence(meta.active) = meta.seq

\* With two slots no sector of the slot the session runs from is overwritten
\* while that slot stays the active one: a save, a restore or a repair that is
\* cut short leaves the previous snapshot restorable.
ActiveSlotUntouched ==
  [][meta.active >= 0 => (disk'[meta.active] = disk[meta.active])]_vars

\* What makes ActiveSlotValid inductive: a write in progress is not aimed at
\* the active slot, has put down the new header first and then a prefix of the
\* snapshot's sectors, and only a running machine writes.
WriteInFlight ==
  /\ power = "off" => write = NoWrite
  /\ write # NoWrite =>
       /\ write.slot # meta.active
       /\ write.next > 1 =>
            disk[write.slot].hdr = [ver |-> 2, seq |-> write.seq, sum |-> write.snap]
       /\ \A i \in 1..write.next-1 : disk[write.slot].body[i] = write.snap[i]

\* A load that reads the disk now gets the last acknowledged snapshot or one
\* submitted after it, never a torn mixture and never an older snapshot, and
\* exactly the acknowledged one when no save is outstanding: the invariant
\* behind the two-slot, header-first, checksummed format.
NewestIsRecoverable == Stable \in {acked} \cup pending

\* The abstract store: what a load would find is the stable snapshot.
Durable == INSTANCE DurableRoots WITH stable <- Stable

\* The boot sequence by itself, before the shell is reached, does not change
\* an acknowledged file other than the one the boot tasks own; the installed
\* marker /workspace/.orizon/installed is such a file.
BootKeepsFiles ==
  [][(power \in {"load", "tasks"} /\ acked # Nothing)
       => (\A f \in Files \ {BootFile} : acked'[f] = acked[f])]_vars
=============================================================================
