--------------------------- MODULE PersistProofs ---------------------------
(***************************************************************************)
(* Proofs about the snapshot store for every number of files, contents and *)
(* sequence bound, and for unreadable slots.                               *)
(***************************************************************************)
EXTENDS Persist, TLAPS

\* A nonempty set of valid slots has a newest one, and newer is what
\* persist_snapshot_is_newer says: the scan of the slots is well defined.
LEMMA NewestExists ==
  ASSUME TypeOK, NEW C, C \subseteq ValidSlots, C # {}
  PROVE  /\ Newest(C) \in C
         /\ \A t \in C \ {Newest(C)} : IsNewer(Newest(C), t)
<1>1. SlotIds = {0} \/ SlotIds = {0, 1}
  BY PersistAssumption DEF SlotIds
<1>2. \A s \in C : /\ s \in SlotIds
                   /\ disk[s].hdr.ver \in Int
                   /\ Sequence(s) \in Int
  <2> SUFFICES ASSUME NEW s \in C
               PROVE  /\ s \in SlotIds
                      /\ disk[s].hdr.ver \in Int
                      /\ Sequence(s) \in Int
    OBVIOUS
  <2>1. s \in SlotIds /\ Valid(s)
    BY DEF ValidSlots
  <2>2. disk[s].hdr \in Headers
    BY <2>1 DEF TypeOK, SlotStates, Valid
  <2> QED
    BY <2>1, <2>2, PersistAssumption DEF Headers, Sequence
<1>3. \E s \in C : \A t \in C \ {s} : IsNewer(s, t)
  BY <1>1, <1>2 DEF IsNewer
<1> QED
  BY <1>3 DEF Newest

-----------------------------------------------------------------------------
\* The inductive invariant.  Only the type invariant holds of a partition with
\* room for a single slot.
IInv ==
  /\ TypeOK
  /\ power = "off" => write = NoWrite
  /\ Slots = 2 => ActiveSlotValid /\ WriteInFlight

\* Metadata that tells the truth about the slot it calls active.
MetaTrue(m) == m.active >= 0 => Valid(m.active) /\ Sequence(m.active) = m.seq

LEMMA SeedType ==
  Seed \in Snapshot /\ NoMeta \in Metas /\ FreshMeta \in Metas
<1>1. Seed \in Snapshot
  BY PersistAssumption DEF Seed, WithDefaults, Snapshot
<1>2. NoMeta \in Metas /\ FreshMeta \in Metas
  BY PersistAssumption DEF NoMeta, FreshMeta, Metas
<1> QED
  BY <1>1, <1>2

LEMMA DefaultsType ==
  ASSUME NEW v \in Snapshot
  PROVE  WithDefaults(v) \in Snapshot
  BY PersistAssumption DEF WithDefaults, Snapshot

LEMMA SequenceType ==
  ASSUME TypeOK, NEW s \in ValidSlots
  PROVE  /\ s \in SlotIds
         /\ disk[s].hdr \in Headers
         /\ Sequence(s) \in 0..SeqMod-1
         /\ disk[s].body \in Snapshot
<1>1. s \in SlotIds /\ Valid(s)
  BY DEF ValidSlots
<1>2. disk[s].hdr \in Headers /\ disk[s].body \in Snapshot
  BY <1>1 DEF TypeOK, SlotStates, Valid
<1> QED
  BY <1>1, <1>2, PersistAssumption DEF Headers, Sequence

\* Metadata read from a valid slot is well typed and true.
LEMMA LoadedTrue ==
  ASSUME TypeOK, NEW s \in ValidSlots
  PROVE  Loaded(s) \in Metas /\ MetaTrue(Loaded(s))
<1>1. s \in SlotIds /\ Sequence(s) \in 0..SeqMod-1
  BY SequenceType
<1>2. Valid(s)
  BY DEF ValidSlots
<1> QED
  BY <1>1, <1>2 DEF Loaded, Metas, MetaTrue

LEMMA NextSequenceType ==
  ASSUME NEW m \in Metas
  PROVE  NextSequence(m) \in 0..SeqMod-1
<1>1. m.seq \in Nat /\ SeqMod \in Nat /\ SeqMod > 1
  BY PersistAssumption DEF Metas
<1>2. (m.seq + 1) % SeqMod \in 0..SeqMod-1
  BY <1>1
<1> QED
  BY <1>1, <1>2 DEF NextSequence

\* With two slots the slot a save writes is not the one it would fall back to.
LEMMA TargetSlotSpares ==
  ASSUME NEW m \in Metas
  PROVE  /\ TargetSlot(m) \in SlotIds
         /\ Slots = 2 => TargetSlot(m) # m.active
<1>1. m.active \in SlotIds \cup {-1}
  BY DEF Metas
<1> QED
  BY <1>1, PersistAssumption DEF TargetSlot, SlotIds

\* prepare_metadata keeps the metadata true: it keeps what the session has or
\* takes what the newest readable slot says.
LEMMA PreparedTrue ==
  ASSUME TypeOK, NEW m \in Metas, NEW unread
  PROVE  /\ Prepared(m, unread) \in Metas
         /\ MetaTrue(m) => MetaTrue(Prepared(m, unread))
<1>1. CASE m.ready
  BY <1>1 DEF Prepared
<1>2. CASE ~m.ready /\ ValidSlots \ unread # {}
  <2>1. Newest(ValidSlots \ unread) \in ValidSlots
    BY <1>2, NewestExists
  <2> QED
    BY <1>2, <2>1, LoadedTrue DEF Prepared
<1>3. CASE ~m.ready /\ ValidSlots \ unread = {}
  <2>1. Prepared(m, unread) = FreshMeta
    BY <1>3 DEF Prepared
  <2>2. FreshMeta \in Metas /\ MetaTrue(FreshMeta)
    BY SeedType DEF MetaTrue, FreshMeta
  <2> QED
    BY <2>1, <2>2
<1> QED
  BY <1>1, <1>2, <1>3

\* The sectors of the slot being written, as WriteInFlight describes them.
Progress(d, w) ==
  /\ w.next > 1 => d[w.slot].hdr = [ver |-> 2, seq |-> w.seq, sum |-> w.snap]
  /\ \A i \in 1..w.next-1 : d[w.slot].body[i] = w.snap[i]

\* What a call of vfs_persist_save leaves behind when it returns early or is
\* about to write its first sector.
LEMMA SaveKeeps ==
  ASSUME TypeOK, write = NoWrite,
         NEW v \in Snapshot, NEW m \in Metas, NEW base \in SUBSET Snapshot,
         Save(v, m, base), disk' = disk
  PROVE  /\ meta' \in Metas
         /\ write' \in Writes \cup {NoWrite}
         /\ pending' \in SUBSET Snapshot
         /\ MetaTrue(m) => ActiveSlotValid'
         /\ Slots = 2 /\ write' # NoWrite =>
              /\ write'.slot # meta'.active
              /\ Progress(disk', write')
<1>0. \A n \in Metas : (meta' = n /\ MetaTrue(n)) => ActiveSlotValid'
  BY DEF MetaTrue, ActiveSlotValid, Valid, Sequence
<1>1. CASE meta' = m /\ pending' = base /\ write' = write
  BY <1>0, <1>1
<1>2. CASE meta' = [m EXCEPT !.ready = FALSE] /\ pending' = base /\ write' = write
  <2> DEFINE n == [m EXCEPT !.ready = FALSE]
  <2>1. n \in Metas /\ n.active = m.active /\ n.seq = m.seq
    BY DEF Metas
  <2>2. MetaTrue(m) => MetaTrue(n)
    BY <2>1 DEF MetaTrue
  <2> QED
    BY <1>0, <1>2, <2>1, <2>2
<1>3. CASE \E unread \in Unreadable :
             LET p == Prepared(m, unread)
             IN  /\ meta' = p
                 /\ \/ /\ ~Fits(v)
                       /\ pending' = base
                       /\ UNCHANGED write
                    \/ /\ Fits(v)
                       /\ NextSequence(p) <= MaxSeq
                       /\ pending' = base \cup {v}
                       /\ write' = [slot |-> TargetSlot(p), seq |-> NextSequence(p),
                                    snap |-> v, next |-> 1]
  <2>1. PICK unread \in Unreadable :
             LET p == Prepared(m, unread)
             IN  /\ meta' = p
                 /\ \/ /\ ~Fits(v)
                       /\ pending' = base
                       /\ UNCHANGED write
                    \/ /\ Fits(v)
                       /\ NextSequence(p) <= MaxSeq
                       /\ pending' = base \cup {v}
                       /\ write' = [slot |-> TargetSlot(p), seq |-> NextSequence(p),
                                    snap |-> v, next |-> 1]
    BY <1>3
  <2> DEFINE p == Prepared(m, unread)
  <2>2. p \in Metas /\ (MetaTrue(m) => MetaTrue(p))
    BY PreparedTrue
  <2>3. meta' \in Metas /\ (MetaTrue(m) => ActiveSlotValid')
    BY <1>0, <2>1, <2>2
  <2>4. CASE UNCHANGED write /\ pending' = base
    BY <2>3, <2>4
  <2>5. CASE /\ pending' = base \cup {v}
             /\ write' = [slot |-> TargetSlot(p), seq |-> NextSequence(p),
                          snap |-> v, next |-> 1]
    <3>1. /\ TargetSlot(p) \in SlotIds
          /\ Slots = 2 => TargetSlot(p) # p.active
          /\ NextSequence(p) \in 0..SeqMod-1
      BY <2>2, TargetSlotSpares, NextSequenceType
    <3>2. write' \in Writes
      BY <2>5, <3>1, PersistAssumption DEF Writes
    <3>3. write'.slot = TargetSlot(p) /\ write'.next = 1
      BY <2>5
    <3>4. Progress(disk', write')
      BY <3>3 DEF Progress
    <3> QED
      BY <2>1, <2>3, <2>5, <3>1, <3>2, <3>3, <3>4
  <2> QED
    BY <2>1, <2>4, <2>5
<1> QED
  BY <1>1, <1>2, <1>3 DEF Save

\* An operation that ends in a save preserves the invariant.
LEMMA SaveStep ==
  ASSUME IInv, write = NoWrite,
         NEW v \in Snapshot, NEW m \in Metas, NEW base \in SUBSET Snapshot,
         Slots = 2 => MetaTrue(m),
         Save(v, m, base), disk' = disk, vfs' \in Snapshot,
         acked' \in Snapshot \cup {Nothing}, power' \in {"load", "tasks", "up"}
  PROVE  IInv'
<1>1. TypeOK
  BY DEF IInv
<1>2. /\ meta' \in Metas
      /\ write' \in Writes \cup {NoWrite}
      /\ pending' \in SUBSET Snapshot
      /\ MetaTrue(m) => ActiveSlotValid'
      /\ Slots = 2 /\ write' # NoWrite =>
           /\ write'.slot # meta'.active
           /\ Progress(disk', write')
  BY <1>1, SaveKeeps
<1>3. TypeOK'
  BY <1>1, <1>2 DEF TypeOK
<1>4. Slots = 2 => WriteInFlight'
  BY <1>2 DEF WriteInFlight, Progress
<1> QED
  BY <1>2, <1>3, <1>4 DEF IInv

\* An operation that leaves the disk alone and starts no write preserves the
\* invariant if its metadata is true.
LEMMA QuietStep ==
  ASSUME IInv, disk' = disk, write' = NoWrite, meta' \in Metas,
         Slots = 2 => MetaTrue(meta'), vfs' \in Snapshot,
         power' \in {"off", "load", "tasks", "up"},
         acked' \in Snapshot \cup {Nothing}, pending' \in SUBSET Snapshot
  PROVE  IInv'
  BY DEF IInv, TypeOK, ActiveSlotValid, MetaTrue, Valid, Sequence, WriteInFlight

\* Writing one sector of a save keeps the slots well typed and extends the
\* prefix already written; no other slot changes.
LEMMA SectorStep ==
  ASSUME TypeOK, write # NoWrite, write.next <= Sectors
  PROVE  /\ Written \in [SlotIds -> SlotStates]
         /\ \A s \in SlotIds \ {write.slot} : Written[s] = disk[s]
         /\ Progress(disk, write) =>
              Progress(Written, [write EXCEPT !.next = @ + 1])
<1>1. /\ write \in Writes /\ disk \in [SlotIds -> SlotStates]
      /\ disk[write.slot] \in SlotStates
  BY DEF TypeOK, Writes
<1>2. /\ write.slot \in SlotIds /\ write.seq \in 0..SeqMod-1
      /\ write.snap \in Snapshot /\ write.next \in Files
  BY <1>1, PersistAssumption DEF Writes, Files
<1>3. disk[write.slot].body \in Snapshot
      /\ disk[write.slot].hdr \in Headers \cup {NoHdr}
  BY <1>1 DEF SlotStates
<1> DEFINE new == PutSector(disk[write.slot], write)
<1>4. new.hdr \in Headers \cup {NoHdr} /\ new.body \in Snapshot
  <2>1. [ver |-> 2, seq |-> write.seq, sum |-> write.snap] \in Headers
    BY <1>2 DEF Headers
  <2>2. [disk[write.slot].body EXCEPT ![write.next] = write.snap[write.next]]
          \in Snapshot
    BY <1>2, <1>3 DEF Snapshot
  <2> QED
    BY <1>3, <2>1, <2>2 DEF PutSector
<1>5. new \in SlotStates
  BY <1>4 DEF PutSector, SlotStates
<1>6. Written = [disk EXCEPT ![write.slot] = new]
  BY DEF Written
<1>7. Written \in [SlotIds -> SlotStates] /\ Written[write.slot] = new
      /\ \A s \in SlotIds \ {write.slot} : Written[s] = disk[s]
  BY <1>1, <1>2, <1>5, <1>6
<1>8. ASSUME Progress(disk, write)
      PROVE  Progress(Written, [write EXCEPT !.next = @ + 1])
  <2> DEFINE w == [write EXCEPT !.next = @ + 1]
  <2>1. /\ w.slot = write.slot /\ w.seq = write.seq /\ w.snap = write.snap
        /\ w.next = write.next + 1
    BY <1>1 DEF Writes
  <2>2. new.hdr = [ver |-> 2, seq |-> write.seq, sum |-> write.snap]
    BY <1>2, <1>8 DEF PutSector, Progress, Files
  <2>3. ASSUME NEW i \in 1..write.next
        PROVE  new.body[i] = write.snap[i]
    <3>1. i \in Files
      BY <1>2, PersistAssumption DEF Files
    <3>2. new.body = [disk[write.slot].body EXCEPT ![write.next] = write.snap[write.next]]
      BY DEF PutSector
    <3>3. disk[write.slot].body \in [Files -> Contents \cup {Absent}]
      BY <1>3 DEF Snapshot
    <3>4. CASE i = write.next
      BY <3>1, <3>2, <3>3, <3>4
    <3>5. CASE i \in 1..write.next-1
      <4>1. disk[write.slot].body[i] = write.snap[i]
        BY <1>8, <3>5 DEF Progress
      <4>2. i # write.next
        BY <1>2, <3>5, PersistAssumption DEF Files
      <4> QED
        BY <3>1, <3>2, <3>3, <4>1, <4>2
    <3> QED
      BY <1>2, <3>4, <3>5, PersistAssumption DEF Files
  <2>4. w.next - 1 = write.next
    BY <1>2, <2>1, PersistAssumption DEF Files
  <2> QED
    BY <1>7, <2>1, <2>2, <2>3, <2>4 DEF Progress
<1> QED
  BY <1>7, <1>8

-----------------------------------------------------------------------------
(* Every step preserves the invariant. *)

LEMMA InitIInv == Init => IInv
<1> SUFFICES ASSUME Init PROVE IInv
  OBVIOUS
<1>1. EmptySlot \in SlotStates /\ LegacySlot \in SlotStates
  <2> DEFINE none == [f \in Files |-> Absent]
             dflt == [f \in Files |-> Default]
             hdr1 == [ver |-> 1, seq |-> 0, sum |-> dflt]
  <2>1. none \in Snapshot /\ dflt \in Snapshot
    BY PersistAssumption DEF Snapshot
  <2>2. hdr1 \in Headers
    BY <2>1, PersistAssumption DEF Headers
  <2> QED
    BY <2>1, <2>2 DEF EmptySlot, LegacySlot, SlotStates
<1>2. disk \in [SlotIds -> SlotStates]
  BY <1>1 DEF Init
<1>3. acked \in Snapshot \cup {Nothing}
  <2>1. CASE ValidSlots = {}
    BY <2>1 DEF Init, Stable
  <2>2. CASE ValidSlots # {}
    <3>1. \A s \in ValidSlots : disk[s].body \in Snapshot
      BY <1>2 DEF ValidSlots, SlotStates
    <3>2. \A s \in ValidSlots : s = 0
      BY DEF ValidSlots, Valid, Init, EmptySlot
    <3>3. \E s \in ValidSlots : \A t \in ValidSlots \ {s} : IsNewer(s, t)
      BY <2>2, <3>2
    <3>4. Newest(ValidSlots) \in ValidSlots
      BY <3>3 DEF Newest
    <3> QED
      BY <2>2, <3>1, <3>4 DEF Init, Stable
  <2> QED
    BY <2>1, <2>2
<1>4. TypeOK
  BY <1>2, <1>3, SeedType DEF Init, TypeOK
<1> QED
  BY <1>4 DEF Init, IInv, ActiveSlotValid, WriteInFlight, NoMeta

LEMMA WriteStep ==
  ASSUME IInv, WriteSector \/ WriteFails \/ SaveDone
  PROVE  IInv'
<1>0. TypeOK /\ write # NoWrite
  BY DEF IInv, WriteSector, WriteFails, SaveDone
<1>1. /\ write \in Writes /\ write.slot \in SlotIds
      /\ Slots = 2 => write.slot # meta.active /\ Progress(disk, write)
  BY <1>0 DEF IInv, TypeOK, Writes, WriteInFlight, Progress
<1>2. meta \in Metas /\ disk \in [SlotIds -> SlotStates]
  BY <1>0 DEF TypeOK
<1>3. ASSUME disk' = Written, UNCHANGED meta, write.next <= Sectors, Slots = 2
      PROVE  ActiveSlotValid'
  <2>1. meta.active >= 0 => disk'[meta.active] = disk[meta.active]
    BY <1>0, <1>1, <1>2, <1>3, SectorStep DEF Metas
  <2> QED
    BY <1>3, <2>1 DEF IInv, ActiveSlotValid, Valid, Sequence
<1>4. CASE WriteSector
  <2>1. /\ disk' = Written /\ write' = [write EXCEPT !.next = @ + 1]
        /\ write.next <= Sectors
        /\ UNCHANGED <<meta, vfs, power, acked, pending>>
    BY <1>4 DEF WriteSector
  <2>2. write' \in Writes
    BY <1>1, <2>1, PersistAssumption DEF Writes
  <2>3. TypeOK'
    BY <1>0, <2>1, <2>2, SectorStep DEF TypeOK
  <2>4. Slots = 2 => WriteInFlight'
    <3> SUFFICES ASSUME Slots = 2 PROVE WriteInFlight'
      OBVIOUS
    <3>1. Progress(disk', write')
      BY <1>0, <1>1, <2>1, SectorStep
    <3>2. write'.slot # meta'.active
      BY <1>1, <2>1 DEF Writes
    <3>3. power' # "off"
      BY <1>0, <2>1 DEF IInv, WriteInFlight
    <3> QED
      BY <3>1, <3>2, <3>3 DEF WriteInFlight, Progress
  <2>5. power' # "off"
    BY <1>0, <2>1 DEF IInv
  <2> QED
    BY <1>3, <2>1, <2>3, <2>4, <2>5 DEF IInv
<1>5. CASE WriteFails
  <2>1. /\ disk' \in {disk, Written} /\ write' = NoWrite
        /\ write.next <= Sectors
        /\ UNCHANGED <<meta, vfs, power, acked, pending>>
    BY <1>5 DEF WriteFails
  <2>2. TypeOK' /\ WriteInFlight'
    BY <1>0, <2>1, SectorStep DEF TypeOK, WriteInFlight
  <2>3. CASE disk' = disk
    BY <2>1, <2>2, <2>3 DEF IInv, ActiveSlotValid, Valid, Sequence
  <2>4. CASE disk' = Written
    BY <1>3, <2>1, <2>2, <2>4 DEF IInv
  <2> QED
    BY <2>1, <2>3, <2>4
<1>6. CASE SaveDone
  <2> DEFINE n == [meta EXCEPT !.active = write.slot, !.seq = write.seq]
  <2>1. /\ meta' = n /\ write' = NoWrite /\ write.next > Sectors
        /\ acked' = write.snap /\ pending' = {} /\ UNCHANGED <<disk, vfs, power>>
    BY <1>6 DEF SaveDone
  <2>2. n \in Metas /\ n.active = write.slot /\ n.seq = write.seq
    BY <1>1, <1>2 DEF Metas, Writes
  <2>3. Slots = 2 => MetaTrue(n)
    <3> SUFFICES ASSUME Slots = 2 PROVE MetaTrue(n)
      OBVIOUS
    <3>1. write.next = Sectors + 1 /\ write.snap \in Snapshot
      BY <1>1, <2>1, PersistAssumption DEF Writes
    <3>2. disk[write.slot].hdr = [ver |-> 2, seq |-> write.seq, sum |-> write.snap]
      BY <1>1, <3>1, PersistAssumption DEF Progress
    <3>3. \A i \in Files : disk[write.slot].body[i] = write.snap[i]
      BY <1>1, <3>1, PersistAssumption DEF Progress, Files
    <3>4. disk[write.slot].body \in Snapshot
      BY <1>1, <1>2 DEF SlotStates
    <3>5. disk[write.slot].body = write.snap
      BY <3>1, <3>3, <3>4 DEF Snapshot
    <3>6. disk[write.slot].hdr # NoHdr
      BY <3>2 DEF NoHdr
    <3> QED
      BY <2>2, <3>2, <3>5, <3>6 DEF MetaTrue, Valid, Sequence
  <2>4. vfs' \in Snapshot /\ power' \in {"off", "load", "tasks", "up"}
        /\ acked' \in Snapshot \cup {Nothing} /\ pending' \in SUBSET Snapshot
    BY <1>0, <1>1, <2>1 DEF TypeOK, Writes
  <2> QED
    BY <2>1, <2>2, <2>3, <2>4, QuietStep
<1> QED
  BY <1>4, <1>5, <1>6

LEMMA BootStep ==
  ASSUME IInv, Boot \/ SafeBoot
  PROVE  IInv'
<1>0. /\ TypeOK /\ disk' = disk /\ power' = "load" /\ write = NoWrite
  BY DEF IInv, Boot, SafeBoot
<1>1. MetaTrue(NoMeta) /\ MetaTrue(FreshMeta)
  BY DEF MetaTrue, NoMeta, FreshMeta
<1>2. CASE LoadUnavailable
  BY <1>0, <1>1, <1>2, SeedType, QuietStep DEF LoadUnavailable, TypeOK
<1>3. ASSUME NEW unread \in Unreadable, LoadNothing(ValidSlots \ unread)
      PROVE  IInv'
  <2>1. Save(Seed, FreshMeta, {}) /\ vfs' = Seed /\ acked' = Nothing
    BY <1>3 DEF LoadNothing
  <2> QED
    BY <1>0, <1>1, <2>1, SeedType, SaveStep
<1>4. ASSUME NEW unread \in Unreadable, LoadRereadFails(ValidSlots \ unread)
      PROVE  IInv'
  BY <1>0, <1>1, <1>4, SeedType, QuietStep DEF LoadRereadFails, TypeOK
<1>5. ASSUME NEW unread \in Unreadable, LoadNewest(ValidSlots \ unread)
      PROVE  IInv'
  <2> DEFINE s == Newest(ValidSlots \ unread)
             v == WithDefaults(disk[s].body)
  <2>1. s \in ValidSlots
    BY <1>0, <1>5, NewestExists DEF LoadNewest
  <2>2. disk[s].body \in Snapshot /\ v \in Snapshot
    BY <1>0, <2>1, SequenceType, DefaultsType
  <2>3. Loaded(s) \in Metas /\ MetaTrue(Loaded(s))
    BY <1>0, <2>1, LoadedTrue
  <2>4. vfs' = v /\ acked' = disk[s].body
    BY <1>5 DEF LoadNewest
  <2>5. CASE Save(v, Loaded(s), {})
    BY <1>0, <2>2, <2>3, <2>4, <2>5, SaveStep
  <2>6. CASE meta' = Loaded(s) /\ pending' = {} /\ UNCHANGED write
    BY <1>0, <2>2, <2>3, <2>4, <2>6, QuietStep
  <2> QED
    BY <1>5, <2>5, <2>6 DEF LoadNewest
<1> QED
  BY <1>2, <1>3, <1>4, <1>5 DEF Boot, SafeBoot

LEMMA CommandStep ==
  ASSUME IInv, write = NoWrite,
         \/ BootTasks \/ ShellReached \/ AutoSave \/ PersistSave
         \/ \E f \in Files, c \in Contents : WriteFile(f, c)
         \/ \E f \in Files : DeleteFile(f)
         \/ \E f, g \in Files : RenameFile(f, g)
         \/ \E s \in SlotIds : RestoreSlot(s)
         \/ RestorePrevious \/ LosePartition \/ Repair \/ EnableInstalled
  PROVE  IInv'
<1>0. /\ TypeOK /\ meta \in Metas /\ vfs \in Snapshot
      /\ pending \in SUBSET Snapshot /\ acked \in Snapshot \cup {Nothing}
  BY DEF IInv, TypeOK
<1>1. Slots = 2 => MetaTrue(meta)
  BY DEF IInv, ActiveSlotValid, MetaTrue
<1>2. /\ [meta EXCEPT !.ready = TRUE] \in Metas
      /\ Slots = 2 => MetaTrue([meta EXCEPT !.ready = TRUE])
  <2> DEFINE n == [meta EXCEPT !.ready = TRUE]
  <2>1. n \in Metas /\ n.active = meta.active /\ n.seq = meta.seq
    BY <1>0 DEF Metas
  <2> QED
    BY <1>1, <2>1 DEF MetaTrue
<1>21. /\ [meta EXCEPT !.ready = FALSE] \in Metas
       /\ Slots = 2 => MetaTrue([meta EXCEPT !.ready = FALSE])
  <2> DEFINE n == [meta EXCEPT !.ready = FALSE]
  <2>1. n \in Metas /\ n.active = meta.active /\ n.seq = meta.seq
    BY <1>0 DEF Metas
  <2> QED
    BY <1>1, <2>1 DEF MetaTrue
<1>22. /\ [meta EXCEPT !.ready = TRUE, !.active = -1] \in Metas
       /\ MetaTrue([meta EXCEPT !.ready = TRUE, !.active = -1])
  <2> DEFINE n == [meta EXCEPT !.ready = TRUE, !.active = -1]
  <2>1. n \in Metas /\ n.active = -1
    BY <1>0 DEF Metas
  <2> QED
    BY <2>1 DEF MetaTrue
<1>3. \A f \in Files, c \in Contents \cup {Absent} :
         [vfs EXCEPT ![f] = c] \in Snapshot
  BY <1>0 DEF Snapshot
<1>4. CASE BootTasks
  <2>0. PICK c \in Contents : vfs' = [vfs EXCEPT ![BootFile] = c]
    BY <1>4 DEF BootTasks
  <2>1. vfs' \in Snapshot
    BY <1>3, <2>0, PersistAssumption
  <2>2. /\ Save(vfs', meta, pending) /\ power' = "tasks"
        /\ disk' = disk /\ acked' = acked
    BY <1>4 DEF BootTasks
  <2> QED
    BY <1>0, <1>1, <2>1, <2>2, SaveStep
<1>5. CASE ShellReached
  BY <1>0, <1>1, <1>5, QuietStep DEF ShellReached
<1>6. CASE AutoSave \/ PersistSave
  <2>1. /\ Save(vfs, meta, pending) /\ power' = "up"
        /\ disk' = disk /\ acked' = acked /\ vfs' = vfs
    BY <1>6 DEF AutoSave, PersistSave, Idle
  <2> QED
    BY <1>0, <1>1, <2>1, SaveStep
<1>7. CASE \E f \in Files, c \in Contents : WriteFile(f, c)
  BY <1>0, <1>1, <1>3, <1>7, QuietStep DEF WriteFile, Idle
<1>8. CASE \E f \in Files : DeleteFile(f)
  <2>1. PICK f \in Files : DeleteFile(f)
    BY <1>8
  <2>2. vfs' \in Snapshot
    BY <1>3, <2>1 DEF DeleteFile
  <2>3. /\ Save(vfs', meta, pending) /\ power' = "up"
        /\ disk' = disk /\ acked' = acked
    BY <2>1 DEF DeleteFile, Idle
  <2> QED
    BY <1>0, <1>1, <2>2, <2>3, SaveStep
<1>9. CASE \E f, g \in Files : RenameFile(f, g)
  <2>1. PICK f \in Files, g \in Files : RenameFile(f, g)
    BY <1>9
  <2>2. vfs' \in Snapshot
    <3>1. vfs[f] \in Contents \cup {Absent}
      BY <1>0 DEF Snapshot
    <3> QED
      BY <1>0, <2>1, <3>1 DEF RenameFile, Snapshot
  <2>3. /\ Save(vfs', meta, pending) /\ power' = "up"
        /\ disk' = disk /\ acked' = acked
    BY <2>1 DEF RenameFile, Idle
  <2> QED
    BY <1>0, <1>1, <2>2, <2>3, SaveStep
<1>10. ASSUME NEW s \in SlotIds, RestoreSlot(s)
       PROVE  IInv'
  <2>1. s \in ValidSlots
    BY <1>10 DEF RestoreSlot, ValidSlots
  <2>2. disk[s].body \in Snapshot /\ WithDefaults(disk[s].body) \in Snapshot
    BY <1>0, <2>1, SequenceType, DefaultsType
  <2>3. Loaded(s) \in Metas /\ MetaTrue(Loaded(s))
    BY <1>0, <2>1, LoadedTrue
  <2>4. /\ vfs' = WithDefaults(disk[s].body)
        /\ Save(vfs', Loaded(s), pending \cup {disk[s].body})
        /\ disk' = disk /\ acked' = acked /\ power' = "up"
    BY <1>10 DEF RestoreSlot, Idle
  <2>5. pending \cup {disk[s].body} \in SUBSET Snapshot
    BY <1>0, <2>2
  <2> QED
    BY <1>0, <2>2, <2>3, <2>4, <2>5, SaveStep
<1>11. CASE RestorePrevious
  <2>1. PICK unread \in Unreadable :
          LET C == ValidSlots \ (unread \cup {meta.active})
          IN  C # {} /\ RestoreSlot(Newest(C))
    BY <1>11 DEF RestorePrevious
  <2>2. Newest(ValidSlots \ (unread \cup {meta.active})) \in SlotIds
    BY <1>0, <2>1, NewestExists DEF ValidSlots
  <2> QED
    BY <1>10, <2>1, <2>2
<1>12. CASE LosePartition
  BY <1>0, <1>21, <1>12, QuietStep DEF LosePartition, Idle
<1>13. CASE Repair
  <2>1. /\ Save(vfs, [meta EXCEPT !.ready = TRUE], pending) /\ power' = "up"
        /\ disk' = disk /\ acked' = acked /\ vfs' = vfs
    BY <1>13 DEF Repair, Idle
  <2> QED
    BY <1>0, <1>2, <2>1, SaveStep
<1>14. CASE EnableInstalled
  BY <1>0, <1>22, <1>14, QuietStep DEF EnableInstalled, Idle
<1> QED
  BY <1>4, <1>5, <1>6, <1>7, <1>8, <1>9, <1>10, <1>11, <1>12, <1>13, <1>14

LEMMA NextIInv == IInv /\ [Next]_vars => IInv'
<1> SUFFICES ASSUME IInv, [Next]_vars PROVE IInv'
  OBVIOUS
<1>1. CASE WriteSector \/ WriteFails \/ SaveDone
  BY <1>1, WriteStep
<1>2. CASE Boot \/ SafeBoot
  BY <1>2, BootStep
<1>3. CASE Crash
  <2>1. TypeOK /\ MetaTrue(NoMeta)
    BY DEF IInv, MetaTrue, NoMeta
  <2> QED
    BY <1>3, <2>1, SeedType, QuietStep DEF Crash, TypeOK
<1>4. CASE \/ BootTasks \/ ShellReached \/ AutoSave \/ PersistSave
           \/ \E f \in Files, c \in Contents : WriteFile(f, c)
           \/ \E f \in Files : DeleteFile(f)
           \/ \E f, g \in Files : RenameFile(f, g)
           \/ \E s \in SlotIds : RestoreSlot(s)
           \/ RestorePrevious \/ LosePartition \/ Repair \/ EnableInstalled
  <2>1. write = NoWrite
    BY <1>4 DEF BootTasks, ShellReached, AutoSave, PersistSave, WriteFile,
                DeleteFile, RenameFile, RestoreSlot, RestorePrevious,
                LosePartition, Repair, EnableInstalled, Idle
  <2> QED
    BY <1>4, <2>1, CommandStep
<1>5. CASE UNCHANGED vars
  BY <1>5 DEF vars, IInv, TypeOK, ActiveSlotValid, WriteInFlight, Valid, Sequence
<1> QED
  BY <1>1, <1>2, <1>3, <1>4, <1>5 DEF Next, Session

\* The invariant holds in every state of every session, with unreadable slots,
\* failed writes and crashes at any point.
THEOREM Invariance == Spec => []IInv
  BY InitIInv, NextIInv, PTL DEF Spec

\* Type correctness of the snapshot store, for partitions of one or two slots.
THEOREM TypeCorrect == Spec => []TypeOK
<1>1. IInv => TypeOK
  BY DEF IInv
<1> QED
  BY <1>1, Invariance, PTL

\* With two slots the active slot is a valid snapshot with the sequence number
\* the session remembers (persist_active_slot, persist_sequence in vfs.c), for
\* every number of sectors, every crash point and every failed read or write.
THEOREM ActiveSlotIsValid ==
  ASSUME Slots = 2
  PROVE  Spec => []ActiveSlotValid
<1>1. IInv => ActiveSlotValid
  BY DEF IInv
<1> QED
  BY <1>1, Invariance, PTL

\* With two slots a save under way (vfs_persist_save) aims at a slot that is not
\* active and has put down its header and a prefix of its sectors, at every
\* point where power may fail.
THEOREM WritesAreInPlace ==
  ASSUME Slots = 2
  PROVE  Spec => []WriteInFlight
<1>1. IInv => WriteInFlight
  BY DEF IInv
<1> QED
  BY <1>1, Invariance, PTL

\* With two slots no step of any operation writes a sector of the active slot
\* (vfs_persist_save writes the slot after it): an interrupted save, restore or
\* repair never damages the snapshot the session started from.
THEOREM ActiveSlotIsUntouched ==
  ASSUME Slots = 2
  PROVE  Spec => ActiveSlotUntouched
<1>1. ASSUME IInv, [Next]_vars
      PROVE  meta.active >= 0 => (disk'[meta.active] = disk[meta.active])
  <2>1. TypeOK
    BY <1>1 DEF IInv
  <2>2. CASE disk' = disk
    BY <2>2
  <2>3. CASE disk' # disk
    <3>1. /\ write # NoWrite /\ write.next <= Sectors /\ disk' = Written
      BY <1>1, <2>3
         DEF Next, Session, vars, WriteSector, WriteFails, SaveDone, BootTasks,
             ShellReached, Crash, WriteFile, AutoSave, DeleteFile, RenameFile,
             PersistSave, RestoreSlot, RestorePrevious, LosePartition, Boot,
             SafeBoot, Repair, EnableInstalled
    <3>2. write.slot # meta.active /\ meta.active \in SlotIds \cup {-1}
      BY <1>1, <2>1, <3>1 DEF IInv, WriteInFlight, TypeOK, Metas
    <3> QED
      BY <2>1, <3>1, <3>2, SectorStep
  <2> QED
    BY <2>2, <2>3
<1> QED
  BY <1>1, Invariance, PTL DEF Spec, ActiveSlotUntouched
=============================================================================
