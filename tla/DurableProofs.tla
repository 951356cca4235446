--------------------------- MODULE DurableProofs ---------------------------
(***************************************************************************)
(* What a load finds is the last acknowledged snapshot or a later one: the *)
(* slot store implements DurableRoots, for every number of sectors, every  *)
(* contents and every crash point.  Two slots are needed, slots that can   *)
(* be read, and a sequence counter that has not wrapped.                   *)
(***************************************************************************)
EXTENDS PersistProofs, MC_Persist

-----------------------------------------------------------------------------
(* What a load would find on a disk d; Stable is StableIn(disk). *)

ValidIn(d, s) == d[s].hdr # NoHdr /\ d[s].hdr.sum = d[s].body

SequenceIn(d, s) == IF d[s].hdr.ver = 2 THEN d[s].hdr.seq ELSE 0

IsNewerIn(d, s, t) ==
  \/ d[s].hdr.ver > d[t].hdr.ver
  \/ /\ d[s].hdr.ver = d[t].hdr.ver
     /\ \/ SequenceIn(d, s) > SequenceIn(d, t)
        \/ SequenceIn(d, s) = SequenceIn(d, t) /\ s < t

ValidSlotsIn(d) == {s \in SlotIds : ValidIn(d, s)}

NewestIn(d, C) == CHOOSE s \in C : \A t \in C \ {s} : IsNewerIn(d, s, t)

StableIn(d) == IF ValidSlotsIn(d) = {} THEN Nothing ELSE d[NewestIn(d, ValidSlotsIn(d))].body

LEMMA StableIsIn ==
  /\ Stable = StableIn(disk)
  /\ ValidSlots = ValidSlotsIn(disk)
  /\ \A C : Newest(C) = NewestIn(disk, C)
  BY DEF Stable, StableIn, ValidSlots, ValidSlotsIn, Valid, ValidIn,
         Newest, NewestIn, IsNewer, IsNewerIn, Sequence, SequenceIn

LEMMA StablePrimeIsIn == Stable' = StableIn(disk')
  BY DEF Stable, StableIn, ValidSlots, ValidSlotsIn, Valid, ValidIn,
         Newest, NewestIn, IsNewer, IsNewerIn, Sequence, SequenceIn

\* A step that leaves the disk alone leaves alone what a load would find.
LEMMA StableUnchanged == (disk' = disk) => (Stable' = Stable)
  BY StableIsIn, StablePrimeIsIn

\* The header of a valid slot has a version and a sequence that compare.
LEMMA ValidHeader ==
  ASSUME NEW d \in [SlotIds -> SlotStates], NEW s \in ValidSlotsIn(d)
  PROVE  /\ s \in SlotIds
         /\ s \in Int
         /\ d[s].hdr.ver \in {1, 2}
         /\ SequenceIn(d, s) \in Nat
         /\ d[s].body \in Snapshot
<1>1. s \in SlotIds /\ ValidIn(d, s)
  BY DEF ValidSlotsIn
<1>2. d[s].hdr \in Headers /\ d[s].body \in Snapshot
  BY <1>1 DEF SlotStates, ValidIn
<1>3. s \in Int
  BY <1>1, PersistAssumption DEF SlotIds
<1> QED
  BY <1>1, <1>2, <1>3, PersistAssumption DEF Headers, SequenceIn

\* A slot newer than every other valid slot is the one a load picks.
LEMMA StableIsBody ==
  ASSUME NEW d \in [SlotIds -> SlotStates], NEW s \in ValidSlotsIn(d),
         \A t \in ValidSlotsIn(d) \ {s} : IsNewerIn(d, s, t)
  PROVE  StableIn(d) = d[s].body
<1> DEFINE n == NewestIn(d, ValidSlotsIn(d))
<1>1. n \in ValidSlotsIn(d) /\ \A t \in ValidSlotsIn(d) \ {n} : IsNewerIn(d, n, t)
  BY DEF NewestIn
<1>2. n = s
  <2> SUFFICES ASSUME n # s PROVE FALSE
    OBVIOUS
  <2>1. IsNewerIn(d, n, s) /\ IsNewerIn(d, s, n)
    BY <1>1
  <2>2. /\ d[n].hdr.ver \in {1, 2} /\ d[s].hdr.ver \in {1, 2}
        /\ SequenceIn(d, n) \in Nat /\ SequenceIn(d, s) \in Nat
        /\ n \in Int /\ s \in Int
    BY <1>1, ValidHeader
  <2> HIDE DEF n
  <2> QED
    BY <2>1, <2>2 DEF IsNewerIn
<1> QED
  BY <1>2 DEF StableIn

\* The only valid slot is the one a load picks.
LEMMA StableIsOnly ==
  ASSUME NEW d \in [SlotIds -> SlotStates], NEW s \in ValidSlotsIn(d),
         \A t \in SlotIds \ {s} : ~ValidIn(d, t)
  PROVE  StableIn(d) = d[s].body
  BY StableIsBody DEF ValidSlotsIn

\* A load finds a valid slot's contents or nothing, and no valid slot is newer
\* than the one it picks.
LEMMA StableAmong ==
  ASSUME TypeOK, ValidSlots # {}
  PROVE  /\ Newest(ValidSlots) \in ValidSlots
         /\ Stable = disk[Newest(ValidSlots)].body
         /\ Stable \in Snapshot
<1>1. Newest(ValidSlots) \in ValidSlots
  BY NewestExists
<1> QED
  BY <1>1, SequenceType DEF Stable

-----------------------------------------------------------------------------
\* Two slots that can be read, and a counter with room for the saves begun:
\* persist_sequence is 32 bits wide and MaxSeq bounds the saves of a partition.
DurableStore == Slots = 2 /\ ReadErrors = FALSE /\ MaxSeq < SeqMod - 1

\* No header carries a sequence number beyond the saves that were begun.
SequencesCounted ==
  \A s \in SlotIds : disk[s].hdr # NoHdr => Sequence(s) <= MaxSeq

\* What a session knows of the disk: the slot it calls active holds contents a
\* load may still return, and a session that is ready without an active slot
\* found no snapshot and leaves slot 1 alone.
MetaKnown(m, a, B) ==
  /\ m.seq <= MaxSeq
  /\ m.active >= 0 => disk[m.active].body \in {a} \cup B
  /\ m.ready /\ m.active = -1 => a = Nothing /\ ~Valid(1)

\* A write in progress carries submitted contents and the next sequence number,
\* and spares slot 1 while no slot is active.
WriteIsNewer ==
  write # NoWrite =>
    /\ meta.ready
    /\ write.snap \in pending
    /\ write.seq = meta.seq + 1
    /\ write.seq <= MaxSeq
    /\ meta.active = -1 => write.slot = 0

\* The inductive invariant behind NewestIsRecoverable.
DurInv ==
  /\ IInv
  /\ NewestIsRecoverable
  /\ SequencesCounted
  /\ MetaKnown(meta, acked, pending)
  /\ WriteIsNewer

LEMMA TwoSlots ==
  ASSUME DurableStore
  PROVE  SlotIds = {0, 1} /\ Unreadable = {{}}
  BY DEF DurableStore, SlotIds, Unreadable

\* persist_prepare_metadata_for_save leaves a session that knows the disk.
LEMMA PreparedKnown ==
  ASSUME DurableStore, TypeOK, SequencesCounted,
         NEW m \in Metas, NEW a, NEW B \in SUBSET Snapshot, NEW unread \in Unreadable,
         MetaKnown(m, a, B), Stable \in {a} \cup B
  PROVE  /\ Prepared(m, unread).ready
         /\ MetaKnown(Prepared(m, unread), a, B)
<1>1. ValidSlots \ unread = ValidSlots
  BY TwoSlots
<1>2. CASE m.ready
  BY <1>2 DEF Prepared
<1>3. CASE ~m.ready /\ ValidSlots # {}
  <2> DEFINE n == Newest(ValidSlots)
  <2>1. n \in ValidSlots /\ Stable = disk[n].body
    BY <1>3, StableAmong
  <2>2. Prepared(m, unread) = Loaded(n)
    BY <1>1, <1>3 DEF Prepared
  <2>3. n \in SlotIds /\ disk[n].hdr # NoHdr
    BY <2>1 DEF ValidSlots, Valid
  <2>4. Sequence(n) <= MaxSeq /\ n # -1
    BY <2>3, TwoSlots DEF SequencesCounted
  <2> QED
    BY <2>1, <2>2, <2>4 DEF Loaded, MetaKnown
<1>4. CASE ~m.ready /\ ValidSlots = {}
  <2>1. Stable = Nothing
    BY <1>4 DEF Stable
  <2>2. a = Nothing
    BY <2>1, PersistAssumption
  <2>3. ~Valid(1)
    BY <1>4, TwoSlots DEF ValidSlots
  <2>4. Prepared(m, unread) = FreshMeta
    BY <1>1, <1>4 DEF Prepared
  <2> QED
    BY <2>2, <2>3, <2>4, PersistAssumption DEF FreshMeta, MetaKnown
<1> QED
  BY <1>2, <1>3, <1>4

\* A call of vfs_persist_save from a session that knows the disk: its write, if
\* it begins one, is of submitted contents and newer than the slot it spares.
LEMMA SaveSubmits ==
  ASSUME DurableStore, TypeOK, SequencesCounted, write = NoWrite,
         NEW v \in Snapshot, NEW m \in Metas, NEW base \in SUBSET Snapshot,
         MetaKnown(m, acked', base), Stable \in {acked'} \cup base,
         Save(v, m, base), disk' = disk
  PROVE  /\ pending' \in {base, base \cup {v}}
         /\ MetaKnown(meta, acked, pending)'
         /\ WriteIsNewer'
         /\ NewestIsRecoverable'
<1>0. ASSUME NEW n \in Metas, MetaKnown(n, acked', base), meta' = n,
             pending' \in {base, base \cup {v}}
      PROVE  MetaKnown(meta, acked, pending)'
  BY <1>0 DEF MetaKnown, Valid
<1>1. ASSUME pending' \in {base, base \cup {v}}
      PROVE  NewestIsRecoverable'
  BY <1>1, StableUnchanged DEF NewestIsRecoverable
<1>2. CASE meta' = m /\ pending' = base /\ write' = write
  BY <1>0, <1>1, <1>2 DEF WriteIsNewer
<1>3. CASE meta' = [m EXCEPT !.ready = FALSE] /\ pending' = base /\ write' = write
  <2> DEFINE n == [m EXCEPT !.ready = FALSE]
  <2>1. n \in Metas /\ n.active = m.active /\ n.seq = m.seq /\ n.ready = FALSE
    BY DEF Metas
  <2>2. MetaKnown(n, acked', base)
    BY <2>1 DEF MetaKnown
  <2> QED
    BY <1>0, <1>1, <1>3, <2>1, <2>2 DEF WriteIsNewer
<1>4. ASSUME NEW unread \in Unreadable,
             LET p == Prepared(m, unread)
             IN  /\ meta' = p
                 /\ \/ /\ ~Fits(v)
                       /\ pending' = base
                       /\ UNCHANGED write
                    \/ /\ Fits(v)
                       /\ NextSequence(p) <= MaxSeq
                       /\ pending' = base \cup {v}
                       /\ write' = [slot |-> TargetSlot(p), seq |-> NextSequence(p),
                                    snap |-> v, next |-> 1]
      PROVE  /\ pending' \in {base, base \cup {v}}
             /\ MetaKnown(meta, acked, pending)'
             /\ WriteIsNewer'
             /\ NewestIsRecoverable'
  <2> DEFINE p == Prepared(m, unread)
  <2>1. p \in Metas
    BY PreparedTrue
  <2>2. p.ready /\ MetaKnown(p, acked', base)
    BY PreparedKnown
  <2>3. meta' = p /\ pending' \in {base, base \cup {v}}
    BY <1>4
  <2>4. MetaKnown(meta, acked, pending)'
    BY <1>0, <2>1, <2>2, <2>3
  <2>5. NewestIsRecoverable'
    BY <1>1, <2>3
  <2>6. CASE write' = write
    BY <2>3, <2>4, <2>5, <2>6 DEF WriteIsNewer
  <2>7. CASE /\ NextSequence(p) <= MaxSeq
             /\ pending' = base \cup {v}
             /\ write' = [slot |-> TargetSlot(p), seq |-> NextSequence(p),
                          snap |-> v, next |-> 1]
    <3>1. p.seq \in Nat /\ p.seq <= MaxSeq /\ SeqMod \in Nat /\ MaxSeq \in Nat
      BY <2>1, <2>2, PersistAssumption DEF Metas, MetaKnown
    <3>2. p.seq + 1 < SeqMod /\ (p.seq + 1) % SeqMod = p.seq + 1
      BY <3>1 DEF DurableStore
    <3>3. NextSequence(p) = p.seq + 1
      BY <3>1, <3>2 DEF NextSequence
    <3>4. p.active = -1 => TargetSlot(p) = 0
      BY DEF TargetSlot
    <3>5. WriteIsNewer'
      BY <2>2, <2>3, <2>7, <3>3, <3>4 DEF WriteIsNewer
    <3> QED
      BY <2>3, <2>4, <2>5, <3>5
  <2> QED
    BY <1>4, <2>6, <2>7
<1> QED
  BY <1>2, <1>3, <1>4 DEF Save

-----------------------------------------------------------------------------
(* The sectors of a save. *)

\* While a write is in progress, a valid slot other than its target is the
\* active one.
LEMMA SparedSlotIsActive ==
  ASSUME DurableStore, DurInv, write # NoWrite,
         NEW t \in SlotIds \ {write.slot}
  PROVE  /\ Valid(t) => meta.active = t /\ Sequence(t) = meta.seq
         /\ ~Valid(t) => meta.active = -1 /\ acked = Nothing
<1>1. /\ meta.active \in SlotIds \cup {-1} /\ write.slot \in SlotIds
      /\ meta.active # write.slot
  BY DEF DurInv, IInv, TypeOK, Metas, Writes, WriteInFlight, DurableStore
<1>2. /\ meta.ready
      /\ meta.active = -1 => write.slot = 0 /\ acked = Nothing /\ ~Valid(1)
  BY DEF DurInv, WriteIsNewer, MetaKnown
<1>3. meta.active >= 0 => Valid(meta.active) /\ Sequence(meta.active) = meta.seq
  BY DEF DurInv, IInv, ActiveSlotValid, DurableStore
<1> QED
  BY <1>1, <1>2, <1>3, TwoSlots

\* Once the slot being written passes its checksum, a load picks it.
LEMMA WriterIsNewest ==
  ASSUME DurableStore, DurInv, write # NoWrite,
         NEW d \in [SlotIds -> SlotStates],
         \A t \in SlotIds \ {write.slot} : d[t] = disk[t],
         d[write.slot].hdr = [ver |-> 2, seq |-> write.seq, sum |-> write.snap],
         d[write.slot].body = write.snap
  PROVE  StableIn(d) = write.snap
<1> DEFINE w == write.slot
<1>1. w \in SlotIds /\ w \in ValidSlotsIn(d)
  <2>1. w \in SlotIds
    BY DEF DurInv, IInv, TypeOK, Writes
  <2>2. d[w].hdr # NoHdr
    BY DEF NoHdr
  <2> QED
    BY <2>1, <2>2 DEF ValidSlotsIn, ValidIn
<1>2. ASSUME NEW t \in ValidSlotsIn(d) \ {w}
      PROVE  IsNewerIn(d, w, t)
  <2>1. t \in SlotIds \ {w} /\ d[t] = disk[t]
    BY DEF ValidSlotsIn
  <2>2. Valid(t)
    BY <2>1 DEF ValidSlotsIn, ValidIn, Valid
  <2>3. Sequence(t) = meta.seq /\ write.seq = meta.seq + 1 /\ meta.seq \in Nat
    BY <2>1, <2>2, SparedSlotIsActive, PersistAssumption
       DEF DurInv, WriteIsNewer, IInv, TypeOK, Metas
  <2>4. SequenceIn(d, t) = meta.seq /\ d[t].hdr.ver \in {1, 2}
    BY <2>1, <2>3, ValidHeader DEF Sequence, SequenceIn
  <2>5. SequenceIn(d, w) = meta.seq + 1 /\ d[w].hdr.ver = 2
    BY <2>3 DEF SequenceIn
  <2> QED
    BY <2>3, <2>4, <2>5 DEF IsNewerIn
<1> QED
  BY <1>1, <1>2, StableIsBody

\* Every sector of a save leaves a load with the last acknowledged contents or
\* submitted ones.
LEMMA SectorSettles ==
  ASSUME DurableStore, DurInv, write # NoWrite, write.next <= Sectors
  PROVE  StableIn(Written) \in {acked} \cup pending
<1> DEFINE w == write.slot
           next == [write EXCEPT !.next = @ + 1]
<1>1. write \in Writes /\ w \in SlotIds /\ TypeOK
  BY DEF DurInv, IInv, TypeOK, Writes
<1>2. /\ Written \in [SlotIds -> SlotStates]
      /\ \A s \in SlotIds \ {w} : Written[s] = disk[s]
      /\ Progress(disk, write) => Progress(Written, next)
  BY <1>1, SectorStep
<1>3. Progress(disk, write)
  BY DEF DurInv, IInv, DurableStore, WriteInFlight, Progress
<1>4. Written[w].hdr = [ver |-> 2, seq |-> write.seq, sum |-> write.snap]
  <2>1. /\ next.slot = w /\ next.seq = write.seq /\ next.snap = write.snap
        /\ next.next > 1
    BY <1>1, PersistAssumption DEF Writes
  <2> QED
    BY <1>2, <1>3, <2>1 DEF Progress
<1>5. CASE ValidIn(Written, w)
  <2>1. Written[w].body = write.snap
    BY <1>4, <1>5 DEF ValidIn
  <2>2. StableIn(Written) = write.snap
    BY <1>2, <1>4, <2>1, WriterIsNewest
  <2> QED
    BY <2>2 DEF DurInv, WriteIsNewer
<1>6. CASE ~ValidIn(Written, w)
  <2>1. PICK t \in SlotIds : t # w /\ SlotIds \ {t} = {w}
    BY <1>1, TwoSlots
  <2>2. Written[t] = disk[t]
    BY <1>2, <2>1
  <2>3. CASE Valid(t)
    <3>1. t \in ValidSlotsIn(Written)
      BY <2>2, <2>3 DEF ValidSlotsIn, ValidIn, Valid
    <3>2. StableIn(Written) = disk[t].body
      BY <1>2, <1>6, <2>1, <2>2, <3>1, StableIsOnly
    <3>3. meta.active = t /\ t >= 0
      BY <2>1, <2>3, SparedSlotIsActive, TwoSlots
    <3> QED
      BY <3>2, <3>3 DEF DurInv, MetaKnown
  <2>4. CASE ~Valid(t)
    <3>1. ValidSlotsIn(Written) = {}
      BY <1>6, <2>1, <2>2, <2>4 DEF ValidSlotsIn, ValidIn, Valid
    <3>2. StableIn(Written) = Nothing
      BY <3>1 DEF StableIn
    <3>3. acked = Nothing
      BY <2>1, <2>4, SparedSlotIsActive
    <3> QED
      BY <3>2, <3>3
  <2> QED
    BY <2>3, <2>4
<1> QED
  BY <1>5, <1>6

\* A sector of a save does not disturb what the session knows.
LEMMA SectorKeeps ==
  ASSUME DurableStore, DurInv, write # NoWrite, write.next <= Sectors,
         disk' \in {disk, Written}, UNCHANGED <<meta, acked, pending>>
  PROVE  /\ NewestIsRecoverable'
         /\ SequencesCounted'
         /\ MetaKnown(meta, acked, pending)'
<1> DEFINE w == write.slot
<1>1. CASE disk' = disk
  BY <1>1, StableUnchanged
     DEF DurInv, NewestIsRecoverable, SequencesCounted, MetaKnown, Valid, Sequence
<1>2. CASE disk' = Written
  <2>1. TypeOK /\ write \in Writes /\ w \in SlotIds /\ meta \in Metas
    BY DEF DurInv, IInv, TypeOK, Writes
  <2>2. \A s \in SlotIds \ {w} : disk'[s] = disk[s]
    BY <1>2, <2>1, SectorStep
  <2>3. NewestIsRecoverable'
    BY <1>2, SectorSettles, StablePrimeIsIn DEF NewestIsRecoverable
  <2>4. SequencesCounted'
    <3> SUFFICES ASSUME NEW s \in SlotIds, disk'[s].hdr # NoHdr
                 PROVE  Sequence(s)' <= MaxSeq
      BY DEF SequencesCounted
    <3>1. CASE s # w
      BY <2>2, <3>1 DEF DurInv, SequencesCounted, Sequence
    <3>2. CASE s = w
      <4>1. disk'[w] = PutSector(disk[w], write)
        BY <1>2, <2>1 DEF Written, TypeOK
      <4>2. CASE write.next = 1
        <5>1. disk'[w].hdr = [ver |-> 2, seq |-> write.seq, sum |-> write.snap]
          BY <4>1, <4>2 DEF PutSector
        <5> QED
          BY <3>2, <5>1 DEF Sequence, DurInv, WriteIsNewer
      <4>3. CASE write.next # 1
        <5>1. disk'[w].hdr = disk[w].hdr
          BY <4>1, <4>3 DEF PutSector
        <5> QED
          BY <3>2, <5>1 DEF DurInv, SequencesCounted, Sequence
      <4> QED
        BY <4>2, <4>3
    <3> QED
      BY <3>1, <3>2
  <2>5. MetaKnown(meta, acked, pending)'
    <3>1. meta.active # w /\ meta.active \in SlotIds \cup {-1}
      BY <2>1 DEF DurInv, IInv, WriteInFlight, DurableStore, Metas
    <3>2. meta.active >= 0 => disk'[meta.active] = disk[meta.active]
      BY <2>2, <3>1
    <3>3. meta.active = -1 => disk'[1] = disk[1]
      BY <2>2, TwoSlots DEF DurInv, WriteIsNewer
    <3> QED
      BY <3>2, <3>3 DEF DurInv, MetaKnown, Valid
  <2> QED
    BY <2>3, <2>4, <2>5
<1> QED
  BY <1>1, <1>2

\* When the last sector is down a load finds what was saved.
LEMMA CompleteIsStable ==
  ASSUME DurableStore, DurInv, write # NoWrite, write.next > Sectors
  PROVE  /\ Stable = write.snap
         /\ disk[write.slot].body = write.snap
         /\ write.slot \in SlotIds
<1> DEFINE w == write.slot
<1>1. write \in Writes /\ w \in SlotIds /\ disk \in [SlotIds -> SlotStates]
  BY DEF DurInv, IInv, TypeOK, Writes
<1>2. write.next = Sectors + 1 /\ write.snap \in Snapshot
  BY <1>1, PersistAssumption DEF Writes
<1>3. /\ disk[w].hdr = [ver |-> 2, seq |-> write.seq, sum |-> write.snap]
      /\ \A i \in Files : disk[w].body[i] = write.snap[i]
  BY <1>2, PersistAssumption DEF DurInv, IInv, DurableStore, WriteInFlight, Files
<1>4. disk[w].body \in Snapshot
  BY <1>1 DEF SlotStates
<1>5. disk[w].body = write.snap
  BY <1>2, <1>3, <1>4 DEF Snapshot
<1> QED
  BY <1>1, <1>3, <1>5, WriterIsNewest, StableIsIn

-----------------------------------------------------------------------------
(* Every step preserves the invariant and is a step of DurableRoots. *)

\* A step of DurableRoots, or one it does not see.
DurableStep == [Durable!Next]_(Durable!dvars)

LEMMA DurInit == DurableStore /\ Init => DurInv /\ Durable!Init
<1> SUFFICES ASSUME DurableStore, Init PROVE DurInv /\ Durable!Init
  OBVIOUS
<1>1. IInv
  BY InitIInv
<1>2. acked = Stable /\ pending = {} /\ write = NoWrite /\ meta = NoMeta
  BY DEF Init
<1>3. SequencesCounted
  <2> SUFFICES ASSUME NEW s \in SlotIds, disk[s].hdr # NoHdr
               PROVE  Sequence(s) <= MaxSeq
    BY DEF SequencesCounted
  <2>1. disk[s] = LegacySlot
    BY DEF Init, EmptySlot
  <2> QED
    BY <2>1, PersistAssumption DEF Sequence, LegacySlot
<1>4. MetaKnown(meta, acked, pending)
  BY <1>2, PersistAssumption DEF MetaKnown, NoMeta
<1>5. Stable \in Snapshot \cup {Nothing}
  BY <1>1, <1>2 DEF IInv, TypeOK
<1> QED
  BY <1>1, <1>2, <1>3, <1>4, <1>5 DEF DurInv, WriteIsNewer, NewestIsRecoverable, Durable!Init

\* An operation that submits nothing and leaves the disk alone.
LEMMA QuietDurable ==
  ASSUME DurInv, IInv', disk' = disk, write' = NoWrite,
         UNCHANGED <<acked, pending>>, MetaKnown(meta', acked, pending)
  PROVE  DurInv' /\ DurableStep
<1>1. Stable' = Stable
  BY StableUnchanged
<1>2. MetaKnown(meta, acked, pending)'
  BY DEF MetaKnown, Valid
<1>3. NewestIsRecoverable' /\ SequencesCounted' /\ WriteIsNewer'
  BY <1>1 DEF DurInv, NewestIsRecoverable, SequencesCounted, Sequence, WriteIsNewer
<1> QED
  BY <1>1, <1>2, <1>3 DEF DurInv, DurableStep, Durable!dvars

\* An operation that ends in a save of v, with base already submitted.
LEMMA SubmitDurable ==
  ASSUME DurableStore, DurInv, IInv', write = NoWrite,
         NEW v \in Snapshot, NEW m \in Metas, NEW base \in SUBSET Snapshot,
         pending \subseteq base, MetaKnown(m, acked, base),
         Save(v, m, base), disk' = disk, acked' = acked
  PROVE  DurInv' /\ DurableStep
<1>1. TypeOK /\ SequencesCounted /\ Stable \in {acked'} \cup base
  BY DEF DurInv, IInv, NewestIsRecoverable
<1>2. MetaKnown(m, acked', base)
  BY DEF MetaKnown
<1>3. /\ pending' \in {base, base \cup {v}}
      /\ MetaKnown(meta, acked, pending)'
      /\ WriteIsNewer'
      /\ NewestIsRecoverable'
  BY <1>1, <1>2, SaveSubmits
<1>4. SequencesCounted'
  BY <1>1 DEF SequencesCounted, Sequence
<1>5. Stable' = Stable
  BY StableUnchanged
<1>6. \E D \in SUBSET Snapshot : pending' = pending \cup D
  <2>1. CASE pending' = base
    BY <2>1
  <2>2. CASE pending' = base \cup {v}
    <3>1. base \cup {v} \in SUBSET Snapshot /\ pending' = pending \cup (base \cup {v})
      BY <2>2
    <3> QED
      BY <3>1
  <2> QED
    BY <1>3, <2>1, <2>2
<1>7. Durable!Next
  BY <1>5, <1>6 DEF Durable!Next, Durable!Submit
<1> QED
  BY <1>3, <1>4, <1>7 DEF DurInv, DurableStep

\* Sectors written, a write that fails, and the end of a save.
LEMMA WriteDurable ==
  ASSUME DurableStore, DurInv, IInv', WriteSector \/ WriteFails \/ SaveDone
  PROVE  DurInv' /\ DurableStep
<1>0. write # NoWrite
  BY DEF WriteSector, WriteFails, SaveDone
<1>1. CASE WriteSector \/ WriteFails
  <2>1. /\ write.next <= Sectors /\ disk' \in {disk, Written}
        /\ UNCHANGED <<meta, acked, pending>>
    BY <1>1 DEF WriteSector, WriteFails
  <2>2. /\ NewestIsRecoverable' /\ SequencesCounted'
        /\ MetaKnown(meta, acked, pending)'
    BY <1>0, <2>1, SectorKeeps
  <2>3. WriteIsNewer'
    <3>1. CASE write' = NoWrite
      BY <3>1 DEF WriteIsNewer
    <3>2. CASE write' = [write EXCEPT !.next = @ + 1]
      <4>1. write \in Writes
        BY <1>0 DEF DurInv, IInv, TypeOK
      <4>2. write'.snap = write.snap /\ write'.seq = write.seq /\ write'.slot = write.slot
        BY <3>2, <4>1 DEF Writes
      <4> QED
        BY <1>0, <2>1, <4>2 DEF DurInv, WriteIsNewer
    <3> QED
      BY <1>1, <3>1, <3>2 DEF WriteSector, WriteFails
  <2>4. Durable!Next
    BY <2>1, <2>2 DEF NewestIsRecoverable, Durable!Next, Durable!Settle, Durable!Recoverable
  <2> QED
    BY <2>2, <2>3, <2>4 DEF DurInv, DurableStep
<1>2. CASE SaveDone
  <2>1. /\ write.next > Sectors /\ write' = NoWrite /\ disk' = disk
        /\ meta' = [meta EXCEPT !.active = write.slot, !.seq = write.seq]
        /\ acked' = write.snap /\ pending' = {}
    BY <1>2 DEF SaveDone
  <2>2. /\ Stable = write.snap /\ disk[write.slot].body = write.snap
        /\ write.slot \in SlotIds
    BY <1>0, <2>1, CompleteIsStable
  <2>3. Stable' = Stable
    BY <2>1, StableUnchanged
  <2>4. write.snap \in pending /\ write.seq <= MaxSeq
    BY <1>0 DEF DurInv, WriteIsNewer
  <2>5. meta'.active = write.slot /\ meta'.seq = write.seq /\ write.slot # -1
    BY <2>1, <2>2, TwoSlots DEF DurInv, IInv, TypeOK, Metas
  <2>6. MetaKnown(meta, acked, pending)'
    BY <2>1, <2>2, <2>4, <2>5 DEF MetaKnown
  <2>7. NewestIsRecoverable' /\ SequencesCounted' /\ WriteIsNewer'
    BY <2>1, <2>2, <2>3
       DEF DurInv, NewestIsRecoverable, SequencesCounted, Sequence, WriteIsNewer
  <2>8. Durable!Next
    BY <2>1, <2>2, <2>3, <2>4 DEF Durable!Next, Durable!Acknowledge
  <2> QED
    BY <2>6, <2>7, <2>8 DEF DurInv, DurableStep
<1> QED
  BY <1>1, <1>2

\* A boot finds the disk, or does not look at it.
LEMMA BootDurable ==
  ASSUME DurableStore, DurInv, IInv', Boot \/ SafeBoot
  PROVE  DurInv' /\ DurableStep
<1>0. /\ TypeOK /\ SequencesCounted /\ disk' = disk /\ power = "off" /\ write = NoWrite
  BY DEF DurInv, IInv, Boot, SafeBoot
<1>1. Stable' = Stable
  BY <1>0, StableUnchanged
<1>2. SequencesCounted'
  BY <1>0 DEF SequencesCounted, Sequence
<1>3. CASE LoadUnavailable
  <2>1. MetaKnown(NoMeta, acked, pending)
    BY PersistAssumption DEF MetaKnown, NoMeta
  <2> QED
    BY <1>0, <1>3, <2>1, QuietDurable DEF LoadUnavailable
<1>4. ASSUME NEW v \in Snapshot, NEW m \in Metas, acked' = Stable, MetaKnown(m, acked', {}),
             Save(v, m, {})
      PROVE  DurInv' /\ DurableStep
  <2>1. /\ pending' \in {{}, {} \cup {v}}
        /\ MetaKnown(meta, acked, pending)'
        /\ WriteIsNewer'
        /\ NewestIsRecoverable'
    BY <1>0, <1>4, SaveSubmits
  <2>2. \E D \in SUBSET Snapshot : pending' = D
    BY <2>1
  <2>3. Durable!Next
    BY <1>1, <1>4, <2>2 DEF Durable!Next, Durable!Recover
  <2> QED
    BY <1>2, <2>1, <2>3 DEF DurInv, DurableStep
<1>5. ASSUME LoadNothing(ValidSlots)
      PROVE  DurInv' /\ DurableStep
  <2>1. ValidSlots = {} /\ acked' = Nothing /\ Save(Seed, FreshMeta, {})
    BY <1>5 DEF LoadNothing
  <2>2. Stable = Nothing /\ ~Valid(1)
    BY <2>1, TwoSlots DEF Stable, ValidSlots
  <2>3. MetaKnown(FreshMeta, acked', {})
    BY <2>1, <2>2, PersistAssumption DEF MetaKnown, FreshMeta
  <2> QED
    BY <1>4, <2>1, <2>2, <2>3, SeedType
<1>6. ASSUME LoadNewest(ValidSlots)
      PROVE  DurInv' /\ DurableStep
  <2> DEFINE s == Newest(ValidSlots)
             v == WithDefaults(disk[s].body)
  <2>1. s \in ValidSlots /\ Stable = disk[s].body /\ Stable \in Snapshot
    BY <1>0, <1>6, StableAmong DEF LoadNewest
  <2>2. acked' = disk[s].body /\ v \in Snapshot
    BY <1>6, <2>1, DefaultsType DEF LoadNewest
  <2>3. Loaded(s) \in Metas
    BY <1>0, <2>1, LoadedTrue
  <2>4. MetaKnown(Loaded(s), acked', {})
    <3>1. s \in SlotIds /\ disk[s].hdr # NoHdr
      BY <2>1 DEF ValidSlots, Valid
    <3>2. Sequence(s) <= MaxSeq /\ s # -1
      BY <1>0, <3>1, TwoSlots DEF SequencesCounted
    <3> QED
      BY <2>2, <3>2 DEF Loaded, MetaKnown
  <2>5. CASE Save(v, Loaded(s), {})
    BY <1>4, <2>1, <2>2, <2>3, <2>4, <2>5
  <2>6. CASE meta' = Loaded(s) /\ pending' = {} /\ UNCHANGED write
    <3>1. MetaKnown(meta, acked, pending)'
      BY <1>0, <2>4, <2>6 DEF MetaKnown, Valid
    <3>2. NewestIsRecoverable' /\ WriteIsNewer'
      BY <1>0, <1>1, <2>1, <2>2, <2>6 DEF NewestIsRecoverable, WriteIsNewer
    <3>3. Durable!Next
      BY <1>1, <2>1, <2>2, <2>6 DEF Durable!Next, Durable!Recover
    <3> QED
      BY <1>2, <3>1, <3>2, <3>3 DEF DurInv, DurableStep
  <2> QED
    BY <1>6, <2>5, <2>6 DEF LoadNewest
<1>7. \A unread \in Unreadable : ValidSlots \ unread = ValidSlots
  BY TwoSlots
<1>8. \A unread \in Unreadable : ~LoadRereadFails(ValidSlots \ unread)
  BY DEF LoadRereadFails, DurableStore
<1> QED
  BY <1>3, <1>5, <1>6, <1>7, <1>8 DEF Boot, SafeBoot

\* What the running system does between boots.
LEMMA CommandDurable ==
  ASSUME DurableStore, DurInv, IInv', write = NoWrite,
         \/ BootTasks \/ ShellReached \/ AutoSave \/ PersistSave
         \/ \E f \in Files, c \in Contents : WriteFile(f, c)
         \/ \E f \in Files : DeleteFile(f)
         \/ \E f, g \in Files : RenameFile(f, g)
         \/ \E s \in SlotIds : RestoreSlot(s)
         \/ RestorePrevious \/ LosePartition \/ (meta.ready /\ Repair)
  PROVE  DurInv' /\ DurableStep
<1>0. /\ TypeOK /\ meta \in Metas /\ vfs \in Snapshot /\ pending \in SUBSET Snapshot
      /\ MetaKnown(meta, acked, pending) /\ SequencesCounted /\ vfs' \in Snapshot
  BY DEF DurInv, IInv, TypeOK
<1>1. ASSUME NEW v \in Snapshot, Save(v, meta, pending), disk' = disk, acked' = acked
      PROVE  DurInv' /\ DurableStep
  BY <1>0, <1>1, SubmitDurable
<1>2. CASE BootTasks
  BY <1>0, <1>1, <1>2 DEF BootTasks
<1>3. CASE ShellReached
  BY <1>0, <1>3, QuietDurable DEF ShellReached
<1>4. CASE AutoSave \/ PersistSave
  BY <1>0, <1>1, <1>4 DEF AutoSave, PersistSave
<1>5. CASE \E f \in Files, c \in Contents : WriteFile(f, c)
  BY <1>0, <1>5, QuietDurable DEF WriteFile
<1>6. CASE \E f \in Files : DeleteFile(f)
  BY <1>0, <1>1, <1>6 DEF DeleteFile
<1>7. CASE \E f, g \in Files : RenameFile(f, g)
  BY <1>0, <1>1, <1>7 DEF RenameFile
<1>8. ASSUME NEW s \in SlotIds, RestoreSlot(s)
      PROVE  DurInv' /\ DurableStep
  <2> DEFINE base == pending \cup {disk[s].body}
  <2>1. /\ s \in ValidSlots /\ Save(vfs', Loaded(s), base)
        /\ disk' = disk /\ acked' = acked
    BY <1>8 DEF RestoreSlot, ValidSlots
  <2>2. base \in SUBSET Snapshot /\ Loaded(s) \in Metas
    BY <1>0, <2>1, SequenceType, LoadedTrue
  <2>3. MetaKnown(Loaded(s), acked, base)
    <3>1. Sequence(s) <= MaxSeq /\ s # -1
      BY <1>0, <2>1, TwoSlots DEF ValidSlots, Valid, SequencesCounted
    <3> QED
      BY <3>1 DEF Loaded, MetaKnown
  <2>4. pending \subseteq base
    OBVIOUS
  <2> HIDE DEF base
  <2> QED
    BY <1>0, <2>1, <2>2, <2>3, <2>4, SubmitDurable
<1>9. CASE RestorePrevious
  <2>1. PICK unread \in Unreadable :
          LET C == ValidSlots \ (unread \cup {meta.active})
          IN  C # {} /\ RestoreSlot(Newest(C))
    BY <1>9 DEF RestorePrevious
  <2>2. Newest(ValidSlots \ (unread \cup {meta.active})) \in SlotIds
    BY <1>0, <2>1, NewestExists DEF ValidSlots
  <2> QED
    BY <1>8, <2>1, <2>2
<1>10. CASE LosePartition
  <2> DEFINE n == [meta EXCEPT !.ready = FALSE]
  <2>1. n.active = meta.active /\ n.seq = meta.seq /\ n.ready = FALSE
    BY <1>0 DEF Metas
  <2>2. MetaKnown(n, acked, pending)
    BY <1>0, <2>1 DEF MetaKnown
  <2> QED
    BY <1>10, <2>2, QuietDurable DEF LosePartition
<1>11. CASE meta.ready /\ Repair
  <2>1. [meta EXCEPT !.ready = TRUE] = meta
    BY <1>0, <1>11 DEF Metas
  <2>2. Save(vfs, meta, pending) /\ disk' = disk /\ acked' = acked
    BY <1>11, <2>1 DEF Repair
  <2> QED
    BY <1>0, <1>1, <2>2
<1> QED
  BY <1>2, <1>3, <1>4, <1>5, <1>6, <1>7, <1>8, <1>9, <1>10, <1>11

LEMMA DurNext == DurableStore /\ DurInv /\ [NextPrepared]_vars => DurInv' /\ DurableStep
<1> SUFFICES ASSUME DurableStore, DurInv, [NextPrepared]_vars
             PROVE  DurInv' /\ DurableStep
  OBVIOUS
<1>0. IInv'
  BY NextIInv DEF DurInv, NextPrepared, Next
<1>1. CASE WriteSector \/ WriteFails \/ SaveDone
  BY <1>0, <1>1, WriteDurable
<1>2. CASE Boot \/ SafeBoot
  BY <1>0, <1>2, BootDurable
<1>3. CASE Crash
  <2>1. MetaKnown(NoMeta, acked, pending)
    BY PersistAssumption DEF MetaKnown, NoMeta
  <2> QED
    BY <1>0, <1>3, <2>1, QuietDurable DEF Crash
<1>4. CASE \/ BootTasks \/ ShellReached \/ AutoSave \/ PersistSave
           \/ \E f \in Files, c \in Contents : WriteFile(f, c)
           \/ \E f \in Files : DeleteFile(f)
           \/ \E f, g \in Files : RenameFile(f, g)
           \/ \E s \in SlotIds : RestoreSlot(s)
           \/ RestorePrevious \/ LosePartition \/ (meta.ready /\ Repair)
  <2>1. write = NoWrite
    BY <1>4 DEF BootTasks, ShellReached, AutoSave, PersistSave, WriteFile,
                DeleteFile, RenameFile, RestoreSlot, RestorePrevious,
                LosePartition, Repair, Idle
  <2> QED
    BY <1>0, <1>4, <2>1, CommandDurable
<1>5. CASE UNCHANGED vars
  <2>1. disk' = disk /\ Stable' = Stable
    BY <1>5, StableUnchanged DEF vars
  <2> QED
    BY <1>0, <1>5, <2>1
       DEF vars, DurInv, NewestIsRecoverable, SequencesCounted, Sequence, MetaKnown,
           Valid, WriteIsNewer, DurableStep, Durable!dvars
<1> QED
  BY <1>1, <1>2, <1>3, <1>4, <1>5 DEF NextPrepared, Session

\* The part whose counter wraps says nothing of the promise.
LEMMA OtherPart ==
  ASSUME part # "prepared"
  PROVE  LoadsRecover /\ (StoreInit => Promise!Init)
  BY DEF LoadsRecover, StoreInit, Promise!Init, Kept

LEMMA PromiseStutters ==
  ASSUME part # "prepared", UNCHANGED part
  PROVE  UNCHANGED Promise!dvars
  BY DEF Promise!dvars, Kept

\* The part that is prepared makes the steps of DurableRoots.
LEMMA PromiseSteps ==
  ASSUME part = "prepared", UNCHANGED part, [Durable!Next]_(Durable!dvars)
  PROVE  [Promise!Next]_(Promise!dvars)
<1>1. /\ Kept(Stable, Nothing) = Stable /\ Kept(Stable, Nothing)' = Stable'
      /\ Kept(acked, Nothing) = acked /\ Kept(acked, Nothing)' = acked'
      /\ Kept(pending, {}) = pending /\ Kept(pending, {})' = pending'
  BY DEF Kept
<1>2. CASE UNCHANGED Durable!dvars
  BY <1>1, <1>2 DEF Promise!dvars, Durable!dvars
<1>3. CASE Durable!Submit
  BY <1>1, <1>3 DEF Promise!Next, Promise!Submit, Durable!Submit
<1>4. CASE Durable!Settle
  BY <1>1, <1>4 DEF Promise!Next, Promise!Settle, Promise!Recoverable, Durable!Settle,
                    Durable!Recoverable
<1>5. CASE Durable!Acknowledge
  BY <1>1, <1>5 DEF Promise!Next, Promise!Acknowledge, Durable!Acknowledge
<1>6. CASE Durable!Recover
  BY <1>1, <1>6 DEF Promise!Next, Promise!Recover, Durable!Recover
<1> QED
  BY <1>2, <1>3, <1>4, <1>5, <1>6 DEF Durable!Next

\* The invariant in the part that the promise is about.
StoreInv == part = "prepared" => DurInv

LEMMA StoreInitInv ==
  ASSUME DurableStore
  PROVE  StoreInit => StoreInv /\ Promise!Init
<1> SUFFICES ASSUME StoreInit PROVE StoreInv /\ Promise!Init
  OBVIOUS
<1>1. CASE part = "prepared"
  <2>1. DurInv /\ Durable!Init
    BY DurInit DEF StoreInit
  <2> QED
    BY <1>1, <2>1 DEF StoreInv, Promise!Init, Durable!Init, Kept
<1> QED
  BY <1>1, OtherPart DEF StoreInv

LEMMA StoreNextInv ==
  ASSUME DurableStore, StoreInv, [StoreNext]_storeVars
  PROVE  StoreInv' /\ [Promise!Next]_(Promise!dvars)
<1>1. UNCHANGED part
  BY DEF StoreNext, storeVars
<1>2. CASE part = "prepared"
  <2>1. [NextPrepared]_vars
    BY <1>2 DEF StoreNext, storeVars
  <2>2. DurInv' /\ [Durable!Next]_(Durable!dvars)
    BY <1>2, <2>1, DurNext DEF DurableStep, StoreInv
  <2> QED
    BY <1>1, <1>2, <2>2, PromiseSteps DEF StoreInv
<1>3. CASE part # "prepared"
  BY <1>1, <1>3, PromiseStutters DEF StoreInv
<1> QED
  BY <1>2, <1>3

\* With two readable slots and a counter that has not wrapped, what a load of
\* vfs_persist_load finds is the last acknowledged snapshot or one submitted
\* after it, wherever power failed or a sector could not be written.
THEOREM LoadsAreRecoverable ==
  ASSUME DurableStore
  PROVE  StoreSpec => []LoadsRecover
<1>1. StoreInit => StoreInv
  BY StoreInitInv
<1>2. StoreInv /\ [StoreNext]_storeVars => StoreInv'
  BY StoreNextInv
<1>3. StoreInv => LoadsRecover
  BY DEF StoreInv, DurInv, LoadsRecover
<1> QED
  BY <1>1, <1>2, <1>3, PTL DEF StoreSpec

\* The slot store of vfs.c implements DurableRoots: every boot, save, restore,
\* repair, crash and sector write is a step of the abstract store or invisible
\* in it.
THEOREM StoreImplementsDurableRoots ==
  ASSUME DurableStore
  PROVE  StoreSpec => KeepsPromise
<1>1. StoreInit => StoreInv /\ Promise!Init
  BY StoreInitInv
<1>2. StoreInv /\ [StoreNext]_storeVars => StoreInv' /\ [Promise!Next]_(Promise!dvars)
  BY StoreNextInv
<1> QED
  BY <1>1, <1>2, PTL DEF StoreSpec, KeepsPromise, Promise!Spec
=============================================================================
