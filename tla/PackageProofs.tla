--------------------------- MODULE PackageProofs ---------------------------
(***************************************************************************)
(* Proofs about the package manager: for any packages, payloads and        *)
(* scripts, and any number of calls, refused writes and saves and power    *)
(* failures between any two of them, the database and the files agree      *)
(* between calls, the record says what happened and a removed package can  *)
(* be brought back.                                                        *)
(***************************************************************************)
EXTENDS MC_Services, TLAPS
-----------------------------------------------------------------------------
(* The inductive invariant.                                                *)

\* What may be kept under the name n: nothing, a file that does not parse, a
\* manifest of that name.
HeldBy(n) == {NoPkg, Junk} \cup {g \in Packages1 : g[1] = n}

PkgRecords ==
  [state : {"none", "running", "failed", "complete"},
   action : {"none", "install", "rollback", "remove"}, pkg : Packages1 \cup {NoPkg}]

Databases == [PkgNames -> Packages1 \cup {NoPkg, Junk}]

PkgFiles == [PkgPaths -> Packages1 \cup {NoPkg, Junk, ByScript}]

Works ==
  [file : PkgFiles, store : Databases, meta : Databases, snap : Databases, tx : PkgRecords,
   known : SUBSET PkgNames, hurt : SUBSET PkgNames, torn : SUBSET PkgNames]

\* The stages of the calls: what an install and a rollback go through, what
\* only a rollback does, and a removal.
Installing == {"begin", "replay", "store", "meta", "stored", "unfile", "undb1", "undb2", "refile",
               "undone"}
RollingBack == {"rolling", "loading", "unrolled", "dropsnap", "restored"}
Removing == {"removing", "snap", "preremove", "rmfiles", "rmmeta", "rmstore", "refile", "backstore",
             "dropsnap", "kept", "postremove", "removed"}

CallStages == {"idle"} \cup Installing \cup RollingBack \cup Removing

PkgCalls ==
  [kind : {"idle", "install", "rollback", "remove"}, pkg : Packages1 \cup {NoPkg},
   from : {"main", "roll"}, old : Packages1 \cup {NoPkg}, oldMeta : Packages1 \cup {NoPkg, Junk},
   stage : CallStages, pos : Nat \ {0}, db : BOOLEAN,
   left : SUBSET PkgPaths]

\* The entries of a name agree, or it was hurt or cut off.
Agree(w, m) == m \in w.hurt \cup w.torn \/ w.meta[m] = w.store[m]

\* The files of the package stored under a name are its own.
WholeIn(fs, g) == IsManifest(g) => \A p \in OwnFiles(g) : fs[p] = g

Held(w) == \A m \in PkgNames : {w.store[m], w.meta[m], w.snap[m]} \subseteq HeldBy(m)

\* What the record says happened to its package.
RecordHolds(w) ==
  /\ w.tx.state # "none" => w.tx.pkg \in Packages1
  /\ w.tx.state = "complete" =>
       w.meta[w.tx.pkg[1]] = (IF w.tx.action = "remove" THEN NoPkg ELSE w.tx.pkg)
  /\ <<w.tx.state, w.tx.action>> \in {<<"complete", "remove">>, <<"failed", "rollback">>} =>
       w.snap[w.tx.pkg[1]] = w.tx.pkg

Keeps(w) ==
  \A m \in w.known \ w.hurt : IsManifest(w.store[m]) \/ IsManifest(w.snap[m]) \/ w.store[m] = Junk

\* Only the package of a running record may disagree.
RunningAlone(w) ==
  \A m \in PkgNames : (w.tx.state = "running" /\ w.tx.pkg[1] = m) \/ Agree(w, m)

\* What holds of the tree at every step, and so of every tree on the disk.
TreeSound(w) == w \in Works /\ Held(w) /\ RecordHolds(w) /\ Keeps(w) /\ RunningAlone(w)

Busy(c, m) == c.stage # "idle" /\ m = c.pkg[1]

\* The stages in which the entries of the name may disagree, those in which a
\* refused write may have spoilt the manifest, and those in which files are
\* missing.
Spoiling(c) == c.stage \in {"undb1", "undb2"} \/ (c.stage = "unfile" /\ c.db)
Transit(c) == c.stage \in {"meta", "rmstore"} \/ Spoiling(c)
Unwhole == {"replay", "store", "unfile", "undb1", "undb2", "refile", "rmfiles", "rmmeta", "rmstore"}

OthersAgree(w, c) == \A m \in PkgNames : ~(Busy(c, m) /\ Transit(c)) => Agree(w, m)
OthersParse(w, c) ==
  \A m \in PkgNames \ w.hurt : ~(Busy(c, m) /\ Spoiling(c)) => w.store[m] # Junk
OthersWhole(w, c) ==
  \A m \in PkgNames \ w.hurt : ~(Busy(c, m) /\ c.stage \in Unwhole) => WholeIn(w.file, w.store[m])

\* The call in progress, and the buffers.
CallKnown(c, buf, roll) ==
  /\ c \in PkgCalls
  /\ c.stage # "idle" =>
       /\ c.pkg \in Packages1 /\ c.kind # "idle"
       /\ c.kind # "remove" => c.stage \in Installing \cup RollingBack
       /\ c.kind = "install" => c.stage \in Installing
       /\ c.kind = "remove" => c.stage \in Removing /\ c.old = c.pkg
       /\ c.from = IF c.kind = "rollback" THEN "roll" ELSE "main"
       /\ c.kind # "rollback" => buf = c.pkg
       /\ c.kind = "rollback" =>
            \/ roll = c.pkg
            \/ c.stage \notin {"rolling", "loading"} /\ roll \in {Junk, c.old} \ {NoPkg}

\* What the call would put back is what was there.
PutsBack(c, w) ==
  LET n == c.pkg[1]
  IN  /\ c.kind # "remove" /\ c.stage \in Installing =>
           /\ c.old \in HeldBy(n) /\ c.old # Junk /\ c.oldMeta \in HeldBy(n)
           /\ c.oldMeta = c.old \/ n \in w.hurt \cup w.torn
           /\ c.old = NoPkg /\ n \in w.known \ w.hurt => IsManifest(w.snap[n])
      /\ c.stage \in {"begin", "replay", "store", "refile"} \/ (c.stage = "unfile" /\ ~c.db) =>
           n \in w.hurt \/ (IsManifest(w.store[n]) => w.store[n] = c.old)
      /\ c.stage = "refile" => c.old \in Packages1
      /\ c.stage = "undb2" =>
           IF c.old = NoPkg THEN w.meta[n] = NoPkg ELSE n \in w.hurt \/ w.store[n] = c.old

\* What the call has done to the database.
HasDone(c, w, whole) ==
  LET n == c.pkg[1]
      last == c.kind = "rollback" /\ c.stage \in {"dropsnap", "restored"}
  IN  /\ c.stage \in {"meta", "stored"} \/ last =>
           IF whole THEN w.store[n] = c.pkg /\ WholeIn(w.file, c.pkg) ELSE n \in w.hurt
      /\ c.stage = "stored" \/ last => w.meta[n] = c.pkg
      /\ c.kind = "rollback" /\ c.stage \notin {"idle", "restored"} => w.snap[n] = c.pkg
      /\ c.kind = "remove" =>
           /\ c.stage \in {"postremove", "removed"} \/ n \in w.hurt \/ w.store[n] = c.pkg
           /\ c.stage = "rmstore" => w.meta[n] = NoPkg
           /\ c.stage \in {"postremove", "removed"} => w.store[n] = NoPkg /\ w.meta[n] = NoPkg
           /\ c.stage \notin {"idle", "removing", "snap", "kept", "dropsnap"} => w.snap[n] = c.pkg

\* The files written so far, and those still to be deleted or written.
Writes(c, w, payload) ==
  /\ c.stage = "begin" => c.pos = 1
  /\ c.stage = "replay" =>
       \A i \in DOMAIN PayloadOf[payload] :
         LET item == PayloadOf[payload][i]
         IN  i < c.pos /\ item.k = "file" /\ item.p \in OwnFiles(payload) =>
               w.file[item.p] = payload
  /\ c.stage = "store" => \A p \in OwnFiles(payload) : w.file[p] = payload
  /\ c.stage = "refile" =>
       c.pkg[1] \in w.hurt \/ \A p \in OwnFiles(c.old) \ c.left : w.file[p] = c.old
  /\ c.stage # "idle" =>
       \A p \in c.left : \E g \in Packages1 : g[1] = c.pkg[1] /\ p \in FilesOf(g)

\* The stages before the first record of a call, and those after the last
\* that says it runs.
Unrecorded(c) ==
  c.stage \in {"idle", "rolling", "removing"} \/ (c.stage = "begin" /\ c.kind = "install")
Closing(c) ==
  c.stage \in {"unrolled", "restored"} \/ (c.stage = "dropsnap" /\ c.kind = "rollback")

RecordRuns(c, w, cut) ==
  LET tx == w.tx
  IN  /\ Unrecorded(c) => cut \/ tx.state # "running"
      /\ c.stage \in {"dropsnap", "restored"} =>
           <<tx.state, tx.action>> \notin {<<"complete", "remove">>, <<"failed", "rollback">>}
      /\ ~Unrecorded(c) /\ ~Closing(c) =>
           \/ tx.state = "running" /\ tx.pkg = c.pkg
           \/ tx.state = "none" /\ c.pkg[1] \in w.torn

MemSound(w, c) == OthersAgree(w, c) /\ OthersParse(w, c) /\ OthersWhole(w, c)

PkgInv ==
  /\ TreeSound(pkMem) /\ TreeSound(pkDisk)
  /\ MemSound(pkMem, pkCall)
  /\ CallKnown(pkCall, pkBuf, pkRoll)
  /\ PutsBack(pkCall, pkMem)
  /\ HasDone(pkCall, pkMem, Parsed = pkCall.pkg)
  /\ Writes(pkCall, pkMem, Payload)
  /\ RecordRuns(pkCall, pkMem, pkCut)
-----------------------------------------------------------------------------
(* Packages and payloads.                                                  *)

LEMMA PackagesKnown ==
  /\ NoPkg \notin Packages1 /\ Junk \notin Packages1 /\ ByScript \notin Packages1
  /\ NoPkg # Junk
  /\ \A g \in Packages1 : g[1] \in PkgNames /\ g # NoPkg /\ g # Junk
  <1>1. ASSUME NEW g \in Packages1
        PROVE  g[1] \in PkgNames /\ g[2] # 0 /\ g = <<g[1], g[2]>>
    <2>1. g \in PkgNames \X (Nat \ {0})
      BY PackagesAssumption
    <2>2. QED
      BY <2>1
  <1>2. NoPkg[2] = 0 /\ Junk[2] = 0 /\ ByScript[2] = 0 /\ NoPkg[1] # Junk[1]
    BY DEF NoPkg, Junk, ByScript
  <1>3. QED
    BY <1>1, <1>2

LEMMA PayloadKnown ==
  ASSUME NEW g \in Packages1
  PROVE  /\ Len(PayloadOf[g]) \in Nat /\ DOMAIN PayloadOf[g] = 1 .. Len(PayloadOf[g])
         /\ \A i \in DOMAIN PayloadOf[g] : PayloadOf[g][i].k = "file" => PayloadOf[g][i].p \in PkgPaths
  <1> DEFINE Items == [k : {"file", "write"}, p : PkgPaths] \cup [k : {"sync", "bad"}, p : {""}]
             s == PayloadOf[g]
  <1>1. s \in Seq(Items)
    BY PackagesAssumption
  <1> HIDE DEF s
  <1>2. \A i \in 1 .. Len(s) : s[i] \in Items
    <2> HIDE DEF Items
    <2>1. QED
      BY <1>1
  <1>3. Len(s) \in Nat /\ DOMAIN s = 1 .. Len(s)
    <2> HIDE DEF Items
    <2>1. QED
      BY <1>1
  <1>4. QED
    BY <1>2, <1>3 DEF s

LEMMA ScriptKnown ==
  ASSUME NEW g \in Packages1, NEW s \in {PreRemoveOf[g], PostRemoveOf[g]}
  PROVE  Len(s) \in Nat /\ DOMAIN s = 1 .. Len(s)
  <1> DEFINE Items == [k : {"write"}, p : PkgPaths] \cup [k : {"sync", "bad"}, p : {""}]
  <1>1. s \in Seq(Items)
    BY PackagesAssumption
  <1> HIDE DEF Items
  <1>2. QED
    BY <1>1

\* An own file is listed by no other name and written by no script.
LEMMA OwnKnown ==
  ASSUME NEW g \in Packages1, NEW p \in OwnFiles(g)
  PROVE  /\ p \in FilesOf(g) /\ p \in PkgPaths
         /\ \A h \in Packages1 : h[1] # g[1] => p \notin FilesOf(h)
         /\ \A h \in Packages1 : \A s \in {PayloadOf[h], PreRemoveOf[h], PostRemoveOf[h]} :
              \A i \in DOMAIN s : s[i].k = "write" => s[i].p # p
  <1>1. p \in FilesOf(g) /\ \A h \in Packages1 : h[1] # g[1] => p \notin FilesOf(h)
    BY DEF OwnFiles
  <1>2. \A h \in Packages1 : \A s \in {PayloadOf[h], PreRemoveOf[h], PostRemoveOf[h]} :
          \A i \in DOMAIN s : s[i].k = "write" => s[i].p # p
    BY DEF OwnFiles
  <1>3. p \in PkgPaths
    BY <1>1, PayloadKnown DEF FilesOf
  <1>4. QED
    BY <1>1, <1>2, <1>3

\* A path that a call on the name n may write: one that a package of the name
\* lists, or that some script writes.
PathOf(n, q) ==
  \/ \E g \in Packages1 : g[1] = n /\ q \in FilesOf(g)
  \/ \E g \in Packages1 : \E s \in {PayloadOf[g], PreRemoveOf[g], PostRemoveOf[g]} :
       \E i \in DOMAIN s : s[i].k = "write" /\ s[i].p = q

LEMMA PathLeaves ==
  ASSUME NEW f \in PkgFiles, NEW n, NEW q, NEW v, PathOf(n, q),
         NEW h, h \in Packages1 => h[1] # n, WholeIn(f, h)
  PROVE  WholeIn([f EXCEPT ![q] = v], h)
  <1> SUFFICES ASSUME h \in Packages1, NEW p \in OwnFiles(h)
               PROVE  [f EXCEPT ![q] = v][p] = h
    BY DEF WholeIn, IsManifest
  <1>1. p \in PkgPaths /\ f[p] = h
    BY OwnKnown DEF WholeIn, IsManifest
  <1>2. p # q
    <2>1. ASSUME NEW g \in Packages1, g[1] = n, q \in FilesOf(g)
          PROVE  p # q
      BY <2>1, OwnKnown
    <2>2. ASSUME NEW g \in Packages1, NEW s \in {PayloadOf[g], PreRemoveOf[g], PostRemoveOf[g]},
                 NEW i \in DOMAIN s, s[i].k = "write", s[i].p = q
          PROVE  p # q
      BY <2>2, OwnKnown
    <2>3. QED
      BY <2>1, <2>2 DEF PathOf
  <1>3. QED
    BY <1>1, <1>2 DEF PkgFiles
-----------------------------------------------------------------------------
(* Trees.                                                                  *)

MadeTree(f, st, mt, sp, tx, k, h, t) ==
  [file |-> f, store |-> st, meta |-> mt, snap |-> sp, tx |-> tx, known |-> k, hurt |-> h, torn |-> t]

LEMMA FieldsKnown ==
  ASSUME NEW w \in Works
  PROVE  /\ w.file \in PkgFiles /\ w.store \in Databases /\ w.meta \in Databases
         /\ w.snap \in Databases /\ w.tx \in PkgRecords /\ w.known \in SUBSET PkgNames
         /\ w.hurt \in SUBSET PkgNames /\ w.torn \in SUBSET PkgNames
  BY DEF Works

LEMMA EntryChanges ==
  ASSUME NEW d \in Databases, NEW n \in PkgNames, NEW s \in Packages1 \cup {NoPkg, Junk}
  PROVE  /\ [d EXCEPT ![n] = s] \in Databases /\ [d EXCEPT ![n] = s][n] = s
         /\ \A m \in PkgNames : m # n => [d EXCEPT ![n] = s][m] = d[m]
  BY DEF Databases

LEMMA HeldKnown ==
  ASSUME NEW n, NEW s \in HeldBy(n)
  PROVE  s \in Packages1 \cup {NoPkg, Junk}
  BY DEF HeldBy

\* Nothing changes but the entries and the files of the name n.
Alone(w, v, n) ==
  /\ v \in Works
  /\ v.tx = w.tx /\ v.known = w.known /\ v.torn = w.torn
  /\ v.hurt \in {w.hurt, w.hurt \cup {n}}
  /\ {v.store[n], v.meta[n], v.snap[n]} \subseteq HeldBy(n)
  /\ \A m \in PkgNames : m # n =>
       /\ v.store[m] = w.store[m] /\ v.meta[m] = w.meta[m] /\ v.snap[m] = w.snap[m]
       /\ WholeIn(w.file, w.store[m]) => WholeIn(v.file, v.store[m])

WithFile(w, q, s) == [w EXCEPT !.file[q] = s]
WithStore(w, n, s) == [w EXCEPT !.store[n] = s]
WithMeta(w, n, s) == [w EXCEPT !.meta[n] = s]
WithSnap(w, n, s) == [w EXCEPT !.snap[n] = s]
WithHurt(u, n) == [u EXCEPT !.hurt = @ \cup {n}]

\* Nothing changes but files of the name n.
FilesAlone(w, v, n) ==
  /\ Alone(w, v, n)
  /\ v.store = w.store /\ v.meta = w.meta /\ v.snap = w.snap /\ v.hurt = w.hurt

LEMMA FileChanges ==
  ASSUME NEW w \in Works, Held(w), NEW n \in PkgNames, NEW q, PathOf(n, q),
         NEW s \in Packages1 \cup {NoPkg, Junk, ByScript}
  PROVE  FilesAlone(w, WithFile(w, q, s), n) /\ WithFile(w, q, s).file = [w.file EXCEPT ![q] = s]
  <1> DEFINE v == WithFile(w, q, s)
             f == [w.file EXCEPT ![q] = s]
  <1>0. /\ w.file \in PkgFiles /\ w.store \in Databases /\ w.meta \in Databases
        /\ w.snap \in Databases /\ w.tx \in PkgRecords /\ w.known \in SUBSET PkgNames
        /\ w.hurt \in SUBSET PkgNames /\ w.torn \in SUBSET PkgNames
    BY FieldsKnown
  <1>1. v = MadeTree(f, w.store, w.meta, w.snap, w.tx, w.known, w.hurt, w.torn)
    BY DEF MadeTree, Works, WithFile
  <1>2. f \in PkgFiles
    BY FieldsKnown DEF PkgFiles
  <1> HIDE DEF f, v
  <1>3. /\ v \in Works /\ v.file = f /\ v.store = w.store /\ v.meta = w.meta /\ v.snap = w.snap
        /\ v.tx = w.tx /\ v.known = w.known /\ v.hurt = w.hurt /\ v.torn = w.torn
    BY <1>0, <1>1, <1>2 DEF MadeTree, Works
  <1>4. ASSUME NEW m \in PkgNames, m # n, WholeIn(w.file, w.store[m])
        PROVE  WholeIn(f, w.store[m])
    <2>1. w.store[m] \in Packages1 => w.store[m][1] # n
      BY <1>4, PackagesKnown DEF Held, HeldBy
    <2>2. QED
      BY <1>0, <1>4, <2>1, PathLeaves DEF f
  <1>5. QED
    BY <1>3, <1>4 DEF FilesAlone, Alone, Held, f, v

LEMMA StoreChanges ==
  ASSUME NEW w \in Works, Held(w), NEW n \in PkgNames, NEW s \in HeldBy(n)
  PROVE  /\ Alone(w, WithStore(w, n, s), n) /\ WithStore(w, n, s).file = w.file
         /\ WithStore(w, n, s).store[n] = s
         /\ WithStore(w, n, s).meta = w.meta /\ WithStore(w, n, s).snap = w.snap /\ WithStore(w, n, s).hurt = w.hurt
  <1> DEFINE v == WithStore(w, n, s)
             d == [w.store EXCEPT ![n] = s]
  <1>0. /\ w.file \in PkgFiles /\ w.store \in Databases /\ w.meta \in Databases
        /\ w.snap \in Databases /\ w.tx \in PkgRecords /\ w.known \in SUBSET PkgNames
        /\ w.hurt \in SUBSET PkgNames /\ w.torn \in SUBSET PkgNames
    BY FieldsKnown
  <1>1. v = MadeTree(w.file, d, w.meta, w.snap, w.tx, w.known, w.hurt, w.torn)
    BY DEF MadeTree, Works, WithStore
  <1>2. d \in Databases /\ d[n] = s /\ \A m \in PkgNames : m # n => d[m] = w.store[m]
    BY <1>0, HeldKnown, EntryChanges
  <1> HIDE DEF d, v
  <1>3. /\ v \in Works /\ v.file = w.file /\ v.store = d /\ v.meta = w.meta /\ v.snap = w.snap
        /\ v.tx = w.tx /\ v.known = w.known /\ v.hurt = w.hurt /\ v.torn = w.torn
    BY <1>0, <1>1, <1>2 DEF MadeTree, Works
  <1>4. QED
    BY <1>2, <1>3 DEF Alone, Held, v

LEMMA MetaChanges ==
  ASSUME NEW w \in Works, Held(w), NEW n \in PkgNames, NEW s \in HeldBy(n)
  PROVE  /\ Alone(w, WithMeta(w, n, s), n) /\ WithMeta(w, n, s).file = w.file
         /\ WithMeta(w, n, s).meta[n] = s
         /\ WithMeta(w, n, s).store = w.store /\ WithMeta(w, n, s).snap = w.snap /\ WithMeta(w, n, s).hurt = w.hurt
  <1> DEFINE v == WithMeta(w, n, s)
             d == [w.meta EXCEPT ![n] = s]
  <1>0. /\ w.file \in PkgFiles /\ w.store \in Databases /\ w.meta \in Databases
        /\ w.snap \in Databases /\ w.tx \in PkgRecords /\ w.known \in SUBSET PkgNames
        /\ w.hurt \in SUBSET PkgNames /\ w.torn \in SUBSET PkgNames
    BY FieldsKnown
  <1>1. v = MadeTree(w.file, w.store, d, w.snap, w.tx, w.known, w.hurt, w.torn)
    BY DEF MadeTree, Works, WithMeta
  <1>2. d \in Databases /\ d[n] = s /\ \A m \in PkgNames : m # n => d[m] = w.meta[m]
    BY <1>0, HeldKnown, EntryChanges
  <1> HIDE DEF d, v
  <1>3. /\ v \in Works /\ v.file = w.file /\ v.store = w.store /\ v.meta = d /\ v.snap = w.snap
        /\ v.tx = w.tx /\ v.known = w.known /\ v.hurt = w.hurt /\ v.torn = w.torn
    BY <1>0, <1>1, <1>2 DEF MadeTree, Works
  <1>4. QED
    BY <1>2, <1>3 DEF Alone, Held, v

LEMMA SnapChanges ==
  ASSUME NEW w \in Works, Held(w), NEW n \in PkgNames, NEW s \in HeldBy(n)
  PROVE  /\ Alone(w, WithSnap(w, n, s), n) /\ WithSnap(w, n, s).file = w.file
         /\ WithSnap(w, n, s).snap[n] = s
         /\ WithSnap(w, n, s).store = w.store /\ WithSnap(w, n, s).meta = w.meta /\ WithSnap(w, n, s).hurt = w.hurt
  <1> DEFINE v == WithSnap(w, n, s)
             d == [w.snap EXCEPT ![n] = s]
  <1>0. /\ w.file \in PkgFiles /\ w.store \in Databases /\ w.meta \in Databases
        /\ w.snap \in Databases /\ w.tx \in PkgRecords /\ w.known \in SUBSET PkgNames
        /\ w.hurt \in SUBSET PkgNames /\ w.torn \in SUBSET PkgNames
    BY FieldsKnown
  <1>1. v = MadeTree(w.file, w.store, w.meta, d, w.tx, w.known, w.hurt, w.torn)
    BY DEF MadeTree, Works, WithSnap
  <1>2. d \in Databases /\ d[n] = s /\ \A m \in PkgNames : m # n => d[m] = w.snap[m]
    BY <1>0, HeldKnown, EntryChanges
  <1> HIDE DEF d, v
  <1>3. /\ v \in Works /\ v.file = w.file /\ v.store = w.store /\ v.meta = w.meta /\ v.snap = d
        /\ v.tx = w.tx /\ v.known = w.known /\ v.hurt = w.hurt /\ v.torn = w.torn
    BY <1>0, <1>1, <1>2 DEF MadeTree, Works
  <1>4. QED
    BY <1>2, <1>3 DEF Alone, Held, v

LEMMA HurtChanges ==
  ASSUME NEW w \in Works, NEW n \in PkgNames, NEW u, Alone(w, u, n), u.hurt = w.hurt
  PROVE  /\ Alone(w, WithHurt(u, n), n) /\ WithHurt(u, n).file = u.file
         /\ WithHurt(u, n).store = u.store /\ WithHurt(u, n).meta = u.meta
         /\ WithHurt(u, n).snap = u.snap /\ WithHurt(u, n).hurt = w.hurt \cup {n}
  <1> DEFINE v == WithHurt(u, n)
             h == u.hurt \cup {n}
  <1>1. u \in Works
    BY DEF Alone
  <1>0. /\ u.file \in PkgFiles /\ u.store \in Databases /\ u.meta \in Databases
        /\ u.snap \in Databases /\ u.tx \in PkgRecords /\ u.known \in SUBSET PkgNames
        /\ u.hurt \in SUBSET PkgNames /\ u.torn \in SUBSET PkgNames
    BY <1>1, FieldsKnown
  <1>2. v = MadeTree(u.file, u.store, u.meta, u.snap, u.tx, u.known, h, u.torn)
    BY <1>1 DEF MadeTree, Works, WithHurt
  <1>3. h \in SUBSET PkgNames
    BY <1>1, FieldsKnown
  <1> HIDE DEF h, v
  <1>4. /\ v \in Works /\ v.file = u.file /\ v.store = u.store /\ v.meta = u.meta /\ v.snap = u.snap
        /\ v.tx = u.tx /\ v.known = u.known /\ v.hurt = h /\ v.torn = u.torn
    <2>1. /\ v.file = u.file /\ v.store = u.store /\ v.meta = u.meta /\ v.snap = u.snap
          /\ v.tx = u.tx /\ v.known = u.known /\ v.hurt = h /\ v.torn = u.torn
      BY <1>2 DEF MadeTree
    <2>2. v \in Works
      BY <1>0, <1>2, <1>3 DEF MadeTree, Works
    <2>3. QED
      BY <2>1, <2>2
  <1>5. QED
    BY <1>4 DEF Alone, h, v
-----------------------------------------------------------------------------
(* A step in the middle of a call.                                         *)

Midway(c) == ~Unrecorded(c) /\ ~Closing(c)

LEMMA CallFacts ==
  ASSUME PkgInv, pkCall.stage # "idle"
  PROVE  /\ pkMem \in Works /\ Held(pkMem) /\ pkCall \in PkgCalls
         /\ pkCall.pkg \in Packages1 /\ Name \in PkgNames /\ Name = pkCall.pkg[1]
         /\ pkCall.pkg \in HeldBy(Name)
  BY PackagesKnown DEF PkgInv, TreeSound, CallKnown, Name, HeldBy

LEMMA PayloadFacts ==
  ASSUME PkgInv, pkCall.stage # "idle", pkCall.stage \in Installing \/ pkCall.kind = "remove"
  PROVE  /\ Payload \in Packages1 /\ Payload[1] = Name
         /\ Parsed \in {Junk, Payload} /\ (Parsed = Junk => pkCall.kind = "rollback")
         /\ (pkCall.kind # "rollback" => Parsed = pkCall.pkg /\ Payload = pkCall.pkg)
  <1>2. /\ pkCall.pkg \in Packages1 /\ Name = pkCall.pkg[1] /\ CallKnown(pkCall, pkBuf, pkRoll)
        /\ PutsBack(pkCall, pkMem)
    BY CallFacts DEF PkgInv
  <1>3. CASE pkCall.kind # "rollback"
    <2>1. Parsed = pkCall.pkg
      BY <1>2, <1>3 DEF CallKnown, Parsed
    <2>2. QED
      BY <1>2, <1>3, <2>1, PackagesKnown DEF Payload
  <1>4. CASE pkCall.kind = "rollback"
    <2>1. Parsed = pkRoll /\ (pkRoll = pkCall.pkg \/ pkRoll \in {Junk, pkCall.old} \ {NoPkg})
      BY <1>2, <1>4 DEF CallKnown, Parsed
    <2>2. pkRoll = pkCall.pkg \/ pkRoll = Junk \/ (pkRoll = pkCall.old /\ pkRoll \in HeldBy(Name))
      BY <1>2, <1>4, <2>1 DEF PutsBack
    <2>3. QED
      BY <1>2, <1>4, <2>1, <2>2, PackagesKnown DEF Payload, HeldBy
  <1>5. QED
    BY <1>3, <1>4

\* The step leaves every other name alone, and what the invariant says of the
\* name of the call holds again.
LEMMA TreeMoves ==
  ASSUME PkgInv, Midway(pkCall), NEW v, Alone(pkMem, v, Name),
         Name \in v.known \ v.hurt =>
           IsManifest(v.store[Name]) \/ IsManifest(v.snap[Name]) \/ v.store[Name] = Junk
  PROVE  TreeSound(v)
  <1>1. /\ TreeSound(pkMem) /\ RecordRuns(pkCall, pkMem, pkCut) /\ pkCall.stage # "idle"
    BY DEF PkgInv, Midway, Unrecorded
  <1>2. pkCall.pkg \in Packages1 /\ Name = pkCall.pkg[1] /\ Name \in PkgNames
    BY <1>1, CallFacts
  <1>3. \/ v.tx.state = "running" /\ v.tx.pkg = pkCall.pkg
        \/ v.tx.state = "none" /\ Name \in v.torn
    BY <1>1, <1>2 DEF RecordRuns, Midway, Alone
  <1>4. v \in Works /\ Held(v)
    BY <1>1 DEF Alone, TreeSound, Held
  <1>5. RecordHolds(v)
    BY <1>2, <1>3 DEF RecordHolds
  <1>6. Keeps(v)
    BY <1>1, <1>2, <1>4, FieldsKnown DEF Keeps, TreeSound, Alone
  <1>7. RunningAlone(v)
    <2> SUFFICES ASSUME NEW m \in PkgNames
                 PROVE  (v.tx.state = "running" /\ v.tx.pkg[1] = m) \/ Agree(v, m)
      BY DEF RunningAlone
    <2>1. CASE m = Name
      BY <1>2, <1>3, <2>1 DEF Agree
    <2>2. CASE m # Name
      <3>1. Agree(pkMem, m)
        BY <1>1, <1>2, <1>3, <2>2 DEF TreeSound, RunningAlone, Alone
      <3>2. QED
        BY <2>2, <3>1 DEF Agree, Alone
    <2>3. QED
      BY <2>1, <2>2
  <1>8. QED
    BY <1>4, <1>5, <1>6, <1>7 DEF TreeSound

LEMMA OthersMove ==
  ASSUME PkgInv, pkCall.stage # "idle", NEW v, Alone(pkMem, v, Name), NEW d,
         (Transit(d) /\ Busy(d, Name)) \/ Agree(v, Name),
         Name \in v.hurt \/ (Spoiling(d) /\ Busy(d, Name)) \/ v.store[Name] # Junk,
         Name \in v.hurt \/ (d.stage \in Unwhole /\ Busy(d, Name)) \/ WholeIn(v.file, v.store[Name])
  PROVE  MemSound(v, d)
  <1>1. MemSound(pkMem, pkCall) /\ Name = pkCall.pkg[1]
    BY CallFacts DEF PkgInv
  <1>2. ASSUME NEW m \in PkgNames, m # Name
        PROVE  /\ Agree(v, m)
               /\ m \in v.hurt \/ v.store[m] # Junk
               /\ m \in v.hurt \/ WholeIn(v.file, v.store[m])
    <2>1. ~Busy(pkCall, m)
      BY <1>1, <1>2 DEF Busy
    <2>2. /\ Agree(pkMem, m)
          /\ m \in pkMem.hurt \/ pkMem.store[m] # Junk
          /\ m \in pkMem.hurt \/ WholeIn(pkMem.file, pkMem.store[m])
      BY <1>1, <2>1 DEF MemSound, OthersAgree, OthersParse, OthersWhole
    <2>3. QED
      BY <1>2, <2>2 DEF Agree, Alone
  <1>3. OthersAgree(v, d)
    <2> SUFFICES ASSUME NEW m \in PkgNames, ~(Busy(d, m) /\ Transit(d)) PROVE Agree(v, m)
      BY DEF OthersAgree
    <2>1. CASE m = Name
      BY <2>1
    <2>2. QED
      BY <1>2, <2>1
  <1>4. OthersParse(v, d)
    BY <1>2 DEF OthersParse
  <1>5. OthersWhole(v, d)
    BY <1>2 DEF OthersWhole
  <1>6. QED
    BY <1>3, <1>4, <1>5 DEF MemSound

\* The call goes on.
GoesOn(c, d) ==
  /\ d \in PkgCalls
  /\ d.kind = c.kind /\ d.pkg = c.pkg /\ d.from = c.from /\ d.old = c.old /\ d.oldMeta = c.oldMeta

LEMMA CallMoves ==
  ASSUME PkgInv, Midway(pkCall), Alone(pkMem, pkMem', Name), pkDisk' \in {pkMem', pkDisk},
         UNCHANGED <<pkBuf, pkRoll, pkCut>>,
         GoesOn(pkCall, pkCall'), Midway(pkCall'),
         IF pkCall.kind = "remove" THEN pkCall'.stage \in Removing ELSE pkCall'.stage \in Installing,
         Name \in pkMem'.known \ pkMem'.hurt =>
           IsManifest(pkMem'.store[Name]) \/ IsManifest(pkMem'.snap[Name]) \/ pkMem'.store[Name] = Junk,
         Transit(pkCall') \/ Agree(pkMem', Name),
         Name \in pkMem'.hurt \/ Spoiling(pkCall') \/ pkMem'.store[Name] # Junk,
         Name \in pkMem'.hurt \/ pkCall'.stage \in Unwhole \/ WholeIn(pkMem'.file, pkMem'.store[Name]),
         PutsBack(pkCall', pkMem'), HasDone(pkCall', pkMem', Parsed = pkCall.pkg),
         Writes(pkCall', pkMem', Payload)
  PROVE  PkgInv'
  <1>1. pkCall.stage # "idle" /\ pkCall'.stage # "idle"
    BY DEF Midway, Unrecorded
  <1>2. TreeSound(pkMem') /\ TreeSound(pkDisk')
    BY TreeMoves DEF PkgInv
  <1>3. Busy(pkCall', Name)
    BY <1>1 DEF Busy, GoesOn, Name
  <1>4. MemSound(pkMem', pkCall')
    BY <1>1, <1>3, OthersMove
  <1>5. Parsed' = Parsed /\ Payload' = Payload
    BY DEF GoesOn, Parsed, Payload
  <1>6. CallKnown(pkCall', pkBuf', pkRoll')
    <2>1. CallKnown(pkCall, pkBuf, pkRoll)
      BY DEF PkgInv
    <2>2. pkCall'.stage \notin {"rolling", "loading"} \/ pkCall.kind = "remove"
      BY DEF Installing, Removing
    <2>3. QED
      BY <1>1, <2>1, <2>2 DEF CallKnown, GoesOn
  <1>7. RecordRuns(pkCall', pkMem', pkCut')
    <2>1. \/ pkMem'.tx.state = "running" /\ pkMem'.tx.pkg = pkCall'.pkg
          \/ pkMem'.tx.state = "none" /\ pkCall'.pkg[1] \in pkMem'.torn
      BY DEF PkgInv, RecordRuns, Midway, Alone, GoesOn
    <2>2. QED
      BY <2>1 DEF RecordRuns, Midway
  <1>8. QED
    BY <1>2, <1>4, <1>5, <1>6, <1>7 DEF PkgInv, GoesOn
-----------------------------------------------------------------------------
(* Installing.                                                             *)

LEMMA FilesKnown ==
  ASSUME NEW g \in Packages1
  PROVE  FilesOf(g) \in SUBSET PkgPaths /\ OwnFiles(g) \subseteq FilesOf(g)
  BY PayloadKnown DEF FilesOf, OwnFiles

LEMMA SameAlone ==
  ASSUME NEW w \in Works, Held(w), NEW n \in PkgNames
  PROVE  FilesAlone(w, w, n)
  BY DEF FilesAlone, Alone, Held

LEMMA WroteSaves ==
  ASSUME NEW mem, Wrote(mem) \/ Refused(mem)
  PROVE  pkMem' = mem /\ pkDisk' \in {pkMem', pkDisk}
  BY DEF Wrote, Refused

\* What the invariant says of the name of the call.
LEMMA NameFacts ==
  ASSUME PkgInv, pkCall.stage # "idle"
  PROVE  /\ Name \in pkMem.known \ pkMem.hurt =>
              IsManifest(pkMem.store[Name]) \/ IsManifest(pkMem.snap[Name]) \/ pkMem.store[Name] = Junk
         /\ Transit(pkCall) \/ Agree(pkMem, Name)
         /\ Name \in pkMem.hurt \/ Spoiling(pkCall) \/ pkMem.store[Name] # Junk
         /\ Name \in pkMem.hurt \/ pkCall.stage \in Unwhole \/ WholeIn(pkMem.file, pkMem.store[Name])
         /\ PutsBack(pkCall, pkMem) /\ HasDone(pkCall, pkMem, Parsed = pkCall.pkg)
         /\ Writes(pkCall, pkMem, Payload)
  <1>1. Name \in PkgNames /\ Name = pkCall.pkg[1]
    BY CallFacts
  <1>2. TreeSound(pkMem) /\ MemSound(pkMem, pkCall) /\ Busy(pkCall, Name)
    BY <1>1 DEF PkgInv, Busy
  <1>3. QED
    BY <1>1, <1>2 DEF PkgInv, TreeSound, Keeps, MemSound, OthersAgree, OthersParse, OthersWhole

LEMMA ReplayItemKeeps == PkgInv /\ ReplayItem => PkgInv'
  <1> SUFFICES ASSUME PkgInv, ReplayItem PROVE PkgInv'
    OBVIOUS
  <1> DEFINE items == PayloadOf[Payload]
             item == items[pkCall.pos]
  <1>1. /\ pkCall.stage = "replay" /\ pkCall.pos \in DOMAIN items
        /\ pkCall' = [pkCall EXCEPT !.pos = @ + 1] /\ UNCHANGED <<pkBuf, pkRoll, pkCut>>
    BY DEF ReplayItem
  <1>2. /\ pkMem \in Works /\ Held(pkMem) /\ pkCall \in PkgCalls /\ Name \in PkgNames
        /\ Payload \in Packages1 /\ Payload[1] = Name
    BY <1>1, CallFacts, PayloadFacts DEF Installing
  <1>3. /\ GoesOn(pkCall, pkCall') /\ pkCall'.stage = "replay" /\ pkCall'.db = pkCall.db
        /\ pkCall'.left = pkCall.left /\ pkCall'.pos = pkCall.pos + 1 /\ pkCall.pos \in Nat
    <2> DEFINE q == pkCall.pos + 1
    <2>1. q \in Nat \ {0} /\ pkCall.pos \in Nat
      BY <1>2 DEF PkgCalls
    <2>2. pkCall' = [pkCall EXCEPT !.pos = q]
      BY <1>1
    <2> HIDE DEF q
    <2>3. /\ GoesOn(pkCall, pkCall') /\ pkCall'.stage = "replay" /\ pkCall'.db = pkCall.db
          /\ pkCall'.left = pkCall.left /\ pkCall'.pos = q
      BY <1>1, <1>2, <2>1, <2>2 DEF PkgCalls, GoesOn
    <2>4. QED
      BY <2>1, <2>3 DEF q
  <1>4. /\ FilesAlone(pkMem, pkMem', Name) /\ pkDisk' \in {pkMem', pkDisk}
        /\ \A p \in PkgPaths : p \in OwnFiles(Payload) =>
             pkMem'.file[p] = IF item.k = "file" /\ item.p = p THEN Payload ELSE pkMem.file[p]
    <2>1. CASE item.k = "file"
      <3>1. Wrote([pkMem EXCEPT !.file[item.p] = Payload])
        BY <1>1, <2>1 DEF ReplayItem
      <3>2. pkMem' = [pkMem EXCEPT !.file[item.p] = Payload] /\ pkDisk' \in {pkMem', pkDisk}
        BY <3>1, WroteSaves
      <3>3. item.p \in FilesOf(Payload)
        BY <1>1, <2>1 DEF FilesOf
      <3>4. PathOf(Name, item.p)
        BY <1>2, <3>3 DEF PathOf
      <3> HIDE DEF item
      <3>5. FilesAlone(pkMem, pkMem', Name) /\ pkMem'.file = [pkMem.file EXCEPT ![item.p] = Payload]
        <4>1. pkMem' = WithFile(pkMem, item.p, Payload)
          BY <3>2 DEF WithFile
        <4>2. QED
          BY <1>2, <3>4, <4>1, FileChanges
      <3>6. pkMem.file \in PkgFiles
        BY <1>2, FieldsKnown
      <3>7. QED
        BY <2>1, <3>2, <3>5, <3>6 DEF PkgFiles
    <2>2. CASE item.k = "write"
      <3>1. Wrote([pkMem EXCEPT !.file[item.p] = ByScript])
        BY <1>1, <2>2 DEF ReplayItem
      <3>2. pkMem' = [pkMem EXCEPT !.file[item.p] = ByScript] /\ pkDisk' \in {pkMem', pkDisk}
        BY <3>1, WroteSaves
      <3>4. PathOf(Name, item.p)
        BY <1>1, <1>2, <2>2 DEF PathOf
      <3>5. \A p \in OwnFiles(Payload) : p # item.p
        BY <1>1, <1>2, <2>2, OwnKnown
      <3> HIDE DEF item
      <3>6. FilesAlone(pkMem, pkMem', Name) /\ pkMem'.file = [pkMem.file EXCEPT ![item.p] = ByScript]
        <4>1. pkMem' = WithFile(pkMem, item.p, ByScript)
          BY <3>2 DEF WithFile
        <4>2. QED
          BY <1>2, <3>4, <4>1, FileChanges
      <3>7. pkMem.file \in PkgFiles
        BY <1>2, FieldsKnown
      <3>8. QED
        BY <2>2, <3>2, <3>5, <3>6, <3>7 DEF PkgFiles
    <2>3. CASE item.k = "sync"
      <3>1. pkMem' = pkMem /\ pkDisk' = pkMem
        BY <1>1, <2>3 DEF ReplayItem
      <3>2. QED
        BY <1>2, <2>3, <3>1, SameAlone
    <2>4. QED
      BY <1>1, <2>1, <2>2, <2>3 DEF ReplayItem
  <1>5. Midway(pkCall) /\ Midway(pkCall') /\ "replay" \in Installing /\ "replay" \notin Removing
    BY <1>1, <1>3 DEF Midway, Unrecorded, Closing, Installing, Removing
  <1>6. Writes(pkCall', pkMem', Payload)
    <2>1. ASSUME NEW i \in DOMAIN items, i < pkCall.pos + 1, items[i].k = "file",
                 items[i].p \in OwnFiles(Payload)
          PROVE  pkMem'.file[items[i].p] = Payload
      <3>1. items[i].p \in PkgPaths
        BY <1>2, <2>1, OwnKnown
      <3>2. i \in Nat /\ pkCall.pos \in Nat
        BY <1>2, <1>3, PayloadKnown
      <3>3. CASE i = pkCall.pos
        BY <1>4, <2>1, <3>1, <3>3
      <3>4. CASE i < pkCall.pos
        <4>1. pkMem.file[items[i].p] = Payload
          BY <1>1, <2>1, <3>4, NameFacts DEF Writes
        <4>2. QED
          BY <1>4, <2>1, <3>1, <4>1
      <3>5. QED
        BY <2>1, <3>2, <3>3, <3>4
    <2>2. \A p \in pkCall.left : \E g \in Packages1 : g[1] = pkCall.pkg[1] /\ p \in FilesOf(g)
      BY <1>1, NameFacts DEF Writes
    <2> HIDE DEF items
    <2>3. QED
      BY <1>3, <2>1, <2>2 DEF Writes, GoesOn, items
  <1>7. PutsBack(pkCall', pkMem')
    BY <1>1, <1>3, <1>4, NameFacts DEF PutsBack, GoesOn, FilesAlone, Alone
  <1>8. HasDone(pkCall', pkMem', Parsed = pkCall.pkg)
    BY <1>1, <1>3, <1>4, NameFacts DEF HasDone, GoesOn, FilesAlone
  <1>9. pkCall.kind # "remove"
    BY <1>1, <1>5 DEF PkgInv, CallKnown
  <1>10. "replay" \in Unwhole /\ ~Transit(pkCall) /\ ~Spoiling(pkCall)
    BY <1>1 DEF Unwhole, Transit, Spoiling
  <1>11. Agree(pkMem', Name) /\ (Name \in pkMem'.hurt \/ pkMem'.store[Name] # Junk)
    BY <1>1, <1>4, <1>10, NameFacts DEF Agree, FilesAlone, Alone
  <1>12. Name \in pkMem'.known \ pkMem'.hurt =>
           IsManifest(pkMem'.store[Name]) \/ IsManifest(pkMem'.snap[Name]) \/ pkMem'.store[Name] = Junk
    BY <1>1, <1>4, NameFacts DEF FilesAlone, Alone
  <1>13. QED
    BY <1>1, <1>3, <1>4, <1>5, <1>6, <1>7, <1>8, <1>9, <1>10, <1>11, <1>12, CallMoves DEF FilesAlone

AtStage(c, s) == [c EXCEPT !.stage = s]
WithLeft(c, l) == [c EXCEPT !.left = l]
WithFiles(c, s, l) == [c EXCEPT !.stage = s, !.left = l]
Undoing(c, b, l) == [c EXCEPT !.stage = "unfile", !.db = b, !.left = l]

LEMMA StageChanges ==
  ASSUME NEW c \in PkgCalls, NEW s \in CallStages
  PROVE  /\ GoesOn(c, AtStage(c, s)) /\ AtStage(c, s).stage = s
         /\ AtStage(c, s).pos = c.pos /\ AtStage(c, s).db = c.db /\ AtStage(c, s).left = c.left
  BY DEF PkgCalls, GoesOn, AtStage

LEMMA LeftChanges ==
  ASSUME NEW c \in PkgCalls, NEW l \in SUBSET PkgPaths
  PROVE  /\ GoesOn(c, WithLeft(c, l)) /\ WithLeft(c, l).stage = c.stage
         /\ WithLeft(c, l).pos = c.pos /\ WithLeft(c, l).db = c.db /\ WithLeft(c, l).left = l
  BY DEF PkgCalls, GoesOn, WithLeft

LEMMA FilesTaken ==
  ASSUME NEW c \in PkgCalls, NEW s \in CallStages, NEW l \in SUBSET PkgPaths
  PROVE  /\ GoesOn(c, WithFiles(c, s, l)) /\ WithFiles(c, s, l).stage = s
         /\ WithFiles(c, s, l).pos = c.pos /\ WithFiles(c, s, l).db = c.db /\ WithFiles(c, s, l).left = l
  BY DEF PkgCalls, GoesOn, WithFiles

LEMMA UndoChanges ==
  ASSUME NEW c \in PkgCalls, NEW b \in BOOLEAN, NEW l \in SUBSET PkgPaths
  PROVE  /\ GoesOn(c, Undoing(c, b, l)) /\ Undoing(c, b, l).stage = "unfile"
         /\ Undoing(c, b, l).pos = c.pos /\ Undoing(c, b, l).db = b /\ Undoing(c, b, l).left = l
  <1>1. "unfile" \in CallStages
    BY DEF CallStages, Installing
  <1>2. QED
    BY <1>1 DEF PkgCalls, GoesOn, Undoing

\* What a refused write leaves may be kept under any name.
LEMMA SpoiltKnown ==
  ASSUME NEW g, NEW s \in Spoilt(g), NEW n
  PROVE  /\ s \in HeldBy(n) /\ (s = Junk \/ (s = NoPkg /\ g = NoPkg))
         /\ s \in Packages1 \cup {NoPkg, Junk, ByScript}
  BY DEF Spoilt, HeldBy

LEMMA UndoFacts ==
  ASSUME PkgInv, pkCall.stage \in {"replay", "store", "meta"}, NEW b \in BOOLEAN, Undo(b)
  PROVE  /\ GoesOn(pkCall, pkCall') /\ pkCall'.stage = "unfile" /\ pkCall'.db = b
         /\ pkCall'.left = FilesOf(Payload)
         /\ Midway(pkCall) /\ Midway(pkCall') /\ pkCall.kind # "remove" /\ "unfile" \in Installing
         /\ "unfile" \in Unwhole /\ Payload \in Packages1 /\ Payload[1] = Name
         /\ \A w : Writes(pkCall', w, Payload)
  <1>1. /\ pkCall \in PkgCalls /\ pkCall.stage # "idle" /\ pkCall.stage \in Installing
        /\ pkCall.stage \notin Removing /\ "unfile" \in Installing /\ "unfile" \in Unwhole
    BY CallFacts DEF Installing, Removing, Unwhole
  <1>2. Payload \in Packages1 /\ Payload[1] = Name /\ FilesOf(Payload) \in SUBSET PkgPaths
    BY <1>1, PayloadFacts, FilesKnown
  <1>3. pkCall' = [pkCall EXCEPT !.stage = "unfile", !.db = b, !.left = FilesOf(Payload)]
    BY DEF Undo
  <1>4. /\ GoesOn(pkCall, pkCall') /\ pkCall'.stage = "unfile" /\ pkCall'.db = b
        /\ pkCall'.left = FilesOf(Payload)
    <2>1. pkCall' = Undoing(pkCall, b, FilesOf(Payload))
      BY <1>3 DEF Undoing
    <2>2. QED
      BY <1>1, <1>2, <2>1, UndoChanges
  <1>5. Midway(pkCall) /\ Midway(pkCall')
    BY <1>4 DEF Midway, Unrecorded, Closing
  <1>6. pkCall.kind # "remove"
    BY <1>1 DEF PkgInv, CallKnown
  <1>7. \A w : Writes(pkCall', w, Payload)
    BY <1>2, <1>4 DEF Writes, GoesOn, Name
  <1>8. QED
    BY <1>1, <1>2, <1>4, <1>5, <1>6, <1>7

LEMMA ReplayFailsKeeps == PkgInv /\ ReplayFails => PkgInv'
  <1> SUFFICES ASSUME PkgInv, ReplayFails PROVE PkgInv'
    OBVIOUS
  <1> DEFINE items == PayloadOf[Payload]
             item == items[pkCall.pos]
  <1>1. pkCall.stage = "replay" /\ Undo(FALSE) /\ UNCHANGED <<pkBuf, pkRoll, pkCut>>
    BY DEF ReplayFails
  <1>2. /\ pkMem \in Works /\ Held(pkMem) /\ Name \in PkgNames /\ Name = pkCall.pkg[1]
    BY <1>1, CallFacts
  <1>3. /\ GoesOn(pkCall, pkCall') /\ pkCall'.stage = "unfile" /\ pkCall'.db = FALSE
        /\ Midway(pkCall) /\ Midway(pkCall') /\ pkCall.kind # "remove" /\ "unfile" \in Installing
        /\ "unfile" \in Unwhole /\ Payload \in Packages1 /\ Payload[1] = Name
        /\ Writes(pkCall', pkMem', Payload)
    BY <1>1, UndoFacts
  <1>4. FilesAlone(pkMem, pkMem', Name) /\ pkDisk' \in {pkMem', pkDisk}
    <2>1. CASE pkMem' = pkMem /\ pkDisk' = pkDisk
      BY <1>2, <2>1, SameAlone
    <2>2. CASE /\ pkCall.pos \in DOMAIN items /\ item.k \in {"file", "write"}
               /\ \E s \in Spoilt(pkMem.file[item.p]) : Refused([pkMem EXCEPT !.file[item.p] = s])
      <3> DEFINE q == item.p
      <3>1. PathOf(Name, q)
        <4>1. CASE item.k = "file"
          <5>1. q \in FilesOf(Payload)
            BY <2>2, <4>1 DEF FilesOf
          <5>2. QED
            BY <1>3, <5>1 DEF PathOf
        <4>2. CASE item.k = "write"
          BY <1>3, <2>2, <4>2 DEF PathOf
        <4>3. QED
          BY <2>2, <4>1, <4>2
      <3>2. PICK s \in Spoilt(pkMem.file[q]) : Refused([pkMem EXCEPT !.file[q] = s])
        BY <2>2
      <3> HIDE DEF q
      <3>3. s \in Packages1 \cup {NoPkg, Junk, ByScript}
        BY SpoiltKnown
      <3>4. pkMem' = WithFile(pkMem, q, s) /\ pkDisk' \in {pkMem', pkDisk}
        BY <3>2, WroteSaves DEF WithFile
      <3>5. FilesAlone(pkMem, WithFile(pkMem, q, s), Name)
        BY <1>2, <3>1, <3>3, FileChanges
      <3>6. QED
        BY <3>4, <3>5
    <2>3. QED
      BY <2>1, <2>2 DEF ReplayFails
  <1>5. PutsBack(pkCall', pkMem')
    BY <1>1, <1>3, <1>4, NameFacts DEF PutsBack, GoesOn, FilesAlone, Alone, Installing
  <1>6. HasDone(pkCall', pkMem', Parsed = pkCall.pkg)
    BY <1>1, <1>3, <1>4, NameFacts DEF HasDone, GoesOn, FilesAlone
  <1>7. ~Transit(pkCall) /\ ~Spoiling(pkCall)
    BY <1>1 DEF Transit, Spoiling
  <1>8. /\ Agree(pkMem', Name) /\ (Name \in pkMem'.hurt \/ pkMem'.store[Name] # Junk)
        /\ Name \in pkMem'.known \ pkMem'.hurt =>
             IsManifest(pkMem'.store[Name]) \/ IsManifest(pkMem'.snap[Name]) \/ pkMem'.store[Name] = Junk
    BY <1>1, <1>4, <1>7, NameFacts DEF Agree, FilesAlone, Alone
  <1>9. QED
    BY <1>1, <1>3, <1>4, <1>5, <1>6, <1>8, CallMoves DEF FilesAlone

LEMMA ReplayDoneKeeps == PkgInv /\ ReplayDone => PkgInv'
  <1> SUFFICES ASSUME PkgInv, ReplayDone PROVE PkgInv'
    OBVIOUS
  <1>1. /\ pkCall.stage = "replay" /\ pkCall.pos > Len(PayloadOf[Payload])
        /\ pkCall' = [pkCall EXCEPT !.stage = "store"]
        /\ UNCHANGED <<pkMem, pkDisk, pkBuf, pkRoll, pkCut>>
    BY DEF ReplayDone, GoTo
  <1>2. /\ pkMem \in Works /\ Held(pkMem) /\ Name \in PkgNames /\ Name = pkCall.pkg[1]
        /\ pkCall \in PkgCalls /\ Payload \in Packages1
    BY <1>1, CallFacts, PayloadFacts DEF Installing
  <1>3. "store" \in CallStages /\ "store" \in Installing /\ "store" \in Unwhole /\ "replay" \notin Removing
    BY DEF CallStages, Installing, Unwhole, Removing
  <1>4. GoesOn(pkCall, pkCall') /\ pkCall'.stage = "store" /\ pkCall'.left = pkCall.left
    BY <1>1, <1>2, <1>3, StageChanges DEF AtStage
  <1>5. Midway(pkCall) /\ Midway(pkCall') /\ ~Transit(pkCall) /\ ~Spoiling(pkCall)
    BY <1>1, <1>4 DEF Midway, Unrecorded, Closing, Transit, Spoiling
  <1>6. pkCall.kind # "remove"
    BY <1>1, <1>3 DEF PkgInv, CallKnown
  <1>7. Alone(pkMem, pkMem', Name)
    BY <1>1, <1>2, SameAlone DEF FilesAlone
  <1>8. Writes(pkCall', pkMem', Payload)
    <2>1. ASSUME NEW p \in OwnFiles(Payload)
          PROVE  pkMem.file[p] = Payload
      <3>1. p \in FilesOf(Payload)
        BY <1>2, OwnKnown
      <3>2. PICK i \in DOMAIN PayloadOf[Payload] : PayloadOf[Payload][i].k = "file" /\ PayloadOf[Payload][i].p = p
        BY <3>1 DEF FilesOf
      <3>3. i < pkCall.pos
        BY <1>1, <1>2, PayloadKnown DEF PkgCalls
      <3>4. QED
        BY <1>1, <3>2, <3>3, NameFacts DEF Writes
    <2>2. \A p \in pkCall.left : \E g \in Packages1 : g[1] = pkCall.pkg[1] /\ p \in FilesOf(g)
      BY <1>1, NameFacts DEF Writes
    <2>3. QED
      BY <1>1, <1>4, <2>1, <2>2 DEF Writes, GoesOn
  <1>9. PutsBack(pkCall', pkMem')
    BY <1>1, <1>4, NameFacts DEF PutsBack, GoesOn, Installing
  <1>10. HasDone(pkCall', pkMem', Parsed = pkCall.pkg)
    BY <1>1, <1>4, <1>6, NameFacts DEF HasDone, GoesOn
  <1>11. /\ Agree(pkMem', Name) /\ (Name \in pkMem'.hurt \/ pkMem'.store[Name] # Junk)
         /\ Name \in pkMem'.known \ pkMem'.hurt =>
              IsManifest(pkMem'.store[Name]) \/ IsManifest(pkMem'.snap[Name]) \/ pkMem'.store[Name] = Junk
    BY <1>1, <1>5, NameFacts
  <1>12. QED
    BY <1>1, <1>3, <1>4, <1>5, <1>6, <1>7, <1>8, <1>9, <1>10, <1>11, CallMoves

LEMMA StoreManifestKeeps == PkgInv /\ StoreManifest => PkgInv'
  <1> SUFFICES ASSUME PkgInv, StoreManifest PROVE PkgInv'
    OBVIOUS
  <1>1. pkCall.stage = "store" /\ UNCHANGED <<pkBuf, pkRoll, pkCut>>
    BY DEF StoreManifest
  <1>2. /\ pkMem \in Works /\ Held(pkMem) /\ Name \in PkgNames /\ Name = pkCall.pkg[1]
        /\ pkCall \in PkgCalls /\ pkCall.pkg \in Packages1 /\ pkCall.pkg \in HeldBy(Name)
        /\ Payload \in Packages1 /\ Payload[1] = Name /\ Parsed \in {Junk, Payload}
    BY <1>1, CallFacts, PayloadFacts DEF Installing
  <1>3. /\ "meta" \in CallStages /\ "meta" \in Installing /\ "meta" \notin Unwhole
        /\ "store" \notin Removing /\ "store" \in Installing
    BY DEF CallStages, Installing, Unwhole, Removing
  <1>4. pkCall.kind # "remove"
    BY <1>1, <1>3 DEF PkgInv, CallKnown
  <1>5. ~Transit(pkCall) /\ ~Spoiling(pkCall) /\ Midway(pkCall)
    BY <1>1 DEF Midway, Unrecorded, Closing, Transit, Spoiling
  <1>6. CASE GoTo("meta") /\ \E s \in HeldBy(Name) :
               \/ Parsed = pkCall.pkg /\ s = pkCall.pkg /\ Wrote(WithStore(pkMem, Name, s))
               \/ Parsed # pkCall.pkg /\ Wrote(WithHurt(WithStore(pkMem, Name, s), Name))
    <2>1. PICK s \in HeldBy(Name) :
               \/ Parsed = pkCall.pkg /\ s = pkCall.pkg /\ Wrote(WithStore(pkMem, Name, s))
               \/ Parsed # pkCall.pkg /\ Wrote(WithHurt(WithStore(pkMem, Name, s), Name))
      BY <1>6
    <2> DEFINE u == WithStore(pkMem, Name, s)
    <2>2. /\ Alone(pkMem, u, Name) /\ u.file = pkMem.file /\ u.store[Name] = s
          /\ u.meta = pkMem.meta /\ u.snap = pkMem.snap /\ u.hurt = pkMem.hurt
      BY <1>2, StoreChanges
    <2> HIDE DEF u
    <2>3. /\ Alone(pkMem, pkMem', Name) /\ pkMem'.file = pkMem.file /\ pkMem'.store[Name] = s
          /\ pkMem'.meta = pkMem.meta /\ pkMem'.snap = pkMem.snap /\ pkDisk' \in {pkMem', pkDisk}
          /\ IF Parsed = pkCall.pkg THEN s = pkCall.pkg /\ pkMem'.hurt = pkMem.hurt
             ELSE pkMem'.hurt = pkMem.hurt \cup {Name}
      <3>1. CASE Parsed = pkCall.pkg
        <4>1. pkMem' = u /\ pkDisk' \in {pkMem', pkDisk} /\ s = pkCall.pkg
          BY <2>1, <3>1, WroteSaves DEF u
        <4>2. QED
          BY <2>2, <3>1, <4>1
      <3>2. CASE Parsed # pkCall.pkg
        <4>1. pkMem' = WithHurt(u, Name) /\ pkDisk' \in {pkMem', pkDisk}
          BY <2>1, <3>2, WroteSaves DEF u
        <4>2. QED
          BY <1>2, <2>2, <3>2, <4>1, HurtChanges
      <3>3. QED
        BY <3>1, <3>2
    <2>4. GoesOn(pkCall, pkCall') /\ pkCall'.stage = "meta" /\ pkCall'.left = pkCall.left
      BY <1>2, <1>3, <1>6, StageChanges DEF GoTo, AtStage
    <2>5. Midway(pkCall') /\ Transit(pkCall')
      BY <2>4 DEF Midway, Unrecorded, Closing, Transit
    <2>6. Parsed = pkCall.pkg => WholeIn(pkMem.file, pkCall.pkg)
      <3>1. Parsed = pkCall.pkg => Payload = pkCall.pkg
        BY <1>2, PackagesKnown DEF Payload
      <3>2. QED
        BY <1>1, <3>1, NameFacts DEF Writes, WholeIn
    <2>7. \/ Parsed = pkCall.pkg /\ pkMem'.store[Name] = pkCall.pkg /\ IsManifest(pkMem'.store[Name])
          \/ Parsed # pkCall.pkg /\ Name \in pkMem'.hurt
      BY <1>2, <2>3 DEF IsManifest
    <2>8. PutsBack(pkCall', pkMem')
      BY <1>1, <1>3, <2>3, <2>4, NameFacts DEF PutsBack, GoesOn, Alone
    <2>9. HasDone(pkCall', pkMem', Parsed = pkCall.pkg)
      BY <1>1, <1>2, <1>4, <2>3, <2>4, <2>6, <2>7, NameFacts DEF HasDone, GoesOn
    <2>10. Writes(pkCall', pkMem', Payload)
      BY <1>1, <2>4, NameFacts DEF Writes, GoesOn
    <2>11. pkMem'.store[Name] # Junk \/ Name \in pkMem'.hurt
      BY <1>2, <2>7, PackagesKnown
    <2>12. Name \in pkMem'.hurt \/ WholeIn(pkMem'.file, pkMem'.store[Name])
      BY <2>3, <2>6, <2>7
    <2>13. QED
      BY <1>1, <1>3, <1>4, <1>5, <2>3, <2>4, <2>5, <2>7, <2>8, <2>9, <2>10, <2>11, <2>12, CallMoves
  <1>7. CASE Undo(TRUE) /\ \E s \in Spoilt(pkMem.store[Name]) : Refused(WithStore(pkMem, Name, s))
    <2>1. PICK s \in Spoilt(pkMem.store[Name]) : Refused(WithStore(pkMem, Name, s))
      BY <1>7
    <2>2. s \in HeldBy(Name) /\ (s = Junk \/ (s = NoPkg /\ pkMem.store[Name] = NoPkg))
      BY SpoiltKnown
    <2>3. /\ Alone(pkMem, pkMem', Name) /\ pkMem'.file = pkMem.file /\ pkMem'.store[Name] = s
          /\ pkMem'.meta = pkMem.meta /\ pkMem'.snap = pkMem.snap /\ pkMem'.hurt = pkMem.hurt
          /\ pkDisk' \in {pkMem', pkDisk}
      BY <1>2, <2>1, <2>2, StoreChanges, WroteSaves
    <2>4. /\ GoesOn(pkCall, pkCall') /\ pkCall'.stage = "unfile" /\ pkCall'.db = TRUE
          /\ Midway(pkCall') /\ "unfile" \in Installing
          /\ "unfile" \in Unwhole /\ Writes(pkCall', pkMem', Payload)
      BY <1>1, <1>7, UndoFacts
    <2>5. Transit(pkCall') /\ Spoiling(pkCall')
      BY <2>4 DEF Transit, Spoiling
    <2>6. PutsBack(pkCall', pkMem')
      BY <1>1, <1>3, <2>3, <2>4, NameFacts DEF PutsBack, GoesOn, Alone
    <2>7. HasDone(pkCall', pkMem', Parsed = pkCall.pkg)
      BY <1>1, <1>2, <1>4, <2>3, <2>4, NameFacts DEF HasDone, GoesOn
    <2>8. Name \in pkMem'.known \ pkMem'.hurt =>
             IsManifest(pkMem'.snap[Name]) \/ pkMem'.store[Name] = Junk
      BY <1>1, <2>2, <2>3, NameFacts, PackagesKnown DEF Alone, IsManifest
    <2>9. QED
      BY <1>1, <1>4, <1>5, <2>3, <2>4, <2>5, <2>6, <2>7, <2>8, CallMoves
  <1>8. QED
    <2>1. ASSUME GoTo("meta"),
                 IF Parsed = pkCall.pkg THEN Wrote([pkMem EXCEPT !.store[Name] = pkCall.pkg])
                 ELSE \E s \in {Parsed, Junk} : Wrote(Hurt([pkMem EXCEPT !.store[Name] = s]))
          PROVE  PkgInv'
      <3>1. CASE Parsed = pkCall.pkg
        BY <1>2, <1>6, <2>1, <3>1 DEF WithStore
      <3>2. CASE Parsed # pkCall.pkg
        <4>1. PICK s \in {Parsed, Junk} : Wrote(Hurt([pkMem EXCEPT !.store[Name] = s]))
          BY <2>1, <3>2
        <4>2. s \in HeldBy(Name)
          BY <1>2, <4>1 DEF HeldBy
        <4>3. Wrote(WithHurt(WithStore(pkMem, Name, s), Name))
          BY <4>1 DEF Hurt, WithHurt, WithStore
        <4>4. QED
          BY <1>6, <2>1, <3>2, <4>2, <4>3
      <3>3. QED
        BY <3>1, <3>2
    <2>2. QED
      BY <1>7, <2>1 DEF StoreManifest, WithStore

LEMMA StoreMetaKeeps == PkgInv /\ StoreMeta => PkgInv'
  <1> SUFFICES ASSUME PkgInv, StoreMeta PROVE PkgInv'
    OBVIOUS
  <1>1. pkCall.stage = "meta" /\ UNCHANGED <<pkBuf, pkRoll, pkCut>>
    BY DEF StoreMeta
  <1>2. /\ pkMem \in Works /\ Held(pkMem) /\ Name \in PkgNames /\ Name = pkCall.pkg[1]
        /\ pkCall \in PkgCalls /\ pkCall.pkg \in Packages1 /\ pkCall.pkg \in HeldBy(Name)
    BY <1>1, CallFacts
  <1>3. /\ "stored" \in CallStages /\ "stored" \in Installing /\ "stored" \notin Unwhole
        /\ "meta" \notin Removing /\ "meta" \in Installing /\ "meta" \notin Unwhole
    BY DEF CallStages, Installing, Unwhole, Removing
  <1>4. pkCall.kind # "remove"
    BY <1>1, <1>3 DEF PkgInv, CallKnown
  <1>5. ~Spoiling(pkCall) /\ Midway(pkCall)
    BY <1>1 DEF Midway, Unrecorded, Closing, Spoiling
  <1>6. CASE GoTo("stored") /\ Wrote(WithMeta(pkMem, Name, pkCall.pkg))
    <2>1. /\ Alone(pkMem, pkMem', Name) /\ pkMem'.file = pkMem.file /\ pkMem'.meta[Name] = pkCall.pkg
          /\ pkMem'.store = pkMem.store /\ pkMem'.snap = pkMem.snap /\ pkMem'.hurt = pkMem.hurt
          /\ pkDisk' \in {pkMem', pkDisk}
      BY <1>2, <1>6, MetaChanges, WroteSaves
    <2>2. GoesOn(pkCall, pkCall') /\ pkCall'.stage = "stored" /\ pkCall'.left = pkCall.left
      BY <1>2, <1>3, <1>6, StageChanges DEF GoTo, AtStage
    <2>3. Midway(pkCall')
      BY <2>2 DEF Midway, Unrecorded, Closing
    <2>4. IF Parsed = pkCall.pkg THEN pkMem.store[Name] = pkCall.pkg /\ WholeIn(pkMem.file, pkCall.pkg)
          ELSE Name \in pkMem.hurt
      BY <1>1, <1>2, NameFacts DEF HasDone
    <2>5. Agree(pkMem', Name)
      BY <2>1, <2>4 DEF Agree
    <2>6. PutsBack(pkCall', pkMem')
      BY <1>1, <1>3, <2>1, <2>2, NameFacts DEF PutsBack, GoesOn, Alone
    <2>7. HasDone(pkCall', pkMem', Parsed = pkCall.pkg)
      BY <1>1, <1>2, <1>4, <2>1, <2>2, <2>4, NameFacts DEF HasDone, GoesOn
    <2>8. Writes(pkCall', pkMem', Payload)
      BY <1>1, <2>2, NameFacts DEF Writes, GoesOn
    <2>9. /\ Name \in pkMem'.hurt \/ pkMem'.store[Name] # Junk
          /\ Name \in pkMem'.hurt \/ WholeIn(pkMem'.file, pkMem'.store[Name])
          /\ Name \in pkMem'.known \ pkMem'.hurt =>
               IsManifest(pkMem'.store[Name]) \/ IsManifest(pkMem'.snap[Name]) \/ pkMem'.store[Name] = Junk
      BY <1>1, <1>3, <1>5, <2>1, NameFacts DEF Alone
    <2>10. QED
      BY <1>1, <1>3, <1>4, <1>5, <2>1, <2>2, <2>3, <2>5, <2>6, <2>7, <2>8, <2>9, CallMoves
  <1>7. CASE Undo(TRUE) /\ \E s \in Spoilt(pkMem.meta[Name]) : Refused(WithMeta(pkMem, Name, s))
    <2>1. PICK s \in Spoilt(pkMem.meta[Name]) : Refused(WithMeta(pkMem, Name, s))
      BY <1>7
    <2>2. s \in HeldBy(Name)
      BY SpoiltKnown
    <2>3. /\ Alone(pkMem, pkMem', Name) /\ pkMem'.file = pkMem.file
          /\ pkMem'.store = pkMem.store /\ pkMem'.snap = pkMem.snap /\ pkMem'.hurt = pkMem.hurt
          /\ pkDisk' \in {pkMem', pkDisk}
      BY <1>2, <2>1, <2>2, MetaChanges, WroteSaves
    <2>4. /\ GoesOn(pkCall, pkCall') /\ pkCall'.stage = "unfile" /\ pkCall'.db = TRUE
          /\ Midway(pkCall') /\ "unfile" \in Installing
          /\ "unfile" \in Unwhole /\ Writes(pkCall', pkMem', Payload)
      BY <1>1, <1>7, UndoFacts
    <2>5. Transit(pkCall') /\ Spoiling(pkCall')
      BY <2>4 DEF Transit, Spoiling
    <2>6. PutsBack(pkCall', pkMem')
      BY <1>1, <1>3, <2>3, <2>4, NameFacts DEF PutsBack, GoesOn, Alone
    <2>7. HasDone(pkCall', pkMem', Parsed = pkCall.pkg)
      BY <1>1, <1>2, <1>4, <2>3, <2>4, NameFacts DEF HasDone, GoesOn
    <2>8. Name \in pkMem'.known \ pkMem'.hurt =>
             IsManifest(pkMem'.store[Name]) \/ IsManifest(pkMem'.snap[Name]) \/ pkMem'.store[Name] = Junk
      BY <1>1, <2>3, NameFacts DEF Alone
    <2>9. QED
      BY <1>1, <1>4, <1>5, <2>3, <2>4, <2>5, <2>6, <2>7, <2>8, CallMoves
  <1>8. QED
    BY <1>6, <1>7 DEF StoreMeta, WithMeta

\* A step that deletes or writes a file among those left.
LEMMA LeftKnown ==
  ASSUME PkgInv, pkCall.stage # "idle", NEW p \in pkCall.left
  PROVE  PathOf(Name, p)
  <1>1. \E g \in Packages1 : g[1] = Name /\ p \in FilesOf(g)
    BY NameFacts, CallFacts DEF Writes
  <1>2. QED
    BY <1>1 DEF PathOf

LEMMA DeleteFileKeeps == PkgInv /\ DeleteFile => PkgInv'
  <1> SUFFICES ASSUME PkgInv, DeleteFile PROVE PkgInv'
    OBVIOUS
  <1>1. PICK p \in pkCall.left :
          /\ pkCall.stage \in {"unfile", "rmfiles"} /\ Wrote(WithFile(pkMem, p, NoPkg))
          /\ pkCall' = WithLeft(pkCall, pkCall.left \ {p}) /\ UNCHANGED <<pkBuf, pkRoll, pkCut>>
    BY DEF DeleteFile, WithFile, WithLeft
  <1>2. /\ pkMem \in Works /\ Held(pkMem) /\ Name \in PkgNames /\ Name = pkCall.pkg[1]
        /\ pkCall \in PkgCalls
    BY <1>1, CallFacts
  <1>3. PathOf(Name, p)
    BY <1>1, LeftKnown
  <1>4. FilesAlone(pkMem, pkMem', Name) /\ pkDisk' \in {pkMem', pkDisk}
    <2>1. FilesAlone(pkMem, WithFile(pkMem, p, NoPkg), Name)
      BY <1>2, <1>3, FileChanges
    <2>2. QED
      BY <1>1, <2>1, WroteSaves
  <1>5. pkCall.left \ {p} \in SUBSET PkgPaths
    BY <1>2 DEF PkgCalls
  <1>6. /\ GoesOn(pkCall, pkCall') /\ pkCall'.stage = pkCall.stage /\ pkCall'.db = pkCall.db
        /\ pkCall'.left = pkCall.left \ {p}
    BY <1>1, <1>2, <1>5, LeftChanges
  <1>7. /\ Midway(pkCall) /\ Midway(pkCall') /\ pkCall.stage \in Unwhole
        /\ (Transit(pkCall) <=> Transit(pkCall')) /\ (Spoiling(pkCall) <=> Spoiling(pkCall'))
    BY <1>1, <1>6 DEF Midway, Unrecorded, Closing, Transit, Spoiling, Unwhole
  <1>8. IF pkCall.kind = "remove" THEN pkCall'.stage \in Removing ELSE pkCall'.stage \in Installing
    BY <1>1, <1>6 DEF PkgInv, CallKnown, Installing, RollingBack, Removing
  <1>9. PutsBack(pkCall', pkMem')
    BY <1>1, <1>4, <1>6, NameFacts DEF PutsBack, GoesOn, FilesAlone, Alone
  <1>10. HasDone(pkCall', pkMem', Parsed = pkCall.pkg)
    BY <1>1, <1>4, <1>6, NameFacts DEF HasDone, GoesOn, FilesAlone
  <1>11. Writes(pkCall', pkMem', Payload)
    BY <1>1, <1>6, NameFacts DEF Writes, GoesOn
  <1>12. /\ Transit(pkCall') \/ Agree(pkMem', Name)
         /\ Name \in pkMem'.hurt \/ Spoiling(pkCall') \/ pkMem'.store[Name] # Junk
         /\ Name \in pkMem'.known \ pkMem'.hurt =>
              IsManifest(pkMem'.store[Name]) \/ IsManifest(pkMem'.snap[Name]) \/ pkMem'.store[Name] = Junk
    BY <1>1, <1>4, <1>7, NameFacts DEF Agree, FilesAlone, Alone
  <1>13. QED
    BY <1>1, <1>4, <1>6, <1>7, <1>8, <1>9, <1>10, <1>11, <1>12, CallMoves DEF FilesAlone

LEMMA FilesDeletedKeeps == PkgInv /\ FilesDeleted => PkgInv'
  <1> SUFFICES ASSUME PkgInv, FilesDeleted PROVE PkgInv'
    OBVIOUS
  <1>1. /\ pkCall.stage \in {"unfile", "rmfiles"} /\ pkCall.left = {}
        /\ UNCHANGED <<pkMem, pkDisk, pkBuf, pkRoll, pkCut>>
    BY DEF FilesDeleted
  <1>2. /\ pkMem \in Works /\ Held(pkMem) /\ Name \in PkgNames /\ Name = pkCall.pkg[1]
        /\ pkCall \in PkgCalls
    BY <1>1, CallFacts
  <1>3. Alone(pkMem, pkMem', Name)
    BY <1>1, <1>2, SameAlone DEF FilesAlone
  <1>4. IF pkCall.stage = "rmfiles" THEN pkCall.kind = "remove"
        ELSE pkCall.kind # "remove" /\ pkCall.old \in HeldBy(Name) \ {Junk}
    <2>1. pkCall.stage = "rmfiles" => pkCall.kind = "remove"
      BY <1>1 DEF PkgInv, CallKnown, Installing, RollingBack
    <2>2. pkCall.stage = "unfile" => pkCall.kind # "remove"
      BY <1>1 DEF PkgInv, CallKnown, Removing
    <2>3. pkCall.stage = "unfile" => pkCall.old \in HeldBy(Name) /\ pkCall.old # Junk
      BY <1>1, <1>2, <2>2, NameFacts DEF PutsBack, Installing
    <2>4. QED
      BY <1>1, <2>1, <2>2, <2>3
  <1>5. pkCall.stage \in Unwhole /\ Midway(pkCall)
    BY <1>1 DEF Midway, Unrecorded, Closing, Unwhole
  <1>6. Name \in pkMem'.known \ pkMem'.hurt =>
          IsManifest(pkMem'.store[Name]) \/ IsManifest(pkMem'.snap[Name]) \/ pkMem'.store[Name] = Junk
    BY <1>1, NameFacts
  <1>7. CASE pkCall.stage = "rmfiles"
    <2>1. pkCall' = AtStage(pkCall, "rmmeta")
      BY <1>7 DEF FilesDeleted, AtStage
    <2>2. "rmmeta" \in CallStages /\ "rmmeta" \in Removing /\ "rmmeta" \in Unwhole
      BY DEF CallStages, Removing, Unwhole
    <2>3. GoesOn(pkCall, pkCall') /\ pkCall'.stage = "rmmeta" /\ pkCall'.left = pkCall.left
      BY <1>2, <2>1, <2>2, StageChanges
    <2>4. Midway(pkCall') /\ ~Transit(pkCall) /\ ~Spoiling(pkCall)
      BY <1>7, <2>3 DEF Midway, Unrecorded, Closing, Transit, Spoiling
    <2>5. PutsBack(pkCall', pkMem') /\ HasDone(pkCall', pkMem', Parsed = pkCall.pkg)
      <3>1. PutsBack(pkCall', pkMem')
        BY <1>1, <1>4, <1>7, <2>3 DEF PutsBack, GoesOn
      <3>2. HasDone(pkCall', pkMem', Parsed = pkCall.pkg)
        BY <1>1, <1>4, <1>7, <2>3, NameFacts DEF HasDone, GoesOn
      <3>3. QED
        BY <3>1, <3>2
    <2>6. Writes(pkCall', pkMem', Payload)
      BY <1>1, <2>3 DEF Writes
    <2>7. Agree(pkMem', Name) /\ (Name \in pkMem'.hurt \/ pkMem'.store[Name] # Junk)
      BY <1>1, <2>4, NameFacts
    <2>8. QED
      BY <1>1, <1>3, <1>4, <1>5, <1>6, <1>7, <2>2, <2>3, <2>4, <2>5, <2>6, <2>7, CallMoves
  <1>8. CASE pkCall.stage = "unfile" /\ pkCall.db
    <2>1. pkCall' = AtStage(pkCall, "undb1")
      BY <1>8 DEF FilesDeleted, AtStage
    <2>2. "undb1" \in CallStages /\ "undb1" \in Installing /\ "undb1" \in Unwhole
          /\ "unfile" \in Installing
      BY DEF CallStages, Installing, Unwhole
    <2>3. GoesOn(pkCall, pkCall') /\ pkCall'.stage = "undb1" /\ pkCall'.left = pkCall.left
      BY <1>2, <2>1, <2>2, StageChanges
    <2>4. Midway(pkCall') /\ Transit(pkCall') /\ Spoiling(pkCall')
      BY <2>3 DEF Midway, Unrecorded, Closing, Transit, Spoiling
    <2>5. PutsBack(pkCall', pkMem')
      BY <1>1, <1>4, <1>8, <2>2, <2>3, NameFacts DEF PutsBack, GoesOn
    <2>6. HasDone(pkCall', pkMem', Parsed = pkCall.pkg)
      BY <1>1, <1>4, <1>8, <2>3, NameFacts DEF HasDone, GoesOn
    <2>7. Writes(pkCall', pkMem', Payload)
      BY <1>1, <2>3 DEF Writes
    <2>8. QED
      BY <1>1, <1>3, <1>4, <1>5, <1>6, <1>8, <2>2, <2>3, <2>4, <2>5, <2>6, <2>7, CallMoves
  <1>9. CASE pkCall.stage = "unfile" /\ ~pkCall.db
    <2>1. /\ ~Transit(pkCall) /\ ~Spoiling(pkCall)
          /\ (Name \in pkMem.hurt \/ (IsManifest(pkMem.store[Name]) => pkMem.store[Name] = pkCall.old))
      BY <1>1, <1>2, <1>9, NameFacts DEF Transit, Spoiling, PutsBack
    <2>2. Agree(pkMem', Name) /\ (Name \in pkMem'.hurt \/ pkMem'.store[Name] # Junk)
      BY <1>1, <2>1, NameFacts
    <2>3. CASE pkCall.old = NoPkg
      <3>1. pkCall' = AtStage(pkCall, "undone")
        BY <1>9, <2>3 DEF FilesDeleted, AtStage
      <3>2. "undone" \in CallStages /\ "undone" \in Installing /\ "unfile" \in Installing
        BY DEF CallStages, Installing
      <3>3. GoesOn(pkCall, pkCall') /\ pkCall'.stage = "undone" /\ pkCall'.left = pkCall.left
        BY <1>2, <3>1, <3>2, StageChanges
      <3>4. Midway(pkCall')
        BY <3>3 DEF Midway, Unrecorded, Closing
      <3>5. PutsBack(pkCall', pkMem')
        BY <1>1, <1>4, <1>9, <3>2, <3>3, NameFacts DEF PutsBack, GoesOn
      <3>6. HasDone(pkCall', pkMem', Parsed = pkCall.pkg)
        BY <1>1, <1>4, <1>9, <3>3, NameFacts DEF HasDone, GoesOn
      <3>7. Writes(pkCall', pkMem', Payload)
        BY <1>1, <3>3 DEF Writes
      <3>8. Name \in pkMem'.hurt \/ WholeIn(pkMem'.file, pkMem'.store[Name])
        BY <1>1, <2>1, <2>3, PackagesKnown DEF WholeIn, IsManifest
      <3>9. QED
        BY <1>1, <1>3, <1>4, <1>5, <1>6, <1>9, <2>2, <3>2, <3>3, <3>4, <3>5, <3>6, <3>7, <3>8, CallMoves
    <2>4. CASE pkCall.old # NoPkg
      <3>1. pkCall' = WithFiles(pkCall, "refile", FilesOf(pkCall.old))
        BY <1>9, <2>4 DEF FilesDeleted, WithFiles
      <3>2. /\ "refile" \in CallStages /\ "refile" \in Installing /\ "unfile" \in Installing
            /\ "refile" \in Unwhole
        BY DEF CallStages, Installing, Unwhole
      <3>3. pkCall.old \in Packages1 /\ pkCall.old[1] = Name
        BY <1>4, <1>9, <2>4 DEF HeldBy
      <3>4. FilesOf(pkCall.old) \in SUBSET PkgPaths /\ OwnFiles(pkCall.old) \subseteq FilesOf(pkCall.old)
        BY <3>3, FilesKnown
      <3>5. GoesOn(pkCall, pkCall') /\ pkCall'.stage = "refile" /\ pkCall'.left = FilesOf(pkCall.old)
        BY <1>2, <3>1, <3>2, <3>4, FilesTaken
      <3>6. Midway(pkCall')
        BY <3>5 DEF Midway, Unrecorded, Closing
      <3>7. PutsBack(pkCall', pkMem')
        BY <1>1, <1>2, <1>4, <1>9, <2>1, <3>2, <3>3, <3>5, NameFacts DEF PutsBack, GoesOn
      <3>8. HasDone(pkCall', pkMem', Parsed = pkCall.pkg)
        BY <1>1, <1>4, <1>9, <3>5, NameFacts DEF HasDone, GoesOn
      <3>9. Writes(pkCall', pkMem', Payload)
        BY <1>2, <3>3, <3>4, <3>5 DEF Writes, GoesOn
      <3>10. QED
        BY <1>1, <1>3, <1>4, <1>5, <1>6, <1>9, <2>2, <3>2, <3>5, <3>6, <3>7, <3>8, <3>9, CallMoves
    <2>5. QED
      BY <2>3, <2>4
  <1>10. QED
    BY <1>1, <1>7, <1>8, <1>9

LEMMA UndoDb1Keeps == PkgInv /\ UndoDb1 => PkgInv'
  <1> SUFFICES ASSUME PkgInv, UndoDb1 PROVE PkgInv'
    OBVIOUS
  <1>1. pkCall.stage = "undb1" /\ UNCHANGED <<pkBuf, pkRoll, pkCut>> /\ pkCall' = AtStage(pkCall, "undb2")
    BY DEF UndoDb1, GoTo, AtStage
  <1>2. /\ pkMem \in Works /\ Held(pkMem) /\ Name \in PkgNames /\ Name = pkCall.pkg[1]
        /\ pkCall \in PkgCalls
    BY <1>1, CallFacts
  <1>3. /\ "undb2" \in CallStages /\ "undb2" \in Installing /\ "undb1" \in Installing
        /\ "undb2" \in Unwhole /\ "undb1" \notin Removing
    BY DEF CallStages, Installing, Unwhole, Removing
  <1>4. pkCall.kind # "remove"
    BY <1>1, <1>3 DEF PkgInv, CallKnown
  <1>5. GoesOn(pkCall, pkCall') /\ pkCall'.stage = "undb2" /\ pkCall'.left = pkCall.left
    BY <1>1, <1>2, <1>3, StageChanges
  <1>6. Midway(pkCall) /\ Midway(pkCall') /\ Transit(pkCall') /\ Spoiling(pkCall')
    BY <1>1, <1>5 DEF Midway, Unrecorded, Closing, Transit, Spoiling
  <1>7. pkCall.old \in HeldBy(Name) /\ pkCall.old # Junk
    BY <1>1, <1>2, <1>3, <1>4, NameFacts DEF PutsBack
  <1> DEFINE Back ==
          /\ Alone(pkMem, pkMem', Name) /\ pkMem'.file = pkMem.file /\ pkMem'.snap = pkMem.snap
          /\ pkDisk' \in {pkMem', pkDisk}
          /\ IF pkCall.old = NoPkg
             THEN pkMem'.meta[Name] = NoPkg /\ pkMem'.store = pkMem.store /\ pkMem'.hurt = pkMem.hurt
             ELSE \/ Name \in pkMem'.hurt
                  \/ pkMem'.store[Name] = pkCall.old /\ pkMem'.hurt = pkMem.hurt
  <1>8. Back
    <2>1. CASE pkCall.old = NoPkg
      <3>1. Wrote(WithMeta(pkMem, Name, NoPkg)) /\ NoPkg \in HeldBy(Name)
        BY <2>1 DEF UndoDb1, WithMeta, HeldBy
      <3>2. QED
        BY <1>2, <2>1, <3>1, MetaChanges, WroteSaves
    <2>2. CASE pkCall.old # NoPkg /\ Wrote(WithStore(pkMem, Name, pkCall.old))
      BY <1>2, <1>7, <2>2, StoreChanges, WroteSaves
    <2>3. ASSUME pkCall.old # NoPkg, NEW s \in Spoilt(pkMem.store[Name]),
                 Refused(WithHurt(WithStore(pkMem, Name, s), Name))
          PROVE  Back
      <3> DEFINE u == WithStore(pkMem, Name, s)
      <3>1. s \in HeldBy(Name)
        BY SpoiltKnown
      <3>2. /\ Alone(pkMem, u, Name) /\ u.file = pkMem.file /\ u.snap = pkMem.snap
            /\ u.hurt = pkMem.hurt
        BY <1>2, <3>1, StoreChanges
      <3>3. pkMem' = WithHurt(u, Name) /\ pkDisk' \in {pkMem', pkDisk}
        BY <2>3, WroteSaves
      <3> HIDE DEF u
      <3>4. QED
        BY <1>2, <2>3, <3>2, <3>3, HurtChanges
    <2>4. QED
      BY <2>1, <2>2, <2>3 DEF UndoDb1, PutBack, Hurt, WithHurt, WithStore
  <1>9. PutsBack(pkCall', pkMem')
    BY <1>1, <1>2, <1>3, <1>4, <1>5, <1>7, <1>8, NameFacts DEF PutsBack, GoesOn, Alone
  <1>10. HasDone(pkCall', pkMem', Parsed = pkCall.pkg)
    BY <1>1, <1>4, <1>5, <1>8, NameFacts DEF HasDone, GoesOn
  <1>11. Writes(pkCall', pkMem', Payload)
    BY <1>1, <1>5, NameFacts DEF Writes, GoesOn
  <1>12. Name \in pkMem'.known \ pkMem'.hurt =>
           IsManifest(pkMem'.store[Name]) \/ IsManifest(pkMem'.snap[Name]) \/ pkMem'.store[Name] = Junk
    <2>1. pkCall.old # NoPkg => IsManifest(pkCall.old)
      BY <1>7 DEF HeldBy, IsManifest
    <2>2. QED
      BY <1>1, <1>8, <2>1, NameFacts DEF Alone
  <1>13. QED
    BY <1>1, <1>3, <1>4, <1>5, <1>6, <1>8, <1>9, <1>10, <1>11, <1>12, CallMoves

LEMMA UndoDb2Keeps == PkgInv /\ UndoDb2 => PkgInv'
  <1> SUFFICES ASSUME PkgInv, UndoDb2 PROVE PkgInv'
    OBVIOUS
  <1>1. pkCall.stage = "undb2" /\ UNCHANGED <<pkBuf, pkRoll, pkCut>>
    BY DEF UndoDb2
  <1>2. /\ pkMem \in Works /\ Held(pkMem) /\ Name \in PkgNames /\ Name = pkCall.pkg[1]
        /\ pkCall \in PkgCalls
    BY <1>1, CallFacts
  <1>3. /\ "undone" \in CallStages /\ "undone" \in Installing /\ "undb2" \in Installing
        /\ "refile" \in CallStages /\ "refile" \in Installing /\ "refile" \in Unwhole
        /\ "undb2" \notin Removing
    BY DEF CallStages, Installing, Unwhole, Removing
  <1>4. pkCall.kind # "remove" /\ Midway(pkCall)
    BY <1>1, <1>3 DEF PkgInv, CallKnown, Midway, Unrecorded, Closing
  <1>5. /\ pkCall.old \in HeldBy(Name) /\ pkCall.old # Junk /\ pkCall.oldMeta \in HeldBy(Name)
        /\ pkCall.oldMeta = pkCall.old \/ Name \in pkMem.hurt \cup pkMem.torn
        /\ pkCall.old = NoPkg /\ Name \in pkMem.known \ pkMem.hurt => IsManifest(pkMem.snap[Name])
        /\ IF pkCall.old = NoPkg THEN pkMem.meta[Name] = NoPkg
           ELSE Name \in pkMem.hurt \/ pkMem.store[Name] = pkCall.old
    BY <1>1, <1>2, <1>3, <1>4, NameFacts DEF PutsBack
  <1>6. CASE pkCall.old = NoPkg
    <2>1. pkCall' = AtStage(pkCall, "undone") /\ Wrote(WithStore(pkMem, Name, NoPkg))
      BY <1>6 DEF UndoDb2, AtStage, WithStore
    <2>2. NoPkg \in HeldBy(Name)
      BY DEF HeldBy
    <2>3. /\ Alone(pkMem, pkMem', Name) /\ pkMem'.file = pkMem.file /\ pkMem'.store[Name] = NoPkg
          /\ pkMem'.meta = pkMem.meta /\ pkMem'.snap = pkMem.snap /\ pkMem'.hurt = pkMem.hurt
          /\ pkDisk' \in {pkMem', pkDisk}
      BY <1>2, <2>1, <2>2, StoreChanges, WroteSaves
    <2>4. GoesOn(pkCall, pkCall') /\ pkCall'.stage = "undone" /\ pkCall'.left = pkCall.left
      BY <1>2, <1>3, <2>1, StageChanges
    <2>5. Midway(pkCall')
      BY <2>4 DEF Midway, Unrecorded, Closing
    <2>6. PutsBack(pkCall', pkMem')
      BY <1>2, <1>5, <2>3, <2>4 DEF PutsBack, GoesOn, Alone
    <2>7. HasDone(pkCall', pkMem', Parsed = pkCall.pkg)
      BY <1>1, <1>4, <2>3, <2>4, NameFacts DEF HasDone, GoesOn
    <2>8. Writes(pkCall', pkMem', Payload)
      BY <1>1, <2>4, NameFacts DEF Writes, GoesOn
    <2>9. /\ Agree(pkMem', Name) /\ pkMem'.store[Name] # Junk /\ WholeIn(pkMem'.file, pkMem'.store[Name])
          /\ Name \in pkMem'.known \ pkMem'.hurt => IsManifest(pkMem'.snap[Name])
      BY <1>5, <1>6, <2>3, PackagesKnown DEF Agree, WholeIn, IsManifest, Alone
    <2>10. QED
      BY <1>1, <1>3, <1>4, <2>3, <2>4, <2>5, <2>6, <2>7, <2>8, <2>9, CallMoves
  <1>7. CASE pkCall.old # NoPkg
    <2>1. pkCall.old \in Packages1 /\ pkCall.old[1] = Name
      BY <1>5, <1>7 DEF HeldBy
    <2>2. FilesOf(pkCall.old) \in SUBSET PkgPaths /\ OwnFiles(pkCall.old) \subseteq FilesOf(pkCall.old)
      BY <2>1, FilesKnown
    <2>3. pkCall' = WithFiles(pkCall, "refile", FilesOf(pkCall.old))
      BY <1>7 DEF UndoDb2, WithFiles
    <2>4. GoesOn(pkCall, pkCall') /\ pkCall'.stage = "refile" /\ pkCall'.left = FilesOf(pkCall.old)
      BY <1>2, <1>3, <2>2, <2>3, FilesTaken
    <2> DEFINE Back ==
            /\ Alone(pkMem, pkMem', Name) /\ pkMem'.file = pkMem.file /\ pkMem'.snap = pkMem.snap
            /\ pkMem'.store = pkMem.store /\ pkDisk' \in {pkMem', pkDisk}
            /\ \/ Name \in pkMem'.hurt \cup pkMem'.torn
               \/ pkMem'.meta[Name] = pkCall.old /\ pkMem'.hurt = pkMem.hurt
    <2>5. Back
      <3>1. CASE ~IsManifest(pkCall.oldMeta)
        <4>1. pkMem' = pkMem /\ pkDisk' = pkDisk
          BY <1>7, <3>1 DEF UndoDb2
        <4>2. Name \in pkMem.hurt \cup pkMem.torn
          BY <1>5, <2>1, <3>1 DEF IsManifest
        <4>3. QED
          BY <1>2, <4>1, <4>2, SameAlone DEF FilesAlone
      <3>2. ASSUME IsManifest(pkCall.oldMeta), Wrote(WithMeta(pkMem, Name, pkCall.oldMeta)),
                   pkCall.oldMeta \in HeldBy(Name)
            PROVE  Back
        BY <1>2, <1>5, <3>2, MetaChanges, WroteSaves DEF Alone
      <3>3. ASSUME NEW s \in Spoilt(pkMem.meta[Name]),
                   Refused(WithHurt(WithMeta(pkMem, Name, s), Name))
            PROVE  Back
        <4> DEFINE u == WithMeta(pkMem, Name, s)
        <4>1. s \in HeldBy(Name)
          BY SpoiltKnown
        <4>2. /\ Alone(pkMem, u, Name) /\ u.file = pkMem.file /\ u.snap = pkMem.snap
              /\ u.store = pkMem.store /\ u.hurt = pkMem.hurt
          BY <1>2, <4>1, MetaChanges
        <4>3. pkMem' = WithHurt(u, Name) /\ pkDisk' \in {pkMem', pkDisk}
          BY <3>3, WroteSaves
        <4> HIDE DEF u
        <4>4. QED
          BY <1>2, <4>2, <4>3, HurtChanges
      <3>4. pkCall.oldMeta \in HeldBy(Name)
        BY <1>5
      <3>5. QED
        BY <1>7, <3>1, <3>2, <3>3, <3>4 DEF UndoDb2, PutBack, Hurt, WithHurt, WithMeta
    <2>6. Midway(pkCall')
      BY <2>4 DEF Midway, Unrecorded, Closing
    <2>7. Name \in pkMem'.hurt \/ pkMem'.store[Name] = pkCall.old
      BY <1>5, <1>7, <2>5 DEF Alone
    <2>8. PutsBack(pkCall', pkMem')
      BY <1>2, <1>5, <1>7, <2>1, <2>4, <2>5, <2>7 DEF PutsBack, GoesOn, Alone
    <2>9. HasDone(pkCall', pkMem', Parsed = pkCall.pkg)
      BY <1>1, <1>4, <2>4, <2>5, NameFacts DEF HasDone, GoesOn
    <2>10. Writes(pkCall', pkMem', Payload)
      BY <1>2, <2>1, <2>2, <2>4 DEF Writes, GoesOn
    <2>11. Agree(pkMem', Name) /\ (Name \in pkMem'.hurt \/ pkMem'.store[Name] # Junk)
      BY <1>5, <2>5, <2>7 DEF Agree, Alone
    <2>12. Name \in pkMem'.known \ pkMem'.hurt => IsManifest(pkMem'.store[Name])
      BY <2>1, <2>7 DEF IsManifest
    <2>13. QED
      BY <1>1, <1>3, <1>4, <2>4, <2>5, <2>6, <2>8, <2>9, <2>10, <2>11, <2>12, CallMoves
  <1>8. QED
    BY <1>6, <1>7

LEMMA WriteFileBackKeeps == PkgInv /\ WriteFileBack => PkgInv'
  <1> SUFFICES ASSUME PkgInv, WriteFileBack PROVE PkgInv'
    OBVIOUS
  <1>1. PICK p \in pkCall.left :
          /\ pkCall.stage = "refile" /\ UNCHANGED <<pkBuf, pkRoll, pkCut>>
          /\ \/ /\ Wrote(WithFile(pkMem, p, pkCall.old)) /\ pkCall' = WithLeft(pkCall, pkCall.left \ {p})
             \/ /\ \E s \in Spoilt(pkMem.file[p]) : Refused(WithHurt(WithFile(pkMem, p, s), Name))
                /\ pkCall' = WithLeft(pkCall, {})
    BY DEF WriteFileBack, WithFile, WithLeft, Hurt, WithHurt
  <1>2. /\ pkMem \in Works /\ Held(pkMem) /\ Name \in PkgNames /\ Name = pkCall.pkg[1]
        /\ pkCall \in PkgCalls /\ pkMem.file \in PkgFiles
    BY <1>1, CallFacts, FieldsKnown
  <1>3. PathOf(Name, p) /\ pkCall.old \in Packages1
    BY <1>1, LeftKnown, NameFacts DEF PutsBack
  <1> DEFINE Back(l) ==
          /\ GoesOn(pkCall, pkCall') /\ pkCall'.stage = "refile" /\ pkCall'.left = l
          /\ Alone(pkMem, pkMem', Name) /\ pkMem'.store = pkMem.store /\ pkMem'.meta = pkMem.meta
          /\ pkMem'.snap = pkMem.snap /\ pkDisk' \in {pkMem', pkDisk}
          /\ \/ Name \in pkMem'.hurt
             \/ /\ l = pkCall.left \ {p} /\ pkMem'.hurt = pkMem.hurt
                /\ pkMem'.file = [pkMem.file EXCEPT ![p] = pkCall.old]
  <1>4. PICK l \in SUBSET pkCall.left : Back(l)
    <2>1. pkCall.left \ {p} \in SUBSET PkgPaths /\ {} \in SUBSET PkgPaths
      BY <1>2 DEF PkgCalls
    <2>2. CASE Wrote(WithFile(pkMem, p, pkCall.old)) /\ pkCall' = WithLeft(pkCall, pkCall.left \ {p})
      <3>1. /\ FilesAlone(pkMem, WithFile(pkMem, p, pkCall.old), Name)
            /\ WithFile(pkMem, p, pkCall.old).file = [pkMem.file EXCEPT ![p] = pkCall.old]
        BY <1>2, <1>3, FileChanges
      <3>2. pkMem' = WithFile(pkMem, p, pkCall.old) /\ pkDisk' \in {pkMem', pkDisk}
        BY <2>2, WroteSaves
      <3>3. GoesOn(pkCall, pkCall') /\ pkCall'.stage = "refile" /\ pkCall'.left = pkCall.left \ {p}
        BY <1>1, <1>2, <2>1, <2>2, LeftChanges
      <3>4. QED
        BY <3>1, <3>2, <3>3 DEF FilesAlone
    <2>3. ASSUME NEW s \in Spoilt(pkMem.file[p]), Refused(WithHurt(WithFile(pkMem, p, s), Name)),
                 pkCall' = WithLeft(pkCall, {})
          PROVE  \E l \in SUBSET pkCall.left : Back(l)
      <3> DEFINE u == WithFile(pkMem, p, s)
      <3>1. s \in Packages1 \cup {NoPkg, Junk, ByScript}
        BY SpoiltKnown
      <3>2. FilesAlone(pkMem, u, Name)
        BY <1>2, <1>3, <3>1, FileChanges
      <3>3. pkMem' = WithHurt(u, Name) /\ pkDisk' \in {pkMem', pkDisk}
        BY <2>3, WroteSaves
      <3> HIDE DEF u
      <3>4. /\ Alone(pkMem, pkMem', Name) /\ pkMem'.store = pkMem.store /\ pkMem'.meta = pkMem.meta
            /\ pkMem'.snap = pkMem.snap /\ Name \in pkMem'.hurt
        BY <1>2, <3>2, <3>3, HurtChanges DEF FilesAlone
      <3>5. GoesOn(pkCall, pkCall') /\ pkCall'.stage = "refile" /\ pkCall'.left = {}
        BY <1>1, <1>2, <2>1, <2>3, LeftChanges
      <3>6. QED
        BY <3>3, <3>4, <3>5
    <2>4. QED
      BY <1>1, <2>2, <2>3
  <1>5. /\ Midway(pkCall) /\ Midway(pkCall') /\ "refile" \in Unwhole
        /\ ~Transit(pkCall) /\ ~Spoiling(pkCall)
    BY <1>1, <1>4 DEF Midway, Unrecorded, Closing, Transit, Spoiling, Unwhole
  <1>6. IF pkCall.kind = "remove" THEN pkCall'.stage \in Removing ELSE pkCall'.stage \in Installing
    BY <1>4 DEF Installing, Removing
  <1>7. Writes(pkCall', pkMem', Payload)
    <2>1. ASSUME Name \notin pkMem'.hurt, NEW q \in OwnFiles(pkCall.old) \ l
          PROVE  pkMem'.file[q] = pkCall.old
      <3>1. /\ l = pkCall.left \ {p} /\ pkMem'.hurt = pkMem.hurt
            /\ pkMem'.file = [pkMem.file EXCEPT ![p] = pkCall.old]
        BY <1>4, <2>1
      <3>2. q \in PkgPaths
        BY <1>3, <2>1, OwnKnown
      <3>3. q # p => pkMem.file[q] = pkCall.old
        BY <1>1, <1>2, <2>1, <3>1, NameFacts DEF Writes
      <3>4. QED
        BY <1>2, <3>1, <3>2, <3>3 DEF PkgFiles
    <2>2. \A q \in l : \E g \in Packages1 : g[1] = pkCall.pkg[1] /\ q \in FilesOf(g)
      BY <1>1, NameFacts DEF Writes
    <2>3. QED
      BY <1>2, <1>4, <2>1, <2>2 DEF Writes, GoesOn
  <1>8. PutsBack(pkCall', pkMem')
    BY <1>1, <1>2, <1>4, NameFacts DEF PutsBack, GoesOn, Alone
  <1>9. HasDone(pkCall', pkMem', Parsed = pkCall.pkg)
    BY <1>1, <1>2, <1>4, NameFacts DEF HasDone, GoesOn, Alone
  <1>10. /\ Agree(pkMem', Name) /\ (Name \in pkMem'.hurt \/ pkMem'.store[Name] # Junk)
         /\ Name \in pkMem'.known \ pkMem'.hurt =>
              IsManifest(pkMem'.store[Name]) \/ IsManifest(pkMem'.snap[Name]) \/ pkMem'.store[Name] = Junk
    BY <1>1, <1>4, <1>5, NameFacts DEF Agree, Alone
  <1>11. QED
    BY <1>1, <1>4, <1>5, <1>6, <1>7, <1>8, <1>9, <1>10, CallMoves

LEMMA FilesWrittenKeeps == PkgInv /\ FilesWritten => PkgInv'
  <1> SUFFICES ASSUME PkgInv, FilesWritten PROVE PkgInv'
    OBVIOUS
  <1> DEFINE s == IF pkCall.kind = "remove" THEN "backstore" ELSE "undone"
  <1>1. /\ pkCall.stage = "refile" /\ pkCall.left = {} /\ pkCall' = AtStage(pkCall, s)
        /\ UNCHANGED <<pkMem, pkDisk, pkBuf, pkRoll, pkCut>>
    BY DEF FilesWritten, GoTo, AtStage
  <1>2. /\ pkMem \in Works /\ Held(pkMem) /\ Name \in PkgNames /\ Name = pkCall.pkg[1]
        /\ pkCall \in PkgCalls
    BY <1>1, CallFacts
  <1>3. /\ s \in CallStages /\ "refile" \in Installing
        /\ IF pkCall.kind = "remove" THEN s \in Removing ELSE s \in Installing
    BY DEF CallStages, Installing, Removing
  <1>4. s \in {"backstore", "undone"}
    OBVIOUS
  <1>5. GoesOn(pkCall, pkCall') /\ pkCall'.stage = s /\ pkCall'.left = {}
    <2> HIDE DEF s
    <2>1. QED
      BY <1>1, <1>2, <1>3, StageChanges
  <1>6. Midway(pkCall) /\ Midway(pkCall') /\ ~Transit(pkCall) /\ ~Spoiling(pkCall)
    BY <1>1, <1>4, <1>5 DEF Midway, Unrecorded, Closing, Transit, Spoiling
  <1>7. Alone(pkMem, pkMem', Name)
    BY <1>1, <1>2, SameAlone DEF FilesAlone
  <1>8. Name \in pkMem'.hurt \/ WholeIn(pkMem'.file, pkMem'.store[Name])
    BY <1>1, <1>2, NameFacts DEF PutsBack, Writes, WholeIn
  <1>9. PutsBack(pkCall', pkMem')
    BY <1>1, <1>3, <1>4, <1>5, NameFacts DEF PutsBack, GoesOn
  <1>10. HasDone(pkCall', pkMem', Parsed = pkCall.pkg)
    BY <1>1, <1>4, <1>5, NameFacts DEF HasDone, GoesOn
  <1>11. Writes(pkCall', pkMem', Payload)
    BY <1>4, <1>5 DEF Writes
  <1>12. /\ Agree(pkMem', Name) /\ (Name \in pkMem'.hurt \/ pkMem'.store[Name] # Junk)
         /\ Name \in pkMem'.known \ pkMem'.hurt =>
              IsManifest(pkMem'.store[Name]) \/ IsManifest(pkMem'.snap[Name]) \/ pkMem'.store[Name] = Junk
    BY <1>1, <1>6, NameFacts
  <1>13. QED
    BY <1>1, <1>3, <1>5, <1>6, <1>7, <1>8, <1>9, <1>10, <1>11, <1>12, CallMoves
-----------------------------------------------------------------------------
(* Removing.                                                               *)

LEMMA RemoveFacts ==
  ASSUME PkgInv, pkCall.stage # "idle", pkCall.kind = "remove"
  PROVE  /\ pkMem \in Works /\ Held(pkMem) /\ Name \in PkgNames /\ Name = pkCall.pkg[1]
         /\ pkCall \in PkgCalls /\ pkCall.pkg \in Packages1 /\ pkCall.pkg \in HeldBy(Name)
         /\ Parsed = pkCall.pkg /\ Payload = pkCall.pkg /\ pkCall.old = pkCall.pkg
         /\ pkCall.stage \in {"postremove", "removed"} \/ Name \in pkMem.hurt \/ pkMem.store[Name] = pkCall.pkg
         /\ pkCall.stage = "rmstore" => pkMem.meta[Name] = NoPkg
         /\ pkCall.stage \in {"postremove", "removed"} => pkMem.store[Name] = NoPkg /\ pkMem.meta[Name] = NoPkg
         /\ pkCall.stage \notin {"idle", "removing", "snap", "kept", "dropsnap"} => pkMem.snap[Name] = pkCall.pkg
  BY CallFacts, PayloadFacts, NameFacts DEF PkgInv, CallKnown, HasDone

\* The stages that only a removal has.
LEMMA RemoveStages ==
  ASSUME PkgInv, pkCall.stage \in {"removing", "snap", "preremove", "rmfiles", "rmmeta", "rmstore",
                                   "backstore", "kept", "postremove", "removed"}
  PROVE  pkCall.stage # "idle" /\ pkCall.kind = "remove"
  BY DEF PkgInv, CallKnown, Installing, RollingBack

LEMMA TakeSnapKeeps == PkgInv /\ TakeSnap => PkgInv'
  <1> SUFFICES ASSUME PkgInv, TakeSnap PROVE PkgInv'
    OBVIOUS
  <1>1. pkCall.stage = "snap" /\ pkCall.kind = "remove" /\ UNCHANGED <<pkBuf, pkRoll, pkCut>>
    BY RemoveStages DEF TakeSnap
  <1>2. /\ pkMem \in Works /\ Held(pkMem) /\ Name \in PkgNames /\ Name = pkCall.pkg[1]
        /\ pkCall \in PkgCalls /\ pkCall.pkg \in Packages1 /\ pkCall.pkg \in HeldBy(Name)
        /\ Parsed = pkCall.pkg /\ (Name \in pkMem.hurt \/ pkMem.store[Name] = pkCall.pkg)
    BY <1>1, RemoveFacts
  <1>3. /\ "preremove" \in CallStages \cap Removing /\ "kept" \in CallStages \cap Removing
        /\ "snap" \notin Unwhole
    BY DEF CallStages, Removing, Unwhole
  <1> DEFINE Taken ==
          /\ GoesOn(pkCall, pkCall') /\ pkCall'.stage \in {"preremove", "kept"}
          /\ pkCall'.left = pkCall.left
          /\ Alone(pkMem, pkMem', Name) /\ pkMem'.file = pkMem.file /\ pkMem'.store = pkMem.store
          /\ pkMem'.meta = pkMem.meta /\ pkMem'.hurt = pkMem.hurt /\ pkDisk' \in {pkMem', pkDisk}
          /\ pkCall'.stage = "preremove" => pkMem'.snap[Name] = pkCall.pkg
  <1>4. Taken
    <2>1. CASE Wrote([pkMem EXCEPT !.snap[Name] = Parsed]) /\ GoTo("preremove")
      <3>1. Wrote(WithSnap(pkMem, Name, pkCall.pkg)) /\ pkCall' = AtStage(pkCall, "preremove")
        BY <1>2, <2>1 DEF WithSnap, GoTo, AtStage
      <3>2. /\ Alone(pkMem, pkMem', Name) /\ pkMem'.file = pkMem.file /\ pkMem'.store = pkMem.store
            /\ pkMem'.meta = pkMem.meta /\ pkMem'.hurt = pkMem.hurt /\ pkMem'.snap[Name] = pkCall.pkg
        BY <1>2, <3>1, SnapChanges, WroteSaves
      <3>3. GoesOn(pkCall, pkCall') /\ pkCall'.stage = "preremove" /\ pkCall'.left = pkCall.left
        BY <1>2, <1>3, <3>1, StageChanges
      <3>4. QED
        BY <3>1, <3>2, <3>3, WroteSaves
    <2>2. ASSUME NEW s \in Spoilt(pkMem.snap[Name]) \cup {Parsed}, GoTo("kept"),
                 Refused([pkMem EXCEPT !.snap[Name] = s])
          PROVE  Taken
      <3>1. Refused(WithSnap(pkMem, Name, s)) /\ pkCall' = AtStage(pkCall, "kept")
        BY <2>2 DEF WithSnap, GoTo, AtStage
      <3>2. s \in HeldBy(Name)
        BY <1>2, SpoiltKnown
      <3>3. /\ Alone(pkMem, pkMem', Name) /\ pkMem'.file = pkMem.file /\ pkMem'.store = pkMem.store
            /\ pkMem'.meta = pkMem.meta /\ pkMem'.hurt = pkMem.hurt
        BY <1>2, <3>1, <3>2, SnapChanges, WroteSaves
      <3>4. GoesOn(pkCall, pkCall') /\ pkCall'.stage = "kept" /\ pkCall'.left = pkCall.left
        BY <1>2, <1>3, <3>1, StageChanges
      <3>5. QED
        BY <3>1, <3>3, <3>4, WroteSaves
    <2>3. QED
      BY <2>1, <2>2 DEF TakeSnap
  <1>5. Midway(pkCall) /\ Midway(pkCall') /\ ~Transit(pkCall) /\ ~Spoiling(pkCall)
    BY <1>1, <1>4 DEF Midway, Unrecorded, Closing, Transit, Spoiling
  <1>6. PutsBack(pkCall', pkMem')
    BY <1>1, <1>4 DEF PutsBack, GoesOn
  <1>7. HasDone(pkCall', pkMem', Parsed = pkCall.pkg)
    BY <1>1, <1>2, <1>4 DEF HasDone, GoesOn
  <1>8. Writes(pkCall', pkMem', Payload)
    BY <1>1, <1>4, NameFacts DEF Writes, GoesOn
  <1>9. /\ Agree(pkMem', Name) /\ (Name \in pkMem'.hurt \/ pkMem'.store[Name] # Junk)
        /\ Name \in pkMem'.hurt \/ WholeIn(pkMem'.file, pkMem'.store[Name])
    BY <1>1, <1>3, <1>4, <1>5, NameFacts DEF Agree, Alone
  <1>10. Name \in pkMem'.known \ pkMem'.hurt => IsManifest(pkMem'.store[Name])
    BY <1>2, <1>4 DEF IsManifest
  <1>11. pkCall'.stage \in Removing
    BY <1>3, <1>4
  <1>12. QED
    BY <1>1, <1>4, <1>5, <1>6, <1>7, <1>8, <1>9, <1>10, <1>11, CallMoves

\* A script writes no own file.
LEMMA ScriptLeaves ==
  ASSUME NEW f \in PkgFiles, NEW g \in Packages1, NEW s \in {PreRemoveOf[g], PostRemoveOf[g]},
         NEW i \in DOMAIN s, s[i].k = "write", NEW v, NEW h, WholeIn(f, h), NEW q, q = s[i].p
  PROVE  WholeIn([f EXCEPT ![q] = v], h)
  <1> SUFFICES ASSUME h \in Packages1, NEW p \in OwnFiles(h)
               PROVE  [f EXCEPT ![q] = v][p] = h
    BY DEF WholeIn, IsManifest
  <1>1. p \in PkgPaths /\ f[p] = h /\ p # q
    BY OwnKnown DEF WholeIn, IsManifest
  <1>2. QED
    BY <1>1 DEF PkgFiles

LEMMA ScriptWrites ==
  ASSUME PkgInv, pkCall.stage \in {"preremove", "postremove"},
         pkCall.pos \in DOMAIN ScriptOf(pkCall.stage),
         ScriptOf(pkCall.stage)[pkCall.pos].k = "write",
         NEW q, q = ScriptOf(pkCall.stage)[pkCall.pos].p,
         NEW v \in Packages1 \cup {NoPkg, Junk, ByScript}
  PROVE  /\ FilesAlone(pkMem, WithFile(pkMem, q, v), Name)
         /\ WholeIn(pkMem.file, pkMem.store[Name]) =>
              WholeIn(WithFile(pkMem, q, v).file, pkMem.store[Name])
  <1>1. /\ pkMem \in Works /\ Held(pkMem) /\ Name \in PkgNames /\ pkCall.pkg \in Packages1
        /\ Parsed = pkCall.pkg /\ pkMem.file \in PkgFiles
    BY RemoveStages, RemoveFacts, FieldsKnown
  <1> DEFINE s == ScriptOf(pkCall.stage)
  <1>2. s \in {PreRemoveOf[pkCall.pkg], PostRemoveOf[pkCall.pkg]}
    BY <1>1 DEF ScriptOf
  <1>3. pkCall.pos \in DOMAIN s /\ s[pkCall.pos].k = "write" /\ q = s[pkCall.pos].p
    OBVIOUS
  <1> HIDE DEF s
  <1>4. PathOf(Name, q)
    BY <1>1, <1>2, <1>3 DEF PathOf
  <1>5. /\ FilesAlone(pkMem, WithFile(pkMem, q, v), Name)
        /\ WithFile(pkMem, q, v).file = [pkMem.file EXCEPT ![q] = v]
    BY <1>1, <1>4, FileChanges
  <1>6. WholeIn(pkMem.file, pkMem.store[Name]) => WholeIn([pkMem.file EXCEPT ![q] = v], pkMem.store[Name])
    BY <1>1, <1>2, <1>3, ScriptLeaves
  <1>7. QED
    BY <1>5, <1>6

LEMMA RemoveScriptKeeps == PkgInv /\ RemoveScript => PkgInv'
  <1> SUFFICES ASSUME PkgInv, RemoveScript PROVE PkgInv'
    OBVIOUS
  <1> DEFINE line == ScriptOf(pkCall.stage)[pkCall.pos]
  <1>1. /\ pkCall.stage \in {"preremove", "postremove"} /\ pkCall.kind = "remove"
        /\ pkCall.pos \in DOMAIN ScriptOf(pkCall.stage)
        /\ pkCall' = [pkCall EXCEPT !.pos = @ + 1] /\ UNCHANGED <<pkBuf, pkRoll, pkCut>>
    BY RemoveStages DEF RemoveScript
  <1>2. /\ pkMem \in Works /\ Held(pkMem) /\ Name \in PkgNames /\ Name = pkCall.pkg[1]
        /\ pkCall \in PkgCalls /\ pkCall.pkg \in Packages1
        /\ (pkCall.stage = "postremove" \/ Name \in pkMem.hurt \/ pkMem.store[Name] = pkCall.pkg)
        /\ (pkCall.stage = "postremove" => pkMem.store[Name] = NoPkg /\ pkMem.meta[Name] = NoPkg)
        /\ pkMem.snap[Name] = pkCall.pkg
    BY <1>1, RemoveFacts
  <1>3. /\ "preremove" \in Removing /\ "postremove" \in Removing
        /\ "preremove" \notin Unwhole /\ "postremove" \notin Unwhole
    BY DEF Removing, Unwhole
  <1>4. /\ GoesOn(pkCall, pkCall') /\ pkCall'.stage = pkCall.stage /\ pkCall'.left = pkCall.left
    <2> DEFINE q == pkCall.pos + 1
    <2>1. q \in Nat \ {0} /\ pkCall' = [pkCall EXCEPT !.pos = q]
      BY <1>1, <1>2 DEF PkgCalls
    <2> HIDE DEF q
    <2>2. QED
      BY <1>2, <2>1 DEF PkgCalls, GoesOn
  <1>5. /\ FilesAlone(pkMem, pkMem', Name) /\ pkDisk' \in {pkMem', pkDisk}
        /\ WholeIn(pkMem.file, pkMem.store[Name]) => WholeIn(pkMem'.file, pkMem'.store[Name])
    <2>1. CASE line.k = "write"
      <3>1. Wrote(WithFile(pkMem, line.p, ByScript))
        BY <2>1 DEF RemoveScript, WithFile
      <3>2. /\ FilesAlone(pkMem, WithFile(pkMem, line.p, ByScript), Name)
            /\ WholeIn(pkMem.file, pkMem.store[Name]) =>
                 WholeIn(WithFile(pkMem, line.p, ByScript).file, pkMem.store[Name])
        BY <1>1, <2>1, ScriptWrites
      <3>3. QED
        BY <3>1, <3>2, WroteSaves DEF FilesAlone
    <2>2. CASE line.k = "sync"
      <3>1. pkMem' = pkMem /\ pkDisk' = pkMem
        BY <2>2 DEF RemoveScript
      <3>2. QED
        BY <1>2, <3>1, SameAlone
    <2>3. QED
      BY <2>1, <2>2 DEF RemoveScript
  <1>6. Midway(pkCall) /\ Midway(pkCall') /\ ~Transit(pkCall) /\ ~Spoiling(pkCall)
    BY <1>1, <1>4 DEF Midway, Unrecorded, Closing, Transit, Spoiling
  <1>7. PutsBack(pkCall', pkMem')
    BY <1>1, <1>4 DEF PutsBack, GoesOn
  <1>8. HasDone(pkCall', pkMem', Parsed = pkCall.pkg)
    BY <1>1, <1>2, <1>4, <1>5 DEF HasDone, GoesOn, FilesAlone
  <1>9. Writes(pkCall', pkMem', Payload)
    BY <1>1, <1>4, NameFacts DEF Writes, GoesOn
  <1>10. /\ Agree(pkMem', Name) /\ (Name \in pkMem'.hurt \/ pkMem'.store[Name] # Junk)
         /\ Name \in pkMem'.hurt \/ WholeIn(pkMem'.file, pkMem'.store[Name])
    BY <1>1, <1>3, <1>5, <1>6, NameFacts DEF Agree, FilesAlone, Alone
  <1>11. IsManifest(pkMem'.snap[Name]) /\ pkCall'.stage \in Removing
    BY <1>1, <1>2, <1>3, <1>4, <1>5 DEF IsManifest, FilesAlone
  <1>12. QED
    BY <1>1, <1>4, <1>5, <1>6, <1>7, <1>8, <1>9, <1>10, <1>11, CallMoves DEF FilesAlone

LEMMA ScriptEndsKeeps == PkgInv /\ ScriptEnds => PkgInv'
  <1> SUFFICES ASSUME PkgInv, ScriptEnds PROVE PkgInv'
    OBVIOUS
  <1> DEFINE script == ScriptOf(pkCall.stage)
             line == script[pkCall.pos]
  <1>1. /\ pkCall.stage \in {"preremove", "postremove"} /\ pkCall.kind = "remove"
        /\ UNCHANGED <<pkBuf, pkRoll, pkCut>>
    BY RemoveStages DEF ScriptEnds
  <1>2. /\ pkMem \in Works /\ Held(pkMem) /\ Name \in PkgNames /\ Name = pkCall.pkg[1]
        /\ pkCall \in PkgCalls /\ pkCall.pkg \in Packages1 /\ Parsed = pkCall.pkg
        /\ Payload = pkCall.pkg
        /\ (pkCall.stage = "postremove" \/ Name \in pkMem.hurt \/ pkMem.store[Name] = pkCall.pkg)
        /\ (pkCall.stage = "postremove" => pkMem.store[Name] = NoPkg /\ pkMem.meta[Name] = NoPkg)
        /\ pkMem.snap[Name] = pkCall.pkg
    BY <1>1, RemoveFacts
  <1>3. /\ {"removed", "rmfiles", "dropsnap"} \subseteq CallStages \cap Removing
        /\ "preremove" \notin Unwhole /\ "postremove" \notin Unwhole
    BY DEF CallStages, Removing, Unwhole
  <1>4. /\ FilesAlone(pkMem, pkMem', Name) /\ pkDisk' \in {pkMem', pkDisk}
        /\ WholeIn(pkMem.file, pkMem.store[Name]) => WholeIn(pkMem'.file, pkMem'.store[Name])
    <2>1. CASE pkMem' = pkMem /\ pkDisk' = pkDisk
      BY <1>2, <2>1, SameAlone
    <2>2. CASE /\ ~(pkCall.pos > Len(script)) /\ line.k = "write"
               /\ \E s \in Spoilt(pkMem.file[line.p]) : Refused([pkMem EXCEPT !.file[line.p] = s])
      <3>1. PICK s \in Spoilt(pkMem.file[line.p]) : Refused(WithFile(pkMem, line.p, s))
        BY <2>2 DEF WithFile
      <3>2. s \in Packages1 \cup {NoPkg, Junk, ByScript}
        BY SpoiltKnown
      <3>3. pkCall.pos \in DOMAIN script
        <4>1. script \in {PreRemoveOf[pkCall.pkg], PostRemoveOf[pkCall.pkg]}
          BY <1>2 DEF ScriptOf
        <4> HIDE DEF script
        <4>2. Len(script) \in Nat /\ DOMAIN script = 1 .. Len(script)
          BY <1>2, <4>1, ScriptKnown
        <4>3. pkCall.pos \in Nat \ {0}
          BY <1>2 DEF PkgCalls
        <4>4. QED
          BY <2>2, <4>2, <4>3
      <3>4. /\ FilesAlone(pkMem, WithFile(pkMem, line.p, s), Name)
            /\ WholeIn(pkMem.file, pkMem.store[Name]) =>
                 WholeIn(WithFile(pkMem, line.p, s).file, pkMem.store[Name])
        BY <1>1, <2>2, <3>2, <3>3, ScriptWrites
      <3>5. QED
        BY <3>1, <3>4, WroteSaves DEF FilesAlone
    <2>3. QED
      BY <2>1, <2>2 DEF ScriptEnds
  <1>5. /\ GoesOn(pkCall, pkCall')
        /\ IF pkCall.stage = "postremove" THEN pkCall'.stage = "removed" /\ pkCall'.left = pkCall.left
           ELSE \/ pkCall'.stage = "rmfiles" /\ pkCall'.left = FilesOf(pkCall.pkg)
                \/ pkCall'.stage = "dropsnap" /\ pkCall'.left = pkCall.left
    <2>1. \/ pkCall.stage = "postremove" /\ pkCall' = AtStage(pkCall, "removed")
          \/ pkCall.stage # "postremove" /\ pkCall' = WithFiles(pkCall, "rmfiles", FilesOf(pkCall.pkg))
          \/ pkCall.stage # "postremove" /\ pkCall' = AtStage(pkCall, "dropsnap")
      BY <1>2 DEF ScriptEnds, AtStage, WithFiles
    <2>2. FilesOf(pkCall.pkg) \in SUBSET PkgPaths
      BY <1>2, FilesKnown
    <2>3. CASE pkCall.stage = "postremove" /\ pkCall' = AtStage(pkCall, "removed")
      BY <1>2, <1>3, <2>3, StageChanges
    <2>4. CASE pkCall.stage # "postremove" /\ pkCall' = WithFiles(pkCall, "rmfiles", FilesOf(pkCall.pkg))
      BY <1>2, <1>3, <2>2, <2>4, FilesTaken
    <2>5. CASE pkCall.stage # "postremove" /\ pkCall' = AtStage(pkCall, "dropsnap")
      BY <1>2, <1>3, <2>5, StageChanges
    <2>6. QED
      BY <2>1, <2>3, <2>4, <2>5
  <1>6. pkCall'.stage \in {"removed", "rmfiles", "dropsnap"} /\ pkCall'.kind = "remove"
    BY <1>1, <1>5 DEF GoesOn
  <1>7. /\ Midway(pkCall) /\ Midway(pkCall') /\ ~Transit(pkCall) /\ ~Spoiling(pkCall)
    BY <1>1, <1>6 DEF Midway, Unrecorded, Closing, Transit, Spoiling
  <1>8. PutsBack(pkCall', pkMem')
    BY <1>6 DEF PutsBack
  <1>9. HasDone(pkCall', pkMem', Parsed = pkCall.pkg)
    BY <1>1, <1>2, <1>4, <1>5, <1>6 DEF HasDone, GoesOn, FilesAlone
  <1>10. Writes(pkCall', pkMem', Payload)
    BY <1>1, <1>2, <1>5, <1>6, NameFacts DEF Writes, GoesOn
  <1>11. /\ Agree(pkMem', Name) /\ (Name \in pkMem'.hurt \/ pkMem'.store[Name] # Junk)
         /\ Name \in pkMem'.hurt \/ WholeIn(pkMem'.file, pkMem'.store[Name])
    BY <1>1, <1>3, <1>4, <1>7, NameFacts DEF Agree, FilesAlone, Alone
  <1>12. IsManifest(pkMem'.snap[Name]) /\ pkCall'.stage \in Removing
    BY <1>2, <1>3, <1>4, <1>6 DEF IsManifest, FilesAlone
  <1>13. QED
    BY <1>1, <1>4, <1>5, <1>7, <1>8, <1>9, <1>10, <1>11, <1>12, CallMoves DEF FilesAlone

LEMMA DeleteMetaKeeps == PkgInv /\ DeleteMeta => PkgInv'
  <1> SUFFICES ASSUME PkgInv, DeleteMeta PROVE PkgInv'
    OBVIOUS
  <1>1. pkCall.stage = "rmmeta" /\ pkCall.kind = "remove" /\ UNCHANGED <<pkBuf, pkRoll, pkCut>>
    BY RemoveStages DEF DeleteMeta
  <1>2. /\ pkMem \in Works /\ Held(pkMem) /\ Name \in PkgNames /\ Name = pkCall.pkg[1]
        /\ pkCall \in PkgCalls /\ pkCall.pkg \in Packages1 /\ pkCall.old = pkCall.pkg
        /\ (Name \in pkMem.hurt \/ pkMem.store[Name] = pkCall.pkg)
        /\ pkMem.snap[Name] = pkCall.pkg
    BY <1>1, RemoveFacts
  <1>3. {"refile", "rmstore"} \subseteq CallStages \cap Removing \cap Unwhole
    BY DEF CallStages, Removing, Unwhole
  <1>4. Midway(pkCall) /\ ~Transit(pkCall) /\ ~Spoiling(pkCall)
    BY <1>1 DEF Midway, Unrecorded, Closing, Transit, Spoiling
  <1>5. CASE pkMem.meta[Name] = NoPkg
    <2>1. pkCall' = WithFiles(pkCall, "refile", FilesOf(pkCall.pkg)) /\ pkMem' = pkMem /\ pkDisk' = pkDisk
      BY <1>2, <1>5 DEF DeleteMeta, WithFiles
    <2>2. FilesOf(pkCall.pkg) \in SUBSET PkgPaths /\ OwnFiles(pkCall.pkg) \subseteq FilesOf(pkCall.pkg)
      BY <1>2, FilesKnown
    <2>3. GoesOn(pkCall, pkCall') /\ pkCall'.stage = "refile" /\ pkCall'.left = FilesOf(pkCall.pkg)
      BY <1>2, <1>3, <2>1, <2>2, FilesTaken
    <2>4. Midway(pkCall')
      BY <2>3 DEF Midway, Unrecorded, Closing
    <2>5. Alone(pkMem, pkMem', Name)
      BY <1>2, <2>1, SameAlone DEF FilesAlone
    <2>6. PutsBack(pkCall', pkMem')
      BY <1>1, <1>2, <2>1, <2>3 DEF PutsBack, GoesOn
    <2>7. HasDone(pkCall', pkMem', Parsed = pkCall.pkg)
      BY <1>1, <1>2, <2>1, <2>3 DEF HasDone, GoesOn
    <2>8. Writes(pkCall', pkMem', Payload)
      BY <1>2, <2>2, <2>3 DEF Writes, GoesOn
    <2>9. Agree(pkMem', Name) /\ (Name \in pkMem'.hurt \/ pkMem'.store[Name] # Junk)
      BY <1>1, <1>4, <2>1, NameFacts
    <2>10. IsManifest(pkMem'.snap[Name])
      BY <1>2, <2>1 DEF IsManifest
    <2>11. QED
      BY <1>1, <1>3, <1>4, <2>1, <2>3, <2>4, <2>5, <2>6, <2>7, <2>8, <2>9, <2>10, CallMoves
  <1>6. CASE pkMem.meta[Name] # NoPkg
    <2>1. pkCall' = AtStage(pkCall, "rmstore") /\ Wrote(WithMeta(pkMem, Name, NoPkg))
      BY <1>6 DEF DeleteMeta, GoTo, AtStage, WithMeta
    <2>2. NoPkg \in HeldBy(Name)
      BY DEF HeldBy
    <2>3. GoesOn(pkCall, pkCall') /\ pkCall'.stage = "rmstore" /\ pkCall'.left = pkCall.left
      BY <1>2, <1>3, <2>1, StageChanges
    <2>4. Midway(pkCall') /\ Transit(pkCall')
      BY <2>3 DEF Midway, Unrecorded, Closing, Transit
    <2>5. /\ Alone(pkMem, pkMem', Name) /\ pkMem'.file = pkMem.file /\ pkMem'.meta[Name] = NoPkg
          /\ pkMem'.store = pkMem.store /\ pkMem'.snap = pkMem.snap /\ pkMem'.hurt = pkMem.hurt
          /\ pkDisk' \in {pkMem', pkDisk}
      BY <1>2, <2>1, <2>2, MetaChanges, WroteSaves
    <2>6. PutsBack(pkCall', pkMem')
      BY <1>1, <1>2, <2>3 DEF PutsBack, GoesOn
    <2>7. HasDone(pkCall', pkMem', Parsed = pkCall.pkg)
      BY <1>1, <1>2, <2>3, <2>5 DEF HasDone, GoesOn
    <2>8. Writes(pkCall', pkMem', Payload)
      BY <1>1, <2>3, NameFacts DEF Writes, GoesOn
    <2>9. (Name \in pkMem'.hurt \/ pkMem'.store[Name] # Junk) /\ IsManifest(pkMem'.snap[Name])
      BY <1>1, <1>2, <1>4, <2>5, NameFacts DEF IsManifest
    <2>10. QED
      BY <1>1, <1>3, <1>4, <2>3, <2>4, <2>5, <2>6, <2>7, <2>8, <2>9, CallMoves
  <1>7. QED
    BY <1>5, <1>6

LEMMA DeleteManifestKeeps == PkgInv /\ DeleteManifest => PkgInv'
  <1> SUFFICES ASSUME PkgInv, DeleteManifest PROVE PkgInv'
    OBVIOUS
  <1>1. /\ pkCall.stage = "rmstore" /\ pkCall.kind = "remove" /\ UNCHANGED <<pkBuf, pkRoll, pkCut>>
        /\ pkCall' = [pkCall EXCEPT !.stage = "postremove", !.pos = 1]
        /\ Wrote(WithStore(pkMem, Name, NoPkg))
    BY RemoveStages DEF DeleteManifest, WithStore
  <1>2. /\ pkMem \in Works /\ Held(pkMem) /\ Name \in PkgNames /\ Name = pkCall.pkg[1]
        /\ pkCall \in PkgCalls /\ pkCall.pkg \in Packages1
        /\ pkMem.meta[Name] = NoPkg /\ pkMem.snap[Name] = pkCall.pkg
    BY <1>1, RemoveFacts
  <1>3. "postremove" \in CallStages /\ "postremove" \in Removing /\ NoPkg \in HeldBy(Name)
    BY DEF CallStages, Removing, HeldBy
  <1>4. Midway(pkCall)
    BY <1>1 DEF Midway, Unrecorded, Closing
  <1>5. GoesOn(pkCall, pkCall') /\ pkCall'.stage = "postremove" /\ pkCall'.left = pkCall.left
    <2>1. 1 \in Nat \ {0}
      OBVIOUS
    <2>2. QED
      BY <1>1, <1>2, <1>3, <2>1 DEF PkgCalls, GoesOn
  <1>6. Midway(pkCall')
    BY <1>5 DEF Midway, Unrecorded, Closing
  <1>7. /\ Alone(pkMem, pkMem', Name) /\ pkMem'.file = pkMem.file /\ pkMem'.store[Name] = NoPkg
        /\ pkMem'.meta = pkMem.meta /\ pkMem'.snap = pkMem.snap /\ pkMem'.hurt = pkMem.hurt
        /\ pkDisk' \in {pkMem', pkDisk}
    BY <1>1, <1>2, <1>3, StoreChanges, WroteSaves
  <1>8. PutsBack(pkCall', pkMem')
    BY <1>1, <1>5 DEF PutsBack, GoesOn
  <1>9. HasDone(pkCall', pkMem', Parsed = pkCall.pkg)
    BY <1>1, <1>2, <1>5, <1>7 DEF HasDone, GoesOn
  <1>10. Writes(pkCall', pkMem', Payload)
    BY <1>1, <1>5, NameFacts DEF Writes, GoesOn
  <1>11. /\ Agree(pkMem', Name) /\ pkMem'.store[Name] # Junk /\ IsManifest(pkMem'.snap[Name])
         /\ WholeIn(pkMem'.file, pkMem'.store[Name])
    BY <1>2, <1>7, PackagesKnown DEF Agree, IsManifest, WholeIn
  <1>12. QED
    BY <1>1, <1>3, <1>4, <1>5, <1>6, <1>7, <1>8, <1>9, <1>10, <1>11, CallMoves

LEMMA ManifestBackKeeps == PkgInv /\ ManifestBack => PkgInv'
  <1> SUFFICES ASSUME PkgInv, ManifestBack PROVE PkgInv'
    OBVIOUS
  <1>1. /\ pkCall.stage = "backstore" /\ pkCall.kind = "remove" /\ UNCHANGED <<pkBuf, pkRoll, pkCut>>
        /\ pkCall' = AtStage(pkCall, "dropsnap")
    BY RemoveStages DEF ManifestBack, GoTo, AtStage
  <1>2. /\ pkMem \in Works /\ Held(pkMem) /\ Name \in PkgNames /\ Name = pkCall.pkg[1]
        /\ pkCall \in PkgCalls /\ pkCall.pkg \in Packages1 /\ pkCall.pkg \in HeldBy(Name)
        /\ Parsed = pkCall.pkg /\ (Name \in pkMem.hurt \/ pkMem.store[Name] = pkCall.pkg)
    BY <1>1, RemoveFacts
  <1>3. "dropsnap" \in CallStages /\ "dropsnap" \in Removing /\ "backstore" \notin Unwhole
    BY DEF CallStages, Removing, Unwhole
  <1>4. Midway(pkCall) /\ ~Transit(pkCall) /\ ~Spoiling(pkCall)
    BY <1>1 DEF Midway, Unrecorded, Closing, Transit, Spoiling
  <1>5. GoesOn(pkCall, pkCall') /\ pkCall'.stage = "dropsnap" /\ pkCall'.left = pkCall.left
    BY <1>1, <1>2, <1>3, StageChanges
  <1>6. Midway(pkCall')
    BY <1>1, <1>5 DEF Midway, Unrecorded, Closing, GoesOn
  <1> DEFINE Back ==
          /\ Alone(pkMem, pkMem', Name) /\ pkMem'.file = pkMem.file /\ pkMem'.meta = pkMem.meta
          /\ pkMem'.snap = pkMem.snap /\ pkDisk' \in {pkMem', pkDisk}
          /\ \/ Name \in pkMem'.hurt
             \/ pkMem'.store[Name] = pkCall.pkg /\ pkMem'.hurt = pkMem.hurt
  <1>7. Back
    <2>1. CASE Wrote(WithStore(pkMem, Name, pkCall.pkg))
      BY <1>2, <2>1, StoreChanges, WroteSaves
    <2>2. ASSUME NEW s \in Spoilt(pkMem.store[Name]),
                 Refused(WithHurt(WithStore(pkMem, Name, s), Name))
          PROVE  Back
      <3> DEFINE u == WithStore(pkMem, Name, s)
      <3>1. s \in HeldBy(Name)
        BY SpoiltKnown
      <3>2. /\ Alone(pkMem, u, Name) /\ u.file = pkMem.file /\ u.snap = pkMem.snap
            /\ u.meta = pkMem.meta /\ u.hurt = pkMem.hurt
        BY <1>2, <3>1, StoreChanges
      <3>3. pkMem' = WithHurt(u, Name) /\ pkDisk' \in {pkMem', pkDisk}
        BY <2>2, WroteSaves
      <3> HIDE DEF u
      <3>4. QED
        BY <1>2, <3>2, <3>3, HurtChanges
    <2>3. QED
      BY <1>2, <2>1, <2>2 DEF ManifestBack, PutBack, Hurt, WithHurt, WithStore
  <1>8. PutsBack(pkCall', pkMem')
    BY <1>1, <1>5 DEF PutsBack, GoesOn
  <1>9. HasDone(pkCall', pkMem', Parsed = pkCall.pkg)
    BY <1>1, <1>2, <1>5, <1>7 DEF HasDone, GoesOn
  <1>10. Writes(pkCall', pkMem', Payload)
    BY <1>1, <1>5, NameFacts DEF Writes, GoesOn
  <1>11. /\ Agree(pkMem', Name)
         /\ Name \in pkMem'.hurt \/ pkMem'.store[Name] # Junk
         /\ Name \in pkMem'.hurt \/ WholeIn(pkMem'.file, pkMem'.store[Name])
    BY <1>1, <1>2, <1>3, <1>4, <1>7, NameFacts, PackagesKnown DEF Agree, Alone
  <1>12. Name \in pkMem'.known \ pkMem'.hurt => IsManifest(pkMem'.store[Name])
    BY <1>2, <1>7 DEF IsManifest
  <1>13. QED
    BY <1>1, <1>3, <1>4, <1>5, <1>6, <1>7, <1>8, <1>9, <1>10, <1>11, <1>12, CallMoves
-----------------------------------------------------------------------------
(* The record.                                                             *)

MadeTx(state, action, g) == [state |-> state, action |-> action, pkg |-> g]
Recording(w, state, action, g, k, h, t) ==
  MadeTree(w.file, w.store, w.meta, w.snap, MadeTx(state, action, g), k, h, t)

LEMMA MadeRecord ==
  ASSUME NEW w \in Works, NEW state \in {"running", "failed", "complete"},
         NEW action \in {"install", "rollback", "remove"}, NEW g \in Packages1,
         NEW h \in SUBSET PkgNames, NEW t \in SUBSET PkgNames, NEW k \in SUBSET PkgNames,
         NEW v, v = Recording(w, state, action, g, k, h, t)
  PROVE  /\ v \in Works /\ v.file = w.file /\ v.store = w.store /\ v.meta = w.meta
         /\ v.snap = w.snap /\ v.tx.state = state /\ v.tx.action = action /\ v.tx.pkg = g
         /\ v.known = k /\ v.hurt = h /\ v.torn = t
  <1> DEFINE tx == MadeTx(state, action, g)
  <1>1. tx \in PkgRecords /\ tx.state = state /\ tx.action = action /\ tx.pkg = g
    BY DEF PkgRecords, MadeTx
  <1>2. /\ w.file \in PkgFiles /\ w.store \in Databases /\ w.meta \in Databases
        /\ w.snap \in Databases
    BY FieldsKnown
  <1>3. v = MadeTree(w.file, w.store, w.meta, w.snap, tx, k, h, t)
    BY DEF Recording
  <1> HIDE DEF tx
  <1>4. /\ v.file = w.file /\ v.store = w.store /\ v.meta = w.meta
        /\ v.snap = w.snap /\ v.tx = tx /\ v.known = k /\ v.hurt = h /\ v.torn = t
    BY <1>3 DEF MadeTree
  <1>5. v \in Works
    BY <1>1, <1>2, <1>3 DEF MadeTree, Works
  <1>6. QED
    BY <1>1, <1>4, <1>5

\* What a record changes.
RecordMade(w, v, state, action, g, whole) ==
  /\ v \in Works /\ v.file = w.file /\ v.store = w.store /\ v.meta = w.meta /\ v.snap = w.snap
  /\ \/ /\ v.tx.state = state /\ v.tx.action = action /\ v.tx.pkg = g
        /\ v.known = (IF state = "complete" /\ action = "install" THEN w.known \cup {g[1]} ELSE w.known)
        /\ IF state = "complete" /\ whole
           THEN v.hurt = w.hurt \ {g[1]} /\ v.torn = w.torn \ {g[1]}
           ELSE v.hurt = w.hurt /\ v.torn = w.torn
     \/ /\ w.tx.state = "none" /\ v.tx = w.tx /\ v.known = w.known /\ v.hurt = w.hurt
        /\ v.torn = w.torn \cup {g[1]}

LEMMA RecordedFacts ==
  ASSUME PkgInv, NEW stage, stage # "idle", NEW state \in {"running", "failed", "complete"},
         NEW action \in {"install", "rollback", "remove"}, NEW next,
         Recorded(stage, state, action, next)
  PROVE  /\ RecordMade(pkMem, pkMem', state, action, pkCall.pkg, Parsed = pkCall.pkg)
         /\ pkDisk' \in {pkMem', pkDisk} /\ pkCall.stage = stage /\ GoTo(next)
         /\ pkRoll' = pkRoll /\ pkCut' = FALSE
         /\ pkBuf' = IF state = "complete" THEN Junk ELSE pkBuf
  <1>1. /\ pkCall.stage = stage /\ GoTo(next) /\ pkRoll' = pkRoll /\ pkCut' = FALSE
        /\ pkBuf' = IF state = "complete" THEN Junk ELSE pkBuf
    BY DEF Recorded
  <1>2. /\ pkMem \in Works /\ Name \in PkgNames /\ Name = pkCall.pkg[1] /\ pkCall.pkg \in Packages1
    BY <1>1, CallFacts
  <1>3. /\ pkMem.known \in SUBSET PkgNames /\ pkMem.hurt \in SUBSET PkgNames
        /\ pkMem.torn \in SUBSET PkgNames
    BY <1>2, FieldsKnown
  <1> DEFINE mem == WithRecord(pkMem, state, action, pkCall.pkg)
             ended == IF state = "complete" /\ Parsed = pkCall.pkg THEN Settled(mem, Name) ELSE mem
             v == IF state = "complete" /\ action = "install"
                  THEN [ended EXCEPT !.known = @ \cup {Name}] ELSE ended
             rec == [state |-> state, action |-> action, pkg |-> pkCall.pkg]
             k == IF state = "complete" /\ action = "install" THEN pkMem.known \cup {Name} ELSE pkMem.known
             h == IF state = "complete" /\ Parsed = pkCall.pkg THEN pkMem.hurt \ {Name} ELSE pkMem.hurt
             t == IF state = "complete" /\ Parsed = pkCall.pkg THEN pkMem.torn \ {Name} ELSE pkMem.torn
  <1>4. \/ Wrote(v)
        \/ pkMem.tx.state = "none" /\ Refused([pkMem EXCEPT !.torn = @ \cup {Name}])
    BY DEF Recorded
  <1>5. CASE Wrote(v)
    <2>1. pkMem' = v /\ pkDisk' \in {pkMem', pkDisk}
      BY <1>5, WroteSaves
    <2>2. k \in SUBSET PkgNames /\ h \in SUBSET PkgNames /\ t \in SUBSET PkgNames
      BY <1>2, <1>3
    <2>3. v = MadeTree(pkMem.file, pkMem.store, pkMem.meta, pkMem.snap, rec, k, h, t)
      <3>1. mem = MadeTree(pkMem.file, pkMem.store, pkMem.meta, pkMem.snap, rec, pkMem.known,
                           pkMem.hurt, pkMem.torn)
        BY <1>2 DEF WithRecord, MadeTree, Works
      <3>2. ended = MadeTree(pkMem.file, pkMem.store, pkMem.meta, pkMem.snap, rec, pkMem.known, h, t)
        <4> HIDE DEF mem, rec
        <4>1. QED
          BY <3>1 DEF Settled, MadeTree
      <3>3. QED
        <4> HIDE DEF ended, rec, h, t
        <4>1. QED
          BY <3>2 DEF MadeTree
    <2> HIDE DEF v, k, h, t, mem, ended
    <2>4. /\ v \in Works /\ v.file = pkMem.file /\ v.store = pkMem.store /\ v.meta = pkMem.meta
          /\ v.snap = pkMem.snap /\ v.tx.state = state /\ v.tx.action = action
          /\ v.tx.pkg = pkCall.pkg /\ v.known = k /\ v.hurt = h /\ v.torn = t
      <3>1. v = Recording(pkMem, state, action, pkCall.pkg, k, h, t)
        BY <2>3 DEF Recording, MadeTx
      <3>2. QED
        BY <1>2, <2>2, <3>1, MadeRecord
    <2>5. QED
      BY <1>1, <1>2, <2>1, <2>4 DEF RecordMade, k, h, t
  <1>6. CASE pkMem.tx.state = "none" /\ Refused([pkMem EXCEPT !.torn = @ \cup {Name}])
    <2> DEFINE u == pkMem.torn \cup {Name}
    <2>1. /\ u \in SUBSET PkgNames /\ pkMem' = [pkMem EXCEPT !.torn = u]
          /\ pkDisk' \in {pkMem', pkDisk}
      BY <1>2, <1>3, <1>6, WroteSaves
    <2> HIDE DEF u
    <2>2. /\ pkMem' \in Works /\ pkMem'.file = pkMem.file /\ pkMem'.store = pkMem.store
          /\ pkMem'.meta = pkMem.meta /\ pkMem'.snap = pkMem.snap /\ pkMem'.tx = pkMem.tx
          /\ pkMem'.known = pkMem.known /\ pkMem'.hurt = pkMem.hurt /\ pkMem'.torn = u
      BY <1>2, <2>1 DEF Works
    <2>3. QED
      BY <1>1, <1>2, <1>6, <2>1, <2>2 DEF RecordMade, u
  <1>7. QED
    BY <1>4, <1>5, <1>6

\* The trees after a record, and every name between calls.
LEMMA RecordTrees ==
  ASSUME PkgInv, pkCall.stage # "idle", ~Transit(pkCall), pkCall.stage \notin Unwhole,
         NEW state \in {"running", "failed", "complete"},
         NEW action \in {"install", "rollback", "remove"}, NEW whole, whole = (Parsed = pkCall.pkg),
         RecordMade(pkMem, pkMem', state, action, pkCall.pkg, whole), pkDisk' \in {pkMem', pkDisk},
         state = "complete" => pkMem.meta[Name] = (IF action = "remove" THEN NoPkg ELSE pkCall.pkg),
         <<state, action>> \in {<<"complete", "remove">>, <<"failed", "rollback">>} =>
           pkMem.snap[Name] = pkCall.pkg,
         state = "complete" /\ whole =>
           /\ pkMem.meta[Name] = pkMem.store[Name] /\ pkMem.store[Name] # Junk
           /\ WholeIn(pkMem.file, pkMem.store[Name])
           /\ IsManifest(pkMem.store[Name]) \/ IsManifest(pkMem.snap[Name]),
         state = "complete" /\ action = "install" /\ ~whole => Name \in pkMem.hurt
  PROVE  TreeSound(pkMem') /\ TreeSound(pkDisk') /\ \A d : MemSound(pkMem', d)
  <1>1. /\ TreeSound(pkMem) /\ MemSound(pkMem, pkCall) /\ TreeSound(pkDisk)
        /\ Name \in PkgNames /\ Name = pkCall.pkg[1] /\ pkCall.pkg \in Packages1
    BY CallFacts DEF PkgInv
  <1>2. ~Spoiling(pkCall)
    BY DEF Transit
  <1>3. ASSUME NEW m \in PkgNames
        PROVE  /\ Agree(pkMem, m)
               /\ m \in pkMem.hurt \/ pkMem.store[m] # Junk
               /\ m \in pkMem.hurt \/ WholeIn(pkMem.file, pkMem.store[m])
    BY <1>1, <1>2 DEF MemSound, OthersAgree, OthersParse, OthersWhole
  <1>4. ASSUME NEW m \in PkgNames
        PROVE  /\ Agree(pkMem', m)
               /\ m \in pkMem'.hurt \/ pkMem'.store[m] # Junk
               /\ m \in pkMem'.hurt \/ WholeIn(pkMem'.file, pkMem'.store[m])
    <2>1. CASE m = Name
      BY <1>1, <1>3, <2>1 DEF RecordMade, Agree
    <2>2. CASE m # Name
      BY <1>1, <1>3, <2>2 DEF RecordMade, Agree
    <2>3. QED
      BY <2>1, <2>2
  <1>5. \A d : MemSound(pkMem', d)
    BY <1>4 DEF MemSound, OthersAgree, OthersParse, OthersWhole
  <1>6. pkMem' \in Works /\ Held(pkMem')
    BY <1>1 DEF RecordMade, TreeSound, Held
  <1>7. RecordHolds(pkMem')
    BY <1>1 DEF RecordMade, TreeSound, RecordHolds
  <1>8. Keeps(pkMem')
    <2> SUFFICES ASSUME NEW m \in pkMem'.known \ pkMem'.hurt
                 PROVE  IsManifest(pkMem'.store[m]) \/ IsManifest(pkMem'.snap[m]) \/ pkMem'.store[m] = Junk
      BY DEF Keeps
    <2>1. CASE m = Name
      BY <1>1, <2>1 DEF RecordMade, TreeSound, Keeps
    <2>2. CASE m # Name
      BY <1>1, <2>2 DEF RecordMade, TreeSound, Keeps
    <2>3. QED
      BY <2>1, <2>2
  <1>9. RunningAlone(pkMem')
    BY <1>4 DEF RunningAlone
  <1>10. QED
    BY <1>1, <1>5, <1>6, <1>7, <1>8, <1>9 DEF TreeSound

LEMMA NoPkgCallKnown ==
  /\ NoPkgCall \in PkgCalls /\ NoPkgCall.stage = "idle" /\ NoPkgCall.kind = "idle"
  /\ NoPkgCall.pos = 1 /\ NoPkgCall.left = {}
  <1>1. "idle" \in CallStages /\ 1 \in Nat \ {0}
    BY DEF CallStages
  <1>2. QED
    BY <1>1 DEF NoPkgCall, PkgCalls

\* A call ends.
LEMMA CallEnds ==
  ASSUME TreeSound(pkMem'), TreeSound(pkDisk'), MemSound(pkMem', pkCall'), pkCall' = NoPkgCall,
         pkMem'.tx.state # "running" \/ pkCut'
  PROVE  PkgInv'
  <1>1. pkCall'.stage = "idle" /\ pkCall'.kind = "idle" /\ pkCall' \in PkgCalls
    BY NoPkgCallKnown
  <1>2. "idle" \notin Installing /\ Unrecorded(pkCall')
    BY <1>1 DEF Installing, Unrecorded
  <1>3. /\ CallKnown(pkCall', pkBuf', pkRoll') /\ PutsBack(pkCall', pkMem')
        /\ Writes(pkCall', pkMem', Payload')
    BY <1>1, <1>2 DEF CallKnown, PutsBack, Writes
  <1>4. HasDone(pkCall', pkMem', (Parsed = pkCall.pkg)')
    BY <1>1 DEF HasDone
  <1>5. RecordRuns(pkCall', pkMem', pkCut')
    BY <1>1, <1>2 DEF RecordRuns
  <1>6. QED
    BY <1>1, <1>3, <1>4, <1>5 DEF PkgInv

\* The records that end a call.
LEMMA RecordEnds ==
  ASSUME PkgInv, NEW stage \in {"undone", "unrolled", "stored", "restored", "kept", "removed"},
         NEW state \in {"failed", "complete"}, NEW action \in {"install", "rollback", "remove"},
         Recorded(stage, state, action, "idle"),
         state = "complete" => pkMem.meta[Name] = (IF action = "remove" THEN NoPkg ELSE pkCall.pkg),
         <<state, action>> \in {<<"complete", "remove">>, <<"failed", "rollback">>} =>
           pkMem.snap[Name] = pkCall.pkg,
         state = "complete" /\ Parsed = pkCall.pkg =>
           /\ pkMem.meta[Name] = pkMem.store[Name] /\ pkMem.store[Name] # Junk
           /\ WholeIn(pkMem.file, pkMem.store[Name])
           /\ IsManifest(pkMem.store[Name]) \/ IsManifest(pkMem.snap[Name]),
         state = "complete" /\ action = "install" /\ Parsed # pkCall.pkg => Name \in pkMem.hurt
  PROVE  PkgInv'
  <1>1. /\ RecordMade(pkMem, pkMem', state, action, pkCall.pkg, Parsed = pkCall.pkg)
        /\ pkDisk' \in {pkMem', pkDisk} /\ pkCall.stage = stage /\ pkCall' = NoPkgCall
    <2>1. state \in {"running", "failed", "complete"} /\ stage # "idle"
      OBVIOUS
    <2>2. /\ RecordMade(pkMem, pkMem', state, action, pkCall.pkg, Parsed = pkCall.pkg)
          /\ pkDisk' \in {pkMem', pkDisk} /\ pkCall.stage = stage /\ GoTo("idle")
      BY <2>1, RecordedFacts, Zenon
    <2>3. QED
      BY <2>2 DEF GoTo
  <1>2. ~Transit(pkCall) /\ pkCall.stage \notin Unwhole /\ pkCall.stage # "idle"
    BY <1>1 DEF Transit, Spoiling, Unwhole
  <1>3. TreeSound(pkMem') /\ TreeSound(pkDisk') /\ MemSound(pkMem', pkCall')
    BY <1>1, <1>2, RecordTrees
  <1>4. pkMem'.tx.state # "running"
    BY <1>1 DEF RecordMade
  <1>5. QED
    BY <1>1, <1>3, <1>4, CallEnds

\* The records in the middle of a call.
LEMMA RecordPasses ==
  ASSUME PkgInv, NEW stage \in {"rolling", "begin", "undone", "stored", "removing"},
         NEW state \in {"running", "failed", "complete"}, NEW action \in {"install", "rollback", "remove"},
         NEW next \in {"loading", "replay", "unrolled", "dropsnap", "snap"},
         Recorded(stage, state, action, next),
         state = "complete" => next = "dropsnap" /\ action = "install",
         state = "complete" => pkMem.meta[Name] = pkCall.pkg,
         action = "rollback" => state = "running",
         state = "complete" /\ Parsed = pkCall.pkg =>
           /\ pkMem.meta[Name] = pkMem.store[Name] /\ pkMem.store[Name] # Junk
           /\ WholeIn(pkMem.file, pkMem.store[Name])
           /\ IsManifest(pkMem.store[Name]) \/ IsManifest(pkMem.snap[Name]),
         state = "complete" /\ action = "install" /\ Parsed # pkCall.pkg => Name \in pkMem.hurt,
         IF next \in {"unrolled", "dropsnap"} THEN pkCall.kind = "rollback" ELSE state = "running",
         pkCall.kind = "rollback" => next \notin {"snap"},
         next = "dropsnap" => state = "complete",
         pkCall.kind # "remove" => next \in Installing \cup RollingBack,
         pkCall.kind = "install" => next \in Installing,
         pkCall.kind = "remove" => next \in Removing,
         stage = "rolling" \/ next # "loading",
         NEW d, d = AtStage(pkCall, next), PutsBack(d, pkMem'), HasDone(d, pkMem', Parsed = pkCall.pkg),
         Writes(d, pkMem', Payload)
  PROVE  PkgInv'
  <1>1. /\ RecordMade(pkMem, pkMem', state, action, pkCall.pkg, Parsed = pkCall.pkg)
        /\ pkDisk' \in {pkMem', pkDisk} /\ pkCall.stage = stage /\ pkCall' = d
        /\ pkRoll' = pkRoll /\ pkCut' = FALSE /\ pkBuf' = IF state = "complete" THEN Junk ELSE pkBuf
    <2>1. stage # "idle" /\ next # "idle"
      OBVIOUS
    <2>2. /\ RecordMade(pkMem, pkMem', state, action, pkCall.pkg, Parsed = pkCall.pkg)
          /\ pkDisk' \in {pkMem', pkDisk} /\ pkCall.stage = stage /\ GoTo(next)
          /\ pkRoll' = pkRoll /\ pkCut' = FALSE /\ pkBuf' = IF state = "complete" THEN Junk ELSE pkBuf
      BY <2>1, RecordedFacts, Zenon
    <2>3. QED
      BY <2>1, <2>2 DEF GoTo, AtStage
  <1>2. ~Transit(pkCall) /\ pkCall.stage \notin Unwhole /\ pkCall.stage # "idle"
    BY <1>1 DEF Transit, Spoiling, Unwhole
  <1>3. TreeSound(pkMem') /\ TreeSound(pkDisk') /\ MemSound(pkMem', pkCall')
    BY <1>1, <1>2, RecordTrees
  <1>4. pkCall \in PkgCalls /\ pkCall.pkg \in Packages1 /\ next \in CallStages
    BY <1>2, CallFacts DEF CallStages, Installing, RollingBack, Removing
  <1>5. GoesOn(pkCall, pkCall') /\ pkCall'.stage = next
    BY <1>1, <1>4, StageChanges
  <1>6. CallKnown(pkCall', pkBuf', pkRoll')
    <2>1. CallKnown(pkCall, pkBuf, pkRoll)
      BY DEF PkgInv
    <2>2. state = "complete" => pkCall.kind = "rollback"
      OBVIOUS
    <2>3. QED
      BY <1>1, <1>2, <1>5, <2>1, <2>2 DEF CallKnown, GoesOn
  <1>7. Parsed' = Parsed /\ Payload' = Payload
    <2>1. pkCall.from = "main" => pkBuf' = pkBuf
      BY <1>1, <1>2 DEF PkgInv, CallKnown
    <2>2. QED
      BY <1>1, <1>5, <2>1 DEF GoesOn, Parsed, Payload
  <1>8. RecordRuns(pkCall', pkMem', pkCut')
    <2>1. CASE next \in {"loading", "replay", "snap"}
      BY <1>1, <1>5, <2>1 DEF RecordRuns, RecordMade, Unrecorded, GoesOn
    <2>2. CASE next = "unrolled"
      BY <1>5, <2>2 DEF RecordRuns, Unrecorded, Closing
    <2>3. CASE next = "dropsnap"
      BY <1>1, <1>5, <2>3 DEF RecordRuns, RecordMade, Unrecorded, Closing, GoesOn
    <2>4. QED
      BY <2>1, <2>2, <2>3
  <1>9. QED
    BY <1>1, <1>3, <1>5, <1>6, <1>7, <1>8 DEF PkgInv, GoesOn

\* The stages that only a rollback has.
LEMMA RollbackStages ==
  ASSUME PkgInv, pkCall.stage \in {"rolling", "loading", "unrolled", "restored"}
  PROVE  pkCall.stage # "idle" /\ pkCall.kind = "rollback"
  <1>1. pkCall.stage # "idle" /\ pkCall.stage \notin Installing /\ pkCall.stage \notin Removing
    BY DEF Installing, Removing
  <1>2. pkCall.kind \in {"idle", "install", "rollback", "remove"}
    BY <1>1, CallFacts DEF PkgCalls
  <1>3. QED
    BY <1>1, <1>2 DEF PkgInv, CallKnown

LEMMA WriteRecordKeeps == PkgInv /\ WriteRecord => PkgInv'
  <1> SUFFICES ASSUME PkgInv, WriteRecord PROVE PkgInv'
    OBVIOUS
  <1>1. ASSUME Recorded("rolling", "running", "rollback", "loading") PROVE PkgInv'
    <2>1. /\ pkCall.stage = "rolling" /\ RecordMade(pkMem, pkMem', "running", "rollback", pkCall.pkg, Parsed = pkCall.pkg)
      BY <1>1, RecordedFacts, Zenon
    <2>2. pkMem \in Works /\ pkCall \in PkgCalls /\ "loading" \in CallStages /\ Name = pkCall.pkg[1]
      BY <2>1, CallFacts DEF CallStages, RollingBack
    <2>3. pkCall.kind = "rollback" /\ "loading" \notin Installing /\ "loading" \in RollingBack
      BY <2>1, RollbackStages DEF Installing, RollingBack
    <2> DEFINE d == AtStage(pkCall, "loading")
    <2>4. GoesOn(pkCall, d) /\ d.stage = "loading" /\ d.left = pkCall.left
      BY <2>2, StageChanges
    <2> HIDE DEF d
    <2>5. pkMem'.snap = pkMem.snap
      BY <2>1 DEF RecordMade
    <2>6. PutsBack(d, pkMem') /\ HasDone(d, pkMem', Parsed = pkCall.pkg)
      <3>1. PutsBack(d, pkMem')
        BY <2>3, <2>4 DEF PutsBack
      <3>2. HasDone(d, pkMem', Parsed = pkCall.pkg)
        BY <2>1, <2>3, <2>4, <2>5, NameFacts DEF HasDone, GoesOn
      <3>3. QED
        BY <3>1, <3>2
    <2>7. Writes(d, pkMem', Payload)
      BY <2>1, <2>4, NameFacts DEF Writes, GoesOn
    <2>8. QED
      BY <1>1, <2>3, <2>6, <2>7, RecordPasses DEF d
  <1>2. ASSUME Recorded("begin", "running", "install", "replay") PROVE PkgInv'
    <2>1. /\ pkCall.stage = "begin" /\ RecordMade(pkMem, pkMem', "running", "install", pkCall.pkg, Parsed = pkCall.pkg)
      BY <1>2, RecordedFacts, Zenon
    <2>2. /\ pkMem \in Works /\ pkCall \in PkgCalls /\ "replay" \in CallStages /\ Name = pkCall.pkg[1]
          /\ Payload \in Packages1
      BY <2>1, CallFacts, PayloadFacts DEF CallStages, Installing
    <2>3. pkCall.kind # "remove" /\ "begin" \in Installing /\ "replay" \in Installing
      BY <2>1 DEF PkgInv, CallKnown, Installing, Removing
    <2> DEFINE d == AtStage(pkCall, "replay")
    <2>4. GoesOn(pkCall, d) /\ d.stage = "replay" /\ d.left = pkCall.left /\ d.pos = pkCall.pos
      BY <2>2, StageChanges
    <2> HIDE DEF d
    <2>5. /\ pkMem'.store = pkMem.store /\ pkMem'.meta = pkMem.meta /\ pkMem'.snap = pkMem.snap
          /\ pkMem'.known = pkMem.known /\ pkMem'.hurt = pkMem.hurt /\ pkMem.torn \subseteq pkMem'.torn
      BY <2>1 DEF RecordMade
    <2>6. PutsBack(d, pkMem')
      BY <2>1, <2>3, <2>4, <2>5, NameFacts DEF PutsBack, GoesOn
    <2>7. HasDone(d, pkMem', Parsed = pkCall.pkg)
      BY <2>1, <2>3, <2>4, <2>5, NameFacts DEF HasDone, GoesOn
    <2>8. Writes(d, pkMem', Payload)
      <3>1. \A i \in DOMAIN PayloadOf[Payload] : ~(i < 1)
        BY <2>2, PayloadKnown
      <3>2. pkCall.pos = 1
        BY <2>1, NameFacts DEF Writes
      <3>3. QED
        BY <2>1, <2>4, <3>1, <3>2, NameFacts DEF Writes, GoesOn
    <2>9. QED
      BY <1>2, <2>3, <2>6, <2>7, <2>8, RecordPasses DEF d
  <1>3. ASSUME Recorded("undone", "failed", "install", AfterInstall(TRUE)) PROVE PkgInv'
    <2>1. pkCall.stage = "undone" /\ pkCall.kind # "remove"
      BY <1>3 DEF Recorded, PkgInv, CallKnown, Removing
    <2>2. CASE pkCall.kind # "rollback"
      <3>1. Recorded("undone", "failed", "install", "idle")
        BY <1>3, <2>2 DEF AfterInstall
      <3>2. QED
        BY <3>1, RecordEnds
    <2>3. CASE pkCall.kind = "rollback"
      <3>1. Recorded("undone", "failed", "install", "unrolled")
        BY <1>3, <2>3 DEF AfterInstall
      <3>2. RecordMade(pkMem, pkMem', "failed", "install", pkCall.pkg, Parsed = pkCall.pkg)
        BY <3>1, RecordedFacts, Zenon
      <3>3. pkMem \in Works /\ pkCall \in PkgCalls /\ "unrolled" \in CallStages /\ Name = pkCall.pkg[1]
        BY <2>1, CallFacts DEF CallStages, RollingBack
      <3>4. "unrolled" \notin Installing /\ "unrolled" \in RollingBack
        BY DEF Installing, RollingBack
      <3> DEFINE d == AtStage(pkCall, "unrolled")
      <3>5. GoesOn(pkCall, d) /\ d.stage = "unrolled" /\ d.left = pkCall.left
        BY <3>3, StageChanges
      <3> HIDE DEF d
      <3>6. pkMem'.snap = pkMem.snap
        BY <3>2 DEF RecordMade
      <3>7. PutsBack(d, pkMem')
        BY <2>3, <3>4, <3>5 DEF PutsBack
      <3>8. HasDone(d, pkMem', Parsed = pkCall.pkg)
        BY <2>1, <2>3, <3>5, <3>6, NameFacts DEF HasDone, GoesOn
      <3>9. Writes(d, pkMem', Payload)
        BY <2>1, <3>5, NameFacts DEF Writes, GoesOn
      <3>10. QED
        BY <2>3, <3>1, <3>4, <3>7, <3>8, <3>9, RecordPasses DEF d
    <2>4. QED
      BY <2>2, <2>3
  <1>4. ASSUME Recorded("unrolled", "failed", "rollback", "idle") PROVE PkgInv'
    <2>1. pkCall.stage = "unrolled" /\ pkCall.kind = "rollback"
      BY <1>4, RollbackStages DEF Recorded
    <2>2. pkMem.snap[Name] = pkCall.pkg
      BY <2>1, NameFacts, CallFacts DEF HasDone
    <2>3. QED
      BY <1>4, <2>2, RecordEnds
  <1>5. ASSUME Recorded("stored", "complete", "install", AfterInstall(FALSE)) PROVE PkgInv'
    <2>1. pkCall.stage = "stored" /\ pkCall.kind # "remove"
      BY <1>5 DEF Recorded, PkgInv, CallKnown, Removing
    <2>2. /\ pkMem.meta[Name] = pkCall.pkg /\ Name = pkCall.pkg[1] /\ pkCall.pkg \in Packages1
          /\ IF Parsed = pkCall.pkg THEN pkMem.store[Name] = pkCall.pkg /\ WholeIn(pkMem.file, pkCall.pkg)
             ELSE Name \in pkMem.hurt
      BY <2>1, NameFacts, CallFacts DEF HasDone
    <2>3. Parsed = pkCall.pkg =>
           /\ pkMem.meta[Name] = pkMem.store[Name] /\ pkMem.store[Name] # Junk
           /\ WholeIn(pkMem.file, pkMem.store[Name]) /\ IsManifest(pkMem.store[Name])
      BY <2>2, PackagesKnown DEF IsManifest
    <2>4. CASE pkCall.kind # "rollback"
      <3>1. Recorded("stored", "complete", "install", "idle")
        BY <1>5, <2>4 DEF AfterInstall
      <3>2. QED
        BY <2>2, <2>3, <3>1, RecordEnds
    <2>5. CASE pkCall.kind = "rollback"
      <3>1. Recorded("stored", "complete", "install", "dropsnap")
        BY <1>5, <2>5 DEF AfterInstall
      <3>2. RecordMade(pkMem, pkMem', "complete", "install", pkCall.pkg, Parsed = pkCall.pkg)
        BY <3>1, RecordedFacts, Zenon
      <3>3. pkMem \in Works /\ pkCall \in PkgCalls /\ "dropsnap" \in CallStages
        BY <2>1, CallFacts DEF CallStages, RollingBack
      <3>4. "dropsnap" \notin Installing /\ "dropsnap" \in RollingBack
        BY DEF Installing, RollingBack
      <3> DEFINE d == AtStage(pkCall, "dropsnap")
      <3>5. GoesOn(pkCall, d) /\ d.stage = "dropsnap" /\ d.left = pkCall.left
        BY <3>3, StageChanges
      <3> HIDE DEF d
      <3>6. /\ pkMem'.snap = pkMem.snap /\ pkMem'.meta = pkMem.meta /\ pkMem'.store = pkMem.store
            /\ pkMem'.file = pkMem.file /\ (Parsed # pkCall.pkg => pkMem'.hurt = pkMem.hurt)
        BY <3>2 DEF RecordMade
      <3>7. PutsBack(d, pkMem')
        BY <2>5, <3>4, <3>5 DEF PutsBack
      <3>8. HasDone(d, pkMem', Parsed = pkCall.pkg)
        BY <2>1, <2>2, <2>5, <3>5, <3>6, NameFacts DEF HasDone, GoesOn
      <3>9. Writes(d, pkMem', Payload)
        BY <2>1, <3>5, NameFacts DEF Writes, GoesOn
      <3>10. QED
        BY <2>2, <2>3, <2>5, <3>1, <3>4, <3>7, <3>8, <3>9, RecordPasses DEF d
    <2>6. QED
      BY <2>4, <2>5
  <1>6. ASSUME Recorded("restored", "complete", "rollback", "idle") PROVE PkgInv'
    <2>1. pkCall.stage = "restored" /\ pkCall.kind = "rollback"
      BY <1>6, RollbackStages DEF Recorded
    <2>2. /\ pkMem.meta[Name] = pkCall.pkg /\ Name = pkCall.pkg[1] /\ pkCall.pkg \in Packages1
          /\ Parsed = pkCall.pkg => pkMem.store[Name] = pkCall.pkg /\ WholeIn(pkMem.file, pkCall.pkg)
      BY <2>1, NameFacts, CallFacts DEF HasDone
    <2>3. Parsed = pkCall.pkg =>
           /\ pkMem.meta[Name] = pkMem.store[Name] /\ pkMem.store[Name] # Junk
           /\ WholeIn(pkMem.file, pkMem.store[Name]) /\ IsManifest(pkMem.store[Name])
      BY <2>2, PackagesKnown DEF IsManifest
    <2>4. QED
      BY <1>6, <2>2, <2>3, RecordEnds
  <1>7. ASSUME Recorded("removing", "running", "remove", "snap") PROVE PkgInv'
    <2>1. /\ pkCall.stage = "removing" /\ RecordMade(pkMem, pkMem', "running", "remove", pkCall.pkg, Parsed = pkCall.pkg)
      BY <1>7, RecordedFacts, Zenon
    <2>2. /\ pkMem \in Works /\ pkCall \in PkgCalls /\ "snap" \in CallStages /\ Name = pkCall.pkg[1]
          /\ pkCall.kind = "remove" /\ "snap" \in Removing
      BY <2>1, CallFacts, RemoveStages DEF CallStages, Removing
    <2> DEFINE d == AtStage(pkCall, "snap")
    <2>3. GoesOn(pkCall, d) /\ d.stage = "snap" /\ d.left = pkCall.left
      BY <2>2, StageChanges
    <2> HIDE DEF d
    <2>4. pkMem'.store = pkMem.store /\ pkMem'.hurt = pkMem.hurt
      BY <2>1 DEF RecordMade
    <2>5. PutsBack(d, pkMem')
      BY <2>2, <2>3 DEF PutsBack, GoesOn
    <2>6. HasDone(d, pkMem', Parsed = pkCall.pkg)
      BY <2>1, <2>2, <2>3, <2>4, NameFacts DEF HasDone, GoesOn
    <2>7. Writes(d, pkMem', Payload)
      BY <2>1, <2>3, NameFacts DEF Writes, GoesOn
    <2>8. QED
      BY <1>7, <2>2, <2>5, <2>6, <2>7, RecordPasses DEF d
  <1>8. ASSUME Recorded("kept", "failed", "remove", "idle") PROVE PkgInv'
    BY <1>8, RecordEnds
  <1>9. ASSUME Recorded("removed", "complete", "remove", "idle") PROVE PkgInv'
    <2>1. pkCall.stage = "removed" /\ pkCall.kind = "remove"
      BY <1>9, RemoveStages DEF Recorded
    <2>2. /\ pkMem.meta[Name] = NoPkg /\ pkMem.store[Name] = NoPkg /\ pkMem.snap[Name] = pkCall.pkg
          /\ pkCall.pkg \in Packages1
      BY <2>1, RemoveFacts
    <2>3. NoPkg # Junk /\ WholeIn(pkMem.file, NoPkg) /\ IsManifest(pkMem.snap[Name])
      BY <2>2, PackagesKnown DEF WholeIn, IsManifest
    <2>4. QED
      BY <1>9, <2>2, <2>3, RecordEnds
  <1>10. QED
    BY <1>1, <1>2, <1>3, <1>4, <1>5, <1>6, <1>7, <1>8, <1>9 DEF WriteRecord

LEMMA DropSnapKeeps == PkgInv /\ DropSnap => PkgInv'
  <1> SUFFICES ASSUME PkgInv, DropSnap PROVE PkgInv'
    OBVIOUS
  <1>1. /\ pkCall.stage = "dropsnap" /\ UNCHANGED <<pkBuf, pkRoll, pkCut>>
        /\ pkCall' = AtStage(pkCall, IF pkCall.kind = "remove" THEN "kept" ELSE "restored")
        /\ Wrote(WithSnap(pkMem, Name, NoPkg))
    BY DEF DropSnap, GoTo, AtStage, WithSnap
  <1>2. /\ pkMem \in Works /\ Held(pkMem) /\ Name \in PkgNames /\ Name = pkCall.pkg[1]
        /\ pkCall \in PkgCalls /\ pkCall.pkg \in Packages1 /\ NoPkg \in HeldBy(Name)
    BY <1>1, CallFacts DEF HeldBy
  <1>3. /\ "kept" \in CallStages /\ "restored" \in CallStages /\ "kept" \in Removing
        /\ "restored" \in RollingBack /\ "restored" \notin Installing /\ "dropsnap" \notin Unwhole
        /\ "dropsnap" \notin Installing
    BY DEF CallStages, Removing, Unwhole, RollingBack, Installing
  <1>4. /\ GoesOn(pkCall, pkCall') /\ pkCall'.left = pkCall.left
        /\ pkCall'.stage = IF pkCall.kind = "remove" THEN "kept" ELSE "restored"
    BY <1>1, <1>2, <1>3, StageChanges
  <1>5. /\ Alone(pkMem, pkMem', Name) /\ pkMem'.file = pkMem.file /\ pkMem'.store = pkMem.store
        /\ pkMem'.meta = pkMem.meta /\ pkMem'.hurt = pkMem.hurt /\ pkDisk' \in {pkMem', pkDisk}
    BY <1>1, <1>2, SnapChanges, WroteSaves
  <1>6. /\ Agree(pkMem', Name) /\ (Name \in pkMem'.hurt \/ pkMem'.store[Name] # Junk)
        /\ Name \in pkMem'.hurt \/ WholeIn(pkMem'.file, pkMem'.store[Name])
    <2>1. ~Transit(pkCall) /\ ~Spoiling(pkCall)
      BY <1>1 DEF Transit, Spoiling
    <2>2. QED
      BY <1>1, <1>3, <1>5, <2>1, NameFacts DEF Agree, Alone
  <1>7. Writes(pkCall', pkMem', Payload)
    BY <1>1, <1>4, NameFacts DEF Writes, GoesOn
  <1>8. CASE pkCall.kind = "remove"
    <2>1. Midway(pkCall) /\ Midway(pkCall')
      BY <1>1, <1>4, <1>8 DEF Midway, Unrecorded, Closing
    <2>2. PutsBack(pkCall', pkMem')
      BY <1>4, <1>8 DEF PutsBack, GoesOn
    <2>3. Name \in pkMem.hurt \/ pkMem.store[Name] = pkCall.pkg
      BY <1>1, <1>8, RemoveFacts
    <2>4. HasDone(pkCall', pkMem', Parsed = pkCall.pkg)
      BY <1>2, <1>4, <1>5, <1>8, <2>3 DEF HasDone, GoesOn
    <2>5. Name \in pkMem'.known \ pkMem'.hurt => IsManifest(pkMem'.store[Name])
      BY <1>2, <1>5, <2>3 DEF IsManifest
    <2>6. QED
      BY <1>1, <1>3, <1>4, <1>5, <1>6, <1>7, <1>8, <2>1, <2>2, <2>4, <2>5, CallMoves
  <1>9. CASE pkCall.kind # "remove"
    <2>1. pkCall.kind = "rollback"
      <3>1. pkCall.kind \in {"idle", "install", "rollback", "remove"}
        BY <1>2 DEF PkgCalls
      <3>2. QED
        BY <1>1, <1>3, <1>9, <3>1 DEF PkgInv, CallKnown
    <2>2. /\ IF Parsed = pkCall.pkg THEN pkMem.store[Name] = pkCall.pkg /\ WholeIn(pkMem.file, pkCall.pkg)
             ELSE Name \in pkMem.hurt
          /\ pkMem.meta[Name] = pkCall.pkg
      BY <1>1, <1>2, <2>1, NameFacts DEF HasDone
    <2>3. <<pkMem.tx.state, pkMem.tx.action>> \notin {<<"complete", "remove">>, <<"failed", "rollback">>}
      BY <1>1 DEF PkgInv, RecordRuns
    <2>4. TreeSound(pkMem) /\ TreeSound(pkDisk)
      BY DEF PkgInv
    <2>5. pkMem' \in Works /\ Held(pkMem') /\ pkMem'.tx = pkMem.tx
      BY <1>5, <2>4 DEF Alone, TreeSound, Held
    <2>6. RecordHolds(pkMem')
      BY <1>5, <2>3, <2>4, <2>5 DEF RecordHolds, TreeSound
    <2>7. Keeps(pkMem')
      <3> SUFFICES ASSUME NEW m \in pkMem'.known \ pkMem'.hurt
                   PROVE  IsManifest(pkMem'.store[m]) \/ IsManifest(pkMem'.snap[m]) \/ pkMem'.store[m] = Junk
        BY DEF Keeps
      <3>1. m \in PkgNames
        BY <2>5, FieldsKnown
      <3>2. CASE m = Name
        BY <1>2, <1>5, <2>2, <3>2 DEF IsManifest
      <3>3. CASE m # Name
        BY <1>5, <2>4, <3>1, <3>3 DEF Alone, TreeSound, Keeps
      <3>4. QED
        BY <3>2, <3>3
    <2>8. RunningAlone(pkMem')
      BY <1>5, <2>4 DEF TreeSound, RunningAlone, Agree, Alone
    <2>9. TreeSound(pkMem') /\ TreeSound(pkDisk')
      BY <1>5, <2>4, <2>5, <2>6, <2>7, <2>8 DEF TreeSound
    <2>10. MemSound(pkMem', pkCall')
      BY <1>1, <1>5, <1>6, OthersMove
    <2>11. Parsed' = Parsed /\ Payload' = Payload
      BY <1>1, <1>4 DEF GoesOn, Parsed, Payload
    <2>12. CallKnown(pkCall', pkBuf', pkRoll')
      <3>1. CallKnown(pkCall, pkBuf, pkRoll)
        BY DEF PkgInv
      <3>2. QED
        BY <1>1, <1>3, <1>4, <2>1, <3>1 DEF CallKnown, GoesOn
    <2>13. PutsBack(pkCall', pkMem')
      BY <1>3, <1>4, <2>1 DEF PutsBack, GoesOn
    <2>14. HasDone(pkCall', pkMem', Parsed = pkCall.pkg)
      BY <1>2, <1>4, <1>5, <2>1, <2>2 DEF HasDone, GoesOn
    <2>15. RecordRuns(pkCall', pkMem', pkCut')
      BY <1>4, <2>1, <2>3, <2>5 DEF RecordRuns, Unrecorded, Closing
    <2>16. QED
      BY <1>4, <1>7, <2>9, <2>10, <2>11, <2>12, <2>13, <2>14, <2>15 DEF PkgInv, GoesOn
  <1>10. QED
    BY <1>8, <1>9
-----------------------------------------------------------------------------
(* The starts of the calls.                                                *)

Started(kind, g, from, old, om, stage) ==
  [kind |-> kind, pkg |-> g, from |-> from, old |-> old, oldMeta |-> om, stage |-> stage,
   pos |-> 1, db |-> FALSE, left |-> {}]

StartedAs(d, kind, g, from, old, om, stage) ==
  /\ d \in PkgCalls /\ d.kind = kind /\ d.pkg = g /\ d.from = from /\ d.old = old
  /\ d.oldMeta = om /\ d.stage = stage /\ d.pos = 1 /\ d.left = {}

LEMMA StartedKnown ==
  ASSUME NEW kind \in {"install", "rollback", "remove"}, NEW g \in Packages1, NEW from \in {"main", "roll"},
         NEW old \in Packages1 \cup {NoPkg}, NEW om \in Packages1 \cup {NoPkg, Junk},
         NEW stage \in CallStages
  PROVE  StartedAs(Started(kind, g, from, old, om, stage), kind, g, from, old, om, stage)
  <1>1. 1 \in Nat \ {0} /\ FALSE \in BOOLEAN /\ {} \in SUBSET PkgPaths
    OBVIOUS
  <1>2. QED
    BY <1>1 DEF StartedAs, Started, PkgCalls

LEMMA EveryName ==
  ASSUME PkgInv, pkCall.stage \in {"idle", "loading"}
  PROVE  /\ \A d : MemSound(pkMem, d)
         /\ \A m \in PkgNames : Agree(pkMem, m) /\ (m \in pkMem.hurt \/ pkMem.store[m] # Junk)
  <1>1. ~Transit(pkCall) /\ ~Spoiling(pkCall) /\ pkCall.stage \notin Unwhole
    BY DEF Transit, Spoiling, Unwhole
  <1>2. MemSound(pkMem, pkCall)
    BY DEF PkgInv
  <1>3. ASSUME NEW m \in PkgNames
        PROVE  /\ Agree(pkMem, m)
               /\ m \in pkMem.hurt \/ pkMem.store[m] # Junk
               /\ m \in pkMem.hurt \/ WholeIn(pkMem.file, pkMem.store[m])
    BY <1>1, <1>2 DEF MemSound, OthersAgree, OthersParse, OthersWhole
  <1>4. QED
    BY <1>3 DEF MemSound, OthersAgree, OthersParse, OthersWhole

LEMMA CallBegins ==
  ASSUME PkgInv, pkCall.stage \in {"idle", "loading"}, UNCHANGED <<pkMem, pkDisk, pkCut>>,
         pkCall'.stage \in {"begin", "unrolled", "rolling", "removing"}, pkCall'.left = {},
         pkCall'.pos = 1, CallKnown(pkCall', pkBuf', pkRoll'), PutsBack(pkCall', pkMem),
         \A b \in BOOLEAN : HasDone(pkCall', pkMem, b), RecordRuns(pkCall', pkMem, pkCut)
  PROVE  PkgInv'
  <1>1. TreeSound(pkMem) /\ TreeSound(pkDisk) /\ MemSound(pkMem, pkCall')
    BY EveryName DEF PkgInv
  <1>2. Writes(pkCall', pkMem', Payload')
    BY DEF Writes
  <1>3. HasDone(pkCall', pkMem', (Parsed = pkCall.pkg)')
    BY Zenon
  <1>4. QED
    BY <1>1, <1>2, <1>3 DEF PkgInv

LEMMA LoadKeeps ==
  ASSUME PkgInv, NEW g \in Packages1, NEW kind \in {"install", "rollback"},
         NEW from, from = (IF kind = "rollback" THEN "roll" ELSE "main"), Load(kind, g, from),
         UNCHANGED <<pkMem, pkDisk, pkCut>>,
         IF kind = "install" THEN pkCall.stage = "idle" /\ pkBuf' = g
         ELSE pkCall.stage = "loading" /\ pkCall.kind = "rollback" /\ pkCall.pkg = g
  PROVE  PkgInv'
  <1> DEFINE n == g[1]
             stored == pkMem.store[n]
             old == IF IsManifest(stored) THEN stored ELSE NoPkg
             om == IF old = NoPkg THEN NoPkg ELSE pkMem.meta[n]
  <1>1. /\ n \in PkgNames /\ TreeSound(pkMem) /\ stored \in HeldBy(n) /\ pkMem.meta[n] \in HeldBy(n)
        /\ NoPkg \in HeldBy(n)
    BY PackagesKnown DEF PkgInv, TreeSound, Held, HeldBy
  <1>2. old \in HeldBy(n) /\ old # Junk /\ om \in HeldBy(n)
    BY <1>1, PackagesKnown DEF IsManifest
  <1>3. old \in Packages1 \cup {NoPkg} /\ om \in Packages1 \cup {NoPkg, Junk}
    BY <1>2 DEF HeldBy
  <1>4. /\ om = old \/ n \in pkMem.hurt \cup pkMem.torn
        /\ n \in pkMem.hurt \/ stored # Junk
    <2>1. Agree(pkMem, n) /\ (n \in pkMem.hurt \/ stored # Junk)
      BY <1>1, EveryName
    <2>2. QED
      BY <2>1 DEF Agree
  <1>5. old = NoPkg /\ n \in pkMem.known \ pkMem.hurt => IsManifest(pkMem.snap[n])
    BY <1>1, <1>4, PackagesKnown DEF TreeSound, Keeps, IsManifest
  <1>6. IsManifest(stored) => stored = old
    OBVIOUS
  <1>7. stored # NoPkg => stored \in {Junk, old} \ {NoPkg}
    BY <1>1 DEF HeldBy, IsManifest
  <1>8. RecordRuns(pkCall, pkMem, pkCut) /\ CallKnown(pkCall, pkBuf, pkRoll)
    BY DEF PkgInv
  <1>9. kind = "rollback" => pkMem.snap[n] = g /\ pkRoll = g
    <2>1. HasDone(pkCall, pkMem, Parsed = pkCall.pkg)
      BY DEF PkgInv
    <2>2. QED
      BY <1>8, <2>1 DEF HasDone, CallKnown
  <1>10. "begin" \in Installing /\ "begin" \in CallStages /\ "unrolled" \in CallStages
         /\ "unrolled" \in RollingBack /\ "unrolled" \notin Installing
    BY DEF Installing, CallStages, RollingBack
  <1>11. CASE ~DependenciesMet(pkMem, g) /\ kind = "install"
    <2>1. pkCall' = NoPkgCall
      BY <1>11 DEF Load
    <2>2. pkMem.tx.state # "running" \/ pkCut
      BY <1>8, <1>11 DEF RecordRuns, Unrecorded
    <2>3. QED
      BY <1>11, <2>1, <2>2, CallEnds, EveryName DEF PkgInv
  <1>12. CASE ~DependenciesMet(pkMem, g) /\ kind = "rollback"
    <2>1. pkCall' = Started(kind, g, from, NoPkg, NoPkg, "unrolled") /\ pkRoll' = pkRoll
      BY <1>12 DEF Load, NoPkgCall, Started
    <2>2. /\ pkCall' \in PkgCalls /\ pkCall'.kind = kind /\ pkCall'.pkg = g /\ pkCall'.from = from
          /\ pkCall'.stage = "unrolled" /\ pkCall'.pos = 1 /\ pkCall'.left = {}
      <3>1. from \in {"main", "roll"} /\ NoPkg \in Packages1 \cup {NoPkg}
            /\ NoPkg \in Packages1 \cup {NoPkg, Junk}
        OBVIOUS
      <3>2. StartedAs(pkCall', kind, g, from, NoPkg, NoPkg, "unrolled")
        BY <1>10, <2>1, <3>1, StartedKnown
      <3>3. QED
        BY <3>2 DEF StartedAs
    <2>3. CallKnown(pkCall', pkBuf', pkRoll')
      BY <1>9, <1>10, <1>12, <2>1, <2>2 DEF CallKnown
    <2>4. PutsBack(pkCall', pkMem)
      BY <1>10, <2>2 DEF PutsBack
    <2>5. \A b \in BOOLEAN : HasDone(pkCall', pkMem, b)
      BY <1>9, <1>12, <2>2 DEF HasDone
    <2>6. RecordRuns(pkCall', pkMem, pkCut)
      BY <2>2 DEF RecordRuns, Unrecorded, Closing
    <2>7. QED
      BY <1>12, <2>2, <2>3, <2>4, <2>5, <2>6, CallBegins
  <1>13. CASE DependenciesMet(pkMem, g)
    <2>1. /\ pkCall' = Started(kind, g, from, old, om, "begin")
          /\ pkRoll' = IF stored = NoPkg THEN pkRoll ELSE stored
      BY <1>13 DEF Load, NoPkgCall, Started
    <2> HIDE DEF stored, old, om
    <2>2. /\ pkCall' \in PkgCalls /\ pkCall'.kind = kind /\ pkCall'.pkg = g /\ pkCall'.from = from
          /\ pkCall'.old = old /\ pkCall'.oldMeta = om
          /\ pkCall'.stage = "begin" /\ pkCall'.pos = 1 /\ pkCall'.left = {}
      <3>1. from \in {"main", "roll"}
        OBVIOUS
      <3>2. StartedAs(pkCall', kind, g, from, old, om, "begin")
        BY <1>3, <1>10, <2>1, <3>1, StartedKnown
      <3>3. QED
        BY <3>2 DEF StartedAs
    <2>3. CallKnown(pkCall', pkBuf', pkRoll')
      <3>1. pkRoll' = g \/ pkRoll' \in {Junk, old} \ {NoPkg} \/ kind = "install"
        BY <1>7, <1>9, <2>1
      <3>2. QED
        BY <1>10, <2>2, <3>1 DEF CallKnown
    <2>4. PutsBack(pkCall', pkMem)
      BY <1>2, <1>4, <1>5, <1>6, <2>2 DEF PutsBack, stored
    <2>5. \A b \in BOOLEAN : HasDone(pkCall', pkMem, b)
      BY <1>9, <2>2 DEF HasDone
    <2>6. RecordRuns(pkCall', pkMem, pkCut)
      <3>1. CASE kind = "install"
        BY <1>8, <2>2, <3>1 DEF RecordRuns, Unrecorded
      <3>2. CASE kind = "rollback"
        <4>1. ~Unrecorded(pkCall) /\ ~Closing(pkCall)
          BY <3>2 DEF Unrecorded, Closing
        <4>2. QED
          BY <1>8, <2>2, <3>2, <4>1 DEF RecordRuns, Unrecorded
      <3>3. QED
        BY <3>1, <3>2
    <2>7. pkCall.stage \in {"idle", "loading"}
      OBVIOUS
    <2>8. QED
      BY <2>2, <2>3, <2>4, <2>5, <2>6, <2>7, CallBegins
  <1>14. QED
    BY <1>11, <1>12, <1>13

LEMMA PkgInstallKeeps ==
  ASSUME PkgInv, NEW g \in Packages1, PkgInstall(g)
  PROVE  PkgInv'
  BY LoadKeeps DEF PkgInstall, Begins

LEMMA LoadSnapshotKeeps == PkgInv /\ LoadSnapshot => PkgInv'
  <1> SUFFICES ASSUME PkgInv, LoadSnapshot PROVE PkgInv'
    OBVIOUS
  <1>1. pkCall.stage = "loading" /\ pkCall.kind = "rollback" /\ pkCall.pkg \in Packages1
    BY RollbackStages, CallFacts DEF LoadSnapshot
  <1>2. QED
    BY <1>1, LoadKeeps DEF LoadSnapshot

LEMMA PkgRemoveKeeps ==
  ASSUME PkgInv, NEW n \in PkgNames, PkgRemove(n)
  PROVE  PkgInv'
  <1> DEFINE g == pkMem.store[n]
  <1>1. /\ pkCall.stage = "idle" /\ IsManifest(g) /\ pkBuf' = g
        /\ UNCHANGED <<pkMem, pkDisk, pkRoll, pkCut>>
        /\ pkCall' = Started("remove", g, "main", g, pkMem.meta[n], "removing")
    BY DEF PkgRemove, Begins, NoPkgCall, Started
  <1>2. /\ g \in Packages1 /\ g[1] = n /\ pkMem.meta[n] \in Packages1 \cup {NoPkg, Junk}
        /\ "removing" \in CallStages /\ "removing" \in Removing
    BY <1>1, PackagesKnown DEF PkgInv, TreeSound, Held, HeldBy, IsManifest, CallStages, Removing
  <1> HIDE DEF g
  <1>3. /\ pkCall' \in PkgCalls /\ pkCall'.kind = "remove" /\ pkCall'.pkg = g /\ pkCall'.from = "main"
        /\ pkCall'.old = g /\ pkCall'.stage = "removing" /\ pkCall'.pos = 1 /\ pkCall'.left = {}
    <2>1. StartedAs(pkCall', "remove", g, "main", g, pkMem.meta[n], "removing")
      BY <1>1, <1>2, StartedKnown
    <2>2. QED
      BY <2>1 DEF StartedAs
  <1>4. CallKnown(pkCall', pkBuf', pkRoll')
    BY <1>1, <1>2, <1>3 DEF CallKnown
  <1>5. PutsBack(pkCall', pkMem)
    BY <1>3 DEF PutsBack
  <1>6. \A b \in BOOLEAN : HasDone(pkCall', pkMem, b)
    BY <1>2, <1>3 DEF HasDone, g
  <1>7. RecordRuns(pkCall', pkMem, pkCut)
    <2>1. RecordRuns(pkCall, pkMem, pkCut)
      BY DEF PkgInv
    <2>2. QED
      BY <1>1, <1>3, <2>1 DEF RecordRuns, Unrecorded
  <1>8. QED
    BY <1>1, <1>3, <1>4, <1>5, <1>6, <1>7, CallBegins

LEMMA PkgRollbackKeeps ==
  ASSUME PkgInv, NEW n \in PkgNames, PkgRollback(n)
  PROVE  PkgInv'
  <1> DEFINE g == pkMem.snap[n]
  <1>1. /\ pkCall.stage = "idle" /\ IsManifest(g) /\ pkRoll' = g
        /\ UNCHANGED <<pkMem, pkDisk, pkBuf, pkCut>>
        /\ pkCall' = Started("rollback", g, "roll", NoPkg, NoPkg, "rolling")
    BY DEF PkgRollback, Begins, NoPkgCall, Started
  <1>2. /\ g \in Packages1 /\ g[1] = n
        /\ "rolling" \in CallStages /\ "rolling" \in RollingBack /\ "rolling" \notin Installing
    BY <1>1, PackagesKnown
       DEF PkgInv, TreeSound, Held, HeldBy, IsManifest, CallStages, RollingBack, Installing
  <1> HIDE DEF g
  <1>3. /\ pkCall' \in PkgCalls /\ pkCall'.kind = "rollback" /\ pkCall'.pkg = g /\ pkCall'.from = "roll"
        /\ pkCall'.stage = "rolling" /\ pkCall'.pos = 1 /\ pkCall'.left = {}
    <2>1. NoPkg \in Packages1 \cup {NoPkg} /\ NoPkg \in Packages1 \cup {NoPkg, Junk}
      OBVIOUS
    <2>2. StartedAs(pkCall', "rollback", g, "roll", NoPkg, NoPkg, "rolling")
      BY <1>1, <1>2, <2>1, StartedKnown
    <2>3. QED
      BY <2>2 DEF StartedAs
  <1>4. CallKnown(pkCall', pkBuf', pkRoll')
    BY <1>1, <1>2, <1>3 DEF CallKnown
  <1>5. PutsBack(pkCall', pkMem)
    BY <1>2, <1>3 DEF PutsBack
  <1>6. \A b \in BOOLEAN : HasDone(pkCall', pkMem, b)
    BY <1>2, <1>3 DEF HasDone, g
  <1>7. RecordRuns(pkCall', pkMem, pkCut)
    <2>1. RecordRuns(pkCall, pkMem, pkCut)
      BY DEF PkgInv
    <2>2. QED
      BY <1>1, <1>3, <2>1 DEF RecordRuns, Unrecorded
  <1>8. QED
    BY <1>1, <1>3, <1>4, <1>5, <1>6, <1>7, CallBegins

LEMMA PkgReportKeeps == PkgInv /\ PkgReport => PkgInv'
  <1> SUFFICES ASSUME PkgInv, PkgReport PROVE PkgInv'
    OBVIOUS
  <1>1. pkCall.stage = "idle" /\ pkCall' = pkCall /\ UNCHANGED <<pkMem, pkDisk, pkCut>>
    BY DEF PkgReport
  <1>2. CallKnown(pkCall', pkBuf', pkRoll')
    BY <1>1 DEF PkgInv, CallKnown
  <1>3. HasDone(pkCall', pkMem', (Parsed = pkCall.pkg)')
    BY <1>1 DEF PkgInv, HasDone
  <1>4. Writes(pkCall', pkMem', Payload')
    BY <1>1 DEF PkgInv, Writes
  <1>5. QED
    BY <1>1, <1>2, <1>3, <1>4 DEF PkgInv
-----------------------------------------------------------------------------
(* The boot.                                                               *)

\* The replay writes files only, and leaves every stored package whole.
LEMMA ReplayedKnown ==
  ASSUME NEW w, w \in Works, Held(w), NEW f \in Replayed(w)
  PROVE  f \in PkgFiles /\ \A n \in PkgNames : WholeIn(f, w.store[n])
  <1> DEFINE stored == {w.store[n] : n \in {k \in PkgNames : IsManifest(w.store[k])}}
             owners(p) == {g \in stored : p \in FilesOf(g)}
             after(last) ==
               [p \in PkgPaths |->
                  CASE owners(p) = {} -> w.file[p]
                    [] last \in owners(p) -> last
                    [] OTHER -> CHOOSE g \in owners(p) : TRUE]
  <1>1. w.file \in PkgFiles
    BY FieldsKnown
  <1>2. f \in (IF stored = {} THEN {w.file} ELSE {after(last) : last \in stored})
    BY DEF Replayed
  <1>3. stored \subseteq Packages1
    BY DEF IsManifest
  <1>4. \A n \in PkgNames : IsManifest(w.store[n]) => w.store[n] \in stored
    OBVIOUS
  <1>5. \A g \in stored : \E n \in PkgNames : g = w.store[n] /\ g[1] = n
    BY PackagesKnown DEF IsManifest, Held, HeldBy
  <1> HIDE DEF stored
  <1>6. CASE stored = {}
    BY <1>1, <1>2, <1>4, <1>6 DEF WholeIn
  <1>7. CASE stored # {}
    <2>1. PICK last \in stored : f = after(last)
      BY <1>2, <1>7
    <2>2. ASSUME NEW p \in PkgPaths
          PROVE  /\ owners(p) = {} => f[p] = w.file[p]
                 /\ owners(p) # {} => f[p] \in owners(p)
      <3>1. f[p] = CASE owners(p) = {} -> w.file[p]
                     [] last \in owners(p) -> last
                     [] OTHER -> CHOOSE g \in owners(p) : TRUE
        BY <2>1
      <3> DEFINE o == owners(p)
      <3>2. o # {} => (CHOOSE g \in o : TRUE) \in o
        <4> HIDE DEF o
        <4>1. QED
          OBVIOUS
      <3> HIDE DEF o
      <3>3. QED
        BY <3>1, <3>2 DEF o
    <2>3. DOMAIN f = PkgPaths /\ f = [p \in PkgPaths |-> f[p]]
      BY <2>1
    <2> HIDE DEF after
    <2>4. \A p \in PkgPaths : f[p] \in Packages1 \cup {NoPkg, Junk, ByScript}
      BY <1>1, <1>3, <2>2 DEF PkgFiles
    <2>5. f \in PkgFiles
      BY <2>3, <2>4 DEF PkgFiles
    <2>6. ASSUME NEW n \in PkgNames, IsManifest(w.store[n]), NEW p \in OwnFiles(w.store[n])
          PROVE  f[p] = w.store[n]
      <3>1. /\ w.store[n] \in stored /\ w.store[n] \in Packages1
        BY <1>4, <2>6 DEF IsManifest
      <3>2. p \in PkgPaths /\ p \in FilesOf(w.store[n])
        BY <3>1, OwnKnown
      <3>3. \A h \in stored : p \in FilesOf(h) => h[1] = w.store[n][1]
        BY <1>3, <3>1, OwnKnown
      <3>4. \A h \in owners(p) : h = w.store[n]
        BY <1>5, <3>1, <3>3
      <3>5. w.store[n] \in owners(p)
        BY <3>1, <3>2
      <3>6. QED
        BY <2>2, <3>2, <3>4, <3>5
    <2>7. QED
      BY <2>5, <2>6 DEF WholeIn
  <1>8. QED
    BY <1>6, <1>7

LEMMA PkgPowerCutKeeps == PkgInv /\ PkgPowerCut => PkgInv'
  <1> SUFFICES ASSUME PkgInv, PkgPowerCut PROVE PkgInv'
    OBVIOUS
  <1> DEFINE tx == pkDisk.tx
             h == pkDisk.hurt \cup {n \in PkgNames : pkDisk.store[n] = Junk}
             t == IF tx.state = "running" THEN pkDisk.torn \cup {tx.pkg[1]} ELSE pkDisk.torn
  <1>1. TreeSound(pkDisk) /\ pkDisk \in Works /\ Held(pkDisk)
    BY DEF PkgInv, TreeSound
  <1>2. PICK f \in Replayed(pkDisk) :
          pkMem' = [pkDisk EXCEPT !.file = f,
                      !.hurt = @ \cup {n \in PkgNames : pkDisk.store[n] = Junk},
                      !.torn = IF tx.state = "running" THEN @ \cup {tx.pkg[1]} ELSE @]
    BY DEF PkgPowerCut
  <1>3. pkDisk' = pkMem' /\ pkCall' = NoPkgCall /\ pkCut' = TRUE
    BY DEF PkgPowerCut
  <1>4. f \in PkgFiles /\ \A n \in PkgNames : WholeIn(f, pkDisk.store[n])
    BY <1>1, ReplayedKnown
  <1>5. /\ pkDisk.store \in Databases /\ pkDisk.meta \in Databases /\ pkDisk.snap \in Databases
        /\ pkDisk.tx \in PkgRecords /\ pkDisk.known \in SUBSET PkgNames
        /\ pkDisk.hurt \in SUBSET PkgNames /\ pkDisk.torn \in SUBSET PkgNames
    BY <1>1, FieldsKnown
  <1>6. h \in SUBSET PkgNames /\ t \in SUBSET PkgNames
    <2>1. tx.state = "running" => tx.pkg[1] \in PkgNames
      BY <1>1, PackagesKnown DEF TreeSound, RecordHolds
    <2>2. QED
      BY <1>5, <2>1
  <1>7. pkMem' = MadeTree(f, pkDisk.store, pkDisk.meta, pkDisk.snap, tx, pkDisk.known, h, t)
    BY <1>1, <1>2 DEF MadeTree, Works
  <1> HIDE DEF h, t
  <1>8. /\ pkMem' \in Works /\ pkMem'.file = f /\ pkMem'.store = pkDisk.store
        /\ pkMem'.meta = pkDisk.meta /\ pkMem'.snap = pkDisk.snap /\ pkMem'.tx = pkDisk.tx
        /\ pkMem'.known = pkDisk.known /\ pkMem'.hurt = h /\ pkMem'.torn = t
    <2> HIDE DEF tx
    <2>1. /\ pkMem'.file = f /\ pkMem'.store = pkDisk.store
          /\ pkMem'.meta = pkDisk.meta /\ pkMem'.snap = pkDisk.snap /\ pkMem'.tx = tx
          /\ pkMem'.known = pkDisk.known /\ pkMem'.hurt = h /\ pkMem'.torn = t
      BY <1>7 DEF MadeTree
    <2>2. tx \in PkgRecords
      BY <1>5 DEF tx
    <2>3. pkMem' \in Works
      BY <1>4, <1>5, <1>6, <1>7, <2>2 DEF MadeTree, Works
    <2>4. QED
      BY <2>1, <2>3 DEF tx
  <1>9. pkDisk.hurt \subseteq h /\ pkDisk.torn \subseteq t
    BY DEF h, t
  <1>10. ASSUME NEW m \in PkgNames
         PROVE  /\ Agree(pkMem', m)
                /\ m \in pkMem'.hurt \/ pkMem'.store[m] # Junk
                /\ WholeIn(pkMem'.file, pkMem'.store[m])
    <2>1. (tx.state = "running" /\ tx.pkg[1] = m) \/ Agree(pkDisk, m)
      BY <1>1 DEF TreeSound, RunningAlone
    <2>2. Agree(pkMem', m)
      BY <1>8, <1>9, <2>1 DEF Agree, t
    <2>3. QED
      BY <1>4, <1>8, <2>2 DEF h
  <1>11. MemSound(pkMem', pkCall')
    BY <1>10 DEF MemSound, OthersAgree, OthersParse, OthersWhole
  <1>12. TreeSound(pkMem')
    <2>1. Held(pkMem') /\ RecordHolds(pkMem')
      BY <1>1, <1>8 DEF TreeSound, Held, RecordHolds
    <2>2. Keeps(pkMem')
      BY <1>1, <1>8, <1>9 DEF TreeSound, Keeps
    <2>3. RunningAlone(pkMem')
      BY <1>10 DEF RunningAlone
    <2>4. QED
      BY <1>8, <2>1, <2>2, <2>3 DEF TreeSound
  <1>13. QED
    BY <1>3, <1>11, <1>12, CallEnds
-----------------------------------------------------------------------------
(* The theorems.                                                           *)

LEMMA PkgInitInv == PkgInit => PkgInv
  <1> SUFFICES ASSUME PkgInit PROVE PkgInv
    OBVIOUS
  <1>1. pkMem = NoWork /\ pkDisk = NoWork /\ pkCall = NoPkgCall
    BY DEF PkgInit
  <1> DEFINE f == [p \in PkgPaths |-> NoPkg]
             d == [n \in PkgNames |-> NoPkg]
             tx == [state |-> "none", action |-> "none", pkg |-> NoPkg]
  <1>2. f \in PkgFiles /\ d \in Databases /\ tx \in PkgRecords /\ tx.state = "none"
        /\ \A n \in PkgNames : d[n] = NoPkg
    BY DEF PkgFiles, Databases, PkgRecords
  <1>3. NoWork = MadeTree(f, d, d, d, tx, {}, {}, {})
    BY DEF NoWork, MadeTree
  <1> HIDE DEF f, d, tx
  <1>4. /\ NoWork \in Works /\ NoWork.store = d /\ NoWork.meta = d /\ NoWork.snap = d
        /\ NoWork.tx = tx /\ NoWork.known = {}
    BY <1>2, <1>3 DEF MadeTree, Works
  <1>5. NoPkg # Junk /\ ~IsManifest(NoPkg)
    BY PackagesKnown DEF IsManifest
  <1>6. TreeSound(NoWork)
    BY <1>2, <1>4 DEF TreeSound, Held, HeldBy, RecordHolds, Keeps, RunningAlone, Agree
  <1>7. \A c : MemSound(NoWork, c)
    BY <1>2, <1>4, <1>5 DEF MemSound, OthersAgree, OthersParse, OthersWhole, Agree, WholeIn
  <1>8. /\ pkCall.stage = "idle" /\ pkCall.kind = "idle" /\ pkCall \in PkgCalls
        /\ "idle" \notin Installing /\ Unrecorded(pkCall)
    BY <1>1, NoPkgCallKnown DEF Installing, Unrecorded
  <1>9. /\ CallKnown(pkCall, pkBuf, pkRoll) /\ PutsBack(pkCall, pkMem)
        /\ HasDone(pkCall, pkMem, Parsed = pkCall.pkg) /\ Writes(pkCall, pkMem, Payload)
    BY <1>8 DEF CallKnown, PutsBack, HasDone, Writes
  <1>10. RecordRuns(pkCall, pkMem, pkCut)
    BY <1>1, <1>2, <1>4, <1>8 DEF RecordRuns
  <1>11. QED
    BY <1>1, <1>6, <1>7, <1>9, <1>10 DEF PkgInv

LEMMA PkgStepKeeps == PkgInv /\ [ServicesNext]_serviceVars => PkgInv'
  <1> SUFFICES ASSUME PkgInv, [ServicesNext]_serviceVars PROVE PkgInv'
    OBVIOUS
  <1>1. CASE PkgNext
    <2>1. CASE \E g \in Packages1 : PkgInstall(g)
      BY <2>1, PkgInstallKeeps
    <2>2. CASE \E n \in PkgNames : PkgRemove(n) \/ PkgRollback(n)
      BY <2>2, PkgRemoveKeeps, PkgRollbackKeeps
    <2>3. QED
      BY <1>1, <2>1, <2>2, WriteRecordKeeps, ReplayItemKeeps, ReplayDoneKeeps, ReplayFailsKeeps,
         StoreManifestKeeps, StoreMetaKeeps, DeleteFileKeeps, FilesDeletedKeeps, UndoDb1Keeps,
         UndoDb2Keeps, WriteFileBackKeeps, FilesWrittenKeeps, TakeSnapKeeps, RemoveScriptKeeps,
         ScriptEndsKeeps, DeleteMetaKeeps, DeleteManifestKeeps, ManifestBackKeeps, DropSnapKeeps,
         LoadSnapshotKeeps, PkgReportKeeps, PkgPowerCutKeeps DEF PkgNext
  <1>2. CASE UNCHANGED pkgVars
    BY <1>2 DEF pkgVars, PkgInv, Parsed, Payload
  <1>3. QED
    BY <1>1, <1>2 DEF ServicesNext, serviceVars

\* Between calls an installed package that no refused write spoilt has the files
\* of the stored version, and the entries of the database agree, wherever calls
\* failed or the power did: for any packages, payloads and scripts.
THEOREM InstalledStaysWhole == ServicesSpec => []PackagesKept
  <1>1. ServicesInit => PkgInv
    BY PkgInitInv DEF ServicesInit
  <1>2. PkgInv => PackagesKept
    <2> SUFFICES ASSUME PkgInv, pkCall.stage = "idle" PROVE PackagesKept
      BY DEF PackagesKept, InstalledIsWhole, DatabaseAgrees, PkgIdle
    <2>1. TreeSound(pkMem) /\ MemSound(pkMem, pkCall) /\ \A m : ~Busy(pkCall, m)
      BY DEF PkgInv, Busy
    <2>2. ASSUME NEW n \in PkgNames
          PROVE  /\ Agree(pkMem, n) /\ (n \in pkMem.hurt \/ pkMem.store[n] # Junk)
                 /\ n \in pkMem.hurt \/ WholeIn(pkMem.file, pkMem.store[n])
                 /\ pkMem.store[n] \in HeldBy(n)
      BY <2>1 DEF MemSound, OthersAgree, OthersParse, OthersWhole, TreeSound, Held
    <2>3. InstalledIsWhole
      BY <2>2 DEF InstalledIsWhole, WholeIn
    <2>4. ASSUME NEW n \in PkgNames \ (pkMem.hurt \cup pkMem.torn)
          PROVE  /\ ~AuditFails(pkMem, n) /\ pkMem.meta[n] = pkMem.store[n]
                 /\ pkMem.store[n][1] \in {n, "none"}
      <3>1. /\ pkMem.store[n] # Junk /\ pkMem.meta[n] = pkMem.store[n]
            /\ pkMem.store[n] = NoPkg \/ (pkMem.store[n] \in Packages1 /\ pkMem.store[n][1] = n)
        BY <2>2 DEF Agree, HeldBy
      <3>2. NoPkg[1] = "none"
        BY DEF NoPkg
      <3>3. QED
        BY <3>1, <3>2, PackagesKnown DEF AuditFails, IsManifest
    <2>5. DatabaseAgrees
      BY <2>4 DEF DatabaseAgrees
    <2>6. QED
      BY <2>3, <2>5 DEF PackagesKept
  <1>3. QED
    BY <1>1, <1>2, PkgStepKeeps, PTL DEF ServicesSpec

\* The record between calls says what happened, a recorded removal can be undone,
\* and a package that was once installed has a manifest somewhere at every step,
\* in memory and on the disk: for any packages, payloads and scripts.
THEOREM RemovedCanComeBack == ServicesSpec => []PackagesRecoverable
  <1>1. ServicesInit => PkgInv
    BY PkgInitInv DEF ServicesInit
  <1>2. PkgInv => PackagesRecoverable
    <2> SUFFICES ASSUME PkgInv PROVE PackagesRecoverable
      OBVIOUS
    <2>1. TreeSound(pkMem) /\ TreeSound(pkDisk) /\ RecordRuns(pkCall, pkMem, pkCut)
      BY DEF PkgInv
    <2>2. RecordIsSettled
      <3>1. pkMem.tx.state \in {"none", "running", "failed", "complete"}
        BY <2>1, FieldsKnown DEF TreeSound, PkgRecords
      <3>2. QED
        BY <2>1, <3>1 DEF RecordIsSettled, PkgIdle, RecordRuns, Unrecorded, TreeSound, RecordHolds,
                          DoctorWarns
    <2>3. RemovedIsRecoverable
      BY <2>1 DEF RemovedIsRecoverable, TreeSound, RecordHolds
    <2>4. KeptSomewhere
      BY <2>1 DEF KeptSomewhere, TreeSound, Keeps
    <2>5. QED
      BY <2>2, <2>3, <2>4 DEF PackagesRecoverable
  <1>3. QED
    BY <1>1, <1>2, PkgStepKeeps, PTL DEF ServicesSpec
=============================================================================
