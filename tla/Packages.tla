------------------------------ MODULE Packages ------------------------------
(***************************************************************************)
(* The package manager (system/packages.c): install, upgrade, remove and   *)
(* rollback of text packages, one write or deletion of a file at a time,   *)
(* with the two static buffers a manifest is parsed in (a parsed manifest  *)
(* points INTO its buffer).  Closing a file that was written, and deleting *)
(* one, saves the whole tree (vfs_close, vfs_delete), so a power failure   *)
(* after any of them finds that step on the disk; module Persist shows why *)
(* a save is one step.  A write may be refused, which leaves an empty file *)
(* or none, and so may a save, which leaves the disk behind.  A boot loads *)
(* the disk and replays the stored packages.                               *)
(*                                                                         *)
(* A package is <<name, version>>.  Its payload is a sequence of items:    *)
(* a file, or a line of the post-install script.                           *)
(***************************************************************************)
EXTENDS Integers, Sequences, FiniteSets

CONSTANTS
  PkgNames,
  PkgPaths,
  Packages1,    \* the packages there are
  PayloadOf,    \* [Packages1 -> Seq([k, p])]
  PreRemoveOf,  \* their pre-remove scripts
  PostRemoveOf, \* their post-remove scripts
  NeedsOf,      \* the packages each depends on
  MaxPkgCalls,
  MaxPkgFaults,
  MaxPkgCuts

ASSUME PackagesAssumption ==
  /\ Packages1 \subseteq PkgNames \X (Nat \ {0})
  /\ DOMAIN PayloadOf = Packages1
  /\ \A g \in Packages1 :
       /\ PayloadOf[g] \in Seq([k : {"file", "write"}, p : PkgPaths] \cup [k : {"sync", "bad"}, p : {""}])
       /\ \A s \in {PreRemoveOf[g], PostRemoveOf[g]} :
            s \in Seq([k : {"write"}, p : PkgPaths] \cup [k : {"sync", "bad"}, p : {""}])
       /\ NeedsOf[g] \subseteq Packages1

VARIABLES
  pkMem,     \* the tree
  pkDisk,    \* the tree that the last save left on the disk
  pkBuf,     \* pkg_buf
  pkRoll,    \* pkg_rollback_buf
  pkCall,    \* the call in progress
  pkCut,     \* the power failed and no record was written since
  pkBudget

pkgVars == <<pkMem, pkDisk, pkBuf, pkRoll, pkCall, pkCut, pkBudget>>

NoPkg == <<"none", 0>>    \* no file
Junk == <<"junk", 0>>     \* a file or buffer that is no manifest
ByScript == <<"script", 0>>
IsManifest(g) == g \in Packages1

\* The tree: the files of packages, the database (store, installed, removed)
\* and the transaction record.  The last three fields are history: the names
\* that were ever completely installed, those whose undoing met a refused write
\* or a power failure too or whose rollback read the stored manifest over its
\* own, and those whose transaction a power failure cut off.
NoWork ==
  [file |-> [p \in PkgPaths |-> NoPkg], store |-> [n \in PkgNames |-> NoPkg],
   meta |-> [n \in PkgNames |-> NoPkg], snap |-> [n \in PkgNames |-> NoPkg],
   tx |-> [state |-> "none", action |-> "none", pkg |-> NoPkg],
   known |-> {}, hurt |-> {}, torn |-> {}]

\* A call: what it would put back, whether the database has to be undone too,
\* and the files still to be deleted or written.
NoPkgCall == [kind |-> "idle", pkg |-> NoPkg, from |-> "main", old |-> NoPkg, oldMeta |-> NoPkg,
              stage |-> "idle", pos |-> 1, db |-> FALSE, left |-> {}]

PkgInit ==
  /\ pkMem = NoWork /\ pkDisk = NoWork /\ pkBuf = Junk /\ pkRoll = Junk
  /\ pkCall = NoPkgCall /\ pkCut = FALSE
  /\ pkBudget = [calls |-> 0, faults |-> 0, cuts |-> 0]

FilesOf(g) == {PayloadOf[g][i].p : i \in {j \in DOMAIN PayloadOf[g] : PayloadOf[g][j].k = "file"}}

PkgFault ==
  /\ pkBudget.faults < MaxPkgFaults
  /\ pkBudget' = [pkBudget EXCEPT !.faults = @ + 1]
NoPkgFault == pkBudget' = pkBudget
Begins ==
  /\ pkCall.stage = "idle" /\ pkBudget.calls < MaxPkgCalls
  /\ pkBudget' = [pkBudget EXCEPT !.calls = @ + 1]

\* A write or a deletion that is done, saved or not, and a write that is
\* refused.
Wrote(mem) ==
  /\ pkMem' = mem
  /\ \/ pkDisk' = mem /\ NoPkgFault
     \/ pkDisk' = pkDisk /\ PkgFault
Refused(mem) == pkMem' = mem /\ pkDisk' = mem /\ PkgFault

\* What a refused write leaves: the file emptied, or none if there was none.
Spoilt(g) == {Junk} \cup ({g} \cap {NoPkg})

GoTo(stage) == pkCall' = IF stage = "idle" THEN NoPkgCall ELSE [pkCall EXCEPT !.stage = stage]
Name == pkCall.pkg[1]
Hurt(mem) == [mem EXCEPT !.hurt = @ \cup {Name}]

\* What is in the buffer the call parsed its manifest in, and the payload its
\* pointer now finds there: an empty file that is read over the buffer ends
\* the text at its front and leaves the payload.
Parsed == IF pkCall.from = "main" THEN pkBuf ELSE pkRoll
Payload == IF Parsed = Junk THEN pkCall.pkg ELSE Parsed
-----------------------------------------------------------------------------
(* The transaction record.                                                 *)

WithRecord(mem, state, action, g) ==
  [mem EXCEPT !.tx = [state |-> state, action |-> action, pkg |-> g]]

\* A completed call settles its name, unless it was a rollback that installed
\* something else than it parsed.
Settled(mem, n) == [mem EXCEPT !.hurt = @ \ {n}, !.torn = @ \ {n}]

\* pkg_write_transaction_state, whose result nobody looks at.  It rewrites a
\* file that fits the block it has; only the first record ever needs a new one
\* and may be refused.
Recorded(stage, state, action, next) ==
  LET mem == WithRecord(pkMem, state, action, pkCall.pkg)
      ended == IF state = "complete" /\ Parsed = pkCall.pkg THEN Settled(mem, Name) ELSE mem
  IN  /\ pkCall.stage = stage
      /\ \/ /\ Wrote(IF state = "complete" /\ action = "install"
                    THEN [ended EXCEPT !.known = @ \cup {Name}] ELSE ended)
         \/ /\ pkMem.tx.state = "none"
            /\ Refused([pkMem EXCEPT !.torn = @ \cup {Name}])
      /\ pkBuf' = IF state = "complete" THEN Junk ELSE pkBuf  \* the lists read every metadata file
      /\ GoTo(next)
      /\ pkCut' = FALSE
      /\ UNCHANGED pkRoll

AfterInstall(failed) ==
  IF pkCall.kind = "rollback" THEN (IF failed THEN "unrolled" ELSE "dropsnap") ELSE "idle"

WriteRecord ==
  \/ Recorded("rolling", "running", "rollback", "loading")
  \/ Recorded("begin", "running", "install", "replay")
  \/ Recorded("undone", "failed", "install", AfterInstall(TRUE))
  \/ Recorded("unrolled", "failed", "rollback", "idle")
  \/ Recorded("stored", "complete", "install", AfterInstall(FALSE))
  \/ Recorded("restored", "complete", "rollback", "idle")
  \/ Recorded("removing", "running", "remove", "snap")
  \/ Recorded("kept", "failed", "remove", "idle")
  \/ Recorded("removed", "complete", "remove", "idle")
-----------------------------------------------------------------------------
(* Install and upgrade.                                                    *)

\* package_dependency_satisfied.
DependenciesMet(mem, g) == \A d \in NeedsOf[g] : mem.meta[d[1]] = d

\* pkg_install_loaded up to its first record: refused for a missing
\* dependency; a stored manifest is read into pkg_rollback_buf for the way
\* back, also when that is where the package came from.
Load(kind, g, from) ==
  LET stored == pkMem.store[g[1]]
      old == IF IsManifest(stored) THEN stored ELSE NoPkg
      loaded == [NoPkgCall EXCEPT !.kind = kind, !.pkg = g, !.from = from]
  IN  \/ /\ ~DependenciesMet(pkMem, g)
         /\ pkCall' = IF kind = "rollback" THEN [loaded EXCEPT !.stage = "unrolled"] ELSE NoPkgCall
         /\ UNCHANGED pkRoll
      \/ /\ DependenciesMet(pkMem, g)
         /\ pkRoll' = IF stored = NoPkg THEN pkRoll ELSE stored
         /\ pkCall' = [loaded EXCEPT !.stage = "begin", !.old = old,
                         !.oldMeta = IF old = NoPkg THEN NoPkg ELSE pkMem.meta[g[1]]]

\* orizon_pkg_install_file, orizon_pkg_install_buffer.
PkgInstall(g) ==
  /\ Begins
  /\ pkBuf' = g
  /\ Load("install", g, "main")
  /\ UNCHANGED <<pkMem, pkDisk, pkCut>>

\* One item of the payload, by replay_payload and run_post_install_line.
ReplayItem ==
  LET item == PayloadOf[Payload][pkCall.pos]
  IN  /\ pkCall.stage = "replay" /\ pkCall.pos \in DOMAIN PayloadOf[Payload]
      /\ CASE item.k = "file" -> Wrote([pkMem EXCEPT !.file[item.p] = Payload])
           [] item.k = "write" -> Wrote([pkMem EXCEPT !.file[item.p] = ByScript])
           [] item.k = "sync" -> pkMem' = pkMem /\ pkDisk' = pkMem /\ NoPkgFault
           [] OTHER -> FALSE
      /\ pkCall' = [pkCall EXCEPT !.pos = @ + 1]
      /\ UNCHANGED <<pkBuf, pkRoll, pkCut>>

\* All items were good, and one was a file.
ReplayDone ==
  /\ pkCall.stage = "replay" /\ pkCall.pos > Len(PayloadOf[Payload])
  /\ FilesOf(Payload) # {}
  /\ GoTo("store")
  /\ NoPkgFault
  /\ UNCHANGED <<pkMem, pkDisk, pkBuf, pkRoll, pkCut>>

\* The way back starts with the files that the payload lists.
Undo(db) == pkCall' = [pkCall EXCEPT !.stage = "unfile", !.db = db, !.left = FilesOf(Payload)]

\* A line that is no command, no file at all, or a write or a save that is
\* refused.  A payload that another manifest was read over may end anywhere.
ReplayFails ==
  LET items == PayloadOf[Payload]
      item == items[pkCall.pos]
      more == pkCall.pos \in DOMAIN items
  IN  /\ pkCall.stage = "replay"
      /\ \/ /\ \/ more /\ item.k = "bad"
               \/ ~more /\ FilesOf(Payload) = {}
               \/ Payload # pkCall.pkg
            /\ NoPkgFault /\ UNCHANGED <<pkMem, pkDisk>>
         \/ more /\ item.k = "sync" /\ PkgFault /\ UNCHANGED <<pkMem, pkDisk>>
         \/ /\ more /\ item.k \in {"file", "write"}
            /\ \E s \in Spoilt(pkMem.file[item.p]) : Refused([pkMem EXCEPT !.file[item.p] = s])
      /\ Undo(FALSE)
      /\ UNCHANGED <<pkBuf, pkRoll, pkCut>>

\* store_installed_package, the manifest: as many bytes of the buffer as the
\* package that was parsed has, which is no manifest if something else was
\* read over them, unless that is as long.
StoreManifest ==
  /\ pkCall.stage = "store"
  /\ \/ /\ IF Parsed = pkCall.pkg THEN Wrote([pkMem EXCEPT !.store[Name] = pkCall.pkg])
           ELSE \E s \in {Parsed, Junk} : Wrote(Hurt([pkMem EXCEPT !.store[Name] = s]))
        /\ GoTo("meta")
     \/ /\ \E s \in Spoilt(pkMem.store[Name]) : Refused([pkMem EXCEPT !.store[Name] = s])
        /\ Undo(TRUE)
  /\ UNCHANGED <<pkBuf, pkRoll, pkCut>>

\* The metadata.
StoreMeta ==
  /\ pkCall.stage = "meta"
  /\ \/ /\ Wrote([pkMem EXCEPT !.meta[Name] = pkCall.pkg])
        /\ GoTo("stored")
     \/ /\ \E s \in Spoilt(pkMem.meta[Name]) : Refused([pkMem EXCEPT !.meta[Name] = s])
        /\ Undo(TRUE)
  /\ UNCHANGED <<pkBuf, pkRoll, pkCut>>

\* remove_payload_files: the ones that are there are deleted.
DeleteFile ==
  \E p \in pkCall.left :
    /\ pkCall.stage \in {"unfile", "rmfiles"}
    /\ Wrote([pkMem EXCEPT !.file[p] = NoPkg])
    /\ pkCall' = [pkCall EXCEPT !.left = @ \ {p}]
    /\ UNCHANGED <<pkBuf, pkRoll, pkCut>>

\* What comes after the last file.
FilesDeleted ==
  /\ pkCall.stage \in {"unfile", "rmfiles"} /\ pkCall.left = {}
  /\ pkCall' = IF pkCall.stage = "rmfiles" THEN [pkCall EXCEPT !.stage = "rmmeta"]
               ELSE IF pkCall.db THEN [pkCall EXCEPT !.stage = "undb1"]
               ELSE IF pkCall.old = NoPkg THEN [pkCall EXCEPT !.stage = "undone"]
               ELSE [pkCall EXCEPT !.stage = "refile", !.left = FilesOf(pkCall.old)]
  /\ NoPkgFault
  /\ UNCHANGED <<pkMem, pkDisk, pkBuf, pkRoll, pkCut>>

\* A write of the way back, whose result nobody looks at: mem, or refused
\* and then one of the trees.
PutBack(mem, trees) ==
  \/ Wrote(mem)
  \/ \E t \in trees : Refused(Hurt(t))

\* The database goes back: the manifest and the metadata of the previous
\* version are written, or both entries are deleted.
UndoDb1 ==
  /\ pkCall.stage = "undb1"
  /\ IF pkCall.old = NoPkg THEN Wrote([pkMem EXCEPT !.meta[Name] = NoPkg])
     ELSE PutBack([pkMem EXCEPT !.store[Name] = pkCall.old],
                  {[pkMem EXCEPT !.store[Name] = s] : s \in Spoilt(pkMem.store[Name])})
  /\ GoTo("undb2")
  /\ UNCHANGED <<pkBuf, pkRoll, pkCut>>

UndoDb2 ==
  /\ pkCall.stage = "undb2"
  /\ IF pkCall.old = NoPkg THEN Wrote([pkMem EXCEPT !.store[Name] = NoPkg])
     ELSE IF ~IsManifest(pkCall.oldMeta) THEN UNCHANGED <<pkMem, pkDisk>> /\ NoPkgFault
     ELSE PutBack([pkMem EXCEPT !.meta[Name] = pkCall.oldMeta],
                  {[pkMem EXCEPT !.meta[Name] = s] : s \in Spoilt(pkMem.meta[Name])})
  /\ pkCall' = IF pkCall.old = NoPkg THEN [pkCall EXCEPT !.stage = "undone"]
               ELSE [pkCall EXCEPT !.stage = "refile", !.left = FilesOf(pkCall.old)]
  /\ UNCHANGED <<pkBuf, pkRoll, pkCut>>

\* replay_payload without the scripts, of the package that is put back: the
\* first write that is refused ends it.
WriteFileBack ==
  \E p \in pkCall.left :
    /\ pkCall.stage = "refile"
    /\ \/ /\ Wrote([pkMem EXCEPT !.file[p] = pkCall.old])
          /\ pkCall' = [pkCall EXCEPT !.left = @ \ {p}]
       \/ /\ \E s \in Spoilt(pkMem.file[p]) : Refused(Hurt([pkMem EXCEPT !.file[p] = s]))
          /\ pkCall' = [pkCall EXCEPT !.left = {}]
    /\ UNCHANGED <<pkBuf, pkRoll, pkCut>>

FilesWritten ==
  /\ pkCall.stage = "refile" /\ pkCall.left = {}
  /\ GoTo(IF pkCall.kind = "remove" THEN "backstore" ELSE "undone")
  /\ NoPkgFault
  /\ UNCHANGED <<pkMem, pkDisk, pkBuf, pkRoll, pkCut>>
-----------------------------------------------------------------------------
(* Remove and rollback.                                                    *)

\* orizon_pkg_remove up to its first record.
PkgRemove(n) ==
  LET g == pkMem.store[n]
  IN  /\ Begins
      /\ IsManifest(g)
      /\ pkBuf' = g
      /\ pkCall' = [NoPkgCall EXCEPT !.kind = "remove", !.pkg = g, !.old = g,
                      !.oldMeta = pkMem.meta[n], !.stage = "removing"]
      /\ UNCHANGED <<pkMem, pkDisk, pkRoll, pkCut>>

\* Mutant: the result of writing the snapshot is not looked at.
TakeSnapUnchecked ==
  /\ pkCall.stage = "snap"
  /\ \/ Wrote([pkMem EXCEPT !.snap[Name] = Parsed])
     \/ Refused([pkMem EXCEPT !.snap[Name] = Junk])
  /\ GoTo("preremove")
  /\ UNCHANGED <<pkBuf, pkRoll, pkCut>>

\* The snapshot, of the manifest and of the metadata.
TakeSnap ==
  /\ pkCall.stage = "snap"
  /\ \/ Wrote([pkMem EXCEPT !.snap[Name] = Parsed]) /\ GoTo("preremove")
     \/ /\ \E s \in Spoilt(pkMem.snap[Name]) \cup {Parsed} : Refused([pkMem EXCEPT !.snap[Name] = s])
        /\ GoTo("kept")
  /\ UNCHANGED <<pkBuf, pkRoll, pkCut>>

ScriptOf(stage) == IF stage = "preremove" THEN PreRemoveOf[Parsed] ELSE PostRemoveOf[Parsed]

\* A line of a remove script, by run_payload_script.
RemoveScript ==
  LET line == ScriptOf(pkCall.stage)[pkCall.pos]
  IN  /\ pkCall.stage \in {"preremove", "postremove"}
      /\ pkCall.pos \in DOMAIN ScriptOf(pkCall.stage)
      /\ CASE line.k = "write" -> Wrote([pkMem EXCEPT !.file[line.p] = ByScript])
           [] line.k = "sync" -> pkMem' = pkMem /\ pkDisk' = pkMem /\ NoPkgFault
           [] OTHER -> FALSE
      /\ pkCall' = [pkCall EXCEPT !.pos = @ + 1]
      /\ UNCHANGED <<pkBuf, pkRoll, pkCut>>

\* The end of one, or a line that fails: that keeps the package if nothing of
\* it was removed, and only warns after that.
ScriptEnds ==
  LET script == ScriptOf(pkCall.stage)
      line == script[pkCall.pos]
      over == pkCall.pos > Len(script)
  IN  /\ pkCall.stage \in {"preremove", "postremove"}
      /\ \/ (over \/ (~over /\ line.k = "bad")) /\ NoPkgFault /\ UNCHANGED <<pkMem, pkDisk>>
         \/ ~over /\ line.k = "sync" /\ PkgFault /\ UNCHANGED <<pkMem, pkDisk>>
         \/ /\ ~over /\ line.k = "write"
            /\ \E s \in Spoilt(pkMem.file[line.p]) : Refused([pkMem EXCEPT !.file[line.p] = s])
      /\ pkCall' = IF pkCall.stage = "postremove" THEN [pkCall EXCEPT !.stage = "removed"]
                   ELSE IF over THEN [pkCall EXCEPT !.stage = "rmfiles", !.left = FilesOf(Payload)]
                   ELSE [pkCall EXCEPT !.stage = "dropsnap"]
      /\ UNCHANGED <<pkBuf, pkRoll, pkCut>>

\* The metadata is deleted; if there is none the package is put back.
DeleteMeta ==
  /\ pkCall.stage = "rmmeta"
  /\ IF pkMem.meta[Name] = NoPkg
     THEN /\ pkCall' = [pkCall EXCEPT !.stage = "refile", !.left = FilesOf(pkCall.old)]
          /\ NoPkgFault /\ UNCHANGED <<pkMem, pkDisk>>
     ELSE Wrote([pkMem EXCEPT !.meta[Name] = NoPkg]) /\ GoTo("rmstore")
  /\ UNCHANGED <<pkBuf, pkRoll, pkCut>>

DeleteManifest ==
  /\ pkCall.stage = "rmstore"
  /\ Wrote([pkMem EXCEPT !.store[Name] = NoPkg])
  /\ pkCall' = [pkCall EXCEPT !.stage = "postremove", !.pos = 1]
  /\ UNCHANGED <<pkBuf, pkRoll, pkCut>>

\* The manifest of a package that is put back.
ManifestBack ==
  /\ pkCall.stage = "backstore"
  /\ PutBack([pkMem EXCEPT !.store[Name] = Parsed],
             {[pkMem EXCEPT !.store[Name] = s] : s \in Spoilt(pkMem.store[Name])})
  /\ GoTo("dropsnap")
  /\ UNCHANGED <<pkBuf, pkRoll, pkCut>>

\* The snapshot is deleted: the package was restored from it, or was not
\* removed after all.
DropSnap ==
  /\ pkCall.stage = "dropsnap"
  /\ Wrote([pkMem EXCEPT !.snap[Name] = NoPkg])
  /\ GoTo(IF pkCall.kind = "remove" THEN "kept" ELSE "restored")
  /\ UNCHANGED <<pkBuf, pkRoll, pkCut>>

\* orizon_pkg_rollback: the snapshot of a removed package, parsed in the
\* OTHER buffer, installed like any package.
PkgRollback(n) ==
  /\ Begins
  /\ pkMem.meta[n] = NoPkg /\ IsManifest(pkMem.snap[n])
  /\ pkRoll' = pkMem.snap[n]
  /\ pkCall' = [NoPkgCall EXCEPT !.kind = "rollback", !.pkg = pkMem.snap[n], !.from = "roll",
                  !.stage = "rolling"]
  /\ UNCHANGED <<pkMem, pkDisk, pkBuf, pkCut>>

LoadSnapshot ==
  /\ pkCall.stage = "loading"
  /\ Load("rollback", pkCall.pkg, "roll")
  /\ NoPkgFault
  /\ UNCHANGED <<pkMem, pkDisk, pkBuf, pkCut>>
-----------------------------------------------------------------------------
(* Reports, and the boot.                                                  *)

\* pkg_audit_store and pkg_audit_installed_meta: manifests that do not parse
\* or lack metadata, metadata that does not parse or lacks its manifest.
AuditFails(mem, n) ==
  \/ mem.store[n] = Junk \/ mem.meta[n] = Junk
  \/ IsManifest(mem.store[n]) /\ mem.meta[mem.store[n][1]] = NoPkg
  \/ mem.meta[n] # NoPkg /\ mem.store[n] = NoPkg

\* orizon_pkg_doctor on the transaction record.
DoctorWarns(mem) == mem.tx.state \in {"failed", "running"}

\* Every report reads manifests, metadata or the index into the buffers.
PkgReport ==
  /\ pkCall.stage = "idle" /\ (pkBuf # Junk \/ pkRoll # Junk)
  /\ pkBuf' = Junk /\ pkRoll' = Junk
  /\ UNCHANGED <<pkMem, pkDisk, pkCall, pkCut, pkBudget>>

\* Mutant: a boot does not replay the stored packages.
ReplayedNot(mem) == {mem.file}

\* replay_stored_packages, in the order of the directory: the last one that
\* has a path wins.
Replayed(mem) ==
  LET stored == {mem.store[n] : n \in {k \in PkgNames : IsManifest(mem.store[k])}}
      owners(p) == {g \in stored : p \in FilesOf(g)}
      after(last) ==
        [p \in PkgPaths |->
           CASE owners(p) = {} -> mem.file[p]
             [] last \in owners(p) -> last
             [] OTHER -> CHOOSE g \in owners(p) : TRUE]
  IN  IF stored = {} THEN {mem.file} ELSE {after(last) : last \in stored}

\* The power fails: what was saved is loaded and orizon_pkg_init replays it,
\* which is saved too, file by file, and would be done again by the next boot.
PkgPowerCut ==
  LET tx == pkDisk.tx
  IN  /\ pkBudget.cuts < MaxPkgCuts
      /\ pkBudget' = [pkBudget EXCEPT !.cuts = @ + 1]
      /\ \E f \in Replayed(pkDisk) :
           pkMem' = [pkDisk EXCEPT !.file = f,
                       !.hurt = @ \cup {n \in PkgNames : pkDisk.store[n] = Junk},
                       !.torn = IF tx.state = "running" THEN @ \cup {tx.pkg[1]} ELSE @]
      /\ pkDisk' = pkMem'
      /\ pkBuf' = Junk /\ pkRoll' = Junk /\ pkCall' = NoPkgCall /\ pkCut' = TRUE

PkgNext ==
  \/ \E g \in Packages1 : PkgInstall(g)
  \/ WriteRecord
  \/ ReplayItem \/ ReplayDone \/ ReplayFails \/ StoreManifest \/ StoreMeta
  \/ DeleteFile \/ FilesDeleted \/ UndoDb1 \/ UndoDb2 \/ WriteFileBack \/ FilesWritten
  \/ \E n \in PkgNames : PkgRemove(n) \/ PkgRollback(n)
  \/ TakeSnap \/ RemoveScript \/ ScriptEnds \/ DeleteMeta \/ DeleteManifest \/ ManifestBack
  \/ DropSnap \/ LoadSnapshot
  \/ PkgReport \/ PkgPowerCut

PkgSpec == PkgInit /\ [][PkgNext]_pkgVars
-----------------------------------------------------------------------------
(* Properties.                                                             *)

PkgIdle == pkCall.stage = "idle"

\* Files that one name only lists and no script writes.
OwnFiles(g) ==
  {p \in FilesOf(g) :
     /\ \A h \in Packages1 : h[1] # g[1] => p \notin FilesOf(h)
     /\ \A h \in Packages1 : \A s \in {PayloadOf[h], PreRemoveOf[h], PostRemoveOf[h]} :
          \A i \in DOMAIN s : s[i].k = "write" => s[i].p # p}

\* Between calls every installed package has the files of the version that
\* is stored, whatever was refused, failed or was cut off before, in whichever
\* step: a failed upgrade puts the previous files back (pkg_install_loaded), a
\* boot replays the store.
InstalledIsWhole ==
  PkgIdle => \A n \in PkgNames \ pkMem.hurt :
    IsManifest(pkMem.store[n]) =>
      \A p \in OwnFiles(pkMem.store[n]) : pkMem.file[p] = pkMem.store[n]

\* Between calls the audit finds nothing, and what is stored under a name is
\* the manifest that was verified, of the version its metadata says: nothing
\* was read over the buffer while the call still used it.  After a power
\* failure only the package that the record named as running may disagree.
DatabaseAgrees ==
  PkgIdle => \A n \in PkgNames \ (pkMem.hurt \cup pkMem.torn) :
    /\ ~AuditFails(pkMem, n)
    /\ pkMem.meta[n] = pkMem.store[n] /\ pkMem.store[n][1] \in {n, "none"}

\* Between calls the transaction record is settled and says what happened to
\* the package it names; only a power failure leaves one running.
RecordIsSettled ==
  PkgIdle =>
    LET tx == pkMem.tx
    IN  /\ ~pkCut => tx.state # "running" /\ (DoctorWarns(pkMem) <=> tx.state = "failed")
        /\ tx.state = "complete" =>
             pkMem.meta[tx.pkg[1]] = (IF tx.action = "remove" THEN NoPkg ELSE tx.pkg)

\* A package whose removal was recorded can be rolled back until the next
\* transaction: its snapshot is there, in memory and on the disk, whatever
\* failed since.
RemovedIsRecoverable ==
  \A t \in {pkMem, pkDisk} :
    <<t.tx.state, t.tx.action>> \in {<<"complete", "remove">>, <<"failed", "rollback">>}
      => t.snap[t.tx.pkg[1]] = t.tx.pkg

\* At every step, and so wherever the power fails, a package that was once
\* installed has its manifest in the store or in its snapshot, or a refused
\* write has just spoilt the stored one.
KeptSomewhere ==
  \A t \in {pkMem, pkDisk} : \A n \in t.known \ t.hurt :
    IsManifest(t.store[n]) \/ IsManifest(t.snap[n]) \/ t.store[n] = Junk

\* After any refused write, failed step, power failure and boot replay, an
\* installed package is whole and the database agrees with the files.
PackagesKept == InstalledIsWhole /\ DatabaseAgrees

\* What a transaction or a removal may still have to undo can be undone.
PackagesRecoverable == RecordIsSettled /\ RemovedIsRecoverable /\ KeptSomewhere
=============================================================================
