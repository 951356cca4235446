--------------------------- MODULE UpdateDownload ---------------------------
(***************************************************************************)
(* The downloads of orizon_update_full_upgrade in system/update.c: the     *)
(* manifest and its signature, the boot artifacts and the package index,   *)
(* each with a cache in the file system that lets an interrupted download  *)
(* go on, and the packages.  The channel may publish a new version between *)
(* two requests, a request may fail, end early or bring an error page, and *)
(* power may fail.  Every step writes a cache, the state or the log, and   *)
(* closing that file saves the whole tree (vfs_close), so power may fail   *)
(* after any of them; a save that is refused leaves the disk behind.       *)
(*                                                                         *)
(* A file of version v is Size[v] blocks, each named v; the block of an    *)
(* error page is Page.  The hash of a file stands for its blocks.          *)
(***************************************************************************)
EXTENDS Integers, Sequences, FiniteSets

CONSTANTS
  Versions,   \* number of versions the channel publishes
  Chunk,      \* blocks of UPDATE_CHUNK_BYTES
  MaxRefused, \* bound of the writes and saves that are refused
  Artifacts   \* the files with a cache as they are downloaded: kernel.elf,
              \* BOOTX64.EFI, limine.conf and, last, the package index

ASSUME DownloadAssumption ==
  /\ {Versions, Chunk} \subseteq Nat \ {0} /\ MaxRefused \in Nat
  /\ Len(Artifacts) \in Nat \ {0} /\ DOMAIN Artifacts = 1 .. Len(Artifacts)

VARIABLES
  published,  \* the version on the channel
  calm,       \* the channel is stable and the network answers
  cache,      \* the cache file of each download, as the VFS has it
  pkgs,       \* the version of each package its metadata says, likewise
  disk,       \* both, as the last save has them
  refused,    \* writes and saves refused so far
  running,    \* the version booted
  fetch,      \* the upgrade under way
  failed      \* upgrades that failed since the channel is calm, started then

dlVars == <<published, calm, cache, pkgs, disk, refused, running, fetch, failed>>

Page == 0
ArtifactNames == {Artifacts[i] : i \in DOMAIN Artifacts}
IndexItem == Len(Artifacts)
Packages == 1 .. 2
MetaTries == 3

\* The bound of the count of failed upgrades.
MaxFailed == Cardinality(ArtifactNames) + 1

\* Versions differ in size, so a stale cache may be short, equal or long.
Size(v) == 2 + ((v + 1) % 2)
File(v) == [i \in 1 .. Size(v) |-> v]

NoFetch == [stage |-> "idle", tries |-> 0, text |-> Page, version |-> 0, item |-> 0,
            dst |-> <<>>, taken |-> [a \in ArtifactNames |-> <<>>], early |-> FALSE]

\* What a range request may bring: a part of the file from the front of the
\* range on, and not the whole range if the network fails (TcpClient,
\* AnswerIsPrefix), or a page, past the end of the file too.
Body(v, from, to) ==
  LET upto == IF to < Size(v) THEN to ELSE Size(v)
      full == [i \in 1 .. upto - from + 1 |-> v]
  IN  IF from > Size(v) THEN {<<Page>>}
      ELSE IF calm THEN {full}
      ELSE {SubSeq(full, 1, n) : n \in 1 .. Len(full)} \cup {<<Page>>}

\* The tree as a save takes it.
Tree == [cache |-> cache, pkgs |-> pkgs]

\* A write or a save may be refused, until the channel is calm.
Refuse == ~calm /\ refused < MaxRefused /\ refused' = refused + 1

\* The save at the end of a step: vfs_close does not look at its result.
Saves == \/ disk' = Tree' /\ UNCHANGED refused
         \/ disk' = disk /\ Refuse

\* The end of an upgrade.
Gone(ok) ==
  /\ fetch' = NoFetch
  /\ failed' = IF ok \/ ~calm \/ fetch.early \/ failed = MaxFailed THEN failed ELSE failed + 1
Leave(ok) == Saves /\ Gone(ok)
-----------------------------------------------------------------------------
(* The manifest and its signature.                                         *)

FullUpgrade ==
  /\ fetch.stage = "idle"
  /\ fetch' = [NoFetch EXCEPT !.stage = "manifest", !.early = ~calm]
  /\ UNCHANGED <<published, calm, cache, running, pkgs, failed>>
  /\ Saves

\* A text is the published one, or cut or a page, which no signature fits.
Texts == IF calm THEN {published} ELSE {published, Page}

GetManifest ==
  \E text \in Texts :
    /\ fetch.stage = "manifest"
    /\ fetch' = [fetch EXCEPT !.stage = "signature", !.text = text]
    /\ UNCHANGED <<published, calm, cache, running, pkgs, failed>>
    /\ Saves

\* verify_update_manifest_signature and the hash in the signature.
Signed(sig) == fetch.text # Page /\ sig = fetch.text

\* Parsed, it names the version of everything that follows.  The boot
\* artifacts are left alone when the running ones have its hashes, and the
\* package index is next.
GetSignature ==
  \E sig \in Texts :
    /\ fetch.stage = "signature" /\ Signed(sig)
    /\ fetch' = [fetch EXCEPT !.version = fetch.text, !.stage = "open",
                   !.item = IF running = fetch.text THEN IndexItem ELSE 1]
    /\ UNCHANGED <<published, calm, cache, running, pkgs, failed>>
    /\ Saves

\* A request that fails, or a pair that does not fit: again, three times.
MetaFails ==
  /\ \/ ~calm /\ fetch.stage \in {"manifest", "signature"}
     \/ fetch.stage = "signature" /\ \E sig \in Texts : ~Signed(sig)
  /\ UNCHANGED <<published, calm, cache, running, pkgs>>
  /\ IF fetch.tries + 1 < MetaTries
     THEN /\ fetch' = [fetch EXCEPT !.stage = "manifest", !.tries = @ + 1, !.text = Page]
          /\ Saves /\ UNCHANGED failed
     ELSE Leave(FALSE)
-----------------------------------------------------------------------------
(* download_verified_blob for the artifact fetch.item.                     *)

Artifact == Artifacts[fetch.item]
Expected == File(fetch.version)

\* The index is fetched from the commit that the manifest names, the others
\* from the channel as it is.
Served == IF fetch.item = IndexItem THEN fetch.version ELSE published

Cached(blocks) == cache' = [cache EXCEPT ![Artifact] = blocks]

\* update_write_blob empties the file, writes it and closes it; a write that
\* is refused goes unnoticed.
SetCache(blocks) ==
  \/ Cached(blocks) /\ Saves
  \/ Cached(<<>>) /\ disk' = Tree' /\ Refuse

\* The artifact is done: the next one, or the packages.
Verified(dst) ==
  [fetch EXCEPT !.taken[Artifact] = dst, !.dst = <<>>,
                !.item = IF fetch.item = IndexItem THEN 1 ELSE @ + 1,
                !.stage = IF fetch.item = IndexItem THEN "packages" ELSE "open"]

\* What the cache file has: all of it, a beginning, or nothing of use.
OpenCache ==
  LET c == cache[Artifact]
  IN  /\ fetch.stage = "open"
      /\ UNCHANGED <<published, calm, running, pkgs, failed>>
      /\ CASE c = Expected -> fetch' = Verified(c) /\ UNCHANGED cache /\ Saves
           [] c # Expected /\ Len(c) \in 1 .. Len(Expected) - 1 ->
                fetch' = [fetch EXCEPT !.stage = "chunks", !.dst = c] /\ UNCHANGED cache /\ Saves
           [] OTHER -> fetch' = [fetch EXCEPT !.stage = "single"] /\ SetCache(<<>>)

\* One request for the whole file; short of it, the chunks start anew.
GetSingle ==
  /\ fetch.stage = "single"
  /\ \/ ~calm /\ fetch' = [fetch EXCEPT !.stage = "chunks", !.dst = <<>>]
     \/ \E body \in Body(Served, 1, Len(Expected)) :
          fetch' = IF Len(body) = Len(Expected)
                   THEN [fetch EXCEPT !.stage = "verify", !.dst = body]
                   ELSE [fetch EXCEPT !.stage = "chunks", !.dst = <<>>]
  /\ UNCHANGED <<published, calm, cache, running, pkgs, failed>>
  /\ Saves

\* The next chunk is appended and the cache file follows.
GetChunk ==
  LET done == Len(fetch.dst)
      wanted == IF Len(Expected) - done > Chunk THEN Chunk ELSE Len(Expected) - done
  IN  /\ fetch.stage = "chunks"
      /\ UNCHANGED <<published, calm, running, pkgs, failed>>
      /\ \E body \in Body(Served, done + 1, done + wanted) :
           /\ Len(body) <= wanted
           /\ fetch' = [fetch EXCEPT !.dst = @ \o body,
                          !.stage = IF done + Len(body) = Len(Expected) THEN "verify" ELSE @]
           /\ SetCache(fetch.dst \o body)

\* UPDATE_RANGE_RETRIES requests failed: what the cache has stays.
ChunkFails ==
  /\ fetch.stage = "chunks" /\ ~calm
  /\ UNCHANGED <<published, calm, cache, running, pkgs>>
  /\ Leave(FALSE)

\* Mutant: a file of the right length is taken for the right one.
HashUnchecked(dst) == Len(dst) = Len(Expected)

\* Mutant: the hash of the running kernel is compared.
HashOfRunning(dst) == dst = File(running)

\* The sha256 of what was put together is the manifest's.
HashAgrees(dst) == dst = Expected

\* A cache whose hash is wrong is emptied.
VerifyHash ==
  /\ fetch.stage = "verify"
  /\ UNCHANGED <<published, calm, running, pkgs>>
  /\ IF HashAgrees(fetch.dst)
     THEN SetCache(fetch.dst) /\ fetch' = Verified(fetch.dst) /\ UNCHANGED failed
     ELSE SetCache(<<>>) /\ Gone(FALSE)
-----------------------------------------------------------------------------
(* update_install_remote_packages and what follows.                        *)

\* The packages the index lists, one after the other: the ones whose metadata
\* says that version are skipped, the others are downloaded, verified and
\* installed (module Packages; the metadata is written last but one).
InstallPackage ==
  /\ fetch.stage = "packages"
  /\ fetch' = [fetch EXCEPT !.item = @ + 1,
                 !.stage = IF fetch.item + 1 \in Packages THEN @ ELSE "esp"]
  /\ pkgs' = [pkgs EXCEPT ![fetch.item] = fetch.version]
  /\ UNCHANGED <<published, calm, cache, running, failed>>
  /\ Saves

\* A package fails: those before it stay installed, and this one may have
\* lost its metadata if undoing it met a refused write too.
PackageFails ==
  /\ fetch.stage = "packages" /\ ~calm
  /\ pkgs' \in {pkgs, [pkgs EXCEPT ![fetch.item] = 0]}
  /\ UNCHANGED <<published, calm, cache, running>>
  /\ Leave(FALSE)

\* The ESP cannot be rewritten.
EspFails ==
  /\ fetch.stage = "esp" /\ running # fetch.version /\ ~calm
  /\ UNCHANGED <<published, calm, cache, running, pkgs>>
  /\ Leave(FALSE)

\* The ESP is rewritten, or was current, and the machine boots the new kernel.
Complete ==
  /\ fetch.stage = "esp"
  /\ running' = fetch.version
  /\ UNCHANGED <<published, calm, cache, pkgs>>
  /\ Leave(TRUE)

PowerFails ==
  /\ ~calm /\ (fetch.stage # "idle" \/ disk # Tree)
  /\ cache' = disk.cache /\ pkgs' = disk.pkgs
  /\ fetch' = NoFetch
  /\ UNCHANGED <<published, calm, disk, refused, running, failed>>

Publish ==
  /\ ~calm /\ published < Versions
  /\ published' = published + 1
  /\ UNCHANGED <<calm, cache, pkgs, disk, refused, running, fetch, failed>>

\* From here on nothing is published and every request is answered in full.
CalmDown ==
  /\ ~calm
  /\ calm' = TRUE
  /\ UNCHANGED <<published, cache, pkgs, disk, refused, running, fetch, failed>>

DlInit ==
  /\ published = 1 /\ calm = FALSE /\ running = 0 /\ fetch = NoFetch
  /\ failed = 0 /\ refused = 0
  /\ cache = [a \in ArtifactNames |-> <<>>] /\ pkgs = [p \in Packages |-> 0] /\ disk = Tree

DlProgress ==
  \/ FullUpgrade \/ GetManifest \/ GetSignature \/ MetaFails \/ OpenCache \/ GetSingle
  \/ GetChunk \/ VerifyHash \/ InstallPackage \/ Complete

DlNext == DlProgress \/ ChunkFails \/ PackageFails \/ EspFails \/ PowerFails \/ Publish \/ CalmDown
-----------------------------------------------------------------------------
\* What is about to be written to the ESP is, artifact by artifact, the whole
\* file of the one version the verified manifest names, and the packages are
\* those of its index, however many requests, versions of the channel, cache
\* files and power failures it was put together from.
TakenIsOneVersion ==
  fetch.stage = "esp" =>
    \A i \in DOMAIN Artifacts :
      \/ fetch.taken[Artifacts[i]] = File(fetch.version)
      \/ i # IndexItem /\ running = fetch.version

\* A cache spoilt by a version that is gone, by an error page, a refused write
\* or a power failure after any write costs at most one failed upgrade for
\* each cached file, once the channel is stable and answers.
CacheHeals == failed <= Cardinality(ArtifactNames)

\* Then the upgrade, retried, gets through, packages included.
UpgradeConverges == calm ~> (running = published /\ \A p \in Packages : pkgs[p] = published)

\* An upgrade takes the files of one version, and what it leaves behind when it
\* fails does not fail the next one.
DownloadsSound == TakenIsOneVersion /\ CacheHeals
=============================================================================
