----------------------------- MODULE EspVolume -----------------------------
(***************************************************************************)
(* The FAT32 writer of kernel/system/install.c on an EFI system partition: *)
(* formatting the installed ESP, writing the Orizon files side by side on  *)
(* the ESP of another system, and replacing limine.conf for the boot       *)
(* guard.  Every device write is one step; power may fail and a write may  *)
(* be refused between any two of them.                                     *)
(*                                                                         *)
(* The writer allocates from install_fat, a table in memory which is not   *)
(* read at mount.  A directory is a cluster like any other: a cluster has  *)
(* file bytes (data) and the entries a reader of a directory finds (ent).  *)
(***************************************************************************)
EXTENDS Integers, Sequences

CONSTANTS Layouts,          \* "installed": own ESP; "dual": a shared one
          InstalledLast,    \* last cluster of the volume, cluster_count + 1,
          SharedLast,       \* for either layout
          UnitsPerCluster,  \* cluster size of the volume
          Stride,           \* INSTALL_CLUSTER_BYTES, in the same units
          LoaderSize,       \* BOOTX64.EFI and its rollback copy, in units
          KernelSize,       \* kernel.elf, its rollback copy, a foreign file
          MaxOps            \* bound: operations started

ASSUME EspAssumption ==
  /\ Layouts \subseteq {"installed", "dual"}
  /\ InstalledLast \in Nat /\ InstalledLast > 8
  /\ SharedLast \in Nat /\ SharedLast > 8
  /\ UnitsPerCluster \in 1..Stride
  /\ Stride \in Nat /\ LoaderSize \in Nat \ {0} /\ KernelSize \in Nat \ {0}
  /\ "installed" \in Layouts => UnitsPerCluster = Stride
  /\ MaxOps \in Nat

VARIABLES layout, \* which ESP this machine has
          fat,   \* the allocation table on the disk
          mem,   \* install_fat
          data,  \* file bytes in each cluster
          ent,   \* directory entries in each cluster: name -> first cluster
          job,   \* the operation in progress
          ops,   \* operations started so far
          hist   \* history: base, the last full write completed and passed
                 \* its check; done, so did the last operation; torn, how
                 \* many since the last format were cut short (2: or more)

vars == <<layout, fat, mem, data, ent, job, ops, hist>>

Last == IF layout = "installed" THEN InstalledLast ELSE SharedLast

Root     == 2
Clusters == Root..Last
Free     == 0
EOC      == Last + 1

Files == {"loader", "kernel", "conf", "info", "rloader", "rkernel", "foreign"}
Dirs  == {"efi", "boot", "orizon"}
Names == Files \cup Dirs

NoJob     == [kind |-> "none"]
Blank     == [file |-> "none", gen |-> 0, off |-> 0]
NoEntries == [n \in Names |-> Free]
ZeroFat   == [c \in Clusters |-> Free]

-----------------------------------------------------------------------------
(* The allocation table *)

Pieces(size, unit) == (size + unit - 1) \div unit

Size(f) == CASE f \in {"loader", "rloader"} -> LoaderSize
             [] f \in {"kernel", "rkernel", "foreign"} -> KernelSize
             [] OTHER -> 1

\* Clusters allocated to a file, and clusters fat_write_file_data writes: it
\* advances by INSTALL_CLUSTER_BYTES whatever the cluster size of the volume.
Span(f)   == Pieces(Size(f), UnitsPerCluster)
Chunks(f) == Pieces(Size(f), Stride)

Chunk(f, ver, i) == [file |-> f, gen |-> ver,
                     off |-> i * Stride]

\* The cluster reached by following k links of table m from c.
Follow(m, c, k) ==
  LET walk[i \in 0..k] ==
        IF i = 0 THEN c
        ELSE IF walk[i-1] \in Clusters THEN m[walk[i-1]] ELSE Free
  IN  walk[k]

FreeChain(m, c) ==
  [x \in Clusters |-> IF \E k \in 0..Last : Follow(m, c, k) = x THEN Free ELSE m[x]]

\* The first run of n free clusters, or Free; the last cluster is never used.
AllocScan(m, n) ==
  LET runs == {c \in Clusters : c + n <= Last /\ \A i \in 0..n-1 : m[c+i] = Free}
  IN  IF runs = {} THEN Free ELSE CHOOSE c \in runs : \A x \in runs : c <= x

Chained(m, c, n) ==
  [x \in Clusters |-> IF x \notin c..c+n-1 THEN m[x]
                      ELSE IF x = c+n-1 THEN EOC ELSE x + 1]

-----------------------------------------------------------------------------
(* What a reader of the disk finds: the firmware, Limine and the checks.    *)

Lookup(c, n) == IF c \in Clusters THEN ent[c][n] ELSE Free

Efi     == Lookup(Root, "efi")
EfiBoot == Lookup(Efi, "boot")
BootDir == Lookup(Root, "boot")
Orizon  == Lookup(Efi, "orizon")

\* Directory d has file f, all of it of one version, in clusters the table on
\* the disk shows as its chain.
Whole(d, f) ==
  LET c == Lookup(d, f)
      At(i) == Follow(fat, c, i)
  IN  /\ c \in Clusters
      /\ \A i \in 0..Span(f)-1 :
           /\ At(i) \in Clusters
           /\ fat[At(i)] # Free
           /\ data[At(i)].file = f
           /\ data[At(i)].off = i * UnitsPerCluster
           /\ data[At(i)].gen = data[c].gen

\* boot_check_impl and dualboot_check_impl look at directory entries only.
CheckPasses ==
  \/ /\ layout = "installed"
     /\ \A d \in {Root, EfiBoot, BootDir} : Lookup(d, "conf") # Free
     /\ Lookup(EfiBoot, "loader") # Free
     /\ Lookup(BootDir, "kernel") # Free
     /\ Lookup(Root, "info") # Free
  \/ /\ layout = "dual"
     /\ \A f \in {"loader", "kernel", "conf", "info"} : Lookup(Orizon, f) # Free

-----------------------------------------------------------------------------
(* fat_write_regular_file_short: delete the entry, allocate, write the      *)
(* bytes, add the entry.                                                    *)

CutShort == IF hist.torn < 2 THEN hist.torn + 1 ELSE 2

Abandon ==
  /\ job' = NoJob
  /\ hist' = [hist EXCEPT !.done = FALSE, !.torn = CutShort]

DeleteEntry ==
  /\ job # NoJob /\ job.pc = "delete"
  /\ LET d == Head(job.todo)[1]
         f == Head(job.todo)[2]
         c == ent[d][f]
         m == IF c # Free THEN FreeChain(mem, c) ELSE mem
         a == AllocScan(m, Span(f))
     IN  /\ ent' = [ent EXCEPT ![d][f] = Free]
         /\ \/ /\ a = Free
               /\ mem' = m
               /\ Abandon
            \/ /\ a # Free
               /\ mem' = Chained(m, a, Span(f))
               /\ job' = [job EXCEPT !.pc = "data", !.at = a, !.part = 0]
               /\ UNCHANGED hist
  /\ UNCHANGED <<fat, data, ops>>

WriteData ==
  /\ job # NoJob /\ job.pc = "data"
  /\ LET f == Head(job.todo)[2]
         c == job.at + job.part
     IN  /\ data' = [data EXCEPT ![c] = Chunk(f, job.ver, job.part)]
         /\ ent' = [ent EXCEPT ![c] = NoEntries]
         /\ job' = [job EXCEPT !.part = @ + 1,
                               !.pc = IF job.part + 1 = Chunks(f) THEN "enter" ELSE "data"]
  /\ UNCHANGED <<fat, mem, ops, hist>>

\* The last entry of orizon_install_update_limine_config ends the operation;
\* a side-by-side write still has its table to flush.  A directory whose
\* cluster was overwritten with file bytes may have no room for an entry.
EnterFile ==
  /\ job # NoJob /\ job.pc = "enter"
  /\ LET d == Head(job.todo)[1]
         f == Head(job.todo)[2]
         rest == Tail(job.todo)
     IN  \/ /\ data[d] # Blank
            /\ Abandon
            /\ UNCHANGED ent
         \/ /\ ent' = [ent EXCEPT ![d][f] = job.at]
            /\ \/ /\ rest # <<>>
                  /\ job' = [job EXCEPT !.todo = rest, !.pc = "delete"]
                  /\ UNCHANGED hist
               \/ /\ rest = <<>> /\ job.kind = "side"
                  /\ job' = [job EXCEPT !.todo = rest, !.pc = "flush"]
                  /\ UNCHANGED hist
               \/ /\ rest = <<>> /\ job.kind = "conf"
                  /\ job' = NoJob
                  /\ hist' = [hist EXCEPT !.done = TRUE]
  /\ UNCHANGED <<fat, mem, data, ops>>

-----------------------------------------------------------------------------
(* dualboot_write_side_by_side_esp, then dualboot_check_impl                *)

SideFiles(rollback) ==
  <<"loader", "kernel", "conf", "info">>
    \o (IF rollback THEN <<"rloader", "rkernel">> ELSE <<>>)

InDir(d, files) == [i \in 1..Len(files) |-> <<d, files[i]>>]

Begin == job = NoJob /\ ops < MaxOps /\ ops' = ops + 1

\* Mutant: the table in memory is used as it is.
FatKept == mem

\* fat32_load_fat
FatLoaded == fat

\* /EFI exists on a shared ESP; /EFI/Orizon is created when it is missing,
\* unless no cluster is left for it.
StartSideBySide(rollback) ==
  /\ layout = "dual" /\ Begin /\ Efi # Free
  /\ LET a   == AllocScan(FatLoaded, 1)
         new == [kind |-> "side", pc |-> "delete", todo |-> <<>>, at |-> Free,
                 part |-> 0, ver |-> ops', rollback |-> rollback]
     IN  \/ /\ Orizon # Free
            /\ mem' = FatLoaded
            /\ job' = [new EXCEPT !.todo = InDir(Orizon, SideFiles(rollback))]
         \/ /\ Orizon = Free /\ a # Free
            /\ mem' = Chained(FatLoaded, a, 1)
            /\ job' = [new EXCEPT !.pc = "mkdir", !.at = a]
  /\ hist' = [hist EXCEPT !.base = FALSE, !.done = FALSE]
  /\ UNCHANGED <<fat, data, ent>>

MakeDir ==
  /\ job # NoJob /\ job.pc = "mkdir"
  /\ data' = [data EXCEPT ![job.at] = Blank]
  /\ ent' = [ent EXCEPT ![job.at] = NoEntries]
  /\ job' = [job EXCEPT !.pc = "link"]
  /\ UNCHANGED <<fat, mem, ops, hist>>

LinkDir ==
  /\ job # NoJob /\ job.pc = "link"
  /\ ent' = [ent EXCEPT ![Efi]["orizon"] = job.at]
  /\ job' = [job EXCEPT !.pc = "delete",
                        !.todo = InDir(job.at, SideFiles(job.rollback))]
  /\ UNCHANGED <<fat, mem, data, ops, hist>>

\* fat_write_fats, which also marks the root directory in use
TableWritten == [mem EXCEPT ![Root] = EOC]

FlushTable ==
  /\ job # NoJob /\ job.pc = "flush"
  /\ fat' = TableWritten
  /\ mem' = TableWritten
  /\ job' = NoJob
  /\ hist' = [hist EXCEPT !.base = CheckPasses, !.done = CheckPasses]
  /\ UNCHANGED <<data, ent, ops>>

-----------------------------------------------------------------------------
(* orizon_install_update_limine_config: no table is loaded and none written *)

ConfDirs == IF layout = "installed" THEN <<Root, BootDir, EfiBoot>> ELSE <<Orizon>>

StartConf ==
  /\ Begin
  /\ \A i \in 1..Len(ConfDirs) : ConfDirs[i] # Free
  /\ job' = [kind |-> "conf", pc |-> "delete", at |-> Free, part |-> 0,
             todo |-> [i \in 1..Len(ConfDirs) |-> <<ConfDirs[i], "conf">>],
             ver |-> ops']
  /\ hist' = [hist EXCEPT !.done = FALSE]
  /\ UNCHANGED <<fat, mem, data, ent>>

-----------------------------------------------------------------------------
(* fat32_format_esp_payload with fat32_write_boot_files, then the check.    *)
(* Directories and files are laid out one after the other.                  *)

EfiAt     == 3
EfiBootAt == 4
BootAt    == 5

FormatFiles(rollback) ==
  <<<<EfiBootAt, "loader">>>>
    \o (IF rollback THEN <<<<EfiBootAt, "rloader">>>> ELSE <<>>)
    \o <<<<BootAt, "kernel">>>>
    \o (IF rollback THEN <<<<BootAt, "rkernel">>>> ELSE <<>>)
    \o <<<<Root, "conf">>, <<BootAt, "conf">>, <<EfiBootAt, "conf">>, <<Root, "info">>>>

\* The order in which the bytes of those files are written.
FormatOrder(rollback) ==
  IF rollback THEN <<1, 3, 2, 4, 5, 6, 7, 8>> ELSE <<1, 2, 3, 4, 5, 6>>

\* fat_alloc_chain: the next free cluster, one after the other.
Place(files, k) ==
  LET start[i \in 1..k] ==
        IF i = 1 THEN BootAt + 1 ELSE start[i-1] + Span(files[i-1][2])
  IN  start[k]

FormatFat(files) ==
  LET n == Len(files)
  IN  [c \in Clusters |->
         IF c <= BootAt THEN EOC
         ELSE IF \E i \in 1..n : c = Place(files, i) + Span(files[i][2]) - 1 THEN EOC
         ELSE IF c < Place(files, n) THEN c + 1 ELSE Free]

FormatDir(files, d) ==
  [n \in Names |->
     IF d = Root /\ n = "efi" THEN EfiAt
     ELSE IF d = Root /\ n = "boot" THEN BootAt
     ELSE IF d = EfiAt /\ n = "boot" THEN EfiBootAt
     ELSE IF \E i \in 1..Len(files) : files[i] = <<d, n>>
          THEN Place(files, CHOOSE i \in 1..Len(files) : files[i] = <<d, n>>)
     ELSE Free]

\* `update`, `rollback`, `repair-boot` and the installation.
StartFormat(rollback) ==
  /\ layout = "installed" /\ Begin
  /\ LET files == FormatFiles(rollback)
     IN  /\ Place(files, Len(files)) + 1 < Last - 1
         /\ mem' = FormatFat(files)
         /\ job' = [kind |-> "format", pc |-> "table", todo |-> files, at |-> Free,
                    part |-> 1, ver |-> ops',
                    rollback |-> rollback]
  /\ hist' = [hist EXCEPT !.base = FALSE, !.done = FALSE]
  /\ UNCHANGED <<fat, data, ent>>

FormatTable ==
  /\ job # NoJob /\ job.pc = "table"
  /\ fat' = mem
  /\ job' = [job EXCEPT !.pc = "dirs", !.at = Root]
  /\ UNCHANGED <<mem, data, ent, ops, hist>>

FormatDirs ==
  /\ job # NoJob /\ job.pc = "dirs"
  /\ ent' = [ent EXCEPT ![job.at] = FormatDir(job.todo, job.at)]
  /\ data' = [data EXCEPT ![job.at] = Blank]
  /\ job' = [job EXCEPT !.at = @ + 1, !.pc = IF job.at = BootAt THEN "bytes" ELSE "dirs"]
  /\ UNCHANGED <<fat, mem, ops, hist>>

FormatBytes ==
  /\ job # NoJob /\ job.pc = "bytes"
  /\ LET k == FormatOrder(job.rollback)[job.part]
         f == job.todo[k][2]
         at == Place(job.todo, k)
         run == at..at+Span(f)-1
     IN  /\ data' = [c \in Clusters |-> IF c \in run THEN Chunk(f, job.ver, c - at) ELSE data[c]]
         /\ ent' = [c \in Clusters |-> IF c \in run THEN NoEntries ELSE ent[c]]
  /\ \/ /\ job.part < Len(job.todo)
        /\ job' = [job EXCEPT !.part = @ + 1]
        /\ UNCHANGED hist
     \/ /\ job.part = Len(job.todo)
        /\ job' = NoJob
        /\ hist' = [base |-> CheckPasses, done |-> CheckPasses, torn |-> 0]
  /\ UNCHANGED <<fat, mem, ops>>

-----------------------------------------------------------------------------
\* storage_write fails: the operation returns an error and stops.
WriteRefused ==
  /\ job # NoJob
  /\ Abandon
  /\ UNCHANGED <<fat, mem, data, ent, ops>>

\* Power fails or the machine restarts: install_fat is zero again.
Restart ==
  /\ mem' = ZeroFat
  /\ job' = NoJob
  /\ hist' = IF job = NoJob THEN hist
             ELSE [hist EXCEPT !.done = FALSE, !.torn = CutShort]
  /\ UNCHANGED <<fat, data, ent, ops>>

\* A shared ESP: /EFI with a file of another system in two clusters that are
\* not next to each other.
ForeignFirst  == 4
ForeignSecond == 6

SharedFat == [c \in Clusters |-> CASE c \in {Root, EfiAt, ForeignSecond} -> EOC
                                   [] c = ForeignFirst -> ForeignSecond
                                   [] OTHER -> Free]

ForeignChunk(i) == [file |-> "foreign", gen |-> 0, off |-> i * UnitsPerCluster]

Init ==
  /\ layout \in Layouts
  /\ mem = ZeroFat
  /\ job = NoJob
  /\ ops = 0
  /\ hist = [base |-> FALSE, done |-> FALSE, torn |-> 0]
  /\ \/ /\ layout = "dual"
        /\ fat = SharedFat
        /\ data = [c \in Clusters |-> IF c = ForeignFirst THEN ForeignChunk(0)
                                      ELSE IF c = ForeignSecond THEN ForeignChunk(1)
                                      ELSE Blank]
        /\ ent = [c \in Clusters |->
                    IF c = Root THEN [NoEntries EXCEPT !["efi"] = EfiAt]
                    ELSE IF c = EfiAt THEN [NoEntries EXCEPT !["foreign"] = ForeignFirst]
                    ELSE NoEntries]
     \/ /\ layout = "installed"
        /\ fat = ZeroFat
        /\ data = [c \in Clusters |-> Blank]
        /\ ent = [c \in Clusters |-> NoEntries]

Write == \/ DeleteEntry \/ WriteData \/ EnterFile
         \/ MakeDir \/ LinkDir \/ FlushTable
         \/ FormatTable \/ FormatDirs \/ FormatBytes
         \/ WriteRefused \/ Restart

Full == \E rollback \in BOOLEAN : StartFormat(rollback) \/ StartSideBySide(rollback)

\* limine.conf is replaced only in a session that has the table in memory,
\* having formatted the ESP or written the side-by-side files itself.
NextOneSession == /\ Write \/ Full \/ (mem # ZeroFat /\ StartConf)
                  /\ UNCHANGED layout

\* The boot guard's check after a restart replaces it as well.
Next == (Write \/ Full \/ StartConf) /\ UNCHANGED layout

Spec == Init /\ [][Next]_vars

-----------------------------------------------------------------------------
(* Properties *)

\* Tables hold cluster numbers, the job writes inside the volume, and every
\* directory entry names a cluster of it.
TypeOK ==
  /\ fat \in [Clusters -> {Free} \cup Clusters \cup {EOC}]
  /\ mem \in [Clusters -> {Free} \cup Clusters \cup {EOC}]
  /\ DOMAIN data = Clusters
  /\ ent \in [Clusters -> [Names -> {Free} \cup Clusters]]
  /\ job # NoJob => job.at + job.part - 1 <= Last
  /\ ops \in 0..MaxOps
  /\ hist \in [base : BOOLEAN, done : BOOLEAN, torn : 0..2]

\* Once an installed ESP was written and checked, and the replacements of
\* limine.conf since then also reported success, the loader, the kernel and the
\* three copies of limine.conf that boot_check_impl looks for can be read in
\* full.
BootFilesWhole ==
  (layout = "installed" /\ hist.base /\ hist.done /\ hist.torn = 0) =>
    /\ Whole(EfiBoot, "loader")
    /\ Whole(BootDir, "kernel")
    /\ \A d \in {Root, BootDir, EfiBoot} : Whole(d, "conf")

\* Replacing limine.conf is not atomic, but as it goes copy by copy there is at
\* every moment, and after a power failure or a refused write, a copy that can
\* be read, and the loader and the kernel stay whole.
OneConfAlways ==
  (layout = "installed" /\ hist.base /\ hist.torn <= 1) =>
    /\ Whole(EfiBoot, "loader")
    /\ Whole(BootDir, "kernel")
    /\ \E d \in {Root, BootDir, EfiBoot} : Whole(d, "conf")

\* Nothing the other system keeps on a shared ESP is ever damaged, at no step
\* and by no interruption: its file is found and is whole.
ForeignWhole == layout = "dual" => Whole(Efi, "foreign")

OrizonWhole == \A f \in {"loader", "kernel", "conf", "info"} : Whole(Orizon, f)

\* If no operation was ever cut short, a side-by-side write that passed
\* dualboot_check_impl left files that can be read in full.
CheckedIsWhole ==
  (layout = "dual" /\ hist.base /\ hist.done /\ hist.torn = 0) => OrizonWhole

\* At every step of the writer, the ESP holds what the firmware, the loader
\* and the other system need of it.
EspFilesWhole == TypeOK /\ BootFilesWhole /\ OneConfAlways /\ ForeignWhole /\ CheckedIsWhole
=============================================================================
