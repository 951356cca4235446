# Orizon OS: TLA+ models of the x86_64 kernel

Orizon OS is a single-processor kernel with one main loop, a timer interrupt that only counts,
and no preemption: commands, network polling, device waits and drawing run one after the other.
What makes it hard is not threads but everything that survives or interrupts the loop: power
failing between two device writes, devices and peers that answer late, twice or not at all,
writes refused after part of them took place, state left in memory by an earlier command, and
long sequences of legal commands. The models concentrate on that.

Paths such as `fs/vfs.c` are relative to `src/orizon-os-x86_64/kernel/`.

## 1. Inventory

| Component | State | Operations | Talks to | What is hard | What makes it correct |
|---|---|---|---|---|---|
| Snapshot store, `fs/vfs.c` | two slots on the data partition; `persist_ready`, `persist_active_slot`, `persist_sequence` | load, save, restore, repair, enable | storage, inode table, boot tasks | power failure between sectors, write and read errors, sequence wrap | a load finds the last acknowledged snapshot or a later one, never a mixture |
| Inode table, `fs/vfs.c` | `inodes[]` with parent indices, file buffers | open, write, truncate, mkdir, delete, rename, clear and restore the roots | heap, snapshot store | inodes move on deletion; table and memory full | parents and buffers are right; a restore gives exactly the snapshot |
| Kernel heap, `mm/kmalloc.c` | block headers in one array | kmalloc, kfree, krealloc | everything | any order of calls | blocks tile the heap and hold what was asked for |
| ESP writer, `system/install.c` | FAT, directories, clusters; `install_fat` | format, side-by-side install, replace `limine.conf`, checks | storage, update | no journal; a table in memory that is not that of the disk | checked files are whole, foreign ones untouched |
| Boot guard and update, `system/update.c`, `boot/limine_boot.c` | guard record, cached configurations, Limine default, two kernels, download cache | update, check, validate, recover, rollback, downloads | ESP writer, snapshot store, network | three media that cannot change together; a channel that publishes meanwhile | a bad update is left again; an upgrade takes the files of one version |
| Network stack, `drivers/netstack.c` | IPv4 configuration, ARP cache, TCP control blocks, TLS state | DHCP, ARP, DNS, TCP client and server, TLS, HTTP | Ethernet, Wi-Fi, USB network | loss, repetition, reordering; late answers meet the next query | bytes in order and of one connection; no request before the handshake is agreed on |
| SSH server, `system/ssh.c` | negotiation, pending answers, cipher counters, lockout, `ssh.conf`, host key, working directory | poll, start, stop, authentication, channels, file commands | TCP server, files | watchdog against traffic, a send that fails after encryption, truncated files, cut paths | counters in step, nothing of one connection in the next, one identity, write policy kept |
| Package manager, `system/packages.c` | database, manifests, transaction record, rollback snapshots | install, upgrade, remove, rollback, boot replay | files, snapshot store | a step fails, power fails in it | an installed package is whole; what was taken can be put back |
| Block storage, `drivers/storage.c` | NVMe, AHCI and virtio queues, selected disk | scan, select, read, write | ESP writer, snapshot store | timeouts, late completions, queue wrap | reads agree with what was written |
| USB, `drivers/usb*.c` | xHCI rings, cycle bits, slots, ports | enumerate, commands, transfers, events | input, network | a completion after its timeout, a device that fails half way | answers belong to their command; the keyboard keeps working |
| Ethernet, `drivers/net.c` | descriptor rings | probe, send, receive | network stack | ring full and wrapping | frames pass once, whole, in order |
| Wi-Fi, `drivers/wifi.c` | firmware, queues, context, rings | find, load, boot, arm, bring-up, join | network stack | long hardware sequences, a card that does not answer | what is called armed is built; every call ends |
| Keyboards and mice, `drivers/ps2.c`, `usb.c`, `usb_hid.c` | prefix, modifiers, packet index, report queue | poll, decode | compositor | two devices in one byte stream | keys arrive as typed |
| Cryptography, `lib/` | none | RSA, X25519, AES-GCM, SHA | update, SSH, TLS | carries, folds | agrees with plain arithmetic |
| Compositor, `gui/compositor.c` | windows, workspaces, focus, history, layouts, rules | dispatchers, keys, pointer, frames | everything | focus repaired lazily, state kept twice | the lists agree, tiles do not overlap, keys reach what is shown |
| Desktop session, `system/desktop*.c` | policy, session, settings, user and runtime files, state | start, stop, reload, recover, settings, keyword, sync | files, compositor, boot | files truncated before a write is refused, includes in a circle | applying settles; recovery finds a way back |
| System state, `system/system_state.c`, `report.c`, `selftest.c` | boot-state files | boot tasks, reports | snapshot store, desktop session | saves at boot | see snapshot store and desktop session |
| Terminal, `gui/terminal.c` | line buffer, scrollback | keys, commands | everything | volume | its commands are actions of the other components |
| Kernel log, process accounting, platform drivers | ring of text; counters; registers | append, tick, bring-up | reports | nothing depends on them | not modelled |

How they interact: a boot runs `vfs_seed_content`, then `vfs_persist_load` unless the command
line says `orizon.safe=1`, the boot guard's check, the boot tasks (which restore the desktop and
save) and, at the console, the guard's validation. An update downloads through TCP and TLS into
a cache in the roots, caches two Limine configurations, reformats the ESP with both kernels and
writes the guard record last. The main loop polls input, USB, network and SSH and draws.

## 2. Modules

A component is one module. Components that cannot influence one another within a behaviour share a run
through a *selector* module: its variable `part` chooses, in the initial state, the component that
runs; the others stand still in one initial state. No action or property is changed by that.

| Module | Models | State |
|---|---|---|
| `DurableRoots` | the promise of the data partition | what a load would find, the last acknowledged snapshot, those submitted since |
| `Persist`, `MC_Persist`; `PersistProofs`, `DurableProofs` | the snapshot store | `disk`: slots; `meta`: the `persist_*` variables; `vfs`: the roots in memory; `write`: the save in progress; `power`; `acked`, `pending`: history |
| `EspVolume` | the FAT32 writer | `fat`, `data`, `ent`: the disk; `mem`: `install_fat`; `job`; `hist` |
| `BootGuard`, `BootProofs` | update, record, default and kernels across restarts | `esp`, `nv` (roots on disk), `ram`, `cpu`, `task` (a call into `install.c`) |
| `InodeTable`, `InodeRestore`, `MC_InodeRestore` | `inodes[]`; how a snapshot returns to it; the seed tree | `table`, `heap`; `saved`, `mode` |
| `Heap` | `kmalloc.c` | `hdr`: the header at each block; `live`: history |
| `MemoryProofs` | theorems of the heap and of the inode table | |
| `TcpServer`, `SshServer` | the one-connection server and the SSH protocol on it | `host` (server, service, negotiation), the client, the wire in both directions |
| `SshIdentity`, `SshShell`, `SshProofs` | `ssh.conf` and host key; the remote file commands | files in memory and on disk, the running service; directories, files, working directory |
| `TcpClient`, `TlsClient`, `NetConfig`; `ServiceProofs` | client connections, the TLS passes, DHCP/ARP/DNS | connection block, segments heard; parse state, body; lease, cache, query |
| `UpdateDownload` | the downloads of a full upgrade | caches of the artifacts and of the package index, package versions, the tree on the disk, what was taken, channel version |
| `Packages`, `MC_Packages`, `PackageProofs` | package transactions, one written or deleted file a step | tree in memory, tree on the disk, call in progress with its two buffers |
| `RsaArith`, `FieldArith`, `MC_Crypto` | byte-array and limb arithmetic, with smaller digits | one input at a time |
| `Storage`, `NetRings`, `Xhci`, `WifiRadio`, `InputDevices`; `DeviceProofs` | the drivers, each with its device | rings, queues, registers, the device's own position |
| `Windows`, `Desktop` | slots, workspaces, focus, history; dispatchers, keys, pointer, rules, tiles | `desk`, `session`, the key typed last |
| `DesktopConfig` | the files of the desktop's configuration | `files`, the copy on the disk, the last command |
| `MC_Persist`, `MC_Boot`, `MC_Memory`, `MC_Ssh`, `MC_Services`, `MC_Devices`, `MC_Desktop` | selectors | `part` |

Composition. `InodeRestore` extends `InodeTable`; `SshServer` extends `TcpServer`; `Desktop`
extends `Windows`; `Persist` instantiates `DurableRoots`. Where one module uses the promise of
another it takes it as one step: `BootGuard` the calls into `install.c` (a format leaves the ESP
unreadable while it runs; a cut-short `limine.conf` may or may not take effect), and `Packages`, `UpdateDownload`,
`SshIdentity` and `DesktopConfig` the save of the roots, which is what `Persist` shows: one
step that is done or refused. `vfs_close` saves after every file that was open for writing and
`vfs_delete` after every deletion (`vfs.c:1374-1382`, `632-642`), so in these modules each such write has
its save in the same action, and a power failure between two files of a command finds exactly the
files written so far. `TlsClient` takes each flight of
the server as `TcpClient` delivers it, possibly cut.

Abstractions. Texts are not built: a snapshot is a function from files to contents, a path a
sequence of names, a kernel or package is told apart by its version, a configuration file is a
sequence of key and value. Checksums and hashes are taken to be collision free, one sector
write to be atomic, ciphers to be opened by exactly the position they were sealed at. Polling
loops with a counter are a wait that ends or times out.

## 3. What is checked

There are twelve runs, seven that pass and five that show a disagreement. Bounds are constants in each cfg and in the
guards of the modules. Symmetry is not used: the sets are small and their members are told apart.

**`persist_store`** (`MC_Persist`). Part *prepared*: sessions that take their metadata from the slots,
with crashes and failed writes at every sector, loaded and safe boots, oversized snapshots, lost
partitions, restores. `LoadsRecover`: a load finds the last acknowledged snapshot or a later one.
`KeepsPromise`: the slots implement `DurableRoots`, with `stable` mapped to the body of the newest
valid slot. Two sectors suffice for every kind of torn write; three saves let one slot be
written again after the other. Part *worn*: every operation, slots that cannot be read, a counter of three values that wraps,
repair and enable at any time. In both parts `ActiveSlotValid`, `ActiveSlotUntouched` and
`WriteInFlight`, the strengthening the proof uses. With read errors or after a wrap the newest
snapshot may be passed over (`persist_snapshot_is_newer` prefers sequence 2^32-1 to 1), so
`LoadsRecover` and `KeepsPromise` say nothing about *worn*: no run covers what a load finds after 2^32 saves.

**`boot_chain`** (`MC_Boot`). Part *volume*: an installed ESP formatted and reconfigured in one
session, or a small shared ESP with a fragmented foreign file; four operations cut short at any
device write (`EspFilesWhole`). Part *guard*: four updates over three kernels, one of them bad, with crashes,
refused writes and any entry chosen at the menu. `RecordAgrees`: record, default and slots agree.
`FallbackHeld`: an armed fallback is lifted only for a kernel that has reached the shell, or by an
update whose record is about to be written. The entries say `orizon.safe=1` where the code's do.

**`memory`** (`MC_Memory`). Part *heap*: 26 units with requests just below and above the split limit
(`Tiled`, `Joined`, `LiveHeld`). Part *calls*: all calls of the inode table on eight paths with five inodes and two
buffers, so that both run out (`TableSound`). Part *boot*: three user calls with snapshots and restarts on the seed tree
of 20 inodes: `TableSound` again, now through the load of a snapshot, and `RestoreIsExact`: the tree
after the load is the one that was saved.

**`ssh_server`** (`MC_Ssh`). Two connections by two peers whose segments are lost, repeated,
reordered and cut; a send may be refused, the watchdog may fire. `SessionIsReadable`: both ends
can decrypt what the other sent; `FreshConnection`: nothing of one connection is left in the next;
`AnswersComplete`: output, status, EOF and close in order, and nothing prepared gets stuck.
`IdentityKept`: password, policy and host key outlive refused writes and restarts as reported; a
write may fail before the file is opened, after it was emptied (the close then saves the empty file)
or in its save.
`ShellKeepsPolicy`: no path, however spelled or cut at `MAX_PATH`, gets round the write policy.

**`services`** (`MC_Services`). `StreamsKept`: a caller gets a prefix of the answer to its own
request. `TlsKept`: no request before both Finished messages agree; the body is a prefix.
`ConfigKept`: addresses, next hops and names come from the replies that grant them.
`DownloadsSound`, `UpgradeConverges`: an upgrade takes one version, a spoilt cache heals, with power
failing after any file that was written and one write or save refused; the package index has a cache
like the boot artifacts. `PackagesKept`, `PackagesRecoverable`: two packages, one in three versions and
one in two, four calls, two refused writes or saves, and a power failure after any file written
or deleted, between the manifest in the store and the metadata too. `ArithmeticAgrees`: modular operations, primality, key
inversion and CRT signing on digits of base 4, and the field and ladder on limbs of 4 bits
(prime 2^20 - 3), agree with plain arithmetic on the operands near every carry.

**`devices`** (`MC_Devices`). `RadioSound`, `RingsInStep`, `DevicesKept`, `StorageAgrees`,
`RingsKeepFrames`, `InputAgrees`; as liveness `DevicesProgress`: every call of the radio driver
ends whatever the card does, and a device plugged in and left there is enumerated. Rings of two
or three entries wrap within the calls allowed. Keyboards and the USB network adapter have any IN
endpoint of {1, 2}, so they may share one. `FewPlugs` bounds the USB part: two devices, of which a
forced scan counts as one; one send or one wait that gives up; the first device has the smallest
endpoint in use (the driver only compares endpoints).

**`desktop`** (`MC_Desktop`). Four commands on up to three windows, two workspaces and two special
ones, with groups of keys, rules, pointer and dispatchers: `WindowListsAgree`,
`WorkspacesInStep`, `TilesDoNotOverlap`, `KeysReachTheShownTerminal`, `OnlyTheFocusedCloses`. Two
commands on the configuration files with a reboot, an edit by the user, or a file that does not open,
a write or a save that is refused from some point on; a disk that refuses from some point on and then
a boot is a power failure in the middle of the command: `ConfigurationSound` (applying a configuration twice changes nothing more, `settings sync`
and `keyword` survive a reload, `recover` makes what the audit asks for, policy and recorded
state agree). Include depth 2 and three files stand for the code's limits. The area is 240 by 160 with
a gap of 6: of two tiles both are drawn, of three in a column one is below the 64 lines that
`draw_desktop_client_tile` asks for (`compositor.c:4157`). `Tiles` is the scene, `Frame` what is
drawn of it: nothing under the splash, and only tiles with room. A key may go to a terminal that
the frame lacks for one of these two reasons only, and the property says so.

The bound of three windows is the least at which layouts, history and special workspaces differ; two
connections, packages or workspaces are the least at which something can be left over from the
other one.

Fairness. `guard_unattended`: weak fairness of what an unattended machine does (the kernel goes on, a
hung machine is restarted, the default entry boots): the code waits for nobody there, and the
restart is what the guard is documented for. `services`: a running upgrade goes on and a failed
one is given again by the user; the claim starts when the channel stops changing and answers
(`calm`). `devices`: the main loop comes back to the port scan, every wait loop is bounded by its
counter, and a controller that works answers what it was asked; the Wi-Fi card gets no fairness.
Operators, peers, networks and faults are never fair.

Deadlock is checked except in `boot_chain`, `services`, `devices`, `desktop` and those of the
violations that say so, whose behaviours end when a bound on calls is reached or nothing can be booted.

The runs that show where the code departs from what its documents say:

- **`persist_default_entry`**: every shipped Limine configuration passes `orizon.safe=1` in its
  default entry; the load is skipped and the boot tasks save the seed roots as the newest
  snapshot. `SpecDefaultEntry` has weak fairness only because the property is temporal.
- **`esp_fresh_conf`**: the boot guard replaces `limine.conf` in the boot after an update, when
  `install_fat` is all zero: the text is written over the root directory.
- **`guard_unattended`**: the main entry that boots by default (`src/updates/x86_64/limine.conf:19`)
  and the rollback entry (`update.c:159`) both say `orizon.safe=1`. Such a boot loads no roots, finds no
  guard record, arms nothing, and its boot tasks save the seed roots over the pending record: after an
  update to a kernel that hangs nothing leads back (`BadUpdateRecovers`), although
  `INSTALL.md:513-517` says that the next default boot selects the rollback.
- **`guard_commands`**: `rollback` and `repair-boot` take the rollback slot away and leave the
  record; `bootguard recover` then makes the missing kernel the default.
- **`inodes_restore`**: `delete_inode_index` goes on with an index after the recursive deletion of
  a child has moved inodes: `persist restore` on a running system can drop an inode of `/tmp`.

### Behaviours the passing runs exclude or allow

They were met while modelling; a reader of the passing runs must know of them.

Snapshot store, ESP, boot guard, inode table:

- `persist repair` in a session that never loaded: `vfs_persist_repair` (`vfs.c:1309`) sets
  `persist_ready` before it saves, so the snapshot gets sequence 1 in slot 0 and the next load may
  select the older one. `NextPrepared` has repair only in sessions with metadata; `Next`, which the
  part *worn* and `PersistProofs` use, has it always. A partition with room for one slot only loses its snapshot in a cut-short save
  (`vfs.c:240`); the properties are about two.
- The guard arms a fallback only in a boot that loads the roots, so one that is chosen at the menu
  without `orizon.safe=1`; `RecordAgrees` and `FallbackHeld` are about every boot, loaded or safe. If power fails after the
  ESP has the new kernel and before the record is written (`update.c:2246`), that kernel runs without a trial.
- The same `limine.conf` replacement on a shared ESP overwrites the root directory of the other
  system (`Layouts = {"dual"}` under `Spec` violates `ForeignWhole`), and the text still names
  `boot():/boot/kernel.elf` (`install.c:2720`).
- A side-by-side installation that was cut short and is run again can pass its check with chains
  that overlap, because the table goes to the disk last (`install.c:1983`). `CheckedIsWhole` is
  stated for histories without interruption. `fat_write_file_data` advances by
  `INSTALL_CLUSTER_BYTES` per cluster (`install.c:501`); with smaller clusters
  (`UnitsPerCluster < Stride`) `CheckedIsWhole` fails.
- `create_inode` asks that the parent path exists, not that it is a directory (`vfs.c:651`): a path
  created below a regular file keeps a dangling parent index once the file is deleted.
  `InDirectory` restricts the callers to paths below directories: without it `ParentIsParent` is
  false of the code, and what else a dangling index does is not modelled.

Network, SSH, packages, arithmetic:

- SYN_RCVD is left only by a segment of the same peer (`netstack.c:1426`): no timer repeats the
  SYN+ACK and the watchdog looks at established connections only, so no liveness property of the
  listener holds. Lost server segments are never sent again.
- Pipelined channel requests collapse into one reply; shell input in flight after `exit` makes
  DATA follow CLOSE; the client's window is not honoured; a rekey is not answered. The clients of the model
  wait for their replies. The working directory of a shell can be removed under it.
- The DNS server of another DHCP server's late OFFER survives if the ACK names none; a NAK is
  ignored until the deadline; a handshake message split over two records is refused; HTTP status
  is not looked at (the hash catches an error page). A FIN with no byte before it is an empty answer and
  no error (`netstack.c:1666-1674`); an HTTP call then fails on the missing header.
- With q > p CRT signing may refuse; the keys the code generates carry d and do not take that way.
- Packages: the boot replay overwrites edits of the user; an upgrade leaves files only the old
  version had; removal does not ask for dependants; a file of two packages goes with either; a
  failed install leaves what its post-install lines wrote; a failed save is noticed by `sync` only. A first
  install that a power failure cuts off between store and metadata leaves a package the audit reports
  (`torn`). A rollback of another version then reads the stored manifest into the buffer its own
  was parsed in, or an empty one if a write was refused: what it stores is not what it verified, and it
  deletes the snapshot, so the package is lost. Such names, and those whose undoing
  was refused or cut off too, are in the history field `hurt`, for which nothing is promised until the name
  is installed or removed completely again.
- Upgrades: an interrupted upgrade leaves the packages before the failing one at the new version;
  `UpgradeConverges` says that the next one finishes the job. The package index is fetched from the
  commit the manifest names and cannot be of another version unless its cache is spoilt.

Devices:

- Wi-Fi: `wifi_find_firmware` (reset at `wifi.c:2682`) is called first by `wifi_scan` and
  `wifi_connect` and clears the flags they then require, so arming a scan, connecting and joining
  fail, although `src/docs/orizon/LAPTOP_HARDWARE.md:93` describes the join (`RadioSound` holds because
  nothing is called armed then; no run states the failing join). Firmware with more sections than the
  context's DRAM maps take (`wifi.c:3666`) ends the preparation. The device is never told the
  context and ring addresses; any packet counts as an answer; receive buffers are not given back.
- xHCI: a late completion is taken by the next wait (`usb_xhci.c:618`), so `AnswersAreOwn` is stated for waits
  that did not give up; keyboard reports that an enumeration's wait
  pops are dropped; a second HID interface overwrites `intr_ep`; transfer events are told apart by the
  endpoint and not by the slot (`usb_xhci.c:633-649`, 1874, 1888), so a key report of a keyboard on
  EP1 IN clears `usbnet_rx_pending` of an adapter whose bulk IN is EP1 too, while the controller owns
  that TRB: the model takes these steps, and `RxBufferHasOneOwner` is stated for a keyboard on another
  endpoint (`EndpointShared`) and one set-up of the adapter. `LoneKeyboardListens` binds only while the keyboard is
  the only device ever plugged in; a fast replug between two scans is
  not enumerated; the ring of ep0 has no link entry. A command ring of two entries would break
  `RingsInStep`; the code's has far more.
- Storage: after one NVMe timeout the mismatching completion is never consumed, so every later
  command fails (safe, not live); a task-file error halts an AHCI port for good; several virtio
  disks share one request header. There is no check of the LBA against the disk. A command for a 4 KiB
  block points at `nvme_lba_scratch`: executed after its poll gave up, it moves whatever a later call has
  put there (`Held`). A 512-byte command points at the caller's buffer, which is taken to stay as it was.
  `Undisturbed` leaves out AHCI and virtio commands issued over an unfinished one, and `QueueInStep` is
  about calls whose polls did not give up.
- Ethernet: with all eight e1000 descriptors handed over, the tail equals the head, which the
  controller takes for an empty ring (`net.c:1537-1562`): the model stalls there. No frame is lost or repeated; that it
  goes out some day is not claimed.
- Input: touchpad reports without motion are ignored, clicks included; both Ctrl keys share one
  flag, as do both Shift keys; a lost identify answer leaves three-byte packets. `hid_protocol` is one
  variable for all devices: once a mouse is enumerated after the keyboard, the keyboard's reports are
  taken for the mouse's (`usb.c:692-701`) and its keys are lost; `UsbKeysOnce` promises order and
  completeness until then.

Desktop:

- A stale focus at a frame with a pinned fullscreen window, two ordinary ones and a hidden special
  one draws one frame of overlapping tiles: `rendered_count` (`compositor.c:4258`) is taken before
  the focus is settled (4260). `TilesDoNotOverlap` is stated for a settled focus. Pointer focus
  counts all windows of a workspace where drawing counts the rendered ones. The key `t` opens a
  terminal also while one is focused.
- `desktop settings set` writes only the settings file, and the reload at boot takes the values of
  the user's Hyprland file again: a setting not exported or synced is gone after the next boot.
  `start`, `restart`, `enable` and, while enabled, `recover` replace the user's file by the built-in one.
  Every file that is written is saved with its close, whatever the command.
- The built-in user file (4460 bytes) and the exported one are longer than the 4096-byte buffer of apply:
  the last lines (the launch submap, dwindle and master hints) are never applied. `UserRoom` is
  smaller than the text for that reason.
- `recover` does not repair a policy or local file that exists and is empty, so the audit goes on
  recommending it (`start`, `stop` or `reset` do). `keyword` does not report a refused write of the
  user's file. A refusal, once it has begun, lasts until the command ends.

## 4. What is proved

The theorems hold for every value of the constants that the named assumption of their module
allows; the few further hypotheses are definitions, named in the theorem and explained below. The
theorems of a component are about the same specification its run checks. TLC checked each inductive
invariant on the small instance before it was proved. The proof that an action keeps it is a lemma
of its own; the last lemma before a theorem collects them over the next-state relation.

**`PersistProofs`.** `Spec => []IInv` with `IInv == TypeOK /\ (power = "off" => write = NoWrite) /\ (Slots = 2 => ActiveSlotValid /\ WriteInFlight)`.
`ActiveSlotValid` alone is not inductive: a step of `persist_storage_write` could hit the active
slot, or finish a slot whose contents are not the snapshot being saved. `WriteInFlight` closes
both gaps: the write is aimed at another slot, has put down its header first and then a prefix of
the snapshot, so that when `SaveDone` makes the slot active it holds exactly what was saved.
`TargetSlotSpares` is the arithmetic behind it; `NewestExists` shows that
`persist_snapshot_is_newer` orders a non-empty set of at most two slots; `SaveKeeps` is proved once
for `vfs_persist_save` and used by the eight operations that end in a save. `TypeCorrect` needs no
assumption on the slots; `ActiveSlotIsValid`, `WritesAreInPlace` and `ActiveSlotIsUntouched`
assume two, the number the installer creates: with one they are false.

**`MemoryProofs`.** `Inv == TypeOK /\ Tiled /\ Joined /\ LiveHeld` is inductive as a conjunction and in
no smaller part: coalescing is right only because free neighbours were joined before, and the list
only because sizes and links agree. `AbsorbWellFormed` and `SplitWellFormed` say what the two header
manipulations do to a well-formed list; `AllocatedHolds` and `ReleasedHolds` lift them to `kmalloc` and
`kfree`, which krealloc composes. With `HeapTiled` and `HeapLiveHeld` no two live allocations
overlap, for every heap size and every sequence of requests.
`InodesStaySound`: for any number of inodes and buffers and any set of paths closed under parents, no path is in the table
twice, every parent index is the inode of the parent path, and no buffer belongs to two inodes.
`InodeInv` is the conjunction of types, `Linked` and `Held`. Removal moves inodes down and a rename moves a
subtree: `MovesInjective`, `InsideParent` and `MovesParent` say that the new paths stay distinct and
parents stay parents; `AncestorsExist`, that every ancestor of an inode is in the table, is an
induction on the length of the path, in the form of `NatSet` (below).

**`DurableProofs`.** `LoadsAreRecoverable`: what `vfs_persist_load` finds is the last acknowledged snapshot or
a later one. `StoreImplementsDurableRoots`: the slot store implements `DurableRoots`, each step being an
abstract step or invisible. Both are about the part *prepared*, where the metadata is read before a save,
under `DurableStore == Slots = 2 /\ ReadErrors = FALSE /\ MaxSeq < SeqMod - 1`: two slots as the
installer makes them, no header that cannot be read, and a counter that has not wrapped. With
read errors or a wrap the newest snapshot may be passed over, as said in section 3. `DurInv` adds to `IInv` that no
sequence number is beyond the saves begun (`SequencesCounted`), that the session knows which slot a
load would take (`MetaKnown`), and that the slot being written is newer than the other and carries
something submitted (`WriteIsNewer`): a write that a crash cuts off leaves the other slot the newest.

**`BootProofs`.** `GuardRecordAgrees`: record, default entry and kernels agree across crashes, device errors
and choices at the menu; the invariant `GuardInv` says of a call that is half done what its remaining
steps will write (`CallSound`), since `RecordAgrees` says nothing between two of its writes.
`FallbackStaysHeld`: for any kernels, cuts, refused writes, commands and choices at the menu, an armed
fallback is lifted only for a kernel that has reached the shell or by an update. `HeldInv` adds to
`GuardInv` that a fallback towards a main kernel that has not proved itself is armed only while the
record awaits that kernel (`Trusted`), and that every call into `install.c` keeps this whatever it leaves
(`CallHeld`).

**`ServiceProofs`.** `ConfigurationIsGranted` (`NetConfig`): addresses, next hops and names come from replies that
grant them, for any number of attempts and queries. `CallersGetTheirStream` (`TcpClient`): for any
length, buffer and number of connections a caller gets a prefix of the answer to its own request;
`TcpInv` says for each stage of a call what was heard at its port and how far the buffer is filled.
`UpgradesTakeOneVersion` (`UpdateDownload`): for any number of versions an upgrade takes the files of
one, and a failed one fails at most one more for each cached file once the channel is calm, with the disk
following every write and the index cached; `DlInv` relates what was taken to the manifest that was
read and says what of a cache, in memory and on the disk, can still be of another version.

**`PackageProofs`.** `InstalledStaysWhole` and `RemovedCanComeBack`: between calls the database agrees with itself
and with the files, the record with what happened, and at every step, on the disk too, a manifest of
each installed package is somewhere. The disk is the tree after some earlier step, not one between calls, so the
invariant has a part for any tree that was ever saved (`TreeSound`, asked of `pkMem` and `pkDisk`
alike: only the package of a running record may disagree) and a part for the call in progress:
what it would put back is what was there (`PutsBack`), what it has done to the database
(`HasDone`), the files written and to be written (`Writes`), the record (`RecordRuns`), and that every
other package is whole and agrees (`MemSound`). What power failure, load and replay make of a saved
tree follows from `TreeSound` alone. `PackagesAssumption` says that a payload is a sequence of entries.

**`SshProofs`.** `IdentityOutlives`: host key and policy are those of the next boot unless a write was refused.
`CommandsKeepThePolicy`: no remote file command makes or removes what the policy forbids; it is the
part `PolicyKept` of the checked `ShellKeepsPolicy`, the other part is about what a fold computes.
`IdentityAssumption` now says that the policy `ssh.c` starts with is within the limits and that a
policy is told from a missing or empty file.
`SshReadable`, `SshFresh` and `SshAnswers` are the three invariants of `SshServer`, for any peers, packet numbers,
window, segment and buffer sizes, polls and limits. None of them is inductive. Their invariant
`Sound` (`SshHolds`) relates the server, the wire and the client: `Attached`, the connection, its
negotiation and the client agree on who is talking; `Fresh`, nothing of an earlier session is left while nothing has been
exchanged; `SessionInv`, what any established session has, whoever is at the other end: keys arrive in the order of the protocol (`KeysInOrder`),
sequence numbers and cipher counters count what was sent and processed (`CountersAgree`), and the bytes held
follow what was processed (`HeldInOrder`); and `ClientKnows`, for the client that is talking: its packets are in an order it may write, every
answer was asked for and each channel ends once. From these the wire is decodable: the server has processed a prefix of the client's
packets, so what was asked for, and under which keys, can be read off the position. One lemma per
packet kind says what ssh_process_client_payload does (`HandledSsh`), one per loop that all its rounds keep what one round
keeps (`BinaryRoundsKeep`, `EncryptedRoundsKeep`: an induction on the rounds by `NatMin`, that a set of numbers has a least member),
and `WaitingSound`, `StagedCloseKeeps` and `SoundRefreshes` take the poll, its staged close and the refresh.

**`DeviceProofs`.** `RadioKnowsItsCard` (`WifiRadio`): for any ring size and number of sections an armed context stands on all
it was built from and the ring holds what was delivered and not read. `RingsStayInStep` and
`DevicesStayKept` (`Xhci`): for any number of ports, plugged devices, frames and ring entries.
`XhciInv` describes the two states of the ring, controller in the same lap or one behind
(`Same`, `Behind`), with the cycle bit and command number of every entry, and counts what is out
(`CommandsOut`): completions in the queue and commands not executed are at most one for the wait that runs and one for each
that gave up. From that follow both that the producer never overruns the controller and that the
answer taken is the wait's own while none gave up. `FirstDevice` and `SlotStands` say why a keyboard
that is alone is not disturbed. One hypothesis: `RoomInRing`, the waits that give up and one more
are fewer than the commands the ring holds (255; `xhci_cmd_enqueue` does not look for room). Endpoints are any,
shared ones included: the invariant's part about the adapter's buffer (`BufferStands`) ends with the sharing, as the property
does, the others go on.
`EthernetKeepsFrames` (`NetRings`): for any number of descriptors, any byte ring and any lengths, the frames
go through both rings once and in order. `RingsInv` states for each controller who owns what: the e1000 has
filled the descriptors from the next one to its head (`DescriptorsHold`), each virtio buffer is in one of two lists
(`ListsHold`), the RTL8139 packets lie end to start from the driver's offset to the controller's (`BytesHold`);
`PacketWraps` is the arithmetic of the wrap, which driver and controller compute differently.
`DisksStayTrue` (`Storage`): for any depth of the NVMe queue, any disk size and block scale, `StorageAgrees` holds
as long as every command was answered before its poll gave up. `StorageInv` has at most one command out
(`NvmeIssued`, `NvmeDone`), the phase bit of every completion entry in terms of the controller's position
(`PhasesHold`), what the scratch block holds between the read and the write of a 4 KiB block (`NvmeHolds`), the one
busy port (`AhciHolds`) and the one request header (`VirtioHolds`). What a call finds after a poll that gave up
is left to TLC: with identifiers that come round in a few commands and with a queue shorter than the
commands left behind it is false, and the code's 65535 identifiers make it true only through the
completion that is never consumed, a fact about sequences of calls.

**What the proofs changed.** Two definitions, `ContextRing` of `WifiRadio` and `SubmapKey` of `Desktop`, were a CASE
whose guards overlap: TLC takes the first that holds, the logic leaves it open. They are written
with IF now, in the order of the code. No value TLC computed changed. `InodeTable` now says that a path is a
sequence of names and that the set of paths has the parent of each. The loops of
`SshServer` that take the packets held one by one were a fold and are recursive functions of the round,
and the RTL8139 packet that was read leaves its list by position and not by a filter (`PacketsWithout` of `NetRings`):
folds and filters are choices the provers cannot compute with. The runs see the same states.

**Only model-checked.** Liveness, which the prover does not reach
(`UpgradeConverges`, `CallsEnd`, `PortsAreTried`); what folds and recursive functions compute
(`RsaArith`, `FieldArith`, `DesktopConfig`, `InodeRestore`, the TLS passes, `CwdIsNormal`,
the queues that `InputDevices` filters): the library's induction theorems take an operator no
installed prover can instantiate. `NatSet` of `MemoryProofs`, a set of numbers with 0 and with the successor
of each member is all of them, replaces them where the induction is over a state; a fold is defined through a
choice from its domain and stays out of reach. And so far `EspFilesWhole`,
`StorageAgrees` after a poll that gave up, and the window lists, workspaces and tiles of `Desktop`.

## 5. What is left

Next proofs, in this order: `WorkspacesInStep` of `Desktop`; `EspFilesWhole`. Next models: `usb_ehci.c`, GPT partitioning, the
option queries of `hyprctl`.

**Not modelled.** Association, WPA and CCMP of `wifi.c`, which the reset above makes unreachable;
AES, SHA and the byte layout of packets and certificates (tested against vectors); drawing, fonts
and the text and JSON of reports; the terminal's editing; the kernel log and process accounting,
on which nothing depends; register bring-up and table parsing without protocol state; the
vendored Limine sources.
