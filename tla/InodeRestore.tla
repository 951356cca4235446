---------------------------- MODULE InodeRestore ----------------------------
(***************************************************************************)
(* How a snapshot gets back into the inode table: kernel/fs/vfs.c empties  *)
(* the persistent roots, recreates the entries of the snapshot and then    *)
(* the default files.  It happens once at boot, on the tree that           *)
(* vfs_seed_content made, and again whenever `persist restore` is given.   *)
(***************************************************************************)
EXTENDS InodeTable

CONSTANTS Roots,      \* persistent root directories, in the order cleared
          SeedTree,   \* directories and files of vfs_seed_content, in order
          Defaults,   \* files of persist_write_default_data_files
          UserPaths,  \* what the user creates, deletes and renames
          MaxCalls    \* bound: calls of the user

ASSUME InodeRestoreAssumption ==
  /\ \A i \in 1..Len(Roots) : Roots[i] \in Paths
  /\ \A i \in 1..Len(SeedTree) : SeedTree[i].path \in Paths
  /\ Defaults \subseteq {SeedTree[i].path : i \in 1..Len(SeedTree)}
  /\ UserPaths \subseteq Paths
  /\ MaxCalls \in Nat

VARIABLES saved,     \* entries of the snapshot that a restore would read
          mode,      \* "seeded" until the load at boot, then "up"
          calls,     \* calls of the user so far
          restores   \* history: flips with every restore

rvars == <<table, heap, saved, mode, calls, restores>>

\* path_should_persist; the roots themselves are not entries
IsEntry(p) == \E i \in 1..Len(Roots) : Inside(p, Roots[i]) /\ p # Roots[i]

Entry(n) == [path |-> n.path, type |-> n.type, empty |-> n.data = Null]

\* The inodes of a type that are saved, in index order.
EntriesOf(t, type) ==
  LET take[k \in 0..t.count] ==
        IF k = 0 THEN <<>>
        ELSE LET n == t.node[k-1]
             IN  IF n.type = type /\ IsEntry(n.path) THEN Append(take[k-1], Entry(n))
                 ELSE take[k-1]
  IN  take[t.count]

\* vfs_persist_save: directories first, so that a load finds the parents.
Snapshot(t) == EntriesOf(t, "dir") \o EntriesOf(t, "file")

-----------------------------------------------------------------------------
(* clear_directory_contents.  s is [table, heap]. *)

FindChild(t, idx) ==
  LET S == {i \in Indices(t) : t.node[i].parent = idx}
  IN  IF S = {} THEN NoNode ELSE Least(S)

\* What delete_inode_index does last: free the buffer and move the last inode,
\* without looking at the index again.
Dropped(s, idx) ==
  [table |-> Removed(s.table, idx), heap |-> s.heap \ {s.table.node[idx].data}]

RECURSIVE DeleteIndex(_, _), DeleteChildren(_, _)

DeleteChildren(s, idx) ==
  LET c == FindChild(s.table, idx)
  IN  IF c = NoNode THEN s ELSE DeleteChildren(DeleteIndex(s, c), idx)

DeleteIndex(s, idx) ==
  IF idx \notin 1..s.table.count-1 THEN s ELSE Dropped(DeleteChildren(s, idx), idx)

\* Mutant: entries are applied on top of what the roots hold.
ClearNothing(s, root) == s

RECURSIVE Cleared(_, _)
Cleared(s, root) ==
  LET r == Find(s.table, root)
      c == IF r = NoNode THEN NoNode ELSE FindChild(s.table, r)
  IN  IF c = NoNode THEN s ELSE Cleared(DeleteIndex(s, c), root)

RECURSIVE ClearedRoots(_, _)
ClearedRoots(s, k) ==
  IF k = 0 THEN s ELSE Cleared(ClearedRoots(s, k-1), Roots[k])

-----------------------------------------------------------------------------
(* persist_apply_snapshot_entries *)

\* ensure_parent_dirs
RECURSIVE ParentDirs(_, _)
ParentDirs(t, p) ==
  IF p = <<>> THEN t
  ELSE LET q == ParentPath(p)
       IN  IF Exists(t, q) THEN t ELSE Ensured(ParentDirs(t, q), q, "dir")

\* vfs_open with O_CREAT and O_TRUNC, vfs_write, vfs_close
Filled(s, p, empty) ==
  LET t == Ensured(s.table, p, "file")
      i == Find(t, p)
  IN  IF i = NoNode THEN s
      ELSE IF t.node[i].type = "dir" THEN [s EXCEPT !.table = t]
      ELSE LET h == s.heap \ {t.node[i].data}
               b == IF empty \/ h = BufferIds THEN Null ELSE LowestFree(h)
           IN  [table |-> [t EXCEPT !.node[i].data = b], heap |-> (h \cup {b}) \ {Null}]

Applied(s, e) ==
  LET t == ParentDirs(s.table, e.path)
  IN  IF e.type = "dir" THEN [s EXCEPT !.table = Ensured(t, e.path, "dir")]
      ELSE Filled([s EXCEPT !.table = t], e.path, e.empty)

RECURSIVE AppliedAll(_, _)
AppliedAll(s, entries) ==
  IF entries = <<>> THEN s ELSE AppliedAll(Applied(s, Head(entries)), Tail(entries))

\* vfs_ensure_data_roots, then the default files that are missing
RECURSIVE WithDefaults(_, _)
WithDefaults(s, k) ==
  IF k = 0 THEN s
  ELSE LET r == WithDefaults(s, k-1)
           p == SeedTree[k].path
       IN  IF SeedTree[k].type = "dir" THEN [r EXCEPT !.table = Ensured(r.table, p, "dir")]
           ELSE IF p \in Defaults /\ ~Exists(r.table, p) THEN Filled(r, p, FALSE)
           ELSE r

Restored(s, entries) ==
  LET c == ClearedRoots(s, Len(Roots))
  IN  WithDefaults(AppliedAll([c EXCEPT !.table = Trimmed(@)], entries), Len(SeedTree))

-----------------------------------------------------------------------------
RECURSIVE Seeded(_)
Seeded(k) ==
  IF k = 0
  THEN [table |-> Created([count |-> 0, node |-> <<>>], <<>>, "dir"), heap |-> {}]
  ELSE LET e == SeedTree[k] IN Applied(Seeded(k-1), [path |-> e.path, type |-> e.type, empty |-> FALSE])

Seed == Seeded(Len(SeedTree))

InitRestore ==
  /\ table = Seed.table /\ heap = Seed.heap
  /\ saved = Snapshot(Seed.table)
  /\ mode = "seeded"
  /\ calls = 0
  /\ restores = FALSE

\* A restore leaves the snapshot it read promoted, or fails to.
Restore ==
  LET s == Restored([table |-> table, heap |-> heap], saved)
  IN  /\ table' = s.table
      /\ heap' = s.heap
      /\ restores' = ~restores

Load ==
  /\ mode = "seeded"
  /\ mode' = "up"
  /\ Restore
  /\ UNCHANGED <<saved, calls>>

PersistRestore ==
  /\ mode = "up"
  /\ Restore
  /\ saved' \in {saved, Snapshot(table')}
  /\ UNCHANGED <<mode, calls>>

\* A call of InodeTable on a path of the user, and the save that follows it;
\* the save may fail.
UserCall ==
  /\ mode = "up"
  /\ calls < MaxCalls
  /\ calls' = calls + 1
  /\ \E p \in UserPaths :
       \/ p \in InDirectory /\ (Create(p, "dir") \/ Create(p, "file"))
       \/ p \in InDirectory /\ \E trunc \in BOOLEAN : WriteFile(p, trunc)
       \/ Delete(p)
       \/ \E q \in UserPaths : Rename(p, q)
  /\ saved' \in {saved, Snapshot(table')}
  /\ UNCHANGED <<mode, restores>>

\* Power is cut: the next boot starts from the seed tree.
Reboot ==
  /\ mode' = "seeded"
  /\ table' = Seed.table /\ heap' = Seed.heap
  /\ UNCHANGED <<saved, calls, restores>>

NextBoot    == Load \/ UserCall \/ Reboot
NextRestore == NextBoot \/ PersistRestore

SpecBoot    == InitRestore /\ [][NextBoot]_rvars
SpecRestore == InitRestore /\ [][NextRestore]_rvars

-----------------------------------------------------------------------------
(* Properties *)

Holds(t) == {[path |-> t.node[i].path, type |-> t.node[i].type] : i \in Indices(t)}
Wanted   == {[path |-> saved[i].path, type |-> saved[i].type] : i \in 1..Len(saved)}

IsDefault(p) == \/ p \in Defaults
                \/ \E i \in 1..Len(SeedTree) : SeedTree[i].path = p /\ SeedTree[i].type = "dir"

\* A restore makes the persistent roots hold what the snapshot holds and the
\* defaults, nothing else, and leaves everything outside them as it was.
RestoreIsExact ==
  [][restores' # restores =>
       /\ \A e \in Holds(table') :
            IsEntry(e.path) => e \in Wanted \/ IsDefault(e.path)
       /\ Wanted \subseteq Holds(table')
       /\ \A e \in Holds(table) : ~IsEntry(e.path) => e \in Holds(table')]_rvars
=============================================================================
