----------------------------- MODULE InodeTable -----------------------------
(***************************************************************************)
(* The inode table of kernel/fs/vfs.c: an array of inodes that name their  *)
(* parent by index, kept dense by moving the last inode into the place of  *)
(* a deleted one.  A path is a sequence of names; a file's bytes are one   *)
(* heap block or none.  A caller opens, reads or writes, and closes a file *)
(* in one go, as every caller in the kernel does.                          *)
(***************************************************************************)
EXTENDS Integers, Sequences

CONSTANTS Paths,     \* paths used, with all their prefixes
          MaxFiles,  \* MAX_FILES
          BufferIds  \* heap blocks, numbered from 1

ASSUME InodeTableAssumption ==
  /\ <<>> \in Paths /\ Paths \subseteq Seq(STRING)
  /\ \A p \in Paths \ {<<>>} : SubSeq(p, 1, Len(p) - 1) \in Paths
  /\ MaxFiles \in Nat \ {0}
  /\ BufferIds \in SUBSET (Nat \ {0})

VARIABLES table,   \* inode_count and inodes[0 .. inode_count-1]
          heap     \* blocks allocated

inodeVars == <<table, heap>>

Null   == 0
NoNode == -1

Indices(t) == 0..t.count-1

\* get_parent_path, except of the root
ParentPath(p) == SubSeq(p, 1, Len(p) - 1)

\* path_is_inside
Inside(p, q) == Len(p) >= Len(q) /\ SubSeq(p, 1, Len(q)) = q

Least(S) == CHOOSE i \in S : \A j \in S : i <= j

\* find_inode
Find(t, p) ==
  LET S == {i \in Indices(t) : t.node[i].path = p}
  IN  IF S = {} THEN NoNode ELSE Least(S)

Exists(t, p) == Find(t, p) # NoNode

-----------------------------------------------------------------------------
(* create_inode *)

CanCreate(t, p) ==
  /\ t.count < MaxFiles
  /\ ~Exists(t, p)
  /\ p # <<>> => Exists(t, ParentPath(p))

Created(t, p, type) ==
  LET parent == IF p = <<>> THEN NoNode ELSE Find(t, ParentPath(p))
      new    == [path |-> p, type |-> type, parent |-> parent, data |-> Null]
  IN  [count |-> t.count + 1,
       node  |-> [i \in 0..t.count |-> IF i = t.count THEN new ELSE t.node[i]]]

\* create_inode returns an error, or the table with the new inode.
Ensured(t, p, type) == IF CanCreate(t, p) THEN Created(t, p, type) ELSE t

-----------------------------------------------------------------------------
(* Removing an inode: its place is taken by the last one. *)

\* Mutant: the children of the moved inode keep its old index.
MovedAlone(t, idx) == [t.node EXCEPT ![idx] = t.node[t.count-1]]

Moved(t, idx) ==
  LET last == t.count - 1
      n    == [t.node EXCEPT ![idx] = t.node[last]]
  IN  [i \in DOMAIN n |->
         IF i < last /\ n[i].parent = last THEN [n[i] EXCEPT !.parent = idx] ELSE n[i]]

Removed(t, idx) ==
  [count |-> t.count - 1,
   node  |-> IF idx < t.count - 1 THEN Moved(t, idx) ELSE t.node]

\* What lies beyond inode_count is not looked at again.
Trimmed(t) == [t EXCEPT !.node = [i \in Indices(t) |-> t.node[i]]]

-----------------------------------------------------------------------------
(* The calls *)

\* vfs_mkdir, vfs_create
Create(p, type) ==
  /\ CanCreate(table, p)
  /\ table' = Created(table, p, type)
  /\ UNCHANGED heap

\* kmalloc, as far as it matters here: some block that is not in use.
LowestFree(h) == Least(BufferIds \ h)

\* vfs_open with O_CREAT, with or without O_TRUNC; vfs_write; vfs_close.  The
\* write may fit the buffer there is, need a new one, or find no memory.
Open(p) == Ensured(table, p, "file")

WriteFile(p, trunc) ==
  LET t == Open(p)
      i == Find(t, p)
      old == t.node[i].data
      kept == IF trunc THEN Null ELSE old
      released == heap \ (IF trunc THEN {old} ELSE {})
  IN  /\ i # NoNode /\ t.node[i].type = "file"
      /\ \/ /\ kept # Null
            /\ table' = t
            /\ heap' = released
         \/ /\ released # BufferIds
            /\ table' = [t EXCEPT !.node[i].data = LowestFree(released)]
            /\ heap' = (released \ {kept}) \cup {LowestFree(released)}
         \/ /\ table' = [t EXCEPT !.node[i].data = kept]
            /\ heap' = released

\* vfs_delete asks this of a directory only.
Empty(t, idx) == \A i \in Indices(t) : t.node[i].parent # idx

Freed(b) == heap \ {b}

Delete(p) ==
  LET idx == Find(table, p)
  IN  /\ idx > 0
      /\ table.node[idx].type = "dir" => Empty(table, idx)
      /\ heap' = Freed(table.node[idx].data)
      /\ table' = Trimmed(Removed(table, idx))

\* vfs_rename: everything below a directory changes its path with it, unless a
\* path gets too long.
Rename(old, new) ==
  LET idx    == Find(table, old)
      parent == Find(table, ParentPath(new))
      isDir  == table.node[idx].type = "dir"
      Path(p) == IF isDir /\ Inside(p, old)
                 THEN new \o SubSeq(p, Len(old) + 1, Len(p)) ELSE p
  IN  /\ idx > 0
      /\ new # <<>> /\ ~Exists(table, new)
      /\ parent # NoNode /\ table.node[parent].type = "dir"
      /\ isDir => ~Inside(new, old)
      /\ \A i \in Indices(table) : Path(table.node[i].path) \in Paths
      /\ table' = [table EXCEPT !.node =
                     [i \in Indices(table) |->
                        IF i = idx THEN [table.node[i] EXCEPT !.path = new, !.parent = parent]
                        ELSE [table.node[i] EXCEPT !.path = Path(@)]]]
      /\ UNCHANGED heap

-----------------------------------------------------------------------------
\* vfs_init
InodeInit ==
  /\ table = Created([count |-> 0, node |-> <<>>], <<>>, "dir")
  /\ heap = {}

\* Callers put new files into directories.  create_inode itself asks only that
\* the parent path exists.
InDirectory ==
  {p \in Paths \ {<<>>} :
     \E i \in Indices(table) : table.node[i].path = ParentPath(p) /\ table.node[i].type = "dir"}

InodeNext ==
  \/ \E p \in InDirectory : Create(p, "dir") \/ Create(p, "file")
  \/ \E p \in InDirectory, trunc \in BOOLEAN : WriteFile(p, trunc)
  \/ \E p \in Paths : Delete(p)
  \/ \E p, q \in Paths : Rename(p, q)

InodeSpec == InodeInit /\ [][InodeNext]_inodeVars

-----------------------------------------------------------------------------
(* Properties *)

\* The table is dense, within MAX_FILES, and its inodes are well formed.
InodeTypeOK ==
  /\ table.count \in 1..MaxFiles
  /\ DOMAIN table.node = Indices(table)
  /\ \A i \in Indices(table) :
       table.node[i] \in [path : Paths, type : {"file", "dir"},
                          parent : -1..MaxFiles-1, data : BufferIds \cup {Null}]
  /\ heap \subseteq BufferIds

\* Every inode but the root names, by index, the inode of its parent path, and
\* no two inodes have the same path.  Moving inodes on deletion and renaming
\* whole directories keeps it so.
ParentIsParent ==
  /\ table.node[0].path = <<>>
  /\ \A i, j \in Indices(table) :
       i # j => table.node[i].path # table.node[j].path
  /\ \A i \in Indices(table) \ {0} :
       LET n == table.node[i]
       IN  /\ n.parent \in Indices(table)
           /\ table.node[n.parent].path = ParentPath(n.path)

\* The blocks allocated are exactly the buffers of the files in the table, each
\* of one file: none is leaked, none is freed while it is in use.
Buffers ==
  /\ heap = {table.node[i].data : i \in Indices(table)} \ {Null}
  /\ \A i, j \in Indices(table) :
       (i # j /\ table.node[i].data # Null) => table.node[i].data # table.node[j].data

\* What every call leaves behind, at the limit of the table and of the heap too.
TableSound == InodeTypeOK /\ ParentIsParent /\ Buffers
=============================================================================
