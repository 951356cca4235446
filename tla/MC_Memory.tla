----------------------------- MODULE MC_Memory -----------------------------
(***************************************************************************)
(* The kernel's memory, one part in each behaviour: the heap, the calls    *)
(* of the file system on a table with five inodes and two buffers, and the *)
(* restore at boot on the tree of vfs_seed_content.                        *)
(***************************************************************************)
EXTENDS Heap, MC_InodeRestore

VARIABLE part

memoryVars == <<part, vars, rvars>>

SmallPaths == {<<>>, <<"a">>, <<"b">>, <<"c">>, <<"a", "a">>, <<"a", "b">>, <<"b", "a">>,
               <<"a", "b", "a">>}

MemoryPaths == MCPaths \cup SmallPaths

Small == INSTANCE InodeTable WITH Paths <- SmallPaths, MaxFiles <- 5, BufferIds <- {1, 2}

MemoryInit ==
  /\ part \in {"heap", "calls", "boot"}
  /\ Init
  /\ \/ part # "calls" /\ InitRestore
     \/ part = "calls" /\ Small!InodeInit
        /\ saved = <<>> /\ mode = "up" /\ calls = 0 /\ restores = FALSE

MemoryNext ==
  \/ part = "heap" /\ Next /\ UNCHANGED <<part, rvars>>
  \/ part = "calls" /\ Small!InodeNext /\ UNCHANGED <<part, vars, saved, mode, calls, restores>>
  \/ part = "boot" /\ NextBoot /\ UNCHANGED <<part, vars>>

MemorySpec == MemoryInit /\ [][MemoryNext]_memoryVars
=============================================================================
