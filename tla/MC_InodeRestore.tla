--------------------------- MODULE MC_InodeRestore ---------------------------
(* The tree vfs_seed_content makes, and a few paths for the user. *)
EXTENDS InodeRestore

MCSeedTree == <<
  [path |-> <<"workspace">>, type |-> "dir"],
  [path |-> <<"system">>, type |-> "dir"],
  [path |-> <<"system", "share">>, type |-> "dir"],
  [path |-> <<"system", "firmware">>, type |-> "dir"],
  [path |-> <<"home">>, type |-> "dir"],
  [path |-> <<"home", "orizon">>, type |-> "dir"],
  [path |-> <<"packages">>, type |-> "dir"],
  [path |-> <<"logs">>, type |-> "dir"],
  [path |-> <<"tmp">>, type |-> "dir"],
  [path |-> <<"workspace", "README.txt">>, type |-> "file"],
  [path |-> <<"workspace", "ROADMAP.txt">>, type |-> "file"],
  [path |-> <<"system", "hostname">>, type |-> "file"],
  [path |-> <<"system", "version">>, type |-> "file"],
  [path |-> <<"system", "profile">>, type |-> "file"],
  [path |-> <<"system", "data-layout">>, type |-> "file"],
  [path |-> <<"system", "network.conf">>, type |-> "file"],
  [path |-> <<"home", "orizon", "README.txt">>, type |-> "file"],
  [path |-> <<"packages", "README.txt">>, type |-> "file"],
  [path |-> <<"logs", "README.txt">>, type |-> "file"]>>

MCUserPaths == {<<"workspace", "README.txt">>, <<"workspace", "ROADMAP.txt">>,
                <<"workspace", "a">>, <<"workspace", "a", "b">>, <<"tmp", "x">>}

MCFewUserPaths == MCUserPaths \ {<<"workspace", "README.txt">>}

MCPaths == {<<>>} \cup {MCSeedTree[i].path : i \in 1..Len(MCSeedTree)} \cup MCUserPaths

MCRoots == <<<<"workspace">>, <<"home">>, <<"system">>, <<"packages">>, <<"logs">>>>

MCDefaults == {MCSeedTree[i].path : i \in 12..Len(MCSeedTree)}
=============================================================================
