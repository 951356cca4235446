------------------------------- MODULE MC_Ssh -------------------------------
(***************************************************************************)
(* The three modules of the SSH server, one of them in each behaviour: the *)
(* sessions, the files behind them, and the file commands of the shell.    *)
(***************************************************************************)
EXTENDS SshServer, SshIdentity, SshShell

VARIABLE part

mcVars == <<part, sshVars, identityVars, shellVars>>

\* The tree of the shell: a write root w with its internal directory i, and
\* a directory x that is not to be written.
Roots == {<<"w">>}
InternalDir == <<"w", "i">>
Home == <<"w">>
Tree == {<<>>, <<"w">>, <<"w", "i">>, <<"x">>}

MCInit == /\ part \in {"sessions", "identity", "shell"}
          /\ SshInit /\ IdentityInit /\ ShellInit

MCNext ==
  \/ part = "sessions" /\ SshNext /\ UNCHANGED <<part, identityVars, shellVars>>
  \/ part = "identity" /\ IdentityNext /\ UNCHANGED <<part, sshVars, shellVars>>
  \/ part = "shell" /\ ShellNext /\ UNCHANGED <<part, sshVars, identityVars>>

MCSpec == MCInit /\ [][MCNext]_mcVars
=============================================================================
