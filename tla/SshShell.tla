------------------------------ MODULE SshShell ------------------------------
(***************************************************************************)
(* The file commands of the remote shell of system/ssh.c: how a path given *)
(* to a command is resolved against the working directory, which paths a   *)
(* command may change, and what it does to the files.                      *)
(*                                                                         *)
(* A path is the sequence of its components; a name stands for one         *)
(* character, so that the buffers of MAX_PATH bytes can be too small.      *)
(***************************************************************************)
EXTENDS Naturals, Sequences, SequencesExt, FiniteSets

CONSTANTS
  Names,       \* names of directories and files
  WriteRoots,  \* roots a remote command may write under
  Internal,    \* the directory below a write root that is kept back
  Sensitive,   \* names that make a path sensitive wherever they occur
  HomeDir,     \* the directory cd goes to without an argument
  Dirs0,       \* the directories there are at the start
  MaxArg,      \* components of an argument
  MaxPath,     \* MAX_PATH
  MaxEntries   \* MAX_INODES

ASSUME ShellAssumption ==
  /\ {MaxArg, MaxPath, MaxEntries} \subseteq Nat \ {0}
  /\ WriteRoots \subseteq Seq(Names) /\ Internal \in Seq(Names) /\ HomeDir \in Seq(Names)
  /\ Dirs0 \subseteq Seq(Names) /\ <<>> \in Dirs0 /\ HomeDir \in Dirs0 /\ Sensitive \subseteq Names
  /\ "." \notin Names /\ ".." \notin Names

VARIABLES cwd, dirs, docs      \* ssh_shell_cwd; directories; files

shellVars == <<cwd, dirs, docs>>

Components == Names \cup {".", ".."}

\* An argument: absolute or relative, as it was typed.
Arguments == [abs : BOOLEAN, parts : UNION {[1 .. n -> Components] : n \in 1 .. MaxArg}]

Size(c) == IF c = ".." THEN 2 ELSE 1

\* Characters of a path text: a slash before every component.
TextLen(parts) == FoldLeft(LAMBDA n, c : n + 1 + Size(c), 0, parts)

\* snprintf into raw: what does not fit is cut off, ".." possibly in two.
Cut(parts) ==
  LET fits(n) == TextLen(SubSeq(parts, 1, n)) < MaxPath
      n == CHOOSE k \in 0 .. Len(parts) : fits(k) /\ (k = Len(parts) \/ ~fits(k + 1))
      rest == IF n < Len(parts) /\ parts[n + 1] = ".." /\ TextLen(SubSeq(parts, 1, n)) + 2 < MaxPath
              THEN <<".">> ELSE <<>>
  IN  SubSeq(parts, 1, n) \o rest

\* ssh_shell_path_append, with ssh_shell_path_pop for "..".
PathAppend(path, c) ==
  CASE c = "." -> path
    [] c = ".." -> IF path = <<>> THEN path ELSE Front(path)
    [] OTHER -> Append(path, c)

\* ssh_shell_resolve_path.
Resolve(arg) ==
  FoldLeft(PathAppend, <<>>, Cut(IF arg.abs THEN arg.parts ELSE cwd \o arg.parts))

HasPrefix(path, prefix) == IsPrefix(prefix, path)

IsSensitive(path) == \E i \in DOMAIN path : path[i] \in Sensitive

\* Mutant: the check does not ask whose root it is.
WriteAllowedAnywhere(path) == ~IsSensitive(path) /\ ~HasPrefix(path, Internal)

WriteAllowed(path) ==
  /\ ~IsSensitive(path) /\ ~HasPrefix(path, Internal)
  /\ \E r \in WriteRoots : HasPrefix(path, r)

IsRemoteRoot(path) == path \in WriteRoots
-----------------------------------------------------------------------------
(* Commands; a refused one leaves everything as it was.                    *)

Children(path) == {p \in dirs \cup docs : p # <<>> /\ Front(p) = path}

CanHold(path) ==
  /\ path # <<>> /\ path \notin dirs \cup docs /\ Front(path) \in dirs
  /\ Cardinality(dirs \cup docs) < MaxEntries

Cd ==
  /\ \/ cwd' = HomeDir
     \/ \E arg \in Arguments : Resolve(arg) \in dirs /\ cwd' = Resolve(arg)
  /\ UNCHANGED <<dirs, docs>>

\* ssh_shell_mutate_path: touch and mkdir make one entry.
Touch ==
  \E arg \in Arguments :
    LET path == Resolve(arg)
    IN  /\ WriteAllowed(path) /\ CanHold(path)
        /\ \/ docs' = docs \cup {path} /\ UNCHANGED <<cwd, dirs>>
           \/ dirs' = dirs \cup {path} /\ UNCHANGED <<cwd, docs>>

\* rm removes a file or an empty directory, but none of the roots.
RemovePath ==
  \E arg \in Arguments :
    LET path == Resolve(arg)
    IN  /\ WriteAllowed(path) /\ ~IsRemoteRoot(path)
        /\ path \in dirs \cup docs /\ Children(path) = {}
        /\ dirs' = dirs \ {path} /\ docs' = docs \ {path} /\ UNCHANGED cwd

\* write and append create the file they write to.
WriteText ==
  \E arg \in Arguments :
    LET path == Resolve(arg)
    IN  /\ WriteAllowed(path) /\ path \notin dirs
        /\ path \in docs \/ CanHold(path)
        /\ docs' = docs \cup {path} /\ UNCHANGED <<cwd, dirs>>

\* The next connection starts in the home directory again.
NewShell == cwd' = HomeDir /\ UNCHANGED <<dirs, docs>>

ShellInit == cwd = HomeDir /\ dirs = Dirs0 /\ docs = {}

ShellNext == Cd \/ Touch \/ RemovePath \/ WriteText \/ NewShell

ShellSpec == ShellInit /\ [][ShellNext]_shellVars
-----------------------------------------------------------------------------
\* The working directory is a path without "." and ".." that fits its buffer,
\* however it was reached and even when a longer path was cut off.
CwdIsNormal == cwd \in Seq(Names) /\ TextLen(cwd) < MaxPath

\* Remote commands change nothing outside the write roots, nothing sensitive
\* and nothing below the internal directory, and keep the roots, whatever
\* way they are spelled: what they made is where the policy allows it.
PolicyKept ==
  /\ \A p \in (dirs \cup docs) \ Dirs0 :
       \E r \in WriteRoots : IsPrefix(r, p) /\ ~IsPrefix(Internal, p) /\ ~IsSensitive(p)
  /\ {p \in Dirs0 : p \in WriteRoots \/ \A r \in WriteRoots : ~IsPrefix(r, p)} \subseteq dirs

\* No command, however its path is spelled or cut off, gets round the policy
\* for remote writes.
ShellKeepsPolicy == CwdIsNormal /\ PolicyKept
=============================================================================
