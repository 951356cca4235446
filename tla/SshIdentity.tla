---------------------------- MODULE SshIdentity ----------------------------
(***************************************************************************)
(* What the SSH server of system/ssh.c keeps in files: ssh.conf with the   *)
(* password and the lockout policy, and the host key.  Both live under     *)
(* /system, so every write is followed by a save of the roots, which may   *)
(* fail without anyone noticing.  A write can be refused after the file    *)
(* was truncated, which closing it then saves, and the machine can restart *)
(* at any time.                                                            *)
(***************************************************************************)
EXTENDS Naturals

CONSTANTS
  Passwords,      \* digests of the passwords the operator may set
  MaxAttemptsSet, \* values given to "ssh auth max"
  LockoutsSet,    \* values given to "ssh auth lockout"
  AttemptsLimit,  \* SSH_AUTH_MAX_ATTEMPTS_LIMIT
  LockoutLimit,   \* SSH_AUTH_LOCKOUT_SECONDS_LIMIT
  MaxKeys,        \* keys the generator makes in a behaviour
  None, Empty,    \* no file or no value; a file that was truncated
  MaxFaults       \* refused writes and failed saves in a behaviour

ASSUME IdentityAssumption ==
  \* The defaults are policies the limits allow.
  /\ AttemptsLimit \in Nat /\ AttemptsLimit >= 3 /\ LockoutLimit \in Nat /\ LockoutLimit >= 2
  /\ {MaxKeys, MaxFaults} \subseteq Nat
  /\ MaxAttemptsSet \cup LockoutsSet \subseteq Nat
  /\ None # Empty
  /\ [password : Passwords \cup {None}, max : 1 .. AttemptsLimit, lockout : 1 .. LockoutLimit]
       \cap {None, Empty} = {}

VARIABLES
  run,     \* what the running service uses
  files,   \* the two files, as this session sees them
  disk,    \* the two files in the newest snapshot
  made,    \* keys generated so far
  faults,  \* faults so far
  good     \* conf, key: the last write of it succeeded; save: the last save did

identityVars == <<run, files, disk, made, faults, good>>

Bootstrap == 0              \* the compiled-in host key

\* What a fresh kernel starts with: the defaults, and no key.
Run0 == [started |-> FALSE, password |-> None, max |-> 3, lockout |-> 2,
         key |-> None, persistent |-> FALSE, loaded |-> FALSE]

\* The text of ssh.conf: ssh_write_config says "unset" without a password.
ConfOf(r) == [password |-> r.password, max |-> r.max, lockout |-> r.lockout]

Clamp(v, limit, default) == IF v \in 1 .. limit THEN v ELSE default

\* Mutant: the policy in the file is not looked at.
LoadConfigPasswordOnly(r, f) ==
  IF f.conf \in {None, Empty} THEN r ELSE [r EXCEPT !.password = f.conf.password]

\* ssh_load_config; an empty file leaves the defaults and no password.
LoadConfig(r, f) ==
  IF f.conf = None THEN r
  ELSE IF f.conf = Empty
       THEN [r EXCEPT !.password = None, !.max = Run0.max, !.lockout = Run0.lockout]
       ELSE [r EXCEPT !.password = f.conf.password,
                      !.max = Clamp(f.conf.max, AttemptsLimit, Run0.max),
                      !.lockout = Clamp(f.conf.lockout, LockoutLimit, Run0.lockout)]

-----------------------------------------------------------------------------
(* Files: how a write went, and how the save that closing the file makes.  *)

Hows == [written : BOOLEAN, saved : BOOLEAN]

\* vfs_open with O_TRUNC, vfs_write and vfs_close; the newest snapshot was d
\* before, after n faults.
PutAfter(d, n, which, value, how) ==
  /\ faults' = n + (IF how.written THEN 0 ELSE 1) + (IF how.saved THEN 0 ELSE 1)
  /\ faults' <= MaxFaults
  /\ files' = [files EXCEPT ![which] = IF how.written THEN value ELSE Empty]
  /\ disk' = IF how.saved THEN files' ELSE d
  /\ good' = [good EXCEPT ![which] = how.written, !.save = how.saved]

Put(which, value, how) == PutAfter(disk, faults, which, value, how)

WriteConfig(how) == Put("conf", ConfOf(run'), how)

\* ssh_write_hostkey_file: only a written key is marked persistent.
WrittenKey(r, how) == [r EXCEPT !.persistent = how.written]

\* ssh_generate_install_hostkey and ssh_install_bootstrap_hostkey.
NewKey(r, key) == [r EXCEPT !.key = key, !.loaded = TRUE, !.persistent = FALSE]

Generates(key) ==
  \/ made < MaxKeys /\ key = made + 1 /\ made' = made + 1
  \/ key = Bootstrap /\ UNCHANGED made

\* ssh_load_hostkey_file succeeds.
KeyReadable == files.key \notin {None, Empty}
LoadedKey(r) == [r EXCEPT !.key = files.key, !.loaded = TRUE, !.persistent = TRUE]
-----------------------------------------------------------------------------
(* Operations.                                                             *)

\* ssh_ensure_config, on the way of ssh_start: a missing file is written.
StartWritesConfig ==
  /\ ~run.started /\ files.conf = None
  /\ run' = LoadConfig(run, files)
  /\ \E how \in Hows : WriteConfig(how)
  /\ UNCHANGED made

\* ssh_ensure_hostkey finds the key loaded or in its file.
StartWithKey ==
  /\ ~run.started /\ files.conf # None
  /\ run.loaded \/ KeyReadable
  /\ run' = [LoadConfig(IF run.loaded THEN run ELSE LoadedKey(run), files)
               EXCEPT !.started = TRUE]
  /\ UNCHANGED <<files, disk, made, faults, good>>

\* There is no readable key: one is generated and written.  If that write is
\* refused, the compiled-in key is; the truncated file may have been saved.
StartMakesKey ==
  /\ ~run.started /\ files.conf # None /\ ~run.loaded /\ ~KeyReadable
  /\ \E key \in 0 .. MaxKeys, how \in Hows, cut \in BOOLEAN :
       /\ Generates(key)
       /\ key # Bootstrap => how.written /\ ~cut
       /\ PutAfter(IF cut THEN [files EXCEPT !.key = Empty] ELSE disk,
                   IF cut THEN faults + 1 ELSE faults, "key", key, how)
       /\ run' = [WrittenKey(NewKey(LoadConfig(run, files), key), how)
                    EXCEPT !.started = TRUE]

SetPasswordFile ==
  \E p \in Passwords, how \in Hows :
    /\ run.started
    /\ run' = [run EXCEPT !.password = p]
    /\ WriteConfig(how) /\ UNCHANGED made

DisablePasswordFile ==
  \E how \in Hows :
    /\ run.started /\ run.password # None
    /\ run' = [run EXCEPT !.password = None]
    /\ WriteConfig(how) /\ UNCHANGED made

\* Values out of range are refused before anything changes.
SetAuthPolicy ==
  \E m \in MaxAttemptsSet \cup {run.max}, l \in LockoutsSet \cup {run.lockout}, how \in Hows :
    /\ run.started /\ m \in 1 .. AttemptsLimit /\ l \in 1 .. LockoutLimit
    /\ run' = [run EXCEPT !.max = m, !.lockout = l]
    /\ WriteConfig(how) /\ UNCHANGED made

ReloadConfig ==
  /\ run.started
  /\ run' = LoadConfig(run, files)
  /\ UNCHANGED <<files, disk, made, faults, good>>

ReloadHostkey ==
  /\ run.started /\ KeyReadable
  /\ run' = LoadedKey(run)
  /\ UNCHANGED <<files, disk, made, faults, good>>

\* The file is deleted, which saves the roots, then a new key is written.
ResetHostkey ==
  \E key \in 0 .. MaxKeys, how \in Hows, saved \in BOOLEAN :
    LET d == IF saved THEN [files EXCEPT !.key = None] ELSE disk
    IN  /\ run.started /\ Generates(key)
        /\ PutAfter(d, IF saved THEN faults ELSE faults + 1, "key", key, how)
        /\ run' = WrittenKey(NewKey(run, key), how)

\* A restart; the load takes the newest snapshot.
RestartSsh ==
  /\ run' = Run0 /\ files' = disk
  /\ good' = [good EXCEPT !.conf = disk.conf # Empty, !.key = disk.key # Empty,
                          !.save = TRUE]
  /\ UNCHANGED <<disk, made, faults>>

IdentityInit ==
  /\ run = Run0 /\ files = [conf |-> None, key |-> None] /\ disk = files
  /\ made = 0 /\ faults = 0 /\ good = [conf |-> TRUE, key |-> TRUE, save |-> TRUE]

IdentityNext ==
  \/ StartWritesConfig \/ StartWithKey \/ StartMakesKey
  \/ SetPasswordFile \/ DisablePasswordFile \/ SetAuthPolicy \/ ReloadConfig
  \/ ReloadHostkey \/ ResetHostkey \/ RestartSsh

IdentitySpec == IdentityInit /\ [][IdentityNext]_identityVars
-----------------------------------------------------------------------------
\* The policy in force is one the limits allow, also after it was read back
\* from a file.
PolicyInRange == run.max \in 1 .. AttemptsLimit /\ run.lockout \in 1 .. LockoutLimit

\* hostkey_persistent, which "ssh hostkey" reports, is true: the key in use
\* is the one in the file.
PersistentIsOnFile == run.persistent => files.key = run.key

\* Unless a write was refused or a save failed, what the service uses is what
\* the next boot will use, however often it restarted in between.
IdentitySurvives ==
  run.started /\ good.save =>
    /\ good.conf /\ files.conf # None => disk.conf = ConfOf(run)
    /\ good.key => disk.key = run.key

\* The identity and the policy of the service outlive restarts and refused
\* writes, and what is reported about them is true.
IdentityKept == PolicyInRange /\ PersistentIsOnFile /\ IdentitySurvives
=============================================================================
