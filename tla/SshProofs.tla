----------------------------- MODULE SshProofs -----------------------------
(***************************************************************************)
(* Proofs about what stands behind the SSH server: the host key and the    *)
(* policy it runs with, its files and their saved copies; the policy for   *)
(* the files remote commands may change; and the sessions themselves.      *)
(***************************************************************************)
EXTENDS MC_Ssh, FiniteSetTheorems, WellFoundedInduction, TLAPS

-----------------------------------------------------------------------------
(* The host key and the policy.                                            *)

Policies ==
  [password : Passwords \cup {None}, max : 1 .. AttemptsLimit, lockout : 1 .. LockoutLimit]

Keys == 0 .. MaxKeys

Services ==
  [started : BOOLEAN, password : Passwords \cup {None}, max : 1 .. AttemptsLimit,
   lockout : 1 .. LockoutLimit, key : Keys \cup {None}, persistent : BOOLEAN, loaded : BOOLEAN]

Stored == [conf : Policies \cup {None, Empty}, key : Keys \cup {None, Empty}]

Notes == [conf : BOOLEAN, key : BOOLEAN, save : BOOLEAN]

\* The last save that succeeded holds what was written well before it.
SavedAgrees ==
  good.save => /\ good.conf => disk.conf = files.conf
               /\ good.key => disk.key = files.key

\* What a started service uses is in its files.
ServedAgrees ==
  run.started => /\ good.conf => files.conf \in {None, ConfOf(run)}
                 /\ good.key => files.key = run.key

IdInv ==
  /\ run \in Services /\ files \in Stored /\ disk \in Stored /\ good \in Notes
  /\ run.loaded => run.started
  /\ PersistentIsOnFile
  /\ good.conf => files.conf # Empty
  /\ SavedAgrees /\ ServedAgrees

\* The text of a policy is neither a missing file nor an empty one.
LEMMA ConfKnown ==
  ASSUME NEW r \in Services
  PROVE  /\ ConfOf(r) \in Policies /\ ConfOf(r) # None /\ ConfOf(r) # Empty
         /\ ConfOf(r).password = r.password /\ ConfOf(r).max = r.max
         /\ ConfOf(r).lockout = r.lockout
  <1>1. ConfOf(r) \in Policies
    BY DEF ConfOf, Services, Policies
  <1>2. Policies \cap {None, Empty} = {}
    BY IdentityAssumption DEF Policies
  <1>3. QED
    BY <1>1, <1>2 DEF ConfOf

\* ssh_load_config keeps to the limits and takes over the file it finds.
LEMMA LoadKnown ==
  ASSUME NEW r \in Services, NEW f \in Stored, NEW q, q = LoadConfig(r, f)
  PROVE  /\ q \in Services /\ q.key = r.key /\ q.started = r.started
         /\ q.persistent = r.persistent /\ q.loaded = r.loaded
         /\ f.conf = None => q = r
         /\ f.conf \notin {None, Empty} => ConfOf(q) = f.conf
  <1>1. Run0.max \in 1 .. AttemptsLimit /\ Run0.lockout \in 1 .. LockoutLimit
    BY IdentityAssumption DEF Run0
  <1>2. CASE f.conf = None
    BY <1>2 DEF LoadConfig
  <1>3. CASE f.conf = Empty
    <2>1. q = [r EXCEPT !.password = None, !.max = Run0.max, !.lockout = Run0.lockout]
      BY <1>3, IdentityAssumption DEF LoadConfig
    <2>2. QED
      BY <1>1, <1>3, <2>1, IdentityAssumption DEF Services
  <1>4. CASE f.conf \notin {None, Empty}
    <2> DEFINE c == f.conf
    <2>1. c \in Policies
      BY <1>4 DEF Stored
    <2> HIDE DEF c
    <2>2. /\ Clamp(c.max, AttemptsLimit, Run0.max) = c.max
          /\ Clamp(c.lockout, LockoutLimit, Run0.lockout) = c.lockout
      BY <2>1 DEF Clamp, Policies
    <2>3. q = [r EXCEPT !.password = c.password, !.max = c.max, !.lockout = c.lockout]
      BY <1>4, <2>2 DEF LoadConfig, c
    <2>4. q \in Services /\ q.key = r.key /\ q.started = r.started
          /\ q.persistent = r.persistent /\ q.loaded = r.loaded
      BY <2>1, <2>3 DEF Services, Policies
    <2>5. ConfOf(q) = c
      BY <2>1, <2>3 DEF ConfOf, Services, Policies
    <2>6. QED
      BY <1>4, <2>4, <2>5 DEF c
  <1>5. QED
    BY <1>2, <1>3, <1>4

LEMMA PutsConf ==
  ASSUME files \in Stored, disk \in Stored, good \in Notes, NEW c \in Policies, NEW how \in Hows,
         Put("conf", c, how)
  PROVE  /\ files' \in Stored /\ disk' \in Stored /\ good' \in Notes
         /\ files'.key = files.key /\ good'.key = good.key
         /\ IF how.written THEN files'.conf = c /\ good'.conf
            ELSE files'.conf = Empty /\ ~good'.conf
         /\ SavedAgrees'
  <1> DEFINE v == IF how.written THEN c ELSE Empty
  <1>1. /\ files' = [files EXCEPT !.conf = v]
        /\ disk' = IF how.saved THEN files' ELSE disk
        /\ good' = [good EXCEPT !.conf = how.written, !.save = how.saved]
    BY DEF Put, PutAfter
  <1>2. how.written \in BOOLEAN /\ how.saved \in BOOLEAN /\ v \in Policies \cup {None, Empty}
    BY DEF Hows
  <1>3. IF how.written THEN v = c ELSE v = Empty
    OBVIOUS
  <1> HIDE DEF v
  <1>4. files' \in Stored /\ files'.key = files.key /\ files'.conf = v
    BY <1>1, <1>2 DEF Stored
  <1>5. good' \in Notes /\ good'.key = good.key /\ good'.conf = how.written /\ good'.save = how.saved
    BY <1>1, <1>2 DEF Notes
  <1>6. disk' \in Stored /\ (how.saved => disk' = files')
    BY <1>1, <1>4
  <1>7. QED
    BY <1>3, <1>4, <1>5, <1>6 DEF SavedAgrees

LEMMA PutsKey ==
  ASSUME files \in Stored, disk \in Stored, good \in Notes, NEW key \in Keys, NEW how \in Hows,
         NEW d \in Stored, NEW n, PutAfter(d, n, "key", key, how)
  PROVE  /\ files' \in Stored /\ disk' \in Stored /\ good' \in Notes
         /\ files'.conf = files.conf /\ good'.conf = good.conf
         /\ IF how.written THEN files'.key = key /\ good'.key
            ELSE files'.key = Empty /\ ~good'.key
         /\ SavedAgrees'
  <1> DEFINE v == IF how.written THEN key ELSE Empty
  <1>1. /\ files' = [files EXCEPT !.key = v]
        /\ disk' = IF how.saved THEN files' ELSE d
        /\ good' = [good EXCEPT !.key = how.written, !.save = how.saved]
    BY DEF PutAfter
  <1>2. how.written \in BOOLEAN /\ how.saved \in BOOLEAN /\ v \in Keys \cup {None, Empty}
    BY DEF Hows
  <1>3. IF how.written THEN v = key ELSE v = Empty
    OBVIOUS
  <1> HIDE DEF v
  <1>4. files' \in Stored /\ files'.conf = files.conf /\ files'.key = v
    BY <1>1, <1>2 DEF Stored
  <1>5. good' \in Notes /\ good'.conf = good.conf /\ good'.key = how.written /\ good'.save = how.saved
    BY <1>1, <1>2 DEF Notes
  <1>6. disk' \in Stored /\ (how.saved => disk' = files')
    BY <1>1, <1>4
  <1>7. QED
    BY <1>3, <1>4, <1>5, <1>6 DEF SavedAgrees

LEMMA IdInitInv == IdentityInit => IdInv
  <1> SUFFICES ASSUME IdentityInit PROVE IdInv
    OBVIOUS
  <1>1. run = Run0 /\ files = [conf |-> None, key |-> None] /\ disk = files
        /\ good = [conf |-> TRUE, key |-> TRUE, save |-> TRUE]
    BY DEF IdentityInit
  <1>2. run \in Services /\ ~run.started /\ ~run.loaded /\ ~run.persistent
    BY <1>1, IdentityAssumption DEF Run0, Services
  <1>3. files \in Stored /\ disk \in Stored /\ good \in Notes /\ files.conf # Empty /\ SavedAgrees
    BY <1>1, IdentityAssumption DEF Stored, Notes, SavedAgrees
  <1>4. QED
    BY <1>2, <1>3 DEF IdInv, PersistentIsOnFile, ServedAgrees

\* The service takes up r and writes its policy.
LEMMA WritesConfKeeps ==
  ASSUME IdInv, NEW how \in Hows, run' \in Services, WriteConfig(how),
         run'.key = run.key, run'.persistent = run.persistent, run'.loaded = run.loaded,
         run'.started = run.started
  PROVE  IdInv'
  <1>1. ConfOf(run') \in Policies /\ ConfOf(run') # Empty
    BY ConfKnown
  <1>2. Put("conf", ConfOf(run'), how)
    BY DEF WriteConfig
  <1>3. files \in Stored /\ disk \in Stored /\ good \in Notes /\ SavedAgrees
    BY DEF IdInv
  <1> DEFINE c == ConfOf(run')
  <1> HIDE DEF c
  <1>4. c \in Policies /\ Put("conf", c, how)
    BY <1>1, <1>2 DEF c
  <1>5. /\ files' \in Stored /\ disk' \in Stored /\ good' \in Notes
        /\ files'.key = files.key /\ good'.key = good.key
        /\ good'.conf => files'.conf = c
        /\ SavedAgrees'
    BY <1>3, <1>4, PutsConf
  <1>6. PersistentIsOnFile' /\ ServedAgrees'
    BY <1>5 DEF IdInv, PersistentIsOnFile, ServedAgrees, c
  <1>7. QED
    BY <1>1, <1>5, <1>6 DEF IdInv, c

\* A key is made, written and used; if the file could not be written, it is not
\* reported as kept there.
LEMMA WritesKeyKeeps ==
  ASSUME IdInv, NEW key \in Keys, NEW how \in Hows, NEW d \in Stored, NEW n,
         PutAfter(d, n, "key", key, how),
         run' \in Services, run'.key = key, run'.persistent = how.written,
         run'.started, run'.loaded,
         good.conf => files.conf \in {None, ConfOf(run')}
  PROVE  IdInv'
  <1>1. files \in Stored /\ disk \in Stored /\ good \in Notes /\ SavedAgrees
    BY DEF IdInv
  <1>2. /\ files' \in Stored /\ disk' \in Stored /\ good' \in Notes
        /\ files'.conf = files.conf /\ good'.conf = good.conf
        /\ IF how.written THEN files'.key = key /\ good'.key
           ELSE files'.key = Empty /\ ~good'.key
        /\ SavedAgrees'
    BY <1>1, PutsKey
  <1>3. PersistentIsOnFile' /\ ServedAgrees'
    BY <1>2 DEF PersistentIsOnFile, ServedAgrees
  <1>4. QED
    BY <1>2, <1>3 DEF IdInv

LEMMA StartsKeep == IdInv /\ (StartWritesConfig \/ StartWithKey \/ StartMakesKey) => IdInv'
  <1> SUFFICES ASSUME IdInv, StartWritesConfig \/ StartWithKey \/ StartMakesKey PROVE IdInv'
    OBVIOUS
  <1>1. run \in Services /\ files \in Stored
    BY DEF IdInv
  <1>2. CASE StartWritesConfig
    <2>1. PICK how \in Hows : WriteConfig(how)
      BY <1>2 DEF StartWritesConfig
    <2>2. run' = run
      BY <1>1, <1>2, LoadKnown DEF StartWritesConfig
    <2>3. QED
      BY <1>1, <2>1, <2>2, WritesConfKeeps
  <1>3. CASE StartWithKey
    <2> DEFINE r == LoadedKey(run)
               q == LoadConfig(r, files)
    <2>1. ~run.loaded /\ files.key \notin {None, Empty}
      BY <1>3 DEF StartWithKey, KeyReadable, IdInv
    <2>2. /\ run' = [q EXCEPT !.started = TRUE] /\ files.conf # None
          /\ UNCHANGED <<files, disk, made, faults, good>>
      BY <1>3, <2>1 DEF StartWithKey
    <2>3. r \in Services /\ r.key = files.key
      BY <1>1, <2>1 DEF LoadedKey, Services, Stored
    <2> HIDE DEF r
    <2>4. /\ q \in Services /\ q.key = files.key
          /\ files.conf \notin {None, Empty} => ConfOf(q) = files.conf
      BY <1>1, <2>3, LoadKnown
    <2> HIDE DEF q
    <2>5. /\ run' \in Services /\ run'.key = files.key /\ run'.started /\ ConfOf(run') = ConfOf(q)
      BY <2>2, <2>4 DEF Services, ConfOf
    <2>6. good.conf => files.conf # Empty
      BY DEF IdInv
    <2>7. PersistentIsOnFile' /\ ServedAgrees' /\ SavedAgrees'
      BY <2>2, <2>4, <2>5, <2>6 DEF IdInv, PersistentIsOnFile, ServedAgrees, SavedAgrees
    <2>8. QED
      BY <2>2, <2>5, <2>7 DEF IdInv
  <1>4. CASE StartMakesKey
    <2>1. PICK key \in Keys, how \in Hows, cut \in BOOLEAN :
            /\ PutAfter(IF cut THEN [files EXCEPT !.key = Empty] ELSE disk,
                        IF cut THEN faults + 1 ELSE faults, "key", key, how)
            /\ run' = [WrittenKey(NewKey(LoadConfig(run, files), key), how)
                         EXCEPT !.started = TRUE]
      BY <1>4 DEF StartMakesKey, Keys
    <2> DEFINE q == LoadConfig(run, files)
    <2>2. /\ q \in Services
          /\ files.conf \notin {None, Empty} => ConfOf(q) = files.conf
      BY <1>1, LoadKnown
    <2> HIDE DEF q
    <2>3. run' = [q EXCEPT !.key = key, !.loaded = TRUE, !.persistent = how.written,
                           !.started = TRUE]
      BY <2>1, <2>2 DEF WrittenKey, NewKey, Services, q
    <2>4. /\ run' \in Services /\ run'.key = key /\ run'.persistent = how.written
          /\ run'.started /\ run'.loaded /\ ConfOf(run') = ConfOf(q)
      <3> DEFINE w == how.written
      <3>1. w \in BOOLEAN
        BY DEF Hows
      <3>2. run' = [q EXCEPT !.key = key, !.loaded = TRUE, !.persistent = w, !.started = TRUE]
        BY <2>3
      <3> HIDE DEF w
      <3>3. /\ run' \in Services /\ run'.key = key /\ run'.persistent = w
            /\ run'.started /\ run'.loaded /\ ConfOf(run') = ConfOf(q)
        BY <2>2, <3>1, <3>2 DEF Services, ConfOf
      <3>4. QED
        BY <3>3 DEF w
    <2>5. good.conf => files.conf \in {None, ConfOf(run')}
      BY <2>2, <2>4 DEF IdInv
    <2> DEFINE d == IF cut THEN [files EXCEPT !.key = Empty] ELSE disk
               n == IF cut THEN faults + 1 ELSE faults
    <2>6. d \in Stored
      <3>1. [files EXCEPT !.key = Empty] \in Stored
        BY <1>1 DEF Stored
      <3>2. QED
        BY <3>1 DEF IdInv
    <2>7. PutAfter(d, n, "key", key, how)
      BY <2>1
    <2> HIDE DEF d, n
    <2>8. QED
      BY <2>4, <2>5, <2>6, <2>7, WritesKeyKeeps
  <1>5. QED
    BY <1>2, <1>3, <1>4

LEMMA ConsoleKeeps ==
  IdInv /\ (SetPasswordFile \/ DisablePasswordFile \/ SetAuthPolicy \/ ReloadConfig) => IdInv'
  <1> SUFFICES ASSUME IdInv, SetPasswordFile \/ DisablePasswordFile \/ SetAuthPolicy \/ ReloadConfig
               PROVE  IdInv'
    OBVIOUS
  <1>1. run \in Services /\ files \in Stored /\ run.started
    BY DEF IdInv, SetPasswordFile, DisablePasswordFile, SetAuthPolicy, ReloadConfig
  <1>2. CASE SetPasswordFile
    <2>1. PICK p \in Passwords, how \in Hows : run' = [run EXCEPT !.password = p] /\ WriteConfig(how)
      BY <1>2 DEF SetPasswordFile
    <2>2. /\ run' \in Services /\ run'.key = run.key /\ run'.persistent = run.persistent
          /\ run'.loaded = run.loaded /\ run'.started = run.started
      BY <1>1, <2>1 DEF Services
    <2>3. QED
      BY <2>1, <2>2, WritesConfKeeps
  <1>3. CASE DisablePasswordFile
    <2>1. PICK how \in Hows : run' = [run EXCEPT !.password = None] /\ WriteConfig(how)
      BY <1>3 DEF DisablePasswordFile
    <2>2. /\ run' \in Services /\ run'.key = run.key /\ run'.persistent = run.persistent
          /\ run'.loaded = run.loaded /\ run'.started = run.started
      BY <1>1, <2>1 DEF Services
    <2>3. QED
      BY <2>1, <2>2, WritesConfKeeps
  <1>4. CASE SetAuthPolicy
    <2>1. PICK m \in 1 .. AttemptsLimit, l \in 1 .. LockoutLimit, how \in Hows :
            run' = [run EXCEPT !.max = m, !.lockout = l] /\ WriteConfig(how)
      BY <1>4 DEF SetAuthPolicy
    <2>2. /\ run' \in Services /\ run'.key = run.key /\ run'.persistent = run.persistent
          /\ run'.loaded = run.loaded /\ run'.started = run.started
      BY <1>1, <2>1 DEF Services
    <2>3. QED
      BY <2>1, <2>2, WritesConfKeeps
  <1>5. CASE ReloadConfig
    <2>1. run' = LoadConfig(run, files) /\ UNCHANGED <<files, disk, made, faults, good>>
      BY <1>5 DEF ReloadConfig
    <2>2. /\ run' \in Services /\ run'.key = run.key /\ run'.persistent = run.persistent
          /\ run'.loaded = run.loaded /\ run'.started = run.started
          /\ files.conf = None => run' = run
          /\ files.conf \notin {None, Empty} => ConfOf(run') = files.conf
      <3> DEFINE f == files
      <3>1. run \in Services /\ f \in Stored /\ run' = LoadConfig(run, f)
        BY <1>1, <2>1
      <3> HIDE DEF f
      <3>2. /\ run' \in Services /\ run'.key = run.key /\ run'.persistent = run.persistent
            /\ run'.loaded = run.loaded /\ run'.started = run.started
        BY <3>1, LoadKnown
      <3>3. f.conf = None => run' = run
        BY <3>1, LoadKnown
      <3>4. f.conf \notin {None, Empty} => ConfOf(run') = f.conf
        BY <3>1, LoadKnown
      <3>5. QED
        BY <3>2, <3>3, <3>4 DEF f
    <2>3. PersistentIsOnFile' /\ ServedAgrees' /\ SavedAgrees'
      BY <2>1, <2>2 DEF IdInv, PersistentIsOnFile, ServedAgrees, SavedAgrees
    <2>4. QED
      BY <2>1, <2>2, <2>3 DEF IdInv
  <1>6. QED
    BY <1>2, <1>3, <1>4, <1>5

LEMMA HostkeyKeeps == IdInv /\ (ReloadHostkey \/ ResetHostkey) => IdInv'
  <1> SUFFICES ASSUME IdInv, ReloadHostkey \/ ResetHostkey PROVE IdInv'
    OBVIOUS
  <1>1. /\ run \in Services /\ files \in Stored /\ disk \in Stored /\ run.started
        /\ good.conf => files.conf \in {None, ConfOf(run)}
    BY DEF IdInv, ServedAgrees, ReloadHostkey, ResetHostkey
  <1>2. CASE ReloadHostkey
    <2>1. /\ files.key \notin {None, Empty}
          /\ run' = [run EXCEPT !.key = files.key, !.loaded = TRUE, !.persistent = TRUE]
          /\ UNCHANGED <<files, disk, made, faults, good>>
      BY <1>2 DEF ReloadHostkey, LoadedKey, KeyReadable
    <2>2. /\ run' \in Services /\ run'.key = files.key /\ run'.started /\ ConfOf(run') = ConfOf(run)
      BY <1>1, <2>1 DEF Services, Stored, ConfOf
    <2>3. PersistentIsOnFile' /\ ServedAgrees' /\ SavedAgrees'
      BY <1>1, <2>1, <2>2 DEF IdInv, PersistentIsOnFile, ServedAgrees, SavedAgrees
    <2>4. QED
      BY <2>1, <2>2, <2>3 DEF IdInv
  <1>3. CASE ResetHostkey
    <2>1. PICK key \in Keys, how \in Hows, saved \in BOOLEAN :
            /\ PutAfter(IF saved THEN [files EXCEPT !.key = None] ELSE disk,
                        IF saved THEN faults ELSE faults + 1, "key", key, how)
            /\ run' = WrittenKey(NewKey(run, key), how)
      BY <1>3 DEF ResetHostkey, Keys
    <2> DEFINE d == IF saved THEN [files EXCEPT !.key = None] ELSE disk
               n == IF saved THEN faults ELSE faults + 1
    <2>2. d \in Stored
      <3>1. [files EXCEPT !.key = None] \in Stored
        BY <1>1 DEF Stored
      <3>2. QED
        BY <1>1, <3>1
    <2>3. PutAfter(d, n, "key", key, how)
      BY <2>1
    <2> HIDE DEF d, n
    <2>4. run' = [run EXCEPT !.key = key, !.loaded = TRUE, !.persistent = how.written]
      BY <1>1, <2>1 DEF WrittenKey, NewKey, Services
    <2>5. /\ run' \in Services /\ run'.key = key /\ run'.persistent = how.written
          /\ run'.started /\ run'.loaded /\ ConfOf(run') = ConfOf(run)
      <3> DEFINE w == how.written
      <3>1. w \in BOOLEAN
        BY DEF Hows
      <3>2. run' = [run EXCEPT !.key = key, !.loaded = TRUE, !.persistent = w]
        BY <2>4
      <3> HIDE DEF w
      <3>3. /\ run' \in Services /\ run'.key = key /\ run'.persistent = w
            /\ run'.started /\ run'.loaded /\ ConfOf(run') = ConfOf(run)
        BY <1>1, <3>1, <3>2 DEF Services, ConfOf
      <3>4. QED
        BY <3>3 DEF w
    <2>6. QED
      BY <1>1, <2>2, <2>3, <2>5, WritesKeyKeeps
  <1>4. QED
    BY <1>2, <1>3

LEMMA RestartKeeps == IdInv /\ RestartSsh => IdInv'
  <1> SUFFICES ASSUME IdInv, RestartSsh PROVE IdInv'
    OBVIOUS
  <1>1. /\ run' = Run0 /\ files' = disk /\ disk' = disk /\ disk \in Stored
        /\ good' = [good EXCEPT !.conf = disk.conf # Empty, !.key = disk.key # Empty, !.save = TRUE]
    BY DEF RestartSsh, IdInv
  <1>2. run' \in Services /\ ~run'.started /\ ~run'.loaded /\ ~run'.persistent
    BY <1>1, IdentityAssumption DEF Run0, Services
  <1>3. good' \in Notes /\ good'.conf = (disk.conf # Empty)
    BY <1>1 DEF IdInv, Notes
  <1>4. QED
    BY <1>1, <1>2, <1>3 DEF IdInv, PersistentIsOnFile, ServedAgrees, SavedAgrees

\* The host key and the policy a service runs with are what the next boot will
\* use unless a write was refused or a save failed, and a key reported as
\* kept is in its file: for any passwords, keys and limits, and any number of
\* restarts and faults.
THEOREM IdentityOutlives == MCSpec => []IdentityKept
  <1>1. MCInit => IdInv
    BY IdInitInv DEF MCInit
  <1>2. IdInv /\ [MCNext]_mcVars => IdInv'
    <2> SUFFICES ASSUME IdInv, [MCNext]_mcVars PROVE IdInv'
      OBVIOUS
    <2>1. CASE IdentityNext
      BY <2>1, StartsKeep, ConsoleKeeps, HostkeyKeeps, RestartKeeps DEF IdentityNext
    <2>2. CASE UNCHANGED identityVars
      BY <2>2 DEF identityVars, IdInv, PersistentIsOnFile, ServedAgrees, SavedAgrees
    <2>3. QED
      BY <2>1, <2>2 DEF MCNext, mcVars
  <1>3. IdInv => IdentityKept
    <2> SUFFICES ASSUME IdInv PROVE IdentityKept
      OBVIOUS
    <2>1. PolicyInRange /\ PersistentIsOnFile
      BY DEF IdInv, Services, PolicyInRange
    <2>2. IdentitySurvives
      BY DEF IdInv, SavedAgrees, ServedAgrees, IdentitySurvives
    <2>3. QED
      BY <2>1, <2>2 DEF IdentityKept
  <1>4. QED
    BY <1>1, <1>2, <1>3, PTL DEF MCSpec
-----------------------------------------------------------------------------
(* The files remote commands may change.                                   *)

LEMMA CommandKeeps == PolicyKept /\ ShellNext => PolicyKept'
  <1> SUFFICES ASSUME PolicyKept, ShellNext PROVE PolicyKept'
    OBVIOUS
  <1> DEFINE Allowed(p) ==
               \E r \in WriteRoots : IsPrefix(r, p) /\ ~IsPrefix(Internal, p) /\ ~IsSensitive(p)
             Kept == {p \in Dirs0 : p \in WriteRoots \/ \A r \in WriteRoots : ~IsPrefix(r, p)}
  <1>1. (\A p \in (dirs \cup docs) \ Dirs0 : Allowed(p)) /\ Kept \subseteq dirs
    BY DEF PolicyKept
  <1>2. \A p : WriteAllowed(p) => Allowed(p)
    BY DEF WriteAllowed, HasPrefix
  <1>3. \A p : WriteAllowed(p) /\ ~IsRemoteRoot(p) => p \notin Kept
    BY DEF WriteAllowed, HasPrefix, IsRemoteRoot
  <1>4. \/ UNCHANGED <<dirs, docs>>
        \/ \E path : WriteAllowed(path) /\ docs' = docs \cup {path} /\ dirs' = dirs
        \/ \E path : WriteAllowed(path) /\ dirs' = dirs \cup {path} /\ docs' = docs
        \/ \E path : WriteAllowed(path) /\ ~IsRemoteRoot(path)
                     /\ dirs' = dirs \ {path} /\ docs' = docs \ {path}
    BY DEF ShellNext, Cd, Touch, RemovePath, WriteText, NewShell
  <1> HIDE DEF Allowed, Kept
  <1>5. (\A p \in (dirs' \cup docs') \ Dirs0 : Allowed(p)) /\ Kept \subseteq dirs'
    BY <1>1, <1>2, <1>3, <1>4
  <1>6. QED
    BY <1>5 DEF PolicyKept, Allowed, Kept

\* No command of a remote shell, however its path is spelled or cut off, makes
\* anything outside the write roots, anything sensitive or internal, or removes
\* a root: for any tree, roots and sizes of the buffers.
THEOREM CommandsKeepThePolicy == MCSpec => []PolicyKept
  <1>1. MCInit => PolicyKept
    BY DEF MCInit, ShellInit, PolicyKept
  <1>2. PolicyKept /\ [MCNext]_mcVars => PolicyKept'
    <2>1. ASSUME PolicyKept, UNCHANGED shellVars PROVE PolicyKept'
      BY <2>1 DEF shellVars, PolicyKept
    <2>2. QED
      BY <2>1, CommandKeeps DEF MCNext, mcVars
  <1>3. QED
    BY <1>1, <1>2, PTL DEF MCSpec

-----------------------------------------------------------------------------
(* The sessions.                                                           *)

\* The packets the server sends, and the ones of a client after the login.
SentKinds == {TxOrder[i] : i \in 1 .. 14}
ChatKinds == {"EXEC", "PTY", "SHELL", "LINE", "EXIT", "EOF"}

\* The fields of the negotiation.
SshFlags ==
  {"server_kexinit_sent", "client_kexinit_seen", "algorithms", "ecdh_ready", "ecdh_reply_sent",
   "newkeys_sent", "client_newkeys_seen", "disconnect_sent", "in_encrypted", "out_encrypted",
   "service_accept", "service_accept_sent", "authenticated", "auth_failure", "auth_success",
   "open_confirm", "success", "failure", "shell_ready", "data", "exit_status", "close",
   "close_sent"}
SshCounts == {"seq_in", "seq_out", "ctr_s2c"}
SshLengths == {"tx_len", "tx_off"}
SshBuffers == {"binary_rx", "encrypted_rx"}
SshFields == SshFlags \cup SshCounts \cup SshLengths \cup SshBuffers

\* The states of the service, of its listener, of the wire and of a client.
Negotiations ==
  {s \in [SshFields -> BOOLEAN \cup Nat \cup Seq(Nat)] :
     /\ \A x \in SshFlags : s[x] \in BOOLEAN
     /\ \A x \in SshCounts : s[x] \in Nat
     /\ \A x \in SshLengths : s[x] \in 0 .. TextCap
     /\ \A x \in SshBuffers : s[x] \in Seq(Nat)}

SshServices ==
  [enabled : BOOLEAN, seen : Nat, banner_sent : BOOLEAN, client_banner_seen : BOOLEAN,
   close_polls : 0 .. ClosePolls, idle : 0 .. IdleTimeout + 1, auth_configured : BOOLEAN,
   failures : 0 .. MaxAttempts - 1, lockout : 0 .. LockoutTicks]

Hosts == [srv : TcpServers, svc : SshServices, ssh : Negotiations]

SentPackets == [kind : SentKinds, seq : Nat, ctr : Nat]

Wires == [peer : Peers \cup {NoPeer}, sent : Seq(SentPackets), got : Nat, opened : BOOLEAN]

Clients ==
  [peer : Peers \cup {NoPeer},
   state : {"none", "syn", "open", "fin", "rst", "gone", "ended"}, out : Seq(Packets)]

Typed ==
  /\ host \in Hosts /\ host.ssh.tx_off <= host.ssh.tx_len
  /\ wire \in Wires /\ wire.got <= Len(wire.sent)
  /\ cli \in Clients /\ (cli.state \notin {"open", "fin"} => cli.out = <<>>)

\* The listener, the service and the wire are about the same connection.
Attached(h, w) ==
  /\ h.srv.connections = h.svc.seen
  /\ IF h.svc.enabled THEN h.srv.enabled /\ h.srv.state # "CLOSED" ELSE h.srv.state = "CLOSED"
  /\ h.srv.peer = NoPeer <=> h.srv.state \in {"CLOSED", "LISTEN"}
  /\ w.peer = h.srv.peer
  /\ w.peer = NoPeer => w = NoWire
  /\ h.srv.state = "SYN_RCVD" => h.srv.seq = 0 /\ h.srv.ack = 1 /\ w.sent = <<>>
  /\ h.srv.state = "ESTABLISHED" => w.opened

\* Nothing of the connection before is left.
Untouched(h) ==
  h.ssh = Negotiation0 /\ ~h.svc.banner_sent /\ ~h.svc.client_banner_seen /\ h.svc.close_polls = 0

\* FreshConnection of a server and what it sent.
Fresh(h, sent) ==
  h.srv.state = "SYN_RCVD" \/ (h.srv.state = "ESTABLISHED" /\ sent = <<>> /\ h.srv.ack = 1)
    => Untouched(h)

\* An answer that only an encrypted packet can carry.
Answering(s) ==
  \/ s.service_accept \/ s.auth_failure \/ s.auth_success \/ s.open_confirm
  \/ s.success \/ s.failure \/ s.data \/ s.exit_status \/ s.close

\* The key exchange goes through its steps in order, and nothing that needs
\* its keys is prepared before it is over.
KeysInOrder(h) ==
  LET s == h.ssh
  IN  /\ s.seq_in > 0 => h.svc.client_banner_seen
      /\ s.out_encrypted = s.newkeys_sent
      /\ s.newkeys_sent => s.ecdh_reply_sent
      /\ s.ecdh_reply_sent => s.ecdh_ready /\ s.server_kexinit_sent
      /\ s.ecdh_ready => s.client_kexinit_seen /\ s.algorithms /\ s.seq_in > 0
      /\ s.in_encrypted = s.client_newkeys_seen
      /\ s.service_accept => ~s.service_accept_sent
      /\ Answering(s) => s.ecdh_reply_sent /\ s.client_newkeys_seen

\* The wire carries a packet of this kind.
SentSome(sent, kind) == \E i \in DOMAIN sent : sent[i].kind = kind

\* The counters are those of the packets that went out.
CountersAgree(h, sent) ==
  /\ h.svc.banner_sent = (sent # <<>>)
  /\ h.ssh.seq_out = IF sent = <<>> THEN 0 ELSE Len(sent) - 1
  /\ h.ssh.ctr_s2c = Cardinality({j \in DOMAIN sent : sent[j].ctr > 0})
  /\ h.ssh.out_encrypted = SentSome(sent, "NEWKEYS")
  /\ SentSome(sent, "ECDH_REPLY") => h.ssh.ecdh_reply_sent

\* The units held follow the packets processed.
HeldInOrder(h) ==
  LET s == h.ssh
      rx == IF s.in_encrypted THEN s.encrypted_rx ELSE s.binary_rx
  IN  /\ IF s.in_encrypted THEN s.binary_rx = <<>> ELSE s.encrypted_rx = <<>>
      /\ IF h.svc.client_banner_seen
         THEN /\ \A i \in DOMAIN rx : rx[i] = 2 + 2 * s.seq_in + i
              /\ h.srv.ack = 3 + 2 * s.seq_in + Len(rx)
         ELSE rx = <<>> /\ s.seq_in = 0 /\ h.srv.ack \in 1 .. 2

\* The client that opened the connection of the server is still writing on
\* it, or what it wrote is still on its way.
Talking(w, x) == w.opened /\ w.peer = x.peer /\ x.state \in {"open", "fin"}

Before(out, i, kind) == \E j \in 1 .. i - 1 : out[j] = kind

WroteSome(out, kind) == \E i \in DOMAIN out : out[i] = kind

\* What the server has processed; the banner of the client is packet 1.
Took(h, out, kind) == \E i \in DOMAIN out : i <= h.ssh.seq_in + 1 /\ out[i] = kind

\* The order in which a client that follows the protocol writes.
WrittenInOrder(out) ==
  \A i \in DOMAIN out :
    /\ out[i] = "BANNER" <=> i = 1
    /\ out[i] \in {"KEXINIT", "KEXINIT_NONE"} <=> i = 2
    /\ out[i] = "ECDH" => out[2] = "KEXINIT"
    /\ out[i] = "NEWKEYS" => Before(out, i, "ECDH")
    /\ i > 2 /\ out[i] \notin {"ECDH", "NEWKEYS"} => Before(out, i, "NEWKEYS")
    /\ i > 2 /\ out[i] \notin {"ECDH", "NEWKEYS", "SERVICE"} => Before(out, i, "SERVICE")
    /\ out[i] \in ChatKinds => Before(out, i, "OPEN")
    /\ out[i] \in {"ECDH", "NEWKEYS", "SERVICE", "OPEN"} => ~Before(out, i, out[i])
    /\ out[i] = "EXEC" => out[i - 1] = "OPEN" /\ \A j \in DOMAIN out : j > i => out[j] = "EOF"

\* What the server has done it was asked for by what it processed, and what
\* the client wrote it had the answer for that it waits for.
AskedFor(h, w, out) ==
  LET s == h.ssh IN
  /\ s.in_encrypted = Took(h, out, "NEWKEYS")
  /\ s.seq_in > 0 => s.client_kexinit_seen /\ s.algorithms = (out[2] = "KEXINIT")
  /\ s.ecdh_ready => Took(h, out, "ECDH")
  /\ s.service_accept \/ s.service_accept_sent \/ SentSome(w.sent, "SERVICE_ACCEPT")
       => Took(h, out, "SERVICE")
  /\ s.auth_success \/ SentSome(w.sent, "AUTH_SUCCESS") => Took(h, out, "SERVICE")
  /\ s.open_confirm \/ SentSome(w.sent, "OPEN_CONFIRM") => Took(h, out, "OPEN")
  /\ WroteSome(out, "NEWKEYS") => SentSome(w.sent, "ECDH_REPLY")
  /\ WroteSome(out, "OPEN") => \E i \in 1 .. w.got : w.sent[i].kind = "AUTH_SUCCESS"

\* Nothing but the close is left to be sent.
Silent(h) == \A kind \in SentKinds \ {"CLOSE"} : ~Due(h)[kind]

\* An exec request ends the channel: after its status only the close is
\* left, and after the close nothing.
EndsOnce(h, sent, out) ==
  /\ \/ h.ssh.exit_status \/ h.ssh.close
     \/ SentSome(sent, "EXIT_STATUS") \/ SentSome(sent, "CLOSE")
     => Took(h, out, "EXEC") \/ Took(h, out, "EXIT") \/ Took(h, out, "EOF")
  /\ Took(h, out, "EXEC") =>
       \A i \in DOMAIN sent :
         /\ sent[i].kind = "CLOSE" => i = Len(sent) /\ h.ssh.close_sent /\ ~h.ssh.close
         /\ sent[i].kind = "EXIT_STATUS" => \A j \in DOMAIN sent : j > i => sent[j].kind = "CLOSE"
         /\ sent[i].kind \in {"EXIT_STATUS", "CLOSE"} => Silent(h)

\* What a client that is talking to the server knows.
ClientKnows(h, w, out) ==
  /\ h.srv.ack <= 2 * Len(out) + 1
  /\ WrittenInOrder(out) /\ AskedFor(h, w, out) /\ EndsOnce(h, w.sent, out)

\* What holds of an established session, whoever is at the other end.
SessionInv(h, w) == KeysInOrder(h) /\ CountersAgree(h, w.sent) /\ HeldInOrder(h)

\* A set of natural numbers has a least member.
LEMMA NatMin ==
  ASSUME NEW T \in SUBSET Nat, T # {}
  PROVE \E n \in T : \A m \in T : n <= m
<1> DEFINE R == OpToRel(<, Nat)
<1>1. IsWellFoundedOn(R, Nat)
  BY NatLessThanWellFounded
<1>2. \A m, n \in Nat : m < n => <<m, n>> \in R
  BY DEF OpToRel
<1> HIDE DEF R
<1>3. PICK n \in T : \A m \in T : ~ (<<m, n>> \in R)
  BY <1>1, WFMin
<1> SUFFICES ASSUME NEW m \in T PROVE n <= m
  BY <1>3
<1>4. ~ (m < n)
  BY <1>2, <1>3, Zenon
<1> QED BY <1>4

\* A set of natural numbers that holds 0 and the successor of each of its
\* members holds them all.
LEMMA NatSet ==
  ASSUME NEW S \in SUBSET Nat, 0 \in S, \A n \in S : n + 1 \in S
  PROVE S = Nat
<1> SUFFICES ASSUME Nat \ S # {} PROVE FALSE
  OBVIOUS
<1>1. PICK n \in Nat \ S : \A m \in Nat \ S : n <= m
  BY NatMin
<1>2. n - 1 \in Nat /\ n - 1 \in S
  BY <1>1
<1> QED BY <1>1, <1>2

LEMMA SshConstants ==
  /\ TextCap \in Nat \ {0} /\ ClosePolls \in Nat \ {0} /\ MaxAttempts \in Nat \ {0}
  /\ LockoutTicks \in Nat \ {0} /\ IdleTimeout \in Nat /\ MaxUnits \in Nat \ {0}
  /\ MaxChunks \in Nat /\ NoPeer \notin Peers
  BY SshAssumption, PeersAssumption

\* The packet a poll sends is due, and nothing before it in the order is.
LEMMA LeastDue ==
  ASSUME NEW h, TxKind(h) # "NONE"
  PROVE  \E i \in 1 .. 14 : /\ TxKind(h) = TxOrder[i] /\ Connected(h) /\ Due(h)[TxOrder[i]]
                            /\ \A j \in 1 .. i - 1 : ~Due(h)[TxOrder[j]]
  <1> DEFINE due == {i \in DOMAIN TxOrder : Connected(h) /\ Due(h)[TxOrder[i]]}
  <1>1. DOMAIN TxOrder = 1 .. 14
    BY DEF TxOrder
  <1>2. due # {} /\ due \subseteq 1 .. 14 /\ TxKind(h) = TxOrder[Min(due)]
    BY <1>1 DEF TxKind
  <1>3. PICK i \in due : \A j \in due : i <= j
    BY <1>2, NatMin
  <1>4. Min(due) \in due /\ \A j \in due : Min(due) <= j
    BY <1>3 DEF Min
  <1>5. PICK k : k = Min(due)
    OBVIOUS
  <1>6. /\ k \in 1 .. 14 /\ Connected(h) /\ Due(h)[TxOrder[k]] /\ TxKind(h) = TxOrder[k]
        /\ \A j \in due : k <= j
    BY <1>2, <1>4, <1>5
  <1>7. ASSUME NEW j \in 1 .. k - 1, Due(h)[TxOrder[j]]
        PROVE  FALSE
    <2>1. j \in due
      BY <1>1, <1>6, <1>7
    <2>2. QED
      BY <1>6, <2>1
  <1>8. QED
    BY <1>6, <1>7

\* When there is no packet to send, none is due.
LEMMA NothingDue ==
  ASSUME NEW h, TxKind(h) = "NONE", Connected(h), NEW i \in 1 .. 14
  PROVE  ~Due(h)[TxOrder[i]]
  <1> DEFINE due == {j \in DOMAIN TxOrder : Connected(h) /\ Due(h)[TxOrder[j]]}
  <1>1. DOMAIN TxOrder = 1 .. 14 /\ \A j \in 1 .. 14 : TxOrder[j] # "NONE"
    BY DEF TxOrder
  <1>2. SUFFICES ASSUME due # {} PROVE FALSE
    BY <1>1
  <1>3. due \subseteq 1 .. 14 /\ TxKind(h) = TxOrder[Min(due)]
    BY <1>1, <1>2 DEF TxKind
  <1>4. PICK k \in due : \A j \in due : k <= j
    BY <1>2, <1>3, NatMin
  <1>5. Min(due) \in due
    BY <1>4 DEF Min
  <1>6. QED
    BY <1>1, <1>3, <1>5

LEMMA KindsAre ==
  SentKinds = {"BANNER", "KEXINIT", "DISCONNECT", "ECDH_REPLY", "NEWKEYS", "SERVICE_ACCEPT",
    "AUTH_SUCCESS", "AUTH_FAILURE", "OPEN_CONFIRM", "SUCCESS", "FAILURE", "DATA",
    "EXIT_STATUS", "CLOSE"}
  BY DEF SentKinds, TxOrder

\* What a packet sent leaves of the host, but for the two counters.
FlagsOf(h, g, kind) ==
  LET s == h.ssh
      t == g.ssh
  IN  /\ g.srv = h.srv /\ g.svc.seen = h.svc.seen /\ g.svc.enabled = h.svc.enabled
      /\ g.svc.client_banner_seen = h.svc.client_banner_seen
      /\ g.svc.banner_sent = IF kind = "BANNER" THEN TRUE ELSE h.svc.banner_sent
      /\ t.server_kexinit_sent = IF kind = "KEXINIT" THEN TRUE ELSE s.server_kexinit_sent
      /\ t.disconnect_sent = IF kind = "DISCONNECT" THEN TRUE ELSE s.disconnect_sent
      /\ t.ecdh_reply_sent = IF kind = "ECDH_REPLY" THEN TRUE ELSE s.ecdh_reply_sent
      /\ t.newkeys_sent = IF kind = "NEWKEYS" THEN TRUE ELSE s.newkeys_sent
      /\ t.out_encrypted = IF kind = "NEWKEYS" THEN TRUE ELSE s.out_encrypted
      /\ t.service_accept_sent = IF kind = "SERVICE_ACCEPT" THEN TRUE ELSE s.service_accept_sent
      /\ t.service_accept = IF kind = "SERVICE_ACCEPT" THEN FALSE ELSE s.service_accept
      /\ t.auth_success = IF kind = "AUTH_SUCCESS" THEN FALSE ELSE s.auth_success
      /\ t.auth_failure = IF kind = "AUTH_FAILURE" THEN FALSE ELSE s.auth_failure
      /\ t.open_confirm = IF kind = "OPEN_CONFIRM" THEN FALSE ELSE s.open_confirm
      /\ t.success = IF kind = "SUCCESS" THEN FALSE ELSE s.success
      /\ t.failure = IF kind = "FAILURE" THEN FALSE ELSE s.failure
      /\ t.data = IF kind = "DATA" /\ ~(s.tx_off + 1 < s.tx_len) THEN FALSE ELSE s.data
      /\ t.exit_status = IF kind = "EXIT_STATUS" THEN FALSE ELSE s.exit_status
      /\ t.close = IF kind = "CLOSE" THEN FALSE ELSE s.close
      /\ t.close_sent = IF kind = "CLOSE" THEN TRUE ELSE s.close_sent
      /\ t.client_kexinit_seen = s.client_kexinit_seen /\ t.algorithms = s.algorithms
      /\ t.ecdh_ready = s.ecdh_ready /\ t.client_newkeys_seen = s.client_newkeys_seen
      /\ t.in_encrypted = s.in_encrypted /\ t.seq_in = s.seq_in
      /\ t.binary_rx = s.binary_rx /\ t.encrypted_rx = s.encrypted_rx

Sending(h, g, kind) ==
  /\ FlagsOf(h, g, kind)
  /\ g.ssh.seq_out = IF kind = "BANNER" THEN h.ssh.seq_out ELSE h.ssh.seq_out + 1
  /\ g.ssh.ctr_s2c = IF kind \in PlainKinds THEN h.ssh.ctr_s2c ELSE h.ssh.ctr_s2c + 1

-----------------------------------------------------------------------------
(* Sending a packet.                                                       *)

\* A field is of one sort.
LEMMA FieldsApart ==
  /\ SshFlags \cap SshCounts = {} /\ SshFlags \cap SshLengths = {} /\ SshFlags \cap SshBuffers = {}
  /\ SshCounts \cap SshLengths = {} /\ SshCounts \cap SshBuffers = {} /\ SshLengths \cap SshBuffers = {}
  BY DEF SshFlags, SshCounts, SshLengths, SshBuffers

\* One field of the negotiation is set.
LEMMA FlagSet ==
  ASSUME NEW s \in Negotiations, NEW x \in SshFlags, NEW b \in BOOLEAN
  PROVE  [s EXCEPT ![x] = b] \in Negotiations
  BY FieldsApart DEF Negotiations, SshFields

LEMMA CountSet ==
  ASSUME NEW s \in Negotiations, NEW x \in SshCounts, NEW n \in Nat
  PROVE  [s EXCEPT ![x] = n] \in Negotiations
  BY FieldsApart DEF Negotiations, SshFields

LEMMA LengthSet ==
  ASSUME NEW s \in Negotiations, NEW x \in SshLengths, NEW n \in 0 .. TextCap
  PROVE  [s EXCEPT ![x] = n] \in Negotiations
  BY FieldsApart, SshConstants DEF Negotiations, SshFields

LEMMA BufferSet ==
  ASSUME NEW s \in Negotiations, NEW x \in SshBuffers, NEW q \in Seq(Nat)
  PROVE  [s EXCEPT ![x] = q] \in Negotiations
  BY FieldsApart DEF Negotiations, SshFields

\* The fields of a negotiation have their types.
LEMMA SshTyped ==
  ASSUME NEW s \in Negotiations
  PROVE  /\ \A x \in SshFlags : s[x] \in BOOLEAN
         /\ s.seq_in \in Nat /\ s.seq_out \in Nat /\ s.ctr_s2c \in Nat
         /\ s.tx_len \in 0 .. TextCap /\ s.tx_off \in 0 .. TextCap
         /\ s.binary_rx \in Seq(Nat) /\ s.encrypted_rx \in Seq(Nat)
  BY DEF Negotiations, SshCounts, SshLengths, SshBuffers

\* Sending moves the counters of the packet and nothing else.
LEMMA CountersSent ==
  ASSUME NEW h \in Hosts, NEW kind \in SentKinds, NEW f, f = SentCounters(h, kind)
  PROVE  /\ f \in Hosts /\ f.srv = h.srv /\ f.svc = [h.svc EXCEPT !.idle = 0]
         /\ f.ssh.seq_out = IF kind = "BANNER" THEN h.ssh.seq_out ELSE h.ssh.seq_out + 1
         /\ f.ssh.ctr_s2c = IF kind \in PlainKinds THEN h.ssh.ctr_s2c ELSE h.ssh.ctr_s2c + 1
         /\ \A x \in SshFields \ {"seq_out", "ctr_s2c"} : f.ssh[x] = h.ssh[x]
  <1>0. PICK n, m : /\ n = IF kind = "BANNER" THEN h.ssh.seq_out ELSE h.ssh.seq_out + 1
                    /\ m = IF kind \in PlainKinds THEN h.ssh.ctr_s2c ELSE h.ssh.ctr_s2c + 1
    OBVIOUS
  <1>1. h.ssh \in Negotiations /\ h.svc \in SshServices
    BY DEF Hosts
  <1>2. n \in Nat /\ m \in Nat
    BY <1>0, <1>1, SshTyped
  <1>3. f = [h EXCEPT !.ssh.seq_out = n, !.ssh.ctr_s2c = m, !.svc.idle = 0]
    BY <1>0, <1>1 DEF SentCounters, Hosts, Negotiations, SshFields, SshCounts
  <1>4. f.srv = h.srv /\ f.svc = [h.svc EXCEPT !.idle = 0] /\ f.ssh = [h.ssh EXCEPT !.seq_out = n, !.ctr_s2c = m]
    BY <1>3 DEF Hosts
  <1>5. /\ f.ssh \in Negotiations /\ f.ssh.seq_out = n /\ f.ssh.ctr_s2c = m
        /\ \A x \in SshFields \ {"seq_out", "ctr_s2c"} : f.ssh[x] = h.ssh[x]
    <2>1. [h.ssh EXCEPT !["seq_out"] = n] \in Negotiations
      BY <1>1, <1>2, CountSet DEF SshCounts
    <2>2. [[h.ssh EXCEPT !["seq_out"] = n] EXCEPT !["ctr_s2c"] = m] \in Negotiations
      BY <1>2, <2>1, CountSet DEF SshCounts
    <2>3. f.ssh = [[h.ssh EXCEPT !["seq_out"] = n] EXCEPT !["ctr_s2c"] = m]
      BY ONLY <1>1, <1>4 DEF Negotiations, SshFields, SshCounts
    <2>4. f.ssh \in Negotiations
      BY <2>2, <2>3
    <2>5. f.ssh.seq_out = n /\ f.ssh.ctr_s2c = m
      BY ONLY <1>1, <1>4 DEF Negotiations, SshFields, SshCounts
    <2>6. \A x \in SshFields \ {"seq_out", "ctr_s2c"} : f.ssh[x] = h.ssh[x]
      BY ONLY <1>1, <1>4 DEF Negotiations
    <2>7. QED
      BY <2>4, <2>5, <2>6
  <1>6. [h.svc EXCEPT !.idle = 0] \in SshServices
    BY <1>1, SshConstants DEF SshServices
  <1>7. f \in Hosts
    BY <1>3, <1>4, <1>5, <1>6 DEF Hosts
  <1>8. QED
    BY <1>0, <1>4, <1>5, <1>7

\* The flags, from the host whose counters have moved.
LEMMA FlagsSent ==
  ASSUME NEW f \in Hosts, f.ssh.tx_off <= f.ssh.tx_len, NEW kind \in SentKinds,
         NEW g, g = SentFlags(f, kind)
  PROVE  /\ g \in Hosts /\ g.ssh.tx_off <= g.ssh.tx_len /\ FlagsOf(f, g, kind)
         /\ g.ssh.seq_out = f.ssh.seq_out /\ g.ssh.ctr_s2c = f.ssh.ctr_s2c
  <1>1. f.ssh \in Negotiations /\ f.svc \in SshServices
    BY DEF Hosts
  <1>2. CASE kind = "BANNER"
    <2>1. g = [f EXCEPT !.svc.banner_sent = TRUE]
      BY <1>1, <1>2 DEF SentFlags, Hosts, Negotiations, SshFields, SshFlags, SshCounts, SshLengths, SshBuffers
    <2>2. g.srv = f.srv /\ g.ssh = f.ssh /\ g.svc = [f.svc EXCEPT !.banner_sent = TRUE]
      BY <2>1 DEF Hosts
    <2>3. g.ssh \in Negotiations
      BY <1>1, <2>2
    <2>4. g.svc \in SshServices
      BY <1>1, <2>2, SshConstants DEF SshServices
    <2>5. g \in Hosts
      BY <2>1, <2>2, <2>3, <2>4 DEF Hosts
    <2>6. FlagsOf(f, g, kind)
      BY ONLY <1>1, <1>2, <2>2 DEF FlagsOf, Negotiations, SshFields, SshFlags, SshCounts, SshLengths, SshBuffers, SshServices
    <2>7. /\ g.ssh.tx_off <= g.ssh.tx_len
          /\ g.ssh.seq_out = f.ssh.seq_out /\ g.ssh.ctr_s2c = f.ssh.ctr_s2c
      BY ONLY <1>1, f.ssh.tx_off <= f.ssh.tx_len, <1>2, <2>2 DEF Negotiations, SshFields, SshFlags, SshCounts, SshLengths, SshBuffers
    <2>8. QED
      BY <2>5, <2>6, <2>7
  <1>3. CASE kind = "KEXINIT"
    <2>1. g = [f EXCEPT !.ssh.server_kexinit_sent = TRUE]
      BY <1>1, <1>3 DEF SentFlags, Hosts, Negotiations, SshFields, SshFlags, SshCounts, SshLengths, SshBuffers
    <2>2. g.srv = f.srv /\ g.ssh = [f.ssh EXCEPT !.server_kexinit_sent = TRUE] /\ g.svc = f.svc
      BY <2>1 DEF Hosts
    <2>3. g.ssh \in Negotiations
      BY <1>1, <2>2, FlagSet, SshConstants DEF SshFlags, SshLengths
    <2>4. g.svc \in SshServices
      BY <1>1, <2>2, SshConstants DEF SshServices
    <2>5. g \in Hosts
      BY <2>1, <2>2, <2>3, <2>4 DEF Hosts
    <2>6. FlagsOf(f, g, kind)
      BY ONLY <1>1, <1>3, <2>2 DEF FlagsOf, Negotiations, SshFields, SshFlags, SshCounts, SshLengths, SshBuffers, SshServices
    <2>7. /\ g.ssh.tx_off <= g.ssh.tx_len
          /\ g.ssh.seq_out = f.ssh.seq_out /\ g.ssh.ctr_s2c = f.ssh.ctr_s2c
      BY ONLY <1>1, f.ssh.tx_off <= f.ssh.tx_len, <1>3, <2>2 DEF Negotiations, SshFields, SshFlags, SshCounts, SshLengths, SshBuffers
    <2>8. QED
      BY <2>5, <2>6, <2>7
  <1>4. CASE kind = "DISCONNECT"
    <2>1. g = [f EXCEPT !.ssh.disconnect_sent = TRUE, !.svc.close_polls = ClosePolls]
      BY <1>1, <1>4 DEF SentFlags, Hosts, Negotiations, SshFields, SshFlags, SshCounts, SshLengths, SshBuffers
    <2>2. g.srv = f.srv /\ g.ssh = [f.ssh EXCEPT !.disconnect_sent = TRUE] /\ g.svc = [f.svc EXCEPT !.close_polls = ClosePolls]
      BY <2>1 DEF Hosts
    <2>3. g.ssh \in Negotiations
      BY <1>1, <2>2, FlagSet, SshConstants DEF SshFlags, SshLengths
    <2>4. g.svc \in SshServices
      BY <1>1, <2>2, SshConstants DEF SshServices
    <2>5. g \in Hosts
      BY <2>1, <2>2, <2>3, <2>4 DEF Hosts
    <2>6. FlagsOf(f, g, kind)
      BY ONLY <1>1, <1>4, <2>2 DEF FlagsOf, Negotiations, SshFields, SshFlags, SshCounts, SshLengths, SshBuffers, SshServices
    <2>7. /\ g.ssh.tx_off <= g.ssh.tx_len
          /\ g.ssh.seq_out = f.ssh.seq_out /\ g.ssh.ctr_s2c = f.ssh.ctr_s2c
      BY ONLY <1>1, f.ssh.tx_off <= f.ssh.tx_len, <1>4, <2>2 DEF Negotiations, SshFields, SshFlags, SshCounts, SshLengths, SshBuffers
    <2>8. QED
      BY <2>5, <2>6, <2>7
  <1>5. CASE kind = "ECDH_REPLY"
    <2>1. g = [f EXCEPT !.ssh.ecdh_reply_sent = TRUE]
      BY <1>1, <1>5 DEF SentFlags, Hosts, Negotiations, SshFields, SshFlags, SshCounts, SshLengths, SshBuffers
    <2>2. g.srv = f.srv /\ g.ssh = [f.ssh EXCEPT !.ecdh_reply_sent = TRUE] /\ g.svc = f.svc
      BY <2>1 DEF Hosts
    <2>3. g.ssh \in Negotiations
      BY <1>1, <2>2, FlagSet, SshConstants DEF SshFlags, SshLengths
    <2>4. g.svc \in SshServices
      BY <1>1, <2>2, SshConstants DEF SshServices
    <2>5. g \in Hosts
      BY <2>1, <2>2, <2>3, <2>4 DEF Hosts
    <2>6. FlagsOf(f, g, kind)
      BY ONLY <1>1, <1>5, <2>2 DEF FlagsOf, Negotiations, SshFields, SshFlags, SshCounts, SshLengths, SshBuffers, SshServices
    <2>7. /\ g.ssh.tx_off <= g.ssh.tx_len
          /\ g.ssh.seq_out = f.ssh.seq_out /\ g.ssh.ctr_s2c = f.ssh.ctr_s2c
      BY ONLY <1>1, f.ssh.tx_off <= f.ssh.tx_len, <1>5, <2>2 DEF Negotiations, SshFields, SshFlags, SshCounts, SshLengths, SshBuffers
    <2>8. QED
      BY <2>5, <2>6, <2>7
  <1>6. CASE kind = "NEWKEYS"
    <2>1. g = [f EXCEPT !.ssh.newkeys_sent = TRUE, !.ssh.out_encrypted = TRUE]
      BY <1>1, <1>6 DEF SentFlags, Hosts, Negotiations, SshFields, SshFlags, SshCounts, SshLengths, SshBuffers
    <2>2. g.srv = f.srv /\ g.ssh = [f.ssh EXCEPT !.newkeys_sent = TRUE, !.out_encrypted = TRUE] /\ g.svc = f.svc
      BY <2>1 DEF Hosts
    <2>3. g.ssh \in Negotiations
      <3>1. [f.ssh EXCEPT !.newkeys_sent = TRUE] \in Negotiations
        BY <1>1, FlagSet DEF SshFlags, SshLengths
      <3>2. [[f.ssh EXCEPT !.newkeys_sent = TRUE] EXCEPT !.out_encrypted = TRUE] \in Negotiations
        BY <1>1, <3>1, FlagSet DEF SshFlags, SshLengths
      <3>3. QED
        BY <2>2, <3>2
    <2>4. g.svc \in SshServices
      BY <1>1, <2>2, SshConstants DEF SshServices
    <2>5. g \in Hosts
      BY <2>1, <2>2, <2>3, <2>4 DEF Hosts
    <2>6. FlagsOf(f, g, kind)
      BY ONLY <1>1, <1>6, <2>2 DEF FlagsOf, Negotiations, SshFields, SshFlags, SshCounts, SshLengths, SshBuffers, SshServices
    <2>7. /\ g.ssh.tx_off <= g.ssh.tx_len
          /\ g.ssh.seq_out = f.ssh.seq_out /\ g.ssh.ctr_s2c = f.ssh.ctr_s2c
      BY ONLY <1>1, f.ssh.tx_off <= f.ssh.tx_len, <1>6, <2>2 DEF Negotiations, SshFields, SshFlags, SshCounts, SshLengths, SshBuffers
    <2>8. QED
      BY <2>5, <2>6, <2>7
  <1>7. CASE kind = "SERVICE_ACCEPT"
    <2>1. g = [f EXCEPT !.ssh.service_accept_sent = TRUE, !.ssh.service_accept = FALSE]
      BY <1>1, <1>7 DEF SentFlags, Hosts, Negotiations, SshFields, SshFlags, SshCounts, SshLengths, SshBuffers
    <2>2. g.srv = f.srv /\ g.ssh = [f.ssh EXCEPT !.service_accept_sent = TRUE, !.service_accept = FALSE] /\ g.svc = f.svc
      BY <2>1 DEF Hosts
    <2>3. g.ssh \in Negotiations
      <3>1. [f.ssh EXCEPT !.service_accept_sent = TRUE] \in Negotiations
        BY <1>1, FlagSet DEF SshFlags, SshLengths
      <3>2. [[f.ssh EXCEPT !.service_accept_sent = TRUE] EXCEPT !.service_accept = FALSE] \in Negotiations
        BY <1>1, <3>1, FlagSet DEF SshFlags, SshLengths
      <3>3. QED
        BY <2>2, <3>2
    <2>4. g.svc \in SshServices
      BY <1>1, <2>2, SshConstants DEF SshServices
    <2>5. g \in Hosts
      BY <2>1, <2>2, <2>3, <2>4 DEF Hosts
    <2>6. FlagsOf(f, g, kind)
      BY ONLY <1>1, <1>7, <2>2 DEF FlagsOf, Negotiations, SshFields, SshFlags, SshCounts, SshLengths, SshBuffers, SshServices
    <2>7. /\ g.ssh.tx_off <= g.ssh.tx_len
          /\ g.ssh.seq_out = f.ssh.seq_out /\ g.ssh.ctr_s2c = f.ssh.ctr_s2c
      BY ONLY <1>1, f.ssh.tx_off <= f.ssh.tx_len, <1>7, <2>2 DEF Negotiations, SshFields, SshFlags, SshCounts, SshLengths, SshBuffers
    <2>8. QED
      BY <2>5, <2>6, <2>7
  <1>8. CASE kind = "AUTH_SUCCESS"
    <2>1. g = [f EXCEPT !.ssh.auth_success = FALSE]
      BY <1>1, <1>8 DEF SentFlags, Hosts, Negotiations, SshFields, SshFlags, SshCounts, SshLengths, SshBuffers
    <2>2. g.srv = f.srv /\ g.ssh = [f.ssh EXCEPT !.auth_success = FALSE] /\ g.svc = f.svc
      BY <2>1 DEF Hosts
    <2>3. g.ssh \in Negotiations
      BY <1>1, <2>2, FlagSet, SshConstants DEF SshFlags, SshLengths
    <2>4. g.svc \in SshServices
      BY <1>1, <2>2, SshConstants DEF SshServices
    <2>5. g \in Hosts
      BY <2>1, <2>2, <2>3, <2>4 DEF Hosts
    <2>6. FlagsOf(f, g, kind)
      BY ONLY <1>1, <1>8, <2>2 DEF FlagsOf, Negotiations, SshFields, SshFlags, SshCounts, SshLengths, SshBuffers, SshServices
    <2>7. /\ g.ssh.tx_off <= g.ssh.tx_len
          /\ g.ssh.seq_out = f.ssh.seq_out /\ g.ssh.ctr_s2c = f.ssh.ctr_s2c
      BY ONLY <1>1, f.ssh.tx_off <= f.ssh.tx_len, <1>8, <2>2 DEF Negotiations, SshFields, SshFlags, SshCounts, SshLengths, SshBuffers
    <2>8. QED
      BY <2>5, <2>6, <2>7
  <1>9. CASE kind = "AUTH_FAILURE"
    <2>1. g = [f EXCEPT !.ssh.auth_failure = FALSE]
      BY <1>1, <1>9 DEF SentFlags, Hosts, Negotiations, SshFields, SshFlags, SshCounts, SshLengths, SshBuffers
    <2>2. g.srv = f.srv /\ g.ssh = [f.ssh EXCEPT !.auth_failure = FALSE] /\ g.svc = f.svc
      BY <2>1 DEF Hosts
    <2>3. g.ssh \in Negotiations
      BY <1>1, <2>2, FlagSet, SshConstants DEF SshFlags, SshLengths
    <2>4. g.svc \in SshServices
      BY <1>1, <2>2, SshConstants DEF SshServices
    <2>5. g \in Hosts
      BY <2>1, <2>2, <2>3, <2>4 DEF Hosts
    <2>6. FlagsOf(f, g, kind)
      BY ONLY <1>1, <1>9, <2>2 DEF FlagsOf, Negotiations, SshFields, SshFlags, SshCounts, SshLengths, SshBuffers, SshServices
    <2>7. /\ g.ssh.tx_off <= g.ssh.tx_len
          /\ g.ssh.seq_out = f.ssh.seq_out /\ g.ssh.ctr_s2c = f.ssh.ctr_s2c
      BY ONLY <1>1, f.ssh.tx_off <= f.ssh.tx_len, <1>9, <2>2 DEF Negotiations, SshFields, SshFlags, SshCounts, SshLengths, SshBuffers
    <2>8. QED
      BY <2>5, <2>6, <2>7
  <1>10. CASE kind = "OPEN_CONFIRM"
    <2>1. g = [f EXCEPT !.ssh.open_confirm = FALSE]
      BY <1>1, <1>10 DEF SentFlags, Hosts, Negotiations, SshFields, SshFlags, SshCounts, SshLengths, SshBuffers
    <2>2. g.srv = f.srv /\ g.ssh = [f.ssh EXCEPT !.open_confirm = FALSE] /\ g.svc = f.svc
      BY <2>1 DEF Hosts
    <2>3. g.ssh \in Negotiations
      BY <1>1, <2>2, FlagSet, SshConstants DEF SshFlags, SshLengths
    <2>4. g.svc \in SshServices
      BY <1>1, <2>2, SshConstants DEF SshServices
    <2>5. g \in Hosts
      BY <2>1, <2>2, <2>3, <2>4 DEF Hosts
    <2>6. FlagsOf(f, g, kind)
      BY ONLY <1>1, <1>10, <2>2 DEF FlagsOf, Negotiations, SshFields, SshFlags, SshCounts, SshLengths, SshBuffers, SshServices
    <2>7. /\ g.ssh.tx_off <= g.ssh.tx_len
          /\ g.ssh.seq_out = f.ssh.seq_out /\ g.ssh.ctr_s2c = f.ssh.ctr_s2c
      BY ONLY <1>1, f.ssh.tx_off <= f.ssh.tx_len, <1>10, <2>2 DEF Negotiations, SshFields, SshFlags, SshCounts, SshLengths, SshBuffers
    <2>8. QED
      BY <2>5, <2>6, <2>7
  <1>11. CASE kind = "SUCCESS"
    <2>1. g = [f EXCEPT !.ssh.success = FALSE]
      BY <1>1, <1>11 DEF SentFlags, Hosts, Negotiations, SshFields, SshFlags, SshCounts, SshLengths, SshBuffers
    <2>2. g.srv = f.srv /\ g.ssh = [f.ssh EXCEPT !.success = FALSE] /\ g.svc = f.svc
      BY <2>1 DEF Hosts
    <2>3. g.ssh \in Negotiations
      BY <1>1, <2>2, FlagSet, SshConstants DEF SshFlags, SshLengths
    <2>4. g.svc \in SshServices
      BY <1>1, <2>2, SshConstants DEF SshServices
    <2>5. g \in Hosts
      BY <2>1, <2>2, <2>3, <2>4 DEF Hosts
    <2>6. FlagsOf(f, g, kind)
      BY ONLY <1>1, <1>11, <2>2 DEF FlagsOf, Negotiations, SshFields, SshFlags, SshCounts, SshLengths, SshBuffers, SshServices
    <2>7. /\ g.ssh.tx_off <= g.ssh.tx_len
          /\ g.ssh.seq_out = f.ssh.seq_out /\ g.ssh.ctr_s2c = f.ssh.ctr_s2c
      BY ONLY <1>1, f.ssh.tx_off <= f.ssh.tx_len, <1>11, <2>2 DEF Negotiations, SshFields, SshFlags, SshCounts, SshLengths, SshBuffers
    <2>8. QED
      BY <2>5, <2>6, <2>7
  <1>12. CASE kind = "FAILURE"
    <2>1. g = [f EXCEPT !.ssh.failure = FALSE]
      BY <1>1, <1>12 DEF SentFlags, Hosts, Negotiations, SshFields, SshFlags, SshCounts, SshLengths, SshBuffers
    <2>2. g.srv = f.srv /\ g.ssh = [f.ssh EXCEPT !.failure = FALSE] /\ g.svc = f.svc
      BY <2>1 DEF Hosts
    <2>3. g.ssh \in Negotiations
      BY <1>1, <2>2, FlagSet, SshConstants DEF SshFlags, SshLengths
    <2>4. g.svc \in SshServices
      BY <1>1, <2>2, SshConstants DEF SshServices
    <2>5. g \in Hosts
      BY <2>1, <2>2, <2>3, <2>4 DEF Hosts
    <2>6. FlagsOf(f, g, kind)
      BY ONLY <1>1, <1>12, <2>2 DEF FlagsOf, Negotiations, SshFields, SshFlags, SshCounts, SshLengths, SshBuffers, SshServices
    <2>7. /\ g.ssh.tx_off <= g.ssh.tx_len
          /\ g.ssh.seq_out = f.ssh.seq_out /\ g.ssh.ctr_s2c = f.ssh.ctr_s2c
      BY ONLY <1>1, f.ssh.tx_off <= f.ssh.tx_len, <1>12, <2>2 DEF Negotiations, SshFields, SshFlags, SshCounts, SshLengths, SshBuffers
    <2>8. QED
      BY <2>5, <2>6, <2>7
  <1>13. CASE kind = "EXIT_STATUS"
    <2>1. g = [f EXCEPT !.ssh.exit_status = FALSE]
      BY <1>1, <1>13 DEF SentFlags, Hosts, Negotiations, SshFields, SshFlags, SshCounts, SshLengths, SshBuffers
    <2>2. g.srv = f.srv /\ g.ssh = [f.ssh EXCEPT !.exit_status = FALSE] /\ g.svc = f.svc
      BY <2>1 DEF Hosts
    <2>3. g.ssh \in Negotiations
      BY <1>1, <2>2, FlagSet, SshConstants DEF SshFlags, SshLengths
    <2>4. g.svc \in SshServices
      BY <1>1, <2>2, SshConstants DEF SshServices
    <2>5. g \in Hosts
      BY <2>1, <2>2, <2>3, <2>4 DEF Hosts
    <2>6. FlagsOf(f, g, kind)
      BY ONLY <1>1, <1>13, <2>2 DEF FlagsOf, Negotiations, SshFields, SshFlags, SshCounts, SshLengths, SshBuffers, SshServices
    <2>7. /\ g.ssh.tx_off <= g.ssh.tx_len
          /\ g.ssh.seq_out = f.ssh.seq_out /\ g.ssh.ctr_s2c = f.ssh.ctr_s2c
      BY ONLY <1>1, f.ssh.tx_off <= f.ssh.tx_len, <1>13, <2>2 DEF Negotiations, SshFields, SshFlags, SshCounts, SshLengths, SshBuffers
    <2>8. QED
      BY <2>5, <2>6, <2>7
  <1>14. CASE kind = "CLOSE"
    <2>1. g = [f EXCEPT !.ssh.close = FALSE, !.ssh.close_sent = TRUE]
      BY <1>1, <1>14 DEF SentFlags, Hosts, Negotiations, SshFields, SshFlags, SshCounts, SshLengths, SshBuffers
    <2>2. g.srv = f.srv /\ g.ssh = [f.ssh EXCEPT !.close = FALSE, !.close_sent = TRUE] /\ g.svc = f.svc
      BY <2>1 DEF Hosts
    <2>3. g.ssh \in Negotiations
      <3>1. [f.ssh EXCEPT !.close = FALSE] \in Negotiations
        BY <1>1, FlagSet DEF SshFlags, SshLengths
      <3>2. [[f.ssh EXCEPT !.close = FALSE] EXCEPT !.close_sent = TRUE] \in Negotiations
        BY <1>1, <3>1, FlagSet DEF SshFlags, SshLengths
      <3>3. QED
        BY <2>2, <3>2
    <2>4. g.svc \in SshServices
      BY <1>1, <2>2, SshConstants DEF SshServices
    <2>5. g \in Hosts
      BY <2>1, <2>2, <2>3, <2>4 DEF Hosts
    <2>6. FlagsOf(f, g, kind)
      BY ONLY <1>1, <1>14, <2>2 DEF FlagsOf, Negotiations, SshFields, SshFlags, SshCounts, SshLengths, SshBuffers, SshServices
    <2>7. /\ g.ssh.tx_off <= g.ssh.tx_len
          /\ g.ssh.seq_out = f.ssh.seq_out /\ g.ssh.ctr_s2c = f.ssh.ctr_s2c
      BY ONLY <1>1, f.ssh.tx_off <= f.ssh.tx_len, <1>14, <2>2 DEF Negotiations, SshFields, SshFlags, SshCounts, SshLengths, SshBuffers
    <2>8. QED
      BY <2>5, <2>6, <2>7
  <1>15. f.ssh.tx_off \in 0 .. TextCap /\ f.ssh.tx_len \in 0 .. TextCap
    BY <1>1, SshTyped
  <1>16. CASE kind = "DATA" /\ f.ssh.tx_off + 1 < f.ssh.tx_len
    <2>1. g = [f EXCEPT !.ssh.tx_off = f.ssh.tx_off + 1]
      BY <1>1, <1>16 DEF SentFlags, Hosts, Negotiations, SshFields, SshFlags, SshCounts, SshLengths, SshBuffers
    <2>2. g.srv = f.srv /\ g.ssh = [f.ssh EXCEPT !.tx_off = f.ssh.tx_off + 1] /\ g.svc = f.svc
      BY <2>1 DEF Hosts
    <2>3. g.ssh \in Negotiations
      BY <1>1, <1>15, <1>16, <2>2, LengthSet, SshConstants DEF SshFlags, SshLengths
    <2>4. g.svc \in SshServices
      BY <1>1, <2>2, SshConstants DEF SshServices
    <2>5. g \in Hosts
      BY <2>1, <2>2, <2>3, <2>4 DEF Hosts
    <2>6. FlagsOf(f, g, kind)
      BY ONLY <1>1, <1>16, <2>2 DEF FlagsOf, Negotiations, SshFields, SshFlags, SshCounts, SshLengths, SshBuffers, SshServices
    <2>7. /\ g.ssh.tx_off <= g.ssh.tx_len
          /\ g.ssh.seq_out = f.ssh.seq_out /\ g.ssh.ctr_s2c = f.ssh.ctr_s2c
      BY ONLY <1>1, f.ssh.tx_off <= f.ssh.tx_len, <1>15, <1>16, <1>16, <2>2 DEF Negotiations, SshFields, SshFlags, SshCounts, SshLengths, SshBuffers
    <2>8. QED
      BY <2>5, <2>6, <2>7
  <1>17. CASE kind = "DATA" /\ ~(f.ssh.tx_off + 1 < f.ssh.tx_len)
    <2>1. g = [f EXCEPT !.ssh.data = FALSE, !.ssh.tx_len = 0, !.ssh.tx_off = 0]
      BY <1>1, <1>17 DEF SentFlags, Hosts, Negotiations, SshFields, SshFlags, SshCounts, SshLengths, SshBuffers
    <2>2. g.srv = f.srv /\ g.ssh = [f.ssh EXCEPT !.data = FALSE, !.tx_len = 0, !.tx_off = 0] /\ g.svc = f.svc
      BY <2>1 DEF Hosts
    <2>3. g.ssh \in Negotiations
      <3>1. [f.ssh EXCEPT !.data = FALSE] \in Negotiations
        BY <1>1, FlagSet DEF SshFlags, SshLengths
      <3>0. 0 \in 0 .. TextCap
        BY SshConstants
      <3>2. [[f.ssh EXCEPT !.data = FALSE] EXCEPT !.tx_len = 0] \in Negotiations
        BY <1>1, <3>1, <3>0, LengthSet DEF SshFlags, SshLengths
      <3>3. [[[f.ssh EXCEPT !.data = FALSE] EXCEPT !.tx_len = 0] EXCEPT !.tx_off = 0] \in Negotiations
        BY <1>1, <3>2, <3>0, LengthSet DEF SshFlags, SshLengths
      <3>4. QED
        BY <2>2, <3>3
    <2>4. g.svc \in SshServices
      BY <1>1, <2>2, SshConstants DEF SshServices
    <2>5. g \in Hosts
      BY <2>1, <2>2, <2>3, <2>4 DEF Hosts
    <2>6. FlagsOf(f, g, kind)
      BY ONLY <1>1, <1>17, <2>2 DEF FlagsOf, Negotiations, SshFields, SshFlags, SshCounts, SshLengths, SshBuffers, SshServices
    <2>7. /\ g.ssh.tx_off <= g.ssh.tx_len
          /\ g.ssh.seq_out = f.ssh.seq_out /\ g.ssh.ctr_s2c = f.ssh.ctr_s2c
      BY ONLY <1>1, f.ssh.tx_off <= f.ssh.tx_len, <1>17, <2>2 DEF Negotiations, SshFields, SshFlags, SshCounts, SshLengths, SshBuffers
    <2>8. QED
      BY <2>5, <2>6, <2>7
  <1>18. QED
    BY KindsAre, <1>2, <1>3, <1>4, <1>5, <1>6, <1>7, <1>8, <1>9, <1>10, <1>11, <1>12, <1>13, <1>14, <1>16, <1>17

\* The server after each kind of packet is in range.
LEMMA SendingKeeps ==
  ASSUME NEW h \in Hosts, h.ssh.tx_off <= h.ssh.tx_len, NEW kind \in SentKinds,
         NEW g, g = Sent(h, kind)
  PROVE  g \in Hosts /\ g.ssh.tx_off <= g.ssh.tx_len /\ Sending(h, g, kind)
  <1>1. PICK f : f = SentCounters(h, kind)
    OBVIOUS
  <1>2. g = SentFlags(f, kind)
    BY <1>1 DEF Sent
  <1>3. /\ f \in Hosts /\ f.srv = h.srv /\ f.svc = [h.svc EXCEPT !.idle = 0]
        /\ f.ssh.seq_out = IF kind = "BANNER" THEN h.ssh.seq_out ELSE h.ssh.seq_out + 1
        /\ f.ssh.ctr_s2c = IF kind \in PlainKinds THEN h.ssh.ctr_s2c ELSE h.ssh.ctr_s2c + 1
        /\ \A x \in SshFields \ {"seq_out", "ctr_s2c"} : f.ssh[x] = h.ssh[x]
    BY <1>1, CountersSent
  <1>4. f.ssh.tx_off <= f.ssh.tx_len
    BY <1>3 DEF SshFields, SshLengths
  <1>5. /\ g \in Hosts /\ g.ssh.tx_off <= g.ssh.tx_len /\ FlagsOf(f, g, kind)
        /\ g.ssh.seq_out = f.ssh.seq_out /\ g.ssh.ctr_s2c = f.ssh.ctr_s2c
    BY <1>2, <1>3, <1>4, FlagsSent
  <1>6. /\ f.svc.seen = h.svc.seen /\ f.svc.enabled = h.svc.enabled
        /\ f.svc.client_banner_seen = h.svc.client_banner_seen /\ f.svc.banner_sent = h.svc.banner_sent
    BY <1>3 DEF Hosts, SshServices
  <1>7. FlagsOf(h, g, kind)
    BY <1>3, <1>5, <1>6 DEF FlagsOf, SshFields, SshFlags, SshCounts, SshLengths, SshBuffers
  <1>8. QED
    BY <1>3, <1>5, <1>7 DEF Sending

\* What the order of TxOrder says of the packet chosen.
LEMMA Chosen ==
  ASSUME NEW h, NEW kind, kind = TxKind(h), kind # "NONE"
  PROVE  /\ kind \in SentKinds /\ Connected(h)
         /\ kind = "BANNER" => ~h.svc.banner_sent
         /\ kind # "BANNER" => h.svc.banner_sent
         /\ kind = "KEXINIT" => h.svc.client_banner_seen /\ ~h.ssh.server_kexinit_sent
         /\ kind \in {"BANNER", "KEXINIT"} \/ ~(h.svc.client_banner_seen /\ ~h.ssh.server_kexinit_sent)
         /\ kind = "DISCONNECT" => ~h.ssh.algorithms
         /\ kind = "ECDH_REPLY" => h.ssh.ecdh_ready /\ ~h.ssh.ecdh_reply_sent
         /\ kind = "NEWKEYS" => h.ssh.ecdh_reply_sent /\ ~h.ssh.newkeys_sent
         /\ kind = "SERVICE_ACCEPT" => h.ssh.service_accept
         /\ kind = "AUTH_SUCCESS" => h.ssh.auth_success
         /\ kind = "OPEN_CONFIRM" => h.ssh.open_confirm
         /\ kind = "EXIT_STATUS" => h.ssh.exit_status
         /\ kind = "CLOSE" => h.ssh.close /\ ~h.ssh.exit_status
         /\ kind \in {"EXIT_STATUS", "CLOSE"} => \A k \in SentKinds \ {"EXIT_STATUS", "CLOSE"} : ~Due(h)[k]
  <1>1. PICK i \in 1 .. 14 : /\ kind = TxOrder[i] /\ Connected(h) /\ Due(h)[TxOrder[i]]
                             /\ \A j \in 1 .. i - 1 : ~Due(h)[TxOrder[j]]
    BY LeastDue
  <1>2. /\ TxOrder[1] = "BANNER" /\ TxOrder[2] = "KEXINIT" /\ TxOrder[3] = "DISCONNECT"
        /\ TxOrder[4] = "ECDH_REPLY" /\ TxOrder[5] = "NEWKEYS" /\ TxOrder[6] = "SERVICE_ACCEPT"
        /\ TxOrder[7] = "AUTH_SUCCESS" /\ TxOrder[8] = "AUTH_FAILURE" /\ TxOrder[9] = "OPEN_CONFIRM"
        /\ TxOrder[10] = "SUCCESS" /\ TxOrder[11] = "FAILURE" /\ TxOrder[12] = "DATA"
        /\ TxOrder[13] = "EXIT_STATUS" /\ TxOrder[14] = "CLOSE"
    BY DEF TxOrder
  <1>3. kind \in SentKinds /\ Connected(h)
    BY <1>1 DEF SentKinds
  <1>4. /\ Due(h)["BANNER"] <=> ~h.svc.banner_sent
        /\ Due(h)["KEXINIT"] <=> h.svc.client_banner_seen /\ ~h.ssh.server_kexinit_sent
        /\ Due(h)["DISCONNECT"] => ~h.ssh.algorithms
        /\ Due(h)["ECDH_REPLY"] <=> h.ssh.ecdh_ready /\ ~h.ssh.ecdh_reply_sent
        /\ Due(h)["NEWKEYS"] <=> h.ssh.ecdh_reply_sent /\ ~h.ssh.newkeys_sent
        /\ Due(h)["SERVICE_ACCEPT"] => h.ssh.service_accept
        /\ Due(h)["AUTH_SUCCESS"] <=> h.ssh.auth_success
        /\ Due(h)["OPEN_CONFIRM"] <=> h.ssh.open_confirm
        /\ Due(h)["EXIT_STATUS"] <=> h.ssh.exit_status
        /\ Due(h)["CLOSE"] <=> h.ssh.close
    BY DEF Due
  <1>5. /\ kind # "BANNER" => i > 1
        /\ kind \notin {"BANNER", "KEXINIT"} => i > 2
        /\ kind = "CLOSE" => i > 13
        /\ kind \in {"EXIT_STATUS", "CLOSE"} => i > 12
    BY ONLY <1>1, <1>2
  <1>6. /\ kind # "BANNER" => h.svc.banner_sent
        /\ kind \in {"BANNER", "KEXINIT"} \/ ~(h.svc.client_banner_seen /\ ~h.ssh.server_kexinit_sent)
        /\ kind = "CLOSE" => ~h.ssh.exit_status
    BY <1>1, <1>2, <1>4, <1>5
  <1>7. ASSUME kind \in {"EXIT_STATUS", "CLOSE"}, NEW k \in SentKinds \ {"EXIT_STATUS", "CLOSE"}
        PROVE  ~Due(h)[k]
    <2>1. PICK j \in 1 .. 14 : k = TxOrder[j]
      BY <1>7 DEF SentKinds
    <2>2. j <= 12
      BY <1>2, <1>7, <2>1
    <2>3. QED
      BY <1>1, <1>5, <1>7, <2>1, <2>2
  <1>8. QED
    BY ONLY <1>1, <1>3, <1>4, <1>6, <1>7

\* A sequence with one element more.
Grown(q, r, x) == Len(r) = Len(q) + 1 /\ r[Len(q) + 1] = x /\ \A i \in 1 .. Len(q) : r[i] = q[i]

LEMMA AppendGrows ==
  ASSUME NEW S, NEW q \in Seq(S), NEW x \in S, NEW r, r = Append(q, x)
  PROVE  r \in Seq(S) /\ Grown(q, r, x) /\ Len(q) \in Nat /\ DOMAIN r = 1 .. Len(q) + 1 /\ DOMAIN q = 1 .. Len(q)
  BY DEF Grown

\* A packet more on the wire.
LEMMA SentGrows ==
  ASSUME NEW q \in Seq(SentPackets), NEW x \in SentPackets, NEW r \in Seq(SentPackets), Grown(q, r, x), NEW kind
  PROVE  /\ SentSome(r, kind) <=> SentSome(q, kind) \/ x.kind = kind
         /\ r # <<>>
  BY DEF SentSome, Grown

Ciphered(q) == {j \in DOMAIN q : q[j].ctr > 0}

\* The ciphered packets are counted as they go out.
LEMMA CipheredGrows ==
  ASSUME NEW q \in Seq(SentPackets), NEW x \in SentPackets, NEW r \in Seq(SentPackets), Grown(q, r, x)
  PROVE  /\ Cardinality(Ciphered(r)) = Cardinality(Ciphered(q)) + (IF x.ctr > 0 THEN 1 ELSE 0)
         /\ Cardinality(Ciphered(q)) \in Nat
  <1>1. Len(q) \in Nat /\ DOMAIN q = 1 .. Len(q) /\ DOMAIN r = 1 .. Len(q) + 1
    BY DEF Grown
  <1>2. IsFiniteSet(Ciphered(q))
    <2>1. IsFiniteSet(1 .. Len(q))
      BY <1>1, FS_Interval
    <2>2. QED
      BY <1>1, <2>1, FS_Subset DEF Ciphered
  <1>3. Cardinality(Ciphered(q)) \in Nat
    BY <1>2, FS_CardinalityType
  <1>4. CASE x.ctr > 0
    <2>1. Ciphered(r) = Ciphered(q) \cup {Len(q) + 1}
      BY <1>1, <1>4 DEF Ciphered, Grown
    <2>2. Len(q) + 1 \notin Ciphered(q)
      BY <1>1 DEF Ciphered
    <2>3. QED
      BY <1>2, <1>3, <1>4, <2>1, <2>2, FS_AddElement
  <1>5. CASE ~(x.ctr > 0)
    <2>1. Ciphered(r) = Ciphered(q)
      BY <1>1, <1>5 DEF Ciphered, Grown
    <2>2. QED
      BY <1>3, <1>5, <2>1
  <1>6. QED
    BY <1>4, <1>5

\* WireDecodable of what was sent.
Decodable(sent) ==
  \A i \in DOMAIN sent :
    LET before == {j \in 1 .. i - 1 : sent[j].ctr > 0}
        keyed == \E j \in 1 .. i - 1 : sent[j].kind = "NEWKEYS"
    IN  /\ sent[i].kind # "BANNER" => sent[i].seq = i - 2
        /\ sent[i].ctr = IF keyed THEN Cardinality(before) + 1 ELSE 0

\* The session after a packet was sent.
LEMMA SendKeepsSession ==
  ASSUME NEW h \in Hosts, NEW g \in Hosts, NEW w \in Wires, NEW kind, kind = TxKind(h), kind # "NONE",
         SessionInv(h, w), Decodable(w.sent), Builds(h, kind), Sending(h, g, kind),
         NEW x, x = Packet(h, kind), NEW v \in Wires, Grown(w.sent, v.sent, x)
  PROVE  SessionInv(g, v) /\ Decodable(v.sent) /\ x \in SentPackets
  <1>1. /\ h.ssh \in Negotiations /\ w.sent \in Seq(SentPackets) /\ v.sent \in Seq(SentPackets)
        /\ h.ssh.seq_out \in Nat /\ h.ssh.ctr_s2c \in Nat
    BY SshTyped DEF Hosts, Wires
  <1>2. KeysInOrder(h) /\ CountersAgree(h, w.sent) /\ HeldInOrder(h)
    BY DEF SessionInv
  <1>3. kind \in SentKinds
    BY Chosen
  <1>4. /\ x \in SentPackets /\ x.kind = kind /\ x.seq = h.ssh.seq_out
        /\ x.ctr = IF kind \in PlainKinds THEN 0 ELSE h.ssh.ctr_s2c + 1
    BY ONLY <1>1, <1>3, x = Packet(h, kind) DEF Packet, SentPackets
  <1>5. kind \in PlainKinds => ~h.ssh.out_encrypted
    <2>1. kind = "BANNER" => ~h.ssh.out_encrypted
      <3>1. kind = "BANNER" => w.sent = <<>>
        BY <1>2, Chosen DEF CountersAgree
      <3>2. ~SentSome(<<>>, "NEWKEYS")
        BY ONLY TRUE DEF SentSome
      <3>3. QED
        BY ONLY <1>2, <3>1, <3>2 DEF CountersAgree
    <2>2. QED
      BY <1>2, <2>1, Chosen DEF KeysInOrder, PlainKinds
  <1>6. kind \notin PlainKinds => h.ssh.out_encrypted
    BY DEF Builds
  <1>7. KeysInOrder(g)
    <2>1. kind = "ECDH_REPLY" => h.ssh.ecdh_ready /\ h.ssh.server_kexinit_sent
      BY <1>1, <1>2, Chosen DEF KeysInOrder
    <2>2. kind = "NEWKEYS" => h.ssh.ecdh_reply_sent
      BY Chosen
    <2>3. QED
      BY ONLY <1>2, <2>1, <2>2, Sending(h, g, kind) DEF KeysInOrder, Sending, FlagsOf, Answering
  <1>8. CountersAgree(g, v.sent)
    <2>1. /\ SentSome(v.sent, "NEWKEYS") <=> SentSome(w.sent, "NEWKEYS") \/ kind = "NEWKEYS"
          /\ SentSome(v.sent, "ECDH_REPLY") <=> SentSome(w.sent, "ECDH_REPLY") \/ kind = "ECDH_REPLY"
          /\ v.sent # <<>> /\ Len(v.sent) = Len(w.sent) + 1 /\ Len(w.sent) \in Nat
      <3>1. \A k : SentSome(v.sent, k) <=> SentSome(w.sent, k) \/ kind = k
        BY <1>1, <1>4, SentGrows
      <3>2. Len(v.sent) = Len(w.sent) + 1 /\ Len(w.sent) \in Nat /\ v.sent # <<>>
        BY ONLY <1>1, Grown(w.sent, v.sent, x) DEF Grown
      <3>3. QED
        BY ONLY <3>1, <3>2
    <2>9. Len(<<>>) = 0
      BY ONLY TRUE
    <2>2. g.ssh.ctr_s2c = Cardinality(Ciphered(v.sent))
      <3>1. h.ssh.ctr_s2c = Cardinality(Ciphered(w.sent))
        BY <1>2 DEF CountersAgree, Ciphered
      <3>2. Cardinality(Ciphered(v.sent)) = Cardinality(Ciphered(w.sent)) + (IF x.ctr > 0 THEN 1 ELSE 0)
        BY <1>1, <1>4, CipheredGrows
      <3>3. QED
        BY ONLY <1>1, <1>4, <3>1, <3>2, Sending(h, g, kind) DEF Sending
    <2>3. kind = "BANNER" <=> w.sent = <<>>
      BY <1>2, Chosen DEF CountersAgree
    <2>4. g.svc.banner_sent = (v.sent # <<>>)
      BY ONLY <1>2, <2>1, <2>3, Sending(h, g, kind) DEF Sending, FlagsOf, CountersAgree
    <2>5. g.ssh.seq_out = IF v.sent = <<>> THEN 0 ELSE Len(v.sent) - 1
      <3>1. CASE kind = "BANNER"
        BY ONLY <1>2, <2>1, <2>3, <2>9, <3>1, Sending(h, g, kind) DEF Sending, CountersAgree
      <3>2. CASE kind # "BANNER"
        BY ONLY <1>1, <1>2, <2>1, <2>3, <3>2, Sending(h, g, kind) DEF Sending, CountersAgree
      <3>3. QED
        BY <3>1, <3>2
    <2>6. g.ssh.out_encrypted = SentSome(v.sent, "NEWKEYS")
      <3>1. g.ssh.out_encrypted = IF kind = "NEWKEYS" THEN TRUE ELSE h.ssh.out_encrypted
        BY ONLY Sending(h, g, kind) DEF Sending, FlagsOf
      <3>2. h.ssh.out_encrypted = SentSome(w.sent, "NEWKEYS")
        BY <1>2 DEF CountersAgree
      <3>3. CASE kind = "NEWKEYS"
        BY ONLY <2>1, <3>1, <3>3
      <3>4. CASE kind # "NEWKEYS"
        <4>1. SentSome(v.sent, "NEWKEYS") = SentSome(w.sent, "NEWKEYS")
          BY <2>1, <3>4, Zenon DEF SentSome
        <4>2. QED
          BY ONLY <3>1, <3>2, <3>4, <4>1
      <3>5. QED
        BY <3>3, <3>4
    <2>7. SentSome(v.sent, "ECDH_REPLY") => g.ssh.ecdh_reply_sent
      BY ONLY <1>2, <2>1, Sending(h, g, kind) DEF Sending, FlagsOf, CountersAgree
    <2>8. QED
      BY <2>2, <2>4, <2>5, <2>6, <2>7 DEF CountersAgree, Ciphered
  <1>9. HeldInOrder(g)
    BY ONLY <1>2, Sending(h, g, kind) DEF Sending, FlagsOf, HeldInOrder
  <1>10. Decodable(v.sent)
    <2> SUFFICES ASSUME NEW i \in DOMAIN v.sent
        PROVE  /\ v.sent[i].kind # "BANNER" => v.sent[i].seq = i - 2
               /\ v.sent[i].ctr = IF \E j \in 1 .. i - 1 : v.sent[j].kind = "NEWKEYS"
                                  THEN Cardinality({j \in 1 .. i - 1 : v.sent[j].ctr > 0}) + 1 ELSE 0
      BY DEF Decodable
    <2>1. /\ Len(w.sent) \in Nat /\ DOMAIN w.sent = 1 .. Len(w.sent) /\ i \in 1 .. Len(w.sent) + 1
          /\ \A j \in 1 .. Len(w.sent) : v.sent[j] = w.sent[j]
      BY ONLY <1>1, i \in DOMAIN v.sent, Grown(w.sent, v.sent, x) DEF Grown
    <2>2. {j \in 1 .. i - 1 : v.sent[j].ctr > 0} = {j \in 1 .. i - 1 : w.sent[j].ctr > 0}
      BY ONLY <2>1
    <2>3. (\E j \in 1 .. i - 1 : v.sent[j].kind = "NEWKEYS") <=> (\E j \in 1 .. i - 1 : w.sent[j].kind = "NEWKEYS")
      BY ONLY <2>1
    <2>4. CASE i \in 1 .. Len(w.sent)
      BY <2>1, <2>2, <2>3, <2>4 DEF Decodable
    <2>5. CASE i = Len(w.sent) + 1
      <3>1. v.sent[i] = x
        BY <2>5 DEF Grown
      <3>2. {j \in 1 .. i - 1 : w.sent[j].ctr > 0} = Ciphered(w.sent)
        BY <2>1, <2>5 DEF Ciphered
      <3>3. (\E j \in 1 .. i - 1 : w.sent[j].kind = "NEWKEYS") <=> h.ssh.out_encrypted
        BY <1>2, <2>1, <2>5 DEF CountersAgree, SentSome
      <3>4. h.ssh.ctr_s2c = Cardinality(Ciphered(w.sent))
        BY <1>2 DEF CountersAgree, Ciphered
      <3>5. kind # "BANNER" => x.seq = i - 2
        <4>1. kind # "BANNER" => w.sent # <<>>
          BY <1>2, Chosen DEF CountersAgree
        <4>2. QED
          BY ONLY <1>2, <1>4, <2>1, <2>5, <4>1 DEF CountersAgree
      <3>6. QED
        BY <1>4, <1>5, <1>6, <2>2, <2>3, <3>1, <3>2, <3>3, <3>4, <3>5
    <2>6. QED
      BY <2>1, <2>4, <2>5
  <1>11. QED
    BY <1>4, <1>7, <1>8, <1>9, <1>10 DEF SessionInv

\* The predicates of a session depend on these parts of the host alone.
Alike(h, g) ==
  /\ g.ssh = h.ssh /\ g.svc.banner_sent = h.svc.banner_sent
  /\ g.svc.client_banner_seen = h.svc.client_banner_seen /\ g.srv.ack = h.srv.ack

\* The invariant looks at nothing but these.
LEMMA AlikeKeeps ==
  ASSUME NEW h, NEW g, Alike(h, g), NEW w, NEW out
  PROVE  /\ SessionInv(h, w) => SessionInv(g, w)
         /\ ClientKnows(h, w, out) => ClientKnows(g, w, out)
  <1>1. g.ssh = h.ssh /\ g.svc.banner_sent = h.svc.banner_sent
        /\ g.svc.client_banner_seen = h.svc.client_banner_seen /\ g.srv.ack = h.srv.ack
    BY DEF Alike
  <1>2. Due(g) = Due(h)
    BY ONLY <1>1, Zenon DEF Due
  <1>3. \A kind : Took(g, out, kind) <=> Took(h, out, kind)
    BY ONLY <1>1 DEF Took
  <1>4. KeysInOrder(h) => KeysInOrder(g)
    BY ONLY <1>1, Zenon DEF KeysInOrder
  <1>5. CountersAgree(h, w.sent) => CountersAgree(g, w.sent)
    BY ONLY <1>1, Zenon DEF CountersAgree
  <1>6. HeldInOrder(h) => HeldInOrder(g)
    BY ONLY <1>1, Zenon DEF HeldInOrder
  <1>7. AskedFor(h, w, out) => AskedFor(g, w, out)
    BY ONLY <1>1, <1>3, Zenon DEF AskedFor, Took
  <1>8. EndsOnce(h, w.sent, out) => EndsOnce(g, w.sent, out)
    <2>1. Silent(h) <=> Silent(g)
      BY <1>2 DEF Silent
    <2>2. QED
      BY ONLY <1>1, <1>3, <2>1 DEF EndsOnce
  <1>9. QED
    BY <1>1, <1>4, <1>5, <1>6, <1>7, <1>8 DEF SessionInv, ClientKnows

\* When each packet is due.
LEMMA DueAre ==
  ASSUME NEW h
  PROVE  /\ Due(h)["BANNER"] <=> ~h.svc.banner_sent
         /\ Due(h)["KEXINIT"] <=> h.svc.client_banner_seen /\ ~h.ssh.server_kexinit_sent
         /\ Due(h)["DISCONNECT"] <=> /\ h.ssh.server_kexinit_sent /\ h.ssh.client_kexinit_seen
                                    /\ ~h.ssh.algorithms /\ ~h.ssh.disconnect_sent
         /\ Due(h)["ECDH_REPLY"] <=> h.ssh.ecdh_ready /\ ~h.ssh.ecdh_reply_sent
         /\ Due(h)["NEWKEYS"] <=> h.ssh.ecdh_reply_sent /\ ~h.ssh.newkeys_sent
         /\ Due(h)["SERVICE_ACCEPT"] <=> /\ h.ssh.newkeys_sent /\ h.ssh.client_newkeys_seen
                                        /\ h.ssh.service_accept /\ ~h.ssh.service_accept_sent
         /\ Due(h)["AUTH_SUCCESS"] <=> h.ssh.auth_success
         /\ Due(h)["AUTH_FAILURE"] <=> h.ssh.auth_failure
         /\ Due(h)["OPEN_CONFIRM"] <=> h.ssh.open_confirm
         /\ Due(h)["SUCCESS"] <=> h.ssh.success
         /\ Due(h)["FAILURE"] <=> h.ssh.failure
         /\ Due(h)["DATA"] <=> h.ssh.data
         /\ Due(h)["EXIT_STATUS"] <=> h.ssh.exit_status
         /\ Due(h)["CLOSE"] <=> h.ssh.close
  BY ONLY TRUE DEF Due

\* After the status or the close nothing is due that was not before.
LEMMA DueAfterEnd ==
  ASSUME NEW h, NEW g, NEW kind \in {"EXIT_STATUS", "CLOSE"}, Sending(h, g, kind),
         NEW k \in SentKinds \ {"CLOSE"}, Due(g)[k]
  PROVE  Due(h)[k] /\ (k = "EXIT_STATUS" => kind = "CLOSE")
  <1>1. k \in {"BANNER", "KEXINIT", "DISCONNECT", "ECDH_REPLY", "NEWKEYS", "SERVICE_ACCEPT",
               "AUTH_SUCCESS", "AUTH_FAILURE", "OPEN_CONFIRM", "SUCCESS", "FAILURE", "DATA",
               "EXIT_STATUS"}
    BY KindsAre
  <1>2. FlagsOf(h, g, kind)
    BY DEF Sending
  <1>3. /\ g.svc.banner_sent = h.svc.banner_sent /\ g.svc.client_banner_seen = h.svc.client_banner_seen
        /\ g.ssh.server_kexinit_sent = h.ssh.server_kexinit_sent
        /\ g.ssh.client_kexinit_seen = h.ssh.client_kexinit_seen /\ g.ssh.algorithms = h.ssh.algorithms
        /\ g.ssh.disconnect_sent = h.ssh.disconnect_sent /\ g.ssh.ecdh_ready = h.ssh.ecdh_ready
        /\ g.ssh.ecdh_reply_sent = h.ssh.ecdh_reply_sent /\ g.ssh.newkeys_sent = h.ssh.newkeys_sent
        /\ g.ssh.client_newkeys_seen = h.ssh.client_newkeys_seen
        /\ g.ssh.service_accept = h.ssh.service_accept
        /\ g.ssh.service_accept_sent = h.ssh.service_accept_sent
        /\ g.ssh.auth_success = h.ssh.auth_success /\ g.ssh.auth_failure = h.ssh.auth_failure
        /\ g.ssh.open_confirm = h.ssh.open_confirm /\ g.ssh.success = h.ssh.success
        /\ g.ssh.failure = h.ssh.failure /\ g.ssh.data = h.ssh.data
    BY ONLY <1>2, kind \in {"EXIT_STATUS", "CLOSE"} DEF FlagsOf
  <1>4. g.ssh.exit_status = IF kind = "EXIT_STATUS" THEN FALSE ELSE h.ssh.exit_status
    BY ONLY <1>2 DEF FlagsOf
  <1>5. CASE k # "EXIT_STATUS"
    <2>1. /\ Due(g)["BANNER"] <=> Due(h)["BANNER"]
          /\ Due(g)["KEXINIT"] <=> Due(h)["KEXINIT"]
          /\ Due(g)["DISCONNECT"] <=> Due(h)["DISCONNECT"]
          /\ Due(g)["ECDH_REPLY"] <=> Due(h)["ECDH_REPLY"]
          /\ Due(g)["NEWKEYS"] <=> Due(h)["NEWKEYS"]
          /\ Due(g)["SERVICE_ACCEPT"] <=> Due(h)["SERVICE_ACCEPT"]
          /\ Due(g)["AUTH_SUCCESS"] <=> Due(h)["AUTH_SUCCESS"]
          /\ Due(g)["AUTH_FAILURE"] <=> Due(h)["AUTH_FAILURE"]
          /\ Due(g)["OPEN_CONFIRM"] <=> Due(h)["OPEN_CONFIRM"]
          /\ Due(g)["SUCCESS"] <=> Due(h)["SUCCESS"]
          /\ Due(g)["FAILURE"] <=> Due(h)["FAILURE"]
          /\ Due(g)["DATA"] <=> Due(h)["DATA"]
      BY ONLY <1>3, DueAre
    <2>2. QED
      BY ONLY <1>1, <1>5, <2>1, Due(g)[k]
  <1>6. CASE k = "EXIT_STATUS"
    BY ONLY <1>4, <1>6, kind \in {"EXIT_STATUS", "CLOSE"}, Due(g)[k], DueAre
  <1>7. QED
    BY <1>5, <1>6

\* What the client knows after a packet was sent.
LEMMA SendKeepsClient ==
  ASSUME NEW h \in Hosts, NEW g \in Hosts, NEW w \in Wires, NEW kind, kind = TxKind(h), kind # "NONE",
         Sending(h, g, kind), NEW x, x = Packet(h, kind), x \in SentPackets,
         NEW v \in Wires, Grown(w.sent, v.sent, x),
         w.got <= v.got, w.got <= Len(w.sent), NEW out, ClientKnows(h, w, out)
  PROVE  ClientKnows(g, v, out)
  <1>1. /\ w.sent \in Seq(SentPackets) /\ v.sent \in Seq(SentPackets) /\ w.got \in Nat /\ v.got \in Nat
        /\ x.kind = kind /\ kind \in SentKinds
    BY Chosen DEF Wires, Packet
  <1>2. /\ h.srv.ack <= 2 * Len(out) + 1
        /\ WrittenInOrder(out) /\ AskedFor(h, w, out) /\ EndsOnce(h, w.sent, out)
    BY DEF ClientKnows
  <1>3. FlagsOf(h, g, kind)
    BY DEF Sending
  <1>4. g.srv.ack <= 2 * Len(out) + 1
    BY <1>2, <1>3 DEF FlagsOf
  <1>5. \A k : Took(g, out, k) <=> Took(h, out, k)
    BY ONLY <1>3 DEF FlagsOf, Took
  <1>6. \A k : SentSome(v.sent, k) <=> SentSome(w.sent, k) \/ kind = k
    BY <1>1, SentGrows
  <1>7. /\ kind = "SERVICE_ACCEPT" => h.ssh.service_accept
        /\ kind = "AUTH_SUCCESS" => h.ssh.auth_success
        /\ kind = "OPEN_CONFIRM" => h.ssh.open_confirm
        /\ kind = "EXIT_STATUS" => h.ssh.exit_status
        /\ kind = "CLOSE" => h.ssh.close /\ ~h.ssh.exit_status
        /\ kind \in {"EXIT_STATUS", "CLOSE"} => \A k \in SentKinds \ {"EXIT_STATUS", "CLOSE"} : ~Due(h)[k]
    BY ONLY kind = TxKind(h), kind # "NONE", Chosen
  <1>8. AskedFor(g, v, out)
    <2>1. g.ssh.in_encrypted = Took(g, out, "NEWKEYS")
      BY ONLY <1>2, <1>3, <1>5, Zenon DEF AskedFor, FlagsOf, Took
    <2>2. g.ssh.seq_in > 0 => g.ssh.client_kexinit_seen /\ g.ssh.algorithms = (out[2] = "KEXINIT")
      BY ONLY <1>2, <1>3 DEF AskedFor, FlagsOf
    <2>3. g.ssh.ecdh_ready => Took(g, out, "ECDH")
      BY ONLY <1>2, <1>3, <1>5 DEF AskedFor, FlagsOf
    <2>4. g.ssh.service_accept \/ g.ssh.service_accept_sent \/ SentSome(v.sent, "SERVICE_ACCEPT")
            => Took(g, out, "SERVICE")
      BY ONLY <1>2, <1>3, <1>5, <1>6, <1>7 DEF AskedFor, FlagsOf
    <2>5. g.ssh.auth_success \/ SentSome(v.sent, "AUTH_SUCCESS") => Took(g, out, "SERVICE")
      BY ONLY <1>2, <1>3, <1>5, <1>6, <1>7 DEF AskedFor, FlagsOf
    <2>6. g.ssh.open_confirm \/ SentSome(v.sent, "OPEN_CONFIRM") => Took(g, out, "OPEN")
      BY ONLY <1>2, <1>3, <1>5, <1>6, <1>7 DEF AskedFor, FlagsOf
    <2>7. WroteSome(out, "NEWKEYS") => SentSome(v.sent, "ECDH_REPLY")
      BY ONLY <1>2, <1>6 DEF AskedFor
    <2>8. WroteSome(out, "OPEN") => \E i \in 1 .. v.got : v.sent[i].kind = "AUTH_SUCCESS"
      <3>1. \A i \in 1 .. w.got : i \in 1 .. v.got /\ v.sent[i] = w.sent[i]
        BY ONLY <1>1, w.got <= v.got, w.got <= Len(w.sent), Grown(w.sent, v.sent, x) DEF Grown
      <3>2. QED
        BY ONLY <1>2, <3>1 DEF AskedFor
    <2>9. QED
      BY ONLY <2>1, <2>2, <2>3, <2>4, <2>5, <2>6, <2>7, <2>8 DEF AskedFor
  <1>9. EndsOnce(g, v.sent, out)
    <2>1. \/ g.ssh.exit_status \/ g.ssh.close
          \/ SentSome(v.sent, "EXIT_STATUS") \/ SentSome(v.sent, "CLOSE")
          => Took(g, out, "EXEC") \/ Took(g, out, "EXIT") \/ Took(g, out, "EOF")
      BY ONLY <1>2, <1>3, <1>5, <1>6, <1>7 DEF EndsOnce, FlagsOf
    <2>2. ASSUME Took(g, out, "EXEC"), NEW i \in DOMAIN v.sent
          PROVE  /\ v.sent[i].kind = "CLOSE" => i = Len(v.sent) /\ g.ssh.close_sent /\ ~g.ssh.close
                 /\ v.sent[i].kind = "EXIT_STATUS" => \A j \in DOMAIN v.sent : j > i => v.sent[j].kind = "CLOSE"
                 /\ v.sent[i].kind \in {"EXIT_STATUS", "CLOSE"} => Silent(g)
      <3>1. /\ Len(w.sent) \in Nat /\ DOMAIN w.sent = 1 .. Len(w.sent) /\ i \in 1 .. Len(w.sent) + 1
            /\ DOMAIN v.sent = 1 .. Len(w.sent) + 1 /\ Len(v.sent) = Len(w.sent) + 1
            /\ v.sent[Len(w.sent) + 1] = x
            /\ \A j \in 1 .. Len(w.sent) : v.sent[j] = w.sent[j]
        BY ONLY <1>1, i \in DOMAIN v.sent, Grown(w.sent, v.sent, x) DEF Grown
      <3>2. Due(h)[kind]
        BY ONLY kind = TxKind(h), kind # "NONE", LeastDue
      <3>3. Silent(h) => kind = "CLOSE"
        BY ONLY <1>1, <3>2 DEF Silent
      <3>4. kind \in {"EXIT_STATUS", "CLOSE"} => Silent(g)
        <4> SUFFICES ASSUME kind \in {"EXIT_STATUS", "CLOSE"}, NEW k \in SentKinds \ {"CLOSE"}, Due(g)[k]
            PROVE  FALSE
          BY DEF Silent
        <4>1. Due(h)[k] /\ (k = "EXIT_STATUS" => kind = "CLOSE")
          BY DueAfterEnd
        <4>2. Due(h)["EXIT_STATUS"] <=> h.ssh.exit_status
          BY ONLY TRUE DEF Due
        <4>3. QED
          BY ONLY kind \in {"EXIT_STATUS", "CLOSE"}, k \in SentKinds \ {"CLOSE"}, <1>7, <4>1, <4>2
      <3>5. CASE i = Len(w.sent) + 1
        <4>1. kind = "CLOSE" => g.ssh.close_sent /\ ~g.ssh.close
          BY ONLY <1>3 DEF FlagsOf
        <4>2. v.sent[i].kind = kind
          BY <1>1, <3>1, <3>5
        <4>3. QED
          BY ONLY <3>1, <3>4, <3>5, <4>1, <4>2
      <3>6. CASE i \in 1 .. Len(w.sent)
        <4>0. Took(h, out, "EXEC")
          BY <1>5, <2>2
        <4>1. /\ w.sent[i].kind = "CLOSE" => h.ssh.close_sent /\ ~h.ssh.close
              /\ w.sent[i].kind = "EXIT_STATUS" => \A j \in DOMAIN w.sent : j > i => w.sent[j].kind = "CLOSE"
              /\ w.sent[i].kind \in {"EXIT_STATUS", "CLOSE"} => Silent(h)
          BY ONLY <1>2, <3>1, <3>6, <4>0 DEF EndsOnce
        <4>2. w.sent[i].kind # "CLOSE"
          BY ONLY <1>7, <3>3, <4>1
        <4>3. w.sent[i].kind = "EXIT_STATUS" => kind = "CLOSE" /\ Silent(g)
          BY ONLY <3>3, <3>4, <4>1
        <4>4. ASSUME v.sent[i].kind = "EXIT_STATUS", NEW j \in DOMAIN v.sent, j > i
              PROVE  v.sent[j].kind = "CLOSE"
          BY ONLY <1>1, <3>1, <3>6, <4>1, <4>3, <4>4
        <4>5. QED
          BY ONLY <3>1, <3>6, <4>1, <4>2, <4>3, <4>4
      <3>7. QED
        BY <3>1, <3>5, <3>6
    <2>3. QED
      BY <2>1, <2>2 DEF EndsOnce
  <1>10. QED
    BY <1>2, <1>4, <1>8, <1>9 DEF ClientKnows

\* What ProcessPacket may do to the negotiation.
HandledRest(s, t, m) ==
  /\ t.server_kexinit_sent = s.server_kexinit_sent /\ t.disconnect_sent = s.disconnect_sent
  /\ t.ecdh_reply_sent = s.ecdh_reply_sent /\ t.newkeys_sent = s.newkeys_sent
  /\ t.out_encrypted = s.out_encrypted /\ t.seq_out = s.seq_out /\ t.ctr_s2c = s.ctr_s2c
  /\ t.service_accept_sent = s.service_accept_sent
  /\ t.client_kexinit_seen = IF m \in {"KEXINIT", "KEXINIT_NONE"} THEN TRUE ELSE s.client_kexinit_seen
  /\ t.algorithms = IF m \in {"KEXINIT", "KEXINIT_NONE"} THEN m = "KEXINIT" ELSE s.algorithms
  /\ t.ecdh_ready = IF m = "ECDH" THEN TRUE ELSE s.ecdh_ready
  /\ t.client_newkeys_seen = IF m = "NEWKEYS" THEN TRUE ELSE s.client_newkeys_seen
  /\ t.in_encrypted = IF m = "NEWKEYS" THEN TRUE ELSE s.in_encrypted
  /\ t.service_accept = IF m = "SERVICE" THEN TRUE ELSE s.service_accept
  /\ t.auth_success => s.auth_success \/ m = "AUTH_GOOD"
  /\ t.auth_failure => s.auth_failure \/ m \in {"AUTH_GOOD", "AUTH_BAD"}
  /\ t.open_confirm => s.open_confirm \/ m = "OPEN"
  /\ t.success => s.success \/ m \in {"PTY", "SHELL", "EXEC"}
  /\ t.failure => s.failure \/ m = "OPEN"
  /\ t.data => s.data \/ m \in {"SHELL", "EXEC", "LINE", "EXIT"}
  /\ t.exit_status => s.exit_status \/ m \in {"EXEC", "EXIT"}
  /\ t.close => s.close \/ m \in {"EXEC", "EXIT"} \/ (m = "EOF" /\ ~s.close_sent)
  /\ m # "OPEN" => t.close_sent = s.close_sent

-----------------------------------------------------------------------------
(* Processing a packet of the client.                                      *)

\* What processing packet m does to the negotiation, and to the server.
HandledSsh(s, t, m) ==
  /\ HandledRest(s, t, m) /\ t.seq_in = s.seq_in
  /\ t.binary_rx = s.binary_rx /\ t.encrypted_rx = s.encrypted_rx

Handled(h, g, m) ==
  /\ g.srv = h.srv /\ g.svc.seen = h.svc.seen /\ g.svc.enabled = h.svc.enabled
  /\ g.svc.banner_sent = h.svc.banner_sent /\ g.svc.client_banner_seen = h.svc.client_banner_seen
  /\ HandledSsh(h.ssh, g.ssh, m)

\* The negotiation of a server is replaced.
LEMMA SshWritten ==
  ASSUME NEW h \in Hosts, NEW t \in Negotiations, NEW g, g = [h EXCEPT !.ssh = t]
  PROVE  g \in Hosts /\ g.srv = h.srv /\ g.svc = h.svc /\ g.ssh = t
  BY DEF Hosts

LEMMA MinOfTwo ==
  ASSUME NEW a \in Nat, NEW b \in Nat
  PROVE  /\ Min({a, b}) \in {a, b} /\ Min({a, b}) <= a /\ Min({a, b}) <= b
         /\ Max({a, b}) \in {a, b} /\ Max({a, b}) >= a /\ Max({a, b}) >= b
  <1>1. \E x \in {a, b} : \A y \in {a, b} : x <= y
    <2>1. CASE a <= b
      BY <2>1
    <2>2. CASE b <= a
      BY <2>2
    <2>3. QED
      BY <2>1, <2>2
  <1>2. \E x \in {a, b} : \A y \in {a, b} : x >= y
    <2>1. CASE a <= b
      BY <2>1
    <2>2. CASE b <= a
      BY <2>2
    <2>3. QED
      BY <2>1, <2>2
  <1>3. Min({a, b}) \in {a, b} /\ \A y \in {a, b} : Min({a, b}) <= y
    BY <1>1 DEF Min
  <1>4. Max({a, b}) \in {a, b} /\ \A y \in {a, b} : Max({a, b}) >= y
    BY <1>2 DEF Max
  <1>5. QED
    BY <1>3, <1>4

\* ssh_queue_channel_text keeps the text within its buffer.
LEMMA QueueKeeps ==
  ASSUME NEW s \in Negotiations, s.tx_off <= s.tx_len, NEW c \in Nat, NEW t, t = QueueText(s, c)
  PROVE  /\ t \in Negotiations /\ t.tx_off <= t.tx_len
         /\ \A x \in SshFields \ {"tx_off", "tx_len", "data"} : t[x] = s[x]
  <1>1. PICK start : start = IF s.data THEN s.tx_len ELSE 0
    OBVIOUS
  <1>2. /\ s.tx_len \in 0 .. TextCap /\ s.tx_off \in 0 .. TextCap /\ TextCap \in Nat
        /\ start \in Nat
    BY <1>1, SshTyped, SshConstants
  <1>3. CASE c = 0 \/ start >= TextCap
    <2>1. t = s
      BY ONLY <1>1, <1>3, t = QueueText(s, c) DEF QueueText
    <2>2. QED
      BY <2>1
  <1>4. CASE ~(c = 0 \/ start >= TextCap)
    <2>1. PICK n : n = Min({start + c, TextCap})
      OBVIOUS
    <2>2. n \in 0 .. TextCap /\ n >= start
      <3>1. start + c \in Nat
        BY <1>2
      <3>2. n \in {start + c, TextCap} /\ n <= TextCap /\ n <= start + c
        BY <1>2, <2>1, <3>1, MinOfTwo
      <3>3. QED
        BY <1>2, <1>4, <3>2
    <2>3. PICK m : m = IF s.data THEN s.tx_off ELSE 0
      OBVIOUS
    <2>4. m \in 0 .. TextCap /\ m <= n
      BY <1>1, <1>2, <2>2, <2>3
    <2>5. t = [[[s EXCEPT !["tx_off"] = m] EXCEPT !["tx_len"] = n] EXCEPT !["data"] = TRUE]
      <3>1. t = [s EXCEPT !.tx_off = IF s.data THEN @ ELSE 0, !.tx_len = n, !.data = TRUE]
        BY ONLY <1>1, <1>4, <2>1, t = QueueText(s, c) DEF QueueText
      <3>2. s.data => m = s.tx_off
        BY <2>3
      <3>3. ~s.data => m = 0
        BY <2>3
      <3>4. QED
        BY ONLY <3>1, <3>2, <3>3, s \in Negotiations DEF Negotiations, SshFields, SshLengths
    <2>6. [s EXCEPT !["tx_off"] = m] \in Negotiations
      BY <2>4, LengthSet DEF SshLengths
    <2>7. [[s EXCEPT !["tx_off"] = m] EXCEPT !["tx_len"] = n] \in Negotiations
      BY <2>2, <2>6, LengthSet DEF SshLengths
    <2>8. t \in Negotiations
      BY <2>5, <2>7, FlagSet DEF SshFlags
    <2>9. t.tx_off = m /\ t.tx_len = n
      BY ONLY <2>5, s \in Negotiations DEF Negotiations, SshFields, SshLengths, SshFlags
    <2>10. \A x \in SshFields \ {"tx_off", "tx_len", "data"} : t[x] = s[x]
      BY ONLY <2>5, s \in Negotiations DEF Negotiations
    <2>11. QED
      BY <2>4, <2>8, <2>9, <2>10
  <1>5. QED
    BY <1>3, <1>4

\* The answers to a command and to a shell request.
ExecAnswer(s, c) == [QueueText(s, c) EXCEPT !.exit_status = TRUE, !.close = TRUE]
ShellAnswer(s, c) == [QueueText(s, c) EXCEPT !.shell_ready = TRUE]

LEMMA ExecKeeps ==
  ASSUME NEW s \in Negotiations, s.tx_off <= s.tx_len, NEW c \in Nat,
         NEW t, t = ExecAnswer(s, c)
  PROVE  /\ t \in Negotiations /\ t.tx_off <= t.tx_len
         /\ \A x \in SshFields \ {"tx_off", "tx_len", "data", "exit_status", "close"} : t[x] = s[x]
  <1>1. PICK q : q = QueueText(s, c)
    OBVIOUS
  <1>2. /\ q \in Negotiations /\ q.tx_off <= q.tx_len
        /\ \A x \in SshFields \ {"tx_off", "tx_len", "data"} : q[x] = s[x]
    BY <1>1, QueueKeeps
  <1>3. t = [[q EXCEPT !["exit_status"] = TRUE] EXCEPT !["close"] = TRUE]
    BY ONLY <1>1, t = ExecAnswer(s, c) DEF ExecAnswer
  <1>4. [q EXCEPT !["exit_status"] = TRUE] \in Negotiations
    BY <1>2, FlagSet DEF SshFlags
  <1>5. t \in Negotiations
    BY <1>3, <1>4, FlagSet DEF SshFlags
  <1>6. \A x \in SshFields \ {"exit_status", "close"} : t[x] = q[x]
    BY ONLY <1>2, <1>3 DEF Negotiations
  <1>7. t.tx_off <= t.tx_len
    BY <1>2, <1>6 DEF SshFields, SshLengths
  <1>8. QED
    BY ONLY <1>2, <1>5, <1>6, <1>7

LEMMA ShellReady ==
  ASSUME NEW s \in Negotiations, s.tx_off <= s.tx_len, NEW c \in Nat,
         NEW t, t = ShellAnswer(s, c)
  PROVE  /\ t \in Negotiations /\ t.tx_off <= t.tx_len
         /\ \A x \in SshFields \ {"tx_off", "tx_len", "data", "shell_ready"} : t[x] = s[x]
  <1>1. PICK q : q = QueueText(s, c)
    OBVIOUS
  <1>2. /\ q \in Negotiations /\ q.tx_off <= q.tx_len
        /\ \A x \in SshFields \ {"tx_off", "tx_len", "data"} : q[x] = s[x]
    BY <1>1, QueueKeeps
  <1>3. t = [q EXCEPT !["shell_ready"] = TRUE]
    BY ONLY <1>1, t = ShellAnswer(s, c) DEF ShellAnswer
  <1>4. t \in Negotiations
    BY <1>2, <1>3, FlagSet DEF SshFlags
  <1>5. \A x \in SshFields \ {"shell_ready"} : t[x] = q[x]
    BY ONLY <1>2, <1>3 DEF Negotiations
  <1>6. t.tx_off <= t.tx_len
    BY <1>2, <1>5 DEF SshFields, SshLengths
  <1>7. QED
    BY ONLY <1>2, <1>4, <1>5, <1>6

\* The negotiation after each kind of packet.
LEMMA KexinitHandled ==
  ASSUME NEW s \in Negotiations, s.tx_off <= s.tx_len, NEW m \in {"KEXINIT", "KEXINIT_NONE"},
         NEW t, t = [s EXCEPT !.client_kexinit_seen = TRUE, !.algorithms = (m = "KEXINIT")]
  PROVE  t \in Negotiations /\ t.tx_off <= t.tx_len /\ HandledSsh(s, t, m)
  <1>1. PICK s1 \in Negotiations : s1 = [s EXCEPT !["client_kexinit_seen"] = TRUE]
    BY FlagSet DEF SshFlags
  <1>2. PICK s2 \in Negotiations : s2 = [s1 EXCEPT !["algorithms"] = (m = "KEXINIT")]
    BY FlagSet DEF SshFlags
  <1>3. t = s2
    BY ONLY <1>1, <1>2, t = [s EXCEPT !.client_kexinit_seen = TRUE, !.algorithms = (m = "KEXINIT")]
  <1>4. /\ \A x \in SshFields \ {"client_kexinit_seen", "algorithms"} : t[x] = s[x]
        /\ t.client_kexinit_seen = TRUE /\ t.algorithms = (m = "KEXINIT")
    BY ONLY <1>3, <1>1, <1>2, s \in Negotiations DEF Negotiations, SshFields, SshFlags, SshCounts, SshLengths, SshBuffers
  <1>5. HandledSsh(s, t, m)
    BY ONLY <1>4, m \in {"KEXINIT", "KEXINIT_NONE"} DEF HandledSsh, HandledRest, SshFields, SshFlags, SshCounts, SshLengths, SshBuffers
  <1>6. t.tx_off <= t.tx_len
    BY <1>4 DEF SshFields, SshLengths
  <1>7. QED
    BY <1>3, <1>5, <1>6

LEMMA EcdhHandled ==
  ASSUME NEW s \in Negotiations, s.tx_off <= s.tx_len, NEW m \in {"ECDH"},
         NEW t, t = [s EXCEPT !.ecdh_ready = TRUE]
  PROVE  t \in Negotiations /\ t.tx_off <= t.tx_len /\ HandledSsh(s, t, m)
  <1>1. PICK s1 \in Negotiations : s1 = [s EXCEPT !["ecdh_ready"] = TRUE]
    BY FlagSet DEF SshFlags
  <1>2. t = s1
    BY ONLY <1>1, t = [s EXCEPT !.ecdh_ready = TRUE]
  <1>3. /\ \A x \in SshFields \ {"ecdh_ready"} : t[x] = s[x]
        /\ t.ecdh_ready = TRUE
    BY ONLY <1>2, <1>1, s \in Negotiations DEF Negotiations, SshFields, SshFlags, SshCounts, SshLengths, SshBuffers
  <1>4. HandledSsh(s, t, m)
    BY ONLY <1>3, m \in {"ECDH"} DEF HandledSsh, HandledRest, SshFields, SshFlags, SshCounts, SshLengths, SshBuffers
  <1>5. t.tx_off <= t.tx_len
    BY <1>3 DEF SshFields, SshLengths
  <1>6. QED
    BY <1>2, <1>4, <1>5

LEMMA NewkeysHandled ==
  ASSUME NEW s \in Negotiations, s.tx_off <= s.tx_len, NEW m \in {"NEWKEYS"},
         NEW t, t = [s EXCEPT !.client_newkeys_seen = TRUE, !.in_encrypted = TRUE]
  PROVE  t \in Negotiations /\ t.tx_off <= t.tx_len /\ HandledSsh(s, t, m)
  <1>1. PICK s1 \in Negotiations : s1 = [s EXCEPT !["client_newkeys_seen"] = TRUE]
    BY FlagSet DEF SshFlags
  <1>2. PICK s2 \in Negotiations : s2 = [s1 EXCEPT !["in_encrypted"] = TRUE]
    BY FlagSet DEF SshFlags
  <1>3. t = s2
    BY ONLY <1>1, <1>2, t = [s EXCEPT !.client_newkeys_seen = TRUE, !.in_encrypted = TRUE]
  <1>4. /\ \A x \in SshFields \ {"client_newkeys_seen", "in_encrypted"} : t[x] = s[x]
        /\ t.client_newkeys_seen = TRUE /\ t.in_encrypted = TRUE
    BY ONLY <1>3, <1>1, <1>2, s \in Negotiations DEF Negotiations, SshFields, SshFlags, SshCounts, SshLengths, SshBuffers
  <1>5. HandledSsh(s, t, m)
    BY ONLY <1>4, m \in {"NEWKEYS"} DEF HandledSsh, HandledRest, SshFields, SshFlags, SshCounts, SshLengths, SshBuffers
  <1>6. t.tx_off <= t.tx_len
    BY <1>4 DEF SshFields, SshLengths
  <1>7. QED
    BY <1>3, <1>5, <1>6

LEMMA ServiceHandled ==
  ASSUME NEW s \in Negotiations, s.tx_off <= s.tx_len, NEW m \in {"SERVICE"},
         NEW t, t = [s EXCEPT !.service_accept = TRUE]
  PROVE  t \in Negotiations /\ t.tx_off <= t.tx_len /\ HandledSsh(s, t, m)
  <1>1. PICK s1 \in Negotiations : s1 = [s EXCEPT !["service_accept"] = TRUE]
    BY FlagSet DEF SshFlags
  <1>2. t = s1
    BY ONLY <1>1, t = [s EXCEPT !.service_accept = TRUE]
  <1>3. /\ \A x \in SshFields \ {"service_accept"} : t[x] = s[x]
        /\ t.service_accept = TRUE
    BY ONLY <1>2, <1>1, s \in Negotiations DEF Negotiations, SshFields, SshFlags, SshCounts, SshLengths, SshBuffers
  <1>4. HandledSsh(s, t, m)
    BY ONLY <1>3, m \in {"SERVICE"} DEF HandledSsh, HandledRest, SshFields, SshFlags, SshCounts, SshLengths, SshBuffers
  <1>5. t.tx_off <= t.tx_len
    BY <1>3 DEF SshFields, SshLengths
  <1>6. QED
    BY <1>2, <1>4, <1>5

LEMMA RefusalHandled ==
  ASSUME NEW s \in Negotiations, s.tx_off <= s.tx_len, NEW m \in {"AUTH_GOOD", "AUTH_BAD"},
         NEW t, t = [s EXCEPT !.auth_failure = TRUE]
  PROVE  t \in Negotiations /\ t.tx_off <= t.tx_len /\ HandledSsh(s, t, m)
  <1>1. PICK s1 \in Negotiations : s1 = [s EXCEPT !["auth_failure"] = TRUE]
    BY FlagSet DEF SshFlags
  <1>2. t = s1
    BY ONLY <1>1, t = [s EXCEPT !.auth_failure = TRUE]
  <1>3. /\ \A x \in SshFields \ {"auth_failure"} : t[x] = s[x]
        /\ t.auth_failure = TRUE
    BY ONLY <1>2, <1>1, s \in Negotiations DEF Negotiations, SshFields, SshFlags, SshCounts, SshLengths, SshBuffers
  <1>4. HandledSsh(s, t, m)
    BY ONLY <1>3, m \in {"AUTH_GOOD", "AUTH_BAD"} DEF HandledSsh, HandledRest, SshFields, SshFlags, SshCounts, SshLengths, SshBuffers
  <1>5. t.tx_off <= t.tx_len
    BY <1>3 DEF SshFields, SshLengths
  <1>6. QED
    BY <1>2, <1>4, <1>5

LEMMA LoginHandled ==
  ASSUME NEW s \in Negotiations, s.tx_off <= s.tx_len, NEW m \in {"AUTH_GOOD"},
         NEW t, t = [s EXCEPT !.authenticated = TRUE, !.auth_success = TRUE]
  PROVE  t \in Negotiations /\ t.tx_off <= t.tx_len /\ HandledSsh(s, t, m)
  <1>1. PICK s1 \in Negotiations : s1 = [s EXCEPT !["authenticated"] = TRUE]
    BY FlagSet DEF SshFlags
  <1>2. PICK s2 \in Negotiations : s2 = [s1 EXCEPT !["auth_success"] = TRUE]
    BY FlagSet DEF SshFlags
  <1>3. t = s2
    BY ONLY <1>1, <1>2, t = [s EXCEPT !.authenticated = TRUE, !.auth_success = TRUE]
  <1>4. /\ \A x \in SshFields \ {"authenticated", "auth_success"} : t[x] = s[x]
        /\ t.authenticated = TRUE /\ t.auth_success = TRUE
    BY ONLY <1>3, <1>1, <1>2, s \in Negotiations DEF Negotiations, SshFields, SshFlags, SshCounts, SshLengths, SshBuffers
  <1>5. HandledSsh(s, t, m)
    BY ONLY <1>4, m \in {"AUTH_GOOD"} DEF HandledSsh, HandledRest, SshFields, SshFlags, SshCounts, SshLengths, SshBuffers
  <1>6. t.tx_off <= t.tx_len
    BY <1>4 DEF SshFields, SshLengths
  <1>7. QED
    BY <1>3, <1>5, <1>6

LEMMA ChannelRefused ==
  ASSUME NEW s \in Negotiations, s.tx_off <= s.tx_len, NEW m \in {"OPEN"},
         NEW t, t = [s EXCEPT !.failure = TRUE]
  PROVE  t \in Negotiations /\ t.tx_off <= t.tx_len /\ HandledSsh(s, t, m)
  <1>1. PICK s1 \in Negotiations : s1 = [s EXCEPT !["failure"] = TRUE]
    BY FlagSet DEF SshFlags
  <1>2. t = s1
    BY ONLY <1>1, t = [s EXCEPT !.failure = TRUE]
  <1>3. /\ \A x \in SshFields \ {"failure"} : t[x] = s[x]
        /\ t.failure = TRUE
    BY ONLY <1>2, <1>1, s \in Negotiations DEF Negotiations, SshFields, SshFlags, SshCounts, SshLengths, SshBuffers
  <1>4. HandledSsh(s, t, m)
    BY ONLY <1>3, m \in {"OPEN"} DEF HandledSsh, HandledRest, SshFields, SshFlags, SshCounts, SshLengths, SshBuffers
  <1>5. t.tx_off <= t.tx_len
    BY <1>3 DEF SshFields, SshLengths
  <1>6. QED
    BY <1>2, <1>4, <1>5

LEMMA ChannelOpened ==
  ASSUME NEW s \in Negotiations, s.tx_off <= s.tx_len, NEW m \in {"OPEN"},
         NEW t, t = [s EXCEPT !.shell_ready = FALSE, !.success = FALSE, !.failure = FALSE, !.data = FALSE, !.exit_status = FALSE, !.close = FALSE, !.close_sent = FALSE, !.tx_len = 0, !.tx_off = 0, !.open_confirm = TRUE]
  PROVE  t \in Negotiations /\ t.tx_off <= t.tx_len /\ HandledSsh(s, t, m)
  <1>0. 0 \in 0 .. TextCap
    BY SshConstants
  <1>1. PICK s1 \in Negotiations :
          /\ s1 = [s EXCEPT !["shell_ready"] = FALSE] /\ \A x \in SshFields \ {"shell_ready"} : s1[x] = s[x]
          /\ s1.shell_ready = FALSE
    <2>1. [s EXCEPT !["shell_ready"] = FALSE] \in Negotiations
      BY FlagSet DEF SshFlags
    <2>2. PICK q \in Negotiations : q = [s EXCEPT !["shell_ready"] = FALSE]
      BY <2>1
    <2>3. q.shell_ready = FALSE /\ \A x \in SshFields \ {"shell_ready"} : q[x] = s[x]
      BY ONLY <2>2, s \in Negotiations DEF Negotiations, SshFields, SshFlags, SshLengths
    <2>4. \A x \in SshFields \ {"shell_ready"} : q[x] = s[x]
      BY ONLY <2>3, s \in Negotiations
    <2>5. q.shell_ready = FALSE
      BY ONLY <2>3, s \in Negotiations DEF SshFields, SshFlags, SshLengths
    <2>6. QED
      BY ONLY <2>2, <2>4, <2>5
  <1>2. PICK s2 \in Negotiations :
          /\ s2 = [s1 EXCEPT !["success"] = FALSE] /\ \A x \in SshFields \ {"shell_ready", "success"} : s2[x] = s[x]
          /\ s2.shell_ready = FALSE /\ s2.success = FALSE
    <2>1. [s1 EXCEPT !["success"] = FALSE] \in Negotiations
      BY FlagSet DEF SshFlags
    <2>2. PICK q \in Negotiations : q = [s1 EXCEPT !["success"] = FALSE]
      BY <2>1
    <2>3. q.success = FALSE /\ \A x \in SshFields \ {"success"} : q[x] = s1[x]
      BY ONLY <2>2, s1 \in Negotiations DEF Negotiations, SshFields, SshFlags, SshLengths
    <2>4. \A x \in SshFields \ {"shell_ready", "success"} : q[x] = s[x]
      BY ONLY <2>3, <1>1
    <2>5. q.shell_ready = FALSE /\ q.success = FALSE
      BY ONLY <2>3, <1>1 DEF SshFields, SshFlags, SshLengths
    <2>6. QED
      BY ONLY <2>2, <2>4, <2>5
  <1>3. PICK s3 \in Negotiations :
          /\ s3 = [s2 EXCEPT !["failure"] = FALSE] /\ \A x \in SshFields \ {"shell_ready", "success", "failure"} : s3[x] = s[x]
          /\ s3.shell_ready = FALSE /\ s3.success = FALSE /\ s3.failure = FALSE
    <2>1. [s2 EXCEPT !["failure"] = FALSE] \in Negotiations
      BY FlagSet DEF SshFlags
    <2>2. PICK q \in Negotiations : q = [s2 EXCEPT !["failure"] = FALSE]
      BY <2>1
    <2>3. q.failure = FALSE /\ \A x \in SshFields \ {"failure"} : q[x] = s2[x]
      BY ONLY <2>2, s2 \in Negotiations DEF Negotiations, SshFields, SshFlags, SshLengths
    <2>4. \A x \in SshFields \ {"shell_ready", "success", "failure"} : q[x] = s[x]
      BY ONLY <2>3, <1>2
    <2>5. q.shell_ready = FALSE /\ q.success = FALSE /\ q.failure = FALSE
      BY ONLY <2>3, <1>2 DEF SshFields, SshFlags, SshLengths
    <2>6. QED
      BY ONLY <2>2, <2>4, <2>5
  <1>4. PICK s4 \in Negotiations :
          /\ s4 = [s3 EXCEPT !["data"] = FALSE] /\ \A x \in SshFields \ {"shell_ready", "success", "failure", "data"} : s4[x] = s[x]
          /\ s4.shell_ready = FALSE /\ s4.success = FALSE /\ s4.failure = FALSE /\ s4.data = FALSE
    <2>1. [s3 EXCEPT !["data"] = FALSE] \in Negotiations
      BY FlagSet DEF SshFlags
    <2>2. PICK q \in Negotiations : q = [s3 EXCEPT !["data"] = FALSE]
      BY <2>1
    <2>3. q.data = FALSE /\ \A x \in SshFields \ {"data"} : q[x] = s3[x]
      BY ONLY <2>2, s3 \in Negotiations DEF Negotiations, SshFields, SshFlags, SshLengths
    <2>4. \A x \in SshFields \ {"shell_ready", "success", "failure", "data"} : q[x] = s[x]
      BY ONLY <2>3, <1>3
    <2>5. q.shell_ready = FALSE /\ q.success = FALSE /\ q.failure = FALSE /\ q.data = FALSE
      BY ONLY <2>3, <1>3 DEF SshFields, SshFlags, SshLengths
    <2>6. QED
      BY ONLY <2>2, <2>4, <2>5
  <1>5. PICK s5 \in Negotiations :
          /\ s5 = [s4 EXCEPT !["exit_status"] = FALSE] /\ \A x \in SshFields \ {"shell_ready", "success", "failure", "data", "exit_status"} : s5[x] = s[x]
          /\ s5.shell_ready = FALSE /\ s5.success = FALSE /\ s5.failure = FALSE /\ s5.data = FALSE /\ s5.exit_status = FALSE
    <2>1. [s4 EXCEPT !["exit_status"] = FALSE] \in Negotiations
      BY FlagSet DEF SshFlags
    <2>2. PICK q \in Negotiations : q = [s4 EXCEPT !["exit_status"] = FALSE]
      BY <2>1
    <2>3. q.exit_status = FALSE /\ \A x \in SshFields \ {"exit_status"} : q[x] = s4[x]
      BY ONLY <2>2, s4 \in Negotiations DEF Negotiations, SshFields, SshFlags, SshLengths
    <2>4. \A x \in SshFields \ {"shell_ready", "success", "failure", "data", "exit_status"} : q[x] = s[x]
      BY ONLY <2>3, <1>4
    <2>5. q.shell_ready = FALSE /\ q.success = FALSE /\ q.failure = FALSE /\ q.data = FALSE /\ q.exit_status = FALSE
      BY ONLY <2>3, <1>4 DEF SshFields, SshFlags, SshLengths
    <2>6. QED
      BY ONLY <2>2, <2>4, <2>5
  <1>6. PICK s6 \in Negotiations :
          /\ s6 = [s5 EXCEPT !["close"] = FALSE] /\ \A x \in SshFields \ {"shell_ready", "success", "failure", "data", "exit_status", "close"} : s6[x] = s[x]
          /\ s6.shell_ready = FALSE /\ s6.success = FALSE /\ s6.failure = FALSE /\ s6.data = FALSE /\ s6.exit_status = FALSE /\ s6.close = FALSE
    <2>1. [s5 EXCEPT !["close"] = FALSE] \in Negotiations
      BY FlagSet DEF SshFlags
    <2>2. PICK q \in Negotiations : q = [s5 EXCEPT !["close"] = FALSE]
      BY <2>1
    <2>3. q.close = FALSE /\ \A x \in SshFields \ {"close"} : q[x] = s5[x]
      BY ONLY <2>2, s5 \in Negotiations DEF Negotiations, SshFields, SshFlags, SshLengths
    <2>4. \A x \in SshFields \ {"shell_ready", "success", "failure", "data", "exit_status", "close"} : q[x] = s[x]
      BY ONLY <2>3, <1>5
    <2>5. q.shell_ready = FALSE /\ q.success = FALSE /\ q.failure = FALSE /\ q.data = FALSE /\ q.exit_status = FALSE /\ q.close = FALSE
      BY ONLY <2>3, <1>5 DEF SshFields, SshFlags, SshLengths
    <2>6. QED
      BY ONLY <2>2, <2>4, <2>5
  <1>7. PICK s7 \in Negotiations :
          /\ s7 = [s6 EXCEPT !["close_sent"] = FALSE] /\ \A x \in SshFields \ {"shell_ready", "success", "failure", "data", "exit_status", "close", "close_sent"} : s7[x] = s[x]
          /\ s7.shell_ready = FALSE /\ s7.success = FALSE /\ s7.failure = FALSE /\ s7.data = FALSE /\ s7.exit_status = FALSE /\ s7.close = FALSE /\ s7.close_sent = FALSE
    <2>1. [s6 EXCEPT !["close_sent"] = FALSE] \in Negotiations
      BY FlagSet DEF SshFlags
    <2>2. PICK q \in Negotiations : q = [s6 EXCEPT !["close_sent"] = FALSE]
      BY <2>1
    <2>3. q.close_sent = FALSE /\ \A x \in SshFields \ {"close_sent"} : q[x] = s6[x]
      BY ONLY <2>2, s6 \in Negotiations DEF Negotiations, SshFields, SshFlags, SshLengths
    <2>4. \A x \in SshFields \ {"shell_ready", "success", "failure", "data", "exit_status", "close", "close_sent"} : q[x] = s[x]
      BY ONLY <2>3, <1>6
    <2>5. q.shell_ready = FALSE /\ q.success = FALSE /\ q.failure = FALSE /\ q.data = FALSE /\ q.exit_status = FALSE /\ q.close = FALSE /\ q.close_sent = FALSE
      BY ONLY <2>3, <1>6 DEF SshFields, SshFlags, SshLengths
    <2>6. QED
      BY ONLY <2>2, <2>4, <2>5
  <1>8. PICK s8 \in Negotiations :
          /\ s8 = [s7 EXCEPT !["tx_len"] = 0] /\ \A x \in SshFields \ {"shell_ready", "success", "failure", "data", "exit_status", "close", "close_sent", "tx_len"} : s8[x] = s[x]
          /\ s8.shell_ready = FALSE /\ s8.success = FALSE /\ s8.failure = FALSE /\ s8.data = FALSE /\ s8.exit_status = FALSE /\ s8.close = FALSE /\ s8.close_sent = FALSE /\ s8.tx_len = 0
    <2>1. [s7 EXCEPT !["tx_len"] = 0] \in Negotiations
      BY <1>0, LengthSet DEF SshLengths
    <2>2. PICK q \in Negotiations : q = [s7 EXCEPT !["tx_len"] = 0]
      BY <2>1
    <2>3. q.tx_len = 0 /\ \A x \in SshFields \ {"tx_len"} : q[x] = s7[x]
      BY ONLY <2>2, s7 \in Negotiations DEF Negotiations, SshFields, SshFlags, SshLengths
    <2>4. \A x \in SshFields \ {"shell_ready", "success", "failure", "data", "exit_status", "close", "close_sent", "tx_len"} : q[x] = s[x]
      BY ONLY <2>3, <1>7
    <2>5. q.shell_ready = FALSE /\ q.success = FALSE /\ q.failure = FALSE /\ q.data = FALSE /\ q.exit_status = FALSE /\ q.close = FALSE /\ q.close_sent = FALSE /\ q.tx_len = 0
      BY ONLY <2>3, <1>7 DEF SshFields, SshFlags, SshLengths
    <2>6. QED
      BY ONLY <2>2, <2>4, <2>5
  <1>9. PICK s9 \in Negotiations :
          /\ s9 = [s8 EXCEPT !["tx_off"] = 0] /\ \A x \in SshFields \ {"shell_ready", "success", "failure", "data", "exit_status", "close", "close_sent", "tx_len", "tx_off"} : s9[x] = s[x]
          /\ s9.shell_ready = FALSE /\ s9.success = FALSE /\ s9.failure = FALSE /\ s9.data = FALSE /\ s9.exit_status = FALSE /\ s9.close = FALSE /\ s9.close_sent = FALSE /\ s9.tx_len = 0 /\ s9.tx_off = 0
    <2>1. [s8 EXCEPT !["tx_off"] = 0] \in Negotiations
      BY <1>0, LengthSet DEF SshLengths
    <2>2. PICK q \in Negotiations : q = [s8 EXCEPT !["tx_off"] = 0]
      BY <2>1
    <2>3. q.tx_off = 0 /\ \A x \in SshFields \ {"tx_off"} : q[x] = s8[x]
      BY ONLY <2>2, s8 \in Negotiations DEF Negotiations, SshFields, SshFlags, SshLengths
    <2>4. \A x \in SshFields \ {"shell_ready", "success", "failure", "data", "exit_status", "close", "close_sent", "tx_len", "tx_off"} : q[x] = s[x]
      BY ONLY <2>3, <1>8
    <2>5. q.shell_ready = FALSE /\ q.success = FALSE /\ q.failure = FALSE /\ q.data = FALSE /\ q.exit_status = FALSE /\ q.close = FALSE /\ q.close_sent = FALSE /\ q.tx_len = 0 /\ q.tx_off = 0
      BY ONLY <2>3, <1>8 DEF SshFields, SshFlags, SshLengths
    <2>6. QED
      BY ONLY <2>2, <2>4, <2>5
  <1>10. PICK s10 \in Negotiations :
          /\ s10 = [s9 EXCEPT !["open_confirm"] = TRUE] /\ \A x \in SshFields \ {"shell_ready", "success", "failure", "data", "exit_status", "close", "close_sent", "tx_len", "tx_off", "open_confirm"} : s10[x] = s[x]
          /\ s10.shell_ready = FALSE /\ s10.success = FALSE /\ s10.failure = FALSE /\ s10.data = FALSE /\ s10.exit_status = FALSE /\ s10.close = FALSE /\ s10.close_sent = FALSE /\ s10.tx_len = 0 /\ s10.tx_off = 0 /\ s10.open_confirm = TRUE
    <2>1. [s9 EXCEPT !["open_confirm"] = TRUE] \in Negotiations
      BY FlagSet DEF SshFlags
    <2>2. PICK q \in Negotiations : q = [s9 EXCEPT !["open_confirm"] = TRUE]
      BY <2>1
    <2>3. q.open_confirm = TRUE /\ \A x \in SshFields \ {"open_confirm"} : q[x] = s9[x]
      BY ONLY <2>2, s9 \in Negotiations DEF Negotiations, SshFields, SshFlags, SshLengths
    <2>4. \A x \in SshFields \ {"shell_ready", "success", "failure", "data", "exit_status", "close", "close_sent", "tx_len", "tx_off", "open_confirm"} : q[x] = s[x]
      BY ONLY <2>3, <1>9
    <2>5. q.shell_ready = FALSE /\ q.success = FALSE /\ q.failure = FALSE /\ q.data = FALSE /\ q.exit_status = FALSE /\ q.close = FALSE /\ q.close_sent = FALSE /\ q.tx_len = 0 /\ q.tx_off = 0 /\ q.open_confirm = TRUE
      BY ONLY <2>3, <1>9 DEF SshFields, SshFlags, SshLengths
    <2>6. QED
      BY ONLY <2>2, <2>4, <2>5
  <1>11. t = s10
    BY ONLY <1>1, <1>2, <1>3, <1>4, <1>5, <1>6, <1>7, <1>8, <1>9, <1>10, t = [s EXCEPT !.shell_ready = FALSE, !.success = FALSE, !.failure = FALSE, !.data = FALSE, !.exit_status = FALSE, !.close = FALSE, !.close_sent = FALSE, !.tx_len = 0, !.tx_off = 0, !.open_confirm = TRUE]
  <1>12. /\ \A x \in SshFields \ {"shell_ready", "success", "failure", "data", "exit_status", "close", "close_sent", "tx_len", "tx_off", "open_confirm"} : t[x] = s[x]
        /\ t.shell_ready = FALSE /\ t.success = FALSE /\ t.failure = FALSE /\ t.data = FALSE /\ t.exit_status = FALSE /\ t.close = FALSE /\ t.close_sent = FALSE /\ t.tx_len = 0 /\ t.tx_off = 0 /\ t.open_confirm = TRUE
    BY ONLY <1>11, <1>10 DEF SshFields, SshFlags, SshLengths
  <1>13. HandledSsh(s, t, m)
    BY ONLY <1>12, m \in {"OPEN"} DEF HandledSsh, HandledRest, SshFields, SshFlags, SshCounts, SshLengths, SshBuffers
  <1>14. t.tx_off <= t.tx_len
    BY ONLY <1>12
  <1>15. QED
    BY <1>11, <1>13, <1>14

LEMMA RequestHandled ==
  ASSUME NEW s \in Negotiations, s.tx_off <= s.tx_len, NEW m \in {"PTY", "SHELL", "EXEC"},
         NEW t, t = [s EXCEPT !.success = TRUE]
  PROVE  t \in Negotiations /\ t.tx_off <= t.tx_len /\ HandledSsh(s, t, m)
  <1>1. PICK s1 \in Negotiations : s1 = [s EXCEPT !["success"] = TRUE]
    BY FlagSet DEF SshFlags
  <1>2. t = s1
    BY ONLY <1>1, t = [s EXCEPT !.success = TRUE]
  <1>3. /\ \A x \in SshFields \ {"success"} : t[x] = s[x]
        /\ t.success = TRUE
    BY ONLY <1>2, <1>1, s \in Negotiations DEF Negotiations, SshFields, SshFlags, SshCounts, SshLengths, SshBuffers
  <1>4. HandledSsh(s, t, m)
    BY ONLY <1>3, m \in {"PTY", "SHELL", "EXEC"} DEF HandledSsh, HandledRest, SshFields, SshFlags, SshCounts, SshLengths, SshBuffers
  <1>5. t.tx_off <= t.tx_len
    BY <1>3 DEF SshFields, SshLengths
  <1>6. QED
    BY <1>2, <1>4, <1>5

\* A packet that leaves all but the text, the status and the close alone.
LEMMA TextHandled ==
  ASSUME NEW s \in Negotiations, NEW t \in Negotiations, NEW m \in {"SHELL", "EXEC", "LINE", "EXIT"},
         NEW X, X = IF m \in {"EXEC", "EXIT"} THEN {"tx_off", "tx_len", "data", "exit_status", "close"}
                    ELSE {"tx_off", "tx_len", "data", "shell_ready"},
         \A x \in SshFields \ (X \cup (IF m \in {"SHELL", "EXEC"} THEN {"success"} ELSE {})) : t[x] = s[x]
  PROVE  HandledSsh(s, t, m)
  BY DEF HandledSsh, HandledRest, SshFields, SshFlags, SshCounts, SshLengths, SshBuffers

LEMMA Unhandled ==
  ASSUME NEW s, NEW m \in {"PTY", "SHELL", "EXEC", "LINE", "EXIT", "EOF"}
  PROVE  HandledSsh(s, s, m)
  BY DEF HandledSsh, HandledRest

\* An end of the channel asks for the close, once.
LEMMA EofHandled ==
  ASSUME NEW s \in Negotiations, s.tx_off <= s.tx_len, ~s.close_sent, NEW t, t = [s EXCEPT !.close = TRUE]
  PROVE  t \in Negotiations /\ t.tx_off <= t.tx_len /\ HandledSsh(s, t, "EOF")
  <1>1. PICK s1 \in Negotiations : s1 = [s EXCEPT !["close"] = TRUE]
    BY FlagSet DEF SshFlags
  <1>2. t = s1
    BY ONLY <1>1, t = [s EXCEPT !.close = TRUE]
  <1>3. (\A x \in SshFields \ {"close"} : t[x] = s[x]) /\ t.close = TRUE
    BY ONLY <1>1, <1>2, s \in Negotiations DEF Negotiations, SshFields, SshFlags, SshCounts, SshLengths, SshBuffers
  <1>4. HandledSsh(s, t, "EOF")
    BY ONLY <1>3, ~s.close_sent DEF HandledSsh, HandledRest, SshFields, SshFlags, SshCounts, SshLengths, SshBuffers
  <1>5. t.tx_off <= t.tx_len
    BY <1>3 DEF SshFields, SshLengths
  <1>6. QED
    BY <1>2, <1>4, <1>5

\* A new negotiation of the same service.
LEMMA Carried ==
  ASSUME NEW h \in Hosts, NEW t \in Negotiations, t.tx_off <= t.tx_len, NEW m, HandledSsh(h.ssh, t, m),
         NEW g, g = [h EXCEPT !.ssh = t]
  PROVE  g \in Hosts /\ g.ssh.tx_off <= g.ssh.tx_len /\ Handled(h, g, m)
  <1>1. g \in Hosts /\ g.srv = h.srv /\ g.svc = h.svc /\ g.ssh = t
    BY SshWritten
  <1>2. QED
    BY ONLY <1>1, t.tx_off <= t.tx_len, HandledSsh(h.ssh, t, m) DEF Handled

\* ProcessUserauth: the counter of failures stays below the limit.
LEMMA UserauthHandled ==
  ASSUME NEW h \in Hosts, h.ssh.tx_off <= h.ssh.tx_len, NEW m \in {"AUTH_GOOD", "AUTH_BAD"},
         NEW g, g = ProcessUserauth(h, m)
  PROVE  g \in Hosts /\ g.ssh.tx_off <= g.ssh.tx_len /\ Handled(h, g, m)
  <1>1. h.ssh \in Negotiations /\ h.svc \in SshServices
    BY DEF Hosts
  <1>2. PICK r : r = [h.ssh EXCEPT !.auth_failure = TRUE]
    OBVIOUS
  <1>3. r \in Negotiations /\ r.tx_off <= r.tx_len /\ HandledSsh(h.ssh, r, m)
    BY <1>1, <1>2, RefusalHandled
  <1>4. CASE h.svc.lockout > 0 \/ ~h.svc.auth_configured
    <2>1. g = [h EXCEPT !.ssh = r]
      BY <1>2, <1>4 DEF ProcessUserauth
    <2>2. QED
      BY <1>3, <2>1, Carried
  <1>5. CASE ~(h.svc.lockout > 0 \/ ~h.svc.auth_configured) /\ m = "AUTH_GOOD"
    <2>1. PICK t : t = [h.ssh EXCEPT !.authenticated = TRUE, !.auth_success = TRUE]
      OBVIOUS
    <2>2. t \in Negotiations /\ t.tx_off <= t.tx_len /\ HandledSsh(h.ssh, t, m)
      BY <1>1, <1>5, <2>1, LoginHandled
    <2>3. g = NoteAuthSuccess(h)
      BY <1>5 DEF ProcessUserauth
    <2>4. g.ssh = t /\ g.srv = h.srv /\ g.svc = [h.svc EXCEPT !.failures = 0, !.lockout = 0]
          /\ g = [h EXCEPT !.ssh = t, !.svc = [h.svc EXCEPT !.failures = 0, !.lockout = 0]]
      BY ONLY <2>1, <2>3, h \in Hosts DEF NoteAuthSuccess, Hosts
    <2>9. g.svc = [h.svc EXCEPT !.failures = 0, !.lockout = 0]
      BY <2>4
    <2>5. g.svc \in SshServices
      <3>1. 0 \in 0 .. MaxAttempts - 1 /\ 0 \in 0 .. LockoutTicks
        BY SshConstants
      <3>2. QED
        BY ONLY <1>1, <2>9, <3>1 DEF SshServices
    <2>6. g \in Hosts
      BY ONLY <2>2, <2>4, <2>5, h \in Hosts DEF Hosts
    <2>7. g.svc.seen = h.svc.seen /\ g.svc.enabled = h.svc.enabled
          /\ g.svc.banner_sent = h.svc.banner_sent /\ g.svc.client_banner_seen = h.svc.client_banner_seen
      BY ONLY <1>1, <2>4 DEF SshServices
    <2>8. QED
      BY ONLY <2>2, <2>4, <2>6, <2>7 DEF Handled
  <1>6. CASE ~(h.svc.lockout > 0 \/ ~h.svc.auth_configured) /\ m # "AUTH_GOOD"
    <2>1. PICK n, l : /\ n = IF h.svc.failures + 1 >= MaxAttempts THEN 0 ELSE h.svc.failures + 1
                      /\ l = IF h.svc.failures + 1 >= MaxAttempts THEN LockoutTicks ELSE h.svc.lockout
      OBVIOUS
    <2>2. n \in 0 .. MaxAttempts - 1 /\ l \in 0 .. LockoutTicks
      BY ONLY <1>1, <2>1, SshConstants DEF SshServices
    <2>3. g = NoteAuthFailure(h)
      BY <1>6 DEF ProcessUserauth
    <2>4. g.ssh = r /\ g.srv = h.srv /\ g.svc = [h.svc EXCEPT !.failures = n, !.lockout = l]
          /\ g = [h EXCEPT !.ssh = r, !.svc = [h.svc EXCEPT !.failures = n, !.lockout = l]]
      BY ONLY <1>1, <1>2, <2>1, <2>3, h \in Hosts DEF NoteAuthFailure, Hosts, SshServices
    <2>5. g.svc \in SshServices
      BY ONLY <1>1, <2>2, <2>4, SshConstants DEF SshServices
    <2>6. g \in Hosts
      BY ONLY <1>3, <2>4, <2>5, h \in Hosts DEF Hosts
    <2>7. g.svc.seen = h.svc.seen /\ g.svc.enabled = h.svc.enabled
          /\ g.svc.banner_sent = h.svc.banner_sent /\ g.svc.client_banner_seen = h.svc.client_banner_seen
      BY ONLY <1>1, <2>4 DEF SshServices
    <2>8. QED
      BY ONLY <1>3, <2>4, <2>6, <2>7 DEF Handled
  <1>7. QED
    BY <1>4, <1>5, <1>6

\* A request on the channel, once the user is known.
LEMMA RequestKeeps ==
  ASSUME NEW h \in Hosts, h.ssh.tx_off <= h.ssh.tx_len, NEW m \in {"PTY", "SHELL", "EXEC"}, NEW c \in Nat,
         NEW g, g = ProcessChannelRequest(h, m, c)
  PROVE  g \in Hosts /\ g.ssh.tx_off <= g.ssh.tx_len /\ Handled(h, g, m)
  <1>1. h.ssh \in Negotiations
    BY DEF Hosts
  <1>2. CASE ~h.ssh.authenticated
    <2>1. g = h
      BY <1>2 DEF ProcessChannelRequest
    <2>2. HandledSsh(h.ssh, h.ssh, m)
      BY Unhandled
    <2>3. QED
      BY ONLY <2>1, <2>2, h \in Hosts, h.ssh.tx_off <= h.ssh.tx_len DEF Handled
  <1>3. CASE h.ssh.authenticated
    <2>1. PICK r : r = [h.ssh EXCEPT !.success = TRUE]
      OBVIOUS
    <2>2. r \in Negotiations /\ r.tx_off <= r.tx_len /\ HandledSsh(h.ssh, r, m)
      BY <1>1, <2>1, RequestHandled
    <2>3. \A x \in SshFields \ {"success"} : r[x] = h.ssh[x]
      BY ONLY <1>1, <2>1 DEF Negotiations
    <2>4. PICK ok : ok = [h EXCEPT !.ssh = r]
      OBVIOUS
    <2>5. ok \in Hosts /\ ok.srv = h.srv /\ ok.svc = h.svc /\ ok.ssh = r
      BY <2>2, <2>4, SshWritten
    <2>6. g = CASE m = "PTY" -> ok
                [] m = "SHELL" -> [ok EXCEPT !.ssh = [QueueText(r, 1) EXCEPT !.shell_ready = TRUE]]
                [] m = "EXEC" -> ExecExecute(ok, c)
      BY ONLY <1>3, <2>1, <2>4, <2>5, g = ProcessChannelRequest(h, m, c), m \in {"PTY", "SHELL", "EXEC"} DEF ProcessChannelRequest
    <2>7. CASE m = "PTY"
      BY <2>2, <2>4, <2>6, <2>7, Carried
    <2>8. CASE m = "SHELL"
      <3>1. PICK t : t = ShellAnswer(r, 1)
        OBVIOUS
      <3>2. /\ t \in Negotiations /\ t.tx_off <= t.tx_len
            /\ \A x \in SshFields \ {"tx_off", "tx_len", "data", "shell_ready"} : t[x] = r[x]
        <4>1. 1 \in Nat
          OBVIOUS
        <4>2. QED
          BY <2>2, <3>1, <4>1, ShellReady, Zenon
      <3>3. \A x \in SshFields \ ({"tx_off", "tx_len", "data", "shell_ready"} \cup {"success"}) : t[x] = h.ssh[x]
        BY ONLY <2>3, <3>2
      <3>4. HandledSsh(h.ssh, t, m)
        BY <1>1, <2>8, <3>2, <3>3, TextHandled
      <3>5. g = [h EXCEPT !.ssh = t]
        BY ONLY <2>4, <2>5, <2>6, <2>8, <3>1, h \in Hosts DEF Hosts, ShellAnswer
      <3>6. QED
        BY <3>2, <3>4, <3>5, Carried
    <2>9. CASE m = "EXEC"
      <3>1. PICK t : t = ExecAnswer(r, c)
        OBVIOUS
      <3>2. /\ t \in Negotiations /\ t.tx_off <= t.tx_len
            /\ \A x \in SshFields \ {"tx_off", "tx_len", "data", "exit_status", "close"} : t[x] = r[x]
        BY <2>2, <3>1, ExecKeeps, Zenon
      <3>3. \A x \in SshFields \ ({"tx_off", "tx_len", "data", "exit_status", "close"} \cup {"success"}) : t[x] = h.ssh[x]
        BY ONLY <2>3, <3>2
      <3>4. HandledSsh(h.ssh, t, m)
        BY <1>1, <2>9, <3>2, <3>3, TextHandled
      <3>5. g = [h EXCEPT !.ssh = t]
        BY ONLY <2>4, <2>5, <2>6, <2>9, <3>1, h \in Hosts DEF Hosts, ExecExecute, ExecAnswer
      <3>6. QED
        BY <3>2, <3>4, <3>5, Carried
    <2>10. QED
      BY <2>7, <2>8, <2>9
  <1>4. QED
    BY <1>2, <1>3

\* What a line of the shell does.
LEMMA ChannelDataKeeps ==
  ASSUME NEW h \in Hosts, h.ssh.tx_off <= h.ssh.tx_len, NEW m \in {"LINE", "EXIT"}, NEW c \in Nat,
         NEW g, g = ProcessChannelData(h, m, c)
  PROVE  g \in Hosts /\ g.ssh.tx_off <= g.ssh.tx_len /\ Handled(h, g, m)
  <1>1. h.ssh \in Negotiations
    BY DEF Hosts
  <1>2. CASE ~h.ssh.shell_ready
    <2>1. g = h
      BY <1>2 DEF ProcessChannelData
    <2>2. HandledSsh(h.ssh, h.ssh, m)
      BY Unhandled
    <2>3. QED
      BY ONLY <2>1, <2>2, h \in Hosts, h.ssh.tx_off <= h.ssh.tx_len DEF Handled
  <1>3. CASE h.ssh.shell_ready /\ m = "EXIT"
    <2>1. PICK t : t = ExecAnswer(h.ssh, 1)
      OBVIOUS
    <2>2. /\ t \in Negotiations /\ t.tx_off <= t.tx_len
          /\ \A x \in SshFields \ {"tx_off", "tx_len", "data", "exit_status", "close"} : t[x] = h.ssh[x]
      <3>1. 1 \in Nat
        OBVIOUS
      <3>2. QED
        BY ONLY <1>1, <2>1, <3>1, h.ssh.tx_off <= h.ssh.tx_len, ExecKeeps
    <2>3. HandledSsh(h.ssh, t, m)
      BY <1>1, <1>3, <2>2, TextHandled
    <2>4. g = [h EXCEPT !.ssh = t]
      BY ONLY <1>3, <2>1, g = ProcessChannelData(h, m, c) DEF ProcessChannelData, ShellExecute, ExecExecute, ExecAnswer
    <2>5. QED
      BY <2>2, <2>3, <2>4, Carried
  <1>4. CASE h.ssh.shell_ready /\ m = "LINE"
    <2>1. PICK t : t = QueueText(h.ssh, 1 + c)
      OBVIOUS
    <2>2. /\ t \in Negotiations /\ t.tx_off <= t.tx_len
          /\ \A x \in SshFields \ {"tx_off", "tx_len", "data"} : t[x] = h.ssh[x]
      BY ONLY <1>1, <2>1, QueueKeeps, h.ssh.tx_off <= h.ssh.tx_len, 1 + c \in Nat, c \in Nat
    <2>3. HandledSsh(h.ssh, t, m)
      <3>1. \A x \in SshFields \ ({"tx_off", "tx_len", "data", "shell_ready"} \cup {}) : t[x] = h.ssh[x]
        BY ONLY <2>2
      <3>2. QED
        BY <1>1, <1>4, <2>2, <3>1, TextHandled
    <2>4. g = [h EXCEPT !.ssh = t]
      BY ONLY <1>4, <2>1, g = ProcessChannelData(h, m, c) DEF ProcessChannelData, ShellExecute
    <2>5. QED
      BY <2>2, <2>3, <2>4, Carried
  <1>5. QED
    BY <1>2, <1>3, <1>4

\* Every packet of a client is handled as HandledSsh says.
LEMMA ProcessHandled ==
  ASSUME NEW h \in Hosts, h.ssh.tx_off <= h.ssh.tx_len, NEW m \in Packets \ {"BANNER"}, NEW c \in Nat,
         NEW g, g = ProcessPacket(h, m, c)
  PROVE  g \in Hosts /\ g.ssh.tx_off <= g.ssh.tx_len /\ Handled(h, g, m)
  <1>1. h.ssh \in Negotiations
    BY DEF Hosts
  <1>2. CASE m \in {"KEXINIT", "KEXINIT_NONE"}
    <2>1. PICK t : t = [h.ssh EXCEPT !.client_kexinit_seen = TRUE, !.algorithms = (m = "KEXINIT")]
      OBVIOUS
    <2>2. t \in Negotiations /\ t.tx_off <= t.tx_len /\ HandledSsh(h.ssh, t, m)
      BY <1>1, <1>2, <2>1, KexinitHandled
    <2>3. g = [h EXCEPT !.ssh = t]
      BY ONLY <1>2, <2>1, g = ProcessPacket(h, m, c), h \in Hosts DEF ProcessPacket, ProcessKexinit, Hosts
    <2>4. QED
      BY <2>2, <2>3, Carried
  <1>3. CASE m = "ECDH"
    <2>1. PICK t : t = [h.ssh EXCEPT !.ecdh_ready = TRUE]
      OBVIOUS
    <2>2. t \in Negotiations /\ t.tx_off <= t.tx_len /\ HandledSsh(h.ssh, t, m)
      BY <1>1, <1>3, <2>1, EcdhHandled
    <2>3. g = [h EXCEPT !.ssh = t]
      BY ONLY <1>3, <2>1, g = ProcessPacket(h, m, c) DEF ProcessPacket, ProcessKexdhInit
    <2>4. QED
      BY <2>2, <2>3, Carried
  <1>4. CASE m = "NEWKEYS"
    <2>1. PICK t : t = [h.ssh EXCEPT !.client_newkeys_seen = TRUE, !.in_encrypted = TRUE]
      OBVIOUS
    <2>2. t \in Negotiations /\ t.tx_off <= t.tx_len /\ HandledSsh(h.ssh, t, m)
      BY <1>1, <1>4, <2>1, NewkeysHandled
    <2>3. g = [h EXCEPT !.ssh = t]
      BY ONLY <1>4, <2>1, g = ProcessPacket(h, m, c), h \in Hosts DEF ProcessPacket, ProcessNewkeys, Hosts
    <2>4. QED
      BY <2>2, <2>3, Carried
  <1>5. CASE m = "SERVICE"
    <2>1. PICK t : t = [h.ssh EXCEPT !.service_accept = TRUE]
      OBVIOUS
    <2>2. t \in Negotiations /\ t.tx_off <= t.tx_len /\ HandledSsh(h.ssh, t, m)
      BY <1>1, <1>5, <2>1, ServiceHandled
    <2>3. g = [h EXCEPT !.ssh = t]
      BY ONLY <1>5, <2>1, g = ProcessPacket(h, m, c) DEF ProcessPacket, ProcessService
    <2>4. QED
      BY <2>2, <2>3, Carried
  <1>6. CASE m \in {"AUTH_GOOD", "AUTH_BAD"}
    <2>1. g = ProcessUserauth(h, m)
      BY ONLY <1>6, g = ProcessPacket(h, m, c) DEF ProcessPacket
    <2>2. QED
      BY <1>6, <2>1, UserauthHandled
  <1>7. CASE m = "OPEN"
    <2>1. PICK t : t = IF ~h.ssh.authenticated THEN [h.ssh EXCEPT !.failure = TRUE]
                       ELSE [h.ssh EXCEPT !.shell_ready = FALSE, !.success = FALSE, !.failure = FALSE,
                               !.data = FALSE, !.exit_status = FALSE, !.close = FALSE,
                               !.close_sent = FALSE, !.tx_len = 0, !.tx_off = 0, !.open_confirm = TRUE]
      OBVIOUS
    <2>2. t \in Negotiations /\ t.tx_off <= t.tx_len /\ HandledSsh(h.ssh, t, m)
      <3>1. CASE ~h.ssh.authenticated
        <4>1. t = [h.ssh EXCEPT !.failure = TRUE]
          BY <2>1, <3>1
        <4>2. QED
          BY <1>1, <1>7, <4>1, ChannelRefused
      <3>2. CASE h.ssh.authenticated
        <4>1. t = [h.ssh EXCEPT !.shell_ready = FALSE, !.success = FALSE, !.failure = FALSE,
                               !.data = FALSE, !.exit_status = FALSE, !.close = FALSE,
                               !.close_sent = FALSE, !.tx_len = 0, !.tx_off = 0, !.open_confirm = TRUE]
          BY <2>1, <3>2
        <4>2. QED
          BY <1>1, <1>7, <4>1, ChannelOpened
      <3>3. QED
        BY <3>1, <3>2
    <2>3. g = [h EXCEPT !.ssh = t]
      <3>1. g = ProcessChannelOpen(h)
        BY ONLY <1>7, g = ProcessPacket(h, m, c) DEF ProcessPacket
      <3>2. CASE ~h.ssh.authenticated
        BY ONLY <2>1, <3>1, <3>2 DEF ProcessChannelOpen
      <3>3. CASE h.ssh.authenticated
        BY ONLY <2>1, <3>1, <3>3, h \in Hosts DEF ProcessChannelOpen, Hosts
      <3>4. QED
        BY <3>2, <3>3
    <2>4. QED
      BY <2>2, <2>3, Carried
  <1>8. CASE m \in {"PTY", "SHELL", "EXEC"}
    <2>1. g = ProcessChannelRequest(h, m, c)
      BY ONLY <1>8, g = ProcessPacket(h, m, c) DEF ProcessPacket
    <2>2. QED
      BY <1>8, <2>1, RequestKeeps
  <1>9. CASE m \in {"LINE", "EXIT"}
    <2>1. g = ProcessChannelData(h, m, c)
      BY ONLY <1>9, g = ProcessPacket(h, m, c) DEF ProcessPacket
    <2>2. QED
      BY <1>9, <2>1, ChannelDataKeeps
  <1>10. CASE m = "EOF"
    <2>1. g = ProcessChannelEof(h)
      BY ONLY <1>10, g = ProcessPacket(h, m, c) DEF ProcessPacket
    <2>2. CASE h.ssh.close_sent
      <3>1. g = h
        BY <2>1, <2>2 DEF ProcessChannelEof
      <3>2. HandledSsh(h.ssh, h.ssh, m)
        BY <1>10, Unhandled
      <3>3. QED
        BY ONLY <3>1, <3>2, h \in Hosts, h.ssh.tx_off <= h.ssh.tx_len DEF Handled
    <2>3. CASE ~h.ssh.close_sent
      <3>1. PICK t : t = [h.ssh EXCEPT !.close = TRUE]
        OBVIOUS
      <3>2. t \in Negotiations /\ t.tx_off <= t.tx_len /\ HandledSsh(h.ssh, t, m)
        BY <1>1, <1>10, <2>3, <3>1, EofHandled
      <3>3. g = [h EXCEPT !.ssh = t]
        BY ONLY <2>1, <2>3, <3>1 DEF ProcessChannelEof
      <3>4. QED
        BY <3>2, <3>3, Carried
    <2>4. QED
      BY <2>2, <2>3
  <1>11. QED
    BY <1>2, <1>3, <1>4, <1>5, <1>6, <1>7, <1>8, <1>9, <1>10 DEF Packets

\* What a packet leaves of the host, its number counted.
Advanced(h, g, m) ==
  /\ g.srv = h.srv /\ g.svc.seen = h.svc.seen /\ g.svc.enabled = h.svc.enabled
  /\ g.svc.banner_sent = h.svc.banner_sent /\ g.svc.client_banner_seen = h.svc.client_banner_seen
  /\ HandledRest(h.ssh, g.ssh, m) /\ g.ssh.seq_in = h.ssh.seq_in + 1

\* What the order of the packets written says of the one processed next.
LEMMA NextPacket ==
  ASSUME NEW out \in Seq(Packets), WrittenInOrder(out), NEW h, h.ssh.seq_in \in Nat, NEW k, k = h.ssh.seq_in + 2,
         k \in DOMAIN out
  PROVE  /\ out[k] \in Packets \ {"BANNER"}
         /\ out[k] \in {"KEXINIT", "KEXINIT_NONE"} <=> h.ssh.seq_in = 0
         /\ out[k] = "ECDH" => out[2] = "KEXINIT"
         /\ out[k] \notin {"KEXINIT", "KEXINIT_NONE", "ECDH", "NEWKEYS"} => Took(h, out, "NEWKEYS")
         /\ out[k] \notin {"KEXINIT", "KEXINIT_NONE", "ECDH", "NEWKEYS", "SERVICE"} => Took(h, out, "SERVICE")
         /\ out[k] = "SERVICE" => ~Took(h, out, "SERVICE")
         /\ out[k] = "EXEC" => ~Took(h, out, "EXEC") /\ ~Took(h, out, "EXIT") /\ ~Took(h, out, "EOF")
         /\ Took(h, out, "EXEC") => out[k] = "EOF"
  <1>1. k \in Nat /\ k >= 2 /\ out[k] \in Packets /\ DOMAIN out = 1 .. Len(out) /\ Len(out) \in Nat
    OBVIOUS
  <1>2. \A kind : Took(h, out, kind) <=> Before(out, k, kind)
    <2> SUFFICES ASSUME NEW kind PROVE Took(h, out, kind) <=> Before(out, k, kind)
      OBVIOUS
    <2>1. \A i : i \in DOMAIN out /\ i <= h.ssh.seq_in + 1 <=> i \in 1 .. k - 1
      BY ONLY <1>1, h.ssh.seq_in \in Nat, k = h.ssh.seq_in + 2, k \in DOMAIN out
    <2>2. QED
      BY ONLY <2>1 DEF Took, Before
  <1>3. /\ out[k] = "BANNER" <=> k = 1
        /\ out[k] \in {"KEXINIT", "KEXINIT_NONE"} <=> k = 2
        /\ out[k] = "ECDH" => out[2] = "KEXINIT"
        /\ k > 2 /\ out[k] \notin {"ECDH", "NEWKEYS"} => Before(out, k, "NEWKEYS")
        /\ k > 2 /\ out[k] \notin {"ECDH", "NEWKEYS", "SERVICE"} => Before(out, k, "SERVICE")
        /\ out[k] = "SERVICE" => ~Before(out, k, "SERVICE")
        /\ out[k] = "EXEC" => out[k - 1] = "OPEN"
    BY DEF WrittenInOrder
  <1>4. Before(out, k, "EXEC") => out[k] = "EOF"
    BY <1>1 DEF WrittenInOrder, Before
  <1>5. ASSUME out[k] = "EXEC", NEW m \in {"EXIT", "EOF"}, Before(out, k, m)
        PROVE  FALSE
    <2>1. PICK i \in 1 .. k - 1 : out[i] = m
      BY <1>5 DEF Before
    <2>2. i \in DOMAIN out /\ Before(out, i, "OPEN")
      BY <1>1, <1>5, <2>1 DEF WrittenInOrder, ChatKinds
    <2>3. PICK j \in 1 .. i - 1 : out[j] = "OPEN"
      BY <2>2 DEF Before
    <2>4. out[k - 1] = "OPEN" /\ k - 1 \in DOMAIN out
      BY <1>1, <1>3, <1>5, <2>1
    <2>5. ~Before(out, k - 1, "OPEN")
      BY <2>4 DEF WrittenInOrder
    <2>6. i # k - 1
      BY <1>5, <2>1, <2>4
    <2>7. j \in 1 .. (k - 1) - 1
      BY <1>1, <2>1, <2>3, <2>6
    <2>8. QED
      BY <2>3, <2>5, <2>7 DEF Before
  <1>6. out[k] = "EXEC" => ~Before(out, k, "EXEC")
    BY <1>4
  <1>7. QED
    BY ONLY <1>1, <1>2, <1>3, <1>4, <1>5, <1>6, h.ssh.seq_in \in Nat, k = h.ssh.seq_in + 2

\* One packet more is processed.
LEMMA AdvancedTook ==
  ASSUME NEW out \in Seq(Packets), NEW h, NEW g, h.ssh.seq_in \in Nat, NEW k, k = h.ssh.seq_in + 2,
         k \in DOMAIN out, g.ssh.seq_in = h.ssh.seq_in + 1, NEW kind
  PROVE  Took(g, out, kind) <=> Took(h, out, kind) \/ out[k] = kind
  <1>1. \A i \in DOMAIN out : i <= g.ssh.seq_in + 1 <=> i <= h.ssh.seq_in + 1 \/ i = k
    OBVIOUS
  <1>2. QED
    BY ONLY <1>1, k \in DOMAIN out DEF Took

\* Processing the next packet of the client keeps what relates the two ends.
LEMMA AdvancedKeeps ==
  ASSUME NEW h \in Hosts, NEW g \in Hosts, NEW w \in Wires, NEW out \in Seq(Packets), NEW k, k = h.ssh.seq_in + 2,
         k \in DOMAIN out, h.svc.client_banner_seen, KeysInOrder(h), CountersAgree(h, w.sent),
         ClientKnows(h, w, out), Advanced(h, g, out[k])
  PROVE  KeysInOrder(g) /\ CountersAgree(g, w.sent) /\ ClientKnows(g, w, out)
  <1> DEFINE m == out[k]
  <1>0. h.ssh.seq_in \in Nat
    BY SshTyped DEF Hosts
  <1>1. /\ h.srv.ack <= 2 * Len(out) + 1
        /\ WrittenInOrder(out) /\ AskedFor(h, w, out) /\ EndsOnce(h, w.sent, out)
    BY DEF ClientKnows
  <1>2. HandledRest(h.ssh, g.ssh, m) /\ g.ssh.seq_in = h.ssh.seq_in + 1
    BY DEF Advanced
  <1>3. g.srv = h.srv /\ g.svc.banner_sent = h.svc.banner_sent /\ g.svc.client_banner_seen = h.svc.client_banner_seen
    BY DEF Advanced
  <1>4. \A kind : Took(g, out, kind) <=> Took(h, out, kind) \/ m = kind
    BY <1>0, <1>2, AdvancedTook
  <1>5. /\ m \in Packets \ {"BANNER"}
        /\ m \in {"KEXINIT", "KEXINIT_NONE"} <=> h.ssh.seq_in = 0
        /\ m = "ECDH" => out[2] = "KEXINIT"
        /\ m \notin {"KEXINIT", "KEXINIT_NONE", "ECDH", "NEWKEYS"} => Took(h, out, "NEWKEYS")
        /\ m \notin {"KEXINIT", "KEXINIT_NONE", "ECDH", "NEWKEYS", "SERVICE"} => Took(h, out, "SERVICE")
        /\ m = "SERVICE" => ~Took(h, out, "SERVICE")
        /\ m = "EXEC" => ~Took(h, out, "EXEC") /\ ~Took(h, out, "EXIT") /\ ~Took(h, out, "EOF")
        /\ Took(h, out, "EXEC") => m = "EOF"
    BY <1>0, <1>1, NextPacket
  <1>6. m \in {"KEXINIT", "KEXINIT_NONE"} => m = out[2]
    BY ONLY <1>0, <1>5, k = h.ssh.seq_in + 2
  <1>7. Took(h, out, "NEWKEYS") => h.ssh.client_newkeys_seen /\ h.ssh.ecdh_reply_sent
    <2>1. h.ssh.in_encrypted = Took(h, out, "NEWKEYS") /\ (WroteSome(out, "NEWKEYS") => SentSome(w.sent, "ECDH_REPLY"))
      BY <1>1 DEF AskedFor
    <2>2. h.ssh.in_encrypted = h.ssh.client_newkeys_seen
      BY DEF KeysInOrder
    <2>3. SentSome(w.sent, "ECDH_REPLY") => h.ssh.ecdh_reply_sent
      BY DEF CountersAgree
    <2>4. Took(h, out, "NEWKEYS") => WroteSome(out, "NEWKEYS")
      BY DEF Took, WroteSome
    <2>5. QED
      BY ONLY <2>1, <2>2, <2>3, <2>4
  <1> HIDE DEF m
  <1>8. KeysInOrder(g)
    <2>1. /\ g.ssh.seq_in > 0 => g.svc.client_banner_seen
          /\ g.ssh.out_encrypted = g.ssh.newkeys_sent
          /\ g.ssh.newkeys_sent => g.ssh.ecdh_reply_sent
      BY ONLY <1>2, <1>3, h.svc.client_banner_seen, KeysInOrder(h) DEF KeysInOrder, HandledRest
    <2>2. g.ssh.ecdh_reply_sent => g.ssh.ecdh_ready /\ g.ssh.server_kexinit_sent
      BY ONLY <1>2, KeysInOrder(h) DEF KeysInOrder, HandledRest
    <2>3. g.ssh.ecdh_ready => g.ssh.client_kexinit_seen /\ g.ssh.algorithms /\ g.ssh.seq_in > 0
      <3>1. h.ssh.ecdh_ready => h.ssh.client_kexinit_seen /\ h.ssh.algorithms /\ h.ssh.seq_in > 0
        BY DEF KeysInOrder
      <3>2. h.ssh.seq_in > 0 => h.ssh.client_kexinit_seen /\ h.ssh.algorithms = (out[2] = "KEXINIT")
        BY <1>1 DEF AskedFor
      <3>3. g.ssh.seq_in > 0
        BY ONLY <1>0, <1>2
      <3>4. /\ g.ssh.client_kexinit_seen = IF m \in {"KEXINIT", "KEXINIT_NONE"} THEN TRUE ELSE h.ssh.client_kexinit_seen
            /\ g.ssh.algorithms = IF m \in {"KEXINIT", "KEXINIT_NONE"} THEN m = "KEXINIT" ELSE h.ssh.algorithms
            /\ g.ssh.ecdh_ready = IF m = "ECDH" THEN TRUE ELSE h.ssh.ecdh_ready
        BY ONLY <1>2 DEF HandledRest
      <3>5. CASE m = "ECDH"
        <4>1. h.ssh.seq_in > 0
          BY ONLY <1>0, <1>5, <3>5
        <4>2. QED
          BY ONLY <1>5, <3>2, <3>3, <3>4, <3>5, <4>1
      <3>6. CASE m \in {"KEXINIT", "KEXINIT_NONE"}
        <4>1. h.ssh.seq_in = 0 /\ m # "ECDH"
          BY ONLY <1>5, <3>6
        <4>2. ~h.ssh.ecdh_ready
          BY ONLY <3>1, <4>1
        <4>3. QED
          BY ONLY <3>4, <4>1, <4>2
      <3>7. CASE m # "ECDH" /\ m \notin {"KEXINIT", "KEXINIT_NONE"}
        BY ONLY <3>1, <3>3, <3>4, <3>7
      <3>8. QED
        BY <3>5, <3>6, <3>7
    <2>4. g.ssh.in_encrypted = g.ssh.client_newkeys_seen
      <3>1. h.ssh.in_encrypted = h.ssh.client_newkeys_seen
        BY DEF KeysInOrder
      <3>2. QED
        BY ONLY <1>2, <3>1 DEF HandledRest
    <2>5. g.ssh.service_accept => ~g.ssh.service_accept_sent
      <3>1. h.ssh.service_accept => ~h.ssh.service_accept_sent
        BY DEF KeysInOrder
      <3>2. h.ssh.service_accept_sent => Took(h, out, "SERVICE")
        BY <1>1 DEF AskedFor
      <3>3. QED
        BY ONLY <1>2, <1>5, <3>1, <3>2 DEF HandledRest
    <2>6. Answering(g.ssh) => g.ssh.ecdh_reply_sent /\ g.ssh.client_newkeys_seen
      <3>1. Answering(h.ssh) => h.ssh.ecdh_reply_sent /\ h.ssh.client_newkeys_seen
        BY DEF KeysInOrder
      <3>2. Answering(g.ssh) => Answering(h.ssh) \/ m \notin {"KEXINIT", "KEXINIT_NONE", "ECDH", "NEWKEYS"}
        BY ONLY <1>2 DEF HandledRest, Answering
      <3>3. QED
        BY ONLY <1>2, <1>5, <1>7, <3>1, <3>2 DEF HandledRest
    <2>7. QED
      BY ONLY <2>1, <2>2, <2>3, <2>4, <2>5, <2>6 DEF KeysInOrder
  <1>9. CountersAgree(g, w.sent)
    <2>1. /\ g.ssh.seq_out = h.ssh.seq_out /\ g.ssh.ctr_s2c = h.ssh.ctr_s2c
          /\ g.ssh.out_encrypted = h.ssh.out_encrypted /\ g.ssh.ecdh_reply_sent = h.ssh.ecdh_reply_sent
      BY ONLY <1>2 DEF HandledRest
    <2>2. QED
      BY <1>3, <2>1, Zenon DEF CountersAgree
  <1>10. AskedFor(g, w, out)
    <2>1. g.ssh.in_encrypted = Took(g, out, "NEWKEYS")
      <3>1. h.ssh.in_encrypted = Took(h, out, "NEWKEYS")
        BY <1>1 DEF AskedFor
      <3>2. g.ssh.in_encrypted = IF m = "NEWKEYS" THEN TRUE ELSE h.ssh.in_encrypted
        BY ONLY <1>2 DEF HandledRest
      <3>3. Took(g, out, "NEWKEYS") = (Took(h, out, "NEWKEYS") \/ m = "NEWKEYS")
        BY <1>4, Zenon DEF Took
      <3>4. CASE m = "NEWKEYS"
        BY ONLY <3>2, <3>3, <3>4
      <3>5. CASE m # "NEWKEYS"
        <4>1. Took(g, out, "NEWKEYS") = Took(h, out, "NEWKEYS")
          BY <1>4, <3>5, Zenon DEF Took
        <4>2. QED
          BY ONLY <3>1, <3>2, <3>5, <4>1
      <3>6. QED
        BY <3>4, <3>5
    <2>2. g.ssh.client_kexinit_seen /\ g.ssh.algorithms = (out[2] = "KEXINIT")
      <3>1. h.ssh.seq_in > 0 => h.ssh.client_kexinit_seen /\ h.ssh.algorithms = (out[2] = "KEXINIT")
        BY <1>1 DEF AskedFor
      <3>2. QED
        BY ONLY <1>0, <1>2, <1>5, <1>6, <3>1 DEF HandledRest
    <2>3. g.ssh.ecdh_ready => Took(g, out, "ECDH")
      BY ONLY <1>1, <1>2, <1>4 DEF AskedFor, HandledRest
    <2>4. g.ssh.service_accept \/ g.ssh.service_accept_sent \/ SentSome(w.sent, "SERVICE_ACCEPT")
            => Took(g, out, "SERVICE")
      BY ONLY <1>1, <1>2, <1>4 DEF AskedFor, HandledRest
    <2>5. g.ssh.auth_success \/ SentSome(w.sent, "AUTH_SUCCESS") => Took(g, out, "SERVICE")
      BY ONLY <1>1, <1>2, <1>4, <1>5 DEF AskedFor, HandledRest
    <2>6. g.ssh.open_confirm \/ SentSome(w.sent, "OPEN_CONFIRM") => Took(g, out, "OPEN")
      BY ONLY <1>1, <1>2, <1>4 DEF AskedFor, HandledRest
    <2>7. /\ WroteSome(out, "NEWKEYS") => SentSome(w.sent, "ECDH_REPLY")
          /\ WroteSome(out, "OPEN") => \E i \in 1 .. w.got : w.sent[i].kind = "AUTH_SUCCESS"
      BY ONLY <1>1 DEF AskedFor
    <2>8. QED
      BY ONLY <2>1, <2>2, <2>3, <2>4, <2>5, <2>6, <2>7 DEF AskedFor
  <1>11. EndsOnce(g, w.sent, out)
    <2>1. \/ g.ssh.exit_status \/ g.ssh.close
          \/ SentSome(w.sent, "EXIT_STATUS") \/ SentSome(w.sent, "CLOSE")
          => Took(g, out, "EXEC") \/ Took(g, out, "EXIT") \/ Took(g, out, "EOF")
      BY ONLY <1>1, <1>2, <1>4 DEF EndsOnce, HandledRest
    <2>2. ASSUME Took(g, out, "EXEC"), NEW i \in DOMAIN w.sent
          PROVE  /\ w.sent[i].kind = "CLOSE" => i = Len(w.sent) /\ g.ssh.close_sent /\ ~g.ssh.close
                 /\ w.sent[i].kind = "EXIT_STATUS" => \A j \in DOMAIN w.sent : j > i => w.sent[j].kind = "CLOSE"
                 /\ w.sent[i].kind \in {"EXIT_STATUS", "CLOSE"} => Silent(g)
      <3>1. CASE m = "EXEC"
        <4>1. ~SentSome(w.sent, "EXIT_STATUS") /\ ~SentSome(w.sent, "CLOSE")
          BY ONLY <1>1, <1>5, <3>1 DEF EndsOnce
        <4>2. QED
          BY <4>1 DEF SentSome
      <3>2. CASE m # "EXEC"
        <4>1. Took(h, out, "EXEC") /\ m = "EOF"
          BY <1>4, <1>5, <2>2, <3>2
        <4>2. /\ w.sent[i].kind = "CLOSE" => i = Len(w.sent) /\ h.ssh.close_sent /\ ~h.ssh.close
              /\ w.sent[i].kind = "EXIT_STATUS" => \A j \in DOMAIN w.sent : j > i => w.sent[j].kind = "CLOSE"
              /\ w.sent[i].kind \in {"EXIT_STATUS", "CLOSE"} => Silent(h)
          BY ONLY <1>1, <2>2, <4>1 DEF EndsOnce
        <4>3. h.ssh.close_sent /\ ~h.ssh.close => g.ssh.close_sent /\ ~g.ssh.close
          BY ONLY <1>2, <4>1 DEF HandledRest
        <4>4. Silent(h) => Silent(g)
          <5> SUFFICES ASSUME Silent(h), NEW kind \in SentKinds \ {"CLOSE"}, Due(g)[kind]
              PROVE  FALSE
            BY DEF Silent
          <5>1. /\ Due(g)["BANNER"] => Due(h)["BANNER"]
                /\ Due(g)["KEXINIT"] => Due(h)["KEXINIT"]
                /\ Due(g)["DISCONNECT"] => Due(h)["DISCONNECT"]
                /\ Due(g)["ECDH_REPLY"] => Due(h)["ECDH_REPLY"]
                /\ Due(g)["NEWKEYS"] => Due(h)["NEWKEYS"]
                /\ Due(g)["SERVICE_ACCEPT"] => Due(h)["SERVICE_ACCEPT"]
                /\ Due(g)["AUTH_SUCCESS"] => Due(h)["AUTH_SUCCESS"]
                /\ Due(g)["AUTH_FAILURE"] => Due(h)["AUTH_FAILURE"]
                /\ Due(g)["OPEN_CONFIRM"] => Due(h)["OPEN_CONFIRM"]
                /\ Due(g)["SUCCESS"] => Due(h)["SUCCESS"]
                /\ Due(g)["FAILURE"] => Due(h)["FAILURE"]
                /\ Due(g)["DATA"] => Due(h)["DATA"]
                /\ Due(g)["EXIT_STATUS"] => Due(h)["EXIT_STATUS"]
            BY ONLY <1>2, <1>3, <4>1, DueAre DEF HandledRest
          <5>2. kind \in {"BANNER", "KEXINIT", "DISCONNECT", "ECDH_REPLY", "NEWKEYS", "SERVICE_ACCEPT", "AUTH_SUCCESS", "AUTH_FAILURE", "OPEN_CONFIRM", "SUCCESS", "FAILURE", "DATA", "EXIT_STATUS"}
            BY KindsAre
          <5>3. Due(h)[kind]
            BY ONLY <5>1, <5>2, Due(g)[kind]
          <5>4. QED
            BY <5>3 DEF Silent
        <4>5. QED
          BY ONLY <4>2, <4>3, <4>4
      <3>3. QED
        BY <3>1, <3>2
    <2>3. QED
      BY <2>1, <2>2 DEF EndsOnce
  <1>12. g.srv.ack <= 2 * Len(out) + 1
    BY <1>1, <1>3
  <1>13. QED
    BY <1>1, <1>8, <1>9, <1>10, <1>11, <1>12 DEF ClientKnows

\* The units that follow the first a packets after the banner.
Follows(rx, a) == \A i \in DOMAIN rx : rx[i] = 2 + 2 * a + i

\* The state of a session whose next units are rx.
Capturing(h, w, out, rx) ==
  /\ h \in Hosts /\ h.ssh.tx_off <= h.ssh.tx_len /\ h.svc.client_banner_seen
  /\ KeysInOrder(h) /\ CountersAgree(h, w.sent) /\ ClientKnows(h, w, out)
  /\ rx \in Seq(Nat) /\ Follows(rx, h.ssh.seq_in)
  /\ h.srv.ack = 3 + 2 * h.ssh.seq_in + Len(rx)

\* Nothing changes but the negotiation and the counters of the service.
SameService(h, g) ==
  /\ g.srv = h.srv /\ g.svc.seen = h.svc.seen /\ g.svc.enabled = h.svc.enabled
  /\ g.svc.banner_sent = h.svc.banner_sent /\ g.svc.client_banner_seen = h.svc.client_banner_seen

\* What is held does not matter to the rest.
LEMMA BufferSwap ==
  ASSUME NEW f \in Hosts, NEW g \in Hosts, SameService(f, g), NEW w, NEW out, NEW rx,
         \A x \in SshFields \ SshBuffers : g.ssh[x] = f.ssh[x], Capturing(f, w, out, rx)
  PROVE  Capturing(g, w, out, rx)
  <1>1. /\ g.ssh.server_kexinit_sent = f.ssh.server_kexinit_sent /\ g.ssh.client_kexinit_seen = f.ssh.client_kexinit_seen
        /\ g.ssh.algorithms = f.ssh.algorithms /\ g.ssh.ecdh_ready = f.ssh.ecdh_ready
        /\ g.ssh.ecdh_reply_sent = f.ssh.ecdh_reply_sent /\ g.ssh.newkeys_sent = f.ssh.newkeys_sent
        /\ g.ssh.client_newkeys_seen = f.ssh.client_newkeys_seen /\ g.ssh.disconnect_sent = f.ssh.disconnect_sent
        /\ g.ssh.in_encrypted = f.ssh.in_encrypted /\ g.ssh.out_encrypted = f.ssh.out_encrypted
        /\ g.ssh.service_accept = f.ssh.service_accept /\ g.ssh.service_accept_sent = f.ssh.service_accept_sent
        /\ g.ssh.auth_failure = f.ssh.auth_failure /\ g.ssh.auth_success = f.ssh.auth_success
        /\ g.ssh.open_confirm = f.ssh.open_confirm /\ g.ssh.success = f.ssh.success
        /\ g.ssh.failure = f.ssh.failure /\ g.ssh.data = f.ssh.data
        /\ g.ssh.exit_status = f.ssh.exit_status /\ g.ssh.close = f.ssh.close
        /\ g.ssh.close_sent = f.ssh.close_sent /\ g.ssh.seq_in = f.ssh.seq_in
        /\ g.ssh.seq_out = f.ssh.seq_out /\ g.ssh.ctr_s2c = f.ssh.ctr_s2c
        /\ g.ssh.tx_off = f.ssh.tx_off /\ g.ssh.tx_len = f.ssh.tx_len
    BY ONLY \A x \in SshFields \ SshBuffers : g.ssh[x] = f.ssh[x]
       DEF SshFields, SshFlags, SshCounts, SshLengths, SshBuffers
  <1>2. g.srv = f.srv /\ g.svc.banner_sent = f.svc.banner_sent /\ g.svc.client_banner_seen = f.svc.client_banner_seen
    BY DEF SameService
  <1>3. Due(g) = Due(f)
    BY ONLY <1>1, <1>2, Zenon DEF Due
  <1>4. \A kind : Took(g, out, kind) <=> Took(f, out, kind)
    BY ONLY <1>1 DEF Took
  <1>5. KeysInOrder(f) => KeysInOrder(g)
    BY ONLY <1>1, <1>2, Zenon DEF KeysInOrder, Answering
  <1>6. CountersAgree(f, w.sent) => CountersAgree(g, w.sent)
    BY ONLY <1>1, <1>2, Zenon DEF CountersAgree
  <1>7. AskedFor(f, w, out) => AskedFor(g, w, out)
    BY ONLY <1>1, <1>4, Zenon DEF AskedFor, Took
  <1>8. EndsOnce(f, w.sent, out) => EndsOnce(g, w.sent, out)
    <2>1. Silent(f) <=> Silent(g)
      BY <1>3 DEF Silent
    <2>2. QED
      BY ONLY <1>1, <1>4, <2>1 DEF EndsOnce
  <1>9. ClientKnows(f, w, out) => ClientKnows(g, w, out)
    BY ONLY <1>2, <1>7, <1>8 DEF ClientKnows
  <1>10. QED
    BY ONLY g \in Hosts, <1>1, <1>2, <1>5, <1>6, <1>9, Capturing(f, w, out, rx) DEF Capturing

-----------------------------------------------------------------------------
(* The loops over the units held.                                          *)

\* The first packet held is whole, and the rest follows it.
LEMMA NextUnits ==
  ASSUME NEW rx \in Seq(Nat), Len(rx) >= 2, NEW a \in Nat, Follows(rx, a),
         NEW r, r = Tail(Tail(rx))
  PROVE  /\ Whole(rx) /\ PacketOf(rx[1]) = a + 2
         /\ r \in Seq(Nat) /\ Len(r) = Len(rx) - 2 /\ Len(rx) \in Nat
         /\ Follows(r, a + 1)
  <1>1. Len(rx) \in Nat /\ DOMAIN rx = 1 .. Len(rx) /\ \A i \in DOMAIN rx : rx[i] = 2 + 2 * a + i
    BY DEF Follows
  <1>2. rx[1] = 3 + 2 * a /\ rx[2] = 4 + 2 * a
    <2>1. 1 \in DOMAIN rx /\ 2 \in DOMAIN rx
      BY <1>1
    <2>2. rx[1] = 2 + 2 * a + 1 /\ rx[2] = 2 + 2 * a + 2
      BY ONLY <1>1, <2>1
    <2>3. QED
      BY ONLY <2>2, a \in Nat
  <1>3. (3 + 2 * a) % 2 = 1 /\ ((3 + 2 * a) + 1) \div 2 = a + 2
    OBVIOUS
  <1>4. Whole(rx) /\ PacketOf(rx[1]) = a + 2
    BY <1>2, <1>3 DEF Whole, PacketOf
  <1>5. PICK n \in Nat : n = Len(rx)
    BY <1>1
  <1>6. PICK q : q = Tail(rx)
    OBVIOUS
  <1>7. q \in Seq(Nat) /\ Len(q) = n - 1 /\ \A i \in 1 .. n - 1 : q[i] = rx[i + 1]
    BY ONLY <1>1, <1>5, <1>6, rx \in Seq(Nat), Len(rx) >= 2
  <1>8. r \in Seq(Nat) /\ Len(r) = n - 2 /\ \A i \in 1 .. n - 2 : r[i] = q[i + 1]
    <2>1. r = Tail(q) /\ n >= 2
      BY <1>5, <1>6
    <2>2. Len(r) = (n - 1) - 1 /\ r \in Seq(Nat) /\ \A i \in 1 .. (n - 1) - 1 : r[i] = q[i + 1]
      BY ONLY <1>7, <2>1, n \in Nat
    <2>3. (n - 1) - 1 = n - 2
      OBVIOUS
    <2>4. QED
      BY ONLY <2>2, <2>3
  <1>9. ASSUME NEW i \in DOMAIN r
        PROVE  r[i] = 2 + 2 * (a + 1) + i
    <2>0. i \in 1 .. n - 2
      BY <1>8
    <2>1. i + 1 \in 1 .. n - 1 /\ i + 2 \in 1 .. n /\ (i + 1) + 1 = i + 2 /\ i \in Nat
      BY ONLY <2>0, n \in Nat
    <2>2. r[i] = rx[i + 2]
      BY ONLY <1>7, <1>8, <2>0, <2>1
    <2>3. rx[i + 2] = 2 + 2 * a + (i + 2)
      BY ONLY <1>1, <1>5, <2>1
    <2>4. QED
      BY ONLY <2>1, <2>2, <2>3, a \in Nat
  <1>10. QED
    BY ONLY <1>1, <1>4, <1>5, <1>8, <1>9 DEF Follows

\* The next packet: it is whole, it is encrypted just when the keys are on,
\* its number is the one expected, and the session goes on behind it.
LEMMA DrainStep ==
  ASSUME NEW w \in Wires, NEW h, NEW rx, cli.out \in Seq(Packets), Capturing(h, w, cli.out, rx), Len(rx) >= 2,
         NEW c \in Nat, NEW k, k = PacketOf(rx[1]), NEW f, f = Processed(h, k, c)
  PROVE  /\ Whole(rx) /\ (IsEncrypted(k) <=> h.ssh.in_encrypted) /\ k = h.ssh.seq_in + 2
         /\ Capturing(f, w, cli.out, Tail(Tail(rx))) /\ SameService(h, f)
         /\ f.ssh.binary_rx = h.ssh.binary_rx /\ f.ssh.encrypted_rx = h.ssh.encrypted_rx
         /\ h.ssh.in_encrypted => f.ssh.in_encrypted
  <1>1. /\ h \in Hosts /\ h.ssh.tx_off <= h.ssh.tx_len /\ h.svc.client_banner_seen
        /\ KeysInOrder(h) /\ CountersAgree(h, w.sent) /\ ClientKnows(h, w, cli.out)
        /\ rx \in Seq(Nat) /\ Follows(rx, h.ssh.seq_in)
        /\ h.srv.ack = 3 + 2 * h.ssh.seq_in + Len(rx)
    BY DEF Capturing
  <1>2. h.ssh.seq_in \in Nat /\ h.ssh \in Negotiations
    BY <1>1, SshTyped DEF Hosts
  <1>0. PICK a \in Nat : a = h.ssh.seq_in
    BY <1>2
  <1>26. /\ rx \in Seq(Nat) /\ Follows(rx, a)
         /\ h.srv.ack = 3 + 2 * a + Len(rx)
    BY ONLY <1>0, <1>1, Zenon
  <1>3. PICK r : r = Tail(Tail(rx))
    OBVIOUS
  <1>4. /\ Whole(rx) /\ k = a + 2 /\ k = h.ssh.seq_in + 2
        /\ r \in Seq(Nat) /\ Len(r) = Len(rx) - 2 /\ Len(rx) \in Nat
        /\ Follows(r, a + 1)
    <2>1. /\ Whole(rx) /\ PacketOf(rx[1]) = a + 2
          /\ r \in Seq(Nat) /\ Len(r) = Len(rx) - 2 /\ Len(rx) \in Nat
          /\ Follows(r, a + 1)
      BY <1>26, <1>3, NextUnits
    <2>2. QED
      BY ONLY <1>0, <2>1, k = PacketOf(rx[1])
  <1>5. k \in DOMAIN cli.out
    <2>1. h.srv.ack <= 2 * Len(cli.out) + 1
      BY <1>1 DEF ClientKnows
    <2>2. PICK n, l : n = Len(cli.out) /\ l = Len(rx)
      OBVIOUS
    <2>3. n \in Nat /\ l \in Nat /\ DOMAIN cli.out = 1 .. n
      BY <1>4, <2>2
    <2>4. l >= 2 /\ 3 + 2 * a + l <= 2 * n + 1
      BY ONLY <1>26, <2>1, <2>2, Len(rx) >= 2, Zenon
    <2>5. k = a + 2
      BY <1>4
    <2>6. a + 2 \in 1 .. n
      BY ONLY a \in Nat, <2>3, <2>4
    <2>7. QED
      BY ONLY <2>3, <2>5, <2>6
  <1>6. IsEncrypted(k) <=> h.ssh.in_encrypted
    <2>1. h.ssh.in_encrypted = Took(h, cli.out, "NEWKEYS")
      BY <1>1 DEF ClientKnows, AskedFor
    <2>2. \A i : i \in 1 .. k - 1 <=> i \in DOMAIN cli.out /\ i <= h.ssh.seq_in + 1
      <3>1. PICK n : n = Len(cli.out)
        OBVIOUS
      <3>2. n \in Nat /\ DOMAIN cli.out = 1 .. n /\ a + 2 \in 1 .. n /\ k = a + 2
        BY <1>4, <1>5, <3>1
      <3>3. \A i : i \in 1 .. k - 1 <=> i \in DOMAIN cli.out /\ i <= a + 1
        BY ONLY a \in Nat, <3>2
      <3>4. QED
        BY ONLY <1>0, <3>3, Zenon
    <2>3. IsEncrypted(k) <=> Took(h, cli.out, "NEWKEYS")
      BY ONLY <2>2 DEF IsEncrypted, Took
    <2>4. QED
      BY ONLY <2>1, <2>3
  <1>7. PICK m : m = cli.out[k]
    OBVIOUS
  <1>8. m \in Packets \ {"BANNER"}
    <2>1. WrittenInOrder(cli.out)
      BY <1>1 DEF ClientKnows
    <2>2. QED
      BY <1>2, <1>4, <1>5, <1>7, <2>1, NextPacket
  <1>9. PICK p : p = ProcessPacket(h, m, c)
    OBVIOUS
  <1>10. p \in Hosts /\ p.ssh.tx_off <= p.ssh.tx_len /\ Handled(h, p, m)
    BY <1>1, <1>8, <1>9, ProcessHandled
  <1>11. p.ssh \in Negotiations /\ p.ssh.seq_in = h.ssh.seq_in
    BY <1>10 DEF Hosts, Handled, HandledSsh
  <1>12. PICK n : n = h.ssh.seq_in + 1
    OBVIOUS
  <1>13. PICK s \in Negotiations : s = [p.ssh EXCEPT !["seq_in"] = n]
    <2>1. n \in Nat
      BY <1>2, <1>12
    <2>2. QED
      BY <1>11, <2>1, CountSet DEF SshCounts
  <1>14. f = [p EXCEPT !.ssh = s]
    BY ONLY <1>7, <1>9, <1>11, <1>12, <1>13, f = Processed(h, k, c) DEF Processed
  <1>15. f \in Hosts /\ f.srv = p.srv /\ f.svc = p.svc /\ f.ssh = s
    BY <1>10, <1>13, <1>14, SshWritten
  <1>16. f.ssh.seq_in = n /\ \A x \in SshFields \ {"seq_in"} : f.ssh[x] = p.ssh[x]
    BY ONLY <1>11, <1>13, <1>15 DEF Negotiations, SshFields, SshCounts
  <1>17. Advanced(h, f, m)
    <2>1. HandledRest(h.ssh, p.ssh, m)
      BY <1>10 DEF Handled, HandledSsh
    <2>2. HandledRest(h.ssh, f.ssh, m)
      <3>1. /\ f.ssh.server_kexinit_sent = p.ssh.server_kexinit_sent /\ f.ssh.client_kexinit_seen = p.ssh.client_kexinit_seen
            /\ f.ssh.algorithms = p.ssh.algorithms /\ f.ssh.ecdh_ready = p.ssh.ecdh_ready
            /\ f.ssh.ecdh_reply_sent = p.ssh.ecdh_reply_sent /\ f.ssh.newkeys_sent = p.ssh.newkeys_sent
            /\ f.ssh.client_newkeys_seen = p.ssh.client_newkeys_seen /\ f.ssh.disconnect_sent = p.ssh.disconnect_sent
            /\ f.ssh.in_encrypted = p.ssh.in_encrypted /\ f.ssh.out_encrypted = p.ssh.out_encrypted
            /\ f.ssh.service_accept = p.ssh.service_accept /\ f.ssh.service_accept_sent = p.ssh.service_accept_sent
            /\ f.ssh.auth_failure = p.ssh.auth_failure /\ f.ssh.auth_success = p.ssh.auth_success
            /\ f.ssh.open_confirm = p.ssh.open_confirm /\ f.ssh.success = p.ssh.success
            /\ f.ssh.failure = p.ssh.failure /\ f.ssh.data = p.ssh.data
            /\ f.ssh.exit_status = p.ssh.exit_status /\ f.ssh.close = p.ssh.close
            /\ f.ssh.close_sent = p.ssh.close_sent
            /\ f.ssh.seq_out = p.ssh.seq_out /\ f.ssh.ctr_s2c = p.ssh.ctr_s2c
        BY ONLY <1>16 DEF SshFields, SshFlags, SshCounts
      <3>2. QED
        BY ONLY <2>1, <3>1 DEF HandledRest
    <2>3. QED
      BY ONLY <1>10, <1>12, <1>15, <1>16, <2>2 DEF Advanced, Handled
  <1>18. KeysInOrder(f) /\ CountersAgree(f, w.sent) /\ ClientKnows(f, w, cli.out)
    BY <1>1, <1>4, <1>5, <1>7, <1>15, <1>17, AdvancedKeeps
  <1>19. f.ssh.tx_off <= f.ssh.tx_len
    BY ONLY <1>10, <1>16 DEF SshFields, SshLengths
  <1>20. SameService(h, f) /\ f.svc.client_banner_seen /\ f.srv.ack = h.srv.ack
    BY ONLY <1>1, <1>17 DEF SameService, Advanced
  <1>21. f.ssh.seq_in = a + 1
    BY <1>0, <1>12, <1>16
  <1>22. f.srv.ack = 3 + 2 * (a + 1) + Len(r)
    <2>1. h.srv.ack = 3 + 2 * a + Len(rx) /\ f.srv.ack = h.srv.ack
      BY <1>20, <1>26
    <2>2. Len(rx) \in Nat /\ Len(r) = Len(rx) - 2
      BY <1>4
    <2>3. QED
      BY ONLY <2>1, <2>2, a \in Nat
  <1>23. Capturing(f, w, cli.out, Tail(Tail(rx)))
    BY ONLY <1>3, <1>4, <1>15, <1>18, <1>19, <1>20, <1>21, <1>22 DEF Capturing
  <1>24. f.ssh.binary_rx = h.ssh.binary_rx /\ f.ssh.encrypted_rx = h.ssh.encrypted_rx
    <2>1. p.ssh.binary_rx = h.ssh.binary_rx /\ p.ssh.encrypted_rx = h.ssh.encrypted_rx
      BY <1>10 DEF Handled, HandledSsh
    <2>2. QED
      BY ONLY <1>16, <2>1 DEF SshFields, SshBuffers
  <1>27. h.ssh.in_encrypted => f.ssh.in_encrypted
    BY ONLY <1>17 DEF Advanced, HandledRest
  <1>28. QED
    BY ONLY <1>4, <1>6, <1>20, <1>23, <1>24, <1>27, <1>3

\* One round of the loops of ssh_drain_binary_packets and its counterpart.
BinaryLoop(h, w, g) ==
  /\ SameService(h, g) /\ g.ssh.encrypted_rx = <<>>
  /\ Capturing(g, w, cli.out, g.ssh.binary_rx)

\* One round of the plain loop keeps what it starts from.
LEMMA DrainBinaryKeeps ==
  ASSUME NEW w \in Wires, cli.out \in Seq(Packets), NEW h, NEW g, BinaryLoop(h, w, g), NEW c \in Nat,
         NEW n, n = DrainBinary(g, c)
  PROVE  BinaryLoop(h, w, n)
  <1>1. PICK rx, k : rx = g.ssh.binary_rx /\ k = PacketOf(rx[1])
    OBVIOUS
  <1>2. PICK f : f = Processed(g, k, c)
    OBVIOUS
  <1>3. SameService(h, g) /\ g.ssh.encrypted_rx = <<>> /\ Capturing(g, w, cli.out, rx)
    BY <1>1 DEF BinaryLoop
  <1>4. CASE Len(rx) < 2 \/ g.ssh.in_encrypted
    <2>1. n = g
      BY ONLY <1>1, <1>4, n = DrainBinary(g, c) DEF DrainBinary
    <2>2. QED
      BY <2>1
  <1>5. CASE ~(Len(rx) < 2 \/ g.ssh.in_encrypted)
    <2>1. Len(rx) >= 2
      <3>1. rx \in Seq(Nat)
        BY <1>3 DEF Capturing
      <3>2. QED
        BY <1>5, <3>1
    <2>2. /\ Whole(rx) /\ (IsEncrypted(k) <=> g.ssh.in_encrypted) /\ k = g.ssh.seq_in + 2
          /\ Capturing(f, w, cli.out, Tail(Tail(rx))) /\ SameService(g, f)
          /\ f.ssh.binary_rx = g.ssh.binary_rx /\ f.ssh.encrypted_rx = g.ssh.encrypted_rx
          /\ g.ssh.in_encrypted => f.ssh.in_encrypted
      BY <1>1, <1>2, <1>3, <2>1, DrainStep
    <2>3. PICK r : r = Tail(Tail(rx))
      OBVIOUS
    <2>4. r \in Seq(Nat) /\ f \in Hosts /\ f.ssh \in Negotiations
      BY ONLY <2>2, <2>3 DEF Capturing, Hosts
    <2>5. n = [f EXCEPT !.ssh.binary_rx = r]
      BY ONLY <1>1, <1>2, <1>5, <2>2, <2>3, n = DrainBinary(g, c) DEF DrainBinary
    <2>6. PICK s \in Negotiations : s = [f.ssh EXCEPT !["binary_rx"] = r]
      BY <2>4, BufferSet DEF SshBuffers
    <2>7. n = [f EXCEPT !.ssh = s]
      BY ONLY <2>5, <2>6
    <2>8. n \in Hosts /\ n.srv = f.srv /\ n.svc = f.svc /\ n.ssh = s
      BY <2>4, <2>6, <2>7, SshWritten
    <2>9. n.ssh.binary_rx = r /\ \A y \in SshFields \ {"binary_rx"} : n.ssh[y] = f.ssh[y]
      BY ONLY <2>4, <2>6, <2>8 DEF Negotiations, SshFields, SshBuffers
    <2>10. SameService(f, n) /\ SameService(h, n)
      BY ONLY <1>3, <2>2, <2>8 DEF SameService
    <2>11. \A y \in SshFields \ SshBuffers : n.ssh[y] = f.ssh[y]
      BY ONLY <2>9 DEF SshBuffers
    <2>12. Capturing(n, w, cli.out, r)
      BY <2>2, <2>3, <2>4, <2>8, <2>10, <2>11, BufferSwap
    <2>13. n.ssh.encrypted_rx = <<>>
      BY ONLY <1>3, <2>2, <2>9 DEF SshFields, SshFlags, SshBuffers
    <2>14. QED
      BY ONLY <2>9, <2>10, <2>12, <2>13 DEF BinaryLoop
  <1>6. QED
    BY <1>4, <1>5

\* The same for the encrypted loop.
EncryptedLoop(h, w, g) ==
  /\ SameService(h, g) /\ g.ssh.binary_rx = <<>> /\ g.ssh.in_encrypted
  /\ Capturing(g, w, cli.out, g.ssh.encrypted_rx)

LEMMA DrainEncryptedKeeps ==
  ASSUME NEW w \in Wires, cli.out \in Seq(Packets), NEW h, NEW g, EncryptedLoop(h, w, g), NEW c \in Nat,
         NEW n, n = DrainEncrypted(g, c)
  PROVE  EncryptedLoop(h, w, n)
  <1>1. PICK rx, k : rx = g.ssh.encrypted_rx /\ k = PacketOf(rx[1])
    OBVIOUS
  <1>2. PICK f : f = Processed(g, k, c)
    OBVIOUS
  <1>3. SameService(h, g) /\ g.ssh.binary_rx = <<>> /\ g.ssh.in_encrypted /\ Capturing(g, w, cli.out, rx)
    BY <1>1 DEF EncryptedLoop
  <1>4. CASE Len(rx) < 2
    <2>1. n = g
      BY ONLY <1>1, <1>4, n = DrainEncrypted(g, c) DEF DrainEncrypted
    <2>2. QED
      BY <2>1
  <1>5. CASE ~(Len(rx) < 2)
    <2>1. Len(rx) >= 2
      <3>1. rx \in Seq(Nat)
        BY <1>3 DEF Capturing
      <3>2. QED
        BY <1>5, <3>1
    <2>2. /\ Whole(rx) /\ (IsEncrypted(k) <=> g.ssh.in_encrypted) /\ k = g.ssh.seq_in + 2
          /\ Capturing(f, w, cli.out, Tail(Tail(rx))) /\ SameService(g, f)
          /\ f.ssh.binary_rx = g.ssh.binary_rx /\ f.ssh.encrypted_rx = g.ssh.encrypted_rx
          /\ g.ssh.in_encrypted => f.ssh.in_encrypted
      BY <1>1, <1>2, <1>3, <2>1, DrainStep
    <2>3. PICK r : r = Tail(Tail(rx))
      OBVIOUS
    <2>4. r \in Seq(Nat) /\ f \in Hosts /\ f.ssh \in Negotiations
      BY ONLY <2>2, <2>3 DEF Capturing, Hosts
    <2>5. n = [f EXCEPT !.ssh.encrypted_rx = r]
      <3>1. g.ssh.seq_in \in Nat
        BY <1>3, SshTyped DEF Capturing, Hosts
      <3>2. k \in Nat /\ g.ssh.seq_in = k - 2
        BY ONLY <2>2, <3>1
      <3>3. MacAgrees(g, k)
        BY ONLY <1>3, <2>2, <3>2 DEF MacAgrees
      <3>4. QED
        BY ONLY <1>1, <1>2, <1>5, <2>2, <2>3, <3>3, n = DrainEncrypted(g, c) DEF DrainEncrypted
    <2>6. PICK s \in Negotiations : s = [f.ssh EXCEPT !["encrypted_rx"] = r]
      BY <2>4, BufferSet DEF SshBuffers
    <2>7. n = [f EXCEPT !.ssh = s]
      BY ONLY <2>5, <2>6
    <2>8. n \in Hosts /\ n.srv = f.srv /\ n.svc = f.svc /\ n.ssh = s
      BY <2>4, <2>6, <2>7, SshWritten
    <2>9. n.ssh.encrypted_rx = r /\ \A y \in SshFields \ {"encrypted_rx"} : n.ssh[y] = f.ssh[y]
      BY ONLY <2>4, <2>6, <2>8 DEF Negotiations, SshFields, SshBuffers
    <2>10. SameService(f, n) /\ SameService(h, n)
      BY ONLY <1>3, <2>2, <2>8 DEF SameService
    <2>11. \A y \in SshFields \ SshBuffers : n.ssh[y] = f.ssh[y]
      BY ONLY <2>9 DEF SshBuffers
    <2>12. Capturing(n, w, cli.out, r)
      BY <2>2, <2>3, <2>4, <2>8, <2>10, <2>11, BufferSwap
    <2>13. n.ssh.binary_rx = <<>> /\ n.ssh.in_encrypted
      BY ONLY <1>3, <2>2, <2>9 DEF SshFields, SshFlags, SshBuffers
    <2>14. QED
      BY ONLY <2>9, <2>10, <2>12, <2>13 DEF EncryptedLoop
  <1>6. QED
    BY <1>4, <1>5

\* The rounds of CaptureData as a function, which exists and keeps the loop.
BinaryRounds(h, units, c) ==
  CHOOSE after : after = [i \in 0 .. Rounds |->
    IF i = 0 THEN [h EXCEPT !.ssh.binary_rx = @ \o units] ELSE DrainBinary(after[i - 1], c)]

\* The rounds of the plain loop are the function they are defined by.
LEMMA BinaryRoundsAre ==
  ASSUME NEW h, NEW units, NEW c
  PROVE  BinaryRounds(h, units, c) = [i \in 0 .. Rounds |->
           IF i = 0 THEN [h EXCEPT !.ssh.binary_rx = @ \o units]
           ELSE DrainBinary(BinaryRounds(h, units, c)[i - 1], c)]
  <1> DEFINE Step(f, i) == IF i = 0 THEN [h EXCEPT !.ssh.binary_rx = @ \o units] ELSE DrainBinary(f[i - 1], c)
  <1> DEFINE S == {n \in Nat : \E f : f = [i \in 0 .. n |-> Step(f, i)]}
  <1>1. 0 \in S
    <2>1. PICK f : f = [i \in 0 .. 0 |-> [h EXCEPT !.ssh.binary_rx = @ \o units]]
      OBVIOUS
    <2>2. \A i \in 0 .. 0 : i = 0
      OBVIOUS
    <2>3. f = [i \in 0 .. 0 |-> Step(f, i)]
      BY <2>1, <2>2
    <2>4. QED
      BY <2>3
  <1>2. ASSUME NEW n \in S PROVE n + 1 \in S
    <2>1. PICK f : f = [i \in 0 .. n |-> Step(f, i)]
      OBVIOUS
    <2>2. n \in Nat
      OBVIOUS
    <2>3. PICK g : g = [i \in 0 .. n + 1 |-> IF i = n + 1 THEN DrainBinary(f[n], c) ELSE f[i]]
      OBVIOUS
    <2>4. \A i \in 0 .. n : g[i] = f[i]
      BY ONLY <2>2, <2>3
    <2>5. ASSUME NEW i \in 0 .. n + 1 PROVE g[i] = Step(g, i)
      <3>1. CASE i = n + 1
        <4>1. i # 0 /\ i - 1 = n /\ n \in 0 .. n
          BY ONLY <2>2, <3>1
        <4>2. g[i] = DrainBinary(f[n], c)
          BY ONLY <2>3, <2>5, <3>1
        <4>3. g[n] = f[n]
          BY <2>4, <4>1
        <4>4. g[i] = DrainBinary(g[i - 1], c)
          BY ONLY <4>1, <4>2, <4>3, Zenon
        <4>5. QED
          BY <4>1, <4>4, Zenon
      <3>2. CASE i # n + 1
        <4>1. i \in 0 .. n
          BY <2>2, <3>2
        <4>2. f[i] = Step(f, i)
          BY <2>1, <4>1, Zenon
        <4>3. g[i] = f[i]
          BY <2>4, <4>1
        <4>4. CASE i = 0
          BY <4>2, <4>3, <4>4, Zenon
        <4>5. CASE i # 0
          <5>1. i - 1 \in 0 .. n
            BY <2>2, <4>1, <4>5
          <5>2. g[i - 1] = f[i - 1]
            BY <2>4, <5>1
          <5>3. QED
            BY <4>2, <4>3, <4>5, <5>2, Zenon
        <4>6. QED
          BY <4>4, <4>5
      <3>3. QED
        BY <3>1, <3>2
    <2>6. g = [i \in 0 .. n + 1 |-> Step(g, i)]
      <3> HIDE DEF Step
      <3>1. DOMAIN g = 0 .. n + 1 /\ g = [i \in 0 .. n + 1 |-> g[i]]
        BY ONLY <2>3
      <3>2. QED
        BY <2>5, <3>1
    <2>7. n + 1 \in Nat
      BY <2>2
    <2>8. QED
      BY <2>6, <2>7
  <1>3. S = Nat
    <2> HIDE DEF Step
    <2>1. S \in SUBSET Nat
      OBVIOUS
    <2> HIDE DEF S
    <2>2. QED
      BY <1>1, <1>2, <2>1, NatSet
  <1>4. Rounds \in Nat
    BY SshConstants DEF Rounds
  <1>5. \E f : f = [i \in 0 .. Rounds |-> Step(f, i)]
    <2> HIDE DEF Step
    <2>1. QED
      BY <1>3, <1>4
  <1>6. QED
    BY <1>5, Zenon DEF BinaryRounds

BinaryStart(h, units) == [h EXCEPT !.ssh.binary_rx = @ \o units]

\* What the two loops compute, round by round.
LEMMA BinaryRoundsStep ==
  ASSUME NEW h, NEW units, NEW c, NEW g, g = BinaryStart(h, units),
         NEW after, after = BinaryRounds(h, units, c)
  PROVE  after[0] = g /\ \A i \in 1 .. Rounds : after[i] = DrainBinary(after[i - 1], c)
  <1> DEFINE Step(i) == IF i = 0 THEN [h EXCEPT !.ssh.binary_rx = @ \o units]
                        ELSE DrainBinary(BinaryRounds(h, units, c)[i - 1], c)
  <1>1. BinaryRounds(h, units, c) = [i \in 0 .. Rounds |-> Step(i)]
    BY BinaryRoundsAre
  <1>2. Rounds \in Nat
    BY SshConstants DEF Rounds
  <1>3. \A i \in 0 .. Rounds : after[i] = Step(i)
    <2> HIDE DEF Step
    <2>1. QED
      BY ONLY <1>1, after = BinaryRounds(h, units, c)
  <1>4. after[0] = g
    <2>1. 0 \in 0 .. Rounds
      BY <1>2
    <2>2. after[0] = Step(0)
      BY ONLY <1>3, <2>1
    <2>3. QED
      BY ONLY <2>2, g = BinaryStart(h, units), Zenon DEF BinaryStart
  <1>5. ASSUME NEW i \in 1 .. Rounds PROVE after[i] = DrainBinary(after[i - 1], c)
    <2>1. i \in 0 .. Rounds /\ i # 0
      BY <1>2
    <2>2. after[i] = Step(i)
      BY ONLY <1>3, <2>1
    <2>3. QED
      BY ONLY <2>1, <2>2, after = BinaryRounds(h, units, c), Zenon
  <1>6. QED
    BY <1>4, <1>5

\* All the rounds keep what each of them keeps.
LEMMA BinaryRoundsKeep ==
  ASSUME NEW w \in Wires, cli.out \in Seq(Packets), NEW h, NEW units, NEW c \in Nat, NEW g,
         g = BinaryStart(h, units), BinaryLoop(h, w, g)
  PROVE  BinaryLoop(h, w, BinaryRounds(h, units, c)[Rounds])
  <1>1. PICK after : after = BinaryRounds(h, units, c)
    OBVIOUS
  <1>2. after[0] = g /\ \A i \in 1 .. Rounds : after[i] = DrainBinary(after[i - 1], c)
    BY <1>1, BinaryRoundsStep
  <1> DEFINE S == {n \in Nat : n \in 0 .. Rounds => BinaryLoop(h, w, after[n])}
  <1>3. Rounds \in Nat
    BY SshConstants DEF Rounds
  <1>4. 0 \in S
    <2>1. BinaryLoop(h, w, after[0])
      BY <1>2
    <2>2. QED
      BY <2>1
  <1>5. ASSUME NEW n \in S PROVE n + 1 \in S
    <2>1. n \in Nat /\ n + 1 \in Nat
      OBVIOUS
    <2>2. SUFFICES ASSUME n + 1 \in 0 .. Rounds PROVE BinaryLoop(h, w, after[n + 1])
      BY <2>1
    <2>3. n \in 0 .. Rounds /\ n + 1 # 0 /\ (n + 1) - 1 = n
      BY ONLY <1>3, <2>1, <2>2
    <2>4. BinaryLoop(h, w, after[n])
      BY <2>3
    <2>5. after[n + 1] = DrainBinary(after[n], c)
      <3>1. n + 1 \in 1 .. Rounds
        BY ONLY <1>3, <2>1, <2>2
      <3>2. after[n + 1] = DrainBinary(after[(n + 1) - 1], c)
        BY ONLY <1>2, <3>1
      <3>3. QED
        BY ONLY <2>3, <3>2, Zenon
    <2>6. QED
      BY <2>4, <2>5, DrainBinaryKeeps
  <1>6. S = Nat
    <2>1. S \in SUBSET Nat
      OBVIOUS
    <2> HIDE DEF S
    <2>2. QED
      BY <1>4, <1>5, <2>1, NatSet
  <1>7. Rounds \in S /\ Rounds \in 0 .. Rounds
    BY <1>3, <1>6
  <1>8. QED
    BY <1>1, <1>7

\* The rounds of CaptureData as a function, which exists and keeps the loop.
EncryptedRounds(h, units, c) ==
  CHOOSE after : after = [i \in 0 .. Rounds |->
    IF i = 0 THEN [h EXCEPT !.ssh.encrypted_rx = @ \o units] ELSE DrainEncrypted(after[i - 1], c)]

LEMMA EncryptedRoundsAre ==
  ASSUME NEW h, NEW units, NEW c
  PROVE  EncryptedRounds(h, units, c) = [i \in 0 .. Rounds |->
           IF i = 0 THEN [h EXCEPT !.ssh.encrypted_rx = @ \o units]
           ELSE DrainEncrypted(EncryptedRounds(h, units, c)[i - 1], c)]
  <1> DEFINE Step(f, i) == IF i = 0 THEN [h EXCEPT !.ssh.encrypted_rx = @ \o units] ELSE DrainEncrypted(f[i - 1], c)
  <1> DEFINE S == {n \in Nat : \E f : f = [i \in 0 .. n |-> Step(f, i)]}
  <1>1. 0 \in S
    <2>1. PICK f : f = [i \in 0 .. 0 |-> [h EXCEPT !.ssh.encrypted_rx = @ \o units]]
      OBVIOUS
    <2>2. \A i \in 0 .. 0 : i = 0
      OBVIOUS
    <2>3. f = [i \in 0 .. 0 |-> Step(f, i)]
      BY <2>1, <2>2
    <2>4. QED
      BY <2>3
  <1>2. ASSUME NEW n \in S PROVE n + 1 \in S
    <2>1. PICK f : f = [i \in 0 .. n |-> Step(f, i)]
      OBVIOUS
    <2>2. n \in Nat
      OBVIOUS
    <2>3. PICK g : g = [i \in 0 .. n + 1 |-> IF i = n + 1 THEN DrainEncrypted(f[n], c) ELSE f[i]]
      OBVIOUS
    <2>4. \A i \in 0 .. n : g[i] = f[i]
      BY ONLY <2>2, <2>3
    <2>5. ASSUME NEW i \in 0 .. n + 1 PROVE g[i] = Step(g, i)
      <3>1. CASE i = n + 1
        <4>1. i # 0 /\ i - 1 = n /\ n \in 0 .. n
          BY ONLY <2>2, <3>1
        <4>2. g[i] = DrainEncrypted(f[n], c)
          BY ONLY <2>3, <2>5, <3>1
        <4>3. g[n] = f[n]
          BY <2>4, <4>1
        <4>4. g[i] = DrainEncrypted(g[i - 1], c)
          BY ONLY <4>1, <4>2, <4>3, Zenon
        <4>5. QED
          BY <4>1, <4>4, Zenon
      <3>2. CASE i # n + 1
        <4>1. i \in 0 .. n
          BY <2>2, <3>2
        <4>2. f[i] = Step(f, i)
          BY <2>1, <4>1, Zenon
        <4>3. g[i] = f[i]
          BY <2>4, <4>1
        <4>4. CASE i = 0
          BY <4>2, <4>3, <4>4, Zenon
        <4>5. CASE i # 0
          <5>1. i - 1 \in 0 .. n
            BY <2>2, <4>1, <4>5
          <5>2. g[i - 1] = f[i - 1]
            BY <2>4, <5>1
          <5>3. QED
            BY <4>2, <4>3, <4>5, <5>2, Zenon
        <4>6. QED
          BY <4>4, <4>5
      <3>3. QED
        BY <3>1, <3>2
    <2>6. g = [i \in 0 .. n + 1 |-> Step(g, i)]
      <3> HIDE DEF Step
      <3>1. DOMAIN g = 0 .. n + 1 /\ g = [i \in 0 .. n + 1 |-> g[i]]
        BY ONLY <2>3
      <3>2. QED
        BY <2>5, <3>1
    <2>7. n + 1 \in Nat
      BY <2>2
    <2>8. QED
      BY <2>6, <2>7
  <1>3. S = Nat
    <2> HIDE DEF Step
    <2>1. S \in SUBSET Nat
      OBVIOUS
    <2> HIDE DEF S
    <2>2. QED
      BY <1>1, <1>2, <2>1, NatSet
  <1>4. Rounds \in Nat
    BY SshConstants DEF Rounds
  <1>5. \E f : f = [i \in 0 .. Rounds |-> Step(f, i)]
    <2> HIDE DEF Step
    <2>1. QED
      BY <1>3, <1>4
  <1>6. QED
    BY <1>5, Zenon DEF EncryptedRounds

EncryptedStart(h, units) == [h EXCEPT !.ssh.encrypted_rx = @ \o units]

\* What the two loops compute, round by round.
LEMMA EncryptedRoundsStep ==
  ASSUME NEW h, NEW units, NEW c, NEW g, g = EncryptedStart(h, units),
         NEW after, after = EncryptedRounds(h, units, c)
  PROVE  after[0] = g /\ \A i \in 1 .. Rounds : after[i] = DrainEncrypted(after[i - 1], c)
  <1> DEFINE Step(i) == IF i = 0 THEN [h EXCEPT !.ssh.encrypted_rx = @ \o units]
                        ELSE DrainEncrypted(EncryptedRounds(h, units, c)[i - 1], c)
  <1>1. EncryptedRounds(h, units, c) = [i \in 0 .. Rounds |-> Step(i)]
    BY EncryptedRoundsAre
  <1>2. Rounds \in Nat
    BY SshConstants DEF Rounds
  <1>3. \A i \in 0 .. Rounds : after[i] = Step(i)
    <2> HIDE DEF Step
    <2>1. QED
      BY ONLY <1>1, after = EncryptedRounds(h, units, c)
  <1>4. after[0] = g
    <2>1. 0 \in 0 .. Rounds
      BY <1>2
    <2>2. after[0] = Step(0)
      BY ONLY <1>3, <2>1
    <2>3. QED
      BY ONLY <2>2, g = EncryptedStart(h, units), Zenon DEF EncryptedStart
  <1>5. ASSUME NEW i \in 1 .. Rounds PROVE after[i] = DrainEncrypted(after[i - 1], c)
    <2>1. i \in 0 .. Rounds /\ i # 0
      BY <1>2
    <2>2. after[i] = Step(i)
      BY ONLY <1>3, <2>1
    <2>3. QED
      BY ONLY <2>1, <2>2, after = EncryptedRounds(h, units, c), Zenon
  <1>6. QED
    BY <1>4, <1>5

LEMMA EncryptedRoundsKeep ==
  ASSUME NEW w \in Wires, cli.out \in Seq(Packets), NEW h, NEW units, NEW c \in Nat, NEW g,
         g = EncryptedStart(h, units), EncryptedLoop(h, w, g)
  PROVE  EncryptedLoop(h, w, EncryptedRounds(h, units, c)[Rounds])
  <1>1. PICK after : after = EncryptedRounds(h, units, c)
    OBVIOUS
  <1>2. after[0] = g /\ \A i \in 1 .. Rounds : after[i] = DrainEncrypted(after[i - 1], c)
    BY <1>1, EncryptedRoundsStep
  <1> DEFINE S == {n \in Nat : n \in 0 .. Rounds => EncryptedLoop(h, w, after[n])}
  <1>3. Rounds \in Nat
    BY SshConstants DEF Rounds
  <1>4. 0 \in S
    <2>1. EncryptedLoop(h, w, after[0])
      BY <1>2
    <2>2. QED
      BY <2>1
  <1>5. ASSUME NEW n \in S PROVE n + 1 \in S
    <2>1. n \in Nat /\ n + 1 \in Nat
      OBVIOUS
    <2>2. SUFFICES ASSUME n + 1 \in 0 .. Rounds PROVE EncryptedLoop(h, w, after[n + 1])
      BY <2>1
    <2>3. n \in 0 .. Rounds /\ n + 1 # 0 /\ (n + 1) - 1 = n
      BY ONLY <1>3, <2>1, <2>2
    <2>4. EncryptedLoop(h, w, after[n])
      BY <2>3
    <2>5. after[n + 1] = DrainEncrypted(after[n], c)
      <3>1. n + 1 \in 1 .. Rounds
        BY ONLY <1>3, <2>1, <2>2
      <3>2. after[n + 1] = DrainEncrypted(after[(n + 1) - 1], c)
        BY ONLY <1>2, <3>1
      <3>3. QED
        BY ONLY <2>3, <3>2, Zenon
    <2>6. QED
      BY <2>4, <2>5, DrainEncryptedKeeps
  <1>6. S = Nat
    <2>1. S \in SUBSET Nat
      OBVIOUS
    <2> HIDE DEF S
    <2>2. QED
      BY <1>4, <1>5, <2>1, NatSet
  <1>7. Rounds \in S /\ Rounds \in 0 .. Rounds
    BY <1>3, <1>6
  <1>8. QED
    BY <1>1, <1>7

\* The units taken are held behind those of before.
LEMMA EncryptedStarts ==
  ASSUME NEW w \in Wires, cli.out \in Seq(Packets), NEW h, NEW units \in Seq(Nat),
         h.ssh.in_encrypted, h.ssh.binary_rx = <<>>, NEW rx, rx = h.ssh.encrypted_rx \o units,
         Capturing(h, w, cli.out, rx), NEW g, g = EncryptedStart(h, units)
  PROVE  EncryptedLoop(h, w, g)
  <1>1. h \in Hosts /\ h.ssh \in Negotiations /\ rx \in Seq(Nat)
    BY DEF Capturing, Hosts
  <1>2. PICK s \in Negotiations : s = [h.ssh EXCEPT !["encrypted_rx"] = rx]
    BY <1>1, BufferSet DEF SshBuffers
  <1>3. g = [h EXCEPT !.ssh = s]
    <2>1. g = [h EXCEPT !.ssh.encrypted_rx = h.ssh.encrypted_rx \o units]
      BY Zenon DEF EncryptedStart
    <2>2. g = [h EXCEPT !.ssh.encrypted_rx = rx]
      BY ONLY <2>1, rx = h.ssh.encrypted_rx \o units, Zenon
    <2>3. QED
      BY ONLY <1>2, <2>2
  <1>4. g \in Hosts /\ g.srv = h.srv /\ g.svc = h.svc /\ g.ssh = s
    BY ONLY <1>1, <1>2, <1>3, SshWritten
  <1>5. g.ssh.encrypted_rx = rx /\ \A y \in SshFields \ {"encrypted_rx"} : g.ssh[y] = h.ssh[y]
    BY ONLY <1>1, <1>2, <1>4 DEF Negotiations, SshFields, SshBuffers
  <1>6. SameService(h, g)
    BY ONLY <1>4 DEF SameService
  <1>7. Capturing(g, w, cli.out, rx)
    <2>1. \A y \in SshFields \ SshBuffers : g.ssh[y] = h.ssh[y]
      BY ONLY <1>5 DEF SshBuffers
    <2>2. QED
      BY <1>1, <1>4, <1>6, <2>1, BufferSwap
  <1>8. g.ssh.binary_rx = <<>> /\ g.ssh.in_encrypted
    BY ONLY <1>5, h.ssh.binary_rx = <<>>, h.ssh.in_encrypted DEF SshFields, SshFlags, SshBuffers
  <1>9. QED
    BY ONLY <1>5, <1>6, <1>7, <1>8 DEF EncryptedLoop

\* The plain loop starts from the units held and the new ones.
LEMMA BinaryStarts ==
  ASSUME NEW w \in Wires, cli.out \in Seq(Packets), NEW h, NEW units \in Seq(Nat),
         h.ssh.encrypted_rx = <<>>, NEW rx, rx = h.ssh.binary_rx \o units,
         Capturing(h, w, cli.out, rx), NEW g, g = BinaryStart(h, units)
  PROVE  BinaryLoop(h, w, g)
  <1>1. h \in Hosts /\ h.ssh \in Negotiations /\ rx \in Seq(Nat)
    BY DEF Capturing, Hosts
  <1>2. PICK s \in Negotiations : s = [h.ssh EXCEPT !["binary_rx"] = rx]
    BY <1>1, BufferSet DEF SshBuffers
  <1>3. g = [h EXCEPT !.ssh = s]
    <2>1. g = [h EXCEPT !.ssh.binary_rx = h.ssh.binary_rx \o units]
      BY Zenon DEF BinaryStart
    <2>2. g = [h EXCEPT !.ssh.binary_rx = rx]
      BY ONLY <2>1, rx = h.ssh.binary_rx \o units, Zenon
    <2>3. QED
      BY ONLY <1>2, <2>2
  <1>4. g \in Hosts /\ g.srv = h.srv /\ g.svc = h.svc /\ g.ssh = s
    BY ONLY <1>1, <1>2, <1>3, SshWritten
  <1>5. g.ssh.binary_rx = rx /\ \A y \in SshFields \ {"binary_rx"} : g.ssh[y] = h.ssh[y]
    BY ONLY <1>1, <1>2, <1>4 DEF Negotiations, SshFields, SshBuffers
  <1>6. SameService(h, g)
    BY ONLY <1>4 DEF SameService
  <1>7. Capturing(g, w, cli.out, rx)
    <2>1. \A y \in SshFields \ SshBuffers : g.ssh[y] = h.ssh[y]
      BY ONLY <1>5 DEF SshBuffers
    <2>2. QED
      BY <1>1, <1>4, <1>6, <2>1, BufferSwap
  <1>8. g.ssh.encrypted_rx = <<>>
    BY ONLY <1>5, h.ssh.encrypted_rx = <<>> DEF SshFields, SshBuffers
  <1>9. QED
    BY ONLY <1>5, <1>6, <1>7, <1>8 DEF BinaryLoop

\* After a capture one of the two buffers holds what is left, and the other
\* is empty.
Captured(h, w, n) ==
  /\ SameService(h, n)
  /\ IF n.ssh.in_encrypted
     THEN n.ssh.binary_rx = <<>> /\ Capturing(n, w, cli.out, n.ssh.encrypted_rx)
     ELSE n.ssh.encrypted_rx = <<>> /\ Capturing(n, w, cli.out, n.ssh.binary_rx)

\* ssh_capture_encrypted_client_data and its plain counterpart.
LEMMA CapturedEncrypted ==
  ASSUME NEW w \in Wires, cli.out \in Seq(Packets), NEW h, NEW units \in Seq(Nat), NEW c \in Nat,
         h.ssh.in_encrypted, h.ssh.binary_rx = <<>>, NEW rx, rx = h.ssh.encrypted_rx \o units,
         Capturing(h, w, cli.out, rx), NEW n, n = CaptureEncrypted(h, units, c)
  PROVE  Captured(h, w, n)
  <1>1. PICK g : g = EncryptedStart(h, units)
    OBVIOUS
  <1>2. EncryptedLoop(h, w, g)
    BY <1>1, EncryptedStarts
  <1>3. n = EncryptedRounds(h, units, c)[Rounds]
    BY Zenon DEF CaptureEncrypted, EncryptedRounds
  <1>4. EncryptedLoop(h, w, n)
    BY <1>1, <1>2, <1>3, EncryptedRoundsKeep
  <1>5. QED
    BY ONLY <1>4, Zenon DEF EncryptedLoop, Captured

LEMMA CapturedBinary ==
  ASSUME NEW w \in Wires, cli.out \in Seq(Packets), NEW h, NEW units \in Seq(Nat), NEW c \in Nat,
         h.ssh.encrypted_rx = <<>>, NEW rx, rx = h.ssh.binary_rx \o units,
         Capturing(h, w, cli.out, rx), NEW n, n = CaptureBinary(h, units, c)
  PROVE  Captured(h, w, n)
  <1>1. PICK g : g = BinaryStart(h, units)
    OBVIOUS
  <1>2. BinaryLoop(h, w, g)
    BY <1>1, BinaryStarts
  <1>3. PICK f : f = BinaryRounds(h, units, c)[Rounds]
    OBVIOUS
  <1>4. BinaryLoop(h, w, f)
    BY <1>1, <1>2, <1>3, BinaryRoundsKeep
  <1>5. n = IF f.ssh.in_encrypted /\ f.ssh.binary_rx # <<>>
            THEN CaptureEncrypted([f EXCEPT !.ssh.binary_rx = <<>>], f.ssh.binary_rx, c)
            ELSE f
    <2>1. CaptureBinary(h, units, c) =
            IF BinaryRounds(h, units, c)[Rounds].ssh.in_encrypted
               /\ BinaryRounds(h, units, c)[Rounds].ssh.binary_rx # <<>>
            THEN CaptureEncrypted([BinaryRounds(h, units, c)[Rounds] EXCEPT !.ssh.binary_rx = <<>>],
                                  BinaryRounds(h, units, c)[Rounds].ssh.binary_rx, c)
            ELSE BinaryRounds(h, units, c)[Rounds]
      BY ONLY SMT DEF CaptureBinary, BinaryRounds
    <2>2. QED
      BY <1>3, <2>1
  <1>6. CASE ~(f.ssh.in_encrypted /\ f.ssh.binary_rx # <<>>)
    <2>1. n = f
      BY <1>5, <1>6
    <2>2. SameService(h, f) /\ f.ssh.encrypted_rx = <<>> /\ Capturing(f, w, cli.out, f.ssh.binary_rx)
      BY <1>4 DEF BinaryLoop
    <2>3. f.ssh.in_encrypted => f.ssh.binary_rx = <<>>
      BY <1>6
    <2>4. QED
      BY ONLY <2>1, <2>2, <2>3, Zenon DEF Captured
  <1>7. CASE f.ssh.in_encrypted /\ f.ssh.binary_rx # <<>>
    <2>1. PICK q : q = f.ssh.binary_rx
      OBVIOUS
    <2>2. PICK e : e = [f EXCEPT !.ssh.binary_rx = <<>>]
      OBVIOUS
    <2>3. n = CaptureEncrypted(e, q, c)
      BY ONLY <1>5, <1>7, <2>1, <2>2, Zenon
    <2>4. SameService(h, f) /\ f.ssh.encrypted_rx = <<>> /\ Capturing(f, w, cli.out, q)
      BY <1>4, <2>1 DEF BinaryLoop
    <2>5. f \in Hosts /\ f.ssh \in Negotiations /\ q \in Seq(Nat)
      BY ONLY <2>4 DEF Capturing, Hosts
    <2>6. PICK s \in Negotiations : s = [f.ssh EXCEPT !["binary_rx"] = <<>>]
      <3>1. <<>> \in Seq(Nat)
        OBVIOUS
      <3>2. QED
        BY <2>5, <3>1, BufferSet DEF SshBuffers
    <2>7. e = [f EXCEPT !.ssh = s]
      BY ONLY <2>2, <2>6
    <2>8. e \in Hosts /\ e.srv = f.srv /\ e.svc = f.svc /\ e.ssh = s
      BY <2>5, <2>6, <2>7, SshWritten
    <2>9. e.ssh.binary_rx = <<>> /\ \A y \in SshFields \ {"binary_rx"} : e.ssh[y] = f.ssh[y]
      BY ONLY <2>5, <2>6, <2>8 DEF Negotiations, SshFields, SshBuffers
    <2>10. SameService(f, e) /\ SameService(h, e)
      BY ONLY <2>4, <2>8 DEF SameService
    <2>11. \A y \in SshFields \ SshBuffers : e.ssh[y] = f.ssh[y]
      BY ONLY <2>9 DEF SshBuffers
    <2>12. Capturing(e, w, cli.out, q)
      BY <2>4, <2>5, <2>8, <2>10, <2>11, BufferSwap
    <2>13. e.ssh.in_encrypted /\ e.ssh.encrypted_rx = <<>>
      BY ONLY <1>7, <2>4, <2>9 DEF SshFields, SshFlags, SshBuffers
    <2>14. q = e.ssh.encrypted_rx \o q
      BY ONLY <2>5, <2>13
    <2>15. Captured(e, w, n)
      BY <2>3, <2>5, <2>9, <2>12, <2>13, <2>14, CapturedEncrypted
    <2>16. QED
      BY ONLY <2>10, <2>15, Zenon DEF Captured, SameService
  <1>8. QED
    BY <1>6, <1>7

\* The units of a segment: l of them, from position a of the stream.
UnitsFrom(a, l) == [i \in 1 .. l |-> a + i - 1]

-----------------------------------------------------------------------------
(* Taking a segment.                                                       *)

\* The units of a segment.
Stretch(units, a, l) ==
  /\ units \in Seq(Nat) /\ Len(units) = l /\ DOMAIN units = 1 .. l /\ units # <<>>
  /\ \A i \in 1 .. l : units[i] = a + i - 1

LEMMA UnitsAre ==
  ASSUME NEW a \in Nat, NEW l \in Nat \ {0}, NEW units, units = UnitsFrom(a, l)
  PROVE  Stretch(units, a, l)
  <1> DEFINE F(i) == a + i - 1
  <1>1. units = [i \in 1 .. l |-> F(i)] /\ \A i \in 1 .. l : F(i) \in Nat
    BY DEF UnitsFrom
  <1>2. \A i \in 1 .. l : F(i) = a + i - 1
    OBVIOUS
  <1> HIDE DEF F
  <1>3. units \in [1 .. l -> Nat] /\ DOMAIN units = 1 .. l /\ \A i \in 1 .. l : units[i] = F(i)
    BY ONLY <1>1
  <1>4. units \in Seq(Nat)
    BY ONLY <1>3, l \in Nat
  <1>5. Len(units) = l
    BY ONLY <1>3, <1>4, l \in Nat
  <1>6. units # <<>>
    BY ONLY <1>5, l \in Nat \ {0}
  <1>7. QED
    BY ONLY <1>2, <1>3, <1>4, <1>5, <1>6 DEF Stretch

\* The segment follows the units held.
NextTo(a, s, rx) == a = 3 + 2 * s + Len(rx)

Longer(j, rx, l) == Len(j) = Len(rx) + l

\* The length of two sequences of units one after the other.
LEMMA JoinedLength ==
  ASSUME NEW r \in Seq(Nat), NEW u \in Seq(Nat)
  PROVE  Len(r \o u) = Len(r) + Len(u)
  OBVIOUS

\* A segment in order carries on from what is held.
LEMMA UnitsJoin ==
  ASSUME NEW rx \in Seq(Nat), NEW s \in Nat, Follows(rx, s), NEW a \in Nat, NextTo(a, s, rx),
         NEW l \in Nat \ {0}, NEW units, units = UnitsFrom(a, l), NEW j, j = rx \o units
  PROVE  j \in Seq(Nat) /\ Follows(j, s) /\ Longer(j, rx, l)
  <1>1. /\ units \in Seq(Nat) /\ Len(units) = l
        /\ \A i \in 1 .. l : units[i] = a + i - 1
    <2>1. Stretch(units, a, l)
      BY UnitsAre
    <2>2. QED
      BY ONLY <2>1 DEF Stretch
  <1>2. PICK n \in Nat : n = Len(rx)
    OBVIOUS
  <1>3. DOMAIN rx = 1 .. n /\ \A i \in 1 .. n : rx[i] = 2 + 2 * s + i
    <2>1. DOMAIN rx = 1 .. n
      BY <1>2
    <2>2. QED
      BY ONLY <2>1, Follows(rx, s) DEF Follows
  <1>4. j \in Seq(Nat) /\ Len(j) = n + l /\ \A i \in 1 .. n + l : j[i] = IF i <= n THEN rx[i] ELSE units[i - n]
    <2>1. j \in Seq(Nat)
      BY ONLY <1>1, j = rx \o units, rx \in Seq(Nat)
    <2>2. Len(j) = n + l
      <3>1. units \in Seq(Nat) /\ Len(units) = l
        BY <1>1
      <3>2. QED
        BY ONLY JoinedLength, <3>1, <1>2, j = rx \o units, rx \in Seq(Nat), n \in Nat, l \in Nat
    <2>3. ASSUME NEW i \in 1 .. n + l PROVE j[i] = IF i <= n THEN rx[i] ELSE units[i - n]
      BY ONLY <1>1, <1>2, <2>3, j = rx \o units, rx \in Seq(Nat), l \in Nat
    <2>4. QED
      BY ONLY <2>1, <2>2, <2>3
  <1>5. ASSUME NEW i \in DOMAIN j PROVE j[i] = 2 + 2 * s + i
    <2>1. i \in 1 .. n + l
      BY ONLY <1>4, <1>5, l \in Nat
    <2>2. CASE i <= n
      <3>1. i \in 1 .. n
        BY ONLY <2>1, <2>2, n \in Nat, l \in Nat
      <3>2. QED
        BY ONLY <1>3, <1>4, <2>1, <2>2, <3>1
    <2>3. CASE ~(i <= n)
      <3>1. i - n \in 1 .. l /\ i \in Nat
        BY ONLY <2>1, <2>3, n \in Nat, l \in Nat
      <3>2. j[i] = units[i - n]
        BY ONLY <1>4, <2>1, <2>3
      <3>3. units[i - n] = a + (i - n) - 1
        BY ONLY <1>1, <3>1
      <3>4. a = 3 + 2 * s + n
        BY ONLY <1>2, NextTo(a, s, rx), Zenon DEF NextTo
      <3>6. a + (i - n) - 1 = 2 + 2 * s + i
        BY ONLY <3>1, <3>4, s \in Nat, n \in Nat
      <3>5. QED
        BY ONLY <3>2, <3>3, <3>6
    <2>4. QED
      BY <2>2, <2>3
  <1>6. QED
    BY ONLY <1>2, <1>4, <1>5 DEF Follows, Longer

\* What follows the first line of the client in a segment.
RestOf(units) == SubSeq(units, 4 - units[1], Len(units))

\* The first line ends at unit 2; what is behind it is the first packet.
LEMMA UnitsAfterBanner ==
  ASSUME NEW a \in 1 .. 2, NEW l \in Nat \ {0}, NEW units, units = UnitsFrom(a, l),
         NEW rest, rest = RestOf(units)
  PROVE  /\ 2 \in Range(units) => rest \in Seq(Nat) /\ Follows(rest, 0) /\ NextTo(a + l, 0, rest)
         /\ 2 \notin Range(units) => a + l = 2
  <1>0. a \in Nat
    OBVIOUS
  <1>1. /\ units \in Seq(Nat) /\ Len(units) = l /\ DOMAIN units = 1 .. l
        /\ \A i \in 1 .. l : units[i] = a + i - 1
    <2>1. Stretch(units, a, l)
      BY <1>0, UnitsAre
    <2>2. QED
      BY ONLY <2>1 DEF Stretch
  <1>2. CASE 2 \in Range(units)
    <2>1. PICK i \in 1 .. l : a + i - 1 = 2
      BY <1>1, <1>2 DEF Range
    <2>2. units[1] = a
      <3>1. 1 \in 1 .. l
        OBVIOUS
      <3>2. units[1] = a + 1 - 1
        BY ONLY <1>1, <3>1
      <3>3. QED
        BY ONLY <3>2, a \in Nat
    <2>3. PICK p \in Nat, m \in Nat : p = 4 - a /\ m = l - 3 + a
      <3>1. 4 - a \in Nat /\ l - 3 + a \in Nat
        BY <2>1
      <3>2. QED
        BY <3>1
    <2>4. p >= 1 /\ p <= l + 1 /\ m = l - p + 1
      BY ONLY <2>1, <2>3, a \in 1 .. 2, l \in Nat \ {0}
    <2>5. rest = SubSeq(units, p, l)
      BY ONLY <1>1, <2>2, <2>3, rest = RestOf(units) DEF RestOf
    <2>6. rest \in Seq(Nat) /\ Len(rest) = m
      <3>1. \A k \in p .. l : units[k] \in Nat
        <4>1. SUFFICES ASSUME NEW k \in p .. l PROVE units[k] \in Nat
          OBVIOUS
        <4>2. k \in 1 .. l
          BY ONLY <2>4, p \in Nat, l \in Nat, k \in p .. l
        <4>3. units[k] = a + k - 1
          BY ONLY <1>1, <4>2
        <4>4. QED
          BY ONLY <4>2, <4>3, a \in Nat, l \in Nat
      <3>2. rest \in Seq(Nat) /\ Len(rest) = IF p <= l THEN l - p + 1 ELSE 0
        BY ONLY <2>5, <3>1, l \in Nat, p \in Nat
      <3>3. QED
        BY ONLY <2>4, <3>2, l \in Nat, p \in Nat, m \in Nat
    <2>7. \A k \in 1 .. m : rest[k] = units[p + k - 1]
      BY ONLY <1>1, <2>4, <2>5, l \in Nat, p \in Nat, m \in Nat
    <2>8. \A k \in 1 .. m : rest[k] = 2 + 2 * 0 + k
      <3>1. SUFFICES ASSUME NEW k \in 1 .. m PROVE rest[k] = 2 + 2 * 0 + k
        OBVIOUS
      <3>2. p + k - 1 \in 1 .. l
        BY ONLY <2>4, p \in Nat, l \in Nat, m \in Nat, k \in 1 .. m
      <3>3. rest[k] = a + (p + k - 1) - 1
        BY ONLY <1>1, <2>7, <3>2
      <3>4. QED
        BY ONLY <2>3, <3>3, a \in 1 .. 2, k \in 1 .. m, m \in Nat, p \in Nat
    <2>9. DOMAIN rest = 1 .. m
      BY ONLY <2>6, m \in Nat
    <2>10. NextTo(a + l, 0, rest)
      BY ONLY <2>3, <2>6, a \in 1 .. 2, l \in Nat \ {0} DEF NextTo
    <2>11. QED
      BY ONLY <1>2, <2>6, <2>8, <2>9, <2>10 DEF Follows
  <1>3. CASE 2 \notin Range(units)
    <2>1. ASSUME a # 1 PROVE FALSE
      <3>1. a = 2 /\ 1 \in 1 .. l
        BY <2>1
      <3>2. units[1] = 2
        BY ONLY <1>1, <3>1
      <3>3. QED
        BY <1>1, <1>3, <3>1, <3>2 DEF Range
    <2>2. ASSUME l # 1 PROVE FALSE
      <3>1. 2 \in 1 .. l /\ a = 1
        BY <2>1, <2>2
      <3>2. units[2] = 2
        BY ONLY <1>1, <3>1
      <3>3. QED
        BY <1>1, <1>3, <3>1, <3>2 DEF Range
    <2>3. QED
      BY <1>3, <2>1, <2>2
  <1>4. QED
    BY <1>2, <1>3

\* The buffer the service fills.
Held(s) == IF s.in_encrypted THEN s.encrypted_rx ELSE s.binary_rx

\* HeldInOrder of a server that has acknowledged up to a.
HeldAt(h, a) ==
  /\ IF h.ssh.in_encrypted THEN h.ssh.binary_rx = <<>> ELSE h.ssh.encrypted_rx = <<>>
  /\ IF h.svc.client_banner_seen
     THEN Follows(Held(h.ssh), h.ssh.seq_in) /\ a = 3 + 2 * h.ssh.seq_in + Len(Held(h.ssh))
     ELSE Held(h.ssh) = <<>> /\ h.ssh.seq_in = 0 /\ a \in 1 .. 2

LEMMA HeldIs ==
  ASSUME NEW h
  PROVE  HeldInOrder(h) <=> HeldAt(h, h.srv.ack)
  BY Zenon DEF HeldInOrder, HeldAt, Held, Follows

\* The first line of the client, and the time it was seen, move nothing else.
LEMMA GreetingKeeps ==
  ASSUME NEW h, NEW g, g.srv = h.srv, g.ssh = h.ssh, g.svc.banner_sent = h.svc.banner_sent,
         NEW w, NEW out \in Seq(Packets), (h.ssh.seq_in = 0 /\ g.svc.client_banner_seen \in BOOLEAN)
           \/ g.svc.client_banner_seen = h.svc.client_banner_seen,
         KeysInOrder(h), CountersAgree(h, w.sent), ClientKnows(h, w, out)
  PROVE  KeysInOrder(g) /\ CountersAgree(g, w.sent) /\ ClientKnows(g, w, out)
  <1>1. KeysInOrder(g)
    <2>1. g.ssh.seq_in > 0 => g.svc.client_banner_seen
      BY DEF KeysInOrder
    <2>2. QED
      BY ONLY <2>1, g.ssh = h.ssh, KeysInOrder(h), Zenon DEF KeysInOrder, Answering
  <1>2. CountersAgree(g, w.sent)
    BY ONLY g.ssh = h.ssh, g.svc.banner_sent = h.svc.banner_sent, CountersAgree(h, w.sent), Zenon DEF CountersAgree
  <1>3. \A kind : Took(g, out, kind) <=> Took(h, out, kind)
    BY ONLY g.ssh = h.ssh DEF Took
  <1>4. WrittenInOrder(out) /\ AskedFor(h, w, out) /\ EndsOnce(h, w.sent, out) /\ h.srv.ack <= 2 * Len(out) + 1
    BY DEF ClientKnows
  <1>5. AskedFor(g, w, out)
    BY ONLY g.ssh = h.ssh, <1>3, <1>4, Zenon DEF AskedFor, Took
  <1>6. Took(h, out, "EXEC") => h.ssh.seq_in # 0
    <2>1. SUFFICES ASSUME NEW i \in DOMAIN out, i <= h.ssh.seq_in + 1, out[i] = "EXEC", h.ssh.seq_in = 0
          PROVE FALSE
      BY DEF Took
    <2>2. i = 1
      BY <2>1
    <2>3. out[1] = "BANNER"
      BY <1>4, <2>1, <2>2 DEF WrittenInOrder
    <2>4. QED
      BY <2>1, <2>2, <2>3
  <1>7. EndsOnce(g, w.sent, out)
    <2>1. CASE h.ssh.seq_in # 0
      <3>1. g.svc.client_banner_seen = h.svc.client_banner_seen
        BY <2>1
      <3>2. Due(g) = Due(h)
        BY ONLY <3>1, g.ssh = h.ssh, g.svc.banner_sent = h.svc.banner_sent, Zenon DEF Due
      <3>3. Silent(h) => Silent(g)
        BY ONLY <3>2, Zenon DEF Silent
      <3>4. QED
        BY ONLY <1>3, <1>4, <3>3, g.ssh = h.ssh, Zenon DEF EndsOnce
    <2>2. CASE h.ssh.seq_in = 0
      BY ONLY <1>3, <1>4, <1>6, <2>2, g.ssh = h.ssh, Zenon DEF EndsOnce
    <2>3. QED
      BY <2>1, <2>2
  <1>8. g.srv.ack <= 2 * Len(out) + 1
    BY ONLY <1>4, g.srv = h.srv, Zenon
  <1>9. QED
    BY <1>1, <1>2, <1>4, <1>5, <1>7, <1>8 DEF ClientKnows

\* What a capture leaves is in order again.
LEMMA CapturedKeeps ==
  ASSUME NEW h, NEW w, NEW n, Captured(h, w, n)
  PROVE  /\ n \in Hosts /\ n.ssh.tx_off <= n.ssh.tx_len /\ SameService(h, n)
         /\ SessionInv(n, w) /\ ClientKnows(n, w, cli.out)
  <1>1. PICK rx : /\ rx = Held(n.ssh) /\ Capturing(n, w, cli.out, rx)
                  /\ IF n.ssh.in_encrypted THEN n.ssh.binary_rx = <<>> ELSE n.ssh.encrypted_rx = <<>>
    BY ONLY Captured(h, w, n), Zenon DEF Captured, Held
  <1>2. HeldAt(n, n.srv.ack)
    BY ONLY <1>1, Zenon DEF Capturing, HeldAt
  <1>3. HeldInOrder(n)
    BY <1>2, HeldIs
  <1>4. SameService(h, n)
    BY ONLY Captured(h, w, n), Zenon DEF Captured
  <1>5. QED
    BY ONLY <1>1, <1>3, <1>4, Zenon DEF Capturing, SessionInv

\* ssh_capture_client_data: the session goes on behind the l units taken.
LEMMA DataCaptured ==
  ASSUME NEW w \in Wires, cli.out \in Seq(Packets), NEW g \in Hosts, g.ssh.tx_off <= g.ssh.tx_len,
         KeysInOrder(g), CountersAgree(g, w.sent), ClientKnows(g, w, cli.out),
         NEW a \in Nat, NEW l \in Nat \ {0}, HeldAt(g, a), g.srv.ack = a + l,
         NEW units, units = UnitsFrom(a, l), NEW c \in Nat, NEW n, n = CaptureClientData(g, units, c)
  PROVE  /\ n \in Hosts /\ n.ssh.tx_off <= n.ssh.tx_len
         /\ n.srv = g.srv /\ n.svc.seen = g.svc.seen /\ n.svc.enabled = g.svc.enabled
         /\ n.svc.banner_sent = g.svc.banner_sent
         /\ SessionInv(n, w) /\ ClientKnows(n, w, cli.out)
  <1>0. Stretch(units, a, l)
    BY UnitsAre
  <1>1. units \in Seq(Nat) /\ Len(units) = l /\ units # <<>>
    BY ONLY <1>0 DEF Stretch
  <1>2. /\ g.ssh \in Negotiations /\ g.svc \in SshServices /\ g.ssh.seq_in \in Nat
        /\ g.ssh.binary_rx \in Seq(Nat) /\ g.ssh.encrypted_rx \in Seq(Nat)
        /\ g.ssh.in_encrypted \in BOOLEAN /\ g.svc.client_banner_seen \in BOOLEAN
    <2>1. g.ssh \in Negotiations /\ g.svc \in SshServices
      BY ONLY g \in Hosts DEF Hosts
    <2>2. g.svc.client_banner_seen \in BOOLEAN
      BY ONLY <2>1 DEF SshServices
    <2>3. QED
      BY <2>1, <2>2, SshTyped DEF SshFlags
  <1>3. PICK banner \in BOOLEAN, rest \in {IF g.svc.client_banner_seen THEN units ELSE RestOf(units)} :
          /\ banner = (g.svc.client_banner_seen \/ 2 \in Range(units))
          /\ rest = IF g.svc.client_banner_seen THEN units ELSE RestOf(units)
    <2>1. (g.svc.client_banner_seen \/ 2 \in Range(units)) \in BOOLEAN
      BY <1>2
    <2>2. QED
      BY ONLY <2>1
  <1>4. PICK f : f = [g EXCEPT !.svc.client_banner_seen = (g.svc.client_banner_seen \/ 2 \in Range(units)), !.svc.idle = 0]
    OBVIOUS
  <1>5. n = IF ~banner \/ rest = <<>> THEN f
            ELSE IF f.ssh.in_encrypted THEN CaptureEncrypted(f, rest, c)
            ELSE CaptureBinary(f, rest, c)
    <2>1. rest = IF g.svc.client_banner_seen THEN units ELSE SubSeq(units, 4 - units[1], Len(units))
      BY ONLY <1>3, Zenon DEF RestOf
    <2>2. PICK r : r = IF g.svc.client_banner_seen THEN units ELSE SubSeq(units, 4 - units[1], Len(units))
      OBVIOUS
    <2>3. n = IF ~(g.svc.client_banner_seen \/ 2 \in Range(units)) \/ r = <<>> THEN f
              ELSE IF f.ssh.in_encrypted THEN CaptureEncrypted(f, r, c)
              ELSE CaptureBinary(f, r, c)
      BY ONLY <1>4, <2>2, n = CaptureClientData(g, units, c) DEF CaptureClientData
    <2>4. r = rest
      BY ONLY <2>1, <2>2, Zenon
    <2>5. QED
      BY ONLY <1>3, <2>3, <2>4, Zenon
  <1>6. /\ f \in Hosts /\ f.srv = g.srv /\ f.ssh = g.ssh /\ f.svc.seen = g.svc.seen
        /\ f.svc.enabled = g.svc.enabled /\ f.svc.banner_sent = g.svc.banner_sent
        /\ f.svc.client_banner_seen = banner
    <2>0. 0 \in 0 .. IdleTimeout + 1
      BY SshConstants
    <2>1. PICK v : v = [g.svc EXCEPT !.client_banner_seen = (g.svc.client_banner_seen \/ 2 \in Range(units)), !.idle = 0]
      OBVIOUS
    <2>2. v \in SshServices
      BY ONLY <1>2, <1>3, <2>0, <2>1 DEF SshServices
    <2>3. f = [g EXCEPT !.svc = v]
      BY ONLY <1>4, <2>1, g \in Hosts DEF Hosts, SshServices
    <2>4. f \in Hosts /\ f.srv = g.srv /\ f.ssh = g.ssh /\ f.svc = v
      BY ONLY <2>2, <2>3, g \in Hosts DEF Hosts
    <2>5. v.seen = g.svc.seen /\ v.enabled = g.svc.enabled /\ v.banner_sent = g.svc.banner_sent /\ v.client_banner_seen = banner
      BY ONLY <1>2, <1>3, <2>1 DEF SshServices
    <2>6. QED
      BY ONLY <2>4, <2>5
  <1>7. g.svc.client_banner_seen \/ g.ssh.seq_in = 0
    BY ONLY HeldAt(g, a), Zenon DEF HeldAt
  <1>8. KeysInOrder(f) /\ CountersAgree(f, w.sent) /\ ClientKnows(f, w, cli.out)
    <2>1. (g.ssh.seq_in = 0 /\ f.svc.client_banner_seen \in BOOLEAN) \/ f.svc.client_banner_seen = g.svc.client_banner_seen
      BY <1>3, <1>6, <1>7
    <2>2. QED
      BY <1>6, <2>1, GreetingKeeps
  <1>9. /\ IF f.ssh.in_encrypted THEN f.ssh.binary_rx = <<>> ELSE f.ssh.encrypted_rx = <<>>
        /\ f.ssh.tx_off <= f.ssh.tx_len /\ Held(f.ssh) = Held(g.ssh)
    BY ONLY <1>6, HeldAt(g, a), g.ssh.tx_off <= g.ssh.tx_len, Zenon DEF HeldAt, Held
  <1>10. Held(f.ssh) \in Seq(Nat) /\ Held(g.ssh) \in Seq(Nat)
    BY <1>2, <1>9 DEF Held
  <1>11. ASSUME banner
         PROVE  rest \in Seq(Nat) /\ \E j : j = Held(f.ssh) \o rest /\ Capturing(f, w, cli.out, j)
    <2>1. rest \in Seq(Nat) /\ \E j : /\ j = Held(g.ssh) \o rest /\ j \in Seq(Nat)
                                      /\ Follows(j, g.ssh.seq_in) /\ a + l = 3 + 2 * g.ssh.seq_in + Len(j)
      <3>1. CASE g.svc.client_banner_seen
        <4>1. rest = units
          BY <1>3, <3>1
        <4>2. PICK rx, s : rx = Held(g.ssh) /\ s = g.ssh.seq_in
          OBVIOUS
        <4>3. rx \in Seq(Nat) /\ s \in Nat /\ Follows(rx, s) /\ a = 3 + 2 * s + Len(rx)
          BY ONLY <1>2, <1>10, <3>1, <4>2, HeldAt(g, a) DEF HeldAt
        <4>4. PICK j : j = rx \o units
          OBVIOUS
        <4>9. NextTo(a, s, rx)
          BY ONLY <4>3 DEF NextTo
        <4>10. j \in Seq(Nat) /\ Follows(j, s) /\ Longer(j, rx, l)
          BY ONLY <4>3, <4>4, <4>9, a \in Nat, l \in Nat \ {0}, units = UnitsFrom(a, l), UnitsJoin
        <4>5. j \in Seq(Nat) /\ Follows(j, s) /\ Len(j) = Len(rx) + l
          BY ONLY <4>10 DEF Longer
        <4>6. Len(rx) \in Nat
          BY ONLY <4>3
        <4>7. a + l = 3 + 2 * s + Len(j)
          BY ONLY <4>3, <4>5, <4>6, l \in Nat \ {0}
        <4>8. QED
          BY ONLY <1>1, <4>1, <4>2, <4>4, <4>5, <4>7
      <3>2. CASE ~g.svc.client_banner_seen
        <4>1. 2 \in Range(units) /\ rest = RestOf(units)
          BY <1>3, <1>11, <3>2
        <4>2. Held(g.ssh) = <<>> /\ g.ssh.seq_in = 0 /\ a \in 1 .. 2
          BY ONLY <3>2, HeldAt(g, a) DEF HeldAt
        <4>9. rest \in Seq(Nat) /\ Follows(rest, 0) /\ NextTo(a + l, 0, rest)
          BY ONLY <4>1, <4>2, l \in Nat \ {0}, units = UnitsFrom(a, l), UnitsAfterBanner
        <4>10. Len(rest) \in Nat
          BY ONLY <4>9
        <4>3. rest \in Seq(Nat) /\ Follows(rest, 0) /\ a + l = 3 + Len(rest)
          BY ONLY <4>9, <4>10 DEF NextTo
        <4>4. PICK j : j = Held(g.ssh) \o rest
          OBVIOUS
        <4>5. j = rest
          BY ONLY <4>2, <4>3, <4>4
        <4>6. Len(rest) \in Nat
          BY ONLY <4>3
        <4>7. a + l = 3 + 2 * 0 + Len(j)
          BY ONLY <4>3, <4>5, <4>6
        <4>8. QED
          BY ONLY <4>2, <4>3, <4>4, <4>5, <4>7
      <3>3. QED
        BY <1>2, <3>1, <3>2
    <2>2. PICK j : /\ j = Held(g.ssh) \o rest /\ j \in Seq(Nat)
                   /\ Follows(j, g.ssh.seq_in) /\ a + l = 3 + 2 * g.ssh.seq_in + Len(j)
      BY <2>1
    <2>3. j = Held(f.ssh) \o rest
      BY ONLY <1>9, <2>2, Zenon
    <2>4. Follows(j, f.ssh.seq_in) /\ f.srv.ack = 3 + 2 * f.ssh.seq_in + Len(j) /\ f.svc.client_banner_seen
      BY ONLY <1>6, <1>11, <2>2, g.srv.ack = a + l, Zenon
    <2>5. Capturing(f, w, cli.out, j)
      BY ONLY <1>6, <1>8, <1>9, <2>2, <2>4, Zenon DEF Capturing
    <2>6. QED
      BY <2>1, <2>3, <2>5
  <1>12. CASE ~banner
    <2>1. n = f
      BY <1>5, <1>12
    <2>2. ~g.svc.client_banner_seen /\ ~(2 \in Range(units))
      BY <1>3, <1>12
    <2>3. Held(g.ssh) = <<>> /\ g.ssh.seq_in = 0 /\ a \in 1 .. 2
      BY ONLY <2>2, HeldAt(g, a) DEF HeldAt
    <2>4. a + l = 2
      BY <2>2, <2>3, UnitsAfterBanner
    <2>5. f.srv.ack \in 1 .. 2
      BY ONLY <1>6, <2>4, g.srv.ack = a + l
    <2>6. HeldAt(f, f.srv.ack)
      BY ONLY <1>6, <1>9, <1>12, <2>3, <2>5, Zenon DEF HeldAt
    <2>7. HeldInOrder(f)
      BY <2>6, HeldIs
    <2>8. QED
      BY ONLY <1>6, <1>8, <1>9, <2>1, <2>7 DEF SessionInv
  <1>13. CASE banner /\ rest = <<>>
    <2>1. n = f
      BY <1>5, <1>13
    <2>2. PICK j : j = Held(f.ssh) \o rest /\ Capturing(f, w, cli.out, j)
      BY <1>11, <1>13
    <2>3. j = Held(f.ssh)
      BY ONLY <1>10, <1>13, <2>2
    <2>4. Captured(g, w, f) \/ ~g.svc.client_banner_seen
      BY ONLY <1>6, <1>9, <1>13, <2>2, <2>3, Zenon DEF Captured, SameService, Held
    <2>5. HeldAt(f, f.srv.ack)
      BY ONLY <1>9, <2>2, <2>3, Zenon DEF Capturing, HeldAt
    <2>6. HeldInOrder(f)
      BY <2>5, HeldIs
    <2>7. QED
      BY ONLY <1>6, <1>8, <1>9, <2>1, <2>6 DEF SessionInv
  <1>14. CASE banner /\ rest # <<>>
    <2>1. PICK j : j = Held(f.ssh) \o rest /\ Capturing(f, w, cli.out, j)
      BY <1>11, <1>14
    <2>2. rest \in Seq(Nat)
      BY <1>11, <1>14
    <2>3. Captured(f, w, n)
      <3>1. CASE f.ssh.in_encrypted
        <4>1. n = CaptureEncrypted(f, rest, c) /\ f.ssh.binary_rx = <<>> /\ j = f.ssh.encrypted_rx \o rest
          BY ONLY <1>5, <1>9, <1>14, <2>1, <3>1, Zenon DEF Held
        <4>2. QED
          BY <2>1, <2>2, <3>1, <4>1, CapturedEncrypted
      <3>2. CASE ~f.ssh.in_encrypted
        <4>1. n = CaptureBinary(f, rest, c) /\ f.ssh.encrypted_rx = <<>> /\ j = f.ssh.binary_rx \o rest
          BY ONLY <1>5, <1>9, <1>14, <2>1, <3>2, Zenon DEF Held
        <4>2. QED
          BY <2>1, <2>2, <4>1, CapturedBinary
      <3>3. QED
        BY <3>1, <3>2
    <2>4. /\ n \in Hosts /\ n.ssh.tx_off <= n.ssh.tx_len /\ SameService(f, n)
          /\ SessionInv(n, w) /\ ClientKnows(n, w, cli.out)
      BY <2>3, CapturedKeeps
    <2>5. QED
      BY ONLY <1>6, <2>4, Zenon DEF SameService
  <1>15. QED
    BY <1>12, <1>13, <1>14

-----------------------------------------------------------------------------
(* The listener, and a server nobody is talking to.                        *)

\* A new negotiation is in range.
LEMMA NegotiationStarts ==
  Negotiation0 \in Negotiations /\ Negotiation0.tx_off <= Negotiation0.tx_len
  <1>1. DOMAIN Negotiation0 = SshFields
    <2> DEFINE F == {"server_kexinit_sent", "client_kexinit_seen", "algorithms", "ecdh_ready", "ecdh_reply_sent",
      "newkeys_sent", "client_newkeys_seen", "disconnect_sent", "in_encrypted", "out_encrypted",
      "seq_in", "seq_out", "ctr_s2c", "service_accept", "service_accept_sent", "authenticated",
      "auth_failure", "auth_success", "open_confirm", "success", "failure", "shell_ready", "data",
      "tx_len", "tx_off", "exit_status", "close", "close_sent", "binary_rx", "encrypted_rx"}
    <2>1. DOMAIN Negotiation0 = F
      BY DEF Negotiation0
    <2>2. SshFields = F
      BY ONLY SMT DEF SshFields, SshFlags, SshCounts, SshLengths, SshBuffers
    <2> HIDE DEF F
    <2>3. QED
      BY <2>1, <2>2
  <1>2. \A x \in SshFlags : Negotiation0[x] \in BOOLEAN
    <2>1. /\ Negotiation0.server_kexinit_sent = FALSE /\ Negotiation0.client_kexinit_seen = FALSE /\ Negotiation0.algorithms = FALSE
          /\ Negotiation0.ecdh_ready = FALSE /\ Negotiation0.ecdh_reply_sent = FALSE /\ Negotiation0.newkeys_sent = FALSE
          /\ Negotiation0.client_newkeys_seen = FALSE /\ Negotiation0.disconnect_sent = FALSE /\ Negotiation0.in_encrypted = FALSE
          /\ Negotiation0.out_encrypted = FALSE /\ Negotiation0.service_accept = FALSE /\ Negotiation0.service_accept_sent = FALSE
          /\ Negotiation0.authenticated = FALSE /\ Negotiation0.auth_failure = FALSE /\ Negotiation0.auth_success = FALSE
          /\ Negotiation0.open_confirm = FALSE /\ Negotiation0.success = FALSE /\ Negotiation0.failure = FALSE
          /\ Negotiation0.shell_ready = FALSE /\ Negotiation0.data = FALSE /\ Negotiation0.exit_status = FALSE
          /\ Negotiation0.close = FALSE /\ Negotiation0.close_sent = FALSE
      BY DEF Negotiation0
    <2>2. QED
      BY ONLY <2>1 DEF SshFlags
  <1>3. \A x \in SshCounts : Negotiation0[x] \in Nat
    BY DEF Negotiation0, SshCounts
  <1>4. \A x \in SshLengths : Negotiation0[x] \in 0 .. TextCap
    BY SshConstants DEF Negotiation0, SshLengths
  <1>5. \A x \in SshBuffers : Negotiation0[x] \in Seq(Nat)
    <2>1. <<>> \in Seq(Nat)
      OBVIOUS
    <2>2. Negotiation0.binary_rx = <<>> /\ Negotiation0.encrypted_rx = <<>>
      BY DEF Negotiation0
    <2>3. QED
      BY ONLY <2>1, <2>2 DEF SshBuffers
  <1>6. Negotiation0 = [x \in DOMAIN Negotiation0 |-> Negotiation0[x]]
    BY DEF Negotiation0
  <1>7. PICK s : s = Negotiation0
    OBVIOUS
  <1>8. s \in [SshFields -> BOOLEAN \cup Nat \cup Seq(Nat)]
    <2>1. \A x \in SshFields : s[x] \in BOOLEAN \cup Nat \cup Seq(Nat)
      <3>1. \A n \in 0 .. TextCap : n \in Nat
        BY SshConstants
      <3>2. QED
        BY ONLY <1>2, <1>3, <1>4, <1>5, <1>7, <3>1 DEF SshFields
    <2>2. s = [x \in DOMAIN s |-> s[x]] /\ DOMAIN s = SshFields
      BY ONLY <1>1, <1>6, <1>7
    <2>3. QED
      BY ONLY <2>1, <2>2
  <1>9. Negotiation0.tx_off <= Negotiation0.tx_len
    BY DEF Negotiation0
  <1>10. QED
    BY ONLY <1>2, <1>3, <1>4, <1>5, <1>7, <1>8, <1>9 DEF Negotiations

\* The invariant of a host, a wire and a client.
Sound(h, w, x) ==
  /\ h \in Hosts /\ h.ssh.tx_off <= h.ssh.tx_len
  /\ w \in Wires /\ w.got <= Len(w.sent)
  /\ x \in Clients /\ (x.state \notin {"open", "fin"} => x.out = <<>>)
  /\ (x.state # "none" => x.peer \in Peers)
  /\ Attached(h, w) /\ Fresh(h, w.sent)
  /\ (h.srv.state = "ESTABLISHED" => SessionInv(h, w))
  /\ (Talking(w, x) => ClientKnows(h, w, x.out))
  /\ Decodable(w.sent)

Writer(x) ==
  /\ x \in Clients /\ (x.state \notin {"open", "fin"} => x.out = <<>>)
  /\ (x.state # "none" => x.peer \in Peers)

LEMMA WireTypes ==
  NoWire \in Wires /\ NoWire.peer = NoPeer /\ NoWire.sent = <<>> /\ NoWire.got = 0 /\ NoWire.opened = FALSE
  <1>1. <<>> \in Seq(SentPackets)
    OBVIOUS
  <1>2. QED
    BY <1>1 DEF NoWire, Wires

\* A server with nobody connected.
LEMMA NobodyThere ==
  ASSUME NEW h \in Hosts, h.ssh.tx_off <= h.ssh.tx_len, NEW x, Writer(x),
         h.srv.connections = h.svc.seen, h.srv.peer = NoPeer,
         IF h.svc.enabled THEN h.srv.enabled /\ h.srv.state = "LISTEN" ELSE h.srv.state = "CLOSED"
  PROVE  Sound(h, NoWire, x)
  <1>1. PICK w \in Wires : w = NoWire /\ w.peer = NoPeer /\ w.sent = <<>> /\ w.got = 0 /\ w.opened = FALSE
    BY WireTypes
  <1>2. h.srv.state \in {"LISTEN", "CLOSED"}
    OBVIOUS
  <1>3. Attached(h, w)
    BY <1>1, <1>2 DEF Attached
  <1>4. Fresh(h, w.sent)
    BY <1>2 DEF Fresh
  <1>5. ~Talking(w, x)
    BY <1>1 DEF Talking
  <1>6. Decodable(w.sent)
    <2>1. DOMAIN w.sent = {}
      BY ONLY <1>1
    <2>2. QED
      BY ONLY <2>1 DEF Decodable
  <1>7. w.got <= Len(w.sent)
    BY <1>1
  <1>8. QED
    BY <1>1, <1>2, <1>3, <1>4, <1>5, <1>6, <1>7 DEF Sound, Writer

\* ssh_refresh_state does nothing when no connection was counted.
LEMMA NothingToRefresh ==
  ASSUME NEW h, h.srv.connections = h.svc.seen
  PROVE  RefreshState(h) = h
  BY DEF RefreshState

\* The listener opened again.
LEMMA ListeningIs ==
  ASSUME NEW h \in Hosts, NEW g, g = Listening(h)
  PROVE  /\ g \in Hosts /\ g.srv = ServerInit /\ g.ssh = Negotiation0 /\ g.ssh.tx_off <= g.ssh.tx_len
         /\ g.svc.seen = 0 /\ g.svc.enabled = h.svc.enabled
  <1>1. PICK v : v = [h.svc EXCEPT !.seen = 0, !.close_polls = 0]
    OBVIOUS
  <1>2. v \in SshServices /\ v.seen = 0 /\ v.enabled = h.svc.enabled
    <2>1. h.svc \in SshServices /\ 0 \in 0 .. ClosePolls
      BY SshConstants DEF Hosts
    <2>2. QED
      BY ONLY <1>1, <2>1 DEF SshServices
  <1>3. ServerInit \in TcpServers
    BY DEF ServerInit, NoServer, TcpServers
  <1>4. h = [srv |-> h.srv, svc |-> h.svc, ssh |-> h.ssh]
    BY ONLY h \in Hosts DEF Hosts
  <1>5. g = [srv |-> ServerInit, svc |-> v, ssh |-> Negotiation0]
    BY ONLY <1>1, <1>4, g = Listening(h) DEF Listening, ResetNegotiation
  <1>6. QED
    BY ONLY <1>2, <1>3, <1>5, NegotiationStarts DEF Hosts

LEMMA InitIs ==
  /\ ServerInit.connections = 0 /\ ServerInit.peer = NoPeer /\ ServerInit.state = "LISTEN"
  /\ ServerInit.enabled
  BY DEF ServerInit, NoServer

\* The listener after it was opened again.
LEMMA ReopenedIs ==
  ASSUME NEW h \in Hosts, NEW g, g = ReopenListener(h)
  PROVE  /\ g \in Hosts /\ g.srv = ServerInit /\ g.ssh = Negotiation0 /\ g.ssh.tx_off <= g.ssh.tx_len
         /\ g.svc.seen = 0 /\ g.svc.enabled = h.svc.enabled
  <1>1. PICK l : l = Listening(h)
    OBVIOUS
  <1>2. /\ l \in Hosts /\ l.srv = ServerInit /\ l.ssh = Negotiation0 /\ l.ssh.tx_off <= l.ssh.tx_len
        /\ l.svc.seen = 0 /\ l.svc.enabled = h.svc.enabled
    BY <1>1, ListeningIs
  <1>3. PICK k : k = [l EXCEPT !.svc.idle = 0]
    OBVIOUS
  <1>4. /\ k \in Hosts /\ k.srv = l.srv /\ k.ssh = l.ssh
        /\ k.svc.seen = l.svc.seen /\ k.svc.enabled = l.svc.enabled
    <2>1. 0 \in 0 .. IdleTimeout + 1
      BY SshConstants
    <2>2. QED
      BY ONLY <1>2, <1>3, <2>1 DEF Hosts, SshServices
  <1>5. k.srv.connections = k.svc.seen
    BY ONLY <1>2, <1>4, InitIs
  <1>6. g = RefreshState(k)
    BY ONLY <1>1, <1>3, g = ReopenListener(h), Zenon DEF ReopenListener
  <1>7. g = k
    BY ONLY <1>5, <1>6, NothingToRefresh
  <1>8. QED
    BY ONLY <1>2, <1>4, <1>7

\* A server that is attached has nothing to wake up.
LEMMA WokenIs ==
  ASSUME Sound(host, wire, cli), host.svc.enabled
  PROVE  Woken = host
  <1>1. host.srv.enabled /\ host.srv.state # "CLOSED" /\ host.srv.connections = host.svc.seen
    BY DEF Sound, Attached
  <1>2. EnsureListenerAlive(host) = host
    BY <1>1 DEF EnsureListenerAlive
  <1>3. RefreshState(host) = host
    BY <1>1, NothingToRefresh
  <1>4. QED
    BY ONLY <1>2, <1>3, Zenon DEF Woken

\* The client does not notice what the server does to itself.
LEMMA WriterIs ==
  ASSUME NEW h, NEW w, NEW x, Sound(h, w, x)
  PROVE  Writer(x) /\ (w.peer = NoPeer => w = NoWire)
  BY DEF Sound, Writer, Attached

\* The wire of a server that has nobody.
LEMMA NobodysWire ==
  ASSUME NEW h, NEW x, Sound(h, wire, x), NEW s, s.peer = NoPeer
  PROVE  WireOf(s) = NoWire
  <1>1. CASE wire.peer = NoPeer
    <2>1. wire = NoWire
      BY <1>1, WriterIs
    <2>2. QED
      BY <1>1, <2>1 DEF WireOf
  <1>2. CASE wire.peer # NoPeer
    <2>1. WireOf(s) = [NoWire EXCEPT !.peer = NoPeer]
      BY ONLY <1>2, s.peer = NoPeer, Zenon DEF WireOf
    <2>2. QED
      BY ONLY <2>1 DEF NoWire
  <1>3. QED
    BY <1>1, <1>2

\* A change that the session does not see.
LEMMA AlikeSound ==
  ASSUME NEW h, NEW w, NEW x, Sound(h, w, x), NEW g \in Hosts, Alike(h, g), g.srv = h.srv,
         g.svc.seen = h.svc.seen, g.svc.enabled = h.svc.enabled,
         g.svc.close_polls = h.svc.close_polls \/ h.svc.close_polls # 0
  PROVE  Sound(g, w, x)
  <1>1. /\ g.ssh = h.ssh /\ g.svc.banner_sent = h.svc.banner_sent
        /\ g.svc.client_banner_seen = h.svc.client_banner_seen
    BY DEF Alike
  <1>2. g.ssh.tx_off <= g.ssh.tx_len
    BY ONLY <1>1, Sound(h, w, x) DEF Sound
  <1>3. Attached(g, w)
    BY ONLY Sound(h, w, x), g.srv = h.srv, g.svc.seen = h.svc.seen, g.svc.enabled = h.svc.enabled, Zenon
       DEF Sound, Attached
  <1>4. Fresh(g, w.sent)
    <2>1. Fresh(h, w.sent)
      BY DEF Sound
    <2>2. Untouched(h) => Untouched(g)
      BY <1>1 DEF Untouched
    <2>3. QED
      BY ONLY <2>1, <2>2, g.srv = h.srv, Zenon DEF Fresh
  <1>5. h.srv.state = "ESTABLISHED" => SessionInv(g, w)
    BY AlikeKeeps DEF Sound
  <1>6. Talking(w, x) => ClientKnows(g, w, x.out)
    BY AlikeKeeps DEF Sound
  <1>7. QED
    BY ONLY g \in Hosts, Sound(h, w, x), g.srv = h.srv, <1>2, <1>3, <1>4, <1>5, <1>6, Zenon DEF Sound

\* The watchdog opens the listener again: nobody is there.
LEMMA WatchdogKeeps ==
  ASSUME Sound(host, wire, cli), PollWatchdog
  PROVE  Sound(host', wire', cli')
  <1>1. Woken = host /\ host' = ReopenListener(Woken) /\ wire' = WireOf(host'.srv) /\ cli' = cli
    BY WokenIs DEF PollWatchdog
  <1>2. host \in Hosts /\ host.svc.enabled
    BY DEF Sound, PollWatchdog
  <1>3. PICK g : g = ReopenListener(host)
    OBVIOUS
  <1>4. /\ g \in Hosts /\ g.srv = ServerInit /\ g.ssh.tx_off <= g.ssh.tx_len
        /\ g.svc.seen = 0 /\ g.svc.enabled = host.svc.enabled
    BY <1>2, <1>3, ReopenedIs
  <1>5. Sound(g, NoWire, cli)
    <2>1. /\ g.srv.connections = g.svc.seen /\ g.srv.peer = NoPeer
          /\ g.srv.enabled /\ g.srv.state = "LISTEN" /\ g.svc.enabled
      BY ONLY <1>2, <1>4, InitIs
    <2>2. QED
      BY <1>4, <2>1, WriterIs, NobodyThere
  <1>6. WireOf(g.srv) = NoWire
    BY <1>4, InitIs, NobodysWire
  <1>7. QED
    BY ONLY <1>1, <1>3, <1>5, <1>6, Zenon

\* A poll that waits moves the idle time and the failures alone.
LEMMA WaitingIs ==
  ASSUME NEW h, NEW w, NEW x, Sound(h, w, x), NEW g, g = Waiting(h)
  PROVE  /\ g \in Hosts /\ Alike(h, g) /\ g.srv = h.srv /\ g.svc.seen = h.svc.seen /\ g.svc.enabled = h.svc.enabled
         /\ g.svc.close_polls = h.svc.close_polls \/ h.svc.close_polls # 0
  <1>1. h \in Hosts /\ h.svc \in SshServices
    BY DEF Sound, Hosts
  <1>2. CASE ~(TxKind(h) = "NONE" /\ h.svc.close_polls > 0)
    <2>1. g = h
      BY ONLY <1>2, g = Waiting(h), Zenon DEF Waiting
    <2>2. QED
      BY <1>1, <2>1 DEF Alike
  <1>3. CASE TxKind(h) = "NONE" /\ h.svc.close_polls > 0
    <2>1. g = [h EXCEPT !.svc.close_polls = h.svc.close_polls - 1]
      BY ONLY <1>3, g = Waiting(h), Zenon DEF Waiting
    <2>2. PICK p : p = h.svc.close_polls
      OBVIOUS
    <2>3. p \in 0 .. ClosePolls /\ p > 0
      BY ONLY <1>1, <1>3, <2>2 DEF SshServices
    <2>4. p - 1 \in 0 .. ClosePolls /\ p # 0
      BY <2>3, SshConstants
    <2>5. PICK q : q = p - 1 /\ q \in 0 .. ClosePolls
      BY <2>4
    <2>6. g = [h EXCEPT !.svc.close_polls = q]
      BY ONLY <2>1, <2>2, <2>5, Zenon
    <2>7. PICK v : v = [h.svc EXCEPT !.close_polls = q]
      OBVIOUS
    <2>8. v \in SshServices /\ v.seen = h.svc.seen /\ v.enabled = h.svc.enabled
          /\ v.banner_sent = h.svc.banner_sent /\ v.client_banner_seen = h.svc.client_banner_seen
      BY ONLY <1>1, <2>5, <2>7 DEF SshServices
    <2>9. g = [h EXCEPT !.svc = v]
      BY ONLY <1>1, <2>6, <2>7 DEF Hosts
    <2>10. g \in Hosts /\ g.srv = h.srv /\ g.ssh = h.ssh /\ g.svc = v
      BY ONLY <1>1, <2>8, <2>9 DEF Hosts
    <2>11. QED
      BY ONLY <2>2, <2>4, <2>8, <2>10 DEF Alike
  <1>4. QED
    BY <1>2, <1>3

LEMMA WaitingSound ==
  ASSUME NEW h, NEW w, NEW x, Sound(h, w, x), NEW g, g = Waiting(h)
  PROVE  Sound(g, w, x)
  BY WaitingIs, AlikeSound

\* An attached server has nothing to refresh.
LEMMA SoundRefreshes ==
  ASSUME NEW h, NEW w, NEW x, Sound(h, w, x)
  PROVE  RefreshState(h) = h
  BY NothingToRefresh DEF Sound, Attached

\* A poll that finds nothing to do.
LEMMA QuietKeeps ==
  ASSUME Sound(host, wire, cli), PollQuiet \/ PollSendFails
  PROVE  Sound(host', wire', cli')
  <1>1. host.svc.enabled /\ wire' = wire /\ cli' = cli
    BY DEF PollQuiet, PollSendFails
  <1>2. Woken = host
    BY <1>1, WokenIs
  <1>3. CASE PollQuiet
    <2>1. PICK g : g = Waiting(host)
      OBVIOUS
    <2>2. Sound(g, wire, cli)
      BY <2>1, WaitingSound
    <2>3. host' = g
      BY <1>2, <1>3, <2>1, <2>2, SoundRefreshes DEF PollQuiet
    <2>4. QED
      BY ONLY <1>1, <2>2, <2>3, Zenon
  <1>4. CASE PollSendFails
    <2>1. host' = host
      BY <1>2, <1>4, SoundRefreshes DEF PollSendFails
    <2>2. QED
      BY ONLY <1>1, <2>1, Sound(host, wire, cli), Zenon
  <1>5. QED
    BY <1>3, <1>4

\* The staged close, step by step.
LEMMA StagedCloseKeeps ==
  ASSUME Sound(host, wire, cli), PollStagedClose
  PROVE  Sound(host', wire', cli')
  <1>1. host.svc.enabled /\ wire' = WireOf(host'.srv) /\ cli' = cli
    BY DEF PollStagedClose
  <1>2. Woken = host
    BY <1>1, WokenIs
  <1>3. PICK f : f = Waiting(host)
    OBVIOUS
  <1>4. f \in Hosts /\ f.svc.enabled
    BY <1>1, <1>3, WaitingIs
  <1>5. PICK g : g = Listening(f)
    OBVIOUS
  <1>6. /\ g \in Hosts /\ g.srv = ServerInit /\ g.ssh.tx_off <= g.ssh.tx_len
        /\ g.svc.seen = 0 /\ g.svc.enabled = f.svc.enabled
    BY <1>4, <1>5, ListeningIs
  <1>7. Sound(g, NoWire, cli)
    <2>1. /\ g.srv.connections = g.svc.seen /\ g.srv.peer = NoPeer
          /\ g.srv.enabled /\ g.srv.state = "LISTEN" /\ g.svc.enabled
      BY ONLY <1>4, <1>6, InitIs
    <2>2. QED
      BY <1>6, <2>1, WriterIs, NobodyThere
  <1>8. WireOf(g.srv) = NoWire
    BY <1>6, InitIs, NobodysWire
  <1>9. host' = RefreshState(g)
    BY <1>2, <1>3, <1>5, Zenon DEF PollStagedClose
  <1>10. host' = g
    BY <1>7, <1>9, SoundRefreshes
  <1>11. QED
    BY ONLY <1>1, <1>7, <1>8, <1>10, Zenon

\* ServerSend moves only the number of the next segment.
LEMMA SendSound ==
  ASSUME Sound(host, wire, cli), PollSend
  PROVE  Sound(host', wire', cli')
  <1>1. PICK kind : kind = TxKind(host)
    OBVIOUS
  <1>2. Woken = host
    BY WokenIs DEF PollSend
  <1>3. PICK s : s = Sent(host, kind)
    OBVIOUS
  <1>4. PICK g : g = [s EXCEPT !.srv = ServerSend(@, 1)]
    OBVIOUS
  <1>5. PICK p : p = Packet(host, kind)
    OBVIOUS
  <1>6. /\ host.svc.enabled /\ kind # "NONE" /\ Builds(host, kind)
        /\ host' = RefreshState(g) /\ cli' = cli
        /\ \E arrives \in BOOLEAN :
             wire' = [wire EXCEPT !.sent = Append(@, p),
                                  !.got = IF arrives /\ @ = Len(wire.sent) THEN @ + 1 ELSE @]
    BY ONLY <1>1, <1>2, <1>3, <1>4, <1>5, PollSend, Zenon DEF PollSend
  <1>7. PICK arrives \in BOOLEAN :
          wire' = [wire EXCEPT !.sent = Append(@, p),
                               !.got = IF arrives /\ @ = Len(wire.sent) THEN @ + 1 ELSE @]
    BY <1>6
  <1>8. /\ host \in Hosts /\ host.ssh.tx_off <= host.ssh.tx_len /\ wire \in Wires /\ wire.got <= Len(wire.sent)
        /\ Attached(host, wire) /\ Writer(cli) /\ Decodable(wire.sent)
        /\ (host.srv.state = "ESTABLISHED" => SessionInv(host, wire))
        /\ (Talking(wire, cli) => ClientKnows(host, wire, cli.out))
    BY DEF Sound, Writer
  <1>9. kind \in SentKinds /\ host.srv.state = "ESTABLISHED"
    BY <1>1, <1>6, Chosen DEF Connected
  <1>10. s \in Hosts /\ s.ssh.tx_off <= s.ssh.tx_len /\ Sending(host, s, kind)
    BY <1>3, <1>8, <1>9, SendingKeeps
  <1>11. /\ s.srv = host.srv /\ s.svc.seen = host.svc.seen /\ s.svc.enabled = host.svc.enabled
    BY ONLY <1>10 DEF Sending, FlagsOf
  <1>12. SessionInv(host, wire)
    BY <1>8, <1>9
  <1>13. p \in SentPackets
    <2>1. host.ssh.seq_out \in Nat /\ host.ssh.ctr_s2c \in Nat
      BY <1>8, SshTyped DEF Hosts
    <2>2. QED
      BY ONLY <1>5, <1>9, <2>1 DEF Packet, SentPackets
  <1>14. PICK q : q = Append(wire.sent, p)
    OBVIOUS
  <1>15. wire.sent \in Seq(SentPackets) /\ wire.got \in Nat
    BY <1>8 DEF Wires
  <1>16. q \in Seq(SentPackets) /\ Grown(wire.sent, q, p) /\ Len(wire.sent) \in Nat
    <2>1. Grown(wire.sent, q, p)
      BY ONLY <1>13, <1>14, <1>15, AppendGrows
    <2>2. q \in Seq(SentPackets)
      BY ONLY <1>13, <1>14, <1>15
    <2>3. Len(wire.sent) \in Nat
      BY ONLY <1>15
    <2>4. QED
      BY <2>1, <2>2, <2>3
  <1>17. PICK n : n = IF arrives /\ wire.got = Len(wire.sent) THEN wire.got + 1 ELSE wire.got
    OBVIOUS
  <1>18. n \in Nat /\ wire.got <= n /\ n <= Len(q)
    <2>1. Len(q) = Len(wire.sent) + 1
      BY <1>16 DEF Grown
    <2>2. PICK a, b : a = wire.got /\ b = Len(wire.sent)
      OBVIOUS
    <2>3. a \in Nat /\ b \in Nat /\ a <= b /\ n = (IF arrives /\ a = b THEN a + 1 ELSE a) /\ Len(q) = b + 1
      BY ONLY <1>8, <1>15, <1>16, <1>17, <2>1, <2>2
    <2>4. n \in Nat /\ a <= n /\ n <= b + 1
      BY ONLY <2>3
    <2>5. QED
      BY ONLY <2>2, <2>3, <2>4
  <1>19. PICK v : v = [wire EXCEPT !.sent = q, !.got = n]
    OBVIOUS
  <1>20. wire' = v
    BY ONLY <1>7, <1>14, <1>17, <1>19, Zenon
  <1>21. v \in Wires /\ v.sent = q /\ v.got = n /\ v.peer = wire.peer /\ v.opened = wire.opened
    BY ONLY <1>8, <1>16, <1>18, <1>19 DEF Wires
  <1>22. Grown(wire.sent, v.sent, p)
    BY <1>16, <1>21
  <1>23. SessionInv(s, v) /\ Decodable(v.sent)
    BY <1>1, <1>5, <1>6, <1>8, <1>10, <1>12, <1>21, <1>22, SendKeepsSession
  <1>24. PICK r : r = ServerSend(host.srv, 1)
    OBVIOUS
  <1>25. /\ r \in TcpServers /\ r.state = host.srv.state /\ r.peer = host.srv.peer /\ r.ack = host.srv.ack
         /\ r.enabled = host.srv.enabled /\ r.connections = host.srv.connections
    <2>1. host.srv \in TcpServers
      BY <1>8 DEF Hosts
    <2>2. QED
      BY ONLY <1>24, <2>1 DEF ServerSend, TcpServers
  <1>26. g \in Hosts /\ g.srv = r /\ g.svc = s.svc /\ g.ssh = s.ssh
    <2>1. g = [s EXCEPT !.srv = r]
      BY ONLY <1>4, <1>11, <1>24, Zenon
    <2>2. QED
      BY ONLY <1>10, <1>25, <2>1 DEF Hosts
  <1>27. Alike(s, g)
    BY ONLY <1>11, <1>25, <1>26 DEF Alike
  <1>28. SessionInv(g, v)
    BY <1>23, <1>27, AlikeKeeps
  <1>29. Talking(v, cli) => ClientKnows(g, v, cli.out)
    <2>1. SUFFICES ASSUME Talking(v, cli) PROVE ClientKnows(g, v, cli.out)
      OBVIOUS
    <2>2. ClientKnows(host, wire, cli.out)
      BY ONLY <1>8, <1>21, <2>1, Zenon DEF Talking
    <2>3. wire.got <= v.got
      BY <1>18, <1>21
    <2>4. ClientKnows(s, v, cli.out)
      BY <1>1, <1>5, <1>6, <1>8, <1>10, <1>13, <1>21, <1>22, <2>2, <2>3, SendKeepsClient
    <2>5. QED
      BY <1>27, <2>4, AlikeKeeps
  <1>30. v.sent # <<>>
    BY ONLY <1>16, <1>21 DEF Grown
  <1>31. Attached(g, v)
    BY ONLY <1>8, <1>9, <1>11, <1>21, <1>25, <1>26 DEF Attached
  <1>32. Fresh(g, v.sent)
    BY ONLY <1>9, <1>25, <1>26, <1>30 DEF Fresh
  <1>33. Sound(g, v, cli)
    <2>1. g.ssh.tx_off <= g.ssh.tx_len
      BY ONLY <1>10, <1>26, Zenon
    <2>2. v.got <= Len(v.sent)
      BY ONLY <1>18, <1>21, Zenon
    <2>3. QED
      BY ONLY <1>8, <1>21, <1>23, <1>26, <1>28, <1>29, <1>31, <1>32, <2>1, <2>2, Zenon DEF Sound, Writer
  <1>34. host' = g
    BY ONLY <1>6, <1>33, SoundRefreshes
  <1>35. QED
    BY ONLY <1>6, <1>20, <1>33, <1>34, Zenon

\* The timer reaches the service only.
LEMMA TickKeeps ==
  ASSUME Sound(host, wire, cli), SshTick
  PROVE  Sound(host', wire', cli')
  <1>1. host \in Hosts /\ host.svc \in SshServices
    BY DEF Sound, Hosts
  <1>2. PICK i, l : i = Min({host.svc.idle + 1, IdleTimeout + 1}) /\ l = Max({0, host.svc.lockout - 1})
    OBVIOUS
  <1>3. host' = [host EXCEPT !.svc.idle = i, !.svc.lockout = l] /\ wire' = wire /\ cli' = cli
    BY ONLY <1>2, SshTick, Zenon DEF SshTick
  <1>4. i \in 0 .. IdleTimeout + 1
    <2>1. PICK a, b : a = host.svc.idle + 1 /\ b = IdleTimeout + 1
      OBVIOUS
    <2>2. host.svc.idle \in 0 .. IdleTimeout + 1 /\ IdleTimeout \in Nat
      BY <1>1, SshConstants DEF SshServices
    <2>3. a \in Nat /\ b \in Nat
      BY ONLY <2>1, <2>2
    <2>4. i \in {a, b} /\ i <= b
      BY ONLY <1>2, <2>1, <2>3, MinOfTwo
    <2>5. QED
      BY ONLY <2>1, <2>2, <2>3, <2>4
  <1>5. l \in 0 .. LockoutTicks
    <2>1. PICK n : n = host.svc.lockout
      OBVIOUS
    <2>2. n \in 0 .. LockoutTicks /\ LockoutTicks \in Nat
      BY <1>1, <2>1, SshConstants DEF SshServices
    <2>3. CASE n = 0
      <3>1. l = Max({0, 0 - 1})
        BY ONLY <1>2, <2>1, <2>3
      <3>2. l = 0
        BY ONLY <3>1 DEF Max
      <3>3. QED
        BY ONLY <2>2, <3>2
    <2>4. CASE n # 0
      <3>1. PICK m : m = n - 1
        OBVIOUS
      <3>2. m \in Nat /\ m <= LockoutTicks
        BY ONLY <2>2, <2>4, <3>1
      <3>3. l = Max({0, m})
        BY ONLY <1>2, <2>1, <3>1, Zenon
      <3>4. l \in {0, m}
        BY ONLY <3>2, <3>3, MinOfTwo, 0 \in Nat
      <3>5. QED
        BY ONLY <2>2, <3>2, <3>4
    <2>5. QED
      BY <2>3, <2>4
  <1>6. PICK v : v = [host.svc EXCEPT !.idle = i, !.lockout = l]
    OBVIOUS
  <1>7. PICK g : g = [host EXCEPT !.svc = v]
    OBVIOUS
  <1>8. /\ v \in SshServices /\ v.seen = host.svc.seen /\ v.enabled = host.svc.enabled
        /\ v.banner_sent = host.svc.banner_sent /\ v.client_banner_seen = host.svc.client_banner_seen
        /\ v.close_polls = host.svc.close_polls
    BY ONLY <1>1, <1>4, <1>5, <1>6 DEF SshServices
  <1>9. g \in Hosts /\ g.srv = host.srv /\ g.ssh = host.ssh /\ g.svc = v
    BY ONLY <1>1, <1>7, <1>8 DEF Hosts
  <1>10. host' = g
    BY ONLY <1>1, <1>3, <1>6, <1>7 DEF Hosts
  <1>11. Alike(host, g)
    BY ONLY <1>8, <1>9 DEF Alike
  <1>12. Sound(g, wire, cli)
    BY <1>8, <1>9, <1>11, AlikeSound
  <1>13. QED
    BY ONLY <1>3, <1>10, <1>12, Zenon

\* A record of the service with one part of the host replaced.
LEMMA ServiceWritten ==
  ASSUME NEW h \in Hosts, NEW v \in SshServices, NEW g, g = [h EXCEPT !.svc = v]
  PROVE  g \in Hosts /\ g.srv = h.srv /\ g.ssh = h.ssh /\ g.svc = v
  BY DEF Hosts

LEMMA HostIs ==
  ASSUME NEW h \in Hosts
  PROVE  h = [srv |-> h.srv, svc |-> h.svc, ssh |-> h.ssh]
  BY DEF Hosts

-----------------------------------------------------------------------------
(* The console.                                                            *)

\* The console starts the service.
LEMMA StartKeeps ==
  ASSUME Sound(host, wire, cli), SshStart
  PROVE  Sound(host', wire', cli')
  <1>1. host \in Hosts /\ ~host.svc.enabled /\ wire' = wire /\ cli' = cli
    BY DEF Sound, SshStart
  <1>2. PICK l : l = Listening(host)
    OBVIOUS
  <1>3. /\ l \in Hosts /\ l.srv = ServerInit /\ l.ssh = Negotiation0 /\ l.ssh.tx_off <= l.ssh.tx_len
        /\ l.svc.seen = 0
    BY <1>1, <1>2, ListeningIs
  <1>4. PICK v : v = [l.svc EXCEPT !.enabled = TRUE, !.banner_sent = FALSE, !.client_banner_seen = FALSE, !.idle = 0]
    OBVIOUS
  <1>5. v \in SshServices /\ v.seen = 0 /\ v.enabled
    <2>1. l.svc \in SshServices /\ 0 \in 0 .. IdleTimeout + 1
      BY <1>3, SshConstants DEF Hosts
    <2>2. QED
      BY ONLY <1>3, <1>4, <2>1 DEF SshServices
  <1>6. PICK g : g = [l EXCEPT !.svc = v]
    OBVIOUS
  <1>7. g \in Hosts /\ g.srv = l.srv /\ g.ssh = l.ssh /\ g.svc = v
    BY <1>3, <1>5, <1>6, ServiceWritten
  <1>8. host' = g
    <2>1. host' = [l EXCEPT !.svc.enabled = TRUE, !.svc.banner_sent = FALSE,
                            !.svc.client_banner_seen = FALSE, !.svc.idle = 0]
      BY ONLY <1>2, SshStart, Zenon DEF SshStart
    <2>2. QED
      BY ONLY <1>3, <1>4, <1>6, <2>1 DEF Hosts
  <1>9. Sound(g, NoWire, cli)
    <2>1. /\ g.srv.connections = g.svc.seen /\ g.srv.peer = NoPeer /\ g.ssh.tx_off <= g.ssh.tx_len
          /\ g.srv.enabled /\ g.srv.state = "LISTEN" /\ g.svc.enabled
      BY ONLY <1>3, <1>5, <1>7, InitIs
    <2>2. QED
      BY <1>7, <2>1, WriterIs, NobodyThere
  <1>10. wire = NoWire
    <2>1. host.srv.state = "CLOSED" /\ wire.peer = host.srv.peer /\ host.srv.peer = NoPeer
      BY ONLY <1>1, Sound(host, wire, cli) DEF Sound, Attached
    <2>2. QED
      BY <2>1, WriterIs
  <1>11. QED
    BY ONLY <1>1, <1>8, <1>9, <1>10, Zenon

\* The console stops it.
LEMMA StopKeeps ==
  ASSUME Sound(host, wire, cli), SshStop
  PROVE  Sound(host', wire', cli')
  <1>1. host \in Hosts /\ wire' = WireOf(host'.srv) /\ cli' = cli
    BY DEF Sound, SshStop
  <1>2. PICK r, v : /\ r = ServerClose(host.srv)
                    /\ v = [host.svc EXCEPT !.enabled = FALSE, !.close_polls = 0, !.banner_sent = FALSE,
                                            !.client_banner_seen = FALSE]
    OBVIOUS
  <1>3. host.srv \in TcpServers /\ host.svc \in SshServices
    BY <1>1 DEF Hosts
  <1>4. /\ r \in TcpServers /\ r.state = "CLOSED" /\ r.peer = NoPeer /\ r.connections = host.srv.connections
    BY ONLY <1>2, <1>3 DEF ServerClose, ResetPeer, TcpServers
  <1>5. v \in SshServices /\ v.seen = host.svc.seen /\ ~v.enabled
    <2>1. 0 \in 0 .. ClosePolls
      BY SshConstants
    <2>2. QED
      BY ONLY <1>2, <1>3, <2>1 DEF SshServices
  <1>6. PICK g : g = [srv |-> r, svc |-> v, ssh |-> Negotiation0]
    OBVIOUS
  <1>7. host' = g
    <2>1. host = [srv |-> host.srv, svc |-> host.svc, ssh |-> host.ssh]
      BY <1>1, HostIs
    <2>2. PICK f : f = ResetNegotiation(host)
      OBVIOUS
    <2>3. f = [srv |-> host.srv, svc |-> host.svc, ssh |-> Negotiation0]
      BY ONLY <2>1, <2>2 DEF ResetNegotiation
    <2>4. host' = [f EXCEPT !.srv = ServerClose(@), !.svc.enabled = FALSE, !.svc.close_polls = 0,
                            !.svc.banner_sent = FALSE, !.svc.client_banner_seen = FALSE]
      BY ONLY <2>2, SshStop, Zenon DEF SshStop
    <2>5. f.srv = host.srv /\ f.svc = host.svc
      BY ONLY <2>3
    <2>6. host' = [f EXCEPT !.srv = r, !.svc.enabled = FALSE, !.svc.close_polls = 0,
                            !.svc.banner_sent = FALSE, !.svc.client_banner_seen = FALSE]
      BY ONLY <1>2, <2>4, <2>5, Zenon
    <2>7. v = [f.svc EXCEPT !.enabled = FALSE, !.close_polls = 0, !.banner_sent = FALSE, !.client_banner_seen = FALSE]
      BY ONLY <1>2, <2>5, Zenon
    <2>8. host' = [f EXCEPT !.srv = r, !.svc = v]
      BY ONLY <2>3, <2>6, <2>7
    <2>9. PICK k : k = [f EXCEPT !.srv = r]
      OBVIOUS
    <2>10. PICK n : n = Negotiation0
      OBVIOUS
    <2>11. f = [srv |-> host.srv, svc |-> host.svc, ssh |-> n] /\ g = [srv |-> r, svc |-> v, ssh |-> n]
      BY ONLY <1>6, <2>3, <2>10, Zenon
    <2>12. k = [srv |-> r, svc |-> host.svc, ssh |-> n]
      BY ONLY <2>9, <2>11
    <2>13. g = [k EXCEPT !.svc = v]
      BY ONLY <2>11, <2>12
    <2>14. g = [f EXCEPT !.srv = r, !.svc = v]
      BY ONLY <2>9, <2>13, Zenon
    <2>15. QED
      BY ONLY <2>8, <2>14, Zenon
  <1>8. g \in Hosts /\ g.srv = r /\ g.svc = v /\ g.ssh.tx_off <= g.ssh.tx_len
    BY ONLY <1>4, <1>5, <1>6, NegotiationStarts DEF Hosts
  <1>9. Sound(g, NoWire, cli)
    <2>1. host.srv.connections = host.svc.seen
      BY DEF Sound, Attached
    <2>2. g.srv.connections = g.svc.seen /\ g.srv.peer = NoPeer /\ g.srv.state = "CLOSED" /\ ~g.svc.enabled
      BY ONLY <1>4, <1>5, <1>8, <2>1
    <2>3. QED
      BY <1>8, <2>2, WriterIs, NobodyThere
  <1>10. WireOf(g.srv) = NoWire
    BY <1>4, <1>8, NobodysWire
  <1>11. QED
    BY ONLY <1>1, <1>7, <1>9, <1>10, Zenon

\* The passwords and the lockout are no part of a session.
LEMMA PasswordKeeps ==
  ASSUME Sound(host, wire, cli), SetPassword \/ ClearLockout
  PROVE  Sound(host', wire', cli')
  <1>1. host \in Hosts /\ host.svc \in SshServices /\ wire' = wire /\ cli' = cli
    BY DEF Sound, Hosts, SetPassword, ClearLockout
  <1>2. 0 \in 0 .. MaxAttempts - 1 /\ 0 \in 0 .. LockoutTicks
    BY SshConstants
  <1>3. PICK b \in BOOLEAN : b = IF SetPassword THEN TRUE ELSE host.svc.auth_configured
    BY <1>1 DEF SshServices
  <1>4. PICK v : v = [host.svc EXCEPT !.auth_configured = b, !.failures = 0, !.lockout = 0]
    OBVIOUS
  <1>5. /\ v \in SshServices /\ v.seen = host.svc.seen /\ v.enabled = host.svc.enabled
        /\ v.banner_sent = host.svc.banner_sent /\ v.client_banner_seen = host.svc.client_banner_seen
        /\ v.close_polls = host.svc.close_polls
    BY ONLY <1>1, <1>2, <1>3, <1>4 DEF SshServices
  <1>6. PICK g : g = [host EXCEPT !.svc = v]
    OBVIOUS
  <1>7. g \in Hosts /\ g.srv = host.srv /\ g.ssh = host.ssh /\ g.svc = v
    BY <1>1, <1>5, <1>6, ServiceWritten
  <1>8. host' = g
    <2>1. CASE SetPassword
      <3>1. host' = [host EXCEPT !.svc.auth_configured = TRUE, !.svc.failures = 0, !.svc.lockout = 0]
        BY ONLY <2>1, Zenon DEF SetPassword
      <3>2. b = TRUE
        BY ONLY <1>3, <2>1, Zenon
      <3>3. QED
        BY ONLY <1>1, <1>4, <1>6, <3>1, <3>2 DEF Hosts, SshServices
    <2>2. CASE ~SetPassword
      <3>1. host' = [host EXCEPT !.svc.failures = 0, !.svc.lockout = 0]
        BY <2>2 DEF ClearLockout
      <3>2. b = host.svc.auth_configured
        BY ONLY <1>3, <2>2, Zenon
      <3>3. v = [host.svc EXCEPT !.failures = 0, !.lockout = 0]
        BY ONLY <1>1, <1>4, <3>2 DEF SshServices
      <3>4. QED
        BY ONLY <1>1, <1>6, <3>1, <3>3 DEF Hosts
    <2>3. QED
      BY <2>1, <2>2
  <1>9. Alike(host, g)
    BY ONLY <1>5, <1>7 DEF Alike
  <1>10. Sound(g, wire, cli)
    BY <1>5, <1>7, <1>9, AlikeSound
  <1>11. QED
    BY ONLY <1>1, <1>8, <1>10, Zenon

\* A session that has lost its authentication can still be read.
LEMMA ForgetKeeps ==
  ASSUME NEW h, NEW g, h \in Hosts, NEW w, NEW out, g.srv = h.srv, g.svc.banner_sent = h.svc.banner_sent,
         g.svc.client_banner_seen = h.svc.client_banner_seen,
         \A y \in SshFields \ {"authenticated"} : g.ssh[y] = h.ssh[y]
  PROVE  /\ SessionInv(h, w) => SessionInv(g, w)
         /\ ClientKnows(h, w, out) => ClientKnows(g, w, out)
  <1>1. /\ g.ssh.server_kexinit_sent = h.ssh.server_kexinit_sent /\ g.ssh.client_kexinit_seen = h.ssh.client_kexinit_seen
        /\ g.ssh.algorithms = h.ssh.algorithms /\ g.ssh.ecdh_ready = h.ssh.ecdh_ready
        /\ g.ssh.ecdh_reply_sent = h.ssh.ecdh_reply_sent /\ g.ssh.newkeys_sent = h.ssh.newkeys_sent
        /\ g.ssh.client_newkeys_seen = h.ssh.client_newkeys_seen /\ g.ssh.disconnect_sent = h.ssh.disconnect_sent
        /\ g.ssh.in_encrypted = h.ssh.in_encrypted /\ g.ssh.out_encrypted = h.ssh.out_encrypted
        /\ g.ssh.service_accept = h.ssh.service_accept /\ g.ssh.service_accept_sent = h.ssh.service_accept_sent
        /\ g.ssh.auth_failure = h.ssh.auth_failure /\ g.ssh.auth_success = h.ssh.auth_success
        /\ g.ssh.open_confirm = h.ssh.open_confirm /\ g.ssh.success = h.ssh.success
        /\ g.ssh.failure = h.ssh.failure /\ g.ssh.data = h.ssh.data
        /\ g.ssh.exit_status = h.ssh.exit_status /\ g.ssh.close = h.ssh.close
        /\ g.ssh.close_sent = h.ssh.close_sent /\ g.ssh.seq_in = h.ssh.seq_in
        /\ g.ssh.seq_out = h.ssh.seq_out /\ g.ssh.ctr_s2c = h.ssh.ctr_s2c
        /\ g.ssh.binary_rx = h.ssh.binary_rx /\ g.ssh.encrypted_rx = h.ssh.encrypted_rx
    BY ONLY \A x \in SshFields \ {"authenticated"} : g.ssh[x] = h.ssh[x]
       DEF SshFields, SshFlags, SshCounts, SshBuffers
  <1>2. g.srv = h.srv /\ g.svc.banner_sent = h.svc.banner_sent /\ g.svc.client_banner_seen = h.svc.client_banner_seen
    OBVIOUS
  <1>3. Due(g) = Due(h)
    BY ONLY <1>1, <1>2, Zenon DEF Due
  <1>4. \A kind : Took(g, out, kind) <=> Took(h, out, kind)
    BY ONLY <1>1 DEF Took
  <1>5. KeysInOrder(h) => KeysInOrder(g)
    BY ONLY <1>1, <1>2, Zenon DEF KeysInOrder, Answering
  <1>6. CountersAgree(h, w.sent) => CountersAgree(g, w.sent)
    BY ONLY <1>1, <1>2, Zenon DEF CountersAgree
  <1>7. AskedFor(h, w, out) => AskedFor(g, w, out)
    BY ONLY <1>1, <1>4, Zenon DEF AskedFor, Took
  <1>8. EndsOnce(h, w.sent, out) => EndsOnce(g, w.sent, out)
    <2>1. Silent(h) <=> Silent(g)
      BY <1>3 DEF Silent
    <2>2. QED
      BY ONLY <1>1, <1>4, <2>1 DEF EndsOnce
  <1>9. HeldInOrder(h) => HeldInOrder(g)
    BY ONLY <1>1, <1>2 DEF HeldInOrder
  <1>10. QED
    BY ONLY <1>2, <1>5, <1>6, <1>7, <1>8, <1>9, Zenon DEF ClientKnows, SessionInv

\* The console takes the password away.
LEMMA DisableKeeps ==
  ASSUME Sound(host, wire, cli), DisablePassword
  PROVE  Sound(host', wire', cli')
  <1>1. host \in Hosts /\ host.svc \in SshServices /\ host.ssh \in Negotiations /\ wire' = wire /\ cli' = cli
    BY DEF Sound, Hosts, DisablePassword
  <1>2. 0 \in 0 .. MaxAttempts - 1 /\ 0 \in 0 .. LockoutTicks
    BY SshConstants
  <1>3. PICK v : v = [host.svc EXCEPT !.auth_configured = FALSE, !.failures = 0, !.lockout = 0]
    OBVIOUS
  <1>4. /\ v \in SshServices /\ v.seen = host.svc.seen /\ v.enabled = host.svc.enabled
        /\ v.banner_sent = host.svc.banner_sent /\ v.client_banner_seen = host.svc.client_banner_seen
        /\ v.close_polls = host.svc.close_polls
    BY ONLY <1>1, <1>2, <1>3 DEF SshServices
  <1>5. PICK s \in Negotiations : s = [host.ssh EXCEPT !["authenticated"] = FALSE]
    BY <1>1, FlagSet DEF SshFlags
  <1>6. \A y \in SshFields \ {"authenticated"} : s[y] = host.ssh[y]
    BY ONLY <1>1, <1>5 DEF Negotiations
  <1>7. PICK g : g = [srv |-> host.srv, svc |-> v, ssh |-> s]
    OBVIOUS
  <1>8. g \in Hosts /\ g.srv = host.srv /\ g.svc = v /\ g.ssh = s
    <2>1. host.srv \in TcpServers
      BY <1>1 DEF Hosts
    <2>2. QED
      BY ONLY <1>4, <1>5, <1>7, <2>1 DEF Hosts
  <1>9. host' = g
    <2>1. host' = [host EXCEPT !.svc.auth_configured = FALSE, !.ssh.authenticated = FALSE,
                               !.svc.failures = 0, !.svc.lockout = 0]
      BY DEF DisablePassword
    <2>2. host = [srv |-> host.srv, svc |-> host.svc, ssh |-> host.ssh]
      BY <1>1, HostIs
    <2>3. host' = [host EXCEPT !.svc = v, !.ssh = s]
      BY ONLY <1>3, <1>5, <2>1, <2>2
    <2>4. g = [host EXCEPT !.svc = v, !.ssh = s]
      <3>1. PICK k : k = [host EXCEPT !.svc = v]
        OBVIOUS
      <3>2. PICK a, b, c : a = host.srv /\ b = host.svc /\ c = host.ssh
        OBVIOUS
      <3>3. host = [srv |-> a, svc |-> b, ssh |-> c] /\ g = [srv |-> a, svc |-> v, ssh |-> s]
        BY ONLY <1>7, <2>2, <3>2, Zenon
      <3>4. k = [srv |-> a, svc |-> v, ssh |-> c]
        BY ONLY <3>1, <3>3
      <3>5. g = [k EXCEPT !.ssh = s]
        BY ONLY <3>3, <3>4
      <3>6. QED
        BY ONLY <3>1, <3>5, Zenon
    <2>5. QED
      BY ONLY <2>3, <2>4, Zenon
  <1>10. g.ssh.tx_off <= g.ssh.tx_len
    BY ONLY <1>6, <1>8, Sound(host, wire, cli) DEF Sound, SshFields, SshFlags, SshLengths
  <1>11. Attached(g, wire)
    BY ONLY Sound(host, wire, cli), <1>4, <1>8, Zenon DEF Sound, Attached
  <1>12. Fresh(g, wire.sent)
    <2>1. Fresh(host, wire.sent)
      BY DEF Sound
    <2>2. Untouched(host) => Untouched(g)
      <3>1. ASSUME host.ssh = Negotiation0 PROVE s = Negotiation0
        <4>1. PICK n \in Negotiations : n = Negotiation0
          BY NegotiationStarts
        <4>2. n["authenticated"] = FALSE
          BY ONLY <4>1 DEF Negotiation0
        <4>3. n \in [SshFields -> BOOLEAN \cup Nat \cup Seq(Nat)]
          BY DEF Negotiations
        <4>4. [n EXCEPT !["authenticated"] = FALSE] = n
          BY ONLY <4>2, <4>3
        <4>5. QED
          BY ONLY <1>5, <3>1, <4>1, <4>4, Zenon
      <3>2. QED
        BY ONLY <1>4, <1>8, <3>1 DEF Untouched
    <2>3. QED
      BY ONLY <1>8, <2>1, <2>2, Zenon DEF Fresh
  <1>13. /\ SessionInv(host, wire) => SessionInv(g, wire)
         /\ ClientKnows(host, wire, cli.out) => ClientKnows(g, wire, cli.out)
    <2>1. \A y \in SshFields \ {"authenticated"} : g.ssh[y] = host.ssh[y]
      BY ONLY <1>6, <1>8
    <2>2. QED
      BY <1>1, <1>4, <1>8, <2>1, ForgetKeeps
  <1>14. Sound(g, wire, cli)
    BY ONLY Sound(host, wire, cli), <1>8, <1>10, <1>11, <1>12, <1>13, Zenon DEF Sound
  <1>15. QED
    BY ONLY <1>1, <1>9, <1>14, Zenon

\* What a segment of the client says.
Segment(seg) ==
  /\ seg.peer = cli.peer /\ cli.peer \in Peers /\ seg.seq \in Nat /\ seg.len \in Nat
  /\ seg.ack = (IF wire.opened THEN 1 ELSE 0)
  /\ "SYN" \in seg.flags => seg.seq = 0
  /\ seg.len > 0 => cli.state \in {"open", "fin"} /\ seg.seq + seg.len <= 2 * Len(cli.out) + 1

-----------------------------------------------------------------------------
(* Segments on their way.                                                  *)

\* What is in flight is a segment of the client at the other end.
LEMMA SegmentIs ==
  ASSUME Sound(host, wire, cli), NEW seg \in InFlight
  PROVE  Segment(seg)
  <1> DEFINE S(flags, seq, len) ==
        [peer |-> cli.peer, flags |-> flags, seq |-> seq, len |-> len, ack |-> IF wire.opened THEN 1 ELSE 0]
  <1> DEFINE u == 2 * Len(cli.out)
  <1>2. cli.out \in Seq(Packets) /\ u \in Nat /\ host.srv.ack \in Nat
    <2>1. cli.out \in Seq(Packets) /\ host.srv.ack \in Nat
      BY DEF Sound, Clients, Hosts, TcpServers
    <2>2. QED
      BY ONLY <2>1
  <1>3. cli.state \in {"syn", "open", "fin", "rst"}
    BY DEF InFlight
  <1>4. cli.peer \in Peers
    BY ONLY <1>3, Sound(host, wire, cli) DEF Sound
  <1> DEFINE data == {d \in {S({"ACK"}, a, n) : a \in {1, host.srv.ack, host.srv.ack + 1}, n \in 1 .. MaxUnits} :
                        d.seq + d.len <= u + 1}
  <1>5. \/ seg = S({"SYN"}, 0, 0)
        \/ cli.state \in {"open", "fin"} /\ seg \in data
        \/ seg = S({"ACK"}, 1, 0) \/ seg = S({"ACK", "FIN"}, u + 1, 0) \/ seg = S({"RST"}, u + 1, 0)
    <2> DEFINE all == CASE cli.state = "syn" -> {S({"SYN"}, 0, 0)}
                        [] cli.state = "open" -> {S({"SYN"}, 0, 0), S({"ACK"}, 1, 0)} \cup data
                        [] cli.state = "fin" -> {S({"ACK", "FIN"}, u + 1, 0)} \cup data
                        [] cli.state = "rst" -> {S({"RST"}, u + 1, 0)}
                        [] OTHER -> {}
    <2>1. seg \in all
      BY ONLY seg \in InFlight DEF InFlight
    <2> HIDE DEF S, data, u
    <2>2. QED
      BY ONLY <1>3, <2>1
  <1>6. CASE cli.state \in {"open", "fin"} /\ seg \in data
    <2>1. PICK a \in {1, host.srv.ack, host.srv.ack + 1}, n \in 1 .. MaxUnits : seg = S({"ACK"}, a, n)
      BY <1>6
    <2>2. seg.seq + seg.len <= u + 1
      BY <1>6
    <2>3. a \in Nat /\ n \in Nat
      BY ONLY <1>2, a \in {1, host.srv.ack, host.srv.ack + 1}, n \in 1 .. MaxUnits, SshConstants
    <2>4. /\ seg.peer = cli.peer /\ seg.seq = a /\ seg.len = n /\ seg.flags = {"ACK"}
          /\ seg.ack = (IF wire.opened THEN 1 ELSE 0)
      BY ONLY <2>1
    <2>5. "SYN" \notin seg.flags
      BY ONLY <2>4
    <2>6. QED
      BY ONLY <1>4, <1>6, <2>2, <2>3, <2>4, <2>5 DEF Segment
  <1>7. ASSUME NEW flags, NEW q \in Nat, "SYN" \in flags => q = 0, seg = S(flags, q, 0)
        PROVE  Segment(seg)
    <2>1. /\ seg.peer = cli.peer /\ seg.seq = q /\ seg.len = 0 /\ seg.flags = flags
          /\ seg.ack = (IF wire.opened THEN 1 ELSE 0)
      BY ONLY <1>7
    <2>2. QED
      BY ONLY <1>4, <1>7, <2>1 DEF Segment
  <1>8. 0 \in Nat /\ 1 \in Nat /\ u + 1 \in Nat
    BY ONLY <1>2
  <1>9. "SYN" \notin {"ACK"} /\ "SYN" \notin {"ACK", "FIN"} /\ "SYN" \notin {"RST"}
    OBVIOUS
  <1>10. QED
    <2> HIDE DEF S, data, u
    <2>1. CASE seg = S({"SYN"}, 0, 0)
      BY <1>7, <1>8, <2>1
    <2>2. CASE seg = S({"ACK"}, 1, 0)
      BY <1>7, <1>8, <1>9, <2>2
    <2>3. CASE seg = S({"ACK", "FIN"}, u + 1, 0)
      BY <1>7, <1>8, <1>9, <2>3
    <2>4. CASE seg = S({"RST"}, u + 1, 0)
      BY <1>7, <1>8, <1>9, <2>4
    <2>5. QED
      BY <1>5, <1>6, <2>1, <2>2, <2>3, <2>4

\* What one poll of the TCP server comes to.
Accepted(s, seg) ==
  [s EXCEPT !.peer = seg.peer, !.seq = 0, !.ack = seg.seq + 1, !.connections = @ + 1, !.state = "SYN_RCVD"]
\* The two steps of netstack_tcp_server_poll that keep the peer.
Opened(s) == [s EXCEPT !.seq = @ + 1, !.state = "ESTABLISHED"]
Taken(s, seg) == [s EXCEPT !.ack = @ + seg.len]

AckOpens(s, seg) == seg.ack = s.seq + 1

\* What one segment does to the listener.
Polled(s, seg, o) ==
  \/ o.srv = s /\ o.taken = 0
  \/ o.srv = ResetPeer(s) /\ o.taken = 0
  \/ s.state = "LISTEN" /\ "SYN" \in seg.flags /\ o.srv = Accepted(s, seg) /\ o.taken = 0
  \/ s.state = "LISTEN" /\ o.srv = ResetPeer(Accepted(s, seg)) /\ o.taken = 0
  \/ /\ s.state = "SYN_RCVD" /\ s.peer = seg.peer /\ AckOpens(s, seg)
     /\ o.srv = Opened(s) /\ o.taken = 0
  \/ /\ s.state \notin {"LISTEN", "SYN_RCVD"} /\ s.peer = seg.peer /\ seg.len > 0 /\ seg.seq = s.ack
     /\ o.srv = Taken(s, seg) /\ o.taken = seg.len

LEMMA PollComesTo ==
  ASSUME NEW s, NEW seg, NEW reply, NEW o, o = ServerPoll(s, seg, reply)
  PROVE  Polled(s, seg, o)
  <1> DEFINE a == Accepted(s, seg)
  <1> DEFINE p == Opened(s)
  <1> DEFINE t == Taken(s, seg)
  <1>1. o = IF s.state = "LISTEN"
            THEN IF "SYN" \notin seg.flags THEN Outcome(s, "none", 0)
                 ELSE IF reply THEN Outcome(a, "syn", 0) ELSE Outcome(ResetPeer(a), "error", 0)
            ELSE IF ~(s.peer = seg.peer) THEN Outcome(s, "none", 0)
            ELSE IF "RST" \in seg.flags THEN Outcome(ResetPeer(s), "reset", 0)
            ELSE IF s.state = "SYN_RCVD"
            THEN IF "SYN" \in seg.flags /\ "ACK" \notin seg.flags THEN Outcome(s, "syn", 0)
                 ELSE IF "ACK" \in seg.flags /\ AckOpens(s, seg) THEN Outcome(p, "open", 0)
                 ELSE Outcome(s, "none", 0)
            ELSE IF "FIN" \in seg.flags THEN Outcome(ResetPeer(s), "fin", 0)
                 ELSE IF seg.len > 0 /\ seg.seq = s.ack THEN Outcome(t, "data", seg.len)
                 ELSE Outcome(s, "ack", 0)
    BY ONLY o = ServerPoll(s, seg, reply), Zenon
       DEF ServerPoll, AcceptSyn, PeerMatches, CompleteHandshake, TakeData, Accepted, Opened, Taken, AckOpens
  <1> HIDE DEF a, p, t
  <1>2. \A r, code, n : Outcome(r, code, n).srv = r /\ Outcome(r, code, n).taken = n
    BY DEF Outcome
  <1>3. \/ o.srv = s /\ o.taken = 0
        \/ o.srv = ResetPeer(s) /\ o.taken = 0
        \/ s.state = "LISTEN" /\ "SYN" \in seg.flags /\ o.srv = a /\ o.taken = 0
        \/ s.state = "LISTEN" /\ o.srv = ResetPeer(a) /\ o.taken = 0
        \/ /\ s.state = "SYN_RCVD" /\ s.peer = seg.peer /\ AckOpens(s, seg)
           /\ o.srv = p /\ o.taken = 0
        \/ /\ s.state \notin {"LISTEN", "SYN_RCVD"} /\ s.peer = seg.peer /\ seg.len > 0 /\ seg.seq = s.ack
           /\ o.srv = t /\ o.taken = seg.len
    BY ONLY <1>1, <1>2
  <1>4. QED
    BY ONLY <1>3, Zenon DEF a, p, t, Polled

\* A connection that was accepted and not opened.
HalfOpen(s, seg, a) ==
  /\ a \in TcpServers /\ a.peer = seg.peer /\ a.seq = 0 /\ (seg.seq = 0 => a.ack = 1) /\ a.state = "SYN_RCVD"
  /\ a.enabled = s.enabled /\ a.connections # s.connections

LEMMA AcceptedIs ==
  ASSUME NEW s \in TcpServers, NEW seg, seg.peer \in Peers, seg.seq \in Nat, NEW a, a = Accepted(s, seg)
  PROVE  HalfOpen(s, seg, a)
  <1>1. PICK m, n : m = seg.seq + 1 /\ n = s.connections + 1
    OBVIOUS
  <1>2. m \in Nat /\ n \in Nat
    BY <1>1 DEF TcpServers
  <1>3. a = [s EXCEPT !.peer = seg.peer, !.seq = 0, !.ack = m, !.connections = n, !.state = "SYN_RCVD"]
    BY ONLY <1>1, a = Accepted(s, seg), Zenon DEF Accepted
  <1>4. (seg.seq = 0 => m = 1) /\ n # s.connections
    BY ONLY <1>1, s \in TcpServers DEF TcpServers
  <1>5. QED
    BY ONLY <1>2, <1>3, <1>4, s \in TcpServers, seg.peer \in Peers DEF TcpServers, HalfOpen

LEMMA OpenedIs ==
  ASSUME NEW s \in TcpServers, NEW a, a = Opened(s)
  PROVE  /\ a \in TcpServers /\ a.peer = s.peer /\ a.ack = s.ack /\ a.state = "ESTABLISHED"
         /\ a.enabled = s.enabled /\ a.connections = s.connections
  <1>1. PICK m : m = s.seq + 1
    OBVIOUS
  <1>2. m \in Nat
    BY <1>1 DEF TcpServers
  <1>3. a = [s EXCEPT !.seq = m, !.state = "ESTABLISHED"]
    BY ONLY <1>1, a = Opened(s), Zenon DEF Opened
  <1>4. QED
    BY ONLY <1>2, <1>3, s \in TcpServers DEF TcpServers

LEMMA TakenIs ==
  ASSUME NEW s \in TcpServers, NEW seg, seg.len \in Nat, NEW a, a = Taken(s, seg)
  PROVE  /\ a \in TcpServers /\ a.peer = s.peer /\ a.ack = s.ack + seg.len /\ a.state = s.state
         /\ a.enabled = s.enabled /\ a.connections = s.connections
  <1>1. PICK m : m = s.ack + seg.len
    OBVIOUS
  <1>2. m \in Nat
    BY <1>1 DEF TcpServers
  <1>3. a = [s EXCEPT !.ack = m]
    BY ONLY <1>1, a = Taken(s, seg), Zenon DEF Taken
  <1>4. QED
    BY ONLY <1>1, <1>2, <1>3, s \in TcpServers DEF TcpServers

\* ssh_refresh_state after a connection was counted.
LEMMA RefreshedIs ==
  ASSUME NEW h \in Hosts, h.srv.connections # h.svc.seen, NEW g, g = RefreshState(h)
  PROVE  /\ g \in Hosts /\ g.srv = h.srv /\ g.ssh.tx_off <= g.ssh.tx_len
         /\ g.svc.seen = h.srv.connections /\ g.svc.enabled = h.svc.enabled /\ Untouched(g)
  <1>1. PICK n, v : /\ n = h.srv.connections
                    /\ v = [h.svc EXCEPT !.seen = n, !.idle = 0, !.close_polls = 0, !.banner_sent = FALSE,
                                         !.client_banner_seen = FALSE]
    OBVIOUS
  <1>2. h.svc \in SshServices /\ n \in Nat /\ 0 \in 0 .. IdleTimeout + 1 /\ 0 \in 0 .. ClosePolls
    BY <1>1, SshConstants DEF Hosts, TcpServers
  <1>3. /\ v \in SshServices /\ v.seen = n /\ v.enabled = h.svc.enabled /\ v.banner_sent = FALSE
        /\ v.client_banner_seen = FALSE /\ v.close_polls = 0
    BY ONLY <1>1, <1>2 DEF SshServices
  <1>4. PICK f : f = ResetNegotiation(h)
    OBVIOUS
  <1>5. f = [h EXCEPT !.ssh = Negotiation0]
    BY <1>4 DEF ResetNegotiation
  <1>6. f \in Hosts /\ f.srv = h.srv /\ f.svc = h.svc /\ f.ssh = Negotiation0
    BY ONLY h \in Hosts, <1>5, NegotiationStarts, SshWritten
  <1>7. g = [f EXCEPT !.svc.seen = n, !.svc.idle = 0, !.svc.close_polls = 0,
                      !.svc.banner_sent = FALSE, !.svc.client_banner_seen = FALSE]
    BY ONLY <1>1, <1>4, h.srv.connections # h.svc.seen, g = RefreshState(h), Zenon DEF RefreshState
  <1>8. v = [f.svc EXCEPT !.seen = n, !.idle = 0, !.close_polls = 0, !.banner_sent = FALSE,
                          !.client_banner_seen = FALSE]
    BY ONLY <1>1, <1>6, Zenon
  <1>9. g = [f EXCEPT !.svc = v]
    BY ONLY <1>6, <1>7, <1>8 DEF Hosts
  <1>10. g \in Hosts /\ g.srv = f.srv /\ g.ssh = f.ssh /\ g.svc = v
    BY ONLY <1>3, <1>6, <1>9, ServiceWritten
  <1>11. Untouched(g)
    BY ONLY <1>3, <1>6, <1>10 DEF Untouched
  <1>12. g.ssh.tx_off <= g.ssh.tx_len
    BY ONLY <1>6, <1>10, NegotiationStarts
  <1>13. QED
    BY ONLY <1>1, <1>3, <1>6, <1>10, <1>11, <1>12

\* The flags of a new negotiation.
LEMMA NegotiationIs ==
  /\ Negotiation0.server_kexinit_sent = FALSE /\ Negotiation0.client_kexinit_seen = FALSE /\ Negotiation0.algorithms = FALSE
  /\ Negotiation0.ecdh_ready = FALSE /\ Negotiation0.ecdh_reply_sent = FALSE /\ Negotiation0.newkeys_sent = FALSE
  /\ Negotiation0.client_newkeys_seen = FALSE /\ Negotiation0.in_encrypted = FALSE /\ Negotiation0.out_encrypted = FALSE
  /\ Negotiation0.service_accept = FALSE /\ Negotiation0.service_accept_sent = FALSE /\ Negotiation0.auth_failure = FALSE
  /\ Negotiation0.auth_success = FALSE /\ Negotiation0.open_confirm = FALSE /\ Negotiation0.success = FALSE /\ Negotiation0.failure = FALSE
  /\ Negotiation0.data = FALSE /\ Negotiation0.exit_status = FALSE /\ Negotiation0.close = FALSE /\ Negotiation0.close_sent = FALSE
  /\ Negotiation0.seq_in = 0 /\ Negotiation0.seq_out = 0 /\ Negotiation0.ctr_s2c = 0
  /\ Negotiation0.binary_rx = <<>> /\ Negotiation0.encrypted_rx = <<>>
  BY DEF Negotiation0

\* A session that has just begun, and a client that has written nothing.
LEMMA SessionBegins ==
  ASSUME NEW h \in Hosts, NEW w, Untouched(h), h.srv.ack = 1, w.sent = <<>>
  PROVE  SessionInv(h, w) /\ ClientKnows(h, w, <<>>)
  <1>1. h.ssh = Negotiation0 /\ h.svc.banner_sent = FALSE /\ h.svc.client_banner_seen = FALSE
    <2>1. h.svc \in SshServices
      BY DEF Hosts
    <2>2. h.svc.banner_sent \in BOOLEAN /\ h.svc.client_banner_seen \in BOOLEAN
      BY ONLY <2>1 DEF SshServices
    <2>3. QED
      BY <2>2 DEF Untouched
  <1>2. PICK s : s = h.ssh
    OBVIOUS
  <1>3. /\ s.server_kexinit_sent = FALSE /\ s.client_kexinit_seen = FALSE /\ s.algorithms = FALSE
        /\ s.ecdh_ready = FALSE /\ s.ecdh_reply_sent = FALSE /\ s.newkeys_sent = FALSE
        /\ s.client_newkeys_seen = FALSE /\ s.in_encrypted = FALSE /\ s.out_encrypted = FALSE
        /\ s.service_accept = FALSE /\ s.service_accept_sent = FALSE /\ s.auth_failure = FALSE
        /\ s.auth_success = FALSE /\ s.open_confirm = FALSE /\ s.success = FALSE /\ s.failure = FALSE
        /\ s.data = FALSE /\ s.exit_status = FALSE /\ s.close = FALSE /\ s.close_sent = FALSE
        /\ s.seq_in = 0 /\ s.seq_out = 0 /\ s.ctr_s2c = 0
        /\ s.binary_rx = <<>> /\ s.encrypted_rx = <<>>
    BY ONLY <1>1, <1>2, NegotiationIs
  <1>4. DOMAIN w.sent = {} /\ Len(w.sent) = 0
    BY ONLY w.sent = <<>>
  <1>5. KeysInOrder(h)
    <2>1. ~Answering(h.ssh)
      BY ONLY <1>2, <1>3 DEF Answering
    <2>2. ~(h.ssh.seq_in > 0) /\ h.ssh.out_encrypted = h.ssh.newkeys_sent /\ h.ssh.in_encrypted = h.ssh.client_newkeys_seen
      <3>1. ~(h.ssh.seq_in > 0)
        BY ONLY <1>2, <1>3
      <3>2. QED
        BY ONLY <1>2, <1>3, <3>1, Zenon
    <2>3. ~h.ssh.newkeys_sent /\ ~h.ssh.ecdh_reply_sent /\ ~h.ssh.ecdh_ready /\ ~h.ssh.service_accept
      BY ONLY <1>2, <1>3
    <2>4. QED
      BY ONLY <2>1, <2>2, <2>3, Zenon DEF KeysInOrder
  <1>6. \A kind : ~SentSome(w.sent, kind)
    BY ONLY <1>4 DEF SentSome
  <1>7. CountersAgree(h, w.sent)
    <2>1. {j \in DOMAIN w.sent : w.sent[j].ctr > 0} = {}
      BY ONLY <1>4
    <2>2. Cardinality({j \in DOMAIN w.sent : w.sent[j].ctr > 0}) = 0
      BY ONLY <2>1, FS_EmptySet
    <2>3. (w.sent # <<>>) = FALSE /\ SentSome(w.sent, "NEWKEYS") = FALSE
      <3>1. SentSome(w.sent, "NEWKEYS") \in BOOLEAN
        BY DEF SentSome
      <3>2. QED
        BY ONLY <1>6, <3>1, w.sent = <<>>
    <2>4. h.svc.banner_sent = (w.sent # <<>>) /\ h.ssh.out_encrypted = SentSome(w.sent, "NEWKEYS")
      BY ONLY <1>1, <1>2, <1>3, <2>3, Zenon
    <2>5. h.ssh.seq_out = 0 /\ h.ssh.ctr_s2c = 0
      BY ONLY <1>2, <1>3
    <2>6. QED
      BY ONLY <1>6, <2>2, <2>4, <2>5, w.sent = <<>>, Zenon DEF CountersAgree
  <1>8. HeldInOrder(h)
    BY ONLY <1>1, <1>2, <1>3, h.srv.ack = 1 DEF HeldInOrder
  <1>9. PICK out : out = <<>>
    OBVIOUS
  <1>10. DOMAIN out = {} /\ Len(out) = 0
    BY ONLY <1>9
  <1>11. \A kind : ~Took(h, out, kind) /\ ~WroteSome(out, kind)
    BY ONLY <1>10 DEF Took, WroteSome
  <1>12. WrittenInOrder(out)
    BY ONLY <1>10 DEF WrittenInOrder
  <1>13. AskedFor(h, w, out)
    <2>1. ~(h.ssh.seq_in > 0)
      BY ONLY <1>2, <1>3
    <2>2. h.ssh.in_encrypted = Took(h, out, "NEWKEYS")
      <3>1. h.ssh.in_encrypted = FALSE
        BY ONLY <1>2, <1>3
      <3>2. Took(h, out, "NEWKEYS") = FALSE
        BY ONLY <1>10 DEF Took
      <3>3. QED
        BY ONLY <3>1, <3>2, Zenon
    <2>3. QED
      BY ONLY <1>2, <1>3, <1>6, <1>11, <2>1, <2>2, Zenon DEF AskedFor
  <1>14. EndsOnce(h, w.sent, out)
    BY ONLY <1>2, <1>3, <1>6, <1>11, Zenon DEF EndsOnce
  <1>15. h.srv.ack <= 2 * Len(out) + 1
    BY ONLY <1>10, h.srv.ack = 1
  <1>16. QED
    BY ONLY <1>5, <1>7, <1>8, <1>9, <1>12, <1>13, <1>14, <1>15, Zenon DEF SessionInv, ClientKnows

\* A server that has acknowledged more.
LEMMA AckMoves ==
  ASSUME NEW h, NEW g, g.ssh = h.ssh, g.svc = h.svc, NEW w, NEW out, g.srv.ack <= 2 * Len(out) + 1
  PROVE  /\ KeysInOrder(h) => KeysInOrder(g)
         /\ CountersAgree(h, w.sent) => CountersAgree(g, w.sent)
         /\ HeldInOrder(h) => HeldAt(g, h.srv.ack)
         /\ ClientKnows(h, w, out) => ClientKnows(g, w, out)
  <1>1. KeysInOrder(h) => KeysInOrder(g)
    BY ONLY g.ssh = h.ssh, g.svc = h.svc, Zenon DEF KeysInOrder, Answering
  <1>2. CountersAgree(h, w.sent) => CountersAgree(g, w.sent)
    BY ONLY g.ssh = h.ssh, g.svc = h.svc, Zenon DEF CountersAgree
  <1>3. HeldInOrder(h) => HeldAt(g, h.srv.ack)
    <2>1. HeldAt(h, h.srv.ack) => HeldAt(g, h.srv.ack)
      BY ONLY g.ssh = h.ssh, g.svc = h.svc, Zenon DEF HeldAt
    <2>2. QED
      BY <2>1, HeldIs
  <1>4. \A kind : Took(g, out, kind) <=> Took(h, out, kind)
    BY ONLY g.ssh = h.ssh DEF Took
  <1>5. Due(g) = Due(h)
    BY ONLY g.ssh = h.ssh, g.svc = h.svc, Zenon DEF Due
  <1>6. Silent(h) <=> Silent(g)
    BY ONLY <1>5, Zenon DEF Silent
  <1>7. AskedFor(h, w, out) => AskedFor(g, w, out)
    BY ONLY g.ssh = h.ssh, <1>4, Zenon DEF AskedFor, Took
  <1>8. EndsOnce(h, w.sent, out) => EndsOnce(g, w.sent, out)
    BY ONLY g.ssh = h.ssh, <1>4, <1>6 DEF EndsOnce
  <1>9. QED
    BY ONLY <1>1, <1>2, <1>3, <1>7, <1>8, g.srv.ack <= 2 * Len(out) + 1 DEF ClientKnows

LEMMA ServerWritten ==
  ASSUME NEW h \in Hosts, NEW s \in TcpServers, NEW g, g = [h EXCEPT !.srv = s]
  PROVE  g \in Hosts /\ g.srv = s /\ g.ssh = h.ssh /\ g.svc = h.svc
  BY DEF Hosts

\* The poll of TCP drops the connection, or refuses it before it is one.
LEMMA DroppedKeeps ==
  ASSUME NEW f, Sound(f, wire, cli), f.svc.enabled, NEW s, s = ResetPeer(f.srv),
         NEW g, g = [f EXCEPT !.srv = s]
  PROVE  Sound(RefreshState(g), WireOf(s), cli) /\ RefreshState(g).srv = s
  <1>1. f \in Hosts /\ f.srv \in TcpServers /\ f.srv.enabled /\ f.srv.connections = f.svc.seen
        /\ f.ssh.tx_off <= f.ssh.tx_len
    BY DEF Sound, Attached, Hosts
  <1>2. /\ s \in TcpServers /\ s.peer = NoPeer /\ s.enabled = f.srv.enabled
        /\ s.connections = f.srv.connections /\ s.state = "LISTEN"
    BY <1>1 DEF ResetPeer, TcpServers
  <1>3. g \in Hosts /\ g.srv = s /\ g.ssh = f.ssh /\ g.svc = f.svc
    BY <1>1, <1>2, ServerWritten
  <1>4. Writer(cli)
    BY WriterIs
  <1>5. Sound(g, NoWire, cli)
    <2>1. /\ g.ssh.tx_off <= g.ssh.tx_len /\ g.srv.connections = g.svc.seen /\ g.srv.peer = NoPeer
          /\ g.svc.enabled /\ g.srv.enabled /\ g.srv.state = "LISTEN"
      BY <1>1, <1>2, <1>3
    <2>2. QED
      BY <1>3, <1>4, <2>1, NobodyThere
  <1>6. WireOf(s) = NoWire
    BY <1>2, NobodysWire
  <1>7. RefreshState(g) = g
    BY <1>5, SoundRefreshes
  <1>8. QED
    BY ONLY <1>3, <1>5, <1>6, <1>7, Zenon

\* A SYN is accepted, but the answer does not go out.
LEMMA RefusedKeeps ==
  ASSUME NEW f, Sound(f, wire, cli), f.svc.enabled, NEW seg, Segment(seg),
         NEW s, s = ResetPeer(Accepted(f.srv, seg)), NEW g, g = [f EXCEPT !.srv = s]
  PROVE  Sound(RefreshState(g), WireOf(s), cli) /\ RefreshState(g).srv = s
  <1>1. f \in Hosts /\ f.srv \in TcpServers /\ f.srv.enabled /\ f.srv.connections = f.svc.seen
    BY DEF Sound, Attached, Hosts
  <1>2. PICK a : a = Accepted(f.srv, seg)
    OBVIOUS
  <1>3. a \in TcpServers /\ a.enabled = f.srv.enabled /\ a.connections # f.srv.connections
    BY <1>1, <1>2, AcceptedIs DEF Segment, HalfOpen
  <1>4. s = ResetPeer(a)
    BY ONLY <1>2, s = ResetPeer(Accepted(f.srv, seg)), Zenon
  <1>5. /\ s \in TcpServers /\ s.peer = NoPeer /\ s.enabled /\ s.connections = a.connections /\ s.state = "LISTEN"
    BY ONLY <1>1, <1>3, <1>4 DEF ResetPeer, TcpServers
  <1>6. g \in Hosts /\ g.srv = s /\ g.ssh = f.ssh /\ g.svc = f.svc
    BY <1>1, <1>5, ServerWritten
  <1>7. g.srv.connections # g.svc.seen
    BY <1>1, <1>3, <1>5, <1>6
  <1>8. PICK r : r = RefreshState(g)
    OBVIOUS
  <1>9. /\ r \in Hosts /\ r.srv = s /\ r.ssh.tx_off <= r.ssh.tx_len
        /\ r.svc.seen = s.connections /\ r.svc.enabled
    <2>1. /\ r \in Hosts /\ r.srv = g.srv /\ r.ssh.tx_off <= r.ssh.tx_len
          /\ r.svc.seen = g.srv.connections /\ r.svc.enabled = g.svc.enabled
      BY ONLY <1>6, <1>7, <1>8, RefreshedIs
    <2>2. QED
      BY <1>6, <2>1
  <1>10. Writer(cli)
    BY WriterIs
  <1>11. Sound(r, NoWire, cli)
    <2>1. /\ r.srv.connections = r.svc.seen /\ r.srv.peer = NoPeer
          /\ r.srv.enabled /\ r.srv.state = "LISTEN"
      BY <1>5, <1>9
    <2>2. QED
      BY <1>9, <1>10, <2>1, NobodyThere
  <1>12. WireOf(s) = NoWire
    BY <1>5, NobodysWire
  <1>13. QED
    BY ONLY <1>8, <1>9, <1>11, <1>12, Zenon

\* The wire of a connection that has just been accepted.
LEMMA NewWire ==
  ASSUME wire.peer = NoPeer, NEW s, s.peer \in Peers, NEW w, w = WireOf(s)
  PROVE  /\ w \in Wires /\ w.peer = s.peer /\ w.sent = <<>> /\ w.got = 0 /\ w.opened = FALSE
  <1>1. NoPeer \notin Peers
    BY SshConstants
  <1>2. PICK p : p = s.peer
    OBVIOUS
  <1>3. p \in Peers /\ p # wire.peer
    BY <1>1, <1>2
  <1>4. w = [NoWire EXCEPT !.peer = p]
    BY ONLY <1>2, <1>3, w = WireOf(s), Zenon DEF WireOf
  <1>5. w = [peer |-> p, sent |-> <<>>, got |-> 0, opened |-> FALSE]
    BY ONLY <1>4 DEF NoWire
  <1>6. <<>> \in Seq(SentPackets)
    OBVIOUS
  <1>7. QED
    BY ONLY <1>2, <1>3, <1>5, <1>6 DEF Wires

\* A SYN is accepted and answered: ssh_refresh_state notices it.
LEMMA AcceptedKeeps ==
  ASSUME NEW f, Sound(f, wire, cli), f.svc.enabled, NEW seg, Segment(seg), "SYN" \in seg.flags,
         f.srv.state = "LISTEN", NEW s, s = Accepted(f.srv, seg), NEW g, g = [f EXCEPT !.srv = s]
  PROVE  Sound(RefreshState(g), WireOf(s), cli) /\ RefreshState(g).srv = s
  <1>1. /\ f \in Hosts /\ f.srv \in TcpServers /\ f.srv.enabled /\ f.srv.connections = f.svc.seen
        /\ f.srv.peer = NoPeer /\ wire.peer = NoPeer
    BY DEF Sound, Attached, Hosts
  <1>2. seg.seq = 0 /\ seg.peer \in Peers /\ seg.seq \in Nat
    BY DEF Segment
  <1>3. /\ s \in TcpServers /\ s.peer = seg.peer /\ s.seq = 0 /\ s.ack = 1 /\ s.state = "SYN_RCVD"
        /\ s.enabled = f.srv.enabled /\ s.connections # f.srv.connections
    <2>1. /\ s \in TcpServers /\ s.peer = seg.peer /\ s.seq = 0 /\ (seg.seq = 0 => s.ack = 1) /\ s.state = "SYN_RCVD"
          /\ s.enabled = f.srv.enabled /\ s.connections # f.srv.connections
      <3>1. f.srv \in TcpServers /\ seg.peer \in Peers /\ seg.seq \in Nat /\ s = Accepted(f.srv, seg)
        BY <1>1, <1>2
      <3>2. HalfOpen(f.srv, seg, s)
        BY ONLY <3>1, AcceptedIs
      <3>3. QED
        BY ONLY <3>2, Zenon DEF HalfOpen
    <2>2. QED
      BY ONLY <1>2, <2>1
  <1>4. g \in Hosts /\ g.srv = s /\ g.ssh = f.ssh /\ g.svc = f.svc
    BY <1>1, <1>3, ServerWritten
  <1>5. g.srv.connections # g.svc.seen
    BY <1>1, <1>3, <1>4
  <1>6. PICK r : r = RefreshState(g)
    OBVIOUS
  <1>7. /\ r \in Hosts /\ r.srv = s /\ r.ssh.tx_off <= r.ssh.tx_len
        /\ r.svc.seen = s.connections /\ r.svc.enabled /\ Untouched(r)
    <2>1. /\ r \in Hosts /\ r.srv = g.srv /\ r.ssh.tx_off <= r.ssh.tx_len /\ Untouched(r)
          /\ r.svc.seen = g.srv.connections /\ r.svc.enabled = g.svc.enabled
      BY ONLY <1>4, <1>5, <1>6, RefreshedIs
    <2>2. QED
      BY <1>4, <2>1
  <1>8. PICK w : w = WireOf(s)
    OBVIOUS
  <1>9. w \in Wires /\ w.peer = s.peer /\ w.sent = <<>> /\ w.got = 0 /\ w.opened = FALSE
    BY ONLY <1>1, <1>2, <1>3, <1>8, NewWire
  <1>10. s.peer # NoPeer
    BY ONLY <1>2, <1>3, SshConstants
  <1>11. Attached(r, w)
    BY ONLY <1>1, <1>3, <1>7, <1>9, <1>10 DEF Attached
  <1>12. Fresh(r, w.sent)
    BY <1>7 DEF Fresh
  <1>13. Decodable(w.sent) /\ w.got <= Len(w.sent)
    <2>1. DOMAIN w.sent = {} /\ Len(w.sent) = 0
      BY ONLY <1>9
    <2>2. QED
      BY ONLY <1>9, <2>1 DEF Decodable
  <1>14. ~Talking(w, cli)
    BY <1>9 DEF Talking
  <1>15. Writer(cli)
    BY WriterIs
  <1>16. r.srv.state # "ESTABLISHED"
    BY <1>3, <1>7
  <1>17. Sound(r, w, cli)
    BY ONLY <1>7, <1>9, <1>11, <1>12, <1>13, <1>14, <1>15, <1>16, Zenon DEF Sound, Writer
  <1>18. QED
    BY ONLY <1>6, <1>7, <1>8, <1>17, Zenon

\* The answer of the client opens the connection.
LEMMA OpenedKeeps ==
  ASSUME NEW f, Sound(f, wire, cli), f.svc.enabled, NEW seg, Segment(seg), f.srv.state = "SYN_RCVD",
         NEW n, n = f.srv.seq + 1, seg.ack = n,
         NEW s, s = Opened(f.srv), NEW g, g = [f EXCEPT !.srv = s]
  PROVE  Sound(RefreshState(g), WireOf(s), cli) /\ RefreshState(g).srv = s
  <1>1. /\ f \in Hosts /\ f.srv \in TcpServers /\ f.srv.enabled /\ f.srv.connections = f.svc.seen
        /\ f.srv.peer # NoPeer /\ wire.peer = f.srv.peer /\ f.srv.seq = 0 /\ f.srv.ack = 1
        /\ wire.sent = <<>> /\ Attached(f, wire) /\ Fresh(f, wire.sent) /\ f.ssh.tx_off <= f.ssh.tx_len
    BY DEF Sound, Attached, Hosts
  <1>2. wire.opened
    <2>1. seg.ack = 1
      BY <1>1
    <2>2. seg.ack = (IF wire.opened THEN 1 ELSE 0)
      BY DEF Segment
    <2>3. QED
      BY ONLY <2>1, <2>2
  <1>3. /\ s \in TcpServers /\ s.peer = f.srv.peer /\ s.ack = f.srv.ack /\ s.state = "ESTABLISHED"
        /\ s.enabled = f.srv.enabled /\ s.connections = f.srv.connections
    BY ONLY <1>1, s = Opened(f.srv), OpenedIs
  <1>4. g \in Hosts /\ g.srv = s /\ g.ssh = f.ssh /\ g.svc = f.svc
    BY ONLY <1>1, <1>3, g = [f EXCEPT !.srv = s], ServerWritten
  <1>5. Untouched(f)
    BY <1>1 DEF Fresh
  <1>6. Untouched(g)
    BY ONLY <1>4, <1>5, Zenon DEF Untouched
  <1>7. Attached(g, wire)
    BY ONLY <1>1, <1>2, <1>3, <1>4, f.svc.enabled DEF Attached
  <1>8. SessionInv(g, wire)
    <2>1. g.srv.ack = 1
      BY <1>1, <1>3, <1>4
    <2>2. QED
      BY ONLY <1>1, <1>4, <1>6, <2>1, SessionBegins
  <1>9. Talking(wire, cli) => ClientKnows(g, wire, cli.out)
    <2>1. Alike(f, g)
      BY ONLY <1>3, <1>4, Zenon DEF Alike
    <2>2. Talking(wire, cli) => ClientKnows(f, wire, cli.out)
      BY DEF Sound
    <2>3. QED
      BY <2>1, <2>2, AlikeKeeps
  <1>10. Fresh(g, wire.sent)
    BY <1>6 DEF Fresh
  <1>11. g.ssh.tx_off <= g.ssh.tx_len
    BY ONLY <1>1, <1>4
  <1>12. Sound(g, wire, cli)
    BY ONLY Sound(f, wire, cli), <1>4, <1>7, <1>8, <1>9, <1>10, <1>11, Zenon DEF Sound
  <1>13. WireOf(s) = wire
    BY ONLY <1>1, <1>3, Zenon DEF WireOf
  <1>14. RefreshState(g) = g
    BY <1>12, SoundRefreshes
  <1>15. QED
    BY ONLY <1>4, <1>12, <1>13, <1>14, Zenon

\* The next data of the client is taken.
LEMMA TakenKeeps ==
  ASSUME NEW f, Sound(f, wire, cli), f.svc.enabled, NEW seg, Segment(seg),
         f.srv.state \notin {"LISTEN", "SYN_RCVD"}, f.srv.peer = seg.peer, seg.len > 0, seg.seq = f.srv.ack,
         NEW s, s = Taken(f.srv, seg), NEW g, g = [f EXCEPT !.srv = s],
         NEW c \in Nat, NEW n, n = CaptureClientData(g, UnitsFrom(seg.seq, seg.len), c)
  PROVE  Sound(RefreshState(n), WireOf(s), cli) /\ RefreshState(n).srv = s
  <1>1. /\ f \in Hosts /\ f.srv \in TcpServers /\ f.srv.enabled /\ f.srv.connections = f.svc.seen
        /\ f.srv.state = "ESTABLISHED" /\ wire.peer = f.srv.peer /\ wire.opened
        /\ Attached(f, wire) /\ f.ssh.tx_off <= f.ssh.tx_len
        /\ wire \in Wires /\ cli.out \in Seq(Packets)
    <2>1. f.srv \in TcpServers /\ f.srv.state # "CLOSED" /\ f \in Hosts
      BY DEF Sound, Attached, Hosts
    <2>2. f.srv.state = "ESTABLISHED"
      BY <2>1 DEF TcpServers
    <2>3. cli.out \in Seq(Packets)
      BY DEF Sound, Clients
    <2>4. QED
      BY <2>1, <2>2, <2>3 DEF Sound, Attached
  <1>2. PICK a, l : a = seg.seq /\ l = seg.len
    OBVIOUS
  <1>3. /\ a \in Nat /\ l \in Nat \ {0} /\ seg.peer = cli.peer /\ cli.state \in {"open", "fin"}
        /\ a + l <= 2 * Len(cli.out) + 1
    BY <1>2 DEF Segment
  <1>4. SessionInv(f, wire) /\ ClientKnows(f, wire, cli.out)
    <2>1. Talking(wire, cli)
      BY <1>1, <1>3 DEF Talking
    <2>2. QED
      BY <1>1, <2>1 DEF Sound
  <1>5. /\ s \in TcpServers /\ s.peer = f.srv.peer /\ s.state = f.srv.state
        /\ s.enabled = f.srv.enabled /\ s.connections = f.srv.connections /\ s.ack = a + l
    <2>1. l \in Nat
      BY <1>3
    <2>2. s = [f.srv EXCEPT !.ack = f.srv.ack + l]
      BY ONLY <1>2, s = Taken(f.srv, seg), Zenon DEF Taken
    <2>3. PICK m : m = a + l
      OBVIOUS
    <2>4. m \in Nat
      BY ONLY <1>3, <2>3
    <2>5. s = [f.srv EXCEPT !.ack = m]
      BY ONLY <1>2, <2>2, <2>3, seg.seq = f.srv.ack, Zenon
    <2>6. QED
      BY ONLY <1>1, <2>3, <2>4, <2>5 DEF TcpServers
  <1>6. g \in Hosts /\ g.srv = s /\ g.ssh = f.ssh /\ g.svc = f.svc
    BY ONLY <1>1, <1>5, g = [f EXCEPT !.srv = s], ServerWritten
  <1>7. KeysInOrder(g) /\ CountersAgree(g, wire.sent) /\ HeldAt(g, a) /\ ClientKnows(g, wire, cli.out)
    <2>1. g.srv.ack <= 2 * Len(cli.out) + 1
      BY ONLY <1>3, <1>5, <1>6
    <2>2. HeldAt(g, f.srv.ack)
      BY ONLY <1>4, <1>6, <2>1, AckMoves DEF SessionInv
    <2>3. QED
      BY ONLY <1>2, <1>4, <1>6, <2>1, <2>2, seg.seq = f.srv.ack, AckMoves DEF SessionInv
  <1>8. n = CaptureClientData(g, UnitsFrom(a, l), c)
    BY ONLY <1>2, n = CaptureClientData(g, UnitsFrom(seg.seq, seg.len), c), Zenon
  <1>9. g.srv.ack = a + l /\ g.ssh.tx_off <= g.ssh.tx_len
    BY ONLY <1>1, <1>5, <1>6
  <1>10. /\ n \in Hosts /\ n.ssh.tx_off <= n.ssh.tx_len
         /\ n.srv = g.srv /\ n.svc.seen = g.svc.seen /\ n.svc.enabled = g.svc.enabled
         /\ SessionInv(n, wire) /\ ClientKnows(n, wire, cli.out)
    <2>1. PICK u : u = UnitsFrom(a, l)
      OBVIOUS
    <2>2. n = CaptureClientData(g, u, c)
      BY ONLY <1>8, <2>1, Zenon
    <2>3. QED
      BY ONLY <1>1, <1>3, <1>6, <1>7, <1>9, <2>1, <2>2, c \in Nat, DataCaptured
  <1>11. n.srv = s /\ n.svc.seen = f.svc.seen /\ n.svc.enabled = f.svc.enabled
    BY ONLY <1>6, <1>10, Zenon
  <1>12. Attached(n, wire)
    BY ONLY <1>1, <1>5, <1>11, f.svc.enabled DEF Attached
  <1>13. Fresh(n, wire.sent)
    <2>1. s.ack # 1
      <3>1. a >= 1
        <4>1. CASE g.svc.client_banner_seen
          <5>1. g.ssh.seq_in \in Nat /\ Len(Held(g.ssh)) \in Nat
            <6>1. g.ssh \in Negotiations
              BY <1>6 DEF Hosts
            <6>2. g.ssh.seq_in \in Nat /\ Held(g.ssh) \in Seq(Nat)
              BY <6>1, SshTyped DEF Held
            <6>3. QED
              BY ONLY <6>2
          <5>2. a = 3 + 2 * g.ssh.seq_in + Len(Held(g.ssh))
            BY ONLY <1>7, <4>1 DEF HeldAt
          <5>3. QED
            BY ONLY <5>1, <5>2
        <4>2. CASE ~g.svc.client_banner_seen
          BY ONLY <1>7, <4>2 DEF HeldAt
        <4>3. QED
          BY <4>1, <4>2
      <3>2. QED
        BY ONLY <1>3, <1>5, <3>1
    <2>2. QED
      BY ONLY <1>1, <1>5, <1>11, <2>1 DEF Fresh
  <1>14. Sound(n, wire, cli)
    BY ONLY Sound(f, wire, cli), <1>10, <1>12, <1>13, Zenon DEF Sound
  <1>15. WireOf(s) = wire
    BY ONLY <1>1, <1>5, Zenon DEF WireOf
  <1>16. RefreshState(n) = n
    BY <1>14, SoundRefreshes
  <1>17. QED
    BY ONLY <1>11, <1>14, <1>15, <1>16, Zenon

\* A poll that takes a segment: the handshake, the data, and the packets they complete.
LEMMA ReceiveKeeps ==
  ASSUME Sound(host, wire, cli), PollReceive
  PROVE  Sound(host', wire', cli')
  <1>1. PICK f : f = Waiting(host)
    OBVIOUS
  <1>2. Woken = host
    BY WokenIs DEF PollReceive
  <1>3. PICK seg \in InFlight, reply \in BOOLEAN, c \in 0 .. MaxChunks :
          LET h == Waiting(Woken)
              o == ServerPoll(h.srv, seg, reply)
              units == [i \in 1 .. o.taken |-> seg.seq + i - 1]
              g == [h EXCEPT !.srv = o.srv]
          IN  /\ host.svc.enabled
              /\ host' = RefreshState(IF o.taken > 0 THEN CaptureClientData(g, units, c) ELSE g)
              /\ wire' = WireOf(host'.srv)
              /\ cli' = cli
    BY Zenon DEF PollReceive
  <1>4. PICK o, g : o = ServerPoll(f.srv, seg, reply) /\ g = [f EXCEPT !.srv = o.srv]
    OBVIOUS
  <1>5. /\ host' = RefreshState(IF o.taken > 0 THEN CaptureClientData(g, UnitsFrom(seg.seq, o.taken), c) ELSE g)
        /\ wire' = WireOf(host'.srv) /\ cli' = cli /\ host.svc.enabled
    BY ONLY <1>1, <1>2, <1>3, <1>4, Zenon DEF UnitsFrom
  <1>6. /\ Sound(f, wire, cli) /\ f.svc.enabled
    BY <1>1, <1>5, WaitingIs, WaitingSound
  <1>7. Segment(seg)
    BY SegmentIs
  <1>8. c \in Nat
    BY SshConstants
  <1> SUFFICES \E n : host' = RefreshState(n) /\ Sound(RefreshState(n), WireOf(o.srv), cli) /\ RefreshState(n).srv = o.srv
    BY <1>5, Zenon
  <1>9. o.taken = 0 => host' = RefreshState(g)
    BY <1>5
  <1>10. CASE o.srv = f.srv /\ o.taken = 0
    <2>1. f \in Hosts /\ wire.peer = f.srv.peer
      BY <1>6 DEF Sound, Attached
    <2>2. g = f
      BY ONLY <1>4, <1>10, <2>1 DEF Hosts
    <2>3. RefreshState(f) = f /\ WireOf(o.srv) = wire
      <3>1. RefreshState(f) = f
        BY <1>6, SoundRefreshes
      <3>2. QED
        BY ONLY <1>10, <2>1, <3>1, Zenon DEF WireOf
    <2>4. QED
      BY ONLY <1>6, <1>9, <1>10, <2>2, <2>3, Zenon
  <1>11. CASE o.srv = ResetPeer(f.srv) /\ o.taken = 0
    BY <1>4, <1>6, <1>9, <1>11, DroppedKeeps
  <1>12. CASE f.srv.state = "LISTEN" /\ "SYN" \in seg.flags /\ o.srv = Accepted(f.srv, seg) /\ o.taken = 0
    BY <1>4, <1>6, <1>7, <1>9, <1>12, AcceptedKeeps
  <1>13. CASE f.srv.state = "LISTEN" /\ o.srv = ResetPeer(Accepted(f.srv, seg)) /\ o.taken = 0
    BY <1>4, <1>6, <1>7, <1>9, <1>13, RefusedKeeps
  <1>14. CASE /\ f.srv.state = "SYN_RCVD" /\ f.srv.peer = seg.peer /\ AckOpens(f.srv, seg)
              /\ o.srv = Opened(f.srv) /\ o.taken = 0
    <2>1. PICK n : n = f.srv.seq + 1 /\ seg.ack = n
      BY <1>14 DEF AckOpens
    <2>2. QED
      BY ONLY <1>4, <1>6, <1>7, <1>9, <1>14, <2>1, OpenedKeeps
  <1>15. CASE /\ f.srv.state \notin {"LISTEN", "SYN_RCVD"} /\ f.srv.peer = seg.peer /\ seg.len > 0
              /\ seg.seq = f.srv.ack /\ o.srv = Taken(f.srv, seg) /\ o.taken = seg.len
    <2>1. PICK n : n = CaptureClientData(g, UnitsFrom(seg.seq, seg.len), c)
      OBVIOUS
    <2>2. host' = RefreshState(n)
      BY ONLY <1>5, <1>15, <2>1
    <2>3. QED
      BY <1>4, <1>6, <1>7, <1>8, <1>15, <2>1, <2>2, TakenKeeps
  <1>16. QED
    <2>1. PICK s, t : s = f.srv /\ t = o
      OBVIOUS
    <2>2. t = ServerPoll(s, seg, reply)
      BY ONLY <1>4, <2>1, Zenon
    <2>3. \/ t.srv = s /\ t.taken = 0
          \/ t.srv = ResetPeer(s) /\ t.taken = 0
          \/ s.state = "LISTEN" /\ "SYN" \in seg.flags /\ t.srv = Accepted(s, seg) /\ t.taken = 0
          \/ s.state = "LISTEN" /\ t.srv = ResetPeer(Accepted(s, seg)) /\ t.taken = 0
          \/ /\ s.state = "SYN_RCVD" /\ s.peer = seg.peer /\ AckOpens(s, seg)
             /\ t.srv = Opened(s) /\ t.taken = 0
          \/ /\ s.state \notin {"LISTEN", "SYN_RCVD"} /\ s.peer = seg.peer /\ seg.len > 0 /\ seg.seq = s.ack
             /\ t.srv = Taken(s, seg) /\ t.taken = seg.len
      <3>1. Polled(s, seg, t)
        BY <2>2, PollComesTo
      <3>2. QED
        BY ONLY <3>1, Zenon DEF Polled
    <2>4. QED
      BY ONLY <1>10, <1>11, <1>12, <1>13, <1>14, <1>15, <2>1, <2>3, Zenon

-----------------------------------------------------------------------------
(* The client.                                                             *)

\* The client has received a packet of this kind.
GotSome(w, kind) == \E i \in 1 .. w.got : w.sent[i].kind = kind

\* What a client that follows the protocol has written and received when it
\* writes m.
Drafted(m, w, out) ==
  /\ m = "BANNER" => out = <<>>
  /\ m \in {"KEXINIT", "KEXINIT_NONE"} => out = <<"BANNER">>
  /\ m = "ECDH" => WroteSome(out, "KEXINIT") /\ ~WroteSome(out, "ECDH")
  /\ m = "NEWKEYS" => /\ WroteSome(out, "ECDH") /\ ~WroteSome(out, "NEWKEYS")
                      /\ SentSome(w.sent, "ECDH_REPLY")
  /\ m = "SERVICE" => WroteSome(out, "NEWKEYS") /\ ~WroteSome(out, "SERVICE")
  /\ m \in {"AUTH_GOOD", "AUTH_BAD"} => WroteSome(out, "SERVICE") /\ ~GotSome(w, "AUTH_SUCCESS")
  /\ m = "OPEN" => WroteSome(out, "SERVICE") /\ ~WroteSome(out, "OPEN") /\ GotSome(w, "AUTH_SUCCESS")
  /\ m \in {"EXEC", "PTY"} => WroteSome(out, "OPEN") /\ Last(out) = "OPEN"
  /\ m = "SHELL" => WroteSome(out, "OPEN") /\ ~WroteSome(out, "EXEC") /\ ~WroteSome(out, "SHELL")
  /\ m \in {"LINE", "EXIT"} => WroteSome(out, "SHELL")
  /\ m = "EOF" => WroteSome(out, "EXEC") \/ WroteSome(out, "SHELL")

LEMMA TookIsWritten ==
  ASSUME NEW h, NEW out, NEW kind, Took(h, out, kind)
  PROVE  WroteSome(out, kind)
  BY DEF Took, WroteSome

LEMMA WroteIs ==
  ASSUME NEW kind
  PROVE  kind \in Wrote <=> WroteSome(cli.out, kind)
  BY DEF Wrote, Range, WroteSome

LEMMA ReceivedIs ==
  ASSUME wire.peer = cli.peer, wire \in Wires, wire.got <= Len(wire.sent), NEW kind
  PROVE  /\ kind \in Received <=> GotSome(wire, kind)
         /\ GotSome(wire, kind) => SentSome(wire.sent, kind)
  <1>1. kind \in Received <=> GotSome(wire, kind)
    BY DEF Received, GotSome
  <1>2. \A i \in 1 .. wire.got : i \in DOMAIN wire.sent
    BY DEF Wires
  <1>3. QED
    BY <1>1, <1>2 DEF GotSome, SentSome

\* What the client may write it has the answers for.
LEMMA MayDraft ==
  ASSUME wire.peer = cli.peer, wire \in Wires, wire.got <= Len(wire.sent), NEW m \in Packets, MayWrite(m),
         NEW h, KeysInOrder(h), CountersAgree(h, wire.sent), AskedFor(h, wire, cli.out)
  PROVE  Drafted(m, wire, cli.out)
  <1>1. \A kind : kind \in Wrote <=> WroteSome(cli.out, kind)
    BY WroteIs
  <1>2. \A kind : /\ kind \in Received <=> GotSome(wire, kind)
                  /\ GotSome(wire, kind) => SentSome(wire.sent, kind)
    BY ReceivedIs
  <1>3. SentSome(wire.sent, "ECDH_REPLY") => WroteSome(cli.out, "ECDH")
    <2>1. SentSome(wire.sent, "ECDH_REPLY") => h.ssh.ecdh_ready
      BY DEF CountersAgree, KeysInOrder
    <2>2. h.ssh.ecdh_ready => WroteSome(cli.out, "ECDH")
      BY TookIsWritten DEF AskedFor
    <2>3. QED
      BY <2>1, <2>2
  <1>4. SentSome(wire.sent, "SERVICE_ACCEPT") \/ SentSome(wire.sent, "AUTH_SUCCESS") => WroteSome(cli.out, "SERVICE")
    BY TookIsWritten DEF AskedFor
  <1>5. SentSome(wire.sent, "OPEN_CONFIRM") => WroteSome(cli.out, "OPEN")
    BY TookIsWritten DEF AskedFor
  <1>6. CASE m = "BANNER"
    <2>1. cli.out = <<>>
      BY <1>6 DEF MayWrite
    <2>2. QED
      BY ONLY <1>6, <2>1 DEF Drafted
  <1>7. CASE m \in {"KEXINIT", "KEXINIT_NONE"}
    <2>1. cli.out = <<"BANNER">>
      BY <1>7 DEF MayWrite
    <2>2. QED
      BY ONLY <1>7, <2>1 DEF Drafted
  <1>8. CASE m = "ECDH"
    <2>1. "KEXINIT" \in Wrote /\ "ECDH" \notin Wrote
      BY <1>8 DEF MayWrite
    <2>2. QED
      BY ONLY <1>1, <1>8, <2>1 DEF Drafted
  <1>9. CASE m = "NEWKEYS"
    <2>1. "ECDH_REPLY" \in Received /\ "NEWKEYS" \notin Wrote
      BY <1>9 DEF MayWrite
    <2>2. QED
      BY ONLY <1>1, <1>2, <1>3, <1>9, <2>1 DEF Drafted
  <1>10. CASE m = "SERVICE"
    <2>1. "NEWKEYS" \in Wrote /\ "SERVICE" \notin Wrote
      BY <1>10 DEF MayWrite
    <2>2. QED
      BY ONLY <1>1, <1>10, <2>1 DEF Drafted
  <1>11. CASE m \in {"AUTH_GOOD", "AUTH_BAD"}
    <2>1. "SERVICE_ACCEPT" \in Received /\ "AUTH_SUCCESS" \notin Received
      BY <1>11 DEF MayWrite
    <2>2. QED
      BY ONLY <1>1, <1>2, <1>4, <1>11, <2>1 DEF Drafted
  <1>12. CASE m = "OPEN"
    <2>1. "AUTH_SUCCESS" \in Received /\ "OPEN" \notin Wrote
      BY <1>12 DEF MayWrite
    <2>2. QED
      BY ONLY <1>1, <1>2, <1>4, <1>12, <2>1 DEF Drafted
  <1>13. CASE m \in {"EXEC", "PTY"}
    <2>1. "OPEN_CONFIRM" \in Received /\ Last(cli.out) = "OPEN"
      BY <1>13 DEF MayWrite
    <2>2. QED
      BY ONLY <1>1, <1>2, <1>5, <1>13, <2>1 DEF Drafted
  <1>14. CASE m = "SHELL"
    <2>1. "OPEN_CONFIRM" \in Received /\ Wrote \cap {"EXEC", "SHELL"} = {}
      BY <1>14 DEF MayWrite
    <2>2. "EXEC" \notin Wrote /\ "SHELL" \notin Wrote
      BY ONLY <2>1
    <2>3. QED
      BY ONLY <1>1, <1>2, <1>5, <1>14, <2>1, <2>2 DEF Drafted
  <1>15. CASE m \in {"LINE", "EXIT"}
    <2>1. "SHELL" \in Wrote
      BY <1>15 DEF MayWrite
    <2>2. QED
      BY ONLY <1>1, <1>15, <2>1 DEF Drafted
  <1>16. CASE m = "EOF"
    <2>1. Wrote \cap {"EXEC", "SHELL"} # {}
      BY <1>16 DEF MayWrite
    <2>2. "EXEC" \in Wrote \/ "SHELL" \in Wrote
      BY ONLY <2>1
    <2>3. QED
      BY ONLY <1>1, <1>16, <2>2 DEF Drafted
  <1>17. QED
    BY ONLY <1>6, <1>7, <1>8, <1>9, <1>10, <1>11, <1>12, <1>13, <1>14, <1>15, <1>16, m \in Packets DEF Packets

\* What follows from the order the client wrote in.
WrittenSteps(out) ==
  /\ \A kind \in {"KEXINIT", "ECDH", "NEWKEYS", "SERVICE", "OPEN", "SHELL", "EXEC"} :
       WroteSome(out, kind) => Len(out) >= 2
  /\ WroteSome(out, "KEXINIT") => out[2] = "KEXINIT"
  /\ WroteSome(out, "NEWKEYS") => WroteSome(out, "ECDH")
  /\ WroteSome(out, "SERVICE") => WroteSome(out, "NEWKEYS")
  /\ WroteSome(out, "OPEN") => WroteSome(out, "SERVICE")
  /\ \A kind \in ChatKinds : WroteSome(out, kind) => WroteSome(out, "OPEN")
  /\ Len(out) = 1 => out = <<"BANNER">>
  /\ Len(out) = 0 => out = <<>>

LEMMA BeforeIsWritten ==
  ASSUME NEW out \in Seq(Packets), NEW i \in DOMAIN out, NEW kind, Before(out, i, kind)
  PROVE  WroteSome(out, kind)
  <1>1. PICK j \in 1 .. i - 1 : out[j] = kind
    BY DEF Before
  <1>2. j \in DOMAIN out
    BY <1>1
  <1>3. QED
    BY <1>1, <1>2 DEF WroteSome

\* The steps a client has taken, in order.
LEMMA WrittenSoFar ==
  ASSUME NEW out \in Seq(Packets), WrittenInOrder(out)
  PROVE  WrittenSteps(out)
  <1>1. PICK n \in Nat : n = Len(out) /\ DOMAIN out = 1 .. n
    OBVIOUS
  <1>2. ASSUME NEW kind \in {"KEXINIT", "ECDH", "NEWKEYS", "SERVICE", "OPEN", "SHELL", "EXEC"},
               WroteSome(out, kind)
        PROVE  n >= 2
    <2>1. PICK i \in 1 .. n : out[i] = kind
      BY <1>1, <1>2 DEF WroteSome
    <2>2. i # 1
      BY <1>1, <2>1 DEF WrittenInOrder
    <2>3. QED
      BY ONLY <2>2, i \in 1 .. n, n \in Nat
  <1>3. WroteSome(out, "KEXINIT") => out[2] = "KEXINIT"
    BY DEF WroteSome, WrittenInOrder
  <1>4. WroteSome(out, "NEWKEYS") => WroteSome(out, "ECDH")
    <2>1. SUFFICES ASSUME NEW i \in DOMAIN out, out[i] = "NEWKEYS" PROVE WroteSome(out, "ECDH")
      BY DEF WroteSome
    <2>2. Before(out, i, "ECDH")
      BY <2>1 DEF WrittenInOrder
    <2>3. QED
      BY <2>2, BeforeIsWritten
  <1>5. ASSUME NEW i \in DOMAIN out, out[i] \notin {"BANNER", "KEXINIT", "KEXINIT_NONE"}
        PROVE  i > 2
    <2>1. i # 1 /\ i # 2
      BY <1>5 DEF WrittenInOrder
    <2>2. QED
      BY ONLY <1>1, <2>1, i \in DOMAIN out
  <1>6. WroteSome(out, "SERVICE") => WroteSome(out, "NEWKEYS")
    <2>1. SUFFICES ASSUME NEW i \in DOMAIN out, out[i] = "SERVICE" PROVE WroteSome(out, "NEWKEYS")
      BY DEF WroteSome
    <2>2. i > 2
      BY <1>5, <2>1
    <2>3. Before(out, i, "NEWKEYS")
      BY <2>1, <2>2 DEF WrittenInOrder
    <2>4. QED
      BY <2>3, BeforeIsWritten
  <1>7. WroteSome(out, "OPEN") => WroteSome(out, "SERVICE")
    <2>1. SUFFICES ASSUME NEW i \in DOMAIN out, out[i] = "OPEN" PROVE WroteSome(out, "SERVICE")
      BY DEF WroteSome
    <2>2. i > 2
      BY <1>5, <2>1
    <2>3. Before(out, i, "SERVICE")
      BY <2>1, <2>2 DEF WrittenInOrder
    <2>4. QED
      BY <2>3, BeforeIsWritten
  <1>8. ASSUME NEW kind \in ChatKinds, WroteSome(out, kind) PROVE WroteSome(out, "OPEN")
    <2>1. PICK i \in DOMAIN out : out[i] = kind
      BY <1>8 DEF WroteSome
    <2>2. Before(out, i, "OPEN")
      BY <2>1 DEF WrittenInOrder
    <2>3. QED
      BY <2>2, BeforeIsWritten
  <1>9. Len(out) = 1 => out = <<"BANNER">>
    <2>1. SUFFICES ASSUME n = 1 PROVE out = <<"BANNER">>
      BY <1>1
    <2>2. 1 \in DOMAIN out
      BY <1>1, <2>1
    <2>3. out[1] = "BANNER"
      BY <2>2 DEF WrittenInOrder
    <2>4. QED
      BY ONLY <1>1, <2>1, <2>3, out \in Seq(Packets)
  <1>10. Len(out) = 0 => out = <<>>
    OBVIOUS
  <1>11. QED
    BY ONLY <1>1, <1>2, <1>3, <1>4, <1>6, <1>7, <1>8, <1>9, <1>10 DEF WrittenSteps

\* The client has written m after q.
Drafts(q, r, m) ==
  /\ r \in Seq(Packets) /\ Len(r) = Len(q) + 1
  /\ \A i \in DOMAIN q : i \in DOMAIN r /\ i <= Len(q) /\ r[i] = q[i]
  /\ r[Len(q) + 1] = m
  /\ \A i \in DOMAIN r : i \in DOMAIN q \/ i = Len(q) + 1

LEMMA DraftIs ==
  ASSUME NEW q \in Seq(Packets), NEW m \in Packets, NEW r, r = Append(q, m)
  PROVE  Drafts(q, r, m)
  BY DEF Drafts

\* Nothing but an exec request follows the opening of a channel it is the
\* first request on.
LEMMA ExecIsFirst ==
  ASSUME NEW out \in Seq(Packets), WrittenInOrder(out), NEW i \in DOMAIN out, out[i] = "EXEC",
         NEW j \in DOMAIN out, out[j] \in ChatKinds
  PROVE  i <= j
  <1>1. SUFFICES ASSUME j < i PROVE FALSE
    <2>1. i \in Int /\ j \in Int
      OBVIOUS
    <2>2. QED
      BY <2>1
  <1>2. out[i - 1] = "OPEN" /\ out[j] # "OPEN"
    BY DEF WrittenInOrder, ChatKinds
  <1>3. j < i - 1
    BY ONLY <1>1, <1>2, out \in Seq(Packets), i \in DOMAIN out, j \in DOMAIN out
  <1>4. Before(out, j, "OPEN")
    BY DEF WrittenInOrder
  <1>5. PICK k : k = i - 1
    OBVIOUS
  <1>6. Before(out, k, "OPEN") /\ k \in DOMAIN out
    <2>1. PICK l \in 1 .. j - 1 : out[l] = "OPEN"
      BY <1>4 DEF Before
    <2>2. l \in 1 .. k - 1 /\ k \in DOMAIN out
      BY ONLY <1>3, <1>5, out \in Seq(Packets), i \in DOMAIN out, j \in DOMAIN out, l \in 1 .. j - 1
    <2>3. QED
      BY ONLY <2>1, <2>2 DEF Before
  <1>7. out[k] = "OPEN"
    BY ONLY <1>2, <1>5
  <1>8. ~Before(out, k, out[k])
    BY ONLY <1>6, <1>7, WrittenInOrder(out) DEF WrittenInOrder
  <1>9. QED
    BY ONLY <1>6, <1>7, <1>8, Zenon

\* After an exec request the client closes, and writes nothing else.
LEMMA ExecIsLast ==
  ASSUME NEW out \in Seq(Packets), WrittenInOrder(out), NEW m \in Packets, NEW w, Drafted(m, w, out),
         WroteSome(out, "OPEN") => GotSome(w, "AUTH_SUCCESS"), WroteSome(out, "EXEC")
  PROVE  m = "EOF"
  <1>1. PICK n \in Nat : n = Len(out) /\ DOMAIN out = 1 .. n
    OBVIOUS
  <1>2. PICK i \in 1 .. n : out[i] = "EXEC"
    BY <1>1 DEF WroteSome
  <1>3. out[i - 1] = "OPEN" /\ \A j \in 1 .. n : j > i => out[j] = "EOF"
    BY <1>1, <1>2 DEF WrittenInOrder
  <1>4. WroteSome(out, "OPEN") /\ WroteSome(out, "SERVICE") /\ WroteSome(out, "NEWKEYS") /\ WroteSome(out, "ECDH")
        /\ n >= 2
    <2>1. "EXEC" \in ChatKinds
      BY DEF ChatKinds
    <2>2. QED
      BY <1>1, <2>1, WrittenSoFar DEF WrittenSteps
  <1>5. GotSome(w, "AUTH_SUCCESS")
    BY <1>4
  <1>6. m \notin {"ECDH", "NEWKEYS", "SERVICE", "AUTH_GOOD", "AUTH_BAD", "OPEN", "SHELL"}
    BY ONLY <1>4, <1>5, WroteSome(out, "EXEC"), Drafted(m, w, out) DEF Drafted
  <1>7. m \notin {"BANNER", "KEXINIT", "KEXINIT_NONE"}
    <2>1. out # <<>> /\ out # <<"BANNER">>
      BY <1>1, <1>4
    <2>2. QED
      BY ONLY <2>1, Drafted(m, w, out) DEF Drafted
  <1>8. m \notin {"EXEC", "PTY"}
    <2>1. Last(out) = out[n]
      BY ONLY <1>1 DEF Last
    <2>2. out[n] \in {"EXEC", "EOF"}
      BY ONLY <1>2, <1>3, i \in 1 .. n, n \in Nat
    <2>3. Last(out) # "OPEN"
      BY ONLY <2>1, <2>2
    <2>4. QED
      BY ONLY <2>3, Drafted(m, w, out) DEF Drafted
  <1>9. m \notin {"LINE", "EXIT"}
    <2>1. SUFFICES ASSUME WroteSome(out, "SHELL") PROVE FALSE
      BY DEF Drafted
    <2>2. PICK j \in 1 .. n : out[j] = "SHELL"
      BY <1>1, <2>1 DEF WroteSome
    <2>3. i <= j
      <3>1. out[j] \in ChatKinds /\ i \in DOMAIN out /\ j \in DOMAIN out
        BY <1>1, <2>2 DEF ChatKinds
      <3>2. QED
        BY <1>2, <3>1, ExecIsFirst
    <2>4. QED
      BY ONLY <1>2, <1>3, <2>2, <2>3, i \in 1 .. n, j \in 1 .. n, n \in Nat
  <1>10. QED
    BY ONLY <1>6, <1>7, <1>8, <1>9, m \in Packets DEF Packets

\* A client that follows the protocol writes in order.
LEMMA DraftInOrder ==
  ASSUME NEW out \in Seq(Packets), WrittenInOrder(out), NEW m \in Packets, NEW w, Drafted(m, w, out),
         WroteSome(out, "OPEN") => GotSome(w, "AUTH_SUCCESS"), NEW r, Drafts(out, r, m)
  PROVE  WrittenInOrder(r)
  <1>1. PICK n \in Nat, e \in Nat : n = Len(out) /\ e = n + 1
    OBVIOUS
  <1>2. /\ DOMAIN out = 1 .. n /\ DOMAIN r = 1 .. e /\ r[e] = m
        /\ \A i \in 1 .. n : r[i] = out[i]
    BY <1>1 DEF Drafts
  <1>3. ASSUME NEW i \in 1 .. e, NEW kind PROVE Before(r, i, kind) <=> Before(out, i, kind)
    <2>1. \A j \in 1 .. i - 1 : j \in 1 .. n
      BY ONLY <1>1, i \in 1 .. e, n \in Nat, e \in Nat
    <2>2. QED
      BY ONLY <1>2, <2>1 DEF Before
  <1>4. ASSUME NEW kind PROVE Before(r, e, kind) <=> WroteSome(out, kind)
    <2>1. 1 .. e - 1 = 1 .. n
      BY ONLY <1>1
    <2>2. QED
      BY ONLY <1>2, <2>1 DEF Before, WroteSome
  <1>5. WrittenSteps(out)
    BY WrittenSoFar
  <1>6. m \notin {"BANNER", "KEXINIT", "KEXINIT_NONE"} => n >= 2
    <2>1. /\ WroteSome(out, "KEXINIT") => n >= 2
          /\ WroteSome(out, "ECDH") => n >= 2
          /\ WroteSome(out, "NEWKEYS") => n >= 2
          /\ WroteSome(out, "SERVICE") => n >= 2
          /\ WroteSome(out, "OPEN") => n >= 2
          /\ WroteSome(out, "SHELL") => n >= 2
          /\ WroteSome(out, "EXEC") => n >= 2
      BY ONLY <1>1, <1>5 DEF WrittenSteps
    <2>2. QED
      BY ONLY <2>1, m \in Packets, Drafted(m, w, out) DEF Packets, Drafted
  <1>7. (m = "BANNER" => n = 0) /\ (m \in {"KEXINIT", "KEXINIT_NONE"} => n = 1)
    <2>1. (m = "BANNER" => out = <<>>) /\ (m \in {"KEXINIT", "KEXINIT_NONE"} => out = <<"BANNER">>)
      BY ONLY Drafted(m, w, out) DEF Drafted
    <2>2. QED
      BY ONLY <1>1, <2>1
  <1>8. (m = "BANNER" <=> e = 1) /\ (m \in {"KEXINIT", "KEXINIT_NONE"} <=> e = 2) /\ (e > 2 <=> m \notin {"BANNER", "KEXINIT", "KEXINIT_NONE"})
    <2>1. m \in {"BANNER"} \/ m \in {"KEXINIT", "KEXINIT_NONE"} \/ m \notin {"BANNER", "KEXINIT", "KEXINIT_NONE"}
      OBVIOUS
    <2>2. CASE m \in {"BANNER"}
      BY ONLY <1>1, <1>7, <2>2
    <2>3. CASE m \in {"KEXINIT", "KEXINIT_NONE"}
      BY ONLY <1>1, <1>7, <2>3
    <2>4. CASE m \notin {"BANNER", "KEXINIT", "KEXINIT_NONE"}
      BY ONLY <1>1, <1>6, <2>4
    <2>5. QED
      BY <2>1, <2>2, <2>3, <2>4
  <1>9. m = "ECDH" => r[2] = "KEXINIT"
    <2>1. m = "ECDH" => out[2] = "KEXINIT" /\ n >= 2
      BY ONLY <1>5, <1>6, Drafted(m, w, out) DEF WrittenSteps, Drafted
    <2>2. n >= 2 => 2 \in 1 .. n
      OBVIOUS
    <2>3. QED
      BY ONLY <1>2, <2>1, <2>2
  <1>10. m = "NEWKEYS" => WroteSome(out, "ECDH")
    BY ONLY Drafted(m, w, out) DEF Drafted
  <1>11. /\ m \in ChatKinds => WroteSome(out, "OPEN")
         /\ e > 2 /\ m \notin {"ECDH", "NEWKEYS"} => WroteSome(out, "NEWKEYS")
         /\ e > 2 /\ m \notin {"ECDH", "NEWKEYS", "SERVICE"} => WroteSome(out, "SERVICE")
    <2>1. WroteSome(out, "SHELL") \/ WroteSome(out, "EXEC") => WroteSome(out, "OPEN")
      BY ONLY <1>5 DEF WrittenSteps, ChatKinds
    <2>2. m \in ChatKinds => WroteSome(out, "OPEN")
      BY ONLY <2>1, Drafted(m, w, out) DEF Drafted, ChatKinds
    <2>3. (WroteSome(out, "SERVICE") => WroteSome(out, "NEWKEYS")) /\ (WroteSome(out, "OPEN") => WroteSome(out, "SERVICE"))
      BY ONLY <1>5 DEF WrittenSteps
    <2>4. m \notin {"BANNER", "KEXINIT", "KEXINIT_NONE", "ECDH", "NEWKEYS", "SERVICE"} => WroteSome(out, "SERVICE")
      <3>1. m \in {"AUTH_GOOD", "AUTH_BAD", "OPEN"} => WroteSome(out, "SERVICE")
        BY ONLY Drafted(m, w, out) DEF Drafted
      <3>2. QED
        BY ONLY <2>2, <2>3, <3>1, m \in Packets DEF Packets, ChatKinds
    <2>5. m = "SERVICE" => WroteSome(out, "NEWKEYS")
      BY ONLY Drafted(m, w, out) DEF Drafted
    <2>6. QED
      BY ONLY <1>8, <2>2, <2>3, <2>4, <2>5
  <1>12. m \in {"ECDH", "NEWKEYS", "SERVICE", "OPEN"} => ~WroteSome(out, m)
    BY ONLY Drafted(m, w, out) DEF Drafted
  <1>13. m = "EXEC" => r[e - 1] = "OPEN"
    <2>1. e - 1 = n /\ Last(out) = out[n]
      BY ONLY <1>1 DEF Last
    <2>2. m = "EXEC" => Last(out) = "OPEN" /\ n \in 1 .. n
      BY ONLY <1>6, Drafted(m, w, out), n \in Nat DEF Drafted
    <2>3. QED
      BY ONLY <1>2, <2>1, <2>2
  <1>14. ASSUME NEW i \in 1 .. n, out[i] = "EXEC" PROVE m = "EOF"
    <2>1. WroteSome(out, "EXEC")
      BY <1>2, <1>14 DEF WroteSome
    <2>2. QED
      BY <2>1, ExecIsLast
  <1>15. SUFFICES ASSUME NEW i \in DOMAIN r
                  PROVE  /\ r[i] = "BANNER" <=> i = 1
                         /\ r[i] \in {"KEXINIT", "KEXINIT_NONE"} <=> i = 2
                         /\ r[i] = "ECDH" => r[2] = "KEXINIT"
                         /\ r[i] = "NEWKEYS" => Before(r, i, "ECDH")
                         /\ i > 2 /\ r[i] \notin {"ECDH", "NEWKEYS"} => Before(r, i, "NEWKEYS")
                         /\ i > 2 /\ r[i] \notin {"ECDH", "NEWKEYS", "SERVICE"} => Before(r, i, "SERVICE")
                         /\ r[i] \in ChatKinds => Before(r, i, "OPEN")
                         /\ r[i] \in {"ECDH", "NEWKEYS", "SERVICE", "OPEN"} => ~Before(r, i, r[i])
                         /\ r[i] = "EXEC" => r[i - 1] = "OPEN" /\ \A j \in DOMAIN r : j > i => r[j] = "EOF"
    BY Zenon DEF WrittenInOrder
  <1>16. CASE i = e
    <2>1. /\ \A kind : Before(r, i, kind) <=> WroteSome(out, kind)
          /\ r[i] = m /\ r[i - 1] = r[e - 1]
      BY ONLY <1>2, <1>4, <1>16
    <2>2. \A j \in DOMAIN r : ~(j > i)
      BY ONLY <1>2, <1>16, i \in DOMAIN r
    <2>3. (r[i] = "BANNER" <=> i = 1) /\ (r[i] \in {"KEXINIT", "KEXINIT_NONE"} <=> i = 2)
      BY ONLY <1>8, <1>16, <2>1
    <2>4. (i > 2) <=> (e > 2)
      BY ONLY <1>16
    <2>5. QED
      BY ONLY <1>9, <1>10, <1>11, <1>12, <1>13, <2>1, <2>2, <2>3, <2>4, Zenon
  <1>17. CASE i # e
    <2>1. i \in 1 .. n
      BY ONLY <1>1, <1>2, <1>17, i \in DOMAIN r
    <2>2. /\ out[i] = "BANNER" <=> i = 1
          /\ out[i] \in {"KEXINIT", "KEXINIT_NONE"} <=> i = 2
          /\ out[i] = "ECDH" => out[2] = "KEXINIT"
          /\ out[i] = "NEWKEYS" => Before(out, i, "ECDH")
          /\ i > 2 /\ out[i] \notin {"ECDH", "NEWKEYS"} => Before(out, i, "NEWKEYS")
          /\ i > 2 /\ out[i] \notin {"ECDH", "NEWKEYS", "SERVICE"} => Before(out, i, "SERVICE")
          /\ out[i] \in ChatKinds => Before(out, i, "OPEN")
          /\ out[i] \in {"ECDH", "NEWKEYS", "SERVICE", "OPEN"} => ~Before(out, i, out[i])
          /\ out[i] = "EXEC" => out[i - 1] = "OPEN" /\ \A j \in 1 .. n : j > i => out[j] = "EOF"
      BY ONLY <1>2, <2>1, WrittenInOrder(out), Zenon DEF WrittenInOrder
    <2>3. r[i] = out[i] /\ \A kind : Before(r, i, kind) <=> Before(out, i, kind)
      BY ONLY <1>2, <1>3, <2>1, i \in DOMAIN r
    <2>4. out[i] = "ECDH" => r[2] = "KEXINIT"
      <3>1. out[i] = "ECDH" => i # 1 /\ out[2] = "KEXINIT"
        BY ONLY <2>2
      <3>2. i # 1 => 2 \in 1 .. n
        BY ONLY <2>1, n \in Nat
      <3>3. QED
        BY ONLY <1>2, <3>1, <3>2
    <2>5. out[i] = "EXEC" => r[i - 1] = "OPEN" /\ \A j \in DOMAIN r : j > i => r[j] = "EOF"
      <3>1. SUFFICES ASSUME out[i] = "EXEC" PROVE r[i - 1] = "OPEN" /\ \A j \in DOMAIN r : j > i => r[j] = "EOF"
        OBVIOUS
      <3>2. i # 1
        BY ONLY <2>2, <3>1
      <3>3. i - 1 \in 1 .. n
        BY ONLY <2>1, <3>2, n \in Nat
      <3>4. r[i - 1] = "OPEN"
        BY ONLY <1>2, <2>2, <3>1, <3>3
      <3>5. m = "EOF"
        BY <1>14, <2>1, <3>1
      <3>6. ASSUME NEW j \in DOMAIN r, j > i PROVE r[j] = "EOF"
        <4>1. j \in 1 .. n \/ j = e
          BY ONLY <1>1, <1>2, j \in DOMAIN r
        <4>2. QED
          BY ONLY <1>2, <2>2, <3>1, <3>5, <3>6, <4>1
      <3>7. QED
        BY <3>4, <3>6
    <2>6. QED
      BY ONLY <2>2, <2>3, <2>4, <2>5, Zenon
  <1>18. QED
    BY <1>16, <1>17

\* A client that can write to its connection writes to a session.
LEMMA TalkingSession ==
  ASSUME NEW h, NEW w, NEW x, Sound(h, w, x), Talking(w, x)
  PROVE  SessionInv(h, w) /\ ClientKnows(h, w, x.out)
  <1>1. /\ h \in Hosts /\ x.peer \in Peers /\ w.peer = x.peer /\ Attached(h, w) /\ Fresh(h, w.sent)
        /\ h.srv.state = "ESTABLISHED" => SessionInv(h, w)
        /\ ClientKnows(h, w, x.out)
    BY DEF Sound, Talking
  <1>2. h.srv.state \in {"SYN_RCVD", "ESTABLISHED"}
    <2>1. h.srv.peer # NoPeer
      BY <1>1, SshConstants DEF Attached
    <2>2. h.srv \in TcpServers
      BY <1>1 DEF Hosts
    <2>3. QED
      BY ONLY <1>1, <2>1, <2>2 DEF Attached, TcpServers
  <1>3. CASE h.srv.state = "SYN_RCVD"
    <2>1. h.srv.ack = 1 /\ w.sent = <<>> /\ Untouched(h)
      BY <1>1, <1>3 DEF Attached, Fresh
    <2>2. SessionInv(h, w)
      BY ONLY <1>1, <2>1, SessionBegins
    <2>3. QED
      BY <1>1, <2>2
  <1>4. QED
    BY <1>1, <1>2, <1>3

\* The server has not taken what the client writes only now.
LEMMA TookDraft ==
  ASSUME NEW h \in Hosts, NEW w, NEW out \in Seq(Packets), NEW m \in Packets, NEW r, Drafts(out, r, m),
         WrittenInOrder(r), HeldInOrder(h), ClientKnows(h, w, out)
  PROVE  /\ \A kind : kind # "BANNER" => (Took(h, r, kind) <=> Took(h, out, kind))
         /\ h.ssh.seq_in > 0 => Len(out) >= 2
  <1>1. PICK n \in Nat, q \in Nat, p \in {h.srv.ack} : n = Len(out) /\ q = h.ssh.seq_in /\ p = h.srv.ack
    BY SshTyped DEF Hosts
  <1>2. h.ssh \in Negotiations
    BY DEF Hosts
  <1>3. p <= 2 * n + 1
    BY ONLY <1>1, ClientKnows(h, w, out) DEF ClientKnows
  <1>4. q = 0 \/ q + 1 <= n
    <2>1. HeldAt(h, p)
      BY <1>1, HeldIs
    <2>2. CASE h.svc.client_banner_seen
      <3>1. PICK l \in Nat : l = Len(Held(h.ssh))
        <4>1. Held(h.ssh) \in Seq(Nat)
          BY <1>2, SshTyped DEF Held
        <4>2. QED
          BY ONLY <4>1
      <3>2. p = 3 + 2 * q + l
        BY ONLY <1>1, <2>1, <2>2, <3>1 DEF HeldAt
      <3>3. QED
        BY ONLY <1>3, <3>2, n \in Nat, q \in Nat, l \in Nat
    <2>3. CASE ~h.svc.client_banner_seen
      BY ONLY <1>1, <2>1, <2>3 DEF HeldAt
    <2>4. QED
      BY <2>2, <2>3
  <1>5. DOMAIN out = 1 .. n /\ DOMAIN r = 1 .. n + 1 /\ r[n + 1] = m /\ \A i \in 1 .. n : r[i] = out[i]
    BY ONLY <1>1, out \in Seq(Packets), Drafts(out, r, m) DEF Drafts
  <1>6. ASSUME NEW kind, kind # "BANNER", Took(h, r, kind) PROVE Took(h, out, kind)
    <2>1. PICK i \in 1 .. n + 1 : i <= q + 1 /\ r[i] = kind
      BY ONLY <1>1, <1>5, <1>6 DEF Took
    <2>2. i # 1
      <3>1. i \in DOMAIN r
        BY <1>5
      <3>2. r[i] = "BANNER" <=> i = 1
        BY ONLY <3>1, WrittenInOrder(r), Zenon DEF WrittenInOrder
      <3>3. QED
        BY ONLY <1>6, <2>1, <3>2
    <2>3. i \in 1 .. n
      BY ONLY <1>4, <2>1, <2>2, n \in Nat, q \in Nat, i \in 1 .. n + 1
    <2>4. QED
      BY ONLY <1>1, <1>5, <2>1, <2>3 DEF Took
  <1>7. ASSUME NEW kind, Took(h, out, kind) PROVE Took(h, r, kind)
    <2>1. PICK i \in 1 .. n : i <= q + 1 /\ out[i] = kind
      BY ONLY <1>1, <1>5, <1>7 DEF Took
    <2>2. i \in 1 .. n + 1
      BY ONLY i \in 1 .. n, n \in Nat
    <2>3. QED
      BY ONLY <1>1, <1>5, <2>1, <2>2 DEF Took
  <1>8. h.ssh.seq_in > 0 => Len(out) >= 2
    BY ONLY <1>1, <1>4
  <1>9. QED
    BY <1>6, <1>7, <1>8

\* What the client writes does not change what the server has done.
LEMMA WrittenKnows ==
  ASSUME NEW h \in Hosts, NEW w \in Wires, w.got <= Len(w.sent), NEW out \in Seq(Packets), NEW m \in Packets, NEW r,
         Drafts(out, r, m), Drafted(m, w, out), SessionInv(h, w), ClientKnows(h, w, out)
  PROVE  ClientKnows(h, w, r)
  <1>1. HeldInOrder(h) /\ WrittenInOrder(out) /\ AskedFor(h, w, out) /\ EndsOnce(h, w.sent, out)
    BY DEF SessionInv, ClientKnows
  <1>2. WroteSome(out, "OPEN") => GotSome(w, "AUTH_SUCCESS")
    BY <1>1 DEF AskedFor, GotSome
  <1>3. WrittenInOrder(r)
    BY <1>1, <1>2, DraftInOrder
  <1>4. /\ \A kind : kind # "BANNER" => (Took(h, r, kind) <=> Took(h, out, kind))
        /\ h.ssh.seq_in > 0 => Len(out) >= 2
    BY <1>1, <1>3, TookDraft
  <1>5. h.srv.ack <= 2 * Len(r) + 1
    <2>1. PICK n \in Nat, p \in {h.srv.ack} : n = Len(out) /\ p = h.srv.ack
      OBVIOUS
    <2>2. p \in Nat
      BY <2>1 DEF Hosts, TcpServers
    <2>3. p <= 2 * n + 1
      BY ONLY <2>1, ClientKnows(h, w, out) DEF ClientKnows
    <2>4. Len(r) = n + 1
      BY <2>1 DEF Drafts
    <2>5. QED
      BY ONLY <2>1, <2>2, <2>3, <2>4
  <1>6. ASSUME NEW kind PROVE WroteSome(r, kind) <=> WroteSome(out, kind) \/ kind = m
    <2>1. DOMAIN out = 1 .. Len(out) /\ Len(out) \in Nat
      OBVIOUS
    <2>2. Len(out) + 1 \in DOMAIN r
      BY <2>1 DEF Drafts
    <2>3. QED
      BY ONLY <2>1, <2>2, Drafts(out, r, m) DEF Drafts, WroteSome
  <1>7. AskedFor(h, w, r)
    <2>1. h.ssh.in_encrypted = Took(h, r, "NEWKEYS")
      <3>1. h.ssh.in_encrypted = Took(h, out, "NEWKEYS")
        BY <1>1 DEF AskedFor
      <3>2. Took(h, out, "NEWKEYS") \in BOOLEAN /\ Took(h, r, "NEWKEYS") \in BOOLEAN
        BY DEF Took
      <3>3. Took(h, r, "NEWKEYS") <=> Took(h, out, "NEWKEYS")
        BY <1>4
      <3>4. QED
        BY ONLY <3>1, <3>2, <3>3
    <2>2. h.ssh.seq_in > 0 => h.ssh.client_kexinit_seen /\ h.ssh.algorithms = (r[2] = "KEXINIT")
      <3>1. h.ssh.seq_in > 0 => h.ssh.client_kexinit_seen /\ h.ssh.algorithms = (out[2] = "KEXINIT")
        BY <1>1 DEF AskedFor
      <3>2. Len(out) >= 2 => r[2] = out[2]
        BY DEF Drafts
      <3>3. QED
        BY ONLY <1>4, <3>1, <3>2, Zenon
    <2>3. WroteSome(r, "NEWKEYS") => SentSome(w.sent, "ECDH_REPLY")
      <3>1. m = "NEWKEYS" => SentSome(w.sent, "ECDH_REPLY")
        BY ONLY Drafted(m, w, out) DEF Drafted
      <3>2. WroteSome(out, "NEWKEYS") => SentSome(w.sent, "ECDH_REPLY")
        BY <1>1 DEF AskedFor
      <3>3. QED
        BY <1>6, <3>1, <3>2
    <2>4. WroteSome(r, "OPEN") => \E i \in 1 .. w.got : w.sent[i].kind = "AUTH_SUCCESS"
      <3>1. m = "OPEN" => GotSome(w, "AUTH_SUCCESS")
        BY ONLY Drafted(m, w, out) DEF Drafted
      <3>2. WroteSome(r, "OPEN") => GotSome(w, "AUTH_SUCCESS")
        BY <1>2, <1>6, <3>1
      <3>3. QED
        BY <3>2 DEF GotSome
    <2>5. \A kind \in {"ECDH", "SERVICE", "OPEN"} : Took(h, r, kind) <=> Took(h, out, kind)
      BY <1>4
    <2>6. /\ h.ssh.ecdh_ready => Took(h, r, "ECDH")
          /\ h.ssh.service_accept \/ h.ssh.service_accept_sent \/ SentSome(w.sent, "SERVICE_ACCEPT")
               => Took(h, r, "SERVICE")
          /\ h.ssh.auth_success \/ SentSome(w.sent, "AUTH_SUCCESS") => Took(h, r, "SERVICE")
          /\ h.ssh.open_confirm \/ SentSome(w.sent, "OPEN_CONFIRM") => Took(h, r, "OPEN")
      <3>1. /\ h.ssh.ecdh_ready => Took(h, out, "ECDH")
            /\ h.ssh.service_accept \/ h.ssh.service_accept_sent \/ SentSome(w.sent, "SERVICE_ACCEPT")
                 => Took(h, out, "SERVICE")
            /\ h.ssh.auth_success \/ SentSome(w.sent, "AUTH_SUCCESS") => Took(h, out, "SERVICE")
            /\ h.ssh.open_confirm \/ SentSome(w.sent, "OPEN_CONFIRM") => Took(h, out, "OPEN")
        BY ONLY <1>1, Zenon DEF AskedFor
      <3>2. QED
        BY ONLY <2>5, <3>1
    <2>7. QED
      BY ONLY <2>1, <2>2, <2>3, <2>4, <2>6, Zenon DEF AskedFor
  <1>8. EndsOnce(h, w.sent, r)
    <2>1. \A kind \in {"EXEC", "EXIT", "EOF"} : Took(h, r, kind) <=> Took(h, out, kind)
      BY <1>4
    <2>2. (Took(h, r, "EXEC") <=> Took(h, out, "EXEC")) /\ (Took(h, r, "EXIT") <=> Took(h, out, "EXIT"))
          /\ (Took(h, r, "EOF") <=> Took(h, out, "EOF"))
      BY ONLY <2>1
    <2>3. QED
      BY ONLY <1>1, <2>2, Zenon DEF EndsOnce
  <1>9. QED
    BY ONLY <1>3, <1>5, <1>7, <1>8 DEF ClientKnows

\* The client writes a packet.
LEMMA WritesKeep ==
  ASSUME Sound(host, wire, cli), ClientWrites
  PROVE  Sound(host', wire', cli')
  <1>1. Chats \subseteq Packets
    BY SshAssumption DEF Packets
  <1>2. PICK m \in Packets : /\ cli.state = "open" /\ MayWrite(m)
                             /\ cli' = [cli EXCEPT !.out = Append(@, m)]
                             /\ host' = host /\ wire' = wire
    BY <1>1 DEF ClientWrites
  <1>3. cli \in Clients /\ cli.out \in Seq(Packets) /\ cli.peer \in Peers
    BY <1>2 DEF Sound, Clients
  <1>4. PICK r : r = Append(cli.out, m)
    OBVIOUS
  <1>5. Drafts(cli.out, r, m)
    BY <1>3, <1>4, DraftIs
  <1>6. PICK x : x = [cli EXCEPT !.out = r]
    OBVIOUS
  <1>7. cli' = x
    BY ONLY <1>2, <1>4, <1>6, Zenon
  <1>8. x \in Clients /\ x.peer = cli.peer /\ x.state = cli.state /\ x.out = r
    <2>1. r \in Seq(Packets)
      BY <1>5 DEF Drafts
    <2>2. QED
      BY ONLY <1>3, <1>6, <2>1 DEF Clients
  <1>9. Talking(wire, x) => ClientKnows(host, wire, r)
    <2>1. SUFFICES ASSUME Talking(wire, x) PROVE ClientKnows(host, wire, r)
      OBVIOUS
    <2>2. Talking(wire, cli)
      BY ONLY <1>8, <2>1 DEF Talking
    <2>3. SessionInv(host, wire) /\ ClientKnows(host, wire, cli.out)
      BY <2>2, TalkingSession
    <2>4. wire.peer = cli.peer /\ wire \in Wires /\ wire.got <= Len(wire.sent) /\ host \in Hosts
      BY <2>2 DEF Sound, Talking
    <2>5. KeysInOrder(host) /\ CountersAgree(host, wire.sent) /\ AskedFor(host, wire, cli.out)
      BY <2>3 DEF SessionInv, ClientKnows
    <2>6. Drafted(m, wire, cli.out)
      BY <1>2, <2>4, <2>5, MayDraft
    <2>7. QED
      BY <1>3, <1>5, <2>3, <2>4, <2>6, WrittenKnows
  <1>10. Sound(host, wire, x)
    BY ONLY Sound(host, wire, cli), <1>2, <1>3, <1>8, <1>9 DEF Sound
  <1>11. QED
    BY ONLY <1>2, <1>7, <1>10, Zenon

\* A client connects.
LEMMA ConnectsKeep ==
  ASSUME Sound(host, wire, cli), ClientConnects
  PROVE  Sound(host', wire', cli')
  <1>1. PICK p \in Peers : cli' = [peer |-> p, state |-> "syn", out |-> <<>>] /\ host' = host /\ wire' = wire
    BY DEF ClientConnects
  <1>2. PICK x : x = [peer |-> p, state |-> "syn", out |-> <<>>]
    OBVIOUS
  <1>3. x \in Clients /\ x.peer \in Peers /\ x.state = "syn" /\ x.out = <<>>
    <2>1. <<>> \in Seq(Packets)
      OBVIOUS
    <2>2. QED
      BY ONLY <1>2, <2>1, p \in Peers DEF Clients
  <1>4. ~Talking(wire, x)
    BY <1>3 DEF Talking
  <1>5. Sound(host, wire, x)
    BY ONLY Sound(host, wire, cli), <1>3, <1>4, Zenon DEF Sound
  <1>6. QED
    BY ONLY <1>1, <1>2, <1>5, Zenon

\* A client takes the answer to its connection.
LEMMA OpensKeep ==
  ASSUME Sound(host, wire, cli), ClientOpens
  PROVE  Sound(host', wire', cli')
  <1>1. /\ cli.state = "syn" /\ host.srv.state = "SYN_RCVD" /\ host.srv.peer = cli.peer
        /\ cli' = [cli EXCEPT !.state = "open"] /\ wire' = [wire EXCEPT !.opened = TRUE]
        /\ host' = host
    BY DEF ClientOpens
  <1>2. /\ cli \in Clients /\ cli.out = <<>> /\ cli.peer \in Peers /\ host \in Hosts /\ wire \in Wires
        /\ Attached(host, wire) /\ Fresh(host, wire.sent) /\ wire.got <= Len(wire.sent) /\ Decodable(wire.sent)
        /\ host.ssh.tx_off <= host.ssh.tx_len
    BY ONLY <1>1, Sound(host, wire, cli) DEF Sound
  <1>3. PICK x, v : x = [cli EXCEPT !.state = "open"] /\ v = [wire EXCEPT !.opened = TRUE]
    OBVIOUS
  <1>4. x \in Clients /\ x.peer = cli.peer /\ x.state = "open" /\ x.out = <<>>
    BY ONLY <1>2, <1>3 DEF Clients
  <1>5. v \in Wires /\ v.peer = wire.peer /\ v.sent = wire.sent /\ v.got = wire.got /\ v.opened = TRUE
    BY ONLY <1>2, <1>3 DEF Wires
  <1>6. host.srv.ack = 1 /\ v.sent = <<>> /\ Untouched(host)
    BY ONLY <1>1, <1>2, <1>5 DEF Attached, Fresh
  <1>7. ClientKnows(host, v, x.out)
    <2>1. ClientKnows(host, v, <<>>)
      BY <1>2, <1>6, SessionBegins
    <2>2. QED
      BY ONLY <1>4, <2>1, Zenon
  <1>8. Attached(host, v)
    <2>1. wire.peer # NoPeer
      BY <1>1, <1>2, SshConstants DEF Attached
    <2>2. QED
      BY ONLY <1>1, <1>2, <1>5, <2>1 DEF Attached
  <1>9. Fresh(host, v.sent)
    BY <1>2, <1>5
  <1>10. host.srv.state # "ESTABLISHED"
    BY <1>1
  <1>11. v.got <= Len(v.sent) /\ Decodable(v.sent)
    BY ONLY <1>2, <1>5, Zenon
  <1>12. Sound(host, v, x)
    BY ONLY <1>2, <1>4, <1>5, <1>7, <1>8, <1>9, <1>10, <1>11, Zenon DEF Sound
  <1>13. QED
    BY ONLY <1>1, <1>3, <1>12, Zenon

\* A client goes away.
LEMMA LeavesKeep ==
  ASSUME Sound(host, wire, cli), ClientLeaves
  PROVE  Sound(host', wire', cli')
  <1>1. host' = host /\ wire' = wire /\ cli \in Clients /\ cli.peer \in Peers
        /\ cli.state \in {"open", "fin", "rst"}
    BY DEF ClientLeaves, Sound
  <1>2. PICK how \in {"fin", "rst", "gone", "ended"}, q \in {cli.out, <<>>} :
          /\ cli' = [cli EXCEPT !.state = how, !.out = q]
          /\ how = "fin" => cli.state = "open" /\ q = cli.out
          /\ how # "fin" => q = <<>>
    <2>1. CASE cli.state = "open" /\ \E how \in {"fin", "rst", "gone"} :
                 cli' = [cli EXCEPT !.state = how, !.out = IF how = "fin" THEN @ ELSE <<>>]
      <3>1. PICK how \in {"fin", "rst", "gone"} :
                 cli' = [cli EXCEPT !.state = how, !.out = IF how = "fin" THEN @ ELSE <<>>]
        BY <2>1
      <3>2. PICK q : q = IF how = "fin" THEN cli.out ELSE <<>>
        OBVIOUS
      <3>3. cli' = [cli EXCEPT !.state = how, !.out = q]
        BY ONLY <3>1, <3>2, Zenon
      <3>4. QED
        BY <2>1, <3>2, <3>3
    <2>2. CASE cli' = [cli EXCEPT !.state = "ended", !.out = <<>>]
      BY <2>2
    <2>3. QED
      BY <2>1, <2>2 DEF ClientLeaves
  <1>3. PICK x : x = [cli EXCEPT !.state = how, !.out = q]
    OBVIOUS
  <1>4. q \in Seq(Packets)
    <2>1. cli.out \in Seq(Packets) /\ <<>> \in Seq(Packets)
      BY <1>1 DEF Clients
    <2>2. QED
      BY <1>2, <2>1
  <1>5. x \in Clients /\ x.peer = cli.peer /\ x.state = how /\ x.out = q
    BY ONLY <1>1, <1>3, <1>4, how \in {"fin", "rst", "gone", "ended"} DEF Clients
  <1>6. Talking(wire, x) => ClientKnows(host, wire, x.out)
    <2>1. SUFFICES ASSUME Talking(wire, x) PROVE ClientKnows(host, wire, x.out)
      OBVIOUS
    <2>2. how = "fin"
      BY ONLY <1>5, <2>1, how \in {"fin", "rst", "gone", "ended"} DEF Talking
    <2>3. cli.state = "open" /\ q = cli.out
      BY <1>2, <2>2
    <2>4. Talking(wire, cli)
      BY ONLY <1>5, <2>1, <2>3 DEF Talking
    <2>5. QED
      BY ONLY <1>5, <2>3, <2>4, Sound(host, wire, cli), Zenon DEF Sound
  <1>7. x.state \notin {"open", "fin"} => x.out = <<>>
    BY <1>2, <1>5
  <1>8. Sound(host, wire, x)
    BY ONLY Sound(host, wire, cli), <1>1, <1>5, <1>6, <1>7, Zenon DEF Sound
  <1>9. QED
    BY ONLY <1>1, <1>2, <1>3, <1>8, Zenon

-----------------------------------------------------------------------------
(* The invariant.                                                          *)

\* The invariant holds at the start.
LEMMA SshStarts ==
  ASSUME SshInit
  PROVE  Sound(host, wire, cli)
  <1>1. host = Host0 /\ wire = NoWire /\ cli = NoClient
    BY DEF SshInit
  <1>2. PICK h : h = Host0
    OBVIOUS
  <1>3. h.srv = NoServer /\ h.svc = Service0 /\ h.ssh = Negotiation0
    BY <1>2 DEF Host0
  <1>4. h \in Hosts
    <2>1. NoServer \in TcpServers
      BY DEF NoServer, TcpServers
    <2>2. Service0 \in SshServices
      BY SshConstants DEF Service0, SshServices
    <2>3. h = [srv |-> NoServer, svc |-> Service0, ssh |-> Negotiation0]
      BY <1>2 DEF Host0
    <2>4. QED
      BY ONLY <2>1, <2>2, <2>3, NegotiationStarts DEF Hosts
  <1>5. h.ssh.tx_off <= h.ssh.tx_len
    BY ONLY <1>3, NegotiationStarts
  <1>6. h.srv.connections = 0 /\ h.svc.seen = 0 /\ h.srv.peer = NoPeer /\ ~h.svc.enabled /\ h.srv.state = "CLOSED"
    BY ONLY <1>3 DEF NoServer, Service0
  <1>7. Writer(cli)
    <2>1. <<>> \in Seq(Packets)
      OBVIOUS
    <2>2. QED
      BY <1>1, <2>1 DEF Writer, NoClient, Clients
  <1>8. Sound(h, NoWire, cli)
    BY <1>4, <1>5, <1>6, <1>7, NobodyThere
  <1>9. QED
    BY ONLY <1>1, <1>2, <1>8, Zenon

\* Every step of the server, of its console and of a client keeps it.
LEMMA SshSteps ==
  ASSUME Sound(host, wire, cli), [SshNext]_sshVars
  PROVE  Sound(host', wire', cli')
  <1>1. CASE UNCHANGED sshVars \/ PollStopped
    BY <1>1 DEF sshVars, PollStopped
  <1>2. CASE PollWatchdog
    BY <1>2, WatchdogKeeps
  <1>3. CASE PollSend
    BY <1>3, SendSound
  <1>4. CASE PollStagedClose
    BY <1>4, StagedCloseKeeps
  <1>5. CASE PollReceive
    BY <1>5, ReceiveKeeps
  <1>6. CASE PollQuiet \/ PollSendFails
    BY <1>6, QuietKeeps
  <1>7. CASE SshTick
    BY <1>7, TickKeeps
  <1>8. CASE Console
    <2>1. CASE SshStart
      BY <2>1, StartKeeps
    <2>2. CASE SshStop
      BY <2>2, StopKeeps
    <2>3. CASE SetPassword \/ ClearLockout
      BY <2>3, PasswordKeeps
    <2>4. CASE DisablePassword
      BY <2>4, DisableKeeps
    <2>5. QED
      BY <1>8, <2>1, <2>2, <2>3, <2>4, Zenon DEF Console
  <1>9. CASE ClientConnects
    BY <1>9, ConnectsKeep
  <1>10. CASE ClientOpens
    BY <1>10, OpensKeep
  <1>11. CASE ClientWrites
    BY <1>11, WritesKeep
  <1>12. CASE ClientLeaves
    BY <1>12, LeavesKeep
  <1>13. QED
    BY <1>1, <1>2, <1>3, <1>4, <1>5, <1>6, <1>7, <1>8, <1>9, <1>10, <1>11, <1>12, Zenon DEF SshNext, Poll

\* The invariant.
SshInv == Sound(host, wire, cli)

\* What the sessions keep, of which the three properties are parts: for any peers,
\* segments, buffers and limits.
THEOREM SshHolds == SshSpec => []SshInv
  <1>1. SshInit => SshInv
    BY SshStarts DEF SshInv
  <1>2. SshInv /\ [SshNext]_sshVars => SshInv'
    BY SshSteps DEF SshInv
  <1>3. QED
    BY <1>1, <1>2, PTL DEF SshSpec

-----------------------------------------------------------------------------
(* The properties.                                                         *)

\* The state of the service is in range.
LEMMA SoundTypes ==
  ASSUME SshInv
  PROVE  SshTypeOK
  <1>1. /\ host \in Hosts /\ host.ssh.tx_off <= host.ssh.tx_len /\ cli \in Clients /\ wire \in Wires
        /\ wire.got <= Len(wire.sent)
    BY DEF SshInv, Sound
  <1>2. host.srv \in TcpServers /\ host.svc \in SshServices /\ host.ssh \in Negotiations
    BY ONLY <1>1 DEF Hosts
  <1>3. DOMAIN host.ssh = DOMAIN Negotiation0
    BY ONLY <1>2, NegotiationStarts DEF Negotiations
  <1>4. DOMAIN host.svc = DOMAIN Service0
    <2> DEFINE F == {"enabled", "seen", "banner_sent", "client_banner_seen", "close_polls", "idle", "auth_configured",
                     "failures", "lockout"}
    <2>1. DOMAIN host.svc = F
      BY ONLY <1>2 DEF SshServices
    <2>2. DOMAIN Service0 = F
      BY ONLY SMT DEF Service0
    <2>3. QED
      BY ONLY <2>1, <2>2, Zenon
  <1>5. /\ host.svc.idle \in 0 .. IdleTimeout + 1 /\ host.svc.close_polls \in 0 .. ClosePolls
        /\ host.svc.failures \in 0 .. MaxAttempts - 1 /\ host.svc.lockout \in 0 .. LockoutTicks
    BY ONLY <1>2 DEF SshServices
  <1>6. 0 <= host.ssh.tx_off /\ host.ssh.tx_len <= TextCap
    <2>1. host.ssh.tx_off \in 0 .. TextCap /\ host.ssh.tx_len \in 0 .. TextCap
      BY <1>2, SshTyped
    <2>2. QED
      BY ONLY <2>1, SshConstants
  <1>7. Range(cli.out) \subseteq Packets
    <2>1. cli.out \in Seq(Packets)
      BY ONLY <1>1 DEF Clients
    <2>2. QED
      BY ONLY <2>1 DEF Range
  <1>8. wire.got \in 0 .. Len(wire.sent)
    <2>1. wire.got \in Nat /\ Len(wire.sent) \in Nat
      BY ONLY <1>1 DEF Wires
    <2>2. QED
      BY ONLY <1>1, <2>1
  <1>9. QED
    BY ONLY <1>1, <1>2, <1>3, <1>4, <1>5, <1>6, <1>7, <1>8 DEF SshTypeOK

\* What is sent can be decoded in order.
LEMMA SoundDecodable ==
  ASSUME SshInv
  PROVE  WireDecodable
  <1>1. Decodable(wire.sent)
    BY DEF SshInv, Sound
  <1>2. QED
    BY ONLY <1>1, Zenon DEF Decodable, WireDecodable

\* What is held and what is acknowledged follow what was processed.
LEMMA SoundStream ==
  ASSUME SshInv
  PROVE  StreamInOrder
  <1>1. SUFFICES ASSUME host.srv.state = "ESTABLISHED", host.svc.client_banner_seen
                 PROVE  LET rx == host.ssh.binary_rx \o host.ssh.encrypted_rx
                            done == IF host.svc.client_banner_seen THEN 2 + 2 * host.ssh.seq_in ELSE 0
                        IN  /\ \A i \in DOMAIN rx : rx[i] = done + i
                            /\ host.srv.ack = done + Len(rx) + 1
    BY DEF StreamInOrder
  <1>2. host.ssh \in Negotiations /\ HeldAt(host, host.srv.ack)
    <2>1. host \in Hosts /\ SessionInv(host, wire)
      BY <1>1 DEF SshInv, Sound
    <2>2. HeldInOrder(host)
      BY <2>1 DEF SessionInv
    <2>3. QED
      BY <2>1, <2>2, HeldIs DEF Hosts
  <1>3. PICK b \in Seq(Nat), e \in Seq(Nat), s \in Nat, rx \in {Held(host.ssh)} :
          /\ b = host.ssh.binary_rx /\ e = host.ssh.encrypted_rx /\ s = host.ssh.seq_in /\ rx = Held(host.ssh)
    BY <1>2, SshTyped
  <1>4. b \o e = rx /\ rx \in Seq(Nat)
    <2>1. CASE host.ssh.in_encrypted
      <3>1. b = <<>> /\ rx = e
        BY ONLY <1>2, <1>3, <2>1 DEF HeldAt, Held
      <3>2. QED
        BY ONLY <3>1, e \in Seq(Nat)
    <2>2. CASE ~host.ssh.in_encrypted
      <3>1. e = <<>> /\ rx = b
        BY ONLY <1>2, <1>3, <2>2 DEF HeldAt, Held
      <3>2. QED
        BY ONLY <3>1, b \in Seq(Nat)
    <2>3. QED
      BY <2>1, <2>2
  <1>5. Follows(rx, s) /\ host.srv.ack = 3 + 2 * s + Len(rx)
    BY ONLY <1>1, <1>2, <1>3 DEF HeldAt
  <1>6. host.ssh.binary_rx \o host.ssh.encrypted_rx = rx
    BY ONLY <1>3, <1>4, Zenon
  <1>7. \A i \in DOMAIN rx : rx[i] = (2 + 2 * host.ssh.seq_in) + i
    BY ONLY <1>3, <1>5 DEF Follows
  <1>8. host.srv.ack = (2 + 2 * host.ssh.seq_in) + Len(rx) + 1
    <2>1. Len(rx) \in Nat
      BY <1>4
    <2>2. QED
      BY ONLY <1>3, <1>5, <2>1
  <1>9. QED
    BY ONLY <1>1, <1>6, <1>7, <1>8

\* A new connection finds a new negotiation.
LEMMA SoundFresh ==
  ASSUME SshInv
  PROVE  FreshConnection
  <1>1. SUFFICES ASSUME host.srv.state = "SYN_RCVD"
                        \/ (host.srv.state = "ESTABLISHED" /\ wire.sent = <<>> /\ host.srv.ack = 1)
                 PROVE  /\ [host.ssh EXCEPT !.authenticated = FALSE] = Negotiation0
                        /\ ~host.ssh.authenticated
                        /\ ~host.svc.banner_sent /\ ~host.svc.client_banner_seen /\ host.svc.close_polls = 0
    BY DEF FreshConnection
  <1>2. Untouched(host)
    BY <1>1 DEF SshInv, Sound, Fresh
  <1>3. host.ssh = Negotiation0 /\ ~host.svc.banner_sent /\ ~host.svc.client_banner_seen /\ host.svc.close_polls = 0
    BY ONLY <1>2 DEF Untouched
  <1>4. [Negotiation0 EXCEPT !.authenticated = FALSE] = Negotiation0 /\ ~Negotiation0.authenticated
    <2> DEFINE s == Negotiation0
    <2>1. s.authenticated = FALSE
      BY DEF Negotiation0
    <2>2. s = [x \in DOMAIN s |-> s[x]]
      BY DEF Negotiation0
    <2>3. \A x \in DOMAIN s : [s EXCEPT !.authenticated = FALSE][x] = s[x]
      <3> HIDE DEF s
      <3>1. QED
        BY ONLY <2>1
    <2>4. [s EXCEPT !.authenticated = FALSE] = s
      <3> HIDE DEF s
      <3>1. QED
        BY ONLY <2>2, <2>3
    <2>5. QED
      BY ONLY <2>1, <2>4, Zenon
  <1>5. QED
    BY ONLY <1>3, <1>4, Zenon

\* The client that wrote an exec request is talking to the session it gets
\* its answer from.
LEMMA SoundAnswer ==
  ASSUME SshInv
  PROVE  ExecAnswerOrder
  <1>1. SUFFICES ASSUME NEW i \in DOMAIN wire.sent, NEW j \in DOMAIN wire.sent, i < j, wire.peer = cli.peer,
                        "EXEC" \in Range(cli.out)
                 PROVE  /\ wire.sent[i].kind = "EXIT_STATUS" => wire.sent[j].kind = "CLOSE"
                        /\ wire.sent[i].kind # "CLOSE"
    BY DEF ExecAnswerOrder
  <1>2. /\ host \in Hosts /\ wire \in Wires /\ cli \in Clients /\ Attached(host, wire)
        /\ (cli.state \notin {"open", "fin"} => cli.out = <<>>) /\ (cli.state # "none" => cli.peer \in Peers)
        /\ (Talking(wire, cli) => ClientKnows(host, wire, cli.out))
    BY DEF SshInv, Sound
  <1>3. PICK e \in DOMAIN cli.out : cli.out[e] = "EXEC"
    BY <1>1 DEF Range
  <1>4. cli.state \in {"open", "fin"} /\ cli.peer \in Peers
    <2>1. cli.out # <<>>
      BY <1>3
    <2>2. QED
      BY <1>2, <2>1
  <1>5. host.srv.state = "ESTABLISHED"
    <2>1. host.srv.peer # NoPeer
      BY <1>1, <1>2, <1>4, SshConstants DEF Attached
    <2>2. wire.sent # <<>>
      BY <1>1
    <2>3. host.srv \in TcpServers
      BY <1>2 DEF Hosts
    <2>4. QED
      BY ONLY <1>2, <2>1, <2>2, <2>3 DEF Attached, TcpServers
  <1>6. ClientKnows(host, wire, cli.out)
    BY <1>1, <1>2, <1>4, <1>5 DEF Attached, Talking
  <1>7. WrittenInOrder(cli.out) /\ EndsOnce(host, wire.sent, cli.out) /\ cli.out \in Seq(Packets)
    BY <1>2, <1>6 DEF ClientKnows, Clients
  <1>8. ASSUME NEW kind \in {"EXEC", "EXIT", "EOF"}, Took(host, cli.out, kind) PROVE Took(host, cli.out, "EXEC")
    <2>1. PICK k \in DOMAIN cli.out : k <= host.ssh.seq_in + 1 /\ cli.out[k] = kind
      BY <1>8 DEF Took
    <2>2. e <= k
      <3>1. cli.out[k] \in ChatKinds
        BY <2>1 DEF ChatKinds
      <3>2. QED
        BY <1>3, <1>7, <3>1, ExecIsFirst
    <2>3. e <= host.ssh.seq_in + 1
      <3>1. host.ssh.seq_in \in Nat
        BY <1>2, SshTyped DEF Hosts
      <3>2. QED
        BY ONLY <1>7, <2>1, <2>2, <3>1, e \in DOMAIN cli.out, k \in DOMAIN cli.out
    <2>4. QED
      BY ONLY <1>3, <2>3, e \in DOMAIN cli.out DEF Took
  <1>9. wire.sent[i].kind \in {"EXIT_STATUS", "CLOSE"} => Took(host, cli.out, "EXEC")
    <2>1. wire.sent[i].kind \in {"EXIT_STATUS", "CLOSE"}
            => SentSome(wire.sent, "EXIT_STATUS") \/ SentSome(wire.sent, "CLOSE")
      BY DEF SentSome
    <2>2. SentSome(wire.sent, "EXIT_STATUS") \/ SentSome(wire.sent, "CLOSE")
            => Took(host, cli.out, "EXEC") \/ Took(host, cli.out, "EXIT") \/ Took(host, cli.out, "EOF")
      BY ONLY <1>7, Zenon DEF EndsOnce
    <2>3. QED
      BY <1>8, <2>1, <2>2
  <1>10. Took(host, cli.out, "EXEC") =>
           /\ wire.sent[i].kind = "CLOSE" => i = Len(wire.sent)
           /\ wire.sent[i].kind = "EXIT_STATUS" => wire.sent[j].kind = "CLOSE"
    BY ONLY <1>1, <1>7 DEF EndsOnce
  <1>11. i # Len(wire.sent)
    <2>1. wire.sent \in Seq(SentPackets)
      BY ONLY <1>2 DEF Wires
    <2>2. QED
      BY ONLY <1>1, <2>1, i \in DOMAIN wire.sent, j \in DOMAIN wire.sent
  <1>12. QED
    BY ONLY <1>9, <1>10, <1>11

\* The packets in front of an answer can be sent, and it can be sent after
\* the keys.
LEMMA SoundPending ==
  ASSUME SshInv
  PROVE  PendingIsSendable
  <1>1. SUFFICES ASSUME Connected(host), HasPendingTx(host), ~(host.svc.close_polls > 0)
                 PROVE  TxKind(host) # "NONE" /\ Builds(host, TxKind(host))
    BY DEF PendingIsSendable
  <1>2. KeysInOrder(host)
    BY <1>1 DEF SshInv, Sound, Connected, SessionInv
  <1>3. Answering(host.ssh)
    BY ONLY <1>1, Zenon DEF HasPendingTx, Answering
  <1>4. /\ host.ssh.ecdh_reply_sent /\ host.ssh.client_newkeys_seen
        /\ (host.ssh.service_accept => ~host.ssh.service_accept_sent)
        /\ host.ssh.out_encrypted = host.ssh.newkeys_sent
    BY ONLY <1>2, <1>3, Zenon DEF KeysInOrder
  <1>5. TxOrder[5] = "NEWKEYS" /\ \A k \in 1 .. 5 : TxOrder[k] \in PlainKinds
    BY DEF TxOrder, PlainKinds
  <1>6. ~Due(host)["NEWKEYS"] => host.ssh.newkeys_sent
    BY <1>4, DueAre
  <1>7. ASSUME TxKind(host) = "NONE" PROVE FALSE
    <2>1. \A kind \in SentKinds : ~Due(host)[kind]
      BY <1>1, <1>7, NothingDue DEF SentKinds
    <2>2. /\ ~Due(host)["NEWKEYS"] /\ ~Due(host)["SERVICE_ACCEPT"] /\ ~Due(host)["AUTH_SUCCESS"]
          /\ ~Due(host)["AUTH_FAILURE"] /\ ~Due(host)["OPEN_CONFIRM"] /\ ~Due(host)["SUCCESS"]
          /\ ~Due(host)["FAILURE"] /\ ~Due(host)["DATA"] /\ ~Due(host)["EXIT_STATUS"] /\ ~Due(host)["CLOSE"]
      BY ONLY <2>1, KindsAre
    <2>3. QED
      BY ONLY <1>3, <1>4, <1>6, <2>2, DueAre DEF Answering
  <1>8. Builds(host, TxKind(host))
    <2>1. PICK k \in 1 .. 14 : TxKind(host) = TxOrder[k] /\ \A j \in 1 .. k - 1 : ~Due(host)[TxOrder[j]]
      BY <1>7, LeastDue
    <2>2. CASE k <= 5
      <3>1. k \in 1 .. 5
        BY <2>2
      <3>2. QED
        BY <1>5, <2>1, <3>1 DEF Builds
    <2>3. CASE ~(k <= 5)
      <3>1. 5 \in 1 .. k - 1
        BY <2>3
      <3>2. ~Due(host)["NEWKEYS"]
        BY ONLY <1>5, <2>1, <3>1, Zenon
      <3>3. QED
        BY <1>4, <1>6, <3>2 DEF Builds
    <2>4. QED
      BY <2>2, <2>3
  <1>9. QED
    BY <1>7, <1>8

\* The peer of ssh_server_poll can decode what it sends: keys, sequence numbers and
\* cipher counters agree on both sides, and what the server holds of the client
\* follows, without gap or repetition, what it has processed.
THEOREM SshReadable == SshSpec => []SessionIsReadable
  <1>1. SshInv => SessionIsReadable
    BY SoundTypes, SoundDecodable, SoundStream DEF SessionIsReadable
  <1>2. QED
    BY <1>1, SshHolds, PTL

\* ssh_refresh_tcp_session_state: whatever happened on the connection before, a new
\* one starts with no keys, no login and no staged close.
THEOREM SshFresh == SshSpec => []FreshConnection
  <1>1. SshInv => FreshConnection
    BY SoundFresh
  <1>2. QED
    BY <1>1, SshHolds, PTL

\* ssh_channel_request and the order of ssh_send_pending: an exec request is answered
\* by its text, its status and one close, in this order, whatever the client wrote;
\* and what is pending can be sent.
THEOREM SshAnswers == SshSpec => []AnswersComplete
  <1>1. SshInv => AnswersComplete
    BY SoundAnswer, SoundPending DEF AnswersComplete
  <1>2. QED
    BY <1>1, SshHolds, PTL
=============================================================================
