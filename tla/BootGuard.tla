----------------------------- MODULE BootGuard -----------------------------
(***************************************************************************)
(* The boot guard of kernel/system/update.c: how an update, the Limine     *)
(* default entry, the guard record in the persistent roots and the two     *)
(* kernels on the ESP move together across restarts.  The calls into       *)
(* install.c are taken at their promise here, which EspVolume checks: a    *)
(* format replaces the ESP and leaves it unreadable while it runs; a new   *)
(* limine.conf takes effect or, if cut short, may or may not.              *)
(***************************************************************************)
EXTENDS Naturals

CONSTANTS Kernels,     \* kernel images, told apart by their SHA-256
          Good,        \* those that get from the guard check to the shell
          Installed,   \* the one the installer wrote
          None,        \* no image, no hash
          Attempts,    \* UPDATE_BOOT_GUARD_ATTEMPTS
          MaxUpdates   \* bound: updates begun

ASSUME BootGuardAssumption ==
  /\ Good \subseteq Kernels
  /\ Installed \in Good
  /\ None \notin Kernels
  /\ Attempts \in Nat /\ MaxUpdates \in Nat

VARIABLES esp,      \* main and rollback image, Limine default, readable?
          nv,       \* installed marker, guard record, cached configs: on disk
          ram,      \* the same files in this session
          cpu,      \* where the boot has got to, and what was booted
          task,     \* the call into install.c in progress
          updates   \* updates begun

guardVars == <<esp, nv, ram, cpu, task, updates>>

NoGuard == [state |-> "none", expected |-> None, rollback |-> None, left |-> Attempts]
NoFiles == [installed |-> FALSE, guard |-> NoGuard, cached |-> FALSE]
NoCall   == [kind |-> "none"]
Off     == [at |-> "off", kernel |-> None, rollback |-> FALSE, captured |-> FALSE]

States == {"none", "pending", "testing", "validated", "validated-manual", "current",
           "rollback-booted", "auto-restored", "restore-failed", "rollback-running",
           "unexpected-payload", "restore-normal-failed", "recover-failed", "blocked"}

Awaited(g) == g.state \in {"pending", "testing"}

\* update_boot_guard_write_state: the record has no attempts-left, which reads
\* as UPDATE_BOOT_GUARD_ATTEMPTS.
Mark(g, state) == [g EXCEPT !.state = state, !.left = Attempts]

\* A guard record is written to the roots and saved with them.
Record(g) ==
  /\ ram' = [ram EXCEPT !.guard = g]
  /\ nv' = ram'

-----------------------------------------------------------------------------
(* Calls into install.c.  "target" is the ESP afterwards, "ok" and "bad" the *)
(* guard record the caller writes, "next" where the caller goes on.          *)

Format(main, rb) == [main |-> main, rb |-> rb, conf |-> "normal", whole |-> TRUE]
WithConf(c) == [esp EXCEPT !.conf = c]

Call(kind, target, ok, bad, next) ==
  task' = [kind |-> kind, target |-> target, ok |-> ok, bad |-> bad, next |-> next,
          step |-> "device"]

\* update_boot_guard_install_limine_config: without a cached configuration
\* nothing is written and the call fails.
CallConf(c, ok, bad, next) ==
  IF ram.cached THEN Call("conf", WithConf(c), ok, bad, next)
  ELSE Call("none", esp, bad, bad, next)

\* Mutant: the rollback entry only makes the main entry the default again.
RestoredInPlace == WithConf("normal")

\* The running kernel as the only one.
Restored == Format(cpu.kernel, None)

\* What a call that is cut short may leave.
Remains == IF task.kind = "format" THEN {[esp EXCEPT !.whole = FALSE]}
           ELSE {esp, task.target}

DeviceDone ==
  /\ task # NoCall /\ task.step = "device"
  /\ esp' = task.target
  /\ task' = [task EXCEPT !.step = "record"]
  /\ UNCHANGED <<nv, ram, cpu, updates>>

DeviceFails ==
  /\ task # NoCall /\ task.step = "device"
  /\ esp' \in Remains
  /\ task' = [task EXCEPT !.step = "record", !.ok = task.bad]
  /\ UNCHANGED <<nv, ram, cpu, updates>>

\* The call has returned: the caller writes its record and saves.
Recorded ==
  /\ task # NoCall /\ task.step = "record"
  /\ Record(task.ok)
  /\ task' = NoCall
  /\ cpu' = [cpu EXCEPT !.at = task.next]
  /\ UNCHANGED <<esp, updates>>

-----------------------------------------------------------------------------
(* Boot *)

\* Limine starts the kernel of an entry; an ESP left half written does not
\* boot.
Start(rollback, captured) ==
  /\ cpu.at = "off"
  /\ esp.whole
  /\ LET k == IF rollback THEN esp.rb ELSE esp.main
     IN  /\ k # None
         /\ cpu' = [at |-> "check", kernel |-> k, rollback |-> rollback, captured |-> captured]
  /\ UNCHANGED <<esp, task, updates>>

DefaultIsRollback == esp.conf = "fallback"

\* The command line lacks orizon.safe=1: the roots are loaded.
LoadedBoot(rollback, captured) ==
  /\ Start(rollback, captured)
  /\ ram' = nv
  /\ UNCHANGED nv

\* orizon.safe=1: nothing is loaded and the boot tasks save the seed roots.
SafeBoot(rollback, captured) ==
  /\ Start(rollback, captured)
  /\ ram' = NoFiles
  /\ nv' = NoFiles

\* orizon.minimal=1: the disk is left alone and the guard is not consulted.
MinimalBoot ==
  /\ cpu.at = "off"
  /\ esp.whole /\ esp.main # None
  /\ cpu' = [at |-> "boot", kernel |-> esp.main, rollback |-> FALSE, captured |-> TRUE]
  /\ ram' = NoFiles
  /\ UNCHANGED <<esp, nv, task, updates>>

\* Power fails, the machine restarts, or a kernel that is not Good hangs.
Crash ==
  /\ cpu.at # "off"
  /\ cpu' = Off
  /\ ram' = NoFiles
  /\ task' = NoCall
  /\ \/ /\ task # NoCall /\ task.step = "device"
        /\ esp' \in Remains
     \/ /\ task # NoCall => task.step = "record"
        /\ UNCHANGED esp
  /\ UNCHANGED <<nv, updates>>

-----------------------------------------------------------------------------
(* orizon_update_boot_guard_check *)

Checking == cpu.at = "check" /\ task = NoCall

CheckNothing ==
  /\ Checking
  /\ ~(ram.installed /\ Awaited(ram.guard))
  /\ cpu' = [cpu EXCEPT !.at = "boot"]
  /\ UNCHANGED <<esp, nv, ram, task, updates>>

CheckUncaptured ==
  /\ Checking /\ ram.installed /\ Awaited(ram.guard)
  /\ ~cpu.captured
  /\ Record(Mark(ram.guard, "pending"))
  /\ cpu' = [cpu EXCEPT !.at = "boot"]
  /\ UNCHANGED <<esp, task, updates>>

\* Mutant: the state that stops later checks is written only at the end.
UnmarkedRestore(g) == g

\* The record is taken out of the awaited states before the ESP is touched.
MarkedRestore(g) == Mark(g, "rollback-booted")

CheckRollbackEntry ==
  /\ Checking /\ ram.installed /\ Awaited(ram.guard)
  /\ cpu.captured /\ cpu.rollback
  /\ Record(MarkedRestore(ram.guard))
  /\ Call("format", Restored, Mark(ram.guard, "auto-restored"),
          Mark(ram.guard, "restore-failed"), "boot")
  /\ UNCHANGED <<esp, cpu, updates>>

\* update_boot_guard_attempts_left, and the decrement after it.
OneLess(n) == IF n = 0 THEN 0 ELSE n - 1

CheckExpected ==
  /\ Checking /\ ram.installed /\ Awaited(ram.guard)
  /\ cpu.captured /\ ~cpu.rollback /\ cpu.kernel = ram.guard.expected
  /\ LET g == [ram.guard EXCEPT !.state = "testing", !.left = OneLess(@)]
     IN  CallConf("fallback", g, g, "boot")
  /\ UNCHANGED <<esp, nv, ram, cpu, updates>>

CheckOther ==
  /\ Checking /\ ram.installed /\ Awaited(ram.guard)
  /\ cpu.captured /\ ~cpu.rollback /\ cpu.kernel # ram.guard.expected
  /\ Record(Mark(ram.guard, IF cpu.kernel = ram.guard.rollback THEN "rollback-running"
                            ELSE "unexpected-payload"))
  /\ cpu' = [cpu EXCEPT !.at = "boot"]
  /\ UNCHANGED <<esp, task, updates>>

-----------------------------------------------------------------------------
(* The rest of the boot, then orizon_update_boot_guard_shell_ready *)

Validates == ram.installed /\ Awaited(ram.guard) /\ cpu.captured
               /\ cpu.kernel = ram.guard.expected

NormalFailed(g) == Mark(g, "restore-normal-failed")

ReachShell ==
  /\ cpu.at = "boot" /\ task = NoCall
  /\ cpu.kernel \in Good
  /\ \/ /\ Validates
        /\ CallConf("normal", Mark(ram.guard, "validated"), NormalFailed(ram.guard), "shell")
        /\ UNCHANGED cpu
     \/ /\ ~Validates
        /\ cpu' = [cpu EXCEPT !.at = "shell"]
        /\ UNCHANGED task
  /\ UNCHANGED <<esp, nv, ram, updates>>

-----------------------------------------------------------------------------
(* Commands *)

AtShell == cpu.at = "shell" /\ task = NoCall

\* The new kernel in the main slot, the running one in the rollback slot.
Updated(k) == Format(k, cpu.kernel)

\* orizon_update_full_upgrade, from the boot payloads on.  The configurations
\* are cached first, the guard is armed last.
Update(k) ==
  /\ AtShell /\ ram.installed /\ cpu.captured
  /\ k # cpu.kernel
  /\ updates < MaxUpdates
  /\ updates' = updates + 1
  /\ ram' = [ram EXCEPT !.cached = TRUE]
  /\ nv' = ram'
  /\ Call("format", Updated(k),
          [state |-> "pending", expected |-> k, rollback |-> cpu.kernel, left |-> Attempts],
          ram.guard, "shell")
  /\ UNCHANGED <<esp, cpu>>

\* The configurations are cached, then a remote package cannot be installed.
UpdateBlocked ==
  /\ AtShell /\ ram.installed /\ cpu.captured
  /\ ram' = [ram EXCEPT !.cached = TRUE]
  /\ nv' = ram'
  /\ UNCHANGED <<esp, cpu, task, updates>>

UpdateCurrent ==
  /\ AtShell /\ ram.installed /\ cpu.captured
  /\ Record([state |-> "current", expected |-> cpu.kernel, rollback |-> None,
             left |-> Attempts])
  /\ UNCHANGED <<esp, cpu, task, updates>>

\* bootguard confirm: the record is written even if normal boot was not
\* restored.
Confirm ==
  /\ AtShell /\ ram.installed /\ cpu.captured
  /\ LET g == [Mark(ram.guard, "validated-manual") EXCEPT !.expected = cpu.kernel]
     IN  CallConf("normal", g, g, "shell")
  /\ UNCHANGED <<esp, nv, ram, cpu, updates>>

\* bootguard recover
RecoverBlocked ==
  /\ AtShell /\ ram.installed /\ ram.guard # NoGuard
  /\ ram.guard.rollback = None \/ ~ram.cached
  /\ Record(IF ram.guard.rollback = None
            THEN [state |-> "blocked", expected |-> None, rollback |-> None, left |-> Attempts]
            ELSE Mark(ram.guard, "blocked"))
  /\ UNCHANGED <<esp, cpu, task, updates>>

Recover ==
  /\ AtShell /\ ram.installed
  /\ ram.guard.rollback # None /\ ram.cached
  /\ CallConf("fallback",
          [ram.guard EXCEPT !.state = "testing", !.left = 0],
          Mark(ram.guard, "recover-failed"), "shell")
  /\ UNCHANGED <<esp, nv, ram, cpu, updates>>

\* rollback, and repair-boot, which does not ask for the installed marker:
\* the running kernel becomes the main slot of an ESP without rollback slot.
RestoreRunning ==
  /\ AtShell /\ cpu.captured
  /\ Call("format", Restored, ram.guard, ram.guard, "shell")
  /\ UNCHANGED <<esp, nv, ram, cpu, updates>>

-----------------------------------------------------------------------------
GuardInit ==
  /\ esp = Format(Installed, None)
  /\ nv = [NoFiles EXCEPT !.installed = TRUE]
  /\ ram = NoFiles
  /\ cpu = Off
  /\ task = NoCall
  /\ updates = 0

Check == \/ CheckNothing \/ CheckUncaptured \/ CheckRollbackEntry
         \/ CheckExpected \/ CheckOther

Steps == DeviceDone \/ Recorded \/ Check \/ ReachShell

Updates == UpdateCurrent \/ UpdateBlocked \/ \E k \in Kernels : Update(k)

\* Everything but the commands that reformat the ESP without a rollback slot
\* or arm the fallback by hand; any entry may be chosen at the boot menu.
NextGuarded ==
  \/ Steps \/ DeviceFails \/ Crash \/ Updates \/ Confirm \/ RecoverBlocked
  \/ MinimalBoot
  \/ \E r, c \in BOOLEAN : LoadedBoot(r, c) \/ SafeBoot(r, c)

GuardNext == NextGuarded \/ Recover \/ RestoreRunning

\* A machine whose devices work: the default entry is booted, which says
\* orizon.safe=1 whoever wrote limine.conf (the channel's file, the rollback
\* entry of the update, the ones built into the kernel), and a kernel that
\* hangs is restarted.  This happens by itself.
Hang == cpu.at = "boot" /\ cpu.kernel \notin Good /\ Crash
DefaultBoot == SafeBoot(DefaultIsRollback, TRUE)
Unattended == Steps \/ Hang \/ DefaultBoot

\* What its operator may do: update, restart, and start a main entry that is
\* known to work with the command line edited so that the roots are loaded.
EditedBoot == esp.main \in Good /\ LoadedBoot(FALSE, TRUE)
Operator   == (\E k \in Kernels : Update(k)) \/ (AtShell /\ Crash) \/ EditedBoot

GuardSpec == GuardInit /\ [][GuardNext]_guardVars
AloneSpec == GuardInit /\ [][Unattended \/ Operator]_guardVars /\ WF_guardVars(Unattended)

-----------------------------------------------------------------------------
(* Properties *)

Guards == [state : States, expected : Kernels \cup {None},
           rollback : Kernels \cup {None}, left : 0..Attempts]
Stores == [installed : BOOLEAN, guard : Guards, cached : BOOLEAN]

\* Slots hold known kernels or nothing, records are well formed, and only a
\* running machine has a call in progress.
GuardTypeOK ==
  /\ esp \in [main : Kernels \cup {None}, rb : Kernels \cup {None},
              conf : {"normal", "fallback"}, whole : BOOLEAN]
  /\ nv \in Stores /\ ram \in Stores
  /\ cpu \in [at : {"off", "check", "boot", "shell"}, kernel : Kernels \cup {None},
              rollback : BOOLEAN, captured : BOOLEAN]
  /\ cpu.at = "off" => task = NoCall
  /\ updates \in 0..MaxUpdates

\* Whatever entry Limine takes by default has its kernel on the ESP, unless a
\* format of the ESP was cut short: the fallback is never armed towards a
\* rollback slot that is gone.
DefaultHasKernel ==
  esp.whole => (IF DefaultIsRollback THEN esp.rb ELSE esp.main) # None

\* As long as the saved record still awaits validation, the rollback slot on
\* the ESP holds the very kernel the record names, and that kernel has reached
\* the shell before.
AwaitedHasRollback ==
  (nv.installed /\ Awaited(nv.guard) /\ esp.whole) =>
    /\ esp.rb = nv.guard.rollback
    /\ esp.rb \in Good

\* A saved record says "validated" only while Limine's default is the main
\* entry again: a power failure between the two never strands the fallback.
ValidatedBootsNormally ==
  (nv.installed /\ nv.guard.state = "validated" /\ esp.whole) => ~DefaultIsRollback

\* The record saved with the roots and the ESP agree after any crash, refused
\* write or choice at the boot menu.
RecordAgrees == GuardTypeOK /\ DefaultHasKernel /\ AwaitedHasRollback /\ ValidatedBootsNormally

\* A fallback that is armed is lifted only when the main entry then starts a
\* kernel that has reached the shell, or when a new update replaces it, whose
\* record is about to be written: no cut, refused write, manual command or
\* choice at the menu makes a kernel that has not proved itself the default
\* again (orizon_update_boot_guard_check, orizon_update_boot_guard_shell_ready).
Lifted == DefaultIsRollback /\ ~DefaultIsRollback' /\ esp'.whole
FallbackHeld ==
  [][Lifted => \/ esp'.main \in Good
               \/ task # NoCall /\ task.ok.state = "pending" /\ task.ok.expected = esp'.main]_guardVars

\* A bad update does not keep the machine that is left alone: it always gets
\* back to the shell (the fallback the next boot is said to arm).
BadUpdateRecovers == (esp.main \notin Good) ~> (cpu.at = "shell")
=============================================================================
