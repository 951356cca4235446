----------------------------- MODULE BootProofs -----------------------------
(***************************************************************************)
(* Proofs about the boot guard for any set of kernels, any number of       *)
(* attempts and updates: the saved record, the Limine default and the two  *)
(* slots of the ESP agree after any crash, device error or choice at the   *)
(* boot menu, and a fallback that is armed is lifted only for a kernel     *)
(* that has proved itself or by an update.                                 *)
(***************************************************************************)
EXTENDS MC_Boot, TLAPS

EspStates == [main : Kernels \cup {None}, rb : Kernels \cup {None},
              conf : {"normal", "fallback"}, whole : BOOLEAN]

GuardCalls == [kind : {"none", "conf", "format"}, target : EspStates, ok : Guards,
               bad : Guards, next : {"boot", "shell"}, step : {"device", "record"}]

\* An ESP e and a record g that may be found together after a power failure.
Agrees(e, g) ==
  e.whole => /\ Awaited(g) => e.rb = g.rollback /\ e.rb \in Good
             /\ g.state = "validated" => e.conf = "normal"

\* The default entry of e has its kernel.
Bootable(e) == e.main \in Kernels /\ (e.whole /\ e.conf = "fallback" => e.rb # None)

\* A record that still awaits validation in a boot whose payload was captured
\* names the running kernel: as the one on trial before the shell, as the one
\* to fall back to afterwards.
GoesOn(c, g, at) ==
  Awaited(g) /\ c.captured =>
    /\ at = "boot" => c.kernel = g.expected
    /\ at = "shell" => c.kernel = g.rollback

\* A call into install.c: whatever it leaves on the ESP, cut short or not,
\* agrees with the record saved before and with the one its caller will write.
CallSound ==
  /\ task \in GuardCalls
  /\ ram.installed
  /\ task.next = "shell" => cpu.kernel \in Good
  /\ GoesOn(cpu, task.ok, task.next)
  /\ task.step = "device" =>
       /\ Bootable(task.target)
       /\ Agrees(task.target, nv.guard)
       /\ Agrees(task.target, task.ok)
       /\ task.kind # "format" => Agrees(esp, task.bad) /\ Agrees(task.target, task.bad)
       /\ GoesOn(cpu, task.bad, task.next)
  /\ task.step = "record" => Agrees(esp, task.ok)

\* The inductive invariant behind RecordAgrees.
GuardInv ==
  /\ GuardTypeOK
  /\ Bootable(esp)
  /\ nv.installed => Agrees(esp, nv.guard)
  /\ cpu.at # "off" => cpu.kernel \in Kernels
  /\ cpu.at = "shell" => cpu.kernel \in Good
  /\ ram.installed => ram = nv /\ GoesOn(cpu, ram.guard, cpu.at)
  /\ ~ram.installed => ram = NoFiles
  /\ ~nv.installed => nv = NoFiles
  /\ task # NoCall => CallSound

LEMMA GuardTypes ==
  /\ NoGuard \in Guards
  /\ NoFiles \in Stores
  /\ ~NoFiles.installed
  /\ Off \in [at : {"off", "check", "boot", "shell"}, kernel : Kernels \cup {None},
              rollback : BOOLEAN, captured : BOOLEAN]
<1>1. NoGuard \in Guards
  BY BootGuardAssumption DEF NoGuard, Guards, States
<1>2. NoFiles \in Stores /\ ~NoFiles.installed
  BY <1>1 DEF NoFiles, Stores
<1> QED
  BY <1>1, <1>2 DEF Off

\* update_boot_guard_write_state changes the state and the attempts only.
LEMMA MarkKeeps ==
  ASSUME NEW g \in Guards, NEW s \in States
  PROVE  /\ Mark(g, s) \in Guards
         /\ Mark(g, s).state = s
         /\ Mark(g, s).expected = g.expected
         /\ Mark(g, s).rollback = g.rollback
<1> DEFINE h == [g EXCEPT !.state = s]
<1>1. /\ h \in Guards /\ h.state = s
      /\ h.expected = g.expected /\ h.rollback = g.rollback
  BY DEF Guards
<1>2. Mark(g, s) = [h EXCEPT !.left = Attempts]
  BY DEF Mark
<1> HIDE DEF h
<1> QED
  BY <1>1, <1>2, BootGuardAssumption DEF Guards

LEMMA GuardInitInv == GuardInit => GuardInv
<1> SUFFICES ASSUME GuardInit PROVE GuardInv
  OBVIOUS
<1>1. esp \in EspStates /\ esp.main = Installed /\ esp.conf = "normal"
  BY BootGuardAssumption DEF GuardInit, Format, EspStates
<1>2. /\ nv \in Stores /\ nv.installed /\ nv.guard = NoGuard /\ ram = NoFiles /\ cpu = Off
      /\ task = NoCall /\ updates = 0
  BY GuardTypes DEF GuardInit, Stores, NoFiles
<1>3. GuardTypeOK
  BY <1>1, <1>2, GuardTypes, BootGuardAssumption DEF GuardTypeOK, EspStates
<1>4. Bootable(esp) /\ Agrees(esp, nv.guard)
  BY <1>1, <1>2, BootGuardAssumption DEF Bootable, Agrees, Awaited, NoGuard
<1>5. ~ram.installed /\ cpu.at = "off"
  BY <1>2, GuardTypes DEF Off
<1> QED
  BY <1>2, <1>3, <1>4, <1>5 DEF GuardInv

\* A new limine.conf keeps the slots.
LEMMA ConfKeeps ==
  ASSUME esp \in EspStates, NEW c \in {"normal", "fallback"}
  PROVE  /\ WithConf(c) \in EspStates
         /\ WithConf(c).conf = c
         /\ WithConf(c).main = esp.main
         /\ WithConf(c).rb = esp.rb
         /\ WithConf(c).whole = esp.whole
  BY DEF WithConf, EspStates

\* update_boot_guard_install_limine_config, with or without a cached file, is
\* a sound call if its records agree with the slots as they are.
LEMMA ConfCallSound ==
  ASSUME GuardInv, UNCHANGED <<esp, nv, ram, cpu>>, ram.installed,
         NEW c \in {"normal", "fallback"}, NEW ok \in Guards, NEW bad \in Guards,
         NEW next \in {"boot", "shell"}, CallConf(c, ok, bad, next),
         next = "shell" => cpu.kernel \in Good,
         GoesOn(cpu, ok, next), GoesOn(cpu, bad, next),
         c = "fallback" => /\ esp.whole => esp.rb # None
                           /\ nv.guard.state # "validated"
                           /\ ok.state # "validated",
         Awaited(ok) /\ esp.whole => esp.rb = ok.rollback /\ esp.rb \in Good,
         Awaited(bad) /\ esp.whole => esp.rb = bad.rollback /\ esp.rb \in Good,
         bad.state # "validated"
  PROVE  CallSound'
<1>0. esp \in EspStates /\ Bootable(esp) /\ Agrees(esp, nv.guard)
  BY DEF GuardInv, GuardTypeOK, EspStates
<1>1. GoesOn(cpu', ok, next) /\ GoesOn(cpu', bad, next)
  BY DEF GoesOn, Awaited
<1>2. CASE ram.cached
  <2> DEFINE e == WithConf(c)
  <2>1. /\ e \in EspStates /\ e.conf = c /\ e.main = esp.main /\ e.rb = esp.rb
        /\ e.whole = esp.whole
    BY <1>0, ConfKeeps
  <2>2. task' = [kind |-> "conf", target |-> e, ok |-> ok, bad |-> bad, next |-> next,
                 step |-> "device"]
    BY <1>2 DEF CallConf, Call
  <2>3. task' \in GuardCalls
    BY <2>1, <2>2 DEF GuardCalls
  <2>4. /\ Bootable(e) /\ Agrees(e, nv.guard) /\ Agrees(e, ok) /\ Agrees(e, bad)
        /\ Agrees(esp, bad)
    BY <1>0, <2>1 DEF Bootable, Agrees
  <2> HIDE DEF e
  <2>5. /\ task'.target = e /\ task'.ok = ok /\ task'.bad = bad
        /\ task'.next = next /\ task'.step = "device"
    BY <2>2
  <2> QED
    BY <1>1, <2>3, <2>4, <2>5 DEF CallSound, Bootable, Agrees, GoesOn, Awaited
<1>3. CASE ~ram.cached
  <2>2. task' = [kind |-> "none", target |-> esp, ok |-> bad, bad |-> bad, next |-> next,
                 step |-> "device"]
    BY <1>3 DEF CallConf, Call
  <2>3. task' \in GuardCalls
    BY <1>0, <2>2 DEF GuardCalls
  <2>4. Agrees(esp, bad)
    BY DEF Agrees
  <2>5. /\ task'.target = esp /\ task'.ok = bad /\ task'.bad = bad
        /\ task'.next = next /\ task'.step = "device"
    BY <2>2
  <2> QED
    BY <1>0, <1>1, <2>3, <2>4, <2>5 DEF CallSound, Bootable, Agrees, GoesOn, Awaited
<1> QED
  BY <1>2, <1>3

\* Formatting the ESP is a sound call if the new slots agree with the record
\* saved before and with the one that follows.
LEMMA FormatCallSound ==
  ASSUME NEW e \in EspStates, NEW ok \in Guards, NEW bad \in Guards,
         NEW next \in {"boot", "shell"}, Call("format", e, ok, bad, next),
         ram'.installed, next = "shell" => cpu'.kernel \in Good,
         GoesOn(cpu', ok, next), GoesOn(cpu', bad, next),
         Bootable(e), Agrees(e, nv'.guard), Agrees(e, ok)
  PROVE  CallSound'
<1>1. task' = [kind |-> "format", target |-> e, ok |-> ok, bad |-> bad, next |-> next,
               step |-> "device"]
  BY DEF Call
<1>2. task' \in GuardCalls
  BY <1>1 DEF GuardCalls
<1>3. /\ task'.kind = "format" /\ task'.target = e /\ task'.ok = ok /\ task'.bad = bad
      /\ task'.next = next /\ task'.step = "device"
  BY <1>1
<1> QED
  BY <1>2, <1>3 DEF CallSound, Bootable, Agrees, GoesOn, Awaited

-----------------------------------------------------------------------------
(* Every step preserves the invariant. *)

LEMMA DeviceStep ==
  ASSUME GuardInv, DeviceDone \/ DeviceFails \/ Recorded
  PROVE  GuardInv'
<1>0. task # NoCall /\ CallSound /\ ram.installed /\ ram = nv /\ GuardTypeOK
  BY DEF DeviceDone, DeviceFails, Recorded, GuardInv, CallSound
<1>1. task \in GuardCalls /\ esp \in EspStates /\ cpu.at # "off"
  BY <1>0 DEF CallSound, GuardTypeOK, EspStates
<1>2. CASE DeviceDone
  <2>1. /\ task.step = "device" /\ esp' = task.target
        /\ task' = [task EXCEPT !.step = "record"] /\ UNCHANGED <<nv, ram, cpu, updates>>
    BY <1>2 DEF DeviceDone
  <2>2. /\ task' \in GuardCalls /\ task'.step = "record" /\ task'.ok = task.ok
        /\ task'.next = task.next
    BY <1>1, <2>1 DEF GuardCalls
  <2>3. esp' \in EspStates
    BY <1>1, <2>1 DEF GuardCalls
  <2>4. GuardTypeOK'
    BY <1>0, <1>1, <2>1, <2>3 DEF GuardTypeOK, EspStates
  <2>5. CallSound'
    BY <1>0, <2>1, <2>2 DEF CallSound, Agrees, GoesOn, Awaited
  <2> QED
    BY <1>0, <2>1, <2>4, <2>5 DEF GuardInv, CallSound, Bootable, Agrees, GoesOn, Awaited
<1>3. CASE DeviceFails
  <2>1. /\ task.step = "device" /\ esp' \in Remains
        /\ task' = [task EXCEPT !.step = "record", !.ok = task.bad]
        /\ UNCHANGED <<nv, ram, cpu, updates>>
    BY <1>3 DEF DeviceFails
  <2>2. /\ task' \in GuardCalls /\ task'.step = "record" /\ task'.ok = task.bad
        /\ task'.next = task.next
    <3> DEFINE t == [task EXCEPT !.step = "record"]
    <3>1. t \in GuardCalls /\ t.step = "record" /\ t.next = task.next
      BY <1>1 DEF GuardCalls
    <3>2. task' = [t EXCEPT !.ok = task.bad] /\ task.bad \in Guards
      BY <1>1, <2>1 DEF GuardCalls
    <3> HIDE DEF t
    <3> QED
      BY <3>1, <3>2 DEF GuardCalls
  <2>3. esp' \in EspStates /\ Bootable(esp') /\ Agrees(esp', nv.guard) /\ Agrees(esp', task.bad)
    <3>1. CASE task.kind = "format"
      <4>1. esp' = [esp EXCEPT !.whole = FALSE]
        BY <2>1, <3>1 DEF Remains
      <4>2. esp' \in EspStates /\ esp'.whole = FALSE /\ esp'.main = esp.main
        BY <1>1, <4>1 DEF EspStates
      <4> QED
        BY <4>2 DEF GuardInv, Bootable, Agrees
    <3>2. CASE task.kind # "format"
      <4>1. esp' = esp \/ esp' = task.target
        BY <2>1, <3>2 DEF Remains
      <4>2. task.target \in EspStates
        BY <1>1 DEF GuardCalls
      <4> QED
        BY <1>0, <1>1, <2>1, <3>2, <4>1, <4>2 DEF GuardInv, CallSound
    <3> QED
      BY <3>1, <3>2
  <2>4. GuardTypeOK'
    BY <1>0, <1>1, <2>1, <2>3 DEF GuardTypeOK, EspStates
  <2>5. CallSound'
    BY <1>0, <2>1, <2>2, <2>3 DEF CallSound, Agrees, GoesOn, Awaited
  <2> QED
    BY <1>0, <2>1, <2>3, <2>4, <2>5 DEF GuardInv, CallSound, Bootable, Agrees, GoesOn, Awaited
<1>4. CASE Recorded
  <2>1. /\ task.step = "record" /\ ram' = [ram EXCEPT !.guard = task.ok] /\ nv' = ram'
        /\ task' = NoCall /\ cpu' = [cpu EXCEPT !.at = task.next] /\ UNCHANGED <<esp, updates>>
    BY <1>4 DEF Recorded, Record
  <2>2. task.ok \in Guards /\ task.next \in {"boot", "shell"}
    BY <1>1 DEF GuardCalls
  <2>3. /\ ram' \in Stores /\ ram'.installed = ram.installed /\ ram'.guard = task.ok
    BY <1>0, <2>1, <2>2 DEF GuardTypeOK, Stores
  <2>4. /\ cpu' \in [at : {"off", "check", "boot", "shell"}, kernel : Kernels \cup {None},
                     rollback : BOOLEAN, captured : BOOLEAN]
        /\ cpu'.at = task.next /\ cpu'.kernel = cpu.kernel /\ cpu'.captured = cpu.captured
    BY <1>0, <2>1, <2>2 DEF GuardTypeOK
  <2>5. GuardTypeOK'
    BY <1>0, <2>1, <2>3, <2>4 DEF GuardTypeOK
  <2>6. GoesOn(cpu', ram'.guard, cpu'.at)
    BY <1>0, <2>3, <2>4 DEF CallSound, GoesOn, Awaited
  <2>7. Agrees(esp', nv'.guard)
    BY <1>0, <2>1, <2>3 DEF CallSound
  <2> QED
    BY <1>0, <1>1, <2>1, <2>3, <2>4, <2>5, <2>6, <2>7
       DEF GuardInv, CallSound, Bootable, Agrees, GoesOn, Awaited
<1> QED
  BY <1>2, <1>3, <1>4

CpuStates == [at : {"off", "check", "boot", "shell"}, kernel : Kernels \cup {None},
              rollback : BOOLEAN, captured : BOOLEAN]

LEMMA StartStep ==
  ASSUME GuardInv,
         MinimalBoot \/ \E r, c \in BOOLEAN : LoadedBoot(r, c) \/ SafeBoot(r, c)
  PROVE  GuardInv'
<1>0. GuardTypeOK /\ esp \in EspStates /\ task = NoCall
  BY DEF GuardInv, GuardTypeOK, EspStates, MinimalBoot, LoadedBoot, SafeBoot, Start
<1>1. /\ UNCHANGED <<esp, task, updates>> /\ cpu' \in CpuStates
      /\ cpu'.at \in {"check", "boot"} /\ cpu'.kernel \in Kernels
  <2>1. CASE MinimalBoot
    BY <1>0, <2>1 DEF MinimalBoot, EspStates, CpuStates
  <2>2. ASSUME NEW r \in BOOLEAN, NEW c \in BOOLEAN, Start(r, c)
        PROVE  /\ UNCHANGED <<esp, task, updates>> /\ cpu' \in CpuStates
               /\ cpu'.at \in {"check", "boot"} /\ cpu'.kernel \in Kernels
    BY <1>0, <2>2 DEF Start, EspStates, CpuStates
  <2> QED
    BY <2>1, <2>2 DEF LoadedBoot, SafeBoot
<1>2. \/ ram' = NoFiles /\ (nv' = nv \/ nv' = NoFiles)
      \/ ram' = nv /\ nv' = nv /\ cpu'.at = "check"
  BY DEF MinimalBoot, LoadedBoot, SafeBoot, Start
<1>3. GuardTypeOK'
  BY <1>0, <1>1, <1>2, GuardTypes DEF GuardTypeOK, CpuStates
<1>4. nv'.installed => Agrees(esp', nv'.guard)
  BY <1>1, <1>2, GuardTypes DEF GuardInv, Agrees
<1>5. CASE ram' = NoFiles
  BY <1>0, <1>1, <1>2, <1>3, <1>4, <1>5, GuardTypes DEF GuardInv, Bootable
<1>6. CASE ram' = nv /\ nv' = nv /\ cpu'.at = "check"
  BY <1>0, <1>1, <1>3, <1>4, <1>6 DEF GuardInv, Bootable, GoesOn
<1> QED
  BY <1>2, <1>5, <1>6

LEMMA CrashStep ==
  ASSUME GuardInv, Crash
  PROVE  GuardInv'
<1>0. /\ GuardTypeOK /\ esp \in EspStates
      /\ cpu' = Off /\ ram' = NoFiles /\ task' = NoCall /\ UNCHANGED <<nv, updates>>
  BY DEF GuardInv, GuardTypeOK, EspStates, Crash
<1>1. esp' \in EspStates /\ Bootable(esp') /\ (nv.installed => Agrees(esp', nv.guard))
  <2>1. CASE UNCHANGED esp
    BY <1>0, <2>1 DEF GuardInv
  <2>2. CASE task # NoCall /\ task.step = "device" /\ esp' \in Remains
    <3>1. CallSound /\ task.target \in EspStates
      BY <2>2 DEF GuardInv, CallSound, GuardCalls
    <3>2. CASE task.kind = "format"
      <4>1. esp' = [esp EXCEPT !.whole = FALSE]
        BY <2>2, <3>2 DEF Remains
      <4>2. esp' \in EspStates /\ esp'.whole = FALSE /\ esp'.main = esp.main
        BY <1>0, <4>1 DEF EspStates
      <4> QED
        BY <4>2 DEF GuardInv, Bootable, Agrees
    <3>3. CASE task.kind # "format"
      <4>1. esp' = esp \/ esp' = task.target
        BY <2>2, <3>3 DEF Remains
      <4> QED
        BY <1>0, <2>2, <3>1, <4>1 DEF GuardInv, CallSound
    <3> QED
      BY <3>2, <3>3
  <2> QED
    BY <2>1, <2>2 DEF Crash
<1>2. GuardTypeOK'
  BY <1>0, <1>1, GuardTypes DEF GuardTypeOK, EspStates
<1>3. cpu'.at = "off" /\ ~ram'.installed
  BY <1>0, GuardTypes DEF Off
<1> QED
  BY <1>0, <1>1, <1>2, <1>3 DEF GuardInv

\* A step that only moves the boot on and writes a record that no longer
\* awaits anything, or none.
LEMMA RecordStep ==
  ASSUME GuardInv, task = NoCall, UNCHANGED <<esp, task, updates>>,
         ram.installed, NEW g \in Guards, Record(g),
         cpu' \in CpuStates, cpu'.at # "off", cpu'.kernel \in Kernels,
         cpu'.at = "shell" => cpu'.kernel \in Good,
         Agrees(esp, g), GoesOn(cpu', g, cpu'.at)
  PROVE  GuardInv'
<1>0. GuardTypeOK
  BY DEF GuardInv
<1>1. /\ ram' \in Stores /\ ram'.installed = ram.installed /\ ram'.guard = g /\ nv' = ram'
  BY <1>0 DEF GuardTypeOK, Stores, Record
<1>2. GuardTypeOK'
  BY <1>0, <1>1 DEF GuardTypeOK, CpuStates
<1>3. GoesOn(cpu', ram'.guard, cpu'.at)
  BY <1>1 DEF GoesOn, Awaited
<1> QED
  BY <1>1, <1>2, <1>3 DEF GuardInv, Bootable, Agrees, Awaited

LEMMA CheckStep ==
  ASSUME GuardInv, Check
  PROVE  GuardInv'
<1>0. /\ GuardTypeOK /\ cpu \in CpuStates /\ ram \in Stores /\ ram.guard \in Guards
      /\ esp \in EspStates /\ task = NoCall /\ cpu.at = "check" /\ cpu.kernel \in Kernels
  BY DEF GuardInv, GuardTypeOK, EspStates, CpuStates, Stores, Check, Checking,
         CheckNothing, CheckUncaptured, CheckRollbackEntry, CheckExpected, CheckOther
<1>1. ASSUME cpu' = [cpu EXCEPT !.at = "boot"]
      PROVE  /\ cpu' \in CpuStates /\ cpu'.at = "boot" /\ cpu'.kernel = cpu.kernel
             /\ cpu'.captured = cpu.captured
  BY <1>0, <1>1 DEF CpuStates
<1>2. CASE CheckNothing
  <2>1. /\ UNCHANGED <<esp, nv, ram, task, updates>> /\ cpu' = [cpu EXCEPT !.at = "boot"]
        /\ ~(ram.installed /\ Awaited(ram.guard))
    BY <1>2 DEF CheckNothing
  <2>2. GuardTypeOK'
    BY <1>0, <1>1, <2>1 DEF GuardTypeOK, CpuStates
  <2> QED
    BY <1>0, <1>1, <2>1, <2>2 DEF GuardInv, Bootable, Agrees, GoesOn, Awaited
<1>3. ASSUME ram.installed, Awaited(ram.guard)
      PROVE  ram = nv /\ (esp.whole => esp.rb = ram.guard.rollback /\ esp.rb \in Good)
  BY <1>3 DEF GuardInv, Agrees
<1>4. CASE CheckUncaptured
  <2> DEFINE g == Mark(ram.guard, "pending")
  <2>1. g \in Guards /\ g.rollback = ram.guard.rollback /\ g.state = "pending"
    BY <1>0, MarkKeeps DEF States
  <2>2. /\ Record(g) /\ cpu' = [cpu EXCEPT !.at = "boot"] /\ UNCHANGED <<esp, task, updates>>
        /\ ram.installed /\ Awaited(ram.guard) /\ ~cpu.captured
    BY <1>4 DEF CheckUncaptured
  <2>3. Agrees(esp, g) /\ GoesOn(cpu', g, cpu'.at)
    BY <1>1, <1>3, <2>1, <2>2 DEF Agrees, GoesOn
  <2> HIDE DEF g
  <2> QED
    BY <1>0, <1>1, <2>1, <2>2, <2>3, RecordStep
<1>5. CASE CheckOther
  <2> DEFINE s == IF cpu.kernel = ram.guard.rollback THEN "rollback-running"
                  ELSE "unexpected-payload"
             g == Mark(ram.guard, s)
  <2>1. s \in States /\ s \notin {"pending", "testing", "validated"}
    BY DEF States
  <2>2. g \in Guards /\ g.state = s
    BY <1>0, <2>1, MarkKeeps
  <2>3. /\ Record(g) /\ cpu' = [cpu EXCEPT !.at = "boot"] /\ UNCHANGED <<esp, task, updates>>
        /\ ram.installed
    BY <1>5 DEF CheckOther
  <2>4. Agrees(esp, g) /\ GoesOn(cpu', g, cpu'.at)
    BY <2>1, <2>2 DEF Agrees, GoesOn, Awaited
  <2> HIDE DEF g
  <2> QED
    BY <1>0, <1>1, <2>2, <2>3, <2>4, RecordStep
<1>6. CASE CheckRollbackEntry
  <2> DEFINE g   == Mark(ram.guard, "rollback-booted")
             ok  == Mark(ram.guard, "auto-restored")
             bad == Mark(ram.guard, "restore-failed")
  <2>1. /\ g \in Guards /\ g.state = "rollback-booted"
        /\ ok \in Guards /\ ok.state = "auto-restored"
        /\ bad \in Guards /\ bad.state = "restore-failed"
    BY <1>0, MarkKeeps DEF States
  <2>2. /\ Record(g) /\ Call("format", Restored, ok, bad, "boot") /\ ram.installed
        /\ UNCHANGED <<esp, cpu, updates>>
    BY <1>6 DEF CheckRollbackEntry, MarkedRestore
  <2> HIDE DEF g, ok, bad
  <2>3. /\ ram' \in Stores /\ ram'.installed /\ ram'.guard = g /\ nv' = ram'
    BY <1>0, <2>1, <2>2 DEF Stores, Record
  <2>4. Restored \in EspStates /\ Bootable(Restored)
    BY <1>0 DEF Restored, Format, EspStates, Bootable
  <2>5. Agrees(Restored, nv'.guard) /\ Agrees(Restored, ok)
    BY <2>1, <2>3 DEF Agrees, Awaited
  <2>6. GoesOn(cpu', ok, "boot") /\ GoesOn(cpu', bad, "boot")
    BY <2>1 DEF GoesOn, Awaited
  <2>7. CallSound'
    BY <2>1, <2>2, <2>3, <2>4, <2>5, <2>6, FormatCallSound
  <2>8. GuardTypeOK'
    BY <1>0, <2>2, <2>3 DEF GuardTypeOK
  <2>9. Agrees(esp', nv'.guard) /\ GoesOn(cpu', ram'.guard, cpu'.at)
    BY <2>1, <2>3 DEF Agrees, GoesOn, Awaited
  <2> QED
    BY <1>0, <2>2, <2>3, <2>7, <2>8, <2>9 DEF GuardInv, Bootable
<1>7. CASE CheckExpected
  <2> DEFINE g == [ram.guard EXCEPT !.state = "testing", !.left = OneLess(@)]
  <2>1. /\ g \in Guards /\ g.state = "testing" /\ g.rollback = ram.guard.rollback
        /\ g.expected = ram.guard.expected
    <3> DEFINE h == [ram.guard EXCEPT !.state = "testing"]
    <3>1. /\ h \in Guards /\ h.state = "testing" /\ h.rollback = ram.guard.rollback
          /\ h.expected = ram.guard.expected /\ h.left = ram.guard.left
      BY <1>0 DEF Guards, States
    <3>2. OneLess(h.left) \in 0..Attempts
      BY <3>1, BootGuardAssumption DEF OneLess, Guards
    <3>3. g = [h EXCEPT !.left = OneLess(h.left)]
      BY <3>1
    <3> HIDE DEF h, g
    <3> QED
      BY <3>1, <3>2, <3>3 DEF Guards
  <2>2. /\ CallConf("fallback", g, g, "boot") /\ UNCHANGED <<esp, nv, ram, cpu, updates>>
        /\ ram.installed /\ Awaited(ram.guard) /\ cpu.kernel = ram.guard.expected
    BY <1>7 DEF CheckExpected
  <2> HIDE DEF g
  <2>3. /\ esp.whole => esp.rb # None /\ esp.rb = g.rollback /\ esp.rb \in Good
        /\ nv.guard.state # "validated"
    BY <1>3, <2>1, <2>2, BootGuardAssumption DEF Awaited
  <2>4. GoesOn(cpu, g, "boot")
    BY <2>1, <2>2 DEF GoesOn
  <2>5. CallSound'
    BY <2>1, <2>2, <2>3, <2>4, ConfCallSound
  <2> QED
    BY <1>0, <2>2, <2>5 DEF GuardInv, GuardTypeOK, Bootable, Agrees, GoesOn, Awaited
<1> QED
  BY <1>2, <1>4, <1>5, <1>6, <1>7 DEF Check

LEMMA ShellStep ==
  ASSUME GuardInv, ReachShell
  PROVE  GuardInv'
<1>0. /\ GuardTypeOK /\ cpu \in CpuStates /\ ram.guard \in Guards
      /\ task = NoCall /\ cpu.at = "boot" /\ cpu.kernel \in Good
      /\ UNCHANGED <<esp, nv, ram, updates>>
  BY DEF GuardInv, GuardTypeOK, CpuStates, Stores, ReachShell
<1>1. CASE Validates /\ CallConf("normal", Mark(ram.guard, "validated"),
                                 NormalFailed(ram.guard), "shell") /\ UNCHANGED cpu
  <2> DEFINE ok  == Mark(ram.guard, "validated")
             bad == NormalFailed(ram.guard)
  <2>1. /\ ok \in Guards /\ ok.state = "validated"
        /\ bad \in Guards /\ bad.state = "restore-normal-failed"
    BY <1>0, MarkKeeps DEF States, NormalFailed
  <2>2. ram.installed /\ CallConf("normal", ok, bad, "shell")
    BY <1>1 DEF Validates
  <2> HIDE DEF ok, bad
  <2>3. GoesOn(cpu, ok, "shell") /\ GoesOn(cpu, bad, "shell") /\ ~Awaited(ok) /\ ~Awaited(bad)
    BY <2>1 DEF GoesOn, Awaited
  <2>4. CallSound'
    BY <1>0, <1>1, <2>1, <2>2, <2>3, ConfCallSound
  <2> QED
    BY <1>0, <1>1, <2>2, <2>4 DEF GuardInv, GuardTypeOK, Bootable, Agrees, GoesOn, Awaited
<1>2. CASE ~Validates /\ cpu' = [cpu EXCEPT !.at = "shell"] /\ UNCHANGED task
  <2>1. /\ cpu' \in CpuStates /\ cpu'.at = "shell" /\ cpu'.kernel = cpu.kernel
        /\ cpu'.captured = cpu.captured
    BY <1>0, <1>2 DEF CpuStates
  <2>2. GuardTypeOK'
    BY <1>0, <1>2, <2>1 DEF GuardTypeOK, CpuStates
  <2>3. ram.installed => GoesOn(cpu', ram'.guard, cpu'.at)
    BY <1>0, <1>2, <2>1 DEF GuardInv, GoesOn, Validates
  <2>4. cpu.kernel \in Kernels
    BY <1>0, BootGuardAssumption
  <2> QED
    BY <1>0, <1>2, <2>1, <2>2, <2>3, <2>4 DEF GuardInv, Bootable, Agrees, Awaited
<1> QED
  BY <1>1, <1>2 DEF ReachShell

LEMMA CommandStep ==
  ASSUME GuardInv, Updates \/ Confirm \/ RecoverBlocked
  PROVE  GuardInv'
<1>0. /\ GuardTypeOK /\ cpu \in CpuStates /\ ram \in Stores /\ ram.guard \in Guards
      /\ esp \in EspStates /\ task = NoCall /\ cpu.at = "shell" /\ cpu.kernel \in Good
      /\ cpu.kernel \in Kernels /\ ram.installed /\ ram = nv
      /\ GoesOn(cpu, ram.guard, "shell") /\ Agrees(esp, ram.guard)
  BY BootGuardAssumption
     DEF GuardInv, GuardTypeOK, CpuStates, EspStates, Stores, Updates, UpdateCurrent,
         UpdateBlocked, Update, Confirm, RecoverBlocked, AtShell
<1>1. CASE UpdateCurrent
  <2> DEFINE g == [state |-> "current", expected |-> cpu.kernel, rollback |-> None,
                   left |-> Attempts]
  <2>1. g \in Guards /\ ~Awaited(g) /\ g.state # "validated"
    BY <1>0, BootGuardAssumption DEF Guards, States, Awaited
  <2>2. Record(g) /\ UNCHANGED <<esp, cpu, task, updates>>
    BY <1>1 DEF UpdateCurrent
  <2> HIDE DEF g
  <2>3. Agrees(esp, g) /\ GoesOn(cpu', g, cpu'.at)
    BY <2>1 DEF Agrees, GoesOn
  <2> QED
    BY <1>0, <2>1, <2>2, <2>3, RecordStep
<1>2. ASSUME ram' = [ram EXCEPT !.cached = TRUE], nv' = ram'
      PROVE  ram' \in Stores /\ ram'.installed /\ ram'.guard = ram.guard
  BY <1>0, <1>2 DEF Stores
<1>3. CASE UpdateBlocked
  <2>1. /\ UNCHANGED <<esp, cpu, task, updates>> /\ nv' = ram'
        /\ ram' \in Stores /\ ram'.installed /\ ram'.guard = ram.guard
    BY <1>2, <1>3 DEF UpdateBlocked
  <2>2. GuardTypeOK'
    BY <1>0, <2>1 DEF GuardTypeOK
  <2> QED
    BY <1>0, <2>1, <2>2 DEF GuardInv, Bootable, Agrees, GoesOn, Awaited
<1>4. ASSUME NEW k \in Kernels, Update(k)
      PROVE  GuardInv'
  <2> DEFINE e  == Updated(k)
             ok == [state |-> "pending", expected |-> k, rollback |-> cpu.kernel,
                    left |-> Attempts]
  <2>1. /\ Call("format", e, ok, ram.guard, "shell") /\ UNCHANGED <<esp, cpu>>
        /\ updates < MaxUpdates /\ updates' = updates + 1 /\ nv' = ram'
        /\ ram' \in Stores /\ ram'.installed /\ ram'.guard = ram.guard
    BY <1>2, <1>4 DEF Update
  <2>2. /\ ok \in Guards /\ ok.state = "pending" /\ ok.rollback = cpu.kernel
    BY <1>0, BootGuardAssumption DEF Guards, States
  <2>3. e \in EspStates /\ Bootable(e) /\ e.rb = cpu.kernel /\ e.conf = "normal"
    BY <1>0, BootGuardAssumption DEF Updated, Format, EspStates, Bootable
  <2>4. cpu.captured
    BY <1>4 DEF Update
  <2> HIDE DEF e, ok
  <2>5. Agrees(e, nv'.guard) /\ Agrees(e, ok)
    BY <1>0, <2>1, <2>2, <2>3, <2>4 DEF Agrees, GoesOn
  <2>6. GoesOn(cpu', ok, "shell") /\ GoesOn(cpu', ram.guard, "shell")
    BY <1>0, <2>1, <2>2 DEF GoesOn
  <2>7. CallSound'
    <3> DEFINE bad == ram.guard
    <3>1. bad \in Guards /\ Call("format", e, ok, bad, "shell") /\ GoesOn(cpu', bad, "shell")
      BY <1>0, <2>1, <2>6
    <3> HIDE DEF bad
    <3> QED
      BY <1>0, <2>1, <2>2, <2>3, <2>5, <2>6, <3>1, FormatCallSound
  <2>8. GuardTypeOK'
    <3>1. updates' \in 0..MaxUpdates
      BY <1>0, <2>1, BootGuardAssumption DEF GuardTypeOK
    <3> QED
      BY <1>0, <2>1, <3>1 DEF GuardTypeOK
  <2> QED
    BY <1>0, <2>1, <2>7, <2>8 DEF GuardInv, Bootable, Agrees, GoesOn, Awaited
<1>5. CASE Confirm
  <2> DEFINE h == Mark(ram.guard, "validated-manual")
             g == [h EXCEPT !.expected = cpu.kernel]
  <2>1. h \in Guards /\ h.state = "validated-manual"
    BY <1>0, MarkKeeps DEF States
  <2>2. CallConf("normal", g, g, "shell") /\ UNCHANGED <<esp, nv, ram, cpu, updates>>
    BY <1>5 DEF Confirm
  <2> HIDE DEF h
  <2>3. g \in Guards /\ g.state = "validated-manual"
    BY <1>0, <2>1 DEF Guards
  <2> HIDE DEF g
  <2>4. GoesOn(cpu, g, "shell") /\ ~Awaited(g)
    BY <2>3 DEF GoesOn, Awaited
  <2>5. CallSound'
    BY <1>0, <2>2, <2>3, <2>4, ConfCallSound
  <2> QED
    BY <1>0, <2>2, <2>5 DEF GuardInv, GuardTypeOK, Bootable, Agrees, GoesOn, Awaited
<1>6. CASE RecoverBlocked
  <2> DEFINE g == IF ram.guard.rollback = None
                  THEN [state |-> "blocked", expected |-> None, rollback |-> None,
                        left |-> Attempts]
                  ELSE Mark(ram.guard, "blocked")
  <2>1. g \in Guards /\ g.state = "blocked"
    <3>1. Mark(ram.guard, "blocked") \in Guards /\ Mark(ram.guard, "blocked").state = "blocked"
      BY <1>0, MarkKeeps DEF States
    <3> QED
      BY <3>1, BootGuardAssumption DEF Guards, States
  <2>2. Record(g) /\ UNCHANGED <<esp, cpu, task, updates>>
    BY <1>6 DEF RecoverBlocked
  <2> HIDE DEF g
  <2>3. Agrees(esp, g) /\ GoesOn(cpu', g, cpu'.at)
    BY <2>1 DEF Agrees, GoesOn, Awaited
  <2> QED
    BY <1>0, <2>1, <2>2, <2>3, RecordStep
<1> QED
  BY <1>1, <1>3, <1>4, <1>5, <1>6 DEF Updates

LEMMA GuardNextInv == GuardInv /\ [NextGuarded]_guardVars => GuardInv'
<1> SUFFICES ASSUME GuardInv, [NextGuarded]_guardVars PROVE GuardInv'
  OBVIOUS
<1>1. CASE DeviceDone \/ DeviceFails \/ Recorded
  BY <1>1, DeviceStep
<1>2. CASE Check
  BY <1>2, CheckStep
<1>3. CASE ReachShell
  BY <1>3, ShellStep
<1>4. CASE Crash
  BY <1>4, CrashStep
<1>5. CASE Updates \/ Confirm \/ RecoverBlocked
  BY <1>5, CommandStep
<1>6. CASE MinimalBoot \/ \E r, c \in BOOLEAN : LoadedBoot(r, c) \/ SafeBoot(r, c)
  BY <1>6, StartStep
<1>7. CASE UNCHANGED guardVars
  BY <1>7 DEF guardVars, GuardInv, GuardTypeOK, Bootable, Agrees, GoesOn, Awaited, CallSound
<1> QED
  BY <1>1, <1>2, <1>3, <1>4, <1>5, <1>6, <1>7 DEF NextGuarded, Steps

LEMMA BootNextGuarded == [BootNext]_bootVars => [NextGuarded]_guardVars
  BY DEF BootNext, bootVars

\* The guard record, the Limine default and the two slots agree in every state
\* a crash, a device error or a choice at the boot menu can lead to
\* (update.c, orizon_update_boot_guard_check and _shell_ready), for any kernels.
THEOREM GuardRecordAgrees == BootSpec => []RecordAgrees
<1>1. BootInit => GuardInv
  BY GuardInitInv DEF BootInit
<1>2. GuardInv /\ [BootNext]_bootVars => GuardInv'
  BY BootNextGuarded, GuardNextInv
<1>3. GuardInv => RecordAgrees
  <2> SUFFICES ASSUME GuardInv PROVE RecordAgrees
    OBVIOUS
  <2>1. esp.conf \in {"normal", "fallback"}
    BY DEF GuardInv, GuardTypeOK
  <2>2. DefaultHasKernel
    BY <2>1, BootGuardAssumption DEF GuardInv, Bootable, DefaultHasKernel, DefaultIsRollback
  <2>3. AwaitedHasRollback /\ ValidatedBootsNormally
    BY DEF GuardInv, Agrees, AwaitedHasRollback, ValidatedBootsNormally, DefaultIsRollback
  <2> QED
    BY <2>2, <2>3 DEF GuardInv, RecordAgrees
<1> QED
  BY <1>1, <1>2, <1>3, PTL DEF BootSpec

-----------------------------------------------------------------------------
(* The fallback that is armed. *)

LEMMA CallIsSome == \A t \in GuardCalls : t # NoCall
<1> SUFFICES ASSUME NEW t \in GuardCalls, t = NoCall PROVE FALSE
  OBVIOUS
<1>1. DOMAIN t = {"kind", "target", "ok", "bad", "next", "step"}
  BY DEF GuardCalls
<1>2. DOMAIN t = {"kind"}
  BY DEF NoCall
<1> QED
  BY <1>1, <1>2

\* A fallback towards a main kernel that has not proved itself is armed only
\* while the record awaits that kernel.
Trusted(e, g) ==
  (e.whole /\ e.conf = "fallback" /\ e.main \notin Good) =>
    Awaited(g) /\ g.expected = e.main

Formatting == task # NoCall /\ task.step = "device" /\ task.kind = "format"

\* A call into install.c keeps that, whatever it leaves and whichever record is
\* written, and makes the main entry the default only if it may.
CallHeld ==
  /\ Formatting =>
       /\ task.target.conf = "normal"
       /\ \/ task.target.main \in Good
          \/ task.ok.state = "pending" /\ task.ok.expected = task.target.main
  /\ (task.step = "device" /\ task.kind # "format") =>
       /\ \A g \in {nv.guard, task.ok, task.bad} : Trusted(task.target, g)
       /\ Trusted(esp, task.bad)
       /\ (task.target.whole /\ DefaultIsRollback /\ task.target.conf = "normal") =>
            task.target.main \in Good
       /\ task.next = "shell" => ~Awaited(task.ok) /\ ~Awaited(task.bad)
  /\ task.step = "device" => (Awaited(task.bad) => ram.cached)
  /\ Awaited(task.ok) => ram.cached
  /\ task.step = "record" =>
       /\ Trusted(esp, task.ok)
       /\ (task.next = "shell" /\ Awaited(task.ok) /\ esp.whole) => ~DefaultIsRollback

\* The guard check compares what was booted with the record; an awaited record
\* has the configurations it needs; at the shell nothing awaited is armed.
HeldInv ==
  /\ (cpu.at = "check" /\ task = NoCall) =>
       esp.whole /\ cpu.kernel = (IF cpu.rollback THEN esp.rb ELSE esp.main)
  /\ nv.installed => Trusted(esp, nv.guard) \/ Formatting
  /\ (nv.installed /\ Awaited(nv.guard)) => nv.cached
  /\ (AtShell /\ cpu.captured /\ ram.installed /\ Awaited(ram.guard) /\ esp.whole) =>
       ~DefaultIsRollback
  /\ task # NoCall => CallHeld

LEMMA HeldInit == GuardInit => HeldInv
<1> SUFFICES ASSUME GuardInit PROVE HeldInv
  OBVIOUS
<1>1. nv.guard.state = "none" /\ nv.guard = NoGuard /\ ~ram.installed
  BY DEF GuardInit, NoFiles, NoGuard
<1>2. esp.conf = "normal" /\ cpu.at = "off" /\ task = NoCall
  BY DEF GuardInit, Format, Off
<1> QED
  BY <1>1, <1>2 DEF HeldInv, Trusted, Awaited

\* A record written by a boot step or a command keeps it.
LEMMA HeldRecord ==
  ASSUME GuardInv, HeldInv, ram.installed, NEW g \in Guards, Record(g),
         UNCHANGED esp, task' = NoCall, cpu'.at # "check",
         Trusted(esp, g), Awaited(g) => ram.cached,
         (cpu'.at = "shell" /\ Awaited(g) /\ esp.whole) => ~DefaultIsRollback
  PROVE  HeldInv'
<1>1. /\ ram' \in Stores /\ ram'.guard = g /\ ram'.cached = ram.cached /\ nv' = ram'
  BY DEF GuardInv, GuardTypeOK, Stores, Record
<1> QED
  BY <1>1 DEF HeldInv, AtShell, Trusted, Awaited, DefaultIsRollback

\* A call that writes limine.conf keeps it if each record it may leave does.
LEMMA HeldConf ==
  ASSUME GuardInv, HeldInv, task = NoCall, UNCHANGED <<esp, nv, ram, cpu>>,
         NEW c \in {"normal", "fallback"}, NEW ok \in Guards, NEW bad \in Guards,
         NEW next \in {"boot", "shell"}, CallConf(c, ok, bad, next),
         \A g \in {nv.guard, ok, bad} : Trusted(WithConf(c), g),
         \A g \in {nv.guard, bad} : Trusted(esp, g),
         (esp.whole /\ DefaultIsRollback /\ c = "normal") => esp.main \in Good,
         next = "shell" => ~Awaited(ok) /\ ~Awaited(bad),
         Awaited(ok) \/ Awaited(bad) => ram.cached
  PROVE  HeldInv'
<1>0. esp \in EspStates
  BY DEF GuardInv, GuardTypeOK, EspStates
<1>1. CASE ram.cached
  <2> DEFINE e == WithConf(c)
  <2>1. /\ e.conf = c /\ e.main = esp.main /\ e.whole = esp.whole
    BY <1>0, ConfKeeps
  <2>2. task' = [kind |-> "conf", target |-> e, ok |-> ok, bad |-> bad, next |-> next,
                 step |-> "device"]
    BY <1>1 DEF CallConf, Call
  <2> HIDE DEF e
  <2>3. /\ task'.kind = "conf" /\ task'.target = e /\ task'.ok = ok /\ task'.bad = bad
        /\ task'.next = next /\ task'.step = "device" /\ DOMAIN task' # {"kind"}
    BY <2>2
  <2>4. task' # NoCall
    BY <2>3 DEF NoCall
  <2>5. \A g \in {nv.guard, ok, bad} : Trusted(e, g)
    BY DEF e
  <2>6. CallHeld'
    BY <1>1, <2>1, <2>3, <2>4, <2>5 DEF CallHeld, Formatting, Trusted, Awaited, DefaultIsRollback
  <2> QED
    BY <2>4, <2>6 DEF HeldInv, AtShell, Trusted, Awaited, DefaultIsRollback
<1>2. CASE ~ram.cached
  <2>2. task' = [kind |-> "none", target |-> esp, ok |-> bad, bad |-> bad, next |-> next,
                 step |-> "device"]
    BY <1>2 DEF CallConf, Call
  <2>3. /\ task'.kind = "none" /\ task'.target = esp /\ task'.ok = bad /\ task'.bad = bad
        /\ task'.next = next /\ task'.step = "device" /\ DOMAIN task' # {"kind"}
    BY <2>2
  <2>4. task' # NoCall
    BY <2>3 DEF NoCall
  <2>5. CallHeld'
    BY <1>2, <2>3, <2>4 DEF CallHeld, Formatting, Trusted, Awaited, DefaultIsRollback
  <2> QED
    BY <2>4, <2>5 DEF HeldInv, AtShell, Trusted, Awaited, DefaultIsRollback
<1> QED
  BY <1>1, <1>2

\* A format whose target is the normal entry of a trusted or expected kernel.
LEMMA HeldFormat ==
  ASSUME GuardInv, HeldInv, UNCHANGED <<esp, cpu>>, nv' = ram',
         NEW e \in EspStates, NEW ok \in Guards, NEW bad \in Guards,
         NEW next \in {"boot", "shell"}, Call("format", e, ok, bad, next),
         e.conf = "normal", e.main \in Good \/ (ok.state = "pending" /\ ok.expected = e.main),
         Awaited(ok) \/ Awaited(bad) \/ Awaited(nv'.guard) => ram'.cached
  PROVE  HeldInv'
<1>1. task' = [kind |-> "format", target |-> e, ok |-> ok, bad |-> bad, next |-> next,
               step |-> "device"]
  BY DEF Call
<1>2. /\ task'.kind = "format" /\ task'.target = e /\ task'.ok = ok /\ task'.bad = bad
      /\ task'.next = next /\ task'.step = "device" /\ DOMAIN task' # {"kind"}
  BY <1>1
<1>3. task' # NoCall
  BY <1>2 DEF NoCall
<1>4. Formatting'
  BY <1>2, <1>3 DEF Formatting
<1>5. CallHeld'
  BY <1>2, <1>3 DEF CallHeld, Formatting, Trusted, Awaited, DefaultIsRollback
<1> QED
  BY <1>2, <1>3, <1>4, <1>5 DEF HeldInv, AtShell, Trusted, Awaited, DefaultIsRollback

\* What a call leaves on the ESP when it is cut short.
LEMMA RemainsHeld ==
  ASSUME GuardInv, HeldInv, task # NoCall, task.step = "device", esp' \in Remains
  PROVE  /\ nv.installed => Trusted(esp', nv.guard)
         /\ Trusted(esp', task.bad)
         /\ task.next = "shell" /\ Awaited(task.bad) => ~esp'.whole
<1>1. CASE task.kind = "format"
  <2>1. esp' = [esp EXCEPT !.whole = FALSE]
    BY <1>1 DEF Remains
  <2>2. esp'.whole = FALSE
    BY <2>1 DEF GuardInv, GuardTypeOK
  <2> QED
    BY <2>2 DEF Trusted
<1>2. CASE task.kind # "format"
  <2>1. esp' = esp \/ esp' = task.target
    BY <1>2 DEF Remains
  <2> QED
    BY <1>2, <2>1 DEF HeldInv, CallHeld, Formatting
<1> QED
  BY <1>1, <1>2

LEMMA HeldDevice ==
  ASSUME GuardInv, HeldInv, DeviceDone \/ DeviceFails \/ Recorded
  PROVE  HeldInv'
<1>0. /\ task # NoCall /\ CallSound /\ ram.installed /\ ram = nv /\ CallHeld
      /\ ram \in Stores /\ cpu \in CpuStates
  BY DEF DeviceDone, DeviceFails, Recorded, GuardInv, GuardTypeOK, CallSound, HeldInv,
         CpuStates, Stores
<1>1. task \in GuardCalls
  BY <1>0 DEF CallSound
<1>2. CASE DeviceDone
  <2>1. /\ task.step = "device" /\ esp' = task.target
        /\ task' = [task EXCEPT !.step = "record"] /\ UNCHANGED <<nv, ram, cpu, updates>>
    BY <1>2 DEF DeviceDone
  <2>2. /\ task' \in GuardCalls /\ task'.step = "record" /\ task'.ok = task.ok
        /\ task'.next = task.next
    BY <1>1, <2>1 DEF GuardCalls
  <2>3. task' # NoCall
    BY <2>2, CallIsSome
  <2>4. Trusted(esp', nv.guard) /\ Trusted(esp', task.ok)
    BY <1>0, <2>1 DEF CallHeld, Formatting, Trusted
  <2>5. (task.next = "shell" /\ Awaited(task.ok)) => esp'.conf # "fallback"
    BY <1>0, <2>1 DEF CallHeld, Formatting
  <2>6. CallHeld'
    BY <1>0, <2>1, <2>2, <2>3, <2>4, <2>5
       DEF CallHeld, Formatting, Trusted, Awaited, DefaultIsRollback
  <2> QED
    BY <1>0, <2>1, <2>3, <2>4, <2>6 DEF HeldInv, AtShell, Trusted, Awaited
<1>3. CASE DeviceFails
  <2>1. /\ task.step = "device" /\ esp' \in Remains
        /\ task' = [task EXCEPT !.step = "record", !.ok = task.bad]
        /\ UNCHANGED <<nv, ram, cpu, updates>>
    BY <1>3 DEF DeviceFails
  <2>2. /\ task' \in GuardCalls /\ task'.step = "record" /\ task'.ok = task.bad
        /\ task'.next = task.next
    <3> DEFINE t == [task EXCEPT !.step = "record"]
    <3>1. t \in GuardCalls /\ t.step = "record" /\ t.next = task.next
      BY <1>1 DEF GuardCalls
    <3>2. task' = [t EXCEPT !.ok = task.bad] /\ task.bad \in Guards
      BY <1>1, <2>1 DEF GuardCalls
    <3> HIDE DEF t
    <3> QED
      BY <3>1, <3>2 DEF GuardCalls
  <2>3. task' # NoCall
    BY <2>2, CallIsSome
  <2>4. /\ nv.installed => Trusted(esp', nv.guard)
        /\ Trusted(esp', task.bad)
        /\ task.next = "shell" /\ Awaited(task.bad) => ~esp'.whole
    BY <1>0, <2>1, RemainsHeld
  <2>5. CallHeld'
    BY <1>0, <2>1, <2>2, <2>3, <2>4 DEF CallHeld, Formatting, Trusted, Awaited
  <2> QED
    BY <1>0, <2>1, <2>3, <2>4, <2>5 DEF HeldInv, AtShell, Trusted, Awaited
<1>4. CASE Recorded
  <2>1. /\ task.step = "record" /\ Record(task.ok)
        /\ task' = NoCall /\ cpu' = [cpu EXCEPT !.at = task.next] /\ UNCHANGED esp
    BY <1>4 DEF Recorded
  <2>2. cpu'.at = task.next /\ task.next \in {"boot", "shell"} /\ task.ok \in Guards
    BY <1>0, <1>1, <2>1 DEF CpuStates, GuardCalls
  <2> QED
    BY <1>0, <2>1, <2>2, HeldRecord DEF CallHeld
<1> QED
  BY <1>2, <1>3, <1>4

LEMMA HeldStart ==
  ASSUME GuardInv, HeldInv,
         MinimalBoot \/ \E r, c \in BOOLEAN : LoadedBoot(r, c) \/ SafeBoot(r, c)
  PROVE  HeldInv'
<1>1. /\ task' = NoCall /\ task = NoCall /\ UNCHANGED esp /\ nv' \in {nv, NoFiles}
      /\ \/ cpu'.at = "boot"
         \/ /\ cpu'.at = "check" /\ esp.whole
            /\ cpu'.kernel = (IF cpu'.rollback THEN esp.rb ELSE esp.main)
  BY DEF GuardInv, GuardTypeOK, MinimalBoot, LoadedBoot, SafeBoot, Start
<1> QED
  BY <1>1, GuardTypes DEF HeldInv, AtShell, Formatting, Trusted, Awaited

LEMMA HeldCrash ==
  ASSUME GuardInv, HeldInv, Crash
  PROVE  HeldInv'
<1>1. cpu' = Off /\ task' = NoCall /\ UNCHANGED nv /\ cpu'.at = "off"
  BY DEF Crash, Off
<1>2. nv.installed => Trusted(esp', nv.guard)
  <2>1. CASE UNCHANGED esp /\ (task # NoCall => task.step = "record")
    BY <2>1 DEF HeldInv, Formatting, Trusted
  <2>2. CASE task # NoCall /\ task.step = "device" /\ esp' \in Remains
    BY <2>2, RemainsHeld
  <2> QED
    BY <2>1, <2>2 DEF Crash
<1> QED
  BY <1>1, <1>2 DEF HeldInv, AtShell, Trusted, Awaited

LEMMA HeldCheck ==
  ASSUME GuardInv, HeldInv, Check
  PROVE  HeldInv'
<1>0. /\ cpu \in CpuStates /\ ram \in Stores /\ ram.guard \in Guards
      /\ esp \in EspStates /\ task = NoCall /\ cpu.at = "check" /\ esp.whole
      /\ cpu.kernel = (IF cpu.rollback THEN esp.rb ELSE esp.main)
      /\ cpu.kernel \in Kernels
      /\ nv.installed => Trusted(esp, nv.guard)
  BY DEF GuardInv, GuardTypeOK, HeldInv, Formatting, EspStates, CpuStates, Stores, Check,
         Checking, CheckNothing, CheckUncaptured, CheckRollbackEntry, CheckExpected, CheckOther
<1>1. cpu' = [cpu EXCEPT !.at = "boot"] => cpu'.at = "boot"
  BY <1>0 DEF CpuStates
<1>2. (ram.installed /\ Awaited(ram.guard)) => ram = nv /\ ram.cached /\ esp.rb \in Good
  BY <1>0 DEF GuardInv, HeldInv, Agrees
<1>3. CASE CheckNothing
  BY <1>0, <1>1, <1>3 DEF CheckNothing, HeldInv, AtShell, Formatting, Trusted, Awaited
<1>4. CASE CheckUncaptured
  <2> DEFINE g == Mark(ram.guard, "pending")
  <2>1. g \in Guards /\ g.expected = ram.guard.expected /\ g.state = "pending"
    BY <1>0, MarkKeeps DEF States
  <2>2. /\ Record(g) /\ cpu' = [cpu EXCEPT !.at = "boot"] /\ UNCHANGED <<esp, task>>
        /\ ram.installed /\ Awaited(ram.guard)
    BY <1>4 DEF CheckUncaptured
  <2> HIDE DEF g
  <2>3. Trusted(esp, g)
    BY <1>0, <1>2, <2>1, <2>2 DEF Trusted, Awaited
  <2> QED
    BY <1>0, <1>1, <1>2, <2>1, <2>2, <2>3, HeldRecord
<1>5. CASE CheckOther
  <2> DEFINE s == IF cpu.kernel = ram.guard.rollback THEN "rollback-running"
                  ELSE "unexpected-payload"
             g == Mark(ram.guard, s)
  <2>1. s \in States /\ s \notin {"pending", "testing"}
    BY DEF States
  <2>2. g \in Guards /\ ~Awaited(g)
    BY <1>0, <2>1, MarkKeeps DEF Awaited
  <2>3. /\ Record(g) /\ cpu' = [cpu EXCEPT !.at = "boot"] /\ UNCHANGED <<esp, task>>
        /\ ram.installed /\ Awaited(ram.guard) /\ ~cpu.rollback
        /\ cpu.kernel # ram.guard.expected
    BY <1>5 DEF CheckOther
  <2> HIDE DEF g
  <2>4. Trusted(esp, g)
    BY <1>0, <1>2, <2>2, <2>3 DEF Trusted
  <2> QED
    BY <1>0, <1>1, <2>2, <2>3, <2>4, HeldRecord
<1>6. CASE CheckRollbackEntry
  <2> DEFINE g   == Mark(ram.guard, "rollback-booted")
             ok  == Mark(ram.guard, "auto-restored")
             bad == Mark(ram.guard, "restore-failed")
  <2>1. /\ g \in Guards /\ ~Awaited(g)
        /\ ok \in Guards /\ ~Awaited(ok)
        /\ bad \in Guards /\ ~Awaited(bad)
    BY <1>0, MarkKeeps DEF States, Awaited
  <2>2. /\ Record(g) /\ Call("format", Restored, ok, bad, "boot") /\ ram.installed
        /\ UNCHANGED <<esp, cpu>> /\ cpu.rollback /\ Awaited(ram.guard)
    BY <1>6 DEF CheckRollbackEntry, MarkedRestore
  <2> HIDE DEF g, ok, bad
  <2>3. nv' = ram' /\ ram'.guard = g
    BY <1>0, <2>1, <2>2 DEF Stores, Record
  <2>4. Restored \in EspStates /\ Restored.conf = "normal" /\ Restored.main \in Good
    BY <1>0, <1>2, <2>2 DEF Restored, Format, EspStates
  <2> QED
    BY <2>1, <2>2, <2>3, <2>4, HeldFormat
<1>7. CASE CheckExpected
  <2> DEFINE g == [ram.guard EXCEPT !.state = "testing", !.left = OneLess(@)]
  <2>1. /\ g \in Guards /\ g.state = "testing" /\ g.expected = ram.guard.expected
    <3> DEFINE h == [ram.guard EXCEPT !.state = "testing"]
    <3>1. /\ h \in Guards /\ h.state = "testing" /\ h.expected = ram.guard.expected
          /\ h.left = ram.guard.left
      BY <1>0 DEF Guards, States
    <3>2. OneLess(h.left) \in 0..Attempts
      BY <3>1, BootGuardAssumption DEF OneLess, Guards
    <3>3. g = [h EXCEPT !.left = OneLess(h.left)]
      BY <3>1
    <3> HIDE DEF h, g
    <3> QED
      BY <3>1, <3>2, <3>3 DEF Guards
  <2>2. /\ CallConf("fallback", g, g, "boot") /\ UNCHANGED <<esp, nv, ram, cpu, updates>>
        /\ ram.installed /\ Awaited(ram.guard) /\ cpu.kernel = ram.guard.expected
        /\ ~cpu.rollback
    BY <1>7 DEF CheckExpected
  <2> HIDE DEF g
  <2>3. WithConf("fallback").main = esp.main
    BY <1>0, ConfKeeps
  <2>4. \A h \in {nv.guard, g} : Awaited(h) /\ h.expected = esp.main
    BY <1>0, <1>2, <2>1, <2>2 DEF Awaited
  <2>5. \A h \in {nv.guard, g} : Trusted(WithConf("fallback"), h) /\ Trusted(esp, h)
    BY <2>3, <2>4 DEF Trusted
  <2> QED
    BY <1>0, <1>2, <2>1, <2>2, <2>5, HeldConf
<1> QED
  BY <1>3, <1>4, <1>5, <1>6, <1>7 DEF Check

LEMMA HeldShell ==
  ASSUME GuardInv, HeldInv, ReachShell
  PROVE  HeldInv'
<1>0. /\ cpu \in CpuStates /\ ram.guard \in Guards /\ esp \in EspStates
      /\ task = NoCall /\ cpu.at = "boot" /\ cpu.kernel \in Good
      /\ UNCHANGED <<esp, nv, ram, updates>>
  BY DEF GuardInv, GuardTypeOK, CpuStates, EspStates, Stores, ReachShell
<1>1. CASE Validates /\ CallConf("normal", Mark(ram.guard, "validated"),
                                 NormalFailed(ram.guard), "shell") /\ UNCHANGED cpu
  <2> DEFINE ok  == Mark(ram.guard, "validated")
             bad == NormalFailed(ram.guard)
  <2>1. /\ ok \in Guards /\ ~Awaited(ok) /\ bad \in Guards /\ ~Awaited(bad)
    BY <1>0, MarkKeeps DEF States, NormalFailed, Awaited
  <2>2. CallConf("normal", ok, bad, "shell")
    BY <1>1
  <2> HIDE DEF ok, bad
  <2>3. WithConf("normal").conf = "normal"
    BY <1>0, ConfKeeps
  <2>4. (esp.whole /\ DefaultIsRollback) => esp.main \in Good
    BY <1>0, <1>1 DEF Validates, GuardInv, HeldInv, Formatting, Trusted, DefaultIsRollback
  <2>5. \A g \in {nv.guard, ok, bad} : Trusted(WithConf("normal"), g) /\ Trusted(esp, g)
    BY <2>3, <2>4 DEF Trusted, DefaultIsRollback
  <2> QED
    BY <1>0, <1>1, <2>1, <2>2, <2>4, <2>5, HeldConf
<1>2. CASE ~Validates /\ cpu' = [cpu EXCEPT !.at = "shell"] /\ UNCHANGED task
  <2>1. cpu'.at = "shell" /\ cpu'.captured = cpu.captured
    BY <1>0, <1>2 DEF CpuStates
  <2>2. ~(ram.installed /\ Awaited(ram.guard) /\ cpu.captured)
    BY <1>0, <1>2 DEF GuardInv, GoesOn, Validates
  <2> QED
    BY <1>0, <1>2, <2>1, <2>2 DEF HeldInv, AtShell, Formatting, Trusted, Awaited
<1> QED
  BY <1>1, <1>2 DEF ReachShell

LEMMA HeldCommand ==
  ASSUME GuardInv, HeldInv, Updates \/ Confirm \/ RecoverBlocked
  PROVE  HeldInv'
<1>0. /\ cpu \in CpuStates /\ ram \in Stores /\ ram.guard \in Guards
      /\ esp \in EspStates /\ AtShell /\ task = NoCall /\ cpu.at = "shell"
      /\ cpu.kernel \in Kernels /\ ram.installed /\ ram = nv
      /\ Trusted(esp, ram.guard)
      /\ Awaited(ram.guard) => ram.cached
      /\ (cpu.captured /\ Awaited(ram.guard) /\ esp.whole) => ~DefaultIsRollback
      /\ (Awaited(ram.guard) /\ esp.whole) => ram.guard.rollback \in Good
      /\ None \notin Good
  BY BootGuardAssumption
     DEF GuardInv, HeldInv, GuardTypeOK, CpuStates, EspStates, Stores, Updates, UpdateCurrent,
         UpdateBlocked, Update, Confirm, RecoverBlocked, AtShell, Formatting, Agrees
<1>1. (cpu.captured /\ esp.whole /\ DefaultIsRollback) => esp.main \in Good
  BY <1>0 DEF Trusted, DefaultIsRollback
<1>2. ASSUME cpu.captured, NEW g \in Guards PROVE Trusted(esp, g)
  BY <1>1, <1>2 DEF Trusted, DefaultIsRollback
<1>3. CASE UpdateCurrent
  <2> DEFINE g == [state |-> "current", expected |-> cpu.kernel, rollback |-> None,
                   left |-> Attempts]
  <2>1. g \in Guards /\ ~Awaited(g)
    BY <1>0, BootGuardAssumption DEF Guards, States, Awaited
  <2>2. Record(g) /\ UNCHANGED <<esp, cpu, task, updates>> /\ cpu.captured
    BY <1>3 DEF UpdateCurrent
  <2> HIDE DEF g
  <2>3. Trusted(esp, g)
    BY <1>2, <2>1, <2>2
  <2> QED
    BY <1>0, <2>1, <2>2, <2>3, HeldRecord
<1>4. ASSUME ram' = [ram EXCEPT !.cached = TRUE], nv' = ram'
      PROVE  ram' \in Stores /\ ram'.installed /\ ram'.guard = ram.guard /\ ram'.cached
  BY <1>0, <1>4 DEF Stores
<1>5. CASE UpdateBlocked
  <2>1. /\ UNCHANGED <<esp, cpu, task>> /\ nv' = ram' /\ ram'.guard = ram.guard /\ ram'.cached
        /\ cpu.captured
    BY <1>4, <1>5 DEF UpdateBlocked
  <2> QED
    BY <1>0, <2>1 DEF HeldInv, AtShell, Trusted, Awaited, DefaultIsRollback
<1>6. ASSUME NEW k \in Kernels, Update(k)
      PROVE  HeldInv'
  <2> DEFINE e   == Updated(k)
             ok  == [state |-> "pending", expected |-> k, rollback |-> cpu.kernel,
                     left |-> Attempts]
             bad == ram.guard
  <2>1. /\ Call("format", e, ok, bad, "shell") /\ UNCHANGED <<esp, cpu>>
        /\ nv' = ram' /\ ram'.cached
    BY <1>4, <1>6 DEF Update
  <2>2. ok \in Guards /\ ok.state = "pending" /\ ok.expected = k /\ bad \in Guards
    BY <1>0, BootGuardAssumption DEF Guards, States
  <2>3. e \in EspStates /\ e.conf = "normal" /\ e.main = k
    BY <1>0 DEF Updated, Format, EspStates
  <2> HIDE DEF e, ok, bad
  <2> QED
    BY <2>1, <2>2, <2>3, HeldFormat
<1>7. CASE Confirm
  <2> DEFINE h == Mark(ram.guard, "validated-manual")
             g == [h EXCEPT !.expected = cpu.kernel]
  <2>1. h \in Guards /\ h.state = "validated-manual"
    BY <1>0, MarkKeeps DEF States
  <2>2. CallConf("normal", g, g, "shell") /\ UNCHANGED <<esp, nv, ram, cpu>> /\ cpu.captured
    BY <1>7 DEF Confirm
  <2> HIDE DEF h
  <2>3. g \in Guards /\ ~Awaited(g)
    BY <1>0, <2>1 DEF Guards, Awaited
  <2> HIDE DEF g
  <2>4. WithConf("normal").conf = "normal"
    BY <1>0, ConfKeeps
  <2>5. \A x \in {nv.guard, g} : Trusted(WithConf("normal"), x) /\ Trusted(esp, x)
    BY <1>0, <1>2, <2>2, <2>3, <2>4 DEF Trusted
  <2> QED
    BY <1>0, <1>1, <2>2, <2>3, <2>5, HeldConf
<1>8. CASE RecoverBlocked
  <2> DEFINE g == IF ram.guard.rollback = None
                  THEN [state |-> "blocked", expected |-> None, rollback |-> None,
                        left |-> Attempts]
                  ELSE Mark(ram.guard, "blocked")
  <2>1. g \in Guards /\ g.state = "blocked"
    <3>1. Mark(ram.guard, "blocked") \in Guards /\ Mark(ram.guard, "blocked").state = "blocked"
      BY <1>0, MarkKeeps DEF States
    <3> QED
      BY <3>1, BootGuardAssumption DEF Guards, States
  <2>2. /\ Record(g) /\ UNCHANGED <<esp, cpu, task>>
        /\ ram.guard.rollback = None \/ ~ram.cached
    BY <1>8 DEF RecoverBlocked
  <2> HIDE DEF g
  <2>3. ~Awaited(g) /\ Trusted(esp, g)
    BY <1>0, <2>1, <2>2 DEF Trusted, Awaited
  <2> QED
    BY <1>0, <2>1, <2>2, <2>3, HeldRecord
<1> QED
  BY <1>3, <1>5, <1>6, <1>7, <1>8 DEF Updates

LEMMA HeldNext == GuardInv /\ HeldInv /\ [NextGuarded]_guardVars => HeldInv'
<1> SUFFICES ASSUME GuardInv, HeldInv, [NextGuarded]_guardVars PROVE HeldInv'
  OBVIOUS
<1>1. CASE DeviceDone \/ DeviceFails \/ Recorded
  BY <1>1, HeldDevice
<1>2. CASE Check
  BY <1>2, HeldCheck
<1>3. CASE ReachShell
  BY <1>3, HeldShell
<1>4. CASE Crash
  BY <1>4, HeldCrash
<1>5. CASE Updates \/ Confirm \/ RecoverBlocked
  BY <1>5, HeldCommand
<1>6. CASE MinimalBoot \/ \E r, c \in BOOLEAN : LoadedBoot(r, c) \/ SafeBoot(r, c)
  BY <1>6, HeldStart
<1>7. CASE UNCHANGED guardVars
  BY <1>7 DEF guardVars, HeldInv, AtShell, Formatting, Trusted, Awaited, DefaultIsRollback,
              CallHeld
<1> QED
  BY <1>1, <1>2, <1>3, <1>4, <1>5, <1>6, <1>7 DEF NextGuarded, Steps

\* A step that lifts the fallback is the end of a call that may.
LEMMA LiftedWell ==
  ASSUME GuardInv, HeldInv, [NextGuarded]_guardVars, Lifted
  PROVE  \/ esp'.main \in Good
         \/ task # NoCall /\ task.ok.state = "pending" /\ task.ok.expected = esp'.main
<1>1. /\ task # NoCall /\ task.step = "device" /\ CallSound /\ CallHeld
      /\ esp' = task.target \/ esp' \in Remains
  <2>1. esp' # esp
    BY DEF Lifted, DefaultIsRollback
  <2>2. DeviceDone \/ DeviceFails \/ Crash
    BY <2>1
       DEF NextGuarded, guardVars, Steps, Recorded, Check, CheckNothing, CheckUncaptured,
           CheckRollbackEntry, CheckExpected, CheckOther, ReachShell, Updates, UpdateCurrent,
           UpdateBlocked, Update, Confirm, RecoverBlocked, MinimalBoot, LoadedBoot, SafeBoot,
           Start
  <2> QED
    <3>1. task # NoCall /\ task.step = "device"
      BY <2>1, <2>2 DEF DeviceDone, DeviceFails, Crash
    <3>2. esp' = task.target \/ esp' \in Remains
      BY <2>1, <2>2 DEF DeviceDone, DeviceFails, Crash
    <3> QED
      BY <3>1, <3>2 DEF GuardInv, HeldInv
<1>2. task \in GuardCalls /\ task.target \in EspStates /\ esp \in EspStates
  BY <1>1 DEF CallSound, GuardCalls, GuardInv, GuardTypeOK, EspStates
<1>3. esp' = task.target /\ task.target.whole /\ task.target.conf = "normal"
  <2>1. CASE task.kind = "format" /\ esp' \in Remains
    <3>1. esp' = [esp EXCEPT !.whole = FALSE]
      BY <2>1 DEF Remains
    <3>2. esp'.whole = FALSE
      BY <1>2, <3>1 DEF EspStates
    <3> QED
      BY <3>2 DEF Lifted
  <2>2. esp' = task.target
    <3>1. CASE task.kind # "format" /\ esp' \in Remains
      BY <3>1 DEF Remains, Lifted, DefaultIsRollback
    <3> QED
      BY <1>1, <2>1, <3>1
  <2> QED
    BY <1>2, <2>2 DEF Lifted, DefaultIsRollback, EspStates
<1> QED
  BY <1>1, <1>3 DEF CallHeld, Formatting, Lifted

\* A fallback that is armed stays armed until the main entry starts a kernel
\* that has reached the shell or an update writes new slots, for any kernels,
\* updates, cuts, refused writes and choices at the boot menu
\* (orizon_update_boot_guard_check, orizon_update_boot_guard_shell_ready).
THEOREM FallbackStaysHeld == BootSpec => FallbackHeld
<1> DEFINE I == GuardInv /\ HeldInv
<1>1. BootInit => I
  BY GuardInitInv, HeldInit DEF BootInit
<1>2. I /\ [BootNext]_bootVars => I'
  BY BootNextGuarded, GuardNextInv, HeldNext
<1>3. I /\ [BootNext]_bootVars =>
        [Lifted => \/ esp'.main \in Good
                   \/ task # NoCall /\ task.ok.state = "pending"
                        /\ task.ok.expected = esp'.main]_guardVars
  BY BootNextGuarded, LiftedWell
<1> QED
  BY <1>1, <1>2, <1>3, PTL DEF BootSpec, FallbackHeld
=============================================================================
