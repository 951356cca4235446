--------------------------- MODULE DesktopConfig ---------------------------
(***************************************************************************)
(* The configuration of the desktop (system/desktop.c): the policy, the    *)
(* session and the settings under /system, the user's Hyprland-style file  *)
(* with the files it includes, the runtime files made from it, the state   *)
(* of the session manager, and the restore at boot.  A file is a sequence  *)
(* of lines <<key, value>>; a missing file is not in DOMAIN files.  One    *)
(* key stands for the keys of its kind: gaps-in for the bounded numbers,   *)
(* shadows for the switches, keyboard-layout for the names, scale for what *)
(* the user's file does not give back.  Log files are left out.            *)
(***************************************************************************)
EXTENDS Integers, FiniteSets, SequencesExt, TLC

CONSTANTS
  StartFiles,       \* configuration files found on the first boot
  ConfigTexts,      \* the texts a user writes into a configuration file
  UserRoom,         \* lines of the user's file that desktop config apply reads
  SourceRoom,       \* lines of an included file that are read
  SourceDepth,      \* DESKTOP_HYPR_SOURCE_MAX_DEPTH
  SourceFiles,      \* DESKTOP_HYPR_SOURCE_MAX_FILES
  MaxConfigCalls,   \* commands in a behaviour
  MaxConfigFaults   \* of which so many meet a refused write

ASSUME ConfigAssumption == /\ UserRoom \in Nat \ {0} /\ SourceRoom \in Nat \ {0}
                           /\ SourceDepth \in Nat /\ SourceFiles \in Nat \ {0}
                           /\ MaxConfigCalls \in Nat /\ MaxConfigFaults \in Nat

VARIABLES
  files,    \* the configuration files in memory
  stored,   \* what the last save of the file system holds of them
  last,     \* the last command: what it was and whether every write was done
  tally     \* commands and refused writes so far

configVars == <<files, stored, last, tally>>
-----------------------------------------------------------------------------
(* Values. *)
Digits == [v \in {"0", "1", "2", "3", "6", "12", "48", "99"} |->
             CASE v = "0" -> 0 [] v = "1" -> 1 [] v = "2" -> 2 [] v = "3" -> 3
               [] v = "6" -> 6 [] v = "12" -> 12 [] v = "48" -> 48 [] v = "99" -> 99]
ParseInt(v, fallback) == IF v \in DOMAIN Digits THEN Digits[v] ELSE fallback
Decimal(n) == CHOOSE v \in DOMAIN Digits : Digits[v] = n
ClampTo(n, lo, hi) == IF n < lo THEN lo ELSE IF n > hi THEN hi ELSE n
BoolValue(v, fallback) == CASE v \in {"yes", "true", "on", "1"} -> "yes"
                            [] v \in {"no", "false", "off", "0"} -> "no"
                            [] OTHER -> fallback
(* A name of letters, digits, dash, underscore and dot. *)
TokenSafe(v) == v # "a/b"

Numbers == [gaps |-> <<0, 48>>, scale |-> <<1, 3>>]
Switches == {"shadows", "autostart", "focus"}

(* The value a key takes when v is read for it and old stands there now. *)
Accepted(key, v, old) ==
  CASE key \in DOMAIN Numbers ->
         Decimal(ClampTo(ParseInt(v, Digits[old]), Numbers[key][1], Numbers[key][2]))
    [] key \in Switches -> BoolValue(v, old)
    [] OTHER -> IF TokenSafe(v) THEN v ELSE old

SessionDefaults == [theme |-> "graphite", layout |-> "dwindle", autostart |-> "yes", focus |-> "no"]
SettingsDefaults == [scale |-> "1", gaps |-> "6", shadows |-> "yes", keyboard |-> "us"]
SessionText(s) == <<<<"theme", s.theme>>, <<"layout", s.layout>>,
                    <<"autostart", s.autostart>>, <<"focus", s.focus>>>>
SettingsText(s) == <<<<"scale", s.scale>>, <<"gaps", s.gaps>>, <<"shadows", s.shadows>>,
                     <<"keyboard", s.keyboard>>>>

(* The user's file made from the session and the settings. *)
UserText(session, settings) ==
  <<<<"$terminal", "orizon">>, <<"monitor", settings.scale>>,
    IF session.autostart = "yes" THEN <<"exec-once", "terminal">> ELSE <<"#", "">>,
    <<"input:kb_layout", settings.keyboard>>,
    <<"input:follow_mouse", IF session.focus = "yes" THEN "1" ELSE "0">>,
    <<"general:layout", session.layout>>, <<"general:gaps_in", settings.gaps>>,
    <<"decoration:shadow:enabled", IF settings.shadows = "yes" THEN "true" ELSE "false">>,
    <<"windowrulev2", "tile">>, <<"layerrule", "blur">>, <<"source", "local">>,
    <<"bind", "exec">>, <<"master:mfact", "0.58">>>>
Template == UserText(SessionDefaults, SettingsDefaults)

RuntimeFiles == {"binds", "autostart", "rules", "monitors", "layers", "runtime"}

StateText(health, desired, runtime, policy) ==
  <<<<"health", health>>, <<"desired-state", desired>>, <<"runtime-state", runtime>>,
    <<"policy", policy>>>>

(* What orizon_desktop_ensure_defaults writes, in its order. *)
DefaultText ==
  [policy |-> <<<<"enabled", "no">>>>, template |-> Template,
   local |-> <<<<"env", "1">>, <<"workspace", "1">>>>,
   session |-> SessionText(SessionDefaults), settings |-> SettingsText(SettingsDefaults),
   binds |-> <<<<"bind", "exec">>>>, autostart |-> <<<<"exec-once", "terminal">>>>,
   rules |-> <<<<"windowrulev2", "tile">>>>, monitors |-> <<<<"monitor", "1">>>>,
   layers |-> <<<<"layerrule", "blur">>>>,
   runtime |-> <<<<"submap", "default">>, <<"master:mfact", "0.58">>, <<"source", "local">>>>,
   notes |-> <<<<"backend", "framebuffer">>>>,
   state |-> StateText("PASS", "stopped", "inactive", "disabled")]
DefaultOrder == <<"policy", "template", "local", "session", "settings", "binds", "autostart",
                  "rules", "monitors", "layers", "runtime", "notes", "state">>
-----------------------------------------------------------------------------
(* A write truncates the file it opens, and the close saves the tree.  A    *)
(* fault names a file: a command cannot open it, leaves it empty, or finds  *)
(* the disk gone when it closes it.  From then on nothing more is durable   *)
(* (Off), whether the command goes on or the power has failed.              *)
NoFault == [path |-> "none", how |-> "none"]
Off(fs) == "off" \in DOMAIN fs
Gone(fs) == ("off" :> <<>>) @@ fs
Written(fs, p, text, f) ==
  CASE Off(fs) -> fs
    [] ~Off(fs) /\ f.path # p -> (p :> text) @@ fs
    [] ~Off(fs) /\ f.path = p -> CASE f.how = "open" -> fs
                                   [] f.how = "write" -> (p :> <<>>) @@ fs
                                   [] f.how = "save" -> Gone(fs)
AppendedTo(fs, p, line, f) ==
  IF f.path = p /\ f.how = "write" /\ p \in DOMAIN fs THEN fs
  ELSE Written(fs, p, Append(IF p \in DOMAIN fs THEN fs[p] ELSE <<>>, line), f)
Removed(fs, p, f) ==
  IF f.path # p THEN [q \in DOMAIN fs \ {p} |-> fs[q]]
  ELSE IF f.how = "save" THEN Gone(fs) ELSE fs
TextOf(fs, p, room) ==
  IF p \in DOMAIN fs THEN SubSeq(fs[p], 1, IF Len(fs[p]) < room THEN Len(fs[p]) ELSE room)
  ELSE <<>>
(* Some line outside a comment holds an assignment. *)
Usable(text) == \E i \in 1..Len(text) : text[i][1] \notin {"#", "{", "}", "?"}

WrittenAll(fs, texts, order, f) == FoldLeft(LAMBDA a, p : Written(a, p, texts[p], f), fs, order)
EnsureDefaults(fs, f) ==
  FoldLeft(LAMBDA a, p : IF p \in DOMAIN a THEN a ELSE Written(a, p, DefaultText[p], f),
           fs, DefaultOrder)

ValueIn(text, key, fallback) ==
  LET found == SelectSeq(text, LAMBDA l : l[1] = key)
  IN IF found = <<>> THEN fallback ELSE found[1][2]
LoadedFrom(text, defaults) ==
  [k \in DOMAIN defaults |-> Accepted(k, ValueIn(text, k, defaults[k]), defaults[k])]
LoadSession(fs) == LoadedFrom(TextOf(fs, "session", UserRoom), SessionDefaults)
LoadSettings(fs) == LoadedFrom(TextOf(fs, "settings", UserRoom), SettingsDefaults)

PolicyEnabled(fs) == "policy" \in DOMAIN fs /\ <<"enabled", "yes">> \in ToSet(fs["policy"])
-----------------------------------------------------------------------------
(* Keys of the user's file. *)
GlobalKeys == {"$terminal", "monitor", "bind", "exec-once", "env", "windowrulev2", "layerrule",
               "workspace", "source", "submap", "plugin"}
HintKeys == {"master:mfact"}
QualifiedKeys == {"general:layout", "general:gaps_in", "decoration:shadow:enabled",
                  "input:kb_layout", "input:follow_mouse"} \cup HintKeys
SettingOf == ("general:gaps_in" :> "gaps") @@ ("decoration:shadow:enabled" :> "shadows")
             @@ ("input:kb_layout" :> "keyboard")
SupportedKeys == DOMAIN SettingOf \cup {"general:layout", "input:follow_mouse"}

RuntimePath(key) ==
  CASE key = "monitor" -> "monitors"
    [] key = "bind" -> "binds"
    [] key = "exec-once" -> "autostart"
    [] key = "windowrulev2" -> "rules"
    [] key = "layerrule" -> "layers"
    [] key \in {"env", "workspace", "source", "submap", "$terminal"} \cup HintKeys -> "runtime"
    [] OTHER -> "none"
(* The file of the line when a whole configuration is applied. *)
BufferOf(key) == IF key = "plugin" THEN "runtime" ELSE RuntimePath(key)

(* The sections a line stands in qualify its key. *)
FullKey(sections, key) ==
  IF key \in QualifiedKeys \cup GlobalKeys \/ sections = <<>> THEN key
  ELSE FoldLeft(LAMBDA a, s : a \o s \o ":", "", sections) \o key

(* A pass over the configuration: the session and settings it changes, the  *)
(* runtime lines it prepares, the files it has included.                    *)
ScanStart(fs) ==
  [session |-> LoadSession(fs), settings |-> LoadSettings(fs),
   prepared |-> [p \in RuntimeFiles |-> <<<<"#", "user-config">>>>],
   seen |-> {"user"}, sections |-> <<>>, parsed |-> 0, applied |-> FALSE]

Prepared(st, key, value) ==
  IF BufferOf(key) = "none" THEN st
  ELSE [st EXCEPT !.prepared[BufferOf(key)] = Append(@, <<key, value>>)]
Settled(st, key, value) ==
  CASE key = "exec-once" /\ value = "terminal" ->
         [st EXCEPT !.session.autostart = "yes", !.applied = TRUE]
    [] key = "general:layout" ->
         [st EXCEPT !.session.layout = Accepted("layout", value, @), !.applied = TokenSafe(value)]
    [] key = "input:follow_mouse" ->
         [st EXCEPT !.session.focus = IF ParseInt(value, 0) > 0 THEN "yes" ELSE BoolValue(value, @),
                    !.applied = TRUE]
    [] key \in DOMAIN SettingOf ->
         [st EXCEPT !.settings[SettingOf[key]] = Accepted(SettingOf[key], value, @),
                    !.applied = key # "input:kb_layout" \/ TokenSafe(value)]
    [] OTHER -> st
ApplyPair(st, key, value) == Settled(Prepared(st, key, value), key, value)

RECURSIVE Scanned(_, _, _, _)

(* The value of a source line names a file under the user's directory or    *)
(* /system; anything else is skipped.                                       *)
SourcePaths == {"user", "local", "extra"}
SourceScanned(fs, st, value, depth) ==
  IF \/ value \notin SourcePaths \/ depth >= SourceDepth \/ value \in st.seen
     \/ Cardinality(st.seen) >= SourceFiles
  THEN st
  ELSE IF ~Usable(TextOf(fs, value, SourceRoom)) THEN [st EXCEPT !.seen = @ \cup {value}]
  ELSE [Scanned(fs, [st EXCEPT !.seen = @ \cup {value}, !.sections = <<>>],
                TextOf(fs, value, SourceRoom), depth + 1)
        EXCEPT !.sections = st.sections]

PairScanned(fs, st, key, value, depth) ==
  IF key # "source" THEN ApplyPair(st, key, value)
  ELSE SourceScanned(fs, ApplyPair(st, key, value), value, depth)

(* A line: a comment, the end or start of a section, an unsafe section name, *)
(* one that does not parse, an assignment.                                   *)
LineScanned(fs, st, line, depth) ==
  CASE line[1] \in {"#", "={"} -> st
    [] line[1] = "}" -> [st EXCEPT !.sections = IF @ = <<>> THEN @ ELSE Front(@)]
    [] line[1] = "{" -> [st EXCEPT !.sections = IF Len(@) < 4 THEN Append(@, line[2]) ELSE @]
    [] line[1] = "?" -> [st EXCEPT !.parsed = @ + 1]
    [] OTHER -> PairScanned(fs, [st EXCEPT !.parsed = @ + 1], FullKey(st.sections, line[1]),
                            line[2], depth)

Scanned(fs, st, text, depth) ==
  FoldLeft(LAMBDA a, line : LineScanned(fs, a, line, depth), st, text)

ScanConfig(fs) == Scanned(fs, ScanStart(fs), TextOf(fs, "user", UserRoom), 0)
-----------------------------------------------------------------------------
(* orizon_desktop_write_user_config: the built-in file, and the local one   *)
(* if it is missing.                                                        *)
UserConfigWritten(fs, f) ==
  WrittenAll(fs, [user |-> Template, local |-> DefaultText.local],
             IF "local" \in DOMAIN fs THEN <<"user">> ELSE <<"user", "local">>, f)
UserConfigDone(fs, f) == f.path # "user" /\ (f.path = "local" => "local" \in DOMAIN fs)

ResultOrder == <<"session", "settings", "binds", "autostart", "rules", "monitors", "layers",
                 "runtime">>
ScanWritten(fs, st, f) ==
  [files |-> WrittenAll(fs, [session |-> SessionText(st.session),
                             settings |-> SettingsText(st.settings)] @@ st.prepared,
                        ResultOrder, f),
   ok |-> f.path \notin ToSet(ResultOrder)]

(* A file without a single assignment that counts gives way to the built-in *)
(* one.                                                                     *)
ScanRetried(fs, st, f) ==
  IF st.parsed > 0 THEN ScanWritten(fs, st, f)
  ELSE ScanWritten(UserConfigWritten(fs, f),
                   IF UserConfigDone(fs, f) THEN ScanConfig(UserConfigWritten(fs, f)) ELSE st, f)
ReadyApplied(fs, f) ==
  IF Usable(TextOf(fs, "user", UserRoom)) THEN ScanRetried(fs, ScanConfig(fs), f)
  ELSE [files |-> fs, ok |-> FALSE]
(* Mutant: a user's file that is there is taken as it is. *)
UserConfigThere(fs, f) == IF "user" \in DOMAIN fs THEN fs ELSE UserConfigWritten(fs, f)
UserConfigReady(fs, f) ==
  IF Usable(TextOf(fs, "user", UserRoom)) THEN fs ELSE UserConfigWritten(fs, f)
ApplyConfig(fs, f) == ReadyApplied(UserConfigReady(EnsureDefaults(fs, f), f), f)

Healthy(fs, desired, runtime) ==
  /\ desired = "started" => PolicyEnabled(fs) /\ runtime = "active"
  /\ desired = "stopped" => runtime = "inactive"
StateOver(fs, desired, runtime, f) ==
  Written(fs, "state",
          StateText(IF Healthy(fs, desired, runtime) THEN "PASS" ELSE "WARN",
                    desired, runtime, IF PolicyEnabled(fs) THEN "enabled" ELSE "disabled"), f)
WriteState(fs, desired, runtime, f) == StateOver(EnsureDefaults(fs, f), desired, runtime, f)

PolicyWritten(fs, on, f) ==
  Written(EnsureDefaults(fs, f), "policy", <<<<"enabled", IF on THEN "yes" ELSE "no">>>>, f)
PolicySet(fs, on, f) ==
  [files |-> IF on THEN WriteState(UserConfigWritten(PolicyWritten(fs, TRUE, f), f),
                                   "started", "active", f)
             ELSE WriteState(PolicyWritten(fs, FALSE, f), "stopped", "inactive", f),
   ok |-> f.path # "policy" /\ (on => UserConfigDone(PolicyWritten(fs, on, f), f))]

(* The session manager: what is wanted, and the state an apply leaves. *)
Managed(desired, runtime, done, applied, f) ==
  [files |-> WriteState(applied.files, desired,
                        IF applied.ok THEN runtime
                        ELSE IF PolicyEnabled(applied.files) THEN "degraded" ELSE "standby-degraded",
                        f),
   ok |-> done /\ applied.ok /\ f.path # "state"]
ManagedBy(fs, applied, f) ==
  IF PolicyEnabled(fs) THEN Managed("started", "active", TRUE, applied, f)
  ELSE Managed("stopped", "inactive", TRUE, applied, f)
Start(fs, f) == Managed("started", "active", PolicySet(fs, TRUE, f).ok,
                        ApplyConfig(PolicySet(fs, TRUE, f).files, f), f)
Stop(fs, f) == [files |-> WriteState(PolicySet(fs, FALSE, f).files, "stopped", "inactive", f),
                ok |-> PolicySet(fs, FALSE, f).ok /\ f.path # "state"]
Reload(fs, f) == ManagedBy(EnsureDefaults(fs, f), ApplyConfig(EnsureDefaults(fs, f), f), f)
Recover(fs, f) ==
  ManagedBy(EnsureDefaults(fs, f),
            ApplyConfig(IF PolicyEnabled(EnsureDefaults(fs, f))
                        THEN UserConfigWritten(EnsureDefaults(fs, f), f)
                        ELSE EnsureDefaults(fs, f), f), f)
SessionManager(fs, action, f) == CASE action \in {"start", "restart"} -> Start(fs, f)
                                   [] action = "stop" -> Stop(fs, f)
                                   [] action = "reload" -> Reload(fs, f)
                                   [] action = "recover" -> Recover(fs, f)

(* The restore of system_desktop_restore_for_boot. *)
RestoredForBoot(fs, f) == IF Reload(fs, f).ok THEN Reload(fs, f)
                          ELSE Recover(Reload(fs, f).files, f)

(* The files the audit of the session asks for: the missing and the empty. *)
Audited == {"policy", "session", "settings", "state", "local", "binds", "autostart", "runtime"}
AuditWarns(fs) == {p \in Audited \cup (IF PolicyEnabled(fs) THEN {"user"} ELSE {}) :
                     TextOf(fs, p, UserRoom) = <<>>}
-----------------------------------------------------------------------------
(* One option of the session, one setting, one input option. *)
SetSession(fs, key, v, f) ==
  [files |-> Written(fs, "session",
                     SessionText([LoadSession(fs) EXCEPT ![key] = Accepted(key, v, @)]), f),
   ok |-> f.path # "session"]
SetSetting(fs, key, v, f) ==
  [files |-> Written(fs, "settings",
                     SettingsText([LoadSettings(fs) EXCEPT ![key] = Accepted(key, v, @)]), f),
   ok |-> f.path # "settings"]
(* The layout also goes to the file the keyboard driver reads at boot. *)
SetKeyboard(fs, v, f) ==
  [files |-> Written(SetSetting(fs, "keyboard", v, f).files, "layout", <<<<"layout", v>>>>, f),
   ok |-> f.path # "settings"]
ToggleFocus(fs, f) ==
  SetSession(fs, "focus", IF LoadSession(fs).focus = "yes" THEN "no" ELSE "yes", f)

RepairSettings(fs, f) == [files |-> Written(fs, "settings", DefaultText.settings, f),
                          ok |-> f.path # "settings"]
SettingsPreset == [compact |-> [SettingsDefaults EXCEPT !.gaps = "2", !.shadows = "no"],
                   large |-> [SettingsDefaults EXCEPT !.scale = "2", !.gaps = "12"]]
ApplySettingsPreset(fs, name, f) ==
  [files |-> Written(fs, "settings", SettingsText(SettingsPreset[name]), f),
   ok |-> f.path # "settings"]
SessionPreset == [moss |-> [SessionDefaults EXCEPT !.theme = "moss", !.focus = "yes"],
                  focus |-> [SessionDefaults EXCEPT !.layout = "monocle"]]
ApplyPreset(fs, name, f) ==
  [files |-> Written(fs, "session", SessionText(SessionPreset[name]), f), ok |-> f.path # "session"]

ExportSettings(fs, f) ==
  [files |-> Written(fs, "user", UserText(LoadSession(fs), LoadSettings(fs)), f),
   ok |-> f.path # "user"]
SyncSettings(fs, f) ==
  [files |-> ApplyConfig(ExportSettings(fs, f).files, f).files,
   ok |-> ExportSettings(fs, f).ok /\ ApplyConfig(ExportSettings(fs, f).files, f).ok]

(* desktop keyword: the session and settings, the user's file if a setting  *)
(* changed, the runtime file of the key.                                    *)
KeywordHinted(fs, key, value, f) ==
  IF RuntimePath(key) = "none" THEN fs ELSE AppendedTo(fs, RuntimePath(key), <<key, value>>, f)
KeywordWritten(fs, st, key, value, f) ==
  [files |-> KeywordHinted(
               WrittenAll(fs, [session |-> SessionText(st.session),
                               settings |-> SettingsText(st.settings),
                               user |-> UserText(st.session, st.settings)],
                          <<"session", "settings">> \o (IF st.applied THEN <<"user">> ELSE <<>>), f),
               key, value, f),
   ok |-> /\ f.path \notin {"session", "settings", RuntimePath(key)}
          /\ key \in SupportedKeys \/ RuntimePath(key) # "none"]
ApplyKeyword(fs, key, value, f) ==
  KeywordWritten(fs, ApplyPair(ScanStart(fs), key, value), key, value, f)

ResetOrder == SubSeq(DefaultOrder, 1, Len(DefaultOrder) - 1)
ResetDesktop(fs, f) ==
  [files |-> WriteState(WrittenAll(fs, DefaultText, ResetOrder, f), "stopped", "inactive", f),
   ok |-> f.path \notin {"policy", "template"}]
-----------------------------------------------------------------------------
FaultPaths == {"policy", "session", "settings", "user", "local", "state", "runtime"}
Faults == {NoFault} \cup (IF tally.faults < MaxConfigFaults
                          THEN [path : FaultPaths, how : {"open", "write", "save"}] ELSE {})

(* What the last save before the disk was gone holds: nothing of a command  *)
(* that had not closed a file yet.                                          *)
Saved(fs) == IF Off(fs) /\ fs = Gone(files) THEN stored
             ELSE [p \in DOMAIN fs \ {"off"} |-> fs[p]]

(* A command, its writes in the order of the code.  If the disk is gone it  *)
(* goes on in memory; a power failure at that write is the same followed by *)
(* Boot.                                                                    *)
Command(name, Result(_)) ==
  \E f \in Faults :
    /\ tally.calls < MaxConfigCalls
    /\ files' = Result(IF f.how = "save" THEN NoFault ELSE f).files
    /\ stored' = Saved(Result(f).files)
    /\ tally' = [calls |-> tally.calls + 1,
                 faults |-> tally.faults + (IF f = NoFault THEN 0 ELSE 1)]
    /\ last' = [name |-> name, whole |-> f.how \in {"none", "save"}]

Manage == \E action \in {"start", "stop", "reload", "recover"} :
            Command("manage", LAMBDA f : SessionManager(files, action, f))
EnablePolicy == \E on \in BOOLEAN : Command("enable", LAMBDA f : PolicySet(files, on, f))
ConfigApply == Command("apply", LAMBDA f : ApplyConfig(files, f))
SettingsSet == \E kv \in {<<"gaps", "99">>, <<"shadows", "no">>, <<"scale", "3">>} :
                 Command("set", LAMBDA f : SetSetting(EnsureDefaults(files, f), kv[1], kv[2], f))
SessionSet == \E kv \in {<<"autostart", "no">>, <<"theme", "moss">>} :
                Command("set", LAMBDA f : SetSession(EnsureDefaults(files, f), kv[1], kv[2], f))
InputSet ==
  \/ Command("set", LAMBDA f : SetKeyboard(EnsureDefaults(files, f), "fr-azerty", f))
  \/ Command("set", LAMBDA f : ToggleFocus(EnsureDefaults(files, f), f))
SettingsCentral ==
  \/ Command("repair", LAMBDA f : RepairSettings(files, f))
  \/ \E name \in DOMAIN SettingsPreset :
       Command("preset", LAMBDA f : ApplySettingsPreset(files, name, f))
  \/ \E name \in DOMAIN SessionPreset :
       Command("preset", LAMBDA f : ApplyPreset(EnsureDefaults(files, f), name, f))
SettingsExport == Command("export", LAMBDA f : ExportSettings(EnsureDefaults(files, f), f))
SettingsSync == Command("sync", LAMBDA f : SyncSettings(EnsureDefaults(files, f), f))
Keywords == {<<"general:gaps_in", "12">>, <<"general:layout", "master">>, <<"monitor", "2">>,
             <<"input:kb_layout", "a/b">>, <<"input:follow_mouse", "1">>}
Keyword == \E kv \in Keywords :
             Command("keyword", LAMBDA f : ApplyKeyword(EnsureDefaults(files, f), kv[1], kv[2], f))
Reset == Command("reset", LAMBDA f : ResetDesktop(files, f))
WriteUserConfig == Command("user", LAMBDA f : [files |-> UserConfigWritten(files, f)])

(* The user writes a configuration file, or removes one. *)
UserWrites == \E p \in SourcePaths, text \in ConfigTexts :
                Command("edit", LAMBDA f : [files |-> Written(files, p, text, f)])
UserRemoves == \E p \in {"user", "local", "session"} \cap DOMAIN files :
                 Command("edit", LAMBDA f : [files |-> Removed(files, p, f)])

(* Power goes; the next boot restores the desktop from what was saved. *)
Boot == Command("boot", LAMBDA f : RestoredForBoot(stored, f))

ConfigInit == /\ files \in {EnsureDefaults(found, NoFault) : found \in StartFiles}
              /\ stored = files
              /\ last = [name |-> "boot", whole |-> TRUE]
              /\ tally = [calls |-> 0, faults |-> 0]

ConfigNext == \/ Manage \/ EnablePolicy \/ ConfigApply \/ SettingsSet \/ SessionSet \/ InputSet
              \/ SettingsCentral \/ SettingsExport \/ SettingsSync \/ Keyword \/ Reset
              \/ WriteUserConfig \/ UserWrites \/ UserRemoves \/ Boot

ConfigSpec == ConfigInit /\ [][ConfigNext]_configVars
-----------------------------------------------------------------------------
ValuesOf(fs) == LoadSession(fs) @@ LoadSettings(fs)

(* The keys of the session and the settings that included files may set. *)
Included(fs) == {l[1] : l \in UNION {ToSet(TextOf(fs, p, SourceRoom)) : p \in {"local", "extra"}}}
NothingIncluded(fs) == Included(fs) \subseteq {"env", "workspace", "#", "?"}

\* Whatever was written, refused or lost before, a configuration that was
\* applied is settled: applying it again changes no file
\* (orizon_desktop_apply_hypr_config, "desktop-restore" at each boot).
ApplySettles(d) == ApplyConfig(d, NoFault).files = d

\* Exporting the settings to the user's file and applying it gives the same
\* session and settings, although that file says them in other words
\* (orizon_desktop_sync_settings).
SyncKeeps(d) == NothingIncluded(d) => ValuesOf(SyncSettings(d, NoFault).files) = ValuesOf(d)

\* What desktop keyword changes is still there after the next reload.
KeywordLasts(d) ==
  NothingIncluded(d) => ValuesOf(Reload(d, NoFault).files) = ValuesOf(d)

\* desktop recover makes every file the audit asks for, but for a policy or
\* a local file that is there and empty, and leaves a state that agrees with
\* the policy.
RecoverRepairs(d, r) ==
  /\ r.ok /\ AuditWarns(r.files) \subseteq {p \in {"policy", "local"} : TextOf(d, p, 1) = <<>>}
  /\ <<"health", "PASS">> \in ToSet(r.files["state"])

ConfigurationKept ==
  /\ ApplySettles(ApplyConfig(files, NoFault).files)
  /\ SyncKeeps(EnsureDefaults(files, NoFault))
  /\ \A kv \in Keywords : LET st == ApplyPair(ScanStart(files), kv[1], kv[2]) IN
       st.applied => KeywordLasts(ApplyKeyword(EnsureDefaults(files, NoFault), kv[1], kv[2], NoFault).files)
  /\ RecoverRepairs(EnsureDefaults(files, NoFault), Recover(files, NoFault))
  /\ last.name \in {"manage", "enable", "boot"} /\ last.whole =>
       (<<"desired-state", "started">> \in ToSet(files["state"])) = PolicyEnabled(files)
=============================================================================
