------------------------------ MODULE Windows ------------------------------
(***************************************************************************)
(* The tiling desktop of gui/compositor.c: eight client slots, numbered    *)
(* workspaces with a layout of their own, named special workspaces shown   *)
(* over the active one, and the focus that keys and drawing follow.        *)
(*                                                                         *)
(* Everything runs on the one thread of the main loop, so a command is one *)
(* step; what is hard is that focus is repaired lazily, that the layout of *)
(* the active workspace lives in two places, and that the same windows are *)
(* listed by slot, by id, by focus history and by workspace.               *)
(***************************************************************************)
EXTENDS Integers, Sequences, FiniteSets, SequencesExt

CONSTANTS MaxClients,     \* DESKTOP_MAX_CLIENTS
          MaxWorkspaces,  \* DESKTOP_MAX_WORKSPACES
          SpecialNames,   \* names of special workspaces
          Names,          \* names a user gives to workspaces
          MaxSpawns,      \* bound: windows opened in a behaviour
          MaxCommands,    \* bound: commands in a behaviour
          AreaWidth, AreaHeight,  \* the tiling area, in pixels
          InnerGap                \* gaps_in, around each tile

ASSUME WindowsBounds == /\ {MaxClients, MaxWorkspaces, MaxSpawns} \subseteq Nat \ {0}
                        /\ MaxCommands \in Nat
                        /\ AreaWidth >= 120 /\ AreaHeight >= 80 /\ InnerGap \in 0..48

VARIABLES desk,      \* every static variable of the desktop
          typed,     \* the window the terminal key of the last step went to
          session,   \* what kind of user: which group of commands, which rules
          commands   \* commands given so far

windowVars == <<desk, typed, session, commands>>

Slots == 1..MaxClients
Workspaces == 1..MaxWorkspaces

(* No slot, no id, no window. *)
None == 0

NoClient == [id |-> None, ws |-> 0, last |-> 0, app |-> "none", full |-> 0,
             pseudo |-> FALSE, pin |-> FALSE, special |-> FALSE, hidden |-> FALSE,
             name |-> "default", urgent |-> FALSE, tag |-> "none"]

(* mode 0 dwindle, 1 master, 2 monocle; split 0 auto, 1 vertical, 2 horizontal. *)
DefaultLayout(mode) == [mode |-> mode, split |-> 0, ratio |-> 50,
                        masterRatio |-> 58, masters |-> 1]
NoLayout == [DefaultLayout(0) EXCEPT !.masters = 0]

TerminalBacked(c) == c.app = "terminal"

(***************************************************************************)
(* Looking windows up.                                                     *)
(***************************************************************************)
Visible(d, i) == d.clients[i].id # None
OpenIds(d) == {d.clients[i].id : i \in {j \in Slots : Visible(d, j)}}
FirstSlot(S) == IF S = {} THEN None ELSE CHOOSE i \in S : \A j \in S : i <= j

IndexById(d, id) == FirstSlot({i \in Slots : id # None /\ d.clients[i].id = id})

SpecialVisible(d, c) == c.special /\ d.specialShown /\ c.name = d.specialName

ClientOn(d, i, w) ==
  LET c == d.clients[i] IN
  /\ Visible(d, i)
  /\ IF c.special THEN SpecialVisible(d, c) /\ w = d.active
                  ELSE ~c.hidden /\ (c.pin \/ c.ws = w)

ClientLocalTo(d, i, w) ==
  LET c == d.clients[i] IN
  Visible(d, i) /\ ~c.pin /\ ~c.special /\ ~c.hidden /\ c.ws = w

(* The slots of the windows on the active workspace, in slot order. *)
Tiled(d) == SelectSeq([i \in Slots |-> i], LAMBDA i : ClientOn(d, i, d.active))
RankIn(tiles, i) == FirstSlot({k \in DOMAIN tiles : tiles[k] = i})
RankOf(d, i) == RankIn(Tiled(d), i)

(* Hidden follows the special workspace that is shown. *)
HiddenUpdated(d) ==
  [d EXCEPT !.clients = [i \in Slots |->
     IF ~Visible(d, i) THEN d.clients[i]
     ELSE [d.clients[i] EXCEPT !.hidden = d.clients[i].special /\ ~SpecialVisible(d, d.clients[i])]]]

(***************************************************************************)
(* Focus history, the most recent first: open windows, each once.          *)
(***************************************************************************)
Compacted(d, ids) ==
  FoldLeft(LAMBDA acc, id : IF IndexById(d, id) # None /\ ~Contains(acc, id)
                            THEN Append(acc, id) ELSE acc, <<>>, ids)
HistoryCompacted(d) == [d EXCEPT !.history = Compacted(d, d.history)]
HistoryWithout(d, id) == [d EXCEPT !.history = Compacted(d, SelectSeq(d.history, LAMBDA h : h # id))]

(* Mutant: the window may stay where it was in the history too. *)
HistoryTouchedOnTop(d, id) == [d EXCEPT !.history = <<id>> \o Compacted(d, d.history)]

HistoryTouched(d, id) == [d EXCEPT !.history = Compacted(d, <<id>> \o d.history)]

FocusRecorded(d, i) ==
  LET c == d.clients[i]
      w == IF c.pin THEN d.active ELSE c.ws
  IN IF c.special THEN [d EXCEPT !.specialLast = c.id]
     ELSE [d EXCEPT !.spaces[w].last = c.id, !.spaces[w].used = TRUE]

SetFocused(d, i) ==
  IF i = None \/ ~Visible(d, i) THEN HistoryCompacted([d EXCEPT !.focused = None])
  ELSE FocusRecorded(HistoryTouched([d EXCEPT !.focused = d.clients[i].id,
                                              !.clients[i].urgent = FALSE],
                                    d.clients[i].id), i)

(* Remembered by the workspace, else the latest in the history, else the first slot. *)
LastFocusedOn(d, w, Here(_, _, _)) ==
  LET remembered == IndexById(d, d.spaces[w].last)
      recent == SelectSeq(d.history, LAMBDA id : IndexById(d, id) # None /\ Here(d, IndexById(d, id), w))
  IN IF remembered # None /\ Here(d, remembered, w) THEN remembered
     ELSE IF recent # <<>> THEN IndexById(d, Head(recent))
     ELSE FirstSlot({i \in Slots : Here(d, i, w)})

FocusRestored(d, w) ==
  LET own == LastFocusedOn(d, w, ClientLocalTo)
  IN SetFocused(d, IF own # None THEN own ELSE LastFocusedOn(d, w, ClientOn))

(* desktop_focused_client_index: the focus, moved first if its window is not here. *)
Focus(d) == IndexById(d, d.focused)
FocusSettled(d) ==
  IF Focus(d) # None /\ ClientOn(d, Focus(d), d.active) THEN d ELSE FocusRestored(d, d.active)

(* A command on the focused window, if there is one. *)
OnFocused(d, Op(_, _)) ==
  LET Apply(e) == IF Focus(e) = None THEN e ELSE Op(e, Focus(e))
  IN Apply(FocusSettled(d))

TerminalSynced(d) ==
  [d EXCEPT !.terminalShown = \E i \in Slots : Visible(d, i) /\ TerminalBacked(d.clients[i])]

Refocused(d, i) == TerminalSynced(SetFocused(d, i))

(***************************************************************************)
(* The layout of a workspace: set up on first use, copied to the globals   *)
(* while the workspace is active and copied back by every change.          *)
(***************************************************************************)
ModeOf(name) == CASE name = "master" -> 1 [] name = "monocle" -> 2 [] OTHER -> 0

LayoutReady(d, w) ==
  IF d.spaces[w].layout # NoLayout THEN d
  ELSE [d EXCEPT !.spaces[w].layout = DefaultLayout(ModeOf(d.layoutDefault))]
LayoutSaved(d) == [LayoutReady(d, d.active) EXCEPT !.spaces[d.active].layout = d.layout]
LayoutLoaded(d, w) == [LayoutReady(d, w) EXCEPT !.layout = LayoutReady(d, w).spaces[w].layout]

Clamp(n, lo, hi) == IF n < lo THEN lo ELSE IF n > hi THEN hi ELSE n
ClampWorkspace(w) == Clamp(w, 1, MaxWorkspaces)
WrapWorkspace(w) == ((w - 1) % MaxWorkspaces) + 1

MarkUsed(d, w) == [d EXCEPT !.spaces[w].used = TRUE]

(***************************************************************************)
(* Window rules, read when a window opens.  A rule is a list of selectors  *)
(* and an action; rules apply in file order, each seeing what the earlier  *)
(* ones did.  A selector of an unknown kind makes the rule not match,      *)
(* unless no selector of the rule is understood and its text names the app.*)
(***************************************************************************)
SelectorHolds(d, c, sel) ==
  CASE sel.key = "app" -> IF c.app = sel.value THEN "yes" ELSE "no"
    [] sel.key = "tag" -> IF c.tag # "none" /\ c.tag = sel.value THEN "yes" ELSE "no"
    [] sel.key = "focus" -> IF (c.id = d.focused) = sel.value THEN "yes" ELSE "no"
    [] sel.key = "pin" -> IF c.pin = sel.value THEN "yes" ELSE "no"
    [] sel.key = "fullscreen" -> IF (c.full > 0) = sel.value THEN "yes" ELSE "no"
    [] sel.key = "workspace" -> IF c.ws = sel.value THEN "yes" ELSE "no"
    [] OTHER -> "unknown"

RuleMatches(d, c, rule) ==
  LET answers == {SelectorHolds(d, c, rule.selectors[k]) : k \in DOMAIN rule.selectors}
  IN \/ answers = {"yes"}
     \/ answers = {"unknown"} /\ \E k \in DOMAIN rule.selectors : rule.selectors[k].value = c.app

RuleApplied(c, action) ==
  CASE action.do = "fullscreen" -> [c EXCEPT !.full = 2]
    [] action.do = "pseudo" -> [c EXCEPT !.pseudo = TRUE]
    [] action.do = "pin" -> [c EXCEPT !.pin = TRUE]
    [] action.do = "tag" -> [c EXCEPT !.tag = action.value]
    [] action.do = "workspace" /\ action.value \in Workspaces \ {c.ws} ->
         [c EXCEPT !.last = c.ws, !.ws = action.value]
    [] OTHER -> c   \* tile, float, move, size and unknown actions

RulesApplied(d, i, rules) ==
  FoldLeft(LAMBDA e, rule :
             IF RuleMatches(e, e.clients[i], rule)
             THEN LET f == [e EXCEPT !.clients[i] = RuleApplied(@, rule.action)]
                  IN MarkUsed(f, f.clients[i].ws)
             ELSE e, d, rules)

(***************************************************************************)
(* Opening and closing.                                                    *)
(***************************************************************************)
FreeSlot(d) == FirstSlot({j \in Slots : ~Visible(d, j)})

Spawned(d, app, rules) ==
  LET i == FreeSlot(d)
      opened == RulesApplied(MarkUsed([d EXCEPT
                  !.clients[i] = [NoClient EXCEPT !.id = d.next, !.ws = d.active,
                                                  !.last = d.active, !.app = app],
                  !.next = @ + 1], d.active), i, rules)
      known == [opened EXCEPT !.terminalShown = @ \/ app = "terminal"]
      focused == IF ClientOn(known, i, d.active) THEN SetFocused(known, i) ELSE FocusSettled(known)
  IN IF i = None THEN d ELSE [focused EXCEPT !.launcher = FALSE]

ClosedSlot(d, i) ==
  LET id == d.clients[i].id
      forgotten == [d EXCEPT !.spaces = [w \in Workspaces |->
                      IF d.spaces[w].last = id THEN [d.spaces[w] EXCEPT !.last = None] ELSE d.spaces[w]]]
  IN [HistoryWithout(forgotten, id) EXCEPT !.clients[i] = NoClient]

CloseActive(d) ==
  IF ~d.enabled THEN d
  ELSE OnFocused(d, LAMBDA e, i : TerminalSynced(FocusSettled(SetFocused(ClosedSlot(e, i), None))))

(* The terminal is asked for: opened, or brought to the active workspace. *)
OpenTerminal(d, rules) ==
  LET i == FirstSlot({j \in Slots : Visible(d, j) /\ TerminalBacked(d.clients[j])})
      here == [d EXCEPT !.clients[i].last = d.clients[i].ws, !.clients[i].ws = d.active]
  IN IF i = None THEN Spawned(d, "terminal", rules)
     ELSE [Refocused(here, i) EXCEPT !.launcher = FALSE]

ToggleTerminal(d, rules) == IF Tiled(d) # <<>> THEN CloseActive(d) ELSE Spawned(d, "terminal", rules)

TerminalEnsured(d, rules) ==
  IF d.terminalShown /\ \A i \in Slots : ~(Visible(d, i) /\ TerminalBacked(d.clients[i]))
  THEN Spawned(d, "terminal", rules) ELSE d

LauncherToggled(d) == IF d.enabled /\ d.launcherAllowed THEN [d EXCEPT !.launcher = ~@] ELSE d

(***************************************************************************)
(* Workspaces.                                                             *)
(***************************************************************************)
(* Mutant: the layout of the workspace left stays in use. *)
SwitchedToUnloaded(d, w) ==
  LET left == MarkUsed(LayoutSaved(HiddenUpdated([d EXCEPT !.specialShown = FALSE])), w)
      moved == [left EXCEPT !.previous = IF w = d.active THEN @ ELSE d.active, !.active = w,
                            !.launcher = FALSE]
  IN TerminalSynced(FocusRestored(moved, w))

SwitchedTo(d, w) ==
  LET left == MarkUsed(LayoutSaved(HiddenUpdated([d EXCEPT !.specialShown = FALSE])), w)
      moved == [left EXCEPT !.previous = IF w = d.active THEN @ ELSE d.active, !.active = w]
      arrived == [LayoutLoaded(moved, w) EXCEPT !.launcher = FALSE]
  IN TerminalSynced(FocusRestored(arrived, w))
SwitchWorkspace(d, w) == IF w \in Workspaces THEN SwitchedTo(d, w) ELSE d

LocalCount(d, w) ==
  Cardinality({i \in Slots : Visible(d, i) /\ ~d.clients[i].pin /\ d.clients[i].ws = w})
IsOpen(d, w) == \/ w = d.active \/ d.spaces[w].used \/ d.spaces[w].last # None
                \/ LocalCount(d, w) > 0
Empty(d) ==
  LET ahead == [k \in Workspaces |-> WrapWorkspace(d.active + k)]
      empty == {k \in Workspaces : LocalCount(d, ahead[k]) = 0}
  IN IF empty = {} THEN d.active ELSE ahead[FirstSlot(empty)]
OpenRelative(d, n) ==
  LET direction == IF n >= 0 THEN 1 ELSE -1
      steps == IF n >= 0 THEN n ELSE -n
      path == SelectSeq([k \in 1..(MaxWorkspaces * (steps + 1)) |-> WrapWorkspace(d.active + direction * k)],
                        LAMBDA w : IsOpen(d, w))
  IN IF steps = 0 \/ Len(path) < steps THEN d.active ELSE path[steps]
OpenOrdinal(d, n) ==
  LET opens == SelectSeq([w \in Workspaces |-> w], LAMBDA w : IsOpen(d, w))
  IN IF n \in DOMAIN opens THEN opens[n] ELSE None

(* What a workspace argument means; None when it means nothing. *)
WorkspaceArg(d, arg) ==
  CASE arg.kind = "number" -> IF arg.n \in Workspaces THEN arg.n ELSE None
    [] arg.kind = "relative" -> WrapWorkspace(d.active + arg.n)
    [] arg.kind = "previous" -> ClampWorkspace(d.previous)
    [] arg.kind = "empty" -> Empty(d)
    [] arg.kind = "open" -> OpenRelative(d, arg.n)
    [] arg.kind = "ordinal" -> OpenOrdinal(d, arg.n)
    [] arg.kind = "named" -> FirstSlot({w \in Workspaces : d.spaces[w].name = arg.name})

(* A name already used by another workspace is refused. *)
NameTaken(d, w, name) == \E v \in Workspaces \ {w} : d.spaces[v].name = name
RenameWorkspace(d, w, name) ==
  IF NameTaken(d, w, name) THEN d ELSE MarkUsed([d EXCEPT !.spaces[w].name = name], w)

SpecialShown(d, name) ==
  HiddenUpdated([d EXCEPT !.specialShown = TRUE, !.specialName = name])

LastSpecial(d, name) ==
  LET Mine(i) == i # None /\ d.clients[i].special /\ d.clients[i].name = name
      recent == SelectSeq(d.history, LAMBDA id : Mine(IndexById(d, id)))
  IN IF Mine(IndexById(d, d.specialLast)) THEN IndexById(d, d.specialLast)
     ELSE IF recent # <<>> THEN IndexById(d, Head(recent))
     ELSE FirstSlot({i \in Slots : Visible(d, i) /\ Mine(i)})

ToggleSpecial(d, name) ==
  LET hidden == HiddenUpdated([d EXCEPT !.specialShown = FALSE])
      i == IndexById(hidden, hidden.focused)
      shown == SpecialShown(d, name)
      j == LastSpecial(shown, name)
  IN IF d.specialShown /\ d.specialName = name
     THEN IF i # None /\ hidden.clients[i].special THEN FocusRestored(hidden, d.active) ELSE hidden
     ELSE IF j # None THEN SetFocused(shown, j) ELSE shown

(* Moving a window to a special workspace, with or without following it. *)
MovedToSpecial(d, i, name, follow) ==
  LET c == d.clients[i]
      moved == [d EXCEPT !.clients[i] = [c EXCEPT !.special = TRUE, !.name = name,
                                                  !.last = IF c.special THEN @ ELSE c.ws],
                         !.specialLast = c.id]
      quiet == HiddenUpdated(moved)
  IN TerminalSynced(IF follow THEN SetFocused(SpecialShown(moved, name), i)
                    ELSE IF d.focused = c.id THEN FocusRestored(quiet, d.active) ELSE quiet)

MovedToWorkspace(d, i, w, follow) ==
  LET c == d.clients[i]
      moved == MarkUsed([d EXCEPT !.clients[i] = [c EXCEPT !.last = c.ws, !.ws = w, !.special = FALSE,
                                                           !.hidden = FALSE, !.name = "default"],
                                  !.spaces[w].last = c.id], w)
  IN TerminalSynced(
       IF follow THEN SetFocused(SwitchedTo(moved, w), i)
       ELSE IF d.focused # c.id THEN moved
       ELSE IF ~ClientOn(moved, i, d.active) THEN FocusRestored(moved, d.active)
       ELSE SetFocused(moved, i))
=============================================================================
