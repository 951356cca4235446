------------------------------ MODULE Desktop ------------------------------
(***************************************************************************)
(* The commands of the tiling desktop: what gui_desktop_dispatch, the      *)
(* keyboard, the pointer, a reload of the session and a frame do to the    *)
(* windows.                                                                *)
(***************************************************************************)
EXTENDS Windows

(***************************************************************************)
(* Choosing a window: by id, app, tag or the active one, the most recently *)
(* focused match first.                                                    *)
(***************************************************************************)
QueryMatches(d, i, q) ==
  LET c == d.clients[i] IN
  /\ Visible(d, i)
  /\ CASE q.by = "id" -> c.id = q.value
       [] q.by = "app" -> c.app = q.value
       [] q.by = "tag" -> c.tag # "none" /\ c.tag = q.value
       [] q.by = "active" -> c.id = d.focused

FindByQuery(d, q) ==
  LET recent == SelectSeq(d.history, LAMBDA id : QueryMatches(d, IndexById(d, id), q))
  IN IF recent # <<>> THEN IndexById(d, Head(recent))
     ELSE FirstSlot({i \in Slots : QueryMatches(d, i, q)})

(* Focus a window wherever it is, showing its workspace. *)
FocusFollowed(d, i) ==
  LET c == d.clients[i]
      away == [LayoutSaved(d) EXCEPT !.previous = d.active, !.active = c.ws]
      there == LayoutLoaded(MarkUsed(away, c.ws), c.ws)
  IN IF i = None THEN d
     ELSE [Refocused(IF c.special THEN SpecialShown(d, c.name)
                     ELSE IF ~c.pin /\ c.ws # d.active THEN there ELSE d, i)
           EXCEPT !.launcher = FALSE]

PreviousFocus(d) ==
  LET others == SelectSeq(d.history, LAMBDA id : id # d.focused)
  IN IF others = <<>> THEN None ELSE IndexById(d, Head(others))
UrgentFocus(d) ==
  LET urgent == SelectSeq(d.history, LAMBDA id : d.clients[IndexById(d, id)].urgent)
  IN IF urgent # <<>> THEN IndexById(d, Head(urgent))
     ELSE FirstSlot({i \in Slots : Visible(d, i) /\ d.clients[i].urgent})
FocusUrgentOrLast(d) ==
  FocusFollowed(d, IF UrgentFocus(d) # None THEN UrgentFocus(d) ELSE PreviousFocus(d))

(***************************************************************************)
(* The order of the tiles.                                                 *)
(***************************************************************************)
(* The tile delta places from the k-th, going round. *)
Around(d, k, delta) == Tiled(d)[((k - 1 + delta) % Len(Tiled(d))) + 1]

FocusRelative(d, delta) ==
  OnFocused(d, LAMBDA e, i : Refocused(e, Around(e, RankOf(e, i), delta)))

SwapSlots(d, i, j) ==
  IF j = None \/ i = j THEN d
  ELSE Refocused([d EXCEPT !.clients[i] = d.clients[j], !.clients[j] = d.clients[i]], j)

(* Mutant: the tile itself is not covered when it moves to the front. *)
SourceShort(k, a, b) ==
  IF k = b THEN a ELSE IF k \in a..(b - 1) THEN k + 1 ELSE IF k \in (b + 1)..(a - 1) THEN k - 1 ELSE k

(* The tile whose window comes to the k-th place when the a-th moves to b. *)
Source(k, a, b) ==
  IF k = b THEN a ELSE IF k \in a..(b - 1) THEN k + 1 ELSE IF k \in (b + 1)..a THEN k - 1 ELSE k

(* The window of slot i takes the place of slot j, those between shift by one. *)
MoveSlot(d, i, j) ==
  LET Shifted(tiles, a, b) ==
        [s \in Slots |-> IF ~Contains(tiles, s) THEN d.clients[s]
                         ELSE d.clients[tiles[Source(RankIn(tiles, s), a, b)]]]
  IN IF j = None \/ i = j THEN d
     ELSE Refocused([d EXCEPT !.clients = Shifted(Tiled(d), RankOf(d, i), RankOf(d, j))], j)

(* An operation on the focused tile and the tile delta places from it. *)
WithNeighbour(d, delta, Op(_, _, _)) ==
  OnFocused(d, LAMBDA e, i : IF Len(Tiled(e)) <= 1 THEN e
                             ELSE Op(e, i, Around(e, RankOf(e, i), delta)))
SwapRelative(d, delta) == WithNeighbour(d, delta, SwapSlots)
MoveRelative(d, delta) == WithNeighbour(d, delta, MoveSlot)

(* The first tile is the master. *)
MasterSlot(d) == IF Tiled(d) = <<>> THEN None ELSE Head(Tiled(d))
FocusMaster(d) == IF MasterSlot(d) = None THEN d ELSE Refocused(d, MasterSlot(d))
SwapWithMaster(d) == OnFocused(d, LAMBDA e, i : SwapSlots(e, i, MasterSlot(e)))
MoveToMaster(d) == OnFocused(d, LAMBDA e, i : MoveSlot(e, i, MasterSlot(e)))

(* A rank argument: next, previous, first, last, an index or a signed step. *)
RankArg(k, count, arg) ==
  CASE arg.kind = "step" -> ((k - 1 + arg.n) % count) + 1
    [] arg.kind = "first" -> 1
    [] arg.kind = "last" -> count
    [] arg.kind = "rank" -> IF arg.n \in 1..count THEN arg.n ELSE None

(* An operation on the focused tile and the tile an argument names. *)
WithRank(d, arg, Op(_, _, _)) ==
  LET At(e, i, tiles, r) == IF r = None THEN e ELSE Op(e, i, tiles[r])
  IN OnFocused(d, LAMBDA e, i : At(e, i, Tiled(e), RankArg(RankOf(e, i), Len(Tiled(e)), arg)))
FocusRank(d, arg) == WithRank(d, arg, LAMBDA e, i, j : Refocused(e, j))
SwapRank(d, arg) == WithRank(d, arg, SwapSlots)

(***************************************************************************)
(* Where tiles are: [x, y, w, h] records inside the tiling area.           *)
(***************************************************************************)
Area == [x |-> 0, y |-> 0, w |-> AreaWidth, h |-> AreaHeight]

Dwindle(target, count, layout) ==
  LET Vertical(r) == layout.split = 1 \/ (layout.split = 0 /\ r.w >= r.h)
      FirstPart(size, least) == LET part == (size * layout.ratio) \div 100
                                IN IF part < least THEN size \div 2 ELSE part
      Cut(r) == IF Vertical(r)
                THEN LET p == FirstPart(r.w, 48)
                     IN [tile |-> [r EXCEPT !.w = p], rest |-> [r EXCEPT !.x = @ + p, !.w = @ - p]]
                ELSE LET p == FirstPart(r.h, 40)
                     IN [tile |-> [r EXCEPT !.h = p], rest |-> [r EXCEPT !.y = @ + p, !.h = @ - p]]
      Rest == FoldLeft(LAMBDA r, k : Cut(r).rest, Area,
                       [k \in 1..((IF target < count THEN target ELSE count) - 1) |-> k])
  IN IF count <= 1 THEN Area ELSE IF target < count THEN Cut(Rest).tile ELSE Rest

(* Mutant: masters keep the whole width beside a stack. *)
MasterUneven(target, count, layout) ==
  LET masters == IF layout.masters < count THEN layout.masters ELSE count
      wide == (AreaWidth * layout.masterRatio) \div 100
      Row(k, rows, last) == LET high == AreaHeight \div rows
                            IN [y |-> k * high, h |-> IF last THEN AreaHeight - k * high ELSE high]
      row == IF target <= masters THEN Row(target - 1, masters, target = masters)
             ELSE Row(target - 1 - masters, count - masters, target = count)
  IN IF count <= 1 THEN Area
     ELSE [x |-> IF target <= masters THEN 0 ELSE wide, y |-> row.y, h |-> row.h,
           w |-> IF target > masters THEN AreaWidth - wide ELSE AreaWidth]

Master(target, count, layout) ==
  LET masters == IF layout.masters < count THEN layout.masters ELSE count
      wide == (AreaWidth * layout.masterRatio) \div 100
      Row(k, rows, last) == LET high == AreaHeight \div rows
                            IN [y |-> k * high, h |-> IF last THEN AreaHeight - k * high ELSE high]
      row == IF target <= masters THEN Row(target - 1, masters, target = masters)
             ELSE Row(target - 1 - masters, count - masters, target = count)
  IN IF count <= 1 THEN Area
     ELSE [x |-> IF target <= masters THEN 0 ELSE wide, y |-> row.y, h |-> row.h,
           w |-> IF target > masters THEN AreaWidth - wide
                 ELSE IF count <= masters THEN AreaWidth ELSE wide]

TileOf(target, count, layout) ==
  IF layout.mode = 1 THEN Master(target, count, layout) ELSE Dwindle(target, count, layout)

NoRect == [x |-> 0, y |-> 0, w |-> 0, h |-> 0]

(* The rectangle pointer and directions use: that of the window's own      *)
(* workspace, as if every window there were drawn.                         *)
ClientRect(d, i) ==
  LET c == d.clients[i]
      w == IF c.pin THEN d.active ELSE c.ws
      In(e, tiles, layout) ==
        IF ~Contains(tiles, i) THEN NoRect
        ELSE IF c.full > 0 \/ layout.mode = 2 THEN Area
        ELSE TileOf(RankIn(tiles, i), Len(tiles), layout)
      Ready(e) == In(e, SelectSeq([j \in Slots |-> j], LAMBDA j : ClientOn(e, j, w)), e.spaces[w].layout)
  IN IF Visible(d, i) THEN Ready(LayoutReady(d, w)) ELSE NoRect

(* The nearest window in a direction, by the centres of the rectangles. *)
Gap(n) == IF n < 0 THEN -n ELSE n
Centre(r) == [x |-> r.x + (r.w \div 2), y |-> r.y + (r.h \div 2), sized |-> r.w > 0 /\ r.h > 0]
Along(from, to, dir) == dir[1] * (to.x - from.x) + dir[2] * (to.y - from.y)
Across(from, to, dir) == IF dir[1] # 0 THEN Gap(to.y - from.y) ELSE Gap(to.x - from.x)
Nearest(mid, i, ahead, dir) ==
  LET Nearer(j, k) ==
        LET a == Along(mid[i], mid[j], dir)
            b == Along(mid[i], mid[k], dir)
            s == Across(mid[i], mid[j], dir)
            t == Across(mid[i], mid[k], dir)
        IN a < b \/ (a = b /\ s < t) \/ (a = b /\ s = t /\ j <= k)
  IN IF ahead = {} THEN None ELSE CHOOSE j \in ahead : \A k \in ahead : Nearer(j, k)
Neighbour(d, i, dir) ==
  LET From(mid) ==
        IF dir = <<0, 0>> \/ ~mid[i].sized THEN None
        ELSE Nearest(mid, i, {j \in Slots \ {i} : /\ ClientOn(d, j, d.active) /\ mid[j].sized
                                                 /\ Along(mid[i], mid[j], dir) > 0}, dir)
  IN From([j \in Slots |-> Centre(ClientRect(d, j))])

WithDirection(d, dir, Op(_, _, _)) == OnFocused(d, LAMBDA e, i : Op(e, i, Neighbour(e, i, dir)))
FocusDirectional(d, dir, delta) ==
  WithDirection(d, dir, LAMBDA e, i, j : IF j # None THEN Refocused(e, j) ELSE FocusRelative(e, delta))
SwapDirectional(d, dir, delta) ==
  WithDirection(d, dir, LAMBDA e, i, j : IF j # None THEN SwapSlots(e, i, j) ELSE SwapRelative(e, delta))

(* Focus follows the pointer: the highest slot whose rectangle holds it. *)
FocusAt(d, x, y) ==
  LET Holds(r) == x \in r.x..(r.x + r.w - 1) /\ y \in r.y..(r.y + r.h - 1)
      At(under) == LET i == CHOOSE j \in under : \A k \in under : k <= j
                   IN IF under = {} \/ d.clients[i].id = d.focused THEN d ELSE Refocused(d, i)
  IN At({i \in Slots : ClientOn(d, i, d.active) /\ Holds(ClientRect(d, i))})

(***************************************************************************)
(* Commands on the layout of the active workspace.  A value out of range   *)
(* is refused; a relative change stops at the limit.                       *)
(***************************************************************************)
LayoutSet(d, layout) == LayoutSaved([d EXCEPT !.layout = layout])
SetMode(d, mode) == LayoutSet(d, [d.layout EXCEPT !.mode = mode])
CycleSplit(d, delta) == LayoutSet(d, [d.layout EXCEPT !.split = (@ + delta) % 3])
SetSplit(d, split) == LayoutSet(d, [d.layout EXCEPT !.split = split])
SetRatio(d, ratio) == IF ratio \in 10..90 THEN LayoutSet(d, [d.layout EXCEPT !.ratio = ratio]) ELSE d
AdjustRatio(d, delta) == SetRatio(d, Clamp(d.layout.ratio + delta, 10, 90))
SetMasterRatio(d, ratio) ==
  IF ratio \in 10..90 THEN LayoutSet(d, [d.layout EXCEPT !.masterRatio = ratio]) ELSE d
AdjustMasterRatio(d, delta) == SetMasterRatio(d, Clamp(d.layout.masterRatio + delta, 10, 90))
SetMasters(d, n) == IF n \in 1..MaxClients THEN LayoutSet(d, [d.layout EXCEPT !.masters = n]) ELSE d
AdjustMasters(d, delta) == SetMasters(d, Clamp(d.layout.masters + delta, 1, MaxClients))
ResetLayout(d, modeToo) ==
  LayoutSet(d, DefaultLayout(IF modeToo THEN ModeOf(d.layoutDefault) ELSE d.layout.mode))

(* resizeactive dx dy: the larger of the two decides which ratio moves, by five. *)
ResizeActive(d, dx, dy) ==
  LET Size(n) == IF n < 0 THEN -n ELSE n
      Sign(n) == IF n > 0 THEN 5 ELSE -5
  IN IF dx = 0 /\ dy = 0 THEN d
     ELSE IF dx # 0 /\ Size(dx) >= Size(dy) THEN AdjustRatio(d, Sign(dx))
     ELSE AdjustMasterRatio(d, Sign(dy))

(* The session file is read again: a new default layout also replaces the  *)
(* mode of the active workspace.                                           *)
Reloaded(d, file) ==
  LET e == [d EXCEPT !.layoutDefault = file.layout, !.layoutLoaded = file.layout,
                     !.launcherAllowed = file.launcher,
                     !.autostart = file.autostart, !.followsMouse = file.follows,
                     !.launcher = @ /\ file.launcher]
  IN IF d.layoutLoaded # file.layout
     THEN LayoutSaved([e EXCEPT !.layout.mode = ModeOf(file.layout)])
     ELSE LayoutLoaded(e, e.active)

SetEnabled(d, on, file, rules) ==
  LET e == Reloaded([d EXCEPT !.enabled = on], file)
  IN IF ~on THEN [e EXCEPT !.launcher = FALSE]
     ELSE TerminalEnsured([LayoutLoaded(MarkUsed(e, e.active), e.active)
                           EXCEPT !.terminalShown = file.autostart], rules)

(***************************************************************************)
(* Switches of the active window.                                          *)
(***************************************************************************)
OnActive(d, Op(_)) == OnFocused(d, LAMBDA e, i : [e EXCEPT !.clients[i] = Op(@)])
ToggleFullscreen(d) == OnActive(d, LAMBDA c : [c EXCEPT !.full = IF @ > 0 THEN 0 ELSE 2])
SetFullscreenState(d, state) == OnActive(d, LAMBDA c : [c EXCEPT !.full = state])
TogglePseudo(d) == OnActive(d, LAMBDA c : [c EXCEPT !.pseudo = ~@])
TogglePin(d) == OnActive(d, LAMBDA c : [c EXCEPT !.pin = ~@])

(* The window a command names, or the focused one; the focus is settled    *)
(* only when the command names none.                                       *)
OnTarget(d, q, Op(_, _)) ==
  LET Named(i) == IF i = None THEN d ELSE Op(d, i)
  IN IF q.by = "focus" THEN OnFocused(d, Op) ELSE Named(FindByQuery(d, q))

MarkUrgent(d, q) == OnTarget(d, q, LAMBDA e, i : [e EXCEPT !.clients[i].urgent = ~@])
TagWindow(d, q, tag) == OnTarget(d, q, LAMBDA e, i : [e EXCEPT !.clients[i].tag = tag])
MoveToWorkspace(d, q, arg, follow) ==
  LET w == WorkspaceArg(d, arg)
  IN IF w = None THEN d ELSE OnTarget(d, q, LAMBDA e, i : MovedToWorkspace(e, i, w, follow))
MoveToSpecial(d, q, name, follow) ==
  OnTarget(d, q, LAMBDA e, i : MovedToSpecial(e, i, name, follow))

(***************************************************************************)
(* The keyboard.  In a submap, keys are its commands; over the launcher,   *)
(* they choose an app; otherwise what is no key of the desktop goes to the *)
(* terminal if the focused window is one.                                  *)
(***************************************************************************)
SetSubmap(d, name) == [d EXCEPT !.submap = name]

ResizeKey(d, k) ==
  CASE k \in {"left", "h"} -> AdjustRatio(d, -5)
    [] k \in {"right", "l"} -> AdjustRatio(d, 5)
    [] k \in {"up", "k"} -> AdjustMasterRatio(d, 5)
    [] k \in {"down", "j"} -> AdjustMasterRatio(d, -5)
    [] k = "r" -> ResetLayout(d, FALSE)
    [] k = "s" -> CycleSplit(d, 1)
    [] OTHER -> d

MoveKey(d, k) ==
  CASE k \in {"left", "up", "h", "k"} -> FocusRelative(d, -1)
    [] k \in {"right", "down", "l", "j"} -> FocusRelative(d, 1)
    [] k \in {"1", "2", "3"} ->
         MoveToWorkspace(d, [by |-> "focus"],
                         [kind |-> "number", n |-> CASE k = "1" -> 1 [] k = "2" -> 2 [] OTHER -> 3], FALSE)
    [] k = "n" -> MoveRelative(d, 1)
    [] k = "b" -> MoveRelative(d, -1)
    [] k = "m" -> MoveToMaster(d)
    [] k = "p" -> TogglePin(d)
    [] OTHER -> d

(* Apps by their keys in the launch submap and over the launcher. *)
LaunchApp(k) == CASE k \in {"t", "enter"} -> "terminal" [] k = "s" -> "settings" [] k = "l" -> "logs"
                  [] OTHER -> "none"
LauncherApp(k) == CASE k \in {"1", "enter", "space"} -> "terminal" [] k \in {"2", "s"} -> "settings"
                    [] k \in {"3", "l"} -> "logs" [] OTHER -> "none"

LaunchKey(d, k, rules) ==
  CASE LaunchApp(k) # "none" -> SetSubmap(Spawned(d, LaunchApp(k), rules), "default")
    [] k \in {"d", "space"} -> SetSubmap(LauncherToggled(d), "default")
    [] k = "q" -> SetSubmap(CloseActive(d), "default")
    [] OTHER -> d

LauncherKey(d, k, rules) ==
  CASE k = "esc" -> [d EXCEPT !.launcher = FALSE]
    [] LauncherApp(k) # "none" -> [Spawned(d, LauncherApp(k), rules) EXCEPT !.launcher = FALSE]
    [] OTHER -> d

SubmapKey(d, k, rules) ==
  IF k \in {"esc", "F12"} THEN SetSubmap(d, "default")
  ELSE CASE d.submap = "resize" -> ResizeKey(d, k)
         [] d.submap = "move" -> MoveKey(d, k)
         [] OTHER -> LaunchKey(d, k, rules)

SubmapKeys == ("F9" :> "resize") @@ ("F10" :> "move") @@ ("F11" :> "launch")
DesktopKeys == {"F1", "t", "F2", "F3", "F4", "F5", "F6", "F7", "F8"}

DesktopKey(d, k, rules) ==
  CASE k \in {"F1", "t"} -> Spawned(d, "terminal", rules)
    [] k = "F2" -> CloseActive(d)
    [] k = "F3" -> LauncherToggled(d)
    [] k = "F4" -> ToggleFullscreen(d)
    [] k = "F5" -> TogglePseudo(d)
    [] k = "F6" -> FocusRelative(d, 1)
    [] k = "F7" -> SwitchWorkspace(d, ClampWorkspace(d.active + 1))
    [] k = "F8" -> SwitchWorkspace(d, ClampWorkspace(d.active - 1))

(* Keys when the focused window is not a terminal, or there is none. *)
BareKey(d, k, rules) ==
  CASE k = "1" -> SwitchWorkspace(d, 1)
    [] k = "2" -> SwitchWorkspace(d, 2)
    [] k = "3" -> SwitchWorkspace(d, 3)
    [] k \in {"enter", "space"} -> Spawned(d, "terminal", rules)
    [] OTHER -> d

FocusedIsTerminal(d) == Focus(d) # None /\ TerminalBacked(d.clients[Focus(d)])

(* Mutant: the focus is used as it was left. *)
PlainKeyUnsettled(d, k, rules) ==
  IF FocusedIsTerminal(d) THEN [desk |-> d, typed |-> d.focused]
  ELSE [desk |-> BareKey(d, k, rules), typed |-> None]

(* desk and typed after a key that is no key of the desktop, and after any key. *)
PlainKey(d, k, rules) ==
  LET At(e) == IF FocusedIsTerminal(e) THEN [desk |-> e, typed |-> e.focused]
               ELSE [desk |-> BareKey(e, k, rules), typed |-> None]
  IN At(FocusSettled(d))

KeyEffect(d, k, rules) ==
  LET Desk(e) == [desk |-> e, typed |-> None]
  IN IF d.splash /\ k \in {"space", "enter", "esc"} THEN Desk([d EXCEPT !.splash = FALSE])
     ELSE IF ~d.enabled THEN Desk(d)   \* the console's own terminal takes it
     ELSE IF k \in DOMAIN SubmapKeys THEN Desk(SetSubmap(d, SubmapKeys[k]))
     ELSE IF d.submap # "default" THEN Desk(SubmapKey(d, k, rules))
     ELSE IF k # "F3" /\ d.launcher THEN Desk(LauncherKey(d, k, rules))
     ELSE IF k \in DesktopKeys THEN Desk(DesktopKey(d, k, rules))
     ELSE PlainKey(d, k, rules)

(***************************************************************************)
(* A frame.                                                                *)
(***************************************************************************)
(* The focus as a frame first sees it, before it is settled. *)
SeenFocus(d) ==
  IF Focus(d) # None /\ ClientOn(d, Focus(d), d.active) THEN Focus(d) ELSE LastFocusedOn(d, d.active, ClientOn)

(* The slots whose windows are drawn: the focused alone when it is         *)
(* fullscreen or the layout is monocle; no other fullscreen window.        *)
RenderedSlots(d) ==
  LET Drawn(i, f, layout) ==
        /\ ClientOn(d, i, d.active)
        /\ IF f # None /\ d.clients[f].full > 0 THEN i = f
           ELSE d.clients[i].full > 0 \/ layout.mode = 2 => i = f
      Of(f, layout) == SelectSeq([i \in Slots |-> i], LAMBDA i : Drawn(i, f, layout))
  IN Of(SeenFocus(d), LayoutReady(d, d.active).spaces[d.active].layout)

(* The windows of a frame, their rectangles and the gap left inside each.  *)
(* Their number is taken before the focus is settled, the windows after.   *)
Tiles(d, rules) ==
  LET Placed(slots, count, layout) ==
        [k \in DOMAIN slots |-> [slot |-> slots[k], rect |-> TileOf(k, count, layout), gap |-> InnerGap]]
      Seen(f, count) ==
        IF Focus(f) # None /\ (f.clients[Focus(f)].full > 0 \/ f.layout.mode = 2)
        THEN <<[slot |-> Focus(f), rect |-> Area, gap |-> 0]>>
        ELSE Placed(RenderedSlots(f), count, f.layout)
      Scene(e) == Seen(FocusSettled(e), Len(RenderedSlots(e)))
  IN Scene(TerminalEnsured(d, rules))

(* draw_desktop_client_tile draws nothing where there is no room. *)
HasRoom(tile) == tile.rect.w - 2 * tile.gap >= 80 /\ tile.rect.h - 2 * tile.gap >= 64

(* What gui_compose shows: the splash, the console or the tiles with room. *)
Frame(d, rules) ==
  IF d.splash \/ ~d.enabled THEN <<>> ELSE SelectSeq(Tiles(d, rules), HasRoom)

(***************************************************************************)
(* Behaviours.                                                             *)
(***************************************************************************)
(* A behaviour issues the commands of one group.  Bounds: the layout group *)
(* has the most commands and gets the shortest behaviours; special windows *)
(* and keys, with the most kinds of state, open fewer windows.             *)
Group(g) == session.group = g
SpawnLimit == IF Group("special") \/ Group("keys") THEN MaxSpawns - 1 ELSE MaxSpawns
CommandLimit == IF Group("layout") THEN MaxCommands ELSE MaxCommands + 1

Stepped(e, window) ==
  /\ e.next <= SpawnLimit + 1
  /\ desk' = e
  /\ typed' = window
  /\ UNCHANGED session

Commanded(e) ==
  /\ commands < CommandLimit
  /\ commands' = commands + 1
  /\ Stepped(e, None)

NamedQueries == {[by |-> "active"], [by |-> "app", value |-> "settings"], [by |-> "tag", value |-> "work"]}
                \cup {[by |-> "id", value |-> i] : i \in 1..MaxSpawns}
Queries == NamedQueries \cup {[by |-> "focus"]}
WorkspaceArgs == {[kind |-> "number", n |-> w] : w \in Workspaces}
                 \cup {[kind |-> "relative", n |-> -1], [kind |-> "previous"], [kind |-> "empty"],
                       [kind |-> "open", n |-> 1], [kind |-> "open", n |-> -2], [kind |-> "ordinal", n |-> 2]}
                 \cup {[kind |-> "named", name |-> n] : n \in Names}
RankArgs == {[kind |-> "step", n |-> 1], [kind |-> "step", n |-> -1], [kind |-> "first"],
             [kind |-> "last"], [kind |-> "rank", n |-> 2]}
Directions == {<<-1, 0>>, <<1, 0>>, <<0, -1>>, <<0, 1>>, <<0, 0>>}
SessionFiles == [layout : {"dwindle", "monocle"}, launcher : {TRUE}, autostart : {TRUE}, follows : BOOLEAN]
Keys == DOMAIN SubmapKeys \cup DesktopKeys
        \cup {"F12", "esc", "enter", "space", "1", "2", "h", "l", "k", "j", "r", "s", "m", "n", "p", "q", "x"}

Exec == \E app \in {"terminal", "settings"} : Commanded(Spawned(desk, app, session.rules))
Kill == Commanded(CloseActive(desk))
Workspace ==
  \E arg \in WorkspaceArgs :
    /\ Group("layout") \/ (arg.kind = "number" /\ ~Group("order"))
    /\ Commanded(SwitchWorkspace(desk, WorkspaceArg(desk, arg)))

SpecialCommand ==
  /\ Group("special")
  /\ \/ \E n \in SpecialNames : Commanded(ToggleSpecial(desk, n))
     \/ \E n \in SpecialNames, q \in Queries, follow \in BOOLEAN :
          Commanded(MoveToSpecial(desk, q, n, follow))
     \/ \E q \in Queries, w \in Workspaces, follow \in BOOLEAN :
          Commanded(MoveToWorkspace(desk, q, [kind |-> "number", n |-> w], follow))
     \/ \E q \in NamedQueries : Commanded(FocusFollowed(desk, FindByQuery(desk, q)))
     \/ Commanded(TogglePin(desk))
     \/ Commanded(OpenTerminal(desk, session.rules))

OrderCommand ==
  /\ Group("order")
  /\ \/ \E delta \in {-1, 1} : \/ Commanded(FocusRelative(desk, delta))
                               \/ Commanded(SwapRelative(desk, delta))
                               \/ Commanded(MoveRelative(desk, delta))
     \/ \E dir \in Directions : \/ Commanded(FocusDirectional(desk, dir, 1))
                               \/ Commanded(SwapDirectional(desk, dir, 1))
     \/ \E arg \in RankArgs : \/ Commanded(FocusRank(desk, arg))
                             \/ Commanded(SwapRank(desk, arg))
     \/ Commanded(FocusMaster(desk)) \/ Commanded(SwapWithMaster(desk)) \/ Commanded(MoveToMaster(desk))
     \/ \E state \in {0, 2} : Commanded(SetFullscreenState(desk, state))

MarkCommand ==
  /\ Group("marks")
  /\ \/ Commanded(FocusFollowed(desk, PreviousFocus(desk))) \/ Commanded(FocusUrgentOrLast(desk))
     \/ \E q \in Queries : Commanded(MarkUrgent(desk, q)) \/ Commanded(TagWindow(desk, q, "work"))

LayoutCommand ==
  /\ Group("layout")
  /\ \/ \E mode \in 0..2 : Commanded(SetMode(desk, mode)) \/ Commanded(SetSplit(desk, mode))
     \/ \E n \in {5, 10, 90} : Commanded(SetRatio(desk, n))
     \/ \E delta \in {-1, 1} : Commanded(CycleSplit(desk, delta)) \/ Commanded(ResizeActive(desk, delta, 0))
                               \/ Commanded(ResizeActive(desk, 0, delta))
     \/ Commanded(ResetLayout(desk, TRUE))
     \/ \E file \in SessionFiles : Commanded(Reloaded(desk, file))
     \/ \E w \in Workspaces, n \in Names : Commanded(RenameWorkspace(desk, w, n))

MasterCommand ==
  /\ Group("layout")
  /\ \/ \E n \in {5, 10, 90} : Commanded(SetMasterRatio(desk, n))
     \/ \E n \in {0, 2} : Commanded(SetMasters(desk, n)) \/ Commanded(AdjustMasters(desk, n))

(* Keys mean most without other commands; among special windows one that is only text. *)
KeyCommand ==
  \E k \in IF Group("keys") THEN Keys ELSE IF Group("special") THEN {"x"} ELSE {} :
       LET effect == KeyEffect(desk, k, session.rules) IN
       /\ commands < CommandLimit
       /\ commands' = commands + 1
       /\ Stepped(effect.desk, effect.typed)

(* The pointer moves, or its button is pressed. *)
Pointer ==
  /\ Group("keys")
  /\ \/ /\ desk.enabled /\ desk.followsMouse /\ ~desk.launcher /\ ~desk.splash
        /\ \E x \in {10, AreaWidth - 10}, y \in {10, AreaHeight - 10} : Commanded(FocusAt(desk, x, y))
     \/ desk.splash /\ Commanded([desk EXCEPT !.splash = FALSE])
     \/ ~desk.splash /\ desk.enabled /\ desk.launcher /\ Commanded([desk EXCEPT !.launcher = FALSE])

Enable ==
  /\ Group("keys")
  /\ \E file \in SessionFiles, on \in BOOLEAN : Commanded(SetEnabled(desk, on, file, session.rules))

Toggle == Group("keys") /\ Commanded(ToggleTerminal(desk, session.rules))

(* gui_compose draws the desktop: opens the terminal due and settles the focus. *)
Draw == /\ desk.enabled /\ ~desk.splash
        /\ Stepped(FocusSettled(TerminalEnsured(desk, session.rules)), None)
        /\ UNCHANGED commands

RuleSets == {<<>>,
             <<[selectors |-> <<[key |-> "app", value |-> "settings"]>>, action |-> [do |-> "workspace", value |-> 2]],
               [selectors |-> <<[key |-> "workspace", value |-> 2], [key |-> "focus", value |-> FALSE]>>,
                action |-> [do |-> "fullscreen"]],
               [selectors |-> <<[key |-> "app", value |-> "settings"], [key |-> "xwayland", value |-> "1"]>>,
                action |-> [do |-> "pin"]]>>,
             <<[selectors |-> <<[key |-> "xwayland", value |-> "settings"]>>, action |-> [do |-> "tag", value |-> "work"]],
               [selectors |-> <<[key |-> "tag", value |-> "work"], [key |-> "pin", value |-> FALSE]>>,
                action |-> [do |-> "pin"]],
               [selectors |-> <<[key |-> "fullscreen", value |-> FALSE]>>, action |-> [do |-> "pseudo"]]>>}

NoSpace == [used |-> FALSE, last |-> None, layout |-> NoLayout, name |-> "unnamed"]

(* The static initial values. *)
Booted ==
  [clients |-> [i \in Slots |-> NoClient], active |-> 1, previous |-> 1, focused |-> None,
   history |-> <<>>, spaces |-> [w \in Workspaces |-> [NoSpace EXCEPT !.name = ToString(w)]],
   layout |-> DefaultLayout(0), layoutDefault |-> "dwindle", layoutLoaded |-> "none",
   specialShown |-> FALSE, specialName |-> "default", specialLast |-> None,
   next |-> 1, enabled |-> FALSE, splash |-> TRUE, launcher |-> FALSE, launcherAllowed |-> TRUE,
   autostart |-> TRUE, followsMouse |-> FALSE, terminalShown |-> TRUE, submap |-> "default"]

(* Keys start at boot, the other groups on a desktop with two windows open. *)
Working(rules) ==
  Spawned(SetEnabled([Booted EXCEPT !.splash = FALSE], TRUE,
                     [layout |-> "dwindle", launcher |-> TRUE, autostart |-> TRUE, follows |-> FALSE], rules),
          "settings", rules)

DesktopInit ==
  /\ \/ session \in [group : {"special", "order", "marks", "keys"}, rules : {<<>>}]
     \/ session \in [group : {"layout"}, rules : RuleSets]
  /\ desk = IF Group("keys") THEN Booted ELSE Working(session.rules)
  /\ typed = None
  /\ commands = 0

DesktopNext == \/ Exec \/ Kill \/ Workspace
               \/ SpecialCommand \/ OrderCommand \/ MarkCommand \/ LayoutCommand \/ MasterCommand
               \/ KeyCommand \/ Pointer \/ Enable \/ Toggle \/ Draw

DesktopSpec == DesktopInit /\ [][DesktopNext]_windowVars

(***************************************************************************)
(* Properties.                                                             *)
(***************************************************************************)
(* Whatever is swapped, moved, closed or focused, the focus history lists  *)
(* open windows only, each once, and the focused window first: "last       *)
(* window" commands (desktop_previous_focus_index) never land on a window  *)
(* that is gone or on the one that already has the focus.                  *)
HistoryIsExact ==
  /\ \A k \in DOMAIN desk.history : desk.history[k] \in OpenIds(desk)
  /\ \A j, k \in DOMAIN desk.history : desk.history[j] = desk.history[k] => j = k
  /\ desk.focused # None => desk.history # <<>> /\ Head(desk.history) = desk.focused

(* desktop_move_client_index_in_scope and the swaps only reorder: no       *)
(* window is in two slots.                                                 *)
NoWindowTwice ==
  \A i, j \in Slots : Visible(desk, i) /\ desk.clients[i].id = desk.clients[j].id => i = j

(* No command loses a window but the one that closes the focused one, and  *)
(* ids are never given again.                                              *)
OnlyTheFocusedCloses ==
  [][/\ OpenIds(desk) \ OpenIds(desk') \subseteq {FocusSettled(desk).focused}
     /\ \A id \in OpenIds(desk') \ OpenIds(desk) : id >= desk.next]_windowVars

(* The layout in use is the stored layout of the active workspace, so      *)
(* neither a switch nor a command carries one workspace's layout to        *)
(* another (desktop_save_active_layout_state, desktop_load_layout_state).  *)
LayoutInStep ==
  desk.spaces[desk.active].layout \in {NoLayout, desk.layout}

(* A window is hidden exactly while it is on a special workspace that is   *)
(* not the one shown: a window taken back from a special workspace, or     *)
(* left behind by a switch, never stays invisible or shows through         *)
(* (desktop_update_special_hidden_states).                                 *)
HiddenIsSpecial ==
  \A i \in Slots : Visible(desk, i) =>
    (desk.clients[i].hidden <=> desk.clients[i].special /\ ~SpecialVisible(desk, desk.clients[i]))

(* A workspace remembers no window that was closed                         *)
(* (desktop_workspace_forget_focus_id), so an empty workspace is not taken *)
(* for an open one.                                                        *)
RememberedIsOpen ==
  \A w \in Workspaces : desk.spaces[w].last \in OpenIds(desk) \cup {None}

(* A name leads to one workspace, the default names of workspaces never    *)
(* renamed included (desktop_workspace_rename).                            *)
NamesAreDistinct ==
  \A v, w \in Workspaces : desk.spaces[v].name = desk.spaces[w].name => v = w

Disjoint(r, s) == r.x + r.w <= s.x \/ s.x + s.w <= r.x \/ r.y + r.h <= s.y \/ s.y + s.h <= r.y
Inside(r) == r.x >= 0 /\ r.y >= 0 /\ r.x + r.w <= AreaWidth /\ r.y + r.h <= AreaHeight

(* Once the focus is settled, the tiles of a frame lie in the tiling area  *)
(* and do not overlap, for any ratio, number of masters and mix of pinned, *)
(* special and fullscreen windows (draw_desktop_scene).                    *)
TilesDoNotOverlap ==
  LET Apart(tiles) == \A j, k \in DOMAIN tiles : /\ Inside(tiles[k].rect)
                                                 /\ j # k => Disjoint(tiles[j].rect, tiles[k].rect)
  IN FocusSettled(desk) = desk => Apart(Tiles(desk, session.rules))

(* A key goes to the focused window only, and the frame shows the terminal *)
(* it goes to, never one left behind on another workspace                  *)
(* (desktop_focused_client_is_terminal).  The frame lacks that terminal    *)
(* while the splash stands over the desktop, which holds back only a few   *)
(* keys, or where the scene has a tile for it that is too small to draw.   *)
KeysReachTheShownTerminal ==
  LET In(tiles) == \E k \in DOMAIN tiles : LET c == desk.clients[tiles[k].slot]
                                           IN c.id = typed /\ TerminalBacked(c)
      scene == Tiles(desk, session.rules)
  IN typed # None =>
       /\ desk.focused = typed
       /\ \/ In(Frame(desk, session.rules))
          \/ In(SelectSeq(scene, LAMBDA tile : desk.splash \/ ~HasRoom(tile)))

\* Slots, ids, focus history, what workspaces remember and what is hidden
\* list the same windows.
WindowListsAgree == NoWindowTwice /\ HistoryIsExact /\ RememberedIsOpen /\ HiddenIsSpecial

\* Workspaces keep their own layout and their own name.
WorkspacesInStep == LayoutInStep /\ NamesAreDistinct
=============================================================================
