----------------------------- MODULE TrayProofs -----------------------------
(***************************************************************************)
(* The window of the bar shows what it should after every flush            *)
(* (BarScreenIsUpToDate of module Tray), and the tray agrees with the      *)
(* programs whose icons dock in it (TrayAndIconsAgree), for any icons and  *)
(* screens.                                                                *)
(*                                                                         *)
(* The inductive invariant Faithful adds what a flush that only draws, and *)
(* one that follows a time in which the bar was hidden, rely on: the       *)
(* bounds are computed whether the bar is visible or not, and while no     *)
(* update is scheduled a visible bar is where it should be.                *)
(*                                                                         *)
(* The inductive invariant TrayInv of the tray rests on it, and adds what  *)
(* is on its way to the window manager: a window destroyed with an         *)
(* UnmapNotify has that notification behind its last request to dock.      *)
(***************************************************************************)
EXTENDS Tray, SeqLemmas

BarFields ==
  {"cells", "screen", "bounds", "current_bounds", "map_state", "update_server", "draw",
   "shown", "icons"}

IsBar(b) == b = [field \in BarFields |-> b[field]]

InPlace(b, v) ==
  /\ b.bounds = b.screen
  /\ ~ b.update_server => /\ b.map_state = v
                          /\ v => b.current_bounds = b.screen

Faithful(b, v) == IsBar(b) /\ InPlace(b, v) /\ BarIsUpToDate(b, v)

\* What decides whether the window is where it should be is in `c' as in `b'.
SameWindow(b, c) ==
  /\ c.screen = b.screen /\ c.bounds = b.bounds /\ c.current_bounds = b.current_bounds
  /\ c.map_state = b.map_state /\ c.update_server = b.update_server

\* The lists of cells and the icons that were drawn are the same in `c' as in `b'.
SameCells(b, c) == c.cells = b.cells /\ c.icons = b.icons

-----------------------------------------------------------------------------
(* What assignments to its fields make of a bar.                           *)

\* Other cells on one side, and other drawn icons, given names.
CellsWith(cells, side, x) == [cells EXCEPT ![side] = x]

WithSide(b, side, x) == [b EXCEPT !.cells[side] = x]

WithSideAndIcons(b, side, x, left) == [b EXCEPT !.cells[side] = x, !.icons = left]

(***************************************************************************)
(* Asking for a drawing, or no longer, leaves a bar whose window is where  *)
(* it was.                                                                 *)
(***************************************************************************)
LEMMA AssignDraw ==
  ASSUME NEW b, IsBar(b), NEW x
  PROVE  LET c == [b EXCEPT !.draw = x]
         IN IsBar(c) /\ SameWindow(b, c) /\ SameCells(b, c) /\ c.draw = x
BY Zenon DEF IsBar, BarFields, SameWindow, SameCells

(***************************************************************************)
(* A change of the cells of a side leaves a bar whose window is where it   *)
(* was.                                                                    *)
(***************************************************************************)
LEMMA AssignCells ==
  ASSUME NEW b, IsBar(b), NEW side, NEW x
  PROVE  LET c == WithSide(b, side, x)
         IN /\ IsBar(c) /\ SameWindow(b, c)
            /\ c.cells = CellsWith(b.cells, side, x) /\ c.icons = b.icons
BY Zenon DEF IsBar, BarFields, SameWindow, WithSide, CellsWith

(***************************************************************************)
(* So does the removal of a cell together with the drawn icon it held.     *)
(***************************************************************************)
LEMMA AssignCellsAndIcons ==
  ASSUME NEW b, IsBar(b), NEW side, NEW x, NEW left
  PROVE  LET c == WithSideAndIcons(b, side, x, left)
         IN /\ IsBar(c) /\ SameWindow(b, c)
            /\ c.cells = CellsWith(b.cells, side, x) /\ c.icons = left
BY Zenon DEF IsBar, BarFields, SameWindow, WithSideAndIcons, CellsWith

(***************************************************************************)
(* So does the loss of what the window shows.                              *)
(***************************************************************************)
LEMMA AssignShown ==
  ASSUME NEW b, IsBar(b), NEW x
  PROVE  LET c == [b EXCEPT !.shown = x]
         IN IsBar(c) /\ SameWindow(b, c) /\ SameCells(b, c)
BY Zenon DEF IsBar, BarFields, SameWindow, SameCells

(***************************************************************************)
(* schedule_draw leaves the window where it is, and a visible bar is going *)
(* to be drawn.                                                            *)
(***************************************************************************)
LEMMA ScheduledDraw ==
  ASSUME NEW b, IsBar(b), NEW v
  PROVE  LET c == ScheduleBarDraw(b, v)
         IN IsBar(c) /\ SameWindow(b, c) /\ SameCells(b, c) /\ (v => c.draw)
<1> DEFINE x == b.draw \/ v
           c == [b EXCEPT !.draw = x]
<1>1. ScheduleBarDraw(b, v) = c
  BY Zenon DEF ScheduleBarDraw
<1>2. v => x
  OBVIOUS
<1> HIDE DEF x
<1>3. IsBar(c) /\ SameWindow(b, c) /\ SameCells(b, c) /\ c.draw = x
  BY AssignDraw, Zenon
<1> HIDE DEF c
<1> QED
  BY <1>1, <1>2, <1>3, Zenon

(***************************************************************************)
(* A bar whose cells or window change stays faithful if it is going to be  *)
(* drawn, should it be visible.                                            *)
(***************************************************************************)
LEMMA DrawnLater ==
  ASSUME NEW b, NEW v, Faithful(b, v),
         NEW c, IsBar(c), SameWindow(b, c)
  PROVE  Faithful(ScheduleBarDraw(c, v), v)
<1> DEFINE d == ScheduleBarDraw(c, v)
<1>1. IsBar(d) /\ SameWindow(c, d) /\ (v => d.draw)
  BY ScheduledDraw, Zenon
<1>2. SameWindow(b, d)
  BY <1>1, Zenon DEF SameWindow
<1> HIDE DEF d
<1>3. InPlace(d, v)
  BY <1>2, Zenon DEF Faithful, InPlace, SameWindow
<1>4. BarIsUpToDate(d, v)
  BY <1>1, <1>3, Zenon DEF InPlace, BarIsUpToDate
<1> QED
  BY <1>1, <1>3, <1>4, Zenon DEF Faithful, d

(***************************************************************************)
(* The operations on the bar.                                              *)
(***************************************************************************)
(***************************************************************************)
(* do_insert: a new cell is drawn by the next flush if the bar is visible. *)
(***************************************************************************)
LEMMA Inserting ==
  ASSUME NEW b, NEW v, Faithful(b, v), NEW side, NEW cell
  PROVE  Faithful(InsertBegin(b, side, cell, v), v)
<1> DEFINE x == InsertAt(b.cells[side], 1, cell)
           c == WithSide(b, side, x)
<1>1. InsertBegin(b, side, cell, v) = ScheduleBarDraw(c, v)
  BY Zenon DEF InsertBegin, InsertCellAt, WithSide
<1> HIDE DEF x
<1>2. IsBar(c) /\ SameWindow(b, c)
  BY AssignCells, Zenon DEF Faithful
<1> QED
  BY <1>1, <1>2, DrawnLater, Zenon

(***************************************************************************)
(* The destructor of a cell asks for the drawing of those that are left.   *)
(***************************************************************************)
LEMMA Removing ==
  ASSUME NEW b, NEW v, Faithful(b, v), NEW side, NEW id
  PROVE  Faithful(RemoveCell(b, side, id, v), v)
<1> DEFINE left == {p \in b.icons : p.window # id}
           y == RemoveAt(b.cells[side], Place(b, side, id))
           c == WithSideAndIcons(b, side, y, left)
<1>1. RemoveCell(b, side, id, v) = ScheduleBarDraw(c, v)
  BY Zenon DEF RemoveCell, WithSideAndIcons
<1> HIDE DEF left, y
<1>2. IsBar(c) /\ SameWindow(b, c)
  BY AssignCellsAndIcons, Zenon DEF Faithful
<1> QED
  BY <1>1, <1>2, DrawnLater, Zenon

(***************************************************************************)
(* handle_expose asks for the drawing of what was lost.                    *)
(***************************************************************************)
LEMMA Exposing ==
  ASSUME NEW b, NEW v, Faithful(b, v)
  PROVE  Faithful(ExposeBar(b, v), v)
<1> DEFINE c == [b EXCEPT !.shown = Lost]
<1>1. IsBar(c) /\ SameWindow(b, c)
  BY AssignShown, Zenon DEF Faithful
<1> QED
  BY <1>1, DrawnLater, Zenon DEF ExposeBar

(***************************************************************************)
(* When bar_visible() changes, schedule_update_server sees to mapping,     *)
(* place and drawing, whatever was scheduled before.                       *)
(***************************************************************************)
LEMMA ShowingOrHiding ==
  ASSUME NEW b, NEW v, Faithful(b, v), NEW u
  PROVE  Faithful(ScheduleUpdateServer(b), u)
<1> DEFINE c == ScheduleUpdateServer(b)
<1>1. IsBar(c) /\ c.bounds = b.bounds /\ c.screen = b.screen /\ c.update_server
  BY Zenon DEF ScheduleUpdateServer, Faithful, IsBar, BarFields
<1> HIDE DEF c
<1> QED
  BY <1>1, Zenon DEF Faithful, InPlace, BarIsUpToDate, c

(***************************************************************************)
(* handle_screen_size_changed computes the new bounds in any case, and has *)
(* the window moved if it is visible.                                      *)
(***************************************************************************)
LEMMA Resizing ==
  ASSUME NEW b, NEW v, Faithful(b, v), NEW s
  PROVE  Faithful(ResizeBar(b, s, v), v)
<1> DEFINE x == b.update_server \/ v
           c == [b EXCEPT !.screen = s, !.bounds = s, !.update_server = x]
<1>1. ResizeBar(b, s, v) = c
  BY Zenon DEF ResizeBar
<1> HIDE DEF x
<1>2. /\ IsBar(c) /\ c.screen = s /\ c.bounds = s /\ c.update_server = x
      /\ c.map_state = b.map_state
  BY Zenon DEF Faithful, IsBar, BarFields
<1> HIDE DEF c
<1>3. ~ x => b.map_state = v /\ ~ v
  BY Zenon DEF Faithful, InPlace, x
<1>4. InPlace(c, v)
  BY <1>2, <1>3, Zenon DEF InPlace
<1>5. BarIsUpToDate(c, v)
  BY <1>2, <1>3, Zenon DEF BarIsUpToDate
<1> QED
  BY <1>1, <1>2, <1>4, <1>5, Zenon DEF Faithful

(***************************************************************************)
(* What the window shows depends on the cells and the bounds alone.        *)
(***************************************************************************)
LEMMA SamePicture ==
  ASSUME NEW b, NEW c, c.cells = b.cells, c.bounds = b.bounds
  PROVE  Picture(c) = Picture(b) /\ IconPlaces(c) = IconPlaces(b)
<1>1. Picture(c) = Picture(b)
  BY Zenon DEF Picture
<1>2. IconPlaces(c) = IconPlaces(b)
  BY Zenon DEF IconPlaces
<1> QED
  BY <1>1, <1>2

\* Clearing what was scheduled, at the end of a flush.
Cleared(b) == [b EXCEPT !.update_server = FALSE, !.draw = FALSE]

(***************************************************************************)
(* The end of a flush only takes back what was scheduled.                  *)
(***************************************************************************)
LEMMA Clearing ==
  ASSUME NEW b, IsBar(b)
  PROVE  LET c == Cleared(b)
         IN /\ IsBar(c) /\ ~ c.update_server
            /\ c.cells = b.cells /\ c.screen = b.screen /\ c.bounds = b.bounds
            /\ c.current_bounds = b.current_bounds /\ c.map_state = b.map_state
            /\ c.shown = b.shown /\ c.icons = b.icons
BY Zenon DEF IsBar, BarFields, Cleared

(***************************************************************************)
(* The server part of a flush maps the window if the bar is visible, and   *)
(* then puts it where the screen has room for it.                          *)
(***************************************************************************)
LEMMA Updating ==
  ASSUME NEW b, NEW v, IsBar(b), b.bounds = b.screen
  PROVE  LET c == UpdateServer(b, v)
         IN /\ IsBar(c) /\ c.bounds = c.screen /\ c.map_state = v
            /\ v => c.current_bounds = c.screen
            /\ SameCells(b, c)
<1> DEFINE x == IF v THEN b.bounds ELSE b.current_bounds
           y == IF v THEN b.shown ELSE Lost
           c == [b EXCEPT !.map_state = v, !.current_bounds = x, !.shown = y]
<1>1. UpdateServer(b, v) = c
  BY Zenon DEF UpdateServer
<1>2. v => x = b.bounds
  OBVIOUS
<1> HIDE DEF x, y
<1>3. /\ IsBar(c) /\ c.bounds = b.bounds /\ c.screen = b.screen /\ c.map_state = v
      /\ c.current_bounds = x /\ SameCells(b, c)
  BY Zenon DEF IsBar, BarFields, SameCells
<1> HIDE DEF c
<1> QED
  BY <1>1, <1>2, <1>3, Zenon

(***************************************************************************)
(* Drawing changes what the window shows and the places of the icons, by   *)
(* the present cells and bounds, and nothing else.                         *)
(***************************************************************************)
LEMMA DrawingNow ==
  ASSUME NEW b, IsBar(b)
  PROVE  LET c == Draw(b)
         IN /\ IsBar(c)
            /\ c.cells = b.cells /\ c.screen = b.screen /\ c.bounds = b.bounds
            /\ c.current_bounds = b.current_bounds /\ c.map_state = b.map_state
            /\ c.shown = IF b.map_state THEN Picture(b) ELSE Lost
            /\ c.icons = IconPlaces(b)
<1> DEFINE x == IF b.map_state THEN Picture(b) ELSE Lost
           y == IconPlaces(b)
           c == [b EXCEPT !.shown = x, !.icons = y]
<1>1. Draw(b) = c
  BY Zenon DEF Draw
<1> HIDE DEF x, y
<1>2. /\ IsBar(c)
      /\ c.cells = b.cells /\ c.screen = b.screen /\ c.bounds = b.bounds
      /\ c.current_bounds = b.current_bounds /\ c.map_state = b.map_state
      /\ c.shown = x /\ c.icons = y
  BY Zenon DEF IsBar, BarFields
<1> QED
  BY <1>1, <1>2, Zenon DEF x, y

(***************************************************************************)
(* A flush leaves nothing scheduled and a faithful bar: what it draws is   *)
(* computed after the window was put in its place.                         *)
(***************************************************************************)
LEMMA Flushing ==
  ASSUME NEW b, NEW v, Faithful(b, v), b.update_server \/ b.draw
  PROVE  Faithful(FlushBar(b, v), v)
<1> DEFINE u == IF b.update_server THEN UpdateServer(b, v) ELSE b
           d == Draw(u)
           c == Cleared(d)
<1>1. FlushBar(b, v) = c
  BY Zenon DEF FlushBar, Cleared
<1>2. /\ IsBar(u) /\ u.bounds = u.screen /\ u.map_state = v
      /\ v => u.current_bounds = u.screen
  <2>1. CASE b.update_server
    BY <2>1, Updating, Zenon DEF Faithful, InPlace
  <2>2. CASE ~ b.update_server
    BY <2>2, Zenon DEF Faithful, InPlace
  <2> QED
    BY <2>1, <2>2
<1> HIDE DEF u
<1>3. /\ IsBar(d)
      /\ d.cells = u.cells /\ d.screen = u.screen /\ d.bounds = u.bounds
      /\ d.current_bounds = u.current_bounds /\ d.map_state = u.map_state
      /\ d.shown = IF u.map_state THEN Picture(u) ELSE Lost
      /\ d.icons = IconPlaces(u)
  BY <1>2, DrawingNow, Zenon
<1> HIDE DEF d
<1>4. /\ IsBar(c) /\ ~ c.update_server
      /\ c.cells = u.cells /\ c.screen = u.screen /\ c.bounds = u.bounds
      /\ c.current_bounds = u.current_bounds /\ c.map_state = u.map_state
      /\ c.shown = d.shown /\ c.icons = d.icons
  BY <1>3, Clearing, Zenon
<1> HIDE DEF c
<1>5. Picture(c) = Picture(u) /\ IconPlaces(c) = IconPlaces(u)
  BY <1>4, SamePicture, Zenon
<1>6. InPlace(c, v)
  BY <1>2, <1>4, Zenon DEF InPlace
<1>7. v => c.shown = Picture(c) /\ c.icons = IconPlaces(c)
  BY <1>2, <1>3, <1>4, <1>5, Zenon
<1>8. BarIsUpToDate(c, v)
  BY <1>4, <1>6, <1>7, Zenon DEF InPlace, BarIsUpToDate
<1> QED
  BY <1>1, <1>4, <1>6, <1>8, Zenon DEF Faithful

-----------------------------------------------------------------------------
(***************************************************************************)
(* Every step that the icons, the views and the server make the bar take   *)
(* leaves it faithful.                                                     *)
(***************************************************************************)
LEMMA FaithfulStays == TraySpec => []Faithful(bar, visible)
<1> DEFINE Inv == Faithful(bar, visible)
<1>1. TrayInit /\ visible \in BOOLEAN /\ (\E b \in Bounds : bar = NewBar(b)) => Inv
  <2> SUFFICES ASSUME NEW s \in Bounds, bar = NewBar(s)
               PROVE  Inv
    OBVIOUS
  <2>1. IsBar(bar) /\ bar.bounds = bar.screen /\ bar.update_server
    BY Zenon DEF NewBar, IsBar, BarFields
  <2> QED
    BY <2>1, Zenon DEF Faithful, InPlace, BarIsUpToDate
<1>2. Inv /\ [TrayNext]_<<bar, visible, tray>> => Inv'
  <2> SUFFICES ASSUME Inv, [TrayNext]_<<bar, visible, tray>>
               PROVE  Faithful(bar', visible')
    BY Zenon
  <2>1. CASE Programs
    BY <2>1, Zenon DEF Programs, RequestDock, MapIcon, UnmapIcon, DestroyIcon
  <2>2. CASE HandleTrayOpcode
    BY <2>2, Inserting, Zenon DEF HandleTrayOpcode, Dock, IgnoreDuplicate
  <2>3. CASE HandleUnmapNotify
    <3> DEFINE w == Head(events).window
    <3>1. CASE w \in docked
      BY <2>3, <3>1, Removing, Zenon DEF HandleUnmapNotify
    <3>2. CASE w \notin docked
      BY <2>3, <3>2, Zenon DEF HandleUnmapNotify
    <3> QED
      BY <3>1, <3>2
  <2>4. CASE ShowOrHide
    BY <2>4, ShowingOrHiding, Zenon DEF ShowOrHide
  <2>5. ASSUME NEW s \in Bounds, ScreenSizeChanged(s)
        PROVE  Faithful(bar', visible')
    BY <2>5, Resizing, Zenon DEF ScreenSizeChanged
  <2>6. CASE Obscure
    BY <2>6, Exposing, Zenon DEF Obscure
  <2>7. CASE Flush
    BY <2>7, Flushing, Zenon DEF Flush
  <2>8. CASE UNCHANGED <<bar, visible, tray>>
    BY <2>8, Zenon
  <2> QED
    BY <2>1, <2>2, <2>3, <2>4, <2>5, <2>6, <2>7, <2>8 DEF TrayNext, BarEvents
<1> QED
  BY <1>1, <1>2, PTL DEF TraySpec

(***************************************************************************)
(* Whatever icons dock, withdraw and vanish, however the bar is hidden,    *)
(* shown, obscured and moved: nothing is scheduled only when the window is *)
(* where it should be and shows the present cells.                         *)
(***************************************************************************)
THEOREM BarStaysFaithful == TraySpec => []BarScreenIsUpToDate
<1>1. Faithful(bar, visible) => BarScreenIsUpToDate
  BY Zenon DEF Faithful, BarScreenIsUpToDate
<1> QED
  BY <1>1, FaithfulStays, PTL

-----------------------------------------------------------------------------
(* The cells of the icons.                                                 *)

Docking == {IconCell(w) : w \in Icons}

\* A list of cells, one for each window of `D'.
IconList(s, D) ==
  /\ s \in Seq(Docking) /\ IsInjective(s)
  /\ ToSet(s) = {IconCell(w) : w \in D}

\* The cells of a bar in whose tray the windows of `D' are docked.
HoldsIcons(b, D) ==
  /\ DOMAIN b.cells = Sides
  /\ b.cells["left"] = <<>> /\ IconList(b.cells["right"], D)
  /\ \A p \in b.icons : p.window \in D

(***************************************************************************)
(* An icon cell bears the name of its window.                              *)
(***************************************************************************)
LEMMA IconCellProperties ==
  ASSUME NEW w
  PROVE  IconCell(w).id = w /\ IconCell(w).icon
BY DEF IconCell

(***************************************************************************)
(* The names of the cells, place by place.                                 *)
(***************************************************************************)
LEMMA NamesOfIcons ==
  ASSUME NEW D, NEW s, IconList(s, D)
  PROVE  /\ DOMAIN s = 1..Len(s) /\ Len(s) \in Nat
         /\ \A i \in DOMAIN s : s[i].id \in D /\ s[i].icon
         /\ \A w \in D : \E i \in DOMAIN s : s[i].id = w
         /\ \A i, j \in DOMAIN s : s[i].id = s[j].id => i = j
<1>1. /\ s \in Seq(Docking) /\ IsInjective(s)
      /\ ToSet(s) = {IconCell(w) : w \in D}
  BY DEF IconList
<1>2. DOMAIN s = 1..Len(s) /\ Len(s) \in Nat
  BY <1>1, LenProperties
<1>3. \A i \in DOMAIN s : \E w \in D : s[i] = IconCell(w)
  BY <1>1 DEF ToSet
<1>4. ASSUME NEW w \in D PROVE \E i \in DOMAIN s : s[i].id = w
  <2>1. IconCell(w) \in ToSet(s)
    BY <1>1
  <2>2. PICK i \in DOMAIN s : s[i] = IconCell(w)
    BY <2>1 DEF ToSet
  <2>3. QED BY <2>2, IconCellProperties
<1>5. ASSUME NEW i \in DOMAIN s, NEW j \in DOMAIN s, s[i].id = s[j].id PROVE i = j
  <2>1. s[i] = s[j]
    BY <1>3, <1>5, IconCellProperties
  <2>2. QED BY <1>1, <2>1 DEF IsInjective
<1>6. QED BY <1>2, <1>3, <1>4, <1>5, IconCellProperties

(***************************************************************************)
(* There is one cell for each docked window.                               *)
(***************************************************************************)
LEMMA OneCellForEachIcon ==
  ASSUME HoldsIcons(bar, docked)
  PROVE  IconCells = docked /\ IsInjective(Ids(bar, "right"))
<1> DEFINE s == bar.cells["right"]
           ids == [i \in DOMAIN s |-> s[i].id]
<1>1. IconCells = {c.id : c \in {d \in ToSet(s) : d.icon}} /\ Ids(bar, "right") = ids
  BY DEF IconCells, Ids
<1>2. IconList(s, docked)
  BY DEF HoldsIcons
<1> HIDE DEF s
<1>3. /\ \A i \in DOMAIN s : s[i].id \in docked /\ s[i].icon
      /\ \A w \in docked : \E i \in DOMAIN s : s[i].id = w
      /\ \A i, j \in DOMAIN s : s[i].id = s[j].id => i = j
  BY <1>2, NamesOfIcons
<1>4. IconCells \subseteq docked
  BY <1>1, <1>3 DEF ToSet
<1>5. docked \subseteq IconCells
  <2>1. ASSUME NEW w \in docked PROVE w \in IconCells
    <3>1. PICK i \in DOMAIN s : s[i].id = w /\ s[i].icon
      BY <1>3
    <3>2. s[i] \in ToSet(s)
      BY <3>1 DEF ToSet
    <3>3. QED BY <1>1, <3>1, <3>2
  <2>2. QED BY <2>1
<1>6. IsInjective(ids)
  <2>1. DOMAIN ids = DOMAIN s /\ \A i \in DOMAIN s : ids[i] = s[i].id
    OBVIOUS
  <2> HIDE DEF ids
  <2>2. QED BY <1>3, <2>1 DEF IsInjective
<1>7. QED BY <1>1, <1>4, <1>5, <1>6

(***************************************************************************)
(* A cell for a new window, anywhere in the list.                          *)
(***************************************************************************)
LEMMA IconListGrows ==
  ASSUME NEW D, NEW s, IconList(s, D), NEW w \in Icons \ D, NEW i \in 1..(Len(s) + 1)
  PROVE  IconList(InsertAt(s, i, IconCell(w)), D \cup {w})
<1> DEFINE e == IconCell(w)
           x == InsertAt(s, i, e)
<1>1. s \in Seq(Docking) /\ IsInjective(s) /\ ToSet(s) = {IconCell(y) : y \in D}
  BY DEF IconList
<1>2. e \in Docking /\ e \notin ToSet(s)
  BY <1>1, IconCellProperties DEF Docking
<1> HIDE DEF e
<1>3. x \in Seq(Docking) /\ IsInjective(x) /\ ToSet(x) = ToSet(s) \cup {e}
  BY <1>1, <1>2, InsertAtProperties
<1> HIDE DEF x
<1>4. ToSet(x) = {IconCell(y) : y \in D \cup {w}}
  BY <1>1, <1>3 DEF e
<1>5. QED BY <1>3, <1>4 DEF IconList, x, e

(***************************************************************************)
(* The cell of a window goes.                                              *)
(***************************************************************************)
LEMMA IconListShrinks ==
  ASSUME NEW D, NEW s, IconList(s, D), NEW i \in DOMAIN s
  PROVE  IconList(RemoveAt(s, i), D \ {s[i].id})
<1> DEFINE e == s[i]
           x == RemoveAt(s, i)
<1>1. s \in Seq(Docking) /\ IsInjective(s) /\ ToSet(s) = {IconCell(y) : y \in D}
  BY DEF IconList
<1>2. i \in 1..Len(s)
  BY NamesOfIcons
<1>3. e = IconCell(e.id)
  <2>1. e \in ToSet(s)
    BY DEF ToSet
  <2> HIDE DEF e
  <2>2. QED BY <1>1, <2>1, IconCellProperties
<1>0. x = RemoveAt(s, i) /\ s[i] = e
  OBVIOUS
<1> HIDE DEF x, e
<1>4. x \in Seq(Docking) /\ IsInjective(x) /\ ToSet(x) = ToSet(s) \ {e}
  <2> DEFINE T == Docking
  <2>1. s \in Seq(T) /\ IsInjective(s) /\ i \in 1..Len(s) /\ s[i] = e /\ x = RemoveAt(s, i)
    BY <1>0, <1>1, <1>2
  <2> HIDE DEF T
  <2>2. x \in Seq(T) /\ ToSet(x) = ToSet(s) \ {e} /\ IsInjective(x)
    BY <2>1, RemoveAtLeavesOthers
  <2>3. QED BY <2>2 DEF T
<1>5. ToSet(x) = {IconCell(y) : y \in D \ {e.id}}
  <2> DEFINE w == e.id
  <2>1. ToSet(x) = {IconCell(y) : y \in D} \ {IconCell(w)}
    BY <1>1, <1>3, <1>4
  <2> HIDE DEF w
  <2>2. ToSet(x) = {IconCell(y) : y \in D \ {w}}
    BY <2>1, IconCellProperties
  <2>3. QED BY <2>2 DEF w
<1>6. QED BY <1>4, <1>5 DEF IconList, x, e

(***************************************************************************)
(* handle_tray_opcode puts a cell for the window first.                    *)
(***************************************************************************)
LEMMA DockingCell ==
  ASSUME NEW b, IsBar(b), NEW D, HoldsIcons(b, D), NEW w \in Icons \ D, NEW v,
         NEW c, c = InsertBegin(b, "right", IconCell(w), v)
  PROVE  HoldsIcons(c, D \cup {w}) /\ c.icons = b.icons
<1> DEFINE s == b.cells["right"]
           x == InsertAt(s, 1, IconCell(w))
           y == CellsWith(b.cells, "right", x)
           m == WithSide(b, "right", x)
<1>1. c = ScheduleBarDraw(m, v)
  BY Zenon DEF InsertBegin, InsertCellAt, WithSide
<1>2. IconList(x, D \cup {w})
  <2>1. IconList(s, D)
    BY DEF HoldsIcons
  <2> HIDE DEF s
  <2>2. 1 \in 1..(Len(s) + 1)
    BY <2>1, NamesOfIcons
  <2>3. QED BY <2>1, <2>2, IconListGrows
<1> HIDE DEF x
<1>4. DOMAIN y = Sides /\ y["left"] = <<>> /\ y["right"] = x
  BY DEF HoldsIcons, Sides, CellsWith
<1>5. IsBar(m) /\ m.cells = y /\ m.icons = b.icons
  BY AssignCells, Zenon
<1> HIDE DEF m, y
<1>6. c.cells = y /\ c.icons = b.icons
  BY <1>1, <1>5, ScheduledDraw, Zenon DEF SameCells
<1>7. QED BY <1>2, <1>4, <1>6 DEF HoldsIcons

(***************************************************************************)
(* The destructor of a cell takes it out of the list.                      *)
(***************************************************************************)
LEMMA UndockingCell ==
  ASSUME NEW b, IsBar(b), NEW D, HoldsIcons(b, D), NEW w \in D, NEW v,
         NEW c, c = RemoveCell(b, "right", w, v)
  PROVE  HoldsIcons(c, D \ {w}) /\ c.icons = {p \in b.icons : p.window # w}
<1> DEFINE s == b.cells["right"]
           i == Place(b, "right", w)
           x == RemoveAt(s, i)
           left == {p \in b.icons : p.window # w}
           y == CellsWith(b.cells, "right", x)
           m == WithSideAndIcons(b, "right", x, left)
<1>1. c = ScheduleBarDraw(m, v)
  BY Zenon DEF RemoveCell, WithSideAndIcons
<1>2. IconList(x, D \ {w})
  <2>1. IconList(s, D) /\ i = CHOOSE j \in DOMAIN s : s[j].id = w
    BY Zenon DEF HoldsIcons, Place
  <2> HIDE DEF s, i
  <2>2. \E j \in DOMAIN s : s[j].id = w
    BY <2>1, NamesOfIcons
  <2>3. i \in DOMAIN s /\ s[i].id = w
    BY <2>1, <2>2
  <2>4. QED BY <2>1, <2>3, IconListShrinks
<1> HIDE DEF x
<1>3. \A p \in left : p.window \in D \ {w}
  BY DEF HoldsIcons
<1> HIDE DEF left
<1>5. DOMAIN y = Sides /\ y["left"] = <<>> /\ y["right"] = x
  BY DEF HoldsIcons, Sides, CellsWith
<1>6. IsBar(m) /\ m.cells = y /\ m.icons = left
  BY AssignCellsAndIcons
<1> HIDE DEF m, y
<1>7. c.cells = y /\ c.icons = left
  BY <1>1, <1>6, ScheduledDraw, Zenon DEF SameCells
<1>8. QED BY <1>2, <1>3, <1>5, <1>7 DEF HoldsIcons, left

(***************************************************************************)
(* The places a drawing finds are those of the docked windows.             *)
(***************************************************************************)
LEMMA PlacesOfIcons ==
  ASSUME NEW b, NEW D, HoldsIcons(b, D)
  PROVE  \A p \in IconPlaces(b) : p.window \in D
<1> DEFINE s == b.cells["right"]
           place(c, beside) == [window |-> c.id, beside |-> Drawn(beside), bounds |-> b.bounds]
<1>1. \A i \in DOMAIN s : s[i].id \in D
  <2>1. IconList(s, D)
    BY DEF HoldsIcons
  <2> HIDE DEF s
  <2>2. QED BY <2>1, NamesOfIcons
<1>2. IconIndices(b.cells["left"]) = {}
  BY DEF HoldsIcons, IconIndices
<1> SUFFICES ASSUME NEW p \in IconPlaces(b) PROVE p.window \in D
  OBVIOUS
<1>3. PICK i \in IconIndices(s) : p = place(s[i], SubSeq(s, i + 1, Len(s)))
  BY <1>2, Zenon DEF IconPlaces
<1>4. p.window = s[i].id /\ i \in DOMAIN s
  BY <1>3 DEF IconIndices
<1>5. QED BY <1>1, <1>4

(***************************************************************************)
(* A flush changes no cell, and draws the icons that are docked.           *)
(***************************************************************************)
LEMMA FlushingTray ==
  ASSUME NEW b, NEW v, IsBar(b), b.bounds = b.screen, b.update_server \/ b.draw,
         NEW D, HoldsIcons(b, D)
  PROVE  HoldsIcons(FlushBar(b, v), D)
<1> DEFINE u == IF b.update_server THEN UpdateServer(b, v) ELSE b
           d == Draw(u)
           c == Cleared(d)
<1>1. FlushBar(b, v) = c
  BY Zenon DEF FlushBar, Cleared
<1>2. IsBar(u) /\ SameCells(b, u)
  <2>1. CASE b.update_server
    BY <2>1, Updating, Zenon
  <2>2. CASE ~ b.update_server
    BY <2>2, Zenon DEF SameCells
  <2> QED
    BY <2>1, <2>2
<1> HIDE DEF u
<1>3. IsBar(d) /\ d.cells = u.cells /\ d.icons = IconPlaces(u)
  BY <1>2, DrawingNow, Zenon
<1> HIDE DEF d
<1>4. c.cells = b.cells /\ c.icons = IconPlaces(u)
  BY <1>2, <1>3, Clearing, Zenon DEF SameCells
<1>5. HoldsIcons(u, D)
  BY <1>2 DEF HoldsIcons, SameCells
<1>6. \A p \in IconPlaces(u) : p.window \in D
  BY <1>5, PlacesOfIcons
<1> HIDE DEF c
<1>7. HoldsIcons(c, D)
  BY <1>4, <1>6 DEF HoldsIcons
<1>8. QED BY <1>1, <1>7
-----------------------------------------------------------------------------
(* The events on their way.                                                *)

Events == [type : {"unmap", "dock"}, window : Icons]

\* An UnmapNotify of `w' is in the queue `s'.
Notified(s, w) == \E i \in DOMAIN s : s[i] = Event("unmap", w)

\* Behind every request to dock of a window of `D' comes its UnmapNotify.
Announced(s, D) ==
  \A i \in DOMAIN s : s[i].type = "dock" /\ s[i].window \in D =>
    \E j \in DOMAIN s : i < j /\ s[j] = Event("unmap", s[i].window)

(***************************************************************************)
(* An event is what it was made of.                                        *)
(***************************************************************************)
LEMMA EventProperties ==
  /\ \A w \in Icons : Event("dock", w) \in Events /\ Event("unmap", w) \in Events
  /\ \A w : /\ Event("dock", w).type = "dock" /\ Event("dock", w).window = w
            /\ Event("unmap", w).type = "unmap" /\ Event("unmap", w).window = w
  /\ \A e \in Events : /\ e.type = "unmap" => e = Event("unmap", e.window)
                       /\ e.window \in Icons
BY DEF Event, Events

(***************************************************************************)
(* An event that the server sends comes behind those on their way.         *)
(***************************************************************************)
LEMMA Sending ==
  ASSUME NEW s \in Seq(Events), NEW e \in Events, NEW t, t = Append(s, e) \/ t = s \o <<e>>,
         NEW D, Announced(s, D), ~ (e.type = "dock" /\ e.window \in D)
  PROVE  /\ t \in Seq(Events)
         /\ \A w : Notified(s, w) => Notified(t, w)
         /\ \A w : e = Event("unmap", w) => Notified(t, w) /\ Announced(t, D \cup {w})
         /\ Announced(t, D)
<1>1. /\ t \in Seq(Events) /\ Len(s) \in Nat
      /\ DOMAIN s = 1..Len(s) /\ DOMAIN t = 1..(Len(s) + 1)
      /\ \A i \in 1..Len(s) : t[i] = s[i]
      /\ t[Len(s) + 1] = e
  <2>1. Len(s) \in Nat /\ DOMAIN s = 1..Len(s)
    BY LenProperties
  <2>2. CASE t = Append(s, e)
    BY <2>1, <2>2, AppendProperties, LenProperties
  <2>3. CASE t = s \o <<e>>
    <3>1. <<e>> \in Seq(Events) /\ Len(<<e>>) = 1 /\ <<e>>[1] = e
      OBVIOUS
    <3>2. /\ t \in Seq(Events) /\ Len(t) = Len(s) + 1
          /\ \A j \in 1..(Len(s) + 1) : t[j] = IF j <= Len(s) THEN s[j] ELSE <<e>>[j - Len(s)]
      BY <2>3, <3>1, ConcatAs
    <3>3. DOMAIN t = 1..(Len(s) + 1)
      BY <3>2, LenProperties
    <3>4. t[Len(s) + 1] = e
      BY <2>1, <3>1, <3>2
    <3> QED
      BY <2>1, <3>2, <3>3, <3>4
  <2> QED
    BY <2>2, <2>3
<1>2. \A w : Notified(s, w) => Notified(t, w)
  BY <1>1 DEF Notified
<1>3. Announced(t, D)
  <2> SUFFICES ASSUME NEW i \in DOMAIN t, t[i].type = "dock", t[i].window \in D
               PROVE  \E j \in DOMAIN t : i < j /\ t[j] = Event("unmap", t[i].window)
    BY DEF Announced
  <2>1. i \in DOMAIN s /\ t[i] = s[i]
    BY <1>1
  <2>2. PICK j \in DOMAIN s : i < j /\ s[j] = Event("unmap", s[i].window)
    BY <2>1 DEF Announced
  <2>3. j \in DOMAIN t /\ t[j] = s[j]
    BY <1>1
  <2> QED
    BY <2>1, <2>2, <2>3
<1>4. ASSUME NEW w, e = Event("unmap", w)
      PROVE  Notified(t, w) /\ Announced(t, D \cup {w})
  <2> DEFINE n == Len(s) + 1
  <2>1. n \in DOMAIN t /\ t[n] = Event("unmap", w) /\ \A i \in DOMAIN t : i # n => i < n
    BY <1>1, <1>4
  <2>2. t[n].type # "dock"
    BY <2>1, EventProperties
  <2> HIDE DEF n
  <2>3. Notified(t, w)
    BY <2>1 DEF Notified
  <2>4. ASSUME NEW i \in DOMAIN t, t[i].type = "dock", t[i].window \in D \cup {w}
        PROVE  \E j \in DOMAIN t : i < j /\ t[j] = Event("unmap", t[i].window)
    <3>1. CASE t[i].window \in D
      BY <1>3, <2>4, <3>1 DEF Announced
    <3>2. CASE t[i].window = w
      BY <2>1, <2>2, <2>4, <3>2
    <3> QED
      BY <2>4, <3>1, <3>2
  <2> QED
    BY <2>3, <2>4 DEF Announced
<1> QED
  BY <1>1, <1>2, <1>3, <1>4

(***************************************************************************)
(* The window manager takes the first event.                               *)
(***************************************************************************)
LEMMA Receiving ==
  ASSUME NEW s \in Seq(Events), s # <<>>, NEW t, t = Tail(s), NEW D, Announced(s, D)
  PROVE  /\ t \in Seq(Events)
         /\ \A w : Notified(s, w) /\ Head(s) # Event("unmap", w) => Notified(t, w)
         /\ Head(s) \in Events
         /\ Head(s).type = "dock" /\ Head(s).window \in D => Notified(t, Head(s).window)
         /\ Announced(t, D)
<1>1. /\ t \in Seq(Events) /\ Len(s) \in Nat \ {0} /\ DOMAIN s = 1..Len(s)
      /\ DOMAIN t = 1..(Len(s) - 1)
      /\ \A i \in 1..(Len(s) - 1) : t[i] = s[i + 1]
  <2>1. Len(s) \in Nat \ {0} /\ DOMAIN s = 1..Len(s)
    BY LenProperties, EmptySeq
  <2>2. t \in Seq(Events) /\ Len(t) = Len(s) - 1 /\ \A i \in 1..Len(t) : t[i] = s[i + 1]
    BY HeadTailProperties
  <2> QED
    BY <2>1, <2>2, LenProperties
<1>2. Head(s) = s[1] /\ Head(s) \in Events
  BY <1>1, HeadTailProperties
<1>3. ASSUME NEW j \in DOMAIN s, j > 1
      PROVE  j - 1 \in DOMAIN t /\ t[j - 1] = s[j]
  BY <1>1, <1>3
<1>4. ASSUME NEW w, Notified(s, w), Head(s) # Event("unmap", w)
      PROVE  Notified(t, w)
  <2>1. PICK j \in DOMAIN s : s[j] = Event("unmap", w)
    BY <1>4 DEF Notified
  <2>2. j # 1
    BY <1>2, <1>4, <2>1
  <2>3. j > 1
    BY <1>1, <2>2
  <2> QED
    BY <1>3, <2>1, <2>3 DEF Notified
<1>5. ASSUME Head(s).type = "dock", Head(s).window \in D
      PROVE  Notified(t, Head(s).window)
  <2>1. 1 \in DOMAIN s
    BY <1>1
  <2>2. PICK j \in DOMAIN s : 1 < j /\ s[j] = Event("unmap", Head(s).window)
    BY <1>2, <1>5, <2>1 DEF Announced
  <2>3. j > 1
    BY <1>1, <2>2
  <2> QED
    BY <1>3, <2>2, <2>3 DEF Notified
<1>6. ASSUME NEW i \in DOMAIN t, t[i].type = "dock", t[i].window \in D
      PROVE  \E j \in DOMAIN t : i < j /\ t[j] = Event("unmap", t[i].window)
  <2>1. i + 1 \in DOMAIN s /\ t[i] = s[i + 1]
    BY <1>1
  <2>2. PICK j \in DOMAIN s : i + 1 < j /\ s[j] = Event("unmap", t[i].window)
    BY <1>6, <2>1 DEF Announced
  <2>3. j > 1 /\ i < j - 1
    BY <1>1, <2>2
  <2> QED
    BY <1>3, <2>2, <2>3
<1> QED
  BY <1>1, <1>2, <1>4, <1>5, <1>6 DEF Announced
-----------------------------------------------------------------------------
(* The tray.                                                               *)

(***************************************************************************)
(* The inductive invariant of the tray.  To TrayAndIconsAgree it adds that *)
(* the windows in the tray are watched and their cells are all there is    *)
(* (no other window is drawn as an icon), and that a window destroyed with *)
(* an UnmapNotify has this behind its last request to dock, so that it     *)
(* cannot dock for good.                                                   *)
(***************************************************************************)
TrayInv ==
  /\ TrayTypeOK
  /\ HoldsIcons(bar, docked)
  /\ docked \cap alive \subseteq watched
  /\ \A w \in docked \cap alive : WasMapped(w) /\ w \notin mapped => Notified(events, w)
  /\ \A w \in docked \ alive : w \in unseen \/ Notified(events, w)
  /\ Announced(events, Icons \ (alive \cup unseen))

(***************************************************************************)
(* In the beginning nothing is docked.                                     *)
(***************************************************************************)
LEMMA TrayStarts ==
  ASSUME TrayInit, visible \in BOOLEAN, NEW s, bar = NewBar(s)
  PROVE  TrayInv
<1>1. TrayTypeOK
  BY DEF TrayInit, TrayTypeOK
<1>2. bar.cells = [side \in Sides |-> <<>>] /\ bar.icons = {}
  BY Zenon DEF NewBar
<1>3. HoldsIcons(bar, {})
  BY <1>2, EmptySeq DEF HoldsIcons, Sides, IconList, IsInjective, ToSet
<1> QED
  BY <1>1, <1>3, Zenon DEF TrayInit, TrayInv, Announced

(***************************************************************************)
(* A program asks for its window to be docked.                             *)
(***************************************************************************)
LEMMA TrayRequestDock ==
  ASSUME TrayInv, NEW w \in Icons, RequestDock(w)
  PROVE  TrayInv'
<1> DEFINE D == Icons \ (alive \cup unseen)
           e == Event("dock", w)
<1>1. /\ w \in alive /\ events' = Append(events, e)
      /\ UNCHANGED <<bar, visible, alive, mapped, watched, docked, unseen>>
  BY DEF RequestDock
<1>2. events \in Seq(Events) /\ Announced(events, D)
  BY DEF TrayInv, TrayTypeOK, Events
<1>3. e \in Events /\ e.type = "dock" /\ e.window \notin D
  BY <1>1, EventProperties
<1>4. D' = D
  BY <1>1
<1> HIDE DEF D, e
<1>5. /\ events' \in Seq(Events)
      /\ \A x : Notified(events, x) => Notified(events', x)
      /\ Announced(events', D)
  BY <1>1, <1>2, <1>3, Sending
<1>6. TrayTypeOK'
  BY <1>1, <1>5, Zenon DEF TrayInv, TrayTypeOK, Events
<1> QED
  BY <1>1, <1>4, <1>5, <1>6 DEF TrayInv, WasMapped, D

(***************************************************************************)
(* A program maps its window: then it needs no UnmapNotify.                *)
(***************************************************************************)
LEMMA TrayMapIcon ==
  ASSUME TrayInv, NEW w \in Icons, MapIcon(w)
  PROVE  TrayInv'
<1>1. /\ w \in alive /\ mapped' = mapped \cup {w}
      /\ UNCHANGED <<bar, visible, alive, watched, docked, events, unseen>>
  BY DEF MapIcon
<1>2. TrayTypeOK'
  BY <1>1, Zenon DEF TrayInv, TrayTypeOK
<1> QED
  BY <1>1, <1>2 DEF TrayInv, WasMapped

(***************************************************************************)
(* What the server sends when it unmaps a window.                          *)
(***************************************************************************)
LEMMA Unmapping ==
  ASSUME TrayInv, NEW w \in Icons, NEW t, t = events \o UnmapNotify(w)
  PROVE  LET D == Icons \ (alive \cup unseen)
         IN /\ t \in Seq(Events)
            /\ \A x : Notified(events, x) => Notified(t, x)
            /\ Announced(t, D)
            /\ UnmapNotify(w) # <<>> => Notified(t, w) /\ Announced(t, D \cup {w})
            /\ w \in mapped \cap watched => UnmapNotify(w) # <<>>
<1> DEFINE D == Icons \ (alive \cup unseen)
           e == Event("unmap", w)
<1>1. events \in Seq(Events) /\ Announced(events, D)
  BY DEF TrayInv, TrayTypeOK, Events
<1>2. e \in Events /\ e.type # "dock" /\ e = Event("unmap", w)
  BY EventProperties
<1> HIDE DEF D, e
<1>3. CASE w \in mapped \cap watched
  <2>1. UnmapNotify(w) = <<e>>
    BY <1>3 DEF UnmapNotify, e
  <2>2. <<e>> # <<>> /\ t = events \o <<e>>
    BY <2>1
  <2>3. /\ t \in Seq(Events)
        /\ \A x : Notified(events, x) => Notified(t, x)
        /\ Announced(t, D)
        /\ Notified(t, w) /\ Announced(t, D \cup {w})
    BY <1>1, <1>2, <2>2, Sending
  <2> QED
    BY <2>1, <2>2, <2>3 DEF D
<1>4. CASE w \notin mapped \cap watched
  <2>1. UnmapNotify(w) = <<>>
    BY <1>4 DEF UnmapNotify
  <2>2. t = events
    BY <1>1, <2>1, ConcatEmptySeq
  <2> QED
    BY <1>1, <1>4, <2>1, <2>2 DEF D
<1> QED
  BY <1>3, <1>4

(***************************************************************************)
(* A program withdraws its window: if it is docked the UnmapNotify is on   *)
(* its way.                                                                *)
(***************************************************************************)
LEMMA TrayUnmapIcon ==
  ASSUME TrayInv, NEW w \in Icons, UnmapIcon(w)
  PROVE  TrayInv'
<1> DEFINE D == Icons \ (alive \cup unseen)
<1>1. /\ w \in mapped /\ events' = events \o UnmapNotify(w)
      /\ mapped' = mapped \ {w}
      /\ UNCHANGED <<bar, visible, alive, watched, docked, unseen>>
  BY DEF UnmapIcon
<1>2. /\ events' \in Seq(Events)
      /\ \A x : Notified(events, x) => Notified(events', x)
      /\ Announced(events', D)
      /\ w \in watched => Notified(events', w)
  BY <1>1, Unmapping
<1>3. D' = D
  BY <1>1
<1> HIDE DEF D
<1>4. TrayTypeOK'
  BY <1>1, <1>2, Zenon DEF TrayInv, TrayTypeOK, Events
<1>5. ASSUME NEW x \in docked \cap alive, WasMapped(x), x \notin mapped \ {w}
      PROVE  Notified(events', x)
  BY <1>2, <1>5 DEF TrayInv
<1>6. \A x : WasMapped(x)' <=> WasMapped(x)
  BY <1>1 DEF WasMapped
<1> QED
  BY <1>1, <1>2, <1>3, <1>4, <1>5, <1>6 DEF TrayInv, D

(***************************************************************************)
(* A program destroys its window: if that was mapped and watched the       *)
(* UnmapNotify is on its way, behind every request to dock it.             *)
(***************************************************************************)
LEMMA TrayDestroyIcon ==
  ASSUME TrayInv, NEW w \in Icons, DestroyIcon(w)
  PROVE  TrayInv'
<1> DEFINE D == Icons \ (alive \cup unseen)
           N == UnmapNotify(w) # <<>>
<1>1. /\ w \in alive /\ events' = events \o UnmapNotify(w)
      /\ alive' = alive \ {w} /\ mapped' = mapped \ {w}
      /\ unseen' = IF N THEN unseen ELSE unseen \cup {w}
      /\ UNCHANGED <<bar, visible, watched, docked>>
  BY DEF DestroyIcon
<1>2. /\ events' \in Seq(Events)
      /\ \A x : Notified(events, x) => Notified(events', x)
      /\ Announced(events', D)
      /\ N => Notified(events', w) /\ Announced(events', D \cup {w})
  BY <1>1, Unmapping
<1>3. D' \subseteq IF N THEN D \cup {w} ELSE D
  BY <1>1
<1>4. Announced(events', D')
  BY <1>2, <1>3 DEF Announced
<1> HIDE DEF N
<1>5. TrayTypeOK'
  BY <1>1, <1>2 DEF TrayInv, TrayTypeOK, Events
<1>6. \A x : WasMapped(x)' <=> WasMapped(x)
  BY <1>1 DEF WasMapped
<1>7. \A x \in docked \cap alive' : WasMapped(x) /\ x \notin mapped' => Notified(events', x)
  BY <1>1, <1>2 DEF TrayInv
<1>8. \A x \in docked \ alive' : x \in unseen' \/ Notified(events', x)
  BY <1>1, <1>2 DEF TrayInv
<1>9. docked \cap alive' \subseteq watched
  BY <1>1 DEF TrayInv
<1> QED
  BY <1>1, <1>4, <1>5, <1>6, <1>7, <1>8, <1>9 DEF TrayInv
(***************************************************************************)
(* What is known when the first event is taken.                            *)
(***************************************************************************)
LEMMA TakingEvent ==
  ASSUME TrayInv, events # <<>>, NEW t, t = Tail(events)
  PROVE  LET D == Icons \ (alive \cup unseen)
             e == Head(events)
         IN /\ t \in Seq(Events) /\ Announced(t, D)
            /\ \A x : Notified(events, x) /\ e # Event("unmap", x) => Notified(t, x)
            /\ e \in Events /\ e.window \in Icons
            /\ e.type = "unmap" => e = Event("unmap", e.window)
            /\ e.type = "dock" => \A x : e # Event("unmap", x)
            /\ e.type = "dock" /\ e.window \in D => Notified(t, e.window)
<1> DEFINE D == Icons \ (alive \cup unseen)
           e == Head(events)
<1>1. events \in Seq(Events) /\ Announced(events, D)
  BY DEF TrayInv, TrayTypeOK, Events
<1> HIDE DEF D
<1>2. /\ t \in Seq(Events) /\ Announced(t, D)
      /\ \A x : Notified(events, x) /\ e # Event("unmap", x) => Notified(t, x)
      /\ e \in Events
      /\ e.type = "dock" /\ e.window \in D => Notified(t, e.window)
  BY <1>1, Receiving
<1> HIDE DEF e
<1>3. /\ e.window \in Icons
      /\ e.type = "unmap" => e = Event("unmap", e.window)
      /\ e.type = "dock" => \A x : e # Event("unmap", x)
  BY <1>2, EventProperties
<1> QED
  BY <1>2, <1>3 DEF D, e

(***************************************************************************)
(* A window docks.  If it is gone it was destroyed unseen, or its          *)
(* UnmapNotify is behind this request; if it is there it is watched from   *)
(* now on, and was not drawn yet.                                          *)
(***************************************************************************)
LEMMA TrayDock ==
  ASSUME TrayInv, IsBar(bar), HandleTrayOpcode, Dock(Head(events).window)
  PROVE  TrayInv'
<1> DEFINE D == Icons \ (alive \cup unseen)
           w == Head(events).window
           u == IF w \in mapped THEN <<Event("unmap", w)>> ELSE <<>>
           t == Tail(events)
<1>1. /\ events # <<>> /\ Head(events).type = "dock" /\ w \notin docked
      /\ watched' = IF w \in alive THEN watched \cup {w} ELSE watched
      /\ events' = t \o u
      /\ bar' = InsertBegin(bar, "right", IconCell(w), visible)
      /\ docked' = docked \cup {w}
      /\ UNCHANGED <<visible, alive, mapped, unseen>>
  BY Zenon DEF HandleTrayOpcode, Dock
<1>2. /\ t \in Seq(Events) /\ Announced(t, D)
      /\ \A x : Notified(events, x) => Notified(t, x)
      /\ w \in Icons
      /\ w \in D => Notified(t, w)
  BY <1>1, TakingEvent
<1>3. /\ events' \in Seq(Events) /\ Announced(events', D)
      /\ \A x : Notified(t, x) => Notified(events', x)
  <2> HIDE DEF t, D, w
  <2> DEFINE e == Event("unmap", w)
  <2>1. e \in Events /\ e.type # "dock" /\ (w \in mapped => u = <<e>>) /\ (w \notin mapped => u = <<>>)
    BY <1>2, EventProperties
  <2> HIDE DEF e, u
  <2>2. CASE w \in mapped
    <3>1. events' = t \o <<e>>
      BY <1>1, <2>1, <2>2
    <3> QED
      BY <1>2, <2>1, <3>1, Sending
  <2>3. CASE w \notin mapped
    BY <1>1, <1>2, <2>1, <2>3, ConcatEmptySeq
  <2> QED
    BY <2>2, <2>3
<1>4. HoldsIcons(bar', docked') /\ bar'.icons = bar.icons
  <2> DEFINE c == bar'
  <2>1. HoldsIcons(bar, docked) /\ w \in Icons \ docked
    BY <1>1, <1>2 DEF TrayInv
  <2>2. c = InsertBegin(bar, "right", IconCell(w), visible)
    BY <1>1
  <2> HIDE DEF w, c
  <2>3. HoldsIcons(c, docked \cup {w}) /\ c.icons = bar.icons
    BY <2>1, <2>2, DockingCell
  <2> QED
    BY <1>1, <2>3 DEF c, w
<1>5. ~ WasMapped(w)
  BY <1>1 DEF TrayInv, HoldsIcons, WasMapped
<1>6. \A x : WasMapped(x)' <=> WasMapped(x)
  BY <1>4 DEF WasMapped
<1>7. D' = D
  BY <1>1
<1>8. w \in alive \/ w \in unseen \/ Notified(t, w)
  BY <1>2
<1> HIDE DEF w, t, u, D
<1>9. TrayTypeOK'
  BY <1>1, <1>2, <1>3 DEF TrayInv, TrayTypeOK, Events
<1>10. docked' \cap alive' \subseteq watched'
  BY <1>1 DEF TrayInv
<1>11. \A x \in docked' \cap alive' : WasMapped(x)' /\ x \notin mapped' => Notified(events', x)
  BY <1>1, <1>2, <1>3, <1>5, <1>6 DEF TrayInv
<1>12. \A x \in docked' \ alive' : x \in unseen' \/ Notified(events', x)
  BY <1>1, <1>2, <1>3, <1>8 DEF TrayInv
<1> QED
  BY <1>3, <1>4, <1>7, <1>9, <1>10, <1>11, <1>12 DEF TrayInv, D

(***************************************************************************)
(* A request of a window that is docked changes nothing.                   *)
(***************************************************************************)
LEMMA TrayIgnoreDuplicate ==
  ASSUME TrayInv, HandleTrayOpcode, IgnoreDuplicate(Head(events).window)
  PROVE  TrayInv'
<1> DEFINE D == Icons \ (alive \cup unseen)
<1>1. /\ events # <<>> /\ Head(events).type = "dock" /\ events' = Tail(events)
      /\ UNCHANGED <<bar, visible, alive, mapped, watched, docked, unseen>>
  BY Zenon DEF HandleTrayOpcode, IgnoreDuplicate
<1>2. /\ events' \in Seq(Events) /\ Announced(events', D)
      /\ \A x : Notified(events, x) => Notified(events', x)
  BY <1>1, TakingEvent
<1>3. D' = D /\ (\A x : WasMapped(x)' <=> WasMapped(x))
  BY <1>1 DEF WasMapped
<1> HIDE DEF D
<1>4. TrayTypeOK'
  BY <1>1, <1>2, Zenon DEF TrayInv, TrayTypeOK, Events
<1> QED
  BY <1>1, <1>2, <1>3, <1>4 DEF TrayInv, D

(***************************************************************************)
(* An UnmapNotify takes its window out of the tray.                        *)
(***************************************************************************)
LEMMA TrayHandleUnmapNotify ==
  ASSUME TrayInv, IsBar(bar), HandleUnmapNotify
  PROVE  TrayInv'
<1> DEFINE D == Icons \ (alive \cup unseen)
           w == Head(events).window
<1>1. /\ events # <<>> /\ Head(events).type = "unmap" /\ events' = Tail(events)
      /\ docked' = docked \ {w}
      /\ bar' = IF w \in docked THEN RemoveCell(bar, "right", w, visible) ELSE bar
      /\ UNCHANGED <<visible, alive, mapped, watched, unseen>>
  BY Zenon DEF HandleUnmapNotify
<1>2. /\ events' \in Seq(Events) /\ Announced(events', D)
      /\ \A x : Notified(events, x) /\ Head(events) # Event("unmap", x) => Notified(events', x)
      /\ Head(events) = Event("unmap", w)
  BY <1>1, TakingEvent
<1>3. \A x : Notified(events, x) /\ x # w => Notified(events', x)
  <2> HIDE DEF w
  <2>1. \A x : Event("unmap", x) = Event("unmap", w) => x = w
    BY DEF Event
  <2> QED
    BY <1>2, <2>1
<1>4. HoldsIcons(bar', docked') /\ \A p \in bar'.icons : p \in bar.icons
  <2> HIDE DEF w
  <2>1. CASE w \in docked
    <3> DEFINE c == bar'
    <3>1. HoldsIcons(bar, docked) /\ c = RemoveCell(bar, "right", w, visible)
      BY <1>1, <2>1 DEF TrayInv
    <3> HIDE DEF c
    <3>2. HoldsIcons(c, docked \ {w}) /\ c.icons = {p \in bar.icons : p.window # w}
      BY SMTT(30), <2>1, <3>1, UndockingCell
    <3> QED
      BY <1>1, <3>2 DEF c
  <2>2. CASE w \notin docked
    <3>1. docked' = docked /\ bar' = bar
      BY <1>1, <2>2
    <3> QED
      BY <3>1 DEF TrayInv
  <2> QED
    BY <2>1, <2>2
<1>5. \A x : WasMapped(x)' => WasMapped(x)
  BY <1>4 DEF WasMapped
<1>6. D' = D
  BY <1>1
<1> HIDE DEF w, D
<1>7. TrayTypeOK'
  BY <1>1, <1>2 DEF TrayInv, TrayTypeOK, Events
<1>8. docked' \cap alive' \subseteq watched'
  BY <1>1 DEF TrayInv
<1>9. \A x \in docked' \cap alive' : WasMapped(x)' /\ x \notin mapped' => Notified(events', x)
  BY <1>1, <1>3, <1>5 DEF TrayInv
<1>10. \A x \in docked' \ alive' : x \in unseen' \/ Notified(events', x)
  BY <1>1, <1>3 DEF TrayInv
<1> QED
  BY <1>2, <1>4, <1>6, <1>7, <1>8, <1>9, <1>10 DEF TrayInv, D

(***************************************************************************)
(* What happens to the bar as a whole concerns neither cells nor icons.    *)
(***************************************************************************)
LEMMA TrayBarEvents ==
  ASSUME TrayInv, IsBar(bar), BarEvents
  PROVE  TrayInv'
<1>1. UNCHANGED tray /\ visible' \in BOOLEAN
  BY Zenon DEF BarEvents, ShowOrHide, Obscure, ScreenSizeChanged, TrayInv, TrayTypeOK
<1>2. bar'.cells = bar.cells /\ bar'.icons = bar.icons
  <2>1. CASE ShowOrHide
    BY <2>1, Zenon DEF ShowOrHide, ScheduleUpdateServer, IsBar, BarFields
  <2>2. CASE Obscure
    <3> DEFINE c == [bar EXCEPT !.shown = Lost]
    <3>1. IsBar(c) /\ SameCells(bar, c)
      BY AssignShown, Zenon
    <3>2. bar' = ScheduleBarDraw(c, visible)
      BY <2>2, Zenon DEF Obscure, ExposeBar
    <3> HIDE DEF c
    <3> QED
      BY <3>1, <3>2, ScheduledDraw, Zenon DEF SameCells
  <2>3. ASSUME NEW s \in Bounds, ScreenSizeChanged(s)
        PROVE  bar'.cells = bar.cells /\ bar'.icons = bar.icons
    BY <2>3, Zenon DEF ScreenSizeChanged, ResizeBar, IsBar, BarFields
  <2> QED
    BY <2>1, <2>2, <2>3, Zenon DEF BarEvents
<1>3. HoldsIcons(bar', docked')
  BY <1>1, <1>2, Zenon DEF TrayInv, HoldsIcons, tray
<1>4. \A x : WasMapped(x)' <=> WasMapped(x)
  BY <1>2 DEF WasMapped
<1>5. TrayTypeOK'
  BY <1>1, Zenon DEF TrayInv, TrayTypeOK, tray
<1> QED
  BY <1>1, <1>3, <1>4, <1>5 DEF TrayInv, tray

(***************************************************************************)
(* Drawing maps every docked window that no drawing mapped before.         *)
(***************************************************************************)
LEMMA TrayFlush ==
  ASSUME TrayInv, Faithful(bar, visible), Flush
  PROVE  TrayInv'
<1> DEFINE c == bar'
<1>1. /\ bar.update_server \/ bar.draw
      /\ c = FlushBar(bar, visible)
      /\ mapped' = mapped \cup {w \in docked \cap alive : ~ WasMapped(w)}
      /\ UNCHANGED <<visible, alive, watched, docked, events, unseen>>
  BY Zenon DEF Flush, WasMapped
<1>2. IsBar(bar) /\ bar.bounds = bar.screen /\ HoldsIcons(bar, docked)
  BY Zenon DEF Faithful, InPlace, TrayInv
<1> HIDE DEF c
<1>3. HoldsIcons(c, docked)
  BY <1>1, <1>2, FlushingTray
<1>4. HoldsIcons(bar', docked')
  BY <1>1, <1>3 DEF c
<1>5. TrayTypeOK'
  BY <1>1 DEF TrayInv, TrayTypeOK
<1>6. \A x \in docked' \cap alive' : x \notin mapped' => Notified(events', x)
  BY <1>1 DEF TrayInv
<1>7. docked' \cap alive' \subseteq watched' /\ Announced(events', Icons \ (alive' \cup unseen'))
  BY <1>1 DEF TrayInv
<1>8. \A x \in docked' \ alive' : x \in unseen' \/ Notified(events', x)
  BY <1>1 DEF TrayInv
<1> QED
  BY <1>4, <1>5, <1>6, <1>7, <1>8 DEF TrayInv

(***************************************************************************)
(* The tray and the icons agree, whatever the programs do with their       *)
(* windows while their requests and the server's notifications are on      *)
(* their way: one cell for each docked window, and none outlives its       *)
(* window unless that vanished before the bar had mapped it.               *)
(***************************************************************************)
THEOREM TrayStaysInAgreement == TraySpec => []TrayAndIconsAgree
<1>1. TrayInit /\ visible \in BOOLEAN /\ (\E b \in Bounds : bar = NewBar(b)) => TrayInv
  BY TrayStarts
<1>2. TrayInv /\ Faithful(bar, visible) /\ [TrayNext]_<<bar, visible, tray>> => TrayInv'
  <2> SUFFICES ASSUME TrayInv, Faithful(bar, visible), [TrayNext]_<<bar, visible, tray>>
               PROVE  TrayInv'
    BY Zenon
  <2>0. IsBar(bar)
    BY DEF Faithful
  <2>1. CASE Programs
    BY <2>1, TrayRequestDock, TrayMapIcon, TrayUnmapIcon, TrayDestroyIcon, Zenon DEF Programs
  <2>2. CASE HandleTrayOpcode
    BY <2>0, <2>2, TrayDock, TrayIgnoreDuplicate, Zenon DEF HandleTrayOpcode
  <2>3. CASE HandleUnmapNotify
    BY <2>0, <2>3, TrayHandleUnmapNotify, Zenon
  <2>4. CASE BarEvents
    BY <2>0, <2>4, TrayBarEvents, Zenon
  <2>5. CASE Flush
    BY <2>5, TrayFlush, Zenon
  <2>6. CASE UNCHANGED <<bar, visible, tray>>
    BY <2>6, Zenon DEF TrayInv, TrayTypeOK, WasMapped, tray
  <2> QED
    BY <2>1, <2>2, <2>3, <2>4, <2>5, <2>6 DEF TrayNext
<1>3. TrayInv => TrayAndIconsAgree
  <2> SUFFICES ASSUME TrayInv
               PROVE  TrayAndIconsAgree
    OBVIOUS
  <2>1. IconCells = docked /\ IsInjective(Ids(bar, "right"))
    BY OneCellForEachIcon, Zenon DEF TrayInv
  <2>2. \A w : UnmapPending(w) <=> Notified(events, w)
    BY Zenon DEF UnmapPending, Notified
  <2>3. docked \subseteq Icons
    BY Zenon DEF TrayInv, TrayTypeOK
  <2> QED
    BY <2>1, <2>2, <2>3 DEF TrayInv, TrayAndIconsAgree
<1> QED
  BY <1>1, <1>2, <1>3, FaithfulStays, PTL DEF TraySpec
=============================================================================
