-------------------------------- MODULE Bar --------------------------------
(***************************************************************************)
(* The bar (wm/bar.cpp): two lists of cells, and the window that shows     *)
(* them.  As in module Layout an operation is an operator, from the bar `b'*)
(* it finds to the bar it leaves; what WM::bar_visible() says meanwhile is *)
(* its argument `visible'.                                                 *)
(*                                                                         *)
(* A cell is named by its `id'.  An icon cell shows a docked window, whose *)
(* name its id is.  A placeholder is a cell without text.  Where a cell is *)
(* drawn follows from the cells drawn before it from its side of the bar,  *)
(* and so the place of an icon is the list of those cells.                 *)
(***************************************************************************)
EXTENDS Naturals, SequencesExt

CONSTANTS
  NoText,       \* the empty text
  Lost          \* contents of a window that is not mapped or was obscured

Sides == {"left", "right"}

Placeholder(id) == [id |-> id, text |-> NoText, style |-> NoText, icon |-> FALSE]

TextCell(id, text, style) == [id |-> id, text |-> text, style |-> style, icon |-> FALSE]

IconCell(w) == [id |-> w, text |-> NoText, style |-> NoText, icon |-> TRUE]

\* Before the first flush: both tasks are scheduled by the constructor.
NewBar(bounds) ==
  [ cells          |-> [side \in Sides |-> <<>>],
    screen         |-> bounds,      \* where the screen has room for it
    bounds         |-> bounds,      \* where the window manager wants it
    current_bounds |-> bounds,      \* where its window is
    map_state      |-> FALSE,       \* whether its window is mapped
    update_server  |-> TRUE,        \* scheduled_update_server
    draw           |-> TRUE,        \* scheduled_draw
    shown          |-> Lost,        \* what its window shows
    icons          |-> {} ]         \* icon cells that were drawn: mapped, and in which place

-----------------------------------------------------------------------------
(* Cells.  A change is drawn by the next flush if the bar is visible.      *)

Ids(b, side) == [i \in DOMAIN b.cells[side] |-> b.cells[side][i].id]

HasCell(b, side, id) == id \in ToSet(Ids(b, side))

Place(b, side, id) == CHOOSE i \in DOMAIN b.cells[side] : b.cells[side][i].id = id

ScheduleBarDraw(b, visible) == [b EXCEPT !.draw = @ \/ visible]

InsertCellAt(b, side, i, cell, visible) ==
  ScheduleBarDraw([b EXCEPT !.cells[side] = InsertAt(@, i, cell)], visible)

InsertBefore(b, side, id, cell, visible) ==
  InsertCellAt(b, side, Place(b, side, id), cell, visible)

InsertAfter(b, side, id, cell, visible) ==
  InsertCellAt(b, side, Place(b, side, id) + 1, cell, visible)

InsertBegin(b, side, cell, visible) == InsertCellAt(b, side, 1, cell, visible)

InsertEnd(b, side, cell, visible) == InsertCellAt(b, side, Len(b.cells[side]) + 1, cell, visible)

\* Mutant: the destructor of a cell leaves the drawing to others.
RemoveCellQuietly(b, side, id, visible) ==
  [b EXCEPT !.cells[side] = RemoveAt(@, Place(b, side, id)),
            !.icons = {p \in @ : p.window # id}]

RemoveCell(b, side, id, visible) ==
  ScheduleBarDraw([b EXCEPT !.cells[side] = RemoveAt(@, Place(b, side, id)),
                         !.icons = {p \in @ : p.window # id}], visible)

SetCell(b, side, id, text, style, visible) ==
  ScheduleBarDraw([b EXCEPT !.cells[side][Place(b, side, id)] = TextCell(id, text, style)], visible)

-----------------------------------------------------------------------------
(* The window.                                                             *)

ScheduleUpdateServer(b) == [b EXCEPT !.update_server = TRUE]

\* Mutant: new bounds are only computed while the bar is visible.
ResizeVisibleBar(b, screen, visible) ==
  [b EXCEPT !.screen = screen,
            !.bounds = IF visible THEN screen ELSE @,
            !.update_server = @ \/ visible]

ResizeBar(b, screen, visible) ==
  [b EXCEPT !.screen = screen, !.bounds = screen, !.update_server = @ \/ visible]

ExposeBar(b, visible) == ScheduleBarDraw([b EXCEPT !.shown = Lost], visible)

Drawn(cells) == SelectSeq(cells, LAMBDA c : c.icon \/ c.text # NoText)

IconIndices(cells) == {i \in DOMAIN cells : cells[i].icon}

\* The left cells are drawn from the left end, the right ones from the right end.
IconPlaces(b) ==
  LET left == b.cells["left"]
      right == b.cells["right"]
      place(c, beside) == [window |-> c.id, beside |-> Drawn(beside), bounds |-> b.bounds]
  IN {place(left[i], SubSeq(left, 1, i - 1)) : i \in IconIndices(left)}
     \cup {place(right[i], SubSeq(right, i + 1, Len(right))) : i \in IconIndices(right)}

Picture(b) ==
  [left |-> Drawn(b.cells["left"]), right |-> Drawn(b.cells["right"]), bounds |-> b.bounds]

Draw(b) ==
  [b EXCEPT !.shown = IF b.map_state THEN Picture(b) ELSE Lost,
            !.icons = IconPlaces(b)]

UpdateServer(b, visible) ==
  [b EXCEPT !.map_state = visible,
            !.current_bounds = IF visible THEN b.bounds ELSE @,
            !.shown = IF visible THEN @ ELSE Lost]

FlushBar(b, visible) ==
  LET updated == IF b.update_server THEN UpdateServer(b, visible) ELSE b
      drawn == IF b.update_server \/ b.draw THEN Draw(updated) ELSE updated
  IN [drawn EXCEPT !.update_server = FALSE, !.draw = FALSE]

-----------------------------------------------------------------------------
(***************************************************************************)
(* When nothing is scheduled the window is mapped if the bar should be     *)
(* visible, and then it is where the screen has room for it and shows the  *)
(* present cells, the docked windows in their places: every change that    *)
(* the bar's callers make asks for the work it needs.                      *)
(***************************************************************************)
BarIsUpToDate(b, visible) ==
  ~ b.update_server =>
    /\ b.map_state = visible
    /\ visible /\ ~ b.draw =>
         /\ b.current_bounds = b.screen
         /\ b.shown = Picture(b)
         /\ b.icons = IconPlaces(b)
=============================================================================
