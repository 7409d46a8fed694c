------------------------------- MODULE Layout -------------------------------
(***************************************************************************)
(* The tree of views, columns and frames of the window manager, and the    *)
(* operations of wm/view.cpp on it.                                        *)
(*                                                                         *)
(* The C++ objects point at each other (WM -> WView -> WColumn -> WFrame   *)
(* -> WClient and back), and an operation on one calls operations on the   *)
(* others in sequence.  A handler is therefore modelled as a composition   *)
(* of operators, each of which takes the object graph `w' and returns the  *)
(* graph the C++ member function leaves behind.  The graph is one record,  *)
(* with a field per data member; Graph lists them.                         *)
(*                                                                         *)
(* Identities.  A frame is named by its client and its view, the key under *)
(* which WClient::view_frames_ holds it.  A view is named by its name, and *)
(* names are numbers, in the order of the std::map WM::views_.  A column   *)
(* has no name of its own; it is a member of the pool Columns, whose size  *)
(* is the one bound of this module.                                        *)
(***************************************************************************)
EXTENDS Naturals, FiniteSets, SequencesExt

CONSTANTS
  Clients,          \* windows that may ask to be managed
  Views,            \* names a view can have
  Columns,          \* pool from which columns are allocated
  DesiredColumns,   \* get_desired_column_count()
  None              \* the null pointer

ASSUME NoneIsNoObject == None \notin Clients \cup Views \cup Columns \cup (Clients \X Views)
ASSUME DesiredColumnsAssumption == DesiredColumns \in Nat \ {0}

Frames == Clients \X Views

ClientOf(f) == f[1]
ViewOf(f) == f[2]

OrNone(S) == S \cup {None}

(***************************************************************************)
(* WClient::scheduled_tasks.  The fourth flag of the source, a pointer     *)
(* warp, moves nothing this module describes and is left out, with the     *)
(* `warp' parameters.                                                      *)
(***************************************************************************)
Tasks == {"draw", "update_server", "set_input_focus"}

Graph ==
  [ \* WM
    views            : SUBSET Views,
    selected_view    : OrNone(Views),
    activity         : Seq(Frames),
    \* WView
    columns          : [Views -> Seq(Columns)],
    selected_column  : [Views -> OrNone(Columns)],
    view_activity    : [Views -> Seq(Frames)],
    bar_visible      : SUBSET Views,
    \* WColumn
    view_of          : [Columns -> OrNone(Views)],    \* None: not allocated
    frames           : [Columns -> Seq(Frames)],
    selected_frame   : [Columns -> OrNone(Frames)],
    column_activity  : [Columns -> Seq(Frames)],
    \* WFrame
    column_of        : [Frames -> OrNone(Columns)],   \* None: no such frame
    shaded           : SUBSET Frames,
    decorated        : SUBSET Frames,
    marked           : SUBSET Frames,
    \* deferred operations and the activity timer
    todo_views       : SUBSET Views,
    todo_columns     : SUBSET Columns,
    todo_clients     : [Clients -> SUBSET Tasks],
    todo_root        : BOOLEAN,
    timer            : BOOLEAN ]

EmptyGraph ==
  [ views           |-> {},
    selected_view   |-> None,
    activity        |-> <<>>,
    columns         |-> [v \in Views |-> <<>>],
    selected_column |-> [v \in Views |-> None],
    view_activity   |-> [v \in Views |-> <<>>],
    bar_visible     |-> {},
    view_of         |-> [col \in Columns |-> None],
    frames          |-> [col \in Columns |-> <<>>],
    selected_frame  |-> [col \in Columns |-> None],
    column_activity |-> [col \in Columns |-> <<>>],
    column_of       |-> [f \in Frames |-> None],
    shaded          |-> {},
    decorated       |-> {},
    marked          |-> {},
    todo_views      |-> {},
    todo_columns    |-> {},
    todo_clients    |-> [c \in Clients |-> {}],
    todo_root       |-> FALSE,
    timer           |-> FALSE ]

-----------------------------------------------------------------------------
(* Intrusive lists.  No element is ever twice in a list.                   *)

Position(s, e) == CHOOSE i \in DOMAIN s : s[i] = e

Erase(s, e) == RemoveAt(s, Position(s, e))

\* Insertion just after `e', or at the end when there is no such element.
After(s, e) == IF e = None THEN Len(s) + 1 ELSE Position(s, e) + 1

ToFront(s, e) == <<e>> \o Erase(s, e)

-----------------------------------------------------------------------------
(* Accessors.                                                              *)

LiveFrames(w) == {f \in Frames : w.column_of[f] # None}

FramesOf(w, c) == {f \in LiveFrames(w) : ClientOf(f) = c}

SelectedColumn(w) ==
  IF w.selected_view = None THEN None ELSE w.selected_column[w.selected_view]

SelectedFrameOfColumn(w, col) ==
  IF col = None THEN None ELSE w.selected_frame[col]

SelectedFrameOfView(w, v) ==
  IF v = None THEN None ELSE SelectedFrameOfColumn(w, w.selected_column[v])

SelectedFrame(w) == SelectedFrameOfView(w, w.selected_view)

HasFrame(w, c, v) == v # None /\ w.column_of[<<c, v>>] # None

FreeColumns(w) == {col \in Columns : w.view_of[col] = None}

-----------------------------------------------------------------------------
(* What the operations maintain.  The lists that own the columns of a view *)
(* and the frames of a column agree with the back pointers, the activity   *)
(* lists hold the same frames in the same order, and a selection pointer   *)
(* points to one of the objects it selects from, if there is any.          *)

Enumerates(s, S) == IsInjective(s) /\ ToSet(s) = S

ColumnsOf(w, v) == {col \in Columns : w.view_of[col] = v}

FramesIn(w, col) == {f \in Frames : w.column_of[f] = col}

FramesOfView(w, v) == {f \in LiveFrames(w) : ViewOf(f) = v}

Tree(w) ==
  /\ \A v \in Views : Enumerates(w.columns[v], ColumnsOf(w, v))
  /\ \A v \in Views \ w.views : ColumnsOf(w, v) = {}
  /\ \A col \in Columns : Enumerates(w.frames[col], FramesIn(w, col))
  /\ \A f \in LiveFrames(w) : w.view_of[w.column_of[f]] = ViewOf(f)

\* The elements of `s' come in the order they have in `t'.
InOrderOf(s, t) ==
  \A d, e \in ToSet(s) : Position(s, d) < Position(s, e) => Position(t, d) < Position(t, e)

Histories(w) ==
  /\ Enumerates(w.activity, LiveFrames(w))
  /\ \A v \in Views : Enumerates(w.view_activity[v], FramesOfView(w, v))
  /\ \A col \in Columns : Enumerates(w.column_activity[col], FramesIn(w, col))
  /\ \A v \in Views : InOrderOf(w.view_activity[v], w.activity)
  /\ \A col \in Columns : InOrderOf(w.column_activity[col], w.activity)

Selects(p, S) == IF S = {} THEN p = None ELSE p \in S

Selection(w) ==
  /\ \A v \in Views : Selects(w.selected_column[v], ColumnsOf(w, v))
  /\ \A col \in Columns : Selects(w.selected_frame[col], FramesIn(w, col))
  /\ w.selected_view \in OrNone(w.views)

-----------------------------------------------------------------------------
(* Deferred operations (wm.cpp).                                           *)

ScheduleTask(w, c, task) == [w EXCEPT !.todo_clients[c] = @ \cup {task}]

\* Requests for the client of a frame that may be null.
ScheduleDraw(w, f) == IF f = None THEN w ELSE ScheduleTask(w, ClientOf(f), "draw")

ScheduleInputFocus(w, f) == ScheduleTask(w, ClientOf(f), "set_input_focus")

\* Mutant: only columns on the screen are laid out again.
ScheduleVisibleColumn(w, col) ==
  IF w.view_of[col] = w.selected_view THEN [w EXCEPT !.todo_columns = @ \cup {col}] ELSE w

ScheduleColumn(w, col) == [w EXCEPT !.todo_columns = @ \cup {col}]

ScheduleView(w, v) == [w EXCEPT !.todo_views = @ \cup {v}]

\* schedule_update_server() on every frame of a view.
ScheduleFramesOfView(w, v) ==
  [w EXCEPT !.todo_clients =
     [c \in Clients |-> IF HasFrame(w, c, v) THEN @[c] \cup {"update_server"} ELSE @[c]]]

-----------------------------------------------------------------------------
(* Selection.                                                              *)

\* WColumn::select_frame for a column that is not the selected one of the
\* selected view: the two frames are redrawn and nothing else happens.
SelectInBackground(w, col, f) ==
  IF f = w.selected_frame[col] THEN w
  ELSE [ScheduleDraw(ScheduleDraw(w, w.selected_frame[col]), f)
          EXCEPT !.selected_frame[col] = f]

\* Mutant: a column that loses the selection keeps what was selected in passing.
HandleSelectedFrameChangedWithoutFallback(w, old, new) ==
  IF new # None THEN [w EXCEPT !.timer = TRUE] ELSE [w EXCEPT !.todo_root = TRUE]

\* A column that loses the selection while its selected frame is not its most
\* recently active one goes back to the latter.  The nested select_frame never
\* meets the selected column: a frame that is still the selected one of its
\* column but no longer the selected one of the WM is in another column.
HandleSelectedFrameChanged(w, old, new) ==
  LET armed == IF new # None THEN [w EXCEPT !.timer = TRUE]
               ELSE [w EXCEPT !.todo_root = TRUE]
      col == w.column_of[old]
  IN IF /\ old # None
        /\ w.selected_frame[col] = old
        /\ Head(w.column_activity[col]) # old
     THEN SelectInBackground(armed, col, Head(w.column_activity[col]))
     ELSE armed

SelectFrameInColumn(w, col, f) ==
  IF f = w.selected_frame[col] THEN w
  ELSE LET old == w.selected_frame[col]
           moved == SelectInBackground(w, col, f)
       IN IF col # SelectedColumn(w) THEN moved
          ELSE LET told == HandleSelectedFrameChanged(moved, old, f)
               IN IF f = None THEN told ELSE ScheduleInputFocus(told, f)

SelectColumn(w, v, col) ==
  IF col = w.selected_column[v] THEN w
  ELSE LET old == SelectedFrameOfView(w, v)
           new == SelectedFrameOfColumn(w, col)
           moved == [ScheduleDraw(ScheduleDraw(w, old), new)
                       EXCEPT !.selected_column[v] = col]
       IN IF v # w.selected_view THEN moved
          ELSE LET told == HandleSelectedFrameChanged(moved, old, new)
               IN IF new = None THEN told ELSE ScheduleInputFocus(told, new)

\* WView::select_frame(frame) with a frame of that view.
SelectFrame(w, f) ==
  LET col == w.column_of[f]
  IN SelectColumn(SelectFrameInColumn(w, col, f), ViewOf(f), col)

-----------------------------------------------------------------------------
(* Construction and destruction.                                           *)

NewView(w, v) ==
  [w EXCEPT !.views = @ \cup {v}, !.bar_visible = @ \cup {v}]

GetOrCreateView(w, v) == IF v \in w.views THEN w ELSE NewView(w, v)

\* Mutant: an empty view stays behind.
KeepView(w, v) == w

DeleteView(w, v) ==
  [w EXCEPT !.views = @ \ {v}, !.bar_visible = @ \ {v}, !.todo_views = @ \ {v}]

\* Mutant: a new column is selected in its view wherever it is made.
CreateColumnSelected(w, v, i, col) ==
  LET inserted == [w EXCEPT !.columns[v] = InsertAt(@, i, col), !.view_of[col] = v]
  IN ScheduleView(SelectColumn(inserted, v, col), v)

\* The new column `col' is inserted before the i-th column of the view.
CreateColumn(w, v, i, col) ==
  LET inserted == [w EXCEPT !.columns[v] = InsertAt(@, i, col), !.view_of[col] = v]
  IN ScheduleView(IF w.selected_column[v] = None THEN SelectColumn(inserted, v, col)
                  ELSE inserted, v)

\* Mutant: only a left neighbour takes over the selection.
DeleteColumnLookingLeft(w, col) ==
  LET v == w.view_of[col]
      i == Position(w.columns[v], col)
      left == IF col # w.selected_column[v] THEN w
              ELSE SelectColumn(w, v, IF i > 1 THEN w.columns[v][i - 1] ELSE None)
      erased == [left EXCEPT !.columns[v] = RemoveAt(@, i),
                             !.view_of[col] = None,
                             !.todo_columns = @ \ {col},
                             !.todo_views = @ \cup {v}]
  IN IF erased.columns[v] = <<>> /\ v # erased.selected_view
     THEN DeleteView(erased, v) ELSE erased

\* ~WColumn of an empty column: its left neighbour is selected instead, or the
\* right one when it was the first, and a view left without columns goes too
\* unless it is the one on the screen.
DeleteColumn(w, col) ==
  LET v == w.view_of[col]
      i == Position(w.columns[v], col)
      neighbour == IF i > 1 THEN w.columns[v][i - 1]
                   ELSE IF Len(w.columns[v]) > 1 THEN w.columns[v][2] ELSE None
      left == IF col = w.selected_column[v] THEN SelectColumn(w, v, neighbour) ELSE w
      erased == [left EXCEPT !.columns[v] = RemoveAt(@, i),
                             !.view_of[col] = None,
                             !.todo_columns = @ \ {col},
                             !.todo_views = @ \cup {v}]
  IN IF erased.columns[v] = <<>> /\ v # erased.selected_view
     THEN DeleteView(erased, v) ELSE erased

\* The frame is inserted before the i-th frame of the column.
AddFrame(w, f, col, i) ==
  LET v == ViewOf(f)
      inserted == [w EXCEPT !.column_of[f] = col,
                            !.frames[col] = InsertAt(@, i, f),
                            !.column_activity[col] = <<f>> \o @,
                            !.view_activity[v] = <<f>> \o @,
                            !.activity = <<f>> \o @]
  IN ScheduleColumn(IF w.selected_frame[col] = None
                    THEN SelectFrameInColumn(inserted, col, f) ELSE inserted, col)

\* add_frame(frame): just after the selected frame.
AddFrameAfterSelected(w, f, col) ==
  AddFrame(w, f, col, After(w.frames[col], w.selected_frame[col]))

\* A frame made for a client starts decorated, unshaded and unmarked.
NewFrame(w, f) == [w EXCEPT !.decorated = @ \cup {f}, !.shaded = @ \ {f}, !.marked = @ \ {f}]

\* WFrame::remove.  The most recently active other frame of the column takes
\* over the selection; a column without frames is deleted.
RemoveFrame(w, f) ==
  LET col == w.column_of[f]
      recent == w.column_activity[col]
      successor == IF Len(recent) = 1 THEN None
                   ELSE IF recent[1] = f THEN recent[2] ELSE recent[1]
      left == IF w.selected_frame[col] = f THEN SelectFrameInColumn(w, col, successor) ELSE w
      erased == [ScheduleColumn(ScheduleTask(left, ClientOf(f), "update_server"), col)
                   EXCEPT !.column_of[f] = None,
                          !.frames[col] = Erase(@, f),
                          !.column_activity[col] = Erase(@, f),
                          !.view_activity[ViewOf(f)] = Erase(@, f),
                          !.activity = Erase(@, f)]
  IN IF erased.frames[col] = <<>> THEN DeleteColumn(erased, col) ELSE erased

\* Mutant: the object goes while its column still lists it.
DeleteFrameLinked(w, f) ==
  [w EXCEPT !.column_of[f] = None, !.shaded = @ \ {f}, !.decorated = @ \ {f},
            !.marked = @ \ {f}]

\* ~WFrame: the object goes with its attributes.
DeleteFrame(w, f) ==
  LET removed == RemoveFrame(w, f)
  IN [removed EXCEPT !.shaded = @ \ {f}, !.decorated = @ \ {f}, !.marked = @ \ {f}]

\* A removed WFrame object that is about to enter view v keeps its attributes.
Rename(S, f, g) == IF f \in S THEN (S \ {f}) \cup {g} ELSE S \ {g}

CarryFrame(w, f, g) ==
  [w EXCEPT !.shaded = Rename(@, f, g), !.decorated = Rename(@, f, g),
            !.marked = Rename(@, f, g)]

-----------------------------------------------------------------------------
(* Whole-WM operations.                                                    *)

\* Mutant: the keyboard stays where it was.
SelectViewWithoutFocus(w, v) ==
  IF v = w.selected_view THEN w
  ELSE LET old == w.selected_view
           hidden == IF old = None THEN w ELSE ScheduleFramesOfView(w, old)
           told == HandleSelectedFrameChanged([hidden EXCEPT !.selected_view = v],
                                              SelectedFrameOfView(w, old),
                                              SelectedFrameOfView(w, v))
           swept == IF old # None /\ told.columns[old] = <<>> THEN DeleteView(told, old)
                    ELSE told
       IN ScheduleFramesOfView(swept, v)

SelectView(w, v) ==
  IF v = w.selected_view THEN w
  ELSE LET old == w.selected_view
           hidden == IF old = None THEN w ELSE ScheduleFramesOfView(w, old)
           told == HandleSelectedFrameChanged([hidden EXCEPT !.selected_view = v],
                                              SelectedFrameOfView(w, old),
                                              SelectedFrameOfView(w, v))
           swept == IF old # None /\ told.columns[old] = <<>> THEN DeleteView(told, old)
                    ELSE told
           shown == ScheduleFramesOfView(swept, v)
           new == SelectedFrameOfView(w, v)
       IN IF new = None THEN shown ELSE ScheduleInputFocus(shown, new)

\* Mutant: a frame that is in front in its column is taken to be so everywhere.
HandleFrameActivityInColumn(w) ==
  LET f == SelectedFrame(w)
      col == w.column_of[f]
  IN IF f = None THEN w
     ELSE IF Head(w.column_activity[col]) = f THEN w
     ELSE [w EXCEPT !.column_activity[col] = ToFront(@, f),
                    !.view_activity[ViewOf(f)] = ToFront(@, f),
                    !.activity = ToFront(@, f),
                    !.todo_columns = @ \cup {col}]

\* Mutant: the list of the WM is left out.
HandleFrameActivityInView(w) ==
  LET f == SelectedFrame(w)
      col == w.column_of[f]
  IN IF f = None THEN w
     ELSE [w EXCEPT !.column_activity[col] = ToFront(@, f),
                    !.view_activity[ViewOf(f)] = ToFront(@, f),
                    !.todo_columns = @ \cup {col}]

\* Mutant: the column is not laid out again.
HandleFrameActivityUnscheduled(w) ==
  LET f == SelectedFrame(w)
      col == w.column_of[f]
  IN IF f = None THEN w
     ELSE [w EXCEPT !.column_activity[col] = ToFront(@, f),
                    !.view_activity[ViewOf(f)] = ToFront(@, f),
                    !.activity = ToFront(@, f)]

\* The selected frame becomes the most recently active one of its column, of
\* its view and of the WM.
HandleFrameActivity(w) ==
  LET f == SelectedFrame(w)
      col == w.column_of[f]
  IN IF f = None THEN w
     ELSE [w EXCEPT !.column_activity[col] = ToFront(@, f),
                    !.view_activity[ViewOf(f)] = ToFront(@, f),
                    !.activity = ToFront(@, f),
                    !.todo_columns = IF Head(w.column_activity[col]) = f THEN @
                                     ELSE @ \cup {col}]

\* WM::place_client: into a new column right of the selected one while there
\* are fewer than two, else into the selected column.
PlaceClient(w, c, misc, col) ==
  LET shown == IF w.selected_view = None THEN SelectView(NewView(w, misc), misc) ELSE w
      v == shown.selected_view
      f == <<c, v>>
      widen == Len(shown.columns[v]) < 2
      target == IF widen THEN col ELSE shown.selected_column[v]
      made == IF widen
              THEN CreateColumn(shown, v, After(shown.columns[v], shown.selected_column[v]), col)
              ELSE shown
  IN SelectFrame(AddFrameAfterSelected(NewFrame(made, f), f, target), f)

\* place_frame_in_smallest_column: the frame goes to the end of a new last
\* column while the view has fewer than it wants, else of its first smallest.
SmallestColumn(w, v) ==
  LET size(i) == Len(w.frames[w.columns[v][i]])
  IN w.columns[v][CHOOSE i \in DOMAIN w.columns[v] :
       \A j \in DOMAIN w.columns[v] :
         size(i) < size(j) \/ (size(i) = size(j) /\ i <= j)]

PlaceInSmallestColumn(w, f, col) ==
  LET v == ViewOf(f)
      widen == Len(w.columns[v]) < DesiredColumns
      target == IF widen THEN col ELSE SmallestColumn(w, v)
      made == IF widen THEN CreateColumn(w, v, Len(w.columns[v]) + 1, col) ELSE w
  IN AddFrame(made, f, target, Len(made.frames[target]) + 1)
=============================================================================
