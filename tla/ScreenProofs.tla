---------------------------- MODULE ScreenProofs ----------------------------
(***************************************************************************)
(* Every handler of module WindowManager schedules enough: when the main   *)
(* loop waits the screen shows the tree, the keyboard is where the         *)
(* selection says, and the most recently active frame of a column is open. *)
(*                                                                         *)
(* The inductive invariant says it of every moment: what the screen does   *)
(* not show as the graph has it is scheduled.  Handlers are compositions   *)
(* of operations that are not faithful to it one by one; what an operation *)
(* leaves to its caller is named by three sets of exceptions, the views    *)
(* `V' whose columns and the columns `X' whose frames are to be laid out,  *)
(* and the clients `Y' whose windows are to be updated.                    *)
(***************************************************************************)
EXTENDS WindowManagerProofs

LaidOut(w, col) == col \in w.todo_columns \/ w.view_of[col] \in w.todo_views

\* The client's windows are updated by the next flush.
Updating(w, c) ==
  \/ "update_server" \in w.todo_clients[c]
  \/ \E f \in FramesOf(w, c) : LaidOut(w, w.column_of[f])

ColumnsPlaced(w, s, V) ==
  \A col \in Columns :
    w.view_of[col] \notin {None} \cup V \cup w.todo_views =>
      s.across[col] = ColumnBounds(w, col)

FramesPlaced(w, s, X) ==
  \A f \in LiveFrames(w) :
    w.column_of[f] \notin X /\ ~ LaidOut(w, w.column_of[f]) =>
      s.bounds[f] = FrameBounds(w, f, s.across[w.column_of[f]])

ClientPlaced(w, s, c) ==
  LET f == VisibleFrame(w, c)
  IN /\ c \in s.frame_mapped <=> f # None
     /\ c \in s.client_mapped <=> (f # None /\ f \notin w.shaded)
     /\ f # None => s.placed[c] = s.bounds[f]

ClientDrawn(w, s, c) ==
  LET f == VisibleFrame(w, c)
  IN f # None => s.drawn[c] = Contents(w, f, s.bounds[f])

ClientsPlaced(w, s, Y) ==
  \A c \in Clients \ Y :
    ~ Updating(w, c) =>
      /\ ClientPlaced(w, s, c)
      /\ "draw" \in w.todo_clients[c] \/ ClientDrawn(w, s, c)

RecentOpen(w, X) ==
  \A col \in Columns \ X :
    w.frames[col] # <<>> /\ ~ LaidOut(w, col) => Head(w.column_activity[col]) \notin w.shaded

\* What is on the screen is what the graph has, but for what is scheduled and for
\* the exceptions.
OnScreenBut(w, s, V, X, Y) ==
  /\ ColumnsPlaced(w, s, V)
  /\ FramesPlaced(w, s, X)
  /\ ClientsPlaced(w, s, Y)
  /\ RecentOpen(w, X)

OnScreen(w, s) == OnScreenBut(w, s, {}, {}, {})

\* Where the keyboard should be is scheduled, or it is there.
Refocused(w) ==
  IF SelectedFrame(w) = None THEN w.todo_root
  ELSE "set_input_focus" \in w.todo_clients[ClientOf(SelectedFrame(w))]

Focused(w, s) ==
  \/ Refocused(w)
  \/ s.focus = IF SelectedFrame(w) = None THEN <<"root">> ELSE FocusWindow(w, SelectedFrame(w))

-----------------------------------------------------------------------------
(* Requests.                                                               *)

MoreTasks(w, u) ==
  /\ w.todo_views \subseteq u.todo_views
  /\ w.todo_columns \subseteq u.todo_columns
  /\ \A c \in Clients : w.todo_clients[c] \subseteq u.todo_clients[c]
  /\ w.todo_root => u.todo_root

\* Nothing but scheduling is done.
Asks(w, u) == Schedules(w, u) /\ SameLook(w, u) /\ MoreTasks(w, u)

\* Frames change their style, those that do being drawn again.
Restyles(w, u) ==
  /\ u \in Graph
  /\ SameLinks(w, u) /\ SameViews(w, u) /\ SameLook(w, u) /\ MoreTasks(w, u)
  /\ \A f \in LiveFrames(w) :
       StyleClass(u, f) # StyleClass(w, f) => "draw" \in u.todo_clients[ClientOf(f)]

\* The selection may change too, but then the keyboard goes with it.
Reselects(w, u) ==
  /\ Restyles(w, u)
  /\ SelectedFrame(u) # SelectedFrame(w) => Refocused(u)

\* One request after the other.
LEMMA AsksTwice ==
  ASSUME NEW w, NEW u, NEW x, Asks(w, u), Asks(u, x)
  PROVE  Asks(w, x)
<1>1. Schedules(w, x)
  BY SchedulesTwice DEF Asks
<1>2. SameLook(w, x)
  BY DEF Asks, SameLook
<1>3. MoreTasks(w, x)
  BY DEF Asks, MoreTasks
<1>4. QED BY <1>1, <1>2, <1>3 DEF Asks

\* No request at all.
LEMMA AsksNothing == \A w \in Graph : Asks(w, w)
BY SchedulesNothing DEF Asks, SameLook, MoreTasks

\* WClient::schedule_task.
LEMMA TaskAsked ==
  ASSUME NEW w \in Graph, NEW c \in Clients, NEW task \in Tasks, NEW u, u = ScheduleTask(w, c, task)
  PROVE  Asks(w, u) /\ task \in u.todo_clients[c]
<1> DEFINE y == [w.todo_clients EXCEPT ![c] = @ \cup {task}]
<1>1. u = [w EXCEPT !.todo_clients = y]
  BY DEF ScheduleTask
<1>2. w.todo_clients \in [Clients -> SUBSET Tasks]
  BY DEF Graph
<1>3. task \in y[c] /\ \A d \in Clients : w.todo_clients[d] \subseteq y[d]
  BY <1>2
<1> HIDE DEF y
<1>4. /\ u.todo_clients = y /\ u.todo_views = w.todo_views
      /\ u.todo_columns = w.todo_columns /\ u.todo_root = w.todo_root
      /\ SameLook(w, u)
  BY <1>1 DEF Graph, SameLook
<1>5. MoreTasks(w, u)
  BY <1>3, <1>4 DEF MoreTasks
<1>6. QED BY <1>3, <1>4, <1>5, ScheduleTaskEffect DEF Asks

\* WFrame::schedule_draw.
LEMMA DrawAsked ==
  ASSUME NEW w \in Graph, NEW f \in OrNone(Frames), NEW u, u = ScheduleDraw(w, f)
  PROVE  Asks(w, u) /\ (f # None => "draw" \in u.todo_clients[ClientOf(f)])
<1>1. CASE f = None
  BY <1>1, AsksNothing DEF ScheduleDraw
<1>2. CASE f # None
  <2>1. ClientOf(f) \in Clients
    BY <1>2, FrameParts DEF OrNone
  <2>2. u = ScheduleTask(w, ClientOf(f), "draw") /\ "draw" \in Tasks
    BY <1>2 DEF ScheduleDraw, Tasks
  <2>3. QED BY <2>1, <2>2, TaskAsked
<1>3. QED BY <1>1, <1>2

\* WClient::schedule_set_input_focus.
LEMMA FocusAsked ==
  ASSUME NEW w \in Graph, NEW f \in Frames, NEW u, u = ScheduleInputFocus(w, f)
  PROVE  Asks(w, u) /\ "set_input_focus" \in u.todo_clients[ClientOf(f)]
<1>1. ClientOf(f) \in Clients
  BY FrameParts
<1>2. u = ScheduleTask(w, ClientOf(f), "set_input_focus") /\ "set_input_focus" \in Tasks
  BY DEF ScheduleInputFocus, Tasks
<1>3. QED BY <1>1, <1>2, TaskAsked

\* WColumn::schedule_update_positions.
LEMMA ColumnAsked ==
  ASSUME NEW w \in Graph, NEW col \in Columns, NEW u, u = ScheduleColumn(w, col)
  PROVE  Asks(w, u) /\ col \in u.todo_columns
<1>1. /\ u.todo_clients = w.todo_clients /\ u.todo_views = w.todo_views
      /\ u.todo_columns = w.todo_columns \cup {col} /\ u.todo_root = w.todo_root
      /\ SameLook(w, u)
  BY DEF Graph, SameLook, ScheduleColumn
<1>2. MoreTasks(w, u)
  BY <1>1 DEF MoreTasks
<1>3. QED BY <1>1, <1>2, ScheduleColumnEffect DEF Asks

\* WView::schedule_update_positions.
LEMMA ViewAsked ==
  ASSUME NEW w \in Graph, NEW v \in Views, NEW u, u = ScheduleView(w, v)
  PROVE  Asks(w, u) /\ v \in u.todo_views
<1>1. /\ u.todo_clients = w.todo_clients /\ u.todo_columns = w.todo_columns
      /\ u.todo_views = w.todo_views \cup {v} /\ u.todo_root = w.todo_root
      /\ SameLook(w, u)
  BY DEF Graph, SameLook, ScheduleView
<1>2. MoreTasks(w, u)
  BY <1>1 DEF MoreTasks
<1>3. QED BY <1>1, <1>2, ScheduleViewEffect DEF Asks

\* schedule_update_server on the clients of a view.
LEMMA FramesOfViewAsked ==
  ASSUME NEW w \in Graph, NEW v \in Views, NEW u, u = ScheduleFramesOfView(w, v)
  PROVE  /\ Asks(w, u)
         /\ \A c \in Clients : HasFrame(w, c, v) => "update_server" \in u.todo_clients[c]
<1> DEFINE y == [c \in Clients |-> IF HasFrame(w, c, v) THEN w.todo_clients[c] \cup {"update_server"}
                                   ELSE w.todo_clients[c]]
<1>1. u = [w EXCEPT !.todo_clients = y]
  BY DEF ScheduleFramesOfView
<1>2. /\ \A c \in Clients : w.todo_clients[c] \subseteq y[c]
      /\ \A c \in Clients : HasFrame(w, c, v) => "update_server" \in y[c]
  OBVIOUS
<1> HIDE DEF y
<1>3. /\ u.todo_clients = y /\ u.todo_views = w.todo_views
      /\ u.todo_columns = w.todo_columns /\ u.todo_root = w.todo_root
      /\ SameLook(w, u)
  BY <1>1 DEF Graph, SameLook
<1>4. MoreTasks(w, u)
  BY <1>2, <1>3 DEF MoreTasks
<1>5. QED BY <1>2, <1>3, <1>4, ScheduleFramesOfViewEffect DEF Asks

\* The style of a frame is that of its place in the selection.
LEMMA AsksRestyles ==
  ASSUME NEW w, NEW u, Asks(w, u)
  PROVE  Reselects(w, u)
<1>1. \A f : StyleClass(u, f) = StyleClass(w, f)
  BY DEF StyleClass, Asks, Schedules, SameLinks
<1>2. SelectedFrame(u) = SelectedFrame(w)
  BY DEF Asks, Schedules, SameViews, SelectedFrame, SelectedFrameOfView, SelectedFrameOfColumn
<1>3. QED BY <1>1, <1>2 DEF Asks, Schedules, Restyles, Reselects

\* One change of style after the other.
LEMMA RestylesTwice ==
  ASSUME NEW w \in Graph, NEW u, NEW x, Restyles(w, u), Restyles(u, x)
  PROVE  Restyles(w, x)
<1>1. SameLinks(w, x) /\ SameViews(w, x) /\ x \in Graph
  BY DEF Restyles, SameLinks, SameViews
<1>2. SameLook(w, x)
  BY DEF Restyles, SameLook
<1>3. MoreTasks(w, x)
  BY DEF Restyles, MoreTasks
<1>4. ASSUME NEW f \in LiveFrames(w), StyleClass(x, f) # StyleClass(w, f)
      PROVE  "draw" \in x.todo_clients[ClientOf(f)]
  <2>1. f \in LiveFrames(u) /\ f \in Frames
    BY DEF Restyles, SameLinks, LiveFrames
  <2>2. ClientOf(f) \in Clients
    BY <2>1, FrameParts
  <2>3. CASE StyleClass(x, f) # StyleClass(u, f)
    BY <2>1, <2>3 DEF Restyles
  <2>4. CASE StyleClass(u, f) # StyleClass(w, f)
    BY <2>2, <2>4 DEF Restyles, MoreTasks
  <2>5. QED BY <1>4, <2>3, <2>4
<1>5. QED BY <1>1, <1>2, <1>3, <1>4 DEF Restyles

\* The selected frame is a frame, if there is one.
LEMMA SelectedFrameTyped ==
  ASSUME NEW w \in Graph
  PROVE  /\ \A v \in OrNone(Views) : SelectedFrameOfView(w, v) \in OrNone(Frames)
         /\ \A col \in OrNone(Columns) : SelectedFrameOfColumn(w, col) \in OrNone(Frames)
         /\ SelectedFrame(w) \in OrNone(Frames)
<1>1. /\ w.selected_view \in OrNone(Views)
      /\ w.selected_column \in [Views -> OrNone(Columns)]
      /\ w.selected_frame \in [Columns -> OrNone(Frames)]
  BY DEF Graph
<1>2. \A col \in OrNone(Columns) : SelectedFrameOfColumn(w, col) \in OrNone(Frames)
  BY <1>1 DEF SelectedFrameOfColumn, OrNone
<1>3. \A v \in OrNone(Views) : SelectedFrameOfView(w, v) \in OrNone(Frames)
  BY <1>1, <1>2 DEF SelectedFrameOfView, OrNone
<1>4. QED BY <1>1, <1>2, <1>3 DEF SelectedFrame

\* One selection after the other.
LEMMA ReselectsTwice ==
  ASSUME NEW w \in Graph, NEW u, NEW x, Reselects(w, u), Reselects(u, x)
  PROVE  Reselects(w, x)
<1>1. Restyles(w, x)
  BY RestylesTwice DEF Reselects
<1>2. ASSUME SelectedFrame(x) # SelectedFrame(w)
      PROVE  Refocused(x)
  <2>1. CASE SelectedFrame(x) # SelectedFrame(u)
    BY <2>1 DEF Reselects
  <2>2. CASE SelectedFrame(x) = SelectedFrame(u)
    <3>1. Refocused(u)
      BY <1>2, <2>2 DEF Reselects
    <3>2. MoreTasks(u, x)
      BY DEF Reselects, Restyles
    <3>3. SelectedFrame(u) # None => ClientOf(SelectedFrame(u)) \in Clients
      BY SelectedFrameTyped, FrameParts DEF Reselects, Restyles, OrNone
    <3>4. QED BY <2>2, <3>1, <3>2, <3>3 DEF Refocused, MoreTasks
  <2>3. QED BY <2>1, <2>2
<1>3. QED BY <1>1, <1>2 DEF Reselects
-----------------------------------------------------------------------------
(* Selection.                                                              *)

\* The two frames whose styles select_frame changes are drawn.
LEMMA SelectInBackgroundRestyles ==
  ASSUME NEW w \in Graph, NEW col \in Columns, NEW f \in OrNone(Frames),
         NEW u, u = SelectInBackground(w, col, f)
  PROVE  Restyles(w, u)
<1> DEFINE old == w.selected_frame[col]
           y == ScheduleDraw(w, old)
           x == ScheduleDraw(y, f)
<1>1. w.selected_frame \in [Columns -> OrNone(Frames)] /\ old \in OrNone(Frames)
  BY DEF Graph
<1>2. CASE f = old
  BY <1>2, AsksNothing, AsksRestyles DEF SelectInBackground, Reselects
<1>3. CASE f # old
  <2>1. Asks(w, y) /\ (old # None => "draw" \in y.todo_clients[ClientOf(old)])
    BY <1>1, DrawAsked
  <2>2. y \in Graph
    BY <2>1 DEF Asks, Schedules
  <2>3. u = [x EXCEPT !.selected_frame[col] = f]
    BY <1>3 DEF SelectInBackground
  <2> HIDE DEF y, old
  <2>4. Asks(y, x) /\ (f # None => "draw" \in x.todo_clients[ClientOf(f)])
    BY <2>2, DrawAsked
  <2> HIDE DEF x
  <2>5. Asks(w, x) /\ x \in Graph
    BY <2>1, <2>4, AsksTwice DEF Asks, Schedules
  <2>6. /\ u.todo_clients = x.todo_clients /\ u.todo_views = x.todo_views
        /\ u.todo_columns = x.todo_columns /\ u.todo_root = x.todo_root
        /\ SameLook(x, u)
    BY <2>3, <2>5 DEF Graph, SameLook
  <2>7. SameLook(w, u) /\ MoreTasks(w, u)
    BY <2>5, <2>6 DEF Asks, SameLook, MoreTasks
  <2>8. /\ u \in Graph
        /\ SameLinks(w, u) /\ SameViews(w, u)
        /\ u.selected_column = w.selected_column
        /\ u.selected_frame = [w.selected_frame EXCEPT ![col] = f]
    BY SelectInBackgroundEffect
  <2>9. ASSUME NEW g \in LiveFrames(w), StyleClass(u, g) # StyleClass(w, g)
        PROVE  "draw" \in u.todo_clients[ClientOf(g)]
    <3>1. g \in Frames /\ ClientOf(g) \in Clients
      BY FrameParts DEF LiveFrames
    <3>2. w.column_of[g] \in Columns
      BY DEF LiveFrames, Graph, OrNone
    <3>3. w.column_of[g] = col /\ g \in {old, f}
      <4>1. \A c \in Columns : c # col => u.selected_frame[c] = w.selected_frame[c]
        BY <1>1, <2>8
      <4>2. u.selected_frame[col] = f
        BY <1>1, <2>8
      <4>3. u.column_of = w.column_of
        BY <2>8 DEF SameLinks
      <4>4. QED BY <2>8, <2>9, <3>2, <4>1, <4>2, <4>3 DEF StyleClass, old
    <3>4. g # None
      BY <3>1, NoneIsNeither
    <3>5. CASE g = f
      BY <2>4, <2>6, <3>4, <3>5
    <3>6. CASE g = old
      BY <2>1, <2>4, <2>6, <3>1, <3>4, <3>6 DEF Asks, MoreTasks
    <3>7. QED BY <3>3, <3>5, <3>6
  <2>10. QED BY <2>7, <2>8, <2>9 DEF Restyles
<1>4. QED BY <1>2, <1>3

\* handle_selected_frame_changed draws what falls back, and schedules the focus on
\* the root window when nothing is selected any more.
LEMMA HandleSelectedFrameChangedRestyles ==
  ASSUME NEW w, WellLinked(w), NEW old \in OrNone(LiveFrames(w)), NEW new,
         NEW u, u = HandleSelectedFrameChanged(w, old, new)
  PROVE  Restyles(w, u) /\ (new = None => u.todo_root)
<1> DEFINE a == IF new # None THEN [w EXCEPT !.timer = TRUE] ELSE [w EXCEPT !.todo_root = TRUE]
           col == w.column_of[old]
           h == Head(w.column_activity[col])
<1>0. w \in Graph
  BY DEF WellLinked
<1>1. a \in Graph
  <2>1. [w EXCEPT !.timer = TRUE] \in Graph
    BY <1>0, Zenon DEF Graph
  <2>2. [w EXCEPT !.todo_root = TRUE] \in Graph
    BY <1>0, Zenon DEF Graph
  <2>3. QED BY <2>1, <2>2
<1>2. /\ SameLinks(w, a) /\ SameViews(w, a) /\ SameLook(w, a) /\ MoreTasks(w, a)
      /\ a.selected_column = w.selected_column /\ a.selected_frame = w.selected_frame
      /\ new = None => a.todo_root
  <2>1. CASE new # None
    BY <2>1, <1>0 DEF Graph, SameLinks, SameViews, SameLook, MoreTasks
  <2>2. CASE new = None
    BY <2>2, <1>0 DEF Graph, SameLinks, SameViews, SameLook, MoreTasks
  <2>3. QED BY <2>1, <2>2
<1>3. u = IF old # None /\ w.selected_frame[col] = old /\ h # old
          THEN SelectInBackground(a, col, h) ELSE a
  BY DEF HandleSelectedFrameChanged
<1> HIDE DEF a
<1>4. Asks(w, a)
  BY <1>1, <1>2 DEF Asks, Schedules
<1>5. Restyles(w, a)
  BY <1>4, AsksRestyles DEF Reselects
<1>6. CASE old # None /\ w.selected_frame[col] = old /\ h # old
  <2>1. col \in Columns /\ old \in FramesIn(w, col)
    BY <1>0, <1>6 DEF OrNone, LiveFrames, FramesIn, Graph
  <2>2. h \in OrNone(Frames)
    BY <2>1, MostRecentIsInColumn DEF FramesIn, OrNone
  <2>3. u = SelectInBackground(a, col, h)
    BY <1>3, <1>6
  <2> HIDE DEF h, col
  <2>4. Restyles(a, u)
    BY <1>1, <2>1, <2>2, <2>3, SelectInBackgroundRestyles
  <2>5. Restyles(w, u)
    BY <1>0, <1>5, <2>4, RestylesTwice
  <2>6. QED BY <1>2, <2>4, <2>5 DEF Restyles, MoreTasks
<1>7. CASE ~ (old # None /\ w.selected_frame[col] = old /\ h # old)
  BY <1>2, <1>3, <1>5, <1>7
<1>8. QED BY <1>6, <1>7

\* WColumn::select_frame.
LEMMA SelectFrameInColumnReselects ==
  ASSUME NEW w, WellLinked(w), NothingDangles(w), NEW col \in Columns, NEW f \in OrNone(Frames),
         NEW u, u = SelectFrameInColumn(w, col, f)
  PROVE  Reselects(w, u)
<1> DEFINE old == w.selected_frame[col]
           m == SelectInBackground(w, col, f)
           t == HandleSelectedFrameChanged(m, old, f)
<1>0. w \in Graph /\ w.selected_frame \in [Columns -> OrNone(Frames)]
  BY DEF WellLinked, Graph
<1>1. /\ m \in Graph
      /\ SameLinks(w, m) /\ SameViews(w, m)
      /\ m.selected_column = w.selected_column
      /\ m.selected_frame = [w.selected_frame EXCEPT ![col] = f]
  BY <1>0, SelectInBackgroundEffect
<1>2. Restyles(w, m)
  BY <1>0, SelectInBackgroundRestyles
<1>3. u = IF f = old THEN w
          ELSE IF col # SelectedColumn(w) THEN m
          ELSE IF f = None THEN t ELSE ScheduleInputFocus(t, f)
  BY DEF SelectFrameInColumn
<1>4. /\ SameViews(w, u)
      /\ u.selected_column = w.selected_column
      /\ u.selected_frame = [w.selected_frame EXCEPT ![col] = f]
  BY SelectFrameInColumnEffect
<1>5. CASE f = old
  BY <1>0, <1>3, <1>5, AsksNothing, AsksRestyles
<1>6. CASE f # old /\ col # SelectedColumn(w)
  <2>1. u = m
    BY <1>3, <1>6
  <2> HIDE DEF m
  <2>2. SelectedFrame(u) = SelectedFrame(w)
    <3>1. SelectedColumn(w) \in OrNone(Columns)
      BY <1>0 DEF SelectedColumn, Graph, OrNone
    <3>2. \A c \in Columns : c # col => u.selected_frame[c] = w.selected_frame[c]
      BY <1>0, <1>4
    <3>3. QED BY <1>4, <1>6, <3>1, <3>2
              DEF SelectedFrame, SelectedFrameOfView, SelectedFrameOfColumn, SelectedColumn,
                  SameViews, OrNone
  <2>3. QED BY <1>2, <2>1, <2>2 DEF Reselects
<1>7. CASE f # old /\ col = SelectedColumn(w)
  <2>1. WellLinked(m)
    BY <1>1, SameLinksWellLinked DEF WellLinked, Tree, SameViews
  <2>2. old \in OrNone(FramesIn(w, col))
    BY DEF NothingDangles
  <2>3. old \in OrNone(LiveFrames(m))
    BY <1>1, <2>2, NoneIsNeither DEF SameLinks, FramesIn, LiveFrames, OrNone
  <2> HIDE DEF old, m
  <2>4. Restyles(m, t) /\ (f = None => t.todo_root)
    BY <2>1, <2>3, HandleSelectedFrameChangedRestyles
  <2> HIDE DEF t
  <2>5. Restyles(w, t) /\ t \in Graph
    BY <1>0, <1>2, <2>4, RestylesTwice DEF Restyles
  <2>6. SelectedFrame(u) = f
    <3>1. u.selected_frame[col] = f
      BY <1>0, <1>4
    <3>2. col # None
      BY NoneIsNeither
    <3>3. QED BY <1>4, <1>7, <3>1, <3>2
              DEF SelectedFrame, SelectedFrameOfView, SelectedFrameOfColumn, SelectedColumn,
                  SameViews
  <2>7. CASE f = None
    <3>1. u = t
      BY <1>3, <1>7, <2>7
    <3>2. QED BY <2>4, <2>5, <2>6, <2>7, <3>1 DEF Reselects, Refocused
  <2>8. CASE f # None
    <3>1. u = ScheduleInputFocus(t, f) /\ f \in Frames
      BY <1>3, <1>7, <2>8 DEF OrNone
    <3>2. Asks(t, u) /\ "set_input_focus" \in u.todo_clients[ClientOf(f)]
      BY <2>5, <3>1, FocusAsked
    <3>3. Restyles(w, u)
      BY <1>0, <2>5, <3>2, AsksRestyles, RestylesTwice DEF Reselects
    <3>4. QED BY <2>6, <2>8, <3>2, <3>3 DEF Reselects, Refocused
  <2>9. QED BY <2>7, <2>8
<1>8. QED BY <1>5, <1>6, <1>7
\* WView::select_column: the frames that are no longer, or now, the selected ones
\* of their view are drawn.
LEMMA SelectColumnReselects ==
  ASSUME NEW w, WellLinked(w), NothingDangles(w), NEW v \in Views,
         NEW col \in OrNone(ColumnsOf(w, v)),
         NEW u, u = SelectColumn(w, v, col)
  PROVE  Reselects(w, u)
<1> DEFINE was == w.selected_column[v]
           old == SelectedFrameOfView(w, v)
           new == SelectedFrameOfColumn(w, col)
           e == ScheduleDraw(w, old)
           d == ScheduleDraw(e, new)
           m == [d EXCEPT !.selected_column[v] = col]
           t == HandleSelectedFrameChanged(m, old, new)
<1>0. /\ w \in Graph
      /\ w.selected_frame \in [Columns -> OrNone(Frames)]
      /\ w.selected_column \in [Views -> OrNone(Columns)]
      /\ w.selected_view \in OrNone(Views)
  BY DEF WellLinked, Graph
<1>1. col \in OrNone(Columns) /\ None \notin Views /\ None \notin Columns /\ was \in OrNone(Columns)
  BY <1>0, NoneIsNeither DEF ColumnsOf, OrNone
<1>2. old \in OrNone(Frames) /\ new \in OrNone(Frames)
  BY <1>0, <1>1, SelectedFrameTyped DEF OrNone
<1>3. u = IF col = was THEN w
          ELSE IF v # w.selected_view THEN m
          ELSE IF new = None THEN t ELSE ScheduleInputFocus(t, new)
  BY DEF SelectColumn
<1>4. /\ old = IF was = None THEN None ELSE w.selected_frame[was]
      /\ new = IF col = None THEN None ELSE w.selected_frame[col]
  BY <1>1, NoneIsNeither DEF SelectedFrameOfView, SelectedFrameOfColumn
<1>5. CASE col = was
  BY <1>0, <1>3, <1>5, AsksNothing, AsksRestyles
<1>6. CASE col # was
  <2>1. Asks(w, e) /\ (old # None => "draw" \in e.todo_clients[ClientOf(old)])
    BY <1>0, <1>2, DrawAsked
  <2>2. e \in Graph
    BY <2>1 DEF Asks, Schedules
  <2>3. m = [d EXCEPT !.selected_column[v] = col]
    OBVIOUS
  <2> HIDE DEF e, m, old, new, was
  <2>4. Asks(e, d) /\ (new # None => "draw" \in d.todo_clients[ClientOf(new)])
    BY <1>2, <2>2, DrawAsked
  <2> HIDE DEF d
  <2>5. Asks(w, d) /\ d \in Graph
    BY <2>1, <2>4, AsksTwice DEF Asks, Schedules
  <2>6. /\ old # None => "draw" \in d.todo_clients[ClientOf(old)]
        /\ new # None => "draw" \in d.todo_clients[ClientOf(new)]
    BY <1>2, <2>1, <2>4, FrameParts DEF Asks, MoreTasks, OrNone
  <2>7. m \in Graph
    <3>1. [d.selected_column EXCEPT ![v] = col] \in [Views -> OrNone(Columns)]
      BY <1>1, <2>5 DEF Graph
    <3>2. m = [d EXCEPT !.selected_column = [d.selected_column EXCEPT ![v] = col]]
      BY <2>3
    <3>3. QED BY <2>5, <3>1, <3>2, Zenon DEF Graph
  <2>8. /\ m.todo_clients = d.todo_clients /\ m.todo_views = d.todo_views
        /\ m.todo_columns = d.todo_columns /\ m.todo_root = d.todo_root
        /\ SameLook(d, m) /\ SameLinks(d, m) /\ SameViews(d, m)
        /\ m.selected_frame = d.selected_frame
        /\ m.selected_column = [d.selected_column EXCEPT ![v] = col]
    BY <2>3, <2>5 DEF Graph, SameLook, SameLinks, SameViews
  <2>9. /\ m.selected_frame = w.selected_frame
        /\ m.selected_column = [w.selected_column EXCEPT ![v] = col]
        /\ SameLinks(w, m) /\ SameViews(w, m)
    BY <2>5, <2>8 DEF Asks, Schedules, SameLinks, SameViews
  <2>10. SameLook(w, m) /\ MoreTasks(w, m)
    BY <2>5, <2>8 DEF Asks, SameLook, MoreTasks
  <2>11. ASSUME NEW g \in LiveFrames(w), StyleClass(m, g) # StyleClass(w, g)
         PROVE  "draw" \in m.todo_clients[ClientOf(g)]
    <3> DEFINE c == w.column_of[g]
    <3>1. g \in Frames /\ ViewOf(g) \in Views /\ g # None
      BY FrameParts, NoneIsNeither DEF LiveFrames
    <3>2. c \in Columns /\ c # None
      BY NoneIsNeither, <1>0 DEF LiveFrames, Graph, OrNone
    <3>3. m.column_of = w.column_of
      BY <2>9 DEF SameLinks
    <3>4. m.selected_column[ViewOf(g)] # w.selected_column[ViewOf(g)]
          => ViewOf(g) = v /\ m.selected_column[v] = col
      BY <1>0, <2>9, <3>1
    <3>5. /\ g = w.selected_frame[c] /\ c \in {was, col}
      BY <2>9, <2>11, <3>3, <3>4 DEF StyleClass, was
    <3>6. g = old \/ g = new
      BY <1>4, <3>2, <3>5
    <3>7. QED BY <2>6, <2>8, <3>1, <3>6
  <2>12. Restyles(w, m)
    BY <2>7, <2>9, <2>10, <2>11 DEF Restyles
  <2>13. CASE v # w.selected_view
    <3>1. u = m
      BY <1>3, <1>6, <2>13
    <3>2. SelectedFrame(m) = SelectedFrame(w)
      BY <1>0, <2>9, <2>13
         DEF SelectedFrame, SelectedFrameOfView, SelectedFrameOfColumn, SameViews, OrNone
    <3>3. QED BY <2>12, <3>1, <3>2 DEF Reselects
  <2>14. CASE v = w.selected_view
    <3>1. WellLinked(m)
      BY <2>7, <2>9, SameLinksWellLinked DEF WellLinked, Tree, SameViews
    <3>2. old # None => was \in Columns /\ old \in FramesIn(w, was)
      BY <1>1, <1>4, NoneIsNeither DEF NothingDangles, OrNone
    <3>3. old # None => old \in LiveFrames(m) /\ m.column_of[old] = was
      BY <2>9, <3>2, NoneIsNeither DEF SameLinks, FramesIn, LiveFrames
    <3>4. old \in OrNone(LiveFrames(m))
      BY <3>3 DEF OrNone
    <3>5. Restyles(m, t) /\ (new = None => t.todo_root)
      BY <3>1, <3>4, HandleSelectedFrameChangedRestyles
    <3>6. /\ SameViews(m, t)
          /\ t.selected_column = m.selected_column
          /\ \A c \in Columns :
               t.selected_frame[c] # m.selected_frame[c] => old # None /\ c = m.column_of[old]
      BY <3>1, <3>4, HandleSelectedFrameChangedEffect
    <3> HIDE DEF t
    <3>7. Restyles(w, t) /\ t \in Graph
      BY <1>0, <2>12, <3>5, RestylesTwice DEF Restyles
    <3>8. SelectedFrame(t) = new
      <4>1. t.selected_view = v /\ v # None /\ t.selected_column[v] = col
        BY <1>0, <1>1, <2>9, <2>14, <3>6 DEF SameViews
      <4>2. col # None => t.selected_frame[col] = w.selected_frame[col]
        BY <1>1, <1>6, <2>9, <3>3, <3>6 DEF OrNone
      <4>3. QED BY <1>4, <4>1, <4>2 DEF SelectedFrame, SelectedFrameOfView, SelectedFrameOfColumn
    <3>9. CASE new = None
      <4>1. u = t
        BY <1>3, <1>6, <2>14, <3>9
      <4>2. QED BY <3>5, <3>7, <3>8, <3>9, <4>1 DEF Reselects, Refocused
    <3>10. CASE new # None
      <4>1. u = ScheduleInputFocus(t, new) /\ new \in Frames
        BY <1>2, <1>3, <1>6, <2>14, <3>10 DEF OrNone
      <4>2. Asks(t, u) /\ "set_input_focus" \in u.todo_clients[ClientOf(new)]
        BY <3>7, <4>1, FocusAsked
      <4>3. Restyles(w, u)
        BY <1>0, <3>7, <4>2, AsksRestyles, RestylesTwice DEF Reselects
      <4>4. SelectedFrame(u) = new
        BY <3>8, <4>2 DEF Asks, Schedules, SameViews, SelectedFrame, SelectedFrameOfView,
                          SelectedFrameOfColumn
      <4>5. QED BY <3>10, <4>2, <4>3, <4>4 DEF Reselects, Refocused
    <3>11. QED BY <3>9, <3>10
  <2>15. QED BY <2>13, <2>14
<1>7. QED BY <1>5, <1>6

\* WView::select_frame.
LEMMA SelectFrameReselects ==
  ASSUME NEW w, WellFormed(w), NEW f \in LiveFrames(w),
         NEW u, u = SelectFrame(w, f)
  PROVE  Reselects(w, u)
<1> DEFINE col == w.column_of[f]
           m == SelectFrameInColumn(w, col, f)
<1>1. /\ WellLinked(w) /\ NothingDangles(w) /\ w \in Graph
      /\ f \in Frames /\ ViewOf(f) \in Views /\ col \in Columns
  BY SelectionDoesNotDangle, FrameParts DEF WellFormed, WellLinked, LiveFrames, Graph, OrNone
<1>2. f \in FramesIn(w, col) /\ col \in ColumnsOf(w, ViewOf(f)) /\ f \in OrNone(Frames)
  BY <1>1 DEF FramesIn, ColumnsOf, WellLinked, Tree, OrNone
<1>3. u = SelectColumn(m, ViewOf(f), col)
  BY DEF SelectFrame
<1> HIDE DEF col
<1>4. Reselects(w, m)
  BY <1>1, <1>2, SelectFrameInColumnReselects
<1>5. WellFormed(m) /\ SameLinks(w, m)
  BY <1>1, <1>2, SelectOwnFrameWellFormed
<1> HIDE DEF m
<1>6. WellLinked(m) /\ NothingDangles(m) /\ col \in OrNone(ColumnsOf(m, ViewOf(f)))
  BY <1>2, <1>5, SelectionDoesNotDangle DEF WellFormed, SameLinks, ColumnsOf, OrNone
<1>7. Reselects(m, u)
  BY <1>1, <1>3, <1>6, SelectColumnReselects
<1>8. QED BY <1>1, <1>4, <1>7, ReselectsTwice

-----------------------------------------------------------------------------
(* What the screen shows while the selection changes.                      *)

\* The visible frame of a client is a frame of it.
LEMMA VisibleFrameTyped ==
  ASSUME NEW w \in Graph, NEW c \in Clients, VisibleFrame(w, c) # None
  PROVE  /\ VisibleFrame(w, c) \in LiveFrames(w) /\ VisibleFrame(w, c) \in FramesOf(w, c)
         /\ ClientOf(VisibleFrame(w, c)) = c
         /\ ViewOf(VisibleFrame(w, c)) = w.selected_view
         /\ w.selected_view \in Views
<1>1. /\ HasFrame(w, c, w.selected_view)
      /\ VisibleFrame(w, c) = <<c, w.selected_view>>
  BY DEF VisibleFrame
<1>2. w.selected_view \in Views
  BY <1>1 DEF HasFrame, Graph, OrNone
<1>3. QED BY <1>1, <1>2, PairIsFrame DEF HasFrame, LiveFrames, FramesOf

\* A task that was scheduled still is.
LEMMA StillUpdating ==
  ASSUME NEW w, NEW u, SameLinks(w, u), MoreTasks(w, u)
  PROVE  /\ \A col : LaidOut(w, col) => LaidOut(u, col)
         /\ \A c \in Clients : Updating(w, c) => Updating(u, c)
<1>1. \A col : LaidOut(w, col) => LaidOut(u, col)
  BY DEF LaidOut, SameLinks, MoreTasks
<1>2. \A c : FramesOf(u, c) = FramesOf(w, c)
  BY SameSets DEF SameLinks
<1>3. QED BY <1>1, <1>2 DEF Updating, SameLinks, MoreTasks

\* Another style is drawn; nothing else of what the screen shows has changed.
LEMMA RestylesOnScreen ==
  ASSUME NEW w \in Graph, NEW u, Restyles(w, u),
         NEW s, NEW V, NEW X, NEW Y, OnScreenBut(w, s, V, X, Y)
  PROVE  OnScreenBut(u, s, V, X, Y)
<1>1. /\ SameLinks(w, u) /\ SameViews(w, u) /\ SameLook(w, u) /\ MoreTasks(w, u)
  BY DEF Restyles
<1>2. /\ \A col : LaidOut(w, col) => LaidOut(u, col)
      /\ \A c \in Clients : Updating(w, c) => Updating(u, c)
  BY <1>1, StillUpdating
<1>3. LiveFrames(u) = LiveFrames(w) /\ \A c : FramesOf(u, c) = FramesOf(w, c)
  BY <1>1, SameSets DEF SameLinks
<1>4. /\ \A col : ColumnBounds(u, col) = ColumnBounds(w, col)
      /\ \A f, a : FrameBounds(u, f, a) = FrameBounds(w, f, a)
      /\ \A c : VisibleFrame(u, c) = VisibleFrame(w, c)
  BY <1>1 DEF SameLinks, SameLook, SameViews, ColumnBounds, FrameBounds, VisibleFrame, HasFrame
<1>5. ColumnsPlaced(u, s, V)
  BY <1>1, <1>4 DEF OnScreenBut, ColumnsPlaced, SameLinks, MoreTasks
<1>6. FramesPlaced(u, s, X)
  BY <1>1, <1>2, <1>3, <1>4 DEF OnScreenBut, FramesPlaced, SameLinks
<1>7. RecentOpen(u, X)
  BY <1>1, <1>2 DEF OnScreenBut, RecentOpen, SameLinks, SameLook
<1>8. ASSUME NEW c \in Clients \ Y, ~ Updating(u, c)
      PROVE  ClientPlaced(u, s, c) /\ ("draw" \in u.todo_clients[c] \/ ClientDrawn(u, s, c))
  <2>1. ClientPlaced(w, s, c) /\ ("draw" \in w.todo_clients[c] \/ ClientDrawn(w, s, c))
    BY <1>2, <1>8 DEF OnScreenBut, ClientsPlaced
  <2>2. ClientPlaced(u, s, c)
    BY <1>1, <1>4, <2>1 DEF ClientPlaced, SameLook
  <2>3. ASSUME "draw" \notin u.todo_clients[c]
        PROVE  ClientDrawn(u, s, c)
    <3> DEFINE f == VisibleFrame(w, c)
    <3>1. ClientDrawn(w, s, c)
      BY <1>1, <2>1, <2>3 DEF MoreTasks
    <3>2. CASE f = None
      BY <1>4, <3>2 DEF ClientDrawn
    <3>3. CASE f # None
      <4>1. f \in LiveFrames(w) /\ ClientOf(f) = c
        BY <3>3, VisibleFrameTyped
      <4>2. StyleClass(u, f) = StyleClass(w, f)
        BY <2>3, <4>1 DEF Restyles
      <4>3. u.marked = w.marked
        BY <1>1 DEF SameLinks
      <4> HIDE DEF f
      <4>4. \A b : Contents(u, f, b) = Contents(w, f, b)
        BY <1>3, <4>2, <4>3 DEF Contents
      <4>5. QED BY <1>4, <3>1, <4>4 DEF ClientDrawn, f
    <3>4. QED BY <3>2, <3>3
  <2>4. QED BY <2>2, <2>3
<1>9. ClientsPlaced(u, s, Y)
  BY <1>8 DEF ClientsPlaced
<1>10. QED BY <1>5, <1>6, <1>7, <1>9 DEF OnScreenBut

\* The keyboard goes with the selection.
LEMMA ReselectsFocused ==
  ASSUME NEW w \in Graph, NEW u, Reselects(w, u), NEW s, Focused(w, s)
  PROVE  Focused(u, s)
<1>1. CASE SelectedFrame(u) # SelectedFrame(w)
  BY <1>1 DEF Reselects, Focused
<1>2. CASE SelectedFrame(u) = SelectedFrame(w)
  <2>1. SelectedFrame(w) # None => ClientOf(SelectedFrame(w)) \in Clients
    BY SelectedFrameTyped, FrameParts DEF OrNone
  <2>2. Refocused(w) => Refocused(u)
    BY <1>2, <2>1 DEF Refocused, Reselects, Restyles, MoreTasks
  <2>3. \A f : FocusWindow(u, f) = FocusWindow(w, f)
    BY DEF FocusWindow, Reselects, Restyles, SameLook
  <2>4. QED BY <1>2, <2>2, <2>3 DEF Focused
<1>3. QED BY <1>1, <1>2
\* The screen shows the tree, and the keyboard is where the selection says.
Shown(w, s) == OnScreen(w, s) /\ Focused(w, s)

\* A change of the selection shows.
LEMMA ReselectsShown ==
  ASSUME NEW w \in Graph, NEW u, Reselects(w, u), NEW s, Shown(w, s)
  PROVE  Shown(u, s)
BY RestylesOnScreen, ReselectsFocused DEF Reselects, Shown, OnScreen

\* A request shows.
LEMMA AsksShown ==
  ASSUME NEW w \in Graph, NEW u, Asks(w, u), NEW s, Shown(w, s)
  PROVE  Shown(u, s)
BY AsksRestyles, ReselectsShown

-----------------------------------------------------------------------------
(* Changes of the tree.                                                    *)

\* What is neither excepted nor scheduled after a change is as it was before.
KeepsColumns(w, u, V) ==
  \A col \in Columns :
    u.view_of[col] \notin {None} \cup V \cup u.todo_views =>
      w.view_of[col] \notin {None} \cup w.todo_views /\ ColumnBounds(u, col) = ColumnBounds(w, col)

KeepsFrames(w, u, X) ==
  \A f \in LiveFrames(u) :
    u.column_of[f] \notin X /\ ~ LaidOut(u, u.column_of[f]) =>
      /\ f \in LiveFrames(w) /\ w.column_of[f] = u.column_of[f]
      /\ ~ LaidOut(w, w.column_of[f])
      /\ \A across : FrameBounds(u, f, across) = FrameBounds(w, f, across)

KeepsContents(w, u, f) ==
  /\ f \in u.shaded <=> f \in w.shaded
  /\ "draw" \notin u.todo_clients[ClientOf(f)] =>
       /\ "draw" \notin w.todo_clients[ClientOf(f)]
       /\ \A bounds : Contents(u, f, bounds) = Contents(w, f, bounds)

KeepsClients(w, u, Y) ==
  \A c \in Clients \ Y :
    ~ Updating(u, c) =>
      /\ ~ Updating(w, c)
      /\ VisibleFrame(u, c) = VisibleFrame(w, c)
      /\ VisibleFrame(w, c) # None => KeepsContents(w, u, VisibleFrame(w, c))

KeepsRecent(w, u, X) ==
  \A col \in Columns \ X :
    u.frames[col] # <<>> /\ ~ LaidOut(u, col) =>
      /\ w.frames[col] # <<>> /\ ~ LaidOut(w, col)
      /\ Head(u.column_activity[col]) = Head(w.column_activity[col])
      /\ Head(u.column_activity[col]) \in u.shaded => Head(u.column_activity[col]) \in w.shaded

\* Such a change leaves the screen right, but for the exceptions: clients may have
\* been excepted before it.
LEMMA KeepsOnScreenBut ==
  ASSUME NEW w \in Graph, NEW u, NEW s, NEW V, NEW X, NEW Y, OnScreenBut(w, s, {}, {}, Y),
         KeepsColumns(w, u, V), KeepsFrames(w, u, X), KeepsClients(w, u, Y), KeepsRecent(w, u, X)
  PROVE  OnScreenBut(u, s, V, X, Y)
<1>1. ColumnsPlaced(u, s, V)
  BY DEF KeepsColumns, OnScreenBut, ColumnsPlaced
<1>2. FramesPlaced(u, s, X)
  BY DEF KeepsFrames, OnScreenBut, FramesPlaced
<1>3. RecentOpen(u, X)
  BY DEF KeepsRecent, OnScreenBut, RecentOpen
<1>4. ASSUME NEW c \in Clients \ Y, ~ Updating(u, c)
      PROVE  ClientPlaced(u, s, c) /\ ("draw" \in u.todo_clients[c] \/ ClientDrawn(u, s, c))
  <2> DEFINE f == VisibleFrame(w, c)
  <2>1. ~ Updating(w, c) /\ VisibleFrame(u, c) = f /\ (f # None => KeepsContents(w, u, f))
    BY <1>4 DEF KeepsClients
  <2>2. ClientPlaced(w, s, c) /\ ("draw" \in w.todo_clients[c] \/ ClientDrawn(w, s, c))
    BY <1>4, <2>1 DEF OnScreenBut, ClientsPlaced
  <2>3. f # None => ClientOf(f) = c
    BY <1>4, VisibleFrameTyped
  <2> HIDE DEF f
  <2>4. VisibleFrame(w, c) = f
    BY DEF f
  <2>5. ClientPlaced(u, s, c)
    BY <2>1, <2>2, <2>4 DEF ClientPlaced, KeepsContents
  <2>6. ASSUME f # None, "draw" \notin u.todo_clients[c]
        PROVE  s.drawn[c] = Contents(u, f, s.bounds[f])
    <3>1. /\ "draw" \notin w.todo_clients[c]
          /\ \A bounds : Contents(u, f, bounds) = Contents(w, f, bounds)
      BY <2>1, <2>3, <2>6 DEF KeepsContents
    <3>2. s.drawn[c] = Contents(w, f, s.bounds[f])
      BY <2>2, <2>4, <2>6, <3>1 DEF ClientDrawn
    <3>3. QED BY <3>1, <3>2
  <2>7. QED BY <2>1, <2>5, <2>6 DEF ClientDrawn
<1>5. ClientsPlaced(u, s, Y)
  BY <1>4 DEF ClientsPlaced
<1>6. QED BY <1>1, <1>2, <1>3, <1>5 DEF OnScreenBut

\* The same where nothing was excepted before.
LEMMA KeepsOnScreen ==
  ASSUME NEW w \in Graph, NEW u, NEW s, NEW V, NEW X, NEW Y, OnScreen(w, s),
         KeepsColumns(w, u, V), KeepsFrames(w, u, X), KeepsClients(w, u, Y), KeepsRecent(w, u, X)
  PROVE  OnScreenBut(u, s, V, X, Y)
<1>1. OnScreenBut(w, s, {}, {}, Y)
  BY DEF OnScreen, OnScreenBut, ClientsPlaced
<1>2. QED BY <1>1, KeepsOnScreenBut

\* A request takes back the exceptions it schedules.
LEMMA AsksForExceptions ==
  ASSUME NEW w \in Graph, NEW u, Asks(w, u), NEW s, NEW V, NEW X, NEW Y,
         OnScreenBut(w, s, V, X, Y),
         V \subseteq u.todo_views,
         \A col \in X : LaidOut(u, col),
         \A c \in Y : Updating(u, c)
  PROVE  OnScreen(u, s)
<1>1. OnScreenBut(u, s, V, X, Y)
  BY AsksRestyles, RestylesOnScreen DEF Reselects
<1>2. ColumnsPlaced(u, s, {})
  BY <1>1 DEF OnScreenBut, ColumnsPlaced
<1>3. FramesPlaced(u, s, {})
  BY <1>1 DEF OnScreenBut, FramesPlaced
<1>4. ClientsPlaced(u, s, {})
  BY <1>1 DEF OnScreenBut, ClientsPlaced
<1>5. RecentOpen(u, {})
  BY <1>1 DEF OnScreenBut, RecentOpen
<1>6. QED BY <1>2, <1>3, <1>4, <1>5 DEF OnScreen, OnScreenBut

\* The keyboard stays where it is when the selected frame does, and stays as open
\* as it was.
LEMMA StaysFocused ==
  ASSUME NEW w \in Graph, NEW u, NEW s, Focused(w, s),
         SelectedFrame(u) = SelectedFrame(w),
         SelectedFrame(w) # None => (SelectedFrame(w) \in u.shaded <=> SelectedFrame(w) \in w.shaded),
         w.todo_root => u.todo_root,
         \A c \in Clients : "set_input_focus" \in w.todo_clients[c] => "set_input_focus" \in u.todo_clients[c]
  PROVE  Focused(u, s)
<1>1. SelectedFrame(w) # None => ClientOf(SelectedFrame(w)) \in Clients
  BY SelectedFrameTyped, FrameParts DEF OrNone
<1>2. Refocused(w) => Refocused(u)
  BY <1>1 DEF Refocused
<1>3. SelectedFrame(w) # None => FocusWindow(u, SelectedFrame(w)) = FocusWindow(w, SelectedFrame(w))
  BY DEF FocusWindow
<1>4. QED BY <1>2, <1>3 DEF Focused
\* The selected frame is found along these pointers.
LEMMA SameSelectedFrame ==
  ASSUME NEW w, NEW u, u.selected_view = w.selected_view,
         u.selected_column = w.selected_column, u.selected_frame = w.selected_frame
  PROVE  SelectedFrame(u) = SelectedFrame(w)
BY DEF SelectedFrame, SelectedFrameOfView, SelectedFrameOfColumn

SameTasks(w, u) ==
  /\ u.todo_views = w.todo_views /\ u.todo_columns = w.todo_columns
  /\ u.todo_clients = w.todo_clients /\ u.todo_root = w.todo_root

\* A frame of a well-formed graph is in a column that has a view.
LEMMA FramesPlace ==
  ASSUME NEW w, WellLinked(w), NEW f \in LiveFrames(w)
  PROVE  /\ f \in Frames /\ ClientOf(f) \in Clients /\ ViewOf(f) \in Views
         /\ w.column_of[f] \in Columns
         /\ w.view_of[w.column_of[f]] = ViewOf(f) /\ ViewOf(f) # None
         /\ f \in ToSet(w.frames[w.column_of[f]])
         /\ f \in FramesOf(w, ClientOf(f))
<1>1. f \in Frames /\ ClientOf(f) \in Clients /\ ViewOf(f) \in Views
  BY FrameParts DEF LiveFrames
<1>2. w.column_of[f] \in Columns
  BY <1>1 DEF LiveFrames, WellLinked, Graph, OrNone
<1>3. w.view_of[w.column_of[f]] = ViewOf(f) /\ ViewOf(f) # None
  BY <1>1, NoneIsNeither DEF WellLinked, Tree
<1>4. f \in ToSet(w.frames[w.column_of[f]])
  BY <1>1, <1>2 DEF WellLinked, Tree, Enumerates, FramesIn
<1>5. QED BY <1>1, <1>2, <1>3, <1>4 DEF FramesOf

\* A list of frames that is not empty is that of a column with a frame.
LEMMA ListedFrames ==
  ASSUME NEW w, WellLinked(w), NEW col \in Columns, w.frames[col] # <<>>
  PROVE  /\ FramesIn(w, col) # {}
         /\ w.view_of[col] \in Views
         /\ Head(w.column_activity[col]) \in FramesIn(w, col)
<1>1. w.frames[col] \in Seq(Frames) /\ Enumerates(w.frames[col], FramesIn(w, col))
  BY DEF WellLinked, Graph, Tree
<1>2. FramesIn(w, col) # {}
  BY <1>1, EnumerationProperties
<1>3. PICK f \in Frames : f \in FramesIn(w, col)
  BY <1>2 DEF FramesIn
<1>4. f \in LiveFrames(w) /\ w.column_of[f] = col
  BY <1>3, NoneIsNeither DEF FramesIn, LiveFrames
<1>5. QED BY <1>2, <1>4, FramesPlace, MostRecentIsInColumn

\* Where the tasks and the links are the same, so are the clients to be updated.
LEMMA SameUpdates ==
  ASSUME NEW w, NEW u, u.column_of = w.column_of,
         w.todo_clients = u.todo_clients,
         \A f \in LiveFrames(w) : LaidOut(u, w.column_of[f]) <=> LaidOut(w, w.column_of[f])
  PROVE  \A c \in Clients : Updating(u, c) <=> Updating(w, c)
BY DEF Updating, FramesOf, LiveFrames

\* A column that was inserted is laid out with its view.
LEMMA InsertedColumnKeeps ==
  ASSUME NEW w, WellFormed(w), NEW v \in w.views, NEW i \in 1..(Len(w.columns[v]) + 1),
         NEW col \in FreeColumns(w),
         NEW x, x = InsertColumn(w, v, i, col), NEW s, Shown(w, s)
  PROVE  /\ OnScreenBut(x, s, {v}, {}, {}) /\ Focused(x, s)
         /\ WellLinked(x) /\ col \in ColumnsOf(x, v)
         /\ w.selected_column[v] = None => NothingDangles(x)
<1>0. w \in Graph /\ WellLinked(w) /\ v \in Views /\ col \in Columns /\ w.view_of[col] = None
  BY DEF WellFormed, WellLinked, Graph, FreeColumns
<1>1a. ColumnInserted(w, v, i, col, x)
  BY InsertedColumn
<1>1. /\ WellLinked(x)
      /\ x.columns = [w.columns EXCEPT ![v] = InsertAt(w.columns[v], i, col)]
      /\ x.view_of = [w.view_of EXCEPT ![col] = v]
      /\ SameViews(w, x) /\ SameFrames(w, x)
      /\ x.selected_column = w.selected_column /\ x.selected_frame = w.selected_frame
      /\ ColumnsOf(x, v) = ColumnsOf(w, v) \cup {col}
      /\ \A z \in Views \ {v} : Selects(x.selected_column[z], ColumnsOf(x, z))
      /\ \A c \in Columns : Selects(x.selected_frame[c], FramesIn(x, c))
      /\ x.selected_view \in OrNone(x.views)
      /\ w.selected_column[v] = None => NothingDangles(x)
  BY <1>1a DEF ColumnInserted
<1>2. SameLook(w, x) /\ SameTasks(w, x) /\ x.column_activity = w.column_activity
  BY <1>0 DEF InsertColumn, Graph, SameLook, SameTasks
<1>3. /\ \A c \in Columns : c # col => x.view_of[c] = w.view_of[c]
      /\ x.view_of[col] = v
      /\ \A z \in Views : z # v => x.columns[z] = w.columns[z]
  BY <1>0, <1>1 DEF Graph
<1>4. LiveFrames(x) = LiveFrames(w) /\ \A c : FramesOf(x, c) = FramesOf(w, c)
  BY <1>1 DEF SameFrames, LiveFrames, FramesOf
<1>5. \A f \in LiveFrames(w) : /\ w.column_of[f] \in Columns /\ w.column_of[f] # col
                               /\ x.view_of[w.column_of[f]] = w.view_of[w.column_of[f]]
  BY <1>0, <1>3, FramesPlace
<1>6. \A f \in LiveFrames(w) : LaidOut(x, w.column_of[f]) <=> LaidOut(w, w.column_of[f])
  BY <1>2, <1>5 DEF LaidOut, SameTasks
<1>7. KeepsColumns(w, x, {v})
  <2>1. ASSUME NEW c \in Columns, x.view_of[c] \notin {None} \cup {v} \cup x.todo_views
        PROVE  /\ w.view_of[c] \notin {None} \cup w.todo_views
               /\ ColumnBounds(x, c) = ColumnBounds(w, c)
    <3>1. x.view_of[c] = w.view_of[c] /\ w.view_of[c] \in Views /\ w.view_of[c] # v
      BY ZenonT(30), <1>0, <1>3, <2>1 DEF Graph, OrNone
    <3>2. w.view_of[c] \notin {None} \cup w.todo_views
      BY <1>2, <2>1, <3>1 DEF SameTasks
    <3>3. x.columns[w.view_of[c]] = w.columns[w.view_of[c]] /\ x.bar_visible = w.bar_visible
      BY <1>2, <1>3, <3>1 DEF SameLook
    <3>4. ColumnBounds(x, c) = ColumnBounds(w, c)
      BY <3>1, <3>3 DEF ColumnBounds
    <3>5. QED BY <3>2, <3>4
  <2>2. QED BY <2>1 DEF KeepsColumns
<1>8. KeepsFrames(w, x, {})
  BY <1>1, <1>2, <1>4, <1>6 DEF KeepsFrames, FrameBounds, SameFrames, SameLook
<1>9. KeepsRecent(w, x, {})
  <2>1. ASSUME NEW c \in Columns, x.frames[c] # <<>>
        PROVE  LaidOut(x, c) <=> LaidOut(w, c)
    <3>1. w.frames[c] # <<>>
      BY <1>1, <2>1 DEF SameFrames
    <3>2. w.view_of[c] \in Views
      BY <1>0, <3>1, ListedFrames
    <3>3. c # col
      BY <1>0, <3>2, NoneIsNeither
    <3>4. QED BY <1>2, <1>3, <3>3 DEF LaidOut, SameTasks
  <2>2. QED BY <1>1, <1>2, <2>1 DEF KeepsRecent, SameFrames, SameLook
<1>10. KeepsClients(w, x, {})
  <2>1. \A c \in Clients : Updating(x, c) <=> Updating(w, c)
    BY <1>1, <1>2, <1>6, SameUpdates DEF SameFrames, SameTasks
  <2>2. \A c : VisibleFrame(x, c) = VisibleFrame(w, c)
    BY <1>1 DEF VisibleFrame, HasFrame, SameViews, SameFrames
  <2>3. \A f, b : Contents(x, f, b) = Contents(w, f, b)
    BY <1>1, <1>4 DEF Contents, StyleClass, SameFrames
  <2>4. QED BY <1>2, <2>1, <2>2, <2>3 DEF KeepsClients, KeepsContents, SameTasks, SameLook
<1>11. OnScreenBut(x, s, {v}, {}, {})
  BY <1>0, <1>7, <1>8, <1>9, <1>10, KeepsOnScreen DEF Shown
<1>12. Focused(x, s)
  <2>1. SelectedFrame(x) = SelectedFrame(w)
    BY <1>1, SameSelectedFrame DEF SameViews
  <2>2. QED BY <1>0, <1>2, <2>1, StaysFocused DEF Shown, SameTasks, SameLook
<1>13. QED BY <1>1, <1>11, <1>12

\* WView::create_column.
LEMMA CreateColumnShown ==
  ASSUME NEW w, WellFormed(w), NEW v \in w.views, NEW i \in 1..(Len(w.columns[v]) + 1),
         NEW col \in FreeColumns(w),
         NEW u, u = CreateColumn(w, v, i, col), NEW s, Shown(w, s)
  PROVE  Shown(u, s)
<1> DEFINE x == InsertColumn(w, v, i, col)
           y == IF w.selected_column[v] = None THEN SelectColumn(x, v, col) ELSE x
<1>0. v \in Views
  BY DEF WellFormed, WellLinked, Graph
<1>1. u = ScheduleView(y, v)
  BY DEF CreateColumn, InsertColumn
<1>1a. x = InsertColumn(w, v, i, col)
  OBVIOUS
<1> HIDE DEF x
<1>3. /\ OnScreenBut(x, s, {v}, {}, {}) /\ Focused(x, s)
      /\ WellLinked(x) /\ col \in ColumnsOf(x, v)
      /\ w.selected_column[v] = None => NothingDangles(x)
  BY <1>1a, InsertedColumnKeeps
<1>4. x \in Graph
  BY <1>3 DEF WellLinked
<1>5. y \in Graph /\ OnScreenBut(y, s, {v}, {}, {}) /\ Focused(y, s)
  <2>1. CASE w.selected_column[v] = None
    <3>1. y = SelectColumn(x, v, col) /\ NothingDangles(x) /\ col \in OrNone(ColumnsOf(x, v))
      BY <1>3, <2>1 DEF OrNone
    <3>2. WellLinked(x)
      BY <1>3
    <3> HIDE DEF y
    <3>3. Reselects(x, y)
      BY <1>0, <3>1, <3>2, SelectColumnReselects
    <3>4. QED BY <1>3, <1>4, <3>3, RestylesOnScreen, ReselectsFocused DEF Reselects, Restyles
  <2>2. CASE w.selected_column[v] # None
    BY <1>3, <1>4, <2>2
  <2>3. QED BY <2>1, <2>2
<1> HIDE DEF y
<1>6. Asks(y, u) /\ v \in u.todo_views
  BY <1>0, <1>1, <1>5, ViewAsked
<1>7. OnScreen(u, s)
  BY <1>5, <1>6, AsksForExceptions
<1>8. Focused(u, s)
  BY <1>5, <1>6, AsksRestyles, ReselectsFocused
<1>9. QED BY <1>7, <1>8 DEF Shown
\* What had to be updated still has, whatever more there is.
LEMMA MoreUpdates ==
  ASSUME NEW w, NEW u, u.column_of = w.column_of,
         \A c \in Clients : w.todo_clients[c] \subseteq u.todo_clients[c],
         \A f \in LiveFrames(w) : LaidOut(w, w.column_of[f]) => LaidOut(u, w.column_of[f])
  PROVE  \A c \in Clients : Updating(w, c) => Updating(u, c)
BY DEF Updating, FramesOf, LiveFrames

\* Views without columns come and go unseen.
LEMMA BareViewsKeep ==
  ASSUME NEW w, WellLinked(w), NEW u, SameLinks(w, u), u.selected_view = w.selected_view,
         u.selected_column = w.selected_column, u.selected_frame = w.selected_frame,
         u.shaded = w.shaded, u.decorated = w.decorated,
         u.todo_columns = w.todo_columns, u.todo_clients = w.todo_clients,
         u.todo_root = w.todo_root,
         \A z \in Views : ColumnsOf(w, z) # {} => /\ z \in u.bar_visible <=> z \in w.bar_visible
                                                  /\ z \in u.todo_views <=> z \in w.todo_views
  PROVE  KeepsColumns(w, u, {}) /\ KeepsFrames(w, u, {}) /\ KeepsRecent(w, u, {}) /\ KeepsClients(w, u, {})
<1>0. w \in Graph
  BY DEF WellLinked
<1>1. \A c \in Columns :
        w.view_of[c] # None => /\ w.view_of[c] \in Views
                               /\ w.view_of[c] \in u.bar_visible <=> w.view_of[c] \in w.bar_visible
                               /\ w.view_of[c] \in u.todo_views <=> w.view_of[c] \in w.todo_views
  BY <1>0 DEF Graph, OrNone, ColumnsOf
<1>2. \A c \in Columns : w.view_of[c] # None => (LaidOut(u, c) <=> LaidOut(w, c))
  BY <1>1 DEF LaidOut, SameLinks
<1>3. \A f \in LiveFrames(w) : LaidOut(u, w.column_of[f]) <=> LaidOut(w, w.column_of[f])
  BY <1>2, FramesPlace
<1>4. LiveFrames(u) = LiveFrames(w) /\ \A c : FramesOf(u, c) = FramesOf(w, c)
  BY DEF SameLinks, LiveFrames, FramesOf
<1>5. KeepsColumns(w, u, {})
  BY <1>1 DEF KeepsColumns, ColumnBounds, SameLinks
<1>6. KeepsFrames(w, u, {})
  BY <1>3, <1>4 DEF KeepsFrames, FrameBounds, SameLinks
<1>7. KeepsRecent(w, u, {})
  <2>1. \A c \in Columns : w.frames[c] # <<>> => w.view_of[c] # None
    BY ListedFrames, NoneIsNeither
  <2>2. QED BY <1>2, <2>1 DEF KeepsRecent, SameLinks
<1>8. KeepsClients(w, u, {})
  <2>1. \A c \in Clients : Updating(u, c) <=> Updating(w, c)
    BY <1>3, SameUpdates DEF SameLinks
  <2>2. \A c : VisibleFrame(u, c) = VisibleFrame(w, c)
    BY DEF VisibleFrame, HasFrame, SameLinks
  <2>3. \A f, b : Contents(u, f, b) = Contents(w, f, b)
    BY <1>4 DEF Contents, StyleClass, SameLinks
  <2>4. QED BY <2>1, <2>2, <2>3 DEF KeepsClients, KeepsContents
<1>9. QED BY <1>5, <1>6, <1>7, <1>8

\* They leave the screen and the keyboard as they are.
LEMMA BareViewsShown ==
  ASSUME NEW w, WellLinked(w), NEW u, SameLinks(w, u), u.selected_view = w.selected_view,
         u.selected_column = w.selected_column, u.selected_frame = w.selected_frame,
         u.shaded = w.shaded, u.decorated = w.decorated,
         u.todo_columns = w.todo_columns, u.todo_clients = w.todo_clients,
         u.todo_root = w.todo_root,
         \A z \in Views : ColumnsOf(w, z) # {} => /\ z \in u.bar_visible <=> z \in w.bar_visible
                                                  /\ z \in u.todo_views <=> z \in w.todo_views,
         NEW s, Shown(w, s)
  PROVE  Shown(u, s)
<1>1. w \in Graph
  BY DEF WellLinked
<1>2. KeepsColumns(w, u, {}) /\ KeepsFrames(w, u, {}) /\ KeepsRecent(w, u, {}) /\ KeepsClients(w, u, {})
  BY BareViewsKeep
<1>3. Focused(u, s)
  BY <1>1, SameSelectedFrame, StaysFocused DEF Shown
<1>4. QED BY <1>1, <1>2, <1>3, KeepsOnScreen DEF Shown, OnScreen

\* ~WView of a view without columns.
LEMMA DeleteViewKeeps ==
  ASSUME NEW w, WellLinked(w), NEW v \in Views, ColumnsOf(w, v) = {},
         NEW u, u = DeleteView(w, v)
  PROVE  /\ KeepsColumns(w, u, {}) /\ KeepsFrames(w, u, {})
         /\ KeepsRecent(w, u, {}) /\ KeepsClients(w, u, {})
         /\ u.shaded = w.shaded
         /\ u.todo_clients = w.todo_clients /\ u.todo_root = w.todo_root
         /\ SelectedFrame(u) = SelectedFrame(w)
<1>0. w \in Graph
  BY DEF WellLinked
<1>1. /\ SameLinks(w, u) /\ u.selected_view = w.selected_view
      /\ u.selected_column = w.selected_column /\ u.selected_frame = w.selected_frame
      /\ u.shaded = w.shaded /\ u.decorated = w.decorated
      /\ u.todo_columns = w.todo_columns /\ u.todo_clients = w.todo_clients
      /\ u.todo_root = w.todo_root
      /\ u.bar_visible = w.bar_visible \ {v} /\ u.todo_views = w.todo_views \ {v}
  BY <1>0 DEF Graph, SameLinks, DeleteView
<1>2. \A z \in Views : ColumnsOf(w, z) # {} => /\ z \in u.bar_visible <=> z \in w.bar_visible
                                               /\ z \in u.todo_views <=> z \in w.todo_views
  BY <1>1
<1>3. KeepsColumns(w, u, {}) /\ KeepsFrames(w, u, {}) /\ KeepsRecent(w, u, {}) /\ KeepsClients(w, u, {})
  BY <1>1, <1>2, BareViewsKeep
<1>4. QED BY <1>1, <1>3, SameSelectedFrame

\* Nothing of it is seen.
LEMMA DeleteViewShown ==
  ASSUME NEW w, WellLinked(w), NEW v \in Views, ColumnsOf(w, v) = {},
         NEW u, u = DeleteView(w, v), NEW s, Shown(w, s)
  PROVE  Shown(u, s)
<1>1. w \in Graph
  BY DEF WellLinked
<1>2. /\ KeepsColumns(w, u, {}) /\ KeepsFrames(w, u, {})
      /\ KeepsRecent(w, u, {}) /\ KeepsClients(w, u, {})
      /\ u.shaded = w.shaded
      /\ u.todo_clients = w.todo_clients /\ u.todo_root = w.todo_root
      /\ SelectedFrame(u) = SelectedFrame(w)
  BY DeleteViewKeeps
<1>3. Focused(u, s)
  BY <1>1, <1>2, StaysFocused DEF Shown
<1>4. QED BY <1>1, <1>2, <1>3, KeepsOnScreen DEF Shown, OnScreen

\* WM::get_or_create_view.
LEMMA GetOrCreateViewShown ==
  ASSUME NEW w, WellLinked(w), NEW v \in Views,
         NEW u, u = GetOrCreateView(w, v), NEW s, Shown(w, s)
  PROVE  Shown(u, s)
<1>0. w \in Graph
  BY DEF WellLinked
<1>1. CASE v \in w.views
  BY <1>1 DEF GetOrCreateView
<1>2. CASE v \notin w.views
  <2>1. /\ SameLinks(w, u) /\ u.selected_view = w.selected_view
        /\ u.selected_column = w.selected_column /\ u.selected_frame = w.selected_frame
        /\ u.shaded = w.shaded /\ u.decorated = w.decorated
        /\ u.todo_columns = w.todo_columns /\ u.todo_clients = w.todo_clients
        /\ u.todo_root = w.todo_root
        /\ u.bar_visible = w.bar_visible \cup {v} /\ u.todo_views = w.todo_views
    BY <1>0, <1>2 DEF Graph, SameLinks, GetOrCreateView, NewView
  <2>2. ColumnsOf(w, v) = {}
    BY <1>2 DEF WellLinked, Tree
  <2>3. \A z \in Views : ColumnsOf(w, z) # {} => /\ z \in u.bar_visible <=> z \in w.bar_visible
                                                 /\ z \in u.todo_views <=> z \in w.todo_views
    BY <2>1, <2>2
  <2>4. QED BY <2>1, <2>3, BareViewsShown
<1>3. QED BY <1>1, <1>2

\* What ~WColumn selects instead of the column.
LEMMA LeaveColumnShown ==
  ASSUME NEW w, WellFormed(w), NEW col \in Columns, w.view_of[col] # None,
         NEW l, l = LeaveColumn(w, col), NEW s, Shown(w, s)
  PROVE  Shown(l, s)
<1> DEFINE v == w.view_of[col]
           n == Neighbour(w.columns[v], col)
<1>0. w \in Graph /\ WellLinked(w) /\ NothingDangles(w) /\ v \in Views
  BY SelectionDoesNotDangle DEF WellFormed, WellLinked, Graph, OrNone
<1>1. l = IF col = w.selected_column[v] THEN SelectColumn(w, v, n) ELSE w
  BY DEF LeaveColumn
<1>2. n \in OrNone(ColumnsOf(w, v))
  <2>1. /\ w.columns[v] \in Seq(Columns) /\ Enumerates(w.columns[v], ColumnsOf(w, v))
        /\ col \in ColumnsOf(w, v)
    BY <1>0 DEF WellLinked, Graph, Tree, ColumnsOf
  <2>2. Selects(n, ColumnsOf(w, v) \ {col})
    BY <2>1, NeighbourProperties
  <2>3. QED BY <2>2 DEF Selects, OrNone
<1> HIDE DEF n, v
<1>3. CASE col = w.selected_column[v]
  <2>1. l = SelectColumn(w, v, n)
    BY <1>1, <1>3
  <2>2. Reselects(w, l)
    BY <1>0, <1>2, <2>1, SelectColumnReselects
  <2>3. QED BY <1>0, <2>2, ReselectsShown
<1>4. CASE col # w.selected_column[v]
  BY <1>1, <1>4
<1>5. QED BY <1>3, <1>4

\* What is without a column lays out the view that had it, and has lost nothing
\* else the screen shows.
LEMMA UnlinkedColumnShown ==
  ASSUME NEW l \in Graph, NEW x \in Graph, WellLinked(x),
         NEW col \in Columns, NEW v \in Views,
         SameFrames(l, x), SameViews(l, x), SameLook(l, x),
         x.column_activity = l.column_activity,
         x.selected_column = l.selected_column, x.selected_frame = l.selected_frame,
         x.todo_clients = l.todo_clients, x.todo_root = l.todo_root,
         x.todo_columns = l.todo_columns \ {col}, x.todo_views = l.todo_views \cup {v},
         \A c \in Columns : c # col => x.view_of[c] = l.view_of[c],
         x.view_of[col] = None,
         \A z \in Views : z # v => x.columns[z] = l.columns[z],
         NEW s, Shown(l, s)
  PROVE  Shown(x, s)
<1>1. LiveFrames(x) = LiveFrames(l) /\ \A c : FramesOf(x, c) = FramesOf(l, c)
  BY DEF SameFrames, LiveFrames, FramesOf
<1>2. \A c \in Columns : c # col /\ LaidOut(l, c) => LaidOut(x, c)
  BY DEF LaidOut
<1>3. \A f \in LiveFrames(x) : x.column_of[f] \in Columns \ {col}
  BY FramesPlace
<1>4. KeepsColumns(l, x, {})
  <2>1. ASSUME NEW c \in Columns, x.view_of[c] \notin {None} \cup x.todo_views
        PROVE  /\ l.view_of[c] \notin {None} \cup l.todo_views
               /\ ColumnBounds(x, c) = ColumnBounds(l, c)
    <3>1. x.view_of[c] = l.view_of[c] /\ l.view_of[c] \in Views /\ l.view_of[c] # v
      BY <2>1 DEF Graph, OrNone
    <3>2. l.view_of[c] \notin {None} \cup l.todo_views
      BY <2>1, <3>1
    <3>3. x.columns[l.view_of[c]] = l.columns[l.view_of[c]] /\ x.bar_visible = l.bar_visible
      BY <3>1 DEF SameLook
    <3>4. ColumnBounds(x, c) = ColumnBounds(l, c)
      BY <3>1, <3>3 DEF ColumnBounds
    <3>5. QED BY <3>2, <3>4
  <2>2. QED BY <2>1 DEF KeepsColumns
<1>5. KeepsFrames(l, x, {})
  BY <1>1, <1>2, <1>3 DEF KeepsFrames, FrameBounds, SameFrames, SameLook
<1>6. KeepsRecent(l, x, {})
  <2>1. \A c \in Columns : x.frames[c] # <<>> => c # col
    BY ListedFrames, NoneIsNeither
  <2>2. QED BY <1>2, <2>1 DEF KeepsRecent, SameFrames, SameLook
<1>7. KeepsClients(l, x, {})
  <2>1. \A c \in Clients : Updating(l, c) => Updating(x, c)
    BY <1>1, <1>2, <1>3, MoreUpdates DEF SameFrames
  <2>2. \A c : VisibleFrame(x, c) = VisibleFrame(l, c)
    BY DEF VisibleFrame, HasFrame, SameViews, SameFrames
  <2>3. \A f, b : Contents(x, f, b) = Contents(l, f, b)
    BY <1>1 DEF Contents, StyleClass, SameFrames
  <2>4. QED BY <2>1, <2>2, <2>3 DEF KeepsClients, KeepsContents, SameLook
<1>8. Focused(x, s)
  <2>1. SelectedFrame(x) = SelectedFrame(l)
    BY SameSelectedFrame DEF SameViews
  <2>2. Focused(l, s)
    BY DEF Shown
  <2>3. QED BY <2>1, <2>2, StaysFocused DEF SameLook
<1>9. QED BY <1>4, <1>5, <1>6, <1>7, <1>8, KeepsOnScreen DEF Shown, OnScreen

\* A column without frames leaves the screen with its view laid out again.
LEMMA ErasedColumnShown ==
  ASSUME NEW w, WellFormed(w), NEW col \in Columns, w.view_of[col] # None,
         FramesIn(w, col) = {},
         NEW l, l = LeaveColumn(w, col),
         NEW x, x = EraseColumn(l, w.view_of[col], Position(w.columns[w.view_of[col]], col), col),
         NEW s, Shown(w, s)
  PROVE  Shown(x, s)
<1> DEFINE v == w.view_of[col]
           i == Position(w.columns[v], col)
<1>0. /\ w \in Graph /\ v \in Views
      /\ x = EraseColumn(l, v, i, col)
  BY DEF WellFormed, WellLinked, Graph, OrNone
<1>1. /\ WellFormed(x)
      /\ l \in Graph /\ SameLinks(w, l) /\ SameViews(w, l)
      /\ x.columns = [w.columns EXCEPT ![w.view_of[col]] =
                        RemoveAt(w.columns[w.view_of[col]],
                                 Position(w.columns[w.view_of[col]], col))]
      /\ x.view_of = [w.view_of EXCEPT ![col] = None]
      /\ SameViews(w, x) /\ SameFrames(w, x)
      /\ x.selected_column = l.selected_column /\ x.selected_frame = l.selected_frame
      /\ x.column_activity = w.column_activity
  BY ErasedColumn
<1>2. Shown(l, s)
  BY LeaveColumnShown
<1>3. /\ SameLook(l, x) /\ x.todo_clients = l.todo_clients /\ x.todo_root = l.todo_root
      /\ x.todo_columns = l.todo_columns \ {col} /\ x.todo_views = l.todo_views \cup {v}
  <2> DEFINE a == [l.columns EXCEPT ![v] = RemoveAt(@, i)]
             b == [l.view_of EXCEPT ![col] = None]
             c == l.todo_columns \ {col}
             d == l.todo_views \cup {v}
  <2>1. x = [l EXCEPT !.columns = a, !.view_of = b, !.todo_columns = c, !.todo_views = d]
    BY <1>0 DEF EraseColumn
  <2>2. l \in Graph /\ c = l.todo_columns \ {col} /\ d = l.todo_views \cup {v}
    BY <1>1
  <2> HIDE DEF a, b, c, d
  <2>3. QED BY <2>1, <2>2 DEF Graph, SameLook
<1>4. /\ \A c \in Columns : c # col => x.view_of[c] = l.view_of[c]
      /\ x.view_of[col] = None
      /\ \A z \in Views : z # v => x.columns[z] = l.columns[z]
  <2>1. /\ w.columns \in [Views -> Seq(Columns)] /\ w.view_of \in [Columns -> OrNone(Views)]
        /\ l.columns = w.columns /\ l.view_of = w.view_of
    BY <1>0, <1>1 DEF Graph, SameLinks
  <2>2. PICK list : x.columns = [w.columns EXCEPT ![v] = list]
    BY <1>1
  <2>3. x.view_of = [w.view_of EXCEPT ![col] = None]
    BY <1>1
  <2> HIDE DEF v, i
  <2>4. /\ \A c \in Columns : c # col => x.view_of[c] = l.view_of[c]
        /\ x.view_of[col] = None
    BY <2>1, <2>3
  <2>5. \A z \in Views : z # v => x.columns[z] = l.columns[z]
    BY <2>1, <2>2
  <2>6. QED BY <2>4, <2>5
<1> HIDE DEF v, i
<1>5. /\ SameFrames(l, x) /\ x.column_activity = l.column_activity /\ SameViews(l, x)
      /\ x.selected_column = l.selected_column /\ x.selected_frame = l.selected_frame
      /\ WellLinked(x) /\ x \in Graph /\ l \in Graph
  BY <1>1 DEF SameLinks, SameViews, SameFrames, WellFormed, WellLinked
<1>6. QED BY <1>0, <1>2, <1>3, <1>4, <1>5, UnlinkedColumnShown

\* ~WColumn of a column without frames.
LEMMA DeleteColumnShown ==
  ASSUME NEW w, WellFormed(w), NEW col \in Columns, w.view_of[col] # None,
         FramesIn(w, col) = {},
         NEW u, u = DeleteColumn(w, col), NEW s, Shown(w, s)
  PROVE  Shown(u, s)
<1> DEFINE v == w.view_of[col]
           l == LeaveColumn(w, col)
           x == EraseColumn(l, v, Position(w.columns[v], col), col)
<1>0. v \in Views
  BY DEF WellFormed, WellLinked, Graph, OrNone
<1>1. u = IF x.columns[v] = <<>> /\ v # x.selected_view THEN DeleteView(x, v) ELSE x
  BY ZenonT(60) DEF DeleteColumn, LeaveColumn, EraseColumn, Neighbour
<1>2. /\ l = LeaveColumn(w, col)
      /\ x = EraseColumn(l, w.view_of[col], Position(w.columns[w.view_of[col]], col), col)
  OBVIOUS
<1> HIDE DEF l, x
<1>3. /\ WellFormed(x)
      /\ l \in Graph /\ SameLinks(w, l) /\ SameViews(w, l)
      /\ x.columns = [w.columns EXCEPT ![w.view_of[col]] =
                        RemoveAt(w.columns[w.view_of[col]],
                                 Position(w.columns[w.view_of[col]], col))]
      /\ x.view_of = [w.view_of EXCEPT ![col] = None]
      /\ SameViews(w, x) /\ SameFrames(w, x)
      /\ x.selected_column = l.selected_column /\ x.selected_frame = l.selected_frame
      /\ x.column_activity = w.column_activity
  BY <1>2, ErasedColumn
<1>4. Shown(x, s)
  BY <1>2, ErasedColumnShown
<1> HIDE DEF v
<1>5. CASE x.columns[v] = <<>> /\ v # x.selected_view
  <2>1. WellLinked(x)
    BY <1>3 DEF WellFormed
  <2>2. ColumnsOf(x, v) = {}
    BY <1>0, <1>5, <2>1, NoColumns
  <2>3. u = DeleteView(x, v)
    BY <1>1, <1>5
  <2>4. QED BY <1>0, <1>4, <2>1, <2>2, <2>3, DeleteViewShown
<1>6. CASE ~(x.columns[v] = <<>> /\ v # x.selected_view)
  BY <1>1, <1>4, <1>6
<1>7. QED BY <1>5, <1>6

\* x is w with f inserted in col: it is to be laid out with its column, and its
\* client to be updated.
InsertedShown(w, f, col, x, s) ==
  /\ OnScreenBut(x, s, {}, {col}, {ClientOf(f)}) /\ Focused(x, s)
  /\ WellLinked(x) /\ x.column_of[f] = col
  /\ w.selected_frame[col] = None => NothingDangles(x)

\* A frame that was inserted is laid out with its column, and its client updated.
LEMMA InsertedFrameKeeps ==
  ASSUME NEW w, WellFormed(w), NEW f \in Frames \ LiveFrames(w),
         NEW col \in Columns, w.view_of[col] = ViewOf(f),
         NEW i \in 1..(Len(w.frames[col]) + 1),
         NEW x, x = InsertFrame(w, f, col, i), NEW s, Shown(w, s)
  PROVE  InsertedShown(w, f, col, x, s)
<1>0. w \in Graph /\ WellLinked(w) /\ w.column_of[f] = None /\ f \in Frames
  BY DEF WellFormed, WellLinked, LiveFrames
<1>1. /\ WellLinked(x)
      /\ x.column_of = [w.column_of EXCEPT ![f] = col]
      /\ x.frames = [w.frames EXCEPT ![col] = InsertAt(w.frames[col], i, f)]
      /\ x.column_activity = [w.column_activity EXCEPT ![col] = <<f>> \o w.column_activity[col]]
      /\ SameViews(w, x) /\ x.marked = w.marked
      /\ x.columns = w.columns /\ x.view_of = w.view_of
      /\ x.selected_column = w.selected_column /\ x.selected_frame = w.selected_frame
      /\ FramesIn(x, col) = FramesIn(w, col) \cup {f}
      /\ \A z \in Views : Selects(x.selected_column[z], ColumnsOf(x, z))
      /\ \A c \in Columns \ {col} : Selects(x.selected_frame[c], FramesIn(x, c))
      /\ x.selected_view \in OrNone(x.views)
      /\ Selects(w.selected_frame[col], FramesIn(w, col))
      /\ w.selected_frame[col] = None => NothingDangles(x)
  BY InsertedFrame
<1>2. SameLook(w, x) /\ SameTasks(w, x)
  BY <1>0 DEF InsertFrame, Graph, SameLook, SameTasks
<1>3. /\ \A g \in Frames : g # f => x.column_of[g] = w.column_of[g]
      /\ x.column_of[f] = col
      /\ \A c \in Columns : c # col => /\ x.frames[c] = w.frames[c]
                                       /\ x.column_activity[c] = w.column_activity[c]
  BY <1>0, <1>1 DEF Graph
<1>4. LiveFrames(x) = LiveFrames(w) \cup {f}
  BY <1>0, <1>3, NoneIsNeither DEF LiveFrames
<1>5. \A c : LaidOut(x, c) <=> LaidOut(w, c)
  BY <1>1, <1>2 DEF LaidOut, SameTasks
<1>6. KeepsColumns(w, x, {})
  BY <1>1, <1>2 DEF KeepsColumns, ColumnBounds, SameTasks, SameLook
<1>7. KeepsFrames(w, x, {col})
  <2>1. ASSUME NEW g \in LiveFrames(x), x.column_of[g] \notin {col}
        PROVE  /\ g \in LiveFrames(w) /\ w.column_of[g] = x.column_of[g]
               /\ x.frames[x.column_of[g]] = w.frames[x.column_of[g]]
    <3>1. g # f
      BY <1>3, <2>1
    <3>2. x.column_of[g] \in Columns
      BY <1>1, FramesPlace
    <3>3. QED BY <1>3, <1>4, <2>1, <3>1, <3>2 DEF LiveFrames
  <2>2. QED BY ZenonT(60), <1>2, <1>5, <2>1 DEF KeepsFrames, FrameBounds, SameLook
<1>8. KeepsRecent(w, x, {col})
  BY <1>2, <1>3, <1>5 DEF KeepsRecent, SameLook
<1>9. KeepsClients(w, x, {ClientOf(f)})
  <2>1. ASSUME NEW c \in Clients \ {ClientOf(f)}
        PROVE  /\ FramesOf(x, c) = FramesOf(w, c)
               /\ \A g \in FramesOf(w, c) : x.column_of[g] = w.column_of[g]
               /\ VisibleFrame(x, c) = VisibleFrame(w, c)
    <3>1. FramesOf(x, c) = FramesOf(w, c)
      BY <1>4, <2>1 DEF FramesOf
    <3>2. \A g \in FramesOf(w, c) : x.column_of[g] = w.column_of[g]
      BY <1>3, <2>1 DEF FramesOf, LiveFrames
    <3>3. \A z \in Views : x.column_of[<<c, z>>] = w.column_of[<<c, z>>]
      BY <1>3, <2>1, PairIsFrame
    <3>4. w.selected_view \in OrNone(Views) /\ x.selected_view = w.selected_view
      BY <1>0, <1>1 DEF Graph, SameViews
    <3>5. VisibleFrame(x, c) = VisibleFrame(w, c)
      BY <3>3, <3>4 DEF VisibleFrame, HasFrame, OrNone
    <3>6. QED BY <3>1, <3>2, <3>5
  <2>2. ASSUME NEW c \in Clients \ {ClientOf(f)}
        PROVE  Updating(x, c) <=> Updating(w, c)
    BY <1>2, <1>5, <2>1 DEF Updating, SameTasks
  <2>3. ASSUME NEW c \in Clients \ {ClientOf(f)}, VisibleFrame(w, c) # None
        PROVE  KeepsContents(w, x, VisibleFrame(w, c))
    <3> DEFINE g == VisibleFrame(w, c)
    <3>1. g \in FramesOf(w, c) /\ ClientOf(g) = c
      BY <1>0, <2>3, VisibleFrameTyped
    <3> HIDE DEF g
    <3>2. x.column_of[g] = w.column_of[g] /\ FramesOf(x, ClientOf(g)) = FramesOf(w, ClientOf(g))
      BY <2>1, <3>1
    <3>3. \A b : Contents(x, g, b) = Contents(w, g, b)
      BY <1>1, <3>2 DEF Contents, StyleClass
    <3>4. KeepsContents(w, x, g)
      BY <1>2, <3>3 DEF KeepsContents, SameTasks, SameLook
    <3>5. QED BY <3>4 DEF g
  <2>4. QED BY <2>1, <2>2, <2>3 DEF KeepsClients
<1>10. OnScreenBut(x, s, {}, {col}, {ClientOf(f)})
  BY <1>0, <1>6, <1>7, <1>8, <1>9, KeepsOnScreen DEF Shown
<1>11. Focused(x, s)
  <2>1. SelectedFrame(x) = SelectedFrame(w)
    BY <1>1, SameSelectedFrame DEF SameViews
  <2>2. QED BY <1>0, <1>2, <2>1, StaysFocused DEF Shown, SameTasks, SameLook
<1>12. QED BY <1>1, <1>3, <1>10, <1>11 DEF InsertedShown

\* WColumn::add_frame.
LEMMA AddFrameShown ==
  ASSUME NEW w, WellFormed(w), NEW f \in Frames \ LiveFrames(w),
         NEW col \in Columns, w.view_of[col] = ViewOf(f),
         NEW i \in 1..(Len(w.frames[col]) + 1),
         NEW u, u = AddFrame(w, f, col, i), NEW s, Shown(w, s)
  PROVE  Shown(u, s)
<1> DEFINE x == InsertFrame(w, f, col, i)
           y == IF w.selected_frame[col] = None THEN SelectFrameInColumn(x, col, f) ELSE x
<1>1. u = ScheduleColumn(y, col)
  BY DEF AddFrame, InsertFrame
<1>2. x = InsertFrame(w, f, col, i)
  OBVIOUS
<1> HIDE DEF x
<1>3. /\ OnScreenBut(x, s, {}, {col}, {ClientOf(f)}) /\ Focused(x, s)
      /\ WellLinked(x) /\ x.column_of[f] = col
      /\ w.selected_frame[col] = None => NothingDangles(x)
  <2> HIDE DEF y
  <2>1. InsertedShown(w, f, col, x, s)
    BY <1>2, InsertedFrameKeeps
  <2>2. QED BY <2>1 DEF InsertedShown
<1>4. x \in Graph
  BY <1>3 DEF WellLinked
<1>5. /\ y \in Graph /\ OnScreenBut(y, s, {}, {col}, {ClientOf(f)}) /\ Focused(y, s)
      /\ y.column_of = x.column_of
  <2>1. CASE w.selected_frame[col] = None
    <3>1. y = SelectFrameInColumn(x, col, f) /\ NothingDangles(x) /\ f \in OrNone(Frames)
      BY <1>3, <2>1 DEF OrNone
    <3>2. WellLinked(x)
      BY <1>3
    <3> HIDE DEF y
    <3>3. Reselects(x, y)
      BY <3>1, <3>2, SelectFrameInColumnReselects
    <3>4. y.column_of = x.column_of /\ y \in Graph
      BY <3>3 DEF Reselects, Restyles, SameLinks
    <3>5. QED BY <1>3, <1>4, <3>3, <3>4, RestylesOnScreen, ReselectsFocused DEF Reselects
  <2>2. CASE w.selected_frame[col] # None
    BY <1>3, <1>4, <2>2
  <2>3. QED BY <2>1, <2>2
<1> HIDE DEF y
<1>6. Asks(y, u) /\ col \in u.todo_columns
  BY <1>1, <1>5, ColumnAsked
<1>7. Updating(u, ClientOf(f))
  <2>1. u.column_of[f] = col
    BY <1>3, <1>5, <1>6 DEF Asks, Schedules, SameLinks
  <2>2. f \in FramesOf(u, ClientOf(f))
    BY <2>1, NoneIsNeither DEF FramesOf, LiveFrames
  <2>3. QED BY <1>6, <2>1, <2>2 DEF Updating, LaidOut
<1>8. OnScreen(u, s)
  <2>1. LaidOut(u, col)
    BY <1>6 DEF LaidOut
  <2>2. QED BY <1>5, <1>6, <1>7, <2>1, AsksForExceptions
<1>9. Focused(u, s)
  BY <1>5, <1>6, AsksRestyles, ReselectsFocused
<1>10. QED BY <1>8, <1>9 DEF Shown

\* add_frame just after the selected frame.
LEMMA AddFrameAfterSelectedShown ==
  ASSUME NEW w, WellFormed(w), NEW f \in Frames \ LiveFrames(w),
         NEW col \in Columns, w.view_of[col] = ViewOf(f),
         NEW u, u = AddFrameAfterSelected(w, f, col), NEW s, Shown(w, s)
  PROVE  Shown(u, s)
<1> DEFINE i == After(w.frames[col], w.selected_frame[col])
<1>1. /\ w.frames[col] \in Seq(Frames) /\ Enumerates(w.frames[col], FramesIn(w, col))
      /\ Selects(w.selected_frame[col], FramesIn(w, col))
  BY DEF WellFormed, WellLinked, Graph, Tree, Selection
<1>2. i \in 1..(Len(w.frames[col]) + 1)
  BY <1>1, AfterProperties, NoneIsNeither
<1>3. u = AddFrame(w, f, col, i)
  BY DEF AddFrameAfterSelected
<1> HIDE DEF i
<1>4. QED BY <1>2, <1>3, AddFrameShown

\* What WFrame::remove selects instead of the frame.
LEMMA LeaveFrameShown ==
  ASSUME NEW w, WellFormed(w), NEW f \in LiveFrames(w),
         NEW l, l = LeaveFrame(w, f), NEW s, Shown(w, s)
  PROVE  Shown(l, s)
<1> DEFINE col == w.column_of[f]
           succ == Successor(w.column_activity[col], f)
<1>0. w \in Graph /\ WellLinked(w) /\ NothingDangles(w) /\ col \in Columns /\ f \in FramesIn(w, col)
  BY SelectionDoesNotDangle, FramesPlace DEF WellFormed, WellLinked, FramesIn
<1>1. l = IF w.selected_frame[col] = f THEN SelectFrameInColumn(w, col, succ) ELSE w
  BY DEF LeaveFrame
<1>2. succ \in OrNone(Frames)
  <2>1. w.column_activity[col] \in Seq(Frames) /\ Enumerates(w.column_activity[col], FramesIn(w, col))
    BY <1>0 DEF WellLinked, Graph, Histories
  <2>2. Selects(succ, FramesIn(w, col) \ {f})
    BY <1>0, <2>1, SuccessorProperties
  <2>3. QED BY <2>2 DEF Selects, OrNone, FramesIn
<1> HIDE DEF succ, col
<1>3. CASE w.selected_frame[col] = f
  <2>1. l = SelectFrameInColumn(w, col, succ)
    BY <1>1, <1>3
  <2>2. Reselects(w, l)
    BY <1>0, <1>2, <2>1, SelectFrameInColumnReselects
  <2>3. QED BY <1>0, <2>2, ReselectsShown
<1>4. CASE w.selected_frame[col] # f
  BY <1>1, <1>4
<1>5. QED BY <1>3, <1>4

\* A frame leaves the screen, its column to be laid out and its client updated.
LEMMA ErasedFrameShown ==
  ASSUME NEW w, WellFormed(w), NEW f \in LiveFrames(w),
         NEW l, l = LeaveFrame(w, f),
         NEW d, d = AskForErased(l, f, w.column_of[f]),
         NEW x, x = EraseFrame(d, f, w.column_of[f]),
         NEW s, Shown(w, s)
  PROVE  Shown(x, s)
<1> DEFINE col == w.column_of[f]
           k == ScheduleTask(l, ClientOf(f), "update_server")
<1>0. w \in Graph /\ WellLinked(w) /\ f \in Frames /\ ClientOf(f) \in Clients /\ col \in Columns
  BY FramesPlace DEF WellFormed, WellLinked
<1>1. /\ WellFormed(x)
      /\ l \in Graph /\ SameLinks(w, l) /\ SameViews(w, l)
      /\ Schedules(l, d)
      /\ x.column_of = [w.column_of EXCEPT ![f] = None]
      /\ x.frames = [w.frames EXCEPT ![w.column_of[f]] = Erase(w.frames[w.column_of[f]], f)]
      /\ x.column_activity = [w.column_activity EXCEPT ![w.column_of[f]] =
                                Erase(w.column_activity[w.column_of[f]], f)]
      /\ SameViews(w, x) /\ x.marked = w.marked
      /\ x.columns = w.columns /\ x.view_of = w.view_of
      /\ x.selected_column = w.selected_column /\ x.selected_frame = l.selected_frame
  BY ErasedFrame
<1>2. Shown(l, s)
  BY LeaveFrameShown
<1>3. d = ScheduleColumn(k, col)
  BY DEF AskForErased
<1>4. Asks(l, k) /\ "update_server" \in k.todo_clients[ClientOf(f)]
  BY <1>0, <1>1, TaskAsked DEF Tasks
<1> HIDE DEF k
<1>5. Asks(k, d) /\ col \in d.todo_columns
  BY <1>0, <1>3, <1>4, ColumnAsked DEF Asks, Schedules
<1>6. Asks(l, d) /\ "update_server" \in d.todo_clients[ClientOf(f)]
  BY <1>0, <1>4, <1>5, AsksTwice DEF Asks, MoreTasks
<1>7. Shown(d, s) /\ d \in Graph
  BY <1>1, <1>2, <1>6, AsksShown DEF Schedules
<1>8. /\ SameLook(d, x) /\ SameTasks(d, x)
      /\ x.selected_column = d.selected_column /\ x.selected_frame = d.selected_frame
      /\ x.selected_view = d.selected_view
  BY <1>7 DEF EraseFrame, Graph, SameLook, SameTasks
<1>9. /\ d.columns = x.columns /\ d.view_of = x.view_of /\ d.marked = x.marked
      /\ d.column_of = w.column_of /\ d.frames = w.frames /\ d.column_activity = w.column_activity
  BY <1>1 DEF Schedules, SameLinks
<1>10. /\ \A g \in Frames : g # f => x.column_of[g] = d.column_of[g]
       /\ x.column_of[f] = None /\ d.column_of[f] = col
       /\ \A c \in Columns : c # col => /\ x.frames[c] = d.frames[c]
                                        /\ x.column_activity[c] = d.column_activity[c]
  BY <1>0, <1>1, <1>9 DEF Graph
<1>11. /\ LiveFrames(x) \subseteq LiveFrames(d)
       /\ \A g \in LiveFrames(d) : g # f => g \in LiveFrames(x)
       /\ \A g \in LiveFrames(x) : g # f /\ g \in Frames
  BY <1>10 DEF LiveFrames
<1>12. \A c : LaidOut(x, c) <=> LaidOut(d, c)
  BY <1>8, <1>9 DEF LaidOut, SameTasks
<1>13. LaidOut(x, col)
  BY <1>5, <1>8 DEF LaidOut, SameTasks
<1>14. WellLinked(x) /\ WellLinked(d)
  <2>1. WellLinked(x)
    BY <1>1 DEF WellFormed
  <2>2. SameLinks(w, d) /\ SameViews(w, d)
    BY <1>1 DEF Schedules, SameLinks, SameViews
  <2>3. WellLinked(d)
    BY <1>0, <1>7, <2>2, SameLinksWellLinked DEF WellLinked, Tree, SameViews
  <2>4. QED BY <2>1, <2>3
<1> HIDE DEF col
<1>15. KeepsColumns(d, x, {})
  BY <1>8, <1>9 DEF KeepsColumns, ColumnBounds, SameTasks, SameLook
<1>16. KeepsFrames(d, x, {})
  <2>1. ASSUME NEW g \in LiveFrames(x), ~ LaidOut(x, x.column_of[g])
        PROVE  /\ g \in LiveFrames(d) /\ d.column_of[g] = x.column_of[g]
               /\ x.frames[x.column_of[g]] = d.frames[x.column_of[g]]
    <3>1. g \in LiveFrames(d) /\ d.column_of[g] = x.column_of[g]
      BY <1>10, <1>11, <2>1
    <3>2. x.column_of[g] \in Columns /\ x.column_of[g] # col
      BY <1>13, <1>14, <2>1, FramesPlace
    <3>3. QED BY <1>10, <3>1, <3>2
  <2>2. ASSUME NEW g \in LiveFrames(x), ~ LaidOut(x, x.column_of[g])
        PROVE  /\ ~ LaidOut(d, d.column_of[g])
               /\ \A across : FrameBounds(x, g, across) = FrameBounds(d, g, across)
    <3>1. d.column_of[g] = x.column_of[g] /\ x.frames[x.column_of[g]] = d.frames[x.column_of[g]]
      BY <2>1, <2>2
    <3>2. QED BY <1>8, <1>12, <2>2, <3>1 DEF FrameBounds, SameLook
  <2>3. QED BY <2>1, <2>2 DEF KeepsFrames
<1>17. KeepsRecent(d, x, {})
  BY <1>8, <1>10, <1>12, <1>13 DEF KeepsRecent, SameLook
<1>18. KeepsClients(d, x, {})
  <2>1. ASSUME NEW c \in Clients \ {ClientOf(f)}
        PROVE  /\ FramesOf(x, c) = FramesOf(d, c)
               /\ \A g \in FramesOf(d, c) : x.column_of[g] = d.column_of[g]
               /\ VisibleFrame(x, c) = VisibleFrame(d, c)
    <3>1. FramesOf(x, c) = FramesOf(d, c)
      BY <1>11, <2>1 DEF FramesOf
    <3>2. \A g \in FramesOf(d, c) : x.column_of[g] = d.column_of[g]
      BY <1>10, <2>1 DEF FramesOf, LiveFrames
    <3>3. \A z \in Views : x.column_of[<<c, z>>] = d.column_of[<<c, z>>]
      BY <1>10, <2>1, PairIsFrame
    <3>4. d.selected_view \in OrNone(Views) /\ x.selected_view = d.selected_view
      BY <1>7, <1>8 DEF Graph
    <3>5. VisibleFrame(x, c) = VisibleFrame(d, c)
      BY <3>3, <3>4 DEF VisibleFrame, HasFrame, OrNone
    <3>6. QED BY <3>1, <3>2, <3>5
  <2>2. ASSUME NEW c \in Clients, ~ Updating(x, c)
        PROVE  c # ClientOf(f)
    BY <1>6, <1>8, <2>2 DEF Updating, SameTasks
  <2>3. ASSUME NEW c \in Clients \ {ClientOf(f)}
        PROVE  Updating(x, c) <=> Updating(d, c)
    BY SMTT(60), <1>8, <1>12, <2>1 DEF Updating, SameTasks
  <2>4. ASSUME NEW c \in Clients \ {ClientOf(f)}, VisibleFrame(d, c) # None
        PROVE  KeepsContents(d, x, VisibleFrame(d, c))
    <3> DEFINE g == VisibleFrame(d, c)
    <3>1. g \in FramesOf(d, c) /\ ClientOf(g) = c
      BY <1>7, <2>4, VisibleFrameTyped
    <3> HIDE DEF g
    <3>2. x.column_of[g] = d.column_of[g] /\ FramesOf(x, ClientOf(g)) = FramesOf(d, ClientOf(g))
      BY <2>1, <3>1
    <3>3. \A b : Contents(x, g, b) = Contents(d, g, b)
      BY <1>8, <1>9, <3>2 DEF Contents, StyleClass
    <3>4. KeepsContents(d, x, g)
      BY <1>8, <3>3 DEF KeepsContents, SameTasks, SameLook
    <3>5. QED BY <3>4 DEF g
  <2>5. QED BY <2>1, <2>2, <2>3, <2>4 DEF KeepsClients
<1>19. Focused(x, s)
  <2>1. SelectedFrame(x) = SelectedFrame(d)
    BY <1>8, SameSelectedFrame
  <2>2. QED BY <1>7, <1>8, <2>1, StaysFocused DEF Shown, SameTasks, SameLook
<1>20. QED BY <1>7, <1>15, <1>16, <1>17, <1>18, <1>19, KeepsOnScreen DEF Shown, OnScreen

\* WFrame::remove.
LEMMA RemoveFrameShown ==
  ASSUME NEW w, WellFormed(w), NEW f \in LiveFrames(w),
         NEW u, u = RemoveFrame(w, f), NEW s, Shown(w, s)
  PROVE  Shown(u, s)
<1> DEFINE col == w.column_of[f]
           l == LeaveFrame(w, f)
           d == AskForErased(l, f, w.column_of[f])
           x == EraseFrame(d, f, w.column_of[f])
<1>0. WellLinked(w) /\ f \in Frames /\ col \in Columns
  BY FramesPlace DEF WellFormed
<1>1. u = IF x.frames[col] = <<>> THEN DeleteColumn(x, col) ELSE x
  BY Zenon DEF RemoveFrame, LeaveFrame, AskForErased, EraseFrame, Successor
<1>2. l = LeaveFrame(w, f) /\ d = AskForErased(l, f, w.column_of[f]) /\ x = EraseFrame(d, f, w.column_of[f])
  OBVIOUS
<1> HIDE DEF l, d, x
<1>3. /\ WellFormed(x)
      /\ l \in Graph /\ SameLinks(w, l) /\ SameViews(w, l)
      /\ Schedules(l, d)
      /\ x.column_of = [w.column_of EXCEPT ![f] = None]
      /\ x.frames = [w.frames EXCEPT ![w.column_of[f]] = Erase(w.frames[w.column_of[f]], f)]
      /\ x.column_activity = [w.column_activity EXCEPT ![w.column_of[f]] =
                                Erase(w.column_activity[w.column_of[f]], f)]
      /\ SameViews(w, x) /\ x.marked = w.marked
      /\ x.columns = w.columns /\ x.view_of = w.view_of
      /\ x.selected_column = w.selected_column /\ x.selected_frame = l.selected_frame
  BY <1>2, ErasedFrame
<1>4. Shown(x, s)
  BY <1>2, ErasedFrameShown
<1>5. x.view_of[col] # None
  BY <1>0, <1>3, FramesPlace
<1> HIDE DEF col
<1>6. CASE x.frames[col] = <<>>
  <2>1. x \in Graph /\ Tree(x)
    BY <1>3 DEF WellFormed, WellLinked
  <2>2. FramesIn(x, col) = {}
    <3>1. x.frames[col] \in Seq(Frames)
      BY <1>0, <2>1 DEF Graph
    <3>2. Enumerates(x.frames[col], FramesIn(x, col))
      BY <1>0, <2>1 DEF Tree
    <3>3. x.frames[col] \in Seq(Frames) /\ Enumerates(x.frames[col], FramesIn(x, col))
      BY <3>1, <3>2
    <3>4. QED BY ZenonT(60), <1>6, <3>3, EnumerationProperties
  <2>3. u = DeleteColumn(x, col)
    BY <1>1, <1>6
  <2>4. QED BY <1>0, <1>3, <1>4, <1>5, <2>2, <2>3, DeleteColumnShown
<1>7. CASE x.frames[col] # <<>>
  BY <1>1, <1>4, <1>7
<1>8. QED BY <1>6, <1>7

\* The attributes of frames that are nowhere are not seen.
LEMMA RepaintsShown ==
  ASSUME NEW w, WellFormed(w), NEW u, Repaints(w, u), SameTasks(w, u),
         u.bar_visible = w.bar_visible,
         \A f \in LiveFrames(w) : /\ f \in u.shaded <=> f \in w.shaded
                                  /\ f \in u.decorated <=> f \in w.decorated
                                  /\ f \in u.marked <=> f \in w.marked,
         NEW s, Shown(w, s)
  PROVE  Shown(u, s)
<1>0. w \in Graph /\ WellLinked(w) /\ NothingDangles(w)
  BY SelectionDoesNotDangle DEF WellFormed, WellLinked
<1>1. LiveFrames(u) = LiveFrames(w) /\ \A c : FramesOf(u, c) = FramesOf(w, c)
  BY DEF Repaints, LiveFrames, FramesOf
<1>2. \A c : LaidOut(u, c) <=> LaidOut(w, c)
  BY DEF LaidOut, SameTasks, Repaints
<1>3. KeepsColumns(w, u, {})
  BY DEF KeepsColumns, ColumnBounds, SameTasks, Repaints
<1>4. KeepsFrames(w, u, {})
  <2>1. ASSUME NEW f \in LiveFrames(w), NEW across
        PROVE  FrameBounds(u, f, across) = FrameBounds(w, f, across)
    <3> DEFINE list == w.frames[w.column_of[f]]
    <3>1. ToSet(list) \subseteq LiveFrames(w)
      <4>1. w.column_of[f] \in Columns
        BY <1>0, FramesPlace
      <4>2. ToSet(list) = FramesIn(w, w.column_of[f])
        BY <1>0, <4>1 DEF WellLinked, Tree, Enumerates
      <4>3. QED BY <4>1, <4>2, NoneIsNeither DEF FramesIn, LiveFrames
    <3>2. u.frames[u.column_of[f]] = list
      BY DEF Repaints
    <3> HIDE DEF list
    <3>3. u.shaded \cap ToSet(list) = w.shaded \cap ToSet(list)
      BY <3>1
    <3>4. u.decorated \cap ToSet(list) = w.decorated \cap ToSet(list)
      BY <3>1
    <3>5. w.frames[w.column_of[f]] = list
      BY DEF list
    <3>6. QED BY <3>2, <3>3, <3>4, <3>5 DEF FrameBounds
  <2>2. u.column_of = w.column_of
    BY DEF Repaints
  <2>3. QED BY <1>1, <1>2, <2>1, <2>2 DEF KeepsFrames
<1>5. KeepsRecent(w, u, {})
  <2>1. ASSUME NEW c \in Columns, w.frames[c] # <<>>
        PROVE  Head(w.column_activity[c]) \in u.shaded <=> Head(w.column_activity[c]) \in w.shaded
    BY <1>0, <2>1, ListedFrames, NoneIsNeither DEF FramesIn, LiveFrames
  <2>2. u.frames = w.frames /\ u.column_activity = w.column_activity
    BY DEF Repaints
  <2>3. QED BY <1>2, <2>1, <2>2 DEF KeepsRecent
<1>6. KeepsClients(w, u, {})
  <2>1. \A c \in Clients : Updating(u, c) <=> Updating(w, c)
    BY <1>2, SameUpdates DEF Repaints, SameTasks
  <2>2. \A c : VisibleFrame(u, c) = VisibleFrame(w, c)
    BY DEF VisibleFrame, HasFrame, Repaints, SameViews
  <2>3. ASSUME NEW f \in LiveFrames(w)
        PROVE  KeepsContents(w, u, f)
    <3>1. StyleClass(u, f) = StyleClass(w, f)
      BY DEF StyleClass, Repaints
    <3>2. (f \in u.marked) = (f \in w.marked)
      OBVIOUS
    <3>3. FramesOf(u, ClientOf(f)) = FramesOf(w, ClientOf(f))
      BY <1>1
    <3>4. \A b : Contents(u, f, b) = Contents(w, f, b)
      BY <3>1, <3>2, <3>3 DEF Contents
    <3>5. QED BY <3>4 DEF KeepsContents, SameTasks
  <2>4. \A c \in Clients : VisibleFrame(w, c) # None => VisibleFrame(w, c) \in LiveFrames(w)
    BY <1>0, VisibleFrameTyped
  <2>5. QED BY <2>1, <2>2, <2>3, <2>4 DEF KeepsClients
<1>7. Focused(u, s)
  <2>1. SelectedFrame(u) = SelectedFrame(w)
    BY SameSelectedFrame DEF Repaints, SameViews
  <2>2. SelectedFrame(w) # None => SelectedFrame(w) \in LiveFrames(w)
    BY CurrentFrameIsLive
  <2>3. QED BY <1>0, <2>1, <2>2, StaysFocused DEF Shown, SameTasks
<1>8. QED BY <1>0, <1>3, <1>4, <1>5, <1>6, <1>7, KeepsOnScreen DEF Shown, OnScreen

\* A frame made for a client.
LEMMA NewFrameShown ==
  ASSUME NEW w, WellFormed(w), NEW f \in Frames \ LiveFrames(w),
         NEW u, u = NewFrame(w, f), NEW s, Shown(w, s)
  PROVE  Shown(u, s)
<1>0. w \in Graph
  BY DEF WellFormed, WellLinked
<1>1. Repaints(w, u)
  BY <1>0, NewFrameEffect
<1>2. /\ SameTasks(w, u) /\ u.bar_visible = w.bar_visible
      /\ u.shaded = w.shaded \ {f} /\ u.decorated = w.decorated \cup {f}
      /\ u.marked = w.marked \ {f}
  BY <1>0 DEF NewFrame, Graph, SameTasks
<1>3. QED BY <1>1, <1>2, RepaintsShown

\* A removed frame on its way to another view.
LEMMA CarryFrameShown ==
  ASSUME NEW w, WellFormed(w), NEW f \in Frames \ LiveFrames(w), NEW g \in Frames \ LiveFrames(w),
         NEW u, u = CarryFrame(w, f, g), NEW s, Shown(w, s)
  PROVE  Shown(u, s)
<1>0. w \in Graph
  BY DEF WellFormed, WellLinked
<1>1. Repaints(w, u)
  BY <1>0, CarryFrameEffect
<1>2. /\ SameTasks(w, u) /\ u.bar_visible = w.bar_visible
      /\ u.shaded = Rename(w.shaded, f, g) /\ u.decorated = Rename(w.decorated, f, g)
      /\ u.marked = Rename(w.marked, f, g)
  BY <1>0 DEF CarryFrame, Graph, SameTasks
<1>3. \A S : \A h \in LiveFrames(w) : h \in Rename(S, f, g) <=> h \in S
  BY DEF Rename
<1>4. QED BY <1>1, <1>2, <1>3, RepaintsShown

\* The attributes of a frame that is nowhere go.
ForgetFrame(w, f, marked) ==
  [w EXCEPT !.shaded = @ \ {f}, !.decorated = @ \ {f}, !.marked = marked]

\* They were not seen.
LEMMA ForgottenFrameShown ==
  ASSUME NEW w, WellFormed(w), NEW f \in Frames \ LiveFrames(w),
         NEW marked \in {w.marked, w.marked \ {f}},
         NEW u, u = ForgetFrame(w, f, marked), NEW s, Shown(w, s)
  PROVE  Shown(u, s)
<1>0. w \in Graph
  BY DEF WellFormed, WellLinked
<1>1. marked \in SUBSET Frames /\ \A g \in LiveFrames(w) : g \in marked <=> g \in w.marked
  BY <1>0 DEF Graph
<1>2. Repaints(w, u)
  <2> DEFINE shaded == w.shaded \ {f}
             decorated == w.decorated \ {f}
  <2>1. u = Repaint(w, shaded, decorated, marked)
    BY DEF Repaint, ForgetFrame
  <2>2. shaded \in SUBSET Frames /\ decorated \in SUBSET Frames
    BY <1>0 DEF Graph
  <2> HIDE DEF shaded, decorated
  <2>3. QED BY <1>0, <1>1, <2>1, <2>2, NewAttributes
<1>3. /\ SameTasks(w, u) /\ u.bar_visible = w.bar_visible
      /\ u.shaded = w.shaded \ {f} /\ u.decorated = w.decorated \ {f}
      /\ u.marked = marked
  BY <1>0 DEF Graph, SameTasks, ForgetFrame
<1>4. QED BY <1>1, <1>2, <1>3, RepaintsShown

\* ~WFrame.
LEMMA DeleteFrameShown ==
  ASSUME NEW w, WellFormed(w), NEW f \in LiveFrames(w),
         NEW u, u = DeleteFrame(w, f), NEW s, Shown(w, s)
  PROVE  Shown(u, s)
<1> DEFINE r == RemoveFrame(w, f)
           M == r.marked \ {f}
<1>0. f \in Frames /\ w \in Graph
  BY DEF LiveFrames, WellFormed, WellLinked
<1>1. WellFormed(r) /\ r.column_of = [w.column_of EXCEPT ![f] = None]
  BY RemoveFrameWellFormed
<1>2. Shown(r, s)
  BY RemoveFrameShown
<1>3. f \in Frames \ LiveFrames(r)
  BY <1>0, <1>1 DEF Graph, LiveFrames
<1>4. u = [r EXCEPT !.shaded = @ \ {f}, !.decorated = @ \ {f}, !.marked = @ \ {f}]
  BY DEF DeleteFrame
<1> HIDE DEF r
<1>5. u = ForgetFrame(r, f, M) /\ M \in {r.marked, r.marked \ {f}}
  BY <1>4 DEF ForgetFrame
<1> HIDE DEF M
<1>6. QED BY <1>1, <1>2, <1>3, <1>5, ForgottenFrameShown

-----------------------------------------------------------------------------
(* Another view on the screen.                                             *)

\* The clients that have a frame in the view.
ClientsOfView(w, v) == {c \in Clients : HasFrame(w, c, v)}

\* Once the clients of the old view are to be updated, all that is left to do is to
\* update those of the new one.
LEMMA OtherViewOnScreen ==
  ASSUME NEW h \in Graph, NEW v \in Views, NEW m, m = [h EXCEPT !.selected_view = v],
         \A c \in Clients : HasFrame(h, c, h.selected_view) => "update_server" \in h.todo_clients[c],
         NEW s, OnScreen(h, s)
  PROVE  OnScreenBut(m, s, {}, {}, ClientsOfView(m, v))
<1>1. /\ SameLinks(h, m) /\ m.selected_view = v /\ SameLook(h, m) /\ SameTasks(h, m)
      /\ m.selected_column = h.selected_column /\ m.selected_frame = h.selected_frame
  BY DEF Graph, SameLinks, SameLook, SameTasks
<1>2. \A c : LaidOut(m, c) <=> LaidOut(h, c)
  BY <1>1 DEF LaidOut, SameTasks, SameLinks
<1>3. LiveFrames(m) = LiveFrames(h) /\ \A c : FramesOf(m, c) = FramesOf(h, c)
  BY <1>1 DEF SameLinks, LiveFrames, FramesOf
<1>4. KeepsColumns(h, m, {})
  BY <1>1 DEF KeepsColumns, ColumnBounds, SameTasks, SameLinks, SameLook
<1>5. KeepsFrames(h, m, {})
  BY <1>1, <1>2, <1>3 DEF KeepsFrames, FrameBounds, SameLinks, SameLook
<1>6. KeepsRecent(h, m, {})
  BY <1>1, <1>2 DEF KeepsRecent, SameLinks, SameLook
<1>7. KeepsClients(h, m, ClientsOfView(m, v))
  <2>1. ASSUME NEW c \in Clients \ ClientsOfView(m, v), ~ Updating(m, c)
        PROVE  ~ Updating(h, c) /\ VisibleFrame(m, c) = None /\ VisibleFrame(h, c) = None
    <3>1. ~ Updating(h, c)
      <4>1. m.column_of = h.column_of /\ h.todo_clients = m.todo_clients
        BY <1>1 DEF SameLinks, SameTasks
      <4>2. QED BY <1>2, <2>1, <4>1, SameUpdates
    <3>2. ~ HasFrame(h, c, h.selected_view)
      BY <3>1 DEF Updating
    <3>3. ~ HasFrame(m, c, v)
      BY <2>1 DEF ClientsOfView
    <3>4. QED BY <1>1, <3>1, <3>2, <3>3 DEF VisibleFrame
  <2>2. QED BY <2>1 DEF KeepsClients
<1>8. QED BY <1>4, <1>5, <1>6, <1>7, KeepsOnScreen

\* The selected frame of a view, if there is one, is one of the frames.
LEMMA SelectedFrameOrNone ==
  ASSUME NEW w, WellFormed(w), NEW v \in OrNone(Views)
  PROVE  SelectedFrameOfView(w, v) \in OrNone(LiveFrames(w))
BY SelectedFrameIsLive DEF OrNone

\* WM::select_view of an existing view.
LEMMA SelectViewShown ==
  ASSUME NEW w, WellFormed(w), NEW v \in w.views, NEW u, u = SelectView(w, v),
         NEW s, Shown(w, s)
  PROVE  Shown(u, s)
<1> DEFINE old == w.selected_view
           h == IF old = None THEN w ELSE ScheduleFramesOfView(w, old)
           m == [h EXCEPT !.selected_view = v]
           from == SelectedFrameOfView(w, old)
           new == SelectedFrameOfView(w, v)
           t == HandleSelectedFrameChanged(m, from, new)
           d == IF old # None /\ t.columns[old] = <<>> THEN DeleteView(t, old) ELSE t
           x == ScheduleFramesOfView(d, v)
<1>0. /\ w \in Graph /\ WellLinked(w)
      /\ v \in Views /\ v # None /\ old \in OrNone(Views)
      /\ w.selected_column \in [Views -> OrNone(Columns)]
      /\ w.selected_frame \in [Columns -> OrNone(Frames)]
  BY NoneIsNeither DEF WellFormed, WellLinked, Graph
<1>1. u = IF v = old THEN w ELSE IF new = None THEN x ELSE ScheduleInputFocus(x, new)
  BY DEF SelectView
<1>2. CASE v = old
  BY <1>1, <1>2
<1>3. CASE v # old
  <2>1. /\ Asks(w, h)
        /\ \A c \in Clients : HasFrame(w, c, old) => "update_server" \in h.todo_clients[c]
    <3>1. CASE old = None
      BY <1>0, <3>1, AsksNothing DEF HasFrame
    <3>2. CASE old # None
      <4>1. old \in Views /\ h = ScheduleFramesOfView(w, old)
        BY <1>0, <3>2 DEF OrNone
      <4> HIDE DEF h, old
      <4>2. QED BY <1>0, <4>1, FramesOfViewAsked
    <3>3. QED BY <3>1, <3>2
  <2>2. from \in OrNone(LiveFrames(w)) /\ new \in OrNone(LiveFrames(w))
    BY <1>0, SelectedFrameOrNone DEF OrNone
  <2>3. m = [h EXCEPT !.selected_view = v]
    OBVIOUS
  <2>3a. t = HandleSelectedFrameChanged(m, from, new)
    OBVIOUS
  <2>4. d = IF old # None /\ t.columns[old] = <<>> THEN DeleteView(t, old) ELSE t
    OBVIOUS
  <2>4a. new = SelectedFrameOfView(w, v) /\ from = SelectedFrameOfView(w, old) /\ old = w.selected_view
    OBVIOUS
  <2>4b. x = ScheduleFramesOfView(d, v)
    OBVIOUS
  <2> HIDE DEF h, from, new, old, m, t, d, x
  <2>5. h \in Graph /\ Shown(h, s) /\ SameLinks(w, h) /\ h.selected_view = old
        /\ h.selected_column = w.selected_column /\ h.selected_frame = w.selected_frame
    BY <1>0, <2>1, <2>4a, AsksShown DEF Asks, Schedules, SameViews
  <2>6. \A c \in Clients : HasFrame(h, c, h.selected_view) => "update_server" \in h.todo_clients[c]
    BY <2>1, <2>5 DEF HasFrame, SameLinks
  <2>7. OnScreenBut(m, s, {}, {}, ClientsOfView(m, v))
    BY <1>0, <2>3, <2>5, <2>6, OtherViewOnScreen DEF Shown
  <2>8. m \in Graph
    BY <1>0, <2>3, <2>5, Zenon DEF Graph, OrNone
  <2>9. SameLinks(h, m) /\ m.views = h.views /\ m.selected_view = v
        /\ m.selected_frame = h.selected_frame /\ m.selected_column = h.selected_column
    BY <2>3, <2>5 DEF Graph, SameLinks
  <2>10. SameLinks(w, m) /\ m.views = w.views
         /\ m.selected_frame = w.selected_frame /\ m.selected_column = w.selected_column
    BY <2>1, <2>5, <2>9 DEF Asks, Schedules, SameLinks, SameViews
  <2>11. WellLinked(m)
    BY <1>0, <2>8, <2>10, SameLinksWellLinked DEF WellLinked, Tree
  <2>12. from \in OrNone(LiveFrames(m))
    BY <2>2, <2>10 DEF SameLinks, LiveFrames
  <2>13. Restyles(m, t) /\ (new = None => t.todo_root)
    BY <2>3a, <2>11, <2>12, HandleSelectedFrameChangedRestyles
  <2>14. /\ t \in Graph
         /\ SameLinks(m, t) /\ SameViews(m, t)
         /\ t.selected_column = m.selected_column
         /\ \A c \in Columns :
              t.selected_frame[c] # m.selected_frame[c] =>
                /\ from # None /\ c = m.column_of[from] /\ m.selected_frame[c] = from
                /\ t.selected_frame[c] \in FramesIn(m, c)
    BY <2>3a, <2>11, <2>12, HandleSelectedFrameChangedEffect
  <2>15. OnScreenBut(t, s, {}, {}, ClientsOfView(m, v)) /\ t \in Graph
    BY <2>7, <2>8, <2>13, RestylesOnScreen DEF Restyles
  <2>16. SameLinks(w, t) /\ t.selected_view = v /\ t.views = w.views
         /\ t.selected_column = w.selected_column
    BY <2>9, <2>10, <2>14 DEF SameLinks, SameViews
  <2>17. WellLinked(t)
    BY <1>0, <2>15, <2>16, SameLinksWellLinked DEF WellLinked, Tree
  <2>18. SelectedFrame(t) = new
    <3> DEFINE col == w.selected_column[v]
    <3>1. col \in OrNone(Columns)
      BY <1>0
    <3>2. col # None => t.selected_frame[col] = w.selected_frame[col]
      <4>1. ASSUME col # None, t.selected_frame[col] # m.selected_frame[col]
            PROVE  FALSE
        <5>1. col \in Columns /\ from # None /\ col = w.column_of[from] /\ from \in LiveFrames(w)
          BY <2>2, <2>10, <2>14, <3>1, <4>1 DEF OrNone, SameLinks
        <5>2. old \in OrNone(Views) /\ SelectedFrameOfView(w, old) # None
          BY <1>0, <2>4a, <5>1
        <5>3. ViewOf(from) = old
          BY <2>4a, <5>2, SelectedFrameIsLive
        <5>4. w.view_of[col] = old
          BY <1>0, <5>1, <5>3 DEF WellLinked, Tree
        <5>5. Selects(col, ColumnsOf(w, v))
          BY <1>0 DEF WellFormed, Selection
        <5>6. w.view_of[col] = v
          BY <4>1, <5>5 DEF Selects, ColumnsOf
        <5>7. QED BY <1>3, <2>4a, <5>4, <5>6
      <4>2. QED BY <2>10, <4>1
    <3>3. SelectedFrame(t) = IF col = None THEN None ELSE t.selected_frame[col]
      BY <1>0, <2>16 DEF SelectedFrame, SelectedFrameOfView, SelectedFrameOfColumn
    <3>4. new = IF col = None THEN None ELSE w.selected_frame[col]
      BY <1>0, <2>4a DEF SelectedFrameOfView, SelectedFrameOfColumn
    <3> HIDE DEF col
    <3>5. QED BY <3>2, <3>3, <3>4
  <2>19. /\ d \in Graph /\ OnScreenBut(d, s, {}, {}, ClientsOfView(m, v))
         /\ SelectedFrame(d) = new /\ (new = None => d.todo_root)
         /\ d.column_of = w.column_of
    <3>1. CASE old # None /\ t.columns[old] = <<>>
      <4>1. old \in Views /\ d = DeleteView(t, old)
        BY <1>0, <2>4, <2>4a, <3>1 DEF OrNone
      <4>2. ColumnsOf(t, old) = {}
        BY <2>17, <3>1, <4>1, NoColumns
      <4>3. /\ WellLinked(d) /\ SameLinks(t, d)
            /\ d.views = t.views \ {old} /\ d.selected_view = t.selected_view
            /\ d.selected_column = t.selected_column
            /\ d.selected_frame = t.selected_frame
        BY <2>17, <4>1, <4>2, DeleteViewEffect
      <4>4. /\ KeepsColumns(t, d, {}) /\ KeepsFrames(t, d, {})
            /\ KeepsRecent(t, d, {}) /\ KeepsClients(t, d, {})
            /\ d.shaded = t.shaded
            /\ d.todo_clients = t.todo_clients /\ d.todo_root = t.todo_root
            /\ SelectedFrame(d) = SelectedFrame(t)
        BY <2>17, <4>1, <4>2, DeleteViewKeeps
      <4>5. KeepsClients(t, d, ClientsOfView(m, v))
        BY <4>4 DEF KeepsClients
      <4>6. OnScreenBut(d, s, {}, {}, ClientsOfView(m, v))
        BY <2>15, <4>4, <4>5, KeepsOnScreenBut
      <4>7. QED BY <2>13, <2>16, <2>18, <4>3, <4>4, <4>6 DEF WellLinked, SameLinks
    <3>2. CASE ~(old # None /\ t.columns[old] = <<>>)
      BY <2>4, <2>13, <2>15, <2>16, <2>18, <3>2 DEF SameLinks
    <3>3. QED BY <3>1, <3>2
  <2>20. /\ Asks(d, x)
         /\ \A c \in Clients : HasFrame(d, c, v) => "update_server" \in x.todo_clients[c]
    BY <1>0, <2>4b, <2>19, FramesOfViewAsked
  <2>21. \A c \in ClientsOfView(m, v) : Updating(x, c)
    BY <2>10, <2>19, <2>20 DEF ClientsOfView, HasFrame, Updating, SameLinks
  <2>22. OnScreen(x, s) /\ x \in Graph
    BY <2>19, <2>20, <2>21, AsksForExceptions DEF Asks, Schedules
  <2>23. SelectedFrame(x) = new /\ (new = None => x.todo_root)
    <3>1. SelectedFrame(x) = SelectedFrame(d)
      BY <2>20, SameSelectedFrame DEF Asks, Schedules, SameViews
    <3>2. QED BY <2>19, <2>20, <3>1 DEF Asks, MoreTasks
  <2>24. CASE new = None
    <3>1. u = x
      BY <1>1, <1>3, <2>4a, <2>24
    <3>2. QED BY <2>22, <2>23, <2>24, <3>1 DEF Shown, Focused, Refocused
  <2>25. CASE new # None
    <3>1. u = ScheduleInputFocus(x, new) /\ new \in Frames
      BY <1>1, <1>3, <2>2, <2>4a, <2>25 DEF OrNone, LiveFrames
    <3>2. Asks(x, u) /\ "set_input_focus" \in u.todo_clients[ClientOf(new)]
      BY <2>22, <3>1, FocusAsked
    <3>3. OnScreen(u, s)
      BY <2>22, <3>2, AsksRestyles, RestylesOnScreen DEF OnScreen, Reselects
    <3>4. SelectedFrame(u) = new
      BY <2>23, <3>2, SameSelectedFrame DEF Asks, Schedules, SameViews
    <3>5. QED BY <2>25, <3>2, <3>3, <3>4 DEF Shown, Focused, Refocused
  <2>26. QED BY <2>24, <2>25
<1>4. QED BY <1>2, <1>3

-----------------------------------------------------------------------------
(* Where new frames go, and which were active.                             *)

\* place_frame_in_smallest_column, before the frame enters.
LEMMA RoomForFrameShown ==
  ASSUME NEW w, WellFormed(w), NEW v \in w.views, NEW col \in FreeColumns(w),
         NEW i \in 1..(Len(w.columns[v]) + 1),
         NEW m, m = CreateColumn(w, v, i, col), NEW s, Shown(w, s)
  PROVE  /\ WellFormed(m) /\ SameFrames(w, m) /\ SameViews(w, m)
         /\ col \in Columns /\ m.view_of[col] = v /\ Shown(m, s)
<1>1. /\ WellFormed(m) /\ SameViews(w, m) /\ SameFrames(w, m)
      /\ \A c \in Columns : m.view_of[c] = IF c = col THEN v ELSE w.view_of[c]
  BY CreateColumnWellFormed
<1>2. col \in Columns
  BY DEF FreeColumns
<1>3. Shown(m, s)
  BY CreateColumnShown
<1>4. QED BY <1>1, <1>2, <1>3

\* WM::place_frame_in_smallest_column.
LEMMA PlaceInSmallestColumnShown ==
  ASSUME NEW w, WellFormed(w), NEW f \in Frames \ LiveFrames(w), ViewOf(f) \in w.views,
         NEW col \in FreeColumns(w),
         NEW u, u = PlaceInSmallestColumn(w, f, col), NEW s, Shown(w, s)
  PROVE  Shown(u, s)
<1> DEFINE v == ViewOf(f)
           widen == Len(w.columns[v]) < DesiredColumns
           n == Len(w.columns[v]) + 1
           m == IF widen THEN CreateColumn(w, v, n, col) ELSE w
           target == IF widen THEN col ELSE SmallestColumn(w, v)
           i == Len(m.frames[target]) + 1
<1>0. /\ w \in Graph /\ WellLinked(w)
      /\ v \in Views /\ w.columns[v] \in Seq(Columns) /\ Len(w.columns[v]) \in Nat
      /\ DesiredColumns \in Nat \ {0}
  BY FrameParts, LenProperties, DesiredColumnsAssumption DEF WellFormed, WellLinked, Graph
<1>1. u = AddFrame(m, f, target, i)
  BY DEF PlaceInSmallestColumn
<1>2. /\ WellFormed(m) /\ SameFrames(w, m) /\ Shown(m, s)
      /\ target \in Columns /\ m.view_of[target] = v
  <2>1. CASE widen
    <3>1. n \in 1..(Len(w.columns[v]) + 1)
      BY <1>0
    <3>2. m = CreateColumn(w, v, n, col) /\ target = col /\ v \in w.views
      BY <2>1
    <3> HIDE DEF n, m, v, target
    <3>3. /\ WellFormed(m) /\ SameFrames(w, m) /\ SameViews(w, m)
          /\ col \in Columns /\ m.view_of[col] = v /\ Shown(m, s)
      BY <3>1, <3>2, RoomForFrameShown
    <3>4. QED BY <3>2, <3>3
  <2>2. CASE ~widen
    <3>1. w.columns[v] # <<>>
      <4>1. Len(w.columns[v]) # 0
        BY <1>0, <2>2
      <4>2. QED BY <4>1
    <3>2. SmallestColumn(w, v) \in ColumnsOf(w, v)
      BY <1>0, <3>1, SmallestColumnProperties
    <3>3. m = w /\ target = SmallestColumn(w, v)
      BY <2>2
    <3> HIDE DEF m, target
    <3>4. QED BY <3>2, <3>3 DEF ColumnsOf, SameFrames
  <2>3. QED BY <2>1, <2>2
<1> HIDE DEF m, target
<1>3. i \in 1..(Len(m.frames[target]) + 1)
  <2>1. m.frames[target] \in Seq(Frames)
    BY <1>2 DEF WellFormed, WellLinked, Graph
  <2>2. Len(m.frames[target]) \in Nat
    BY <2>1, LenProperties
  <2>3. QED BY <2>2
<1>4. f \in Frames \ LiveFrames(m)
  BY <1>2 DEF SameFrames, LiveFrames
<1> HIDE DEF i
<1>5. QED BY <1>1, <1>2, <1>3, <1>4, AddFrameShown

\* WM::place_client of a client without frames.
LEMMA PlaceClientShown ==
  ASSUME NEW w, WellFormed(w), NEW c \in Clients, FramesOf(w, c) = {}, NEW misc \in Views,
         w.selected_view = None => w.views = {},
         NEW col \in FreeColumns(w),
         NEW u, u = PlaceClient(w, c, misc, col), NEW z, Shown(w, z)
  PROVE  Shown(u, z)
<1> DEFINE s == IF w.selected_view = None THEN SelectView(NewView(w, misc), misc) ELSE w
           v == s.selected_view
           f == <<c, v>>
           widen == Len(s.columns[v]) < 2
           target == IF widen THEN col ELSE s.selected_column[v]
           i == After(s.columns[v], s.selected_column[v])
           m == IF widen THEN CreateColumn(s, v, i, col) ELSE s
           n == NewFrame(m, f)
           a == AddFrameAfterSelected(n, f, target)
<1>1. u = SelectFrame(a, f)
  BY DEF PlaceClient
<1>2. /\ WellFormed(s) /\ SameLinks(w, s) /\ s.selected_view # None /\ s.selected_view \in s.views
      /\ Shown(s, z)
  <2>1. CASE w.selected_view = None
    <3> DEFINE x == NewView(w, misc)
    <3>1. misc \notin w.views
      BY <2>1
    <3>2. x = GetOrCreateView(w, misc)
      BY <3>1 DEF GetOrCreateView
    <3>3. s = SelectView(x, misc)
      BY <2>1
    <3> HIDE DEF x, s
    <3>4. /\ WellFormed(x)
          /\ SameLinks(w, x)
          /\ x.views = w.views \cup {misc} /\ x.selected_view = w.selected_view
      BY <3>2, GetOrCreateViewWellFormed
    <3>5. Shown(x, z)
      BY <3>2, GetOrCreateViewShown DEF WellFormed
    <3>6. misc \in x.views
      BY <3>4
    <3>7. WellFormed(s) /\ SameLinks(x, s) /\ s.selected_view = misc /\ misc \in s.views
      BY <3>3, <3>4, <3>6, SelectViewWellFormed
    <3>8. Shown(s, z)
      BY <3>3, <3>4, <3>5, <3>6, SelectViewShown
    <3>9. QED BY <3>4, <3>7, <3>8, NoneIsNeither DEF SameLinks
  <2>2. CASE w.selected_view # None
    <3>1. s = w
      BY <2>2
    <3>2. w.selected_view \in w.views
      BY <2>2 DEF WellFormed, Selection, OrNone
    <3> HIDE DEF s
    <3>3. QED BY <2>2, <3>1, <3>2 DEF SameLinks
  <2>3. QED BY <2>1, <2>2
<1> HIDE DEF s
<1>3. /\ s \in Graph /\ WellLinked(s) /\ v \in Views /\ v \in s.views
      /\ s.columns[v] \in Seq(Columns) /\ Len(s.columns[v]) \in Nat
      /\ Enumerates(s.columns[v], ColumnsOf(s, v))
      /\ Selects(s.selected_column[v], ColumnsOf(s, v))
  <2>1. s \in Graph /\ WellLinked(s) /\ Selection(s) /\ Tree(s)
    BY <1>2 DEF WellFormed, WellLinked
  <2>2. v \in Views
    BY <1>2, <2>1 DEF Graph
  <2>3. s.columns[v] \in Seq(Columns)
    BY <2>1, <2>2 DEF Graph
  <2>4. QED BY <1>2, <2>1, <2>2, <2>3, LenProperties DEF Selection, Tree
<1>4. f \in Frames /\ ViewOf(f) = v /\ f \notin LiveFrames(s)
  <2>1. f \in Frames /\ ClientOf(f) = c /\ ViewOf(f) = v
    BY <1>3, PairIsFrame
  <2>2. LiveFrames(s) = LiveFrames(w)
    BY <1>2 DEF SameLinks, LiveFrames
  <2>3. QED BY <2>1, <2>2 DEF FramesOf
<1>5. /\ WellFormed(m) /\ SameFrames(s, m) /\ Shown(m, z)
      /\ target \in Columns /\ m.view_of[target] = v
  <2>1. CASE widen
    <3>1. i \in 1..(Len(s.columns[v]) + 1)
      BY <1>3, AfterProperties, NoneIsNeither
    <3>2. m = CreateColumn(s, v, i, col) /\ target = col
      BY <2>1
    <3>3. col \in FreeColumns(s)
      BY <1>2 DEF SameLinks, FreeColumns
    <3> HIDE DEF i, m, v, target
    <3>4. /\ WellFormed(m) /\ SameFrames(s, m) /\ SameViews(s, m)
          /\ col \in Columns /\ m.view_of[col] = v /\ Shown(m, z)
      BY <1>2, <1>3, <3>1, <3>2, <3>3, RoomForFrameShown
    <3>5. QED BY <3>2, <3>4
  <2>2. CASE ~widen
    <3>1. s.columns[v] # <<>>
      <4>1. Len(s.columns[v]) # 0
        BY <1>3, <2>2
      <4>2. QED BY <4>1
    <3>2. s.selected_column[v] \in ColumnsOf(s, v)
      BY <1>3, <3>1, EnumerationProperties DEF Selects
    <3>3. m = s /\ target = s.selected_column[v]
      BY <2>2
    <3> HIDE DEF m, target
    <3>4. QED BY <1>2, <3>2, <3>3 DEF ColumnsOf, SameFrames
  <2>3. QED BY <2>1, <2>2
<1> HIDE DEF m, target, f, v, i
<1>6. f \in Frames \ LiveFrames(m)
  BY <1>4, <1>5 DEF SameFrames, LiveFrames
<1>7. WellFormed(n) /\ Repaints(m, n)
  <2>1. m \in Graph
    BY <1>5 DEF WellFormed, WellLinked
  <2>2. QED BY <1>4, <1>5, <2>1, NewFrameEffect, RepaintsWellFormed
<1>8. Shown(n, z)
  BY <1>5, <1>6, NewFrameShown
<1> HIDE DEF n
<1>9. f \in Frames \ LiveFrames(n) /\ n.view_of[target] = ViewOf(f)
  BY <1>4, <1>5, <1>6, <1>7 DEF Repaints, LiveFrames
<1>10. /\ WellFormed(a) /\ SameViews(n, a) /\ a.view_of = n.view_of
       /\ a.column_of = [n.column_of EXCEPT ![f] = target]
       /\ a.marked = n.marked
  BY <1>5, <1>7, <1>9, AddFrameAfterSelectedWellFormed
<1>11. Shown(a, z)
  BY <1>5, <1>7, <1>8, <1>9, AddFrameAfterSelectedShown
<1> HIDE DEF a
<1>12. f \in LiveFrames(a)
  <2>1. n.column_of \in [Frames -> OrNone(Columns)]
    BY <1>7 DEF WellFormed, WellLinked, Graph
  <2>2. QED BY <1>5, <1>9, <1>10, <2>1, NoneIsNeither DEF LiveFrames
<1>13. Reselects(a, u)
  BY <1>1, <1>10, <1>12, SelectFrameReselects
<1>14. QED BY <1>10, <1>11, <1>13, ReselectsShown DEF WellFormed, WellLinked

\* WM::update_frame_activity: a frame that comes to the front of its column has it
\* laid out, so that it may open.
LEMMA HandleFrameActivityShown ==
  ASSUME NEW w, WellFormed(w), NEW u, u = HandleFrameActivity(w), NEW s, Shown(w, s)
  PROVE  Shown(u, s)
<1> DEFINE f == SelectedFrame(w)
           col == w.column_of[f]
           recent == w.column_activity[col]
<1>0. w \in Graph /\ WellLinked(w)
  BY DEF WellFormed, WellLinked
<1>1. CASE f = None
  BY <1>1 DEF HandleFrameActivity
<1>2. CASE f # None
  <2>1. f \in LiveFrames(w) /\ col \in Columns /\ ViewOf(f) \in Views
    BY <1>0, <1>2, CurrentFrameIsLive, FramesPlace
  <2>2. u = [w EXCEPT !.column_activity[col] = ToFront(@, f),
                      !.view_activity[ViewOf(f)] = ToFront(@, f),
                      !.activity = ToFront(@, f),
                      !.todo_columns = IF Head(recent) = f THEN @ ELSE @ \cup {col}]
    BY <1>2 DEF HandleFrameActivity
  <2>3. recent \in Seq(Frames) /\ w.column_activity \in [Columns -> Seq(Frames)]
    BY <1>0, <2>1 DEF Graph
  <2> HIDE DEF f, col, recent
  <2>4. /\ u.column_activity = [w.column_activity EXCEPT ![col] = ToFront(w.column_activity[col], f)]
        /\ u.todo_columns = IF Head(recent) = f THEN w.todo_columns ELSE w.todo_columns \cup {col}
        /\ u.columns = w.columns /\ u.view_of = w.view_of /\ u.frames = w.frames
        /\ u.column_of = w.column_of /\ u.marked = w.marked
        /\ u.selected_view = w.selected_view
        /\ u.selected_column = w.selected_column /\ u.selected_frame = w.selected_frame
        /\ u.todo_views = w.todo_views /\ u.todo_clients = w.todo_clients
        /\ u.todo_root = w.todo_root
        /\ u.shaded = w.shaded /\ u.decorated = w.decorated /\ u.bar_visible = w.bar_visible
    BY <1>0, <2>2 DEF Graph
  <2>5. /\ \A c \in Columns : c # col => u.column_activity[c] = w.column_activity[c]
        /\ u.column_activity[col] = ToFront(w.column_activity[col], f)
    BY <2>1, <2>3, <2>4
  <2>6. \A c : LaidOut(w, c) => LaidOut(u, c)
    BY <2>4 DEF LaidOut
  <2>7. KeepsColumns(w, u, {})
    BY <2>4 DEF KeepsColumns, ColumnBounds
  <2>8. LiveFrames(u) = LiveFrames(w) /\ \A c : FramesOf(u, c) = FramesOf(w, c)
    BY <2>4 DEF LiveFrames, FramesOf
  <2>9. KeepsFrames(w, u, {})
    BY <2>4, <2>6, <2>8 DEF KeepsFrames, FrameBounds
  <2>10. KeepsRecent(w, u, {})
    <3>1. ASSUME NEW c \in Columns, w.frames[c] # <<>>, ~ LaidOut(u, c)
          PROVE  Head(u.column_activity[c]) = Head(w.column_activity[c])
      <4>1. CASE c # col
        BY <2>5, <4>1
      <4>2. CASE c = col
        <5>1. Head(recent) = f
          BY <2>1, <2>4, <3>1, <4>2 DEF LaidOut
        <5>2. Erase(recent, f) \in Seq(Frames) /\ f \in Frames
          <6>1. f \in FramesIn(w, col) /\ Enumerates(recent, FramesIn(w, col))
            BY <1>0, <2>1 DEF WellLinked, Histories, FramesIn, LiveFrames, recent, col
          <6>2. QED BY <2>1, <2>3, <6>1, EraseEnumeration DEF LiveFrames
        <5>3. Head(ToFront(recent, f)) = f
          <6> DEFINE rest == Erase(recent, f)
          <6>1. rest \in Seq(Frames)
            BY <5>2
          <6> HIDE DEF rest
          <6>2. Head(<<f>> \o rest) = f
            BY <5>2, <6>1
          <6>3. QED BY <6>2 DEF ToFront, rest
        <5>4. QED BY <2>5, <4>2, <5>1, <5>3 DEF recent
      <4>3. QED BY <4>1, <4>2
    <3>2. QED BY <2>4, <2>6, <3>1 DEF KeepsRecent
  <2>11. KeepsClients(w, u, {})
    <3>1. \A c \in Clients : Updating(w, c) => Updating(u, c)
      BY <2>4, <2>6, MoreUpdates
    <3>2. \A c : VisibleFrame(u, c) = VisibleFrame(w, c)
      BY <2>4 DEF VisibleFrame, HasFrame
    <3>3. \A g, b : Contents(u, g, b) = Contents(w, g, b)
      BY <2>4, <2>8 DEF Contents, StyleClass
    <3>4. QED BY <2>4, <3>1, <3>2, <3>3 DEF KeepsClients, KeepsContents
  <2>12. Focused(u, s)
    <3>1. SelectedFrame(u) = SelectedFrame(w)
      BY <2>4, SameSelectedFrame
    <3>2. QED BY <1>0, <2>4, <3>1, StaysFocused DEF Shown
  <2>13. QED BY <1>0, <2>7, <2>9, <2>10, <2>11, <2>12, KeepsOnScreen DEF Shown, OnScreen
<1>3. QED BY <1>1, <1>2

-----------------------------------------------------------------------------
(* What the commands do to one column, one frame or one view.              *)

\* Only the order and the look of the frames of a column change, and the column is
\* scheduled.
ColumnChanges(w, u, col) ==
  /\ u.columns = w.columns /\ u.view_of = w.view_of /\ u.column_of = w.column_of
  /\ u.column_activity = w.column_activity /\ u.marked = w.marked
  /\ u.selected_view = w.selected_view /\ u.selected_column = w.selected_column
  /\ u.selected_frame = w.selected_frame
  /\ u.bar_visible = w.bar_visible
  /\ u.todo_views = w.todo_views /\ u.todo_columns = w.todo_columns \cup {col}
  /\ u.todo_root = w.todo_root
  /\ \A c \in Clients : w.todo_clients[c] \subseteq u.todo_clients[c]
  /\ \A c \in Columns \ {col} : u.frames[c] = w.frames[c]
  /\ \A f \in Frames : w.column_of[f] # col => /\ f \in u.shaded <=> f \in w.shaded
                                               /\ f \in u.decorated <=> f \in w.decorated

\* The layout that is scheduled shows such a change.
LEMMA ColumnChangesOnScreen ==
  ASSUME NEW w, WellFormed(w), NEW col \in Columns, NEW u, ColumnChanges(w, u, col),
         NEW s, OnScreen(w, s)
  PROVE  OnScreen(u, s)
<1>0. w \in Graph /\ WellLinked(w)
  BY DEF WellFormed, WellLinked
<1>1. LiveFrames(u) = LiveFrames(w) /\ \A c : FramesOf(u, c) = FramesOf(w, c)
  BY DEF ColumnChanges, LiveFrames, FramesOf
<1>2. /\ \A c : LaidOut(w, c) => LaidOut(u, c)
      /\ \A c : ~ LaidOut(u, c) => c # col
  BY DEF LaidOut, ColumnChanges
<1>3. KeepsColumns(w, u, {})
  BY DEF KeepsColumns, ColumnBounds, ColumnChanges
<1>4. KeepsFrames(w, u, {})
  <2>1. ASSUME NEW f \in LiveFrames(w), w.column_of[f] # col, NEW across
        PROVE  FrameBounds(u, f, across) = FrameBounds(w, f, across)
    <3> DEFINE list == w.frames[w.column_of[f]]
    <3>1. \A g \in ToSet(list) : g \in Frames /\ w.column_of[g] # col
      <4>1. w.column_of[f] \in Columns
        BY <1>0, FramesPlace
      <4>2. ToSet(list) = FramesIn(w, w.column_of[f])
        BY <1>0, <4>1 DEF WellLinked, Tree, Enumerates
      <4>3. QED BY <2>1, <4>2 DEF FramesIn
    <3>2. u.frames[u.column_of[f]] = list
      <4>1. w.column_of[f] \in Columns \ {col}
        BY <1>0, <2>1, FramesPlace
      <4>2. QED BY <4>1 DEF ColumnChanges
    <3> HIDE DEF list
    <3>3. u.shaded \cap ToSet(list) = w.shaded \cap ToSet(list)
      BY <3>1 DEF ColumnChanges
    <3>4. u.decorated \cap ToSet(list) = w.decorated \cap ToSet(list)
      BY <3>1 DEF ColumnChanges
    <3>5. w.frames[w.column_of[f]] = list
      BY DEF list
    <3>6. QED BY <3>2, <3>3, <3>4, <3>5 DEF FrameBounds
  <2>2. u.column_of = w.column_of
    BY DEF ColumnChanges
  <2>3. QED BY <1>1, <1>2, <2>1, <2>2 DEF KeepsFrames
<1>5. KeepsRecent(w, u, {})
  <2>1. ASSUME NEW c \in Columns, c # col, w.frames[c] # <<>>,
               Head(w.column_activity[c]) \in u.shaded
        PROVE  Head(w.column_activity[c]) \in w.shaded
    <3>1. Head(w.column_activity[c]) \in Frames /\ w.column_of[Head(w.column_activity[c])] # col
      BY <1>0, <2>1, ListedFrames DEF FramesIn
    <3>2. QED BY <2>1, <3>1 DEF ColumnChanges
  <2>2. ASSUME NEW c \in Columns, ~ LaidOut(u, c)
        PROVE  u.frames[c] = w.frames[c] /\ ~ LaidOut(w, c) /\ c # col
    BY <1>2, <2>2 DEF ColumnChanges
  <2>3. u.column_activity = w.column_activity
    BY DEF ColumnChanges
  <2>4. QED BY <2>1, <2>2, <2>3 DEF KeepsRecent
<1>6. KeepsClients(w, u, {})
  <2>1. \A c \in Clients : Updating(w, c) => Updating(u, c)
    BY <1>2, MoreUpdates DEF ColumnChanges
  <2>2. \A c : VisibleFrame(u, c) = VisibleFrame(w, c)
    BY DEF VisibleFrame, HasFrame, ColumnChanges
  <2>3. ASSUME NEW c \in Clients, ~ Updating(u, c), VisibleFrame(w, c) # None
        PROVE  KeepsContents(w, u, VisibleFrame(w, c))
    <3> DEFINE f == VisibleFrame(w, c)
    <3>1. f \in LiveFrames(w) /\ f \in FramesOf(w, c) /\ ClientOf(f) = c
      BY <1>0, <2>3, VisibleFrameTyped
    <3> HIDE DEF f
    <3>2. w.column_of[f] # col
      BY <1>1, <1>2, <2>3, <3>1 DEF Updating, ColumnChanges
    <3>3. f \in u.shaded <=> f \in w.shaded
      BY <3>1, <3>2 DEF ColumnChanges, LiveFrames
    <3>4. StyleClass(u, f) = StyleClass(w, f)
      BY DEF StyleClass, ColumnChanges
    <3>5. FramesOf(u, ClientOf(f)) = FramesOf(w, ClientOf(f)) /\ u.marked = w.marked
      BY <1>1 DEF ColumnChanges
    <3>6. \A b : Contents(u, f, b) = Contents(w, f, b)
      BY <3>4, <3>5 DEF Contents
    <3>7. w.todo_clients[c] \subseteq u.todo_clients[c]
      BY DEF ColumnChanges
    <3>8. KeepsContents(w, u, f)
      BY <3>1, <3>3, <3>6, <3>7 DEF KeepsContents
    <3>9. QED BY <3>8 DEF f
  <2>4. QED BY <2>1, <2>2, <2>3 DEF KeepsClients
<1>7. QED BY <1>0, <1>3, <1>4, <1>5, <1>6, KeepsOnScreen DEF OnScreen

\* Where the frames are in their column has nothing to do with the keyboard.
LEMMA RepositionShown ==
  ASSUME IInv, NEW f \in LiveFrames(wm), NEW i,
         NEW u, u = Reposition(f, i), NEW s, Shown(wm, s)
  PROVE  Shown(u, s)
<1> DEFINE col == wm.column_of[f]
           t == InsertAt(Erase(wm.frames[col], f), i, f)
<1>1. col \in Columns
  BY IInvGraph, FramesColumn
<1>2. u = [wm EXCEPT !.frames[col] = t, !.todo_columns = @ \cup {col}]
  BY IInvGraph DEF Reposition, ScheduleColumn, Graph
<1> HIDE DEF col, t
<1>3. /\ u.columns = wm.columns /\ u.view_of = wm.view_of /\ u.column_of = wm.column_of
      /\ u.column_activity = wm.column_activity /\ u.marked = wm.marked
      /\ u.selected_view = wm.selected_view /\ u.selected_column = wm.selected_column
      /\ u.selected_frame = wm.selected_frame
      /\ u.bar_visible = wm.bar_visible
      /\ u.todo_views = wm.todo_views /\ u.todo_columns = wm.todo_columns \cup {col}
      /\ u.todo_root = wm.todo_root
      /\ u.todo_clients = wm.todo_clients
      /\ u.frames = [wm.frames EXCEPT ![col] = t]
      /\ u.shaded = wm.shaded /\ u.decorated = wm.decorated
  BY <1>2, IInvGraph DEF Graph
<1>4. \A c \in Columns \ {col} : u.frames[c] = wm.frames[c]
  BY <1>3, IInvGraph DEF Graph
<1>5. ColumnChanges(wm, u, col)
  BY <1>3, <1>4 DEF ColumnChanges
<1>6. SelectedFrame(u) = SelectedFrame(wm)
  BY <1>3, SameSelectedFrame
<1>7. Focused(u, s)
  BY <1>3, <1>6, IInvGraph, StaysFocused DEF Shown
<1>8. QED BY <1>1, <1>5, <1>7, IInvGraph, ColumnChangesOnScreen DEF Shown

\* Nor has the decoration.
LEMMA NewDecoratedShown ==
  ASSUME NEW w, WellFormed(w), NEW f \in LiveFrames(w), NEW D,
         \A g \in Frames \ {f} : g \in D <=> g \in w.decorated,
         NEW u, u = ScheduleColumn([w EXCEPT !.decorated = D], w.column_of[f]),
         NEW s, Shown(w, s)
  PROVE  Shown(u, s)
<1> DEFINE col == w.column_of[f]
<1>0. w \in Graph /\ col \in Columns
  BY FramesColumn DEF WellFormed, WellLinked
<1>1. u = [w EXCEPT !.decorated = D, !.todo_columns = @ \cup {col}]
  BY <1>0 DEF ScheduleColumn, Graph
<1> HIDE DEF col
<1>2. /\ u.columns = w.columns /\ u.view_of = w.view_of /\ u.column_of = w.column_of
      /\ u.column_activity = w.column_activity /\ u.marked = w.marked
      /\ u.selected_view = w.selected_view /\ u.selected_column = w.selected_column
      /\ u.selected_frame = w.selected_frame
      /\ u.bar_visible = w.bar_visible
      /\ u.todo_views = w.todo_views /\ u.todo_columns = w.todo_columns \cup {col}
      /\ u.todo_root = w.todo_root
      /\ u.todo_clients = w.todo_clients
      /\ u.frames = w.frames
      /\ u.shaded = w.shaded /\ u.decorated = D
  BY <1>0, <1>1 DEF Graph
<1>3. ColumnChanges(w, u, col)
  BY <1>2 DEF ColumnChanges, col
<1>4. SelectedFrame(u) = SelectedFrame(w)
  BY <1>2, SameSelectedFrame
<1>5. Focused(u, s)
  BY <1>0, <1>2, <1>4, StaysFocused DEF Shown
<1>6. QED BY <1>0, <1>3, <1>5, ColumnChangesOnScreen DEF Shown

\* The keyboard goes from the client to the frame window, or back.
LEMMA NewShadedShown ==
  ASSUME NEW w, WellFormed(w), NEW S,
         SelectedFrame(w) # None,
         \A g \in Frames \ {SelectedFrame(w)} : g \in S <=> g \in w.shaded,
         NEW u, u = ScheduleInputFocus(ScheduleColumn([w EXCEPT !.shaded = S],
                                                      w.column_of[SelectedFrame(w)]),
                                       SelectedFrame(w)),
         NEW s, Shown(w, s)
  PROVE  Shown(u, s)
<1> DEFINE f == SelectedFrame(w)
           col == w.column_of[f]
           t == [w.todo_clients EXCEPT ![ClientOf(f)] = @ \cup {"set_input_focus"}]
<1>0. w \in Graph /\ f \in LiveFrames(w) /\ col \in Columns /\ ClientOf(f) \in Clients
  BY CurrentFrameIsLive, FramesColumn, FrameParts DEF WellFormed, WellLinked, LiveFrames
<1>1. u = [w EXCEPT !.shaded = S, !.todo_columns = @ \cup {col}, !.todo_clients = t]
  BY <1>0 DEF ScheduleColumn, ScheduleInputFocus, ScheduleTask, Graph
<1>2. \A c \in Clients : w.todo_clients[c] \subseteq t[c]
  BY <1>0 DEF Graph
<1>3. "set_input_focus" \in t[ClientOf(f)]
  BY <1>0 DEF Graph
<1> HIDE DEF col, t
<1>4. /\ u.columns = w.columns /\ u.view_of = w.view_of /\ u.column_of = w.column_of
      /\ u.column_activity = w.column_activity /\ u.marked = w.marked
      /\ u.selected_view = w.selected_view /\ u.selected_column = w.selected_column
      /\ u.selected_frame = w.selected_frame
      /\ u.bar_visible = w.bar_visible
      /\ u.todo_views = w.todo_views /\ u.todo_columns = w.todo_columns \cup {col}
      /\ u.todo_root = w.todo_root
      /\ u.todo_clients = t
      /\ u.frames = w.frames
      /\ u.shaded = S /\ u.decorated = w.decorated
  BY <1>0, <1>1 DEF Graph
<1>5. ColumnChanges(w, u, col)
  BY <1>2, <1>4 DEF ColumnChanges, col
<1>6. SelectedFrame(u) = f
  BY <1>4, SameSelectedFrame
<1>7. Focused(u, s)
  BY <1>3, <1>4, <1>6 DEF Focused, Refocused
<1>8. QED BY <1>0, <1>5, <1>7, ColumnChangesOnScreen DEF Shown

\* The columns of a view whose bar comes or goes are laid out with it.
LEMMA NewBarVisibleShown ==
  ASSUME NEW w \in Graph, NEW v \in Views, NEW S,
         \A z \in Views \ {v} : z \in S <=> z \in w.bar_visible,
         NEW u, u = ScheduleView([w EXCEPT !.bar_visible = S], v),
         NEW s, Shown(w, s)
  PROVE  Shown(u, s)
<1>1. u = [w EXCEPT !.bar_visible = S, !.todo_views = @ \cup {v}]
  BY DEF ScheduleView, Graph
<1>2. /\ u.columns = w.columns /\ u.view_of = w.view_of /\ u.column_of = w.column_of
      /\ u.column_activity = w.column_activity /\ u.marked = w.marked
      /\ u.selected_view = w.selected_view /\ u.selected_column = w.selected_column
      /\ u.selected_frame = w.selected_frame
      /\ u.bar_visible = S
      /\ u.todo_views = w.todo_views \cup {v} /\ u.todo_columns = w.todo_columns
      /\ u.todo_root = w.todo_root
      /\ u.todo_clients = w.todo_clients
      /\ u.frames = w.frames
      /\ u.shaded = w.shaded /\ u.decorated = w.decorated
  BY <1>1 DEF Graph
<1>3. LiveFrames(u) = LiveFrames(w) /\ \A c : FramesOf(u, c) = FramesOf(w, c)
  BY <1>2 DEF LiveFrames, FramesOf
<1>4. \A c : LaidOut(w, c) => LaidOut(u, c)
  BY <1>2 DEF LaidOut
<1>5. KeepsColumns(w, u, {})
  <2>1. ASSUME NEW c \in Columns, w.view_of[c] \notin {None} \cup u.todo_views
        PROVE  (w.view_of[c] \in u.bar_visible) = (w.view_of[c] \in w.bar_visible)
    <3>1. w.view_of[c] \in Views \ {v}
      BY <1>2, <2>1 DEF Graph, OrNone
    <3>2. QED BY <1>2, <3>1
  <2>2. QED BY <1>2, <2>1 DEF KeepsColumns, ColumnBounds
<1>6. KeepsFrames(w, u, {})
  BY <1>2, <1>3, <1>4 DEF KeepsFrames, FrameBounds
<1>7. KeepsRecent(w, u, {})
  BY <1>2, <1>4 DEF KeepsRecent
<1>8. KeepsClients(w, u, {})
  <2>1. \A c \in Clients : Updating(w, c) => Updating(u, c)
    BY <1>2, <1>4, MoreUpdates
  <2>2. \A c : VisibleFrame(u, c) = VisibleFrame(w, c)
    BY <1>2 DEF VisibleFrame, HasFrame
  <2>3. \A f, b : Contents(u, f, b) = Contents(w, f, b)
    BY <1>2, <1>3 DEF Contents, StyleClass
  <2>4. QED BY <1>2, <2>1, <2>2, <2>3 DEF KeepsClients, KeepsContents
<1>9. Focused(u, s)
  <2>1. SelectedFrame(u) = SelectedFrame(w)
    BY <1>2, SameSelectedFrame
  <2>2. QED BY <1>2, <2>1, StaysFocused DEF Shown
<1>10. QED BY <1>5, <1>6, <1>7, <1>8, <1>9, KeepsOnScreen DEF Shown, OnScreen

\* A frame that is marked or unmarked is drawn again.
LEMMA NewMarkedShown ==
  ASSUME NEW w, WellFormed(w), NEW f \in Frames, NEW S,
         \A g \in Frames \ {f} : g \in S <=> g \in w.marked,
         NEW u, u = ScheduleDraw([w EXCEPT !.marked = S], f),
         NEW s, Shown(w, s)
  PROVE  Shown(u, s)
<1> DEFINE t == [w.todo_clients EXCEPT ![ClientOf(f)] = @ \cup {"draw"}]
<1>0. w \in Graph /\ ClientOf(f) \in Clients /\ f # None
  BY FrameParts, NoneIsNeither DEF WellFormed, WellLinked
<1>1. u = [w EXCEPT !.marked = S, !.todo_clients = t]
  BY <1>0 DEF ScheduleDraw, ScheduleTask, Graph
<1>2. \A c \in Clients : w.todo_clients[c] \subseteq t[c]
  BY <1>0 DEF Graph
<1>3. "draw" \in t[ClientOf(f)]
  BY <1>0 DEF Graph
<1> HIDE DEF t
<1>4. /\ u.columns = w.columns /\ u.view_of = w.view_of /\ u.column_of = w.column_of
      /\ u.column_activity = w.column_activity /\ u.marked = S
      /\ u.selected_view = w.selected_view /\ u.selected_column = w.selected_column
      /\ u.selected_frame = w.selected_frame
      /\ u.bar_visible = w.bar_visible
      /\ u.todo_views = w.todo_views /\ u.todo_columns = w.todo_columns
      /\ u.todo_root = w.todo_root
      /\ u.todo_clients = t
      /\ u.frames = w.frames
      /\ u.shaded = w.shaded /\ u.decorated = w.decorated
  BY <1>0, <1>1 DEF Graph
<1>5. LiveFrames(u) = LiveFrames(w) /\ \A c : FramesOf(u, c) = FramesOf(w, c)
  BY <1>4 DEF LiveFrames, FramesOf
<1>6. \A c : LaidOut(w, c) => LaidOut(u, c)
  BY <1>4 DEF LaidOut
<1>7. KeepsColumns(w, u, {})
  BY <1>4 DEF KeepsColumns, ColumnBounds
<1>8. KeepsFrames(w, u, {})
  BY <1>4, <1>5, <1>6 DEF KeepsFrames, FrameBounds
<1>9. KeepsRecent(w, u, {})
  BY <1>4, <1>6 DEF KeepsRecent
<1>10. KeepsClients(w, u, {})
  <2>1. \A c \in Clients : Updating(w, c) => Updating(u, c)
    BY <1>2, <1>4, <1>6, MoreUpdates
  <2>2. \A c : VisibleFrame(u, c) = VisibleFrame(w, c)
    BY <1>4 DEF VisibleFrame, HasFrame
  <2>3. ASSUME NEW g \in LiveFrames(w)
        PROVE  KeepsContents(w, u, g)
    <3>1. g \in Frames /\ ClientOf(g) \in Clients
      BY FrameParts DEF LiveFrames
    <3>2. CASE g = f
      BY <1>3, <1>4, <3>2 DEF KeepsContents
    <3>3. CASE g # f
      <4>1. (g \in u.marked) = (g \in w.marked)
        BY <1>4, <3>1, <3>3
      <4>2. StyleClass(u, g) = StyleClass(w, g)
        BY <1>4 DEF StyleClass
      <4>3. FramesOf(u, ClientOf(g)) = FramesOf(w, ClientOf(g))
        BY <1>5
      <4>4. \A b : Contents(u, g, b) = Contents(w, g, b)
        BY <4>1, <4>2, <4>3 DEF Contents
      <4>5. w.todo_clients[ClientOf(g)] \subseteq u.todo_clients[ClientOf(g)]
        BY <1>2, <1>4, <3>1
      <4>6. QED BY <1>4, <4>4, <4>5 DEF KeepsContents
    <3>4. QED BY <3>2, <3>3
  <2>4. \A c \in Clients : VisibleFrame(w, c) # None => VisibleFrame(w, c) \in LiveFrames(w)
    BY <1>0, VisibleFrameTyped
  <2>5. QED BY <2>1, <2>2, <2>3, <2>4 DEF KeepsClients
<1>11. Focused(u, s)
  <2>1. SelectedFrame(u) = SelectedFrame(w)
    BY <1>4, SameSelectedFrame
  <2>2. QED BY <1>0, <1>2, <1>4, <2>1, StaysFocused DEF Shown
<1>12. QED BY <1>0, <1>7, <1>8, <1>9, <1>10, <1>11, KeepsOnScreen DEF Shown, OnScreen

\* A frame that goes into another column of its view.
LEMMA MoveToColumnShown ==
  ASSUME NEW w, WellFormed(w), NEW f \in LiveFrames(w),
         NEW target \in ColumnsOf(w, ViewOf(f)), target # w.column_of[f],
         NEW u, u = MoveToColumn(w, f, target), NEW s, Shown(w, s)
  PROVE  Shown(u, s)
<1> DEFINE r == RemoveFrame(w, f)
           a == AddFrameAfterSelected(r, f, target)
<1>1. f \in Frames /\ target \in Columns /\ w.view_of[target] = ViewOf(f)
  BY DEF LiveFrames, ColumnsOf
<1>2. /\ WellFormed(r)
      /\ r.view_of[target] = w.view_of[target]
      /\ r.column_of = [w.column_of EXCEPT ![f] = None]
  <2>1. r = RemoveFrame(w, f)
    OBVIOUS
  <2> HIDE DEF r
  <2>2. /\ WellFormed(r)
        /\ \A c \in Columns : c # w.column_of[f] => r.view_of[c] = w.view_of[c]
        /\ r.column_of = [w.column_of EXCEPT ![f] = None]
    BY <2>1, RemoveFrameWellFormed
  <2>3. QED BY <1>1, <2>2
<1>3. Shown(r, s)
  BY RemoveFrameShown
<1>4. u = SelectFrame(a, f)
  BY DEF MoveToColumn
<1> HIDE DEF r
<1>5. w.column_of \in [Frames -> OrNone(Columns)]
  BY DEF WellFormed, WellLinked, Graph
<1>6. f \in Frames \ LiveFrames(r)
  BY <1>1, <1>2, <1>5 DEF LiveFrames
<1>7. /\ WellFormed(a) /\ SameViews(r, a) /\ a.view_of = r.view_of
      /\ a.column_of = [r.column_of EXCEPT ![f] = target]
      /\ a.marked = r.marked
  BY <1>1, <1>2, <1>6, AddFrameAfterSelectedWellFormed
<1>8. Shown(a, s)
  BY <1>1, <1>2, <1>3, <1>6, AddFrameAfterSelectedShown
<1> HIDE DEF a
<1>9. f \in LiveFrames(a)
  BY <1>1, <1>2, <1>5, <1>7, NoneIsNeither DEF LiveFrames
<1>10. Reselects(a, u)
  BY <1>4, <1>7, <1>9, SelectFrameReselects
<1>11. QED BY <1>7, <1>8, <1>10, ReselectsShown DEF WellFormed, WellLinked

\* A frame that goes into a new column of its view.
LEMMA MoveToNewColumnShown ==
  ASSUME NEW w, WellFormed(w), FreeColumns(w) # {}, NEW f \in LiveFrames(w),
         NEW i \in 1..(Len(w.columns[ViewOf(f)]) + 1),
         NEW u, u = MoveToNewColumn(w, f, i), NEW s, Shown(w, s)
  PROVE  Shown(u, s)
<1> DEFINE v == ViewOf(f)
           col == NewColumn(w)
           m == CreateColumn(w, v, i, col)
<1>1. col \in FreeColumns(w)
  BY NewColumnIsFree
<1>2. v \in w.views
  BY FramesViewExists
<1>3. u = MoveToColumn(m, f, col)
  BY DEF MoveToNewColumn
<1> HIDE DEF col
<1>4. /\ WellFormed(m) /\ m.column_of = w.column_of
      /\ \A c \in Columns : m.view_of[c] = IF c = col THEN v ELSE w.view_of[c]
  BY <1>1, <1>2, CreateColumnWellFormed DEF SameFrames
<1>5. Shown(m, s)
  BY <1>1, <1>2, CreateColumnShown
<1> HIDE DEF m
<1>6. col \in ColumnsOf(m, ViewOf(f))
  BY <1>1, <1>4 DEF FreeColumns, ColumnsOf
<1>7. col # m.column_of[f]
  <2>1. w.view_of[w.column_of[f]] # None
    BY FramesColumn, NoneIsNeither
  <2>2. QED BY <1>1, <1>4, <2>1 DEF FreeColumns
<1>8. f \in LiveFrames(m)
  BY <1>4 DEF LiveFrames
<1>9. QED BY <1>3, <1>4, <1>5, <1>6, <1>7, <1>8, MoveToColumnShown

\* A frame that enters a view under its new name.
LEMMA CarriedFrameShown ==
  ASSUME NEW w, WellFormed(w),
         NEW f \in LiveFrames(w), NEW v \in w.views, v # ViewOf(f) \/ v = w.selected_view,
         NEW r, r = RemoveFrame(w, f), FreeColumns(r) # {},
         NEW g \in Frames, ViewOf(g) = v, g \notin LiveFrames(r),
         NEW u, u = PlaceInSmallestColumn(CarryFrame(r, f, g), g, NewColumn(r)),
         NEW s, Shown(w, s)
  PROVE  Shown(u, s)
<1> DEFINE k == CarryFrame(r, f, g)
           col == NewColumn(r)
<1>1. f \in Frames /\ w \in Graph /\ v \in Views
  BY DEF LiveFrames, WellFormed, WellLinked, Graph
<1>2. /\ WellFormed(r)
      /\ r.selected_view = w.selected_view
      /\ r.views = w.views \/ r.views = w.views \ {ViewOf(f)}
      /\ r.column_of = [w.column_of EXCEPT ![f] = None]
  BY RemoveFrameWellFormed
<1>3. Shown(r, s)
  BY RemoveFrameShown
<1>4. f \in Frames \ LiveFrames(r) /\ g \in Frames \ LiveFrames(r)
  BY <1>1, <1>2 DEF LiveFrames, Graph
<1>5. v \in r.views
  BY <1>1, <1>2, NoneIsNeither DEF WellFormed, Selection, OrNone
<1>6. r \in Graph
  BY <1>2 DEF WellFormed, WellLinked
<1>7. Repaints(r, k)
  BY <1>1, <1>6, CarryFrameEffect
<1>8. Shown(k, s)
  BY <1>2, <1>3, <1>4, CarryFrameShown
<1>9. col \in FreeColumns(r)
  BY NewColumnIsFree
<1> HIDE DEF k, col
<1>10. WellFormed(k)
  BY <1>2, <1>7, RepaintsWellFormed
<1>11. /\ LiveFrames(k) = LiveFrames(r) /\ FreeColumns(k) = FreeColumns(r)
       /\ k.views = r.views
  BY <1>7 DEF Repaints, SameViews, LiveFrames, FreeColumns
<1>12. g \in Frames \ LiveFrames(k) /\ ViewOf(g) \in k.views /\ col \in FreeColumns(k)
  BY <1>4, <1>5, <1>9, <1>11
<1>13. u = PlaceInSmallestColumn(k, g, col)
  BY DEF k, col
<1>14. QED BY <1>8, <1>10, <1>12, <1>13, PlaceInSmallestColumnShown

\* A new frame of a client that enters a view.
LEMMA CopiedFrameShown ==
  ASSUME NEW w, WellFormed(w),
         NEW g \in Frames \ LiveFrames(w), ViewOf(g) \in w.views,
         NEW col \in FreeColumns(w),
         NEW u, u = PlaceInSmallestColumn(NewFrame(w, g), g, col),
         NEW s, Shown(w, s)
  PROVE  Shown(u, s)
<1> DEFINE k == NewFrame(w, g)
<1>1. w \in Graph
  BY DEF WellFormed, WellLinked
<1>2. Repaints(w, k)
  BY <1>1, NewFrameEffect
<1>3. u = PlaceInSmallestColumn(k, g, col)
  OBVIOUS
<1>4. Shown(k, s)
  BY NewFrameShown
<1> HIDE DEF k
<1>5. WellFormed(k)
  BY <1>2, RepaintsWellFormed
<1>6. /\ LiveFrames(k) = LiveFrames(w) /\ FreeColumns(k) = FreeColumns(w)
      /\ k.views = w.views
  BY <1>2 DEF Repaints, SameViews, LiveFrames, FreeColumns
<1>7. g \in Frames \ LiveFrames(k) /\ ViewOf(g) \in k.views /\ col \in FreeColumns(k)
  BY <1>6
<1>8. QED BY <1>3, <1>4, <1>5, <1>7, PlaceInSmallestColumnShown

-----------------------------------------------------------------------------
(* The inductive invariant.                                                *)

NothingScheduled(w) ==
  /\ w.todo_views = {} /\ w.todo_columns = {} /\ ~ w.todo_root
  /\ \A c \in Clients : w.todo_clients[c] = {}

\* The screen shows the graph at every moment, but for what is scheduled; nothing
\* is when the loop waits.  There is always a current view for the frames there
\* are, or else a client could be placed without being shown.
ScreenInv ==
  /\ Shown(wm, screen)
  /\ Settled => NothingScheduled(wm)
  /\ handler # Idle => batch > 0
  /\ wm.selected_view = None => LiveFrames(wm) = {}
  /\ DOMAIN screen.placed = Clients /\ DOMAIN screen.drawn = Clients

\* A handler keeps it when it schedules enough.
LEMMA HandlesScreenInv ==
  ASSUME IInv, ScreenInv, Handles, Shown(wm', screen),
         wm'.selected_view = None => LiveFrames(wm') = {}
  PROVE  ScreenInv'
<1>1. batch' > 0 /\ handler' = Idle /\ screen' = screen
  BY DEF IInv, TypeOK, Handles
<1>2. QED BY <1>1 DEF ScreenInv, Settled

\* Most neither add a frame nor show another view.
LEMMA SameTagsScreenInv ==
  ASSUME IInv, ScreenInv, Handles, Shown(wm', screen), SameTags(wm, wm')
  PROVE  ScreenInv'
BY HandlesScreenInv DEF ScreenInv, SameTags

\* So does an iteration of a handler that loops.
LEMMA IterationScreenInv ==
  ASSUME ScreenInv, UNCHANGED <<managed, handler, batch, screen>>, handler # Idle,
         Shown(wm', screen),
         wm'.selected_view = None => LiveFrames(wm') = {}
  PROVE  ScreenInv'
BY DEF ScreenInv, Settled

\* The black screen of a WM that has just started is that of the empty graph.
LEMMA InitScreenInv == Init => ScreenInv
<1> SUFFICES ASSUME Init PROVE ScreenInv
  OBVIOUS
<1>1. /\ wm.selected_view = None
      /\ \A v \in Views : wm.selected_column[v] = None
      /\ \A col \in Columns : wm.view_of[col] = None /\ wm.frames[col] = <<>>
      /\ \A f \in Frames : wm.column_of[f] = None
      /\ wm.todo_views = {} /\ wm.todo_columns = {} /\ wm.todo_root = FALSE
      /\ \A c \in Clients : wm.todo_clients[c] = {}
  BY DEF Init, EmptyGraph
<1>2. /\ screen.client_mapped = {} /\ screen.frame_mapped = {} /\ screen.focus = <<"root">>
      /\ DOMAIN screen.placed = Clients /\ DOMAIN screen.drawn = Clients
  BY DEF Init
<1>3. LiveFrames(wm) = {} /\ \A c : VisibleFrame(wm, c) = None
  BY <1>1 DEF LiveFrames, VisibleFrame, HasFrame
<1>4. SelectedFrame(wm) = None
  BY <1>1 DEF SelectedFrame, SelectedFrameOfView
<1>5. OnScreen(wm, screen)
  BY <1>1, <1>2, <1>3 DEF OnScreen, OnScreenBut, ColumnsPlaced, FramesPlaced, ClientsPlaced,
     ClientPlaced, ClientDrawn, RecentOpen
<1>6. Focused(wm, screen)
  BY <1>2, <1>4 DEF Focused
<1>7. handler = Idle
  BY DEF Init
<1>8. QED BY <1>1, <1>2, <1>3, <1>5, <1>6, <1>7 DEF ScreenInv, Shown, NothingScheduled

\* The part of the invariants most steps use.
LEMMA ScreenInvShown ==
  ASSUME ScreenInv
  PROVE  Shown(wm, screen)
BY DEF ScreenInv

-----------------------------------------------------------------------------
(* Events.                                                                 *)

\* A client that is visible is activated.
LEMMA ActivateClientShows ==
  ASSUME IInv, ScreenInv, NEW c \in Clients, ActivateClient(c)
  PROVE  ScreenInv'
<1> DEFINE f == VisibleFrame(wm, c)
           w == SelectFrame(wm, f)
<1>1. f \in LiveFrames(wm)
  BY IInvGraph, VisibleFrameIsLive DEF ActivateClient
<1>2. Handles /\ wm' = HandleFrameActivity(w)
  BY DEF ActivateClient, Handle, Handles
<1>3. SameTags(wm, wm')
  BY ActivateClientStep
<1> HIDE DEF f
<1>4. WellFormed(w) /\ Reselects(wm, w)
  BY <1>1, IInvGraph, SelectFrameWellFormed, SelectFrameReselects
<1> HIDE DEF w
<1>5. Shown(w, screen)
  BY <1>4, IInvGraph, ScreenInvShown, ReselectsShown
<1>6. Shown(wm', screen)
  BY <1>2, <1>4, <1>5, HandleFrameActivityShown
<1>7. QED BY <1>2, <1>3, <1>6, SameTagsScreenInv

\* The pointer enters another frame.
LEMMA EnterNotifyShows ==
  ASSUME IInv, ScreenInv, NEW c \in Clients, EnterNotify(c)
  PROVE  ScreenInv'
<1> DEFINE f == VisibleFrame(wm, c)
<1>1. f \in LiveFrames(wm)
  BY IInvGraph, VisibleFrameIsLive DEF EnterNotify
<1>2. Handles /\ wm' = SelectFrame(wm, f)
  BY DEF EnterNotify, Handle, Handles
<1>3. SameTags(wm, wm')
  BY EnterNotifyStep
<1> HIDE DEF f
<1>4. Shown(wm', screen)
  BY <1>1, <1>2, IInvGraph, ScreenInvShown, SelectFrameReselects, ReselectsShown
<1>5. QED BY <1>2, <1>3, <1>4, SameTagsScreenInv

\* The height a client wants may have changed.
LEMMA UpdateSizeHintsShows ==
  ASSUME IInv, ScreenInv, NEW c \in Clients, UpdateSizeHints(c)
  PROVE  ScreenInv'
<1> DEFINE S == {wm.column_of[f] : f \in FramesOf(wm, c)}
           T == wm.todo_columns \cup S
<1>1. Handles /\ wm' = [wm EXCEPT !.todo_columns = T]
  BY DEF UpdateSizeHints, Handle, Handles
<1>2. T \in SUBSET Columns
  <2>1. S \subseteq Columns
    BY IInvGraph DEF FramesOf, LiveFrames, Graph, OrNone
  <2> HIDE DEF S
  <2>2. QED BY <2>1, IInvGraph DEF Graph
<1>3. wm.todo_columns \subseteq T
  OBVIOUS
<1> HIDE DEF T
<1>4. Schedules(wm, wm')
  BY <1>1, <1>2, IInvGraph, ColumnRequests
<1>5. /\ wm'.todo_columns = T /\ wm'.todo_views = wm.todo_views
      /\ wm'.todo_clients = wm.todo_clients /\ wm'.todo_root = wm.todo_root
      /\ SameLook(wm, wm')
  BY <1>1, IInvGraph DEF Graph, SameLook
<1>6. MoreTasks(wm, wm')
  BY <1>3, <1>5 DEF MoreTasks
<1>7. Shown(wm', screen)
  BY <1>4, <1>5, <1>6, IInvGraph, ScreenInvShown, AsksShown DEF Asks
<1>8. QED BY <1>1, <1>7, UpdateSizeHintsStep, SameTagsScreenInv

\* The activity timer fires.
LEMMA ActivityTimeoutShows ==
  ASSUME IInv, ScreenInv, ActivityTimeout
  PROVE  ScreenInv'
<1> DEFINE w == [wm EXCEPT !.timer = FALSE]
<1>1. Handles /\ wm' = HandleFrameActivity(w)
  BY DEF ActivityTimeout, Handle, Handles
<1>2. FALSE \in BOOLEAN
  OBVIOUS
<1>3. Schedules(wm, w)
  BY <1>2, IInvGraph, NewTimer
<1>4. /\ w.todo_columns = wm.todo_columns /\ w.todo_views = wm.todo_views
      /\ w.todo_clients = wm.todo_clients /\ w.todo_root = wm.todo_root
      /\ SameLook(wm, w)
  BY IInvGraph DEF Graph, SameLook
<1> HIDE DEF w
<1>5. Asks(wm, w)
  BY <1>3, <1>4 DEF Asks, MoreTasks
<1>6. WellFormed(w) /\ Shown(w, screen)
  BY <1>3, <1>5, IInvGraph, ScreenInvShown, SchedulesWellFormed, AsksShown
<1>7. Shown(wm', screen)
  BY <1>1, <1>6, HandleFrameActivityShown
<1>8. QED BY <1>1, <1>7, ActivityTimeoutStep, SameTagsScreenInv

-----------------------------------------------------------------------------
(* Commands.                                                               *)

\* SelectLeft and SelectRight.
LEMMA SelectBesideShows ==
  ASSUME IInv, ScreenInv, SelectLeft \/ SelectRight
  PROVE  ScreenInv'
<1> DEFINE v == wm.selected_view
           col == SelectedColumn(wm)
           s == wm.columns[v]
<1>1. PICK next \in {Next1(s, col), Prior1(s, col)} :
        col # None /\ Handles /\ wm' = SelectColumn(wm, v, next)
  BY DEF SelectLeft, SelectRight, SelectBeside, Handle, Handles
<1>2. v \in Views /\ col \in ColumnsOf(wm, v)
  <2>1. v # None /\ col = wm.selected_column[v]
    BY <1>1 DEF SelectedColumn
  <2>2. v \in Views
    BY <2>1, IInvGraph DEF Graph, OrNone
  <2>3. QED BY <1>1, <2>1, <2>2, IInvGraph DEF WellFormed, Selection, Selects
<1>3. s \in Seq(Columns) /\ Enumerates(s, ColumnsOf(wm, v))
  BY <1>2, IInvGraph DEF WellLinked, Graph, Tree
<1>4. next \in OrNone(ColumnsOf(wm, v))
  BY <1>1, <1>2, <1>3, NeighboursProperties DEF OrNone
<1> HIDE DEF s, v, col
<1>5. NothingDangles(wm)
  BY IInvGraph, SelectionDoesNotDangle DEF WellFormed
<1>6. Shown(wm', screen)
  BY <1>1, <1>2, <1>4, <1>5, IInvGraph, ScreenInvShown, SelectColumnReselects, ReselectsShown
<1>7. QED BY <1>1, <1>6, SelectBesideStep, SameTagsScreenInv

\* SelectUp, SelectDown and NextByActivityInColumn.
LEMMA SelectWithinShows ==
  ASSUME IInv, ScreenInv, SelectUp \/ SelectDown \/ NextByActivityInColumn
  PROVE  ScreenInv'
<1> DEFINE f == SelectedFrame(wm)
           col == SelectedColumn(wm)
<1>1. f # None /\ Handles
  BY DEF SelectUp, SelectDown, SelectWithin, NextByActivityInColumn, OnSelectedFrame, Handle,
         Handles
<1>2. f \in FramesIn(wm, col) /\ col \in Columns
  BY <1>1, IInvGraph, CurrentFrameIsLive
<1>3. wm.column_of[f] = col
  BY <1>2 DEF FramesIn
<1>4. PICK s \in {wm.frames[col], wm.column_activity[col]} :
      \E next \in {Next1(s, f), Prior1(s, f)} : wm' = SelectFrameInColumn(wm, col, next)
  BY <1>3 DEF SelectUp, SelectDown, SelectWithin, NextByActivityInColumn, OnSelectedFrame, Handle
<1>5. s \in Seq(Frames) /\ Enumerates(s, FramesIn(wm, col))
  BY <1>2, <1>4, IInvGraph DEF WellLinked, Graph, Tree, Histories
<1>6. PICK next \in FramesIn(wm, col) : wm' = SelectFrameInColumn(wm, col, next)
  BY <1>2, <1>4, <1>5, NeighboursProperties
<1>7. next \in OrNone(Frames)
  BY DEF FramesIn, OrNone
<1> HIDE DEF f, col
<1>8. NothingDangles(wm)
  BY IInvGraph, SelectionDoesNotDangle DEF WellFormed
<1>9. Shown(wm', screen)
  BY <1>2, <1>6, <1>7, <1>8, IInvGraph, ScreenInvShown, SelectFrameInColumnReselects, ReselectsShown
<1>10. QED BY <1>1, <1>9, SelectWithinStep, SameTagsScreenInv

\* The next frame by activity in the view ...
LEMMA NextByActivityInViewShows ==
  ASSUME IInv, ScreenInv, NextByActivityInView
  PROVE  ScreenInv'
<1> DEFINE f == SelectedFrame(wm)
           v == ViewOf(f)
           next == Next1(wm.view_activity[v], f)
<1>1. f # None /\ Handles /\ wm' = SelectFrame(wm, next)
  BY DEF NextByActivityInView, OnSelectedFrame, Handle, Handles
<1>2. f \in FramesOfView(wm, v) /\ v \in Views
  BY <1>1, IInvGraph, CurrentFrameIsLive, FrameParts DEF FramesOfView, LiveFrames
<1>3. wm.view_activity[v] \in Seq(Frames) /\ Enumerates(wm.view_activity[v], FramesOfView(wm, v))
  BY <1>2, IInvGraph DEF WellLinked, Graph, Histories
<1>4. next \in LiveFrames(wm)
  BY <1>2, <1>3, NeighboursProperties DEF FramesOfView
<1> HIDE DEF next
<1>5. Shown(wm', screen)
  BY <1>1, <1>4, IInvGraph, ScreenInvShown, SelectFrameReselects, ReselectsShown
<1>6. QED BY <1>1, <1>5, NextByActivityInViewStep, SameTagsScreenInv

\* ... and in all of them.
LEMMA NextByActivityShows ==
  ASSUME IInv, ScreenInv, NextByActivity
  PROVE  ScreenInv'
<1> DEFINE f == SelectedFrame(wm)
           next == Next1(wm.activity, f)
           w == SelectFrame(wm, next)
<1>1. f # None /\ Handles /\ wm' = SelectView(w, ViewOf(next))
  BY DEF NextByActivity, OnSelectedFrame, Handle, Handles
<1>2. f \in LiveFrames(wm)
  BY <1>1, IInvGraph, CurrentFrameIsLive
<1>3. wm.activity \in Seq(Frames) /\ Enumerates(wm.activity, LiveFrames(wm))
  BY IInvGraph DEF WellLinked, Graph, Histories
<1>4. next \in LiveFrames(wm)
  BY <1>2, <1>3, NeighboursProperties
<1> HIDE DEF next
<1>5. WellFormed(w) /\ SameLinks(wm, w) /\ Reselects(wm, w)
  BY <1>4, IInvGraph, SelectFrameWellFormed, SelectFrameReselects
<1>6. ViewOf(next) \in w.views
  BY <1>4, <1>5, FramesViewExists DEF SameLinks, LiveFrames
<1> HIDE DEF w
<1>7. Shown(w, screen)
  BY <1>5, IInvGraph, ScreenInvShown, ReselectsShown
<1>8. Shown(wm', screen)
  BY <1>1, <1>5, <1>6, <1>7, SelectViewShown
<1>9. wm'.selected_view # None
  BY NextByActivityStep, NoneIsNeither
<1>10. QED BY <1>1, <1>8, <1>9, HandlesScreenInv

\* Another view is shown.
LEMMA SwitchToViewShows ==
  ASSUME IInv, ScreenInv, NEW v \in Views, SwitchToView(v)
  PROVE  ScreenInv'
<1> DEFINE w == GetOrCreateView(wm, v)
<1>1. Handles /\ wm' = SelectView(w, v)
  BY DEF SwitchToView, Handle, Handles
<1>2. WellFormed(w) /\ v \in w.views /\ Shown(w, screen)
  BY IInvGraph, ScreenInvShown, GetOrCreateViewWellFormed, GetOrCreateViewShown
<1> HIDE DEF w
<1>3. Shown(wm', screen)
  BY <1>1, <1>2, SelectViewShown
<1>4. wm'.selected_view # None
  BY SwitchToViewStep, NoneIsNeither
<1>5. QED BY <1>1, <1>3, <1>4, HandlesScreenInv

\* MoveLeft and MoveRight.
LEMMA MoveAcrossShows ==
  ASSUME IInv, ScreenInv, MoveLeft \/ MoveRight
  PROVE  ScreenInv'
<1> DEFINE f == SelectedFrame(wm)
           cols == wm.columns[ViewOf(f)]
           col == wm.column_of[f]
           i == Position(cols, col)
<1>1. f # None /\ Handles /\ FreeColumns(wm) # {}
  BY DEF MoveLeft, MoveRight, OnSelectedFrame, Handle, Handles
<1>2. f \in LiveFrames(wm)
  BY <1>1, IInvGraph, CurrentFrameIsLive
<1>3. col \in ColumnsOf(wm, ViewOf(f)) /\ ViewOf(f) \in Views
  BY <1>2, IInvGraph, FramesColumn
<1>4. cols \in Seq(Columns) /\ Enumerates(cols, ColumnsOf(wm, ViewOf(f)))
  BY <1>3, IInvGraph DEF WellLinked, Graph, Tree
<1>5. /\ Len(cols) \in Nat /\ i \in 1..Len(cols) /\ cols[i] = col
      /\ \A j \in 1..Len(cols) : cols[j] \in ColumnsOf(wm, ViewOf(f))
  BY <1>3, <1>4, EnumerationProperties
<1>6. \/ i = 1 /\ wm' = MoveToNewColumn(wm, f, 1)
      \/ i # 1 /\ wm' = MoveToColumn(wm, f, cols[i - 1])
      \/ i = Len(cols) /\ wm' = MoveToNewColumn(wm, f, i + 1)
      \/ i # Len(cols) /\ wm' = MoveToColumn(wm, f, cols[i + 1])
  BY DEF MoveLeft, MoveRight, OnSelectedFrame, Handle
<1> HIDE DEF f, i, col
<1>7. Shown(wm', screen)
  <2>1. CASE \E k \in {1, i + 1} : wm' = MoveToNewColumn(wm, f, k)
    <3>1. PICK k \in {1, i + 1} : wm' = MoveToNewColumn(wm, f, k)
      BY <2>1
    <3>2. k \in 1..(Len(cols) + 1)
      BY <1>5
    <3>3. QED BY <1>1, <1>2, <3>1, <3>2, IInvGraph, ScreenInvShown, MoveToNewColumnShown
  <2>2. CASE \E k \in 1..Len(cols) : k # i /\ wm' = MoveToColumn(wm, f, cols[k])
    <3>1. PICK k \in 1..Len(cols) : k # i /\ wm' = MoveToColumn(wm, f, cols[k])
      BY <2>2
    <3>2. cols[k] # col /\ cols[k] \in ColumnsOf(wm, ViewOf(f))
      BY <1>4, <1>5, <3>1, EnumerationIsInjective
    <3>3. QED BY <1>2, <3>1, <3>2, IInvGraph, ScreenInvShown, MoveToColumnShown DEF col
  <2>3. i # 1 => i - 1 \in 1..Len(cols) /\ i - 1 # i
    BY <1>5
  <2>4. i # Len(cols) => i + 1 \in 1..Len(cols) /\ i + 1 # i
    BY <1>5
  <2>5. QED BY <1>6, <2>1, <2>2, <2>3, <2>4
<1>8. QED BY <1>1, <1>7, MoveAcrossStep, SameTagsScreenInv

\* MoveUp and MoveDown.
LEMMA MoveWithinShows ==
  ASSUME IInv, ScreenInv, MoveUp \/ MoveDown
  PROVE  ScreenInv'
<1> DEFINE f == SelectedFrame(wm)
<1>1. f # None /\ Handles
  BY DEF MoveUp, MoveDown, OnSelectedFrame, Handle, Handles
<1>2. f \in LiveFrames(wm)
  BY <1>1, IInvGraph, CurrentFrameIsLive
<1>3. wm' = wm \/ \E i : wm' = Reposition(f, i)
  BY DEF MoveUp, MoveDown, OnSelectedFrame, Handle
<1> HIDE DEF f
<1>4. Shown(wm', screen)
  BY <1>2, <1>3, ScreenInvShown, RepositionShown
<1>5. QED BY <1>1, <1>4, MoveWithinStep, SameTagsScreenInv

\* Toggling leaves the other members alone.
LEMMA ToggleOnly == \A S, e : \A g : g # e => (g \in Toggle(S, e) <=> g \in S)
BY DEF Toggle

\* ToggleShaded and ToggleDecorated.
LEMMA ToggleLookShows ==
  ASSUME IInv, ScreenInv, ToggleShaded \/ ToggleDecorated
  PROVE  ScreenInv'
<1> DEFINE f == SelectedFrame(wm)
           S == Toggle(wm.shaded, f)
           D == Toggle(wm.decorated, f)
<1>1. f # None /\ Handles
  BY DEF ToggleShaded, ToggleDecorated, OnSelectedFrame, Handle, Handles
<1>2. f \in LiveFrames(wm)
  BY <1>1, CommandFrame
<1>3. \/ wm' = ScheduleInputFocus(ScheduleColumn([wm EXCEPT !.shaded = S], wm.column_of[f]), f)
      \/ wm' = ScheduleColumn([wm EXCEPT !.decorated = D], wm.column_of[f])
  BY DEF ToggleShaded, ToggleDecorated, OnSelectedFrame, Handle
<1>4. \A g \in Frames \ {f} : (g \in S <=> g \in wm.shaded) /\ (g \in D <=> g \in wm.decorated)
  BY ToggleOnly
<1> HIDE DEF S, D
<1>4a. WellFormed(wm) /\ Shown(wm, screen)
  BY IInvGraph, ScreenInvShown
<1>4b. \A g \in Frames \ {f} : g \in D <=> g \in wm.decorated
  BY <1>4
<1>5. Shown(wm', screen)
  <2>1. CASE wm' = ScheduleInputFocus(ScheduleColumn([wm EXCEPT !.shaded = S], wm.column_of[f]), f)
    BY <1>1, <1>4, <2>1, IInvGraph, ScreenInvShown, NewShadedShown
  <2>2. CASE wm' = ScheduleColumn([wm EXCEPT !.decorated = D], wm.column_of[f])
    BY <1>2, <1>4a, <1>4b, <2>2, NewDecoratedShown
  <2>3. QED BY <1>3, <2>1, <2>2
<1>6. QED BY <1>1, <1>5, ToggleLookStep, SameTagsScreenInv

\* The bar of the current view is shown or hidden.
LEMMA ToggleBarVisibleShows ==
  ASSUME IInv, ScreenInv, ToggleBarVisible
  PROVE  ScreenInv'
<1> DEFINE v == wm.selected_view
           S == Toggle(wm.bar_visible, v)
<1>1. v # None /\ Handles /\ wm' = ScheduleView([wm EXCEPT !.bar_visible = S], v)
  BY DEF ToggleBarVisible, Handle, Handles
<1>2. v \in Views
  BY <1>1, IInvGraph DEF Graph, OrNone
<1>3. \A z \in Views \ {v} : z \in S <=> z \in wm.bar_visible
  BY ToggleOnly
<1> HIDE DEF v, S
<1>4. Shown(wm', screen)
  BY <1>1, <1>2, <1>3, IInvGraph, ScreenInvShown, NewBarVisibleShown
<1>5. QED BY <1>1, <1>4, ToggleBarVisibleStep, SameTagsScreenInv

\* The selected frame is marked or unmarked.
LEMMA ToggleMarkedShows ==
  ASSUME IInv, ScreenInv, ToggleMarked
  PROVE  ScreenInv'
<1> DEFINE f == SelectedFrame(wm)
           S == Toggle(wm.marked, f)
<1>1. f # None /\ Handles /\ wm' = ScheduleDraw([wm EXCEPT !.marked = S], f)
  BY DEF ToggleMarked, OnSelectedFrame, Handle, Handles
<1>2. f \in Frames
  BY <1>1, CommandFrame
<1>3. \A g \in Frames \ {f} : g \in S <=> g \in wm.marked
  BY ToggleOnly
<1> HIDE DEF f, S
<1>4. WellFormed(wm) /\ Shown(wm, screen)
  BY IInvGraph, ScreenInvShown
<1>5. \A u, s : u = ScheduleDraw([wm EXCEPT !.marked = S], f) /\ Shown(wm, s) => Shown(u, s)
  BY <1>2, <1>3, <1>4, NewMarkedShown
<1>6. Shown(wm', screen)
  BY <1>1, <1>4, <1>5
<1>7. QED BY <1>1, <1>6, ToggleMarkedStep, SameTagsScreenInv

-----------------------------------------------------------------------------
(* Commands that add and remove frames, and the clients that come and go.  *)

\* A frame goes into another view.
LEMMA MoveFrameToViewShows ==
  ASSUME IInv, ScreenInv, NEW f \in Frames, NEW v \in Views, MoveFrameToView(f, v)
  PROVE  ScreenInv'
<1> DEFINE g == <<ClientOf(f), v>>
           w == GetOrCreateView(wm, v)
           r == RemoveFrame(w, f)
<1>1. /\ f \in LiveFrames(wm) /\ g \notin LiveFrames(wm) /\ FreeColumns(wm) # {}
      /\ Handles
      /\ wm' = PlaceInSmallestColumn(CarryFrame(r, f, g), g, NewColumn(r))
  BY DEF MoveFrameToView, Handle, Handles
<1>2. v # ViewOf(f)
  BY <1>1, FrameParts
<1>3. g \in Frames /\ ViewOf(g) = v
  BY FrameParts, PairIsFrame
<1>4. WellFormed(w) /\ SameLinks(wm, w) /\ v \in w.views /\ Shown(w, screen)
  BY IInvGraph, ScreenInvShown, GetOrCreateViewWellFormed, GetOrCreateViewShown
<1> HIDE DEF w, g
<1>5. LiveFrames(w) = LiveFrames(wm) /\ FreeColumns(w) = FreeColumns(wm)
  BY <1>4 DEF SameLinks, LiveFrames, FreeColumns
<1>6. /\ WellFormed(r)
      /\ \A c \in Columns : c # w.column_of[f] => r.view_of[c] = w.view_of[c]
      /\ r.column_of = [w.column_of EXCEPT ![f] = None]
  BY <1>1, <1>4, <1>5, RemoveFrameWellFormed
<1> HIDE DEF r
<1>7. FreeColumns(r) # {}
  <2>1. PICK col \in Columns : w.view_of[col] = None
    BY <1>1, <1>5 DEF FreeColumns
  <2>2. w.view_of[w.column_of[f]] # None
    BY <1>1, <1>4, <1>5, FramesColumn, NoneIsNeither
  <2>3. QED BY <1>6, <2>1, <2>2 DEF FreeColumns
<1>8. g \notin LiveFrames(r)
  <2>1. w.column_of \in [Frames -> OrNone(Columns)]
    BY <1>4 DEF WellFormed, WellLinked, Graph
  <2>2. LiveFrames(r) \subseteq LiveFrames(w)
    BY <1>6, <2>1 DEF LiveFrames
  <2>3. QED BY <1>1, <1>5, <2>2
<1>9. f \in LiveFrames(w)
  BY <1>1, <1>5
<1>10. r = RemoveFrame(w, f)
  BY DEF r
<1>11. Shown(wm', screen)
  BY <1>1, <1>2, <1>3, <1>4, <1>7, <1>8, <1>9, <1>10, CarriedFrameShown
<1>12. wm'.selected_view # None
  BY <1>1, MoveFrameToViewStep DEF ScreenInv
<1>13. QED BY <1>1, <1>11, <1>12, HandlesScreenInv

\* A client gets one more frame, in another view.
LEMMA CopyFrameToViewShows ==
  ASSUME IInv, ScreenInv, NEW f \in Frames, NEW v \in Views, CopyFrameToView(f, v)
  PROVE  ScreenInv'
<1> DEFINE g == <<ClientOf(f), v>>
           w == GetOrCreateView(wm, v)
           col == NewColumn(wm)
<1>1. /\ f \in LiveFrames(wm) /\ g \notin LiveFrames(wm) /\ FreeColumns(wm) # {}
      /\ Handles
      /\ wm' = PlaceInSmallestColumn(NewFrame(w, g), g, col)
  BY DEF CopyFrameToView, Handle, Handles
<1>2. g \in Frames /\ ViewOf(g) = v
  BY FrameParts, PairIsFrame
<1>3. WellFormed(w) /\ SameLinks(wm, w) /\ v \in w.views /\ Shown(w, screen)
  BY IInvGraph, ScreenInvShown, GetOrCreateViewWellFormed, GetOrCreateViewShown
<1>4. col \in FreeColumns(wm)
  BY <1>1, NewColumnIsFree
<1> HIDE DEF w, g, col
<1>5. LiveFrames(w) = LiveFrames(wm) /\ FreeColumns(w) = FreeColumns(wm)
  BY <1>3 DEF SameLinks, LiveFrames, FreeColumns
<1>6. Shown(wm', screen)
  BY <1>1, <1>2, <1>3, <1>4, <1>5, CopiedFrameShown
<1>7. wm'.selected_view # None
  BY <1>1, CopyFrameToViewStep DEF ScreenInv
<1>8. QED BY <1>1, <1>6, <1>7, HandlesScreenInv

\* The selected frame goes.
LEMMA RemoveCurrentFrameShows ==
  ASSUME IInv, ScreenInv, RemoveCurrentFrame
  PROVE  ScreenInv'
<1> DEFINE f == SelectedFrame(wm)
<1>1. f # None /\ Handles /\ wm' = DeleteFrame(wm, f)
  BY DEF RemoveCurrentFrame, Handle, Handles
<1>2. f \in LiveFrames(wm)
  BY <1>1, IInvGraph, CurrentFrameIsLive
<1> HIDE DEF f
<1>3. Shown(wm', screen)
  BY <1>1, <1>2, IInvGraph, ScreenInvShown, DeleteFrameShown
<1>4. wm'.selected_view # None
  BY <1>2, RemoveCurrentFrameStep DEF ScreenInv
<1>5. QED BY <1>1, <1>3, <1>4, HandlesScreenInv

\* A client that was not managed has no frame, and where there is no current view
\* there is none at all.
LEMMA ManageClientShows ==
  ASSUME IInv, ScreenInv, NEW c \in Clients, ManageClient(c)
  PROVE  ScreenInv'
<1> DEFINE col == NewColumn(wm)
<1>1. /\ c \notin managed /\ handler = Idle
      /\ wm' = PlaceClient(wm, c, Misc, col)
      /\ batch' = batch + 1 /\ handler' = handler /\ screen' = screen
  BY DEF ManageClient
<1>2. FramesOf(wm, c) = {}
  BY <1>1 DEF IInv, EveryClientIsReachable
<1>3. col \in FreeColumns(wm)
  BY NewColumnIsFree DEF ManageClient
<1>4. wm.selected_view = None => wm.views = {}
  <2>1. ASSUME wm.selected_view = None, NEW v \in wm.views
        PROVE  FALSE
    <3>1. v \in Views /\ v # None
      BY IInvGraph, NoneIsNeither DEF Graph
    <3>2. PICK d \in Columns : wm.view_of[d] = v
      BY <2>1, <3>1, IInvGraph DEF NoneEmptyBut, ColumnsOf
    <3>3. PICK f \in Frames : wm.column_of[f] = d
      BY <3>1, <3>2, IInvGraph DEF NoneEmptyBut, FramesIn
    <3>4. f \in LiveFrames(wm)
      BY <3>2, <3>3, NoneIsNeither DEF LiveFrames
    <3>5. QED BY <2>1, <3>4 DEF ScreenInv
  <2>2. QED BY <2>1
<1> HIDE DEF col
<1>5. \A u, s : u = PlaceClient(wm, c, Misc, col) /\ Shown(wm, s) => Shown(u, s)
  BY <1>2, <1>3, <1>4, IInvGraph, MiscAssumption, PlaceClientShown
<1>6. Shown(wm', screen)
  BY <1>1, <1>5, ScreenInvShown
<1>7. wm'.selected_view # None
  BY ManageClientStep, MiscAssumption, NoneIsNeither
<1>8. batch' > 0
  BY <1>1 DEF IInv, TypeOK
<1>9. QED BY <1>1, <1>6, <1>7, <1>8 DEF ScreenInv, Settled

\* A handler that loops starts: the loop does not wait until it has ended.
LEMMA StartsShows ==
  ASSUME IInv, ScreenInv, batch' = batch + 1, UNCHANGED <<wm, managed, screen>>
  PROVE  ScreenInv'
<1>1. batch' > 0
  BY DEF IInv, TypeOK
<1>2. QED BY <1>1 DEF ScreenInv, Settled

\* A handler that loops is not the idle one.
LEMMA LoopsAreNotIdle ==
  /\ \A c : handler = [op |-> "unmanage_client", client |-> c] => handler # Idle
  /\ handler.op \in {"copy_marked_frames", "move_marked_frames"} => handler # Idle
BY IdleIsNoHandler

\* A frame of a client that is withdrawn goes.
LEMMA UnmanageFrameShows ==
  ASSUME IInv, ScreenInv, NEW f \in Frames, UnmanageFrame(f)
  PROVE  ScreenInv'
<1>1. /\ handler # Idle
      /\ f \in LiveFrames(wm) /\ wm' = DeleteFrame(wm, f)
      /\ UNCHANGED <<managed, handler, batch, screen>>
  BY LoopsAreNotIdle DEF UnmanageFrame
<1>2. Shown(wm', screen)
  BY <1>1, IInvGraph, ScreenInvShown, DeleteFrameShown
<1>3. wm'.selected_view # None
  BY <1>1, UnmanageFrameStep DEF ScreenInv
<1>4. QED BY <1>1, <1>2, <1>3, IterationScreenInv

\* The windows of a client that has no frame are not on the screen, and its
\* destruction takes them off it for good.
LEMMA FinishUnmanageShows ==
  ASSUME IInv, ScreenInv, NEW c \in Clients, FinishUnmanage(c)
  PROVE  ScreenInv'
<1> DEFINE t == [wm.todo_clients EXCEPT ![c] = {}]
<1>1. /\ handler = [op |-> "unmanage_client", client |-> c]
      /\ FramesOf(wm, c) = {} /\ batch' = batch
      /\ wm' = [wm EXCEPT !.todo_clients = t]
  BY DEF FinishUnmanage
<1>2. /\ \A d \in Clients : d # c => t[d] = wm.todo_clients[d]
      /\ t[c] = {}
  BY IInvGraph DEF Graph
<1> HIDE DEF t
<1>3. /\ wm'.columns = wm.columns /\ wm'.view_of = wm.view_of /\ wm'.column_of = wm.column_of
      /\ wm'.column_activity = wm.column_activity /\ wm'.marked = wm.marked
      /\ wm'.selected_view = wm.selected_view /\ wm'.selected_column = wm.selected_column
      /\ wm'.selected_frame = wm.selected_frame
      /\ wm'.bar_visible = wm.bar_visible
      /\ wm'.todo_views = wm.todo_views /\ wm'.todo_columns = wm.todo_columns
      /\ wm'.todo_root = wm.todo_root
      /\ wm'.todo_clients = t
      /\ wm'.frames = wm.frames
      /\ wm'.shaded = wm.shaded /\ wm'.decorated = wm.decorated
  BY <1>1, IInvGraph DEF Graph
<1>4. /\ screen'.across = screen.across /\ screen'.bounds = screen.bounds
      /\ screen'.placed = [screen.placed EXCEPT ![c] = None]
      /\ screen'.drawn = [screen.drawn EXCEPT ![c] = None]
      /\ screen'.client_mapped = screen.client_mapped \ {c}
      /\ screen'.frame_mapped = screen.frame_mapped \ {c}
      /\ screen'.focus = IF screen.focus \in {<<"client", c>>, <<"frame", c>>} THEN <<"lost">>
                         ELSE screen.focus
  BY DEF FinishUnmanage, IInv, ScreenFields
<1>5. /\ DOMAIN screen'.placed = Clients /\ DOMAIN screen'.drawn = Clients
      /\ \A d \in Clients : d # c => /\ screen'.placed[d] = screen.placed[d]
                                     /\ screen'.drawn[d] = screen.drawn[d]
  BY <1>4 DEF ScreenInv
<1>6. /\ LiveFrames(wm') = LiveFrames(wm)
      /\ \A d : FramesOf(wm', d) = FramesOf(wm, d) /\ VisibleFrame(wm', d) = VisibleFrame(wm, d)
      /\ \A col : LaidOut(wm', col) <=> LaidOut(wm, col)
  BY <1>3 DEF LiveFrames, FramesOf, LaidOut, VisibleFrame, HasFrame
<1>7. VisibleFrame(wm, c) = None
  BY <1>1, IInvGraph, VisibleFrameTyped
<1>8. ColumnsPlaced(wm', screen', {})
  BY <1>3, <1>4 DEF ScreenInv, Shown, OnScreen, OnScreenBut, ColumnsPlaced, ColumnBounds
<1>9. FramesPlaced(wm', screen', {})
  BY <1>3, <1>4, <1>6 DEF ScreenInv, Shown, OnScreen, OnScreenBut, FramesPlaced, FrameBounds
<1>10. RecentOpen(wm', {})
  BY <1>3, <1>6 DEF ScreenInv, Shown, OnScreen, OnScreenBut, RecentOpen
<1>11. ClientsPlaced(wm', screen', {})
  <2>1. ClientPlaced(wm', screen', c) /\ ClientDrawn(wm', screen', c)
    BY <1>4, <1>6, <1>7 DEF ClientPlaced, ClientDrawn
  <2>2. ASSUME NEW d \in Clients, d # c, ~ Updating(wm', d)
        PROVE  /\ ClientPlaced(wm', screen', d)
               /\ "draw" \in wm'.todo_clients[d] \/ ClientDrawn(wm', screen', d)
    <3>1. wm'.todo_clients[d] = wm.todo_clients[d]
      BY <1>2, <1>3, <2>2
    <3>2. ~ Updating(wm, d)
      BY <1>3, <1>6, <2>2, <3>1 DEF Updating
    <3>3. ClientPlaced(wm, screen, d) /\ ("draw" \in wm.todo_clients[d] \/ ClientDrawn(wm, screen, d))
      BY <3>2 DEF ScreenInv, Shown, OnScreen, OnScreenBut, ClientsPlaced
    <3>4. ClientPlaced(wm', screen', d)
      BY <1>3, <1>4, <1>5, <1>6, <2>2, <3>3 DEF ClientPlaced
    <3>5. \A f, b : Contents(wm', f, b) = Contents(wm, f, b)
      BY <1>3, <1>6 DEF Contents, StyleClass
    <3>6. ClientDrawn(wm, screen, d) => ClientDrawn(wm', screen', d)
      BY <1>4, <1>5, <1>6, <2>2, <3>5 DEF ClientDrawn
    <3>7. QED BY <3>1, <3>3, <3>4, <3>6
  <2>3. QED BY <2>1, <2>2 DEF ClientsPlaced
<1>12. Focused(wm', screen')
  <2>1. SelectedFrame(wm') = SelectedFrame(wm)
    BY <1>3, SameSelectedFrame
  <2>2. CASE SelectedFrame(wm) = None
    <3>1. <<"root">> \notin {<<"client", c>>, <<"frame", c>>}
      OBVIOUS
    <3>2. QED BY <1>3, <1>4, <2>1, <2>2, <3>1 DEF ScreenInv, Shown, Focused, Refocused
  <2>3. CASE SelectedFrame(wm) # None
    <3> DEFINE f == SelectedFrame(wm)
    <3>1. f \in LiveFrames(wm) /\ ClientOf(f) \in Clients
      BY <2>3, IInvGraph, CurrentFrameIsLive, FrameParts DEF LiveFrames
    <3>2. ClientOf(f) # c
      BY <1>1, <3>1 DEF FramesOf
    <3>3. FocusWindow(wm', f) = FocusWindow(wm, f)
      BY <1>3 DEF FocusWindow
    <3>4. FocusWindow(wm, f) \notin {<<"client", c>>, <<"frame", c>>}
      BY <3>2 DEF FocusWindow
    <3>5. wm'.todo_clients[ClientOf(f)] = wm.todo_clients[ClientOf(f)]
      BY <1>2, <1>3, <3>1, <3>2
    <3>6. QED BY <1>4, <2>1, <2>3, <3>3, <3>4, <3>5 DEF ScreenInv, Shown, Focused, Refocused
  <2>4. QED BY <2>2, <2>3
<1>13. handler # Idle /\ batch > 0
  BY <1>1, LoopsAreNotIdle DEF ScreenInv
<1>14. Shown(wm', screen')
  BY <1>8, <1>9, <1>10, <1>11, <1>12 DEF Shown, OnScreen, OnScreenBut
<1>15. QED BY <1>1, <1>3, <1>5, <1>6, <1>13, <1>14 DEF ScreenInv, Settled

\* A marked frame is unmarked and gives its client a frame in the current view.
LEMMA UnmarkShown ==
  ASSUME NEW w, WellFormed(w), NEW f \in Frames, NEW u, u = Unmark(w, f), NEW s, Shown(w, s)
  PROVE  Shown(u, s)
<1> DEFINE S == w.marked \ {f}
<1>1. u = ScheduleDraw([w EXCEPT !.marked = S], f)
  BY DEF Unmark
<1>2. \A g \in Frames \ {f} : g \in S <=> g \in w.marked
  OBVIOUS
<1> HIDE DEF S
<1>3. QED BY <1>1, <1>2, NewMarkedShown

\* copy_marked_frames.
LEMMA CopyMarkedShows ==
  ASSUME IInv, ScreenInv, NEW f \in Frames, CopyMarked(f)
  PROVE  ScreenInv'
<1> DEFINE v == wm.selected_view
           g == <<ClientOf(f), v>>
           x == Unmark(wm, f)
           col == NewColumn(wm)
           p == PlaceInSmallestColumn(NewFrame(x, g), g, col)
<1>1. /\ handler.op = "copy_marked_frames" /\ IsFirstMarked(wm, f)
      /\ FreeColumns(wm) # {}
      /\ IF g \in LiveFrames(wm) THEN wm' = x ELSE wm' = SelectFrame(p, g)
      /\ UNCHANGED <<managed, handler, batch, screen>>
  BY DEF CopyMarked
<1>2. f \in LiveFrames(wm) /\ v \in wm.views /\ v \in Views
  BY <1>1, MarkedFrame
<1>3. g \in Frames /\ ViewOf(g) = v
  BY <1>2, FrameParts, PairIsFrame
<1>4. col \in FreeColumns(wm)
  BY <1>1, NewColumnIsFree
<1> HIDE DEF g, x, col
<1>5. /\ WellFormed(x) /\ x.marked = wm.marked \ {f}
      /\ x.column_of = wm.column_of /\ x.view_of = wm.view_of /\ SameViews(wm, x)
  BY IInvGraph, UnmarkEffect DEF x
<1>6. /\ LiveFrames(x) = LiveFrames(wm) /\ FreeColumns(x) = FreeColumns(wm)
      /\ x.views = wm.views
  BY <1>5 DEF LiveFrames, FreeColumns, SameViews
<1>7. Shown(x, screen)
  BY IInvGraph, ScreenInvShown, UnmarkShown DEF x
<1>8. Shown(wm', screen)
  <2>1. CASE g \in LiveFrames(wm)
    BY <1>1, <1>7, <2>1
  <2>2. CASE g \notin LiveFrames(wm)
    <3>1. x.marked \subseteq LiveFrames(x)
      BY <1>5, <1>6, IInvGraph
    <3>2. g \in Frames \ LiveFrames(x) /\ ViewOf(g) \in x.views /\ col \in FreeColumns(x)
      BY <1>2, <1>3, <1>4, <1>6, <2>2
    <3>3. /\ WellFormed(p)
          /\ p.selected_view = x.selected_view
          /\ LiveFrames(p) = LiveFrames(x) \cup {g}
          /\ p.marked \subseteq LiveFrames(p)
          /\ NoneEmptyBut(x, {}, {ViewOf(g)}) => NoneEmptyBut(p, {}, {})
      BY <1>5, <3>1, <3>2, CopiedFrameWellFormed
    <3>4. Shown(p, screen)
      BY <1>5, <1>7, <3>2, CopiedFrameShown
    <3>5. wm' = SelectFrame(p, g)
      BY <1>1, <2>2
    <3> HIDE DEF p
    <3>6. Reselects(p, wm')
      BY <3>3, <3>5, SelectFrameReselects
    <3>7. QED BY <3>3, <3>4, <3>6, ReselectsShown DEF WellFormed, WellLinked
  <2>3. QED BY <2>1, <2>2
<1>9. wm'.selected_view # None
  BY <1>2, CopyMarkedStep, NoneIsNeither
<1>10. handler # Idle
  BY <1>1, LoopsAreNotIdle
<1>11. QED BY <1>1, <1>8, <1>9, <1>10, IterationScreenInv

\* move_marked_frames: a frame whose client has one in the current view just goes.
LEMMA MoveMarkedShows ==
  ASSUME IInv, ScreenInv, NEW f \in Frames, MoveMarked(f)
  PROVE  ScreenInv'
<1> DEFINE v == wm.selected_view
           g == <<ClientOf(f), v>>
           x == Unmark(wm, f)
           r == RemoveFrame(x, f)
           p == PlaceInSmallestColumn(CarryFrame(r, f, g), g, NewColumn(r))
           merged == [r EXCEPT !.shaded = @ \ {f}, !.decorated = @ \ {f}]
<1>1. /\ handler.op = "move_marked_frames" /\ IsFirstMarked(wm, f)
      /\ FreeColumns(r) # {}
      /\ IF g \in LiveFrames(r) THEN wm' = merged ELSE wm' = SelectFrame(p, g)
      /\ UNCHANGED <<managed, handler, batch, screen>>
  BY DEF MoveMarked
<1>2. f \in LiveFrames(wm) /\ v \in wm.views /\ v \in Views
  BY <1>1, MarkedFrame
<1>3. g \in Frames /\ ViewOf(g) = v
  BY <1>2, FrameParts, PairIsFrame
<1> HIDE DEF g, x
<1>4. /\ WellFormed(x) /\ x.marked = wm.marked \ {f}
      /\ x.column_of = wm.column_of /\ SameViews(wm, x)
  BY IInvGraph, UnmarkEffect DEF x
<1>5. LiveFrames(x) = LiveFrames(wm) /\ x.views = wm.views /\ x.selected_view = v
  BY <1>4 DEF LiveFrames, SameViews
<1>6. Shown(x, screen)
  BY IInvGraph, ScreenInvShown, UnmarkShown DEF x
<1>7. f \in LiveFrames(x) /\ v \in x.views /\ x.marked \subseteq LiveFrames(x)
  BY <1>2, <1>4, <1>5, IInvGraph
<1>8. /\ WellFormed(r) /\ r \in Graph
      /\ r.column_of = [x.column_of EXCEPT ![f] = None]
      /\ Shown(r, screen)
  BY <1>4, <1>6, <1>7, RemoveFrameWellFormed, RemoveFrameShown DEF WellFormed, WellLinked
<1>9. f \in Frames \ LiveFrames(r)
  <2>1. x.column_of \in [Frames -> OrNone(Columns)]
    BY <1>4 DEF WellFormed, WellLinked, Graph
  <2> HIDE DEF r
  <2>2. QED BY <1>8, <2>1 DEF LiveFrames
<1>9a. handler # Idle /\ wm'.selected_view # None
  BY <1>1, <1>2, MoveMarkedStep, NoneIsNeither, LoopsAreNotIdle
<1>10. CASE g \in LiveFrames(r)
  <2>1. merged = ForgetFrame(r, f, r.marked)
    <3> HIDE DEF r
    <3>1. QED BY <1>8 DEF ForgetFrame, Graph
  <2>2. wm' = ForgetFrame(r, f, r.marked)
    BY <1>1, <1>10, <2>1
  <2> HIDE DEF r, merged
  <2> DEFINE marked == r.marked
  <2>3. marked \in {r.marked, r.marked \ {f}} /\ wm' = ForgetFrame(r, f, marked)
    BY <2>2
  <2> HIDE DEF marked
  <2>4. Shown(wm', screen)
    BY <1>8, <1>9, <2>3, ForgottenFrameShown
  <2>5. QED BY <1>1, <1>9a, <2>4, IterationScreenInv
<1>11. CASE g \notin LiveFrames(r)
  <2>2. /\ WellFormed(p)
        /\ p.selected_view = x.selected_view
        /\ LiveFrames(p) = (LiveFrames(x) \ {f}) \cup {g}
        /\ p.marked \subseteq LiveFrames(p)
        /\ NoneEmptyBut(x, {}, {v}) => NoneEmptyBut(p, {}, {})
    BY <1>1, <1>3, <1>4, <1>5, <1>7, <1>11, CarriedFrameWellFormed
  <2>3. Shown(p, screen)
    BY <1>1, <1>3, <1>4, <1>5, <1>6, <1>7, <1>11, CarriedFrameShown
  <2>4. wm' = SelectFrame(p, g)
    BY <1>1, <1>11
  <2> HIDE DEF p, r
  <2>5. Reselects(p, wm')
    BY <2>2, <2>4, SelectFrameReselects
  <2>6. Shown(wm', screen)
    BY <2>2, <2>3, <2>5, ReselectsShown DEF WellFormed, WellLinked
  <2>7. QED BY <1>1, <1>9a, <2>6, IterationScreenInv
<1>12. QED BY <1>10, <1>11

\* No marked frame is left: the loop flushes before it waits.
LEMMA FinishMarkedShows ==
  ASSUME ScreenInv, FinishMarked
  PROVE  ScreenInv'
<1>1. /\ handler # Idle /\ UNCHANGED <<wm, managed, batch, screen>>
  BY LoopsAreNotIdle DEF FinishMarked
<1>2. QED BY <1>1 DEF ScreenInv, Settled

-----------------------------------------------------------------------------
(* Flush.                                                                  *)

LaidFrames(w) == {f \in LiveFrames(w) : w.column_of[f] \in ColumnsToLayOut(w)}

\* What laying out the columns leaves to the clients' tasks.
LaysOut(w, l, hide) ==
  /\ SameLinks(w, l) /\ l.selected_view = w.selected_view
  /\ l.selected_column = w.selected_column /\ l.selected_frame = w.selected_frame
  /\ l.bar_visible = w.bar_visible /\ l.decorated = w.decorated
  /\ l.todo_root = w.todo_root /\ l.todo_views = {} /\ l.todo_columns = {}
  /\ l.shaded = (w.shaded \ LaidFrames(w)) \cup hide
  /\ \A c \in Clients :
       /\ w.todo_clients[c] \subseteq l.todo_clients[c]
       /\ Updating(w, c) => "update_server" \in l.todo_clients[c]
  /\ \A f \in LaidFrames(w) :
       f = SelectedFrameOfView(w, ViewOf(f)) /\ (f \in l.shaded) # (f \in w.shaded)
         => "set_input_focus" \in l.todo_clients[ClientOf(f)]

\* A column is laid out when it is scheduled or its view is.
LEMMA LaidOutColumns ==
  ASSUME NEW w, NEW col \in Columns
  PROVE  LaidOut(w, col) <=> col \in ColumnsToLayOut(w)
BY DEF LaidOut, ColumnsToLayOut

\* WView:: and WColumn::perform_scheduled_tasks.
LEMMA LayOutGraphLaysOut ==
  ASSUME NEW w, WellFormed(w), NEW hide, NEW l, l = LayOutGraph(w, hide)
  PROVE  LaysOut(w, l, hide)
<1> DEFINE laid == LaidFrames(w)
           now == (w.shaded \ laid) \cup hide
           refocus == {f \in laid : /\ f = SelectedFrameOfView(w, ViewOf(f))
                                    /\ (f \in now) # (f \in w.shaded)}
           t == [c \in Clients |->
                   w.todo_clients[c]
                     \cup (IF \E f \in laid : ClientOf(f) = c THEN {"update_server"} ELSE {})
                     \cup (IF \E f \in refocus : ClientOf(f) = c THEN {"set_input_focus"} ELSE {})]
<1>0. w \in Graph /\ WellLinked(w)
  BY DEF WellFormed, WellLinked
<1>1. l = [w EXCEPT !.shaded = now, !.todo_views = {}, !.todo_columns = {}, !.todo_clients = t]
  BY <1>0 DEF LayOutGraph, LaidFrames, Graph
<1>2. /\ \A c \in Clients : w.todo_clients[c] \subseteq t[c]
      /\ \A c \in Clients : (\E f \in laid : ClientOf(f) = c) => "update_server" \in t[c]
      /\ \A c \in Clients : (\E f \in refocus : ClientOf(f) = c) => "set_input_focus" \in t[c]
  <2> HIDE DEF laid, refocus
  <2>1. QED OBVIOUS
<1>3. ASSUME NEW c \in Clients, Updating(w, c)
      PROVE  "update_server" \in t[c]
  <2>1. CASE "update_server" \in w.todo_clients[c]
    <3> HIDE DEF t
    <3>1. QED BY <1>2, <2>1
  <2>2. CASE \E f \in FramesOf(w, c) : LaidOut(w, w.column_of[f])
    <3>1. PICK f \in LiveFrames(w) : ClientOf(f) = c /\ LaidOut(w, w.column_of[f])
      BY <2>2 DEF FramesOf
    <3>2. f \in laid
      BY <1>0, <3>1, FramesPlace, LaidOutColumns DEF LaidFrames
    <3> HIDE DEF laid, t
    <3>3. QED BY <1>2, <3>1, <3>2
  <2>3. QED BY <1>3, <2>1, <2>2 DEF Updating
<1>4. ASSUME NEW f \in laid, f = SelectedFrameOfView(w, ViewOf(f)), (f \in now) # (f \in w.shaded)
      PROVE  "set_input_focus" \in t[ClientOf(f)]
  <2>1. ClientOf(f) \in Clients
    BY FrameParts DEF LaidFrames, LiveFrames
  <2>2. f \in refocus
    BY <1>4
  <2> HIDE DEF refocus, t
  <2>3. QED BY <1>2, <2>1, <2>2
<1> HIDE DEF laid, now, t, refocus
<1>5. /\ SameLinks(w, l) /\ l.selected_view = w.selected_view
      /\ l.selected_column = w.selected_column /\ l.selected_frame = w.selected_frame
      /\ l.bar_visible = w.bar_visible /\ l.decorated = w.decorated
      /\ l.todo_root = w.todo_root /\ l.todo_views = {} /\ l.todo_columns = {}
      /\ l.shaded = now /\ l.todo_clients = t
  BY <1>0, <1>1 DEF Graph, SameLinks
<1>6. QED BY <1>2, <1>3, <1>4, <1>5 DEF LaysOut, laid, now

\* What the tasks of the clients do to the screen.
Performs(w, s, u) ==
  /\ u.across = s.across /\ u.bounds = s.bounds
  /\ DOMAIN u.placed = Clients /\ DOMAIN u.drawn = Clients
  /\ \A c \in Clients :
       /\ "update_server" \in w.todo_clients[c] => ClientPlaced(w, u, c) /\ ClientDrawn(w, u, c)
       /\ "update_server" \notin w.todo_clients[c] =>
            /\ c \in u.frame_mapped <=> c \in s.frame_mapped
            /\ c \in u.client_mapped <=> c \in s.client_mapped
            /\ u.placed[c] = s.placed[c]
            /\ "draw" \in w.todo_clients[c] => ClientDrawn(w, u, c)
            /\ "draw" \notin w.todo_clients[c] => u.drawn[c] = s.drawn[c]
  /\ \E wanted :
       /\ u.focus = IF Viewable(u, wanted) THEN wanted ELSE <<"lost">>
       /\ wanted = IF SelectedFrame(w) # None
                   THEN IF "set_input_focus" \in w.todo_clients[ClientOf(SelectedFrame(w))]
                        THEN FocusWindow(w, SelectedFrame(w)) ELSE s.focus
                   ELSE IF w.todo_root THEN <<"root">> ELSE s.focus

\* WClient::perform_scheduled_tasks.
LEMMA PerformClientTasksPerforms ==
  ASSUME NEW w, NEW s, DOMAIN s = ScreenFields, NEW u, u = PerformClientTasks(w, s)
  PROVE  Performs(w, s, u)
<1> DEFINE f(c) == VisibleFrame(w, c)
           updates == {c \in Clients : "update_server" \in w.todo_clients[c]}
           draws == updates \cup {c \in Clients : "draw" \in w.todo_clients[c]}
           shown == {c \in updates : f(c) # None}
           opened == {c \in shown : f(c) \notin w.shaded}
           placed == [c \in Clients |-> IF c \in shown THEN s.bounds[f(c)] ELSE s.placed[c]]
           drawn == [c \in Clients |-> IF c \in draws /\ f(c) # None
                                       THEN Contents(w, f(c), s.bounds[f(c)]) ELSE s.drawn[c]]
           F == (s.frame_mapped \ updates) \cup shown
           C == (s.client_mapped \ updates) \cup opened
           mapped == [s EXCEPT !.placed = placed, !.drawn = drawn, !.frame_mapped = F,
                               !.client_mapped = C]
           selected == SelectedFrame(w)
           wanted == IF selected # None
                     THEN IF "set_input_focus" \in w.todo_clients[ClientOf(selected)]
                          THEN FocusWindow(w, selected) ELSE s.focus
                     ELSE IF w.todo_root THEN <<"root">> ELSE s.focus
           focus == IF Viewable(mapped, wanted) THEN wanted ELSE <<"lost">>
<1>1. u = [mapped EXCEPT !.focus = focus]
  BY DEF PerformClientTasks, ScreenFields
<1>2. ASSUME NEW c \in Clients
      PROVE  /\ c \in updates => /\ c \in F <=> f(c) # None
                                 /\ c \in C <=> (f(c) # None /\ f(c) \notin w.shaded)
             /\ c \notin updates => (c \in F <=> c \in s.frame_mapped) /\ (c \in C <=> c \in s.client_mapped)
  OBVIOUS
<1>3. ASSUME NEW c \in Clients
      PROVE  placed[c] = IF c \in updates /\ f(c) # None THEN s.bounds[f(c)] ELSE s.placed[c]
  OBVIOUS
<1>4. ASSUME NEW c \in Clients
      PROVE  drawn[c] = IF (c \in updates \/ "draw" \in w.todo_clients[c]) /\ f(c) # None
                        THEN Contents(w, f(c), s.bounds[f(c)]) ELSE s.drawn[c]
  OBVIOUS
<1>5. \A c \in Clients : c \in updates <=> "update_server" \in w.todo_clients[c]
  OBVIOUS
<1>6. DOMAIN placed = Clients /\ DOMAIN drawn = Clients
  OBVIOUS
<1> HIDE DEF updates, placed, drawn, F, C, wanted, focus
<1>7. /\ u.across = s.across /\ u.bounds = s.bounds
      /\ u.placed = placed /\ u.drawn = drawn /\ u.frame_mapped = F /\ u.client_mapped = C
      /\ u.focus = focus
  BY <1>1 DEF ScreenFields
<1>8. mapped.frame_mapped = F /\ mapped.client_mapped = C
  BY DEF ScreenFields
<1> HIDE DEF mapped
<1>9. focus = IF Viewable(u, wanted) THEN wanted ELSE <<"lost">>
  BY <1>7, <1>8 DEF Viewable, focus
<1>10. ASSUME NEW c \in Clients, "update_server" \in w.todo_clients[c]
       PROVE  ClientPlaced(w, u, c) /\ ClientDrawn(w, u, c)
  <2>1. c \in updates
    BY <1>5, <1>10
  <2>2. ClientPlaced(w, u, c)
    BY <1>2, <1>3, <1>7, <2>1 DEF ClientPlaced
  <2>3. ClientDrawn(w, u, c)
    BY <1>4, <1>7, <2>1 DEF ClientDrawn
  <2>4. QED BY <2>2, <2>3
<1>11. ASSUME NEW c \in Clients, "update_server" \notin w.todo_clients[c]
       PROVE  /\ c \in u.frame_mapped <=> c \in s.frame_mapped
              /\ c \in u.client_mapped <=> c \in s.client_mapped
              /\ u.placed[c] = s.placed[c]
              /\ "draw" \in w.todo_clients[c] => ClientDrawn(w, u, c)
              /\ "draw" \notin w.todo_clients[c] => u.drawn[c] = s.drawn[c]
  <2>1. c \notin updates
    BY <1>5, <1>11
  <2>2. (c \in u.frame_mapped <=> c \in s.frame_mapped) /\ (c \in u.client_mapped <=> c \in s.client_mapped)
    BY <1>2, <1>7, <2>1
  <2>3. u.placed[c] = s.placed[c]
    BY <1>3, <1>7, <2>1
  <2>4. "draw" \in w.todo_clients[c] => ClientDrawn(w, u, c)
    BY <1>4, <1>7 DEF ClientDrawn
  <2>5. "draw" \notin w.todo_clients[c] => u.drawn[c] = s.drawn[c]
    BY <1>4, <1>7, <2>1
  <2>6. QED BY <2>2, <2>3, <2>4, <2>5
<1>12. QED BY <1>6, <1>7, <1>9, <1>10, <1>11 DEF Performs, wanted

\* The heads of the columns that are laid out end up open.
LEMMA LaysOutRecentOpen ==
  ASSUME NEW w, WellFormed(w), NEW hide \in SUBSET Shadable(w), NEW l, LaysOut(w, l, hide),
         RecentOpen(w, {})
  PROVE  \A col \in Columns : l.frames[col] # <<>> => Head(l.column_activity[col]) \notin l.shaded
<1> SUFFICES ASSUME NEW col \in Columns, l.frames[col] # <<>>
             PROVE  Head(l.column_activity[col]) \notin l.shaded
  OBVIOUS
<1> DEFINE f == Head(w.column_activity[col])
<1>1. l.frames = w.frames /\ l.column_activity = w.column_activity
  BY DEF LaysOut, SameLinks
<1>2. f \in Frames /\ w.column_of[f] = col /\ f \in LiveFrames(w)
  BY <1>1, ListedFrames, NoneIsNeither DEF WellFormed, FramesIn, LiveFrames
<1>3. f \notin hide
  BY <1>2 DEF Shadable
<1>4. CASE LaidOut(w, col)
  <2>1. f \in LaidFrames(w)
    BY <1>2, <1>4, LaidOutColumns DEF LaidFrames
  <2>2. QED BY <1>1, <1>3, <2>1 DEF LaysOut
<1>5. CASE ~ LaidOut(w, col)
  <2>1. f \notin w.shaded
    BY <1>1, <1>5 DEF RecentOpen
  <2>2. QED BY <1>1, <1>3, <2>1 DEF LaysOut
<1>6. QED BY <1>4, <1>5

\* Frames that are not laid out stay shaded or open.
LEMMA NotLaidOutSame ==
  ASSUME NEW w, NEW hide \in SUBSET Shadable(w), NEW l, LaysOut(w, l, hide),
         NEW f, f \notin LaidFrames(w)
  PROVE  (f \in l.shaded) = (f \in w.shaded)
<1>1. hide \subseteq LaidFrames(w)
  BY DEF Shadable, LaidFrames
<1>2. l.shaded = (w.shaded \ LaidFrames(w)) \cup hide
  BY DEF LaysOut
<1>3. QED BY <1>1, <1>2

\* The bounds of all frames are those of the tree once the scheduled columns were
\* laid out.
LEMMA LaidOutScreenIsRight ==
  ASSUME NEW w, WellFormed(w), NEW hide \in SUBSET Shadable(w),
         NEW l, l = LayOutGraph(w, hide), LaysOut(w, l, hide),
         NEW s, DOMAIN s = ScreenFields, ColumnsPlaced(w, s, {}), FramesPlaced(w, s, {}),
         NEW q, q = LayOutScreen(w, hide, s)
  PROVE  /\ \A col \in Columns : w.view_of[col] # None => q.across[col] = ColumnBounds(l, col)
         /\ \A f \in LiveFrames(w) : q.bounds[f] = FrameBounds(l, f, q.across[l.column_of[f]])
         /\ \A f \in LiveFrames(w) : f \notin LaidFrames(w) => q.bounds[f] = s.bounds[f]
         /\ q.placed = s.placed /\ q.drawn = s.drawn /\ q.focus = s.focus
         /\ q.client_mapped = s.client_mapped /\ q.frame_mapped = s.frame_mapped
         /\ DOMAIN q = ScreenFields
<1> DEFINE across == [col \in Columns |->
                        IF w.view_of[col] = None THEN None
                        ELSE IF w.view_of[col] \in w.todo_views THEN ColumnBounds(w, col)
                        ELSE s.across[col]]
           bounds == [f \in Frames |->
                        IF f \notin LiveFrames(w) THEN None
                        ELSE IF w.column_of[f] \in ColumnsToLayOut(w)
                        THEN FrameBounds(l, f, across[w.column_of[f]])
                        ELSE s.bounds[f]]
<1>0. WellLinked(w)
  BY DEF WellFormed
<1>1. q = [s EXCEPT !.across = across, !.bounds = bounds]
  BY DEF LayOutScreen, ScreenFields
<1>2. \A col \in Columns : across[col] = IF w.view_of[col] = None THEN None
                                         ELSE IF w.view_of[col] \in w.todo_views THEN ColumnBounds(w, col)
                                         ELSE s.across[col]
  OBVIOUS
<1> HIDE DEF across
<1>3. \A f \in LiveFrames(w) : bounds[f] = IF f \in LaidFrames(w)
                                           THEN FrameBounds(l, f, across[w.column_of[f]])
                                           ELSE s.bounds[f]
  BY DEF LiveFrames, LaidFrames
<1> HIDE DEF bounds
<1>4. /\ q.across = across /\ q.bounds = bounds
      /\ q.placed = s.placed /\ q.drawn = s.drawn /\ q.focus = s.focus
      /\ q.client_mapped = s.client_mapped /\ q.frame_mapped = s.frame_mapped
      /\ DOMAIN q = ScreenFields
  BY <1>1 DEF ScreenFields
<1>5. \A col : ColumnBounds(l, col) = ColumnBounds(w, col)
  BY DEF ColumnBounds, LaysOut, SameLinks
<1>6. \A col \in Columns : w.view_of[col] # None => q.across[col] = ColumnBounds(l, col)
  BY <1>2, <1>4, <1>5 DEF ColumnsPlaced
<1>7. l.column_of = w.column_of /\ l.frames = w.frames
  BY DEF LaysOut, SameLinks
<1>8. ASSUME NEW f \in LiveFrames(w), f \notin LaidFrames(w)
      PROVE  s.bounds[f] = FrameBounds(l, f, across[w.column_of[f]])
  <2> DEFINE col == w.column_of[f]
             list == w.frames[col]
  <2>1. col \in Columns /\ w.view_of[col] # None
    BY <1>0, FramesPlace
  <2>2. ~ LaidOut(w, col)
    BY <1>8, <2>1, LaidOutColumns DEF LaidFrames
  <2>3. s.bounds[f] = FrameBounds(w, f, s.across[col])
    BY <2>2 DEF FramesPlaced
  <2>4. across[col] = s.across[col]
    BY <1>2, <2>1, <2>2 DEF LaidOut
  <2>5. \A g \in ToSet(list) : g \notin LaidFrames(w)
    <3>1. ToSet(list) = FramesIn(w, col)
      BY <1>0, <2>1 DEF WellLinked, Tree, Enumerates
    <3>2. col \notin ColumnsToLayOut(w)
      BY <2>1, <2>2, LaidOutColumns
    <3> HIDE DEF col
    <3>3. QED BY <3>1, <3>2 DEF FramesIn, LaidFrames
  <2>6. l.frames[l.column_of[f]] = list /\ w.frames[w.column_of[f]] = list
    BY <1>7
  <2> HIDE DEF list, col
  <2>7. l.shaded \cap ToSet(list) = w.shaded \cap ToSet(list)
    BY <2>5, NotLaidOutSame
  <2>8. l.decorated = w.decorated
    BY DEF LaysOut
  <2>9. \A a : FrameBounds(l, f, a) = FrameBounds(w, f, a)
    BY <2>6, <2>7, <2>8 DEF FrameBounds
  <2>10. QED BY <2>3, <2>4, <2>9 DEF col
<1>9. \A f \in LiveFrames(w) : q.bounds[f] = FrameBounds(l, f, q.across[l.column_of[f]])
  BY <1>3, <1>4, <1>7, <1>8
<1>10. QED BY <1>3, <1>4, <1>6, <1>9


\* Once the tasks are done every client is where and as the tree says: the ones
\* that were not updated already were.
LEMMA FlushedClients ==
  ASSUME NEW w, WellFormed(w), NEW hide \in SUBSET Shadable(w), NEW l, LaysOut(w, l, hide),
         NEW s, ClientsPlaced(w, s, {}),
         NEW q, \A f \in LiveFrames(w) : f \notin LaidFrames(w) => q.bounds[f] = s.bounds[f],
         q.placed = s.placed, q.drawn = s.drawn,
         q.client_mapped = s.client_mapped, q.frame_mapped = s.frame_mapped,
         NEW u, Performs(l, q, u),
         NEW c \in Clients
  PROVE  ClientPlaced(l, u, c) /\ ClientDrawn(l, u, c)
<1>1. CASE "update_server" \in l.todo_clients[c]
  BY <1>1 DEF Performs
<1>2. CASE "update_server" \notin l.todo_clients[c]
  <2> DEFINE f == VisibleFrame(w, c)
  <2>1. w \in Graph /\ WellLinked(w)
    BY DEF WellFormed, WellLinked
  <2>2. ~ Updating(w, c) /\ w.todo_clients[c] \subseteq l.todo_clients[c]
    BY <1>2 DEF LaysOut
  <2>3. ClientPlaced(w, s, c) /\ ("draw" \in w.todo_clients[c] \/ ClientDrawn(w, s, c))
    BY <2>2 DEF ClientsPlaced
  <2>4. /\ SameLinks(w, l) /\ l.selected_view = w.selected_view
        /\ l.selected_column = w.selected_column /\ l.selected_frame = w.selected_frame
    BY DEF LaysOut
  <2>5. VisibleFrame(l, c) = f
    BY <2>4 DEF VisibleFrame, HasFrame, SameLinks
  <2>6. /\ c \in u.frame_mapped <=> c \in s.frame_mapped
        /\ c \in u.client_mapped <=> c \in s.client_mapped
        /\ u.placed[c] = s.placed[c]
        /\ "draw" \in l.todo_clients[c] => ClientDrawn(l, u, c)
        /\ "draw" \notin l.todo_clients[c] => u.drawn[c] = s.drawn[c]
        /\ u.bounds = q.bounds
    BY <1>2 DEF Performs
  <2>7. CASE f = None
    BY <2>3, <2>5, <2>6, <2>7 DEF ClientPlaced, ClientDrawn
  <2>8. CASE f # None
    <3>1. f \in LiveFrames(w) /\ f \in FramesOf(w, c) /\ ClientOf(f) = c
      BY <2>1, <2>8, VisibleFrameTyped
    <3>2. f \notin LaidFrames(w)
      <4>1. ~ LaidOut(w, w.column_of[f])
        BY <2>2, <3>1 DEF Updating
      <4>2. w.column_of[f] \in Columns
        BY <2>1, <3>1, FramesPlace
      <4> HIDE DEF f
      <4>3. QED BY <4>1, <4>2, LaidOutColumns DEF LaidFrames
    <3>3. (f \in l.shaded) = (f \in w.shaded)
      BY <3>2, NotLaidOutSame
    <3>4. u.bounds[f] = s.bounds[f]
      BY <2>6, <3>1, <3>2
    <3>5. \A b : Contents(l, f, b) = Contents(w, f, b)
      <4>1. \A d : FramesOf(l, d) = FramesOf(w, d)
        BY <2>4, SameSets DEF SameLinks
      <4>2. StyleClass(l, f) = StyleClass(w, f)
        BY <2>4 DEF StyleClass, SameLinks
      <4>3. l.marked = w.marked
        BY <2>4 DEF SameLinks
      <4> HIDE DEF f
      <4>4. QED BY <4>1, <4>2, <4>3 DEF Contents
    <3>6. ClientPlaced(l, u, c)
      BY <2>3, <2>5, <2>6, <3>3, <3>4 DEF ClientPlaced
    <3>7. ClientDrawn(l, u, c)
      <4>1. CASE "draw" \in l.todo_clients[c]
        BY <2>6, <4>1
      <4>2. CASE "draw" \notin l.todo_clients[c]
        <5>1. ClientDrawn(w, s, c)
          BY <2>2, <2>3, <4>2
        <5>2. s.drawn[c] = Contents(w, f, s.bounds[f])
          BY <2>8, <5>1 DEF ClientDrawn
        <5> HIDE DEF f
        <5>3. QED BY <2>5, <2>6, <3>4, <3>5, <4>2, <5>2 DEF ClientDrawn
      <4>3. QED BY <4>1, <4>2
    <3>8. QED BY <3>6, <3>7
  <2>9. QED BY <2>7, <2>8
<1>3. QED BY <1>1, <1>2

\* The keyboard is where the selection says, that window having been mapped before
\* the focus is set.
LEMMA FlushedFocus ==
  ASSUME NEW w, WellFormed(w), NEW hide \in SUBSET Shadable(w), NEW l, LaysOut(w, l, hide),
         NEW s, Focused(w, s),
         NEW q, q.focus = s.focus,
         NEW u, Performs(l, q, u),
         \A c \in Clients : ClientPlaced(l, u, c)
  PROVE  u.focus = IF SelectedFrame(l) = None THEN <<"root">>
                   ELSE FocusWindow(l, SelectedFrame(l))
<1> DEFINE g == SelectedFrame(w)
<1>1. /\ SameLinks(w, l) /\ l.selected_view = w.selected_view
      /\ l.selected_column = w.selected_column /\ l.selected_frame = w.selected_frame
      /\ l.todo_root = w.todo_root
  BY DEF LaysOut
<1>2. SelectedFrame(l) = g
  BY <1>1 DEF SelectedFrame, SelectedFrameOfView, SelectedFrameOfColumn
<1>3. PICK wanted :
        /\ u.focus = IF Viewable(u, wanted) THEN wanted ELSE <<"lost">>
        /\ wanted = IF g # None
                    THEN IF "set_input_focus" \in l.todo_clients[ClientOf(g)]
                         THEN FocusWindow(l, g) ELSE s.focus
                    ELSE IF l.todo_root THEN <<"root">> ELSE s.focus
  BY <1>2 DEF Performs
<1>4. CASE g = None
  <2>1. wanted = <<"root">>
    BY <1>1, <1>3, <1>4 DEF Focused, Refocused
  <2>2. QED BY <1>2, <1>3, <1>4, <2>1 DEF Viewable
<1>5. CASE g # None
  <2>1. g \in LiveFrames(w) /\ ViewOf(g) = w.selected_view /\ w.selected_view \in w.views
    BY <1>5, CurrentFrameIsLive
  <2>2. /\ ClientOf(g) \in Clients /\ g = <<ClientOf(g), w.selected_view>> /\ w.selected_view # None
        /\ w.column_of[g] # None
    BY <2>1, FrameParts, NoneIsNeither DEF LiveFrames
  <2>3. wanted = FocusWindow(l, g)
    <3>1. CASE "set_input_focus" \in l.todo_clients[ClientOf(g)]
      BY <1>3, <1>5, <3>1
    <3>2. CASE "set_input_focus" \notin l.todo_clients[ClientOf(g)]
      <4>1. "set_input_focus" \notin w.todo_clients[ClientOf(g)]
        BY <2>2, <3>2 DEF LaysOut
      <4>2. s.focus = FocusWindow(w, g)
        BY <1>5, <4>1 DEF Focused, Refocused
      <4>3. (g \in l.shaded) = (g \in w.shaded)
        <5>1. CASE g \in LaidFrames(w)
          <6>1. g = SelectedFrameOfView(w, ViewOf(g))
            BY <2>1 DEF SelectedFrame
          <6> HIDE DEF g
          <6>2. QED BY <3>2, <5>1, <6>1 DEF LaysOut
        <5>2. CASE g \notin LaidFrames(w)
          BY <5>2, NotLaidOutSame
        <5>3. QED BY <5>1, <5>2
      <4> HIDE DEF g
      <4>4. FocusWindow(l, g) = FocusWindow(w, g)
        BY <4>3 DEF FocusWindow
      <4>5. QED BY <1>3, <1>5, <3>2, <4>2, <4>4
    <3>3. QED BY <3>1, <3>2
  <2>4. VisibleFrame(l, ClientOf(g)) = g
    BY <1>1, <2>2 DEF VisibleFrame, HasFrame, SameLinks
  <2>5. ClientPlaced(l, u, ClientOf(g))
    BY <2>2
  <2> HIDE DEF g
  <2>6. /\ ClientOf(g) \in u.frame_mapped
        /\ g \notin l.shaded => ClientOf(g) \in u.client_mapped
    BY <1>5, <2>4, <2>5 DEF ClientPlaced
  <2>7. Viewable(u, wanted)
    BY <2>3, <2>6 DEF Viewable, FocusWindow
  <2>8. QED BY <1>2, <1>3, <1>5, <2>3, <2>7
<1>6. QED BY <1>4, <1>5

\* A pass of the main loop: the scheduled columns are laid out, the clients' tasks
\* are done, and nothing stays scheduled.
LEMMA FlushShows ==
  ASSUME IInv, ScreenInv, Flush
  PROVE  ScreenInv'
<1>1. PICK hide \in SUBSET Shadable(wm) :
        /\ wm' = [LayOutGraph(wm, hide) EXCEPT !.todo_clients = [c \in Clients |-> {}],
                                               !.todo_root = FALSE]
        /\ screen' = PerformClientTasks(LayOutGraph(wm, hide), LayOutScreen(wm, hide, screen))
  BY DEF Flush
<1> DEFINE l == LayOutGraph(wm, hide)
           q == LayOutScreen(wm, hide, screen)
           none == [c \in Clients |-> {}]
<1>2. /\ WellFormed(wm) /\ wm \in Graph /\ WellLinked(wm)
      /\ DOMAIN screen = ScreenFields
      /\ OnScreen(wm, screen) /\ Focused(wm, screen)
  BY IInvGraph, ScreenInvShown DEF IInv, Shown
<1>3. /\ ColumnsPlaced(wm, screen, {}) /\ FramesPlaced(wm, screen, {})
      /\ ClientsPlaced(wm, screen, {}) /\ RecentOpen(wm, {})
  BY <1>2 DEF OnScreen, OnScreenBut
<1>4. hide \in SUBSET Frames
  BY DEF Shadable, LiveFrames
<1>5. LaysOut(wm, l, hide)
  BY <1>2, LayOutGraphLaysOut
<1>6. l \in Graph
  BY <1>2, <1>4, LayOutGraphEffect DEF Schedules
<1>7. /\ \A col \in Columns : wm.view_of[col] # None => q.across[col] = ColumnBounds(l, col)
      /\ \A f \in LiveFrames(wm) : q.bounds[f] = FrameBounds(l, f, q.across[l.column_of[f]])
      /\ \A f \in LiveFrames(wm) : f \notin LaidFrames(wm) => q.bounds[f] = screen.bounds[f]
      /\ q.placed = screen.placed /\ q.drawn = screen.drawn /\ q.focus = screen.focus
      /\ q.client_mapped = screen.client_mapped /\ q.frame_mapped = screen.frame_mapped
      /\ DOMAIN q = ScreenFields
  BY <1>2, <1>3, <1>5, LaidOutScreenIsRight
<1>8. \A col \in Columns : l.frames[col] # <<>> => Head(l.column_activity[col]) \notin l.shaded
  BY <1>2, <1>3, <1>5, LaysOutRecentOpen
<1>9. wm' = [l EXCEPT !.todo_clients = none, !.todo_root = FALSE] /\ screen' = PerformClientTasks(l, q)
  BY <1>1
<1>10. \A c \in Clients : none[c] = {}
  OBVIOUS
<1> HIDE DEF l, q, none
<1>11. Performs(l, q, screen')
  BY <1>7, <1>9, PerformClientTasksPerforms
<1>12. /\ \A col : wm'.frames = l.frames /\ wm'.column_of = l.column_of /\ wm'.view_of = l.view_of
       /\ wm'.columns = l.columns /\ wm'.marked = l.marked
       /\ wm'.column_activity = l.column_activity
       /\ wm'.selected_view = l.selected_view /\ wm'.selected_column = l.selected_column
       /\ wm'.selected_frame = l.selected_frame
       /\ wm'.shaded = l.shaded /\ wm'.decorated = l.decorated /\ wm'.bar_visible = l.bar_visible
       /\ wm'.todo_views = l.todo_views /\ wm'.todo_columns = l.todo_columns
       /\ wm'.todo_clients = none /\ wm'.todo_root = FALSE
  BY <1>6, <1>9 DEF Graph
<1>13. NothingScheduled(wm')
  BY <1>5, <1>10, <1>12 DEF NothingScheduled, LaysOut
<1>14. /\ \A col : ColumnBounds(wm', col) = ColumnBounds(l, col)
       /\ \A f, a : FrameBounds(wm', f, a) = FrameBounds(l, f, a)
       /\ \A c : VisibleFrame(wm', c) = VisibleFrame(l, c)
       /\ \A f : FocusWindow(wm', f) = FocusWindow(l, f)
       /\ SelectedFrame(wm') = SelectedFrame(l)
  BY <1>12 DEF ColumnBounds, FrameBounds, VisibleFrame, HasFrame, FocusWindow, SelectedFrame,
     SelectedFrameOfView, SelectedFrameOfColumn
<1>15. \A f, b : Contents(wm', f, b) = Contents(l, f, b)
  <2>1. \A d : FramesOf(wm', d) = FramesOf(l, d)
    BY <1>12, SameSets
  <2>2. \A f : StyleClass(wm', f) = StyleClass(l, f)
    BY <1>12 DEF StyleClass
  <2>3. QED BY <1>12, <2>1, <2>2 DEF Contents
<1>16. l.view_of = wm.view_of /\ l.column_of = wm.column_of /\ LiveFrames(wm') = LiveFrames(wm)
  BY <1>5, <1>12 DEF LaysOut, SameLinks, LiveFrames
<1>17. screen'.across = q.across /\ screen'.bounds = q.bounds
  BY <1>11 DEF Performs
<1>18. ColumnsPlaced(wm', screen', {})
  BY <1>7, <1>12, <1>14, <1>16, <1>17 DEF ColumnsPlaced
<1>19. FramesPlaced(wm', screen', {})
  BY <1>7, <1>12, <1>14, <1>16, <1>17 DEF FramesPlaced
<1>20. \A c \in Clients : ClientPlaced(l, screen', c) /\ ClientDrawn(l, screen', c)
  BY <1>2, <1>3, <1>5, <1>7, <1>11, FlushedClients
<1>21. ClientsPlaced(wm', screen', {})
  BY <1>12, <1>14, <1>15, <1>20 DEF ClientsPlaced, ClientPlaced, ClientDrawn
<1>22. RecentOpen(wm', {})
  BY <1>8, <1>12 DEF RecentOpen
<1>23. Focused(wm', screen')
  BY <1>2, <1>5, <1>7, <1>11, <1>14, <1>20, FlushedFocus DEF Focused
<1>24. Shown(wm', screen')
  BY <1>18, <1>19, <1>21, <1>22, <1>23 DEF Shown, OnScreen, OnScreenBut
<1>25. handler' = Idle
  BY DEF Flush
<1>26. wm'.selected_view = wm.selected_view
  BY <1>5, <1>12 DEF LaysOut
<1>27. DOMAIN screen'.placed = Clients /\ DOMAIN screen'.drawn = Clients
  BY <1>11 DEF Performs
<1>28. wm'.selected_view = None => LiveFrames(wm') = {}
  BY <1>16, <1>26 DEF ScreenInv
<1>29. QED BY <1>13, <1>24, <1>25, <1>27, <1>28 DEF ScreenInv

-----------------------------------------------------------------------------
(* The conclusion.                                                         *)

\* Every step schedules what it leaves the screen behind in.
LEMMA NextScreenInv ==
  ASSUME IInv, ScreenInv, [Next]_vars
  PROVE  ScreenInv'
<1>1. CASE Environment
  <2>1. ASSUME NEW c \in Clients, UnmanageClient(c)
        PROVE  ScreenInv'
    BY <2>1, StartsShows DEF UnmanageClient
  <2>2. QED BY <1>1, <2>1, ManageClientShows, ActivateClientShows, EnterNotifyShows,
               UpdateSizeHintsShows DEF Environment
<1>2. CASE Command
  <2>1. CASE SelectLeft \/ SelectRight
    BY <2>1, SelectBesideShows
  <2>2. CASE SelectUp \/ SelectDown \/ NextByActivityInColumn
    BY <2>2, SelectWithinShows
  <2>3. CASE MoveLeft \/ MoveRight
    BY <2>3, MoveAcrossShows
  <2>4. CASE MoveUp \/ MoveDown
    BY <2>4, MoveWithinShows
  <2>5. CASE ToggleShaded \/ ToggleDecorated
    BY <2>5, ToggleLookShows
  <2>6. CASE ToggleMarked
    BY <2>6, ToggleMarkedShows
  <2>7. CASE ToggleBarVisible
    BY <2>7, ToggleBarVisibleShows
  <2>8. CASE \E v \in Views : SwitchToView(v)
    BY <2>8, SwitchToViewShows
  <2>9. CASE \E f \in Frames, v \in Views : MoveFrameToView(f, v) \/ CopyFrameToView(f, v)
    BY <2>9, MoveFrameToViewShows, CopyFrameToViewShows
  <2>10. CASE RemoveCurrentFrame
    BY <2>10, RemoveCurrentFrameShows
  <2>11. CASE NextByActivityInView \/ NextByActivity
    BY <2>11, NextByActivityInViewShows, NextByActivityShows
  <2>12. CASE CopyMarkedFrames \/ MoveMarkedFrames
    BY <2>12, StartsShows DEF CopyMarkedFrames, MoveMarkedFrames, StartOnMarked
  <2>13. QED BY <1>2, <2>1, <2>2, <2>3, <2>4, <2>5, <2>6, <2>7, <2>8, <2>9, <2>10, <2>11, <2>12
             DEF Command
<1>3. CASE ActivityTimeout
  BY <1>3, ActivityTimeoutShows
<1>4. CASE HandlerStep
  BY <1>4, UnmanageFrameShows, CopyMarkedShows, MoveMarkedShows, FinishUnmanageShows,
     FinishMarkedShows DEF HandlerStep
<1>5. CASE Flush
  BY <1>5, FlushShows
<1>6. CASE UNCHANGED vars
  BY <1>6 DEF vars, ScreenInv, Settled
<1>7. QED BY <1>1, <1>2, <1>3, <1>4, <1>5, <1>6 DEF Next

\* The screen shows the tree at every moment, but for what is scheduled.
THEOREM ScreenInvariant == Spec => []ScreenInv
<1>1. Init => IInv /\ ScreenInv
  BY InitIInv, InitScreenInv
<1>2. IInv /\ ScreenInv /\ [Next]_vars => IInv' /\ ScreenInv'
  BY NextIInv, NextScreenInv
<1>3. QED BY <1>1, <1>2, PTL DEF Spec

\* Nothing being scheduled, the screen shows the tree.
LEMMA SettledScreen ==
  ASSUME IInv, ScreenInv, Settled
  PROVE  /\ NothingScheduled(wm)
         /\ \A c \in Clients : ClientPlaced(wm, screen, c) /\ ClientDrawn(wm, screen, c)
         /\ \A f \in LiveFrames(wm) :
              screen.bounds[f] = FrameBounds(wm, f, ColumnBounds(wm, wm.column_of[f]))
         /\ \A col \in Columns : wm.frames[col] # <<>> => Head(wm.column_activity[col]) \notin wm.shaded
         /\ screen.focus = IF SelectedFrame(wm) = None THEN <<"root">>
                           ELSE FocusWindow(wm, SelectedFrame(wm))
<1>1. /\ NothingScheduled(wm) /\ WellLinked(wm) /\ wm \in Graph
      /\ OnScreen(wm, screen) /\ Focused(wm, screen)
  BY IInvGraph DEF ScreenInv, Shown
<1>2. \A col \in Columns : ~ LaidOut(wm, col)
  BY <1>1 DEF NothingScheduled, LaidOut
<1>3. \A c \in Clients : ~ Updating(wm, c)
  <2>1. \A f \in LiveFrames(wm) : wm.column_of[f] \in Columns
    BY <1>1, FramesPlace
  <2>2. QED BY <1>1, <1>2, <2>1 DEF NothingScheduled, Updating, FramesOf
<1>4. \A c \in Clients : ClientPlaced(wm, screen, c) /\ ClientDrawn(wm, screen, c)
  BY <1>1, <1>3 DEF OnScreen, OnScreenBut, ClientsPlaced, NothingScheduled
<1>5. ASSUME NEW f \in LiveFrames(wm)
      PROVE  screen.bounds[f] = FrameBounds(wm, f, ColumnBounds(wm, wm.column_of[f]))
  <2> DEFINE col == wm.column_of[f]
  <2>1. col \in Columns /\ wm.view_of[col] # None
    BY <1>1, FramesPlace
  <2>2. screen.across[col] = ColumnBounds(wm, col)
    BY <1>1, <2>1 DEF OnScreen, OnScreenBut, ColumnsPlaced, NothingScheduled
  <2>3. screen.bounds[f] = FrameBounds(wm, f, screen.across[col])
    BY <1>1, <1>2, <2>1 DEF OnScreen, OnScreenBut, FramesPlaced
  <2>4. QED BY <2>2, <2>3
<1>6. \A col \in Columns : wm.frames[col] # <<>> => Head(wm.column_activity[col]) \notin wm.shaded
  BY <1>1, <1>2 DEF OnScreen, OnScreenBut, RecentOpen
<1>7. ~ Refocused(wm)
  <2>1. SelectedFrame(wm) # None => ClientOf(SelectedFrame(wm)) \in Clients
    BY <1>1, SelectedFrameTyped, FrameParts DEF OrNone
  <2>2. QED BY <1>1, <2>1 DEF Refocused, NothingScheduled
<1>8. screen.focus = IF SelectedFrame(wm) = None THEN <<"root">>
                     ELSE FocusWindow(wm, SelectedFrame(wm))
  BY <1>1, <1>7 DEF Focused
<1>9. QED BY <1>1, <1>4, <1>5, <1>6, <1>8

\* Every handler schedules enough: when the loop waits nothing is scheduled, the
\* frames of the current view and no others are mapped, where the tree says, and
\* were drawn from the tree.
THEOREM ScreenStaysUpToDate == Spec => []ScreenIsUpToDate
<1>1. ASSUME IInv, ScreenInv PROVE ScreenIsUpToDate
  <2> SUFFICES ASSUME Settled
               PROVE  /\ wm.todo_views = {} /\ wm.todo_columns = {} /\ ~ wm.todo_root
                      /\ \A c \in Clients :
                           LET f == VisibleFrame(wm, c)
                               bounds == FrameBounds(wm, f, ColumnBounds(wm, wm.column_of[f]))
                           IN /\ wm.todo_clients[c] = {}
                              /\ c \in screen.frame_mapped <=> f # None
                              /\ c \in screen.client_mapped <=> (f # None /\ f \notin wm.shaded)
                              /\ f # None => screen.placed[c] = bounds
                                               /\ screen.drawn[c] = Contents(wm, f, bounds)
    BY DEF ScreenIsUpToDate
  <2>1. NothingScheduled(wm)
    BY <1>1, SettledScreen
  <2>2. ASSUME NEW c \in Clients
        PROVE  LET f == VisibleFrame(wm, c)
                   bounds == FrameBounds(wm, f, ColumnBounds(wm, wm.column_of[f]))
               IN /\ wm.todo_clients[c] = {}
                  /\ c \in screen.frame_mapped <=> f # None
                  /\ c \in screen.client_mapped <=> (f # None /\ f \notin wm.shaded)
                  /\ f # None => screen.placed[c] = bounds
                                   /\ screen.drawn[c] = Contents(wm, f, bounds)
    <3> DEFINE f == VisibleFrame(wm, c)
               bounds == FrameBounds(wm, f, ColumnBounds(wm, wm.column_of[f]))
    <3>1. ClientPlaced(wm, screen, c) /\ ClientDrawn(wm, screen, c)
      BY <1>1, SettledScreen
    <3>2. f # None => f \in LiveFrames(wm)
      BY <1>1, IInvGraph, VisibleFrameTyped
    <3>3. f # None => screen.bounds[f] = bounds
      BY <1>1, <3>2, SettledScreen
    <3>4. wm.todo_clients[c] = {}
      BY <2>1 DEF NothingScheduled
    <3>5. /\ c \in screen.frame_mapped <=> f # None
          /\ c \in screen.client_mapped <=> (f # None /\ f \notin wm.shaded)
          /\ f # None => screen.placed[c] = screen.bounds[f]
          /\ f # None => screen.drawn[c] = Contents(wm, f, screen.bounds[f])
      BY <3>1 DEF ClientPlaced, ClientDrawn
    <3> HIDE DEF f, bounds
    <3>6. /\ c \in screen.frame_mapped <=> f # None
          /\ c \in screen.client_mapped <=> (f # None /\ f \notin wm.shaded)
          /\ f # None => screen.placed[c] = bounds /\ screen.drawn[c] = Contents(wm, f, bounds)
      BY <3>3, <3>5
    <3>7. QED BY <3>4, <3>6 DEF f, bounds
  <2>3. QED BY <2>1, <2>2 DEF NothingScheduled
<1>2. QED BY <1>1, Invariant, ScreenInvariant, PTL

\* When the loop waits the keyboard belongs to the selected frame, to the window of
\* it that is mapped, and to the root window when there is none.
THEOREM FocusStaysWithSelection == Spec => []FocusFollowsSelection
<1>1. ASSUME IInv, ScreenInv PROVE FocusFollowsSelection
  BY <1>1, SettledScreen DEF FocusFollowsSelection
<1>2. QED BY <1>1, Invariant, ScreenInvariant, PTL

\* After the flush the X server shows the tree and the keyboard is with the selected
\* frame, also when handlers changed the lists they were walking (property
\* FlushShowsTree).
THEOREM FlushesShowTree == Spec => []FlushShowsTree
BY ScreenStaysUpToDate, FocusStaysWithSelection, PTL DEF FlushShowsTree

\* When the loop waits the most recently active frame of each column is open.
THEOREM RecentFrameStaysOpen == Spec => []RecentFrameIsOpen
<1>1. ASSUME IInv, ScreenInv PROVE RecentFrameIsOpen
  BY <1>1, SettledScreen DEF RecentFrameIsOpen
<1>2. QED BY <1>1, Invariant, ScreenInvariant, PTL
=============================================================================
