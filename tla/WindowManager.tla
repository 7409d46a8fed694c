--------------------------- MODULE WindowManager ----------------------------
(***************************************************************************)
(* The window manager's event loop over the tree of module Layout: one     *)
(* action for each event handler (wm/event.cpp), each command bound to a   *)
(* key (wm/commands.cpp) and the activity timer, which change the tree and *)
(* schedule work, and Flush (WM::flush), which brings the X server up to   *)
(* date before the loop waits again.                                       *)
(*                                                                         *)
(* Handlers run one at a time on one thread.  The three that loop over a   *)
(* list they are changing (unmanage_client and the two marked-frames       *)
(* commands) take one step per iteration; `handler' says which of them is  *)
(* running, and nothing else runs meanwhile.                               *)
(*                                                                         *)
(* Bound: MaxBatch is the number of handlers between two flushes, the      *)
(* events that were pending together.                                      *)
(***************************************************************************)
EXTENDS Layout

CONSTANTS
  Misc,       \* the view place_client makes when there is none
  MaxBatch,   \* handlers run on one batch of events
  Features    \* which of the optional operations users perform

ASSUME MiscAssumption == Misc \in Views
ASSUME MaxBatchAssumption == MaxBatch \in Nat \ {0}

VARIABLES
  wm,        \* the object graph
  managed,   \* WM::managed_clients
  handler,   \* the looping handler that is running, if any
  batch,     \* handlers run since the last flush
  screen     \* what the last flush computed and told the X server

vars == <<wm, managed, handler, batch, screen>>

Idle == [op |-> "idle"]

Handlers ==
  {Idle} \cup [op : {"unmanage_client"}, client : Clients]
         \cup [op : {"copy_marked_frames", "move_marked_frames"}]

\* The column create_column allocates.
NewColumn(w) == CHOOSE col \in FreeColumns(w) : TRUE

VisibleFrame(w, c) ==
  IF HasFrame(w, c, w.selected_view) THEN <<c, w.selected_view>> ELSE None

Init ==
  /\ wm = EmptyGraph
  /\ managed = {}
  /\ handler = Idle
  /\ batch = 0
  /\ screen = [across        |-> [col \in Columns |-> None],   \* WColumn::bounds
               bounds        |-> [f \in Frames |-> None],      \* WFrame::bounds
               placed        |-> [c \in Clients |-> None],     \* the frame window's
               drawn         |-> [c \in Clients |-> None],     \* its contents
               client_mapped |-> {},
               frame_mapped  |-> {},
               focus         |-> <<"root">>]

\* Mutant: the loop handles events without end before it flushes.
HandleWithoutFlushing(after) ==
  /\ handler = Idle
  /\ batch' = batch + 1
  /\ wm' = after
  /\ UNCHANGED <<managed, handler, screen>>

\* One handler of the current batch, which leaves the graph as `after'.
Handle(after) ==
  /\ handler = Idle
  /\ batch < MaxBatch
  /\ batch' = batch + 1
  /\ wm' = after
  /\ UNCHANGED <<managed, handler, screen>>

\* A command on the selected frame.
OnSelectedFrame(Command(_)) ==
  /\ SelectedFrame(wm) # None
  /\ Handle(Command(SelectedFrame(wm)))

-----------------------------------------------------------------------------
(* Events of clients and of the pointer (wm/event.cpp, wm/client.cpp).     *)

\* MapRequest of a window that is not managed: manage_client.
ManageClient(c) ==
  /\ c \notin managed
  /\ handler = Idle
  /\ batch < MaxBatch
  /\ FreeColumns(wm) # {}
  /\ batch' = batch + 1
  /\ managed' = managed \cup {c}
  /\ wm' = PlaceClient(wm, c, Misc, NewColumn(wm))
  /\ UNCHANGED <<handler, screen>>

\* MapRequest or _NET_ACTIVE_WINDOW of a managed client.
ActivateClient(c) ==
  /\ VisibleFrame(wm, c) # None
  /\ Handle(HandleFrameActivity(SelectFrame(wm, VisibleFrame(wm, c))))

EnterNotify(c) ==
  /\ VisibleFrame(wm, c) \notin {None, SelectedFrame(wm)}
  /\ Handle(SelectFrame(wm, VisibleFrame(wm, c)))

\* WM_NORMAL_HINTS or _NET_WM_WINDOW_TYPE changed: the height the client wants
\* may be another one, which every column it is in has to take into account.
UpdateSizeHints(c) ==
  /\ "hints" \in Features
  /\ c \in managed
  /\ Handle([wm EXCEPT !.todo_columns = @ \cup {wm.column_of[f] : f \in FramesOf(wm, c)}])

\* The 500 ms since the selection last changed are over.
ActivityTimeout ==
  /\ wm.timer
  /\ Handle(HandleFrameActivity([wm EXCEPT !.timer = FALSE]))

\* UnmapNotify or DestroyNotify: the frames go one by one, then the client.
UnmanageClient(c) ==
  /\ c \in managed
  /\ handler = Idle
  /\ batch < MaxBatch
  /\ batch' = batch + 1
  /\ handler' = [op |-> "unmanage_client", client |-> c]
  /\ UNCHANGED <<wm, managed, screen>>

UnmanageFrame(f) ==
  /\ handler = [op |-> "unmanage_client", client |-> ClientOf(f)]
  /\ f \in LiveFrames(wm)
  /\ wm' = DeleteFrame(wm, f)
  /\ UNCHANGED <<managed, handler, batch, screen>>

\* The windows are gone from the screen, and pending tasks with the client.
FinishUnmanage(c) ==
  /\ handler = [op |-> "unmanage_client", client |-> c]
  /\ FramesOf(wm, c) = {}
  /\ handler' = Idle
  /\ managed' = managed \ {c}
  /\ wm' = [wm EXCEPT !.todo_clients[c] = {}]
  /\ screen' = [screen EXCEPT
                  !.placed[c] = None,
                  !.drawn[c] = None,
                  !.client_mapped = @ \ {c},
                  !.frame_mapped = @ \ {c},
                  !.focus = IF @ \in {<<"client", c>>, <<"frame", c>>} THEN <<"lost">> ELSE @]
  /\ UNCHANGED batch

-----------------------------------------------------------------------------
(* Commands (wm/commands.cpp).                                             *)

\* next_frame, prior_frame, next_column and prior_column, wrapping around.
Next1(s, e) == s[(Position(s, e) % Len(s)) + 1]
Prior1(s, e) == s[((Position(s, e) + Len(s) - 2) % Len(s)) + 1]

SelectBeside(Step(_, _)) ==
  LET v == wm.selected_view
  IN /\ SelectedColumn(wm) # None
     /\ Handle(SelectColumn(wm, v, Step(wm.columns[v], SelectedColumn(wm))))

SelectLeft == SelectBeside(Prior1)
SelectRight == SelectBeside(Next1)

SelectWithin(Step(_, _)) ==
  LET col == SelectedColumn(wm)
  IN OnSelectedFrame(LAMBDA f : SelectFrameInColumn(wm, col, Step(wm.frames[col], f)))

SelectUp == SelectWithin(Prior1)
SelectDown == SelectWithin(Next1)

\* The frame leaves its column for `target' and is selected there.
MoveToColumn(w, f, target) ==
  SelectFrame(AddFrameAfterSelected(RemoveFrame(w, f), f, target), f)

\* MoveLeft and MoveRight: into the next column on that side, or into a new one
\* at position `i' when there is none.
MoveToNewColumn(w, f, i) ==
  MoveToColumn(CreateColumn(w, ViewOf(f), i, NewColumn(w)), f, NewColumn(w))

MoveLeft ==
  /\ FreeColumns(wm) # {}
  /\ OnSelectedFrame(LAMBDA f :
       LET cols == wm.columns[ViewOf(f)]
           i == Position(cols, wm.column_of[f])
       IN IF i = 1 THEN MoveToNewColumn(wm, f, 1) ELSE MoveToColumn(wm, f, cols[i - 1]))

MoveRight ==
  /\ FreeColumns(wm) # {}
  /\ OnSelectedFrame(LAMBDA f :
       LET cols == wm.columns[ViewOf(f)]
           i == Position(cols, wm.column_of[f])
       IN IF i = Len(cols) THEN MoveToNewColumn(wm, f, i + 1)
          ELSE MoveToColumn(wm, f, cols[i + 1]))

\* Mutant: the column is not laid out again.
RepositionUnscheduled(f, i) ==
  [wm EXCEPT !.frames[wm.column_of[f]] = InsertAt(Erase(@, f), i, f)]

\* The frame trades places with its neighbour; from either end it goes round to
\* the other one.
Reposition(f, i) ==
  LET col == wm.column_of[f]
  IN ScheduleColumn([wm EXCEPT !.frames[col] = InsertAt(Erase(@, f), i, f)], col)

MoveUp ==
  OnSelectedFrame(LAMBDA f :
    LET s == wm.frames[wm.column_of[f]]
        i == Position(s, f)
    IN Reposition(f, IF i = 1 THEN Len(s) ELSE i - 1))

MoveDown ==
  OnSelectedFrame(LAMBDA f :
    LET s == wm.frames[wm.column_of[f]]
        i == Position(s, f)
    IN IF Len(s) = 1 THEN wm ELSE Reposition(f, IF i = Len(s) THEN 1 ELSE i + 1))

Toggle(S, e) == IF e \in S THEN S \ {e} ELSE S \cup {e}

\* The next layout decides about the shading again.
ToggleShaded ==
  /\ "shade" \in Features
  /\ OnSelectedFrame(LAMBDA f :
       ScheduleInputFocus(ScheduleColumn([wm EXCEPT !.shaded = Toggle(@, f)], wm.column_of[f]), f))

ToggleDecorated ==
  /\ "decorate" \in Features
  /\ OnSelectedFrame(LAMBDA f :
       ScheduleColumn([wm EXCEPT !.decorated = Toggle(@, f)], wm.column_of[f]))

ToggleMarked ==
  /\ "mark" \in Features
  /\ OnSelectedFrame(LAMBDA f : ScheduleDraw([wm EXCEPT !.marked = Toggle(@, f)], f))

\* Mutant: the columns of the view keep their height.
ToggleBarVisibleUnscheduled ==
  /\ "bar" \in Features
  /\ wm.selected_view # None
  /\ Handle([wm EXCEPT !.bar_visible = Toggle(@, wm.selected_view)])

ToggleBarVisible ==
  /\ "bar" \in Features
  /\ wm.selected_view # None
  /\ Handle(ScheduleView([wm EXCEPT !.bar_visible = Toggle(@, wm.selected_view)],
                         wm.selected_view))

\* switch_to_view, and switch_to_view_by_letter for a view that exists.
SwitchToView(v) ==
  /\ v # wm.selected_view
  /\ Handle(SelectView(GetOrCreateView(wm, v), v))

\* The menu's answer to "Move to view:" comes when the frame it was asked about
\* may be any that is still alive (weak_iptr), in any view.
MoveFrameToView(f, v) ==
  LET g == <<ClientOf(f), v>>
  IN /\ f \in LiveFrames(wm)
     /\ g \notin LiveFrames(wm)
     /\ FreeColumns(wm) # {}
     /\ LET removed == RemoveFrame(GetOrCreateView(wm, v), f)
        IN Handle(PlaceInSmallestColumn(CarryFrame(removed, f, g), g, NewColumn(removed)))

CopyFrameToView(f, v) ==
  LET g == <<ClientOf(f), v>>
  IN /\ "copy" \in Features
     /\ f \in LiveFrames(wm)
     /\ g \notin LiveFrames(wm)
     /\ FreeColumns(wm) # {}
     /\ Handle(PlaceInSmallestColumn(NewFrame(GetOrCreateView(wm, v), g), g, NewColumn(wm)))

\* Mutant: the last frame of a client can be removed.
RemoveAnyCurrentFrame ==
  /\ SelectedFrame(wm) # None
  /\ Handle(DeleteFrame(wm, SelectedFrame(wm)))

RemoveCurrentFrame ==
  /\ SelectedFrame(wm) # None
  /\ Cardinality(FramesOf(wm, ClientOf(SelectedFrame(wm)))) > 1
  /\ Handle(DeleteFrame(wm, SelectedFrame(wm)))

NextByActivityInColumn ==
  OnSelectedFrame(LAMBDA f :
    LET col == wm.column_of[f]
    IN SelectFrameInColumn(wm, col, Next1(wm.column_activity[col], f)))

NextByActivityInView ==
  OnSelectedFrame(LAMBDA f : SelectFrame(wm, Next1(wm.view_activity[ViewOf(f)], f)))

NextByActivity ==
  OnSelectedFrame(LAMBDA f :
    LET next == Next1(wm.activity, f)
    IN SelectView(SelectFrame(wm, next), ViewOf(next)))

-----------------------------------------------------------------------------
(* The commands on all marked frames.  They visit the views by name, each  *)
(* one's columns and frames from first to last.  Every frame they passed   *)
(* is unmarked, so the next one to visit is the first marked one.          *)

Before(w, f, g) ==
  LET rank(h) == <<ViewOf(h), Position(w.columns[ViewOf(h)], w.column_of[h]),
                   Position(w.frames[w.column_of[h]], h)>>
      a == rank(f)
      b == rank(g)
  IN \E n \in 1..3 : a[n] < b[n] /\ \A m \in 1..(n - 1) : a[m] = b[m]

IsFirstMarked(w, f) == f \in w.marked /\ \A g \in w.marked \ {f} : Before(w, f, g)

\* Mutant: the frame goes on being displayed as marked.
UnmarkUnscheduled(w, f) == [w EXCEPT !.marked = @ \ {f}]

Unmark(w, f) == ScheduleDraw([w EXCEPT !.marked = @ \ {f}], f)

StartOnMarked(op) ==
  /\ wm.marked # {}
  /\ wm.selected_view # None
  /\ handler = Idle
  /\ batch < MaxBatch
  /\ batch' = batch + 1
  /\ handler' = [op |-> op]
  /\ UNCHANGED <<wm, managed, screen>>

CopyMarkedFrames == StartOnMarked("copy_marked_frames")

MoveMarkedFrames == StartOnMarked("move_marked_frames")

CopyMarked(f) ==
  LET g == <<ClientOf(f), wm.selected_view>>
      unmarked == Unmark(wm, f)
  IN /\ handler.op = "copy_marked_frames"
     /\ IsFirstMarked(wm, f)
     /\ FreeColumns(wm) # {}
     /\ wm' = IF g \in LiveFrames(wm) THEN unmarked
              ELSE SelectFrame(PlaceInSmallestColumn(NewFrame(unmarked, g), g, NewColumn(wm)), g)
     /\ UNCHANGED <<managed, handler, batch, screen>>

\* Mutant: whether the client is in the current view is asked before its frame is
\* removed, so that a marked frame of the current view finds itself.
MoveMarkedAskingFirst(f) ==
  LET g == <<ClientOf(f), wm.selected_view>>
      removed == RemoveFrame(Unmark(wm, f), f)
  IN /\ handler.op = "move_marked_frames"
     /\ IsFirstMarked(wm, f)
     /\ FreeColumns(removed) # {}
     /\ wm' = IF g \in LiveFrames(wm)
              THEN [removed EXCEPT !.shaded = @ \ {f}, !.decorated = @ \ {f}]
              ELSE SelectFrame(PlaceInSmallestColumn(CarryFrame(removed, f, g), g,
                                                     NewColumn(removed)), g)
     /\ UNCHANGED <<managed, handler, batch, screen>>

MoveMarked(f) ==
  LET g == <<ClientOf(f), wm.selected_view>>
      removed == RemoveFrame(Unmark(wm, f), f)
  IN /\ handler.op = "move_marked_frames"
     /\ IsFirstMarked(wm, f)
     /\ FreeColumns(removed) # {}
     /\ wm' = IF g \in LiveFrames(removed)
              THEN [removed EXCEPT !.shaded = @ \ {f}, !.decorated = @ \ {f}]
              ELSE SelectFrame(PlaceInSmallestColumn(CarryFrame(removed, f, g), g,
                                                     NewColumn(removed)), g)
     /\ UNCHANGED <<managed, handler, batch, screen>>

FinishMarked ==
  /\ handler.op \in {"copy_marked_frames", "move_marked_frames"}
  /\ wm.marked = {}
  /\ handler' = Idle
  /\ UNCHANGED <<wm, managed, batch, screen>>

-----------------------------------------------------------------------------
(* WM::flush: views, then columns, then clients, then the root window.     *)
(* The bounds of a window are named by everything the layout computes them *)
(* from, and the contents of a frame window by everything it displays.     *)

ColumnBounds(w, col) ==
  LET cols == w.columns[w.view_of[col]]
  IN [position |-> Position(cols, col), columns |-> Len(cols),
      bar |-> w.view_of[col] \in w.bar_visible]

FrameBounds(w, f, across) ==
  LET listed == w.frames[w.column_of[f]]
  IN [across |-> across, frames |-> listed, index |-> Position(listed, f),
      shaded |-> w.shaded \cap ToSet(listed), decorated |-> w.decorated \cap ToSet(listed)]

StyleClass(w, f) ==
  LET col == w.column_of[f]
  IN IF f # w.selected_frame[col] THEN "inactive"
     ELSE IF col # w.selected_column[ViewOf(f)] THEN "inactive_selected"
     ELSE "active_selected"

Contents(w, f, bounds) ==
  [marked |-> f \in w.marked, class |-> StyleClass(w, f), bounds |-> bounds,
   tags |-> {ViewOf(g) : g \in FramesOf(w, ClientOf(f))}]

\* The window that gets the input focus when the frame is selected.
FocusWindow(w, f) == IF f \in w.shaded THEN <<"frame", ClientOf(f)>> ELSE <<"client", ClientOf(f)>>

Viewable(s, window) ==
  \/ window = <<"root">>
  \/ window[1] = "frame" /\ window[2] \in s.frame_mapped
  \/ window[1] = "client" /\ window[2] \in s.frame_mapped \cap s.client_mapped

\* The columns whose frames are laid out: the scheduled ones and those of the
\* scheduled views.
ColumnsToLayOut(w) ==
  w.todo_columns \cup {col \in Columns : w.view_of[col] \in w.todo_views}

\* Frames of those columns that may be shaded.  Which ones are depends on the
\* heights of all of them; the most recently active one never is.
Shadable(w) ==
  {f \in LiveFrames(w) :
     /\ "shade" \in Features
     /\ w.column_of[f] \in ColumnsToLayOut(w)
     /\ f # Head(w.column_activity[w.column_of[f]])}

\* Mutant: a selected frame that is shaded or opened does not ask for the focus.
LayOutGraphWithoutRefocus(w, hide) ==
  LET laid == {f \in LiveFrames(w) : w.column_of[f] \in ColumnsToLayOut(w)}
  IN [w EXCEPT
        !.shaded = (@ \ laid) \cup hide,
        !.todo_views = {},
        !.todo_columns = {},
        !.todo_clients =
          [c \in Clients |->
             @[c] \cup (IF \E f \in laid : ClientOf(f) = c THEN {"update_server"} ELSE {})]]

\* WView:: and WColumn::perform_scheduled_tasks, the frames `hide' being the
\* ones that end up shaded in the columns that are laid out.
LayOutGraph(w, hide) ==
  LET laid == {f \in LiveFrames(w) : w.column_of[f] \in ColumnsToLayOut(w)}
      now == (w.shaded \ laid) \cup hide
      refocus == {f \in laid : /\ f = SelectedFrameOfView(w, ViewOf(f))
                               /\ (f \in now) # (f \in w.shaded)}
  IN [w EXCEPT
        !.shaded = now,
        !.todo_views = {},
        !.todo_columns = {},
        !.todo_clients =
          [c \in Clients |->
             @[c] \cup (IF \E f \in laid : ClientOf(f) = c THEN {"update_server"} ELSE {})
                  \cup (IF \E f \in refocus : ClientOf(f) = c THEN {"set_input_focus"} ELSE {})]]

LayOutScreen(w, hide, s) ==
  LET across == [col \in Columns |->
                   IF w.view_of[col] = None THEN None
                   ELSE IF w.view_of[col] \in w.todo_views THEN ColumnBounds(w, col)
                   ELSE s.across[col]]
      laid == LayOutGraph(w, hide)
  IN [s EXCEPT
        !.across = across,
        !.bounds = [f \in Frames |->
                      IF f \notin LiveFrames(w) THEN None
                      ELSE IF w.column_of[f] \in ColumnsToLayOut(w)
                      THEN FrameBounds(laid, f, across[w.column_of[f]])
                      ELSE @[f]]]

\* WClient::perform_scheduled_tasks for every client that has some, and the
\* focus on the root window.
PerformClientTasks(w, s) ==
  LET f(c) == VisibleFrame(w, c)
      updates == {c \in Clients : "update_server" \in w.todo_clients[c]}
      draws == updates \cup {c \in Clients : "draw" \in w.todo_clients[c]}
      shown == {c \in updates : f(c) # None}
      opened == {c \in shown : f(c) \notin w.shaded}
      mapped == [s EXCEPT
                   !.placed = [c \in Clients |-> IF c \in shown THEN s.bounds[f(c)] ELSE @[c]],
                   !.drawn = [c \in Clients |->
                                IF c \in draws /\ f(c) # None
                                THEN Contents(w, f(c), s.bounds[f(c)]) ELSE @[c]],
                   !.frame_mapped = (@ \ updates) \cup shown,
                   !.client_mapped = (@ \ updates) \cup opened]
      selected == SelectedFrame(w)
      wanted == IF selected # None
                THEN IF "set_input_focus" \in w.todo_clients[ClientOf(selected)]
                     THEN FocusWindow(w, selected) ELSE s.focus
                ELSE IF w.todo_root THEN <<"root">> ELSE s.focus
  IN [mapped EXCEPT !.focus = IF Viewable(mapped, wanted) THEN wanted ELSE <<"lost">>]

Flush ==
  /\ handler = Idle
  /\ batch > 0
  /\ batch' = 0
  /\ \E hide \in SUBSET Shadable(wm) :
       LET laid == LayOutGraph(wm, hide)
       IN /\ wm' = [laid EXCEPT !.todo_clients = [c \in Clients |-> {}], !.todo_root = FALSE]
          /\ screen' = PerformClientTasks(laid, LayOutScreen(wm, hide, screen))
  /\ UNCHANGED <<managed, handler>>

-----------------------------------------------------------------------------
Environment ==
  \E c \in Clients :
    ManageClient(c) \/ ActivateClient(c) \/ EnterNotify(c) \/ UpdateSizeHints(c)
      \/ UnmanageClient(c)

Command ==
  \/ SelectLeft \/ SelectRight \/ SelectUp \/ SelectDown
  \/ MoveLeft \/ MoveRight \/ MoveUp \/ MoveDown
  \/ ToggleShaded \/ ToggleDecorated \/ ToggleMarked \/ ToggleBarVisible
  \/ \E v \in Views : SwitchToView(v)
  \/ \E f \in Frames, v \in Views : MoveFrameToView(f, v) \/ CopyFrameToView(f, v)
  \/ RemoveCurrentFrame
  \/ NextByActivityInColumn \/ NextByActivityInView \/ NextByActivity
  \/ CopyMarkedFrames \/ MoveMarkedFrames

HandlerStep ==
  \/ \E f \in Frames : UnmanageFrame(f) \/ CopyMarked(f) \/ MoveMarked(f)
  \/ \E c \in Clients : FinishUnmanage(c)
  \/ FinishMarked

Next == Environment \/ Command \/ ActivityTimeout \/ HandlerStep \/ Flush

Spec == Init /\ [][Next]_vars

\* The program's own obligations: every pass of the main loop flushes, a handler
\* that was entered runs to its end, and every pass runs the timers that are due,
\* whatever other events it also handles.
Fairness ==
  /\ WF_vars(Flush)
  /\ WF_vars(HandlerStep)
  /\ SF_vars(ActivityTimeout)

FairSpec == Spec /\ Fairness

-----------------------------------------------------------------------------
(* Safety.                                                                 *)

\* Every part of the state has its type.
TypeOK ==
  /\ wm \in Graph
  /\ managed \subseteq Clients
  /\ handler \in Handlers
  /\ batch \in 0..MaxBatch
  /\ screen.focus \in {<<"root">>, <<"lost">>} \cup ({"client", "frame"} \X Clients)
  /\ screen.client_mapped \cup screen.frame_mapped \subseteq Clients

\* The owning lists and the back pointers agree: a column is listed once, by the
\* view it points to, a frame once, by the column it points to, in the view its
\* client knows it under; and what is deleted is listed nowhere.  Handlers that
\* remove and add frames while they walk these lists rely on it.
TreeIsConsistent == Tree(wm)

\* The three selection pointers never dangle, and are null only where there is
\* nothing to select: the callers of WM::selected_frame test nothing else.
SelectionIsTotal == Selection(wm)

\* Between handlers no column is without frames, and no view is without columns
\* but the one on the screen: whatever emptied one deleted it, however the frames
\* were removed and wherever the user was.
NothingIsEmpty ==
  /\ \A col \in Columns : wm.view_of[col] # None => wm.frames[col] # <<>>
  /\ \A v \in wm.views : wm.columns[v] = <<>> => v = wm.selected_view

\* The three activity lists of a frame are the same history: the list of a view
\* holds its frames, and that of a column its own, each once and in the order they
\* have in the list of the WM.  Each list is spliced by code of its own.
ActivityListsAgree == Histories(wm)

\* A managed client can always be reached: it has a frame in some view until
\* unmanage_client runs, and only managed clients have frames.
EveryClientIsReachable ==
  \A c \in Clients :
     /\ FramesOf(wm, c) # {} => c \in managed
     /\ c \in managed => FramesOf(wm, c) # {} \/ handler = [op |-> "unmanage_client", client |-> c]

\* The main loop is about to wait for events.
Settled == handler = Idle /\ batch = 0

\* When the loop waits nothing is left scheduled, every frame of the current view
\* and no other is mapped, where and as the tree of this moment says, and its
\* contents were drawn from this tree: every handler scheduled enough.
ScreenIsUpToDate ==
  Settled =>
    /\ wm.todo_views = {} /\ wm.todo_columns = {} /\ ~wm.todo_root
    /\ \A c \in Clients :
       LET f == VisibleFrame(wm, c)
           bounds == FrameBounds(wm, f, ColumnBounds(wm, wm.column_of[f]))
       IN /\ wm.todo_clients[c] = {}
          /\ c \in screen.frame_mapped <=> f # None
          /\ c \in screen.client_mapped <=> (f # None /\ f \notin wm.shaded)
          /\ f # None => screen.placed[c] = bounds /\ screen.drawn[c] = Contents(wm, f, bounds)

\* When the loop waits the keyboard belongs to the selected frame: to its client's
\* window, or to the frame window when the client is hidden because the frame is
\* shaded; to the root window when nothing is selected; and never to a window
\* that was unmapped or destroyed.
FocusFollowsSelection ==
  Settled => screen.focus = IF SelectedFrame(wm) = None THEN <<"root">>
                            ELSE FocusWindow(wm, SelectedFrame(wm))

\* When the loop waits the most recently active frame of every column is open:
\* whatever changed the order of activity had the column laid out again.
RecentFrameIsOpen ==
  Settled => \A col \in Columns :
               wm.frames[col] # <<>> => Head(wm.column_activity[col]) \notin wm.shaded

(***************************************************************************)
(* When the loop waits the X server shows the tree as it is, each window   *)
(* mapped in its place and drawn (ScreenIsUpToDate), and the keyboard is   *)
(* with the selected frame (FocusFollowsSelection).                        *)
(***************************************************************************)
FlushShowsTree == ScreenIsUpToDate /\ FocusFollowsSelection

-----------------------------------------------------------------------------
(* Action properties.                                                      *)

\* A column that loses the selection and survives falls back to its most recently
\* active frame (handle_selected_frame_changed): a frame that was selected only in
\* passing, for less than the 500 ms, is not left selected behind the user's back.
LosingColumnFallsBack ==
  [][\A col \in Columns :
       /\ col = SelectedColumn(wm) /\ col # SelectedColumn(wm')
       /\ wm'.view_of[col] # None
       => wm'.selected_frame[col] = Head(wm'.column_activity[col])]_vars

\* What the user does in one view leaves what is selected in the others alone,
\* except for the column the selection leaves and for columns that vanish.
\* (A frame that a command moves away or into such a view is no exception: it is
\* placed there without being selected.)
OtherViewsKeepSelection ==
  [][\A v \in Views :
       /\ v \in wm.views \cap wm'.views
       /\ v \notin {wm.selected_view, wm'.selected_view}
       /\ SelectedFrameOfView(wm, v) # None
       /\ wm'.column_of[SelectedFrameOfView(wm, v)] # None
       => SelectedFrameOfView(wm', v) = SelectedFrameOfView(wm, v)]_vars

-----------------------------------------------------------------------------
(* Liveness.                                                               *)

MostRecent(f) ==
  /\ Head(wm.column_activity[wm.column_of[f]]) = f
  /\ Head(wm.view_activity[ViewOf(f)]) = f
  /\ Head(wm.activity) = f

\* A frame that was selected and stays selected becomes the most recently active
\* one everywhere, whatever else happens meanwhile.
SelectedFrameBecomesRecent ==
  \A f \in Frames :
    (SelectedFrame(wm) = f /\ wm.timer) ~> (SelectedFrame(wm) # f \/ MostRecent(f))

\* A selected frame that is the most recently active one of its column ends up
\* open and its client with the keyboard, unless it loses the one or the other.
RecentFrameGetsInput ==
  \A f \in Frames :
    LET entitled == SelectedFrame(wm) = f /\ Head(wm.column_activity[wm.column_of[f]]) = f
    IN entitled ~> (~entitled \/ (f \notin wm.shaded /\ screen.focus = <<"client", ClientOf(f)>>))

-----------------------------------------------------------------------------
(* What the window manager is for: module Tags.  A client that is being    *)
(* unmanaged has lost its tags already.                                    *)

Open == {c \in managed : handler # [op |-> "unmanage_client", client |-> c]}

TagsOf(c) == IF c \in Open THEN {ViewOf(f) : f \in FramesOf(wm, c)} ELSE {}

Abstract == INSTANCE Tags
  WITH open <- Open, tags <- [c \in Clients |-> TagsOf(c)], current <- wm.selected_view

\* Every handler does to the tags of the clients and to the current view what one
\* step of Tags does, or nothing: no window is lost by moving, copying or removing
\* frames, and none shows up in a view it was not put into.
ImplementsTags == Abstract!Spec
=============================================================================
