------------------------------- MODULE Session -------------------------------
(***************************************************************************)
(* What is built around the tree of module Layout: views for fullscreen    *)
(* frames (wm/extra/fullscreen.cpp), the view that was selected before     *)
(* (wm/extra/previous_view.hpp), the views' cells in the bar               *)
(* (wm/extra/bar_view_applet.cpp), and the state that is saved in          *)
(* properties of the X server and found there by the next window manager   *)
(* (wm/persistence.cpp).                                                   *)
(*                                                                         *)
(* The first three hook into the creation, selection and deletion of       *)
(* views.  A handler is therefore a sequence of Layout's operations, each  *)
(* of which is told to the hooks: Tell.                                    *)
(*                                                                         *)
(* The name of a view is a number.  Original and FullscreenNames give what *)
(* matters of its spelling: the part before its last `/', and the names    *)
(* that a fullscreen view made from it would try in turn, which are the    *)
(* same for all windows, as if these were of one program.  Shading and the *)
(* layout of columns are left to module WindowManager, and so is the flush *)
(* of everything but the bar.                                              *)
(***************************************************************************)
EXTENDS Layout, Bar

CONSTANTS
  Misc,             \* the view made for the first client
  Original,         \* [Views -> Views or None]
  FullscreenNames   \* [Views -> Seq(Views)]

ASSUME ViewsAreNumbers == Views \subseteq Nat /\ Misc \in Views
ASSUME PoolIsFinite == IsFiniteSet(Columns)
ASSUME OriginalAssumption ==
  Original \in [Views -> OrNone(Views)] /\ \A v \in Views : Original[v] # v
ASSUME FullscreenNamesAssumption ==
  /\ FullscreenNames \in [Views -> Seq(Views)]
  /\ \A v \in Views : \A u \in ToSet(FullscreenNames[v]) : Original[u] = v

VARIABLES
  session,      \* [tree, bar, previous]: the window manager's memory
  windows,      \* windows that are mapped, or that the window manager unmapped
  server,       \* [root, client]: the properties with the saved state
  phase,        \* of the window manager: "down", "loading" or "running"
  pending,      \* while loading: windows that are still to be managed
  saved,        \* history: the windows of the last complete save, or None
  expected      \* history: while loading, the properties that were found, if complete

sessionVars == <<session, windows, server, phase, pending, saved, expected>>

NewSession == [tree |-> EmptyGraph, bar |-> NewBar(None), previous |-> None]

Unsaved == [root |-> None, client |-> [c \in Clients |-> None]]

\* The order of a std::map.
InOrder(S) ==
  CHOOSE s \in [1..Cardinality(S) -> S] : \A i, j \in 1..Cardinality(S) : i < j => s[i] < s[j]

\* A loop over a list: what Op makes of `s' with each of its elements in turn.
Loop(Op(_, _), s, list) ==
  LET after[i \in 0..Len(list)] == IF i = 0 THEN s ELSE Op(after[i - 1], list[i])
  IN after[Len(list)]

-----------------------------------------------------------------------------
(* Hooks.                                                                  *)

BarVisible(w) == w.selected_view = None \/ w.selected_view \in w.bar_visible

\* BarViewApplet::create_view: before the cell of the next view.
CreateViewCell(b, v, visible_now) ==
  LET cell == TextCell(v, v, "normal")
      above == {u \in ToSet(Ids(b, "left")) : u > v}
  IN IF above = {} THEN InsertEnd(b, "left", cell, visible_now)
     ELSE InsertBefore(b, "left", Min(above), cell, visible_now)

SetStyle(b, v, style, visible_now) ==
  IF v = None THEN b ELSE SetCell(b, "left", v, v, style, visible_now)

\* Mutant: the cell of the view that is left stays as it is.
SelectViewCellAlone(b, new, old, visible_now) == SetStyle(b, new, "selected", visible_now)

\* BarViewApplet::select_view
SelectViewCell(b, new, old, visible_now) ==
  SetStyle(SetStyle(b, new, "selected", visible_now), old, "normal", visible_now)

\* Mutant: the view that is selected now is remembered.
RememberNew(previous, new, old) == new

\* PreviousViewInfo::select_view
Remember(previous, new, old) == IF old # None THEN old ELSE previous

OnlyElement(S) == CHOOSE e \in S : TRUE

CreateCells(b, old, new) ==
  IF new.views \subseteq old.views THEN b
  ELSE CreateViewCell(b, OnlyElement(new.views \ old.views), BarVisible(old))

SelectCells(b, old, new) ==
  IF new.selected_view = old.selected_view THEN b
  ELSE ScheduleUpdateServer(SelectViewCell(b, new.selected_view, old.selected_view, BarVisible(new)))

ForgetCells(b, old, new) ==
  IF old.views \subseteq new.views THEN b
  ELSE RemoveCell(b, "left", OnlyElement(old.views \ new.views), BarVisible(new))

\* One operation on the tree, after which it is `w', and what hooks do in it.  An
\* operation creates at most one view, then selects one, then deletes one.
Tell(s, w) ==
  [ tree     |-> w,
    bar      |-> ForgetCells(SelectCells(CreateCells(s.bar, s.tree, w), s.tree, w), s.tree, w),
    previous |-> IF w.selected_view = s.tree.selected_view THEN s.previous
                 ELSE Remember(s.previous, w.selected_view, s.tree.selected_view) ]

\* Mutant: the bar learns of it when the view is selected the next time.
SetBarVisibleUnscheduled(s, v, value) ==
  [s EXCEPT !.tree.bar_visible = IF value THEN @ \cup {v} ELSE @ \ {v}]

\* WView::set_bar_visible
SetBarVisible(s, v, value) ==
  LET changed == value # (v \in s.tree.bar_visible)
  IN [s EXCEPT !.tree.bar_visible = IF value THEN @ \cup {v} ELSE @ \ {v},
               !.bar = IF changed /\ v = s.tree.selected_view THEN ScheduleUpdateServer(@) ELSE @]

SelectViewAndTell(s, v) == Tell(s, SelectView(s.tree, v))

DeleteFrameAndTell(s, f) == Tell(s, DeleteFrame(s.tree, f))

SwitchTo(s, v) == SelectViewAndTell(Tell(s, GetOrCreateView(s.tree, v)), v)

AnyColumn(w) == CHOOSE col \in FreeColumns(w) : TRUE

FrameOnScreen(w, c) == IF HasFrame(w, c, w.selected_view) THEN <<c, w.selected_view>> ELSE None

-----------------------------------------------------------------------------
(* Fullscreen views.                                                       *)

\* is_fullscreen_frame: the client's frame in the view whose name this view's
\* name begins with, if there is one.
OriginalFrame(w, f) ==
  IF HasFrame(w, ClientOf(f), Original[ViewOf(f)]) THEN <<ClientOf(f), Original[ViewOf(f)]>>
  ELSE None

FullscreenFrames(w, c) == {f \in FramesOf(w, c) : OriginalFrame(w, f) # None}

\* The turns in which a name that is tried is no view's.
FreeNames(w) ==
  IF w.selected_view = None THEN {}
  ELSE {i \in DOMAIN FullscreenNames[w.selected_view] :
          FullscreenNames[w.selected_view][i] \notin w.views}

\* A new view without the bar for a frame without decorations.  The client is
\* on the screen, or has no other frame than those elsewhere.
CreateFullscreen(s, c) ==
  LET v == FullscreenNames[s.tree.selected_view][Min(FreeNames(s.tree))]
      f == <<c, v>>
      made == SetBarVisible(Tell(s, NewView(s.tree, v)), v, FALSE)
      w == [NewFrame(made.tree, f) EXCEPT !.decorated = @ \ {f}]
      col == AnyColumn(w)
  IN SelectViewAndTell(Tell(made, AddFrameAfterSelected(CreateColumn(w, v, 1, col), f, col)), v)

ShowFullscreen(s, f) ==
  SelectViewAndTell(Tell(s, SelectFrame(s.tree, f)), ViewOf(f))

\* enable_fullscreen: the results it can have, as the frames of a client are
\* kept in the order of pointers.  Without a name that is free, none: a bound.
EnableFullscreen(s, c) ==
  IF FullscreenFrames(s.tree, c) # {} THEN {ShowFullscreen(s, f) : f \in FullscreenFrames(s.tree, c)}
  ELSE IF FreeNames(s.tree) = {} THEN {} ELSE {CreateFullscreen(s, c)}

\* Mutant: the frame that becomes the selected one is left to chance.
DisableFullscreenInPassing(s, f) ==
  LET g == OriginalFrame(s.tree, f)
  IN IF g = None THEN s ELSE SelectViewAndTell(DeleteFrameAndTell(s, f), ViewOf(g))

DisableFullscreen(s, f) ==
  LET g == OriginalFrame(s.tree, f)
      deleted == DeleteFrameAndTell(s, f)
  IN IF g = None THEN s ELSE ShowFullscreen(deleted, g)

ToggleFullscreenOf(s, f) ==
  IF OriginalFrame(s.tree, f) # None THEN {DisableFullscreen(s, f)}
  ELSE EnableFullscreen(s, ClientOf(f))

\* check_fullscreen_on_place_client
LeaveSelected(s) ==
  IF SelectedFrame(s.tree) = None THEN s ELSE DisableFullscreen(s, SelectedFrame(s.tree))

Placed(s, c) == Tell(s, PlaceClient(s.tree, c, Misc, AnyColumn(s.tree)))

\* check_fullscreen_on_post_place_client
EnableIf(wanted, s, c) == IF wanted THEN EnableFullscreen(s, c) ELSE {s}

\* WM::place_client between its two hooks.
PlaceWithHooks(s, c, wanted) == EnableIf(wanted, Placed(LeaveSelected(s), c), c)

\* check_fullscreen_on_unmanage_client
LeaveFullscreen(s, c) ==
  LET f == FrameOnScreen(s.tree, c)
      v == ViewOf(f)
  IN IF /\ f # None
        /\ Len(s.tree.frames[s.tree.column_of[f]]) = 1
        /\ Len(s.tree.columns[v]) = 1
        /\ OriginalFrame(s.tree, f) # None
     THEN SelectViewAndTell(s, Original[v]) ELSE s

DeleteFrames(s, c) == Loop(DeleteFrameAndTell, s, SetToSeq(FramesOf(s.tree, c)))

\* Mutant: the hook is called when the frames are gone.
UnmanagedBeforeHook(s, c) == LeaveFullscreen(DeleteFrames(s, c), c)

Unmanaged(s, c) == DeleteFrames(LeaveFullscreen(s, c), c)

-----------------------------------------------------------------------------
(* Handlers of a running window manager.  Two columns are enough for one:  *)
(* the pool of columns is a bound.                                         *)

Roomy(w) == Cardinality(FreeColumns(w)) >= 2

\* What is scheduled for the tree is module WindowManager's.
Settle(w) ==
  [w EXCEPT !.todo_views = {}, !.todo_columns = {}, !.todo_root = FALSE,
            !.todo_clients = [c \in Clients |-> {}]]

Becomes(s) == session' = [s EXCEPT !.tree = Settle(@)]

Handler(s) ==
  /\ Becomes(s)
  /\ UNCHANGED <<windows, server, phase, pending, saved, expected>>

Handling == phase = "running" /\ Roomy(session.tree)

SelectsView(v) == v # session.tree.selected_view /\ Handler(SwitchTo(session, v))

\* BarViewApplet::select_next and select_prev
Beside(step) ==
  LET names == Ids(session.bar, "left")
      i == Place(session.bar, "left", session.tree.selected_view)
  IN names[((i - 1 + step) % Len(names)) + 1]

SelectBesideView ==
  /\ session.tree.selected_view # None
  /\ \E step \in {1, Len(Ids(session.bar, "left")) - 1} :
       Handler(SelectViewAndTell(session, Beside(step)))

SwitchToPrevious ==
  /\ session.previous # None
  /\ Handler(SwitchTo(session, session.previous))

ToggleBar ==
  LET v == session.tree.selected_view
  IN /\ v # None
     /\ Handler(SetBarVisible(session, v, v \notin session.tree.bar_visible))

ToggleFullscreen ==
  /\ SelectedFrame(session.tree) # None
  /\ \E s \in ToggleFullscreenOf(session, SelectedFrame(session.tree)) : Handler(s)

\* A _NET_WM_STATE request of a client that is on the screen.
RequestFullscreen(c, action) ==
  LET f == FrameOnScreen(session.tree, c)
  IN /\ f # None
     /\ \E s \in CASE action = "add" /\ OriginalFrame(session.tree, f) = None
                        -> EnableFullscreen(session, c)
                   [] action = "add" /\ OriginalFrame(session.tree, f) # None -> {session}
                   [] action = "remove" -> {DisableFullscreen(session, f)}
                   [] action = "toggle" -> ToggleFullscreenOf(session, f) : Handler(s)

CopyToView(v) ==
  LET f == SelectedFrame(session.tree)
  IN /\ f # None
     /\ ~ HasFrame(session.tree, ClientOf(f), v)
     /\ LET g == <<ClientOf(f), v>>
            made == Tell(session, GetOrCreateView(session.tree, v))
            w == NewFrame(made.tree, g)
        IN Handler(Tell(made, PlaceInSmallestColumn(w, g, AnyColumn(w))))

MoveToView(v) ==
  LET f == SelectedFrame(session.tree)
  IN /\ f # None
     /\ ~ HasFrame(session.tree, ClientOf(f), v)
     /\ LET g == <<ClientOf(f), v>>
            made == Tell(session, GetOrCreateView(session.tree, v))
            taken == Tell(made, RemoveFrame(made.tree, f))
            w == CarryFrame(taken.tree, f, g)
        IN Handler(Tell(taken, PlaceInSmallestColumn(w, g, AnyColumn(w))))

RemoveCurrent ==
  LET f == SelectedFrame(session.tree)
  IN /\ f # None
     /\ FramesOf(session.tree, ClientOf(f)) # {f}
     /\ Handler(DeleteFrameAndTell(session, f))

EnterWindow(c) ==
  LET f == FrameOnScreen(session.tree, c)
  IN /\ f \notin {None, SelectedFrame(session.tree)}
     /\ Handler(Tell(session, SelectFrame(session.tree, f)))

TimerRuns ==
  /\ session.tree.timer
  /\ Handler(Tell(session, HandleFrameActivity([session.tree EXCEPT !.timer = FALSE])))

MapRequest(c) ==
  /\ c \notin windows
  /\ \E wants \in BOOLEAN : \E s \in PlaceWithHooks(session, c, wants) : Becomes(s)
  /\ windows' = windows \cup {c}
  /\ UNCHANGED <<server, phase, pending, saved, expected>>

\* UnmapNotify or DestroyNotify.  A window that is only unmapped keeps its
\* property: unmanage_client removes others, but not this one.
Withdraw(c, destroyed) ==
  /\ c \in windows
  /\ Becomes(Unmanaged(session, c))
  /\ windows' = windows \ {c}
  /\ server' = IF destroyed THEN [server EXCEPT !.client[c] = None] ELSE server
  /\ UNCHANGED <<phase, pending, saved, expected>>

FlushViews ==
  /\ phase = "running"
  /\ session.bar.update_server \/ session.bar.draw
  /\ session' = [session EXCEPT !.bar = FlushBar(@, BarVisible(session.tree))]
  /\ UNCHANGED <<windows, server, phase, pending, saved, expected>>

Commands ==
  \/ SelectBesideView \/ SwitchToPrevious \/ ToggleBar \/ ToggleFullscreen \/ RemoveCurrent
  \/ \E v \in Views : SelectsView(v) \/ CopyToView(v) \/ MoveToView(v)

ClientEvents ==
  \E c \in Clients :
    \/ MapRequest(c) \/ EnterWindow(c)
    \/ \E destroyed \in BOOLEAN : Withdraw(c, destroyed)
    \/ \E action \in {"add", "remove", "toggle"} : RequestFullscreen(c, action)

-----------------------------------------------------------------------------
(* Saving.                                                                 *)

\* PersistentWMInfo, on the root window
RootInfo(w) ==
  [ views       |-> w.views,
    selected    |-> w.selected_view,
    bar_visible |-> w.bar_visible,
    columns     |-> [v \in w.views |->
                       [i \in DOMAIN w.columns[v] |-> w.columns[v][i] = w.selected_column[v]]] ]

\* PersistentClientInfo, by view.  The position in the column, which loading
\* cannot use, and priorities are left out.
ClientInfo(w, c) ==
  [v \in {ViewOf(f) : f \in FramesOf(w, c)} |->
     LET f == <<c, v>>
         col == w.column_of[f]
     IN [ column    |-> Position(w.columns[v], col),
          selected  |-> w.selected_frame[col] = f,
          shaded    |-> f \in w.shaded,
          decorated |-> f \in w.decorated ]]

\* The properties once those of the clients `written' are replaced.
SavedProperties(w, written) ==
  [ root   |-> RootInfo(w),
    client |-> [c \in Clients |-> IF c \in written THEN ClientInfo(w, c) ELSE server.client[c]] ]

Save ==
  /\ phase = "running"
  /\ server' = SavedProperties(session.tree, windows)
  /\ saved' = windows
  /\ UNCHANGED <<session, windows, phase, pending, expected>>

\* The process ends, and its windows' clients may come and go before the next
\* one starts.  A window's property goes with it.
Ends(properties) ==
  /\ windows' \in SUBSET Clients
  /\ server' = [properties EXCEPT !.client = [c \in Clients |-> IF c \in windows' THEN @[c] ELSE None]]
  /\ session' = NewSession
  /\ phase' = "down"
  /\ pending' = {}
  /\ expected' = None

Crash ==
  /\ phase # "down"
  /\ Ends(server)
  /\ UNCHANGED saved

CrashWhileSaving ==
  /\ phase = "running"
  /\ \E written \in SUBSET windows :
       /\ written # windows
       /\ Ends(SavedProperties(session.tree, written))
  /\ saved' = None

\* WM::quit and WM::restart
Exit ==
  /\ phase = "running"
  /\ Ends(SavedProperties(session.tree, windows))
  /\ saved' = windows

-----------------------------------------------------------------------------
(* Loading.                                                                *)

RecreatedView(root, s, v) ==
  LET made == SetBarVisible(Tell(s, NewView(s.tree, v)), v, v \in root.bar_visible)
  IN IF v = root.selected THEN SelectViewAndTell(made, v) ELSE made

\* Mutant: the first column of each view stays its selected one.
RecreateColumnUnselected(s, v, selected) ==
  Tell(s, CreateColumn(s.tree, v, Len(s.tree.columns[v]) + 1, AnyColumn(s.tree)))

RecreateColumn(s, v, selected) ==
  LET col == AnyColumn(s.tree)
      w == CreateColumn(s.tree, v, Len(s.tree.columns[v]) + 1, col)
  IN Tell(s, IF selected THEN SelectColumn(w, v, col) ELSE w)

RecreateView(root, s, v) ==
  Loop(LAMBDA t, selected : RecreateColumn(t, v, selected),
       RecreatedView(root, s, v), root.columns[v])

RecreatedViews(root) ==
  IF root = None THEN NewSession
  ELSE Loop(LAMBDA s, v : RecreateView(root, s, v), NewSession, InOrder(root.views))

Whole == saved # None /\ saved = windows /\ server.root # None /\ \A c \in windows : server.client[c] # None

StartLoading ==
  /\ phase = "down"
  /\ Becomes(RecreatedViews(server.root))
  /\ phase' = "loading"
  /\ pending' = windows
  /\ expected' = IF Whole THEN server ELSE None
  /\ UNCHANGED <<windows, server, saved>>

\* The saved frames whose view and column there are.
Known(w, info) ==
  {v \in DOMAIN info : v \in w.views /\ info[v].column <= Len(w.columns[v])}

\* A frame that was saved enters its column at the end, as no frame there has an
\* initial_position.
PlaceSavedFrame(c, info, s, v) ==
  LET f == <<c, v>>
      col == s.tree.columns[v][info[v].column]
      made == [NewFrame(s.tree, f) EXCEPT
                 !.shaded = IF info[v].shaded THEN @ \cup {f} ELSE @,
                 !.decorated = IF info[v].decorated THEN @ ELSE @ \ {f}]
      w == AddFrame(made, f, col, Len(made.frames[col]) + 1)
  IN Tell(s, IF info[v].selected THEN SelectFrameInColumn(w, col, f) ELSE w)

PlaceSavedFrames(s, c, info, views) ==
  Loop(LAMBDA t, v : PlaceSavedFrame(c, info, t, v), s, InOrder(views))

\* WM::place_existing_client: the results it can have.  It stops at a frame whose
\* view or column is unknown, and the order of the frames is that of pointers.
PlaceExisting(s, c, info) ==
  LET known == Known(s.tree, info)
      placed == IF known = DOMAIN info THEN {known} ELSE SUBSET known
  IN {PlaceSavedFrames(s, c, info, views) : views \in placed}

FreshlyPlaced(s, c) == UNION {PlaceWithHooks(s, c, wanted) : wanted \in BOOLEAN}

\* Mutant: whoever has a saved state is taken to be placed.
OrFreshlyIfUnsaved(s, c) == IF server.client[c] # None THEN {s} ELSE FreshlyPlaced(s, c)

\* Without a frame that could be placed it is treated as a new window.  What its
\* _NET_WM_STATE says, the client and the last window manager have written.
OrFreshly(s, c) == IF FramesOf(s.tree, c) # {} THEN {s} ELSE FreshlyPlaced(s, c)

\* WM::manage_client of a window that was there before.
ManagedExisting(s, c) ==
  LET info == server.client[c]
  IN UNION {OrFreshly(t, c) : t \in IF info = None THEN {s} ELSE PlaceExisting(s, c, info)}

ManageExisting(c) ==
  /\ phase = "loading"
  /\ c \in pending
  /\ Roomy(session.tree)
  /\ \E s \in ManagedExisting(session, c) : Becomes(s)
  /\ pending' = pending \ {c}
  /\ server' = [server EXCEPT !.client[c] = None]
  /\ UNCHANGED <<windows, phase, saved, expected>>

SweepColumn(s, col) ==
  IF s.tree.frames[col] = <<>> THEN Tell(s, DeleteColumn(s.tree, col)) ELSE s

\* The columns of a view that got no frame are deleted, and then the view.
SweepView(s, v) ==
  LET swept == Loop(SweepColumn, s, s.tree.columns[v])
      w == swept.tree
  IN IF v \in w.views /\ w.columns[v] = <<>> /\ v # w.selected_view
     THEN Tell(swept, DeleteView(w, v)) ELSE swept

\* Mutant: what was saved stays, with or without frames.
KeepAll(s) == s

Swept(s) == Loop(SweepView, s, InOrder(s.tree.views))

\* The destructor of its last column deletes a view that is not selected, and
\* the loop over the views goes on to read and delete it.
UsesDeletedView(w) ==
  \E v \in w.views \ {w.selected_view} :
    /\ w.columns[v] # <<>>
    /\ \A i \in DOMAIN w.columns[v] : w.frames[w.columns[v][i]] = <<>>

\* The memory of the deleted view may still read as it was left.
FinishLoading ==
  /\ phase = "loading" /\ pending = {}
  /\ LET s == Swept(session)
     IN /\ Becomes(s)
        /\ server' = SavedProperties(s.tree, windows)
  /\ phase' = "running"
  /\ saved' = windows
  /\ expected' = None
  /\ UNCHANGED <<windows, pending>>

\* Or the second deletion is the end of the process.
AbortLoading ==
  /\ phase = "loading" /\ pending = {}
  /\ UsesDeletedView(session.tree)
  /\ Ends(server)
  /\ UNCHANGED saved

Loading == StartLoading \/ (\E c \in Clients : ManageExisting(c)) \/ FinishLoading \/ AbortLoading

-----------------------------------------------------------------------------
\* The first start, without anything saved.
SessionInit ==
  /\ session = NewSession
  /\ windows = {}
  /\ server = Unsaved
  /\ phase = "down"
  /\ pending = {}
  /\ saved = None
  /\ expected = None

Persistence == Save \/ Crash \/ CrashWhileSaving \/ Exit

SessionNext ==
  \/ Handling /\ (Commands \/ ClientEvents \/ TimerRuns)
  \/ FlushViews \/ Persistence \/ Loading

SessionSpec == SessionInit /\ [][SessionNext]_sessionVars

-----------------------------------------------------------------------------
SessionTypeOK ==
  /\ DOMAIN session = {"tree", "bar", "previous"}
  /\ session.previous \in OrNone(Views)
  /\ windows \subseteq Clients /\ pending \subseteq windows
  /\ phase \in {"down", "loading", "running"}
  /\ phase # "loading" => pending = {}
  /\ \A c \in Clients : server.client[c] # None => DOMAIN server.client[c] \subseteq Views

(***************************************************************************)
(* The window manager that runs has a consistent tree, in which nothing is *)
(* empty but the selected view may be, and every window has a frame in it: *)
(* through fullscreen views, and after a start with whatever was saved,    *)
(* half saved or stale, and whichever of the windows are still there.      *)
(***************************************************************************)
SessionIsConsistent ==
  LET w == session.tree
  IN /\ SessionTypeOK
     /\ Tree(w) /\ Histories(w) /\ Selection(w)
     /\ phase = "running" =>
          /\ \A v \in w.views : w.columns[v] = <<>> => v = w.selected_view
          /\ \A col \in Columns : w.view_of[col] # None => w.frames[col] # <<>>
          /\ \A c \in Clients : c \in windows <=> FramesOf(w, c) # {}

(***************************************************************************)
(* The bar has one cell for each view, in the order of the names, and the  *)
(* one of the selected view alone is set apart.  Its window is mapped if   *)
(* the selected view wants it, and shows these cells: whatever selected,   *)
(* deleted or changed a view asked for the work.                           *)
(***************************************************************************)
BarShowsViews ==
  LET names == InOrder(session.tree.views)
  IN /\ session.bar.cells["left"] =
          [i \in DOMAIN names |->
             TextCell(names[i], names[i],
                      IF names[i] = session.tree.selected_view THEN "selected" ELSE "normal")]
     /\ BarIsUpToDate(session.bar, BarVisible(session.tree))

Arrangement(w) ==
  <<w.views, w.selected_view, w.bar_visible, w.columns, w.selected_column, w.frames,
    w.selected_frame, w.decorated>>

(***************************************************************************)
(* A frame made fullscreen and back leaves everything as it was, the       *)
(* selection too, although leaving its view may have moved that.           *)
(***************************************************************************)
ToggleTwiceIsNothing ==
  LET f == SelectedFrame(session.tree)
  IN /\ phase = "running" /\ Roomy(session.tree)
     /\ f # None
     /\ FullscreenFrames(session.tree, ClientOf(f)) = {}
     => \A s \in EnableFullscreen(session, ClientOf(f)) :
          /\ s.tree.selected_view # session.tree.selected_view
          /\ Arrangement(DisableFullscreen(s, SelectedFrame(s.tree)).tree)
               = Arrangement(session.tree)

(***************************************************************************)
(* The view to go back to is another one, and going back twice leads here, *)
(* also when one of the two is empty and deleted on the way.               *)
(***************************************************************************)
BackAndForth ==
  session.previous # None =>
    LET there == SwitchTo(session, session.previous)
        back == SwitchTo(there, there.previous)
    IN /\ there.tree.selected_view # session.tree.selected_view
       /\ back.tree.selected_view = session.tree.selected_view
       /\ back.previous = session.previous

(***************************************************************************)
(* When a client goes whose fullscreen view is on the screen, that view    *)
(* goes with it and the one it was made from returns, even if it is empty. *)
(***************************************************************************)
ClosingReturns ==
  [][\A c \in Clients :
       LET w == session.tree
           f == FrameOnScreen(w, c)
       IN /\ phase = "running" /\ phase' = "running"
          /\ c \in windows /\ c \notin windows'
          /\ f # None /\ OriginalFrame(w, f) # None
          /\ FramesOfView(w, ViewOf(f)) = {f}
          => /\ session'.tree.selected_view = Original[ViewOf(f)]
             /\ ViewOf(f) \notin session'.tree.views]_sessionVars

(***************************************************************************)
(* A window manager that finds a complete save, and the windows it was     *)
(* made of, has the same views, columns, frames and selections again, and  *)
(* would save the same.                                                    *)
(***************************************************************************)
RestartKeepsSession ==
  [][phase = "loading" /\ phase' = "running" /\ expected # None
       => server' = expected]_sessionVars

(***************************************************************************)
(* What the note before it says of the loop that ends the loading: it goes *)
(* on safely when the views change under it.                               *)
(***************************************************************************)
SweepKeepsItsView == phase = "loading" /\ pending = {} => ~ UsesDeletedView(session.tree)
=============================================================================
