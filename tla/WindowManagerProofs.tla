------------------------- MODULE WindowManagerProofs ------------------------
(***************************************************************************)
(* The type invariant and the safety invariants on the tree of module      *)
(* WindowManager: links, histories, selection, emptiness and reachability, *)
(* proved for any clients, views, pool of columns and batch size.  Every   *)
(* action has a lemma, named after it, that says that it keeps the         *)
(* invariant and what it does to the frames and to the view that is shown. *)
(* From what they do follows that the module implements module Tags, and   *)
(* what it does to the selection.                                          *)
(***************************************************************************)
EXTENDS WindowManager, LayoutProofs, FiniteSetTheorems

\* The inductive invariant.  Types are not enough: what a handler computes from
\* the graph has its type only because the lists, the back pointers and the
\* selection agree.  Marks are in it because the marked-frames commands walk the
\* marked frames, and the current view because they go on putting frames into it.
GraphInv ==
  /\ WellFormed(wm)
  /\ NoneEmptyBut(wm, {}, {})
  /\ wm.marked \subseteq LiveFrames(wm)

HandlerInv ==
  handler.op \in {"copy_marked_frames", "move_marked_frames"} => wm.selected_view # None

ScreenFields ==
  {"across", "bounds", "placed", "drawn", "client_mapped", "frame_mapped", "focus"}

\* What the invariant says of a screen.
ScreenTyped(s) ==
  /\ DOMAIN s = ScreenFields
  /\ s.focus \in {<<"root">>, <<"lost">>} \cup ({"client", "frame"} \X Clients)
  /\ s.client_mapped \cup s.frame_mapped \subseteq Clients

IInv ==
  /\ GraphInv
  /\ HandlerInv
  /\ EveryClientIsReachable
  /\ TypeOK
  /\ DOMAIN screen = ScreenFields

\* What a handler's steps have to do to the graph to keep the invariant.
Good(w, u) ==
  /\ WellFormed(u)
  /\ NoneEmptyBut(u, {}, {})
  /\ u.marked \subseteq LiveFrames(u)
  /\ \A c \in Clients : FramesOf(u, c) = {} <=> FramesOf(w, c) = {}

\* The same frames are left, and the same view is shown.
SameTags(w, u) == LiveFrames(u) = LiveFrames(w) /\ u.selected_view = w.selected_view

\* A handler that runs at once.
Handles ==
  /\ handler = Idle
  /\ batch < MaxBatch
  /\ batch' = batch + 1
  /\ UNCHANGED <<managed, handler, screen>>

-----------------------------------------------------------------------------
(* Good steps.                                                             *)

\* The same frames in the same columns.
LEMMA SameFramesGood ==
  ASSUME NEW w, w.marked \subseteq LiveFrames(w), NoneEmptyBut(w, {}, {}),
         NEW u, WellFormed(u), u.column_of = w.column_of, u.marked \subseteq w.marked,
         u.view_of = w.view_of, SameViews(w, u)
  PROVE  Good(w, u)
BY SameNoneEmpty DEF Good, LiveFrames, FramesOf

\* The same frames, wherever they are now.
LEMMA SameLiveFramesGood ==
  ASSUME NEW w, w.marked \subseteq LiveFrames(w),
         NEW u, WellFormed(u), NoneEmptyBut(u, {}, {}), LiveFrames(u) = LiveFrames(w),
         u.marked \subseteq w.marked
  PROVE  Good(w, u)
BY DEF Good, FramesOf

\* A frame of each client stays: frame `f' may go when `g' of its client is there.
LEMMA ReplacedFrameGood ==
  ASSUME NEW w, NEW u, WellFormed(u), NoneEmptyBut(u, {}, {}), u.marked \subseteq LiveFrames(u),
         NEW f \in LiveFrames(w), NEW g \in LiveFrames(u), ClientOf(g) = ClientOf(f),
         LiveFrames(u) \subseteq LiveFrames(w) \cup {g},
         LiveFrames(w) \subseteq LiveFrames(u) \cup {f}
  PROVE  Good(w, u)
BY DEF Good, FramesOf

\* A scheduled request or another look.
LEMMA SchedulesGood ==
  ASSUME NEW w, WellFormed(w), NoneEmptyBut(w, {}, {}), w.marked \subseteq LiveFrames(w),
         NEW u, Schedules(w, u)
  PROVE  Good(w, u)
BY SchedulesWellFormed, SameFramesGood DEF Schedules, SameLinks

\* A column is free in every sense when none holds it.
LEMMA NewColumnIsFree ==
  ASSUME NEW w, FreeColumns(w) # {}
  PROVE  NewColumn(w) \in FreeColumns(w)
BY DEF NewColumn

\* The frame of a client in the current view.
LEMMA VisibleFrameIsLive ==
  ASSUME NEW w, WellFormed(w), NEW c \in Clients, VisibleFrame(w, c) # None
  PROVE  VisibleFrame(w, c) \in LiveFrames(w)
<1>1. /\ HasFrame(w, c, w.selected_view)
      /\ VisibleFrame(w, c) = <<c, w.selected_view>>
  BY DEF VisibleFrame
<1>2. w.selected_view \in Views
  BY <1>1 DEF HasFrame, WellFormed, WellLinked, Graph, OrNone
<1>3. QED BY <1>1, <1>2, PairIsFrame DEF HasFrame, LiveFrames

\* The neighbours next_frame, prior_frame, next_column and prior_column find.
LEMMA NeighboursProperties ==
  ASSUME NEW T, NEW s \in Seq(T), NEW S, Enumerates(s, S), NEW e \in S
  PROVE  Next1(s, e) \in S /\ Prior1(s, e) \in S
<1> DEFINE p == Position(s, e)
           n == Len(s)
<1>1. p \in 1..n /\ n \in Nat /\ \A i \in 1..n : s[i] \in S
  BY EnumerationProperties
<1> HIDE DEF p, n
<1>2. n > 0
  BY <1>1
<1>3. (p % n) + 1 \in 1..n /\ ((p + n - 2) % n) + 1 \in 1..n
  <2> DEFINE q == p % n
             r == (p + n - 2) % n
  <2>1. \A i \in Int : i % n \in 0..(n - 1)
    BY <1>1, <1>2
  <2>2. p \in Int /\ p + n - 2 \in Int
    BY <1>1
  <2>3. q \in 0..(n - 1)
    BY <2>1, <2>2
  <2>4. r \in 0..(n - 1)
    BY <2>1, <2>2
  <2> HIDE DEF q, r
  <2>5. q + 1 \in 1..n /\ r + 1 \in 1..n
    BY <1>1, <2>3, <2>4
  <2>6. QED BY <2>5 DEF q, r
<1>4. QED BY <1>1, <1>3 DEF Next1, Prior1, p, n

-----------------------------------------------------------------------------
(* The initial state and the handlers' bookkeeping.                        *)

\* The invariant holds of a WM that has just started.
LEMMA InitIInv == Init => IInv
<1> SUFFICES ASSUME Init PROVE IInv
  OBVIOUS
<1>1. GraphInv
  <2>1. NoneEmptyBut(wm, {}, {})
    BY DEF Init, EmptyGraph, NoneEmptyBut
  <2>2. QED BY <2>1, EmptyGraphWellFormed DEF Init, GraphInv
<1>2. HandlerInv
  BY DEF Init, HandlerInv, Idle
<1>3. EveryClientIsReachable
  <2>1. \A f \in Frames : wm.column_of[f] = None
    BY DEF Init, EmptyGraph
  <2>2. QED BY <2>1 DEF Init, EveryClientIsReachable, FramesOf, LiveFrames
<1>4. TypeOK
  <2>1. wm \in Graph
    BY <1>1 DEF GraphInv, WellFormed, WellLinked
  <2>2. batch \in 0..MaxBatch
    BY MaxBatchAssumption DEF Init
  <2>3. QED BY <2>1, <2>2 DEF Init, TypeOK, Handlers
<1>5. DOMAIN screen = ScreenFields
  BY DEF Init, ScreenFields
<1>6. QED BY <1>1, <1>2, <1>3, <1>4, <1>5 DEF IInv

\* A handler that leaves a good graph behind keeps the invariant.
LEMMA HandlesIInv ==
  ASSUME IInv, Handles, Good(wm, wm')
  PROVE  IInv'
<1>1. GraphInv'
  BY DEF Good, GraphInv
<1>2. HandlerInv'
  BY DEF Handles, HandlerInv, Idle
<1>3. EveryClientIsReachable'
  BY DEF IInv, Handles, Good, EveryClientIsReachable
<1>4. TypeOK'
  <2>1. (wm \in Graph)'
    BY <1>1 DEF GraphInv, WellFormed, WellLinked
  <2>2. (batch \in 0..MaxBatch)'
    BY MaxBatchAssumption DEF IInv, TypeOK, Handles
  <2>3. QED BY <2>1, <2>2 DEF IInv, TypeOK, Handles
<1>5. (DOMAIN screen = ScreenFields)'
  BY DEF IInv, Handles
<1>6. QED BY <1>1, <1>2, <1>3, <1>4, <1>5 DEF IInv

\* One iteration of a handler that loops.
LEMMA IterationIInv ==
  ASSUME IInv, UNCHANGED <<managed, handler, batch, screen>>,
         WellFormed(wm'), NoneEmptyBut(wm', {}, {}), wm'.marked \subseteq LiveFrames(wm'),
         wm'.selected_view = wm.selected_view,
         EveryClientIsReachable'
  PROVE  IInv'
<1>1. GraphInv' /\ HandlerInv'
  BY DEF GraphInv, HandlerInv, IInv
<1>2. TypeOK'
  <2>1. (wm \in Graph)'
    BY DEF WellFormed, WellLinked
  <2>2. QED BY <2>1 DEF IInv, TypeOK
<1>3. QED BY <1>1, <1>2 DEF IInv

-----------------------------------------------------------------------------
(* Events.                                                                 *)

\* The part of the invariant most steps use.
LEMMA IInvGraph ==
  ASSUME IInv
  PROVE  /\ WellFormed(wm) /\ NoneEmptyBut(wm, {}, {}) /\ wm \in Graph /\ wm.marked \subseteq LiveFrames(wm)
         /\ WellLinked(wm)
BY DEF IInv, GraphInv, WellFormed, WellLinked

\* A MapRequest or _NET_ACTIVE_WINDOW of a client that is visible.
LEMMA ActivateClientStep ==
  ASSUME IInv, NEW c \in Clients, ActivateClient(c)
  PROVE  IInv' /\ SameTags(wm, wm')
<1> DEFINE f == VisibleFrame(wm, c)
           w == SelectFrame(wm, f)
<1>1. f \in LiveFrames(wm)
  BY IInvGraph, VisibleFrameIsLive DEF ActivateClient
<1>2. Handles /\ wm' = HandleFrameActivity(w)
  BY DEF ActivateClient, Handle, Handles
<1> HIDE DEF f
<1>3. WellFormed(w) /\ SameLinks(wm, w) /\ SameViews(wm, w)
  BY <1>1, IInvGraph, SelectFrameWellFormed
<1> HIDE DEF w
<1>4. /\ WellFormed(wm') /\ SameFrames(w, wm') /\ SameViews(w, wm')
      /\ wm'.view_of = w.view_of
  BY <1>2, <1>3, HandleFrameActivityWellFormed
<1>5. Good(wm, wm')
  BY <1>3, <1>4, IInvGraph, SameFramesGood DEF SameLinks, SameFrames, SameViews
<1>6. QED BY <1>2, <1>3, <1>4, <1>5, HandlesIInv
         DEF SameTags, SameLinks, SameViews, SameFrames, LiveFrames

\* The pointer enters another frame.
LEMMA EnterNotifyStep ==
  ASSUME IInv, NEW c \in Clients, EnterNotify(c)
  PROVE  IInv' /\ SameTags(wm, wm')
<1> DEFINE f == VisibleFrame(wm, c)
<1>1. f \in LiveFrames(wm)
  BY IInvGraph, VisibleFrameIsLive DEF EnterNotify
<1>2. Handles /\ wm' = SelectFrame(wm, f)
  BY DEF EnterNotify, Handle, Handles
<1> HIDE DEF f
<1>3. WellFormed(wm') /\ SameLinks(wm, wm') /\ SameViews(wm, wm')
  BY <1>1, <1>2, IInvGraph, SelectFrameWellFormed
<1>4. QED BY <1>2, <1>3, IInvGraph, SameFramesGood, HandlesIInv 
   DEF SameLinks, SameViews, SameTags, LiveFrames

\* A change of what is scheduled and shown only: any handler that makes one.
LEMMA SchedulesStep ==
  ASSUME IInv, Handles, Schedules(wm, wm')
  PROVE  IInv' /\ SameTags(wm, wm')
BY IInvGraph, SchedulesGood, HandlesIInv DEF Schedules, SameLinks, SameViews, SameTags, LiveFrames

\* Columns scheduled for layout are linked to nothing.
LEMMA ColumnRequests ==
  ASSUME NEW w \in Graph, NEW S \in SUBSET Columns
  PROVE  Schedules(w, [w EXCEPT !.todo_columns = S])
<1> DEFINE u == [w EXCEPT !.todo_columns = S]
<1>1. u \in Graph
  BY DEF Graph
<1>2. SameLinks(w, u) /\ SameViews(w, u) /\ u.selected_column = w.selected_column
      /\ u.selected_frame = w.selected_frame
  BY DEF Graph, SameLinks, SameViews
<1>3. QED BY <1>1, <1>2 DEF Schedules

\* Nor are the shaded frames,
LEMMA NewShaded ==
  ASSUME NEW w \in Graph, NEW S \in SUBSET Frames
  PROVE  Schedules(w, [w EXCEPT !.shaded = S])
<1> DEFINE u == [w EXCEPT !.shaded = S]
<1>1. u \in Graph
  BY DEF Graph
<1>2. SameLinks(w, u) /\ SameViews(w, u) /\ u.selected_column = w.selected_column
      /\ u.selected_frame = w.selected_frame
  BY DEF Graph, SameLinks, SameViews
<1>3. QED BY <1>1, <1>2 DEF Schedules

\* the decorated ones,
LEMMA NewDecorated ==
  ASSUME NEW w \in Graph, NEW S \in SUBSET Frames
  PROVE  Schedules(w, [w EXCEPT !.decorated = S])
<1> DEFINE u == [w EXCEPT !.decorated = S]
<1>1. u \in Graph
  BY DEF Graph
<1>2. SameLinks(w, u) /\ SameViews(w, u) /\ u.selected_column = w.selected_column
      /\ u.selected_frame = w.selected_frame
  BY DEF Graph, SameLinks, SameViews
<1>3. QED BY <1>1, <1>2 DEF Schedules

\* the views with a visible bar
LEMMA NewBarVisible ==
  ASSUME NEW w \in Graph, NEW S \in SUBSET Views
  PROVE  Schedules(w, [w EXCEPT !.bar_visible = S])
<1> DEFINE u == [w EXCEPT !.bar_visible = S]
<1>1. u \in Graph
  BY DEF Graph
<1>2. SameLinks(w, u) /\ SameViews(w, u) /\ u.selected_column = w.selected_column
      /\ u.selected_frame = w.selected_frame
  BY DEF Graph, SameLinks, SameViews
<1>3. QED BY <1>1, <1>2 DEF Schedules

\* and the activity timer.
LEMMA NewTimer ==
  ASSUME NEW w \in Graph, NEW S \in BOOLEAN
  PROVE  Schedules(w, [w EXCEPT !.timer = S])
<1> DEFINE u == [w EXCEPT !.timer = S]
<1>1. u \in Graph
  BY DEF Graph
<1>2. SameLinks(w, u) /\ SameViews(w, u) /\ u.selected_column = w.selected_column
      /\ u.selected_frame = w.selected_frame
  BY DEF Graph, SameLinks, SameViews
<1>3. QED BY <1>1, <1>2 DEF Schedules

\* The height a client wants may have changed.
LEMMA UpdateSizeHintsStep ==
  ASSUME IInv, NEW c \in Clients, UpdateSizeHints(c)
  PROVE  IInv' /\ SameTags(wm, wm')
<1> DEFINE S == {wm.column_of[f] : f \in FramesOf(wm, c)}
           T == wm.todo_columns \cup S
<1>1. Handles /\ wm' = [wm EXCEPT !.todo_columns = T]
  BY DEF UpdateSizeHints, Handle, Handles
<1>2. S \subseteq Columns
  BY IInvGraph DEF FramesOf, LiveFrames, Graph, OrNone
<1>3. wm.todo_columns \in SUBSET Columns
  BY IInvGraph DEF Graph
<1> HIDE DEF S
<1>4. T \in SUBSET Columns
  BY <1>2, <1>3
<1> HIDE DEF T
<1>5. QED BY <1>1, <1>4, IInvGraph, ColumnRequests, SchedulesStep

\* The activity timer fires.
LEMMA ActivityTimeoutStep ==
  ASSUME IInv, ActivityTimeout
  PROVE  IInv' /\ SameTags(wm, wm')
<1> DEFINE w == [wm EXCEPT !.timer = FALSE]
<1>1. Handles /\ wm' = HandleFrameActivity(w)
  BY DEF ActivityTimeout, Handle, Handles
<1>2. FALSE \in BOOLEAN
  OBVIOUS
<1>3. Schedules(wm, w)
  BY <1>2, IInvGraph, NewTimer
<1> HIDE DEF w
<1>4. WellFormed(w)
  BY <1>3, IInvGraph, SchedulesWellFormed
<1>5. /\ WellFormed(wm') /\ SameFrames(w, wm') /\ SameViews(w, wm')
      /\ wm'.view_of = w.view_of
  BY <1>1, <1>4, HandleFrameActivityWellFormed
<1>6. Good(wm, wm')
  BY <1>3, <1>5, IInvGraph, SameFramesGood DEF Schedules, SameLinks, SameFrames, SameViews
<1>7. QED BY <1>1, <1>3, <1>5, <1>6, HandlesIInv
         DEF SameTags, Schedules, SameLinks, SameViews, SameFrames, LiveFrames

-----------------------------------------------------------------------------
(* Selection commands.                                                     *)

\* A handler that only moves the selection.
LEMMA SelectsStep ==
  ASSUME IInv, Handles, WellFormed(wm'), SameLinks(wm, wm'), NoneEmptyBut(wm', {}, {})
  PROVE  IInv' /\ LiveFrames(wm') = LiveFrames(wm)
BY IInvGraph, SameLiveFramesGood, HandlesIInv DEF SameLinks, LiveFrames

\* ... in the view on the screen.
LEMMA SelectsWithinStep ==
  ASSUME IInv, Handles, WellFormed(wm'), SameLinks(wm, wm'), SameViews(wm, wm')
  PROVE  IInv' /\ SameTags(wm, wm')
BY IInvGraph, SameNoneEmpty, SelectsStep DEF SameLinks, SameViews, SameTags

\* SelectLeft and SelectRight, given the column that is next in either direction.
LEMMA SelectBesideStep ==
  ASSUME IInv, SelectLeft \/ SelectRight
  PROVE  IInv' /\ SameTags(wm, wm')
<1> DEFINE v == wm.selected_view
           col == SelectedColumn(wm)
           s == wm.columns[v]
<1>1. PICK next \in {Next1(s, col), Prior1(s, col)} :
        col # None /\ Handles /\ wm' = SelectColumn(wm, v, next)
  BY DEF SelectLeft, SelectRight, SelectBeside, Handle, Handles
<1>2. v \in Views /\ col \in ColumnsOf(wm, v)
  <2>1. v # None /\ col = wm.selected_column[v]
    BY <1>1 DEF SelectedColumn
  <2>2. v \in Views
    BY <2>1, IInvGraph DEF Graph, OrNone
  <2>3. QED BY <1>1, <2>1, <2>2, IInvGraph DEF WellFormed, Selection, Selects
<1>3. s \in Seq(Columns) /\ Enumerates(s, ColumnsOf(wm, v))
  BY <1>2, IInvGraph DEF WellLinked, Graph, Tree
<1>4. next \in ColumnsOf(wm, v)
  BY <1>1, <1>2, <1>3, NeighboursProperties
<1> HIDE DEF s, v, col
<1>5. WellFormed(wm') /\ SameLinks(wm, wm') /\ SameViews(wm, wm')
  BY <1>1, <1>2, <1>4, IInvGraph, SelectOwnColumnWellFormed
<1>6. QED BY <1>1, <1>5, SelectsWithinStep

\* SelectUp, SelectDown and NextByActivityInColumn.
LEMMA SelectWithinStep ==
  ASSUME IInv, SelectUp \/ SelectDown \/ NextByActivityInColumn
  PROVE  IInv' /\ SameTags(wm, wm')
<1> DEFINE f == SelectedFrame(wm)
           col == SelectedColumn(wm)
<1>1. f # None /\ Handles
  BY DEF SelectUp, SelectDown, SelectWithin, NextByActivityInColumn, OnSelectedFrame, Handle,
         Handles
<1>2. f \in FramesIn(wm, col) /\ col \in Columns
  BY <1>1, IInvGraph, CurrentFrameIsLive
<1>3. wm.column_of[f] = col
  BY <1>2 DEF FramesIn
<1>4. PICK s \in {wm.frames[col], wm.column_activity[col]} :
      \E next \in {Next1(s, f), Prior1(s, f)} : wm' = SelectFrameInColumn(wm, col, next)
  BY <1>3 DEF SelectUp, SelectDown, SelectWithin, NextByActivityInColumn, OnSelectedFrame, Handle
<1>5. s \in Seq(Frames) /\ Enumerates(s, FramesIn(wm, col))
  BY <1>2, <1>4, IInvGraph DEF WellLinked, Graph, Tree, Histories
<1>6. PICK next \in FramesIn(wm, col) : wm' = SelectFrameInColumn(wm, col, next)
  BY <1>2, <1>4, <1>5, NeighboursProperties
<1> HIDE DEF f, col
<1>7. WellFormed(wm') /\ SameLinks(wm, wm') /\ SameViews(wm, wm')
  BY <1>2, <1>6, IInvGraph, SelectOwnFrameWellFormed
<1>8. QED BY <1>1, <1>7, SelectsWithinStep

\* The next frame by activity may be in another column of the view ...
LEMMA NextByActivityInViewStep ==
  ASSUME IInv, NextByActivityInView
  PROVE  IInv' /\ SameTags(wm, wm')
<1> DEFINE f == SelectedFrame(wm)
           v == ViewOf(f)
           next == Next1(wm.view_activity[v], f)
<1>1. f # None /\ Handles /\ wm' = SelectFrame(wm, next)
  BY DEF NextByActivityInView, OnSelectedFrame, Handle, Handles
<1>2. f \in FramesOfView(wm, v) /\ v \in Views
  BY <1>1, IInvGraph, CurrentFrameIsLive, FrameParts DEF FramesOfView, LiveFrames
<1>3. wm.view_activity[v] \in Seq(Frames) /\ Enumerates(wm.view_activity[v], FramesOfView(wm, v))
  BY <1>2, IInvGraph DEF WellLinked, Graph, Histories
<1>4. next \in FramesOfView(wm, v)
  BY <1>2, <1>3, NeighboursProperties
<1> HIDE DEF next
<1>5. WellFormed(wm') /\ SameLinks(wm, wm') /\ SameViews(wm, wm')
  BY <1>1, <1>4, IInvGraph, SelectFrameWellFormed DEF FramesOfView
<1>6. QED BY <1>1, <1>5, SelectsWithinStep

\* A live frame's view exists.
LEMMA FramesViewExists ==
  ASSUME NEW w, WellFormed(w), NEW f \in LiveFrames(w)
  PROVE  ViewOf(f) \in w.views
<1>1. w.column_of[f] \in Columns /\ ViewOf(f) \in Views
  BY FrameParts DEF WellFormed, WellLinked, Graph, OrNone, LiveFrames
<1>2. w.column_of[f] \in ColumnsOf(w, ViewOf(f))
  BY <1>1 DEF WellFormed, WellLinked, Tree, ColumnsOf
<1>3. QED BY <1>1, <1>2 DEF WellFormed, WellLinked, Tree

\* ... or in another view, which is then shown.
LEMMA NextByActivityStep ==
  ASSUME IInv, NextByActivity
  PROVE  /\ IInv'
         /\ LiveFrames(wm') = LiveFrames(wm) /\ wm'.selected_view \in Views
<1> DEFINE f == SelectedFrame(wm)
           next == Next1(wm.activity, f)
           w == SelectFrame(wm, next)
<1>1. f # None /\ Handles /\ wm' = SelectView(w, ViewOf(next))
  BY DEF NextByActivity, OnSelectedFrame, Handle, Handles
<1>2. f \in LiveFrames(wm)
  BY <1>1, IInvGraph, CurrentFrameIsLive
<1>3. wm.activity \in Seq(Frames) /\ Enumerates(wm.activity, LiveFrames(wm))
  BY IInvGraph DEF WellLinked, Graph, Histories
<1>4. next \in LiveFrames(wm)
  BY <1>2, <1>3, NeighboursProperties
<1> HIDE DEF next
<1>5. WellFormed(w) /\ SameLinks(wm, w) /\ SameViews(wm, w)
  BY <1>4, IInvGraph, SelectFrameWellFormed
<1>6. ViewOf(next) \in w.views /\ ViewOf(next) \in Views
  BY <1>4, <1>5, FramesViewExists, FrameParts DEF SameLinks, LiveFrames
<1> HIDE DEF w
<1>7. WellFormed(wm') /\ SameLinks(w, wm') /\ wm'.selected_view = ViewOf(next)
  BY <1>1, <1>5, <1>6, SelectViewWellFormed
<1>8. SameLinks(wm, wm')
  BY <1>5, <1>7 DEF SameLinks
<1>9. NoneEmptyBut(wm', {}, {})
  BY <1>1, <1>5, <1>6, IInvGraph, SameNoneEmpty, MoreMayBeEmpty, SelectViewNoneEmpty DEF SameLinks
<1>10. QED BY <1>1, <1>6, <1>7, <1>8, <1>9, SelectsStep

\* Another view is shown; the one that was may vanish.
LEMMA SwitchToViewStep ==
  ASSUME IInv, NEW v \in Views, SwitchToView(v)
  PROVE  /\ IInv'
         /\ LiveFrames(wm') = LiveFrames(wm) /\ wm'.selected_view \in Views
<1> DEFINE w == GetOrCreateView(wm, v)
<1>1. Handles /\ wm' = SelectView(w, v)
  BY DEF SwitchToView, Handle, Handles
<1>2. /\ WellFormed(w) /\ SameLinks(wm, w) /\ v \in w.views
      /\ NoneEmptyBut(w, {}, {v})
  BY IInvGraph, GetOrCreateViewWellFormed, GetOrCreateViewNoneEmpty
<1> HIDE DEF w
<1>3. WellFormed(wm') /\ SameLinks(w, wm') /\ wm'.selected_view = v
  BY <1>1, <1>2, SelectViewWellFormed
<1>4. SameLinks(wm, wm')
  BY <1>2, <1>3 DEF SameLinks
<1>5. NoneEmptyBut(wm', {}, {})
  BY <1>1, <1>2, SelectViewNoneEmpty
<1>6. QED BY <1>1, <1>3, <1>4, <1>5, SelectsStep

-----------------------------------------------------------------------------
(* Commands that move the selected frame about its view.                   *)

\* The column of a live frame is a column of its view.
LEMMA FramesColumn ==
  ASSUME NEW w, WellFormed(w), NEW f \in LiveFrames(w)
  PROVE  /\ w.column_of[f] \in Columns /\ w.column_of[f] # None
         /\ ViewOf(f) \in Views
         /\ w.view_of[w.column_of[f]] = ViewOf(f)
         /\ w.column_of[f] \in ColumnsOf(w, ViewOf(f))
         /\ f \in FramesIn(w, w.column_of[f])
<1>1. /\ w.column_of[f] \in Columns /\ w.column_of[f] # None
      /\ ViewOf(f) \in Views /\ f \in Frames
  BY FrameParts DEF WellFormed, WellLinked, Graph, OrNone, LiveFrames
<1>2. w.view_of[w.column_of[f]] = ViewOf(f)
  BY DEF WellFormed, WellLinked, Tree
<1>3. QED BY <1>1, <1>2 DEF ColumnsOf, FramesIn

\* A frame goes into another column of its view: the column it leaves may vanish.
LEMMA MoveToColumnWellFormed ==
  ASSUME NEW w, WellFormed(w), NEW f \in LiveFrames(w),
         NEW target \in ColumnsOf(w, ViewOf(f)), target # w.column_of[f],
         NEW u, u = MoveToColumn(w, f, target)
  PROVE  /\ WellFormed(u) /\ SameTags(w, u) /\ u.marked = w.marked
         /\ NoneEmptyBut(w, {target}, {}) => NoneEmptyBut(u, {}, {})
<1> DEFINE r == RemoveFrame(w, f)
           a == AddFrameAfterSelected(r, f, target)
<1>1. f \in Frames /\ target \in Columns /\ w.view_of[target] = ViewOf(f)
  BY DEF LiveFrames, ColumnsOf
<1>2. /\ WellFormed(r) /\ r.selected_view = w.selected_view
      /\ r.view_of[target] = w.view_of[target]
      /\ r.column_of = [w.column_of EXCEPT ![f] = None]
      /\ r.marked = w.marked
      /\ NoneEmptyBut(w, {target}, {}) => NoneEmptyBut(r, {target}, {})
  <2>1. r = RemoveFrame(w, f)
    OBVIOUS
  <2> HIDE DEF r
  <2>2. /\ WellFormed(r) /\ r.selected_view = w.selected_view
        /\ \A c \in Columns : c # w.column_of[f] => r.view_of[c] = w.view_of[c]
        /\ r.column_of = [w.column_of EXCEPT ![f] = None]
        /\ r.marked = w.marked
    BY <2>1, RemoveFrameWellFormed
  <2>3. NoneEmptyBut(w, {target}, {}) => NoneEmptyBut(r, {target}, {})
    BY <2>1, RemoveFrameNoneEmpty
  <2>4. QED BY <1>1, <2>2, <2>3
<1>3. u = SelectFrame(a, f)
  BY DEF MoveToColumn
<1> HIDE DEF r
<1>4. w.column_of \in [Frames -> OrNone(Columns)]
  BY DEF WellFormed, WellLinked, Graph
<1>5. f \in Frames \ LiveFrames(r)
  BY <1>1, <1>2, <1>4 DEF LiveFrames
<1>6. /\ WellFormed(a) /\ SameViews(r, a) /\ a.view_of = r.view_of
      /\ a.column_of = [r.column_of EXCEPT ![f] = target]
      /\ a.marked = r.marked
  BY <1>1, <1>2, <1>5, AddFrameAfterSelectedWellFormed
<1> HIDE DEF a
<1>7. LiveFrames(a) = LiveFrames(w)
  BY <1>1, <1>2, <1>4, <1>6, NoneIsNeither DEF LiveFrames
<1>8. WellFormed(u) /\ SameLinks(a, u) /\ SameViews(a, u)
  BY <1>3, <1>6, <1>7, SelectFrameWellFormed
<1>9. NoneEmptyBut(r, {target}, {}) => NoneEmptyBut(u, {}, {})
  <2>1. NoneEmptyBut(r, {target}, {}) => NoneEmptyBut(a, {}, {})
    BY <1>1, <1>2, <1>5, <1>6, FrameFillsColumn
  <2>2. QED BY <1>8, <2>1, SameNoneEmpty DEF SameLinks
<1>10. QED BY <1>2, <1>6, <1>7, <1>8, <1>9 DEF SameLinks, SameViews, SameTags, LiveFrames

\* A frame goes into a new column of its view.
LEMMA MoveToNewColumnWellFormed ==
  ASSUME NEW w, WellFormed(w), FreeColumns(w) # {}, NEW f \in LiveFrames(w),
         NEW i \in 1..(Len(w.columns[ViewOf(f)]) + 1),
         NEW u, u = MoveToNewColumn(w, f, i)
  PROVE  /\ WellFormed(u) /\ SameTags(w, u) /\ u.marked = w.marked
         /\ NoneEmptyBut(w, {}, {}) => NoneEmptyBut(u, {}, {})
<1> DEFINE v == ViewOf(f)
           col == NewColumn(w)
           m == CreateColumn(w, v, i, col)
<1>1. col \in FreeColumns(w)
  BY NewColumnIsFree
<1>2. v \in w.views
  BY FramesViewExists
<1>3. u = MoveToColumn(m, f, col)
  BY DEF MoveToNewColumn
<1> HIDE DEF col
<1>4. /\ WellFormed(m) /\ m.selected_view = w.selected_view
      /\ m.column_of = w.column_of /\ m.marked = w.marked
      /\ \A c \in Columns : m.view_of[c] = IF c = col THEN v ELSE w.view_of[c]
  BY <1>1, <1>2, CreateColumnWellFormed DEF SameFrames, SameViews
<1>4a. NoneEmptyBut(w, {}, {}) => NoneEmptyBut(m, {col}, {})
  BY <1>1, <1>2, MoreMayBeEmpty, CreateColumnNoneEmpty
<1> HIDE DEF m
<1>5. col \in ColumnsOf(m, ViewOf(f))
  BY <1>1, <1>4 DEF FreeColumns, ColumnsOf
<1>6. col # m.column_of[f]
  <2>1. w.view_of[w.column_of[f]] # None
    BY FramesColumn, NoneIsNeither
  <2>2. QED BY <1>1, <1>4, <2>1 DEF FreeColumns
<1>7. LiveFrames(m) = LiveFrames(w)
  BY <1>4 DEF LiveFrames
<1>8. /\ WellFormed(u) /\ SameTags(m, u) /\ u.marked = m.marked
      /\ NoneEmptyBut(m, {col}, {}) => NoneEmptyBut(u, {}, {})
  BY <1>3, <1>4, <1>5, <1>6, <1>7, MoveToColumnWellFormed
<1>9. QED BY <1>4, <1>4a, <1>7, <1>8 DEF SameTags

\* MoveLeft and MoveRight.
LEMMA MoveAcrossStep ==
  ASSUME IInv, MoveLeft \/ MoveRight
  PROVE  IInv' /\ SameTags(wm, wm')
<1> DEFINE f == SelectedFrame(wm)
           cols == wm.columns[ViewOf(f)]
           col == wm.column_of[f]
           i == Position(cols, col)
<1>1. f # None /\ Handles /\ FreeColumns(wm) # {}
  BY DEF MoveLeft, MoveRight, OnSelectedFrame, Handle, Handles
<1>2. f \in LiveFrames(wm)
  BY <1>1, IInvGraph, CurrentFrameIsLive
<1>3. col \in ColumnsOf(wm, ViewOf(f)) /\ ViewOf(f) \in Views
  BY <1>2, IInvGraph, FramesColumn
<1>4. cols \in Seq(Columns) /\ Enumerates(cols, ColumnsOf(wm, ViewOf(f)))
  BY <1>3, IInvGraph DEF WellLinked, Graph, Tree
<1>5. /\ Len(cols) \in Nat /\ i \in 1..Len(cols) /\ cols[i] = col
      /\ \A j \in 1..Len(cols) : cols[j] \in ColumnsOf(wm, ViewOf(f))
  BY <1>3, <1>4, EnumerationProperties
<1>6. \/ i = 1 /\ wm' = MoveToNewColumn(wm, f, 1)
      \/ i # 1 /\ wm' = MoveToColumn(wm, f, cols[i - 1])
      \/ i = Len(cols) /\ wm' = MoveToNewColumn(wm, f, i + 1)
      \/ i # Len(cols) /\ wm' = MoveToColumn(wm, f, cols[i + 1])
  BY DEF MoveLeft, MoveRight, OnSelectedFrame, Handle
<1> HIDE DEF f, i, col
<1>7. /\ WellFormed(wm') /\ SameTags(wm, wm') /\ wm'.marked = wm.marked
      /\ NoneEmptyBut(wm', {}, {})
  <2>1. CASE \E k \in {1, i + 1} : wm' = MoveToNewColumn(wm, f, k)
    <3>1. PICK k \in {1, i + 1} : wm' = MoveToNewColumn(wm, f, k)
      BY <2>1
    <3>2. k \in 1..(Len(cols) + 1)
      BY <1>5
    <3>3. QED BY <1>1, <1>2, <3>1, <3>2, IInvGraph, MoveToNewColumnWellFormed
  <2>2. CASE \E k \in 1..Len(cols) : k # i /\ wm' = MoveToColumn(wm, f, cols[k])
    <3>1. PICK k \in 1..Len(cols) : k # i /\ wm' = MoveToColumn(wm, f, cols[k])
      BY <2>2
    <3>2. cols[k] # col /\ cols[k] \in ColumnsOf(wm, ViewOf(f))
      BY <1>4, <1>5, <3>1, EnumerationIsInjective
    <3>3. NoneEmptyBut(wm, {cols[k]}, {})
      BY IInvGraph, MoreMayBeEmpty
    <3>4. QED BY <1>2, <3>1, <3>2, <3>3, IInvGraph, MoveToColumnWellFormed DEF col
  <2>3. i # 1 => i - 1 \in 1..Len(cols) /\ i - 1 # i
    BY <1>5
  <2>4. i # Len(cols) => i + 1 \in 1..Len(cols) /\ i + 1 # i
    BY <1>5
  <2>5. QED BY <1>6, <2>1, <2>2, <2>3, <2>4
<1>8. Good(wm, wm')
  BY <1>7, IInvGraph, SameLiveFramesGood DEF SameTags
<1>9. QED BY <1>1, <1>7, <1>8, HandlesIInv

\* A frame changes its place among the frames of its column.
LEMMA RepositionWellFormed ==
  ASSUME IInv, NEW f \in LiveFrames(wm), NEW i \in 1..Len(wm.frames[wm.column_of[f]]),
         NEW u, u = Reposition(f, i)
  PROVE  /\ WellFormed(u) /\ u.column_of = wm.column_of /\ u.marked = wm.marked
         /\ u.view_of = wm.view_of /\ SameViews(wm, u)
<1> DEFINE col == wm.column_of[f]
           s == wm.frames[col]
           t == InsertAt(Erase(s, f), i, f)
           w == [wm EXCEPT !.frames[col] = t]
<1>1. col \in Columns /\ f \in FramesIn(wm, col)
  BY IInvGraph, FramesColumn
<1>2. s \in Seq(Frames) /\ Enumerates(s, FramesIn(wm, col))
  BY <1>1, IInvGraph DEF WellLinked, Graph, Tree
<1>3. t \in Seq(Frames) /\ Enumerates(t, FramesIn(wm, col))
  <2>1. Erase(s, f) \in Seq(Frames) /\ Enumerates(Erase(s, f), FramesIn(wm, col) \ {f})
    BY <1>1, <1>2, EraseEnumeration
  <2>2. Len(Erase(s, f)) = Len(s) - 1 /\ Len(s) \in Nat
    BY <1>1, <1>2, EraseProperties, EnumerationProperties DEF Enumerates
  <2>3. i \in 1..(Len(Erase(s, f)) + 1)
    BY <2>2
  <2>4. f \in Frames /\ f \notin FramesIn(wm, col) \ {f}
    BY <1>1 DEF FramesIn
  <2> HIDE DEF s
  <2>5. t \in Seq(Frames) /\ Enumerates(t, (FramesIn(wm, col) \ {f}) \cup {f})
    BY <2>1, <2>3, <2>4, InsertEnumeration
  <2>6. (FramesIn(wm, col) \ {f}) \cup {f} = FramesIn(wm, col)
    BY <1>1
  <2>7. QED BY <2>5, <2>6
<1>4. u = ScheduleColumn(w, col)
  BY DEF Reposition
<1> HIDE DEF col, s, t
<1>5. w \in Graph
  <2>1. wm.frames \in [Columns -> Seq(Frames)] /\ wm \in Graph
    BY IInvGraph DEF Graph
  <2>2. [wm.frames EXCEPT ![col] = t] \in [Columns -> Seq(Frames)]
    BY <1>1, <1>3, <2>1
  <2>3. QED BY <2>1, <2>2 DEF Graph
<1>6. /\ w.frames = [wm.frames EXCEPT ![col] = t]
      /\ w.columns = wm.columns /\ w.view_of = wm.view_of /\ w.column_of = wm.column_of
      /\ w.activity = wm.activity /\ w.marked = wm.marked
      /\ w.view_activity = wm.view_activity /\ w.column_activity = wm.column_activity
      /\ w.selected_column = wm.selected_column /\ w.selected_frame = wm.selected_frame
      /\ SameViews(wm, w)
  BY IInvGraph DEF Graph, SameViews
<1>7. \A c \in Columns : w.frames[c] = IF c = col THEN t ELSE wm.frames[c]
  BY <1>6, IInvGraph DEF Graph
<1> HIDE DEF w
<1>8. /\ \A v : ColumnsOf(w, v) = ColumnsOf(wm, v)
      /\ \A c : FramesIn(w, c) = FramesIn(wm, c)
      /\ LiveFrames(w) = LiveFrames(wm)
      /\ \A v : FramesOfView(w, v) = FramesOfView(wm, v)
  BY <1>6, SameSets
<1>9. Tree(w)
  BY <1>3, <1>6, <1>7, <1>8, IInvGraph DEF WellLinked, Tree, SameViews
<1>10. Histories(w)
  BY <1>6, <1>8, IInvGraph DEF WellLinked, Histories
<1>11. Selection(w)
  BY <1>6, <1>8, IInvGraph DEF WellFormed, Selection, SameViews
<1>12. WellFormed(w)
  BY <1>5, <1>9, <1>10, <1>11 DEF WellFormed, WellLinked
<1>13. Schedules(w, u)
  BY <1>1, <1>4, <1>5, ScheduleColumnEffect
<1>14. QED BY <1>6, <1>12, <1>13, SchedulesWellFormed DEF Schedules, SameLinks, SameViews

\* MoveUp and MoveDown.
LEMMA MoveWithinStep ==
  ASSUME IInv, MoveUp \/ MoveDown
  PROVE  IInv' /\ SameTags(wm, wm')
<1> DEFINE f == SelectedFrame(wm)
           s == wm.frames[wm.column_of[f]]
           i == Position(s, f)
<1>1. f # None /\ Handles
  BY DEF MoveUp, MoveDown, OnSelectedFrame, Handle, Handles
<1>2. f \in LiveFrames(wm)
  BY <1>1, IInvGraph, CurrentFrameIsLive
<1>3. wm.column_of[f] \in Columns /\ f \in FramesIn(wm, wm.column_of[f])
  BY <1>2, IInvGraph, FramesColumn
<1>4. s \in Seq(Frames) /\ Enumerates(s, FramesIn(wm, wm.column_of[f]))
  BY <1>3, IInvGraph DEF WellLinked, Graph, Tree
<1>5. i \in 1..Len(s) /\ Len(s) \in Nat
  BY <1>3, <1>4, EnumerationProperties
<1>6. \/ wm' = Reposition(f, IF i = 1 THEN Len(s) ELSE i - 1)
      \/ wm' = wm
      \/ wm' = Reposition(f, IF i = Len(s) THEN 1 ELSE i + 1)
  BY DEF MoveUp, MoveDown, OnSelectedFrame, Handle
<1> HIDE DEF f, i
<1>7. /\ (IF i = 1 THEN Len(s) ELSE i - 1) \in 1..Len(s)
      /\ (IF i = Len(s) THEN 1 ELSE i + 1) \in 1..Len(s)
  BY <1>5
<1>8. /\ WellFormed(wm') /\ wm'.column_of = wm.column_of /\ wm'.marked = wm.marked
      /\ wm'.view_of = wm.view_of /\ SameViews(wm, wm')
  BY <1>2, <1>6, <1>7, IInvGraph, RepositionWellFormed DEF SameViews
<1>9. Good(wm, wm')
  BY <1>8, IInvGraph, SameFramesGood
<1>10. QED BY <1>1, <1>8, <1>9, HandlesIInv DEF SameTags, SameViews, LiveFrames

-----------------------------------------------------------------------------
(* Commands that change an attribute.                                      *)

\* Toggling a member of a type.
LEMMA ToggleProperties ==
  ASSUME NEW S, NEW T \in SUBSET S, NEW e \in S
  PROVE  Toggle(T, e) \in SUBSET S
BY DEF Toggle

\* The selected frame, for the commands that change it only.
LEMMA CommandFrame ==
  ASSUME IInv, SelectedFrame(wm) # None
  PROVE  /\ SelectedFrame(wm) \in LiveFrames(wm) /\ SelectedFrame(wm) \in Frames
         /\ wm.column_of[SelectedFrame(wm)] \in Columns
BY IInvGraph, CurrentFrameIsLive, FramesColumn DEF LiveFrames

\* ToggleShaded and ToggleDecorated.
LEMMA ToggleLookStep ==
  ASSUME IInv, ToggleShaded \/ ToggleDecorated
  PROVE  IInv' /\ SameTags(wm, wm')
<1> DEFINE f == SelectedFrame(wm)
           col == wm.column_of[f]
           S == Toggle(wm.shaded, f)
           D == Toggle(wm.decorated, f)
           ws == [wm EXCEPT !.shaded = S]
           wd == [wm EXCEPT !.decorated = D]
<1>1. f # None /\ Handles
  BY DEF ToggleShaded, ToggleDecorated, OnSelectedFrame, Handle, Handles
<1>2. f \in Frames /\ col \in Columns
  BY <1>1, CommandFrame
<1>3. \/ wm' = ScheduleInputFocus(ScheduleColumn(ws, col), f)
      \/ wm' = ScheduleColumn(wd, col)
  BY DEF ToggleShaded, ToggleDecorated, OnSelectedFrame, Handle
<1>4. S \in SUBSET Frames /\ D \in SUBSET Frames
  <2>1. wm.shaded \in SUBSET Frames /\ wm.decorated \in SUBSET Frames
    BY IInvGraph DEF Graph
  <2>2. QED BY <1>2, <2>1, ToggleProperties
<1> HIDE DEF f, col, S, D
<1>5. Schedules(wm, ws) /\ Schedules(wm, wd)
  BY <1>4, IInvGraph, NewShaded, NewDecorated
<1> HIDE DEF ws, wd
<1>6. Schedules(wm, ScheduleColumn(ws, col)) /\ Schedules(wm, ScheduleColumn(wd, col))
  BY <1>2, <1>5, ScheduleColumnEffect, SchedulesTwice DEF Schedules
<1>7. Schedules(wm, ScheduleInputFocus(ScheduleColumn(ws, col), f))
  <2> DEFINE x == ScheduleColumn(ws, col)
  <2>1. Schedules(wm, x) /\ x \in Graph
    BY <1>6 DEF Schedules
  <2> HIDE DEF x
  <2>2. Schedules(x, ScheduleInputFocus(x, f))
    BY <1>2, <2>1, ScheduleInputFocusEffect
  <2>3. Schedules(wm, ScheduleInputFocus(x, f))
    BY <2>1, <2>2, SchedulesTwice
  <2>4. QED BY <2>3 DEF x
<1>8. Schedules(wm, wm')
  BY <1>3, <1>6, <1>7
<1>9. QED BY <1>1, <1>8, SchedulesStep

\* The bar of the current view is shown or hidden.
LEMMA ToggleBarVisibleStep ==
  ASSUME IInv, ToggleBarVisible
  PROVE  IInv' /\ SameTags(wm, wm')
<1> DEFINE v == wm.selected_view
           S == Toggle(wm.bar_visible, v)
           w == [wm EXCEPT !.bar_visible = S]
<1>1. v # None /\ Handles /\ wm' = ScheduleView(w, v)
  BY DEF ToggleBarVisible, Handle, Handles
<1>2. v \in Views
  BY <1>1, IInvGraph DEF Graph, OrNone
<1>3. S \in SUBSET Views
  <2>1. wm.bar_visible \in SUBSET Views
    BY IInvGraph DEF Graph
  <2>2. QED BY <1>2, <2>1, ToggleProperties
<1> HIDE DEF v, S
<1>4. Schedules(wm, w)
  BY <1>3, IInvGraph, NewBarVisible
<1> HIDE DEF w
<1>5. Schedules(wm, wm')
  BY <1>1, <1>2, <1>4, ScheduleViewEffect, SchedulesTwice DEF Schedules
<1>6. QED BY <1>1, <1>5, SchedulesStep

\* Marks are linked to nothing, but they are part of the invariant.
LEMMA NewMarked ==
  ASSUME NEW w \in Graph, NEW S \in SUBSET Frames, NEW u, u = [w EXCEPT !.marked = S]
  PROVE  Repaints(w, u) /\ u.marked = S
<1>1. u \in Graph
  BY DEF Graph
<1>2. /\ u.marked = S
      /\ SameViews(w, u)
      /\ u.columns = w.columns /\ u.view_of = w.view_of /\ u.frames = w.frames
      /\ u.column_of = w.column_of
      /\ u.activity = w.activity
      /\ u.view_activity = w.view_activity /\ u.column_activity = w.column_activity
      /\ u.selected_column = w.selected_column /\ u.selected_frame = w.selected_frame
  BY DEF Graph, SameViews
<1>3. QED BY <1>1, <1>2 DEF Repaints

\* The selected frame is marked or unmarked.
LEMMA ToggleMarkedStep ==
  ASSUME IInv, ToggleMarked
  PROVE  IInv' /\ SameTags(wm, wm')
<1> DEFINE f == SelectedFrame(wm)
           S == Toggle(wm.marked, f)
           w == [wm EXCEPT !.marked = S]
<1>1. f # None /\ Handles /\ wm' = ScheduleDraw(w, f)
  BY DEF ToggleMarked, OnSelectedFrame, Handle, Handles
<1>2. f \in LiveFrames(wm) /\ f \in Frames
  BY <1>1, CommandFrame
<1>3. S \subseteq LiveFrames(wm)
  BY <1>2, IInvGraph, ToggleProperties
<1>4. S \in SUBSET Frames
  BY <1>3 DEF LiveFrames
<1> HIDE DEF f, S
<1>5. Repaints(wm, w) /\ w.marked = S
  BY <1>4, IInvGraph, NewMarked
<1> HIDE DEF w
<1>6. WellFormed(w) /\ w \in Graph
  BY <1>5, IInvGraph, RepaintsWellFormed DEF Repaints
<1>7. Schedules(w, wm')
  BY <1>1, <1>2, <1>6, ScheduleDrawEffect DEF OrNone
<1>8. /\ WellFormed(wm') /\ wm'.column_of = wm.column_of /\ wm'.marked = S
      /\ wm'.view_of = wm.view_of /\ SameViews(wm, wm')
  BY <1>5, <1>6, <1>7, SchedulesWellFormed DEF Schedules, SameLinks, SameViews, Repaints
<1>9. Good(wm, wm')
  BY <1>3, <1>8, IInvGraph, SameNoneEmpty DEF Good, LiveFrames, FramesOf
<1>10. QED BY <1>1, <1>8, <1>9, HandlesIInv DEF SameTags, SameViews, LiveFrames

-----------------------------------------------------------------------------
(* Commands that add and remove frames.                                    *)

\* Renaming a frame in a set of live frames.
LEMMA RenameProperties ==
  ASSUME NEW T, NEW S \in SUBSET T, NEW f, NEW g
  PROVE  Rename(S, f, g) \subseteq (T \ {f}) \cup {g}
BY DEF Rename

\* A frame leaves its place and enters view `v' under its new name, which may be
\* the old one.
LEMMA CarriedFrameWellFormed ==
  ASSUME NEW w, WellFormed(w), w.marked \subseteq LiveFrames(w),
         NEW f \in LiveFrames(w), NEW v \in w.views, v # ViewOf(f) \/ v = w.selected_view,
         NEW r, r = RemoveFrame(w, f), FreeColumns(r) # {},
         NEW g \in Frames, ViewOf(g) = v, g \notin LiveFrames(r),
         NEW u, u = PlaceInSmallestColumn(CarryFrame(r, f, g), g, NewColumn(r))
  PROVE  /\ WellFormed(u)
         /\ u.selected_view = w.selected_view
         /\ LiveFrames(u) = (LiveFrames(w) \ {f}) \cup {g}
         /\ u.marked \subseteq LiveFrames(u)
         /\ NoneEmptyBut(w, {}, {v}) => NoneEmptyBut(u, {}, {})
<1> DEFINE k == CarryFrame(r, f, g)
           col == NewColumn(r)
<1>1. f \in Frames /\ w \in Graph /\ v \in Views
  BY DEF LiveFrames, WellFormed, WellLinked, Graph
<1>3. /\ WellFormed(r)
      /\ r.selected_view = w.selected_view
      /\ r.views = w.views \/ r.views = w.views \ {ViewOf(f)}
      /\ r.column_of = [w.column_of EXCEPT ![f] = None]
      /\ r.marked = w.marked
  BY RemoveFrameWellFormed
<1>4. LiveFrames(r) = LiveFrames(w) \ {f}
  BY <1>1, <1>3 DEF LiveFrames, Graph
<1>5. v \in r.views
  BY <1>1, <1>3, NoneIsNeither DEF WellFormed, Selection, OrNone
<1>6. r \in Graph
  BY <1>3 DEF WellFormed, WellLinked
<1>7. Repaints(r, k) /\ k.marked = Rename(r.marked, f, g)
  BY <1>1, <1>6, CarryFrameEffect
<1>8. col \in FreeColumns(r)
  BY NewColumnIsFree
<1> HIDE DEF k, col
<1>9. WellFormed(k)
  BY <1>3, <1>7, RepaintsWellFormed
<1>10. /\ LiveFrames(k) = LiveFrames(r) /\ FreeColumns(k) = FreeColumns(r)
       /\ k.views = r.views /\ k.selected_view = r.selected_view
  BY <1>7 DEF Repaints, SameViews, LiveFrames, FreeColumns
<1>11. g \in Frames \ LiveFrames(k) /\ ViewOf(g) \in k.views /\ col \in FreeColumns(k)
  BY <1>5, <1>8, <1>10
<1>12. u = PlaceInSmallestColumn(k, g, col)
  BY DEF k, col
<1>13. /\ WellFormed(u) /\ SameViews(k, u)
       /\ LiveFrames(u) = LiveFrames(k) \cup {g}
       /\ u.marked = k.marked
       /\ NoneEmptyBut(k, {}, {v}) => NoneEmptyBut(u, {}, {})
  BY <1>9, <1>11, <1>12, PlaceInSmallestColumnWellFormed
<1>14. u.marked \subseteq (LiveFrames(w) \ {f}) \cup {g}
  BY <1>3, <1>7, <1>13, RenameProperties
<1>15. NoneEmptyBut(w, {}, {v}) => NoneEmptyBut(k, {}, {v})
  BY <1>7, RemoveFrameNoneEmpty, SameNoneEmpty DEF Repaints
<1>16. QED BY <1>3, <1>4, <1>10, <1>13, <1>14, <1>15 DEF SameViews

\* A new frame of a client enters a view.
LEMMA CopiedFrameWellFormed ==
  ASSUME NEW w, WellFormed(w), w.marked \subseteq LiveFrames(w),
         NEW g \in Frames \ LiveFrames(w), ViewOf(g) \in w.views,
         NEW col \in FreeColumns(w),
         NEW u, u = PlaceInSmallestColumn(NewFrame(w, g), g, col)
  PROVE  /\ WellFormed(u)
         /\ u.selected_view = w.selected_view
         /\ LiveFrames(u) = LiveFrames(w) \cup {g}
         /\ u.marked \subseteq LiveFrames(u)
         /\ NoneEmptyBut(w, {}, {ViewOf(g)}) => NoneEmptyBut(u, {}, {})
<1> DEFINE k == NewFrame(w, g)
<1>1. w \in Graph
  BY DEF WellFormed, WellLinked
<1>2. Repaints(w, k) /\ k.marked = w.marked \ {g}
  BY <1>1, NewFrameEffect
<1>3. u = PlaceInSmallestColumn(k, g, col)
  OBVIOUS
<1> HIDE DEF k
<1>4. WellFormed(k)
  BY <1>2, RepaintsWellFormed
<1>5. /\ LiveFrames(k) = LiveFrames(w) /\ FreeColumns(k) = FreeColumns(w)
      /\ k.views = w.views /\ k.selected_view = w.selected_view
  BY <1>2 DEF Repaints, SameViews, LiveFrames, FreeColumns
<1>6. /\ WellFormed(u) /\ SameViews(k, u)
      /\ LiveFrames(u) = LiveFrames(k) \cup {g}
      /\ u.marked = k.marked
      /\ NoneEmptyBut(k, {}, {ViewOf(g)}) => NoneEmptyBut(u, {}, {})
  BY <1>3, <1>4, <1>5, PlaceInSmallestColumnWellFormed
<1>7. NoneEmptyBut(w, {}, {ViewOf(g)}) => NoneEmptyBut(k, {}, {ViewOf(g)})
  BY <1>2, SameNoneEmpty DEF Repaints
<1>8. QED BY <1>2, <1>5, <1>6, <1>7 DEF SameViews

\* A frame goes into another view; a new frame of its client takes its place in the
\* bookkeeping.
LEMMA MoveFrameToViewStep ==
  ASSUME IInv, NEW f \in Frames, NEW v \in Views, MoveFrameToView(f, v)
  PROVE  /\ IInv'
         /\ wm'.selected_view = wm.selected_view
         /\ LiveFrames(wm') = (LiveFrames(wm) \ {f}) \cup {<<ClientOf(f), v>>}
<1> DEFINE g == <<ClientOf(f), v>>
           w == GetOrCreateView(wm, v)
           r == RemoveFrame(w, f)
<1>1. /\ f \in LiveFrames(wm) /\ g \notin LiveFrames(wm) /\ FreeColumns(wm) # {}
      /\ Handles
      /\ wm' = PlaceInSmallestColumn(CarryFrame(r, f, g), g, NewColumn(r))
  BY DEF MoveFrameToView, Handle, Handles
<1>2. v # ViewOf(f)
  BY <1>1, FrameParts
<1>3. ClientOf(g) = ClientOf(f) /\ g \in Frames /\ ViewOf(g) = v
  BY FrameParts, PairIsFrame
<1>4. /\ WellFormed(w) /\ SameLinks(wm, w) /\ v \in w.views
      /\ w.selected_view = wm.selected_view /\ NoneEmptyBut(w, {}, {v})
  BY IInvGraph, GetOrCreateViewWellFormed, GetOrCreateViewNoneEmpty
<1> HIDE DEF w, g
<1>5. /\ LiveFrames(w) = LiveFrames(wm) /\ w.marked = wm.marked
      /\ FreeColumns(w) = FreeColumns(wm)
  BY <1>4 DEF SameLinks, LiveFrames, FreeColumns
<1>6. /\ WellFormed(r)
      /\ \A c \in Columns : c # w.column_of[f] => r.view_of[c] = w.view_of[c]
      /\ r.column_of = [w.column_of EXCEPT ![f] = None]
  BY <1>1, <1>4, <1>5, RemoveFrameWellFormed
<1> HIDE DEF r
<1>7. FreeColumns(r) # {}
  <2>1. PICK col \in Columns : w.view_of[col] = None
    BY <1>1, <1>5 DEF FreeColumns
  <2>2. w.view_of[w.column_of[f]] # None
    BY <1>1, <1>4, <1>5, FramesColumn, NoneIsNeither
  <2>3. QED BY <1>6, <2>1, <2>2 DEF FreeColumns
<1>8. g \notin LiveFrames(r)
  <2>1. w.column_of \in [Frames -> OrNone(Columns)]
    BY <1>4 DEF WellFormed, WellLinked, Graph
  <2>2. LiveFrames(r) \subseteq LiveFrames(w)
    BY <1>6, <2>1 DEF LiveFrames
  <2>3. QED BY <1>1, <1>5, <2>2
<1>9. f \in LiveFrames(w) /\ w.marked \subseteq LiveFrames(w)
  BY <1>1, <1>5, IInvGraph
<1>10. r = RemoveFrame(w, f)
  BY DEF r
<1>11. /\ WellFormed(wm') /\ wm'.selected_view = w.selected_view
       /\ LiveFrames(wm') = (LiveFrames(w) \ {f}) \cup {g}
       /\ wm'.marked \subseteq LiveFrames(wm') /\ NoneEmptyBut(wm', {}, {})
  BY <1>1, <1>2, <1>3, <1>4, <1>7, <1>8, <1>9, <1>10, CarriedFrameWellFormed
<1>12. Good(wm, wm')
  BY <1>1, <1>3, <1>5, <1>11, ReplacedFrameGood
<1>13. QED BY <1>1, <1>4, <1>5, <1>10, <1>11, <1>12, HandlesIInv DEF g

\* A client gets one more frame, in another view.
LEMMA CopyFrameToViewStep ==
  ASSUME IInv, NEW f \in Frames, NEW v \in Views, CopyFrameToView(f, v)
  PROVE  /\ IInv'
         /\ wm'.selected_view = wm.selected_view
         /\ LiveFrames(wm') = LiveFrames(wm) \cup {<<ClientOf(f), v>>}
<1> DEFINE g == <<ClientOf(f), v>>
           w == GetOrCreateView(wm, v)
           col == NewColumn(wm)
<1>1. /\ f \in LiveFrames(wm) /\ g \notin LiveFrames(wm) /\ FreeColumns(wm) # {}
      /\ Handles
      /\ wm' = PlaceInSmallestColumn(NewFrame(w, g), g, col)
  BY DEF CopyFrameToView, Handle, Handles
<1>2. g \in Frames /\ ClientOf(g) = ClientOf(f) /\ ViewOf(g) = v
  BY FrameParts, PairIsFrame
<1>3. /\ WellFormed(w) /\ SameLinks(wm, w) /\ v \in w.views
      /\ w.selected_view = wm.selected_view /\ NoneEmptyBut(w, {}, {v})
  BY IInvGraph, GetOrCreateViewWellFormed, GetOrCreateViewNoneEmpty
<1>4. col \in FreeColumns(wm)
  BY <1>1, NewColumnIsFree
<1> HIDE DEF w, g, col
<1>5. /\ LiveFrames(w) = LiveFrames(wm) /\ w.marked = wm.marked
      /\ FreeColumns(w) = FreeColumns(wm)
  BY <1>3 DEF SameLinks, LiveFrames, FreeColumns
<1>6. /\ WellFormed(wm') /\ wm'.selected_view = w.selected_view
      /\ LiveFrames(wm') = LiveFrames(w) \cup {g}
      /\ wm'.marked \subseteq LiveFrames(wm') /\ NoneEmptyBut(wm', {}, {})
  BY <1>1, <1>2, <1>3, <1>4, <1>5, IInvGraph, CopiedFrameWellFormed
<1>7. Good(wm, wm')
  BY <1>1, <1>2, <1>5, <1>6, ReplacedFrameGood
<1>8. QED BY <1>1, <1>3, <1>5, <1>6, <1>7, HandlesIInv DEF g

\* A frame goes while another frame of its client stays.
LEMMA RemoveCurrentFrameStep ==
  ASSUME IInv, RemoveCurrentFrame
  PROVE  /\ IInv'
         /\ wm'.selected_view = wm.selected_view
         /\ LiveFrames(wm') = LiveFrames(wm) \ {SelectedFrame(wm)}
         /\ SelectedFrame(wm) \in LiveFrames(wm)
<1> DEFINE f == SelectedFrame(wm)
           S == FramesOf(wm, ClientOf(f))
<1>1. f # None /\ Handles /\ wm' = DeleteFrame(wm, f) /\ Cardinality(S) > 1
  BY DEF RemoveCurrentFrame, Handle, Handles
<1>2. f \in LiveFrames(wm) /\ f \in S
  BY <1>1, IInvGraph, CurrentFrameIsLive DEF FramesOf
<1>3. PICK g \in S : g # f
  <2>1. SUFFICES ASSUME S = {f} PROVE FALSE
    BY <1>2
  <2>2. Cardinality({f}) = 1
    BY FS_Singleton
  <2>3. QED BY <1>1, <2>1, <2>2
<1>4. g \in LiveFrames(wm) /\ ClientOf(g) = ClientOf(f)
  BY DEF FramesOf
<1> HIDE DEF f, S
<1>5. /\ WellFormed(wm') /\ wm'.selected_view = wm.selected_view
      /\ wm'.column_of = [wm.column_of EXCEPT ![f] = None]
      /\ wm'.marked = wm.marked \ {f} /\ NoneEmptyBut(wm', {}, {})
  BY SMTT(30), <1>1, <1>2, IInvGraph, DeleteFrameWellFormed, DeleteFrameNoneEmpty
<1>6. LiveFrames(wm') = LiveFrames(wm) \ {f}
  BY <1>2, <1>5, IInvGraph DEF LiveFrames, Graph
<1>7. wm'.marked \subseteq LiveFrames(wm')
  BY <1>5, <1>6, IInvGraph
<1>8. g \in LiveFrames(wm')
  BY <1>3, <1>4, <1>6
<1>9. Good(wm, wm')
  BY <1>2, <1>4, <1>5, <1>6, <1>7, <1>8, ReplacedFrameGood
<1>10. QED BY <1>1, <1>2, <1>5, <1>6, <1>9, HandlesIInv DEF f

-----------------------------------------------------------------------------
(* Clients come and go.                                                    *)

\* The idle state is told apart from every handler that loops.
LEMMA IdleIsNoHandler ==
  /\ \A c : Idle # [op |-> "unmanage_client", client |-> c]
  /\ Idle.op \notin {"copy_marked_frames", "move_marked_frames"}
<1>1. Idle.op = "idle"
  BY DEF Idle
<1>2. \A c : [op |-> "unmanage_client", client |-> c].op = "unmanage_client"
  OBVIOUS
<1>3. QED BY <1>1, <1>2

\* A client gets its first frame: it had none because it was not managed.
LEMMA ManageClientStep ==
  ASSUME IInv, NEW c \in Clients, ManageClient(c)
  PROVE  /\ IInv'
         /\ wm'.selected_view = IF wm.selected_view = None THEN Misc ELSE wm.selected_view
         /\ LiveFrames(wm') = LiveFrames(wm) \cup {<<c, wm'.selected_view>>}
<1> DEFINE col == NewColumn(wm)
           g == <<c, wm'.selected_view>>
<1>1. /\ c \notin managed /\ handler = Idle /\ batch < MaxBatch
      /\ wm' = PlaceClient(wm, c, Misc, col)
      /\ batch' = batch + 1 /\ managed' = managed \cup {c}
      /\ handler' = handler /\ screen' = screen
  BY DEF ManageClient
<1>2. FramesOf(wm, c) = {}
  BY <1>1 DEF IInv, EveryClientIsReachable
<1>3. col \in FreeColumns(wm)
  BY NewColumnIsFree DEF ManageClient
<1> HIDE DEF col
<1>4. /\ WellFormed(wm') /\ wm'.selected_view # None
      /\ wm'.selected_view = IF wm.selected_view = None THEN Misc ELSE wm.selected_view
      /\ LiveFrames(wm') = LiveFrames(wm) \cup {g}
      /\ wm'.marked = wm.marked \ {g} /\ NoneEmptyBut(wm', {}, {})
  BY <1>1, <1>2, <1>3, IInvGraph, MiscAssumption, PlaceClientWellFormed
<1>5. ClientOf(g) = c /\ g \in LiveFrames(wm')
  BY <1>4 DEF ClientOf
<1> HIDE DEF g
<1>6. GraphInv'
  BY <1>4, IInvGraph DEF GraphInv
<1>7. HandlerInv'
  BY <1>1, IdleIsNoHandler DEF HandlerInv
<1>8. EveryClientIsReachable'
  <2>1. \A d \in Clients : FramesOf(wm', d) = IF d = c THEN {g} ELSE FramesOf(wm, d)
    BY <1>2, <1>4, <1>5 DEF FramesOf
  <2>2. QED BY <1>1, <2>1 DEF IInv, EveryClientIsReachable
<1>9. TypeOK'
  <2>1. (wm \in Graph)'
    BY <1>4 DEF WellFormed, WellLinked
  <2>2. (batch \in 0..MaxBatch)'
    BY <1>1, MaxBatchAssumption DEF IInv, TypeOK
  <2>3. (managed \subseteq Clients)'
    BY <1>1 DEF IInv, TypeOK
  <2>4. QED BY <1>1, <2>1, <2>2, <2>3 DEF IInv, TypeOK
<1>10. QED BY <1>1, <1>4, <1>6, <1>7, <1>8, <1>9 DEF IInv, g

\* A handler that loops starts: nothing has changed yet.
LEMMA StartsStep ==
  ASSUME IInv, handler = Idle, batch < MaxBatch, batch' = batch + 1,
         UNCHANGED <<wm, managed, screen>>,
         handler' \in Handlers, HandlerInv'
  PROVE  IInv'
<1>1. GraphInv'
  BY DEF IInv, GraphInv
<1>2. EveryClientIsReachable'
  BY IdleIsNoHandler DEF IInv, EveryClientIsReachable
<1>3. TypeOK'
  <2>1. (batch \in 0..MaxBatch)'
    BY MaxBatchAssumption DEF IInv, TypeOK
  <2>2. QED BY <2>1 DEF IInv, TypeOK
<1>4. QED BY <1>1, <1>2, <1>3 DEF IInv

\* A handler that loops is done: what it leaves behind is scheduled work only.
LEMMA FinishesStep ==
  ASSUME IInv, Schedules(wm, wm'), handler' = Idle, batch' = batch,
         managed' \subseteq Clients, EveryClientIsReachable', ScreenTyped(screen')
  PROVE  IInv'
<1>1. GraphInv'
  BY IInvGraph, SchedulesGood DEF Good, GraphInv
<1>2. HandlerInv'
  BY IdleIsNoHandler DEF HandlerInv
<1>3. TypeOK'
  <2>1. (wm \in Graph)'
    BY DEF Schedules
  <2>2. QED BY <2>1 DEF IInv, TypeOK, Handlers, ScreenTyped
<1>4. QED BY <1>1, <1>2, <1>3 DEF IInv, ScreenTyped

\* unmanage_client starts ...
LEMMA UnmanageClientStep ==
  ASSUME IInv, NEW c \in Clients, UnmanageClient(c)
  PROVE  IInv'
<1>1. /\ handler = Idle /\ batch < MaxBatch /\ batch' = batch + 1
      /\ UNCHANGED <<wm, managed, screen>>
      /\ handler' = [op |-> "unmanage_client", client |-> c]
  BY DEF UnmanageClient
<1>2. handler' \in Handlers
  BY <1>1 DEF Handlers
<1>3. HandlerInv'
  BY <1>1 DEF HandlerInv
<1>4. QED BY <1>1, <1>2, <1>3, StartsStep

\* ... deletes the frames of the client one at a time ...
LEMMA UnmanageFrameStep ==
  ASSUME IInv, NEW f \in Frames, UnmanageFrame(f)
  PROVE  /\ IInv'
         /\ wm'.selected_view = wm.selected_view
         /\ LiveFrames(wm') = LiveFrames(wm) \ {f}
<1> DEFINE c == ClientOf(f)
<1>1. /\ handler = [op |-> "unmanage_client", client |-> c]
      /\ f \in LiveFrames(wm) /\ wm' = DeleteFrame(wm, f)
      /\ UNCHANGED <<managed, handler, batch, screen>>
  BY DEF UnmanageFrame
<1>2. /\ WellFormed(wm')
      /\ wm'.selected_view = wm.selected_view
      /\ wm'.column_of = [wm.column_of EXCEPT ![f] = None]
      /\ wm'.marked = wm.marked \ {f} /\ NoneEmptyBut(wm', {}, {})
  BY <1>1, IInvGraph, DeleteFrameWellFormed, DeleteFrameNoneEmpty
<1>3. LiveFrames(wm') = LiveFrames(wm) \ {f}
  BY <1>1, <1>2, IInvGraph DEF LiveFrames, Graph
<1>4. wm'.marked \subseteq LiveFrames(wm')
  BY <1>2, <1>3, IInvGraph
<1>5. EveryClientIsReachable'
  <2>1. \A d \in Clients : /\ FramesOf(wm', d) \subseteq FramesOf(wm, d)
                           /\ d # c => FramesOf(wm', d) = FramesOf(wm, d)
    BY <1>3 DEF FramesOf
  <2>2. QED BY <1>1, <2>1 DEF IInv, EveryClientIsReachable
<1>6. QED BY <1>1, <1>2, <1>3, <1>4, <1>5, IterationIInv

\* No task of the client survives it.
LEMMA NewClientTasks ==
  ASSUME NEW w \in Graph, NEW t \in [Clients -> SUBSET Tasks]
  PROVE  Schedules(w, [w EXCEPT !.todo_clients = t])
<1> DEFINE u == [w EXCEPT !.todo_clients = t]
<1>1. u \in Graph
  BY DEF Graph
<1>2. SameLinks(w, u) /\ SameViews(w, u) /\ u.selected_column = w.selected_column
      /\ u.selected_frame = w.selected_frame
  BY DEF Graph, SameLinks, SameViews
<1>3. QED BY <1>1, <1>2 DEF Schedules

\* ... and the client, with its windows, when none is left.
LEMMA FinishUnmanageStep ==
  ASSUME IInv, NEW c \in Clients, FinishUnmanage(c)
  PROVE  IInv' /\ SameTags(wm, wm')
<1> DEFINE t == [wm.todo_clients EXCEPT ![c] = {}]
<1>1. /\ handler = [op |-> "unmanage_client", client |-> c]
      /\ FramesOf(wm, c) = {}
      /\ handler' = Idle /\ managed' = managed \ {c} /\ batch' = batch
      /\ wm' = [wm EXCEPT !.todo_clients = t]
  BY DEF FinishUnmanage
<1>2. Schedules(wm, wm')
  <2>1. t \in [Clients -> SUBSET Tasks]
    BY IInvGraph DEF Graph
  <2> HIDE DEF t
  <2>2. QED BY <1>1, <2>1, IInvGraph, NewClientTasks
<1>3. managed' \subseteq Clients
  BY <1>1 DEF IInv, TypeOK
<1>4. EveryClientIsReachable'
  <2>1. \A d \in Clients : FramesOf(wm', d) = FramesOf(wm, d)
    BY <1>2 DEF Schedules, SameLinks, FramesOf, LiveFrames
  <2>2. QED BY <1>1, <2>1 DEF IInv, EveryClientIsReachable
<1>5. ScreenTyped(screen')
  <2>1. DOMAIN screen' = DOMAIN screen
    BY DEF FinishUnmanage
  <2>2. /\ screen'.client_mapped = screen.client_mapped \ {c}
        /\ screen'.frame_mapped = screen.frame_mapped \ {c}
        /\ screen'.focus \in {screen.focus, <<"lost">>}
    BY DEF FinishUnmanage, IInv, ScreenFields
  <2>3. QED BY <2>1, <2>2 DEF IInv, TypeOK, ScreenTyped
<1>6. QED BY <1>1, <1>2, <1>3, <1>4, <1>5, FinishesStep
         DEF Schedules, SameLinks, SameViews, SameTags, LiveFrames

-----------------------------------------------------------------------------
(* The marked-frames commands.                                             *)

\* An iteration of a handler that loops and is not unmanage_client.
LEMMA GoodIteration ==
  ASSUME IInv, UNCHANGED <<managed, handler, batch, screen>>, Good(wm, wm'),
         wm'.selected_view = wm.selected_view
  PROVE  IInv'
<1>1. EveryClientIsReachable'
  BY DEF IInv, EveryClientIsReachable, Good
<1>2. QED BY <1>1, IterationIInv DEF Good

\* Unmark leaves everything but the marks alone.
LEMMA UnmarkEffect ==
  ASSUME NEW w, WellFormed(w), w.marked \subseteq LiveFrames(w), NEW f \in Frames,
         NEW u, u = Unmark(w, f)
  PROVE  /\ WellFormed(u)
         /\ SameViews(w, u)
         /\ u.column_of = w.column_of /\ u.view_of = w.view_of
         /\ u.marked = w.marked \ {f}
<1> DEFINE S == w.marked \ {f}
           x == [w EXCEPT !.marked = S]
<1>1. w \in Graph
  BY DEF WellFormed, WellLinked
<1>2. S \in SUBSET Frames
  BY DEF LiveFrames
<1>3. u = ScheduleDraw(x, f)
  BY DEF Unmark
<1> HIDE DEF S
<1>4. Repaints(w, x) /\ x.marked = S
  BY <1>1, <1>2, NewMarked
<1> HIDE DEF x
<1>5. WellFormed(x) /\ x \in Graph
  BY <1>4, RepaintsWellFormed DEF Repaints
<1>6. Schedules(x, u)
  BY <1>3, <1>5, ScheduleDrawEffect DEF OrNone
<1>7. QED BY <1>4, <1>5, <1>6, SchedulesWellFormed DEF Schedules, SameLinks, SameViews, Repaints, S

\* CopyMarkedFrames and MoveMarkedFrames.
LEMMA StartOnMarkedStep ==
  ASSUME IInv, NEW op \in {"copy_marked_frames", "move_marked_frames"}, StartOnMarked(op)
  PROVE  IInv'
<1>1. /\ wm.selected_view # None
      /\ handler = Idle /\ batch < MaxBatch /\ batch' = batch + 1
      /\ handler' = [op |-> op]
      /\ UNCHANGED <<wm, managed, screen>>
  BY DEF StartOnMarked
<1>2. handler' \in Handlers
  BY <1>1 DEF Handlers
<1>3. HandlerInv'
  BY <1>1 DEF HandlerInv
<1>4. QED BY <1>1, <1>2, <1>3, StartsStep

\* What the two commands rely on at every iteration.
LEMMA MarkedFrame ==
  ASSUME IInv, NEW f, IsFirstMarked(wm, f),
         handler.op \in {"copy_marked_frames", "move_marked_frames"}
  PROVE  /\ f \in LiveFrames(wm) /\ f \in Frames
         /\ wm.selected_view \in wm.views /\ wm.selected_view \in Views
BY IInvGraph, NoneIsNeither
   DEF IInv, HandlerInv, IsFirstMarked, LiveFrames, WellFormed, Selection, OrNone, Graph

\* A marked frame gives its client a frame in the current view.
LEMMA CopyMarkedStep ==
  ASSUME IInv, NEW f \in Frames, CopyMarked(f)
  PROVE  /\ IInv'
         /\ wm'.selected_view = wm.selected_view
         /\ LiveFrames(wm') = LiveFrames(wm) \cup {<<ClientOf(f), wm.selected_view>>}
<1> DEFINE v == wm.selected_view
           g == <<ClientOf(f), v>>
           x == Unmark(wm, f)
           col == NewColumn(wm)
           p == PlaceInSmallestColumn(NewFrame(x, g), g, col)
<1>1. /\ handler.op = "copy_marked_frames" /\ IsFirstMarked(wm, f)
      /\ FreeColumns(wm) # {}
      /\ IF g \in LiveFrames(wm) THEN wm' = x ELSE wm' = SelectFrame(p, g)
      /\ UNCHANGED <<managed, handler, batch, screen>>
  BY DEF CopyMarked
<1>2. f \in LiveFrames(wm) /\ v \in wm.views /\ v \in Views
  BY <1>1, MarkedFrame
<1>3. g \in Frames /\ ClientOf(g) = ClientOf(f) /\ ViewOf(g) = v
  BY <1>2, FrameParts, PairIsFrame
<1>4. col \in FreeColumns(wm)
  BY <1>1, NewColumnIsFree
<1> HIDE DEF g, x, col
<1>5. /\ WellFormed(x) /\ x.marked = wm.marked \ {f}
      /\ x.column_of = wm.column_of /\ x.view_of = wm.view_of
      /\ SameViews(wm, x) /\ NoneEmptyBut(x, {}, {})
  BY IInvGraph, UnmarkEffect, SameNoneEmpty DEF x
<1>6. /\ LiveFrames(x) = LiveFrames(wm) /\ FreeColumns(x) = FreeColumns(wm)
      /\ x.views = wm.views /\ x.selected_view = v
  BY <1>5 DEF LiveFrames, FreeColumns, SameViews
<1>7. CASE g \in LiveFrames(wm)
  <2>1. Good(wm, wm')
    BY <1>1, <1>5, <1>7, IInvGraph, SameFramesGood
  <2>2. QED BY <1>1, <1>5, <1>6, <1>7, <2>1, GoodIteration DEF g
<1>8. CASE g \notin LiveFrames(wm)
  <2>1. x.marked \subseteq LiveFrames(x) /\ NoneEmptyBut(x, {}, {v})
    BY <1>5, <1>6, IInvGraph, MoreMayBeEmpty
  <2>2. /\ WellFormed(p) /\ p.selected_view = v
        /\ LiveFrames(p) = LiveFrames(x) \cup {g}
        /\ p.marked \subseteq LiveFrames(p) /\ NoneEmptyBut(p, {}, {})
    BY <1>2, <1>3, <1>4, <1>5, <1>6, <1>8, <2>1, CopiedFrameWellFormed
  <2>3. wm' = SelectFrame(p, g)
    BY <1>1, <1>8
  <2> HIDE DEF p
  <2>4. WellFormed(wm') /\ SameLinks(p, wm') /\ SameViews(p, wm')
    BY <2>2, <2>3, SelectFrameWellFormed
  <2>5. LiveFrames(wm') = LiveFrames(p) /\ wm'.marked = p.marked /\ NoneEmptyBut(wm', {}, {})
    BY <2>2, <2>4, SameNoneEmpty DEF SameLinks, LiveFrames
  <2>6. Good(wm, wm')
    BY <1>2, <1>3, <1>6, <2>2, <2>4, <2>5, ReplacedFrameGood
  <2>7. QED BY <1>1, <1>6, <2>2, <2>4, <2>5, <2>6, GoodIteration DEF SameViews, g
<1>9. QED BY <1>7, <1>8

\* A marked frame goes into the current view, or just goes when its client has a
\* frame there already.
LEMMA MoveMarkedStep ==
  ASSUME IInv, NEW f \in Frames, MoveMarked(f)
  PROVE  /\ IInv'
         /\ wm'.selected_view = wm.selected_view
         /\ LiveFrames(wm') = (LiveFrames(wm) \ {f}) \cup {<<ClientOf(f), wm.selected_view>>}
         /\ f \in LiveFrames(wm)
<1> DEFINE v == wm.selected_view
           g == <<ClientOf(f), v>>
           x == Unmark(wm, f)
           r == RemoveFrame(x, f)
           p == PlaceInSmallestColumn(CarryFrame(r, f, g), g, NewColumn(r))
           s == r.shaded \ {f}
           d == r.decorated \ {f}
           merged == [r EXCEPT !.shaded = s, !.decorated = d]
<1>1. /\ handler.op = "move_marked_frames" /\ IsFirstMarked(wm, f)
      /\ FreeColumns(r) # {}
      /\ IF g \in LiveFrames(r) THEN wm' = merged ELSE wm' = SelectFrame(p, g)
      /\ UNCHANGED <<managed, handler, batch, screen>>
  BY DEF MoveMarked
<1>2. f \in LiveFrames(wm) /\ v \in wm.views /\ v \in Views
  BY <1>1, MarkedFrame
<1>3. g \in Frames /\ ClientOf(g) = ClientOf(f) /\ ViewOf(g) = v
  BY <1>2, FrameParts, PairIsFrame
<1> HIDE DEF g, x
<1>4. /\ WellFormed(x) /\ x.marked = wm.marked \ {f}
      /\ x.column_of = wm.column_of
      /\ SameViews(wm, x) /\ NoneEmptyBut(x, {}, {})
  BY IInvGraph, UnmarkEffect, SameNoneEmpty DEF x
<1>5. LiveFrames(x) = LiveFrames(wm) /\ x.views = wm.views /\ x.selected_view = v
  BY <1>4 DEF LiveFrames, SameViews
<1>6. x.marked \subseteq LiveFrames(x)
  BY <1>4, <1>5, IInvGraph
<1>7. CASE g \in LiveFrames(r)
  <2> HIDE DEF s, d
  <2>1. /\ WellFormed(r) /\ r.selected_view = v
        /\ r.column_of = [x.column_of EXCEPT ![f] = None]
        /\ r.marked = x.marked
    BY <1>2, <1>4, <1>5, RemoveFrameWellFormed
  <2>1a. NoneEmptyBut(r, {}, {})
    BY <1>2, <1>4, <1>5, RemoveFrameNoneEmpty
  <2> HIDE DEF r
  <2>2. r \in Graph
    BY <2>1 DEF WellFormed, WellLinked
  <2>3. LiveFrames(r) = LiveFrames(wm) \ {f}
    BY <1>2, <1>4, <1>5, <2>1, IInvGraph DEF LiveFrames, Graph
  <2>4. s \in SUBSET Frames /\ d \in SUBSET Frames
    BY <2>2 DEF Graph, s, d
  <2>5. Schedules(r, wm')
    <3> DEFINE y == [r EXCEPT !.shaded = s]
    <3>1. Schedules(r, y)
      BY <2>2, <2>4, NewShaded
    <3>2. y \in Graph
      BY <3>1 DEF Schedules
    <3>3. Schedules(y, [y EXCEPT !.decorated = d])
      BY <2>4, <3>2, NewDecorated
    <3>4. wm' = [y EXCEPT !.decorated = d]
      BY <1>1, <1>7
    <3> HIDE DEF y
    <3>5. QED BY <3>1, <3>3, <3>4, SchedulesTwice
  <2>6. /\ WellFormed(wm') /\ wm'.selected_view = v
        /\ LiveFrames(wm') = LiveFrames(r) /\ wm'.marked = r.marked
        /\ NoneEmptyBut(wm', {}, {})
    BY <2>1, <2>1a, <2>5, SchedulesWellFormed, SameNoneEmpty DEF Schedules, SameLinks, SameViews, LiveFrames
  <2>7. wm'.marked \subseteq LiveFrames(wm')
    BY <1>4, <2>1, <2>3, <2>6, IInvGraph
  <2>8. g \in LiveFrames(wm')
    BY <1>7, <2>6
  <2>9. Good(wm, wm')
    BY <1>2, <1>3, <2>3, <2>6, <2>7, <2>8, ReplacedFrameGood
  <2>10. QED BY <1>1, <1>2, <1>7, <2>3, <2>6, <2>9, GoodIteration DEF g
<1>8. CASE g \notin LiveFrames(r)
  <2>1. f \in LiveFrames(x) /\ v \in x.views /\ v = x.selected_view /\ FreeColumns(r) # {}
    BY <1>1, <1>2, <1>4, <1>5
  <2>1a. NoneEmptyBut(x, {}, {v})
    BY <1>4, MoreMayBeEmpty
  <2>2. /\ WellFormed(p) /\ p.selected_view = v
        /\ LiveFrames(p) = (LiveFrames(x) \ {f}) \cup {g}
        /\ p.marked \subseteq LiveFrames(p) /\ NoneEmptyBut(p, {}, {})
    BY <1>3, <1>4, <1>6, <1>8, <2>1, <2>1a, CarriedFrameWellFormed
  <2>3. wm' = SelectFrame(p, g)
    BY <1>1, <1>8
  <2> HIDE DEF p, r
  <2>4. WellFormed(wm') /\ SameLinks(p, wm') /\ SameViews(p, wm')
    BY <2>2, <2>3, SelectFrameWellFormed
  <2>5. LiveFrames(wm') = LiveFrames(p) /\ wm'.marked = p.marked /\ NoneEmptyBut(wm', {}, {})
    BY <2>2, <2>4, SameNoneEmpty DEF SameLinks, LiveFrames
  <2>6. Good(wm, wm')
    BY <1>2, <1>3, <1>5, <2>2, <2>4, <2>5, ReplacedFrameGood
  <2>7. QED BY <1>1, <1>2, <1>5, <2>2, <2>4, <2>5, <2>6, GoodIteration DEF SameViews, g
<1>9. QED BY <1>7, <1>8

\* No marked frame is left.
LEMMA FinishMarkedStep ==
  ASSUME IInv, FinishMarked
  PROVE  IInv' /\ SameTags(wm, wm')
<1>1. Schedules(wm, wm')
  BY IInvGraph, SchedulesNothing DEF FinishMarked
<1>2. EveryClientIsReachable'
  <2>1. \A c \in Clients : handler # [op |-> "unmanage_client", client |-> c]
    BY DEF FinishMarked
  <2>2. QED BY <2>1 DEF FinishMarked, IInv, EveryClientIsReachable
<1>3. QED BY <1>1, <1>2, FinishesStep DEF FinishMarked, IInv, TypeOK, ScreenTyped, SameTags

-----------------------------------------------------------------------------
(* Flush.                                                                  *)

\* Replacing fields of a screen, the ones a flush computes afresh ...
LEMMA LaidOutScreenTyped ==
  ASSUME NEW s, ScreenTyped(s), NEW across, NEW bounds
  PROVE  ScreenTyped([s EXCEPT !.across = across, !.bounds = bounds])
BY DEF ScreenTyped, ScreenFields

\* ... and the ones that hold the windows.
LEMMA MappedScreenTyped ==
  ASSUME NEW s, ScreenTyped(s), NEW placed, NEW drawn,
         NEW F \in SUBSET Clients, NEW C \in SUBSET Clients
  PROVE  ScreenTyped([s EXCEPT !.placed = placed, !.drawn = drawn, !.frame_mapped = F,
                               !.client_mapped = C])
BY DEF ScreenTyped, ScreenFields

\* ... and the one the keyboard belongs to.
LEMMA FocusedScreenTyped ==
  ASSUME NEW s, ScreenTyped(s),
         NEW focus \in {<<"root">>, <<"lost">>} \cup ({"client", "frame"} \X Clients)
  PROVE  ScreenTyped([s EXCEPT !.focus = focus])
BY DEF ScreenTyped, ScreenFields

\* WClient::perform_scheduled_tasks maps clients, and focuses a client, its frame
\* window or the root window.
LEMMA PerformClientTasksTyped ==
  ASSUME NEW w, WellFormed(w), NEW s, ScreenTyped(s)
  PROVE  ScreenTyped(PerformClientTasks(w, s))
<1> DEFINE f(c) == VisibleFrame(w, c)
           updates == {c \in Clients : "update_server" \in w.todo_clients[c]}
           draws == updates \cup {c \in Clients : "draw" \in w.todo_clients[c]}
           shown == {c \in updates : f(c) # None}
           opened == {c \in shown : f(c) \notin w.shaded}
           placed == [c \in Clients |-> IF c \in shown THEN s.bounds[f(c)] ELSE s.placed[c]]
           drawn == [c \in Clients |-> IF c \in draws /\ f(c) # None
                                       THEN Contents(w, f(c), s.bounds[f(c)]) ELSE s.drawn[c]]
           F == (s.frame_mapped \ updates) \cup shown
           C == (s.client_mapped \ updates) \cup opened
           mapped == [s EXCEPT !.placed = placed, !.drawn = drawn, !.frame_mapped = F,
                               !.client_mapped = C]
           selected == SelectedFrame(w)
           wanted == IF selected # None
                     THEN IF "set_input_focus" \in w.todo_clients[ClientOf(selected)]
                          THEN FocusWindow(w, selected) ELSE s.focus
                     ELSE IF w.todo_root THEN <<"root">> ELSE s.focus
           focus == IF Viewable(mapped, wanted) THEN wanted ELSE <<"lost">>
<1>1. PerformClientTasks(w, s) = [mapped EXCEPT !.focus = focus]
  BY DEF PerformClientTasks, ScreenTyped, ScreenFields
<1>2. F \in SUBSET Clients /\ C \in SUBSET Clients
  BY DEF ScreenTyped
<1>3. wanted \in {<<"root">>, <<"lost">>} \cup ({"client", "frame"} \X Clients)
  <2>1. selected # None => ClientOf(selected) \in Clients
    BY CurrentFrameIsLive, FrameParts DEF LiveFrames
  <2> HIDE DEF selected
  <2>2. selected # None => FocusWindow(w, selected) \in {"client", "frame"} \X Clients
    BY <2>1 DEF FocusWindow
  <2>3. QED BY <2>2 DEF ScreenTyped
<1>4. focus \in {<<"root">>, <<"lost">>} \cup ({"client", "frame"} \X Clients)
  <2> HIDE DEF wanted, mapped
  <2>1. QED BY <1>3
<1> HIDE DEF placed, drawn, F, C, focus
<1>5. ScreenTyped(mapped)
  BY <1>2, MappedScreenTyped
<1> HIDE DEF mapped
<1>6. QED BY <1>1, <1>4, <1>5, FocusedScreenTyped

\* Laying out changes the bounds only.
LEMMA LayOutScreenTyped ==
  ASSUME NEW w, NEW hide, NEW s, ScreenTyped(s)
  PROVE  ScreenTyped(LayOutScreen(w, hide, s))
BY LaidOutScreenTyped DEF LayOutScreen

\* Laying out the columns changes what is shaded and what is scheduled.
LEMMA LayOutGraphEffect ==
  ASSUME NEW w \in Graph, NEW hide \in SUBSET Frames
  PROVE  Schedules(w, LayOutGraph(w, hide))
<1> DEFINE u == LayOutGraph(w, hide)
           laid == {f \in LiveFrames(w) : w.column_of[f] \in ColumnsToLayOut(w)}
           now == (w.shaded \ laid) \cup hide
           refocus == {f \in laid : /\ f = SelectedFrameOfView(w, ViewOf(f))
                                    /\ (f \in now) # (f \in w.shaded)}
           update(c) == IF \E f \in laid : ClientOf(f) = c THEN {"update_server"} ELSE {}
           focus(c) == IF \E f \in refocus : ClientOf(f) = c THEN {"set_input_focus"} ELSE {}
           t == [c \in Clients |-> w.todo_clients[c] \cup update(c) \cup focus(c)]
<1>1. u = [w EXCEPT !.shaded = now, !.todo_views = {}, !.todo_columns = {}, !.todo_clients = t]
  BY DEF LayOutGraph, Graph
<1>2. now \in SUBSET Frames
  <2>1. w.shaded \in SUBSET Frames
    BY DEF Graph
  <2> HIDE DEF laid
  <2>2. QED BY <2>1
<1>3. t \in [Clients -> SUBSET Tasks]
  <2>1. \A c \in Clients : update(c) \in SUBSET Tasks /\ focus(c) \in SUBSET Tasks
    <3> HIDE DEF laid, refocus
    <3>1. QED BY DEF Tasks
  <2>2. \A c \in Clients : w.todo_clients[c] \in SUBSET Tasks
    BY DEF Graph
  <2> HIDE DEF update, focus
  <2>3. QED BY <2>1, <2>2
<1> HIDE DEF now, t, u
<1>4. u \in Graph
  BY <1>1, <1>2, <1>3 DEF Graph
<1>5. SameLinks(w, u) /\ SameViews(w, u) /\ u.selected_column = w.selected_column
      /\ u.selected_frame = w.selected_frame
  BY <1>1 DEF Graph, SameLinks, SameViews
<1>6. QED BY <1>4, <1>5 DEF Schedules, u

\* The request to focus the root window is linked to nothing.
LEMMA NoRootRequest ==
  ASSUME NEW w \in Graph, NEW b \in BOOLEAN
  PROVE  Schedules(w, [w EXCEPT !.todo_root = b])
<1> DEFINE u == [w EXCEPT !.todo_root = b]
<1>1. u \in Graph
  BY DEF Graph
<1>2. SameLinks(w, u) /\ SameViews(w, u) /\ u.selected_column = w.selected_column
      /\ u.selected_frame = w.selected_frame
  BY DEF Graph, SameLinks, SameViews
<1>3. QED BY <1>1, <1>2 DEF Schedules

\* The main loop flushes.
LEMMA FlushStep ==
  ASSUME IInv, Flush
  PROVE  IInv' /\ SameTags(wm, wm')
<1> DEFINE t == [c \in Clients |-> {}]
<1>1. PICK hide \in SUBSET Shadable(wm) :
        /\ wm' = [LayOutGraph(wm, hide) EXCEPT !.todo_clients = t, !.todo_root = FALSE]
        /\ screen' = PerformClientTasks(LayOutGraph(wm, hide), LayOutScreen(wm, hide, screen))
  BY DEF Flush
<1>2. handler = Idle /\ handler' = handler /\ managed' = managed /\ batch' = 0
  BY DEF Flush
<1> DEFINE laid == LayOutGraph(wm, hide)
<1>3. Schedules(wm, laid)
  <2>1. hide \in SUBSET Frames
    BY DEF Shadable, LiveFrames
  <2>2. QED BY <2>1, IInvGraph, LayOutGraphEffect
<1>4. laid \in Graph /\ WellFormed(laid)
  BY <1>3, IInvGraph, SchedulesWellFormed DEF Schedules
<1>5. ScreenTyped(screen')
  <2>1. ScreenTyped(LayOutScreen(wm, hide, screen))
    BY LayOutScreenTyped DEF IInv, TypeOK, ScreenTyped
  <2> HIDE DEF laid
  <2>2. QED BY <1>1, <1>4, <2>1, PerformClientTasksTyped DEF laid
<1> HIDE DEF laid
<1>6. Schedules(wm, wm')
  <2> DEFINE y == [laid EXCEPT !.todo_clients = t]
  <2>1. t \in [Clients -> SUBSET Tasks] /\ FALSE \in BOOLEAN
    OBVIOUS
  <2>2. wm' = [y EXCEPT !.todo_root = FALSE]
    BY <1>1 DEF laid
  <2> HIDE DEF t
  <2>3. Schedules(laid, y)
    BY <1>4, <2>1, NewClientTasks
  <2>4. y \in Graph
    BY <2>3 DEF Schedules
  <2> HIDE DEF y
  <2>5. Schedules(y, wm')
    BY <2>1, <2>2, <2>4, NoRootRequest
  <2>6. QED BY <1>3, <2>3, <2>5, SchedulesTwice
<1>7. GraphInv'
  BY <1>6, IInvGraph, SchedulesGood DEF Good, GraphInv
<1>8. HandlerInv'
  BY <1>2, IdleIsNoHandler DEF HandlerInv
<1>9. EveryClientIsReachable'
  <2>1. \A d \in Clients : FramesOf(wm', d) = FramesOf(wm, d)
    BY <1>6 DEF Schedules, SameLinks, FramesOf, LiveFrames
  <2>2. QED BY <1>2, <2>1 DEF IInv, EveryClientIsReachable
<1>10. TypeOK'
  BY <1>2, <1>5, <1>6, MaxBatchAssumption DEF IInv, TypeOK, ScreenTyped, Schedules
<1>11. QED BY <1>5, <1>6, <1>7, <1>8, <1>9, <1>10
         DEF IInv, ScreenTyped, Schedules, SameLinks, SameViews, SameTags, LiveFrames

-----------------------------------------------------------------------------
(* The theorems.                                                           *)

\* Every handler, every iteration of one, the timer and the flush of the main loop
\* keep the invariant.
LEMMA NextIInv ==
  ASSUME IInv, [Next]_vars
  PROVE  IInv'
<1>1. CASE Environment
  BY <1>1, ManageClientStep, ActivateClientStep, EnterNotifyStep, UpdateSizeHintsStep,
     UnmanageClientStep DEF Environment
<1>2. CASE Command
  <2>1. CASE SelectLeft \/ SelectRight
    BY <2>1, SelectBesideStep
  <2>2. CASE SelectUp \/ SelectDown \/ NextByActivityInColumn
    BY <2>2, SelectWithinStep
  <2>3. CASE MoveLeft \/ MoveRight
    BY <2>3, MoveAcrossStep
  <2>4. CASE MoveUp \/ MoveDown
    BY <2>4, MoveWithinStep
  <2>5. CASE ToggleShaded \/ ToggleDecorated
    BY <2>5, ToggleLookStep
  <2>6. CASE ToggleMarked
    BY <2>6, ToggleMarkedStep
  <2>7. CASE ToggleBarVisible
    BY <2>7, ToggleBarVisibleStep
  <2>8. CASE \E v \in Views : SwitchToView(v)
    BY <2>8, SwitchToViewStep
  <2>9. CASE \E f \in Frames, v \in Views : MoveFrameToView(f, v) \/ CopyFrameToView(f, v)
    BY <2>9, MoveFrameToViewStep, CopyFrameToViewStep
  <2>10. CASE RemoveCurrentFrame
    BY <2>10, RemoveCurrentFrameStep
  <2>11. CASE NextByActivityInView \/ NextByActivity
    BY <2>11, NextByActivityInViewStep, NextByActivityStep
  <2>12. CASE CopyMarkedFrames \/ MoveMarkedFrames
    BY <2>12, StartOnMarkedStep DEF CopyMarkedFrames, MoveMarkedFrames
  <2>13. QED BY <1>2, <2>1, <2>2, <2>3, <2>4, <2>5, <2>6, <2>7, <2>8, <2>9, <2>10, <2>11, <2>12
             DEF Command
<1>3. CASE ActivityTimeout
  BY <1>3, ActivityTimeoutStep
<1>4. CASE HandlerStep
  BY <1>4, UnmanageFrameStep, CopyMarkedStep, MoveMarkedStep, FinishUnmanageStep,
     FinishMarkedStep DEF HandlerStep
<1>5. CASE Flush
  BY <1>5, FlushStep
<1>6. CASE UNCHANGED vars
  BY <1>6 DEF vars, IInv, GraphInv, HandlerInv, EveryClientIsReachable, TypeOK
<1>7. QED BY <1>1, <1>2, <1>3, <1>4, <1>5, <1>6 DEF Next

\* IInv is an invariant of the window manager.
THEOREM Invariant == Spec => []IInv
BY InitIInv, NextIInv, PTL DEF Spec

\* Type correctness: what the handlers compute from lists, back pointers and the
\* selection stays of its type, for any order of events and commands.
THEOREM TypeCorrect == Spec => []TypeOK
<1>1. IInv => TypeOK
  BY DEF IInv
<1>2. QED BY <1>1, Invariant, PTL

\* The lists of the views and columns agree with the back pointers of columns and
\* frames after every handler and between the iterations of those that loop.
THEOREM TreeStaysConsistent == Spec => []TreeIsConsistent
<1>1. IInv => TreeIsConsistent
  BY DEF IInv, GraphInv, WellFormed, WellLinked, TreeIsConsistent
<1>2. QED BY <1>1, Invariant, PTL

\* Something is selected wherever there is something to select, and what is
\* selected exists.
THEOREM SelectionStaysTotal == Spec => []SelectionIsTotal
<1>1. IInv => SelectionIsTotal
  BY DEF IInv, GraphInv, WellFormed, SelectionIsTotal
<1>2. QED BY <1>1, Invariant, PTL

\* The list of a view and that of a column hold the frames they should, in the
\* order of the list of the WM.
THEOREM ActivityListsStayTheSame == Spec => []ActivityListsAgree
<1>1. IInv => ActivityListsAgree
  BY DEF IInv, GraphInv, WellFormed, WellLinked, ActivityListsAgree
<1>2. QED BY <1>1, Invariant, PTL

\* A column goes with its last frame, and a view with its last column unless it is
\* the one on the screen.
THEOREM NothingStaysEmpty == Spec => []NothingIsEmpty
<1>1. ASSUME IInv PROVE NothingIsEmpty
  <2>1. wm \in Graph /\ Tree(wm) /\ NoneEmptyBut(wm, {}, {})
    BY <1>1, IInvGraph DEF WellLinked
  <2>2. ASSUME NEW col \in Columns, wm.view_of[col] # None
        PROVE  wm.frames[col] # <<>>
    <3>1. FramesIn(wm, col) # {}
      BY <2>1, <2>2 DEF NoneEmptyBut
    <3>2. wm.frames[col] \in Seq(Frames) /\ Enumerates(wm.frames[col], FramesIn(wm, col))
      BY <2>1 DEF Graph, Tree
    <3>3. QED BY <3>1, <3>2, EnumerationProperties
  <2>3. ASSUME NEW v \in wm.views, wm.columns[v] = <<>>
        PROVE  v = wm.selected_view
    <3> DEFINE s == wm.columns[v]
    <3>1. s \in Seq(Columns) /\ Enumerates(s, ColumnsOf(wm, v)) /\ s = <<>>
      BY <2>1, <2>3 DEF Graph, Tree
    <3> HIDE DEF s
    <3>2. ColumnsOf(wm, v) = {}
      BY <3>1, EnumerationProperties
    <3>3. QED BY <2>1, <3>2 DEF NoneEmptyBut
  <2>4. QED BY <2>2, <2>3 DEF NothingIsEmpty
<1>2. QED BY <1>1, Invariant, PTL

\* No command loses a client: it has a frame in some view for as long as it is
\* managed, and a client that is not managed has none.
THEOREM ClientsStayReachable == Spec => []EveryClientIsReachable
<1>1. IInv => EveryClientIsReachable
  BY DEF IInv
<1>2. QED BY <1>1, Invariant, PTL

-----------------------------------------------------------------------------
(***************************************************************************)
(* Module WindowManager implements module Tags: a client's tags are the    *)
(* views of its frames, as long as it is not being unmanaged.              *)
(***************************************************************************)

AllTags == [c \in Clients |-> TagsOf(c)]

Stutters == UNCHANGED <<Open, AllTags, wm.selected_view>>

\* A frame is one of the frames of one client.
LEMMA TagOfFrame ==
  ASSUME NEW S \in SUBSET Frames, NEW c \in Clients, NEW v \in Views
  PROVE  v \in {ViewOf(f) : f \in {x \in S : ClientOf(x) = c}} <=> <<c, v>> \in S
<1>1. ASSUME NEW f \in S, ClientOf(f) = c, ViewOf(f) = v
      PROVE  <<c, v>> \in S
  BY <1>1, FrameParts
<1>2. ASSUME <<c, v>> \in S
      PROVE  \E f \in S : ClientOf(f) = c /\ ViewOf(f) = v
  BY <1>2, PairIsFrame
<1>3. QED BY <1>1, <1>2

\* The tags of an open client are the views it has a frame in.
LEMMA TagsMembers ==
  ASSUME NEW c \in Open, NEW v \in Views, Open \subseteq Clients
  PROVE  v \in TagsOf(c) <=> <<c, v>> \in LiveFrames(wm)
<1>1. LiveFrames(wm) \in SUBSET Frames
  BY DEF LiveFrames
<1>2. FramesOf(wm, c) = {x \in LiveFrames(wm) : ClientOf(x) = c}
  BY DEF FramesOf
<1>3. QED BY <1>1, <1>2, TagOfFrame DEF TagsOf

\* Tags are views, and only managed clients are open.
LEMMA TagsTypes ==
  ASSUME IInv
  PROVE  Open \subseteq Clients /\ \A c \in Clients : TagsOf(c) \subseteq Views
<1>1. Open \subseteq Clients
  BY DEF Open, IInv, TypeOK
<1>2. \A f \in LiveFrames(wm) : ViewOf(f) \in Views
  BY FrameParts DEF LiveFrames
<1>3. QED BY <1>1, <1>2 DEF TagsOf, FramesOf

-----------------------------------------------------------------------------
(* Steps of the one and of the other.                                      *)

\* A step that leaves the open clients, the frames and the view shown alone.
LEMMA SameTagsStutters ==
  ASSUME Open' = Open, SameTags(wm, wm')
  PROVE  Stutters
<1>1. \A c : FramesOf(wm', c) = FramesOf(wm, c)
  BY DEF SameTags, FramesOf
<1>2. \A c : TagsOf(c)' = TagsOf(c)
  BY <1>1 DEF TagsOf
<1>3. AllTags' = AllTags
  BY <1>2 DEF AllTags
<1>4. QED BY <1>3 DEF Stutters, SameTags

\* A step that only shows another view.
LEMMA SameFramesSwitches ==
  ASSUME Open' = Open, LiveFrames(wm') = LiveFrames(wm), wm'.selected_view \in Views
  PROVE  Abstract!TagsNext
<1>1. \A c : FramesOf(wm', c) = FramesOf(wm, c)
  BY DEF FramesOf
<1>2. \A c : TagsOf(c)' = TagsOf(c)
  BY <1>1 DEF TagsOf
<1>3. [c \in Clients |-> TagsOf(c)]' = [c \in Clients |-> TagsOf(c)]
  BY <1>2
<1>4. Abstract!Switch(wm'.selected_view)
  BY <1>3 DEF Abstract!Switch
<1>5. QED BY <1>4 DEF Abstract!TagsNext

\* The open clients are the same as long as no client comes or goes.
LEMMA SameOpen ==
  ASSUME UNCHANGED <<managed, handler>>
  PROVE  Open' = Open
BY DEF Open

\* A step that takes frame `f' of a client away, adds frame `g' of it, or both.
LEMMA FramesReplacedRetags ==
  ASSUME IInv, IInv', UNCHANGED <<managed, handler>>,
         \A c : handler # [op |-> "unmanage_client", client |-> c],
         wm'.selected_view = wm.selected_view,
         NEW f \in LiveFrames(wm), NEW g \in Frames, ClientOf(g) = ClientOf(f),
         NEW D \in SUBSET {f}, NEW A \in SUBSET {g},
         LiveFrames(wm') = (LiveFrames(wm) \ D) \cup A
  PROVE  Abstract!TagsNext
<1> DEFINE c == ClientOf(f)
           drop == {ViewOf(x) : x \in D}
           add == {ViewOf(x) : x \in A}
           tags == [x \in Clients |-> TagsOf(x)]
<1>1. /\ f \in Frames /\ c \in Clients /\ ViewOf(f) \in Views /\ ViewOf(g) \in Views
      /\ f = <<c, ViewOf(f)>> /\ g = <<c, ViewOf(g)>>
  BY FrameParts DEF LiveFrames
<1>2. /\ drop \in SUBSET Views /\ add \in SUBSET Views
      /\ drop \subseteq {ViewOf(f)} /\ add \subseteq {ViewOf(g)}
  BY <1>1
<1>3. Open' = Open /\ Open \subseteq Clients
  BY SameOpen, TagsTypes
<1>4. c \in Open /\ TagsOf(c)' # {}
  <2>1. FramesOf(wm, c) # {}
    BY DEF FramesOf
  <2>2. c \in managed
    BY <1>1, <2>1 DEF IInv, EveryClientIsReachable
  <2>3. FramesOf(wm', c) # {}
    BY <1>1, <2>2 DEF IInv, EveryClientIsReachable
  <2>4. c \in Open
    BY <2>2 DEF Open
  <2>5. QED BY <1>3, <2>3, <2>4 DEF TagsOf
<1>5. TagsOf(c)' = (TagsOf(c) \ drop) \cup add
  <2>1. \A v \in Views : v \in TagsOf(c) <=> <<c, v>> \in LiveFrames(wm)
    BY <1>3, <1>4, TagsMembers
  <2>2. \A v \in Views : v \in TagsOf(c)' <=> <<c, v>> \in LiveFrames(wm')
    <3>1. LiveFrames(wm') \in SUBSET Frames
      BY DEF LiveFrames
    <3>2. FramesOf(wm', c) = {x \in LiveFrames(wm') : ClientOf(x) = c}
      BY DEF FramesOf
    <3>3. TagsOf(c)' = {ViewOf(x) : x \in FramesOf(wm', c)}
      BY <1>3, <1>4 DEF TagsOf
    <3>4. QED BY <1>1, <3>1, <3>2, <3>3, TagOfFrame
  <2>3. TagsOf(c) \subseteq Views /\ TagsOf(c)' \subseteq Views
    <3>1. \A x \in Frames : ViewOf(x) \in Views
      BY FrameParts
    <3>2. FramesOf(wm, c) \subseteq Frames /\ FramesOf(wm', c) \subseteq Frames
      BY DEF FramesOf, LiveFrames
    <3>3. QED BY <3>1, <3>2 DEF TagsOf
  <2>4. \A v \in Views : /\ <<c, v>> \in D <=> v \in drop
                         /\ <<c, v>> \in A <=> v \in add
    BY <1>1, PairIsFrame
  <2> HIDE DEF c, drop, add
  <2>5. \A v \in Views : v \in TagsOf(c)' <=> v \in (TagsOf(c) \ drop) \cup add
    BY <2>1, <2>2, <2>4
  <2>6. QED BY <1>2, <2>3, <2>5
<1>6. \A d \in Clients \ {c} : TagsOf(d)' = TagsOf(d)
  <2>1. \A d \in Clients \ {c} : FramesOf(wm', d) = FramesOf(wm, d)
    BY DEF FramesOf
  <2>2. QED BY <1>3, <2>1 DEF TagsOf
<1> HIDE DEF c, drop, add
<1>7. tags' = [tags EXCEPT ![c] = (@ \ drop) \cup add]
  BY <1>1, <1>5, <1>6
<1>8. Abstract!Retag(c, drop, add)
  <2>1. Abstract!IsAtMostOne(drop) /\ Abstract!IsAtMostOne(add)
    BY <1>2 DEF Abstract!IsAtMostOne
  <2>2. tags'[c] # {}
    BY <1>1, <1>4
  <2>3. QED BY <1>3, <1>4, <1>7, <2>1, <2>2 DEF Abstract!Retag
<1>9. QED BY <1>1, <1>2, <1>8 DEF Abstract!TagsNext

-----------------------------------------------------------------------------
(* Every action.                                                           *)

\* No client is being unmanaged while a handler of another kind starts or runs.
LEMMA NotUnmanaging ==
  ASSUME handler = Idle \/ handler.op \in {"copy_marked_frames", "move_marked_frames"}
  PROVE  \A c : handler # [op |-> "unmanage_client", client |-> c]
<1>1. \A c : [op |-> "unmanage_client", client |-> c].op = "unmanage_client"
  OBVIOUS
<1>2. QED BY <1>1, IdleIsNoHandler

\* Clients that come and go open and close; what they ask for meanwhile shows in no
\* tag.
LEMMA EnvironmentRefines ==
  ASSUME IInv, Environment
  PROVE  Abstract!TagsNext \/ Stutters
<1>1. PICK c \in Clients : ManageClient(c) \/ ActivateClient(c) \/ EnterNotify(c)
                             \/ UpdateSizeHints(c) \/ UnmanageClient(c)
  BY DEF Environment
<1>2. CASE ActivateClient(c) \/ EnterNotify(c) \/ UpdateSizeHints(c)
  <2>1. UNCHANGED <<managed, handler>>
    BY <1>2 DEF ActivateClient, EnterNotify, UpdateSizeHints, Handle
  <2>2. SameTags(wm, wm')
    BY <1>2, ActivateClientStep, EnterNotifyStep, UpdateSizeHintsStep
  <2>3. QED BY <2>1, <2>2, SameOpen, SameTagsStutters
<1>3. CASE ManageClient(c)
  <2> DEFINE tags == [x \in Clients |-> TagsOf(x)]
             v == wm'.selected_view
  <2>1. /\ c \notin managed /\ managed' = managed \cup {c}
        /\ handler = Idle /\ handler' = handler
    BY <1>3 DEF ManageClient
  <2>2. /\ v = IF wm.selected_view = None THEN Misc ELSE wm.selected_view
        /\ LiveFrames(wm') = LiveFrames(wm) \cup {<<c, v>>}
        /\ v \in Views
    <3>1. v = IF wm.selected_view = None THEN Misc ELSE wm.selected_view
      BY <1>3, ManageClientStep
    <3>2. LiveFrames(wm') = LiveFrames(wm) \cup {<<c, v>>}
      BY <1>3, ManageClientStep
    <3>3. v \in Views
      BY <3>1, IInvGraph, MiscAssumption DEF Graph, OrNone
    <3>4. QED BY <3>1, <3>2, <3>3
  <2> HIDE DEF v
  <2>3. c \notin Open /\ Open' = Open \cup {c}
    BY <2>1, NotUnmanaging DEF Open
  <2>4. FramesOf(wm, c) = {}
    BY <2>1 DEF IInv, EveryClientIsReachable
  <2>5. TagsOf(c)' = {v}
    <3>1. FramesOf(wm', c) = {<<c, v>>}
      BY <2>2, <2>4, PairIsFrame DEF FramesOf
    <3>2. QED BY <2>2, <2>3, <3>1, PairIsFrame DEF TagsOf
  <2>6. \A d \in Clients \ {c} : TagsOf(d)' = TagsOf(d)
    <3>1. \A d \in Clients \ {c} : FramesOf(wm', d) = FramesOf(wm, d)
      BY <2>2, PairIsFrame DEF FramesOf
    <3>2. QED BY <2>3, <3>1 DEF TagsOf
  <2>7. tags' = [tags EXCEPT ![c] = {v}]
    BY <2>5, <2>6
  <2>8. Abstract!Open(c)
    BY <2>2, <2>3, <2>7 DEF Abstract!Open, v
  <2>9. QED BY <2>8 DEF Abstract!TagsNext
<1>4. CASE UnmanageClient(c)
  <2> DEFINE tags == [x \in Clients |-> TagsOf(x)]
  <2>1. /\ c \in managed /\ handler = Idle
        /\ handler' = [op |-> "unmanage_client", client |-> c]
        /\ wm' = wm /\ managed' = managed
    BY <1>4 DEF UnmanageClient
  <2>2. c \in Open /\ Open' = Open \ {c}
    <3>1. \A d : handler' = [op |-> "unmanage_client", client |-> d] <=> d = c
      <4>1. \A d : [op |-> "unmanage_client", client |-> d].client = d
        OBVIOUS
      <4>2. QED BY <2>1, <4>1
    <3>2. QED BY <2>1, <3>1, NotUnmanaging DEF Open
  <2>3. TagsOf(c)' = {} /\ \A d \in Clients \ {c} : TagsOf(d)' = TagsOf(d)
    BY <2>1, <2>2 DEF TagsOf
  <2>4. tags' = [tags EXCEPT ![c] = {}]
    BY <2>3
  <2>5. Abstract!Close(c)
    BY <2>1, <2>2, <2>4 DEF Abstract!Close
  <2>6. QED BY <2>5 DEF Abstract!TagsNext
<1>5. QED BY <1>1, <1>2, <1>3, <1>4

\* The commands that move frames within a view or change what is selected there.
LocalCommand ==
  \/ SelectLeft \/ SelectRight \/ SelectUp \/ SelectDown \/ NextByActivityInColumn
  \/ MoveLeft \/ MoveRight \/ MoveUp \/ MoveDown
  \/ ToggleShaded \/ ToggleDecorated \/ ToggleMarked \/ ToggleBarVisible
  \/ NextByActivityInView

\* Those commands show in no tag.
LEMMA LocalCommandRefines ==
  ASSUME IInv, LocalCommand
  PROVE  Stutters
<1>1. UNCHANGED <<managed, handler>>
  <2>1. CASE \/ SelectLeft \/ SelectRight \/ SelectUp \/ SelectDown \/ NextByActivityInColumn
             \/ NextByActivityInView
    BY <2>1 DEF SelectLeft, SelectRight, SelectBeside, SelectUp, SelectDown, SelectWithin,
       NextByActivityInColumn, NextByActivityInView, OnSelectedFrame, Handle
  <2>2. CASE MoveLeft \/ MoveRight \/ MoveUp \/ MoveDown
    BY <2>2 DEF MoveLeft, MoveRight, MoveUp, MoveDown, OnSelectedFrame, Handle
  <2>3. CASE ToggleShaded \/ ToggleDecorated \/ ToggleMarked \/ ToggleBarVisible
    BY <2>3 DEF ToggleShaded, ToggleDecorated, ToggleMarked, ToggleBarVisible, OnSelectedFrame,
       Handle
  <2>4. QED BY <2>1, <2>2, <2>3 DEF LocalCommand
<1>2. SameTags(wm, wm')
  BY SelectBesideStep, SelectWithinStep, NextByActivityInViewStep, MoveAcrossStep, MoveWithinStep,
     ToggleLookStep, ToggleMarkedStep, ToggleBarVisibleStep DEF LocalCommand
<1>3. QED BY <1>1, <1>2, SameOpen, SameTagsStutters

\* A command shows another view or changes the tags of one client.
LEMMA CommandRefines ==
  ASSUME IInv, IInv', Command
  PROVE  Abstract!TagsNext \/ Stutters
<1>1. CASE LocalCommand
  BY <1>1, LocalCommandRefines
<1>2. CASE NextByActivity
  <2>1. UNCHANGED <<managed, handler>>
    BY <1>2 DEF NextByActivity, OnSelectedFrame, Handle
  <2>2. QED BY <1>2, <2>1, NextByActivityStep, SameOpen, SameFramesSwitches
<1>3. CASE \E v \in Views : SwitchToView(v)
  <2>1. PICK v \in Views : SwitchToView(v)
    BY <1>3
  <2>2. UNCHANGED <<managed, handler>>
    BY <2>1 DEF SwitchToView, Handle
  <2>3. QED BY <2>1, <2>2, SwitchToViewStep, SameOpen, SameFramesSwitches
<1>4. CASE \E f \in Frames, v \in Views : MoveFrameToView(f, v)
  <2>1. PICK f \in Frames, v \in Views : MoveFrameToView(f, v)
    BY <1>4
  <2> DEFINE g == <<ClientOf(f), v>>
  <2>2. handler = Idle /\ UNCHANGED <<managed, handler>> /\ f \in LiveFrames(wm)
    BY <2>1 DEF MoveFrameToView, Handle
  <2>3. /\ wm'.selected_view = wm.selected_view
        /\ LiveFrames(wm') = (LiveFrames(wm) \ {f}) \cup {g}
    BY <2>1, MoveFrameToViewStep
  <2>4. g \in Frames /\ ClientOf(g) = ClientOf(f)
    BY FrameParts, PairIsFrame
  <2>5. {f} \in SUBSET {f} /\ {g} \in SUBSET {g}
    OBVIOUS
  <2> HIDE DEF g
  <2>6. QED BY <2>2, <2>3, <2>4, <2>5, NotUnmanaging, FramesReplacedRetags
<1>5. CASE \E f \in Frames, v \in Views : CopyFrameToView(f, v)
  <2>1. PICK f \in Frames, v \in Views : CopyFrameToView(f, v)
    BY <1>5
  <2> DEFINE g == <<ClientOf(f), v>>
  <2>2. handler = Idle /\ UNCHANGED <<managed, handler>> /\ f \in LiveFrames(wm)
    BY <2>1 DEF CopyFrameToView, Handle
  <2>3. /\ wm'.selected_view = wm.selected_view
        /\ LiveFrames(wm') = (LiveFrames(wm) \ {}) \cup {g}
    BY <2>1, CopyFrameToViewStep
  <2>4. g \in Frames /\ ClientOf(g) = ClientOf(f)
    BY FrameParts, PairIsFrame
  <2>5. {} \in SUBSET {f} /\ {g} \in SUBSET {g}
    OBVIOUS
  <2> HIDE DEF g
  <2>6. QED BY <2>2, <2>3, <2>4, <2>5, NotUnmanaging, FramesReplacedRetags
<1>6. CASE RemoveCurrentFrame
  <2> DEFINE f == SelectedFrame(wm)
  <2>1. handler = Idle /\ UNCHANGED <<managed, handler>>
    BY <1>6 DEF RemoveCurrentFrame, Handle
  <2>2. /\ wm'.selected_view = wm.selected_view
        /\ LiveFrames(wm') = (LiveFrames(wm) \ {f}) \cup {}
        /\ f \in LiveFrames(wm) /\ f \in Frames
    BY <1>6, RemoveCurrentFrameStep DEF LiveFrames
  <2>3. {f} \in SUBSET {f} /\ {} \in SUBSET {f}
    OBVIOUS
  <2> HIDE DEF f
  <2>4. QED BY <2>1, <2>2, <2>3, NotUnmanaging, FramesReplacedRetags
<1>7. CASE CopyMarkedFrames \/ MoveMarkedFrames
  <2>1. /\ handler = Idle /\ managed' = managed /\ wm' = wm
        /\ handler'.op \in {"copy_marked_frames", "move_marked_frames"}
    BY <1>7 DEF CopyMarkedFrames, MoveMarkedFrames, StartOnMarked
  <2>2. Open' = Open
    <3>1. \A c : handler' # [op |-> "unmanage_client", client |-> c]
      BY <2>1
    <3>2. QED BY <2>1, <3>1, NotUnmanaging DEF Open
  <2>3. QED BY <2>1, <2>2, SameTagsStutters DEF SameTags
<1>8. QED BY <1>1, <1>2, <1>3, <1>4, <1>5, <1>6, <1>7 DEF Command, LocalCommand

\* Each iteration of a handler that loops changes the tags of one client, or none
\* while it is being unmanaged.
LEMMA HandlerStepRefines ==
  ASSUME IInv, IInv', HandlerStep
  PROVE  Abstract!TagsNext \/ Stutters
<1>1. CASE \E f \in Frames : UnmanageFrame(f)
  <2>1. PICK f \in Frames : UnmanageFrame(f)
    BY <1>1
  <2> DEFINE c == ClientOf(f)
  <2>2. /\ handler = [op |-> "unmanage_client", client |-> c]
        /\ UNCHANGED <<managed, handler>>
    BY <2>1 DEF UnmanageFrame
  <2>3. Open' = Open /\ c \notin Open
    BY <2>2 DEF Open
  <2>4. /\ wm'.selected_view = wm.selected_view
        /\ LiveFrames(wm') = LiveFrames(wm) \ {f}
    BY <2>1, UnmanageFrameStep
  <2>5. \A d : d # c => FramesOf(wm', d) = FramesOf(wm, d)
    BY <2>4 DEF FramesOf
  <2>6. \A d : TagsOf(d)' = TagsOf(d)
    BY <2>3, <2>5 DEF TagsOf
  <2>7. QED BY <2>3, <2>4, <2>6 DEF Stutters, AllTags
<1>2. CASE \E f \in Frames : CopyMarked(f)
  <2>1. PICK f \in Frames : CopyMarked(f)
    BY <1>2
  <2> DEFINE g == <<ClientOf(f), wm.selected_view>>
  <2>2. /\ handler.op = "copy_marked_frames" /\ UNCHANGED <<managed, handler>>
        /\ IsFirstMarked(wm, f)
    BY <2>1 DEF CopyMarked
  <2>3. f \in LiveFrames(wm) /\ wm.selected_view \in Views
    BY <2>2, MarkedFrame
  <2>4. /\ wm'.selected_view = wm.selected_view
        /\ LiveFrames(wm') = (LiveFrames(wm) \ {}) \cup {g}
    BY <2>1, CopyMarkedStep
  <2>5. g \in Frames /\ ClientOf(g) = ClientOf(f)
    BY <2>3, FrameParts, PairIsFrame
  <2>6. {} \in SUBSET {f} /\ {g} \in SUBSET {g}
    OBVIOUS
  <2> HIDE DEF g
  <2>7. QED BY <2>2, <2>3, <2>4, <2>5, <2>6, NotUnmanaging, FramesReplacedRetags
<1>3. CASE \E f \in Frames : MoveMarked(f)
  <2>1. PICK f \in Frames : MoveMarked(f)
    BY <1>3
  <2> DEFINE g == <<ClientOf(f), wm.selected_view>>
  <2>2. /\ handler.op = "move_marked_frames" /\ UNCHANGED <<managed, handler>>
        /\ IsFirstMarked(wm, f)
    BY <2>1 DEF MoveMarked
  <2>3. f \in LiveFrames(wm) /\ wm.selected_view \in Views
    BY <2>2, MarkedFrame
  <2>4. /\ wm'.selected_view = wm.selected_view
        /\ LiveFrames(wm') = (LiveFrames(wm) \ {f}) \cup {g}
    BY <2>1, MoveMarkedStep
  <2>5. g \in Frames /\ ClientOf(g) = ClientOf(f)
    BY <2>3, FrameParts, PairIsFrame
  <2>6. {f} \in SUBSET {f} /\ {g} \in SUBSET {g}
    OBVIOUS
  <2> HIDE DEF g
  <2>7. QED BY <2>2, <2>3, <2>4, <2>5, <2>6, NotUnmanaging, FramesReplacedRetags
<1>4. CASE \E c \in Clients : FinishUnmanage(c)
  <2>1. PICK c \in Clients : FinishUnmanage(c)
    BY <1>4
  <2>2. /\ handler = [op |-> "unmanage_client", client |-> c] /\ handler' = Idle
        /\ managed' = managed \ {c}
    BY <2>1 DEF FinishUnmanage
  <2>3. Open' = Open
    <3>1. \A d : handler = [op |-> "unmanage_client", client |-> d] <=> d = c
      <4>1. \A d : [op |-> "unmanage_client", client |-> d].client = d
        OBVIOUS
      <4>2. QED BY <2>2, <4>1
    <3>2. \A d : handler' # [op |-> "unmanage_client", client |-> d]
      BY <2>2, IdleIsNoHandler
    <3>3. QED BY <2>2, <3>1, <3>2 DEF Open
  <2>4. QED BY <2>1, <2>3, FinishUnmanageStep, SameTagsStutters
<1>5. CASE FinishMarked
  <2>1. /\ handler.op \in {"copy_marked_frames", "move_marked_frames"}
        /\ handler' = Idle /\ managed' = managed
    BY <1>5 DEF FinishMarked
  <2>2. Open' = Open
    <3>1. \A d : handler' # [op |-> "unmanage_client", client |-> d]
      BY <2>1, IdleIsNoHandler
    <3>2. QED BY <2>1, <3>1, NotUnmanaging DEF Open
  <2>3. QED BY <1>5, <2>2, FinishMarkedStep, SameTagsStutters
<1>6. QED BY <1>1, <1>2, <1>3, <1>4, <1>5 DEF HandlerStep

\* Every step of the window manager is a step of Tags or changes no tag.
LEMMA NextRefines ==
  ASSUME IInv, IInv', [Next]_vars
  PROVE  Abstract!TagsNext \/ Stutters
<1>1. CASE ActivityTimeout
  <2>1. UNCHANGED <<managed, handler>>
    BY <1>1 DEF ActivityTimeout, Handle
  <2>2. QED BY <1>1, <2>1, ActivityTimeoutStep, SameOpen, SameTagsStutters
<1>2. CASE Flush
  <2>1. UNCHANGED <<managed, handler>>
    BY <1>2 DEF Flush
  <2>2. QED BY <1>2, <2>1, FlushStep, SameOpen, SameTagsStutters
<1>3. CASE UNCHANGED vars
  <2>1. UNCHANGED <<managed, handler>> /\ wm' = wm
    BY <1>3 DEF vars
  <2>2. QED BY <2>1, SameOpen, SameTagsStutters DEF SameTags
<1>4. QED BY <1>1, <1>2, <1>3, EnvironmentRefines, CommandRefines, HandlerStepRefines DEF Next

\* The window manager does to the tags of its clients and to the current view what
\* Tags allows: no handler loses a window, and none shows one where it was not put.
THEOREM Refinement == Spec => ImplementsTags
<1>1. Init => Abstract!TagsInit
  <2>1. SUFFICES ASSUME Init PROVE Abstract!TagsInit
    OBVIOUS
  <2>2. Open = {} /\ wm.selected_view = None
    <3>1. wm = EmptyGraph /\ managed = {}
      BY <2>1 DEF Init
    <3>2. Open = {}
      BY <3>1 DEF Open
    <3>3. wm.selected_view = None
      BY <3>1 DEF EmptyGraph
    <3>4. QED BY <3>2, <3>3
  <2>3. \A c : TagsOf(c) = {}
    BY <2>2 DEF TagsOf
  <2>4. QED BY <2>2, <2>3 DEF Abstract!TagsInit
<1>2. IInv /\ IInv' /\ [Next]_vars
      => [Abstract!TagsNext]_<<Open, [c \in Clients |-> TagsOf(c)], wm.selected_view>>
  BY NextRefines DEF Stutters, AllTags
<1>3. QED BY <1>1, <1>2, Invariant, PTL DEF Spec, ImplementsTags, Abstract!Spec

-----------------------------------------------------------------------------
(***************************************************************************)
(* The two action properties on the selection: what happens in one view    *)
(* leaves the selection of the others alone, and a column that loses the   *)
(* selection falls back to its most recently active frame.  For each       *)
(* operation of module Layout there is a lemma that says which views may   *)
(* select another frame, and which columns may be left with a frame        *)
(* selected that is not their most recent one.                             *)
(***************************************************************************)

\* The views but those of `V' go on selecting the frame they select, if it is not
\* one of `F'.
KeepsSelection(w, u, V, F) ==
  \A v \in Views \ V :
    SelectedFrameOfView(w, v) \notin F \cup {None}
      => SelectedFrameOfView(u, v) = SelectedFrameOfView(w, v)

\* The column is the selected one, or it selects its most recent frame, if any.
FellBack(w, col) ==
  \/ col = SelectedColumn(w)
  \/ w.selected_frame[col] \in {None, Head(w.column_activity[col])}

\* No column but those of `C' stops being like that.
FallsBack(w, u, C) == \A col \in Columns \ C : FellBack(w, col) => FellBack(u, col)

SameSelection(w, u) ==
  /\ u.selected_view = w.selected_view
  /\ u.selected_column = w.selected_column
  /\ u.selected_frame = w.selected_frame
  /\ u.column_activity = w.column_activity

-----------------------------------------------------------------------------
(* Composition.                                                            *)

\* An operation that leaves selection and histories alone keeps everything.
LEMMA SameSelectionKeeps ==
  ASSUME NEW w, NEW u, SameSelection(w, u), NEW V, NEW F, NEW C
  PROVE  KeepsSelection(w, u, V, F) /\ FallsBack(w, u, C)
<1>1. \A v : SelectedFrameOfView(u, v) = SelectedFrameOfView(w, v)
  BY DEF SameSelection, SelectedFrameOfView, SelectedFrameOfColumn
<1>2. SelectedColumn(u) = SelectedColumn(w)
  BY DEF SameSelection, SelectedColumn
<1>3. KeepsSelection(w, u, V, F)
  BY <1>1 DEF KeepsSelection
<1>4. FallsBack(w, u, C)
  BY <1>2 DEF FallsBack, FellBack, SameSelection
<1>5. QED BY <1>3, <1>4

\* Two operations keep what both keep.
LEMMA KeepsTwice ==
  ASSUME NEW w, NEW u, NEW x, NEW V, NEW F,
         KeepsSelection(w, u, V, F), KeepsSelection(u, x, V, F)
  PROVE  KeepsSelection(w, x, V, F)
BY DEF KeepsSelection

\* The same of the columns.
LEMMA FallsBackTwice ==
  ASSUME NEW w, NEW u, NEW x, NEW C, FallsBack(w, u, C), FallsBack(u, x, C)
  PROVE  FallsBack(w, x, C)
BY DEF FallsBack

\* It is no less to keep more.
LEMMA KeepsMore ==
  ASSUME NEW w, NEW u, NEW V, NEW F, NEW U, NEW E, KeepsSelection(w, u, V, F),
         V \subseteq U, F \subseteq E
  PROVE  KeepsSelection(w, u, U, E)
BY DEF KeepsSelection

\* The same of the columns: it is no less to except fewer.
LEMMA FallsBackMore ==
  ASSUME NEW w, NEW u, NEW C, NEW D, FallsBack(w, u, C), C \subseteq D
  PROVE  FallsBack(w, u, D)
BY DEF FallsBack

\* A view keeps its selected frame if its selected column is the same and that
\* column's selected frame is.
LEMMA OtherViewsKeep ==
  ASSUME NEW w, NothingDangles(w), NEW u, NEW V,
         \A v \in Views \ V : u.selected_column[v] = w.selected_column[v],
         \A v \in Views \ V : \A col \in ColumnsOf(w, v) :
           u.selected_frame[col] = w.selected_frame[col]
  PROVE  KeepsSelection(w, u, V, {})
<1> SUFFICES ASSUME NEW v \in Views \ V, SelectedFrameOfView(w, v) # None
             PROVE  SelectedFrameOfView(u, v) = SelectedFrameOfView(w, v)
  BY DEF KeepsSelection
<1>1. v # None
  BY NoneIsNeither
<1>2. w.selected_column[v] # None
  BY <1>1 DEF SelectedFrameOfView, SelectedFrameOfColumn
<1>3. w.selected_column[v] \in ColumnsOf(w, v)
  BY <1>2 DEF NothingDangles, OrNone
<1>4. QED BY <1>1, <1>3 DEF SelectedFrameOfView, SelectedFrameOfColumn

-----------------------------------------------------------------------------
(* Selecting.                                                              *)

\* The column `k' selects its most recent frame, and the others what they did.
Leaves(w, u, k) ==
  \A col \in Columns :
    u.selected_frame[col] = IF col = k /\ w.selected_frame[col] # None
                            THEN Head(w.column_activity[col]) ELSE w.selected_frame[col]

\* WM::handle_selected_frame_changed for a column that still selects the frame
\* that lost the selection: it falls back to its most recent one.
LEMMA HandleSelectedFrameChangedLeaves ==
  ASSUME NEW w, WellLinked(w), NothingDangles(w), NEW k \in OrNone(Columns),
         NEW old, old = SelectedFrameOfColumn(w, k), NEW new,
         NEW u, u = HandleSelectedFrameChanged(w, old, new)
  PROVE  Leaves(w, u, k)
<1> DEFINE a == IF new # None THEN [w EXCEPT !.timer = TRUE] ELSE [w EXCEPT !.todo_root = TRUE]
           h == Head(w.column_activity[k])
<1>0. w \in Graph /\ w.selected_frame \in [Columns -> OrNone(Frames)]
  BY DEF WellLinked, Graph
<1>1. Schedules(w, a)
  <2>1. Schedules(w, [w EXCEPT !.timer = TRUE]) /\ Schedules(w, [w EXCEPT !.todo_root = TRUE])
    BY <1>0, NewTimer, NoRootRequest
  <2>2. QED BY <2>1
<1>2. u = IF /\ old # None
             /\ w.selected_frame[w.column_of[old]] = old
             /\ Head(w.column_activity[w.column_of[old]]) # old
          THEN SelectInBackground(a, w.column_of[old], Head(w.column_activity[w.column_of[old]]))
          ELSE a
  BY DEF HandleSelectedFrameChanged
<1> HIDE DEF a
<1>3. CASE old = None
  <2>1. u = a
    BY <1>2, <1>3
  <2>2. k = None \/ w.selected_frame[k] = None
    BY <1>3 DEF SelectedFrameOfColumn
  <2>3. QED BY <1>1, <2>1, <2>2, NoneIsNeither DEF Schedules, Leaves
<1>4. CASE old # None
  <2>1. k \in Columns /\ old = w.selected_frame[k]
    BY <1>4 DEF SelectedFrameOfColumn, OrNone
  <2>2. old \in FramesIn(w, k)
    BY <1>4, <2>1 DEF NothingDangles, OrNone
  <2>3. w.column_of[old] = k
    BY <2>2 DEF FramesIn
  <2>4. u = IF h # old THEN SelectInBackground(a, k, h) ELSE a
    BY <1>2, <1>4, <2>1, <2>3
  <2>5. h \in FramesIn(w, k)
    BY <2>1, <2>2, MostRecentIsInColumn
  <2>6. h \in OrNone(Frames)
    BY <2>5 DEF FramesIn, OrNone
  <2> HIDE DEF h
  <2>7. u.selected_frame = [w.selected_frame EXCEPT ![k] = h]
    <3>1. CASE h # old
      <4>1. a \in Graph /\ a.selected_frame = w.selected_frame
        BY <1>1 DEF Schedules
      <4>2. u = SelectInBackground(a, k, h)
        BY <2>4, <3>1
      <4>3. u.selected_frame = [a.selected_frame EXCEPT ![k] = h]
        BY <2>1, <2>6, <4>1, <4>2, SelectInBackgroundEffect
      <4>4. QED BY <4>1, <4>3
    <3>2. CASE h = old
      BY <1>0, <1>1, <2>1, <2>4, <3>2 DEF Schedules
    <3>3. QED BY <3>1, <3>2
  <2>8. QED BY <1>0, <1>4, <2>1, <2>7 DEF Leaves, h
<1>5. QED BY <1>3, <1>4

\* WView::select_column: in the view on the screen the column that loses the
\* selection falls back.
LEMMA SelectColumnLeaves ==
  ASSUME NEW w, WellLinked(w), NothingDangles(w), NEW v \in Views,
         NEW col \in OrNone(ColumnsOf(w, v)),
         NEW u, u = SelectColumn(w, v, col)
  PROVE  Leaves(w, u, IF v = w.selected_view /\ col # w.selected_column[v]
                      THEN w.selected_column[v] ELSE None)
<1> DEFINE old == SelectedFrameOfView(w, v)
           new == SelectedFrameOfColumn(w, col)
           k == w.selected_column[v]
           d == ScheduleDraw(ScheduleDraw(w, old), new)
           m == [d EXCEPT !.selected_column[v] = col]
           t == HandleSelectedFrameChanged(m, old, new)
<1>0. /\ w \in Graph
      /\ w.selected_frame \in [Columns -> OrNone(Frames)]
      /\ w.selected_column \in [Views -> OrNone(Columns)]
      /\ k \in OrNone(Columns) /\ col \in OrNone(Columns)
  BY DEF WellLinked, Graph, OrNone, ColumnsOf
<1>1. u = IF col = k THEN w
          ELSE IF v # w.selected_view THEN m
          ELSE IF new = None THEN t ELSE ScheduleInputFocus(t, new)
  BY DEF SelectColumn
<1>2. old = SelectedFrameOfColumn(w, k) /\ old \in OrNone(Frames) /\ new \in OrNone(Frames)
  BY <1>0, NoneIsNeither DEF SelectedFrameOfView, SelectedFrameOfColumn, OrNone
<1>3. CASE col = k
  BY <1>0, <1>1, <1>3, NoneIsNeither DEF Leaves
<1>4. CASE col # k
  <2>1. Schedules(w, d)
    <3>1. Schedules(w, ScheduleDraw(w, old))
      BY <1>0, <1>2, ScheduleDrawEffect
    <3>2. Schedules(ScheduleDraw(w, old), d)
      BY <1>2, <3>1, ScheduleDrawEffect DEF Schedules
    <3>3. QED BY <3>1, <3>2, SchedulesTwice
  <2> HIDE DEF d, old, new
  <2>2. /\ d \in Graph
        /\ [d.selected_column EXCEPT ![v] = col] \in [Views -> OrNone(Columns)]
    BY <1>0, <2>1 DEF Schedules
  <2>3. m \in Graph
    BY <2>2, Zenon DEF Graph
  <2>4. SameLinks(d, m) /\ SameViews(d, m) /\ m.selected_frame = d.selected_frame
    BY <2>2 DEF Graph, SameLinks, SameViews
  <2>5. SameLinks(w, m) /\ SameViews(w, m) /\ m.selected_frame = w.selected_frame
        /\ m.column_activity = w.column_activity
    BY <2>1, <2>4 DEF Schedules, SameLinks, SameViews
  <2> HIDE DEF m
  <2>6. CASE v # w.selected_view
    BY <1>1, <1>4, <2>5, <2>6, NoneIsNeither DEF Leaves
  <2>7. CASE v = w.selected_view
    <3>1. m.selected_column = [w.selected_column EXCEPT ![v] = col]
      BY <1>0, <2>1, <2>2 DEF m, Graph, Schedules
    <3>2. \A c : FramesIn(m, c) = FramesIn(w, c)
      BY <2>5, SameSets DEF SameLinks
    <3>3. \A y : ColumnsOf(m, y) = ColumnsOf(w, y)
      BY <2>5, SameSets DEF SameLinks
    <3>4. WellLinked(m)
      BY <2>3, <2>5, SameLinksWellLinked DEF WellLinked, Tree, SameViews
    <3>5. NothingDangles(m)
      <4>1. \A y \in Views : m.selected_column[y] \in OrNone(ColumnsOf(m, y))
        BY <1>0, <3>1, <3>3 DEF NothingDangles
      <4>2. \A c \in Columns : m.selected_frame[c] \in OrNone(FramesIn(m, c))
        BY <2>5, <3>2 DEF NothingDangles
      <4>3. m.selected_view \in OrNone(m.views)
        BY <2>5 DEF NothingDangles, SameViews
      <4>4. QED BY <4>1, <4>2, <4>3 DEF NothingDangles
    <3>6. old = SelectedFrameOfColumn(m, k)
      BY <1>2, <2>5 DEF SelectedFrameOfColumn
    <3>7. Leaves(m, t, k)
      BY <1>0, <3>4, <3>5, <3>6, HandleSelectedFrameChangedLeaves
    <3>8. t \in Graph
      <4>1. old \in OrNone(LiveFrames(m))
        BY <1>0, <3>5, <3>6, NoneIsNeither DEF SelectedFrameOfColumn, NothingDangles, FramesIn, LiveFrames, OrNone
      <4>2. QED BY <3>4, <4>1, HandleSelectedFrameChangedEffect
    <3> HIDE DEF t
    <3>9. u.selected_frame = t.selected_frame
      <4>1. CASE new = None
        BY <1>1, <1>4, <2>7, <4>1
      <4>2. CASE new # None
        <5>1. Schedules(t, ScheduleInputFocus(t, new))
          BY <1>2, <3>8, <4>2, ScheduleInputFocusEffect DEF OrNone
        <5>2. QED BY <1>1, <1>4, <2>7, <4>2, <5>1 DEF Schedules
      <4>3. QED BY <4>1, <4>2
    <3>10. QED BY <1>4, <2>5, <2>7, <3>7, <3>9 DEF Leaves
  <2>8. QED BY <2>6, <2>7
<1>5. QED BY <1>3, <1>4

\* WView::select_column changes the selection of its view only, and leaves no
\* column behind with another frame than its most recent one.
LEMMA SelectColumnKeeps ==
  ASSUME NEW w, WellLinked(w), NothingDangles(w), NEW v \in Views,
         NEW col \in OrNone(ColumnsOf(w, v)),
         NEW u, u = SelectColumn(w, v, col)
  PROVE  KeepsSelection(w, u, {v}, {}) /\ FallsBack(w, u, {})
<1> DEFINE k == w.selected_column[v]
<1>1. /\ SameLinks(w, u) /\ SameViews(w, u)
      /\ u.selected_column = [w.selected_column EXCEPT ![v] = col]
  BY SelectColumnEffect
<1>2. Leaves(w, u, IF v = w.selected_view /\ col # k THEN k ELSE None)
  BY SelectColumnLeaves
<1>3. w.selected_column \in [Views -> OrNone(Columns)] /\ w.selected_view \in OrNone(Views)
  BY DEF WellLinked, Graph
<1>4. k \in OrNone(ColumnsOf(w, v))
  BY DEF NothingDangles
<1>5. KeepsSelection(w, u, {v}, {})
  <2>1. \A y \in Views \ {v} : u.selected_column[y] = w.selected_column[y]
    BY <1>1, <1>3
  <2>2. ASSUME NEW y \in Views \ {v}, NEW c \in ColumnsOf(w, y)
        PROVE  u.selected_frame[c] = w.selected_frame[c]
    <3>1. c \in Columns /\ c # k /\ c # None
      BY <1>4, NoneIsNeither DEF ColumnsOf, OrNone
    <3>2. QED BY <1>2, <3>1 DEF Leaves
  <2>3. QED BY <2>1, <2>2, OtherViewsKeep
<1>6. FallsBack(w, u, {})
  <2> SUFFICES ASSUME NEW c \in Columns, FellBack(w, c) PROVE FellBack(u, c)
    BY DEF FallsBack
  <2>1. u.column_activity = w.column_activity /\ u.selected_view = w.selected_view
    BY <1>1 DEF SameLinks, SameViews
  <2>2. c # None
    BY NoneIsNeither
  <2>3. CASE v = w.selected_view /\ col # k /\ c = k
    BY <1>2, <2>1, <2>3 DEF Leaves, FellBack
  <2>4. CASE ~(v = w.selected_view /\ col # k /\ c = k)
    <3>1. u.selected_frame[c] = w.selected_frame[c]
      BY <1>2, <2>2, <2>4 DEF Leaves
    <3>2. c = SelectedColumn(w) => c = SelectedColumn(u)
      BY <1>1, <1>3, <2>1, <2>2, <2>4 DEF SelectedColumn, OrNone
    <3>3. QED BY <2>1, <3>1, <3>2 DEF FellBack
  <2>5. QED BY <2>3, <2>4
<1>7. QED BY <1>5, <1>6

\* WColumn::select_frame changes the selection of its view only, and that of its
\* column only.
LEMMA SelectFrameInColumnKeeps ==
  ASSUME NEW w, WellLinked(w), NothingDangles(w), NEW v \in Views,
         NEW col \in ColumnsOf(w, v), NEW f \in OrNone(Frames),
         NEW u, u = SelectFrameInColumn(w, col, f)
  PROVE  /\ KeepsSelection(w, u, {v}, {}) /\ FallsBack(w, u, {col})
         /\ col = SelectedColumn(w) => FallsBack(w, u, {})
         /\ SelectedColumn(u) = SelectedColumn(w)
<1>0. col \in Columns
  BY DEF ColumnsOf
<1>1. /\ SameLinks(w, u) /\ SameViews(w, u)
      /\ u.selected_column = w.selected_column
      /\ u.selected_frame = [w.selected_frame EXCEPT ![col] = f]
  BY <1>0, SelectFrameInColumnEffect
<1>2. w.selected_frame \in [Columns -> OrNone(Frames)]
  BY DEF WellLinked, Graph
<1>3. \A c \in Columns \ {col} : /\ u.selected_frame[c] = w.selected_frame[c]
                                 /\ u.column_activity[c] = w.column_activity[c]
  BY <1>1, <1>2 DEF SameLinks
<1>4. SelectedColumn(u) = SelectedColumn(w)
  BY <1>1 DEF SelectedColumn, SameViews
<1>5. KeepsSelection(w, u, {v}, {})
  <2>1. \A y \in Views \ {v} : \A c \in ColumnsOf(w, y) : c \in Columns \ {col}
    BY DEF ColumnsOf
  <2>2. \A y \in Views \ {v} : \A c \in ColumnsOf(w, y) :
          u.selected_frame[c] = w.selected_frame[c]
    BY <1>3, <2>1
  <2>3. \A y \in Views \ {v} : u.selected_column[y] = w.selected_column[y]
    BY <1>1
  <2>4. QED BY <2>2, <2>3, OtherViewsKeep
<1>6. FallsBack(w, u, {col})
  BY <1>3, <1>4 DEF FallsBack, FellBack
<1>7. col = SelectedColumn(w) => FallsBack(w, u, {})
  BY <1>4, <1>6 DEF FallsBack, FellBack
<1>8. QED BY <1>4, <1>5, <1>6, <1>7

\* WView::select_frame of a frame of the view, which becomes its selected one.
LEMMA SelectFrameKeeps ==
  ASSUME NEW w, WellFormed(w), NEW f \in LiveFrames(w),
         NEW u, u = SelectFrame(w, f)
  PROVE  /\ KeepsSelection(w, u, {ViewOf(f)}, {})
         /\ FallsBack(w, u, {w.column_of[f]})
         /\ u.selected_column[ViewOf(f)] = w.column_of[f]
         /\ ViewOf(f) = w.selected_view => FallsBack(w, u, {})
<1> DEFINE v == ViewOf(f)
           col == w.column_of[f]
           x == SelectFrameInColumn(w, col, f)
<1>1. /\ col \in Columns /\ v \in Views /\ col \in ColumnsOf(w, v)
      /\ f \in FramesIn(w, col)
  BY FramesColumn
<1>2. f \in OrNone(Frames) /\ v # None
  BY <1>1, NoneIsNeither DEF LiveFrames, OrNone
<1>3. WellLinked(w) /\ NothingDangles(w) /\ w.selected_column \in [Views -> OrNone(Columns)]
  BY SelectionDoesNotDangle DEF WellFormed, WellLinked, Graph
<1>4. u = SelectColumn(x, v, col)
  BY DEF SelectFrame
<1> HIDE DEF v, col
<1>4a. x = SelectFrameInColumn(w, col, f)
  OBVIOUS
<1>7. WellFormed(x)
  BY <1>1, SelectOwnFrameWellFormed
<1> HIDE DEF x
<1>5. /\ KeepsSelection(w, x, {v}, {}) /\ FallsBack(w, x, {col})
      /\ col = SelectedColumn(w) => FallsBack(w, x, {})
      /\ SelectedColumn(x) = SelectedColumn(w)
  BY <1>1, <1>2, <1>3, <1>4a, SelectFrameInColumnKeeps
<1>6. /\ x \in Graph
      /\ SameLinks(w, x) /\ SameViews(w, x)
      /\ x.selected_column = w.selected_column
      /\ x.selected_frame = [w.selected_frame EXCEPT ![col] = f]
  BY <1>1, <1>2, <1>3, <1>4a, SelectFrameInColumnEffect
<1>8. WellLinked(x) /\ NothingDangles(x) /\ col \in OrNone(ColumnsOf(x, v))
  BY <1>1, <1>6, <1>7, SelectionDoesNotDangle DEF WellFormed, ColumnsOf, SameLinks, OrNone
<1>9. KeepsSelection(x, u, {v}, {}) /\ FallsBack(x, u, {})
  BY <1>1, <1>4, <1>8, SelectColumnKeeps
<1>10. /\ u.selected_column = [x.selected_column EXCEPT ![v] = col]
       /\ SameViews(x, u)
  BY <1>1, <1>4, <1>8, SelectColumnEffect
<1>11. u.selected_column[v] = col
  BY <1>1, <1>3, <1>6, <1>10
<1>12. KeepsSelection(w, u, {v}, {})
  BY <1>5, <1>9, KeepsTwice
<1>13. FallsBack(w, u, {col})
  BY <1>5, <1>9 DEF FallsBack
<1>14. v = w.selected_view => FallsBack(w, u, {})
  <2>1. v = w.selected_view => SelectedColumn(u) = col
    BY <1>2, <1>6, <1>10, <1>11 DEF SelectedColumn, SameViews
  <2>2. QED BY <1>13, <2>1 DEF FallsBack, FellBack
<1>15. QED BY <1>11, <1>12, <1>13, <1>14 DEF v, col

\* WM::select_view changes the selection of the view that is left only, whose
\* column falls back.
LEMMA SelectViewKeeps ==
  ASSUME NEW w, WellFormed(w), NEW v \in w.views, NEW u, u = SelectView(w, v)
  PROVE  /\ KeepsSelection(w, u, {w.selected_view}, {}) /\ FallsBack(w, u, {})
         /\ SelectedColumn(u) = w.selected_column[v]
<1> DEFINE old == w.selected_view
           h == IF old = None THEN w ELSE ScheduleFramesOfView(w, old)
           m == [h EXCEPT !.selected_view = v]
           from == SelectedFrameOfView(w, old)
           new == SelectedFrameOfView(w, v)
           t == HandleSelectedFrameChanged(m, from, new)
           s == IF old # None /\ t.columns[old] = <<>> THEN DeleteView(t, old) ELSE t
           x == ScheduleFramesOfView(s, v)
           k == SelectedColumn(w)
<1>0. /\ w \in Graph /\ WellLinked(w) /\ Selection(w) /\ NothingDangles(w)
      /\ v \in Views /\ v # None
      /\ old \in OrNone(Views)
      /\ w.selected_column \in [Views -> OrNone(Columns)]
      /\ w.selected_frame \in [Columns -> OrNone(Frames)]
  BY SelectionDoesNotDangle, NoneIsNeither DEF WellFormed, WellLinked, Graph, Selection, OrNone
<1>1. u = IF v = old THEN w ELSE IF new = None THEN x ELSE ScheduleInputFocus(x, new)
  BY DEF SelectView
<1>2. CASE v = old
  <2>1. SelectedColumn(w) = w.selected_column[v]
    BY <1>0, <1>2 DEF SelectedColumn
  <2>2. SameSelection(w, u)
    BY <1>1, <1>2 DEF SameSelection
  <2>3. QED BY <1>1, <1>2, <2>1, <2>2, SameSelectionKeeps
<1>3. CASE v # old
  <2>1. Schedules(w, h)
    BY <1>0, ScheduleFramesOfViewEffect, SchedulesNothing DEF OrNone
  <2>2. k \in OrNone(Columns) /\ from = SelectedFrameOfColumn(w, k)
    BY <1>0 DEF SelectedColumn, SelectedFrameOfView, SelectedFrameOfColumn, OrNone
  <2>3. from \in OrNone(Frames) /\ new \in OrNone(Frames)
    BY <1>0, <2>2 DEF SelectedFrameOfView, SelectedFrameOfColumn, OrNone
  <2> HIDE DEF h, from, new, old, k
  <2>4. m \in Graph
    <3>1. h \in Graph /\ v \in OrNone(Views)
      BY <1>0, <2>1 DEF Schedules, OrNone
    <3>2. QED BY <3>1, Zenon DEF Graph
  <2>5. SameLinks(h, m) /\ m.views = h.views /\ m.selected_view = v
        /\ m.selected_frame = h.selected_frame
        /\ m.selected_column = h.selected_column
    BY <2>1 DEF Schedules, Graph, SameLinks
  <2>6. SameLinks(w, m) /\ m.views = w.views
        /\ m.selected_frame = w.selected_frame
        /\ m.selected_column = w.selected_column
    BY <2>1, <2>5 DEF Schedules, SameLinks, SameViews
  <2>7. WellLinked(m)
    BY <1>0, <2>4, <2>6, SameLinksWellLinked DEF WellLinked, Tree
  <2>8. NothingDangles(m)
    <3>1. (\A y : ColumnsOf(m, y) = ColumnsOf(w, y)) /\ (\A c : FramesIn(m, c) = FramesIn(w, c))
      BY <2>6, SameSets DEF SameLinks
    <3>2. QED BY <1>0, <2>5, <2>6, <3>1 DEF NothingDangles, OrNone
  <2>9. from = SelectedFrameOfColumn(m, k)
    BY <2>2, <2>6 DEF SelectedFrameOfColumn
  <2> HIDE DEF m
  <2>10. Leaves(m, t, k)
    BY <2>2, <2>7, <2>8, <2>9, HandleSelectedFrameChangedLeaves
  <2>11. t \in Graph /\ SameLinks(m, t) /\ SameViews(m, t) /\ t.selected_column = m.selected_column
    <3>1. from \in OrNone(LiveFrames(m))
      BY <2>2, <2>8, <2>9, NoneIsNeither
         DEF SelectedFrameOfColumn, NothingDangles, FramesIn, LiveFrames, OrNone
    <3>2. QED BY <2>7, <3>1, HandleSelectedFrameChangedEffect
  <2> HIDE DEF t
  <2>12. SameLinks(w, t) /\ t.selected_view = v
         /\ t.selected_column = w.selected_column
    BY <2>5, <2>6, <2>11 DEF SameLinks, SameViews
  <2>13. s \in Graph /\ SameSelection(t, s)
    <3>1. CASE old # None /\ t.columns[old] = <<>>
      <4>1. old \in Views
        BY <1>0, <3>1 DEF OrNone
      <4>2. WellLinked(t)
        BY <2>7, <2>11, SameLinksWellLinked DEF WellLinked, Tree, SameViews
      <4>3. ColumnsOf(t, old) = {}
        BY <3>1, <4>1, <4>2, NoColumns
      <4>4. s = DeleteView(t, old)
        BY <3>1
      <4> HIDE DEF s
      <4>5. WellLinked(s) /\ SameLinks(t, s) /\ s.selected_view = t.selected_view
            /\ s.selected_column = t.selected_column /\ s.selected_frame = t.selected_frame
        BY <4>1, <4>2, <4>3, <4>4, DeleteViewEffect
      <4>6. QED BY <4>5 DEF SameSelection, SameLinks, WellLinked
    <3>2. CASE ~(old # None /\ t.columns[old] = <<>>)
      BY <2>11, <3>2 DEF SameSelection
    <3>3. QED BY <3>1, <3>2
  <2> HIDE DEF s
  <2>14. Schedules(s, x)
    BY <1>0, <2>13, ScheduleFramesOfViewEffect
  <2> HIDE DEF x
  <2>15. SameSelection(x, u)
    <3>1. CASE new = None
      BY <1>1, <1>3, <3>1 DEF SameSelection, old
    <3>2. CASE new # None
      <4>1. Schedules(x, ScheduleInputFocus(x, new))
        BY <2>3, <2>14, <3>2, ScheduleInputFocusEffect DEF OrNone, Schedules
      <4>2. QED BY <1>1, <1>3, <3>2, <4>1 DEF Schedules, SameSelection, SameLinks, SameViews, old
    <3>3. QED BY <3>1, <3>2
  <2>16. SameSelection(t, u)
    BY <2>13, <2>14, <2>15 DEF SameSelection, Schedules, SameLinks, SameViews
  <2>17. /\ u.selected_column = w.selected_column /\ u.column_activity = w.column_activity
         /\ u.selected_view = v /\ Leaves(w, u, k)
    BY <2>6, <2>10, <2>12, <2>16 DEF SameSelection, SameLinks, Leaves
  <2>18. SelectedColumn(u) = w.selected_column[v]
    BY <1>0, <2>17 DEF SelectedColumn
  <2>19. KeepsSelection(w, u, {old}, {})
    <3>1. \A y \in Views \ {old} : \A c \in ColumnsOf(w, y) : c \in Columns /\ c # k
      BY <1>0, NoneIsNeither DEF ColumnsOf, NothingDangles, SelectedColumn, OrNone, k, old
    <3>2. \A y \in Views \ {old} : \A c \in ColumnsOf(w, y) :
            u.selected_frame[c] = w.selected_frame[c]
      BY <2>17, <3>1 DEF Leaves
    <3>3. QED BY <1>0, <2>17, <3>2, OtherViewsKeep
  <2>20. FallsBack(w, u, {})
    BY <2>17 DEF FallsBack, FellBack, Leaves, k
  <2>21. QED BY <2>18, <2>19, <2>20 DEF old
<1>4. QED BY <1>2, <1>3

-----------------------------------------------------------------------------
(* Construction and destruction.                                           *)

\* A column without frames selects none.
LEMMA NothingToSelect ==
  ASSUME NEW w, WellFormed(w), NEW col \in Columns
  PROVE  w.selected_frame[col] = None <=> FramesIn(w, col) = {}
BY NoneIsNeither DEF WellFormed, Selection, Selects, FramesIn

\* A column that is inserted does not change the selection.
LEMMA InsertedColumnSameSelection ==
  ASSUME NEW w, WellFormed(w), NEW v \in w.views, NEW i \in 1..(Len(w.columns[v]) + 1),
         NEW col \in FreeColumns(w),
         NEW x, x = InsertColumn(w, v, i, col)
  PROVE  /\ SameSelection(w, x) /\ WellLinked(x) /\ col \in ColumnsOf(x, v)
         /\ w.selected_column[v] = None => NothingDangles(x)
<1>1a. ColumnInserted(w, v, i, col, x)
  BY InsertedColumn
<1>1. /\ WellLinked(x)
      /\ x.columns = [w.columns EXCEPT ![v] = InsertAt(w.columns[v], i, col)]
      /\ x.view_of = [w.view_of EXCEPT ![col] = v]
      /\ SameViews(w, x) /\ SameFrames(w, x)
      /\ x.selected_column = w.selected_column /\ x.selected_frame = w.selected_frame
      /\ ColumnsOf(x, v) = ColumnsOf(w, v) \cup {col}
      /\ \A z \in Views \ {v} : Selects(x.selected_column[z], ColumnsOf(x, z))
      /\ \A c \in Columns : Selects(x.selected_frame[c], FramesIn(x, c))
      /\ x.selected_view \in OrNone(x.views)
      /\ w.selected_column[v] = None => NothingDangles(x)
  BY <1>1a DEF ColumnInserted
<1>2. x.column_activity = w.column_activity
  BY DEF WellFormed, WellLinked, InsertColumn, Graph
<1>3. SameSelection(w, x)
  BY <1>1, <1>2 DEF SameSelection, SameViews
<1>4. QED BY <1>1, <1>3

\* A new column, which is selected only where no other was, changes nothing.
LEMMA CreateColumnKeeps ==
  ASSUME NEW w, WellFormed(w), NEW v \in w.views, NEW i \in 1..(Len(w.columns[v]) + 1),
         NEW col \in FreeColumns(w),
         NEW u, u = CreateColumn(w, v, i, col)
  PROVE  KeepsSelection(w, u, {}, {}) /\ FallsBack(w, u, {})
<1> DEFINE x == InsertColumn(w, v, i, col)
           y == IF w.selected_column[v] = None THEN SelectColumn(x, v, col) ELSE x
<1>0. w \in Graph /\ v \in Views /\ v # None
  BY NoneIsNeither DEF WellFormed, WellLinked, Graph
<1>1. u = ScheduleView(y, v)
  BY DEF CreateColumn, InsertColumn
<1>2. x = InsertColumn(w, v, i, col)
  OBVIOUS
<1> HIDE DEF x, y
<1>3. /\ SameSelection(w, x) /\ WellLinked(x) /\ col \in ColumnsOf(x, v)
      /\ w.selected_column[v] = None => NothingDangles(x)
  BY <1>2, InsertedColumnSameSelection
<1>4. SameSelection(w, x)
  BY <1>3
<1> USE DEF y
<1>5. y \in Graph /\ KeepsSelection(w, y, {}, {}) /\ FallsBack(w, y, {})
  <2>1. CASE w.selected_column[v] = None
    <3>1. y = SelectColumn(x, v, col) /\ NothingDangles(x) /\ col \in OrNone(ColumnsOf(x, v))
      BY <1>3, <2>1 DEF OrNone
    <3> HIDE DEF y
    <3>2. y \in Graph
      BY <1>0, <1>3, <3>1, SelectColumnEffect
    <3>3. KeepsSelection(x, y, {v}, {}) /\ FallsBack(x, y, {})
      BY <1>0, <1>3, <3>1, SelectColumnKeeps
    <3>4. KeepsSelection(w, x, {v}, {}) /\ FallsBack(w, x, {})
      BY <1>4, SameSelectionKeeps
    <3>5. KeepsSelection(w, y, {v}, {}) /\ FallsBack(w, y, {})
      BY <3>3, <3>4, KeepsTwice, FallsBackTwice
    <3>6. SelectedFrameOfView(w, v) = None
      BY <1>0, <2>1 DEF SelectedFrameOfView, SelectedFrameOfColumn
    <3>7. QED BY <3>2, <3>5, <3>6 DEF KeepsSelection
  <2>2. CASE w.selected_column[v] # None
    <3>1. y = x
      BY <2>2
    <3> HIDE DEF y
    <3>2. QED BY <1>3, <1>4, <3>1, SameSelectionKeeps DEF WellLinked
  <2>3. QED BY <2>1, <2>2
<1> HIDE DEF y
<1>6. SameSelection(y, u)
  BY <1>0, <1>1, <1>5, ScheduleViewEffect DEF Schedules, SameSelection, SameLinks, SameViews
<1>7. KeepsSelection(y, u, {}, {}) /\ FallsBack(y, u, {})
  BY <1>6, SameSelectionKeeps
<1>8. QED BY <1>5, <1>7, KeepsTwice, FallsBackTwice

\* The neighbour of a column without frames takes over the selection, and nothing
\* else changes.
LEMMA DeleteColumnKeeps ==
  ASSUME NEW w, WellFormed(w), NEW col \in Columns, w.view_of[col] # None,
         FramesIn(w, col) = {},
         NEW u, u = DeleteColumn(w, col)
  PROVE  /\ KeepsSelection(w, u, {}, {}) /\ FallsBack(w, u, {})
         /\ \A y \in Views : y # w.view_of[col] => u.selected_column[y] = w.selected_column[y]
<1> DEFINE v == w.view_of[col]
           i == Position(w.columns[v], col)
           n == Neighbour(w.columns[v], col)
           l == IF col = w.selected_column[v] THEN SelectColumn(w, v, n) ELSE w
           x == [l EXCEPT !.columns[v] = RemoveAt(@, i), !.view_of[col] = None,
                          !.todo_columns = @ \ {col}, !.todo_views = @ \cup {v}]
<1>0. /\ w \in Graph /\ WellLinked(w) /\ NothingDangles(w)
      /\ w.columns \in [Views -> Seq(Columns)]
      /\ w.selected_column \in [Views -> OrNone(Columns)]
      /\ v \in Views /\ v # None
      /\ Enumerates(w.columns[v], ColumnsOf(w, v)) /\ col \in ColumnsOf(w, v)
  <2>1. w \in Graph /\ WellLinked(w) /\ NothingDangles(w)
    BY SelectionDoesNotDangle DEF WellFormed, WellLinked
  <2>2. /\ v \in Views /\ w.columns \in [Views -> Seq(Columns)]
        /\ w.selected_column \in [Views -> OrNone(Columns)]
    BY <2>1 DEF Graph, OrNone
  <2>3. QED BY <2>1, <2>2 DEF WellLinked, Tree, ColumnsOf
<1>1. u = IF x.columns[v] = <<>> /\ v # x.selected_view THEN DeleteView(x, v) ELSE x
  BY ZenonT(60) DEF DeleteColumn, Neighbour
<1>2. l = LeaveColumn(w, col)
  BY DEF LeaveColumn
<1>3. x = EraseColumn(l, v, i, col)
  BY DEF EraseColumn
<1>4. l = IF col = w.selected_column[v] THEN SelectColumn(w, v, n) ELSE w
  OBVIOUS
<1>5. Selects(n, ColumnsOf(w, v) \ {col})
  BY <1>0, NeighbourProperties
<1> HIDE DEF l, x
<1>6. /\ WellFormed(x)
      /\ l \in Graph /\ SameLinks(w, l) /\ SameViews(w, l)
      /\ x.columns = [w.columns EXCEPT ![w.view_of[col]] =
                        RemoveAt(w.columns[w.view_of[col]],
                                 Position(w.columns[w.view_of[col]], col))]
      /\ x.view_of = [w.view_of EXCEPT ![col] = None]
      /\ SameViews(w, x) /\ SameFrames(w, x)
      /\ x.selected_column = l.selected_column /\ x.selected_frame = l.selected_frame
      /\ x.column_activity = w.column_activity
  BY <1>2, <1>3, ErasedColumn
<1> HIDE DEF v, n, i
<1>7. /\ KeepsSelection(w, l, {}, {}) /\ FallsBack(w, l, {})
      /\ \A y \in Views \ {v} : l.selected_column[y] = w.selected_column[y]
  <2>1. CASE col = w.selected_column[v]
    <3>1. n \in OrNone(ColumnsOf(w, v)) /\ l = SelectColumn(w, v, n)
      BY <1>4, <1>5, <2>1 DEF Selects, OrNone
    <3>2. KeepsSelection(w, l, {v}, {}) /\ FallsBack(w, l, {})
      BY <1>0, <3>1, SelectColumnKeeps
    <3>3. l.selected_column = [w.selected_column EXCEPT ![v] = n]
      BY <1>0, <3>1, SelectColumnEffect
    <3>4. w.selected_frame[col] = None
      BY NothingToSelect
    <3>5. SelectedFrameOfView(w, v) = None
      BY <1>0, <2>1, <3>4, NoneIsNeither DEF SelectedFrameOfView, SelectedFrameOfColumn
    <3>6. KeepsSelection(w, l, {}, {})
      BY <3>2, <3>5 DEF KeepsSelection
    <3>7. QED BY <1>0, <3>2, <3>3, <3>6
  <2>2. CASE col # w.selected_column[v]
    <3>1. l = w
      BY <1>4, <2>2
    <3>2. SameSelection(w, l)
      BY <3>1 DEF SameSelection
    <3>3. QED BY <3>1, <3>2, SameSelectionKeeps
  <2>3. QED BY <2>1, <2>2
<1>8. SameSelection(l, x)
  BY <1>6 DEF SameSelection, SameLinks, SameViews
<1>9. SameSelection(x, u)
  <2>1. CASE x.columns[v] = <<>> /\ v # x.selected_view
    <3>1. ColumnsOf(x, v) = {} /\ WellLinked(x)
      BY <1>0, <1>6, <2>1, NoColumns DEF WellFormed
    <3>2. u = DeleteView(x, v)
      BY <1>1, <2>1
    <3>3. /\ SameLinks(x, u) /\ u.selected_view = x.selected_view
          /\ u.selected_column = x.selected_column
          /\ u.selected_frame = x.selected_frame
      BY <1>0, <3>1, <3>2, DeleteViewEffect
    <3>4. QED BY <3>3 DEF SameSelection, SameLinks
  <2>2. CASE ~(x.columns[v] = <<>> /\ v # x.selected_view)
    BY <1>1, <2>2 DEF SameSelection
  <2>3. QED BY <2>1, <2>2
<1>10. SameSelection(l, u)
  BY <1>8, <1>9 DEF SameSelection
<1>11. KeepsSelection(l, u, {}, {}) /\ FallsBack(l, u, {})
  BY <1>10, SameSelectionKeeps
<1>12. KeepsSelection(w, u, {}, {}) /\ FallsBack(w, u, {})
  BY <1>7, <1>11, KeepsTwice, FallsBackTwice
<1>13. QED BY <1>7, <1>10, <1>12 DEF SameSelection, v

\* A frame that is added to a column with frames is not selected there, although it
\* becomes its most recent one.
LEMMA AddFrameKeeps ==
  ASSUME NEW w, WellFormed(w), NEW f \in Frames \ LiveFrames(w),
         NEW col \in Columns, w.view_of[col] = ViewOf(f),
         NEW i \in 1..(Len(w.frames[col]) + 1),
         NEW u, u = AddFrame(w, f, col, i)
  PROVE  /\ KeepsSelection(w, u, {}, {}) /\ FallsBack(w, u, {col})
         /\ FramesIn(w, col) = {} \/ col = SelectedColumn(w) => FallsBack(w, u, {})
<1> DEFINE x == InsertFrame(w, f, col, i)
           y == IF w.selected_frame[col] = None THEN SelectFrameInColumn(x, col, f) ELSE x
<1>0. /\ w \in Graph /\ NothingDangles(w) /\ f \in OrNone(Frames)
      /\ w.column_activity \in [Columns -> Seq(Frames)]
      /\ w.selected_frame \in [Columns -> OrNone(Frames)]
  BY SelectionDoesNotDangle DEF WellFormed, WellLinked, Graph, OrNone
<1>1. u = ScheduleColumn(y, col)
  BY DEF AddFrame, InsertFrame
<1>2. x = InsertFrame(w, f, col, i)
  OBVIOUS
<1> HIDE DEF x
<1>3. /\ WellLinked(x)
      /\ x.column_of = [w.column_of EXCEPT ![f] = col]
      /\ x.frames = [w.frames EXCEPT ![col] = InsertAt(w.frames[col], i, f)]
      /\ x.column_activity = [w.column_activity EXCEPT ![col] = <<f>> \o w.column_activity[col]]
      /\ SameViews(w, x) /\ x.marked = w.marked
      /\ x.columns = w.columns /\ x.view_of = w.view_of
      /\ x.selected_column = w.selected_column /\ x.selected_frame = w.selected_frame
      /\ FramesIn(x, col) = FramesIn(w, col) \cup {f}
      /\ \A z \in Views : Selects(x.selected_column[z], ColumnsOf(x, z))
      /\ \A c \in Columns \ {col} : Selects(x.selected_frame[c], FramesIn(x, c))
      /\ x.selected_view \in OrNone(x.views)
      /\ Selects(w.selected_frame[col], FramesIn(w, col))
      /\ w.selected_frame[col] = None => NothingDangles(x)
  BY <1>2, InsertedFrame
<1>4. x \in Graph
  BY <1>3 DEF WellLinked
<1>5. /\ y \in Graph
      /\ y.column_activity = x.column_activity /\ y.selected_column = x.selected_column
      /\ y.selected_view = x.selected_view
      /\ y.selected_frame = IF w.selected_frame[col] = None
                            THEN [x.selected_frame EXCEPT ![col] = f] ELSE x.selected_frame
  <2>1. CASE w.selected_frame[col] = None
    <3>1. y = SelectFrameInColumn(x, col, f) /\ NothingDangles(x)
      BY <1>3, <2>1
    <3> HIDE DEF y
    <3>2. /\ y \in Graph
          /\ SameLinks(x, y) /\ SameViews(x, y)
          /\ y.selected_column = x.selected_column
          /\ y.selected_frame = [x.selected_frame EXCEPT ![col] = f]
      BY <1>0, <1>3, <3>1, SelectFrameInColumnEffect
    <3>3. QED BY <2>1, <3>2 DEF SameLinks, SameViews
  <2>2. CASE w.selected_frame[col] # None
    BY <1>4, <2>2
  <2>3. QED BY <2>1, <2>2
<1> HIDE DEF y
<1>6. SameSelection(y, u)
  BY <1>1, <1>5, ScheduleColumnEffect DEF Schedules, SameSelection, SameLinks, SameViews
<1>7. /\ \A c \in Columns \ {col} : /\ u.selected_frame[c] = w.selected_frame[c]
                                    /\ u.column_activity[c] = w.column_activity[c]
      /\ u.selected_frame[col] = IF w.selected_frame[col] = None THEN f
                                 ELSE w.selected_frame[col]
      /\ u.column_activity[col] = <<f>> \o w.column_activity[col]
      /\ u.selected_column = w.selected_column
      /\ u.selected_view = w.selected_view
  BY <1>0, <1>3, <1>5, <1>6 DEF SameSelection, SameViews
<1>8. SelectedColumn(u) = SelectedColumn(w)
  BY <1>7 DEF SelectedColumn
<1>9. KeepsSelection(w, u, {}, {})
  <2> SUFFICES ASSUME NEW v \in Views, SelectedFrameOfView(w, v) # None
               PROVE  SelectedFrameOfView(u, v) = SelectedFrameOfView(w, v)
    BY DEF KeepsSelection
  <2>1. v # None
    BY NoneIsNeither
  <2>2. w.selected_column[v] # None /\ w.selected_frame[w.selected_column[v]] # None
    BY <2>1 DEF SelectedFrameOfView, SelectedFrameOfColumn
  <2>3. w.selected_column[v] \in Columns
    BY <1>0, <2>2 DEF NothingDangles, OrNone, ColumnsOf
  <2>4. u.selected_frame[w.selected_column[v]] = w.selected_frame[w.selected_column[v]]
    BY <1>7, <2>2, <2>3
  <2>5. QED BY <1>7, <2>1, <2>4 DEF SelectedFrameOfView, SelectedFrameOfColumn
<1>10. FallsBack(w, u, {col})
  BY <1>7, <1>8 DEF FallsBack, FellBack
<1>11. Head(u.column_activity[col]) = f
  BY <1>0, <1>7
<1>12. FramesIn(w, col) = {} \/ col = SelectedColumn(w) => FallsBack(w, u, {})
  <2>1. FramesIn(w, col) = {} => w.selected_frame[col] = None
    BY NothingToSelect
  <2>2. FramesIn(w, col) = {} \/ col = SelectedColumn(w) => FellBack(u, col)
    BY <1>7, <1>8, <1>11, <2>1 DEF FellBack
  <2>3. QED BY <1>10, <2>2 DEF FallsBack
<1>13. QED BY <1>9, <1>10, <1>12

\* add_frame in front of the frame after the selected one.
LEMMA AddFrameAfterSelectedKeeps ==
  ASSUME NEW w, WellFormed(w), NEW f \in Frames \ LiveFrames(w),
         NEW col \in Columns, w.view_of[col] = ViewOf(f),
         NEW u, u = AddFrameAfterSelected(w, f, col)
  PROVE  /\ KeepsSelection(w, u, {}, {}) /\ FallsBack(w, u, {col})
         /\ FramesIn(w, col) = {} \/ col = SelectedColumn(w) => FallsBack(w, u, {})
<1> DEFINE i == After(w.frames[col], w.selected_frame[col])
<1>1. /\ w.frames[col] \in Seq(Frames)
      /\ Enumerates(w.frames[col], FramesIn(w, col))
      /\ Selects(w.selected_frame[col], FramesIn(w, col))
  BY DEF WellFormed, WellLinked, Graph, Tree, Selection
<1>2. i \in 1..(Len(w.frames[col]) + 1)
  BY <1>1, AfterProperties, NoneIsNeither
<1>3. u = AddFrame(w, f, col, i)
  BY DEF AddFrameAfterSelected
<1> HIDE DEF i
<1>4. QED BY <1>2, <1>3, AddFrameKeeps

\* The frame that takes over from another one is the most recent of the others.
LEMMA SuccessorIsRecent ==
  ASSUME NEW s \in Seq(Frames), NEW S, Enumerates(s, S), NEW f \in S
  PROVE  /\ Successor(s, f) \in {None, Head(Erase(s, f))}
         /\ Head(s) # f => Head(Erase(s, f)) = Head(s)
<1> DEFINE i == Position(s, f)
           t == Erase(s, f)
<1>1. i \in 1..Len(s) /\ s[i] = f /\ Len(s) \in Nat
  BY EnumerationProperties
<1>2. t = RemoveAt(s, i)
  BY DEF Erase
<1> HIDE DEF i, t
<1>3. /\ t \in Seq(Frames)
      /\ Len(t) = Len(s) - 1
      /\ \A j \in 1..(Len(s) - 1) : t[j] = IF j < i THEN s[j] ELSE s[j + 1]
  BY <1>1, <1>2, RemoveAtProperties, ZenonT(30)
<1>4. CASE Len(s) = 1
  <2>1. i = 1 /\ Head(s) = f
    BY <1>1, <1>4
  <2>2. QED BY <1>4, <2>1 DEF Successor
<1>5. CASE Len(s) # 1
  <2>1. Head(t) = t[1] /\ Head(s) = s[1] /\ Len(s) > 1
    BY <1>1, <1>3, <1>5
  <2>2. t[1] = IF 1 < i THEN s[1] ELSE s[2]
    BY <1>3, <2>1, <1>1
  <2>3. 1 < i => s[1] # f
    BY <1>1, <2>1, EnumerationIsInjective
  <2>4. Successor(s, f) = Head(t)
    BY <1>1, <1>5, <2>1, <2>2, <2>3 DEF Successor
  <2>5. Head(s) # f => Head(t) = Head(s)
    BY <1>1, <2>1, <2>2
  <2>6. QED BY <2>4, <2>5 DEF t
<1>6. QED BY <1>4, <1>5 DEF t

\* WFrame::remove of a frame changes no view's selection but its own, and its
\* column goes on with the most recent frame that is left.
LEMMA RemoveFrameKeeps ==
  ASSUME NEW w, WellFormed(w), NEW f \in LiveFrames(w), NEW u, u = RemoveFrame(w, f)
  PROVE  /\ KeepsSelection(w, u, {}, {f}) /\ FallsBack(w, u, {})
         /\ \A y \in Views : y # ViewOf(f) => u.selected_column[y] = w.selected_column[y]
<1> DEFINE col == w.column_of[f]
           v == ViewOf(f)
           recent == w.column_activity[col]
           succ == Successor(recent, f)
           l == IF w.selected_frame[col] = f THEN SelectFrameInColumn(w, col, succ) ELSE w
           d == ScheduleColumn(ScheduleTask(l, ClientOf(f), "update_server"), col)
           x == [d EXCEPT !.column_of[f] = None, !.frames[col] = Erase(@, f),
                          !.column_activity[col] = Erase(@, f),
                          !.view_activity[v] = Erase(@, f),
                          !.activity = Erase(@, f)]
<1>0. /\ w \in Graph /\ WellLinked(w) /\ NothingDangles(w)
      /\ w.selected_frame \in [Columns -> OrNone(Frames)]
      /\ w.column_activity \in [Columns -> Seq(Frames)]
  BY SelectionDoesNotDangle DEF WellFormed, WellLinked, Graph
<1>1. /\ col \in Columns /\ col # None /\ v \in Views /\ w.view_of[col] = v
      /\ f \in FramesIn(w, col) /\ f # None
  BY FramesColumn, NoneIsNeither DEF LiveFrames
<1>2. u = IF x.frames[col] = <<>> THEN DeleteColumn(x, col) ELSE x
  BY DEF RemoveFrame, Successor
<1>3. l = LeaveFrame(w, f) /\ d = AskForErased(l, f, w.column_of[f])
  BY DEF LeaveFrame, AskForErased
<1>4. x = EraseFrame(d, f, w.column_of[f])
  BY DEF EraseFrame
<1>5. l = IF w.selected_frame[col] = f THEN SelectFrameInColumn(w, col, succ) ELSE w
  OBVIOUS
<1>6. recent \in Seq(Frames) /\ Enumerates(recent, FramesIn(w, col))
  BY <1>0, <1>1 DEF WellLinked, Histories
<1>7. /\ succ \in {None, Head(Erase(recent, f))}
      /\ Head(recent) # f => Head(Erase(recent, f)) = Head(recent)
      /\ Selects(succ, FramesIn(w, col) \ {f})
  BY <1>1, <1>6, SuccessorIsRecent, SuccessorProperties
<1>8. succ \in OrNone(Frames)
  BY <1>7 DEF Selects, OrNone, FramesIn
<1> HIDE DEF succ, l, d, x
<1>9. /\ WellFormed(x)
      /\ l \in Graph /\ SameLinks(w, l) /\ SameViews(w, l)
      /\ Schedules(l, d)
      /\ x.column_of = [w.column_of EXCEPT ![f] = None]
      /\ x.frames = [w.frames EXCEPT ![w.column_of[f]] = Erase(w.frames[w.column_of[f]], f)]
      /\ x.column_activity = [w.column_activity EXCEPT ![w.column_of[f]] =
                                Erase(w.column_activity[w.column_of[f]], f)]
      /\ SameViews(w, x) /\ x.marked = w.marked
      /\ x.columns = w.columns /\ x.view_of = w.view_of
      /\ x.selected_column = w.selected_column /\ x.selected_frame = l.selected_frame
  BY <1>3, <1>4, ErasedFrame
<1> HIDE DEF col, v, recent
<1>10. x.selected_frame = IF w.selected_frame[col] = f
                          THEN [w.selected_frame EXCEPT ![col] = succ] ELSE w.selected_frame
  <2>1. CASE w.selected_frame[col] = f
    <3>1. l = SelectFrameInColumn(w, col, succ)
      BY <1>5, <2>1
    <3>2. /\ l \in Graph
          /\ SameLinks(w, l) /\ SameViews(w, l)
          /\ l.selected_column = w.selected_column
          /\ l.selected_frame = [w.selected_frame EXCEPT ![col] = succ]
      BY <1>0, <1>1, <1>8, <3>1, SelectFrameInColumnEffect
    <3>3. QED BY <1>9, <2>1, <3>2
  <2>2. CASE w.selected_frame[col] # f
    BY <1>5, <1>9, <2>2
  <2>3. QED BY <2>1, <2>2
<1>11. /\ \A c \in Columns \ {col} : /\ x.selected_frame[c] = w.selected_frame[c]
                                     /\ x.column_activity[c] = w.column_activity[c]
       /\ x.selected_frame[col] = IF w.selected_frame[col] = f THEN succ
                                  ELSE w.selected_frame[col]
       /\ x.column_activity[col] = Erase(recent, f)
  BY <1>0, <1>1, <1>9, <1>10 DEF col, recent
<1>12. SelectedColumn(x) = SelectedColumn(w)
  BY <1>9 DEF SelectedColumn, SameViews
<1>13. KeepsSelection(w, x, {}, {f})
  <2> SUFFICES ASSUME NEW y \in Views, SelectedFrameOfView(w, y) \notin {f, None}
               PROVE  SelectedFrameOfView(x, y) = SelectedFrameOfView(w, y)
    BY DEF KeepsSelection
  <2>1. y # None
    BY NoneIsNeither
  <2>2. /\ w.selected_column[y] # None
        /\ w.selected_frame[w.selected_column[y]] = SelectedFrameOfView(w, y)
    BY <2>1 DEF SelectedFrameOfView, SelectedFrameOfColumn
  <2>3. w.selected_column[y] \in Columns
    BY <1>0, <2>2 DEF NothingDangles, OrNone, ColumnsOf
  <2>4. x.selected_frame[w.selected_column[y]] = w.selected_frame[w.selected_column[y]]
    BY <1>11, <2>2, <2>3
  <2>5. QED BY <1>9, <2>1, <2>4 DEF SelectedFrameOfView, SelectedFrameOfColumn
<1>14. FallsBack(w, x, {})
  <2>1. FellBack(w, col) => FellBack(x, col)
    <3>1. CASE w.selected_frame[col] = f
      BY <1>7, <1>11, <3>1 DEF FellBack
    <3>2. CASE w.selected_frame[col] # f
      BY <1>7, <1>11, <1>12, <3>2 DEF FellBack, recent
    <3>3. QED BY <3>1, <3>2
  <2>2. QED BY <1>11, <1>12, <2>1 DEF FallsBack, FellBack
<1>15. CASE x.frames[col] = <<>>
  <2>1. FramesIn(x, col) = {}
    <3>1. x.frames[col] \in Seq(Frames) /\ Enumerates(x.frames[col], FramesIn(x, col))
      BY <1>1, <1>9 DEF WellFormed, WellLinked, Graph, Tree
    <3>2. QED BY <1>15, <3>1, EnumerationProperties, ZenonT(30)
  <2>2. x.view_of[col] = v /\ x.view_of[col] # None
    BY <1>1, <1>9, NoneIsNeither
  <2>3. u = DeleteColumn(x, col)
    BY <1>2, <1>15
  <2>4. /\ KeepsSelection(x, u, {}, {}) /\ FallsBack(x, u, {})
        /\ \A y \in Views : y # x.view_of[col] => u.selected_column[y] = x.selected_column[y]
    BY <1>1, <1>9, <2>1, <2>2, <2>3, DeleteColumnKeeps
  <2>5. KeepsSelection(x, u, {}, {f})
    BY <2>4, KeepsMore
  <2>6. KeepsSelection(w, u, {}, {f}) /\ FallsBack(w, u, {})
    BY <1>13, <1>14, <2>4, <2>5, KeepsTwice, FallsBackTwice
  <2>7. QED BY <1>9, <2>2, <2>4, <2>6 DEF v
<1>16. CASE x.frames[col] # <<>>
  BY <1>2, <1>9, <1>13, <1>14, <1>16
<1>17. QED BY <1>15, <1>16

\* New or carried attributes of frames are none of the selection.
LEMMA RepaintsKeeps ==
  ASSUME NEW w, NEW u, Repaints(w, u)
  PROVE  KeepsSelection(w, u, {}, {}) /\ FallsBack(w, u, {})
BY SameSelectionKeeps DEF Repaints, SameSelection, SameViews

\* Nor is what is scheduled.
LEMMA SchedulesKeeps ==
  ASSUME NEW w, NEW u, Schedules(w, u)
  PROVE  KeepsSelection(w, u, {}, {}) /\ FallsBack(w, u, {})
BY SameSelectionKeeps DEF Schedules, SameSelection, SameViews, SameLinks

\* A view that is made when it is named has nothing to select.
LEMMA GetOrCreateViewKeeps ==
  ASSUME NEW w, WellFormed(w), NEW v \in Views, NEW u, u = GetOrCreateView(w, v)
  PROVE  SameSelection(w, u) /\ KeepsSelection(w, u, {}, {}) /\ FallsBack(w, u, {})
<1>1. w \in Graph
  BY DEF WellFormed, WellLinked
<1>2. SameSelection(w, u)
  <2>1. CASE v \in w.views
    BY <2>1 DEF GetOrCreateView, SameSelection
  <2>2. CASE v \notin w.views
    <3>1. u = NewView(w, v)
      BY <2>2 DEF GetOrCreateView
    <3>2. QED BY <1>1, <3>1 DEF NewView, Graph, SameSelection
  <2>3. QED BY <2>1, <2>2
<1>3. QED BY <1>2, SameSelectionKeeps

\* The selected frame comes to the front of its histories.
LEMMA HandleFrameActivityKeeps ==
  ASSUME NEW w, WellFormed(w), NEW u, u = HandleFrameActivity(w)
  PROVE  KeepsSelection(w, u, {}, {}) /\ FallsBack(w, u, {})
<1> DEFINE f == SelectedFrame(w)
           col == w.column_of[f]
<1>0. w \in Graph /\ w.column_activity \in [Columns -> Seq(Frames)]
  BY DEF WellFormed, WellLinked, Graph
<1>1. CASE f = None
  <2>1. u = w
    BY <1>1 DEF HandleFrameActivity
  <2>2. SameSelection(w, u)
    BY <2>1 DEF SameSelection
  <2>3. QED BY <2>2, SameSelectionKeeps
<1>2. CASE f # None
  <2>1. /\ f \in FramesIn(w, SelectedColumn(w)) /\ SelectedColumn(w) \in Columns
        /\ col = SelectedColumn(w)
    BY <1>2, CurrentFrameIsLive DEF FramesIn
  <2>2. u = [w EXCEPT !.column_activity[col] = ToFront(@, f),
                      !.view_activity[ViewOf(f)] = ToFront(@, f),
                      !.activity = ToFront(@, f),
                      !.todo_columns = IF Head(w.column_activity[col]) = f THEN @
                                       ELSE @ \cup {col}]
    BY <1>2 DEF HandleFrameActivity
  <2> HIDE DEF f, col
  <2>3. /\ u.selected_view = w.selected_view /\ u.selected_column = w.selected_column
        /\ u.selected_frame = w.selected_frame
        /\ \A c \in Columns \ {col} : u.column_activity[c] = w.column_activity[c]
    BY <1>0, <2>2 DEF Graph
  <2>4. \A v : SelectedFrameOfView(u, v) = SelectedFrameOfView(w, v)
    BY <2>3 DEF SelectedFrameOfView, SelectedFrameOfColumn
  <2>5. SelectedColumn(u) = SelectedColumn(w)
    BY <2>3 DEF SelectedColumn
  <2>6. QED BY <2>1, <2>3, <2>4, <2>5 DEF KeepsSelection, FallsBack, FellBack
<1>3. QED BY <1>1, <1>2

\* place_frame_in_smallest_column: only the column the frame goes to may lose what
\* makes it fall back, and not if that is empty or the selected one.
LEMMA PlaceInSmallestColumnKeeps ==
  ASSUME NEW w, WellFormed(w), NEW f \in Frames \ LiveFrames(w), ViewOf(f) \in w.views,
         NEW col \in FreeColumns(w),
         NEW u, u = PlaceInSmallestColumn(w, f, col)
  PROVE  /\ KeepsSelection(w, u, {}, {}) /\ FallsBack(w, u, {u.column_of[f]})
         /\ FramesIn(w, u.column_of[f]) = {} \/ u.column_of[f] = SelectedColumn(w)
              => FallsBack(w, u, {})
         /\ u.column_of[f] \in Columns
         /\ FramesIn(w, u.column_of[f]) = {} \/ w.view_of[u.column_of[f]] = ViewOf(f)
<1> DEFINE v == ViewOf(f)
           widen == Len(w.columns[v]) < DesiredColumns
           m == IF widen THEN CreateColumn(w, v, Len(w.columns[v]) + 1, col) ELSE w
           target == IF widen THEN col ELSE SmallestColumn(w, v)
           i == Len(m.frames[target]) + 1
           Fits(x) == FramesIn(x, target) = {} \/ target = SelectedColumn(x)
<1>0. /\ w \in Graph /\ WellLinked(w)
      /\ v \in Views /\ w.columns[v] \in Seq(Columns) /\ Len(w.columns[v]) \in Nat
      /\ DesiredColumns \in Nat \ {0}
  BY FrameParts, LenProperties, DesiredColumnsAssumption DEF WellFormed, WellLinked, Graph
<1>1. u = AddFrame(m, f, target, i)
  BY DEF PlaceInSmallestColumn
<1>2. /\ WellFormed(m) /\ SameFrames(w, m)
      /\ target \in Columns /\ m.view_of[target] = v
      /\ KeepsSelection(w, m, {}, {}) /\ FallsBack(w, m, {})
      /\ Fits(w) => Fits(m)
      /\ FramesIn(w, target) = {} \/ w.view_of[target] = v
  <2>1. CASE widen
    <3> DEFINE n == Len(w.columns[v]) + 1
    <3>1. n \in 1..(Len(w.columns[v]) + 1)
      BY <1>0
    <3>2. m = CreateColumn(w, v, n, col) /\ target = col /\ v \in w.views
      BY <2>1
    <3> HIDE DEF n, m, v, target
    <3>3. /\ WellFormed(m) /\ SameViews(w, m) /\ SameFrames(w, m)
          /\ \A c \in Columns : m.view_of[c] = IF c = col THEN v ELSE w.view_of[c]
      BY <3>1, <3>2, CreateColumnWellFormed
    <3>4. KeepsSelection(w, m, {}, {}) /\ FallsBack(w, m, {})
      BY <3>1, <3>2, CreateColumnKeeps
    <3>5. col \in Columns /\ FramesIn(w, col) = {}
      BY <1>0, FreeColumnIsEmpty
    <3>6. FramesIn(m, col) = {}
      BY <3>3, <3>5 DEF SameFrames, FramesIn
    <3>7. QED BY <3>2, <3>3, <3>4, <3>5, <3>6
  <2>2. CASE ~widen
    <3>1. w.columns[v] # <<>>
      <4>1. Len(w.columns[v]) # 0
        BY <1>0, <2>2
      <4>2. QED BY <4>1
    <3>2. SmallestColumn(w, v) \in ColumnsOf(w, v)
      BY <1>0, <3>1, SmallestColumnProperties
    <3>3. m = w /\ target = SmallestColumn(w, v)
      BY <2>2
    <3> HIDE DEF m, target
    <3>4. KeepsSelection(w, w, {}, {}) /\ FallsBack(w, w, {})
      BY SameSelectionKeeps DEF SameSelection
    <3>5. SameFrames(w, w)
      BY DEF SameFrames
    <3>6. target \in Columns /\ w.view_of[target] = v
      BY <3>2, <3>3 DEF ColumnsOf
    <3>7. QED BY <3>3, <3>4, <3>5, <3>6
  <2>3. QED BY <2>1, <2>2
<1> HIDE DEF m, target
<1>3. i \in 1..(Len(m.frames[target]) + 1)
  <2>1. m.frames[target] \in Seq(Frames)
    BY <1>2 DEF WellFormed, WellLinked, Graph
  <2>2. Len(m.frames[target]) \in Nat
    BY <2>1, LenProperties
  <2>3. QED BY <2>2
<1>4. f \in Frames \ LiveFrames(m)
  BY <1>2 DEF SameFrames, LiveFrames
<1> HIDE DEF i
<1>5. /\ KeepsSelection(m, u, {}, {}) /\ FallsBack(m, u, {target})
      /\ FramesIn(m, target) = {} \/ target = SelectedColumn(m) => FallsBack(m, u, {})
  BY <1>1, <1>2, <1>3, <1>4, AddFrameKeeps
<1>6. u.column_of[f] = target
  <2>1. u.column_of = [m.column_of EXCEPT ![f] = target]
    BY <1>1, <1>2, <1>3, <1>4, AddFrameWellFormed
  <2>2. m.column_of \in [Frames -> OrNone(Columns)]
    BY <1>2 DEF WellFormed, WellLinked, Graph
  <2>3. QED BY <2>1, <2>2
<1>7. KeepsSelection(w, u, {}, {})
  BY <1>2, <1>5, KeepsTwice
<1>8. FallsBack(w, u, {target})
  <2>1. FallsBack(w, m, {target})
    BY <1>2, FallsBackMore
  <2>2. QED BY <1>5, <2>1, FallsBackTwice
<1>9. ASSUME Fits(w) PROVE FallsBack(w, u, {})
  BY <1>2, <1>5, <1>9, FallsBackTwice
<1>10. QED BY <1>2, <1>6, <1>7, <1>8, <1>9

\* A frame that has been placed in the selected view is selected there: the column
\* it was placed in becomes the selected one.
LEMMA SelectPlacedKeeps ==
  ASSUME NEW w, NEW x, WellFormed(x), NEW f \in LiveFrames(x), ViewOf(f) = x.selected_view,
         NEW V, x.selected_view \in V, NEW F,
         KeepsSelection(w, x, V, F), FallsBack(w, x, {x.column_of[f]}),
         NEW u, u = SelectFrame(x, f)
  PROVE  KeepsSelection(w, u, V, F) /\ FallsBack(w, u, {})
<1> DEFINE k == x.column_of[f]
<1>1. /\ KeepsSelection(x, u, {ViewOf(f)}, {})
      /\ FallsBack(x, u, {x.column_of[f]})
      /\ u.selected_column[ViewOf(f)] = x.column_of[f]
      /\ ViewOf(f) = x.selected_view => FallsBack(x, u, {})
  BY SelectFrameKeeps
<1>2. KeepsSelection(x, u, V, F)
  BY <1>1, KeepsMore
<1>3. KeepsSelection(w, u, V, F)
  BY <1>2, KeepsTwice
<1>4. FallsBack(w, u, {k})
  BY <1>1, FallsBackTwice
<1>5. FellBack(u, k)
  <2>1. WellFormed(u) /\ SameLinks(x, u) /\ SameViews(x, u)
    BY SelectFrameWellFormed
  <2>2. u.selected_view = ViewOf(f)
    BY <2>1 DEF SameViews
  <2>3. ViewOf(f) # None
    BY FrameParts, NoneIsNeither DEF LiveFrames
  <2>4. SelectedColumn(u) = k
    BY <1>1, <2>2, <2>3 DEF SelectedColumn
  <2>5. QED BY <2>4 DEF FellBack
<1>6. QED BY <1>3, <1>4, <1>5 DEF FallsBack

\* The frame leaves its column of the selected view for another one, where it is
\* selected.
LEMMA MoveToColumnKeeps ==
  ASSUME NEW w, WellFormed(w), NEW f \in LiveFrames(w), ViewOf(f) = w.selected_view,
         NEW target \in ColumnsOf(w, ViewOf(f)), target # w.column_of[f],
         NEW u, u = MoveToColumn(w, f, target)
  PROVE  KeepsSelection(w, u, {w.selected_view}, {f}) /\ FallsBack(w, u, {})
<1> DEFINE v == ViewOf(f)
           r == RemoveFrame(w, f)
           a == AddFrameAfterSelected(r, f, target)
<1>1. f \in Frames /\ target \in Columns /\ w.view_of[target] = v
  BY DEF LiveFrames, ColumnsOf
<1>2. r = RemoveFrame(w, f) /\ a = AddFrameAfterSelected(r, f, target)
  OBVIOUS
<1>3. u = SelectFrame(a, f)
  BY DEF MoveToColumn
<1> HIDE DEF r, a
<1>4. /\ WellFormed(r)
      /\ r.selected_view = w.selected_view
      /\ r.views = w.views \/ r.views = w.views \ {ViewOf(f)}
      /\ \A c \in Columns : c # w.column_of[f] => r.view_of[c] = w.view_of[c]
      /\ r.column_of = [w.column_of EXCEPT ![f] = None]
      /\ r.marked = w.marked
      /\ r.view_of[w.column_of[f]] # None => FramesIn(r, w.column_of[f]) # {}
      /\ ViewOf(f) \in r.views => ColumnsOf(r, ViewOf(f)) # {} \/ ViewOf(f) = r.selected_view
  BY <1>2, RemoveFrameWellFormed
<1>5. /\ KeepsSelection(w, r, {}, {f}) /\ FallsBack(w, r, {})
      /\ \A y \in Views : y # ViewOf(f) => r.selected_column[y] = w.selected_column[y]
  BY <1>2, RemoveFrameKeeps
<1>6. w.column_of \in [Frames -> OrNone(Columns)]
  BY DEF WellFormed, WellLinked, Graph
<1>7. f \in Frames \ LiveFrames(r)
  BY <1>1, <1>4, <1>6 DEF LiveFrames
<1>8. r.view_of[target] = ViewOf(f)
  BY <1>1, <1>4
<1>9. /\ WellFormed(a) /\ SameViews(r, a)
      /\ a.columns = r.columns /\ a.view_of = r.view_of
      /\ a.column_of = [r.column_of EXCEPT ![f] = target]
      /\ a.marked = r.marked
  BY <1>1, <1>2, <1>4, <1>7, <1>8, AddFrameAfterSelectedWellFormed
<1>10. /\ KeepsSelection(r, a, {}, {}) /\ FallsBack(r, a, {target})
       /\ FramesIn(r, target) = {} \/ target = SelectedColumn(r) => FallsBack(r, a, {})
  BY <1>1, <1>2, <1>4, <1>7, <1>8, AddFrameAfterSelectedKeeps
<1>11. f \in LiveFrames(a) /\ a.column_of[f] = target
  BY <1>1, <1>4, <1>6, <1>9, NoneIsNeither DEF LiveFrames
<1>12. KeepsSelection(w, a, {w.selected_view}, {f})
  <2>1. KeepsSelection(w, r, {w.selected_view}, {f})
    BY <1>5, KeepsMore
  <2>2. KeepsSelection(r, a, {w.selected_view}, {f})
    BY <1>10, KeepsMore
  <2>3. QED BY <2>1, <2>2, KeepsTwice
<1>13. FallsBack(w, a, {target})
  <2>1. FallsBack(w, r, {target})
    BY <1>5, FallsBackMore
  <2>2. QED BY <1>10, <2>1, FallsBackTwice
<1>14. a.selected_view = w.selected_view
  BY <1>4, <1>9 DEF SameViews
<1>15. /\ f \in LiveFrames(a) /\ ViewOf(f) = a.selected_view
       /\ a.selected_view \in {w.selected_view}
       /\ FallsBack(w, a, {a.column_of[f]})
  BY <1>11, <1>13, <1>14
<1>16. QED BY <1>3, <1>9, <1>12, <1>15, SelectPlacedKeeps

\* The same into a new column.
LEMMA MoveToNewColumnKeeps ==
  ASSUME NEW w, WellFormed(w), FreeColumns(w) # {}, NEW f \in LiveFrames(w),
         ViewOf(f) = w.selected_view,
         NEW i \in 1..(Len(w.columns[ViewOf(f)]) + 1),
         NEW u, u = MoveToNewColumn(w, f, i)
  PROVE  KeepsSelection(w, u, {w.selected_view}, {f}) /\ FallsBack(w, u, {})
<1> DEFINE v == ViewOf(f)
           col == NewColumn(w)
           m == CreateColumn(w, v, i, col)
<1>1. col \in FreeColumns(w)
  BY NewColumnIsFree
<1>2. v \in w.views
  BY FramesViewExists
<1>3. u = MoveToColumn(m, f, col)
  BY DEF MoveToNewColumn
<1> HIDE DEF col
<1>4. /\ WellFormed(m) /\ m.selected_view = w.selected_view
      /\ m.column_of = w.column_of /\ m.marked = w.marked
      /\ \A c \in Columns : m.view_of[c] = IF c = col THEN v ELSE w.view_of[c]
  BY <1>1, <1>2, CreateColumnWellFormed DEF SameFrames, SameViews
<1>5. KeepsSelection(w, m, {}, {}) /\ FallsBack(w, m, {})
  BY <1>1, <1>2, CreateColumnKeeps
<1> HIDE DEF m
<1>6. col \in ColumnsOf(m, ViewOf(f))
  BY <1>1, <1>4 DEF FreeColumns, ColumnsOf
<1>7. col # m.column_of[f]
  <2>1. w.view_of[w.column_of[f]] # None
    BY FramesColumn, NoneIsNeither
  <2>2. QED BY <1>1, <1>4, <2>1 DEF FreeColumns
<1>8. f \in LiveFrames(m)
  BY <1>4 DEF LiveFrames
<1>9. KeepsSelection(m, u, {m.selected_view}, {f}) /\ FallsBack(m, u, {})
  BY <1>3, <1>4, <1>6, <1>7, <1>8, MoveToColumnKeeps
<1>10. KeepsSelection(w, m, {w.selected_view}, {f})
  BY <1>5, KeepsMore
<1>11. QED BY <1>4, <1>5, <1>9, <1>10, KeepsTwice, FallsBackTwice

-----------------------------------------------------------------------------
(* The steps of the window manager.                                        *)

\* What a step may do to the selection: but for the view that was selected and the
\* one that is, and for frames that are gone, nothing; and the column that was
\* selected falls back if it is not selected any more.
SelectionStep(w, u) ==
  /\ KeepsSelection(w, u, {w.selected_view, u.selected_view}, Frames \ LiveFrames(u))
  /\ SelectedColumn(w) \in Columns => FellBack(u, SelectedColumn(w))

\* It is enough that the operations of the step say so.
LEMMA SelectionSteps ==
  ASSUME NEW w, NEW u, NEW V, NEW F, NEW C,
         KeepsSelection(w, u, V, F), V \subseteq {w.selected_view, u.selected_view},
         F \subseteq Frames \ LiveFrames(u),
         FallsBack(w, u, C), SelectedColumn(w) \notin C
  PROVE  SelectionStep(w, u)
<1>1. KeepsSelection(w, u, {w.selected_view, u.selected_view}, Frames \ LiveFrames(u))
  BY KeepsMore
<1>2. FellBack(w, SelectedColumn(w))
  BY DEF FellBack
<1>3. QED BY <1>1, <1>2 DEF SelectionStep, FallsBack

\* A step that leaves the selection and the histories alone.
LEMMA SameSelectionSteps ==
  ASSUME NEW w, NEW u, SameSelection(w, u)
  PROVE  SelectionStep(w, u)
<1>1. KeepsSelection(w, u, {}, {}) /\ FallsBack(w, u, {})
  BY SameSelectionKeeps
<1>2. QED BY <1>1, SelectionSteps

\* A frame that is exempted because it is moved need not be, in a view that is.
LEMMA OwnFrame ==
  ASSUME NEW w, WellFormed(w), NEW u, NEW f, NEW V, ViewOf(f) \in V,
         KeepsSelection(w, u, V, {f})
  PROVE  KeepsSelection(w, u, V, {})
<1> SUFFICES ASSUME NEW v \in Views \ V, SelectedFrameOfView(w, v) # None
             PROVE  SelectedFrameOfView(u, v) = SelectedFrameOfView(w, v)
  BY DEF KeepsSelection
<1>1. ViewOf(SelectedFrameOfView(w, v)) = v
  BY SelectedFrameIsLive DEF OrNone
<1>2. SelectedFrameOfView(w, v) # f
  BY <1>1
<1>3. QED BY <1>2 DEF KeepsSelection

\* The commands that only change what a frame or a view looks like.
LEMMA ToggleSameSelection ==
  ASSUME IInv, ToggleShaded \/ ToggleDecorated \/ ToggleMarked \/ ToggleBarVisible
  PROVE  SameSelection(wm, wm')
<1>1. wm \in Graph
  BY IInvGraph
<1>2. CASE ToggleShaded
  BY <1>1, <1>2 DEF ToggleShaded, OnSelectedFrame, Handle, ScheduleInputFocus, ScheduleColumn, ScheduleTask,
       Graph, SameSelection
<1>3. CASE ToggleDecorated
  BY <1>1, <1>3 DEF ToggleDecorated, OnSelectedFrame, Handle, ScheduleColumn, Graph, SameSelection
<1>4. CASE ToggleMarked
  BY <1>1, <1>4 DEF ToggleMarked, OnSelectedFrame, Handle, ScheduleDraw, ScheduleTask, Graph, SameSelection
<1>5. CASE ToggleBarVisible
  BY <1>1, <1>5 DEF ToggleBarVisible, Handle, ScheduleView, Graph, SameSelection
<1>6. QED BY <1>2, <1>3, <1>4, <1>5

\* MoveUp and MoveDown.
LEMMA MoveWithinSameSelection ==
  ASSUME IInv, MoveUp \/ MoveDown
  PROVE  SameSelection(wm, wm')
<1>1. \/ wm' = wm
      \/ \E f, i : wm' = Reposition(f, i)
  BY DEF MoveUp, MoveDown, OnSelectedFrame, Handle
<1>2. ASSUME NEW f, NEW i PROVE SameSelection(wm, Reposition(f, i))
  BY IInvGraph DEF Reposition, ScheduleColumn, Graph, SameSelection
<1>3. SameSelection(wm, wm)
  BY DEF SameSelection
<1>4. QED BY <1>1, <1>2, <1>3

\* The flush.
LEMMA FlushSameSelection ==
  ASSUME IInv, Flush
  PROVE  SameSelection(wm, wm')
BY IInvGraph DEF Flush, LayOutGraph, Graph, SameSelection

\* Whatever begins or ends a handler that loops, and new size hints.
LEMMA RestSameSelection ==
  ASSUME IInv,
         \/ \E c \in Clients : UpdateSizeHints(c) \/ UnmanageClient(c) \/ FinishUnmanage(c)
         \/ CopyMarkedFrames \/ MoveMarkedFrames \/ FinishMarked \/ UNCHANGED vars
  PROVE  SameSelection(wm, wm')
<1>1. wm \in Graph
  BY IInvGraph
<1>2. ASSUME NEW c \in Clients, UpdateSizeHints(c) PROVE SameSelection(wm, wm')
  BY <1>1, <1>2 DEF UpdateSizeHints, Handle, Graph, SameSelection
<1>3. ASSUME NEW c \in Clients, FinishUnmanage(c) PROVE SameSelection(wm, wm')
  BY <1>1, <1>3 DEF FinishUnmanage, Graph, SameSelection
<1>4. CASE wm' = wm
  BY <1>4 DEF SameSelection
<1>5. QED
  BY <1>2, <1>3, <1>4 DEF UnmanageClient, CopyMarkedFrames, MoveMarkedFrames, StartOnMarked, FinishMarked, vars

\* Selecting a frame of the selected view.
LEMMA SelectVisibleFrameKeeps ==
  ASSUME NEW w, WellFormed(w), NEW f \in LiveFrames(w), ViewOf(f) = w.selected_view,
         NEW u, u = SelectFrame(w, f)
  PROVE  KeepsSelection(w, u, {w.selected_view}, {}) /\ FallsBack(w, u, {})
BY SelectFrameKeeps

\* The visible frame of a client is in the selected view.
LEMMA VisibleFramesView ==
  ASSUME NEW w, NEW c, VisibleFrame(w, c) # None
  PROVE  ViewOf(VisibleFrame(w, c)) = w.selected_view
BY DEF VisibleFrame, ViewOf

\* A client is activated, or the pointer enters its frame.
LEMMA ActivateSelectionStep ==
  ASSUME IInv, NEW c \in Clients, ActivateClient(c) \/ EnterNotify(c)
  PROVE  SelectionStep(wm, wm')
<1> DEFINE f == VisibleFrame(wm, c)
           x == SelectFrame(wm, f)
<1>1. f # None /\ (wm' = x \/ wm' = HandleFrameActivity(x))
  BY DEF ActivateClient, EnterNotify, Handle
<1>2. f \in LiveFrames(wm) /\ ViewOf(f) = wm.selected_view
  BY <1>1, IInvGraph, VisibleFrameIsLive, VisibleFramesView
<1>3. x = SelectFrame(wm, f)
  OBVIOUS
<1> HIDE DEF f, x
<1>4. KeepsSelection(wm, x, {wm.selected_view}, {}) /\ FallsBack(wm, x, {})
  BY <1>2, <1>3, IInvGraph, SelectVisibleFrameKeeps
<1>5. WellFormed(x) /\ SameLinks(wm, x) /\ SameViews(wm, x)
  BY <1>2, <1>3, IInvGraph, SelectFrameWellFormed
<1>6. CASE wm' = x
  BY <1>4, <1>6, SelectionSteps
<1>7. CASE wm' = HandleFrameActivity(x)
  <2>1. KeepsSelection(x, wm', {}, {}) /\ FallsBack(x, wm', {})
    BY <1>5, <1>7, HandleFrameActivityKeeps
  <2>2. KeepsSelection(x, wm', {wm.selected_view}, {})
    BY <2>1, KeepsMore
  <2>3. KeepsSelection(wm, wm', {wm.selected_view}, {})
    BY <1>4, <2>2, KeepsTwice
  <2>4. FallsBack(wm, wm', {})
    BY <1>4, <2>1, FallsBackTwice
  <2>5. QED BY <2>3, <2>4, SelectionSteps
<1>8. QED BY <1>1, <1>6, <1>7

\* The activity timeout only writes histories.
LEMMA TimeoutSelectionStep ==
  ASSUME IInv, ActivityTimeout
  PROVE  SelectionStep(wm, wm')
<1> DEFINE w == [wm EXCEPT !.timer = FALSE]
<1>1. wm' = HandleFrameActivity(w)
  BY DEF ActivityTimeout, Handle
<1>2. Schedules(wm, w)
  <2>1. FALSE \in BOOLEAN
    OBVIOUS
  <2>2. QED BY <2>1, IInvGraph, NewTimer
<1> HIDE DEF w
<1>3. WellFormed(w)
  BY <1>2, IInvGraph, SchedulesWellFormed
<1>4. KeepsSelection(wm, w, {}, {}) /\ FallsBack(wm, w, {})
  BY <1>2, SchedulesKeeps
<1>5. KeepsSelection(w, wm', {}, {}) /\ FallsBack(w, wm', {})
  BY <1>1, <1>3, HandleFrameActivityKeeps
<1>6. KeepsSelection(wm, wm', {}, {}) /\ FallsBack(wm, wm', {})
  BY <1>4, <1>5, KeepsTwice, FallsBackTwice
<1>7. QED BY <1>6, SelectionSteps

\* SelectLeft and SelectRight.
LEMMA SelectBesideSelectionStep ==
  ASSUME IInv, SelectLeft \/ SelectRight
  PROVE  SelectionStep(wm, wm')
<1> DEFINE v == wm.selected_view
           col == SelectedColumn(wm)
           s == wm.columns[v]
<1>1. PICK next \in {Next1(s, col), Prior1(s, col)} :
        col # None /\ wm' = SelectColumn(wm, v, next)
  BY DEF SelectLeft, SelectRight, SelectBeside, Handle
<1>2. v \in Views /\ col \in ColumnsOf(wm, v)
  <2>1. v # None /\ col = wm.selected_column[v]
    BY <1>1 DEF SelectedColumn
  <2>2. v \in Views
    BY <2>1, IInvGraph DEF Graph, OrNone
  <2>3. QED BY <1>1, <2>1, <2>2, IInvGraph DEF WellFormed, Selection, Selects
<1>3. s \in Seq(Columns) /\ Enumerates(s, ColumnsOf(wm, v))
  BY <1>2, IInvGraph DEF WellLinked, Graph, Tree
<1>4. next \in OrNone(ColumnsOf(wm, v))
  BY <1>1, <1>2, <1>3, NeighboursProperties DEF OrNone
<1>5. NothingDangles(wm)
  BY IInvGraph, SelectionDoesNotDangle DEF WellFormed
<1> HIDE DEF s, col
<1>6. KeepsSelection(wm, wm', {v}, {}) /\ FallsBack(wm, wm', {})
  BY <1>1, <1>2, <1>4, <1>5, IInvGraph, SelectColumnKeeps
<1>7. QED BY <1>6, SelectionSteps

\* SelectUp, SelectDown and the next frame by activity in the column.
LEMMA SelectWithinSelectionStep ==
  ASSUME IInv, SelectUp \/ SelectDown \/ NextByActivityInColumn
  PROVE  SelectionStep(wm, wm')
<1> DEFINE f == SelectedFrame(wm)
           v == wm.selected_view
           col == SelectedColumn(wm)
<1>1. f # None
  BY DEF SelectUp, SelectDown, SelectWithin, NextByActivityInColumn, OnSelectedFrame
<1>2. f \in FramesIn(wm, col) /\ col \in Columns
  BY <1>1, IInvGraph, CurrentFrameIsLive
<1>3. wm.column_of[f] = col
  BY <1>2 DEF FramesIn
<1>4. PICK s \in {wm.frames[col], wm.column_activity[col]} :
      \E next \in {Next1(s, f), Prior1(s, f)} : wm' = SelectFrameInColumn(wm, col, next)
  BY <1>3 DEF SelectUp, SelectDown, SelectWithin, NextByActivityInColumn, OnSelectedFrame, Handle
<1>5. s \in Seq(Frames) /\ Enumerates(s, FramesIn(wm, col))
  BY <1>2, <1>4, IInvGraph DEF WellLinked, Graph, Tree, Histories
<1>6. PICK next \in FramesIn(wm, col) : wm' = SelectFrameInColumn(wm, col, next)
  BY <1>2, <1>4, <1>5, NeighboursProperties
<1>7. v \in Views /\ col \in ColumnsOf(wm, v) /\ next \in OrNone(Frames)
  <2>1. wm.selected_view \in OrNone(Views)
    BY IInvGraph DEF Graph
  <2>2. /\ v \in Views
        /\ wm.selected_column[v] \in ColumnsOf(wm, v)
        /\ SelectedFrameOfView(wm, v) \in LiveFrames(wm)
        /\ SelectedFrameOfView(wm, v) \in FramesIn(wm, wm.selected_column[v])
        /\ ViewOf(SelectedFrameOfView(wm, v)) = v
    BY <1>1, <2>1, IInvGraph, SelectedFrameIsLive DEF SelectedFrame
  <2>3. col = wm.selected_column[v]
    BY <2>2, NoneIsNeither DEF SelectedColumn
  <2>4. QED BY <2>2, <2>3 DEF FramesIn, OrNone
<1>8. NothingDangles(wm)
  BY IInvGraph, SelectionDoesNotDangle DEF WellFormed
<1> HIDE DEF f, v, col
<1>9. /\ KeepsSelection(wm, wm', {v}, {}) /\ FallsBack(wm, wm', {col})
      /\ col = SelectedColumn(wm) => FallsBack(wm, wm', {})
      /\ SelectedColumn(wm') = SelectedColumn(wm)
  <2>1. WellLinked(wm) /\ NothingDangles(wm)
    BY <1>8, IInvGraph
  <2>2. wm' = SelectFrameInColumn(wm, col, next)
    BY <1>6
  <2>3. QED BY <1>7, <2>1, <2>2, SelectFrameInColumnKeeps
<1>10. QED BY <1>9, SelectionSteps DEF v, col

\* The next frame by activity in the view.
LEMMA NextInViewSelectionStep ==
  ASSUME IInv, NextByActivityInView
  PROVE  SelectionStep(wm, wm')
<1> DEFINE f == SelectedFrame(wm)
           v == wm.selected_view
           next == Next1(wm.view_activity[v], f)
<1>1. f # None
  BY DEF NextByActivityInView, OnSelectedFrame
<1>2. f \in LiveFrames(wm) /\ ViewOf(f) = v /\ v \in Views
  BY <1>1, IInvGraph, CurrentFrameIsLive DEF Graph
<1>3. wm' = SelectFrame(wm, next)
  BY <1>2 DEF NextByActivityInView, OnSelectedFrame, Handle
<1>4. /\ wm.view_activity[v] \in Seq(Frames)
      /\ Enumerates(wm.view_activity[v], FramesOfView(wm, v))
  BY <1>2, IInvGraph DEF WellLinked, Graph, Histories
<1>5. f \in FramesOfView(wm, v)
  BY <1>2 DEF FramesOfView
<1>6. next \in FramesOfView(wm, v)
  BY <1>4, <1>5, NeighboursProperties
<1>7. next \in LiveFrames(wm) /\ ViewOf(next) = v
  BY <1>6 DEF FramesOfView
<1> HIDE DEF next
<1>8. KeepsSelection(wm, wm', {v}, {}) /\ FallsBack(wm, wm', {})
  BY <1>3, <1>7, IInvGraph, SelectVisibleFrameKeeps
<1>9. QED BY <1>8, SelectionSteps

\* The next frame by activity, which may be in another view: that view is left
\* with another frame selected, but then it is the one that is shown.
LEMMA NextByActivitySelectionStep ==
  ASSUME IInv, NextByActivity
  PROVE  SelectionStep(wm, wm')
<1> DEFINE f == SelectedFrame(wm)
           next == Next1(wm.activity, f)
           y == ViewOf(next)
           k == wm.column_of[next]
           w == SelectFrame(wm, next)
<1>1. f # None /\ wm' = SelectView(w, y)
  BY DEF NextByActivity, OnSelectedFrame, Handle
<1>2. f \in LiveFrames(wm)
  BY <1>1, IInvGraph, CurrentFrameIsLive
<1>3. wm.activity \in Seq(Frames) /\ Enumerates(wm.activity, LiveFrames(wm))
  BY IInvGraph DEF WellLinked, Graph, Histories
<1>4. next \in LiveFrames(wm)
  BY <1>2, <1>3, NeighboursProperties
<1>5. w = SelectFrame(wm, next)
  OBVIOUS
<1> HIDE DEF next, w
<1>6. WellFormed(w) /\ SameLinks(wm, w) /\ SameViews(wm, w)
  BY <1>4, <1>5, IInvGraph, SelectFrameWellFormed
<1>7. y \in w.views /\ y \in Views
  BY <1>4, <1>6, FramesViewExists, FrameParts DEF SameLinks, LiveFrames
<1>8. /\ KeepsSelection(wm, w, {y}, {})
      /\ FallsBack(wm, w, {k})
      /\ w.selected_column[y] = k
      /\ y = wm.selected_view => FallsBack(wm, w, {})
  BY <1>4, <1>5, IInvGraph, SelectFrameKeeps
<1>9. /\ KeepsSelection(w, wm', {w.selected_view}, {}) /\ FallsBack(w, wm', {})
      /\ SelectedColumn(wm') = w.selected_column[y]
  BY <1>1, <1>6, <1>7, SelectViewKeeps
<1>10. wm'.selected_view = y /\ w.selected_view = wm.selected_view
  BY <1>1, <1>6, <1>7, SelectViewWellFormed DEF SameViews
<1> DEFINE V == {wm.selected_view, wm'.selected_view}
<1>11. KeepsSelection(wm, wm', V, {})
  <2>1. KeepsSelection(wm, w, V, {})
    BY <1>8, <1>10, KeepsMore
  <2>2. KeepsSelection(w, wm', V, {})
    BY <1>9, <1>10, KeepsMore
  <2>3. QED BY <2>1, <2>2, KeepsTwice
<1>12. FallsBack(wm, wm', {})
  <2>1. FellBack(wm', k)
    BY <1>8, <1>9 DEF FellBack
  <2>2. FallsBack(wm, wm', {k})
    <3>1. FallsBack(w, wm', {k})
      BY <1>9, FallsBackMore
    <3>2. QED BY <1>8, <3>1, FallsBackTwice
  <2>3. QED BY <2>1, <2>2 DEF FallsBack
<1>13. QED BY <1>11, <1>12, SelectionSteps

\* MoveLeft and MoveRight.
LEMMA MoveAcrossSelectionStep ==
  ASSUME IInv, MoveLeft \/ MoveRight
  PROVE  SelectionStep(wm, wm')
<1> DEFINE f == SelectedFrame(wm)
           cols == wm.columns[ViewOf(f)]
           col == wm.column_of[f]
           i == Position(cols, col)
<1>1. f # None /\ FreeColumns(wm) # {}
  BY DEF MoveLeft, MoveRight, OnSelectedFrame
<1>2. f \in LiveFrames(wm) /\ ViewOf(f) = wm.selected_view
  BY <1>1, IInvGraph, CurrentFrameIsLive
<1>3. col \in ColumnsOf(wm, ViewOf(f)) /\ ViewOf(f) \in Views
  BY <1>2, IInvGraph, FramesColumn
<1>4. cols \in Seq(Columns) /\ Enumerates(cols, ColumnsOf(wm, ViewOf(f)))
  BY <1>3, IInvGraph DEF WellLinked, Graph, Tree
<1>5. /\ Len(cols) \in Nat /\ i \in 1..Len(cols) /\ cols[i] = col
      /\ \A j \in 1..Len(cols) : cols[j] \in ColumnsOf(wm, ViewOf(f))
  BY <1>3, <1>4, EnumerationProperties
<1>6. \/ i = 1 /\ wm' = MoveToNewColumn(wm, f, 1)
      \/ i # 1 /\ wm' = MoveToColumn(wm, f, cols[i - 1])
      \/ i = Len(cols) /\ wm' = MoveToNewColumn(wm, f, i + 1)
      \/ i # Len(cols) /\ wm' = MoveToColumn(wm, f, cols[i + 1])
  BY DEF MoveLeft, MoveRight, OnSelectedFrame, Handle
<1> HIDE DEF f, i, col
<1>7. KeepsSelection(wm, wm', {wm.selected_view}, {f}) /\ FallsBack(wm, wm', {})
  <2>1. CASE \E k \in {1, i + 1} : wm' = MoveToNewColumn(wm, f, k)
    <3>1. PICK k \in {1, i + 1} : wm' = MoveToNewColumn(wm, f, k)
      BY <2>1
    <3>2. k \in 1..(Len(cols) + 1)
      BY <1>5
    <3>3. QED BY <1>1, <1>2, <3>1, <3>2, IInvGraph, MoveToNewColumnKeeps
  <2>2. CASE \E k \in 1..Len(cols) : k # i /\ wm' = MoveToColumn(wm, f, cols[k])
    <3>1. PICK k \in 1..Len(cols) : k # i /\ wm' = MoveToColumn(wm, f, cols[k])
      BY <2>2
    <3>2. cols[k] # col /\ cols[k] \in ColumnsOf(wm, ViewOf(f))
      BY <1>4, <1>5, <3>1, EnumerationIsInjective
    <3>3. QED BY <1>2, <3>1, <3>2, IInvGraph, MoveToColumnKeeps DEF col
  <2>3. i # 1 => i - 1 \in 1..Len(cols) /\ i - 1 # i
    BY <1>5
  <2>4. i # Len(cols) => i + 1 \in 1..Len(cols) /\ i + 1 # i
    BY <1>5
  <2>5. QED BY <1>6, <2>1, <2>2, <2>3, <2>4
<1>8. KeepsSelection(wm, wm', {wm.selected_view}, {})
  BY <1>2, <1>7, IInvGraph, OwnFrame
<1>9. QED BY <1>7, <1>8, SelectionSteps

\* switch_to_view.
LEMMA SwitchToViewSelectionStep ==
  ASSUME IInv, NEW v \in Views, SwitchToView(v)
  PROVE  SelectionStep(wm, wm')
<1> DEFINE w == GetOrCreateView(wm, v)
<1>1. wm' = SelectView(w, v) /\ w = GetOrCreateView(wm, v)
  BY DEF SwitchToView, Handle
<1> HIDE DEF w
<1>2. /\ WellFormed(w) /\ SameLinks(wm, w)
      /\ w.views = wm.views \cup {v} /\ w.selected_view = wm.selected_view
  BY <1>1, IInvGraph, GetOrCreateViewWellFormed
<1>3. /\ SameSelection(wm, w) /\ KeepsSelection(wm, w, {}, {}) /\ FallsBack(wm, w, {})
  BY <1>1, IInvGraph, GetOrCreateViewKeeps
<1>4. /\ KeepsSelection(w, wm', {w.selected_view}, {}) /\ FallsBack(w, wm', {})
      /\ SelectedColumn(wm') = w.selected_column[v]
  BY <1>1, <1>2, SelectViewKeeps
<1>5. KeepsSelection(wm, wm', {wm.selected_view}, {})
  <2>1. KeepsSelection(wm, w, {wm.selected_view}, {})
    BY <1>3, KeepsMore
  <2>2. QED BY <1>2, <1>4, <2>1, KeepsTwice
<1>6. FallsBack(wm, wm', {})
  BY <1>3, <1>4, FallsBackTwice
<1>7. QED BY <1>5, <1>6, SelectionSteps

\* A frame is deleted.
LEMMA DeleteFrameKeeps ==
  ASSUME NEW w, WellFormed(w), NEW f \in LiveFrames(w), NEW u, u = DeleteFrame(w, f)
  PROVE  KeepsSelection(w, u, {}, {f}) /\ FallsBack(w, u, {})
<1> DEFINE r == RemoveFrame(w, f)
<1>1. r = RemoveFrame(w, f)
  OBVIOUS
<1>2. u = [r EXCEPT !.shaded = @ \ {f}, !.decorated = @ \ {f}, !.marked = @ \ {f}]
  BY DEF DeleteFrame
<1> HIDE DEF r
<1>3. /\ KeepsSelection(w, r, {}, {f}) /\ FallsBack(w, r, {})
      /\ \A y \in Views : y # ViewOf(f) => r.selected_column[y] = w.selected_column[y]
  BY <1>1, RemoveFrameKeeps
<1>4. r \in Graph
  <2>1. WellFormed(r)
    BY <1>1, RemoveFrameWellFormed
  <2>2. QED BY <2>1 DEF WellFormed, WellLinked
<1>5. SameSelection(r, u)
  BY <1>2, <1>4 DEF Graph, SameSelection
<1>6. KeepsSelection(r, u, {}, {f}) /\ FallsBack(r, u, {})
  BY <1>5, SameSelectionKeeps
<1>7. QED BY <1>3, <1>6, KeepsTwice, FallsBackTwice

\* remove_current_frame, and the frames of a client that goes.
LEMMA RemoveSelectionStep ==
  ASSUME IInv, RemoveCurrentFrame \/ \E f \in Frames : UnmanageFrame(f)
  PROVE  SelectionStep(wm, wm')
<1>1. PICK f \in LiveFrames(wm) : wm' = DeleteFrame(wm, f)
  BY IInvGraph, CurrentFrameIsLive DEF RemoveCurrentFrame, Handle, UnmanageFrame
<1>2. KeepsSelection(wm, wm', {}, {f}) /\ FallsBack(wm, wm', {})
  BY <1>1, IInvGraph, DeleteFrameKeeps
<1>3. wm'.column_of = [wm.column_of EXCEPT ![f] = None]
  BY <1>1, IInvGraph, DeleteFrameWellFormed
<1>4. f \in Frames /\ f \notin LiveFrames(wm')
  BY <1>1, <1>3, IInvGraph DEF Graph, LiveFrames
<1>5. QED BY <1>2, <1>4, SelectionSteps

\* A new frame enters a view.
LEMMA CopiedFrameKeeps ==
  ASSUME NEW w, WellFormed(w), NEW g \in Frames \ LiveFrames(w), ViewOf(g) \in w.views,
         NEW col \in FreeColumns(w),
         NEW u, u = PlaceInSmallestColumn(NewFrame(w, g), g, col)
  PROVE  /\ KeepsSelection(w, u, {}, {}) /\ FallsBack(w, u, {u.column_of[g]})
         /\ u.column_of[g] = SelectedColumn(w) => FallsBack(w, u, {})
<1> DEFINE n == NewFrame(w, g)
<1>1. Repaints(w, n) /\ n.marked = w.marked \ {g}
  <2>1. w \in Graph
    BY DEF WellFormed, WellLinked
  <2>2. QED BY <2>1, NewFrameEffect
<1>2. u = PlaceInSmallestColumn(n, g, col)
  OBVIOUS
<1> HIDE DEF n
<1>3. WellFormed(n)
  BY <1>1, RepaintsWellFormed
<1>4. /\ g \in Frames \ LiveFrames(n) /\ ViewOf(g) \in n.views /\ col \in FreeColumns(n)
      /\ SelectedColumn(n) = SelectedColumn(w)
  BY <1>1 DEF Repaints, SameViews, LiveFrames, FreeColumns, SelectedColumn
<1>5. KeepsSelection(w, n, {}, {}) /\ FallsBack(w, n, {})
  BY <1>1, RepaintsKeeps
<1> DEFINE k == u.column_of[g]
<1>6. /\ KeepsSelection(n, u, {}, {}) /\ FallsBack(n, u, {k})
      /\ FramesIn(n, k) = {} \/ k = SelectedColumn(n) => FallsBack(n, u, {})
      /\ k \in Columns
      /\ FramesIn(n, k) = {} \/ n.view_of[k] = ViewOf(g)
  BY <1>2, <1>3, <1>4, PlaceInSmallestColumnKeeps
<1> HIDE DEF k
<1>7. KeepsSelection(w, u, {}, {})
  BY <1>5, <1>6, KeepsTwice
<1>8. FallsBack(w, u, {k})
  <2>1. FallsBack(w, n, {k})
    BY <1>5, FallsBackMore
  <2>2. QED BY <1>6, <2>1, FallsBackTwice
<1>9. ASSUME k = SelectedColumn(w) PROVE FallsBack(w, u, {})
  BY <1>4, <1>5, <1>6, <1>9, FallsBackTwice
<1>10. QED BY <1>7, <1>8, <1>9 DEF k

\* A frame is carried from one view into another, where it may be placed in the
\* selected column: that one stays selected then.
LEMMA CarriedFrameKeeps ==
  ASSUME NEW w, WellFormed(w), NEW f \in LiveFrames(w),
         NEW v \in w.views, v # ViewOf(f) \/ v = w.selected_view,
         NEW r, r = RemoveFrame(w, f), FreeColumns(r) # {},
         NEW g \in Frames, ViewOf(g) = v, g \notin LiveFrames(r),
         NEW u, u = PlaceInSmallestColumn(CarryFrame(r, f, g), g, NewColumn(r))
  PROVE  /\ KeepsSelection(w, u, {}, {f}) /\ FallsBack(w, u, {u.column_of[g]})
         /\ v # ViewOf(f) /\ u.column_of[g] = SelectedColumn(w) => FallsBack(w, u, {})
<1> DEFINE n == CarryFrame(r, f, g)
           col == NewColumn(r)
<1>1. f \in Frames /\ w \in Graph /\ WellLinked(w) /\ v \in Views
  BY DEF LiveFrames, WellFormed, WellLinked, Graph
<1>2. /\ WellFormed(r)
      /\ r.selected_view = w.selected_view
      /\ r.views = w.views \/ r.views = w.views \ {ViewOf(f)}
      /\ \A c \in Columns : c # w.column_of[f] => r.view_of[c] = w.view_of[c]
      /\ r.column_of = [w.column_of EXCEPT ![f] = None]
      /\ r.marked = w.marked
      /\ r.view_of[w.column_of[f]] # None => FramesIn(r, w.column_of[f]) # {}
      /\ ViewOf(f) \in r.views => ColumnsOf(r, ViewOf(f)) # {} \/ ViewOf(f) = r.selected_view
  BY RemoveFrameWellFormed
<1>3. /\ KeepsSelection(w, r, {}, {f}) /\ FallsBack(w, r, {})
      /\ \A y \in Views : y # ViewOf(f) => r.selected_column[y] = w.selected_column[y]
  BY RemoveFrameKeeps
<1>4. v \in r.views
  BY <1>1, <1>2, NoneIsNeither DEF WellFormed, Selection, OrNone
<1>5. r \in Graph
  BY <1>2 DEF WellFormed, WellLinked
<1>6. Repaints(r, n) /\ n.marked = Rename(r.marked, f, g)
  BY <1>1, <1>5, CarryFrameEffect
<1>7. col \in FreeColumns(r)
  BY NewColumnIsFree
<1>8. u = PlaceInSmallestColumn(n, g, col)
  OBVIOUS
<1> HIDE DEF n, col
<1>9. WellFormed(n)
  BY <1>2, <1>6, RepaintsWellFormed
<1>10. /\ g \in Frames \ LiveFrames(n) /\ ViewOf(g) \in n.views /\ col \in FreeColumns(n)
       /\ SelectedColumn(n) = SelectedColumn(r)
       /\ \A c : FramesIn(n, c) = FramesIn(r, c)
       /\ n.view_of = r.view_of
  BY <1>4, <1>6, <1>7 DEF Repaints, SameViews, LiveFrames, FreeColumns, SelectedColumn, FramesIn
<1>11. KeepsSelection(r, n, {}, {}) /\ FallsBack(r, n, {})
  BY <1>6, RepaintsKeeps
<1> DEFINE k == u.column_of[g]
<1>12. /\ KeepsSelection(n, u, {}, {}) /\ FallsBack(n, u, {k})
       /\ FramesIn(n, k) = {} \/ k = SelectedColumn(n) => FallsBack(n, u, {})
       /\ k \in Columns
       /\ FramesIn(n, k) = {} \/ n.view_of[k] = ViewOf(g)
  BY <1>8, <1>9, <1>10, PlaceInSmallestColumnKeeps
<1> HIDE DEF k
<1>13. KeepsSelection(w, u, {}, {f})
  <2>1. KeepsSelection(r, n, {}, {f}) /\ KeepsSelection(n, u, {}, {f})
    BY <1>11, <1>12, KeepsMore
  <2>2. QED BY <1>3, <2>1, KeepsTwice
<1>14. FallsBack(w, n, {})
  BY <1>3, <1>11, FallsBackTwice
<1>15. FallsBack(w, u, {k})
  <2>1. FallsBack(w, n, {k})
    BY <1>14, FallsBackMore
  <2>2. QED BY <1>12, <2>1, FallsBackTwice
<1>16. ASSUME v # ViewOf(f), k = SelectedColumn(w) PROVE FallsBack(w, u, {})
  <2>1. FramesIn(n, k) = {} \/ k = SelectedColumn(n)
    <3> SUFFICES ASSUME FramesIn(n, k) # {} PROVE k = SelectedColumn(r)
      BY <1>10
    <3>1. PICK h \in FramesIn(r, k) : TRUE
      BY <1>10
    <3>2. h \in Frames /\ r.column_of[h] = k /\ k # None
      BY <1>12, <3>1, NoneIsNeither DEF FramesIn
    <3>3. w.column_of \in [Frames -> OrNone(Columns)]
      BY <1>1 DEF Graph
    <3>4. w.column_of[h] = k /\ h \in LiveFrames(w)
      BY <1>1, <1>2, <3>2, <3>3 DEF LiveFrames
    <3>5. w.view_of[k] = ViewOf(h)
      BY <3>4, FramesColumn
    <3>6. r.view_of[k] = ViewOf(h)
      <4>1. h \in LiveFrames(r)
        BY <3>2 DEF LiveFrames
      <4>2. WellFormed(r)
        BY <1>2
      <4>3. r.view_of[r.column_of[h]] = ViewOf(h)
        BY <4>1, <4>2, FramesColumn
      <4>4. QED BY <3>2, <4>3
    <3>7. w.view_of[k] = v
      BY <1>10, <1>12, <3>5, <3>6
    <3>8. w.selected_view \in Views /\ w.selected_column[w.selected_view] = k
      BY <1>1, <1>12, <1>16, NoneIsNeither DEF SelectedColumn, Graph, OrNone
    <3>9. w.view_of[k] = w.selected_view
      <4>1. NothingDangles(w)
        BY SelectionDoesNotDangle DEF WellFormed
      <4>2. k \in ColumnsOf(w, w.selected_view)
        BY <1>12, <3>8, <4>1, NoneIsNeither DEF NothingDangles, OrNone
      <4>3. QED BY <4>2 DEF ColumnsOf
    <3>10. r.selected_column[v] = k
      BY <1>1, <1>3, <1>16, <3>7, <3>8, <3>9
    <3>11. QED BY <1>1, <1>2, <3>7, <3>9, <3>10, NoneIsNeither DEF SelectedColumn
  <2>2. FallsBack(n, u, {})
    BY <1>12, <2>1
  <2>3. QED BY <1>14, <2>2, FallsBackTwice
<1>17. QED BY <1>13, <1>15, <1>16 DEF k

\* The menu's answer to "Move to view:".
LEMMA MoveFrameSelectionStep ==
  ASSUME IInv, NEW f \in Frames, NEW v \in Views, MoveFrameToView(f, v)
  PROVE  SelectionStep(wm, wm')
<1> DEFINE g == <<ClientOf(f), v>>
           w == GetOrCreateView(wm, v)
           r == RemoveFrame(w, f)
<1>1. /\ f \in LiveFrames(wm) /\ g \notin LiveFrames(wm) /\ FreeColumns(wm) # {}
      /\ wm' = PlaceInSmallestColumn(CarryFrame(r, f, g), g, NewColumn(r))
  BY DEF MoveFrameToView, Handle
<1>2. v # ViewOf(f)
  BY <1>1, FrameParts
<1>3. g \in Frames /\ ViewOf(g) = v
  BY FrameParts, PairIsFrame
<1>4. w = GetOrCreateView(wm, v) /\ r = RemoveFrame(w, f)
  OBVIOUS
<1>5. LiveFrames(wm') = (LiveFrames(wm) \ {f}) \cup {g}
  <2> HIDE DEF w, r
  <2> QED BY MoveFrameToViewStep
<1> HIDE DEF w, r, g
<1>6. /\ WellFormed(w) /\ SameLinks(wm, w)
      /\ w.views = wm.views \cup {v} /\ w.selected_view = wm.selected_view
  BY <1>4, IInvGraph, GetOrCreateViewWellFormed
<1>7. SameSelection(wm, w) /\ KeepsSelection(wm, w, {}, {}) /\ FallsBack(wm, w, {})
  BY <1>4, IInvGraph, GetOrCreateViewKeeps
<1>8. /\ LiveFrames(w) = LiveFrames(wm) /\ FreeColumns(w) = FreeColumns(wm)
      /\ SelectedColumn(w) = SelectedColumn(wm)
  BY <1>6, <1>7 DEF SameLinks, LiveFrames, FreeColumns, SameSelection, SelectedColumn
<1>9. /\ WellFormed(r)
      /\ r.selected_view = w.selected_view
      /\ r.views = w.views \/ r.views = w.views \ {ViewOf(f)}
      /\ \A c \in Columns : c # w.column_of[f] => r.view_of[c] = w.view_of[c]
      /\ r.column_of = [w.column_of EXCEPT ![f] = None]
      /\ r.marked = w.marked
      /\ r.view_of[w.column_of[f]] # None => FramesIn(r, w.column_of[f]) # {}
      /\ ViewOf(f) \in r.views => ColumnsOf(r, ViewOf(f)) # {} \/ ViewOf(f) = r.selected_view
  BY <1>1, <1>4, <1>6, <1>8, RemoveFrameWellFormed
<1>10. FreeColumns(r) # {}
  <2>1. PICK col \in Columns : w.view_of[col] = None
    BY <1>1, <1>8 DEF FreeColumns
  <2>2. w.view_of[w.column_of[f]] # None
    BY <1>1, <1>6, <1>8, FramesColumn, NoneIsNeither
  <2>3. QED BY <1>9, <2>1, <2>2 DEF FreeColumns
<1>11. g \notin LiveFrames(r)
  <2>1. w.column_of \in [Frames -> OrNone(Columns)]
    BY <1>6 DEF WellFormed, WellLinked, Graph
  <2>2. LiveFrames(r) \subseteq LiveFrames(w)
    BY <1>9, <2>1 DEF LiveFrames
  <2>3. QED BY <1>1, <1>8, <2>2
<1>12. f \in LiveFrames(w) /\ v \in w.views
  BY <1>1, <1>6, <1>8
<1> DEFINE k == wm'.column_of[g]
<1>13. /\ KeepsSelection(w, wm', {}, {f}) /\ FallsBack(w, wm', {k})
       /\ v # ViewOf(f) /\ k = SelectedColumn(w) => FallsBack(w, wm', {})
  BY <1>1, <1>2, <1>3, <1>4, <1>6, <1>10, <1>11, <1>12, CarriedFrameKeeps
<1> HIDE DEF k
<1>14. KeepsSelection(wm, wm', {}, {f})
  <2>1. KeepsSelection(wm, w, {}, {f})
    BY <1>7, KeepsMore
  <2>2. QED BY <1>13, <2>1, KeepsTwice
<1>15. f \notin LiveFrames(wm')
  BY <1>1, <1>5
<1>16. CASE k = SelectedColumn(wm)
  <2>1. FallsBack(wm, wm', {})
    BY <1>2, <1>7, <1>8, <1>13, <1>16, FallsBackTwice
  <2>2. QED BY <1>14, <1>15, <2>1, SelectionSteps
<1>17. CASE k # SelectedColumn(wm)
  <2>1. FallsBack(wm, w, {k})
    BY <1>7, FallsBackMore
  <2>2. FallsBack(wm, wm', {k})
    BY <1>13, <2>1, FallsBackTwice
  <2>3. QED BY <1>14, <1>15, <1>17, <2>2, SelectionSteps
<1>18. QED BY <1>16, <1>17

\* The menu's answer to "Copy to view:".
LEMMA CopyFrameSelectionStep ==
  ASSUME IInv, NEW f \in Frames, NEW v \in Views, CopyFrameToView(f, v)
  PROVE  SelectionStep(wm, wm')
<1> DEFINE g == <<ClientOf(f), v>>
           w == GetOrCreateView(wm, v)
           col == NewColumn(wm)
<1>1. /\ g \notin LiveFrames(wm) /\ FreeColumns(wm) # {}
      /\ wm' = PlaceInSmallestColumn(NewFrame(w, g), g, col)
  BY DEF CopyFrameToView, Handle
<1>2. g \in Frames /\ ViewOf(g) = v
  BY FrameParts, PairIsFrame
<1>3. w = GetOrCreateView(wm, v) /\ col \in FreeColumns(wm)
  BY <1>1, NewColumnIsFree
<1> HIDE DEF w, g, col
<1>4. /\ WellFormed(w) /\ SameLinks(wm, w)
      /\ w.views = wm.views \cup {v} /\ w.selected_view = wm.selected_view
  BY <1>3, IInvGraph, GetOrCreateViewWellFormed
<1>5. SameSelection(wm, w) /\ KeepsSelection(wm, w, {}, {}) /\ FallsBack(wm, w, {})
  BY <1>3, IInvGraph, GetOrCreateViewKeeps
<1>6. /\ LiveFrames(w) = LiveFrames(wm) /\ FreeColumns(w) = FreeColumns(wm)
      /\ SelectedColumn(w) = SelectedColumn(wm)
  BY <1>4, <1>5 DEF SameLinks, LiveFrames, FreeColumns, SameSelection, SelectedColumn
<1>7. g \in Frames \ LiveFrames(w) /\ ViewOf(g) \in w.views /\ col \in FreeColumns(w)
  BY <1>1, <1>2, <1>3, <1>4, <1>6
<1> DEFINE k == wm'.column_of[g]
<1>8. /\ KeepsSelection(w, wm', {}, {}) /\ FallsBack(w, wm', {k})
      /\ k = SelectedColumn(w) => FallsBack(w, wm', {})
  BY <1>1, <1>4, <1>7, CopiedFrameKeeps
<1> HIDE DEF k
<1>9. KeepsSelection(wm, wm', {}, {})
  BY <1>5, <1>8, KeepsTwice
<1>10. CASE k = SelectedColumn(wm)
  <2>1. FallsBack(wm, wm', {})
    BY <1>5, <1>6, <1>8, <1>10, FallsBackTwice
  <2>2. QED BY <1>9, <2>1, SelectionSteps
<1>11. CASE k # SelectedColumn(wm)
  <2>1. FallsBack(wm, w, {k})
    BY <1>5, FallsBackMore
  <2>2. FallsBack(wm, wm', {k})
    BY <1>8, <2>1, FallsBackTwice
  <2>3. QED BY <1>9, <1>11, <2>2, SelectionSteps
<1>12. QED BY <1>10, <1>11

\* Unmarking a frame.
LEMMA UnmarkKeeps ==
  ASSUME NEW w \in Graph, NEW f, NEW u, u = Unmark(w, f)
  PROVE  SameSelection(w, u) /\ KeepsSelection(w, u, {}, {}) /\ FallsBack(w, u, {})
<1>1. SameSelection(w, u)
  BY DEF Unmark, ScheduleDraw, ScheduleTask, Graph, SameSelection
<1>2. QED BY <1>1, SameSelectionKeeps

\* A marked frame's client is copied into the selected view.
LEMMA CopyMarkedSelectionStep ==
  ASSUME IInv, NEW f \in Frames, CopyMarked(f)
  PROVE  SelectionStep(wm, wm')
<1> DEFINE v == wm.selected_view
           g == <<ClientOf(f), v>>
           x == Unmark(wm, f)
           col == NewColumn(wm)
           p == PlaceInSmallestColumn(NewFrame(x, g), g, col)
<1>1. /\ handler.op = "copy_marked_frames" /\ IsFirstMarked(wm, f)
      /\ FreeColumns(wm) # {}
      /\ IF g \in LiveFrames(wm) THEN wm' = x ELSE wm' = SelectFrame(p, g)
  BY DEF CopyMarked
<1>2. v \in wm.views /\ v \in Views
  BY <1>1, MarkedFrame
<1>3. g \in Frames /\ ViewOf(g) = v
  BY <1>2, FrameParts, PairIsFrame
<1>4. col \in FreeColumns(wm) /\ x = Unmark(wm, f)
  BY <1>1, NewColumnIsFree
<1> HIDE DEF g, x, col
<1>5. /\ WellFormed(x) /\ SameViews(wm, x)
      /\ x.column_of = wm.column_of /\ x.view_of = wm.view_of
      /\ x.marked = wm.marked \ {f}
  BY <1>4, IInvGraph, UnmarkEffect
<1>6. SameSelection(wm, x) /\ KeepsSelection(wm, x, {}, {}) /\ FallsBack(wm, x, {})
  BY <1>4, IInvGraph, UnmarkKeeps
<1>7. CASE g \in LiveFrames(wm)
  BY <1>1, <1>6, <1>7, SameSelectionSteps
<1>8. CASE g \notin LiveFrames(wm)
  <2>1. /\ g \in Frames \ LiveFrames(x) /\ ViewOf(g) \in x.views /\ col \in FreeColumns(x)
        /\ x.selected_view = v /\ x.marked \subseteq LiveFrames(x)
    BY <1>2, <1>3, <1>4, <1>5, <1>8, IInvGraph DEF LiveFrames, FreeColumns, SameViews
  <2>2. p = PlaceInSmallestColumn(NewFrame(x, g), g, col)
    OBVIOUS
  <2> HIDE DEF p
  <2>3. /\ WellFormed(p)
        /\ p.selected_view = x.selected_view
        /\ LiveFrames(p) = LiveFrames(x) \cup {g}
        /\ p.marked \subseteq LiveFrames(p)
        /\ NoneEmptyBut(x, {}, {ViewOf(g)}) => NoneEmptyBut(p, {}, {})
    BY <1>5, <2>1, <2>2, CopiedFrameWellFormed
  <2>4. /\ KeepsSelection(x, p, {}, {}) /\ FallsBack(x, p, {p.column_of[g]})
        /\ p.column_of[g] = SelectedColumn(x) => FallsBack(x, p, {})
    BY <1>5, <2>1, <2>2, CopiedFrameKeeps
  <2>5. KeepsSelection(wm, p, {v}, {})
    <3>1. KeepsSelection(wm, p, {}, {})
      BY <1>6, <2>4, KeepsTwice
    <3>2. QED BY <3>1, KeepsMore
  <2>6. FallsBack(wm, p, {p.column_of[g]})
    <3>1. FallsBack(wm, x, {p.column_of[g]})
      BY <1>6, FallsBackMore
    <3>2. QED BY <2>4, <3>1, FallsBackTwice
  <2>7. /\ g \in LiveFrames(p) /\ ViewOf(g) = p.selected_view /\ p.selected_view \in {v}
        /\ wm' = SelectFrame(p, g)
    BY <1>1, <1>3, <1>8, <2>1, <2>3
  <2>8. KeepsSelection(wm, wm', {v}, {}) /\ FallsBack(wm, wm', {})
    BY <2>3, <2>5, <2>6, <2>7, SelectPlacedKeeps
  <2>9. QED BY <2>8, SelectionSteps
<1>9. QED BY <1>7, <1>8

\* A marked frame moves into the selected view, or is merged with the one there.
LEMMA MoveMarkedSelectionStep ==
  ASSUME IInv, NEW f \in Frames, MoveMarked(f)
  PROVE  SelectionStep(wm, wm')
<1> DEFINE v == wm.selected_view
           g == <<ClientOf(f), v>>
           x == Unmark(wm, f)
           r == RemoveFrame(x, f)
           p == PlaceInSmallestColumn(CarryFrame(r, f, g), g, NewColumn(r))
           merged == [r EXCEPT !.shaded = @ \ {f}, !.decorated = @ \ {f}]
<1>1. /\ handler.op = "move_marked_frames" /\ IsFirstMarked(wm, f)
      /\ FreeColumns(r) # {}
      /\ IF g \in LiveFrames(r) THEN wm' = merged ELSE wm' = SelectFrame(p, g)
  BY DEF MoveMarked
<1>2. f \in LiveFrames(wm) /\ v \in wm.views /\ v \in Views
  BY <1>1, MarkedFrame
<1>3. g \in Frames /\ ViewOf(g) = v
  BY <1>2, FrameParts, PairIsFrame
<1>4. LiveFrames(wm') = (LiveFrames(wm) \ {f}) \cup {g}
  <2> HIDE DEF p, merged
  <2> QED BY MoveMarkedStep
<1>5. x = Unmark(wm, f) /\ r = RemoveFrame(x, f)
  OBVIOUS
<1> HIDE DEF g, x
<1>6. /\ WellFormed(x) /\ SameViews(wm, x)
      /\ x.column_of = wm.column_of /\ x.view_of = wm.view_of
      /\ x.marked = wm.marked \ {f}
  BY <1>5, IInvGraph, UnmarkEffect
<1>7. SameSelection(wm, x) /\ KeepsSelection(wm, x, {}, {}) /\ FallsBack(wm, x, {})
  BY <1>5, IInvGraph, UnmarkKeeps
<1>8. /\ f \in LiveFrames(x) /\ v \in x.views /\ x.selected_view = v
      /\ x.marked \subseteq LiveFrames(x)
  BY <1>2, <1>6, IInvGraph DEF LiveFrames, SameViews
<1>9. KeepsSelection(wm, x, {}, {f})
  BY <1>7, KeepsMore
<1>10. CASE g \in LiveFrames(r)
  <2> HIDE DEF r
  <2>1. /\ KeepsSelection(x, r, {}, {f}) /\ FallsBack(x, r, {})
        /\ \A y \in Views : y # ViewOf(f) => r.selected_column[y] = x.selected_column[y]
    BY <1>5, <1>6, <1>8, RemoveFrameKeeps
  <2>2. /\ WellFormed(r)
        /\ r.selected_view = x.selected_view
        /\ r.views = x.views \/ r.views = x.views \ {ViewOf(f)}
        /\ \A c \in Columns : c # x.column_of[f] => r.view_of[c] = x.view_of[c]
        /\ r.column_of = [x.column_of EXCEPT ![f] = None]
        /\ r.marked = x.marked
        /\ r.view_of[x.column_of[f]] # None => FramesIn(r, x.column_of[f]) # {}
        /\ ViewOf(f) \in r.views => ColumnsOf(r, ViewOf(f)) # {} \/ ViewOf(f) = r.selected_view
    BY <1>5, <1>6, <1>8, RemoveFrameWellFormed
  <2>3. r \in Graph
    BY <2>2 DEF WellFormed, WellLinked
  <2>4. SameSelection(r, wm')
    BY <1>1, <1>10, <2>3 DEF Graph, SameSelection
  <2>5. KeepsSelection(r, wm', {}, {f}) /\ FallsBack(r, wm', {})
    BY <2>4, SameSelectionKeeps
  <2>6. KeepsSelection(wm, wm', {}, {f}) /\ FallsBack(wm, wm', {})
    <3>1. KeepsSelection(wm, r, {}, {f}) /\ FallsBack(wm, r, {})
      BY <1>7, <1>9, <2>1, KeepsTwice, FallsBackTwice
    <3>2. QED BY <2>5, <3>1, KeepsTwice, FallsBackTwice
  <2>7. f # g
    BY <1>6, <1>8, <1>10, <2>2 DEF LiveFrames, WellFormed, WellLinked, Graph
  <2>8. f \in Frames \ LiveFrames(wm')
    BY <1>4, <2>7
  <2>9. QED BY <2>6, <2>8, SelectionSteps
<1>11. CASE g \notin LiveFrames(r)
  <2>1. v # ViewOf(f) \/ v = x.selected_view
    BY <1>8
  <2>2. p = PlaceInSmallestColumn(CarryFrame(r, f, g), g, NewColumn(r))
    OBVIOUS
  <2>3. wm' = SelectFrame(p, g)
    BY <1>1, <1>11
  <2>4. FreeColumns(r) # {}
    BY <1>1
  <2> HIDE DEF p, r
  <2>5. /\ WellFormed(p)
        /\ p.selected_view = x.selected_view
        /\ LiveFrames(p) = (LiveFrames(x) \ {f}) \cup {g}
        /\ p.marked \subseteq LiveFrames(p)
        /\ NoneEmptyBut(x, {}, {v}) => NoneEmptyBut(p, {}, {})
    BY <1>3, <1>5, <1>6, <1>8, <1>11, <2>1, <2>2, <2>4, CarriedFrameWellFormed
  <2>6. /\ KeepsSelection(x, p, {}, {f}) /\ FallsBack(x, p, {p.column_of[g]})
        /\ v # ViewOf(f) /\ p.column_of[g] = SelectedColumn(x) => FallsBack(x, p, {})
    BY <1>3, <1>5, <1>6, <1>8, <1>11, <2>1, <2>2, <2>4, CarriedFrameKeeps, ZenonT(30)
  <2>7. KeepsSelection(wm, p, {v}, {f})
    <3>1. KeepsSelection(wm, p, {}, {f})
      BY <1>9, <2>6, KeepsTwice
    <3>2. QED BY <3>1, KeepsMore
  <2>8. FallsBack(wm, p, {p.column_of[g]})
    <3>1. FallsBack(wm, x, {p.column_of[g]})
      BY <1>7, FallsBackMore
    <3>2. QED BY <2>6, <3>1, FallsBackTwice
  <2>9. g \in LiveFrames(p) /\ ViewOf(g) = p.selected_view /\ p.selected_view \in {v}
    BY <1>3, <1>8, <2>5
  <2>10. KeepsSelection(wm, wm', {v}, {f}) /\ FallsBack(wm, wm', {})
    BY <2>3, <2>5, <2>7, <2>8, <2>9, SelectPlacedKeeps
  <2>11. CASE f = g
    <3>1. KeepsSelection(wm, wm', {v}, {})
      BY <1>3, <2>10, <2>11, IInvGraph, OwnFrame
    <3>2. QED BY <2>10, <3>1, SelectionSteps
  <2>12. CASE f # g
    <3>1. f \in Frames \ LiveFrames(wm')
      BY <1>4, <2>12
    <3>2. QED BY <2>10, <3>1, SelectionSteps
  <2>13. QED BY <2>11, <2>12
<1>12. QED BY <1>10, <1>11

\* A client is managed: its frame goes into the selected view, which is made for it
\* if there is none.
LEMMA PlaceClientKeeps ==
  ASSUME NEW w, WellFormed(w), NEW c \in Clients, FramesOf(w, c) = {}, NEW misc \in Views,
         NEW col \in FreeColumns(w),
         NEW u, u = PlaceClient(w, c, misc, col)
  PROVE  KeepsSelection(w, u, {w.selected_view, u.selected_view}, {}) /\ FallsBack(w, u, {})
<1> DEFINE s == IF w.selected_view = None THEN SelectView(NewView(w, misc), misc) ELSE w
           v == s.selected_view
           f == <<c, v>>
           widen == Len(s.columns[v]) < 2
           target == IF widen THEN col ELSE s.selected_column[v]
           i == After(s.columns[v], s.selected_column[v])
           m == IF widen THEN CreateColumn(s, v, i, col) ELSE s
           n == NewFrame(m, f)
           a == AddFrameAfterSelected(n, f, target)
           V == {w.selected_view, u.selected_view}
<1>0. w \in Graph
  BY DEF WellFormed, WellLinked
<1>1. u = SelectFrame(a, f)
  BY DEF PlaceClient
<1>2. /\ WellFormed(s) /\ SameLinks(w, s) /\ s.selected_view # None /\ s.selected_view \in s.views
      /\ KeepsSelection(w, s, {w.selected_view}, {}) /\ FallsBack(w, s, {})
  <2>1. CASE w.selected_view = None
    <3> DEFINE x == NewView(w, misc)
    <3>1. /\ WellFormed(x) /\ SameLinks(w, x)
          /\ x.views = w.views \cup {misc} /\ x.selected_view = w.selected_view
          /\ x.selected_column = w.selected_column
          /\ x.selected_frame = w.selected_frame
      BY NewViewWellFormed
    <3>2. SameSelection(w, x)
      BY <1>0 DEF NewView, Graph, SameSelection
    <3>3. s = SelectView(x, misc)
      BY <2>1
    <3> HIDE DEF x, s
    <3>4. misc \in x.views
      BY <3>1
    <3>5. /\ WellFormed(s) /\ SameLinks(x, s)
          /\ s.selected_view = misc
          /\ misc \in s.views /\ s.views \subseteq x.views
          /\ x.selected_view \in s.views =>
               ColumnsOf(s, x.selected_view) # {} \/ x.selected_view = misc
      BY <3>1, <3>3, <3>4, SelectViewWellFormed
    <3>6. /\ KeepsSelection(x, s, {x.selected_view}, {}) /\ FallsBack(x, s, {})
          /\ SelectedColumn(s) = x.selected_column[misc]
      BY <3>1, <3>3, <3>4, SelectViewKeeps
    <3>7. KeepsSelection(w, x, {w.selected_view}, {}) /\ FallsBack(w, x, {})
      BY <3>2, SameSelectionKeeps
    <3>8. KeepsSelection(w, s, {w.selected_view}, {}) /\ FallsBack(w, s, {})
      BY <3>1, <3>6, <3>7, KeepsTwice, FallsBackTwice
    <3>9. QED BY <3>1, <3>5, <3>8, NoneIsNeither DEF SameLinks
  <2>2. CASE w.selected_view # None
    <3>1. s = w
      BY <2>2
    <3>2. w.selected_view \in w.views
      BY <2>2 DEF WellFormed, Selection, OrNone
    <3> HIDE DEF s
    <3>3. KeepsSelection(w, w, {w.selected_view}, {}) /\ FallsBack(w, w, {})
      BY SameSelectionKeeps DEF SameSelection
    <3>4. QED BY <2>2, <3>1, <3>2, <3>3 DEF SameLinks
  <2>3. QED BY <2>1, <2>2
<1> HIDE DEF s
<1>3. /\ s \in Graph /\ WellLinked(s) /\ v \in Views /\ v \in s.views
      /\ s.columns[v] \in Seq(Columns) /\ Len(s.columns[v]) \in Nat
      /\ Enumerates(s.columns[v], ColumnsOf(s, v))
      /\ Selects(s.selected_column[v], ColumnsOf(s, v))
  <2>1. s \in Graph /\ WellLinked(s) /\ Selection(s) /\ Tree(s)
    BY <1>2 DEF WellFormed, WellLinked
  <2>2. v \in Views
    BY <1>2, <2>1 DEF Graph
  <2>3. s.columns[v] \in Seq(Columns)
    BY <2>1, <2>2 DEF Graph
  <2>4. QED BY <1>2, <2>1, <2>2, <2>3, LenProperties DEF Selection, Tree
<1>4. f \in Frames /\ ViewOf(f) = v /\ f \notin LiveFrames(s)
  <2>1. f \in Frames /\ ClientOf(f) = c /\ ViewOf(f) = v
    BY <1>3, PairIsFrame
  <2>2. LiveFrames(s) = LiveFrames(w)
    BY <1>2 DEF SameLinks, LiveFrames
  <2>3. QED BY <2>1, <2>2 DEF FramesOf
<1>5. /\ WellFormed(m) /\ SameViews(s, m) /\ SameFrames(s, m)
      /\ target \in Columns /\ m.view_of[target] = v
      /\ KeepsSelection(s, m, {}, {}) /\ FallsBack(s, m, {})
  <2>1. CASE widen
    <3>1. i \in 1..(Len(s.columns[v]) + 1)
      BY <1>3, AfterProperties, NoneIsNeither
    <3>2. m = CreateColumn(s, v, i, col) /\ target = col
      BY <2>1
    <3>3. col \in FreeColumns(s)
      BY <1>2 DEF SameLinks, FreeColumns
    <3> HIDE DEF i, m, v, target
    <3>4. /\ WellFormed(m) /\ SameViews(s, m) /\ SameFrames(s, m)
          /\ \A x \in Columns : m.view_of[x] = IF x = col THEN v ELSE s.view_of[x]
      BY <1>2, <1>3, <3>1, <3>2, <3>3, CreateColumnWellFormed
    <3>5. KeepsSelection(s, m, {}, {}) /\ FallsBack(s, m, {})
      BY <1>2, <1>3, <3>1, <3>2, <3>3, CreateColumnKeeps
    <3>6. col \in Columns
      BY DEF FreeColumns
    <3>7. QED BY <3>2, <3>4, <3>5, <3>6
  <2>2. CASE ~widen
    <3>1. s.columns[v] # <<>>
      <4>1. Len(s.columns[v]) # 0
        BY <1>3, <2>2
      <4>2. QED BY <4>1
    <3>2. s.selected_column[v] \in ColumnsOf(s, v)
      BY <1>3, <3>1, EnumerationProperties DEF Selects
    <3>3. m = s /\ target = s.selected_column[v]
      BY <2>2
    <3> HIDE DEF m, target
    <3>4. KeepsSelection(s, s, {}, {}) /\ FallsBack(s, s, {})
      BY SameSelectionKeeps DEF SameSelection
    <3>5. QED BY <1>2, <3>2, <3>3, <3>4 DEF ColumnsOf, SameViews, SameFrames
  <2>3. QED BY <2>1, <2>2
<1> HIDE DEF m, target
<1>6. WellFormed(n) /\ Repaints(m, n) /\ n.marked = m.marked \ {f}
  <2>1. m \in Graph
    BY <1>5 DEF WellFormed, WellLinked
  <2>2. QED BY <1>4, <1>5, <2>1, NewFrameEffect, RepaintsWellFormed
<1> HIDE DEF n
<1>7. f \in Frames \ LiveFrames(n) /\ n.view_of[target] = ViewOf(f)
  BY <1>4, <1>5, <1>6 DEF Repaints, LiveFrames, SameFrames
<1>8. KeepsSelection(m, n, {}, {}) /\ FallsBack(m, n, {})
  BY <1>6, RepaintsKeeps
<1>9. /\ WellFormed(a) /\ SameViews(n, a)
      /\ a.columns = n.columns /\ a.view_of = n.view_of
      /\ a.column_of = [n.column_of EXCEPT ![f] = target]
      /\ a.marked = n.marked
  BY <1>5, <1>6, <1>7, AddFrameAfterSelectedWellFormed
<1>10. /\ KeepsSelection(n, a, {}, {}) /\ FallsBack(n, a, {target})
       /\ FramesIn(n, target) = {} \/ target = SelectedColumn(n) => FallsBack(n, a, {})
  BY <1>5, <1>6, <1>7, AddFrameAfterSelectedKeeps
<1> HIDE DEF a
<1>11. f \in LiveFrames(a) /\ a.column_of[f] = target
  <2>1. n.column_of \in [Frames -> OrNone(Columns)]
    BY <1>6 DEF WellFormed, WellLinked, Graph
  <2>2. QED BY <1>4, <1>5, <1>9, <2>1, NoneIsNeither DEF LiveFrames
<1>12. a.selected_view = v
  BY <1>5, <1>6, <1>9 DEF SameViews, Repaints
<1>13. u.selected_view = v
  <2>1. ASSUME NEW h \in LiveFrames(a), u = SelectFrame(a, h) PROVE u.selected_view = v
    <3>1. WellFormed(u) /\ SameLinks(a, u) /\ SameViews(a, u)
      BY <1>9, <2>1, SelectFrameWellFormed
    <3>2. QED BY <1>12, <3>1 DEF SameViews
  <2>2. QED BY <1>1, <1>11, <2>1
<1>14. KeepsSelection(w, a, V, {})
  <2>1. KeepsSelection(w, s, V, {})
    BY <1>2, KeepsMore
  <2>2. KeepsSelection(s, m, V, {}) /\ KeepsSelection(m, n, V, {}) /\ KeepsSelection(n, a, V, {})
    BY <1>5, <1>8, <1>10, KeepsMore
  <2>3. QED BY <2>1, <2>2, KeepsTwice
<1>15. FallsBack(w, a, {target})
  <2>1. FallsBack(w, n, {})
    BY <1>2, <1>5, <1>8, FallsBackTwice
  <2>2. FallsBack(w, n, {target})
    BY <2>1, FallsBackMore
  <2>3. QED BY <1>10, <2>2, FallsBackTwice
<1>16. ViewOf(f) = a.selected_view /\ a.selected_view \in V /\ FallsBack(w, a, {a.column_of[f]})
  BY <1>4, <1>11, <1>12, <1>13, <1>15
<1> HIDE DEF f, V
<1>17. KeepsSelection(w, u, V, {}) /\ FallsBack(w, u, {})
  BY <1>1, <1>9, <1>11, <1>14, <1>16, SelectPlacedKeeps
<1>18. QED BY <1>17 DEF V

\* A client is managed.
LEMMA ManageClientSelectionStep ==
  ASSUME IInv, NEW c \in Clients, ManageClient(c)
  PROVE  SelectionStep(wm, wm')
<1> DEFINE col == NewColumn(wm)
<1>1. c \notin managed /\ handler = Idle /\ wm' = PlaceClient(wm, c, Misc, col)
  BY DEF ManageClient
<1>2. FramesOf(wm, c) = {}
  BY <1>1 DEF IInv, EveryClientIsReachable
<1>3. col \in FreeColumns(wm)
  BY NewColumnIsFree DEF ManageClient
<1> HIDE DEF col
<1>4. KeepsSelection(wm, wm', {wm.selected_view, wm'.selected_view}, {}) /\ FallsBack(wm, wm', {})
  BY <1>1, <1>2, <1>3, IInvGraph, MiscAssumption, PlaceClientKeeps
<1>5. QED BY <1>4, SelectionSteps

-----------------------------------------------------------------------------
(* Every step.                                                             *)

\* A step of the window manager does no more to the selection than it may.
LEMMA NextSelection ==
  ASSUME IInv, [Next]_vars
  PROVE  SelectionStep(wm, wm')
<1>1. CASE Environment
  <2>1. PICK c \in Clients : \/ ManageClient(c) \/ ActivateClient(c) \/ EnterNotify(c)
                             \/ UpdateSizeHints(c) \/ UnmanageClient(c)
    BY <1>1 DEF Environment
  <2>2. QED BY <2>1, ManageClientSelectionStep, ActivateSelectionStep, RestSameSelection,
               SameSelectionSteps
<1>2. CASE Command
  <2>1. CASE SelectLeft \/ SelectRight
    BY <2>1, SelectBesideSelectionStep
  <2>2. CASE SelectUp \/ SelectDown \/ NextByActivityInColumn
    BY <2>2, SelectWithinSelectionStep
  <2>3. CASE MoveLeft \/ MoveRight
    BY <2>3, MoveAcrossSelectionStep
  <2>4. CASE MoveUp \/ MoveDown
    BY <2>4, MoveWithinSameSelection, SameSelectionSteps
  <2>5. CASE ToggleShaded \/ ToggleDecorated \/ ToggleMarked \/ ToggleBarVisible
    BY <2>5, ToggleSameSelection, SameSelectionSteps
  <2>6. CASE \E v \in Views : SwitchToView(v)
    BY <2>6, SwitchToViewSelectionStep
  <2>7. CASE \E f \in Frames, v \in Views : MoveFrameToView(f, v) \/ CopyFrameToView(f, v)
    BY <2>7, MoveFrameSelectionStep, CopyFrameSelectionStep
  <2>8. CASE RemoveCurrentFrame
    BY <2>8, RemoveSelectionStep
  <2>9. CASE NextByActivityInView \/ NextByActivity
    BY <2>9, NextInViewSelectionStep, NextByActivitySelectionStep
  <2>10. CASE CopyMarkedFrames \/ MoveMarkedFrames
    BY <2>10, RestSameSelection, SameSelectionSteps
  <2>11. QED BY <1>2, <2>1, <2>2, <2>3, <2>4, <2>5, <2>6, <2>7, <2>8, <2>9, <2>10 DEF Command
<1>3. CASE ActivityTimeout
  BY <1>3, TimeoutSelectionStep
<1>4. CASE HandlerStep
  <2>1. CASE \E f \in Frames : UnmanageFrame(f) \/ CopyMarked(f) \/ MoveMarked(f)
    BY <2>1, RemoveSelectionStep, CopyMarkedSelectionStep, MoveMarkedSelectionStep
  <2>2. CASE (\E c \in Clients : FinishUnmanage(c)) \/ FinishMarked
    BY <2>2, RestSameSelection, SameSelectionSteps
  <2>3. QED BY <1>4, <2>1, <2>2 DEF HandlerStep
<1>5. CASE Flush
  BY <1>5, FlushSameSelection, SameSelectionSteps
<1>6. CASE UNCHANGED vars
  BY <1>6, RestSameSelection, SameSelectionSteps
<1>7. QED BY <1>1, <1>2, <1>3, <1>4, <1>5, <1>6 DEF Next

\* What happens in one view leaves what is selected in the others alone
\* (property OtherViewsKeepSelection).
THEOREM OtherViewsStaySelected == Spec => OtherViewsKeepSelection
<1>1. ASSUME IInv, [Next]_vars
      PROVE  \A v \in Views :
               /\ v \in wm.views \cap wm'.views
               /\ v \notin {wm.selected_view, wm'.selected_view}
               /\ SelectedFrameOfView(wm, v) # None
               /\ wm'.column_of[SelectedFrameOfView(wm, v)] # None
               => SelectedFrameOfView(wm', v) = SelectedFrameOfView(wm, v)
  <2> SUFFICES ASSUME NEW v \in Views, v \notin {wm.selected_view, wm'.selected_view},
                      SelectedFrameOfView(wm, v) # None,
                      wm'.column_of[SelectedFrameOfView(wm, v)] # None
               PROVE  SelectedFrameOfView(wm', v) = SelectedFrameOfView(wm, v)
    OBVIOUS
  <2>1. SelectionStep(wm, wm')
    BY <1>1, NextSelection
  <2>2. SelectedFrameOfView(wm, v) \notin Frames \ LiveFrames(wm')
    BY DEF LiveFrames
  <2>3. QED BY <2>1, <2>2 DEF SelectionStep, KeepsSelection
<1>2. QED BY <1>1, Invariant, PTL DEF Spec, OtherViewsKeepSelection

\* A column that loses the selection and survives selects its most recently active
\* frame (property LosingColumnFallsBack).
THEOREM LosingColumnsFallBack == Spec => LosingColumnFallsBack
<1>1. ASSUME IInv, IInv', [Next]_vars
      PROVE  \A col \in Columns :
               /\ col = SelectedColumn(wm) /\ col # SelectedColumn(wm')
               /\ wm'.view_of[col] # None
               => wm'.selected_frame[col] = Head(wm'.column_activity[col])
  <2> SUFFICES ASSUME NEW col \in Columns, col = SelectedColumn(wm), col # SelectedColumn(wm'),
                      wm'.view_of[col] # None
               PROVE  wm'.selected_frame[col] = Head(wm'.column_activity[col])
    OBVIOUS
  <2>1. SelectionStep(wm, wm')
    BY <1>1, NextSelection
  <2>2. wm'.selected_frame[col] \in {None, Head(wm'.column_activity[col])}
    BY <2>1 DEF SelectionStep, FellBack
  <2>3. WellFormed(wm') /\ NoneEmptyBut(wm', {}, {})
    BY <1>1 DEF IInv, GraphInv
  <2>4. FramesIn(wm', col) # {}
    BY <2>3 DEF NoneEmptyBut
  <2>5. wm'.selected_frame[col] # None
    BY <2>3, <2>4, NothingToSelect
  <2>6. QED BY <2>2, <2>5
<1>2. QED BY <1>1, Invariant, PTL DEF Spec, LosingColumnFallsBack

=============================================================================
