------------------------------ MODULE MCDesktop ------------------------------
(***************************************************************************)
(* Instances of Session, Tray and Applets.  A behaviour is about one part  *)
(* of the desktop:                                                         *)
(*   "icons"       the tray, with no applet yet                            *)
(*   "files"       the applets that watch a file                           *)
(*   "tags"        views, with one name for fullscreen views               *)
(*   "fullscreen"  fullscreen views of two clients, which compete for names*)
(*   "restart"     what is saved and found again                           *)
(***************************************************************************)
EXTENDS Session, Applets

CONSTANTS
  Parts,
  MaxBatch,     \* bound: handlers between two flushes of the views' bar
  MaxAge        \* bound: handlers between a save and the next, or the end

VARIABLES part, batch, age

idle == <<visible, tray, applets, bar>>
desktop == <<idle, sessionVars, part, batch, age>>

\* 1 is "a", 2 "a/x", 3 "a/x<1>" and 4 "b".
FullscreenOf == [v \in Views |-> IF v = 1 THEN <<2, 3>> ELSE <<>>]
OriginalOf == [v \in Views |-> IF v \in {2, 3} THEN 1 ELSE None]

\* Contents of the two files, the empty one among them.
ErcTexts == {<<>>, <<"t">>, <<"t", "u">>}
GnusTexts == {[g \in G |-> "t"] : G \in {{}, {2, 3}, {1, 3}}} \cup {[g \in {2} |-> "u"]}

-----------------------------------------------------------------------------
IconsPart == part = "icons" /\ TrayNext /\ UNCHANGED applets

Busy == {f \in Files : f \in open \/ queued[f] # <<>>}

\* Files that are deleted.
Unwatched == {f \in Files \ watching : ~ Contains(starting, <<"watch", f>>)}

\* One thing at a time happens to files and devices; no more than one file is deleted,
\* and no more than one icon docks, once the applets are there.  Drawing is left to the first part.
FilesPart ==
  /\ part = "files"
  /\ \/ AppletsNext /\ UNCHANGED <<network, battery>>
     \/ /\ \E w \in Icons : RequestDock(w) \/ HandleTrayOpcode
        /\ starting = <<>> /\ docked = {} /\ UNCHANGED applets
  /\ Busy # {} => Busy' \subseteq Busy /\ network' = network /\ events' = events
  /\ Unwatched # {} => Unwatched' = Unwatched

Few(views) == session'.tree.views \subseteq views

Come(c) == MapRequest(c) \/ \E destroyed \in BOOLEAN : Withdraw(c, destroyed)

\* Each part has the actions that matter to it.
In(parts) == part \in parts

ViewsPart ==
  /\ \/ In({"tags"}) /\ (SelectBesideView \/ ToggleBar)
     \/ In({"tags", "fullscreen"}) /\ SwitchToPrevious
     \/ In({"fullscreen"}) /\ TimerRuns
     \/ In({"fullscreen", "restart"}) /\ ToggleFullscreen
     \/ In({"tags"}) /\ RemoveCurrent
     \/ In({"tags", "fullscreen"}) /\ CopyToView(4)
     \/ In({"fullscreen"}) /\ MoveToView(4)
     \/ In({"tags", "restart"}) /\ \E v \in {1, 4} : SelectsView(v)
     \/ \E c \in Clients : Come(c)
     \/ In({"fullscreen"}) /\ \E c \in Clients :
          EnterWindow(c) \/ \E action \in {"add", "remove", "toggle"} : RequestFullscreen(c, action)
  /\ part # "fullscreen" => Few({1, 2, 4})

\* What is scheduled for the bar while views are saved and restored is left to
\* the other parts.
ViewsNext ==
  \/ /\ Handling /\ ViewsPart
     /\ batch < MaxBatch /\ age < MaxAge
     /\ batch' = IF part # "restart" /\ (session'.bar.update_server \/ session'.bar.draw)
                 THEN batch + 1 ELSE 0
     /\ age' = IF part = "restart" THEN age + 1 ELSE age
  \/ /\ FlushViews /\ part # "restart"
     /\ batch' = 0 /\ UNCHANGED age
  \/ /\ Loading
     /\ age' = IF phase' = "running" THEN 0 ELSE age
     /\ UNCHANGED batch
  \/ /\ Persistence /\ part = "restart"
     /\ age = 0 => Crash /\ windows' \subseteq windows
     /\ age' = 0 /\ UNCHANGED batch

DesktopInit ==
  /\ part \in Parts /\ batch = 0 /\ age = 0
  /\ SessionInit /\ TrayInit /\ AppletsInit
  /\ bar = NewBar("bottom")
  /\ visible = TRUE
  /\ battery = NoText
  /\ part # "files" => network = NoText

DesktopNext ==
  /\ \/ (IconsPart \/ FilesPart) /\ UNCHANGED <<sessionVars, batch, age>>
     \/ part \in {"tags", "fullscreen", "restart"} /\ ViewsNext /\ UNCHANGED idle
  /\ UNCHANGED part

DesktopSpec == DesktopInit /\ [][DesktopNext]_desktop

-----------------------------------------------------------------------------
(* As in MCWindowManager, columns are named by their places.  The lists of *)
(* all frames by activity are read by nothing here.                        *)
ColumnPlace(col) ==
  LET w == session.tree
      v == IF col = None THEN None ELSE w.view_of[col]
  IN IF v = None THEN None ELSE <<v, SelectInSeq(w.columns[v], LAMBDA other : other = col)>>

TreeByPlace ==
  LET w == session.tree
  IN <<[v \in Views |->
          [i \in DOMAIN w.columns[v] |->
             LET col == w.columns[v][i]
             IN <<w.frames[col], w.selected_frame[col], w.column_activity[col]>>]],
       [v \in Views |-> ColumnPlace(w.selected_column[v])],
       w.views, w.selected_view, w.bar_visible, w.shaded, w.decorated, w.timer>>

ViewOfDesktop ==
  <<idle, part, batch, age, TreeByPlace,
    IF part = "restart" THEN None ELSE <<session.bar, session.previous>>,
    windows, server, phase, pending, saved, expected>>

Symmetry == Permutations(Clients) \cup Permutations(Icons)
=============================================================================
