-------------------------- MODULE MCWindowManager ---------------------------
(***************************************************************************)
(* Small instances of WindowManager.                                       *)
(*                                                                         *)
(* Which member of the pool a column was allocated from means nothing, so  *)
(* the views below name a column by its view and its place there.  They    *)
(* also leave out where a frame window that is not mapped was: mapping it  *)
(* moves and draws it.                                                     *)
(***************************************************************************)
EXTENDS WindowManager

Place(col) ==
  LET v == IF col = None THEN None ELSE wm.view_of[col]
  IN IF v = None THEN None
     ELSE <<v, SelectInSeq(wm.columns[v], LAMBDA other : other = col)>>

OfColumns(Show(_)) ==
  [v \in Views |-> [i \in DOMAIN wm.columns[v] |-> Show(wm.columns[v][i])]]

GraphByPlace ==
  <<OfColumns(LAMBDA col : <<wm.frames[col], wm.selected_frame[col], wm.column_activity[col]>>),
    [v \in Views |-> Place(wm.selected_column[v])],
    [f \in Frames |-> Place(wm.column_of[f])],
    [wm EXCEPT !.columns = None, !.selected_column = None, !.view_of = None, !.frames = None,
               !.selected_frame = None, !.column_activity = None, !.column_of = None,
               !.todo_views = None, !.todo_columns = None, !.todo_clients = None,
               !.todo_root = None]>>

\* Everything the tree, and what is done to it, depends on.  Nothing reads the
\* screen back, and what is scheduled matters to the tree only when Flush shades
\* frames.
ViewOfTree == <<GraphByPlace, managed, handler, batch>>

OnScreen(F) == [c \in Clients |-> IF c \in screen.frame_mapped THEN F[c] ELSE None]

ViewOfWM ==
  <<ViewOfTree,
    OfColumns(LAMBDA col : <<col \in wm.todo_columns, screen.across[col]>>),
    wm.todo_views, wm.todo_clients, wm.todo_root,
    [screen EXCEPT !.across = None, !.placed = OnScreen(@), !.drawn = OnScreen(@)]>>

ClientSymmetry == Permutations(Clients)
=============================================================================
