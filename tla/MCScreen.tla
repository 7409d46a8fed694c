------------------------------ MODULE MCScreen ------------------------------
(***************************************************************************)
(* Instances of WindowManager for what the screen shows.  Two kinds of     *)
(* states are small enough to go on from: those of two clients in two      *)
(* views, whose decorations and bar are as they were made, and those of    *)
(* three clients in one view, where one frame may be without decoration    *)
(* and the bar hidden.  In the first two handlers run in a row while no    *)
(* frame is shaded or no client copied.                                    *)
(***************************************************************************)
EXTENDS MCWindowManager

AsMade == LiveFrames(wm) \subseteq wm.decorated /\ wm.views \subseteq wm.bar_visible

Copied == \E c \in Clients : Cardinality(FramesOf(wm, c)) > 1

TwoViews ==
  /\ Cardinality(managed) <= 2
  /\ AsMade
  /\ batch > 1 => wm.shaded = {} \/ ~ Copied

OneView ==
  /\ wm.views \subseteq {Misc}
  /\ batch <= 1
  /\ Cardinality(LiveFrames(wm) \ wm.decorated) <= 1

Small == TwoViews \/ OneView
=============================================================================
