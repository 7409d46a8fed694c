-------------------------------- MODULE Tags --------------------------------
(***************************************************************************)
(* What a user sees of the window manager's views: each client carries a   *)
(* set of tags, the views it appears in, and one tag is the current one.   *)
(* A window that is open has a tag at all times, and loses all of them at  *)
(* once when it goes.                                                      *)
(***************************************************************************)
CONSTANTS
  Clients,  \* windows
  Views,    \* tags
  Misc,     \* the tag of the first window, when there is no current one
  None      \* no tag is current

VARIABLES
  open,     \* the windows that are open
  tags,     \* the tags of each window
  current   \* the tag whose windows are on the screen

TagsInit ==
  /\ open = {}
  /\ tags = [c \in Clients |-> {}]
  /\ current = None

\* A new window appears in the current view, or in the first one made.
Open(c) ==
  /\ c \notin open
  /\ open' = open \cup {c}
  /\ current' = IF current = None THEN Misc ELSE current
  /\ tags' = [tags EXCEPT ![c] = {current'}]

Close(c) ==
  /\ c \in open
  /\ open' = open \ {c}
  /\ tags' = [tags EXCEPT ![c] = {}]
  /\ UNCHANGED current

IsAtMostOne(S) == \A v, u \in S : v = u

\* The tags of one open window change, by one added, one dropped or one replaced
\* by another; it keeps at least one.
Retag(c, drop, add) ==
  /\ c \in open
  /\ IsAtMostOne(drop) /\ IsAtMostOne(add)
  /\ tags' = [tags EXCEPT ![c] = (@ \ drop) \cup add]
  /\ tags'[c] # {}
  /\ UNCHANGED <<open, current>>

Switch(v) ==
  /\ current' = v
  /\ UNCHANGED <<open, tags>>

TagsNext ==
  \/ \E c \in Clients :
       \/ Open(c)
       \/ Close(c)
       \/ \E drop, add \in SUBSET Views : Retag(c, drop, add)
  \/ \E v \in Views : Switch(v)

Spec == TagsInit /\ [][TagsNext]_<<open, tags, current>>
=============================================================================
