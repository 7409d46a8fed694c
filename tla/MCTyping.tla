------------------------------ MODULE MCTyping ------------------------------
(***************************************************************************)
(* Instances of Menu with three users: one edits a line with every key     *)
(* there is, the completions computed at once if at all; one types a       *)
(* little, while key sequences are begun and left and the completions are  *)
(* exposed; and one types a few keys ahead of completions that threads     *)
(* compute.                                                                *)
(***************************************************************************)
EXTENDS MCMenu

CONSTANT Users

VARIABLE user

KeysOf(who) ==
  CASE who = "edits" -> (MenuKeys \ {"abort"}) \cup {"open"}
    [] who = "begins sequences" -> {"a", "kill", "complete", "enter", "abort"} \cup RootKeys
    [] who = "waits for threads" -> {"a", "complete", "abort", "open"}

ModesOf(who) == IF who = "waits for threads" THEN {ByThread} ELSE {Plain, AtOnce}

Does(who) ==
  /\ Len(keys') > Len(keys) => Last(keys').key \in KeysOf(who)
  /\ ~ menu.active /\ menu'.active => menu'.mode \in ModesOf(who)
  /\ who # "begins sequences" => shown'.completions # Lost

UserInit == Init /\ user \in Users
UserNext == Next /\ Does(user) /\ UNCHANGED user
UserSpec == UserInit /\ [][UserNext]_<<vars, user>>

AllModes == {Plain, AtOnce, ByThread}
=============================================================================
