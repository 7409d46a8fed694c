---------------------------- MODULE MenuProofs ----------------------------
(***************************************************************************)
(* Proofs about the menu: that the keyboard is given back, that its windows *)
(* show its input and its completions, and that completions which pass for  *)
(* valid are those of the input, however keys, delays and threads come.     *)
(***************************************************************************)
EXTENDS Menu, SeqLemmas

(***************************************************************************)
(* The inductive invariant.  It is stated of a call (Call) at any moment,   *)
(* so that what is to be shown of a handler is that each function it calls  *)
(* keeps it.                                                                *)
(***************************************************************************)
IsCompletions(c) ==
  /\ c = [list |-> c.list, common_prefix |-> c.common_prefix, selected |-> c.selected]
  /\ c.list = <<>> => c = NoCompletions

IsMenu(m) ==
  /\ m \in [active : BOOLEAN, mode : [completer : BOOLEAN, delay : BOOLEAN, thread : BOOLEAN],
            input : {m.input}, mark : {m.mark}, completions : {m.completions},
            valid : BOOLEAN, queued : Nat, delay : BOOLEAN, state : {m.state},
            expired : BOOLEAN, recompute : BOOLEAN, scheduled_update_server : BOOLEAN,
            scheduled_draw : BOOLEAN, keyboard_grabbed : BOOLEAN]
  /\ IsCompletions(m.completions)

IsCall(m) ==
  /\ m = [menu |-> m.menu, starts |-> m.starts, history |-> m.history]
  /\ m.history = [typed |-> m.history.typed, inputs |-> m.history.inputs]

\* Nothing is left of a menu that is closed, or that has no completer.
Clean(m) ==
  /\ ~ m.active => ~ m.mode.completer
  /\ ~ m.mode.completer => m.completions = NoCompletions /\ m.state = None /\ ~ m.delay

\* The keyboard is with the menu only while it is open, or will be updated.
HoldsKeyboard(m) ==
  /\ keyboard = "menu" => m.keyboard_grabbed
  /\ m.keyboard_grabbed => m.active \/ m.scheduled_update_server

\* Windows are mapped as they should be, or will be updated.
Mapped(m) ==
  ~ m.scheduled_update_server =>
    IF m.active THEN m.completions = NoCompletions <=> shown.completions = NoCompletions
    ELSE shown = Unmapped

\* The windows of an open menu show it, or will be drawn.
Drawn(m) ==
  m.active /\ ~ m.scheduled_update_server /\ ~ m.scheduled_draw =>
    shown = [menu |-> Face(m), completions |-> m.completions]

\* What holds whatever the input of the menu has just become.
Fits(m) == IsMenu(m) /\ Clean(m) /\ HoldsKeyboard(m) /\ Mapped(m)

\* These completions are those of one of these inputs.
Answers(c, inputs) == \E input \in inputs : c.list = Completer(input).list

\* A thread or a post whose state has not expired answers an input of the moment.
Awaited(m) ==
  m.menu.state # None /\ ~ m.menu.expired =>
    /\ \A t \in threads \cup m.starts : t.id = m.menu.state => t.input \in m.history.inputs
    /\ \A i \in DOMAIN posted :
         posted[i].id = m.menu.state => Answers(posted[i].completions, m.history.inputs)

Current(m) ==
  m.menu.mode.completer =>
    /\ m.menu.input \in m.history.inputs
    /\ m.menu.valid => Answers(m.menu.completions, m.history.inputs)
    /\ Awaited(m)

\* A call that would start a thread while no name is free does not return.
Named(m) == m.starts # {} => FreeIds # {}

Proper(m) == IsCall(m) /\ Fits(m.menu) /\ Drawn(m.menu) /\ (Named(m) => Current(m))

Presses == [window : {"menu"}, key : MenuKeys] \cup [window : {"root"}, key : RootKeys]

MenuInv ==
  /\ Proper(Call(menu))
  /\ keyboard \in {"menu", "root", None}
  /\ keyboard = "root" => pending
  /\ pending \in BOOLEAN
  /\ keys \in Seq(Presses)
  /\ shown = [menu |-> shown.menu, completions |-> shown.completions]
  /\ posted \in Seq(ToSet(posted))
  /\ \A i \in DOMAIN posted :
       posted[i].id \in StateIds /\ IsCompletions(posted[i].completions)

(***************************************************************************)
(* Lists of completions.                                                   *)
(***************************************************************************)

\* What a completer returns is a list, or nothing if it is empty.
LEMMA CompleterProperties ==
  ASSUME NEW input
  PROVE  IsCompletions(Completer(input))
BY DEF Completer, IsCompletions, NoCompletions

\* Going through a list neither changes nor ends it (ListCompletions::complete).
LEMMA CompleteProperties ==
  ASSUME NEW c, IsCompletions(c), c # NoCompletions, NEW input, NEW done, done = Complete(c, input)
  PROVE  /\ done.completions.list = c.list
         /\ done.completions # NoCompletions
         /\ IsCompletions(done.completions)
<1> DEFINE next == (c.selected % Len(c.list)) + 1
           prefix == Completion(LongestCommonPrefix(ToSet(c.list)))
           last == Completion(c.list[next])
<1>1. PICK d : d = [c EXCEPT !.common_prefix = FALSE]
  OBVIOUS
<1>2. PICK e : e = [c EXCEPT !.common_prefix = FALSE, !.selected = next]
  OBVIOUS
<1>3. \/ done = [input |-> prefix, again |-> TRUE, completions |-> d]
      \/ done = [input |-> last, again |-> FALSE, completions |-> e]
  BY <1>1, <1>2, Zenon DEF Complete
<1>4. c = [list |-> c.list, common_prefix |-> c.common_prefix, selected |-> c.selected]
      /\ c.list # <<>>
  BY DEF IsCompletions
<1> HIDE DEF next, prefix, last
<1>5. d = [list |-> c.list, common_prefix |-> FALSE, selected |-> c.selected]
  BY <1>1, <1>4
<1>6. e = [list |-> c.list, common_prefix |-> FALSE, selected |-> next]
  BY <1>2, <1>4
<1>7. done.completions \in {d, e}
  BY <1>3
<1>8. QED BY <1>4, <1>5, <1>6, <1>7 DEF IsCompletions, NoCompletions

(***************************************************************************)
(* What the functions of a call do.                                        *)
(***************************************************************************)

\* A change of the completion state alone.
SameButState(a, b) ==
  /\ b.active = a.active /\ b.mode = a.mode /\ b.input = a.input /\ b.mark = a.mark
  /\ b.queued = a.queued /\ b.delay = a.delay /\ b.completions = a.completions
  /\ b.valid = a.valid /\ b.keyboard_grabbed = a.keyboard_grabbed
  /\ b.scheduled_draw = a.scheduled_draw
  /\ b.scheduled_update_server = a.scheduled_update_server

\* The completion state of a menu with a completer has no part in what is shown.
LEMMA StateKeeps ==
  ASSUME NEW a, Fits(a), Drawn(a), a.mode.completer, NEW b, IsMenu(b), SameButState(a, b)
  PROVE  Fits(b) /\ Drawn(b)
BY DEF SameButState, Fits, Clean, HoldsKeyboard, Mapped, Drawn, Face

\* set_completions shows the completions it is given, those of an input of the moment.
LEMMA SetCompletions1Keeps ==
  ASSUME NEW m, Proper(m), m.menu.mode.completer, NEW c, IsCompletions(c),
         Named(m) => Answers(c, m.history.inputs), NEW n, n = SetCompletions1(m, c)
  PROVE  Proper(n) /\ n.starts = m.starts /\ n.menu.queued = m.menu.queued
<1>1. PICK a, b : a = m.menu /\ b = n.menu
  OBVIOUS
<1>2. /\ IsCall(n) /\ n.starts = m.starts /\ n.history = m.history
      /\ b = [a EXCEPT !.completions = c, !.valid = TRUE,
                       !.scheduled_draw = TRUE, !.scheduled_update_server = TRUE]
  BY <1>1 DEF SetCompletions1, Proper, IsCall
<1>3. /\ IsMenu(b)
      /\ b.completions = c /\ b.valid /\ b.scheduled_draw /\ b.scheduled_update_server
      /\ b.active = a.active /\ b.mode = a.mode /\ b.input = a.input /\ b.queued = a.queued
      /\ b.delay = a.delay /\ b.state = a.state /\ b.expired = a.expired
      /\ b.keyboard_grabbed = a.keyboard_grabbed
  <2>1. IsMenu(a)
    BY <1>1 DEF Proper, Fits
  <2>2. QED BY <1>2, <2>1 DEF IsMenu
<1>4. Fits(b) /\ Drawn(b)
  BY <1>1, <1>3 DEF Proper, Fits, Clean, HoldsKeyboard, Mapped, Drawn
<1>5. Named(n) => Current(n)
  BY <1>1, <1>2, <1>3 DEF Proper, Current, Awaited, Named
<1>6. QED BY <1>1, <1>2, <1>3, <1>4, <1>5 DEF Proper

\* What is asked of UpdateCompletions: a thread that starts works on the input of the
\* moment, and its name is that of no other answer.
LEMMA StartThreadKeeps ==
  ASSUME NEW m, Proper(m), m.menu.mode.completer, NEW n, n = StartThread(m)
  PROVE  Proper(n) /\ (Named(n) => Named(m)) /\ n.menu.queued = m.menu.queued
<1> DEFINE t == [id |-> FreshId, input |-> m.menu.input]
<1>1. PICK a, b : a = m.menu /\ b = n.menu
  OBVIOUS
<1>2. /\ IsCall(n) /\ n.starts = {t} /\ n.history = m.history
      /\ b = [a EXCEPT !.state = FreshId, !.expired = FALSE, !.recompute = FALSE]
  BY <1>1 DEF StartThread, Proper, IsCall
<1>3. ASSUME Named(n)
      PROVE  /\ Named(m)
             /\ \A u \in threads : u.id # FreshId
             /\ \A i \in DOMAIN posted : posted[i].id # FreshId
  BY <1>2, <1>3 DEF Named, FreshId, FreeIds
<1>4. /\ IsMenu(b) /\ b.state = FreshId
      /\ SameButState(a, b)
  <2>1. IsMenu(a)
    BY <1>1 DEF Proper, Fits
  <2>2. QED BY <1>2, <2>1 DEF IsMenu, SameButState
<1>5. Fits(b) /\ Drawn(b)
  BY <1>1, <1>4, StateKeeps DEF Proper
<1>6. Named(n) => Awaited(n)
  BY <1>1, <1>2, <1>3, <1>4 DEF Proper, Current, Awaited, SameButState
<1>7. Named(n) => Current(n)
  BY <1>1, <1>2, <1>3, <1>4, <1>6 DEF Proper, Current, SameButState
<1>8. QED BY <1>1, <1>2, <1>3, <1>4, <1>5, <1>7 DEF Proper, SameButState

\* Neither completions that are asked for anew nor those computed at once belong to
\* another input (MenuCompletion, from handle_input_changed).
LEMMA UpdateCompletionsKeeps ==
  ASSUME NEW m, Proper(m), m.menu.mode.completer, NEW n, n = UpdateCompletions(m)
  PROVE  Proper(n) /\ (Named(n) => Named(m)) /\ n.menu.queued = m.menu.queued
<1>1. CASE ~ m.menu.mode.thread
  <2>1. n = SetCompletions1(m, Completer(m.menu.input))
    BY <1>1 DEF UpdateCompletions
  <2>2. IsCompletions(Completer(m.menu.input))
    BY CompleterProperties
  <2>3. Named(m) => Answers(Completer(m.menu.input), m.history.inputs)
    BY DEF Proper, Current, Answers
  <2>4. Proper(n) /\ n.starts = m.starts /\ n.menu.queued = m.menu.queued
    BY <2>1, <2>2, <2>3, SetCompletions1Keeps
  <2>5. QED BY <2>4 DEF Named
<1>2. CASE m.menu.mode.thread /\ m.menu.state # None
  <2>1. n = [m EXCEPT !.menu.recompute = TRUE]
    BY <1>2 DEF UpdateCompletions
  <2>2. PICK a, b : a = m.menu /\ b = n.menu
    OBVIOUS
  <2>3. /\ IsCall(n) /\ n.starts = m.starts /\ n.history = m.history
        /\ b = [a EXCEPT !.recompute = TRUE]
    BY <2>1, <2>2 DEF Proper, IsCall
  <2>4. /\ IsMenu(b) /\ b.state = a.state /\ b.expired = a.expired
        /\ SameButState(a, b)
    <3>1. IsMenu(a)
      BY <2>2 DEF Proper, Fits
    <3>2. QED BY <2>3, <3>1 DEF IsMenu, SameButState
  <2>5. Fits(b) /\ Drawn(b)
    BY <2>2, <2>4, StateKeeps DEF Proper
  <2>6. Named(n) => Current(n)
    BY <2>2, <2>3, <2>4 DEF Proper, Current, Awaited, Named, SameButState
  <2>7. QED BY <2>2, <2>3, <2>4, <2>5, <2>6 DEF Proper, Named, SameButState
<1>3. CASE m.menu.mode.thread /\ ~ (m.menu.state # None)
  <2>1. n = StartThread(m)
    BY <1>3 DEF UpdateCompletions
  <2>2. QED BY <2>1, StartThreadKeeps
<1>4. QED BY <1>1, <1>2, <1>3

\* handle_input_changed: whatever the input has become, it is drawn, and completions
\* for another one are neither valid nor awaited.
LEMMA InputChangedKeeps ==
  ASSUME NEW m, IsCall(m), Fits(m.menu), NEW n, n = HandleInputChanged(Typed(m))
  PROVE  Proper(n) /\ (Named(n) => Named(m)) /\ n.menu.queued = m.menu.queued
<1>1. PICK k : k = Typed(m)
  OBVIOUS
<1>2. PICK a : a = m.menu /\ Fits(a) /\ IsMenu(a)
  BY DEF Fits
<1>3. /\ IsCall(k) /\ k.starts = m.starts /\ k.menu = a
      /\ a.mode.completer => k.history.inputs = {a.input}
  BY <1>1, <1>2 DEF Typed, IsCall
<1>4. CASE ~ a.mode.completer
  <2>1. n = [k EXCEPT !.menu.scheduled_draw = TRUE]
    BY <1>1, <1>3, <1>4 DEF HandleInputChanged
  <2>2. PICK b : b = n.menu
    OBVIOUS
  <2>3. /\ IsCall(n) /\ n.starts = m.starts
        /\ b = [a EXCEPT !.scheduled_draw = TRUE]
    BY <1>3, <2>1, <2>2 DEF IsCall
  <2>4. /\ IsMenu(b) /\ b.scheduled_draw
        /\ b.active = a.active /\ b.mode = a.mode /\ b.state = a.state /\ b.queued = a.queued
        /\ b.delay = a.delay /\ b.completions = a.completions
        /\ b.keyboard_grabbed = a.keyboard_grabbed
        /\ b.scheduled_update_server = a.scheduled_update_server
    BY ZenonT(60), <1>2, <2>3 DEF IsMenu
  <2>5. Fits(b) /\ Drawn(b)
    BY <1>2, <2>4 DEF Fits, Clean, HoldsKeyboard, Mapped, Drawn
  <2>6. Current(n)
    BY <1>4, <2>2, <2>4 DEF Current
  <2>7. QED BY <1>2, <2>2, <2>3, <2>4, <2>5, <2>6 DEF Proper, Named
<1>5. CASE a.mode.completer
  <2>1. PICK v : v = [k EXCEPT !.menu.scheduled_draw = TRUE, !.menu.valid = FALSE,
                               !.menu.expired = (k.menu.state # None)]
    OBVIOUS
  <2>2. PICK b : b = v.menu
    OBVIOUS
  <2>3. /\ IsCall(v) /\ v.starts = m.starts /\ v.history = k.history
        /\ b = [a EXCEPT !.scheduled_draw = TRUE, !.valid = FALSE, !.expired = (a.state # None)]
    BY <1>3, <2>1, <2>2 DEF IsCall
  <2>4. PICK e \in BOOLEAN : e = (a.state # None)
    OBVIOUS
  <2>5. /\ IsMenu(b) /\ b.scheduled_draw /\ ~ b.valid
        /\ b.expired = e
        /\ b.active = a.active /\ b.mode = a.mode /\ b.state = a.state
        /\ b.queued = a.queued /\ b.delay = a.delay /\ b.input = a.input
        /\ b.completions = a.completions /\ b.keyboard_grabbed = a.keyboard_grabbed
        /\ b.scheduled_update_server = a.scheduled_update_server
    BY ZenonT(60), <1>2, <2>3, <2>4 DEF IsMenu
  <2>6. Fits(b) /\ Drawn(b)
    BY <1>2, <2>5 DEF Fits, Clean, HoldsKeyboard, Mapped, Drawn
  <2>7. Current(v)
    BY ZenonT(60), <1>3, <1>5, <2>2, <2>3, <2>5, <2>4 DEF Current, Awaited
  <2>8. Proper(v)
    BY <2>2, <2>3, <2>6, <2>7 DEF Proper
  <2>9. CASE a.mode.delay
    <3>1. n = [v EXCEPT !.menu.delay = TRUE]
      BY <1>1, <1>3, <1>5, <2>1, <2>9 DEF HandleInputChanged
    <3>2. PICK d : d = n.menu
      OBVIOUS
    <3>3. /\ IsCall(n) /\ n.starts = m.starts /\ n.history = v.history
          /\ d = [b EXCEPT !.delay = TRUE]
      BY <2>2, <2>3, <3>1, <3>2 DEF IsCall
    <3>4. /\ IsMenu(d)
          /\ d.active = b.active /\ d.mode = b.mode /\ d.state = b.state /\ d.mark = b.mark
          /\ d.queued = b.queued /\ d.input = b.input /\ d.valid = b.valid
          /\ d.expired = b.expired
          /\ d.completions = b.completions /\ d.keyboard_grabbed = b.keyboard_grabbed
          /\ d.scheduled_update_server = b.scheduled_update_server
          /\ d.scheduled_draw = b.scheduled_draw
      BY <2>5, <3>3 DEF IsMenu
    <3>5. Fits(d) /\ Drawn(d)
      BY <1>5, <2>5, <2>6, <3>4 DEF Fits, Clean, HoldsKeyboard, Mapped, Drawn, Face
    <3>6. Current(n)
      BY <2>2, <2>3, <2>7, <3>2, <3>3, <3>4 DEF Current, Awaited
    <3>7. QED BY <1>2, <2>5, <3>2, <3>3, <3>4, <3>5, <3>6 DEF Proper, Named
  <2>10. CASE ~ a.mode.delay
    <3>1. n = UpdateCompletions(v)
      BY <1>1, <1>3, <1>5, <2>1, <2>10 DEF HandleInputChanged
    <3>2. Proper(n) /\ (Named(n) => Named(v)) /\ n.menu.queued = v.menu.queued
      BY <1>5, <2>2, <2>5, <2>8, <3>1, UpdateCompletionsKeeps
    <3>3. QED BY <1>2, <2>2, <2>3, <2>5, <3>2 DEF Named
  <2>11. QED BY <2>9, <2>10
<1>6. QED BY <1>4, <1>5

\* perform_completion, whose input is computed for again if it is only a prefix.
LEMMA PerformCompletionKeeps ==
  ASSUME NEW m, Proper(m), NEW n, n = PerformCompletion(m)
  PROVE  Proper(n) /\ (Named(n) => Named(m)) /\ n.menu.queued = m.menu.queued
<1>1. CASE m.menu.completions = NoCompletions
  <2>1. n = m
    BY <1>1 DEF PerformCompletion
  <2>2. QED BY <2>1
<1>2. CASE m.menu.completions # NoCompletions
  <2> DEFINE done == Complete(m.menu.completions, m.menu.input)
             k == [m EXCEPT !.menu.input = done.input, !.menu.completions = done.completions,
                            !.history.inputs = @ \cup {done.input}]
             told == IF done.again THEN HandleInputChanged(Typed(k)) ELSE k
  <2>4. n = [told EXCEPT !.menu.scheduled_draw = TRUE, !.menu.mark = NoMark]
    BY <1>2, Zenon DEF PerformCompletion
  <2>3. told = IF done.again THEN HandleInputChanged(Typed(k)) ELSE k
    OBVIOUS
  <2> HIDE DEF told
  <2>2. k = [m EXCEPT !.menu.input = done.input, !.menu.completions = done.completions,
                      !.history.inputs = @ \cup {done.input}]
    OBVIOUS
  <2> HIDE DEF k
  <2>1. done = Complete(m.menu.completions, m.menu.input)
    OBVIOUS
  <2> HIDE DEF done
  <2>5. PICK a, b, c, d : a = m.menu /\ b = k.menu /\ c = told.menu /\ d = n.menu
    OBVIOUS
  <2>6. /\ IsCall(k) /\ k.starts = m.starts
        /\ k.history.inputs = m.history.inputs \cup {done.input}
        /\ b = [a EXCEPT !.input = done.input, !.completions = done.completions]
    BY <2>2, <2>5 DEF Proper, IsCall
  <2>7. /\ Fits(b) /\ b.completions.list = a.completions.list
        /\ b.input = done.input /\ b.valid = a.valid /\ b.state = a.state
        /\ b.queued = a.queued /\ b.expired = a.expired /\ b.mode = a.mode
    <3>1. IsMenu(a) /\ IsCompletions(a.completions) /\ Fits(a)
      BY <2>5 DEF Proper, Fits, IsMenu
    <3>2. /\ done.completions.list = a.completions.list
          /\ done.completions # NoCompletions
          /\ IsCompletions(done.completions)
      BY <1>2, <2>1, <2>5, <3>1, CompleteProperties
    <3>3. /\ IsMenu(b)
          /\ b.completions = done.completions /\ b.input = done.input
          /\ b.active = a.active /\ b.mode = a.mode /\ b.valid = a.valid
          /\ b.queued = a.queued /\ b.delay = a.delay /\ b.state = a.state
          /\ b.expired = a.expired /\ b.keyboard_grabbed = a.keyboard_grabbed
          /\ b.scheduled_draw = a.scheduled_draw
          /\ b.scheduled_update_server = a.scheduled_update_server
      BY <2>6, <3>1, <3>2 DEF IsMenu
    <3>4. a.completions # NoCompletions
      BY <1>2, <2>5
    <3>5. Fits(b)
      BY <3>1, <3>2, <3>3, <3>4 DEF Fits, Clean, HoldsKeyboard, Mapped
    <3>6. QED BY <3>2, <3>3, <3>5
  <2>8. /\ IsCall(told) /\ (Named(told) => Named(m))
        /\ Fits(c) /\ (Named(told) => Current(told)) /\ c.queued = a.queued
    <3>1. CASE done.again
      <4>1. told = HandleInputChanged(Typed(k))
        BY <2>3, <3>1
      <4>2. Proper(told) /\ (Named(told) => Named(k)) /\ told.menu.queued = k.menu.queued
        BY ZenonT(60), <2>5, <2>6, <2>7, <4>1, InputChangedKeeps
      <4>3. QED BY <2>5, <2>6, <2>7, <4>2 DEF Named, Proper
    <3>2. CASE ~ done.again
      <4>1. told = k /\ c = b
        BY <2>3, <2>5, <3>2
      <4>2. Named(k) => Current(k)
        BY <2>5, <2>6, <2>7 DEF Proper, Named, Current, Awaited, Answers
      <4>3. QED BY <2>6, <2>7, <4>1, <4>2 DEF Named
    <3>3. QED BY <3>1, <3>2
  <2>9. /\ IsCall(n) /\ n.starts = told.starts /\ n.history = told.history
        /\ d = [c EXCEPT !.scheduled_draw = TRUE, !.mark = NoMark]
    BY <2>4, <2>5, <2>8 DEF IsCall
  <2>10. /\ IsMenu(d) /\ d.scheduled_draw
         /\ d.active = c.active /\ d.mode = c.mode /\ d.valid = c.valid /\ d.input = c.input
         /\ d.queued = c.queued /\ d.delay = c.delay /\ d.state = c.state
         /\ d.completions = c.completions /\ d.expired = c.expired
         /\ d.keyboard_grabbed = c.keyboard_grabbed
         /\ d.scheduled_update_server = c.scheduled_update_server
    BY <2>8, <2>9 DEF Fits, IsMenu
  <2>11. Fits(d) /\ Drawn(d)
    BY <2>8, <2>10 DEF Fits, Clean, HoldsKeyboard, Mapped, Drawn
  <2>12. Named(n) => Current(n)
    BY <2>5, <2>8, <2>9, <2>10 DEF Current, Awaited, Named
  <2>13. QED BY <2>5, <2>8, <2>9, <2>10, <2>11, <2>12 DEF Proper, Named
<1>3. QED BY <1>1, <1>2

\* One of the completions asked for meanwhile is performed.
LEMMA PerformQueuedKeeps ==
  ASSUME NEW m, Proper(m), m.menu.queued # 0, NEW n, n = PerformQueued(m)
  PROVE  Proper(n) /\ (Named(n) => Named(m)) /\ n.menu.queued = m.menu.queued - 1
<1>1. PICK k : k = [m EXCEPT !.menu.queued = @ - 1]
  OBVIOUS
<1>2. n = PerformCompletion(k)
  BY <1>1 DEF PerformQueued
<1>3. PICK a, b : a = m.menu /\ b = k.menu
  OBVIOUS
<1>4. /\ IsCall(k) /\ k.starts = m.starts /\ k.history = m.history
      /\ b = [a EXCEPT !.queued = a.queued - 1]
  BY <1>1, <1>3 DEF Proper, IsCall
<1>5. IsMenu(a)
  BY <1>3 DEF Proper, Fits
<1>6. /\ IsMenu(b) /\ b.queued = a.queued - 1
      /\ b.active = a.active /\ b.mode = a.mode /\ b.valid = a.valid /\ b.input = a.input
      /\ b.mark = a.mark /\ b.delay = a.delay /\ b.state = a.state
      /\ b.completions = a.completions /\ b.expired = a.expired
      /\ b.keyboard_grabbed = a.keyboard_grabbed
      /\ b.scheduled_draw = a.scheduled_draw
      /\ b.scheduled_update_server = a.scheduled_update_server
  BY <1>3, <1>4, <1>5 DEF IsMenu
<1>7. Fits(b) /\ Drawn(b)
  BY <1>3, <1>6 DEF Proper, Fits, Clean, HoldsKeyboard, Mapped, Drawn, Face
<1>8. Named(k) => Current(k)
  BY <1>3, <1>4, <1>6 DEF Proper, Current, Awaited, Named
<1>9. Proper(k)
  BY <1>3, <1>4, <1>7, <1>8 DEF Proper
<1>10. Proper(n) /\ (Named(n) => Named(k)) /\ n.menu.queued = k.menu.queued
  BY <1>2, <1>9, PerformCompletionKeeps
<1>11. QED BY <1>3, <1>4, <1>6, <1>10 DEF Named

\* The loop of set_completions over the completions asked for, as a function of how many
\* it has performed.
PerformsQueue(f, first, size) ==
  f = [i \in 0..size |-> IF i = 0 THEN first ELSE PerformQueued(f[i - 1])]

\* There is such a function.
LEMMA QueueRecursion ==
  ASSUME NEW first, NEW size \in Nat
  PROVE  \E f : PerformsQueue(f, first, size)
<1> DEFINE Bad == {k \in Nat : ~ \E f : PerformsQueue(f, first, k)}
<1>1. ASSUME Bad # {} PROVE FALSE
  <2>1. PICK k \in Bad : \A n \in Bad : k <= n
    BY <1>1, LeastNumber
  <2>2. CASE k = 0
    <3>1. PICK g : g = [i \in 0..0 |-> first]
      OBVIOUS
    <3>2. PerformsQueue(g, first, 0)
      BY <3>1 DEF PerformsQueue
    <3>3. QED BY <2>2, <3>2
  <2>3. CASE k # 0
    <3>1. k - 1 \in Nat /\ k - 1 \notin Bad
      BY <2>1, <2>3
    <3>2. PICK f : PerformsQueue(f, first, k - 1)
      BY <3>1
    <3>3. PICK g : g = [i \in 0..k |-> IF i = 0 THEN first ELSE PerformQueued(f[i - 1])]
      OBVIOUS
    <3>4. ASSUME NEW i \in 0..k, i # 0 PROVE g[i - 1] = f[i - 1]
      BY <2>1, <3>2, <3>3, <3>4 DEF PerformsQueue
    <3>5. PerformsQueue(g, first, k)
      BY <3>3, <3>4 DEF PerformsQueue
    <3>6. QED BY <3>5
  <2>4. QED BY <2>2, <2>3
<1>2. QED BY <1>1

\* set_completions and the completions it performs.
LEMMA SetCompletionsKeeps ==
  ASSUME NEW m, Proper(m), m.menu.mode.completer, NEW c, IsCompletions(c),
         Named(m) => Answers(c, m.history.inputs), NEW n, n = SetCompletions(m, c)
  PROVE  Proper(n) /\ (Named(n) => Named(m))
<1>1. PICK first, size : first = SetCompletions1(m, c) /\ size = m.menu.queued
  OBVIOUS
<1>2. size \in Nat
  BY <1>1 DEF Proper, Fits, IsMenu
<1>3. PICK after : /\ after = [i \in 0..size |-> IF i = 0 THEN first
                                                ELSE PerformQueued(after[i - 1])]
                   /\ n = after[size]
  <2>1. \E f : PerformsQueue(f, first, size)
    BY <1>2, QueueRecursion
  <2>2. n = (CHOOSE f : PerformsQueue(f, first, size))[size]
    BY <1>1, Zenon DEF SetCompletions, PerformsQueue
  <2>3. PerformsQueue(CHOOSE f : PerformsQueue(f, first, size), first, size)
    BY <2>1, Zenon
  <2>4. PICK f : PerformsQueue(f, first, size) /\ n = f[size]
    BY <2>2, <2>3
  <2>5. QED BY <2>4 DEF PerformsQueue
<1>4. /\ after[0] = first
      /\ \A i \in 1..size : after[i] = PerformQueued(after[i - 1])
  BY <1>2, <1>3
<1> DEFINE Holds(i) == /\ Proper(after[i]) /\ (Named(after[i]) => Named(m))
                       /\ after[i].menu.queued = size - i
           Bad == {i \in 0..size : ~ Holds(i)}
<1>5. Holds(0)
  <2>1. Proper(first) /\ first.starts = m.starts /\ first.menu.queued = m.menu.queued
    BY <1>1, SetCompletions1Keeps
  <2>2. QED BY <1>1, <1>2, <1>4, <2>1 DEF Named
<1>6. ASSUME NEW i \in 1..size, Holds(i - 1) PROVE Holds(i)
  <2>1. PICK a, b : a = after[i - 1] /\ b = after[i]
    OBVIOUS
  <2>2. i - 1 \in Nat /\ i \in Nat /\ size - (i - 1) # 0 /\ size - (i - 1) - 1 = size - i
    BY <1>2
  <2>3. b = PerformQueued(a) /\ Proper(a) /\ a.menu.queued # 0
    BY <1>4, <1>6, <2>1, <2>2
  <2>4. Proper(b) /\ (Named(b) => Named(a)) /\ b.menu.queued = a.menu.queued - 1
    BY <2>3, PerformQueuedKeeps
  <2>5. QED BY <1>6, <2>1, <2>2, <2>4
<1>7. ASSUME Bad # {} PROVE FALSE
  <2> HIDE DEF Holds
  <2>1. Bad \in SUBSET Nat
    BY <1>2
  <2>2. PICK i \in Bad : \A j \in Bad : i <= j
    BY <1>7, <2>1, LeastNumber
  <2>3. i # 0
    BY <1>5, <2>2
  <2>4. i \in 1..size /\ i - 1 \in 0..size /\ i - 1 \notin Bad
    BY <1>2, <2>2, <2>3
  <2>5. QED BY <1>6, <2>2, <2>4
<1>8. Holds(size)
  <2> HIDE DEF Holds
  <2>1. QED BY <1>2, <1>7
<1>9. QED BY <1>3, <1>8

(***************************************************************************)
(* What the main loop calls with the menu of the moment.                   *)
(***************************************************************************)

\* What follows from the invariant for the handlers.
LEMMA CallProperties ==
  ASSUME MenuInv
  PROVE  /\ IsCall(Call(menu)) /\ Proper(Call(menu)) /\ Named(Call(menu))
         /\ Call(menu).menu = menu /\ Call(menu).starts = {} /\ Call(menu).history = history
         /\ IsMenu(menu) /\ Fits(menu) /\ Drawn(menu)
BY DEF MenuInv, Proper, Named, Call, Fits

\* A change of the input by a key.
LEMMA EditKeeps ==
  ASSUME MenuInv, NEW input, NEW mark, NEW n, n = Edit(menu, input, mark)
  PROVE  Proper(n)
<1>1. PICK k : k = [Call(menu) EXCEPT !.menu.input = input, !.menu.mark = mark]
  OBVIOUS
<1>2. PICK b : b = k.menu
  OBVIOUS
<1>3. IsCall(k) /\ b = [menu EXCEPT !.input = input, !.mark = mark]
  BY <1>1, <1>2, CallProperties DEF IsCall
<1>4. /\ IsMenu(b)
      /\ b.active = menu.active /\ b.mode = menu.mode /\ b.delay = menu.delay
      /\ b.state = menu.state /\ b.completions = menu.completions
      /\ b.keyboard_grabbed = menu.keyboard_grabbed
      /\ b.scheduled_update_server = menu.scheduled_update_server
  BY <1>3, CallProperties DEF IsMenu
<1>5. Fits(b)
  BY <1>4, CallProperties DEF Fits, Clean, HoldsKeyboard, Mapped
<1>6. n = HandleInputChanged(Typed(k))
  BY <1>1 DEF Edit
<1>7. QED BY <1>2, <1>3, <1>5, <1>6, InputChangedKeeps

\* complete performs a completion, or asks for one.
LEMMA CompleteKeyKeeps ==
  ASSUME MenuInv, NEW n, n = CompleteKey(menu)
  PROVE  Proper(n)
<1>1. CASE ~ menu.mode.completer
  BY <1>1, CallProperties DEF CompleteKey
<1>2. CASE menu.mode.completer /\ menu.valid
  <2>1. n = PerformCompletion(Call(menu))
    BY <1>2 DEF CompleteKey
  <2>2. QED BY <2>1, CallProperties, PerformCompletionKeeps
<1>3. CASE menu.mode.completer /\ ~ menu.valid
  <2>1. n = [Call(menu) EXCEPT !.menu.queued = @ + 1]
    BY <1>3 DEF CompleteKey
  <2>2. PICK b : b = n.menu
    OBVIOUS
  <2>3. /\ IsCall(n) /\ n.starts = {} /\ n.history = history
        /\ b = [menu EXCEPT !.queued = @ + 1]
    BY <2>1, <2>2, CallProperties DEF IsCall
  <2>4. /\ IsMenu(b)
        /\ b.active = menu.active /\ b.mode = menu.mode /\ b.valid = menu.valid
        /\ b.input = menu.input /\ b.mark = menu.mark /\ b.delay = menu.delay
        /\ b.state = menu.state /\ b.completions = menu.completions
        /\ b.expired = menu.expired /\ b.keyboard_grabbed = menu.keyboard_grabbed
        /\ b.scheduled_draw = menu.scheduled_draw
        /\ b.scheduled_update_server = menu.scheduled_update_server
    BY <2>3, CallProperties DEF IsMenu
  <2>5. Fits(b) /\ Drawn(b)
    BY <2>4, CallProperties DEF Fits, Clean, HoldsKeyboard, Mapped, Drawn, Face
  <2>6. Current(n)
    BY <2>2, <2>3, <2>4, CallProperties DEF Proper, Current, Awaited
  <2>7. QED BY <2>2, <2>3, <2>5, <2>6 DEF Proper
<1>4. QED BY <1>1, <1>2, <1>3

\* Setting the mark is drawn.
LEMMA SetMarkKeeps ==
  ASSUME MenuInv, NEW n, n = SetMark(menu)
  PROVE  Proper(n)
<1>1. PICK b : b = n.menu
  OBVIOUS
<1>2. /\ IsCall(n) /\ n.starts = {} /\ n.history = history
      /\ b = [menu EXCEPT !.mark = menu.input.cursor, !.scheduled_draw = TRUE]
  BY <1>1, CallProperties DEF IsCall, SetMark
<1>3. /\ IsMenu(b) /\ b.scheduled_draw
      /\ b.active = menu.active /\ b.mode = menu.mode /\ b.valid = menu.valid
      /\ b.input = menu.input /\ b.delay = menu.delay
      /\ b.state = menu.state /\ b.completions = menu.completions
      /\ b.expired = menu.expired /\ b.keyboard_grabbed = menu.keyboard_grabbed
      /\ b.scheduled_update_server = menu.scheduled_update_server
  BY <1>2, CallProperties DEF IsMenu
<1>4. Fits(b) /\ Drawn(b)
  BY <1>3, CallProperties DEF Fits, Clean, HoldsKeyboard, Mapped, Drawn
<1>5. Current(n)
  BY <1>1, <1>2, <1>3, CallProperties DEF Proper, Current, Awaited
<1>6. QED BY <1>1, <1>2, <1>4, <1>5 DEF Proper

\* Closing the menu ends its completions and has its windows unmapped.
LEMMA InactivateKeeps ==
  ASSUME MenuInv, NEW n, n = Inactivate(menu)
  PROVE  Proper(n)
<1>1. PICK b : b = n.menu
  OBVIOUS
<1>2. /\ IsCall(n)
      /\ b = [menu EXCEPT !.active = FALSE, !.scheduled_update_server = TRUE,
                          !.delay = FALSE, !.mode.completer = FALSE,
                          !.completions = NoCompletions, !.state = None]
  BY <1>1, CallProperties DEF IsCall, Inactivate
<1>3. PICK mode : mode = [menu.mode EXCEPT !.completer = FALSE]
  OBVIOUS
<1>4. mode \in [completer : BOOLEAN, delay : BOOLEAN, thread : BOOLEAN] /\ ~ mode.completer
  BY <1>3, CallProperties DEF IsMenu
<1>5. /\ IsMenu(b) /\ ~ b.active /\ b.scheduled_update_server
      /\ ~ b.delay /\ ~ b.mode.completer /\ b.completions = NoCompletions /\ b.state = None
      /\ b.keyboard_grabbed = menu.keyboard_grabbed
  <2>1. IsMenu(menu)
    BY CallProperties
  <2>2. b = [menu EXCEPT !.active = FALSE, !.scheduled_update_server = TRUE,
                         !.delay = FALSE, !.mode = mode,
                         !.completions = NoCompletions, !.state = None]
    BY <1>2, <1>3
  <2>3. IsCompletions(NoCompletions)
    BY DEF IsCompletions, NoCompletions
  <2>4. QED BY <1>4, <2>1, <2>2, <2>3 DEF IsMenu
<1>6. Fits(b) /\ Drawn(b)
  BY <1>5, CallProperties DEF Fits, Clean, HoldsKeyboard, Mapped, Drawn
<1>7. Current(n)
  BY <1>1, <1>5 DEF Current
<1>8. QED BY <1>1, <1>2, <1>6, <1>7 DEF Proper

\* A key of the menu, whether the menu is still open or not.
LEMMA MenuKeyKeeps ==
  ASSUME MenuInv, NEW key \in MenuKeys, NEW n, n = HandleMenuKey(menu, key)
  PROVE  Proper(n)
<1>1. Proper(Call(menu))
  BY CallProperties
<1>2. ASSUME NEW input, NEW mark PROVE Proper(Edit(menu, input, mark))
  BY EditKeeps
<1>3. \A c : Proper(InsertChar(menu, c))
  BY <1>2 DEF InsertChar
<1>4. Proper(Backspace(menu))
  BY <1>1, <1>2 DEF Backspace
<1>5. \A cursor : Proper(MoveTo(menu, cursor))
  BY <1>2 DEF MoveTo
<1>6. Proper(DeleteChar(menu)) /\ Proper(KillLine(menu))
  BY <1>1, <1>2 DEF DeleteChar, KillLine
<1>7. Proper(CompleteKey(menu)) /\ Proper(SetMark(menu)) /\ Proper(Inactivate(menu))
  BY CompleteKeyKeeps, SetMarkKeeps, InactivateKeeps
<1>8. key \in Chars \cup {"backspace", "forward", "backward", "home", "end", "delete",
                          "kill", "complete", "mark", "enter", "abort"}
  BY KeysAssumption
<1>9. QED BY <1>1, <1>3, <1>4, <1>5, <1>6, <1>7, <1>8 DEF HandleMenuKey

\* read_string with a menu that is closed starts anew; otherwise it is refused.
LEMMA ReadStringKeeps ==
  ASSUME MenuInv, NEW mode \in Modes, NEW input, NEW mark,
         NEW n, n = ReadString(menu, mode, input, mark)
  PROVE  Proper(n)
<1>1. CASE menu.active
  BY <1>1, CallProperties DEF ReadString
<1>2. CASE ~ menu.active
  <2>1. PICK b : b = [menu EXCEPT !.active = TRUE, !.mode = mode, !.input = input, !.mark = mark,
                                  !.scheduled_update_server = TRUE, !.scheduled_draw = TRUE,
                                  !.queued = 0]
    OBVIOUS
  <2>2. n = HandleInputChanged(Typed(Call(b)))
    BY <1>2, <2>1 DEF ReadString
  <2>3. mode \in [completer : BOOLEAN, delay : BOOLEAN, thread : BOOLEAN]
    BY ModesAssumption
  <2>4. /\ IsMenu(b) /\ b.active /\ b.scheduled_update_server
        /\ b.delay = menu.delay
        /\ b.state = menu.state /\ b.completions = menu.completions
        /\ b.keyboard_grabbed = menu.keyboard_grabbed
    BY <2>1, <2>3, CallProperties DEF IsMenu
  <2>5. Fits(b)
    BY <1>2, <2>4, CallProperties DEF Fits, Clean, HoldsKeyboard, Mapped
  <2>6. IsCall(Call(b)) /\ Call(b).menu = b
    BY CallProperties DEF IsCall, Call
  <2>7. QED BY <2>2, <2>5, <2>6, InputChangedKeeps
<1>3. QED BY <1>1, <1>2

\* finished_updating_completions: what a thread posted is shown only if it is awaited,
\* and then it is that of the input of the moment.
LEMMA FinishedUpdatingKeeps ==
  ASSUME MenuInv, NEW m, Proper(m), NEW i \in DOMAIN posted,
         NEW n, n = FinishedUpdatingCompletions(m, posted[i])
  PROVE  Proper(n) /\ (Named(n) => Named(m))
<1>1. PICK post : post = posted[i] /\ post.id # None /\ IsCompletions(post.completions)
  BY NoneIsNoId DEF MenuInv
<1>2. CASE m.menu.state # post.id
  <2>1. n = m
    BY <1>1, <1>2 DEF FinishedUpdatingCompletions
  <2>2. QED BY <2>1
<1>3. CASE m.menu.state = post.id
  <2>1. PICK done : done = [m EXCEPT !.menu.state = None]
    OBVIOUS
  <2>2. PICK a, b : a = m.menu /\ b = done.menu
    OBVIOUS
  <2>3. /\ IsCall(done) /\ done.starts = m.starts /\ done.history = m.history
        /\ b = [a EXCEPT !.state = None]
    BY <2>1, <2>2 DEF Proper, IsCall
  <2>4. IsMenu(a) /\ Fits(a) /\ Drawn(a)
    BY <2>2 DEF Proper, Fits
  <2>5. a.mode.completer
    BY <1>1, <1>3, <2>2, <2>4 DEF Fits, Clean
  <2>6. /\ IsMenu(b) /\ b.state = None /\ SameButState(a, b)
    BY <2>3, <2>4 DEF IsMenu, SameButState
  <2>7. Fits(b) /\ Drawn(b)
    BY <2>4, <2>5, <2>6, StateKeeps
  <2>8. Named(done) => Current(done)
    BY <2>2, <2>3, <2>6 DEF Proper, Current, Awaited, Named, SameButState
  <2>9. Proper(done) /\ done.menu.mode.completer /\ (Named(done) => Named(m))
    BY <2>2, <2>3, <2>5, <2>6, <2>7, <2>8 DEF Proper, Named, SameButState
  <2>10. CASE m.menu.recompute
    <3>1. n = UpdateCompletions(done)
      BY <1>1, <1>3, <2>1, <2>10 DEF FinishedUpdatingCompletions
    <3>2. Proper(n) /\ (Named(n) => Named(done)) /\ n.menu.queued = done.menu.queued
      BY <2>9, <3>1, UpdateCompletionsKeeps
    <3>3. QED BY <2>9, <3>2
  <2>11. CASE ~ m.menu.recompute /\ ~ m.menu.expired
    <3>1. n = SetCompletions(done, post.completions)
      BY <1>1, <1>3, <2>1, <2>11 DEF FinishedUpdatingCompletions
    <3>2. Named(done) => Answers(post.completions, done.history.inputs)
      BY <1>1, <1>3, <2>2, <2>3, <2>5, <2>11 DEF Proper, Current, Awaited, Named
    <3>3. Proper(n) /\ (Named(n) => Named(done))
      BY <1>1, <2>9, <3>1, <3>2, SetCompletionsKeeps
    <3>4. QED BY <2>9, <3>3
  <2>12. CASE ~ m.menu.recompute /\ m.menu.expired
    <3>1. n = done
      BY <1>1, <1>3, <2>1, <2>12 DEF FinishedUpdatingCompletions
    <3>2. QED BY <2>9, <3>1
  <2>13. QED BY <2>10, <2>11, <2>12
<1>4. QED BY <1>2, <1>3

\* The loop over what was posted, as a function of how much of it is handled.
HandlesPosts(f, first, size) ==
  f = [i \in 0..size |-> IF i = 0 THEN first
                         ELSE FinishedUpdatingCompletions(f[i - 1], posted[i])]

\* There is such a function.
LEMMA PostedRecursion ==
  ASSUME NEW first, NEW size \in Nat
  PROVE  \E f : HandlesPosts(f, first, size)
<1> DEFINE Bad == {k \in Nat : ~ \E f : HandlesPosts(f, first, k)}
<1>1. ASSUME Bad # {} PROVE FALSE
  <2>1. PICK k \in Bad : \A n \in Bad : k <= n
    BY <1>1, LeastNumber
  <2>2. CASE k = 0
    <3>1. PICK g : g = [i \in 0..0 |-> first]
      OBVIOUS
    <3>2. HandlesPosts(g, first, 0)
      BY <3>1 DEF HandlesPosts
    <3>3. QED BY <2>2, <3>2
  <2>3. CASE k # 0
    <3>1. k - 1 \in Nat /\ k - 1 \notin Bad
      BY <2>1, <2>3
    <3>2. PICK f : HandlesPosts(f, first, k - 1)
      BY <3>1
    <3>3. PICK g : g = [i \in 0..k |-> IF i = 0 THEN first
                                       ELSE FinishedUpdatingCompletions(f[i - 1], posted[i])]
      OBVIOUS
    <3>4. ASSUME NEW i \in 0..k, i # 0 PROVE g[i - 1] = f[i - 1]
      BY <2>1, <3>2, <3>3, <3>4 DEF HandlesPosts
    <3>5. HandlesPosts(g, first, k)
      BY <3>3, <3>4 DEF HandlesPosts
    <3>6. QED BY <3>5
  <2>4. QED BY <2>2, <2>3
<1>2. QED BY <1>1

\* The main loop handles everything that was posted, in order.
LEMMA PostsKeep ==
  ASSUME MenuInv, NEW n, NEW after, HandlesPosts(after, Call(menu), Len(posted)),
         n = after[Len(posted)]
  PROVE  Proper(n)
<1>1. PICK size : size = Len(posted) /\ size \in Nat /\ DOMAIN posted = 1..size
  BY LenProperties DEF MenuInv
<1>2. /\ after[0] = Call(menu)
      /\ \A i \in 1..size : after[i] = FinishedUpdatingCompletions(after[i - 1], posted[i])
  BY <1>1 DEF HandlesPosts
<1> DEFINE Bad == {i \in 0..size : ~ Proper(after[i])}
<1>3. Proper(after[0])
  BY <1>2, CallProperties
<1>4. ASSUME NEW i \in 1..size, Proper(after[i - 1]) PROVE Proper(after[i])
  BY <1>1, <1>2, <1>4, FinishedUpdatingKeeps
<1>5. ASSUME Bad # {} PROVE FALSE
  <2>1. Bad \in SUBSET Nat
    BY <1>1
  <2>2. PICK i \in Bad : \A j \in Bad : i <= j
    BY <1>5, <2>1, LeastNumber
  <2>3. i # 0
    BY <1>3, <2>2
  <2>4. i \in 1..size /\ i - 1 \in 0..size /\ i - 1 \notin Bad
    BY <1>1, <2>2, <2>3
  <2>5. QED BY <1>4, <2>2, <2>4
<1>6. QED BY <1>1, <1>5

(***************************************************************************)
(* The steps.                                                              *)
(***************************************************************************)

\* A handler that returns leaves the menu it made.
LEMMA ReturnKeeps ==
  ASSUME NEW m, Proper(m), Return(m), posted' = posted \/ posted' = <<>>, shown' = shown,
         keyboard' = "menu" => keyboard = "menu"
  PROVE  Proper(Call(menu))'
<1>1. Named(m) /\ menu' = m.menu /\ history' = m.history /\ threads' = threads \cup m.starts
  BY DEF Return, Named
<1>2. PICK n : n = Call(menu)'
  OBVIOUS
<1>3. n = [menu |-> m.menu, starts |-> {}, history |-> m.history] /\ IsCall(n)
  BY <1>1, <1>2 DEF Call, IsCall, Proper
<1>4. Fits(menu)' /\ Drawn(menu)'
  BY <1>1 DEF Proper, Fits, IsMenu, IsCompletions, Clean, HoldsKeyboard, Mapped, Drawn, Face
<1>5. Current(Call(menu))'
  BY <1>1, <1>2, <1>3 DEF Proper, Current, Awaited
<1>6. QED BY <1>1, <1>2, <1>3, <1>4, <1>5 DEF Proper

\* A step that leaves the menu and its windows alone keeps it unless it takes the
\* keyboard for it.
LEMMA KeyboardKeeps ==
  ASSUME MenuInv, UNCHANGED <<menu, threads, posted, shown, history>>,
         keyboard' = "menu" => keyboard = "menu"
  PROVE  Proper(Call(menu))'
<1>1. Return(Call(menu))
  BY CallProperties DEF Return
<1>2. QED BY <1>1, CallProperties, ReturnKeeps

\* The first state.
LEMMA InitKeeps ==
  ASSUME Init
  PROVE  MenuInv
<1>1. /\ IsMenu(menu)
      /\ ~ menu.active /\ ~ menu.mode.completer /\ menu.completions = NoCompletions
      /\ menu.state = None /\ ~ menu.delay /\ ~ menu.keyboard_grabbed
  BY DEF Init, Inactive, NoMode, IsMenu, IsCompletions, NoCompletions
<1>2. Call(menu).menu = menu /\ IsCall(Call(menu))
  BY DEF Init, Call, IsCall
<1>3. Fits(menu) /\ Drawn(menu) /\ Current(Call(menu))
  BY <1>1, <1>2, NoneIsNoId
     DEF Init, Fits, Clean, HoldsKeyboard, Mapped, Drawn, Current
<1>4. Proper(Call(menu))
  BY <1>2, <1>3 DEF Proper
<1>5. /\ posted \in Seq(ToSet(posted)) /\ DOMAIN posted = {}
      /\ keys \in Seq(Presses)
  BY DEF Init
<1>6. shown = [menu |-> shown.menu, completions |-> shown.completions]
  BY DEF Init, Unmapped
<1>7. QED BY <1>4, <1>5, <1>6, NoneIsNoId DEF MenuInv, Init

\* A key of the menu comes only when the menu has the keyboard.
LEMMA PressKeyKeeps ==
  ASSUME MenuInv, NEW key \in MenuKeys \cup RootKeys, PressKey(key)
  PROVE  MenuInv'
<1>1. Proper(Call(menu))'
  BY KeyboardKeeps DEF PressKey
<1>2. PICK press \in Presses : keys' = Append(keys, press)
  BY DEF MenuInv, PressKey, Presses
<1>3. keys' \in Seq(Presses)
  BY <1>2, AppendProperties DEF MenuInv
<1>4. QED BY <1>1, <1>3 DEF MenuInv, PressKey

\* process_keypress of the global bindings and of the menu's.
LEMMA HandleKeyKeeps ==
  ASSUME MenuInv, HandleKey
  PROVE  MenuInv'
<1>1. Head(keys) \in Presses /\ keys' \in Seq(Presses)
  BY DEF MenuInv, HandleKey
<1>2. UNCHANGED <<posted, shown>>
  BY DEF HandleKey
<1>3. CASE Head(keys).window = "menu" /\ Return(HandleMenuKey(menu, Head(keys).key))
           /\ UNCHANGED <<pending, keyboard>>
  <2>1. Head(keys).key \in MenuKeys
    BY <1>1, <1>3 DEF Presses
  <2>2. Proper(HandleMenuKey(menu, Head(keys).key))
    BY <2>1, MenuKeyKeeps
  <2>3. Proper(Call(menu))'
    BY <1>2, <1>3, <2>2, ReturnKeeps
  <2>4. QED BY <1>1, <1>2, <1>3, <2>3 DEF MenuInv
<1>4. CASE HandleRootKey(Head(keys).key)
  <2>1. /\ pending' \in BOOLEAN
        /\ keyboard' \in {"menu", "root", None}
        /\ keyboard' = "root" => pending'
        /\ keyboard' = "menu" => keyboard = "menu"
    BY <1>4, NoneIsNoId DEF HandleRootKey, MenuInv, GrabbedFor
  <2>2. Proper(Call(menu))'
    <3>1. CASE UNCHANGED <<menu, threads, history>>
      BY <1>2, <2>1, <3>1, KeyboardKeeps
    <3>2. ASSUME NEW mode \in Modes, NEW input, NEW mark,
                 Return(ReadString(menu, mode, input, mark))
          PROVE  Proper(Call(menu))'
      <4>1. Proper(ReadString(menu, mode, input, mark))
        BY ReadStringKeeps
      <4>2. QED BY <1>2, <2>1, <3>2, <4>1, ReturnKeeps
    <3>3. QED BY <1>4, <3>1, <3>2 DEF HandleRootKey
  <2>3. QED BY <1>1, <1>2, <2>1, <2>2 DEF MenuInv
<1>5. QED BY <1>3, <1>4 DEF HandleKey

\* The timeout of a key sequence takes the keyboard from everybody.
LEMMA TimeoutKeeps ==
  ASSUME MenuInv, KeySequenceTimeout
  PROVE  MenuInv'
<1>1. Proper(Call(menu))'
  BY KeyboardKeeps, NoneIsNoId DEF KeySequenceTimeout
<1>2. QED BY <1>1, NoneIsNoId DEF MenuInv, KeySequenceTimeout

\* Completions that were delayed.
LEMMA DelayKeeps ==
  ASSUME MenuInv, CompletionDelay
  PROVE  MenuInv'
<1>1. PICK m : m = Call([menu EXCEPT !.delay = FALSE])
  OBVIOUS
<1>2. PICK b : b = m.menu
  OBVIOUS
<1>3. /\ IsCall(m) /\ m.starts = {} /\ m.history = history
      /\ b = [menu EXCEPT !.delay = FALSE]
  BY <1>1, <1>2, CallProperties DEF IsCall, Call
<1>4. menu.delay /\ menu.mode.completer
  BY CallProperties DEF CompletionDelay, Fits, Clean
<1>5. /\ IsMenu(b)
      /\ b.active = menu.active /\ b.mode = menu.mode /\ b.valid = menu.valid
      /\ b.input = menu.input /\ b.mark = menu.mark
      /\ b.state = menu.state /\ b.completions = menu.completions
      /\ b.expired = menu.expired /\ b.keyboard_grabbed = menu.keyboard_grabbed
      /\ b.scheduled_draw = menu.scheduled_draw
      /\ b.scheduled_update_server = menu.scheduled_update_server
  BY <1>3, CallProperties DEF IsMenu
<1>6. Fits(b) /\ Drawn(b)
  BY <1>4, <1>5, CallProperties DEF Fits, Clean, HoldsKeyboard, Mapped, Drawn, Face
<1>7. Current(m)
  BY <1>2, <1>3, <1>5, CallProperties DEF Proper, Current, Awaited
<1>8. Proper(m) /\ m.menu.mode.completer
  BY <1>2, <1>3, <1>4, <1>5, <1>6, <1>7 DEF Proper
<1>9. PICK n : /\ Return(n)
               /\ n = IF menu.mode.thread THEN UpdateCompletions(m)
                      ELSE SetCompletions(m, Completer(menu.input))
  BY <1>1 DEF CompletionDelay
<1>10. Proper(n)
  <2>1. CASE menu.mode.thread
    BY <1>8, <1>9, <2>1, UpdateCompletionsKeeps
  <2>2. CASE ~ menu.mode.thread
    <3>1. n = SetCompletions(m, Completer(menu.input))
      BY <1>9, <2>2
    <3>2. IsCompletions(Completer(menu.input))
      BY CompleterProperties
    <3>3. Answers(Completer(menu.input), m.history.inputs)
      BY <1>2, <1>5, <1>7, <1>8 DEF Current, Answers
    <3>4. QED BY <1>8, <3>1, <3>2, <3>3, SetCompletionsKeeps
  <2>3. QED BY <2>1, <2>2
<1>11. Proper(Call(menu))'
  BY <1>9, <1>10, ReturnKeeps DEF CompletionDelay
<1>12. QED BY <1>11 DEF MenuInv, CompletionDelay

\* A thread posts the completions of the input it was given.
LEMMA FinishKeeps ==
  ASSUME MenuInv, NEW id \in StateIds, FinishCompleter(id)
  PROVE  MenuInv'
<1>1. PICK t \in threads : /\ t.id = id
                           /\ threads' = threads \ {t}
                           /\ posted' = Append(posted, [id |-> id, completions |-> Completer(t.input)])
  BY DEF FinishCompleter
<1>2. UNCHANGED <<menu, pending, keyboard, keys, shown, history>>
  BY DEF FinishCompleter
<1>3. PICK e, c : e = [id |-> id, completions |-> c] /\ c = Completer(t.input) /\ IsCompletions(c)
  BY CompleterProperties
<1>4. /\ Len(posted) \in Nat /\ DOMAIN posted = 1..Len(posted)
      /\ DOMAIN posted' = 1..(Len(posted) + 1)
      /\ \A i \in DOMAIN posted : posted'[i] = posted[i]
      /\ posted'[Len(posted) + 1] = e
      /\ posted' \in Seq(ToSet(posted) \cup {e})
  BY <1>1, <1>3, AppendProperties, LenProperties DEF MenuInv
<1>5. posted' \in Seq(ToSet(posted'))
  BY <1>4, MembersInType DEF ToSet
<1>6. Fits(menu)' /\ Drawn(menu)' /\ IsCall(Call(menu))'
  BY <1>2, CallProperties
     DEF Fits, IsMenu, IsCompletions, Clean, HoldsKeyboard, Mapped, Drawn, Face, IsCall, Call
<1>7. Current(Call(menu))'
  BY <1>1, <1>2, <1>3, <1>4, CallProperties DEF Proper, Current, Awaited, Answers, Call
<1>8. Proper(Call(menu))'
  BY <1>6, <1>7 DEF Proper, Call
<1>9. QED BY <1>2, <1>3, <1>4, <1>5, <1>8 DEF MenuInv

\* finished_updating_completions of everything that was posted.
LEMMA HandlePostedKeeps ==
  ASSUME MenuInv, HandlePosted
  PROVE  MenuInv'
<1>1. \E f : HandlesPosts(f, Call(menu), Len(posted))
  BY PostedRecursion, LenProperties DEF MenuInv
<1>2. Return((CHOOSE f : HandlesPosts(f, Call(menu), Len(posted)))[Len(posted)])
  BY Zenon DEF HandlePosted, HandlesPosts
<1>3. PICK f : HandlesPosts(f, Call(menu), Len(posted)) /\ Return(f[Len(posted)])
  BY <1>1, <1>2, Zenon
<1>4. Proper(f[Len(posted)])
  BY <1>3, PostsKeep
<1>5. UNCHANGED <<pending, keyboard, keys, shown>> /\ posted' = <<>>
  BY DEF HandlePosted
<1>6. Proper(Call(menu))'
  BY <1>3, <1>4, <1>5, ReturnKeeps
<1>7. posted' \in Seq(ToSet(posted')) /\ DOMAIN posted' = {}
  BY <1>5
<1>8. QED BY <1>5, <1>6, <1>7 DEF MenuInv

\* Contents that are lost are drawn again.
LEMMA ExposeKeeps ==
  ASSUME MenuInv, NEW window \in Exposed, HandleExpose(window)
  PROVE  MenuInv'
<1>1. PICK a, b, s, t : a = menu /\ b = menu' /\ s = shown /\ t = shown'
  OBVIOUS
<1>2. /\ t = [s EXCEPT ![window] = Lost]
      /\ s[window] \notin {Unmapped[window], Lost}
      /\ UNCHANGED <<threads, posted, pending, keyboard, keys, history>>
  BY <1>1 DEF HandleExpose
<1>3. PICK e \in BOOLEAN : e = (a.scheduled_draw \/ a.active)
  OBVIOUS
<1>4. b = [a EXCEPT !.scheduled_draw = e]
  BY <1>1, <1>3 DEF HandleExpose
<1>5. IsMenu(a) /\ Fits(a) /\ Drawn(a)
  BY <1>1, CallProperties
<1>6. /\ IsMenu(b) /\ b.scheduled_draw = e
      /\ b.active = a.active /\ b.mode = a.mode /\ b.valid = a.valid
      /\ b.input = a.input /\ b.mark = a.mark /\ b.delay = a.delay
      /\ b.state = a.state /\ b.completions = a.completions
      /\ b.expired = a.expired /\ b.keyboard_grabbed = a.keyboard_grabbed
      /\ b.scheduled_update_server = a.scheduled_update_server
  BY <1>4, <1>5 DEF IsMenu
<1>7. /\ window \in {"menu", "completions"}
      /\ t = [menu |-> t.menu, completions |-> t.completions]
      /\ t.completions = NoCompletions <=> s.completions = NoCompletions
      /\ s # Unmapped
  <2>1. window \in {"menu", "completions"}
    BY ExposedAssumption
  <2>2. PICK x, y : s = [menu |-> x, completions |-> y]
    BY <1>1 DEF MenuInv
  <2>3. Unmapped["menu"] = None /\ Unmapped["completions"] = NoCompletions
    BY DEF Unmapped
  <2>4. CASE window = "menu"
    <3>1. t = [menu |-> Lost, completions |-> y]
      BY <1>2, <2>2, <2>4
    <3>2. x # None
      BY <1>2, <2>2, <2>3, <2>4
    <3>3. QED BY <2>1, <2>2, <3>1, <3>2 DEF Unmapped
  <2>5. CASE window = "completions"
    <3>1. t = [menu |-> x, completions |-> Lost]
      BY <1>2, <2>2, <2>5
    <3>2. y # NoCompletions
      BY <1>2, <2>2, <2>3, <2>5
    <3>3. QED BY <2>1, <2>2, <3>1, <3>2, LostIsNoPicture DEF Unmapped
  <2>6. QED BY <2>1, <2>4, <2>5
<1>8. Fits(menu)' /\ Drawn(menu)'
  BY <1>1, <1>2, <1>3, <1>5, <1>6, <1>7
     DEF Fits, IsMenu, IsCompletions, Clean, HoldsKeyboard, Mapped, Drawn
<1>9. Current(Call(menu))' /\ IsCall(Call(menu))'
  BY <1>1, <1>2, <1>6, CallProperties DEF Proper, Current, Awaited, Call, IsCall
<1>10. Proper(Call(menu))'
  BY <1>8, <1>9 DEF Proper, Call
<1>11. QED BY <1>1, <1>2, <1>7, <1>10 DEF MenuInv

\* The flush maps, draws and takes or gives back the keyboard.
LEMMA FlushKeeps ==
  ASSUME MenuInv, Flush
  PROVE  MenuInv'
<1>1. PICK a, b, s, t : a = menu /\ b = menu' /\ s = shown /\ t = shown'
  OBVIOUS
<1>2. IsMenu(a) /\ Fits(a) /\ Drawn(a)
  BY <1>1, CallProperties
<1>3. PICK done : /\ done = [a EXCEPT !.scheduled_update_server = FALSE,
                                      !.scheduled_draw = FALSE]
                  /\ \/ /\ a.active /\ keyboard' \in GrabbedFor("menu")
                        /\ b = [done EXCEPT !.keyboard_grabbed = (keyboard' = "menu")]
                     \/ /\ keyboard' = None
                        /\ b = [done EXCEPT !.keyboard_grabbed = FALSE]
                     \/ /\ a.scheduled_update_server => (a.active <=> a.keyboard_grabbed)
                        /\ b = done
                        /\ UNCHANGED keyboard
  BY <1>1, Zenon DEF Flush
<1>4. PICK g \in BOOLEAN : g = (keyboard' = "menu")
  OBVIOUS
<1>5. /\ IsMenu(done)
      /\ done.active = a.active /\ done.mode = a.mode /\ done.valid = a.valid
      /\ done.input = a.input /\ done.mark = a.mark /\ done.delay = a.delay
      /\ done.state = a.state /\ done.completions = a.completions
      /\ done.expired = a.expired /\ done.keyboard_grabbed = a.keyboard_grabbed
      /\ ~ done.scheduled_update_server /\ ~ done.scheduled_draw
  BY <1>2, <1>3 DEF IsMenu
<1>6. /\ IsMenu(b)
      /\ b.active = a.active /\ b.mode = a.mode /\ b.valid = a.valid
      /\ b.input = a.input /\ b.mark = a.mark /\ b.delay = a.delay
      /\ b.state = a.state /\ b.completions = a.completions
      /\ b.expired = a.expired
      /\ ~ b.scheduled_update_server /\ ~ b.scheduled_draw
      /\ b.keyboard_grabbed => a.active
      /\ keyboard' = "menu" => b.keyboard_grabbed
      /\ keyboard' \in {"menu", "root", None}
      /\ keyboard' = "root" => pending
  <2>1. /\ keyboard \in {"menu", "root", None}
        /\ keyboard = "root" => pending
        /\ keyboard = "menu" => a.keyboard_grabbed
        /\ a.keyboard_grabbed => a.active \/ a.scheduled_update_server
    BY <1>1, <1>2 DEF MenuInv, Fits, HoldsKeyboard
  <2>2. CASE a.active /\ keyboard' \in GrabbedFor("menu")
             /\ b = [done EXCEPT !.keyboard_grabbed = (keyboard' = "menu")]
    <3>1. b = [done EXCEPT !.keyboard_grabbed = g]
      BY <1>4, <2>2
    <3>2. keyboard' \in {"menu", keyboard}
      BY <2>2 DEF GrabbedFor
    <3>3. QED BY ZenonT(60), <1>4, <1>5, <2>1, <2>2, <3>1, <3>2 DEF IsMenu
  <2>3. CASE keyboard' = None /\ b = [done EXCEPT !.keyboard_grabbed = FALSE]
    BY <1>5, <2>1, <2>3, NoneIsNoId DEF IsMenu
  <2>4. CASE /\ a.scheduled_update_server => (a.active <=> a.keyboard_grabbed)
             /\ b = done /\ UNCHANGED keyboard
    BY <1>2, <1>5, <2>1, <2>4 DEF IsMenu
  <2>5. QED BY <1>3, <2>2, <2>3, <2>4
<1>7. UNCHANGED <<threads, posted, pending, keys, history>>
  BY DEF Flush
<1>8. /\ t = [menu |-> t.menu, completions |-> t.completions]
      /\ a.active => t = [menu |-> Face(a), completions |-> a.completions]
      /\ ~ a.active => t = Unmapped
  <2>1. t = [menu |-> IF a.active THEN Face(a)
                      ELSE IF a.scheduled_update_server THEN Unmapped.menu ELSE s.menu,
             completions |->
               IF \/ a.scheduled_update_server
                  \/ a.active /\ NoCompletions \notin {a.completions, s.completions}
               THEN a.completions ELSE s.completions]
    BY <1>1, Zenon DEF Flush
  <2>2. CASE a.scheduled_update_server
    <3>1. ~ a.active => a.completions = NoCompletions
      BY <1>2 DEF Fits, Clean
    <3>2. QED BY <2>1, <2>2, <3>1 DEF Unmapped
  <2>3. CASE ~ a.scheduled_update_server /\ a.active
    <3>1. a.completions = NoCompletions <=> s.completions = NoCompletions
      BY <1>1, <1>2, <2>3 DEF Fits, Mapped
    <3>2. QED BY <2>1, <2>3, <3>1
  <2>4. CASE ~ a.scheduled_update_server /\ ~ a.active
    <3>1. s = Unmapped
      BY <1>1, <1>2, <2>4 DEF Fits, Mapped
    <3>2. QED BY <2>1, <2>4, <3>1 DEF Unmapped
  <2>5. QED BY <2>2, <2>3, <2>4
<1>9. Fits(menu)' /\ Drawn(menu)'
  <2>1. Face(b) = Face(a)
    BY <1>6 DEF Face
  <2>2. t.completions = a.completions \/ ~ a.active
    BY <1>8
  <2>3. IsMenu(menu)' /\ Clean(menu)' /\ HoldsKeyboard(menu)'
    BY <1>1, <1>2, <1>6 DEF Fits, IsMenu, IsCompletions, Clean, HoldsKeyboard
  <2>4. Mapped(menu)' /\ Drawn(menu)'
    BY <1>1, <1>6, <1>8, <2>1, <2>2 DEF Mapped, Drawn, Face, Unmapped
  <2>5. QED BY <2>3, <2>4 DEF Fits
<1>10. Current(Call(menu))' /\ IsCall(Call(menu))'
  BY <1>1, <1>6, <1>7, CallProperties DEF Proper, Current, Awaited, Call, IsCall
<1>11. Proper(Call(menu))'
  BY <1>9, <1>10 DEF Proper, Call
<1>12. QED BY <1>1, <1>6, <1>7, <1>8, <1>11 DEF MenuInv

(***************************************************************************)
(* The theorems.                                                           *)
(***************************************************************************)

\* The inductive invariant of the menu.
THEOREM MenuInvariant == Spec => []MenuInv
<1>1. Init => MenuInv
  BY InitKeeps
<1>2. MenuInv /\ [Next]_vars => MenuInv'
  <2> SUFFICES ASSUME MenuInv, [Next]_vars PROVE MenuInv'
    OBVIOUS
  <2>1. ASSUME NEW key \in MenuKeys \cup RootKeys, PressKey(key) PROVE MenuInv'
    BY <2>1, PressKeyKeeps
  <2>2. CASE HandleKey
    BY <2>2, HandleKeyKeeps
  <2>3. CASE KeySequenceTimeout
    BY <2>3, TimeoutKeeps
  <2>4. CASE CompletionDelay
    BY <2>4, DelayKeeps
  <2>5. ASSUME NEW id \in StateIds, FinishCompleter(id) PROVE MenuInv'
    BY <2>5, FinishKeeps
  <2>6. CASE HandlePosted
    BY <2>6, HandlePostedKeeps
  <2>7. ASSUME NEW window \in Exposed, HandleExpose(window) PROVE MenuInv'
    BY <2>7, ExposeKeeps
  <2>8. CASE Flush
    BY <2>8, FlushKeeps
  <2>9. CASE UNCHANGED vars
    <3>1. Proper(Call(menu))'
      BY <2>9, KeyboardKeeps DEF vars
    <3>2. QED BY <2>9, <3>1 DEF vars, MenuInv
  <2>10. QED BY <2>1, <2>2, <2>3, <2>4, <2>5, <2>6, <2>7, <2>8, <2>9 DEF Next
<1>3. QED BY <1>1, <1>2, PTL DEF Spec

\* Completions that pass for valid are those of the input as it was when it last changed,
\* or of what going through them made of it (handle_input_changed, perform_completion,
\* finished_updating_completions).
THEOREM CompletionsStayCurrent == Spec => []CompletionsAreCurrent
<1>1. MenuInv => CompletionsAreCurrent
  BY CallProperties DEF Proper, Current, Answers, CompletionsAreCurrent
<1>2. QED BY <1>1, MenuInvariant, PTL

\* Once flushed, the windows show the menu or are unmapped (Menu::flush and what
\* schedules its work).
THEOREM MenuScreenStaysUpToDate == Spec => []MenuScreenIsUpToDate
<1>1. MenuInv => MenuScreenIsUpToDate
  BY CallProperties DEF Fits, Mapped, Drawn, MenuScreenIsUpToDate
<1>2. QED BY <1>1, MenuInvariant, PTL

\* With no menu and no pending key sequence nobody holds the keyboard (Menu::flush and
\* the key sequences of WKeyBindingContext).
THEOREM KeyboardComesBack == Spec => []KeyboardIsGivenBack
<1>1. MenuInv => KeyboardIsGivenBack
  BY CallProperties, NoneIsNoId DEF MenuInv, Fits, HoldsKeyboard, KeyboardIsGivenBack
<1>2. QED BY <1>1, MenuInvariant, PTL

(***************************************************************************)
(* The text of the input, where the cursor is in it, and the completions    *)
(* it takes its text from; and the thread or the answer a menu waits for.   *)
(***************************************************************************)
Inputs == {x \in [text : Texts, cursor : Nat] : x.cursor <= Len(x.text)}

IsList(c) == c.list \in Seq(Texts) /\ c.selected \in Nat

Written(m) ==
  /\ m.input \in Inputs
  /\ m.mark \in Nat \cup {NoMark}
  /\ IsList(m.completions)

\* Of what was posted the first i answers are handled.
Waits(m, i) ==
  /\ m.menu.state # None =>
       \/ \E t \in threads \cup m.starts : t.id = m.menu.state
       \/ \E j \in DOMAIN posted : j > i /\ posted[j].id = m.menu.state
  /\ Named(m) => m.menu.state \in StateIds \cup {None}

Sound(m, i) == IsCall(m) /\ IsMenu(m.menu) /\ Written(m.menu) /\ Waits(m, i)

SoundInv ==
  /\ Sound(Call(menu), 0)
  /\ \A j \in DOMAIN posted : IsList(posted[j].completions)

\* The cursor is at the end of a completed text.
LEMMA CompletionIsInput ==
  ASSUME NEW text \in Texts
  PROVE  Completion(text) \in Inputs
BY LenProperties DEF Completion, Inputs, Texts

\* The loop of PrefixCompleter over the entries, as a function of how many it has seen.
FindsEntries(f, text, size) ==
  f = [i \in 0..size |-> IF i = 0 THEN <<>>
                         ELSE IF IsPrefix(text, Entries[i]) THEN Append(f[i - 1], Entries[i])
                         ELSE f[i - 1]]

\* There is such a function.
LEMMA EntriesRecursion ==
  ASSUME NEW text, NEW size \in Nat
  PROVE  \E f : FindsEntries(f, text, size)
<1> DEFINE Bad == {k \in Nat : ~ \E f : FindsEntries(f, text, k)}
<1>1. ASSUME Bad # {} PROVE FALSE
  <2>1. PICK k \in Bad : \A n \in Bad : k <= n
    BY <1>1, LeastNumber
  <2>2. CASE k = 0
    <3>1. PICK g : g = [i \in 0..0 |-> <<>>]
      OBVIOUS
    <3>2. FindsEntries(g, text, 0)
      BY <3>1 DEF FindsEntries
    <3>3. QED BY <2>2, <3>2
  <2>3. CASE k # 0
    <3>1. k - 1 \in Nat /\ k - 1 \notin Bad
      BY <2>1, <2>3
    <3>2. PICK f : FindsEntries(f, text, k - 1)
      BY <3>1
    <3>3. PICK g : g = [i \in 0..k |->
                         IF i = 0 THEN <<>>
                         ELSE IF IsPrefix(text, Entries[i]) THEN Append(f[i - 1], Entries[i])
                         ELSE f[i - 1]]
      OBVIOUS
    <3>4. ASSUME NEW i \in 0..k, i # 0 PROVE g[i - 1] = f[i - 1]
      <4>1. PICK j : j = i - 1 /\ j \in 0..(k - 1) /\ j \in 0..k
        BY <2>1, <3>4
      <4>2. PICK e : e = IF j = 0 THEN <<>>
                         ELSE IF IsPrefix(text, Entries[j]) THEN Append(f[j - 1], Entries[j])
                         ELSE f[j - 1]
        OBVIOUS
      <4>3. f[j] = e
        BY <3>2, <4>1, <4>2, Zenon DEF FindsEntries
      <4>4. g[j] = e
        BY <3>3, <4>1, <4>2, Zenon
      <4>5. QED BY <4>1, <4>3, <4>4
    <3>5. FindsEntries(g, text, k)
      BY <3>3, <3>4 DEF FindsEntries
    <3>6. QED BY <3>5
  <2>4. QED BY <2>2, <2>3
<1>2. QED BY <1>1

\* A text is completed with entries.
LEMMA EntriesAreTexts ==
  ASSUME NEW text
  PROVE  EntriesWith(text) \in Seq(Texts)
<1>1. PICK size \in Nat : size = Len(Entries) /\ \A i \in 1..size : Entries[i] \in Texts
  BY TextsAssumption, LenProperties
<1>2. \E f : FindsEntries(f, text, size)
  BY EntriesRecursion
<1>3. EntriesWith(text) = (CHOOSE f : FindsEntries(f, text, size))[size]
  BY <1>1, Zenon DEF EntriesWith, FindsEntries
<1>4. PICK f : FindsEntries(f, text, size) /\ EntriesWith(text) = f[size]
  BY <1>2, <1>3, Zenon
<1> DEFINE T == {i \in Nat : f[i] \in Seq(Texts)}
<1>5. 0 \in T
  BY <1>4 DEF FindsEntries
<1>6. ASSUME NEW i \in 1..size, i - 1 \in T PROVE i \in T
  <2>1. i \in 0..size /\ i # 0
    OBVIOUS
  <2>2. f[i] = IF i = 0 THEN <<>>
               ELSE IF IsPrefix(text, Entries[i]) THEN Append(f[i - 1], Entries[i])
               ELSE f[i - 1]
    BY <1>4, <2>1, Zenon DEF FindsEntries
  <2>3. PICK found, entry : found = f[i - 1] /\ entry = Entries[i]
    OBVIOUS
  <2>4. found \in Seq(Texts) /\ entry \in Texts
    BY <1>1, <1>6, <2>3
  <2>5. f[i] = Append(found, entry) \/ f[i] = found
    BY <2>1, <2>2, <2>3, Zenon
  <2>6. CASE f[i] = Append(found, entry)
    <3>1. f[i] \in Seq(Texts)
      BY <2>4, <2>6, AppendProperties
    <3>2. QED BY <2>1, <3>1
  <2>7. CASE f[i] = found
    BY <2>1, <2>4, <2>7
  <2>8. QED BY <2>5, <2>6, <2>7
<1>7. size \in T
  <2> HIDE DEF T
  <2>1. QED BY <1>5, <1>6, AfterTurns
<1>8. QED BY <1>4, <1>7

\* What the completer makes of a text.
LEMMA CompleterIsList ==
  ASSUME NEW input
  PROVE  IsList(Completer(input))
<1>1. PICK list \in Seq(Texts) : list = EntriesWith(input.text)
  BY EntriesAreTexts
<1>2. QED BY <1>1 DEF Completer, IsList, NoCompletions

\* Texts have a longest common prefix, and it is a text.
LEMMA LongestPrefixIsText ==
  ASSUME NEW S \in SUBSET Texts, S # {}
  PROVE  LongestCommonPrefix(S) \in Texts
<1> DEFINE C == CommonPrefixes(S)
<1>1. PICK s : s \in S /\ s \in Texts
  OBVIOUS
<1>2. ASSUME NEW p \in C PROVE p \in Texts /\ Len(p) \in Nat /\ Len(p) <= Len(s)
  <2>0. PICK t \in S : p \in Prefixes(t)
    BY <1>2 DEF CommonPrefixes
  <2>1. PICK l \in 0..Len(t) : p = SubSeq(t, 1, l)
    BY <2>0 DEF Prefixes
  <2>2. t \in Seq(Alphabet) /\ \A i \in 1..l : t[i] \in Alphabet
    BY <2>1, LenProperties DEF Texts
  <2>3. p \in Seq(Alphabet)
    BY <2>1, <2>2, SubSeqProperties
  <2>4. Len(p) <= Len(s)
    BY <1>1, <1>2 DEF CommonPrefixes, IsPrefix
  <2>5. QED BY <2>3, <2>4, LenProperties DEF Texts
<1>3. <<>> \in C
  <2>1. ASSUME NEW t \in S PROVE Len(t) \in Nat /\ SubSeq(t, 1, 0) = <<>>
    BY LenProperties, SubSeqEmpty DEF Texts
  <2>2. <<>> \in Prefixes(s)
    BY <1>1, <2>1 DEF Prefixes
  <2>3. ASSUME NEW t \in S PROVE IsPrefix(<<>>, t)
    <3>1. SubSeq(<<>>, 1, 0) = <<>>
      BY SubSeqEmpty
    <3>2. QED BY <2>1, <3>1 DEF IsPrefix
  <2>4. QED BY <1>1, <2>2, <2>3 DEF CommonPrefixes
<1> HIDE DEF C
<1>4. \E p \in C : \A q \in C : Len(q) <= Len(p)
  <2> DEFINE Lacking == {Len(s) - Len(p) : p \in C}
  <2>1. Len(s) \in Nat
    BY <1>1, LenProperties DEF Texts
  <2>2. Lacking \in SUBSET Nat /\ Lacking # {}
    BY <1>2, <1>3, <2>1
  <2>3. PICK k \in Lacking : \A n \in Lacking : k <= n
    BY <2>2, LeastNumber
  <2>4. PICK p \in C : k = Len(s) - Len(p)
    BY <2>3
  <2>5. ASSUME NEW q \in C PROVE Len(q) <= Len(p)
    <3>1. Len(s) - Len(q) \in Lacking
      OBVIOUS
    <3>2. Len(s) - Len(p) <= Len(s) - Len(q)
      BY <2>3, <2>4, <3>1
    <3>3. QED BY <1>2, <2>1, <3>2
  <2>6. QED BY <2>5
<1>5. LongestCommonPrefix(S) \in C
  BY <1>4 DEF LongestCommonPrefix, C
<1>6. QED BY <1>2, <1>5

\* Completing an input gives an input, and another entry of the list is the next.
LEMMA CompleteIsSound ==
  ASSUME NEW c, IsCompletions(c), IsList(c), c # NoCompletions, NEW input,
         NEW done, done = Complete(c, input)
  PROVE  done.input \in Inputs /\ IsList(done.completions)
<1>1. PICK size : /\ size = Len(c.list) /\ size \in Nat /\ size # 0
                  /\ \A i \in 1..size : c.list[i] \in Texts
                  /\ c.selected \in Nat
  <2>1. c.list # <<>> /\ c.list \in Seq(Texts) /\ c.selected \in Nat
    BY DEF IsCompletions, IsList
  <2>2. QED BY <2>1, LenProperties, EmptySeq
<1>2. PICK next \in 1..size : next = (c.selected % Len(c.list)) + 1
  <2>1. c.selected % size \in 0..(size - 1)
    BY <1>1
  <2>2. QED BY <1>1, <2>1
<1>3. PICK prefix \in Inputs : prefix = Completion(LongestCommonPrefix(ToSet(c.list)))
  <2>1. ToSet(c.list) \in SUBSET Texts /\ ToSet(c.list) # {}
    <3>1. c.list \in Seq(Texts) /\ c.list # <<>>
      BY DEF IsCompletions, IsList
    <3>2. QED BY <3>1, MembersInType
  <2>2. LongestCommonPrefix(ToSet(c.list)) \in Texts
    BY <2>1, LongestPrefixIsText
  <2>3. QED BY <2>2, CompletionIsInput
<1>4. PICK last \in Inputs : last = Completion(c.list[next])
  BY <1>1, <1>2, CompletionIsInput
<1>5. PICK d, e : /\ d = [c EXCEPT !.common_prefix = FALSE]
                  /\ e = [c EXCEPT !.common_prefix = FALSE, !.selected = next]
  OBVIOUS
<1>6. \/ done = [input |-> prefix, again |-> TRUE, completions |-> d]
      \/ done = [input |-> last, again |-> FALSE, completions |-> e]
  BY <1>2, <1>3, <1>4, <1>5, Zenon DEF Complete
<1>7. c = [list |-> c.list, common_prefix |-> c.common_prefix, selected |-> c.selected]
  BY DEF IsCompletions
<1>8. d = [list |-> c.list, common_prefix |-> FALSE, selected |-> c.selected]
  BY <1>5, <1>7
<1>9. e = [list |-> c.list, common_prefix |-> FALSE, selected |-> next]
  BY <1>5, <1>7
<1>10. IsList(d) /\ IsList(e)
  BY <1>1, <1>8, <1>9 DEF IsList
<1>11. QED BY <1>6, <1>10

\* A call that changes the menu, and starts no thread, keeps what it waits for.
LEMMA SoundChange ==
  ASSUME NEW m, NEW i, Sound(m, i), NEW n, IsCall(n), n.starts = m.starts, IsMenu(n.menu),
         Written(n.menu), n.menu.state \in {m.menu.state, None}
  PROVE  Sound(n, i)
BY DEF Sound, Waits, Named

\* set_completions is given a list.
LEMMA SetCompletions1Sound ==
  ASSUME NEW m, NEW i, Sound(m, i), NEW c, IsCompletions(c), IsList(c),
         NEW n, n = SetCompletions1(m, c)
  PROVE  Sound(n, i) /\ n.menu.queued = m.menu.queued
<1>1. PICK a, b : a = m.menu /\ b = n.menu
  OBVIOUS
<1>2. /\ IsCall(n) /\ n.starts = m.starts
      /\ b = [a EXCEPT !.completions = c, !.valid = TRUE,
                       !.scheduled_draw = TRUE, !.scheduled_update_server = TRUE]
  BY <1>1 DEF SetCompletions1, Sound, IsCall
<1>3. IsMenu(a) /\ Written(a)
  BY <1>1 DEF Sound
<1>4. /\ IsMenu(b) /\ b.input = a.input /\ b.mark = a.mark /\ b.completions = c
      /\ b.state = a.state /\ b.queued = a.queued
  BY <1>2, <1>3 DEF IsMenu
<1>5. Written(b)
  BY <1>3, <1>4 DEF Written
<1>6. QED BY <1>1, <1>2, <1>4, <1>5, SoundChange

\* A thread that starts is waited for, under a name that is free.
LEMMA StartThreadSound ==
  ASSUME NEW m, NEW i, Sound(m, i), NEW n, n = StartThread(m)
  PROVE  Sound(n, i) /\ n.menu.queued = m.menu.queued
<1>1. PICK a, b, t : a = m.menu /\ b = n.menu /\ t = [id |-> FreshId, input |-> m.menu.input]
  OBVIOUS
<1>2. /\ IsCall(n) /\ n.starts = {t}
      /\ b = [a EXCEPT !.state = FreshId, !.expired = FALSE, !.recompute = FALSE]
  BY <1>1 DEF StartThread, Sound, IsCall
<1>3. IsMenu(a) /\ Written(a)
  BY <1>1 DEF Sound
<1>4. /\ IsMenu(b) /\ b.input = a.input /\ b.mark = a.mark /\ b.completions = a.completions
      /\ b.state = FreshId /\ b.queued = a.queued
  BY <1>2, <1>3 DEF IsMenu
<1>5. Written(b)
  BY <1>3, <1>4 DEF Written
<1>6. Named(n) => FreshId \in StateIds
  BY <1>2 DEF Named, FreshId, FreeIds
<1>7. Waits(n, i)
  BY <1>1, <1>2, <1>4, <1>6 DEF Waits
<1>8. QED BY <1>1, <1>2, <1>4, <1>5, <1>7 DEF Sound

\* update_completions: at once, by a thread that runs already, or by a new one.
LEMMA UpdateCompletionsSound ==
  ASSUME NEW m, NEW i, Sound(m, i), NEW n, n = UpdateCompletions(m)
  PROVE  Sound(n, i) /\ n.menu.queued = m.menu.queued
<1>1. CASE n = SetCompletions1(m, Completer(m.menu.input))
  BY <1>1, CompleterProperties, CompleterIsList, SetCompletions1Sound
<1>2. CASE n = [m EXCEPT !.menu.recompute = TRUE]
  <2>1. PICK a, b : a = m.menu /\ b = n.menu
    OBVIOUS
  <2>2. IsCall(n) /\ n.starts = m.starts /\ b = [a EXCEPT !.recompute = TRUE]
    BY <1>2, <2>1 DEF Sound, IsCall
  <2>3. IsMenu(a) /\ Written(a)
    BY <2>1 DEF Sound
  <2>4. /\ IsMenu(b) /\ b.input = a.input /\ b.mark = a.mark
        /\ b.completions = a.completions /\ b.state = a.state /\ b.queued = a.queued
    BY <2>2, <2>3 DEF IsMenu
  <2>5. Written(b)
    BY <2>3, <2>4 DEF Written
  <2>6. QED BY <2>1, <2>2, <2>4, <2>5, SoundChange
<1>3. CASE n = StartThread(m)
  BY <1>3, StartThreadSound
<1>4. QED BY <1>1, <1>2, <1>3 DEF UpdateCompletions

\* handle_input_changed leaves the input as it has become.
LEMMA InputChangedSound ==
  ASSUME NEW m, NEW i, Sound(m, i), NEW n, n = HandleInputChanged(Typed(m))
  PROVE  Sound(n, i) /\ n.menu.queued = m.menu.queued
<1>1. PICK k : k = Typed(m)
  OBVIOUS
<1>2. PICK a : a = m.menu /\ IsMenu(a) /\ Written(a)
  BY DEF Sound
<1>3. IsCall(k) /\ k.starts = m.starts /\ k.menu = a
  BY <1>1, <1>2 DEF Typed, Sound, IsCall
<1>4. CASE ~ a.mode.completer
  <2>1. n = [k EXCEPT !.menu.scheduled_draw = TRUE]
    BY <1>1, <1>3, <1>4 DEF HandleInputChanged
  <2>2. PICK b : b = n.menu
    OBVIOUS
  <2>3. IsCall(n) /\ n.starts = m.starts /\ b = [a EXCEPT !.scheduled_draw = TRUE]
    BY <1>3, <2>1, <2>2 DEF IsCall
  <2>4. /\ IsMenu(b) /\ b.input = a.input /\ b.mark = a.mark
        /\ b.completions = a.completions /\ b.state = a.state /\ b.queued = a.queued
    BY <1>2, <2>3 DEF IsMenu
  <2>5. Written(b)
    BY <1>2, <2>4 DEF Written
  <2>6. QED BY <1>2, <2>2, <2>3, <2>4, <2>5, SoundChange
<1>5. CASE a.mode.completer
  <2>1. PICK e \in BOOLEAN : e = (k.menu.state # None)
    OBVIOUS
  <2>2. PICK v : v = [k EXCEPT !.menu.scheduled_draw = TRUE, !.menu.valid = FALSE,
                               !.menu.expired = e]
    OBVIOUS
  <2>3. n = IF a.mode.delay THEN [v EXCEPT !.menu.delay = TRUE] ELSE UpdateCompletions(v)
    <3>1. v = [k EXCEPT !.menu.scheduled_draw = TRUE, !.menu.valid = FALSE,
                        !.menu.expired = (k.menu.state # None)]
      BY <2>1, <2>2
    <3>2. QED BY <1>1, <1>3, <1>5, <3>1 DEF HandleInputChanged
  <2>4. PICK b : b = v.menu
    OBVIOUS
  <2>5. /\ IsCall(v) /\ v.starts = m.starts
        /\ b = [a EXCEPT !.scheduled_draw = TRUE, !.valid = FALSE, !.expired = e]
    BY <1>3, <2>2, <2>4 DEF IsCall
  <2>6. /\ IsMenu(b) /\ b.input = a.input /\ b.mark = a.mark
        /\ b.completions = a.completions /\ b.state = a.state /\ b.queued = a.queued
    BY ZenonT(60), <1>2, <2>1, <2>5 DEF IsMenu
  <2>7. Written(b)
    BY <1>2, <2>6 DEF Written
  <2>8. Sound(v, i) /\ v.menu.queued = m.menu.queued
    BY <1>2, <2>4, <2>5, <2>6, <2>7, SoundChange
  <2>9. CASE a.mode.delay
    <3>1. PICK d : d = n.menu
      OBVIOUS
    <3>2. IsCall(n) /\ n.starts = v.starts /\ d = [b EXCEPT !.delay = TRUE]
      BY ZenonT(60), <2>3, <2>4, <2>5, <2>9, <3>1 DEF IsCall
    <3>3. /\ IsMenu(d) /\ d.input = b.input /\ d.mark = b.mark
          /\ d.completions = b.completions /\ d.state = b.state /\ d.queued = b.queued
      BY <2>6, <3>2 DEF IsMenu
    <3>4. Written(d)
      BY <2>7, <3>3 DEF Written
    <3>5. QED BY <2>4, <2>8, <3>1, <3>2, <3>3, <3>4, SoundChange
  <2>10. CASE ~ a.mode.delay
    BY <2>3, <2>8, <2>10, UpdateCompletionsSound
  <2>11. QED BY <2>9, <2>10
<1>6. QED BY <1>4, <1>5

\* perform_completion puts an input of the completions into the line.
LEMMA PerformCompletionSound ==
  ASSUME NEW m, NEW i, Sound(m, i), NEW n, n = PerformCompletion(m)
  PROVE  Sound(n, i) /\ n.menu.queued = m.menu.queued
<1>1. CASE m.menu.completions = NoCompletions
  BY <1>1 DEF PerformCompletion
<1>2. CASE m.menu.completions # NoCompletions
  <2> DEFINE done == Complete(m.menu.completions, m.menu.input)
             k == [m EXCEPT !.menu.input = done.input, !.menu.completions = done.completions,
                            !.history.inputs = @ \cup {done.input}]
             told == IF done.again THEN HandleInputChanged(Typed(k)) ELSE k
  <2>4. n = [told EXCEPT !.menu.scheduled_draw = TRUE, !.menu.mark = NoMark]
    BY <1>2, Zenon DEF PerformCompletion
  <2>3. told = IF done.again THEN HandleInputChanged(Typed(k)) ELSE k
    OBVIOUS
  <2> HIDE DEF told
  <2>2. k = [m EXCEPT !.menu.input = done.input, !.menu.completions = done.completions,
                      !.history.inputs = @ \cup {done.input}]
    OBVIOUS
  <2> HIDE DEF k
  <2>1. done = Complete(m.menu.completions, m.menu.input)
    OBVIOUS
  <2> HIDE DEF done
  <2>5. PICK a, b, c, d : a = m.menu /\ b = k.menu /\ c = told.menu /\ d = n.menu
    OBVIOUS
  <2>6. /\ IsCall(k) /\ k.starts = m.starts
        /\ b = [a EXCEPT !.input = done.input, !.completions = done.completions]
    BY <2>2, <2>5 DEF Sound, IsCall
  <2>7. IsMenu(a) /\ Written(a) /\ IsCompletions(a.completions) /\ IsList(a.completions)
    BY <2>5 DEF Sound, IsMenu, Written
  <2>8. /\ done.input \in Inputs /\ IsList(done.completions)
        /\ IsCompletions(done.completions)
    BY <1>2, <2>1, <2>5, <2>7, CompleteIsSound, CompleteProperties
  <2>9. /\ IsMenu(b) /\ b.input = done.input /\ b.mark = a.mark
        /\ b.completions = done.completions /\ b.state = a.state /\ b.queued = a.queued
    BY <2>6, <2>7, <2>8 DEF IsMenu
  <2>10. Written(b)
    BY <2>7, <2>8, <2>9 DEF Written
  <2>11. Sound(k, i) /\ k.menu.queued = m.menu.queued
    BY <2>5, <2>6, <2>9, <2>10, SoundChange
  <2>12. Sound(told, i) /\ told.menu.queued = m.menu.queued
    BY <2>3, <2>11, InputChangedSound
  <2>13. IsCall(told) /\ IsMenu(c) /\ Written(c)
    BY <2>5, <2>12 DEF Sound
  <2>14. /\ IsCall(n) /\ n.starts = told.starts
         /\ d = [c EXCEPT !.scheduled_draw = TRUE, !.mark = NoMark]
    BY <2>4, <2>5, <2>13 DEF IsCall
  <2>15. /\ IsMenu(d) /\ d.input = c.input /\ d.mark = NoMark
         /\ d.completions = c.completions /\ d.state = c.state /\ d.queued = c.queued
    BY <2>13, <2>14 DEF IsMenu
  <2>16. Written(d)
    BY <2>13, <2>15 DEF Written
  <2>17. QED BY <2>5, <2>12, <2>14, <2>15, <2>16, SoundChange
<1>3. QED BY <1>1, <1>2

\* One of the completions asked for meanwhile is performed.
LEMMA PerformQueuedSound ==
  ASSUME NEW m, NEW i, Sound(m, i), m.menu.queued # 0, NEW n, n = PerformQueued(m)
  PROVE  Sound(n, i) /\ n.menu.queued = m.menu.queued - 1
<1>1. PICK k : k = [m EXCEPT !.menu.queued = @ - 1]
  OBVIOUS
<1>2. n = PerformCompletion(k)
  BY <1>1 DEF PerformQueued
<1>3. PICK a, b : a = m.menu /\ b = k.menu
  OBVIOUS
<1>4. IsCall(k) /\ k.starts = m.starts /\ b = [a EXCEPT !.queued = a.queued - 1]
  BY <1>1, <1>3 DEF Sound, IsCall
<1>5. IsMenu(a) /\ Written(a)
  BY <1>3 DEF Sound
<1>6. /\ IsMenu(b) /\ b.input = a.input /\ b.mark = a.mark
      /\ b.completions = a.completions /\ b.state = a.state /\ b.queued = a.queued - 1
  BY <1>3, <1>4, <1>5 DEF IsMenu
<1>7. Written(b)
  BY <1>5, <1>6 DEF Written
<1>8. Sound(k, i)
  BY <1>3, <1>4, <1>6, <1>7, SoundChange
<1>9. Sound(n, i) /\ n.menu.queued = k.menu.queued
  BY <1>2, <1>8, PerformCompletionSound
<1>10. QED BY <1>3, <1>6, <1>9

\* set_completions and the completions it performs.
LEMMA SetCompletionsSound ==
  ASSUME NEW m, NEW i, Sound(m, i), NEW c, IsCompletions(c), IsList(c),
         NEW n, n = SetCompletions(m, c)
  PROVE  Sound(n, i)
<1>1. PICK first, size : first = SetCompletions1(m, c) /\ size = m.menu.queued
  OBVIOUS
<1>2. size \in Nat
  BY <1>1 DEF Sound, IsMenu
<1>3. \E f : PerformsQueue(f, first, size)
  BY <1>2, QueueRecursion
<1>4. n = (CHOOSE f : PerformsQueue(f, first, size))[size]
  BY <1>1, Zenon DEF SetCompletions, PerformsQueue
<1>5. PICK f : PerformsQueue(f, first, size) /\ n = f[size]
  BY <1>3, <1>4, Zenon
<1>6. f[0] = first /\ \A j \in 1..size : f[j] = PerformQueued(f[j - 1])
  BY <1>2, <1>5 DEF PerformsQueue
<1> DEFINE T == {j \in Nat : Sound(f[j], i) /\ f[j].menu.queued = size - j}
<1>7. 0 \in T
  <2>1. Sound(first, i) /\ first.menu.queued = size
    BY <1>1, SetCompletions1Sound
  <2>2. QED BY <1>2, <1>6, <2>1
<1>8. ASSUME NEW j \in 1..size, j - 1 \in T PROVE j \in T
  <2>1. PICK a, b : a = f[j - 1] /\ b = f[j]
    OBVIOUS
  <2>2. b = PerformQueued(a) /\ Sound(a, i) /\ a.menu.queued = size - (j - 1)
    BY <1>6, <1>8, <2>1
  <2>3. size - (j - 1) # 0 /\ size - (j - 1) - 1 = size - j /\ j \in Nat
    BY <1>2
  <2>4. Sound(b, i) /\ b.menu.queued = a.menu.queued - 1
    BY <2>2, <2>3, PerformQueuedSound
  <2>5. QED BY <2>1, <2>2, <2>3, <2>4
<1>9. size \in T
  <2> HIDE DEF T
  <2>1. QED BY <1>2, <1>7, <1>8, AfterTurns
<1>10. QED BY <1>5, <1>9

\* What follows for the handlers.
LEMMA CallIsSound ==
  ASSUME SoundInv
  PROVE  /\ Sound(Call(menu), 0) /\ Call(menu).menu = menu /\ Call(menu).starts = {}
         /\ IsCall(Call(menu)) /\ IsMenu(menu) /\ Written(menu)
         /\ menu.input.text \in Seq(Alphabet) /\ Len(menu.input.text) \in Nat
         /\ menu.input.cursor \in 0..Len(menu.input.text)
         /\ menu.input = [text |-> menu.input.text, cursor |-> menu.input.cursor]
         /\ menu.mark \in Nat \cup {NoMark}
<1>1. Sound(Call(menu), 0) /\ Call(menu).menu = menu /\ Call(menu).starts = {}
  BY DEF SoundInv, Call
<1>2. IsCall(Call(menu)) /\ IsMenu(menu) /\ Written(menu)
  BY <1>1 DEF Sound
<1>3. /\ menu.input \in [text : Texts, cursor : Nat]
      /\ menu.input.cursor <= Len(menu.input.text) /\ menu.mark \in Nat \cup {NoMark}
  BY <1>2 DEF Written, Inputs
<1>4. /\ menu.input.text \in Seq(Alphabet) /\ menu.input.cursor \in Nat
      /\ menu.input = [text |-> menu.input.text, cursor |-> menu.input.cursor]
  BY <1>3 DEF Texts
<1>5. Len(menu.input.text) \in Nat
  BY <1>4, LenProperties
<1>6. QED BY <1>1, <1>2, <1>3, <1>4, <1>5

\* A key that edits the input leaves the cursor in it.
LEMMA EditSound ==
  ASSUME SoundInv, NEW input \in Inputs, NEW mark \in Nat \cup {NoMark},
         NEW n, n = Edit(menu, input, mark)
  PROVE  Sound(n, 0)
<1>1. PICK k : k = [Call(menu) EXCEPT !.menu.input = input, !.menu.mark = mark]
  OBVIOUS
<1>2. PICK b : b = k.menu
  OBVIOUS
<1>3. /\ IsCall(k) /\ k.starts = Call(menu).starts
      /\ b = [menu EXCEPT !.input = input, !.mark = mark]
  BY <1>1, <1>2, CallIsSound DEF IsCall
<1>4. /\ IsMenu(b) /\ b.input = input /\ b.mark = mark
      /\ b.completions = menu.completions /\ b.state = menu.state
  BY <1>3, CallIsSound DEF IsMenu
<1>5. Written(b)
  BY <1>4, CallIsSound DEF Written
<1>6. Sound(k, 0)
  BY <1>2, <1>3, <1>4, <1>5, CallIsSound, SoundChange
<1>7. n = HandleInputChanged(Typed(k))
  BY <1>1 DEF Edit
<1>8. QED BY <1>6, <1>7, InputChangedSound

\* Erasing text takes what lies behind the position away, and no more than there is.
LEMMA EraseTextProperties ==
  ASSUME NEW text \in Seq(Alphabet), NEW position \in 0..Len(text), NEW count \in Nat,
         NEW t, t = EraseText(text, position, count)
  PROVE  t \in Seq(Alphabet) /\ Len(t) \in Nat /\ position <= Len(t)
<1>1. Len(text) \in Nat /\ \A i \in 1..Len(text) : text[i] \in Alphabet
  BY LenProperties
<1>2. PICK a, b : a = SubSeq(text, 1, position) /\ b = SubSeq(text, position + count + 1, Len(text))
  OBVIOUS
<1>3. a \in Seq(Alphabet) /\ Len(a) = position
  BY <1>1, <1>2, SubSeqProperties
<1>4. b \in Seq(Alphabet) /\ Len(b) \in Nat
  <2>1. \A i \in (position + count + 1)..Len(text) : text[i] \in Alphabet
    BY <1>1
  <2>2. position + count + 1 \in Int
    BY <1>1
  <2>3. b \in Seq(Alphabet)
    BY <1>1, <1>2, <2>1, <2>2, SubSeqProperties
  <2>4. QED BY <2>3, LenProperties
<1>5. t = a \o b
  BY <1>2 DEF EraseText
<1>6. t \in Seq(Alphabet) /\ Len(t) = Len(a) + Len(b)
  <2>1. a \o b \in Seq(Alphabet) /\ Len(a \o b) = Len(a) + Len(b)
    BY <1>3, <1>4, ConcatProperties
  <2>2. QED BY <1>5, <2>1
<1>7. QED BY <1>1, <1>3, <1>4, <1>6

\* What is marked ahead of the cursor.
LEMMA MarkedAheadIsCount ==
  ASSUME SoundInv
  PROVE  MarkedAhead(menu) \in Nat
BY CallIsSound DEF MarkedAhead, NoMark

\* A typed character takes the place of what is marked ahead of the cursor.
LEMMA InsertCharSound ==
  ASSUME SoundInv, NEW c \in Chars
  PROVE  Sound(InsertChar(menu, c), 0)
<1>1. PICK kept : kept = EraseText(menu.input.text, menu.input.cursor, MarkedAhead(menu))
  OBVIOUS
<1>2. kept \in Seq(Alphabet) /\ Len(kept) \in Nat /\ menu.input.cursor <= Len(kept)
      /\ menu.input.cursor \in Nat
  BY <1>1, CallIsSound, MarkedAheadIsCount, EraseTextProperties
<1>3. c \in Alphabet /\ menu.input.cursor + 1 \in 1..(Len(kept) + 1)
  BY <1>2 DEF Alphabet
<1>4. PICK t : t = InsertAt(kept, menu.input.cursor + 1, c)
  OBVIOUS
<1>5. t \in Seq(Alphabet) /\ Len(t) = Len(kept) + 1
  BY <1>2, <1>3, <1>4, InsertAtPlaces
<1>6. PICK input : input = [text |-> t, cursor |-> menu.input.cursor + 1]
  OBVIOUS
<1>7. input \in Inputs
  BY <1>2, <1>5, <1>6 DEF Inputs, Texts
<1>8. InsertChar(menu, c) = Edit(menu, input, NoMark)
  BY <1>1, <1>4, <1>6 DEF InsertChar
<1>9. QED BY <1>7, <1>8, EditSound

\* backspace erases what is marked behind the cursor, or one character, and the cursor
\* stays where that began.
LEMMA BackspaceSound ==
  ASSUME SoundInv
  PROVE  Sound(Backspace(menu), 0)
<1>1. CASE menu.input.cursor = 0
  BY <1>1, CallIsSound DEF Backspace
<1>2. CASE menu.input.cursor # 0
  <2>1. PICK from : from = IF menu.mark # NoMark /\ menu.input.cursor > menu.mark
                           THEN menu.mark ELSE menu.input.cursor - 1
    OBVIOUS
  <2>2. from \in Nat /\ from < menu.input.cursor
    BY <1>2, <2>1, CallIsSound DEF NoMark
  <2>3. PICK t : t = EraseText(menu.input.text, from, menu.input.cursor - from)
    OBVIOUS
  <2>4. t \in Seq(Alphabet) /\ from <= Len(t)
    <3>1. from \in 0..Len(menu.input.text) /\ menu.input.cursor - from \in Nat
      BY <2>2, CallIsSound
    <3>2. QED BY <2>3, <3>1, CallIsSound, EraseTextProperties
  <2>5. PICK input, mark : /\ input = [text |-> t, cursor |-> from]
                           /\ mark = IF from = menu.mark /\ menu.mark # NoMark
                                     THEN NoMark ELSE menu.mark
    OBVIOUS
  <2>6. input \in Inputs /\ mark \in Nat \cup {NoMark}
    BY <2>2, <2>4, <2>5, CallIsSound DEF Inputs, Texts
  <2>7. Backspace(menu) = Edit(menu, input, mark)
    BY <1>2, <2>1, <2>3, <2>5 DEF Backspace
  <2>8. QED BY <2>6, <2>7, EditSound
<1>3. QED BY <1>1, <1>2

\* The cursor moves within the text.
LEMMA MoveToSound ==
  ASSUME SoundInv, NEW cursor \in 0..Len(menu.input.text)
  PROVE  Sound(MoveTo(menu, cursor), 0)
<1>1. PICK input : input = [menu.input EXCEPT !.cursor = cursor]
  OBVIOUS
<1>2. input = [text |-> menu.input.text, cursor |-> cursor]
  BY <1>1, CallIsSound
<1>3. input \in Inputs
  BY <1>2, CallIsSound DEF Inputs, Texts
<1>4. MoveTo(menu, cursor) = Edit(menu, input, menu.mark)
  BY <1>1 DEF MoveTo
<1>5. QED BY <1>3, <1>4, CallIsSound, EditSound

\* delete erases what is marked ahead of the cursor and a character.
LEMMA DeleteCharSound ==
  ASSUME SoundInv
  PROVE  Sound(DeleteChar(menu), 0)
<1>1. PICK kept, t :
        /\ kept = EraseText(menu.input.text, menu.input.cursor, MarkedAhead(menu))
        /\ t = EraseText(kept, menu.input.cursor, 1)
  OBVIOUS
<1>2. kept \in Seq(Alphabet) /\ Len(kept) \in Nat /\ menu.input.cursor <= Len(kept)
      /\ menu.input.cursor \in Nat
  BY <1>1, CallIsSound, MarkedAheadIsCount, EraseTextProperties
<1>3. t \in Seq(Alphabet) /\ menu.input.cursor <= Len(t)
  BY <1>1, <1>2, EraseTextProperties
<1>4. PICK input : input = [menu.input EXCEPT !.text = t]
  OBVIOUS
<1>5. input = [text |-> t, cursor |-> menu.input.cursor]
  BY <1>4, CallIsSound
<1>6. input \in Inputs
  BY <1>2, <1>3, <1>5 DEF Inputs, Texts
<1>7. DeleteChar(menu) \in {Call(menu), Edit(menu, input, NoMark)}
  BY <1>1, <1>4 DEF DeleteChar
<1>8. Sound(Edit(menu, input, NoMark), 0)
  BY <1>6, EditSound
<1>9. QED BY <1>7, <1>8, CallIsSound

\* kill_line leaves the text before the cursor.
LEMMA KillLineSound ==
  ASSUME SoundInv
  PROVE  Sound(KillLine(menu), 0)
<1>1. PICK t : t = SubSeq(menu.input.text, 1, menu.input.cursor)
  OBVIOUS
<1>2. t \in Seq(Alphabet) /\ Len(t) = menu.input.cursor
  BY <1>1, CallIsSound, LenProperties, SubSeqProperties
<1>3. PICK input : input = [menu.input EXCEPT !.text = SubSeq(@, 1, menu.input.cursor)]
  OBVIOUS
<1>4. input = [text |-> t, cursor |-> menu.input.cursor]
  BY <1>1, <1>3, CallIsSound
<1>5. input \in Inputs
  BY <1>2, <1>4, CallIsSound DEF Inputs, Texts
<1>6. KillLine(menu) \in {Call(menu), Edit(menu, input, menu.mark)}
  BY <1>3 DEF KillLine
<1>7. Sound(Edit(menu, input, menu.mark), 0)
  BY <1>5, CallIsSound, EditSound
<1>8. QED BY <1>6, <1>7, CallIsSound

\* complete performs a completion, or asks for one more.
LEMMA CompleteKeySound ==
  ASSUME SoundInv
  PROVE  Sound(CompleteKey(menu), 0)
<1>1. Sound(PerformCompletion(Call(menu)), 0)
  BY CallIsSound, PerformCompletionSound
<1>2. PICK n : n = [Call(menu) EXCEPT !.menu.queued = @ + 1]
  OBVIOUS
<1>3. PICK b : b = n.menu
  OBVIOUS
<1>4. IsCall(n) /\ n.starts = Call(menu).starts /\ b = [menu EXCEPT !.queued = @ + 1]
  BY <1>2, <1>3, CallIsSound DEF IsCall
<1>5. /\ IsMenu(b) /\ b.input = menu.input /\ b.mark = menu.mark
      /\ b.completions = menu.completions /\ b.state = menu.state
  <2>1. IsMenu(menu)
    BY CallIsSound
  <2>2. QED BY <1>4, <2>1 DEF IsMenu
<1>6. Written(b)
  BY <1>5, CallIsSound DEF Written
<1>7. Sound(n, 0)
  BY <1>3, <1>4, <1>5, <1>6, CallIsSound, SoundChange
<1>8. CompleteKey(menu) \in {Call(menu), PerformCompletion(Call(menu)), n}
  BY <1>2 DEF CompleteKey
<1>9. QED BY <1>1, <1>7, <1>8, CallIsSound

\* The mark is set at the cursor.
LEMMA SetMarkSound ==
  ASSUME SoundInv
  PROVE  Sound(SetMark(menu), 0)
<1>1. PICK n, b : n = SetMark(menu) /\ b = n.menu
  OBVIOUS
<1>2. /\ IsCall(n) /\ n.starts = Call(menu).starts
      /\ b = [menu EXCEPT !.mark = menu.input.cursor, !.scheduled_draw = TRUE]
  BY <1>1, CallIsSound DEF IsCall, SetMark
<1>3. /\ IsMenu(b) /\ b.input = menu.input /\ b.mark = menu.input.cursor
      /\ b.completions = menu.completions /\ b.state = menu.state
  BY <1>2, CallIsSound DEF IsMenu
<1>4. Written(b)
  BY <1>3, CallIsSound DEF Written
<1>5. QED BY <1>1, <1>2, <1>3, <1>4, CallIsSound, SoundChange

\* A menu that is closed waits for nothing.
LEMMA InactivateSound ==
  ASSUME SoundInv
  PROVE  Sound(Inactivate(menu), 0)
<1>1. PICK n, b : n = Inactivate(menu) /\ b = n.menu
  OBVIOUS
<1>2. PICK mode : mode = [menu.mode EXCEPT !.completer = FALSE]
  OBVIOUS
<1>3. mode \in [completer : BOOLEAN, delay : BOOLEAN, thread : BOOLEAN]
  BY <1>2, CallIsSound DEF IsMenu
<1>4. /\ IsCall(n) /\ n.starts = Call(menu).starts
      /\ b = [menu EXCEPT !.active = FALSE, !.scheduled_update_server = TRUE,
                          !.delay = FALSE, !.mode.completer = FALSE,
                          !.completions = NoCompletions, !.state = None]
  BY <1>1, CallIsSound DEF IsCall, Inactivate
<1>5. /\ IsMenu(b) /\ b.input = menu.input /\ b.mark = menu.mark
      /\ b.completions = NoCompletions /\ b.state = None
  <2>1. IsMenu(menu)
    BY CallIsSound
  <2>2. b = [menu EXCEPT !.active = FALSE, !.scheduled_update_server = TRUE,
                         !.delay = FALSE, !.mode = mode,
                         !.completions = NoCompletions, !.state = None]
    BY <1>2, <1>4
  <2>3. IsCompletions(NoCompletions)
    BY DEF IsCompletions, NoCompletions
  <2>4. QED BY <1>3, <2>1, <2>2, <2>3 DEF IsMenu
<1>6. Written(b)
  BY <1>5, CallIsSound DEF Written, IsList, NoCompletions
<1>7. QED BY <1>1, <1>4, <1>5, <1>6, CallIsSound, SoundChange

\* A key of the menu, whether the menu is still open or not.
LEMMA MenuKeySound ==
  ASSUME SoundInv, NEW key \in MenuKeys
  PROVE  Sound(HandleMenuKey(menu, key), 0)
<1>1. Sound(Call(menu), 0)
  BY CallIsSound
<1>2. key \in Chars => Sound(InsertChar(menu, key), 0)
  BY InsertCharSound
<1>3. menu.input.cursor < Len(menu.input.text) => Sound(MoveTo(menu, menu.input.cursor + 1), 0)
  BY CallIsSound, MoveToSound
<1>4. menu.input.cursor > 0 => Sound(MoveTo(menu, menu.input.cursor - 1), 0)
  BY CallIsSound, MoveToSound
<1>5. Sound(MoveTo(menu, 0), 0) /\ Sound(MoveTo(menu, Len(menu.input.text)), 0)
  BY CallIsSound, MoveToSound
<1>6. /\ Sound(Backspace(menu), 0) /\ Sound(DeleteChar(menu), 0) /\ Sound(KillLine(menu), 0)
      /\ Sound(CompleteKey(menu), 0) /\ Sound(SetMark(menu), 0) /\ Sound(Inactivate(menu), 0)
  BY BackspaceSound, DeleteCharSound, KillLineSound, CompleteKeySound, SetMarkSound,
     InactivateSound
<1>7. key \in Chars \cup {"backspace", "forward", "backward", "home", "end", "delete",
                          "kill", "complete", "mark", "enter", "abort"}
  BY KeysAssumption
<1>8. QED BY <1>1, <1>2, <1>3, <1>4, <1>5, <1>6, <1>7 DEF HandleMenuKey

\* read_string starts with a text and waits for nothing yet.
LEMMA ReadStringSound ==
  ASSUME SoundInv, NEW mode \in Modes, NEW input \in Inputs, NEW mark \in Nat \cup {NoMark},
         NEW n, n = ReadString(menu, mode, input, mark)
  PROVE  Sound(n, 0)
<1>1. CASE menu.active
  BY <1>1, CallIsSound DEF ReadString
<1>2. CASE ~ menu.active
  <2>1. PICK b : b = [menu EXCEPT !.active = TRUE, !.mode = mode, !.input = input, !.mark = mark,
                                  !.scheduled_update_server = TRUE, !.scheduled_draw = TRUE,
                                  !.queued = 0]
    OBVIOUS
  <2>2. n = HandleInputChanged(Typed(Call(b)))
    BY <1>2, <2>1 DEF ReadString
  <2>3. mode \in [completer : BOOLEAN, delay : BOOLEAN, thread : BOOLEAN]
    BY ModesAssumption
  <2>4. /\ IsMenu(b) /\ b.input = input /\ b.mark = mark
        /\ b.completions = menu.completions /\ b.state = menu.state
    <3>1. IsMenu(menu)
      BY CallIsSound
    <3>2. QED BY <2>1, <2>3, <3>1 DEF IsMenu
  <2>5. Written(b)
    BY <2>4, CallIsSound DEF Written
  <2>6. IsCall(Call(b)) /\ Call(b).menu = b /\ Call(b).starts = Call(menu).starts
    BY CallIsSound DEF IsCall, Call
  <2>7. Sound(Call(b), 0)
    BY <2>4, <2>5, <2>6, CallIsSound, SoundChange
  <2>8. QED BY <2>2, <2>7, InputChangedSound
<1>3. QED BY <1>1, <1>2

\* finished_updating_completions: an answer that was waited for is waited for no more.
LEMMA FinishedUpdatingSound ==
  ASSUME MenuInv, SoundInv, NEW i \in DOMAIN posted, NEW m, Sound(m, i - 1),
         NEW n, n = FinishedUpdatingCompletions(m, posted[i])
  PROVE  Sound(n, i)
<1>1. PICK post : /\ post = posted[i] /\ IsCompletions(post.completions)
                  /\ IsList(post.completions)
  BY DEF MenuInv, SoundInv
<1>2. \A j \in DOMAIN posted : j \in Int
  BY LenProperties DEF MenuInv
<1>3. CASE m.menu.state # post.id
  <2>1. n = m
    BY <1>1, <1>3 DEF FinishedUpdatingCompletions
  <2>2. \A j \in DOMAIN posted : j > i - 1 => j = i \/ j > i
    BY <1>2
  <2>3. Waits(m, i)
    BY <1>1, <1>3, <2>2 DEF Sound, Waits
  <2>4. QED BY <2>1, <2>3 DEF Sound
<1>4. CASE m.menu.state = post.id
  <2>1. PICK done : done = [m EXCEPT !.menu.state = None]
    OBVIOUS
  <2>2. PICK a, b : a = m.menu /\ b = done.menu
    OBVIOUS
  <2>3. IsCall(done) /\ done.starts = m.starts /\ b = [a EXCEPT !.state = None]
    BY <2>1, <2>2 DEF Sound, IsCall
  <2>4. IsMenu(a) /\ Written(a)
    BY <2>2 DEF Sound
  <2>5. /\ IsMenu(b) /\ b.input = a.input /\ b.mark = a.mark
        /\ b.completions = a.completions /\ b.state = None
    BY <2>3, <2>4 DEF IsMenu
  <2>6. Written(b)
    BY <2>4, <2>5 DEF Written
  <2>7. Sound(done, i)
    BY <2>2, <2>3, <2>5, <2>6 DEF Sound, Waits
  <2>8. n \in {UpdateCompletions(done), SetCompletions(done, post.completions), done}
    BY <1>1, <1>4, <2>1 DEF FinishedUpdatingCompletions
  <2>9. QED BY <1>1, <2>7, <2>8, UpdateCompletionsSound, SetCompletionsSound
<1>5. QED BY <1>3, <1>4

\* The main loop handles everything that was posted, in order.
LEMMA PostsAreSound ==
  ASSUME MenuInv, SoundInv, NEW f, HandlesPosts(f, Call(menu), Len(posted))
  PROVE  Sound(f[Len(posted)], Len(posted))
<1>1. PICK size : size = Len(posted) /\ size \in Nat /\ DOMAIN posted = 1..size
  BY LenProperties DEF MenuInv
<1>2. /\ f[0] = Call(menu)
      /\ \A i \in 1..size : f[i] = FinishedUpdatingCompletions(f[i - 1], posted[i])
  BY <1>1 DEF HandlesPosts
<1> DEFINE T == {i \in Nat : Sound(f[i], i)}
<1>3. 0 \in T
  BY <1>2, CallIsSound
<1>4. ASSUME NEW i \in 1..size, i - 1 \in T PROVE i \in T
  <2>1. PICK a, b : a = f[i - 1] /\ b = f[i]
    OBVIOUS
  <2>2. i \in DOMAIN posted /\ Sound(a, i - 1) /\ b = FinishedUpdatingCompletions(a, posted[i])
    BY <1>1, <1>2, <1>4, <2>1
  <2>3. Sound(b, i)
    BY <2>2, FinishedUpdatingSound
  <2>4. QED BY <1>1, <2>1, <2>3
<1>5. size \in T
  <2> HIDE DEF T
  <2>1. QED BY <1>1, <1>3, <1>4, AfterTurns
<1>6. QED BY <1>1, <1>5

\* A handler that returns leaves the menu it made, and its thread runs.
LEMMA ReturnSound ==
  ASSUME NEW m, NEW i, Sound(m, i), Return(m),
         \/ posted' = posted /\ i = 0
         \/ posted' = <<>> /\ i = Len(posted),
         posted \in Seq(ToSet(posted))
  PROVE  Sound(Call(menu), 0)'
<1>1. Named(m) /\ menu' = m.menu /\ history' = m.history /\ threads' = threads \cup m.starts
  BY DEF Return, Named
<1>2. PICK n : n = Call(menu)'
  OBVIOUS
<1>3. /\ n = [menu |-> m.menu, starts |-> {}, history |-> m.history]
      /\ IsCall(n) /\ n.menu = m.menu /\ n.starts = {}
  BY <1>1, <1>2 DEF Call, IsCall, Sound
<1>4. IsMenu(n.menu) /\ Written(n.menu)
  BY <1>3 DEF Sound
<1>5. \A j \in DOMAIN posted : j > i => j \in DOMAIN posted' /\ posted'[j] = posted[j] /\ j > 0
  <2>1. DOMAIN posted = 1..Len(posted) /\ Len(posted) \in Nat
    BY LenProperties
  <2>2. QED BY <2>1
<1>6. m.menu.state \in StateIds \cup {None}
  BY <1>1 DEF Sound, Waits
<1>7. m.menu.state # None =>
        \/ \E t \in threads' : t.id = m.menu.state
        \/ \E j \in DOMAIN posted' : j > 0 /\ posted'[j].id = m.menu.state
  BY <1>1, <1>5 DEF Sound, Waits
<1>8. (Waits(Call(menu), 0))'
  BY <1>2, <1>3, <1>6, <1>7 DEF Waits
<1>9. (IsCall(Call(menu)) /\ IsMenu(Call(menu).menu) /\ Written(Call(menu).menu))'
  BY <1>2, <1>3, <1>4
     DEF IsMenu, IsCompletions, Written, IsCall, Inputs, IsList
<1>10. QED BY <1>8, <1>9 DEF Sound

\* A step that leaves the menu, its threads and their answers alone.
LEMMA NothingToWaitFor ==
  ASSUME MenuInv, SoundInv, UNCHANGED <<threads, posted, history>>,
         menu' = menu \/ (IsMenu(menu') /\ menu'.input = menu.input /\ menu'.mark = menu.mark
                          /\ menu'.completions = menu.completions /\ menu'.state = menu.state)
  PROVE  SoundInv'
<1>1. PICK n : n = Call(menu)'
  OBVIOUS
<1>2. n = [menu |-> menu', starts |-> {}, history |-> history] /\ IsCall(n)
  BY <1>1, CallIsSound DEF Call, IsCall
<1>3. n.menu = menu' /\ n.starts = Call(menu).starts
  BY <1>2, CallIsSound
<1>4. IsMenu(n.menu) /\ Written(n.menu) /\ n.menu.state = menu.state
  BY <1>3, CallIsSound DEF Written
<1>5. Sound(n, 0)
  BY <1>2, <1>3, <1>4, CallIsSound, SoundChange
<1>6. Return(n)
  BY <1>2 DEF Return
<1>7. Sound(Call(menu), 0)'
  <2>1. posted \in Seq(ToSet(posted)) /\ posted' = posted
    BY DEF MenuInv
  <2>2. QED BY <1>5, <1>6, <2>1, ReturnSound
<1>8. QED BY <1>7 DEF SoundInv, IsList

\* The first state.
LEMMA InitSound ==
  ASSUME Init
  PROVE  SoundInv
<1>1. PICK n : n = Call(menu)
  OBVIOUS
<1>2. /\ n = [menu |-> menu, starts |-> {}, history |-> history]
      /\ history = [typed |-> NoInput, inputs |-> {NoInput}]
      /\ menu = Inactive
  BY <1>1 DEF Init, Call
<1>3. IsMenu(menu) /\ menu.state = None
  BY <1>2 DEF Inactive, NoMode, IsMenu, IsCompletions, NoCompletions
<1>4. Written(menu)
  <2>1. menu.input = NoInput /\ menu.mark = NoMark /\ menu.completions = NoCompletions
    BY <1>2 DEF Inactive
  <2>2. NoInput \in Inputs
    <3>1. <<>> \in Texts /\ Len(<<>>) = 0
      BY EmptySeq DEF Texts
    <3>2. QED BY <3>1 DEF NoInput, Inputs
  <2>3. IsList(NoCompletions)
    BY DEF IsList, NoCompletions
  <2>4. QED BY <2>1, <2>2, <2>3 DEF Written
<1>5. IsCall(n) /\ n.menu = menu
  BY <1>2 DEF IsCall
<1>6. Sound(n, 0)
  BY <1>3, <1>4, <1>5 DEF Sound, Waits
<1>7. QED BY <1>1, <1>6 DEF Init, SoundInv

\* A key comes, is handled, or the delay is over.
LEMMA KeySound ==
  ASSUME MenuInv, SoundInv, HandleKey
  PROVE  SoundInv'
<1>1. posted' = posted /\ posted \in Seq(ToSet(posted)) /\ Head(keys) \in Presses
  BY DEF HandleKey, MenuInv
<1>2. ASSUME NEW m, Sound(m, 0), Return(m) PROVE SoundInv'
  <2>1. Sound(Call(menu), 0)'
    BY <1>1, <1>2, ReturnSound
  <2>2. QED BY <1>1, <2>1 DEF SoundInv, IsList
<1>3. CASE Head(keys).window = "menu" /\ Return(HandleMenuKey(menu, Head(keys).key))
  <2>1. Head(keys).key \in MenuKeys
    BY <1>1, <1>3 DEF Presses
  <2>2. QED BY <1>2, <1>3, <2>1, MenuKeySound
<1>4. CASE HandleRootKey(Head(keys).key)
  <2>1. CASE UNCHANGED <<menu, threads, history>>
    BY <1>1, <2>1, NothingToWaitFor
  <2>2. ASSUME NEW mode \in Modes, NEW text \in Initial, NEW input, NEW mark,
               \/ input = [text |-> text, cursor |-> 0] /\ mark = Len(text)
               \/ input = Completion(text) /\ mark \in {0, NoMark},
               Return(ReadString(menu, mode, input, mark))
        PROVE  SoundInv'
    <3>1. text \in Texts /\ Len(text) \in Nat
      BY TextsAssumption, LenProperties DEF Texts
    <3>2. [text |-> text, cursor |-> 0] \in Inputs
      BY <3>1 DEF Inputs
    <3>3. input \in Inputs /\ mark \in Nat \cup {NoMark}
      BY <2>2, <3>1, <3>2, CompletionIsInput
    <3>4. QED BY <1>2, <2>2, <3>3, ReadStringSound
  <2>3. QED BY <1>4, <2>1, <2>2 DEF HandleRootKey
<1>5. QED BY <1>3, <1>4 DEF HandleKey

\* Completions that were delayed.
LEMMA DelaySound ==
  ASSUME MenuInv, SoundInv, CompletionDelay
  PROVE  SoundInv'
<1>1. PICK m, b : m = Call([menu EXCEPT !.delay = FALSE]) /\ b = m.menu
  OBVIOUS
<1>2. /\ IsCall(m) /\ m.starts = Call(menu).starts
      /\ b = [menu EXCEPT !.delay = FALSE]
  BY <1>1, CallIsSound DEF IsCall, Call
<1>3. /\ IsMenu(b) /\ b.input = menu.input /\ b.mark = menu.mark
      /\ b.completions = menu.completions /\ b.state = menu.state
  <2>1. IsMenu(menu)
    BY CallIsSound
  <2>2. QED BY <1>2, <2>1 DEF IsMenu
<1>4. Written(b)
  BY <1>3, CallIsSound DEF Written
<1>5. Sound(m, 0)
  BY <1>1, <1>2, <1>3, <1>4, CallIsSound, SoundChange
<1>6. PICK n : /\ Return(n)
               /\ n \in {UpdateCompletions(m), SetCompletions(m, Completer(menu.input))}
  BY <1>1 DEF CompletionDelay
<1>7. Sound(n, 0)
  BY <1>5, <1>6, UpdateCompletionsSound, SetCompletionsSound, CompleterProperties, CompleterIsList
<1>8. posted' = posted /\ posted \in Seq(ToSet(posted))
  BY DEF CompletionDelay, MenuInv
<1>9. Sound(Call(menu), 0)'
  BY <1>6, <1>7, <1>8, ReturnSound
<1>10. QED BY <1>8, <1>9 DEF SoundInv, IsList

\* Whoever waits for a thread that is done waits for what it posted.
LEMMA FinishSound ==
  ASSUME MenuInv, SoundInv, NEW id \in StateIds, FinishCompleter(id)
  PROVE  SoundInv'
<1>1. PICK t, c :
        /\ t \in threads /\ c = Completer(t.input)
        /\ t.id = id /\ threads' = threads \ {t}
        /\ posted' = Append(posted, [id |-> id, completions |-> c])
  BY DEF FinishCompleter
<1>2. PICK e : e = [id |-> id, completions |-> c] /\ IsList(c)
  BY <1>1, CompleterIsList
<1>3. /\ Len(posted) \in Nat /\ DOMAIN posted = 1..Len(posted)
      /\ DOMAIN posted' = 1..(Len(posted) + 1)
      /\ \A j \in DOMAIN posted : posted'[j] = posted[j]
      /\ posted'[Len(posted) + 1] = e
  BY <1>1, <1>2, AppendProperties, LenProperties DEF MenuInv
<1>4. UNCHANGED <<menu, history>>
  BY DEF FinishCompleter
<1>5. PICK n : n = Call(menu)'
  OBVIOUS
<1>6. n = Call(menu) /\ IsCall(n) /\ IsMenu(n.menu) /\ Written(n.menu)
      /\ n.menu = menu /\ n.starts = {}
  BY <1>4, <1>5, CallIsSound DEF Call
<1>7. (IsCall(Call(menu)) /\ IsMenu(Call(menu).menu) /\ Written(Call(menu).menu))'
  BY <1>5, <1>6 DEF IsMenu, IsCompletions, Written, IsCall, Inputs, IsList
<1>8. Waits(Call(menu), 0) /\ Named(Call(menu)) /\ Call(menu).menu = menu /\ Call(menu).starts = {}
  BY CallIsSound DEF Sound, Named
<1>9. menu.state # None =>
        \/ \E u \in threads' : u.id = menu.state
        \/ \E j \in DOMAIN posted' : j > 0 /\ posted'[j].id = menu.state
  <2>1. ASSUME NEW u \in threads, u.id = menu.state
        PROVE  \/ \E x \in threads' : x.id = menu.state
               \/ \E j \in DOMAIN posted' : j > 0 /\ posted'[j].id = menu.state
    <3>1. CASE u # t
      BY <1>1, <2>1, <3>1
    <3>2. CASE u = t
      <4>1. Len(posted) + 1 \in DOMAIN posted' /\ Len(posted) + 1 > 0
        BY <1>3
      <4>2. posted'[Len(posted) + 1].id = menu.state
        BY <1>1, <1>2, <1>3, <2>1, <3>2
      <4>3. QED BY <4>1, <4>2
    <3>3. QED BY <3>1, <3>2
  <2>2. ASSUME NEW j \in DOMAIN posted, j > 0, posted[j].id = menu.state
        PROVE  \E k \in DOMAIN posted' : k > 0 /\ posted'[k].id = menu.state
    <3>1. j \in DOMAIN posted' /\ posted'[j] = posted[j]
      BY <1>3
    <3>2. QED BY <2>2, <3>1
  <2>3. QED BY <1>8, <2>1, <2>2 DEF Waits
<1>10. (Waits(Call(menu), 0))'
  <2>1. menu.state \in StateIds \cup {None}
    BY <1>8 DEF Waits
  <2>2. QED BY <1>4, <1>5, <1>6, <1>9, <2>1 DEF Waits
<1>11. \A j \in DOMAIN posted' : IsList(posted'[j].completions)
  BY <1>2, <1>3 DEF SoundInv
<1>12. QED BY <1>7, <1>10, <1>11 DEF SoundInv, Sound, IsList

\* finished_updating_completions of everything that was posted.
LEMMA PostedSound ==
  ASSUME MenuInv, SoundInv, HandlePosted
  PROVE  SoundInv'
<1>1. \E f : HandlesPosts(f, Call(menu), Len(posted))
  BY PostedRecursion, LenProperties DEF MenuInv
<1>2. Return((CHOOSE f : HandlesPosts(f, Call(menu), Len(posted)))[Len(posted)])
  BY Zenon DEF HandlePosted, HandlesPosts
<1>3. PICK f : HandlesPosts(f, Call(menu), Len(posted)) /\ Return(f[Len(posted)])
  BY <1>1, <1>2, Zenon
<1>4. PICK m, i : m = f[Len(posted)] /\ i = Len(posted)
  OBVIOUS
<1>5. Sound(m, i) /\ Return(m)
  BY <1>3, <1>4, PostsAreSound
<1>6. posted \in Seq(ToSet(posted)) /\ posted' = <<>>
  BY DEF HandlePosted, MenuInv
<1>7. Sound(Call(menu), 0)'
  BY <1>4, <1>5, <1>6, ReturnSound
<1>8. QED BY <1>6, <1>7 DEF SoundInv

\* What is drawn and what is lost is no matter of the input.
LEMMA ScreenSound ==
  ASSUME MenuInv, SoundInv, Flush \/ \E window \in Exposed : HandleExpose(window)
  PROVE  SoundInv'
<1>1. UNCHANGED <<threads, posted, history>>
  BY DEF Flush, HandleExpose
<1>2. IsMenu(menu)
  BY CallIsSound
<1>3. CASE \E window \in Exposed : HandleExpose(window)
  <2>1. menu' = [menu EXCEPT !.scheduled_draw = @ \/ menu.active]
    BY <1>3 DEF HandleExpose
  <2>2. PICK e \in BOOLEAN : e = (menu.scheduled_draw \/ menu.active)
    OBVIOUS
  <2>3. menu' = [menu EXCEPT !.scheduled_draw = e]
    BY <2>1, <2>2
  <2>4. /\ IsMenu(menu') /\ menu'.input = menu.input /\ menu'.mark = menu.mark
        /\ menu'.completions = menu.completions /\ menu'.state = menu.state
    BY <1>2, <2>3 DEF IsMenu
  <2>5. QED BY <1>1, <2>4, NothingToWaitFor
<1>4. CASE Flush
  <2>1. PICK done : done = [menu EXCEPT !.scheduled_update_server = FALSE,
                                        !.scheduled_draw = FALSE]
    OBVIOUS
  <2>2. /\ IsMenu(done) /\ done.input = menu.input /\ done.mark = menu.mark
        /\ done.completions = menu.completions /\ done.state = menu.state
    BY <1>2, <2>1 DEF IsMenu
  <2>3. \/ menu' = done
        \/ \E e \in BOOLEAN : menu' = [done EXCEPT !.keyboard_grabbed = e]
    BY <1>4, <2>1 DEF Flush
  <2>4. /\ IsMenu(menu') /\ menu'.input = menu.input /\ menu'.mark = menu.mark
        /\ menu'.completions = menu.completions /\ menu'.state = menu.state
    BY <2>2, <2>3 DEF IsMenu
  <2>5. QED BY <1>1, <2>4, NothingToWaitFor
<1>5. QED BY <1>3, <1>4

\* The cursor is in the text and the mark is a position; what is counted as asked for is
\* never less than nothing; and a menu that waits for completions waits for those of a
\* thread that runs or has posted them (menu.cpp, InputState and completion_state).
THEOREM MenuTypesStay == Spec => []MenuTypeOK
<1>1. Init => SoundInv
  BY InitSound
<1>2. MenuInv /\ SoundInv /\ [Next]_vars => SoundInv'
  <2> SUFFICES ASSUME MenuInv, SoundInv, [Next]_vars PROVE SoundInv'
    OBVIOUS
  <2>1. ASSUME NEW key \in MenuKeys \cup RootKeys, PressKey(key) PROVE SoundInv'
    BY <2>1, NothingToWaitFor DEF PressKey
  <2>2. CASE KeySequenceTimeout
    BY <2>2, NothingToWaitFor DEF KeySequenceTimeout
  <2>3. ASSUME NEW id \in StateIds, FinishCompleter(id) PROVE SoundInv'
    BY <2>3, FinishSound
  <2>4. ASSUME NEW window \in Exposed, HandleExpose(window) PROVE SoundInv'
    BY <2>4, ScreenSound
  <2>5. CASE UNCHANGED vars
    BY <2>5, NothingToWaitFor DEF vars
  <2>6. QED BY <2>1, <2>2, <2>3, <2>4, <2>5, KeySound, DelaySound, PostedSound, ScreenSound DEF Next
<1>3. MenuInv /\ SoundInv => MenuTypeOK
  <2> SUFFICES ASSUME MenuInv, SoundInv PROVE MenuTypeOK
    OBVIOUS
  <2>1. Waits(Call(menu), 0) /\ Named(Call(menu)) /\ Call(menu).menu = menu /\ Call(menu).starts = {}
    BY CallIsSound DEF Sound, Named
  <2>2. menu.state # None => \E t \in threads \cup ToSet(posted) : t.id = menu.state
    BY <2>1 DEF Waits, ToSet
  <2>3. menu.state \in StateIds \cup {None}
    BY <2>1 DEF Waits
  <2>4. menu.queued \in Nat
    BY CallIsSound DEF IsMenu
  <2>5. keyboard \in {"menu", "root", None}
    BY DEF MenuInv
  <2>6. QED BY <2>2, <2>3, <2>4, <2>5, CallIsSound DEF MenuTypeOK, Texts
<1>4. QED BY <1>1, <1>2, <1>3, MenuInvariant, PTL DEF Spec
=============================================================================
