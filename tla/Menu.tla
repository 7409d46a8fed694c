-------------------------------- MODULE Menu --------------------------------
(***************************************************************************)
(* The menu (menu.cpp), a line of input with completions at the bottom of  *)
(* the screen: what its keys do to the line, how completions are computed, *)
(* at once, after a delay or by another thread, what its two windows show, *)
(* and the grab of the keyboard, which it takes and gives back without     *)
(* asking whether a pending key sequence of the global bindings (key.cpp)  *)
(* holds it.                                                               *)
(*                                                                         *)
(* The completer is that of a list of entries (list_completion.cpp).       *)
(***************************************************************************)
EXTENDS Integers, Sequences, FiniteSets, SequencesExt

CONSTANTS
  Entries,     \* the entries that may complete the input, a sequence of texts
  Chars,       \* characters that may be typed
  Initial,     \* texts the input may start with
  Modes,       \* how read_string may be called: [completer, delay, thread]
  MenuKeys,    \* the keys used in the menu, characters among them
  RootKeys,    \* keys of the root window: "prefix", "open" and "other"
  MaxText,     \* characters are typed while the text is shorter
  MaxQueue,    \* bound on the key presses not handled yet
  MaxQueued,   \* completions are asked for while fewer are queued
  StateIds,    \* names for the CompletionState objects alive at a time; the menu is
               \* opened while two are free
  Exposed,     \* windows of the menu whose contents may be lost
  GrabMayFail, \* whether another program may hold the keyboard
  Lost,        \* contents of a window that are lost
  None

ASSUME BoundsAreNatural == MaxText \in Nat /\ MaxQueue \in Nat /\ MaxQueued \in Nat
ASSUME NoneIsNoId == None \notin StateIds \cup {"menu", "root"}
ASSUME ModesAssumption == Modes \subseteq [completer : BOOLEAN, delay : BOOLEAN, thread : BOOLEAN]
ASSUME KeysAssumption ==
  MenuKeys \subseteq Chars \cup {"backspace", "forward", "backward", "home", "end", "delete",
                                "kill", "complete", "mark", "enter", "abort"}
ASSUME ExposedAssumption == Exposed \subseteq {"menu", "completions"}

\* Texts are sequences of characters: those of the entries, of what the input may start
\* with, and those that may be typed.
Alphabet == Chars \cup UNION {ToSet(text) : text \in ToSet(Entries) \cup Initial}
Texts == Seq(Alphabet)

ASSUME TextsAssumption == Entries \in Seq(Texts) /\ Initial \subseteq Texts

VARIABLES
  menu,      \* class Menu
  threads,   \* completers that run: [id, input]
  posted,    \* what they posted to the main thread, in order
  pending,   \* whether global_bindctx has a current_kmap
  keyboard,  \* server: the window the keyboard is grabbed for, or None
  keys,      \* key presses the server sent: [window, key]
  shown,     \* server: what the windows of the menu show
  history    \* the input last typed, or completed so that completions are computed
             \* again, and what completing made of it since

vars == <<menu, threads, posted, pending, keyboard, keys, shown, history>>

NoMark == -1
NoInput == [text |-> <<>>, cursor |-> 0]
NoMode == [completer |-> FALSE, delay |-> FALSE, thread |-> FALSE]
NoCompletions == [list |-> <<>>, common_prefix |-> FALSE, selected |-> 0]  \* no object

ASSUME LostIsNoPicture == Lost \notin {None, NoCompletions}

Inactive ==
  [active |-> FALSE, mode |-> NoMode, input |-> NoInput, mark |-> NoMark,
   completions |-> NoCompletions, valid |-> FALSE, queued |-> 0, delay |-> FALSE,
   state |-> None, expired |-> FALSE, recompute |-> FALSE,
   scheduled_update_server |-> FALSE, scheduled_draw |-> FALSE,
   keyboard_grabbed |-> FALSE]

(***************************************************************************)
(* A list of completions, and what completing does with it.                *)
(***************************************************************************)
Completion(text) == [text |-> text, cursor |-> Len(text)]

\* The entries that begin with a text.
EntriesWith(text) ==
  LET found[i \in 0..Len(Entries)] ==
        IF i = 0 THEN <<>>
        ELSE IF IsPrefix(text, Entries[i]) THEN Append(found[i - 1], Entries[i])
        ELSE found[i - 1]
  IN found[Len(Entries)]

\* NoCompletions when nothing completes the input.
Completer(input) ==
  LET list == EntriesWith(input.text)
      done == Len(list) = 1 /\ Completion(list[1]) = input
  IN IF list = <<>> THEN NoCompletions
     ELSE [list |-> list, common_prefix |-> ~ done, selected |-> IF done THEN 1 ELSE 0]

\* ListCompletions::complete: first to the common prefix of the list, then to its
\* entries in turn.
Complete(completions, input) ==
  LET prefix == Completion(LongestCommonPrefix(ToSet(completions.list)))
      next == (completions.selected % Len(completions.list)) + 1
  IN IF completions.common_prefix /\ prefix # input
     THEN [input |-> prefix, again |-> TRUE,
           completions |-> [completions EXCEPT !.common_prefix = FALSE]]
     ELSE [input |-> Completion(completions.list[next]), again |-> FALSE,
           completions |-> [completions EXCEPT !.common_prefix = FALSE, !.selected = next]]

(***************************************************************************)
(* Computing completions.  m is a Menu with the history and the threads    *)
(* that its call starts, one at most.                                      *)
(***************************************************************************)
Call(m) == [menu |-> m, starts |-> {}, history |-> history]

\* Mutant: set_completions schedules the drawing and not the update of the windows.
SetCompletions1WithoutUpdate(m, completions) ==
  [m EXCEPT !.menu.completions = completions, !.menu.valid = TRUE,
            !.menu.scheduled_draw = TRUE]

SetCompletions1(m, completions) ==
  [m EXCEPT !.menu.completions = completions, !.menu.valid = TRUE,
            !.menu.scheduled_draw = TRUE, !.menu.scheduled_update_server = TRUE]

FreeIds == StateIds \ ({t.id : t \in threads} \cup {posted[i].id : i \in DOMAIN posted})
FreshId == CHOOSE id \in FreeIds : TRUE

\* To be posted once it has run for the input of the moment.
StartThread(m) ==
  [m EXCEPT !.starts = {[id |-> FreshId, input |-> m.menu.input]},
            !.menu.state = FreshId, !.menu.expired = FALSE, !.menu.recompute = FALSE]

\* From handle_input_changed.  Completions that are computed at once are valid all
\* the time, so that none is queued.
UpdateCompletions(m) ==
  IF ~ m.menu.mode.thread THEN SetCompletions1(m, Completer(m.menu.input))
  ELSE IF m.menu.state # None THEN [m EXCEPT !.menu.recompute = TRUE]
  ELSE StartThread(m)

\* The input is what completions are to be computed for from now on.
Typed(m) ==
  IF m.menu.mode.completer
  THEN [m EXCEPT !.history.typed = m.menu.input, !.history.inputs = {m.menu.input}]
  ELSE m

\* Mutant: the thread that computes completions is not told that they have expired.
HandleInputChangedWithoutExpiry(m) ==
  IF ~ m.menu.mode.completer THEN [m EXCEPT !.menu.scheduled_draw = TRUE]
  ELSE LET invalid == [m EXCEPT !.menu.scheduled_draw = TRUE, !.menu.valid = FALSE]
       IN IF m.menu.mode.delay THEN [invalid EXCEPT !.menu.delay = TRUE]
          ELSE UpdateCompletions(invalid)

HandleInputChanged(m) ==
  IF ~ m.menu.mode.completer THEN [m EXCEPT !.menu.scheduled_draw = TRUE]
  ELSE LET invalid == [m EXCEPT !.menu.scheduled_draw = TRUE, !.menu.valid = FALSE,
                                !.menu.expired = (m.menu.state # None)]
       IN IF m.menu.mode.delay THEN [invalid EXCEPT !.menu.delay = TRUE]
          ELSE UpdateCompletions(invalid)

PerformCompletion(m) ==
  IF m.menu.completions = NoCompletions THEN m
  ELSE LET done == Complete(m.menu.completions, m.menu.input)
           input == [m EXCEPT !.menu.input = done.input, !.menu.completions = done.completions,
                              !.history.inputs = @ \cup {done.input}]
           told == IF done.again THEN HandleInputChanged(Typed(input)) ELSE input
       IN [told EXCEPT !.menu.scheduled_draw = TRUE, !.menu.mark = NoMark]

PerformQueued(m) == PerformCompletion([m EXCEPT !.menu.queued = @ - 1])

\* All completions asked for meanwhile are performed.
SetCompletions(m, completions) ==
  LET after[i \in 0..m.menu.queued] ==
        IF i = 0 THEN SetCompletions1(m, completions) ELSE PerformQueued(after[i - 1])
  IN after[m.menu.queued]

(***************************************************************************)
(* Keys of the menu.                                                       *)
(***************************************************************************)
EraseText(text, position, count) ==
  SubSeq(text, 1, position) \o SubSeq(text, position + count + 1, Len(text))

MarkedAhead(m) == IF m.mark > m.input.cursor THEN m.mark - m.input.cursor ELSE 0

Edit(m, input, mark) ==
  HandleInputChanged(Typed([Call(m) EXCEPT !.menu.input = input, !.menu.mark = mark]))

InsertChar(m, c) ==
  LET kept == EraseText(m.input.text, m.input.cursor, MarkedAhead(m))
  IN Edit(m, [text |-> InsertAt(kept, m.input.cursor + 1, c),
              cursor |-> m.input.cursor + 1], NoMark)

\* Mutant: the cursor goes back by one character where the marked text is erased.
BackspaceByOne(m) ==
  LET from == IF m.mark # NoMark /\ m.input.cursor > m.mark THEN m.mark ELSE m.input.cursor - 1
  IN IF m.input.cursor = 0 THEN Call(m)
     ELSE Edit(m, [text |-> EraseText(m.input.text, from, m.input.cursor - from),
                   cursor |-> m.input.cursor - 1],
               IF from = m.mark /\ m.mark # NoMark THEN NoMark ELSE m.mark)

Backspace(m) ==
  LET from == IF m.mark # NoMark /\ m.input.cursor > m.mark THEN m.mark ELSE m.input.cursor - 1
  IN IF m.input.cursor = 0 THEN Call(m)
     ELSE Edit(m, [text |-> EraseText(m.input.text, from, m.input.cursor - from),
                   cursor |-> from],
               IF from = m.mark /\ m.mark # NoMark THEN NoMark ELSE m.mark)

\* Moving the cursor is a change too: the completer is given its position.
MoveTo(m, cursor) == Edit(m, [m.input EXCEPT !.cursor = cursor], m.mark)

DeleteChar(m) ==
  LET kept == EraseText(m.input.text, m.input.cursor, MarkedAhead(m))
  IN IF m.input.cursor >= Len(m.input.text) THEN Call(m)
     ELSE Edit(m, [m.input EXCEPT !.text = EraseText(kept, m.input.cursor, 1)], NoMark)

\* Mutant: kill_line redraws the input without telling the completer.
KillLineQuietly(m) ==
  IF m.input.cursor >= Len(m.input.text) THEN Call(m)
  ELSE Typed([Call(m) EXCEPT !.menu.input.text = SubSeq(@, 1, m.input.cursor),
                             !.menu.scheduled_draw = TRUE])

KillLine(m) ==
  IF m.input.cursor >= Len(m.input.text) THEN Call(m)
  ELSE Edit(m, [m.input EXCEPT !.text = SubSeq(@, 1, m.input.cursor)], m.mark)

CompleteKey(m) ==
  IF ~ m.mode.completer THEN Call(m)
  ELSE IF m.valid THEN PerformCompletion(Call(m))
  ELSE [Call(m) EXCEPT !.menu.queued = @ + 1]

SetMark(m) == [Call(m) EXCEPT !.menu.mark = m.input.cursor, !.menu.scheduled_draw = TRUE]

\* What read_string was given runs first; a prompt it makes is refused.
Inactivate(m) ==
  [Call(m) EXCEPT !.menu.active = FALSE, !.menu.scheduled_update_server = TRUE,
                  !.menu.delay = FALSE, !.menu.mode.completer = FALSE,
                  !.menu.completions = NoCompletions, !.menu.state = None]

HandleMenuKey(m, key) ==
  CASE ~ m.active -> Call(m)
    [] key \in Chars -> InsertChar(m, key)
    [] key = "backspace" -> Backspace(m)
    [] key = "forward" ->
         IF m.input.cursor < Len(m.input.text) THEN MoveTo(m, m.input.cursor + 1) ELSE Call(m)
    [] key = "backward" ->
         IF m.input.cursor > 0 THEN MoveTo(m, m.input.cursor - 1) ELSE Call(m)
    [] key = "home" -> IF m.input.cursor > 0 THEN MoveTo(m, 0) ELSE Call(m)
    [] key = "end" -> MoveTo(m, Len(m.input.text))
    [] key = "delete" -> DeleteChar(m)
    [] key = "kill" -> KillLine(m)
    [] key = "complete" -> CompleteKey(m)
    [] key = "mark" -> SetMark(m)
    [] key \in {"enter", "abort"} -> Inactivate(m)

ReadString(m, mode, input, mark) ==
  IF m.active THEN Call(m)
  ELSE HandleInputChanged(Typed(Call(
         [m EXCEPT !.active = TRUE, !.mode = mode, !.input = input, !.mark = mark,
                   !.scheduled_update_server = TRUE, !.scheduled_draw = TRUE, !.queued = 0])))

(***************************************************************************)
(* The X server sends a key to the window the keyboard is grabbed for, or, *)
(* when there is none, to the root window if it is a key grabbed there or  *)
(* comes while such a key is held.                                         *)
(***************************************************************************)
PressKey(key) ==
  /\ Len(keys) < MaxQueue
  /\ key \in Chars => Len(menu.input.text) < MaxText
  /\ key = "complete" => menu.queued < MaxQueued
  /\ key = "open" => Cardinality(FreeIds) > 1
  /\ \/ /\ keyboard = "menu" /\ key \in MenuKeys
        /\ keys' = Append(keys, [window |-> "menu", key |-> key])
     \/ /\ keyboard = "root" /\ key \in RootKeys
        /\ keys' = Append(keys, [window |-> "root", key |-> key])
     \/ /\ keyboard = None /\ key \in RootKeys
        /\ key # "other" \/ (keys # <<>> /\ Last(keys).window = "root")
        /\ keys' = Append(keys, [window |-> "root", key |-> key])
  /\ UNCHANGED <<menu, threads, posted, pending, keyboard, shown, history>>

GrabbedFor(window) == {window} \cup (IF GrabMayFail THEN {keyboard} ELSE {})

\* Some name is free whenever a thread starts.
Return(m) ==
  /\ m.starts # {} => FreeIds # {}
  /\ menu' = m.menu
  /\ history' = m.history
  /\ threads' = threads \cup m.starts

\* WKeyBindingContext::process_keypress of the global context; "prefix" starts a
\* key sequence, "open" opens the menu, by itself or at the end of the sequence.
HandleRootKey(key) ==
  \/ /\ key = "prefix" /\ ~ pending
     /\ pending' = TRUE
     /\ keyboard' \in GrabbedFor("root")
     /\ UNCHANGED <<menu, threads, history>>
  \/ /\ key = "other" \/ (key = "prefix" /\ pending)
     /\ pending' = FALSE
     /\ keyboard' = IF pending THEN None ELSE keyboard
     /\ UNCHANGED <<menu, threads, history>>
  \/ /\ key = "open"
     /\ pending' = FALSE
     /\ keyboard' = IF pending THEN None ELSE keyboard
     /\ \E mode \in Modes, text \in Initial :
          \/ Return(ReadString(menu, mode, [text |-> text, cursor |-> 0], Len(text)))
          \/ Return(ReadString(menu, mode, Completion(text), 0))
          \/ Return(ReadString(menu, mode, Completion(text), NoMark))

HandleKey ==
  /\ keys # <<>>
  /\ keys' = Tail(keys)
  /\ \/ Head(keys).window = "root" /\ HandleRootKey(Head(keys).key)
     \/ /\ Head(keys).window = "menu"
        /\ Return(HandleMenuKey(menu, Head(keys).key))
        /\ UNCHANGED <<pending, keyboard>>
  /\ UNCHANGED <<posted, shown>>

\* Mutant: the timeout forgets the sequence and keeps the keyboard.
KeySequenceTimeoutWithoutUngrab ==
  /\ pending
  /\ pending' = FALSE
  /\ UNCHANGED <<menu, threads, posted, keyboard, keys, shown, history>>

\* kmap_reset_event.  The keyboard is released whoever it was grabbed for.
KeySequenceTimeout ==
  /\ pending
  /\ pending' = FALSE
  /\ keyboard' = None
  /\ UNCHANGED <<menu, threads, posted, keys, shown, history>>

\* completion_delay, 100 ms after the last change of the input.
CompletionDelay ==
  /\ menu.delay
  /\ LET m == Call([menu EXCEPT !.delay = FALSE])
     IN Return(IF menu.mode.thread THEN UpdateCompletions(m)
               ELSE SetCompletions(m, Completer(menu.input)))
  /\ UNCHANGED <<posted, pending, keyboard, keys, shown>>

\* A thread is done; it knows nothing of what became of its menu.
FinishCompleter(id) ==
  /\ \E t \in threads :
       /\ t.id = id
       /\ threads' = threads \ {t}
       /\ posted' = Append(posted, [id |-> id, completions |-> Completer(t.input)])
  /\ UNCHANGED <<menu, pending, keyboard, keys, shown, history>>

\* Mutant: an update that was asked for while the thread ran is forgotten.
FinishedUpdatingCompletionsOnce(m, post) ==
  LET done == [m EXCEPT !.menu.state = None]
  IN IF m.menu.state # post.id THEN m
     ELSE IF ~ m.menu.expired THEN SetCompletions(done, post.completions)
     ELSE done

FinishedUpdatingCompletions(m, post) ==
  LET done == [m EXCEPT !.menu.state = None]
  IN IF m.menu.state # post.id THEN m
     ELSE IF m.menu.recompute THEN UpdateCompletions(done)
     ELSE IF ~ m.menu.expired THEN SetCompletions(done, post.completions)
     ELSE done

HandlePosted ==
  /\ posted # <<>>
  /\ LET after[i \in 0..Len(posted)] ==
           IF i = 0 THEN Call(menu) ELSE FinishedUpdatingCompletions(after[i - 1], posted[i])
     IN Return(after[Len(posted)])
  /\ posted' = <<>>
  /\ UNCHANGED <<pending, keyboard, keys, shown>>

Face(m) == [input |-> m.input, mark |-> m.mark]

Unmapped == [menu |-> None, completions |-> NoCompletions]

\* Mutant: only the exposed line of input is drawn again.
HandleExposeOfMenu(window) ==
  /\ shown[window] \notin {Unmapped[window], Lost}
  /\ shown' = [shown EXCEPT ![window] = Lost]
  /\ menu' = [menu EXCEPT !.scheduled_draw = @ \/ (menu.active /\ window = "menu")]
  /\ UNCHANGED <<threads, posted, pending, keyboard, keys, history>>

\* What was shown in a window of the menu is lost and the window exposed.
HandleExpose(window) ==
  /\ shown[window] \notin {Unmapped[window], Lost}
  /\ shown' = [shown EXCEPT ![window] = Lost]
  /\ menu' = [menu EXCEPT !.scheduled_draw = @ \/ menu.active]
  /\ UNCHANGED <<threads, posted, pending, keyboard, keys, history>>

Flush ==
  LET update == menu.scheduled_update_server
      done == [menu EXCEPT !.scheduled_update_server = FALSE, !.scheduled_draw = FALSE]
  IN /\ update \/ menu.scheduled_draw
     /\ \/ /\ update /\ menu.active /\ ~ menu.keyboard_grabbed
           /\ keyboard' \in GrabbedFor("menu")
           /\ menu' = [done EXCEPT !.keyboard_grabbed = (keyboard' = "menu")]
        \/ /\ update /\ ~ menu.active /\ menu.keyboard_grabbed
           /\ keyboard' = None
           /\ menu' = [done EXCEPT !.keyboard_grabbed = FALSE]
        \/ /\ update => (menu.active <=> menu.keyboard_grabbed)
           /\ menu' = done
           /\ UNCHANGED keyboard
     /\ shown' =
          [menu |-> IF menu.active THEN Face(menu)
                    ELSE IF update THEN Unmapped.menu ELSE shown.menu,
           completions |->
             IF \/ update
                \/ menu.active /\ NoCompletions \notin {menu.completions, shown.completions}
             THEN menu.completions ELSE shown.completions]
     /\ UNCHANGED <<threads, posted, pending, keys, history>>

Init ==
  /\ menu = Inactive
  /\ threads = {} /\ posted = <<>>
  /\ pending = FALSE /\ keyboard = None /\ keys = <<>>
  /\ shown = Unmapped
  /\ history = [typed |-> NoInput, inputs |-> {NoInput}]

Next ==
  \/ \E key \in MenuKeys \cup RootKeys : PressKey(key)
  \/ HandleKey
  \/ KeySequenceTimeout
  \/ CompletionDelay
  \/ \E id \in StateIds : FinishCompleter(id)
  \/ HandlePosted
  \/ \E window \in Exposed : HandleExpose(window)
  \/ Flush

\* The timer expires, the main loop handles what was posted, and of the threads that
\* run one comes to its end.
Fairness ==
  /\ WF_vars(CompletionDelay) /\ WF_vars(HandlePosted)
  /\ WF_vars(\E id \in StateIds : FinishCompleter(id))

Spec == Init /\ [][Next]_vars
FairSpec == Spec /\ Fairness

(***************************************************************************)
(* Properties.                                                             *)
(***************************************************************************)

\* Types; in particular the cursor and the mark are where text can be erased.
MenuTypeOK ==
  /\ menu.input.text \in Texts
  /\ menu.input.cursor \in 0..Len(menu.input.text)
  /\ menu.mark \in Nat \cup {NoMark}
  /\ menu.queued \in Nat
  /\ menu.state \in StateIds \cup {None}
  /\ menu.state # None => \E t \in threads \cup ToSet(posted) : t.id = menu.state
  /\ keyboard \in {"menu", "root", None}

\* Completions pass for valid only if they were computed for the input as it was
\* when it last changed, or for what going through them made of it since, whatever
\* the order in which threads, delays and keys came.
CompletionsAreCurrent ==
  menu.active /\ menu.mode.completer /\ menu.valid =>
    \E input \in history.inputs :
      menu.completions.list = Completer(input).list

\* Once flushed, the windows of the menu show its input and its completions, and
\* nothing when it is not in use: every change asks for the redrawing it needs.
MenuScreenIsUpToDate ==
  ~ menu.scheduled_draw /\ ~ menu.scheduled_update_server =>
    shown = IF menu.active THEN [menu |-> Face(menu), completions |-> menu.completions]
            ELSE Unmapped

\* With no menu and no pending key sequence the keyboard is free for the programs,
\* however the two took it from each other before.
KeyboardIsGivenBack ==
  ~ menu.active /\ ~ menu.scheduled_update_server /\ ~ pending => keyboard = None

\* Completions the user asked for before they were there are performed, provided
\* the user waits for them.
QueuedCompletionsArePerformed ==
  <>[](keys = <<>>) => (menu.active /\ menu.queued > 0 ~> ~ menu.active \/ menu.queued = 0)

\* The comment on current_kmap: "If this is non-NULL, the keyboard is grabbed."
PendingIsGrabbed == pending => keyboard # None
=============================================================================
