# A verification development of jmswm

jmswm is a tiling window manager for X11: views (workspaces) hold columns,
columns hold frames, a frame shows a client, and a client may have one frame in
each of several views. One thread runs an event loop; a few helper threads post
work to it. This directory models the program in TLA+, checks the model with
TLC on small instances, and proves what matters most with TLAPS for all of them.

`PROJECT.json` says which lines of the source each definition stands for.

## The system

| component (source) | state | operations | interacts with |
|---|---|---|---|
| tree of views, columns, frames (`wm/view.cpp`, `wm/wm.hpp`) | owning lists, back pointers, three selection pointers, three activity lists, attributes of frames | create, delete, insert, remove, select, activity | everything below calls it |
| commands (`wm/commands.cpp`, `wm/extra/place.cpp`) | none | one function per key | the tree; menus for names of views |
| event dispatch (`wm/event.cpp`) | none | one handler per X event | clients, tree, key bindings, bar |
| clients (`wm/client.cpp`, `wm/frame.cpp`) | frames by view, hints, what is mapped | manage, place, unmanage, perform scheduled tasks | tree; X server |
| deferred work and main loop (`wm/wm.cpp`, `wm/main.cpp`) | sets of views, columns and clients with tasks, the activity timer | schedule, flush | every handler schedules; the loop flushes |
| fullscreen and previous view (`wm/extra/fullscreen.cpp`, `previous_view.hpp`) | none but the names of views; the name of the view before | toggle, requests of clients; hooks on placing, unmanaging, selecting | tree, clients |
| persistence (`wm/persistence.cpp`) | properties of the root window and of each client | save, load, sweep | tree, clients, the hooks on new clients |
| key bindings (`wm/key.cpp`) | tree of bindings, current sequence, grabs | bind, unbind, key press, timeout, remap | menu (shares the keyboard grab) |
| menu (`menu/*.cpp`) | input, completions, pending requests | keys, asynchronous results | key bindings, event service |
| bar and tray (`wm/bar.cpp`, `wm/extra/bar_view_applet.cpp`) | cells on two sides, the window, docked windows | insert, remove, change, dock, undock, flush | event dispatch, hooks on views, applets |
| event service (`util/event.cpp`) | queue of posted actions, pipe, inotify buffers, timers | post, handle | threads of menu and applets; the main loop |
| applets (`wm/extra/*_applet.cpp`) | texts shown, timers, watches; the volume's thread | poll, read a file that changed, post | bar, event service |
| browser, drawing, style, utilities | caches, fonts | parse, draw | everything above |

What is hard here is not parallelism but *reentrancy and deferral*. An operation
on the tree calls others, which move the selection back and forth in the middle
of its own update; destructors select, delete the column they were in and then
the view of that; three handlers loop over lists they are changing. And nothing
a handler does reaches the screen until the next flush, which only does what was
scheduled: one request too few leaves a window where it was. The correctness of
each component, in a sentence:

- *tree*: lists and pointers always agree, something is selected wherever there
  is something to select, what is empty is deleted, the three histories agree;
- *commands*: a command does to the tags of a client what it is for, and never
  loses a window or disturbs the selection of views it is not about;
- *clients and deferred work*: when the loop waits the X server shows the tree
  of this moment, and the keyboard belongs to the selected frame;
- *activity timer*: a frame that stays selected becomes the most recently active
  one, and opens if it was shaded;
- *key bindings*: every binding answers to its keys and no others, whatever locks
  are on and however the keyboard mapping changes; nothing stays grabbed for
  a binding that is gone;
- *menu*: completions are those of the input, the ones asked for are performed,
  the windows show both, and the keyboard is given back;
- *fullscreen and previous view*: going there and back leaves everything as it was,
  whatever was deleted on the way, and closing a window returns to where it came from;
- *persistence*: what is found after a restart is what was saved, and whatever is
  found, half saved or stale, gives a consistent tree with every window in it;
- *bar and tray*: the window shows the present cells whenever it is visible, in
  their order, and a docked window has one cell for as long as it is there;
- *event service*: what threads post runs once, in order, and is never left lying;
- *applets*: the bar shows what the file, the device or the mixer says in the end.

`PROJECT.json` lists the hazards of each, at their lines.

## Modules

**`Layout`** is the tree and every operation of `wm/view.cpp` on it. It has no
variables: the graph of C++ objects is one record `w` with a field per data
member (`Graph`), and each member function is an operator from the graph it
finds to the graph it leaves. A handler that calls three functions is the
composition of three operators, so nested calls happen where the code makes
them: `RemoveFrame` selects a successor *before* it unlinks the frame and then
deletes the column, as `WFrame::remove` does. Frames are named by client and
view (the key under which a client holds them), views by their name, columns by
a member of the pool `Columns`. The operators below "Mutant:" comments are
plausible bugs, used only to show that the properties notice them.

**`WindowManager`** is the event loop over it: one action for each event handler
and each command, `ActivityTimeout`, and `Flush`. Its variables are the graph
`wm`, the clients that are `managed`, the looping `handler` that is running if
any, the number of handlers since the last flush (`batch`), and the `screen`,
what the flush last computed and told the X server. `unmanage_client` and the two
marked-frames commands take one step per iteration, so that the tree is looked
at between iterations too. The bounds of a window are not numbers but the record
of everything the layout computes them from; a window is in its place when the
record it was placed with is the one the present tree gives.

**`Tags`** is the abstract specification, what the user is promised: each window
carries a set of tags, at least one while it is open; a window opens in the
current view; one window at a time changes its tags. `WindowManager` implements
it with `tags[c]` the views of the frames of `c` (`ImplementsTags`).

**`KeyBindings`** is the global context of key bindings: the tree of keymaps with
its entries under keycode and clean modifiers, the passive grabs the server
holds, the keyboard mapping with the modifiers that lock, and the current
sequence. Its actions are the configuration at start (each binding in any
order), the main loop's key presses, the sequence timeout, and
`handle_mapping_notify`, which unbinds and rebinds everything. The model is of the
Release build, in which assertions are compiled out. A keyboard mapping
changes with the event that announces it. What a search of a keycode map finds is
a set (`Found`): once an entry's binding has changed keycode in place, the ordered
map may miss what is there.

**`Menu`** is the line of input with completions: its keys, its two windows, the
completions computed at once, by a timer or by a thread, and the keyboard, which
a pending sequence of `KeyBindings` grabs and releases too. Of that sequence only
its being pending is kept. Time is left out: the delay and the sequence timeout
may expire at any moment. The members of `CompletionState`, which live as long as
the state does, are fields of the menu (`state` is its name, or `None`); a late
thread holds a name that is no longer the menu's, as its weak pointer does not
lock. `history` is not part of the program: it remembers what was typed and what
completing made of it.

**`Bar`** is the bar as a data type, like `Layout`: a record with a field for each
member of `WBar::Impl`, and an operator for each operation. `visible`, what
`WM::bar_visible()` says, is an argument. What the window shows is its `Picture`,
the cells that are drawn with the bounds they are drawn in; the place of an icon
is the list of the cells drawn between it and the end of its side.

**`Tray`** is the state machine of `handle_tray_opcode` and `handle_unmap_notify`
between the programs, which map, unmap and destroy their icons, and the bar, which
is hidden, shown, obscured and moved meanwhile. Events reach the window manager
in the order of their causes. Icons are override-redirect windows, or never mapped
before they dock, so that they are not clients as well.

**`Applets`** extends it with the applets that run in the main thread: two that
watch a file, one that polls and one that does both. `InotifyEvent` is part of it:
the kernel's queue, which drops an event equal to the last one, and the buffer
from which one event is handled at each wake-up. `starting` holds the steps of the
constructors that `main` still has to make; other programs go on between them.

**`EventService`** is `EventService::post` in any number of threads against
`handle_post_event` in the main thread: push under the mutex, then one byte into a
pipe that may be full; read some bytes, take the mutex, run until the queue is
empty. **`PostQueue`** is what that promises, a queue; the module implements it
with `pending <- work_queue`. `Menu` takes this for granted (`posted`).
**`VolumeApplet`** composes it with `Applets`: the thread that waits for the mixer
posts levels, another posts the refreshes of `DeviceApplet`, and what they post
becomes a cell of the bar.

**`Session`** is what is built around the tree. It extends `Layout` and `Bar`, not
`WindowManager`: a handler is a sequence of `Layout`'s operations, and after each
of them `Tell` lets the hooks see what it did, which is what the signals in
`WView::WView`, `WM::select_view` and `WView::~WView` do. `EnableFullscreen`,
`DisableFullscreen` and the hooks on clients give the sets of results that the
order of pointers allows. `server` is what is saved in the X server, apart from
the window manager's memory (`session`), which ends with the process. `Ends`
lets windows come and go while no window manager runs. The frames' shading and
the layout of columns are `WindowManager`'s part, and so is the rest of the flush.
The spelling of names is two constants: which view a name was made from
(`Original`), and which names `enable_fullscreen` tries (`FullscreenNames`).

**`MCWindowManager`**, **`MCScreen`**, **`MCKeyBindings`**, **`MCMenu`**,
**`MCTyping`**, **`MCServices`** and **`MCDesktop`** define the views (in TLC's
sense), the symmetry and the instances of the runs. Three of them have a variable
that never changes (`user`, `part`): each behaviour is about one kind of user or
one part of the program, so that one run answers for instances that would be too
large together. The proofs are in **`SeqLemmas`**, **`LayoutProofs`**,
**`WindowManagerProofs`**, **`ScreenProofs`**, **`TrayProofs`**, **`ServicesProofs`**,
**`MenuProofs`** and **`SessionProofs`**.

## What the runs check

The first three runs use 2 or 3 clients, 1 or 2 views and a column limit of 2
(`DesiredColumns`). `Columns` is a pool large enough never to be exhausted on
the frames of the instance, one more than there can be frames at once; a command
that might allocate is disabled when the pool is empty, which does not happen.
`MaxBatch` bounds the handlers between two flushes. `Features` names the optional
commands an instance performs, to keep the runs small; every action fires in at
least one run.

| run | bounds | properties |
|---|---|---|
| `wm_tree` | 2 clients, 2 views, copy and mark, one handler a batch | the tree, selection, emptiness, histories, reachability, the screen and the focus after marked-frames commands too (`FlushShowsTree`), the two action properties, the refinement of `Tags` |
| `wm_screen` | 2 clients in 2 views, copy, shade and hints, two handlers a batch unless a client is copied and a frame shaded at once; and 3 clients in 1 view, shade, decorate one frame, hints and bar, one handler a batch. States beyond that are checked but not gone on from (`Small`) | the screen is up to date, the focus follows the selection, recent frames are open |
| `wm_live` | 2 clients, 2 views, shade, fair | the two liveness properties |

Two views are enough for everything that distinguishes the current view from
another one (a view that vanishes while it is left, a frame that is moved away
or in); two frames in a column for selected and not, three for selected, recent
and neither. Two handlers a batch let one handler find what another scheduled.

- `TreeIsConsistent`, `SelectionIsTotal`, `NothingIsEmpty`: what the destructors
  and `remove` must leave behind wherever the user is.
- `ActivityListsAgree`: the WM's, the view's and the column's activity list are
  the same history, with the same frames in the same order, although each is
  spliced by code of its own.
- `EveryClientIsReachable`: no command removes a client's last frame.
- `LosingColumnFallsBack`: a column that loses the selection goes back to its most
  recently active frame (`handle_selected_frame_changed`).
- `OtherViewsKeepSelection`: commands on one view leave the others' selection alone.
- `ScreenIsUpToDate`: whatever handlers ran since the last flush, each scheduled
  enough. This is the property that every `schedule_` call in the source is for.
- `FocusFollowsSelection`: the keyboard is with the selected frame's client, or
  with the frame window while the client is hidden because the frame is shaded,
  or with the root window; never with a window that is gone or not viewable.
- `RecentFrameIsOpen`: the most recently active frame of a column is not shaded.
- `SelectedFrameBecomesRecent`, `RecentFrameGetsInput`: liveness, see below.

The key bindings have few keys and many states of the keyboard:

| run | bounds | expected |
|---|---|---|
| `keys_bindings` | bindings of one key and of two, in any order, with a mapping that is announced again but does not change; or bindings of one key, two of them for the same key, while keys move, vanish and become modifiers and locks move | passes |
| `keys_scroll` | num, scroll and caps lock all are modifiers | violates `GrabIgnoresLocks` |
| `keys_stale` | bindings of two keys, keys trade places | violates `EveryBindingAnswers` |

- `EveryBindingAnswers`: each binding that was accepted is found where the present
  mapping has its keys.
- `GrabsAreBindings`: what is grabbed is exactly what some entry of the top keymap needs.
- `GrabIgnoresLocks`: a grabbed key is grabbed under every state of the locks
  (`wm.hpp:434`).
- `ActionsAreTyped`: an action only runs when its own sequence was typed, through
  timeouts, wrong keys and remappings.

The passing run keeps away from what the other two show: the mapping never changes
under a sequence of two keys. It also keeps away from bindings with a modifier that
is a locking one on some keyboard (`unbind` ungrabs with the modifiers as written,
`key.cpp:458`, although the grab was made without the locking ones) and from a third
binding for a keycode two already compete for. What the program does after an entry
was left behind, or one entry was erased for another, is not modelled further.

The menu has three entries, two with a common prefix, so that completing first
extends the input and then goes through a list:

| run | bounds | expected |
|---|---|---|
| `menu_edit` | all keys of the editor, completions at once or none; or key sequences, exposed completions and few keys; or three threads at a time, two queued completions, closing and reopening; in all of them grabs that fail | passes |
| `menu_live` | two threads at a time, key sequences that take the keyboard, fair | passes |
| `menu_pending` | a key of the menu and one of a sequence between two flushes | violates `PendingIsGrabbed` |

`MaxText` bounds what is typed (completions may be longer), `MaxQueue` the keys on
their way, `MaxQueued` the completions asked for. A key that would go beyond a
bound is not pressed; a key that was pressed is always handled.

- `CompletionsAreCurrent`: valid completions were computed for what was last typed,
  or for what going through them made of it; this is what `expired` and the weak
  pointer to the completion state are for.
- `MenuScreenIsUpToDate`: the menu's part of `ScreenIsUpToDate`.
- `KeyboardIsGivenBack`: with no menu and no pending sequence nobody holds the
  keyboard, whatever the two took from each other.
- `QueuedCompletionsArePerformed`: liveness, provided the user waits.

The last three runs are about what surrounds the tree:

| run | bounds | expected |
|---|---|---|
| `services` | either two threads that post, a pipe of two bytes read one at a time, a queue of two, two levels of the volume; or the applets that poll, two connections and two charges, with the network file changed, touched and deleted. Fair | passes |
| `desktop` | one of five parts: `icons` (two icons, two events on their way, two places for the bar); `files` (contents of up to two lines, four contents of the gnus file with three groups, one thing at a time happens to the files, one file is deleted, one icon docks); `tags` (two clients, three views, their cells in the bar); `fullscreen` (two clients, four views, of which two are names for fullscreen views of the first); `restart` (two clients, three views) | passes |
| `restart_cleanup` | the part `restart` | violates `SweepKeepsItsView` |

`PipeSize` and `MaxQueue` are two so that both are full while a thread waits;
`BufferSize` one, so that bytes are left over, although the code reads up to 128.
`MaxEvents` bounds what is on its way to the window manager in the tray: no
program acts while there are that many, but the window manager's own events go
beyond it. `MaxBatch` is the number of handlers between flushes of the views'
bar, `MaxAge` that of handlers between a save and the next save, crash or exit:
with one, a session grows by saving, and each of its states is crashed from and
restarted from. `Roomy` and the eight columns are the pool again, and a client
cannot be made fullscreen when both names are taken (`FreeNames`): the code
would try `<2>`, `<3>` and so on.

- `NothingForgotten`: no wake-up is lost, although a byte follows its action later
  and may be read with others.
- `ImplementsPostQueue`: the event service is the queue that `PostQueue` promises,
  its liveness too.
- `VolumeIsCurrentOnBar`, `VolumeIsShown`: no level ends up on the bar after a later
  one, and the last one gets into the window.
- `PolledTextsAreShown`: polling goes on through times without a battery or a
  connection.
- `BarScreenIsUpToDate`, and `BarShowsViews` for the views' cells: the bar's part
  of `ScreenIsUpToDate`, through being hidden, moved and obscured.
- `TrayAndIconsAgree`: a cell for each docked window; a window leaves the tray when
  it is withdrawn or destroyed, unless it was destroyed before it was mapped there.
- `AppletsShowTheirFiles`: the texts are those of the files, when the events are
  handled, although events stay in the buffer and files are read half written.
- `BarIsInOrder`: cells are inserted relative to cells that come and go.
- `SessionIsConsistent`: `Tree`, `Histories` and `Selection` of `Layout`, and no
  window without a frame, through fullscreen views and after every kind of start.
- `ToggleTwiceIsNothing`, `BackAndForth`: fullscreen and back, and to the previous
  view and back, in every state.
- `ClosingReturns`: when a fullscreen client goes, its view goes and the one it was
  made from is selected.
- `RestartKeepsSession`: after a complete save and with the same windows, the next
  window manager would save the same.

Each property of each passing run has a mutant of the code that violates it.

**What the violations show.** Each is a place where the code does something
else than its comments say; `PROJECT.json` quotes them.

- `keys_scroll` (`key.cpp:233`): the combinations of locks accumulate, and a key is
  not grabbed for num lock with caps lock.
- `keys_stale` (`key.cpp:421`): sequences of several keys are never unbound.
- `menu_pending` (`menu.cpp:243`): leaving the menu releases the keyboard of a key
  sequence that is still pending.
- `restart_cleanup` (`persistence.cpp:317`): the loop that deletes the columns that
  stayed empty deletes the view with the last of them, and then uses the view.
  `FinishLoading` goes on as if the deleted view still read as it was left, and
  `AbortLoading` is the other outcome, the end of the process.

**Seen on the way**, without a run of their own:

- nothing assigns `initial_position` (`wm.hpp:796`), so the order of frames within
  a column is not restored; `ClientInfo` leaves it out;
- `unmanage_client` leaves the saved state on a window that is withdrawn
  (`persistence.cpp:341` reads it whenever the window comes back before a start);
- docking a window that is mapped makes the server unmap it, and the notification
  takes it out of the tray again (`bar.cpp:410`); docking a window that is already
  gone leaves its cell for good, as the calls whose failure is tested do not fail
  for it (`TrayAndIconsAgree` is stated with both);
- a write or read that is interrupted is not repeated: the result is compared with
  `EINTR` (`util/event.cpp:72`, `:281`), but it is -1;
- a network file that is deleted is never watched again, nor the other two; the
  network applet goes on by its timer.

**Fairness.** Only the program's own. The main loop flushes in every pass
(`WF(Flush)`), a handler that was entered runs to its end (`WF(HandlerStep)`),
and every pass runs the timers that are due whatever other events it also handles
(`SF(ActivityTimeout)`: libevent runs due timers once per pass of its loop,
`main.cpp:447`; weak fairness is not enough because the action is disabled while
a handler is running). Nothing is assumed of clients and users: they may keep
sending events. Both properties allow for the selection moving on, and
`RecentFrameGetsInput` starts from a frame in front of its column's history: a
frame that is put into the column in the background is pushed to the front of
the activity lists without the timer being armed (`view.cpp:146`), so that a
selected frame that lost the front to it stays where it is until the selection
changes again.

For the menu: the delay expires, the main loop handles what was posted, and as long
as threads compute completions one of them comes to its end. No fairness
is assumed of the user, and `QueuedCompletionsArePerformed` is about behaviours in
which keys stop coming: each further key may start the update anew.

For the services: the main thread goes on with what it is at and flushes, timers
that are due run, and the threads go on (weak fairness). A thread that waits for
the mutex, or for room in the pipe, gets it if that is free again and again
(`SF(PostUpdate)`, `SF(Write(t))`): others may take it in between, and weak
fairness would let them do so for ever. None is assumed of the mixer, the devices,
the other thread's posts or of interrupting signals; `VolumeIsShown` and
`PolledTextsAreShown` are about a level, charge or connection that stays.

## What is proved

The assumptions are those of the modules: `None` is no object, `Misc` is a view,
the bounds are positive, the pipe and the buffer hold at least a byte, the actions
that the volume's threads post are told apart, a key of the menu is a character or
one of those `HandleMenuKey` knows, and texts are sequences of characters; in a session the names of views are numbers, the pool
of columns is finite, no name is made from itself, and the names that a fullscreen
view would try are made from the name of the view it is for. The clients, views,
columns, threads, actions, icons, screens, entries and characters are arbitrary sets.

| module | theorem | what holds |
|---|---|---|
| `WindowManagerProofs` | `Invariant` | `Spec => []IInv`, the inductive invariant of the tree |
| | `TypeCorrect` | `TypeOK` |
| | `TreeStaysConsistent` | `TreeIsConsistent` |
| | `SelectionStaysTotal` | `SelectionIsTotal` |
| | `ActivityListsStayTheSame` | `ActivityListsAgree` |
| | `NothingStaysEmpty` | `NothingIsEmpty` |
| | `ClientsStayReachable` | `EveryClientIsReachable` |
| | `Refinement` | `Spec => ImplementsTags` |
| | `OtherViewsStaySelected` | `OtherViewsKeepSelection`, an action property |
| | `LosingColumnsFallBack` | `LosingColumnFallsBack`, an action property |
| `ScreenProofs` | `ScreenInvariant` | `Spec => []ScreenInv`, the inductive invariant of the screen |
| | `ScreenStaysUpToDate` | `ScreenIsUpToDate` |
| | `FocusStaysWithSelection` | `FocusFollowsSelection` |
| | `RecentFrameStaysOpen` | `RecentFrameIsOpen` |
| | `FlushesShowTree` | `FlushShowsTree`: at any moment, what a flush would leave |
| `TrayProofs` | `BarStaysFaithful` | `BarScreenIsUpToDate` |
| | `TrayStaysInAgreement` | `TrayAndIconsAgree` |
| `ServicesProofs` | `ServiceTypeCorrect` | the types of the event service |
| | `NoWakeUpIsLost` | `NothingForgotten` |
| | `IsAQueue` | the safety of `ImplementsPostQueue` |
| | `ServicesUseTheService` | each behaviour of `MCServices` is one of `EventService` |
| | `VolumeStaysCurrent` | `VolumeIsCurrentOnBar` |
| `MenuProofs` | `MenuInvariant` | `Spec => []MenuInv`, the inductive invariant of the menu |
| | `CompletionsStayCurrent` | `CompletionsAreCurrent` |
| | `MenuScreenStaysUpToDate` | `MenuScreenIsUpToDate` |
| | `KeyboardComesBack` | `KeyboardIsGivenBack` |
| | `MenuTypesStay` | `MenuTypeOK` |
| `SessionProofs` | `SessionStaysConsistent` | `SessionIsConsistent` |
| | `BarAlwaysShowsViews` | `BarShowsViews` |
| | `BackAndForthAgain` | `BackAndForth` |
| | `ClosingFullscreenReturns` | `ClosingReturns`, an action property |
| | `RestartRecalls` | `RestartKeepsSession` |
| | `TogglingTwiceReturns` | `ToggleTwiceIsNothing` |

`SeqLemmas` has lemmas on the operators of the community modules on sequences.
`LayoutProofs` has those on the intrusive lists (erasing, inserting, splicing, and
what these do to the order of the others) and one for each operation of
`Layout`: from a well formed graph it leaves a well formed one, and changes only
what its callers rely on being changed. Its last two sections say which attributes of
frames and views an operation leaves alone, and, of the few that loading is made of,
exactly what they leave. `WindowManagerProofs` has a lemma for each action.

*The tree.* `TypeOK` is not inductive: that the neighbour of a column is a
column needs the list to hold the column's own name, which needs lists and back
pointers to agree. `Tree` is not enough either: `remove` picks the successor of
a frame from the column's activity list, so `Histories` has to hold the same
frames; and `select_frame` reads the selected frame's column, so `Selection` must
not dangle. Their conjunction with `Graph` is `WellFormed`, kept by each operation
on its own but not at each moment of one: between the creation of a column and
its selection, or the selection of none and the erasure of the last column, one
pointer is null too early, which is why the lemmas on selecting ask only that
nothing dangles (`NothingDangles`). `Histories` also says that the lists are in
one order (`InOrderOf`); that is an invariant of each operation, because each
either removes a frame from all three or moves it to the front of all three.

`NothingIsEmpty` needs what is empty *between* two operations of a handler:
`NoneEmptyBut(w, C, V)` is that only the columns in `C` and the views in `V` are.
A new column is an exception until its first frame is in, a view until its first
column is; and the lemmas on `RemoveFrame` and `SelectView` say which of the
exceptions they discharge by deleting. `IInv` adds that marked frames exist and
that a marked-frames command runs only while some view is shown. For the
refinement each action's lemma also gives the set of frames and the shown view
it leaves.

*The selection.* The two action properties are about steps, but a step composes
operations, so `WindowManagerProofs` has for each operation the views that may select
another frame (`KeepsSelection(w, u, V, F)`, where `F` are frames that go away)
and the columns that may be left with another frame selected than their most
recent one (`FallsBack(w, u, C)`). Both compose. The only column in `C` is the one
the selection is in, or the one that a frame is put into in the background: that
pushes a frame to the front of the column's history without selecting it, and
`LosingColumnFallsBack` does not apply as such a column is not the one that loses
the selection. `SelectionStep` is what the steps have in common, and both
theorems follow from it.

*The screen.* `ScreenIsUpToDate` speaks only of moments at which nothing is
scheduled. The inductive `ScreenInv` says of every moment, also of those between
the iterations of a handler, that whatever the screen does not show as the graph
has it will be worked on: columns of a view have their places or the view is to
be laid out, frames have theirs or the column or its view is, each client's
windows are mapped, placed and drawn as its visible frame is or there is a task
for it, the most recent frame of a column is open or the column is to be laid
out, and the keyboard is where the selection is or will be set. It needs that the
client tasks of frames in a column that is to be laid out may be missing, for the
layout adds them. An operation may leave work to its caller: `OnScreenBut` has
the views, columns and clients for which it did. A step that only schedules
`Asks`, one that changes the style of frames `Restyles`, one that moves the
selection `Reselects` and has the keyboard follow. For the flush, `LaysOut` is
what the layout of a view and of its columns makes true, `Performs` what the
clients' tasks do; at the end nothing is scheduled and no exceptions are left.

*The event service.* `NothingForgotten` is inductive with the types. The one
step that may leave the main thread polling finds the queue empty under the mutex
that every push needs; and a byte that is read leaves the main thread awake.

*The volume.* `VolumeInv` says where the level is that the library knows: in the hand of
the thread that read it, or else it is the last level in the queue, or else, when no
level is queued, it is the text of the cell. Posts of others come in between, and only
append to the queue; the cell is changed by what is run, in the order of the queue.

*The bar.* `BarIsUpToDate` says nothing of a bar that is hidden or is going to
be updated, and so a flush that only draws could draw in the wrong place.
`Faithful` adds that the bounds are computed in any case, and that a visible bar
without a scheduled update is in them (`Placed`). Each operation on cells keeps it
because it asks for the drawing whenever the bar is visible, and the flush because
it draws after it has put the window in place.

*The tray.* That a destroyed window leaves the tray rests on the order of events:
`TrayInv` says that a window that was destroyed, or withdrawn after the bar had
mapped it, has an UnmapNotify on its way, and that of a window that is gone no
request to dock is behind its last UnmapNotify (`Announced`), or else it would be
docked again for good. `HoldsIcons` is the part of it on the cells: those with icons
are the docked windows, each once.

*The menu.* What a handler does is a composition of functions on a call (`Call`), the
menu with its history and the threads to be started, so the invariant is stated of a
call, `Proper`, and each function keeps it. It has what the three properties lack at
the moments they do not speak of: while the windows are to be drawn they are mapped as
they should be (`Mapped`), or else a flush that only draws would draw completions in a
window that is not there; while a thread computes, it or its post answers an input of
the moment unless it has expired (`Awaited`), and what is left behind by a closed menu
is nothing (`Clean`), or the next input would be given the completions of the last. A
change of the input breaks all of it at once, and `InputChangedKeeps` restores it
from `Fits`, the part that is not about the input. A call that would start
a thread when no name is free does not return, so `Current` is only claimed of calls
that do (`Named`).

`MenuTypeOK` is about other parts of a call, and so a second invariant on top of the
first, `SoundInv`: the input's text is one of `Texts` with the cursor in it, the lists
of completions hold such texts (`EntriesAreTexts`, `LongestPrefixIsText`), and a
state that a menu waits for is that of a thread, or of a post that is not handled yet
(`Waits`, which counts the posts that are).

The loops over the entries, over the completions asked for and over what was posted
are recursive functions. That there is such a function, and what holds of each of its values, is
shown by the least number for which it fails (`LeastNumber`): induction
over the naturals for one formula at a time needs no operator as a parameter.

*The session.* `SessionIsConsistent` is about what remains after compositions of
operations that call each other through hooks, and about loading. `Sound` is what every
operation keeps when it is told to the hooks (`Tell`), at every moment of a handler:
the tree is well formed, the cells of the bar are those of its views (`HoldsViews`), the
bar is `Faithful`, the previous view is not the selected one (`Remembers`), and only
what exists has decorations or a bar (`Tidy`). `Tell` takes a change for the
making of one view, the selection of one or the deletion of one, so each operation is
shown to be no more than that (`Follows`). What a handler as a whole keeps is `Keeps`:
`Sound`, the clients that have frames (`Owners`), and that nothing is empty (`Filled`),
which does not hold between its operations. `SessionInv` adds which windows have
frames in each phase (`Framed`) and what may be in the properties (`PropertiesOK`): the
root window's was saved from some sound session, the clients' say of each frame a view
and a column number, but not that they fit together, as a crash may come
between two of them. Loading is then shown to make from the first a tree with as many
columns (`ViewsRecreated`), from whatever the second say a frame for every window
(`ExistingManaged`), and to leave nothing empty (`AllSwept`). Its loops are
recursive functions too (`Loop`).

*What a restart keeps.* `RestartKeepsSession` compares what was saved before with what
would be saved after loading, and so needs to say what is on the way. `RestartInv` has
it for each phase: from a save that was completed for the windows there are
(`Whole`) until the loading is over, the properties are those of one sound session;
while windows are managed from them, the views and columns are that session's and each
window managed so far has a frame where, and looks as, its frames were saved
(`Resumes`), whatever the order in which the windows come. With all of them managed no column
that was recreated is empty, so that nothing is swept (`AllSwept`), and the selection is
restored to what it was.

*Fullscreen and back.* `ToggleTwiceIsNothing` is a property of states that says
what two operations would do. Both are shown step by step. What is made lies in one
view, one column and one frame that were free before (`Apart`), and the frame is
alone in them (`Alone`), so that closing it deletes all three (`Closes`). Of the rest
of the tree only the selected frame of the column left behind may differ in
between (`SelectsApart`), and that is the frame that `disable_fullscreen` selects
before it shows its view again (`FullscreenClosing`).

*Only model-checked.* Of the key bindings nothing is proved, nor of the applets that
follow files: what they compute are folds over lists of bindings, of events and of cells,
and the invariants of the key bindings hold for the bindings of their runs, not for all
(`keys_scroll` and `keys_stale` show some for which they do not). Liveness under
fairness (the two properties of the tree, the menu's, the applets', and the liveness of
`PostQueue`) is out of the prover's reach.

## What is not modelled

- numeric layout: how heights and widths are divided, priorities. They are floating
  point, and nothing else depends on them; the models compare what is computed from;
- pointer warps and the EnterNotify events they cause, the race between a
  withdrawal and the unmapping by the window manager: both need the X connection's
  queues of requests and events;
- ConfigureRequest, FocusIn and Expose of frames: they answer at once, or schedule
  that the focus or the drawing is made again what it should be already;
- a mixer that fails: its thread then drops a cell that the main thread uses
  (`volume_applet.cpp:264`), and what the program does after that is undefined;
- the device applet's cells and the time applet: pure input and formatting;
- drawing, style files, string processing of the browser and file completions:
  pure input, output or parsing;
- failure of the X connection: the program exits.

## Plan

1. *done*: `Layout`, `WindowManager`, `Tags`, their runs and proofs.
2. *done*: `KeyBindings` and `Menu`, with the proofs of the menu's input and answers.
3. *done*: `EventService` with `PostQueue`, its proofs; `Bar`, `Tray`, `Applets`,
   `VolumeApplet`; the proofs of the bar, the tray and the volume.
4. *done*: `Session`: fullscreen views, the previous view, the bar's views, saving
   and loading, and its proofs.
5. *done*: proofs of the histories, of emptiness, of the action properties on the
   selection, of the screen.
6. open: the invariants of the key bindings and of the applets as theorems.
   `GrabsAreBindings` and `EveryBindingAnswers` hold under the condition of their
   runs, and the proofs need induction over the folds that build the grabs.
