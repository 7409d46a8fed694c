------------------------------ MODULE Applets ------------------------------
(***************************************************************************)
(* The applets of the bar that run in the main thread: those that watch a  *)
(* file (ErcApplet, GnusApplet), the one that polls (BatteryApplet), and   *)
(* NetworkApplet, which does both.  InotifyEvent (util/event.cpp) is part  *)
(* of it: at each wake-up it reads every event the kernel has for it, but  *)
(* handles one, and leaves the others in its buffer until the next.        *)
(*                                                                         *)
(* A line of the erc file is a buffer of text, a line of the gnus file a   *)
(* group and a count; groups are numbers, in the order of their names.     *)
(* The kernel does not queue an event equal to the last one it has queued. *)
(***************************************************************************)
EXTENDS Tray

CONSTANTS
  ErcFiles,     \* contents the erc file can have: sequences of texts
  GnusFiles,    \* contents the gnus file can have: functions from groups to texts
  Networks,     \* texts that describe a network connection
  Charges       \* texts that describe the battery

VARIABLES
  starting,     \* the steps of the applets' constructors still to come
  content,      \* of the files
  open,         \* files that are being written
  watching,     \* files with a watch
  queued,       \* events the kernel has queued for each file's InotifyEvent
  buffer,       \* InotifyEvent::buffer: events read and not yet handled
  buffer_status,\* ErcApplet::buffer_status
  groups,       \* GnusApplet::groups, the keys
  network,      \* the network connection, or NoText
  battery,      \* the state of the battery, or NoText when there is none
  armed         \* timers that are running

files == <<content, open, watching, queued, buffer, buffer_status, groups>>
polls == <<network, battery, armed>>
applets == <<starting, files, polls>>

Files == {"erc", "gnus", "network"}

\* Mutant: the files are read before they are watched.
ConstructorsReadingFirst ==
  << <<"make", "battery">>, <<"make", "network">>, <<"watch", "network">>, <<"make", "gnus">>,
     <<"watch", "gnus">>, <<"make", "erc">>, <<"watch", "erc">> >>

\* main() constructs the applets in this order, each with its cells at the
\* beginning of the right side.
Constructors ==
  << <<"make", "battery">>, <<"watch", "network">>, <<"make", "network">>, <<"watch", "gnus">>,
     <<"make", "gnus">>, <<"watch", "erc">>, <<"make", "erc">> >>

AppletsInit ==
  /\ starting = Constructors
  /\ content \in [Files -> {<<>>}]
  /\ open = {}
  /\ watching = {}
  /\ queued = [f \in Files |-> <<>>]
  /\ buffer = [f \in Files |-> <<>>]
  /\ buffer_status = <<>>
  /\ groups = {}
  /\ network \in Networks \cup {NoText}
  /\ battery \in Charges \cup {NoText}
  /\ armed = {}

-----------------------------------------------------------------------------
(* The handlers of the applets: what they make of the bar `b'.             *)

Anchor(applet) == <<applet, 0>>     \* its placeholder, or its only cell

RemoveCells(b, ids) == FoldLeft(LAMBDA c, id : RemoveCell(c, "right", id, visible), b, ids)

\* ErcApplet::update
UpdateErc(b, new) ==
  IF new = buffer_status THEN b
  ELSE FoldLeft(LAMBDA c, i : InsertBefore(c, "right", Anchor("erc"),
                                           TextCell(<<"erc", i>>, new[i], NoText), visible),
                RemoveCells(b, [i \in DOMAIN buffer_status |-> <<"erc", i>>]),
                [i \in DOMAIN new |-> i])

Ascending(S) == SetToSortSeq(S, <)

\* Mutant: a new group comes last.
InsertGroupLast(b, present, g, text) ==
  InsertBefore(b, "right", Anchor("gnus"), TextCell(<<"gnus", g>>, text, NoText), visible)

\* A new group comes before the next one that has a cell, stale or not.
InsertGroup(b, present, g, text) ==
  LET above == Ascending({h \in present : h > g})
  IN InsertBefore(b, "right", IF above = <<>> THEN Anchor("gnus") ELSE <<"gnus", Head(above)>>,
                  TextCell(<<"gnus", g>>, text, NoText), visible)

\* GnusApplet::update
UpdateGnus(b, new) ==
  LET merge(s, g) ==
        [present |-> s.present \cup {g},
         b |-> IF g \in s.present
               THEN SetCell(s.b, "right", <<"gnus", g>>, new[g], NoText, visible)
               ELSE InsertGroup(s.b, s.present, g, new[g])]
      merged == FoldLeft(merge, [present |-> groups, b |-> b], Ascending(DOMAIN new))
      stale == Ascending(groups \ DOMAIN new)
  IN RemoveCells(merged.b, [i \in DOMAIN stale |-> <<"gnus", stale[i]>>])

\* NetworkApplet::event_handler.  The cell comes after the placeholder, and is
\* there only while there is a connection.
UpdateNetwork(b) ==
  LET cell == <<"network", 1>>
      present == HasCell(b, "right", cell)
      made == IF present THEN b
              ELSE InsertAfter(b, "right", Anchor("network"), TextCell(cell, NoText, NoText), visible)
  IN IF network = NoText THEN IF present THEN RemoveCell(b, "right", cell, visible) ELSE b
     ELSE IF made.cells["right"][Place(made, "right", cell)].text = network THEN made
     ELSE SetCell(made, "right", cell, network, NoText, visible)

\* BatteryApplet::event_handler.  Without a battery the cell stays as it is.
UpdateBattery(b) ==
  IF battery = NoText THEN b
  ELSE SetCell(b, "right", Anchor("battery"), battery, NoText, visible)

\* The handler of an applet, on what its device or file is now.
Updated(applet, b) ==
  CASE applet = "erc" -> UpdateErc(b, content["erc"])
    [] applet = "gnus" -> UpdateGnus(b, content["gnus"])
    [] applet = "network" -> UpdateNetwork(b)
    [] applet = "battery" -> UpdateBattery(b)

Polled == {"network", "battery"}

\* Mutant: the timer is set where the handler ends, and not where it gives up.
RearmedWithBattery(applet) == {applet} \cap (IF battery = NoText THEN {"network"} ELSE Polled)

\* The two that poll set their timer before anything else.
Rearmed(applet) == {applet} \cap Polled

Update(applet, b) ==
  /\ bar' = Updated(applet, b)
  /\ buffer_status' = IF applet = "erc" THEN content["erc"] ELSE buffer_status
  /\ groups' = IF applet = "gnus" THEN DOMAIN content["gnus"] ELSE groups

-----------------------------------------------------------------------------
(* Start: the constructors' steps, with nothing of the main loop between   *)
(* them, but with what other programs do.                                  *)

\* InotifyEvent::add_watch.  The erc and gnus applets have created their file;
\* for a network file that does not exist there is only a warning.
AddWatch(f) ==
  /\ \/ watching' = watching \cup {f}
     \/ f = "network" /\ watching' = watching
  /\ UNCHANGED <<bar, buffer_status, groups, armed>>

Construct(applet) ==
  /\ Update(applet, InsertBegin(bar, "right", IF applet = "battery"
                                              THEN TextCell(Anchor(applet), NoText, NoText)
                                              ELSE Placeholder(Anchor(applet)), visible))
  /\ armed' = armed \cup Rearmed(applet)
  /\ UNCHANGED watching

StartNext ==
  /\ starting # <<>>
  /\ starting' = Tail(starting)
  /\ LET step == Head(starting)
     IN IF step[1] = "watch" THEN AddWatch(step[2]) ELSE Construct(step[2])
  /\ UNCHANGED <<content, open, queued, buffer, network, battery>>

-----------------------------------------------------------------------------
(* The programs that write the files, the kernel, and the devices.         *)

Notify(f, event) ==
  queued' = IF f \notin watching \/ (queued[f] # <<>> /\ Last(queued[f]) = event) THEN queued
            ELSE [queued EXCEPT ![f] = Append(@, event)]

ContentsOf(f) == IF f = "erc" THEN ErcFiles ELSE IF f = "gnus" THEN GnusFiles ELSE {<<>>}

OpenFile(f) ==
  /\ f \in {"erc", "gnus"} \ open
  /\ content' = [content EXCEPT ![f] = <<>>]
  /\ open' = open \cup {f}
  /\ UNCHANGED <<bar, starting, watching, queued, buffer, buffer_status, groups, polls>>

CloseFile(f, c) ==
  /\ f \in open
  /\ content' = [content EXCEPT ![f] = c]
  /\ open' = open \ {f}
  /\ Notify(f, "changed")
  /\ UNCHANGED <<bar, starting, watching, buffer, buffer_status, groups, polls>>

TouchFile(f) ==
  /\ f = "network"
  /\ Notify(f, "changed")
  /\ UNCHANGED <<bar, starting, content, open, watching, buffer, buffer_status, groups, polls>>

\* The watch goes with the file, and does not come back.
DeleteFile(f) ==
  /\ f \in watching \ open
  /\ content' = [content EXCEPT ![f] = <<>>]
  /\ Notify(f, "ignored")
  /\ watching' = watching \ {f}
  /\ UNCHANGED <<bar, starting, open, buffer, buffer_status, groups, polls>>

DeviceChanges ==
  /\ \/ network' \in Networks \cup {NoText} /\ UNCHANGED battery
     \/ battery' \in Charges \cup {NoText} /\ UNCHANGED network
  /\ UNCHANGED <<bar, starting, files, armed>>

-----------------------------------------------------------------------------
(* The main loop.                                                          *)

\* Mutant: the event that is handled stays in the buffer.
HandleInotifyAgain(f) ==
  LET read == buffer[f] \o queued[f]
  IN /\ starting = <<>>
     /\ queued[f] # <<>>
     /\ queued' = [queued EXCEPT ![f] = <<>>]
     /\ buffer' = [buffer EXCEPT ![f] = read]
     /\ IF Head(read) = "changed"
        THEN Update(f, bar) /\ armed' = armed \cup Rearmed(f)
        ELSE UNCHANGED <<bar, buffer_status, groups, armed>>
     /\ UNCHANGED <<starting, content, open, watching, network, battery>>

\* InotifyEvent::handle_event, and the handler if the event is a change.
HandleInotify(f) ==
  LET read == buffer[f] \o queued[f]
  IN /\ starting = <<>>
     /\ queued[f] # <<>>
     /\ queued' = [queued EXCEPT ![f] = <<>>]
     /\ buffer' = [buffer EXCEPT ![f] = Tail(read)]
     /\ IF Head(read) = "changed"
        THEN Update(f, bar) /\ armed' = armed \cup Rearmed(f)
        ELSE UNCHANGED <<bar, buffer_status, groups, armed>>
     /\ UNCHANGED <<starting, content, open, watching, network, battery>>

TimerExpires(applet) ==
  /\ starting = <<>>
  /\ applet \in armed
  /\ Update(applet, bar)
  /\ armed' = (armed \ {applet}) \cup Rearmed(applet)
  /\ UNCHANGED <<starting, content, open, watching, queued, buffer, network, battery>>

OtherPrograms ==
  \/ \E f \in Files : \/ OpenFile(f) \/ TouchFile(f) \/ DeleteFile(f)
                      \/ \E c \in ContentsOf(f) : CloseFile(f, c)
  \/ DeviceChanges

AppletsNext ==
  /\ \/ StartNext
     \/ OtherPrograms
     \/ \E f \in Files : HandleInotify(f)
     \/ \E a \in Polled : TimerExpires(a)
  /\ UNCHANGED <<visible, tray>>

-----------------------------------------------------------------------------
AppletsTypeOK ==
  /\ open \subseteq Files /\ watching \subseteq Files
  /\ \A f \in Files : /\ content[f] \in ContentsOf(f) \cup {<<>>}
                      /\ Len(queued[f]) <= 2 /\ Len(buffer[f]) <= 1
  /\ armed \subseteq Polled

TextOf(id) == bar.cells["right"][Place(bar, "right", id)].text

(***************************************************************************)
(* An applet that watches a file shows it as it was last written, once the *)
(* events of that are handled: no change is missed between the reading and *)
(* the watching at the start, none is lost when several are read at once   *)
(* and one is handled, and a reading of a file half written is repeated.   *)
(***************************************************************************)
AppletsShowTheirFiles ==
  /\ AppletsTypeOK
  /\ starting = <<>> =>
    \A f \in watching \ open : queued[f] = <<>> =>
      /\ f = "erc" =>
           /\ buffer_status = content[f]
           /\ \A i \in DOMAIN content[f] : TextOf(<<f, i>>) = content[f][i]
      /\ f = "gnus" =>
           /\ groups = DOMAIN content[f]
           /\ \A g \in groups : TextOf(<<f, g>>) = content[f][g]

(***************************************************************************)
(* Each applet's cells stay together and in order, wherever the cells they *)
(* were inserted relative to have come from or gone to, with the docked    *)
(* icons before all of them.                                               *)
(***************************************************************************)
BarIsInOrder ==
  starting = <<>> =>
    LET sorted == Ascending(groups)
        ids == SelectSeq(Ids(bar, "right"), LAMBDA id : id # Anchor("volume"))
    IN SubSeq(ids, Cardinality(docked) + 1, Len(ids)) =
         [i \in DOMAIN buffer_status |-> <<"erc", i>>] \o <<Anchor("erc")>>
         \o [i \in DOMAIN sorted |-> <<"gnus", sorted[i]>>] \o <<Anchor("gnus"), Anchor("network")>>
         \o (IF HasCell(bar, "right", <<"network", 1>>) THEN << <<"network", 1>> >> ELSE <<>>)
         \o <<Anchor("battery")>>

Shows(text) == bar.shown # Lost /\ \E c \in ToSet(bar.shown.right) : c.text = text

(***************************************************************************)
(* The bar follows what is polled: a battery or a connection that stays as *)
(* it is gets shown, whatever came before, its absence included.           *)
(***************************************************************************)
PolledTextsFollow ==
  /\ \A n \in Networks : <>[](network = n) => <>[]Shows(n)
  /\ \A c \in Charges : <>[](battery = c) => <>[]Shows(c)
=============================================================================
