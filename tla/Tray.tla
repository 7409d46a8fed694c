-------------------------------- MODULE Tray --------------------------------
(***************************************************************************)
(* The system tray of the bar (WBar::handle_tray_opcode and                *)
(* handle_unmap_notify), the programs whose icons dock in it, and what     *)
(* else happens to the bar: it is hidden and shown, obscured, and moved    *)
(* when the size of the screen changes.                                    *)
(*                                                                         *)
(* The icons are override-redirect windows or never mapped before they     *)
(* dock, so that none of them is managed as a client.  A request to dock   *)
(* and the server's UnmapNotify reach the window manager in the order in   *)
(* which the server saw their causes.                                      *)
(***************************************************************************)
EXTENDS Bar, FiniteSets

CONSTANTS
  Icons,        \* windows that ask to be docked
  Bounds,       \* where the bar may have to be
  MaxEvents     \* bound: no program acts while this many events are on their way

ASSUME MaxEventsAssumption == MaxEvents \in Nat

VARIABLES
  bar,          \* the bar
  visible,      \* what WM::bar_visible() says
  alive,        \* icons that are not destroyed
  mapped,       \* icons that are mapped
  watched,      \* icons whose StructureNotify the window manager selected
  docked,       \* WBar::Impl::tray_windows
  events,       \* [type, window] on their way to the window manager
  unseen        \* icons destroyed without an UnmapNotify to the window manager

tray == <<alive, mapped, watched, docked, events, unseen>>

TrayInit ==
  /\ alive = Icons
  /\ mapped = {}
  /\ watched = {}
  /\ docked = {}
  /\ events = <<>>
  /\ unseen = {}

Event(type, w) == [type |-> type, window |-> w]

UnmapNotify(w) ==
  IF w \in mapped \cap watched THEN <<Event("unmap", w)>> ELSE <<>>

-----------------------------------------------------------------------------
(* The programs.                                                           *)

RequestDock(w) ==
  /\ w \in alive
  /\ Len(events) < MaxEvents
  /\ events' = Append(events, Event("dock", w))
  /\ UNCHANGED <<bar, visible, alive, mapped, watched, docked, unseen>>

MapIcon(w) ==
  /\ w \in alive \ mapped
  /\ Len(events) < MaxEvents
  /\ mapped' = mapped \cup {w}
  /\ UNCHANGED <<bar, visible, alive, watched, docked, events, unseen>>

UnmapIcon(w) ==
  /\ w \in mapped
  /\ Len(events) < MaxEvents
  /\ events' = events \o UnmapNotify(w)
  /\ mapped' = mapped \ {w}
  /\ UNCHANGED <<bar, visible, alive, watched, docked, unseen>>

\* An UnmapNotify, if any, comes before the DestroyNotify, of which
\* WM::handle_destroy_window does not tell the bar.
DestroyIcon(w) ==
  /\ w \in alive
  /\ Len(events) < MaxEvents
  /\ events' = events \o UnmapNotify(w)
  /\ alive' = alive \ {w}
  /\ mapped' = mapped \ {w}
  /\ unseen' = IF UnmapNotify(w) = <<>> THEN unseen \cup {w} ELSE unseen
  /\ UNCHANGED <<bar, visible, watched, docked>>

-----------------------------------------------------------------------------
(* The window manager's handlers of the next event.                        *)

\* XReparentWindow unmaps a mapped window first and maps it again afterwards.
\* XAddToSaveSet and XSendEvent succeed for windows that are gone, too.
Dock(w) ==
  /\ w \notin docked
  /\ watched' = IF w \in alive THEN watched \cup {w} ELSE watched
  /\ events' = Tail(events) \o IF w \in mapped THEN <<Event("unmap", w)>> ELSE <<>>
  /\ bar' = InsertBegin(bar, "right", IconCell(w), visible)
  /\ docked' = docked \cup {w}
  /\ UNCHANGED <<visible, alive, mapped, unseen>>

IgnoreDuplicate(w) ==
  /\ w \in docked
  /\ events' = Tail(events)
  /\ UNCHANGED <<bar, visible, alive, mapped, watched, docked, unseen>>

HandleTrayOpcode ==
  /\ events # <<>> /\ Head(events).type = "dock"
  /\ Dock(Head(events).window) \/ IgnoreDuplicate(Head(events).window)

\* Mutant: the icon is only forgotten, its cell stays.
ForgetUnmapped ==
  /\ events # <<>> /\ Head(events).type = "unmap"
  /\ events' = Tail(events)
  /\ docked' = docked \ {Head(events).window}
  /\ UNCHANGED <<bar, visible, alive, mapped, watched, unseen>>

HandleUnmapNotify ==
  /\ events # <<>> /\ Head(events).type = "unmap"
  /\ LET w == Head(events).window
     IN /\ docked' = docked \ {w}
        /\ bar' = IF w \in docked THEN RemoveCell(bar, "right", w, visible) ELSE bar
  /\ events' = Tail(events)
  /\ UNCHANGED <<visible, alive, mapped, watched, unseen>>

-----------------------------------------------------------------------------
(* The bar as a whole.                                                     *)

\* The selected view changes to one whose bar_visible may be another
\* (WM::select_view), or its own changes (WView::set_bar_visible).
ShowOrHide ==
  /\ visible' = ~ visible
  /\ bar' = ScheduleUpdateServer(bar)
  /\ UNCHANGED tray

ScreenSizeChanged(b) ==
  /\ b # bar.screen
  /\ bar' = ResizeBar(bar, b, visible)
  /\ UNCHANGED <<visible, tray>>

Obscure ==
  /\ bar.map_state
  /\ bar' = ExposeBar(bar, visible)
  /\ UNCHANGED <<visible, tray>>

\* Drawing maps the icons that have a cell and were not mapped by it before.
Flush ==
  /\ bar.update_server \/ bar.draw
  /\ bar' = FlushBar(bar, visible)
  /\ mapped' = mapped \cup {w \in docked \cap alive :
                              \A p \in bar.icons : p.window # w}
  /\ UNCHANGED <<visible, alive, watched, docked, events, unseen>>

Programs == \E w \in Icons : RequestDock(w) \/ MapIcon(w) \/ UnmapIcon(w) \/ DestroyIcon(w)

BarEvents == ShowOrHide \/ Obscure \/ \E b \in Bounds : ScreenSizeChanged(b)

TrayNext == Programs \/ HandleTrayOpcode \/ HandleUnmapNotify \/ BarEvents \/ Flush

TraySpec ==
  /\ TrayInit /\ visible \in BOOLEAN /\ (\E b \in Bounds : bar = NewBar(b))
  /\ [][TrayNext]_<<bar, visible, tray>>

-----------------------------------------------------------------------------
IconCells == {c.id : c \in {d \in ToSet(bar.cells["right"]) : d.icon}}

TrayTypeOK ==
  /\ visible \in BOOLEAN
  /\ mapped \subseteq alive /\ alive \subseteq Icons
  /\ watched \subseteq Icons /\ unseen \subseteq Icons /\ docked \subseteq Icons
  /\ events \in Seq([type : {"unmap", "dock"}, window : Icons])

(***************************************************************************)
(* The bar shows what it should: see BarIsUpToDate.                        *)
(***************************************************************************)
BarScreenIsUpToDate == BarIsUpToDate(bar, visible)

UnmapPending(w) == \E i \in DOMAIN events : events[i] = Event("unmap", w)

WasMapped(w) == \E p \in bar.icons : p.window = w

(***************************************************************************)
(* The tray and the icons agree: there is one cell for each docked window; *)
(* one that the bar has mapped leaves the tray when its program withdraws  *)
(* or destroys it, for the UnmapNotify is then on its way; and a cell      *)
(* outlives its window only if that was destroyed before it was mapped.    *)
(***************************************************************************)
TrayAndIconsAgree ==
  /\ TrayTypeOK
  /\ IconCells = docked
  /\ IsInjective(Ids(bar, "right"))
  /\ \A w \in docked \cap alive : WasMapped(w) /\ w \notin mapped => UnmapPending(w)
  /\ docked \ alive \subseteq unseen \cup {w \in Icons : UnmapPending(w)}
=============================================================================
