---------------------------- MODULE VolumeApplet ----------------------------
(***************************************************************************)
(* VolumeApplet (wm/extra/volume_applet.cpp): a thread of its own waits    *)
(* for the mixer and posts what it reads, and the main thread puts it on   *)
(* the bar.  Another thread, the one with which DeviceApplet waits for     *)
(* mounts, posts to the same queue.                                        *)
(*                                                                         *)
(* A level is the volume in percent together with whether it is muted.     *)
(* The sound library knows the mixer's level as of the last events it has  *)
(* handled (`cached').  The mixer does not fail while the program runs.    *)
(***************************************************************************)
EXTENDS Applets, EventService

CONSTANTS
  Levels,       \* levels of the mixer: the actions the volume thread posts
  Refresh       \* the action DeviceApplet's thread posts

VARIABLES
  level,        \* of the mixer
  mixer_event,  \* whether the mixer has an event to read
  cached,       \* the level the library knows
  reading       \* what the thread has read and not yet posted, or NoText

mixer == <<level, mixer_event, cached, reading>>

VolumeThread == "volume"
MountsThread == "mounts"

Volume == Anchor("volume")

\* The two threads are among those that post; a level is a number, and neither
\* "no text" nor another thread's action.
ASSUME VolumeAssumption ==
  /\ {VolumeThread, MountsThread} \subseteq Threads
  /\ Levels \cup {Refresh} \subseteq Actions
  /\ {NoText, Refresh} \cap Levels = {}

\* Mutant: the level is asked for before the mixer's events are handled.
PollMixerLate ==
  /\ mixer_event /\ reading = NoText /\ VolumeThread \notin writing
  /\ mixer_event' = FALSE
  /\ cached' = level
  /\ reading' = cached
  /\ UNCHANGED <<level, bar, service>>

\* poll() returns, the events are handled and the level is read.
PollMixer ==
  /\ mixer_event /\ reading = NoText /\ VolumeThread \notin writing
  /\ mixer_event' = FALSE
  /\ cached' = level
  /\ reading' = level
  /\ UNCHANGED <<level, bar, service>>

\* A signal ends poll(), which had nothing to report: the level is read and
\* posted all the same.
PollInterrupted ==
  /\ ~ mixer_event /\ reading = NoText /\ VolumeThread \notin writing
  /\ reading' = cached
  /\ UNCHANGED <<level, mixer_event, cached, bar, service>>

PostUpdate ==
  /\ reading # NoText
  /\ Push(VolumeThread, reading)
  /\ reading' = NoText
  /\ UNCHANGED <<level, mixer_event, cached, bar>>

\* DeviceApplet::monitor_mounts
PostRefresh ==
  /\ Push(MountsThread, Refresh)
  /\ UNCHANGED <<mixer, bar>>

Write(t) == WriteByte(t) /\ UNCHANGED <<mixer, bar>>

\* update_info.  The other thread's action reads the mounts: DeviceApplet's
\* cells are not part of this module.
RunPosted ==
  /\ RunAction
  /\ bar' = IF Head(work_queue) \in Levels
            THEN SetCell(bar, "right", Volume, Head(work_queue), NoText, visible)
            ELSE bar
  /\ UNCHANGED mixer

HandlePost == (ReadBytes \/ TakeLock \/ ReleaseLock) /\ UNCHANGED <<mixer, bar>>

LevelChanges(l) ==
  /\ l # level
  /\ level' = l
  /\ mixer_event' = TRUE
  /\ UNCHANGED <<cached, reading, bar, service>>

VolumeThreadStep == PollMixer \/ PostUpdate \/ Write(VolumeThread)

VolumeNext ==
  /\ \/ VolumeThreadStep \/ PollInterrupted \/ PostRefresh \/ Write(MountsThread)
     \/ RunPosted \/ HandlePost
     \/ \E l \in Levels : LevelChanges(l)
  /\ UNCHANGED <<visible, tray, applets>>

\* The constructor reads the level before it starts the thread.
VolumeInit ==
  /\ ServiceInit
  /\ level \in Levels
  /\ mixer_event = FALSE
  /\ cached = level
  /\ reading = NoText

VolumeCell(b) == InsertBegin(b, "right", TextCell(Volume, level, NoText), visible)

VolumeTypeOK ==
  /\ ServiceTypeOK
  /\ level \in Levels /\ cached \in Levels /\ reading \in Levels \cup {NoText}

(***************************************************************************)
(* When nothing is under way the bar has the level of the mixer: a level   *)
(* read earlier is never put there after a later one.                      *)
(***************************************************************************)
VolumeIsCurrent ==
  /\ VolumeTypeOK
  /\ /\ ~ mixer_event /\ reading = NoText
     /\ \A i \in DOMAIN work_queue : work_queue[i] = Refresh
     => TextOf(Volume) = level

(***************************************************************************)
(* A level that stays is seen: the threads' posts, the pipe and the main   *)
(* loop bring it to the window of the bar, however often poll is           *)
(* interrupted and whatever others post.                                   *)
(***************************************************************************)
VolumeIsSeen == \A l \in Levels : <>[](level = l) => <>[]Shows(l)
=============================================================================
