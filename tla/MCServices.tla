----------------------------- MODULE MCServices -----------------------------
(***************************************************************************)
(* Instances of VolumeApplet and Applets with the fairness of the program: *)
(* either the threads that post and the volume on the bar, or the applets  *)
(* that poll.                                                              *)
(***************************************************************************)
EXTENDS VolumeApplet

VARIABLE part   \* which of the two this behaviour is about

services == <<bar, visible, tray, applets, mixer, service, part>>

FlushOnly == Flush /\ UNCHANGED <<applets, mixer, service>>

VolumePart == part = "volume" /\ (VolumeNext \/ FlushOnly)

\* Nobody writes the other files.
PollsPart ==
  /\ part = "polls"
  /\ \/ /\ \/ StartNext \/ DeviceChanges
           \/ TouchFile("network") \/ DeleteFile("network") \/ HandleInotify("network")
           \/ \E a \in Polled : TimerExpires(a)
        /\ UNCHANGED <<visible, tray, mixer, service>>
     \/ FlushOnly

ServicesInit ==
  /\ part \in {"volume", "polls"}
  /\ visible = TRUE
  /\ TrayInit /\ AppletsInit /\ VolumeInit
  /\ bar = VolumeCell(NewBar("bottom"))
  /\ part = "volume" => network = NoText /\ battery = NoText

ServicesNext == (VolumePart \/ PollsPart) /\ UNCHANGED part

(***************************************************************************)
(* The main thread goes on and flushes in every pass of its loop, timers   *)
(* that are due run, and the threads go on.  A thread that waits for the   *)
(* mutex or for room in the pipe gets it if it is free again and again.    *)
(***************************************************************************)
InVolume(A) == part = "volume" /\ A /\ UNCHANGED <<visible, tray, applets, part>>

InPolls(A) == part = "polls" /\ A /\ UNCHANGED <<visible, tray, mixer, service, part>>

Fairness ==
  /\ WF_services(FlushOnly /\ UNCHANGED part)
  /\ WF_services(InVolume(HandlePost \/ RunPosted))
  /\ WF_services(InVolume(PollMixer))
  /\ SF_services(InVolume(PostUpdate))
  /\ \A t \in Threads : SF_services(InVolume(Write(t)))
  /\ WF_services(InPolls(StartNext))
  /\ \A a \in Polled : WF_services(InPolls(TimerExpires(a)))

ServicesSpec == ServicesInit /\ [][ServicesNext]_services /\ Fairness

(***************************************************************************)
(* The queue of posted actions keeps its promise: see PostQueue.           *)
(***************************************************************************)
ImplementsPostQueue == Queue!PQSpec

PolledTextsAreShown == part = "polls" => PolledTextsFollow

VolumeIsShown == part = "volume" => VolumeIsSeen

VolumeIsCurrentOnBar == part = "volume" => VolumeIsCurrent

AllThreads == {VolumeThread, MountsThread}
AllActions == Levels \cup {Refresh}
=============================================================================
