--------------------------- MODULE ServicesProofs ---------------------------
(***************************************************************************)
(* The event service loses no wake-up and is a queue, for any number of    *)
(* threads, any pipe and any buffer; and because it is one, the level that *)
(* the volume's thread posts last is the one that stays on the bar.        *)
(***************************************************************************)
EXTENDS MCServices, TrayProofs

(***************************************************************************)
(* A byte that is read leaves the pipe with no fewer than none.            *)
(***************************************************************************)
LEMMA Reading ==
  ASSUME NEW m \in Nat, m > 0
  PROVE m - Smaller(m, BufferSize) \in 0 .. m
  BY EventServiceAssumption, SMT DEF Smaller

(***************************************************************************)
(* Every step of the event service keeps the types.                        *)
(***************************************************************************)
LEMMA ServiceTypeKept == ServiceTypeOK /\ [ServiceNext]_service => ServiceTypeOK'
<1> SUFFICES ASSUME ServiceTypeOK, [ServiceNext]_service
             PROVE ServiceTypeOK'
  OBVIOUS
<1> USE DEF ServiceTypeOK
<1>1. ASSUME NEW t \in Threads, WriteByte(t) PROVE ServiceTypeOK'
  BY <1>1, EventServiceAssumption, SMT DEF WriteByte
<1>2. ASSUME NEW t \in Threads, NEW a \in Actions, Push(t, a) PROVE ServiceTypeOK'
  BY <1>2, SMT DEF Push
<1>3. CASE ReadBytes
  <2>1. pipe' \in 0 .. PipeSize
    BY <1>3, Reading, EventServiceAssumption, SMT DEF ReadBytes
  <2> QED
    BY <1>3, <2>1, SMT DEF ReadBytes
<1>4. CASE TakeLock
  BY <1>4, SMT DEF TakeLock
<1>5. CASE RunAction
  BY <1>5, SMT DEF RunAction
<1>6. CASE ReleaseLock
  BY <1>6, SMT DEF ReleaseLock
<1>7. CASE UNCHANGED service
  BY <1>7, SMT DEF service
<1> QED
  BY <1>1, <1>2, <1>3, <1>4, <1>5, <1>6, <1>7 DEF ServiceNext, ThreadStep, MainStep

(***************************************************************************)
(* Type correctness of the event service.                                  *)
(***************************************************************************)
THEOREM ServiceTypeCorrect == ServiceSpec => []ServiceTypeOK
<1>1. ServiceInit => ServiceTypeOK
  BY EventServiceAssumption, SMT DEF ServiceInit, ServiceTypeOK
<1> QED
  BY <1>1, ServiceTypeKept, PTL DEF ServiceSpec

(***************************************************************************)
(* No wake-up is lost.  NothingForgotten is inductive with the types: the  *)
(* one step that may leave the main thread polling, ReleaseLock, finds the *)
(* queue empty under the mutex that every Push needs.                      *)
(***************************************************************************)
THEOREM NoWakeUpIsLost == ServiceSpec => []NothingForgotten
<1>1. ServiceInit => NothingForgotten
  BY DEF ServiceInit, NothingForgotten
<1>2. ServiceTypeOK /\ NothingForgotten /\ [ServiceNext]_service => NothingForgotten'
  <2> SUFFICES ASSUME ServiceTypeOK, NothingForgotten, [ServiceNext]_service
               PROVE NothingForgotten'
    OBVIOUS
  <2> USE DEF ServiceTypeOK, NothingForgotten
  <2>1. ASSUME NEW t \in Threads, WriteByte(t) PROVE NothingForgotten'
    BY <2>1, SMT DEF WriteByte
  <2>2. ASSUME NEW t \in Threads, NEW a \in Actions, Push(t, a) PROVE NothingForgotten'
    BY <2>2 DEF Push
  <2>3. CASE ReadBytes
    BY <2>3 DEF ReadBytes
  <2>4. CASE TakeLock
    BY <2>4 DEF TakeLock
  <2>5. CASE RunAction
    BY <2>5 DEF RunAction
  <2>6. CASE ReleaseLock
    BY <2>6 DEF ReleaseLock
  <2>7. CASE UNCHANGED service
    BY <2>7 DEF service
  <2> QED
    BY <2>1, <2>2, <2>3, <2>4, <2>5, <2>6, <2>7 DEF ServiceNext, ThreadStep, MainStep
<1> QED
  BY <1>1, <1>2, ServiceTypeCorrect, PTL DEF ServiceSpec

(***************************************************************************)
(* The safety of ImplementsPostQueue: what the main thread runs is what    *)
(* was posted, each action once, in the order of the posts.                *)
(***************************************************************************)
THEOREM IsAQueue == ServiceSpec => Queue!PQSafeSpec
<1>1. ServiceInit => Queue!PQInit
  BY DEF ServiceInit, Queue!PQInit
<1>2. [ServiceNext]_service => [Queue!PQNext]_work_queue
  <2> SUFFICES ASSUME [ServiceNext]_service
               PROVE [Queue!PQNext]_work_queue
    OBVIOUS
  <2>1. ASSUME NEW t \in Threads, NEW a \in Actions, Push(t, a) PROVE Queue!PQNext
    BY <2>1 DEF Push, Queue!PQNext, Queue!Post
  <2>2. CASE RunAction
    BY <2>2 DEF RunAction, Queue!PQNext, Queue!RunFirst
  <2>3. ASSUME NEW t \in Threads, WriteByte(t) PROVE UNCHANGED work_queue
    BY <2>3 DEF WriteByte
  <2>4. CASE ReadBytes \/ TakeLock \/ ReleaseLock
    BY <2>4 DEF ReadBytes, TakeLock, ReleaseLock
  <2>5. CASE UNCHANGED service
    BY <2>5 DEF service
  <2> QED
    BY <2>1, <2>2, <2>3, <2>4, <2>5 DEF ServiceNext, ThreadStep, MainStep
<1> QED
  BY <1>1, <1>2, PTL DEF ServiceSpec, Queue!PQSafeSpec
-----------------------------------------------------------------------------
(* The volume on the bar.                                                  *)

\* What the volume's cell is when the bar shows the level `l'.
VolumeCells(l) == <<TextCell(Volume, l, NoText)>>

\* The one cell on the right shows the level `l'.
BarHas(b, l) ==
  /\ IsBar(b) /\ b.bounds = b.screen
  /\ DOMAIN b.cells = Sides /\ b.cells["right"] = VolumeCells(l)

\* No level is in the queue.
NoLevel(q) == \A i \in DOMAIN q : q[i] = Refresh

\* The last level in the queue is `l'.
LastLevel(q, l) ==
  \E i \in DOMAIN q : q[i] = l /\ \A j \in DOMAIN q : i < j => q[j] = Refresh

(***************************************************************************)
(* The level that the library knows is on its way: the thread has read it, *)
(* or else it is the last one in the queue, or else it is on the bar.      *)
(* Before the mixer's events are read it may be an old one.                *)
(***************************************************************************)
VolumeInv ==
  /\ VolumeTypeOK
  /\ work_queue \in Seq(Levels \cup {Refresh})
  /\ ~ mixer_event => cached = level
  /\ reading # NoText => reading = cached
  /\ reading = NoText /\ ~ NoLevel(work_queue) => LastLevel(work_queue, cached)
  /\ \E l \in Levels :
       BarHas(bar, l) /\ (reading = NoText /\ NoLevel(work_queue) => l = cached)

(***************************************************************************)
(* The bar is made with the cell of the volume.                            *)
(***************************************************************************)
LEMMA VolumeCellMade ==
  ASSUME NEW s
  PROVE  BarHas(VolumeCell(NewBar(s)), level)
<1> DEFINE b == NewBar(s)
           x == InsertAt(b.cells["right"], 1, TextCell(Volume, level, NoText))
           c == WithSide(b, "right", x)
<1>1. VolumeCell(b) = ScheduleBarDraw(c, visible)
  BY Zenon DEF VolumeCell, InsertBegin, InsertCellAt, WithSide
<1>2. IsBar(b) /\ b.bounds = b.screen /\ b.cells = [side \in Sides |-> <<>>]
  BY Zenon DEF NewBar, IsBar, BarFields
<1> HIDE DEF b
<1>3. x = VolumeCells(level)
  <2>1. b.cells["right"] = <<>>
    BY <1>2, Zenon DEF Sides
  <2>2. ASSUME NEW e PROVE InsertAt(<<>>, 1, e) = <<e>>
    <3>1. InsertAt(<<>>, 1, e) = (SubSeq(<<>>, 1, 0) \o <<e>>) \o SubSeq(<<>>, 1, 0)
      BY DEF InsertAt
    <3>2. SubSeq(<<>>, 1, 0) = <<>>
      BY SubSeqEmpty
    <3>3. <<>> \in Seq({e}) /\ <<e>> \in Seq({e})
      OBVIOUS
    <3>4. QED BY <3>1, <3>2, <3>3, ConcatEmptySeq
  <2>3. QED BY <2>1, <2>2, Zenon DEF VolumeCells
<1> HIDE DEF x
<1>0. IsBar(b)
  BY <1>2
<1>4. IsBar(c) /\ SameWindow(b, c) /\ c.cells = CellsWith(b.cells, "right", x)
  BY <1>0, AssignCells, Zenon
<1>5. DOMAIN c.cells = Sides /\ c.cells["right"] = x
  BY <1>2, <1>4 DEF CellsWith, Sides
<1> HIDE DEF c
<1>6. IsBar(ScheduleBarDraw(c, visible)) /\ SameWindow(c, ScheduleBarDraw(c, visible))
      /\ SameCells(c, ScheduleBarDraw(c, visible))
  BY <1>4, ScheduledDraw, Zenon
<1>7. QED BY <1>1, <1>2, <1>3, <1>4, <1>5, <1>6, Zenon DEF b, BarHas, SameWindow, SameCells

(***************************************************************************)
(* An update puts its level there.                                         *)
(***************************************************************************)
LEMMA VolumeCellSet ==
  ASSUME NEW b, NEW l, BarHas(b, l), NEW t, NEW v
  PROVE  BarHas(SetCell(b, "right", Volume, t, NoText, v), t)
<1> DEFINE i == Place(b, "right", Volume)
           x == [b.cells["right"] EXCEPT ![i] = TextCell(Volume, t, NoText)]
           c == WithSide(b, "right", x)
<1>1. SetCell(b, "right", Volume, t, NoText, v) = ScheduleBarDraw(c, v)
  BY Zenon DEF SetCell, WithSide
<1>2. i = 1
  <2>1. DOMAIN b.cells["right"] = {1} /\ b.cells["right"][1].id = Volume
    BY DEF BarHas, VolumeCells, TextCell
  <2>2. QED BY <2>1 DEF Place
<1>3. x = VolumeCells(t)
  BY <1>2 DEF BarHas, VolumeCells
<1> HIDE DEF i, x
<1>4. IsBar(c) /\ SameWindow(b, c) /\ c.cells = CellsWith(b.cells, "right", x)
  BY AssignCells, Zenon DEF BarHas
<1>5. DOMAIN c.cells = Sides /\ c.cells["right"] = x
  BY <1>4 DEF CellsWith, Sides, BarHas
<1> HIDE DEF c
<1>6. IsBar(ScheduleBarDraw(c, v)) /\ SameWindow(c, ScheduleBarDraw(c, v))
      /\ SameCells(c, ScheduleBarDraw(c, v))
  BY <1>4, ScheduledDraw, Zenon
<1>7. QED BY <1>1, <1>3, <1>4, <1>5, <1>6, Zenon DEF BarHas, SameWindow, SameCells

(***************************************************************************)
(* A flush leaves it there.                                                *)
(***************************************************************************)
LEMMA VolumeCellFlushed ==
  ASSUME NEW b, NEW l, BarHas(b, l), NEW v
  PROVE  BarHas(FlushBar(b, v), l)
<1> DEFINE u == IF b.update_server THEN UpdateServer(b, v) ELSE b
           d == IF b.update_server \/ b.draw THEN Draw(u) ELSE u
           c == Cleared(d)
<1>1. FlushBar(b, v) = c
  BY Zenon DEF FlushBar, Cleared
<1>2. IsBar(u) /\ u.bounds = u.screen /\ u.cells = b.cells
  BY Updating, Zenon DEF BarHas, SameCells
<1> HIDE DEF u
<1>3. IsBar(d) /\ d.cells = u.cells /\ d.screen = u.screen /\ d.bounds = u.bounds
  BY <1>2, DrawingNow, Zenon
<1> HIDE DEF d
<1>4. IsBar(c) /\ c.cells = d.cells /\ c.screen = d.screen /\ c.bounds = d.bounds
  BY <1>3, Clearing, Zenon
<1>5. QED BY <1>1, <1>2, <1>3, <1>4, Zenon DEF BarHas

-----------------------------------------------------------------------------
(* The levels in the queue.                                                *)

Posted == Levels \cup {Refresh}

(***************************************************************************)
(* A level that is posted is the last one in the queue.                    *)
(***************************************************************************)
LEMMA PostingLevel ==
  ASSUME NEW q \in Seq(Posted), NEW l \in Levels
  PROVE  /\ Append(q, l) \in Seq(Posted)
         /\ ~ NoLevel(Append(q, l)) /\ LastLevel(Append(q, l), l)
<1>1. /\ Append(q, l) \in Seq(Posted) /\ Len(Append(q, l)) = Len(q) + 1
      /\ Append(q, l)[Len(q) + 1] = l
  BY AppendProperties DEF Posted
<1>2. DOMAIN Append(q, l) = 1..(Len(q) + 1) /\ Len(q) \in Nat
  BY <1>1, LenProperties
<1>3. l # Refresh
  BY VolumeAssumption
<1>4. QED BY <1>1, <1>2, <1>3 DEF NoLevel, LastLevel

(***************************************************************************)
(* Another action posted after it changes nothing.                         *)
(***************************************************************************)
LEMMA PostingRefresh ==
  ASSUME NEW q \in Seq(Posted), NEW l
  PROVE  /\ Append(q, Refresh) \in Seq(Posted)
         /\ NoLevel(Append(q, Refresh)) <=> NoLevel(q)
         /\ LastLevel(q, l) => LastLevel(Append(q, Refresh), l)
<1> DEFINE r == Append(q, Refresh)
<1>1. /\ r \in Seq(Posted) /\ Len(r) = Len(q) + 1
      /\ \A i \in 1..Len(q) : r[i] = q[i]
      /\ r[Len(q) + 1] = Refresh
  BY AppendProperties DEF Posted
<1>2. DOMAIN r = 1..(Len(q) + 1) /\ Len(q) \in Nat /\ DOMAIN q = 1..Len(q)
  BY <1>1, LenProperties
<1> HIDE DEF r
<1>3. NoLevel(r) <=> NoLevel(q)
  BY <1>1, <1>2 DEF NoLevel
<1>4. LastLevel(q, l) => LastLevel(r, l)
  BY <1>1, <1>2 DEF LastLevel
<1>5. QED BY <1>1, <1>3, <1>4 DEF r

(***************************************************************************)
(* When the action at the front is run, the last level stays the last one, *)
(* or it was the one that is run.                                          *)
(***************************************************************************)
LEMMA RunningPosted ==
  ASSUME NEW q \in Seq(Posted), q # <<>>
  PROVE  /\ Tail(q) \in Seq(Posted) /\ Head(q) \in Posted
         /\ NoLevel(q) <=> NoLevel(Tail(q)) /\ Head(q) = Refresh
         /\ \A l : LastLevel(q, l) /\ l # Refresh =>
              IF NoLevel(Tail(q)) THEN l = Head(q) ELSE LastLevel(Tail(q), l)
<1> DEFINE r == Tail(q)
<1>1. /\ Head(q) \in Posted /\ r \in Seq(Posted) /\ Len(r) = Len(q) - 1
      /\ \A i \in 1..Len(r) : r[i] = q[i + 1]
  BY HeadTailProperties
<1>2. /\ Len(q) \in Nat /\ Len(q) > 0 /\ Head(q) = q[1]
      /\ DOMAIN q = 1..Len(q) /\ DOMAIN r = 1..(Len(q) - 1)
  BY <1>1, LenProperties, EmptySeq
<1> HIDE DEF r
<1>3. \A i \in 1..Len(q) : i = 1 \/ (i - 1 \in 1..Len(r) /\ r[i - 1] = q[i])
  BY <1>1, <1>2
<1>4. NoLevel(q) <=> NoLevel(r) /\ Head(q) = Refresh
  BY <1>1, <1>2, <1>3 DEF NoLevel
<1>5. ASSUME NEW l, LastLevel(q, l), l # Refresh
      PROVE  IF NoLevel(r) THEN l = Head(q) ELSE LastLevel(r, l)
  <2>1. PICK i \in 1..Len(q) : q[i] = l /\ \A j \in 1..Len(q) : i < j => q[j] = Refresh
    BY <1>2, <1>5 DEF LastLevel
  <2>2. CASE i = 1
    <3>1. NoLevel(r) /\ l = Head(q)
      BY <1>1, <1>2, <2>1, <2>2 DEF NoLevel
    <3>2. QED BY <3>1
  <2>3. CASE i # 1
    <3>1. LastLevel(r, l)
      <4>1. i - 1 \in DOMAIN r /\ r[i - 1] = l
        BY <1>1, <1>2, <1>3, <2>1, <2>3
      <4>2. \A j \in DOMAIN r : i - 1 < j => r[j] = Refresh
        BY <1>1, <1>2, <2>1
      <4>3. QED BY <4>1, <4>2 DEF LastLevel
    <3>2. ~ NoLevel(r)
      BY <1>5, <3>1 DEF NoLevel, LastLevel
    <3>3. QED BY <3>1, <3>2
  <2>4. QED BY <2>2, <2>3
<1>6. QED BY <1>1, <1>4, <1>5 DEF r

-----------------------------------------------------------------------------
(* The steps.                                                              *)

(***************************************************************************)
(* The constructor reads the level the bar starts with.                    *)
(***************************************************************************)
LEMMA VolumeStarts ==
  ASSUME VolumeInit, NEW s, bar = VolumeCell(NewBar(s))
  PROVE  VolumeInv
<1>1. /\ work_queue = <<>> /\ ServiceTypeOK
      /\ level \in Levels /\ ~ mixer_event /\ cached = level /\ reading = NoText
  BY EventServiceAssumption DEF VolumeInit, ServiceInit, ServiceTypeOK
<1>2. BarHas(bar, level)
  BY VolumeCellMade
<1>3. NoLevel(work_queue)
  BY <1>1 DEF NoLevel
<1>4. QED BY <1>1, <1>2, <1>3 DEF VolumeInv, VolumeTypeOK, Posted

(***************************************************************************)
(* What the volume's thread does in its own memory.                        *)
(***************************************************************************)
LEMMA VolumeMixer ==
  ASSUME VolumeInv, PollMixer \/ PollInterrupted \/ \E l \in Levels : LevelChanges(l)
  PROVE  VolumeInv'
<1> USE DEF VolumeInv, VolumeTypeOK
<1>1. /\ work_queue' = work_queue /\ bar' = bar /\ UNCHANGED service
      /\ level' \in Levels /\ cached' \in Levels /\ reading' \in Levels \cup {NoText}
      /\ ~ mixer_event' => cached' = level'
      /\ reading' # NoText => reading' = cached'
      /\ reading' = NoText => reading = NoText /\ cached' = cached
  BY VolumeAssumption DEF PollMixer, PollInterrupted, LevelChanges, service
<1>2. ServiceTypeOK'
  BY <1>1, ServiceTypeKept
<1>3. QED BY <1>1, <1>2

(***************************************************************************)
(* A thread posts what it has, or the byte for it.                         *)
(***************************************************************************)
LEMMA VolumePosts ==
  ASSUME VolumeInv, PostUpdate \/ PostRefresh \/ \E t \in Threads : Write(t)
  PROVE  VolumeInv'
<1> USE DEF VolumeInv, VolumeTypeOK
<1>1. CASE PostUpdate
  <2>1. /\ Push(VolumeThread, reading) /\ reading \in Levels /\ reading = cached
        /\ reading' = NoText /\ UNCHANGED <<level, mixer_event, cached, bar>>
        /\ work_queue' = Append(work_queue, reading)
    BY <1>1 DEF PostUpdate, Push
  <2>2. ServiceTypeOK'
    BY <2>1, VolumeAssumption, ServiceTypeKept DEF ServiceNext, ThreadStep
  <2>3. /\ work_queue' \in Seq(Posted)
        /\ ~ NoLevel(work_queue') /\ LastLevel(work_queue', cached)
    BY <2>1, PostingLevel DEF Posted
  <2>4. QED BY <2>1, <2>2, <2>3 DEF Posted
<1>2. CASE PostRefresh
  <2>1. /\ Push(MountsThread, Refresh) /\ UNCHANGED <<mixer, bar>>
        /\ work_queue' = Append(work_queue, Refresh)
    BY <1>2 DEF PostRefresh, Push
  <2>2. ServiceTypeOK'
    BY <2>1, VolumeAssumption, ServiceTypeKept DEF ServiceNext, ThreadStep
  <2>3. /\ work_queue' \in Seq(Posted)
        /\ NoLevel(work_queue') <=> NoLevel(work_queue)
        /\ LastLevel(work_queue, cached) => LastLevel(work_queue', cached)
    BY <2>1, PostingRefresh DEF Posted
  <2>4. QED BY <2>1, <2>2, <2>3 DEF Posted, mixer
<1>3. ASSUME NEW t \in Threads, Write(t) PROVE VolumeInv'
  <2>1. WriteByte(t) /\ UNCHANGED <<mixer, bar, work_queue>>
    BY <1>3 DEF Write, WriteByte
  <2>2. ServiceTypeOK'
    BY <2>1, ServiceTypeKept DEF ServiceNext, ThreadStep
  <2>3. QED BY <2>1, <2>2 DEF mixer
<1>4. QED BY <1>1, <1>2, <1>3

(***************************************************************************)
(* The main thread runs what was posted.                                   *)
(***************************************************************************)
LEMMA VolumeRuns ==
  ASSUME VolumeInv, RunPosted
  PROVE  VolumeInv'
<1> USE DEF VolumeInv, VolumeTypeOK
<1> DEFINE q == work_queue
<1>1. /\ RunAction /\ q # <<>> /\ work_queue' = Tail(q) /\ UNCHANGED mixer
      /\ bar' = IF Head(q) \in Levels
                THEN SetCell(bar, "right", Volume, Head(q), NoText, visible)
                ELSE bar
  BY DEF RunPosted, RunAction
<1>2. ServiceTypeOK'
  BY <1>1, ServiceTypeKept DEF ServiceNext, MainStep
<1>3. /\ Tail(q) \in Seq(Posted) /\ Head(q) \in Posted
      /\ NoLevel(q) <=> NoLevel(Tail(q)) /\ Head(q) = Refresh
      /\ \A l : LastLevel(q, l) /\ l # Refresh =>
           IF NoLevel(Tail(q)) THEN l = Head(q) ELSE LastLevel(Tail(q), l)
  BY <1>1, RunningPosted DEF Posted
<1>4. PICK l \in Levels : BarHas(bar, l) /\ (reading = NoText /\ NoLevel(q) => l = cached)
  OBVIOUS
<1>5. cached \in Levels /\ Refresh \notin Levels
  BY VolumeAssumption
<1>6. CASE Head(q) \in Levels
  <2>1. BarHas(bar', Head(q))
    BY <1>1, <1>4, <1>6, VolumeCellSet
  <2>2. reading = NoText => LastLevel(q, cached)
    BY <1>3, <1>5, <1>6
  <2>3. reading = NoText => IF NoLevel(Tail(q)) THEN cached = Head(q) ELSE LastLevel(Tail(q), cached)
    BY <1>3, <1>5, <2>2
  <2>4. QED BY <1>1, <1>2, <1>3, <1>6, <2>1, <2>3 DEF mixer, Posted
<1>7. CASE Head(q) \notin Levels
  <2>1. Head(q) = Refresh /\ bar' = bar
    BY <1>1, <1>3, <1>7 DEF Posted
  <2>2. reading = NoText /\ ~ NoLevel(Tail(q)) => LastLevel(Tail(q), cached)
    BY <1>3, <1>5
  <2>3. QED BY <1>1, <1>2, <1>3, <1>4, <2>1, <2>2 DEF mixer, Posted
<1>8. QED BY <1>6, <1>7

(***************************************************************************)
(* The rest of what the main thread does: it takes and gives back the      *)
(* mutex and flushes.                                                      *)
(***************************************************************************)
LEMMA VolumeRest ==
  ASSUME VolumeInv, HandlePost \/ FlushOnly
  PROVE  VolumeInv'
<1> USE DEF VolumeInv, VolumeTypeOK
<1>1. CASE HandlePost
  <2>1. /\ ReadBytes \/ TakeLock \/ ReleaseLock
        /\ UNCHANGED <<mixer, bar, work_queue>>
    BY <1>1 DEF HandlePost, ReadBytes, TakeLock, ReleaseLock
  <2>2. ServiceTypeOK'
    BY <2>1, ServiceTypeKept DEF ServiceNext, MainStep
  <2>3. QED BY <2>1, <2>2 DEF mixer
<1>2. CASE FlushOnly
  <2>1. bar' = FlushBar(bar, visible) /\ UNCHANGED <<mixer, service>> /\ work_queue' = work_queue
    BY <1>2 DEF FlushOnly, Flush, service
  <2>2. ServiceTypeOK'
    BY <2>1, ServiceTypeKept
  <2>3. \A l : BarHas(bar, l) => BarHas(bar', l)
    BY <2>1, VolumeCellFlushed
  <2>4. QED BY <2>1, <2>2, <2>3 DEF mixer
<1>3. QED BY <1>1, <1>2

\* The invariant of the instances that are about the volume.
PartInv == part = "volume" => VolumeInv

(***************************************************************************)
(* Every step keeps it.                                                    *)
(***************************************************************************)
LEMMA PartInvariant == ServicesSpec => []PartInv
<1>1. ServicesInit => PartInv
  BY VolumeStarts DEF ServicesInit, PartInv
<1>2. PartInv /\ [ServicesNext]_services => PartInv'
  <2> SUFFICES ASSUME PartInv, [ServicesNext]_services, part' = "volume" PROVE VolumeInv'
    BY DEF PartInv
  <2>1. VolumeInv
    BY DEF ServicesNext, services, PartInv
  <2>2. CASE VolumeNext
    <3>1. \/ VolumeThreadStep \/ PollInterrupted \/ PostRefresh \/ Write(MountsThread)
          \/ RunPosted \/ HandlePost
          \/ \E l \in Levels : LevelChanges(l)
      BY <2>2 DEF VolumeNext
    <3>2. VolumeThread \in Threads /\ MountsThread \in Threads
      BY VolumeAssumption
    <3>3. QED BY <2>1, <3>1, <3>2, VolumeMixer, VolumePosts, VolumeRuns, VolumeRest
                 DEF VolumeThreadStep
  <2>3. CASE FlushOnly
    BY <2>1, <2>3, VolumeRest
  <2>4. CASE UNCHANGED services
    <3>1. UNCHANGED <<mixer, service, bar, work_queue>>
      BY <2>4 DEF services, service
    <3>2. ServiceTypeOK'
      BY <2>1, <3>1, ServiceTypeKept DEF VolumeInv, VolumeTypeOK
    <3>3. QED BY <2>1, <3>1, <3>2 DEF VolumeInv, VolumeTypeOK, mixer
  <2>5. QED BY <2>2, <2>3, <2>4 DEF ServicesNext, VolumePart, PollsPart, services
<1>3. QED BY <1>1, <1>2, PTL DEF ServicesSpec

(***************************************************************************)
(* When nothing is under way the bar has the level of the mixer, however   *)
(* the threads' posts and the main loop's passes interleave: a level that  *)
(* was read earlier is never put there after a later one.                  *)
(***************************************************************************)
THEOREM VolumeStaysCurrent == ServicesSpec => []VolumeIsCurrentOnBar
<1>1. PartInv => VolumeIsCurrentOnBar
  <2> SUFFICES ASSUME VolumeInv PROVE VolumeIsCurrent
    BY DEF VolumeIsCurrentOnBar, PartInv
  <2>1. VolumeTypeOK
    BY DEF VolumeInv
  <2>2. ASSUME ~ mixer_event, reading = NoText, NoLevel(work_queue)
        PROVE  TextOf(Volume) = level
    <3>1. BarHas(bar, level)
      BY <2>2 DEF VolumeInv
    <3>2. /\ DOMAIN bar.cells["right"] = {1} /\ bar.cells["right"][1].id = Volume
          /\ bar.cells["right"][1].text = level
      BY <3>1 DEF BarHas, VolumeCells, TextCell
    <3>3. Place(bar, "right", Volume) = 1
      BY <3>2 DEF Place
    <3>4. QED BY <3>2, <3>3 DEF TextOf
  <2>3. QED BY <2>1, <2>2 DEF VolumeIsCurrent, NoLevel
<1>2. QED BY <1>1, PartInvariant, PTL
(***************************************************************************)
(* The applets and their threads use the event service as its module says: *)
(* nothing is posted but actions, by its threads, and nothing else touches *)
(* the queue.  What is proved of the service holds of them.                *)
(***************************************************************************)
THEOREM ServicesUseTheService == ServicesSpec => ServiceSpec
<1>1. ServicesInit => ServiceInit
  BY DEF ServicesInit, VolumeInit
<1>2. PartInv /\ [ServicesNext]_services => [ServiceNext]_service
  <2> SUFFICES ASSUME PartInv, [ServicesNext]_services PROVE [ServiceNext]_service
    OBVIOUS
  <2>0. VolumeThread \in Threads /\ MountsThread \in Threads /\ Levels \cup {Refresh} \subseteq Actions
    BY VolumeAssumption
  <2>1. CASE part = "volume" /\ PostUpdate
    <3>1. Push(VolumeThread, reading) /\ reading \in Levels
      BY <2>1 DEF PartInv, VolumeInv, VolumeTypeOK, PostUpdate
    <3>2. QED BY <2>0, <3>1 DEF ServiceNext, ThreadStep
  <2>2. CASE PostRefresh \/ \E t \in Threads : Write(t)
    BY <2>0, <2>2 DEF PostRefresh, Write, ServiceNext, ThreadStep
  <2>3. CASE RunPosted \/ HandlePost
    BY <2>3 DEF RunPosted, HandlePost, ServiceNext, MainStep
  <2>4. CASE UNCHANGED service
    BY <2>4
  <2>5. CASE VolumePart /\ VolumeNext
    <3>1. part = "volume"
      BY <2>5 DEF VolumePart
    <3>2. CASE PollMixer \/ PollInterrupted \/ \E l \in Levels : LevelChanges(l)
      BY <2>4, <3>2 DEF PollMixer, PollInterrupted, LevelChanges
    <3>3. CASE PostUpdate \/ PostRefresh \/ Write(VolumeThread) \/ Write(MountsThread)
      BY <2>0, <2>1, <2>2, <3>1, <3>3
    <3>4. QED BY <2>3, <2>5, <3>2, <3>3 DEF VolumeNext, VolumeThreadStep
  <2>6. CASE FlushOnly
    BY <2>4, <2>6 DEF FlushOnly
  <2>7. CASE PollsPart
    BY <2>4, <2>6, <2>7 DEF PollsPart
  <2>8. CASE UNCHANGED services
    BY <2>4, <2>8 DEF services
  <2>9. QED BY <2>5, <2>6, <2>7, <2>8 DEF ServicesNext, VolumePart
<1>3. QED BY <1>1, <1>2, PartInvariant, PTL DEF ServicesSpec, ServiceSpec
=============================================================================
