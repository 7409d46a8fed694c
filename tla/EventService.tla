---------------------------- MODULE EventService ----------------------------
(***************************************************************************)
(* Posting work to the main thread (util/event.cpp).  A thread appends its *)
(* action to the work queue under the mutex, gives the mutex back, and     *)
(* only then writes the byte that wakes the main thread.  The main thread  *)
(* reads a number of bytes, takes the mutex, and runs and removes actions  *)
(* until the queue is empty; it keeps the mutex all the while.             *)
(*                                                                         *)
(* The mutex is held from TakeLock to ReleaseLock: main = "working".  What *)
(* a thread does under it, appending to the queue, is one step.            *)
(***************************************************************************)
EXTENDS Naturals, Sequences

CONSTANTS
  Threads,      \* threads that post
  Actions,      \* what they post
  PipeSize,     \* bytes the pipe holds; a write to a full pipe blocks
  BufferSize,   \* bytes read at once
  MaxQueue      \* bound: no thread posts while the queue is this long

ASSUME EventServiceAssumption ==
  /\ PipeSize \in Nat \ {0}
  /\ BufferSize \in Nat \ {0}
  /\ MaxQueue \in Nat

VARIABLES
  work_queue,   \* EventService::work_queue
  pipe,         \* bytes in the pipe
  writing,      \* threads that have pushed an action and not written their byte
  main          \* how far the main thread is: "polling", "woken", "working"

service == <<work_queue, pipe, writing, main>>

ServiceInit ==
  /\ work_queue = <<>>
  /\ pipe = 0
  /\ writing = {}
  /\ main = "polling"

Smaller(m, n) == IF m <= n THEN m ELSE n

-----------------------------------------------------------------------------
(* EventService::post, in a thread                                         *)

Push(t, a) ==
  /\ t \notin writing
  /\ main # "working"
  /\ Len(work_queue) < MaxQueue
  /\ work_queue' = Append(work_queue, a)
  /\ writing' = writing \cup {t}
  /\ UNCHANGED <<pipe, main>>

WriteByte(t) ==
  /\ t \in writing
  /\ pipe < PipeSize
  /\ pipe' = pipe + 1
  /\ writing' = writing \ {t}
  /\ UNCHANGED <<work_queue, main>>

-----------------------------------------------------------------------------
(* EventService::handle_post_event, in the main thread.  libevent calls it *)
(* when there is something to read.                                        *)

ReadBytes ==
  /\ main = "polling"
  /\ pipe > 0
  /\ pipe' = pipe - Smaller(pipe, BufferSize)
  /\ main' = "woken"
  /\ UNCHANGED <<work_queue, writing>>

TakeLock ==
  /\ main = "woken"
  /\ main' = "working"
  /\ UNCHANGED <<work_queue, pipe, writing>>

\* Mutant: the action posted last runs first.
RunLastAction ==
  /\ main = "working"
  /\ work_queue # <<>>
  /\ work_queue' = SubSeq(work_queue, 1, Len(work_queue) - 1)
  /\ UNCHANGED <<pipe, writing, main>>

\* The action at the front runs, and is removed.
RunAction ==
  /\ main = "working"
  /\ work_queue # <<>>
  /\ work_queue' = Tail(work_queue)
  /\ UNCHANGED <<pipe, writing, main>>

\* Mutant: one action for each wake-up, although the bytes are read at once.
ReleaseLockAfterOne ==
  /\ main = "working"
  /\ main' = "polling"
  /\ UNCHANGED <<work_queue, pipe, writing>>

ReleaseLock ==
  /\ main = "working"
  /\ work_queue = <<>>
  /\ main' = "polling"
  /\ UNCHANGED <<work_queue, pipe, writing>>

-----------------------------------------------------------------------------
ThreadStep == \E t \in Threads : WriteByte(t) \/ \E a \in Actions : Push(t, a)

MainStep == ReadBytes \/ TakeLock \/ RunAction \/ ReleaseLock

ServiceNext == ThreadStep \/ MainStep

ServiceSpec == ServiceInit /\ [][ServiceNext]_service

-----------------------------------------------------------------------------
ServiceTypeOK ==
  /\ work_queue \in Seq(Actions)
  /\ pipe \in 0 .. PipeSize
  /\ writing \subseteq Threads
  /\ main \in {"polling", "woken", "working"}

(***************************************************************************)
(* No wake-up is lost: while an action is queued there is a byte to wake   *)
(* the main thread, or a thread about to write one, or the main thread has *)
(* read its bytes and is yet to find the queue empty.                      *)
(***************************************************************************)
NothingForgotten ==
  work_queue # <<>> => pipe > 0 \/ writing # {} \/ main # "polling"

-----------------------------------------------------------------------------
Queue == INSTANCE PostQueue WITH pending <- work_queue
=============================================================================
