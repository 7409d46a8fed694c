----------------------------- MODULE PostQueue -----------------------------
(***************************************************************************)
(* What EventService::post promises the threads that call it: their        *)
(* actions are run by the main thread, each once, in the order in which    *)
(* they were posted, and none is forgotten.                                *)
(***************************************************************************)
EXTENDS Sequences

CONSTANT Actions

VARIABLE pending        \* actions posted and not yet run

PQInit == pending = <<>>

Post(a) == pending' = Append(pending, a)

RunFirst == pending # <<>> /\ pending' = Tail(pending)

PQNext == RunFirst \/ \E a \in Actions : Post(a)

PQSafeSpec == PQInit /\ [][PQNext]_pending

PQSpec == PQSafeSpec /\ WF_pending(RunFirst)
=============================================================================
