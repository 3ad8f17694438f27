---------------------------- MODULE BoundedQueue ----------------------------
(***************************************************************************)
(* What a ring buffer promises to the threads that share it: a FIFO queue  *)
(* of at most Capacity items on which a call takes effect at one instant   *)
(* between its invocation and its return.  A full queue refuses a reserve, *)
(* an empty queue refuses a retrieve; nothing ever blocks, is lost, is     *)
(* duplicated or is reordered.                                             *)
(***************************************************************************)
EXTENDS Naturals, Sequences

CONSTANTS
  Thread,     \* the threads that share the queue
  Item,       \* what is queued
  Capacity,   \* how many items fit
  NoItem      \* what a call that carries no item holds

VARIABLES
  open,       \* the queue has been created and not destroyed
  queue,      \* the items, oldest first
  call        \* per thread, the call it is in

vars == <<open, queue, call>>

\* A call of op that carries item x and has had this effect.
Effect(op, x, effect) == [op |-> op, item |-> x, effect |-> effect]

Idle == Effect("idle", NoItem, "none")

Init ==
  /\ open = FALSE
  /\ queue = <<>>
  /\ call = [t \in Thread |-> Idle]

Open ==
  /\ ~open
  /\ open' = TRUE
  /\ UNCHANGED <<queue, call>>

\* Whatever is still queued is dropped.
Close ==
  /\ open
  /\ \A t \in Thread : call[t] = Idle
  /\ open' = FALSE
  /\ queue' = <<>>
  /\ UNCHANGED call

InvokeReserve(t, x) ==
  /\ open
  /\ call[t] = Idle
  /\ call' = [call EXCEPT ![t] = Effect("reserve", x, "none")]
  /\ UNCHANGED <<open, queue>>

Enqueue(t) ==
  /\ call[t].op = "reserve"
  /\ call[t].effect = "none"
  /\ Len(queue) < Capacity
  /\ queue' = Append(queue, call[t].item)
  /\ call' = [call EXCEPT ![t] = Effect("reserve", call[t].item, "success")]
  /\ UNCHANGED open

RefuseFull(t) ==
  /\ call[t].op = "reserve"
  /\ call[t].effect = "none"
  /\ Len(queue) = Capacity
  /\ call' = [call EXCEPT ![t] = Effect("reserve", call[t].item, "error")]
  /\ UNCHANGED <<open, queue>>

InvokeRetrieve(t) ==
  /\ open
  /\ call[t] = Idle
  /\ call' = [call EXCEPT ![t] = Effect("retrieve", NoItem, "none")]
  /\ UNCHANGED <<open, queue>>

Dequeue(t) ==
  /\ call[t].op = "retrieve"
  /\ call[t].effect = "none"
  /\ queue # <<>>
  /\ queue' = Tail(queue)
  /\ call' = [call EXCEPT ![t] = Effect("retrieve", Head(queue), "success")]
  /\ UNCHANGED open

RefuseEmpty(t) ==
  /\ call[t].op = "retrieve"
  /\ call[t].effect = "none"
  /\ queue = <<>>
  /\ call' = [call EXCEPT ![t] = Effect("retrieve", NoItem, "error")]
  /\ UNCHANGED <<open, queue>>

Respond(t) ==
  /\ call[t].effect # "none"
  /\ call' = [call EXCEPT ![t] = Idle]
  /\ UNCHANGED <<open, queue>>

Step(t) ==
  \/ \E x \in Item : InvokeReserve(t, x)
  \/ Enqueue(t)
  \/ RefuseFull(t)
  \/ InvokeRetrieve(t)
  \/ Dequeue(t)
  \/ RefuseEmpty(t)
  \/ Respond(t)

Next == Open \/ Close \/ \E t \in Thread : Step(t)

Spec == Init /\ [][Next]_vars
=============================================================================
