----------------------------- MODULE RingBuffer -----------------------------
(***************************************************************************)
(* core/ringbuffer.c and core/internal/ringbuffer_internal.h: the circular *)
(* buffer behind every script context.  Each call is taken apart at its    *)
(* shared-memory accesses: the mutex, the test of the indices, the copy of *)
(* the item, the store of the index.                                       *)
(*                                                                         *)
(* start, end and size are uint32_t.  end < size <= 2^32 - 1, so end + 1   *)
(* never wraps and the indices need no width.                              *)
(***************************************************************************)
EXTENDS Integers, Sequences

CONSTANTS
  Thread,     \* threads that call reserve and retrieve
  Item,       \* what is queued
  Size,       \* the size argument of kl_alloc_ringbuffer
  NoThread,   \* the mutex is free
  NoItem      \* an uninitialised slot, or no item

ASSUME SizeAssumption == Size \in Nat \ {0}
ASSUME NoThreadAssumption == NoThread \notin Thread
ASSUME NoItemAssumption == NoItem \notin Item

VARIABLES
  buffer,     \* the slots
  start,      \* index of the oldest item
  end,        \* index of the slot the next item goes to
  size,       \* 0 until allocated and after free
  mutex,      \* the thread that holds ringbuffer->mutex
  pc,         \* per thread, where it is in its call
  item,       \* per thread, the item argument
  nend,       \* per thread, the local nend of reserve
  ret         \* per thread, the local ret

vars == <<buffer, start, end, size, mutex, pc, item, nend, ret>>
locals == <<pc, item, nend, ret>>

Slot == 0 .. Size - 1

Fresh == [i \in Slot |-> NoItem]

Init ==
  /\ buffer = Fresh
  /\ start = 0 /\ end = 0 /\ size = 0
  /\ mutex = NoThread
  /\ pc = [t \in Thread |-> "idle"]
  /\ item = [t \in Thread |-> NoItem]
  /\ nend = [t \in Thread |-> 0]
  /\ ret = [t \in Thread |-> "error"]

\* kl_alloc_ringbuffer.  When the heap refuses, nothing is written.  The slots
\* of a fresh block hold arbitrary bytes: NoItem stands for them.
Alloc ==
  /\ size = 0
  /\ buffer' = Fresh
  /\ start' = 0 /\ end' = 0 /\ size' = Size
  /\ UNCHANGED <<mutex, locals>>

\* kl_free_ringbuffer.  kl_script_destroy calls it after the script thread has
\* been joined, when no call is running.
Free ==
  /\ size # 0
  /\ \A t \in Thread : pc[t] = "idle"
  /\ buffer' = Fresh
  /\ start' = 0 /\ end' = 0 /\ size' = 0
  /\ UNCHANGED <<mutex, locals>>

-----------------------------------------------------------------------------
(* kl_reserve_ringbuffer(ringbuffer, item) *)

CallReserve(t, x) ==
  /\ size # 0
  /\ pc[t] = "idle"
  /\ pc' = [pc EXCEPT ![t] = "reserve_lock"]
  /\ item' = [item EXCEPT ![t] = x]
  /\ ret' = [ret EXCEPT ![t] = "error"]
  /\ UNCHANGED <<buffer, start, end, size, mutex, nend>>

\* Mutant: the mutex is taken whoever holds it.
LockAnyway(t) ==
  /\ mutex' = t
  /\ \/ pc[t] = "reserve_lock" /\ pc' = [pc EXCEPT ![t] = "test_full"]
     \/ pc[t] = "retrieve_lock" /\ pc' = [pc EXCEPT ![t] = "test_empty"]
  /\ UNCHANGED <<buffer, start, end, size, item, nend, ret>>

Lock(t) ==
  /\ mutex = NoThread
  /\ mutex' = t
  /\ \/ pc[t] = "reserve_lock" /\ pc' = [pc EXCEPT ![t] = "test_full"]
     \/ pc[t] = "retrieve_lock" /\ pc' = [pc EXCEPT ![t] = "test_empty"]
  /\ UNCHANGED <<buffer, start, end, size, item, nend, ret>>

\* Mutant: the last free slot is given away, so that full looks empty.
TestFullUsingAllSlots(t) ==
  /\ pc[t] = "test_full"
  /\ nend' = [nend EXCEPT ![t] = (end + 1) % size]
  /\ pc' = [pc EXCEPT ![t] = "store"]
  /\ UNCHANGED <<buffer, start, end, size, mutex, item, ret>>

TestFull(t) ==
  /\ pc[t] = "test_full"
  /\ nend' = [nend EXCEPT ![t] = (end + 1) % size]
  /\ pc' = [pc EXCEPT ![t] = IF nend'[t] # start THEN "store" ELSE "reserve_unlock"]
  /\ UNCHANGED <<buffer, start, end, size, mutex, item, ret>>

Store(t) ==
  /\ pc[t] = "store"
  /\ buffer' = [buffer EXCEPT ![end] = item[t]]
  /\ pc' = [pc EXCEPT ![t] = "publish"]
  /\ UNCHANGED <<start, end, size, mutex, item, nend, ret>>

Publish(t) ==
  /\ pc[t] = "publish"
  /\ end' = nend[t]
  /\ ret' = [ret EXCEPT ![t] = "success"]
  /\ pc' = [pc EXCEPT ![t] = "reserve_unlock"]
  /\ UNCHANGED <<buffer, start, size, mutex, item, nend>>

-----------------------------------------------------------------------------
(* kl_retrieve_ringbuffer(ringbuffer, item) *)

CallRetrieve(t) ==
  /\ size # 0
  /\ pc[t] = "idle"
  /\ pc' = [pc EXCEPT ![t] = "retrieve_lock"]
  /\ item' = [item EXCEPT ![t] = NoItem]
  /\ ret' = [ret EXCEPT ![t] = "error"]
  /\ UNCHANGED <<buffer, start, end, size, mutex, nend>>

\* Mutant: an empty buffer returns without unlocking.
TestEmptyEarlyReturn(t) ==
  /\ pc[t] = "test_empty"
  /\ pc' = [pc EXCEPT ![t] = IF start # end THEN "load" ELSE "idle"]
  /\ UNCHANGED <<buffer, start, end, size, mutex, item, nend, ret>>

TestEmpty(t) ==
  /\ pc[t] = "test_empty"
  /\ pc' = [pc EXCEPT ![t] = IF start # end THEN "load" ELSE "retrieve_unlock"]
  /\ UNCHANGED <<buffer, start, end, size, mutex, item, nend, ret>>

Load(t) ==
  /\ pc[t] = "load"
  /\ item' = [item EXCEPT ![t] = buffer[start]]
  /\ pc' = [pc EXCEPT ![t] = "consume"]
  /\ UNCHANGED <<buffer, start, end, size, mutex, nend, ret>>

Consume(t) ==
  /\ pc[t] = "consume"
  /\ start' = (start + 1) % size
  /\ ret' = [ret EXCEPT ![t] = "success"]
  /\ pc' = [pc EXCEPT ![t] = "retrieve_unlock"]
  /\ UNCHANGED <<buffer, end, size, mutex, item, nend>>

-----------------------------------------------------------------------------
\* Both calls release the mutex and return ret; their locals go out of scope.
Unlock(t) ==
  /\ pc[t] \in {"reserve_unlock", "retrieve_unlock"}
  /\ mutex' = NoThread
  /\ pc' = [pc EXCEPT ![t] = "idle"]
  /\ item' = [item EXCEPT ![t] = NoItem]
  /\ nend' = [nend EXCEPT ![t] = 0]
  /\ ret' = [ret EXCEPT ![t] = "error"]
  /\ UNCHANGED <<buffer, start, end, size>>

\* The steps of a call once it is made.
Proceed(t) ==
  \/ Lock(t) \/ Unlock(t)
  \/ TestFull(t) \/ Store(t) \/ Publish(t)
  \/ TestEmpty(t) \/ Load(t) \/ Consume(t)

Step(t) ==
  \/ \E x \in Item : CallReserve(t, x)
  \/ CallRetrieve(t)
  \/ Proceed(t)

Next == Alloc \/ Free \/ \E t \in Thread : Step(t)

Spec == Init /\ [][Next]_vars

\* A thread inside a call keeps running.  Lock is weakly fair: the mutex of the
\* platform promises no thread its turn.
FairSpec == Spec /\ \A t \in Thread : WF_vars(Proceed(t))

-----------------------------------------------------------------------------
(* What the buffer holds, and the promise it keeps. *)

\* How many slots there are from s up to, and without, e.
Span(s, e) == IF s <= e THEN e - s ELSE e + Size - s

\* The i-th slot from s on.
Nth(s, i) == IF s + i - 1 < Size THEN s + i - 1 ELSE s + i - 1 - Size

\* How many items are queued, and the slot of the i-th oldest.
Used == Span(start, end)
SlotOf(i) == Nth(start, i)

Contents == [i \in 1 .. Used |-> buffer[SlotOf(i)]]

InReserve == {"reserve_lock", "test_full", "store", "publish", "reserve_unlock"}
InRetrieve == {"retrieve_lock", "test_empty", "load", "consume", "retrieve_unlock"}
Returning == {"reserve_unlock", "retrieve_unlock"}
Critical == (InReserve \cup InRetrieve) \ {"reserve_lock", "retrieve_lock"}

\* A thread's call as its caller sees it: the item of a retrieve is the
\* caller's only once the index has moved past it.
CallOf(t) ==
  [op |-> IF pc[t] \in InReserve THEN "reserve"
          ELSE IF pc[t] \in InRetrieve THEN "retrieve" ELSE "idle",
   item |-> IF pc[t] \in InReserve \cup Returning THEN item[t] ELSE NoItem,
   effect |-> IF pc[t] \in Returning THEN ret[t] ELSE "none"]

Calls == [t \in Thread |-> CallOf(t)]

TypeOK ==
  /\ buffer \in [Slot -> Item \cup {NoItem}]
  /\ start \in Slot /\ end \in Slot
  /\ size \in {0, Size}
  /\ mutex \in Thread \cup {NoThread}
  /\ pc \in [Thread -> {"idle"} \cup InReserve \cup InRetrieve]
  /\ item \in [Thread -> Item \cup {NoItem}]
  /\ nend \in [Thread -> Slot]
  /\ ret \in [Thread -> {"success", "error"}]

\* The mutex is held by the one thread between its lock and its unlock.
MutexInv == \A t \in Thread : pc[t] \in Critical <=> mutex = t

\* A freed buffer has no call in it and its indices are reset.
LifetimeInv ==
  size = 0 => /\ start = 0 /\ end = 0
              /\ \A t \in Thread : pc[t] = "idle"

\* What a thread has learnt under the mutex is still so.
LocalsInv ==
  \A t \in Thread :
    /\ pc[t] \in InReserve => item[t] \in Item
    /\ pc[t] \in {"retrieve_lock", "test_empty", "load"} => item[t] = NoItem
    /\ pc[t] \in {"store", "publish"} => nend[t] = (end + 1) % Size /\ nend[t] # start
    /\ pc[t] = "publish" => buffer[end] = item[t]
    /\ pc[t] \in {"load", "consume"} => start # end
    /\ pc[t] = "consume" => item[t] = buffer[start]
    /\ pc[t] = "idle" => item[t] = NoItem
    /\ pc[t] \notin Returning => ret[t] = "error"

\* Every slot between start and end holds an item.
ContentsInv == \A i \in 1 .. Used : buffer[SlotOf(i)] \in Item

\* The inductive invariant: with the types, the mutex protects the indices,
\* so that the slots between start and end hold exactly the queued items
\* (reserve writes only outside them, ringbuffer.c:65-71).
IInv ==
  /\ TypeOK
  /\ MutexInv
  /\ LifetimeInv
  /\ LocalsInv
  /\ ContentsInv

\* Some thread in a call returns: no path of reserve or retrieve keeps the
\* mutex, so the other threads are never shut out for good.
SomeCallReturns ==
  (\E t \in Thread : pc[t] # "idle") ~> (\E t \in Thread : pc[t] \in Returning)

BQ == INSTANCE BoundedQueue WITH
        Capacity <- Size - 1,
        open <- size # 0,
        queue <- Contents,
        call <- Calls

\* The ring buffer implements the bounded queue: every call takes effect at one
\* store to end or start, or at the test that refuses it, whatever the other
\* threads do; the events come out in the order in which they went in.
Implements == BQ!Spec
=============================================================================
