-------------------------- MODULE RingBufferProofs --------------------------
(* Proofs about the ring buffer, for every set of threads and items and     *)
(* every size.                                                              *)
EXTENDS RingBuffer, SequenceTheorems, TLAPS

-----------------------------------------------------------------------------
(* Arithmetic of the indices *)

\* The slot after e.
Succ(e) == IF e + 1 = Size THEN 0 ELSE e + 1

\* The remainder by size only ever takes an index past the last slot to 0.
LEMMA Remainder ==
  ASSUME NEW e \in Slot
  PROVE  /\ (e + 1) % Size = Succ(e)
         /\ Succ(e) \in Slot
<1>1. CASE e + 1 = Size
  BY <1>1, SizeAssumption DEF Slot, Succ
<1>2. CASE e + 1 # Size
  BY <1>2, SizeAssumption DEF Slot, Succ
<1>. QED  BY <1>1, <1>2

\* The occupied slots are slots, the free slot e is not one of them, and no
\* slot is occupied twice.
LEMMA Occupied ==
  ASSUME NEW s \in Slot, NEW e \in Slot
  PROVE  /\ Span(s, e) \in 0 .. Size - 1
         /\ Span(s, e) = 0 <=> s = e
         /\ \A i \in 1 .. Span(s, e) : Nth(s, i) \in Slot /\ Nth(s, i) # e
         /\ \A i, j \in 1 .. Span(s, e) : Nth(s, i) = Nth(s, j) => i = j
BY SizeAssumption DEF Slot, Span, Nth

\* Moving end on by one occupies the old end as the newest slot, unless that
\* makes the buffer look empty; it stays put exactly when all others are full.
LEMMA Grow ==
  ASSUME NEW s \in Slot, NEW e \in Slot
  PROVE  /\ Succ(e) = s <=> Span(s, e) = Size - 1
         /\ Succ(e) # s => /\ Span(s, Succ(e)) = Span(s, e) + 1
                           /\ Nth(s, Span(s, e) + 1) = e
BY SizeAssumption DEF Slot, Span, Nth, Succ

\* Moving start on by one gives up the oldest slot and keeps the others.
LEMMA Shrink ==
  ASSUME NEW s \in Slot, NEW e \in Slot, s # e
  PROVE  /\ Span(Succ(s), e) = Span(s, e) - 1
         /\ Nth(s, 1) = s
         /\ \A i \in 1 .. Span(s, e) - 1 : Nth(Succ(s), i) = Nth(s, i + 1)
BY SizeAssumption DEF Slot, Span, Nth, Succ

-----------------------------------------------------------------------------
(* The inductive invariant *)

\* A buffer just allocated has no thread inside a call and no slot occupied.
LEMMA InitInv == Init => IInv
<1>. SUFFICES ASSUME Init PROVE IInv
  OBVIOUS
<1>. USE DEF Init, InReserve, InRetrieve, Returning, Critical
<1>1. TypeOK
  BY SizeAssumption DEF TypeOK, Slot, Fresh
<1>2. MutexInv
  BY NoThreadAssumption DEF MutexInv
<1>3. LifetimeInv
  BY DEF LifetimeInv
<1>4. LocalsInv
  BY DEF LocalsInv
<1>5. ContentsInv
  BY SizeAssumption DEF ContentsInv, Used, Span
<1>. QED  BY <1>1, <1>2, <1>3, <1>4, <1>5 DEF IInv

\* Every access of a thread keeps the mutex exclusive, the indices in range and
\* what a thread remembers of them current until it lets the mutex go.
LEMMA NextInv == IInv /\ [Next]_vars => IInv'
<1>. SUFFICES ASSUME IInv, [Next]_vars PROVE IInv'
  OBVIOUS
<1>. USE DEF IInv, InReserve, InRetrieve, Returning, Critical
<1>1. CASE Alloc
  BY <1>1, SizeAssumption DEF Alloc, locals, TypeOK, MutexInv, LifetimeInv,
     LocalsInv, ContentsInv, Slot, Fresh, Used, Span
<1>2. CASE Free
  BY <1>2, SizeAssumption DEF Free, locals, TypeOK, MutexInv, LifetimeInv,
     LocalsInv, ContentsInv, Slot, Fresh, Used, Span
<1>3. ASSUME NEW t \in Thread, NEW x \in Item, CallReserve(t, x) PROVE IInv'
  <2>1. TypeOK'
    BY <1>3, NoThreadAssumption DEF CallReserve, TypeOK, Slot
  <2>2. MutexInv'
    BY <1>3, NoThreadAssumption DEF CallReserve, TypeOK, MutexInv
  <2>3. LifetimeInv'
    BY <1>3 DEF CallReserve, TypeOK, MutexInv, LifetimeInv
  <2>4. LocalsInv'
    BY <1>3, NoThreadAssumption DEF CallReserve, TypeOK, MutexInv, LocalsInv
  <2>5. ContentsInv'
    BY <1>3 DEF CallReserve, ContentsInv, Used, SlotOf
  <2>. QED  BY <2>1, <2>2, <2>3, <2>4, <2>5
<1>4. ASSUME NEW t \in Thread, CallRetrieve(t) PROVE IInv'
  <2>1. TypeOK'
    BY <1>4, NoThreadAssumption DEF CallRetrieve, TypeOK, Slot
  <2>2. MutexInv'
    BY <1>4, NoThreadAssumption DEF CallRetrieve, TypeOK, MutexInv
  <2>3. LifetimeInv'
    BY <1>4 DEF CallRetrieve, TypeOK, MutexInv, LifetimeInv
  <2>4. LocalsInv'
    BY <1>4, NoThreadAssumption DEF CallRetrieve, TypeOK, MutexInv, LocalsInv
  <2>5. ContentsInv'
    BY <1>4 DEF CallRetrieve, ContentsInv, Used, SlotOf
  <2>. QED  BY <2>1, <2>2, <2>3, <2>4, <2>5
<1>5. ASSUME NEW t \in Thread, Lock(t) PROVE IInv'
  <2>1. TypeOK'
    BY <1>5, NoThreadAssumption DEF Lock, TypeOK, Slot
  <2>2. MutexInv'
    BY <1>5, NoThreadAssumption DEF Lock, TypeOK, MutexInv
  <2>3. LifetimeInv'
    BY <1>5 DEF Lock, TypeOK, MutexInv, LifetimeInv
  <2>4. LocalsInv'
    BY <1>5, NoThreadAssumption DEF Lock, TypeOK, MutexInv, LocalsInv
  <2>5. ContentsInv'
    BY <1>5 DEF Lock, ContentsInv, Used, SlotOf
  <2>. QED  BY <2>1, <2>2, <2>3, <2>4, <2>5
<1>6. ASSUME NEW t \in Thread, Unlock(t) PROVE IInv'
  <2>1. TypeOK'
    BY <1>6, NoThreadAssumption, SizeAssumption DEF Unlock, TypeOK, Slot
  <2>2. MutexInv'
    BY <1>6, NoThreadAssumption DEF Unlock, TypeOK, MutexInv
  <2>3. LifetimeInv'
    BY <1>6 DEF Unlock, TypeOK, MutexInv, LifetimeInv
  <2>4. LocalsInv'
    BY <1>6, NoThreadAssumption DEF Unlock, TypeOK, MutexInv, LocalsInv
  <2>5. ContentsInv'
    BY <1>6 DEF Unlock, ContentsInv, Used, SlotOf
  <2>. QED  BY <2>1, <2>2, <2>3, <2>4, <2>5
<1>7. ASSUME NEW t \in Thread, TestFull(t) PROVE IInv'
  <2>1. size = Size /\ nend'[t] = (end + 1) % Size /\ nend'[t] \in Slot
    BY <1>7, Remainder DEF TestFull, TypeOK, LifetimeInv
  <2>. QED
    BY <2>1, <1>7 DEF TestFull, TypeOK, MutexInv, LifetimeInv,
       LocalsInv, ContentsInv, Used, SlotOf
<1>8. ASSUME NEW t \in Thread, Store(t) PROVE IInv'
  <2>1. mutex = t /\ item[t] \in Item
    BY <1>8 DEF Store, MutexInv, LocalsInv
  <2>2. ContentsInv'
    BY <1>8, <2>1, Occupied DEF Store, TypeOK, ContentsInv, Used, SlotOf
  <2>. QED
    BY <2>1, <2>2, <1>8, NoThreadAssumption DEF Store, TypeOK, MutexInv, LifetimeInv, LocalsInv
<1>9. ASSUME NEW t \in Thread, Publish(t) PROVE IInv'
  <2>1. /\ mutex = t /\ item[t] \in Item /\ buffer[end] = item[t]
        /\ nend[t] = Succ(end) /\ Succ(end) # start /\ end' = Succ(end)
    BY <1>9, Remainder DEF Publish, MutexInv, LocalsInv, TypeOK
  <2>2. ContentsInv'
    <3>1. /\ Used \in Nat /\ Used' = Used + 1
          /\ Nth(start, Used + 1) = end
      BY <2>1, <1>9, Grow, Occupied DEF Publish, TypeOK, Used
    <3>2. ASSUME NEW i \in 1 .. Used + 1 PROVE buffer[Nth(start, i)] \in Item
      <4>1. CASE i = Used + 1
        BY <4>1, <3>1, <2>1
      <4>2. CASE i # Used + 1
        BY <4>2, <3>1 DEF ContentsInv, SlotOf
      <4>. QED  BY <4>1, <4>2
    <3>. QED
      BY <3>1, <3>2, <1>9 DEF Publish, ContentsInv, SlotOf
  <2>. QED
    BY <2>1, <2>2, <1>9, NoThreadAssumption DEF Publish, TypeOK, MutexInv, LifetimeInv, LocalsInv
<1>10. ASSUME NEW t \in Thread, TestEmpty(t) PROVE IInv'
  <2>1. TypeOK'
    BY <1>10, NoThreadAssumption DEF TestEmpty, TypeOK, Slot
  <2>2. MutexInv'
    BY <1>10, NoThreadAssumption DEF TestEmpty, TypeOK, MutexInv
  <2>3. LifetimeInv'
    BY <1>10 DEF TestEmpty, TypeOK, MutexInv, LifetimeInv
  <2>4. LocalsInv'
    BY <1>10, NoThreadAssumption DEF TestEmpty, TypeOK, MutexInv, LocalsInv
  <2>5. ContentsInv'
    BY <1>10 DEF TestEmpty, ContentsInv, Used, SlotOf
  <2>. QED  BY <2>1, <2>2, <2>3, <2>4, <2>5
<1>11. ASSUME NEW t \in Thread, Load(t) PROVE IInv'
  <2>1. TypeOK'
    BY <1>11, NoThreadAssumption DEF Load, TypeOK, Slot
  <2>2. MutexInv'
    BY <1>11, NoThreadAssumption DEF Load, TypeOK, MutexInv
  <2>3. LifetimeInv'
    BY <1>11 DEF Load, TypeOK, MutexInv, LifetimeInv
  <2>4. LocalsInv'
    BY <1>11, NoThreadAssumption DEF Load, TypeOK, MutexInv, LocalsInv
  <2>5. ContentsInv'
    BY <1>11 DEF Load, ContentsInv, Used, SlotOf
  <2>. QED  BY <2>1, <2>2, <2>3, <2>4, <2>5
<1>12. ASSUME NEW t \in Thread, Consume(t) PROVE IInv'
  <2>1. /\ mutex = t /\ start # end /\ size = Size
        /\ start' = Succ(start) /\ Succ(start) \in Slot
    BY <1>12, Remainder DEF Consume, MutexInv, LocalsInv, LifetimeInv, TypeOK
  <2>2. ContentsInv'
    BY <1>12, <2>1, Shrink, Occupied DEF Consume, TypeOK, ContentsInv, Used, SlotOf
  <2>. QED
    BY <2>1, <2>2, <1>12, NoThreadAssumption DEF Consume, TypeOK, MutexInv, LifetimeInv, LocalsInv
<1>13. CASE UNCHANGED vars
  BY <1>13 DEF vars, TypeOK, MutexInv, LifetimeInv, LocalsInv, ContentsInv, Used, SlotOf
<1>. QED
  BY <1>1, <1>2, <1>3, <1>4, <1>5, <1>6, <1>7, <1>8, <1>9, <1>10, <1>11, <1>12, <1>13
  DEF Next, Step, Proceed

\* Whatever the threads do, the variables keep their types, the mutex has one
\* holder, and the slots between start and end hold the queued items.
THEOREM Invariance == Spec => []IInv
BY InitInv, NextInv, PTL DEF Spec

\* Type correctness of the ring buffer.
THEOREM TypeCorrectness == Spec => []TypeOK
<1>1. IInv => TypeOK
  BY DEF IInv
<1>. QED  BY <1>1, Invariance, PTL

-----------------------------------------------------------------------------
(* The ring buffer implements the bounded queue *)

\* What the occupied slots hold is a sequence of items.
LEMMA ContentsType ==
  ASSUME IInv
  PROVE  /\ Contents \in Seq(Item)
         /\ Len(Contents) = Used
         /\ Used \in 0 .. Size - 1
         /\ Used = 0 <=> start = end
<1>1. Used \in 0 .. Size - 1 /\ (Used = 0 <=> start = end)
  BY Occupied DEF IInv, TypeOK, Used
<1>. QED
  BY <1>1, SizeAssumption DEF Contents, IInv, ContentsInv

\* Tail on sequences, by position.
LEMMA TailFunction ==
  ASSUME NEW S, NEW s \in Seq(S), s # <<>>
  PROVE  Tail(s) = [i \in 1 .. Len(s) - 1 |-> s[i + 1]]
<1>. DEFINE u == [i \in 1 .. Len(s) - 1 |-> s[i + 1]]
<1>1. Len(s) \in Nat /\ Len(s) > 0 /\ \A i \in 1 .. Len(s) : s[i] \in S
  BY LenProperties, EmptySeq
<1>2. u \in Seq(S) /\ Len(u) = Len(s) - 1
  BY <1>1
<1>. QED  BY <1>2, HeadTailProperties, SeqEqual

\* A step of t that leaves the locals of the others alone changes at most the
\* call of t.
LEMMA CallFrame ==
  ASSUME NEW t \in Thread, NEW c,
         \A u \in Thread \ {t} : pc'[u] = pc[u] /\ item'[u] = item[u] /\ ret'[u] = ret[u],
         CallOf(t)' = c
  PROVE  Calls' = [Calls EXCEPT ![t] = c]
BY DEF Calls, CallOf

\* A step of t that changes neither t's call nor the queue is a stutter.
LEMMA InnerStep ==
  ASSUME NEW t \in Thread,
         \A u \in Thread \ {t} : pc'[u] = pc[u] /\ item'[u] = item[u] /\ ret'[u] = ret[u],
         CallOf(t)' = CallOf(t), size' = size, Contents' = Contents
  PROVE  UNCHANGED BQ!vars
BY DEF Calls, CallOf, BQ!vars

\* A buffer just allocated is an empty queue.
LEMMA InitRefines == Init => BQ!Init
<1>. SUFFICES ASSUME Init PROVE BQ!Init
  OBVIOUS
<1>1. Contents = <<>>
  BY SizeAssumption DEF Init, Contents, Used, Span
<1>2. Calls = [t \in Thread |-> BQ!Idle]
  BY DEF Init, Calls, CallOf, BQ!Idle, BQ!Effect, InReserve, InRetrieve, Returning
<1>. QED  BY <1>1, <1>2 DEF BQ!Init, Init

\* Every access maps to one call, effect or return of the queue, or to a stutter:
\* only Publish, Consume and the refusing tests take effect.
LEMMA NextRefines == IInv /\ IInv' /\ [Next]_vars => [BQ!Next]_BQ!vars
<1>. SUFFICES ASSUME IInv, IInv', [Next]_vars PROVE [BQ!Next]_BQ!vars
  OBVIOUS
<1>. USE DEF InReserve, InRetrieve, Returning
<1>0. TypeOK /\ TypeOK' /\ LocalsInv /\ LifetimeInv
  BY DEF IInv
<1>1. CASE Alloc
  <2>1. Contents' = Contents /\ Calls' = Calls
    BY <1>0, <1>1, SizeAssumption DEF Alloc, locals, Contents, Calls, CallOf,
       Used, Span, LifetimeInv
  <2>. QED
    BY <1>0, <1>1, <2>1, SizeAssumption DEF Alloc, BQ!Next, BQ!Open
<1>2. CASE Free
  <2>1. Contents' = <<>> /\ Calls' = Calls
    BY <1>2, SizeAssumption DEF Free, locals, Contents, Calls, CallOf, Used, Span
  <2>2. \A t \in Thread : Calls[t] = BQ!Idle
    BY <1>0, <1>2 DEF Free, Calls, CallOf, BQ!Idle, BQ!Effect, LocalsInv
  <2>. QED
    BY <1>2, <2>1, <2>2 DEF Free, BQ!Next, BQ!Close
<1>3. ASSUME NEW t \in Thread, NEW x \in Item, CallReserve(t, x) PROVE BQ!Next
  <2>1. Contents' = Contents
    BY <1>3 DEF CallReserve, Contents, Used, SlotOf
  <2>2. CallOf(t) = BQ!Idle
    BY <1>0, <1>3 DEF CallReserve, CallOf, BQ!Idle, BQ!Effect, LocalsInv
  <2>3. CallOf(t)' = [op |-> "reserve", item |-> x, effect |-> "none"]
    BY <1>0, <1>3 DEF CallReserve, CallOf, TypeOK
  <2>4. Calls' = [Calls EXCEPT ![t] = [op |-> "reserve", item |-> x, effect |-> "none"]]
    BY <1>0, <1>3, <2>3, CallFrame DEF CallReserve, TypeOK
  <2>5. BQ!InvokeReserve(t, x)
    BY <1>3, <2>1, <2>2, <2>4 DEF CallReserve, BQ!InvokeReserve, BQ!Effect, Calls
  <2>. QED  BY <2>5 DEF BQ!Next, BQ!Step
<1>4. ASSUME NEW t \in Thread, CallRetrieve(t) PROVE BQ!Next
  <2>1. Contents' = Contents
    BY <1>4 DEF CallRetrieve, Contents, Used, SlotOf
  <2>2. CallOf(t) = BQ!Idle
    BY <1>0, <1>4 DEF CallRetrieve, CallOf, BQ!Idle, BQ!Effect, LocalsInv
  <2>3. CallOf(t)' = [op |-> "retrieve", item |-> NoItem, effect |-> "none"]
    BY <1>0, <1>4 DEF CallRetrieve, CallOf, TypeOK
  <2>4. Calls' = [Calls EXCEPT ![t] = [op |-> "retrieve", item |-> NoItem, effect |-> "none"]]
    BY <1>0, <1>4, <2>3, CallFrame DEF CallRetrieve, TypeOK
  <2>5. BQ!InvokeRetrieve(t)
    BY <1>4, <2>1, <2>2, <2>4 DEF CallRetrieve, BQ!InvokeRetrieve, BQ!Effect, Calls
  <2>. QED  BY <2>5 DEF BQ!Next, BQ!Step
<1>5. ASSUME NEW t \in Thread, Lock(t) PROVE UNCHANGED BQ!vars
  <2>1. Contents' = Contents
    BY <1>5 DEF Lock, Contents, Used, SlotOf
  <2>2. CallOf(t)' = CallOf(t)
    BY <1>0, <1>5 DEF Lock, CallOf, TypeOK
  <2>. QED  BY <1>0, <1>5, <2>1, <2>2, InnerStep DEF Lock, TypeOK
<1>6. ASSUME NEW t \in Thread, Unlock(t) PROVE BQ!Next
  <2>1. Contents' = Contents
    BY <1>6 DEF Unlock, Contents, Used, SlotOf
  <2>2. CallOf(t)' = BQ!Idle
    BY <1>0, <1>6 DEF Unlock, CallOf, TypeOK, BQ!Idle, BQ!Effect
  <2>3. Calls' = [Calls EXCEPT ![t] = BQ!Idle]
    BY <1>0, <1>6, <2>2, CallFrame DEF Unlock, TypeOK
  <2>4. Calls[t].effect \in {"success", "error"}
    BY <1>0, <1>6 DEF Unlock, Calls, CallOf, TypeOK
  <2>5. BQ!Respond(t)
    BY <1>6, <2>1, <2>3, <2>4 DEF Unlock, BQ!Respond
  <2>. QED  BY <2>5 DEF BQ!Next, BQ!Step
<1>7. ASSUME NEW t \in Thread, TestFull(t) PROVE [BQ!Next]_BQ!vars
  <2>1. Contents' = Contents
    BY <1>7 DEF TestFull, Contents, Used, SlotOf
  <2>2. size = Size /\ nend'[t] = Succ(end)
    BY <1>0, <1>7, Remainder DEF TestFull, TypeOK, LifetimeInv
  <2>3. CASE Succ(end) # start
    <3>1. CallOf(t)' = CallOf(t)
      BY <1>0, <1>7, <2>2, <2>3 DEF TestFull, CallOf, TypeOK
    <3>. QED  BY <1>0, <1>7, <2>1, <3>1, InnerStep DEF TestFull, TypeOK
  <2>4. CASE Succ(end) = start
    <3>1. CallOf(t) = [op |-> "reserve", item |-> item[t], effect |-> "none"]
      BY <1>7 DEF TestFull, CallOf
    <3>2. CallOf(t)' = [op |-> "reserve", item |-> item[t], effect |-> "error"]
      BY <1>0, <1>7, <2>2, <2>4 DEF TestFull, CallOf, TypeOK, LocalsInv
    <3>3. Calls' = [Calls EXCEPT ![t] = [op |-> "reserve", item |-> item[t], effect |-> "error"]]
      BY <1>0, <1>7, <3>2, CallFrame DEF TestFull, TypeOK
    <3>4. Len(Contents) = Size - 1
      BY <1>0, <2>4, ContentsType, Grow DEF TypeOK, Used
    <3>5. Calls[t] = [op |-> "reserve", item |-> item[t], effect |-> "none"]
      BY <3>1 DEF Calls
    <3>7. BQ!RefuseFull(t)
      BY <1>7, <2>1, <3>4, <3>3, <3>5 DEF TestFull, BQ!RefuseFull, BQ!Effect
    <3>. QED  BY <3>7 DEF BQ!Next, BQ!Step
  <2>. QED  BY <2>3, <2>4
<1>8. ASSUME NEW t \in Thread, Store(t) PROVE UNCHANGED BQ!vars
  <2>1. Contents' = Contents
    BY <1>0, <1>8, Occupied DEF Store, TypeOK, Contents, Used, SlotOf
  <2>2. CallOf(t)' = CallOf(t)
    BY <1>0, <1>8 DEF Store, CallOf, TypeOK
  <2>. QED  BY <1>0, <1>8, <2>1, <2>2, InnerStep DEF Store, TypeOK
<1>9. ASSUME NEW t \in Thread, Publish(t) PROVE BQ!Next
  <2>1. /\ nend[t] = Succ(end) /\ Succ(end) # start /\ end' = Succ(end)
        /\ buffer[end] = item[t]
    BY <1>0, <1>9, Remainder DEF Publish, LocalsInv, TypeOK
  <2>2. /\ Used' = Used + 1 /\ Nth(start, Used + 1) = end
        /\ Used \in Nat /\ Used < Size - 1 /\ Len(Contents) = Used
    BY <1>0, <1>9, <2>1, Grow, ContentsType, SizeAssumption DEF Publish, TypeOK, Used
  <2>3. Contents' = Append(Contents, item[t])
    <3>1. Contents' = [i \in 1 .. Used + 1 |-> buffer[Nth(start, i)]]
      BY <1>9, <2>2 DEF Publish, Contents, SlotOf
    <3>2. Contents \in Seq(Item)
      BY ContentsType
    <3>. QED
      BY <2>1, <2>2, <3>1, <3>2 DEF Contents, SlotOf
  <2>4. CallOf(t) = [op |-> "reserve", item |-> item[t], effect |-> "none"]
    BY <1>9 DEF Publish, CallOf
  <2>5. CallOf(t)' = [op |-> "reserve", item |-> item[t], effect |-> "success"]
    BY <1>0, <1>9 DEF Publish, CallOf, TypeOK
  <2>6. Calls' = [Calls EXCEPT ![t] = [op |-> "reserve", item |-> item[t], effect |-> "success"]]
    BY <1>0, <1>9, <2>5, CallFrame DEF Publish, TypeOK
  <2>7. Calls[t] = [op |-> "reserve", item |-> item[t], effect |-> "none"]
    BY <2>4 DEF Calls
  <2>9. BQ!Enqueue(t)
    BY <1>9, <2>2, <2>3, <2>6, <2>7 DEF Publish, BQ!Enqueue, BQ!Effect
  <2>. QED  BY <2>9 DEF BQ!Next, BQ!Step
<1>10. ASSUME NEW t \in Thread, TestEmpty(t) PROVE [BQ!Next]_BQ!vars
  <2>1. Contents' = Contents
    BY <1>10 DEF TestEmpty, Contents, Used, SlotOf
  <2>2. CASE start # end
    <3>1. CallOf(t)' = CallOf(t)
      BY <1>0, <1>10, <2>2 DEF TestEmpty, CallOf, TypeOK
    <3>. QED  BY <1>0, <1>10, <2>1, <3>1, InnerStep DEF TestEmpty, TypeOK
  <2>3. CASE start = end
    <3>1. CallOf(t) = [op |-> "retrieve", item |-> NoItem, effect |-> "none"]
      BY <1>10 DEF TestEmpty, CallOf
    <3>2. CallOf(t)' = [op |-> "retrieve", item |-> NoItem, effect |-> "error"]
      BY <1>0, <1>10, <2>3 DEF TestEmpty, CallOf, TypeOK, LocalsInv
    <3>3. Calls' = [Calls EXCEPT ![t] = [op |-> "retrieve", item |-> NoItem, effect |-> "error"]]
      BY <1>0, <1>10, <3>2, CallFrame DEF TestEmpty, TypeOK
    <3>4. Contents = <<>>
      BY <2>3, ContentsType
    <3>5. Calls[t] = [op |-> "retrieve", item |-> NoItem, effect |-> "none"]
      BY <3>1 DEF Calls
    <3>7. BQ!RefuseEmpty(t)
      BY <1>10, <2>1, <3>4, <3>3, <3>5 DEF TestEmpty, BQ!RefuseEmpty, BQ!Effect
    <3>. QED  BY <3>7 DEF BQ!Next, BQ!Step
  <2>. QED  BY <2>2, <2>3
<1>11. ASSUME NEW t \in Thread, Load(t) PROVE UNCHANGED BQ!vars
  <2>1. Contents' = Contents
    BY <1>11 DEF Load, Contents, Used, SlotOf
  <2>2. CallOf(t)' = CallOf(t)
    BY <1>0, <1>11 DEF Load, CallOf, TypeOK
  <2>. QED  BY <1>0, <1>11, <2>1, <2>2, InnerStep DEF Load, TypeOK
<1>12. ASSUME NEW t \in Thread, Consume(t) PROVE BQ!Next
  <2>1. /\ start # end /\ size = Size /\ start' = Succ(start)
        /\ item[t] = buffer[start]
    BY <1>0, <1>12, Remainder DEF Consume, LocalsInv, LifetimeInv, TypeOK
  <2>2. /\ Used' = Used - 1 /\ Nth(start, 1) = start
        /\ \A i \in 1 .. Used - 1 : Nth(Succ(start), i) = Nth(start, i + 1)
        /\ Used \in Nat /\ Used > 0 /\ Len(Contents) = Used
    BY <1>0, <1>12, <2>1, Shrink, ContentsType, SizeAssumption DEF Consume, TypeOK, Used
  <2>3. Contents # <<>> /\ Head(Contents) = item[t] /\ Contents' = Tail(Contents)
    <3>1. Contents' = [i \in 1 .. Used - 1 |-> buffer[Nth(start, i + 1)]]
      BY <1>12, <2>1, <2>2 DEF Consume, Contents, SlotOf
    <3>2. Contents \in Seq(Item)
      BY ContentsType
    <3>3. Contents # <<>> /\ Head(Contents) = item[t]
      BY <2>1, <2>2, <3>2 DEF Contents, SlotOf
    <3>4. Tail(Contents) = [i \in 1 .. Used - 1 |-> Contents[i + 1]]
      BY <2>2, <3>2, <3>3, TailFunction
    <3>. QED
      BY <2>2, <3>1, <3>3, <3>4 DEF Contents, SlotOf
  <2>4. CallOf(t) = [op |-> "retrieve", item |-> NoItem, effect |-> "none"]
    BY <1>12 DEF Consume, CallOf
  <2>5. CallOf(t)' = [op |-> "retrieve", item |-> item[t], effect |-> "success"]
    BY <1>0, <1>12 DEF Consume, CallOf, TypeOK
  <2>6. Calls' = [Calls EXCEPT ![t] = [op |-> "retrieve", item |-> item[t], effect |-> "success"]]
    BY <1>0, <1>12, <2>5, CallFrame DEF Consume, TypeOK
  <2>7. Calls[t] = [op |-> "retrieve", item |-> NoItem, effect |-> "none"]
    BY <2>4 DEF Calls
  <2>8. Calls' = [Calls EXCEPT ![t] = BQ!Effect("retrieve", Head(Contents), "success")]
    BY <2>3, <2>6 DEF BQ!Effect
  <2>9. BQ!Dequeue(t)
    BY <1>12, <2>3, <2>7, <2>8 DEF Consume, BQ!Dequeue
  <2>. QED  BY <2>9 DEF BQ!Next, BQ!Step
<1>13. CASE UNCHANGED vars
  BY <1>13 DEF vars, BQ!vars, Contents, Used, SlotOf, Calls, CallOf
<1>. QED
  BY <1>1, <1>2, <1>3, <1>4, <1>5, <1>6, <1>7, <1>8, <1>9, <1>10, <1>11, <1>12, <1>13
  DEF Next, Step, Proceed

\* Every behaviour of the ring buffer is one of a FIFO queue of Size - 1 items
\* on which each call takes effect at one instant.
THEOREM Refinement == Spec => Implements
BY InitRefines, NextRefines, Invariance, PTL DEF Spec, Implements, BQ!Spec
=============================================================================
