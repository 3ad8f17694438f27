------------------------- MODULE ScriptFramesProofs -------------------------
(* Proofs about script frames, in every mode, for every capacity of the      *)
(* queue and any number of iterations, ticks, strings and threads that send  *)
(* console input.                                                            *)
EXTENDS ScriptFrames, SequenceTheorems, FiniteSetTheorems, TLAPS

-----------------------------------------------------------------------------
(* The queue *)

\* An enqueue leaves the events that are queued where they are and puts the new
\* one, if any, behind them.
LEMMA EnqueueFacts ==
  ASSUME queue \in Seq(Events), Len(queue) <= QueueCapacity, NEW e \in Events, Enqueue(e)
  PROVE  /\ queue' \in Seq(Events)
         /\ Len(queue) \in Nat
         /\ Len(queue') \in {Len(queue), Len(queue) + 1}
         /\ Len(queue') <= QueueCapacity
         /\ \A j \in 1 .. Len(queue) : queue'[j] = queue[j]
         /\ Len(queue') = Len(queue) + 1 => queue'[Len(queue) + 1] = e
<1>1. Len(queue) \in Nat
  BY LenProperties
<1>2. CASE Len(queue) < QueueCapacity
  <2>1. queue' = Append(queue, e)
    BY <1>2 DEF Enqueue
  <2>. QED  BY <1>1, <1>2, <2>1, AppendProperties, BoundAssumption
<1>3. CASE ~(Len(queue) < QueueCapacity)
  BY <1>1, <1>3 DEF Enqueue
<1>. QED  BY <1>2, <1>3

\* A dequeue moves every event one place ahead.
LEMMA DequeueFacts ==
  ASSUME queue \in Seq(Events), queue # <<>>, queue' = Tail(queue)
  PROVE  /\ Len(queue) \in Nat \ {0}
         /\ queue' \in Seq(Events)
         /\ Len(queue') = Len(queue) - 1
         /\ \A j \in 1 .. Len(queue') : queue'[j] = queue[j + 1]
         /\ Head(queue) = queue[1] /\ Head(queue) \in Events
<1>1. Len(queue) \in Nat \ {0}
  BY EmptySeq, LenProperties
<1>. QED  BY <1>1, HeadTailProperties

\* The events that the main loop and the console send.
LEMMA EventTypes ==
  ASSUME NEW id \in Ids, NEW f \in 0 .. MaxFrames, NEW s \in 0 .. MaxStrings, NEW b \in BOOLEAN
  PROVE  /\ Event(id, f, s, b) \in Events
         /\ Event(id, f, s, b).id = id /\ Event(id, f, s, b).frame = f
         /\ Event(id, f, s, b).fence = b /\ Event(id, f, s, b).string = s
BY DEF Event, Events

\* An event without a string or a fence.
LEMMA PlainTypes ==
  ASSUME NEW id \in Ids, NEW f \in 0 .. MaxFrames
  PROVE  /\ Event(id, f, 0, FALSE) \in Events
         /\ Event(id, f, 0, FALSE).id = id /\ Event(id, f, 0, FALSE).frame = f
         /\ Event(id, f, 0, FALSE).fence = FALSE
<1>1. 0 \in 0 .. MaxStrings /\ FALSE \in BOOLEAN
  BY BoundAssumption
<1>. QED  BY <1>1 DEF Event, Events

-----------------------------------------------------------------------------
(* The inductive invariant *)

\* The runtime starts with an empty queue and no turn under way.
LEMMA InitInv == Init => IInv
<1>. SUFFICES ASSUME Init PROVE IInv
  OBVIOUS
<1>. USE DEF Init
<1>1. Len(queue) = 0 /\ queue \in Seq(Events)
  OBVIOUS
<1>2. TypeOK
  <2>1. main \in Running \cup {"run"} /\ {processed, keepRunning, initOk, destroySent} \subseteq BOOLEAN
    OBVIOUS
  <2>2. strings \in [1 .. MaxStrings -> {"unused", "live", "freed"}] /\ ui \in [UI -> BOOLEAN]
    OBVIOUS
  <2>3. advanced \in Seq(1 .. MaxFrames)
    OBVIOUS
  <2>. QED  BY <1>1, <2>1, <2>2, <2>3, BoundAssumption DEF TypeOK
<1>3. CountInv /\ ModeInv /\ TurnInv /\ FenceInv
  BY <1>1 DEF CountInv, ModeInv, TurnInv, FenceInv, Queued, Taken, Turn, NoEvent, Event, Running
<1>. QED  BY <1>2, <1>3 DEF IInv

\* An event that is nobody's turn may be queued at any time.
LEMMA EnqueuePlain ==
  ASSUME IInv, NEW e \in Events, Enqueue(e), e.id # "EOF", ~e.fence,
         e.id = "AdvanceTime" => e.frame > 0,
         UNCHANGED <<processed, threaded, initOk, handler, event, frame>>,
         main' = main \/ (main = "send_init" /\ main' \in {"rest", "init_failed"} /\ initOk)
           \/ (main = "tick" /\ main' = "reset"),
         grace' = grace
  PROVE  CountInv' /\ ModeInv' /\ TurnInv' /\ FenceInv'
<1>. USE DEF IInv
<1>1. /\ Len(queue) \in Nat
      /\ Len(queue') \in {Len(queue), Len(queue) + 1}
      /\ \A j \in 1 .. Len(queue) : queue'[j] = queue[j]
      /\ Len(queue') = Len(queue) + 1 => queue'[Len(queue) + 1] = e
  BY EnqueueFacts DEF TypeOK
<1>2. ~Turn(e)
  BY DEF Turn
<1>3. /\ \A j \in 1 .. Len(queue') : Turn(queue'[j]) => j \in 1 .. Len(queue) /\ Turn(queue[j])
      /\ Queued' => Queued
      /\ Taken' = Taken
  BY <1>1, <1>2 DEF Queued, Taken, Turn
<1>4. CountInv'
  <2>1. grace <= frame /\ (main' \in Running \ {"rest"} => frame > 0)
        /\ (event.id = "AdvanceTime" => event.frame > 0)
    BY DEF CountInv, Running
  <2>2. ASSUME NEW j \in 1 .. Len(queue'), queue'[j].id = "AdvanceTime" PROVE queue'[j].frame > 0
    BY <1>1, <2>2 DEF CountInv
  <2>. QED  BY <2>1, <2>2 DEF CountInv
<1>5. ModeInv'
  BY DEF ModeInv
<1>6. TurnInv'
  BY <1>1, <1>3 DEF TurnInv, Abandoned, Turn
<1>7. FenceInv'
  BY <1>1 DEF FenceInv
<1>. QED  BY <1>4, <1>5, <1>6, <1>7

\* A step that leaves the queue, the fence and both program counters alone.
LEMMA Kept ==
  ASSUME IInv,
         UNCHANGED <<queue, processed, threaded, main, initOk, handler, event, frame, grace>>
  PROVE  CountInv' /\ ModeInv' /\ TurnInv' /\ FenceInv'
BY DEF IInv, CountInv, ModeInv, TurnInv, FenceInv, Abandoned, Queued, Taken, Turn

\* A step of the script that neither takes an event nor acknowledges one.
LEMMA HandlerMoves ==
  ASSUME IInv, handler \notin {"idle", "frame_done"},
         handler' \in {"test_running", "dequeue", "exited", "failed"},
         event' \in {event, NoEvent},
         UNCHANGED <<queue, processed, threaded, main, initOk, frame, grace>>
  PROVE  CountInv' /\ ModeInv' /\ TurnInv' /\ FenceInv'
<1>. USE DEF IInv
<1>1. CountInv'
  BY DEF CountInv, NoEvent, Event
<1>2. ModeInv'
  BY DEF ModeInv
<1>3. TurnInv'
  BY DEF TurnInv, Abandoned, Queued, Taken, Turn
<1>4. FenceInv'
  BY DEF FenceInv, NoEvent, Event
<1>. QED  BY <1>1, <1>2, <1>3, <1>4

\* Taking an event from the queue: if it is the turn, no other is queued.
LEMMA DequeueInv == IInv /\ Dequeue => IInv'
<1>. SUFFICES ASSUME IInv, Dequeue PROVE IInv'
  OBVIOUS
<1>. USE DEF IInv
<1>1. /\ Len(queue) \in Nat \ {0}
      /\ queue' \in Seq(Events)
      /\ Len(queue') = Len(queue) - 1
      /\ \A j \in 1 .. Len(queue') : queue'[j] = queue[j + 1]
      /\ event' = queue[1] /\ event' \in Events
  BY DequeueFacts DEF Dequeue, TypeOK
<1>2. /\ handler = "dequeue"
      /\ handler' = IF event'.id = "EOF" THEN "frame_done" ELSE "dispatch"
      /\ UNCHANGED <<processed, keepRunning, threaded, main, runtime, input, ui, advanced, inits, destroys>>
  BY DEF Dequeue
<1>3. TypeOK'
  <2>1. strings' \in [1 .. MaxStrings -> {"unused", "live", "freed"}]
    BY DEF Dequeue, TypeOK
  <2>. QED  BY <1>1, <1>2, <2>1, BoundAssumption DEF TypeOK, runtime
<1>4. CountInv'
  BY <1>1, <1>2 DEF CountInv, runtime
<1>5. ModeInv'
  BY <1>2 DEF ModeInv
<1>6. \A j \in 1 .. Len(queue') : Turn(queue'[j]) => j + 1 \in 1 .. Len(queue) /\ Turn(queue[j + 1])
  BY <1>1 DEF Turn
<1>7. TurnInv'
  <2>1. \A j, k \in 1 .. Len(queue) : Turn(queue[j]) /\ Turn(queue[k]) => j = k
    BY <1>2 DEF TurnInv, Abandoned
  <2>2. \A j, k \in 1 .. Len(queue') : Turn(queue'[j]) /\ Turn(queue'[k]) => j = k
    <3>. SUFFICES ASSUME NEW j \in 1 .. Len(queue'), NEW k \in 1 .. Len(queue'),
                         Turn(queue'[j]), Turn(queue'[k])
                  PROVE  j = k
      BY DEF Turn
    <3>1. j + 1 = k + 1
      BY <1>6, <2>1 DEF Turn
    <3>. QED  BY <3>1
  <2>3. Queued' => Queued
    BY <1>2, <1>6 DEF Queued, Turn
  <2>4. Taken' => Queued
    BY <1>1, <1>2 DEF Queued, Taken, Turn
  <2>5. ~(Queued' /\ Taken')
    <3>. SUFFICES ASSUME NEW j \in 1 .. Len(queue'), Turn(queue'[j]), Turn(queue[1]) PROVE FALSE
      BY <1>1, <1>2 DEF Queued, Taken, Turn
    <3>. QED  BY <1>1, <1>6, <2>1
  <2>. QED  BY <1>2, <2>2, <2>3, <2>4, <2>5 DEF TurnInv, runtime, Turn
<1>8. FenceInv'
  <2>1. \A j \in 1 .. Len(queue') : j + 1 \in 1 .. Len(queue) /\ queue'[j] = queue[j + 1]
    BY <1>1
  <2>2. queue[1].fence => queue[1].id = "EOF" /\ WaitOnFence /\ ~processed
    BY <1>1 DEF FenceInv
  <2>. QED  BY <1>1, <1>2, <2>1, <2>2 DEF FenceInv
<1>. QED  BY <1>3, <1>4, <1>5, <1>7, <1>8

\* Acknowledging an EOF ends the turn, and no other is queued.
LEMMA FrameDoneInv == IInv /\ FrameDone => IInv'
<1>. SUFFICES ASSUME IInv, FrameDone PROVE IInv'
  OBVIOUS
<1>. USE DEF IInv
<1>1. /\ handler = "frame_done" /\ event' = NoEvent
      /\ handler' = AfterFrame /\ processed' = (processed \/ event.fence)
      /\ UNCHANGED <<queue, keepRunning, threaded, main, runtime, console, inits, destroys>>
      /\ advanced' = <<>>
  BY DEF FrameDone
<1>2. handler' \in {"test_running", "succeeded"} /\ (handler' = "succeeded" => ~threaded)
  BY <1>1, ModeAssumption DEF AfterFrame
<1>3. TypeOK'
  <2>1. processed' \in BOOLEAN
    BY <1>1 DEF TypeOK, NoEvent, Event, Events
  <2>2. advanced' \in Seq(1 .. MaxFrames)
    BY <1>1
  <2>. QED  BY <1>1, <1>2, <2>1, <2>2 DEF TypeOK, runtime, console
<1>4. CountInv' /\ ModeInv'
  BY <1>1, <1>2 DEF CountInv, ModeInv, runtime, NoEvent, Event
<1>5. event.fence => Taken
  BY <1>1, ModeAssumption DEF Taken, Turn, FenceInv
<1>6. TurnInv'
  <2>1. ~threaded /\ ~Queued => ~Queued'
    BY <1>1 DEF Queued, Turn
  <2>2. handler' = "succeeded" => ~Queued'
    BY <1>1, <1>2 DEF TurnInv, Abandoned, Taken, Turn, Queued
  <2>. QED  BY <1>1, <1>2, <2>2 DEF TurnInv, Abandoned, Queued, Taken, Turn, runtime
<1>7. FenceInv'
  <2>1. CASE event.fence
    <3>1. ~Queued /\ Taken
      BY <1>1, <1>5, <2>1 DEF TurnInv, Abandoned
    <3>2. \A j \in 1 .. Len(queue) : ~queue[j].fence
      BY <3>1, ModeAssumption DEF Queued, Turn, FenceInv
    <3>. QED  BY <1>1, <1>2, <3>1, <3>2 DEF FenceInv, TurnInv, NoEvent, Event
  <2>2. CASE ~event.fence
    BY <1>1, <1>2, <2>2 DEF FenceInv, TypeOK, NoEvent, Event, Events
  <2>. QED  BY <2>1, <2>2
<1>. QED  BY <1>3, <1>4, <1>6, <1>7

\* A step of the main loop's program counter: the handler is where it was, or
\* leaves the pump, or enters it.
LEMMA ResetFenceInv ==
  ASSUME IInv, NEW at, NEW next, ResetFence(at, next),
         \/ at = "prime_reset" /\ next = "prime_eof"
         \/ at = "reset" /\ next = "eof"
  PROVE  IInv'
<1>. USE DEF IInv
<1>1. /\ main = at /\ main' = next
      /\ processed' = (IF WaitOnFence THEN FALSE ELSE processed)
      /\ UNCHANGED <<queue, keepRunning, threaded, runtime, script, console>>
  BY DEF ResetFence
<1>2. TypeOK'
  BY <1>1 DEF TypeOK, runtime, script, console, Running
<1>3. CountInv' /\ ModeInv'
  BY <1>1 DEF CountInv, ModeInv, Running, runtime, script
<1>4. TurnInv'
  BY <1>1 DEF TurnInv, Abandoned, Queued, Taken, Turn, runtime, script
<1>5. FenceInv'
  BY <1>1 DEF FenceInv, runtime, script
<1>. QED  BY <1>2, <1>3, <1>4, <1>5

\* An EOF is queued when no turn is under way, or it is no turn, or the
\* initialisation has failed and an unthreaded script will never run.
LEMMA SendEOFInv ==
  ASSUME IInv, NEW at, NEW next, NEW f \in 0 .. MaxFrames, NEW fence \in BOOLEAN,
         SendEOF(at, next, f, fence),
         \/ /\ at = "prime_eof" /\ next = IF threaded THEN "prime_null" ELSE "prime_pump"
            /\ fence = WaitOnFence
         \/ at = "eof" /\ next = "rest" /\ fence = WaitOnFence
         \/ at = "prime_null" /\ next = "send_init" /\ ~fence
         \/ at = "stop_eof" /\ next = "join" /\ ~fence
  PROVE  IInv'
<1>. USE DEF IInv
<1>. DEFINE e == Event("EOF", f, 0, fence)
<1>1. e \in Events /\ e.id = "EOF" /\ e.fence = fence
  BY EventTypes, BoundAssumption DEF Ids
<1>2. /\ main = at /\ main' = next /\ Enqueue(e)
      /\ UNCHANGED <<processed, keepRunning, threaded, runtime, script, console>>
  BY DEF SendEOF
<1>. HIDE DEF e
<1>3. /\ queue' \in Seq(Events)
      /\ Len(queue) \in Nat
      /\ Len(queue') \in {Len(queue), Len(queue) + 1}
      /\ Len(queue') <= QueueCapacity
      /\ \A j \in 1 .. Len(queue) : queue'[j] = queue[j]
      /\ Len(queue') = Len(queue) + 1 => queue'[Len(queue) + 1] = e
  BY <1>1, <1>2, EnqueueFacts DEF TypeOK
<1>4. \A j \in 1 .. Len(queue') :
        \/ j \in 1 .. Len(queue) /\ queue'[j] = queue[j]
        \/ j = Len(queue) + 1 /\ queue'[j] = e
  BY <1>3
<1>5. TypeOK'
  BY <1>2, <1>3 DEF TypeOK, runtime, script, console, Running
<1>6. CountInv' /\ ModeInv'
  BY <1>1, <1>2, <1>4 DEF CountInv, ModeInv, Running, runtime, script
<1>7. Taken' = Taken
  BY <1>2 DEF Taken, Turn, script
<1>8. TurnInv'
  <2>1. CASE ~Turn(e)
    <3>1. Queued' => Queued
      BY <1>2, <1>4, <2>1 DEF Queued, Turn
    <3>2. \A j \in 1 .. Len(queue') : Turn(queue'[j]) => j \in 1 .. Len(queue) /\ Turn(queue[j])
      BY <1>4, <2>1
    <3>3. threaded
      BY <1>1, <2>1, ModeAssumption DEF Turn
    <3>. QED  BY <1>2, <1>7, <3>1, <3>2, <3>3 DEF TurnInv, Abandoned, runtime, script, Turn
  <2>2. CASE ~Queued /\ ~Taken
    <3>1. \A j \in 1 .. Len(queue') : Turn(queue'[j]) => j = Len(queue) + 1
      BY <1>4, <2>2 DEF Queued
    <3>2. main' \notin {"run", "prime_reset", "prime_eof", "tick", "reset", "eof"}
          /\ (main' = "prime_null" => threaded)
      BY <1>2
    <3>3. handler' # "succeeded"
      BY <1>2, ModeAssumption DEF ModeInv, script
    <3>. QED  BY <1>2, <1>7, <2>2, <3>1, <3>2, <3>3 DEF TurnInv, runtime, script, Turn
  <2>3. CASE at = "prime_null" /\ ~threaded /\ ~initOk
    BY <1>2, <2>3 DEF TurnInv, Abandoned, ModeInv, runtime, script
  <2>4. ~Turn(e) \/ (~Queued /\ ~Taken) \/ (at = "prime_null" /\ ~threaded /\ ~initOk)
    BY <1>1, <1>2, ModeAssumption DEF Turn, TurnInv, ModeInv
  <2>. QED  BY <2>1, <2>2, <2>3, <2>4
<1>9. FenceInv'
  <2>1. fence => WaitOnFence /\ ~processed
    BY <1>2 DEF FenceInv
  <2>2. \A j \in 1 .. Len(queue') :
          queue'[j].fence => queue'[j].id = "EOF" /\ WaitOnFence /\ ~processed
    BY <1>1, <1>4, <2>1 DEF FenceInv
  <2>. QED  BY <1>2, <2>2 DEF FenceInv, script
<1>. QED  BY <1>5, <1>6, <1>8, <1>9

\* Entering the pump.
LEMMA CallPumpInv ==
  ASSUME IInv, ~threaded, NEW at, NEW next, CallPump(at, next),
         \/ at = "prime_pump" /\ next = "prime_pumping"
         \/ at = "pump" /\ next = "pumping"
  PROVE  IInv'
<1>. USE DEF IInv
<1>1. /\ main = at /\ main' = next /\ handler' \in {"dequeue", "failed"}
      /\ UNCHANGED <<queue, processed, keepRunning, threaded, runtime, console, event, advanced, inits, destroys>>
  BY DEF CallPump, MayFail
<1>2. TypeOK'
  BY <1>1 DEF TypeOK, runtime, console, Running
<1>3. CountInv' /\ ModeInv'
  BY <1>1 DEF CountInv, ModeInv, Running, runtime
<1>4. TurnInv'
  BY <1>1 DEF TurnInv, Abandoned, Queued, Taken, Turn, runtime
<1>5. FenceInv'
  BY <1>1 DEF FenceInv
<1>. QED  BY <1>2, <1>3, <1>4, <1>5

\* Leaving the pump.
LEMMA PumpReturnsInv ==
  ASSUME IInv, ~threaded, NEW at, NEW result, NEW next, NEW ok \in BOOLEAN,
         PumpReturns(at, result, next, ok),
         \/ at = "prime_pumping" /\ next = "prime_null" /\ (ok => result = "succeeded")
         \/ at = "pumping" /\ result = "succeeded" /\ next = "tick"
         \/ at = "pumping" /\ result = "failed" /\ next = "rest",
         result \in {"succeeded", "failed"}
  PROVE  IInv'
<1>. USE DEF IInv
<1>1. /\ main = at /\ main' = next /\ handler = result /\ handler' = "idle" /\ initOk' = ok
      /\ grace' = IF next = "rest" /\ grace > 0 THEN grace - 1 ELSE grace
      /\ UNCHANGED <<queue, processed, keepRunning, threaded, frame, ticks, destroySent,
                     console, event, advanced, inits, destroys>>
  BY DEF PumpReturns
<1>grace. grace' \in 0 .. MaxFrames /\ grace' <= frame
  BY <1>1, BoundAssumption DEF TypeOK, CountInv
<1>2. TypeOK'
  BY <1>1, <1>grace DEF TypeOK, console, Running
<1>3. CountInv' /\ ModeInv'
  BY <1>1, <1>grace DEF CountInv, ModeInv, Running
<1>4. TurnInv'
  BY <1>1 DEF TurnInv, Abandoned, Queued, Taken, Turn
<1>5. FenceInv'
  BY <1>1 DEF FenceInv
<1>. QED  BY <1>2, <1>3, <1>4, <1>5

\* The other steps of the main loop: a turn is under way at no point where the
\* next one begins.
LEMMA MainLoopInv ==
  ASSUME IInv,
         RunScript \/ SendInit \/ BeginIteration \/ FenceSeen \/ Tick \/ AdvanceTime
           \/ Predestroy \/ Destroy \/ Join \/ FreeContext
  PROVE  IInv'
<1>. USE DEF IInv
<1>1. CASE RunScript
  <2>. USE <1>1 DEF RunScript
  <2>1. TypeOK'
    BY DEF TypeOK, console, Running
  <2>2. CountInv' /\ ModeInv'
    BY ModeAssumption DEF CountInv, ModeInv, Running
  <2>3. TurnInv'
    BY DEF TurnInv, Abandoned, Queued, Taken, Turn
  <2>4. FenceInv'
    BY DEF FenceInv
  <2>. QED  BY <2>1, <2>2, <2>3, <2>4
<1>2. CASE SendInit
  <2>. USE <1>2 DEF SendInit
  <2>1. CASE initOk
    <3>. DEFINE e == Plain("Init")
    <3>1. e \in Events /\ e.id = "Init" /\ ~e.fence
      <4>1. frame \in 0 .. MaxFrames /\ "Init" \in Ids
        BY DEF TypeOK, Ids
      <4>. QED  BY <4>1, PlainTypes DEF Plain
    <3>2. Enqueue(e) /\ main' = "rest"
      BY <2>1
    <3>. HIDE DEF e
    <3>3. queue' \in Seq(Events) /\ Len(queue') <= QueueCapacity
      BY <3>1, <3>2, EnqueueFacts DEF TypeOK
    <3>4. TypeOK'
      BY <3>2, <3>3 DEF TypeOK, runtime, script, console, Running
    <3>5. CountInv' /\ ModeInv' /\ TurnInv' /\ FenceInv'
      BY <2>1, <3>1, <3>2, EnqueuePlain DEF runtime, script
    <3>. QED  BY <3>4, <3>5
  <2>2. CASE ~initOk
    <3>1. TypeOK'
      BY <2>2 DEF TypeOK, runtime, script, console, Running
    <3>2. CountInv' /\ ModeInv'
      BY <2>2 DEF CountInv, ModeInv, Running, runtime, script
    <3>3. TurnInv'
      BY <2>2 DEF TurnInv, Abandoned, Queued, Taken, Turn, runtime, script
    <3>4. FenceInv'
      BY <2>2 DEF FenceInv, runtime, script
    <3>. QED  BY <3>1, <3>2, <3>3, <3>4
  <2>. QED  BY <2>1, <2>2
<1>3. CASE BeginIteration
  <2>. USE <1>3 DEF BeginIteration
  <2>1. TypeOK' /\ CountInv'
    <3>1. frame' \in 0 .. MaxFrames /\ frame' > 0 /\ grace' \in 0 .. MaxFrames /\ grace' <= frame'
          /\ ticks' \in 0 .. MaxTicks
      BY BoundAssumption DEF TypeOK, CountInv
    <3>. QED  BY <3>1 DEF TypeOK, CountInv, script, console, Running
  <2>2. ModeInv'
    BY DEF ModeInv, script
  <2>3. threaded /\ ~WaitOnFence => ~Queued /\ ~Taken
    BY DEF FenceInv, Queued, Taken, Turn
  <2>4. TurnInv'
    BY <2>3 DEF TurnInv, Abandoned, Queued, Taken, Turn, script
  <2>5. FenceInv'
    BY DEF FenceInv, script
  <2>. QED  BY <2>1, <2>2, <2>4, <2>5
<1>4. CASE FenceSeen
  <2>. USE <1>4 DEF FenceSeen
  <2>1. TypeOK'
    BY DEF TypeOK, runtime, script, console, Running
  <2>2. CountInv' /\ ModeInv'
    BY DEF CountInv, ModeInv, Running, runtime, script
  <2>3. ~Queued /\ ~Taken
    BY DEF ModeInv, FenceInv, Queued, Taken, Turn
  <2>4. TurnInv'
    BY <2>3 DEF TurnInv, Abandoned, Queued, Taken, Turn, runtime, script
  <2>5. FenceInv'
    BY DEF FenceInv, runtime, script
  <2>. QED  BY <2>1, <2>2, <2>4, <2>5
<1>5. CASE Tick \/ AdvanceTime
  <2>. DEFINE id == IF Tick THEN "Tick" ELSE "AdvanceTime"
              e == Plain(id)
  <2>1. main = "tick" /\ frame > 0
    BY <1>5 DEF Tick, AdvanceTime, CountInv, Running
  <2>2. e \in Events /\ e.id \in {"Tick", "AdvanceTime"} /\ ~e.fence /\ e.frame > 0
    <3>1. frame \in 0 .. MaxFrames /\ id \in Ids /\ id \in {"Tick", "AdvanceTime"}
      BY DEF TypeOK, Ids
    <3>. HIDE DEF id
    <3>. QED  BY <2>1, <3>1, PlainTypes DEF Plain
  <2>3. Enqueue(e)
    BY <1>5, <2>1 DEF Tick, AdvanceTime
  <2>. HIDE DEF e
  <2>4. queue' \in Seq(Events) /\ Len(queue') <= QueueCapacity
    BY <2>2, <2>3, EnqueueFacts DEF TypeOK
  <2>5. /\ main' \in {"tick", "reset"} /\ ticks' \in 0 .. MaxTicks
        /\ UNCHANGED <<processed, keepRunning, threaded, initOk, frame, destroySent, grace, script, console>>
    <3>1. CASE Tick
      BY <3>1, BoundAssumption DEF Tick, TypeOK
    <3>2. CASE AdvanceTime
      BY <3>2 DEF AdvanceTime, TypeOK, runtime
    <3>. QED  BY <1>5, <3>1, <3>2
  <2>6. TypeOK'
    BY <2>4, <2>5 DEF TypeOK, script, console, Running
  <2>7. CountInv' /\ ModeInv' /\ TurnInv' /\ FenceInv'
    BY <2>1, <2>2, <2>3, <2>5, EnqueuePlain DEF script
  <2>. QED  BY <2>6, <2>7
<1>6. CASE Predestroy
  <2>. USE <1>6 DEF Predestroy
  <2>. DEFINE e == Event("Destroy", 0, 0, FALSE)
  <2>1. e \in Events /\ e.id = "Destroy" /\ ~e.fence
    <3>1. 0 \in 0 .. MaxFrames /\ "Destroy" \in Ids
      BY BoundAssumption DEF Ids
    <3>. QED  BY <3>1, PlainTypes
  <2>2. Enqueue(e)
    OBVIOUS
  <2>. HIDE DEF e
  <2>3. queue' \in Seq(Events) /\ Len(queue') <= QueueCapacity
    BY <2>1, <2>2, EnqueueFacts DEF TypeOK
  <2>4. TypeOK'
    BY <2>3 DEF TypeOK, script, console
  <2>5. CountInv' /\ ModeInv' /\ TurnInv' /\ FenceInv'
    BY <2>1, <2>2, EnqueuePlain DEF script
  <2>. QED  BY <2>4, <2>5
<1>7. CASE Destroy \/ Join
  <2>1. /\ \/ main = "rest" /\ main' = IF threaded THEN "stop" ELSE "free"
           \/ main = "join" /\ main' = "free"
        /\ UNCHANGED <<queue, processed, keepRunning, threaded, runtime, script, console>>
    BY <1>7 DEF Destroy, Join
  <2>2. TypeOK'
    BY <2>1 DEF TypeOK, runtime, script, console, Running
  <2>3. CountInv' /\ ModeInv'
    BY <2>1, ModeAssumption DEF CountInv, ModeInv, Running, runtime, script
  <2>4. TurnInv'
    BY <2>1 DEF TurnInv, Abandoned, Queued, Taken, Turn, runtime, script
  <2>5. FenceInv'
    BY <2>1 DEF FenceInv, runtime, script
  <2>. QED  BY <2>2, <2>3, <2>4, <2>5
<1>8. CASE FreeContext
  <2>. USE <1>8 DEF FreeContext
  <2>1. queue' \in Seq(Events) /\ Len(queue') = 0
    OBVIOUS
  <2>2. TypeOK'
    BY <2>1, BoundAssumption DEF TypeOK, runtime, script, console, Running
  <2>3. CountInv' /\ ModeInv'
    BY <2>1 DEF CountInv, ModeInv, Running, runtime, script
  <2>4. TurnInv'
    BY <2>1 DEF TurnInv, Abandoned, Queued, Taken, Turn, runtime, script
  <2>5. FenceInv'
    BY <2>1 DEF FenceInv, runtime, script
  <2>. QED  BY <2>2, <2>3, <2>4, <2>5
<1>. QED  BY <1>1, <1>2, <1>3, <1>4, <1>5, <1>6, <1>7, <1>8

\* The script's steps.
LEMMA ScriptInv == IInv /\ (ScriptStep \/ DispatchFails) => IInv'
<1>. SUFFICES ASSUME IInv, ScriptStep \/ DispatchFails PROVE IInv'
  OBVIOUS
<1>. USE DEF IInv
<1>1. CASE RunMainScript \/ TestRunning
  <2>1. /\ handler \in {"main_script", "test_running"}
        /\ handler' \in {"test_running", "dequeue", "exited"}
        /\ UNCHANGED <<queue, processed, keepRunning, threaded, main, runtime, console,
                       event, advanced, inits, destroys>>
    BY <1>1 DEF RunMainScript, TestRunning, MayFail
  <2>2. TypeOK'
    BY <2>1 DEF TypeOK, runtime, console
  <2>3. CountInv' /\ ModeInv' /\ TurnInv' /\ FenceInv'
    BY <2>1, HandlerMoves DEF runtime
  <2>. QED  BY <2>2, <2>3
<1>2. CASE Dispatch \/ DispatchFails
  <2>1. /\ handler = "dispatch" /\ handler' \in {"dequeue", "exited", "failed"}
        /\ event' = NoEvent /\ HandOver
    BY <1>2 DEF Dispatch, DispatchFails, HandOver, MayFail, AfterError
  <2>2. advanced' \in Seq(1 .. MaxFrames)
    <3>1. CASE event.id = "AdvanceTime"
      <4>1. event.frame \in 1 .. MaxFrames
        BY <3>1, BoundAssumption DEF TypeOK, CountInv, NoEvent, Event, Events
      <4>2. advanced' = Append(advanced, event.frame)
        BY <2>1, <3>1 DEF HandOver
      <4>. QED  BY <4>1, <4>2, AppendProperties DEF TypeOK
    <3>2. CASE event.id # "AdvanceTime"
      BY <2>1, <3>2 DEF HandOver, TypeOK
    <3>. QED  BY <3>1, <3>2
  <2>3. inits' \in Nat /\ destroys' \in Nat
    BY <2>1 DEF HandOver, TypeOK
  <2>4. TypeOK'
    BY <2>1, <2>2, <2>3 DEF HandOver, TypeOK, runtime, console
  <2>5. CountInv' /\ ModeInv' /\ TurnInv' /\ FenceInv'
    BY <2>1, HandlerMoves DEF HandOver, runtime
  <2>. QED  BY <2>4, <2>5
<1>3. CASE Dequeue
  BY <1>3, DequeueInv
<1>4. CASE FrameDone
  BY <1>4, FrameDoneInv
<1>. QED  BY <1>1, <1>2, <1>3, <1>4 DEF ScriptStep

\* The console's steps.
LEMMA ConsoleInv == ASSUME IInv, NEW u \in UI, CopyInput(u) \/ SendInput(u) PROVE IInv'
<1>. USE DEF IInv
<1>1. CASE CopyInput(u)
  <2>. USE <1>1 DEF CopyInput
  <2>1. PICK s \in 1 .. MaxStrings :
          strings' = [strings EXCEPT ![s] = "live"] /\ input' = s
    OBVIOUS
  <2>2. /\ strings' \in [1 .. MaxStrings -> {"unused", "live", "freed"}]
        /\ input' \in 0 .. MaxStrings
        /\ ui' \in [UI -> BOOLEAN]
    BY <2>1, BoundAssumption DEF TypeOK
  <2>3. TypeOK'
    BY <2>2 DEF TypeOK, runtime, script
  <2>4. CountInv' /\ ModeInv' /\ TurnInv' /\ FenceInv'
    BY Kept DEF runtime, script
  <2>. QED  BY <2>3, <2>4
<1>2. CASE SendInput(u)
  <2>. USE <1>2 DEF SendInput
  <2>. DEFINE e == Event("ConsoleInput", 0, input, FALSE)
  <2>1. e \in Events /\ e.id = "ConsoleInput" /\ ~e.fence
    <3>1. 0 \in 0 .. MaxFrames /\ "ConsoleInput" \in Ids /\ input \in 0 .. MaxStrings
      BY BoundAssumption DEF Ids, TypeOK
    <3>. QED  BY <3>1 DEF Event, Events
  <2>2. Enqueue(e)
    OBVIOUS
  <2>. HIDE DEF e
  <2>3. queue' \in Seq(Events) /\ Len(queue') <= QueueCapacity
    BY <2>1, <2>2, EnqueueFacts DEF TypeOK
  <2>4. ui' \in [UI -> BOOLEAN]
    BY DEF TypeOK
  <2>5. TypeOK'
    BY <2>3, <2>4 DEF TypeOK, runtime, script
  <2>6. CountInv' /\ ModeInv' /\ TurnInv' /\ FenceInv'
    BY <2>1, <2>2, EnqueuePlain DEF runtime, script
  <2>. QED  BY <2>5, <2>6
<1>. QED  BY <1>1, <1>2

\* The steps that several places of the main loop share.
LEMMA EndFrameInv == IInv /\ (Prime \/ EndFrame \/ PumpFrame \/ StopScript) => IInv'
<1>. SUFFICES ASSUME IInv, Prime \/ EndFrame \/ PumpFrame \/ StopScript PROVE IInv'
  OBVIOUS
<1>1. 0 \in 0 .. MaxFrames /\ frame \in 0 .. MaxFrames
      /\ {TRUE, FALSE, WaitOnFence, initOk} \subseteq BOOLEAN
  BY BoundAssumption, ModeAssumption DEF IInv, TypeOK
<1>2. main \in {"prime_pump", "prime_pumping", "pump", "pumping"} => ~threaded
  BY DEF IInv, ModeInv
<1>3. CASE Prime
  <2>1. CASE ResetFence("prime_reset", "prime_eof")
    BY <2>1, ResetFenceInv
  <2>2. CASE SendEOF("prime_eof", IF threaded THEN "prime_null" ELSE "prime_pump", 0, WaitOnFence)
    BY <1>1, <2>2, SendEOFInv
  <2>3. CASE CallPump("prime_pump", "prime_pumping")
    BY <1>2, <2>3, CallPumpInv DEF CallPump
  <2>4. CASE PumpReturns("prime_pumping", "succeeded", "prime_null", initOk)
    BY <1>1, <1>2, <2>4, PumpReturnsInv DEF PumpReturns
  <2>5. CASE PumpReturns("prime_pumping", "failed", "prime_null", FALSE)
    BY <1>1, <1>2, <2>5, PumpReturnsInv DEF PumpReturns
  <2>6. CASE SendEOF("prime_null", "send_init", 0, FALSE)
    BY <1>1, <2>6, SendEOFInv
  <2>. QED  BY <1>3, <2>1, <2>2, <2>3, <2>4, <2>5, <2>6 DEF Prime
<1>4. CASE EndFrame
  BY <1>1, <1>4, ResetFenceInv, SendEOFInv DEF EndFrame
<1>5. CASE PumpFrame
  <2>1. CASE CallPump("pump", "pumping")
    BY <1>2, <2>1, CallPumpInv DEF CallPump
  <2>2. CASE PumpReturns("pumping", "succeeded", "tick", initOk)
    BY <1>1, <1>2, <2>2, PumpReturnsInv DEF PumpReturns
  <2>3. CASE PumpReturns("pumping", "failed", "rest", initOk)
    BY <1>1, <1>2, <2>3, PumpReturnsInv DEF PumpReturns
  <2>. QED  BY <1>5, <2>1, <2>2, <2>3 DEF PumpFrame
<1>6. CASE StopScript
  <2>1. CASE SendEOF("stop_eof", "join", 0, FALSE)
    BY <1>1, <2>1, SendEOFInv
  <2>2. CASE /\ main = "stop" /\ keepRunning' = FALSE /\ main' = "stop_eof"
             /\ UNCHANGED <<queue, processed, threaded, runtime, script, console>>
    <3>. USE <2>2 DEF IInv
    <3>1. TypeOK'
      BY DEF TypeOK, runtime, script, console, Running
    <3>2. CountInv' /\ ModeInv'
      BY DEF CountInv, ModeInv, Running, runtime, script
    <3>3. TurnInv' /\ FenceInv'
      BY DEF TurnInv, FenceInv, Abandoned, Queued, Taken, Turn, runtime, script
    <3>. QED  BY <3>1, <3>2, <3>3
  <2>. QED  BY <1>6, <2>1, <2>2 DEF StopScript
<1>. QED  BY <1>3, <1>4, <1>5, <1>6

\* The invariant is inductive.
LEMMA NextInv == IInv /\ [Next]_vars => IInv'
<1>. SUFFICES ASSUME IInv, [Next]_vars PROVE IInv'
  OBVIOUS
<1>1. CASE MainStep
  BY <1>1, MainLoopInv, EndFrameInv DEF MainStep
<1>2. CASE ScriptStep \/ DispatchFails
  BY <1>2, ScriptInv
<1>3. CASE Application
  BY <1>3, MainLoopInv, ConsoleInv DEF Application
<1>4. CASE Stopped \/ UNCHANGED vars
  <2>1. UNCHANGED vars
    BY <1>4 DEF Stopped
  <2>2. TypeOK'
    BY <2>1 DEF vars, IInv, TypeOK
  <2>3. CountInv' /\ ModeInv' /\ TurnInv' /\ FenceInv'
    BY <2>1, Kept DEF vars
  <2>. QED  BY <2>2, <2>3 DEF IInv
<1>. QED  BY <1>1, <1>2, <1>3, <1>4 DEF Next

\* Whether the script has a thread is settled when the runtime is initialised.
LEMMA ModeKept == [Next]_vars => threaded' = threaded
<1>. SUFFICES ASSUME [Next]_vars PROVE threaded' = threaded
  OBVIOUS
<1>1. CASE Prime \/ EndFrame \/ PumpFrame \/ StopScript
  BY <1>1 DEF Prime, EndFrame, PumpFrame, StopScript, ResetFence, SendEOF, CallPump, PumpReturns
<1>2. CASE RunScript \/ SendInit \/ FenceSeen \/ Tick \/ AdvanceTime \/ Join \/ FreeContext
  BY <1>2 DEF RunScript, SendInit, FenceSeen, Tick, AdvanceTime, Join, FreeContext
<1>3. CASE ScriptStep \/ DispatchFails
  BY <1>3 DEF ScriptStep, RunMainScript, TestRunning, Dequeue, Dispatch, FrameDone, DispatchFails,
              HandOver
<1>4. CASE Application
  BY <1>4 DEF Application, BeginIteration, Predestroy, Destroy, CopyInput, SendInput
<1>5. CASE Stopped \/ UNCHANGED vars
  BY <1>5 DEF Stopped, vars
<1>. QED  BY <1>1, <1>2, <1>3, <1>4, <1>5 DEF Next, MainStep

-----------------------------------------------------------------------------
(* The console's strings *)

\* A step that sends an event without a string, or sends nothing.
LEMMA StringsKept ==
  ASSUME TypeOK, StringsInv, UNCHANGED console,
         \/ UNCHANGED queue
         \/ queue' = <<>>
         \/ \E e \in Events : Enqueue(e) /\ e.id # "ConsoleInput" /\ e.string = 0
  PROVE  StringsInv'
<1>1. CASE UNCHANGED queue
  BY <1>1 DEF StringsInv, console
<1>2. CASE queue' = <<>>
  BY <1>2 DEF StringsInv, console
<1>3. ASSUME NEW e \in Events, Enqueue(e), e.id # "ConsoleInput", e.string = 0 PROVE StringsInv'
  <2>1. \A j \in 1 .. Len(queue') :
          \/ j \in 1 .. Len(queue) /\ queue'[j] = queue[j]
          \/ queue'[j] = e
    BY <1>3, EnqueueFacts DEF TypeOK
  <2>2. \A j \in 1 .. Len(queue) : queue[j] \in Events
    BY ElementOfSeq DEF TypeOK
  <2>. QED  BY <1>3, <2>1, <2>2 DEF StringsInv, console, Events
<1>. QED  BY <1>1, <1>2, <1>3

\* The strings stay with their one owner.
LEMMA StringsNext == OneUI /\ TypeOK /\ StringsInv /\ [Next]_vars => StringsInv'
<1>. SUFFICES ASSUME OneUI, TypeOK, StringsInv, [Next]_vars PROVE StringsInv'
  OBVIOUS
<1>1. CASE Dequeue
  <2>1. /\ Len(queue) \in Nat \ {0}
        /\ Len(queue') = Len(queue) - 1
        /\ \A j \in 1 .. Len(queue') : queue'[j] = queue[j + 1]
        /\ event' = queue[1] /\ event' \in Events
    BY <1>1, DequeueFacts DEF Dequeue, TypeOK
  <2>2. \A j \in 1 .. Len(queue') :
          queue[j + 1].id = "ConsoleInput" => queue[j + 1].string # queue[1].string
    BY <2>1 DEF StringsInv
  <2>3. /\ strings' = IF queue[1].id = "ConsoleInput"
                      THEN [strings EXCEPT ![queue[1].string] = "freed"] ELSE strings
        /\ UNCHANGED <<input, ui>>
    BY <1>1, <2>1 DEF Dequeue
  <2>4. \A j \in 1 .. Len(queue') : queue'[j] \in Events /\ j + 1 \in 1 .. Len(queue)
    BY <2>1, ElementOfSeq DEF TypeOK
  <2>5. \A j \in 1 .. Len(queue') :
          IF queue'[j].id = "ConsoleInput"
          THEN queue'[j].string > 0 /\ strings'[queue'[j].string] = "live"
          ELSE queue'[j].string = 0
    <3>. SUFFICES ASSUME NEW j \in 1 .. Len(queue')
                  PROVE  IF queue[j + 1].id = "ConsoleInput"
                         THEN queue[j + 1].string > 0 /\ strings'[queue[j + 1].string] = "live"
                         ELSE queue[j + 1].string = 0
      BY <2>1
    <3>1. j + 1 \in 1 .. Len(queue) /\ queue[j + 1].string \in 0 .. MaxStrings
      BY <2>1, <2>4 DEF Events
    <3>2. IF queue[j + 1].id = "ConsoleInput"
          THEN queue[j + 1].string > 0 /\ strings[queue[j + 1].string] = "live"
          ELSE queue[j + 1].string = 0
      BY <3>1 DEF StringsInv
    <3>3. queue[j + 1].id = "ConsoleInput" =>
            strings'[queue[j + 1].string] = strings[queue[j + 1].string]
      <4>. SUFFICES ASSUME queue[j + 1].id = "ConsoleInput"
                    PROVE  strings'[queue[j + 1].string] = strings[queue[j + 1].string]
        OBVIOUS
      <4>1. queue[j + 1].string # queue[1].string /\ queue[j + 1].string \in 1 .. MaxStrings
        BY <2>2, <3>1, <3>2
      <4>. QED  BY <4>1, <2>3 DEF TypeOK
    <3>. QED  BY <3>2, <3>3
  <2>6. ASSUME NEW j \in 1 .. Len(queue'), NEW k \in 1 .. Len(queue'),
               queue'[j].id = "ConsoleInput", queue'[j].string = queue'[k].string
        PROVE  j = k
    <3>1. j + 1 = k + 1
      BY <2>1, <2>4, <2>6 DEF StringsInv
    <3>. QED  BY <3>1
  <2>7. (\E u \in UI : ui'[u]) =>
          /\ input' > 0 /\ strings'[input'] = "live"
          /\ \A j \in 1 .. Len(queue') : queue'[j].string # input'
    <3>. SUFFICES ASSUME NEW u \in UI, ui[u]
                  PROVE  /\ input > 0 /\ strings'[input] = "live"
                         /\ \A j \in 1 .. Len(queue') : queue'[j].string # input
      BY <2>3
    <3>1. /\ input > 0 /\ strings[input] = "live" /\ input \in 1 .. MaxStrings
          /\ \A j \in 1 .. Len(queue) : queue[j].string # input
      BY DEF StringsInv, TypeOK
    <3>2. queue[1].string # input
      BY <2>1, <3>1
    <3>. QED  BY <2>1, <2>3, <2>4, <3>1, <3>2 DEF TypeOK
  <2>. QED  BY <2>5, <2>6, <2>7 DEF StringsInv
<1>2. ASSUME NEW u \in UI, CopyInput(u) PROVE StringsInv'
  <2>1. PICK s \in 1 .. MaxStrings :
          strings[s] = "unused" /\ strings' = [strings EXCEPT ![s] = "live"] /\ input' = s
    BY <1>2 DEF CopyInput
  <2>2. UNCHANGED queue
    BY <1>2 DEF CopyInput
  <2>3. \A j \in 1 .. Len(queue) : queue[j] \in Events
    BY ElementOfSeq DEF TypeOK
  <2>4. s > 0 /\ strings'[s] = "live" /\ \A j \in 1 .. Len(queue) : queue[j].string # s
    BY <2>1, <2>3 DEF StringsInv, TypeOK
  <2>. QED  BY <2>1, <2>2, <2>3, <2>4 DEF StringsInv, Events, TypeOK
<1>3. ASSUME NEW u \in UI, SendInput(u) PROVE StringsInv'
  <2>. DEFINE e == Event("ConsoleInput", 0, input, FALSE)
  <2>1. ui[u] /\ ui' = [ui EXCEPT ![u] = FALSE] /\ Enqueue(e) /\ UNCHANGED <<strings, input>>
    BY <1>3 DEF SendInput
  <2>2. e \in Events /\ e.id = "ConsoleInput" /\ e.string = input
    <3>1. 0 \in 0 .. MaxFrames /\ "ConsoleInput" \in Ids /\ input \in 0 .. MaxStrings
      BY BoundAssumption DEF Ids, TypeOK
    <3>. QED  BY <3>1 DEF Event, Events
  <2>. HIDE DEF e
  <2>3. \A v \in UI : ~ui'[v]
    BY <2>1 DEF OneUI, TypeOK
  <2>4. \A j \in 1 .. Len(queue') :
          \/ j \in 1 .. Len(queue) /\ queue'[j] = queue[j]
          \/ j = Len(queue) + 1 /\ queue'[j] = e
    BY <2>1, <2>2, EnqueueFacts DEF TypeOK
  <2>5. /\ input > 0 /\ strings[input] = "live"
        /\ \A j \in 1 .. Len(queue) : queue[j].string # input
    BY <2>1 DEF StringsInv
  <2>. QED  BY <2>1, <2>2, <2>3, <2>4, <2>5 DEF StringsInv
<1>4. CASE ~Dequeue /\ \A u \in UI : ~CopyInput(u) /\ ~SendInput(u)
  <2>1. /\ UNCHANGED console
        /\ \/ UNCHANGED queue
           \/ queue' = <<>>
           \/ \E e \in Events : Enqueue(e) /\ e.id # "ConsoleInput" /\ e.string = 0
    <3>1. 0 \in 0 .. MaxFrames /\ 0 \in 0 .. MaxStrings /\ frame \in 0 .. MaxFrames
          /\ {TRUE, FALSE, WaitOnFence} \subseteq BOOLEAN
      BY BoundAssumption, ModeAssumption DEF TypeOK
    <3>2. ASSUME NEW id \in Ids \ {"ConsoleInput"}, NEW f \in 0 .. MaxFrames, NEW b \in BOOLEAN,
                 Enqueue(Event(id, f, 0, b))
          PROVE  \E e \in Events : Enqueue(e) /\ e.id # "ConsoleInput" /\ e.string = 0
      <4>1. /\ Event(id, f, 0, b) \in Events
            /\ Event(id, f, 0, b).id = id /\ Event(id, f, 0, b).string = 0
        BY <3>1 DEF Event, Events
      <4>. QED  BY <3>2, <4>1
    <3>3. {"EOF", "Init", "Tick", "AdvanceTime", "Destroy"} \subseteq Ids \ {"ConsoleInput"}
      BY DEF Ids
    <3>4. CASE Prime \/ EndFrame \/ PumpFrame \/ StopScript
      BY <3>1, <3>2, <3>3, <3>4
         DEF Prime, EndFrame, PumpFrame, StopScript, ResetFence, SendEOF, CallPump, PumpReturns
    <3>5. CASE SendInit \/ Tick \/ AdvanceTime \/ Predestroy
      BY <3>1, <3>2, <3>3, <3>5 DEF SendInit, Tick, AdvanceTime, Predestroy, Plain
    <3>6. CASE RunScript \/ FenceSeen \/ Join \/ FreeContext \/ BeginIteration \/ Destroy
                 \/ Stopped \/ UNCHANGED vars
      BY <3>6 DEF RunScript, FenceSeen, Join, FreeContext, BeginIteration, Destroy, Stopped,
                  vars, console
    <3>7. CASE RunMainScript \/ TestRunning \/ Dispatch \/ DispatchFails \/ FrameDone
      BY <3>7 DEF RunMainScript, TestRunning, Dispatch, DispatchFails, HandOver, FrameDone, console
    <3>. QED  BY <1>4, <3>4, <3>5, <3>6, <3>7 DEF Next, MainStep, ScriptStep, Application
  <2>. QED  BY <2>1, StringsKept
<1>. QED  BY <1>1, <1>2, <1>3, <1>4

-----------------------------------------------------------------------------
(* In step: every step by what it does to the events *)

\* What kl_initialize does up to the Init event, and what kl_destroy does.
Priming == {"run", "prime_reset", "prime_eof", "prime_pump", "prime_pumping", "prime_null",
            "send_init", "init_failed"}
Closing == {"stop", "stop_eof", "join", "free", "destroyed"}

Adv(e) == e.id = "AdvanceTime"
Ends(e) == e.id = "EOF" /\ e.frame > 0

\* The handler holds an event only while it is busy with it.
HandlerInv ==
  /\ handler \notin {"dispatch", "frame_done"} => event = NoEvent
  /\ handler = "dispatch" => event.id \notin {"EOF", "none"}
  /\ main = "run" => handler = "idle"

\* Before the Init event nothing is sent but the two primers, and nobody types.
PrimersInv ==
  main \in Priming =>
    /\ \A j \in 1 .. Len(queue) : queue[j].id = "EOF" /\ queue[j].frame = 0
    /\ event.id \in {"none", "EOF"} /\ event.frame = 0
    /\ inits = 0 /\ destroys = 0 /\ advanced = <<>> /\ ~destroySent
    /\ \A u \in UI : ~ui[u]
    /\ Len(queue) <= IF main \in {"run", "prime_reset", "prime_eof"} THEN 0
                     ELSE IF main \in {"send_init", "init_failed"} THEN 2 ELSE 1

BaseInv == IInv /\ HandlerInv /\ PrimersInv

\* A step that sends e: who sends it, and where that leaves the main loop.
Sends(e) ==
  /\ Enqueue(e) /\ UNCHANGED <<threaded, handler, event, advanced, inits, destroys, frame, grace>>
  /\ destroySent' = IF e.id = "Destroy" THEN TRUE ELSE destroySent
  /\ e.id # "EOF" => ~e.fence
  /\ \/ /\ e.id = "EOF" /\ e.frame = 0 /\ UNCHANGED <<ticks, ui, strings>>
        /\ \/ main = "prime_eof" /\ main' \in {"prime_pump", "prime_null"}
           \/ main = "prime_null" /\ main' = "send_init"
           \/ main = "stop_eof" /\ main' = "join"
     \/ /\ e.id = "EOF" /\ e.frame = frame /\ e.fence = WaitOnFence
        /\ main = "eof" /\ main' = "rest" /\ UNCHANGED <<ticks, ui, strings>>
     \/ e.id = "Init" /\ main = "send_init" /\ main' = "rest" /\ UNCHANGED <<ticks, ui, strings>>
     \/ /\ e.id = "Tick" /\ main = "tick" /\ main' = "tick"
        /\ ticks < MaxTicks /\ ticks' = ticks + 1 /\ UNCHANGED <<ui, strings>>
     \/ /\ e.id = "AdvanceTime" /\ e.frame = frame
        /\ main = "tick" /\ main' = "reset" /\ UNCHANGED <<ticks, ui, strings>>
     \/ /\ e.id = "Destroy" /\ ~destroySent
        /\ main \in Running /\ UNCHANGED <<main, ticks, ui, strings>>
     \/ /\ e.id = "ConsoleInput" /\ \E u \in UI : ui[u] /\ ui' = [ui EXCEPT ![u] = FALSE]
        /\ UNCHANGED <<main, ticks, strings>>

\* A step that moves the main loop and sends nothing.
Moves ==
  \/ UNCHANGED <<main, frame, ticks, grace>>
  \/ /\ main = "rest" /\ main' \in {"pump", "wait", "tick"}
     /\ main' = "tick" => threaded /\ ~WaitOnFence
     /\ frame' = frame + 1 /\ ticks' = 0
     /\ grace' = IF destroySent THEN grace + 1 ELSE grace
  \/ /\ UNCHANGED <<frame, ticks>>
     /\ main = "pumping" /\ main' = "rest" /\ handler = "failed"
     /\ grace' = IF grace > 0 THEN grace - 1 ELSE grace
  \/ /\ UNCHANGED <<frame, ticks, grace>>
     /\ \/ main = "run" /\ main' = "prime_reset"
        \/ main = "prime_reset" /\ main' = "prime_eof"
        \/ main = "prime_pump" /\ main' = "prime_pumping"
        \/ main = "prime_pumping" /\ main' = "prime_null"
        \/ main = "send_init" /\ main' = "init_failed"
        \/ main = "pump" /\ main' = "pumping"
        \/ main = "pumping" /\ main' = "tick" /\ handler = "succeeded"
        \/ main = "wait" /\ main' = "tick" /\ processed
        \/ main = "reset" /\ main' = "eof"
        \/ main = "rest" /\ main' \in {"stop", "free"}
        \/ main = "stop" /\ main' = "stop_eof"
        \/ main = "join" /\ main' = "free"

\* A step that copies what the user typed, and will send it.
Copies ==
  /\ main \in Running
  /\ \E u \in UI : ~ui[u] /\ ui' = [ui EXCEPT ![u] = TRUE]
  /\ \E s \in 1 .. MaxStrings :
       strings[s] = "unused" /\ strings' = [strings EXCEPT ![s] = "live"]

\* A step that neither sends, takes nor handles an event.
Still ==
  /\ UNCHANGED <<queue, threaded, event, advanced, inits, destroys, destroySent>>
  /\ \/ UNCHANGED handler
     \/ {handler, handler'} \cap {"dispatch", "frame_done"} = {} /\ main' # "run"
  /\ handler' = "failed" => handler = "failed" \/ ScriptMayFail
  /\ Moves
  /\ UNCHANGED <<ui, strings>> \/ Copies

Handles == HandOver /\ handler' \in {"dequeue", "exited", "failed"}
           /\ (handler' = "failed" => ScriptMayFail)

\* Every step is of one of these kinds.
LEMMA StepKinds ==
  ASSUME IInv, HandlerInv, [Next]_vars
  PROVE  \/ Still
         \/ \E e \in Events : Sends(e)
         \/ Dequeue \/ Handles \/ FrameDone \/ FreeContext
<1>1. 0 \in 0 .. MaxFrames /\ 0 \in 0 .. MaxStrings /\ frame \in 0 .. MaxFrames
      /\ {TRUE, FALSE, WaitOnFence} \subseteq BOOLEAN
  BY BoundAssumption, ModeAssumption DEF IInv, TypeOK
<1>2. {"EOF", "Init", "Tick", "AdvanceTime", "Destroy", "ConsoleInput"} \subseteq Ids
  BY DEF Ids
<1>3. CASE RunScript
  BY <1>3 DEF RunScript, Still, Moves, console, HandlerInv
<1>4. CASE Prime
  <2>1. CASE ResetFence("prime_reset", "prime_eof")
    BY <2>1 DEF ResetFence, Still, Moves, runtime, script, console
  <2>2. CASE SendEOF("prime_eof", IF threaded THEN "prime_null" ELSE "prime_pump", 0, WaitOnFence)
    <3>. DEFINE e == Event("EOF", 0, 0, WaitOnFence)
    <3>1. e \in Events /\ e.id = "EOF" /\ e.frame = 0
      BY <1>1, <1>2 DEF Event, Events
    <3>2. Enqueue(e)
      BY <2>2 DEF SendEOF
    <3>. HIDE DEF e
    <3>3. Sends(e)
      BY <2>2, <3>1, <3>2 DEF SendEOF, Sends, runtime, script, console
    <3>. QED  BY <3>1, <3>3
  <2>3. CASE CallPump("prime_pump", "prime_pumping")
    <3>1. handler = "idle"
      BY <2>3 DEF CallPump, IInv, ModeInv
    <3>. QED  BY <2>3, <3>1 DEF CallPump, MayFail, Still, Moves, runtime, console
  <2>4. CASE PumpReturns("prime_pumping", "succeeded", "prime_null", initOk)
             \/ PumpReturns("prime_pumping", "failed", "prime_null", FALSE)
    BY <2>4 DEF PumpReturns, Still, Moves, console
  <2>5. CASE SendEOF("prime_null", "send_init", 0, FALSE)
    <3>. DEFINE e == Event("EOF", 0, 0, FALSE)
    <3>1. e \in Events /\ e.id = "EOF" /\ e.frame = 0
      BY <1>1, <1>2 DEF Event, Events
    <3>2. Enqueue(e)
      BY <2>5 DEF SendEOF
    <3>. HIDE DEF e
    <3>3. Sends(e)
      BY <2>5, <3>1, <3>2 DEF SendEOF, Sends, runtime, script, console
    <3>. QED  BY <3>1, <3>3
  <2>. QED  BY <1>4, <2>1, <2>2, <2>3, <2>4, <2>5 DEF Prime
<1>5. CASE SendInit
  <2>1. CASE initOk
    <3>. DEFINE e == Plain("Init")
    <3>1. e \in Events /\ e.id = "Init" /\ ~e.fence
      BY <1>1, <1>2 DEF Plain, Event, Events
    <3>2. Enqueue(e)
      BY <1>5, <2>1 DEF SendInit
    <3>. HIDE DEF e
    <3>3. Sends(e)
      BY <1>5, <2>1, <3>1, <3>2 DEF SendInit, Sends, runtime, script, console
    <3>. QED  BY <3>1, <3>3
  <2>2. CASE ~initOk
    BY <1>5, <2>2 DEF SendInit, Still, Moves, runtime, script, console
  <2>. QED  BY <2>1, <2>2
<1>6. CASE PumpFrame
  <2>1. CASE CallPump("pump", "pumping")
    <3>1. handler = "idle"
      BY <2>1 DEF CallPump, IInv, ModeInv
    <3>. QED  BY <2>1, <3>1 DEF CallPump, MayFail, Still, Moves, runtime, console
  <2>2. CASE PumpReturns("pumping", "succeeded", "tick", initOk)
             \/ PumpReturns("pumping", "failed", "rest", initOk)
    BY <2>2 DEF PumpReturns, Still, Moves, console
  <2>. QED  BY <1>6, <2>1, <2>2 DEF PumpFrame
<1>7. CASE FenceSeen
  BY <1>7 DEF FenceSeen, Still, Moves, runtime, script, console
<1>8. CASE Tick
  <2>. DEFINE e == Plain("Tick")
  <2>1. e \in Events /\ e.id = "Tick" /\ ~e.fence
    BY <1>1, <1>2 DEF Plain, Event, Events
  <2>2. Enqueue(e)
    BY <1>8 DEF Tick
  <2>. HIDE DEF e
  <2>3. Sends(e)
    BY <1>8, <2>1, <2>2 DEF Tick, Sends, script, console
  <2>. QED  BY <2>1, <2>3
<1>9. CASE AdvanceTime
  <2>. DEFINE e == Plain("AdvanceTime")
  <2>1. e \in Events /\ e.id = "AdvanceTime" /\ e.frame = frame /\ ~e.fence
    BY <1>1, <1>2 DEF Plain, Event, Events
  <2>2. Enqueue(e)
    BY <1>9 DEF AdvanceTime
  <2>. HIDE DEF e
  <2>3. Sends(e)
    BY <1>9, <2>1, <2>2 DEF AdvanceTime, Sends, runtime, script, console
  <2>. QED  BY <2>1, <2>3
<1>10. CASE EndFrame
  <2>1. CASE ResetFence("reset", "eof")
    BY <2>1 DEF ResetFence, Still, Moves, runtime, script, console
  <2>2. CASE SendEOF("eof", "rest", frame, WaitOnFence)
    <3>. DEFINE e == Event("EOF", frame, 0, WaitOnFence)
    <3>1. e \in Events /\ e.id = "EOF" /\ e.frame = frame /\ e.fence = WaitOnFence
      BY <1>1, <1>2 DEF Event, Events
    <3>2. Enqueue(e)
      BY <2>2 DEF SendEOF
    <3>. HIDE DEF e
    <3>3. Sends(e)
      BY <2>2, <3>1, <3>2 DEF SendEOF, Sends, runtime, script, console
    <3>. QED  BY <3>1, <3>3
  <2>. QED  BY <1>10, <2>1, <2>2 DEF EndFrame
<1>11. CASE StopScript
  <2>1. CASE SendEOF("stop_eof", "join", 0, FALSE)
    <3>. DEFINE e == Event("EOF", 0, 0, FALSE)
    <3>1. e \in Events /\ e.id = "EOF" /\ e.frame = 0
      BY <1>1, <1>2 DEF Event, Events
    <3>2. Enqueue(e)
      BY <2>1 DEF SendEOF
    <3>. HIDE DEF e
    <3>3. Sends(e)
      BY <2>1, <3>1, <3>2 DEF SendEOF, Sends, runtime, script, console
    <3>. QED  BY <3>1, <3>3
  <2>2. CASE ~SendEOF("stop_eof", "join", 0, FALSE)
    BY <1>11, <2>2 DEF StopScript, Still, Moves, runtime, script, console
  <2>. QED  BY <2>1, <2>2
<1>12. CASE Join \/ FreeContext
  BY <1>12 DEF Join, Still, Moves, runtime, script, console
<1>13. CASE RunMainScript \/ TestRunning
  BY <1>13 DEF RunMainScript, TestRunning, MayFail, Still, Moves, runtime, console, HandlerInv
<1>14. CASE Dispatch \/ DispatchFails
  BY <1>14 DEF Dispatch, DispatchFails, Handles, HandOver, MayFail, AfterError
<1>15. CASE BeginIteration
  BY <1>15, ModeAssumption DEF BeginIteration, Still, Moves, script, console
<1>16. CASE Predestroy
  <2>. DEFINE e == Event("Destroy", 0, 0, FALSE)
  <2>1. e \in Events /\ e.id = "Destroy" /\ ~e.fence
    BY <1>1, <1>2 DEF Event, Events
  <2>2. Enqueue(e)
    BY <1>16 DEF Predestroy
  <2>. HIDE DEF e
  <2>3. Sends(e)
    BY <1>16, <2>1, <2>2 DEF Predestroy, Sends, script, console
  <2>. QED  BY <2>1, <2>3
<1>17. CASE Destroy
  BY <1>17 DEF Destroy, Still, Moves, runtime, script, console
<1>18. ASSUME NEW u \in UI, CopyInput(u) \/ SendInput(u)
       PROVE  Still \/ \E e \in Events : Sends(e)
  <2>1. CASE CopyInput(u)
    BY <2>1 DEF CopyInput, Copies, Still, Moves, runtime, script
  <2>2. CASE SendInput(u)
    <3>. DEFINE e == Event("ConsoleInput", 0, input, FALSE)
    <3>1. e \in Events /\ e.id = "ConsoleInput" /\ ~e.fence
      <4>1. input \in 0 .. MaxStrings
        BY DEF IInv, TypeOK
      <4>. QED  BY <1>1, <1>2, <4>1 DEF Event, Events
    <3>2. Enqueue(e)
      BY <2>2 DEF SendInput
    <3>. HIDE DEF e
    <3>3. Sends(e)
      BY <2>2, <3>1, <3>2 DEF SendInput, Sends, runtime, script
    <3>. QED  BY <3>1, <3>3
  <2>. QED  BY <1>18, <2>1, <2>2
<1>19. CASE Stopped \/ UNCHANGED vars
  BY <1>19 DEF Stopped, vars, Still, Moves
<1>. QED
  BY <1>3, <1>4, <1>5, <1>6, <1>7, <1>8, <1>9, <1>10, <1>11, <1>12, <1>13, <1>14, <1>15, <1>16,
     <1>17, <1>18, <1>19 DEF Next, MainStep, ScriptStep, Application

\* What the handler holds and what is sent before the Init event follow from
\* who sends what.
LEMMA BaseInit == Init => HandlerInv /\ PrimersInv
<1>. SUFFICES ASSUME Init PROVE HandlerInv /\ PrimersInv
  OBVIOUS
<1>1. Len(queue) = 0
  BY DEF Init
<1>. QED  BY <1>1 DEF Init, HandlerInv, PrimersInv, NoEvent, Event

LEMMA BaseNext == BaseInv /\ [Next]_vars => HandlerInv' /\ PrimersInv'
<1>. SUFFICES ASSUME BaseInv, [Next]_vars PROVE HandlerInv' /\ PrimersInv'
  OBVIOUS
<1>mode. threaded' = threaded
  BY ModeKept
<1>. USE <1>mode
<1>. USE DEF BaseInv
<1>1. CASE Still
  <2>1. HandlerInv'
    BY <1>1 DEF Still, Moves, HandlerInv
  <2>2. PrimersInv'
    <3>1. main' \in Priming => main \in Priming /\ UNCHANGED ui
      BY <1>1 DEF Still, Moves, Copies, Priming, Running
    <3>2. main' \in Priming =>
            Len(queue') <= IF main' \in {"run", "prime_reset", "prime_eof"} THEN 0
                           ELSE IF main' \in {"send_init", "init_failed"} THEN 2 ELSE 1
      BY <1>1, <3>1 DEF Still, Moves, Priming, PrimersInv
    <3>. QED  BY <1>1, <3>1, <3>2 DEF Still, PrimersInv
  <2>. QED  BY <2>1, <2>2
<1>2. ASSUME NEW e \in Events, Sends(e) PROVE HandlerInv' /\ PrimersInv'
  <2>1. HandlerInv'
    BY <1>2 DEF Sends, HandlerInv
  <2>2. CASE main' \notin Priming
    BY <2>1, <2>2 DEF PrimersInv
  <2>3. CASE main' \in Priming
    <3>1. main \in Priming /\ e.id = "EOF" /\ e.frame = 0
          /\ \/ main = "prime_eof" /\ main' \in {"prime_pump", "prime_null"}
             \/ main = "prime_null" /\ main' = "send_init"
      BY <1>2, <2>3 DEF Sends, Priming, Running, PrimersInv
    <3>2. /\ Len(queue) \in Nat
          /\ Len(queue') \in {Len(queue), Len(queue) + 1}
          /\ \A j \in 1 .. Len(queue) : queue'[j] = queue[j]
          /\ Len(queue') = Len(queue) + 1 => queue'[Len(queue) + 1] = e
      BY <1>2, EnqueueFacts DEF Sends, IInv, TypeOK
    <3>3. \A j \in 1 .. Len(queue') : queue'[j].id = "EOF" /\ queue'[j].frame = 0
      BY <3>1, <3>2 DEF PrimersInv
    <3>4. Len(queue') <= IF main' = "send_init" THEN 2 ELSE 1
      BY <3>1, <3>2 DEF PrimersInv
    <3>5. UNCHANGED <<ui, event, inits, destroys, advanced, destroySent>>
      BY <1>2, <3>1 DEF Sends
    <3>. QED  BY <2>1, <3>1, <3>3, <3>4, <3>5 DEF PrimersInv
  <2>. QED  BY <2>2, <2>3
<1>3. CASE Dequeue
  <2>1. /\ Len(queue) \in Nat \ {0}
        /\ Len(queue') = Len(queue) - 1
        /\ \A j \in 1 .. Len(queue') : queue'[j] = queue[j + 1]
        /\ event' = queue[1] /\ event' \in Events
    BY <1>3, DequeueFacts DEF Dequeue, IInv, TypeOK
  <2>2. /\ handler = "dequeue"
        /\ handler' = IF event'.id = "EOF" THEN "frame_done" ELSE "dispatch"
        /\ UNCHANGED <<main, destroySent, ui, advanced, inits, destroys>>
    BY <1>3 DEF Dequeue, runtime
  <2>3. HandlerInv'
    BY <2>1, <2>2 DEF HandlerInv, Events, Ids
  <2>4. PrimersInv'
    <3>1. SUFFICES ASSUME main \in Priming PROVE PrimersInv'
      BY <2>2 DEF PrimersInv
    <3>2. event'.id = "EOF" /\ event'.frame = 0
      BY <2>1, <3>1 DEF PrimersInv
    <3>3. \A j \in 1 .. Len(queue') : queue'[j].id = "EOF" /\ queue'[j].frame = 0
      BY <2>1, <3>1 DEF PrimersInv
    <3>. QED  BY <2>1, <2>2, <3>1, <3>2, <3>3 DEF PrimersInv
  <2>. QED  BY <2>3, <2>4
<1>4. CASE Handles
  <2>1. /\ handler = "dispatch" /\ handler' \in {"dequeue", "exited", "failed"}
        /\ event' = NoEvent /\ UNCHANGED main
    BY <1>4 DEF Handles, HandOver, runtime
  <2>2. main \notin Priming
    BY <2>1 DEF HandlerInv, PrimersInv
  <2>. QED  BY <2>1, <2>2 DEF HandlerInv, PrimersInv, Priming
<1>5. CASE FrameDone
  <2>1. /\ handler = "frame_done" /\ handler' \in {"test_running", "succeeded"}
        /\ event' = NoEvent /\ advanced' = <<>>
        /\ UNCHANGED <<queue, main, destroySent, ui, inits, destroys>>
    BY <1>5 DEF FrameDone, AfterFrame, runtime, console
  <2>. QED  BY <2>1 DEF HandlerInv, PrimersInv, NoEvent, Event
<1>6. CASE FreeContext
  BY <1>6 DEF FreeContext, HandlerInv, PrimersInv, Priming, script
<1>. QED  BY <1>1, <1>2, <1>3, <1>4, <1>5, <1>6, StepKinds

-----------------------------------------------------------------------------
(* Events that are sent once *)

\* An event id is in the queue q once, or in ev, the event that the handler
\* holds, or it has been handled, n times, or none of these.
Once(id, q, ev, n) ==
  /\ n \in {0, 1}
  /\ \A j, k \in 1 .. Len(q) : q[j].id = id /\ q[k].id = id => j = k
  /\ (ev.id = id \/ \E j \in 1 .. Len(q) : q[j].id = id) => n = 0
  /\ ev.id = id => \A j \in 1 .. Len(q) : q[j].id # id

Pending(id, q, ev) == ev.id = id \/ \E j \in 1 .. Len(q) : q[j].id = id

\* Sending an event leaves the others where they are.
LEMMA OnceSent ==
  ASSUME NEW id, NEW q, NEW r, NEW ev, NEW n, NEW e, Once(id, q, ev, n),
         Len(q) \in Nat, Len(r) \in {Len(q), Len(q) + 1},
         \A j \in 1 .. Len(q) : r[j] = q[j],
         Len(r) = Len(q) + 1 => r[Len(q) + 1] = e,
         e.id = id => n = 0 /\ ~Pending(id, q, ev)
  PROVE  Once(id, r, ev, n)
<1>1. \A j \in 1 .. Len(r) :
        \/ j \in 1 .. Len(q) /\ r[j] = q[j]
        \/ j = Len(q) + 1 /\ r[j] = e
  OBVIOUS
<1>2. CASE e.id = id
  <2>1. \A j \in 1 .. Len(r) : r[j].id = id => j = Len(q) + 1
    BY <1>1, <1>2 DEF Pending
  <2>. QED  BY <1>2, <2>1 DEF Once, Pending
<1>3. CASE e.id # id
  <2>1. \A j \in 1 .. Len(r) : r[j].id = id => j \in 1 .. Len(q) /\ q[j].id = id
    BY <1>1, <1>3
  <2>. QED  BY <2>1 DEF Once
<1>. QED  BY <1>2, <1>3

\* Taking the event at the head of the queue moves it.
LEMMA OnceTaken ==
  ASSUME NEW id, NEW q, NEW r, NEW ev, NEW n, Once(id, q, ev, n), ev.id # id,
         Len(q) \in Nat \ {0}, Len(r) = Len(q) - 1,
         \A j \in 1 .. Len(r) : r[j] = q[j + 1]
  PROVE  Once(id, r, q[1], n) /\ (Pending(id, q, ev) <=> Pending(id, r, q[1]))
<1>1. \A j \in 1 .. Len(r) : j + 1 \in 1 .. Len(q) /\ j + 1 # 1 /\ r[j] = q[j + 1]
  OBVIOUS
<1>2. \A j \in 1 .. Len(q) : j # 1 => j - 1 \in 1 .. Len(r) /\ r[j - 1] = q[j]
  OBVIOUS
<1>3. 1 \in 1 .. Len(q)
  OBVIOUS
<1>4. \A j, k \in 1 .. Len(r) : r[j].id = id /\ r[k].id = id => j = k
  <2>. SUFFICES ASSUME NEW j \in 1 .. Len(r), NEW k \in 1 .. Len(r), r[j].id = id, r[k].id = id
                PROVE  j = k
    OBVIOUS
  <2>1. j + 1 = k + 1
    BY <1>1 DEF Once
  <2>. QED  BY <2>1
<1>5. (\E j \in 1 .. Len(r) : r[j].id = id) => n = 0 /\ q[1].id # id
  BY <1>1, <1>3 DEF Once
<1>6. q[1].id = id => n = 0
  BY <1>3 DEF Once
<1>7. Pending(id, q, ev) <=> Pending(id, r, q[1])
  BY <1>1, <1>2, <1>3 DEF Pending
<1>. QED  BY <1>4, <1>5, <1>6, <1>7 DEF Once

\* Handling an event counts it.
LEMMA OnceHandled ==
  ASSUME NEW id, NEW q, NEW ev, NEW n, Once(id, q, ev, n), id # "none"
  PROVE  /\ Once(id, q, NoEvent, n + (IF ev.id = id THEN 1 ELSE 0))
         /\ n = 1 => n + (IF ev.id = id THEN 1 ELSE 0) = 1
         /\ ev.id = id => n + (IF ev.id = id THEN 1 ELSE 0) = 1
BY DEF Once, NoEvent, Event

-----------------------------------------------------------------------------
(* Init comes first *)

\* Init is sent once, and what has been sent after it is behind it.
FirstInv ==
  /\ Once("Init", queue, event, inits)
  /\ main \notin Priming \cup {"destroyed"} => inits = 1 \/ Pending("Init", queue, event)
  /\ \A k \in 1 .. Len(queue) : Adv(queue[k]) =>
       inits = 1 \/ event.id = "Init" \/ \E j \in 1 .. k - 1 : queue[j].id = "Init"
  /\ Adv(event) \/ advanced # <<>> => inits = 1

\* The three events of the initialisation fit in the queue.
PrimersFit == QueueCapacity >= 3

LEMMA FirstNext == PrimersFit /\ BaseInv /\ FirstInv /\ [Next]_vars => FirstInv'
<1>. SUFFICES ASSUME PrimersFit, BaseInv, FirstInv, [Next]_vars PROVE FirstInv'
  OBVIOUS
<1>mode. threaded' = threaded
  BY ModeKept
<1>. USE <1>mode
<1>. USE DEF BaseInv
<1>1. CASE Still
  BY <1>1 DEF Still, Moves, FirstInv, Priming
<1>2. ASSUME NEW e \in Events, Sends(e) PROVE FirstInv'
  <2>1. /\ Len(queue) \in Nat
        /\ Len(queue') \in {Len(queue), Len(queue) + 1}
        /\ \A j \in 1 .. Len(queue) : queue'[j] = queue[j]
        /\ Len(queue') = Len(queue) + 1 => queue'[Len(queue) + 1] = e
    BY <1>2, EnqueueFacts DEF Sends, IInv, TypeOK
  <2>2. UNCHANGED <<event, advanced, inits>>
    BY <1>2 DEF Sends
  <2>3. e.id = "Init" =>
          main \in Priming /\ inits = 0 /\ ~Pending("Init", queue, event) /\ Len(queue') = Len(queue) + 1
    <3>1. SUFFICES ASSUME e.id = "Init"
                   PROVE  main \in Priming /\ inits = 0 /\ ~Pending("Init", queue, event)
                          /\ Len(queue') = Len(queue) + 1
      OBVIOUS
    <3>2. main = "send_init" /\ Enqueue(e)
      BY <1>2, <3>1 DEF Sends
    <3>3. Len(queue) <= 2 /\ main \in Priming /\ inits = 0 /\ ~Pending("Init", queue, event)
      BY <3>2 DEF PrimersInv, Priming, Pending
    <3>4. queue' = Append(queue, e)
      BY <2>1, <3>2, <3>3, BoundAssumption DEF Enqueue, PrimersFit
    <3>. QED  BY <3>3, <3>4, <1>2, AppendProperties DEF IInv, TypeOK
  <2>4. Once("Init", queue', event', inits')
    BY <2>1, <2>2, <2>3, OnceSent DEF FirstInv
  <2>5. main' \notin Priming \cup {"destroyed"} => inits' = 1 \/ Pending("Init", queue', event')
    <3>1. CASE main \in Priming /\ main' \notin Priming
      <4>1. e.id = "Init"
        BY <1>2, <3>1 DEF Sends, Priming, Running, PrimersInv
      <4>2. Len(queue) + 1 \in 1 .. Len(queue') /\ queue'[Len(queue) + 1].id = "Init"
        BY <2>1, <2>3, <4>1
      <4>. QED  BY <4>2 DEF Pending
    <3>2. CASE main \notin Priming
      <4>1. main' # "destroyed" => main # "destroyed"
        BY <1>2 DEF Sends
      <4>2. Pending("Init", queue, event) => Pending("Init", queue', event')
        BY <2>1, <2>2 DEF Pending
      <4>. QED  BY <2>2, <3>2, <4>1, <4>2 DEF FirstInv
    <3>. QED  BY <3>1, <3>2
  <2>6. \A k \in 1 .. Len(queue') : Adv(queue'[k]) =>
          inits' = 1 \/ event'.id = "Init" \/ \E j \in 1 .. k - 1 : queue'[j].id = "Init"
    <3>. SUFFICES ASSUME NEW k \in 1 .. Len(queue'), Adv(queue'[k])
                  PROVE  inits = 1 \/ event.id = "Init" \/ \E j \in 1 .. k - 1 : queue'[j].id = "Init"
      BY <2>2
    <3>1. CASE k \in 1 .. Len(queue)
      <4>1. inits = 1 \/ event.id = "Init" \/ \E j \in 1 .. k - 1 : queue[j].id = "Init"
        BY <2>1, <3>1 DEF FirstInv
      <4>. QED  BY <2>1, <3>1, <4>1
    <3>2. CASE k = Len(queue) + 1
      <4>1. main = "tick"
        BY <1>2, <2>1, <3>2 DEF Sends, Adv
      <4>2. inits = 1 \/ Pending("Init", queue, event)
        BY <4>1 DEF FirstInv, Priming
      <4>. QED  BY <2>1, <3>2, <4>2 DEF Pending
    <3>. QED  BY <2>1, <3>1, <3>2
  <2>. QED  BY <2>2, <2>4, <2>5, <2>6 DEF FirstInv
<1>3. CASE Dequeue
  <2>1. /\ Len(queue) \in Nat \ {0}
        /\ Len(queue') = Len(queue) - 1
        /\ \A j \in 1 .. Len(queue') : queue'[j] = queue[j + 1]
        /\ event' = queue[1]
    BY <1>3, DequeueFacts DEF Dequeue, IInv, TypeOK
  <2>2. event = NoEvent /\ UNCHANGED <<main, advanced, inits>>
    BY <1>3 DEF Dequeue, HandlerInv, runtime
  <2>3. event.id = "none"
    BY <2>2 DEF NoEvent, Event
  <2>4. /\ Once("Init", queue', event', inits')
        /\ Pending("Init", queue, event) <=> Pending("Init", queue', event')
    BY <2>1, <2>2, <2>3, OnceTaken DEF FirstInv
  <2>5. \A k \in 1 .. Len(queue') : Adv(queue'[k]) =>
          inits' = 1 \/ event'.id = "Init" \/ \E j \in 1 .. k - 1 : queue'[j].id = "Init"
    <3>. SUFFICES ASSUME NEW k \in 1 .. Len(queue'), Adv(queue[k + 1]), inits # 1,
                         queue[1].id # "Init"
                  PROVE  \E j \in 1 .. k - 1 : queue'[j].id = "Init"
      BY <2>1, <2>2
    <3>1. PICK j \in 1 .. (k + 1) - 1 : queue[j].id = "Init"
      <4>1. k + 1 \in 1 .. Len(queue)
        BY <2>1
      <4>. QED  BY <2>3, <4>1 DEF FirstInv
    <3>2. j - 1 \in 1 .. k - 1 /\ queue'[j - 1] = queue[j]
      BY <2>1, <3>1
    <3>. QED  BY <3>1, <3>2
  <2>6. Adv(event') => inits = 1
    BY <2>1, <2>3 DEF FirstInv
  <2>. QED  BY <2>2, <2>4, <2>5, <2>6 DEF FirstInv
<1>4. CASE Handles
  <2>1. /\ event' = NoEvent /\ UNCHANGED <<queue, main>>
        /\ inits' = inits + (IF event.id = "Init" THEN 1 ELSE 0)
        /\ advanced' = IF Adv(event) THEN Append(advanced, event.frame) ELSE advanced
    BY <1>4 DEF Handles, HandOver, Adv, runtime
  <2>2. /\ Once("Init", queue, NoEvent, inits')
        /\ inits = 1 => inits' = 1
        /\ event.id = "Init" => inits' = 1
    <3>1. Once("Init", queue, event, inits) /\ "Init" # "none"
      BY DEF FirstInv
    <3>. QED  BY <2>1, <3>1, OnceHandled
  <2>3. main' \notin Priming \cup {"destroyed"} => inits' = 1 \/ Pending("Init", queue', event')
    BY <2>1, <2>2 DEF FirstInv, Pending
  <2>4. \A k \in 1 .. Len(queue') : Adv(queue'[k]) =>
          inits' = 1 \/ \E j \in 1 .. k - 1 : queue'[j].id = "Init"
    BY <2>1, <2>2 DEF FirstInv
  <2>5. Adv(event') \/ advanced' # <<>> => inits' = 1
    BY <2>1, <2>2 DEF FirstInv, Adv, NoEvent, Event
  <2>. QED  BY <2>1, <2>2, <2>3, <2>4, <2>5 DEF FirstInv
<1>5. CASE FrameDone
  <2>1. /\ handler = "frame_done" /\ event' = NoEvent /\ advanced' = <<>>
        /\ UNCHANGED <<queue, main, inits>>
    BY <1>5 DEF FrameDone, runtime
  <2>2. event.id = "EOF"
    BY <2>1 DEF IInv, TurnInv
  <2>3. event'.id = "none"
    BY <2>1 DEF NoEvent, Event
  <2>. QED  BY <2>1, <2>2, <2>3 DEF FirstInv, Once, Pending, Adv
<1>6. CASE FreeContext
  <2>1. queue' = <<>> /\ Len(queue') = 0 /\ main' = "destroyed" /\ UNCHANGED <<event, advanced, inits>>
    BY <1>6 DEF FreeContext, script
  <2>. QED  BY <2>1 DEF FirstInv, Once
<1>. QED  BY <1>1, <1>2, <1>3, <1>4, <1>5, <1>6, StepKinds

-----------------------------------------------------------------------------
(* The queue has room *)

Unused == {s \in 1 .. MaxStrings : strings[s] = "unused"}
Typing == {u \in UI : ui[u]}

\* Events that may yet be sent at any time: the console's, and Destroy.
ToCome == Cardinality(Unused) + Cardinality(Typing) + (IF destroySent THEN 0 ELSE 1)

\* What of the iteration itself has been sent.
Sent == IF main = "tick" THEN ticks ELSE IF main \in {"reset", "eof"} THEN MaxTicks + 1 ELSE 0

\* What can lie behind a turn: the console's events, Destroy, and the three of
\* the initialisation.
Behind == MaxStrings + 4

\* Only events that may be sent at any time are sent behind a turn, so that the
\* queue never holds more than those and one iteration's.
RoomInv ==
  /\ IsFiniteSet(Typing) /\ ToCome <= MaxStrings + 1
  /\ main \in {"pump", "pumping", "wait"} => ticks = 0
  /\ main \in Running =>
     /\ \A p \in 1 .. Len(queue) : Turn(queue[p]) => Len(queue) - p + ToCome <= Behind
     /\ ~Queued => Len(queue) + ToCome <= Behind + Sent
     /\ Len(queue) + ToCome <= Behind + MaxTicks + 2

\* A threaded script is waited for (kl_initialize's wait_on_fence).
InStep == TRUE \in Threads => WaitOnFence

LEMMA Waited == ASSUME InStep, IInv PROVE threaded \in BOOLEAN /\ (threaded => WaitOnFence)
BY ModeAssumption DEF InStep, IInv, TypeOK

\* The queue holds an iteration and what may be sent at any time.
QueueHasRoom == QueueCapacity >= MaxStrings + MaxTicks + 6

LEMMA ToComeType ==
  ASSUME TypeOK, IsFiniteSet(Typing)
  PROVE  /\ IsFiniteSet(Unused)
         /\ Cardinality(Unused) \in Nat /\ Cardinality(Typing) \in Nat /\ ToCome \in Nat
<1>1. IsFiniteSet(1 .. MaxStrings) /\ Unused \in SUBSET (1 .. MaxStrings)
  BY FS_Interval, BoundAssumption DEF Unused
<1>2. IsFiniteSet(Unused)
  BY <1>1, FS_Subset
<1>3. Cardinality(Unused) \in Nat /\ Cardinality(Typing) \in Nat
  BY <1>2, FS_CardinalityType
<1>. QED  BY <1>2, <1>3 DEF ToCome

\* Nothing is added to what is to come, and a console event or Destroy that is
\* sent is taken off.
LEMMA ToComeShrinks ==
  ASSUME IInv, HandlerInv, IsFiniteSet(Typing), [Next]_vars
  PROVE  /\ IsFiniteSet(Typing')
         /\ ToCome' \in Nat /\ ToCome' <= ToCome
         /\ \A e \in Events :
              Sends(e) /\ e.id \in {"Destroy", "ConsoleInput"} => ToCome' + 1 <= ToCome
<1>mode. threaded' = threaded
  BY ModeKept
<1>. USE <1>mode
<1>. USE DEF IInv
<1>. DEFINE Rest == IF destroySent THEN 0 ELSE 1
<1>1. /\ IsFiniteSet(Unused)
      /\ Cardinality(Unused) \in Nat /\ Cardinality(Typing) \in Nat /\ ToCome \in Nat
  BY ToComeType
<1>2. CASE UNCHANGED <<strings, ui>>
  <2>1. Unused' = Unused /\ Typing' = Typing
    BY <1>2 DEF Unused, Typing
  <2>2. Cardinality(Unused)' = Cardinality(Unused) /\ Cardinality(Typing)' = Cardinality(Typing)
    BY <2>1
  <2>3. \A e \in Events : Sends(e) => e.id # "ConsoleInput"
    <3>. SUFFICES ASSUME NEW e \in Events, Sends(e), e.id = "ConsoleInput" PROVE FALSE
      OBVIOUS
    <3>1. PICK u \in UI : ui[u] /\ ui' = [ui EXCEPT ![u] = FALSE]
      BY DEF Sends
    <3>. QED  BY <1>2, <3>1 DEF TypeOK
  <2>4. \A e \in Events : Sends(e) /\ e.id = "Destroy" => ~destroySent /\ destroySent'
    BY DEF Sends
  <2>5. destroySent => destroySent'
    BY StepKinds DEF Still, Sends, Dequeue, Handles, HandOver, FrameDone, FreeContext, runtime
  <2>. QED  BY <1>1, <2>1, <2>2, <2>3, <2>4, <2>5 DEF ToCome
<1>3. CASE Still /\ Copies
  <2>1. PICK u \in UI, s \in 1 .. MaxStrings :
          /\ ~ui[u] /\ ui' = [ui EXCEPT ![u] = TRUE]
          /\ strings[s] = "unused" /\ strings' = [strings EXCEPT ![s] = "live"]
    BY <1>3 DEF Copies
  <2>2. Unused' = Unused \ {s} /\ s \in Unused
    BY <2>1 DEF Unused, TypeOK
  <2>3. Typing' = Typing \cup {u} /\ u \notin Typing
    BY <2>1 DEF Typing, TypeOK
  <2>4. Cardinality(Unused') = Cardinality(Unused) - 1
    BY <1>1, <2>2, FS_RemoveElement
  <2>5. IsFiniteSet(Typing') /\ Cardinality(Typing') = Cardinality(Typing) + 1
    BY <2>3, FS_AddElement
  <2>6. UNCHANGED <<destroySent, queue>>
    BY <1>3 DEF Still
  <2>7. ToCome' = ToCome
    BY <1>1, <2>4, <2>5, <2>6 DEF ToCome
  <2>8. \A e \in Events : ~Sends(e)
    <3>. SUFFICES ASSUME NEW e \in Events, Sends(e) PROVE FALSE
      OBVIOUS
    <3>1. ui' = ui \/ \E v \in UI : ui[v] /\ ui' = [ui EXCEPT ![v] = FALSE]
      BY DEF Sends
    <3>2. ui'[u] /\ ~ui[u]
      BY <2>1 DEF TypeOK
    <3>. QED  BY <3>1, <3>2 DEF TypeOK
  <2>. QED  BY <1>1, <2>5, <2>7, <2>8
<1>4. ASSUME NEW e \in Events, Sends(e), e.id = "ConsoleInput"
      PROVE  /\ IsFiniteSet(Typing')
             /\ ToCome' \in Nat /\ ToCome' + 1 <= ToCome
  <2>1. PICK u \in UI : ui[u] /\ ui' = [ui EXCEPT ![u] = FALSE]
    BY <1>4 DEF Sends
  <2>2. Unused' = Unused /\ destroySent' = destroySent
    BY <1>4 DEF Sends, Unused
  <2>3. Typing' = Typing \ {u} /\ u \in Typing
    BY <2>1 DEF Typing, TypeOK
  <2>4. IsFiniteSet(Typing') /\ Cardinality(Typing') = Cardinality(Typing) - 1
    BY <2>3, FS_RemoveElement
  <2>5. Cardinality(Typing') \in Nat
    BY <2>4, FS_CardinalityType
  <2>. QED  BY <1>1, <2>2, <2>4, <2>5 DEF ToCome
<1>5. CASE Dequeue
  <2>1. Unused' \in SUBSET Unused
    <3>1. strings' = strings \/ strings' = [strings EXCEPT ![event'.string] = "freed"]
      BY <1>5 DEF Dequeue
    <3>. QED  BY <3>1 DEF Unused, TypeOK
  <2>2. IsFiniteSet(Unused') /\ Cardinality(Unused') <= Cardinality(Unused)
    BY <1>1, <2>1, FS_Subset
  <2>3. Cardinality(Unused') \in Nat
    BY <2>2, FS_CardinalityType
  <2>4. Typing' = Typing /\ destroySent' = destroySent
    BY <1>5 DEF Dequeue, Typing, runtime
  <2>5. \A e \in Events : ~Sends(e)
    BY <1>5 DEF Sends, Dequeue
  <2>. QED  BY <1>1, <2>2, <2>3, <2>4, <2>5 DEF ToCome
<1>6. \/ UNCHANGED <<strings, ui>> \/ Dequeue
      \/ Still /\ Copies
      \/ \E e \in Events : Sends(e) /\ e.id = "ConsoleInput"
  BY StepKinds DEF Still, Sends, Handles, HandOver, FrameDone, FreeContext, console
<1>. QED  BY <1>1, <1>2, <1>3, <1>4, <1>5, <1>6

LEMMA RoomInit == Init => RoomInv
<1>. SUFFICES ASSUME Init PROVE RoomInv
  OBVIOUS
<1>1. Unused = 1 .. MaxStrings /\ Typing = {} /\ main \notin Running /\ main = "run"
  BY DEF Init, Unused, Typing, Running
<1>2. Cardinality(Unused) = MaxStrings /\ Cardinality(Typing) = 0 /\ IsFiniteSet(Typing)
  BY <1>1, FS_Interval, FS_EmptySet, BoundAssumption
<1>. QED  BY <1>1, <1>2, BoundAssumption DEF RoomInv, ToCome, Init

\* Only the EOF that ends an iteration, or a primer, is a turn.
LEMMA TurnIsEOF ==
  ASSUME IInv
  PROVE  /\ \A e \in Events : ~e.fence /\ e.id # "EOF" => ~Turn(e)
         /\ \A j \in 1 .. Len(queue) : Turn(queue[j]) => queue[j].id = "EOF"
         /\ Turn(event) => event.id = "EOF"
BY DEF Turn, IInv, FenceInv

LEMMA RoomNext ==
  ASSUME InStep, QueueHasRoom, BaseInv, RoomInv, [Next]_vars
  PROVE  RoomInv'
<1>waited. threaded \in BOOLEAN /\ (threaded => WaitOnFence)
  BY Waited DEF BaseInv
<1>. USE <1>waited
<1>mode. threaded' = threaded
  BY ModeKept
<1>. USE <1>mode
<1>. USE DEF BaseInv
<1>1. /\ IsFiniteSet(Typing')
      /\ ToCome \in Nat /\ ToCome' \in Nat /\ ToCome' <= ToCome
      /\ \A e \in Events :
           Sends(e) /\ e.id \in {"Destroy", "ConsoleInput"} => ToCome' + 1 <= ToCome
  BY ToComeShrinks, ToComeType DEF IInv, RoomInv
<1>2. MaxStrings \in Nat /\ MaxTicks \in Nat /\ ticks \in 0 .. MaxTicks /\ Len(queue) \in Nat
  BY BoundAssumption, LenProperties DEF IInv, TypeOK
<1>3. ToCome' <= MaxStrings + 1
  BY <1>1, <1>2 DEF RoomInv
<1>4. CASE Still
  <2>1. queue' = queue /\ (Queued' <=> Queued)
    BY <1>4 DEF Still, Queued, Turn
  <2>2. main' \in {"pump", "pumping", "wait"} => ticks' = 0
    BY <1>4 DEF Still, Moves, RoomInv
  <2>3. main' \in Running => main \in Running /\ Sent' \in Nat /\ Sent <= Sent'
    <3>1. main' \in Running => main \in Running
      BY <1>4 DEF Still, Moves, Running
    <3>2. main' = main => UNCHANGED ticks \/ main' # "tick"
      BY <1>4 DEF Still, Moves
    <3>3. main = "tick" => main' = "tick"
      BY <1>4 DEF Still, Moves
    <3>4. main \in {"reset", "eof"} => main' \in {"reset", "eof"}
      BY <1>4 DEF Still, Moves
    <3>5. main' = "tick" => ticks' \in 0 .. MaxTicks
      BY <1>2, <1>4, BoundAssumption DEF Still, Moves
    <3>. QED  BY <1>2, <3>1, <3>2, <3>3, <3>4, <3>5 DEF Sent
  <2>4. Sent \in Nat
    BY <1>2 DEF Sent
  <2>5. ASSUME main' \in Running
        PROVE  /\ \A p \in 1 .. Len(queue') : Turn(queue'[p]) => Len(queue') - p + ToCome' <= Behind
               /\ ~Queued' => Len(queue') + ToCome' <= Behind + Sent'
               /\ Len(queue') + ToCome' <= Behind + MaxTicks + 2
    <3>1. Behind \in Nat
      BY <1>2 DEF Behind
    <3>. QED  BY <1>1, <1>2, <2>1, <2>3, <2>4, <2>5, <3>1 DEF RoomInv
  <2>. QED  BY <1>1, <1>3, <2>2, <2>5 DEF RoomInv, Turn, Behind
<1>5. ASSUME NEW e \in Events, Sends(e) PROVE RoomInv'
  <2>1. /\ Len(queue') \in {Len(queue), Len(queue) + 1}
        /\ \A j \in 1 .. Len(queue) : queue'[j] = queue[j]
        /\ Len(queue') = Len(queue) + 1 => queue'[Len(queue) + 1] = e
    BY <1>5, EnqueueFacts DEF Sends, IInv, TypeOK
  <2>2. main' \in {"pump", "pumping", "wait"} => ticks' = 0
    BY <1>5 DEF Sends, RoomInv
  <2>3. \A p \in 1 .. Len(queue') :
          \/ p \in 1 .. Len(queue) /\ queue'[p] = queue[p]
          \/ p = Len(queue) + 1 /\ queue'[p] = e
    BY <1>2, <2>1
  <2>4. CASE e.id = "Init"
    <3>1. Len(queue) <= 2 /\ main' = "rest"
      BY <1>5, <2>4 DEF Sends, PrimersInv, Priming, Running
    <3>2. Len(queue') <= 3 /\ Len(queue') \in Nat /\ Sent' = 0
      BY <1>2, <2>1, <3>1 DEF Sent
    <3>. QED  BY <1>1, <1>2, <1>3, <2>2, <3>2 DEF RoomInv, Behind
  <2>5. CASE e.id \in {"Destroy", "ConsoleInput"}
    <3>1. ToCome' + 1 <= ToCome /\ main' = main /\ Sent' = Sent /\ Sent \in Nat
      <4>1. ToCome' + 1 <= ToCome
        BY <1>1, <1>5, <2>5
      <4>2. UNCHANGED <<main, ticks>>
        BY <1>5, <2>5 DEF Sends
      <4>. QED  BY <1>2, <4>1, <4>2 DEF Sent
    <3>2. ~Turn(e)
      BY <1>5, <2>5, TurnIsEOF DEF Sends
    <3>3. \A p \in 1 .. Len(queue') : Turn(queue'[p]) => p \in 1 .. Len(queue) /\ Turn(queue[p])
      BY <2>3, <3>2
    <3>4. Queued => Queued'
      BY <1>2, <2>1 DEF Queued, Turn
    <3>5. Len(queue') + ToCome' <= Len(queue) + ToCome
      BY <1>1, <1>2, <2>1, <3>1
    <3>6. \A p \in 1 .. Len(queue') : Turn(queue'[p]) => Len(queue') - p + ToCome' <= Len(queue) - p + ToCome
      BY <1>1, <1>2, <2>1, <3>5
    <3>7. main \in Running =>
            \A p \in 1 .. Len(queue') : Turn(queue'[p]) => Len(queue') - p + ToCome' <= Behind
      <4>. SUFFICES ASSUME main \in Running, NEW p \in 1 .. Len(queue'), Turn(queue'[p])
                    PROVE  Len(queue') - p + ToCome' <= Behind
        OBVIOUS
      <4>1. Len(queue) - p + ToCome <= Behind
        BY <3>3 DEF RoomInv
      <4>. QED  BY <1>1, <1>2, <2>1, <3>6, <4>1 DEF Behind
    <3>8. main \in Running /\ ~Queued' => Len(queue') + ToCome' <= Behind + Sent'
      BY <1>1, <1>2, <2>1, <3>1, <3>4, <3>5 DEF RoomInv, Behind
    <3>9. main \in Running => Len(queue') + ToCome' <= Behind + MaxTicks + 2
      BY <1>1, <1>2, <2>1, <3>5 DEF RoomInv, Behind
    <3>. QED  BY <1>1, <1>3, <2>2, <3>1, <3>7, <3>8, <3>9 DEF RoomInv, Turn, Behind
  <2>6. CASE e.id \in {"Tick", "AdvanceTime"}
    <3>1. /\ main = "tick" /\ main' \in {"tick", "reset"}
          /\ main' = "tick" => ticks' = ticks + 1 /\ ticks < MaxTicks
      BY <1>5, <2>6 DEF Sends
    <3>2. ~Queued /\ ~Turn(e)
      BY <1>5, <2>6, <3>1, TurnIsEOF DEF Sends, IInv, TurnInv
    <3>3. \A p \in 1 .. Len(queue') : ~Turn(queue'[p])
      BY <2>3, <3>2 DEF Queued
    <3>4. Len(queue) + ToCome <= Behind + ticks
      BY <3>1, <3>2 DEF RoomInv, Running, Sent
    <3>5. Sent' \in Nat /\ ticks + 1 <= Sent' /\ Sent' <= MaxTicks + 1
      BY <1>2, <3>1 DEF Sent
    <3>6. Len(queue') + ToCome' <= Behind + Sent'
      BY <1>1, <1>2, <2>1, <3>4, <3>5 DEF Behind
    <3>7. Len(queue') + ToCome' <= Behind + MaxTicks + 2
      BY <1>1, <1>2, <2>1, <3>5, <3>6 DEF Behind
    <3>. QED  BY <1>1, <1>3, <2>2, <3>3, <3>6, <3>7 DEF RoomInv, Turn, Behind
  <2>7. CASE e.id = "EOF" /\ main = "eof"
    <3>1. main' = "rest" /\ e.fence = WaitOnFence /\ Enqueue(e)
      BY <1>5, <2>7 DEF Sends
    <3>2. Turn(e) /\ ~Queued
      BY <2>7, <3>1, ModeAssumption DEF Turn, InStep, IInv, TurnInv
    <3>3. Len(queue) + ToCome <= Behind + MaxTicks + 1
      BY <1>1, <1>2, <2>7, <3>2 DEF RoomInv, Running, Sent, Behind
    <3>4. Len(queue) < QueueCapacity
      BY <1>1, <1>2, <3>3, BoundAssumption DEF QueueHasRoom, Behind
    <3>5. Len(queue') = Len(queue) + 1
      <4>1. queue' = Append(queue, e)
        BY <3>1, <3>4 DEF Enqueue
      <4>. QED  BY <4>1, AppendProperties DEF IInv, TypeOK
    <3>6. Queued'
      <4>1. Len(queue) + 1 \in 1 .. Len(queue') /\ Turn(queue'[Len(queue) + 1])
        BY <1>2, <2>1, <3>2, <3>5
      <4>. QED  BY <4>1 DEF Queued, Turn
    <3>7. \A p \in 1 .. Len(queue') : Turn(queue'[p]) => p = Len(queue) + 1
      BY <2>3, <3>2 DEF Queued
    <3>8. Len(queue') + ToCome' <= Behind + MaxTicks + 2
      BY <1>1, <1>2, <3>3, <3>5 DEF Behind
    <3>9. \A p \in 1 .. Len(queue') : Turn(queue'[p]) => Len(queue') - p + ToCome' <= Behind
      BY <1>1, <1>2, <1>3, <3>5, <3>7 DEF Behind
    <3>. QED  BY <1>1, <1>3, <2>2, <3>1, <3>6, <3>8, <3>9 DEF RoomInv, Turn, Behind
  <2>8. CASE e.id = "EOF" /\ main # "eof"
    <3>1. main' \notin Running
      BY <1>5, <2>8 DEF Sends, Running
    <3>. QED  BY <1>1, <1>3, <2>2, <3>1 DEF RoomInv
  <2>. QED  BY <1>5, <2>4, <2>5, <2>6, <2>7, <2>8 DEF Sends
<1>6. CASE Dequeue
  <2>1. /\ Len(queue) \in Nat \ {0}
        /\ Len(queue') = Len(queue) - 1
        /\ \A j \in 1 .. Len(queue') : queue'[j] = queue[j + 1]
    BY <1>6, DequeueFacts DEF Dequeue, IInv, TypeOK
  <2>2. UNCHANGED <<main, ticks>>
    BY <1>6 DEF Dequeue, runtime
  <2>3. \A p \in 1 .. Len(queue') : Turn(queue'[p]) => p + 1 \in 1 .. Len(queue) /\ Turn(queue[p + 1])
    BY <2>1
  <2>4. Sent' = Sent /\ Sent \in Nat
    BY <1>2, <2>2 DEF Sent
  <2>5. ASSUME main \in Running, NEW p \in 1 .. Len(queue'), Turn(queue'[p])
        PROVE  Len(queue') - p + ToCome' <= Behind
    <3>1. Len(queue) - (p + 1) + ToCome <= Behind
      BY <2>3, <2>5 DEF RoomInv
    <3>. QED  BY <1>1, <1>2, <2>1, <3>1 DEF Behind
  <2>6. ASSUME main \in Running, ~Queued'
        PROVE  Len(queue') + ToCome' <= Behind + Sent'
    <3>1. CASE Queued
      <4>1. PICK p \in 1 .. Len(queue) : Turn(queue[p])
        BY <3>1 DEF Queued
      <4>2. p = 1
        <5>. SUFFICES ASSUME p # 1 PROVE FALSE
          OBVIOUS
        <5>1. p - 1 \in 1 .. Len(queue') /\ queue'[p - 1] = queue[p]
          BY <2>1
        <5>. QED  BY <2>6, <4>1, <5>1 DEF Queued, Turn
      <4>3. Len(queue) - 1 + ToCome <= Behind
        BY <2>6, <4>1, <4>2 DEF RoomInv
      <4>. QED  BY <1>1, <1>2, <2>1, <2>4, <4>3 DEF Behind
    <3>2. CASE ~Queued
      <4>1. Len(queue) + ToCome <= Behind + Sent
        BY <2>6, <3>2 DEF RoomInv
      <4>. QED  BY <1>1, <1>2, <2>1, <2>4, <4>1 DEF Behind
    <3>. QED  BY <3>1, <3>2
  <2>7. main \in Running => Len(queue') + ToCome' <= Behind + MaxTicks + 2
    BY <1>1, <1>2, <2>1 DEF RoomInv, Behind
  <2>. QED  BY <1>1, <1>3, <2>2, <2>5, <2>6, <2>7 DEF RoomInv, Turn, Behind
<1>7. CASE Handles \/ FrameDone
  <2>1. UNCHANGED <<queue, main, ticks>>
    BY <1>7 DEF Handles, HandOver, FrameDone, runtime
  <2>2. Sent' = Sent /\ Sent \in Nat /\ (Queued' <=> Queued)
    BY <1>2, <2>1 DEF Sent, Queued, Turn
  <2>. QED  BY <1>1, <1>2, <1>3, <2>1, <2>2 DEF RoomInv, Turn, Behind
<1>8. CASE FreeContext
  BY <1>1, <1>3, <1>8 DEF FreeContext, RoomInv, Running
<1>. QED  BY <1>4, <1>5, <1>6, <1>7, <1>8, StepKinds

\* While iterations run the queue refuses nothing.
LEMMA SendsFit ==
  ASSUME InStep, QueueHasRoom, BaseInv, RoomInv, NEW e \in Events, Sends(e),
         main \in Running, e.id # "Init"
  PROVE  Len(queue') = Len(queue) + 1
<1>waited. threaded \in BOOLEAN /\ (threaded => WaitOnFence)
  BY Waited DEF BaseInv
<1>. USE <1>waited
<1>. USE DEF BaseInv
<1>1. MaxStrings \in Nat /\ MaxTicks \in Nat /\ ticks \in 0 .. MaxTicks /\ Len(queue) \in Nat
      /\ QueueCapacity \in Nat
  BY BoundAssumption, LenProperties DEF IInv, TypeOK
<1>2. ToCome \in Nat
  BY ToComeType DEF IInv, RoomInv
<1>3. CASE e.id \in {"Destroy", "ConsoleInput"}
  <2>1. ToCome >= 1
    <3>1. Cardinality(Typing) \in Nat /\ Cardinality(Unused) \in Nat /\ IsFiniteSet(Typing)
      BY ToComeType DEF IInv, RoomInv
    <3>2. e.id = "Destroy" => ~destroySent
      BY <1>3 DEF Sends
    <3>3. e.id = "ConsoleInput" => Typing # {}
      BY <1>3 DEF Sends, Typing
    <3>4. e.id = "ConsoleInput" => Cardinality(Typing) # 0
      BY <3>1, <3>3, FS_EmptySet
    <3>. QED  BY <1>3, <3>1, <3>2, <3>4 DEF ToCome
  <2>2. Len(queue) < QueueCapacity
    BY <1>1, <1>2, <2>1 DEF RoomInv, Behind, QueueHasRoom
  <2>. QED  BY <2>2, AppendProperties DEF Sends, Enqueue, IInv, TypeOK
<1>4. CASE e.id \notin {"Destroy", "ConsoleInput"}
  <2>1. main \in {"tick", "eof"}
    BY <1>4 DEF Sends, Running
  <2>2. ~Queued
    BY <2>1 DEF IInv, TurnInv
  <2>3. Len(queue) < QueueCapacity
    BY <1>1, <1>2, <2>1, <2>2 DEF RoomInv, Running, Behind, Sent, QueueHasRoom
  <2>. QED  BY <2>3, AppendProperties DEF Sends, Enqueue, IInv, TypeOK
<1>. QED  BY <1>3, <1>4

-----------------------------------------------------------------------------
(* Frames stay whole *)

\* No AdvanceTime is on its way: none in the queue q, held as ev or handled in
\* this frame, adv.
Clear(q, ev, adv) == adv = <<>> /\ ~Adv(ev) /\ \A j \in 1 .. Len(q) : ~Adv(q[j])

\* The AdvanceTime of iteration f is ahead of place p.
Before(f, p, q, ev, adv) ==
  \/ adv = <<f>>
  \/ Adv(ev) /\ ev.frame = f
  \/ \E j \in 1 .. p - 1 : Adv(q[j]) /\ q[j].frame = f

\* An AdvanceTime is on its way only together with the EOF of its iteration,
\* which is behind it, and there is one such pair at most.
FramesInv ==
  /\ \A j, k \in 1 .. Len(queue) : Adv(queue[j]) /\ Adv(queue[k]) => j = k
  /\ \A j \in 1 .. Len(queue) : Adv(queue[j]) => advanced = <<>> /\ ~Adv(event)
  /\ Adv(event) => advanced = <<>>
  /\ \A p \in 1 .. Len(queue) : Ends(queue[p]) =>
       Turn(queue[p]) /\ Before(queue[p].frame, p, queue, event, advanced)
  /\ Ends(event) => Turn(event) /\ advanced = <<event.frame>>
  /\ event.id = "EOF" /\ ~Ends(event) => advanced = <<>>
  /\ main \in {"reset", "eof"} => Before(frame, Len(queue) + 1, queue, event, advanced)
  /\ \/ Clear(queue, event, advanced)
     \/ main \in {"reset", "eof", "destroyed"} \/ Ends(event)
     \/ \E p \in 1 .. Len(queue) : Ends(queue[p])
  /\ \A p \in 1 .. Len(queue) : queue[p].id = "EOF" /\ queue[p].frame = 0 =>
       \/ Ends(event) \/ \E q \in 1 .. p - 1 : Ends(queue[q])
       \/ advanced = <<>> /\ ~Adv(event) /\ \A j \in 1 .. p - 1 : ~Adv(queue[j])

\* The handler is busy with an EOF when it holds one, and then no turn is
\* queued if that EOF is one.
LEMMA EndTaken ==
  ASSUME BaseInv, FramesInv, Ends(event)
  PROVE  handler = "frame_done" /\ Taken /\ ~Queued
<1>1. handler = "frame_done"
  BY DEF BaseInv, HandlerInv, Ends, NoEvent, Event
<1>2. Taken
  BY <1>1 DEF FramesInv, Taken
<1>. QED  BY <1>1, <1>2 DEF BaseInv, IInv, TurnInv, Abandoned

\* While an iteration simulates, no AdvanceTime is on its way.
LEMMA ClearAtTick ==
  ASSUME BaseInv, FramesInv, main \in Priming \cup {"tick"}
  PROVE  Clear(queue, event, advanced)
<1>1. CASE main = "tick"
  <2>1. ~Queued /\ ~Taken
    BY <1>1 DEF BaseInv, IInv, TurnInv
  <2>2. ~Ends(event)
    BY <2>1, EndTaken
  <2>3. \A p \in 1 .. Len(queue) : ~Ends(queue[p])
    BY <2>1 DEF FramesInv, Queued
  <2>. QED  BY <1>1, <2>2, <2>3 DEF FramesInv
<1>2. CASE main \in Priming
  BY <1>2 DEF BaseInv, PrimersInv, Clear, Adv
<1>. QED  BY <1>1, <1>2

\* An event that is neither an AdvanceTime nor an EOF changes nothing, and
\* neither does the end of an empty frame when nothing is on its way.
LEMMA FramesSent ==
  ASSUME InStep, QueueHasRoom, BaseInv, RoomInv, FramesInv, NEW e \in Events, Sends(e)
  PROVE  FramesInv'
<1>waited. threaded \in BOOLEAN /\ (threaded => WaitOnFence)
  BY Waited DEF BaseInv
<1>. USE <1>waited
<1>. USE DEF BaseInv
<1>1. /\ Len(queue) \in Nat
      /\ Len(queue') \in {Len(queue), Len(queue) + 1}
      /\ \A j \in 1 .. Len(queue) : queue'[j] = queue[j]
      /\ Len(queue') = Len(queue) + 1 => queue'[Len(queue) + 1] = e
  BY EnqueueFacts DEF Sends, IInv, TypeOK
<1>2. UNCHANGED <<event, advanced, frame, threaded>>
  BY DEF Sends
<1>3. \A p \in 1 .. Len(queue') :
        \/ p \in 1 .. Len(queue) /\ queue'[p] = queue[p]
        \/ p = Len(queue) + 1 /\ queue'[p] = e
  BY <1>1
<1>4. \A f : \A p \in 1 .. Len(queue) + 1 :
        Before(f, p, queue, event, advanced) => Before(f, p, queue', event', advanced')
  BY <1>1, <1>2 DEF Before
<1>5. CASE ~Adv(e) /\ ~Ends(e)
  <2>1. e.id # "EOF" =>
          main' = main \/ (main \in Priming \cup {"tick"} /\ main' \notin {"reset", "eof"})
    BY <1>5 DEF Sends, Adv, Priming
  <2>2. e.id = "EOF" => e.frame = 0 /\ main # "eof"
    <3>1. main = "eof" => frame \in Nat /\ frame > 0
      BY DEF IInv, TypeOK, CountInv, Running
    <3>. QED  BY <1>5, <3>1 DEF Ends, Sends, Events
  <2>3. main' \in {"reset", "eof"} => main' = main
    BY <2>1, <2>2 DEF Sends
  <2>4. \/ Clear(queue, event, advanced)
        \/ main' \in {"reset", "eof", "destroyed"} \/ Ends(event)
        \/ \E p \in 1 .. Len(queue) : Ends(queue[p])
    <3>1. CASE main \in Priming \cup {"tick"}
      BY <3>1, ClearAtTick
    <3>2. CASE main \notin Priming \cup {"tick"}
      BY <2>1, <2>2, <3>2 DEF FramesInv, Sends, Priming
    <3>. QED  BY <3>1, <3>2
  <2>5. Clear(queue, event, advanced) => Clear(queue', event', advanced')
    BY <1>2, <1>3, <1>5 DEF Clear
  <2>6. \A j \in 1 .. Len(queue') : Adv(queue'[j]) => j \in 1 .. Len(queue) /\ Adv(queue[j])
    BY <1>3, <1>5
  <2>7. \A p \in 1 .. Len(queue') : Ends(queue'[p]) =>
          Turn(queue'[p]) /\ Before(queue'[p].frame, p, queue', event', advanced')
    BY <1>1, <1>3, <1>4, <1>5 DEF FramesInv
  <2>8. main' \in {"reset", "eof"} => Before(frame', Len(queue') + 1, queue', event', advanced')
    <3>1. main' \in {"reset", "eof"} => Before(frame, Len(queue) + 1, queue', event', advanced')
      BY <1>1, <1>4, <2>3 DEF FramesInv
    <3>. QED  BY <1>1, <1>2, <3>1 DEF Before
  <2>9. ASSUME NEW p \in 1 .. Len(queue'), queue'[p].id = "EOF", queue'[p].frame = 0
        PROVE  \/ Ends(event') \/ \E q \in 1 .. p - 1 : Ends(queue'[q])
               \/ advanced' = <<>> /\ ~Adv(event') /\ \A j \in 1 .. p - 1 : ~Adv(queue'[j])
    <3>1. CASE p \in 1 .. Len(queue)
      <4>1. \/ Ends(event) \/ \E q \in 1 .. p - 1 : Ends(queue[q])
            \/ advanced = <<>> /\ ~Adv(event) /\ \A j \in 1 .. p - 1 : ~Adv(queue[j])
        BY <1>1, <2>9, <3>1 DEF FramesInv
      <4>2. \A q \in 1 .. p - 1 : queue'[q] = queue[q]
        BY <1>1, <3>1
      <4>. QED  BY <1>2, <4>1, <4>2
    <3>2. CASE p = Len(queue) + 1
      <4>1. main' \notin {"reset", "eof", "destroyed"}
        BY <1>3, <2>9, <3>2 DEF Sends
      <4>2. Clear(queue, event, advanced) \/ Ends(event) \/ \E q \in 1 .. Len(queue) : Ends(queue[q])
        BY <2>4, <4>1
      <4>. QED  BY <1>1, <1>2, <3>2, <4>2 DEF Clear
    <3>. QED  BY <1>3, <3>1, <3>2
  <2>10. \/ Clear(queue', event', advanced')
         \/ main' \in {"reset", "eof", "destroyed"} \/ Ends(event')
         \/ \E p \in 1 .. Len(queue') : Ends(queue'[p])
    BY <1>1, <1>2, <2>4, <2>5
  <2>. QED  BY <1>2, <1>3, <2>6, <2>7, <2>8, <2>9, <2>10 DEF FramesInv, Turn
<1>6. CASE Adv(e)
  <2>1. main = "tick" /\ main' = "reset" /\ e.frame = frame /\ e.id = "AdvanceTime"
    BY <1>6 DEF Adv, Sends
  <2>2. Len(queue') = Len(queue) + 1 /\ queue'[Len(queue) + 1] = e
    BY <1>1, <2>1, SendsFit DEF Running
  <2>3. Clear(queue, event, advanced)
    BY <2>1, ClearAtTick
  <2>4. ~Ends(event) /\ \A p \in 1 .. Len(queue) : ~Ends(queue[p])
    BY <2>1, EndTaken DEF FramesInv, Queued, IInv, TurnInv
  <2>5. \A p \in 1 .. Len(queue') : Adv(queue'[p]) <=> p = Len(queue) + 1
    BY <1>1, <1>3, <1>6, <2>2, <2>3 DEF Clear
  <2>6. \A p \in 1 .. Len(queue') : ~Ends(queue'[p])
    BY <1>3, <2>1, <2>4 DEF Ends
  <2>7. Before(frame', Len(queue') + 1, queue', event', advanced')
    BY <1>1, <1>2, <1>6, <2>1, <2>2 DEF Before
  <2>8. \A p \in 1 .. Len(queue') : \A j \in 1 .. p - 1 : ~Adv(queue'[j])
    BY <1>1, <2>2, <2>5
  <2>9. advanced' = <<>> /\ ~Adv(event')
    BY <1>2, <2>3 DEF Clear
  <2>10. UNCHANGED Ends(event)
    BY <1>2 DEF Ends
  <2>. QED  BY <1>2, <2>1, <2>4, <2>5, <2>6, <2>7, <2>8, <2>9, <2>10 DEF FramesInv
<1>7. CASE Ends(e)
  <2>1. main = "eof" /\ main' = "rest" /\ e.frame = frame /\ e.fence = WaitOnFence
    BY <1>7 DEF Ends, Sends, Events
  <2>2. Len(queue') = Len(queue) + 1 /\ queue'[Len(queue) + 1] = e
    BY <1>1, <1>7, <2>1, SendsFit DEF Running, Ends
  <2>3. Turn(e)
    BY <1>7, <2>1 DEF Turn, InStep, Ends
  <2>4. ~Adv(e)
    BY <1>7 DEF Ends, Adv
  <2>5. \A j \in 1 .. Len(queue') : Adv(queue'[j]) => j \in 1 .. Len(queue) /\ Adv(queue[j])
    BY <1>3, <2>4
  <2>6. \A p \in 1 .. Len(queue') : Ends(queue'[p]) =>
          Turn(queue'[p]) /\ Before(queue'[p].frame, p, queue', event', advanced')
    <3>. SUFFICES ASSUME NEW p \in 1 .. Len(queue'), Ends(queue'[p])
                  PROVE  Turn(queue'[p]) /\ Before(queue'[p].frame, p, queue', event', advanced')
      OBVIOUS
    <3>1. CASE p \in 1 .. Len(queue)
      BY <1>1, <1>4, <3>1 DEF FramesInv
    <3>2. CASE p = Len(queue) + 1
      BY <1>4, <2>1, <2>2, <2>3, <3>2, <1>1 DEF FramesInv
    <3>. QED  BY <1>3, <3>1, <3>2
  <2>7. \E p \in 1 .. Len(queue') : Ends(queue'[p])
    BY <1>1, <1>7, <2>2
  <2>8. ASSUME NEW p \in 1 .. Len(queue'), queue'[p].id = "EOF", queue'[p].frame = 0
        PROVE  \/ Ends(event') \/ \E q \in 1 .. p - 1 : Ends(queue'[q])
               \/ advanced' = <<>> /\ ~Adv(event') /\ \A j \in 1 .. p - 1 : ~Adv(queue'[j])
    <3>1. p \in 1 .. Len(queue) /\ queue'[p] = queue[p]
      BY <1>3, <1>7, <2>8 DEF Ends, Events
    <3>2. \/ Ends(event) \/ \E q \in 1 .. p - 1 : Ends(queue[q])
          \/ advanced = <<>> /\ ~Adv(event) /\ \A j \in 1 .. p - 1 : ~Adv(queue[j])
      BY <2>8, <3>1 DEF FramesInv
    <3>3. \A q \in 1 .. p - 1 : queue'[q] = queue[q]
      BY <1>1, <3>1
    <3>. QED  BY <1>2, <3>2, <3>3
  <2>. QED  BY <1>2, <1>3, <2>1, <2>5, <2>6, <2>7, <2>8 DEF FramesInv, Turn
<1>. QED  BY <1>5, <1>6, <1>7

LEMMA FramesNext ==
  ASSUME InStep, QueueHasRoom, BaseInv, RoomInv, FramesInv, [Next]_vars
  PROVE  FramesInv'
<1>waited. threaded \in BOOLEAN /\ (threaded => WaitOnFence)
  BY Waited DEF BaseInv
<1>. USE <1>waited
<1>mode. threaded' = threaded
  BY ModeKept
<1>. USE <1>mode
<1>. USE DEF BaseInv
<1>1. CASE Still
  <2>1. UNCHANGED <<queue, event, advanced>>
    BY <1>1 DEF Still
  <2>2. main' \in {"reset", "eof"} => main \in {"reset", "eof"} /\ UNCHANGED frame
    BY <1>1 DEF Still, Moves
  <2>3. main \in {"reset", "eof", "destroyed"} => main' \in {"reset", "eof", "destroyed"}
    BY <1>1 DEF Still, Moves
  <2>. QED  BY <2>1, <2>2, <2>3 DEF FramesInv, Turn
<1>2. ASSUME NEW e \in Events, Sends(e) PROVE FramesInv'
  BY <1>2, FramesSent
<1>3. CASE Dequeue
  <2>1. /\ Len(queue) \in Nat \ {0}
        /\ Len(queue') = Len(queue) - 1
        /\ \A j \in 1 .. Len(queue') : queue'[j] = queue[j + 1]
        /\ event' = queue[1] /\ event' \in Events
    BY <1>3, DequeueFacts DEF Dequeue, IInv, TypeOK
  <2>2. event = NoEvent /\ UNCHANGED <<main, frame, advanced>>
    BY <1>3 DEF Dequeue, HandlerInv, runtime
  <2>3. ~Adv(event) /\ ~Ends(event) /\ event.id # "EOF"
    BY <2>2 DEF Adv, Ends, NoEvent, Event
  <2>4. \A j \in 1 .. Len(queue') : j + 1 \in 1 .. Len(queue) /\ j + 1 # 1
    BY <2>1
  <2>5. \A j \in 1 .. Len(queue) : j # 1 => j - 1 \in 1 .. Len(queue') /\ queue'[j - 1] = queue[j]
    BY <2>1
  <2>6. 1 \in 1 .. Len(queue)
    BY <2>1
  <2>7. \A f : \A p \in 1 .. Len(queue') + 1 :
          Before(f, p + 1, queue, event, advanced) => Before(f, p, queue', event', advanced')
    <3>. SUFFICES ASSUME NEW f, NEW p \in 1 .. Len(queue') + 1,
                         NEW j \in 1 .. (p + 1) - 1, Adv(queue[j]), queue[j].frame = f
                  PROVE  Before(f, p, queue', event', advanced')
      BY <2>2, <2>3 DEF Before
    <3>1. CASE j = 1
      BY <2>1, <3>1 DEF Before
    <3>2. CASE j # 1
      <4>1. j - 1 \in 1 .. p - 1 /\ j \in 1 .. Len(queue)
        BY <2>1, <3>2
      <4>. QED  BY <2>5, <3>2, <4>1 DEF Before
    <3>. QED  BY <3>1, <3>2
  <2>8. \A j, k \in 1 .. Len(queue') : Adv(queue'[j]) /\ Adv(queue'[k]) => j = k
    <3>. SUFFICES ASSUME NEW j \in 1 .. Len(queue'), NEW k \in 1 .. Len(queue'),
                         Adv(queue[j + 1]), Adv(queue[k + 1])
                  PROVE  j = k
      BY <2>1
    <3>1. j + 1 = k + 1
      BY <2>4 DEF FramesInv
    <3>. QED  BY <3>1
  <2>9. \A j \in 1 .. Len(queue') : Adv(queue'[j]) => advanced' = <<>> /\ ~Adv(event')
    BY <2>1, <2>2, <2>4, <2>6 DEF FramesInv
  <2>10. Adv(event') => advanced' = <<>>
    BY <2>1, <2>2, <2>6 DEF FramesInv
  <2>11. \A p \in 1 .. Len(queue') : Ends(queue'[p]) =>
           Turn(queue'[p]) /\ Before(queue'[p].frame, p, queue', event', advanced')
    BY <2>1, <2>4, <2>7 DEF FramesInv
  <2>12. Ends(event') => Turn(event') /\ advanced' = <<event'.frame>>
    <3>. SUFFICES ASSUME Ends(queue[1])
                  PROVE  Turn(queue[1]) /\ advanced = <<queue[1].frame>>
      BY <2>1, <2>2
    <3>1. Turn(queue[1]) /\ Before(queue[1].frame, 1, queue, event, advanced)
      BY <2>6 DEF FramesInv
    <3>. QED  BY <2>3, <3>1 DEF Before
  <2>13. event'.id = "EOF" /\ ~Ends(event') => advanced' = <<>>
    <3>. SUFFICES ASSUME queue[1].id = "EOF", ~Ends(queue[1]) PROVE advanced = <<>>
      BY <2>1, <2>2
    <3>1. queue[1].frame = 0
      BY <2>1, BoundAssumption DEF Ends, Events
    <3>. QED  BY <2>3, <2>6, <3>1 DEF FramesInv
  <2>14. main' \in {"reset", "eof"} => Before(frame', Len(queue') + 1, queue', event', advanced')
    <3>1. Len(queue') + 1 \in 1 .. Len(queue') + 1 /\ (Len(queue') + 1) + 1 = Len(queue) + 1
      BY <2>1
    <3>. QED  BY <2>2, <2>7, <3>1 DEF FramesInv
  <2>15. \/ Clear(queue', event', advanced')
         \/ main' \in {"reset", "eof", "destroyed"} \/ Ends(event')
         \/ \E p \in 1 .. Len(queue') : Ends(queue'[p])
    <3>1. CASE Clear(queue, event, advanced)
      BY <2>1, <2>2, <2>4, <2>6, <3>1 DEF Clear
    <3>2. ASSUME NEW p \in 1 .. Len(queue), Ends(queue[p])
          PROVE  Ends(event') \/ \E k \in 1 .. Len(queue') : Ends(queue'[k])
      BY <2>1, <2>5, <3>2
    <3>. QED  BY <2>2, <2>3, <3>1, <3>2 DEF FramesInv
  <2>16. ASSUME NEW p \in 1 .. Len(queue'), queue'[p].id = "EOF", queue'[p].frame = 0
         PROVE  \/ Ends(event') \/ \E q \in 1 .. p - 1 : Ends(queue'[q])
                \/ advanced' = <<>> /\ ~Adv(event') /\ \A j \in 1 .. p - 1 : ~Adv(queue'[j])
    <3>1. \/ \E q \in 1 .. (p + 1) - 1 : Ends(queue[q])
          \/ advanced = <<>> /\ \A j \in 1 .. (p + 1) - 1 : ~Adv(queue[j])
      BY <2>1, <2>3, <2>4, <2>16 DEF FramesInv
    <3>2. CASE \E q \in 1 .. (p + 1) - 1 : Ends(queue[q])
      <4>1. PICK q \in 1 .. (p + 1) - 1 : Ends(queue[q])
        BY <3>2
      <4>2. q # 1 => q - 1 \in 1 .. p - 1 /\ queue'[q - 1] = queue[q]
        BY <2>1
      <4>. QED  BY <2>1, <4>1, <4>2
    <3>3. CASE advanced = <<>> /\ \A j \in 1 .. (p + 1) - 1 : ~Adv(queue[j])
      <4>1. \A j \in 1 .. p - 1 : j + 1 \in 1 .. (p + 1) - 1 /\ queue'[j] = queue[j + 1]
        BY <2>1
      <4>2. 1 \in 1 .. (p + 1) - 1
        OBVIOUS
      <4>. QED  BY <2>1, <2>2, <3>3, <4>1, <4>2
    <3>. QED  BY <3>1, <3>2, <3>3
  <2>. QED  BY <2>8, <2>9, <2>10, <2>11, <2>12, <2>13, <2>14, <2>15, <2>16 DEF FramesInv, Turn
<1>4. CASE Handles
  <2>1. /\ handler = "dispatch" /\ event' = NoEvent /\ UNCHANGED <<queue, main, frame>>
        /\ advanced' = IF Adv(event) THEN Append(advanced, event.frame) ELSE advanced
    BY <1>4 DEF Handles, HandOver, Adv, runtime
  <2>2. ~Ends(event) /\ event.id # "EOF"
    BY <2>1 DEF HandlerInv, Ends
  <2>3. ~Adv(event') /\ ~Ends(event') /\ event'.id # "EOF"
    BY <2>1 DEF Adv, Ends, NoEvent, Event
  <2>4. Adv(event) => advanced' = <<event.frame>>
    BY <2>1 DEF FramesInv
  <2>5. \A f : \A p \in 1 .. Len(queue) + 1 :
          Before(f, p, queue, event, advanced) => Before(f, p, queue', event', advanced')
    BY <2>1, <2>4 DEF Before, FramesInv
  <2>6. Len(queue) \in Nat
    BY LenProperties DEF IInv, TypeOK
  <2>7. \A j \in 1 .. Len(queue) : Adv(queue[j]) => advanced' = <<>>
    BY <2>1 DEF FramesInv
  <2>8. \A p \in 1 .. Len(queue) : Ends(queue[p]) =>
          Turn(queue[p]) /\ Before(queue[p].frame, p, queue', event', advanced')
    BY <2>5, <2>6 DEF FramesInv
  <2>9. main' \in {"reset", "eof"} => Before(frame', Len(queue') + 1, queue', event', advanced')
    BY <2>1, <2>5, <2>6 DEF FramesInv
  <2>10. \/ Clear(queue', event', advanced')
         \/ main' \in {"reset", "eof", "destroyed"}
         \/ \E p \in 1 .. Len(queue') : Ends(queue'[p])
    BY <2>1, <2>2, <2>3 DEF FramesInv, Clear
  <2>11. \A p \in 1 .. Len(queue) : queue[p].id = "EOF" /\ queue[p].frame = 0 =>
           \/ \E q \in 1 .. p - 1 : Ends(queue[q])
           \/ advanced' = <<>> /\ \A j \in 1 .. p - 1 : ~Adv(queue[j])
    BY <2>1, <2>2 DEF FramesInv
  <2>. QED  BY <2>1, <2>3, <2>7, <2>8, <2>9, <2>10, <2>11 DEF FramesInv, Turn
<1>5. CASE FrameDone
  <2>1. /\ handler = "frame_done" /\ event' = NoEvent /\ advanced' = <<>>
        /\ UNCHANGED <<queue, main, frame>>
    BY <1>5 DEF FrameDone, runtime
  <2>2. ~Adv(event') /\ ~Ends(event') /\ event'.id # "EOF"
    BY <2>1 DEF Adv, Ends, NoEvent, Event
  <2>3. event.id = "EOF" /\ ~Adv(event)
    BY <2>1 DEF IInv, TurnInv, Adv
  <2>4. CASE Ends(event)
    <3>1. ~Queued /\ Taken
      BY <2>4, EndTaken
    <3>2. \A j \in 1 .. Len(queue) : ~Adv(queue[j]) /\ ~Ends(queue[j])
      <4>1. advanced = <<event.frame>>
        BY <2>4 DEF FramesInv
      <4>2. advanced # <<>>
        BY <4>1
      <4>. QED  BY <3>1, <4>2 DEF FramesInv, Queued
    <3>3. main \notin {"reset", "eof"}
      BY <3>1 DEF IInv, TurnInv
    <3>4. \A p \in 1 .. Len(queue) : \A j \in 1 .. p - 1 : ~Adv(queue[j])
      BY <3>2, LenProperties DEF IInv, TypeOK
    <3>5. Clear(queue', event', advanced')
      BY <2>1, <2>2, <3>2 DEF Clear
    <3>. QED  BY <2>1, <2>2, <3>2, <3>3, <3>4, <3>5 DEF FramesInv
  <2>5. CASE ~Ends(event)
    <3>1. advanced = <<>>
      BY <2>3, <2>5 DEF FramesInv
    <3>2. \A f, p : Before(f, p, queue, event, advanced) => Before(f, p, queue', event', advanced')
      BY <2>1, <2>3, <3>1 DEF Before
    <3>3. Clear(queue, event, advanced) => Clear(queue', event', advanced')
      BY <2>1, <2>2 DEF Clear
    <3>. QED  BY <2>1, <2>2, <2>3, <2>5, <3>1, <3>2, <3>3 DEF FramesInv, Turn
  <2>. QED  BY <2>4, <2>5
<1>6. CASE FreeContext
  <2>1. queue' = <<>> /\ Len(queue') = 0 /\ main' = "destroyed" /\ UNCHANGED <<event, advanced>>
    BY <1>6 DEF FreeContext, script
  <2>. QED  BY <2>1 DEF FramesInv, Turn
<1>. QED  BY <1>1, <1>2, <1>3, <1>4, <1>5, <1>6, StepKinds

-----------------------------------------------------------------------------
(* Destroy is handled *)

\* What is outstanding of Destroy has a turn behind it.
EndFollows ==
  /\ Pending("Destroy", queue, event) => Queued
  /\ \A d \in 1 .. Len(queue) : queue[d].id = "Destroy" =>
       \E p \in d .. Len(queue) : Turn(queue[p])

\* Destroy is sent at any point of an iteration; the end of that iteration is
\* behind it, and the one after it has taken it up, if no error ends its pump.
DestroyInv ==
  /\ Once("Destroy", queue, event, destroys)
  /\ ~destroySent => destroys = 0 /\ ~Pending("Destroy", queue, event) /\ grace = 0
  /\ destroySent /\ main # "destroyed" => destroys = 1 \/ Pending("Destroy", queue, event)
  /\ main = "rest" /\ grace >= 1 => EndFollows
  /\ main \in {"pump", "pumping", "wait"} /\ grace >= 2 => EndFollows
  /\ main \in {"pump", "pumping", "wait"} /\ grace >= 3 => ~Pending("Destroy", queue, event)
  /\ main \in {"tick", "reset", "eof", "rest"} /\ grace >= 2 => ~Pending("Destroy", queue, event)
  /\ main \in Closing /\ grace >= 2 => destroys = 1

LEMMA DestroyInit == Init => DestroyInv
<1>. SUFFICES ASSUME Init PROVE DestroyInv
  OBVIOUS
<1>1. Len(queue) = 0 /\ ~Pending("Destroy", queue, event)
  BY DEF Init, Pending, NoEvent, Event
<1>. QED  BY <1>1 DEF Init, DestroyInv, Once, Pending, NoEvent, Event, Closing

\* Where Destroy is outstanding and a turn behind it, that stays so when
\* anything else is sent.
LEMMA EndStaysBehind ==
  ASSUME BaseInv, NEW e \in Events, Sends(e), EndFollows, e.id # "Destroy"
  PROVE  EndFollows'
<1>1. /\ Len(queue) \in Nat
      /\ Len(queue') \in {Len(queue), Len(queue) + 1}
      /\ \A j \in 1 .. Len(queue) : queue'[j] = queue[j]
      /\ Len(queue') = Len(queue) + 1 => queue'[Len(queue) + 1] = e
  BY EnqueueFacts DEF BaseInv, Sends, IInv, TypeOK
<1>2. event' = event /\ threaded' = threaded
  BY DEF Sends
<1>3. \A d \in 1 .. Len(queue') : queue'[d].id = "Destroy" => d \in 1 .. Len(queue) /\ queue[d].id = "Destroy"
  BY <1>1
<1>4. Queued => Queued'
  BY <1>1, <1>2 DEF Queued, Turn
<1>5. Pending("Destroy", queue', event') => Queued'
  BY <1>2, <1>3, <1>4 DEF EndFollows, Pending
<1>6. ASSUME NEW d \in 1 .. Len(queue'), queue'[d].id = "Destroy"
      PROVE  \E p \in d .. Len(queue') : Turn(queue'[p])
  <2>1. PICK p \in d .. Len(queue) : Turn(queue[p])
    BY <1>3, <1>6 DEF EndFollows
  <2>2. p \in d .. Len(queue') /\ queue'[p] = queue[p]
    BY <1>1, <2>1
  <2>. QED  BY <2>1, <2>2
<1>. QED  BY <1>2, <1>5, <1>6 DEF EndFollows, Turn

LEMMA DestroyNext ==
  ASSUME InStep, QueueHasRoom, BaseInv, RoomInv, DestroyInv, [Next]_vars
  PROVE  DestroyInv'
<1>waited. threaded \in BOOLEAN /\ (threaded => WaitOnFence)
  BY Waited DEF BaseInv
<1>. USE <1>waited
<1>mode. threaded' = threaded
  BY ModeKept
<1>. USE <1>mode
<1>. USE DEF BaseInv
<1>1. grace \in Nat
  BY BoundAssumption DEF IInv, TypeOK
<1>2. CASE Still
  <2>1. UNCHANGED <<queue, event, destroys, destroySent>>
    BY <1>2 DEF Still
  <2>2. EndFollows' <=> EndFollows
    BY <2>1 DEF EndFollows, Queued, Turn
  <2>3. ~destroySent' => grace' = 0
    BY <1>2 DEF Still, Moves, DestroyInv
  <2>4. Pending("Destroy", queue', event') <=> Pending("Destroy", queue, event)
    BY <2>1
  <2>5. main' = "destroyed" => main = "destroyed"
    BY <1>2 DEF Still, Moves
  <2>6. CASE UNCHANGED <<main, grace>>
    BY <2>1, <2>2, <2>6 DEF DestroyInv
  <2>7. CASE main = "rest" /\ main' \in {"pump", "wait", "tick"} /\ grace' \in {grace, grace + 1}
             /\ (main' = "tick" => threaded /\ ~WaitOnFence)
    <3>1. main' # "tick"
      BY <2>7
    <3>2. /\ grace' >= 2 => EndFollows'
          /\ grace' >= 3 => ~Pending("Destroy", queue', event')
      BY <1>1, <2>2, <2>4, <2>7 DEF DestroyInv
    <3>. QED  BY <2>1, <2>3, <2>7, <3>1, <3>2 DEF DestroyInv, Closing
  <2>8. CASE UNCHANGED grace /\ main' = "tick" /\ main \in {"pumping", "wait"}
    <3>1. ~Queued
      <4>1. CASE main = "wait"
        <5>1. threaded /\ processed
          BY <1>2, <2>8, <4>1 DEF Still, Moves, IInv, ModeInv
        <5>. QED  BY <5>1 DEF IInv, FenceInv, Queued, Turn
      <4>2. CASE main = "pumping"
        <5>1. handler = "succeeded"
          BY <1>2, <2>8, <4>2 DEF Still, Moves
        <5>. QED  BY <5>1 DEF IInv, TurnInv
      <4>. QED  BY <2>8, <4>1, <4>2
    <3>2. grace' >= 2 => ~Pending("Destroy", queue', event')
      BY <2>4, <2>8, <3>1 DEF DestroyInv, EndFollows
    <3>. QED  BY <2>1, <2>3, <2>8, <3>2 DEF DestroyInv, Closing
  <2>9. CASE /\ grace' = IF grace > 0 THEN grace - 1 ELSE grace
             /\ main = "pumping" /\ main' = "rest"
    <3>1. /\ grace' >= 1 => grace >= 2
          /\ grace' >= 2 => grace >= 3
      BY <1>1, <2>9
    <3>2. /\ grace' >= 1 => EndFollows'
          /\ grace' >= 2 => ~Pending("Destroy", queue', event')
      BY <2>2, <2>4, <2>9, <3>1 DEF DestroyInv
    <3>. QED  BY <2>1, <2>3, <2>9, <3>2 DEF DestroyInv, Closing
  <2>10. CASE UNCHANGED grace /\ main = "rest" /\ main' \in {"stop", "free"}
    <3>1. grace >= 2 => destroys = 1
      BY <1>1, <2>10 DEF DestroyInv
    <3>. QED  BY <2>1, <2>3, <2>10, <3>1 DEF DestroyInv
  <2>11. CASE /\ UNCHANGED grace
              /\ \/ main = "pump" /\ main' = "pumping"
                 \/ main = "reset" /\ main' = "eof"
                 \/ main = "stop" /\ main' = "stop_eof"
                 \/ main = "join" /\ main' = "free"
                 \/ main \in Priming /\ main' \in Priming
    <3>1. /\ Once("Destroy", queue', event', destroys')
          /\ ~destroySent' => destroys' = 0 /\ ~Pending("Destroy", queue', event') /\ grace' = 0
          /\ destroySent' /\ main' # "destroyed" => destroys' = 1 \/ Pending("Destroy", queue', event')
      BY <2>1, <2>3, <2>4, <2>5, <2>11 DEF DestroyInv, Priming
    <3>2. main' = "pumping" =>
            /\ grace' >= 2 => EndFollows'
            /\ grace' >= 3 => ~Pending("Destroy", queue', event')
      BY <2>2, <2>4, <2>11 DEF DestroyInv, Priming
    <3>3. main' = "eof" /\ grace' >= 2 => ~Pending("Destroy", queue', event')
      BY <2>4, <2>11 DEF DestroyInv, Priming
    <3>4. main' \in Closing => main \in Closing
      BY <2>11 DEF Closing, Priming
    <3>5. main' \in {"pumping", "eof", "stop_eof", "free"} \cup Priming
      BY <2>11
    <3>. QED  BY <2>1, <2>11, <3>1, <3>2, <3>3, <3>4, <3>5 DEF DestroyInv, Priming
  <2>. QED
    <3>1. \/ UNCHANGED <<main, grace>>
          \/ main = "rest" /\ main' \in {"pump", "wait", "tick"} /\ grace' \in {grace, grace + 1}
             /\ (main' = "tick" => threaded /\ ~WaitOnFence)
          \/ UNCHANGED grace /\ main' = "tick" /\ main \in {"pumping", "wait"}
          \/ /\ grace' = IF grace > 0 THEN grace - 1 ELSE grace
             /\ main = "pumping" /\ main' = "rest"
          \/ UNCHANGED grace /\ main = "rest" /\ main' \in {"stop", "free"}
          \/ /\ UNCHANGED grace
             /\ \/ main = "pump" /\ main' = "pumping"
                \/ main = "reset" /\ main' = "eof"
                \/ main = "stop" /\ main' = "stop_eof"
                \/ main = "join" /\ main' = "free"
                \/ main \in Priming /\ main' \in Priming
      BY <1>2 DEF Still, Moves, Priming
    <3>. QED  BY <2>6, <2>7, <2>8, <2>9, <2>10, <2>11, <3>1
<1>3. ASSUME NEW e \in Events, Sends(e) PROVE DestroyInv'
  <2>1. /\ Len(queue) \in Nat
        /\ Len(queue') \in {Len(queue), Len(queue) + 1}
        /\ \A j \in 1 .. Len(queue) : queue'[j] = queue[j]
        /\ Len(queue') = Len(queue) + 1 => queue'[Len(queue) + 1] = e
    BY <1>3, EnqueueFacts DEF Sends, IInv, TypeOK
  <2>3. UNCHANGED <<event, destroys, grace, handler>>
    BY <1>3 DEF Sends
  <2>4. CASE e.id = "Destroy"
    <3>1. /\ ~destroySent /\ destroySent' /\ main' = main /\ main \in Running
      BY <1>3, <2>4 DEF Sends
    <3>2. grace = 0 /\ destroys = 0 /\ ~Pending("Destroy", queue, event)
      BY <3>1 DEF DestroyInv
    <3>3. Once("Destroy", queue', event', destroys')
      BY <2>1, <2>3, <3>2, OnceSent DEF DestroyInv
    <3>4. Pending("Destroy", queue', event')
      <4>1. Len(queue) + 1 \in 1 .. Len(queue') /\ queue'[Len(queue) + 1].id = "Destroy"
        BY <1>3, <2>1, <2>4, <3>1, SendsFit
      <4>. QED  BY <4>1 DEF Pending
    <3>. QED  BY <2>3, <3>1, <3>2, <3>3, <3>4 DEF DestroyInv, Closing, Running
  <2>5. CASE e.id # "Destroy"
    <3>1. destroySent' = destroySent
      BY <1>3, <2>5 DEF Sends
    <3>2. Once("Destroy", queue', event', destroys')
      BY <2>1, <2>3, <2>5, OnceSent DEF DestroyInv
    <3>3. Pending("Destroy", queue', event') <=> Pending("Destroy", queue, event)
      BY <2>1, <2>3, <2>5 DEF Pending
    <3>4. EndFollows => EndFollows'
      BY <1>3, <2>5, EndStaysBehind
    <3>5. CASE main' = main
      BY <2>3, <3>1, <3>2, <3>3, <3>4, <3>5 DEF DestroyInv
    <3>6. CASE main = "eof" /\ main' = "rest"
      <4>1. e.id = "EOF" /\ e.fence = WaitOnFence
        BY <1>3, <3>6 DEF Sends, Running
      <4>2. Turn(e)
        BY <4>1 DEF Turn, InStep
      <4>3. Len(queue') = Len(queue) + 1 /\ queue'[Len(queue) + 1] = e
        BY <1>3, <2>1, <3>6, <4>1, SendsFit DEF Running
      <4>4. Len(queue) + 1 \in 1 .. Len(queue')
            /\ \A d \in 1 .. Len(queue') : Len(queue) + 1 \in d .. Len(queue')
        BY <2>1, <4>3
      <4>5. EndFollows'
        BY <4>2, <4>3, <4>4 DEF EndFollows, Queued, Turn
      <4>. QED  BY <2>3, <3>1, <3>2, <3>3, <3>6, <4>5 DEF DestroyInv, Closing
    <3>7. CASE main = "tick" /\ main' = "reset"
      BY <2>3, <3>1, <3>2, <3>3, <3>7 DEF DestroyInv, Closing
    <3>8. CASE main \in Priming
      <4>1. ~destroySent /\ main' \notin Closing
        BY <1>3, <3>8 DEF Sends, PrimersInv, Priming, Closing, Running
      <4>2. grace' = 0
        BY <2>3, <4>1 DEF DestroyInv
      <4>. QED  BY <2>3, <3>1, <3>2, <3>3, <4>1, <4>2 DEF DestroyInv
    <3>9. CASE main = "stop_eof" /\ main' = "join"
      BY <2>3, <3>1, <3>2, <3>3, <3>9 DEF DestroyInv, Closing
    <3>. QED  BY <1>3, <2>5, <3>5, <3>6, <3>7, <3>8, <3>9 DEF Sends, Priming
  <2>. QED  BY <2>4, <2>5
<1>4. CASE Dequeue
  <2>1. /\ Len(queue) \in Nat \ {0}
        /\ Len(queue') = Len(queue) - 1
        /\ \A j \in 1 .. Len(queue') : queue'[j] = queue[j + 1]
        /\ event' = queue[1]
    BY <1>4, DequeueFacts DEF Dequeue, IInv, TypeOK
  <2>2. /\ event = NoEvent /\ handler' # "failed"
        /\ UNCHANGED <<main, grace, destroySent, destroys>>
    BY <1>4 DEF Dequeue, HandlerInv, runtime
  <2>3. event.id = "none"
    BY <2>2 DEF NoEvent, Event
  <2>4. /\ Once("Destroy", queue', event', destroys')
        /\ Pending("Destroy", queue, event) <=> Pending("Destroy", queue', event')
    BY <2>1, <2>2, <2>3, OnceTaken DEF DestroyInv
  <2>5. \A p \in 1 .. Len(queue) : p # 1 => p - 1 \in 1 .. Len(queue') /\ queue'[p - 1] = queue[p]
    BY <2>1
  <2>6. EndFollows => EndFollows'
    <3>. SUFFICES ASSUME EndFollows PROVE EndFollows'
      OBVIOUS
    <3>1. ASSUME NEW d \in 1 .. Len(queue), queue[d].id = "Destroy" PROVE Queued'
      <4>1. PICK p \in d .. Len(queue) : Turn(queue[p])
        BY <3>1 DEF EndFollows
      <4>2. queue[p].id = "EOF" /\ p \in 1 .. Len(queue)
        BY <2>1, <3>1, <4>1, TurnIsEOF
      <4>3. p # 1
        BY <2>1, <3>1, <4>1, <4>2
      <4>. QED  BY <2>5, <4>1, <4>2, <4>3 DEF Queued, Turn
    <3>2. Pending("Destroy", queue', event') => Queued'
      BY <2>3, <2>4, <3>1 DEF Pending
    <3>3. ASSUME NEW d \in 1 .. Len(queue'), queue'[d].id = "Destroy"
          PROVE  \E p \in d .. Len(queue') : Turn(queue'[p])
      <4>1. d + 1 \in 1 .. Len(queue) /\ queue[d + 1].id = "Destroy"
        BY <2>1, <3>3
      <4>2. PICK p \in d + 1 .. Len(queue) : Turn(queue[p])
        BY <4>1 DEF EndFollows
      <4>3. p - 1 \in d .. Len(queue') /\ queue'[p - 1] = queue[p]
        BY <2>1, <4>2
      <4>. QED  BY <4>2, <4>3
    <3>. QED  BY <3>2, <3>3 DEF EndFollows, Turn
  <2>. QED  BY <2>2, <2>4, <2>6 DEF DestroyInv
<1>5. CASE Handles
  <2>1. /\ event' = NoEvent /\ UNCHANGED <<queue, main, grace, destroySent>>
        /\ destroys' = destroys + (IF event.id = "Destroy" THEN 1 ELSE 0)
        /\ handler' = "failed" => ScriptMayFail
    BY <1>5 DEF Handles, HandOver, runtime
  <2>2. /\ Once("Destroy", queue, NoEvent, destroys')
        /\ destroys = 1 => destroys' = 1
        /\ event.id = "Destroy" => destroys' = 1
    <3>1. Once("Destroy", queue, event, destroys) /\ "Destroy" # "none"
      BY DEF DestroyInv
    <3>. QED  BY <2>1, <3>1, OnceHandled
  <2>3. NoEvent.id # "Destroy"
    BY DEF NoEvent, Event
  <2>4. Pending("Destroy", queue', event') => Pending("Destroy", queue, event)
    BY <2>1, <2>3 DEF Pending
  <2>5. Pending("Destroy", queue, event) => Pending("Destroy", queue', event') \/ destroys' = 1
    BY <2>1, <2>2 DEF Pending
  <2>6. EndFollows => EndFollows'
    BY <2>1, <2>4 DEF EndFollows, Queued, Turn
  <2>7. ~destroySent => destroys' = 0
    BY <2>1 DEF DestroyInv, Pending
  <2>. QED  BY <2>1, <2>2, <2>4, <2>5, <2>6, <2>7 DEF DestroyInv
<1>6. CASE FrameDone
  <2>1. /\ handler = "frame_done" /\ event' = NoEvent /\ handler' # "failed"
        /\ UNCHANGED <<queue, main, grace, destroySent, destroys>>
    BY <1>6 DEF FrameDone, AfterFrame, runtime
  <2>2. event.id = "EOF" /\ event'.id = "none"
    BY <2>1 DEF IInv, TurnInv, NoEvent, Event
  <2>3. Pending("Destroy", queue', event') <=> Pending("Destroy", queue, event)
    BY <2>1, <2>2 DEF Pending
  <2>4. Once("Destroy", queue', event', destroys')
    BY <2>1, <2>2 DEF DestroyInv, Once
  <2>5. EndFollows <=> EndFollows'
    BY <2>1, <2>3 DEF EndFollows, Queued, Turn
  <2>. QED  BY <2>1, <2>3, <2>4, <2>5 DEF DestroyInv
<1>7. CASE FreeContext
  <2>1. /\ main = "free" /\ queue' = <<>> /\ Len(queue') = 0 /\ main' = "destroyed"
        /\ UNCHANGED <<event, destroys, destroySent, grace, handler>>
    BY <1>7 DEF FreeContext, script, runtime
  <2>. QED  BY <2>1 DEF DestroyInv, Once, Pending, Closing
<1>. QED  BY <1>2, <1>3, <1>4, <1>5, <1>6, <1>7, StepKinds

-----------------------------------------------------------------------------
(* The theorems *)

\* In every mode, and on a queue that may refuse events, the main loop and the
\* script take turns by way of one EOF at a time.
THEOREM Invariance == Spec => []IInv
BY InitInv, NextInv, PTL DEF Spec

\* Every variable keeps to its type: the queue to its capacity, the counters to
\* their bounds.
THEOREM TypeCorrectness == Spec => []TypeOK
<1>1. IInv => TypeOK
  BY DEF IInv
<1>. QED  BY <1>1, Invariance, PTL

\* A fence that is acknowledged was not notified already (script.c:335).
THEOREM AcknowledgedOnce == Spec => []NotifiedOnce
<1>1. IInv => NotifiedOnce
  BY DEF IInv, FenceInv, NotifiedOnce
<1>. QED  BY <1>1, Invariance, PTL

\* With one thread that sends console input, a string is carried by one event
\* only and is live until the script takes it, also when the queue refuses it.
THEOREM StringsHaveOneOwner == ASSUME OneUI PROVE Spec => []StringsCarriedOnce
<1>1. Init => StringsInv
  BY DEF Init, StringsInv
<1>2. TypeOK /\ StringsInv /\ [Next]_vars => StringsInv'
  BY StringsNext
<1>3. TypeOK /\ StringsInv => StringsCarriedOnce
  BY LenProperties DEF TypeOK, StringsInv, StringsCarriedOnce
<1>. QED  BY <1>1, <1>2, <1>3, TypeCorrectness, PTL DEF Spec

\* With that invariant: what the handler holds, and what is sent before Init.
LEMMA Base == Spec => []BaseInv
<1>1. BaseInv /\ [Next]_vars => BaseInv'
  <2>1. BaseInv => IInv
    BY DEF BaseInv
  <2>2. BaseInv /\ [Next]_vars => HandlerInv' /\ PrimersInv'
    BY BaseNext
  <2>. QED  BY <2>1, <2>2, NextInv DEF BaseInv
<1>2. Init => BaseInv
  BY InitInv, BaseInit DEF BaseInv
<1>. QED  BY <1>1, <1>2, PTL DEF Spec

\* The script handles Init once, and before any AdvanceTime (Common.lua:55), in
\* every mode, whatever else a full queue refuses.
THEOREM InitIsFirst == ASSUME PrimersFit PROVE Spec => []InitComesFirst
<1>1. Init => FirstInv
  <2>. SUFFICES ASSUME Init PROVE FirstInv
    OBVIOUS
  <2>1. Len(queue) = 0
    BY DEF Init
  <2>. QED  BY <2>1 DEF Init, FirstInv, Once, Priming, Adv, NoEvent, Event
<1>2. BaseInv /\ FirstInv /\ [Next]_vars => FirstInv'
  BY FirstNext
<1>3. FirstInv => InitComesFirst
  BY DEF FirstInv, Once, InitComesFirst
<1>. QED  BY <1>1, <1>2, <1>3, Base, PTL DEF Spec

\* In step, the queue holds what is to come besides what it holds.
LEMMA Room == ASSUME InStep, QueueHasRoom PROVE Spec => []RoomInv
<1>1. BaseInv /\ RoomInv /\ [Next]_vars => RoomInv'
  BY RoomNext
<1>. QED  BY <1>1, RoomInit, Base, PTL DEF Spec

\* While iterations run, no event of the runtime or of the console is refused:
\* the callers of kl_script_event_enqueue, which do not look, lose none.
THEOREM QueueRefusesNothing ==
  ASSUME InStep, QueueHasRoom
  PROVE  Spec => [][\A e \in Events : Sends(e) /\ main \in Running /\ e.id # "Init" =>
                      Len(queue') = Len(queue) + 1]_vars
<1>1. BaseInv /\ RoomInv /\ [Next]_vars =>
        [\A e \in Events : Sends(e) /\ main \in Running /\ e.id # "Init" =>
           Len(queue') = Len(queue) + 1]_vars
  BY SendsFit
<1>. QED  BY <1>1, Base, Room, PTL DEF Spec

\* In step, frames and AdvanceTimes come in pairs.
LEMMA Frames == ASSUME InStep, QueueHasRoom PROVE Spec => []FramesInv
<1>1. Init => FramesInv
  <2>. SUFFICES ASSUME Init PROVE FramesInv
    OBVIOUS
  <2>1. Len(queue) = 0 /\ advanced = <<>> /\ ~Adv(event) /\ ~Ends(event) /\ event.id # "EOF"
    BY DEF Init, Adv, Ends, NoEvent, Event
  <2>2. main \notin {"reset", "eof"}
    BY DEF Init
  <2>. QED  BY <2>1, <2>2 DEF FramesInv, Clear
<1>2. BaseInv /\ RoomInv /\ FramesInv /\ [Next]_vars => FramesInv'
  BY FramesNext
<1>. QED  BY <1>1, <1>2, Base, Room, PTL DEF Spec

\* The frame that an iteration ends reaches the script with that iteration's
\* AdvanceTime in it, once, and with no other (Common.lua:36).
THEOREM FramesStayWhole ==
  ASSUME InStep, QueueHasRoom PROVE Spec => []AdvancesOncePerFrame
<1>1. BaseInv /\ FramesInv => AdvancesOncePerFrame
  BY DEF BaseInv, IInv, TurnInv, FramesInv, Ends, AdvancesOncePerFrame
<1>. QED  BY <1>1, Base, Frames, PTL

\* While an iteration simulates, the script has taken up every frame of the
\* iterations before (mainloop.c:112-148).
THEOREM ScriptIsInStep ==
  ASSUME InStep, QueueHasRoom PROVE Spec => []ScriptKeepsUp
<1>1. BaseInv /\ FramesInv => ScriptKeepsUp
  <2>. SUFFICES ASSUME BaseInv, FramesInv, main = "tick",
                       NEW i \in DOMAIN queue, queue[i].id = "AdvanceTime"
                PROVE  FALSE
    BY DEF ScriptKeepsUp
  <2>1. Clear(queue, event, advanced)
    BY ClearAtTick
  <2>2. i \in 1 .. Len(queue)
    BY LenProperties DEF BaseInv, IInv, TypeOK
  <2>. QED  BY <2>1, <2>2 DEF Clear, Adv
<1>. QED  BY <1>1, Base, Frames, PTL

\* The second iteration after kl_predestroy has had Destroy handled, also where
\* a script error ended iterations before (Common.lua:63).
THEOREM SecondIterationHandlesDestroy ==
  ASSUME InStep, QueueHasRoom PROVE Spec => []DestroyTakesTwo
<1>1. BaseInv /\ RoomInv /\ DestroyInv /\ [Next]_vars => DestroyInv'
  BY DestroyNext
<1>2. BaseInv /\ DestroyInv => DestroyTakesTwo
  <2>. SUFFICES ASSUME BaseInv, DestroyInv, grace >= 2, main \notin {"pump", "pumping", "wait"}
                PROVE  destroys = 1
    BY DEF DestroyTakesTwo
  <2>1. destroySent
    BY DEF DestroyInv
  <2>2. main \in Closing \cup {"tick", "reset", "eof", "rest"}
    BY <2>1 DEF BaseInv, IInv, TypeOK, PrimersInv, Running, Closing, Priming
  <2>. QED  BY <2>1, <2>2 DEF DestroyInv, Closing
<1>. QED  BY <1>1, <1>2, DestroyInit, Base, Room, PTL DEF Spec
=============================================================================
