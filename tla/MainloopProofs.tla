---------------------------- MODULE MainloopProofs ----------------------------
(***************************************************************************)
(* The simulation clock, for every timebase and tick length, and the       *)
(* application whose display link runs the main loop and whose other       *)
(* thread begins and ends it, for any number of events that are queued.    *)
(* What is proved of each part holds of the application composed of both.  *)
(***************************************************************************)
EXTENDS Application, SequenceTheorems, TLAPS

-----------------------------------------------------------------------------
(* Arithmetic of the conversions *)

\* The quotient that rounds down.
LEMMA Quotient ==
  ASSUME NEW a \in Int, NEW d \in Nat \ {0}
  PROVE  /\ a \div d \in Int
         /\ (a \div d) * d <= a
         /\ a < (a \div d) * d + d
         /\ 0 <= a => 0 <= a \div d
OBVIOUS

\* A positive factor can be cancelled.
LEMMA Cancel ==
  ASSUME NEW m \in Int, NEW n \in Int, NEW d \in Nat \ {0}, m * d < n * d
  PROVE  m < n
OBVIOUS

\* The quotients of two numbers add up to that of their sum, or one less.
LEMMA QuotientOfSum ==
  ASSUME NEW a \in Nat, NEW b \in Nat, NEW d \in Nat \ {0}
  PROVE  (a + b) \div d \in (a \div d) + (b \div d) .. (a \div d) + (b \div d) + 1
<1>1. PICK p \in Nat : p = a \div d /\ p * d <= a /\ a < p * d + d
  BY Quotient
<1>2. PICK q \in Nat : q = b \div d /\ q * d <= b /\ b < q * d + d
  BY Quotient
<1>3. PICK r \in Nat : r = (a + b) \div d /\ r * d <= a + b /\ a + b < r * d + d
  BY Quotient
<1>4. (p + q) * d < (r + 1) * d
  BY <1>1, <1>2, <1>3
<1>5. r * d < (p + q + 2) * d
  BY <1>1, <1>2, <1>3
<1>6. p + q < r + 1
  BY <1>4, Cancel
<1>7. r < p + q + 2
  BY <1>5, Cancel
<1>. QED  BY <1>1, <1>2, <1>3, <1>6, <1>7

\* Converting two intervals loses at most one ns more than converting their
\* sum.
LEMMA Rounding ==
  ASSUME NEW x \in Nat, NEW y \in Nat
  PROVE  /\ ToNs(x) \in Nat
         /\ ToNs(x + y) \in ToNs(x) + ToNs(y) .. ToNs(x) + ToNs(y) + 1
<1>1. /\ x * Numer \in Nat /\ y * Numer \in Nat
      /\ (x + y) * Numer = x * Numer + y * Numer
  BY TimebaseAssumption
<1>2. (x * Numer) \div Denom \in Nat
  BY <1>1, Quotient, TimebaseAssumption
<1>. QED  BY <1>1, <1>2, QuotientOfSum, TimebaseAssumption DEF ToNs

\* A tick lasts at most TickNs, so a span of n ticks is no more than n * TickNs
\* long: after that many ticks, no further one is due.
LEMMA TicksInSpan ==
  ASSUME NEW t \in Nat, NEW n \in Nat, t <= (n + 1) * TickFrequency
  PROVE  (ToNs(t) - 1) \div TickNs <= n
<1>1. /\ Numer \in Nat \ {0} /\ Denom \in Nat \ {0} /\ TickNs \in Nat \ {0}
      /\ TickNs * Denom \in Nat
  BY TimebaseAssumption
<1>2. PICK f \in Nat : f = TickFrequency /\ f * Numer <= TickNs * Denom
  BY <1>1, Quotient DEF TickFrequency
<1>3. PICK e \in Nat : e = ToNs(t) /\ e * Denom <= t * Numer
  <2>1. t * Numer \in Nat
    BY <1>1
  <2>. QED  BY <1>1, <2>1, Quotient DEF ToNs
<1>4. PICK k \in Int : k = (e - 1) \div TickNs /\ k * TickNs <= e - 1
  BY <1>1, Quotient
<1>5. t * Numer <= ((n + 1) * f) * Numer
  BY <1>1, <1>2
<1>6. ((n + 1) * f) * Numer <= (n + 1) * (TickNs * Denom)
  <2>1. ((n + 1) * f) * Numer = (n + 1) * (f * Numer)
    BY <1>1
  <2>. QED  BY <1>1, <1>2, <2>1
<1>7. e * Denom < ((n + 1) * TickNs + 1) * Denom
  BY <1>1, <1>3, <1>5, <1>6
<1>8. e < (n + 1) * TickNs + 1
  BY <1>1, <1>7, Cancel
<1>9. k * TickNs < (n + 1) * TickNs
  BY <1>1, <1>4, <1>8
<1>10. k < n + 1
  BY <1>1, <1>9, Cancel
<1>. QED  BY <1>3, <1>4, <1>10

\* A tick takes time.
LEMMA TickFrequencyType == TickFrequency \in Nat \ {0}
<1>1. PICK f \in Nat : f = TickFrequency /\ TickNs * Denom < f * Numer + Numer
  <2>1. TickNs * Denom \in Nat
    BY TimebaseAssumption
  <2>. QED  BY <2>1, TimebaseAssumption, Quotient DEF TickFrequency
<1>. QED  BY <1>1, TimebaseAssumption

-----------------------------------------------------------------------------
(* The inductive invariant *)

\* Before the first iteration all counters are 0.
LEMMA InitInv == Init => IInv
<1>. SUFFICES ASSUME Init PROVE IInv
  OBVIOUS
<1>1. TypeOK
  BY BoundAssumption DEF Init, TypeOK
<1>2. StartInv
  BY DEF Init, StartInv
<1>3. LoopInv
  BY TickFrequencyType DEF Init, LoopInv
<1>4. AccountInv
  BY DEF Init, AccountInv
<1>. QED  BY <1>1, <1>2, <1>3, <1>4 DEF IInv

\* Time passing changes nothing but the clock.
LEMMA PassInv == IInv /\ (\E d \in 1 .. MaxStep : Pass(d)) => IInv'
<1>. SUFFICES ASSUME IInv, NEW d \in 1 .. MaxStep, Pass(d) PROVE IInv'
  OBVIOUS
<1>. USE BoundAssumption
<1>1. TypeOK'
  BY DEF IInv, TypeOK, Pass, clock, globals, calls
<1>2. StartInv' /\ LoopInv' /\ AccountInv'
  BY DEF IInv, StartInv, LoopInv, AccountInv, Pass, globals, calls, ToNs, TickFrequency
<1>. QED  BY <1>1, <1>2 DEF IInv

\* The first iteration starts the clock, with nothing to account for.
LEMMA BeginInv == IInv /\ Begin => IInv'
<1>. SUFFICES ASSUME IInv, Begin PROVE IInv'
  OBVIOUS
<1>. USE BoundAssumption, TickFrequencyType
<1>1. TypeOK'
  BY DEF IInv, TypeOK, Begin, calls
<1>2. CASE lastFrame = 0
  <2>1. StartInv'
    BY <1>2 DEF IInv, TypeOK, StartInv, Begin, calls
  <2>2. LoopInv'
    BY <1>2 DEF IInv, TypeOK, StartInv, LoopInv, Begin, calls, TickFrequency
  <2>3. ToNs(0) = 0
    BY TimebaseAssumption DEF ToNs
  <2>4. AccountInv'
    BY <1>2, <2>3 DEF IInv, TypeOK, StartInv, AccountInv, Begin, calls, ToNs
  <2>. QED  BY <1>1, <2>1, <2>2, <2>4 DEF IInv
<1>3. CASE lastFrame # 0
  BY <1>1, <1>3 DEF IInv, StartInv, LoopInv, AccountInv, Begin, calls, TickFrequency, ToNs
<1>. QED  BY <1>2, <1>3

\* The frame starts now, after the end of the last one and after its ticks.
LEMMA StampInv == IInv /\ Stamp => IInv'
<1>. SUFFICES ASSUME IInv, Stamp PROVE IInv'
  OBVIOUS
<1>. USE BoundAssumption
<1>1. lastFrame # 0 /\ lastFrame \in Nat /\ now \in Nat /\ lastFrame <= now /\ frameTimestamp <= now
  BY DEF IInv, TypeOK, StartInv, Stamp
<1>2. now - lastFrame \in Nat /\ ToNs(now - lastFrame) \in Nat
  <2>1. now - lastFrame \in Nat
    BY <1>1
  <2>. QED  BY <2>1, Rounding
<1>3. TypeOK'
  BY <1>2 DEF IInv, TypeOK, Stamp, clock, globals, calls
<1>4. StartInv'
  BY <1>1 DEF IInv, TypeOK, StartInv, Stamp, clock, globals, calls, ToNs
<1>5. LoopInv'
  BY <1>1, TickFrequencyType DEF IInv, TypeOK, LoopInv, Stamp, clock, globals, calls, TickFrequency
<1>6. AccountInv'
  BY DEF IInv, AccountInv, Stamp, clock, globals, calls, ToNs
<1>. QED  BY <1>3, <1>4, <1>5, <1>6 DEF IInv

\* A frame that fails leaves no trace in the globals.
LEMMA PumpInv == IInv /\ Pump => IInv'
<1>. SUFFICES ASSUME IInv, Pump PROVE IInv'
  OBVIOUS
<1>1. at = "pump" /\ at' \in {"tick", "outside"}
  BY DEF Pump
<1>2. TypeOK'
  BY <1>1 DEF IInv, TypeOK, Pump, clock, globals, calls
<1>3. StartInv' /\ LoopInv' /\ AccountInv'
  BY <1>1 DEF IInv, StartInv, LoopInv, AccountInv, Pump, clock, globals, calls,
     ToNs, TickFrequency
<1>. QED  BY <1>2, <1>3 DEF IInv

\* A tick that is due lies before the frame.
LEMMA TickInv == IInv /\ Tick => IInv'
<1>. SUFFICES ASSUME IInv, Tick PROVE IInv'
  OBVIOUS
<1>. USE TickFrequencyType
<1>1. PICK f \in Nat : f = TickFrequency /\ f' = f
  BY DEF TickFrequency
<1>2. TypeOK'
  BY DEF IInv, TypeOK, Tick, clock
<1>3. StartInv' /\ AccountInv'
  BY DEF IInv, StartInv, AccountInv, Tick, clock, ToNs
<1>4. start + (ticks + 1) * TickFrequency = (start + ticks * TickFrequency) + TickFrequency
  BY DEF IInv, TypeOK
<1>5. LoopInv'
  BY <1>4 DEF IInv, TypeOK, LoopInv, Tick, TickDue, clock, TickFrequency
<1>. QED  BY <1>2, <1>3, <1>5 DEF IInv

\* What is handed out now is counted from now on.
LEMMA AdvanceInv == IInv /\ Advance => IInv'
<1>. SUFFICES ASSUME IInv, Advance PROVE IInv'
  OBVIOUS
<1>. USE TickFrequencyType
<1>1. TypeOK'
  BY DEF IInv, TypeOK, Advance, clock, globals
<1>2. StartInv'
  BY DEF IInv, StartInv, Advance, clock, globals, ToNs
<1>3. LoopInv'
  BY DEF IInv, TypeOK, LoopInv, Advance, TickDue, clock, globals, TickFrequency
<1>4. lastFrame # 0 /\ lastFrame - start - elapsed \in Nat
  BY DEF IInv, TypeOK, StartInv, Advance
<1>5. ToNs(lastFrame - start - elapsed) \in advanced .. advanced + advances
  BY <1>4 DEF IInv, AccountInv, Advance
<1>6. AccountInv'
  <2>. DEFINE outsideFrames == ToNs(lastFrame - start - elapsed)
  <2>1. outsideFrames' = outsideFrames /\ outsideFrames \in Nat
    BY <1>4, Rounding DEF Advance, clock, globals, ToNs
  <2>2. outsideFrames \in advanced .. advanced + advances
    BY <1>5
  <2>. HIDE DEF outsideFrames
  <2>3. /\ advances' = advances + 1 /\ advanced' = advanced + dt /\ dt' = dt /\ at' = "end"
        /\ advances \in Nat /\ advanced \in Nat /\ dt \in Nat
    BY DEF IInv, TypeOK, Advance
  <2>4. advances' # 0 /\ outsideFrames' + dt' \in advanced' .. advanced' + (advances' - 1)
    BY <2>1, <2>2, <2>3
  <2>. QED  BY <2>3, <2>4 DEF AccountInv, outsideFrames
<1>. QED  BY <1>1, <1>2, <1>3, <1>6 DEF IInv

\* The frame's own time goes to the elapsed time, and the time before it is
\* the dt that was handed out.
LEMMA EndInv == IInv /\ End => IInv'
<1>. SUFFICES ASSUME IInv, End PROVE IInv'
  OBVIOUS
<1>. USE BoundAssumption
<1>. DEFINE x == lastFrame - start - elapsed
            y == frameTimestamp - lastFrame
<1>1. /\ lastFrame # 0 /\ dt = ToNs(y) /\ x \in Nat /\ y \in Nat
      /\ now - frameTimestamp \in Nat
  BY DEF IInv, TypeOK, StartInv, End
<1>2. TypeOK'
  BY <1>1 DEF IInv, TypeOK, End, clock, calls
<1>3. StartInv'
  BY <1>1 DEF IInv, TypeOK, StartInv, End, clock, calls
<1>4. LoopInv'
  BY DEF IInv, LoopInv, End, clock, calls, TickFrequency
<1>5. (lastFrame - start - elapsed)' = x + y
  BY <1>1 DEF IInv, TypeOK, End, clock
<1>6. ToNs(x + y) \in ToNs(x) + ToNs(y) .. ToNs(x) + ToNs(y) + 1
  BY <1>1, Rounding
<1>7. ToNs(x) + ToNs(y) \in advanced .. advanced + (advances - 1)
  BY <1>1 DEF IInv, AccountInv, End
<1>8. ToNs(x) \in Nat /\ ToNs(y) \in Nat
  BY <1>1, Rounding
<1>. HIDE DEF x, y
<1>9. ToNs(x + y) \in advanced .. advanced + advances
  BY <1>6, <1>7, <1>8 DEF IInv, TypeOK
<1>10. AccountInv'
  BY <1>5, <1>9 DEF AccountInv, End, calls, ToNs
<1>. QED  BY <1>2, <1>3, <1>4, <1>10 DEF IInv

\* Every step of the main loop and of the clock keeps the invariant.
LEMMA NextInv == IInv /\ [Next]_vars => IInv'
<1>. SUFFICES ASSUME IInv, [Next]_vars PROVE IInv'
  OBVIOUS
<1>1. CASE UNCHANGED vars
  BY <1>1 DEF IInv, TypeOK, StartInv, LoopInv, AccountInv, vars, clock, globals, calls,
     ToNs, TickFrequency
<1>2. CASE Next
  BY <1>2, PassInv, BeginInv, StampInv, PumpInv, TickInv, AdvanceInv, EndInv DEF Next, Iteration
<1>. QED  BY <1>1, <1>2

-----------------------------------------------------------------------------
(* Theorems *)

\* The inductive invariant holds of every behaviour.
THEOREM Invariance == Spec => []IInv
<1>. QED  BY InitInv, NextInv, PTL DEF Spec

\* No value of the clock, the globals or the counts leaves its range: no
\* unsigned subtraction of the code wraps around.
THEOREM TypeCorrectness == Spec => []TypeOK
<1>1. IInv => TypeOK
  BY DEF IInv
<1>. QED  BY <1>1, Invariance, PTL

\* No tick is given before its time.
THEOREM TicksAreNotEarly == Spec => []NoTickEarly
<1>1. IInv => NoTickEarly
  BY TickFrequencyType DEF IInv, TypeOK, LoopInv, NoTickEarly
<1>. QED  BY <1>1, Invariance, PTL

\* The simulation has had every tick that is due when it is advanced, whatever
\* the timebase rounds off.
THEOREM TicksAreNotMissed == Spec => []TicksCatchUp
<1>1. IInv => TicksCatchUp
  <2>. SUFFICES ASSUME IInv, at = "end" PROVE (ToNs(frameTimestamp - start) - 1) \div TickNs <= ticks
    BY DEF TicksCatchUp
  <2>1. ticks \in Nat /\ start \in Nat /\ frameTimestamp - start \in Nat
    BY DEF IInv, TypeOK, StartInv
  <2>2. frameTimestamp - start <= ticks * TickFrequency + TickFrequency
    BY <2>1, TickFrequencyType DEF IInv, TypeOK, LoopInv
  <2>3. frameTimestamp - start <= (ticks + 1) * TickFrequency
    BY <2>1, <2>2, TickFrequencyType
  <2>. QED  BY <2>1, <2>3, TicksInSpan
<1>. QED  BY <1>1, Invariance, PTL

\* The dts leave out what the completed frames took and, up to rounding, no more
\* and no less.
THEOREM DtsLeaveOutFrames == Spec => []OnlyFramesLeftOut
<1>1. IInv => OnlyFramesLeftOut
  BY DEF IInv, AccountInv, OnlyFramesLeftOut
<1>. QED  BY <1>1, Invariance, PTL

-----------------------------------------------------------------------------
(* The application                                                         *)

\* Up to lua_close all that kl_initialize allocates is there.
LifeInv ==
  /\ live \subseteq Object
  /\ ui \in {"launched", "waiting", "closing"} => {"script", "processes", "effects"} \subseteq live

\* The context is there from the moment on that the display link runs; the
\* script has resources only from then on.
ContextInv ==
  /\ display \in {"off", "idle", "iterate", "draw"}
  /\ display # "off" => "context" \in live /\ g_script_render_context = "context"
  /\ display = "off" => ~resources /\ ui \in {"launching", "launched"}
  /\ ui = "launching" => display = "off"

\* The flag keeps out of the shutdown every frame but the one that was under way.
ShutdownInv ==
  /\ ui \in {"launching", "launched"} \/ g_shutting_down
  /\ display \in {"iterate", "draw"} => overtaken \/ ui = "launched"

\* The default log is open from kl_initialize to the end of kl_destroy.
LogInv ==
  ui \in {"launched", "waiting", "closing", "freeing"} /\ callback = "default" => sklog

\* The inductive invariant.
AppInv == LifeInv /\ ContextInv /\ ShutdownInv /\ LogInv

-----------------------------------------------------------------------------
\* Before launch there is nothing that could be missed.
LEMMA AppBegins == AppInit => AppInv
BY DEF AppInit, AppInv, LifeInv, ContextInv, ShutdownInv, LogInv

\* No step of the user interface's thread takes away what a frame or a
\* finaliser still uses.
LEMMA UIKeepsAppInv == AppInv /\ UI => AppInv'
<1> SUFFICES ASSUME AppInv, UI PROVE AppInv'
  OBVIOUS
<1> USE DEF AppInv, LifeInv, ContextInv, ShutdownInv, LogInv, runtime, log, Object
<1>1. CASE AssignCallback
  BY <1>1 DEF AssignCallback
<1>2. ASSUME NEW found \in BOOLEAN, Initialize(found) PROVE AppInv'
  BY <1>2 DEF Initialize
<1>3. CASE InitRendering
  BY <1>3 DEF InitRendering
<1>4. ASSUME NEW event \in {"RenderResize", "ConsoleInput"}, Send(event) PROVE AppInv'
  BY <1>4 DEF Send
<1>5. CASE ShouldTerminate
  BY <1>5 DEF ShouldTerminate
<1>6. CASE WillTerminate
  BY <1>6 DEF WillTerminate
<1>7. CASE DestroyScript
  BY <1>7 DEF DestroyScript
<1>8. CASE FreeManagers
  BY <1>8 DEF FreeManagers
<1> QED
  BY <1>1, <1>2, <1>3, <1>4, <1>5, <1>6, <1>7, <1>8 DEF UI

\* No frame begins once the application is shutting down.
LEMMA DisplayKeepsAppInv == AppInv /\ Display => AppInv'
<1> SUFFICES ASSUME AppInv, Display PROVE AppInv'
  OBVIOUS
<1> USE DEF AppInv, LifeInv, ContextInv, ShutdownInv, LogInv, runtime, log
<1>1. CASE BeginFrame
  BY <1>1 DEF BeginFrame
<1>2. CASE HandleEvent
  BY <1>2 DEF HandleEvent
<1>3. CASE DrawFrame
  BY <1>3 DEF DrawFrame
<1>4. CASE EndFrame
  BY <1>4 DEF EndFrame
<1> QED
  BY <1>1, <1>2, <1>3, <1>4 DEF Display

\* Every step of the application keeps the invariant.
LEMMA AppStep == AppInv /\ [AppNext]_appVars => AppInv'
<1>1. AppInv /\ Terminated => AppInv'
  BY DEF Terminated, AppInv, LifeInv, ContextInv, ShutdownInv, LogInv, appVars, runtime, log
<1>2. AppInv /\ UNCHANGED appVars => AppInv'
  BY DEF AppInv, LifeInv, ContextInv, ShutdownInv, LogInv, appVars, runtime, log
<1> QED
  BY <1>1, <1>2, UIKeepsAppInv, DisplayKeepsAppInv DEF AppNext

\* The inductive invariant holds in every reachable state of the application.
THEOREM AppInvariance == AppSpec => []AppInv
BY AppBegins, AppStep, PTL DEF AppSpec

\* A frame of getFrameForTime finds the runtime, the context and the log, and
\* kl_destroy does not close Lua under its handlers, unless it was under way when
\* the user quit.
THEOREM FramesFindTheRuntime == AppSpec => []FramesUseLive
<1>1. AppInv => FramesUseLive
  BY DEF AppInv, LifeInv, ContextInv, ShutdownInv, LogInv, FramesUseLive, Object
<1> QED
  BY <1>1, AppInvariance, PTL

\* The finalisers of kl_script_destroy find the context of the resources they
\* delete, and the log.
THEOREM FinalisersFindTheContext == AppSpec => []FinalisersUseLive
<1>1. AppInv => FinalisersUseLive
  BY DEF AppInv, ContextInv, LogInv, FinalisersUseLive
<1> QED
  BY <1>1, AppInvariance, PTL

\* What is queued: the bound on Send leaves room for the events that the two
\* threads post without asking, RenderInit at most behind Init, and Destroy once.
QueueInv ==
  /\ queue \in Seq(Event)
  /\ display = "off" => Len(queue) <= 1
  /\ ui \in {"launching", "launched"} => Len(queue) <= MaxQueued
  /\ Len(queue) <= MaxQueued + 1

\* The types of the application's variables.
THEOREM ApplicationTypes == AppSpec => []AppTypeOK
<1> DEFINE TInv == AppTypeOK /\ AppInv /\ QueueInv
<1>1. /\ <<>> \in Seq(Event) /\ Len(<<>>) = 0
      /\ <<"Init">> \in Seq(Event) /\ Len(<<"Init">>) = 1
  <2>1. "Init" \in Event
    BY DEF Event
  <2> QED
    BY <2>1, EmptySeq
<1>2. AppInit => TInv
  <2> SUFFICES ASSUME AppInit PROVE TInv
    OBVIOUS
  <2>1. AppTypeOK
    <3>1. queue \in Seq(Event) /\ Len(queue) <= MaxQueued + 1
      BY <1>1, QueueAssumption DEF AppInit
    <3> QED
      BY <3>1 DEF AppInit, AppTypeOK
  <2>2. QueueInv
    <3>1. queue \in Seq(Event) /\ Len(queue) = 0
      BY <1>1 DEF AppInit
    <3> QED
      BY <3>1, QueueAssumption DEF QueueInv
  <2> QED
    BY <2>1, <2>2, AppBegins
<1>3. TInv /\ [AppNext]_appVars => TInv'
  <2> SUFFICES ASSUME TInv, [AppNext]_appVars PROVE AppTypeOK' /\ QueueInv'
    BY AppStep
  <2> USE QueueAssumption DEF AppTypeOK, QueueInv, runtime, log
  <2>1. CASE AssignCallback
    BY <2>1 DEF AssignCallback
  <2>2. ASSUME NEW found \in BOOLEAN, Initialize(found) PROVE AppTypeOK' /\ QueueInv'
    <3>1. queue' \in Seq(Event) /\ Len(queue') <= 1
      BY <1>1, <2>2 DEF Initialize
    <3>2. /\ ui' = "launched" /\ live' \subseteq Object /\ sklog' \in BOOLEAN
          /\ main_ran' \in BOOLEAN
          /\ UNCHANGED <<display, g_shutting_down, timer, g_script_render_context, resources,
                        callback, overtaken>>
      BY <2>2 DEF Initialize, Object
    <3> QED
      BY <3>1, <3>2
  <2>3. CASE InitRendering
    BY <2>3, AppendProperties DEF InitRendering, Event, Object
  <2>4. ASSUME NEW e \in {"RenderResize", "ConsoleInput"}, Send(e) PROVE AppTypeOK' /\ QueueInv'
    BY <2>4, AppendProperties DEF Send, Event
  <2>5. CASE ShouldTerminate
    BY <2>5, AppendProperties DEF ShouldTerminate, Event
  <2>6. CASE WillTerminate
    BY <2>6 DEF WillTerminate
  <2>7. CASE DestroyScript
    <3>1. queue' \in Seq(Event) /\ Len(queue') = 0
      BY <1>1, <2>7 DEF DestroyScript
    <3>2. /\ ui' = "freeing" /\ live' \subseteq Object /\ resources' \in BOOLEAN
          /\ UNCHANGED <<display, g_shutting_down, timer, main_ran, g_script_render_context,
                        callback, sklog, overtaken>>
      BY <2>7 DEF DestroyScript
    <3> QED
      BY <3>1, <3>2
  <2>8. CASE FreeManagers
    BY <2>8 DEF FreeManagers
  <2>9. CASE BeginFrame \/ DrawFrame \/ EndFrame
    BY <2>9 DEF BeginFrame, DrawFrame, EndFrame
  <2>10. CASE HandleEvent
    BY <2>10, HeadTailProperties DEF HandleEvent
  <2>11. CASE Terminated \/ UNCHANGED appVars
    BY <2>11 DEF Terminated, appVars
  <2> QED
    BY <2>1, <2>2, <2>3, <2>4, <2>5, <2>6, <2>7, <2>8, <2>9, <2>10, <2>11
       DEF AppNext, UI, Display
<1> QED
  BY <1>2, <1>3, PTL DEF AppSpec

-----------------------------------------------------------------------------
(* The composition                                                         *)

\* Each step of the application is one of the clock and one of the two threads,
\* or leaves either alone.
LEMMA ApplicationStep ==
  [ApplicationNext]_allVars => [Next]_vars /\ [AppNext]_appVars
<1> SUFFICES ASSUME [ApplicationNext]_allVars PROVE [Next]_vars /\ [AppNext]_appVars
  OBVIOUS
<1>1. CASE StartIteration
  BY <1>1 DEF StartIteration, Next, AppNext, Display
<1>2. CASE StepIteration
  BY <1>2 DEF StepIteration, Next
<1>3. CASE RunHandler
  BY <1>3 DEF RunHandler, AppNext, Display
<1>4. CASE FinishFrame
  BY <1>4 DEF FinishFrame, AppNext, Display
<1>5. CASE (UI \/ Terminated) /\ UNCHANGED vars
  BY <1>5 DEF AppNext
<1>6. CASE (\E d \in 1 .. MaxStep : Pass(d)) /\ UNCHANGED appVars
  BY <1>6 DEF Next
<1>7. CASE UNCHANGED allVars
  BY <1>7 DEF allVars
<1> QED
  BY <1>1, <1>2, <1>3, <1>4, <1>5, <1>6, <1>7 DEF ApplicationNext

\* The composition implements the two threads of CocoaApp and, but for the
\* fairness, the clock of MainloopClock: iterations that are made by the frames of
\* a thread, fail for want of a main script or go on into kl_destroy keep time
\* like any others.
THEOREM ApplicationImplements ==
  ApplicationSpec => AppSpec /\ Init /\ [][Next]_vars
<1>1. ApplicationInit => AppInit /\ Init
  BY DEF ApplicationInit
<1> QED
  BY <1>1, ApplicationStep, PTL DEF ApplicationSpec, AppSpec

\* What is proved of the parts holds of the whole: its ticks are neither early nor
\* missed, no time is lost, and frames and finalisers find what they use.
THEOREM ApplicationCorrect ==
  ApplicationSpec => [](IInv /\ FramesUseLive /\ FinalisersUseLive)
<1>1. ApplicationSpec => []IInv
  BY ApplicationImplements, InitInv, NextInv, PTL
<1>2. ApplicationSpec => []FramesUseLive /\ []FinalisersUseLive
  BY ApplicationImplements, FramesFindTheRuntime, FinalisersFindTheContext, PTL
<1> QED
  BY <1>1, <1>2, PTL
=============================================================================
