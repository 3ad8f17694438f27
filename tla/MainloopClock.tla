---------------------------- MODULE MainloopClock ----------------------------
(***************************************************************************)
(* The simulation clock of kl_mainloop_iteration (process/mainloop.c):     *)
(* when ticks are due, and how much time an iteration tells processes and  *)
(* script to advance by.  The clock runs while the code runs, so any       *)
(* amount of time may pass between two of its readings, and an iteration   *)
(* whose script fails returns before it has recorded its end.              *)
(*                                                                         *)
(* Time is in units of mach_absolute_time; dt, a float of milliseconds in  *)
(* the code, is kept in the nanoseconds that it is computed from.          *)
(***************************************************************************)
EXTENDS Integers

CONSTANTS
  Numer, Denom,  \* mach_timebase_info: one unit of time is Numer/Denom ns
  TickNs,        \* tick_frequency_ns
  MayFail,       \* the script is pumped and may fail
  MaxTime,       \* bound: the last reading of the clock
  MaxStep,       \* bound: the time that passes at once
  MaxFrames      \* bound: iterations

ASSUME TimebaseAssumption ==
  /\ Numer \in Nat \ {0} /\ Denom \in Nat \ {0}
  /\ TickNs \in Nat /\ Numer <= TickNs * Denom
ASSUME BoundAssumption ==
  MaxTime \in Nat \ {0} /\ MaxStep \in Nat /\ MaxFrames \in Nat /\ MayFail \in BOOLEAN

VARIABLES
  now,             \* mach_absolute_time(), which is never 0
  at,              \* where the iteration is, or "outside"
  frameTimestamp,  \* frame_timestamp
  dt,              \* dt, in ns
  lastFrame,       \* g_mainloop_last_frame_time, 0 before the first iteration
  lastTick,        \* g_mainloop_last_tick_time
  elapsed,         \* g_mainloop_elapsed_time
  frames,          \* iterations begun
  start,           \* history: the first reading
  ticks,           \* history: calls of kl_tick_process_list
  advances,        \* history: calls of kl_advance_process_list,
  advanced,        \*   the sum of what they were given
  called           \*   and when the last one began

clock == <<now, start>>
globals == <<lastFrame, lastTick, elapsed>>
calls == <<ticks, advances, advanced, called>>
vars == <<clock, at, frames, frameTimestamp, dt, globals, calls>>

\* kl_absolute_time_to_ns and kl_ns_to_absolute_time, both rounding down.
ToNs(t) == (t * Numer) \div Denom
TickFrequency == (TickNs * Denom) \div Numer

Init ==
  /\ now = 1 /\ at = "outside" /\ frames = 0 /\ frameTimestamp = 0 /\ dt = 0
  /\ lastFrame = 0 /\ lastTick = 0 /\ elapsed = 0
  /\ start = 0 /\ ticks = 0 /\ advances = 0 /\ advanced = 0 /\ called = 0

-----------------------------------------------------------------------------

\* Time passes, within an iteration or between two.
Pass(d) ==
  /\ now + d <= MaxTime
  /\ now' = now + d
  /\ UNCHANGED <<start, at, frames, frameTimestamp, dt, globals, calls>>

\* The first iteration starts the clock.
Begin ==
  /\ at = "outside" /\ frames < MaxFrames
  /\ at' = "stamp" /\ frames' = frames + 1
  /\ IF lastFrame = 0
     THEN lastFrame' = now /\ lastTick' = now /\ start' = now
     ELSE UNCHANGED <<lastFrame, lastTick, start>>
  /\ UNCHANGED <<now, elapsed, frameTimestamp, dt, calls>>

\* The delta time is that since the end of the last frame.
Stamp ==
  /\ at = "stamp"
  /\ at' = "pump"
  /\ frameTimestamp' = now
  /\ dt' = ToNs(now - lastFrame)
  /\ UNCHANGED <<clock, frames, globals, calls>>

\* Mutant: a failed iteration records its end, but not how long it took.
PumpRecordingEnd ==
  /\ at = "pump"
  /\ \/ at' = "tick" /\ UNCHANGED lastFrame
     \/ MayFail /\ at' = "outside" /\ lastFrame' = now
  /\ UNCHANGED <<clock, frames, frameTimestamp, dt, lastTick, elapsed, calls>>

\* The script's frame: when the pump fails the iteration ends here.
Pump ==
  /\ at = "pump"
  /\ at' \in {"tick"} \cup IF MayFail THEN {"outside"} ELSE {}
  /\ UNCHANGED <<clock, frames, frameTimestamp, dt, globals, calls>>

\* Mutant: the loop tests the time of the last tick alone.
TickDueEarly == lastTick < frameTimestamp

\* The condition of the loop over the ticks.
TickDue == lastTick + TickFrequency < frameTimestamp

\* Mutant: a tick catches up with the frame at once.
TickResync ==
  /\ at = "tick" /\ TickDue
  /\ lastTick' = frameTimestamp
  /\ ticks' = ticks + 1
  /\ UNCHANGED <<clock, at, frames, frameTimestamp, dt, lastFrame, elapsed,
                 advances, advanced, called>>

\* Mutant: the time of the last tick is not moved on.
TickInPlace ==
  /\ at = "tick" /\ TickDue
  /\ UNCHANGED vars

Tick ==
  /\ at = "tick" /\ TickDue
  /\ lastTick' = lastTick + TickFrequency
  /\ ticks' = ticks + 1
  /\ UNCHANGED <<clock, at, frames, frameTimestamp, dt, lastFrame, elapsed,
                 advances, advanced, called>>

Advance ==
  /\ at = "tick" /\ ~TickDue
  /\ at' = "end"
  /\ advances' = advances + 1 /\ advanced' = advanced + dt /\ called' = now
  /\ UNCHANGED <<clock, frames, frameTimestamp, dt, globals, ticks>>

\* Mutant: the subtraction that times the frame is the wrong way round.
EndSwapped ==
  /\ at = "end"
  /\ at' = "outside"
  /\ lastFrame' = now
  /\ elapsed' = elapsed + (frameTimestamp - now)
  /\ UNCHANGED <<clock, frames, frameTimestamp, dt, lastTick, calls>>

\* The end of this frame is recorded, and how long it took.
End ==
  /\ at = "end"
  /\ at' = "outside"
  /\ lastFrame' = now
  /\ elapsed' = elapsed + (now - frameTimestamp)
  /\ UNCHANGED <<clock, frames, frameTimestamp, dt, lastTick, calls>>

Iteration == Stamp \/ Pump \/ Tick \/ Advance \/ End
Next == Begin \/ Iteration \/ \E d \in 1 .. MaxStep : Pass(d)

\* The thread that began an iteration keeps running; nobody need begin one.
Spec == Init /\ [][Next]_vars /\ WF_vars(Iteration)

-----------------------------------------------------------------------------
(* Properties *)

TypeOK ==
  /\ at \in {"outside", "stamp", "pump", "tick", "end"}
  /\ now \in 1 .. MaxTime
  /\ {start, lastFrame, frameTimestamp, called} \subseteq 0 .. now
  /\ {lastTick, elapsed, dt, frames, ticks, advances, advanced} \subseteq Nat

\* While an iteration advances time, the simulation has had every tick that is
\* due: at the start of the frame it was at most one tick behind, however long
\* the pauses and however many iterations failed before (process.h: "A process
\* receives a tick for every 32ms of time that passes").
TicksCatchUp ==
  at = "end" => (ToNs(frameTimestamp - start) - 1) \div TickNs <= ticks

\* No tick is given before its time, measured from the first iteration.
NoTickEarly == ticks # 0 => start + ticks * TickFrequency < frameTimestamp

\* What the dts leave out of the time since the first iteration is what the
\* frames that came to their end took, as g_mainloop_elapsed_time counts it, and
\* nothing else: a failed iteration's time is in the next one's dt, no time is in
\* two of them, and rounding loses less than one ns with each.
OnlyFramesLeftOut ==
  at = "outside" /\ lastFrame # 0 =>
    ToNs(lastFrame - start - elapsed) \in advanced .. advanced + advances

\* What process.h:113 says of dt, "The amount of time, in milliseconds, which has
\* passed since the last time kl_advance_process_list was called": it has at least
\* the time from that call to the start of this frame.
DtSinceLastCall ==
  [][Advance /\ advances > 0 => dt >= ToNs(frameTimestamp - called)]_vars

(* An inductive strengthening *)

\* The globals are set when the clock starts, and a frame starts after the
\* last one ended.
StartInv ==
  IF lastFrame = 0
  THEN at = "outside" /\ \A c \in {start, lastTick, elapsed, frameTimestamp,
                                   ticks, advances, advanced} : c = 0
  ELSE /\ 0 < start /\ start + elapsed <= lastFrame
       /\ at \in {"pump", "tick", "end"} =>
            lastFrame <= frameTimestamp /\ dt = ToNs(frameTimestamp - lastFrame)

\* The last tick is as many ticks after the start as were given.
LoopInv ==
  /\ lastTick = start + ticks * TickFrequency
  /\ ticks # 0 => lastTick < frameTimestamp
  /\ at = "end" => frameTimestamp <= lastTick + TickFrequency

\* What OnlyFramesLeftOut says, also within an iteration: between Advance and
\* End the dt was handed out and the frame is not recorded.
AccountInv ==
  LET outsideFrames == ToNs(lastFrame - start - elapsed) IN
  lastFrame # 0 =>
    IF at = "end"
    THEN advances # 0 /\ outsideFrames + dt \in advanced .. advanced + (advances - 1)
    ELSE outsideFrames \in advanced .. advanced + advances

IInv == TypeOK /\ StartInv /\ LoopInv /\ AccountInv

\* An iteration that began returns: the loop over the ticks ends.
IterationReturns == at # "outside" ~> at = "outside"
=============================================================================
