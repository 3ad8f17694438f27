---------------------------- MODULE ScriptFrames ----------------------------
(***************************************************************************)
(* How the runtime and its script run in step: the main loop               *)
(* (process/mainloop.c, core/lifecycle.c) sends script events through the  *)
(* ring buffer of the script context, cut into frames by EOF events; the   *)
(* script's handler (scriptinterface/script.c, script/events/Handler.lua)  *)
(* takes one frame per pump and acknowledges its EOF, through which a      *)
(* fence tells the main loop that the frame was processed.                 *)
(*                                                                         *)
(* The ring buffer is the bounded FIFO that module RingBuffer implements,  *)
(* so an enqueue or a dequeue is one step here.  A script context is       *)
(* threaded (the handler runs in its own thread, spinning on the queue) or *)
(* not (each iteration of the main loop pumps one frame), as the           *)
(* application chooses when it initialises the runtime.                    *)
(***************************************************************************)
EXTENDS Naturals, Sequences, FiniteSets

CONSTANTS
  Threads,         \* what use_threads of kl_initialize may be
  WaitOnFence,     \* wait_on_fence of kl_initialize
  QueueCapacity,   \* events that fit in the ring buffer
  ScriptMayFail,   \* Lua code may raise errors
  UI,              \* threads that send console input
  MaxFrames,       \* bound: iterations of the main loop
  MaxTicks,        \* bound: ticks in one iteration
  MaxStrings       \* bound: console strings

ASSUME ModeAssumption ==
  /\ Threads \subseteq BOOLEAN /\ WaitOnFence \in BOOLEAN /\ ScriptMayFail \in BOOLEAN
ASSUME BoundAssumption ==
  /\ QueueCapacity \in Nat \ {0}
  /\ MaxFrames \in Nat /\ MaxTicks \in Nat /\ MaxStrings \in Nat

VARIABLES
  queue,        \* the script context's event_buffer
  processed,    \* g_mainloop_scriptfence->processed
  keepRunning,  \* the script context's keep_running
  threaded,     \* the script context has a thread
  main,         \* where the main loop's thread is
  initOk,       \* the ret of kl_init_mainloop is KL_SUCCESS so far
  frame,        \* the iteration of the main loop, counted from 1
  ticks,        \* ticks sent in this iteration
  destroySent,  \* kl_predestroy was called
  grace,        \* iterations begun since, but for those a script error ended
  handler,      \* where the script is
  event,        \* the event it holds
  advanced,     \* AdvanceTime events handled since the last EOF, by frame
  inits,        \* Init events handled
  destroys,     \* Destroy events handled
  strings,      \* console strings: "unused", "live" or "freed"
  input,        \* g_event_ConsoleInput's context: a string, 0 for NULL
  ui            \* per UI thread, whether it is inside kl_script_console_input

vars == <<queue, processed, keepRunning, threaded, main, initOk, frame, ticks, destroySent, grace,
          handler, event, advanced, inits, destroys, strings, input, ui>>
runtime == <<initOk, frame, ticks, destroySent, grace>>
script == <<handler, event, advanced, inits, destroys>>
console == <<strings, input, ui>>

(* An event's frame tells events of different iterations apart: the code's *)
(* AdvanceTime carries that iteration's dt.  An EOF either carries the     *)
(* fence or NULL; a ConsoleInput carries its string.                       *)
Event(id, f, s, carriesFence) == [id |-> id, frame |-> f, string |-> s, fence |-> carriesFence]
Plain(id) == Event(id, frame, 0, FALSE)
NoEvent == Event("none", 0, 0, FALSE)

Ids == {"EOF", "Init", "Destroy", "Tick", "AdvanceTime", "ConsoleInput"}

\* kl_script_event_enqueue, whose callers ignore that a full queue refuses.
Enqueue(e) == queue' = IF Len(queue) < QueueCapacity THEN Append(queue, e) ELSE queue

\* The outcome of Lua code that raises an error, where it may.
MayFail(outcome) == IF ScriptMayFail THEN {outcome} ELSE {}

Init ==
  /\ queue = <<>> /\ processed = FALSE /\ keepRunning = TRUE /\ threaded \in Threads
  /\ main = "run" /\ initOk = TRUE /\ frame = 0 /\ ticks = 0 /\ destroySent = FALSE /\ grace = 0
  /\ handler = "idle" /\ event = NoEvent /\ advanced = <<>>
  /\ inits = 0 /\ destroys = 0
  /\ strings = [s \in 1 .. MaxStrings |-> "unused"]
  /\ input = 0 /\ ui = [u \in UI |-> FALSE]

-----------------------------------------------------------------------------
(* The script: kl_script_event_pump and Events.handler *)

\* The thread runs the script file and its main function; without a main
\* function, or when either raises an error, the thread ends.
RunMainScript ==
  /\ handler = "main_script"
  /\ handler' \in {"test_running"} \cup MayFail("exited")
  /\ UNCHANGED <<queue, processed, keepRunning, threaded, main, runtime, console,
                 event, advanced, inits, destroys>>

\* while(sctx->keep_running == KL_TRUE) around the pump, which fails when the
\* script has left no function in Events.handler.
TestRunning ==
  /\ handler = "test_running"
  /\ handler' \in IF keepRunning THEN {"dequeue"} \cup MayFail("exited") ELSE {"exited"}
  /\ UNCHANGED <<queue, processed, keepRunning, threaded, main, runtime, console,
                 event, advanced, inits, destroys>>

\* Events.dequeue.  An empty queue yields nil and the handler asks again at
\* once: that spin is the absence of this step.  The string of a ConsoleInput
\* is copied to the Lua stack and freed.
Dequeue ==
  /\ handler = "dequeue"
  /\ queue # <<>>
  /\ queue' = Tail(queue)
  /\ event' = Head(queue)
  /\ handler' = IF event'.id = "EOF" THEN "frame_done" ELSE "dispatch"
  /\ strings' = IF event'.id = "ConsoleInput"
                THEN [strings EXCEPT ![event'.string] = "freed"] ELSE strings
  /\ UNCHANGED <<processed, keepRunning, threaded, main, runtime, input, ui,
                 advanced, inits, destroys>>

\* Where the handler returns to when it is done with a frame, or fails.
AfterFrame == IF threaded THEN "test_running" ELSE "succeeded"
AfterError == IF threaded THEN "exited" ELSE "failed"

\* The event is handed to the subscribed functions.
HandOver ==
  /\ handler = "dispatch"
  /\ event' = NoEvent
  /\ advanced' = IF event.id = "AdvanceTime" THEN Append(advanced, event.frame) ELSE advanced
  /\ inits' = inits + (IF event.id = "Init" THEN 1 ELSE 0)
  /\ destroys' = destroys + (IF event.id = "Destroy" THEN 1 ELSE 0)
  /\ UNCHANGED <<queue, processed, keepRunning, threaded, main, runtime, console>>

Dispatch == HandOver /\ handler' = "dequeue"

\* One of them raises an error: the pump returns KL_ERROR with the rest of the
\* frame still queued, and a script thread leaves its loop.
DispatchFails == HandOver /\ handler' \in MayFail(AfterError)

\* Mutant: the handler leaves without acknowledging the EOF.
FrameDoneUnacknowledged ==
  /\ handler = "frame_done"
  /\ handler' = AfterFrame
  /\ event' = NoEvent
  /\ advanced' = <<>>
  /\ UNCHANGED <<queue, processed, keepRunning, threaded, main, runtime, console, inits, destroys>>

\* Events.framedone: kl_script_event_fence_notify on the fence of the EOF.
FrameDone ==
  /\ handler = "frame_done"
  /\ processed' = (processed \/ event.fence)
  /\ handler' = AfterFrame
  /\ event' = NoEvent
  /\ advanced' = <<>>
  /\ UNCHANGED <<queue, keepRunning, threaded, main, runtime, console, inits, destroys>>

ScriptStep == RunMainScript \/ TestRunning \/ Dequeue \/ Dispatch \/ FrameDone

-----------------------------------------------------------------------------
(* kl_script_event_endframe: two stores.  The fence is reset before the EOF  *)
(* that carries it can be seen.                                              *)

\* Mutant: endframe leaves the fence as it was.
ResetNothing(at, next) ==
  /\ main = at
  /\ main' = next
  /\ UNCHANGED <<queue, processed, keepRunning, threaded, runtime, script, console>>

ResetFence(at, next) ==
  /\ main = at
  /\ processed' = (IF WaitOnFence THEN FALSE ELSE processed)
  /\ main' = next
  /\ UNCHANGED <<queue, keepRunning, threaded, runtime, script, console>>

\* Mutant: every EOF carries the fence, the primer and the wake-up, too.
SendEOFAlwaysFenced(at, next, f, carriesFence) ==
  /\ main = at
  /\ Enqueue(Event("EOF", f, 0, WaitOnFence))
  /\ main' = next
  /\ UNCHANGED <<processed, keepRunning, threaded, runtime, script, console>>

SendEOF(at, next, f, carriesFence) ==
  /\ main = at
  /\ Enqueue(Event("EOF", f, 0, carriesFence))
  /\ main' = next
  /\ UNCHANGED <<processed, keepRunning, threaded, runtime, script, console>>

\* kl_script_event_pump on an unthreaded context, from the main loop's thread.
CallPump(at, next) ==
  /\ main = at
  /\ main' = next
  /\ handler' \in {"dequeue"} \cup MayFail("failed")
  /\ UNCHANGED <<queue, processed, keepRunning, threaded, runtime, console,
                 event, advanced, inits, destroys>>

PumpReturns(at, result, next, ok) ==
  /\ main = at
  /\ handler = result
  /\ main' = next
  /\ handler' = "idle"
  /\ initOk' = ok
  /\ grace' = IF next = "rest" /\ grace > 0 THEN grace - 1 ELSE grace
  /\ UNCHANGED <<queue, processed, keepRunning, threaded, frame, ticks, destroySent,
                 console, event, advanced, inits, destroys>>

-----------------------------------------------------------------------------
(* kl_initialize: kl_init_mainloop, then the Init event *)

\* kl_script_run: launch the thread, or run the script to its end; what an
\* unthreaded script raises is logged and nothing else.  The file may fail to
\* load, or the thread to launch.
RunScript ==
  /\ main = "run"
  /\ main' = "prime_reset"
  /\ initOk' \in {TRUE} \cup (IF ScriptMayFail THEN {FALSE} ELSE {})
  /\ handler' = IF threaded /\ initOk' THEN "main_script" ELSE "idle"
  /\ UNCHANGED <<queue, processed, keepRunning, threaded, frame, ticks, destroySent, grace,
                 console, event, advanced, inits, destroys>>

\* Prime the script-event queue: a frame with the fence, which an unthreaded
\* script processes at once, and an empty frame without it.
Prime ==
  \/ ResetFence("prime_reset", "prime_eof")
  \/ SendEOF("prime_eof", IF threaded THEN "prime_null" ELSE "prime_pump", 0, WaitOnFence)
  \/ CallPump("prime_pump", "prime_pumping")
  \/ PumpReturns("prime_pumping", "succeeded", "prime_null", initOk)
  \/ PumpReturns("prime_pumping", "failed", "prime_null", FALSE)
  \/ SendEOF("prime_null", "send_init", 0, FALSE)

\* Mutant: the Init event is forgotten.
SendNoInit ==
  /\ main = "send_init"
  /\ main' = IF initOk THEN "rest" ELSE "init_failed"
  /\ UNCHANGED <<queue, processed, keepRunning, threaded, runtime, script, console>>

SendInit ==
  /\ main = "send_init"
  /\ IF initOk THEN Enqueue(Plain("Init")) ELSE UNCHANGED queue
  /\ main' = IF initOk THEN "rest" ELSE "init_failed"
  /\ UNCHANGED <<processed, keepRunning, threaded, runtime, script, console>>

-----------------------------------------------------------------------------
(* kl_mainloop_iteration *)

\* Mutant: the iteration neither pumps nor waits.
BeginIterationAtOnce ==
  /\ main = "rest"
  /\ frame < MaxFrames
  /\ frame' = frame + 1
  /\ ticks' = 0
  /\ grace' = IF destroySent THEN grace + 1 ELSE grace
  /\ main' = "tick"
  /\ UNCHANGED <<queue, processed, keepRunning, threaded, initOk, destroySent, script, console>>

BeginIteration ==
  /\ main = "rest"
  /\ frame < MaxFrames
  /\ frame' = frame + 1
  /\ ticks' = 0
  /\ grace' = IF destroySent THEN grace + 1 ELSE grace
  /\ main' = IF ~threaded THEN "pump" ELSE IF WaitOnFence THEN "wait" ELSE "tick"
  /\ UNCHANGED <<queue, processed, keepRunning, threaded, initOk, destroySent, script, console>>

\* The pump of an unthreaded script; when it fails the iteration is over.
PumpFrame ==
  \/ CallPump("pump", "pumping")
  \/ PumpReturns("pumping", "succeeded", "tick", initOk)
  \/ PumpReturns("pumping", "failed", "rest", initOk)

\* Mutant: the wait looks once and goes on.
FenceUnseen ==
  /\ main = "wait"
  /\ main' = "tick"
  /\ UNCHANGED <<queue, processed, keepRunning, threaded, runtime, script, console>>

\* while(kl_script_event_fence_wait(...) == KL_RETRY): the spin ends.
FenceSeen ==
  /\ main = "wait"
  /\ processed
  /\ main' = "tick"
  /\ UNCHANGED <<queue, processed, keepRunning, threaded, runtime, script, console>>

\* One round of the catch-up loop: the processes tick and the script is told.
Tick ==
  /\ main = "tick"
  /\ ticks < MaxTicks
  /\ ticks' = ticks + 1
  /\ Enqueue(Plain("Tick"))
  /\ UNCHANGED <<processed, keepRunning, threaded, main, initOk, frame, destroySent, grace, script, console>>

\* Mutant: the event is sent inside the catch-up loop.
AdvanceTimeEachTick ==
  /\ main = "tick"
  /\ Enqueue(Plain("AdvanceTime"))
  /\ ticks' = ticks + 1
  /\ main' \in {"reset"} \cup (IF ticks < MaxTicks THEN {"tick"} ELSE {})
  /\ UNCHANGED <<processed, keepRunning, threaded, initOk, frame, destroySent, grace, script, console>>

\* The processes advance by dt and the script is told.
AdvanceTime ==
  /\ main = "tick"
  /\ Enqueue(Plain("AdvanceTime"))
  /\ main' = "reset"
  /\ UNCHANGED <<processed, keepRunning, threaded, runtime, script, console>>

EndFrame ==
  \/ ResetFence("reset", "eof")
  \/ SendEOF("eof", "rest", frame, WaitOnFence)

-----------------------------------------------------------------------------
(* kl_predestroy, from the main loop's thread or from a user-interface      *)
(* thread, and kl_destroy (kl_script_destroy), between two iterations and    *)
(* with or without the former                                                *)

Running == {"rest", "pump", "pumping", "wait", "tick", "reset", "eof"}

Predestroy ==
  /\ main \in Running
  /\ ~destroySent
  /\ destroySent' = TRUE
  /\ Enqueue(Event("Destroy", 0, 0, FALSE))
  /\ UNCHANGED <<processed, keepRunning, threaded, main, initOk, frame, ticks, grace, script, console>>

Destroy ==
  /\ main = "rest"
  /\ \A u \in UI : ~ui[u]
  /\ main' = IF threaded THEN "stop" ELSE "free"
  /\ UNCHANGED <<queue, processed, keepRunning, threaded, runtime, script, console>>

\* Mutant: the wake-up EOF goes out before keep_running is cleared.
StopScriptWakingFirst ==
  \/ SendEOF("stop", "stop_eof", 0, FALSE)
  \/ /\ main = "stop_eof"
     /\ keepRunning' = FALSE
     /\ main' = "join"
     /\ UNCHANGED <<queue, processed, threaded, runtime, script, console>>

\* keep_running is cleared first, then kl_script_event_endframe(sctx, NULL)
\* gets the handler out of its spin.
StopScript ==
  \/ /\ main = "stop"
     /\ keepRunning' = FALSE
     /\ main' = "stop_eof"
     /\ UNCHANGED <<queue, processed, threaded, runtime, script, console>>
  \/ SendEOF("stop_eof", "join", 0, FALSE)

Join ==
  /\ main = "join"
  /\ handler = "exited"
  /\ main' = "free"
  /\ UNCHANGED <<queue, processed, keepRunning, threaded, runtime, script, console>>

\* lua_close and kl_free_ringbuffer: what is still queued is gone.
FreeContext ==
  /\ main = "free"
  /\ queue' = <<>>
  /\ main' = "destroyed"
  /\ UNCHANGED <<processed, keepRunning, threaded, runtime, script, console>>

-----------------------------------------------------------------------------
(* kl_script_console_input, from a user-interface thread: the heap copy goes *)
(* through the one global event, and from there into the queue               *)

\* Mutant: the string is copied over the last one.
CopyInputInPlace(u) ==
  /\ main \in Running
  /\ ~ui[u]
  /\ \E s \in 1 .. MaxStrings :
       /\ strings[s] = "unused"
       /\ strings' = [strings EXCEPT ![s] = "live"]
       /\ input' = IF input = 0 THEN s ELSE input
  /\ ui' = [ui EXCEPT ![u] = TRUE]
  /\ UNCHANGED <<queue, processed, keepRunning, threaded, main, runtime, script>>

CopyInput(u) ==
  /\ main \in Running
  /\ ~ui[u]
  /\ \E s \in 1 .. MaxStrings :
       /\ strings[s] = "unused"
       /\ strings' = [strings EXCEPT ![s] = "live"]
       /\ input' = s
  /\ ui' = [ui EXCEPT ![u] = TRUE]
  /\ UNCHANGED <<queue, processed, keepRunning, threaded, main, runtime, script>>

SendInput(u) ==
  /\ ui[u]
  /\ Enqueue(Event("ConsoleInput", 0, input, FALSE))
  /\ ui' = [ui EXCEPT ![u] = FALSE]
  /\ UNCHANGED <<processed, keepRunning, threaded, main, runtime, script, strings, input>>

-----------------------------------------------------------------------------
\* The application may stop once it has destroyed the runtime or failed to
\* initialise it; the model stops when its iterations are used up.  A main loop
\* that waits for a script thread that has ended spins for good.
Stopped ==
  /\ \/ main \in {"destroyed", "init_failed"}
     \/ main = "rest" /\ frame = MaxFrames
     \/ main = "wait" /\ handler = "exited" /\ ~processed
  /\ UNCHANGED vars

\* What the main loop's thread does by itself, without the application's say.
MainStep ==
  \/ RunScript \/ Prime \/ SendInit
  \/ PumpFrame \/ FenceSeen \/ Tick \/ AdvanceTime \/ EndFrame
  \/ StopScript \/ Join \/ FreeContext

Application ==
  \/ BeginIteration \/ Predestroy \/ Destroy
  \/ \E u \in UI : CopyInput(u) \/ SendInput(u)

Next == MainStep \/ ScriptStep \/ DispatchFails \/ Application \/ Stopped

Spec == Init /\ [][Next]_vars

\* Both threads keep running; what the application and the user do is up to
\* them.
FairSpec == Spec /\ WF_vars(MainStep) /\ WF_vars(ScriptStep)

-----------------------------------------------------------------------------
Events == [id : Ids, frame : 0 .. MaxFrames, string : 0 .. MaxStrings, fence : BOOLEAN]

TypeOK ==
  /\ queue \in Seq(Events)
  /\ Len(queue) <= QueueCapacity
  /\ {processed, keepRunning, initOk, destroySent} \subseteq BOOLEAN
  /\ threaded \in Threads
  /\ main \in Running \cup {"run", "prime_reset", "prime_eof", "prime_pump", "prime_pumping",
        "prime_null", "send_init", "init_failed", "stop", "stop_eof", "join", "free", "destroyed"}
  /\ frame \in 0 .. MaxFrames /\ ticks \in 0 .. MaxTicks /\ grace \in 0 .. MaxFrames
  /\ handler \in {"idle", "main_script", "test_running", "dequeue", "dispatch", "frame_done",
        "succeeded", "failed", "exited"}
  /\ event \in Events \cup {NoEvent}
  /\ advanced \in Seq(1 .. MaxFrames)
  /\ inits \in Nat /\ destroys \in Nat
  /\ strings \in [1 .. MaxStrings -> {"unused", "live", "freed"}]
  /\ input \in 0 .. MaxStrings
  /\ ui \in [UI -> BOOLEAN]

(* The parts of the inductive invariant. *)

\* Iterations are counted from 1, and so are those that an AdvanceTime names.
CountInv ==
  /\ grace <= frame
  /\ main \in Running \ {"rest"} => frame > 0
  /\ \A j \in 1 .. Len(queue) : queue[j].id = "AdvanceTime" => queue[j].frame > 0
  /\ event.id = "AdvanceTime" => event.frame > 0

\* Each mode has program counters of its own; an unthreaded script runs only
\* while the main loop is inside the pump.
ModeInv ==
  IF threaded
  THEN main \notin {"prime_pump", "prime_pumping", "pump", "pumping"} /\ handler # "succeeded"
  ELSE /\ main \notin {"wait", "stop", "stop_eof", "join"}
       /\ main \notin {"prime_pumping", "pumping"} => handler = "idle"

\* What the main loop and the script take turns with: the EOF that carries the
\* fence, or for an unthreaded script any EOF.
Turn(e) == IF threaded THEN e.fence ELSE e.id = "EOF"
Queued == \E j \in 1 .. Len(queue) : Turn(queue[j])
Taken == handler = "frame_done" /\ Turn(event)

\* A failed initialisation leaves the primers behind, and nobody reads them.
Abandoned ==
  ~threaded /\ ~initOk /\ main \in {"send_init", "init_failed"} /\ handler = "idle"

\* There is at most one turn under way, and none while an iteration simulates
\* or after a pump that succeeded.
TurnInv ==
  /\ \/ Abandoned
     \/ /\ \A j, k \in 1 .. Len(queue) : Turn(queue[j]) /\ Turn(queue[k]) => j = k
        /\ ~(Queued /\ Taken)
  /\ main \in {"run", "prime_reset", "prime_eof", "tick", "reset", "eof"} => ~Queued /\ ~Taken
  /\ main = "prime_null" /\ ~threaded /\ initOk => ~Queued /\ ~Taken
  /\ handler = "succeeded" => ~Queued
  /\ handler = "frame_done" => event.id = "EOF"

\* Only an EOF carries the fence, and the fence it carries is not notified yet.
FenceInv ==
  /\ \A j \in 1 .. Len(queue) : queue[j].fence => queue[j].id = "EOF" /\ WaitOnFence /\ ~processed
  /\ event.fence => event.id = "EOF" /\ WaitOnFence
  /\ handler = "frame_done" /\ event.fence => ~processed
  /\ main \in {"prime_eof", "eof"} /\ WaitOnFence => ~processed

\* The inductive invariant: the main loop and the script take turns by way of
\* one EOF at a time (mainloop.c:55-66, 112-148).
IInv == TypeOK /\ CountInv /\ ModeInv /\ TurnInv /\ FenceInv

\* The application sends console input from one thread at most, as the Cocoa
\* application does.
OneUI == \A u, v \in UI : u = v

\* With one such thread: a queued string is live, in one event only, and not the
\* one that is about to be queued.
StringsInv ==
  /\ \A j \in 1 .. Len(queue) :
       IF queue[j].id = "ConsoleInput"
       THEN queue[j].string > 0 /\ strings[queue[j].string] = "live"
       ELSE queue[j].string = 0
  /\ \A j, k \in 1 .. Len(queue) :
       queue[j].id = "ConsoleInput" /\ queue[j].string = queue[k].string => j = k
  /\ (\E u \in UI : ui[u]) =>
       /\ input > 0 /\ strings[input] = "live"
       /\ \A j \in 1 .. Len(queue) : queue[j].string # input

\* script.c:335 "Fence has already been notified.": the assertion holds
\* whenever Events.framedone hands the fence back.
NotifiedOnce == handler = "frame_done" /\ event.fence => ~processed

\* The frame that an iteration ends reaches the script with that iteration's
\* AdvanceTime in it, once, and with no other (Common.lua:36).
AdvancesOncePerFrame ==
  handler = "frame_done" /\ event.frame > 0 => advanced = <<event.frame>>

\* While the simulation of an iteration runs, the script has taken up every
\* frame of the iterations before: an unthreaded script has just been pumped,
\* a threaded one has notified the fence.
ScriptKeepsUp ==
  main = "tick" => \A i \in DOMAIN queue : queue[i].id = "AdvanceTime" => queue[i].frame = frame

\* Init comes once, and before any AdvanceTime (Common.lua:55).
InitComesFirst ==
  /\ inits <= 1
  /\ advanced # <<>> => inits = 1

\* Destroy is handled by the second iteration after kl_predestroy: the first one
\* takes up the frame that was queued before it (mainloop.c:112-148).
DestroyTakesTwo ==
  grace >= 2 /\ main \notin {"pump", "pumping", "wait"} => destroys = 1

\* What fm.h:127 promises: an application that gives the script one iteration
\* more has had Destroy handled when it has called kl_destroy.
DestroyHandled == main = "destroyed" /\ grace >= 1 => destroys = 1

\* The strings that ConsoleInput events carry are live, and each is carried by
\* one event: the dequeue frees none twice and hands out none that was freed.
StringsCarriedOnce ==
  \A i \in DOMAIN queue : queue[i].id = "ConsoleInput" =>
    /\ strings[queue[i].string] = "live"
    /\ \A j \in DOMAIN queue : queue[j].string = queue[i].string => i = j

\* An iteration that waits on the fence gets past it, unless an error has ended
\* the script's thread.
FenceWaitEnds == main = "wait" ~> main # "wait" \/ handler = "exited"

\* kl_destroy returns: the script thread comes out of its loop to be joined.
DestroyReturns == main = "stop" ~> main = "destroyed"
=============================================================================
