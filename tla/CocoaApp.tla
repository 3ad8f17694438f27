------------------------------ MODULE CocoaApp ------------------------------
(***************************************************************************)
(* The life of the runtime in the application that ships with it: the user *)
(* interface's thread initialises it, sets up rendering and tears it down  *)
(* (KLAppDelegate.m, core/lifecycle.c, render/opengl/render.c, core/log.c) *)
(* and a display link's thread makes the frames (KLOpenGLView.m).  The     *)
(* script is unthreaded: its handlers run in the display link's frames.    *)
(*                                                                         *)
(* What a frame does with events is module ScriptFrames; here the script   *)
(* handles any number of those queued, in their order.                     *)
(*                                                                         *)
(* The initial states, steps and types are named App-, apart from those of *)
(* module MainloopClock, with which module Application composes this one.  *)
(***************************************************************************)
EXTENDS Naturals, Sequences

CONSTANT MaxQueued    \* bound: the events that are queued at a time

\* Launching alone posts Init and RenderInit.
ASSUME QueueAssumption == MaxQueued \in Nat /\ 2 <= MaxQueued

VARIABLES
  ui,               \* where the user interface's thread is
  display,          \* where the display link's thread is
  g_shutting_down,
  timer,            \* the timer of applicationShouldTerminate is set
  live,             \* the objects that are allocated
  main_ran,         \* the main script was found and left a handler for events
  queue,            \* the events
  g_script_render_context,  \* what the script creates its resources with
  resources,        \* the script holds userdata with a finaliser that needs it
  callback,         \* g_console_line_callback: the default one or not
  sklog,            \* the log is open
  overtaken         \* history: the frame under way was so when the user quit

runtime == <<live, main_ran, g_script_render_context, resources>>
log == <<callback, sklog>>
appVars == <<ui, display, g_shutting_down, timer, queue, runtime, log, overtaken>>

Object == {"script", "processes", "effects", "context"}
Event == {"Init", "RenderInit", "RenderResize", "ConsoleInput", "Destroy"}

AppInit ==
  /\ ui = "launching" /\ display = "off"
  /\ g_shutting_down = FALSE /\ timer = FALSE
  /\ live = {} /\ main_ran = FALSE /\ queue = <<>>
  /\ g_script_render_context = "null" /\ resources = FALSE
  /\ callback = "default" /\ sklog = FALSE
  /\ overtaken = FALSE

-----------------------------------------------------------------------------
(* The user interface's thread.                                            *)

\* kl_console_line_callback_assign: the default cannot be named outside log.c.
AssignCallback ==
  /\ ui \in {"launching", "launched"} /\ display = "off"
  /\ callback' = "application"
  /\ sklog' = IF callback = "default" THEN FALSE ELSE sklog
  /\ UNCHANGED <<ui, display, g_shutting_down, timer, queue, runtime, overtaken>>

\* kl_initialize.  Without a main script it fails after all is allocated, and
\* the application goes on: the result is not looked at.
Initialize(found) ==
  /\ ui = "launching"
  /\ sklog' = IF callback = "default" THEN TRUE ELSE sklog
  /\ live' = {"effects", "script", "processes"}
  /\ main_ran' = found
  /\ queue' = IF found THEN <<"Init">> ELSE <<>>
  /\ ui' = "launched"
  /\ UNCHANGED <<display, g_shutting_down, timer, g_script_render_context, resources, callback, overtaken>>

\* prepareOpenGL: kl_init_rendering; then the display link is started.
InitRendering ==
  /\ ui = "launched" /\ display = "off"
  /\ live' = live \union {"context"}
  /\ g_script_render_context' = "context"
  /\ queue' = Append(queue, "RenderInit")
  /\ display' = "idle"
  /\ UNCHANGED <<ui, g_shutting_down, timer, main_ran, resources, log, overtaken>>

\* reshape, which AppKit calls after prepareOpenGL, and onTextEntry.
Send(event) ==
  /\ ui = "launched" /\ display # "off" /\ Len(queue) < MaxQueued
  /\ queue' = Append(queue, event)
  /\ UNCHANGED <<ui, display, g_shutting_down, timer, runtime, log, overtaken>>

\* applicationShouldTerminate, with kl_predestroy.
ShouldTerminate ==
  /\ ui = "launched" /\ display # "off"
  /\ g_shutting_down' = TRUE
  /\ queue' = Append(queue, "Destroy")
  /\ timer' = TRUE
  /\ ui' = "waiting"
  /\ overtaken' = (display # "idle")
  /\ UNCHANGED <<display, runtime, log>>

\* doTerminate, half a second later.  Nobody waits for the frame that may still
\* be under way.
WillTerminate ==
  /\ ui = "waiting" /\ timer
  /\ timer' = FALSE /\ ui' = "closing"
  /\ UNCHANGED <<display, g_shutting_down, queue, runtime, log, overtaken>>

\* Mutant of kl_destroy: the log is closed first.
DestroyScriptAfterLog ==
  /\ ui = "closing"
  /\ IF sklog /\ callback = "default"
     THEN sklog' = FALSE /\ UNCHANGED <<live, resources, queue, ui>>
     ELSE /\ live' = live \ {"script"} /\ resources' = FALSE /\ queue' = <<>>
          /\ ui' = "freeing" /\ UNCHANGED sklog
  /\ UNCHANGED <<display, g_shutting_down, timer, main_ran, g_script_render_context, callback, overtaken>>

\* kl_destroy: kl_script_destroy closes Lua, whose finalisers run, and frees the
\* queue.
DestroyScript ==
  /\ ui = "closing"
  /\ live' = live \ {"script"} /\ resources' = FALSE /\ queue' = <<>>
  /\ ui' = "freeing"
  /\ UNCHANGED <<display, g_shutting_down, timer, main_ran, g_script_render_context, log, overtaken>>

\* The process manager and the effect manager go, and the log.
FreeManagers ==
  /\ ui = "freeing"
  /\ live' = live \ {"processes", "effects"}
  /\ sklog' = IF callback = "default" THEN FALSE ELSE sklog
  /\ ui' = "terminated"
  /\ UNCHANGED <<display, g_shutting_down, timer, queue, main_ran, g_script_render_context,
                 resources, callback, overtaken>>

UI ==
  \/ AssignCallback \/ (\E found \in BOOLEAN : Initialize(found)) \/ InitRendering
  \/ \E event \in {"RenderResize", "ConsoleInput"} : Send(event)
  \/ ShouldTerminate \/ WillTerminate \/ DestroyScript \/ FreeManagers

-----------------------------------------------------------------------------
(* The display link's thread: getFrameForTime.                             *)

\* Mutant: the flag is not looked at.
BeginFrameAlways ==
  /\ display = "idle"
  /\ display' = "iterate"
  /\ UNCHANGED <<ui, g_shutting_down, timer, queue, runtime, log, overtaken>>

\* A frame begins unless the application is shutting down.
BeginFrame ==
  /\ display = "idle" /\ ~g_shutting_down
  /\ display' = "iterate"
  /\ UNCHANGED <<ui, g_shutting_down, timer, queue, runtime, log, overtaken>>

\* A handler of the script runs; that of RenderInit creates resources.
HandleEvent ==
  /\ display = "iterate" /\ main_ran /\ queue # <<>>
  /\ queue' = Tail(queue)
  /\ resources' = (resources \/ Head(queue) = "RenderInit")
  /\ UNCHANGED <<ui, display, g_shutting_down, timer, live, main_ran, g_script_render_context, log, overtaken>>

\* Whatever the iteration returned, a frame is drawn.
DrawFrame ==
  /\ display = "iterate"
  /\ display' = "draw"
  /\ UNCHANGED <<ui, g_shutting_down, timer, queue, runtime, log, overtaken>>

EndFrame ==
  /\ display = "draw"
  /\ display' = "idle" /\ overtaken' = FALSE
  /\ UNCHANGED <<ui, g_shutting_down, timer, queue, runtime, log>>

Display == BeginFrame \/ HandleEvent \/ DrawFrame \/ EndFrame

\* The application has quit.
Terminated == ui = "terminated" /\ UNCHANGED appVars

AppNext == UI \/ Display \/ Terminated

\* When the application is launched, resized and quit is up to the user.
AppSpec == AppInit /\ [][AppNext]_appVars

-----------------------------------------------------------------------------
AppTypeOK ==
  /\ ui \in {"launching", "launched", "waiting", "closing", "freeing", "terminated"}
  /\ display \in {"off", "idle", "iterate", "draw"}
  /\ g_shutting_down \in BOOLEAN /\ timer \in BOOLEAN
  /\ live \subseteq Object /\ main_ran \in BOOLEAN
  /\ queue \in Seq(Event) /\ Len(queue) <= MaxQueued + 1
  /\ g_script_render_context \in {"null", "context"} /\ resources \in BOOLEAN
  /\ callback \in {"default", "application"} /\ sklog \in BOOLEAN /\ overtaken \in BOOLEAN

\* kl_destroy may come under one frame only, the one that was under way when the
\* user quit; what that one meets is not followed.  Every other finds all that it
\* uses, the log to print to and, when it comes to RenderInit, a context to create
\* resources with, and no lua_close comes under its handlers.
FramesUseLive ==
  display \in {"iterate", "draw"} /\ ~overtaken =>
    /\ live = Object /\ (callback = "default" => sklog)
    /\ ui \notin {"closing", "freeing", "terminated"}
    /\ display = "iterate" /\ queue # <<>> /\ Head(queue) = "RenderInit"
         => g_script_render_context \in live

\* The finalisers that lua_close runs have the context of the resources they
\* delete, and the log.
FinalisersUseLive ==
  /\ resources => g_script_render_context \in live
  /\ ui = "closing" /\ callback = "default" => sklog
=============================================================================
