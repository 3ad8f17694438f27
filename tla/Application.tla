----------------------------- MODULE Application -----------------------------
(***************************************************************************)
(* The application as a whole: the frames of module CocoaApp are the       *)
(* iterations of module MainloopClock.  The display link's thread goes     *)
(* through an iteration step by step while the other thread goes on, to    *)
(* kl_destroy if the user quits, and time passes at any point.             *)
(***************************************************************************)
EXTENDS MainloopClock, CocoaApp

\* The iterations of an application without a main script all fail.
ASSUME FailureAssumption == MayFail

allVars == <<vars, appVars>>

ApplicationInit == Init /\ AppInit

\* getFrameForTime calls kl_mainloop_iteration.
StartIteration == BeginFrame /\ Begin

\* The script's handlers run while it is pumped, the user interface's thread at
\* any time.
RunHandler == at = "pump" /\ HandleEvent /\ UNCHANGED vars

\* When the iteration has returned, the frame is drawn and ends.
FinishFrame == at = "outside" /\ (DrawFrame \/ EndFrame) /\ UNCHANGED vars

\* A step of the iteration; without a main script, there is no handler for events
\* and the pump fails.
StepIteration ==
  /\ Iteration
  /\ at = "pump" /\ ~main_ran => at' = "outside"
  /\ UNCHANGED appVars

ApplicationNext ==
  \/ StartIteration \/ StepIteration \/ RunHandler \/ FinishFrame
  \/ (UI \/ Terminated) /\ UNCHANGED vars
  \/ (\E d \in 1 .. MaxStep : Pass(d)) /\ UNCHANGED appVars

\* The thread that began an iteration keeps running.
ApplicationSpec ==
  ApplicationInit /\ [][ApplicationNext]_allVars /\ WF_allVars(StepIteration)
=============================================================================
