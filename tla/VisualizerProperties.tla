------------------------ MODULE VisualizerProperties ------------------------
(***************************************************************************)
(* What the visualizer promises to its user.                               *)
(***************************************************************************)
EXTENDS Visualizer

\* The variables hold what the Python variables hold; a thread has the lock
\* exactly while it is between its acquire and its release, and a callback is
\* interrupted by others only where it runs the main loop.
VisualizerTypeOK ==
  /\ simPc \in {"while", "wait", "clear", "check", "acquire", "run", "ended"}
  /\ {now, targetTime} \subseteq 0 .. MaxTime
  /\ lock \in {"free", "sim", "view"}
  /\ {go, quit, mainQuit, play} \subseteq BOOLEAN
  /\ made \in 0 .. MaxPauses
  /\ pauseMessages \subseteq 1 .. made
  /\ shown \subseteq 1 .. made
  /\ stack \in Seq(Frames)
  /\ started \in 0 .. MaxTimers
  /\ timers \subseteq 1 .. started
  /\ timerId \in (1 .. started) \union {NoTimer}
  /\ failed \subseteq Timers /\ lost \subseteq 1 .. made
  /\ lock = "sim" <=> simPc = "run"
  /\ lock = "view" <=> At("update") \/ At("read")
  /\ \A i \in 1 .. Depth - 1 : stack[i].at = "pump"

\* ns-3 is not thread safe: no callback that takes the lock to read the simulator
\* reads it while the simulation thread runs it, however the callbacks nest. The
\* callbacks that take no lock do so, and nothing is promised of them.
LockedReadsExclusive == simPc = "run" => ~At("update") /\ ~At("read")

InHands == UNION {stack[i].messages : i \in DOMAIN stack}

\* A pause message is never lost between the threads: it waits in the list, or a
\* callback is about to show it, or it was shown. Only an update that raises an
\* exception loses what it has taken.
NoPauseLost == 1 .. made \subseteq pauseMessages \union InHands \union shown \union lost

\* While the play button is pressed there is a timer that updates the view, even
\* if the button or the speed was changed from within an update, unless the
\* update of the very timer that the view knows raised an exception.
PlayHasTimer == play /\ ~quit => timers # {} \/ timerId \in failed

\* While the button stays pressed the simulation goes on, unless the update of
\* its timer raised: no go signal is lost between the threads.
PlayingAdvances ==
  \A t \in 0 .. MaxTime - 1 :
    (play /\ now = t) ~> (now > t \/ ~play \/ quit \/ timerId \in failed)

\* Closing the window ends the simulation thread and the main loop: neither
\* waits for the other for ever, whatever the simulation thread was doing.
QuitEnds == quit ~> (simPc = "ended" /\ mainQuit /\ Depth = 0)
=============================================================================
