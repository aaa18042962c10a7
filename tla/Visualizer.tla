----------------------------- MODULE Visualizer -----------------------------
(***************************************************************************)
(* The two threads of PyViz: the simulation thread runs the simulator from *)
(* one target time to the next whenever the view thread gives it the go;   *)
(* the view thread runs the GTK main loop, most of whose callbacks read the*)
(* simulator under the same lock, and some under none. While               *)
(* update_view_timeout waits for the lock it runs the main loop itself, so *)
(* that callbacks nest: they are the frames of a stack, and only the last  *)
(* one runs.                                                               *)
(***************************************************************************)
EXTENDS Integers, Sequences, FiniteSets

CONSTANTS
  MaxTime,     \* bound: the time up to which the simulation is run
  MaxTimers,   \* bound: the timers that are started
  MaxPauses,   \* bound: the calls of PyViz::Pause
  NoTimer      \* _update_timeout_id = None

Timers == 1 .. MaxTimers

ASSUME VisualizerAssumption ==
  /\ {MaxTime, MaxPauses} \subseteq Nat
  /\ MaxTimers \in Nat \ {0}
  /\ NoTimer \notin Nat
-----------------------------------------------------------------------------
VARIABLES
  simPc,          \* where SimulationThread.run stands
  now,            \* Simulator::Now, in sample periods
  targetTime,     \* simulation.target_time
  lock,           \* who holds simulation.lock
  go,             \* simulation.go
  quit,           \* simulation.quit
  pauseMessages,  \* simulation.pause_messages
  made,           \* history: the pause messages made so far
  stack,          \* the callbacks that run in the view thread
  mainQuit,       \* whether gtk.main_quit was called
  play,           \* play_button.get_active()
  timers,         \* the timers that GLib has
  timerId,        \* _update_timeout_id
  started,        \* the number of timers started so far
  shown,          \* history: the pause messages that a dialog showed
  failed,         \* history: the timers whose update raised an exception
  lost            \* history: the pause messages that such an update had taken

simVars  == <<simPc, now, made>>
errVars  == <<failed, lost>>
userVars == <<play, timers, timerId, started, shown, errVars>>
vars     == <<simVars, targetTime, lock, go, quit, pauseMessages, stack,
              mainQuit, userVars>>

Messages == 1 .. MaxPauses
Frames   == [at: {"try", "pump", "update", "after"},
             timer: Timers, messages: SUBSET Messages]
            \union [at: {"acquire", "read", "peek", "join"},
                    timer: {NoTimer}, messages: {{}}]

\* A callback that is called, by a timer or (NoTimer) by another event.
Frame(pc, timer) == [at |-> pc, timer |-> timer, messages |-> {}]

Init ==
  /\ simPc = "while"
  /\ now = 0 /\ targetTime = 0
  /\ lock = "free"
  /\ go = FALSE /\ quit = FALSE
  /\ pauseMessages = {} /\ made = 0
  /\ stack = <<>> /\ mainQuit = FALSE
  /\ play = FALSE
  /\ timers = {1} /\ timerId = 1 /\ started = 1     \* by _speed_changed
  /\ shown = {} /\ failed = {} /\ lost = {}
-----------------------------------------------------------------------------
(* SimulationThread.run                                                    *)

SimGoto(from, to) == simPc = from /\ simPc' = to

SimWhile == /\ SimGoto("while", IF quit THEN "ended" ELSE "wait")
            /\ UNCHANGED <<now, made, targetTime, lock, go, quit,
                           pauseMessages, stack, mainQuit, userVars>>

SimWait == /\ go
           /\ SimGoto("wait", "clear")
           /\ UNCHANGED <<now, made, targetTime, lock, go, quit,
                          pauseMessages, stack, mainQuit, userVars>>

SimClear == /\ SimGoto("clear", "check")
            /\ go' = FALSE
            /\ UNCHANGED <<now, made, targetTime, lock, quit,
                           pauseMessages, stack, mainQuit, userVars>>

SimCheck == /\ SimGoto("check", IF quit THEN "ended" ELSE "acquire")
            /\ UNCHANGED <<now, made, targetTime, lock, go, quit,
                           pauseMessages, stack, mainQuit, userVars>>

\* Mutant: the simulation thread runs without the lock.
MutSimAcquireNothing == /\ SimGoto("acquire", "run")
                        /\ UNCHANGED <<now, made, targetTime, lock, go, quit,
                                       pauseMessages, stack, mainQuit, userVars>>

SimAcquire == /\ lock = "free"
              /\ SimGoto("acquire", "run")
              /\ lock' = "sim"
              /\ UNCHANGED <<now, made, targetTime, go, quit,
                             pauseMessages, stack, mainQuit, userVars>>

\* The simulator reaches the target, or the model calls Pause on the way, once
\* or more often.
SimRun ==
  /\ SimGoto("run", "while")
  /\ \/ /\ now' = IF targetTime > now THEN targetTime ELSE now
        /\ UNCHANGED <<made, pauseMessages>>
     \/ /\ made < MaxPauses /\ now < targetTime
        /\ now' \in now .. targetTime
        /\ made' \in made + 1 .. MaxPauses
        /\ pauseMessages' = pauseMessages \union (made + 1 .. made')
  /\ lock' = "free"
  /\ UNCHANGED <<targetTime, go, quit, stack, mainQuit, userVars>>

Sim == SimWhile \/ SimWait \/ SimClear \/ SimCheck \/ SimAcquire \/ SimRun
-----------------------------------------------------------------------------
(* The main loop and its callbacks.                                        *)

Depth == Len(stack)
At(pc) == Depth > 0 /\ stack[Depth].at = pc

Goto(pc) == stack' = [stack EXCEPT ![Depth] = [@ EXCEPT !.at = pc]]
Call(frame) == stack' = Append(stack, frame)
Return == stack' = SubSeq(stack, 1, Depth - 1)

\* The main loop dispatches a callback, or update_view_timeout does.
Dispatches == At("pump") \/ (Depth = 0 /\ ~mainQuit)

StartTimer ==
  /\ started < MaxTimers
  /\ started' = started + 1
  /\ timers' = (timers \ {timerId}) \union {started + 1}
  /\ timerId' = started + 1

\* Mutant: no timer is started while _update_timeout_id is not None.
MutPlayOnlyIfNone == /\ Dispatches /\ ~play
                     /\ play' = TRUE
                     /\ IF timerId = NoTimer THEN StartTimer
                        ELSE UNCHANGED <<timers, timerId, started>>
                     /\ UNCHANGED <<simVars, targetTime, lock, go, quit, pauseMessages,
                                    stack, mainQuit, shown, errVars>>

\* The user presses the play button.
Play == /\ Dispatches /\ ~play
        /\ play' = TRUE
        /\ StartTimer
        /\ UNCHANGED <<simVars, targetTime, lock, go, quit, pauseMessages,
                       stack, mainQuit, shown, errVars>>

Pause == /\ Dispatches /\ play
         /\ play' = FALSE
         /\ timers' = timers \ {timerId}
         /\ UNCHANGED <<simVars, targetTime, lock, go, quit, pauseMessages,
                        stack, mainQuit, timerId, started, shown, errVars>>

SpeedChanged == /\ Dispatches
                /\ StartTimer
                /\ UNCHANGED <<simVars, targetTime, lock, go, quit,
                               pauseMessages, stack, mainQuit, play, shown,
                               errVars>>

\* GLib does not call a timer's callback from within itself.
TimerFires(t) ==
  /\ Dispatches /\ t \in timers
  /\ \A i \in 1 .. Depth : stack[i].timer # t
  /\ Call(Frame("try", t))
  /\ UNCHANGED <<simVars, targetTime, lock, go, quit, pauseMessages, mainQuit,
                 userVars>>

TryLock == /\ At("try")
           /\ IF lock = "free" THEN lock' = "view" /\ Goto("update")
                               ELSE lock' = lock /\ Goto("pump")
           /\ UNCHANGED <<simVars, targetTime, go, quit, pauseMessages,
                          mainQuit, userVars>>

NoMoreEvents == /\ At("pump")
                /\ Goto("try")
                /\ UNCHANGED <<simVars, targetTime, lock, go, quit,
                               pauseMessages, mainQuit, userVars>>

UpdateView ==
  /\ At("update")
  /\ stack' = [stack EXCEPT ![Depth] = [at |-> "after", timer |-> @.timer,
                                        messages |-> pauseMessages]]
  /\ pauseMessages' = {}
  /\ targetTime' = IF now < MaxTime THEN now + 1 ELSE MaxTime
  /\ lock' = "free"
  /\ UNCHANGED <<simVars, go, quit, mainQuit, userVars>>

\* update_view raises an exception: the lock is released, the messages taken are
\* gone, and GLib, to which the callback returns nothing, drops the timer, of
\* which the view keeps the id.
UpdateRaises ==
  /\ At("update")
  /\ pauseMessages' = {}
  /\ lost' = lost \union pauseMessages
  /\ lock' = "free"
  /\ timers' = timers \ {stack[Depth].timer}
  /\ failed' = failed \union {stack[Depth].timer}
  /\ Return
  /\ UNCHANGED <<simVars, targetTime, go, quit, mainQuit, play, timerId, started,
                 shown>>

\* Mutant: the messages are cleared after they were shown, without the lock.
MutAfterUpdateClears ==
  /\ At("after")
  /\ LET top  == stack[Depth]
         stop == top.messages # {} /\ play
     IN /\ shown' = shown \union top.messages
        /\ play' = (play /\ ~stop)
        /\ timers' = timers \ ((IF stop THEN {timerId} ELSE {})
                               \union (IF play' THEN {} ELSE {top.timer}))
        /\ timerId' = IF play' THEN timerId ELSE NoTimer
        /\ go' = (go \/ play')
  /\ Return
  /\ pauseMessages' = {}
  /\ UNCHANGED <<simVars, targetTime, lock, quit, mainQuit, started, errVars>>

\* The rest of update_view_timeout. set_active(FALSE) calls the handler of the
\* play button if the button was active.
AfterUpdate ==
  /\ At("after")
  /\ LET top  == stack[Depth]
         stop == top.messages # {} /\ play
     IN /\ shown' = shown \union top.messages
        /\ play' = (play /\ ~stop)
        /\ timers' = timers \ ((IF stop THEN {timerId} ELSE {})
                               \union (IF play' THEN {} ELSE {top.timer}))
        /\ timerId' = IF play' THEN timerId ELSE NoTimer
        /\ go' = (go \/ play')
  /\ Return
  /\ UNCHANGED <<simVars, targetTime, lock, quit, pauseMessages, mainQuit,
                 started, errVars>>

\* update_model, tooltip_query, the node drag and the other callbacks that
\* acquire the lock, read the simulator and release the lock.
ReaderCalled == /\ Dispatches
                /\ Call(Frame("acquire", NoTimer))
                /\ UNCHANGED <<simVars, targetTime, lock, go, quit,
                               pauseMessages, mainQuit, userVars>>

ReaderAcquires == /\ At("acquire") /\ lock = "free"
                  /\ lock' = "view"
                  /\ Goto("read")
                  /\ UNCHANGED <<simVars, targetTime, go, quit, pauseMessages,
                                 mainQuit, userVars>>

\* Mutant: the callback returns early and keeps the lock.
MutReaderReturnsLocked == /\ At("read")
                          /\ Return
                          /\ UNCHANGED <<simVars, targetTime, lock, go, quit,
                                         pauseMessages, mainQuit, userVars>>

ReaderReturns == /\ At("read")
                 /\ lock' = "free"
                 /\ Return
                 /\ UNCHANGED <<simVars, targetTime, go, quit, pauseMessages,
                                mainQuit, userVars>>

\* autoscale_view, the show-all-transmissions button and the menu of a node read
\* the simulator without the lock, whatever the simulation thread is doing.
UnlockedReaderCalled == /\ Dispatches
                        /\ Call(Frame("peek", NoTimer))
                        /\ UNCHANGED <<simVars, targetTime, lock, go, quit,
                                       pauseMessages, mainQuit, userVars>>

\* The button then takes the lock to set the nodes of interest.
PeekReturns == /\ At("peek")
               /\ Return \/ Goto("acquire")
               /\ UNCHANGED <<simVars, targetTime, lock, go, quit, pauseMessages,
                              mainQuit, userVars>>

\* Mutant: the simulation thread is not woken.
MutQuitSilent == /\ Dispatches /\ ~quit
                 /\ timers' = timers \ {timerId}
                 /\ timerId' = NoTimer
                 /\ quit' = TRUE
                 /\ Call(Frame("join", NoTimer))
                 /\ UNCHANGED <<simVars, targetTime, lock, go, pauseMessages,
                                mainQuit, play, started, shown, errVars>>

\* The window is closed.
Quit == /\ Dispatches /\ ~quit
        /\ timers' = timers \ {timerId}
        /\ timerId' = NoTimer
        /\ quit' = TRUE
        /\ go' = TRUE
        /\ Call(Frame("join", NoTimer))
        /\ UNCHANGED <<simVars, targetTime, lock, pauseMessages, mainQuit,
                       play, started, shown, errVars>>

Joined == /\ At("join") /\ simPc = "ended"
          /\ mainQuit' = TRUE
          /\ Return
          /\ UNCHANGED <<simVars, targetTime, lock, go, quit, pauseMessages,
                         userVars>>

View == \/ TryLock \/ UpdateView \/ UpdateRaises \/ AfterUpdate
        \/ ReaderAcquires \/ ReaderReturns \/ PeekReturns \/ Joined
User == \/ Play \/ Pause \/ SpeedChanged
        \/ ReaderCalled \/ UnlockedReaderCalled \/ Quit

Next == Sim \/ View \/ NoMoreEvents \/ User \/ \E t \in Timers : TimerFires(t)

Spec == Init /\ [][Next]_vars

\* Both threads run, and the main loop sleeps with the lock free long enough for
\* the simulation thread to get it; a burst of events ends and a timer that is
\* due fires some day, whatever callbacks come in between.
FairSpec == /\ Spec
            /\ WF_vars(Sim) /\ SF_vars(SimAcquire) /\ WF_vars(View)
            /\ SF_vars(NoMoreEvents)
            /\ \A t \in Timers : SF_vars(TimerFires(t))
=============================================================================
