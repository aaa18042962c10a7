-------------------------- MODULE VisualizerProofs --------------------------
(***************************************************************************)
(* Proofs about Visualizer, for any number of timers, of pauses and of     *)
(* sample periods, and callbacks nested to any depth.                      *)
(*                                                                         *)
(* That the lock keeps its users apart is inductive once it is said who    *)
(* holds the lock, and that callbacks nest only where one of them runs the *)
(* main loop: the callback that holds the lock is then the last one,   *)
(* and the one it returns to does not hold it.                             *)
(***************************************************************************)
EXTENDS VisualizerProperties, SequenceTheorems, TLAPS

\* The stack: callbacks are interrupted in their main loop only, and a callback
\* has messages in its hands only between its two halves.
StackOK ==
  /\ stack \in Seq(Frames)
  /\ \A i \in 1 .. Depth - 1 : stack[i].at = "pump"
  /\ \A i \in 1 .. Depth : /\ stack[i].messages \subseteq 1 .. made
                           /\ stack[i].at # "after" => stack[i].messages = {}

DepthNat == Depth \in Nat /\ DOMAIN stack = 1 .. Depth

LEMMA StackDepth ==
  ASSUME StackOK
  PROVE  DepthNat /\ \A i \in 1 .. Depth : stack[i] \in Frames
  BY DEF StackOK, DepthNat, Depth

\* A callback is called.
LEMMA CallStack ==
  ASSUME StackOK, Dispatches, NEW frame \in Frames, frame.messages = {},
         Call(frame), made' = made
  PROVE  /\ StackOK'
         /\ \A pc : At(pc)' <=> pc = frame.at
         /\ InHands' = InHands
  <1>. DepthNat /\ stack \in Seq(Frames)
    BY StackDepth DEF StackOK
  <1>1. stack' = Append(stack, frame) /\ stack' \in Seq(Frames)
    BY DEF Call
  <1>2. /\ Depth' = Depth + 1 /\ DOMAIN stack' = 1 .. Depth + 1
        /\ stack'[Depth + 1] = frame
        /\ \A i \in 1 .. Depth : stack'[i] = stack[i]
    BY <1>1 DEF Depth
  <1>3. \A i \in 1 .. Depth : stack[i].at = "pump"
    <2>1. CASE Depth = 0
      BY <2>1
    <2>2. CASE Depth # 0
      <3>1. stack[Depth].at = "pump"
        BY <2>2 DEF Dispatches, At
      <3>2. \A i \in 1 .. Depth : i = Depth \/ i \in 1 .. Depth - 1
        BY DEF DepthNat
      <3>. QED
        BY <3>1, <3>2 DEF StackOK
    <2>. QED
      BY <2>1, <2>2
  <1>4. \A i \in 1 .. Depth + 1 : i = Depth + 1 \/ i \in 1 .. Depth
    BY DEF DepthNat
  <1>5. StackOK'
    <2>1. \A i \in 1 .. Depth' - 1 : stack'[i].at = "pump"
      BY <1>2, <1>3 DEF DepthNat
    <2>2. \A i \in 1 .. Depth' : /\ stack'[i].messages \subseteq 1 .. made
                                 /\ stack'[i].at # "after" => stack'[i].messages = {}
      BY <1>2, <1>4 DEF StackOK
    <2>. QED
      BY <1>1, <2>1, <2>2 DEF StackOK
  <1>6. \A pc : At(pc)' <=> pc = frame.at
    BY <1>2 DEF At, DepthNat
  <1>7. InHands' = InHands
    BY <1>2, <1>4 DEF InHands, DepthNat
  <1>. QED
    BY <1>5, <1>6, <1>7

\* The running callback is replaced by its next step.
LEMMA ReplaceStack ==
  ASSUME StackOK, Depth > 0, NEW frame \in Frames,
         frame.messages \subseteq 1 .. made',
         frame.at # "after" => frame.messages = {},
         stack' = [stack EXCEPT ![Depth] = frame], made' = made
  PROVE  /\ StackOK'
         /\ \A pc : At(pc)' <=> pc = frame.at
         /\ stack'[Depth] = frame /\ Depth' = Depth
         /\ \A i \in 1 .. Depth - 1 : stack'[i] = stack[i]
  <1>. DepthNat /\ stack \in Seq(Frames)
    BY StackDepth DEF StackOK
  <1>1. /\ stack' \in Seq(Frames) /\ Depth' = Depth /\ stack'[Depth] = frame
        /\ \A i \in 1 .. Depth - 1 : stack'[i] = stack[i]
    <2> DEFINE n == Depth
    <2>1. n \in 1 .. Len(stack) /\ n = Len(stack) /\ n \in Nat
      BY DEF DepthNat, Depth
    <2>2. stack' = [stack EXCEPT ![n] = frame]
      OBVIOUS
    <2> HIDE DEF n
    <2>3. stack' \in Seq(Frames) /\ Len(stack') = Len(stack)
      <3>1. stack \in [1 .. n -> Frames]
        BY <2>1
      <3>2. stack' \in [1 .. n -> Frames] /\ DOMAIN stack' = 1 .. n
        BY <2>2, <3>1
      <3>3. stack' \in Seq(Frames)
        BY <2>1, <3>2
      <3>. QED
        BY <2>1, <3>2, <3>3
    <2>4. stack'[n] = frame /\ \A i \in 1 .. n - 1 : stack'[i] = stack[i]
      BY <2>1, <2>2
    <2>. QED
      BY <2>1, <2>3, <2>4 DEF n, Depth
  <1>2. \A i \in 1 .. Depth : i = Depth \/ i \in 1 .. Depth - 1
    BY DEF DepthNat
  <1>3. StackOK'
    <2>1. \A i \in 1 .. Depth : /\ stack'[i].messages \subseteq 1 .. made
                                /\ stack'[i].at # "after" => stack'[i].messages = {}
      BY <1>1, <1>2 DEF StackOK
    <2>. QED
      BY <1>1, <2>1 DEF StackOK
  <1>4. \A pc : At(pc)' <=> pc = frame.at
    BY <1>1 DEF At, DepthNat
  <1>. QED
    BY <1>1, <1>3, <1>4

\* The running callback goes on and keeps what it has in its hands.
LEMMA GotoStack ==
  ASSUME StackOK, NEW from, At(from), NEW to,
         \/ from \in {"try", "pump"} /\ to \in {"try", "pump", "update"}
         \/ from \in {"acquire", "peek"} /\ to \in {"acquire", "read"},
         Goto(to), made' = made
  PROVE  /\ StackOK'
         /\ \A pc : At(pc)' <=> pc = to
         /\ InHands' = InHands
  <1>. DepthNat /\ Depth > 0
    BY StackDepth DEF At
  <1> DEFINE top   == stack[Depth]
             frame == [top EXCEPT !.at = to]
  <1>1. Depth \in 1 .. Depth
    BY DEF DepthNat
  <1>2. top \in Frames /\ top.at = from /\ top.messages = {}
    BY <1>1, StackDepth DEF StackOK, At
  <1>3. frame \in Frames /\ frame.at = to /\ frame.messages = {}
    BY <1>2 DEF Frames
  <1>4. stack' = [stack EXCEPT ![Depth] = frame]
    BY DEF Goto
  <1> HIDE DEF frame, top
  <1>5. /\ StackOK' /\ \A pc : At(pc)' <=> pc = frame.at
        /\ stack'[Depth] = frame /\ Depth' = Depth
        /\ \A i \in 1 .. Depth - 1 : stack'[i] = stack[i]
    BY <1>3, <1>4, ReplaceStack
  <1>6. InHands' = InHands
    <2>1. DOMAIN stack' = DOMAIN stack
      BY <1>4
    <2>2. \A i \in 1 .. Depth : i = Depth \/ i \in 1 .. Depth - 1
      BY DEF DepthNat
    <2>3. \A i \in 1 .. Depth : stack'[i].messages = stack[i].messages
      BY <1>2, <1>3, <1>5, <2>2 DEF top
    <2>. QED
      BY <2>1, <2>3 DEF InHands, DepthNat
  <1>. QED
    BY <1>3, <1>5, <1>6

\* The running callback returns to the main loop of the one below it.
LEMMA ReturnStack ==
  ASSUME StackOK, Depth > 0, Return, made' = made
  PROVE  /\ StackOK'
         /\ \A pc : At(pc)' => pc = "pump"
         /\ InHands \subseteq InHands' \union stack[Depth].messages
         /\ InHands' \subseteq InHands
         /\ stack[Depth] \in Frames /\ stack[Depth].messages \subseteq 1 .. made
  <1>. DepthNat /\ stack \in Seq(Frames)
    BY StackDepth DEF StackOK
  <1>1. \A i \in 1 .. Depth - 1 : i \in 1 .. Depth /\ stack[i] \in Frames
    BY StackDepth DEF DepthNat
  <1>2. /\ stack' \in Seq(Frames) /\ Depth' = Depth - 1
        /\ \A i \in 1 .. Depth - 1 : stack'[i] = stack[i]
    <2> DEFINE n == Depth - 1
    <2>1. n \in Nat /\ n \in Int /\ 1 \in Int /\ n - 1 + 1 = n
      BY DEF DepthNat
    <2>2. stack' = SubSeq(stack, 1, n)
      BY DEF Return
    <2>3. \A i \in 1 .. n : stack[i] \in Frames
      BY <1>1
    <2> HIDE DEF n
    <2>4. /\ stack' \in Seq(Frames)
          /\ Len(stack') = IF 1 <= n THEN n - 1 + 1 ELSE 0
          /\ \A i \in 1 .. n - 1 + 1 : stack'[i] = stack[1 + i - 1]
      BY <2>1, <2>2, <2>3, SubSeqProperties
    <2>5. Len(stack') = n /\ \A i \in 1 .. n : stack'[i] = stack[i]
      BY <2>1, <2>4
    <2>. QED
      BY <2>4, <2>5 DEF n, Depth
  <1>3. DOMAIN stack' = 1 .. Depth - 1
    BY <1>2 DEF Depth
  <1>4. StackOK'
    <2>1. \A i \in 1 .. Depth' - 1 : i \in 1 .. Depth - 1
      BY <1>2 DEF DepthNat
    <2>. QED
      BY <1>1, <1>2, <2>1 DEF StackOK
  <1>5. \A pc : At(pc)' => pc = "pump"
    <2>1. Depth' > 0 => Depth' \in 1 .. Depth - 1
      BY <1>2 DEF DepthNat
    <2>. QED
      BY <1>2, <2>1 DEF At, StackOK
  <1>6. \A i \in 1 .. Depth : i = Depth \/ i \in 1 .. Depth - 1
    BY DEF DepthNat
  <1>7. InHands \subseteq InHands' \union stack[Depth].messages
    BY <1>2, <1>3, <1>6 DEF InHands, DepthNat
  <1>8. InHands' \subseteq InHands
    BY <1>1, <1>2, <1>3 DEF InHands, DepthNat
  <1>9. Depth \in 1 .. Depth
    BY DEF DepthNat
  <1>. QED
    BY <1>4, <1>5, <1>7, <1>8, <1>9, StackDepth DEF StackOK
-----------------------------------------------------------------------------
Values ==
  /\ simPc \in {"while", "wait", "clear", "check", "acquire", "run", "ended"}
  /\ now \in 0 .. MaxTime /\ targetTime \in 0 .. MaxTime
  /\ lock \in {"free", "sim", "view"}
  /\ made \in 0 .. MaxPauses
  /\ pauseMessages \subseteq 1 .. made
  /\ shown \subseteq 1 .. made
  /\ started \in 0 .. MaxTimers
  /\ timers \subseteq 1 .. started
  /\ timerId \in (1 .. started) \union {NoTimer}
  /\ failed \subseteq Timers /\ lost \subseteq 1 .. made

Flags == {go, quit, mainQuit, play} \subseteq BOOLEAN

\* Who holds the lock.
LockOwner == /\ lock = "sim" <=> simPc = "run"
             /\ lock = "view" <=> At("update") \/ At("read")

\* The timer of which the view knows is running, or its update raised.
TimerKnown == play /\ ~quit => timerId \in timers \union failed

ViewInv == Values /\ LockOwner /\ StackOK /\ NoPauseLost /\ TimerKnown

LEMMA AtOnce == \A p, q : At(p) /\ At(q) => p = q
  BY DEF At

\* A callback is called only while no other one holds the lock.
LEMMA DispatchesUnlocked == ASSUME Dispatches PROVE ~At("update") /\ ~At("read")
  BY AtOnce DEF Dispatches, At

LEMMA SameStack ==
  ASSUME StackOK, stack' = stack, made' = made
  PROVE  StackOK' /\ InHands' = InHands /\ \A pc : At(pc)' <=> At(pc)
  BY DEF StackOK, InHands, At, Depth

LEMMA FrameType ==
  ASSUME NEW pc, NEW t, \/ pc = "try" /\ t \in Timers
                        \/ pc \in {"acquire", "peek", "join"} /\ t = NoTimer
  PROVE  /\ Frame(pc, t) \in Frames /\ Frame(pc, t).messages = {}
         /\ Frame(pc, t).at = pc
  BY DEF Frame, Frames

\* The flags stay Boolean.
LEMMA NextFlags == Flags /\ [Next]_vars => Flags'
  <1> SUFFICES ASSUME Flags, [Next]_vars
               PROVE  Flags'
    OBVIOUS
  <1>1. CASE UNCHANGED <<quit, mainQuit, play>> /\ go' \in {go, FALSE}
    BY <1>1, Zenon DEF Flags
  <1>2. CASE Play \/ Pause \/ Quit \/ Joined
    BY <1>2, Zenon DEF Play, Pause, Quit, Joined, Flags, userVars
  <1>3. CASE AfterUpdate
    <2>1. UNCHANGED <<quit, mainQuit>>
      BY <1>3 DEF AfterUpdate
    <2>2. play' \in BOOLEAN /\ go' \in BOOLEAN
      BY <1>3, Zenon DEF AfterUpdate
    <2>. QED
      BY <2>1, <2>2, Zenon DEF Flags
  <1>4. \/ Sim \/ UpdateView \/ UpdateRaises \/ TryLock \/ ReaderAcquires
        \/ ReaderReturns \/ PeekReturns \/ NoMoreEvents \/ SpeedChanged \/ ReaderCalled
        \/ UnlockedReaderCalled \/ (\E t \in Timers : TimerFires(t))
        \/ UNCHANGED vars
        => UNCHANGED <<quit, mainQuit, play>> /\ go' \in {go, FALSE}
    BY DEF Sim, SimWhile, SimWait, SimClear, SimCheck, SimAcquire, SimRun, UpdateView,
           UpdateRaises, TryLock, ReaderAcquires, ReaderReturns, PeekReturns,
           NoMoreEvents, SpeedChanged, ReaderCalled, UnlockedReaderCalled, TimerFires,
           vars, userVars
  <1>. QED
    BY <1>1, <1>2, <1>3, <1>4 DEF Next, View, User

LEMMA NextViewInv == ViewInv /\ [Next]_vars => ViewInv'
  <1> SUFFICES ASSUME ViewInv, [Next]_vars
               PROVE  ViewInv'
    OBVIOUS
  <1>. StackOK /\ Values /\ LockOwner /\ NoPauseLost /\ TimerKnown
    BY DEF ViewInv
  <1>. MaxTime \in Nat /\ MaxPauses \in Nat /\ MaxTimers \in Nat
    BY VisualizerAssumption
  <1>1. CASE SimWhile \/ SimWait \/ SimClear \/ SimCheck \/ SimAcquire
    <2>1. UNCHANGED <<now, made, targetTime, quit, pauseMessages, stack, userVars>>
      BY <1>1 DEF SimWhile, SimWait, SimClear, SimCheck, SimAcquire
    <2>2. /\ StackOK' /\ InHands' = InHands
          /\ \A pc : At(pc)' <=> At(pc)
      BY <2>1, SameStack
    <2>3. /\ simPc' \in {"while", "wait", "clear", "check", "acquire", "run", "ended"}
          /\ \/ lock' = lock /\ simPc # "run" /\ simPc' # "run"
             \/ lock = "free" /\ lock' = "sim" /\ simPc' = "run"
      BY <1>1 DEF SimWhile, SimWait, SimClear, SimCheck, SimAcquire, SimGoto
    <2>4. Values'
      BY <2>1, <2>3 DEF Values, userVars, errVars
    <2>5. LockOwner'
      BY <2>2, <2>3 DEF LockOwner
    <2>6. NoPauseLost' /\ TimerKnown'
      BY <2>1, <2>2 DEF NoPauseLost, TimerKnown, userVars, errVars
    <2>. QED
      BY <2>2, <2>4, <2>5, <2>6 DEF ViewInv
  <1>2. CASE SimRun
    <2>1. /\ UNCHANGED <<targetTime, quit, stack, userVars>>
          /\ simPc = "run" /\ simPc' = "while" /\ lock' = "free"
      BY <1>2 DEF SimRun, SimGoto
    <2>2. /\ now' \in 0 .. MaxTime /\ made' \in made .. MaxPauses
          /\ pauseMessages \subseteq pauseMessages'
          /\ pauseMessages' \subseteq 1 .. made'
          /\ 1 .. made' \subseteq (1 .. made) \union pauseMessages'
      <3>1. CASE UNCHANGED <<made, pauseMessages>>
        BY <1>2, <3>1 DEF SimRun, Values
      <3>2. CASE /\ made < MaxPauses /\ made' \in made + 1 .. MaxPauses
                 /\ pauseMessages' = pauseMessages \union (made + 1 .. made')
        <4>1. made \in Nat /\ made' \in made .. MaxPauses
          BY <3>2 DEF Values
        <4>2. now' \in 0 .. MaxTime
          BY <1>2, <3>2 DEF SimRun, Values
        <4>3. 1 .. made' \subseteq (1 .. made) \union (made + 1 .. made')
          BY <3>2, <4>1
        <4>4. pauseMessages' \subseteq 1 .. made'
          BY <3>2, <4>1 DEF Values
        <4>. QED
          BY <3>2, <4>1, <4>2, <4>3, <4>4
      <3>. QED
        BY <1>2, <3>1, <3>2 DEF SimRun
    <2>3. 1 .. made \subseteq 1 .. made'
      BY <2>2 DEF Values
    <2>4. /\ StackOK' /\ InHands' = InHands
          /\ \A pc : At(pc)' <=> At(pc)
      BY <2>1, <2>3 DEF StackOK, InHands, At, Depth
    <2>5. Values'
      BY <2>1, <2>2, <2>3 DEF Values, userVars, errVars
    <2>6. LockOwner'
      BY <2>1, <2>4 DEF LockOwner
    <2>7. NoPauseLost'
      BY <2>1, <2>2, <2>4 DEF NoPauseLost, userVars, errVars
    <2>8. TimerKnown'
      BY <2>1 DEF TimerKnown, userVars, errVars
    <2>. QED
      BY <2>4, <2>5, <2>6, <2>7, <2>8 DEF ViewInv
  <1>3. CASE Play \/ Pause \/ SpeedChanged
    <2>1. UNCHANGED <<simVars, targetTime, lock, quit, pauseMessages, stack, shown,
                      errVars>>
      BY <1>3 DEF Play, Pause, SpeedChanged
    <2>2. /\ StackOK' /\ InHands' = InHands
          /\ \A pc : At(pc)' <=> At(pc)
      BY <2>1, SameStack DEF simVars
    <2>3. \/ /\ started' = started + 1 /\ started < MaxTimers
             /\ timers' = (timers \ {timerId}) \union {started + 1}
             /\ timerId' = started + 1
          \/ /\ ~play'
             /\ timers' = timers \ {timerId} /\ UNCHANGED <<timerId, started>>
      BY <1>3 DEF Play, Pause, SpeedChanged, StartTimer
    <2>4. Values'
      <3>1. /\ started' \in 0 .. MaxTimers
            /\ timers' \subseteq 1 .. started'
            /\ timerId' \in (1 .. started') \union {NoTimer}
        <4>1. /\ started \in 0 .. MaxTimers /\ timers \subseteq 1 .. started
              /\ timerId \in (1 .. started) \union {NoTimer}
              /\ MaxTimers \in Nat
          BY VisualizerAssumption DEF Values
        <4>2. CASE timers' = timers \ {timerId} /\ UNCHANGED <<timerId, started>>
          BY <4>1, <4>2
        <4>3. CASE /\ started' = started + 1 /\ started < MaxTimers
                   /\ timers' = (timers \ {timerId}) \union {started + 1}
                   /\ timerId' = started + 1
          <5>1. started' \in 0 .. MaxTimers /\ timerId' \in 1 .. started'
            BY <4>1, <4>3
          <5>2. 1 .. started \subseteq 1 .. started' /\ started + 1 \in 1 .. started'
            BY <4>1, <4>3
          <5>. QED
            BY <4>1, <4>3, <5>1, <5>2
        <4>. QED
          BY <2>3, <4>2, <4>3
      <3>. QED
        BY <2>1, <3>1 DEF Values, simVars, errVars
    <2>5. LockOwner' /\ NoPauseLost'
      BY <2>1, <2>2 DEF LockOwner, NoPauseLost, simVars, errVars
    <2>6. TimerKnown'
      BY <2>1, <2>3 DEF TimerKnown, errVars
    <2>. QED
      BY <2>2, <2>4, <2>5, <2>6 DEF ViewInv
  <1>4. CASE \/ ReaderCalled \/ UnlockedReaderCalled \/ Quit
             \/ \E t \in Timers : TimerFires(t)
    <2>1. /\ Dispatches
          /\ UNCHANGED <<simVars, targetTime, lock, pauseMessages, play, started, shown,
                         errVars>>
      BY <1>4 DEF ReaderCalled, UnlockedReaderCalled, Quit, TimerFires, userVars
    <2>2. \/ \E t \in Timers : Call(Frame("try", t))
          \/ \E pc \in {"acquire", "peek", "join"} : Call(Frame(pc, NoTimer))
      BY <1>4 DEF ReaderCalled, UnlockedReaderCalled, Quit, TimerFires
    <2>3. /\ StackOK' /\ InHands' = InHands
          /\ ~At("update")' /\ ~At("read")'
      BY <2>1, <2>2, FrameType, CallStack DEF simVars
    <2>4. LockOwner'
      BY <2>1, <2>3, DispatchesUnlocked DEF LockOwner, simVars
    <2>5. \/ UNCHANGED <<timers, timerId, quit>>
          \/ timers' = timers \ {timerId} /\ timerId' = NoTimer /\ quit'
      <3>1. CASE Quit
        <4>1. quit' = TRUE
          BY <3>1, Zenon DEF Quit
        <4>2. timers' = timers \ {timerId} /\ timerId' = NoTimer
          BY <3>1 DEF Quit
        <4>. QED
          BY <4>1, <4>2, Zenon
      <3>2. CASE \/ ReaderCalled \/ UnlockedReaderCalled
                 \/ \E t \in Timers : TimerFires(t)
        BY <3>2 DEF ReaderCalled, UnlockedReaderCalled, TimerFires, userVars
      <3>. QED
        BY <1>4, <3>1, <3>2
    <2>6. Values'
      BY <2>1, <2>5 DEF Values, simVars, errVars
    <2>7. NoPauseLost'
      BY <2>1, <2>3 DEF NoPauseLost, simVars, errVars
    <2>8. TimerKnown'
      BY <2>1, <2>5 DEF TimerKnown, errVars
    <2>. QED
      BY <2>3, <2>4, <2>6, <2>7, <2>8 DEF ViewInv
  <1>5. CASE TryLock \/ NoMoreEvents \/ ReaderAcquires
    <2>1. UNCHANGED <<simVars, targetTime, quit, pauseMessages, userVars>>
      BY <1>5 DEF TryLock, NoMoreEvents, ReaderAcquires
    <2>2. PICK from \in {"try", "pump", "acquire"},
               to \in {"try", "pump", "update", "read"} :
            /\ At(from) /\ Goto(to)
            /\ from = "acquire" <=> to = "read"
            /\ \/ lock = "free" /\ lock' = "view" /\ to \in {"update", "read"}
               \/ lock' = lock /\ to \in {"try", "pump"}
      <3>1. CASE TryLock
        <4>1. \/ At("try") /\ Goto("update") /\ lock = "free" /\ lock' = "view"
              \/ At("try") /\ Goto("pump") /\ lock' = lock
          BY <3>1 DEF TryLock
        <4>. QED
          BY <4>1
      <3>2. CASE NoMoreEvents
        <4>1. At("pump") /\ Goto("try") /\ lock' = lock
          BY <3>2 DEF NoMoreEvents
        <4>. QED
          BY <4>1
      <3>3. CASE ReaderAcquires
        <4>1. At("acquire") /\ Goto("read") /\ lock = "free" /\ lock' = "view"
          BY <3>3 DEF ReaderAcquires
        <4>. QED
          BY <4>1
      <3>. QED
        BY <1>5, <3>1, <3>2, <3>3
    <2>3. /\ StackOK' /\ InHands' = InHands
          /\ \A pc : At(pc)' <=> pc = to
      BY <2>1, <2>2, GotoStack DEF simVars
    <2>4. ~At("update") /\ ~At("read")
      BY <2>2, AtOnce
    <2>5. LockOwner'
      BY <2>1, <2>2, <2>3, <2>4 DEF LockOwner, simVars
    <2>6. Values'
      BY <2>1, <2>2 DEF Values, simVars, userVars, errVars
    <2>7. NoPauseLost' /\ TimerKnown'
      BY <2>1, <2>3 DEF NoPauseLost, TimerKnown, simVars, userVars, errVars
    <2>. QED
      BY <2>3, <2>5, <2>6, <2>7 DEF ViewInv
  <1>6. CASE UpdateView
    <2> DEFINE frame == [at |-> "after", timer |-> stack[Depth].timer,
                         messages |-> pauseMessages]
    <2>1. /\ At("update") /\ Depth > 0
          /\ stack' = [stack EXCEPT ![Depth] = frame]
          /\ pauseMessages' = {} /\ lock' = "free"
          /\ UNCHANGED <<simVars, quit, userVars>>
      BY <1>6 DEF UpdateView, At
    <2>2. targetTime' \in 0 .. MaxTime
      BY <1>6 DEF UpdateView, Values
    <2>3. DepthNat /\ Depth \in 1 .. Depth
      BY <2>1, StackDepth DEF DepthNat
    <2>4. /\ stack[Depth] \in Frames /\ stack[Depth].at = "update"
          /\ stack[Depth].messages = {}
      BY <2>1, <2>3, StackDepth DEF StackOK, At
    <2>5. /\ frame \in Frames /\ frame.at = "after"
          /\ frame.messages = pauseMessages
      <3>1. pauseMessages \subseteq Messages
        BY DEF Values, Messages
      <3>. QED
        BY <2>4, <3>1 DEF Frames
    <2> HIDE DEF frame
    <2>6. made' = made /\ pauseMessages \subseteq 1 .. made
      BY <2>1 DEF simVars, Values
    <2>7. /\ StackOK' /\ \A pc : At(pc)' <=> pc = frame.at
          /\ stack'[Depth] = frame /\ Depth' = Depth
          /\ \A i \in 1 .. Depth - 1 : stack'[i] = stack[i]
      BY <2>1, <2>5, <2>6, ReplaceStack
    <2>8. InHands \union pauseMessages \subseteq InHands'
      <3>1. DOMAIN stack' = DOMAIN stack
        BY <2>1
      <3>2. \A i \in 1 .. Depth : i = Depth \/ i \in 1 .. Depth - 1
        BY <2>3 DEF DepthNat
      <3>3. \A i \in 1 .. Depth : stack[i].messages \subseteq stack'[i].messages
        BY <2>4, <2>7, <3>2
      <3>4. pauseMessages = stack'[Depth].messages
        BY <2>5, <2>7
      <3>. QED
        BY <2>3, <3>1, <3>3, <3>4 DEF InHands, DepthNat
    <2>9. LockOwner'
      BY <2>1, <2>5, <2>7 DEF LockOwner, simVars
    <2>10. Values'
      BY <2>1, <2>2 DEF Values, simVars, userVars, errVars
    <2>11. NoPauseLost' /\ TimerKnown'
      BY <2>1, <2>6, <2>8 DEF NoPauseLost, TimerKnown, userVars, errVars
    <2>. QED
      BY <2>7, <2>9, <2>10, <2>11 DEF ViewInv
  <1>7. CASE AfterUpdate
    <2> DEFINE top == stack[Depth]
    <2>1. /\ At("after") /\ Depth > 0 /\ Return
          /\ shown' = shown \union top.messages
          /\ UNCHANGED <<simVars, targetTime, lock, quit, pauseMessages, started,
                         errVars>>
          /\ timers' \subseteq timers /\ timerId' \in {timerId, NoTimer}
      BY <1>7 DEF AfterUpdate, At
    <2>2. play' => play /\ timers' = timers /\ timerId' = timerId
      BY <1>7 DEF AfterUpdate
    <2> HIDE DEF top
    <2>3. /\ StackOK' /\ \A pc : At(pc)' => pc = "pump"
          /\ InHands \subseteq InHands' \union top.messages
          /\ top.messages \subseteq 1 .. made
      BY <2>1, ReturnStack DEF simVars, top
    <2>4. LockOwner'
      BY <2>1, <2>3, AtOnce DEF LockOwner, simVars
    <2>5. Values'
      BY <2>1, <2>3 DEF Values, simVars, errVars
    <2>6. NoPauseLost'
      BY <2>1, <2>3 DEF NoPauseLost, simVars, errVars
    <2>7. TimerKnown'
      BY <2>1, <2>2 DEF TimerKnown, errVars
    <2>. QED
      BY <2>3, <2>4, <2>5, <2>6, <2>7 DEF ViewInv
  <1>8. CASE ReaderReturns \/ Joined
    <2>1. PICK pc \in {"read", "join"} :
            /\ At(pc) /\ Return
            /\ IF pc = "read" THEN lock' = "free" ELSE lock' = lock
      BY <1>8 DEF ReaderReturns, Joined
    <2>2. UNCHANGED <<simVars, targetTime, quit, pauseMessages, userVars>> /\ Depth > 0
      BY <1>8 DEF ReaderReturns, Joined, At
    <2>3. /\ StackOK' /\ \A q : At(q)' => q = "pump"
          /\ InHands \subseteq InHands' \union stack[Depth].messages
      BY <2>1, <2>2, ReturnStack DEF simVars
    <2>4. stack[Depth].messages = {}
      <3>1. Depth \in 1 .. Depth
        BY <2>2, StackDepth DEF DepthNat
      <3>. QED
        BY <2>1, <3>1 DEF StackOK, At
    <2>5. LockOwner'
      BY <2>1, <2>2, <2>3, AtOnce DEF LockOwner, simVars, Values
    <2>6. Values'
      BY <2>1, <2>2 DEF Values, simVars, userVars, errVars
    <2>7. NoPauseLost' /\ TimerKnown'
      BY <2>2, <2>3, <2>4 DEF NoPauseLost, TimerKnown, simVars, userVars, errVars
    <2>. QED
      BY <2>3, <2>5, <2>6, <2>7 DEF ViewInv
  <1>9. CASE PeekReturns
    <2>1. /\ At("peek") /\ Depth > 0
          /\ UNCHANGED <<simVars, targetTime, lock, quit, pauseMessages, userVars>>
      BY <1>9 DEF PeekReturns, At
    <2>2. StackOK' /\ InHands \subseteq InHands' /\ ~At("update")' /\ ~At("read")'
      <3>1. CASE Goto("acquire")
        BY <2>1, <3>1, GotoStack DEF simVars
      <3>2. CASE Return
        <4>1. /\ StackOK' /\ \A q : At(q)' => q = "pump"
              /\ InHands \subseteq InHands' \union stack[Depth].messages
          BY <2>1, <3>2, ReturnStack DEF simVars
        <4>2. stack[Depth].messages = {}
          <5>1. Depth \in 1 .. Depth
            BY <2>1, StackDepth DEF DepthNat
          <5>. QED
            BY <2>1, <5>1 DEF StackOK, At
        <4>. QED
          BY <4>1, <4>2
      <3>. QED
        BY <1>9, <3>1, <3>2 DEF PeekReturns
    <2>3. LockOwner'
      BY <2>1, <2>2, AtOnce DEF LockOwner, simVars
    <2>4. Values'
      BY <2>1 DEF Values, simVars, userVars, errVars
    <2>5. NoPauseLost' /\ TimerKnown'
      BY <2>1, <2>2 DEF NoPauseLost, TimerKnown, simVars, userVars, errVars
    <2>. QED
      BY <2>2, <2>3, <2>4, <2>5 DEF ViewInv
  <1>10. CASE UpdateRaises
    <2> DEFINE top == stack[Depth]
    <2>1. /\ At("update") /\ Depth > 0 /\ Return
          /\ pauseMessages' = {} /\ lost' = lost \union pauseMessages
          /\ lock' = "free"
          /\ timers' = timers \ {top.timer} /\ failed' = failed \union {top.timer}
          /\ UNCHANGED <<simVars, targetTime, quit, play, timerId, started, shown>>
      BY <1>10 DEF UpdateRaises, At
    <2>2. /\ StackOK' /\ \A pc : At(pc)' => pc = "pump"
          /\ InHands \subseteq InHands' \union top.messages
      BY <2>1, ReturnStack DEF simVars
    <2>3. top.messages = {} /\ top.timer \in Timers
      <3>1. Depth \in 1 .. Depth
        BY <2>1, StackDepth DEF DepthNat
      <3>. QED
        BY <2>1, <3>1, StackDepth DEF StackOK, At, Frames
    <2> HIDE DEF top
    <2>4. LockOwner'
      BY <2>1, <2>2, AtOnce DEF LockOwner, simVars
    <2>5. Values'
      BY <2>1, <2>3 DEF Values, simVars
    <2>6. NoPauseLost'
      BY <2>1, <2>2, <2>3 DEF NoPauseLost, simVars
    <2>7. TimerKnown'
      BY <2>1 DEF TimerKnown
    <2>. QED
      BY <2>2, <2>4, <2>5, <2>6, <2>7 DEF ViewInv
  <1>11. CASE UNCHANGED vars
    <2>1. UNCHANGED <<simVars, targetTime, lock, quit, pauseMessages, stack, userVars>>
      BY <1>11 DEF vars
    <2>2. /\ StackOK' /\ InHands' = InHands
          /\ \A pc : At(pc)' <=> At(pc)
      BY <2>1, SameStack DEF simVars
    <2>. QED
      BY <2>1, <2>2 DEF ViewInv, Values, LockOwner, NoPauseLost, TimerKnown,
                        simVars, userVars, errVars
  <1>. QED
    BY <1>1, <1>2, <1>3, <1>4, <1>5, <1>6, <1>7, <1>8, <1>9, <1>10, <1>11
       DEF Next, Sim, View, User

LEMMA InitViewInv == Init => Flags /\ ViewInv
  <1> SUFFICES ASSUME Init PROVE Flags /\ ViewInv
    OBVIOUS
  <1>1. Flags
    BY Zenon DEF Init, Flags
  <1>2. Depth = 0 /\ stack = <<>> /\ DOMAIN stack = {}
    BY DEF Init, Depth
  <1>3. StackOK
    BY <1>2 DEF StackOK
  <1>4. \A pc : ~At(pc)
    BY <1>2 DEF At
  <1>5. Values
    BY VisualizerAssumption DEF Init, Values
  <1>6. LockOwner /\ NoPauseLost
    BY <1>4 DEF Init, LockOwner, NoPauseLost
  <1>7. TimerKnown
    BY DEF Init, TimerKnown
  <1>. QED
    BY <1>1, <1>3, <1>5, <1>6, <1>7 DEF ViewInv

\* Type correctness, and the ownership of the lock: a thread has it exactly while
\* it is between its acquire and its release.
THEOREM VisualizerTypeCorrect == Spec => []VisualizerTypeOK
  <1>1. Init => Flags /\ ViewInv
    BY InitViewInv
  <1>2. Flags /\ ViewInv /\ [Next]_vars => (Flags /\ ViewInv)'
    BY NextFlags, NextViewInv
  <1>3. Flags /\ ViewInv => VisualizerTypeOK
    BY DEF ViewInv, Flags, Values, LockOwner, StackOK, VisualizerTypeOK
  <1>. QED
    BY <1>1, <1>2, <1>3, PTL DEF Spec

\* No callback that takes the lock reads the simulator while the simulation thread
\* runs it, however deep the callbacks nest, whichever of them take no lock, and
\* whatever update raises an exception.
THEOREM LockedReadsNeverShared == Spec => []LockedReadsExclusive
  <1>1. Init => ViewInv
    BY InitViewInv
  <1>2. ViewInv /\ [Next]_vars => ViewInv'
    BY NextViewInv
  <1>3. ViewInv => LockedReadsExclusive
    BY DEF ViewInv, LockOwner, LockedReadsExclusive
  <1>. QED
    BY <1>1, <1>2, <1>3, PTL DEF Spec

\* No pause message is lost, wherever an update is interrupted by another one,
\* except those taken by an update that raises.
THEOREM PausesAreShown == Spec => []NoPauseLost
  <1>1. Init => ViewInv
    BY InitViewInv
  <1>2. ViewInv /\ [Next]_vars => ViewInv'
    BY NextViewInv
  <1>3. ViewInv => NoPauseLost
    BY DEF ViewInv
  <1>. QED
    BY <1>1, <1>2, <1>3, PTL DEF Spec

\* While the play button is pressed a timer runs, whatever nested callback
\* pressed it or changed the speed, unless its own update raised.
THEOREM PlayKeepsTimer == Spec => []PlayHasTimer
  <1>1. Init => ViewInv
    BY InitViewInv
  <1>2. ViewInv /\ [Next]_vars => ViewInv'
    BY NextViewInv
  <1>3. ViewInv => PlayHasTimer
    BY DEF ViewInv, TimerKnown, PlayHasTimer
  <1>. QED
    BY <1>1, <1>2, <1>3, PTL DEF Spec
=============================================================================
