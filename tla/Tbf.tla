--------------------------------- MODULE Tbf ---------------------------------
(***************************************************************************)
(* TbfQueueDisc (src/traffic-control/model/tbf-queue-disc.cc), the token   *)
(* bucket filter, as the root queue disc of a device with one queue, over  *)
(* the FIFO child it creates itself. A packet passes when two buckets hold *)
(* enough tokens for it; when they do not, a watchdog event is scheduled   *)
(* that runs the queue disc again.                                         *)
(*                                                                         *)
(* Time goes by in ticks, the resolution of the simulator's clock; events  *)
(* take no time. Between two events pc = "idle"; while pc = "run", the loop*)
(* of QueueDisc::Run takes packets one by one.                             *)
(***************************************************************************)
EXTENDS Integers, Sequences

CONSTANTS
  Configs,    \* the values of Burst, Mtu, Rate and PeakRate that are tried
  Sizes,      \* the sizes a packet may have
  MaxSize,    \* attribute MaxSize, in packets; less than a quota of Run
  Second,     \* the ticks in a second
  Word,       \* 2^32: CalculateBytesTxTime takes a uint32_t
  NanDelay,   \* what 0 bytes at 0 bps take: the Time made of a NaN
  Horizon,    \* bound: the age of the checkpoint is not counted beyond
  NoEvent     \* m_id is expired

ASSUME TbfAssumption ==
  /\ Configs \subseteq [burst: Nat, mtu: Nat, rate: Nat \ {0}, peak: Nat]
  /\ Sizes \subseteq Nat \ {0}
  /\ {MaxSize, NanDelay, Horizon} \subseteq Nat
  /\ {Second, Word} \subseteq Nat \ {0}
  /\ NoEvent \notin Nat
-----------------------------------------------------------------------------
VARIABLES
  conf,       \* the configuration, as CheckConfig has left it
  queue,      \* the internal queue of the child
  btokens,    \* m_btokens
  ptokens,    \* m_ptokens
  since,      \* Simulator::Now () - m_timeCheckPoint
  watchdog,   \* m_id: the ticks until the event is due, or NoEvent
  stopped,    \* whether the queue of the device is stopped
  pc,
  blevel,     \* history: what an exact bucket of the size of the first and of
  plevel      \* the second would hold, in bytes / (2 * Second)

tbfVars  == <<btokens, ptokens, since, watchdog>>
auxVars  == <<blevel, plevel>>
vars     == <<conf, queue, tbfVars, stopped, pc, auxVars>>

AtMost(x, y) == IF x > y THEN y ELSE x

\* The buckets are full at the beginning.
Init == /\ conf \in Configs
        /\ queue = <<>>
        /\ btokens = conf.burst /\ ptokens = conf.mtu
        /\ since = 0
        /\ watchdog = NoEvent
        /\ stopped = FALSE
        /\ pc = "idle"
        /\ blevel = 2 * Second * conf.burst /\ plevel = 2 * Second * conf.mtu
-----------------------------------------------------------------------------
\* Tokens are whole bytes: round (delta * (rate / 8)), the rate in whole bytes
\* per second.
Earned(bps, ticks) == (2 * ticks * (bps \div 8) + Second) \div (2 * Second)

\* What a bucket holds after a number of ticks, and what a packet of size s
\* would leave in it. Without a peak rate the second bucket lacks nothing.
Btoks(s, ticks) == AtMost(btokens + Earned(conf.rate, ticks), conf.burst) - s
Ptoks(s, ticks) == IF conf.peak > 0
                   THEN AtMost(ptokens + Earned(conf.peak, ticks), conf.mtu) - s
                   ELSE 0

\* DataRate::CalculateBytesTxTime.
TxTime(bytes, bps) == IF bps = 0 THEN NanDelay
                                 ELSE ((bytes % Word) * 8 * Second) \div bps

Delay(s) == LET b == TxTime(-Btoks(s, since), conf.rate)
                p == TxTime(-Ptoks(s, since), conf.peak)
            IN  IF b > p THEN b ELSE p

\* Mutant: (btoks|ptoks) > 0.
MutEnoughStrict(s, ticks) ==
  Btoks(s, ticks) >= 0 /\ Ptoks(s, ticks) >= 0 /\ Btoks(s, ticks) + Ptoks(s, ticks) > 0

Enough(s, ticks) == Btoks(s, ticks) >= 0 /\ Ptoks(s, ticks) >= 0
-----------------------------------------------------------------------------
\* TrafficControlLayer::Send: Enqueue, which gives the packet to the child, and
\* Run.
Send(s) == /\ pc = "idle"
           /\ queue' = IF Len(queue) < MaxSize THEN Append(queue, s) ELSE queue
           /\ pc' = "run"
           /\ UNCHANGED <<conf, tbfVars, stopped, auxVars>>

\* The device wakes its queue, which runs the queue disc.
Wake == /\ pc = "idle" /\ stopped
        /\ stopped' = FALSE
        /\ pc' = "run"
        /\ UNCHANGED <<conf, queue, tbfVars, auxVars>>

WatchdogFires == /\ pc = "idle" /\ watchdog = 0
                 /\ watchdog' = NoEvent
                 /\ pc' = "run"
                 /\ UNCHANGED <<conf, queue, btokens, ptokens, since, stopped, auxVars>>

\* Nothing to take, or nowhere to put it.
RunEnds == /\ pc = "run"
           /\ stopped \/ queue = <<>>
           /\ pc' = "idle"
           /\ UNCHANGED <<conf, queue, tbfVars, stopped, auxVars>>

\* Mutant: the checkpoint is left where it was.
MutPassOldCheckpoint ==
  /\ pc = "run" /\ ~stopped /\ queue # <<>>
  /\ LET s == Head(queue) IN
       /\ Enough(s, since)
       /\ btokens' = Btoks(s, since)
       /\ ptokens' = Ptoks(s, since)
       /\ blevel' = blevel + Second - 2 * Second * s
       /\ plevel' = IF conf.peak > 0 THEN plevel + Second - 2 * Second * s
                                     ELSE plevel
  /\ queue' = Tail(queue)
  /\ stopped' \in BOOLEAN
  /\ UNCHANGED <<conf, since, watchdog, pc>>

\* DoDequeue returns the packet it peeked; the device may stop its queue when it
\* gets it.
Pass == /\ pc = "run" /\ ~stopped /\ queue # <<>>
        /\ LET s == Head(queue) IN
             /\ Enough(s, since)
             /\ btokens' = Btoks(s, since)
             /\ ptokens' = Ptoks(s, since)
             /\ blevel' = blevel + Second - 2 * Second * s
             /\ plevel' = IF conf.peak > 0 THEN plevel + Second - 2 * Second * s
                                           ELSE plevel
        /\ queue' = Tail(queue)
        /\ since' = 0
        /\ stopped' \in BOOLEAN
        /\ UNCHANGED <<conf, watchdog, pc>>

\* Mutant: the watchdog is set if it is set already.
MutBlockedIfRunning ==
  /\ pc = "run" /\ ~stopped /\ queue # <<>>
  /\ ~Enough(Head(queue), since)
  /\ watchdog' = IF watchdog # NoEvent THEN Delay(Head(queue)) ELSE watchdog
  /\ pc' = "idle"
  /\ UNCHANGED <<conf, queue, btokens, ptokens, since, stopped, auxVars>>

\* The packet stays in the child; the watchdog is set unless it is set already.
Blocked == /\ pc = "run" /\ ~stopped /\ queue # <<>>
           /\ ~Enough(Head(queue), since)
           /\ watchdog' = IF watchdog = NoEvent THEN Delay(Head(queue)) ELSE watchdog
           /\ pc' = "idle"
           /\ UNCHANGED <<conf, queue, btokens, ptokens, since, stopped, auxVars>>

\* The clock goes on, unless an event is due.
Tick == /\ pc = "idle" /\ watchdog # 0
        /\ since' = AtMost(since + 1, Horizon)
        /\ watchdog' = IF watchdog = NoEvent THEN NoEvent ELSE watchdog - 1
        /\ blevel' = AtMost(blevel + 2 * (conf.rate \div 8), 2 * Second * conf.burst)
        /\ plevel' = AtMost(plevel + 2 * (conf.peak \div 8), 2 * Second * conf.mtu)
        /\ UNCHANGED <<conf, queue, btokens, ptokens, stopped, pc>>
-----------------------------------------------------------------------------
Run == RunEnds \/ Pass \/ Blocked

Next == (\E s \in Sizes : Send(s)) \/ Wake \/ WatchdogFires \/ Run \/ Tick

Spec == Init /\ [][Next]_vars

\* The simulator works off its events, and finitely many packets arrive at one
\* time: time goes on towards the watchdog, and the device wakes the queue it
\* stopped. Nothing else makes time go on.
FairSpec == /\ Spec
            /\ WF_vars(Run)
            /\ SF_vars(Wake) /\ SF_vars(WatchdogFires)
            /\ SF_vars(watchdog # NoEvent /\ Tick)
=============================================================================
