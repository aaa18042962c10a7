------------------------------ MODULE TbfProofs ------------------------------
(***************************************************************************)
(* Proofs about Tbf, for every configuration, every set of packet sizes,   *)
(* every resolution of the clock.                                          *)
(***************************************************************************)
EXTENDS TbfProperties, TLAPS

\* What the assumption on the constants says of one configuration.
LEMMA ConfigTypes ==
  ASSUME NEW c \in Configs
  PROVE  /\ c.burst \in Nat /\ c.mtu \in Nat /\ c.peak \in Nat
         /\ c.rate \in Nat /\ c.rate # 0
BY TbfAssumption

\* An integer division is not negative and does not round up.
LEMMA DivNat ==
  ASSUME NEW n \in Nat, NEW d \in Nat, d # 0
  PROVE  n \div d \in Nat /\ d * (n \div d) <= n
<1>1. d > 0
  OBVIOUS
<1>2. n = d * (n \div d) + (n % d) /\ n % d \in Nat /\ n \div d \in Int
  BY <1>1, SMT
<1>3. n \div d >= 0
  BY <1>1, SMT
<1> QED
  BY <1>2, <1>3

\* Tokens are whole, and rounded by at most half a byte.
LEMMA EarnedBounds ==
  ASSUME NEW bps \in Nat, NEW ticks \in Nat
  PROVE  /\ Earned(bps, ticks) \in Nat
         /\ 2 * Second * Earned(bps, ticks) <= 2 * (ticks * (bps \div 8)) + Second
<1> DEFINE r == bps \div 8
           n == 2 * ticks * r + Second
           d == 2 * Second
<1>1. r \in Nat
  BY DivNat
<1>2. Second \in Nat /\ Second # 0
  BY TbfAssumption
<1>3. ticks * r \in Nat
  BY <1>1, SMT
<1>4. 2 * ticks * r = 2 * (ticks * r)
  BY <1>1, SMT
<1>5. n \in Nat /\ d \in Nat /\ d # 0
  BY <1>2, <1>3, <1>4
<1>6. n \div d \in Nat /\ d * (n \div d) <= n
  <2> HIDE DEF n, d
  <2> QED BY <1>5, DivNat
<1>7. Earned(bps, ticks) = n \div d
  BY DEF Earned
<1> QED
  BY <1>4, <1>6, <1>7
-----------------------------------------------------------------------------
LEMMA MulMono ==
  ASSUME NEW k \in Nat, NEW a \in Int, NEW b \in Int, a <= b
  PROVE  k * a <= k * b
<1>1. k * (b - a) >= 0
  <2>1. b - a \in Nat
    OBVIOUS
  <2>2. \A m \in Nat : k * m \in Nat
    BY SMT
  <2> QED
    BY <2>1, <2>2
<1>2. k * (b - a) = k * b - k * a
  BY SMT
<1> QED
  BY <1>1, <1>2

\* What a bucket of size c that held t whole tokens holds after x / k more, of
\* which e whole ones were earned, and a packet of size s was taken: no more than
\* an exact bucket that is forgiven a half. (k counts parts of a token.)
LEMMA BucketPass ==
  ASSUME NEW h \in Nat, NEW c \in Nat, NEW t \in Nat, NEW e \in Nat, NEW s \in Nat,
         NEW x \in Nat, NEW level \in Int,
         level >= 2 * h * c \/ level >= 2 * h * t + x,
         2 * h * e <= x + h
  PROVE  level + h - 2 * h * s >= 2 * h * (AtMost(t + e, c) - s)
<1> DEFINE k == 2 * h
           b == AtMost(t + e, c)
<1>1. k \in Nat /\ b \in Nat /\ b <= c /\ b <= t + e
  BY DEF AtMost
<1>2. k * b <= k * c /\ k * b <= k * (t + e)
  <2> HIDE DEF k, b
  <2> QED BY <1>1, MulMono
<1>3. k * (t + e) = k * t + k * e
  <2> HIDE DEF k
  <2> QED BY <1>1, SMT
<1>4. k * (b - s) = k * b - k * s
  <2> HIDE DEF k, b
  <2> QED BY <1>1, SMT
<1>5. /\ level >= k * c \/ level >= k * t + x
      /\ k * e <= x + h
  OBVIOUS
<1>6. /\ k * b \in Int /\ k * c \in Int /\ k * t \in Int /\ k * e \in Int
      /\ k * s \in Int
  <2> HIDE DEF k, b
  <2> QED BY <1>1, SMT
<1>7. level + h - k * s >= k * b - k * s
  <2> HIDE DEF k, b
  <2> QED BY <1>2, <1>3, <1>5, <1>6
<1>8. level + h - k * s >= k * (b - s)
  BY <1>4, <1>7
<1> QED
  BY <1>8

\* The same bucket while time goes by.
LEMMA BucketTick ==
  ASSUME NEW k \in Nat, NEW c \in Nat, NEW t \in Nat, NEW r \in Nat,
         NEW n \in Nat, NEW m \in Nat, m <= n + 1,
         NEW level \in Int,
         level >= k * c \/ level >= k * t + 2 * (n * r)
  PROVE  \/ AtMost(level + 2 * r, k * c) >= k * c
         \/ AtMost(level + 2 * r, k * c) >= k * t + 2 * (m * r)
<1>1. m * r <= n * r + r
  <2>1. r * m <= r * (n + 1)
    BY MulMono
  <2>2. r * (n + 1) = n * r + r /\ r * m = m * r
    BY SMT
  <2> QED BY <2>1, <2>2
<1>2. k * c \in Int /\ k * t \in Int /\ n * r \in Nat /\ m * r \in Nat
  BY SMT
<1> DEFINE kc == k * c
           kt == k * t
           nr == n * r
           mr == m * r
<1>3. \/ AtMost(level + 2 * r, kc) >= kc
      \/ AtMost(level + 2 * r, kc) >= kt + 2 * mr
  <2>1. kc \in Int /\ kt \in Int /\ nr \in Nat /\ mr \in Nat /\ mr <= nr + r
        /\ (level >= kc \/ level >= kt + 2 * nr)
    BY <1>1, <1>2
  <2> HIDE DEF kc, kt, nr, mr
  <2> QED BY <2>1 DEF AtMost
<1> QED
  BY <1>3
-----------------------------------------------------------------------------
(* Types.                                                                  *)

LEMMA DelayType ==
  ASSUME TbfTypeOK, NEW s \in Sizes
  PROVE  Delay(s) \in Nat
<1>1. /\ conf.rate \in Nat /\ conf.rate # 0 /\ conf.peak \in Nat
      /\ conf.burst \in Nat /\ conf.mtu \in Nat
  BY ConfigTypes DEF TbfTypeOK
<1>2. \A bytes \in Int, bps \in Nat : TxTime(bytes, bps) \in Nat
  <2> SUFFICES ASSUME NEW bytes \in Int, NEW bps \in Nat, bps # 0
               PROVE  ((bytes % Word) * 8 * Second) \div bps \in Nat
    BY TbfAssumption DEF TxTime
  <2>1. bytes % Word \in Nat
    BY TbfAssumption, SMT
  <2>2. (bytes % Word) * 8 * Second \in Nat
    <3> DEFINE b == bytes % Word
    <3>1. b \in Nat /\ Second \in Nat
      BY <2>1, TbfAssumption
    <3> HIDE DEF b
    <3>2. b * 8 * Second \in Nat
      BY <3>1, SMT
    <3> QED
      BY <3>2 DEF b
  <2> DEFINE n == (bytes % Word) * 8 * Second
  <2> HIDE DEF n
  <2>3. n \div bps \in Nat
    BY <2>2, DivNat DEF n
  <2> QED
    BY <2>3 DEF n
<1>3. s \in Nat /\ since \in Nat
  BY TbfAssumption DEF TbfTypeOK
<1>4. Earned(conf.rate, since) \in Nat /\ Earned(conf.peak, since) \in Nat
  BY <1>1, <1>3, EarnedBounds
<1>5. -Btoks(s, since) \in Int /\ -Ptoks(s, since) \in Int
  <2>1. btokens \in Int /\ ptokens \in Int
    BY <1>1 DEF TbfTypeOK
  <2>2. /\ AtMost(btokens + Earned(conf.rate, since), conf.burst) \in Int
        /\ AtMost(ptokens + Earned(conf.peak, since), conf.mtu) \in Int
    BY <1>1, <1>4, <2>1 DEF AtMost
  <2>3. Btoks(s, since) \in Int /\ Ptoks(s, since) \in Int
    BY <1>3, <2>2 DEF Btoks, Ptoks
  <2> QED
    BY <2>3
<1>6. TxTime(-Btoks(s, since), conf.rate) \in Nat
      /\ TxTime(-Ptoks(s, since), conf.peak) \in Nat
  BY <1>1, <1>2, <1>5
<1> QED
  BY <1>6 DEF Delay

\* What is left in the buckets once a packet has passed.
LEMMA PassTokens ==
  ASSUME TbfTypeOK, Pass
  PROVE  /\ Head(queue) \in Sizes /\ Tail(queue) \in Seq(Sizes)
         /\ btokens' \in 0 .. conf.burst
         /\ ptokens' \in 0 .. conf.mtu
<1> DEFINE s == Head(queue)
<1>1. s \in Sizes /\ Tail(queue) \in Seq(Sizes)
  BY DEF TbfTypeOK, Pass
<1>2. s \in Nat /\ s # 0
  BY <1>1, TbfAssumption
<1>3. /\ conf.rate \in Nat /\ conf.peak \in Nat
      /\ conf.burst \in Nat /\ conf.mtu \in Nat /\ since \in Nat
      /\ btokens \in Nat /\ ptokens \in Nat
  BY ConfigTypes, TbfAssumption DEF TbfTypeOK
<1>4. Earned(conf.rate, since) \in Nat /\ Earned(conf.peak, since) \in Nat
  BY <1>3, EarnedBounds
<1>5. /\ Btoks(s, since) >= 0 /\ Ptoks(s, since) >= 0
      /\ btokens' = Btoks(s, since) /\ ptokens' = Ptoks(s, since)
  BY DEF Pass, Enough
<1> HIDE DEF s
<1>6. btokens' \in 0 .. conf.burst
  BY <1>2, <1>3, <1>4, <1>5 DEF Btoks, AtMost
<1>7. ptokens' \in 0 .. conf.mtu
  BY <1>2, <1>3, <1>4, <1>5 DEF Ptoks, AtMost
<1> QED
  BY <1>1, <1>6, <1>7 DEF s

LEMMA TypeStep ==
  ASSUME TbfTypeOK, [Next]_vars
  PROVE  TbfTypeOK'
<1> USE DEF TbfTypeOK
<1>0. /\ Second \in Nat /\ Horizon \in Nat /\ NoEvent \notin Nat
      /\ conf.rate \in Nat /\ conf.peak \in Nat
      /\ conf.burst \in Nat /\ conf.mtu \in Nat
  BY TbfAssumption, ConfigTypes
<1>a. conf.rate \div 8 \in Int /\ conf.peak \div 8 \in Int
  BY <1>0
<1>1. CASE \E s \in Sizes : Send(s)
  <2>1. queue' \in Seq(Sizes)
    BY <1>1 DEF Send
  <2> QED
    BY <1>1, <2>1 DEF Send, tbfVars, auxVars
<1>2. CASE Wake
  BY <1>2 DEF Wake, tbfVars, auxVars
<1>3. CASE WatchdogFires
  BY <1>3 DEF WatchdogFires, auxVars
<1>4. CASE RunEnds
  BY <1>4 DEF RunEnds, tbfVars, auxVars
<1>5. CASE Pass
  <2> DEFINE s == Head(queue)
  <2>1. s \in Sizes /\ queue' \in Seq(Sizes)
    BY <1>5, PassTokens DEF Pass
  <2>2. btokens' \in 0 .. conf.burst /\ ptokens' \in 0 .. conf.mtu
    BY <1>5, PassTokens
  <2>3. since' \in 0 .. Horizon
    BY <1>0, <1>5 DEF Pass
  <2>4. 2 * Second * s \in Int
    <3>1. s \in Nat
      BY <2>1, TbfAssumption
    <3> HIDE DEF s
    <3> QED BY <1>0, <3>1, SMT
  <2>5. blevel' \in Int /\ plevel' \in Int
    <3> DEFINE k == 2 * Second * s
    <3>1. /\ blevel' = blevel + Second - k
          /\ plevel' = IF conf.peak > 0 THEN plevel + Second - k ELSE plevel
      BY <1>5 DEF Pass
    <3>2. k \in Int
      BY <2>4
    <3> HIDE DEF k, s
    <3> QED BY <1>0, <3>1, <3>2
  <2> QED
    BY <1>5, <2>1, <2>2, <2>3, <2>5 DEF Pass
<1>6. CASE Blocked
  <2>1. Head(queue) \in Sizes
    BY <1>6 DEF Blocked
  <2>2. watchdog' \in Nat \union {NoEvent}
    BY <1>6, <2>1, DelayType DEF Blocked
  <2> QED
    BY <1>6, <2>2 DEF Blocked, auxVars
<1>7. CASE Tick
  <2>1. since' \in 0 .. Horizon
    BY <1>0, <1>7 DEF Tick, AtMost
  <2>2. watchdog' \in Nat \union {NoEvent}
    BY <1>0, <1>7 DEF Tick
  <2>3. 2 * Second * conf.burst \in Int /\ 2 * Second * conf.mtu \in Int
    BY <1>0, SMT
  <2>4. blevel' \in Int /\ plevel' \in Int
    <3> DEFINE kb == 2 * Second * conf.burst
               km == 2 * Second * conf.mtu
               rb == conf.rate \div 8
               rm == conf.peak \div 8
    <3>1. blevel' = AtMost(blevel + 2 * rb, kb) /\ plevel' = AtMost(plevel + 2 * rm, km)
      BY <1>7 DEF Tick
    <3>2. kb \in Int /\ km \in Int /\ rb \in Int /\ rm \in Int
      BY <1>a, <2>3
    <3> HIDE DEF kb, km, rb, rm
    <3> QED BY <3>1, <3>2 DEF AtMost
  <2> QED
    BY <1>7, <2>1, <2>2, <2>4 DEF Tick
<1>8. CASE UNCHANGED vars
  BY <1>8 DEF vars, tbfVars, auxVars
<1> QED
  BY <1>1, <1>2, <1>3, <1>4, <1>5, <1>6, <1>7, <1>8 DEF Next, Run

LEMMA TypeInit == ASSUME Init PROVE TbfTypeOK
<1>1. /\ conf.burst \in Nat /\ conf.mtu \in Nat /\ Second \in Nat /\ Horizon \in Nat
  BY TbfAssumption, ConfigTypes DEF Init
<1>2. 2 * Second * conf.burst \in Int /\ 2 * Second * conf.mtu \in Int
  BY <1>1, SMT
<1>3. blevel \in Int /\ plevel \in Int
  BY <1>2 DEF Init
<1>4. queue \in Seq(Sizes)
  BY DEF Init
<1>5. btokens \in 0 .. conf.burst /\ ptokens \in 0 .. conf.mtu /\ since \in 0 .. Horizon
  BY <1>1 DEF Init
<1> QED
  BY <1>3, <1>4, <1>5 DEF Init, TbfTypeOK

\* Buckets hold neither debts nor more than their size: what the C++ code keeps
\* in unsigned integers (TbfQueueDisc::DoDequeue) fits there.
THEOREM TbfTypeCorrect == Spec => []TbfTypeOK
<1>1. Init => TbfTypeOK
  BY TypeInit
<1>2. TbfTypeOK /\ [Next]_vars => TbfTypeOK'
  BY TypeStep
<1> QED
  BY <1>1, <1>2, PTL DEF Spec
-----------------------------------------------------------------------------
(* Conformance.                                                            *)

\* The exact bucket, less what it is forgiven, never falls behind the tokens the
\* queue disc believes it has, nor behind those it would add now.
BLevel == \/ blevel >= 2 * Second * conf.burst
          \/ blevel >= 2 * Second * btokens + 2 * (since * (conf.rate \div 8))
PLevel == conf.peak > 0 =>
            \/ plevel >= 2 * Second * conf.mtu
            \/ plevel >= 2 * Second * ptokens + 2 * (since * (conf.peak \div 8))

LEMMA LevelsInit == ASSUME Init PROVE BLevel /\ PLevel
<1>1. /\ conf.burst \in Nat /\ conf.mtu \in Nat /\ Second \in Nat
  BY TbfAssumption, ConfigTypes DEF Init
<1>2. 2 * Second * conf.burst \in Int /\ 2 * Second * conf.mtu \in Int
  BY <1>1, SMT
<1> QED
  BY <1>2 DEF Init, BLevel, PLevel

\* The numbers that the steps below compute with.
LEMMA LevelTypes ==
  ASSUME TbfTypeOK
  PROVE  /\ Second \in Nat /\ 2 * Second \in Nat
         /\ conf.rate \in Nat /\ conf.peak \in Nat
         /\ conf.burst \in Nat /\ conf.mtu \in Nat
         /\ conf.rate \div 8 \in Nat /\ conf.peak \div 8 \in Nat
         /\ btokens \in Nat /\ ptokens \in Nat /\ since \in Nat
         /\ blevel \in Int /\ plevel \in Int
         /\ since * (conf.rate \div 8) \in Nat /\ since * (conf.peak \div 8) \in Nat
<1>1. /\ Second \in Nat /\ Horizon \in Nat
      /\ conf.rate \in Nat /\ conf.peak \in Nat
      /\ conf.burst \in Nat /\ conf.mtu \in Nat
  BY TbfAssumption, ConfigTypes DEF TbfTypeOK
<1>2. conf.rate \div 8 \in Nat /\ conf.peak \div 8 \in Nat
  BY <1>1, DivNat
<1>3. btokens \in Nat /\ ptokens \in Nat /\ since \in Nat
  BY <1>1 DEF TbfTypeOK
<1>4. \A m, n \in Nat : m * n \in Nat
  BY SMT
<1> QED
  BY <1>1, <1>2, <1>3, <1>4 DEF TbfTypeOK

LEMMA LevelsPass ==
  ASSUME TbfTypeOK, BLevel, PLevel, Pass
  PROVE  BLevel' /\ PLevel'
<1> DEFINE s  == Head(queue)
           rb == conf.rate \div 8
           rp == conf.peak \div 8
<1>1. s \in Nat
  BY PassTokens, TbfAssumption
<1>2. /\ Earned(conf.rate, since) \in Nat
      /\ 2 * Second * Earned(conf.rate, since) <= 2 * (since * rb) + Second
  BY LevelTypes, EarnedBounds
<1>3. /\ Earned(conf.peak, since) \in Nat
      /\ 2 * Second * Earned(conf.peak, since) <= 2 * (since * rp) + Second
  BY LevelTypes, EarnedBounds
<1>4. /\ conf' = conf /\ since' = 0
      /\ btokens' = AtMost(btokens + Earned(conf.rate, since), conf.burst) - s
      /\ blevel' = blevel + Second - 2 * Second * s
  BY DEF Pass, Btoks
<1>5. conf.peak > 0 =>
        /\ ptokens' = AtMost(ptokens + Earned(conf.peak, since), conf.mtu) - s
        /\ plevel' = plevel + Second - 2 * Second * s
  BY DEF Pass, Ptoks
<1>6. 2 * (since * rb) \in Nat /\ 2 * (since * rp) \in Nat
  BY LevelTypes
<1>7. 2 * (since' * rb) = 0 /\ 2 * (since' * rp) = 0
  <2>1. 0 * rb = 0 /\ 0 * rp = 0
    BY LevelTypes
  <2> QED BY <1>4, <2>1
<1> HIDE DEF s
<1>8. BLevel'
  <2>1. \/ blevel >= 2 * Second * conf.burst
        \/ blevel >= 2 * Second * btokens + 2 * (since * rb)
    BY DEF BLevel
  <2> HIDE DEF rb
  <2>2. blevel + Second - 2 * Second * s
          >= 2 * Second * (AtMost(btokens + Earned(conf.rate, since), conf.burst) - s)
    BY <1>1, <1>2, <1>6, <2>1, BucketPass, LevelTypes
  <2>3. blevel' >= 2 * Second * btokens'
    BY <1>4, <2>2
  <2>4. 2 * Second * btokens' \in Int
    <3>1. btokens' \in Int
      BY PassTokens, LevelTypes
    <3> QED BY <3>1, LevelTypes, SMT
  <2>5. blevel' >= 2 * Second * btokens' + 2 * (since' * (conf'.rate \div 8))
    BY <1>4, <1>7, <2>3, <2>4 DEF rb
  <2> QED
    BY <2>5 DEF BLevel
<1>9. PLevel'
  <2> SUFFICES ASSUME conf.peak > 0
               PROVE  plevel' >= 2 * Second * ptokens' + 2 * (since' * rp)
    BY <1>4 DEF PLevel
  <2>1. \/ plevel >= 2 * Second * conf.mtu
        \/ plevel >= 2 * Second * ptokens + 2 * (since * rp)
    BY DEF PLevel
  <2> HIDE DEF rp
  <2>2. plevel + Second - 2 * Second * s
          >= 2 * Second * (AtMost(ptokens + Earned(conf.peak, since), conf.mtu) - s)
    BY <1>1, <1>3, <1>6, <2>1, BucketPass, LevelTypes
  <2>3. plevel' >= 2 * Second * ptokens'
    BY <1>5, <2>2
  <2>4. 2 * Second * ptokens' \in Int
    <3>1. ptokens' \in Int
      BY PassTokens, LevelTypes
    <3> QED BY <3>1, LevelTypes, SMT
  <2> QED
    BY <1>7, <2>3, <2>4
<1> QED
  BY <1>8, <1>9

LEMMA LevelsTick ==
  ASSUME TbfTypeOK, BLevel, PLevel, Tick
  PROVE  BLevel' /\ PLevel'
<1> DEFINE k  == 2 * Second
           rb == conf.rate \div 8
           rp == conf.peak \div 8
<1>1. /\ conf' = conf /\ btokens' = btokens /\ ptokens' = ptokens
      /\ blevel' = AtMost(blevel + 2 * rb, k * conf.burst)
      /\ plevel' = AtMost(plevel + 2 * rp, k * conf.mtu)
  BY DEF Tick
<1>2. since' \in Nat /\ since' <= since + 1
  BY LevelTypes, TbfAssumption DEF Tick, AtMost
<1>3. \/ blevel >= k * conf.burst
      \/ blevel >= k * btokens + 2 * (since * rb)
  BY DEF BLevel
<1>4. conf.peak > 0 => \/ plevel >= k * conf.mtu
                       \/ plevel >= k * ptokens + 2 * (since * rp)
  BY DEF PLevel
<1>5. /\ k \in Nat /\ rb \in Nat /\ rp \in Nat
      /\ conf.burst \in Nat /\ conf.mtu \in Nat /\ since \in Nat
      /\ btokens \in Nat /\ ptokens \in Nat /\ blevel \in Int /\ plevel \in Int
  BY LevelTypes
<1> HIDE DEF k, rb, rp
<1>6. \/ blevel' >= k * conf.burst
      \/ blevel' >= k * btokens + 2 * (since' * rb)
  BY <1>1, <1>2, <1>3, <1>5, BucketTick
<1>7. conf.peak > 0 => \/ plevel' >= k * conf.mtu
                       \/ plevel' >= k * ptokens + 2 * (since' * rp)
  BY <1>1, <1>2, <1>4, <1>5, BucketTick
<1> QED
  BY <1>1, <1>6, <1>7 DEF BLevel, PLevel, k, rb, rp

LEMMA LevelsStep ==
  ASSUME TbfTypeOK, BLevel, PLevel, [Next]_vars
  PROVE  BLevel' /\ PLevel'
<1>1. CASE Pass
  BY <1>1, LevelsPass
<1>2. CASE Tick
  BY <1>2, LevelsTick
<1>3. CASE UNCHANGED <<conf, btokens, ptokens, since, blevel, plevel>>
  BY <1>3 DEF BLevel, PLevel
<1>4. ASSUME (\E s \in Sizes : Send(s)) \/ Wake \/ WatchdogFires \/ RunEnds
             \/ Blocked \/ UNCHANGED vars
      PROVE  UNCHANGED <<conf, btokens, ptokens, since, blevel, plevel>>
  BY <1>4 DEF Send, Wake, WatchdogFires, RunEnds, Blocked, vars, tbfVars, auxVars
<1> QED
  BY <1>1, <1>2, <1>3, <1>4 DEF Next, Run

LEMMA LevelsConform == ASSUME TbfTypeOK, BLevel, PLevel PROVE Conforms
<1>1. \A m, n \in Nat : m * n \in Nat
  BY SMT
<1>2. /\ 2 * Second * conf.burst \in Nat /\ 2 * Second * conf.mtu \in Nat
      /\ 2 * Second * btokens \in Nat /\ 2 * Second * ptokens \in Nat
      /\ since * (conf.rate \div 8) \in Nat /\ since * (conf.peak \div 8) \in Nat
  BY <1>1, LevelTypes
<1> DEFINE a == 2 * Second * conf.burst
           b == 2 * Second * btokens
           c == since * (conf.rate \div 8)
           d == 2 * Second * conf.mtu
           e == 2 * Second * ptokens
           f == since * (conf.peak \div 8)
<1>3. /\ blevel >= a \/ blevel >= b + 2 * c
      /\ conf.peak > 0 => plevel >= d \/ plevel >= e + 2 * f
  BY DEF BLevel, PLevel
<1>4. /\ a \in Nat /\ b \in Nat /\ c \in Nat /\ d \in Nat /\ e \in Nat /\ f \in Nat
      /\ blevel \in Int /\ plevel \in Int
  BY <1>2, LevelTypes
<1> HIDE DEF a, b, c, d, e, f
<1> QED
  BY <1>3, <1>4 DEF Conforms

\* The envelope of the token bucket: in no interval more than the burst and what
\* the rate yields, up to the rounding, for every rate, burst and clock.
THEOREM NeverExceedsTheRate == Spec => []Conforms
<1>1. Init => TbfTypeOK /\ BLevel /\ PLevel
  BY TypeInit, LevelsInit
<1>2. TbfTypeOK /\ BLevel /\ PLevel /\ [Next]_vars => (TbfTypeOK /\ BLevel /\ PLevel)'
  BY TypeStep, LevelsStep
<1>3. TbfTypeOK /\ BLevel /\ PLevel => Conforms
  BY LevelsConform
<1> QED
  BY <1>1, <1>2, <1>3, PTL DEF Spec
-----------------------------------------------------------------------------
\* While Run works nothing is promised; it ends with the queue empty, the device
\* stopped or the watchdog set (QueueDisc::Run, TbfQueueDisc::DoDequeue).
THEOREM WatchdogIsSet == Spec => []BlockedHasWatchdog
<1>1. Init => BlockedHasWatchdog
  BY DEF Init, BlockedHasWatchdog
<1>2. TbfTypeOK /\ BlockedHasWatchdog /\ [Next]_vars => BlockedHasWatchdog'
  <2> SUFFICES ASSUME TbfTypeOK, BlockedHasWatchdog, [Next]_vars
               PROVE  BlockedHasWatchdog'
    OBVIOUS
  <2> USE DEF BlockedHasWatchdog
  <2>1. CASE \E s \in Sizes : Send(s)
    BY <2>1 DEF Send
  <2>2. CASE Wake
    BY <2>2 DEF Wake
  <2>3. CASE WatchdogFires
    BY <2>3 DEF WatchdogFires
  <2>4. CASE RunEnds
    BY <2>4 DEF RunEnds, tbfVars
  <2>5. CASE Pass
    BY <2>5 DEF Pass
  <2>6. CASE Blocked
    <3>1. Head(queue) \in Sizes
      BY <2>6 DEF Blocked, TbfTypeOK
    <3>2. watchdog' # NoEvent
      BY <2>6, <3>1, DelayType, TbfAssumption DEF Blocked
    <3> QED
      BY <3>2
  <2>7. CASE Tick
    <3>1. watchdog # NoEvent => watchdog' # NoEvent
      <4> SUFFICES ASSUME watchdog # NoEvent PROVE watchdog' # NoEvent
        OBVIOUS
      <4>1. watchdog' = watchdog - 1 /\ watchdog \in Nat /\ watchdog # 0
        BY <2>7 DEF Tick, TbfTypeOK
      <4>2. watchdog' \in Nat
        BY <4>1
      <4> QED
        BY <4>2, TbfAssumption
    <3> QED
      BY <2>7, <3>1 DEF Tick
  <2>8. CASE UNCHANGED vars
    BY <2>8 DEF vars, tbfVars
  <2> QED
    BY <2>1, <2>2, <2>3, <2>4, <2>5, <2>6, <2>7, <2>8 DEF Next, Run
<1> QED
  BY <1>1, <1>2, TbfTypeCorrect, PTL DEF Spec
=============================================================================
