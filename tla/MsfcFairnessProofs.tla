------------------------- MODULE MsfcFairnessProofs -------------------------
(***************************************************************************)
(* How MsfcQueueDisc shares the link, for any traffic, sizes and limits.   *)
(*                                                                         *)
(* What two members of a round robin were served cannot be bounded by      *)
(* itself: the bound depends on which of them the round robin meets next.  *)
(* The inductive invariants bound the lead of one over the other, what it  *)
(* was served more plus what it may still be served, once for the case that*)
(* it is met first and once, a round higher, for the case that it is not.  *)
(* Serving a packet leaves a lead as it is, and each rotation moves it by  *)
(* one round and exchanges the two cases.                                  *)
(***************************************************************************)
EXTENDS MsfcFairness, MsfcProofs

\* The list s meets a before b.
Before(s, a, b) == \E i, j \in DOMAIN s : i < j /\ s[i] = a /\ s[j] = b

\* The lead x of a over b is at most m while a comes first, and at most a round
\* r more while b does.
Share(s, a, b, x, m, r) == /\ Before(s, a, b) => x <= m
                           /\ Before(s, b, a) => x <= m + r

LEMMA BeforeElems ==
  ASSUME NEW S, NEW s \in Seq(S), NEW a, NEW b, Before(s, a, b)
  PROVE  a \in Elems(s) /\ b \in Elems(s)
  BY DEF Before, Elems

\* What is put at the tail, or taken from the head, leaves the others in order.
LEMMA BeforeAppend ==
  ASSUME NEW S, NEW s \in Seq(S), NEW x \in S, NEW a, NEW b, a # x, b # x,
         Before(Append(s, x), a, b)
  PROVE  Before(s, a, b)
  <1> DEFINE t == Append(s, x)
  <1>1. /\ Len(s) \in Nat /\ DOMAIN s = 1 .. Len(s) /\ DOMAIN t = 1 .. Len(s) + 1
        /\ \A i \in 1 .. Len(s) : t[i] = s[i]
        /\ t[Len(s) + 1] = x
    OBVIOUS
  <1>2. Before(t, a, b)
    OBVIOUS
  <1> HIDE DEF t
  <1>3. PICK i, j \in DOMAIN t : i < j /\ t[i] = a /\ t[j] = b
    BY <1>2 DEF Before
  <1>4. i \in 1 .. Len(s) /\ j \in 1 .. Len(s)
    BY <1>1, <1>3
  <1>. QED
    BY <1>1, <1>3, <1>4 DEF Before

LEMMA BeforeTail ==
  ASSUME NEW S, NEW s \in Seq(S), s # <<>>, NEW a, NEW b, Before(Tail(s), a, b)
  PROVE  Before(s, a, b)
  <1> DEFINE t == Tail(s)
  <1>1. /\ Len(s) \in Nat /\ DOMAIN s = 1 .. Len(s) /\ DOMAIN t = 1 .. Len(s) - 1
        /\ \A i \in 1 .. Len(s) - 1 : t[i] = s[i + 1]
    OBVIOUS
  <1>2. Before(t, a, b)
    OBVIOUS
  <1> HIDE DEF t
  <1>3. PICK i, j \in DOMAIN t : i < j /\ t[i] = a /\ t[j] = b
    BY <1>2 DEF Before
  <1>4. /\ i + 1 \in DOMAIN s /\ j + 1 \in DOMAIN s /\ i + 1 < j + 1
        /\ s[i + 1] = a /\ s[j + 1] = b
    BY <1>1, <1>3
  <1>. QED
    BY <1>4 DEF Before

\* The head comes before every other element.
LEMMA HeadBefore ==
  ASSUME NEW S, NEW s \in Seq(S), s # <<>>, NEW b \in Elems(s), b # Head(s)
  PROVE  Before(s, Head(s), b)
  <1>1. /\ Len(s) \in Nat /\ Len(s) >= 1 /\ DOMAIN s = 1 .. Len(s) /\ Head(s) = s[1]
    OBVIOUS
  <1>2. PICK j \in DOMAIN s : s[j] = b
    BY DEF Elems
  <1>3. 1 \in DOMAIN s /\ 1 < j
    BY <1>1, <1>2
  <1>. QED
    BY <1>1, <1>2, <1>3 DEF Before

\* In a rotated list the head of the old one comes after every other element,
\* and the others keep their order.
LEMMA BeforeRotate ==
  ASSUME NEW S, NEW s \in Seq(S), s # <<>>, Distinct(s), NEW a, NEW b, a # b,
         Before(Rotate(s), a, b)
  PROVE  /\ a # Head(s)
         /\ b # Head(s) => Before(s, a, b)
         /\ b = Head(s) => Before(s, b, a)
  <1> DEFINE t == Tail(s)
             h == Head(s)
             r == Append(t, h)
  <1>1. /\ t \in Seq(S) /\ h \in S /\ h \notin Elems(t)
        /\ Elems(s) = Elems(t) \union {h} /\ Before(r, a, b)
    BY TailElems DEF Rotate
  <1>2. /\ Len(t) \in Nat /\ DOMAIN t = 1 .. Len(t) /\ DOMAIN r = 1 .. Len(t) + 1
        /\ \A i \in 1 .. Len(t) : r[i] = t[i]
        /\ r[Len(t) + 1] = h
    BY <1>1
  <1> HIDE DEF t, h, r
  <1>3. PICK i, j \in DOMAIN r : i < j /\ r[i] = a /\ r[j] = b
    BY <1>1 DEF Before
  <1>4. i \in DOMAIN t /\ t[i] = a
    BY <1>2, <1>3
  <1>5. a \in Elems(t)
    BY <1>4 DEF Elems
  <1>6. a # h /\ a \in Elems(s)
    BY <1>1, <1>5
  <1>7. ASSUME b # h
        PROVE  Before(s, a, b)
    <2>1. Before(t, a, b)
      BY <1>1, <1>6, <1>7, BeforeAppend DEF r
    <2>. QED
      BY <2>1, BeforeTail DEF t
  <1>8. ASSUME b = h
        PROVE  Before(s, b, a)
    BY <1>6, <1>8, HeadBefore DEF h
  <1>. QED
    BY <1>6, <1>7, <1>8 DEF h

\* Bounds on a lead carry over to a list that has no new order among the two.
LEMMA ShareKept ==
  ASSUME NEW s, NEW t, NEW a, NEW b, NEW x, NEW m, NEW r, Share(s, a, b, x, m, r),
         Before(t, a, b) => Before(s, a, b),
         Before(t, b, a) => Before(s, b, a)
  PROVE  Share(t, a, b, x, m, r)
  BY DEF Share

\* A rotation grants the head a round and moves it behind the other.
LEMMA ShareRotate ==
  ASSUME NEW S, NEW s \in Seq(S), s # <<>>, Distinct(s), NEW a, NEW b, a # b,
         NEW x \in Int, NEW m \in Int, NEW r \in Int, Share(s, a, b, x, m, r)
  PROVE  /\ Head(s) = a => Share(Rotate(s), a, b, x + r, m, r)
         /\ Head(s) = b => Share(Rotate(s), a, b, x - r, m, r)
         /\ Head(s) \notin {a, b} => Share(Rotate(s), a, b, x, m, r)
  <1> DEFINE t == Rotate(s)
  <1>1. Before(t, a, b) => /\ a # Head(s)
                           /\ b # Head(s) => Before(s, a, b)
                           /\ b = Head(s) => Before(s, b, a)
    BY BeforeRotate
  <1>2. Before(t, b, a) => /\ b # Head(s)
                           /\ a # Head(s) => Before(s, b, a)
                           /\ a = Head(s) => Before(s, a, b)
    BY BeforeRotate
  <1> HIDE DEF t
  <1>3. /\ Before(s, a, b) => x <= m
        /\ Before(s, b, a) => x <= m + r
    BY DEF Share
  <1>4. Head(s) = a => Share(t, a, b, x + r, m, r)
    BY <1>1, <1>2, <1>3 DEF Share
  <1>5. Head(s) = b => Share(t, a, b, x - r, m, r)
    BY <1>1, <1>2, <1>3 DEF Share
  <1>6. Head(s) \notin {a, b} => Share(t, a, b, x, m, r)
    BY <1>1, <1>2, <1>3 DEF Share
  <1>. QED
    BY <1>4, <1>5, <1>6 DEF t
-----------------------------------------------------------------------------
LEMMA MaxPacketDef ==
  MaxPacket \in Nat /\ MaxPacket >= 1 /\ \A s \in Sizes : s \in Nat /\ s <= MaxPacket
  <1>1. MaxPacket \in Sizes /\ \A t \in Sizes : t <= MaxPacket
    BY LargestPacketAssumption DEF MaxPacket
  <1>. QED
    BY <1>1, ConstantsAssumption

\* What the proofs about one queue disc give for the two histories.
BaseInv == ListInv /\ DeficitInv

LEMMA InitBaseInv == Init => BaseInv
  <1> SUFFICES ASSUME Init PROVE DeficitsBounded
    BY InitListInv DEF BaseInv, DeficitInv, ListInv
  <1>. QED
    BY QuantaTypes DEF Init, DeficitsBounded

LEMMA NextBaseInv == BaseInv /\ [Next]_vars => BaseInv'
  BY NextListInv, NextDeficitInv DEF BaseInv

\* A flow holds at most a quantum of credit, and owes less than a packet.
LEMMA DeficitRange ==
  ASSUME NEW d \in Int, FlowBound(d)
  PROVE  1 - MaxPacket <= d /\ d <= Quantum
  BY MaxPacketDef DEF FlowBound

LEMMA FlowDeficitRange ==
  ASSUME BaseInv, NEW f \in FlowIds
  PROVE  /\ flowDeficit[f] \in Int
         /\ 1 - MaxPacket <= flowDeficit[f] /\ flowDeficit[f] <= Quantum
  <1>1. flowDeficit[f] \in Int /\ FlowBound(flowDeficit[f])
    BY DeficitsBoundedDef DEF BaseInv, DeficitInv, TypeOK
  <1>. QED
    BY <1>1, DeficitRange

\* The step that charges a packet is Serve, and it charges the first flow of the
\* first class.
LEMMA OnlyServeServes ==
  ASSUME TypeOK, Next, NEW f \in FlowIds, Served(f)
  PROVE  Serve /\ f = ServedFlow
  BY DEF Served, Next, Enqueue, Dequeue, Peek, DropStep, DequeueStep, PeekStep, MsfcDrop,
         DropHead, NoClass, RotateClass, FoundClass, RotateFlow, ClassEmpty, CoDelDrop,
         FlowEmpty, PeekTake, PeekNull

\* The flow a step charges is active and the first one of its class, and this
\* class is active and the first one.
LEMMA ServedFirst ==
  ASSUME BaseInv, Serve
  PROVE  /\ Chosen \in Prios /\ ServedFlow \in FlowIds /\ ServedFlow[1] = Chosen
         /\ prioClasses # <<>> /\ flows[Chosen] # <<>>
         /\ flowActive[ServedFlow] /\ classActive[Chosen]
         /\ Head(queue[ServedFlow]) \in Nat
         /\ flowDeficit' = [flowDeficit EXCEPT ![ServedFlow] = @ - Head(queue[ServedFlow])]
         /\ classDeficit' = [classDeficit EXCEPT ![Chosen] = @ - Head(queue[ServedFlow])]
         /\ UNCHANGED <<prioClasses, classActive, flows, flowActive>>
  <1>. TypeOK /\ ListsMatchFlags /\ NoPacketStranded
    BY DEF BaseInv, ListInv
  <1>1. /\ prioClasses # <<>> /\ flows[Chosen] # <<>> /\ TakeHead(ServedFlow)
        /\ flowDeficit' = [flowDeficit EXCEPT ![ServedFlow] = @ - Head(queue[ServedFlow])]
        /\ classDeficit' = [classDeficit EXCEPT ![Chosen] = @ - Head(queue[ServedFlow])]
        /\ UNCHANGED <<prioClasses, classActive, flows, flowActive>>
    BY DEF Serve, InChildDequeue, TypeOK
  <1>2. Chosen \in Prios /\ ServedFlow \in FlowIds
    BY <1>1, ServedType
  <1>3. Head(queue[ServedFlow]) \in Nat
    BY <1>1, <1>2, TakeHeadType
  <1>4. ServedFlow \in Elems(flows[Chosen])
    <2>1. flows[Chosen] \in Seq(FlowIds)
      BY <1>2 DEF TypeOK
    <2>. QED
      BY <1>1, <2>1, TailElems DEF ServedFlow
  <1>5. ServedFlow[1] = Chosen /\ flowActive[ServedFlow]
    BY <1>2, <1>4 DEF ListsMatchFlags
  <1>6. classActive[Chosen]
    BY <1>2, <1>5 DEF NoPacketStranded
  <1>. QED
    BY <1>1, <1>2, <1>3, <1>5, <1>6
-----------------------------------------------------------------------------
\* The flows.
BothFlows(pair) == flowActive[pair[1]] /\ flowActive[pair[2]]
FlowLead(pair)  == flowEdge[pair] + flowDeficit[pair[1]] - flowDeficit[pair[2]]
FlowLimit       == Quantum + MaxPacket - 1

FlowShare(pair) ==
  /\ flowEdge[pair] \in Int
  /\ flowEdge[pair] <= 2 * Quantum + 2 * (MaxPacket - 1)
  /\ pair[1] = pair[2] => flowEdge[pair] = 0
  /\ pair[1] # pair[2] /\ BothFlows(pair) =>
       Share(flows[pair[1][1]], pair[1], pair[2], FlowLead(pair), FlowLimit, Quantum)

FlowShareInv == /\ BaseInv
                /\ DOMAIN flowEdge \subseteq FlowPairs
                /\ \A pair \in DOMAIN flowEdge : FlowShare(pair)

\* What Compare does to one pair.
LEMMA FlowCompare ==
  ASSUME Compare, NEW pair \in DOMAIN flowEdge
  PROVE  /\ BothFlows(pair) /\ BothFlows(pair)' =>
              flowEdge'[pair] = flowEdge[pair] + FlowBytes(pair[1]) - FlowBytes(pair[2])
         /\ ~ (BothFlows(pair) /\ BothFlows(pair)') => flowEdge'[pair] = 0
         /\ DOMAIN flowEdge' = DOMAIN flowEdge
  <1>1. /\ flowEdge'[pair] =
             IF \A i \in 1 .. 2 : flowActive[pair[i]] /\ flowActive'[pair[i]]
             THEN flowEdge[pair] + FlowBytes(pair[1]) - FlowBytes(pair[2])
             ELSE 0
        /\ DOMAIN flowEdge' = DOMAIN flowEdge
    BY DEF Compare
  <1>2. (\A i \in 1 .. 2 : flowActive[pair[i]] /\ flowActive'[pair[i]])
          <=> BothFlows(pair) /\ BothFlows(pair)'
    <2>1. 1 .. 2 = {1, 2}
      OBVIOUS
    <2>. QED
      BY <2>1 DEF BothFlows
  <1>. QED
    BY <1>1, <1>2

\* A pair that has just become active has been served nothing, and no lead is
\* more than a quantum of credit over a packet of debt.
LEMMA FlowShareNew ==
  ASSUME BaseInv', NEW pair, pair[1] \in FlowIds, pair[2] \in FlowIds, flowEdge'[pair] = 0
  PROVE  FlowShare(pair)'
  <1>1. /\ flowDeficit'[pair[1]] \in Int /\ flowDeficit'[pair[1]] <= Quantum
        /\ flowDeficit'[pair[2]] \in Int /\ flowDeficit'[pair[2]] >= 1 - MaxPacket
    <2>1. \A f \in FlowIds : flowDeficit'[f] \in Int /\ FlowBound(flowDeficit'[f])
      BY DEF BaseInv, DeficitInv, DeficitsBounded, FlowBound, TypeOK
    <2>. QED
      BY <2>1, DeficitRange
  <1>. QED
    BY <1>1, MaxPacketDef, QuantaTypes DEF FlowShare, FlowLead, FlowLimit, Share

\* A pair that stays active, in a step that serves nobody and leaves its deficits
\* and its order alone.
LEMMA FlowShareSame ==
  ASSUME FlowShareInv, NEW pair \in DOMAIN flowEdge, FlowShare(pair), BothFlows(pair),
         flowEdge'[pair] = flowEdge[pair],
         flowDeficit'[pair[1]] = flowDeficit[pair[1]],
         flowDeficit'[pair[2]] = flowDeficit[pair[2]],
         \A a, b \in {pair[1], pair[2]} :
           a # b /\ Before(flows'[pair[1][1]], a, b) => Before(flows[pair[1][1]], a, b)
  PROVE  FlowShare(pair)'
  BY DEF FlowShare, FlowLead, FlowLimit, Share

\* Serving one of the two leaves the lead as it is. It was the first of the list,
\* so that its lead is the lower of the two.
LEMMA FlowShareServe ==
  ASSUME FlowShareInv, BaseInv', NEW pair \in DOMAIN flowEdge, pair[1] # pair[2],
         BothFlows(pair), Serve,
         flowEdge'[pair] = flowEdge[pair] + FlowBytes(pair[1]) - FlowBytes(pair[2])
  PROVE  FlowShare(pair)'
  <1> DEFINE f == pair[1]
             g == pair[2]
             l == flows[f[1]]
             s == Head(queue[ServedFlow])
             e == flowEdge[pair]
             M == MaxPacket
  <1>1. f \in FlowIds /\ g \in FlowIds /\ f[1] = g[1] /\ f[1] \in Prios
    BY PairsAssumption, FlowPrio DEF FlowShareInv
  <1>2. /\ ServedFlow \in FlowIds /\ flows[Chosen] # <<>> /\ ServedFlow[1] = Chosen /\ s \in Nat
        /\ flowDeficit' = [flowDeficit EXCEPT ![ServedFlow] = @ - s]
        /\ flows' = flows
    BY ServedFirst DEF FlowShareInv
  <1>3. /\ e \in Int /\ e <= 2 * Quantum + 2 * (M - 1)
        /\ Before(l, f, g) => FlowLead(pair) <= FlowLimit
        /\ Share(l, f, g, FlowLead(pair), FlowLimit, Quantum)
    BY DEF FlowShareInv, FlowShare, Share
  <1>4. \A h \in FlowIds : FlowBytes(h) = IF h = ServedFlow THEN s ELSE 0
    BY DEF Serve, FlowBytes, Served
  <1>5. \A h \in FlowIds : flowDeficit'[h] = IF h = ServedFlow THEN flowDeficit[h] - s
                                                               ELSE flowDeficit[h]
    BY <1>2 DEF FlowShareInv, BaseInv, DeficitInv, TypeOK
  <1>6. /\ flowDeficit[f] \in Int /\ flowDeficit[g] \in Int
        /\ flowDeficit'[f] \in Int /\ flowDeficit'[f] >= 1 - M
        /\ flowDeficit'[g] \in Int /\ flowDeficit'[g] <= Quantum
    <2>1. \A h \in FlowIds : flowDeficit'[h] \in Int /\ FlowBound(flowDeficit'[h])
      BY DEF BaseInv, DeficitInv, DeficitsBounded, FlowBound, TypeOK
    <2>. QED
      BY <1>1, <2>1, DeficitRange, FlowDeficitRange DEF FlowShareInv
  <1>7. ServedFlow = f => Before(l, f, g)
    <2>1. l \in Seq(FlowIds) /\ g \in Elems(l)
      BY <1>1 DEF FlowShareInv, BaseInv, ListInv, TypeOK, ListsMatchFlags, BothFlows
    <2>2. ServedFlow = f => f = Head(l) /\ l # <<>>
      <3>1. ServedFlow = f => Chosen = f[1]
        BY <1>2
      <3>. QED
        BY <1>2, <3>1 DEF ServedFlow
    <2>. QED
      BY <2>1, <2>2, HeadBefore
  <1>8. M \in Int /\ Quantum \in Int /\ Quantum >= 0
    BY MaxPacketDef, QuantaTypes
  <1>9. /\ flowEdge'[pair] = e + FlowBytes(f) - FlowBytes(g)
        /\ FlowLead(pair) = e + flowDeficit[f] - flowDeficit[g]
        /\ FlowLead(pair)' = flowEdge'[pair] + flowDeficit'[f] - flowDeficit'[g]
        /\ FlowLimit = Quantum + M - 1
        /\ f # g
    BY DEF FlowLead, FlowLimit
  <1>10. FlowShare(pair)' <=>
           /\ flowEdge'[pair] \in Int
           /\ flowEdge'[pair] <= 2 * Quantum + 2 * (M - 1)
           /\ BothFlows(pair)' => Share(l, f, g, FlowLead(pair)', FlowLimit, Quantum)
    BY <1>2, <1>9 DEF FlowShare, FlowLimit
  <1> HIDE DEF f, g, l, s, e, M, FlowLimit
  <1>11. CASE ServedFlow = f
    <2>1. flowEdge'[pair] = e + s /\ flowDeficit'[f] = flowDeficit[f] - s
          /\ flowDeficit'[g] = flowDeficit[g]
      BY <1>1, <1>2, <1>3, <1>4, <1>5, <1>9, <1>11
    <2>2. FlowLead(pair)' = FlowLead(pair) /\ FlowLead(pair) <= Quantum + M - 1
      BY <1>2, <1>3, <1>6, <1>7, <1>9, <1>11, <2>1
    <2>3. flowEdge'[pair] \in Int
      BY <1>2, <1>3, <2>1
    <2>4. flowEdge'[pair] <= 2 * Quantum + 2 * (M - 1)
      BY <1>6, <1>8, <1>9, <2>2, <2>3
    <2>. QED
      BY <1>3, <1>10, <2>2, <2>3, <2>4
  <1>12. CASE ServedFlow = g
    <2>1. flowEdge'[pair] = e - s /\ flowDeficit'[f] = flowDeficit[f]
          /\ flowDeficit'[g] = flowDeficit[g] - s
      BY <1>1, <1>2, <1>3, <1>4, <1>5, <1>9, <1>12
    <2>2. FlowLead(pair)' = FlowLead(pair)
      BY <1>2, <1>3, <1>6, <1>9, <2>1
    <2>. QED
      BY <1>2, <1>3, <1>8, <1>10, <2>1, <2>2
  <1>13. CASE ServedFlow \notin {f, g}
    <2>1. flowEdge'[pair] = e /\ flowDeficit'[f] = flowDeficit[f]
          /\ flowDeficit'[g] = flowDeficit[g]
      BY <1>1, <1>3, <1>4, <1>5, <1>9, <1>13
    <2>. QED
      BY <1>3, <1>9, <1>10, <2>1
  <1>. QED
    BY <1>11, <1>12, <1>13

\* A rotation of the list of their class.
LEMMA FlowShareRotate ==
  ASSUME FlowShareInv, NEW pair \in DOMAIN flowEdge, pair[1] # pair[2], BothFlows(pair),
         RotateFlow, flowEdge'[pair] = flowEdge[pair]
  PROVE  FlowShare(pair)'
  <1> DEFINE f == pair[1]
             g == pair[2]
             l == flows[f[1]]
  <1>1. f \in FlowIds /\ g \in FlowIds /\ f[1] = g[1] /\ f[1] \in Prios /\ f # g
    BY PairsAssumption, FlowPrio DEF FlowShareInv
  <1>2. TypeOK /\ ListsMatchFlags
    BY DEF FlowShareInv, BaseInv, ListInv
  <1>3. /\ Chosen \in Prios /\ flows[Chosen] # <<>> /\ ServedFlow \in FlowIds
        /\ ServedFlow[1] = Chosen
        /\ flowDeficit' = [flowDeficit EXCEPT ![ServedFlow] = @ + Quantum]
        /\ flows' = [flows EXCEPT ![Chosen] = Rotate(@)]
        /\ flowActive' = flowActive
    <2>1. flows[Chosen] # <<>> /\ prioClasses # <<>>
      BY <1>2 DEF RotateFlow, TypeOK
    <2>2. Chosen \in Prios /\ ServedFlow \in FlowIds
      BY <1>2, <2>1, ServedType
    <2>3. ServedFlow \in Elems(flows[Chosen])
      <3>1. flows[Chosen] \in Seq(FlowIds)
        BY <1>2, <2>2 DEF TypeOK
      <3>. QED
        BY <2>1, <3>1, TailElems DEF ServedFlow
    <2>. QED
      BY <1>2, <2>1, <2>2, <2>3 DEF RotateFlow, ServedFlow, ListsMatchFlags
  <1>4. /\ flowEdge[pair] \in Int /\ flowEdge[pair] <= 2 * Quantum + 2 * (MaxPacket - 1)
        /\ Share(l, f, g, FlowLead(pair), FlowLimit, Quantum)
    BY DEF FlowShareInv, FlowShare
  <1>5. /\ flowDeficit[f] \in Int /\ flowDeficit[g] \in Int /\ Quantum \in Int
        /\ MaxPacket \in Int
    BY <1>1, <1>2, QuantaTypes, MaxPacketDef DEF TypeOK
  <1>6. /\ FlowLead(pair) = flowEdge[pair] + flowDeficit[f] - flowDeficit[g]
        /\ FlowLead(pair)' = flowEdge[pair] + flowDeficit'[f] - flowDeficit'[g]
        /\ FlowLead(pair) \in Int /\ FlowLimit \in Int
    BY <1>4, <1>5 DEF FlowLead, FlowLimit
  <1>7. Share(flows'[f[1]], f, g, FlowLead(pair)', FlowLimit, Quantum)
    <2>1. CASE f[1] # Chosen
      <3>1. flows'[f[1]] = l /\ flowDeficit'[f] = flowDeficit[f] /\ flowDeficit'[g] = flowDeficit[g]
        BY <1>1, <1>2, <1>3, <2>1 DEF TypeOK
      <3>. QED
        BY <1>4, <1>6, <3>1
    <2>2. CASE f[1] = Chosen
      <3>1. l \in Seq(FlowIds) /\ l # <<>> /\ Distinct(l) /\ Head(l) = ServedFlow
        <4>1. l = flows[Chosen] /\ l \in Seq(FlowIds) /\ Distinct(l)
          BY <1>1, <1>2, <2>2 DEF TypeOK, ListsMatchFlags
        <4>. QED
          BY <1>3, <4>1 DEF ServedFlow
      <3>2. flows'[f[1]] = Rotate(l)
        BY <1>1, <1>2, <1>3, <2>2 DEF TypeOK
      <3>3. \A h \in FlowIds : flowDeficit'[h] = IF h = ServedFlow THEN flowDeficit[h] + Quantum
                                                                   ELSE flowDeficit[h]
        BY <1>2, <1>3 DEF TypeOK
      <3>4. /\ Head(l) = f => FlowLead(pair)' = FlowLead(pair) + Quantum
            /\ Head(l) = g => FlowLead(pair)' = FlowLead(pair) - Quantum
            /\ Head(l) \notin {f, g} => FlowLead(pair)' = FlowLead(pair)
        <4> HIDE DEF f, g, l
        <4>1. Head(l) = f => FlowLead(pair)' = FlowLead(pair) + Quantum
          <5>1. Head(l) = f => /\ flowDeficit'[f] = flowDeficit[f] + Quantum
                               /\ flowDeficit'[g] = flowDeficit[g]
            BY <1>1, <3>1, <3>3
          <5>. QED
            BY <1>4, <1>5, <1>6, <5>1
        <4>2. Head(l) = g => FlowLead(pair)' = FlowLead(pair) - Quantum
          <5>1. Head(l) = g => /\ flowDeficit'[f] = flowDeficit[f]
                               /\ flowDeficit'[g] = flowDeficit[g] + Quantum
            BY <1>1, <3>1, <3>3
          <5>. QED
            BY <1>4, <1>5, <1>6, <5>1
        <4>3. Head(l) \notin {f, g} => FlowLead(pair)' = FlowLead(pair)
          BY <1>1, <1>6, <3>1, <3>3
        <4>. QED
          BY <4>1, <4>2, <4>3
      <3> HIDE DEF l, f, g
      <3>5. /\ Head(l) = f => Share(Rotate(l), f, g, FlowLead(pair) + Quantum, FlowLimit, Quantum)
            /\ Head(l) = g => Share(Rotate(l), f, g, FlowLead(pair) - Quantum, FlowLimit, Quantum)
            /\ Head(l) \notin {f, g} => Share(Rotate(l), f, g, FlowLead(pair), FlowLimit, Quantum)
        BY <1>1, <1>4, <1>5, <1>6, <3>1, ShareRotate
      <3>. QED
        BY <3>2, <3>4, <3>5
    <2>. QED
      BY <2>1, <2>2
  <1>. QED
    BY <1>1, <1>4, <1>7 DEF FlowShare, FlowLimit

\* Every other step leaves the deficit of an active flow alone, and changes a
\* list at most by a flow that was not active at its tail or by taking its head.
LEMMA OtherFlowSteps ==
  ASSUME BaseInv, Next, ~Serve, ~RotateFlow, NEW p \in Prios
  PROVE  /\ \A f \in FlowIds : flowActive[f] => flowDeficit'[f] = flowDeficit[f]
         /\ \/ flows'[p] = flows[p]
            \/ \E h \in FlowIds : ~flowActive[h] /\ flows'[p] = Append(flows[p], h)
            \/ flows[p] # <<>> /\ flows'[p] = Tail(flows[p])
  <1>. TypeOK
    BY DEF BaseInv, ListInv
  <1>0. flows \in [Prios -> Seq(FlowIds)] /\ flowDeficit \in [FlowIds -> Int]
    BY DEF TypeOK
  <1>1. CASE \E t \in Traffic, s \in Sizes : Enqueue(t[1], t[2], s)
    <2>1. PICK t \in Traffic, s \in Sizes : Enqueue(t[1], t[2], s)
      BY <1>1
    <2> DEFINE h == <<t[1], t[2] % Flows>>
    <2>2. h \in FlowIds /\ t[1] \in Prios /\ Activate(t[1], h)
      BY <2>1, TrafficFlow DEF Enqueue
    <2> HIDE DEF h
    <2>3. CASE flowActive[h]
      BY <2>2, <2>3 DEF Activate
    <2>4. CASE ~flowActive[h]
      <3>1. /\ flows' = [flows EXCEPT ![t[1]] = Append(@, h)]
            /\ flowDeficit' = [flowDeficit EXCEPT ![h] = AtMost(@, Quantum)]
        BY <2>2, <2>4 DEF Activate
      <3>2. flows'[p] = flows[p] \/ flows'[p] = Append(flows[p], h)
        BY <1>0, <2>2, <3>1
      <3>3. \A f \in FlowIds : f # h => flowDeficit'[f] = flowDeficit[f]
        BY <1>0, <2>2, <3>1
      <3>. QED
        BY <2>2, <2>4, <3>2, <3>3
    <2>. QED
      BY <2>3, <2>4
  <1>2. CASE FlowEmpty
    <2>1. /\ flowDeficit' = flowDeficit /\ flows[Chosen] # <<>>
          /\ flows' = [flows EXCEPT ![Chosen] = Tail(@)]
      BY <1>2 DEF FlowEmpty, InChildDequeue
    <2>. QED
      BY <1>0, <2>1
  <1>3. CASE ~ (FlowEmpty \/ \E t \in Traffic, s \in Sizes : Enqueue(t[1], t[2], s))
    <2>1. flows' = flows /\ flowDeficit' = flowDeficit
      BY <1>3 DEF Next, DropStep, DequeueStep, PeekStep, Dequeue, NoClass, FoundClass, Peek,
                  PeekNull, PeekTake, MsfcDrop, DropHead, CoDelDrop, RotateClass, ClassEmpty,
                  flowVars
    <2>. QED
      BY <2>1
  <1>. QED
    BY <1>1, <1>2, <1>3

\* One step, for one pair of flows.
LEMMA FlowShareStep ==
  ASSUME FlowShareInv, BaseInv', Next, Compare, NEW pair \in DOMAIN flowEdge
  PROVE  FlowShare(pair)'
  <1> DEFINE f == pair[1]
             g == pair[2]
  <1>1. f \in FlowIds /\ g \in FlowIds /\ f[1] = g[1] /\ f[1] \in Prios
    BY PairsAssumption, FlowPrio DEF FlowShareInv
  <1>2. BaseInv /\ TypeOK /\ ListsMatchFlags /\ FlowShare(pair)
    BY DEF FlowShareInv, BaseInv, ListInv
  <1>3. \A h \in FlowIds : /\ FlowBytes(h) \in Int
                           /\ ~Serve => FlowBytes(h) = 0
    BY <1>2, OnlyServeServes, ServedFirst DEF FlowBytes
  <1>4. CASE f = g \/ ~ (BothFlows(pair) /\ BothFlows(pair)')
    <2>1. flowEdge'[pair] = 0
      <3>1. f = g => flowEdge[pair] = 0 /\ FlowBytes(f) - FlowBytes(g) = 0
        BY <1>1, <1>2, <1>3 DEF FlowShare
      <3>. QED
        BY <1>1, <1>3, <1>4, <3>1, FlowCompare
    <2>. QED
      BY <1>1, <2>1, FlowShareNew
  <1>5. CASE f # g /\ BothFlows(pair) /\ BothFlows(pair)'
    <2>1. flowEdge'[pair] = flowEdge[pair] + FlowBytes(f) - FlowBytes(g)
      BY <1>5, FlowCompare
    <2>2. CASE Serve
      BY <1>5, <2>1, <2>2, FlowShareServe
    <2>3. ~Serve => flowEdge'[pair] = flowEdge[pair]
      BY <1>1, <1>2, <1>3, <2>1 DEF FlowShare
    <2>4. CASE RotateFlow
      <3>1. ~Serve
        BY <2>4 DEF Serve, RotateFlow, InChildDequeue, ServedFlow
      <3>. QED
        BY <1>5, <2>3, <2>4, <3>1, FlowShareRotate
    <2>5. CASE ~Serve /\ ~RotateFlow
      <3> DEFINE l == flows[f[1]]
                 m == flows'[f[1]]
      <3>1. /\ flowDeficit'[f] = flowDeficit[f] /\ flowDeficit'[g] = flowDeficit[g]
            /\ \/ m = l
               \/ \E h \in FlowIds : ~flowActive[h] /\ m = Append(l, h)
               \/ l # <<>> /\ m = Tail(l)
        BY <1>1, <1>2, <1>5, <2>5, OtherFlowSteps DEF BothFlows
      <3>2. l \in Seq(FlowIds) /\ flowActive[f] /\ flowActive[g]
        BY <1>1, <1>2, <1>5 DEF TypeOK, BothFlows
      <3>3. ASSUME NEW a \in {f, g}, NEW b \in {f, g}, a # b, Before(m, a, b)
            PROVE  Before(l, a, b)
        <4> HIDE DEF l, m, f, g
        <4>1. CASE m = l
          BY <3>3, <4>1
        <4>2. CASE \E h \in FlowIds : ~flowActive[h] /\ m = Append(l, h)
          <5>1. PICK h \in FlowIds : ~flowActive[h] /\ m = Append(l, h)
            BY <4>2
          <5>2. a # h /\ b # h
            BY <3>2, <3>3, <5>1
          <5>. QED
            BY <3>2, <3>3, <5>1, <5>2, BeforeAppend
        <4>3. CASE l # <<>> /\ m = Tail(l)
          BY <3>2, <3>3, <4>3, BeforeTail
        <4>. QED
          BY <3>1, <4>1, <4>2, <4>3
      <3>. QED
        BY <1>2, <1>5, <2>3, <2>5, <3>1, <3>3, FlowShareSame
    <2>. QED
      BY <2>2, <2>4, <2>5
  <1>. QED
    BY <1>4, <1>5

LEMMA NextFlowShareInv ==
  FlowShareInv /\ [Next /\ Compare]_<<vars, edgeVars>> => FlowShareInv'
  <1>1. ASSUME FlowShareInv, Next, Compare
        PROVE  FlowShareInv'
    <2>1. BaseInv'
      BY <1>1, NextBaseInv DEF FlowShareInv
    <2>2. DOMAIN flowEdge' = DOMAIN flowEdge
      BY <1>1 DEF Compare
    <2>3. \A pair \in DOMAIN flowEdge : FlowShare(pair)'
      BY <1>1, <2>1, FlowShareStep
    <2>. QED
      BY <1>1, <2>1, <2>2, <2>3 DEF FlowShareInv
  <1>2. ASSUME FlowShareInv, UNCHANGED <<vars, edgeVars>>
        PROVE  FlowShareInv'
    <2>1. BaseInv'
      BY <1>2, NextBaseInv DEF FlowShareInv
    <2>2. flowEdge' = flowEdge /\ flowActive' = flowActive /\ flows' = flows
          /\ flowDeficit' = flowDeficit
      BY <1>2 DEF vars, edgeVars, flowVars
    <2>3. \A pair \in DOMAIN flowEdge : FlowShare(pair)'
      BY <1>2, <2>2 DEF FlowShareInv, FlowShare, BothFlows, FlowLead, FlowLimit
    <2>. QED
      BY <1>2, <2>1, <2>2, <2>3 DEF FlowShareInv
  <1>. QED
    BY <1>1, <1>2

\* Any two flows of a class have been served the same number of bytes, to within
\* two quanta and two packets, since they have both been active: for every MTU,
\* quantum and traffic, whatever is dropped, and whatever other classes do.
THEOREM FlowsAlwaysShareEqually == SharingSpec => []FlowsShareEqually
  <1>1. FairInit => FlowShareInv
    <2> SUFFICES ASSUME FairInit PROVE FlowShareInv
      OBVIOUS
    <2>1. Init => BaseInv
      BY InitBaseInv
    <2>2. /\ DOMAIN flowEdge \subseteq FlowPairs
          /\ \A pair \in DOMAIN flowEdge : flowEdge[pair] = 0
      BY DEF FairInit
    <2>3. \A f \in FlowIds : ~flowActive[f]
      BY DEF FairInit, Init
    <2>4. \A pair \in DOMAIN flowEdge : FlowShare(pair)
      BY <2>2, <2>3, PairsAssumption, QuantaTypes, MaxPacketDef DEF FlowShare, BothFlows
    <2>. QED
      BY <2>1, <2>2, <2>4 DEF FairInit, FlowShareInv
  <1>2. FlowShareInv /\ [Next /\ Compare]_<<vars, edgeVars>> => FlowShareInv'
    BY NextFlowShareInv
  <1>3. FlowShareInv => FlowsShareEqually
    BY DEF FlowShareInv, FlowShare, FlowsShareEqually
  <1>. QED
    BY <1>1, <1>2, <1>3, PTL DEF SharingSpec
-----------------------------------------------------------------------------
(***************************************************************************)
(* The classes. Their quanta differ, so that what each was served is       *)
(* weighed with the quantum of the other, and a round is the product of the*)
(* two quanta.                                                             *)
(***************************************************************************)
LEMMA TimesMonotone ==
  ASSUME NEW a \in Int, NEW b \in Int, NEW c \in Int, a <= b, c >= 0
  PROVE  a * c \in Int /\ b * c \in Int /\ a * c <= b * c
  OBVIOUS

\* A lead of two classes that were served nothing, and what can be made of a
\* lead once one of them has been served.
LEMMA NewLead ==
  ASSUME NEW P \in Int, NEW Q \in Int, NEW M \in Int, NEW d \in Int, NEW e \in Int,
         P >= 0, Q >= 0, d <= P, 1 - M <= e
  PROVE  d * Q - e * P <= P * Q + (M - 1) * P
  <1>1. d * Q \in Int /\ P * Q \in Int /\ d * Q <= P * Q
    BY TimesMonotone
  <1>2. 1 - M \in Int /\ (1 - M) * P \in Int /\ e * P \in Int /\ (1 - M) * P <= e * P
    BY TimesMonotone
  <1>3. (M - 1) * P \in Int /\ (1 - M) * P = -((M - 1) * P)
    OBVIOUS
  <1>. QED
    BY <1>1, <1>2, <1>3

LEMMA EdgeOfLead ==
  ASSUME NEW P \in Int, NEW Q \in Int, NEW M \in Int, NEW d \in Int, NEW e \in Int,
         NEW x \in Int, NEW y \in Int, P >= 0, Q >= 0, 1 - M <= d, e <= Q,
         x <= P * Q + (M - 1) * P, x = y + d * Q - e * P
  PROVE  y <= 2 * P * Q + (P + Q) * (M - 1)
  <1>1. e * P \in Int /\ Q * P \in Int /\ e * P <= Q * P
    BY TimesMonotone
  <1>2. 1 - M \in Int /\ (1 - M) * Q \in Int /\ d * Q \in Int /\ (1 - M) * Q <= d * Q
    BY TimesMonotone
  <1>3. (M - 1) * Q \in Int /\ (1 - M) * Q = -((M - 1) * Q)
    OBVIOUS
  <1>4. /\ Q * P = P * Q /\ P * Q \in Int /\ (M - 1) * P \in Int
        /\ (P + Q) * (M - 1) = (M - 1) * P + (M - 1) * Q
        /\ 2 * P * Q = P * Q + P * Q
    OBVIOUS
  <1>. QED
    BY <1>1, <1>2, <1>3, <1>4

\* What a deficit that changes by s or by a quantum adds to a product.
LEMMA TimesSum ==
  ASSUME NEW a \in Int, NEW b \in Int, NEW c \in Int
  PROVE  /\ (a + b) * c = a * c + b * c /\ (a - b) * c = a * c - b * c
         /\ a * c \in Int /\ b * c \in Int /\ a * c = c * a
  OBVIOUS

BothClasses(pair) == classActive[pair[1]] /\ classActive[pair[2]]
ClassLead(pair)   == classEdge[pair] + classDeficit[pair[1]] * ClassQuantum(pair[2])
                                     - classDeficit[pair[2]] * ClassQuantum(pair[1])
ClassRound(pair)  == ClassQuantum(pair[1]) * ClassQuantum(pair[2])
ClassLimit(pair)  == ClassRound(pair) + (MaxPacket - 1) * ClassQuantum(pair[1])

ClassShare(pair) ==
  /\ classEdge[pair] \in Int
  /\ classEdge[pair] <= 2 * ClassQuantum(pair[1]) * ClassQuantum(pair[2])
                          + (ClassQuantum(pair[1]) + ClassQuantum(pair[2])) * (MaxPacket - 1)
  /\ pair[1] = pair[2] => classEdge[pair] = 0
  /\ pair[1] # pair[2] /\ BothClasses(pair) =>
       Share(prioClasses, pair[1], pair[2], ClassLead(pair), ClassLimit(pair), ClassRound(pair))

\* What the shares of classes depend on: no quantum overflowed into a negative
\* number, and no garbage is a debt of a packet or more.
SaneClasses == /\ \A p \in Prios : ClassQuantum(p) >= 0
               /\ \A d \in GarbageDeficit : d > -MaxPacket

ClassBaseInv == BaseInv /\ ClassDebtBounded

ClassShareInv == /\ ClassBaseInv
                 /\ DOMAIN classEdge \subseteq ClassPairs
                 /\ \A pair \in DOMAIN classEdge : ClassShare(pair)

LEMMA NextClassBaseInv ==
  ASSUME SaneClasses, ClassBaseInv, [Next]_vars
  PROVE  ClassBaseInv'
  BY NextBaseInv, NextDebt DEF SaneClasses, ClassBaseInv, BaseInv, ListInv

\* The deficit of an active class, in two forms a step can be checked against.
LEMMA DebtRange ==
  ASSUME SaneClasses, NEW d \in Int, DebtBound(d)
  PROVE  1 - MaxPacket <= d
  <1>1. CASE d >= 0
    BY <1>1, MaxPacketDef
  <1>2. CASE d < 0
    <2>1. PICK s \in Sizes \union {1 - g : g \in GarbageDeficit} : d > -s
      BY <1>2 DEF DebtBound
    <2>2. s \in Int /\ s <= MaxPacket
      <3>1. \A g \in GarbageDeficit : g \in Int /\ g > -MaxPacket
        BY ConstantsAssumption DEF SaneClasses
      <3>. QED
        BY <2>1, <3>1, MaxPacketDef
    <2>. QED
      BY <2>1, <2>2, MaxPacketDef
  <1>. QED
    BY <1>1, <1>2

LEMMA ClassDeficitRange ==
  ASSUME SaneClasses, ClassBaseInv, NEW p \in Prios, classActive[p]
  PROVE  /\ classDeficit[p] \in Int
         /\ 1 - MaxPacket <= classDeficit[p] /\ classDeficit[p] <= ClassQuantum(p)
  <1>1. /\ classDeficit[p] \in Int /\ DebtBound(classDeficit[p])
        /\ classDeficit[p] <= ClassQuantum(p)
    BY DEF ClassBaseInv, BaseInv, DeficitInv, DeficitsBounded, TypeOK, ClassDebtBounded,
           DebtBound
  <1>. QED
    BY <1>1, DebtRange

\* The types of what a pair of classes is compared by.
LEMMA ClassPairTypes ==
  ASSUME SaneClasses, NEW pair \in ClassPairs
  PROVE  /\ pair[1] \in Prios /\ pair[2] \in Prios
         /\ ClassQuantum(pair[1]) \in Int /\ ClassQuantum(pair[1]) >= 0
         /\ ClassQuantum(pair[2]) \in Int /\ ClassQuantum(pair[2]) >= 0
         /\ MaxPacket \in Int /\ MaxPacket >= 1
         /\ ClassRound(pair) \in Int /\ ClassRound(pair) >= 0
         /\ ClassLimit(pair) \in Int
  <1>1. pair[1] \in Prios /\ pair[2] \in Prios
    BY PairsAssumption
  <1>2. /\ ClassQuantum(pair[1]) \in Int /\ ClassQuantum(pair[1]) >= 0
        /\ ClassQuantum(pair[2]) \in Int /\ ClassQuantum(pair[2]) >= 0
    BY <1>1, QuantaTypes DEF SaneClasses
  <1>3. ClassRound(pair) \in Int /\ ClassRound(pair) >= 0
    <2>1. /\ 0 * ClassQuantum(pair[2]) <= ClassQuantum(pair[1]) * ClassQuantum(pair[2])
          /\ ClassQuantum(pair[1]) * ClassQuantum(pair[2]) \in Int
      BY <1>2, TimesMonotone
    <2>. QED
      BY <1>2, <2>1 DEF ClassRound
  <1>4. MaxPacket \in Int /\ MaxPacket >= 1
    BY MaxPacketDef
  <1>5. (MaxPacket - 1) * ClassQuantum(pair[1]) \in Int
    BY <1>2, <1>4
  <1>. QED
    BY <1>1, <1>2, <1>3, <1>4, <1>5 DEF ClassLimit

\* What Compare does to one pair.
LEMMA ClassCompare ==
  ASSUME Compare, NEW pair \in DOMAIN classEdge
  PROVE  /\ BothClasses(pair) /\ BothClasses(pair)' =>
              classEdge'[pair] = classEdge[pair]
                                   + ClassBytes(pair[1]) * ClassQuantum(pair[2])
                                   - ClassBytes(pair[2]) * ClassQuantum(pair[1])
         /\ ~ (BothClasses(pair) /\ BothClasses(pair)') => classEdge'[pair] = 0
         /\ DOMAIN classEdge' = DOMAIN classEdge
  <1>1. /\ classEdge'[pair] =
             IF \A i \in 1 .. 2 : classActive[pair[i]] /\ classActive'[pair[i]]
             THEN classEdge[pair] + ClassBytes(pair[1]) * ClassQuantum(pair[2])
                                  - ClassBytes(pair[2]) * ClassQuantum(pair[1])
             ELSE 0
        /\ DOMAIN classEdge' = DOMAIN classEdge
    BY DEF Compare
  <1>2. (\A i \in 1 .. 2 : classActive[pair[i]] /\ classActive'[pair[i]])
          <=> BothClasses(pair) /\ BothClasses(pair)'
    <2>1. 1 .. 2 = {1, 2}
      OBVIOUS
    <2>. QED
      BY <2>1 DEF BothClasses
  <1>. QED
    BY <1>1, <1>2

\* The bytes a step charges to a class: those of the packet served, to the first
\* class of the list.
LEMMA ClassCharge ==
  ASSUME BaseInv, Next, NEW p \in Prios
  PROVE  /\ ~Serve => ClassBytes(p) = 0
         /\ Serve => ClassBytes(p) = IF p = Chosen THEN Head(queue[ServedFlow]) ELSE 0
         /\ ClassBytes(p) \in Nat
  <1>. TypeOK
    BY DEF BaseInv, ListInv
  <1>1. ~Serve => ClassBytes(p) = 0
    BY OnlyServeServes DEF ClassBytes
  <1>2. ASSUME Serve
        PROVE  /\ ClassBytes(p) = IF p = Chosen THEN Head(queue[ServedFlow]) ELSE 0
               /\ Head(queue[ServedFlow]) \in Nat
    <2>1. /\ ServedFlow \in FlowIds /\ ServedFlow[1] = Chosen
          /\ Head(queue[ServedFlow]) \in Nat
      BY <1>2, ServedFirst
    <2>2. \A f \in FlowIds : Served(f) <=> f = ServedFlow
      BY <1>2 DEF Serve, Served
    <2>. QED
      BY <2>1, <2>2 DEF ClassBytes
  <1>. QED
    BY <1>1, <1>2

\* What has served nobody is within the limit.
LEMMA ZeroBelowLimit ==
  ASSUME SaneClasses, NEW pair \in ClassPairs
  PROVE  0 <= 2 * ClassQuantum(pair[1]) * ClassQuantum(pair[2])
                + (ClassQuantum(pair[1]) + ClassQuantum(pair[2])) * (MaxPacket - 1)
  <1> DEFINE P == ClassQuantum(pair[1])
             Q == ClassQuantum(pair[2])
             M == MaxPacket
  <1>0. P \in Int /\ P >= 0 /\ Q \in Int /\ Q >= 0 /\ M \in Int /\ M >= 1
    BY ClassPairTypes
  <1> HIDE DEF P, Q, M
  <1>1. 0 \in Int /\ 0 * (M - 1) <= (P + Q) * (M - 1) /\ (P + Q) * (M - 1) \in Int
    BY <1>0, TimesMonotone
  <1>2. 0 * Q <= P * Q /\ P * Q \in Int
    BY <1>0, TimesMonotone
  <1>3. 2 * P * Q = P * Q + P * Q
    BY <1>0
  <1>. QED
    BY <1>0, <1>1, <1>2, <1>3 DEF P, Q, M

\* A pair of classes that has been served nothing.
LEMMA ClassShareNew ==
  ASSUME SaneClasses, ClassBaseInv', NEW pair \in ClassPairs, classEdge'[pair] = 0
  PROVE  ClassShare(pair)'
  <1> DEFINE P == ClassQuantum(pair[1])
             Q == ClassQuantum(pair[2])
             M == MaxPacket
             d == classDeficit'[pair[1]]
             e == classDeficit'[pair[2]]
  <1>1. /\ pair[1] \in Prios /\ pair[2] \in Prios
        /\ P \in Int /\ P >= 0 /\ Q \in Int /\ Q >= 0 /\ M \in Int /\ M >= 1
        /\ ClassRound(pair) \in Int /\ ClassRound(pair) >= 0 /\ ClassLimit(pair) \in Int
    BY ClassPairTypes
  <1>2. 0 <= 2 * P * Q + (P + Q) * (M - 1)
    BY ZeroBelowLimit
  <1>3. ASSUME BothClasses(pair)'
        PROVE  ClassLead(pair)' \in Int /\ ClassLead(pair)' <= ClassLimit(pair)
    <2>1. /\ d \in Int /\ d <= P /\ e \in Int /\ 1 - M <= e
      <3>1. \A p \in Prios : classActive'[p] =>
              /\ classDeficit'[p] \in Int /\ DebtBound(classDeficit'[p])
              /\ classDeficit'[p] <= ClassQuantum(p)
        BY DEF ClassBaseInv, BaseInv, DeficitInv, DeficitsBounded, TypeOK, ClassDebtBounded,
               DebtBound
      <3>. QED
        BY <1>1, <1>3, <3>1, DebtRange DEF BothClasses
    <2>2. ClassLead(pair)' = 0 + d * Q - e * P
      BY DEF ClassLead
    <2>3. ClassLimit(pair) = P * Q + (M - 1) * P
      BY DEF ClassLimit, ClassRound
    <2> HIDE DEF P, Q, M, d, e
    <2>4. d * Q \in Int /\ e * P \in Int /\ d * Q - e * P <= P * Q + (M - 1) * P
      BY <1>1, <2>1, NewLead
    <2>. QED
      BY <2>2, <2>3, <2>4
  <1>4. ASSUME BothClasses(pair)'
        PROVE  Share(prioClasses', pair[1], pair[2], ClassLead(pair)', ClassLimit(pair),
                     ClassRound(pair))
    BY <1>1, <1>3, <1>4 DEF Share
  <1>5. ClassLimit(pair)' = ClassLimit(pair) /\ ClassRound(pair)' = ClassRound(pair)
    BY DEF ClassLimit, ClassRound
  <1>. QED
    BY <1>2, <1>4, <1>5 DEF ClassShare

\* A pair that stays active, in a step that serves nobody and leaves its deficits
\* and its order alone.
LEMMA ClassShareSame ==
  ASSUME NEW pair \in DOMAIN classEdge, ClassShare(pair), BothClasses(pair),
         classEdge'[pair] = classEdge[pair],
         classDeficit'[pair[1]] = classDeficit[pair[1]],
         classDeficit'[pair[2]] = classDeficit[pair[2]],
         \A a, b \in {pair[1], pair[2]} :
           a # b /\ Before(prioClasses', a, b) => Before(prioClasses, a, b)
  PROVE  ClassShare(pair)'
  <1>1. /\ ClassLead(pair)' = ClassLead(pair) /\ ClassLimit(pair)' = ClassLimit(pair)
        /\ ClassRound(pair)' = ClassRound(pair)
    BY DEF ClassLead, ClassLimit, ClassRound
  <1>2. pair[1] # pair[2] => Share(prioClasses', pair[1], pair[2], ClassLead(pair),
                                   ClassLimit(pair), ClassRound(pair))
    BY DEF ClassShare, Share
  <1>. QED
    BY <1>1, <1>2 DEF ClassShare

\* Serving one of the two leaves the lead as it is.
LEMMA ClassShareServe ==
  ASSUME SaneClasses, ClassShareInv, ClassBaseInv', Next, NEW pair \in DOMAIN classEdge,
         pair[1] # pair[2], BothClasses(pair), BothClasses(pair)', Serve,
         classEdge'[pair] = classEdge[pair] + ClassBytes(pair[1]) * ClassQuantum(pair[2])
                                            - ClassBytes(pair[2]) * ClassQuantum(pair[1])
  PROVE  ClassShare(pair)'
  <1> DEFINE p == pair[1]
             q == pair[2]
             P == ClassQuantum(p)
             Q == ClassQuantum(q)
             M == MaxPacket
             s == Head(queue[ServedFlow])
             e == classEdge[pair]
  <1>0. pair \in ClassPairs /\ ClassBaseInv /\ BaseInv /\ TypeOK /\ ListsMatchFlags
    BY DEF ClassShareInv, ClassBaseInv, BaseInv, ListInv
  <1>1. /\ p \in Prios /\ q \in Prios /\ p # q
        /\ P \in Int /\ P >= 0 /\ Q \in Int /\ Q >= 0 /\ M \in Int
        /\ ClassRound(pair) = P * Q /\ ClassLimit(pair) = P * Q + (M - 1) * P
    BY <1>0, ClassPairTypes DEF ClassLimit, ClassRound
  <1>2. /\ Chosen \in Prios /\ prioClasses # <<>> /\ s \in Nat
        /\ classDeficit' = [classDeficit EXCEPT ![Chosen] = @ - s]
        /\ prioClasses' = prioClasses
    BY <1>0, ServedFirst
  <1>3. /\ e \in Int /\ e <= 2 * P * Q + (P + Q) * (M - 1)
        /\ Before(prioClasses, p, q) => ClassLead(pair) <= ClassLimit(pair)
        /\ Share(prioClasses, p, q, ClassLead(pair), ClassLimit(pair), ClassRound(pair))
    BY <1>1 DEF ClassShareInv, ClassShare, Share
  <1>4. /\ ClassBytes(p) = IF p = Chosen THEN s ELSE 0
        /\ ClassBytes(q) = IF q = Chosen THEN s ELSE 0
    BY <1>0, <1>1, ClassCharge
  <1>5. \A h \in Prios : classDeficit'[h] = IF h = Chosen THEN classDeficit[h] - s
                                                          ELSE classDeficit[h]
    BY <1>0, <1>2 DEF TypeOK
  <1>6. /\ classDeficit[p] \in Int /\ classDeficit[q] \in Int
        /\ classDeficit'[p] \in Int /\ classDeficit'[p] >= 1 - M
        /\ classDeficit'[q] \in Int /\ classDeficit'[q] <= Q
    <2>1. \A h \in Prios : classActive'[h] =>
            /\ classDeficit'[h] \in Int /\ DebtBound(classDeficit'[h])
            /\ classDeficit'[h] <= ClassQuantum(h)
      BY DEF ClassBaseInv, BaseInv, DeficitInv, DeficitsBounded, TypeOK, ClassDebtBounded,
             DebtBound
    <2>. QED
      BY <1>0, <1>1, <2>1, DebtRange DEF TypeOK, BothClasses
  <1>7. Chosen = p => Before(prioClasses, p, q)
    <2>1. prioClasses \in Seq(Prios) /\ q \in Elems(prioClasses)
      BY <1>0, <1>1 DEF TypeOK, ListsMatchFlags, BothClasses
    <2>. QED
      BY <1>1, <1>2, <2>1, HeadBefore DEF Chosen
  <1>9. /\ classEdge'[pair] = e + ClassBytes(p) * Q - ClassBytes(q) * P
        /\ ClassLead(pair) = e + classDeficit[p] * Q - classDeficit[q] * P
        /\ ClassLead(pair)' = classEdge'[pair] + classDeficit'[p] * Q - classDeficit'[q] * P
        /\ ClassLimit(pair)' = ClassLimit(pair) /\ ClassRound(pair)' = ClassRound(pair)
    BY DEF ClassLead, ClassLimit, ClassRound
  <1>10. ASSUME classEdge'[pair] \in Int,
                classEdge'[pair] <= 2 * P * Q + (P + Q) * (M - 1),
                ClassLead(pair)' = ClassLead(pair)
         PROVE  ClassShare(pair)'
    BY <1>1, <1>2, <1>3, <1>9, <1>10 DEF ClassShare
  <1> DEFINE d1 == classDeficit[p]
             d2 == classDeficit[q]
             c1 == classDeficit'[p]
             c2 == classDeficit'[q]
             f  == classEdge'[pair]
  <1>a. /\ s \in Int /\ s >= 0 /\ d1 \in Int /\ d2 \in Int
        /\ c1 \in Int /\ c1 >= 1 - M /\ c2 \in Int /\ c2 <= Q
    BY <1>2, <1>6
  <1>b. /\ f = e + ClassBytes(p) * Q - ClassBytes(q) * P
        /\ ClassLead(pair) = e + d1 * Q - d2 * P
        /\ ClassLead(pair)' = f + c1 * Q - c2 * P
    BY <1>9
  <1>c. /\ c1 = IF p = Chosen THEN d1 - s ELSE d1
        /\ c2 = IF q = Chosen THEN d2 - s ELSE d2
    BY <1>1, <1>5
  <1> HIDE DEF p, q, P, Q, s, e, M, d1, d2, c1, c2, f
  <1>11. CASE Chosen = p
    <2>1. c1 = d1 - s /\ c2 = d2 /\ f = e + s * Q - 0 * P
      BY <1>1, <1>4, <1>b, <1>c, <1>11
    <2>2. s * Q \in Int /\ d1 * Q \in Int /\ d2 * P \in Int /\ (d1 - s) * Q = d1 * Q - s * Q
          /\ 0 * P = 0
      BY <1>1, <1>a, TimesSum
    <2>3. f \in Int /\ ClassLead(pair)' = ClassLead(pair)
      BY <1>3, <1>b, <2>1, <2>2
    <2>4. /\ ClassLead(pair) \in Int /\ ClassLead(pair) <= P * Q + (M - 1) * P
          /\ ClassLead(pair) = f + c1 * Q - c2 * P
      BY <1>1, <1>3, <1>7, <1>b, <1>11, <2>1, <2>2, <2>3
    <2> DEFINE x == ClassLead(pair)
    <2> HIDE DEF x
    <2>5. c1 \in Int /\ c2 \in Int /\ 1 - M <= c1 /\ c2 <= Q
      BY <1>a
    <2>6. f <= 2 * P * Q + (P + Q) * (M - 1)
      BY <1>1, <2>3, <2>4, <2>5, EdgeOfLead DEF x
    <2>. QED
      BY <1>10, <2>3, <2>6 DEF f
  <1>12. CASE Chosen = q
    <2>1. c1 = d1 /\ c2 = d2 - s /\ f = e + 0 * Q - s * P
      BY <1>1, <1>4, <1>b, <1>c, <1>12
    <2>2. s * P \in Int /\ d1 * Q \in Int /\ d2 * P \in Int /\ (d2 - s) * P = d2 * P - s * P
          /\ 0 * Q = 0
      BY <1>1, <1>a, TimesSum
    <2>3. f \in Int /\ ClassLead(pair)' = ClassLead(pair)
      BY <1>3, <1>b, <2>1, <2>2
    <2>4. s * P >= 0
      <3>1. 0 * P <= s * P
        BY <1>1, <1>a, TimesMonotone
      <3>. QED
        BY <1>1, <1>a, <3>1
    <2>5. f <= 2 * P * Q + (P + Q) * (M - 1)
      <3> DEFINE b == 2 * P * Q + (P + Q) * (M - 1)
      <3>1. b \in Int
        BY <1>1
      <3> HIDE DEF b
      <3>2. e <= b
        BY <1>3 DEF b
      <3>3. f <= b
        BY <1>3, <2>1, <2>2, <2>4, <3>1, <3>2
      <3>. QED
        BY <3>3 DEF b
    <2>. QED
      BY <1>10, <2>3, <2>5 DEF f
  <1>13. CASE Chosen \notin {p, q}
    <2>1. c1 = d1 /\ c2 = d2 /\ f = e + 0 * Q - 0 * P
      BY <1>1, <1>4, <1>b, <1>c, <1>13
    <2>2. f = e
      BY <1>1, <1>3, <2>1
    <2>3. ClassLead(pair)' = ClassLead(pair)
      BY <1>b, <2>1, <2>2
    <2>. QED
      BY <1>3, <1>10, <2>2, <2>3 DEF f
  <1>. QED
    BY <1>11, <1>12, <1>13

\* A rotation of the list of classes.
LEMMA ClassShareRotate ==
  ASSUME SaneClasses, ClassShareInv, NEW pair \in DOMAIN classEdge, pair[1] # pair[2],
         BothClasses(pair), RotateClass, classEdge'[pair] = classEdge[pair]
  PROVE  ClassShare(pair)'
  <1> DEFINE p == pair[1]
             q == pair[2]
             P == ClassQuantum(p)
             Q == ClassQuantum(q)
             l == prioClasses
             x == ClassLead(pair)
             h == Head(prioClasses)
  <1>0. pair \in ClassPairs /\ TypeOK /\ ListsMatchFlags
    BY DEF ClassShareInv, ClassBaseInv, BaseInv, ListInv
  <1>1. /\ p \in Prios /\ q \in Prios /\ p # q /\ P \in Int /\ Q \in Int
        /\ ClassRound(pair) \in Int /\ ClassLimit(pair) \in Int /\ ClassRound(pair) = P * Q
    BY <1>0, ClassPairTypes DEF ClassRound
  <1>2. /\ l \in Seq(Prios) /\ l # <<>> /\ Distinct(l) /\ h \in Prios
        /\ prioClasses' = Rotate(l)
        /\ classDeficit' = [classDeficit EXCEPT ![h] = @ + ClassQuantum(h)]
    BY <1>0 DEF RotateClass, TypeOK, ListsMatchFlags
  <1>3. /\ classEdge[pair] \in Int
        /\ Share(l, p, q, x, ClassLimit(pair), ClassRound(pair))
    BY DEF ClassShareInv, ClassShare
  <1>4. classDeficit[p] \in Int /\ classDeficit[q] \in Int
    BY <1>0, <1>1 DEF TypeOK
  <1>5. \A c \in Prios : classDeficit'[c] = IF c = h THEN classDeficit[c] + ClassQuantum(c)
                                                     ELSE classDeficit[c]
    BY <1>0, <1>2 DEF TypeOK
  <1>6. /\ x = classEdge[pair] + classDeficit[p] * Q - classDeficit[q] * P
        /\ ClassLead(pair)' = classEdge[pair] + classDeficit'[p] * Q - classDeficit'[q] * P
        /\ ClassLimit(pair)' = ClassLimit(pair) /\ ClassRound(pair)' = ClassRound(pair)
    BY DEF ClassLead, ClassLimit, ClassRound
  <1>7. /\ classDeficit[p] * Q \in Int /\ classDeficit[q] * P \in Int
        /\ (classDeficit[p] + P) * Q = classDeficit[p] * Q + P * Q
        /\ (classDeficit[q] + Q) * P = classDeficit[q] * P + P * Q
        /\ P * Q \in Int
    <2> DEFINE d == classDeficit[p]
               e == classDeficit[q]
    <2>0. d \in Int /\ e \in Int /\ P \in Int /\ Q \in Int
      BY <1>1, <1>4
    <2> HIDE DEF d, e, P, Q
    <2>1. (d + P) * Q = d * Q + P * Q /\ d * Q \in Int /\ P * Q \in Int
      BY <2>0, TimesSum
    <2>2. (e + Q) * P = e * P + Q * P /\ e * P \in Int /\ Q * P = P * Q
      BY <2>0, TimesSum
    <2>. QED
      BY <2>1, <2>2 DEF d, e
  <1>8. x \in Int
    BY <1>3, <1>6, <1>7
  <1>9. /\ h = p => ClassLead(pair)' = x + ClassRound(pair)
        /\ h = q => ClassLead(pair)' = x - ClassRound(pair)
        /\ h \notin {p, q} => ClassLead(pair)' = x
    <2> HIDE DEF h, x, p, q
    <2>1. ASSUME h = p PROVE ClassLead(pair)' = x + ClassRound(pair)
      <3>1. classDeficit'[p] = classDeficit[p] + P /\ classDeficit'[q] = classDeficit[q]
        BY <1>1, <1>5, <2>1
      <3>. QED
        BY <1>1, <1>3, <1>6, <1>7, <3>1
    <2>2. ASSUME h = q PROVE ClassLead(pair)' = x - ClassRound(pair)
      <3>1. classDeficit'[p] = classDeficit[p] /\ classDeficit'[q] = classDeficit[q] + Q
        BY <1>1, <1>5, <2>2
      <3>. QED
        BY <1>1, <1>3, <1>6, <1>7, <3>1
    <2>3. ASSUME h \notin {p, q} PROVE ClassLead(pair)' = x
      BY <1>1, <1>5, <1>6, <2>3
    <2>. QED
      BY <2>1, <2>2, <2>3
  <1> HIDE DEF p, q, P, Q, l, x
  <1>10. /\ h = p => Share(Rotate(l), p, q, x + ClassRound(pair), ClassLimit(pair), ClassRound(pair))
         /\ h = q => Share(Rotate(l), p, q, x - ClassRound(pair), ClassLimit(pair), ClassRound(pair))
         /\ h \notin {p, q} => Share(Rotate(l), p, q, x, ClassLimit(pair), ClassRound(pair))
    BY <1>1, <1>2, <1>3, <1>8, ShareRotate DEF l
  <1>11. Share(prioClasses', p, q, ClassLead(pair)', ClassLimit(pair)', ClassRound(pair)')
    BY <1>2, <1>6, <1>9, <1>10
  <1>. QED
    BY <1>1, <1>11 DEF ClassShareInv, ClassShare, p, q

\* Every other step leaves the deficit of an active class alone, and changes the
\* list at most by a class that was not active or by taking its head.
LEMMA OtherClassSteps ==
  ASSUME BaseInv, Next, ~Serve, ~RotateClass
  PROVE  /\ \A p \in Prios : classActive[p] => classDeficit'[p] = classDeficit[p]
         /\ \/ prioClasses' = prioClasses
            \/ \E c \in Prios : ~classActive[c] /\ prioClasses' = Append(prioClasses, c)
            \/ prioClasses # <<>> /\ prioClasses' = Tail(prioClasses)
  <1>. TypeOK
    BY DEF BaseInv, ListInv
  <1>0. classDeficit \in [Prios -> Int]
    BY DEF TypeOK
  <1>1. CASE \E t \in Traffic, s \in Sizes : Enqueue(t[1], t[2], s)
    <2>1. PICK t \in Traffic, s \in Sizes : Enqueue(t[1], t[2], s)
      BY <1>1
    <2> DEFINE c == t[1]
    <2>2. c \in Prios /\ Activate(c, <<t[1], t[2] % Flows>>)
      BY <2>1, TrafficFlow DEF Enqueue
    <2> HIDE DEF c
    <2>3. CASE classActive[c]
      BY <2>2, <2>3 DEF Activate
    <2>4. CASE ~classActive[c]
      <3>1. PICK d \in StoredDeficit(c) :
              /\ prioClasses' = Append(prioClasses, c)
              /\ classDeficit' = [classDeficit EXCEPT ![c] = AtMost(d, ClassQuantum(c))]
        BY <2>2, <2>4 DEF Activate
      <3>2. \A p \in Prios : p # c => classDeficit'[p] = classDeficit[p]
        BY <1>0, <2>2, <3>1
      <3>. QED
        BY <2>2, <2>4, <3>1, <3>2
    <2>. QED
      BY <2>3, <2>4
  <1>2. CASE ClassEmpty
    <2>1. /\ classDeficit' = classDeficit /\ prioClasses # <<>>
          /\ prioClasses' = Tail(prioClasses)
      BY <1>2 DEF ClassEmpty, TypeOK
    <2>. QED
      BY <2>1
  <1>3. CASE ~ (ClassEmpty \/ \E t \in Traffic, s \in Sizes : Enqueue(t[1], t[2], s))
    <2>1. prioClasses' = prioClasses /\ classDeficit' = classDeficit
      BY <1>3 DEF Next, DropStep, DequeueStep, PeekStep, Dequeue, NoClass, FoundClass, Peek,
                  PeekNull, PeekTake, MsfcDrop, DropHead, CoDelDrop, RotateFlow, FlowEmpty,
                  classVars
    <2>. QED
      BY <2>1
  <1>. QED
    BY <1>1, <1>2, <1>3

\* One step, for one pair of classes.
LEMMA ClassShareStep ==
  ASSUME SaneClasses, ClassShareInv, ClassBaseInv', Next, Compare,
         NEW pair \in DOMAIN classEdge
  PROVE  ClassShare(pair)'
  <1> DEFINE p == pair[1]
             q == pair[2]
             P == ClassQuantum(p)
             Q == ClassQuantum(q)
             e == classEdge[pair]
             f == classEdge'[pair]
  <1>1. /\ pair \in ClassPairs /\ p \in Prios /\ q \in Prios /\ P \in Int /\ Q \in Int
        /\ BaseInv /\ TypeOK /\ ListsMatchFlags /\ ClassShare(pair) /\ e \in Int
        /\ p = q => e = 0
    BY ClassPairTypes DEF ClassShareInv, ClassBaseInv, BaseInv, ListInv, ClassShare
  <1>2. \A c \in Prios : ClassBytes(c) \in Int /\ (~Serve => ClassBytes(c) = 0)
    BY <1>1, ClassCharge
  <1>3. /\ BothClasses(pair) /\ BothClasses(pair)' =>
             f = e + ClassBytes(p) * Q - ClassBytes(q) * P
        /\ ~ (BothClasses(pair) /\ BothClasses(pair)') => f = 0
    BY ClassCompare
  <1>4. CASE p = q \/ ~ (BothClasses(pair) /\ BothClasses(pair)')
    <2>1. p = q => ClassBytes(p) * Q - ClassBytes(q) * P = 0
      <3> DEFINE b == ClassBytes(p)
      <3>1. b \in Int
        BY <1>1, <1>2
      <3>2. b * Q \in Int
        <4> HIDE DEF b, Q
        <4>. QED
          BY <1>1, <3>1
      <3>. QED
        BY <3>2
    <2>2. p = q => f = 0
      <3> DEFINE x == ClassBytes(p) * Q
                 y == ClassBytes(q) * P
      <3>1. x \in Int /\ y \in Int
        <4>1. ClassBytes(p) \in Int /\ ClassBytes(q) \in Int
          BY <1>1, <1>2
        <4> HIDE DEF P, Q, p, q
        <4>. QED
          BY <1>1, <4>1
      <3> HIDE DEF x, y, e, f, p, q
      <3>. QED
        BY <1>1, <1>3, <2>1, <3>1 DEF x, y
    <2>3. f = 0
      BY <1>3, <1>4, <2>2
    <2>. QED
      BY <1>1, <2>3, ClassShareNew
  <1>5. CASE p # q /\ BothClasses(pair) /\ BothClasses(pair)'
    <2>1. f = e + ClassBytes(p) * Q - ClassBytes(q) * P
      BY <1>3, <1>5
    <2>2. CASE Serve
      BY <1>5, <2>1, <2>2, ClassShareServe
    <2>3. ~Serve => f = e
      <3>1. ~Serve => ClassBytes(p) = 0 /\ ClassBytes(q) = 0
        BY <1>1, <1>2
      <3> HIDE DEF e, f, P, Q, p, q
      <3>. QED
        BY <1>1, <2>1, <3>1
    <2>4. CASE RotateClass
      <3>1. ~Serve
        BY <2>4 DEF Serve, RotateClass
      <3>. QED
        BY <1>5, <2>3, <2>4, <3>1, ClassShareRotate
    <2>5. CASE ~Serve /\ ~RotateClass
      <3> DEFINE l == prioClasses
                 m == prioClasses'
      <3>1. /\ classDeficit'[p] = classDeficit[p] /\ classDeficit'[q] = classDeficit[q]
            /\ \/ m = l
               \/ \E c \in Prios : ~classActive[c] /\ m = Append(l, c)
               \/ l # <<>> /\ m = Tail(l)
        BY <1>1, <1>5, <2>5, OtherClassSteps DEF BothClasses
      <3>2. l \in Seq(Prios) /\ classActive[p] /\ classActive[q]
        BY <1>1, <1>5 DEF TypeOK, BothClasses
      <3>3. ASSUME NEW a \in {p, q}, NEW b \in {p, q}, a # b, Before(m, a, b)
            PROVE  Before(l, a, b)
        <4> HIDE DEF l, m, p, q
        <4>1. CASE m = l
          BY <3>3, <4>1
        <4>2. CASE \E c \in Prios : ~classActive[c] /\ m = Append(l, c)
          <5>1. PICK c \in Prios : ~classActive[c] /\ m = Append(l, c)
            BY <4>2
          <5>2. a # c /\ b # c
            BY <3>2, <3>3, <5>1
          <5>. QED
            BY <3>2, <3>3, <5>1, <5>2, BeforeAppend
        <4>3. CASE l # <<>> /\ m = Tail(l)
          BY <3>2, <3>3, <4>3, BeforeTail
        <4>. QED
          BY <3>1, <4>1, <4>2, <4>3
      <3>. QED
        BY <1>1, <1>5, <2>3, <2>5, <3>1, <3>3, ClassShareSame
    <2>. QED
      BY <2>2, <2>4, <2>5
  <1>. QED
    BY <1>4, <1>5

LEMMA NextClassShareInv ==
  ASSUME SaneClasses, ClassShareInv, [Next /\ Compare]_<<vars, edgeVars>>
  PROVE  ClassShareInv'
  <1>1. ClassBaseInv'
    BY NextClassBaseInv DEF ClassShareInv
  <1>2. CASE Next /\ Compare
    <2>1. DOMAIN classEdge' = DOMAIN classEdge
      BY <1>2 DEF Compare
    <2>2. \A pair \in DOMAIN classEdge : ClassShare(pair)'
      BY <1>1, <1>2, ClassShareStep
    <2>. QED
      BY <1>1, <2>1, <2>2 DEF ClassShareInv
  <1>3. CASE UNCHANGED <<vars, edgeVars>>
    <2>1. UNCHANGED <<classEdge, classActive, prioClasses, classDeficit>>
      BY <1>3 DEF vars, edgeVars, classVars
    <2>2. \A pair \in DOMAIN classEdge : ClassShare(pair)'
      BY <2>1 DEF ClassShareInv, ClassShare, BothClasses, ClassLead, ClassLimit, ClassRound
    <2>. QED
      BY <1>1, <2>1, <2>2 DEF ClassShareInv
  <1>. QED
    BY <1>2, <1>3

\* Any two classes share the link in the ratio of their quanta, to within two
\* rounds and a packet each, since they have both been active: for every MTU,
\* quantum, multiplier and traffic, if no quantum overflows into a negative
\* number and no new class starts from garbage that is a debt of a packet or more.
THEOREM ClassesAlwaysShareByQuantum ==
  ASSUME SaneClasses
  PROVE  SharingSpec => []ClassesShareByQuantum
  <1>1. FairInit => ClassShareInv
    <2> SUFFICES ASSUME FairInit PROVE ClassShareInv
      OBVIOUS
    <2>1. BaseInv /\ ClassDebtBounded
      BY InitBaseInv DEF FairInit, Init, ClassDebtBounded
    <2>2. /\ DOMAIN classEdge \subseteq ClassPairs
          /\ \A pair \in DOMAIN classEdge : classEdge[pair] = 0
      BY DEF FairInit
    <2>3. \A p \in Prios : ~classActive[p]
      BY DEF FairInit, Init
    <2>4. \A pair \in DOMAIN classEdge : ClassShare(pair)
      BY <2>2, <2>3, ZeroBelowLimit, PairsAssumption DEF ClassShare, BothClasses
    <2>. QED
      BY <2>1, <2>2, <2>4 DEF ClassShareInv, ClassBaseInv
  <1>2. ClassShareInv /\ [Next /\ Compare]_<<vars, edgeVars>> => ClassShareInv'
    BY NextClassShareInv
  <1>3. ClassShareInv => ClassesShareByQuantum
    BY DEF ClassShareInv, ClassShare, ClassesShareByQuantum
  <1>. QED
    BY <1>1, <1>2, <1>3, PTL DEF SharingSpec
=============================================================================
