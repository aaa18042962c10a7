----------------------------- MODULE MsfcProofs -----------------------------
(***************************************************************************)
(* Proofs about Msfc, for any traffic, number of flows, sizes and limits.  *)
(*                                                                         *)
(* TypeOK is inductive by itself. The two invariants that say the lists of *)
(* the round robins can be trusted, ListsMatchFlags and NoPacketStranded,  *)
(* are inductive together with it: a class is deactivated only when its    *)
(* list of flows is empty, and that list is empty only when no flow of the *)
(* class is marked active. Deficits, class debts, the limit and the safety *)
(* part of the refinement of FlowFifos follow, each from its own invariant *)
(* beside these.                                                           *)
(***************************************************************************)
EXTENDS MsfcProperties, ListProofs, TLAPS

\* The priority of what arrives is one of Prios and its flow one of FlowIds.
LEMMA TrafficFlow ==
  ASSUME NEW t \in Traffic, t[2] # PF_NO_MATCH
  PROVE  t[1] \in Prios /\ <<t[1], t[2] % Flows>> \in FlowIds
  <1>1. t[1] \in Prios
    BY DEF Prios
  <1>2. t[2] \in Nat
    BY ConstantsAssumption DEF PF_NO_MATCH
  <1>3. t[2] % Flows \in Hashes
    BY <1>2, ConstantsAssumption DEF Hashes
  <1>. QED
    BY <1>1, <1>3 DEF FlowIds

\* The priority of a flow is one of Prios.
LEMMA FlowPrio == \A f \in FlowIds : f[1] \in Prios
  BY DEF FlowIds

\* The recursion by which class quanta are computed is well founded.
Scaled(x) == (x * (QuantumMultiplier \div 1000)) % Word
IsQuanta(g, n) ==
  g = [i \in 0 .. n |-> IF i = 0 THEN Quantum % Word ELSE Scaled(g[i - 1])]

LEMMA QuantaExist ==
  ASSUME NEW n \in Nat
  PROVE  \E g : IsQuanta(g, n)
  <1> DEFINE S == {m \in Nat : \E g : IsQuanta(g, m)}
  <1>1. 0 \in S
    <2>1. IsQuanta([i \in 0 .. 0 |-> Quantum % Word], 0)
      BY DEF IsQuanta
    <2>. QED
      BY <2>1
  <1>2. ASSUME NEW m \in Nat, m \in S
        PROVE  m + 1 \in S
    <2>1. PICK g : IsQuanta(g, m)
      BY <1>2
    <2> DEFINE last == Scaled(g[m])
               h    == [i \in 0 .. m + 1 |-> IF i = m + 1 THEN last ELSE g[i]]
    <2>2. \A i \in 0 .. m : g[i] = IF i = 0 THEN Quantum % Word ELSE Scaled(g[i - 1])
      BY <2>1 DEF IsQuanta
    <2>3. \A i \in 0 .. m + 1 :
            h[i] = IF i = 0 THEN Quantum % Word ELSE Scaled(h[i - 1])
      BY <2>2
    <2>4. h = [i \in 0 .. m + 1 |-> h[i]]
      OBVIOUS
    <2> HIDE DEF h
    <2>5. IsQuanta(h, m + 1)
      BY <2>3, <2>4 DEF IsQuanta
    <2>. QED
      BY <2>5
  <1> HIDE DEF S
  <1>3. Nat \subseteq S
    BY <1>1, <1>2, SetInduction
  <1>. QED
    BY <1>3 DEF S

\* The quanta are integers of the width they are stored in.
LEMMA QuantaTypes ==
  /\ Quantum \in Nat
  /\ \A p \in Prios : /\ ClassQuantum(p) \in Int
                      /\ -Word <= ClassQuantum(p) /\ ClassQuantum(p) < Word
  <1>1. Quantum \in Nat
    BY ConstantsAssumption DEF Quantum
  <1>2. ASSUME NEW p \in Prios
        PROVE  /\ ClassQuantum(p) \in Int
               /\ -Word <= ClassQuantum(p) /\ ClassQuantum(p) < Word
    <2>1. p \in Nat /\ Word \in Nat \ {0} /\ Word \div 2 \in Nat
      BY ConstantsAssumption DEF Prios
    <2> DEFINE q[i \in 0 .. p] == IF i = 0
                                  THEN Quantum % Word
                                  ELSE (q[i - 1] * (QuantumMultiplier \div 1000)) % Word
               T == {i \in 0 .. p : q[i] \in 0 .. Word - 1}
    <2>2. IsQuanta(q, p)
      <3>1. \E g : IsQuanta(g, p)
        BY <2>1, QuantaExist
      <3>. QED
        BY <3>1, Zenon DEF IsQuanta, Scaled
    <2>3. ClassQuantum(p) = IF q[p] < Word \div 2 THEN q[p] ELSE q[p] - Word
      BY DEF ClassQuantum
    <2> HIDE DEF q
    <2>4. \A i \in 0 .. p : q[i] = IF i = 0 THEN Quantum % Word ELSE Scaled(q[i - 1])
      BY <2>2 DEF IsQuanta
    <2>5. 0 \in T
      BY <1>1, <2>1, <2>4
    <2>6. ASSUME NEW i \in 1 .. p, i - 1 \in T
          PROVE  i \in T
      <3> DEFINE m == q[i - 1] * (QuantumMultiplier \div 1000)
      <3>1. m \in Int
        BY <2>6, ConstantsAssumption
      <3>2. q[i] = m % Word /\ i \in 0 .. p
        BY <2>1, <2>4 DEF Scaled
      <3> HIDE DEF m
      <3>3. m % Word \in 0 .. Word - 1
        BY <3>1, <2>1
      <3>. QED
        BY <3>2, <3>3
    <2> HIDE DEF T
    <2>7. 0 .. p \subseteq T
      BY <2>1, <2>5, <2>6, IntervalInduction
    <2>8. q[p] \in 0 .. Word - 1
      BY <2>1, <2>7 DEF T
    <2>. QED
      BY <2>1, <2>3, <2>8
  <1>. QED
    BY <1>1, <1>2
-----------------------------------------------------------------------------
\* Initially the type invariant holds.
LEMMA InitTypeOK == Init => TypeOK
  BY ConstantsAssumption DEF Init, TypeOK, NoDrop

\* A packet at the head of a queue is a positive number of bytes, and what is
\* left is still a queue.
LEMMA TakeHeadType ==
  ASSUME TypeOK, NEW f \in FlowIds, TakeHead(f)
  PROVE  /\ Head(queue[f]) \in Sizes /\ Head(queue[f]) \in Nat \ {0}
         /\ queue' \in [FlowIds -> Seq(Sizes)]
         /\ bytes' \in [FlowIds -> Int]
         /\ nPackets' \in Int
  <1>1. queue[f] \in Seq(Sizes) /\ queue[f] # <<>>
    BY DEF TypeOK, TakeHead
  <1>2. Head(queue[f]) \in Sizes /\ Tail(queue[f]) \in Seq(Sizes)
    BY <1>1
  <1>3. Head(queue[f]) \in Nat \ {0}
    BY <1>2, ConstantsAssumption
  <1>. QED
    BY <1>2, <1>3 DEF TypeOK, TakeHead

\* The flow that is served belongs to FlowIds, its class to Prios.
LEMMA ServedType ==
  ASSUME TypeOK, prioClasses # <<>>
  PROVE  /\ Chosen \in Prios
         /\ flows[Chosen] # <<>> => ServedFlow \in FlowIds
  BY DEF TypeOK, Chosen, ServedFlow

\* DoEnqueue preserves the types.
LEMMA EnqueueType ==
  ASSUME TypeOK, NEW t \in Traffic, NEW s \in Sizes, Enqueue(t[1], t[2], s)
  PROVE  TypeOK'
  <1> DEFINE p == t[1]
             f == <<t[1], t[2] % Flows>>
  <1>1. p \in Prios /\ f \in FlowIds
    BY TrafficFlow DEF Enqueue
  <1>2. Activate(p, f) /\ ChildEnqueue(f, s) /\ pc = "idle"
    BY DEF Enqueue
  <1> HIDE DEF p, f
  <1>3. /\ discClasses' \in Seq(FlowIds)
        /\ classActive' \in [Prios -> BOOLEAN]
        /\ flowActive' \in [FlowIds -> BOOLEAN]
    BY <1>1, <1>2 DEF TypeOK, Activate
  <1>4. prioClasses' \in Seq(Prios) /\ classDeficit' \in [Prios -> Int]
    <2>1. CASE classActive[p]
      BY <2>1, <1>2 DEF TypeOK, Activate
    <2>2. CASE ~classActive[p]
      <3>1. PICK d \in StoredDeficit(p) :
              classDeficit' = [classDeficit EXCEPT ![p] = AtMost(d, ClassQuantum(p))]
        BY <2>2, <1>2 DEF Activate
      <3>2. d \in Int
        BY <1>1, ConstantsAssumption DEF StoredDeficit, TypeOK
      <3>3. AtMost(d, ClassQuantum(p)) \in Int
        BY <3>2, <1>1, QuantaTypes DEF AtMost
      <3>4. prioClasses' = Append(prioClasses, p)
        BY <2>2, <1>2 DEF Activate
      <3>5. prioClasses' \in Seq(Prios)
        BY <3>4, <1>1 DEF TypeOK
      <3>6. classDeficit' \in [Prios -> Int]
        BY <3>1, <3>3, <1>1 DEF TypeOK
      <3>. QED
        BY <3>5, <3>6
    <2>. QED
      BY <2>1, <2>2
  <1>5. flows' \in [Prios -> Seq(FlowIds)] /\ flowDeficit' \in [FlowIds -> Int]
    <2>1. AtMost(flowDeficit[f], Quantum) \in Int
      BY <1>1, QuantaTypes DEF TypeOK, AtMost
    <2>2. CASE flowActive[f]
      BY <2>2, <1>2 DEF TypeOK, Activate
    <2>3. CASE ~flowActive[f]
      <3>1. /\ flows' = [flows EXCEPT ![p] = Append(@, f)]
            /\ flowDeficit' = [flowDeficit EXCEPT ![f] = AtMost(@, Quantum)]
        BY <2>3, <1>2 DEF Activate
      <3>2. flows' \in [Prios -> Seq(FlowIds)]
        BY <3>1, <1>1 DEF TypeOK
      <3>. QED
        BY <3>1, <3>2, <2>1, <1>1 DEF TypeOK
    <2>. QED
      BY <2>2, <2>3
  <1>6. /\ queue' \in [FlowIds -> Seq(Sizes)]
        /\ bytes' \in [FlowIds -> Int]
        /\ nPackets' \in Int
    <2>1. CASE bytes[f] + s > ChildMaxSize
      BY <2>1, <1>2 DEF TypeOK, ChildEnqueue, queueVars
    <2>2. CASE ~(bytes[f] + s > ChildMaxSize)
      <3>1. /\ queue' = [queue EXCEPT ![f] = Append(@, s)]
            /\ bytes' = [bytes EXCEPT ![f] = @ + s]
            /\ nPackets' = nPackets + 1
        BY <2>2, <1>2 DEF ChildEnqueue
      <3>2. queue' \in [FlowIds -> Seq(Sizes)]
        BY <3>1, <1>1 DEF TypeOK
      <3>3. s \in Int
        BY ConstantsAssumption
      <3>. QED
        BY <3>1, <3>2, <3>3, <1>1 DEF TypeOK
    <2>. QED
      BY <2>1, <2>2
  <1>7. pc' \in {"idle", "overlimit"} /\ requeued' = requeued
    BY DEF Enqueue
  <1>. QED
    BY <1>3, <1>4, <1>5, <1>6, <1>7 DEF TypeOK

\* Every step preserves the types.
LEMMA NextTypeOK == TypeOK /\ [Next]_vars => TypeOK'
  <1> SUFFICES ASSUME TypeOK, [Next]_vars
               PROVE  TypeOK'
    OBVIOUS
  <1>1. CASE \E t \in Traffic, s \in Sizes : Enqueue(t[1], t[2], s)
    BY <1>1, EnqueueType
  <1>2. CASE Dequeue \/ NoClass \/ FoundClass \/ Peek \/ PeekNull
    <2>1. /\ UNCHANGED <<classVars, flowVars, discClasses, queueVars, requeued>>
          /\ pc' \in {"idle", "class", "flow", "peek"}
          /\ pc' = "flow" => prioClasses # <<>> /\ classDeficit[Chosen] > 0
          /\ pc' = "peek" => prioClasses # <<>> /\ flows[Chosen] # <<>>
      <3>1. CASE Dequeue
        BY <3>1 DEF Dequeue
      <3>2. CASE NoClass
        BY <3>2 DEF NoClass
      <3>3. CASE FoundClass
        BY <3>3 DEF FoundClass, Chosen
      <3>4. CASE Peek
        BY <3>4 DEF Peek
      <3>5. CASE PeekNull
        BY <3>5 DEF PeekNull
      <3>. QED
        BY <1>2, <3>1, <3>2, <3>3, <3>4, <3>5
    <2>. QED
      BY <2>1 DEF TypeOK, Chosen, classVars, flowVars, queueVars
  <1>3. CASE MsfcDrop
    BY <1>3 DEF TypeOK, MsfcDrop, Chosen, classVars, flowVars, queueVars
  <1>4. CASE DropHead
    <2>1. pc = "drop" /\ drop.flow \in FlowIds
      BY <1>4 DEF DropHead, TypeOK
    <2>2. CASE queue[drop.flow] = <<>>
      BY <1>4, <2>1, <2>2 DEF DropHead, TypeOK, Chosen, classVars, flowVars, queueVars
    <2>3. CASE queue[drop.flow] # <<>>
      <3>1. TakeHead(drop.flow)
        BY <1>4, <2>3 DEF DropHead
      <3>2. Head(queue[drop.flow]) \in Nat
        BY <3>1, <2>1, TakeHeadType
      <3>3. /\ queue' \in [FlowIds -> Seq(Sizes)]
            /\ bytes' \in [FlowIds -> Int]
            /\ nPackets' \in Int
        BY <3>1, <2>1, TakeHeadType
      <3>4. pc' = "drop" =>
              drop' \in [flow: FlowIds, len: Int, count: Int, threshold: Int]
        <4>1. drop \in [flow: FlowIds, len: Int, count: Int, threshold: Int]
          BY <2>1 DEF TypeOK
        <4>2. /\ drop.len + Head(queue[drop.flow]) \in Int
              /\ drop.count + 1 \in Int
          BY <4>1, <3>2
        <4>3. pc' = "drop" =>
                drop' = [drop EXCEPT !.len = drop.len + Head(queue[drop.flow]),
                                     !.count = drop.count + 1]
          BY <1>4, <2>3 DEF DropHead
        <4>. QED
          BY <4>1, <4>2, <4>3
      <3>. QED
        BY <1>4, <2>1, <2>3, <3>3, <3>4 DEF DropHead, TypeOK, classVars, flowVars
    <2>. QED
      BY <2>2, <2>3
  <1>5. CASE RotateClass
    <2>1. Chosen \in Prios /\ Rotate(prioClasses) \in Seq(Prios)
      BY <1>5 DEF RotateClass, TypeOK, Chosen, Rotate
    <2>2. classDeficit' \in [Prios -> Int]
      BY <1>5, <2>1, QuantaTypes DEF RotateClass, TypeOK, Chosen
    <2>. QED
      BY <1>5, <2>1, <2>2 DEF RotateClass, TypeOK, flowVars, queueVars
  <1>6. CASE RotateFlow
    <2>1. /\ Chosen \in Prios /\ ServedFlow \in FlowIds
          /\ Rotate(flows[Chosen]) \in Seq(FlowIds)
      <3>1. pc = "flow" /\ flows[Chosen] # <<>>
        BY <1>6 DEF RotateFlow
      <3>2. Chosen \in Prios
        BY <3>1 DEF TypeOK, Chosen
      <3>3. flows[Chosen] \in Seq(FlowIds)
        BY <3>2 DEF TypeOK
      <3>4. Head(flows[Chosen]) \in FlowIds /\ Rotate(flows[Chosen]) \in Seq(FlowIds)
        BY ONLY <3>1, <3>3 DEF Rotate
      <3>. QED
        BY <3>2, <3>4 DEF ServedFlow
    <2>2. flowDeficit' \in [FlowIds -> Int] /\ flows' \in [Prios -> Seq(FlowIds)]
      <3>1. /\ flowDeficit' = [flowDeficit EXCEPT ![ServedFlow] = @ + Quantum]
            /\ flows' = [flows EXCEPT ![Chosen] = Rotate(@)]
        BY <1>6 DEF RotateFlow, ServedFlow
      <3>2. flowDeficit' \in [FlowIds -> Int]
        <4>1. Quantum \in Int /\ flowDeficit \in [FlowIds -> Int]
          BY QuantaTypes DEF TypeOK
        <4>2. flowDeficit[ServedFlow] + Quantum \in Int
          BY <4>1, <2>1
        <4>. QED
          BY <3>1, <4>1, <4>2
      <3>3. flows' \in [Prios -> Seq(FlowIds)]
        BY <3>1, <2>1 DEF TypeOK
      <3>. QED
        BY <3>2, <3>3
    <2>. QED
      BY <1>6, <2>2 DEF RotateFlow, TypeOK, Chosen, classVars, queueVars
  <1>7. CASE ClassEmpty
    BY <1>7 DEF ClassEmpty, TypeOK, Chosen, flowVars, queueVars
  <1>8. CASE CoDelDrop
    <2>1. prioClasses # <<>> /\ flows[Chosen] # <<>>
      BY <1>8 DEF CoDelDrop, InChildDequeue, TypeOK
    <2>2. /\ queue' \in [FlowIds -> Seq(Sizes)]
          /\ bytes' \in [FlowIds -> Int]
          /\ nPackets' \in Int
      BY <1>8, <2>1, ServedType, TakeHeadType DEF CoDelDrop
    <2>. QED
      BY <1>8, <2>2 DEF CoDelDrop, TypeOK, Chosen, classVars, flowVars
  <1>9. CASE FlowEmpty
    <2>1. Chosen \in Prios /\ flows[Chosen] # <<>> /\ Tail(flows[Chosen]) \in Seq(FlowIds)
      BY <1>9 DEF FlowEmpty, InChildDequeue, TypeOK, Chosen
    <2>. QED
      BY <1>9, <2>1 DEF FlowEmpty, TypeOK, classVars, queueVars
  <1>10. CASE Serve
    <2>1. Chosen \in Prios /\ ServedFlow \in FlowIds
      BY <1>10, ServedType DEF Serve, InChildDequeue, TypeOK
    <2>2. /\ Head(queue[ServedFlow]) \in Nat
          /\ queue' \in [FlowIds -> Seq(Sizes)]
          /\ bytes' \in [FlowIds -> Int]
          /\ nPackets' \in Int
      BY <1>10, <2>1, TakeHeadType DEF Serve
    <2>3. flowDeficit' \in [FlowIds -> Int] /\ classDeficit' \in [Prios -> Int]
      <3> DEFINE cost == Head(queue[ServedFlow])
      <3>1. /\ flowDeficit' = [flowDeficit EXCEPT ![ServedFlow] = @ - cost]
            /\ classDeficit' = [classDeficit EXCEPT ![Chosen] = @ - cost]
        BY <1>10 DEF Serve
      <3>2. cost \in Int
        BY <2>2
      <3> HIDE DEF cost
      <3>3. \A f \in FlowIds : flowDeficit[f] \in Int /\ flowDeficit[f] - cost \in Int
        BY <3>2 DEF TypeOK
      <3>4. \A p \in Prios : classDeficit[p] \in Int /\ classDeficit[p] - cost \in Int
        BY <3>2 DEF TypeOK
      <3>5. flowDeficit' \in [FlowIds -> Int]
        BY <3>1, <3>3, <2>1 DEF TypeOK
      <3>6. classDeficit' \in [Prios -> Int]
        BY <3>1, <3>4, <2>1 DEF TypeOK
      <3>. QED
        BY <3>5, <3>6
    <2>. QED
      BY <1>10, <2>2, <2>3 DEF Serve, TypeOK
  <1>11. CASE PeekTake
    <2>1. prioClasses # <<>> /\ ServedFlow \in FlowIds
      BY <1>11, ServedType DEF PeekTake, TypeOK
    <2>2. /\ Head(queue[ServedFlow]) \in Sizes
          /\ queue' \in [FlowIds -> Seq(Sizes)]
          /\ bytes' \in [FlowIds -> Int]
          /\ nPackets' \in Int
      BY <1>11, <2>1, TakeHeadType DEF PeekTake
    <2>. QED
      BY <1>11, <2>1, <2>2 DEF PeekTake, TypeOK, classVars, flowVars
  <1>12. CASE UNCHANGED vars
    BY <1>12 DEF vars, TypeOK, Chosen, classVars, flowVars, queueVars
  <1>. QED
    BY <1>1, <1>2, <1>3, <1>4, <1>5, <1>6, <1>7, <1>8, <1>9, <1>10, <1>11, <1>12
       DEF Next, DropStep, DequeueStep, PeekStep

\* Type correctness: in every state the variables hold what their C++ types can
\* hold, and a call in the middle of a loop finds the lists that loop relies on.
THEOREM TypeCorrect == Spec => []TypeOK
  <1>1. Init => TypeOK
    BY InitTypeOK
  <1>2. TypeOK /\ [Next]_vars => TypeOK'
    BY NextTypeOK
  <1>. QED
    BY <1>1, <1>2, PTL DEF Spec
-----------------------------------------------------------------------------
\* The invariant that is inductive: the types, the lists and the reachability
\* of every packet together.
ListInv == TypeOK /\ ListsMatchFlags /\ NoPacketStranded

LEMMA InitListInv == Init => ListInv
  <1> SUFFICES ASSUME Init PROVE ListsMatchFlags /\ NoPacketStranded
    BY InitTypeOK DEF ListInv
  <1>1. ListsMatchFlags
    BY EmptyElems DEF Init, ListsMatchFlags
  <1>2. NoPacketStranded
    BY DEF Init, NoPacketStranded
  <1>. QED
    BY <1>1, <1>2

\* Activating a class and a flow leaves lists and flags in agreement, whichever
\* of the two was active before.
LEMMA ActivateLists ==
  ASSUME ListInv, NEW p \in Prios, NEW f \in FlowIds, f[1] = p, Activate(p, f)
  PROVE  ListsMatchFlags'
  <1>1. /\ prioClasses \in Seq(Prios)
        /\ classActive \in [Prios -> BOOLEAN]
        /\ flows \in [Prios -> Seq(FlowIds)]
        /\ flowActive \in [FlowIds -> BOOLEAN]
    BY DEF ListInv, TypeOK
  <1>2. /\ classActive' = [classActive EXCEPT ![p] = TRUE]
        /\ flowActive' = [flowActive EXCEPT ![f] = TRUE]
    BY DEF Activate
  <1>3. /\ Distinct(prioClasses')
        /\ \A q \in Prios : classActive'[q] <=> q \in Elems(prioClasses')
    <2>1. CASE classActive[p]
      <3>1. prioClasses' = prioClasses
        BY <2>1 DEF Activate
      <3>2. classActive' = classActive
        BY <2>1, <1>1, <1>2
      <3>. QED
        BY <3>1, <3>2 DEF ListInv, ListsMatchFlags
    <2>2. CASE ~classActive[p]
      <3>1. prioClasses' = Append(prioClasses, p)
        BY <2>2 DEF Activate
      <3>2. p \notin Elems(prioClasses) /\ Distinct(prioClasses)
        BY <2>2 DEF ListInv, ListsMatchFlags
      <3>3. Distinct(prioClasses') /\ Elems(prioClasses') = Elems(prioClasses) \union {p}
        BY <3>1, <3>2, <1>1, AppendElems
      <3>. QED
        BY <3>3, <1>1, <1>2 DEF ListInv, ListsMatchFlags
    <2>. QED
      BY <2>1, <2>2
  <1>4. /\ \A q \in Prios : Distinct(flows'[q])
        /\ \A q \in Prios, g \in FlowIds :
             g \in Elems(flows'[q]) <=> g[1] = q /\ flowActive'[g]
    <2>1. CASE flowActive[f]
      <3>1. flows' = flows
        BY <2>1 DEF Activate
      <3>2. flowActive' = flowActive
        BY <2>1, <1>1, <1>2
      <3>. QED
        BY <3>1, <3>2 DEF ListInv, ListsMatchFlags
    <2>2. CASE ~flowActive[f]
      <3>1. flows' = [flows EXCEPT ![p] = Append(@, f)]
        BY <2>2 DEF Activate
      <3>2. flows[p] \in Seq(FlowIds) /\ f \notin Elems(flows[p]) /\ Distinct(flows[p])
        BY <2>2, <1>1 DEF ListInv, ListsMatchFlags
      <3>3. flows'[p] = Append(flows[p], f) /\ \A q \in Prios \ {p} : flows'[q] = flows[q]
        BY <3>1, <1>1
      <3>4. Distinct(flows'[p]) /\ Elems(flows'[p]) = Elems(flows[p]) \union {f}
        BY <3>2, <3>3, AppendElems
      <3>5. flowActive'[f] /\ \A g \in FlowIds \ {f} : flowActive'[g] = flowActive[g]
        BY <1>1, <1>2
      <3>6. ASSUME NEW q \in Prios
            PROVE  /\ Distinct(flows'[q])
                   /\ \A g \in FlowIds :
                        g \in Elems(flows'[q]) <=> g[1] = q /\ flowActive'[g]
        <4>1. CASE q = p
          BY <4>1, <3>4, <3>5 DEF ListInv, ListsMatchFlags
        <4>2. CASE q # p
          BY <4>2, <3>3, <3>5 DEF ListInv, ListsMatchFlags
        <4>. QED
          BY <4>1, <4>2
      <3>. QED
        BY <3>6
    <2>. QED
      BY <2>1, <2>2
  <1>. QED
    BY <1>3, <1>4 DEF ListsMatchFlags

\* DoEnqueue puts a packet only into a flow it has activated with its class.
LEMMA EnqueueLists ==
  ASSUME ListInv, NEW t \in Traffic, NEW s \in Sizes, Enqueue(t[1], t[2], s)
  PROVE  ListsMatchFlags' /\ NoPacketStranded'
  <1> DEFINE p == t[1]
             f == <<t[1], t[2] % Flows>>
  <1>1. p \in Prios /\ f \in FlowIds /\ f[1] = p
    BY TrafficFlow DEF Enqueue
  <1>2. Activate(p, f) /\ ChildEnqueue(f, s)
    BY DEF Enqueue
  <1> HIDE DEF p, f
  <1>3. ListsMatchFlags'
    BY <1>1, <1>2, ActivateLists
  <1>4. /\ classActive' = [classActive EXCEPT ![p] = TRUE]
        /\ flowActive' = [flowActive EXCEPT ![f] = TRUE]
        /\ classActive \in [Prios -> BOOLEAN]
        /\ flowActive \in [FlowIds -> BOOLEAN]
        /\ queue \in [FlowIds -> Seq(Sizes)]
    BY <1>2 DEF Activate, ListInv, TypeOK
  <1>5. ASSUME NEW g \in FlowIds
        PROVE  /\ queue'[g] # <<>> => flowActive'[g]
               /\ flowActive'[g] => classActive'[g[1]]
    <2>1. CASE g = f
      BY <2>1, <1>1, <1>4
    <2>2. CASE g # f
      <3>1. queue'[g] = queue[g]
        BY <2>2, <1>2, <1>1, <1>4 DEF ChildEnqueue, queueVars
      <3>2. flowActive'[g] = flowActive[g]
        BY <2>2, <1>4
      <3>3. classActive[g[1]] => classActive'[g[1]]
        BY <1>1, <1>4, FlowPrio
      <3>. QED
        BY <3>1, <3>2, <3>3 DEF ListInv, NoPacketStranded
    <2>. QED
      BY <2>1, <2>2
  <1>. QED
    BY <1>3, <1>5 DEF NoPacketStranded

\* A step that takes packets from queues and touches no list keeps both.
LEMMA TakeLists ==
  ASSUME ListInv, UNCHANGED <<prioClasses, classActive, flows, flowActive>>,
         \A g \in FlowIds : queue'[g] # <<>> => queue[g] # <<>>
  PROVE  ListsMatchFlags' /\ NoPacketStranded'
  BY DEF ListInv, ListsMatchFlags, NoPacketStranded

\* TakeHead leaves packets only where there were packets.
LEMMA TakeHeadQueues ==
  ASSUME TypeOK, NEW f \in FlowIds, TakeHead(f)
  PROVE  \A g \in FlowIds : queue'[g] # <<>> => queue[g] # <<>>
  BY DEF TakeHead, TypeOK

LEMMA NextListInv == ListInv /\ [Next]_vars => ListInv'
  <1> SUFFICES ASSUME ListInv, [Next]_vars
               PROVE  ListsMatchFlags' /\ NoPacketStranded'
    BY NextTypeOK DEF ListInv
  <1> USE DEF ListInv
  <1>1. CASE \E t \in Traffic, s \in Sizes : Enqueue(t[1], t[2], s)
    BY <1>1, EnqueueLists
  <1>2. CASE Dequeue \/ NoClass \/ FoundClass \/ Peek \/ PeekNull \/ MsfcDrop
    BY <1>2, TakeLists DEF Dequeue, NoClass, FoundClass, Peek, PeekNull, MsfcDrop,
                           classVars, flowVars, queueVars
  <1>3. CASE DropHead
    <2>1. CASE queue[drop.flow] = <<>>
      BY <1>3, <2>1, TakeLists DEF DropHead, classVars, flowVars, queueVars
    <2>2. CASE queue[drop.flow] # <<>>
      BY <1>3, <2>2, TakeHeadQueues, TakeLists
         DEF DropHead, TypeOK, classVars, flowVars
    <2>. QED
      BY <2>1, <2>2
  <1>4. CASE RotateClass
    <2>1. prioClasses' = Rotate(prioClasses) /\ prioClasses # <<>>
      BY <1>4 DEF RotateClass
    <2>2. Elems(prioClasses') = Elems(prioClasses) /\ Distinct(prioClasses')
      BY <2>1, RotateElems DEF TypeOK, ListsMatchFlags
    <2>3. UNCHANGED <<classActive, flows, flowActive, queue>>
      BY <1>4 DEF RotateClass, flowVars, queueVars
    <2>. QED
      BY <2>2, <2>3 DEF ListsMatchFlags, NoPacketStranded
  <1>5. CASE RotateFlow
    <2>1. Chosen \in Prios /\ flows[Chosen] # <<>>
      <3>1. pc = "flow" /\ flows[Chosen] # <<>>
        BY <1>5 DEF RotateFlow
      <3>2. prioClasses # <<>> /\ prioClasses \in Seq(Prios)
        BY <3>1 DEF TypeOK
      <3>. QED
        BY <3>1, <3>2 DEF Chosen
    <2>2. flows' = [flows EXCEPT ![Chosen] = Rotate(@)]
      BY <1>5 DEF RotateFlow
    <2>3. /\ Elems(Rotate(flows[Chosen])) = Elems(flows[Chosen])
          /\ Distinct(Rotate(flows[Chosen]))
      <3>1. flows[Chosen] \in Seq(FlowIds)
        BY <2>1 DEF TypeOK
      <3>2. Distinct(flows[Chosen])
        BY <2>1 DEF ListsMatchFlags
      <3>. QED
        BY ONLY <2>1, <3>1, <3>2, RotateElems
    <2>4. \A q \in Prios : Elems(flows'[q]) = Elems(flows[q]) /\ Distinct(flows'[q])
      <3>1. /\ flows'[Chosen] = Rotate(flows[Chosen])
            /\ \A q \in Prios \ {Chosen} : flows'[q] = flows[q]
        BY <2>1, <2>2 DEF TypeOK
      <3>2. \A q \in Prios : Distinct(flows[q])
        BY DEF ListsMatchFlags
      <3>. QED
        BY ONLY <2>3, <3>1, <3>2
    <2>5. UNCHANGED <<prioClasses, classActive, flowActive, queue>>
      BY <1>5 DEF RotateFlow, classVars, queueVars
    <2>. QED
      BY <2>4, <2>5 DEF ListsMatchFlags, NoPacketStranded
  <1>6. CASE ClassEmpty
    <2> DEFINE p == Chosen
    <2>1. /\ p \in Prios /\ prioClasses # <<>> /\ p = Head(prioClasses)
          /\ flows[p] = <<>>
      BY <1>6 DEF ClassEmpty, TypeOK, Chosen
    <2>2. /\ classActive' = [classActive EXCEPT ![p] = FALSE]
          /\ prioClasses' = Tail(prioClasses)
          /\ UNCHANGED <<flows, flowActive, queue>>
      BY <1>6 DEF ClassEmpty, flowVars, queueVars
    <2> HIDE DEF p
    <2>3. /\ Elems(prioClasses) = Elems(Tail(prioClasses)) \union {p}
          /\ Distinct(Tail(prioClasses)) /\ p \notin Elems(Tail(prioClasses))
      BY <2>1, TailElems DEF TypeOK, ListsMatchFlags
    <2>4. ListsMatchFlags'
      <3>1. ~classActive'[p] /\ \A q \in Prios \ {p} : classActive'[q] = classActive[q]
        BY <2>1, <2>2 DEF TypeOK
      <3>2. \A q \in Prios : classActive'[q] <=> q \in Elems(prioClasses')
        BY <3>1, <2>2, <2>3 DEF ListsMatchFlags
      <3>. QED
        BY <3>2, <2>2, <2>3 DEF ListsMatchFlags
    <2>5. \A g \in FlowIds : flowActive[g] => g[1] # p
      BY <2>1, EmptyElems DEF ListsMatchFlags
    <2>6. NoPacketStranded'
      BY <2>1, <2>2, <2>5, FlowPrio DEF NoPacketStranded, TypeOK
    <2>. QED
      BY <2>4, <2>6
  <1>7. CASE CoDelDrop
    <2>1. prioClasses # <<>> /\ ServedFlow \in FlowIds
      BY <1>7, ServedType DEF CoDelDrop, InChildDequeue, TypeOK
    <2>. QED
      BY <1>7, <2>1, TakeHeadQueues, TakeLists DEF CoDelDrop, classVars, flowVars
  <1>8. CASE FlowEmpty
    <2> DEFINE p == Chosen
               f == ServedFlow
    <2>1. /\ p \in Prios /\ f \in FlowIds
          /\ flows[p] # <<>> /\ f = Head(flows[p]) /\ queue[f] = <<>>
      BY <1>8, ServedType DEF FlowEmpty, InChildDequeue, TypeOK, ServedFlow
    <2>2. /\ flowActive' = [flowActive EXCEPT ![f] = FALSE]
          /\ flows' = [flows EXCEPT ![p] = Tail(@)]
          /\ UNCHANGED <<prioClasses, classActive, queue>>
      BY <1>8 DEF FlowEmpty, classVars, queueVars
    <2> HIDE DEF p, f
    <2>3. /\ Elems(flows[p]) = Elems(Tail(flows[p])) \union {f}
          /\ Distinct(Tail(flows[p])) /\ f \notin Elems(Tail(flows[p]))
      BY <2>1, TailElems DEF TypeOK, ListsMatchFlags
    <2>4. f[1] = p
      BY <2>1, <2>3 DEF ListsMatchFlags
    <2>5. /\ flows'[p] = Tail(flows[p]) /\ \A q \in Prios \ {p} : flows'[q] = flows[q]
          /\ ~flowActive'[f] /\ \A g \in FlowIds \ {f} : flowActive'[g] = flowActive[g]
      BY <2>1, <2>2 DEF TypeOK
    <2>6. ASSUME NEW q \in Prios
          PROVE  /\ Distinct(flows'[q])
                 /\ \A g \in FlowIds :
                      g \in Elems(flows'[q]) <=> g[1] = q /\ flowActive'[g]
      <3>1. CASE q = p
        BY <3>1, <2>3, <2>4, <2>5 DEF ListsMatchFlags
      <3>2. CASE q # p
        BY <3>2, <2>4, <2>5 DEF ListsMatchFlags
      <3>. QED
        BY <3>1, <3>2
    <2>7. ListsMatchFlags'
      BY <2>2, <2>6 DEF ListsMatchFlags
    <2>8. NoPacketStranded'
      BY <2>1, <2>2, <2>5 DEF NoPacketStranded
    <2>. QED
      BY <2>7, <2>8
  <1>9. CASE Serve
    <2>1. ServedFlow \in FlowIds
      BY <1>9, ServedType DEF Serve, InChildDequeue, TypeOK
    <2>. QED
      BY <1>9, <2>1, TakeHeadQueues, TakeLists DEF Serve
  <1>10. CASE PeekTake
    <2>1. ServedFlow \in FlowIds
      BY <1>10, ServedType DEF PeekTake, TypeOK
    <2>. QED
      BY <1>10, <2>1, TakeHeadQueues, TakeLists DEF PeekTake, classVars, flowVars
  <1>11. CASE UNCHANGED vars
    BY <1>11, TakeLists DEF vars, classVars, flowVars, queueVars
  <1>. QED
    BY <1>1, <1>2, <1>3, <1>4, <1>5, <1>6, <1>7, <1>8, <1>9, <1>10, <1>11
       DEF Next, DropStep, DequeueStep, PeekStep

\* The active flags and the lists of both round robins never disagree, and no
\* class and no flow is in its list twice.
THEOREM ListsAlwaysMatchFlags == Spec => []ListsMatchFlags
  <1>1. Init => ListInv
    BY InitListInv
  <1>2. ListInv /\ [Next]_vars => ListInv'
    BY NextListInv
  <1>3. ListInv => ListsMatchFlags
    BY DEF ListInv
  <1>. QED
    BY <1>1, <1>2, <1>3, PTL DEF Spec

\* Every packet the queue disc holds is in a flow that DoDequeue can reach
\* through the lists.
THEOREM NothingStranded == Spec => []NoPacketStranded
  <1>1. Init => ListInv
    BY InitListInv
  <1>2. ListInv /\ [Next]_vars => ListInv'
    BY NextListInv
  <1>3. ListInv => NoPacketStranded
    BY DEF ListInv
  <1>. QED
    BY <1>1, <1>2, <1>3, PTL DEF Spec
-----------------------------------------------------------------------------
\* The deficits: every grant is made to a class or a flow that has no credit
\* left, every packet is charged to one that has some.
DeficitInv == TypeOK /\ DeficitsBounded

\* The three bounds for one flow and one class, in a form a step can be checked
\* against.
FlowBound(d)     == d <= Quantum /\ (d < 0 => \E s \in Sizes : d > -s)
ClassBound(p, d) == d <= ClassQuantum(p)

LEMMA DeficitsBoundedDef ==
  DeficitsBounded <=> /\ \A f \in FlowIds : FlowBound(flowDeficit[f])
                      /\ \A p \in Prios : classActive[p] => ClassBound(p, classDeficit[p])
  BY DEF DeficitsBounded, FlowBound, ClassBound

\* A step that leaves the deficits and the class flags alone keeps the bounds.
LEMMA SameDeficits ==
  ASSUME DeficitsBounded, UNCHANGED <<classActive, classDeficit, flowDeficit>>
  PROVE  DeficitsBounded'
  BY DEF DeficitsBounded

LEMMA NextDeficitInv == DeficitInv /\ [Next]_vars => DeficitInv'
  <1> SUFFICES ASSUME DeficitInv, [Next]_vars
               PROVE  DeficitsBounded'
    BY NextTypeOK DEF DeficitInv
  <1> USE DEF DeficitInv
  <1>. /\ flowDeficit \in [FlowIds -> Int] /\ classDeficit \in [Prios -> Int]
       /\ classActive \in [Prios -> BOOLEAN]
    BY DEF TypeOK
  <1>1. CASE \E t \in Traffic, s \in Sizes : Enqueue(t[1], t[2], s)
    <2>1. PICK t \in Traffic, s \in Sizes : Enqueue(t[1], t[2], s)
      BY <1>1
    <2> DEFINE p == t[1]
               f == <<t[1], t[2] % Flows>>
    <2>2. p \in Prios /\ f \in FlowIds
      BY <2>1, TrafficFlow DEF Enqueue
    <2>3. Activate(p, f)
      BY <2>1 DEF Enqueue
    <2> HIDE DEF p, f
    <2>4. ASSUME NEW g \in FlowIds
          PROVE  FlowBound(flowDeficit'[g])
      <3>1. flowDeficit' = flowDeficit
              \/ flowDeficit' = [flowDeficit EXCEPT ![f] = AtMost(@, Quantum)]
        BY <2>3 DEF Activate
      <3>2. AtMost(flowDeficit[g], Quantum) = flowDeficit[g]
        BY QuantaTypes DEF AtMost, DeficitsBounded
      <3>3. flowDeficit'[g] = flowDeficit[g]
        BY <3>1, <3>2
      <3>. QED
        BY <3>3, DeficitsBoundedDef
    <2>5. ASSUME NEW q \in Prios, classActive'[q]
          PROVE  ClassBound(q, classDeficit'[q])
      <3>1. CASE classActive[p]
        <4>1. classDeficit' = classDeficit /\ classActive' = classActive
          BY <3>1, <2>2, <2>3 DEF Activate
        <4>. QED
          BY <4>1, <2>5, DeficitsBoundedDef
      <3>2. CASE ~classActive[p]
        <4>1. PICK d \in StoredDeficit(p) :
                classDeficit' = [classDeficit EXCEPT ![p] = AtMost(d, ClassQuantum(p))]
          BY <3>2, <2>3 DEF Activate
        <4>2. d \in Int
          BY <2>2, ConstantsAssumption DEF StoredDeficit
        <4>3. AtMost(d, ClassQuantum(p)) <= ClassQuantum(p)
          BY <4>2, <2>2, QuantaTypes DEF AtMost
        <4>4. CASE q = p
          BY <4>1, <4>3, <4>4, <2>2 DEF ClassBound
        <4>5. CASE q # p
          <5>1. classDeficit'[q] = classDeficit[q]
            BY <4>1, <4>5
          <5>2. classActive[q]
            BY <4>5, <2>5, <2>3 DEF Activate
          <5>. QED
            BY <5>1, <5>2, DeficitsBoundedDef
        <4>. QED
          BY <4>4, <4>5
      <3>. QED
        BY <3>1, <3>2
    <2>. QED
      BY <2>4, <2>5 DEF DeficitsBounded, FlowBound, ClassBound
  <1>2. CASE Dequeue \/ NoClass \/ FoundClass \/ Peek \/ PeekNull \/ PeekTake
             \/ MsfcDrop \/ DropHead \/ CoDelDrop
    BY <1>2, SameDeficits
       DEF Dequeue, NoClass, FoundClass, Peek, PeekNull, PeekTake, MsfcDrop,
           DropHead, CoDelDrop, classVars, flowVars
  <1>3. CASE RotateClass
    <2> DEFINE p == Head(prioClasses)
    <2>1. /\ p \in Prios /\ classDeficit[p] <= 0
          /\ classDeficit' = [classDeficit EXCEPT ![p] = @ + ClassQuantum(p)]
          /\ UNCHANGED <<classActive, flowDeficit>>
      BY <1>3 DEF RotateClass, TypeOK, flowVars
    <2> HIDE DEF p
    <2>2. classDeficit[p] + ClassQuantum(p) <= ClassQuantum(p)
      BY <2>1, QuantaTypes
    <2>. QED
      BY <2>1, <2>2 DEF DeficitsBounded
  <1>4. CASE RotateFlow
    <2> DEFINE f == Head(flows[Chosen])
    <2>1. /\ f \in FlowIds /\ flowDeficit[f] <= 0
          /\ flowDeficit' = [flowDeficit EXCEPT ![f] = @ + Quantum]
          /\ UNCHANGED <<classActive, classDeficit>>
      BY <1>4 DEF RotateFlow, TypeOK, Chosen, classVars
    <2> HIDE DEF f
    <2>2. FlowBound(flowDeficit[f])
      BY <2>1, DeficitsBoundedDef
    <2>3. FlowBound(flowDeficit[f] + Quantum)
      <3>1. flowDeficit[f] + Quantum <= Quantum /\ flowDeficit[f] <= flowDeficit[f] + Quantum
        BY <2>1, QuantaTypes
      <3>2. ASSUME flowDeficit[f] + Quantum < 0
            PROVE  \E s \in Sizes : flowDeficit[f] + Quantum > -s
        <4>1. flowDeficit[f] < 0
          BY <3>1, <3>2, <2>1, QuantaTypes
        <4>2. PICK s \in Sizes : flowDeficit[f] > -s
          BY <4>1, <2>2 DEF FlowBound
        <4>3. s \in Int
          BY ConstantsAssumption
        <4>. QED
          BY <4>2, <4>3, <3>1, <2>1, QuantaTypes
      <3>. QED
        BY <3>1, <3>2 DEF FlowBound
    <2>4. ASSUME NEW g \in FlowIds
          PROVE  FlowBound(flowDeficit'[g])
      BY <2>1, <2>3, DeficitsBoundedDef
    <2>. QED
      BY <2>1, <2>4 DEF DeficitsBounded, FlowBound
  <1>5. CASE ClassEmpty
    <2>1. /\ classActive' = [classActive EXCEPT ![Chosen] = FALSE]
          /\ UNCHANGED <<classDeficit, flowDeficit>>
      BY <1>5 DEF ClassEmpty, flowVars
    <2>2. \A p \in Prios : classActive'[p] => classActive[p]
      BY <2>1
    <2>. QED
      BY <2>1, <2>2 DEF DeficitsBounded
  <1>6. CASE FlowEmpty
    BY <1>6, SameDeficits DEF FlowEmpty, classVars
  <1>7. CASE Serve
    <2> DEFINE f == ServedFlow
               p == Chosen
               s == Head(queue[ServedFlow])
    <2>1. prioClasses # <<>> /\ flows[Chosen] # <<>> /\ flowDeficit[ServedFlow] > 0
      BY <1>7 DEF Serve, InChildDequeue, TypeOK
    <2>2. p \in Prios /\ f \in FlowIds
      BY <2>1, ServedType
    <2>3. s \in Sizes /\ s \in Nat \ {0}
      BY <1>7, <2>2, TakeHeadType DEF Serve
    <2>4. /\ flowDeficit' = [flowDeficit EXCEPT ![f] = @ - s]
          /\ classDeficit' = [classDeficit EXCEPT ![p] = @ - s]
          /\ classActive' = classActive
      BY <1>7 DEF Serve
    <2>5. flowDeficit[f] > 0
      BY <2>1
    <2> HIDE DEF f, p, s
    <2>6. FlowBound(flowDeficit[f] - s)
      <3>1. flowDeficit[f] <= Quantum
        BY <2>2 DEF DeficitsBounded
      <3>2. flowDeficit[f] - s <= Quantum /\ flowDeficit[f] - s > -s
        BY <3>1, <2>2, <2>3, <2>5, QuantaTypes
      <3>. QED
        BY <3>2, <2>3 DEF FlowBound
    <2>7. ASSUME NEW g \in FlowIds
          PROVE  FlowBound(flowDeficit'[g])
      BY <2>2, <2>4, <2>6, DeficitsBoundedDef
    <2>8. ASSUME NEW q \in Prios, classActive'[q]
          PROVE  ClassBound(q, classDeficit'[q])
      <3>1. classDeficit[q] <= ClassQuantum(q)
        BY <2>4, <2>8 DEF DeficitsBounded
      <3>2. classDeficit'[q] = classDeficit[q] \/ classDeficit'[q] = classDeficit[q] - s
        BY <2>2, <2>4
      <3>. QED
        BY <3>1, <3>2, <2>3, QuantaTypes DEF ClassBound
    <2>. QED
      BY <2>7, <2>8 DEF DeficitsBounded, FlowBound, ClassBound
  <1>8. CASE UNCHANGED vars
    BY <1>8, SameDeficits DEF vars, classVars, flowVars
  <1>. QED
    BY <1>1, <1>2, <1>3, <1>4, <1>5, <1>6, <1>7, <1>8
       DEF Next, DropStep, DequeueStep, PeekStep

\* No flow and no active class ever holds more credit than one quantum, and no
\* flow ever owes as much as a packet: whatever was dropped, and however often a
\* flow or a class went idle and came back.
THEOREM DeficitsStayBounded == Spec => []DeficitsBounded
  <1>1. Init => DeficitInv
    <2> SUFFICES ASSUME Init PROVE DeficitsBounded
      BY InitTypeOK DEF DeficitInv
    <2>1. Quantum >= 0
      BY QuantaTypes
    <2>. QED
      BY <2>1 DEF Init, DeficitsBounded
  <1>2. DeficitInv /\ [Next]_vars => DeficitInv'
    BY NextDeficitInv
  <1>3. DeficitInv => DeficitsBounded
    BY DEF DeficitInv
  <1>. QED
    BY <1>1, <1>2, <1>3, PTL DEF Spec
-----------------------------------------------------------------------------
\* The debt of one class, in a form a step can be checked against.
DebtBound(d) == d < 0 => \E s \in Sizes \union {1 - g : g \in GarbageDeficit} : d > -s

\* More credit is never more debt, and what is not negative is no debt at all.
LEMMA DebtBoundGrows ==
  ASSUME NEW d \in Int, NEW e \in Int, DebtBound(d), d <= e \/ e >= 0
  PROVE  DebtBound(e)
  <1>1. CASE e >= 0
    BY <1>1 DEF DebtBound
  <1>2. CASE d <= e /\ e < 0
    <2>1. d < 0
      BY <1>2
    <2>2. PICK s \in Sizes \union {1 - g : g \in GarbageDeficit} : d > -s
      BY <2>1 DEF DebtBound
    <2>3. s \in Int
      BY <2>2, ConstantsAssumption
    <2>4. e > -s
      BY <1>2, <2>2, <2>3
    <2>. QED
      BY <2>2, <2>4 DEF DebtBound
  <1>. QED
    BY <1>1, <1>2

\* A step that changes the deficit of one class keeps the bound if the new
\* deficit does.
LEMMA OneClassDebt ==
  ASSUME TypeOK, ClassDebtBounded, NEW p \in Prios, NEW d \in Int, DebtBound(d),
         classDeficit' = [classDeficit EXCEPT ![p] = d]
  PROVE  ClassDebtBounded'
  <1>1. \A q \in Prios : DebtBound(classDeficit'[q])
    BY DEF TypeOK, ClassDebtBounded, DebtBound
  <1>. QED
    BY <1>1 DEF ClassDebtBounded, DebtBound

\* DoEnqueue lets a new class start from garbage and never takes credit below 0.
LEMMA EnqueueDebt ==
  ASSUME TypeOK, ClassDebtBounded, \A p \in Prios : ClassQuantum(p) >= 0,
         NEW t \in Traffic, NEW s \in Sizes, Enqueue(t[1], t[2], s)
  PROVE  ClassDebtBounded'
  <1> DEFINE p == t[1]
             f == <<t[1], t[2] % Flows>>
  <1>1. p \in Prios /\ Activate(p, f)
    BY TrafficFlow DEF Enqueue
  <1> HIDE DEF p, f
  <1>2. CASE classActive[p]
    BY <1>1, <1>2 DEF Activate, ClassDebtBounded
  <1>3. CASE ~classActive[p]
    <2>1. PICK d \in StoredDeficit(p) :
            classDeficit' = [classDeficit EXCEPT ![p] = AtMost(d, ClassQuantum(p))]
      BY <1>1, <1>3 DEF Activate
    <2>2. d \in Int
      BY <1>1, ConstantsAssumption DEF StoredDeficit, TypeOK
    <2>3. DebtBound(d)
      <3>1. CASE d \in GarbageDeficit
        <4>1. 1 - d \in {1 - g : g \in GarbageDeficit} /\ d > -(1 - d)
          BY <2>2, <3>1
        <4>. QED
          BY <4>1 DEF DebtBound
      <3>2. CASE d = classDeficit[p]
        BY <1>1, <3>2 DEF ClassDebtBounded, DebtBound
      <3>. QED
        BY <2>1, <3>1, <3>2 DEF StoredDeficit
    <2>4. /\ AtMost(d, ClassQuantum(p)) \in Int
          /\ d <= AtMost(d, ClassQuantum(p)) \/ AtMost(d, ClassQuantum(p)) >= 0
      BY <1>1, <2>2, QuantaTypes DEF AtMost
    <2>5. DebtBound(AtMost(d, ClassQuantum(p)))
      BY <2>2, <2>3, <2>4, DebtBoundGrows
    <2>. QED
      BY <1>1, <2>1, <2>4, <2>5, OneClassDebt
  <1>. QED
    BY <1>2, <1>3

\* Every step keeps the debts bounded.
LEMMA NextDebt ==
  ASSUME TypeOK, ClassDebtBounded, \A p \in Prios : ClassQuantum(p) >= 0, [Next]_vars
  PROVE  ClassDebtBounded'
  <1>1. CASE \E t \in Traffic, s \in Sizes : Enqueue(t[1], t[2], s)
    BY <1>1, EnqueueDebt
  <1>2. CASE RotateClass
    <2> DEFINE p == Head(prioClasses)
    <2>1. /\ p \in Prios
          /\ classDeficit' = [classDeficit EXCEPT ![p] = classDeficit[p] + ClassQuantum(p)]
      BY <1>2 DEF RotateClass, TypeOK
    <2> HIDE DEF p
    <2>2. /\ classDeficit[p] \in Int /\ classDeficit[p] + ClassQuantum(p) \in Int
          /\ classDeficit[p] <= classDeficit[p] + ClassQuantum(p)
      BY <2>1, QuantaTypes DEF TypeOK
    <2>3. DebtBound(classDeficit[p])
      BY <2>1 DEF ClassDebtBounded, DebtBound
    <2>. QED
      BY <2>1, <2>2, <2>3, DebtBoundGrows, OneClassDebt
  <1>3. CASE Serve
    <2> DEFINE p == Chosen
               s == Head(queue[ServedFlow])
    <2>1. /\ prioClasses # <<>> /\ flows[Chosen] # <<>> /\ classDeficit[Chosen] > 0
          /\ TakeHead(ServedFlow)
          /\ classDeficit' = [classDeficit EXCEPT ![Chosen] = classDeficit[Chosen]
                                                     - Head(queue[ServedFlow])]
      BY <1>3 DEF Serve, InChildDequeue, TypeOK
    <2>2. p \in Prios /\ ServedFlow \in FlowIds
      BY <2>1, ServedType
    <2>3. s \in Sizes /\ s \in Nat \ {0}
      BY <2>1, <2>2, TakeHeadType
    <2>4. /\ classDeficit[p] > 0 /\ classDeficit[p] \in Int
          /\ classDeficit' = [classDeficit EXCEPT ![p] = classDeficit[p] - s]
      BY <2>1, <2>2 DEF TypeOK
    <2> HIDE DEF p, s
    <2>5. classDeficit[p] - s \in Int /\ classDeficit[p] - s > -s
      BY <2>3, <2>4
    <2>6. DebtBound(classDeficit[p] - s)
      BY <2>3, <2>5 DEF DebtBound
    <2>. QED
      BY <2>2, <2>4, <2>5, <2>6, OneClassDebt
  <1>4. CASE ~ (RotateClass \/ Serve \/ \E t \in Traffic, s \in Sizes : Enqueue(t[1], t[2], s))
    <2>1. classDeficit' = classDeficit
      BY <1>4 DEF Next, DropStep, DequeueStep, PeekStep, Dequeue, NoClass, FoundClass,
                  Peek, PeekNull, PeekTake, MsfcDrop, DropHead, CoDelDrop, RotateFlow,
                  ClassEmpty, FlowEmpty, vars, classVars
    <2>. QED
      BY <2>1 DEF ClassDebtBounded
  <1>. QED
    BY <1>1, <1>2, <1>3, <1>4

\* If no class quantum is negative, an active or idle class never owes as much
\* as a packet or as the garbage it started from, and one more: its debts do not
\* add up across rounds. (With a quantum that overflowed into a negative number
\* they do, and ConstantsAssumption does not rule that out.)
THEOREM ClassDebtStaysBounded ==
  ASSUME \A p \in Prios : ClassQuantum(p) >= 0
  PROVE  Spec => []ClassDebtBounded
  <1>1. Init => ClassDebtBounded
    BY DEF Init, ClassDebtBounded
  <1>2. TypeOK /\ ClassDebtBounded /\ [Next]_vars => ClassDebtBounded'
    BY NextDebt
  <1>3. Init => TypeOK
    BY InitTypeOK
  <1>4. TypeOK /\ [Next]_vars => TypeOK'
    BY NextTypeOK
  <1>. QED
    BY <1>1, <1>2, <1>3, <1>4, PTL DEF Spec
-----------------------------------------------------------------------------
\* The limit holds again before a call returns: only DoEnqueue lets a packet in,
\* one at a time, and then takes at least one out.
LimitInv == /\ TypeOK
            /\ nPackets <= MaxSize + 1
            /\ pc \in {"idle", "class", "flow", "peek"} => nPackets <= MaxSize

LEMMA NextLimitInv == LimitInv /\ [Next]_vars => LimitInv'
  <1> SUFFICES ASSUME LimitInv, [Next]_vars
               PROVE  /\ nPackets' <= MaxSize + 1
                      /\ pc' \in {"idle", "class", "flow", "peek"} => nPackets' <= MaxSize
    BY NextTypeOK DEF LimitInv
  <1>. nPackets \in Int /\ MaxSize \in Nat
    BY ConstantsAssumption DEF LimitInv, TypeOK
  <1>1. CASE \E t \in Traffic, s \in Sizes : Enqueue(t[1], t[2], s)
    <2>1. PICK t \in Traffic, s \in Sizes : Enqueue(t[1], t[2], s)
      BY <1>1
    <2>2. nPackets' \in {nPackets, nPackets + 1}
      BY <2>1 DEF Enqueue, ChildEnqueue, queueVars
    <2>3. pc = "idle" /\ pc' = IF nPackets' > MaxSize THEN "overlimit" ELSE "idle"
      BY <2>1 DEF Enqueue
    <2>. QED
      BY <2>2, <2>3 DEF LimitInv
  <1>2. CASE DropHead /\ queue[drop.flow] # <<>>
    <2>1. nPackets' = nPackets - 1
      BY <1>2 DEF DropHead, TakeHead
    <2>. QED
      BY <2>1 DEF LimitInv
  <1>3. CASE CoDelDrop \/ Serve \/ PeekTake
    <2>1. nPackets' = nPackets - 1 /\ pc \in {"flow", "peek"}
      BY <1>3 DEF CoDelDrop, Serve, PeekTake, InChildDequeue, TakeHead
    <2>. QED
      BY <2>1 DEF LimitInv
  <1>4. CASE \/ Dequeue \/ NoClass \/ RotateClass \/ FoundClass \/ RotateFlow
             \/ ClassEmpty \/ FlowEmpty \/ Peek \/ PeekNull
    <2>1. nPackets' = nPackets /\ pc \in {"idle", "class", "flow", "peek"}
      BY <1>4 DEF Dequeue, NoClass, RotateClass, FoundClass, RotateFlow, ClassEmpty,
                  FlowEmpty, Peek, PeekNull, queueVars
    <2>. QED
      BY <2>1 DEF LimitInv
  <1>5. CASE MsfcDrop \/ (DropHead /\ queue[drop.flow] = <<>>)
    <2>1. nPackets' = nPackets /\ pc' \in {"drop", "crashed"}
      BY <1>5 DEF MsfcDrop, DropHead, queueVars
    <2>. QED
      BY <2>1 DEF LimitInv
  <1>6. CASE UNCHANGED vars
    BY <1>6 DEF LimitInv, vars, queueVars
  <1>. QED
    BY <1>1, <1>2, <1>3, <1>4, <1>5, <1>6 DEF Next, DropStep, DequeueStep, PeekStep

\* Between calls the queue disc holds at most MaxSize packets, within one at most
\* one more, whatever the limit, the batch size and the traffic are.
THEOREM LimitIsKept == Spec => []WithinLimit
  <1>1. Init => LimitInv
    BY InitTypeOK, ConstantsAssumption DEF Init, LimitInv
  <1>2. LimitInv /\ [Next]_vars => LimitInv'
    BY NextLimitInv
  <1>3. LimitInv => WithinLimit
    BY DEF LimitInv, WithinLimit
  <1>. QED
    BY <1>1, <1>2, <1>3, PTL DEF Spec
-----------------------------------------------------------------------------
\* The counters. A flow has packets only once it is in the list of children, and
\* is in that list once, so that a packet is counted once.
CounterInv == /\ TypeOK
              /\ Distinct(discClasses)
              /\ \A f \in FlowIds : queue[f] # <<>> => f \in Elems(discClasses)
              /\ CountersMatchQueues

LEMMA CountersDef ==
  CountersMatchQueues <=> /\ \A f \in FlowIds : bytes[f] = Sum(queue[f])
                          /\ nPackets = Sum(Lens(discClasses, queue))
  BY DEF CountersMatchQueues, Lens

\* The bytes of a queue: a packet more, a packet less, and none is empty.
LEMMA QueueSums ==
  ASSUME NEW q \in Seq(Sizes)
  PROVE  /\ Sum(q) \in Int
         /\ \A s \in Sizes : Sum(Append(q, s)) = Sum(q) + s
         /\ q # <<>> => Sum(Tail(q)) = Sum(q) - Head(q)
         /\ q = <<>> => Sum(q) = 0
         /\ q # <<>> => Sum(q) > 0
  BY ConstantsAssumption, PositiveSums

\* A step that takes the head of a flow counts it out twice, once in the child
\* and once in the parent.
LEMMA CountersTake ==
  ASSUME CounterInv, NEW f \in FlowIds, TakeHead(f), discClasses' = discClasses
  PROVE  /\ Distinct(discClasses')
         /\ \A g \in FlowIds : queue'[g] # <<>> => g \in Elems(discClasses')
         /\ CountersMatchQueues'
  <1>1. /\ queue \in [FlowIds -> Seq(Sizes)] /\ bytes \in [FlowIds -> Int]
        /\ discClasses \in Seq(FlowIds) /\ Distinct(discClasses)
        /\ nPackets = Sum(Lens(discClasses, queue))
        /\ \A g \in FlowIds : bytes[g] = Sum(queue[g])
    BY CountersDef DEF CounterInv, TypeOK
  <1>q. Queues(FlowIds, Sizes, discClasses, queue)
    BY <1>1 DEF Queues
  <1>2. /\ queue[f] # <<>> /\ queue' = [queue EXCEPT ![f] = Tail(queue[f])]
        /\ bytes' = [bytes EXCEPT ![f] = bytes[f] - Head(queue[f])]
        /\ nPackets' = nPackets - 1
    BY DEF TakeHead
  <1>3. f \in Elems(discClasses)
    BY <1>2 DEF CounterInv
  <1>4. queue[f] \in Seq(Sizes)
    BY <1>1
  <1>5. /\ Sum(Lens(discClasses, [queue EXCEPT ![f] = Tail(queue[f])]))
           = Sum(Lens(discClasses, queue)) - 1
        /\ Sum(Lens(discClasses, queue)) \in Int
    <2>1. queue[f] # <<>> /\ Distinct(discClasses)
      BY <1>1, <1>2
    <2>2. Sum(Lens(discClasses, [queue EXCEPT ![f] = Tail(queue[f])]))
            = Sum(Lens(discClasses, queue)) - 1
      BY <1>q, <1>3, <2>1, LensTake
    <2>3. Sum(Lens(discClasses, queue)) \in Int
      BY <1>q, LensType
    <2>. QED
      BY <2>2, <2>3
  <1>6. nPackets' = Sum(Lens(discClasses', queue'))
    BY <1>1, <1>2, <1>4, <1>5
  <1>7. ASSUME NEW g \in FlowIds
        PROVE  bytes'[g] = Sum(queue'[g]) /\ (queue'[g] # <<>> => queue[g] # <<>>)
    <2>1. CASE g = f
      <3>1. Sum(Tail(queue[f])) = Sum(queue[f]) - Head(queue[f])
        BY <1>2, <1>4, QueueSums
      <3>. QED
        BY <1>1, <1>2, <2>1, <3>1
    <2>2. CASE g # f
      BY <1>1, <1>2, <2>2
    <2>. QED
      BY <2>1, <2>2
  <1>8. \A g \in FlowIds : queue'[g] # <<>> => g \in Elems(discClasses')
    BY <1>7 DEF CounterInv
  <1>9. CountersMatchQueues'
    BY <1>6, <1>7 DEF CountersMatchQueues, Lens
  <1>. QED
    BY <1>1, <1>8, <1>9

\* DoEnqueue lists a flow before it gives it a packet.
LEMMA CountersEnqueue ==
  ASSUME CounterInv, NEW t \in Traffic, NEW s \in Sizes, Enqueue(t[1], t[2], s)
  PROVE  /\ Distinct(discClasses')
         /\ \A g \in FlowIds : queue'[g] # <<>> => g \in Elems(discClasses')
         /\ CountersMatchQueues'
  <1> DEFINE f == <<t[1], t[2] % Flows>>
             d == discClasses'
  <1>1. /\ f \in FlowIds /\ ChildEnqueue(f, s)
        /\ d = IF f \in Elems(discClasses) THEN discClasses ELSE Append(discClasses, f)
    BY TrafficFlow DEF Enqueue, Activate
  <1> HIDE DEF f
  <1>2. /\ queue \in [FlowIds -> Seq(Sizes)] /\ bytes \in [FlowIds -> Int]
        /\ discClasses \in Seq(FlowIds) /\ Distinct(discClasses)
        /\ nPackets = Sum(Lens(discClasses, queue))
        /\ \A g \in FlowIds : bytes[g] = Sum(queue[g])
        /\ \A g \in FlowIds : queue[g] # <<>> => g \in Elems(discClasses)
    BY CountersDef DEF CounterInv, TypeOK
  <1>q. Queues(FlowIds, Sizes, discClasses, queue)
    BY <1>2 DEF Queues
  <1>3. /\ d \in Seq(FlowIds) /\ Distinct(d) /\ f \in Elems(d)
        /\ Elems(discClasses) \subseteq Elems(d)
        /\ Sum(Lens(d, queue)) = Sum(Lens(discClasses, queue))
    <2>1. CASE f \in Elems(discClasses)
      BY <1>1, <1>2, <2>1
    <2>2. CASE f \notin Elems(discClasses)
      <3>1. d = Append(discClasses, f) /\ queue[f] = <<>>
        BY <1>1, <1>2, <2>2
      <3>2. Elems(d) = Elems(discClasses) \union {f} /\ Distinct(d) /\ d \in Seq(FlowIds)
        BY <1>1, <1>2, <2>2, <3>1, AppendElems
      <3>3. Sum(Lens(Append(discClasses, f), queue)) = Sum(Lens(discClasses, queue))
        BY <1>q, <1>1, <3>1, LensOneMore
      <3>. QED
        BY <3>1, <3>2, <3>3
    <2>. QED
      BY <2>1, <2>2
  <1> HIDE DEF d
  <1>r. Queues(FlowIds, Sizes, d, queue)
    BY <1>2, <1>3 DEF Queues
  <1>4. CASE bytes[f] + s > ChildMaxSize
    <2>1. queue' = queue /\ bytes' = bytes /\ nPackets' = nPackets
      BY <1>1, <1>4 DEF ChildEnqueue, queueVars
    <2>2. nPackets' = Sum(Lens(d, queue'))
      BY <1>2, <1>3, <2>1
    <2>3. CountersMatchQueues'
      BY <1>2, <2>1, <2>2 DEF CountersMatchQueues, Lens, d
    <2>. QED
      BY <1>2, <1>3, <2>1, <2>3 DEF d
  <1>5. CASE ~(bytes[f] + s > ChildMaxSize)
    <2> DEFINE a == Append(queue[f], s)
    <2>1. /\ queue' = [queue EXCEPT ![f] = a]
          /\ bytes' = [bytes EXCEPT ![f] = bytes[f] + s]
          /\ nPackets' = nPackets + 1
      BY <1>1, <1>5 DEF ChildEnqueue
    <2>2. /\ a \in Seq(Sizes) /\ Len(a) = Len(queue[f]) + 1 /\ Len(queue[f]) \in Nat
          /\ queue[f] \in Seq(Sizes)
      BY <1>1, <1>2
    <2>3. Sum(a) = Sum(queue[f]) + s
      BY <2>2, QueueSums
    <2> HIDE DEF a
    <2>4. /\ Sum(Lens(d, [queue EXCEPT ![f] = a]))
             = Sum(Lens(d, queue)) + Len(a) - Len(queue[f])
          /\ Sum(Lens(d, queue)) \in Int
      <3>1. Distinct(d) /\ f \in Elems(d) /\ a \in Seq(Sizes)
        BY <1>3, <2>2
      <3>2. Sum(Lens(d, queue)) \in Int
        BY ONLY <1>r, LensType
      <3>3. Sum(Lens(d, [queue EXCEPT ![f] = a]))
              = Sum(Lens(d, queue)) + Len(a) - Len(queue[f])
        BY ONLY <1>r, <3>1, LensOneChanged
      <3>. QED
        BY <3>2, <3>3
    <2>5. nPackets' = Sum(Lens(d, queue'))
      BY <1>2, <1>3, <2>1, <2>2, <2>4
    <2>6. ASSUME NEW g \in FlowIds
          PROVE  /\ bytes'[g] = Sum(queue'[g])
                 /\ queue'[g] # <<>> => g \in Elems(d)
      <3>1. CASE g = f
        BY <1>2, <1>3, <2>1, <2>3, <3>1
      <3>2. CASE g # f
        BY <1>2, <1>3, <2>1, <3>2
      <3>. QED
        BY <3>1, <3>2
    <2>7. CountersMatchQueues'
      BY <2>5, <2>6 DEF CountersMatchQueues, Lens, d
    <2>. QED
      BY <1>3, <2>6, <2>7 DEF d
  <1>. QED
    BY <1>4, <1>5

LEMMA NextCounterInv == CounterInv /\ [Next]_vars => CounterInv'
  <1> SUFFICES ASSUME CounterInv, [Next]_vars
               PROVE  /\ Distinct(discClasses')
                      /\ \A g \in FlowIds : queue'[g] # <<>> => g \in Elems(discClasses')
                      /\ CountersMatchQueues'
    BY NextTypeOK DEF CounterInv
  <1>. TypeOK
    BY DEF CounterInv
  <1>1. CASE \E t \in Traffic, s \in Sizes : Enqueue(t[1], t[2], s)
    BY <1>1, CountersEnqueue
  <1>2. CASE DropHead /\ queue[drop.flow] # <<>>
    <2>1. drop.flow \in FlowIds /\ TakeHead(drop.flow) /\ discClasses' = discClasses
      BY <1>2 DEF DropHead, TypeOK
    <2>. QED
      BY <2>1, CountersTake
  <1>3. CASE CoDelDrop \/ Serve \/ PeekTake
    <2>1. TakeHead(ServedFlow) /\ discClasses' = discClasses
      BY <1>3 DEF CoDelDrop, Serve, PeekTake
    <2>2. ServedFlow \in FlowIds
      BY <1>3, ServedType DEF CoDelDrop, Serve, PeekTake, InChildDequeue, TypeOK
    <2>. QED
      BY <2>1, <2>2, CountersTake
  <1>4. CASE ~ \/ \E t \in Traffic, s \in Sizes : Enqueue(t[1], t[2], s)
               \/ DropHead /\ queue[drop.flow] # <<>>
               \/ CoDelDrop \/ Serve \/ PeekTake
    <2>1. discClasses' = discClasses /\ UNCHANGED queueVars
      BY <1>4 DEF Next, DropStep, DequeueStep, PeekStep, Dequeue, NoClass, FoundClass,
                  RotateClass, RotateFlow, ClassEmpty, FlowEmpty, Peek, PeekNull,
                  MsfcDrop, DropHead, vars, queueVars
    <2>. QED
      BY <2>1 DEF CounterInv, CountersMatchQueues, queueVars
  <1>. QED
    BY <1>1, <1>2, <1>3, <1>4

LEMMA InitCounterInv == Init => CounterInv
  <1> SUFFICES ASSUME Init PROVE CounterInv
    OBVIOUS
  <1>1. /\ \A f \in FlowIds : queue[f] = <<>> /\ bytes[f] = 0
        /\ discClasses = <<>> /\ nPackets = 0 /\ <<>> \in Seq(Int)
        /\ queue \in [FlowIds -> Seq(Sizes)] /\ discClasses \in Seq(FlowIds)
    BY InitTypeOK DEF Init, TypeOK
  <1>2. Sum(Lens(discClasses, queue)) = 0
    <2>1. \A f \in Elems(discClasses) : queue[f] = <<>>
      BY <1>1, EmptyElems
    <2>2. Queues(FlowIds, Sizes, discClasses, queue)
      BY <1>1 DEF Queues
    <2>. QED
      BY <2>1, <2>2, LensZero
  <1>3. CountersMatchQueues
    BY <1>1, <1>2, CountersDef, SumEmpty
  <1>. QED
    BY <1>1, <1>3, InitTypeOK, EmptyElems DEF CounterInv

\* What the traces count is what is there, in every state: in the middle of a
\* batch of drops too, when a packet was refused and when a flow was just created.
THEOREM CountersAlwaysMatch == Spec => []CountersMatchQueues
  <1>1. CounterInv => CountersMatchQueues
    BY DEF CounterInv
  <1>. QED
    BY <1>1, InitCounterInv, NextCounterInv, PTL DEF Spec
-----------------------------------------------------------------------------
\* A batch of drops. What was dropped and what is left add up to what the flow
\* had, and the batch ends when half of that is gone: so something is left.
DropInv == /\ CounterInv
           /\ pc = "overlimit" => nPackets > MaxSize
           /\ pc = "drop" => /\ bytes[drop.flow] > 0
                             /\ drop.len >= 0
                             /\ 2 * drop.threshold <= bytes[drop.flow] + drop.len
           /\ pc # "crashed"

\* The fattest flow has something to drop when the queue disc is over its limit.
LEMMA FattestHasBytes ==
  ASSUME CounterInv, nPackets > MaxSize, NEW i \in DOMAIN discClasses, IsFattest(i)
  PROVE  bytes[discClasses[i]] > 0
  <1>1. /\ queue \in [FlowIds -> Seq(Sizes)] /\ bytes \in [FlowIds -> Int]
        /\ discClasses \in Seq(FlowIds)
        /\ nPackets = Sum(Lens(discClasses, queue))
        /\ \A g \in FlowIds : bytes[g] = Sum(queue[g])
    BY CountersDef DEF CounterInv, TypeOK
  <1>2. nPackets # 0
    BY <1>1, ConstantsAssumption DEF CounterInv, TypeOK
  <1>3. PICK f \in Elems(discClasses) : queue[f] # <<>>
    <2>1. Queues(FlowIds, Sizes, discClasses, queue)
      BY <1>1 DEF Queues
    <2>. QED
      BY <1>1, <1>2, <2>1, LensZero
  <1>4. PICK j \in DOMAIN discClasses : f = discClasses[j]
    BY DEF Elems
  <1>5. f \in FlowIds /\ discClasses[i] \in FlowIds
    BY <1>1, <1>4
  <1>6. bytes[f] > 0
    BY <1>1, <1>3, <1>5, QueueSums
  <1>7. bytes[discClasses[j]] <= bytes[discClasses[i]]
    BY DEF IsFattest
  <1>. QED
    BY <1>1, <1>4, <1>5, <1>6, <1>7

LEMMA NextDropInv == DropInv /\ [Next]_vars => DropInv'
  <1> SUFFICES ASSUME DropInv, [Next]_vars
               PROVE  /\ pc' = "overlimit" => nPackets' > MaxSize
                      /\ pc' = "drop" =>
                           /\ bytes'[drop'.flow] > 0
                           /\ drop'.len >= 0
                           /\ 2 * drop'.threshold <= bytes'[drop'.flow] + drop'.len
                      /\ pc' # "crashed"
    BY NextCounterInv DEF DropInv
  <1>. TypeOK /\ CounterInv
    BY DEF DropInv, CounterInv
  <1>1. CASE \E t \in Traffic, s \in Sizes : Enqueue(t[1], t[2], s)
    BY <1>1 DEF Enqueue
  <1>2. CASE MsfcDrop
    <2>1. PICK i \in DOMAIN discClasses :
            /\ IsFattest(i)
            /\ drop' = [flow |-> discClasses[i], len |-> 0, count |-> 0,
                        threshold |-> bytes[discClasses[i]] \div 2]
      BY <1>2 DEF MsfcDrop
    <2>2. nPackets > MaxSize /\ bytes' = bytes /\ pc' = "drop"
      BY <1>2 DEF MsfcDrop, queueVars, DropInv
    <2>3. bytes[discClasses[i]] > 0 /\ bytes[discClasses[i]] \in Int
      BY <2>1, <2>2, FattestHasBytes DEF TypeOK
    <2>4. 2 * (bytes[discClasses[i]] \div 2) <= bytes[discClasses[i]]
      BY <2>3
    <2>. QED
      BY <2>1, <2>2, <2>3, <2>4
  <1>3. CASE DropHead
    <2> DEFINE f == drop.flow
               h == Head(queue[f])
    <2>1. /\ pc = "drop" /\ f \in FlowIds
          /\ drop \in [flow: FlowIds, len: Int, count: Int, threshold: Int]
      BY <1>3 DEF DropHead, TypeOK
    <2>2. /\ bytes[f] > 0 /\ bytes[f] = Sum(queue[f]) /\ queue[f] \in Seq(Sizes)
          /\ bytes \in [FlowIds -> Int]
      BY <2>1 DEF DropInv, CounterInv, CountersMatchQueues, TypeOK
    <2>3. queue[f] # <<>>
      BY <2>2, QueueSums
    <2>4. /\ TakeHead(f)
          /\ \/ /\ drop.len + h < drop.threshold
                /\ drop' = [drop EXCEPT !.len = drop.len + h, !.count = drop.count + 1]
                /\ pc' = pc
             \/ pc' = "idle"
      BY <1>3, <2>3 DEF DropHead
    <2>5. h \in Nat /\ bytes' = [bytes EXCEPT ![f] = bytes[f] - h]
      BY <2>1, <2>4, TakeHeadType DEF TakeHead
    <2>6. /\ drop.len >= 0 /\ drop.len \in Int /\ drop.threshold \in Int
          /\ 2 * drop.threshold <= bytes[f] + drop.len
      BY <2>1 DEF DropInv
    <2>7. bytes'[f] = bytes[f] - h /\ bytes[f] \in Int
      BY <2>1, <2>2, <2>5
    <2>8. CASE pc' = "idle"
      BY <2>8
    <2>9. CASE /\ drop.len + h < drop.threshold
               /\ drop' = [drop EXCEPT !.len = drop.len + h, !.count = drop.count + 1]
               /\ pc' = pc
      <3>1. /\ drop'.flow = f /\ drop'.len = drop.len + h
            /\ drop'.threshold = drop.threshold
        BY <2>1, <2>9
      <3> HIDE DEF f, h
      <3>2. /\ bytes'[f] > 0 /\ drop.len + h >= 0
            /\ 2 * drop.threshold <= bytes'[f] + (drop.len + h)
        BY <2>5, <2>6, <2>7, <2>9
      <3>. QED
        BY <2>1, <2>9, <3>1, <3>2
    <2>. QED
      BY <2>4, <2>8, <2>9
  <1>4. CASE ~ \/ \E t \in Traffic, s \in Sizes : Enqueue(t[1], t[2], s)
               \/ MsfcDrop \/ DropHead
    <2>1. \/ pc' \notin {"overlimit", "drop", "crashed"}
          \/ UNCHANGED <<pc, nPackets, bytes, drop>>
      BY <1>4 DEF Next, DropStep, DequeueStep, PeekStep, Dequeue, NoClass, FoundClass,
                  RotateClass, RotateFlow, ClassEmpty, FlowEmpty, Peek, PeekNull,
                  CoDelDrop, InChildDequeue, Serve, PeekTake, vars, queueVars
    <2>. QED
      BY <2>1 DEF DropInv
  <1>. QED
    BY <1>1, <1>2, <1>3, <1>4

\* MsfcDrop never dereferences the null packet: the flow it drops from does not
\* run empty before the batch ends, whatever the limit, the batch size and the
\* sizes of the packets are.
THEOREM DropNeverCrashes == Spec => []NeverCrashes
  <1>1. Init => DropInv
    BY InitCounterInv DEF Init, DropInv
  <1>2. DropInv => NeverCrashes
    BY DEF DropInv, NeverCrashes
  <1>. QED
    BY <1>1, <1>2, NextDropInv, PTL DEF Spec
-----------------------------------------------------------------------------
\* The refinement of FlowFifos: a step maps to a step of the contract or to a
\* stutter.
Dequeuing == pc \in {"class", "flow"}

LEMMA FifoStutter ==
  ASSUME queue' = queue, Dequeuing' <=> Dequeuing
  PROVE  UNCHANGED Fifos!vars
  <1>1. (pc \in {"class", "flow"})' = (pc \in {"class", "flow"})
    BY DEF Dequeuing
  <1>. QED
    BY <1>1, Zenon DEF Fifos!vars

LEMMA FifoDropHead ==
  ASSUME NEW f \in FlowIds, TakeHead(f), Dequeuing' <=> Dequeuing
  PROVE  Fifos!DropHead(f)
  <1>1. (pc \in {"class", "flow"})' = (pc \in {"class", "flow"})
    BY DEF Dequeuing
  <1>. QED
    BY <1>1, Zenon DEF Fifos!DropHead, TakeHead

\* DoDequeue finds no class only when there is no packet at all.
LEMMA NoClassNoPacket ==
  ASSUME ListInv, prioClasses = <<>>
  PROVE  \A f \in FlowIds : queue[f] = <<>>
  <1> SUFFICES ASSUME NEW f \in FlowIds PROVE queue[f] = <<>>
    OBVIOUS
  <1>1. f[1] \in Prios
    BY FlowPrio
  <1>2. ~classActive[f[1]]
    BY <1>1, EmptyElems DEF ListInv, ListsMatchFlags
  <1>. QED
    BY <1>2 DEF ListInv, NoPacketStranded

LEMMA NextIsFifoNext ==
  ASSUME ListInv, [Next]_vars
  PROVE  [Fifos!Next]_(Fifos!vars)
  <1>. TypeOK
    BY DEF ListInv
  <1>1. CASE \E t \in Traffic, s \in Sizes : Enqueue(t[1], t[2], s)
    <2>1. PICK t \in Traffic, s \in Sizes : Enqueue(t[1], t[2], s)
      BY <1>1
    <2> DEFINE f == <<t[1], t[2] % Flows>>
    <2>2. f \in FlowIds /\ ChildEnqueue(f, s)
      BY <2>1, TrafficFlow DEF Enqueue
    <2>3. ~Dequeuing /\ ~Dequeuing'
      BY <2>1 DEF Enqueue, Dequeuing
    <2> HIDE DEF f
    <2>4. CASE bytes[f] + s > ChildMaxSize
      BY <2>2, <2>3, <2>4, FifoStutter DEF ChildEnqueue, queueVars
    <2>5. CASE ~(bytes[f] + s > ChildMaxSize)
      <3>1. queue' = [queue EXCEPT ![f] = Append(@, s)]
        BY <2>2, <2>5 DEF ChildEnqueue
      <3>2. Fifos!Accept(f, s)
        BY <2>3, <3>1 DEF Fifos!Accept, Dequeuing
      <3>. QED
        BY <2>2, <3>2, Zenon DEF Fifos!Next
    <2>. QED
      BY <2>4, <2>5
  <1>2. CASE MsfcDrop \/ (DropHead /\ queue[drop.flow] = <<>>)
    <2>1. queue' = queue /\ ~Dequeuing /\ ~Dequeuing'
      BY <1>2 DEF MsfcDrop, DropHead, queueVars, Dequeuing
    <2>. QED
      BY <2>1, FifoStutter
  <1>3. CASE DropHead /\ queue[drop.flow] # <<>>
    <2>1. drop.flow \in FlowIds
      BY <1>3 DEF DropHead, TypeOK
    <2>2. TakeHead(drop.flow) /\ ~Dequeuing /\ ~Dequeuing'
      BY <1>3 DEF DropHead, Dequeuing
    <2>3. Fifos!DropHead(drop.flow)
      BY <2>1, <2>2, FifoDropHead
    <2>. QED
      BY <2>1, <2>3, Zenon DEF Fifos!Next
  <1>4. CASE Dequeue
    <2>1. ~Dequeuing /\ Dequeuing' /\ queue' = queue
      BY <1>4 DEF Dequeue, Dequeuing, queueVars
    <2>2. Fifos!Call
      BY <2>1 DEF Fifos!Call, Dequeuing
    <2>. QED
      BY <2>2, Zenon DEF Fifos!Next
  <1>5. CASE NoClass
    <2>1. Dequeuing /\ ~Dequeuing' /\ queue' = queue
      BY <1>5 DEF NoClass, Dequeuing, queueVars
    <2>2. \A f \in FlowIds : queue[f] = <<>>
      BY <1>5, NoClassNoPacket DEF NoClass
    <2>3. Fifos!ReturnNothing
      BY <2>1, <2>2 DEF Fifos!ReturnNothing, Dequeuing
    <2>. QED
      BY <2>3, Zenon DEF Fifos!Next
  <1>6. CASE RotateClass \/ FoundClass \/ RotateFlow \/ ClassEmpty \/ FlowEmpty
    <2>1. queue' = queue /\ Dequeuing /\ Dequeuing'
      BY <1>6 DEF RotateClass, FoundClass, RotateFlow, ClassEmpty, FlowEmpty,
                  queueVars, Dequeuing
    <2>. QED
      BY <2>1, FifoStutter
  <1>7. CASE CoDelDrop \/ PeekTake
    <2>1. TakeHead(ServedFlow) /\ ServedFlow \in FlowIds
      BY <1>7, ServedType DEF CoDelDrop, PeekTake, InChildDequeue, TypeOK
    <2>2. Dequeuing' <=> Dequeuing
      BY <1>7 DEF CoDelDrop, PeekTake, Dequeuing
    <2>3. Fifos!DropHead(ServedFlow)
      BY <2>1, <2>2, FifoDropHead
    <2>. QED
      BY <2>1, <2>3, Zenon DEF Fifos!Next
  <1>8. CASE Serve
    <2>1. TakeHead(ServedFlow) /\ ServedFlow \in FlowIds
      BY <1>8, ServedType DEF Serve, InChildDequeue, TypeOK
    <2>2. Dequeuing /\ ~Dequeuing'
      BY <1>8 DEF Serve, Dequeuing
    <2>3. Fifos!Deliver(ServedFlow)
      BY <2>1, <2>2 DEF Fifos!Deliver, TakeHead, Dequeuing
    <2>. QED
      BY <2>1, <2>3, Zenon DEF Fifos!Next
  <1>9. CASE Peek \/ PeekNull
    <2>1. queue' = queue /\ ~Dequeuing /\ ~Dequeuing'
      BY <1>9 DEF Peek, PeekNull, queueVars, Dequeuing
    <2>. QED
      BY <2>1, FifoStutter
  <1>10. CASE UNCHANGED vars
    <2>1. queue' = queue /\ pc' = pc
      BY <1>10 DEF vars, queueVars
    <2>. QED
      BY <2>1, FifoStutter DEF Dequeuing
  <1>. QED
    BY <1>1, <1>2, <1>3, <1>4, <1>5, <1>6, <1>7, <1>8, <1>9, <1>10
       DEF Next, DropStep, DequeueStep, PeekStep

\* MSFC does nothing that the contract of a classful queue disc forbids: every
\* flow is a FIFO, and DoDequeue returns null only when there is no packet at all.
\* (That DoDequeue returns, the contract's fairness, is left to model checking.)
THEOREM KeepsTheContract == Spec => Fifos!SafeSpec
  <1>1. Init => Fifos!Init
    <2> SUFFICES ASSUME Init PROVE Fifos!Init
      OBVIOUS
    <2>1. queue = [f \in FlowIds |-> <<>>] /\ ~(pc \in {"class", "flow"})
      BY DEF Init
    <2>. QED
      BY <2>1 DEF Fifos!Init
  <1>2. ListInv /\ [Next]_vars => [Fifos!Next]_(Fifos!vars)
    BY NextIsFifoNext
  <1>3. ListInv /\ [Next]_vars => ListInv'
    BY NextListInv
  <1>4. Init => ListInv
    BY InitListInv
  <1>. QED
    BY <1>1, <1>2, <1>3, <1>4, PTL DEF Spec, Fifos!SafeSpec
=============================================================================
