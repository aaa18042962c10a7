---------------------------- MODULE FqCoDelProofs ----------------------------
(***************************************************************************)
(* Proofs about FqCoDel, for any traffic, number of flows, sizes, quantum  *)
(* and limits.                                                             *)
(*                                                                         *)
(* StatusMatchesLists is inductive with the types: DoEnqueue appends a flow*)
(* to the new ones only when its status says it is in no list, and DoDequeue*)
(* changes the status of a flow in the step that moves it. That no packet  *)
(* is stranded follows because a flow becomes inactive only while its queue*)
(* is empty.                                                               *)
(***************************************************************************)
EXTENDS FqCoDelProperties, ListProofs, TLAPS

\* The flow of a packet that arrives is one of FlowIds.
LEMMA ArrivalFlow ==
  ASSUME NEW ret \in Matches, ret # PF_NO_MATCH
  PROVE  ret % Flows \in FlowIds
  <1>1. ret \in Nat /\ Flows \in Nat \ {0}
    BY FqCoDelAssumption DEF PF_NO_MATCH
  <1>. QED
    BY <1>1 DEF FlowIds

\* The head of a list of flows is a flow, its tail a list of flows.
LEMMA HeadTail ==
  ASSUME NEW s \in Seq(FlowIds), s # <<>>
  PROVE  Head(s) \in FlowIds /\ Tail(s) \in Seq(FlowIds)
  OBVIOUS

LEMMA ServedFlowType ==
  ASSUME FqTypeOK, Serving
  PROVE  ServedFlow \in FlowIds
  BY HeadTail DEF FqTypeOK, Serving, ServedFlow

\* What is taken from a queue is the size of a packet; what is left is a queue,
\* and no queue gets packets.
LEMMA TakeHeadType ==
  ASSUME FqTypeOK, NEW f \in FlowIds, TakeHead(f)
  PROVE  /\ Head(queue[f]) \in Sizes /\ Head(queue[f]) \in Nat \ {0}
         /\ queue' \in [FlowIds -> Seq(Sizes)]
         /\ \A g \in FlowIds : queue'[g] # <<>> => queue[g] # <<>>
  <1>1. queue[f] \in Seq(Sizes) /\ queue[f] # <<>>
    BY DEF FqTypeOK, TakeHead
  <1>2. Head(queue[f]) \in Sizes /\ Tail(queue[f]) \in Seq(Sizes)
    BY <1>1
  <1>3. Head(queue[f]) \in Nat \ {0}
    BY <1>2, FqCoDelAssumption
  <1>4. queue' \in [FlowIds -> Seq(Sizes)]
    BY <1>2 DEF FqTypeOK, TakeHead
  <1>5. \A g \in FlowIds : queue'[g] # <<>> => queue[g] # <<>>
    BY <1>1 DEF FqTypeOK, TakeHead
  <1>. QED
    BY <1>2, <1>3, <1>4, <1>5
-----------------------------------------------------------------------------
LEMMA InitFqTypeOK == Init => FqTypeOK
  <1> SUFFICES ASSUME Init PROVE FqTypeOK
    OBVIOUS
  <1>1. queue \in [FlowIds -> Seq(Sizes)]
    BY DEF Init
  <1>. QED
    BY <1>1 DEF Init, FqTypeOK, Serving

\* DoEnqueue preserves the types.
LEMMA EnqueueType ==
  ASSUME FqTypeOK, NEW ret \in Matches, NEW s \in Sizes, Enqueue(ret, s)
  PROVE  FqTypeOK'
  <1> DEFINE f == ret % Flows
  <1>1. f \in FlowIds
    BY ArrivalFlow DEF Enqueue
  <1>2. /\ created' = IF f \in Elems(created) THEN created ELSE Append(created, f)
        /\ IF status[f] = "INACTIVE"
           THEN /\ status' = [status EXCEPT ![f] = "NEW_FLOW"]
                /\ deficit' = [deficit EXCEPT ![f] = Quantum]
                /\ newFlows' = Append(newFlows, f)
           ELSE UNCHANGED <<status, deficit, newFlows>>
        /\ queue' = IF Len(queue[f]) < MaxSize
                    THEN [queue EXCEPT ![f] = Append(@, s)] ELSE queue
    BY DEF Enqueue
  <1>3. oldFlows' = oldFlows /\ pc' \in {"idle", "overlimit"}
    BY DEF Enqueue
  <1> HIDE DEF f
  <1>4. created' \in Seq(FlowIds)
    <2>1. created \in Seq(FlowIds)
      BY DEF FqTypeOK
    <2>2. Append(created, f) \in Seq(FlowIds)
      BY <1>1, <2>1
    <2>. QED
      BY <1>2, <2>1, <2>2
  <1>5. newFlows' \in Seq(FlowIds)
    <2>1. newFlows \in Seq(FlowIds)
      BY DEF FqTypeOK
    <2>2. Append(newFlows, f) \in Seq(FlowIds)
      BY <1>1, <2>1
    <2>. QED
      BY <1>2, <2>1, <2>2
  <1>6. status' \in [FlowIds -> {"INACTIVE", "NEW_FLOW", "OLD_FLOW"}]
    BY <1>1, <1>2 DEF FqTypeOK
  <1>8. deficit' \in [FlowIds -> Int]
    <2>1. Quantum \in Int
      BY FqCoDelAssumption
    <2>. QED
      BY <1>1, <1>2, <2>1 DEF FqTypeOK
  <1>7. queue' \in [FlowIds -> Seq(Sizes)]
    <2>1. queue \in [FlowIds -> Seq(Sizes)]
      BY DEF FqTypeOK
    <2>2. Append(queue[f], s) \in Seq(Sizes)
      BY <1>1, <2>1
    <2>. QED
      BY <1>2, <2>1, <2>2
  <1>. QED
    BY <1>3, <1>4, <1>5, <1>6, <1>7, <1>8 DEF FqTypeOK, Serving

LEMMA NextFqTypeOK == FqTypeOK /\ [Next]_vars => FqTypeOK'
  <1> SUFFICES ASSUME FqTypeOK, [Next]_vars
               PROVE  FqTypeOK'
    OBVIOUS
  <1>. Quantum \in Int
    BY FqCoDelAssumption
  <1>1. CASE \E ret \in Matches, s \in Sizes : Enqueue(ret, s)
    BY <1>1, EnqueueType
  <1>2. CASE Dequeue \/ NoNewFlow \/ NoFlow
    BY <1>2 DEF FqTypeOK, Dequeue, NoNewFlow, NoFlow, Serving, flowVars
  <1>3. CASE FoundNew \/ FoundOld
    BY <1>3 DEF FqTypeOK, FoundNew, FoundOld, Serving, ServedFlow, flowVars
  <1>4. CASE FqCoDelDrop
    <2>1. PICK i \in DOMAIN created : drop'.flow = created[i]
      BY <1>4 DEF FqCoDelDrop
    <2>2. created[i] \in FlowIds
      BY DEF FqTypeOK
    <2>. QED
      BY <1>4, <2>1, <2>2 DEF FqTypeOK, FqCoDelDrop, flowVars, Serving
  <1>5. CASE DropHead
    <2>1. drop.flow \in FlowIds /\ pc = "drop"
      BY <1>5 DEF DropHead, FqTypeOK, Serving
    <2>2. CASE queue[drop.flow] = <<>>
      BY <1>5, <2>1, <2>2 DEF DropHead, FqTypeOK, flowVars, Serving
    <2>3. CASE queue[drop.flow] # <<>>
      <3>1. queue' \in [FlowIds -> Seq(Sizes)]
        BY <1>5, <2>1, <2>3, TakeHeadType DEF DropHead
      <3>2. /\ pc' \in {"drop", "idle"}
            /\ pc' = "drop" => drop'.flow \in FlowIds
        <4>1. \/ pc' = "idle"
              \/ pc' = "drop" /\ drop'.flow = drop.flow
          BY <1>5, <2>1, <2>3 DEF DropHead
        <4>. QED
          BY <4>1, <2>1
      <3>. QED
        BY <1>5, <3>1, <3>2 DEF DropHead, FqTypeOK, flowVars, Serving
    <2>. QED
      BY <2>2, <2>3
  <1>6. CASE NewToOld
    <2> DEFINE f == Head(newFlows)
    <2>1. f \in FlowIds /\ Tail(newFlows) \in Seq(FlowIds)
      BY <1>6, HeadTail DEF NewToOld, FqTypeOK, Serving
    <2>2. Append(oldFlows, f) \in Seq(FlowIds)
      <3>1. oldFlows \in Seq(FlowIds)
        BY DEF FqTypeOK
      <3>. QED
        BY <2>1, <3>1
    <2>3. /\ deficit' = [deficit EXCEPT ![f] = @ + Quantum]
          /\ status' = [status EXCEPT ![f] = "OLD_FLOW"]
          /\ oldFlows' = Append(oldFlows, f)
          /\ newFlows' = Tail(newFlows)
          /\ UNCHANGED <<created, queue, pc, drop>> /\ pc = "new"
      BY <1>6 DEF NewToOld
    <2> HIDE DEF f
    <2>4. deficit' \in [FlowIds -> Int]
      BY <2>1, <2>3 DEF FqTypeOK
    <2>. QED
      BY <2>1, <2>2, <2>3, <2>4 DEF FqTypeOK, Serving
  <1>7. CASE RotateOld
    <2> DEFINE f == Head(oldFlows)
    <2>1. f \in FlowIds /\ Rotate(oldFlows) \in Seq(FlowIds)
      BY <1>7, HeadTail, RotateElems DEF RotateOld, FqTypeOK, Serving
    <2>2. /\ deficit' = [deficit EXCEPT ![f] = @ + Quantum]
          /\ oldFlows' = Rotate(oldFlows)
          /\ UNCHANGED <<newFlows, status, created, queue, pc, drop>> /\ pc = "old"
      BY <1>7 DEF RotateOld
    <2> HIDE DEF f
    <2>3. deficit' \in [FlowIds -> Int]
      BY <2>1, <2>2 DEF FqTypeOK
    <2>. QED
      BY <2>1, <2>2, <2>3 DEF FqTypeOK, Serving
  <1>8. CASE CoDelDrop
    <2>1. queue' \in [FlowIds -> Seq(Sizes)]
      BY <1>8, ServedFlowType, TakeHeadType DEF CoDelDrop
    <2>. QED
      BY <1>8, <2>1 DEF CoDelDrop, FqTypeOK, flowVars, Serving, ServedFlow
  <1>9. CASE NewFlowEmpty
    <2>1. ServedFlow \in FlowIds /\ Tail(newFlows) \in Seq(FlowIds)
      BY <1>9, ServedFlowType, HeadTail DEF NewFlowEmpty, Serving, FqTypeOK
    <2>2. Append(oldFlows, ServedFlow) \in Seq(FlowIds)
      <3>1. oldFlows \in Seq(FlowIds)
        BY DEF FqTypeOK
      <3>. QED
        BY <2>1, <3>1
    <2>. QED
      BY <1>9, <2>1, <2>2 DEF NewFlowEmpty, FqTypeOK, Serving
  <1>10. CASE OldFlowEmpty
    <2>1. ServedFlow \in FlowIds /\ Tail(oldFlows) \in Seq(FlowIds)
      BY <1>10, ServedFlowType, HeadTail DEF OldFlowEmpty, Serving, FqTypeOK
    <2>. QED
      BY <1>10, <2>1 DEF OldFlowEmpty, FqTypeOK, Serving
  <1>11. CASE Serve
    <2>1. ServedFlow \in FlowIds
      BY <1>11, ServedFlowType DEF Serve
    <2>2. /\ queue' \in [FlowIds -> Seq(Sizes)]
          /\ Head(queue[ServedFlow]) \in Int
      BY <1>11, <2>1, TakeHeadType DEF Serve
    <2>3. deficit' \in [FlowIds -> Int]
      <3>1. deficit \in [FlowIds -> Int]
        BY DEF FqTypeOK
      <3>2. deficit[ServedFlow] - Head(queue[ServedFlow]) \in Int
        BY <2>1, <2>2, <3>1
      <3>3. deficit' = [deficit EXCEPT
                          ![ServedFlow] = deficit[ServedFlow] - Head(queue[ServedFlow])]
        BY <1>11, <2>1, <3>1 DEF Serve
      <3>. QED
        BY <3>1, <3>2, <3>3
    <2>. QED
      BY <1>11, <2>2, <2>3 DEF Serve, FqTypeOK, Serving
  <1>12. CASE UNCHANGED vars
    BY <1>12 DEF vars, flowVars, FqTypeOK, Serving, ServedFlow
  <1>. QED
    BY <1>1, <1>2, <1>3, <1>4, <1>5, <1>6, <1>7, <1>8, <1>9, <1>10, <1>11, <1>12
       DEF Next, DropStep, DequeueStep

\* Type correctness: the lists hold flows, the queues packets, and the list from
\* which DoDequeue is serving a flow is not empty.
THEOREM FqTypeCorrect == Spec => []FqTypeOK
  <1>1. Init => FqTypeOK
    BY InitFqTypeOK
  <1>2. FqTypeOK /\ [Next]_vars => FqTypeOK'
    BY NextFqTypeOK
  <1>. QED
    BY <1>1, <1>2, PTL DEF Spec
-----------------------------------------------------------------------------
\* What is inductive: the types, the agreement of statuses and lists, and the
\* reach of every packet.
FqListInv == FqTypeOK /\ StatusMatchesLists /\ FqNothingStranded

\* A step that touches neither the lists nor the statuses, and puts no packet in
\* an empty queue.
LEMMA SameLists ==
  ASSUME FqListInv, UNCHANGED <<newFlows, oldFlows, status>>,
         \A g \in FlowIds : queue'[g] # <<>> => queue[g] # <<>>
  PROVE  StatusMatchesLists' /\ FqNothingStranded'
  BY DEF FqListInv, StatusMatchesLists, FqNothingStranded

\* A new flow f becomes an old one.
LEMMA MoveLists ==
  ASSUME FqListInv, newFlows # <<>>, NEW f \in FlowIds, f = Head(newFlows),
         newFlows' = Tail(newFlows), oldFlows' = Append(oldFlows, f),
         status' = [status EXCEPT ![f] = "OLD_FLOW"], queue' = queue
  PROVE  StatusMatchesLists' /\ FqNothingStranded'
  <1>1. newFlows \in Seq(FlowIds) /\ oldFlows \in Seq(FlowIds)
    BY DEF FqListInv, FqTypeOK
  <1>2. status'[f] = "OLD_FLOW" /\ \A g \in FlowIds \ {f} : status'[g] = status[g]
    BY DEF FqListInv, FqTypeOK
  <1>3. /\ Elems(newFlows) = Elems(newFlows') \union {f}
        /\ Distinct(newFlows') /\ f \notin Elems(newFlows')
    BY <1>1, TailElems DEF FqListInv, StatusMatchesLists
  <1>4. f \notin Elems(oldFlows) /\ Distinct(oldFlows)
    BY <1>3 DEF FqListInv, StatusMatchesLists
  <1>5. Elems(oldFlows') = Elems(oldFlows) \union {f} /\ Distinct(oldFlows')
    BY <1>1, <1>4, AppendElems
  <1>6. ASSUME NEW g \in FlowIds
        PROVE  /\ g \in Elems(newFlows') <=> status'[g] = "NEW_FLOW"
               /\ g \in Elems(oldFlows') <=> status'[g] = "OLD_FLOW"
    <2>1. CASE g = f
      BY <2>1, <1>2, <1>3, <1>5
    <2>2. CASE g # f
      BY <2>2, <1>2, <1>3, <1>5 DEF FqListInv, StatusMatchesLists
    <2>. QED
      BY <2>1, <2>2
  <1>7. FqNothingStranded'
    BY <1>2 DEF FqListInv, FqNothingStranded
  <1>. QED
    BY <1>3, <1>5, <1>6, <1>7 DEF StatusMatchesLists

\* DoEnqueue puts a flow in the list of new flows only if it is in no list.
LEMMA EnqueueLists ==
  ASSUME FqListInv, NEW ret \in Matches, NEW s \in Sizes, Enqueue(ret, s)
  PROVE  StatusMatchesLists' /\ FqNothingStranded'
  <1> DEFINE f == ret % Flows
  <1>1. f \in FlowIds
    BY ArrivalFlow DEF Enqueue
  <1>2. /\ IF status[f] = "INACTIVE"
           THEN /\ status' = [status EXCEPT ![f] = "NEW_FLOW"]
                /\ deficit' = [deficit EXCEPT ![f] = Quantum]
                /\ newFlows' = Append(newFlows, f)
           ELSE UNCHANGED <<status, deficit, newFlows>>
        /\ queue' = IF Len(queue[f]) < MaxSize
                    THEN [queue EXCEPT ![f] = Append(@, s)] ELSE queue
        /\ oldFlows' = oldFlows
    BY DEF Enqueue
  <1> HIDE DEF f
  <1>. newFlows \in Seq(FlowIds)
    BY DEF FqListInv, FqTypeOK
  <1>3. StatusMatchesLists'
    <2>1. CASE status[f] = "INACTIVE"
      <3>1. status'[f] = "NEW_FLOW" /\ \A g \in FlowIds \ {f} : status'[g] = status[g]
        BY <1>1, <1>2, <2>1 DEF FqListInv, FqTypeOK
      <3>2. Distinct(newFlows) /\ f \notin Elems(newFlows) /\ f \notin Elems(oldFlows)
        BY <1>1, <2>1 DEF FqListInv, StatusMatchesLists
      <3>3. newFlows' = Append(newFlows, f)
        BY <1>2, <2>1
      <3>4. Elems(newFlows') = Elems(newFlows) \union {f} /\ Distinct(newFlows')
        BY <1>1, <3>2, <3>3, AppendElems
      <3>5. ASSUME NEW g \in FlowIds
            PROVE  /\ g \in Elems(newFlows') <=> status'[g] = "NEW_FLOW"
                   /\ g \in Elems(oldFlows') <=> status'[g] = "OLD_FLOW"
        <4>1. CASE g = f
          BY <4>1, <1>2, <3>1, <3>2, <3>4
        <4>2. CASE g # f
          BY <4>2, <1>2, <3>1, <3>4 DEF FqListInv, StatusMatchesLists
        <4>. QED
          BY <4>1, <4>2
      <3>. QED
        BY <1>2, <3>4, <3>5 DEF FqListInv, StatusMatchesLists
    <2>2. CASE status[f] # "INACTIVE"
      BY <1>2, <2>2 DEF FqListInv, StatusMatchesLists
    <2>. QED
      BY <2>1, <2>2
  <1>4. ASSUME NEW g \in FlowIds, queue'[g] # <<>>
        PROVE  status'[g] # "INACTIVE"
    <2>1. CASE g = f
      BY <2>1, <1>1, <1>2 DEF FqListInv, FqTypeOK
    <2>2. CASE g # f
      <3>1. queue'[g] = queue[g]
        BY <2>2, <1>2 DEF FqListInv, FqTypeOK
      <3>2. status'[g] = status[g]
        BY <2>2, <1>2 DEF FqListInv, FqTypeOK
      <3>. QED
        BY <1>4, <3>1, <3>2 DEF FqListInv, FqNothingStranded
    <2>. QED
      BY <2>1, <2>2
  <1>. QED
    BY <1>3, <1>4 DEF FqNothingStranded

LEMMA NextFqListInv == FqListInv /\ [Next]_vars => FqListInv'
  <1> SUFFICES ASSUME FqListInv, [Next]_vars
               PROVE  StatusMatchesLists' /\ FqNothingStranded'
    BY NextFqTypeOK DEF FqListInv
  <1>. FqTypeOK
    BY DEF FqListInv
  <1>1. CASE \E ret \in Matches, s \in Sizes : Enqueue(ret, s)
    BY <1>1, EnqueueLists
  <1>2. CASE Dequeue \/ FoundNew \/ NoNewFlow \/ NoFlow \/ FoundOld \/ FqCoDelDrop
    BY <1>2, SameLists DEF Dequeue, FoundNew, NoNewFlow, NoFlow, FoundOld,
                           FqCoDelDrop, flowVars
  <1>3. CASE DropHead
    <2>1. drop.flow \in FlowIds
      BY <1>3 DEF DropHead, FqTypeOK
    <2>2. queue' = queue \/ TakeHead(drop.flow)
      BY <1>3 DEF DropHead
    <2>. QED
      BY <1>3, <2>1, <2>2, TakeHeadType, SameLists DEF DropHead, flowVars
  <1>4. CASE NewToOld
    <2>1. Head(newFlows) \in FlowIds
      BY <1>4, HeadTail DEF NewToOld, FqTypeOK
    <2>. QED
      BY <1>4, <2>1, MoveLists DEF NewToOld
  <1>5. CASE RotateOld
    <2>1. /\ Elems(oldFlows') = Elems(oldFlows)
          /\ Distinct(oldFlows) => Distinct(oldFlows')
      BY <1>5, RotateElems DEF RotateOld, FqTypeOK
    <2>2. UNCHANGED <<newFlows, status, queue>>
      BY <1>5 DEF RotateOld
    <2>. QED
      BY <2>1, <2>2 DEF FqListInv, StatusMatchesLists, FqNothingStranded
  <1>6. CASE CoDelDrop
    <2>1. ServedFlow \in FlowIds
      BY <1>6, ServedFlowType DEF CoDelDrop
    <2>. QED
      BY <1>6, <2>1, TakeHeadType, SameLists DEF CoDelDrop, flowVars
  <1>7. CASE NewFlowEmpty
    <2>1. newFlows # <<>> /\ ServedFlow = Head(newFlows)
      BY <1>7 DEF NewFlowEmpty, FqTypeOK, ServedFlow
    <2>2. Head(newFlows) \in FlowIds
      BY <2>1, HeadTail DEF FqTypeOK
    <2>. QED
      BY <1>7, <2>1, <2>2, MoveLists DEF NewFlowEmpty
  <1>8. CASE OldFlowEmpty
    <2> DEFINE f == Head(oldFlows)
    <2>1. oldFlows # <<>> /\ ServedFlow = f /\ f \in FlowIds
      BY <1>8, HeadTail DEF OldFlowEmpty, FqTypeOK, ServedFlow
    <2>2. /\ oldFlows' = Tail(oldFlows) /\ queue[f] = <<>>
          /\ status' = [status EXCEPT ![f] = "INACTIVE"]
          /\ UNCHANGED <<newFlows, queue>>
      BY <1>8, <2>1 DEF OldFlowEmpty
    <2>3. /\ Elems(oldFlows) = Elems(oldFlows') \union {f}
          /\ Distinct(oldFlows') /\ f \notin Elems(oldFlows')
      BY <2>1, <2>2, TailElems DEF FqListInv, FqTypeOK, StatusMatchesLists
    <2> HIDE DEF f
    <2>4. status'[f] = "INACTIVE" /\ \A g \in FlowIds \ {f} : status'[g] = status[g]
      BY <2>1, <2>2 DEF FqTypeOK
    <2>5. ASSUME NEW g \in FlowIds
          PROVE  /\ g \in Elems(newFlows') <=> status'[g] = "NEW_FLOW"
                 /\ g \in Elems(oldFlows') <=> status'[g] = "OLD_FLOW"
      <3>1. CASE g = f
        BY <3>1, <2>2, <2>3, <2>4 DEF FqListInv, StatusMatchesLists
      <3>2. CASE g # f
        BY <3>2, <2>2, <2>3, <2>4 DEF FqListInv, StatusMatchesLists
      <3>. QED
        BY <3>1, <3>2
    <2>6. FqNothingStranded'
      BY <2>2, <2>4 DEF FqListInv, FqNothingStranded
    <2>. QED
      BY <2>2, <2>3, <2>5, <2>6 DEF FqListInv, StatusMatchesLists
  <1>9. CASE Serve
    <2>1. ServedFlow \in FlowIds
      BY <1>9, ServedFlowType DEF Serve
    <2>. QED
      BY <1>9, <2>1, TakeHeadType, SameLists DEF Serve
  <1>10. CASE UNCHANGED vars
    BY <1>10, SameLists DEF vars, flowVars
  <1>. QED
    BY <1>1, <1>2, <1>3, <1>4, <1>5, <1>6, <1>7, <1>8, <1>9, <1>10
       DEF Next, DropStep, DequeueStep

LEMMA InitFqListInv == Init => FqListInv
  <1> SUFFICES ASSUME Init PROVE StatusMatchesLists /\ FqNothingStranded
    BY InitFqTypeOK DEF FqListInv
  <1>. QED
    BY EmptyElems DEF Init, StatusMatchesLists, FqNothingStranded

\* The status of a flow always names the list it is in: no sequence of enqueues,
\* dequeues and drops puts a flow in two lists or twice in one.
THEOREM StatusAlwaysMatches == Spec => []StatusMatchesLists
  <1>1. Init => FqListInv
    BY InitFqListInv
  <1>2. FqListInv /\ [Next]_vars => FqListInv'
    BY NextFqListInv
  <1>3. FqListInv => StatusMatchesLists
    BY DEF FqListInv
  <1>. QED
    BY <1>1, <1>2, <1>3, PTL DEF Spec

\* Every packet the queue disc holds belongs to a flow that is in a list.
THEOREM FqNeverStrands == Spec => []FqNothingStranded
  <1>1. Init => FqListInv
    BY InitFqListInv
  <1>2. FqListInv /\ [Next]_vars => FqListInv'
    BY NextFqListInv
  <1>3. FqListInv => FqNothingStranded
    BY DEF FqListInv
  <1>. QED
    BY <1>1, <1>2, <1>3, PTL DEF Spec
-----------------------------------------------------------------------------
\* The bounds for the deficit of one flow.
WithinBounds(d) == d <= Quantum /\ (d < 0 => \E s \in Sizes : d > -s)

LEMMA BoundsDef ==
  FqDeficitsBounded <=> \A f \in FlowIds : WithinBounds(deficit[f])
  BY DEF FqDeficitsBounded, WithinBounds

\* A flow without credit that is granted a quantum stays within the bounds.
LEMMA GrantBounds ==
  ASSUME NEW d \in Int, d <= 0, WithinBounds(d)
  PROVE  WithinBounds(d + Quantum)
  <1>1. Quantum \in Nat
    BY FqCoDelAssumption
  <1>2. d + Quantum <= Quantum
    BY <1>1
  <1>3. ASSUME d + Quantum < 0
        PROVE  \E s \in Sizes : d + Quantum > -s
    <2>1. d < 0
      BY <1>1, <1>3
    <2>2. PICK s \in Sizes : d > -s
      BY <2>1 DEF WithinBounds
    <2>3. s \in Int
      BY FqCoDelAssumption
    <2>. QED
      BY <1>1, <2>2, <2>3
  <1>. QED
    BY <1>2, <1>3 DEF WithinBounds

\* A step that changes the deficit of one flow to a value within the bounds.
LEMMA OneDeficit ==
  ASSUME FqTypeOK, FqDeficitsBounded, NEW f \in FlowIds, NEW d, WithinBounds(d),
         deficit' = [deficit EXCEPT ![f] = d]
  PROVE  FqDeficitsBounded'
  <1>1. \A g \in FlowIds : deficit'[g] = d \/ deficit'[g] = deficit[g]
    BY DEF FqTypeOK
  <1>2. \A g \in FlowIds : WithinBounds(deficit'[g])
    BY <1>1, BoundsDef
  <1>. QED
    BY <1>2 DEF FqDeficitsBounded, WithinBounds

LEMMA SameDeficits ==
  ASSUME FqDeficitsBounded, deficit' = deficit
  PROVE  FqDeficitsBounded'
  BY DEF FqDeficitsBounded

LEMMA NextDeficits ==
  ASSUME FqTypeOK, FqDeficitsBounded, [Next]_vars
  PROVE  FqDeficitsBounded'
  <1>. deficit \in [FlowIds -> Int] /\ Quantum \in Nat
    BY FqCoDelAssumption DEF FqTypeOK
  <1>1. CASE \E ret \in Matches, s \in Sizes : Enqueue(ret, s)
    <2>1. PICK ret \in Matches, s \in Sizes : Enqueue(ret, s)
      BY <1>1
    <2> DEFINE f == ret % Flows
    <2>2. f \in FlowIds
      BY <2>1, ArrivalFlow DEF Enqueue
    <2>3. deficit' = deficit \/ deficit' = [deficit EXCEPT ![f] = Quantum]
      BY <2>1 DEF Enqueue
    <2>4. WithinBounds(Quantum)
      BY DEF WithinBounds
    <2> HIDE DEF f
    <2>. QED
      BY <2>2, <2>3, <2>4, OneDeficit, SameDeficits
  <1>2. CASE NewToOld
    <2> DEFINE f == Head(newFlows)
    <2>1. f \in FlowIds
      BY <1>2, HeadTail DEF NewToOld, FqTypeOK
    <2>2. deficit[f] <= 0 /\ deficit' = [deficit EXCEPT ![f] = @ + Quantum]
      BY <1>2 DEF NewToOld
    <2> HIDE DEF f
    <2>3. WithinBounds(deficit[f] + Quantum)
      BY <2>1, <2>2, GrantBounds, BoundsDef
    <2>. QED
      BY <2>1, <2>2, <2>3, OneDeficit
  <1>3. CASE RotateOld
    <2> DEFINE f == Head(oldFlows)
    <2>1. f \in FlowIds
      BY <1>3, HeadTail DEF RotateOld, FqTypeOK
    <2>2. deficit[f] <= 0 /\ deficit' = [deficit EXCEPT ![f] = @ + Quantum]
      BY <1>3 DEF RotateOld
    <2> HIDE DEF f
    <2>3. WithinBounds(deficit[f] + Quantum)
      BY <2>1, <2>2, GrantBounds, BoundsDef
    <2>. QED
      BY <2>1, <2>2, <2>3, OneDeficit
  <1>4. CASE Serve
    <2> DEFINE f == ServedFlow
               s == Head(queue[ServedFlow])
    <2>1. f \in FlowIds /\ deficit[f] > 0
      BY <1>4, ServedFlowType DEF Serve, FqTypeOK
    <2>2. s \in Sizes /\ s \in Nat
      BY <1>4, <2>1, TakeHeadType DEF Serve
    <2>3. deficit' = [deficit EXCEPT ![f] = @ - s]
      BY <1>4 DEF Serve
    <2>4. WithinBounds(deficit[f])
      BY <2>1, BoundsDef
    <2> HIDE DEF f, s
    <2>5. deficit[f] - s > -s /\ deficit[f] - s <= deficit[f]
      BY <2>1, <2>2
    <2>6. WithinBounds(deficit[f] - s)
      BY <2>1, <2>2, <2>4, <2>5 DEF WithinBounds
    <2>. QED
      BY <2>1, <2>3, <2>6, OneDeficit
  <1>5. CASE Dequeue \/ FoundNew \/ NoNewFlow \/ NoFlow \/ FoundOld \/ FqCoDelDrop
             \/ DropHead \/ CoDelDrop \/ NewFlowEmpty \/ OldFlowEmpty
    BY <1>5, SameDeficits
       DEF Dequeue, FoundNew, NoNewFlow, NoFlow, FoundOld, FqCoDelDrop, DropHead,
           CoDelDrop, NewFlowEmpty, OldFlowEmpty, flowVars
  <1>6. CASE UNCHANGED vars
    BY <1>6, SameDeficits DEF vars, flowVars
  <1>. QED
    BY <1>1, <1>2, <1>3, <1>4, <1>5, <1>6 DEF Next, DropStep, DequeueStep

\* Credit never exceeds one quantum and debt never reaches a packet's size, for
\* any sizes and any quantum, however often a flow goes idle and comes back.
THEOREM FqDeficitsStayBounded == Spec => []FqDeficitsBounded
  <1> DEFINE Inv == FqTypeOK /\ FqDeficitsBounded
  <1>1. Init => Inv
    <2> SUFFICES ASSUME Init PROVE FqDeficitsBounded
      BY InitFqTypeOK
    <2>1. Quantum \in Nat
      BY FqCoDelAssumption
    <2>. QED
      BY <2>1 DEF Init, FqDeficitsBounded
  <1>2. Inv /\ [Next]_vars => Inv'
    BY NextFqTypeOK, NextDeficits
  <1>3. Inv => FqDeficitsBounded
    OBVIOUS
  <1> HIDE DEF Inv
  <1>. QED
    BY <1>1, <1>2, <1>3, PTL DEF Spec
-----------------------------------------------------------------------------
\* The limit. What is there is counted flow by flow: a flow has packets only once
\* it was created, and is counted once. What a batch of drops took and what it
\* left add up to what the flow had, and the batch ends when half of that is gone:
\* so the flow does not run empty.
FqCountInv == /\ FqTypeOK
              /\ Distinct(created)
              /\ \A f \in FlowIds : queue[f] # <<>> => f \in Elems(created)

FqDropInv == /\ FqCountInv
             /\ NPackets <= MaxSize + 1
             /\ pc \notin {"overlimit", "drop"} => NPackets <= MaxSize
             /\ pc = "overlimit" => NPackets > MaxSize
             /\ pc = "drop" => /\ drop \in [flow: FlowIds, len: Nat, count: Nat, threshold: Int]
                               /\ Bytes(drop.flow) > 0
                               /\ 2 * drop.threshold <= Bytes(drop.flow) + drop.len
             /\ pc # "crashed"

LEMMA NPacketsDef ==
  /\ NPackets = Sum(Lens(created, queue))
  /\ NPackets' = Sum(Lens(created', queue'))
  /\ NPacketsNext = Sum(Lens(created', queue'))
  BY DEF NPackets, NPacketsNext, Lens

LEMMA CountTypes ==
  ASSUME FqCountInv
  PROVE  /\ Queues(FlowIds, Sizes, created, queue)
         /\ NPackets \in Int
         /\ \A f \in FlowIds : queue[f] \in Seq(Sizes) /\ Bytes(f) \in Int
  <1>1. Queues(FlowIds, Sizes, created, queue) /\ \A f \in FlowIds : queue[f] \in Seq(Sizes)
    BY DEF FqCountInv, FqTypeOK, Queues
  <1>2. NPackets \in Int
    BY <1>1, LensType, NPacketsDef
  <1>3. \A f \in FlowIds : Bytes(f) \in Int
    BY <1>1, FqCoDelAssumption, PositiveSums DEF Bytes
  <1>. QED
    BY <1>1, <1>2, <1>3

\* A packet less.
LEMMA CountTake ==
  ASSUME FqCountInv, NEW f \in FlowIds, TakeHead(f), created' = created
  PROVE  /\ NPackets' = NPackets - 1
         /\ Distinct(created')
         /\ \A g \in FlowIds : queue'[g] # <<>> => g \in Elems(created')
         /\ Sum(queue'[f]) = Bytes(f) - Head(queue[f])
  <1>. FqTypeOK
    BY DEF FqCountInv
  <1>1. /\ queue[f] # <<>> /\ queue' = [queue EXCEPT ![f] = Tail(queue[f])]
        /\ f \in Elems(created) /\ Distinct(created)
    BY DEF FqCountInv, TakeHead
  <1>2. Queues(FlowIds, Sizes, created, queue)
    BY CountTypes
  <1>3. Sum(Lens(created, [queue EXCEPT ![f] = Tail(queue[f])])) = Sum(Lens(created, queue)) - 1
    <2>1. queue[f] # <<>> /\ Distinct(created) /\ f \in Elems(created)
      BY <1>1
    <2>. QED
      BY <1>2, <2>1, LensTake
  <1>4. NPackets' = NPackets - 1
    BY <1>1, <1>3, NPacketsDef
  <1>5. \A g \in FlowIds : queue'[g] # <<>> => g \in Elems(created')
    BY TakeHeadType DEF FqCountInv
  <1>6. Sum(queue'[f]) = Bytes(f) - Head(queue[f])
    <2>1. queue'[f] = Tail(queue[f]) /\ queue[f] \in Seq(Sizes)
      BY <1>1 DEF FqTypeOK
    <2>2. Sum(Tail(queue[f])) = Sum(queue[f]) - Head(queue[f])
      BY <1>1, <2>1, FqCoDelAssumption, PositiveSums
    <2>. QED
      BY <2>1, <2>2 DEF Bytes
  <1>. QED
    BY <1>1, <1>4, <1>5, <1>6

\* DoEnqueue creates a flow before it gives it a packet.
LEMMA CountEnqueue ==
  ASSUME FqCountInv, NEW ret \in Matches, NEW s \in Sizes, Enqueue(ret, s)
  PROVE  /\ NPackets' \in {NPackets, NPackets + 1}
         /\ Distinct(created')
         /\ \A g \in FlowIds : queue'[g] # <<>> => g \in Elems(created')
  <1> DEFINE f == ret % Flows
             c == created'
  <1>1. /\ f \in FlowIds
        /\ c = IF f \in Elems(created) THEN created ELSE Append(created, f)
        /\ queue' = IF Len(queue[f]) < MaxSize
                    THEN [queue EXCEPT ![f] = Append(queue[f], s)] ELSE queue
    BY ArrivalFlow DEF Enqueue
  <1> HIDE DEF f
  <1>2. /\ Queues(FlowIds, Sizes, created, queue) /\ created \in Seq(FlowIds)
        /\ Distinct(created) /\ queue \in [FlowIds -> Seq(Sizes)]
        /\ \A g \in FlowIds : queue[g] # <<>> => g \in Elems(created)
    BY CountTypes DEF FqCountInv, FqTypeOK
  <1>3. /\ c \in Seq(FlowIds) /\ Distinct(c) /\ f \in Elems(c)
        /\ Elems(created) \subseteq Elems(c)
        /\ Sum(Lens(c, queue)) = Sum(Lens(created, queue))
    <2>1. CASE f \in Elems(created)
      BY <1>1, <1>2, <2>1
    <2>2. CASE f \notin Elems(created)
      <3>1. c = Append(created, f) /\ queue[f] = <<>>
        BY <1>1, <1>2, <2>2
      <3>2. Elems(c) = Elems(created) \union {f} /\ Distinct(c) /\ c \in Seq(FlowIds)
        BY <1>1, <1>2, <2>2, <3>1, AppendElems
      <3>3. Sum(Lens(Append(created, f), queue)) = Sum(Lens(created, queue))
        BY <1>1, <1>2, <3>1, LensOneMore
      <3>. QED
        BY <3>1, <3>2, <3>3
    <2>. QED
      BY <2>1, <2>2
  <1>4. NPackets' = Sum(Lens(c, queue'))
    BY NPacketsDef
  <1> HIDE DEF c
  <1>5. NPackets' \in {NPackets, NPackets + 1}
    <2>1. CASE queue' = queue
      BY <1>3, <1>4, <2>1, NPacketsDef
    <2>2. CASE queue' = [queue EXCEPT ![f] = Append(queue[f], s)]
      <3>1. Queues(FlowIds, Sizes, c, queue)
        BY <1>2, <1>3 DEF Queues
      <3>2. Sum(Lens(c, [queue EXCEPT ![f] = Append(queue[f], s)])) = Sum(Lens(c, queue)) + 1
        BY <1>3, <3>1, LensGive
      <3>. QED
        BY <1>3, <1>4, <2>2, <3>2, NPacketsDef
    <2>. QED
      BY <1>1, <2>1, <2>2
  <1>6. \A g \in FlowIds : queue'[g] # <<>> => g \in Elems(c)
    <2>1. \A g \in FlowIds : g # f => queue'[g] = queue[g]
      BY <1>1, <1>2
    <2>. QED
      BY <1>2, <1>3, <2>1
  <1>. QED
    BY <1>3, <1>5, <1>6 DEF c

\* The fattest flow has something to drop when the queue disc is over its limit.
LEMMA FattestHasBytes ==
  ASSUME FqCountInv, NPackets > MaxSize, NEW i \in DOMAIN created,
         \A j \in DOMAIN created : Bytes(created[j]) <= Bytes(created[i])
  PROVE  created[i] \in FlowIds /\ Bytes(created[i]) > 0
  <1>1. NPackets # 0
    BY CountTypes, FqCoDelAssumption
  <1>2. PICK f \in Elems(created) : queue[f] # <<>>
    BY <1>1, CountTypes, LensZero, NPacketsDef
  <1>3. PICK j \in DOMAIN created : f = created[j]
    BY DEF Elems
  <1>4. f \in FlowIds /\ created[i] \in FlowIds
    BY <1>3 DEF FqCountInv, FqTypeOK
  <1>5. Bytes(f) > 0
    <2>1. queue[f] \in Seq(Sizes)
      BY <1>4, CountTypes
    <2>. QED
      BY <1>2, <2>1, FqCoDelAssumption, PositiveSums DEF Bytes
  <1>. QED
    BY <1>3, <1>4, <1>5, CountTypes

LEMMA NextFqDropInv == FqDropInv /\ [Next]_vars => FqDropInv'
  <1> SUFFICES ASSUME FqDropInv, [Next]_vars
               PROVE  FqDropInv'
    OBVIOUS
  <1>. FqTypeOK /\ FqCountInv /\ FqTypeOK' /\ MaxSize \in Nat /\ NPackets \in Int
    BY NextFqTypeOK, CountTypes, FqCoDelAssumption DEF FqDropInv, FqCountInv
  <1>1. CASE \E ret \in Matches, s \in Sizes : Enqueue(ret, s)
    <2>1. PICK ret \in Matches, s \in Sizes : Enqueue(ret, s)
      BY <1>1
    <2>2. FqCountInv' /\ NPackets' \in {NPackets, NPackets + 1}
      BY <2>1, CountEnqueue DEF FqCountInv
    <2>3. pc = "idle" /\ pc' = IF NPackets' > MaxSize THEN "overlimit" ELSE "idle"
      BY <2>1, NPacketsDef DEF Enqueue
    <2>4. NPackets <= MaxSize
      BY <2>3 DEF FqDropInv
    <2>. QED
      BY <2>2, <2>3, <2>4 DEF FqDropInv
  <1>2. CASE FqCoDelDrop
    <2>1. PICK i \in DOMAIN created :
            /\ \A j \in DOMAIN created : Bytes(created[j]) <= Bytes(created[i])
            /\ drop' = [flow |-> created[i], len |-> 0, count |-> 0,
                        threshold |-> Bytes(created[i]) \div 2]
      BY <1>2 DEF FqCoDelDrop
    <2>2. /\ pc = "overlimit" /\ pc' = "drop" /\ created' = created /\ queue' = queue
      BY <1>2 DEF FqCoDelDrop
    <2>3. NPackets > MaxSize /\ NPackets <= MaxSize + 1
      BY <2>2 DEF FqDropInv
    <2>4. NPackets' = NPackets /\ FqCountInv'
      BY <2>2, NPacketsDef DEF FqCountInv
    <2> DEFINE f == created[i]
               b == Bytes(f)
    <2>5. f \in FlowIds /\ b > 0 /\ b \in Int
      BY <2>1, <2>3, FattestHasBytes, CountTypes
    <2>6. 2 * (b \div 2) <= b /\ b \div 2 \in Int
      BY <2>5
    <2>7. /\ drop'.flow = f /\ drop'.len = 0 /\ drop'.threshold = b \div 2
          /\ drop' \in [flow: FlowIds, len: Nat, count: Nat, threshold: Int]
      BY <2>1, <2>5, <2>6
    <2>8. Bytes(drop.flow)' = b
      BY <2>2, <2>7 DEF Bytes
    <2> HIDE DEF b, f
    <2>. QED
      BY <2>2, <2>3, <2>4, <2>5, <2>6, <2>7, <2>8 DEF FqDropInv
  <1>3. CASE DropHead
    <2> DEFINE f == drop.flow
               h == Head(queue[f])
               b == Bytes(f)
    <2>1. /\ pc = "drop" /\ created' = created
          /\ drop \in [flow: FlowIds, len: Nat, count: Nat, threshold: Int]
          /\ b > 0 /\ 2 * drop.threshold <= b + drop.len
          /\ NPackets <= MaxSize + 1
      BY <1>3 DEF DropHead, FqDropInv
    <2>2. /\ f \in FlowIds /\ drop.len \in Nat /\ drop.count \in Nat /\ drop.threshold \in Int
          /\ b \in Int
      BY <2>1, CountTypes
    <2>3. queue[f] # <<>>
      <3>1. queue[f] = <<>> => b = 0
        BY SumEmpty DEF Bytes
      <3>. QED
        BY <2>1, <2>2, <3>1
    <2>4. /\ TakeHead(f)
          /\ \/ /\ drop.len + h < drop.threshold
                /\ drop' = [flow |-> f, len |-> drop.len + h, count |-> drop.count + 1,
                            threshold |-> drop.threshold]
                /\ pc' = pc
             \/ pc' = "idle"
      BY <1>3, <2>3 DEF DropHead
    <2>5. h \in Nat /\ Sum(queue'[f]) = b - h /\ NPackets' = NPackets - 1 /\ FqCountInv'
      BY <2>1, <2>2, <2>4, TakeHeadType, CountTake DEF FqCountInv
    <2>6. NPackets' <= MaxSize
      BY <2>1, <2>5
    <2>7. CASE pc' = "idle"
      BY <2>5, <2>6, <2>7 DEF FqDropInv
    <2>8. CASE /\ drop.len + h < drop.threshold
               /\ drop' = [flow |-> f, len |-> drop.len + h, count |-> drop.count + 1,
                           threshold |-> drop.threshold]
               /\ pc' = pc
      <3>1. /\ drop'.flow = f /\ drop'.len = drop.len + h /\ drop'.threshold = drop.threshold
            /\ drop' \in [flow: FlowIds, len: Nat, count: Nat, threshold: Int]
        BY <2>2, <2>5, <2>8
      <3>2. Bytes(drop.flow)' = b - h
        BY <2>5, <3>1 DEF Bytes
      <3> HIDE DEF f, h, b
      <3>3. b - h > 0 /\ 2 * drop.threshold <= (b - h) + (drop.len + h)
        BY <2>1, <2>2, <2>5, <2>8
      <3>. QED
        BY <2>1, <2>5, <2>6, <2>8, <3>1, <3>2, <3>3 DEF FqDropInv
    <2>. QED
      BY <2>4, <2>7, <2>8
  <1>4. CASE CoDelDrop \/ Serve
    <2>1. /\ TakeHead(ServedFlow) /\ created' = created /\ ServedFlow \in FlowIds
          /\ pc \notin {"overlimit", "drop"} /\ pc' \notin {"overlimit", "drop", "crashed"}
      BY <1>4, ServedFlowType DEF CoDelDrop, Serve, Serving
    <2>2. NPackets' = NPackets - 1 /\ FqCountInv'
      BY <2>1, CountTake DEF FqCountInv
    <2>3. NPackets <= MaxSize
      BY <2>1 DEF FqDropInv
    <2>. QED
      BY <2>1, <2>2, <2>3 DEF FqDropInv
  <1>5. CASE ~ \/ \E ret \in Matches, s \in Sizes : Enqueue(ret, s)
               \/ FqCoDelDrop \/ DropHead \/ CoDelDrop \/ Serve
    <2>1. /\ created' = created /\ queue' = queue
          /\ \/ /\ pc' \notin {"overlimit", "drop", "crashed"}
                /\ pc \notin {"overlimit", "drop"}
             \/ pc' = pc /\ drop' = drop
      BY <1>5 DEF Next, DropStep, DequeueStep, Dequeue, NewToOld, FoundNew, NoNewFlow,
                  RotateOld, FoundOld, NoFlow, NewFlowEmpty, OldFlowEmpty, vars
    <2>2. NPackets' = NPackets /\ FqCountInv'
      BY <2>1, NPacketsDef DEF FqCountInv
    <2>. QED
      BY <2>1, <2>2 DEF FqDropInv, Bytes
  <1>. QED
    BY <1>1, <1>2, <1>3, <1>4, <1>5

\* Between calls FqCoDel holds at most MaxSize packets, and a batch of drops never
\* dereferences the null packet, whatever the limit, the batch size, the number of
\* flows and the sizes of the packets are.
THEOREM FqLimitIsKept == Spec => []FqWithinLimit
  <1>1. Init => FqDropInv
    <2> SUFFICES ASSUME Init PROVE FqDropInv
      OBVIOUS
    <2>1. /\ created = <<>> /\ pc = "idle" /\ \A f \in FlowIds : queue[f] = <<>>
      BY DEF Init
    <2>2. FqCountInv
      BY <2>1, InitFqTypeOK, EmptyElems DEF FqCountInv
    <2>3. NPackets = 0
      BY <2>1, <2>2, CountTypes, LensZero, EmptyElems, NPacketsDef
    <2>. QED
      BY <2>1, <2>2, <2>3, FqCoDelAssumption DEF FqDropInv
  <1>2. FqDropInv /\ [Next]_vars => FqDropInv'
    BY NextFqDropInv
  <1>3. FqDropInv => FqWithinLimit
    BY DEF FqDropInv, FqWithinLimit
  <1>. QED
    BY <1>1, <1>2, <1>3, PTL DEF Spec
-----------------------------------------------------------------------------
\* The refinement of FlowFifos.
Dequeuing == pc \in {"new", "old", "serveNew", "serveOld"}

LEMMA FifoStutter ==
  ASSUME queue' = queue, Dequeuing' <=> Dequeuing
  PROVE  UNCHANGED Fifos!vars
  <1>1. (pc \in {"new", "old", "serveNew", "serveOld"})'
          = (pc \in {"new", "old", "serveNew", "serveOld"})
    BY DEF Dequeuing
  <1>. QED
    BY <1>1, Zenon DEF Fifos!vars

LEMMA FifoDropHead ==
  ASSUME NEW f \in FlowIds, TakeHead(f), Dequeuing' <=> Dequeuing
  PROVE  Fifos!DropHead(f)
  <1>1. (pc \in {"new", "old", "serveNew", "serveOld"})'
          = (pc \in {"new", "old", "serveNew", "serveOld"})
    BY DEF Dequeuing
  <1>. QED
    BY <1>1, Zenon DEF Fifos!DropHead, TakeHead

\* DoDequeue finds no flow only when there is no packet at all.
LEMMA NoFlowNoPacket ==
  ASSUME FqListInv, NoFlow
  PROVE  \A f \in FlowIds : queue[f] = <<>>
  <1> SUFFICES ASSUME NEW f \in FlowIds PROVE queue[f] = <<>>
    OBVIOUS
  <1>1. newFlows = <<>> /\ oldFlows = <<>>
    BY DEF FqListInv, FqTypeOK, NoFlow
  <1>2. status[f] \in {"INACTIVE", "NEW_FLOW", "OLD_FLOW"}
    BY DEF FqListInv, FqTypeOK
  <1>3. status[f] = "INACTIVE"
    BY <1>1, <1>2, EmptyElems DEF FqListInv, StatusMatchesLists
  <1>. QED
    BY <1>3 DEF FqListInv, FqNothingStranded

LEMMA NextIsFifoNext ==
  ASSUME FqListInv, [Next]_vars
  PROVE  [Fifos!Next]_(Fifos!vars)
  <1>. FqTypeOK
    BY DEF FqListInv
  <1>1. CASE \E ret \in Matches, s \in Sizes : Enqueue(ret, s)
    <2>1. PICK ret \in Matches, s \in Sizes : Enqueue(ret, s)
      BY <1>1
    <2> DEFINE f == ret % Flows
    <2>2. /\ f \in FlowIds /\ ~Dequeuing /\ ~Dequeuing'
          /\ \/ queue' = queue
             \/ queue' = [queue EXCEPT ![f] = Append(@, s)]
      BY <2>1, ArrivalFlow DEF Enqueue, Dequeuing
    <2> HIDE DEF f
    <2>3. CASE queue' = queue
      BY <2>2, <2>3, FifoStutter
    <2>4. CASE queue' = [queue EXCEPT ![f] = Append(@, s)]
      <3>1. Fifos!Accept(f, s)
        BY <2>2, <2>4 DEF Fifos!Accept, Dequeuing
      <3>. QED
        BY <2>2, <3>1, Zenon DEF Fifos!Next
    <2>. QED
      BY <2>2, <2>3, <2>4
  <1>2. CASE FqCoDelDrop \/ (DropHead /\ queue[drop.flow] = <<>>)
    <2>1. queue' = queue /\ ~Dequeuing /\ ~Dequeuing'
      BY <1>2 DEF FqCoDelDrop, DropHead, Dequeuing
    <2>. QED
      BY <2>1, FifoStutter
  <1>3. CASE DropHead /\ queue[drop.flow] # <<>>
    <2>1. drop.flow \in FlowIds
      BY <1>3 DEF DropHead, FqTypeOK
    <2>2. TakeHead(drop.flow) /\ ~Dequeuing /\ ~Dequeuing'
      BY <1>3 DEF DropHead, Dequeuing
    <2>3. Fifos!DropHead(drop.flow)
      BY <2>1, <2>2, FifoDropHead
    <2>. QED
      BY <2>1, <2>3, Zenon DEF Fifos!Next
  <1>4. CASE Dequeue
    <2>1. ~Dequeuing /\ Dequeuing' /\ queue' = queue
      BY <1>4 DEF Dequeue, Dequeuing
    <2>2. Fifos!Call
      BY <2>1 DEF Fifos!Call, Dequeuing
    <2>. QED
      BY <2>2, Zenon DEF Fifos!Next
  <1>5. CASE NoFlow
    <2>1. Dequeuing /\ ~Dequeuing' /\ queue' = queue
      BY <1>5 DEF NoFlow, Dequeuing
    <2>2. \A f \in FlowIds : queue[f] = <<>>
      BY <1>5, NoFlowNoPacket
    <2>3. Fifos!ReturnNothing
      BY <2>1, <2>2 DEF Fifos!ReturnNothing, Dequeuing
    <2>. QED
      BY <2>3, Zenon DEF Fifos!Next
  <1>6. CASE NewToOld \/ FoundNew \/ NoNewFlow \/ RotateOld \/ FoundOld
             \/ NewFlowEmpty \/ OldFlowEmpty
    <2>1. queue' = queue /\ Dequeuing /\ Dequeuing'
      BY <1>6 DEF NewToOld, FoundNew, NoNewFlow, RotateOld, FoundOld, NewFlowEmpty,
                  OldFlowEmpty, Dequeuing
    <2>. QED
      BY <2>1, FifoStutter
  <1>7. CASE CoDelDrop
    <2>1. TakeHead(ServedFlow) /\ ServedFlow \in FlowIds /\ (Dequeuing' <=> Dequeuing)
      BY <1>7, ServedFlowType DEF CoDelDrop, Dequeuing
    <2>2. Fifos!DropHead(ServedFlow)
      BY <2>1, FifoDropHead
    <2>. QED
      BY <2>1, <2>2, Zenon DEF Fifos!Next
  <1>8. CASE Serve
    <2>1. TakeHead(ServedFlow) /\ ServedFlow \in FlowIds
      BY <1>8, ServedFlowType DEF Serve
    <2>2. Dequeuing /\ ~Dequeuing'
      BY <1>8 DEF Serve, Serving, Dequeuing
    <2>3. Fifos!Deliver(ServedFlow)
      BY <2>1, <2>2 DEF Fifos!Deliver, TakeHead, Dequeuing
    <2>. QED
      BY <2>1, <2>3, Zenon DEF Fifos!Next
  <1>9. CASE UNCHANGED vars
    <2>1. queue' = queue /\ pc' = pc
      BY <1>9 DEF vars
    <2>. QED
      BY <2>1, FifoStutter DEF Dequeuing
  <1>. QED
    BY <1>1, <1>2, <1>3, <1>4, <1>5, <1>6, <1>7, <1>8, <1>9
       DEF Next, DropStep, DequeueStep

\* FqCoDel does nothing that the contract of a classful queue disc forbids: every
\* flow is a FIFO, and DoDequeue returns null only when there is no packet at all.
\* (That DoDequeue returns, the contract's fairness, is left to model checking.)
THEOREM FqKeepsTheContract == Spec => Fifos!SafeSpec
  <1>1. Init => Fifos!Init
    <2> SUFFICES ASSUME Init PROVE Fifos!Init
      OBVIOUS
    <2>1. /\ queue = [f \in FlowIds |-> <<>>]
          /\ ~(pc \in {"new", "old", "serveNew", "serveOld"})
      BY DEF Init
    <2>. QED
      BY <2>1 DEF Fifos!Init
  <1>2. FqListInv /\ [Next]_vars => [Fifos!Next]_(Fifos!vars)
    BY NextIsFifoNext
  <1>3. FqListInv /\ [Next]_vars => FqListInv'
    BY NextFqListInv
  <1>4. Init => FqListInv
    BY InitFqListInv
  <1>. QED
    BY <1>1, <1>2, <1>3, <1>4, PTL DEF Spec, Fifos!SafeSpec
=============================================================================
