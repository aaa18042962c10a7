---------------------------- MODULE MsfcFairness ----------------------------
(***************************************************************************)
(* How MsfcQueueDisc shares the link. Two history variables compare what   *)
(* has been served: between two priority classes, in proportion to their   *)
(* quanta, and between two flows of one class, in equal shares, both since *)
(* the two have been active together.                                      *)
(***************************************************************************)
EXTENDS MsfcProperties

CONSTANTS
  ClassPairs,  \* the pairs of classes to compare
  FlowPairs    \* the pairs of flows of one class to compare

ASSUME PairsAssumption ==
  /\ ClassPairs \subseteq Prios \X Prios
  /\ FlowPairs \subseteq {pair \in FlowIds \X FlowIds : pair[1][1] = pair[2][1]}

VARIABLES
  classEdge,  \* classEdge[p, q]: what p was served times the quantum of q,
              \* less what q was served times the quantum of p
  flowEdge    \* flowEdge[f, g], f and g of one class: the bytes of f served
              \* less those of g

edgeVars == <<classEdge, flowEdge>>

\* The bytes this step charges to flow f and to class p.
FlowBytes(f)  == IF Served(f) THEN Head(queue[f]) ELSE 0
ClassBytes(p) == IF \E f \in FlowIds : f[1] = p /\ Served(f)
                 THEN Head(queue[ServedFlow]) ELSE 0

\* A behaviour compares either classes or flows, never both: one history at a
\* time is enough for the properties, and has far fewer states.
FairInit == /\ Init
            /\ \E pairs \in {<<ClassPairs, {}>>, <<{}, FlowPairs>>} :
                 /\ classEdge = [pair \in pairs[1] |-> 0]
                 /\ flowEdge = [pair \in pairs[2] |-> 0]

\* An edge is counted from the moment on both are active.
Compare ==
  /\ classEdge' = [pair \in DOMAIN classEdge |->
       IF \A i \in 1..2 : classActive[pair[i]] /\ classActive'[pair[i]]
       THEN classEdge[pair] + ClassBytes(pair[1]) * ClassQuantum(pair[2])
                            - ClassBytes(pair[2]) * ClassQuantum(pair[1])
       ELSE 0]
  /\ flowEdge' = [pair \in DOMAIN flowEdge |->
       IF \A i \in 1..2 : flowActive[pair[i]] /\ flowActive'[pair[i]]
       THEN flowEdge[pair] + FlowBytes(pair[1]) - FlowBytes(pair[2])
       ELSE 0]

SharingSpec == FairInit /\ [][Next /\ Compare]_<<vars, edgeVars>>
-----------------------------------------------------------------------------
\* The size of a packet is limited (an IP packet has at most 2^16 - 1 bytes).
ASSUME LargestPacketAssumption == \E s \in Sizes : \A t \in Sizes : t <= s

MaxPacket == CHOOSE s \in Sizes : \A t \in Sizes : t <= s

\* The bandwidth of two classes is shared in the ratio of their quanta however
\* many flows each has: at any moment since both became active, what they were
\* served differs from that ratio by at most two rounds and a packet each. The
\* outer round robin of DoDequeue grants a quantum each time it passes a class,
\* and a class that overdrew keeps its debt.
ClassesShareByQuantum ==
  \A pair \in DOMAIN classEdge :
    LET p == ClassQuantum(pair[1])
        q == ClassQuantum(pair[2])
    IN  classEdge[pair] <= 2 * p * q + (p + q) * (MaxPacket - 1)

\* Two active flows of one class have been served the same number of bytes, to
\* within two quanta and two packets, whatever the classes beside them do.
FlowsShareEqually ==
  \A pair \in DOMAIN flowEdge : flowEdge[pair] <= 2 * Quantum + 2 * (MaxPacket - 1)
=============================================================================
