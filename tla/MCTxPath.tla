------------------------------ MODULE MCTxPath ------------------------------
(***************************************************************************)
(* Instances of TxPath for TLC.                                            *)
(***************************************************************************)
EXTENDS TxPathProperties

\* Two flows that share the only queue, and two with a queue each.
TwoFlows == {"f", "g"}
OneQueue == {0}
TwoQueues == {0, 1}
SameQueue == [x \in TwoFlows |-> 0]
OwnQueue  == [x \in TwoFlows |-> IF x = "f" THEN 0 ELSE 1]
=============================================================================
