--------------------------- MODULE MCMsfcFairness ---------------------------
(***************************************************************************)
(* Instances of MsfcFairness for TLC.                                      *)
(***************************************************************************)
EXTENDS MsfcFairness

\* Two classes of one flow; a class of two flows against a class of one.
TwoClasses == {<<0, 0>>, <<1, 0>>}
TwoVsOne   == {<<0, 0>>, <<0, 1>>, <<1, 0>>}

\* What is compared: the two classes, the two flows of class 0, or nothing.
TheClasses == {<<0, 1>>, <<1, 0>>}
TheFlows   == {<<<<0, 0>>, <<0, 1>>>>, <<<<0, 1>>, <<0, 0>>>>}
NoPairs    == {}

\* A class just created holds no deficit, or a debt of many quanta.
Zeroes == {0}
Debt   == {-30}
=============================================================================
