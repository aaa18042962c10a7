------------------------------ MODULE MCFqCoDel ------------------------------
(***************************************************************************)
(* An instance of FqCoDel for TLC: three flows, the hash 3 wrapping around,*)
(* and packets no filter matches.                                          *)
(***************************************************************************)
EXTENDS FqCoDelProperties

Filtered == {PF_NO_MATCH, 0, 1, 2, 3}
=============================================================================
