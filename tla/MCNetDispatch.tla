---------------------------- MODULE MCNetDispatch ----------------------------
(* Instances of NetDispatch for TLC: clients whose host lists name two     *)
(* servers in the same order.                                              *)
EXTENDS NetDispatch

CONSTANTS c1, c2, s1, s2

MCHostLists == {<<s1, s2>>}

=============================================================================
