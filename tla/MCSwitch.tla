----------------------------- MODULE MCSwitch -----------------------------
(***************************************************************************)
(* Switches over 4-bit values: a dense run, single values on both sides of *)
(* it, the least and the greatest value, and constants that are the same   *)
(* value written as unsigned.                                              *)
(***************************************************************************)
EXTENDS Switch

MCConstants == {-8, -7, -3, -2, 0, 1, 3, 4, 7, 13, 15}

\* The default, 0.5, and -d1, which only makes tables without gaps.
MCDensities == {[num |-> 1, den |-> 2], [num |-> 1, den |-> 1]}
===========================================================================
