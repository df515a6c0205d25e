------------------------------- MODULE Cents -------------------------------
(***************************************************************************)
(* Sums of cents over a set, by counting: every member of the set stands   *)
(* for as many cents as the function f gives it, each a thing of its own,  *)
(* and none when f gives it none or less.  So the sum over a set that      *)
(* grows by a member grows by that member's cents, without any order or    *)
(* recursion.                                                              *)
(***************************************************************************)
EXTENDS Integers, FiniteSets

CentsOf(f, S) == UNION {{x} \X (1 .. f[x]) : x \in S}

Worth(f, S) == Cardinality(CentsOf(f, S))
=============================================================================
