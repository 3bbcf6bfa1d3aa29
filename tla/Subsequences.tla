---------------------------- MODULE Subsequences ----------------------------
(***************************************************************************)
(* What is left of a list when a test is applied to its entries: Rust's    *)
(* Vec::retain and Iterator::filter.  The entries that pass are given by   *)
(* their indices; the n-th one is the one with exactly n of these indices  *)
(* up to it.  (SelectSeq computes the same list, but by recursion, and     *)
(* nothing could be proved of it.)                                         *)
(***************************************************************************)
EXTENDS Integers, FiniteSets

UpTo(K, i) == {j \in K : j <= i}

Selected(list, K) ==
  [n \in 1 .. Cardinality(K) |->
     list[CHOOSE i \in K : Cardinality(UpTo(K, i)) = n]]
=============================================================================
