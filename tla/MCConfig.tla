------------------------------ MODULE MCConfig ------------------------------
(* What operators write, in tenths: numbers inside and outside of each   *)
(* range, floats that are not finite, and a word.                          *)
EXTENDS RiskConfig

Written ==
  {[type |-> "float", value |-> v] : v \in {-1, 0, 7, 11, Nan, Inf}}
    \cup {[type |-> "int", value |-> v] : v \in {-10, 10}}
    \cup {[type |-> "other", value |-> 10]}
=============================================================================
