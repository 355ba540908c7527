---------------------------- MODULE MCV90Bridge -----------------------------
(***************************************************************************)
(* The segmenter reports a false J before the arm sample, S before the J   *)
(* that must come first, and both halves of the S to S-bar reversal.       *)
(***************************************************************************)
EXTENDS V90Bridge

MCHeard == <<[start |-> 0, type |-> "J"], [start |-> 1, type |-> "S"],
             [start |-> 1, type |-> "J"], [start |-> 2, type |-> "S_BAR"]>>
=============================================================================
