----------------------------- MODULE MCPayments -----------------------------
(***************************************************************************)
(* An instance of SerialPayments with two workers.  Staff edits statuses   *)
(* only while requests are serial.                                         *)
(***************************************************************************)
EXTENDS SerialPayments, TLC

CONSTANTS o1, o2, a1, a2, w1, w2

MCNext == ServedNext /\ (serial \/ UNCHANGED edited)
MCSpec == ServedInit /\ [][MCNext]_<<vars, serial>>

Symmetry == Permutations(Orders) \cup Permutations(Payments) \cup Permutations(Workers)
=============================================================================
