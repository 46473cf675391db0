----------------------------- MODULE MCAccounts -----------------------------
(***************************************************************************)
(* An instance of SerialAccounts with two workers.  One address is typed   *)
(* in two ways.                                                            *)
(***************************************************************************)
EXTENDS SerialAccounts, TLC

CONSTANTS ann, bob, Bob, u1, u2, t1, t2, t3, old, new, w1, w2

LowerCase == [e \in Emails |-> IF e = Bob THEN bob ELSE e]

Symmetry ==
  Permutations(Users) \cup Permutations(Tokens) \cup Permutations(Passwords)
    \cup Permutations(Workers)
=============================================================================
