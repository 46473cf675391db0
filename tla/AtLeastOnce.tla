---------------------------- MODULE AtLeastOnce -----------------------------
(***************************************************************************)
(* What the notifications promise: an e-mail that was asked for is         *)
(* delivered, or reported as failed; it is never forgotten again, and a    *)
(* failure may still be made good by another attempt.                      *)
(***************************************************************************)
CONSTANT Mails

VARIABLE fate  \* [Mails -> {"unasked", "pending", "delivered", "failed"}]

Init == fate = [m \in Mails |-> "unasked"]

Ask(m) ==
  /\ fate[m] = "unasked"
  /\ fate' = [fate EXCEPT ![m] = "pending"]

Deliver(m) ==
  /\ fate[m] \in {"pending", "failed"}
  /\ fate' = [fate EXCEPT ![m] = "delivered"]

Report(m) ==
  /\ fate[m] = "pending"
  /\ fate' = [fate EXCEPT ![m] = "failed"]

Next == \E m \in Mails : Ask(m) \/ Deliver(m) \/ Report(m)

Spec == Init /\ [][Next]_fate
=============================================================================
