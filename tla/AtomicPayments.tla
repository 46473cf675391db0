--------------------------- MODULE AtomicPayments ---------------------------
(***************************************************************************)
(* What payments and transitions promise: money is taken for a pending     *)
(* order, which is paid by the same step; it is given back only while it   *)
(* is held; and a status follows the graph, unless staff edits it by hand. *)
(***************************************************************************)
EXTENDS OrderStatus, Naturals

CONSTANT Orders

VARIABLES
  status,  \* [Orders -> OrderStatuses]
  held,    \* [Orders -> Nat], the payments the shop holds for each order
  edited   \* the orders whose status was edited by hand

Init ==
  /\ status = [o \in Orders |-> "pending"]
  /\ held = [o \in Orders |-> 0]
  /\ edited = {}

Charge(o) ==
  /\ status[o] = "pending"
  /\ status' = [status EXCEPT ![o] = "paid"]
  /\ held' = [held EXCEPT ![o] = @ + 1]
  /\ UNCHANGED edited

Refund(o) ==
  /\ held[o] > 0
  /\ held' = [held EXCEPT ![o] = @ - 1]
  /\ UNCHANGED <<status, edited>>

Move(o, to) ==
  /\ to \in Graph[status[o]]
  /\ status' = [status EXCEPT ![o] = to]
  /\ UNCHANGED <<held, edited>>

Edit(o, to) ==
  /\ status' = [status EXCEPT ![o] = to]
  /\ edited' = edited \cup {o}
  /\ UNCHANGED held

Next ==
  \E o \in Orders :
    \/ Charge(o) \/ Refund(o)
    \/ \E to \in OrderStatuses : Move(o, to) \/ Edit(o, to)

Spec == Init /\ [][Next]_<<status, held, edited>>
=============================================================================
