---------------------------- MODULE OrderStatus ----------------------------
(***************************************************************************)
(* The statuses of an order and the graph OrderService.transition_status   *)
(* enforces.                                                               *)
(***************************************************************************)

OrderStatuses == {"pending", "paid", "fulfilled", "shipped", "delivered", "cancelled"}

Graph ==
  [pending   |-> {"paid", "cancelled"},
   paid      |-> {"fulfilled", "cancelled"},
   fulfilled |-> {"shipped"},
   shipped   |-> {"delivered"},
   delivered |-> {},
   cancelled |-> {}]

\* A mutant of CanTransition: the graph is read against its arrows as well.
CanTransitionEitherWay(from, to) == to \in Graph[from] \cup {from} \/ from \in Graph[to]

\* An edge of the graph, or the status the order already has.
CanTransition(from, to) == to \in Graph[from] \cup {from}
=============================================================================
