------------------------------ MODULE Payments ------------------------------
(***************************************************************************)
(* PaymentService.charge and refund, the staff's status transitions and    *)
(* the admin's bulk actions, against a payment gateway.                    *)
(*                                                                         *)
(* charge and refund are transactions that call the gateway half-way: they *)
(* read (Begin...), call the gateway (the gateway remembers), and write    *)
(* and commit (Commit...).  The database runs READ COMMITTED and nothing   *)
(* takes a lock on a read, so other requests interleave between the parts. *)
(* A process that dies rolls its transaction back; the gateway does not.   *)
(***************************************************************************)
EXTENDS OrderStatus, Integers, FiniteSets

CONSTANTS
  Orders,    \* the orders, all committed and pending at the start
  Payments,  \* the ids payment rows can get: a bound
  MaxRefunds, \* how often the gateway refunds one payment: a bound
  Workers,   \* the processes that serve requests; one makes them serial
  Fragile,   \* the workers that may die in the middle of a request
  None       \* no order, no payment

ASSUME NoneAssumption == None \notin Orders \cup Payments
ASSUME MaxRefundsAssumption == MaxRefunds \in Nat
ASSUME FragileAssumption == Fragile \subseteq Workers

VARIABLES
  status,    \* [Orders -> OrderStatuses], Order.status
  payment,   \* [Payments -> PaymentRow], the payments table
  captured,  \* the payments for which the gateway has taken the money
  refunds,   \* [Payments -> Nat], how often it gave the money back
  job,       \* [Workers -> Job], the request each worker serves
  vouched,   \* history: the orders staff declared paid
  waived,    \* history: the payments the admin marked as refunded
  lost,      \* history: the payments whose process died after the capture
  edited     \* history: the orders whose status staff edited in the admin's list

vars == <<status, payment, captured, refunds, job, vouched, waived, lost, edited>>

\* "absent" is a row that was not inserted.  A pending row is never
\* committed: the transaction that inserts it settles it.
PaymentRow ==
  [order : Orders \cup {None}, status : {"absent", "succeeded", "failed", "refunded"}]

\* seen and target are the statuses a transition read and is to write;
\* result is what the gateway answered.
Job ==
  [step    : {"idle", "charge", "charged", "refund", "refunded", "move"},
   order   : Orders \cup {None},
   payment : Payments \cup {None},
   result  : {"none", "success", "failure"},
   seen    : OrderStatuses \cup {"none"},
   target  : OrderStatuses \cup {"none"}]

Idle ==
  [step |-> "idle", order |-> None, payment |-> None, result |-> "none",
   seen |-> "none", target |-> "none"]

TypeOK ==
  /\ status \in [Orders -> OrderStatuses]
  /\ payment \in [Payments -> PaymentRow]
  /\ captured \subseteq Payments
  /\ refunds \in [Payments -> 0 .. MaxRefunds]
  /\ job \in [Workers -> Job]
  /\ vouched \subseteq Orders
  /\ waived \subseteq Payments
  /\ lost \subseteq Payments
  /\ edited \subseteq Orders
  /\ \A p \in Payments : payment[p].status = "absent" <=> payment[p].order = None

Init ==
  /\ status = [o \in Orders |-> "pending"]
  /\ payment = [p \in Payments |-> [order |-> None, status |-> "absent"]]
  /\ captured = {}
  /\ refunds = [p \in Payments |-> 0]
  /\ job = [w \in Workers |-> Idle]
  /\ vouched = {}
  /\ waived = {}
  /\ lost = {}
  /\ edited = {}

Finish(w) == job' = [job EXCEPT ![w] = Idle]

-----------------------------------------------------------------------------
(***************************************************************************)
(* charge                                                                  *)
(***************************************************************************)
FreshPayments ==
  {p \in Payments : payment[p].status = "absent" /\ p \notin captured}
    \ {job[w].payment : w \in Workers}

\* "Order ... is not pending payment."
Chargeable(o) == status[o] = "pending"

\* The order is read and checked, and the payment row inserted.
BeginCharge(w, o, p) ==
  /\ job[w] = Idle
  /\ Chargeable(o)
  /\ p \in FreshPayments
  /\ job' = [job EXCEPT ![w] =
       [Idle EXCEPT !.step = "charge", !.order = o, !.payment = p, !.seen = status[o]]]
  /\ UNCHANGED <<status, payment, captured, refunds, vouched, waived, lost, edited>>

\* gateway.charge takes the money, or declines.
GatewayCharge(w, result) ==
  /\ job[w].step = "charge"
  /\ captured' = IF result = "success" THEN captured \cup {job[w].payment} ELSE captured
  /\ job' = [job EXCEPT ![w].step = "charged", ![w].result = result]
  /\ UNCHANGED <<status, payment, refunds, vouched, waived, lost, edited>>

\* A mutant of SettledStatus: the answer is not looked at.
AlwaysSucceeded(result) == "succeeded"

SettledStatus(result) == IF result = "success" THEN "succeeded" ELSE "failed"

\* A mutant of PaidAfter: the order is paid whatever the gateway answered.
PaidRegardless(w) == [status EXCEPT ![job[w].order] = "paid"]

\* transition_status(order, PAID) of the order as it was read, which a
\* pending one always passes.
PaidAfter(w) ==
  IF job[w].result = "success" /\ CanTransition(job[w].seen, "paid")
  THEN [status EXCEPT ![job[w].order] = "paid"]
  ELSE status

CommitCharge(w) ==
  /\ job[w].step = "charged"
  /\ payment' = [payment EXCEPT ![job[w].payment] =
       [order |-> job[w].order, status |-> SettledStatus(job[w].result)]]
  /\ status' = PaidAfter(w)
  /\ Finish(w)
  /\ UNCHANGED <<captured, refunds, vouched, waived, lost, edited>>

-----------------------------------------------------------------------------
(***************************************************************************)
(* refund                                                                  *)
(***************************************************************************)
\* A mutant of Refundable: any settled payment will do.
RefundableOnceSettled(p) == payment[p].status # "absent"

\* "Only succeeded payments can be refunded."
Refundable(p) == payment[p].status = "succeeded"

BeginRefund(w, p) ==
  /\ job[w] = Idle
  /\ Refundable(p)
  /\ job' = [job EXCEPT ![w] = [Idle EXCEPT !.step = "refund", !.payment = p]]
  /\ UNCHANGED <<status, payment, captured, refunds, vouched, waived, lost, edited>>

GatewayRefund(w, result) ==
  /\ job[w].step = "refund"
  /\ IF result = "success"
     THEN /\ refunds[job[w].payment] < MaxRefunds
          /\ refunds' = [refunds EXCEPT ![job[w].payment] = @ + 1]
     ELSE refunds' = refunds
  /\ job' = [job EXCEPT ![w].step = "refunded", ![w].result = result]
  /\ UNCHANGED <<status, payment, captured, vouched, waived, lost, edited>>

\* A mutant of StatusAfterRefund: a declined refund saves the whole payment
\* as it was read.
StaleStatusAfterRefund(w) == IF job[w].result = "success" THEN "refunded" ELSE "succeeded"

\* A declined refund saves its failure_reason only.
StatusAfterRefund(w) ==
  IF job[w].result = "success" THEN "refunded" ELSE payment[job[w].payment].status

CommitRefund(w) ==
  /\ job[w].step = "refunded"
  /\ payment' = [payment EXCEPT ![job[w].payment].status = StatusAfterRefund(w)]
  /\ Finish(w)
  /\ UNCHANGED <<status, captured, refunds, vouched, waived, lost, edited>>

-----------------------------------------------------------------------------
(***************************************************************************)
(* The staff's view of an order's status, and the admin's bulk actions.    *)
(***************************************************************************)
\* get_for_admin, then transition_status of the order as it was read.
BeginTransition(w, o, target) ==
  /\ job[w] = Idle
  /\ CanTransition(status[o], target)
  /\ job' = [job EXCEPT ![w] =
       [Idle EXCEPT !.step = "move", !.order = o, !.seen = status[o], !.target = target]]
  /\ UNCHANGED <<status, payment, captured, refunds, vouched, waived, lost, edited>>

CommitTransition(w) ==
  LET o == job[w].order IN
  /\ job[w].step = "move"
  /\ status' = [status EXCEPT ![o] = job[w].target]
  /\ vouched' = IF job[w].target = "paid" THEN vouched \cup {o} ELSE vouched
  /\ Finish(w)
  /\ UNCHANGED <<payment, captured, refunds, waived, lost, edited>>

\* OrderAdmin.mark_paid: one UPDATE ... WHERE status = 'pending'.
MarkPaid(o) ==
  /\ status[o] = "pending"
  /\ status' = [status EXCEPT ![o] = "paid"]
  /\ vouched' = vouched \cup {o}
  /\ UNCHANGED <<payment, captured, refunds, job, waived, lost, edited>>

\* list_editable: saving the list writes the status each row of the page had, or was given,
\* whatever the graph says and whatever has happened since the page was rendered.
EditStatus(o, s) ==
  /\ status[o] # s
  /\ status' = [status EXCEPT ![o] = s]
  /\ edited' = edited \cup {o}
  /\ UNCHANGED <<payment, captured, refunds, job, vouched, waived, lost>>

\* PaymentAdmin.mark_refunded: one UPDATE ... WHERE status = 'succeeded'.
MarkRefunded(p) ==
  /\ payment[p].status = "succeeded"
  /\ payment' = [payment EXCEPT ![p].status = "refunded"]
  /\ waived' = waived \cup {p}
  /\ UNCHANGED <<status, captured, refunds, job, vouched, lost, edited>>

\* The admin is a request like any other: it needs a worker.
AdminAction ==
  /\ \E w \in Workers : job[w] = Idle
  /\ \/ \E o \in Orders : MarkPaid(o) \/ \E s \in OrderStatuses : EditStatus(o, s)
     \/ \E p \in Payments : MarkRefunded(p)

\* The process dies, or the gateway's answer never arrives.
Die(w) ==
  /\ w \in Fragile
  /\ job[w] # Idle
  /\ lost' = IF job[w].step = "charged" /\ job[w].result = "success"
             THEN lost \cup {job[w].payment} ELSE lost
  /\ Finish(w)
  /\ UNCHANGED <<status, payment, captured, refunds, vouched, waived, edited>>

\* What a worker does with a request.
Serve(w) ==
  \/ \E o \in Orders, p \in Payments : BeginCharge(w, o, p)
  \/ \E result \in {"success", "failure"} : GatewayCharge(w, result)
  \/ CommitCharge(w)
  \/ \E p \in Payments : BeginRefund(w, p)
  \/ \E result \in {"success", "failure"} : GatewayRefund(w, result)
  \/ CommitRefund(w)
  \/ \E o \in Orders, target \in OrderStatuses : BeginTransition(w, o, target)
  \/ CommitTransition(w)

Next == (\E w \in Workers : Serve(w) \/ Die(w)) \/ AdminAction

Spec == Init /\ [][Next]_vars

-----------------------------------------------------------------------------
(***************************************************************************)
(* Properties.                                                             *)
(***************************************************************************)
\* The payments table and the gateway agree: a payment is recorded as
\* succeeded or refunded only if its money was taken, and as failed only if
\* it was not; money taken is on record, or the charge is about to record
\* it, or its process died first (PaymentService.charge).
LedgerAgrees ==
  \A p \in Payments :
    /\ payment[p].status \in {"succeeded", "refunded"} => p \in captured
    /\ payment[p].status = "failed" => p \notin captured
    /\ p \in captured =>
         \/ payment[p].status \in {"succeeded", "refunded"}
         \/ \E w \in Workers : job[w].payment = p /\ job[w].step = "charged"
         \/ p \in lost

\* The gateway gives back only money that it took and that is recorded as
\* paid, and a refunded payment was given back or waved through by the admin
\* (PaymentService.refund, PaymentAdmin.mark_refunded).
RefundsAreOfPayments ==
  \A p \in Payments :
    /\ refunds[p] > 0 => p \in captured /\ payment[p].status \in {"succeeded", "refunded"}
    /\ payment[p].status = "refunded" => refunds[p] > 0 \/ p \in waived

\* No order is past pending unless a payment of its own succeeded, staff
\* declared it paid or edited its status, or it was cancelled (charge,
\* transition_status).
PaidOrdersArePaidFor ==
  \A o \in Orders :
    \/ status[o] \in {"pending", "cancelled"}
    \/ o \in vouched \cup edited
    \/ \E p \in Payments :
         payment[p].order = o /\ payment[p].status \in {"succeeded", "refunded"}

\* A settled payment is never settled again: it keeps its order and may only
\* go from succeeded to refunded, whatever a second refund saves.
SettledStays ==
  [][\A p \in Payments : payment[p].status # "absent" =>
       \/ payment'[p] = payment[p]
       \/ /\ payment[p].status = "succeeded"
          /\ payment'[p] = [payment[p] EXCEPT !.status = "refunded"]]_vars

\* What a request holds at each of its steps.
JobOK(w) ==
  LET j == job[w] IN
  /\ j.step \in {"charge", "charged"} =>
       j.order \in Orders /\ j.payment \in Payments /\ payment[j.payment].status = "absent"
  /\ j.step = "charge" => j.payment \notin captured
  /\ j.step = "charged" => (j.result = "success" <=> j.payment \in captured)
  /\ j.step \in {"refund", "refunded"} =>
       j.payment \in Payments /\ payment[j.payment].status \in {"succeeded", "refunded"}
  /\ j.step = "refunded" /\ j.result = "success" => refunds[j.payment] > 0
  /\ j.step = "move" => j.order \in Orders /\ j.target \in OrderStatuses

\* No two charges share a payment row.
ChargesApart ==
  \A v, w \in Workers :
    v # w /\ job[v].step \in {"charge", "charged"} /\ job[w].step \in {"charge", "charged"}
      => job[v].payment # job[w].payment

\* The inductive invariant behind LedgerAgrees and RefundsAreOfPayments.
IndInv ==
  /\ TypeOK
  /\ \A w \in Workers : JobOK(w)
  /\ ChargesApart
  /\ LedgerAgrees
  /\ RefundsAreOfPayments

\* Serial requests implement AtomicPayments: what the shop holds for an order is what was
\* taken for it and not given back, but for what a request has not committed.
InFlight(p) ==
  Cardinality({w \in Workers :
    job[w].step = "refunded" /\ job[w].payment = p /\ job[w].result = "success"})
Back(p) == refunds[p] - InFlight(p)
PaymentsOf(o) == {p \in captured : payment[p].order = o}
RefundsOf(o) == {r \in PaymentsOf(o) \X (1 .. MaxRefunds) : r[2] <= Back(r[1])}
Held(o) == Cardinality(PaymentsOf(o)) - Cardinality(RefundsOf(o))
Balance == [o \in Orders |-> Held(o)]
Atomic == INSTANCE AtomicPayments WITH held <- Balance
AtomicSpec == Atomic!Spec
=============================================================================
