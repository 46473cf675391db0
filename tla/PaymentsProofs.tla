--------------------------- MODULE PaymentsProofs ---------------------------
(***************************************************************************)
(* Proofs about Payments, for every set of orders, payments and workers,   *)
(* any of which may die: the payments table and the gateway agree, refunds *)
(* are of payments, and a settled payment stays settled.  Requests served  *)
(* one at a time implement AtomicPayments.                                 *)
(***************************************************************************)
EXTENDS SerialPayments, FiniteSetTheorems, TLAPS

JobsOK == \A w \in Workers : JobOK(w)

LEMMA NoneIsOutside == None \notin Orders /\ None \notin Payments
BY NoneAssumption

LEMMA GraphStays ==
  ASSUME NEW from \in OrderStatuses, NEW to, CanTransition(from, to)
  PROVE  to \in OrderStatuses
BY DEF CanTransition, Graph, OrderStatuses

LEMMA InitInv == Init => IndInv
<1> SUFFICES ASSUME Init PROVE IndInv
  OBVIOUS
<1>1. Idle \in Job
  BY DEF Idle, Job
<1>2. refunds \in [Payments -> 0 .. MaxRefunds]
  BY MaxRefundsAssumption DEF Init
<1>3. TypeOK
  BY <1>1, <1>2, NoneIsOutside DEF Init, TypeOK, PaymentRow, OrderStatuses
<1>4. JobsOK /\ ChargesApart
  BY DEF Init, JobsOK, JobOK, ChargesApart, Idle
<1>5. LedgerAgrees /\ RefundsAreOfPayments
  BY DEF Init, LedgerAgrees, RefundsAreOfPayments
<1> QED
  BY <1>3, <1>4, <1>5 DEF IndInv, JobsOK

\* A worker that is not at a charge cannot be the one that is about to record
\* a capture.
LEMMA BeginChargeInv ==
  ASSUME IndInv, NEW w \in Workers, NEW o \in Orders, NEW p \in Payments, BeginCharge(w, o, p)
  PROVE  IndInv'
<1> DEFINE j == [Idle EXCEPT !.step = "charge", !.order = o, !.payment = p, !.seen = status[o]]
<1>1. status[o] \in OrderStatuses /\ job \in [Workers -> Job]
  BY DEF IndInv, TypeOK
<1>2. /\ j \in Job
      /\ j.step = "charge" /\ j.order = o /\ j.payment = p
  BY <1>1 DEF Idle, Job
<1>3. job' = [job EXCEPT ![w] = j]
      /\ UNCHANGED <<status, payment, captured, refunds, vouched, waived, lost, edited>>
  BY DEF BeginCharge
<1>4. payment[p].status = "absent" /\ p \notin captured /\ \A v \in Workers : job[v].payment # p
  BY DEF BeginCharge, FreshPayments
<1> HIDE DEF j
<1>5. job'[w] = j /\ \A v \in Workers \ {w} : job'[v] = job[v]
  BY <1>1, <1>3
<1>6. TypeOK'
  BY <1>2, <1>3 DEF IndInv, TypeOK
<1>7. JobsOK'
  BY <1>2, <1>3, <1>4, <1>5 DEF IndInv, JobsOK, JobOK
<1>8. ChargesApart'
  BY <1>2, <1>4, <1>5 DEF IndInv, ChargesApart
<1>9. LedgerAgrees'
  <2>1. job[w] = Idle
    BY DEF BeginCharge
  <2> QED
    BY <2>1, <1>3, <1>5 DEF IndInv, LedgerAgrees, Idle
<1>10. RefundsAreOfPayments'
  BY <1>3 DEF IndInv, RefundsAreOfPayments
<1> QED
  BY <1>6, <1>7, <1>8, <1>9, <1>10 DEF IndInv, JobsOK

LEMMA GatewayChargeInv ==
  ASSUME IndInv, NEW w \in Workers, NEW result \in {"success", "failure"},
         GatewayCharge(w, result)
  PROVE  IndInv'
<1> DEFINE j == [job[w] EXCEPT !.step = "charged", !.result = result]
           p == job[w].payment
<1>1. job \in [Workers -> Job] /\ job[w] \in Job /\ job[w].step = "charge"
  BY DEF GatewayCharge, IndInv, TypeOK
<1>2. /\ j \in Job /\ j.step = "charged" /\ j.result = result
      /\ j.order = job[w].order /\ j.payment = p
  BY <1>1 DEF Job
<1>3. /\ job' = [job EXCEPT ![w] = j]
      /\ captured' = IF result = "success" THEN captured \cup {p} ELSE captured
      /\ UNCHANGED <<status, payment, refunds, vouched, waived, lost, edited>>
  BY DEF GatewayCharge
<1>4. /\ job[w].order \in Orders /\ p \in Payments
      /\ payment[p].status = "absent" /\ p \notin captured
  BY <1>1 DEF IndInv, JobOK
<1> HIDE DEF j, p
<1>5. job'[w] = j /\ \A v \in Workers \ {w} : job'[v] = job[v]
  BY <1>1, <1>3
<1>6. TypeOK'
  BY <1>2, <1>3, <1>4 DEF IndInv, TypeOK
<1>7. JobsOK'
  <2> SUFFICES ASSUME NEW v \in Workers PROVE JobOK(v)'
    BY DEF JobsOK
  <2>1. CASE v = w
    BY <2>1, <1>2, <1>3, <1>4, <1>5 DEF JobOK
  <2>2. CASE v # w
    <3>1. JobOK(v) /\ job'[v] = job[v]
      BY <2>2, <1>5 DEF IndInv
    <3>2. job[v].step \in {"charge", "charged"} => job[v].payment # p
      BY <2>2, <1>1 DEF IndInv, ChargesApart, p
    <3> QED
      BY <3>1, <3>2, <1>3 DEF JobOK
  <2> QED
    BY <2>1, <2>2
<1>8. ChargesApart'
  BY <1>1, <1>2, <1>5 DEF IndInv, ChargesApart, p
<1>9. LedgerAgrees'
  <2> SUFFICES ASSUME NEW q \in Payments
               PROVE  /\ payment[q].status \in {"succeeded", "refunded"} => q \in captured'
                      /\ payment[q].status = "failed" => q \notin captured'
                      /\ q \in captured' =>
                           \/ payment[q].status \in {"succeeded", "refunded"}
                           \/ \E v \in Workers : job'[v].payment = q /\ job'[v].step = "charged"
                           \/ q \in lost
    BY <1>3 DEF LedgerAgrees
  <2>1. CASE q = p
    BY <2>1, <1>2, <1>4, <1>5
  <2>2. CASE q # p
    <3>1. q \in captured' <=> q \in captured
      BY <2>2, <1>3
    <3>2. ASSUME NEW v \in Workers, job[v].payment = q, job[v].step = "charged"
          PROVE  job'[v].payment = q /\ job'[v].step = "charged"
      BY <3>2, <1>1, <1>5
    <3> QED
      BY <3>1, <3>2 DEF IndInv, LedgerAgrees
  <2> QED
    BY <2>1, <2>2
<1>10. RefundsAreOfPayments'
  BY <1>3 DEF IndInv, RefundsAreOfPayments
<1> QED
  BY <1>6, <1>7, <1>8, <1>9, <1>10 DEF IndInv, JobsOK

LEMMA CommitChargeInv ==
  ASSUME IndInv, NEW w \in Workers, CommitCharge(w)
  PROVE  IndInv'
<1> DEFINE p == job[w].payment
           row == [order |-> job[w].order, status |-> SettledStatus(job[w].result)]
<1>1. /\ job \in [Workers -> Job] /\ job[w] \in Job /\ job[w].step = "charged"
      /\ payment \in [Payments -> PaymentRow]
  BY DEF CommitCharge, IndInv, TypeOK
<1>2. /\ job[w].order \in Orders /\ p \in Payments /\ payment[p].status = "absent"
      /\ job[w].result = "success" <=> p \in captured
  BY <1>1 DEF IndInv, JobOK
<1>3. /\ row \in PaymentRow /\ row.order # None
      /\ row.status = IF p \in captured THEN "succeeded" ELSE "failed"
  BY <1>2, NoneIsOutside DEF PaymentRow, SettledStatus
<1>4. /\ payment' = [payment EXCEPT ![p] = row]
      /\ job' = [job EXCEPT ![w] = Idle]
      /\ UNCHANGED <<captured, refunds, vouched, waived, lost, edited>>
  BY DEF CommitCharge, Finish
<1>5. status' \in [Orders -> OrderStatuses]
  BY <1>2 DEF CommitCharge, PaidAfter, IndInv, TypeOK, OrderStatuses
<1>6. Idle \in Job /\ Idle.step = "idle"
  BY DEF Idle, Job
<1> HIDE DEF p, row
<1>7. /\ payment'[p] = row /\ \A q \in Payments \ {p} : payment'[q] = payment[q]
      /\ job'[w] = Idle /\ \A v \in Workers \ {w} : job'[v] = job[v]
  BY <1>1, <1>2, <1>4
<1>8. TypeOK'
  <2>1. payment' \in [Payments -> PaymentRow] /\ job' \in [Workers -> Job]
    BY <1>1, <1>3, <1>4, <1>6
  <2>2. row.status # "absent"
    BY <1>3
  <2> QED
    BY <2>1, <2>2, <1>3, <1>4, <1>5, <1>7 DEF IndInv, TypeOK
<1>9. JobsOK'
  <2> SUFFICES ASSUME NEW v \in Workers PROVE JobOK(v)'
    BY DEF JobsOK
  <2>1. CASE v = w
    BY <2>1, <1>6, <1>7 DEF JobOK
  <2>2. CASE v # w
    <3>1. JobOK(v) /\ job'[v] = job[v]
      BY <2>2, <1>7 DEF IndInv
    <3>2. job[v].step \in {"charge", "charged"} => job[v].payment # p
      BY <2>2, <1>1 DEF IndInv, ChargesApart, p
    <3>3. job[v].step \in {"refund", "refunded"} => job[v].payment # p
      BY <3>1, <1>2 DEF JobOK
    <3> QED
      BY <3>1, <3>2, <3>3, <1>4, <1>7 DEF JobOK
  <2> QED
    BY <2>1, <2>2
<1>10. ChargesApart'
  BY <1>6, <1>7 DEF IndInv, ChargesApart
<1>11. LedgerAgrees'
  <2> SUFFICES ASSUME NEW q \in Payments
               PROVE  /\ payment'[q].status \in {"succeeded", "refunded"} => q \in captured
                      /\ payment'[q].status = "failed" => q \notin captured
                      /\ q \in captured =>
                           \/ payment'[q].status \in {"succeeded", "refunded"}
                           \/ \E v \in Workers : job'[v].payment = q /\ job'[v].step = "charged"
                           \/ q \in lost
    BY <1>4 DEF LedgerAgrees
  <2>1. CASE q = p
    BY <2>1, <1>3, <1>7
  <2>2. CASE q # p
    <3>1. ASSUME NEW v \in Workers, job[v].payment = q, job[v].step = "charged"
          PROVE  job'[v].payment = q /\ job'[v].step = "charged"
      BY <3>1, <2>2, <1>7 DEF p
    <3> QED
      BY <2>2, <3>1, <1>7 DEF IndInv, LedgerAgrees
  <2> QED
    BY <2>1, <2>2
<1>12. RefundsAreOfPayments'
  <2>1. ~ (refunds[p] > 0)
    BY <1>2 DEF IndInv, RefundsAreOfPayments
  <2>2. payment'[p].status # "refunded"
    BY <1>3, <1>7
  <2> QED
    BY <2>1, <2>2, <1>4, <1>7 DEF IndInv, RefundsAreOfPayments
<1> QED
  BY <1>8, <1>9, <1>10, <1>11, <1>12 DEF IndInv, JobsOK

LEMMA BeginRefundInv ==
  ASSUME IndInv, NEW w \in Workers, NEW p \in Payments, BeginRefund(w, p)
  PROVE  IndInv'
<1> DEFINE j == [Idle EXCEPT !.step = "refund", !.payment = p]
<1>1. job \in [Workers -> Job] /\ job[w] = Idle /\ payment[p].status = "succeeded"
  BY DEF BeginRefund, Refundable, IndInv, TypeOK
<1>2. j \in Job /\ j.step = "refund" /\ j.payment = p
  BY DEF Idle, Job
<1>3. job' = [job EXCEPT ![w] = j]
      /\ UNCHANGED <<status, payment, captured, refunds, vouched, waived, lost, edited>>
  BY DEF BeginRefund
<1>4. Idle.step = "idle"
  BY DEF Idle
<1> HIDE DEF j
<1>5. job'[w] = j /\ \A v \in Workers \ {w} : job'[v] = job[v]
  BY <1>1, <1>3
<1>6. TypeOK'
  BY <1>2, <1>3 DEF IndInv, TypeOK
<1>7. JobsOK'
  BY <1>1, <1>2, <1>3, <1>5 DEF IndInv, JobsOK, JobOK
<1>8. ChargesApart'
  BY <1>2, <1>5 DEF IndInv, ChargesApart
<1>9. LedgerAgrees'
  BY <1>1, <1>3, <1>4, <1>5 DEF IndInv, LedgerAgrees
<1>10. RefundsAreOfPayments'
  BY <1>3 DEF IndInv, RefundsAreOfPayments
<1> QED
  BY <1>6, <1>7, <1>8, <1>9, <1>10 DEF IndInv, JobsOK

LEMMA GatewayRefundInv ==
  ASSUME IndInv, NEW w \in Workers, NEW result \in {"success", "failure"},
         GatewayRefund(w, result)
  PROVE  IndInv'
<1> DEFINE j == [job[w] EXCEPT !.step = "refunded", !.result = result]
           p == job[w].payment
<1>1. /\ job \in [Workers -> Job] /\ job[w] \in Job /\ job[w].step = "refund"
      /\ refunds \in [Payments -> 0 .. MaxRefunds]
  BY DEF GatewayRefund, IndInv, TypeOK
<1>2. j \in Job /\ j.step = "refunded" /\ j.result = result /\ j.payment = p
  BY <1>1 DEF Job
<1>3. /\ job' = [job EXCEPT ![w] = j]
      /\ UNCHANGED <<status, payment, captured, vouched, waived, lost, edited>>
  BY DEF GatewayRefund
<1>4. p \in Payments /\ payment[p].status \in {"succeeded", "refunded"}
  BY <1>1 DEF IndInv, JobOK
<1>5. /\ result = "success" =>
           refunds[p] < MaxRefunds /\ refunds' = [refunds EXCEPT ![p] = refunds[p] + 1]
      /\ result # "success" => refunds' = refunds
  BY DEF GatewayRefund
<1> HIDE DEF j, p
<1>6. job'[w] = j /\ \A v \in Workers \ {w} : job'[v] = job[v]
  BY <1>1, <1>3
<1>7. /\ refunds' \in [Payments -> 0 .. MaxRefunds]
      /\ \A q \in Payments : refunds[q] > 0 => refunds'[q] > 0
      /\ \A q \in Payments \ {p} : refunds'[q] = refunds[q]
      /\ result = "success" => refunds'[p] > 0
  BY <1>1, <1>4, <1>5, MaxRefundsAssumption
<1>8. TypeOK'
  BY <1>2, <1>3, <1>7 DEF IndInv, TypeOK
<1>9. JobsOK'
  <2> SUFFICES ASSUME NEW v \in Workers PROVE JobOK(v)'
    BY DEF JobsOK
  <2>1. CASE v = w
    BY <2>1, <1>2, <1>3, <1>4, <1>6, <1>7 DEF JobOK
  <2>2. CASE v # w
    BY <2>2, <1>3, <1>6, <1>7 DEF IndInv, JobOK
  <2> QED
    BY <2>1, <2>2
<1>10. ChargesApart'
  BY <1>2, <1>6 DEF IndInv, ChargesApart
<1>11. LedgerAgrees'
  BY <1>1, <1>3, <1>6 DEF IndInv, LedgerAgrees
<1>12. RefundsAreOfPayments'
  BY <1>3, <1>4, <1>7 DEF IndInv, RefundsAreOfPayments, LedgerAgrees
<1> QED
  BY <1>8, <1>9, <1>10, <1>11, <1>12 DEF IndInv, JobsOK

\* What a worker's return to idling, and a payment's turning from succeeded
\* into refunded, leave alone.
LEMMA OthersKeepTheirJobs ==
  ASSUME IndInv, NEW w \in Workers, Finish(w),
         UNCHANGED <<captured, refunds>>,
         payment' \in [Payments -> PaymentRow],
         \A p \in Payments : payment'[p].status = payment[p].status
                             \/ /\ payment[p].status = "succeeded"
                                /\ payment'[p].status = "refunded"
  PROVE  job' \in [Workers -> Job] /\ JobsOK' /\ ChargesApart'
<1>1. job \in [Workers -> Job] /\ job' = [job EXCEPT ![w] = Idle]
  BY DEF Finish, IndInv, TypeOK
<1>2. Idle \in Job /\ Idle.step = "idle"
  BY DEF Idle, Job
<1>3. job' \in [Workers -> Job] /\ job'[w] = Idle /\ \A v \in Workers \ {w} : job'[v] = job[v]
  BY <1>1, <1>2
<1>4. JobsOK'
  <2> SUFFICES ASSUME NEW v \in Workers PROVE JobOK(v)'
    BY DEF JobsOK
  <2>1. CASE v = w
    BY <2>1, <1>2, <1>3 DEF JobOK
  <2>2. CASE v # w
    <3>1. JobOK(v) /\ job'[v] = job[v]
      BY <2>2, <1>3 DEF IndInv
    <3> QED
      BY <3>1 DEF JobOK
  <2> QED
    BY <2>1, <2>2
<1>5. ChargesApart'
  BY <1>2, <1>3 DEF IndInv, ChargesApart
<1> QED
  BY <1>3, <1>4, <1>5

\* A worker that was not about to record a capture leaves the ledger as it is
\* when it finishes.
LEMMA FinishedWithoutCapture ==
  ASSUME IndInv, NEW w \in Workers, Finish(w), job[w].step # "charged",
         UNCHANGED <<captured, lost, edited>>,
         \A p \in Payments :
           \/ payment'[p].status = payment[p].status
           \/ /\ payment[p].status \in {"succeeded", "refunded"}
              /\ payment'[p].status = "refunded"
  PROVE  LedgerAgrees'
<1>1. \A v \in Workers \ {w} : job'[v] = job[v]
  BY DEF Finish, IndInv, TypeOK
<1>2. ASSUME NEW q \in Payments, NEW v \in Workers,
             job[v].payment = q, job[v].step = "charged"
      PROVE  job'[v].payment = q /\ job'[v].step = "charged"
  BY <1>1, <1>2
<1> QED
  BY <1>2 DEF IndInv, LedgerAgrees

LEMMA CommitRefundInv ==
  ASSUME IndInv, NEW w \in Workers, CommitRefund(w)
  PROVE  IndInv'
<1> DEFINE p == job[w].payment
           row == [payment[p] EXCEPT !.status = StatusAfterRefund(w)]
<1>1. /\ payment \in [Payments -> PaymentRow] /\ job[w].step = "refunded"
      /\ \A q \in Payments : payment[q].status = "absent" <=> payment[q].order = None
  BY DEF CommitRefund, IndInv, TypeOK
<1>2. /\ p \in Payments /\ payment[p].status \in {"succeeded", "refunded"}
      /\ job[w].result = "success" => refunds[p] > 0
  BY <1>1 DEF IndInv, JobOK
<1>3. /\ row \in PaymentRow /\ row.order = payment[p].order
      /\ \/ row.status = payment[p].status
         \/ row.status = "refunded" /\ refunds[p] > 0
  BY <1>1, <1>2 DEF PaymentRow, StatusAfterRefund
<1>4. /\ payment' = [payment EXCEPT ![p] = row] /\ Finish(w)
      /\ UNCHANGED <<status, captured, refunds, vouched, waived, lost, edited>>
  BY DEF CommitRefund
<1> HIDE DEF p, row
<1>5. /\ payment' \in [Payments -> PaymentRow]
      /\ payment'[p] = row /\ \A q \in Payments \ {p} : payment'[q] = payment[q]
  BY <1>1, <1>2, <1>3, <1>4
<1>6. \A q \in Payments :
        /\ payment'[q].order = payment[q].order
        /\ \/ payment'[q].status = payment[q].status
           \/ /\ payment[q].status \in {"succeeded", "refunded"}
              /\ payment'[q].status = "refunded"
              /\ refunds[q] > 0
  BY <1>2, <1>3, <1>5
<1>7. \A q \in Payments : payment'[q].status = payment[q].status
                          \/ /\ payment[q].status = "succeeded"
                             /\ payment'[q].status = "refunded"
  BY <1>6
<1>8. job' \in [Workers -> Job] /\ JobsOK' /\ ChargesApart'
  BY <1>4, <1>5, <1>7, OthersKeepTheirJobs
<1>9. TypeOK'
  BY <1>1, <1>4, <1>5, <1>6, <1>8 DEF IndInv, TypeOK
<1>10. LedgerAgrees'
  BY <1>1, <1>4, <1>6, FinishedWithoutCapture DEF IndInv
<1>11. RefundsAreOfPayments'
  BY <1>4, <1>6 DEF IndInv, RefundsAreOfPayments
<1> QED
  BY <1>8, <1>9, <1>10, <1>11 DEF IndInv, JobsOK

LEMMA BeginTransitionInv ==
  ASSUME IndInv, NEW w \in Workers, NEW o \in Orders, NEW target \in OrderStatuses,
         BeginTransition(w, o, target)
  PROVE  IndInv'
<1> DEFINE j == [Idle EXCEPT !.step = "move", !.order = o, !.seen = status[o],
                             !.target = target]
<1>1. job \in [Workers -> Job] /\ status[o] \in OrderStatuses /\ job[w] = Idle
  BY DEF BeginTransition, IndInv, TypeOK
<1>2. j \in Job /\ j.step = "move" /\ j.order = o /\ j.target = target
  BY <1>1 DEF Idle, Job
<1>3. job' = [job EXCEPT ![w] = j]
      /\ UNCHANGED <<status, payment, captured, refunds, vouched, waived, lost, edited>>
  BY DEF BeginTransition
<1>4. Idle.step = "idle"
  BY DEF Idle
<1> HIDE DEF j
<1>5. job'[w] = j /\ \A v \in Workers \ {w} : job'[v] = job[v]
  BY <1>1, <1>3
<1>6. TypeOK'
  BY <1>2, <1>3 DEF IndInv, TypeOK
<1>7. JobsOK'
  BY <1>2, <1>3, <1>5 DEF IndInv, JobsOK, JobOK
<1>8. ChargesApart'
  BY <1>2, <1>5 DEF IndInv, ChargesApart
<1>9. LedgerAgrees'
  BY <1>1, <1>3, <1>4, <1>5 DEF IndInv, LedgerAgrees
<1>10. RefundsAreOfPayments'
  BY <1>3 DEF IndInv, RefundsAreOfPayments
<1> QED
  BY <1>6, <1>7, <1>8, <1>9, <1>10 DEF IndInv, JobsOK

LEMMA CommitTransitionInv ==
  ASSUME IndInv, NEW w \in Workers, CommitTransition(w)
  PROVE  IndInv'
<1> DEFINE o == job[w].order
<1>1. job[w].step = "move"
  BY DEF CommitTransition
<1>2. o \in Orders /\ job[w].target \in OrderStatuses
  BY <1>1 DEF IndInv, JobOK
<1>3. /\ status' = [status EXCEPT ![o] = job[w].target] /\ Finish(w)
      /\ vouched' = IF job[w].target = "paid" THEN vouched \cup {o} ELSE vouched
      /\ UNCHANGED <<payment, captured, refunds, waived, lost, edited>>
  BY DEF CommitTransition
<1> HIDE DEF o
<1>4. payment' \in [Payments -> PaymentRow]
  BY <1>3 DEF IndInv, TypeOK
<1>5. job' \in [Workers -> Job] /\ JobsOK' /\ ChargesApart'
  BY <1>3, <1>4, OthersKeepTheirJobs
<1>6. TypeOK'
  BY <1>2, <1>3, <1>5 DEF IndInv, TypeOK
<1>7. LedgerAgrees'
  BY <1>1, <1>3, FinishedWithoutCapture DEF IndInv
<1>8. RefundsAreOfPayments'
  BY <1>3 DEF IndInv, RefundsAreOfPayments
<1> QED
  BY <1>5, <1>6, <1>7, <1>8 DEF IndInv, JobsOK

LEMMA MarkPaidInv ==
  ASSUME IndInv, NEW o \in Orders, MarkPaid(o)
  PROVE  IndInv'
<1>1. /\ status' = [status EXCEPT ![o] = "paid"] /\ vouched' = vouched \cup {o}
      /\ UNCHANGED <<payment, captured, refunds, job, waived, lost, edited>>
  BY DEF MarkPaid
<1>2. TypeOK'
  BY <1>1 DEF IndInv, TypeOK, OrderStatuses
<1> QED
  BY <1>1, <1>2 DEF IndInv, JobOK, ChargesApart, LedgerAgrees, RefundsAreOfPayments

LEMMA EditStatusInv ==
  ASSUME IndInv, NEW o \in Orders, NEW s \in OrderStatuses, EditStatus(o, s)
  PROVE  IndInv'
<1>1. status' \in [Orders -> OrderStatuses] /\ edited' \subseteq Orders
  BY DEF EditStatus, IndInv, TypeOK
<1>2. UNCHANGED <<payment, captured, refunds, job, vouched, waived, lost>>
  BY DEF EditStatus
<1>3. TypeOK'
  BY <1>1, <1>2 DEF IndInv, TypeOK
<1> QED
  BY <1>2, <1>3 DEF IndInv, JobOK, ChargesApart, LedgerAgrees, RefundsAreOfPayments

LEMMA MarkRefundedInv ==
  ASSUME IndInv, NEW p \in Payments, MarkRefunded(p)
  PROVE  IndInv'
<1>1. /\ payment[p].status = "succeeded" /\ payment \in [Payments -> PaymentRow]
      /\ payment' = [payment EXCEPT ![p] = [payment[p] EXCEPT !.status = "refunded"]]
      /\ waived' = waived \cup {p}
      /\ UNCHANGED <<status, captured, refunds, job, vouched, lost, edited>>
  BY DEF MarkRefunded, IndInv, TypeOK
<1>2. /\ payment' \in [Payments -> PaymentRow]
      /\ payment'[p].status = "refunded" /\ payment'[p].order = payment[p].order
      /\ \A q \in Payments \ {p} : payment'[q] = payment[q]
  BY <1>1 DEF PaymentRow
<1>3. TypeOK'
  BY <1>1, <1>2 DEF IndInv, TypeOK
<1>4. JobsOK'
  <2> SUFFICES ASSUME NEW v \in Workers PROVE JobOK(v)'
    BY DEF JobsOK
  <2>1. JobOK(v)
    BY DEF IndInv
  <2> QED
    BY <2>1, <1>1, <1>2 DEF JobOK
<1>5. ChargesApart'
  BY <1>1 DEF IndInv, ChargesApart
<1>6. LedgerAgrees'
  BY <1>1, <1>2 DEF IndInv, LedgerAgrees
<1>7. RefundsAreOfPayments'
  BY <1>1, <1>2 DEF IndInv, RefundsAreOfPayments
<1> QED
  BY <1>3, <1>4, <1>5, <1>6, <1>7 DEF IndInv, JobsOK

LEMMA DieInv ==
  ASSUME IndInv, NEW w \in Workers, Die(w)
  PROVE  IndInv'
<1>1. /\ lost' = IF job[w].step = "charged" /\ job[w].result = "success"
                 THEN lost \cup {job[w].payment} ELSE lost
      /\ Finish(w)
      /\ UNCHANGED <<status, payment, captured, refunds, vouched, waived, edited>>
  BY DEF Die
<1>2. payment' \in [Payments -> PaymentRow]
  BY <1>1 DEF IndInv, TypeOK
<1>3. job' \in [Workers -> Job] /\ JobsOK' /\ ChargesApart'
  BY <1>1, <1>2, OthersKeepTheirJobs
<1>4. lost \subseteq lost' /\ lost' \subseteq Payments
  BY <1>1 DEF IndInv, JobOK, TypeOK
<1>5. TypeOK'
  BY <1>1, <1>3, <1>4 DEF IndInv, TypeOK
<1>6. LedgerAgrees'
  <2> SUFFICES ASSUME NEW q \in Payments, q \in captured
               PROVE  \/ payment[q].status \in {"succeeded", "refunded"}
                      \/ \E v \in Workers : job'[v].payment = q /\ job'[v].step = "charged"
                      \/ q \in lost'
    BY <1>1 DEF IndInv, LedgerAgrees
  <2>1. CASE \E v \in Workers : job[v].payment = q /\ job[v].step = "charged"
    <3> PICK v \in Workers : job[v].payment = q /\ job[v].step = "charged"
      BY <2>1
    <3>1. CASE v = w
      BY <3>1, <1>1 DEF IndInv, JobOK
    <3>2. CASE v # w
      BY <3>2, <1>1 DEF Finish, IndInv, TypeOK
    <3> QED
      BY <3>1, <3>2
  <2>2. CASE ~ \E v \in Workers : job[v].payment = q /\ job[v].step = "charged"
    BY <2>2, <1>4 DEF IndInv, LedgerAgrees
  <2> QED
    BY <2>1, <2>2
<1>7. RefundsAreOfPayments'
  BY <1>1 DEF IndInv, RefundsAreOfPayments
<1> QED
  BY <1>3, <1>5, <1>6, <1>7 DEF IndInv, JobsOK

LEMMA NextInv == IndInv /\ [Next]_vars => IndInv'
<1> SUFFICES ASSUME IndInv, [Next]_vars PROVE IndInv'
  OBVIOUS
<1>1. CASE UNCHANGED vars
  <2>1. TypeOK'
    BY <1>1 DEF vars, IndInv, TypeOK
  <2> QED
    BY <2>1, <1>1 DEF vars, IndInv, JobOK, ChargesApart, LedgerAgrees, RefundsAreOfPayments
<1>2. ASSUME NEW w \in Workers, NEW o \in Orders, NEW p \in Payments, BeginCharge(w, o, p)
      PROVE  IndInv'
  BY <1>2, BeginChargeInv
<1>3. ASSUME NEW w \in Workers, NEW r \in {"success", "failure"}, GatewayCharge(w, r)
      PROVE  IndInv'
  BY <1>3, GatewayChargeInv
<1>4. ASSUME NEW w \in Workers, CommitCharge(w) PROVE IndInv'
  BY <1>4, CommitChargeInv
<1>5. ASSUME NEW w \in Workers, NEW p \in Payments, BeginRefund(w, p) PROVE IndInv'
  BY <1>5, BeginRefundInv
<1>6. ASSUME NEW w \in Workers, NEW r \in {"success", "failure"}, GatewayRefund(w, r)
      PROVE  IndInv'
  BY <1>6, GatewayRefundInv
<1>7. ASSUME NEW w \in Workers, CommitRefund(w) PROVE IndInv'
  BY <1>7, CommitRefundInv
<1>8. ASSUME NEW w \in Workers, NEW o \in Orders, NEW target \in OrderStatuses,
             BeginTransition(w, o, target)
      PROVE  IndInv'
  BY <1>8, BeginTransitionInv
<1>9. ASSUME NEW w \in Workers, CommitTransition(w) PROVE IndInv'
  BY <1>9, CommitTransitionInv
<1>10. ASSUME NEW w \in Workers, Die(w) PROVE IndInv'
  BY <1>10, DieInv
<1>11. CASE AdminAction
  BY <1>11, MarkPaidInv, EditStatusInv, MarkRefundedInv DEF AdminAction
<1> QED
  BY <1>1, <1>2, <1>3, <1>4, <1>5, <1>6, <1>7, <1>8, <1>9, <1>10, <1>11 DEF Next, Serve

\* The conjunction that the steps of Payments preserve, whoever dies in the
\* middle of a charge or refund.
THEOREM Inductive == Spec => []IndInv
<1>1. Init => IndInv
  BY InitInv
<1>2. IndInv /\ [Next]_vars => IndInv'
  BY NextInv
<1> QED
  BY <1>1, <1>2, PTL DEF Spec

\* The variables keep their types, and the rows without an order are those
\* not inserted.
THEOREM TypeCorrect == Spec => []TypeOK
<1>1. IndInv => TypeOK
  BY DEF IndInv
<1> QED
  BY <1>1, Inductive, PTL

\* The payments table and the gateway agree on whose money was taken, except
\* for charges whose process died (PaymentService.charge).
THEOREM LedgerIsRight == Spec => []LedgerAgrees
<1>1. IndInv => LedgerAgrees
  BY DEF IndInv
<1> QED
  BY <1>1, Inductive, PTL

\* Only money on record as paid is given back (PaymentService.refund).
THEOREM RefundsAreRight == Spec => []RefundsAreOfPayments
<1>1. IndInv => RefundsAreOfPayments
  BY DEF IndInv
<1> QED
  BY <1>1, Inductive, PTL

-----------------------------------------------------------------------------
(***************************************************************************)
(* A settled payment stays settled.                                        *)
(***************************************************************************)
Settled(p) ==
  payment[p].status # "absent" =>
    \/ payment'[p] = payment[p]
    \/ /\ payment[p].status = "succeeded"
       /\ payment'[p] = [payment[p] EXCEPT !.status = "refunded"]

LEMMA StepSettles ==
  ASSUME IndInv, Next, NEW p \in Payments
  PROVE  Settled(p)
<1>1. payment \in [Payments -> PaymentRow] /\ payment[p] \in PaymentRow
  BY DEF IndInv, TypeOK
<1>2. CASE UNCHANGED payment
  BY <1>2 DEF Settled
<1>3. ASSUME NEW w \in Workers, CommitCharge(w) PROVE Settled(p)
  <2>1. payment[job[w].payment].status = "absent"
    BY <1>3 DEF CommitCharge, IndInv, JobOK
  <2>2. payment' = [payment EXCEPT ![job[w].payment] =
          [order |-> job[w].order, status |-> SettledStatus(job[w].result)]]
    BY <1>3 DEF CommitCharge
  <2> QED
    BY <1>1, <2>1, <2>2 DEF Settled
<1>4. ASSUME NEW w \in Workers, CommitRefund(w) PROVE Settled(p)
  <2> DEFINE q == job[w].payment
             row == [payment[q] EXCEPT !.status = StatusAfterRefund(w)]
  <2>1. q \in Payments /\ payment[q].status \in {"succeeded", "refunded"}
    BY <1>4 DEF CommitRefund, IndInv, JobOK
  <2>2. payment' = [payment EXCEPT ![q] = row]
    BY <1>4 DEF CommitRefund
  <2>3. payment[q] \in PaymentRow
    BY <1>1, <2>1
  <2>4. row = payment[q] \/ row = [payment[q] EXCEPT !.status = "refunded"]
    BY <2>3 DEF StatusAfterRefund, PaymentRow
  <2>5. payment[q].status = "refunded" => [payment[q] EXCEPT !.status = "refunded"] = payment[q]
    BY <2>3 DEF PaymentRow
  <2> HIDE DEF q, row
  <2>6. CASE p = q
    BY <2>6, <1>1, <2>1, <2>2, <2>4, <2>5 DEF Settled
  <2>7. CASE p # q
    BY <2>7, <1>1, <2>1, <2>2 DEF Settled
  <2> QED
    BY <2>6, <2>7
<1>5. ASSUME NEW q \in Payments, MarkRefunded(q) PROVE Settled(p)
  BY <1>1, <1>5 DEF MarkRefunded, Settled
<1> QED
  BY <1>2, <1>3, <1>4, <1>5
  DEF Next, BeginCharge, GatewayCharge, BeginRefund, GatewayRefund, BeginTransition,
      CommitTransition, Serve, AdminAction, MarkPaid, EditStatus, Die

\* What is on record of a settled payment is never rewritten, save that a
\* succeeded payment is refunded, whatever two refunds save in which order
\* (PaymentService.refund, PaymentAdmin.mark_refunded).
THEOREM SettledPaymentsStay == Spec => SettledStays
<1>1. IndInv /\ [Next]_vars => [\A p \in Payments : Settled(p)]_vars
  BY StepSettles
<1>2. [\A p \in Payments : Settled(p)]_vars
        <=> [\A p \in Payments : payment[p].status # "absent" =>
               \/ payment'[p] = payment[p]
               \/ /\ payment[p].status = "succeeded"
                  /\ payment'[p] = [payment[p] EXCEPT !.status = "refunded"]]_vars
  BY DEF Settled
<1> QED
  BY <1>1, <1>2, Inductive, PTL DEF Spec, SettledStays

-----------------------------------------------------------------------------
(***************************************************************************)
(* An order past pending is paid for.  The transition that staff have      *)
(* begun must be strong enough to carry the fact over to its commit:       *)
(* between the two, the order it read may have changed.                    *)
(***************************************************************************)
Backed(o) ==
  \/ o \in vouched \cup edited
  \/ \E p \in Payments :
       payment[p].order = o /\ payment[p].status \in {"succeeded", "refunded"}

MovesAreBacked ==
  \A w \in Workers : job[w].step = "move" =>
    job[w].target \in {"pending", "cancelled", "paid"} \/ Backed(job[w].order)

PaidInv == PaidOrdersArePaidFor /\ MovesAreBacked

LEMMA BackedStays ==
  ASSUME IndInv, Next, NEW o \in Orders, Backed(o)
  PROVE  Backed(o)'
<1>1. vouched \subseteq vouched' /\ edited \subseteq edited'
  BY DEF Next, Serve, EditStatus, BeginCharge, GatewayCharge, CommitCharge, BeginRefund, GatewayRefund,
         CommitRefund, BeginTransition, CommitTransition, Die, AdminAction, MarkPaid,
         MarkRefunded
<1>2. ASSUME NEW p \in Payments, payment[p].order = o,
             payment[p].status \in {"succeeded", "refunded"}
      PROVE  payment'[p].order = o /\ payment'[p].status \in {"succeeded", "refunded"}
  <2>1. payment[p] \in PaymentRow
    BY DEF IndInv, TypeOK
  <2>2. \/ payment'[p] = payment[p]
        \/ payment'[p] = [payment[p] EXCEPT !.status = "refunded"]
    BY <1>2, StepSettles DEF Settled
  <2> QED
    BY <1>2, <2>1, <2>2 DEF PaymentRow
<1> QED
  BY <1>1, <1>2 DEF Backed

LEMMA PaidNext == IndInv /\ PaidInv /\ [Next]_vars => PaidInv'
<1> SUFFICES ASSUME IndInv, PaidInv, [Next]_vars PROVE PaidInv'
  OBVIOUS
<1>1. CASE UNCHANGED vars
  BY <1>1 DEF vars, PaidInv, PaidOrdersArePaidFor, MovesAreBacked, Backed
<1>2. CASE Next
  <2>1. \A o \in Orders : Backed(o) => Backed(o)'
    BY <1>2, BackedStays
  <2>2. \A w \in Workers : job[w].step = "move" =>
           job[w].order \in Orders /\ job[w].target \in OrderStatuses
    BY DEF IndInv, JobOK
  <2>3. /\ status \in [Orders -> OrderStatuses] /\ job \in [Workers -> Job]
        /\ payment \in [Payments -> PaymentRow]
    BY DEF IndInv, TypeOK
  <2>4. \A o \in Orders : status[o] \in {"pending", "cancelled"} \/ Backed(o)
    BY DEF PaidInv, PaidOrdersArePaidFor, Backed
  <2>5. PaidOrdersArePaidFor'
    <3> SUFFICES ASSUME NEW o \in Orders
                 PROVE  status'[o] \in {"pending", "cancelled"} \/ Backed(o)'
      BY DEF PaidOrdersArePaidFor, Backed
    <3>1. CASE status'[o] = status[o]
      BY <3>1, <2>1, <2>4
    <3>2. ASSUME NEW w \in Workers, CommitCharge(w), status'[o] # status[o]
          PROVE  Backed(o)'
      <4>1. /\ job[w].order = o /\ job[w].result = "success"
        BY <3>2, <2>3 DEF CommitCharge, PaidAfter
      <4>2. job[w].payment \in Payments
        BY <3>2 DEF CommitCharge, IndInv, JobOK
      <4>3. payment'[job[w].payment] = [order |-> o, status |-> "succeeded"]
        BY <3>2, <4>1, <4>2, <2>3 DEF CommitCharge, SettledStatus
      <4> QED
        BY <4>2, <4>3 DEF Backed
    <3>3. ASSUME NEW w \in Workers, CommitTransition(w), status'[o] # status[o]
          PROVE  status'[o] \in {"pending", "cancelled"} \/ Backed(o)'
      <4>1. job[w].order = o /\ job[w].step = "move" /\ status'[o] = job[w].target
        BY <3>3, <2>3 DEF CommitTransition
      <4>2. CASE job[w].target = "paid"
        BY <3>3, <4>1, <4>2 DEF CommitTransition, Backed
      <4>3. CASE job[w].target # "paid"
        BY <4>1, <4>3, <2>1 DEF PaidInv, MovesAreBacked
      <4> QED
        BY <4>2, <4>3
    <3>4. ASSUME NEW q \in Orders, MarkPaid(q), status'[o] # status[o]
          PROVE  Backed(o)'
      BY <3>4, <2>3 DEF MarkPaid, Backed
    <3>5. ASSUME NEW q \in Orders, NEW s \in OrderStatuses, EditStatus(q, s),
                 status'[o] # status[o]
          PROVE  Backed(o)'
      BY <3>5, <2>3 DEF EditStatus, Backed
    <3> QED
      BY <1>2, <3>1, <3>2, <3>3, <3>4, <3>5
      DEF Next, Serve, BeginCharge, GatewayCharge, BeginRefund, GatewayRefund, CommitRefund,
          BeginTransition, AdminAction, MarkRefunded, Die
  <2>6. MovesAreBacked'
    <3> SUFFICES ASSUME NEW w \in Workers, job'[w].step = "move"
                 PROVE  \/ job'[w].target \in {"pending", "cancelled", "paid"}
                        \/ \E o \in Orders : o = job'[w].order /\ Backed(o)'
      BY DEF MovesAreBacked, Backed
    <3>1. CASE job'[w] = job[w]
      BY <3>1, <2>1, <2>2 DEF PaidInv, MovesAreBacked
    <3>2. ASSUME NEW o \in Orders, NEW target \in OrderStatuses, BeginTransition(w, o, target)
          PROVE  \/ job'[w].target \in {"pending", "cancelled", "paid"}
                 \/ o = job'[w].order /\ Backed(o)'
      <4>1. job'[w].order = o /\ job'[w].target = target
        BY <3>2, <2>3 DEF BeginTransition, Idle
      <4>2. CASE status[o] \in {"pending", "cancelled"}
        BY <3>2, <4>1, <4>2 DEF BeginTransition, CanTransition, Graph
      <4>3. CASE Backed(o)
        BY <4>1, <4>3, <2>1
      <4> QED
        BY <4>2, <4>3, <2>4
    <3>3. job'[w] = job[w] \/ \E o \in Orders, target \in OrderStatuses :
                                 BeginTransition(w, o, target)
      <4>1. ASSUME NEW v \in Workers, NEW o \in Orders, NEW target \in OrderStatuses,
                   BeginTransition(v, o, target)
            PROVE  v = w \/ job'[w] = job[w]
        BY <4>1, <2>3 DEF BeginTransition
      <4>2. ASSUME NEW v \in Workers, NEW o \in Orders, NEW p \in Payments,
                   BeginCharge(v, o, p)
            PROVE  job'[w] = job[w]
        BY <4>2, <2>3 DEF BeginCharge, Idle
      <4>3. ASSUME NEW v \in Workers, NEW r \in {"success", "failure"},
                   GatewayCharge(v, r) \/ GatewayRefund(v, r)
            PROVE  job'[w] = job[w]
        BY <4>3, <2>3 DEF GatewayCharge, GatewayRefund, Job
      <4>4. ASSUME NEW v \in Workers, NEW p \in Payments, BeginRefund(v, p)
            PROVE  job'[w] = job[w]
        BY <4>4, <2>3 DEF BeginRefund, Idle
      <4>5. ASSUME NEW v \in Workers, Finish(v) PROVE job'[w] = job[w]
        BY <4>5, <2>3 DEF Finish, Idle
      <4> QED
        BY <1>2, <4>1, <4>2, <4>3, <4>4, <4>5
        DEF Next, Serve, CommitCharge, CommitRefund, CommitTransition, Die, AdminAction,
            MarkPaid, EditStatus, MarkRefunded
    <3> QED
      BY <3>1, <3>2, <3>3
  <2> QED
    BY <2>5, <2>6 DEF PaidInv
<1> QED
  BY <1>1, <1>2

\* Nothing is sent out that nobody paid for: an order past pending has a
\* payment of its own or the staff's word for it (PaymentService.charge,
\* OrderService.transition_status, OrderAdmin.mark_paid).
THEOREM PaidOrdersAreBacked == Spec => []PaidOrdersArePaidFor
<1>1. Init => PaidInv
  BY DEF Init, PaidInv, PaidOrdersArePaidFor, MovesAreBacked, Idle
<1>2. IndInv /\ PaidInv /\ [Next]_vars => PaidInv'
  BY PaidNext
<1>3. PaidInv => PaidOrdersArePaidFor
  BY DEF PaidInv
<1> QED
  BY <1>1, <1>2, <1>3, Inductive, PTL DEF Spec

-----------------------------------------------------------------------------
(***************************************************************************)
(* Serial requests.  What a request has read still holds when it writes,   *)
(* and a payment is given back once.                                       *)
(***************************************************************************)
\* The request has given p back, and not committed it.
Flying(j, p) == j.step = "refunded" /\ j.result = "success" /\ j.payment = p

\* What a request has seen of the rows: the order it charges is pending, the payment it
\* refunds succeeded, and an order it moves has the status it moves it from.
Follows(j) ==
  /\ j.step \in {"charge", "charged"} => j.seen = "pending" /\ status[j.order] = "pending"
  /\ j.step \in {"refund", "refunded"} => payment[j.payment].status = "succeeded"
  /\ j.step = "refund" => refunds[j.payment] = 0
  /\ j.step = "refunded" /\ j.result = "success" => refunds[j.payment] = 1
  /\ j.step = "refunded" /\ j.result # "success" => refunds[j.payment] = 0
  /\ j.step = "move" => j.seen = status[j.order] /\ CanTransition(j.seen, j.target)

\* With only request j: a payment was given back once at most, and it is on record as refunded
\* unless j is about to record it.
Counts(re, pa, j) ==
  \A p \in Payments :
    /\ re[p] \in {0, 1}
    /\ pa[p].status # "refunded" => re[p] = 0 \/ Flying(j, p)

Alone(jo, w) == \A v \in Workers \ {w} : jo[v] = Idle

SerialInv ==
  /\ \A v, w \in Workers : job[v] # Idle /\ job[w] # Idle => v = w
  /\ \A w \in Workers : Follows(job[w])
  /\ IsFiniteSet(captured)
  /\ \A w \in Workers : Alone(job, w) => Counts(refunds, payment, job[w])

\* An idle worker has given nothing back.
LEMMA IdleIsNothing == Idle.step = "idle" /\ \A p : ~ Flying(Idle, p)
BY DEF Idle, Flying

\* An idle worker has seen nothing.
LEMMA IdleFollows == Follows(Idle) /\ Follows(Idle)'
<1>1. Idle.step = "idle"
  BY IdleIsNothing
<1>2. Follows(Idle)
  BY <1>1 DEF Follows
<1>3. Follows(Idle)'
  BY <1>1 DEF Follows
<1> QED BY <1>2, <1>3

\* A request that is served is the only one.
LEMMA OthersIdle ==
  ASSUME SerialInv, NEW w \in Workers, job[w].step # "idle"
  PROVE  Alone(job, w) /\ Follows(job[w]) /\ Counts(refunds, payment, job[w])
<1>1. job[w] # Idle
  BY IdleIsNothing
<1>2. Alone(job, w)
  BY <1>1 DEF SerialInv, Alone
<1> QED BY <1>2 DEF SerialInv

\* A request that begins is the only one.
LEMMA BeginsAlone ==
  ASSUME IndInv, SerialInv, OneAtATime, NEW w \in Workers, NEW j, j.step # "idle",
         job' = [job EXCEPT ![w] = j], job[w] = Idle
  PROVE  Alone(job, w) /\ Counts(refunds, payment, Idle)
<1>1. \A v \in Workers : job'[v] = IF v = w THEN j ELSE job[v]
  BY DEF IndInv, TypeOK
<1>2. job'[w] # Idle
  BY <1>1, IdleIsNothing
<1>3. Alone(job, w)
  BY <1>1, <1>2 DEF OneAtATime, Alone
<1> QED BY <1>3 DEF SerialInv

\* A step of the only request keeps the invariant if it has seen the rows as they are and they
\* still count.
LEMMA SerialKeeps ==
  ASSUME IndInv, NEW w \in Workers, NEW j, job' = [job EXCEPT ![w] = j], Alone(job, w),
         Follows(j)', IsFiniteSet(captured'), Counts(refunds', payment', j)
  PROVE  SerialInv' /\ Alone(job', w) /\ job'[w] = j
<1>1. \A v \in Workers : job'[v] = IF v = w THEN j ELSE Idle
  BY DEF IndInv, TypeOK, Alone
<1>2. ASSUME NEW v \in Workers PROVE Follows(job[v])'
  <2>1. CASE v = w
    <3>1. job'[v] = j
      BY <1>1, <2>1
    <3> QED BY <3>1 DEF Follows
  <2>2. CASE v # w
    <3>1. job'[v] = Idle
      BY <1>1, <2>2
    <3> QED BY <3>1, IdleFollows DEF Follows
  <2> QED BY <2>1, <2>2
<1>3. ASSUME NEW v \in Workers, Alone(job', v)
      PROVE  Counts(refunds', payment', job'[v])
  <2>1. job'[v] = j \/ (job'[v] = Idle /\ job'[w] = j /\ job'[w] = Idle)
    BY <1>1, <1>3 DEF Alone
  <2> QED BY <2>1
<1>4. \A v, x \in Workers : job'[v] # Idle /\ job'[x] # Idle => v = x
  BY <1>1
<1>5. Alone(job', w) /\ job'[w] = j
  BY <1>1 DEF Alone
<1> QED BY <1>2, <1>3, <1>4, <1>5 DEF SerialInv

-----------------------------------------------------------------------------
(***************************************************************************)
(* What the shop holds for an order, of any tables and requests, so that   *)
(* it can be stated of those before and after a step: with one request at  *)
(* a time it is the number of the order's payments that were not given     *)
(* back.                                                                   *)
(***************************************************************************)
BackOf(re, jo, p) ==
  re[p] - Cardinality({w \in Workers :
            jo[w].step = "refunded" /\ jo[w].payment = p /\ jo[w].result = "success"})

Paid(ca, pa, o) == {p \in ca : pa[p].order = o}

GivenOf(ca, pa, re, jo, o) ==
  {r \in Paid(ca, pa, o) \X (1 .. MaxRefunds) : r[2] <= BackOf(re, jo, r[1])}

HeldOf(ca, pa, re, jo, o) ==
  Cardinality(Paid(ca, pa, o)) - Cardinality(GivenOf(ca, pa, re, jo, o))

\* The balances of Payments, before and after a step.
LEMMA BalanceIs ==
  /\ Balance = [o \in Orders |-> HeldOf(captured, payment, refunds, job, o)]
  /\ Balance' = [o \in Orders |-> HeldOf(captured', payment', refunds', job', o)]
BY DEF Balance, Held, PaymentsOf, RefundsOf, Back, InFlight, HeldOf, GivenOf, Paid, BackOf

\* The payments of o that were not given back, with only request j.
Kept(ca, pa, re, j, o) == {p \in ca : pa[p].order = o /\ (re[p] = 0 \/ Flying(j, p))}

\* Some of a finite set, each counted once or not at all.
LEMMA CountedOnce ==
  ASSUME NEW S, IsFiniteSet(S), NEW K \in SUBSET S, NEW n \in Nat, NEW B,
         B \subseteq S \X (1 .. n),
         \A p \in S, m \in 1 .. n : <<p, m>> \in B <=> p \notin K /\ m = 1,
         (\E p \in S : p \notin K) => n > 0
  PROVE  Cardinality(S) - Cardinality(B) = Cardinality(K) /\ IsFiniteSet(K)
<1> DEFINE R == S \ K
<1>1. B = R \X {1}
  <2>1. ASSUME NEW b, b \in B PROVE b \in R \X {1}
    <3>1. PICK p \in S, m \in 1 .. n : b = <<p, m>>
      BY <2>1
    <3> QED BY <2>1, <3>1
  <2>2. ASSUME NEW b, b \in R \X {1} PROVE b \in B
    <3>1. PICK p \in R : b = <<p, 1>>
      BY <2>2
    <3>2. 1 \in 1 .. n
      BY <3>1
    <3> QED BY <3>1, <3>2
  <2> QED BY <2>1, <2>2
<1>2. IsFiniteSet(K) /\ Cardinality(K) \in Nat /\ Cardinality(S) \in Nat
  BY FS_Subset, FS_CardinalityType
<1>3. IsFiniteSet(R) /\ Cardinality(R) = Cardinality(S) - Cardinality(K) /\ Cardinality(R) \in Nat
  <2>1. S \cap K = K
    OBVIOUS
  <2>2. IsFiniteSet(R) /\ Cardinality(R) = Cardinality(S) - Cardinality(S \cap K)
    BY FS_Difference
  <2>3. Cardinality(R) \in Nat
    BY <2>2, FS_CardinalityType
  <2> QED BY <2>1, <2>2, <2>3
<1>4. Cardinality(B) = Cardinality(R) * 1
  <2>1. IsFiniteSet({1}) /\ Cardinality({1}) = 1
    BY FS_Singleton
  <2>2. Cardinality(R \X {1}) = Cardinality(R) * Cardinality({1})
    BY <1>3, <2>1, FS_Product
  <2> QED BY <1>1, <2>1, <2>2
<1> HIDE DEF R
<1>5. Cardinality(B) = Cardinality(R)
  BY <1>3, <1>4
<1> QED BY <1>2, <1>3, <1>5

\* With only request j, what is held for an order is the number of its payments that are kept.
LEMMA HeldIsKept ==
  ASSUME NEW ca \in SUBSET Payments, IsFiniteSet(ca), NEW pa, NEW re, NEW jo, NEW w \in Workers,
         Alone(jo, w), NEW j, jo[w] = j, Counts(re, pa, j),
         \A p \in Payments : Flying(j, p) => re[p] = 1,
         \A p \in Payments : re[p] <= MaxRefunds,
         NEW o
  PROVE  /\ HeldOf(ca, pa, re, jo, o) = Cardinality(Kept(ca, pa, re, j, o))
         /\ IsFiniteSet(Kept(ca, pa, re, j, o))
<1> DEFINE S == Paid(ca, pa, o)
           K == Kept(ca, pa, re, j, o)
           B == GivenOf(ca, pa, re, jo, o)
<1>1. ASSUME NEW p \in Payments
      PROVE  BackOf(re, jo, p) = IF re[p] = 0 \/ Flying(j, p) THEN 0 ELSE 1
  <2>1. re[p] \in {0, 1}
    BY DEF Counts
  <2> DEFINE F == {v \in Workers :
                     jo[v].step = "refunded" /\ jo[v].payment = p /\ jo[v].result = "success"}
  <2>2. CASE Flying(j, p)
    <3>1. F = {w}
      BY <2>2, IdleIsNothing DEF Alone, Flying
    <3>2. Cardinality(F) = 1
      BY <3>1, FS_Singleton
    <3> HIDE DEF F
    <3>3. re[p] - Cardinality(F) = 0
      BY <2>2, <3>2
    <3> QED BY <2>2, <3>3 DEF BackOf, F
  <2>3. CASE ~ Flying(j, p)
    <3>1. F = {}
      BY <2>3, IdleIsNothing DEF Alone, Flying
    <3>2. Cardinality(F) = 0
      BY <3>1, FS_EmptySet
    <3> HIDE DEF F
    <3>3. re[p] - Cardinality(F) = re[p]
      BY <2>1, <3>2
    <3>4. BackOf(re, jo, p) = re[p]
      BY <3>3 DEF BackOf, F
    <3> QED BY <2>1, <2>3, <3>4
  <2> QED BY <2>2, <2>3
<1>2. IsFiniteSet(S) /\ S \subseteq Payments /\ K \in SUBSET S
  <2>1. S \in SUBSET ca /\ K \in SUBSET S
    BY DEF Paid, Kept
  <2> QED BY <2>1, FS_Subset
<1>3. \A p \in S : p \in K <=> re[p] = 0 \/ Flying(j, p)
  BY DEF Paid, Kept
<1>4. B \subseteq S \X (1 .. MaxRefunds)
  BY DEF GivenOf
<1>5. \A p \in S, m \in 1 .. MaxRefunds : <<p, m>> \in B <=> m <= BackOf(re, jo, p)
  BY DEF GivenOf
<1> HIDE DEF S, K, B
<1>6. \A p \in S, m \in 1 .. MaxRefunds : <<p, m>> \in B <=> p \notin K /\ m = 1
  <2> SUFFICES ASSUME NEW p \in S, NEW m \in 1 .. MaxRefunds
               PROVE  <<p, m>> \in B <=> p \notin K /\ m = 1
    BY Zenon
  <2>1. PICK b : b = BackOf(re, jo, p)
    OBVIOUS
  <2>2. m \in Nat /\ m >= 1 /\ (<<p, m>> \in B <=> m <= b)
    BY <1>5, <2>1, MaxRefundsAssumption
  <2>3. p \in K => b = 0
    BY <1>1, <1>2, <1>3, <2>1
  <2>4. p \notin K => b = 1
    BY <1>1, <1>2, <1>3, <2>1
  <2> QED BY <2>2, <2>3, <2>4
<1>7. (\E p \in S : p \notin K) => MaxRefunds > 0
  <2> SUFFICES ASSUME NEW p \in S, p \notin K PROVE MaxRefunds > 0
    OBVIOUS
  <2>1. re[p] = 1
    BY <1>2, <1>3 DEF Counts
  <2> QED BY <1>2, <2>1, MaxRefundsAssumption
<1>8. Cardinality(S) - Cardinality(B) = Cardinality(K) /\ IsFiniteSet(K)
  BY <1>2, <1>4, <1>6, <1>7, MaxRefundsAssumption, CountedOnce
<1> QED BY <1>8 DEF HeldOf, S, K, B

\* The balances while only one request is served, and after its step.
LEMMA BalanceBefore ==
  ASSUME IndInv, SerialInv, NEW w \in Workers, Alone(job, w)
  PROVE  /\ Balance = [o \in Orders |-> Cardinality(Kept(captured, payment, refunds, job[w], o))]
         /\ \A o \in Orders : IsFiniteSet(Kept(captured, payment, refunds, job[w], o))
<1>1. captured \in SUBSET Payments /\ refunds \in [Payments -> 0 .. MaxRefunds]
  BY DEF IndInv, TypeOK
<1>2. Counts(refunds, payment, job[w]) /\ IsFiniteSet(captured) /\ Follows(job[w])
  BY DEF SerialInv
<1>3. \A p \in Payments : Flying(job[w], p) => refunds[p] = 1
  BY <1>2 DEF Follows, Flying
<1>4. \A p \in Payments : refunds[p] <= MaxRefunds
  BY <1>1, MaxRefundsAssumption
<1>5. ASSUME NEW o \in Orders
      PROVE  /\ HeldOf(captured, payment, refunds, job, o)
                  = Cardinality(Kept(captured, payment, refunds, job[w], o))
             /\ IsFiniteSet(Kept(captured, payment, refunds, job[w], o))
  BY <1>1, <1>2, <1>3, <1>4, HeldIsKept
<1> QED BY <1>5, BalanceIs

LEMMA BalanceAfter ==
  ASSUME IndInv', SerialInv', NEW w \in Workers, Alone(job', w)
  PROVE  Balance' = [o \in Orders |-> Cardinality(Kept(captured', payment', refunds', job'[w], o))]
<1>1. captured' \in SUBSET Payments /\ refunds' \in [Payments -> 0 .. MaxRefunds]
  BY DEF IndInv, TypeOK
<1>2. Counts(refunds', payment', job'[w]) /\ IsFiniteSet(captured') /\ Follows(job[w])'
  BY DEF SerialInv
<1>3. \A p \in Payments : Flying(job'[w], p) => refunds'[p] = 1
  BY <1>2 DEF Follows, Flying
<1>4. \A p \in Payments : refunds'[p] <= MaxRefunds
  BY <1>1, MaxRefundsAssumption
<1>5. ASSUME NEW o \in Orders
      PROVE  HeldOf(captured', payment', refunds', job', o)
               = Cardinality(Kept(captured', payment', refunds', job'[w], o))
  BY <1>1, <1>2, <1>3, <1>4, HeldIsKept
<1> QED BY <1>5, BalanceIs

-----------------------------------------------------------------------------
(***************************************************************************)
(* Each step of a serial request keeps SerialInv, and is one of            *)
(* AtomicPayments or changes nothing that it sees.                         *)
(***************************************************************************)
Unseen == UNCHANGED <<status, Balance, edited>>

\* A step changes no balance if it keeps each payment of an order that is not given back.
LEMMA SameBalance ==
  ASSUME IndInv, IndInv', SerialInv, SerialInv', NEW w \in Workers, Alone(job, w), Alone(job', w),
         NEW i, NEW j, job[w] = i, job'[w] = j,
         \A p \in Payments, o \in Orders :
           (p \in captured' /\ payment'[p].order = o /\ (refunds'[p] = 0 \/ Flying(j, p)))
             <=> (p \in captured /\ payment[p].order = o /\ (refunds[p] = 0 \/ Flying(i, p)))
  PROVE  Balance' = Balance
<1>1. captured \subseteq Payments /\ captured' \subseteq Payments
  BY DEF IndInv, TypeOK
<1>2. ASSUME NEW o \in Orders
      PROVE  Kept(captured', payment', refunds', j, o) = Kept(captured, payment, refunds, i, o)
  BY <1>1 DEF Kept
<1>3. Balance = [o \in Orders |-> Cardinality(Kept(captured, payment, refunds, i, o))]
  BY BalanceBefore
<1>4. Balance' = [o \in Orders |-> Cardinality(Kept(captured', payment', refunds', j, o))]
  BY BalanceAfter
<1> QED BY <1>2, <1>3, <1>4

\* A request that begins and has seen the rows as they are.
LEMMA BeginStep ==
  ASSUME NEW w \in Workers, NEW j, IndInv, IndInv', SerialInv, OneAtATime,
         j.step \in {"charge", "refund", "move"}, job[w] = Idle, job' = [job EXCEPT ![w] = j],
         Follows(j)', status' = status, payment' = payment, captured' = captured,
         refunds' = refunds, edited' = edited
  PROVE  SerialInv' /\ Unseen
<1>1. Alone(job, w) /\ Counts(refunds, payment, Idle)
  BY BeginsAlone
<1>2. \A p : ~ Flying(Idle, p) /\ ~ Flying(j, p)
  BY IdleIsNothing DEF Flying
<1>3. Counts(refunds', payment', j) /\ IsFiniteSet(captured')
  BY <1>1, <1>2 DEF Counts, SerialInv
<1>4. SerialInv' /\ Alone(job', w) /\ job'[w] = j
  BY <1>1, <1>3, SerialKeeps
<1>5. Balance' = Balance
  BY <1>1, <1>2, <1>4, SameBalance
<1> QED BY <1>4, <1>5 DEF Unseen

LEMMA BeginChargeStep ==
  ASSUME IndInv, IndInv', SerialInv, OneAtATime, NEW w \in Workers, NEW o \in Orders,
         NEW p \in Payments, BeginCharge(w, o, p)
  PROVE  SerialInv' /\ Unseen
<1>1. PICK j : j = [Idle EXCEPT !.step = "charge", !.order = o, !.payment = p, !.seen = status[o]]
  OBVIOUS
<1>2. j.step = "charge" /\ j.order = o /\ j.seen = status[o]
  BY <1>1 DEF Idle
<1>3. /\ job[w] = Idle /\ job' = [job EXCEPT ![w] = j] /\ status[o] = "pending"
      /\ UNCHANGED <<status, payment, captured, refunds, edited>>
  BY <1>1 DEF BeginCharge, Chargeable
<1>4. Follows(j)'
  BY <1>2, <1>3 DEF Follows
<1> QED BY <1>2, <1>3, <1>4, BeginStep

LEMMA BeginRefundStep ==
  ASSUME IndInv, IndInv', SerialInv, OneAtATime, NEW w \in Workers, NEW p \in Payments,
         BeginRefund(w, p)
  PROVE  SerialInv' /\ Unseen
<1>1. PICK j : j = [Idle EXCEPT !.step = "refund", !.payment = p]
  OBVIOUS
<1>2. j.step = "refund" /\ j.payment = p
  BY <1>1 DEF Idle
<1>3. /\ job[w] = Idle /\ job' = [job EXCEPT ![w] = j] /\ payment[p].status = "succeeded"
      /\ UNCHANGED <<status, payment, captured, refunds, edited>>
  BY <1>1 DEF BeginRefund, Refundable
<1>4. Counts(refunds, payment, Idle)
  BY <1>2, <1>3, BeginsAlone
<1>5. refunds[p] = 0
  BY <1>3, <1>4, IdleIsNothing DEF Counts
<1>6. Follows(j)'
  BY <1>2, <1>3, <1>5 DEF Follows
<1> QED BY <1>2, <1>3, <1>6, BeginStep

LEMMA BeginTransitionStep ==
  ASSUME IndInv, IndInv', SerialInv, OneAtATime, NEW w \in Workers, NEW o \in Orders, NEW to,
         BeginTransition(w, o, to)
  PROVE  SerialInv' /\ Unseen
<1>1. PICK j : j = [Idle EXCEPT !.step = "move", !.order = o, !.seen = status[o], !.target = to]
  OBVIOUS
<1>2. j.step = "move" /\ j.order = o /\ j.seen = status[o] /\ j.target = to
  BY <1>1 DEF Idle
<1>3. /\ job[w] = Idle /\ job' = [job EXCEPT ![w] = j] /\ CanTransition(status[o], to)
      /\ UNCHANGED <<status, payment, captured, refunds, edited>>
  BY <1>1 DEF BeginTransition
<1>4. Follows(j)'
  BY <1>2, <1>3 DEF Follows
<1> QED BY <1>2, <1>3, <1>4, BeginStep

\* The gateway takes money for a payment without an order yet.
LEMMA GatewayChargeStep ==
  ASSUME IndInv, IndInv', SerialInv, NEW w \in Workers, NEW r \in {"success", "failure"},
         GatewayCharge(w, r)
  PROVE  SerialInv' /\ Unseen
<1>1. PICK i, j : i = job[w] /\ j = [job[w] EXCEPT !.step = "charged", !.result = r]
  OBVIOUS
<1>2. /\ i \in Job /\ i.step = "charge" /\ Alone(job, w) /\ Follows(i)
      /\ Counts(refunds, payment, i)
  <2>1. job[w] \in Job /\ job[w].step = "charge"
    BY DEF GatewayCharge, IndInv, TypeOK
  <2> QED BY <1>1, <2>1, OthersIdle
<1>3. j.step = "charged" /\ j.order = i.order /\ j.seen = i.seen
  BY <1>1, <1>2 DEF Job
<1>4. PICK p \in Payments : p = i.payment /\ payment[p].order = None
  <2>1. i.payment \in Payments /\ payment[i.payment].status = "absent"
    BY <1>1, <1>2 DEF IndInv, JobOK
  <2> QED BY <2>1 DEF IndInv, TypeOK
<1>5. /\ job' = [job EXCEPT ![w] = j]
      /\ captured' = captured \/ captured' = captured \cup {p}
      /\ UNCHANGED <<status, payment, refunds, edited>>
  BY <1>1, <1>4 DEF GatewayCharge
<1>6. \A q : ~ Flying(i, q) /\ ~ Flying(j, q)
  BY <1>2, <1>3 DEF Flying
<1>7. Counts(refunds', payment', j)
  BY <1>2, <1>5, <1>6 DEF Counts
<1>8. IsFiniteSet(captured')
  BY <1>5, FS_AddElement DEF SerialInv
<1>9. Follows(j)'
  BY <1>2, <1>3, <1>5 DEF Follows
<1>10. SerialInv' /\ Alone(job', w) /\ job'[w] = j
  BY <1>2, <1>5, <1>7, <1>8, <1>9, SerialKeeps
<1>11. ASSUME NEW q \in Payments, NEW o \in Orders
       PROVE  (q \in captured' /\ payment'[q].order = o /\ (refunds'[q] = 0 \/ Flying(j, q)))
                <=> (q \in captured /\ payment[q].order = o /\ (refunds[q] = 0 \/ Flying(i, q)))
  BY <1>4, <1>5, <1>6, NoneIsOutside
<1>12. Balance' = Balance
  BY <1>1, <1>2, <1>10, <1>11, SameBalance
<1> QED BY <1>5, <1>10, <1>12 DEF Unseen

\* A refund that the gateway has made is held until it is committed.
LEMMA GatewayRefundStep ==
  ASSUME IndInv, IndInv', SerialInv, NEW w \in Workers, NEW r \in {"success", "failure"},
         GatewayRefund(w, r)
  PROVE  SerialInv' /\ Unseen
<1>1. PICK i, j : i = job[w] /\ j = [job[w] EXCEPT !.step = "refunded", !.result = r]
  OBVIOUS
<1>2. /\ i \in Job /\ i.step = "refund" /\ Alone(job, w) /\ Follows(i)
      /\ Counts(refunds, payment, i)
  <2>1. job[w] \in Job /\ job[w].step = "refund"
    BY DEF GatewayRefund, IndInv, TypeOK
  <2> QED BY <1>1, <2>1, OthersIdle
<1>3. j.step = "refunded" /\ j.payment = i.payment /\ j.result = r
  BY <1>1, <1>2 DEF Job
<1>4. PICK p \in Payments : p = i.payment
  BY <1>1, <1>2 DEF IndInv, JobOK
<1>5. payment[p].status = "succeeded" /\ refunds[p] = 0
  BY <1>2, <1>4 DEF Follows
<1>6. /\ job' = [job EXCEPT ![w] = j]
      /\ UNCHANGED <<status, payment, captured, edited>>
  BY <1>1 DEF GatewayRefund
<1>7. \A q \in Payments : refunds'[q] = IF q = p /\ r = "success" THEN 1 ELSE refunds[q]
  <2>1. refunds \in [Payments -> 0 .. MaxRefunds]
    BY DEF IndInv, TypeOK
  <2>2. CASE r = "success"
    <3>1. refunds' = [refunds EXCEPT ![p] = refunds[p] + 1]
      BY <1>1, <1>4, <2>2 DEF GatewayRefund
    <3> QED BY <1>5, <2>1, <2>2, <3>1
  <2>3. CASE r # "success"
    <3>1. refunds' = refunds
      BY <2>3 DEF GatewayRefund
    <3> QED BY <2>3, <3>1
  <2> QED BY <2>2, <2>3
<1>8. \A q : ~ Flying(i, q) /\ (Flying(j, q) <=> q = p /\ r = "success")
  BY <1>2, <1>3, <1>4 DEF Flying
<1>9. Counts(refunds', payment', j) /\ IsFiniteSet(captured')
  BY <1>2, <1>6, <1>7, <1>8 DEF Counts, SerialInv
<1>10. Follows(j)'
  BY <1>3, <1>4, <1>5, <1>6, <1>7 DEF Follows
<1>11. SerialInv' /\ Alone(job', w) /\ job'[w] = j
  BY <1>2, <1>6, <1>9, <1>10, SerialKeeps
<1>12. ASSUME NEW q \in Payments, NEW o \in Orders
       PROVE  (q \in captured' /\ payment'[q].order = o /\ (refunds'[q] = 0 \/ Flying(j, q)))
                <=> (q \in captured /\ payment[q].order = o /\ (refunds[q] = 0 \/ Flying(i, q)))
  BY <1>5, <1>6, <1>7, <1>8
<1>13. Balance' = Balance
  BY <1>1, <1>2, <1>11, <1>12, SameBalance
<1> QED BY <1>6, <1>11, <1>13 DEF Unseen

\* A request that ends, with the payments on record counted.
LEMMA FinishSerial ==
  ASSUME NEW w \in Workers, IndInv, SerialInv, job[w].step # "idle", Finish(w),
         captured' = captured, Counts(refunds', payment', Idle)
  PROVE  /\ SerialInv' /\ Alone(job', w) /\ job'[w] = Idle
         /\ Alone(job, w) /\ Follows(job[w]) /\ Counts(refunds, payment, job[w])
<1>1. Alone(job, w) /\ Follows(job[w]) /\ Counts(refunds, payment, job[w])
  BY OthersIdle
<1>2. job' = [job EXCEPT ![w] = Idle] /\ IsFiniteSet(captured')
  BY DEF Finish, SerialInv
<1> QED BY <1>1, <1>2, SerialKeeps, IdleFollows

\* A charge that succeeded pays the order and adds the payment to what is held for it.
LEMMA CommitChargeStep ==
  ASSUME IndInv, IndInv', SerialInv, NEW w \in Workers, CommitCharge(w)
  PROVE  SerialInv' /\ (Atomic!Next \/ Unseen)
<1>1. PICK i, p, o : i = job[w] /\ p = job[w].payment /\ o = job[w].order
  OBVIOUS
<1>2. /\ i.step = "charged" /\ Alone(job, w) /\ Follows(i)
      /\ Counts(refunds, payment, i) /\ Finish(w) /\ captured' = captured
  <2>1. job[w].step = "charged" /\ Finish(w) /\ captured' = captured
    BY DEF CommitCharge
  <2> QED BY <1>1, <2>1, OthersIdle
<1>3. /\ o \in Orders /\ p \in Payments /\ payment[p].status = "absent"
      /\ payment[p].order = None /\ (i.result = "success" <=> p \in captured)
  <2>1. JobOK(w) /\ TypeOK
    BY DEF IndInv
  <2> QED BY <1>1, <1>2, <2>1 DEF JobOK, TypeOK
<1>4. \A q \in Payments : payment'[q] =
        IF q = p THEN [order |-> o, status |-> SettledStatus(i.result)] ELSE payment[q]
  BY <1>1, <1>3 DEF CommitCharge, IndInv, TypeOK
<1>5. UNCHANGED <<captured, refunds, edited>>
  BY DEF CommitCharge
<1>6. \A q : ~ Flying(i, q) /\ ~ Flying(Idle, q)
  BY <1>2, IdleIsNothing DEF Flying
<1>7. refunds[p] = 0
  BY <1>2, <1>3, <1>6 DEF Counts
<1>8. Counts(refunds', payment', Idle)
  BY <1>2, <1>4, <1>5, <1>6, <1>7 DEF Counts
<1>9. SerialInv' /\ Alone(job', w) /\ job'[w] = Idle
  BY <1>1, <1>2, <1>8, FinishSerial
<1>10. CASE i.result = "success"
  <2>1. status' = [status EXCEPT ![o] = "paid"] /\ status[o] = "pending"
    <3>1. i.seen = "pending" /\ status[o] = "pending"
      BY <1>1, <1>2 DEF Follows
    <3>2. CanTransition(i.seen, "paid")
      BY <3>1 DEF CanTransition, Graph
    <3> QED BY <1>1, <1>10, <3>1, <3>2 DEF CommitCharge, PaidAfter
  <2>2. ASSUME NEW a \in Orders
        PROVE  Kept(captured', payment', refunds', Idle, a)
                 = IF a = o THEN Kept(captured, payment, refunds, i, a) \cup {p}
                   ELSE Kept(captured, payment, refunds, i, a)
    <3>1. captured \subseteq Payments
      BY DEF IndInv, TypeOK
    <3>2. ASSUME NEW q
          PROVE  q \in Kept(captured', payment', refunds', Idle, a)
                   <=> q \in Kept(captured, payment, refunds, i, a) \/ (a = o /\ q = p)
      BY <1>3, <1>4, <1>5, <1>6, <1>7, <1>10, <3>1, NoneIsOutside DEF Kept
    <3> QED BY <3>2
  <2>3. Balance = [a \in Orders |-> Cardinality(Kept(captured, payment, refunds, i, a))]
    BY <1>1, <1>2, BalanceBefore
  <2>4. Balance' = [a \in Orders |-> Cardinality(Kept(captured', payment', refunds', Idle, a))]
    BY <1>9, BalanceAfter
  <2>5. Cardinality(Kept(captured, payment, refunds, i, o) \cup {p}) = Balance[o] + 1
    <3>1. IsFiniteSet(Kept(captured, payment, refunds, i, o))
      BY <1>1, <1>2, <1>3, BalanceBefore
    <3>2. p \notin Kept(captured, payment, refunds, i, o)
      BY <1>3, NoneIsOutside DEF Kept
    <3> QED BY <1>3, <2>3, <3>1, <3>2, FS_AddElement
  <2>6. Balance' = [Balance EXCEPT ![o] = Balance[o] + 1]
    BY <1>3, <2>2, <2>3, <2>4, <2>5
  <2>7. Atomic!Charge(o)
    BY <1>5, <2>1, <2>6 DEF Atomic!Charge
  <2> QED BY <1>3, <1>9, <2>7 DEF Atomic!Next
<1>11. CASE i.result # "success"
  <2>1. status' = status
    BY <1>1, <1>11 DEF CommitCharge, PaidAfter
  <2>2. ASSUME NEW q \in Payments, NEW a \in Orders
        PROVE  (q \in captured' /\ payment'[q].order = a /\ (refunds'[q] = 0 \/ Flying(Idle, q)))
                 <=> (q \in captured /\ payment[q].order = a /\ (refunds[q] = 0 \/ Flying(i, q)))
    BY <1>3, <1>4, <1>5, <1>6, <1>11
  <2>3. Balance' = Balance
    BY <1>1, <1>2, <1>9, <2>2, SameBalance
  <2> QED BY <1>5, <1>9, <2>1, <2>3 DEF Unseen
<1> QED BY <1>10, <1>11

\* A refund that is recorded takes the payment from what is held.
LEMMA CommitRefundStep ==
  ASSUME IndInv, IndInv', SerialInv, NEW w \in Workers, CommitRefund(w)
  PROVE  SerialInv' /\ (Atomic!Next \/ Unseen)
<1>1. PICK i, p : i = job[w] /\ p = job[w].payment
  OBVIOUS
<1>2. /\ i.step = "refunded" /\ Alone(job, w) /\ Follows(i)
      /\ Counts(refunds, payment, i) /\ Finish(w)
      /\ UNCHANGED <<status, captured, refunds, edited>>
  <2>1. job[w].step = "refunded" /\ Finish(w) /\ UNCHANGED <<status, captured, refunds, edited>>
    BY DEF CommitRefund
  <2> QED BY <1>1, <2>1, OthersIdle
<1>3. p \in Payments /\ payment[p].status = "succeeded" /\ payment \in [Payments -> PaymentRow]
  <2>1. JobOK(w) /\ TypeOK
    BY DEF IndInv
  <2> QED BY <1>1, <1>2, <2>1 DEF JobOK, TypeOK, Follows
<1>4. PICK s : s = StatusAfterRefund(w)
  OBVIOUS
<1>5. s = IF i.result = "success" THEN "refunded" ELSE "succeeded"
  BY <1>1, <1>3, <1>4 DEF StatusAfterRefund
<1>6. /\ \A q \in Payments : payment'[q].order = payment[q].order
      /\ \A q \in Payments : payment'[q].status = IF q = p THEN s ELSE payment[q].status
  <2>1. payment' = [payment EXCEPT ![p].status = s]
    BY <1>1, <1>4 DEF CommitRefund
  <2> QED BY <1>3, <2>1 DEF PaymentRow
<1>7. \A q : ~ Flying(Idle, q) /\ (Flying(i, q) <=> q = p /\ i.result = "success")
  BY <1>1, <1>2, IdleIsNothing DEF Flying
<1>8. Counts(refunds', payment', Idle)
  BY <1>2, <1>3, <1>5, <1>6, <1>7 DEF Counts
<1>9. SerialInv' /\ Alone(job', w) /\ job'[w] = Idle
  BY <1>1, <1>2, <1>8, FinishSerial
<1>10. CASE i.result = "success"
  <2>1. PICK o \in Orders : o = payment[p].order
    BY <1>3 DEF IndInv, TypeOK, PaymentRow
  <2>2. p \in captured /\ refunds[p] = 1
    BY <1>1, <1>2, <1>3, <1>10 DEF IndInv, LedgerAgrees, Follows
  <2>3. ASSUME NEW a \in Orders
        PROVE  Kept(captured', payment', refunds', Idle, a)
                 = IF a = o THEN Kept(captured, payment, refunds, i, a) \ {p}
                   ELSE Kept(captured, payment, refunds, i, a)
    <3>1. captured \subseteq Payments
      BY DEF IndInv, TypeOK
    <3>2. ASSUME NEW q
          PROVE  q \in Kept(captured', payment', refunds', Idle, a)
                   <=> q \in Kept(captured, payment, refunds, i, a) /\ ~ (a = o /\ q = p)
      BY <1>2, <1>3, <1>6, <1>7, <1>10, <2>1, <2>2, <3>1 DEF Kept
    <3> QED BY <3>2
  <2>4. Balance = [a \in Orders |-> Cardinality(Kept(captured, payment, refunds, i, a))]
    BY <1>1, <1>2, BalanceBefore
  <2>5. Balance' = [a \in Orders |-> Cardinality(Kept(captured', payment', refunds', Idle, a))]
    BY <1>9, BalanceAfter
  <2>6. /\ Cardinality(Kept(captured, payment, refunds, i, o) \ {p}) = Balance[o] - 1
        /\ Balance[o] > 0
    <3>1. IsFiniteSet(Kept(captured, payment, refunds, i, o))
      BY <1>1, <1>2, BalanceBefore
    <3>2. p \in Kept(captured, payment, refunds, i, o)
      BY <1>7, <1>10, <2>1, <2>2 DEF Kept
    <3>3. /\ Cardinality(Kept(captured, payment, refunds, i, o)) \in Nat
          /\ Cardinality(Kept(captured, payment, refunds, i, o)) # 0
      BY <3>1, <3>2, FS_CardinalityType, FS_EmptySet
    <3>4. Cardinality(Kept(captured, payment, refunds, i, o) \ {p})
            = Cardinality(Kept(captured, payment, refunds, i, o)) - 1
      BY <3>1, <3>2, FS_RemoveElement
    <3>5. Balance[o] = Cardinality(Kept(captured, payment, refunds, i, o))
      BY <2>4
    <3> QED BY <3>3, <3>4, <3>5
  <2>7. Balance' = [Balance EXCEPT ![o] = Balance[o] - 1]
    BY <2>3, <2>4, <2>5, <2>6
  <2>8. Atomic!Refund(o)
    BY <1>2, <2>6, <2>7 DEF Atomic!Refund
  <2> QED BY <1>9, <2>8 DEF Atomic!Next
<1>11. CASE i.result # "success"
  <2>1. ASSUME NEW q \in Payments, NEW a \in Orders
        PROVE  (q \in captured' /\ payment'[q].order = a /\ (refunds'[q] = 0 \/ Flying(Idle, q)))
                 <=> (q \in captured /\ payment[q].order = a /\ (refunds[q] = 0 \/ Flying(i, q)))
    BY <1>2, <1>6, <1>7, <1>11
  <2>2. Balance' = Balance
    BY <1>1, <1>2, <1>9, <2>1, SameBalance
  <2> QED BY <1>2, <1>9, <2>2 DEF Unseen
<1> QED BY <1>10, <1>11

\* A transition of the order as it was read, which has not changed since.
LEMMA CommitTransitionStep ==
  ASSUME IndInv, IndInv', SerialInv, NEW w \in Workers, CommitTransition(w)
  PROVE  SerialInv' /\ (Atomic!Next \/ Unseen)
<1>1. PICK i, o, to : i = job[w] /\ o = job[w].order /\ to = job[w].target
  OBVIOUS
<1>2. /\ i.step = "move" /\ Alone(job, w) /\ Follows(i)
      /\ Counts(refunds, payment, i) /\ Finish(w)
      /\ UNCHANGED <<payment, captured, refunds, edited>>
  <2>1. job[w].step = "move" /\ Finish(w) /\ UNCHANGED <<payment, captured, refunds, edited>>
    BY DEF CommitTransition
  <2> QED BY <1>1, <2>1, OthersIdle
<1>3. o \in Orders /\ to \in OrderStatuses
  <2>1. JobOK(w)
    BY DEF IndInv
  <2> QED BY <1>1, <1>2, <2>1 DEF JobOK
<1>4. \A q : ~ Flying(i, q) /\ ~ Flying(Idle, q)
  BY <1>2, IdleIsNothing DEF Flying
<1>5. Counts(refunds', payment', Idle)
  BY <1>2, <1>4 DEF Counts
<1>6. SerialInv' /\ Alone(job', w) /\ job'[w] = Idle
  BY <1>1, <1>2, <1>5, FinishSerial
<1>7. Balance' = Balance
  BY <1>1, <1>2, <1>4, <1>6, SameBalance
<1>8. status' = [status EXCEPT ![o] = to] /\ (to \in Graph[status[o]] \/ to = status[o])
  <2>1. CanTransition(status[o], to)
    BY <1>1, <1>2 DEF Follows
  <2>2. status' = [status EXCEPT ![o] = to]
    BY <1>1 DEF CommitTransition
  <2> QED BY <2>1, <2>2 DEF CanTransition
<1>9. CASE to \in Graph[status[o]]
  <2>1. Atomic!Move(o, to)
    BY <1>2, <1>7, <1>8, <1>9 DEF Atomic!Move, Atomic!Graph, Graph
  <2> QED BY <1>3, <1>6, <2>1 DEF Atomic!Next, Atomic!OrderStatuses, OrderStatuses
<1>10. CASE to = status[o]
  <2>1. status' = status
    BY <1>3, <1>8, <1>10 DEF IndInv, TypeOK
  <2> QED BY <1>2, <1>6, <1>7, <2>1 DEF Unseen
<1> QED BY <1>8, <1>9, <1>10

\* The admin's statements are one step each: they move a status along the graph or edit it.
LEMMA AdminStep ==
  ASSUME IndInv, IndInv', SerialInv, OneAtATime, AdminAction
  PROVE  SerialInv' /\ (Atomic!Next \/ Unseen)
<1>1. job' = job /\ captured' = captured /\ refunds' = refunds
  BY DEF AdminAction, MarkPaid, EditStatus, MarkRefunded
<1>2. \A w \in Workers : job[w] = Idle
  BY <1>1 DEF OneAtATime, AllIdle
<1>3. PICK w \in Workers : job[w] = Idle
  BY DEF AdminAction
<1>4. Alone(job, w) /\ Alone(job', w) /\ Counts(refunds, payment, Idle)
  BY <1>1, <1>2, <1>3 DEF Alone, SerialInv
<1>5. \A p \in Payments : /\ payment'[p].order = payment[p].order
                          /\ payment'[p].status \in {payment[p].status, "refunded"}
  BY DEF AdminAction, MarkPaid, EditStatus, MarkRefunded, IndInv, TypeOK, PaymentRow
<1>6. Counts(refunds', payment', Idle)
  BY <1>1, <1>4, <1>5 DEF Counts
<1>7. SerialInv'
  <2>1. ASSUME NEW v \in Workers PROVE Follows(job[v])'
    <3>1. job'[v] = Idle
      BY <1>1, <1>2
    <3> QED BY <3>1, IdleFollows DEF Follows
  <2> QED BY <1>1, <1>2, <1>6, <2>1 DEF SerialInv
<1>8. Balance' = Balance
  BY <1>1, <1>3, <1>4, <1>5, <1>7, SameBalance
<1>9. ASSUME NEW o \in Orders, MarkPaid(o) PROVE Atomic!Next
  <2>1. "paid" \in Graph[status[o]] /\ status' = [status EXCEPT ![o] = "paid"] /\ edited' = edited
    BY <1>9 DEF MarkPaid, Graph
  <2>2. Atomic!Move(o, "paid")
    BY <1>8, <2>1 DEF Atomic!Move, Atomic!Graph, Graph
  <2> QED BY <2>2 DEF Atomic!Next, Atomic!OrderStatuses
<1>10. ASSUME NEW o \in Orders, NEW s \in OrderStatuses, EditStatus(o, s) PROVE Atomic!Next
  <2>1. Atomic!Edit(o, s)
    BY <1>8, <1>10 DEF Atomic!Edit, EditStatus
  <2> QED BY <2>1 DEF Atomic!Next, Atomic!OrderStatuses, OrderStatuses
<1>11. ASSUME NEW p \in Payments, MarkRefunded(p) PROVE Unseen
  BY <1>8, <1>11 DEF MarkRefunded, Unseen
<1> QED BY <1>7, <1>9, <1>10, <1>11 DEF AdminAction

\* Every step of a request served alone.
LEMMA SerialStep ==
  ASSUME IndInv, IndInv', SerialInv, OneAtATime, (\E w \in Workers : Serve(w)) \/ AdminAction
  PROVE  SerialInv' /\ (Atomic!Next \/ Unseen)
<1>1. ASSUME NEW w \in Workers, NEW o \in Orders, NEW p \in Payments, BeginCharge(w, o, p)
      PROVE  SerialInv' /\ Unseen
  BY <1>1, BeginChargeStep
<1>2. ASSUME NEW w \in Workers, NEW r \in {"success", "failure"},
             GatewayCharge(w, r) \/ GatewayRefund(w, r)
      PROVE  SerialInv' /\ Unseen
  BY <1>2, GatewayChargeStep, GatewayRefundStep
<1>3. ASSUME NEW w \in Workers, NEW p \in Payments, BeginRefund(w, p)
      PROVE  SerialInv' /\ Unseen
  BY <1>3, BeginRefundStep
<1>4. ASSUME NEW w \in Workers, NEW o \in Orders, NEW to \in OrderStatuses,
             BeginTransition(w, o, to)
      PROVE  SerialInv' /\ Unseen
  BY <1>4, BeginTransitionStep
<1>5. ASSUME NEW w \in Workers, CommitCharge(w) \/ CommitRefund(w) \/ CommitTransition(w)
      PROVE  SerialInv' /\ (Atomic!Next \/ Unseen)
  BY <1>5, CommitChargeStep, CommitRefundStep, CommitTransitionStep
<1>6. CASE AdminAction
  BY <1>6, AdminStep
<1> QED BY <1>1, <1>2, <1>3, <1>4, <1>5, <1>6 DEF Serve

SInv == IndInv /\ (serial => SerialInv)

\* What a step of the served requests keeps and does, serial or not.
LEMMA ServedStep ==
  ASSUME SInv, ServedNext \/ UNCHANGED <<vars, serial>>
  PROVE  SInv' /\ (serial => Atomic!Next \/ Unseen)
<1>1. CASE ServedNext /\ serial
  <2>1. ((\E w \in Workers : Serve(w)) \/ AdminAction) /\ OneAtATime
    BY <1>1 DEF ServedNext
  <2>2. Next
    BY <2>1 DEF Next
  <2>3. IndInv'
    BY <2>2, NextInv DEF SInv
  <2> QED BY <1>1, <2>1, <2>3, SerialStep DEF SInv
<1>2. CASE ServedNext /\ ~ serial
  <2>1. Next /\ serial' = serial
    BY <1>2 DEF ServedNext
  <2>2. ~ serial'
    BY <1>2, <2>1
  <2> QED BY <1>2, <2>1, <2>2, NextInv DEF SInv
<1>3. CASE UNCHANGED <<vars, serial>>
  <2>1. UNCHANGED vars /\ serial' = serial
    BY <1>3
  <2>2. IndInv'
    BY <2>1, NextInv DEF SInv
  <2>3. ASSUME SerialInv PROVE SerialInv' /\ Unseen
    <3>1. \A w \in Workers : Follows(job[w])'
      BY <2>1, <2>3 DEF SerialInv, Follows, vars
    <3> QED BY <2>1, <2>3, <3>1, BalanceIs DEF SerialInv, Unseen, vars
  <2>4. serial' => serial
    BY <2>1
  <2> QED BY <2>2, <2>3, <2>4 DEF SInv
<1> QED BY <1>1, <1>2, <1>3

\* At the start nothing is held.
LEMMA ServedStart == ServedInit => SInv /\ Atomic!Init
<1> SUFFICES ASSUME Init PROVE IndInv /\ SerialInv /\ Atomic!Init
  BY DEF ServedInit, SInv
<1>1. IndInv
  BY InitInv
<1>2. \A w \in Workers : job[w] = Idle
  BY DEF Init
<1>3. SerialInv
  <2>1. Counts(refunds, payment, Idle)
    BY DEF Init, Counts
  <2>2. IsFiniteSet(captured)
    BY FS_EmptySet DEF Init
  <2> QED BY <1>2, <2>1, <2>2, IdleFollows DEF SerialInv
<1>4. ASSUME NEW o \in Orders PROVE HeldOf(captured, payment, refunds, job, o) = 0
  <2>1. Paid(captured, payment, o) = {} /\ GivenOf(captured, payment, refunds, job, o) = {}
    BY DEF Init, Paid, GivenOf
  <2> QED BY <2>1, FS_EmptySet DEF HeldOf
<1>5. Balance = [o \in Orders |-> 0]
  BY <1>4, BalanceIs
<1> QED BY <1>1, <1>3, <1>5 DEF Init, Atomic!Init

\* Charges, refunds and transitions served one at a time (apps/payments/services.py,
\* OrderService.transition_status): an order is charged while it is pending, and paid by the
\* step that takes the money; what is held for it is given back at most once for each payment,
\* never when there is nothing; and a status moves along the graph or is edited by staff.
THEOREM SerialPaymentsAreAtomic == ServedSpec => SerialAtomicSpec
<1>1. ServedInit => SInv /\ Atomic!Init
  BY ServedStart
<1>2. SInv /\ [ServedNext]_<<vars, serial>> => SInv'
  <2> SUFFICES ASSUME SInv, ServedNext \/ UNCHANGED <<vars, serial>> PROVE SInv'
    OBVIOUS
  <2> QED BY ServedStep
<1>3. SInv /\ [ServedNext]_<<vars, serial>>
        => [serial => Atomic!Next]_<<status, Balance, edited>>
  <2> SUFFICES ASSUME SInv, ServedNext \/ UNCHANGED <<vars, serial>>
               PROVE  (serial => Atomic!Next) \/ Unseen
    BY DEF Unseen
  <2> QED BY ServedStep, Zenon
<1> QED BY <1>1, <1>2, <1>3, PTL DEF ServedSpec, SerialAtomicSpec
=============================================================================
