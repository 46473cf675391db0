-------------------------- MODULE SerialPayments --------------------------
(***************************************************************************)
(* Payments whose requests are served one at a time, and whose processes   *)
(* do not die, if serial says so: both ways are explored, and what holds   *)
(* of serial requests only is stated under serial.                         *)
(***************************************************************************)
EXTENDS Payments

VARIABLE serial

AllIdle == \A w \in Workers : job[w] = Idle

\* A serial request, the admin's among them, begins when every other one has ended.
OneAtATime ==
  /\ \A v, w \in Workers : job'[v] # Idle /\ job'[w] # Idle => v = w
  /\ job' = job => AllIdle

ServedInit == Init /\ serial \in BOOLEAN
ServedNext ==
  /\ \/ serial /\ ((\E w \in Workers : Serve(w)) \/ AdminAction) /\ OneAtATime
     \/ ~ serial /\ Next
  /\ UNCHANGED serial
ServedSpec == ServedInit /\ [][ServedNext]_<<vars, serial>>

-----------------------------------------------------------------------------
(***************************************************************************)
(* Properties.                                                             *)
(***************************************************************************)
\* Serial requests implement AtomicPayments: an order is charged once, since it is "not
\* pending payment" then, what is held for it is given back once, and statuses follow the
\* "forward-only transition graph" of apps/orders/services.py.
SerialAtomicSpec == Atomic!Init /\ [][serial => Atomic!Next]_<<status, Balance, edited>>
=============================================================================
