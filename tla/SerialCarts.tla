---------------------------- MODULE SerialCarts ----------------------------
(***************************************************************************)
(* Carts whose requests are served one at a time, if serial says so: both  *)
(* ways are explored, and what holds of serial requests only is stated     *)
(* under serial.                                                           *)
(***************************************************************************)
EXTENDS Carts

VARIABLE serial

AllIdle == \A w \in Workers : job[w] = Idle

\* A serial request, a merge among them, begins when every other one has ended.
OneAtATime ==
  /\ \A v, w \in Workers : job'[v] # Idle /\ job'[w] # Idle => v = w
  /\ job' = job => AllIdle

ServedInit == Init /\ serial \in BOOLEAN
ServedNext == Next /\ (serial => OneAtATime) /\ UNCHANGED serial
ServedSpec == ServedInit /\ [][ServedNext]_<<vars, serial>>

-----------------------------------------------------------------------------
(***************************************************************************)
(* Properties.                                                             *)
(***************************************************************************)
\* "Return the cart for the current request" (apps/cart/views.py): served one at a time,
\* requests give an owner one cart.
SerialOneCart == serial => OneCartEach

\* Serial requests implement AtomicCarts, one bag per owner whose quantities add up.
SerialAtomicSpec == Atomic!Init /\ [][serial => Atomic!Next]_Bag
=============================================================================
