--------------------------- MODULE SerialAccounts ---------------------------
(***************************************************************************)
(* Accounts whose requests are served one at a time, if serial says so:    *)
(* both ways are explored, and what holds of serial requests only is       *)
(* stated under serial.  Tokens expire at any time.                        *)
(***************************************************************************)
EXTENDS Accounts

\* A mailbox without an account is told from one with.
ASSUME NoneIsNoAccount == None \notin Atomic!Account

VARIABLE serial

\* A serial request begins when every other one has ended.
OneAtATime == \A v, w \in Workers : job'[v] # Idle /\ job'[w] # Idle => v = w

ServedInit == Init /\ serial \in BOOLEAN
ServedNext == Next /\ (serial => OneAtATime) /\ UNCHANGED serial
ServedSpec == ServedInit /\ [][ServedNext]_<<vars, serial>>

-----------------------------------------------------------------------------
(***************************************************************************)
(* Properties.                                                             *)
(***************************************************************************)
\* Serial requests implement AtomicAccounts, whose tokens, those of sessions included,
\* do their work once, and where a profile update changes no credential.
SerialAtomicSpec ==
  Atomic!Init
    /\ [][serial => Atomic!Next]_<<[m \in Mailboxes |-> AccountOf(m)], [t \in Tokens |-> IssueOf(t)]>>
=============================================================================
