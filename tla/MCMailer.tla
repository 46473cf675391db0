------------------------------ MODULE MCMailer ------------------------------
(***************************************************************************)
(* An instance of Mailer: one e-mail, the worker's two processes, which    *)
(* come to hold messages of two chains of retries, and two deaths.         *)
(***************************************************************************)
EXTENDS Mailer

CONSTANTS m1, c1, c2
=============================================================================
