---------------------------- MODULE MCMailOutbox -----------------------------
(***************************************************************************)
(* Small instances of the mail queue.                                      *)
(***************************************************************************)
EXTENDS MailOutbox, TLC

CONSTANTS w1, w2

Mails2 == 1 .. 2
Mails3 == 1 .. 3
TwoWorkers == {w1, w2}

(* The faults under which the queue is documented to deliver once.         *)
CrashFaults == {"crash", "db_error"}

=============================================================================
