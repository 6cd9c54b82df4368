----------------------------- MODULE MailPromise -----------------------------
(***************************************************************************)
(* What the mail queue promises about each mail, without workers, attempts *)
(* or error marks: once queued it is handed to the relay at most once, and *)
(* it is recorded as sent only afterwards.                                 *)
(***************************************************************************)
EXTENDS Naturals

CONSTANT Mails

VARIABLES
  ledger,   (* "absent", "open" or "sent"                                  *)
  copies    (* copies the relay accepted                                   *)

vars == <<ledger, copies>>

Init ==
  /\ ledger = [m \in Mails |-> "absent"]
  /\ copies = [m \in Mails |-> 0]

Queue(m) ==
  /\ ledger[m] = "absent"
  /\ ledger' = [ledger EXCEPT ![m] = "open"]
  /\ UNCHANGED copies

HandOver(m) ==
  /\ ledger[m] = "open"
  /\ copies[m] = 0
  /\ copies' = [copies EXCEPT ![m] = 1]
  /\ UNCHANGED ledger

Record(m) ==
  /\ ledger[m] = "open"
  /\ copies[m] = 1
  /\ ledger' = [ledger EXCEPT ![m] = "sent"]
  /\ UNCHANGED copies

Next == \E m \in Mails : Queue(m) \/ HandOver(m) \/ Record(m)

Spec == Init /\ [][Next]_vars

=============================================================================
