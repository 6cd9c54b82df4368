----------------------------- MODULE DeviceControl -----------------------------
(***************************************************************************)
(* Operations on managed machines.  The page posts a fixed operation to    *)
(* the orchestrator, which runs it and answers, and closes an operation    *)
(* whose result is not known when somebody has looked at the machine.      *)
(* The web never sends anything again: when the answer does not come, the  *)
(* person is told so, while the post may still arrive and be carried out.  *)
(*                                                                         *)
(* The orchestrator is external: its ledger calls, and what it answers, as *)
(* far as the answers and the history tell.                                *)
(***************************************************************************)
EXTENDS Requests

CONSTANTS
  Operators,   (* people on ISMS_DEVICE_CONTROL_ALLOWED_EMAILS             *)
  Machines     (* DEVICE_CONTROL_DEVICES                                   *)

VARIABLES
  session,   (* the database accepts the session of the web                *)
  wire,      (* what was posted and not yet carried out or answered        *)
  calls,     (* the ledger, by the request that posted the operation       *)
  told       (* what the page said at the end of each request, of which    *)
             (* operation                                                  *)

controlVars == <<session, wire, calls, told>>

Results == {"accepted", "running", "success", "failed", "unconfirmed", "closed_manually"}

ControlTypeOK ==
  /\ session \in BOOLEAN
  /\ \A m \in wire : m.from \in Requests /\ m.of \in Requests
  /\ DOMAIN calls \subseteq Requests
  /\ \A c \in DOMAIN calls : /\ calls[c].machine \in Machines /\ calls[c].result \in Results
                             /\ calls[c].recovery \in Requests \cup {None}

Post(t, of, machine) == [from |-> t, of |-> of, machine |-> machine, answer |-> None]

Told(t, text, of) == told' = [told EXCEPT ![t] = [text |-> text, of |-> of]]

-----------------------------------------------------------------------------
(* The server actions.                                                     *)

(* A form that is refused before anything is read or sent.                 *)
Refuse(t, op, text) == Once(t, op, Lock(Key, <<"nothing">>)) /\ Told(t, text, t)

(* What a form may say, and whether it is proper: whether it names a       *)
(* machine, a template or an outcome that is known, and its reason or note *)
(* is neither empty nor too long.                                          *)
DispatchForms == [by : People, machine : Machines, proper : BOOLEAN]

(* The history offers to close what was unconfirmed when it was read       *)
(* (getDeviceControlHistory); what was closed by somebody is not shown as  *)
(* a success.                                                              *)
Offered == {c \in DOMAIN calls : calls[c].result = "unconfirmed"}

RecoverForms == [by : People, of : Offered, proper : BOOLEAN]

(* authorizedActorEmail, and then the form.                                *)
BeginDispatch(t) ==
  /\ \E form \in DispatchForms :
       CASE form.by \notin Operators -> Refuse(t, "dispatch", "unauthorized")
         [] form.by \in Operators /\ ~form.proper -> Refuse(t, "dispatch", "bad_request")
         [] OTHER -> Begin(t, "dispatch", form, "checkSession", <<>>) /\ UNCHANGED told
  /\ UNCHANGED <<session, wire, calls>>

(* The form of a row that the history showed as unconfirmed; it is         *)
(* examined before the person is.                                          *)
BeginRecover(t) ==
  /\ \E form \in RecoverForms :
       CASE ~form.proper -> Refuse(t, "recover", "bad_request")
         [] form.proper /\ form.by \notin Operators -> Refuse(t, "recover", "unauthorized")
         [] OTHER -> Begin(t, "recover", form, "checkSession", <<>>) /\ UNCHANGED told
  /\ UNCHANGED <<session, wire, calls>>

Of(t) == IF req[t].op = "recover" THEN req[t].arg.of ELSE t

Say(t, text) ==
  /\ Told(t, text, Of(t))
  /\ Done(t)
  /\ UNCHANGED <<plan, active>>

(* hasValidTenantSession: a transaction that reads nothing.                *)
CheckSession(t) ==
  /\ At(t, "checkSession")
  /\ IF session
     THEN Goto(t, "post", <<>>, None) /\ UNCHANGED <<plan, active, told>>
     ELSE Say(t, "not_configured")
  /\ UNCHANGED <<session, wire, calls>>

Send(t) ==
  /\ At(t, "post")
  /\ wire' = wire \cup {Post(t, Of(t), IF req[t].op = "dispatch" THEN req[t].arg.machine ELSE None)}
  /\ Goto(t, "awaitAnswer", <<>>, None)
  /\ UNCHANGED <<plan, active, session, calls, told>>

(* Variant: an abort is told as any other failure.                         *)
AfterAbort_Failed == "http_error"

(* isAbortError: whether anything was done is not known.                   *)
AfterAbort == "timeout"

(* The page says what the answer says; an answer that is not 2xx and has   *)
(* no code that is known to recoverDeviceControlDispatch is an http_error. *)
Answered(t) ==
  /\ At(t, "awaitAnswer")
  /\ \E m \in wire :
       /\ m.from = t /\ m.answer # None
       /\ wire' = wire \ {m}
       /\ Say(t, m.answer)
  /\ UNCHANGED <<session, calls>>

(* The orchestrator waits for people and machines; the web gives up after  *)
(* 20 minutes (10 seconds when it closes an operation).                    *)
GiveUp(t) ==
  /\ At(t, "awaitAnswer")
  /\ Say(t, AfterAbort)
  /\ UNCHANGED <<session, wire, calls>>

(* No connection, or one that broke before or after the post arrived.      *)
ConnectionFails(t) ==
  /\ At(t, "post") \/ At(t, "awaitAnswer")
  /\ Say(t, "network_error")
  /\ wire' \in {wire, {m \in wire : m.from # t}}
  /\ UNCHANGED <<session, calls>>

-----------------------------------------------------------------------------
(* The orchestrator and the session: external.                             *)

Reply(m, answer) == wire' = (wire \ {m}) \cup {[m EXCEPT !.answer = answer]}

Unsettled(c) == calls[c].result \in {"accepted", "running", "unconfirmed"}

(* One operation at a time on a machine.                                   *)
TakeDispatch(m) ==
  /\ m.of = m.from /\ m.answer = None /\ m.from \notin DOMAIN calls
  /\ IF \E c \in DOMAIN calls : calls[c].machine = m.machine /\ Unsettled(c)
     THEN Reply(m, "http_error") /\ UNCHANGED calls
     ELSE /\ calls' = WithRow(calls, m.from, [machine |-> m.machine, result |-> "accepted", recovery |-> None])
          /\ Reply(m, "dispatched")

(* What is not known may still be going on, or be too young to say.        *)
TakeRecover(m) ==
  /\ m.of # m.from /\ m.answer = None
  /\ \/ /\ calls[m.of].result = "unconfirmed"
        /\ calls' = [calls EXCEPT ![m.of].result = "closed_manually", ![m.of].recovery = m.from]
        /\ Reply(m, "recovered")
     \/ /\ calls[m.of].result = "unconfirmed"
        /\ \E answer \in {"too_early", "still_running", "http_error"} : Reply(m, answer)
        /\ UNCHANGED calls
     \/ /\ calls[m.of].result # "unconfirmed"
        /\ Reply(m, "not_pending")
        /\ UNCHANGED calls

(* The machine reports, or does not for so long that nobody knows, and may *)
(* still do so when it is back.                                            *)
MachineReports ==
  /\ \E c \in DOMAIN calls, r \in Results :
       /\ <<calls[c].result, r>> \in ({"accepted"} \X {"running", "unconfirmed"})
                                     \cup ({"running", "unconfirmed"} \X {"success", "failed"})
       /\ calls' = [calls EXCEPT ![c].result = r]
  /\ UNCHANGED wire

SessionEnds == session /\ session' = FALSE

Orchestrator ==
  /\ "dispatch" \in plan.ops
  /\ \/ (\E m \in wire : TakeDispatch(m) \/ TakeRecover(m)) /\ UNCHANGED session
     \/ MachineReports /\ UNCHANGED session
     \/ SessionEnds /\ UNCHANGED <<wire, calls>>
  /\ UNCHANGED <<plan, active, requestVars, told>>

-----------------------------------------------------------------------------
ControlStep(t) ==
  \/ BeginDispatch(t) \/ BeginRecover(t)
  \/ CheckSession(t) \/ Send(t) \/ Answered(t) \/ GiveUp(t) \/ ConnectionFails(t)
=============================================================================
