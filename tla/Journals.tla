------------------------------- MODULE Journals -------------------------------
(***************************************************************************)
(* Records of what was done, each added once: internal audits, decisions   *)
(* of the management review, evaluations of measures, assessments of       *)
(* vendors, and evidence collected by hand.  Only an audit is edited: it   *)
(* is planned first and performed later.  An entry is named by its kind    *)
(* and the transaction that made it; a date is "past" up to today.         *)
(***************************************************************************)
EXTENDS Departments, Findings

CONSTANTS
  Measures,     (* measures that can be evaluated                          *)
  IsoMeasures,  (* those of the framework of the page of the steps         *)
  Vendors       (* vendors that can be assessed                            *)

VARIABLE
  journal       (* entries: what they are about, the day it was done, and  *)
                (* the day from which something is due again               *)

Entries(kind) == {j \in DOMAIN journal : j[1] = kind}

JournalRow(j) == <<"journal", j>>

Dates == {"past", "future"}

JournalsTypeOK ==
  \A j \in DOMAIN journal :
    /\ j \in {"audit", "output", "effectiveness", "assessment", "evidence"} \X Stamps
    /\ journal[j] \in [of : People \cup Measures \cup Vendors \cup {None},
                       day : {"past", None}, due : Dates \cup {None}]

(* What has a day in the future is planned, and is refused as done.        *)
Add(t, op, kind, about, day, due) ==
  /\ Once(t, op, Lock(Update, JournalRow(<<kind, t>>)))
  /\ journal' = IF day = "future" THEN journal
                ELSE WithRow(journal, <<kind, t>>, [of |-> about, day |-> day, due |-> due])
  /\ UNCHANGED <<organisationVars, findingVars>>

IsActiveMember(u) == u \in active /\ MembershipsOf(u) # {}

(* The auditor must be one when the audit is saved.                        *)
IsAuditor(u) == u \in Auditors /\ IsActiveMember(u)

SaveAudit(t) ==
  /\ Free(t, "saveAudit")
  /\ \E u \in People, day \in Dates \cup {None} :
       \/ IsAuditor(u) /\ Add(t, "saveAudit", "audit", u, day, None)
       \/ \E a \in Entries("audit") :
            /\ Once(t, "saveAudit", Lock(Write, JournalRow(a)))
            /\ journal' = IF IsAuditor(u) /\ day # "future"
                          THEN [journal EXCEPT ![a] = [of |-> u, day |-> day, due |-> None]] ELSE journal
            /\ UNCHANGED <<organisationVars, findingVars>>

(* A decision of the review that is there is due on a day.                 *)
AddReviewOutput(t) ==
  review # None /\ \E due \in Dates : Add(t, "addReviewOutput", "output", None, None, due)

SaveEffectiveness(t) ==
  \E m \in Measures, day \in Dates : Add(t, "saveEffectiveness", "effectiveness", m, day, None)

(* The next assessment is due after this one.                              *)
SaveVendorAssessment(t) ==
  /\ Free(t, "saveVendorAssessment")
  /\ \E v \in Vendors, day \in Dates, due \in Dates \cup {None} :
       Add(t, "saveVendorAssessment", "assessment", v, day, due)

(* Evidence is stale a number of days after it was collected.              *)
SaveEvidence(t) ==
  \E day, due \in Dates : Add(t, "saveEvidence", "evidence", None, day, due)

(* The day from which an entry is due comes.                               *)
EntryFallsDue ==
  /\ \E j \in DOMAIN journal :
       journal[j].due = "future" /\ journal' = [journal EXCEPT ![j].due = "past"]
  /\ UNCHANGED <<plan, active, requestVars, organisationVars, findingVars>>

JournalStep(t) ==
  \/ SaveAudit(t) \/ AddReviewOutput(t) \/ SaveEffectiveness(t)
  \/ SaveVendorAssessment(t) \/ SaveEvidence(t)
=============================================================================
