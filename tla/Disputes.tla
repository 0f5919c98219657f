------------------------------ MODULE Disputes ------------------------------
(***************************************************************************)
(* DisputeService: evidence is submitted by reading the dispute, inserting *)
(* the evidence, and writing back a status computed from the one read;     *)
(* update_dispute_status writes a decision at any time.                    *)
(***************************************************************************)
CONSTANTS Disputes, Handlers, None

VARIABLES dispute,           \* disputes.status, or None
          evidence,          \* disputes that have rows in dispute_evidence
          submitted,         \* disputes with an evidence_submitted_at
          submitting         \* the submit_evidence handlers

disputeVars == <<dispute, evidence, submitted, submitting>>

Decisions == {"WON", "LOST", "CHARGE_REFUNDED"}

Init ==
  /\ dispute = [d \in Disputes |-> None]
  /\ evidence = {}
  /\ submitted = {}
  /\ submitting = [h \in Handlers |-> [pc |-> "idle"]]

-----------------------------------------------------------------------------
CreateDispute(d) ==
  /\ dispute[d] = None
  /\ dispute' = [dispute EXCEPT ![d] = "NEEDS_RESPONSE"]
  /\ UNCHANGED <<evidence, submitted, submitting>>

(* submit_evidence: SELECT, whatever the status.                           *)
ReadDispute(h, d) ==
  /\ submitting[h].pc = "idle"
  /\ dispute[d] # None
  /\ submitting' = [submitting EXCEPT ![h] = [pc |-> "read", dispute |-> d, status |-> dispute[d]]]
  /\ UNCHANGED <<dispute, evidence, submitted>>

InsertEvidence(h) ==
  /\ submitting[h].pc = "read"
  /\ evidence' = evidence \cup {submitting[h].dispute}
  /\ submitting' = [submitting EXCEPT ![h].pc = "inserted"]
  /\ UNCHANGED <<dispute, submitted>>

(* Mutant: evidence always puts the dispute under review.                  *)
AlwaysUnderReview(s) == "UNDER_REVIEW"
StatusWithEvidence(s) == IF s = "NEEDS_RESPONSE" THEN "UNDER_REVIEW" ELSE s

(* Mutant: the dispute is updated first, its evidence inserted last.       *)
ReadyOnceRead(h) == submitting[h].pc = "read"
IsReadyToUpdate(h) == submitting[h].pc = "inserted"

UpdateDispute(h) ==
  /\ IsReadyToUpdate(h)
  /\ dispute' = [dispute EXCEPT ![submitting[h].dispute] = StatusWithEvidence(submitting[h].status)]
  /\ submitted' = submitted \cup {submitting[h].dispute}
  /\ submitting' = [submitting EXCEPT ![h] = [pc |-> "idle"]]
  /\ UNCHANGED evidence

InterruptSubmit(h) ==
  /\ submitting[h].pc # "idle"
  /\ submitting' = [submitting EXCEPT ![h] = [pc |-> "idle"]]
  /\ UNCHANGED <<dispute, evidence, submitted>>

(* The route takes the three decisions alone.                              *)
UpdateDisputeStatus(d, s) ==
  /\ dispute[d] # None
  /\ dispute' = [dispute EXCEPT ![d] = s]
  /\ UNCHANGED <<evidence, submitted, submitting>>

Next ==
  \/ \E d \in Disputes :
       \/ CreateDispute(d)
       \/ \E s \in Decisions : UpdateDisputeStatus(d, s)
       \/ \E h \in Handlers : ReadDispute(h, d)
  \/ \E h \in Handlers : InsertEvidence(h) \/ UpdateDispute(h) \/ InterruptSubmit(h)

Spec == Init /\ [][Next]_disputeVars

-----------------------------------------------------------------------------
(* A dispute that shows evidence as submitted, or is under review for it,  *)
(* has evidence, in whatever order statuses are read and written back.     *)
ReviewHasEvidence ==
  \A d \in Disputes : d \in submitted \/ dispute[d] = "UNDER_REVIEW" => d \in evidence

(* A decided dispute is reopened only by a submission that had read it     *)
(* before the decision: later evidence leaves it decided.                  *)
ReadBeforeDecision(d) ==
  \E h \in Handlers : /\ submitting[h].pc # "idle"
                      /\ submitting[h].dispute = d
                      /\ submitting[h].status \notin Decisions
DecisionStands ==
  [][\A d \in Disputes : dispute[d] \in Decisions /\ ~ReadBeforeDecision(d)
                           => dispute'[d] \in Decisions]_disputeVars
=============================================================================
