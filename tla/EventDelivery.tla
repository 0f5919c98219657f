--------------------------- MODULE EventDelivery ---------------------------
(***************************************************************************)
(* What the transactional outbox promises of each event written to it: it  *)
(* waits to be delivered, is claimed, is sent at most once per claim, and  *)
(* is done only when it has been sent, or dead only when MaxRetries claims *)
(* have been counted as failed.  A second sending is possible only after a *)
(* counted failure, so consumers see an event at most MaxRetries times.    *)
(***************************************************************************)
EXTENDS Naturals

CONSTANTS Events, MaxRetries

VARIABLES phase,  \* phase[e]: where event e is in its life
          tries,  \* tries[e]: deliveries of e counted as failed
          sent    \* sent[e]: times e was handed to the message broker

vars == <<phase, tries, sent>>

Phases == {"none", "waiting", "claimed", "done", "dead"}

Init == /\ phase = [e \in Events |-> "none"]
        /\ tries = [e \in Events |-> 0]
        /\ sent = [e \in Events |-> 0]

Submit(e) == /\ phase[e] = "none"
             /\ phase' = [phase EXCEPT ![e] = "waiting"]
             /\ UNCHANGED <<tries, sent>>

Claim(e) == /\ phase[e] = "waiting"
            /\ phase' = [phase EXCEPT ![e] = "claimed"]
            /\ UNCHANGED <<tries, sent>>

Send(e) == /\ phase[e] = "claimed"
           /\ sent[e] <= tries[e]
           /\ sent' = [sent EXCEPT ![e] = @ + 1]
           /\ UNCHANGED <<phase, tries>>

Finish(e) == /\ phase[e] = "claimed"
             /\ sent[e] > 0
             /\ phase' = [phase EXCEPT ![e] = "done"]
             /\ UNCHANGED <<tries, sent>>

Fail(e) == /\ phase[e] \in {"waiting", "claimed"}
           /\ tries[e] < MaxRetries
           /\ tries' = [tries EXCEPT ![e] = @ + 1]
           /\ phase' = [phase EXCEPT ![e] =
                          IF tries[e] + 1 < MaxRetries THEN "waiting" ELSE "dead"]
           /\ UNCHANGED sent

Next == \E e \in Events :
          Submit(e) \/ Claim(e) \/ Send(e) \/ Finish(e) \/ Fail(e)

Spec == Init /\ [][Next]_vars
=============================================================================
