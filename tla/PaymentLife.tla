---------------------------- MODULE PaymentLife ----------------------------
(***************************************************************************)
(* What the service lets outsiders see of a payment's life: it is created  *)
(* once for its key; clients are told, and the audit trail says, only what *)
(* has happened to it; once it has an outcome it is pending no more; and   *)
(* the outcome may be another one until the payment is settled, but never  *)
(* after that.                                                             *)
(***************************************************************************)
CONSTANTS Payments, Keys, Outcomes, None

VARIABLES phase,    \* phase[p]: where payment p is in its life
          key,      \* key[p]: the key it was created for
          outcome,  \* outcome[p]: the latest outcome, if there is one
          told,     \* what clients were told: pairs of a key and a payment
          trail     \* the audit trail: payments with a state they were in

vars == <<phase, key, outcome, told, trail>>

Phases == {"none", "pending", "decided", "settled"}

Init == /\ phase = [p \in Payments |-> "none"]
        /\ key = [p \in Payments |-> None]
        /\ outcome = [p \in Payments |-> None]
        /\ told = {}
        /\ trail = {}

Create(p, k) == /\ phase[p] = "none"
                /\ \A q \in Payments : phase[q] # "none" => key[q] # k
                /\ phase' = [phase EXCEPT ![p] = "pending"]
                /\ key' = [key EXCEPT ![p] = k]
                /\ UNCHANGED <<outcome, told, trail>>

(* The creation is reported to the client, and perhaps to the trail.       *)
Tell(p) == /\ phase[p] # "none"
           /\ told' = told \cup {<<key[p], p>>}
           /\ trail' \in {trail, trail \cup {<<p, "PENDING">>}}
           /\ UNCHANGED <<phase, key, outcome>>

Decide(p, o) == /\ phase[p] \in {"pending", "decided"}
                /\ \E f \in {"decided", "settled"} : phase' = [phase EXCEPT ![p] = f]
                /\ outcome' = [outcome EXCEPT ![p] = o]
                /\ UNCHANGED <<key, told, trail>>

Report(p, o) == /\ phase[p] \in {"decided", "settled"}
                /\ trail' = trail \cup {<<p, o>>}
                /\ UNCHANGED <<phase, key, outcome, told>>

(* Nobody is left who could decide otherwise.                              *)
Settle(P) == /\ \A p \in P : phase[p] = "decided"
             /\ phase' = [p \in Payments |-> IF p \in P THEN "settled" ELSE phase[p]]
             /\ UNCHANGED <<key, outcome, told, trail>>

Next == \/ \E p \in Payments :
             \/ \E k \in Keys : Create(p, k)
             \/ Tell(p)
             \/ \E o \in Outcomes : Decide(p, o) \/ Report(p, o)
        \/ \E P \in SUBSET Payments : Settle(P)

Spec == Init /\ [][Next]_vars
=============================================================================
