------------------------------- MODULE Payouts ------------------------------
(***************************************************************************)
(* PayoutService: create_payout inserts a payout as PENDING and sends it   *)
(* on to IN_TRANSIT with a second statement; cancel_payout reads PENDING   *)
(* and writes CANCELED.  Both UPDATEs name the row by id alone.            *)
(***************************************************************************)
CONSTANTS Payouts, Handlers, None

VARIABLES payout,      \* payouts.status, or None
          sending,     \* payouts that create_payout has still to send
          canceling    \* the payout each cancel handler has read, as it was

payoutVars == <<payout, sending, canceling>>

Init ==
  /\ payout = [p \in Payouts |-> None]
  /\ sending = {}
  /\ canceling = [h \in Handlers |-> None]

-----------------------------------------------------------------------------
(* create_payout: the account exists (no code deletes one), INSERT.        *)
CreatePayout(p) ==
  /\ payout[p] = None
  /\ payout' = [payout EXCEPT ![p] = "PENDING"]
  /\ sending' = sending \cup {p}
  /\ UNCHANGED canceling

SendPayout(p) ==
  /\ p \in sending
  /\ payout' = [payout EXCEPT ![p] = "IN_TRANSIT"]
  /\ sending' = sending \ {p}
  /\ UNCHANGED canceling

InterruptCreate(p) ==
  /\ p \in sending
  /\ sending' = sending \ {p}
  /\ UNCHANGED <<payout, canceling>>

(* Mutant: a payout on its way can be cancelled too.                       *)
CancelableInTransit(p) == payout[p] \in {"PENDING", "IN_TRANSIT"}
IsCancelable(p) == payout[p] = "PENDING"

ReadPayout(h, p) ==
  /\ canceling[h] = None
  /\ IsCancelable(p)
  /\ canceling' = [canceling EXCEPT ![h] = [payout |-> p, status |-> payout[p]]]
  /\ UNCHANGED <<payout, sending>>

CancelPayout(h) ==
  /\ canceling[h] # None
  /\ payout' = [payout EXCEPT ![canceling[h].payout] = "CANCELED"]
  /\ canceling' = [canceling EXCEPT ![h] = None]
  /\ UNCHANGED sending

InterruptCancel(h) ==
  /\ canceling[h] # None
  /\ canceling' = [canceling EXCEPT ![h] = None]
  /\ UNCHANGED <<payout, sending>>

Next ==
  \/ \E p \in Payouts :
       \/ CreatePayout(p) \/ SendPayout(p) \/ InterruptCreate(p)
       \/ \E h \in Handlers : ReadPayout(h, p)
  \/ \E h \in Handlers : CancelPayout(h) \/ InterruptCancel(h)

Spec == Init /\ [][Next]_payoutVars

-----------------------------------------------------------------------------
(* A payout that is sent or cancelled stays so, unless its creator has     *)
(* still to write or a cancellation had read it before, as PENDING.        *)
Settled(p) ==
  /\ payout[p] \in {"IN_TRANSIT", "CANCELED"}
  /\ p \notin sending
  /\ \A h \in Handlers : canceling[h] # None /\ canceling[h].payout = p
                            => canceling[h].status # "PENDING"
SettledPayoutIsFinal ==
  [][\A p \in Payouts : Settled(p) => payout'[p] = payout[p]]_payoutVars
=============================================================================
