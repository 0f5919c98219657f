----------------------------- MODULE MCBilling -----------------------------
(***************************************************************************)
(* Billing for TLC.                                                        *)
(***************************************************************************)
EXTENDS Billing, TLC

(* Two line items of 2 units in all, an invoice of nothing, and one whose  *)
(* sum is the largest i64.                                                 *)
MCBills == {[lines |-> 2, amount |-> 2], [lines |-> 0, amount |-> 0], [lines |-> 1, amount |-> MaxI64]}

(* A payment in part and in full; the route takes a negative one too.      *)
MCAmounts == {-1, 1, 2}

(* Two flags, each on its own and both together.                           *)
MCUpdates == {"charges_enabled" :> TRUE, "payouts_enabled" :> TRUE, "payouts_enabled" :> FALSE,
              "charges_enabled" :> FALSE @@ "payouts_enabled" :> TRUE}

(* One field, the other, or both; one of two values for the first.         *)
MCFieldUpdates == {"email" :> 1, "email" :> 2, "name" :> 1, "email" :> 1 @@ "name" :> 2}

Symmetry == Permutations(Handlers) \cup Permutations(Payments)
=============================================================================
