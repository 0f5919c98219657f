----------------------------- MODULE MCRefunds -----------------------------
(***************************************************************************)
(* Refunds for TLC: transactions of 2 and 3 units, so that three requests  *)
(* can refund them in full, in parts, or in parts that exceed them.        *)
(***************************************************************************)
EXTENDS Refunds, TLC

CONSTANTS t1, t2

MCPrice == t1 :> 2 @@ t2 :> 3
Symmetry == Permutations(Requests)
=============================================================================
