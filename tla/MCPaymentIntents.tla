-------------------------- MODULE MCPaymentIntents --------------------------
(* PaymentIntents for TLC: requests are interchangeable, and so are the    *)
(* payment methods.                                                        *)
EXTENDS PaymentIntents, TLC

Symmetry == Permutations(Requests) \cup Permutations(Methods)
=============================================================================
