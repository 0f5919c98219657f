----------------------- MODULE MCPaymentTransactions -----------------------
(***************************************************************************)
(* PaymentTransactions for TLC.  Handlers are slots that serve any number  *)
(* of requests; TxnIds bounds the transactions that can ever exist.        *)
(* Handlers and transactions are interchangeable; the symmetry is used for *)
(* safety properties only.                                                 *)
(***************************************************************************)
EXTENDS PaymentTransactions, TLC

Symmetry == Permutations(Handlers) \cup Permutations(TxnIds)
=============================================================================
