------------------------- MODULE MCPaymentPipeline --------------------------
(***************************************************************************)
(* PaymentPipeline for TLC: one instance, as docker-compose.yml deploys it.*)
(***************************************************************************)
EXTENDS PaymentPipeline

MCInstanceOf(h) == CHOOSE i \in Processors : TRUE
=============================================================================
