------------------------- MODULE MCPaymentPipeline --------------------------
(***************************************************************************)
(* Small instances of PaymentPipeline for TLC.                             *)
(***************************************************************************)
EXTENDS PaymentPipeline, TLC

\* Transfers differ only in what Init lets every one of them be.
TransferSymmetry == Permutations(Transfers)

\* So do invoices and addresses when one amount can be sent.
PoolSymmetry == Permutations(Invoices) \cup Permutations(Addresses)
=============================================================================
