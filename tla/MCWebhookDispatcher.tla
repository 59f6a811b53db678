------------------------ MODULE MCWebhookDispatcher -------------------------
(***************************************************************************)
(* Small instances of WebhookDispatcher for TLC.                           *)
(***************************************************************************)
EXTENDS WebhookDispatcher, TLC

\* Workers are interchangeable.
WorkerSymmetry == Permutations(Workers)
=============================================================================
