------------------------------ MODULE MCWebhook ------------------------------
EXTENDS WebhookDispatcherProps, TLC

(* The workers are interchangeable.                                        *)
WorkerSymmetry == Permutations(Workers)
=============================================================================
