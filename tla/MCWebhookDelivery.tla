------------------------- MODULE MCWebhookDelivery -------------------------
(* Instances of WebhookDelivery.                                           *)
EXTENDS WebhookDelivery, TLC

Symmetry == Permutations(Events)
=============================================================================
