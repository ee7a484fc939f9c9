------------------------- MODULE MCWebhookDelivery -------------------------
(* Model-checking instance of WebhookDelivery. *)
EXTENDS WebhookDelivery, TLC

\* Webhooks and manually started passes are interchangeable.
Symmetry == Permutations(Hooks) \cup Permutations(ManualPasses)
=============================================================================
