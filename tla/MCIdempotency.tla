--------------------------- MODULE MCIdempotency ---------------------------
(* Instances of Idempotency for TLC. *)
EXTENDS Idempotency, TLC

MCAllEndpoints == Endpoints
MCWebhookOnly == {"webhook"}

Symmetric == Permutations(Requests) \cup Permutations(Keys)

============================================================================
