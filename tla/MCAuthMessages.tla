--------------------------- MODULE MCAuthMessages ---------------------------
(* Instances of AuthMessages: two clients racing one idempotency key, and  *)
(* a request that reuses the key with different input.                     *)
EXTENDS AuthMessages, TLC

CONSTANT Odd   \* the request with the other input

OneKey == [r \in Requests |-> "k"]
SameInput == [r \in Requests |-> "i"]

TwoInputs == [r \in Requests |-> IF r = Odd THEN "j" ELSE "i"]

Symmetry == Permutations(Requests) \cup Permutations(Workers)
=============================================================================
