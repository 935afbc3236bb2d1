------------------------- MODULE MCMessageDelivery -------------------------
(* Instances of MessageDelivery.  Messages share nothing but the workers,  *)
(* so one message and two workers show every race over a row.              *)
EXTENDS MessageDelivery, TLC

Symmetry == Permutations(Workers) \cup Permutations(Retriers)
=============================================================================
