----------------------------- MODULE MCAuthHook ----------------------------
(* Instances of AuthHook: deliveries one and two render the same mail, a   *)
(* third one (after a changed template) another.                           *)
EXTENDS AuthHook, TLC

CONSTANTS d1, d2, d3

Rendered == (d1 :> "x" @@ d2 :> "x" @@ d3 :> "y")
OneChanged == [c \in Calls |-> Rendered[c]]
Symmetry == Permutations(Recipients) \cup Permutations({d1, d2})
=============================================================================
