------------------------ MODULE MCProviderFeedback -------------------------
(* Instances of ProviderFeedback: one message and the notifications that   *)
(* can contradict each other about it.                                     *)
EXTENDS ProviderFeedback, TLC

CONSTANTS d1, d2, o1, b1, t1, c1

\* Two deliveries of one mail: identity notification and configuration set.
Kind_ == (d1 :> "delivery" @@ d2 :> "delivery" @@ o1 :> "open" @@
          b1 :> "bounce" @@ t1 :> "transient" @@ c1 :> "complaint")
AllKinds == [n \in Notes |-> Kind_[n]]
OneMessage == [n \in Notes |-> CHOOSE m \in Messages : TRUE]
Symmetry == Permutations(Handlers)
=============================================================================
