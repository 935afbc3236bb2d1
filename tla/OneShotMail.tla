----------------------------- MODULE OneShotMail -----------------------------
(***************************************************************************)
(* What rootmail promises of authentication mail, seen by the customer: a  *)
(* request names an idempotency key; the key's mail is handed to the       *)
(* provider at most once; the reported status only moves forward, except   *)
(* that a failure reported while the outcome was unknown may be corrected. *)
(***************************************************************************)
EXTENDS Naturals

CONSTANT Keys

VARIABLES report,    \* the status the API shows for each key
          handed     \* how often the key's mail went to the provider

Settled == {"sent", "failed", "suppressed"}

Init ==
  /\ report = [k \in Keys |-> "absent"]
  /\ handed = [k \in Keys |-> 0]

Say(k, s) == report' = [report EXCEPT ![k] = s] /\ UNCHANGED handed

Accept(k) == report[k] = "absent" /\ Say(k, "queued")

Start(k) == report[k] = "queued" /\ Say(k, "sending")

(* The one hand-over.  It may come after a reconciler gave the mail up.    *)
HandOver(k) ==
  /\ report[k] \in {"sending", "failed"} /\ handed[k] = 0
  /\ handed' = [handed EXCEPT ![k] = 1]
  /\ UNCHANGED report

(* A mail not handed over by a running attempt never reads sent, one that  *)
(* was never read suppressed.                                              *)
Settle(k) ==
  \/ report[k] \in {"queued", "sending"} /\ Say(k, "failed")
  \/ report[k] \in {"sending", "failed"} /\ handed[k] = 1 /\ Say(k, "sent")
  \/ report[k] \in {"sending", "failed"} /\ handed[k] = 0 /\ Say(k, "suppressed")

Next == \E k \in Keys : Accept(k) \/ Start(k) \/ HandOver(k) \/ Settle(k)

Spec == Init /\ [][Next]_<<report, handed>>
=============================================================================
