-------------------------- MODULE MCSendAdmission --------------------------
(* Two calls race one idempotency key, a third sends mail of its own; the  *)
(* second day begins a new month.                                          *)
EXTENDS SendAdmission

CONSTANT Third   \* the call with a key of its own

TwoShareAKey == [r \in Requests |-> IF r = Third THEN "k2" ELSE "k1"]
MonthPerDay == [d \in Days |-> d]
Plan(wing, overage, month, perDay) ==
  [wing |-> wing, allowOverage |-> overage, monthlyQuota |-> month, dailyCap |-> perDay]
AllPlans == {Plan("transactional", FALSE, 3, 2), Plan("transactional", FALSE, 2, 2),
             Plan("transactional", TRUE, 0, 1), Plan("marketing", FALSE, 3, 2)}
=============================================================================
