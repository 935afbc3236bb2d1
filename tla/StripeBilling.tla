---------------------------- MODULE StripeBilling ----------------------------
(* One wing (transactional or marketing) of one organisation and the       *)
(* Stripe subscriptions that pay for it: checkout mints a NEW subscription *)
(* for every plan change, Stripe posts what happens to each of them to     *)
(* apps/api/src/routes/webhooks-stripe.ts, and syncWingSubscription of     *)
(* apps/api/src/lib/stripe.ts moves the organisation's columns.  A person  *)
(* may also go back to Free through apps/api/src/routes/billing.ts.        *)
(*                                                                         *)
(* A tier is named by the subscription that bought it.  "past_due" and     *)
(* "trialing" take the branch of "active"; "incomplete" stands for         *)
(* incomplete_expired too.  Not modelled: quantities, prices and credits,  *)
(* the overage and add-ons subscriptions, the legacy single plan.          *)
EXTENDS Naturals, Sequences

CONSTANTS
  Subs,        \* subscriptions checkouts may mint for this wing
  Handlers,    \* webhook requests the API serves at a time
  Free, None,
  Ordered,     \* TRUE: Stripe posts an event only after the earlier ones were answered
  MaxFaults, MaxQuits   \* bounds: failures; cancellations and requests to go back to Free

VARIABLES
  stripe,   \* Stripe's status of each subscription
  events,   \* what Stripe has to say, oldest first: [sub, status]
  owed,     \* the events it has no 200 for yet
  seen,     \* billing_events: the events recorded as handled
  org,      \* the wing's columns: the tier and the tracked subscription
  addons,   \* org_addons: the subscriptions whose riding add-ons are granted
  hook,     \* the webhook requests
  person,   \* the request to go back to Free: where it is, what it read
  faults, quits

vars == <<stripe, events, owed, seen, org, addons, hook, person, faults, quits>>

Idle == [pc |-> "idle", ev |-> 0, snap |-> "active", row |-> None, found |-> {}]
Unpaid == [tier |-> Free, sub |-> None]

Init ==
  /\ stripe = [s \in Subs |-> "none"]
  /\ events = << >>
  /\ owed = {}
  /\ seen = {}
  /\ org = Unpaid
  /\ addons = {}
  /\ hook = [h \in Handlers |-> Idle]
  /\ person = [pc |-> "idle", row |-> None]
  /\ faults = 0
  /\ quits = 0

-----------------------------------------------------------------------------
(* Stripe.  A "checkout" event names the subscription, whose status the    *)
(* handler retrieves; the others carry it as it was when they were made.   *)

Says(news) ==
  /\ events' = events \o news
  /\ owed' = owed \cup (Len(events) + 1)..(Len(events) + Len(news))

(* Stripe ends s at somebody's request; asking again is an error. *)
Ends(s) ==
  /\ stripe' = [stripe EXCEPT ![s] = "canceled"]
  /\ Says(<<[sub |-> s, status |-> "canceled"]>>)

(* A checkout form is filled in: the subscription exists, unpaid. *)
Mint(s) ==
  /\ stripe[s] = "none"
  /\ stripe' = [stripe EXCEPT ![s] = "incomplete"]
  /\ Says(<<[sub |-> s, status |-> "incomplete"]>>)
  /\ UNCHANGED <<seen, org, addons, hook, person, faults, quits>>

Pay(s) ==
  /\ stripe[s] = "incomplete"
  /\ stripe' = [stripe EXCEPT ![s] = "active"]
  /\ Says(<<[sub |-> s, status |-> "checkout"], [sub |-> s, status |-> "active"]>>)
  /\ UNCHANGED <<seen, org, addons, hook, person, faults, quits>>

(* The customer, at Stripe's portal, or dunning ends a paid subscription. *)
Lapse(s) ==
  /\ stripe[s] = "active" /\ quits < MaxQuits
  /\ quits' = quits + 1
  /\ Ends(s)
  /\ UNCHANGED <<seen, org, addons, hook, person, faults>>

-----------------------------------------------------------------------------
(* The webhook request h, working on event hook[h].ev.                      *)

Sub(h) == events[hook[h].ev].sub
Goes(h, pc) == hook' = [hook EXCEPT ![h].pc = pc]

MayPost(i) == i \in owed /\ (Ordered => \A j \in owed : i <= j)

(* The idempotency gate: the event is recorded before it is handled. *)
Receive(h, i) ==
  /\ hook[h].pc = "idle" /\ MayPost(i) /\ i \notin seen
  /\ seen' = seen \cup {i}
  /\ LET status == events[i].status IN
     hook' = [hook EXCEPT ![h] =
       IF status = "checkout" THEN [Idle EXCEPT !.pc = "retrieve", !.ev = i]
       ELSE [Idle EXCEPT !.pc = "read", !.ev = i, !.snap = status]]
  /\ UNCHANGED <<stripe, events, owed, org, addons, person, faults, quits>>

(* An event already recorded is answered 200, whatever became of it. *)
Duplicate(h, i) ==
  /\ hook[h].pc = "idle" /\ MayPost(i) /\ i \in seen
  /\ owed' = owed \ {i}
  /\ UNCHANGED <<stripe, events, seen, org, addons, hook, person, faults, quits>>

Retrieve(h) ==
  /\ hook[h].pc = "retrieve"
  /\ hook' = [hook EXCEPT ![h].pc = "read", ![h].snap = stripe[Sub(h)]]
  /\ UNCHANGED <<stripe, events, owed, seen, org, addons, person, faults, quits>>

(* syncWingSubscription reads the organisation and decides: an unpaid      *)
(* subscription counts only if it is the tracked one, a canceled one       *)
(* always does, a paid one replaces the tracked one.                       *)
Decision(h, row) ==
  CASE hook[h].snap = "incomplete" -> IF row = Sub(h) THEN "drop" ELSE "answer"
    [] hook[h].snap = "canceled"   -> "drop"
    [] OTHER -> IF row \in {None, Sub(h)} THEN "apply" ELSE "cancel"

Read(h) ==
  /\ hook[h].pc = "read"
  /\ hook' = [hook EXCEPT ![h].row = org.sub, ![h].pc = Decision(h, org.sub)]
  /\ UNCHANGED <<stripe, events, owed, seen, org, addons, person, faults, quits>>

(* The prior subscription is canceled so that nobody pays twice; Stripe's  *)
(* refusal is swallowed.                                                   *)
CancelPrior(h) ==
  /\ hook[h].pc = "cancel"
  /\ Goes(h, "apply")
  /\ IF stripe[hook[h].row] = "canceled"
     THEN UNCHANGED <<stripe, events, owed>>
     ELSE Ends(hook[h].row)
  /\ UNCHANGED <<seen, org, addons, person, faults, quits>>

CancelPriorFails(h) ==
  /\ hook[h].pc = "cancel" /\ faults < MaxFaults
  /\ faults' = faults + 1
  /\ Goes(h, "apply")
  /\ UNCHANGED <<stripe, events, owed, seen, org, addons, person, quits>>

Apply(h) ==
  /\ hook[h].pc = "apply"
  /\ org' = [tier |-> Sub(h), sub |-> Sub(h)]
  /\ Goes(h, "sum")
  /\ UNCHANGED <<stripe, events, owed, seen, addons, person, faults, quits>>

Drop(h) ==
  /\ hook[h].pc = "drop"
  /\ org' = Unpaid
  /\ Goes(h, "sum")
  /\ UNCHANGED <<stripe, events, owed, seen, addons, person, faults, quits>>

(* reconcileAllAddonEntitlements: what the tracked subscription bills now, *)
(* nothing when it ended or could not be retrieved (liveSub)...            *)
SumAddons(h) ==
  /\ hook[h].pc = "sum"
  /\ \/ /\ hook' = [hook EXCEPT ![h].pc = "grant",
              ![h].found = {s \in Subs : s = org.sub /\ stripe[s] # "canceled"}]
        /\ UNCHANGED faults
     \/ /\ org.sub # None /\ faults < MaxFaults
        /\ faults' = faults + 1
        /\ hook' = [hook EXCEPT ![h].pc = "grant", ![h].found = {}]
  /\ UNCHANGED <<stripe, events, owed, seen, org, addons, person, quits>>

(* ...and writes it over whatever was granted. *)
GrantAddons(h) ==
  /\ hook[h].pc = "grant"
  /\ addons' = hook[h].found
  /\ Goes(h, "answer")
  /\ UNCHANGED <<stripe, events, owed, seen, org, person, faults, quits>>

Answer(h) ==
  /\ hook[h].pc = "answer"
  /\ owed' = owed \ {hook[h].ev}
  /\ hook' = [hook EXCEPT ![h] = Idle]
  /\ UNCHANGED <<stripe, events, seen, org, addons, person, faults, quits>>

Working(h) == hook[h].pc \in {"retrieve", "read", "apply", "drop", "sum", "grant"}

(* Something throws: the record is deleted and Stripe is told 500. *)
Throw(h) ==
  /\ Working(h) /\ faults < MaxFaults
  /\ faults' = faults + 1
  /\ seen' = seen \ {hook[h].ev}
  /\ hook' = [hook EXCEPT ![h] = Idle]
  /\ UNCHANGED <<stripe, events, owed, org, addons, person, quits>>

(* The API process dies: the record stays. *)
Crash(h) ==
  /\ hook[h].pc # "idle" /\ faults < MaxFaults
  /\ faults' = faults + 1
  /\ hook' = [hook EXCEPT ![h] = Idle]
  /\ UNCHANGED <<stripe, events, owed, seen, org, addons, person, quits>>

-----------------------------------------------------------------------------
(* A person picks the Free tier: read the organisation, cancel what it     *)
(* tracks (best effort), write the tier.                                   *)

AskFree ==
  /\ person.pc = "idle" /\ quits < MaxQuits
  /\ quits' = quits + 1
  /\ person' = [pc |-> "cancel", row |-> org.sub]
  /\ UNCHANGED <<stripe, events, owed, seen, org, addons, hook, faults>>

CancelTracked ==
  /\ person.pc = "cancel"
  /\ person' = [person EXCEPT !.pc = "assign"]
  /\ IF person.row = None \/ stripe[person.row] = "canceled"
     THEN UNCHANGED <<stripe, events, owed, faults>>
     ELSE \/ Ends(person.row) /\ UNCHANGED faults
          \/ /\ faults < MaxFaults
             /\ faults' = faults + 1
             /\ UNCHANGED <<stripe, events, owed>>
  /\ UNCHANGED <<seen, org, addons, hook, quits>>

AssignFree ==
  /\ person.pc = "assign"
  /\ person' = [person EXCEPT !.pc = "idle"]
  /\ org' = Unpaid
  /\ UNCHANGED <<stripe, events, owed, seen, addons, hook, faults, quits>>

-----------------------------------------------------------------------------
Next ==
  \/ \E s \in Subs : Mint(s) \/ Pay(s) \/ Lapse(s)
  \/ \E h \in Handlers, i \in owed : Receive(h, i) \/ Duplicate(h, i)
  \/ \E h \in Handlers :
       \/ Retrieve(h) \/ Read(h) \/ CancelPrior(h) \/ CancelPriorFails(h)
       \/ Apply(h) \/ Drop(h) \/ SumAddons(h) \/ GrantAddons(h)
       \/ Answer(h) \/ Throw(h) \/ Crash(h)
  \/ AskFree \/ CancelTracked \/ AssignFree

Spec == Init /\ [][Next]_vars

(* While nothing fails and nobody cancels anything, the paid subscription  *)
(* the organisation is on is let go only for another one: a plan change    *)
(* "never drops what you had" (stripe.ts:1106).                            *)
PaidPlanKept ==
  [][\A s \in Subs :
       (org.sub = s /\ stripe[s] = "active" /\ faults = 0 /\ quits = 0)
         => org'.sub # None]_vars
=============================================================================
