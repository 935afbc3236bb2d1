# A verification model of rootmail

rootmail is a multi-tenant mail platform: an HTTP API (`apps/api`), a worker
(`apps/worker`) behind BullMQ queues in Redis, rows in Postgres, and Amazon SES
(or another provider) and Stripe at the far end. These TLA+ modules model the paths a
message takes through it, TLC checks them on small instances, and TLAPS proves
the types and most of the safety results of eight of them for every instance.

The question behind every module is the same: *what happens to one message when
two executions, a retry, a crash or a late notification cross?* The code answers
it with row statuses, job ids, Redis keys and comments; the models say which of
those answers hold.

## 1. Inventory

| component | state | operations | what is hard | what makes it correct |
|---|---|---|---|---|
| **Authentication mail** (`routes/auth-messages.ts`, `worker/auth-send.ts`, `auth-reconcile.ts`, `core/auth-content.ts`) | message row, sealed content in Redis with a TTL, quota counters, send job | POST with an idempotency key, claim, take content, send, reconcile | racing requests, a lost provider answer, stalled jobs, expiry | handed over at most once per key; a queued row has its content; quota follows the row; every row settles |
| **Send pipeline** (`worker/pipeline.ts`, `core/queue.ts`, `core/retry.ts`, `routes/messages.ts`) | `messages.status`, `provider_message_id`, `retry_count`, jobs | insert, enqueue, `processSend`, defer, retry by hand | no claim on the row; BullMQ attempts; errors after acceptance | no second accepted copy; suppression honoured at send time; every queued job settles |
| **SES feedback** (`routes/webhooks-ses.ts`, `lib/ses-events.ts`) | `sns:seen` keys, status, audit trail, suppression list | dedup, look up, replace status, suppress, audit | at-least-once and unordered delivery, concurrent handlers | applied once; a bad outcome suppresses, and is lost only to its own handler's failure |
| **Campaigns** (`routes/campaigns.ts`, `worker/campaigns.ts`, `worker/send.ts`) | `campaigns.status`, list and template links, one fan-out job | send, cancel, edit, delete, fan out | a job that mails everybody, cancelled while it runs | one mail per member and fan-out; a cancellation bites; the campaign settles |
| **Admission and quota** (`lib/billing.ts`, `core/throttle.ts`, `routes/messages.ts`) | monthly and daily counters, burst counters | reserve, refund, count | refusal after reservation, day boundaries, get-then-increment | one charge per accepted message; caps overshot only as far as the order of the code allows; a burst window reopens |
| **Sequences** (`worker/sequences.ts`, `db/sequence-triggers.ts`) | enrolment: step, status, next run | tick, advance, exit | exit during advance, crash between send and write, a due list with a limit | a step repeats only by a fault; none dropped; an exit holds; every drip ends |
| **Outbound webhooks** (`worker/webhooks.ts`) | endpoint status, consecutive failures | deliver, retry, disable | lost updates of the counter | one confirmation or all attempts; disabled only for failures in a row |
| **Tenant standing: reputation, DNS drift** (`worker/reputation.ts`, `dns-drift.ts`, `routes/subtenants.ts`) | `sub_tenants` status, reputation, DNS grace; resume audit trail | sweep, DNS check, verify, resume, delete | every writer decides from the row it read and writes unconditionally | a pause outranks everything but a resume; nobody suspended on one lookup; a suspension heals |
| **Supabase auth hook** (`packages/supabase`) | ledger row per event | verify, claim, post, poll | redelivered events, request budget | one content and deadline per key; success answered only for accepted mail |
| **Stripe billing** (`routes/webhooks-stripe.ts`, `lib/stripe.ts`, `routes/billing.ts`) | `billing_events`, the wing's tier and tracked subscription, `org_addons` | receive an event, sync the wing, recompute add-ons, go back to Free | a new subscription for every plan change, the old one's events, repeated posts | a paid plan is kept until it is replaced or ended |
| Suppression rules (`db/suppression.ts`) | none (pure) | scope and kind of an opt-out | bulk against transactional | agrees with a reference definition |
| Mailgun and tenant feedback, capacity alerts, lifecycle and system mail, retention, conversations, accounts and seats | | | | see "Not modelled" |
| Providers, rendering, DNS, web apps, docs, SDKs | none of the above | | pure I/O or content | not modelled |

Components meet in five places: the API and the worker share the **message row**;
the API, campaigns, sequences and the retry endpoint feed the **send queue**; the
worker stores the provider id that **SES feedback** looks messages up by; feedback
writes the **suppression list** the pipeline reads; and the Supabase hook is a
client of authentication mail, through its **idempotency key**. There is no
transaction around any of these except the reconciler's, so an *action* of a
model is always the code between two awaits.

## 2. The modules

| module | models | proofs |
|---|---|---|
| `AuthMessages` | authentication mail, end to end | `AuthMail_proofs` |
| `OneShotMail` | what the customer is promised of it, per idempotency key; implemented by `AuthMessages`, used by `AuthHook` | |
| `AuthHook` | the Supabase hook in front of it | `AuthMail_proofs` |
| `SendAdmission` | replay, burst brake, quota reservation and refund of `POST /v1/messages` | `SendAdmission_proofs` |
| `MessageDelivery` | ordinary mail: insert, queue, `processSend`, suppression, manual retry | `MessageDelivery_proofs` |
| `ProviderFeedback` | the tail of `processSend`, SNS, the SES webhook | `ProviderFeedback_proofs` |
| `CampaignFanout` | campaign routes and `processCampaignSend` | `CampaignFanout_proofs` |
| `SequenceEngine` | the drip tick, enrol calls, exits and edits | `SequenceEngine_proofs` |
| `TenantStanding` | reputation sweep, DNS drift, verify, resume, delete | `TenantStanding_proofs` |
| `WebhookDelivery` | event fan-out, deliver jobs, endpoint routes | `WebhookDelivery_proofs` |
| `StripeBilling` | one wing's plan against Stripe's events | |
| `MC*` | values of the constants that a .cfg cannot write, and symmetry | |

Conventions shared by all of them:

* A process is a program counter (`req`, `wpc`, `hpc`, `pc`, `call`, `sweep`,
  `place`, `hook`) naming the await it is about to make. A worker is one concurrent
  execution of a queue.
* **BullMQ** is modelled by how the code uses it: `queue.add` with an id it has seen
  and retains does nothing; a job has a number of attempts; a job whose lock lapses
  is given to another worker once (`maxStalledCount` is its default, 1) while the
  first execution, if merely slow, goes on; a worker without the lock cannot put the
  job back. What it retains it forgets in the end (`removeOnComplete`,
  `removeOnFail`): for a campaign, which can be sent again a week later, that is an
  action (`Forget`); a message's id is enqueued again only by a replay of its own
  request or a crossing retry, and is taken as retained that long (5,000 newer
  completions could end it sooner; the copy of the job that this allows is one more
  of those that a deferral, which has no id, makes in the models anyway). Delays and
  backoff are unordered: a job may start at any time.
* **Mutants.** Operators marked "Mutant" are plausible bugs of the definition that
  follows them; each checked property is one that some mutant breaks.
* **History variables** (`submitted`, `lapse`, `accepted`, `blind`, `barred`,
  `applied`, `missed`, `tail`, `forgets`, `slipped`, `sent`, `made`, `firm`,
  `overtaken`, `failedBefore`, `tries`, `heard`, `streak`, `alone`, `everOff`) are
  read by properties, never by guards of the code's actions; `faults` bounds the
  environment. The one exception: `lapse` also tells the request handler that
  `tryConsumeQuota` threw, which in the code is its flag `charged` still being
  false.

### AuthMessages

`req[r]` walks through the request handler: `Begin` (lookup, replay), `Seal` (vault
put), `ChargeMonth`, `ChargeDay` and `GiveBack` (the two meters of
`tryConsumeQuota`), `Insert` (unique key), then either `WriteAudit` and `Enqueue`,
or the `finally` block (`Undo`, `RefundMonth`, `RefundDay`). Each of the four writes
before the `finally` may be made and then throw (`Throws`, which notes it in
`lapse`): inside the reservation the handler then believes itself uncharged and
leaves its units counted; after a committed insert it believes that there is no row,
discards the content of a row that is queued, and refunds it. That row is never
enqueued by its own handler; a replay or the reconciler ends it.
`ChargedIffInserted` and `QueuedHasContent` name exactly these exceptions. `wpc[w]`
walks through `processSend` and `processAuthSend`: `Claim` is the compare-and-set
from queued to sending, `TakeContent` the Redis GETDEL, `Send` an acceptance, a
refusal or an acceptance whose answer is lost. `Tick` moves an input's age over the
deadline, its margin and the reconciler's extra minute; `rec` is the sweep, with its
select and its per-row transaction as separate steps.

At-most-once rests on two barriers: the claim and the GETDEL. Removing either
one alone does not break `AtMostOnce`; the run's mutant removes the uniqueness of
the insert instead, the only thing both rest on.

`OneShotMail` is the customer's view: one report per key that moves forward, one
hand-over. `ImplementsPromise` maps a key to the row that won its insert, so the
losers' content, refunds, stalled jobs and sweeps must all be invisible.

### MessageDelivery

`processSend` does not claim ordinary mail: `Load` reads the status and lets
queued *and sending* rows through, because an attempt after a crash must be able
to resume. `Gate` (recipient confirmation, tenant state, throttle), `Resolve`
(reply address, customer provider) and `Refuse` abstract the many conditions to
pass, refuse or defer, all of which are possible at any time. `Send` to
`AuditDelivered` is the inside of the `try`: `ThrowAfterSend` is a database error
there, `Catch` the write of "failed" and the rethrow. `OutsideTry` places rethrow
without writing. The retry endpoint is four steps: read and `canRetryMessage`,
check the suppression and capacity, an update that names only the id, enqueue
under `<id>-r<n>`.

`blind` records that an execution was duplicated (stall) or lost its outcome
(crash after acceptance, failed write in the catch, a deferral whose answer was
lost) while its result was still unrecorded: there at-least-once is what the code
gives, and `NoSelfMadeDuplicate` says that it is the *only* place.

### ProviderFeedback

`send[m]` is the tail of `processSend`; `Emit` is SES publishing, `Receive` SNS
posting anything not yet answered, again and to any handler. A handler marks the
envelope id as seen, looks the message up by provider id, reads its status, perhaps
its audit trail, and writes. `Early` lets a notification precede the worker's own
write. `LossesAreFaults` says that a bad outcome marked as seen reaches the
suppression list, stays with its handler, or was lost to one failure of its own;
`missed` sets apart what came before the id was stored. A click is treated as an
open; `delivery` also replaces "queued" in the code, which no row with a provider id
can be here.

### CampaignFanout

The campaign routes are read-then-write; `processCampaignSend` is `Load` (with the
early returns), `Mark`, `Resolve`, then per member `Mail` and, every `CheckEvery`
members, `Check`. `calls` counts the API calls that stand between their read and
their write, `MaxCalls` of them at once. `known` is whether the queue retains the
campaign's job id, `Forget` its removal after a day (done) or a week (failed):
`OnePerFanout` allows each member one message for each fan-out the queue took for a
different one (`Fanouts`) and one for each fault. `Mail` is the whole of
`automationSend` for one member, whose errors the loop only counts. `linked` is
whether list and template are set; deleting either sets it null (`Unlink`) and an
edit may set it either way. `tail` counts what an execution creates while the row
says cancelled.

### AuthHook

`place[c]` walks delivery `c` of one event through `createAuthEmailHook`: `Deliver`
is verification (a signature may be ahead of the clock by `Skew`), `ClaimEvent` the
ledger's insert-or-read, `Check` the comparison of fingerprint and deadline,
`Post`, `Poll`, `Fail`, `Succeed`, `Abort` (the request budget ends: other legs
are cancelled, but a post already on the wire arrives) the work per recipient.
The server is `OneShotMail` with the recipients as keys: `Serve` answers a post by
binding the key to the input or, for another input, with a conflict; `Work` lets
the receipt move as the promise allows. `AuthMessages` is shown to implement the
same module, so the two compose through it and neither needs the other's detail.
Their proofs stand in one module, which extends both: definitions the two would
share by name carry `Hook` in `AuthHook`.

### SendAdmission

One call is `Lookup` (replay), `BurstRead`/`BurstCount`/`BurstExpire` (the Redis
round trips of `checkAndCount`: get, increment, expire), `ReserveMonth`,
`ReserveDay` with `GiveBack`, then, when refused, `ExplainFirst` and
`ExplainSecond` (the two capacity checks that should say why), `Content` (all
refusals after the reservation), `Insert`, and the loser's `RefundMonth` and
`RefundDay`. `Midnight` and `WindowEnds` happen between any two of them. A call
*slips* when the meter refused it and both explanations pass because the
allowance changed meanwhile: the code then sends without a reservation
(`messages.ts:336`); or when it hands a unit back to a month or a day it was not
taken from (`billing.ts:409`, `:202`, `:179`). `slipped` keeps the calls of each
kind apart, because one call may pass the month twice: refused for the day, it
gives its unit back after midnight to the new month, and then goes on for free and
is accepted in it. With five calls a month of two takes four that way.

### SequenceEngine

`Select` is the tick's due list, which is also its snapshot; `Begin` to `Write` are
`advance` on one enrolment, which works on the snapshot and writes once at the end
(`wStep`, `wStatus`, `wDue` are the local variables it will write). Exits are either
one update of all rows (reply, unsubscribe) or a cancel of one; an enrol call reads
and then inserts. Ticks overlap only when a job's lock lapsed (a fault). The due
list is the newest `Limit` (100) rows of *all* sequences: `crowd` is how many due
rows of others come first, and changes freely (`Crowd`); `Front` is what the list
holds of ours. A wait of no hours goes on in the same `advance`. `made` records the
steps for which a message row exists, queued or suppressed (`automationSend` inserts
one each time). `firm` is the set of enrolments exited while no tick had them in
hand.

### TenantStanding

One sweep at a time (`SelectReputation`, `Judge`, `AuditTransition`, `SelectDns`,
`Lookup`, `Record`) beside any number of calls of verify, resume and delete, each
split at its awaits, over one `sub_tenants` row. The numbers behind a verdict are
an input, `Bands`. `held` and `read[c]` are the row as each writer read it: all
writes are unconditional. `GraceEnds` turns a failing row's grace from running to
over, `dns` is what a lookup answers and changes at any time.

### WebhookDelivery

`FanRead`/`FanAdd`/`FanDone` is the event job, which runs again when it throws
(two attempts) and once more when its worker is lost (`FanRuns`); a deliver job
reads the endpoint (`Begin`), posts (`Request`), and writes from what it read
(`Good`, `Retry`, `GiveUp`). A job of either kind that stalls a second time is
failed by the queue (`stalledFans`, `stalledJobs`). PATCH reads and writes in two
steps and resets the counter on re-activation. `heard` counts the confirmations.
`streak` counts the deliveries to an endpoint that failed for good in a row; a row
of failures ends with a success of a delivery that no other one and no edit
overlapped (`alone`), and with a re-activation at which nobody holds an older
reading. An overlapped success need not end it: what was read before it and is
written after it puts the old count back.

### StripeBilling

Every plan change mints a new subscription; `events` is what Stripe has to say
about all of them, `owed` what has no 200 yet. `hook[h]` walks one webhook request:
`Receive` records the event in `billing_events` before handling it, `Retrieve` is
the fetch of a completed checkout, `Read` the organisation row and the decision on
it, `CancelPrior` the cancellation of the replaced subscription (which makes Stripe
say something again), `Apply` or `Drop` the columns, `SumAddons` and `GrantAddons`
the recomputation of entitlements. `Throw` deletes the record and answers 500;
`Crash` leaves it, so that the repeated event is a `Duplicate`. The person's return
to Free reads, cancels and writes in three steps. `Ordered` makes Stripe post in
order, which it does not promise: the run assumes it, so that what it finds needs
no reordering. The module has no run that passes: its one property fails, and it
is kept as the model of the disagreement in section 3.

## 3. Runs

| run | configuration | checks | bounds |
|---|---|---|---|
| `auth_race` | `AuthMessages.cfg` | `TypeOK`, `AtMostOnce`, `QueuedHasContent`, `SettledStaysSettled` | 2 requests on one key, 2 workers, 1 deferral, no lapse; 1.3 M states |
| `auth_keys` | `AuthMessagesKeys.cfg` | `ChargedIffInserted`, `ImplementsPromise`, `RowsSettle` | one key, two different inputs, 1 worker, 2 lapses; 165 k |
| `delivery_retry` | `DeliveryRetry.cfg` | `TypeOK`, `SuppressionHonoured`, `NoSelfMadeDuplicate` | 1 message, 2 workers, 1 retry, 2 attempts, 1 deferral, 1 fault; 1.9 M |
| `delivery_settles` | `DeliveryLive.cfg` | `EnqueuedSettles` | as above with 2 faults and no retry; 1.0 M |
| `feedback` | `Feedback.cfg` | `TypeOK`, `AppliedAtMostOnce`, `LossesAreFaults`, `BadOutcomeSuppresses` | a delivery, a bounce, a complaint, 2 handlers, 1 fault, early; 74 k |
| `campaign` | `Campaign.cfg` | `TypeOK`, `OnePerFanout`, `CancelBites`, `FanoutSettles` | 2 members, re-read after each, 2 calls at once, 2 sends, 2 workers, 2 attempts, 1 fault; 1.2 M |
| `admission` | `Admission.cfg` | `TypeOK`, `OvershootBounded`, `OneChargePerMessage`, `BurstWindowReopens` | 3 calls of which 2 share a key, 2 days in 2 months, 4 plans, 1 fault; 220 k |
| `sequences` | `Sequences.cfg` | `TypeOK`, `RepeatsNeedFaults`, `NoStepDropped`, `ExitHolds`, `DripEnds` | wait 0 h, send, branch, wait 1 h, send; 1 enrolment, list limit 1, 2 ticks, 1 delay, 1 fault; 271 k |
| `standing` | `Standing.cfg` | `TypeOK`, `ResumesBounded`, `DisabledMeansPaused`, `PauseHolds`, `SuspendedAfterWarning`, `SuspensionHeals` | 2 operators, 3 bands, 1 resume allowed, 1 fault; 1.5 M |
| `hook` | `Hook.cfg` | `HookTypeOK`, `OkMeansAccepted`, `OneInputPerKey` | 3 deliveries of which one renders other content, 2 recipients, 3 time steps; 1.4 M |
| `webhooks` | `Webhooks.cfg` | `TypeOK`, `ConfirmedOnceOrExhausted`, `DisabledAfterFailures` | 2 events, 1 endpoint, 1 editor, 2 attempts, threshold 2, 1 fault; 550 k |
| `billing_upgrade` | `Billing.cfg` | `PaidPlanKept` is **violated** | 2 subscriptions, 1 handler, events in order |

**The counterexample of `billing_upgrade`.** The organisation is on subscription
s1 and pays for s2. The handler of s2's event cancels s1 at Stripe
(`stripe.ts:1363`) and moves the columns to s2. Stripe posts
`customer.subscription.deleted` for s1; `syncWingSubscription` sees "canceled"
(`stripe.ts:1330`), does not ask whether s1 is the subscription the organisation
tracks, and drops the wing to Free, while s2 goes on billing. No fault, no
reordering and no second handler is needed. The comment over the checkout says that
a plan change "never drops what you had" (`stripe.ts:1106`). The branch for
"incomplete", a few lines above, does compare the ids.

**Other disagreements met while modelling.** They are behaviours of the models
above (a property that forbids them would be violated), none has a run of its own,
and the properties of the passing runs are stated around them:

| where | the comment | the behaviour |
|---|---|---|
| `core/queue.ts:87` | "the row is the real lock" | the provider refuses, BullMQ holds the job for its backoff, a person retries, the row is queued again, and the original job and the retry both pass the guard and send |
| `core/retry.ts:4` | "never retry a message the provider already accepted" | the write of the provider id fails, the catch marks the row failed without it, the retry is allowed |
| `worker/pipeline.ts:586` | "surface to BullMQ for retry/backoff" | the catch has written "failed", at which the next attempt's guard returns: a refused send is never tried again automatically |
| `routes/webhooks-ses.ts:60` | bounces and complaints "add a suppression so we never send to that address again" (`ses-events.ts:34`) | the seen key is set first; when applying fails, SNS's second post is answered as a duplicate and the outcome is lost |
| `lib/ses-events.ts:391-394` | "Do not regress a complaint. SES can deliver a bounce and a complaint for the same message out of order" | the guard looks at the row as it was read: a bounce handler that read before a complaint handler wrote replaces "complained" |
| `lib/ses-events.ts:341` | "never regress a terminal state a parallel event already set" | a delivery handler that read before a bounce or complaint handler wrote replaces "bounced" or "complained" with "delivered" |
| `worker/campaigns.ts:156` | "A cancelled campaign stays cancelled" | a cancellation after the last re-read is overwritten by the final write |
| `worker/campaigns.ts:13-16` | a cancelled campaign "must not run at all", and the check keeps the status write from "erasing the cancellation" | a cancellation between the worker's read and its "sending" write is erased, and the whole audience is mailed |
| `core/queue.ts:189` | "one fan-out per campaign" | the queue forgets the id a day (a week) after the job ended: a campaign cancelled midway and sent again then is a second fan-out from the first member, without any fault |
| `worker/sequences.ts:222` | "advance every due, active enrollment" | the tick takes the newest hundred due rows of all workspaces (`:224-229`); paused sequences' rows, always-throwing steps and polling branches that stay in that list starve an older row for ever |
| `core/constants.ts:1063` | "after this many consecutive fully-failed deliveries" | a delivery that read the counter before a success and fails after it writes the old count plus one (`worker/webhooks.ts:86`), and a success that read zero resets nothing (`:134`): the endpoint is disabled after fewer consecutive failures |
| `lib/billing.ts:408` | the month's unit is handed back "so it isn't burned" | an exception between the two meters, or of the giving back, reaches the caller as a reservation that never was (`auth-messages.ts:98-129`): the unit stays counted with no message |

Without a comment to contradict: an authentication request whose insert was
committed but threw discards the content of its queued row and refunds it
(`auth-messages.ts:122-129`); a notification that precedes the stored provider id is
answered and lost (`ses-events.ts:325`); two concurrent retries can leave a row
queued that no job carries (`messages.ts:742`); a fan-out job that is attempted
again mails everybody again; one that is stalled or dies twice is failed whatever
attempts it has left, and its campaign says sending for ever; a second send of a
cancelled campaign is ignored by the queue while the row says sending; a row whose
enqueue never happened, or whose job stalled twice, stays queued or sending, and
nothing sweeps ordinary mail the way the reconciler sweeps authentication mail; a
tick that read an enrolment before an exit overwrites the exit (`sequences.ts:209`);
two enrolments of one contact may be inserted at once (`sequence-triggers.ts:36`); a
verify that read the pause before a resume leaves the tenant disabled and not
paused; a billing event recorded by a process that then died is a duplicate ever
after.

**Why the bounds are enough.** Messages, campaigns, tenants and wings do not
interact except through their own row, keys and recipient (and an enrolment with all
others through the limit of the due list, which is `crowd`), so one of each is the
general case; two workers, callers, ticks or operators are the least that race, and
a third adds no new pair. Three calls in `admission` are the least with both a race
for a key and a competitor for the last unit; its plans put the cap on the day, on
the month and on neither. Three deliveries in `hook` are two that agree and one that
does not. The drip of `sequences` has each kind of step, and its branch skips a
wait, so that positions are both passed one by one and jumped over. `Attempts` is 4
for sends and 3 for fan-outs in the code, 6 for webhooks; two already have a first
and a last. `MaxDeferrals` (26 in the code) is a counter in the job, and one
deferral gives a job outside the id's protection. Two of `MaxLapses` let both
requests of `auth_keys` lose an answer; `auth_race`, whose properties concern
content and claims, has none for its size, and `QueuedHasContent` with lapses rests
on its theorem. `Limit` is 1 for 100: full by one row of others. `Threshold` and
`MaxSelfResumes` at two and one are reached within a run and crossed by the race.
`MaxFaults` bounds exceptions, stalls, lapsed locks and crashes together. One fault
does not reach a second stall of a webhook job, nor two deliveries that fail
independently inside, nor the end of a twice-stalled fan-out: `FanoutSettles` and
`EnqueuedSettles` have the number of faults among their premises, and the safety
properties of these modules are theorems for any number. The theorems of section 4
hold for every value of the constants, these bounds included, under the premises
that the properties themselves state.

Deadlock checking is off in every configuration: requests, messages, notifications
and campaigns are finite in number and a finished system stops.

**Fairness.** `RowsSettle` needs time to pass and the sweep, a repeatable job, to
go on (strongly fair, since it may be killed any number of times); workers and
handlers may all be dead. `EnqueuedSettles` and `FanoutSettles` assume that idle
workers take jobs and running ones go on: they are long-lived processes, and a
crash is a bounded fault. `BadOutcomeSuppresses` assumes SNS posts an unanswered
notification again (strong fairness, as handlers may be busy) and that handlers
run. `BurstWindowReopens` assumes that a request goes on until answered and that
Redis drops expired keys. `DripEnds` assumes that the repeatable tick comes round,
that a running tick goes on and that an enrolment's time comes. `SuspensionHeals`
assumes that the sweep goes on, and that again and again an hour has passed since a
tenant's last check (strong fairness of the DNS selection, which other parts of the
sweep interrupt). No client, person, tenant, recipient or provider is ever assumed
to act.

**What the properties assume, as premises and not as missing behaviour.**
`EnqueuedSettles`: at most one fault, because a job that stalls twice is failed
without running. `FanoutSettles`: list and template stay, one send call, at most one
fault and an attempt to spare (two faults leave a campaign sending for ever with any
number of attempts: a second stall fails the job, and so does an execution that lost
its lock, marks the campaign as sending again after another has finished it, and
then throws). `OnePerFanout`: one message more for each fault and each forgotten id.
`BadOutcomeSuppresses`: the id is stored and nothing fails from then on.
`LossesAreFaults`: one loss for each fault, and what came before the id was stored
apart. `ChargedIffInserted`: excepts an exception inside the reservation and an
unacknowledged insert; `QueuedHasContent`: excepts the latter.
`OneChargePerMessage`: nobody died or slipped. `BurstWindowReopens`: nobody died
between increment and expiry. `DripEnds`: in the end all due rows fit the list of
one tick (`RoomForAll`). `NoStepDropped`: no branch jumps over a send.
`RepeatsNeedFaults`: no branch goes back (`sequences.ts:28` lets one be written so,
to mail on purpose again). `ExitHolds`: no tick had the enrolment in hand.
`SuspendedAfterWarning`: speaks of the last lookup the sweep recorded; one whose
write threw left no trace. `DisabledMeansPaused`: excepts the verify that crossed a
resume. `SuspensionHeals`: records good for good, no call under way, not paused.
`ConfirmedOnceOrExhausted`: no fault, endpoint never switched off.
`DisabledAfterFailures`: only a success or re-activation that nothing overlaps ends
a row of failures. `PaidPlanKept`: nothing fails and nobody cancels.

## 4. Proofs

The theorems hold for every value of the constants that satisfies the named
assumptions of the component's module; each proof module starts with the argument
and `USE`s those assumptions.

| module | theorems | why the property alone is not inductive, and what is added |
|---|---|---|
| `AuthMail_proofs`, the server | `TypeCorrect`, `ClaimInvariant`, `OneHandOver` (`AtMostOnce`), `SettledFinal` (`SettledStaysSettled`), `ChargedForRows` (`ChargedIffInserted`), `ContentSurvives` (`QueuedHasContent`), `PromiseKept` (`ImplementsPromise`) | at-most-once does not say why a second worker cannot be about to send: a key has one row (`OneRowPerKey`) and none before the insert, a claimed row has left queued for good (`ClaimHolds`), a row has one claimant (`OneClaimant`) who has not sent yet (`Unspent`, `Spent`). Where a handler stands, and where it lapsed, says on which meters it is counted and whether it has a row (`ChargeFollowsRow`). Content is sealed before the insert (`SealedBeforeInsert`) and purged only after the row left queued (`PurgeAfterQueued`). Under the refinement mapping a key shows its one row (`KeysShowRows`), so a step of that row is one of the promise |
| `AuthMail_proofs`, the hook | `HookTypeCorrect`, `KeysAreBoundOnce` (`OneInputPerKey`), `OkIsEarned` (`OkMeansAccepted`), `ServerIsPromised` | what a delivery holds is the ledger's row (`EntryIsLedger`), what is on the wire is what a delivery holds (`OnWire`), the row is written once; a leg that has read "sent" stays right because that receipt is final. The server of the model keeps to `OneShotMail`, as `PromiseKept` says the real one does |
| `SendAdmission_proofs` | `TypeCorrect`, `CapsHold` (`OvershootBounded`), `ChargedOnce` (`OneChargePerMessage`) | neither bound says what a counter counts: each is at its limit at most and at least the number of calls that hold a unit of it, less the refunds gone astray, and exactly that number while nobody slipped or died (`DayMeter`, `MonthMeter`, over finite cardinalities); an accepted call holds its units or went on for free (`ReservedAtDay`), and each kind of slip happens to a call once (`SlipsOnce`) |
| `MessageDelivery_proofs` | `TypeCorrect`, `SuppressedIsNotSent` (`SuppressionHonoured`), `SentOnceUnaided` (`NoSelfMadeDuplicate`) | a barred job's recipient is on the list now (`BarredIsListed`), and a barred job never gets past the one check (`PastCheck`), wherever it came from; a message neither retried nor handled blind has one carrier, a waiting job or a worker, and once the provider took it nobody stands before the call any more (`OneCopy`) |
| `ProviderFeedback_proofs` | `TypeCorrect`, `AppliedOnce` (`AppliedAtMostOnce`), `FaultsAlone` (`LossesAreFaults`) | past the de-duplication a handler is alone with its notification (`Sole`), which is seen and not yet applied (`HeldUnapplied`); a handler about to audit a bad outcome has suppressed its recipient (`AuditsSuppressed`), so the losses, counted over finite cardinalities, grow only when a handler fails |
| `CampaignFanout_proofs` | `TypeCorrect`, `CancellationBites` (`CancelBites`), `NobodyTwice` (`OnePerFanout`) | an execution counts from the first member (`Progress`); the members mailed since the last re-read bound the tail (`Window`); what a member got and may still get (the waiting job, the executions that have not come to him) was paid for by a fan-out or a fault (`Covered`), and a forgotten id has no job left (`Retained`) |
| `SequenceEngine_proofs` | `TypeCorrect`, `NothingDropped` (`NoStepDropped`), `NoUnpaidRepeat` (`RepeatsNeedFaults`), `ExitsHold` (`ExitHolds`) | wherever a position is kept (row, snapshot, pending write) every send before it has a message (`CoverInv`, with `AtSend`); nobody has a firm enrolment in hand (`FirmInv`); the mails of a step and the ticks that may still send it number at most one more than the faults (`RepeatsCounted`), and a row that stands before a step counts as such a tick unless one will overwrite it |
| `TenantStanding_proofs` | `TypeCorrect`, `DisabledIsPaused` (`DisabledMeansPaused`), `PauseIsHeld` (`PauseHolds`), `ResumesAreBounded` (`ResumesBounded`), `SuspensionIsWarned` (`SuspendedAfterWarning`) | only the sweep pauses, so a sweep about to judge a paused tenant has read the pause (`PauseSeen`, `PauseCaught`); until the trail is full every resume is on it, about to be, or lost to a fault (`ResumeInv`, with finite cardinalities); the grace clock stands only after a failed lookup, also where the sweep holds a copy of it (`ClockWarned`, `HeldClock`) |
| `WebhookDelivery_proofs` | `TypeCorrect`, `DisablingIsEarned` (`DisabledAfterFailures`), `ConfirmedOrExhausted` (`ConfirmedOnceOrExhausted`) | every copy of an endpoint's counter (row, delivery, PATCH) is at most its failures in a row, and a delivery nothing overlapped holds the only copy and the row's own count, so that its success leaves none above zero (`EarnedAt`); while nothing fails an event fans out once (`FirstRun`), and where its job stands says how many attempts were made and answered (`DeliveriesAccounted`) |

Preservation is proved action by action, grouped by process; helpers that every
action uses (an update, a move of a program counter) have a lemma saying what they
change, so that the step for an action cites it instead of expanding it.

Model-checked only:

* all liveness (`RowsSettle`, `EnqueuedSettles`, `BadOutcomeSuppresses`,
  `FanoutSettles`, `BurstWindowReopens`, `DripEnds`, `SuspensionHeals`): fairness
  and ENABLED are outside the prover.

Every safety invariant and every action property of a passing run is a theorem.
`StripeBilling` has none: its one property is violated by the code.

## 5. Not modelled

* Inside the modelled parts. Send pipeline: tenant state and throttle are a choice
  of the gate, the reply address and customer providers only their failures.
  Admission: uncapped daily plans, internal organisations, customers' own providers,
  the worker's metering of bulk mail. Campaigns: variants, overrides and follow-up
  enrolment. Sequences: editing the steps of a running sequence. Standing: DKIM
  rotation, the workspace sweep, the throttle meter, the ageing of resumes and the
  hours between checks. Webhooks: signing and secret rotation. Billing: quantities,
  prices and credits, the add-ons, overage and custom subscriptions, the legacy
  single plan.
* Mailgun and tenant-topic feedback: the same replacement rules as SES behind
  another envelope. Inbound mail and conversations: inserts keyed by provider id.
* Suppression rules: pure; the models use one bit per recipient.
* Accounts, login throttle, seats: not on the mail path.
* Capacity alerts, lifecycle and system mail, retention: periodic, little shared
  state; system mail is at-least-once by design.
* Providers, MIME, rendering, content scan, DNS: I/O and text.
* Web apps, docs, CLI, SDKs: clients. They are most of the repository's lines, with
  the admin routes (queries and single-row edits) and the seeds.

## 6. Plan

1. `StripeBilling` with the add-ons and overage subscriptions, and its properties
   stated around the drop (what an event of an untracked subscription may change).
2. Seats and single-use tokens under concurrent requests.
3. Mailgun and tenant topics as variants of `ProviderFeedback`; suppression rules as
   operators against a reference definition.
4. `MessageDelivery` reading `TenantStanding` at its gate instead of choosing.
