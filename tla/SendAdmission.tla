--------------------------- MODULE SendAdmission ---------------------------
(***************************************************************************)
(* How POST /v1/messages admits a live send of one organization: replay by *)
(* idempotency key, the per-minute burst brake, the reservation against    *)
(* the monthly allowance and the daily cap of one wing, the insert, and    *)
(* the refund of a request that lost the race for its key.                 *)
(*                                                                         *)
(* One action is the code between two awaits that touch something shared.  *)
(* The clock counts UTC days.  A dead request (an exception from the       *)
(* database or Redis, or a dead process) is a fault, at most MaxFaults.    *)
(***************************************************************************)
EXTENDS Integers, FiniteSets

CONSTANTS Requests,      \* concurrent calls
          KeyOf,         \* the idempotency key each call carries
          LastDay,       \* bound: the clock stops at this day
          PeriodOf,      \* the calendar month of a day
          Plans,         \* plans the organization may be on
          BurstLimit,    \* ORG_SENDS_PER_MINUTE
          MaxFaults,     \* bound: faults in one behaviour
          None           \* no request, no day

Days == 0..LastDay
Keys == {KeyOf[r] : r \in Requests}
Periods == {PeriodOf[d] : d \in Days}
Wings == {"transactional", "marketing"}

ASSUME RequestsAssumption == IsFiniteSet(Requests)
ASSUME ClockAssumption == LastDay \in Nat /\ PeriodOf \in [Days -> Nat]
ASSUME PlansAssumption ==
  Plans \subseteq [wing : Wings, allowOverage : BOOLEAN, monthlyQuota : Nat, dailyCap : Nat]
ASSUME LimitsAssumption == BurstLimit \in Nat \ {0} /\ MaxFaults \in Nat
ASSUME NoneAssumption == None \notin Requests /\ None \notin Days

VARIABLES
  plan,       \* the organization's plan for the wing these calls use
  today,      \* UTC day
  monthUsed,  \* usage_records: emails_sent or marketing_sent of each period
  dayUsed,    \* transactional_daily_usage or marketing_daily_usage of each day
  burst,      \* rl:send:<org>, 0 when the key does not exist
  ttl,        \* does that key expire?
  row,        \* the call whose message holds each idempotency key
  pc,         \* where each call stands
  day,        \* the day it works with
  faults,     \* faults so far
  reserved,   \* history: the day each call reserved, None before
  slipped     \* history: for each way past the meter, the calls that took it

meterVars == <<monthUsed, dayUsed>>
burstVars == <<burst, ttl>>
vars == <<plan, today, monthUsed, dayUsed, burst, ttl, row, pc, day, faults, reserved, slipped>>

Answered == {"accepted", "replayed", "refused", "dead"}
Places == {"lookup", "burst", "count", "expire", "month", "day", "giveBack", "explain",
           "explainMonth", "explainDay", "content", "insert", "refundMonth", "refundDay"} \cup Answered

(* A call goes on without a reservation, or hands a unit back to a month   *)
(* or a day it was not taken from.                                         *)
Slips == {"free", "giveBack", "refundMonth", "refundDay"}

Init ==
  /\ plan \in Plans
  /\ today = 0
  /\ monthUsed = [p \in Periods |-> 0]
  /\ dayUsed = [d \in Days |-> 0]
  /\ burst = 0 /\ ttl = FALSE
  /\ row = [k \in Keys |-> None]
  /\ pc = [r \in Requests |-> "lookup"]
  /\ day = [r \in Requests |-> 0]
  /\ faults = 0
  /\ reserved = [r \in Requests |-> None]
  /\ slipped = [s \in Slips |-> {}]

Goto(r, place) == pc' = [pc EXCEPT ![r] = place]
At(r, place) == pc[r] = place
HoldDay(r, d) == day' = [day EXCEPT ![r] = d]
SlipsIf(r, s, condition) ==
  slipped' = IF condition THEN [slipped EXCEPT ![s] = @ \cup {r}] ELSE slipped

-----------------------------------------------------------------------------
(* Before the reservation                                                  *)

(* The idempotency fast path.                                              *)
Lookup(r) ==
  /\ At(r, "lookup")
  /\ Goto(r, IF row[KeyOf[r]] # None THEN "replayed" ELSE "burst")
  /\ UNCHANGED <<plan, today, meterVars, burstVars, row, day, faults, reserved, slipped>>

(* checkAndCount: get, compare, then count; the first to count sets the    *)
(* expiry in a call of its own.                                            *)
BurstRead(r) ==
  /\ At(r, "burst")
  /\ Goto(r, IF burst >= BurstLimit THEN "refused" ELSE "count")
  /\ UNCHANGED <<plan, today, meterVars, burstVars, row, day, faults, reserved, slipped>>

BurstCount(r) ==
  /\ At(r, "count")
  /\ burst' = burst + 1
  /\ Goto(r, IF burst' = 1 THEN "expire" ELSE "month")
  /\ UNCHANGED <<plan, today, meterVars, ttl, row, day, faults, reserved, slipped>>

(* Mutant: every later call pushes the end of the window away by clearing  *)
(* the expiry it meant to set.                                             *)
BurstPersist(r) ==
  /\ At(r, "expire")
  /\ ttl' = FALSE
  /\ Goto(r, "month")
  /\ UNCHANGED <<plan, today, meterVars, burst, row, day, faults, reserved, slipped>>

BurstExpire(r) ==
  /\ At(r, "expire")
  /\ ttl' = (burst > 0)
  /\ Goto(r, "month")
  /\ UNCHANGED <<plan, today, meterVars, burst, row, day, faults, reserved, slipped>>

-----------------------------------------------------------------------------
(* tryConsumeQuota and tryConsumeMarketing                                 *)

Capped == ~plan.allowOverage

(* The month: one conditional update, or without a hard cap a plain one.   *)
ReserveMonth(r) ==
  LET p == PeriodOf[today]
      fits == Capped => monthUsed[p] + 1 <= plan.monthlyQuota
  IN
  /\ At(r, "month")
  /\ HoldDay(r, today)
  /\ monthUsed' = IF fits THEN [monthUsed EXCEPT ![p] = @ + 1] ELSE monthUsed
  /\ Goto(r, IF fits THEN "day" ELSE "explain")
  /\ UNCHANGED <<plan, today, dayUsed, burstVars, row, faults, reserved, slipped>>

(* Mutant: the limit is read, and the increment does not repeat it.        *)
ReserveDayUnchecked(r) ==
  /\ At(r, "day")
  /\ dayUsed' = [dayUsed EXCEPT ![day[r]] = @ + 1]
  /\ reserved' = [reserved EXCEPT ![r] = day[r]]
  /\ Goto(r, "content")
  /\ UNCHANGED <<plan, today, monthUsed, burstVars, row, day, faults, slipped>>

(* The day: one conditional update of the day the call began with.         *)
ReserveDay(r) ==
  LET fits == dayUsed[day[r]] + 1 <= plan.dailyCap IN
  /\ At(r, "day")
  /\ dayUsed' = IF fits THEN [dayUsed EXCEPT ![day[r]] = @ + 1] ELSE dayUsed
  /\ reserved' = IF fits THEN [reserved EXCEPT ![r] = day[r]] ELSE reserved
  /\ Goto(r, IF fits THEN "content" ELSE "giveBack")
  /\ UNCHANGED <<plan, today, monthUsed, burstVars, row, day, faults, slipped>>

(* The daily cap refused: the month is handed back, by the transactional   *)
(* wing to the month it is now.                                            *)
GiveBack(r) ==
  LET taken == PeriodOf[day[r]]
      p == IF plan.wing = "marketing" THEN taken ELSE PeriodOf[today]
  IN
  /\ At(r, "giveBack")
  /\ monthUsed' = [monthUsed EXCEPT ![p] = @ - 1]
  /\ SlipsIf(r, "giveBack", p # taken)
  /\ Goto(r, "explain")
  /\ UNCHANGED <<plan, today, dayUsed, burstVars, row, day, faults, reserved>>

(* assert...SendCapacity looks for the wall that was hit, at both counters *)
(* in no fixed order; when neither is at its limit any more it returns and *)
(* the call goes on.                                                       *)
OverMonth(d) == Capped /\ monthUsed[PeriodOf[d]] + 1 > plan.monthlyQuota
OverDay(d) == dayUsed[d] + 1 > plan.dailyCap

ExplainFirst(r) ==
  /\ At(r, "explain")
  /\ HoldDay(r, today)
  /\ \/ Goto(r, IF OverMonth(today) THEN "refused" ELSE "explainDay")
     \/ Goto(r, IF OverDay(today) THEN "refused" ELSE "explainMonth")
  /\ UNCHANGED <<plan, today, meterVars, burstVars, row, faults, reserved, slipped>>

ExplainSecond(r) ==
  LET over == (At(r, "explainMonth") /\ OverMonth(day[r])) \/ (At(r, "explainDay") /\ OverDay(day[r])) IN
  /\ pc[r] \in {"explainMonth", "explainDay"}
  /\ Goto(r, IF over THEN "refused" ELSE "content")
  /\ SlipsIf(r, "free", ~over)
  /\ UNCHANGED <<plan, today, meterVars, burstVars, row, day, faults, reserved>>

-----------------------------------------------------------------------------
(* After it                                                                *)

(* Template, audience, sender, attachment and content checks may refuse;   *)
(* the reservation is kept.                                                *)
Content(r) ==
  /\ At(r, "content")
  /\ Goto(r, "insert") \/ Goto(r, "refused")
  /\ UNCHANGED <<plan, today, meterVars, burstVars, row, day, faults, reserved, slipped>>

(* Mutant: the conflict updates the row.                                   *)
InsertUpserts(r) ==
  LET k == KeyOf[r] IN
  /\ At(r, "insert")
  /\ row' = [row EXCEPT ![k] = r]
  /\ Goto(r, IF row[k] = None THEN "accepted" ELSE "refundMonth")
  /\ UNCHANGED <<plan, today, meterVars, burstVars, day, faults, reserved, slipped>>

(* Insert, or lose the key to the call that did.                           *)
Insert(r) ==
  LET k == KeyOf[r] IN
  /\ At(r, "insert")
  /\ row' = IF row[k] = None THEN [row EXCEPT ![k] = r] ELSE row
  /\ Goto(r, IF row[k] = None THEN "accepted" ELSE "refundMonth")
  /\ UNCHANGED <<plan, today, meterVars, burstVars, day, faults, reserved, slipped>>

(* The loser's refund goes to the month and the day it is now; the         *)
(* marketing wing reads the clock once for both.                           *)
RefundMonth(r) ==
  LET p == PeriodOf[today] IN
  /\ At(r, "refundMonth")
  /\ monthUsed' = [monthUsed EXCEPT ![p] = @ - 1]
  /\ SlipsIf(r, "refundMonth", reserved[r] = None \/ p # PeriodOf[day[r]])
  /\ HoldDay(r, today)
  /\ Goto(r, "refundDay")
  /\ UNCHANGED <<plan, today, dayUsed, burstVars, row, faults, reserved>>

(* Mutant: only the month is refunded.                                     *)
RefundDayForgotten(r) ==
  /\ At(r, "refundDay")
  /\ Goto(r, "replayed")
  /\ UNCHANGED <<plan, today, meterVars, burstVars, row, day, faults, reserved, slipped>>

RefundDay(r) ==
  LET d == IF plan.wing = "marketing" THEN day[r] ELSE today IN
  /\ At(r, "refundDay")
  /\ dayUsed' = [dayUsed EXCEPT ![d] = @ - 1]
  /\ SlipsIf(r, "refundDay", d # reserved[r])
  /\ Goto(r, "replayed")
  /\ UNCHANGED <<plan, today, monthUsed, burstVars, row, day, faults, reserved>>

Dies(r) ==
  /\ pc[r] \notin Answered
  /\ faults < MaxFaults /\ faults' = faults + 1
  /\ Goto(r, "dead")
  /\ UNCHANGED <<plan, today, meterVars, burstVars, row, day, reserved, slipped>>

-----------------------------------------------------------------------------
(* The clock                                                               *)

Midnight ==
  /\ today < LastDay
  /\ today' = today + 1
  /\ UNCHANGED <<plan, meterVars, burstVars, row, pc, day, faults, reserved, slipped>>

(* The minute is over: Redis drops the key.                                *)
WindowEnds ==
  /\ ttl
  /\ burst' = 0 /\ ttl' = FALSE
  /\ UNCHANGED <<plan, today, meterVars, row, pc, day, faults, reserved, slipped>>

Step(r) ==
  \/ Lookup(r) \/ BurstRead(r) \/ BurstCount(r) \/ BurstExpire(r)
  \/ ReserveMonth(r) \/ ReserveDay(r) \/ GiveBack(r) \/ ExplainFirst(r) \/ ExplainSecond(r)
  \/ Content(r) \/ Insert(r) \/ RefundMonth(r) \/ RefundDay(r)

Next ==
  \/ \E r \in Requests : Step(r) \/ Dies(r)
  \/ Midnight
  \/ WindowEnds

Spec == Init /\ [][Next]_vars

(* A call goes on unless its process dies, and Redis drops expired keys.   *)
Fairness == (\A r \in Requests : WF_vars(Step(r))) /\ WF_vars(WindowEnds)
FairSpec == Spec /\ Fairness

-----------------------------------------------------------------------------
(* Properties                                                              *)

TypeOK ==
  /\ plan \in Plans
  /\ today \in Days
  /\ monthUsed \in [Periods -> Int]
  /\ dayUsed \in [Days -> Int]
  /\ burst \in Nat /\ ttl \in BOOLEAN
  /\ row \in [Keys -> Requests \cup {None}]
  /\ \A k \in Keys : row[k] # None => KeyOf[row[k]] = k /\ At(row[k], "accepted")
  /\ pc \in [Requests -> Places]
  /\ day \in [Requests -> Days]
  /\ faults \in 0..MaxFaults
  /\ reserved \in [Requests -> Days \cup {None}]
  /\ slipped \in [Slips -> SUBSET Requests]

AcceptedOn(d) == {r \in Requests : At(r, "accepted") /\ day[r] = d}
AcceptedIn(p) == {r \in Requests : At(r, "accepted") /\ PeriodOf[day[r]] = p}
Slipped(s) == Cardinality(slipped[s])

(* "A burst of concurrent sends can't overshoot" (billing.ts): however the *)
(* calls, their refunds and midnight interleave, a day takes no more than  *)
(* its cap and a hard-capped month no more than its allowance, except one  *)
(* send for each time a call slipped past that meter.  One call may slip   *)
(* past the month twice, when it hands its unit back and goes on for free. *)
OvershootBounded ==
  /\ \A d \in Days : Cardinality(AcceptedOn(d)) <= plan.dailyCap + Slipped("free") + Slipped("refundDay")
  /\ Capped => \A p \in Periods :
       Cardinality(AcceptedIn(p)) <=
         plan.monthlyQuota + Slipped("free") + Slipped("giveBack") + Slipped("refundMonth")

NobodySlipped == \A s \in Slips : slipped[s] = {}
Kept(r) == reserved[r] # None /\ pc[r] \in {"accepted", "refused"}

(* "The duplicate doesn't over-count" (messages.ts): once every call is    *)
(* answered, both counters hold exactly one unit for each accepted message *)
(* and each call refused after its reservation; a replay costs nothing and *)
(* no send is free, provided no process died and no call slipped.          *)
OneChargePerMessage ==
  (\A r \in Requests : pc[r] \in Answered \ {"dead"}) /\ NobodySlipped =>
    /\ \A d \in Days : dayUsed[d] = Cardinality({r \in Requests : Kept(r) /\ reserved[r] = d})
    /\ \A p \in Periods :
         monthUsed[p] = Cardinality({r \in Requests : Kept(r) /\ PeriodOf[reserved[r]] = p})

(* A full burst window opens again ("Retry in N s"): a counter at its      *)
(* limit is dropped, unless a process died while it was to set the expiry. *)
BurstWindowReopens == (burst >= BurstLimit /\ faults = 0) ~> (burst < BurstLimit \/ faults > 0)
=============================================================================
