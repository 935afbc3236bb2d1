------------------------ MODULE SendAdmission_proofs ------------------------
(***************************************************************************)
(* The meter holds for any calls, plans, calendar and number of faults.    *)
(*                                                                         *)
(* The argument: each counter is at its limit or below, and it is at least *)
(* the number of calls that hold a unit of it less the refunds that went   *)
(* astray; as long as nobody slipped, and for the month nobody died, it is *)
(* exactly that number.  An accepted call holds its unit of both counters, *)
(* of the day it works with, or went on for free.                          *)
(***************************************************************************)
EXTENDS SendAdmission, FiniteSetTheorems, TLAPS

USE RequestsAssumption, ClockAssumption, PlansAssumption, LimitsAssumption, NoneAssumption

-----------------------------------------------------------------------------
(* The inductive invariant, by part                                        *)

Unreserved == {"lookup", "burst", "count", "expire", "month", "day", "giveBack",
               "explain", "explainMonth", "explainDay"}

(* Who holds a unit.  A dead call's unit of the month is not counted: it   *)
(* may have handed it back before it died.                                 *)
HoldsMonth(r) ==
  \/ pc[r] \in {"day", "giveBack"}
  \/ reserved[r] # None /\ pc[r] \in {"content", "insert", "accepted", "refused", "refundMonth"}
MonthHolders(p) == {r \in Requests : HoldsMonth(r) /\ PeriodOf[day[r]] = p}
DayHolders(d) == {r \in Requests : reserved[r] = d /\ pc[r] # "replayed"}

ReservedAtDay ==
  \A r \in Requests :
    /\ pc[r] \in Unreserved => reserved[r] = None
    /\ reserved[r] # None /\ pc[r] \notin {"refundDay", "replayed", "dead"} => day[r] = reserved[r]
    /\ pc[r] \in {"content", "insert", "accepted"} => reserved[r] # None \/ r \in slipped["free"]

(* A call slips in each way at most once, and no longer may when it did.   *)
SlipsOnce ==
  \A r \in Requests :
    /\ r \in slipped["giveBack"] => pc[r] \notin {"lookup", "burst", "count", "expire", "month", "day", "giveBack"}
    /\ r \in slipped["refundMonth"] => pc[r] \in {"refundDay", "replayed", "dead"}
    /\ r \in slipped["refundDay"] => pc[r] = "replayed"

DayMetered(d) ==
  /\ dayUsed[d] <= plan.dailyCap
  /\ Cardinality(DayHolders(d)) <= dayUsed[d] + Slipped("refundDay")
  /\ NobodySlipped => dayUsed[d] = Cardinality(DayHolders(d))
DayMeter == \A d \in Days : DayMetered(d)

NobodyDied == \A r \in Requests : pc[r] # "dead"

MonthMetered(p) ==
  /\ Capped => monthUsed[p] <= plan.monthlyQuota
  /\ Cardinality(MonthHolders(p)) <= monthUsed[p] + Slipped("giveBack") + Slipped("refundMonth")
  /\ NobodySlipped /\ NobodyDied => monthUsed[p] = Cardinality(MonthHolders(p))
MonthMeter == \A p \in Periods : MonthMetered(p)

MeterInv == ReservedAtDay /\ SlipsOnce /\ DayMeter /\ MonthMeter

-----------------------------------------------------------------------------
(* Counting                                                                *)

LEMMA SetsFinite ==
  ASSUME NEW S \in SUBSET Requests
  PROVE  IsFiniteSet(S) /\ Cardinality(S) \in Nat
  BY FS_Subset, FS_CardinalityType

(* Two sets that differ in one element at most.                            *)
LEMMA OneMoved ==
  ASSUME NEW S \in SUBSET Requests, NEW T \in SUBSET Requests, NEW r, S \ {r} = T \ {r}
  PROVE  /\ r \in S /\ r \notin T => Cardinality(T) = Cardinality(S) - 1
         /\ r \notin S /\ r \in T => Cardinality(T) = Cardinality(S) + 1
         /\ (r \in S <=> r \in T) => Cardinality(T) = Cardinality(S)
<1> DEFINE U == S \ {r}
<1>1. IsFiniteSet(U) /\ Cardinality(U) \in Nat
  <2>1. U \in SUBSET Requests
    OBVIOUS
  <2> QED BY <2>1, SetsFinite
<1>2. Cardinality(U \cup {r}) = Cardinality(U) + 1
  BY <1>1, FS_AddElement
<1>3. \A V : V \ {r} = U /\ r \in V => V = U \cup {r}
  OBVIOUS
<1>4. \A V : V \ {r} = U /\ r \notin V => V = U
  OBVIOUS
<1>5. S \ {r} = U /\ T \ {r} = U
  OBVIOUS
<1> HIDE DEF U
<1>6. \A V : V \ {r} = U => Cardinality(V) = IF r \in V THEN Cardinality(U) + 1 ELSE Cardinality(U)
  BY <1>2, <1>3, <1>4
<1>7. /\ Cardinality(S) = IF r \in S THEN Cardinality(U) + 1 ELSE Cardinality(U)
      /\ Cardinality(T) = IF r \in T THEN Cardinality(U) + 1 ELSE Cardinality(U)
  BY <1>5, <1>6
<1> QED BY <1>1, <1>7

-----------------------------------------------------------------------------
(* Types                                                                   *)

LEMMA PeriodType ==
  ASSUME NEW d \in Days
  PROVE  PeriodOf[d] \in Periods
  BY DEF Periods

LEMMA PlanType ==
  ASSUME TypeOK
  PROVE  plan.dailyCap \in Nat /\ plan.monthlyQuota \in Nat /\ plan.allowOverage \in BOOLEAN
  BY DEF TypeOK

LEMMA TypeInit == Init => TypeOK
<1> SUFFICES ASSUME Init PROVE TypeOK
  OBVIOUS
<1>1. today \in Days /\ \A r \in Requests : day[r] \in Days
  BY DEF Init, Days
<1>2. slipped \in [Slips -> SUBSET Requests]
  BY DEF Init
<1>3. \A k \in Keys : row[k] = None
  BY DEF Init
<1>4. faults \in 0..MaxFaults
  BY DEF Init
<1>5. pc \in [Requests -> Places] /\ reserved \in [Requests -> Days \cup {None}]
  BY DEF Init, Places
<1>6. row \in [Keys -> Requests \cup {None}] /\ day \in [Requests -> Days]
  BY <1>1 DEF Init
<1>7. monthUsed \in [Periods -> Int] /\ dayUsed \in [Days -> Int]
  BY DEF Init
<1>8. plan \in Plans /\ burst \in Nat /\ ttl \in BOOLEAN
  BY DEF Init
<1> QED BY <1>1, <1>2, <1>3, <1>4, <1>5, <1>6, <1>7, <1>8 DEF TypeOK

(* A call that is not answered holds no row, so that it may go elsewhere.  *)
LEMMA TypeStep == TypeOK /\ [Next]_vars => TypeOK'
<1> SUFFICES ASSUME TypeOK, [Next]_vars PROVE TypeOK'
  OBVIOUS
<1> USE DEF TypeOK, At
<1>1. ASSUME NEW r \in Requests, Step(r) PROVE TypeOK'
  <2>1. pc[r] \notin Answered
    BY <1>1 DEF Step, Lookup, BurstRead, BurstCount, BurstExpire, ReserveMonth, ReserveDay, GiveBack,
      ExplainFirst, ExplainSecond, Content, Insert, RefundMonth, RefundDay, Answered
  <2>2. \A k \in Keys : row[k] # r
    BY <2>1 DEF Answered
  <2>3. KeyOf[r] \in Keys
    BY DEF Keys
  <2>4. CASE Lookup(r)
    BY <2>2, <2>4 DEF Lookup, Goto, Places, Answered, meterVars, burstVars
  <2>5. CASE BurstRead(r)
    BY <2>2, <2>5 DEF BurstRead, Goto, Places, Answered, meterVars, burstVars
  <2>6. CASE BurstCount(r)
    BY <2>2, <2>6 DEF BurstCount, Goto, Places, meterVars
  <2>7. CASE BurstExpire(r)
    BY <2>2, <2>7 DEF BurstExpire, Goto, Places, meterVars
  <2>8. CASE ReserveMonth(r)
    BY <2>2, <2>8, PeriodType DEF ReserveMonth, HoldDay, Goto, Places, burstVars
  <2>9. CASE ReserveDay(r)
    BY <2>2, <2>9, PeriodType DEF ReserveDay, Goto, Places, burstVars
  <2>10. CASE GiveBack(r)
    BY <2>2, <2>10, PeriodType DEF GiveBack, SlipsIf, Slips, Goto, Places, burstVars
  <2>11. CASE ExplainFirst(r)
    BY <2>2, <2>11 DEF ExplainFirst, HoldDay, Goto, Places, Answered, meterVars, burstVars
  <2>12. CASE ExplainSecond(r)
    BY <2>2, <2>12 DEF ExplainSecond, SlipsIf, Slips, Goto, Places, Answered, meterVars, burstVars
  <2>13. CASE Content(r)
    BY <2>2, <2>13 DEF Content, Goto, Places, Answered, meterVars, burstVars
  <2>14. CASE Insert(r)
    BY <2>2, <2>3, <2>14 DEF Insert, Goto, Places, Answered, meterVars, burstVars
  <2>15. CASE RefundMonth(r)
    BY <2>2, <2>15, PeriodType DEF RefundMonth, SlipsIf, Slips, HoldDay, Goto, Places, burstVars
  <2>16. CASE RefundDay(r)
    BY <2>2, <2>16 DEF RefundDay, SlipsIf, Slips, Goto, Places, Answered, burstVars
  <2> QED BY <1>1, <2>4, <2>5, <2>6, <2>7, <2>8, <2>9, <2>10, <2>11, <2>12, <2>13, <2>14, <2>15, <2>16 DEF Step
<1>2. ASSUME NEW r \in Requests, Dies(r) PROVE TypeOK'
  BY <1>2 DEF Dies, Goto, Places, Answered, meterVars, burstVars
<1>3. CASE Midnight
  BY <1>3 DEF Midnight, Days, meterVars, burstVars
<1>4. CASE WindowEnds
  BY <1>4 DEF WindowEnds, meterVars
<1>5. CASE UNCHANGED vars
  BY <1>5 DEF vars
<1> QED BY <1>1, <1>2, <1>3, <1>4, <1>5 DEF Next

(* Every variable keeps its type, and the row of a key belongs to an       *)
(* accepted call that carries it (the unique index of messages).           *)
THEOREM TypeCorrect == Spec => []TypeOK
<1> QED BY TypeInit, TypeStep, PTL DEF Spec

-----------------------------------------------------------------------------
(* Effects of the shared steps                                             *)

(* A step of one call leaves the others' place, day and reservation alone. *)
Others(r) ==
  \A q \in Requests \ {r} : pc'[q] = pc[q] /\ day'[q] = day[q] /\ reserved'[q] = reserved[q]

LEMMA StepOfOne ==
  ASSUME TypeOK, NEW r \in Requests, Step(r) \/ Dies(r)
  PROVE  Others(r) /\ UNCHANGED <<plan, today>>
<1> USE DEF TypeOK, Others
<1>1. CASE Lookup(r) \/ BurstRead(r) \/ BurstCount(r) \/ BurstExpire(r) \/ Content(r) \/ Insert(r) \/ Dies(r)
  BY <1>1 DEF Lookup, BurstRead, BurstCount, BurstExpire, Content, Insert, Dies, Goto
<1>2. CASE ReserveMonth(r) \/ ReserveDay(r) \/ GiveBack(r) \/ ExplainFirst(r) \/ ExplainSecond(r)
  BY <1>2 DEF ReserveMonth, ReserveDay, GiveBack, ExplainFirst, ExplainSecond, HoldDay, Goto
<1>3. CASE RefundMonth(r) \/ RefundDay(r)
  BY <1>3 DEF RefundMonth, RefundDay, HoldDay, Goto
<1> QED BY <1>1, <1>2, <1>3 DEF Step

(* History is not forgotten.                                               *)
LEMMA SlipsGrow ==
  ASSUME TypeOK, [Next]_vars
  PROVE  \A s \in Slips : slipped[s] \subseteq slipped'[s]
<1> USE DEF TypeOK
<1>1. ASSUME NEW r \in Requests, NEW s \in Slips, NEW c, SlipsIf(r, s, c)
      PROVE  \A u \in Slips : slipped[u] \subseteq slipped'[u]
  BY <1>1 DEF SlipsIf
<1>2. ASSUME NEW r \in Requests, Step(r) \/ Dies(r)
      PROVE  \A s \in Slips : slipped[s] \subseteq slipped'[s]
  <2>1. "giveBack" \in Slips /\ "free" \in Slips /\ "refundMonth" \in Slips /\ "refundDay" \in Slips
    BY DEF Slips
  <2>2. CASE GiveBack(r) \/ ExplainSecond(r) \/ RefundMonth(r) \/ RefundDay(r)
    BY <1>1, <2>1, <2>2 DEF GiveBack, ExplainSecond, RefundMonth, RefundDay
  <2>3. CASE ~(GiveBack(r) \/ ExplainSecond(r) \/ RefundMonth(r) \/ RefundDay(r))
    BY <1>2, <2>3 DEF Step, Lookup, BurstRead, BurstCount, BurstExpire, ReserveMonth, ReserveDay, ExplainFirst,
      Content, Insert, Dies
  <2> QED BY <2>2, <2>3
<1>3. CASE Midnight \/ WindowEnds \/ UNCHANGED vars
  BY <1>3 DEF Midnight, WindowEnds, vars
<1> QED BY <1>2, <1>3 DEF Next

LEMMA SlippedGrows ==
  ASSUME TypeOK, TypeOK', [Next]_vars
  PROVE  /\ \A s \in Slips : Slipped(s) \in Nat /\ Slipped(s)' \in Nat /\ Slipped(s) <= Slipped(s)'
         /\ NobodySlipped' => NobodySlipped
<1>1. \A s \in Slips : slipped[s] \subseteq slipped'[s] /\ slipped'[s] \in SUBSET Requests
  BY SlipsGrow DEF TypeOK
<1>2. ASSUME NEW s \in Slips PROVE Slipped(s) \in Nat /\ Slipped(s)' \in Nat /\ Slipped(s) <= Slipped(s)'
  <2>1. IsFiniteSet(slipped'[s]) /\ Cardinality(slipped'[s]) \in Nat
    BY <1>1, SetsFinite
  <2>2. Cardinality(slipped[s]) <= Cardinality(slipped'[s]) /\ Cardinality(slipped[s]) \in Nat
    BY <1>1, <2>1, FS_Subset, FS_CardinalityType
  <2> QED BY <2>1, <2>2 DEF Slipped
<1>3. NobodySlipped' => NobodySlipped
  BY <1>1 DEF NobodySlipped
<1> QED BY <1>2, <1>3

(* A call that slips is counted once more, unless it slipped so before.    *)
LEMMA SlipCounts ==
  ASSUME TypeOK, NEW r \in Requests, NEW s \in Slips, r \notin slipped[s], SlipsIf(r, s, TRUE)
  PROVE  Slipped(s)' = Slipped(s) + 1 /\ ~NobodySlipped'
<1>1. slipped'[s] = slipped[s] \cup {r}
  BY DEF SlipsIf, TypeOK
<1>2. IsFiniteSet(slipped[s])
  BY SetsFinite DEF TypeOK
<1>3. Cardinality(slipped[s] \cup {r}) = Cardinality(slipped[s]) + 1
  BY <1>2, FS_AddElement
<1> QED BY <1>1, <1>3 DEF Slipped, NobodySlipped

LEMMA HolderTypes ==
  ASSUME TypeOK
  PROVE  /\ \A d \in Days : DayHolders(d) \in SUBSET Requests /\ Cardinality(DayHolders(d)) \in Nat
         /\ \A p \in Periods : MonthHolders(p) \in SUBSET Requests /\ Cardinality(MonthHolders(p)) \in Nat
<1>1. \A d : DayHolders(d) \in SUBSET Requests
  BY DEF DayHolders
<1>2. \A p : MonthHolders(p) \in SUBSET Requests
  BY DEF MonthHolders
<1> QED BY <1>1, <1>2, SetsFinite

-----------------------------------------------------------------------------
(* Places, reservations and slips                                          *)

LEMMA InvInit == Init => MeterInv
<1> SUFFICES ASSUME Init PROVE MeterInv
  OBVIOUS
<1>1. ReservedAtDay /\ SlipsOnce
  BY DEF Init, ReservedAtDay, SlipsOnce, Slips, Unreserved
<1>2. plan.dailyCap \in Nat /\ plan.monthlyQuota \in Nat
  BY TypeInit, PlanType
<1>3. \A s \in Slips : Slipped(s) = 0
  BY FS_EmptySet DEF Init, Slipped
<1>4. \A d \in Days : DayHolders(d) = {}
  BY DEF Init, DayHolders
<1>5. \A p \in Periods : MonthHolders(p) = {}
  BY DEF Init, MonthHolders, HoldsMonth
<1>6. Cardinality({}) = 0
  BY FS_EmptySet
<1>7. Slipped("refundDay") = 0 /\ Slipped("giveBack") = 0 /\ Slipped("refundMonth") = 0
  BY <1>3 DEF Slips
<1>8. \A d \in Days : dayUsed[d] = 0 /\ Cardinality(DayHolders(d)) = 0
  BY <1>4, <1>6 DEF Init
<1>9. \A p \in Periods : monthUsed[p] = 0 /\ Cardinality(MonthHolders(p)) = 0
  BY <1>5, <1>6 DEF Init
<1>10. DayMeter
  BY <1>2, <1>7, <1>8 DEF DayMeter, DayMetered
<1>11. MonthMeter
  BY <1>2, <1>7, <1>9 DEF MonthMeter, MonthMetered
<1> QED BY <1>1, <1>10, <1>11 DEF MeterInv

LEMMA PlacesStep ==
  ASSUME TypeOK, ReservedAtDay, SlipsOnce, [Next]_vars
  PROVE  ReservedAtDay' /\ SlipsOnce'
<1> USE DEF TypeOK, At, ReservedAtDay, SlipsOnce, Unreserved
<1>1. ASSUME NEW r \in Requests, Step(r) PROVE ReservedAtDay' /\ SlipsOnce'
  <2>1. Others(r)
    BY <1>1, StepOfOne
  <2> USE DEF Others, Goto, HoldDay, SlipsIf, Slips
  <2>4. CASE Lookup(r)
    BY <2>1, <2>4 DEF Lookup
  <2>5. CASE BurstRead(r)
    BY <2>1, <2>5 DEF BurstRead
  <2>6. CASE BurstCount(r)
    BY <2>1, <2>6 DEF BurstCount
  <2>7. CASE BurstExpire(r)
    BY <2>1, <2>7 DEF BurstExpire
  <2>8. CASE ReserveMonth(r)
    BY <2>1, <2>8 DEF ReserveMonth
  <2>9. CASE ReserveDay(r)
    BY <2>1, <2>9 DEF ReserveDay
  <2>10. CASE GiveBack(r)
    BY <2>1, <2>10 DEF GiveBack
  <2>11. CASE ExplainFirst(r)
    BY <2>1, <2>11 DEF ExplainFirst
  <2>12. CASE ExplainSecond(r)
    BY <2>1, <2>12 DEF ExplainSecond
  <2>13. CASE Content(r)
    BY <2>1, <2>13 DEF Content
  <2>14. CASE Insert(r)
    BY <2>1, <2>14 DEF Insert
  <2>15. CASE RefundMonth(r)
    BY <2>1, <2>15 DEF RefundMonth
  <2>16. CASE RefundDay(r)
    BY <2>1, <2>16 DEF RefundDay
  <2> QED BY <1>1, <2>4, <2>5, <2>6, <2>7, <2>8, <2>9, <2>10, <2>11, <2>12, <2>13, <2>14, <2>15, <2>16 DEF Step
<1>2. ASSUME NEW r \in Requests, Dies(r) PROVE ReservedAtDay' /\ SlipsOnce'
  BY <1>2 DEF Dies, Goto, Answered
<1>3. CASE Midnight \/ WindowEnds \/ UNCHANGED vars
  BY <1>3 DEF Midnight, WindowEnds, vars
<1> QED BY <1>1, <1>2, <1>3 DEF Next

-----------------------------------------------------------------------------
(* The day                                                                 *)

LEMMA DayMoves ==
  ASSUME NEW r \in Requests, NEW d \in Days, Others(r)
  PROVE  /\ r \in DayHolders(d) /\ r \notin DayHolders(d)' =>
              Cardinality(DayHolders(d)') = Cardinality(DayHolders(d)) - 1
         /\ r \notin DayHolders(d) /\ r \in DayHolders(d)' =>
              Cardinality(DayHolders(d)') = Cardinality(DayHolders(d)) + 1
         /\ (r \in DayHolders(d) <=> r \in DayHolders(d)') =>
              Cardinality(DayHolders(d)') = Cardinality(DayHolders(d))
<1>1. DayHolders(d) \in SUBSET Requests /\ DayHolders(d)' \in SUBSET Requests
  BY DEF DayHolders
<1>2. DayHolders(d) \ {r} = DayHolders(d)' \ {r}
  BY DEF DayHolders, Others
<1> QED BY <1>1, <1>2, OneMoved

LEMMA DayStep ==
  ASSUME TypeOK, TypeOK', ReservedAtDay, SlipsOnce, DayMeter, [Next]_vars
  PROVE  DayMeter'
<1>1. /\ Slipped("refundDay") \in Nat /\ Slipped("refundDay")' \in Nat
      /\ Slipped("refundDay") <= Slipped("refundDay")'
      /\ NobodySlipped' => NobodySlipped
  BY SlippedGrows DEF Slips
<1>2. \A d \in Days : Cardinality(DayHolders(d)) \in Nat /\ dayUsed[d] \in Int
  BY HolderTypes DEF TypeOK
<1>3. \A d \in Days : Cardinality(DayHolders(d)') \in Nat /\ dayUsed'[d] \in Int
  BY SetsFinite DEF DayHolders, TypeOK
<1>4. plan.dailyCap \in Nat
  BY PlanType
<1>5. ASSUME UNCHANGED <<plan, dayUsed>>,
             \A d \in Days : Cardinality(DayHolders(d)') = Cardinality(DayHolders(d))
      PROVE  DayMeter'
  BY <1>1, <1>2, <1>5 DEF DayMeter, DayMetered
<1>6. ASSUME NEW r \in Requests, ReserveDay(r) PROVE DayMeter'
  <2>1. Others(r) /\ plan' = plan /\ slipped' = slipped
    BY <1>6, StepOfOne DEF Step, ReserveDay
  <2>2. \A d \in Days : r \notin DayHolders(d)
    BY <1>6 DEF ReserveDay, At, ReservedAtDay, Unreserved, DayHolders
  <2>3. CASE dayUsed[day[r]] + 1 <= plan.dailyCap
    <3>1. \A d \in Days : r \in DayHolders(d)' <=> d = day[r]
      BY <1>6, <2>3 DEF ReserveDay, Goto, DayHolders, TypeOK
    <3>2. \A d \in Days : dayUsed'[d] = IF d = day[r] THEN dayUsed[d] + 1 ELSE dayUsed[d]
      BY <1>6, <2>3 DEF ReserveDay, TypeOK
    <3>3. ASSUME NEW d \in Days PROVE DayMetered(d)'
      BY <1>1, <1>2, <2>1, <2>2, <2>3, <3>1, <3>2, DayMoves DEF DayMeter, DayMetered
    <3> QED BY <3>3 DEF DayMeter, DayMetered
  <2>4. CASE ~(dayUsed[day[r]] + 1 <= plan.dailyCap)
    <3>1. \A d \in Days : r \notin DayHolders(d)'
      BY <1>6, <2>2, <2>4 DEF ReserveDay, Goto, DayHolders, TypeOK, At
    <3>2. dayUsed' = dayUsed
      BY <1>6, <2>4 DEF ReserveDay
    <3> QED BY <1>5, <2>1, <2>2, <3>1, <3>2, DayMoves
  <2> QED BY <2>3, <2>4
<1>7. ASSUME NEW r \in Requests, RefundDay(r) PROVE DayMeter'
  <2> DEFINE back == IF plan.wing = "marketing" THEN day[r] ELSE today
  <2>1. Others(r) /\ plan' = plan /\ back \in Days
    BY <1>7, StepOfOne DEF Step, RefundDay, TypeOK
  <2>2. \A d \in Days : r \in DayHolders(d) <=> d = reserved[r]
    BY <1>7 DEF RefundDay, At, DayHolders
  <2>3. \A d \in Days : r \notin DayHolders(d)'
    BY <1>7 DEF RefundDay, Goto, DayHolders, TypeOK
  <2>4. \A d \in Days : dayUsed'[d] = IF d = back THEN dayUsed[d] - 1 ELSE dayUsed[d]
    BY <1>7, <2>1 DEF RefundDay, TypeOK
  <2>5. CASE back = reserved[r]
    <3>1. ASSUME NEW d \in Days PROVE DayMetered(d)'
      BY <1>1, <1>2, <1>4, <2>1, <2>2, <2>3, <2>4, <2>5, DayMoves DEF DayMeter, DayMetered
    <3> QED BY <3>1 DEF DayMeter, DayMetered
  <2>6. CASE back # reserved[r]
    <3>1. r \notin slipped["refundDay"]
      BY <1>7 DEF RefundDay, At, SlipsOnce
    <3>2. SlipsIf(r, "refundDay", TRUE)
      BY <1>7, <2>6 DEF RefundDay, SlipsIf
    <3>3. Slipped("refundDay")' = Slipped("refundDay") + 1 /\ ~NobodySlipped'
      BY <3>1, <3>2, SlipCounts DEF Slips
    <3>4. ASSUME NEW d \in Days PROVE Cardinality(DayHolders(d)') <= Cardinality(DayHolders(d))
      BY <1>2, <2>1, <2>2, <2>3, DayMoves
    <3>5. ASSUME NEW d \in Days PROVE DayMetered(d)'
      BY <1>1, <1>2, <1>3, <1>4, <2>1, <2>4, <3>3, <3>4 DEF DayMeter, DayMetered
    <3> QED BY <3>5 DEF DayMeter, DayMetered
  <2> QED BY <2>5, <2>6
<1>8. ASSUME NEW r \in Requests, Step(r) \/ Dies(r), ~ReserveDay(r), ~RefundDay(r) PROVE DayMeter'
  <2>1. Others(r) /\ plan' = plan
    BY <1>8, StepOfOne
  <2>2. UNCHANGED <<dayUsed, reserved>>
    BY <1>8 DEF Step, Lookup, BurstRead, BurstCount, BurstExpire, ReserveMonth, GiveBack, ExplainFirst,
      ExplainSecond, Content, Insert, RefundMonth, Dies, meterVars
  <2>3. pc[r] # "replayed" /\ (pc'[r] = "replayed" => reserved[r] = None)
    BY <1>8 DEF Step, Lookup, BurstRead, BurstCount, BurstExpire, ReserveMonth, GiveBack, ExplainFirst,
      ExplainSecond, Content, Insert, RefundMonth, Dies, Goto, At, Answered, TypeOK, ReservedAtDay, Unreserved
  <2>4. \A d \in Days : r \in DayHolders(d) <=> r \in DayHolders(d)'
    BY <2>2, <2>3 DEF DayHolders
  <2> QED BY <1>5, <2>1, <2>2, <2>4, DayMoves
<1>9. CASE Midnight \/ WindowEnds \/ UNCHANGED vars
  <2>1. UNCHANGED <<plan, dayUsed, pc, reserved>>
    BY <1>9 DEF Midnight, WindowEnds, vars, meterVars
  <2> QED BY <1>5, <2>1 DEF DayHolders
<1> QED BY <1>6, <1>7, <1>8, <1>9 DEF Next, Step

-----------------------------------------------------------------------------
(* The month                                                               *)

LEMMA MonthMoves ==
  ASSUME NEW r \in Requests, NEW p \in Periods, Others(r)
  PROVE  /\ r \in MonthHolders(p) /\ r \notin MonthHolders(p)' =>
              Cardinality(MonthHolders(p)') = Cardinality(MonthHolders(p)) - 1
         /\ r \notin MonthHolders(p) /\ r \in MonthHolders(p)' =>
              Cardinality(MonthHolders(p)') = Cardinality(MonthHolders(p)) + 1
         /\ (r \in MonthHolders(p) <=> r \in MonthHolders(p)') =>
              Cardinality(MonthHolders(p)') = Cardinality(MonthHolders(p))
<1>1. MonthHolders(p) \in SUBSET Requests /\ MonthHolders(p)' \in SUBSET Requests
  BY DEF MonthHolders
<1>2. MonthHolders(p) \ {r} = MonthHolders(p)' \ {r}
  BY DEF MonthHolders, HoldsMonth, Others
<1> QED BY <1>1, <1>2, OneMoved

LEMMA NobodyRises ==
  ASSUME TypeOK, NEW r \in Requests, Step(r), NobodyDied'
  PROVE  NobodyDied
<1>1. Others(r) /\ pc[r] # "dead"
  BY StepOfOne DEF Step, Lookup, BurstRead, BurstCount, BurstExpire, ReserveMonth, ReserveDay, GiveBack,
    ExplainFirst, ExplainSecond, Content, Insert, RefundMonth, RefundDay, At
<1> QED BY <1>1 DEF Others, NobodyDied

LEMMA MonthStep ==
  ASSUME TypeOK, TypeOK', ReservedAtDay, SlipsOnce, MonthMeter, [Next]_vars
  PROVE  MonthMeter'
<1> DEFINE astray == Slipped("giveBack") + Slipped("refundMonth")
<1>1. /\ Slipped("giveBack") \in Nat /\ Slipped("giveBack")' \in Nat
      /\ Slipped("giveBack") <= Slipped("giveBack")'
      /\ Slipped("refundMonth") \in Nat /\ Slipped("refundMonth")' \in Nat
      /\ Slipped("refundMonth") <= Slipped("refundMonth")'
      /\ NobodySlipped' => NobodySlipped
  BY SlippedGrows DEF Slips
<1>2. \A p \in Periods : Cardinality(MonthHolders(p)) \in Nat /\ monthUsed[p] \in Int
  BY HolderTypes DEF TypeOK
<1>3. \A p \in Periods : Cardinality(MonthHolders(p)') \in Nat /\ monthUsed'[p] \in Int
  BY SetsFinite DEF MonthHolders, TypeOK
<1>4. plan.monthlyQuota \in Nat
  BY PlanType
<1>5. ASSUME UNCHANGED <<plan, monthUsed>>, NobodyDied' => NobodyDied,
             \A p \in Periods : Cardinality(MonthHolders(p)') = Cardinality(MonthHolders(p))
      PROVE  MonthMeter'
  BY <1>1, <1>2, <1>5 DEF MonthMeter, MonthMetered, Capped
<1>6. ASSUME NEW r \in Requests, ReserveMonth(r) PROVE MonthMeter'
  <2> DEFINE now == PeriodOf[today]
  <2> DEFINE fits == Capped => monthUsed[now] + 1 <= plan.monthlyQuota
  <2>1. Others(r) /\ plan' = plan /\ slipped' = slipped /\ (NobodyDied' => NobodyDied)
    BY <1>6, StepOfOne, NobodyRises DEF Step, ReserveMonth
  <2>2. \A p \in Periods : r \notin MonthHolders(p)
    BY <1>6 DEF ReserveMonth, At, ReservedAtDay, Unreserved, MonthHolders, HoldsMonth
  <2>3. CASE fits
    <3>1. \A p \in Periods : r \in MonthHolders(p)' <=> p = now
      BY <1>6, <2>3 DEF ReserveMonth, HoldDay, Goto, MonthHolders, HoldsMonth, TypeOK
    <3>2. \A p \in Periods : monthUsed'[p] = IF p = now THEN monthUsed[p] + 1 ELSE monthUsed[p]
      BY <1>6, <2>3 DEF ReserveMonth, TypeOK
    <3>3. ASSUME NEW p \in Periods PROVE MonthMetered(p)'
      BY <1>1, <1>2, <2>1, <2>2, <2>3, <3>1, <3>2, MonthMoves DEF MonthMeter, MonthMetered, Capped
    <3> QED BY <3>3 DEF MonthMeter
  <2>4. CASE ~fits
    <3>1. \A p \in Periods : r \notin MonthHolders(p)'
      BY <1>6, <2>4 DEF ReserveMonth, HoldDay, Goto, At, ReservedAtDay, Unreserved, MonthHolders, HoldsMonth, TypeOK
    <3>2. monthUsed' = monthUsed
      BY <1>6, <2>4 DEF ReserveMonth
    <3> QED BY <1>5, <2>1, <2>2, <3>1, <3>2, MonthMoves
  <2> QED BY <2>3, <2>4
<1>7. ASSUME NEW r \in Requests, NEW back \in Periods, NEW way \in {"giveBack", "refundMonth"},
             Others(r), plan' = plan, NobodyDied' => NobodyDied,
             \A p \in Periods : monthUsed'[p] = IF p = back THEN monthUsed[p] - 1 ELSE monthUsed[p],
             \A p \in Periods : r \notin MonthHolders(p)',
             \A p, q \in Periods : r \in MonthHolders(p) /\ r \in MonthHolders(q) => p = q,
             r \notin slipped[way], SlipsIf(r, way, r \notin MonthHolders(back))
      PROVE  MonthMeter'
  <2>1. \A p \in Periods : Cardinality(MonthHolders(p)') <= Cardinality(MonthHolders(p))
    BY <1>2, <1>7, MonthMoves
  <2>2. CASE r \in MonthHolders(back)
    <3>1. ASSUME NEW p \in Periods PROVE MonthMetered(p)'
      BY <1>1, <1>2, <1>4, <1>7, <2>2, MonthMoves DEF MonthMeter, MonthMetered, Capped
    <3> QED BY <3>1 DEF MonthMeter
  <2>3. CASE r \notin MonthHolders(back)
    <3>1. SlipsIf(r, way, TRUE) /\ way \in Slips
      BY <1>7, <2>3 DEF SlipsIf, Slips
    <3>2. Slipped(way)' = Slipped(way) + 1 /\ ~NobodySlipped'
      BY <1>7, <3>1, SlipCounts
    <3>3. astray' >= astray + 1
      BY <1>1, <1>7, <3>2
    <3> HIDE DEF astray
    <3>4. astray \in Nat /\ astray' \in Nat
      BY <1>1 DEF astray
    <3>5. ASSUME NEW p \in Periods PROVE MonthMetered(p)'
      <4>1. Cardinality(MonthHolders(p)) <= monthUsed[p] + astray /\ (Capped => monthUsed[p] <= plan.monthlyQuota)
        BY <1>1, <1>2 DEF MonthMeter, MonthMetered, astray
      <4>2. monthUsed'[p] >= monthUsed[p] - 1 /\ monthUsed'[p] <= monthUsed[p]
        BY <1>2, <1>7
      <4>3. Cardinality(MonthHolders(p)') <= monthUsed'[p] + astray'
        BY <1>2, <1>3, <2>1, <3>3, <3>4, <4>1, <4>2
      <4>4. Cardinality(MonthHolders(p)') <= monthUsed'[p] + Slipped("giveBack")' + Slipped("refundMonth")'
        BY <1>1, <1>3, <4>3 DEF astray
      <4>5. Capped' => monthUsed'[p] <= plan'.monthlyQuota
        BY <1>2, <1>3, <1>4, <1>7, <4>1, <4>2 DEF Capped
      <4> QED BY <3>2, <4>4, <4>5 DEF MonthMetered
    <3> QED BY <3>5 DEF MonthMeter
  <2> QED BY <2>2, <2>3
<1>8. ASSUME NEW r \in Requests, GiveBack(r) PROVE MonthMeter'
  <2> DEFINE taken == PeriodOf[day[r]]
  <2> DEFINE back == IF plan.wing = "marketing" THEN taken ELSE PeriodOf[today]
  <2>1. Others(r) /\ plan' = plan /\ back \in Periods /\ (NobodyDied' => NobodyDied)
    BY <1>8, StepOfOne, NobodyRises, PeriodType DEF Step, GiveBack, TypeOK
  <2>2. \A p \in Periods : r \in MonthHolders(p) <=> p = taken
    BY <1>8 DEF GiveBack, At, MonthHolders, HoldsMonth
  <2>3. \A p \in Periods : r \notin MonthHolders(p)'
    BY <1>8 DEF GiveBack, Goto, MonthHolders, HoldsMonth, TypeOK
  <2>4. \A p \in Periods : monthUsed'[p] = IF p = back THEN monthUsed[p] - 1 ELSE monthUsed[p]
    BY <1>8, <2>1 DEF GiveBack, TypeOK
  <2>5. r \notin slipped["giveBack"]
    BY <1>8 DEF GiveBack, At, SlipsOnce
  <2>6. SlipsIf(r, "giveBack", r \notin MonthHolders(back))
    BY <1>8, <2>1, <2>2 DEF GiveBack, SlipsIf
  <2> HIDE DEF back, taken
  <2> QED BY <1>7, <2>1, <2>2, <2>3, <2>4, <2>5, <2>6
<1>9. ASSUME NEW r \in Requests, RefundMonth(r) PROVE MonthMeter'
  <2> DEFINE back == PeriodOf[today]
  <2>1. Others(r) /\ plan' = plan /\ back \in Periods /\ (NobodyDied' => NobodyDied)
    BY <1>9, StepOfOne, NobodyRises, PeriodType DEF Step, RefundMonth, TypeOK
  <2>2. \A p \in Periods : r \in MonthHolders(p) <=> reserved[r] # None /\ p = PeriodOf[day[r]]
    BY <1>9 DEF RefundMonth, At, MonthHolders, HoldsMonth
  <2>3. \A p \in Periods : r \notin MonthHolders(p)'
    BY <1>9 DEF RefundMonth, Goto, MonthHolders, HoldsMonth, TypeOK
  <2>4. \A p \in Periods : monthUsed'[p] = IF p = back THEN monthUsed[p] - 1 ELSE monthUsed[p]
    BY <1>9, <2>1 DEF RefundMonth, TypeOK
  <2>5. r \notin slipped["refundMonth"]
    BY <1>9 DEF RefundMonth, At, SlipsOnce
  <2>6. SlipsIf(r, "refundMonth", r \notin MonthHolders(back))
    BY <1>9, <2>1, <2>2 DEF RefundMonth, SlipsIf
  <2> HIDE DEF back
  <2> QED BY <1>7, <2>1, <2>2, <2>3, <2>4, <2>5, <2>6
<1>10. ASSUME NEW r \in Requests, Step(r), ~ReserveMonth(r), ~GiveBack(r), ~RefundMonth(r) PROVE MonthMeter'
  <2>1. Others(r) /\ plan' = plan /\ (NobodyDied' => NobodyDied)
    BY <1>10, StepOfOne, NobodyRises
  <2>2. UNCHANGED monthUsed
    BY <1>10 DEF Step, Lookup, BurstRead, BurstCount, BurstExpire, ReserveDay, ExplainFirst,
      ExplainSecond, Content, Insert, RefundDay, meterVars
  <2>3. (HoldsMonth(r) <=> HoldsMonth(r)') /\ (HoldsMonth(r) => day'[r] = day[r])
    <3> USE DEF TypeOK, At, Goto, HoldsMonth, ReservedAtDay, Unreserved
    <3>1. CASE Lookup(r) \/ BurstRead(r) \/ BurstCount(r) \/ BurstExpire(r)
      BY <3>1 DEF Lookup, BurstRead, BurstCount, BurstExpire
    <3>2. CASE ReserveDay(r)
      BY <3>2 DEF ReserveDay
    <3>3. CASE ExplainFirst(r) \/ ExplainSecond(r)
      BY <3>3 DEF ExplainFirst, ExplainSecond
    <3>4. CASE Content(r) \/ Insert(r) \/ RefundDay(r)
      BY <3>4 DEF Content, Insert, RefundDay
    <3> QED BY <1>10, <3>1, <3>2, <3>3, <3>4 DEF Step
  <2>4. \A p \in Periods : r \in MonthHolders(p) <=> r \in MonthHolders(p)'
    BY <2>3 DEF MonthHolders
  <2> QED BY <1>5, <2>1, <2>2, <2>4, MonthMoves
<1>11. ASSUME NEW r \in Requests, Dies(r) PROVE MonthMeter'
  <2>1. Others(r) /\ plan' = plan /\ monthUsed' = monthUsed
    BY <1>11, StepOfOne DEF Dies, meterVars
  <2>2. \A p \in Periods : r \notin MonthHolders(p)'
    BY <1>11 DEF Dies, Goto, MonthHolders, HoldsMonth, TypeOK
  <2>3. ~NobodyDied'
    BY <1>11 DEF Dies, Goto, NobodyDied, TypeOK
  <2>4. \A p \in Periods : Cardinality(MonthHolders(p)') <= Cardinality(MonthHolders(p))
    BY <1>2, <2>1, <2>2, MonthMoves
  <2> QED BY <1>1, <1>2, <1>3, <2>1, <2>3, <2>4 DEF MonthMeter, MonthMetered, Capped
<1>12. CASE Midnight \/ WindowEnds \/ UNCHANGED vars
  <2>1. UNCHANGED <<plan, monthUsed, pc, day, reserved>>
    BY <1>12 DEF Midnight, WindowEnds, vars, meterVars
  <2> QED BY <1>5, <2>1 DEF MonthHolders, HoldsMonth, NobodyDied
<1> QED BY <1>6, <1>8, <1>9, <1>10, <1>11, <1>12 DEF Next

-----------------------------------------------------------------------------
(* The properties                                                          *)

LEMMA MeterCorrect == Spec => [](TypeOK /\ MeterInv)
<1>1. Init => TypeOK /\ MeterInv
  BY TypeInit, InvInit
<1>2. TypeOK /\ MeterInv /\ [Next]_vars => (TypeOK /\ MeterInv)'
  <2> SUFFICES ASSUME TypeOK, MeterInv, [Next]_vars PROVE TypeOK' /\ MeterInv'
    OBVIOUS
  <2>1. TypeOK'
    BY TypeStep
  <2>2. ReservedAtDay' /\ SlipsOnce'
    BY PlacesStep DEF MeterInv
  <2>3. DayMeter'
    BY <2>1, DayStep DEF MeterInv
  <2>4. MonthMeter'
    BY <2>1, MonthStep DEF MeterInv
  <2> QED BY <2>1, <2>2, <2>3, <2>4 DEF MeterInv
<1> QED BY <1>1, <1>2, PTL DEF Spec

(* A set of calls covered by two others is no larger than both together.   *)
LEMMA CoveredByTwo ==
  ASSUME NEW S \in SUBSET Requests, NEW T \in SUBSET Requests, NEW U \in SUBSET Requests, S \subseteq T \cup U
  PROVE  Cardinality(S) <= Cardinality(T) + Cardinality(U)
<1>1. IsFiniteSet(T) /\ IsFiniteSet(U) /\ IsFiniteSet(T \cup U) /\ Cardinality(S) \in Nat
  BY SetsFinite
<1>2. Cardinality(S) <= Cardinality(T \cup U)
  BY <1>1, FS_Subset
<1>3. Cardinality(T \cup U) = Cardinality(T) + Cardinality(U) - Cardinality(T \cap U)
  BY <1>1, FS_Union
<1>4. Cardinality(T \cap U) \in Nat /\ Cardinality(T) \in Nat /\ Cardinality(U) \in Nat
  BY SetsFinite
<1>5. Cardinality(T \cup U) \in Nat
  BY <1>1, FS_CardinalityType
<1> QED BY <1>1, <1>2, <1>3, <1>4, <1>5

LEMMA OvershootFollows ==
  ASSUME TypeOK, MeterInv
  PROVE  OvershootBounded
<1>1. \A s \in Slips : slipped[s] \in SUBSET Requests /\ Slipped(s) \in Nat
  BY SetsFinite DEF TypeOK, Slipped
<1>2. plan.dailyCap \in Nat /\ plan.monthlyQuota \in Nat
  BY PlanType
<1>3. ASSUME NEW r \in Requests, At(r, "accepted")
      PROVE  r \in slipped["free"] \/ (r \in DayHolders(day[r]) /\ r \in MonthHolders(PeriodOf[day[r]]))
  BY <1>3 DEF At, MeterInv, ReservedAtDay, DayHolders, MonthHolders, HoldsMonth
<1>4. ASSUME NEW d \in Days
      PROVE  Cardinality(AcceptedOn(d)) <= plan.dailyCap + Slipped("free") + Slipped("refundDay")
  <2>1. AcceptedOn(d) \subseteq DayHolders(d) \cup slipped["free"] /\ AcceptedOn(d) \in SUBSET Requests
    BY <1>3 DEF AcceptedOn
  <2>2. Cardinality(AcceptedOn(d)) <= Cardinality(DayHolders(d)) + Slipped("free")
    BY <1>1, <2>1, HolderTypes, CoveredByTwo DEF Slips, Slipped
  <2>3. Cardinality(AcceptedOn(d)) \in Nat /\ Cardinality(DayHolders(d)) \in Nat /\ dayUsed[d] \in Int
    BY <2>1, SetsFinite, HolderTypes DEF TypeOK
  <2>4. Cardinality(DayHolders(d)) <= dayUsed[d] + Slipped("refundDay") /\ dayUsed[d] <= plan.dailyCap
    BY DEF MeterInv, DayMeter, DayMetered
  <2>5. Slipped("free") \in Nat /\ Slipped("refundDay") \in Nat
    BY <1>1 DEF Slips
  <2> QED BY <1>2, <2>2, <2>3, <2>4, <2>5
<1>5. ASSUME Capped, NEW p \in Periods
      PROVE  Cardinality(AcceptedIn(p)) <=
               plan.monthlyQuota + Slipped("free") + Slipped("giveBack") + Slipped("refundMonth")
  <2>1. AcceptedIn(p) \subseteq MonthHolders(p) \cup slipped["free"] /\ AcceptedIn(p) \in SUBSET Requests
    BY <1>3 DEF AcceptedIn
  <2>2. Cardinality(AcceptedIn(p)) <= Cardinality(MonthHolders(p)) + Slipped("free")
    BY <1>1, <2>1, HolderTypes, CoveredByTwo DEF Slips, Slipped
  <2>3. Cardinality(AcceptedIn(p)) \in Nat /\ Cardinality(MonthHolders(p)) \in Nat /\ monthUsed[p] \in Int
    BY <2>1, SetsFinite, HolderTypes DEF TypeOK
  <2>4. /\ Cardinality(MonthHolders(p)) <= monthUsed[p] + Slipped("giveBack") + Slipped("refundMonth")
        /\ monthUsed[p] <= plan.monthlyQuota
    BY <1>5 DEF MeterInv, MonthMeter, MonthMetered
  <2>5. Slipped("free") \in Nat /\ Slipped("giveBack") \in Nat /\ Slipped("refundMonth") \in Nat
    BY <1>1 DEF Slips
  <2> QED BY <1>2, <2>2, <2>3, <2>4, <2>5
<1> QED BY <1>4, <1>5 DEF OvershootBounded

LEMMA OneChargeFollows ==
  ASSUME TypeOK, MeterInv
  PROVE  OneChargePerMessage
<1> SUFFICES ASSUME \A r \in Requests : pc[r] \in Answered \ {"dead"}, NobodySlipped
             PROVE  /\ \A d \in Days :
                         dayUsed[d] = Cardinality({r \in Requests : Kept(r) /\ reserved[r] = d})
                    /\ \A p \in Periods :
                         monthUsed[p] = Cardinality({r \in Requests : Kept(r) /\ PeriodOf[reserved[r]] = p})
  BY DEF OneChargePerMessage
<1>1. NobodyDied
  BY DEF NobodyDied
<1>2. ASSUME NEW d \in Days PROVE DayHolders(d) = {r \in Requests : Kept(r) /\ reserved[r] = d}
  BY DEF DayHolders, Kept, Answered
<1>3. ASSUME NEW p \in Periods
      PROVE  MonthHolders(p) = {r \in Requests : Kept(r) /\ PeriodOf[reserved[r]] = p}
  BY DEF MonthHolders, HoldsMonth, Kept, Answered, MeterInv, ReservedAtDay
<1>4. ASSUME NEW d \in Days PROVE dayUsed[d] = Cardinality(DayHolders(d))
  BY DEF MeterInv, DayMeter, DayMetered
<1>5. ASSUME NEW p \in Periods PROVE monthUsed[p] = Cardinality(MonthHolders(p))
  BY <1>1 DEF MeterInv, MonthMeter, MonthMetered
<1> QED BY <1>2, <1>3, <1>4, <1>5

(* However calls, refunds and midnight interleave, a day and a hard-capped *)
(* month accept no more than their limits and the sends that slipped past  *)
(* the meter (billing.ts: "a burst of concurrent sends can't overshoot").  *)
THEOREM CapsHold == Spec => []OvershootBounded
<1>1. TypeOK /\ MeterInv => OvershootBounded
  BY OvershootFollows
<1> QED BY <1>1, MeterCorrect, PTL

(* Once all calls are answered, the counters hold one unit for each        *)
(* accepted message and each call refused after its reservation, if nobody *)
(* died and nobody slipped (messages.ts: the refund of a lost race).       *)
THEOREM ChargedOnce == Spec => []OneChargePerMessage
<1>1. TypeOK /\ MeterInv => OneChargePerMessage
  BY OneChargeFollows
<1> QED BY <1>1, MeterCorrect, PTL
=============================================================================
