------------------------ MODULE TenantStanding_proofs -----------------------
(***************************************************************************)
(* A reputation pause is lifted by an operator's resume and nothing else,  *)
(* a tenant is disabled only together with a pause, resumes are bounded,   *)
(* and the DNS suspends nobody on one bad lookup, for any number of        *)
(* concurrent operators, limit, verdicts and faults.                       *)
(*                                                                         *)
(* The argument for the pause: the sweep alone pauses, so when it is about *)
(* to judge a paused tenant it has read the pause.  For the bound: until   *)
(* the trail is full, every resume is on it, about to be put on it or lost *)
(* to a fault; so a call that still passes the count found few of them.    *)
(* For the warning: the sweep alone starts the clock of a failing domain,  *)
(* and starts it with a lookup that failed.                                *)
(***************************************************************************)
EXTENDS TenantStanding, FiniteSetTheorems, TLAPS

USE OperatorsAssumption, BandsAssumption, BoundsAssumption

-----------------------------------------------------------------------------
(* The inductive invariants, by part                                       *)

PauseSeen == sweep = "judge" /\ row.rep = "paused" => held.rep = "paused"
PauseCaught == \A c \in Operators : HoldsPause(c) => ~row.exists \/ row.rep = "paused" \/ overtaken
PauseInv == PauseSeen /\ PauseCaught /\ DisabledMeansPaused

CallsAt(calls, place) == {c \in Operators : calls[c] = place}
Writing == CallsAt(call, "resumeWrite")
Auditing == CallsAt(call, "resumeAudit")
Recorded == resumed < MaxSelfResumes => resumes <= resumed + Cardinality(Auditing) + faults
Budget == resumes + Cardinality(Writing) <= MaxSelfResumes + Cardinality(Operators) - 1 + faults

USE DEF operatorVars, sweepVars, historyVars

-----------------------------------------------------------------------------
(* What a write makes of the row                                           *)

LEMMA RowFields ==
  ASSUME NEW x \in Row
  PROVE  x.exists \in BOOLEAN /\ x.status \in Statuses /\ x.rep \in Reputations
         /\ x.verifiedAt \in BOOLEAN /\ x.failing \in {"no", "recent", "long"}
  BY DEF Row

LEMMA NewRowType == NewRow \in Row /\ NewRow.rep = "ok" /\ NewRow.status = "pending"
  BY DEF NewRow, Row, Statuses, Reputations

LEMMA EditFields ==
  ASSUME NEW x \in Row, NEW s, NEW r, NEW v, NEW f
  PROVE  /\ LET y == [x EXCEPT !.rep = r, !.status = s]
            IN  y.rep = r /\ y.status = s /\ y.exists = x.exists
         /\ LET y == [x EXCEPT !.failing = f, !.status = s, !.verifiedAt = v]
            IN  y.rep = x.rep /\ y.status = s /\ y.exists = x.exists
         /\ LET y == [x EXCEPT !.status = s, !.verifiedAt = v]
            IN  y.rep = x.rep /\ y.status = s /\ y.exists = x.exists
         /\ LET y == [x EXCEPT !.status = s]
            IN  y.rep = x.rep /\ y.status = s /\ y.exists = x.exists
         /\ LET y == [x EXCEPT !.failing = f]
            IN  y.rep = x.rep /\ y.status = x.status /\ y.exists = x.exists
  BY DEF Row

LEMMA UpdateRow ==
  ASSUME TypeOK, NEW x \in Row, Update(x)
  PROVE  row' \in Row /\ (row.exists => row' = x) /\ (~row.exists => row' = row)
  BY DEF Update, TypeOK

Same == row'.rep = row.rep /\ row'.status = row.status /\ row'.exists = row.exists

(* A verdict changes the reputation only, and pausing disables as well.    *)
LEMMA JudgeEffect ==
  ASSUME TypeOK, NEW b \in Bands, Judge(b)
  PROVE  /\ row' \in Row
         /\ \/ Same
            \/ /\ held.rep # "paused" /\ row'.exists = row.exists /\ row'.rep = b
               /\ row'.status = IF b = "paused" THEN "disabled" ELSE row.status
<1> DEFINE s == IF b = "paused" THEN "disabled" ELSE row.status
           x == [row EXCEPT !.rep = b, !.status = s]
<1>1. row \in Row /\ s \in Statuses /\ b \in Reputations
  BY RowFields DEF TypeOK, Statuses, Reputations
<1>2. UNCHANGED row \/ (Changes(b) /\ Update(x))
  BY DEF Judge
<1>3. x \in Row
  BY <1>1, Zenon DEF Row
<1>4. x.rep = b /\ x.status = s /\ x.exists = row.exists
  BY <1>1, EditFields
<1> HIDE DEF x
<1> QED BY <1>1, <1>2, <1>3, <1>4, UpdateRow DEF Changes, Same

(* A check of the DNS leaves the reputation alone and disables nobody.     *)
LEMMA RecordEffect ==
  ASSUME TypeOK, Record
  PROVE  /\ row' \in Row /\ row'.rep = row.rep
         /\ row'.exists = row.exists
         /\ row'.status = "disabled" => row.status = "disabled"
<1> DEFINE s == IF Restores THEN "verified" ELSE row.status
           x == [row EXCEPT !.failing = "no", !.status = s, !.verifiedAt = row.verifiedAt \/ Restores]
           y == [row EXCEPT !.status = "failed"]
           z == [row EXCEPT !.failing = "recent"]
<1>1. row \in Row /\ s \in Statuses /\ "failed" \in Statuses /\ (row.verifiedAt \/ Restores) \in BOOLEAN
  BY RowFields DEF TypeOK, Statuses
<1>2. Update(row) \/ Update(x) \/ Update(y) \/ Update(z)
  <2>1. CASE found /\ held.failing # "no"
    BY <2>1 DEF Record, Recovered
  <2>2. CASE found /\ held.failing = "no"
    BY <2>2 DEF Record
  <2>3. CASE ~found
    BY <2>3 DEF Record
  <2> QED BY <2>1, <2>2, <2>3
<1>3. x \in Row /\ y \in Row /\ z \in Row
  BY <1>1, Zenon DEF Row
<1>4. /\ x.rep = row.rep /\ x.status = s /\ x.exists = row.exists
      /\ y.rep = row.rep /\ y.status = "failed" /\ y.exists = row.exists
      /\ z.rep = row.rep /\ z.status = row.status /\ z.exists = row.exists
  BY <1>1, EditFields
<1> HIDE DEF x, y, z
<1> QED BY <1>1, <1>2, <1>3, <1>4, UpdateRow

LEMMA VerifyEffect ==
  ASSUME TypeOK, NEW c \in Operators, VerifyWrite(c)
  PROVE  /\ row' \in Row /\ row'.rep = row.rep /\ row'.exists = row.exists
         /\ row'.status = "disabled" => row.status = "disabled" \/ (row.exists /\ read[c].paused)
<1> DEFINE s == IF read[c].paused THEN "disabled" ELSE IF answer[c] THEN "verified" ELSE "failed"
           v == answer[c] \/ read[c].verifiedAt
           x == [row EXCEPT !.status = s, !.verifiedAt = v]
<1>1. row \in Row /\ s \in Statuses /\ v \in BOOLEAN
  BY DEF TypeOK, Statuses
<1>2. Update(x)
  BY DEF VerifyWrite
<1>3. x \in Row
  BY <1>1, Zenon DEF Row
<1>4. x.rep = row.rep /\ x.status = s /\ x.exists = row.exists
  BY <1>1, EditFields
<1> HIDE DEF x
<1> QED BY <1>1, <1>2, <1>3, <1>4, UpdateRow

LEMMA ResumeEffect ==
  ASSUME TypeOK, NEW c \in Operators, ResumeWrite(c)
  PROVE  /\ row' \in Row /\ row'.exists = row.exists
         /\ IF row.exists THEN row'.rep = "ok" /\ row'.status = "verified" ELSE row' = row
<1> DEFINE x == [row EXCEPT !.rep = "ok", !.status = "verified"]
<1>1. row \in Row /\ "ok" \in Reputations /\ "verified" \in Statuses
  BY DEF TypeOK, Statuses, Reputations
<1>2. Update(x)
  BY DEF ResumeWrite
<1>3. x \in Row
  BY <1>1, Zenon DEF Row
<1>4. x.rep = "ok" /\ x.status = "verified" /\ x.exists = row.exists
  BY <1>1, EditFields
<1> HIDE DEF x
<1> QED BY <1>1, <1>2, <1>3, <1>4, UpdateRow

LEMMA DeleteEffect ==
  ASSUME TypeOK, NEW c \in Operators, DeleteWrite(c)
  PROVE  row' \in Row /\ ~row'.exists /\ (row.exists => row'.rep = "ok" /\ row'.status = "pending")
         /\ (~row.exists => row' = row)
<1> DEFINE x == [NewRow EXCEPT !.exists = FALSE]
<1>1. x \in Row /\ x.rep = "ok" /\ x.status = "pending" /\ x.exists = FALSE
  BY DEF NewRow, Row, Statuses, Reputations
<1>2. Update(x)
  BY DEF DeleteWrite
<1> HIDE DEF x
<1> QED BY <1>1, <1>2, UpdateRow

LEMMA GraceEffect ==
  ASSUME TypeOK, GraceEnds
  PROVE  row' \in Row /\ Same
<1>1. row \in Row
  BY DEF TypeOK
<1>2. row' = [row EXCEPT !.failing = "long"]
  BY DEF GraceEnds
<1>3. row' \in Row
  BY <1>1, <1>2, Zenon DEF Row
<1> QED BY <1>1, <1>2, <1>3, EditFields DEF Same

-----------------------------------------------------------------------------
(* Types                                                                   *)

LEMMA TypeInit == Init => TypeOK
<1> SUFFICES ASSUME Init PROVE TypeOK
  OBVIOUS
<1>1. row \in Row /\ held \in Row
  BY NewRowType DEF Init
<1>2. call \in [Operators -> CallPlaces] /\ answer \in [Operators -> BOOLEAN]
      /\ read \in [Operators -> [paused : BOOLEAN, verifiedAt : BOOLEAN]]
  BY DEF Init, Unread, CallPlaces
<1>3. resumed \in 0..MaxSelfResumes /\ faults \in 0..MaxFaults /\ resumes \in Nat
  BY DEF Init
<1> QED BY <1>1, <1>2, <1>3 DEF Init, TypeOK

LEMMA TypeStep == TypeOK /\ [Next]_vars => TypeOK'
<1> SUFFICES ASSUME TypeOK, [Next]_vars PROVE TypeOK'
  OBVIOUS
<1> USE NewRowType DEF SweepAt, Forget, AuditResumed, CallAt, Done, CallPlaces, Unread
<1>1. CASE SelectReputation
  <2>1. [NewRow EXCEPT !.rep = row.rep] \in Row
    BY RowFields DEF TypeOK, NewRow, Row, Statuses
  <2> QED BY <1>1, <2>1 DEF SelectReputation, TypeOK
<1>2. ASSUME NEW b \in Bands, Judge(b) PROVE TypeOK'
  <2>1. row' \in Row
    BY <1>2, JudgeEffect
  <2> QED BY <1>2, <2>1 DEF Judge, TypeOK
<1>3. CASE AuditTransition \/ NothingDue \/ Lookup \/ SweepFails
  <2>1. CASE AuditTransition
    <3>1. resumed' \in 0..MaxSelfResumes
      BY <2>1 DEF AuditTransition, TypeOK
    <3>2. held' \in Row /\ found' \in BOOLEAN /\ sweep' = "dns"
      BY <2>1 DEF AuditTransition
    <3> QED BY <2>1, <3>1, <3>2 DEF AuditTransition, TypeOK
  <2>2. CASE NothingDue      BY <2>2 DEF NothingDue, TypeOK
  <2>3. CASE Lookup          BY <2>3 DEF Lookup, TypeOK
  <2>4. CASE SweepFails
    <3>1. faults' \in 0..MaxFaults
      BY <2>4 DEF SweepFails, TypeOK
    <3>2. held' \in Row /\ found' \in BOOLEAN /\ sweep' \in {"dns", "idle"}
      BY <2>4 DEF SweepFails
    <3> QED BY <2>4, <3>1, <3>2 DEF SweepFails, TypeOK
  <2> QED BY <1>3, <2>1, <2>2, <2>3, <2>4
<1>4. CASE SelectDns
  <2>1. [row EXCEPT !.verifiedAt = FALSE] \in Row
    BY DEF TypeOK, Row
  <2> QED BY <1>4, <2>1 DEF SelectDns, TypeOK
<1>5. CASE Record
  <2>1. row' \in Row
    BY <1>5, RecordEffect
  <2> QED BY <1>5, <2>1 DEF Record, TypeOK
<1>6. ASSUME NEW c \in Operators, VerifyRead(c) PROVE TypeOK'
  BY <1>6, RowFields DEF VerifyRead, TypeOK
<1>7. ASSUME NEW c \in Operators, NEW a \in BOOLEAN, VerifyLookup(c, a) PROVE TypeOK'
  BY <1>7 DEF VerifyLookup, TypeOK
<1>8. ASSUME NEW c \in Operators, VerifyWrite(c) PROVE TypeOK'
  <2>1. row' \in Row
    BY <1>8, VerifyEffect
  <2> QED BY <1>8, <2>1 DEF VerifyWrite, TypeOK
<1>9. ASSUME NEW c \in Operators, ResumeRead(c) \/ ResumeCount(c) \/ ResumeAudit(c) PROVE TypeOK'
  BY <1>9 DEF ResumeRead, ResumeCount, ResumeAudit, TypeOK
<1>10. ASSUME NEW c \in Operators, ResumeWrite(c) PROVE TypeOK'
  <2>1. row' \in Row
    BY <1>10, ResumeEffect
  <2> QED BY <1>10, <2>1 DEF ResumeWrite, TypeOK
<1>11. ASSUME NEW c \in Operators, DeleteRead(c) \/ CallDies(c) PROVE TypeOK'
  <2>1. CASE DeleteRead(c) BY <2>1 DEF DeleteRead, TypeOK
  <2>2. CASE CallDies(c)   BY <2>2 DEF CallDies, TypeOK
  <2> QED BY <1>11, <2>1, <2>2
<1>12. ASSUME NEW c \in Operators, DeleteWrite(c) PROVE TypeOK'
  <2>1. row' \in Row
    BY <1>12, DeleteEffect
  <2> QED BY <1>12, <2>1 DEF DeleteWrite, TypeOK
<1>13. CASE GraceEnds
  <2>1. row' \in Row
    BY <1>13, GraceEffect
  <2> QED BY <1>13, <2>1 DEF GraceEnds, TypeOK
<1>14. CASE RecordsChange \/ UNCHANGED vars
  BY <1>14 DEF RecordsChange, vars, TypeOK
<1> QED BY <1>1, <1>2, <1>3, <1>4, <1>5, <1>6, <1>7, <1>8, <1>9, <1>10, <1>11, <1>12, <1>13, <1>14
        DEF Next, SweepStep

(* Every variable keeps its type, for every instance.                      *)
THEOREM TypeCorrect == Spec => []TypeOK
  BY TypeInit, TypeStep, PTL DEF Spec

-----------------------------------------------------------------------------
(* The pause                                                               *)

LEMMA PauseInit == Init => PauseInv
  BY DEF Init, PauseInv, PauseSeen, PauseCaught, DisabledMeansPaused, HoldsPause, NewRow, Unread

\* No call has picked up a pause, and none has seen one lifted.
QuietCalls ==
  /\ \A c \in Operators : HoldsPause(c)' => HoldsPause(c)
  /\ overtaken' = overtaken

(* Steps that leave reputation and status as they are and read no pause.   *)
LEMMA PauseSame ==
  ASSUME TypeOK, PauseInv, Same, QuietCalls,
         sweep' = "judge" => sweep = "judge" /\ held' = held
  PROVE  PauseInv'
<1>1. PauseSeen'
  BY DEF PauseInv, PauseSeen, Same
<1>2. PauseCaught'
  <2> SUFFICES ASSUME NEW c \in Operators, HoldsPause(c)'
               PROVE  (~row.exists \/ row.rep = "paused" \/ overtaken)'
    BY DEF PauseCaught
  <2>1. HoldsPause(c)
    BY DEF QuietCalls
  <2> QED BY <2>1 DEF PauseInv, PauseCaught, Same, QuietCalls
<1>3. DisabledMeansPaused'
  BY DEF PauseInv, DisabledMeansPaused, Same, QuietCalls
<1> QED BY <1>1, <1>2, <1>3 DEF PauseInv

LEMMA PauseStep == TypeOK /\ PauseInv /\ [Next]_vars => PauseInv'
<1> SUFFICES ASSUME TypeOK, PauseInv, [Next]_vars PROVE PauseInv'
  OBVIOUS
<1> USE DEF SweepAt, Forget, AuditResumed, CallAt, Done, Unread
<1>1. CASE SelectReputation
  <2>1. Same /\ QuietCalls
    BY <1>1 DEF SelectReputation, Same, QuietCalls, HoldsPause
  <2>2. sweep' = "judge" => held'.rep = row.rep
    BY <1>1 DEF SelectReputation, NewRow
  <2>3. PauseSeen'
    BY <2>1, <2>2 DEF PauseSeen, Same
  <2>4. PauseCaught' /\ DisabledMeansPaused'
    BY <1>1 DEF SelectReputation, PauseInv, PauseCaught, DisabledMeansPaused, HoldsPause
  <2> QED BY <2>3, <2>4 DEF PauseInv
<1>2. ASSUME NEW b \in Bands, Judge(b) PROVE PauseInv'
  <2>1. QuietCalls /\ sweep' # "judge" /\ sweep = "judge"
    BY <1>2 DEF Judge, QuietCalls, HoldsPause
  <2>2. CASE Same
    BY <2>1, <2>2, PauseSame
  <2>3. CASE ~Same
    <3>1. /\ held.rep # "paused" /\ row'.rep = b /\ row'.exists = row.exists
          /\ row'.status = IF b = "paused" THEN "disabled" ELSE row.status
      BY <1>2, <2>3, JudgeEffect
    <3>2. row.rep # "paused"
      BY <2>1, <3>1 DEF PauseInv, PauseSeen
    <3>3. PauseCaught'
      <4> SUFFICES ASSUME NEW c \in Operators, HoldsPause(c)'
                   PROVE  (~row.exists \/ row.rep = "paused" \/ overtaken)'
        BY DEF PauseCaught
      <4>1. HoldsPause(c)
        BY <2>1 DEF QuietCalls
      <4> QED BY <2>1, <3>1, <3>2, <4>1 DEF PauseInv, PauseCaught, QuietCalls
    <3>4. DisabledMeansPaused'
      BY <2>1, <3>1, <3>2 DEF PauseInv, DisabledMeansPaused, QuietCalls
    <3> QED BY <2>1, <3>3, <3>4 DEF PauseInv, PauseSeen
  <2> QED BY <2>2, <2>3
<1>3. CASE AuditTransition \/ NothingDue \/ Lookup \/ SweepFails \/ SelectDns \/ RecordsChange
           \/ UNCHANGED vars
  <2>1. Same /\ QuietCalls /\ (sweep' = "judge" => sweep = "judge" /\ held' = held)
    BY <1>3 DEF AuditTransition, NothingDue, Lookup, SweepFails, SelectDns, RecordsChange, vars,
       Same, QuietCalls, HoldsPause
  <2> QED BY <2>1, PauseSame
<1>4. CASE Record
  <2>1. QuietCalls /\ sweep' = "idle"
    BY <1>4 DEF Record, QuietCalls, HoldsPause
  <2>2. row'.rep = row.rep /\ row'.exists = row.exists /\ (row'.status = "disabled" => row.status = "disabled")
    BY <1>4, RecordEffect
  <2>3. PauseCaught'
    BY <2>1, <2>2 DEF QuietCalls, PauseInv, PauseCaught
  <2> QED BY <2>1, <2>2, <2>3 DEF PauseInv, PauseSeen, DisabledMeansPaused, QuietCalls
<1>5. ASSUME NEW c \in Operators, VerifyRead(c) PROVE PauseInv'
  <2>1. UNCHANGED <<row, sweep, held, overtaken>>
    BY <1>5 DEF VerifyRead
  <2>2. \A d \in Operators : HoldsPause(d)' => HoldsPause(d) \/ row.rep = "paused"
    BY <1>5 DEF VerifyRead, HoldsPause, TypeOK
  <2>3. PauseCaught'
    BY <2>1, <2>2 DEF PauseInv, PauseCaught
  <2> QED BY <2>1, <2>3 DEF PauseInv, PauseSeen, DisabledMeansPaused
<1>6. ASSUME NEW c \in Operators,
             (\E a \in BOOLEAN : VerifyLookup(c, a)) \/ ResumeRead(c) \/ ResumeCount(c) \/ ResumeAudit(c)
             \/ DeleteRead(c) \/ CallDies(c)
      PROVE  PauseInv'
  <2>1. Same /\ UNCHANGED <<sweep, held, overtaken>>
    BY <1>6 DEF VerifyLookup, ResumeRead, ResumeCount, ResumeAudit, DeleteRead, CallDies, Same
  <2>2. QuietCalls
    BY <1>6, <2>1 DEF VerifyLookup, ResumeRead, ResumeCount, ResumeAudit, DeleteRead, CallDies,
       QuietCalls, HoldsPause, TypeOK
  <2> QED BY <2>1, <2>2, PauseSame
<1>7. ASSUME NEW c \in Operators, VerifyWrite(c) PROVE PauseInv'
  <2>1. QuietCalls /\ UNCHANGED <<sweep, held>>
    BY <1>7 DEF VerifyWrite, QuietCalls, HoldsPause, TypeOK
  <2>2. /\ row'.rep = row.rep /\ row'.exists = row.exists
        /\ row'.status = "disabled" => row.status = "disabled" \/ (row.exists /\ read[c].paused)
    BY <1>7, VerifyEffect
  <2>3. read[c].paused => HoldsPause(c)
    BY <1>7 DEF VerifyWrite, HoldsPause
  <2>4. PauseCaught'
    BY <2>1, <2>2 DEF QuietCalls, PauseInv, PauseCaught
  <2>5. DisabledMeansPaused'
    BY <2>1, <2>2, <2>3 DEF QuietCalls, PauseInv, PauseCaught, DisabledMeansPaused
  <2> QED BY <2>1, <2>2, <2>4, <2>5 DEF PauseInv, PauseSeen
<1>8. ASSUME NEW c \in Operators, ResumeWrite(c) PROVE PauseInv'
  <2>1. /\ row'.exists = row.exists
        /\ IF row.exists THEN row'.rep = "ok" /\ row'.status = "verified" ELSE row' = row
    BY <1>8, ResumeEffect
  <2>2. /\ UNCHANGED <<sweep, held>>
        /\ \A d \in Operators : HoldsPause(d)' => HoldsPause(d)
        /\ overtaken' = (overtaken \/ \E d \in Operators : HoldsPause(d))
    BY <1>8 DEF ResumeWrite, HoldsPause, TypeOK
  <2>3. PauseCaught'
    BY <2>2 DEF PauseCaught
  <2>4. DisabledMeansPaused'
    BY <2>1, <2>2 DEF PauseInv, DisabledMeansPaused
  <2> QED BY <2>1, <2>2, <2>3, <2>4 DEF PauseInv, PauseSeen
<1>9. ASSUME NEW c \in Operators, DeleteWrite(c) PROVE PauseInv'
  <2>1. ~row'.exists /\ (row.exists => row'.rep = "ok" /\ row'.status = "pending") /\ (~row.exists => row' = row)
    BY <1>9, DeleteEffect
  <2>2. UNCHANGED <<sweep, held, overtaken>>
    BY <1>9 DEF DeleteWrite
  <2> QED BY <2>1, <2>2 DEF PauseInv, PauseSeen, PauseCaught, DisabledMeansPaused
<1>10. CASE GraceEnds
  <2>1. Same
    BY <1>10, GraceEffect
  <2>2. QuietCalls /\ UNCHANGED <<sweep, held>>
    BY <1>10 DEF GraceEnds, QuietCalls, HoldsPause
  <2> QED BY <2>1, <2>2, PauseSame
<1> QED BY <1>1, <1>2, <1>3, <1>4, <1>5, <1>6, <1>7, <1>8, <1>9, <1>10 DEF Next, SweepStep

(* A tenant is disabled only while it is paused, unless a verify that had  *)
(* read the pause wrote after a resume.                                    *)
THEOREM DisabledIsPaused == Spec => []DisabledMeansPaused
<1>1. PauseInv => DisabledMeansPaused
  BY DEF PauseInv
<1> QED BY <1>1, TypeInit, TypeStep, PauseInit, PauseStep, PTL DEF Spec

(* Only an operator's resume makes a paused tenant send again.             *)
THEOREM PauseIsHeld == Spec => PauseHolds
<1>1. TypeOK /\ PauseInv /\ [Next]_vars =>
        [row.rep = "paused" /\ Sending' => \E c \in Operators : call[c] = "resumeWrite"]_vars
  <2> SUFFICES ASSUME TypeOK, PauseInv, Next, row.rep = "paused", row'.exists, row'.rep # "paused"
               PROVE  \E c \in Operators : call[c] = "resumeWrite"
    BY DEF Sending
  <2>1. ASSUME NEW b \in Bands, Judge(b) PROVE FALSE
    <3>1. held.rep = "paused"
      BY <2>1 DEF Judge, PauseInv, PauseSeen
    <3> QED BY <2>1, <3>1, JudgeEffect DEF Same
  <2>2. ASSUME NEW c \in Operators, VerifyWrite(c) \/ DeleteWrite(c) PROVE FALSE
    BY <2>2, VerifyEffect, DeleteEffect
  <2>3. ~Record /\ ~GraceEnds
    BY RecordEffect, GraceEffect DEF Same
  <2>4. PICK c \in Operators : ResumeWrite(c)
    BY <2>1, <2>2, <2>3 DEF Next, SweepStep, SelectReputation, AuditTransition, SelectDns, NothingDue,
       Lookup, SweepFails, VerifyRead, VerifyLookup, ResumeRead, ResumeCount, ResumeAudit, DeleteRead,
       CallDies, RecordsChange
  <2> QED BY <2>4 DEF ResumeWrite
<1> QED BY <1>1, TypeInit, TypeStep, PauseInit, PauseStep, PTL DEF Spec, PauseHolds

-----------------------------------------------------------------------------
(* The number of resumes                                                   *)

LEMMA TwoPlaces ==
  ASSUME NEW calls
  PROVE  LET W == CallsAt(calls, "resumeWrite")
             A == CallsAt(calls, "resumeAudit")
         IN  /\ IsFiniteSet(W) /\ IsFiniteSet(A)
             /\ Cardinality(W) \in Nat /\ Cardinality(A) \in Nat /\ Cardinality(Operators) \in Nat
             /\ Cardinality(W) + Cardinality(A) <= Cardinality(Operators)
<1> DEFINE W == CallsAt(calls, "resumeWrite")
           A == CallsAt(calls, "resumeAudit")
<1>1. W \subseteq Operators /\ A \subseteq Operators /\ W \cup A \subseteq Operators /\ W \cap A = {}
  BY DEF CallsAt
<1> HIDE DEF W, A
<1>2. IsFiniteSet(W) /\ IsFiniteSet(A)
  BY <1>1, FS_Subset
<1>3. /\ Cardinality(W) \in Nat /\ Cardinality(A) \in Nat /\ Cardinality(Operators) \in Nat
  BY <1>2, FS_CardinalityType
<1>4. Cardinality(W \cup A) = Cardinality(W) + Cardinality(A) - Cardinality(W \cap A)
  BY <1>2, FS_Union
<1>5. Cardinality(W \cap A) = 0
  BY <1>1, FS_EmptySet
<1>6. Cardinality(W \cup A) <= Cardinality(Operators)
  BY <1>1, FS_Subset
<1>7. Cardinality(W) + Cardinality(A) <= Cardinality(Operators)
  BY <1>3, <1>4, <1>5, <1>6
<1> QED BY <1>2, <1>3, <1>7 DEF W, A

LEMMA Places ==
  /\ IsFiniteSet(Writing) /\ IsFiniteSet(Auditing)
  /\ Cardinality(Writing) \in Nat /\ Cardinality(Auditing) \in Nat
  /\ Cardinality(Operators) \in Nat
  /\ Cardinality(Writing) + Cardinality(Auditing) <= Cardinality(Operators)
  BY TwoPlaces DEF Writing, Auditing

(* One call moves; each of the two sets gains or loses at most that call.  *)
LEMMA Moves ==
  ASSUME TypeOK, NEW c \in Operators, NEW p \in CallPlaces, CallAt(c, p)
  PROVE  /\ Cardinality(Writing') = Cardinality(Writing)
              + (IF p = "resumeWrite" THEN 1 ELSE 0) - (IF call[c] = "resumeWrite" THEN 1 ELSE 0)
         /\ Cardinality(Auditing') = Cardinality(Auditing)
              + (IF p = "resumeAudit" THEN 1 ELSE 0) - (IF call[c] = "resumeAudit" THEN 1 ELSE 0)
<1>1. Writing' = IF p = "resumeWrite" THEN Writing \cup {c} ELSE Writing \ {c}
  BY DEF Writing, CallsAt, CallAt, TypeOK
<1>2. Auditing' = IF p = "resumeAudit" THEN Auditing \cup {c} ELSE Auditing \ {c}
  BY DEF Auditing, CallsAt, CallAt, TypeOK
<1>3. (c \in Writing <=> call[c] = "resumeWrite") /\ (c \in Auditing <=> call[c] = "resumeAudit")
  BY DEF Writing, Auditing, CallsAt
<1>4. /\ Cardinality(Writing \cup {c}) = IF c \in Writing THEN Cardinality(Writing) ELSE Cardinality(Writing) + 1
      /\ Cardinality(Writing \ {c}) = IF c \in Writing THEN Cardinality(Writing) - 1 ELSE Cardinality(Writing)
      /\ Cardinality(Auditing \cup {c}) = IF c \in Auditing THEN Cardinality(Auditing) ELSE Cardinality(Auditing) + 1
      /\ Cardinality(Auditing \ {c}) = IF c \in Auditing THEN Cardinality(Auditing) - 1 ELSE Cardinality(Auditing)
  BY Places, FS_AddElement, FS_RemoveElement
<1> QED BY <1>1, <1>2, <1>3, <1>4, Places

ResumeInv == Recorded /\ Budget

LEMMA ResumeInit == Init => ResumeInv
<1> SUFFICES ASSUME Init PROVE ResumeInv
  OBVIOUS
<1>1. Writing = {} /\ Auditing = {}
  BY DEF Init, Writing, Auditing, CallsAt
<1>2. Cardinality({}) = 0 /\ Cardinality(Operators) \in Nat
  BY FS_EmptySet, FS_CardinalityType
<1> QED BY <1>1, <1>2 DEF Init, ResumeInv, Recorded, Budget

LEMMA ResumeStep == TypeOK /\ ResumeInv /\ [Next]_vars => ResumeInv'
<1> SUFFICES ASSUME TypeOK, ResumeInv, [Next]_vars PROVE ResumeInv'
  OBVIOUS
<1> USE DEF ResumeInv, Recorded, Budget
<1>0. /\ resumed \in Nat /\ resumes \in Nat /\ faults \in Nat
      /\ UNCHANGED call => Cardinality(Writing') = Cardinality(Writing)
                            /\ Cardinality(Auditing') = Cardinality(Auditing)
  <2>1. UNCHANGED call => Writing' = Writing /\ Auditing' = Auditing
    BY DEF Writing, Auditing
  <2> QED BY <2>1 DEF TypeOK
<1>1. CASE UNCHANGED <<call, resumes>> /\ resumed' \in {resumed, resumed + 1} /\ faults' \in {faults, faults + 1}
  BY <1>0, <1>1, Places
<1>2. ASSUME SweepStep \/ SweepFails \/ GraceEnds \/ RecordsChange \/ UNCHANGED vars
      PROVE  UNCHANGED <<call, resumes>> /\ resumed' \in {resumed, resumed + 1} /\ faults' \in {faults, faults + 1}
  BY <1>2 DEF SweepStep, SelectReputation, Judge, AuditTransition, SelectDns, NothingDue, Lookup, Record,
     SweepFails, GraceEnds, RecordsChange, AuditResumed, vars
<1>3. ASSUME NEW c \in Operators, NEW p \in CallPlaces, CallAt(c, p),
             UNCHANGED <<resumed, resumes, faults>>,
             p \notin {"resumeWrite", "resumeAudit"}, call[c] \notin {"resumeWrite", "resumeAudit"}
      PROVE  ResumeInv'
  BY <1>0, <1>3, Moves, Places
<1>4. ASSUME NEW c \in Operators,
             \/ VerifyRead(c) \/ (\E a \in BOOLEAN : VerifyLookup(c, a)) \/ VerifyWrite(c)
             \/ ResumeRead(c) \/ DeleteRead(c) \/ DeleteWrite(c)
      PROVE  ResumeInv'
  <2>1. /\ \E p \in {"verifyLookup", "verifyWrite", "idle", "resumeCount", "delete"} : CallAt(c, p)
        /\ UNCHANGED <<resumed, resumes, faults>>
        /\ call[c] \in {"idle", "verifyLookup", "verifyWrite", "delete"}
    BY <1>4 DEF VerifyRead, VerifyLookup, VerifyWrite, ResumeRead, DeleteRead, DeleteWrite, Done
  <2> QED BY <1>3, <2>1 DEF CallPlaces
<1>5. ASSUME NEW c \in Operators, ResumeCount(c) PROVE ResumeInv'
  <2>1. CASE resumed >= MaxSelfResumes
    BY <1>3, <1>5, <2>1 DEF ResumeCount, CallPlaces
  <2>2. CASE resumed < MaxSelfResumes
    <3>1. CallAt(c, "resumeWrite") /\ call[c] = "resumeCount" /\ UNCHANGED <<resumed, resumes, faults>>
      BY <1>0, <1>5, <2>2 DEF ResumeCount
    <3>2. /\ Cardinality(Writing') = Cardinality(Writing) + 1
          /\ Cardinality(Auditing') = Cardinality(Auditing)
      BY <3>1, Moves, Places DEF CallPlaces
    <3>3. Cardinality(Writing') + Cardinality(Auditing') <= Cardinality(Operators)
      BY TwoPlaces DEF Writing, Auditing
    <3> QED BY <1>0, <2>2, <3>1, <3>2, <3>3, Places
  <2> QED BY <1>0, <2>1, <2>2
<1>6. ASSUME NEW c \in Operators, ResumeWrite(c) PROVE ResumeInv'
  <2>1. /\ CallAt(c, "resumeAudit") /\ call[c] = "resumeWrite"
        /\ UNCHANGED <<resumed, faults>> /\ resumes' = resumes + 1
    BY <1>6 DEF ResumeWrite
  <2>2. /\ Cardinality(Writing') = Cardinality(Writing) - 1
        /\ Cardinality(Auditing') = Cardinality(Auditing) + 1
    BY <2>1, Moves, Places DEF CallPlaces
  <2> QED BY <1>0, <2>1, <2>2, Places
<1>7. ASSUME NEW c \in Operators, ResumeAudit(c) PROVE ResumeInv'
  <2>1. /\ CallAt(c, "idle") /\ call[c] = "resumeAudit" /\ AuditResumed
        /\ UNCHANGED <<resumes, faults>>
    BY <1>7 DEF ResumeAudit
  <2>2. /\ Cardinality(Writing') = Cardinality(Writing)
        /\ Cardinality(Auditing') = Cardinality(Auditing) - 1
    BY <2>1, Moves, Places DEF CallPlaces
  <2> QED BY <1>0, <2>1, <2>2, Places DEF AuditResumed
<1>8. ASSUME NEW c \in Operators, CallDies(c) PROVE ResumeInv'
  <2>1. CallAt(c, "idle") /\ UNCHANGED <<resumed, resumes>> /\ faults' = faults + 1
    BY <1>8 DEF CallDies, Done
  <2>2. /\ Cardinality(Writing') \in {Cardinality(Writing), Cardinality(Writing) - 1}
        /\ Cardinality(Auditing') \in {Cardinality(Auditing), Cardinality(Auditing) - 1}
    BY <2>1, Moves, Places DEF CallPlaces
  <2> QED BY <1>0, <2>1, <2>2, Places
<1> QED BY <1>1, <1>2, <1>4, <1>5, <1>6, <1>7, <1>8 DEF Next

(* Operators resume at most MaxSelfResumes times, but for calls that       *)
(* counted together and for faults.                                        *)
THEOREM ResumesAreBounded == Spec => []ResumesBounded
<1>1. TypeOK /\ ResumeInv => ResumesBounded
  <2> SUFFICES ASSUME TypeOK, ResumeInv PROVE ResumesBounded
    OBVIOUS
  <2> QED BY Places DEF TypeOK, ResumeInv, Budget, ResumesBounded
<1> QED BY <1>1, TypeInit, TypeStep, ResumeInit, ResumeStep, PTL DEF Spec

-----------------------------------------------------------------------------
(* The warning before a suspension                                         *)

\* The clock runs only while the last lookup failed; a sweep between its
\* read and its write holds the clock as it is, or the row is gone.
ClockWarned == row.failing # "no" => failedBefore /\ row.exists
HeldClock ==
  sweep \in {"lookup", "record"} =>
    (held.failing # "no" => failedBefore) /\ row.failing \in {"no", held.failing}
WarnInv == ClockWarned /\ HeldClock

LEMMA ClockFields ==
  ASSUME NEW x \in Row, NEW s, NEW r, NEW v, NEW f
  PROVE  /\ [x EXCEPT !.rep = r, !.status = s].failing = x.failing
         /\ [x EXCEPT !.failing = f, !.status = s, !.verifiedAt = v].failing = f
         /\ [x EXCEPT !.status = s, !.verifiedAt = v].failing = x.failing
         /\ [x EXCEPT !.status = s].failing = x.failing
         /\ [x EXCEPT !.failing = f].failing = f
  BY DEF Row

\* Verdicts, verifications and resumes do not touch the clock.
LEMMA ClockUntouched ==
  ASSUME TypeOK, (\E b \in Bands : Judge(b)) \/ (\E c \in Operators : VerifyWrite(c) \/ ResumeWrite(c))
  PROVE  row'.failing = row.failing /\ row'.exists = row.exists
<1>0. row \in Row
  BY DEF TypeOK
<1>1. ASSUME NEW b \in Bands, Judge(b) PROVE row'.failing = row.failing /\ row'.exists = row.exists
  <2>1. PICK s : row' = row \/ row' = [row EXCEPT !.rep = b, !.status = s]
    BY <1>1 DEF Judge, Update
  <2>2. row'.failing = row.failing
    BY <1>0, <2>1 DEF Row
  <2> QED BY <1>1, <2>2, JudgeEffect DEF Same
<1>2. ASSUME NEW c \in Operators, VerifyWrite(c) PROVE row'.failing = row.failing /\ row'.exists = row.exists
  <2>1. PICK s, v : row' = row \/ row' = [row EXCEPT !.status = s, !.verifiedAt = v]
    BY <1>2 DEF VerifyWrite, Update
  <2>2. row'.failing = row.failing
    BY <1>0, <2>1 DEF Row
  <2> QED BY <1>2, <2>2, VerifyEffect
<1>3. ASSUME NEW c \in Operators, ResumeWrite(c) PROVE row'.failing = row.failing /\ row'.exists = row.exists
  <2>1. row' = row \/ row' = [row EXCEPT !.rep = "ok", !.status = "verified"]
    BY <1>3 DEF ResumeWrite, Update
  <2>2. row'.failing = row.failing
    BY <1>0, <2>1 DEF Row
  <2> QED BY <1>3, <2>2, ResumeEffect
<1> QED BY <1>1, <1>2, <1>3

\* Only a failing lookup of a verified row suspends, or starts the clock.
LEMMA RecordClock ==
  ASSUME TypeOK, WarnInv, Record
  PROVE  /\ ClockWarned'
         /\ row.status # "failed" /\ row'.status = "failed" => failedBefore
<1> DEFINE s == IF Restores THEN "verified" ELSE row.status
           x == [row EXCEPT !.failing = "no", !.status = s, !.verifiedAt = row.verifiedAt \/ Restores]
           y == [row EXCEPT !.status = "failed"]
           z == [row EXCEPT !.failing = "recent"]
<1>1. row \in Row /\ held \in Row /\ sweep = "record" /\ failedBefore' = ~found
  BY DEF TypeOK, Record
<1>2. /\ x.failing = "no" /\ x.status = s /\ x.exists = row.exists
      /\ y.failing = row.failing /\ y.exists = row.exists
      /\ z.status = row.status /\ z.exists = row.exists
  BY <1>1, EditFields, ClockFields
<1>3. \/ found /\ held.failing = "no" /\ Update(row)
      \/ found /\ held.failing # "no" /\ Update(x)
      \/ ~found /\ Suspends /\ Update(y)
      \/ ~found /\ (Update(row) \/ Update(z))
  BY DEF Record, Recovered
<1> HIDE DEF x, y, z
<1>4. ClockWarned'
  <2>1. row'.exists => row.exists
    BY <1>1, RecordEffect
  <2>2. CASE ~found
    <3>1. row'.exists = row.exists /\ (~row.exists => row' = row)
      BY <1>3, <2>2, RecordEffect DEF Update
    <3> QED BY <1>1, <2>2, <3>1 DEF WarnInv, ClockWarned
  <2>3. CASE found
    <3>1. row'.failing = "no"
      BY <1>1, <1>2, <1>3, <2>3 DEF Update, WarnInv, ClockWarned, HeldClock
    <3> QED BY <3>1 DEF ClockWarned
  <2> QED BY <2>2, <2>3
<1>5. ASSUME row.status # "failed", row'.status = "failed" PROVE failedBefore
  <2>1. row' \in {row, x, y, z}
    BY <1>3 DEF Update
  <2>2. Suspends
    BY <1>2, <1>3, <1>5 DEF Update
  <2> QED BY <1>1, <2>2 DEF Suspends, WarnInv, HeldClock
<1> QED BY <1>4, <1>5

LEMMA WarnInit == Init => WarnInv
  BY DEF Init, NewRow, WarnInv, ClockWarned, HeldClock

LEMMA WarnStep == TypeOK /\ WarnInv /\ [Next]_vars => WarnInv'
<1> SUFFICES ASSUME TypeOK, WarnInv, [Next]_vars PROVE WarnInv'
  OBVIOUS
<1> USE DEF SweepAt, Forget
<1>0. row \in Row
  BY DEF TypeOK
<1>1. CASE row'.failing = row.failing /\ row'.exists = row.exists /\ UNCHANGED <<held, failedBefore>>
           /\ (sweep' \in {"lookup", "record"} => sweep \in {"lookup", "record"})
  BY <1>1 DEF WarnInv, ClockWarned, HeldClock
<1>2. CASE row'.failing = row.failing /\ row'.exists = row.exists /\ UNCHANGED failedBefore
           /\ sweep' \notin {"lookup", "record"}
  BY <1>2 DEF WarnInv, ClockWarned, HeldClock
<1>3. CASE SelectReputation \/ AuditTransition \/ NothingDue \/ SweepFails
  BY <1>2, <1>3 DEF SelectReputation, AuditTransition, NothingDue, SweepFails
<1>4. ASSUME NEW b \in Bands, Judge(b) PROVE WarnInv'
  <2>1. UNCHANGED failedBefore /\ sweep' \notin {"lookup", "record"}
    BY <1>4 DEF Judge
  <2> QED BY <1>2, <1>4, <2>1, ClockUntouched
<1>5. CASE SelectDns
  <2>1. held'.failing = row.failing /\ UNCHANGED <<row, failedBefore>>
    BY <1>0, <1>5 DEF SelectDns, Row
  <2> QED BY <2>1 DEF WarnInv, ClockWarned, HeldClock
<1>6. CASE Lookup \/ RecordsChange \/ UNCHANGED vars
  BY <1>1, <1>6 DEF Lookup, RecordsChange, vars
<1>7. CASE Record
  <2>1. sweep' = "idle"
    BY <1>7 DEF Record
  <2> QED BY <1>7, <2>1, RecordClock DEF WarnInv, HeldClock
<1>8. ASSUME NEW c \in Operators, VerifyWrite(c) \/ ResumeWrite(c) PROVE WarnInv'
  <2>1. UNCHANGED <<sweep, held, failedBefore>>
    BY <1>8 DEF VerifyWrite, ResumeWrite
  <2> QED BY <1>1, <1>8, <2>1, ClockUntouched
<1>9. ASSUME NEW c \in Operators,
             VerifyRead(c) \/ (\E a \in BOOLEAN : VerifyLookup(c, a)) \/ ResumeRead(c) \/ ResumeCount(c)
             \/ ResumeAudit(c) \/ DeleteRead(c) \/ CallDies(c)
      PROVE  WarnInv'
  BY <1>1, <1>9 DEF VerifyRead, VerifyLookup, ResumeRead, ResumeCount, ResumeAudit, DeleteRead, CallDies
<1>10. ASSUME NEW c \in Operators, DeleteWrite(c) PROVE WarnInv'
  <2>1. UNCHANGED <<sweep, held, failedBefore>>
    BY <1>10 DEF DeleteWrite
  <2>2. row'.failing = "no"
    BY <1>0, <1>10 DEF DeleteWrite, Update, NewRow, WarnInv, ClockWarned
  <2> QED BY <2>1, <2>2 DEF WarnInv, ClockWarned, HeldClock
<1>11. CASE GraceEnds
  <2>1. row.failing = "recent" /\ row' = [row EXCEPT !.failing = "long"] /\ sweep \notin {"lookup", "record"}
        /\ UNCHANGED <<sweep, failedBefore>>
    BY <1>11 DEF GraceEnds
  <2>2. row'.exists = row.exists
    BY <1>0, <2>1, EditFields
  <2> QED BY <2>1, <2>2 DEF WarnInv, ClockWarned, HeldClock
<1> QED BY <1>3, <1>4, <1>5, <1>6, <1>7, <1>8, <1>9, <1>10, <1>11 DEF Next, SweepStep

(* checkTenantDns suspends a domain only when the last lookup it recorded  *)
(* before this one failed as well, whatever verifications, pauses, resumes *)
(* and deletes came between the two.                                       *)
THEOREM SuspensionIsWarned == Spec => SuspendedAfterWarning
<1>1. TypeOK /\ WarnInv /\ [Next]_vars =>
        [sweep = "record" /\ sweep' # sweep /\ row.status # "failed" /\ row'.status = "failed"
           => failedBefore]_vars
  <2> SUFFICES ASSUME TypeOK, WarnInv, Next, sweep = "record", sweep' # sweep,
                      row.status # "failed", row'.status = "failed"
               PROVE  failedBefore
    OBVIOUS
  <2>1. Record
    BY DEF Next, SweepStep, SelectReputation, Judge, AuditTransition, SelectDns, NothingDue, Lookup, SweepFails,
       VerifyRead, VerifyLookup, VerifyWrite, ResumeRead, ResumeCount, ResumeWrite, ResumeAudit, DeleteRead,
       DeleteWrite, CallDies, GraceEnds, RecordsChange
  <2> QED BY <2>1, RecordClock
<1> QED BY <1>1, TypeInit, TypeStep, WarnInit, WarnStep, PTL DEF Spec, SuspendedAfterWarning
=============================================================================
