------------------------ MODULE SequenceEngine_proofs -----------------------
(***************************************************************************)
(* No send step is dropped, an exit that finds no tick at work holds, and  *)
(* no step is mailed more often than faults make it, for any drip, any     *)
(* number of enrolments, ticks and enrol calls, and any delays and faults. *)
(*                                                                         *)
(* The argument: wherever a position is kept (the row, a tick's snapshot,  *)
(* what advance is about to write), every send step before it has a        *)
(* message; nobody picks up a row that is not active; and the mails of a   *)
(* step, with the ticks that may still send it, are never more than the    *)
(* faults and one.                                                         *)
(***************************************************************************)
EXTENDS SequenceEngine, FiniteSets, FiniteSetTheorems, TLAPS

USE StepsAssumption, LimitsAssumption, NoneAssumption

-----------------------------------------------------------------------------
(* The types, by part                                                      *)

RowType ==
  /\ status \in [Enrollments -> Statuses]
  /\ step \in [Enrollments -> Positions]
  /\ due \in [Enrollments -> BOOLEAN]
  /\ last \in [Enrollments -> BOOLEAN]

TickType ==
  /\ tPc \in [Ticks -> TickPlaces]
  /\ batch \in [Ticks -> SUBSET Enrollments]
  /\ snap \in [Ticks -> [Enrollments -> Snapshots]]
  /\ cur \in [Ticks -> Enrollments \cup {None}]
  /\ \A t \in Ticks : cur[t] # None <=> tPc[t] \in {"step", "capacity", "send", "write"}
  /\ iter \in [Ticks -> 0..MaxIterations]
  /\ wStep \in [Ticks -> Positions] /\ wLast \in [Ticks -> BOOLEAN]
  /\ wStatus \in [Ticks -> {"active", "completed", "failed"}]
  /\ wDue \in [Ticks -> BOOLEAN]

OtherType ==
  /\ seq \in {"active", "paused", "deleted"}
  /\ suppressed \in BOOLEAN /\ delays \in 0..MaxDelays /\ crowd \in 0..Limit
  /\ exitPc \in {"idle", "read", "write"} /\ exitIds \subseteq Enrollments
  /\ ePc \in [Enrollers -> {"read", "insert", "done"}]
  /\ faults \in 0..MaxFaults
  /\ sent \in [Enrollments -> [DOMAIN Steps -> Nat]]
  /\ made \in [Enrollments -> SUBSET DOMAIN Steps] /\ firm \subseteq Enrollments

LEMMA TypeParts == TypeOK <=> RowType /\ TickType /\ OtherType
  BY DEF TypeOK, RowType, TickType, OtherType

\* Between the capacity check and the send the loop stands at a send step.
AtSend ==
  \A t \in Ticks : tPc[t] \in {"capacity", "send"} =>
    iter[t] < MaxIterations /\ wStep[t] \in DOMAIN Steps

-----------------------------------------------------------------------------
(* Effects of the shared steps                                             *)

LEMMA StepsFacts ==
  /\ Len(Steps) \in Nat /\ DOMAIN Steps = 1..Len(Steps) /\ DOMAIN Steps \subseteq Positions
  /\ 1 \in Positions
  /\ \A i \in DOMAIN Steps : i + 1 \in Positions
  /\ \A i \in DOMAIN Steps : Steps[i].type = "branch" => Steps[i].goto \in Positions
  BY DEF Positions

LEMMA AtTypeFacts ==
  ASSUME TickType, NEW t \in Ticks, NEW y, AtType(t, y)
  PROVE  tPc[t] = "step" /\ iter[t] < MaxIterations /\ wStep[t] \in DOMAIN Steps /\ Steps[wStep[t]].type = y
  BY StepsFacts DEF AtType, Ends, TickType, Positions

LEMMA GotoEffect ==
  ASSUME TickType, NEW t \in Ticks, NEW p \in TickPlaces, Goto(t, p)
  PROVE  /\ tPc' \in [Ticks -> TickPlaces] /\ tPc'[t] = p
         /\ \A u \in Ticks \ {t} : tPc'[u] = tPc[u]
  BY DEF Goto, TickType

LEMMA StopEffect ==
  ASSUME TickType, NEW t \in Ticks, NEW s \in {"active", "completed", "failed"}, NEW d \in BOOLEAN,
         Stop(t, s, d)
  PROVE  /\ tPc' \in [Ticks -> TickPlaces] /\ wDue' \in [Ticks -> BOOLEAN]
         /\ wStatus' \in [Ticks -> {"active", "completed", "failed"}]
         /\ tPc'[t] = "write" /\ wStatus'[t] = s
         /\ \A u \in Ticks \ {t} : tPc'[u] = tPc[u] /\ wStatus'[u] = wStatus[u]
  BY DEF Stop, Goto, TickType, TickPlaces

LEMMA ContinueEffect ==
  ASSUME TickType, NEW t \in Ticks, NEW n \in Positions, iter[t] < MaxIterations, Continue(t, n)
  PROVE  /\ wStep' \in [Ticks -> Positions] /\ iter' \in [Ticks -> 0..MaxIterations]
         /\ wStep'[t] = n
         /\ \A u \in Ticks \ {t} : wStep'[u] = wStep[u] /\ iter'[u] = iter[u]
  BY DEF Continue, TickType

LEMMA PutDownEffect ==
  ASSUME TickType, NEW t \in Ticks, PutDown(t)
  PROVE  /\ cur' \in [Ticks -> Enrollments \cup {None}] /\ iter' \in [Ticks -> 0..MaxIterations]
         /\ wStep' \in [Ticks -> Positions] /\ wLast' \in [Ticks -> BOOLEAN]
         /\ wStatus' \in [Ticks -> {"active", "completed", "failed"}] /\ wDue' \in [Ticks -> BOOLEAN]
         /\ cur'[t] = None
         /\ \A u \in Ticks \ {t} : /\ cur'[u] = cur[u] /\ iter'[u] = iter[u]
                                   /\ wStep'[u] = wStep[u] /\ wStatus'[u] = wStatus[u]
<1>1. cur' \in [Ticks -> Enrollments \cup {None}] /\ iter' \in [Ticks -> 0..MaxIterations]
  BY DEF PutDown, TickType
<1>2. wStep' \in [Ticks -> Positions] /\ wLast' \in [Ticks -> BOOLEAN]
  BY StepsFacts DEF PutDown, TickType
<1>3. wStatus' \in [Ticks -> {"active", "completed", "failed"}] /\ wDue' \in [Ticks -> BOOLEAN]
  BY DEF PutDown, TickType
<1> QED BY <1>1, <1>2, <1>3 DEF PutDown, TickType

LEMMA UnreadType == [e \in Enrollments |-> Unread] \in [Enrollments -> Snapshots]
  BY StepsFacts DEF Unread, Snapshots

LEMMA EndTickEffect ==
  ASSUME TickType, NEW t \in Ticks, EndTick(t)
  PROVE  /\ tPc' \in [Ticks -> TickPlaces] /\ batch' \in [Ticks -> SUBSET Enrollments]
         /\ snap' \in [Ticks -> [Enrollments -> Snapshots]]
         /\ tPc'[t] = "idle" /\ batch'[t] = {} /\ snap'[t] = [e \in Enrollments |-> Unread]
         /\ \A u \in Ticks \ {t} : tPc'[u] = tPc[u] /\ batch'[u] = batch[u] /\ snap'[u] = snap[u]
<1>1. snap' \in [Ticks -> [Enrollments -> Snapshots]]
  BY UnreadType DEF EndTick, TickType
<1> QED BY <1>1 DEF EndTick, Goto, TickType, TickPlaces

-----------------------------------------------------------------------------
(* Types are kept                                                          *)

LEMMA TypeInit == Init => RowType /\ TickType /\ OtherType
<1> SUFFICES ASSUME Init PROVE RowType /\ TickType /\ OtherType
  OBVIOUS
<1>1. RowType
  BY StepsFacts DEF Init, RowType, Statuses
<1>2. snap \in [Ticks -> [Enrollments -> Snapshots]]
  BY UnreadType DEF Init
<1>3. wStep \in [Ticks -> Positions] /\ iter \in [Ticks -> 0..MaxIterations]
  BY StepsFacts DEF Init
<1>4. TickType
  BY <1>2, <1>3 DEF Init, TickType, TickPlaces
<1>5. sent \in [Enrollments -> [DOMAIN Steps -> Nat]] /\ made \in [Enrollments -> SUBSET DOMAIN Steps]
  BY DEF Init
<1>6. delays \in 0..MaxDelays /\ faults \in 0..MaxFaults /\ crowd \in 0..Limit /\ ePc \in [Enrollers -> {"read", "insert", "done"}]
  BY DEF Init
<1>7. suppressed \in BOOLEAN /\ seq \in {"active", "paused", "deleted"} /\ exitPc \in {"idle", "read", "write"}
      /\ exitIds \subseteq Enrollments /\ firm \subseteq Enrollments
  BY DEF Init
<1>8. OtherType
  BY <1>5, <1>6, <1>7 DEF OtherType
<1> QED BY <1>1, <1>4, <1>8

LEMMA FaultType ==
  ASSUME OtherType, Fault \/ UNCHANGED faults
  PROVE  faults' \in 0..MaxFaults
  BY DEF Fault, OtherType

LEMMA RowStep ==
  ASSUME RowType, TickType, [Next]_vars
  PROVE  RowType'
<1>1. CASE UNCHANGED rowVars
  BY <1>1 DEF RowType, rowVars
<1>2. ASSUME NEW c \in Enrollers, EnrollInsert(c), ~UNCHANGED rowVars PROVE RowType'
  BY <1>2 DEF EnrollInsert, RowType, Statuses
<1>3. ASSUME NEW ids, Exit(ids) PROVE RowType'
  BY <1>3 DEF Exit, RowType, Statuses, Terminal
<1>4. CASE Delete
  BY <1>4 DEF Delete, RowType, Statuses
<1>5. ASSUME NEW e \in Enrollments, ComesDue(e) PROVE RowType'
  BY <1>5 DEF ComesDue, RowType
<1>6. ASSUME NEW t \in Ticks, Write(t) PROVE RowType'
  <2>1. wStatus[t] \in Statuses /\ wStep[t] \in Positions /\ wDue[t] \in BOOLEAN /\ wLast[t] \in BOOLEAN
    BY DEF TickType, Statuses, Terminal
  <2> QED BY <1>6, <2>1 DEF Write, RowType, rowVars
<1>7. [Next]_vars => \/ UNCHANGED rowVars \/ \E ids : Exit(ids) \/ Delete
                     \/ \E c \in Enrollers : EnrollInsert(c)
                     \/ \E e \in Enrollments : ComesDue(e)
                     \/ \E t \in Ticks : Write(t)
  <2>1. ASSUME NEW t \in Ticks, Select(t) \/ TickStep(t) \/ Throw(t) \/ Crash(t) PROVE UNCHANGED rowVars \/ Write(t)
    BY <2>1 DEF Select, TickStep, ReadSequence, Begin, TickEnds, Complete, Wait, Branch, ResolveTemplate,
                CheckCapacity, Send, Throw, Crash
  <2> QED BY <2>1 DEF Next, EnrollRead, Leave, ExitRead, ExitWrite, Cancel, Pause, Resume, Crowd, vars
<1> QED BY <1>1, <1>2, <1>3, <1>4, <1>5, <1>6, <1>7

LEMMA OtherStep ==
  ASSUME RowType, TickType, OtherType, AtSend, [Next]_vars
  PROVE  OtherType'
<1>1. ASSUME NEW c \in Enrollers, EnrollRead(c) \/ EnrollInsert(c) PROVE OtherType'
  BY <1>1 DEF EnrollRead, EnrollInsert, OtherType, envVars, exitVars
<1>2. ASSUME NEW reason \in Reasons, Leave(reason) PROVE OtherType'
  BY <1>2 DEF Leave, OtherType
<1>3. CASE ExitRead \/ Pause \/ Resume \/ Delete \/ Crowd \/ UNCHANGED vars
  BY <1>3 DEF ExitRead, Pause, Resume, Crowd, Delete, OtherType, ActiveRows, envVars, exitVars, vars
<1>4. CASE ExitWrite
  BY <1>4 DEF ExitWrite, Exit, OtherType, envVars
<1>5. ASSUME NEW e \in Enrollments, Cancel(e) \/ ComesDue(e) PROVE OtherType'
  BY <1>5 DEF Cancel, Exit, ComesDue, OtherType, envVars, exitVars
<1>6. ASSUME NEW t \in Ticks,
             Select(t) \/ ReadSequence(t) \/ Begin(t) \/ TickEnds(t) \/ Complete(t) \/ Wait(t)
             \/ ResolveTemplate(t) \/ Write(t) \/ Throw(t) \/ Crash(t)
      PROVE OtherType'
  <2>1. faults' \in 0..MaxFaults
    BY <1>6, FaultType DEF Select, ReadSequence, Begin, TickEnds, Complete, Wait, ResolveTemplate, Write, Throw, Crash
  <2>2. UNCHANGED <<seq, envVars, exitVars, ePc, sent, made, firm>>
    BY <1>6 DEF Select, ReadSequence, Begin, TickEnds, Complete, Wait, ResolveTemplate, Write, Throw, Crash
  <2> QED BY <2>1, <2>2 DEF OtherType, envVars, exitVars
<1>7. ASSUME NEW t \in Ticks, Branch(t) \/ CheckCapacity(t) PROVE OtherType'
  <2>1. delays' \in 0..MaxDelays
    <3>1. Delay \/ UNCHANGED delays
      BY <1>7 DEF Branch, CheckCapacity
    <3> QED BY <3>1 DEF Delay, OtherType
  <2> QED BY <1>7, <2>1 DEF Branch, CheckCapacity, OtherType, exitVars
<1>8. ASSUME NEW t \in Ticks, Send(t) PROVE OtherType'
  <2>1. cur[t] \in Enrollments /\ wStep[t] \in DOMAIN Steps
    BY <1>8 DEF Send, TickType, AtSend
  <2>2. made' \in [Enrollments -> SUBSET DOMAIN Steps]
    BY <1>8, <2>1 DEF Send, OtherType
  <2>3. sent' \in [Enrollments -> [DOMAIN Steps -> Nat]]
    <3>1. PICK e \in Enrollments, i \in DOMAIN Steps : sent' = sent \/ sent' = [sent EXCEPT ![e][i] = @ + 1]
      BY <1>8, <2>1 DEF Send
    <3>2. CASE sent' = sent
      BY <3>2 DEF OtherType
    <3>3. CASE sent' = [sent EXCEPT ![e][i] = @ + 1]
      <4>1. sent[e] \in [DOMAIN Steps -> Nat]
        BY DEF OtherType
      <4>2. [sent[e] EXCEPT ![i] = @ + 1] \in [DOMAIN Steps -> Nat]
        BY <4>1
      <4>3. sent' = [sent EXCEPT ![e] = [sent[e] EXCEPT ![i] = @ + 1]]
        BY <3>3, Zenon
      <4> QED BY <4>2, <4>3 DEF OtherType
    <3> QED BY <3>1, <3>2, <3>3
  <2> QED BY <1>8, <2>2, <2>3 DEF Send, OtherType, envVars, exitVars
<1> QED BY <1>1, <1>2, <1>3, <1>4, <1>5, <1>6, <1>7, <1>8 DEF Next, TickStep

\* What a tick reads of the rows it selects.
Read(rows) == [e \in Enrollments |-> IF e \in rows THEN [step |-> step[e], last |-> last[e]] ELSE Unread]

LEMMA SelectTakes ==
  ASSUME NEW t \in Ticks, Select(t)
  PROVE  \E rows \in SUBSET Due :
           batch' = [batch EXCEPT ![t] = rows] /\ snap' = [snap EXCEPT ![t] = Read(rows)]
<1>1. Front \subseteq SUBSET Due
  BY DEF Front
<1> QED BY <1>1 DEF Select, Read

LEMMA SelectType ==
  ASSUME RowType, TickType, NEW t \in Ticks, Select(t)
  PROVE  batch' \in [Ticks -> SUBSET Enrollments] /\ snap' \in [Ticks -> [Enrollments -> Snapshots]]
<1>1. Due \subseteq Enrollments
  BY DEF Due, ActiveRows
<1>2. PICK rows \in SUBSET Due : batch' = [batch EXCEPT ![t] = rows] /\ snap' = [snap EXCEPT ![t] = Read(rows)]
  BY SelectTakes
<1> DEFINE read == Read(rows)
<1>4. read \in [Enrollments -> Snapshots]
  BY StepsFacts DEF Read, RowType, Snapshots, Unread
<1>3. batch' = [batch EXCEPT ![t] = rows] /\ snap' = [snap EXCEPT ![t] = read]
  BY <1>2
<1> HIDE DEF read
<1> QED BY <1>1, <1>3, <1>4 DEF TickType

LEMMA TickTypeStep ==
  ASSUME RowType, TickType, AtSend, [Next]_vars
  PROVE  TickType' /\ AtSend'
<1>1. CASE UNCHANGED tickVars
  BY <1>1 DEF TickType, AtSend, tickVars, cursorVars
<1>2. ASSUME NEW t \in Ticks, Select(t) PROVE TickType' /\ AtSend'
  <2>1. tPc' \in [Ticks -> TickPlaces] /\ tPc'[t] = "sequence" /\ (\A u \in Ticks \ {t} : tPc'[u] = tPc[u])
        /\ tPc[t] = "idle"
    BY <1>2, GotoEffect DEF Select, TickPlaces
  <2>2. UNCHANGED <<cur, cursorVars>>
    BY <1>2 DEF Select
  <2>3. TickType'
    <3>1. \A u \in Ticks : cur'[u] # None <=> tPc'[u] \in {"step", "capacity", "send", "write"}
      BY <2>1, <2>2 DEF TickType
    <3>2. batch' \in [Ticks -> SUBSET Enrollments] /\ snap' \in [Ticks -> [Enrollments -> Snapshots]]
      BY <1>2, SelectType
    <3> QED BY <2>1, <2>2, <3>1, <3>2 DEF TickType, cursorVars
  <2>4. AtSend'
    BY <2>1, <2>2 DEF AtSend, cursorVars
  <2> QED BY <2>3, <2>4
<1>3. ASSUME NEW t \in Ticks, ReadSequence(t) \/ TickEnds(t) PROVE TickType' /\ AtSend'
  <2>1. tPc[t] \in {"sequence", "next"} /\ UNCHANGED <<cur, cursorVars>>
    BY <1>3 DEF ReadSequence, TickEnds
  <2>2. (Goto(t, "next") /\ UNCHANGED <<batch, snap>>) \/ EndTick(t)
    BY <1>3 DEF ReadSequence, TickEnds
  <2>3. /\ tPc' \in [Ticks -> TickPlaces] /\ tPc'[t] \in {"next", "idle"}
        /\ \A u \in Ticks \ {t} : tPc'[u] = tPc[u]
    BY <2>2, GotoEffect, EndTickEffect DEF TickPlaces
  <2>4. batch' \in [Ticks -> SUBSET Enrollments] /\ snap' \in [Ticks -> [Enrollments -> Snapshots]]
    BY <2>2, EndTickEffect DEF TickType
  <2>5. TickType'
    <3>1. \A u \in Ticks : cur'[u] # None <=> tPc'[u] \in {"step", "capacity", "send", "write"}
      BY <2>1, <2>3 DEF TickType
    <3> QED BY <2>1, <2>3, <2>4, <3>1 DEF TickType, cursorVars
  <2>6. AtSend'
    BY <2>1, <2>3 DEF AtSend, cursorVars
  <2> QED BY <2>5, <2>6
<1>4. ASSUME NEW t \in Ticks, Begin(t) PROVE TickType' /\ AtSend'
  <2>1. PICK e \in batch[t] :
          /\ batch' = [batch EXCEPT ![t] = @ \ {e}] /\ cur' = [cur EXCEPT ![t] = e]
          /\ wStep' = [wStep EXCEPT ![t] = snap[t][e].step]
          /\ wLast' = [wLast EXCEPT ![t] = snap[t][e].last]
    BY <1>4 DEF Begin
  <2>2. e \in Enrollments /\ snap[t][e] \in Snapshots
    BY DEF TickType
  <2>3. snap[t][e].step \in Positions /\ snap[t][e].last \in BOOLEAN
    BY <2>2 DEF Snapshots
  <2>4. tPc' \in [Ticks -> TickPlaces] /\ tPc'[t] = "step" /\ (\A u \in Ticks \ {t} : tPc'[u] = tPc[u])
    BY <1>4, GotoEffect DEF Begin, TickPlaces
  <2>5. wStep' \in [Ticks -> Positions] /\ wLast' \in [Ticks -> BOOLEAN]
    BY <2>1, <2>3 DEF TickType
  <2>6. cur' \in [Ticks -> Enrollments \cup {None}] /\ batch' \in [Ticks -> SUBSET Enrollments]
        /\ (cur'[t] # None) /\ (\A u \in Ticks \ {t} : cur'[u] = cur[u])
    BY <2>1, <2>2 DEF TickType
  <2>7. UNCHANGED <<snap, iter, wStatus, wDue>> /\ (\A u \in Ticks \ {t} : wStep'[u] = wStep[u])
    BY <1>4, <2>1 DEF Begin, TickType
  <2>8. TickType'
    BY <2>4, <2>5, <2>6, <2>7 DEF TickType
  <2>9. AtSend'
    BY <2>4, <2>7 DEF AtSend
  <2> QED BY <2>8, <2>9
<1>5. ASSUME NEW t \in Ticks, NEW s \in {"active", "completed", "failed"}, NEW d \in BOOLEAN,
             Stop(t, s, d), tPc[t] \in {"step", "capacity", "send"}, wStep' \in [Ticks -> Positions],
             \A u \in Ticks \ {t} : wStep'[u] = wStep[u],
             UNCHANGED <<batch, snap, cur, iter, wLast>>
      PROVE TickType' /\ AtSend'
  <2>1. /\ tPc' \in [Ticks -> TickPlaces] /\ wDue' \in [Ticks -> BOOLEAN]
        /\ wStatus' \in [Ticks -> {"active", "completed", "failed"}]
        /\ tPc'[t] = "write" /\ \A u \in Ticks \ {t} : tPc'[u] = tPc[u]
    BY <1>5, StopEffect
  <2>2. \A u \in Ticks : cur'[u] # None <=> tPc'[u] \in {"step", "capacity", "send", "write"}
    BY <1>5, <2>1 DEF TickType
  <2>3. TickType'
    BY <1>5, <2>1, <2>2 DEF TickType
  <2>4. AtSend'
    BY <1>5, <2>1 DEF AtSend
  <2> QED BY <2>3, <2>4
<1>6. ASSUME NEW t \in Ticks, Complete(t) PROVE TickType' /\ AtSend'
  <2>1. \E s \in {"active", "completed", "failed"} : Stop(t, s, TRUE)
    BY <1>6 DEF Complete
  <2>2. tPc[t] = "step" /\ UNCHANGED <<batch, snap, cur, iter, wStep, wLast>>
    BY <1>6 DEF Complete
  <2>3. wStep' \in [Ticks -> Positions]
    BY <2>2 DEF TickType
  <2> QED BY <2>1, <2>2, <2>3, <1>5
<1>7. ASSUME NEW t \in Ticks, NEW p \in {"step", "capacity", "send"}, NEW n \in Positions,
             tPc[t] \in {"step", "capacity", "send"}, iter[t] < MaxIterations,
             tPc' = [tPc EXCEPT ![t] = p], wLast' \in [Ticks -> BOOLEAN],
             \/ p = "step" /\ Continue(t, n)
             \/ wStep[t] \in DOMAIN Steps /\ UNCHANGED <<wStep, iter>>,
             UNCHANGED <<batch, snap, cur, wStatus, wDue>>
      PROVE TickType' /\ AtSend'
  <2>1. tPc' \in [Ticks -> TickPlaces] /\ tPc'[t] = p /\ \A u \in Ticks \ {t} : tPc'[u] = tPc[u]
    BY <1>7 DEF TickType, TickPlaces
  <2>2. wStep' \in [Ticks -> Positions] /\ iter' \in [Ticks -> 0..MaxIterations]
        /\ \A u \in Ticks \ {t} : wStep'[u] = wStep[u] /\ iter'[u] = iter[u]
    BY <1>7, ContinueEffect DEF TickType
  <2>3. \A u \in Ticks : cur'[u] # None <=> tPc'[u] \in {"step", "capacity", "send", "write"}
    BY <1>7, <2>1 DEF TickType
  <2>4. TickType'
    BY <1>7, <2>1, <2>2, <2>3 DEF TickType
  <2>5. AtSend'
    BY <1>7, <2>1, <2>2 DEF AtSend
  <2> QED BY <2>4, <2>5
<1>8. ASSUME NEW t \in Ticks, Wait(t) PROVE TickType' /\ AtSend'
  <2>1. tPc[t] = "step" /\ iter[t] < MaxIterations /\ wStep[t] + 1 \in Positions
    BY <1>8, AtTypeFacts, StepsFacts DEF Wait
  <2>2. UNCHANGED <<batch, snap, cur, wLast>>
    BY <1>8 DEF Wait
  <2>3. CASE Stop(t, "active", FALSE) /\ wStep' = [wStep EXCEPT ![t] = @ + 1] /\ UNCHANGED iter
    <3>1. wStep' \in [Ticks -> Positions] /\ \A u \in Ticks \ {t} : wStep'[u] = wStep[u]
      BY <2>1, <2>3 DEF TickType
    <3> QED BY <2>1, <2>2, <2>3, <3>1, <1>5
  <2>4. CASE Continue(t, wStep[t] + 1) /\ UNCHANGED <<wStatus, wDue, tPc>>
    <3>1. tPc' = [tPc EXCEPT ![t] = "step"] /\ wLast' \in [Ticks -> BOOLEAN]
      BY <2>1, <2>2, <2>4 DEF TickType
    <3> QED BY <2>1, <2>2, <2>4, <3>1, <1>7
  <2> QED BY <1>8, <2>3, <2>4 DEF Wait
<1>9. ASSUME NEW t \in Ticks, Branch(t) PROVE TickType' /\ AtSend'
  <2>1. /\ tPc[t] = "step" /\ iter[t] < MaxIterations /\ wStep[t] \in DOMAIN Steps
        /\ Steps[wStep[t]].type = "branch"
    BY <1>9, AtTypeFacts DEF Branch
  <2>2. UNCHANGED <<batch, snap, cur, wLast>>
    BY <1>9 DEF Branch
  <2>3. CASE Stop(t, "active", TRUE) /\ UNCHANGED <<wStep, iter>>
    <3>1. wStep' \in [Ticks -> Positions]
      BY <2>3 DEF TickType
    <3> QED BY <2>1, <2>2, <2>3, <3>1, <1>5
  <2>4. CASE (\E n \in Positions : Continue(t, n)) /\ UNCHANGED <<wStatus, wDue, tPc>>
    <3>1. tPc' = [tPc EXCEPT ![t] = "step"] /\ wLast' \in [Ticks -> BOOLEAN]
      BY <2>1, <2>2, <2>4 DEF TickType
    <3> QED BY <2>1, <2>2, <2>4, <3>1, <1>7
  <2>5. Steps[wStep[t]].goto \in Positions /\ wStep[t] + 1 \in Positions
    BY <2>1, StepsFacts
  <2> QED BY <1>9, <2>3, <2>4, <2>5 DEF Branch
<1>10. ASSUME NEW t \in Ticks, ResolveTemplate(t) \/ CheckCapacity(t) PROVE TickType' /\ AtSend'
  <2>1. tPc[t] \in {"step", "capacity"} /\ iter[t] < MaxIterations /\ wStep[t] \in DOMAIN Steps
    BY <1>10, AtTypeFacts DEF ResolveTemplate, CheckCapacity, AtSend
  <2>2. UNCHANGED <<batch, snap, cur, iter, wStep, wLast>> /\ wLast' \in [Ticks -> BOOLEAN]
        /\ wStep' \in [Ticks -> Positions]
    BY <1>10 DEF ResolveTemplate, CheckCapacity, TickType
  <2>3. CASE (Stop(t, "failed", TRUE) \/ Stop(t, "active", FALSE))
    BY <2>1, <2>2, <2>3, <1>5
  <2>4. CASE (Goto(t, "capacity") \/ Goto(t, "send")) /\ UNCHANGED <<wStatus, wDue>>
    <3>1. 1 \in Positions
      BY StepsFacts
    <3> QED BY <2>1, <2>2, <2>4, <3>1, <1>7 DEF Goto
  <2> QED BY <1>10, <2>3, <2>4 DEF ResolveTemplate, CheckCapacity
<1>11. ASSUME NEW t \in Ticks, Send(t) PROVE TickType' /\ AtSend'
  <2>1. tPc[t] = "send" /\ iter[t] < MaxIterations /\ wStep[t] + 1 \in Positions
    BY <1>11, StepsFacts DEF Send, AtSend
  <2>2. wLast' \in [Ticks -> BOOLEAN]
    BY <1>11 DEF Send, TickType
  <2>3. tPc' = [tPc EXCEPT ![t] = "step"] /\ Continue(t, wStep[t] + 1)
        /\ UNCHANGED <<batch, snap, cur, wStatus, wDue>>
    BY <1>11 DEF Send, Goto
  <2> QED BY <2>1, <2>2, <2>3, <1>7
<1>12. ASSUME NEW t \in Ticks, Write(t) \/ Throw(t) PROVE TickType' /\ AtSend'
  <2>1. PutDown(t) /\ Goto(t, "next") /\ UNCHANGED <<batch, snap>>
    BY <1>12 DEF Write, Throw
  <2>2. tPc' \in [Ticks -> TickPlaces] /\ tPc'[t] = "next" /\ (\A u \in Ticks \ {t} : tPc'[u] = tPc[u])
    BY <2>1, GotoEffect DEF TickPlaces
  <2>3. \A u \in Ticks : cur'[u] # None <=> tPc'[u] \in {"step", "capacity", "send", "write"}
    <3>1. cur'[t] = None /\ \A u \in Ticks \ {t} : cur'[u] = cur[u]
      BY <2>1, PutDownEffect
    <3> QED BY <2>2, <3>1 DEF TickType
  <2>4. TickType'
    BY <2>1, <2>2, <2>3, PutDownEffect DEF TickType
  <2>5. AtSend'
    BY <2>1, <2>2, PutDownEffect DEF AtSend
  <2> QED BY <2>4, <2>5
<1>13. ASSUME NEW t \in Ticks, Crash(t) PROVE TickType' /\ AtSend'
  <2>1. PutDown(t) /\ EndTick(t)
    BY <1>13 DEF Crash
  <2>2. \A u \in Ticks : cur'[u] # None <=> tPc'[u] \in {"step", "capacity", "send", "write"}
    <3>1. cur'[t] = None /\ \A u \in Ticks \ {t} : cur'[u] = cur[u]
      BY <2>1, PutDownEffect
    <3>2. tPc'[t] = "idle" /\ \A u \in Ticks \ {t} : tPc'[u] = tPc[u]
      BY <2>1, EndTickEffect
    <3> QED BY <3>1, <3>2 DEF TickType
  <2>3. TickType'
    BY <2>1, <2>2, PutDownEffect, EndTickEffect DEF TickType
  <2>4. AtSend'
    <3>1. tPc'[t] = "idle" /\ \A u \in Ticks \ {t} : tPc'[u] = tPc[u]
      BY <2>1, EndTickEffect
    <3>2. \A u \in Ticks \ {t} : iter'[u] = iter[u] /\ wStep'[u] = wStep[u]
      BY <2>1, PutDownEffect
    <3> QED BY <3>1, <3>2 DEF AtSend
  <2> QED BY <2>3, <2>4
<1>14. [Next]_vars => \/ UNCHANGED tickVars
                      \/ \E t \in Ticks : Select(t) \/ TickStep(t) \/ Throw(t) \/ Crash(t)
  BY DEF Next, EnrollRead, EnrollInsert, Leave, ExitRead, ExitWrite, Cancel, ComesDue, Pause, Resume, Crowd, Delete, vars
<1> QED BY <1>1, <1>2, <1>3, <1>4, <1>6, <1>8, <1>9, <1>10, <1>11, <1>12, <1>13, <1>14 DEF TickStep

LEMMA TypeStep ==
  ASSUME TypeOK, AtSend, [Next]_vars
  PROVE  TypeOK' /\ AtSend'
<1>1. RowType /\ TickType /\ OtherType
  BY TypeParts
<1>2. RowType' /\ TickType' /\ OtherType' /\ AtSend'
  BY <1>1, RowStep, TickTypeStep, OtherStep
<1>3. TypeOK'
  BY <1>2 DEF TypeOK, RowType, TickType, OtherType
<1> QED BY <1>2, <1>3

-----------------------------------------------------------------------------
(* No send step is dropped                                                 *)

\* Every send step of e before step k has a message.
Covered(e, k) == \A i \in DOMAIN Steps : Steps[i].type = "send" /\ i < k => i \in made[e]

RowCovered == \A e \in Enrollments : Covered(e, step[e])
SnapCovered == \A t \in Ticks, e \in Enrollments : Covered(e, snap[t][e].step)
CursorCovered == \A t \in Ticks : cur[t] # None => Covered(cur[t], wStep[t])
CompletedCovered == \A e \in Enrollments : status[e] = "completed" => Covered(e, Len(Steps) + 1)
CompletesAtEnd == \A t \in Ticks : wStatus[t] = "completed" => tPc[t] = "write" /\ wStep[t] > Len(Steps)

CoverInv == RowCovered /\ SnapCovered /\ CursorCovered /\ CompletedCovered /\ CompletesAtEnd

LEMMA NextPosition ==
  ASSUME NEW e \in Enrollments, NEW k \in DOMAIN Steps, Covered(e, k), Steps[k].type # "send"
  PROVE  Covered(e, k + 1)
  BY StepsFacts DEF Covered

LEMMA BranchPosition ==
  ASSUME BranchesSkipNoSend, NEW e \in Enrollments, NEW k \in DOMAIN Steps, Covered(e, k),
         Steps[k].type = "branch"
  PROVE  Covered(e, Steps[k].goto)
<1>1. Steps[k].goto \in 1..(Len(Steps) + 1) /\ k \in 1..Len(Steps) /\ Len(Steps) \in Nat
  BY StepsFacts DEF Positions
<1> SUFFICES ASSUME NEW i \in DOMAIN Steps, Steps[i].type = "send", i < Steps[k].goto
             PROVE  i \in made[e]
  BY DEF Covered
<1>2. i \in 1..Len(Steps)
  BY StepsFacts
<1>3. CASE i < k
  BY <1>3 DEF Covered
<1>4. CASE i > k
  <2>1. i \in (k + 1)..(Steps[k].goto - 1)
    BY <1>1, <1>2, <1>4
  <2> QED BY <2>1 DEF BranchesSkipNoSend
<1> QED BY <1>1, <1>2, <1>3, <1>4

LEMMA CoverStep ==
  ASSUME TypeOK, AtSend, BranchesSkipNoSend, CoverInv, [Next]_vars
  PROVE  CoverInv'
<1> USE DEF CoverInv
<1>0. RowType /\ TickType /\ OtherType
  BY TypeParts
<1>1. ASSUME made' = made, \A e \in Enrollments : status'[e] = "completed" => status[e] = "completed",
             step' = step
      PROVE RowCovered' /\ CompletedCovered'
  BY <1>1 DEF RowCovered, CompletedCovered, Covered
<1>2. CASE UNCHANGED <<made, step, tickVars>> /\ \A e \in Enrollments : status'[e] = "completed" => status[e] = "completed"
  <2>1. SnapCovered' /\ CursorCovered' /\ CompletesAtEnd'
    BY <1>2 DEF SnapCovered, CursorCovered, CompletesAtEnd, Covered, tickVars, cursorVars
  <2> QED BY <1>1, <1>2, <2>1
<1>3. ASSUME NEW c \in Enrollers, EnrollRead(c) \/ EnrollInsert(c) PROVE CoverInv'
  <2>1. \A e \in Enrollments : status'[e] = "completed" => status[e] = "completed"
    BY <1>0, <1>3 DEF EnrollRead, EnrollInsert, RowType, rowVars
  <2> QED BY <1>2, <1>3, <2>1 DEF EnrollRead, EnrollInsert, rowVars
<1>4. ASSUME NEW ids, Exit(ids), UNCHANGED <<made, tickVars>> PROVE CoverInv'
  <2>1. \A e \in Enrollments : status'[e] = "completed" => status[e] = "completed"
    BY <1>4 DEF Exit
  <2> QED BY <1>2, <1>4, <2>1 DEF Exit
<1>5. CASE Delete
  <2>1. \A e \in Enrollments : status'[e] = "completed" => status[e] = "completed"
    BY <1>5 DEF Delete
  <2> QED BY <1>2, <1>5, <2>1 DEF Delete
<1>6. CASE UNCHANGED <<made, rowVars, tickVars>>
  BY <1>2, <1>6 DEF rowVars
<1>7. ASSUME NEW t \in Ticks, Select(t) PROVE CoverInv'
  <2>1. UNCHANGED <<made, rowVars, cur, cursorVars>> /\ tPc[t] = "idle"
        /\ \A u \in Ticks \ {t} : tPc'[u] = tPc[u]
    BY <1>0, <1>7 DEF Select, Goto, TickType
  <2>2. \A u \in Ticks, e \in Enrollments : snap'[u][e].step \in {snap[u][e].step, step[e], 1}
    <3>1. PICK rows \in SUBSET Due : snap' = [snap EXCEPT ![t] = Read(rows)]
      BY <1>7, SelectTakes
    <3> DEFINE read == Read(rows)
    <3>4. snap' = [snap EXCEPT ![t] = read]
      BY <3>1
    <3>2. \A e \in Enrollments : read[e].step \in {step[e], 1}
      BY DEF Read, Unread
    <3> HIDE DEF read
    <3>3. snap'[t] = read /\ \A u \in Ticks \ {t} : snap'[u] = snap[u]
      BY <1>0, <3>4 DEF TickType
    <3> QED BY <3>2, <3>3
  <2>3. \A e \in Enrollments : Covered(e, 1)
    BY StepsFacts DEF Covered
  <2>4. SnapCovered'
    BY <2>1, <2>2, <2>3 DEF SnapCovered, RowCovered, Covered
  <2>5. CursorCovered' /\ CompletesAtEnd'
    BY <2>1 DEF CursorCovered, CompletesAtEnd, Covered, cursorVars
  <2>6. RowCovered' /\ CompletedCovered'
    BY <1>1, <2>1 DEF rowVars
  <2> QED BY <2>4, <2>5, <2>6
<1>8. ASSUME NEW t \in Ticks, EndTick(t), UNCHANGED <<made, rowVars>>,
             (UNCHANGED <<cur, cursorVars>> /\ tPc[t] # "write") \/ PutDown(t)
      PROVE CoverInv'
  <2>1. snap'[t] = [e \in Enrollments |-> Unread]
        /\ (\A u \in Ticks \ {t} : tPc'[u] = tPc[u] /\ snap'[u] = snap[u])
    BY <1>0, <1>8, EndTickEffect
  <2>2. \A e \in Enrollments : Covered(e, 1)
    BY StepsFacts DEF Covered
  <2>3. SnapCovered'
    BY <1>8, <2>1, <2>2 DEF SnapCovered, Covered, Unread
  <2>4. cur'[t] \in {cur[t], None} /\ wStatus'[t] # "completed"
        /\ \A u \in Ticks \ {t} : cur'[u] = cur[u] /\ wStep'[u] = wStep[u] /\ wStatus'[u] = wStatus[u]
    <3>1. CASE PutDown(t)
      BY <1>0, <3>1, PutDownEffect DEF PutDown, TickType
    <3>2. CASE UNCHANGED <<cur, cursorVars>> /\ tPc[t] # "write"
      BY <3>2 DEF cursorVars, CompletesAtEnd
    <3> QED BY <1>8, <3>1, <3>2
  <2>5. cur'[t] # None => cur'[t] = cur[t] /\ wStep'[t] = wStep[t]
    <3>1. CASE PutDown(t)
      BY <1>0, <3>1, PutDownEffect
    <3>2. CASE UNCHANGED <<cur, cursorVars>>
      BY <3>2 DEF cursorVars
    <3> QED BY <1>8, <3>1, <3>2
  <2>6. CursorCovered' /\ CompletesAtEnd'
    BY <1>8, <2>1, <2>4, <2>5 DEF CursorCovered, CompletesAtEnd, Covered
  <2>7. RowCovered' /\ CompletedCovered'
    BY <1>1, <1>8 DEF rowVars
  <2> QED BY <2>3, <2>6, <2>7
\* A step of advance that writes no row and makes no message.
<1>9. ASSUME NEW t \in Ticks, UNCHANGED <<made, rowVars, snap>>,
             \A u \in Ticks \ {t} : tPc'[u] = tPc[u] /\ cur'[u] = cur[u] /\ wStep'[u] = wStep[u] /\ wStatus'[u] = wStatus[u],
             cur'[t] # None => Covered(cur'[t], wStep'[t]),
             wStatus'[t] = "completed" => tPc'[t] = "write" /\ wStep'[t] > Len(Steps)
      PROVE CoverInv'
  <2>1. RowCovered' /\ CompletedCovered'
    BY <1>1, <1>9 DEF rowVars
  <2>2. SnapCovered' /\ CursorCovered' /\ CompletesAtEnd'
    BY <1>9 DEF SnapCovered, CursorCovered, CompletesAtEnd, Covered
  <2> QED BY <2>1, <2>2
<1>10. ASSUME NEW t \in Ticks, ReadSequence(t) \/ TickEnds(t) PROVE CoverInv'
  <2>1. tPc[t] # "write" /\ UNCHANGED <<made, rowVars, cur, cursorVars>>
    BY <1>10 DEF ReadSequence, TickEnds
  <2>2. CASE EndTick(t)
    BY <1>8, <2>1, <2>2
  <2>3. CASE Goto(t, "next") /\ UNCHANGED <<batch, snap>>
    <3>1. \A u \in Ticks \ {t} : tPc'[u] = tPc[u]
      BY <1>0, <2>3, GotoEffect DEF TickPlaces
    <3> QED BY <1>9, <2>1, <2>3, <3>1 DEF cursorVars, CursorCovered, CompletesAtEnd
  <2> QED BY <1>10, <2>2, <2>3 DEF ReadSequence, TickEnds
<1>11. ASSUME NEW t \in Ticks, Begin(t) PROVE CoverInv'
  <2>1. PICK e \in batch[t] : cur' = [cur EXCEPT ![t] = e] /\ wStep' = [wStep EXCEPT ![t] = snap[t][e].step]
    BY <1>11 DEF Begin
  <2>2. e \in Enrollments
    BY <1>0 DEF TickType
  <2>3. cur'[t] = e /\ wStep'[t] = snap[t][e].step
        /\ \A u \in Ticks \ {t} : tPc'[u] = tPc[u] /\ cur'[u] = cur[u] /\ wStep'[u] = wStep[u]
    BY <1>0, <1>11, <2>1 DEF TickType, Begin, Goto
  <2>4. Covered(e, snap[t][e].step)
    BY <2>2 DEF SnapCovered
  <2>5. tPc[t] = "next" /\ UNCHANGED <<made, rowVars, snap, wStatus>>
    BY <1>11 DEF Begin
  <2>6. wStatus'[t] # "completed"
    BY <2>5 DEF CompletesAtEnd
  <2> QED BY <1>9, <2>3, <2>4, <2>5, <2>6
<1>12. ASSUME NEW t \in Ticks, Complete(t) PROVE CoverInv'
  <2>1. PICK s \in {"active", "completed", "failed"} : Stop(t, s, TRUE) /\ (s = "completed" => Ends(t))
    BY <1>12 DEF Complete
  <2>2. UNCHANGED <<made, rowVars, snap, cur, wStep>>
    BY <1>12 DEF Complete
  <2>3. tPc'[t] = "write" /\ wStatus'[t] = s /\ \A u \in Ticks \ {t} : tPc'[u] = tPc[u] /\ wStatus'[u] = wStatus[u]
    BY <1>0, <2>1, StopEffect
  <2> QED BY <1>9, <2>1, <2>2, <2>3 DEF Ends, CursorCovered
<1>13. ASSUME NEW t \in Ticks, Wait(t) PROVE CoverInv'
  <2>1. tPc[t] = "step" /\ wStep[t] \in DOMAIN Steps /\ Steps[wStep[t]].type = "wait" /\ cur[t] \in Enrollments
    BY <1>0, <1>13, AtTypeFacts DEF Wait, TickType
  <2>2. UNCHANGED <<made, rowVars, snap, cur>> /\ wStep' = [wStep EXCEPT ![t] = @ + 1]
    BY <1>13 DEF Wait, Continue
  <2>3. wStatus'[t] # "completed" /\ \A u \in Ticks \ {t} : tPc'[u] = tPc[u] /\ wStatus'[u] = wStatus[u]
    <3>1. CASE Stop(t, "active", FALSE)
      BY <1>0, <3>1, StopEffect
    <3>2. CASE UNCHANGED <<wStatus, tPc>>
      BY <2>1, <3>2 DEF CompletesAtEnd
    <3> QED BY <1>13, <3>1, <3>2 DEF Wait
  <2>4. wStep'[t] = wStep[t] + 1 /\ \A u \in Ticks \ {t} : wStep'[u] = wStep[u]
    BY <1>0, <2>2 DEF TickType
  <2>5. Covered(cur[t], wStep[t] + 1)
    BY <2>1, NextPosition DEF CursorCovered
  <2> QED BY <1>9, <2>2, <2>3, <2>4, <2>5
<1>14. ASSUME NEW t \in Ticks, Branch(t) PROVE CoverInv'
  <2>1. tPc[t] = "step" /\ iter[t] < MaxIterations /\ wStep[t] \in DOMAIN Steps
        /\ Steps[wStep[t]].type = "branch" /\ cur[t] \in Enrollments
    BY <1>0, <1>14, AtTypeFacts DEF Branch, TickType
  <2>2. UNCHANGED <<made, rowVars, snap, cur>>
    BY <1>14 DEF Branch
  <2>3. Covered(cur[t], wStep[t])
    BY <2>1 DEF CursorCovered
  <2>4. CASE Stop(t, "active", TRUE) /\ UNCHANGED <<wStep, iter>>
    <3>1. wStatus'[t] = "active" /\ \A u \in Ticks \ {t} : tPc'[u] = tPc[u] /\ wStatus'[u] = wStatus[u]
      BY <1>0, <2>4, StopEffect
    <3> QED BY <1>9, <2>2, <2>3, <2>4, <3>1
  <2>5. CASE \E n \in {Steps[wStep[t]].goto, wStep[t] + 1} : Continue(t, n) /\ UNCHANGED <<wStatus, tPc>>
    <3>1. PICK n \in Positions : Continue(t, n) /\ UNCHANGED <<wStatus, tPc>> /\ n \in {Steps[wStep[t]].goto, wStep[t] + 1}
      BY <2>1, <2>5, StepsFacts
    <3>2. Covered(cur[t], n)
      BY <2>1, <2>3, <3>1, NextPosition, BranchPosition
    <3>3. wStep'[t] = n /\ \A u \in Ticks \ {t} : wStep'[u] = wStep[u]
      BY <1>0, <2>1, <3>1, ContinueEffect
    <3>4. wStatus[t] # "completed"
      BY <2>1 DEF CompletesAtEnd
    <3> QED BY <1>9, <2>2, <3>1, <3>2, <3>3, <3>4
  <2> QED BY <1>14, <2>4, <2>5 DEF Branch
<1>15. ASSUME NEW t \in Ticks, ResolveTemplate(t) \/ CheckCapacity(t) PROVE CoverInv'
  <2>1. tPc[t] \in {"step", "capacity"} /\ UNCHANGED <<made, rowVars, snap, cur, wStep>>
    BY <1>15, <1>0, AtTypeFacts DEF ResolveTemplate, CheckCapacity
  <2>2. wStatus'[t] # "completed" /\ \A u \in Ticks \ {t} : tPc'[u] = tPc[u] /\ wStatus'[u] = wStatus[u]
    <3>1. CASE Stop(t, "failed", TRUE) \/ Stop(t, "active", FALSE)
      BY <1>0, <3>1, StopEffect
    <3>2. CASE (Goto(t, "capacity") \/ Goto(t, "send")) /\ UNCHANGED wStatus
      BY <1>0, <2>1, <3>2, GotoEffect DEF CompletesAtEnd, TickPlaces
    <3> QED BY <1>15, <3>1, <3>2 DEF ResolveTemplate, CheckCapacity
  <2> QED BY <1>9, <2>1, <2>2 DEF CursorCovered
<1>16. ASSUME NEW t \in Ticks, Send(t) PROVE CoverInv'
  <2>0. cur[t] \in Enrollments /\ wStep[t] \in DOMAIN Steps /\ tPc[t] = "send"
    BY <1>0, <1>16 DEF Send, TickType, AtSend
  <2> PICK e \in Enrollments : e = cur[t]
    BY <2>0
  <2> PICK k \in DOMAIN Steps : k = wStep[t]
    BY <2>0
  <2>1. k + 1 \in Positions /\ k \in 1..Len(Steps) /\ Len(Steps) \in Nat /\ Len(Steps) + 1 \in Positions
        /\ DOMAIN Steps = 1..Len(Steps)
    BY StepsFacts DEF Positions
  <2>2. made'[e] = made[e] \cup {k} /\ \A d \in Enrollments : made[d] \subseteq made'[d]
    BY <1>0, <1>16 DEF Send, OtherType
  <2>3. \A d \in Enrollments, n \in Positions : Covered(d, n) => \A i \in DOMAIN Steps :
          Steps[i].type = "send" /\ i < n => i \in made'[d]
    BY <2>2 DEF Covered
  <2>4. \A i \in DOMAIN Steps : Steps[i].type = "send" /\ i < k + 1 => i \in made'[e]
    <3>1. Covered(e, k)
      BY DEF CursorCovered
    <3>2. \A i \in DOMAIN Steps : i < k + 1 => i < k \/ i = k
      BY <2>1
    <3> QED BY <2>2, <3>1, <3>2 DEF Covered
  <2>5. UNCHANGED <<rowVars, snap, cur, wStatus>> /\ Continue(t, k + 1) /\ Goto(t, "step")
    BY <1>16 DEF Send
  <2>6. wStep'[t] = k + 1 /\ \A u \in Ticks \ {t} : wStep'[u] = wStep[u]
    BY <1>0, <2>0, <2>1, <2>5 DEF Continue, TickType
  <2>7. \A u \in Ticks \ {t} : tPc'[u] = tPc[u]
    BY <1>0, <2>5, GotoEffect DEF TickPlaces
  <2>8. RowCovered'
    BY <1>0, <2>3, <2>5 DEF RowCovered, RowType, rowVars, Covered
  <2>9. SnapCovered'
    <3>1. \A u \in Ticks, d \in Enrollments : snap[u][d].step \in Positions
      BY <1>0 DEF TickType, Snapshots
    <3> QED BY <2>3, <2>5, <3>1 DEF SnapCovered, Covered
  <2>10. CursorCovered'
    <3> SUFFICES ASSUME NEW u \in Ticks, cur[u] # None, NEW i \in DOMAIN Steps,
                        Steps[i].type = "send", i < wStep'[u]
                 PROVE  i \in made'[cur[u]]
      BY <2>5 DEF CursorCovered, Covered
    <3>1. CASE u = t
      BY <2>4, <2>6, <3>1
    <3>2. CASE u # t
      <4>1. Covered(cur[u], wStep[u]) /\ cur[u] \in Enrollments /\ wStep[u] \in Positions /\ wStep'[u] = wStep[u]
        BY <1>0, <2>6, <3>2 DEF CursorCovered, TickType
      <4> QED BY <2>3, <4>1
    <3> QED BY <3>1, <3>2
  <2>11. CompletedCovered'
    BY <2>1, <2>3, <2>5 DEF CompletedCovered, Covered, rowVars
  <2>12. CompletesAtEnd'
    BY <2>0, <2>5, <2>6, <2>7 DEF CompletesAtEnd
  <2> QED BY <2>8, <2>9, <2>10, <2>11, <2>12
<1>17. ASSUME NEW t \in Ticks, Throw(t) PROVE CoverInv'
  <2>1. PutDown(t) /\ Goto(t, "next") /\ UNCHANGED <<made, rowVars, snap>>
    BY <1>17 DEF Throw
  <2>2. cur'[t] = None /\ wStatus'[t] = "active"
        /\ \A u \in Ticks \ {t} : cur'[u] = cur[u] /\ wStep'[u] = wStep[u] /\ wStatus'[u] = wStatus[u]
    BY <1>0, <2>1, PutDownEffect DEF PutDown, TickType
  <2>3. \A u \in Ticks \ {t} : tPc'[u] = tPc[u]
    BY <1>0, <2>1, GotoEffect DEF TickPlaces
  <2> QED BY <1>9, <2>1, <2>2, <2>3
<1>18. ASSUME NEW t \in Ticks, Crash(t) PROVE CoverInv'
  BY <1>8, <1>18 DEF Crash
<1>19. ASSUME NEW t \in Ticks, Write(t) PROVE CoverInv'
  <2>0. cur[t] \in Enrollments
    BY <1>0, <1>19 DEF Write, TickType
  <2> PICK e \in Enrollments : e = cur[t]
    BY <2>0
  <2>1. Covered(e, wStep[t]) /\ tPc[t] = "write"
    BY <1>0, <1>19 DEF Write, TickType, CursorCovered
  <2>2. PutDown(t) /\ Goto(t, "next") /\ UNCHANGED <<made, snap>>
    BY <1>19 DEF Write
  <2>3. cur'[t] = None /\ wStatus'[t] = "active"
        /\ \A u \in Ticks \ {t} : cur'[u] = cur[u] /\ wStep'[u] = wStep[u] /\ wStatus'[u] = wStatus[u]
    BY <1>0, <2>2, PutDownEffect DEF PutDown, TickType
  <2>4. \A u \in Ticks \ {t} : tPc'[u] = tPc[u]
    BY <1>0, <2>2, GotoEffect DEF TickPlaces
  <2>5. SnapCovered' /\ CursorCovered' /\ CompletesAtEnd'
    BY <2>2, <2>3, <2>4 DEF SnapCovered, CursorCovered, CompletesAtEnd, Covered
  <2>6. \A d \in Enrollments : (step'[d] = step[d] /\ status'[d] = status[d])
                              \/ (d = e /\ step'[d] = wStep[t] /\ status'[d] = wStatus[t])
    BY <1>0, <1>19, <2>1 DEF Write, RowType, rowVars
  <2>7. RowCovered'
    <3> SUFFICES ASSUME NEW d \in Enrollments, NEW i \in DOMAIN Steps, Steps[i].type = "send", i < step'[d]
                 PROVE  i \in made'[d]
      BY DEF RowCovered, Covered
    <3>1. CASE step'[d] = step[d]
      BY <2>2, <3>1 DEF RowCovered, Covered
    <3>2. CASE d = e /\ step'[d] = wStep[t]
      BY <2>1, <2>2, <3>2 DEF Covered
    <3> QED BY <2>6, <3>1, <3>2
  <2>8. wStatus[t] = "completed" => Covered(e, Len(Steps) + 1)
    <3>1. wStatus[t] = "completed" => wStep[t] > Len(Steps)
      BY DEF CompletesAtEnd
    <3>2. wStep[t] > Len(Steps) => \A i \in DOMAIN Steps : i < wStep[t]
      BY <1>0, StepsFacts DEF TickType, Positions
    <3> QED BY <2>1, <3>1, <3>2 DEF Covered
  <2>9. CompletedCovered'
    BY <2>1, <2>2, <2>6, <2>8 DEF CompletedCovered, Covered
  <2> QED BY <2>5, <2>7, <2>9
<1>20. [Next]_vars => \/ \E c \in Enrollers : EnrollRead(c) \/ EnrollInsert(c)
                      \/ \E ids : Exit(ids) /\ UNCHANGED <<made, tickVars>>
                      \/ Delete \/ UNCHANGED <<made, rowVars, tickVars>>
                      \/ \E e \in Enrollments : ComesDue(e)
                      \/ \E t \in Ticks : Select(t) \/ TickStep(t) \/ Throw(t) \/ Crash(t)
  BY DEF Next, Leave, ExitRead, ExitWrite, Cancel, Pause, Resume, Crowd, vars
<1>21. ASSUME NEW e \in Enrollments, ComesDue(e) PROVE CoverInv'
  BY <1>2, <1>21 DEF ComesDue
<1> QED BY <1>3, <1>4, <1>5, <1>6, <1>7, <1>10, <1>11, <1>12, <1>13, <1>14, <1>15, <1>16, <1>17, <1>18, <1>19, <1>20, <1>21
        DEF TickStep

-----------------------------------------------------------------------------
(* Exits hold                                                              *)

\* A row exited with no tick at work on it is in no tick's hands, and
\* nobody makes it active again.
FirmInv ==
  \A e \in firm : /\ ~Held(e)
                  /\ status[e] = "exited" \/ (seq = "deleted" /\ status[e] = "absent")

\* A tick takes a row in hand only when it is active.
LEMMA HeldStep ==
  ASSUME TypeOK, [Next]_vars, NEW e \in Enrollments, Held(e)', ~Held(e)
  PROVE  status[e] = "active"
<1>0. TickType
  BY TypeParts
<1>1. ASSUME NEW t \in Ticks, batch'[t] \subseteq batch[t], cur'[t] \in batch[t] \cup {cur[t], None},
             \A u \in Ticks \ {t} : batch'[u] = batch[u] /\ cur'[u] = cur[u]
      PROVE FALSE
  <2>1. PICK u \in Ticks : e \in batch'[u] \/ cur'[u] = e
    BY DEF Held
  <2> QED BY <1>1, <2>1 DEF Held
<1>2. ASSUME UNCHANGED <<batch, cur>> PROVE FALSE
  BY <1>2 DEF Held
<1>3. ASSUME NEW t \in Ticks, Select(t) PROVE status[e] = "active"
  <2>1. PICK rows \in SUBSET Due : batch' = [batch EXCEPT ![t] = rows]
    BY <1>3, SelectTakes
  <2>2. cur' = cur
    BY <1>3 DEF Select
  <2>3. e \in Due
    BY <1>0, <2>1, <2>2 DEF Held, TickType
  <2> QED BY <2>3 DEF Due, ActiveRows
<1>4. ASSUME NEW t \in Ticks, Begin(t) PROVE FALSE
  <2>1. PICK d \in batch[t] : batch' = [batch EXCEPT ![t] = @ \ {d}] /\ cur' = [cur EXCEPT ![t] = d]
    BY <1>4 DEF Begin
  <2> QED BY <1>0, <1>1, <2>1 DEF TickType
<1>5. ASSUME NEW t \in Ticks, EndTick(t), cur' = cur \/ PutDown(t) PROVE FALSE
  <2>1. batch' = [batch EXCEPT ![t] = {}] /\ (cur' = cur \/ cur' = [cur EXCEPT ![t] = None])
    BY <1>5 DEF EndTick, PutDown
  <2> QED BY <1>0, <1>1, <2>1 DEF TickType
<1>6. ASSUME NEW t \in Ticks, PutDown(t), batch' = batch PROVE FALSE
  <2>1. cur' = [cur EXCEPT ![t] = None]
    BY <1>6 DEF PutDown
  <2> QED BY <1>0, <1>1, <1>6, <2>1 DEF TickType
<1>7. ASSUME NEW t \in Ticks, TickStep(t) \/ Throw(t) \/ Crash(t) PROVE FALSE
  <2>1. CASE ReadSequence(t) \/ TickEnds(t) \/ Crash(t)
    <3>1. UNCHANGED <<batch, cur>> \/ (EndTick(t) /\ (cur' = cur \/ PutDown(t)))
      BY <2>1 DEF ReadSequence, TickEnds, Crash
    <3> QED BY <1>2, <1>5, <3>1
  <2>2. CASE Write(t) \/ Throw(t)
    BY <1>6, <2>2 DEF Write, Throw
  <2>3. CASE Complete(t) \/ Wait(t) \/ Branch(t) \/ ResolveTemplate(t) \/ CheckCapacity(t) \/ Send(t)
    <3>1. UNCHANGED <<batch, cur>>
      BY <2>3 DEF Complete, Wait, Branch, ResolveTemplate, CheckCapacity, Send
    <3> QED BY <1>2, <3>1
  <2> QED BY <1>4, <1>7, <2>1, <2>2, <2>3 DEF TickStep
<1>8. CASE UNCHANGED tickVars
  BY <1>2, <1>8 DEF tickVars
<1>9. [Next]_vars => UNCHANGED tickVars \/ \E t \in Ticks : Select(t) \/ TickStep(t) \/ Throw(t) \/ Crash(t)
  BY DEF Next, vars, EnrollRead, EnrollInsert, Leave, ExitRead, ExitWrite, Cancel, ComesDue, Pause, Resume, Crowd, Delete
<1> QED BY <1>3, <1>7, <1>8, <1>9

\* What no tick holds, only an exit, an enrolment or a delete changes.
LEMMA UnheldStep ==
  ASSUME TypeOK, [Next]_vars, NEW e \in Enrollments, ~Held(e)
  PROVE  /\ sent'[e] = sent[e]
         /\ \/ status'[e] = status[e]
            \/ status[e] # "absent" /\ status'[e] = "exited"
            \/ seq # "deleted" /\ status[e] = "absent"
            \/ seq' = "deleted" /\ status'[e] = "absent"
<1>0. RowType /\ OtherType
  BY TypeParts
<1>1. CASE UNCHANGED <<sent, status>>
  BY <1>1
<1>2. ASSUME NEW c \in Enrollers, EnrollInsert(c)
      PROVE  sent' = sent /\ (status'[e] = status[e] \/ (seq # "deleted" /\ status[e] = "absent"))
  <2>0. sent' = sent
    BY <1>2 DEF EnrollInsert
  <2>1. CASE seq = "deleted"
    <3>1. status' = status
      BY <1>2, <2>1 DEF EnrollInsert, rowVars
    <3> QED BY <2>0, <3>1
  <2>2. CASE seq # "deleted"
    <3>1. PICK d \in Enrollments : status[d] = "absent" /\ status' = [status EXCEPT ![d] = "active"]
      BY <1>2, <2>2 DEF EnrollInsert
    <3>2. CASE d = e
      BY <2>0, <2>2, <3>1, <3>2
    <3>3. CASE d # e
      BY <1>0, <2>0, <3>1, <3>3 DEF RowType
    <3> QED BY <3>2, <3>3
  <2> QED BY <2>1, <2>2
<1>3. ASSUME NEW ids, Exit(ids), sent' = sent
      PROVE  status'[e] = status[e] \/ (status[e] # "absent" /\ status'[e] = "exited")
  BY <1>3 DEF Exit
<1>4. CASE Delete
  BY <1>4 DEF Delete
<1>5. ASSUME NEW t \in Ticks, Send(t) PROVE sent'[e] = sent[e] /\ status' = status
  <2>1. cur[t] # e
    BY DEF Held
  <2> QED BY <1>0, <1>5, <2>1 DEF Send, OtherType, rowVars
<1>6. ASSUME NEW t \in Ticks, Write(t) PROVE sent' = sent /\ status'[e] = status[e]
  <2>1. cur[t] # e
    BY DEF Held
  <2> QED BY <1>0, <1>6, <2>1 DEF Write, RowType, rowVars
<1>7. ASSUME NEW t \in Ticks, Select(t) \/ TickStep(t) \/ Throw(t) \/ Crash(t)
      PROVE  sent'[e] = sent[e] /\ status'[e] = status[e]
  <2>1. CASE Select(t) \/ Throw(t) \/ Crash(t)
    BY <2>1 DEF Select, Throw, Crash, rowVars
  <2>2. CASE ReadSequence(t) \/ Begin(t) \/ TickEnds(t) \/ Complete(t) \/ Wait(t) \/ Branch(t)
    BY <2>2 DEF ReadSequence, Begin, TickEnds, Complete, Wait, Branch, rowVars
  <2>3. CASE ResolveTemplate(t) \/ CheckCapacity(t)
    BY <2>3 DEF ResolveTemplate, CheckCapacity, rowVars
  <2> QED BY <1>5, <1>6, <1>7, <2>1, <2>2, <2>3 DEF TickStep
<1>8. [Next]_vars => \/ UNCHANGED <<sent, status>> \/ \E c \in Enrollers : EnrollInsert(c)
                     \/ \E ids : Exit(ids) /\ sent' = sent
                     \/ Delete
                     \/ \E t \in Ticks : Select(t) \/ TickStep(t) \/ Throw(t) \/ Crash(t)
  BY DEF Next, vars, rowVars, EnrollRead, Leave, ExitRead, ExitWrite, Cancel, ComesDue, Pause, Resume, Crowd
<1> QED BY <1>1, <1>2, <1>3, <1>4, <1>7, <1>8

LEMMA SeqStep == ASSUME [Next]_vars, seq = "deleted" PROVE seq' = "deleted"
<1>1. ASSUME NEW t \in Ticks, Select(t) \/ TickStep(t) \/ Throw(t) \/ Crash(t) PROVE seq' = seq
  BY <1>1 DEF Select, TickStep, Throw, Crash, ReadSequence, Begin, TickEnds, Complete, Wait, Branch,
              ResolveTemplate, CheckCapacity, Send, Write
<1> QED BY <1>1 DEF Next, vars, EnrollRead, EnrollInsert, Leave, ExitRead, ExitWrite, Cancel, ComesDue,
                    Pause, Resume, Crowd, Delete

LEMMA FirmStep ==
  ASSUME TypeOK, FirmInv, [Next]_vars
  PROVE  FirmInv' /\ ExitKept
<1>0. firm \subseteq Enrollments
  BY DEF TypeOK
<1>1. ASSUME NEW e \in firm PROVE ~Held(e)' /\ sent'[e] = sent[e]
             /\ (status'[e] = "exited" \/ (seq' = "deleted" /\ status'[e] = "absent"))
  <2>1. ~Held(e) /\ (status[e] = "exited" \/ (seq = "deleted" /\ status[e] = "absent")) /\ e \in Enrollments
    BY <1>0 DEF FirmInv
  <2> QED BY <2>1, HeldStep, UnheldStep, SeqStep
<1>2. ASSUME NEW ids \in SUBSET Enrollments, Exit(ids), UNCHANGED tickVars, NEW e \in firm', e \notin firm
      PROVE  ~Held(e)' /\ status'[e] = "exited"
  <2>1. e \in ids /\ status[e] # "absent" /\ ~Held(e)
    BY <1>2 DEF Exit
  <2>2. ~Held(e)'
    BY <1>2, <2>1 DEF Held, tickVars
  <2> QED BY <1>2, <2>1, <2>2 DEF Exit
<1>3. [Next]_vars => firm' = firm \/ \E ids \in SUBSET Enrollments : Exit(ids) /\ UNCHANGED tickVars
  <2>1. ASSUME NEW t \in Ticks, Select(t) \/ TickStep(t) \/ Throw(t) \/ Crash(t) PROVE firm' = firm
    BY <2>1 DEF Select, TickStep, Throw, Crash, ReadSequence, Begin, TickEnds, Complete, Wait, Branch,
                ResolveTemplate, CheckCapacity, Send, Write
  <2>2. exitIds \in SUBSET Enrollments /\ \A e \in Enrollments : {e} \in SUBSET Enrollments
    BY DEF TypeOK
  <2> QED BY <2>1, <2>2 DEF Next, vars, EnrollRead, EnrollInsert, Leave, ExitRead, ExitWrite, Cancel,
                            ComesDue, Pause, Resume, Crowd, Delete
<1>4. FirmInv'
  BY <1>1, <1>2, <1>3 DEF FirmInv
<1>5. ExitKept
  BY <1>1 DEF ExitKept
<1> QED BY <1>4, <1>5

-----------------------------------------------------------------------------
(* No step is repeated without a fault                                     *)

\* An idle tick holds nothing, no row is held twice by one tick, and what
\* is held has a row until the sequence is deleted.
HandInv ==
  /\ \A t \in Ticks : (tPc[t] = "idle" => batch[t] = {}) /\ cur[t] \notin batch[t]
  /\ \A e \in Enrollments : Held(e) => status[e] # "absent" \/ seq = "deleted"
  /\ seq = "deleted" => \A e \in Enrollments : status[e] = "absent"

\* May t still send step i of e from what it has in hand?
MaySend(t, e, i) ==
  \/ cur[t] = e /\ wStep[t] <= i
  \/ e \in batch[t] /\ snap[t][e].step <= i
Senders(e, i) == {t \in Ticks : MaySend(t, e, i)}

\* Past the read of the sequence a tick writes every row of its batch.
WillWrite(t, e) == tPc[t] # "sequence" /\ (cur[t] = e \/ e \in batch[t])
RowStands(e, i) == seq # "deleted" /\ step[e] <= i

\* A row that stands at or before step i counts as one sender more, unless
\* a tick is going to overwrite it.
RepeatsCounted(e, i) ==
  /\ IsFiniteSet(Senders(e, i))
  /\ sent[e][i] + Cardinality(Senders(e, i)) <= 1 + faults
  /\ (\A t \in Ticks : ~WillWrite(t, e)) /\ RowStands(e, i) => sent[e][i] <= faults

RepeatInv == \A e \in Enrollments, i \in DOMAIN Steps : RepeatsCounted(e, i)

LEMMA OthersKept ==
  ASSUME TickType, NEW t \in Ticks, Select(t) \/ TickStep(t) \/ Throw(t) \/ Crash(t)
  PROVE  \A u \in Ticks \ {t} : /\ tPc'[u] = tPc[u] /\ batch'[u] = batch[u] /\ snap'[u] = snap[u]
                                /\ cur'[u] = cur[u] /\ wStep'[u] = wStep[u]
<1>1. CASE Select(t)
  BY <1>1 DEF Select, Goto, TickType, cursorVars
<1>2. CASE ReadSequence(t) \/ Begin(t) \/ TickEnds(t)
  BY <1>2 DEF ReadSequence, Begin, TickEnds, EndTick, Goto, TickType, cursorVars
<1>3. CASE Complete(t) \/ Wait(t) \/ Branch(t)
  BY <1>3 DEF Complete, Wait, Branch, Stop, Continue, Goto, TickType
<1>4. CASE ResolveTemplate(t) \/ CheckCapacity(t) \/ Send(t)
  BY <1>4 DEF ResolveTemplate, CheckCapacity, Send, Stop, Continue, Goto, TickType
<1>5. CASE Write(t) \/ Throw(t)
  BY <1>5 DEF Write, Throw, PutDown, Goto, TickType
<1>6. CASE Crash(t)
  BY <1>6 DEF Crash, PutDown, EndTick, Goto, TickType
<1> QED BY <1>1, <1>2, <1>3, <1>4, <1>5, <1>6 DEF TickStep

LEMMA HandStep ==
  ASSUME TypeOK, HandInv, [Next]_vars
  PROVE  HandInv'
<1>0. RowType /\ TickType
  BY TypeParts
<1>1. ASSUME NEW e \in Enrollments, Held(e)', status'[e] = "absent" PROVE seq' = "deleted"
  <2>1. CASE seq = "deleted"
    BY <2>1, SeqStep
  <2>2. CASE seq # "deleted"
    <3>1. status[e] # "absent"
      BY <1>1, <2>2, HeldStep DEF HandInv
    <3>2. CASE ~Held(e)
      BY <1>1, <3>1, <3>2, UnheldStep
    <3>3. ASSUME NEW t \in Ticks, Write(t) PROVE FALSE
      <4>1. wStatus[t] # "absent"
        BY <1>0 DEF TickType
      <4> QED BY <1>0, <1>1, <3>1, <3>3, <4>1 DEF Write, RowType, rowVars
    <3>4. ASSUME NEW t \in Ticks, Select(t) \/ TickStep(t) \/ Throw(t) \/ Crash(t), ~Write(t) PROVE FALSE
      <4>1. status' = status
        BY <3>4 DEF Select, TickStep, Throw, Crash, ReadSequence, Begin, TickEnds, Complete, Wait, Branch,
                    ResolveTemplate, CheckCapacity, Send, rowVars
      <4> QED BY <1>1, <3>1, <4>1
    <3>5. ASSUME NEW ids, Exit(ids) PROVE FALSE
      BY <1>1, <3>1, <3>5 DEF Exit
    <3>6. ASSUME NEW c \in Enrollers, EnrollInsert(c) PROVE FALSE
      BY <1>0, <1>1, <3>1, <3>6 DEF EnrollInsert, RowType, rowVars
    <3>7. [Next]_vars => \/ \E t \in Ticks : Select(t) \/ TickStep(t) \/ Throw(t) \/ Crash(t)
                         \/ \E ids : Exit(ids)
                         \/ Delete \/ status' = status \/ \E c \in Enrollers : EnrollInsert(c)
      BY DEF Next, vars, rowVars, EnrollRead, Leave, ExitRead, ExitWrite, Cancel, ComesDue, Pause, Resume, Crowd
    <3> QED BY <1>1, <3>1, <3>3, <3>4, <3>5, <3>6, <3>7 DEF Delete
  <2> QED BY <2>1, <2>2
<1>2. ASSUME seq' = "deleted" PROVE \A e \in Enrollments : status'[e] = "absent"
  <2>1. CASE Delete
    BY <2>1 DEF Delete
  <2>2. CASE seq = "deleted"
    <3>1. status' = status \/ Delete \/ \E ids : Exit(ids) \/ \E t \in Ticks : Write(t)
      BY <2>2 DEF Next, vars, rowVars, EnrollRead, EnrollInsert, Leave, ExitRead, ExitWrite, Cancel, ComesDue,
                  Pause, Resume, Crowd, Select, TickStep, ReadSequence, Begin, TickEnds, Complete, Wait, Branch,
                  ResolveTemplate, CheckCapacity, Send, Throw, Crash
    <3>2. ASSUME NEW ids, Exit(ids) PROVE \A e \in Enrollments : status'[e] = "absent"
      BY <2>2, <3>2 DEF Exit, HandInv
    <3>3. ASSUME NEW t \in Ticks, Write(t) PROVE \A e \in Enrollments : status'[e] = "absent"
      <4>1. cur[t] \in Enrollments
        BY <1>0, <3>3 DEF Write, TickType
      <4> QED BY <2>2, <3>3, <4>1 DEF Write, HandInv, rowVars
    <3> QED BY <2>1, <2>2, <3>1, <3>2, <3>3 DEF HandInv
  <2>3. seq = "deleted" \/ Delete
    <3>1. ASSUME NEW t \in Ticks, Select(t) \/ TickStep(t) \/ Throw(t) \/ Crash(t) PROVE seq' = seq
      BY <3>1 DEF Select, TickStep, Throw, Crash, ReadSequence, Begin, TickEnds, Complete, Wait, Branch,
                  ResolveTemplate, CheckCapacity, Send, Write
    <3> QED BY <1>2, <3>1 DEF Next, vars, EnrollRead, EnrollInsert, Leave, ExitRead, ExitWrite, Cancel, ComesDue,
                              Pause, Resume, Crowd
  <2> QED BY <2>1, <2>2, <2>3
<1>3. ASSUME NEW u \in Ticks PROVE (tPc'[u] = "idle" => batch'[u] = {}) /\ cur'[u] \notin batch'[u]
  <2>0. (tPc[u] = "idle" => batch[u] = {}) /\ cur[u] \notin batch[u] /\ batch[u] \subseteq Enrollments
    BY <1>0 DEF HandInv, TickType
  <2>1. CASE UNCHANGED tickVars
    BY <2>0, <2>1 DEF tickVars
  <2>2. CASE Select(u)
    <3>1. cur[u] = None /\ batch'[u] \subseteq Enrollments /\ tPc'[u] = "sequence" /\ cur' = cur
      BY <1>0, <2>2, SelectType DEF Select, Goto, TickType
    <3> QED BY <3>1
  <2>3. CASE ReadSequence(u) \/ TickEnds(u) \/ Crash(u)
    <3>1. CASE EndTick(u)
      BY <1>0, <3>1, EndTickEffect
    <3>2. CASE ReadSequence(u) /\ Goto(u, "next") /\ UNCHANGED <<batch, cur>>
      BY <1>0, <2>0, <3>2, GotoEffect DEF TickPlaces
    <3> QED BY <2>3, <3>1, <3>2 DEF ReadSequence, TickEnds, Crash
  <2>4. CASE Begin(u)
    BY <1>0, <2>0, <2>4 DEF Begin, Goto, TickType
  <2>5. CASE Complete(u) \/ Wait(u) \/ Branch(u) \/ ResolveTemplate(u) \/ CheckCapacity(u) \/ Send(u)
    <3>1. UNCHANGED <<batch, cur>>
      BY <2>5 DEF Complete, Wait, Branch, ResolveTemplate, CheckCapacity, Send
    <3>2. tPc'[u] # "idle"
      BY <1>0, <2>5 DEF Complete, Wait, Branch, ResolveTemplate, CheckCapacity, Send, AtType, Stop, Goto, TickType
    <3> QED BY <2>0, <3>1, <3>2
  <2>6. CASE Write(u) \/ Throw(u)
    <3>1. PutDown(u) /\ Goto(u, "next") /\ batch' = batch
      BY <2>6 DEF Write, Throw
    <3>2. cur'[u] = None /\ tPc'[u] = "next"
      BY <1>0, <3>1, PutDownEffect, GotoEffect DEF TickPlaces
    <3> QED BY <2>0, <3>1, <3>2
  <2>7. ASSUME NEW t \in Ticks, t # u, Select(t) \/ TickStep(t) \/ Throw(t) \/ Crash(t)
        PROVE  (tPc'[u] = "idle" => batch'[u] = {}) /\ cur'[u] \notin batch'[u]
    BY <1>0, <2>0, <2>7, OthersKept
  <2>8. [Next]_vars => UNCHANGED tickVars \/ \E t \in Ticks : Select(t) \/ TickStep(t) \/ Throw(t) \/ Crash(t)
    BY DEF Next, vars, EnrollRead, EnrollInsert, Leave, ExitRead, ExitWrite, Cancel, ComesDue, Pause, Resume, Crowd, Delete
  <2> QED BY <2>1, <2>2, <2>3, <2>4, <2>5, <2>6, <2>7, <2>8 DEF TickStep
<1> QED BY <1>1, <1>2, <1>3 DEF HandInv

LEMMA Fewer ==
  ASSUME NEW S, NEW T, IsFiniteSet(T), S \subseteq T
  PROVE  IsFiniteSet(S) /\ Cardinality(S) \in Nat /\ Cardinality(T) \in Nat /\ Cardinality(S) <= Cardinality(T)
  BY FS_Subset, FS_CardinalityType

LEMMA OneOut ==
  ASSUME NEW T, IsFiniteSet(T), NEW x \in T, NEW S, S \subseteq T \ {x}
  PROVE  IsFiniteSet(S) /\ Cardinality(S) \in Nat /\ Cardinality(T) \in Nat /\ Cardinality(S) + 1 <= Cardinality(T)
<1>1. IsFiniteSet(T \ {x}) /\ Cardinality(T \ {x}) = Cardinality(T) - 1
  BY FS_RemoveElement
<1>2. IsFiniteSet(S) /\ Cardinality(S) \in Nat /\ Cardinality(T \ {x}) \in Nat /\ Cardinality(S) <= Cardinality(T \ {x})
  BY <1>1, Fewer
<1>3. Cardinality(T) \in Nat
  BY FS_CardinalityType
<1> QED BY <1>1, <1>2, <1>3

LEMMA OneIn ==
  ASSUME NEW T, IsFiniteSet(T), NEW x, NEW S, S \subseteq T \cup {x}
  PROVE  IsFiniteSet(S) /\ Cardinality(S) \in Nat /\ Cardinality(T) \in Nat /\ Cardinality(S) <= Cardinality(T) + 1
<1>1. IsFiniteSet(T \cup {x}) /\ Cardinality(T) \in Nat /\ Cardinality(T \cup {x}) <= Cardinality(T) + 1
  <2>1. Cardinality(T) \in Nat
    BY FS_CardinalityType
  <2>2. IsFiniteSet(T \cup {x}) /\ (Cardinality(T \cup {x}) = Cardinality(T) \/ Cardinality(T \cup {x}) = Cardinality(T) + 1)
    BY FS_AddElement
  <2> QED BY <2>1, <2>2
<1>2. IsFiniteSet(S) /\ Cardinality(S) \in Nat /\ Cardinality(T \cup {x}) \in Nat /\ Cardinality(S) <= Cardinality(T \cup {x})
  BY <1>1, Fewer
<1> QED BY <1>1, <1>2

\* No more may send the step, and no row comes to stand before it.
LEMMA CountKept ==
  ASSUME TypeOK, TypeOK', NEW e \in Enrollments, NEW i \in DOMAIN Steps, RepeatsCounted(e, i),
         \A t \in Ticks : MaySend(t, e, i)' => MaySend(t, e, i),
         \A t \in Ticks : WillWrite(t, e) => WillWrite(t, e)',
         RowStands(e, i)' => RowStands(e, i),
         sent'[e][i] = sent[e][i], faults <= faults'
  PROVE  RepeatsCounted(e, i)'
<1>1. Senders(e, i)' \subseteq Senders(e, i)
  BY DEF Senders
<1>2. IsFiniteSet(Senders(e, i)') /\ Cardinality(Senders(e, i)') \in Nat /\ Cardinality(Senders(e, i)) \in Nat
      /\ Cardinality(Senders(e, i)') <= Cardinality(Senders(e, i))
  BY <1>1, Fewer DEF RepeatsCounted
<1>3. sent[e][i] \in Nat /\ faults \in Nat /\ faults' \in Nat
  BY DEF TypeOK
<1>4. sent'[e][i] + Cardinality(Senders(e, i)') <= 1 + faults'
  BY <1>2, <1>3 DEF RepeatsCounted
<1>5. (\A t \in Ticks : ~WillWrite(t, e)') /\ RowStands(e, i)' => sent'[e][i] <= faults'
  BY <1>3 DEF RepeatsCounted
<1> QED BY <1>2, <1>4, <1>5 DEF RepeatsCounted

\* A fault pays for one sender more, and for a row that is not overwritten.
LEMMA CountPaid ==
  ASSUME TypeOK, NEW e \in Enrollments, NEW i \in DOMAIN Steps, RepeatsCounted(e, i),
         NEW t \in Ticks, Senders(e, i)' \subseteq Senders(e, i) \cup {t},
         sent'[e][i] = sent[e][i], faults' = faults + 1
  PROVE  RepeatsCounted(e, i)'
<1>1. IsFiniteSet(Senders(e, i)') /\ Cardinality(Senders(e, i)') \in Nat /\ Cardinality(Senders(e, i)) \in Nat
      /\ Cardinality(Senders(e, i)') <= Cardinality(Senders(e, i)) + 1
  BY OneIn DEF RepeatsCounted
<1>2. sent[e][i] \in Nat /\ faults \in Nat
  BY DEF TypeOK
<1>3. sent'[e][i] + Cardinality(Senders(e, i)') <= 1 + faults'
  BY <1>1, <1>2 DEF RepeatsCounted
<1>4. sent'[e][i] <= faults'
  BY <1>1, <1>2 DEF RepeatsCounted
<1> QED BY <1>1, <1>3, <1>4 DEF RepeatsCounted

\* The same for a step of one tick.
LEMMA TickCountKept ==
  ASSUME TypeOK, TypeOK', NEW e \in Enrollments, NEW i \in DOMAIN Steps, RepeatsCounted(e, i),
         NEW t \in Ticks, Select(t) \/ TickStep(t) \/ Throw(t) \/ Crash(t),
         MaySend(t, e, i)' => MaySend(t, e, i),
         WillWrite(t, e) => WillWrite(t, e)',
         RowStands(e, i)' => RowStands(e, i),
         sent'[e][i] = sent[e][i], faults <= faults'
  PROVE  RepeatsCounted(e, i)'
<1>1. \A u \in Ticks \ {t} : /\ tPc'[u] = tPc[u] /\ batch'[u] = batch[u] /\ snap'[u] = snap[u]
                             /\ cur'[u] = cur[u] /\ wStep'[u] = wStep[u]
  BY OthersKept, TypeParts
<1>2. \A u \in Ticks \ {t} : (MaySend(u, e, i)' <=> MaySend(u, e, i)) /\ (WillWrite(u, e)' <=> WillWrite(u, e))
  BY <1>1 DEF MaySend, WillWrite
<1>3. (\A u \in Ticks : MaySend(u, e, i)' => MaySend(u, e, i)) /\ (\A u \in Ticks : WillWrite(u, e) => WillWrite(u, e)')
  BY <1>2
<1> QED BY <1>3, CountKept

\* What a tick holds was counted when it took it: the next place in the
\* loop, or the row it begins with, adds no sender.
LEMMA AdvanceCount ==
  ASSUME TypeOK, AtSend, TypeOK', HandInv, BranchesGoForward,
         NEW e \in Enrollments, NEW i \in DOMAIN Steps, RepeatsCounted(e, i), NEW t \in Ticks,
         ReadSequence(t) \/ TickEnds(t) \/ Begin(t) \/ Complete(t) \/ Wait(t) \/ Branch(t)
         \/ ResolveTemplate(t) \/ CheckCapacity(t)
  PROVE  RepeatsCounted(e, i)'
<1>0. TickType /\ faults \in Nat /\ i \in Nat /\ \A u \in Ticks : wStep[u] \in Nat
  <2>1. TickType /\ OtherType
    BY TypeParts
  <2>2. i \in Nat /\ \A n \in Positions : n \in Nat
    BY StepsFacts DEF Positions
  <2> QED BY <2>1, <2>2 DEF TickType, OtherType
<1>1. sent' = sent /\ faults' = faults /\ (RowStands(e, i)' => RowStands(e, i))
  BY DEF ReadSequence, TickEnds, Begin, Complete, Wait, Branch, ResolveTemplate, CheckCapacity, RowStands, rowVars
<1>2. TickStep(t)
  BY DEF TickStep
<1>3. SUFFICES (MaySend(t, e, i)' => MaySend(t, e, i)) /\ (WillWrite(t, e) => WillWrite(t, e)')
  BY <1>0, <1>1, <1>2, TickCountKept
<1>4. CASE ReadSequence(t) \/ TickEnds(t)
  <2>1. cur[t] = None /\ UNCHANGED <<cur, wStep>> /\ (tPc[t] = "next" => batch[t] = {}) /\ tPc[t] \in {"next", "sequence"}
    BY <1>0, <1>4 DEF ReadSequence, TickEnds, TickType, cursorVars
  <2>2. CASE EndTick(t)
    <3>1. batch'[t] = {}
      BY <1>0, <2>2, EndTickEffect
    <3> QED BY <2>1, <3>1 DEF MaySend, WillWrite
  <2>3. CASE UNCHANGED <<batch, snap>> /\ tPc[t] = "sequence"
    BY <2>1, <2>3 DEF MaySend, WillWrite
  <2> QED BY <1>4, <2>2, <2>3 DEF ReadSequence, TickEnds
<1>5. CASE Begin(t)
  <2>1. PICK d \in batch[t] :
          /\ batch' = [batch EXCEPT ![t] = @ \ {d}] /\ cur' = [cur EXCEPT ![t] = d]
          /\ wStep' = [wStep EXCEPT ![t] = snap[t][d].step]
    BY <1>5 DEF Begin
  <2>2. batch'[t] = batch[t] \ {d} /\ cur'[t] = d /\ wStep'[t] = snap[t][d].step /\ snap' = snap
    BY <1>0, <1>5, <2>1 DEF Begin, TickType
  <2>3. cur[t] = None /\ tPc'[t] = "step"
    BY <1>0, <1>5 DEF Begin, Goto, TickType
  <2>4. MaySend(t, e, i)' => MaySend(t, e, i)
    BY <2>2 DEF MaySend
  <2>5. WillWrite(t, e) => WillWrite(t, e)'
    BY <2>2, <2>3 DEF WillWrite
  <2> QED BY <2>4, <2>5
<1>6. CASE Complete(t) \/ Wait(t) \/ Branch(t) \/ ResolveTemplate(t) \/ CheckCapacity(t)
  <2>1. UNCHANGED <<batch, snap, cur>> /\ tPc'[t] # "sequence"
    BY <1>0, <1>6 DEF Complete, Wait, Branch, ResolveTemplate, CheckCapacity, AtType, Stop, Goto, TickType
  <2>2. wStep'[t] \in Nat /\ wStep[t] <= wStep'[t]
    <3>1. CASE Complete(t) \/ ResolveTemplate(t) \/ CheckCapacity(t)
      <4>1. wStep' = wStep
        BY <3>1 DEF Complete, ResolveTemplate, CheckCapacity
      <4> QED BY <1>0, <4>1
    <3>2. CASE Wait(t)
      <4>1. wStep' = [wStep EXCEPT ![t] = @ + 1]
        BY <3>2 DEF Wait, Continue
      <4> QED BY <1>0, <4>1 DEF TickType
    <3>3. CASE Branch(t)
      <4>1. wStep[t] \in DOMAIN Steps /\ Steps[wStep[t]].type = "branch" /\ iter[t] < MaxIterations
        BY <1>0, <3>3, AtTypeFacts DEF Branch
      <4>2. Steps[wStep[t]].goto \in Positions /\ wStep[t] + 1 \in Positions /\ wStep[t] <= Steps[wStep[t]].goto
        BY <4>1, StepsFacts DEF BranchesGoForward
      <4>3. CASE wStep' = wStep
        BY <1>0, <4>3
      <4>4. CASE \E n \in {Steps[wStep[t]].goto, wStep[t] + 1} : Continue(t, n)
        <5>1. PICK n \in {Steps[wStep[t]].goto, wStep[t] + 1} : Continue(t, n)
          BY <4>4
        <5>2. wStep'[t] = n
          BY <1>0, <4>1, <4>2, <5>1, ContinueEffect
        <5> QED BY <1>0, <4>2, <5>1, <5>2 DEF Positions
      <4> QED BY <3>3, <4>3, <4>4 DEF Branch
    <3> QED BY <1>6, <3>1, <3>2, <3>3
  <2>3. wStep'[t] <= i => wStep[t] <= i
    BY <1>0, <2>2
  <2> QED BY <2>1, <2>3 DEF MaySend, WillWrite
<1> QED BY <1>4, <1>5, <1>6

\* The tick that takes the row is the one that will overwrite it, or its
\* lock has lapsed.
LEMMA SelectCount ==
  ASSUME TypeOK, TypeOK', HandInv,
         NEW e \in Enrollments, NEW i \in DOMAIN Steps, RepeatsCounted(e, i), NEW t \in Ticks, Select(t)
  PROVE  RepeatsCounted(e, i)'
<1>0. TickType /\ RowType /\ faults \in Nat /\ sent[e][i] \in Nat
  BY TypeParts DEF TypeOK
<1>1. sent' = sent /\ (RowStands(e, i)' => RowStands(e, i)) /\ UNCHANGED <<cur, wStep>>
  BY DEF Select, RowStands, rowVars, cursorVars
<1>2. tPc[t] = "idle" /\ batch[t] = {} /\ cur[t] = None /\ tPc'[t] = "sequence"
  BY <1>0 DEF Select, HandInv, Goto, TickType
<1>3. e \in batch'[t] => e \in Due /\ snap'[t][e].step = step[e]
  <2>1. PICK rows \in SUBSET Due :
          batch' = [batch EXCEPT ![t] = rows] /\ snap' = [snap EXCEPT ![t] = Read(rows)]
    BY SelectTakes
  <2>2. batch'[t] = rows /\ snap'[t] = Read(rows)
    BY <1>0, <2>1 DEF TickType
  <2> QED BY <2>2 DEF Read
<1>4. \A u \in Ticks \ {t} : /\ tPc'[u] = tPc[u] /\ batch'[u] = batch[u] /\ snap'[u] = snap[u]
                             /\ cur'[u] = cur[u] /\ wStep'[u] = wStep[u]
  BY <1>0, OthersKept
<1>5. MaySend(t, e, i)' => e \in Due /\ RowStands(e, i)
  <2>1. e \in Due => seq # "deleted"
    BY DEF Due, ActiveRows, HandInv
  <2> QED BY <1>1, <1>2, <1>3, <2>1 DEF MaySend, RowStands
<1>6. Senders(e, i)' \subseteq Senders(e, i) \cup {t}
  BY <1>4 DEF Senders, MaySend
<1>7. CASE \A u \in Ticks \ {t} : tPc[u] = "idle"
  <2>1. \A u \in Ticks : batch[u] = {} /\ cur[u] = None
    BY <1>0, <1>2, <1>7 DEF HandInv, TickType
  <2>2. Senders(e, i) = {} /\ (\A u \in Ticks : ~WillWrite(u, e))
    BY <2>1 DEF Senders, MaySend, WillWrite
  <2>3. faults' = faults
    BY <1>7 DEF Select
  <2>4. CASE MaySend(t, e, i)'
    <3>1. sent[e][i] <= faults
      BY <1>5, <2>2, <2>4 DEF RepeatsCounted
    <3>2. IsFiniteSet({t}) /\ Cardinality({t}) = 1 /\ Senders(e, i)' \subseteq {t}
      BY <1>6, <2>2, FS_Singleton
    <3>3. IsFiniteSet(Senders(e, i)') /\ Cardinality(Senders(e, i)') \in Nat /\ Cardinality(Senders(e, i)') <= 1
      BY <3>2, Fewer
    <3> QED BY <1>0, <1>1, <2>3, <3>1, <3>3 DEF RepeatsCounted
  <2>5. CASE ~MaySend(t, e, i)'
    <3>1. ~WillWrite(t, e) /\ faults <= faults'
      BY <1>0, <2>2, <2>3
    <3> QED BY <1>1, <2>5, <3>1, TickCountKept
  <2> QED BY <2>4, <2>5
<1>8. CASE ~\A u \in Ticks \ {t} : tPc[u] = "idle"
  <2>1. faults' = faults + 1
    BY <1>8 DEF Select, Fault
  <2> QED BY <1>1, <1>6, <2>1, CountPaid
<1> QED BY <1>7, <1>8

\* A send moves one of the senders past the step.
LEMMA SendCount ==
  ASSUME TypeOK, AtSend, TypeOK', HandInv,
         NEW e \in Enrollments, NEW i \in DOMAIN Steps, RepeatsCounted(e, i), NEW t \in Ticks, Send(t)
  PROVE  RepeatsCounted(e, i)'
<1>0. TickType /\ OtherType /\ faults \in Nat /\ sent[e][i] \in Nat /\ sent'[e][i] \in Nat /\ i \in Nat
  <2>1. TickType /\ OtherType
    BY TypeParts
  <2>2. faults \in Nat /\ sent[e][i] \in Nat
    BY <2>1 DEF OtherType
  <2>3. sent'[e][i] \in Nat
    BY DEF TypeOK
  <2> QED BY <2>1, <2>2, <2>3, StepsFacts
<1>1. cur[t] \in Enrollments /\ wStep[t] \in DOMAIN Steps /\ wStep[t] \in Nat /\ tPc[t] = "send" /\ cur[t] \notin batch[t]
  BY <1>0, StepsFacts DEF Send, TickType, AtSend, HandInv
<1>2. faults' = faults /\ UNCHANGED <<batch, snap, cur>> /\ (RowStands(e, i)' <=> RowStands(e, i)) /\ tPc'[t] = "step"
  BY <1>0 DEF Send, RowStands, rowVars, Goto, TickType
<1>3. wStep'[t] = wStep[t] + 1
  BY <1>0 DEF Send, Continue, TickType
<1>4. MaySend(t, e, i)' => MaySend(t, e, i)
  BY <1>0, <1>1, <1>2, <1>3 DEF MaySend
<1>5. WillWrite(t, e) => WillWrite(t, e)'
  BY <1>1, <1>2 DEF WillWrite
<1>6. TickStep(t) /\ faults <= faults'
  BY <1>0, <1>2 DEF TickStep
<1>7. CASE sent'[e][i] = sent[e][i]
  BY <1>2, <1>4, <1>5, <1>6, <1>7, TickCountKept
<1>8. CASE sent'[e][i] # sent[e][i]
  <2>1. e = cur[t] /\ i = wStep[t] /\ sent'[e][i] = sent[e][i] + 1
    <3>1. sent' = [sent EXCEPT ![cur[t]][wStep[t]] = @ + 1]
      BY <1>8 DEF Send
    <3>2. sent[e] \in [DOMAIN Steps -> Nat] /\ sent \in [Enrollments -> [DOMAIN Steps -> Nat]]
      BY <1>0 DEF OtherType
    <3> QED BY <1>1, <1>8, <3>1, <3>2
  <2>2. MaySend(t, e, i) /\ ~MaySend(t, e, i)'
    BY <1>0, <1>1, <1>2, <1>3, <2>1 DEF MaySend
  <2>3. \A u \in Ticks \ {t} : MaySend(u, e, i)' <=> MaySend(u, e, i)
    BY <1>0, <1>6, OthersKept DEF MaySend
  <2>4. t \in Senders(e, i) /\ Senders(e, i)' \subseteq Senders(e, i) \ {t}
    BY <2>2, <2>3 DEF Senders
  <2>5. IsFiniteSet(Senders(e, i)') /\ Cardinality(Senders(e, i)') \in Nat /\ Cardinality(Senders(e, i)) \in Nat
        /\ Cardinality(Senders(e, i)') + 1 <= Cardinality(Senders(e, i))
    BY <2>4, OneOut DEF RepeatsCounted
  <2>6. sent'[e][i] + Cardinality(Senders(e, i)') <= 1 + faults'
    BY <1>0, <1>2, <2>1, <2>5 DEF RepeatsCounted
  <2>7. WillWrite(t, e)'
    BY <1>2, <2>1 DEF WillWrite
  <2> QED BY <2>5, <2>6, <2>7 DEF RepeatsCounted
<1> QED BY <1>7, <1>8

\* A write leaves the row where its tick stood: the tick's count becomes
\* the row's.
LEMMA WriteCount ==
  ASSUME TypeOK, TypeOK', HandInv,
         NEW e \in Enrollments, NEW i \in DOMAIN Steps, RepeatsCounted(e, i), NEW t \in Ticks, Write(t)
  PROVE  RepeatsCounted(e, i)'
<1>0. TickType /\ RowType /\ faults \in Nat /\ sent[e][i] \in Nat
  BY TypeParts DEF TypeOK
<1>1. cur[t] \in Enrollments /\ tPc[t] = "write" /\ cur[t] \notin batch[t]
  BY <1>0 DEF Write, TickType, HandInv
<1>2. faults' = faults /\ sent' = sent /\ UNCHANGED <<batch, snap, seq>>
  BY DEF Write
<1>3. cur'[t] = None /\ tPc'[t] = "next"
  <2>1. PutDown(t) /\ Goto(t, "next")
    BY DEF Write
  <2> QED BY <1>0, <2>1, PutDownEffect, GotoEffect DEF TickPlaces
<1>4. \A u \in Ticks \ {t} : /\ tPc'[u] = tPc[u] /\ batch'[u] = batch[u] /\ snap'[u] = snap[u]
                             /\ cur'[u] = cur[u] /\ wStep'[u] = wStep[u]
  BY <1>0, OthersKept DEF TickStep
<1>5. MaySend(t, e, i)' => MaySend(t, e, i)
  BY <1>2, <1>3 DEF MaySend
<1>6. CASE e # cur[t]
  <2>1. step'[e] = step[e]
    BY <1>0, <1>1, <1>6 DEF Write, RowType, rowVars
  <2>2. (WillWrite(t, e) => WillWrite(t, e)') /\ (RowStands(e, i)' => RowStands(e, i))
    BY <1>2, <1>3, <1>6, <2>1 DEF WillWrite, RowStands
  <2> QED BY <1>0, <1>2, <1>5, <2>2, TickCountKept DEF TickStep
<1>7. CASE e = cur[t]
  <2>1. Senders(e, i)' \subseteq Senders(e, i)
    BY <1>4, <1>5 DEF Senders, MaySend
  <2>2. IsFiniteSet(Senders(e, i)') /\ Cardinality(Senders(e, i)') \in Nat /\ Cardinality(Senders(e, i)) \in Nat
        /\ Cardinality(Senders(e, i)') <= Cardinality(Senders(e, i))
    BY <2>1, Fewer DEF RepeatsCounted
  <2>3. sent'[e][i] + Cardinality(Senders(e, i)') <= 1 + faults'
    BY <1>0, <1>2, <2>2 DEF RepeatsCounted
  <2>4. ASSUME RowStands(e, i)' PROVE sent'[e][i] <= faults'
    <3>1. seq # "deleted" /\ step'[e] <= i
      BY <1>2, <2>4 DEF RowStands
    <3>2. Held(e)
      BY <1>7 DEF Held
    <3>3. status[e] # "absent"
      BY <3>1, <3>2 DEF HandInv
    <3>4. step'[e] = wStep[t]
      BY <1>0, <1>1, <1>7, <3>3 DEF Write, RowType
    <3>5. t \in Senders(e, i)
      BY <1>7, <3>1, <3>4 DEF Senders, MaySend
    <3>6. Cardinality({}) = 0 /\ {} \subseteq Senders(e, i) \ {t}
      BY FS_EmptySet
    <3>7. 1 <= Cardinality(Senders(e, i))
      BY <3>5, <3>6, OneOut DEF RepeatsCounted
    <3> QED BY <1>0, <1>2, <2>2, <3>7 DEF RepeatsCounted
  <2> QED BY <2>2, <2>3, <2>4 DEF RepeatsCounted
<1> QED BY <1>6, <1>7

LEMMA RepeatStep ==
  ASSUME TypeOK, AtSend, TypeOK', HandInv, BranchesGoForward, RepeatInv, [Next]_vars
  PROVE  RepeatInv'
<1> SUFFICES ASSUME NEW e \in Enrollments, NEW i \in DOMAIN Steps PROVE RepeatsCounted(e, i)'
  BY DEF RepeatInv
<1>0. RepeatsCounted(e, i) /\ TickType /\ faults \in Nat
  BY TypeParts DEF RepeatInv, TypeOK
<1>1. CASE UNCHANGED <<tickVars, step, sent, faults>> /\ (seq' # "deleted" => seq # "deleted")
  <2>1. (\A t \in Ticks : MaySend(t, e, i)' <=> MaySend(t, e, i)) /\ (\A t \in Ticks : WillWrite(t, e)' <=> WillWrite(t, e))
    BY <1>1 DEF MaySend, WillWrite, tickVars, cursorVars
  <2>2. RowStands(e, i)' => RowStands(e, i)
    BY <1>1 DEF RowStands
  <2> QED BY <1>0, <1>1, <2>1, <2>2, CountKept
<1>2. ASSUME NEW t \in Ticks, Throw(t) \/ Crash(t) PROVE RepeatsCounted(e, i)'
  <2>1. sent' = sent /\ faults' = faults + 1 /\ PutDown(t) /\ (batch' = batch \/ EndTick(t)) /\ (snap' = snap \/ EndTick(t))
    BY <1>2 DEF Throw, Crash, Fault
  <2>2. cur'[t] = None
    BY <1>0, <2>1, PutDownEffect
  <2>3. (batch'[t] = {} \/ (batch' = batch /\ snap' = snap))
    BY <1>0, <2>1, EndTickEffect
  <2>4. MaySend(t, e, i)' => MaySend(t, e, i)
    BY <2>2, <2>3 DEF MaySend
  <2>5. \A u \in Ticks \ {t} : MaySend(u, e, i)' <=> MaySend(u, e, i)
    BY <1>0, <1>2, OthersKept DEF MaySend
  <2>6. Senders(e, i)' \subseteq Senders(e, i) \cup {t}
    BY <2>4, <2>5 DEF Senders
  <2> QED BY <1>0, <2>1, <2>6, CountPaid
<1>3. ASSUME NEW t \in Ticks, Select(t) \/ TickStep(t) PROVE RepeatsCounted(e, i)'
  BY <1>0, <1>3, AdvanceCount, SelectCount, SendCount, WriteCount DEF TickStep
<1>4. [Next]_vars => \/ UNCHANGED <<tickVars, step, sent, faults>> /\ (seq' # "deleted" => seq # "deleted")
                     \/ \E t \in Ticks : Select(t) \/ TickStep(t) \/ Throw(t) \/ Crash(t)
  BY DEF Next, vars, EnrollRead, EnrollInsert, Leave, ExitRead, ExitWrite, Exit, Cancel, ComesDue, Pause, Resume, Crowd,
         Delete, rowVars
<1> QED BY <1>1, <1>2, <1>3, <1>4

-----------------------------------------------------------------------------
(* The inductive invariant, and what follows                               *)

IInv == TypeOK /\ AtSend /\ (BranchesSkipNoSend => CoverInv) /\ FirmInv
        /\ HandInv /\ (BranchesGoForward => RepeatInv)

LEMMA InvInit == Init => IInv
<1> SUFFICES ASSUME Init PROVE IInv
  OBVIOUS
<1>1. TypeOK
  BY TypeInit, TypeParts
<1>2. AtSend /\ FirmInv
  BY DEF Init, AtSend, FirmInv
<1>3. CoverInv
  <2>1. \A e \in Enrollments : Covered(e, 1)
    BY StepsFacts DEF Covered
  <2>2. RowCovered /\ CompletedCovered /\ CursorCovered /\ CompletesAtEnd
    BY <2>1 DEF Init, RowCovered, CompletedCovered, CursorCovered, CompletesAtEnd
  <2>3. SnapCovered
    BY <2>1 DEF Init, SnapCovered, Unread
  <2> QED BY <2>2, <2>3 DEF CoverInv
<1>4. HandInv
  <2>1. \A e \in Enrollments : ~Held(e)
    BY DEF Init, Held
  <2> QED BY <2>1 DEF Init, HandInv
<1>5. RepeatInv
  <2>1. \A e \in Enrollments, i \in DOMAIN Steps : Senders(e, i) = {}
    BY DEF Init, Senders, MaySend
  <2>2. faults = 0 /\ \A e \in Enrollments, i \in DOMAIN Steps : sent[e][i] = 0
    BY DEF Init
  <2>3. \A e \in Enrollments, i \in DOMAIN Steps : IsFiniteSet(Senders(e, i)) /\ Cardinality(Senders(e, i)) = 0
    BY <2>1, FS_EmptySet
  <2> QED BY <2>2, <2>3 DEF RepeatInv, RepeatsCounted
<1> QED BY <1>1, <1>2, <1>3, <1>4, <1>5 DEF IInv

LEMMA InvStep == IInv /\ [Next]_vars => IInv'
<1> SUFFICES ASSUME IInv, [Next]_vars PROVE IInv'
  OBVIOUS
<1>1. TypeOK' /\ AtSend'
  BY TypeStep DEF IInv
<1>2. FirmInv'
  BY FirmStep DEF IInv
<1>3. BranchesSkipNoSend => CoverInv'
  BY CoverStep DEF IInv
<1>4. HandInv'
  BY HandStep DEF IInv
<1>5. BranchesGoForward => RepeatInv'
  BY <1>1, RepeatStep DEF IInv
<1> QED BY <1>1, <1>2, <1>3, <1>4, <1>5 DEF IInv, BranchesSkipNoSend, BranchesGoForward

(* IInv holds in every state of every behaviour of the engine              *)
(* (advance and runTick of sequences.ts, the enrol calls and the exits).   *)
THEOREM Inductive == Spec => []IInv
  BY InvInit, InvStep, PTL DEF Spec

(* Every variable of the engine keeps its type: in particular a tick's     *)
(* step number stays between the first step and one past the last.         *)
THEOREM TypeCorrect == Spec => []TypeOK
<1>1. IInv => TypeOK
  BY DEF IInv
<1> QED BY <1>1, Inductive, PTL

(* A drip whose branches skip no send step completes only with a message   *)
(* for every send step, whatever delays, exceptions, crashes, overlapping  *)
(* ticks and stale writes cut advance.                                     *)
THEOREM NothingDropped == Spec => []NoStepDropped
<1>1. IInv => NoStepDropped
  <2> SUFFICES ASSUME IInv, BranchesSkipNoSend, NEW e \in Enrollments, status[e] = "completed",
                      NEW i \in DOMAIN Steps, Steps[i].type = "send"
               PROVE  i \in made[e]
    BY DEF NoStepDropped
  <2>1. Covered(e, Len(Steps) + 1)
    BY DEF IInv, CoverInv, CompletedCovered
  <2>2. i < Len(Steps) + 1
    BY StepsFacts
  <2> QED BY <2>1, <2>2 DEF Covered
<1> QED BY <1>1, Inductive, PTL

(* Unless a branch goes back, no step is mailed more often than the        *)
(* exceptions, crashes and lapsed locks and one: the rows that advance     *)
(* writes last, and from a snapshot, lose no count between ticks.          *)
THEOREM NoUnpaidRepeat == Spec => []RepeatsNeedFaults
<1>1. IInv => RepeatsNeedFaults
  <2> SUFFICES ASSUME IInv, BranchesGoForward, NEW e \in Enrollments, NEW i \in DOMAIN Steps
               PROVE  sent[e][i] <= 1 + faults
    BY DEF RepeatsNeedFaults
  <2>1. RepeatsCounted(e, i)
    BY DEF IInv, RepeatInv
  <2>2. Cardinality(Senders(e, i)) \in Nat
    BY <2>1, FS_CardinalityType DEF RepeatsCounted
  <2>3. sent[e][i] \in Nat /\ faults \in Nat
    BY DEF IInv, TypeOK
  <2> QED BY <2>1, <2>2, <2>3 DEF RepeatsCounted
<1> QED BY <1>1, Inductive, PTL

(* An exit (exitEnrollments, or a cancel) made while no tick has the       *)
(* enrolment in hand is never overwritten and no step is mailed after it.  *)
THEOREM ExitsHold == Spec => ExitHolds
<1>1. IInv /\ [Next]_vars => [ExitKept]_vars
  BY FirmStep DEF IInv
<1> QED BY <1>1, Inductive, PTL DEF Spec, ExitHolds

=============================================================================
