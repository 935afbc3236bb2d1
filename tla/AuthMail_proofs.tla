-------------------------- MODULE AuthMail_proofs ---------------------------
(***************************************************************************)
(* Authentication mail: the server's promise to hand a mail over at most   *)
(* once, and the hook's answer that rests on it, for any number of         *)
(* requests, keys, workers, deferrals, deliveries and recipients.          *)
(*                                                                         *)
(* The server.  The claim (queued -> sending) is the only way into the     *)
(* places from which the provider is called, a row never becomes queued    *)
(* again, and a key has one row; so there is one claimant per key and it   *)
(* passes Send once.  A unit of quota is taken before the insert and given *)
(* back by the request that lost it, so that it follows the row; the       *)
(* content is sealed before the insert and purged after the row left       *)
(* queued.  Read through its rows, the pipeline is OneShotMail: at most    *)
(* one row of a key shows, and each of its changes is a step of the        *)
(* promise or none.                                                        *)
(*                                                                         *)
(* The hook.  The ledger's row is written once, whatever a delivery holds  *)
(* of it is that row, and what travels to the server is what the delivery  *)
(* holds; a receipt that reads sent stays so.                              *)
(***************************************************************************)
EXTENDS AuthMessages, AuthHook, TLAPS

USE KeysAssumption, InputsAssumption, DeferralsAssumption, NoneAssumption

-----------------------------------------------------------------------------
(* The inductive invariant, by part                                        *)

BusyHasJob == \A w \in Workers : wpc[w] # "idle" => wjob[w] \in Job
SweepHasRow == rec.at # "idle" => rec.msg \in Requests

(* The insert is what creates a row, once per key; only a handler that was *)
(* not told so unwinds with its row in place.                              *)
Unwinding == {"undo", "refundMonth", "refundDay"}
OneRowPerKey ==
  \A r, s \in Requests :
    KeyOf[r] = KeyOf[s] /\ status[r] # "absent" /\ status[s] # "absent" => r = s
NoRowBeforeInsert ==
  \A r \in Requests :
    /\ req[r] \in BeforeInsert => status[r] = "absent" /\ lapse[r] = "none"
    /\ req[r] \in Unwinding => status[r] = "absent" \/ lapse[r] = "insert"

(* A claimed row has left queued, and has one claimant ...                 *)
ClaimHolds ==
  \A w \in Workers :
    /\ wpc[w] \in Claimed => status[Msg(w)] \notin {"absent", "queued"}
    /\ wpc[w] \in Claimed \ {"failClaimed"} => status[Msg(w)] \notin {"sent", "suppressed"}
OneClaimant ==
  \A w, v \in Workers :
    wpc[w] \in Claimed /\ wpc[v] \in Claimed /\ Msg(w) = Msg(v) => w = v

(* ... which calls the provider once.                                      *)
Unspent == \A w \in Workers : wpc[w] \in PreSubmit \cup {"suppress"} => submitted[Msg(w)] = 0
Spent ==
  \A r \in Requests :
    /\ submitted[r] <= 1
    /\ submitted[r] > 0 => status[r] \notin {"absent", "queued"}
SentWasSubmitted ==
  /\ \A r \in Requests : status[r] = "sent" => submitted[r] = 1
  /\ \A w \in Workers : wpc[w] = "recordSent" => submitted[Msg(w)] = 1

ClaimInv ==
  /\ TypeOK
  /\ BusyHasJob
  /\ SweepHasRow
  /\ OneRowPerKey
  /\ NoRowBeforeInsert
  /\ ClaimHolds
  /\ OneClaimant
  /\ Unspent
  /\ Spent
  /\ SentWasSubmitted

USE DEF apiVars, queueVars, workerVars, Go, Step, Rest, SetStatus, Add, Remove, Msg,
        EnqueueSend, CompareAndSet, Replay, Resting, Sweeping, quotaVars, Count, Uncount,
        Throws

-----------------------------------------------------------------------------
(* Jobs                                                                    *)

LEMMA MainJobType == \A r \in Requests : MainJob(r) \in Job
  BY DEF MainJob, Job

LEMMA DeferredType ==
  \A j \in Job : j.deferrals < MaxDeferrals => Deferred(j) \in Job
  BY DEF Deferred, Job

LEMMA StalledType == \A j \in Job : Stalled(j) \in Job /\ Stalled(j).msg = j.msg
  BY DEF Stalled, Job

LEMMA JobMsg == \A j \in Job : j.msg \in Requests
  BY DEF Job

-----------------------------------------------------------------------------
(* Types                                                                   *)

LEMMA TypeInit == Init => TypeOK /\ BusyHasJob /\ SweepHasRow
  BY DEF Init, TypeOK, BusyHasJob, SweepHasRow, Status, Ages, RequestPC, WorkerPC

(* Every step keeps every variable in its type.                            *)
LEMMA TypeStep ==
  ASSUME TypeOK, BusyHasJob, SweepHasRow, [Next]_vars
  PROVE  TypeOK' /\ BusyHasJob' /\ SweepHasRow'
<1> USE DEF TypeOK, BusyHasJob, SweepHasRow, Status, RequestPC, WorkerPC
<1>1. ASSUME NEW r \in Requests, RequestStep(r) PROVE TypeOK' /\ BusyHasJob' /\ SweepHasRow'
  <2>1. CASE Begin(r)     BY <2>1 DEF Begin, Winners
  <2>2. CASE Seal(r)      BY <2>2 DEF Seal
  <2>3. CASE ChargeMonth(r) BY <2>3 DEF ChargeMonth, Meters
  <2>11. CASE ChargeDay(r)  BY <2>11 DEF ChargeDay, Meters
  <2>12. CASE GiveBack(r)   BY <2>12 DEF GiveBack
  <2>4. CASE Insert(r)    BY <2>4 DEF Insert
  <2>5. CASE Lost(r)      BY <2>5 DEF Lost, Winners
  <2>6. CASE Reenqueue(r)
    <3>1. UNCHANGED queueVars \/ \E s \in Requests : EnqueueSend(s)
      BY <2>6 DEF Reenqueue, Winners
    <3>2. ASSUME NEW s \in Requests, EnqueueSend(s)
          PROVE  jobs' \in [Job -> Nat] /\ jobKnown' \in [Requests -> BOOLEAN]
      <4>1. MainJob(s) \in Job BY MainJobType
      <4> QED BY <3>2, <4>1
    <3>3. jobs' \in [Job -> Nat] /\ jobKnown' \in [Requests -> BOOLEAN]
      BY <3>1, <3>2
    <3> QED BY <2>6, <3>3 DEF Reenqueue
  <2>7. CASE Undo(r)      BY <2>7 DEF Undo
  <2>8. CASE RefundMonth(r) BY <2>8 DEF RefundMonth
  <2>13. CASE RefundDay(r)  BY <2>13 DEF RefundDay
  <2>9. CASE WriteAudit(r) BY <2>9 DEF WriteAudit, BeforeInsert
  <2>10. CASE Enqueue(r)  BY <2>10, MainJobType DEF Enqueue
  <2> QED BY <1>1, <2>1, <2>2, <2>3, <2>4, <2>5, <2>6, <2>7, <2>8, <2>9, <2>10, <2>11,
             <2>12, <2>13 DEF RequestStep
<1>2. ASSUME NEW w \in Workers, WorkerStep(w) PROVE TypeOK' /\ BusyHasJob' /\ SweepHasRow'
  <2>1. CASE Load(w)      BY <2>1 DEF Load
  <2>2. CASE Expire(w)    BY <2>2, JobMsg DEF Expire
  <2>3. CASE Gate(w)      BY <2>3, DeferredType DEF Gate
  <2>4. CASE Refuse(w)    BY <2>4, JobMsg DEF Refuse
  <2>5. CASE Configure(w) BY <2>5 DEF Configure
  <2>6. CASE Claim(w)     BY <2>6, JobMsg DEF Claim
  <2>7. CASE RecordSending(w) BY <2>7 DEF RecordSending
  <2>8. CASE CheckSuppressed(w) BY <2>8 DEF CheckSuppressed
  <2>9. CASE Suppress(w)  BY <2>9, JobMsg DEF Suppress
  <2>10. CASE TakeContent(w) BY <2>10, JobMsg DEF TakeContent
  <2>11. CASE Send(w)     BY <2>11, JobMsg DEF Send
  <2>12. CASE RecordSent(w) BY <2>12, JobMsg DEF RecordSent
  <2>13. CASE FailUnclaimed(w) BY <2>13, JobMsg DEF FailUnclaimed
  <2>14. CASE FailClaimed(w) BY <2>14, JobMsg DEF FailClaimed
  <2>15. CASE Purge(w)    BY <2>15, JobMsg DEF Purge
  <2>16. CASE Finish(w)   BY <2>16 DEF Finish
  <2> QED BY <1>2, <2>1, <2>2, <2>3, <2>4, <2>5, <2>6, <2>7, <2>8, <2>9, <2>10,
             <2>11, <2>12, <2>13, <2>14, <2>15, <2>16 DEF WorkerStep
<1>3. ASSUME NEW r \in Requests, Abandon(r) \/ ReconcileSelect(r)
      PROVE TypeOK' /\ BusyHasJob' /\ SweepHasRow'
  BY <1>3 DEF Abandon, ReconcileSelect
<1>4. ASSUME NEW i \in Inputs, Tick(i) PROVE TypeOK' /\ BusyHasJob' /\ SweepHasRow'
  BY <1>4 DEF Tick, Ages, Later
<1>5. ASSUME NEW w \in Workers, Take(w) \/ Stall(w) \/ Crash(w)
      PROVE TypeOK' /\ BusyHasJob' /\ SweepHasRow'
  <2>1. CASE Take(w)  BY <2>1 DEF Take
  <2>2. CASE Stall(w) BY <2>2, StalledType DEF Stall
  <2>3. CASE Crash(w) BY <2>3, StalledType DEF Crash
  <2> QED BY <1>5, <2>1, <2>2, <2>3
<1>6. CASE ReconcileCommit \/ ReconcilePurge \/ ReconcileCrash
  <2>1. CASE ReconcileCommit BY <2>1 DEF ReconcileCommit
  <2>2. CASE ReconcilePurge  BY <2>2 DEF ReconcilePurge
  <2>3. CASE ReconcileCrash  BY <2>3 DEF ReconcileCrash
  <2> QED BY <1>6, <2>1, <2>2, <2>3
<1>7. CASE UNCHANGED vars BY <1>7 DEF vars
<1> QED BY <1>1, <1>2, <1>3, <1>4, <1>5, <1>6, <1>7 DEF Next
-----------------------------------------------------------------------------
(* The claim                                                               *)

THEOREM TypeCorrect == Spec => [](TypeOK /\ BusyHasJob /\ SweepHasRow)
<1> DEFINE I == TypeOK /\ BusyHasJob /\ SweepHasRow
<1>1. Init => I BY TypeInit
<1>2. I /\ [Next]_vars => I' BY TypeStep
<1> QED BY <1>1, <1>2, PTL DEF Spec

Claims == OneRowPerKey /\ NoRowBeforeInsert /\ ClaimHolds /\ OneClaimant
          /\ Unspent /\ Spent /\ SentWasSubmitted

LEMMA ClaimInit == Init => ClaimInv
<1> SUFFICES ASSUME Init PROVE Claims BY TypeInit DEF ClaimInv, Claims
<1> QED BY DEF Init, Claims, OneRowPerKey, NoRowBeforeInsert, ClaimHolds, OneClaimant,
          Unspent, Spent, SentWasSubmitted, Claimed, PreSubmit

(* A handler's step makes no second row for a key.                         *)
LEMMA ClaimRequestStep ==
  ASSUME ClaimInv, NEW r \in Requests, RequestStep(r)
  PROVE  Claims'
<1> USE DEF ClaimInv, Claims, TypeOK, BusyHasJob, SweepHasRow, OneRowPerKey, NoRowBeforeInsert,
            ClaimHolds, OneClaimant, Unspent, Spent, SentWasSubmitted, Claimed, PreSubmit
<1> USE DEF BeforeInsert, Unwinding
<1>1. CASE Begin(r) BY <1>1 DEF Begin, Winners
<1>2. CASE Seal(r) BY <1>2 DEF Seal
<1>3. CASE ChargeMonth(r) BY <1>3 DEF ChargeMonth
<1>11. CASE ChargeDay(r) BY <1>11 DEF ChargeDay
<1>12. CASE GiveBack(r) BY <1>12 DEF GiveBack
<1>4. CASE Insert(r)
  <2>1. \/ UNCHANGED status
        \/ /\ \A s \in Requests : KeyOf[s] = KeyOf[r] => status[s] = "absent"
           /\ status' = [status EXCEPT ![r] = "queued"]
           /\ \/ req' = [req EXCEPT ![r] = "audit"]
              \/ req' = [req EXCEPT ![r] = "undo"] /\ lapse'[r] = "insert"
    BY <1>4 DEF Insert, Winners
  <2>2. /\ req[r] = "insert"
        /\ \E p \in {"audit", "lost", "undo"} :
             req' = [req EXCEPT ![r] = p] /\ (p = "lost" => lapse' = lapse)
        /\ lapse' \in {lapse, [lapse EXCEPT ![r] = "insert"]}
        /\ UNCHANGED <<wpc, wjob, submitted>>
    BY <1>4 DEF Insert
  <2>3. OneRowPerKey'
    <3> SUFFICES ASSUME NEW s \in Requests, NEW t \in Requests, KeyOf[s] = KeyOf[t],
                        status'[s] # "absent", status'[t] # "absent"
                 PROVE  s = t
      OBVIOUS
    <3>1. CASE UNCHANGED status BY <3>1
    <3>2. CASE status' = [status EXCEPT ![r] = "queued"] /\ ~UNCHANGED status
      <4>1. \A q \in Requests \ {r} : status'[q] = status[q] BY <3>2
      <4> QED BY <2>1, <3>2, <4>1
    <3> QED BY <2>1, <3>1, <3>2
  <2>4. NoRowBeforeInsert' BY <2>1, <2>2
  <2>5. ClaimHolds' /\ OneClaimant' /\ Unspent' /\ Spent' /\ SentWasSubmitted'
    <3>1. \A v \in Workers : wpc[v] # "idle" => Msg(v) \in Requests BY JobMsg
    <3> QED BY <2>1, <2>2, <3>1
  <2> QED BY <2>3, <2>4, <2>5
<1>5. CASE Lost(r) BY <1>5 DEF Lost, Winners
<1>6. CASE Reenqueue(r) BY <1>6 DEF Reenqueue
<1>7. CASE Undo(r) BY <1>7 DEF Undo
<1>8. CASE RefundMonth(r) BY <1>8 DEF RefundMonth
<1>13. CASE RefundDay(r) BY <1>13 DEF RefundDay
<1>9. CASE WriteAudit(r) BY <1>9 DEF WriteAudit
<1>10. CASE Enqueue(r) BY <1>10 DEF Enqueue
<1> QED BY <1>1, <1>2, <1>3, <1>4, <1>5, <1>6, <1>7, <1>8, <1>9, <1>10, <1>11, <1>12,
          <1>13 DEF RequestStep

(* A worker's step makes no row ...                                        *)
LEMMA NoRowWorkerStep ==
  ASSUME ClaimInv, NEW w \in Workers, WorkerStep(w)
  PROVE  NoRowBeforeInsert'
<1>1. wpc[w] # "idle" => Msg(w) \in Requests BY JobMsg DEF ClaimInv, BusyHasJob
<1>2. \A r \in Requests : status[r] = "absent" => status'[r] = "absent"
  BY <1>1 DEF ClaimInv, TypeOK, ClaimHolds, Claimed, WorkerStep, Load, Expire, Gate, Refuse,
       Configure, Claim, RecordSending, CheckSuppressed, Suppress, TakeContent, Send,
       RecordSent, FailUnclaimed, FailClaimed, Purge, Finish
<1>3. UNCHANGED <<req, lapse>>
  BY DEF WorkerStep, Load, Expire, Gate, Refuse, Configure, Claim, RecordSending,
       CheckSuppressed, Suppress, TakeContent, Send, RecordSent, FailUnclaimed, FailClaimed,
       Purge, Finish
<1> QED BY <1>2, <1>3 DEF ClaimInv, NoRowBeforeInsert

(* ... no second claimant and no second hand-over.                         *)
LEMMA ClaimWorkerStep ==
  ASSUME ClaimInv, NEW w \in Workers, WorkerStep(w)
  PROVE  Claims'
<1> DEFINE Others == OneRowPerKey /\ ClaimHolds /\ OneClaimant /\ Unspent /\ Spent
                     /\ SentWasSubmitted
<1> SUFFICES Others' BY NoRowWorkerStep DEF Claims
<1> USE DEF ClaimInv, TypeOK, BusyHasJob, SweepHasRow, OneRowPerKey,
            ClaimHolds, OneClaimant, Unspent, Spent, SentWasSubmitted, Claimed, PreSubmit
<1>0. \A v \in Workers : wpc[v] # "idle" => Msg(v) \in Requests BY JobMsg
<1>1. CASE Load(w) BY <1>0, <1>1 DEF Load
<1>2. CASE Expire(w) BY <1>0, <1>2 DEF Expire
<1>3. CASE Gate(w) BY <1>0, <1>3 DEF Gate
<1>4. CASE Refuse(w)
  <2>1. /\ wpc[w] = "refuse" /\ UNCHANGED <<wjob, submitted>>
        /\ wpc' = [wpc EXCEPT ![w] = "finish"]
        /\ \/ UNCHANGED status
           \/ status[Msg(w)] = "queued" /\ status' = [status EXCEPT ![Msg(w)] = "failed"]
    BY <1>4 DEF Refuse
  <2> QED BY <1>0, <2>1
<1>5. CASE Configure(w)
  <2>1. /\ UNCHANGED <<status, wjob, req, submitted>>
        /\ \E p \in {"claim", "failUnclaimed"} : wpc' = [wpc EXCEPT ![w] = p]
    BY <1>5 DEF Configure
  <2> QED BY <2>1
<1>6. CASE Claim(w) BY <1>0, <1>6 DEF Claim
<1>7. CASE RecordSending(w) BY <1>0, <1>7 DEF RecordSending
<1>8. CASE CheckSuppressed(w) BY <1>0, <1>8 DEF CheckSuppressed
<1>9. CASE Suppress(w)
  <2>1. /\ wpc[w] = "suppress" /\ UNCHANGED <<wjob, submitted>>
        /\ \E p \in {"purge", "failClaimed"} : wpc' = [wpc EXCEPT ![w] = p]
        /\ \/ UNCHANGED status /\ wpc' = [wpc EXCEPT ![w] = "failClaimed"]
           \/ status' = [status EXCEPT ![Msg(w)] = "suppressed"]
    BY <1>9 DEF Suppress
  <2>2. OneRowPerKey' /\ OneClaimant' /\ Unspent' BY <1>0, <2>1
  <2>3. ClaimHolds' BY <1>0, <2>1
  <2>4. Spent' /\ SentWasSubmitted' BY <1>0, <2>1
  <2> QED BY <2>2, <2>3, <2>4
<1>10. CASE TakeContent(w) BY <1>0, <1>10 DEF TakeContent
<1>11. CASE Send(w) BY <1>0, <1>11 DEF Send
<1>12. CASE RecordSent(w)
  <2>1. /\ wpc[w] = "recordSent" /\ submitted[Msg(w)] = 1
        /\ status[Msg(w)] \notin {"absent", "queued"}
    BY <1>12 DEF RecordSent
  <2>2. /\ UNCHANGED <<submitted, wjob, req>>
        /\ \/ status' = [status EXCEPT ![Msg(w)] = "sent"] /\ wpc' = [wpc EXCEPT ![w] = "finish"]
           \/ status' = status /\ wpc' = [wpc EXCEPT ![w] = "failClaimed"]
    BY <1>12 DEF RecordSent
  <2>3. OneRowPerKey' /\ Unspent' /\ OneClaimant' BY <1>0, <2>1, <2>2
  <2>4. ClaimHolds' BY <1>0, <2>1, <2>2
  <2>5. Spent' /\ SentWasSubmitted' BY <1>0, <2>1, <2>2
  <2> QED BY <2>3, <2>4, <2>5
<1>13. CASE FailUnclaimed(w) BY <1>0, <1>13 DEF FailUnclaimed
<1>14. CASE FailClaimed(w) BY <1>0, <1>14 DEF FailClaimed
<1>15. CASE Purge(w) BY <1>0, <1>15 DEF Purge
<1>16. CASE Finish(w) BY <1>0, <1>16 DEF Finish
<1> QED BY <1>1, <1>2, <1>3, <1>4, <1>5, <1>6, <1>7, <1>8, <1>9, <1>10, <1>11, <1>12, <1>13, <1>14, <1>15, <1>16 DEF WorkerStep

(* Neither does the queue, the reconciler or the clock.                    *)
LEMMA ClaimOtherStep ==
  ASSUME ClaimInv,
         \/ \E r \in Requests : Abandon(r) \/ ReconcileSelect(r)
         \/ \E i \in Inputs : Tick(i)
         \/ \E w \in Workers : Take(w) \/ Stall(w) \/ Crash(w)
         \/ ReconcileCommit \/ ReconcilePurge \/ ReconcileCrash
         \/ UNCHANGED vars
  PROVE  Claims'
<1> USE DEF ClaimInv, Claims, TypeOK, BusyHasJob, SweepHasRow, OneRowPerKey, NoRowBeforeInsert,
            ClaimHolds, OneClaimant, Unspent, Spent, SentWasSubmitted, Claimed, PreSubmit
<1>1. ASSUME NEW r \in Requests, Abandon(r) \/ ReconcileSelect(r) PROVE Claims'
  BY <1>1 DEF Abandon, ReconcileSelect, BeforeInsert, Unwinding
<1>2. ASSUME NEW i \in Inputs, Tick(i) PROVE Claims'
  BY <1>2 DEF Tick
<1>3. ASSUME NEW w \in Workers, Take(w) PROVE Claims'
  BY <1>3 DEF Take
<1>4. ASSUME NEW w \in Workers, Stall(w) PROVE Claims'
  BY <1>4, StalledType DEF Stall
<1>5. ASSUME NEW w \in Workers, Crash(w) PROVE Claims'
  BY <1>5 DEF Crash
<1>6. CASE ReconcileCommit
  <2>1. \A v \in Workers : wpc[v] # "idle" => Msg(v) \in Requests BY JobMsg
  <2> QED BY <1>6, <2>1 DEF ReconcileCommit
<1>7. CASE ReconcilePurge  BY <1>7 DEF ReconcilePurge
<1>8. CASE ReconcileCrash  BY <1>8 DEF ReconcileCrash
<1>9. CASE UNCHANGED vars  BY <1>9 DEF vars
<1> QED BY <1>1, <1>2, <1>3, <1>4, <1>5, <1>6, <1>7, <1>8, <1>9

LEMMA ClaimStep == ClaimInv /\ [Next]_vars => ClaimInv'
<1> SUFFICES ASSUME ClaimInv, [Next]_vars PROVE ClaimInv' OBVIOUS
<1>1. TypeOK' /\ BusyHasJob' /\ SweepHasRow' BY TypeStep DEF ClaimInv
<1>2. Claims' BY ClaimRequestStep, ClaimWorkerStep, ClaimOtherStep DEF Next
<1> QED BY <1>1, <1>2 DEF ClaimInv, Claims

THEOREM ClaimInvariant == Spec => []ClaimInv
  BY ClaimInit, ClaimStep, PTL DEF Spec
(* For every value of the constants: one hand-over per idempotency key.    *)
THEOREM OneHandOver == Spec => []AtMostOnce
<1>1. ClaimInv => AtMostOnce
  BY DEF ClaimInv, TypeOK, OneRowPerKey, Spent, AtMostOnce
<1> QED BY <1>1, ClaimInvariant, PTL

-----------------------------------------------------------------------------
(* What a step may do to a row                                             *)

(* Only nine actions write a status, and each of them moves one row.       *)
RowMoves(m, old, new) ==
  /\ m \in Requests /\ status[m] \in old
  /\ status' = [status EXCEPT ![m] = new]

LEMMA StatusStep ==
  ASSUME ClaimInv, Next
  PROVE  \/ UNCHANGED status
         \/ /\ UNCHANGED submitted
            /\ \E m \in Requests :
                 \/ RowMoves(m, {"absent"}, "queued") /\ Insert(m)
                 \/ RowMoves(m, {"queued"}, "sending")
                 \/ RowMoves(m, {"queued", "sending"}, "failed")
                 \/ RowMoves(m, {"sending", "failed"}, "suppressed") /\ submitted[m] = 0
                 \/ RowMoves(m, {"sending", "failed"}, "sent") /\ submitted[m] = 1
<1> USE DEF ClaimInv, TypeOK, BusyHasJob, SweepHasRow, RowMoves
<1> DEFINE Moves(m) == \/ RowMoves(m, {"absent"}, "queued") /\ Insert(m)
                       \/ RowMoves(m, {"queued"}, "sending")
                       \/ RowMoves(m, {"queued", "sending"}, "failed")
                       \/ RowMoves(m, {"sending", "failed"}, "suppressed") /\ submitted[m] = 0
                       \/ RowMoves(m, {"sending", "failed"}, "sent") /\ submitted[m] = 1
           Goal == \/ UNCHANGED status
                   \/ UNCHANGED submitted /\ \E m \in Requests : Moves(m)
<1>0. \A w \in Workers : wpc[w] # "idle" => Msg(w) \in Requests BY JobMsg
<1>1. ASSUME NEW r \in Requests, RequestStep(r) \/ Abandon(r) \/ ReconcileSelect(r) PROVE Goal
  <2>1. CASE Insert(r)
    <3>1. UNCHANGED submitted BY <2>1 DEF Insert
    <3>2. UNCHANGED status \/ RowMoves(r, {"absent"}, "queued") BY <2>1 DEF Insert, Winners
    <3> QED BY <2>1, <3>1, <3>2
  <2>2. CASE ~Insert(r)
    BY <1>1, <2>2 DEF RequestStep, Begin, Seal, ChargeMonth, ChargeDay, GiveBack, Lost,
                      Reenqueue, Undo, RefundMonth, RefundDay, WriteAudit, Enqueue, Abandon,
                      ReconcileSelect
  <2> QED BY <2>1, <2>2
<1>2. ASSUME NEW w \in Workers, Take(w) \/ WorkerStep(w) \/ Stall(w) \/ Crash(w) PROVE Goal
  <2>0. /\ status[Msg(w)] \in Status \/ wpc[w] = "idle"
        /\ wpc[w] \in Claimed => status[Msg(w)] \notin {"absent", "queued"}
        /\ wpc[w] \in Claimed \ {"failClaimed"} => status[Msg(w)] \notin {"sent", "suppressed"}
    BY <1>0 DEF ClaimHolds
  <2>1. CASE Expire(w) BY <2>1, <1>0 DEF Expire
  <2>2. CASE Refuse(w) BY <2>2, <1>0 DEF Refuse
  <2>3. CASE Claim(w)  BY <2>3, <1>0 DEF Claim
  <2>4. CASE Suppress(w) BY <2>4, <2>0, <1>0 DEF Suppress, Claimed, Status, Unspent
  <2>5. CASE RecordSent(w)
    BY <2>5, <2>0, <1>0 DEF RecordSent, Claimed, Status, SentWasSubmitted
  <2>6. CASE FailUnclaimed(w) BY <2>6, <1>0 DEF FailUnclaimed
  <2>7. CASE FailClaimed(w)   BY <2>7, <1>0 DEF FailClaimed
  <2>8. CASE Take(w) \/ Stall(w) \/ Crash(w) \/ Load(w) \/ Gate(w) \/ Configure(w) \/ RecordSending(w)
             \/ CheckSuppressed(w) \/ TakeContent(w) \/ Send(w) \/ Purge(w) \/ Finish(w)
    BY <2>8 DEF Take, Stall, Crash, Load, Gate, Configure, RecordSending, CheckSuppressed,
                TakeContent, Send, Purge, Finish
  <2> QED BY <1>2, <2>1, <2>2, <2>3, <2>4, <2>5, <2>6, <2>7, <2>8 DEF WorkerStep
<1>3. CASE ReconcileCommit
  BY <1>3 DEF ReconcileCommit
<1>4. CASE (\E i \in Inputs : Tick(i)) \/ ReconcilePurge \/ ReconcileCrash
  BY <1>4 DEF Tick, ReconcilePurge, ReconcileCrash
<1> QED BY <1>1, <1>2, <1>3, <1>4 DEF Next

(* A settled row stays settled, sent and suppressed rows for good, and     *)
(* only a submitted credential is ever reported sent.                      *)
THEOREM SettledFinal == Spec => SettledStaysSettled
<1> DEFINE A == \A r \in Requests :
                  /\ status[r] \in Terminal => status'[r] \in Terminal
                  /\ status[r] \in {"sent", "suppressed"} => status'[r] = status[r]
                  /\ status'[r] = "sent" => submitted[r] = 1
<1>1. ClaimInv /\ [Next]_vars => [A]_vars
  <2> SUFFICES ASSUME ClaimInv, Next PROVE A OBVIOUS
  <2> QED BY StatusStep DEF ClaimInv, TypeOK, RowMoves, Terminal, SentWasSubmitted
<1> QED BY <1>1, ClaimInvariant, PTL DEF Spec, SettledStaysSettled

-----------------------------------------------------------------------------
(* Quota                                                                   *)

(* Where a handler stands says which meters count it; one past its insert  *)
(* has a row.                                                              *)
ChargeFollowsRow ==
  \A r \in Requests :
    /\ req[r] \in {"start", "seal", "chargeMonth"} => units[r] = {} /\ lapse[r] = "none"
    /\ req[r] \in {"chargeDay", "giveBack"} => units[r] = {"month"} /\ lapse[r] = "none"
    /\ req[r] \in {"insert", "lost"} => units[r] = Meters /\ lapse[r] = "none"
    /\ req[r] = "reenqueue" => units[r] \in {{}, Meters} /\ lapse[r] = "none"
    /\ req[r] = "undo" => units[r] \in {{}, Meters} \/ lapse[r] = "charge"
    /\ req[r] = "refundMonth" => units[r] = Meters
    /\ req[r] = "refundDay" => units[r] = {"day"}
    /\ req[r] \in {"audit", "enqueue"} => status[r] # "absent" /\ lapse[r] = "none"
    /\ lapse[r] = "charge" => status[r] = "absent"

LEMMA ChargeStep ==
  ASSUME ClaimInv, ChargeFollowsRow, ChargedIffInserted, [Next]_vars
  PROVE  ChargeFollowsRow' /\ ChargedIffInserted'
<1> USE DEF ChargeFollowsRow, ChargedIffInserted
<1>0. /\ TypeOK
      /\ \A r \in Requests :
           /\ req[r] \in BeforeInsert => status[r] = "absent"
           /\ req[r] \in Unwinding => status[r] = "absent" \/ lapse[r] = "insert"
  BY DEF ClaimInv, NoRowBeforeInsert
<1> USE DEF TypeOK, BeforeInsert, Unwinding, Charged, Meters
(* Only an insert makes a row, and nothing deletes one.                    *)
<1>1. \/ \E m \in Requests : Insert(m)
      \/ \A r \in Requests : status'[r] = "absent" <=> status[r] = "absent"
  <2>1. CASE UNCHANGED vars BY <2>1 DEF vars
  <2>2. CASE Next BY <2>2, <1>0, StatusStep DEF RowMoves
  <2> QED BY <2>1, <2>2
<1>2. ASSUME NEW r \in Requests, Insert(r) PROVE ChargeFollowsRow' /\ ChargedIffInserted'
  BY <1>0, <1>2 DEF Insert
<1>3. ASSUME \A r \in Requests : status'[r] = "absent" <=> status[r] = "absent"
      PROVE  ChargeFollowsRow' /\ ChargedIffInserted'
  <2>1. ASSUME NEW r \in Requests, RequestStep(r) PROVE ChargeFollowsRow' /\ ChargedIffInserted'
    <3>1. CASE Begin(r)   BY <1>0, <1>3, <3>1 DEF Begin
    <3>2. CASE Seal(r)    BY <1>0, <1>3, <3>2 DEF Seal
    <3>3. CASE ChargeMonth(r) BY <1>0, <1>3, <3>3 DEF ChargeMonth
    <3>10. CASE ChargeDay(r)  BY <1>0, <1>3, <3>10 DEF ChargeDay
    <3>11. CASE GiveBack(r)   BY <1>0, <1>3, <3>11 DEF GiveBack
    <3>4. CASE Lost(r)    BY <1>0, <1>3, <3>4 DEF Lost
    <3>5. CASE Reenqueue(r) BY <1>0, <1>3, <3>5 DEF Reenqueue
    <3>6. CASE Undo(r)    BY <1>0, <1>3, <3>6 DEF Undo
    <3>7. CASE RefundMonth(r) BY <1>0, <1>3, <3>7 DEF RefundMonth
    <3>12. CASE RefundDay(r)  BY <1>0, <1>3, <3>12 DEF RefundDay
    <3>8. CASE WriteAudit(r) BY <1>0, <1>3, <3>8 DEF WriteAudit
    <3>9. CASE Enqueue(r) BY <1>0, <1>3, <3>9 DEF Enqueue
    <3> QED BY <1>2, <2>1, <3>1, <3>2, <3>3, <3>4, <3>5, <3>6, <3>7, <3>8, <3>9, <3>10,
               <3>11, <3>12 DEF RequestStep
  <2>2. ASSUME NEW r \in Requests, Abandon(r) PROVE ChargeFollowsRow' /\ ChargedIffInserted'
    BY <1>0, <1>3, <2>2 DEF Abandon
  <2>3. CASE UNCHANGED apiVars BY <1>0, <1>3, <2>3
  <2>4. \/ \E r \in Requests : RequestStep(r) \/ Abandon(r)
        \/ UNCHANGED apiVars
    BY DEF Next, vars, ReconcileSelect, Tick, Take, Stall, Crash, ReconcileCommit,
           ReconcilePurge, ReconcileCrash, WorkerStep, Load, Expire, Gate, Refuse, Configure,
           Claim, RecordSending, CheckSuppressed, Suppress, TakeContent, Send, RecordSent,
           FailUnclaimed, FailClaimed, Purge, Finish
  <2> QED BY <2>1, <2>2, <2>3, <2>4
<1> QED BY <1>1, <1>2, <1>3

(* For every value of the constants: a row is counted once on each meter,  *)
(* and a handler that ends without one leaves nothing counted, unless its  *)
(* reservation threw.                                                      *)
THEOREM ChargedForRows == Spec => []ChargedIffInserted
<1>1. Init => ChargeFollowsRow /\ ChargedIffInserted
  BY DEF Init, ChargeFollowsRow, ChargedIffInserted
<1>2. ClaimInv /\ ChargeFollowsRow /\ ChargedIffInserted /\ [Next]_vars
        => ChargeFollowsRow' /\ ChargedIffInserted'
  BY ChargeStep
<1> QED BY <1>1, <1>2, ClaimInvariant, PTL DEF Spec

-----------------------------------------------------------------------------
(* The vault                                                               *)

(* A handler about to reserve or insert has sealed its content, and whoever *)
(* is about to purge a row's content saw the row leave queued.             *)
Sealed == {"chargeMonth", "chargeDay", "insert"}
SealedBeforeInsert ==
  \A r \in Requests :
    req[r] \in Sealed /\ Age(r) \in {"fresh", "closing"} => vault[r]
PurgeAfterQueued ==
  /\ \A w \in Workers : wpc[w] = "purge" => status[Msg(w)] \notin {"absent", "queued"}
  /\ rec.at = "purge" => status[rec.msg] \notin {"absent", "queued"}

VaultInv == SealedBeforeInsert /\ PurgeAfterQueued /\ QueuedHasContent

LEMMA PurgeStep ==
  ASSUME ClaimInv, PurgeAfterQueued, Next
  PROVE  PurgeAfterQueued'
<1> USE DEF ClaimInv, TypeOK, BusyHasJob, SweepHasRow, PurgeAfterQueued
(* A row that has left queued never returns.                               *)
<1>1. \A r \in Requests : status[r] \notin {"absent", "queued"}
                         => status'[r] \notin {"absent", "queued"}
  BY StatusStep DEF RowMoves
<1>2. \A w \in Workers : wpc[w] # "idle" => Msg(w) \in Requests BY JobMsg
<1>3. ASSUME NEW w \in Workers, WorkerStep(w) PROVE PurgeAfterQueued'
  <2>1. ASSUME wpc'[w] = "purge" PROVE status'[Msg(w)] \notin {"absent", "queued"}
    BY <1>2, <1>3, <2>1 DEF WorkerStep, Load, Expire, Gate, Refuse, Configure, Claim,
       RecordSending, CheckSuppressed, Suppress, TakeContent, Send, RecordSent,
       FailUnclaimed, FailClaimed, Purge, Finish
  <2>2. /\ rec' = rec
        /\ \A v \in Workers \ {w} : wpc'[v] = wpc[v] /\ wjob'[v] = wjob[v]
        /\ wpc'[w] = "idle" \/ wjob' = wjob
    BY <1>3 DEF WorkerStep, Load, Expire, Gate, Refuse, Configure, Claim,
       RecordSending, CheckSuppressed, Suppress, TakeContent, Send, RecordSent,
       FailUnclaimed, FailClaimed, Purge, Finish
  <2> QED BY <1>1, <1>2, <2>1, <2>2
<1>4. ASSUME NEW w \in Workers, Take(w) \/ Stall(w) \/ Crash(w) PROVE PurgeAfterQueued'
  <2>1. CASE Take(w)  BY <1>1, <1>2, <2>1 DEF Take
  <2>2. CASE Stall(w) BY <1>1, <1>2, <2>2, StalledType DEF Stall
  <2>3. CASE Crash(w) BY <1>1, <1>2, <2>3 DEF Crash
  <2> QED BY <1>4, <2>1, <2>2, <2>3
<1>5. CASE \E r \in Requests : RequestStep(r) \/ Abandon(r)
  <2>1. UNCHANGED <<wpc, wjob, rec>>
    BY <1>5 DEF RequestStep, Begin, Seal, ChargeMonth, ChargeDay, GiveBack, Insert, Lost, Reenqueue, Undo, RefundMonth, RefundDay,
                WriteAudit, Enqueue, Abandon
  <2> QED BY <1>1, <1>2, <2>1
<1>6. CASE (\E r \in Requests : ReconcileSelect(r)) \/ ReconcilePurge \/ ReconcileCrash
           \/ \E i \in Inputs : Tick(i)
  BY <1>1, <1>2, <1>6 DEF ReconcileSelect, ReconcilePurge, ReconcileCrash, Tick
<1>7. CASE ReconcileCommit BY <1>1, <1>2, <1>7 DEF ReconcileCommit
<1> QED BY <1>3, <1>4, <1>5, <1>6, <1>7 DEF Next

(* What a step does to the content of a request that is not yet inserted   *)
(* or still queued: nothing, before the deadline.                          *)
LEMMA VaultStep ==
  ASSUME ClaimInv, PurgeAfterQueued, Next, NEW r \in Requests,
         \/ status[r] = "queued" /\ lapse[r] # "insert"
         \/ req[r] \in Sealed,
         vault[r], age'[InputOf[r]] \in {"fresh", "closing"}
  PROVE  vault'[r]
<1> USE DEF ClaimInv, TypeOK, BusyHasJob, SweepHasRow, Sealed
<1>1. status[r] \in {"absent", "queued"}
  BY DEF NoRowBeforeInsert, BeforeInsert
<1>2. \A w \in Workers : wpc[w] # "idle" => Msg(w) \in Requests BY JobMsg
<1>3. ASSUME NEW s \in Requests, RequestStep(s) PROVE vault'[r]
  <2>1. CASE Seal(s) BY <2>1 DEF Seal
  <2>2. CASE Undo(s)
    <3>1. s # r BY <2>2 DEF Undo, NoRowBeforeInsert, BeforeInsert, Unwinding
    <3> QED BY <2>2, <3>1 DEF Undo
  <2>3. CASE UNCHANGED vault BY <2>3
  <2> QED BY <1>3, <2>1, <2>2, <2>3 DEF RequestStep, Begin, ChargeMonth, ChargeDay, GiveBack, Insert, Lost, Reenqueue,
             RefundMonth, RefundDay, WriteAudit, Enqueue
<1>4. ASSUME NEW w \in Workers, WorkerStep(w) PROVE vault'[r]
  <2>1. CASE TakeContent(w)
    <3>1. Msg(w) # r BY <1>1, <2>1 DEF TakeContent, ClaimHolds, Claimed
    <3> QED BY <1>2, <2>1, <3>1 DEF TakeContent
  <2>2. CASE Purge(w)
    <3>1. Msg(w) # r BY <1>1, <2>2 DEF Purge, PurgeAfterQueued
    <3> QED BY <1>2, <2>2, <3>1 DEF Purge
  <2>3. CASE UNCHANGED vault BY <2>3
  <2> QED BY <1>4, <2>1, <2>2, <2>3 DEF WorkerStep, Load, Expire, Gate, Refuse, Configure, Claim,
       RecordSending, CheckSuppressed, Suppress, Send, RecordSent, FailUnclaimed, FailClaimed, Finish
<1>5. CASE ReconcilePurge
  <2>1. rec.msg # r BY <1>1, <1>5 DEF ReconcilePurge, PurgeAfterQueued
  <2> QED BY <1>5, <2>1 DEF ReconcilePurge
<1>6. ASSUME NEW i \in Inputs, Tick(i) PROVE vault'[r]
  BY <1>6 DEF Tick, Later
<1>7. CASE UNCHANGED vault BY <1>7
<1> QED BY <1>3, <1>4, <1>5, <1>6, <1>7 DEF Next, Abandon, ReconcileSelect, Take, Stall, Crash,
           ReconcileCommit, ReconcileCrash

(* The clock only moves on, and no request charges before it sealed.       *)
LEMMA ClockStep ==
  ASSUME TypeOK, Next, NEW i \in Inputs, age'[i] \in {"fresh", "closing"}
  PROVE  age[i] \in {"fresh", "closing"}
<1>1. UNCHANGED age \/ \E j \in Inputs : Tick(j)
  BY DEF Next, RequestStep, Begin, Seal, ChargeMonth, ChargeDay, GiveBack, Insert, Lost, Reenqueue, Undo, RefundMonth, RefundDay,
         WriteAudit, Enqueue, Abandon, ReconcileSelect, Take, Stall, Crash, ReconcileCommit,
         ReconcilePurge, ReconcileCrash, WorkerStep, Load, Expire, Gate, Refuse, Configure,
         Claim, RecordSending, CheckSuppressed, Suppress, TakeContent, Send, RecordSent,
         FailUnclaimed, FailClaimed, Purge, Finish
<1> QED BY <1>1 DEF Tick, TypeOK, Later, Ages

LEMMA SealsFirst ==
  ASSUME TypeOK, Next, NEW r \in Requests,
         req[r] \notin Sealed, req'[r] \in Sealed
  PROVE  vault'[r]
<1> USE DEF TypeOK, Sealed
<1>1. ASSUME NEW s \in Requests, RequestStep(s) PROVE vault'[r]
  BY <1>1 DEF RequestStep, Begin, Seal, ChargeMonth, ChargeDay, GiveBack, Insert, Lost, Reenqueue, Undo, RefundMonth, RefundDay,
              WriteAudit, Enqueue
<1>2. ASSUME NEW s \in Requests, Abandon(s) PROVE vault'[r] BY <1>2 DEF Abandon
<1>3. CASE UNCHANGED req BY <1>3
<1> QED
  BY <1>1, <1>2, <1>3 DEF Next, ReconcileSelect, Tick, Take, Stall, Crash, ReconcileCommit,
         ReconcilePurge, ReconcileCrash, WorkerStep, Load, Expire, Gate, Refuse, Configure,
         Claim, RecordSending, CheckSuppressed, Suppress, TakeContent, Send, RecordSent,
         FailUnclaimed, FailClaimed, Purge, Finish

(* What a handler was not told stays so.                                   *)
LEMMA LapseStays ==
  ASSUME ClaimInv, Next, NEW r \in Requests, lapse[r] = "insert"
  PROVE  lapse'[r] = "insert"
<1> USE DEF ClaimInv, TypeOK, NoRowBeforeInsert, BeforeInsert
<1>1. ASSUME NEW s \in Requests, RequestStep(s) PROVE lapse'[r] = "insert"
  BY <1>1 DEF RequestStep, Begin, Seal, ChargeMonth, ChargeDay, GiveBack, Insert, Lost,
              Reenqueue, Undo, RefundMonth, RefundDay, WriteAudit, Enqueue
<1>2. CASE UNCHANGED lapse BY <1>2
<1> QED
  BY <1>1, <1>2 DEF Next, Abandon, ReconcileSelect, Tick, Take, Stall, Crash, ReconcileCommit,
         ReconcilePurge, ReconcileCrash, WorkerStep, Load, Expire, Gate, Refuse, Configure,
         Claim, RecordSending, CheckSuppressed, Suppress, TakeContent, Send, RecordSent,
         FailUnclaimed, FailClaimed, Purge, Finish

LEMMA VaultInvStep ==
  ASSUME ClaimInv, VaultInv, [Next]_vars
  PROVE  VaultInv'
<1> USE DEF VaultInv
<1>1. CASE UNCHANGED vars
  BY <1>1 DEF vars, SealedBeforeInsert, PurgeAfterQueued, QueuedHasContent, Age
<1>2. CASE Next
  <2>1. PurgeAfterQueued' BY <1>2, PurgeStep
  <2>2. \A r \in Requests : Age(r)' \in {"fresh", "closing"}
                           => InputOf[r] \in Inputs /\ Age(r) \in {"fresh", "closing"}
    BY <1>2, ClockStep DEF Age, ClaimInv
  <2>3. SealedBeforeInsert'
    <3> SUFFICES ASSUME NEW r \in Requests, req'[r] \in Sealed,
                        Age(r)' \in {"fresh", "closing"}
                 PROVE  vault'[r]
      BY DEF SealedBeforeInsert
    <3>1. CASE req[r] \in Sealed
      BY <1>2, <2>2, <3>1, VaultStep DEF SealedBeforeInsert, Age
    <3>2. CASE req[r] \notin Sealed
      BY <1>2, <3>2, SealsFirst DEF ClaimInv
    <3> QED BY <3>1, <3>2
  <2>4. QueuedHasContent'
    <3> SUFFICES ASSUME NEW r \in Requests, status'[r] = "queued",
                        Age(r)' \in {"fresh", "closing"}, lapse'[r] # "insert"
                 PROVE  vault'[r]
      BY DEF QueuedHasContent
    <3>0. lapse[r] # "insert" BY <1>2, LapseStays DEF ClaimInv
    <3>1. CASE status[r] = "queued"
      BY <1>2, <2>2, <3>0, <3>1, VaultStep DEF QueuedHasContent, Age
    <3>2. CASE status[r] # "queued"
      <4>1. Insert(r) BY <1>2, <3>2, StatusStep DEF ClaimInv, TypeOK, RowMoves
      <4>2. req[r] = "insert" BY <4>1 DEF Insert
      <4> QED BY <1>2, <2>2, <4>2, VaultStep DEF SealedBeforeInsert, Sealed, Age
    <3> QED BY <3>1, <3>2
  <2> QED BY <2>1, <2>3, <2>4
<1> QED BY <1>1, <1>2

(* For every value of the constants: a queued row has its content until    *)
(* its deadline.                                                           *)
THEOREM ContentSurvives == Spec => []QueuedHasContent
<1>1. Init => VaultInv
  BY DEF Init, VaultInv, SealedBeforeInsert, Sealed, PurgeAfterQueued, QueuedHasContent
<1>2. ClaimInv /\ VaultInv /\ [Next]_vars => VaultInv'
  BY VaultInvStep
<1> QED BY <1>1, <1>2, ClaimInvariant, PTL DEF Spec, VaultInv

-----------------------------------------------------------------------------
(* The refinement                                                          *)

(* A key shows its one row; a key without a row shows nothing.             *)
KeysShowRows ==
  /\ \A r \in Requests :
       status[r] # "absent" => KeyReport[KeyOf[r]] = status[r] /\ KeyHanded[KeyOf[r]] = submitted[r]
  /\ \A k \in Keys :
       (\A r \in Requests : KeyOf[r] = k => status[r] = "absent")
         => KeyReport[k] = "absent" /\ KeyHanded[k] = 0

LEMMA KeysShow == TypeOK /\ OneRowPerKey => KeysShowRows
<1> SUFFICES ASSUME TypeOK, OneRowPerKey PROVE KeysShowRows OBVIOUS
<1>1. ASSUME NEW r \in Requests, status[r] # "absent"
      PROVE  /\ KeyReport[KeyOf[r]] = status[r]
             /\ KeyHanded[KeyOf[r]] = submitted[r]
  <2> DEFINE row == CHOOSE s \in Requests : KeyOf[s] = KeyOf[r] /\ status[s] # "absent"
  <2>1. row \in Requests /\ KeyOf[row] = KeyOf[r] /\ status[row] # "absent"
    BY <1>1
  <2>2. row = r BY <1>1, <2>1 DEF OneRowPerKey
  <2> HIDE DEF row
  <2>3. KeyOf[r] \in Keys OBVIOUS
  <2>4. KeyReport[KeyOf[r]] = status[row]
    BY <1>1, <2>3 DEF KeyReport, row
  <2>5. KeyHanded[KeyOf[r]] = submitted[row]
    BY <1>1, <2>3 DEF KeyHanded, row
  <2> QED BY <2>2, <2>4, <2>5
<1>2. ASSUME NEW k \in Keys, \A r \in Requests : KeyOf[r] = k => status[r] = "absent"
      PROVE  KeyReport[k] = "absent" /\ KeyHanded[k] = 0
  BY <1>2 DEF KeyReport, KeyHanded
<1> QED BY <1>1, <1>2 DEF KeysShowRows

(* A key whose rows keep their status and count shows what it showed.      *)
LEMMA KeyStays ==
  ASSUME KeysShowRows, KeysShowRows', NEW k \in Keys,
         \A r \in Requests : KeyOf[r] = k => status'[r] = status[r] /\ submitted'[r] = submitted[r]
  PROVE  KeyReport'[k] = KeyReport[k] /\ KeyHanded'[k] = KeyHanded[k]
<1>1. CASE \A r \in Requests : KeyOf[r] = k => status[r] = "absent"
  BY <1>1 DEF KeysShowRows
<1>2. CASE \E r \in Requests : KeyOf[r] = k /\ status[r] # "absent"
  BY <1>2 DEF KeysShowRows
<1> QED BY <1>1, <1>2

LEMMA KeyFunctions ==
  /\ KeyReport = [k \in Keys |-> KeyReport[k]] /\ KeyHanded = [k \in Keys |-> KeyHanded[k]]
  /\ KeyReport' = [k \in Keys |-> KeyReport'[k]] /\ KeyHanded' = [k \in Keys |-> KeyHanded'[k]]
<1>1. KeyReport = [k \in Keys |-> KeyReport[k]] BY DEF KeyReport
<1>2. KeyHanded = [k \in Keys |-> KeyHanded[k]] BY DEF KeyHanded
<1>3. KeyReport' = [k \in Keys |-> KeyReport'[k]] BY DEF KeyReport
<1>4. KeyHanded' = [k \in Keys |-> KeyHanded'[k]] BY DEF KeyHanded
<1> QED BY <1>1, <1>2, <1>3, <1>4

(* When one row changes, its key shows it and no other key changes.        *)
LEMMA KeyFollowsRow ==
  ASSUME KeysShowRows, KeysShowRows', NEW m \in Requests, status'[m] # "absent",
         \A r \in Requests \ {m} : status'[r] = status[r] /\ submitted'[r] = submitted[r]
  PROVE  /\ KeyReport' = [KeyReport EXCEPT ![KeyOf[m]] = status'[m]]
         /\ KeyHanded' = [KeyHanded EXCEPT ![KeyOf[m]] = submitted'[m]]
<1>1. KeyReport'[KeyOf[m]] = status'[m] /\ KeyHanded'[KeyOf[m]] = submitted'[m]
  BY DEF KeysShowRows
<1>2. ASSUME NEW k \in Keys, k # KeyOf[m]
      PROVE  KeyReport'[k] = KeyReport[k] /\ KeyHanded'[k] = KeyHanded[k]
  BY <1>2, KeyStays
<1>3. KeyOf[m] \in Keys OBVIOUS
<1> QED BY <1>1, <1>2, <1>3, KeyFunctions

(* Only Send hands a credential over, once, for a row that is being sent   *)
(* or that the reconciler has given up meanwhile.                          *)
LEMMA SubmitStep ==
  ASSUME ClaimInv, Next
  PROVE  \/ UNCHANGED submitted
         \/ /\ UNCHANGED status
            /\ \E m \in Requests : /\ status[m] \in {"sending", "failed"} /\ submitted[m] = 0
                                  /\ submitted' = [submitted EXCEPT ![m] = 1]
<1>1. ASSUME NEW w \in Workers, Send(w), ~UNCHANGED submitted
      PROVE  /\ UNCHANGED status
             /\ \E m \in Requests : /\ status[m] \in {"sending", "failed"} /\ submitted[m] = 0
                                   /\ submitted' = [submitted EXCEPT ![m] = 1]
  <2>1. Msg(w) \in Requests /\ wpc[w] = "send"
    BY <1>1, JobMsg DEF Send, ClaimInv, BusyHasJob
  <2>2. submitted[Msg(w)] = 0 /\ status[Msg(w)] \in {"sending", "failed"}
    BY <2>1 DEF ClaimInv, Unspent, ClaimHolds, PreSubmit, Claimed, TypeOK, Status
  <2>3. UNCHANGED status /\ submitted' = [submitted EXCEPT ![Msg(w)] = @ + 1]
    BY <1>1 DEF Send
  <2>4. submitted' = [submitted EXCEPT ![Msg(w)] = 1] BY <2>2, <2>3
  <2> HIDE DEF Msg
  <2> QED BY <2>1, <2>2, <2>3, <2>4
<1>2. UNCHANGED submitted \/ \E w \in Workers : Send(w)
  BY DEF Next, RequestStep, Begin, Seal, ChargeMonth, ChargeDay, GiveBack, Insert, Lost, Reenqueue, Undo, RefundMonth, RefundDay,
         WriteAudit, Enqueue, Abandon, ReconcileSelect, Tick, Take, Stall, Crash,
         ReconcileCommit, ReconcilePurge, ReconcileCrash, WorkerStep, Load, Expire, Gate,
         Refuse, Configure, Claim, RecordSending, CheckSuppressed, Suppress, TakeContent,
         RecordSent, FailUnclaimed, FailClaimed, Purge, Finish
<1> QED BY <1>1, <1>2

LEMMA PromiseInit == Init => Promise!Init
<1> SUFFICES ASSUME Init PROVE Promise!Init OBVIOUS
<1>1. \A r \in Requests : status[r] = "absent" BY DEF Init
<1>2. KeyReport = [k \in Keys |-> "absent"] BY <1>1 DEF KeyReport
<1>3. KeyHanded = [k \in Keys |-> 0] BY <1>1 DEF KeyHanded
<1> QED BY <1>2, <1>3 DEF Promise!Init

(* Each step of a handler, a worker or the reconciler is a step the        *)
(* customer was promised, or shows nothing.                                *)
LEMMA PromiseStep ==
  ASSUME ClaimInv, KeysShowRows, KeysShowRows', [Next]_vars
  PROVE  [Promise!Next]_<<KeyReport, KeyHanded>>
<1> DEFINE Kept == UNCHANGED <<KeyReport, KeyHanded>>
<1> USE DEF ClaimInv
<1>1. ASSUME UNCHANGED <<status, submitted>> PROVE Kept
  <2>1. \A k \in Keys : KeyReport'[k] = KeyReport[k] /\ KeyHanded'[k] = KeyHanded[k]
    BY <1>1, KeyStays
  <2> QED BY <2>1, KeyFunctions
<1>2. ASSUME NEW m \in Requests, NEW s \in Status \ {"absent"}, UNCHANGED submitted,
             status' = [status EXCEPT ![m] = s],
             \/ status[m] # "absent"
             \/ \A r \in Requests : KeyOf[r] = KeyOf[m] => status[r] = "absent"
      PROVE  /\ KeyReport' = [KeyReport EXCEPT ![KeyOf[m]] = s]
             /\ KeyHanded' = KeyHanded
             /\ KeyReport[KeyOf[m]] = status[m] /\ KeyHanded[KeyOf[m]] = submitted[m]
  <2>1. /\ status'[m] = s
        /\ \A r \in Requests \ {m} : status'[r] = status[r] /\ submitted'[r] = submitted[r]
    BY <1>2 DEF TypeOK
  <2>2. /\ KeyReport' = [KeyReport EXCEPT ![KeyOf[m]] = s]
        /\ KeyHanded' = [KeyHanded EXCEPT ![KeyOf[m]] = submitted[m]]
    BY <1>2, <2>1, KeyFollowsRow
  <2>3. KeyReport[KeyOf[m]] = status[m] /\ KeyHanded[KeyOf[m]] = submitted[m]
    <3>1. CASE status[m] # "absent" BY <3>1 DEF KeysShowRows
    <3>2. CASE \A r \in Requests : KeyOf[r] = KeyOf[m] => status[r] = "absent"
      <4>1. status[m] = "absent" /\ submitted[m] = 0 BY <3>2 DEF Spent, TypeOK
      <4>2. KeyOf[m] \in Keys OBVIOUS
      <4> QED BY <3>2, <4>1, <4>2 DEF KeysShowRows
    <3> QED BY <1>2, <3>1, <3>2
  <2>4. KeyHanded' = KeyHanded BY <2>2, <2>3, KeyFunctions
  <2> QED BY <2>2, <2>3, <2>4
<1>3. ASSUME NEW m \in Requests, RowMoves(m, {"absent"}, "queued"), Insert(m), UNCHANGED submitted
      PROVE  Promise!Accept(KeyOf[m])
  <2>1. \A r \in Requests : KeyOf[r] = KeyOf[m] => status[r] = "absent"
    <3>1. status'[m] = "queued" /\ status[m] = "absent" BY <1>3 DEF RowMoves, TypeOK
    <3> QED BY <1>3, <3>1 DEF Insert, Winners
  <2> QED BY <1>2, <1>3, <2>1 DEF Promise!Accept, Promise!Say, Status, RowMoves
<1>4. ASSUME NEW m \in Requests, RowMoves(m, {"queued"}, "sending"), UNCHANGED submitted
      PROVE  Promise!Start(KeyOf[m])
  BY <1>2, <1>4 DEF Promise!Start, Promise!Say, Status, RowMoves
<1>5. ASSUME NEW m \in Requests, UNCHANGED submitted,
             \/ RowMoves(m, {"queued", "sending"}, "failed")
             \/ RowMoves(m, {"sending", "failed"}, "suppressed") /\ submitted[m] = 0
             \/ RowMoves(m, {"sending", "failed"}, "sent") /\ submitted[m] = 1
      PROVE  Promise!Settle(KeyOf[m])
  <2>1. CASE RowMoves(m, {"queued", "sending"}, "failed")
    BY <1>2, <1>5, <2>1 DEF Promise!Settle, Promise!Say, Status, RowMoves
  <2>2. CASE RowMoves(m, {"sending", "failed"}, "suppressed") /\ submitted[m] = 0
    BY <1>2, <1>5, <2>2 DEF Promise!Settle, Promise!Say, Status, RowMoves
  <2>3. CASE RowMoves(m, {"sending", "failed"}, "sent") /\ submitted[m] = 1
    BY <1>2, <1>5, <2>3 DEF Promise!Settle, Promise!Say, Status, RowMoves
  <2> QED BY <1>5, <2>1, <2>2, <2>3
<1>6. ASSUME NEW m \in Requests, UNCHANGED status, status[m] \in {"sending", "failed"},
             submitted[m] = 0, submitted' = [submitted EXCEPT ![m] = 1]
      PROVE  Promise!HandOver(KeyOf[m])
  <2>1. /\ status'[m] = status[m] /\ submitted'[m] = 1
        /\ \A r \in Requests \ {m} : status'[r] = status[r] /\ submitted'[r] = submitted[r]
    BY <1>6 DEF TypeOK
  <2>2. /\ KeyReport' = [KeyReport EXCEPT ![KeyOf[m]] = status[m]]
        /\ KeyHanded' = [KeyHanded EXCEPT ![KeyOf[m]] = 1]
    BY <1>6, <2>1, KeyFollowsRow
  <2>3. KeyReport[KeyOf[m]] = status[m] /\ KeyHanded[KeyOf[m]] = 0
    BY <1>6 DEF KeysShowRows
  <2>4. KeyReport' = KeyReport
    <3>1. \A k \in Keys : KeyReport'[k] = KeyReport[k] BY <2>2, <2>3, KeyFunctions
    <3> QED BY <3>1, KeyFunctions
  <2> QED BY <1>6, <2>2, <2>3, <2>4 DEF Promise!HandOver
<1>7. \A m \in Requests : KeyOf[m] \in Keys OBVIOUS
<1>8. CASE UNCHANGED vars BY <1>1, <1>8 DEF vars
<1>9. CASE Next
  <2>1. CASE UNCHANGED <<status, submitted>> BY <1>1, <2>1
  <2>2. CASE UNCHANGED submitted /\ ~UNCHANGED status
    BY <1>3, <1>4, <1>5, <1>7, <1>9, <2>2, StatusStep DEF Promise!Next
  <2>3. CASE ~UNCHANGED submitted
    BY <1>6, <1>7, <1>9, <2>3, SubmitStep DEF Promise!Next
  <2> QED BY <2>1, <2>2, <2>3
<1> QED BY <1>8, <1>9

(* For every value of the constants: whatever the handlers, the workers    *)
(* and the reconciler do, each key shows a behaviour of OneShotMail.       *)
THEOREM PromiseKept == Spec => ImplementsPromise
<1>1. ClaimInv => KeysShowRows BY KeysShow DEF ClaimInv
<1>2. ClaimInv /\ KeysShowRows /\ KeysShowRows' /\ [Next]_vars
        => [Promise!Next]_<<KeyReport, KeyHanded>>
  BY PromiseStep
<1> QED BY <1>1, <1>2, ClaimInvariant, PromiseInit, PTL DEF Spec, ImplementsPromise, Promise!Spec

HIDE DEF apiVars, queueVars, workerVars, Go, Step, Rest, SetStatus, Add, Remove, Msg,
        EnqueueSend, CompareAndSet, Replay, Resting, Sweeping, quotaVars, Count, Uncount,
        Throws

-----------------------------------------------------------------------------
(* The hook                                                                *)

USE TimeAssumption, NoEntryAssumption

-----------------------------------------------------------------------------
(* The inductive invariant, by part                                        *)

EntryIsLedger == \A c \in Calls : entry[c] # NoEntry => entry[c] = ledger
Holding == \A c \in Calls : place[c] \in {"check", "send"} => entry[c] # NoEntry
OnWire ==
  \A c \in Calls, r \in Recipients :
    leg[c][r] = "wire" => entry[c] # NoEntry /\ place[c] \in {"send"} \cup Answers
BoundIsLedger == \A r \in Recipients : bound[r] # NoEntry => bound[r] = ledger
NoConflict == \A c \in Calls, r \in Recipients : leg[c][r] # "conflict"
InTimeWhenSent == \A c \in Calls : place[c] = "send" => entry[c].deadline <= proposed[c]
SentIsHanded == \A r \in Recipients : report[r] = "sent" => handed[r] = 1
Heard == \A c \in Calls, r \in Recipients : leg[c][r] \in Receipts => report[r] # "absent"
HeardSent == \A c \in Calls, r \in Recipients : leg[c][r] = "sent" => report[r] = "sent"
OkSent == \A c \in Calls : place[c] = "200" => \A r \in Recipients : report[r] = "sent"

LedgerInv == EntryIsLedger /\ Holding /\ OnWire /\ BoundIsLedger /\ NoConflict /\ InTimeWhenSent
ReceiptInv == SentIsHanded /\ Heard /\ HeardSent /\ OkSent

USE DEF eventVars, serverVars, At, Goto, LegAt

-----------------------------------------------------------------------------
(* Effects of the shared steps                                             *)

LEMMA NotAnEntry == NoEntry \notin Entries
  BY DEF Entries

LEMMA MineType ==
  ASSUME HookTypeOK, NEW c \in Calls
  PROVE  Mine(c) \in Entries
  BY DEF HookTypeOK, Mine, Entries

LEMMA LegEffect ==
  ASSUME HookTypeOK, NEW c \in Calls, NEW r \in Recipients, NEW l \in Legs, LegAt(c, r, l)
  PROVE  /\ leg' \in [Calls -> [Recipients -> Legs]]
         /\ leg'[c][r] = l
         /\ \A d \in Calls, q \in Recipients : <<d, q>> # <<c, r>> => leg'[d][q] = leg[d][q]
  BY DEF HookTypeOK

LEMMA AnswerEffect ==
  ASSUME HookTypeOK, NEW c \in Calls, NEW code \in Answers, Answer(c, code)
  PROVE  /\ place' \in [Calls -> {"away", "claim", "check", "send"} \cup Answers]
         /\ leg' \in [Calls -> [Recipients -> Legs]]
         /\ entry' \in [Calls -> Entries \cup {NoEntry}]
         /\ proposed' \in [Calls -> 0..(LastTime + Lifetime)]
         /\ place'[c] = code
         /\ \A r \in Recipients : leg'[c][r] = IF leg[c][r] = "wire" THEN "wire" ELSE "over"
         /\ entry'[c] \in {entry[c], NoEntry}
         /\ (\E r \in Recipients : leg[c][r] = "wire") => entry'[c] = entry[c]
         /\ \A d \in Calls \ {c} :
              place'[d] = place[d] /\ leg'[d] = leg[d] /\ entry'[d] = entry[d] /\ proposed'[d] = proposed[d]
<1>1. "over" \in Legs /\ "wire" \in Legs
  BY DEF Legs
<1>2. leg' \in [Calls -> [Recipients -> Legs]]
  BY <1>1 DEF Answer, HookTypeOK
<1>3. \A r \in Recipients : leg'[c][r] = IF leg[c][r] = "wire" THEN "wire" ELSE "over"
  BY DEF Answer, HookTypeOK
<1> QED BY <1>2, <1>3 DEF Answer, HookTypeOK

LEMMA ReplyEffect ==
  ASSUME HookTypeOK, NEW c \in Calls, NEW r \in Recipients, NEW l \in Legs, Reply(c, r, l)
  PROVE  /\ leg' \in [Calls -> [Recipients -> Legs]]
         /\ entry' \in [Calls -> Entries \cup {NoEntry}]
         /\ leg'[c][r] = (IF place[c] = "send" THEN l ELSE "over")
         /\ \A d \in Calls, q \in Recipients : <<d, q>> # <<c, r>> => leg'[d][q] = leg[d][q]
         /\ \A d \in Calls \ {c} : entry'[d] = entry[d]
         /\ entry'[c] \in {entry[c], NoEntry}
         /\ place[c] = "send" \/ (\E q \in Recipients \ {r} : leg[c][q] = "wire") => entry' = entry
         /\ UNCHANGED <<now, ledger, place, proposed>>
<1> DEFINE m == IF At(c, "send") THEN l ELSE "over"
<1>1. m \in Legs
  BY DEF Legs
<1>2. LegAt(c, r, m)
  BY DEF Reply
<1>3. entry' \in [Calls -> Entries \cup {NoEntry}]
  BY DEF Reply, HookTypeOK
<1>4. /\ leg' \in [Calls -> [Recipients -> Legs]] /\ leg'[c][r] = m
      /\ \A d \in Calls, q \in Recipients : <<d, q>> # <<c, r>> => leg'[d][q] = leg[d][q]
  <2> HIDE DEF m
  <2> HIDE DEF LegAt
  <2> QED BY <1>1, <1>2, LegEffect
<1>5. /\ \A d \in Calls \ {c} : entry'[d] = entry[d]
      /\ entry'[c] \in {entry[c], NoEntry}
      /\ place[c] = "send" \/ (\E q \in Recipients \ {r} : leg[c][q] = "wire") => entry' = entry
  BY DEF Reply, HookTypeOK
<1> QED BY <1>3, <1>4, <1>5 DEF Reply

-----------------------------------------------------------------------------
(* Types                                                                   *)

LEMMA HookTypeInit == HookInit => HookTypeOK
  BY DEF HookInit, HookTypeOK, Server!Init, Legs, Receipts

LEMMA EarlierType ==
  ASSUME NEW a \in Nat, NEW b \in Nat
  PROVE  Min({a, b}) \in Nat /\ Min({a, b}) <= a /\ Min({a, b}) <= b
<1>1. \E x \in {a, b} : \A y \in {a, b} : x <= y
  BY SMT
<1>2. Min({a, b}) \in {a, b} /\ \A y \in {a, b} : Min({a, b}) <= y
  BY <1>1, Zenon DEF Min
<1> QED BY <1>2

LEMMA ReportStep ==
  ASSUME HookTypeOK, NEW r \in Recipients,
         Server!Start(r) \/ Server!HandOver(r) \/ Server!Settle(r)
  PROVE  /\ report' \in [Recipients -> Receipts \cup {"absent"}] /\ handed' \in [Recipients -> 0..1]
         /\ \A q \in Recipients : report'[q] = "absent" <=> report[q] = "absent"
         /\ \A q \in Recipients : report[q] = "sent" => report'[q] = "sent"
         /\ \A q \in Recipients : report'[q] = "sent" => report[q] = "sent" \/ handed[q] = 1
         /\ \A q \in Recipients : handed[q] = 1 => handed'[q] = 1
<1>1. CASE Server!Start(r)
  BY <1>1 DEF HookTypeOK, Server!Start, Server!Say, Receipts
<1>2. CASE Server!HandOver(r)
  BY <1>2 DEF HookTypeOK, Server!HandOver, Receipts
<1>3. CASE Server!Settle(r)
  BY <1>3 DEF HookTypeOK, Server!Settle, Server!Say, Receipts
<1> QED BY <1>1, <1>2, <1>3

LEMMA HookTypeStep ==
  ASSUME HookTypeOK, OnWire, Heard, [HookNext]_hookVars
  PROVE  HookTypeOK'
<1>1. ASSUME NEW c \in Calls, Deliver(c) PROVE HookTypeOK'
  <2>1. PICK at \in 0..(now + Skew) : proposed' = [proposed EXCEPT ![c] = Min({now, at}) + Lifetime]
    BY <1>1 DEF Deliver
  <2>2. now \in Nat /\ at \in Nat /\ now <= LastTime
    BY DEF HookTypeOK
  <2>3. Min({now, at}) + Lifetime \in 0..(LastTime + Lifetime)
    BY <2>2, EarlierType
  <2>4. proposed' \in [Calls -> 0..(LastTime + Lifetime)]
    BY <2>1, <2>3 DEF HookTypeOK
  <2> QED BY <1>1, <2>4 DEF Deliver, HookTypeOK
<1>2. ASSUME NEW c \in Calls, ClaimEvent(c) PROVE HookTypeOK'
  BY <1>2, MineType DEF ClaimEvent, HookTypeOK
<1>3. ASSUME NEW c \in Calls, Check(c) PROVE HookTypeOK'
  <2>1. CASE \E code \in Answers : Answer(c, code)
    BY <1>3, <2>1, AnswerEffect DEF Check, HookTypeOK
  <2>2. CASE ~\E code \in Answers : Answer(c, code)
    <3>1. Goto(c, "send") /\ leg' = [leg EXCEPT ![c] = [r \in Recipients |-> "post"]] /\ UNCHANGED <<proposed, entry>>
      BY <1>3, <2>2 DEF Check, Answers
    <3>2. leg' \in [Calls -> [Recipients -> Legs]]
      BY <3>1 DEF HookTypeOK, Legs
    <3> QED BY <1>3, <3>1, <3>2 DEF Check, HookTypeOK
  <2> QED BY <2>1, <2>2
<1>4. ASSUME NEW c \in Calls, NEW r \in Recipients, Post(c, r) \/ Poll(c, r) PROVE HookTypeOK'
  <2>1. \E l \in Legs : LegAt(c, r, l)
    <3>1. CASE Post(c, r)
      <4>1. "wire" \in Legs /\ LegAt(c, r, "wire")
        BY <3>1 DEF Post, Legs
      <4> QED BY <4>1
    <3>2. CASE Poll(c, r)
      <4>1. report[r] \in Legs /\ LegAt(c, r, report[r])
        BY <3>2 DEF Poll, Heard, HookTypeOK, Legs, Receipts
      <4> QED BY <4>1
    <3> QED BY <1>4, <3>1, <3>2
  <2>2. leg' \in [Calls -> [Recipients -> Legs]]
    BY <2>1, LegEffect
  <2> QED BY <1>4, <2>2 DEF Post, Poll, HookTypeOK
<1>5. ASSUME NEW c \in Calls, Fail(c) \/ Succeed(c) \/ Abort(c) PROVE HookTypeOK'
  <2>1. PICK code \in Answers : Answer(c, code)
    BY <1>5 DEF Fail, Succeed, Abort, Answers
  <2>2. UNCHANGED <<now, ledger, serverVars>>
    BY <1>5 DEF Fail, Succeed, Abort
  <2> QED BY <2>1, <2>2, AnswerEffect DEF HookTypeOK
<1>6. ASSUME NEW c \in Calls, NEW r \in Recipients, Serve(c, r) PROVE HookTypeOK'
  <2>1. entry[c] \in Entries
    BY <1>6 DEF Serve, OnWire, HookTypeOK
  <2>2. \E l \in Legs : Reply(c, r, l)
    BY <1>6 DEF Serve, HookTypeOK, Legs, Receipts
  <2>3. CASE UNCHANGED serverVars
    BY <2>2, <2>3, ReplyEffect DEF HookTypeOK
  <2>4. CASE Server!Accept(r) /\ bound' = [bound EXCEPT ![r] = entry[c]]
    <3>1. report' \in [Recipients -> Receipts \cup {"absent"}] /\ handed' = handed
          /\ bound' \in [Recipients -> Entries \cup {NoEntry}]
      BY <2>1, <2>4 DEF HookTypeOK, Server!Accept, Server!Say, Receipts
    <3>2. \A q \in Recipients : bound'[q] = NoEntry <=> report'[q] = "absent"
      BY <2>1, <2>4, NotAnEntry DEF HookTypeOK, Server!Accept, Server!Say
    <3> QED BY <2>2, <3>1, <3>2, ReplyEffect DEF HookTypeOK
  <2> QED BY <1>6, <2>3, <2>4 DEF Serve
<1>7. ASSUME NEW r \in Recipients, Work(r) PROVE HookTypeOK'
  BY <1>7, ReportStep DEF Work, HookTypeOK
<1>8. CASE HookTick \/ UNCHANGED hookVars
  BY <1>8 DEF HookTick, hookVars, HookTypeOK
<1> QED BY <1>1, <1>2, <1>3, <1>4, <1>5, <1>6, <1>7, <1>8 DEF HookNext

-----------------------------------------------------------------------------
(* One input for each key                                                  *)

LEMMA LedgerStep ==
  ASSUME HookTypeOK, LedgerInv, Heard, [HookNext]_hookVars
  PROVE  LedgerInv'
<1> USE DEF LedgerInv
<1>1. ASSUME NEW c \in Calls, Deliver(c) PROVE LedgerInv'
  <2>1. place' = [place EXCEPT ![c] = "claim"] /\ place[c] = "away"
        /\ UNCHANGED <<ledger, entry, leg, bound>>
        /\ \A d \in Calls \ {c} : proposed'[d] = proposed[d]
    BY <1>1 DEF Deliver, HookTypeOK
  <2> QED BY <2>1 DEF HookTypeOK, EntryIsLedger, Holding, OnWire, BoundIsLedger, NoConflict, InTimeWhenSent, Answers
<1>2. ASSUME NEW c \in Calls, ClaimEvent(c) PROVE LedgerInv'
  <2>1. ledger' # NoEntry /\ (ledger # NoEntry => ledger' = ledger)
    BY <1>2, MineType, NotAnEntry DEF ClaimEvent
  <2>2. entry'[c] = ledger' /\ (\A d \in Calls \ {c} : entry'[d] = entry[d])
        /\ place'[c] = "check" /\ (\A d \in Calls \ {c} : place'[d] = place[d])
        /\ place[c] = "claim" /\ UNCHANGED <<proposed, leg, bound>>
    BY <1>2 DEF ClaimEvent, HookTypeOK
  <2>3. EntryIsLedger' /\ Holding' /\ BoundIsLedger' /\ NoConflict' /\ InTimeWhenSent'
    BY <2>1, <2>2 DEF EntryIsLedger, Holding, BoundIsLedger, NoConflict, InTimeWhenSent
  <2>4. OnWire'
    BY <2>1, <2>2 DEF OnWire, Answers
  <2> QED BY <2>3, <2>4
<1>3. ASSUME NEW c \in Calls, NEW code \in Answers, Answer(c, code), UNCHANGED <<now, ledger, serverVars>>
      PROVE LedgerInv'
  <2>1. EntryIsLedger' /\ BoundIsLedger'
    BY <1>3, AnswerEffect DEF EntryIsLedger, BoundIsLedger
  <2>2. Holding' /\ InTimeWhenSent'
    <3>1. place'[c] \notin {"check", "send"}
      BY <1>3, AnswerEffect DEF Answers
    <3>2. \A d \in Calls \ {c} : place'[d] = place[d] /\ entry'[d] = entry[d] /\ proposed'[d] = proposed[d]
      BY <1>3, AnswerEffect
    <3> QED BY <3>1, <3>2 DEF Holding, InTimeWhenSent
  <2>3. OnWire'
    BY <1>3, AnswerEffect DEF OnWire
  <2>4. NoConflict'
    BY <1>3, AnswerEffect DEF NoConflict
  <2> QED BY <2>1, <2>2, <2>3, <2>4
<1>4. ASSUME NEW c \in Calls, Check(c), ~\E code \in Answers : Answer(c, code) PROVE LedgerInv'
  <2>1. /\ EntryInTime(c) /\ At(c, "check") /\ Goto(c, "send")
        /\ leg' = [leg EXCEPT ![c] = [r \in Recipients |-> "post"]]
        /\ UNCHANGED <<proposed, entry, ledger, bound>>
    BY <1>4 DEF Check, Answers
  <2>2. \A d \in Calls, r \in Recipients : leg'[d][r] = IF d = c THEN "post" ELSE leg[d][r]
    BY <2>1 DEF HookTypeOK
  <2>3. place'[c] = "send" /\ \A d \in Calls \ {c} : place'[d] = place[d]
    BY <2>1 DEF HookTypeOK
  <2>4. EntryIsLedger' /\ Holding' /\ BoundIsLedger'
    BY <2>1, <2>3 DEF EntryIsLedger, Holding, BoundIsLedger
  <2>5. OnWire' /\ NoConflict'
    BY <2>1, <2>2, <2>3 DEF OnWire, NoConflict
  <2>6. InTimeWhenSent'
    BY <2>1, <2>3 DEF InTimeWhenSent, EntryInTime
  <2> QED BY <2>4, <2>5, <2>6
<1>5. ASSUME NEW c \in Calls, NEW r \in Recipients, Post(c, r) \/ Poll(c, r) PROVE LedgerInv'
  <2>1. place[c] = "send" /\ UNCHANGED <<now, ledger, place, proposed, entry, serverVars>>
    BY <1>5 DEF Post, Poll
  <2>2. PICK l \in Legs : LegAt(c, r, l) /\ l # "conflict"
    <3>1. CASE Post(c, r)
      <4>1. "wire" \in Legs /\ LegAt(c, r, "wire")
        BY <3>1 DEF Post, Legs
      <4> QED BY <4>1
    <3>2. CASE Poll(c, r)
      <4>1. LegAt(c, r, report[r]) /\ report[r] \in Receipts \cup {"absent"} /\ leg[c][r] \in Receipts
        BY <3>2 DEF Poll, HookTypeOK, Receipts
      <4>2. report[r] # "absent"
        BY <4>1 DEF Heard
      <4> QED BY <4>1, <4>2 DEF Legs, Receipts
    <3> QED BY <1>5, <3>1, <3>2
  <2>3. EntryIsLedger' /\ Holding' /\ BoundIsLedger' /\ InTimeWhenSent'
    BY <2>1 DEF EntryIsLedger, Holding, BoundIsLedger, InTimeWhenSent
  <2>4. OnWire' /\ NoConflict'
    BY <2>1, <2>2, LegEffect DEF OnWire, NoConflict, Holding
  <2> QED BY <2>3, <2>4
<1>6. ASSUME NEW c \in Calls, NEW r \in Recipients, Serve(c, r) PROVE LedgerInv'
  <2>1. leg[c][r] = "wire" /\ entry[c] = ledger /\ ledger # NoEntry
    BY <1>6 DEF Serve, OnWire, EntryIsLedger
  <2>2. PICK l \in Legs : Reply(c, r, l) /\ l # "wire" /\ l # "conflict"
    BY <1>6, <2>1 DEF Serve, BoundIsLedger, HookTypeOK, Legs, Receipts
  <2>3. bound' = bound \/ bound' = [bound EXCEPT ![r] = ledger]
    BY <1>6, <2>1 DEF Serve
  <2>4. UNCHANGED <<now, ledger, place, proposed>>
    BY <2>2, ReplyEffect
  <2>5. EntryIsLedger' /\ BoundIsLedger'
    <3>1. \A d \in Calls : entry'[d] \in {entry[d], NoEntry}
      BY <2>2, ReplyEffect
    <3>2. \A q \in Recipients : bound'[q] \in {bound[q], ledger}
      BY <2>3 DEF HookTypeOK
    <3> QED BY <2>4, <3>1, <3>2 DEF EntryIsLedger, BoundIsLedger
  <2>6. Holding' /\ InTimeWhenSent'
    <3>1. \A d \in Calls : place[d] \in {"check", "send"} => entry'[d] = entry[d]
      BY <2>1, <2>2, ReplyEffect DEF OnWire, Answers
    <3> QED BY <2>4, <3>1 DEF Holding, InTimeWhenSent
  <2>7. NoConflict'
    BY <2>2, ReplyEffect DEF NoConflict
  <2>8. OnWire'
    <3>1. leg'[c][r] # "wire"
      BY <2>2, ReplyEffect
    <3>2. \A d \in Calls, q \in Recipients : leg'[d][q] = "wire" => leg[d][q] = "wire" /\ entry'[d] = entry[d]
      BY <2>2, <3>1, ReplyEffect
    <3> QED BY <2>4, <3>2 DEF OnWire
  <2> QED BY <2>5, <2>6, <2>7, <2>8
<1>7. ASSUME NEW c \in Calls, Fail(c) \/ Succeed(c) \/ Abort(c) PROVE LedgerInv'
  <2>1. \E code \in Answers : Answer(c, code)
    BY <1>7 DEF Fail, Succeed, Abort, Answers
  <2> QED BY <1>3, <1>7, <2>1 DEF Fail, Succeed, Abort
<1>8. CASE UNCHANGED <<eventVars, bound>>
  BY <1>8 DEF EntryIsLedger, Holding, OnWire, BoundIsLedger, NoConflict, InTimeWhenSent
<1>9. ASSUME NEW c \in Calls, Check(c) PROVE LedgerInv'
  BY <1>3, <1>4, <1>9 DEF Check
<1> QED BY <1>1, <1>2, <1>5, <1>6, <1>7, <1>8, <1>9 DEF HookNext, Work, HookTick, hookVars

-----------------------------------------------------------------------------
(* Success is the provider's acceptance                                    *)

LEMMA ReceiptStep ==
  ASSUME HookTypeOK, LedgerInv, ReceiptInv, [HookNext]_hookVars
  PROVE  ReceiptInv'
<1> USE DEF ReceiptInv
<1>1. ASSUME NEW c \in Calls, NEW code \in Answers, Answer(c, code), UNCHANGED serverVars,
             code = "200" => \A r \in Recipients : report[r] = "sent"
      PROVE ReceiptInv'
  <2>1. \A d \in Calls, r \in Recipients : leg'[d][r] \in {leg[d][r], "wire", "over"}
    BY <1>1, AnswerEffect
  <2>2. SentIsHanded' /\ Heard' /\ HeardSent'
    BY <1>1, <2>1 DEF SentIsHanded, Heard, HeardSent, Receipts
  <2>3. OkSent'
    BY <1>1, AnswerEffect DEF OkSent
  <2> QED BY <2>2, <2>3
<1>2. ASSUME NEW c \in Calls, Fail(c) \/ Succeed(c) \/ Abort(c) PROVE ReceiptInv'
  <2>1. PICK code \in Answers : /\ Answer(c, code)
                                /\ code = "200" => \A r \in Recipients : leg[c][r] = "sent"
    BY <1>2 DEF Fail, Succeed, Abort, Answers
  <2> QED BY <1>1, <1>2, <2>1 DEF Fail, Succeed, Abort, HeardSent
<1>3. ASSUME NEW c \in Calls, Check(c) PROVE ReceiptInv'
  <2>1. CASE \E code \in {"409", "422"} : Answer(c, code)
    BY <1>1, <1>3, <2>1 DEF Check, Answers
  <2>2. CASE ~\E code \in {"409", "422"} : Answer(c, code)
    <3>1. /\ Goto(c, "send") /\ leg' = [leg EXCEPT ![c] = [r \in Recipients |-> "post"]]
          /\ UNCHANGED serverVars
      BY <1>3, <2>2 DEF Check
    <3>2. \A d \in Calls, r \in Recipients : leg'[d][r] \in {leg[d][r], "post"}
      BY <3>1 DEF HookTypeOK
    <3>3. \A d \in Calls : place'[d] \in {place[d], "send"}
      BY <3>1 DEF HookTypeOK
    <3> QED BY <3>1, <3>2, <3>3 DEF SentIsHanded, Heard, HeardSent, OkSent, Receipts
  <2> QED BY <2>1, <2>2
<1>4. ASSUME NEW c \in Calls, Deliver(c) \/ ClaimEvent(c) PROVE ReceiptInv'
  <2>1. UNCHANGED <<leg, serverVars>> /\ (\A d \in Calls : place'[d] = "200" => place[d] = "200")
    BY <1>4 DEF Deliver, ClaimEvent, HookTypeOK
  <2> QED BY <2>1 DEF SentIsHanded, Heard, HeardSent, OkSent
<1>5. ASSUME NEW c \in Calls, NEW r \in Recipients, NEW l \in Legs,
             \A d \in Calls, q \in Recipients : <<d, q>> # <<c, r>> => leg'[d][q] = leg[d][q],
             leg'[c][r] = l, l \in Receipts => report[r] = l,
             UNCHANGED <<place, report, handed>>
      PROVE ReceiptInv'
  BY <1>5 DEF SentIsHanded, Heard, HeardSent, OkSent, Receipts
<1>6. ASSUME NEW c \in Calls, NEW r \in Recipients, Post(c, r) PROVE ReceiptInv'
  <2>1. "wire" \in Legs /\ "wire" \notin Receipts /\ LegAt(c, r, "wire") /\ UNCHANGED <<place, serverVars>>
    BY <1>6 DEF Post, Legs, Receipts
  <2>2. PICK l \in Legs : l = "wire" /\ LegAt(c, r, l)
    BY <2>1
  <2>3. /\ leg'[c][r] = l
        /\ \A d \in Calls, q \in Recipients : <<d, q>> # <<c, r>> => leg'[d][q] = leg[d][q]
    BY <2>2 DEF HookTypeOK
  <2> QED BY <2>1, <2>2, <2>3, <1>5
<1>7. ASSUME NEW c \in Calls, NEW r \in Recipients, Poll(c, r) PROVE ReceiptInv'
  <2>1. leg[c][r] \in Receipts /\ report[r] \in Receipts \cup {"absent"}
        /\ LegAt(c, r, report[r]) /\ UNCHANGED <<place, serverVars>>
    BY <1>7 DEF Poll, HookTypeOK, Receipts
  <2>2. report[r] \in Legs
    BY <2>1 DEF Heard, Legs
  <2>3. PICK l \in Legs : l = report[r] /\ LegAt(c, r, l)
    BY <2>1, <2>2
  <2>4. /\ leg'[c][r] = l
        /\ \A d \in Calls, q \in Recipients : <<d, q>> # <<c, r>> => leg'[d][q] = leg[d][q]
    BY <2>3 DEF HookTypeOK
  <2> QED BY <2>1, <2>3, <2>4, <1>5
<1>8. ASSUME NEW c \in Calls, NEW r \in Recipients, Serve(c, r) PROVE ReceiptInv'
  <2>1. CASE Server!Accept(r) /\ Reply(c, r, "queued")
    <3>1. "queued" \in Legs /\ "over" \in Legs
      BY DEF Legs, Receipts
    <3>2. leg'[c][r] \in {"queued", "over"} /\ UNCHANGED place
          /\ \A d \in Calls, q \in Recipients : <<d, q>> # <<c, r>> => leg'[d][q] = leg[d][q]
      BY <2>1, <3>1, ReplyEffect
    <3>3. report[r] = "absent" /\ report'[r] = "queued" /\ handed' = handed
          /\ \A q \in Recipients \ {r} : report'[q] = report[q]
      BY <2>1 DEF Server!Accept, Server!Say, HookTypeOK
    <3>4. SentIsHanded' /\ OkSent'
      BY <3>2, <3>3 DEF SentIsHanded, OkSent
    <3>5. Heard' /\ HeardSent'
      <4> SUFFICES ASSUME NEW d \in Calls, NEW q \in Recipients
                   PROVE  /\ leg'[d][q] \in Receipts => report'[q] # "absent"
                          /\ leg'[d][q] = "sent" => report'[q] = "sent"
        BY DEF Heard, HeardSent
      <4>1. CASE q = r /\ d = c
        BY <3>2, <3>3, <4>1 DEF Receipts
      <4>2. CASE q = r /\ d # c
        BY <3>2, <3>3, <4>2 DEF Receipts, Heard, HeardSent
      <4>3. CASE q # r
        BY <3>2, <3>3, <4>3 DEF Heard, HeardSent
      <4> QED BY <4>1, <4>2, <4>3
    <3> QED BY <3>4, <3>5
  <2>2. CASE /\ UNCHANGED serverVars
             /\ \E l \in Legs : Reply(c, r, l) /\ (l \in Receipts => report[r] = l)
    <3>1. PICK l \in Legs : Reply(c, r, l) /\ (l \in Receipts => report[r] = l)
      BY <2>2
    <3>2. "over" \in Legs /\ "over" \notin Receipts
      BY DEF Legs, Receipts
    <3>3. \E m \in Legs : leg'[c][r] = m /\ (m \in Receipts => report[r] = m)
      BY <3>1, <3>2, ReplyEffect
    <3> QED BY <2>2, <3>1, <3>3, ReplyEffect, <1>5
  <2>3. (Server!Accept(r) /\ Reply(c, r, "queued")) \/ UNCHANGED serverVars
    BY <1>8 DEF Serve
  <2>4. UNCHANGED serverVars /\ ~(Server!Accept(r) /\ Reply(c, r, "queued")) =>
          \E l \in Legs : Reply(c, r, l) /\ (l \in Receipts => report[r] = l)
    <3>1. SUFFICES ASSUME ~(Server!Accept(r) /\ Reply(c, r, "queued"))
                   PROVE  \E l \in Legs : Reply(c, r, l) /\ (l \in Receipts => report[r] = l)
      OBVIOUS
    <3>2. CASE Reply(c, r, "refused")
      BY <3>2 DEF Legs, Receipts
    <3>3. CASE report[r] # "absent" /\ Reply(c, r, IF bound[r] = entry[c] THEN report[r] ELSE "conflict")
      <4>1. report[r] \in Legs /\ "conflict" \in Legs /\ "conflict" \notin Receipts
        BY <3>3 DEF HookTypeOK, Legs, Receipts
      <4> QED BY <3>3, <4>1
    <3> QED BY <1>8, <3>1, <3>2, <3>3 DEF Serve
  <2> QED BY <2>1, <2>2, <2>3, <2>4
<1>9. ASSUME NEW r \in Recipients, Work(r) PROVE ReceiptInv'
  <2>1. UNCHANGED <<place, leg>>
    BY <1>9 DEF Work
  <2>2. /\ \A q \in Recipients : report'[q] = "absent" <=> report[q] = "absent"
        /\ \A q \in Recipients : report[q] = "sent" => report'[q] = "sent"
        /\ \A q \in Recipients : report'[q] = "sent" => report[q] = "sent" \/ handed[q] = 1
        /\ \A q \in Recipients : handed[q] = 1 => handed'[q] = 1
    BY <1>9, ReportStep DEF Work
  <2> QED BY <2>1, <2>2 DEF SentIsHanded, Heard, HeardSent, OkSent
<1>10. CASE HookTick \/ UNCHANGED hookVars
  BY <1>10 DEF HookTick, hookVars, SentIsHanded, Heard, HeardSent, OkSent
<1> QED BY <1>2, <1>3, <1>4, <1>6, <1>7, <1>8, <1>9, <1>10 DEF HookNext

-----------------------------------------------------------------------------
(* The theorems                                                            *)

LEMMA InvInit == HookInit => LedgerInv /\ ReceiptInv
  BY DEF HookInit, Server!Init, Answers, Receipts, LedgerInv, EntryIsLedger, Holding, OnWire, BoundIsLedger,
         NoConflict, InTimeWhenSent, ReceiptInv, SentIsHanded, Heard, HeardSent, OkSent

(* The inductive invariant: types, one ledger row for every holder of it,  *)
(* and receipts that tell the truth.                                       *)
THEOREM HookInvariant == HookSpec => [](HookTypeOK /\ LedgerInv /\ ReceiptInv)
<1>1. HookInit => HookTypeOK /\ LedgerInv /\ ReceiptInv
  BY HookTypeInit, InvInit
<1>2. HookTypeOK /\ LedgerInv /\ ReceiptInv /\ [HookNext]_hookVars => (HookTypeOK /\ LedgerInv /\ ReceiptInv)'
  <2> SUFFICES ASSUME HookTypeOK, LedgerInv, ReceiptInv, [HookNext]_hookVars
               PROVE  HookTypeOK' /\ LedgerInv' /\ ReceiptInv'
    OBVIOUS
  <2>1. OnWire /\ Heard
    BY DEF LedgerInv, ReceiptInv
  <2> QED BY <2>1, HookTypeStep, LedgerStep, ReceiptStep
<1> QED BY <1>1, <1>2, PTL DEF HookSpec

(* Every variable keeps its type in every behaviour of the hook.           *)
THEOREM HookTypeCorrect == HookSpec => []HookTypeOK
  BY HookInvariant, PTL

(* Every delivery of the event uses a recipient's key with the content and *)
(* the deadline of the ledger's row (hook.ts, HookLedger.claim), so the    *)
(* server never answers that the key was used with other input.            *)
THEOREM KeysAreBoundOnce == HookSpec => []OneInputPerKey
<1>1. LedgerInv => OneInputPerKey
  BY DEF LedgerInv, BoundIsLedger, NoConflict, InTimeWhenSent, OneInputPerKey
<1> QED BY <1>1, HookInvariant, PTL

(* A 200 answered by the hook means the provider has each recipient's mail,*)
(* and its receipt reads sent from then on.                                *)
THEOREM OkIsEarned == HookSpec => []OkMeansAccepted
<1>1. ReceiptInv => OkMeansAccepted
  BY DEF ReceiptInv, SentIsHanded, OkSent, OkMeansAccepted
<1> QED BY <1>1, HookInvariant, PTL

LEMMA ServerStep == [HookNext]_hookVars => [Server!Next]_<<report, handed>>
<1> SUFFICES ASSUME [HookNext]_hookVars PROVE [Server!Next]_<<report, handed>>
  OBVIOUS
<1>1. ASSUME NEW c \in Calls, Deliver(c) \/ ClaimEvent(c) \/ Check(c) \/ Fail(c) \/ Succeed(c) \/ Abort(c)
      PROVE  UNCHANGED <<report, handed>>
  BY <1>1 DEF Deliver, ClaimEvent, Check, Fail, Succeed, Abort
<1>2. ASSUME NEW c \in Calls, NEW r \in Recipients, Post(c, r) \/ Poll(c, r)
      PROVE  UNCHANGED <<report, handed>>
  BY <1>2 DEF Post, Poll
<1>3. ASSUME NEW c \in Calls, NEW r \in Recipients, Serve(c, r)
      PROVE  Server!Accept(r) \/ UNCHANGED <<report, handed>>
  BY <1>3 DEF Serve
<1>4. ASSUME NEW r \in Recipients, Work(r)
      PROVE  Server!Start(r) \/ Server!HandOver(r) \/ Server!Settle(r)
  BY <1>4 DEF Work
<1>5. CASE HookTick \/ UNCHANGED hookVars
  BY <1>5 DEF HookTick, hookVars
<1> QED BY <1>1, <1>2, <1>3, <1>4, <1>5 DEF HookNext, Server!Next

(* The server the hook talks to does what OneShotMail allows and no more,  *)
(* whatever the deliveries of an event do: the same promise, read by       *)
(* recipients, that PromiseKept shows POST /v1/auth-messages to keep.      *)
THEOREM ServerIsPromised == HookSpec => Server!Spec
<1>1. HookInit => Server!Init
  BY DEF HookInit
<1> QED BY <1>1, ServerStep, PTL DEF HookSpec, Server!Spec
=============================================================================
