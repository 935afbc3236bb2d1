----------------------- MODULE MessageDelivery_proofs -----------------------
(***************************************************************************)
(* The types of the send pipeline, that a suppressed recipient is never    *)
(* handed to the provider, and that the pipeline left to itself sends no   *)
(* message twice, for any number of messages, workers, retry calls,        *)
(* attempts, deferrals and faults.                                         *)
(*                                                                         *)
(* The arguments.  A job whose recipient was suppressed all along is       *)
(* barred, its recipient is on the list now, and so the one check between  *)
(* taking it and sending it lets it no further than "suppress".  And a     *)
(* message that was not retried by hand and not handled blind has one copy *)
(* that may still reach the provider: a job that waits, or one worker's,   *)
(* and none is before the call once it was accepted (OneCopy).             *)
(***************************************************************************)
EXTENDS MessageDelivery, TLAPS

USE AttemptsAssumption, BoundsAssumption, NoneAssumption

-----------------------------------------------------------------------------
(* The types, by part                                                      *)

RowType ==
  /\ create \in [Messages -> {"start", "enqueue", "done", "dead"}]
  /\ status \in [Messages -> Status]
  /\ pmid \in [Messages -> BOOLEAN]
  /\ retries \in [Messages -> 0..MaxRetries]
  /\ suppressed \in [Messages -> BOOLEAN]

QueueType == jobs \in [Job -> Nat] /\ known \subseteq Messages \X (0..MaxRetries)

WorkerType ==
  /\ wpc \in [Workers -> WorkerPC]
  /\ wjob \in [Workers -> Job \cup {None}]
  /\ \A w \in Workers : wpc[w] = "idle" <=> wjob[w] = None
  /\ owns \in [Workers -> BOOLEAN]

OtherType ==
  /\ retry \in [Retriers -> {Resting} \cup RetryCalls]
  /\ faults \in 0..MaxFaults
  /\ accepted \in [Messages -> Nat]
  /\ blind \in [Messages -> BOOLEAN]
  /\ barred \in [Workers -> BOOLEAN]

LEMMA TypeParts == TypeOK <=> RowType /\ QueueType /\ WorkerType /\ OtherType
  BY DEF TypeOK, RowType, QueueType, WorkerType, OtherType

\* Where a worker with a job may go.
Places == WorkerPC \ {"idle"}

LEMMA PlaceFacts ==
  /\ OutsideTry \subseteq Places /\ InsideTry \subseteq Places
  /\ {"send", "catch", "rethrow", "deferred", "done"} \subseteq Places
  BY DEF Places, WorkerPC, OutsideTry, InsideTry

LEMMA JobFacts ==
  /\ \A m \in Messages, d \in 0..MaxDeferrals : NewJob(m, d) \in Job
  /\ \A j \in Job : j.tries + 1 < Attempts => NextTry(j) \in Job
  /\ \A j \in Job : Stalled(j) \in Job /\ j.msg \in Messages /\ j.deferrals \in 0..MaxDeferrals
<1>1. \A m \in Messages, d \in 0..MaxDeferrals : NewJob(m, d) \in Job
  BY DEF NewJob, Job
<1>2. ASSUME NEW j \in Job, j.tries + 1 < Attempts PROVE NextTry(j) \in Job
  <2>1. j.tries + 1 \in 0..(Attempts - 1)
    BY <1>2 DEF Job
  <2> QED BY <2>1 DEF NextTry, Job
<1>3. \A j \in Job : Stalled(j) \in Job /\ j.msg \in Messages /\ j.deferrals \in 0..MaxDeferrals
  BY DEF Stalled, Job
<1> QED BY <1>1, <1>2, <1>3

LEMMA AddType ==
  ASSUME jobs \in [Job -> Nat], NEW j \in Job
  PROVE  Add(jobs, j) \in [Job -> Nat]
  BY DEF Add

LEMMA StepEffect ==
  ASSUME WorkerType, NEW w \in Workers, wpc[w] # "idle", NEW place \in Places, Step(w, place)
  PROVE  WorkerType' /\ wpc'[w] = place /\ wjob' = wjob
         /\ \A v \in Workers \ {w} : wpc'[v] = wpc[v]
<1>1. wpc' = [wpc EXCEPT ![w] = place] /\ wjob' = wjob /\ owns' = owns /\ place \in WorkerPC /\ place # "idle"
  BY DEF Step, Places
<1>2. wpc' \in [Workers -> WorkerPC] /\ wpc'[w] = place /\ \A v \in Workers \ {w} : wpc'[v] = wpc[v]
  BY <1>1 DEF WorkerType
<1> QED BY <1>1, <1>2 DEF WorkerType

LEMMA RestEffect ==
  ASSUME WorkerType, NEW w \in Workers, Rest(w)
  PROVE  WorkerType' /\ wpc'[w] = "idle" /\ wjob'[w] = None
         /\ \A v \in Workers \ {w} : wpc'[v] = wpc[v] /\ wjob'[v] = wjob[v]
<1>1. wpc'[w] = "idle" /\ wjob'[w] = None /\ \A v \in Workers \ {w} : wpc'[v] = wpc[v] /\ wjob'[v] = wjob[v]
  BY DEF Rest, WorkerType
<1>2. wpc' \in [Workers -> WorkerPC]
  BY DEF Rest, WorkerType, WorkerPC
<1>3. wjob' \in [Workers -> Job \cup {None}] /\ owns' \in [Workers -> BOOLEAN]
  BY DEF Rest, WorkerType
<1> QED BY <1>1, <1>2, <1>3 DEF WorkerType

LEMMA MsgFacts ==
  ASSUME WorkerType, NEW w \in Workers, wpc[w] # "idle"
  PROVE  wjob[w] \in Job /\ Msg(w) \in Messages
<1>1. wjob[w] \in Job
  BY DEF WorkerType
<1> QED BY <1>1, JobFacts DEF Msg

LEMMA TypeInit == Init => TypeOK
<1> SUFFICES ASSUME Init PROVE TypeOK
  OBVIOUS
<1>1. RowType
  BY DEF Init, RowType, Status
<1>2. QueueType
  BY DEF Init, QueueType
<1>3. WorkerType
  BY DEF Init, WorkerType, WorkerPC
<1>4. OtherType
  BY DEF Init, OtherType
<1> QED BY <1>1, <1>2, <1>3, <1>4, TypeParts

-----------------------------------------------------------------------------
(* Each part is kept                                                       *)

LEMMA RowStep ==
  ASSUME TypeOK, [Next]_vars
  PROVE  RowType'
<1>0. RowType /\ WorkerType /\ OtherType
  BY TypeParts
<1>1. CASE UNCHANGED <<create, rowVars, suppressed>>
  BY <1>0, <1>1 DEF RowType, rowVars
<1>2. ASSUME NEW m \in Messages, NEW s \in Status, SetStatus(m, s), UNCHANGED <<create, pmid, retries, suppressed>>
      PROVE  RowType'
  BY <1>0, <1>2 DEF RowType, SetStatus
<1>3. ASSUME NEW m \in Messages, Insert(m) \/ Enqueue(m) \/ CreateDies(m) \/ Suppression(m)
      PROVE  RowType'
  <2>1. CASE Insert(m)
    <3>1. status' \in [Messages -> Status]
      BY <1>0, <2>1 DEF Insert, SetStatus, RowType, Status, Live, Settled
    <3>2. create' \in [Messages -> {"start", "enqueue", "done", "dead"}]
      BY <1>0, <2>1 DEF Insert, RowType
    <3>3. UNCHANGED <<pmid, retries, suppressed>>
      BY <2>1 DEF Insert
    <3> QED BY <1>0, <3>1, <3>2, <3>3 DEF RowType
  <2>2. CASE Enqueue(m) \/ CreateDies(m)
    BY <1>0, <2>2 DEF Enqueue, CreateDies, RowType, rowVars
  <2>3. CASE Suppression(m)
    BY <1>0, <2>3 DEF Suppression, RowType, rowVars, apiVars
  <2> QED BY <1>3, <2>1, <2>2, <2>3
<1>4. ASSUME NEW h \in Retriers, RetryWrite(h) PROVE RowType'
  <2>1. retry[h] \in RetryCalls
    BY <1>0, <1>4 DEF RetryWrite, OtherType, Resting
  <2>2. retry[h].msg \in Messages /\ retry[h].attempt \in 0..MaxRetries
    BY <2>1 DEF RetryCalls
  <2>3. status' \in [Messages -> Status]
    BY <1>0, <1>4, <2>2 DEF RetryWrite, SetStatus, RowType, Status, Live
  <2>4. retries' \in [Messages -> 0..MaxRetries] /\ UNCHANGED <<create, pmid, suppressed>>
    BY <1>0, <1>4, <2>2 DEF RetryWrite, RowType
  <2> QED BY <1>0, <2>3, <2>4 DEF RowType
<1>5. ASSUME NEW h \in Retriers, RetryCheck(h) \/ RetryEnqueue(h) \/ RetryDies(h) PROVE RowType'
  BY <1>1, <1>5 DEF RetryCheck, RetryEnqueue, RetryDies
<1>6. ASSUME NEW h \in Retriers, NEW m \in Messages, RetryRead(h, m) PROVE RowType'
  BY <1>1, <1>6 DEF RetryRead
<1>7. ASSUME NEW w \in Workers, WorkerStep(w) PROVE RowType'
  <2>1. CASE Refuse(w) \/ Mark(w) \/ Suppress(w) \/ MockDeliver(w) \/ Catch(w)
    <3>1. Msg(w) \in Messages
      BY <1>0, <2>1, MsgFacts DEF Refuse, Mark, Suppress, MockDeliver, Catch
    <3>2. PICK s \in Status : SetStatus(Msg(w), s)
      BY <2>1 DEF Refuse, Mark, Suppress, MockDeliver, Catch, Outcome, Status, Live, Settled
    <3>3. UNCHANGED <<create, pmid, retries, suppressed>>
      BY <2>1 DEF Refuse, Mark, Suppress, MockDeliver, Catch, apiVars
    <3> QED BY <1>2, <3>1, <3>2, <3>3
  <2>2. CASE RecordSent(w)
    <3>1. Msg(w) \in Messages
      BY <1>0, <2>2, MsgFacts DEF RecordSent
    <3>2. status' \in [Messages -> Status] /\ pmid' \in [Messages -> BOOLEAN]
      BY <1>0, <2>2, <3>1 DEF RecordSent, Outcome, SetStatus, RowType, Status, Settled
    <3>3. UNCHANGED <<create, retries, suppressed>>
      BY <2>2 DEF RecordSent, apiVars
    <3> QED BY <1>0, <3>2, <3>3 DEF RowType
  <2>3. CASE Load(w) \/ Gate(w) \/ CheckSuppressed(w) \/ Resolve(w) \/ Send(w) \/ AuditSent(w)
             \/ AuditDelivered(w) \/ Finish(w) \/ Rethrow(w)
    BY <1>1, <2>3 DEF Load, Gate, CheckSuppressed, Resolve, Send, AuditSent, AuditDelivered, Finish, Rethrow, apiVars
  <2> QED BY <1>7, <2>1, <2>2, <2>3 DEF WorkerStep
<1>8. ASSUME NEW w \in Workers, Faulty(w) \/ \E j \in Job : Take(w, j) PROVE RowType'
  BY <1>1, <1>8 DEF Faulty, GateUnanswered, Throw, ThrowAfterSend, CatchThrows, Stall, Crash, Take, apiVars
<1>9. CASE UNCHANGED vars
  BY <1>1, <1>9 DEF vars, rowVars
<1> QED BY <1>3, <1>4, <1>5, <1>6, <1>7, <1>8, <1>9 DEF Next

LEMMA QueueStep ==
  ASSUME TypeOK, [Next]_vars
  PROVE  QueueType'
<1>0. QueueType /\ WorkerType /\ OtherType
  BY TypeParts
<1>1. CASE UNCHANGED queueVars
  BY <1>0, <1>1 DEF QueueType, queueVars
<1>2. ASSUME NEW j \in Job, jobs' = Add(jobs, j) \/ jobs' = jobs, known' = known PROVE QueueType'
  BY <1>0, <1>2, AddType DEF QueueType
<1>3. ASSUME NEW m \in Messages, NEW n \in 0..MaxRetries, EnqueueSend(m, n) PROVE QueueType'
  <2>1. NewJob(m, 0) \in Job
    BY JobFacts
  <2>2. jobs' \in [Job -> Nat]
    BY <1>0, <1>3, <2>1, AddType DEF EnqueueSend, QueueType
  <2>3. known' \subseteq Messages \X (0..MaxRetries)
    BY <1>0, <1>3 DEF EnqueueSend, QueueType
  <2> QED BY <2>2, <2>3 DEF QueueType
<1>4. ASSUME NEW m \in Messages, Insert(m) \/ Enqueue(m) \/ CreateDies(m) \/ Suppression(m)
      PROVE  QueueType'
  BY <1>1, <1>3, <1>4 DEF Insert, Enqueue, CreateDies, Suppression
<1>5. ASSUME NEW h \in Retriers, RetryEnqueue(h) PROVE QueueType'
  <2>1. retry[h] \in RetryCalls /\ EnqueueSend(retry[h].msg, retry[h].attempt)
    BY <1>0, <1>5 DEF RetryEnqueue, OtherType, Resting
  <2>2. retry[h].msg \in Messages /\ retry[h].attempt \in 0..MaxRetries
    BY <2>1 DEF RetryCalls
  <2> QED BY <1>3, <2>1, <2>2
<1>6. ASSUME NEW h \in Retriers, (\E m \in Messages : RetryRead(h, m)) \/ RetryCheck(h) \/ RetryWrite(h) \/ RetryDies(h)
      PROVE  QueueType'
  BY <1>1, <1>6 DEF RetryRead, RetryCheck, RetryWrite, RetryDies
<1>7. ASSUME NEW w \in Workers, NEW j \in Job, Take(w, j) PROVE QueueType'
  <2>1. jobs' = [jobs EXCEPT ![j] = jobs[j] - 1] /\ jobs[j] - 1 \in Nat /\ known' = known
    BY <1>0, <1>7 DEF Take, Remove, QueueType
  <2> QED BY <1>0, <2>1 DEF QueueType
<1>8. ASSUME NEW w \in Workers, Gate(w) \/ GateUnanswered(w) PROVE QueueType'
  <2>1. wjob[w] \in Job
    BY <1>0, <1>8, MsgFacts DEF Gate, GateUnanswered
  <2>2. wjob[w].msg \in Messages /\ wjob[w].deferrals \in 0..MaxDeferrals
    BY <2>1, JobFacts
  <2>3. wjob[w].deferrals < MaxDeferrals => NewJob(wjob[w].msg, wjob[w].deferrals + 1) \in Job
    BY <2>2, JobFacts
  <2>4. known' = known
    BY <1>8 DEF Gate, GateUnanswered
  <2>5. jobs' = jobs \/ (wjob[w].deferrals < MaxDeferrals
                         /\ jobs' = Add(jobs, NewJob(wjob[w].msg, wjob[w].deferrals + 1)))
    BY <1>8 DEF Gate, GateUnanswered
  <2> QED BY <1>2, <2>1, <2>3, <2>4, <2>5
<1>9. ASSUME NEW w \in Workers, Rethrow(w) PROVE QueueType'
  <2>1. wjob[w] \in Job
    BY <1>0, <1>9, MsgFacts DEF Rethrow
  <2>2. wjob[w].tries + 1 < Attempts => NextTry(wjob[w]) \in Job
    BY <2>1, JobFacts
  <2>3. known' = known /\ (jobs' = jobs \/ (wjob[w].tries + 1 < Attempts /\ jobs' = Add(jobs, NextTry(wjob[w]))))
    BY <1>9 DEF Rethrow
  <2> QED BY <1>2, <2>1, <2>2, <2>3
<1>10. ASSUME NEW w \in Workers, Stall(w) \/ Crash(w) PROVE QueueType'
  <2>1. wjob[w] \in Job
    BY <1>0, <1>10, MsgFacts DEF Stall, Crash
  <2>2. Stalled(wjob[w]) \in Job
    BY <2>1, JobFacts
  <2>3. known' = known /\ (jobs' = jobs \/ jobs' = Add(jobs, Stalled(wjob[w])))
    BY <1>10 DEF Stall, Crash, Recover
  <2> QED BY <1>2, <2>2, <2>3
<1>11. ASSUME NEW w \in Workers, WorkerStep(w) \/ Throw(w) \/ ThrowAfterSend(w) \/ CatchThrows(w),
              ~Gate(w), ~Rethrow(w)
       PROVE  QueueType'
  BY <1>1, <1>11 DEF WorkerStep, Load, Refuse, Mark, CheckSuppressed, Suppress, Resolve, Send, RecordSent,
     AuditSent, MockDeliver, AuditDelivered, Catch, Finish, Throw, ThrowAfterSend, CatchThrows
<1>12. CASE UNCHANGED vars
  BY <1>1, <1>12 DEF vars, queueVars
<1> QED BY <1>4, <1>5, <1>6, <1>7, <1>8, <1>9, <1>10, <1>11, <1>12 DEF Next, Faulty

\* What every step of a worker that holds a job does to its place.
Moves(w) == \E place \in Places : Step(w, place)

LEMMA MovesOrRests ==
  ASSUME WorkerType, NEW w \in Workers, WorkerStep(w) \/ Faulty(w)
  PROVE  /\ wpc[w] # "idle"
         /\ Moves(w) \/ Rest(w) \/ (UNCHANGED <<wpc, wjob>> /\ owns' = [owns EXCEPT ![w] = FALSE])
<1> USE DEF Moves
<1>1. CASE Load(w) \/ Gate(w) \/ GateUnanswered(w) \/ CheckSuppressed(w) \/ Resolve(w) \/ Send(w)
           \/ AuditSent(w) \/ AuditDelivered(w)
  <2>1. wpc[w] # "idle"
    BY <1>1 DEF Load, Gate, GateUnanswered, CheckSuppressed, Resolve, Send, AuditSent, AuditDelivered
  <2>2. \E place \in {"gate", "done", "mark", "refuse", "deferred", "rethrow", "suppress", "resolve", "send",
                      "recordSent", "catch", "mockDeliver"} : Step(w, place)
    BY <1>1 DEF Load, Gate, GateUnanswered, CheckSuppressed, Resolve, Send, AuditSent, AuditDelivered
  <2> QED BY <2>1, <2>2 DEF Places, WorkerPC, OutsideTry, InsideTry
<1>2. CASE Refuse(w) \/ Mark(w) \/ Suppress(w) \/ RecordSent(w) \/ MockDeliver(w) \/ Catch(w)
  <2>1. wpc[w] # "idle"
    BY <1>2 DEF Refuse, Mark, Suppress, RecordSent, MockDeliver, Catch
  <2>2. \E place \in {"audit", "checkSuppressed", "auditSent", "auditDelivered", "rethrow"} : Step(w, place)
    BY <1>2 DEF Refuse, Mark, Suppress, RecordSent, MockDeliver, Catch, Outcome
  <2> QED BY <2>1, <2>2 DEF Places, WorkerPC, OutsideTry, InsideTry
<1>3. CASE Throw(w) \/ ThrowAfterSend(w) \/ CatchThrows(w)
  <2>1. wpc[w] # "idle" /\ (Step(w, "rethrow") \/ Step(w, "catch"))
    BY <1>3 DEF Throw, ThrowAfterSend, CatchThrows, OutsideTry, InsideTry
  <2> QED BY <2>1 DEF Places, WorkerPC
<1>4. CASE Finish(w) \/ Rethrow(w) \/ Crash(w)
  BY <1>4 DEF Finish, Rethrow, Crash
<1>5. CASE Stall(w)
  BY <1>5 DEF Stall
<1> QED BY <1>1, <1>2, <1>3, <1>4, <1>5 DEF WorkerStep, Faulty

LEMMA WorkerTypeStep ==
  ASSUME TypeOK, [Next]_vars
  PROVE  WorkerType'
<1>0. WorkerType
  BY TypeParts
<1>1. CASE UNCHANGED workerVars
  BY <1>0, <1>1 DEF WorkerType, workerVars
<1>2. ASSUME NEW w \in Workers, NEW j \in Job, Take(w, j) PROVE WorkerType'
  <2>1. wpc' = [wpc EXCEPT ![w] = "load"] /\ wjob' = [wjob EXCEPT ![w] = j] /\ owns' = [owns EXCEPT ![w] = TRUE]
    BY <1>2 DEF Take
  <2>2. wpc' \in [Workers -> WorkerPC] /\ wjob' \in [Workers -> Job \cup {None}] /\ owns' \in [Workers -> BOOLEAN]
    BY <1>0, <2>1 DEF WorkerType, WorkerPC, OutsideTry
  <2>3. \A v \in Workers : wpc'[v] = "idle" <=> wjob'[v] = None
    BY <1>0, <2>1 DEF WorkerType
  <2> QED BY <2>2, <2>3 DEF WorkerType
<1>3. ASSUME NEW w \in Workers, WorkerStep(w) \/ Faulty(w) PROVE WorkerType'
  <2>1. CASE Moves(w)
    BY <1>0, <1>3, <2>1, MovesOrRests, StepEffect DEF Moves
  <2>2. CASE Rest(w)
    BY <1>0, <2>2, RestEffect
  <2>3. CASE UNCHANGED <<wpc, wjob>> /\ owns' = [owns EXCEPT ![w] = FALSE]
    BY <1>0, <2>3 DEF WorkerType
  <2> QED BY <1>0, <1>3, <2>1, <2>2, <2>3, MovesOrRests
<1>4. [Next]_vars => \/ UNCHANGED workerVars
                     \/ \E w \in Workers : WorkerStep(w) \/ Faulty(w) \/ \E j \in Job : Take(w, j)
  BY DEF Next, vars, workerVars, Insert, Enqueue, CreateDies, Suppression, RetryRead, RetryCheck, RetryWrite,
         RetryEnqueue, RetryDies
<1> QED BY <1>1, <1>2, <1>3, <1>4

LEMMA OtherStep ==
  ASSUME TypeOK, [Next]_vars
  PROVE  OtherType'
<1>0. OtherType /\ WorkerType /\ RowType
  BY TypeParts
<1>1. CASE UNCHANGED <<retry, faults, accepted, blind, barred>>
  BY <1>0, <1>1 DEF OtherType
<1>2. Fault => faults' \in 0..MaxFaults
  BY <1>0 DEF Fault, OtherType
<1>3. ASSUME NEW h \in Retriers, NEW r \in {Resting} \cup RetryCalls, retry' = [retry EXCEPT ![h] = r],
             UNCHANGED faults \/ Fault, UNCHANGED <<accepted, blind, barred>>
      PROVE  OtherType'
  BY <1>0, <1>2, <1>3 DEF OtherType
<1>4. ASSUME NEW m \in Messages, Insert(m) \/ Enqueue(m) \/ CreateDies(m) PROVE OtherType'
  BY <1>0, <1>2, <1>4 DEF Insert, Enqueue, CreateDies, OtherType
<1>5. ASSUME NEW m \in Messages, Suppression(m) PROVE OtherType'
  BY <1>0, <1>5 DEF Suppression, OtherType, apiVars
<1>6. ASSUME NEW h \in Retriers, NEW m \in Messages, RetryRead(h, m) PROVE OtherType'
  <2>1. Retrying("check", m, retries[m] + 1) \in RetryCalls
    BY <1>0, <1>6 DEF RetryRead, Retrying, RetryCalls, RowType
  <2> QED BY <1>3, <1>6, <2>1 DEF RetryRead
<1>7. ASSUME NEW h \in Retriers, RetryCheck(h) \/ RetryWrite(h) \/ RetryEnqueue(h) \/ RetryDies(h)
      PROVE  OtherType'
  <2>1. retry[h] \in RetryCalls \/ retry[h].at = "idle"
    BY <1>0 DEF OtherType, Resting
  <2>2. retry[h].at # "idle" => \A place \in {"write", "enqueue"} :
          Retrying(place, retry[h].msg, retry[h].attempt) \in RetryCalls
    BY <2>1 DEF RetryCalls, Retrying
  <2>3. retry[h].at # "idle" /\ UNCHANGED <<accepted, blind, barred>> /\ (UNCHANGED faults \/ Fault)
    BY <1>7 DEF RetryCheck, RetryWrite, RetryEnqueue, RetryDies
  <2>4. \E r \in {Resting, Retrying("write", retry[h].msg, retry[h].attempt),
                  Retrying("enqueue", retry[h].msg, retry[h].attempt)} : retry' = [retry EXCEPT ![h] = r]
    BY <1>7 DEF RetryCheck, RetryWrite, RetryEnqueue, RetryDies
  <2> QED BY <1>3, <2>2, <2>3, <2>4
<1>8. ASSUME NEW w \in Workers, NEW j \in Job, Take(w, j) PROVE OtherType'
  <2>1. j.msg \in Messages
    BY JobFacts
  <2> QED BY <1>0, <1>8, <2>1 DEF Take, OtherType, RowType, apiVars
<1>9. ASSUME NEW w \in Workers, Send(w) PROVE OtherType'
  <2>1. Msg(w) \in Messages
    BY <1>0, <1>9, MsgFacts DEF Send
  <2> QED BY <1>0, <1>9, <2>1 DEF Send, OtherType, apiVars
<1>10. ASSUME NEW w \in Workers, Faulty(w) PROVE OtherType'
  <2>1. Msg(w) \in Messages /\ wjob[w].msg = Msg(w)
    BY <1>0, <1>10, MsgFacts, MovesOrRests DEF Msg
  <2>2. \E b \in BOOLEAN : blind' = [blind EXCEPT ![Msg(w)] = b]
    BY <1>0, <1>10, <2>1 DEF Faulty, GateUnanswered, Throw, ThrowAfterSend, CatchThrows, Stall, Crash, OtherType
  <2>3. UNCHANGED <<retry, accepted, barred>> /\ Fault
    BY <1>10 DEF Faulty, GateUnanswered, Throw, ThrowAfterSend, CatchThrows, Stall, Crash, apiVars
  <2> QED BY <1>0, <1>2, <2>1, <2>2, <2>3 DEF OtherType
<1>11. ASSUME NEW w \in Workers, WorkerStep(w), ~Send(w) PROVE OtherType'
  BY <1>1, <1>11 DEF WorkerStep, Load, Gate, Refuse, Mark, CheckSuppressed, Suppress, Resolve, RecordSent,
     AuditSent, MockDeliver, AuditDelivered, Catch, Finish, Rethrow, apiVars
<1>12. CASE UNCHANGED vars
  BY <1>1, <1>12 DEF vars
<1> QED BY <1>4, <1>5, <1>6, <1>7, <1>8, <1>9, <1>10, <1>11, <1>12 DEF Next

LEMMA TypeStep == ASSUME TypeOK, [Next]_vars PROVE TypeOK'
<1>1. RowType' /\ QueueType' /\ WorkerType' /\ OtherType'
  BY RowStep, QueueStep, WorkerTypeStep, OtherStep
<1> QED BY <1>1 DEF TypeOK, RowType, QueueType, WorkerType, OtherType

-----------------------------------------------------------------------------
(* A suppressed recipient is not handed to the provider                    *)

\* Who has been suppressed since the job was taken is suppressed now.
BarredIsListed == \A w \in Workers : barred[w] /\ wjob[w] # None => suppressed[Msg(w)]

\* Past the check, the recipient was off the list at some time since.
PastCheck == \A w \in Workers : wpc[w] \in {"resolve", "send"} => ~barred[w]

IInv == TypeOK /\ BarredIsListed /\ PastCheck

LEMMA BarredIsListedStep ==
  ASSUME TypeOK, BarredIsListed, [Next]_vars
  PROVE  BarredIsListed'
<1>0. WorkerType /\ RowType /\ OtherType
  BY TypeParts
<1>1. CASE UNCHANGED <<barred, suppressed, wjob>>
  BY <1>1 DEF BarredIsListed, Msg
<1>2. ASSUME NEW w \in Workers, NEW j \in Job, Take(w, j) PROVE BarredIsListed'
  <2>1. wjob' = [wjob EXCEPT ![w] = j] /\ barred' = [barred EXCEPT ![w] = suppressed[j.msg]]
        /\ suppressed' = suppressed
    BY <1>2 DEF Take
  <2> QED BY <1>0, <2>1 DEF BarredIsListed, Msg, WorkerType, OtherType
<1>3. ASSUME NEW w \in Workers, WorkerStep(w) \/ Faulty(w) PROVE BarredIsListed'
  <2>1. UNCHANGED <<barred, suppressed>>
    BY <1>3 DEF WorkerStep, Load, Gate, Refuse, Mark, CheckSuppressed, Suppress, Resolve, Send, RecordSent,
       AuditSent, MockDeliver, AuditDelivered, Catch, Finish, Rethrow, Faulty, GateUnanswered, Throw,
       ThrowAfterSend, CatchThrows, Stall, Crash
  <2>2. wjob' = wjob \/ Rest(w)
    BY <1>0, <1>3, MovesOrRests DEF Moves, Step
  <2>3. CASE Rest(w)
    BY <1>0, <2>1, <2>3, RestEffect DEF BarredIsListed, Msg
  <2> QED BY <1>1, <2>1, <2>2, <2>3
<1>4. ASSUME NEW m \in Messages, Suppression(m) PROVE BarredIsListed'
  <2>1. wjob' = wjob /\ suppressed' = [suppressed EXCEPT ![m] = ~suppressed[m]]
        /\ barred' = [w \in Workers |-> barred[w] /\ ~(suppressed[m] /\ wjob[w] # None /\ Msg(w) = m)]
    BY <1>4 DEF Suppression, workerVars
  <2> SUFFICES ASSUME NEW w \in Workers, barred'[w], wjob[w] # None
               PROVE  suppressed'[wjob[w].msg]
    BY <2>1 DEF BarredIsListed, Msg
  <2>2. barred[w] /\ ~(suppressed[m] /\ Msg(w) = m)
    BY <2>1
  <2>3. suppressed[Msg(w)] /\ Msg(w) # m
    BY <2>2 DEF BarredIsListed
  <2>4. Msg(w) \in Messages
    BY <1>0, MsgFacts DEF WorkerType
  <2>5. suppressed'[Msg(w)] = suppressed[Msg(w)]
    BY <1>0, <2>1, <2>3, <2>4 DEF RowType
  <2> QED BY <2>3, <2>5 DEF Msg
<1>5. [Next]_vars => \/ UNCHANGED <<barred, suppressed, wjob>>
                     \/ \E m \in Messages : Suppression(m)
                     \/ \E w \in Workers : WorkerStep(w) \/ Faulty(w) \/ \E j \in Job : Take(w, j)
  BY DEF Next, vars, workerVars, Insert, Enqueue, CreateDies, RetryRead, RetryCheck, RetryWrite,
         RetryEnqueue, RetryDies
<1> QED BY <1>1, <1>2, <1>3, <1>4, <1>5

LEMMA PastCheckStep ==
  ASSUME TypeOK, BarredIsListed, PastCheck, [Next]_vars
  PROVE  PastCheck'
<1>0. WorkerType /\ OtherType
  BY TypeParts
<1>1. CASE UNCHANGED wpc /\ \A w \in Workers : barred'[w] => barred[w]
  BY <1>1 DEF PastCheck
<1>2. ASSUME NEW w \in Workers, NEW j \in Job, Take(w, j) PROVE PastCheck'
  <2>1. wpc' = [wpc EXCEPT ![w] = "load"] /\ barred' = [barred EXCEPT ![w] = suppressed[j.msg]]
    BY <1>2 DEF Take
  <2> QED BY <1>0, <2>1 DEF PastCheck, WorkerType, OtherType
<1>3. ASSUME NEW w \in Workers, wpc'[w] \in {"resolve", "send"} => ~barred[w], barred' = barred,
             \A v \in Workers \ {w} : wpc'[v] = wpc[v]
      PROVE  PastCheck'
  BY <1>3 DEF PastCheck
<1>4. ASSUME NEW w \in Workers, CheckSuppressed(w) PROVE PastCheck'
  <2>1. wpc[w] # "idle" /\ barred' = barred
        /\ Step(w, IF suppressed[Msg(w)] THEN "suppress" ELSE "resolve")
    BY <1>4 DEF CheckSuppressed
  <2>2. barred[w] => suppressed[Msg(w)]
    BY <1>0, <2>1 DEF BarredIsListed, WorkerType
  <2>3. wpc' = [wpc EXCEPT ![w] = IF suppressed[Msg(w)] THEN "suppress" ELSE "resolve"]
    BY <2>1 DEF Step
  <2>4. \A v \in Workers \ {w} : wpc'[v] = wpc[v]
    BY <1>0, <2>3 DEF WorkerType
  <2>5. wpc'[w] = IF suppressed[Msg(w)] THEN "suppress" ELSE "resolve"
    BY <1>0, <2>3 DEF WorkerType
  <2> QED BY <1>3, <2>1, <2>2, <2>4, <2>5
<1>5. ASSUME NEW w \in Workers, Resolve(w) PROVE PastCheck'
  <2>1. wpc[w] = "resolve" /\ barred' = barred /\ (Step(w, "send") \/ Step(w, "refuse"))
    BY <1>5 DEF Resolve
  <2>2. \A v \in Workers \ {w} : wpc'[v] = wpc[v]
    BY <1>0, <2>1 DEF Step, WorkerType
  <2>3. ~barred[w]
    BY <2>1 DEF PastCheck
  <2> QED BY <1>3, <2>1, <2>2, <2>3
\* Every other step of a worker leads to neither place.
<1>6. ASSUME NEW w \in Workers, barred' = barred,
             NEW place \in WorkerPC \ {"resolve", "send"}, wpc' = [wpc EXCEPT ![w] = place]
      PROVE  PastCheck'
  <2>1. wpc'[w] = place /\ \A v \in Workers \ {w} : wpc'[v] = wpc[v]
    BY <1>0, <1>6 DEF WorkerType
  <2> QED BY <1>3, <1>6, <2>1
<1>7. ASSUME NEW w \in Workers, WorkerStep(w) \/ Faulty(w), ~CheckSuppressed(w), ~Resolve(w)
      PROVE  PastCheck'
  <2>1. barred' = barred
    BY <1>7 DEF WorkerStep, Load, Gate, Refuse, Mark, Suppress, Send, RecordSent,
       AuditSent, MockDeliver, AuditDelivered, Catch, Finish, Rethrow, Faulty, GateUnanswered, Throw,
       ThrowAfterSend, CatchThrows, Stall, Crash
  <2>2. UNCHANGED wpc \/ \E place \in {"idle", "gate", "done", "mark", "refuse", "deferred", "rethrow",
          "checkSuppressed", "recordSent", "catch", "mockDeliver", "audit", "auditSent", "auditDelivered"} :
            wpc' = [wpc EXCEPT ![w] = place]
    <3>1. CASE Load(w) \/ Gate(w) \/ GateUnanswered(w) \/ Send(w) \/ AuditSent(w) \/ AuditDelivered(w)
      BY <3>1 DEF Load, Gate, GateUnanswered, Send, AuditSent, AuditDelivered, Step
    <3>2. CASE Refuse(w) \/ Mark(w) \/ Suppress(w) \/ RecordSent(w) \/ MockDeliver(w) \/ Catch(w)
      BY <3>2 DEF Refuse, Mark, Suppress, RecordSent, MockDeliver, Catch, Outcome, Step
    <3>3. CASE Throw(w) \/ ThrowAfterSend(w) \/ CatchThrows(w)
      BY <3>3 DEF Throw, ThrowAfterSend, CatchThrows, Step
    <3>4. CASE Finish(w) \/ Rethrow(w) \/ Crash(w) \/ Stall(w)
      BY <3>4 DEF Finish, Rethrow, Crash, Stall, Rest
    <3> QED BY <1>7, <3>1, <3>2, <3>3, <3>4 DEF WorkerStep, Faulty
  <2>3. CASE UNCHANGED wpc
    BY <1>1, <2>1, <2>3
  <2> QED BY <1>6, <2>1, <2>2, <2>3 DEF WorkerPC, OutsideTry, InsideTry
<1>8. ASSUME NEW m \in Messages, Suppression(m) PROVE PastCheck'
  BY <1>1, <1>8 DEF Suppression, workerVars
<1>9. [Next]_vars => \/ UNCHANGED <<barred, wpc>>
                     \/ \E m \in Messages : Suppression(m)
                     \/ \E w \in Workers : WorkerStep(w) \/ Faulty(w) \/ \E j \in Job : Take(w, j)
  BY DEF Next, vars, workerVars, Insert, Enqueue, CreateDies, RetryRead, RetryCheck, RetryWrite,
         RetryEnqueue, RetryDies
<1>10. CASE UNCHANGED <<barred, wpc>>
  BY <1>1, <1>10
<1> QED BY <1>2, <1>4, <1>5, <1>7, <1>8, <1>9, <1>10

-----------------------------------------------------------------------------
(* The inductive invariant, and what follows                               *)

(* IInv holds in every state of every behaviour of the send queue and the  *)
(* manual retries around it.                                               *)
THEOREM Inductive == Spec => []IInv
<1>1. Init => IInv
  <2>1. Init => BarredIsListed /\ PastCheck
    BY DEF Init, BarredIsListed, PastCheck
  <2> QED BY <2>1, TypeInit DEF IInv
<1>2. IInv /\ [Next]_vars => IInv'
  BY TypeStep, BarredIsListedStep, PastCheckStep DEF IInv
<1> QED BY <1>1, <1>2, PTL DEF Spec

(* Every variable of the pipeline keeps its type: in particular a worker   *)
(* is idle exactly when it holds no job, a job never passes its attempts   *)
(* or its deferrals, and retry_count never passes the retries allowed.     *)
THEOREM TypeCorrect == Spec => []TypeOK
<1>1. IInv => TypeOK
  BY DEF IInv
<1> QED BY <1>1, Inductive, PTL

(* A recipient on the suppression list from before his job was taken until *)
(* now is not handed to the provider (isSuppressedAtSend), whichever       *)
(* deferral, retry or recovery the job comes from.                         *)
THEOREM SuppressedIsNotSent == Spec => []SuppressionHonoured
<1>1. IInv => SuppressionHonoured
  BY DEF IInv, PastCheck, SuppressionHonoured
<1> QED BY <1>1, Inductive, PTL

-----------------------------------------------------------------------------
(* Nothing is sent twice by the pipeline itself                            *)

\* No person retried the message and no execution was lost or duplicated.
Clean(m) == retries[m] = 0 /\ ~blind[m]

\* What will still execute the message: a waiting job, or a worker whose
\* death or exception puts one back.
On(w, m) == wjob[w] # None /\ Msg(w) = m
Carries(w, m) == On(w, m) /\ owns[w] /\ wpc[w] # "deferred"
Waits(j, m) == j.msg = m /\ jobs[j] > 0

\* Past the guard of Load, with the provider call still to come; and where a
\* worker may be that lost its lock without duplicating anything.
Uncalled == {"gate", "mark", "checkSuppressed", "resolve", "send"}
Aftermath == {"refuse", "suppress", "audit", "auditSent", "mockDeliver", "auditDelivered",
              "catch", "rethrow", "done"}

\* There is one of them at a time ...
LoneCarrier(m) ==
  /\ \A i, j \in Job : Waits(i, m) /\ Waits(j, m) => i = j /\ jobs[i] = 1
  /\ \A w \in Workers, j \in Job : Carries(w, m) => ~Waits(j, m)
  /\ \A v, w \in Workers : Carries(v, m) /\ Carries(w, m) => v = w
  /\ create[m] \in {"start", "enqueue"}
       => /\ \A j \in Job : ~Waits(j, m)
          /\ \A w \in Workers : ~On(w, m)
          /\ accepted[m] = 0

\* ... a worker without the lock has no call to make ...
Strays(m) == \A w \in Workers : On(w, m) /\ ~owns[w] => wpc[w] \in Aftermath

\* ... and once the provider took the mail nobody is past the guard, and the
\* row is settled or its carrier is about to settle it.
SentOnce(m) ==
  /\ accepted[m] <= 1
  /\ accepted[m] > 0 =>
       /\ \A w \in Workers : On(w, m) => wpc[w] \notin Uncalled
       /\ \/ status[m] \in Settled
          \/ \E w \in Workers : Carries(w, m) /\ wpc[w] \in {"recordSent", "catch"}

RetryCounted == \A h \in Retriers : retry[h].at = "enqueue" => retries[retry[h].msg] > 0
OneCopy == \A m \in Messages : Clean(m) => LoneCarrier(m) /\ Strays(m) /\ SentOnce(m)

CopyInv == RetryCounted /\ OneCopy

LEMMA CopyInit == Init => CopyInv
  BY DEF Init, CopyInv, RetryCounted, OneCopy, LoneCarrier, Strays, SentOnce, On, Carries, Waits,
         Resting

(* A step that touches neither the carriers nor the row of a message.      *)
LEMMA CopyKept ==
  ASSUME NEW m \in Messages, LoneCarrier(m), Strays(m), SentOnce(m),
         \A j \in Job : j.msg = m => jobs'[j] = jobs[j],
         \A w \in Workers : /\ On(w, m)' <=> On(w, m)
                            /\ On(w, m) => wpc'[w] = wpc[w] /\ (owns'[w] <=> owns[w]),
         create'[m] = create[m], accepted'[m] = accepted[m],
         status'[m] = status[m] \/ accepted[m] = 0
  PROVE  LoneCarrier(m)' /\ Strays(m)' /\ SentOnce(m)'
<1>1. \A w \in Workers : Carries(w, m)' <=> Carries(w, m) BY DEF Carries
<1>2. \A j \in Job : Waits(j, m)' <=> Waits(j, m) BY DEF Waits
<1>3. LoneCarrier(m)' BY <1>1, <1>2 DEF LoneCarrier, Waits
<1>4. Strays(m)' BY DEF Strays
<1>5. SentOnce(m)' BY <1>1 DEF SentOnce, Carries
<1> QED BY <1>3, <1>4, <1>5

-----------------------------------------------------------------------------
(* What the step of a worker does to its message                           *)

LEMMA WorkerFrame ==
  ASSUME TypeOK, NEW w \in Workers, WorkerStep(w) \/ Faulty(w)
  PROVE  /\ wjob[w] \in Job /\ wjob[w] # None /\ Msg(w) \in Messages /\ wpc[w] # "idle"
         /\ UNCHANGED <<create, retries, retry>>
         /\ \A v \in Workers \ {w} : wpc'[v] = wpc[v] /\ wjob'[v] = wjob[v] /\ owns'[v] = owns[v]
         /\ \A n \in Messages \ {Msg(w)} :
              status'[n] = status[n] /\ accepted'[n] = accepted[n] /\ blind'[n] = blind[n]
         /\ blind[Msg(w)] => blind'[Msg(w)]
<1>0. WorkerType /\ RowType /\ OtherType BY TypeParts
<1>1. wpc[w] # "idle" /\ wjob[w] \in Job /\ wjob[w] # None /\ Msg(w) \in Messages
  BY <1>0, MovesOrRests, MsgFacts
<1>2. UNCHANGED <<create, retries, retry>>
  BY DEF WorkerStep, Load, Gate, Refuse, Mark, CheckSuppressed, Suppress, Resolve, Send, RecordSent,
         AuditSent, MockDeliver, AuditDelivered, Catch, Finish, Rethrow, Faulty, GateUnanswered, Throw,
         ThrowAfterSend, CatchThrows, Stall, Crash, apiVars, rowVars
<1>3. \A v \in Workers \ {w} : wpc'[v] = wpc[v] /\ wjob'[v] = wjob[v] /\ owns'[v] = owns[v]
  <2>1. Moves(w) \/ Rest(w) \/ (UNCHANGED <<wpc, wjob>> /\ owns' = [owns EXCEPT ![w] = FALSE])
    BY <1>0, MovesOrRests
  <2> QED BY <1>0, <2>1 DEF Moves, Step, Rest, WorkerType
<1>4. UNCHANGED status \/ \E s \in Status : status' = [status EXCEPT ![Msg(w)] = s]
  BY DEF WorkerStep, Load, Gate, Refuse, Mark, CheckSuppressed, Suppress, Resolve, Send, RecordSent,
         AuditSent, MockDeliver, AuditDelivered, Catch, Finish, Rethrow, Faulty, GateUnanswered, Throw,
         ThrowAfterSend, CatchThrows, Stall, Crash, Outcome, SetStatus, rowVars, Status, Live, Settled
<1>5. UNCHANGED accepted \/ accepted' = [accepted EXCEPT ![Msg(w)] = accepted[Msg(w)] + 1]
  BY DEF WorkerStep, Load, Gate, Refuse, Mark, CheckSuppressed, Suppress, Resolve, Send, RecordSent,
         AuditSent, MockDeliver, AuditDelivered, Catch, Finish, Rethrow, Faulty, GateUnanswered, Throw,
         ThrowAfterSend, CatchThrows, Stall, Crash
<1>6. UNCHANGED blind \/ \E b : blind' = [blind EXCEPT ![Msg(w)] = b] /\ (blind[Msg(w)] => b)
  <2>1. CASE GateUnanswered(w) BY <2>1 DEF GateUnanswered, Msg
  <2>2. CASE CatchThrows(w) BY <2>2 DEF CatchThrows
  <2>3. CASE Stall(w) BY <1>0, <2>3 DEF Stall
  <2>4. CASE Crash(w) BY <1>0, <2>4 DEF Crash
  <2>5. CASE WorkerStep(w) \/ Throw(w) \/ ThrowAfterSend(w)
    BY <2>5 DEF WorkerStep, Load, Gate, Refuse, Mark, CheckSuppressed, Suppress, Resolve, Send,
       RecordSent, AuditSent, MockDeliver, AuditDelivered, Catch, Finish, Rethrow, Throw, ThrowAfterSend
  <2> QED BY <2>1, <2>2, <2>3, <2>4, <2>5 DEF Faulty
<1>7. \A n \in Messages \ {Msg(w)} :
        status'[n] = status[n] /\ accepted'[n] = accepted[n] /\ blind'[n] = blind[n]
  BY <1>0, <1>1, <1>4, <1>5, <1>6 DEF RowType, OtherType
<1>8. blind[Msg(w)] => blind'[Msg(w)]
  BY <1>0, <1>1, <1>6 DEF OtherType
<1> QED BY <1>1, <1>2, <1>3, <1>7, <1>8

(* The only job a worker touches is its message's.                         *)
LEMMA OtherJobsKept ==
  ASSUME TypeOK, NEW w \in Workers, WorkerStep(w) \/ Faulty(w)
  PROVE  jobs' = jobs \/ \E j \in Job : j.msg = Msg(w) /\ jobs' = Add(jobs, j)
<1>0. wjob[w] \in Job BY WorkerFrame
<1>1. CASE Gate(w) \/ GateUnanswered(w)
  <2>1. \/ jobs' = jobs
        \/ /\ wjob[w].deferrals < MaxDeferrals
           /\ jobs' = Add(jobs, NewJob(wjob[w].msg, wjob[w].deferrals + 1))
    BY <1>1 DEF Gate, GateUnanswered
  <2>2. wjob[w].deferrals < MaxDeferrals => NewJob(wjob[w].msg, wjob[w].deferrals + 1) \in Job
    <3>1. wjob[w].msg \in Messages /\ wjob[w].deferrals \in 0..MaxDeferrals BY <1>0, JobFacts
    <3> QED BY <3>1, JobFacts
  <2>3. NewJob(wjob[w].msg, wjob[w].deferrals + 1).msg = Msg(w) BY DEF NewJob, Msg
  <2> QED BY <2>1, <2>2, <2>3
<1>2. CASE Rethrow(w)
  <2>1. NextTry(wjob[w]).msg = Msg(w) BY <1>0 DEF NextTry, Msg, Job
  <2> QED BY <1>0, <1>2, <2>1, JobFacts DEF Rethrow
<1>3. CASE Stall(w) \/ Crash(w)
  <2>1. Stalled(wjob[w]).msg = Msg(w) BY <1>0 DEF Stalled, Msg, Job
  <2> QED BY <1>0, <1>3, <2>1, JobFacts DEF Stall, Crash, Recover
<1>4. CASE UNCHANGED jobs BY <1>4
<1> QED
  BY <1>1, <1>2, <1>3, <1>4 DEF WorkerStep, Load, Refuse, Mark, CheckSuppressed, Suppress, Resolve, Send,
     RecordSent, AuditSent, MockDeliver, AuditDelivered, Catch, Finish, Faulty, Throw, ThrowAfterSend,
     CatchThrows, queueVars

(* Where a worker goes, and the job it leaves behind, when that leaves the *)
(* message clean.                                                          *)
GoesOn(w) ==
  /\ jobs' = jobs /\ wpc[w] # "deferred"
  /\ \E place \in Places \ {"deferred"} :
       Step(w, place) /\ (wpc[w] \in Aftermath => place \in Aftermath)
Defers(w) ==
  /\ wpc[w] = "gate" /\ Step(w, "deferred")
  /\ \E j \in Job : j.msg = Msg(w) /\ jobs' = Add(jobs, j)
LetsGo(w) ==
  /\ Rest(w) \/ (UNCHANGED <<wpc, wjob>> /\ owns' = [owns EXCEPT ![w] = FALSE] /\ wpc[w] \in Aftermath)
  /\ \/ jobs' = jobs
     \/ /\ owns[w] /\ wpc[w] # "deferred"
        /\ \E j \in Job : j.msg = Msg(w) /\ jobs' = Add(jobs, j)

LEMMA WorkerShape ==
  ASSUME TypeOK, NEW w \in Workers, WorkerStep(w) \/ Faulty(w), ~blind'[Msg(w)]
  PROVE  GoesOn(w) \/ Defers(w) \/ LetsGo(w)
<1>0. WorkerType /\ OtherType /\ wjob[w] \in Job /\ Msg(w) \in Messages /\ wpc[w] \in Places
  BY TypeParts, WorkerFrame DEF WorkerType, Places
<1> USE DEF Places, WorkerPC, OutsideTry, InsideTry, Aftermath
<1>1. CASE Load(w) \/ CheckSuppressed(w) \/ Resolve(w) \/ Send(w) \/ AuditSent(w) \/ AuditDelivered(w)
  BY <1>1 DEF GoesOn, Load, CheckSuppressed, Resolve, Send, AuditSent, AuditDelivered, queueVars
<1>2. CASE Refuse(w) \/ Mark(w) \/ Suppress(w) \/ RecordSent(w) \/ MockDeliver(w) \/ Catch(w)
  BY <1>2 DEF GoesOn, Refuse, Mark, Suppress, RecordSent, MockDeliver, Catch, Outcome, queueVars
<1>3. CASE Throw(w) \/ ThrowAfterSend(w)
  BY <1>3 DEF GoesOn, Throw, ThrowAfterSend, queueVars
<1>4. CASE Gate(w)
  <2>1. CASE (Step(w, "mark") \/ Step(w, "refuse")) /\ UNCHANGED jobs
    BY <1>4, <2>1 DEF GoesOn, Gate
  <2>2. CASE /\ wjob[w].deferrals < MaxDeferrals /\ Step(w, "deferred")
             /\ jobs' = Add(jobs, NewJob(wjob[w].msg, wjob[w].deferrals + 1))
    <3>1. wjob[w].msg \in Messages /\ wjob[w].deferrals + 1 \in 0..MaxDeferrals
      BY <1>0, <2>2, JobFacts
    <3>2. NewJob(Msg(w), wjob[w].deferrals + 1) \in Job BY <3>1, JobFacts DEF Msg
    <3>3. NewJob(Msg(w), wjob[w].deferrals + 1).msg = Msg(w) BY DEF NewJob
    <3> QED BY <1>4, <2>2, <3>2, <3>3 DEF Defers, Gate, Msg
  <2> QED BY <1>4, <2>1, <2>2 DEF Gate
<1>5. CASE GateUnanswered(w) \/ CatchThrows(w)
  BY <1>0, <1>5 DEF GateUnanswered, CatchThrows, Msg, OtherType
<1>6. CASE Finish(w) BY <1>6 DEF LetsGo, Finish, queueVars
<1>7. CASE Rethrow(w)
  <2>1. wjob[w].tries + 1 < Attempts => NextTry(wjob[w]) \in Job BY <1>0, JobFacts
  <2>2. NextTry(wjob[w]).msg = Msg(w) BY <1>0 DEF NextTry, Msg, Job
  <2> QED BY <1>7, <2>1, <2>2 DEF LetsGo, Rethrow
<1>8. CASE Stall(w) \/ Crash(w)
  <2>1. Stalled(wjob[w]) \in Job /\ Stalled(wjob[w]).msg = Msg(w)
    BY <1>0, JobFacts DEF Stalled, Msg, Job
  <2>2. jobs' = jobs \/ (owns[w] /\ jobs' = Add(jobs, Stalled(wjob[w])))
    BY <1>8 DEF Stall, Crash, Recover
  <2>3. wpc[w] \notin Unrecorded
    BY <1>0, <1>8 DEF Stall, Crash, OtherType
  <2>4. Crash(w) \/ wpc[w] \in Aftermath
    BY <1>0, <1>8, <2>3 DEF Stall, OtherType, Unrecorded, ToSend
  <2>5. Rest(w) \/ (UNCHANGED <<wpc, wjob>> /\ owns' = [owns EXCEPT ![w] = FALSE] /\ wpc[w] \in Aftermath)
    BY <1>8, <2>4 DEF Stall, Crash
  <2> QED BY <2>1, <2>2, <2>3, <2>5 DEF LetsGo, Unrecorded
<1> QED BY <1>1, <1>2, <1>3, <1>4, <1>5, <1>6, <1>7, <1>8 DEF WorkerStep, Faulty

(* The carrier stays alone.                                                *)
LEMMA LoneStep ==
  ASSUME TypeOK, NEW w \in Workers, GoesOn(w) \/ Defers(w) \/ LetsGo(w),
         wjob[w] \in Job, wpc[w] # "idle", NEW m \in Messages, m = Msg(w), LoneCarrier(m), Strays(m),
         create'[m] = create[m],
         \A v \in Workers \ {w} : wpc'[v] = wpc[v] /\ wjob'[v] = wjob[v] /\ owns'[v] = owns[v]
  PROVE  LoneCarrier(m)' /\ Strays(m)'
<1>0. WorkerType /\ QueueType BY TypeParts
<1>1. On(w, m) /\ wjob[w] # None BY DEF On
<1>2. create[m] \notin {"start", "enqueue"} BY <1>1 DEF LoneCarrier
<1>3. \A v \in Workers \ {w} : /\ On(v, m)' <=> On(v, m)
                               /\ Carries(v, m)' <=> Carries(v, m)
  BY DEF On, Carries, Msg
<1>4. CASE GoesOn(w)
  <2>1. /\ wjob' = wjob /\ owns' = owns /\ wpc[w] # "deferred" /\ jobs' = jobs
        /\ wpc[w] \in Aftermath => wpc'[w] \in Aftermath
    BY <1>0, <1>4 DEF GoesOn, Step, WorkerType, Places
  <2>2. Carries(w, m)' => Carries(w, m) BY <1>1, <2>1 DEF Carries
  <2>3. LoneCarrier(m)'
    BY <1>2, <1>3, <2>1, <2>2 DEF LoneCarrier, Waits
  <2>4. Strays(m)' BY <1>1, <1>3, <2>1 DEF Strays
  <2> QED BY <2>3, <2>4
(* A worker that leaves a job behind was the carrier and is no more.       *)
<1>5. ASSUME Carries(w, m), ~Carries(w, m)', NEW j \in Job, j.msg = m, jobs' = Add(jobs, j)
      PROVE  LoneCarrier(m)'
  <2>1. \A i \in Job : Waits(i, m)' <=> i = j
    BY <1>0, <1>5 DEF LoneCarrier, Waits, Add, QueueType
  <2>2. jobs'[j] = 1
    BY <1>0, <1>5 DEF LoneCarrier, Waits, Add, QueueType
  <2>3. \A v \in Workers : ~Carries(v, m)'
    BY <1>3, <1>5 DEF LoneCarrier
  <2> QED BY <1>2, <2>1, <2>2, <2>3 DEF LoneCarrier
<1>6. CASE Defers(w)
  <2>1. wpc[w] = "gate" /\ wjob' = wjob /\ owns' = owns /\ wpc'[w] = "deferred"
    BY <1>0, <1>6 DEF Defers, Step, WorkerType
  <2>2. owns[w] BY <1>1, <2>1 DEF Strays, Aftermath
  <2>3. Carries(w, m) /\ ~Carries(w, m)' BY <1>1, <2>1, <2>2 DEF Carries
  <2>4. LoneCarrier(m)' BY <1>5, <1>6, <2>3 DEF Defers
  <2>5. Strays(m)' BY <1>1, <1>3, <2>1, <2>2 DEF Strays
  <2> QED BY <2>4, <2>5
<1>7. CASE LetsGo(w)
  <2>1. ~Carries(w, m)' /\ (On(w, m)' => wpc'[w] = wpc[w] /\ wpc[w] \in Aftermath)
    BY <1>0, <1>7 DEF LetsGo, Rest, Carries, On, WorkerType
  <2>2. Strays(m)' BY <1>3, <2>1 DEF Strays
  <2>3. ASSUME jobs' = jobs PROVE LoneCarrier(m)'
    <3>1. \A v \in Workers : Carries(v, m)' => Carries(v, m) BY <1>3, <2>1
    <3>2. \A j \in Job : Waits(j, m)' <=> Waits(j, m) BY <2>3 DEF Waits
    <3> QED BY <1>2, <2>3, <3>1, <3>2 DEF LoneCarrier
  <2>4. ASSUME owns[w], wpc[w] # "deferred", NEW j \in Job, j.msg = m, jobs' = Add(jobs, j)
        PROVE  LoneCarrier(m)'
    <3>1. Carries(w, m) BY <1>1, <2>4 DEF Carries
    <3> QED BY <1>5, <2>1, <2>4, <3>1
  <2> QED BY <1>7, <2>2, <2>3, <2>4 DEF LetsGo
<1> QED BY <1>4, <1>6, <1>7

(* Nothing is past the guard once the provider took the mail.              *)
LEMMA SentKept ==
  ASSUME NEW w \in Workers, NEW m \in Messages, SentOnce(m), accepted'[m] = accepted[m],
         \A v \in Workers \ {w} : wpc'[v] = wpc[v] /\ wjob'[v] = wjob[v] /\ owns'[v] = owns[v],
         accepted[m] > 0 /\ On(w, m)' => wpc'[w] \notin Uncalled,
         status'[m] = status[m] \/ status'[m] \in Settled \/ accepted[m] = 0,
         Carries(w, m) /\ wpc[w] \in {"recordSent", "catch"}
           => \/ status'[m] \in Settled
              \/ Carries(w, m)' /\ wpc'[w] \in {"recordSent", "catch"}
  PROVE  SentOnce(m)'
<1>1. \A v \in Workers \ {w} : /\ On(v, m)' <=> On(v, m)
                               /\ Carries(v, m)' <=> Carries(v, m)
  BY DEF On, Carries, Msg
<1> SUFFICES ASSUME accepted[m] > 0
             PROVE  /\ \A v \in Workers : On(v, m)' => wpc'[v] \notin Uncalled
                    /\ \/ status'[m] \in Settled
                       \/ \E v \in Workers : Carries(v, m)' /\ wpc'[v] \in {"recordSent", "catch"}
  BY DEF SentOnce
<1>2. \A v \in Workers : On(v, m)' => wpc'[v] \notin Uncalled
  BY <1>1 DEF SentOnce
<1>3. CASE status[m] \in Settled BY <1>2, <1>3
<1>4. CASE \E v \in Workers : Carries(v, m) /\ wpc[v] \in {"recordSent", "catch"}
  BY <1>1, <1>2, <1>4
<1> QED BY <1>3, <1>4 DEF SentOnce

LEMMA SentStep ==
  ASSUME TypeOK, NEW w \in Workers, WorkerStep(w) \/ Faulty(w), NEW m \in Messages, m = Msg(w),
         ~blind'[m], LoneCarrier(m), Strays(m), SentOnce(m)
  PROVE  SentOnce(m)'
<1>0. /\ WorkerType /\ RowType /\ OtherType /\ wjob[w] \in Job /\ wjob[w] # None /\ wpc[w] # "idle"
      /\ \A v \in Workers \ {w} : wpc'[v] = wpc[v] /\ wjob'[v] = wjob[v] /\ owns'[v] = owns[v]
  BY TypeParts, WorkerFrame
<1>1. On(w, m) BY <1>0 DEF On
<1>2. wpc[w] \in Uncalled => accepted[m] = 0
  BY <1>0, <1>1 DEF SentOnce, OtherType
<1> USE DEF Uncalled, Settled
<1>3. CASE Load(w)
  <2>1. wpc[w] = "load" /\ Step(w, IF status[m] \in Live THEN "gate" ELSE "done")
        /\ UNCHANGED <<status, accepted>>
    BY <1>3 DEF Load, rowVars
  <2>2. Carries(w, m) BY <1>0, <1>1, <2>1 DEF Carries, Strays, Aftermath
  <2>3. accepted[m] > 0 => status[m] \in Settled
    BY <2>1, <2>2 DEF SentOnce, LoneCarrier
  <2>4. accepted[m] > 0 => wpc'[w] \notin Uncalled
    BY <1>0, <2>1, <2>3 DEF Step, WorkerType, Live
  <2> QED BY <1>0, <2>1, <2>4, SentKept
<1>4. CASE Gate(w) \/ Mark(w) \/ CheckSuppressed(w) \/ Resolve(w)
  <2>1. UNCHANGED accepted /\ accepted[m] = 0
    BY <1>2, <1>4 DEF Gate, Mark, CheckSuppressed, Resolve
  <2> QED BY <2>1 DEF SentOnce
<1>5. CASE Send(w)
  <2>1. accepted[m] = 0 /\ Carries(w, m)
    BY <1>0, <1>1, <1>2, <1>5 DEF Send, Carries, Strays, Aftermath
  <2>2. CASE UNCHANGED accepted BY <2>1, <2>2 DEF SentOnce
  <2>3. CASE /\ accepted' = [accepted EXCEPT ![Msg(w)] = @ + 1]
             /\ Step(w, "recordSent") \/ Step(w, "catch")
    <3>1. accepted'[m] = 1 BY <1>0, <2>1, <2>3 DEF OtherType
    <3>2. wpc'[w] \in {"recordSent", "catch"} /\ Carries(w, m)'
      BY <1>0, <2>1, <2>3 DEF Step, WorkerType, Carries, On, Msg
    <3>3. ASSUME NEW v \in Workers, v # w, On(v, m)' PROVE wpc'[v] \notin Uncalled
      <4>1. On(v, m) /\ wpc'[v] = wpc[v] BY <1>0, <3>3 DEF On, Msg
      <4>2. ~Carries(v, m) BY <2>1, <3>3 DEF LoneCarrier
      <4> QED BY <4>1, <4>2 DEF Carries, Strays, Aftermath
    <3> QED BY <3>1, <3>2, <3>3 DEF SentOnce
  <2> QED BY <1>5, <2>2, <2>3 DEF Send
<1>6. CASE Refuse(w) \/ Suppress(w) \/ RecordSent(w) \/ MockDeliver(w) \/ Catch(w)
  <2>1. \E s \in Settled : status' = [status EXCEPT ![m] = s]
    BY <1>6 DEF Refuse, Suppress, RecordSent, MockDeliver, Catch, Outcome, SetStatus
  <2>2. status'[m] \in Settled BY <1>0, <2>1 DEF RowType
  <2>3. UNCHANGED accepted /\ \E place \in {"audit", "auditSent", "auditDelivered", "rethrow"} : Step(w, place)
    BY <1>6 DEF Refuse, Suppress, RecordSent, MockDeliver, Catch, Outcome
  <2>4. wpc'[w] \notin Uncalled BY <1>0, <2>3 DEF Step, WorkerType
  <2> QED BY <1>0, <2>2, <2>3, <2>4, SentKept
<1>7. CASE AuditSent(w) \/ AuditDelivered(w)
  <2>1. UNCHANGED <<status, accepted>> /\ wpc[w] \in {"auditSent", "auditDelivered"}
        /\ \E place \in {"done", "mockDeliver"} : Step(w, place)
    BY <1>7 DEF AuditSent, AuditDelivered, rowVars
  <2>2. wpc'[w] \notin Uncalled BY <1>0, <2>1 DEF Step, WorkerType
  <2> QED BY <1>0, <2>1, <2>2, SentKept
<1>8. CASE Finish(w) \/ Rethrow(w)
  <2>1. UNCHANGED <<status, accepted>> /\ wpc[w] \in {"audit", "deferred", "done", "rethrow"} /\ Rest(w)
    BY <1>8 DEF Finish, Rethrow, rowVars
  <2>2. wpc'[w] = "idle" BY <1>0, <2>1 DEF Rest, WorkerType
  <2> QED BY <1>0, <2>1, <2>2, SentKept
<1>9. CASE GateUnanswered(w) \/ CatchThrows(w)
  <2>1. blind'[m] BY <1>0, <1>9 DEF GateUnanswered, CatchThrows, Msg, OtherType
  <2> QED BY <2>1
<1>10. CASE Throw(w)
  <2>1. UNCHANGED <<status, accepted>> /\ wpc[w] \in OutsideTry /\ Step(w, "rethrow")
    BY <1>10 DEF Throw, rowVars
  <2>2. wpc'[w] = "rethrow" BY <1>0, <2>1 DEF Step, WorkerType
  <2> QED BY <1>0, <2>1, <2>2, SentKept DEF OutsideTry
<1>11. CASE ThrowAfterSend(w)
  <2>1. UNCHANGED <<status, accepted>> /\ wpc[w] \in InsideTry /\ Step(w, "catch")
    BY <1>11 DEF ThrowAfterSend, rowVars
  <2>2. wpc'[w] = "catch" /\ wjob' = wjob /\ owns' = owns BY <1>0, <2>1 DEF Step, WorkerType
  <2>3. Carries(w, m) => Carries(w, m)' BY <2>2 DEF Carries, On, Msg
  <2> QED BY <1>0, <2>1, <2>2, <2>3, SentKept
<1>12. CASE Stall(w) \/ Crash(w)
  <2>1. UNCHANGED <<status, accepted>> /\ wpc[w] \notin Unrecorded
    BY <1>0, <1>12 DEF Stall, Crash, rowVars, OtherType
  <2>2. wpc'[w] = wpc[w] \/ wpc'[w] = "idle"
    BY <1>0, <1>12 DEF Stall, Crash, Rest, WorkerType
  <2>3. accepted[m] > 0 => wpc'[w] \notin Uncalled
    BY <1>1, <2>2 DEF SentOnce
  <2> QED BY <1>0, <2>1, <2>3, SentKept DEF Unrecorded
<1> QED BY <1>3, <1>4, <1>5, <1>6, <1>7, <1>8, <1>9, <1>10, <1>11, <1>12 DEF WorkerStep, Faulty

Copies(m) == LoneCarrier(m) /\ Strays(m) /\ SentOnce(m)

LEMMA CopyWorkerStep ==
  ASSUME TypeOK, OneCopy, NEW w \in Workers, WorkerStep(w) \/ Faulty(w), NEW m \in Messages, Clean(m)'
  PROVE  Copies(m)'
<1>0. /\ WorkerType /\ QueueType /\ wjob[w] \in Job /\ wpc[w] # "idle" /\ wjob[w] # None /\ Msg(w) \in Messages
      /\ UNCHANGED <<create, retries, retry>>
      /\ \A v \in Workers \ {w} : wpc'[v] = wpc[v] /\ wjob'[v] = wjob[v] /\ owns'[v] = owns[v]
      /\ \A n \in Messages \ {Msg(w)} :
           status'[n] = status[n] /\ accepted'[n] = accepted[n] /\ blind'[n] = blind[n]
      /\ blind[Msg(w)] => blind'[Msg(w)]
  BY TypeParts, WorkerFrame
<1>1. Clean(m) BY <1>0 DEF Clean
<1>2. Copies(m) BY <1>1 DEF OneCopy, Copies
<1>3. CASE m = Msg(w)
  <2>1. ~blind'[Msg(w)] BY <1>3 DEF Clean
  <2>2. GoesOn(w) \/ Defers(w) \/ LetsGo(w) BY <2>1, WorkerShape
  <2>3. LoneCarrier(m)' /\ Strays(m)'
    BY <1>0, <1>2, <1>3, <2>2, LoneStep DEF Copies
  <2>4. SentOnce(m)' BY <1>2, <1>3, <2>1, SentStep DEF Copies
  <2> QED BY <2>3, <2>4 DEF Copies
<1>4. CASE m # Msg(w)
  <2>1. \A j \in Job : j.msg = m => jobs'[j] = jobs[j]
    <3>1. jobs' = jobs \/ \E j \in Job : j.msg = Msg(w) /\ jobs' = Add(jobs, j)
      BY <1>0, OtherJobsKept
    <3> QED BY <1>0, <1>4, <3>1 DEF Add, QueueType
  <2>2. wjob'[w] = wjob[w] \/ wjob'[w] = None
    BY <1>0, MovesOrRests DEF Moves, Step, Rest, WorkerType
  <2>3. \A v \in Workers : /\ On(v, m)' <=> On(v, m)
                           /\ On(v, m) => wpc'[v] = wpc[v] /\ (owns'[v] <=> owns[v])
    BY <1>0, <1>4, <2>2 DEF On, Msg
  <2> QED BY <1>0, <1>2, <1>4, <2>1, <2>3, CopyKept DEF Copies
<1> QED BY <1>3, <1>4

(* Taking a job moves it from the queue to the worker.                     *)
LEMMA CopyTakeStep ==
  ASSUME TypeOK, OneCopy, NEW w \in Workers, NEW j \in Job, Take(w, j), NEW m \in Messages, Clean(m)'
  PROVE  Copies(m)'
<1>0. WorkerType /\ QueueType BY TypeParts
<1>1. /\ wpc[w] = "idle" /\ jobs[j] > 0 /\ jobs' = [jobs EXCEPT ![j] = jobs[j] - 1]
      /\ wpc' = [wpc EXCEPT ![w] = "load"] /\ wjob' = [wjob EXCEPT ![w] = j] /\ owns' = [owns EXCEPT ![w] = TRUE]
      /\ UNCHANGED <<create, status, retries, accepted, blind>>
  BY DEF Take, Remove, apiVars, rowVars
<1>2. Copies(m) BY <1>1 DEF OneCopy, Copies, Clean
<1>3. /\ wpc'[w] = "load" /\ wjob'[w] = j /\ owns'[w] /\ wjob[w] = None /\ j # None
      /\ \A v \in Workers \ {w} : wpc'[v] = wpc[v] /\ wjob'[v] = wjob[v] /\ owns'[v] = owns[v]
      /\ jobs'[j] = jobs[j] - 1 /\ \A i \in Job \ {j} : jobs'[i] = jobs[i]
  BY <1>0, <1>1 DEF WorkerType, QueueType
<1>4. \A v \in Workers \ {w} : (On(v, m)' <=> On(v, m)) /\ (Carries(v, m)' <=> Carries(v, m))
  BY <1>3 DEF On, Carries, Msg
<1>5. CASE j.msg = m
  <2>1. Waits(j, m) BY <1>1, <1>5 DEF Waits
  <2>2. jobs'[j] = 0 /\ \A i \in Job : ~Waits(i, m)'
    BY <1>0, <1>2, <1>3, <2>1 DEF Copies, LoneCarrier, Waits, QueueType
  <2>3. Carries(w, m)' /\ \A v \in Workers \ {w} : ~Carries(v, m)'
    BY <1>2, <1>3, <1>4, <1>5, <2>1 DEF Copies, LoneCarrier, Carries, On, Msg
  <2>4. create'[m] \notin {"start", "enqueue"}
    BY <1>1, <1>2, <2>1 DEF Copies, LoneCarrier
  <2>5. LoneCarrier(m)' BY <2>2, <2>3, <2>4 DEF LoneCarrier
  <2>6. Strays(m)' BY <1>2, <1>3, <1>4 DEF Copies, Strays
  <2>7. SentOnce(m)'
    BY <1>1, <1>2, <1>3, <1>4, <2>1 DEF Copies, SentOnce, Uncalled, LoneCarrier
  <2> QED BY <2>5, <2>6, <2>7 DEF Copies
<1>6. CASE j.msg # m
  <2>1. \A i \in Job : i.msg = m => jobs'[i] = jobs[i] BY <1>3, <1>6
  <2>2. \A v \in Workers : /\ On(v, m)' <=> On(v, m)
                           /\ On(v, m) => wpc'[v] = wpc[v] /\ (owns'[v] <=> owns[v])
    BY <1>3, <1>6 DEF On, Msg
  <2> QED BY <1>1, <1>2, <2>1, <2>2, CopyKept DEF Copies
<1> QED BY <1>5, <1>6

(* The requests and the retries: the create puts the one job in the queue, *)
(* and a retry is counted before it puts another.                          *)
LEMMA CopyRequestStep ==
  ASSUME TypeOK, CopyInv, NEW n \in Messages, Insert(n) \/ Enqueue(n) \/ CreateDies(n) \/ Suppression(n),
         NEW m \in Messages, Clean(m)'
  PROVE  Copies(m)'
<1>0. WorkerType /\ QueueType /\ RowType BY TypeParts
<1>1. UNCHANGED <<wpc, wjob, owns, retries, accepted, blind>>
  BY DEF Insert, Enqueue, CreateDies, Suppression, workerVars, rowVars
<1>2. Copies(m) BY <1>1 DEF CopyInv, OneCopy, Copies, Clean
<1>3. \A v \in Workers : /\ On(v, m)' <=> On(v, m)
                         /\ Carries(v, m)' <=> Carries(v, m)
                         /\ On(v, m) => wpc'[v] = wpc[v] /\ (owns'[v] <=> owns[v])
  BY <1>1 DEF On, Carries, Msg
<1>4. CASE Suppression(n)
  BY <1>1, <1>2, <1>3, <1>4, CopyKept DEF Copies, Suppression, apiVars, rowVars, queueVars
<1>5. CASE Insert(n) /\ n = m
  <2>1. create[m] = "start" /\ create'[m] \in {"enqueue", "done"} /\ jobs' = jobs
    BY <1>0, <1>5 DEF Insert, queueVars, RowType
  <2>2. /\ \A j \in Job : ~Waits(j, m)'
        /\ \A w \in Workers : ~On(w, m)'
        /\ accepted'[m] = 0
    BY <1>1, <1>2, <1>3, <2>1 DEF Copies, LoneCarrier, Waits
  <2> QED BY <2>2 DEF Copies, LoneCarrier, Strays, SentOnce, Carries
<1>6. CASE Insert(n) /\ n # m
  <2>1. create'[m] = create[m] /\ status'[m] = status[m] /\ jobs' = jobs
    BY <1>0, <1>6 DEF Insert, SetStatus, queueVars, RowType
  <2> QED BY <1>1, <1>2, <1>3, <2>1, CopyKept DEF Copies
<1>7. CASE CreateDies(n)
  <2>1. (create'[m] = create[m] \/ create'[m] = "dead") /\ status'[m] = status[m] /\ jobs' = jobs
    BY <1>0, <1>7 DEF CreateDies, queueVars, rowVars, RowType
  <2>2. LoneCarrier(m)' BY <1>1, <1>2, <1>3, <2>1 DEF Copies, LoneCarrier, Waits
  <2>3. Strays(m)' /\ SentOnce(m)' BY <1>1, <1>2, <1>3, <2>1 DEF Copies, Strays, SentOnce
  <2> QED BY <2>2, <2>3 DEF Copies
<1>8. CASE Enqueue(n)
  <2>1. /\ create[n] = "enqueue" /\ create' = [create EXCEPT ![n] = "done"] /\ UNCHANGED status
        /\ jobs' = jobs \/ jobs' = Add(jobs, NewJob(n, 0))
    BY <1>8 DEF Enqueue, EnqueueSend, rowVars
  <2>2. NewJob(n, 0) \in Job /\ NewJob(n, 0).msg = n
    <3>1. NewJob(n, 0) \in Job BY JobFacts
    <3> QED BY <3>1 DEF NewJob
  <2>3. CASE n = m
    <3>1. /\ \A j \in Job : ~Waits(j, m)
          /\ \A w \in Workers : ~On(w, m)'
          /\ accepted'[m] = 0 /\ create'[m] = "done"
      BY <1>0, <1>1, <1>2, <1>3, <2>1, <2>3 DEF Copies, LoneCarrier, RowType
    <3>2. \A i, j \in Job : Waits(i, m)' /\ Waits(j, m)' => i = j /\ jobs'[i] = 1
      BY <1>0, <2>1, <2>2, <3>1 DEF Waits, Add, QueueType
    <3> QED BY <3>1, <3>2 DEF Copies, LoneCarrier, Strays, SentOnce, Carries
  <2>4. CASE n # m
    <3>1. create'[m] = create[m] /\ status'[m] = status[m] BY <1>0, <2>1, <2>4 DEF RowType
    <3>2. \A j \in Job : j.msg = m => jobs'[j] = jobs[j]
      BY <1>0, <2>1, <2>2, <2>4 DEF Add, QueueType
    <3> QED BY <1>1, <1>2, <1>3, <3>1, <3>2, CopyKept DEF Copies
  <2> QED BY <2>3, <2>4
<1> QED BY <1>4, <1>5, <1>6, <1>7, <1>8

LEMMA CopyRetryStep ==
  ASSUME TypeOK, CopyInv, NEW h \in Retriers,
         \/ \E n \in Messages : RetryRead(h, n)
         \/ RetryCheck(h) \/ RetryWrite(h) \/ RetryEnqueue(h) \/ RetryDies(h)
  PROVE  RetryCounted' /\ \A m \in Messages : Clean(m)' => Copies(m)'
<1>0. WorkerType /\ QueueType /\ RowType /\ OtherType BY TypeParts
<1>1. retry[h] \in RetryCalls \/ retry[h].at = "idle" BY <1>0 DEF OtherType, Resting
<1>2. UNCHANGED <<wpc, wjob, owns, create, accepted, blind>>
  BY DEF RetryRead, RetryCheck, RetryWrite, RetryEnqueue, RetryDies, workerVars
<1>3. \A m \in Messages, v \in Workers :
        /\ On(v, m)' <=> On(v, m)
        /\ On(v, m) => wpc'[v] = wpc[v] /\ (owns'[v] <=> owns[v])
  BY <1>2 DEF On, Msg
(* Only a counted retry touches the row or the queue.                      *)
<1>4. ASSUME NEW t \in Messages, retries'[t] > 0,
             \A m \in Messages \ {t} : /\ status'[m] = status[m] /\ retries'[m] = retries[m]
                                        /\ \A j \in Job : j.msg = m => jobs'[j] = jobs[j]
      PROVE  \A m \in Messages : Clean(m)' => Copies(m)'
  <2> SUFFICES ASSUME NEW m \in Messages, Clean(m)' PROVE Copies(m)' OBVIOUS
  <2>1. m # t BY <1>4 DEF Clean
  <2>2. Clean(m) BY <1>2, <1>4, <2>1 DEF Clean
  <2>3. LoneCarrier(m) /\ Strays(m) /\ SentOnce(m) BY <2>2 DEF CopyInv, OneCopy
  <2> QED BY <1>2, <1>3, <1>4, <2>1, <2>3, CopyKept DEF Copies
<1>5. CASE RetryWrite(h)
  <2>1. /\ retry[h].msg \in Messages /\ retry[h].attempt \in 1..MaxRetries
        /\ Retrying("enqueue", retry[h].msg, retry[h].attempt) \in RetryCalls
    BY <1>1, <1>5 DEF RetryWrite, RetryCalls, Retrying
  <2>2. /\ status' = [status EXCEPT ![retry[h].msg] = "queued"]
        /\ retries' = [retries EXCEPT ![retry[h].msg] = retry[h].attempt] /\ jobs' = jobs
        /\ retry' = [retry EXCEPT ![h] = Retrying("enqueue", retry[h].msg, retry[h].attempt)]
    BY <1>5 DEF RetryWrite, SetStatus, queueVars
  <2>3. /\ retries'[retry[h].msg] = retry[h].attempt /\ retry[h].attempt > 0
        /\ \A m \in Messages \ {retry[h].msg} : status'[m] = status[m] /\ retries'[m] = retries[m]
    BY <1>0, <2>1, <2>2 DEF RowType
  <2>4. RetryCounted'
    <3> SUFFICES ASSUME NEW g \in Retriers, retry'[g].at = "enqueue"
                 PROVE  retries'[retry'[g].msg] > 0
      BY DEF RetryCounted
    <3>1. CASE g = h
      <4>1. retry'[g].msg = retry[h].msg BY <1>0, <2>2, <3>1 DEF OtherType, Retrying
      <4> QED BY <2>3, <4>1
    <3>2. CASE g # h
      <4>1. retry'[g] = retry[g] BY <1>0, <2>2, <3>2 DEF OtherType
      <4>2. retries[retry[g].msg] > 0 BY <4>1 DEF CopyInv, RetryCounted
      <4>3. retry[g].msg \in Messages BY <1>0, <4>1 DEF OtherType, Resting, RetryCalls
      <4> QED BY <2>3, <4>1, <4>2, <4>3
    <3> QED BY <3>1, <3>2
  <2> QED BY <1>4, <2>1, <2>2, <2>3, <2>4
<1>6. ASSUME UNCHANGED retries, NEW r, r.at # "enqueue", retry' = [retry EXCEPT ![h] = r]
      PROVE  RetryCounted'
  BY <1>0, <1>6 DEF CopyInv, RetryCounted, OtherType
<1>7. CASE RetryEnqueue(h)
  <2>1. /\ retry[h].msg \in Messages /\ retry[h].attempt \in 1..MaxRetries
        /\ retries[retry[h].msg] > 0
    BY <1>1, <1>7 DEF RetryEnqueue, RetryCalls, CopyInv, RetryCounted
  <2>2. /\ UNCHANGED <<status, retries>> /\ retry' = [retry EXCEPT ![h] = Resting]
        /\ jobs' = jobs \/ jobs' = Add(jobs, NewJob(retry[h].msg, 0))
    BY <1>7 DEF RetryEnqueue, EnqueueSend, rowVars
  <2>3. NewJob(retry[h].msg, 0) \in Job /\ NewJob(retry[h].msg, 0).msg = retry[h].msg
    <3>1. NewJob(retry[h].msg, 0) \in Job BY <2>1, JobFacts
    <3> QED BY <3>1 DEF NewJob
  <2>4. \A m \in Messages \ {retry[h].msg} : \A j \in Job : j.msg = m => jobs'[j] = jobs[j]
    BY <1>0, <2>2, <2>3 DEF Add, QueueType
  <2> QED BY <1>4, <1>6, <2>1, <2>2, <2>4 DEF Resting
<1>8. CASE RetryCheck(h) \/ RetryDies(h) \/ \E n \in Messages : RetryRead(h, n)
  <2>1. UNCHANGED <<status, retries, jobs>>
    BY <1>8 DEF RetryCheck, RetryDies, RetryRead, rowVars, queueVars
  <2>2. \E r : r.at # "enqueue" /\ retry' = [retry EXCEPT ![h] = r]
    BY <1>8 DEF RetryCheck, RetryDies, RetryRead, Resting, Retrying
  <2>3. ASSUME NEW m \in Messages, Clean(m)' PROVE Copies(m)'
    <3>1. LoneCarrier(m) /\ Strays(m) /\ SentOnce(m)
      BY <1>2, <2>1, <2>3 DEF Clean, CopyInv, OneCopy
    <3> QED BY <1>2, <1>3, <2>1, <3>1, CopyKept DEF Copies
  <2> QED BY <1>6, <2>1, <2>2, <2>3
<1> QED BY <1>5, <1>7, <1>8

LEMMA CopyStep == ASSUME TypeOK, CopyInv, [Next]_vars PROVE CopyInv'
<1>1. CASE UNCHANGED vars
  BY <1>1 DEF vars, CopyInv, RetryCounted, OneCopy, Clean, LoneCarrier, Strays, SentOnce, On, Carries, Waits, Msg
<1>2. ASSUME NEW h \in Retriers,
             \/ \E n \in Messages : RetryRead(h, n)
             \/ RetryCheck(h) \/ RetryWrite(h) \/ RetryEnqueue(h) \/ RetryDies(h)
      PROVE  CopyInv'
  BY <1>2, CopyRetryStep DEF CopyInv, OneCopy, Copies
<1>3. ASSUME NEW n \in Messages, Insert(n) \/ Enqueue(n) \/ CreateDies(n) \/ Suppression(n) PROVE CopyInv'
  <2>1. RetryCounted'
    BY <1>3 DEF Insert, Enqueue, CreateDies, Suppression, rowVars, apiVars, CopyInv, RetryCounted
  <2> QED BY <1>3, <2>1, CopyRequestStep DEF CopyInv, OneCopy, Copies
<1>4. ASSUME NEW w \in Workers, WorkerStep(w) \/ Faulty(w) PROVE CopyInv'
  <2>1. RetryCounted' BY <1>4, WorkerFrame DEF CopyInv, RetryCounted
  <2> QED BY <1>4, <2>1, CopyWorkerStep DEF CopyInv, OneCopy, Copies
<1>5. ASSUME NEW w \in Workers, NEW j \in Job, Take(w, j) PROVE CopyInv'
  <2>1. RetryCounted' BY <1>5 DEF Take, apiVars, rowVars, CopyInv, RetryCounted
  <2> QED BY <1>5, <2>1, CopyTakeStep DEF CopyInv, OneCopy, Copies
<1> QED BY <1>1, <1>2, <1>3, <1>4, <1>5 DEF Next

(* Left to itself the pipeline never sends a message twice, for any number *)
(* of workers, attempts, deferrals and faults.                             *)
THEOREM SentOnceUnaided == Spec => []NoSelfMadeDuplicate
<1>1. TypeOK /\ CopyInv /\ [Next]_vars => CopyInv' BY CopyStep
<1>2. CopyInv => NoSelfMadeDuplicate
  BY DEF CopyInv, OneCopy, Clean, SentOnce, NoSelfMadeDuplicate
<1> QED BY <1>1, <1>2, CopyInit, TypeCorrect, PTL DEF Spec
=============================================================================
