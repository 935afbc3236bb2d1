-------------------------- MODULE MessageDelivery --------------------------
(***************************************************************************)
(* Ordinary mail: the insert and enqueue of POST /v1/messages, the send    *)
(* queue with its retries, throttle deferrals and stalled-job recovery,    *)
(* the worker's processSend, the suppression list and the manual retry     *)
(* endpoint.                                                               *)
(*                                                                         *)
(* One action is the code between two awaits that read or write something  *)
(* shared; wpc names the await a worker is about to make.  faults counts   *)
(* what the environment does to the code (an exception from the database   *)
(* or Redis, a lapsed job lock, a dead process), at most MaxFaults times;  *)
(* a provider that refuses the mail, a tenant gate and the order of things *)
(* are never faults.                                                       *)
(***************************************************************************)
EXTENDS Naturals

CONSTANTS Messages,      \* message rows
          Workers,       \* concurrent executions of the send queue
          Retriers,      \* concurrent POST /v1/messages/:id/retry calls
          Attempts,      \* BullMQ attempts of a send job
          MaxDeferrals,  \* REPUTATION_MAX_DEFERRALS
          MaxRetries,    \* bound: manual retries of one message
          MaxFaults,     \* bound: faults in one behaviour
          Ambiguous,     \* may the provider take mail and the call still fail?
          None           \* no job, no message

ASSUME AttemptsAssumption == Attempts \in Nat \ {0}
ASSUME BoundsAssumption ==
  MaxDeferrals \in Nat /\ MaxRetries \in Nat /\ MaxFaults \in Nat /\ Ambiguous \in BOOLEAN

(* A job: its message, the deferrals in its data, the attempts BullMQ made *)
(* and whether it was already recovered from a stall (maxStalledCount 1).  *)
Job == [msg : Messages, deferrals : 0..MaxDeferrals, tries : 0..(Attempts - 1), stalled : BOOLEAN]
NewJob(m, deferrals) == [msg |-> m, deferrals |-> deferrals, tries |-> 0, stalled |-> FALSE]
NextTry(j) == [j EXCEPT !.tries = @ + 1]
Stalled(j) == [j EXCEPT !.stalled = TRUE]

ASSUME NoneAssumption == None \notin Job /\ None \notin Messages

VARIABLES
  create,      \* where the request that creates each message stands
  status,      \* messages.status, "absent" before the insert
  pmid,        \* is messages.provider_message_id set?
  retries,     \* messages.retry_count
  suppressed,  \* is the recipient on the suppression list?
  jobs,        \* how many copies of each job wait in the queue
  known,       \* job ids seen and retained: <<m, 0>> is m, <<m, n>> is m-rn
  wpc,         \* where each worker stands
  wjob,        \* the job it holds
  owns,        \* does it still hold that job's lock?
  retry,       \* each retry call: its place, its message, the attempt it computed
  faults,      \* faults so far
  accepted,    \* history: how often the provider took each message
  blind,       \* history: was an execution of this message duplicated or cut off
               \*   before its outcome was written?
  barred       \* history: was the recipient suppressed since this worker began?

apiVars    == <<create, retry>>
rowVars    == <<status, pmid, retries>>
queueVars  == <<jobs, known>>
workerVars == <<wpc, wjob, owns>>
vars == <<create, status, pmid, retries, suppressed, jobs, known, wpc, wjob, owns,
          retry, faults, accepted, blind, barred>>

-----------------------------------------------------------------------------
Live    == {"queued", "sending"}
Settled == {"sent", "delivered", "failed", "suppressed"}
Status  == {"absent"} \cup Live \cup Settled

\* Outside the try block an exception goes straight to BullMQ ...
OutsideTry == {"load", "gate", "refuse", "mark", "checkSuppressed", "suppress", "resolve", "audit"}
\* ... inside it, after provider.send returned, it goes to the catch.
InsideTry  == {"recordSent", "auditSent", "mockDeliver", "auditDelivered"}
WorkerPC   == {"idle", "send", "catch", "rethrow", "deferred", "done"} \cup OutsideTry \cup InsideTry
\* Another execution of the job that starts here duplicates this one's work:
\* the deferral it made, or a provider call whose outcome is not written ...
Unrecorded == {"deferred", "recordSent", "catch"}
\* ... or, while this one goes on, is still to come.
ToSend == {"load", "gate", "mark", "checkSuppressed", "resolve", "send"}

Resting == [at |-> "idle", msg |-> None, attempt |-> 0]
RetryCalls == [at : {"check", "write", "enqueue"}, msg : Messages, attempt : 1..MaxRetries]
Retrying(place, m, n) == [at |-> place, msg |-> m, attempt |-> n]

Add(bag, j) == [bag EXCEPT ![j] = @ + 1]
Remove(bag, j) == [bag EXCEPT ![j] = @ - 1]
Msg(w) == wjob[w].msg
SetStatus(m, s) == status' = [status EXCEPT ![m] = s]

Init ==
  /\ create = [m \in Messages |-> "start"]
  /\ status = [m \in Messages |-> "absent"]
  /\ pmid = [m \in Messages |-> FALSE]
  /\ retries = [m \in Messages |-> 0]
  /\ suppressed \in [Messages -> BOOLEAN]
  /\ jobs = [j \in Job |-> 0]
  /\ known = {}
  /\ wpc = [w \in Workers |-> "idle"]
  /\ wjob = [w \in Workers |-> None]
  /\ owns = [w \in Workers |-> FALSE]
  /\ retry = [h \in Retriers |-> Resting]
  /\ faults = 0
  /\ accepted = [m \in Messages |-> 0]
  /\ blind = [m \in Messages |-> FALSE]
  /\ barred = [w \in Workers |-> FALSE]

Fault == faults < MaxFaults /\ faults' = faults + 1
NoFault == UNCHANGED faults

-----------------------------------------------------------------------------
(* The API: create, and retry by hand                                      *)

(* queue.add: an id it has seen and retains is ignored.                    *)
EnqueueSend(m, attempt) ==
  /\ known' = known \cup {<<m, attempt>>}
  /\ jobs' = IF <<m, attempt>> \in known THEN jobs ELSE Add(jobs, NewJob(m, 0))

(* The insert: a suppressed recipient's message is born suppressed.        *)
Insert(m) ==
  /\ create[m] = "start"
  /\ SetStatus(m, IF suppressed[m] THEN "suppressed" ELSE "queued")
  /\ create' = [create EXCEPT ![m] = IF suppressed[m] THEN "done" ELSE "enqueue"]
  /\ UNCHANGED <<pmid, retries, suppressed, queueVars, workerVars, retry, faults, accepted, blind, barred>>

Enqueue(m) ==
  /\ create[m] = "enqueue"
  /\ EnqueueSend(m, 0)
  /\ create' = [create EXCEPT ![m] = "done"]
  /\ UNCHANGED <<rowVars, suppressed, workerVars, retry, faults, accepted, blind, barred>>

(* The process dies, or the audit or the enqueue throws: no job.           *)
CreateDies(m) ==
  /\ create[m] = "enqueue"
  /\ Fault
  /\ create' = [create EXCEPT ![m] = "dead"]
  /\ UNCHANGED <<rowVars, suppressed, queueVars, workerVars, retry, accepted, blind, barred>>

(* canRetryMessage on the row as it is read.                               *)
RetryRead(h, m) ==
  /\ retry[h].at = "idle"
  /\ ~pmid[m] /\ status[m] = "failed"
  /\ retries[m] < MaxRetries
  /\ retry' = [retry EXCEPT ![h] = Retrying("check", m, retries[m] + 1)]
  /\ UNCHANGED <<create, rowVars, suppressed, queueVars, workerVars, faults, accepted, blind, barred>>

(* isSuppressed, then assertCanSend: either may refuse.                    *)
RetryCheck(h) ==
  LET m == retry[h].msg IN
  /\ retry[h].at = "check"
  /\ \/ ~suppressed[m] /\ retry' = [retry EXCEPT ![h] = Retrying("write", m, @.attempt)]
     \/ retry' = [retry EXCEPT ![h] = Resting]
  /\ UNCHANGED <<create, rowVars, suppressed, queueVars, workerVars, faults, accepted, blind, barred>>

(* Mutant: the attempt is counted again when it is written.                *)
RetryCountTwice(h) ==
  LET m == retry[h].msg IN
  /\ retry[h].at = "write"
  /\ SetStatus(m, "queued")
  /\ retries' = [retries EXCEPT ![m] = retry[h].attempt + 1]
  /\ retry' = [retry EXCEPT ![h] = Retrying("enqueue", m, @.attempt)]
  /\ UNCHANGED <<create, pmid, suppressed, queueVars, workerVars, faults, accepted, blind, barred>>

(* The update names only the id: nothing of what was read is rechecked.    *)
RetryWrite(h) ==
  LET m == retry[h].msg IN
  /\ retry[h].at = "write"
  /\ SetStatus(m, "queued")
  /\ retries' = [retries EXCEPT ![m] = retry[h].attempt]
  /\ retry' = [retry EXCEPT ![h] = Retrying("enqueue", m, @.attempt)]
  /\ UNCHANGED <<create, pmid, suppressed, queueVars, workerVars, faults, accepted, blind, barred>>

RetryEnqueue(h) ==
  /\ retry[h].at = "enqueue"
  /\ EnqueueSend(retry[h].msg, retry[h].attempt)
  /\ retry' = [retry EXCEPT ![h] = Resting]
  /\ UNCHANGED <<create, rowVars, suppressed, workerVars, faults, accepted, blind, barred>>

RetryDies(h) ==
  /\ retry[h].at # "idle"
  /\ Fault
  /\ retry' = [retry EXCEPT ![h] = Resting]
  /\ UNCHANGED <<create, rowVars, suppressed, queueVars, workerVars, accepted, blind, barred>>

(* The recipient unsubscribes or bounces; an operator lifts a suppression. *)
Suppression(m) ==
  /\ suppressed' = [suppressed EXCEPT ![m] = ~@]
  /\ barred' = [w \in Workers |-> barred[w] /\ ~(suppressed[m] /\ wjob[w] # None /\ Msg(w) = m)]
  /\ UNCHANGED <<apiVars, rowVars, queueVars, workerVars, faults, accepted, blind>>

-----------------------------------------------------------------------------
(* The worker                                                              *)

Step(w, place) == wpc' = [wpc EXCEPT ![w] = place] /\ UNCHANGED <<wjob, owns>>
Rest(w) ==
  /\ wpc' = [wpc EXCEPT ![w] = "idle"]
  /\ wjob' = [wjob EXCEPT ![w] = None]
  /\ owns' = [owns EXCEPT ![w] = FALSE]
Outcome(w, s, place) == SetStatus(Msg(w), s) /\ Step(w, place)

Take(w, j) ==
  /\ wpc[w] = "idle" /\ jobs[j] > 0
  /\ jobs' = Remove(jobs, j)
  /\ wpc' = [wpc EXCEPT ![w] = "load"]
  /\ wjob' = [wjob EXCEPT ![w] = j]
  /\ owns' = [owns EXCEPT ![w] = TRUE]
  /\ barred' = [barred EXCEPT ![w] = suppressed[j.msg]]
  /\ UNCHANGED <<apiVars, rowVars, suppressed, known, faults, accepted, blind>>

(* Mutant: every row is processed, whatever its status.                    *)
LoadUnguarded(w) ==
  /\ wpc[w] = "load"
  /\ Step(w, "gate")
  /\ UNCHANGED <<apiVars, rowVars, suppressed, queueVars, faults, accepted, blind, barred>>

(* The guard: only a queued or sending row is processed.                   *)
Load(w) ==
  /\ wpc[w] = "load"
  /\ Step(w, IF status[Msg(w)] \in Live THEN "gate" ELSE "done")
  /\ UNCHANGED <<apiVars, rowVars, suppressed, queueVars, faults, accepted, blind, barred>>

(* Recipient confirmation and reputationGate: pass, refuse (paused,        *)
(* suspended, DNS, deferred too often), or defer under a fresh job id.     *)
Gate(w) ==
  LET j == wjob[w] IN
  /\ wpc[w] = "gate"
  /\ \/ Step(w, "mark") /\ UNCHANGED jobs
     \/ Step(w, "refuse") /\ UNCHANGED jobs
     \/ /\ j.deferrals < MaxDeferrals
        /\ jobs' = Add(jobs, NewJob(j.msg, j.deferrals + 1))
        /\ Step(w, "deferred")
  /\ UNCHANGED <<apiVars, rowVars, suppressed, known, faults, accepted, blind, barred>>

(* The deferral reached Redis but its answer did not reach us.             *)
GateUnanswered(w) ==
  LET j == wjob[w] IN
  /\ wpc[w] = "gate" /\ Fault
  /\ j.deferrals < MaxDeferrals
  /\ jobs' = Add(jobs, NewJob(j.msg, j.deferrals + 1))
  /\ Step(w, "rethrow")
  /\ blind' = [blind EXCEPT ![j.msg] = TRUE]
  /\ UNCHANGED <<apiVars, rowVars, suppressed, known, accepted, barred>>

(* Mutant: the refusal is logged but not written.                          *)
RefuseUnwritten(w) ==
  /\ wpc[w] = "refuse"
  /\ Step(w, "audit")
  /\ UNCHANGED <<apiVars, rowVars, suppressed, queueVars, faults, accepted, blind, barred>>

(* failBeforeSend, failByo and the beta-reply refusal: no status check.    *)
Refuse(w) ==
  /\ wpc[w] = "refuse"
  /\ Outcome(w, "failed", "audit")
  /\ UNCHANGED <<apiVars, pmid, retries, suppressed, queueVars, faults, accepted, blind, barred>>

Mark(w) ==
  /\ wpc[w] = "mark"
  /\ Outcome(w, "sending", "checkSuppressed")
  /\ UNCHANGED <<apiVars, pmid, retries, suppressed, queueVars, faults, accepted, blind, barred>>

(* Mutant: a row already re-queued by hand is not checked again.           *)
CheckFirstTryOnly(w) ==
  /\ wpc[w] = "checkSuppressed"
  /\ Step(w, IF suppressed[Msg(w)] /\ retries[Msg(w)] = 0 THEN "suppress" ELSE "resolve")
  /\ UNCHANGED <<apiVars, rowVars, suppressed, queueVars, faults, accepted, blind, barred>>

(* isSuppressedAtSend.                                                     *)
CheckSuppressed(w) ==
  /\ wpc[w] = "checkSuppressed"
  /\ Step(w, IF suppressed[Msg(w)] THEN "suppress" ELSE "resolve")
  /\ UNCHANGED <<apiVars, rowVars, suppressed, queueVars, faults, accepted, blind, barred>>

Suppress(w) ==
  /\ wpc[w] = "suppress"
  /\ Outcome(w, "suppressed", "audit")
  /\ UNCHANGED <<apiVars, pmid, retries, suppressed, queueVars, faults, accepted, blind, barred>>

(* Reply address and provider: a beta From without one, or an unusable     *)
(* customer provider, refuses the message.                                 *)
Resolve(w) ==
  /\ wpc[w] = "resolve"
  /\ Step(w, "send") \/ Step(w, "refuse")
  /\ UNCHANGED <<apiVars, rowVars, suppressed, queueVars, faults, accepted, blind, barred>>

(* provider.send: taken, refused, or taken but answered with an error.     *)
Send(w) ==
  /\ wpc[w] = "send"
  /\ \/ /\ accepted' = [accepted EXCEPT ![Msg(w)] = @ + 1]
        /\ Step(w, "recordSent") \/ (Ambiguous /\ Step(w, "catch"))
     \/ UNCHANGED accepted /\ Step(w, "catch")
  /\ UNCHANGED <<apiVars, rowVars, suppressed, queueVars, faults, blind, barred>>

RecordSent(w) ==
  /\ wpc[w] = "recordSent"
  /\ Outcome(w, "sent", "auditSent")
  /\ pmid' = [pmid EXCEPT ![Msg(w)] = TRUE]
  /\ UNCHANGED <<apiVars, retries, suppressed, queueVars, faults, accepted, blind, barred>>

(* Real providers report delivery later; the mock delivers inline.         *)
AuditSent(w) ==
  /\ wpc[w] = "auditSent"
  /\ Step(w, "done") \/ Step(w, "mockDeliver")
  /\ UNCHANGED <<apiVars, rowVars, suppressed, queueVars, faults, accepted, blind, barred>>

MockDeliver(w) ==
  /\ wpc[w] = "mockDeliver"
  /\ Outcome(w, "delivered", "auditDelivered")
  /\ UNCHANGED <<apiVars, pmid, retries, suppressed, queueVars, faults, accepted, blind, barred>>

AuditDelivered(w) ==
  /\ wpc[w] = "auditDelivered"
  /\ Step(w, "done")
  /\ UNCHANGED <<apiVars, rowVars, suppressed, queueVars, faults, accepted, blind, barred>>

(* Mutant: the catch rethrows without writing the failure.                 *)
CatchUnwritten(w) ==
  /\ wpc[w] = "catch"
  /\ Step(w, "rethrow")
  /\ UNCHANGED <<apiVars, rowVars, suppressed, queueVars, faults, accepted, blind, barred>>

(* The catch: failed, whatever the row says by now, then audit and throw.  *)
Catch(w) ==
  /\ wpc[w] = "catch"
  /\ Outcome(w, "failed", "rethrow")
  /\ UNCHANGED <<apiVars, pmid, retries, suppressed, queueVars, faults, accepted, blind, barred>>

(* processSend returns, after its last audit if it wrote one: the job is   *)
(* complete.                                                               *)
Finish(w) ==
  /\ wpc[w] \in {"audit", "deferred", "done"}
  /\ Rest(w)
  /\ UNCHANGED <<apiVars, rowVars, suppressed, queueVars, faults, accepted, blind, barred>>

(* processSend threw: back into the queue, under its id, while attempts    *)
(* are left.  A worker that lost the lock cannot move the job.             *)
Rethrow(w) ==
  /\ wpc[w] = "rethrow"
  /\ jobs' = IF owns[w] /\ wjob[w].tries + 1 < Attempts THEN Add(jobs, NextTry(wjob[w])) ELSE jobs
  /\ Rest(w)
  /\ UNCHANGED <<apiVars, rowVars, suppressed, known, faults, accepted, blind, barred>>

-----------------------------------------------------------------------------
(* Faults                                                                  *)

(* An await throws where no try surrounds it.                              *)
Throw(w) ==
  /\ wpc[w] \in OutsideTry /\ Fault
  /\ Step(w, "rethrow")
  /\ UNCHANGED <<apiVars, rowVars, suppressed, queueVars, accepted, blind, barred>>

(* An await inside the try throws after the provider answered.             *)
ThrowAfterSend(w) ==
  /\ wpc[w] \in InsideTry /\ Fault
  /\ Step(w, "catch")
  /\ UNCHANGED <<apiVars, rowVars, suppressed, queueVars, accepted, blind, barred>>

(* The catch's own write throws.                                           *)
CatchThrows(w) ==
  /\ wpc[w] = "catch" /\ Fault
  /\ Step(w, "rethrow")
  /\ blind' = [blind EXCEPT ![Msg(w)] = TRUE]
  /\ UNCHANGED <<apiVars, rowVars, suppressed, queueVars, accepted, barred>>

(* BullMQ's stalled-job check: one recovery, then the job fails for good.  *)
Recover(w) ==
  jobs' = IF owns[w] /\ ~wjob[w].stalled THEN Add(jobs, Stalled(wjob[w])) ELSE jobs

(* The lock lapses; the worker, merely slow, goes on.                      *)
Stall(w) ==
  /\ wpc[w] # "idle" /\ owns[w] /\ Fault
  /\ Recover(w)
  /\ owns' = [owns EXCEPT ![w] = FALSE]
  /\ blind' = [blind EXCEPT ![Msg(w)] = @ \/ wpc[w] \in Unrecorded \cup ToSend]
  /\ UNCHANGED <<apiVars, rowVars, suppressed, known, wpc, wjob, accepted, barred>>

(* The worker process dies.                                                *)
Crash(w) ==
  /\ wpc[w] # "idle" /\ Fault
  /\ Recover(w)
  /\ Rest(w)
  /\ blind' = [blind EXCEPT ![Msg(w)] = @ \/ wpc[w] \in Unrecorded]
  /\ UNCHANGED <<apiVars, rowVars, suppressed, known, accepted, barred>>

-----------------------------------------------------------------------------
WorkerStep(w) ==
  \/ Load(w) \/ Gate(w) \/ Refuse(w) \/ Mark(w) \/ CheckSuppressed(w) \/ Suppress(w)
  \/ Resolve(w) \/ Send(w) \/ RecordSent(w) \/ AuditSent(w) \/ MockDeliver(w)
  \/ AuditDelivered(w) \/ Catch(w) \/ Finish(w) \/ Rethrow(w)

Faulty(w) ==
  \/ GateUnanswered(w) \/ Throw(w) \/ ThrowAfterSend(w) \/ CatchThrows(w)
  \/ Stall(w) \/ Crash(w)

Next ==
  \/ \E m \in Messages : Insert(m) \/ Enqueue(m) \/ CreateDies(m) \/ Suppression(m)
  \/ \E h \in Retriers :
       \/ \E m \in Messages : RetryRead(h, m)
       \/ RetryCheck(h) \/ RetryWrite(h) \/ RetryEnqueue(h) \/ RetryDies(h)
  \/ \E w \in Workers : (\E j \in Job : Take(w, j)) \/ WorkerStep(w) \/ Faulty(w)

Spec == Init /\ [][Next]_vars

(* Idle workers take what waits and running ones go on; nothing obliges a  *)
(* client to retry, a list to change or anything to fail.                  *)
Fairness ==
  /\ \A w \in Workers : WF_vars(WorkerStep(w))
  /\ \A w \in Workers, j \in Job : WF_vars(Take(w, j))
FairSpec == Spec /\ Fairness

-----------------------------------------------------------------------------
(* Properties                                                              *)

TypeOK ==
  /\ create \in [Messages -> {"start", "enqueue", "done", "dead"}]
  /\ status \in [Messages -> Status]
  /\ pmid \in [Messages -> BOOLEAN]
  /\ retries \in [Messages -> 0..MaxRetries]
  /\ suppressed \in [Messages -> BOOLEAN]
  /\ jobs \in [Job -> Nat]
  /\ known \subseteq Messages \X (0..MaxRetries)
  /\ wpc \in [Workers -> WorkerPC]
  /\ wjob \in [Workers -> Job \cup {None}]
  /\ \A w \in Workers : wpc[w] = "idle" <=> wjob[w] = None
  /\ owns \in [Workers -> BOOLEAN]
  /\ retry \in [Retriers -> {Resting} \cup RetryCalls]
  /\ faults \in 0..MaxFaults
  /\ accepted \in [Messages -> Nat]
  /\ blind \in [Messages -> BOOLEAN]
  /\ barred \in [Workers -> BOOLEAN]

(* Left to itself the pipeline never sends twice: provider refusals,       *)
(* automatic retries, deferrals and exceptions, even an audit that fails   *)
(* after the provider took the mail, give at most one accepted copy,       *)
(* unless an execution was duplicated or lost its outcome (blind) or a     *)
(* person asked for another one.                                           *)
NoSelfMadeDuplicate ==
  \A m \in Messages : retries[m] = 0 /\ ~blind[m] => accepted[m] <= 1

(* A recipient on the suppression list from before the job was picked up   *)
(* until now is never handed to the provider: not by a deferred job, not   *)
(* by a retry approved before the recipient was suppressed, not by a       *)
(* recovered one.                                                          *)
SuppressionHonoured == \A w \in Workers : wpc[w] = "send" => ~barred[w]

(* A message whose job reached the queue is eventually settled, given at   *)
(* most one fault: a job that stalls a second time is failed for good,     *)
(* wherever its row stands.                                                *)
EnqueuedSettles ==
  [](faults <= 1) => \A m \in Messages : <<m, 0>> \in known ~> status[m] \in Settled
=============================================================================
