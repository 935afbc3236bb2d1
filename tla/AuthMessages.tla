---------------------------- MODULE AuthMessages ----------------------------
(***************************************************************************)
(* Authentication mail (login codes, magic links): POST /v1/auth-messages, *)
(* the ephemeral content vault, the send job, the worker's claim-and-send  *)
(* path and the reconciler.                                                *)
(*                                                                         *)
(* Every request mints its own message id, so a message is named by the    *)
(* request that minted it: status[r], vault[r] and jobs of r all belong to *)
(* the id request r made up.  KeyOf gives a request's idempotency key and  *)
(* InputOf its fingerprinted input.                                        *)
(*                                                                         *)
(* One action is the code between two awaits that read or write something  *)
(* shared.  Throw and Crash let any of those awaits be the last one.       *)
(***************************************************************************)
EXTENDS Naturals, FiniteSets

CONSTANTS Requests,      \* POST /v1/auth-messages calls; also the ids they mint
          Keys,          \* scoped idempotency keys
          KeyOf,         \* the key each request carries
          Inputs,        \* fingerprints of the rest of the request
          InputOf,       \* the fingerprint of each request
          Workers,       \* concurrent executions of the send queue
          MaxDeferrals,  \* REPUTATION_MAX_DEFERRALS
          MaxLapses,     \* bound: exceptions of a write that was made
          None           \* no job, no row

ASSUME KeysAssumption == KeyOf \in [Requests -> Keys]
ASSUME InputsAssumption == InputOf \in [Requests -> Inputs]
ASSUME DeferralsAssumption == MaxDeferrals \in Nat
ASSUME LapsesAssumption == MaxLapses \in Nat

(* A job carries its message and the deferrals so far; BullMQ remembers    *)
(* whether it was already recovered from a stall (maxStalledCount is 1).   *)
Job == [msg : Requests, deferrals : 0..MaxDeferrals, stalled : BOOLEAN]
MainJob(r) == [msg |-> r, deferrals |-> 0, stalled |-> FALSE]
Deferred(j) == [msg |-> j.msg, deferrals |-> j.deferrals + 1, stalled |-> FALSE]
Stalled(j) == [j EXCEPT !.stalled = TRUE]

ASSUME NoneAssumption == None \notin Requests /\ None \notin Job

VARIABLES
  status,     \* messages.status of each id, "absent" before the insert
  age,        \* where the clock stands against each input's authExpiresAt
  vault,      \* does the vault hold sealed content under this id?
  units,      \* the meters on which a unit is counted for this request
  req,        \* where each request's handler stands
  jobs,       \* how many copies of each job wait in the send queue
  jobKnown,   \* has the queue already seen jobId = message id?
  wpc,        \* where each worker stands
  wjob,       \* the job it holds
  rec,        \* the reconciler: its place, the row it selected, the status seen
  submitted,  \* history: how often each id's credential went to the provider
  lapse       \* history: the await that threw although its write was made

quotaVars  == <<units, lapse>>
apiVars    == <<quotaVars, req>>
queueVars  == <<jobs, jobKnown>>
workerVars == <<wpc, wjob>>
vars == <<status, age, vault, units, req, jobs, jobKnown, wpc, wjob, rec, submitted, lapse>>

-----------------------------------------------------------------------------
(* Values                                                                  *)

Status   == {"absent", "queued", "sending", "sent", "failed", "suppressed"}
Terminal == {"sent", "failed", "suppressed"}

(* fresh: more than AUTH_SEND_MARGIN_MS left; closing: less than that;     *)
(* expired: past the deadline; overdue: a minute past it.                  *)
Ages == {"fresh", "closing", "expired", "overdue"}
Later == [fresh |-> "closing", closing |-> "expired", expired |-> "overdue"]

RequestPC == {"start", "seal", "chargeMonth", "chargeDay", "giveBack", "insert", "lost",
              "reenqueue", "undo", "refundMonth", "refundDay", "audit", "enqueue",
              "done", "dead"}
\* Before the insert this request's own id has no row.
BeforeInsert == {"start", "seal", "chargeMonth", "chargeDay", "giveBack", "insert",
                 "lost", "reenqueue"}
Meters == {"month", "day"}                  \* usage_records, transactional_daily_usage

WorkerPC == {"idle", "load", "expire", "gate", "refuse", "configure", "claim",
             "recordSending", "checkSuppressed", "suppress", "take", "send",
             "recordSent", "failUnclaimed", "failClaimed", "purge", "finish"}
\* Places that only the worker whose claim succeeded reaches ...
Claimed   == {"recordSending", "checkSuppressed", "suppress", "take", "send",
              "recordSent", "failClaimed"}
\* ... and those from which the provider call is still to come.
PreSubmit == {"recordSending", "checkSuppressed", "take", "send"}

(* The deadline is part of the fingerprinted input.                        *)
Age(r) == age[InputOf[r]]
InTime(r) == Age(r) = "fresh"               \* assertAuthLifetime does not throw
Add(bag, j) == [bag EXCEPT ![j] = @ + 1]
Remove(bag, j) == [bag EXCEPT ![j] = @ - 1]
Msg(w) == wjob[w].msg

Winners(r) == {s \in Requests : KeyOf[s] = KeyOf[r] /\ status[s] # "absent"}

-----------------------------------------------------------------------------
Sweeping(place, r, seen) == [at |-> place, msg |-> r, seen |-> seen]
Resting == Sweeping("idle", None, "queued")

Init ==
  /\ status = [r \in Requests |-> "absent"]
  /\ age = [i \in Inputs |-> "fresh"]
  /\ vault = [r \in Requests |-> FALSE]
  /\ units = [r \in Requests |-> {}]
  /\ req = [r \in Requests |-> "start"]
  /\ jobs = [j \in Job |-> 0]
  /\ jobKnown = [r \in Requests |-> FALSE]
  /\ wpc = [w \in Workers |-> "idle"]
  /\ wjob = [w \in Workers |-> None]
  /\ rec = Resting
  /\ submitted = [r \in Requests |-> 0]
  /\ lapse = [r \in Requests |-> "none"]

-----------------------------------------------------------------------------
(* The request handler                                                     *)

Go(r, place) == req' = [req EXCEPT ![r] = place]

(* The queue ignores an id it has already seen and still retains.          *)
EnqueueSend(s) ==
  /\ jobs' = IF jobKnown[s] THEN jobs ELSE Add(jobs, MainJob(s))
  /\ jobKnown' = [jobKnown EXCEPT ![s] = TRUE]

(* Replay of an existing row: different input is a conflict, a row still   *)
(* queued is enqueued again, anything else is just reported.               *)
Replay(r, s, finally) ==
  Go(r, IF InputOf[s] = InputOf[r] /\ status[s] = "queued" THEN "reenqueue" ELSE finally)

(* Validation, then the look-up by idempotency key.                        *)
Begin(r) ==
  /\ req[r] = "start"
  /\ \/ Go(r, "done")                                  \* refused outright
     \/ InTime(r) /\ \E s \in Winners(r) : Replay(r, s, "done")
     \/ InTime(r) /\ Winners(r) = {} /\ Go(r, "seal")
  /\ UNCHANGED <<status, age, vault, quotaVars, queueVars, workerVars, rec, submitted>>

(* vault.put; an error after the SET leaves the content to its TTL.        *)
Seal(r) ==
  /\ req[r] = "seal"
  /\ \/ InTime(r) /\ vault' = [vault EXCEPT ![r] = TRUE] /\ (Go(r, "chargeMonth") \/ Go(r, "done"))
     \/ UNCHANGED vault /\ Go(r, "done")
  /\ UNCHANGED <<status, age, quotaVars, queueVars, workerVars, rec, submitted>>

(* tryConsumeQuota is two conditional updates and, when the day refuses,   *)
(* the month given back.  The handler learns of its units only when all of *)
(* it returned: if one of these awaits throws, the finally block runs with *)
(* charged still false, whatever the meters say.                           *)
Count(r, meter)   == units' = [units EXCEPT ![r] = @ \cup {meter}]
Uncount(r, meter) == units' = [units EXCEPT ![r] = @ \ {meter}]
Throws(r, await) ==
  /\ Cardinality({s \in Requests : lapse[s] # "none"}) < MaxLapses
  /\ lapse' = [lapse EXCEPT ![r] = await]
  /\ Go(r, "undo")

ChargeMonth(r) ==
  /\ req[r] = "chargeMonth"
  /\ \/ Count(r, "month") /\ Go(r, "chargeDay") /\ UNCHANGED lapse
     \/ Go(r, "undo") /\ UNCHANGED quotaVars          \* used up, or nothing written
     \/ Count(r, "month") /\ Throws(r, "charge")
  /\ UNCHANGED <<status, age, vault, queueVars, workerVars, rec, submitted>>

(* Mutant: a day that refuses leaves the month counted.                    *)
ChargeDayKeepsMonth(r) ==
  /\ req[r] = "chargeDay"
  /\ \/ Count(r, "day") /\ Go(r, "insert") /\ UNCHANGED lapse
     \/ Go(r, "undo") /\ UNCHANGED quotaVars
  /\ UNCHANGED <<status, age, vault, queueVars, workerVars, rec, submitted>>

ChargeDay(r) ==
  /\ req[r] = "chargeDay"
  /\ \/ Count(r, "day") /\ Go(r, "insert") /\ UNCHANGED lapse
     \/ Go(r, "giveBack") /\ UNCHANGED quotaVars      \* the day's cap is reached
     \/ (Count(r, "day") \/ UNCHANGED units) /\ Throws(r, "charge")
  /\ UNCHANGED <<status, age, vault, queueVars, workerVars, rec, submitted>>

GiveBack(r) ==
  /\ req[r] = "giveBack"
  /\ \/ Uncount(r, "month") /\ Go(r, "undo") /\ UNCHANGED lapse
     \/ Throws(r, "charge") /\ UNCHANGED units
  /\ UNCHANGED <<status, age, vault, queueVars, workerVars, rec, submitted>>

(* The handler's own flag: tryConsumeQuota returned true.                  *)
Charged(r) == units[r] = Meters /\ lapse[r] # "charge"

(* Mutant: without the unique index, the earlier look-up alone decides.    *)
InsertUnchecked(r) ==
  /\ req[r] = "insert"
  /\ InTime(r)
  /\ status' = [status EXCEPT ![r] = "queued"]
  /\ Go(r, "audit")
  /\ UNCHANGED <<age, vault, quotaVars, queueVars, workerVars, rec, submitted>>

(* The insert, decided by the unique (workspace, idempotency key) index.   *)
(* It may throw, and it may have been committed when it does.              *)
Insert(r) ==
  /\ req[r] = "insert"
  /\ \/ /\ InTime(r) /\ Winners(r) = {}
        /\ status' = [status EXCEPT ![r] = "queued"]
        /\ (Go(r, "audit") /\ UNCHANGED lapse) \/ Throws(r, "insert")
     \/ InTime(r) /\ Winners(r) # {} /\ Go(r, "lost") /\ UNCHANGED <<status, lapse>>
     \/ Go(r, "undo") /\ UNCHANGED <<status, lapse>>          \* expired, or no insert
  /\ UNCHANGED <<age, vault, units, queueVars, workerVars, rec, submitted>>

(* The loser of the insert race looks the winner up and replays it.        *)
Lost(r) ==
  /\ req[r] = "lost"
  /\ \/ \E s \in Winners(r) : Replay(r, s, "undo")
     \/ Go(r, "undo")                                  \* the look-up threw
  /\ UNCHANGED <<status, age, vault, quotaVars, queueVars, workerVars, rec, submitted>>

Reenqueue(r) ==
  /\ req[r] = "reenqueue"
  /\ Go(r, IF Charged(r) THEN "undo" ELSE "done")
  /\ \/ \E s \in Winners(r) : EnqueueSend(s)
     \/ UNCHANGED queueVars
  /\ UNCHANGED <<status, age, vault, quotaVars, workerVars, rec, submitted>>

(* Mutant: the discard is keyed by the idempotency key, not the own id.    *)
UndoSharedScope(r) ==
  /\ req[r] = "undo"
  /\ vault' = [s \in Requests |-> vault[s] /\ KeyOf[s] # KeyOf[r]]
  /\ Go(r, IF Charged(r) THEN "refundMonth" ELSE "done")
  /\ UNCHANGED <<status, age, quotaVars, queueVars, workerVars, rec, submitted>>

(* finally, when this request inserted nothing: discard its own content    *)
(* (discard swallows a Redis error), then hand the quota back.             *)
Undo(r) ==
  /\ req[r] = "undo"
  /\ vault' \in {vault, [vault EXCEPT ![r] = FALSE]}
  /\ Go(r, IF Charged(r) THEN "refundMonth" ELSE "done")
  /\ UNCHANGED <<status, age, quotaVars, queueVars, workerVars, rec, submitted>>

RefundMonth(r) ==
  /\ req[r] = "refundMonth"
  /\ Uncount(r, "month")
  /\ Go(r, "refundDay")
  /\ UNCHANGED <<status, age, vault, lapse, queueVars, workerVars, rec, submitted>>

RefundDay(r) ==
  /\ req[r] = "refundDay"
  /\ Uncount(r, "day")
  /\ Go(r, "done")
  /\ UNCHANGED <<status, age, vault, lapse, queueVars, workerVars, rec, submitted>>

WriteAudit(r) ==
  /\ req[r] = "audit"
  /\ Go(r, "enqueue")
  /\ UNCHANGED <<status, age, vault, quotaVars, queueVars, workerVars, rec, submitted>>

Enqueue(r) ==
  /\ req[r] = "enqueue"
  /\ EnqueueSend(r)
  /\ Go(r, "done")
  /\ UNCHANGED <<status, age, vault, quotaVars, workerVars, rec, submitted>>

(* The API process dies, or an await outside the try (or in its finally)   *)
(* throws: the handler goes no further.                                    *)
Abandon(r) ==
  /\ req[r] \notin {"done", "dead"}
  /\ Go(r, "dead")
  /\ UNCHANGED <<status, age, vault, quotaVars, queueVars, workerVars, rec, submitted>>

-----------------------------------------------------------------------------
(* The worker: processSend's guards, then processAuthSend                  *)

Step(w, place) == wpc' = [wpc EXCEPT ![w] = place] /\ UNCHANGED wjob
Rest(w) == wpc' = [wpc EXCEPT ![w] = "idle"] /\ wjob' = [wjob EXCEPT ![w] = None]
SetStatus(m, s) == status' = [status EXCEPT ![m] = s]
(* UPDATE ... WHERE id = m AND status = from, and what follows if a row    *)
(* came back.                                                              *)
CompareAndSet(w, from, to, hit, miss) ==
  IF status[Msg(w)] = from
  THEN SetStatus(Msg(w), to) /\ Step(w, hit)
  ELSE UNCHANGED status /\ Step(w, miss)

Take(w) ==
  /\ wpc[w] = "idle"
  /\ \E j \in Job :
       /\ jobs[j] > 0
       /\ jobs' = Remove(jobs, j)
       /\ wjob' = [wjob EXCEPT ![w] = j]
  /\ wpc' = [wpc EXCEPT ![w] = "load"]
  /\ UNCHANGED <<status, age, vault, apiVars, jobKnown, rec, submitted>>

(* Read the row: an auth message not queued is somebody else's.            *)
Load(w) ==
  /\ wpc[w] = "load"
  /\ Step(w, IF status[Msg(w)] # "queued" THEN "finish"
             ELSE IF InTime(Msg(w)) THEN "gate" ELSE "expire")
  /\ UNCHANGED <<status, age, vault, apiVars, queueVars, rec, submitted>>

(* failBeforeSend("auth_expired"), then audit and discard.                 *)
Expire(w) ==
  /\ wpc[w] = "expire"
  /\ CompareAndSet(w, "queued", "failed", "purge", "finish")
  /\ UNCHANGED <<age, vault, apiVars, queueVars, rec, submitted>>

(* Recipient confirmation and reputationGate: pass, refuse, or throttle.   *)
(* A throttled credential that would expire first fails now; one deferred  *)
(* too often is refused; any other goes back under a fresh job id.         *)
Gate(w) ==
  LET j == wjob[w] IN
  /\ wpc[w] = "gate"
  /\ \/ Step(w, "configure") /\ UNCHANGED jobs
     \/ Step(w, "refuse") /\ UNCHANGED jobs
     \/ Step(w, "expire") /\ UNCHANGED jobs
     \/ /\ j.deferrals < MaxDeferrals
        /\ jobs' = Add(jobs, Deferred(j))
        /\ Step(w, "finish")
  /\ UNCHANGED <<status, age, vault, apiVars, jobKnown, rec, submitted>>

(* failBeforeSend for a gate: the content stays until its TTL.             *)
Refuse(w) ==
  /\ wpc[w] = "refuse"
  /\ CompareAndSet(w, "queued", "failed", "finish", "finish")
  /\ UNCHANGED <<age, vault, apiVars, queueVars, rec, submitted>>

(* Scope, lifetime, vault and provider configuration, before the claim.    *)
Configure(w) ==
  /\ wpc[w] = "configure"
  /\ \/ InTime(Msg(w)) /\ Step(w, "claim")
     \/ Step(w, "failUnclaimed")
  /\ UNCHANGED <<status, age, vault, apiVars, queueVars, rec, submitted>>

(* The durable claim: queued -> sending, or somebody else has it.          *)
Claim(w) ==
  /\ wpc[w] = "claim"
  /\ \/ CompareAndSet(w, "queued", "sending", "recordSending", "finish")
     \/ Step(w, "failUnclaimed") /\ UNCHANGED status
  /\ UNCHANGED <<age, vault, apiVars, queueVars, rec, submitted>>

RecordSending(w) ==
  /\ wpc[w] = "recordSending"
  /\ \/ Step(w, "checkSuppressed")
     \/ Step(w, "failClaimed")
  /\ UNCHANGED <<status, age, vault, apiVars, queueVars, rec, submitted>>

CheckSuppressed(w) ==
  /\ wpc[w] = "checkSuppressed"
  /\ \/ Step(w, "suppress")
     \/ Step(w, "take")
     \/ Step(w, "failClaimed")
  /\ UNCHANGED <<status, age, vault, apiVars, queueVars, rec, submitted>>

(* This write is not conditional on the status.  A failed audit after it   *)
(* lands in the catch, which then matches nothing.                         *)
Suppress(w) ==
  /\ wpc[w] = "suppress"
  /\ \/ SetStatus(Msg(w), "suppressed") /\ (Step(w, "purge") \/ Step(w, "failClaimed"))
     \/ UNCHANGED status /\ Step(w, "failClaimed")
  /\ UNCHANGED <<age, vault, apiVars, queueVars, rec, submitted>>

(* GETDEL: the content is gone from the vault whether or not the reply     *)
(* reached us; an unavailable vault or a late deadline takes nothing.      *)
TakeContent(w) ==
  LET m == Msg(w) IN
  /\ wpc[w] = "take"
  /\ \/ InTime(m) /\ vault[m] /\ vault' = [vault EXCEPT ![m] = FALSE] /\ Step(w, "send")
     \/ vault' \in {vault, [vault EXCEPT ![m] = FALSE]} /\ Step(w, "failClaimed")
  /\ UNCHANGED <<status, age, apiVars, queueVars, rec, submitted>>

(* The provider may take the mail and the answer still be an error.        *)
Send(w) ==
  /\ wpc[w] = "send"
  /\ \/ InTime(Msg(w)) /\ submitted' = [submitted EXCEPT ![Msg(w)] = @ + 1]
          /\ (Step(w, "recordSent") \/ Step(w, "failClaimed"))
     \/ UNCHANGED submitted /\ Step(w, "failClaimed")
  /\ UNCHANGED <<status, age, vault, apiVars, queueVars, rec>>

(* The write of the outcome is not conditional either; an audit failure    *)
(* after it is swallowed.                                                  *)
RecordSent(w) ==
  /\ wpc[w] = "recordSent"
  /\ \/ SetStatus(Msg(w), "sent") /\ Step(w, "finish")
     \/ UNCHANGED status /\ Step(w, "failClaimed")
  /\ UNCHANGED <<age, vault, apiVars, queueVars, rec, submitted>>

(* The catch.  Without a claim only a queued row may fail, and if the      *)
(* vault was never opened nothing is discarded.                            *)
FailUnclaimed(w) ==
  /\ wpc[w] = "failUnclaimed"
  /\ \E next \in {"purge", "finish"} : CompareAndSet(w, "queued", "failed", next, "finish")
  /\ UNCHANGED <<age, vault, apiVars, queueVars, rec, submitted>>

(* Mutant: the catch fails the row whatever it says by now.                *)
FailClaimedBlind(w) ==
  /\ wpc[w] = "failClaimed"
  /\ SetStatus(Msg(w), "failed") /\ Step(w, "purge")
  /\ UNCHANGED <<age, vault, apiVars, queueVars, rec, submitted>>

FailClaimed(w) ==
  /\ wpc[w] = "failClaimed"
  /\ CompareAndSet(w, "sending", "failed", "purge", "finish")
  /\ UNCHANGED <<age, vault, apiVars, queueVars, rec, submitted>>

Purge(w) ==
  /\ wpc[w] = "purge"
  /\ vault' \in {vault, [vault EXCEPT ![Msg(w)] = FALSE]}
  /\ Step(w, "finish")
  /\ UNCHANGED <<status, age, apiVars, queueVars, rec, submitted>>

(* The job completes, or fails for good: it has a single attempt.  An      *)
(* await that throws outside the try, or inside the catch, ends it too.    *)
Finish(w) ==
  /\ wpc[w] \in {"load", "expire", "gate", "refuse", "failUnclaimed", "failClaimed", "purge", "finish"}
  /\ Rest(w)
  /\ UNCHANGED <<status, age, vault, apiVars, queueVars, rec, submitted>>

(* The lock lapses: BullMQ hands the job out once more while this worker,  *)
(* merely slow, goes on.                                                   *)
Stall(w) ==
  /\ wpc[w] # "idle" /\ ~wjob[w].stalled
  /\ wjob' = [wjob EXCEPT ![w] = Stalled(@)]
  /\ jobs' = Add(jobs, Stalled(wjob[w]))
  /\ UNCHANGED <<status, age, vault, apiVars, jobKnown, wpc, rec, submitted>>

(* The worker process dies; its job is recovered unless it already was.    *)
Crash(w) ==
  /\ wpc[w] # "idle"
  /\ Rest(w)
  /\ jobs' = IF wjob[w].stalled THEN jobs ELSE Add(jobs, Stalled(wjob[w]))
  /\ UNCHANGED <<status, age, vault, apiVars, jobKnown, rec, submitted>>

-----------------------------------------------------------------------------
(* The reconciler, and time                                                *)

(* Mutant: the candidate query loses its status filter ...                 *)
ReconcileSelectAny(r) ==
  /\ rec.at = "idle"
  /\ Age(r) = "overdue" /\ status[r] # "absent"
  /\ rec' = Sweeping("commit", r, status[r])
  /\ UNCHANGED <<status, age, vault, apiVars, queueVars, workerVars, submitted>>

(* ... or looks for queued rows only.                                      *)
ReconcileSelectQueued(r) ==
  /\ rec.at = "idle"
  /\ Age(r) = "overdue" /\ status[r] = "queued"
  /\ rec' = Sweeping("commit", r, status[r])
  /\ UNCHANGED <<status, age, vault, apiVars, queueVars, workerVars, submitted>>

ReconcileSelect(r) ==
  /\ rec.at = "idle"
  /\ Age(r) = "overdue" /\ status[r] \in {"queued", "sending"}
  /\ rec' = Sweeping("commit", r, status[r])
  /\ UNCHANGED <<status, age, vault, apiVars, queueVars, workerVars, submitted>>

(* Mutant: an orphaned claim goes back to queued.                          *)
ReconcileRequeue ==
  /\ rec.at = "commit"
  /\ IF status[rec.msg] = rec.seen
     THEN SetStatus(rec.msg, "queued") /\ rec' = Sweeping("purge", rec.msg, rec.seen)
     ELSE UNCHANGED status /\ rec' = Resting
  /\ UNCHANGED <<age, vault, apiVars, queueVars, workerVars, submitted>>

(* One transaction: the conditional update and its audit entry.            *)
ReconcileCommit ==
  /\ rec.at = "commit"
  /\ IF status[rec.msg] = rec.seen
     THEN SetStatus(rec.msg, "failed") /\ rec' = Sweeping("purge", rec.msg, rec.seen)
     ELSE UNCHANGED status /\ rec' = Resting
  /\ UNCHANGED <<age, vault, apiVars, queueVars, workerVars, submitted>>

ReconcilePurge ==
  /\ rec.at = "purge"
  /\ vault' \in {vault, [vault EXCEPT ![rec.msg] = FALSE]}
  /\ rec' = Resting
  /\ UNCHANGED <<status, age, apiVars, queueVars, workerVars, submitted>>

ReconcileCrash ==
  /\ rec.at # "idle"
  /\ rec' = Resting
  /\ UNCHANGED <<status, age, vault, apiVars, queueVars, workerVars, submitted>>

(* The clock; the vault key has an absolute expiry (PXAT).                 *)
Tick(i) ==
  /\ age[i] # "overdue"
  /\ age' = [age EXCEPT ![i] = Later[@]]
  /\ vault' = [r \in Requests |-> vault[r] /\ ~(InputOf[r] = i /\ age[i] = "closing")]
  /\ UNCHANGED <<status, apiVars, queueVars, workerVars, rec, submitted>>

-----------------------------------------------------------------------------
RequestStep(r) ==
  \/ Begin(r) \/ Seal(r) \/ ChargeMonth(r) \/ ChargeDay(r) \/ GiveBack(r)
  \/ Insert(r) \/ Lost(r) \/ Reenqueue(r) \/ Undo(r) \/ RefundMonth(r)
  \/ RefundDay(r) \/ WriteAudit(r) \/ Enqueue(r)

WorkerStep(w) ==
  \/ Load(w) \/ Expire(w) \/ Gate(w) \/ Refuse(w) \/ Configure(w) \/ Claim(w)
  \/ RecordSending(w) \/ CheckSuppressed(w) \/ Suppress(w) \/ TakeContent(w)
  \/ Send(w) \/ RecordSent(w) \/ FailUnclaimed(w) \/ FailClaimed(w) \/ Purge(w)
  \/ Finish(w)

Next ==
  \/ \E r \in Requests : RequestStep(r) \/ Abandon(r) \/ ReconcileSelect(r)
  \/ \E i \in Inputs : Tick(i)
  \/ \E w \in Workers : Take(w) \/ WorkerStep(w) \/ Stall(w) \/ Crash(w)
  \/ ReconcileCommit \/ ReconcilePurge \/ ReconcileCrash

Spec == Init /\ [][Next]_vars
-----------------------------------------------------------------------------
(* Properties                                                              *)

TypeOK ==
  /\ status \in [Requests -> Status]
  /\ age \in [Inputs -> Ages]
  /\ vault \in [Requests -> BOOLEAN]
  /\ units \in [Requests -> SUBSET Meters]
  /\ req \in [Requests -> RequestPC]
  /\ jobs \in [Job -> Nat]
  /\ jobKnown \in [Requests -> BOOLEAN]
  /\ wpc \in [Workers -> WorkerPC]
  /\ wjob \in [Workers -> Job \cup {None}]
  /\ rec \in [at : {"idle", "commit", "purge"}, msg : Requests \cup {None}, seen : {"queued", "sending"}]
  /\ submitted \in [Requests -> Nat]
  /\ lapse \in [Requests -> {"none", "charge", "insert"}]

(* A credential goes to the provider at most once per idempotency key,     *)
(* whatever is replayed, stalled, crashed or reconciled (auth-send.ts:     *)
(* "Concurrent/stalled workers cannot resend").                            *)
AtMostOnce ==
  \A r, s \in Requests :
    /\ submitted[r] <= 1
    /\ KeyOf[r] = KeyOf[s] /\ submitted[r] > 0 /\ submitted[s] > 0 => r = s

(* Until its deadline a queued message still has its content: no losing    *)
(* request, stale worker or reconciler purges what another may still send  *)
(* (auth-send.ts: "nor purge its content").  The one exception is the      *)
(* handler that never learned its insert was committed: it discards the    *)
(* content of its own row.                                                 *)
QueuedHasContent ==
  \A r \in Requests :
    status[r] = "queued" /\ Age(r) \in {"fresh", "closing"} /\ lapse[r] # "insert" => vault[r]

(* Quota follows the row, on both meters and through every way out of the  *)
(* handler: a row is counted once on each, however long it lives; a        *)
(* handler that ran to its end without a row (a loser of the race, a       *)
(* refusal by the month or by the day, an insert that failed) leaves       *)
(* nothing counted, unless an await inside the reservation threw; and a    *)
(* row whose insert was not acknowledged is refunded in full.              *)
ChargedIffInserted ==
  \A r \in Requests :
    /\ status[r] # "absent" /\ lapse[r] # "insert" => units[r] = Meters
    /\ req[r] = "done" /\ (status[r] = "absent" \/ lapse[r] = "insert")
         => units[r] = {} \/ lapse[r] = "charge"

(* A row that says sent was submitted, and stays sent: no late loser, no   *)
(* reconciler and no second execution of the job turns it into anything    *)
(* else; and no settled row is ever queued or sending again.               *)
SettledStaysSettled ==
  [][\A r \in Requests :
       /\ status[r] \in Terminal => status'[r] \in Terminal
       /\ status[r] \in {"sent", "suppressed"} => status'[r] = status[r]
       /\ status'[r] = "sent" => submitted[r] = 1]_vars

(* Fairness: time passes, and the sweep (repeatable job, every minute)     *)
(* keeps running; it may be killed any number of times but not always      *)
(* between its select and its commit.  Workers and handlers get none: a    *)
(* row settles even if every worker is dead.                               *)
Fairness ==
  /\ \A i \in Inputs : WF_vars(Tick(i))
  /\ \A r \in Requests : SF_vars(ReconcileSelect(r))
  /\ SF_vars(ReconcileCommit)
  /\ WF_vars(ReconcilePurge)
FairSpec == Spec /\ Fairness

(* Every inserted row is eventually settled, even when its enqueue was     *)
(* lost, its job failed or its worker died holding the claim.              *)
RowsSettle == \A r \in Requests : status[r] \in {"queued", "sending"} ~> status[r] \in Terminal
-----------------------------------------------------------------------------
(* The customer's view: a key shows the row that won its insert.  Nothing  *)
(* a losing request, a stalled job or a sweep does is visible in it.       *)
KeyReport == [k \in Keys |->
  IF \E r \in Requests : KeyOf[r] = k /\ status[r] # "absent"
  THEN status[CHOOSE r \in Requests : KeyOf[r] = k /\ status[r] # "absent"]
  ELSE "absent"]
KeyHanded == [k \in Keys |->
  IF \E r \in Requests : KeyOf[r] = k /\ status[r] # "absent"
  THEN submitted[CHOOSE r \in Requests : KeyOf[r] = k /\ status[r] # "absent"]
  ELSE 0]

Promise == INSTANCE OneShotMail WITH report <- KeyReport, handed <- KeyHanded

(* Every behaviour of the handlers, workers and reconciler is one the      *)
(* customer was promised.                                                  *)
ImplementsPromise == Promise!Spec
=============================================================================
