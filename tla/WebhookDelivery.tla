-------------------------- MODULE WebhookDelivery --------------------------
(***************************************************************************)
(* Outbound webhooks of one workspace: an event job fans out to the active *)
(* endpoints, one deliver job for each; a deliver job posts to its         *)
(* endpoint, retries, and counts the deliveries that failed for good until *)
(* the endpoint is disabled.  Jobs run side by side and decide from the    *)
(* endpoint as they read it before the request; so do the routes that edit *)
(* it.  Every endpoint is subscribed to every event.                       *)
(***************************************************************************)
EXTENDS Naturals, FiniteSets

CONSTANTS Events, Endpoints,
          Editors,      \* concurrent PATCH calls
          MaxAttempts,  \* WEBHOOK_MAX_ATTEMPTS
          Threshold,    \* WEBHOOK_DISABLE_THRESHOLD
          MaxFaults     \* bound: exceptions and lost workers

FanRuns == 1..3  \* two attempts of an event job, and one stall

ASSUME EndpointsAssumption == Endpoints # {}
ASSUME LimitsAssumption == MaxAttempts \in Nat \ {0} /\ Threshold \in Nat \ {0} /\ MaxFaults \in Nat

Jobs == Events \X Endpoints \X FanRuns

VARIABLES
  endpoint,  \* webhook_endpoints: status and consecutiveFailures
  fan,       \* the event jobs: state, run and endpoints still to be added
  job,       \* the deliver jobs: state, attempt, and the endpoint they read
  edit,      \* the PATCH calls: state and the endpoint they read
  stalledFans, stalledJobs,  \* the jobs of each queue that stalled once
  faults,
  tries,     \* history: requests made for an event to an endpoint
  heard,     \* history: those whose 2xx answer was heard
  streak,    \* history: deliveries to an endpoint that failed for good, in a row
  alone,     \* history: deliveries no other one and no edit has overlapped
  everOff    \* history: endpoints that have not been active all the time

faultVars   == <<stalledFans, stalledJobs, faults>>
postVars    == <<tries, heard>>
streakVars  == <<streak, alone>>
historyVars == <<postVars, streakVars, everOff>>
vars == <<endpoint, fan, job, edit, faultVars, historyVars>>

Endpoint == [status : {"absent", "active", "disabled", "deleted"}, failures : Nat]
NoEndpoint == [status |-> "absent", failures |-> 0]
Fan == [at : {"none", "waiting", "adding", "done", "failed"}, run : FanRuns, todo : SUBSET Endpoints]
Job == [at : {"none", "waiting", "request", "good", "bad", "done", "dropped", "failed"},
        attempt : 1..MaxAttempts, read : Endpoint]
Edit == [at : {"idle", "write"}, of : Endpoint, id : Endpoints]

Init ==
  /\ endpoint = [e \in Endpoints |-> NoEndpoint]
  /\ fan = [v \in Events |-> [at |-> "none", run |-> 1, todo |-> {}]]
  /\ job = [j \in Jobs |-> [at |-> "none", attempt |-> 1, read |-> NoEndpoint]]
  /\ edit = [c \in Editors |-> [at |-> "idle", of |-> NoEndpoint, id |-> CHOOSE e \in Endpoints : TRUE]]
  /\ stalledFans = {} /\ stalledJobs = {} /\ faults = 0
  /\ tries = [v \in Events |-> [e \in Endpoints |-> 0]]
  /\ heard = [v \in Events |-> [e \in Endpoints |-> 0]]
  /\ streak = [e \in Endpoints |-> 0] /\ alone = {}
  /\ everOff = {}

Fault == faults < MaxFaults /\ faults' = faults + 1
Stored(e) == endpoint[e].status \in {"active", "disabled"}

\* An update of a deleted endpoint changes nothing.
Update(e, changed) ==
  /\ endpoint' = [endpoint EXCEPT ![e] = IF Stored(e) THEN changed ELSE @]
  /\ everOff' = IF endpoint'[e].status = "active" THEN everOff ELSE everOff \cup {e}

FanTo(v, place, run, todo) ==
  fan' = [fan EXCEPT ![v] = [at |-> place, run |-> run, todo |-> todo]]
JobTo(j, place, attempt, read) ==
  job' = [job EXCEPT ![j] = [at |-> place, attempt |-> attempt, read |-> read]]
EditTo(c, place, of, id) == edit' = [edit EXCEPT ![c] = [at |-> place, of |-> of, id |-> id]]

EventOf(j) == j[1]
TargetOf(j) == j[2]

\* Who decides from a reading of endpoint e.
InHand(e) == {j \in Jobs : TargetOf(j) = e /\ job[j].at \in {"request", "good", "bad"}}
Editing(e) == {c \in Editors : edit[c].at = "write" /\ edit[c].id = e}
Joined(e) == {j \in alone : TargetOf(j) = e}

-----------------------------------------------------------------------------
(* fanOut                                                                  *)

(* enqueueWebhookEvent, when the queue takes the job.                      *)
Emit(v) ==
  /\ fan[v].at = "none"
  /\ FanTo(v, "waiting", 1, {})
  /\ UNCHANGED <<endpoint, job, edit, faultVars, historyVars>>

FanRead(v) ==
  /\ fan[v].at = "waiting"
  /\ FanTo(v, "adding", fan[v].run, {e \in Endpoints : endpoint[e].status = "active"})
  /\ UNCHANGED <<endpoint, job, edit, faultVars, historyVars>>

FanAdd(v, e) ==
  /\ fan[v].at = "adding" /\ e \in fan[v].todo
  /\ FanTo(v, "adding", fan[v].run, fan[v].todo \ {e})
  /\ JobTo(<<v, e, fan[v].run>>, "waiting", 1, NoEndpoint)
  /\ UNCHANGED <<endpoint, edit, faultVars, historyVars>>

FanDone(v) ==
  /\ fan[v].at = "adding" /\ fan[v].todo = {}
  /\ FanTo(v, "done", fan[v].run, {})
  /\ UNCHANGED <<endpoint, job, edit, faultVars, historyVars>>

\* The next run starts over: it has no record of what was added.
FanAgain(v, may) ==
  IF may THEN FanTo(v, "waiting", fan[v].run + 1, {}) ELSE FanTo(v, "failed", fan[v].run, {})

(* The database or the queue throws: one attempt of two is used up.        *)
FanThrows(v) ==
  /\ fan[v].at \in {"waiting", "adding"} /\ Fault
  /\ FanAgain(v, fan[v].run < (IF v \in stalledFans THEN 3 ELSE 2))
  /\ UNCHANGED <<endpoint, job, edit, stalledFans, stalledJobs, historyVars>>

(* The worker is lost: the attempt runs again, the first time.             *)
FanStalls(v) ==
  /\ fan[v].at = "adding" /\ Fault
  /\ FanAgain(v, v \notin stalledFans)
  /\ stalledFans' = stalledFans \cup {v}
  /\ UNCHANGED <<endpoint, job, edit, stalledJobs, historyVars>>

-----------------------------------------------------------------------------
(* deliver                                                                 *)

JobAt(j, place) == JobTo(j, place, job[j].attempt, NoEndpoint)
NextAttempt(j) == JobTo(j, "waiting", job[j].attempt + 1, NoEndpoint)

Begin(j) ==
  LET e == TargetOf(j) IN
  /\ job[j].at = "waiting"
  /\ \/ /\ endpoint[e].status = "active"
        /\ JobTo(j, "request", job[j].attempt, endpoint[e])
        /\ alone' = (alone \ Joined(e)) \cup {k \in {j} : InHand(e) = {} /\ Editing(e) = {}}
     \/ /\ endpoint[e].status # "active"
        /\ JobAt(j, "dropped") /\ UNCHANGED alone
  /\ UNCHANGED <<endpoint, fan, edit, faultVars, postVars, streak, everOff>>

(* The POST; a refused URL, a timeout and a lost answer all read as bad.   *)
Request(j, answer) ==
  /\ job[j].at = "request"
  /\ JobTo(j, answer, job[j].attempt, job[j].read)
  /\ tries' = [tries EXCEPT ![EventOf(j)][TargetOf(j)] = @ + 1]
  /\ heard' = [heard EXCEPT ![EventOf(j)][TargetOf(j)] = IF answer = "good" THEN @ + 1 ELSE @]
  /\ UNCHANGED <<endpoint, fan, edit, faultVars, streakVars, everOff>>

(* Mutant: a success leaves the counter as it is.                          *)
ResetForgotten(j) == UNCHANGED <<endpoint, everOff>>

Reset(j) ==
  LET e == TargetOf(j) IN
  IF job[j].read.failures # 0 THEN Update(e, [endpoint[e] EXCEPT !.failures = 0])
                              ELSE UNCHANGED <<endpoint, everOff>>

\* A success that nothing overlapped ends the row of failures.
EndsRow(j) == streak' = [streak EXCEPT ![TargetOf(j)] = IF j \in alone THEN 0 ELSE @]

(* Mutant: a success is reported to the queue as an error when there was   *)
(* nothing to reset.                                                       *)
GoodRethrows(j) ==
  /\ job[j].at = "good"
  /\ Reset(j) /\ EndsRow(j)
  /\ IF job[j].read.failures = 0 /\ job[j].attempt < MaxAttempts
       THEN NextAttempt(j) ELSE JobAt(j, "done")
  /\ UNCHANGED <<fan, edit, faultVars, postVars, alone>>

(* Mutant: the counter's state goes under the name of the result.          *)
GoodSucceeded(j) ==
  /\ job[j].at = "good" /\ Reset(j) /\ EndsRow(j) /\ JobAt(j, "success")
  /\ UNCHANGED <<fan, edit, faultVars, postVars, alone>>

(* Recorded; the counter is reset if it was not zero when it was read.     *)
Good(j) ==
  /\ job[j].at = "good" /\ Reset(j) /\ EndsRow(j) /\ JobAt(j, "done")
  /\ UNCHANGED <<fan, edit, faultVars, postVars, alone>>

IsFinal(j) == job[j].attempt >= MaxAttempts

Retry(j) ==
  /\ job[j].at = "bad" /\ ~IsFinal(j)
  /\ NextAttempt(j)
  /\ UNCHANGED <<endpoint, fan, edit, faultVars, historyVars>>

Failure(read) ==
  [failures |-> read.failures + 1,
   status |-> IF read.failures + 1 >= Threshold THEN "disabled" ELSE read.status]

(* The last attempt writes the counter and the status it computed from     *)
(* what it read.                                                           *)
GiveUp(j) ==
  /\ job[j].at = "bad" /\ IsFinal(j)
  /\ Update(TargetOf(j), Failure(job[j].read))
  /\ JobAt(j, "done")
  /\ streak' = [streak EXCEPT ![TargetOf(j)] = @ + 1]
  /\ UNCHANGED <<fan, edit, faultVars, postVars, alone>>

(* The database throws: an attempt is used up, the last one uncounted.     *)
Throws(j) ==
  /\ job[j].at \in {"waiting", "good", "bad"} /\ Fault
  /\ IF IsFinal(j) THEN JobAt(j, "failed") ELSE NextAttempt(j)
  /\ UNCHANGED <<endpoint, fan, edit, stalledFans, stalledJobs, historyVars>>

(* The worker is lost: the same attempt runs again, the first time.        *)
Stalls(j) ==
  /\ job[j].at \in {"request", "good", "bad"} /\ Fault
  /\ JobAt(j, IF j \in stalledJobs THEN "failed" ELSE "waiting")
  /\ stalledJobs' = stalledJobs \cup {j}
  /\ UNCHANGED <<endpoint, fan, edit, stalledFans, historyVars>>

-----------------------------------------------------------------------------
(* The routes                                                              *)

Create(e) ==
  /\ endpoint[e].status = "absent"
  /\ endpoint' = [endpoint EXCEPT ![e] = [status |-> "active", failures |-> 0]]
  /\ UNCHANGED <<fan, job, edit, faultVars, historyVars>>

PatchRead(c, e) ==
  /\ edit[c].at = "idle" /\ Stored(e)
  /\ EditTo(c, "write", endpoint[e], e)
  /\ alone' = alone \ Joined(e)
  /\ UNCHANGED <<endpoint, fan, job, faultVars, postVars, streak, everOff>>

(* What the body does not name is written back as it was read; a status    *)
(* "active" ends the row of failures when nobody else decides meanwhile.   *)
PatchWrite(c, status) ==
  LET read == edit[c].of
      e == edit[c].id IN
  /\ edit[c].at = "write"
  /\ Update(e,
       [status |-> IF status = "unset" THEN read.status ELSE status,
        failures |-> IF status = "active" THEN 0 ELSE read.failures])
  /\ EditTo(c, "idle", NoEndpoint, e)
  /\ streak' = [streak EXCEPT ![e] =
                  IF status = "active" /\ InHand(e) = {} /\ Editing(e) = {c} THEN 0 ELSE @]
  /\ UNCHANGED <<fan, job, faultVars, postVars, alone>>

Delete(e) ==
  /\ Stored(e) /\ Update(e, [status |-> "deleted", failures |-> 0])
  /\ UNCHANGED <<fan, job, edit, faultVars, postVars, streakVars>>

JobStep(j) ==
  \/ Begin(j) \/ (\E a \in {"good", "bad"} : Request(j, a))
  \/ Good(j) \/ Retry(j) \/ GiveUp(j)

Next ==
  \/ \E v \in Events :
       \/ Emit(v) \/ FanRead(v) \/ FanDone(v) \/ FanThrows(v) \/ FanStalls(v)
       \/ \E e \in Endpoints : FanAdd(v, e)
  \/ \E j \in Jobs : JobStep(j) \/ Throws(j) \/ Stalls(j)
  \/ \E e \in Endpoints : Create(e) \/ Delete(e) \/ \E c \in Editors : PatchRead(c, e)
  \/ \E c \in Editors, s \in {"active", "disabled", "unset"} : PatchWrite(c, s)

Spec == Init /\ [][Next]_vars

-----------------------------------------------------------------------------
(* Properties                                                              *)

TypeOK ==
  /\ endpoint \in [Endpoints -> Endpoint]
  /\ fan \in [Events -> Fan] /\ job \in [Jobs -> Job] /\ edit \in [Editors -> Edit]
  /\ stalledFans \subseteq Events /\ stalledJobs \subseteq Jobs /\ faults \in 0..MaxFaults
  /\ \A v \in Events \ stalledFans : fan[v].run < 3
  /\ tries \in [Events -> [Endpoints -> Nat]] /\ heard \in [Events -> [Endpoints -> Nat]]
  /\ streak \in [Endpoints -> Nat] /\ alone \subseteq Jobs /\ everOff \subseteq Endpoints

(* When nothing fails inside and an endpoint stays active, an event that   *)
(* is through with it was either confirmed by exactly one answer, and not  *)
(* posted again after it, or has used all its attempts, whatever the other *)
(* deliveries and the edits wrote meanwhile.                               *)
Through(v, e) ==
  \A r \in FanRuns : job[<<v, e, r>>].at \notin {"waiting", "request", "good", "bad"}
WasAdded(v, e) == \E r \in FanRuns : job[<<v, e, r>>].at # "none"

ConfirmedOnceOrExhausted ==
  \A v \in Events, e \in Endpoints :
    faults = 0 /\ e \notin everOff /\ WasAdded(v, e) /\ Through(v, e) =>
      /\ tries[v][e] <= MaxAttempts
      /\ heard[v][e] = 1 \/ (heard[v][e] = 0 /\ tries[v][e] = MaxAttempts)

(* "Auto-disable an endpoint after this many consecutive fully-failed      *)
(* deliveries" (constants.ts): a delivery disables it only when Threshold  *)
(* of them have failed for good in a row.  The row ends with a success     *)
(* that no other delivery and no edit overlapped, and with a re-activation *)
(* at which nobody decides from an older reading; what was read before a   *)
(* success and written after it puts the old count back (webhooks.ts:86),  *)
(* so an overlapped success need not end it.                               *)
DisabledAfterFailures ==
  [][\A e \in Endpoints :
       streak'[e] > streak[e] /\ endpoint'[e].status = "disabled"
         => streak'[e] >= Threshold]_vars
=============================================================================
