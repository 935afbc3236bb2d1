--------------------------- MODULE SequenceEngine --------------------------
(***************************************************************************)
(* Drip sequences: the repeatable tick that advances every due enrolment   *)
(* through its steps from a snapshot, the callers that enrol a contact,    *)
(* and the exits (reply, unsubscribe, cancel) and edits that change the    *)
(* same rows meanwhile.  One sequence, one contact.                        *)
(*                                                                         *)
(* One action is the code between two awaits that touch something shared.  *)
(* faults counts what the environment does to a tick (an exception in a    *)
(* step, a dead process, a lapsed lock), at most MaxFaults.                *)
(***************************************************************************)
EXTENDS Naturals, Sequences, FiniteSets

CONSTANTS Enrollments,    \* enrolment rows that may be inserted
          Ticks,          \* executions of the tick job
          Enrollers,      \* concurrent enrol calls and trigger evaluations
          Steps,          \* the sequence's steps
          ExitOn,         \* exit_on
          MaxIterations,  \* MAX_ITERATIONS
          Limit,          \* rows a tick selects at most, of all sequences
          MaxDelays,      \* bound: how often a cap or a branch window delays a step
          MaxFaults,      \* bound: faults in one behaviour
          None

Reasons == {"replied", "unsubscribed"}

ASSUME StepsAssumption ==
  /\ Steps \in Seq([type : {"send"}] \cup [type : {"wait"}, hours : Nat] \cup [type : {"branch"}, goto : Nat])
  /\ \A i \in DOMAIN Steps : Steps[i].type = "branch" => Steps[i].goto \in 1..(Len(Steps) + 1)
ASSUME LimitsAssumption ==
  /\ ExitOn \subseteq Reasons
  /\ MaxIterations \in Nat \ {0} /\ Limit \in Nat \ {0} /\ MaxDelays \in Nat /\ MaxFaults \in Nat
ASSUME NoneAssumption == None \notin Enrollments

VARIABLES
  seq,         \* sequences.status, "deleted" when the row is gone
  suppressed,  \* is the contact on the suppression list?
  delays,      \* how often a step was delayed
  crowd,       \* due rows of other sequences that come before these, up to Limit
  status,      \* each enrolment's status, "absent" without a row
  step,        \* current_step
  due,         \* has next_run_at passed?
  last,        \* does it have a last_message_id?
  exitPc,      \* where exitEnrollments stands
  exitIds,     \* the rows it read
  ePc,         \* where each enrol call stands
  tPc,         \* where each tick stands
  batch,       \* the due rows each tick selected and has not finished
  snap,        \* those rows as it read them
  cur,         \* the enrolment it advances
  iter,        \* iterations of the step loop
  wStep, wLast, wStatus, wDue,   \* what advance is about to write
  faults,      \* faults so far
  sent,        \* history: mails of each step of each enrolment
  made,        \* history: the steps that have a message, mailed or suppressed
  firm         \* history: rows exited while no tick had them in hand

envVars    == <<suppressed, delays, crowd>>
rowVars    == <<status, step, due, last>>
exitVars   == <<exitPc, exitIds>>
cursorVars == <<iter, wStep, wLast, wStatus, wDue>>
tickVars   == <<tPc, batch, snap, cur, cursorVars>>
vars == <<seq, envVars, rowVars, exitVars, ePc, tickVars, faults, sent, made, firm>>

Terminal == {"completed", "failed", "exited"}
Statuses == {"absent", "active"} \cup Terminal
TickPlaces == {"idle", "sequence", "next", "step", "capacity", "send", "write"}
Positions == 1..(Len(Steps) + 1)
Snapshots == [step : Positions, last : BOOLEAN]
Unread == [step |-> 1, last |-> FALSE]

Init ==
  /\ seq = "active"
  /\ suppressed = FALSE /\ delays = 0 /\ crowd = 0
  /\ status = [e \in Enrollments |-> "absent"]
  /\ step = [e \in Enrollments |-> 1]
  /\ due = [e \in Enrollments |-> TRUE]
  /\ last = [e \in Enrollments |-> FALSE]
  /\ exitPc = "idle" /\ exitIds = {}
  /\ ePc = [c \in Enrollers |-> "read"]
  /\ tPc = [t \in Ticks |-> "idle"]
  /\ batch = [t \in Ticks |-> {}]
  /\ snap = [t \in Ticks |-> [e \in Enrollments |-> Unread]]
  /\ cur = [t \in Ticks |-> None]
  /\ iter = [t \in Ticks |-> 0]
  /\ wStep = [t \in Ticks |-> 1] /\ wLast = [t \in Ticks |-> FALSE]
  /\ wStatus = [t \in Ticks |-> "active"] /\ wDue = [t \in Ticks |-> TRUE]
  /\ faults = 0
  /\ sent = [e \in Enrollments |-> [i \in DOMAIN Steps |-> 0]]
  /\ made = [e \in Enrollments |-> {}]
  /\ firm = {}

Fault == faults < MaxFaults /\ faults' = faults + 1

-----------------------------------------------------------------------------
(* Enrol: POST /v1/sequences/:id/enroll and evaluateTriggers               *)

ActiveRows == {e \in Enrollments : status[e] = "active"}

(* Is the contact in it already?                                           *)
EnrollRead(c) ==
  /\ ePc[c] = "read" /\ seq # "deleted"
  /\ ePc' = [ePc EXCEPT ![c] = IF ActiveRows = {} THEN "insert" ELSE "done"]
  /\ UNCHANGED <<seq, envVars, rowVars, exitVars, tickVars, faults, sent, made, firm>>

EnrollInsert(c) ==
  /\ ePc[c] = "insert"
  /\ IF seq = "deleted" THEN UNCHANGED rowVars
     ELSE \E e \in Enrollments :
       /\ status[e] = "absent"
       /\ status' = [status EXCEPT ![e] = "active"]
       /\ UNCHANGED <<step, due, last>>
  /\ ePc' = [ePc EXCEPT ![c] = "done"]
  /\ UNCHANGED <<seq, envVars, exitVars, tickVars, faults, sent, made, firm>>

-----------------------------------------------------------------------------
(* Exits, and edits of the sequence                                        *)

Held(e) == \E t \in Ticks : e \in batch[t] \/ cur[t] = e
Exit(ids) ==
  /\ status' = [e \in Enrollments |-> IF e \in ids /\ status[e] # "absent" THEN "exited" ELSE status[e]]
  /\ firm' = firm \cup {e \in ids : status[e] # "absent" /\ ~Held(e)}
  /\ UNCHANGED <<step, due, last>>

(* A reply comes in, or the contact unsubscribes and is suppressed; either *)
(* starts exitEnrollments without waiting for it.                          *)
Leave(reason) ==
  /\ exitPc = "idle" /\ ActiveRows # {}
  /\ reason = "unsubscribed" => ~suppressed
  /\ suppressed' = (suppressed \/ reason = "unsubscribed")
  /\ exitPc' = IF reason \in ExitOn THEN "read" ELSE "idle"
  /\ UNCHANGED <<seq, delays, crowd, rowVars, exitIds, ePc, tickVars, faults, sent, made, firm>>

ExitRead ==
  /\ exitPc = "read"
  /\ exitIds' = ActiveRows
  /\ exitPc' = IF ActiveRows = {} THEN "idle" ELSE "write"
  /\ UNCHANGED <<seq, envVars, rowVars, ePc, tickVars, faults, sent, made, firm>>

ExitWrite ==
  /\ exitPc = "write"
  /\ Exit(exitIds)
  /\ exitPc' = "idle" /\ exitIds' = {}
  /\ UNCHANGED <<seq, envVars, ePc, tickVars, faults, sent, made>>

(* POST .../enrollments/:id/cancel: one update, whatever the status is.    *)
Cancel(e) ==
  /\ status[e] # "absent"
  /\ Exit({e})
  /\ UNCHANGED <<seq, envVars, exitVars, ePc, tickVars, faults, sent, made>>

(* PATCH may pause and resume; DELETE takes the enrolments along.          *)
Pause ==
  /\ seq = "active" /\ seq' = "paused"
  /\ UNCHANGED <<envVars, rowVars, exitVars, ePc, tickVars, faults, sent, made, firm>>

Resume ==
  /\ seq = "paused" /\ seq' = "active"
  /\ UNCHANGED <<envVars, rowVars, exitVars, ePc, tickVars, faults, sent, made, firm>>

Delete ==
  /\ seq # "deleted" /\ seq' = "deleted"
  /\ status' = [e \in Enrollments |-> "absent"]
  /\ UNCHANGED <<envVars, step, due, last, exitVars, ePc, tickVars, faults, sent, made, firm>>

-----------------------------------------------------------------------------
(* The tick                                                                *)

\* advance has returned.
PutDown(t) ==
  /\ cur' = [cur EXCEPT ![t] = None]
  /\ iter' = [iter EXCEPT ![t] = 0]
  /\ wStep' = [wStep EXCEPT ![t] = 1] /\ wLast' = [wLast EXCEPT ![t] = FALSE]
  /\ wStatus' = [wStatus EXCEPT ![t] = "active"] /\ wDue' = [wDue EXCEPT ![t] = TRUE]

Goto(t, place) == tPc' = [tPc EXCEPT ![t] = place]

(* Mutant: rows are selected by their due time only.                       *)
DueAnyStatus == {e \in Enrollments : status[e] # "absent" /\ due[e]}
Due == {e \in ActiveRows : due[e]}

(* The rows of other sequences, paused ones too, come and go.              *)
Crowd ==
  /\ crowd' \in 0..Limit
  /\ UNCHANGED <<seq, suppressed, delays, rowVars, exitVars, ePc, tickVars, faults, sent, made, firm>>

\* What the newest Limit of all the due rows hold of these.
Front == {rows \in SUBSET Due :
            \/ rows = Due /\ crowd + Cardinality(Due) <= Limit
            \/ crowd + Cardinality(rows) = Limit}

(* Select due rows, the newest Limit.  Concurrency 1: another execution    *)
(* runs meanwhile only when its lock lapsed, which is a fault.             *)
Select(t) ==
  /\ tPc[t] = "idle"
  /\ \E rows \in Front \ {{}} :
       /\ batch' = [batch EXCEPT ![t] = rows]
       /\ snap' = [snap EXCEPT ![t] = [e \in Enrollments |->
                     IF e \in rows THEN [step |-> step[e], last |-> last[e]] ELSE Unread]]
  /\ IF \A u \in Ticks \ {t} : tPc[u] = "idle" THEN UNCHANGED faults ELSE Fault
  /\ Goto(t, "sequence")
  /\ UNCHANGED <<seq, envVars, rowVars, exitVars, ePc, cur, cursorVars, sent, made, firm>>

EndTick(t) ==
  /\ Goto(t, "idle")
  /\ batch' = [batch EXCEPT ![t] = {}]
  /\ snap' = [snap EXCEPT ![t] = [e \in Enrollments |-> Unread]]

(* The sequence is read once and cached for the batch.                     *)
ReadSequence(t) ==
  /\ tPc[t] = "sequence"
  /\ IF seq = "active" THEN Goto(t, "next") /\ UNCHANGED <<batch, snap>> ELSE EndTick(t)
  /\ UNCHANGED <<seq, envVars, rowVars, exitVars, ePc, cur, cursorVars, faults, sent, made, firm>>

(* The next row of the batch, in no order that matters here.               *)
Begin(t) ==
  /\ tPc[t] = "next" /\ batch[t] # {}
  /\ \E e \in batch[t] :
       /\ batch' = [batch EXCEPT ![t] = @ \ {e}]
       /\ cur' = [cur EXCEPT ![t] = e]
       /\ wStep' = [wStep EXCEPT ![t] = snap[t][e].step]
       /\ wLast' = [wLast EXCEPT ![t] = snap[t][e].last]
  /\ Goto(t, "step")
  /\ UNCHANGED <<seq, envVars, rowVars, exitVars, ePc, snap, iter, wStatus, wDue, faults, sent, made, firm>>

TickEnds(t) ==
  /\ tPc[t] = "next" /\ batch[t] = {}
  /\ EndTick(t)
  /\ UNCHANGED <<seq, envVars, rowVars, exitVars, ePc, cur, cursorVars, faults, sent, made, firm>>

(* Leave the loop with this status and due time, or go on at this step.    *)
Stop(t, newStatus, nowDue) ==
  /\ wStatus' = [wStatus EXCEPT ![t] = newStatus]
  /\ wDue' = [wDue EXCEPT ![t] = nowDue]
  /\ Goto(t, "write")
\* Mutant: the step is advanced twice.
ContinueTwice(t, next) ==
  /\ wStep' = [wStep EXCEPT ![t] = next + 1]
  /\ iter' = [iter EXCEPT ![t] = @ + 1]

Continue(t, next) ==
  /\ wStep' = [wStep EXCEPT ![t] = next]
  /\ iter' = [iter EXCEPT ![t] = @ + 1]

Ends(t) == wStep[t] > Len(Steps)
AtType(t, type) == tPc[t] = "step" /\ iter[t] < MaxIterations /\ ~Ends(t) /\ Steps[wStep[t]].type = type

Complete(t) ==
  /\ tPc[t] = "step"
  /\ \/ iter[t] < MaxIterations /\ Ends(t) /\ Stop(t, "completed", TRUE)
     \/ iter[t] = MaxIterations /\ Stop(t, "active", TRUE)
  /\ UNCHANGED <<seq, envVars, rowVars, exitVars, ePc, batch, snap, cur, iter, wStep, wLast,
                 faults, sent, made, firm>>

(* Mutant: the wait is not left behind.                                    *)
WaitStays(t) ==
  /\ AtType(t, "wait")
  /\ Stop(t, "active", FALSE)
  /\ UNCHANGED <<seq, envVars, rowVars, exitVars, ePc, batch, snap, cur, iter, wStep, wLast,
                 faults, sent, made, firm>>

(* A wait of no hours does not end the loop.                               *)
Wait(t) ==
  /\ AtType(t, "wait")
  /\ \/ /\ Steps[wStep[t]].hours > 0
        /\ wStep' = [wStep EXCEPT ![t] = @ + 1]
        /\ Stop(t, "active", FALSE) /\ UNCHANGED iter
     \/ /\ Steps[wStep[t]].hours = 0
        /\ Continue(t, wStep[t] + 1) /\ UNCHANGED <<wStatus, wDue, tPc>>
  /\ UNCHANGED <<seq, envVars, rowVars, exitVars, ePc, batch, snap, cur, wLast,
                 faults, sent, made, firm>>

Delay == delays < MaxDelays /\ delays' = delays + 1

(* A branch: no mail yet; the recipient engaged with the last one; he did  *)
(* not and its window is open, so poll again; or the window is over.       *)
Branch(t) ==
  /\ AtType(t, "branch")
  /\ \/ wLast[t] /\ Continue(t, Steps[wStep[t]].goto) /\ UNCHANGED <<delays, wStatus, wDue, tPc>>
     \/ Continue(t, wStep[t] + 1) /\ UNCHANGED <<delays, wStatus, wDue, tPc>>
     \/ wLast[t] /\ Delay /\ Stop(t, "active", TRUE) /\ UNCHANGED <<wStep, iter>>
  /\ UNCHANGED <<seq, suppressed, crowd, rowVars, exitVars, ePc, batch, snap, cur, wLast, faults, sent, made, firm>>

(* A send step: resolve the template, which may be gone; ...               *)
ResolveTemplate(t) ==
  /\ AtType(t, "send")
  /\ \/ Goto(t, "capacity") /\ UNCHANGED <<wStatus, wDue>>
     \/ Stop(t, "failed", TRUE)
  /\ UNCHANGED <<seq, envVars, rowVars, exitVars, ePc, batch, snap, cur, iter, wStep, wLast,
                 faults, sent, made, firm>>

(* Mutant: a step that finds no capacity is passed over.                   *)
CapacitySkips(t) ==
  /\ tPc[t] = "capacity"
  /\ \/ Goto(t, "send") /\ UNCHANGED <<delays, wStep, iter, wStatus, wDue>>
     \/ Delay /\ Continue(t, wStep[t] + 1) /\ Goto(t, "step") /\ UNCHANGED <<wStatus, wDue>>
  /\ UNCHANGED <<seq, suppressed, crowd, rowVars, exitVars, ePc, batch, snap, cur, wLast,
                 faults, sent, made, firm>>

(* ... checkSendCapacity: without capacity the step waits, it never drops. *)
CheckCapacity(t) ==
  /\ tPc[t] = "capacity"
  /\ \/ Goto(t, "send") /\ UNCHANGED <<delays, wStatus, wDue>>
     \/ Delay /\ Stop(t, "active", FALSE)
  /\ UNCHANGED <<seq, suppressed, crowd, rowVars, exitVars, ePc, batch, snap, cur, iter, wStep, wLast,
                 faults, sent, made, firm>>

(* automationSend: a message for the step, mail unless he is suppressed.   *)
Send(t) ==
  LET e == cur[t] IN
  /\ tPc[t] = "send"
  /\ made' = [made EXCEPT ![e] = @ \cup {wStep[t]}]
  /\ sent' = IF suppressed THEN sent ELSE [sent EXCEPT ![e][wStep[t]] = @ + 1]
  /\ wLast' = [wLast EXCEPT ![t] = TRUE]
  /\ Continue(t, wStep[t] + 1)
  /\ Goto(t, "step")
  /\ UNCHANGED <<seq, envVars, rowVars, exitVars, ePc, batch, snap, cur, wStatus, wDue, faults, firm>>

(* Mutant: the step written is the one the row was read with.              *)
WriteForgetsStep(t) ==
  LET e == cur[t] IN
  /\ tPc[t] = "write"
  /\ IF status[e] = "absent" THEN UNCHANGED rowVars
     ELSE /\ status' = [status EXCEPT ![e] = wStatus[t]]
          /\ due' = [due EXCEPT ![e] = wDue[t]]
          /\ last' = [last EXCEPT ![e] = wLast[t]]
          /\ UNCHANGED step
  /\ PutDown(t)
  /\ Goto(t, "next")
  /\ UNCHANGED <<seq, envVars, exitVars, ePc, batch, snap, faults, sent, made, firm>>

(* The one write of advance, whatever became of the row meanwhile.         *)
Write(t) ==
  LET e == cur[t] IN
  /\ tPc[t] = "write"
  /\ IF status[e] = "absent" THEN UNCHANGED rowVars
     ELSE /\ status' = [status EXCEPT ![e] = wStatus[t]]
          /\ step' = [step EXCEPT ![e] = wStep[t]]
          /\ due' = [due EXCEPT ![e] = wDue[t]]
          /\ last' = [last EXCEPT ![e] = wLast[t]]
  /\ PutDown(t)
  /\ Goto(t, "next")
  /\ UNCHANGED <<seq, envVars, exitVars, ePc, batch, snap, faults, sent, made, firm>>

(* An exception in advance: caught, logged, nothing written.               *)
Throw(t) ==
  /\ tPc[t] \in {"step", "capacity", "send", "write"}
  /\ Fault
  /\ PutDown(t)
  /\ Goto(t, "next")
  /\ UNCHANGED <<seq, envVars, rowVars, exitVars, ePc, batch, snap, sent, made, firm>>

(* The process dies.                                                       *)
Crash(t) ==
  /\ tPc[t] # "idle"
  /\ Fault
  /\ EndTick(t) /\ PutDown(t)
  /\ UNCHANGED <<seq, envVars, rowVars, exitVars, ePc, sent, made, firm>>

-----------------------------------------------------------------------------
(* Time                                                                    *)

(* next_run_at passes: a wait, or the reset of a cap.                      *)
ComesDue(e) ==
  /\ status[e] = "active" /\ ~due[e]
  /\ due' = [due EXCEPT ![e] = TRUE]
  /\ UNCHANGED <<seq, envVars, status, step, last, exitVars, ePc, tickVars, faults, sent, made, firm>>

-----------------------------------------------------------------------------
TickStep(t) ==
  \/ ReadSequence(t) \/ Begin(t) \/ TickEnds(t) \/ Complete(t) \/ Wait(t) \/ Branch(t)
  \/ ResolveTemplate(t) \/ CheckCapacity(t) \/ Send(t) \/ Write(t)

Next ==
  \/ \E c \in Enrollers : EnrollRead(c) \/ EnrollInsert(c)
  \/ \E reason \in Reasons : Leave(reason)
  \/ ExitRead \/ ExitWrite
  \/ \E e \in Enrollments : Cancel(e) \/ ComesDue(e)
  \/ Pause \/ Resume \/ Delete \/ Crowd
  \/ \E t \in Ticks : Select(t) \/ TickStep(t) \/ Throw(t) \/ Crash(t)

Spec == Init /\ [][Next]_vars

(* The tick repeats and goes on, time passes, and a spent cap resets; no   *)
(* person and no recipient need ever do anything.                          *)
Fairness ==
  /\ WF_vars(\E t \in Ticks : Select(t) /\ \A u \in Ticks : tPc[u] = "idle")
  /\ \A t \in Ticks : WF_vars(TickStep(t))
  /\ \A e \in Enrollments : WF_vars(ComesDue(e))
FairSpec == Spec /\ Fairness

-----------------------------------------------------------------------------
(* Properties                                                              *)

TypeOK ==
  /\ seq \in {"active", "paused", "deleted"}
  /\ suppressed \in BOOLEAN /\ delays \in 0..MaxDelays /\ crowd \in 0..Limit
  /\ status \in [Enrollments -> Statuses]
  /\ step \in [Enrollments -> Positions]
  /\ due \in [Enrollments -> BOOLEAN]
  /\ last \in [Enrollments -> BOOLEAN]
  /\ exitPc \in {"idle", "read", "write"} /\ exitIds \subseteq Enrollments
  /\ ePc \in [Enrollers -> {"read", "insert", "done"}]
  /\ tPc \in [Ticks -> TickPlaces]
  /\ batch \in [Ticks -> SUBSET Enrollments]
  /\ snap \in [Ticks -> [Enrollments -> Snapshots]]
  /\ cur \in [Ticks -> Enrollments \cup {None}]
  /\ \A t \in Ticks : cur[t] # None <=> tPc[t] \in {"step", "capacity", "send", "write"}
  /\ iter \in [Ticks -> 0..MaxIterations]
  /\ wStep \in [Ticks -> Positions] /\ wLast \in [Ticks -> BOOLEAN]
  /\ wStatus \in [Ticks -> {"active", "completed", "failed"}]
  /\ wDue \in [Ticks -> BOOLEAN]
  /\ faults \in 0..MaxFaults
  /\ sent \in [Enrollments -> [DOMAIN Steps -> Nat]]
  /\ made \in [Enrollments -> SUBSET DOMAIN Steps] /\ firm \subseteq Enrollments

BranchesGoForward == \A i \in DOMAIN Steps : Steps[i].type = "branch" => Steps[i].goto >= i

(* No step is mailed twice while nothing fails; each exception, crash or   *)
(* lapsed lock repeats a step at most once, although advance writes the    *)
(* row only after all the sends of a tick, and from what it read first     *)
(* (index.ts: "concurrency 1 so ticks never overlap").  A drip may be      *)
(* written to repeat itself: goto is any step, an earlier one too.         *)
RepeatsNeedFaults == BranchesGoForward =>
  \A e \in Enrollments, i \in DOMAIN Steps : sent[e][i] <= 1 + faults

ExitKept == \A e \in firm : sent'[e] = sent[e] /\ status'[e] \in {"exited", "absent"}

(* A reply, an unsubscribe or a cancel that finds no tick at work on the   *)
(* enrolment ends it for good: no later tick mails another of its steps    *)
(* (one that had read the row before may overwrite the exit).              *)
ExitHolds == [][ExitKept]_vars

BranchesSkipNoSend ==
  \A i \in DOMAIN Steps : Steps[i].type = "branch" =>
    \A j \in (i + 1)..(Steps[i].goto - 1) : Steps[j].type # "send"

(* "A step that can't send right now is DEFERRED, never dropped" and never *)
(* advanced past (capacity.ts): unless a branch skips it, a completed      *)
(* enrolment has a message for every send step, however caps, exceptions,  *)
(* stale writes and the iteration limit cut its ticks.                     *)
NoStepDropped == BranchesSkipNoSend =>
  \A e \in Enrollments : status[e] = "completed" =>
    {i \in DOMAIN Steps : Steps[i].type = "send"} \subseteq made[e]

(* "The drip resumes on its own": every active enrolment comes to its end, *)
(* or its sequence is paused or deleted; caps, waits and branch windows    *)
(* only delay it.  This needs that at last all the due rows fit one tick:  *)
(* the newest come first, and Limit of them that never leave (enrolments   *)
(* of paused sequences, steps that always throw) starve the older ones.    *)
RoomForAll == crowd + Cardinality(Due) <= Limit
DripEnds == <>[]RoomForAll => \A e \in Enrollments :
  status[e] = "active" ~> (status[e] # "active" \/ seq # "active")
=============================================================================
