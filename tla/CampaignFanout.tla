--------------------------- MODULE CampaignFanout ---------------------------
(***************************************************************************)
(* One campaign: POST /v1/campaigns/:id/send and /cancel, PATCH, DELETE,   *)
(* the campaign queue (one job id per campaign) and processCampaignSend,   *)
(* which mails the whole audience inside one job and re-reads the campaign *)
(* now and then to notice a cancellation.                                  *)
(*                                                                         *)
(* One action is the code between two awaits.  The audience is the one the *)
(* execution resolved when it started, members 1..Size in order.  faults   *)
(* counts exceptions, lapsed locks and dead processes, at most MaxFaults.  *)
(***************************************************************************)
EXTENDS Naturals, FiniteSets

CONSTANTS Size,        \* members of the audience
          CheckEvery,  \* CAMPAIGN_CANCEL_CHECK_EVERY
          Workers,     \* concurrent executions of the campaign queue
          Attempts,    \* BullMQ attempts of the fan-out job
          MaxCalls,    \* bound: API calls in flight at once
          MaxSends,    \* bound: send calls
          MaxFaults,   \* bound: faults in one behaviour
          None         \* no job

ASSUME SizesAssumption == Size \in Nat /\ CheckEvery \in Nat \ {0} /\ Attempts \in Nat \ {0}
ASSUME WorkersAssumption == IsFiniteSet(Workers)
ASSUME BoundsAssumption == MaxCalls \in Nat /\ MaxSends \in Nat /\ MaxFaults \in Nat

Job == [tries : 0..(Attempts - 1), stalled : BOOLEAN]
ASSUME NoneAssumption == None \notin Job

VARIABLES
  status,    \* campaigns.status, "deleted" when the row is gone
  linked,    \* has it a list and a template (each set null when deleted)?
  calls,     \* how many API calls stand between their read and their write, at
             \*   each place (they keep nothing else)
  sends,     \* send calls so far
  queued,    \* the job waiting in the queue, or None
  known,     \* has the queue seen, and does it retain, jobId = campaign id?
  wpc, wjob, \* where each worker stands, and the job it holds
  owns,      \* does it hold the job's lock?
  next,      \* the member each execution comes to next
  mailed,    \* how many messages the campaign created for each member
  tail,      \* history: messages each execution created since the campaign was
             \*   cancelled, for as long as its row says so
  forgets,   \* history: how often the queue forgot that id
  faults     \* faults so far

apiVars    == <<calls, sends>>
queueVars  == <<queued, known, forgets>>
workerVars == <<wpc, wjob, owns, next>>
vars == <<status, linked, calls, sends, queued, known, wpc, wjob, owns, next, mailed, tail,
          forgets, faults>>

Members == 1..Size
CallPlaces == {"sendWrite", "sendEnqueue", "cancelWrite", "patchWrite"}

Init ==
  /\ status = "draft"
  /\ linked \in BOOLEAN
  /\ calls = [p \in CallPlaces |-> 0]
  /\ sends = 0
  /\ queued = None /\ known = FALSE
  /\ wpc = [w \in Workers |-> "idle"]
  /\ wjob = [w \in Workers |-> None]
  /\ owns = [w \in Workers |-> FALSE]
  /\ next = [w \in Workers |-> 1]
  /\ mailed = [i \in Members |-> 0]
  /\ tail = [w \in Workers |-> 0]
  /\ forgets = 0
  /\ faults = 0

Fault == faults < MaxFaults /\ faults' = faults + 1
(* UPDATE ... WHERE id: nothing happens to a row that is gone.             *)
SetStatus(s) ==
  /\ status' = IF status = "deleted" THEN "deleted" ELSE s
  /\ tail' = IF s = "cancelled" THEN tail ELSE [w \in Workers |-> 0]

-----------------------------------------------------------------------------
(* The API                                                                 *)

Enter(p) ==
  /\ calls["sendWrite"] + calls["sendEnqueue"] + calls["cancelWrite"] + calls["patchWrite"] < MaxCalls
  /\ calls' = [calls EXCEPT ![p] = @ + 1]
Leave(p) == calls[p] > 0 /\ calls' = [calls EXCEPT ![p] = @ - 1]

(* Refused when sending or sent or incomplete; the quota may refuse too.   *)
SendRead ==
  /\ sends < MaxSends
  /\ status \in {"draft", "scheduled", "cancelled"} /\ linked
  /\ sends' = sends + 1
  /\ Enter("sendWrite")
  /\ UNCHANGED <<status, linked, queueVars, workerVars, mailed, tail, faults>>

SendWrite ==
  /\ calls["sendWrite"] > 0
  /\ SetStatus("sending") \/ SetStatus("scheduled")
  /\ calls' = [calls EXCEPT !["sendWrite"] = @ - 1, !["sendEnqueue"] = @ + 1]
  /\ UNCHANGED <<linked, sends, queueVars, workerVars, mailed, faults>>

(* Mutant: the job is added without an id of its own.                      *)
SendEnqueueAnew ==
  /\ queued' = [tries |-> 0, stalled |-> FALSE]
  /\ known' = TRUE
  /\ Leave("sendEnqueue")
  /\ UNCHANGED <<status, linked, sends, workerVars, mailed, tail, forgets, faults>>

(* "One fan-out per campaign": a known id is ignored.                      *)
SendEnqueue ==
  /\ queued' = IF known THEN queued ELSE [tries |-> 0, stalled |-> FALSE]
  /\ known' = TRUE
  /\ Leave("sendEnqueue")
  /\ UNCHANGED <<status, linked, sends, workerVars, mailed, tail, forgets, faults>>

(* The queue removes a completed job after a day and a failed one after a  *)
(* week (removeOnComplete, removeOnFail): a later send is a new fan-out.   *)
Forget ==
  /\ known /\ queued = None /\ \A w \in Workers : ~owns[w]
  /\ known' = FALSE
  /\ forgets' = forgets + 1
  /\ UNCHANGED <<status, linked, apiVars, queued, workerVars, mailed, tail, faults>>

SendDies ==
  /\ Leave("sendWrite") \/ Leave("sendEnqueue")
  /\ Fault
  /\ UNCHANGED <<status, linked, sends, queueVars, workerVars, mailed, tail>>

CancelRead ==
  /\ status \notin {"sent", "cancelled", "deleted"}
  /\ Enter("cancelWrite")
  /\ UNCHANGED <<status, linked, sends, queueVars, workerVars, mailed, tail, faults>>

CancelWrite ==
  /\ SetStatus("cancelled")
  /\ Leave("cancelWrite")
  /\ UNCHANGED <<linked, sends, queueVars, workerVars, mailed, faults>>

(* PATCH: refused when sending or sent; the list and the template may be   *)
(* set, changed or removed.                                                *)
PatchRead ==
  /\ status \notin {"sending", "sent", "deleted"}
  /\ Enter("patchWrite")
  /\ UNCHANGED <<status, linked, sends, queueVars, workerVars, mailed, tail, faults>>

PatchWrite ==
  /\ linked' \in BOOLEAN
  /\ Leave("patchWrite")
  /\ UNCHANGED <<status, sends, queueVars, workerVars, mailed, tail, faults>>

(* The campaign's list or template is deleted.                             *)
Unlink ==
  /\ linked /\ linked' = FALSE
  /\ UNCHANGED <<status, apiVars, queueVars, workerVars, mailed, tail, faults>>

Delete ==
  /\ SetStatus("deleted")
  /\ UNCHANGED <<linked, apiVars, queueVars, workerVars, mailed, faults>>

-----------------------------------------------------------------------------
(* processCampaignSend                                                     *)

Step(w, place) == wpc' = [wpc EXCEPT ![w] = place] /\ UNCHANGED <<wjob, owns>>
Rest(w) ==
  /\ wpc' = [wpc EXCEPT ![w] = "idle"]
  /\ wjob' = [wjob EXCEPT ![w] = None]
  /\ owns' = [owns EXCEPT ![w] = FALSE]
  /\ next' = [next EXCEPT ![w] = 1]
  /\ tail' = [tail EXCEPT ![w] = 0]

Take(w) ==
  /\ wpc[w] = "idle" /\ queued # None
  /\ queued' = None
  /\ wpc' = [wpc EXCEPT ![w] = "load"]
  /\ wjob' = [wjob EXCEPT ![w] = queued]
  /\ owns' = [owns EXCEPT ![w] = TRUE]
  /\ UNCHANGED <<status, linked, apiVars, known, forgets, next, mailed, tail, faults>>

(* Sent, incomplete, cancelled before it started, or gone: nothing to do.  *)
Load(w) ==
  /\ wpc[w] = "load"
  /\ Step(w, IF ~linked \/ status \in {"sent", "cancelled", "deleted"} THEN "done" ELSE "mark")
  /\ UNCHANGED <<status, linked, apiVars, queueVars, next, mailed, tail, faults>>

Mark(w) ==
  /\ wpc[w] = "mark"
  /\ SetStatus("sending")
  /\ Step(w, "resolve")
  /\ UNCHANGED <<linked, apiVars, queueVars, next, mailed, faults>>

(* The job threw: back into the queue while it has attempts, but a worker  *)
(* that lost the lock cannot move it.                                      *)
Requeue(w) ==
  queued' = IF owns[w] /\ wjob[w].tries + 1 < Attempts
            THEN [wjob[w] EXCEPT !.tries = @ + 1] ELSE queued

(* Workspace, template, list, audience.  Without its template the campaign *)
(* is sent; without its list, reading the list's id throws.                *)
Resolve(w) ==
  /\ wpc[w] = "resolve"
  /\ \/ /\ linked
        /\ Step(w, IF Size = 0 THEN "finishSent" ELSE "mail")
        /\ UNCHANGED <<status, queued, next, tail>>
     \/ ~linked /\ SetStatus("sent") /\ Step(w, "done") /\ UNCHANGED <<queued, next>>
     \/ ~linked /\ Requeue(w) /\ Rest(w) /\ UNCHANGED status
  /\ UNCHANGED <<linked, apiVars, known, forgets, mailed, faults>>

\* idx is next - 1: after every CheckEvery members the status is re-read.
Rereads == {k * CheckEvery : k \in 1..Size}

(* Mutant: the loop runs one member too far.                               *)
AfterMemberLate(i) ==
  IF i > Size THEN "finishSent" ELSE IF i \in Rereads THEN "check" ELSE "mail"

AfterMember(i) ==
  IF i = Size THEN "finishSent" ELSE IF i \in Rereads THEN "check" ELSE "mail"

(* automationSend for one member: a message row, or a suppressed one or an *)
(* error, which the loop only counts.                                      *)
Mail(w) ==
  LET i == next[w] IN
  /\ wpc[w] = "mail"
  /\ \/ /\ mailed' = [mailed EXCEPT ![i] = @ + 1]
        /\ tail' = [tail EXCEPT ![w] = IF status = "cancelled" THEN @ + 1 ELSE @]
     \/ UNCHANGED <<mailed, tail>>
  /\ next' = [next EXCEPT ![w] = i + 1]
  /\ Step(w, AfterMember(i))
  /\ UNCHANGED <<status, linked, apiVars, queueVars, faults>>

(* Mutants: the cancellation is noticed but the loop goes on; the job      *)
(* fails without finishing the campaign.                                   *)
CheckIgnored(w) ==
  /\ wpc[w] = "check"
  /\ Step(w, "mail")
  /\ UNCHANGED <<status, linked, apiVars, queueVars, next, mailed, tail, faults>>
FinishSilently(w) ==
  /\ wpc[w] \in {"finishSent", "finishCancelled"}
  /\ Step(w, "done")
  /\ UNCHANGED <<status, linked, apiVars, queueVars, next, mailed, tail, faults>>

Check(w) ==
  /\ wpc[w] = "check"
  /\ Step(w, IF status = "cancelled" THEN "finishCancelled" ELSE "mail")
  /\ UNCHANGED <<status, linked, apiVars, queueVars, next, mailed, tail, faults>>

(* The last write goes by what the loop saw, not by what the row says.     *)
Finish(w) ==
  /\ wpc[w] \in {"finishSent", "finishCancelled"}
  /\ SetStatus(IF wpc[w] = "finishCancelled" THEN "cancelled" ELSE "sent")
  /\ Step(w, "done")
  /\ UNCHANGED <<linked, apiVars, queueVars, next, mailed, faults>>

Complete(w) ==
  /\ wpc[w] = "done"
  /\ Rest(w)
  /\ UNCHANGED <<status, linked, apiVars, queueVars, mailed, faults>>

-----------------------------------------------------------------------------
(* Faults                                                                  *)

(* An await outside the per-member try throws; the job starts again from   *)
(* the first member.                                                       *)
Throw(w) ==
  /\ wpc[w] \in {"load", "mark", "resolve", "check", "finishSent", "finishCancelled"} /\ Fault
  /\ Requeue(w)
  /\ Rest(w)
  /\ UNCHANGED <<status, linked, apiVars, known, forgets, mailed>>

(* The queue hands the job out once more (maxStalledCount is 1); when its  *)
(* lock lapses again it fails, whatever attempts are left.                 *)
Recover(w) ==
  queued' = IF owns[w] /\ ~wjob[w].stalled THEN [wjob[w] EXCEPT !.stalled = TRUE] ELSE queued

Stall(w) ==
  /\ wpc[w] # "idle" /\ owns[w] /\ Fault
  /\ Recover(w)
  /\ owns' = [owns EXCEPT ![w] = FALSE]
  /\ UNCHANGED <<status, linked, apiVars, known, forgets, wpc, wjob, next, mailed, tail>>

Crash(w) ==
  /\ wpc[w] # "idle" /\ Fault
  /\ Recover(w)
  /\ Rest(w)
  /\ UNCHANGED <<status, linked, apiVars, known, forgets, mailed>>

-----------------------------------------------------------------------------
SendStep == SendWrite \/ SendEnqueue
WorkerStep(w) ==
  \/ Take(w) \/ Load(w) \/ Mark(w) \/ Resolve(w) \/ Mail(w) \/ Check(w)
  \/ Finish(w) \/ Complete(w)

Next ==
  \/ SendRead \/ SendStep \/ SendDies \/ CancelRead \/ CancelWrite
  \/ PatchRead \/ PatchWrite
  \/ Delete \/ Unlink \/ Forget
  \/ \E w \in Workers : WorkerStep(w) \/ Throw(w) \/ Stall(w) \/ Crash(w)

Spec == Init /\ [][Next]_vars

(* Workers are processes that run; nobody has to send, cancel or delete.   *)
Fairness == \A w \in Workers : WF_vars(WorkerStep(w))
FairSpec == Spec /\ Fairness

-----------------------------------------------------------------------------
(* Properties                                                              *)

TypeOK ==
  /\ status \in {"draft", "scheduled", "sending", "sent", "cancelled", "deleted"}
  /\ linked \in BOOLEAN
  /\ calls \in [CallPlaces -> Nat]
  /\ sends \in 0..MaxSends
  /\ queued \in Job \cup {None}
  /\ known \in BOOLEAN
  /\ wpc \in [Workers -> {"idle", "load", "mark", "resolve", "mail", "check",
                          "finishSent", "finishCancelled", "done"}]
  /\ wjob \in [Workers -> Job \cup {None}]
  /\ \A w \in Workers : wpc[w] = "idle" <=> wjob[w] = None
  /\ owns \in [Workers -> BOOLEAN]
  /\ next \in [Workers -> 1..(Size + 1)]
  /\ mailed \in [Members -> Nat]
  /\ tail \in [Workers -> Nat]
  /\ forgets \in Nat
  /\ faults \in 0..MaxFaults

\* Fan-outs the queue took for different ones.
Fanouts == forgets + (IF known THEN 1 ELSE 0)

(* "One fan-out per campaign" (queue.ts): however often and by however     *)
(* many people it is sent, cancelled and sent again while the queue        *)
(* retains its id, each member gets one message.  A member can get one     *)
(* more for each fault (the audience is mailed again from its start), and  *)
(* one for each time the id had been forgotten.                            *)
OnePerFanout == \A i \in Members : mailed[i] <= Fanouts + faults

(* A cancelled campaign creates at most CheckEvery more messages in each   *)
(* execution: the loop notices at its next re-read (constants.ts: "every   *)
(* 25 recipients bounds the damage").                                      *)
CancelBites == \A w \in Workers : tail[w] <= CheckEvery

(* A fan-out that reached the queue leaves the campaign settled, given a   *)
(* single send call, its list and template kept, and one fault at most,    *)
(* with an attempt to spare.  Two can leave it sending for ever, whatever  *)
(* the attempts: the job fails when a lock is lost for the second time,    *)
(* and an execution that lost its lock, marked a finished campaign as      *)
(* sending again and then throws is not tried again.                       *)
FanoutSettles ==
  [](linked /\ sends <= 1 /\ faults <= 1 /\ faults < Attempts)
    => (known ~> status \in {"sent", "cancelled", "deleted"})
=============================================================================
