-------------------------- MODULE ProviderFeedback --------------------------
(***************************************************************************)
(* Amazon SES feedback: the tail of processSend that stores the provider's *)
(* message id, SNS delivering notifications at least once and in any       *)
(* order, and POST /v1/webhooks/ses, whose concurrent handlers look the    *)
(* message up by that id and apply the outcome to its row, its audit trail *)
(* and the suppression list.                                               *)
(*                                                                         *)
(* One action is the code between two awaits.  faults counts exceptions    *)
(* and dead processes, at most MaxFaults.                                  *)
(***************************************************************************)
EXTENDS Naturals, FiniteSets

CONSTANTS Messages,   \* messages handed to the provider
          Notes,      \* SNS notifications, named by their envelope MessageId
          KindOf,     \* classify() of each notification
          MsgOf,      \* the message it is about
          Handlers,   \* concurrent executions of the webhook
          Early,      \* may a notification come before the id is stored?
          MaxFaults,  \* bound: faults in one behaviour
          None        \* no notification

Kinds == {"delivery", "open", "bounce", "transient", "complaint"}
Statuses == {"sending", "sent", "failed", "delivered", "bounced", "complained"}

ASSUME NotesAssumption ==
  KindOf \in [Notes -> Kinds] /\ MsgOf \in [Notes -> Messages] /\ IsFiniteSet(Notes)
ASSUME BoundsAssumption == Early \in BOOLEAN /\ MaxFaults \in Nat
ASSUME NoneAssumption == None \notin Notes

VARIABLES
  status,      \* messages.status
  pmid,        \* is messages.provider_message_id stored?
  suppressed,  \* is the recipient on the suppression list?
  audits,      \* how many audit entries of each event a message has
  send,        \* where processSend stands with each message
  inflight,    \* notifications SNS has not had answered with 200
  emitted,     \* notifications SES has published
  seen,        \* sns:seen keys in Redis
  hpc, note,   \* where each handler stands, and with which notification
  read,        \* the status it read
  applied,     \* history: how often each notification was applied to the end
  missed,      \* history: notifications that found no row, their id not stored yet
  faults       \* faults so far

rowVars     == <<status, pmid, send>>
snsVars     == <<inflight, emitted>>
handlerVars == <<hpc, note, read>>
history     == <<applied, missed>>
vars == <<status, pmid, suppressed, audits, send, inflight, emitted, seen, hpc, note, read,
          applied, missed, faults>>

Events == {"delivered", "opened", "bounced", "complained"}
Event == [delivery |-> "delivered", open |-> "opened", bounce |-> "bounced",
          transient |-> "bounced", complaint |-> "complained"]

Init ==
  /\ status = [m \in Messages |-> "sending"]
  /\ pmid = [m \in Messages |-> FALSE]
  /\ suppressed = [m \in Messages |-> FALSE]
  /\ audits = [m \in Messages |-> [e \in Events |-> 0]]
  /\ send = [m \in Messages |-> "submit"]
  /\ inflight = {} /\ emitted = {} /\ seen = {}
  /\ hpc = [h \in Handlers |-> "idle"]
  /\ note = [h \in Handlers |-> None]
  /\ read = [h \in Handlers |-> "sending"]
  /\ applied = [n \in Notes |-> 0] /\ missed = {}
  /\ faults = 0

Fault == faults < MaxFaults /\ faults' = faults + 1

-----------------------------------------------------------------------------
(* The tail of processSend                                                 *)

SetStatus(m, s) == status' = [status EXCEPT ![m] = s]
SendAt(m, place) == send' = [send EXCEPT ![m] = place]

Submit(m) ==
  /\ send[m] = "submit"
  /\ SendAt(m, "record")
  /\ UNCHANGED <<status, pmid, suppressed, audits, snsVars, seen, handlerVars, history, faults>>

RecordSent(m) ==
  /\ send[m] = "record"
  /\ SetStatus(m, "sent")
  /\ pmid' = [pmid EXCEPT ![m] = TRUE]
  /\ SendAt(m, "audit")
  /\ UNCHANGED <<suppressed, audits, snsVars, seen, handlerVars, history, faults>>

AuditSent(m) ==
  /\ send[m] = "audit"
  /\ SendAt(m, "done")
  /\ UNCHANGED <<status, pmid, suppressed, audits, snsVars, seen, handlerVars, history, faults>>

(* The write or its audit throws; the catch fails the row unconditionally. *)
SendThrows(m) ==
  /\ send[m] \in {"record", "audit"} /\ Fault
  /\ SendAt(m, "catch")
  /\ UNCHANGED <<status, pmid, suppressed, audits, snsVars, seen, handlerVars, history>>

Catch(m) ==
  /\ send[m] = "catch"
  /\ SetStatus(m, "failed")
  /\ SendAt(m, "done")
  /\ UNCHANGED <<pmid, suppressed, audits, snsVars, seen, handlerVars, history, faults>>

-----------------------------------------------------------------------------
(* SES and SNS                                                             *)

Emit(n) ==
  /\ n \notin emitted
  /\ IF Early THEN send[MsgOf[n]] # "submit" ELSE pmid[MsgOf[n]]
  /\ emitted' = emitted \cup {n} /\ inflight' = inflight \cup {n}
  /\ UNCHANGED <<rowVars, suppressed, audits, seen, handlerVars, history, faults>>

(* SNS posts what is not yet answered, again if it has to.                 *)
Receive(h, n) ==
  /\ hpc[h] = "idle" /\ n \in inflight
  /\ hpc' = [hpc EXCEPT ![h] = "dedup"]
  /\ note' = [note EXCEPT ![h] = n]
  /\ UNCHANGED <<rowVars, suppressed, audits, snsVars, seen, read, history, faults>>

-----------------------------------------------------------------------------
(* The webhook handler                                                     *)

About(h) == MsgOf[note[h]]
Kind(h) == KindOf[note[h]]
Goto(h, place) == hpc' = [hpc EXCEPT ![h] = place] /\ UNCHANGED <<note, read, inflight>>
Leave(h) ==
  /\ hpc' = [hpc EXCEPT ![h] = "idle"]
  /\ note' = [note EXCEPT ![h] = None]
  /\ read' = [read EXCEPT ![h] = "sending"]
Answer200(h) == Leave(h) /\ inflight' = inflight \ {note[h]}

(* Mutants: every post is applied; or the key is the mail's message id.    *)
DedupNothing(h) ==
  /\ hpc[h] = "dedup"
  /\ Goto(h, "read")
  /\ UNCHANGED <<rowVars, suppressed, audits, seen, emitted, history, faults>>
DedupPerMail(h) ==
  /\ hpc[h] = "dedup"
  /\ IF \E n \in seen : MsgOf[n] = About(h) THEN Answer200(h) ELSE Goto(h, "read")
  /\ seen' = seen \cup {note[h]}
  /\ UNCHANGED <<rowVars, suppressed, audits, emitted, history, faults>>

(* SET sns:seen:<MessageId> NX, before anything is applied.                *)
Dedup(h) ==
  /\ hpc[h] = "dedup"
  /\ IF note[h] \in seen THEN Answer200(h) ELSE Goto(h, "read")
  /\ seen' = seen \cup {note[h]}
  /\ UNCHANGED <<rowVars, suppressed, audits, emitted, history, faults>>

(* Look the message up by provider_message_id: none, nothing to do.        *)
Read(h) ==
  /\ hpc[h] = "read"
  /\ missed' = IF pmid[About(h)] THEN missed ELSE missed \cup {note[h]}
  /\ IF ~pmid[About(h)] THEN Answer200(h)
     ELSE /\ read' = [read EXCEPT ![h] = status[About(h)]]
          /\ hpc' = [hpc EXCEPT ![h] = CASE Kind(h) \in {"delivery", "open"} -> "check"
                                         [] Kind(h) \in {"bounce", "complaint"} -> "write"
                                         [] Kind(h) = "transient" -> "audit"]
          /\ UNCHANGED <<note, inflight>>
  /\ UNCHANGED <<rowVars, suppressed, audits, seen, emitted, applied, faults>>

(* hasAudit: a delivery or an open is recorded once per message.           *)
Check(h) ==
  /\ hpc[h] = "check"
  /\ IF audits[About(h)][Event[Kind(h)]] > 0 THEN Answer200(h)
     ELSE Goto(h, IF Kind(h) = "delivery" THEN "write" ELSE "audit")
  /\ UNCHANGED <<rowVars, suppressed, audits, seen, emitted, history, faults>>

\* Which outcome may replace the status that was read.
MayReplace(h) ==
  IF Kind(h) = "delivery" THEN read[h] \in {"sending", "sent"} ELSE read[h] # "complained"

(* Mutants: the kind is written for the outcome; or a bounce that finds    *)
(* the complaint already recorded leaves the suppression to it.            *)
WriteKind(h) ==
  /\ hpc[h] = "write"
  /\ IF MayReplace(h) THEN SetStatus(About(h), Kind(h)) ELSE UNCHANGED status
  /\ Goto(h, IF Kind(h) = "delivery" THEN "audit" ELSE "suppress")
  /\ UNCHANGED <<pmid, send, suppressed, audits, seen, emitted, history, faults>>
WriteOrSkip(h) ==
  /\ hpc[h] = "write"
  /\ IF MayReplace(h) THEN SetStatus(About(h), Event[Kind(h)]) ELSE UNCHANGED status
  /\ Goto(h, IF Kind(h) = "delivery" \/ ~MayReplace(h) THEN "audit" ELSE "suppress")
  /\ UNCHANGED <<pmid, send, suppressed, audits, seen, emitted, history, faults>>

(* The status is written only if what was read gives way (a handler that   *)
(* read before another wrote may undo it); the suppression follows either  *)
(* way.                                                                    *)
Write(h) ==
  /\ hpc[h] = "write"
  /\ IF MayReplace(h) THEN SetStatus(About(h), Event[Kind(h)]) ELSE UNCHANGED status
  /\ Goto(h, IF Kind(h) = "delivery" THEN "audit" ELSE "suppress")
  /\ UNCHANGED <<pmid, send, suppressed, audits, seen, emitted, history, faults>>

(* addSuppression: an insert that ignores a conflict.                      *)
Suppress(h) ==
  /\ hpc[h] = "suppress"
  /\ suppressed' = [suppressed EXCEPT ![About(h)] = TRUE]
  /\ Goto(h, "audit")
  /\ UNCHANGED <<rowVars, audits, seen, emitted, history, faults>>

WriteAudit(h) ==
  /\ hpc[h] = "audit"
  /\ audits' = [audits EXCEPT ![About(h)][Event[Kind(h)]] = @ + 1]
  /\ applied' = [applied EXCEPT ![note[h]] = @ + 1]
  /\ Answer200(h)
  /\ UNCHANGED <<rowVars, suppressed, seen, emitted, missed, faults>>

(* An await throws (500) or the process dies: SNS keeps the notification.  *)
HandlerFails(h) ==
  /\ hpc[h] # "idle" /\ Fault
  /\ Leave(h)
  /\ UNCHANGED <<rowVars, suppressed, audits, snsVars, seen, history>>

-----------------------------------------------------------------------------
SendStep(m) == Submit(m) \/ RecordSent(m) \/ AuditSent(m) \/ Catch(m)
HandlerStep(h) ==
  Dedup(h) \/ Read(h) \/ Check(h) \/ Write(h) \/ Suppress(h) \/ WriteAudit(h)

Next ==
  \/ \E m \in Messages : SendStep(m) \/ SendThrows(m)
  \/ \E n \in Notes : Emit(n)
  \/ \E h \in Handlers : (\E n \in Notes : Receive(h, n)) \/ HandlerStep(h) \/ HandlerFails(h)

Spec == Init /\ [][Next]_vars

(* SNS posts every unanswered notification until it is answered, and a     *)
(* handler that started goes on; SES need never publish anything.          *)
Fairness ==
  /\ \A n \in Notes : SF_vars(\E h \in Handlers : Receive(h, n))
  /\ \A h \in Handlers : WF_vars(HandlerStep(h))
FairSpec == Spec /\ Fairness

-----------------------------------------------------------------------------
(* Properties                                                              *)

Places == {"idle", "dedup", "read", "check", "write", "suppress", "audit"}

TypeOK ==
  /\ status \in [Messages -> Statuses]
  /\ pmid \in [Messages -> BOOLEAN]
  /\ suppressed \in [Messages -> BOOLEAN]
  /\ audits \in [Messages -> [Events -> Nat]]
  /\ send \in [Messages -> {"submit", "record", "audit", "catch", "done"}]
  /\ inflight \subseteq emitted /\ emitted \subseteq Notes /\ seen \subseteq emitted
  /\ hpc \in [Handlers -> Places]
  /\ note \in [Handlers -> Notes \cup {None}]
  /\ \A h \in Handlers : hpc[h] = "idle" <=> note[h] = None
  /\ read \in [Handlers -> Statuses]
  /\ applied \in [Notes -> Nat] /\ missed \subseteq emitted
  /\ faults \in 0..MaxFaults

(* However often SNS posts a notification, to however many handlers at     *)
(* once, it is applied at most once, and the audit trail holds no outcome  *)
(* that was not published (webhooks-ses.ts: "so we don't double-audit").   *)
AppliedAtMostOnce ==
  /\ \A n \in Notes : applied[n] <= 1
  /\ \A m \in Messages, e \in Events :
       audits[m][e] > 0 => \E n \in seen : MsgOf[n] = m /\ Event[KindOf[n]] = e

Bad == {"bounce", "complaint"}
InHand(n) == \E h \in Handlers : note[h] = n /\ hpc[h] \in {"read", "write", "suppress", "audit"}
(* A bounce or complaint that was marked as seen, and so will be answered  *)
(* as a duplicate whenever it is posted again, with no handler at work on  *)
(* it and its recipient not suppressed.                                    *)
Lost(n) ==
  /\ n \in seen \ missed /\ KindOf[n] \in Bad
  /\ ~suppressed[MsgOf[n]] /\ ~InHand(n)

(* Marking a notification before applying it (webhooks-ses.ts) loses at    *)
(* most one bad outcome for each fault: neither another notification of    *)
(* the mail, nor a concurrent handler, nor a status that does not give way *)
(* loses one (ses-events.ts: "Suppression is written either way below").   *)
LossesAreFaults == Cardinality({n \in Notes : Lost(n)}) <= faults

(* A bounce or complaint that SNS has still to hand over for the first     *)
(* time, when the message's provider id is stored, puts its recipient on   *)
(* the suppression list (ses-events.ts: "so we never send to that address  *)
(* again") whatever other notifications are handled meanwhile, provided    *)
(* nothing fails from then on.                                             *)
BadOutcomeSuppresses ==
  \A n \in Notes, k \in 0..MaxFaults : KindOf[n] \in Bad =>
    (n \in inflight \ seen /\ pmid[MsgOf[n]] /\ faults = k ~> suppressed[MsgOf[n]] \/ faults > k)
=============================================================================
