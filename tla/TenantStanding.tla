-------------------------- MODULE TenantStanding ---------------------------
(***************************************************************************)
(* Whether one client domain (a sub_tenants row) may send: its status, its *)
(* reputation state and how long its DNS has been failing.  One sweep at a *)
(* time judges the reputation and then re-checks the DNS; the operators of *)
(* the dashboard verify, resume and delete beside it.  Sweep and routes    *)
(* decide from the row they read and write it back unconditionally.        *)
(*                                                                         *)
(* The numbers behind a verdict are an input: the band they fall in.  The  *)
(* counting window of resumes is one window, in which nothing ages out.    *)
(***************************************************************************)
EXTENDS Naturals, FiniteSets

CONSTANTS Operators,       \* concurrent calls of the routes
          Bands,           \* verdicts the numbers may give
          MaxSelfResumes,  \* MAX_SELF_RESUMES
          MaxFaults        \* bound: failures in one behaviour

ASSUME OperatorsAssumption == IsFiniteSet(Operators)
ASSUME BandsAssumption == Bands \subseteq {"ok", "warn", "throttled", "paused"}
ASSUME BoundsAssumption == MaxSelfResumes \in Nat \ {0} /\ MaxFaults \in Nat

VARIABLES
  row,       \* the sub_tenants row, and whether it exists
  resumed,   \* "tenant_resumed" audit entries, up to MaxSelfResumes
  dns,       \* what a lookup of the required records answers (an error of
             \*   the resolver counts as a missing record)
  sweep,     \* where the sweep stands
  held,      \* what the sweep uses of the row it read
  found,     \* what the sweep found: a lookup's answer or an audit to write
  call,      \* where each operator's call stands
  read,      \* what each verify uses of the row it read
  answer,    \* what the lookup of each verify answered
  faults,    \* failures so far
  resumes,   \* history: resumes written by operators
  overtaken, \* history: a resume was written while a verify that had read
             \*   the pause was under way
  failedBefore \* history: the last lookup the sweep recorded failed

operatorVars == <<call, read, answer>>
sweepVars == <<sweep, held, found>>
historyVars == <<resumes, overtaken, failedBefore>>
vars == <<row, resumed, dns, sweepVars, operatorVars, faults, historyVars>>

Statuses == {"pending", "verified", "failed", "disabled"}
Reputations == {"ok", "warn", "throttled", "paused"}
\* dnsFailingSince: unset, within the grace period, or before it.
Row == [exists : BOOLEAN, status : Statuses, rep : Reputations, verifiedAt : BOOLEAN,
        failing : {"no", "recent", "long"}]

NewRow == [exists |-> TRUE, status |-> "pending", rep |-> "ok", verifiedAt |-> FALSE,
           failing |-> "no"]

CallPlaces == {"idle", "verifyLookup", "verifyWrite", "resumeCount", "resumeWrite", "resumeAudit",
               "delete"}
Unread == [paused |-> FALSE, verifiedAt |-> FALSE]

Init ==
  /\ row = NewRow /\ resumed = 0 /\ dns \in BOOLEAN
  /\ sweep = "idle" /\ held = NewRow /\ found = FALSE
  /\ call = [c \in Operators |-> "idle"]
  /\ read = [c \in Operators |-> Unread]
  /\ answer = [c \in Operators |-> FALSE]
  /\ faults = 0
  /\ resumes = 0 /\ overtaken = FALSE /\ failedBefore = FALSE

Sending == row.exists /\ row.status = "verified" /\ row.rep # "paused"

\* An update of a deleted row changes nothing.
Update(changed) == row' = IF row.exists THEN changed ELSE row
AuditResumed == resumed' = IF resumed < MaxSelfResumes THEN resumed + 1 ELSE resumed

-----------------------------------------------------------------------------
(* The sweep: reputation                                                   *)

SweepAt(place) == sweep' = place
Forget == held' = NewRow /\ found' = FALSE

SelectReputation ==
  /\ sweep = "idle"
  /\ IF row.exists /\ row.status = "verified"
       THEN SweepAt("judge") /\ held' = [NewRow EXCEPT !.rep = row.rep]
       ELSE SweepAt("dns") /\ UNCHANGED held
  /\ UNCHANGED <<row, resumed, dns, found, operatorVars, faults, historyVars>>

(* Mutant: a pause ends when the numbers recover.                          *)
ChangesAlways(band) == band # held.rep

(* evaluateReputation: a paused tenant is left alone.                      *)
Changes(band) == held.rep # "paused" /\ band # held.rep

(* Mutant: a pause is written to the status under its own name.            *)
JudgePausesStatus(band) ==
  /\ sweep = "judge"
  /\ IF Changes(band)
       THEN /\ Update([row EXCEPT !.rep = band,
                                  !.status = IF band = "paused" THEN band ELSE @])
            /\ SweepAt("audit") /\ held' = NewRow /\ found' = (band = "ok")
       ELSE SweepAt("dns") /\ Forget /\ UNCHANGED row
  /\ UNCHANGED <<resumed, dns, operatorVars, faults, historyVars>>

(* evaluateTenant up to its write; a pause disables the row as well.       *)
Judge(band) ==
  /\ sweep = "judge"
  /\ IF Changes(band)
       THEN /\ Update([row EXCEPT !.rep = band,
                                  !.status = IF band = "paused" THEN "disabled" ELSE @])
            /\ SweepAt("audit") /\ held' = NewRow /\ found' = (band = "ok")
       ELSE SweepAt("dns") /\ Forget /\ UNCHANGED row
  /\ UNCHANGED <<resumed, dns, operatorVars, faults, historyVars>>

(* auditTransition: the event of a return to ok is "tenant_resumed".       *)
AuditTransition ==
  /\ sweep = "audit"
  /\ IF found THEN AuditResumed ELSE UNCHANGED resumed
  /\ SweepAt("dns") /\ Forget
  /\ UNCHANGED <<row, dns, operatorVars, faults, historyVars>>

-----------------------------------------------------------------------------
(* The sweep: DNS                                                          *)

(* Mutant: only tenants that still send are looked at again.               *)
DueVerified == row.exists /\ row.verifiedAt /\ row.status = "verified"

Due == row.exists /\ row.verifiedAt /\ row.status \in {"verified", "failed"}

(* The hourly interval since the last check is left to chance.             *)
SelectDns ==
  /\ sweep = "dns" /\ Due
  /\ SweepAt("lookup") /\ held' = [row EXCEPT !.verifiedAt = FALSE]
  /\ UNCHANGED <<row, resumed, dns, found, operatorVars, faults, historyVars>>

NothingDue ==
  /\ sweep = "dns" /\ SweepAt("idle")
  /\ UNCHANGED <<row, resumed, dns, held, found, operatorVars, faults, historyVars>>

Lookup ==
  /\ sweep = "lookup"
  /\ SweepAt("record") /\ found' = dns
  /\ UNCHANGED <<row, resumed, dns, held, operatorVars, faults, historyVars>>

(* Mutant: the first failing lookup already stops the sending.             *)
SuspendsAtOnce == held.status = "verified"

(* decideDnsDrift, from the row the sweep read.                            *)
Restores == held.status = "failed" /\ held.rep # "paused"
Suspends == held.failing = "long" /\ held.status = "verified"

Recovered == [row EXCEPT !.failing = "no",
                         !.status = IF Restores THEN "verified" ELSE @,
                         !.verifiedAt = @ \/ Restores]

(* checkTenantDns: the write.                                              *)
Record ==
  /\ sweep = "record"
  /\ \/ found /\ Update(IF held.failing = "no" THEN row ELSE Recovered)
     \/ ~found /\ Suspends /\ Update([row EXCEPT !.status = "failed"])
     \/ ~found /\ ~Suspends
        /\ Update(IF held.failing = "no" THEN [row EXCEPT !.failing = "recent"] ELSE row)
  /\ failedBefore' = ~found
  /\ SweepAt("idle") /\ Forget
  /\ UNCHANGED <<resumed, dns, operatorVars, faults, resumes, overtaken>>

(* An exception ends the work on this tenant in one of the two sweeps.     *)
SweepFails ==
  /\ sweep \in {"judge", "audit", "lookup", "record"}
  /\ faults < MaxFaults /\ faults' = faults + 1
  /\ SweepAt(IF sweep \in {"judge", "audit"} THEN "dns" ELSE "idle")
  /\ Forget
  /\ UNCHANGED <<row, resumed, dns, operatorVars, historyVars>>

-----------------------------------------------------------------------------
(* The operators                                                           *)

CallAt(c, place) == call' = [call EXCEPT ![c] = place]
Done(c) ==
  /\ CallAt(c, "idle")
  /\ read' = [read EXCEPT ![c] = Unread] /\ answer' = [answer EXCEPT ![c] = FALSE]

(* POST .../verify reads the row.                                          *)
VerifyRead(c) ==
  /\ call[c] = "idle" /\ row.exists
  /\ CallAt(c, "verifyLookup")
  /\ read' = [read EXCEPT ![c] = [paused |-> row.rep = "paused", verifiedAt |-> row.verifiedAt]]
  /\ UNCHANGED <<row, resumed, dns, sweepVars, answer, faults, historyVars>>

(* The lookup, and SES's own view of the domain.                           *)
VerifyLookup(c, sesAgrees) ==
  /\ call[c] = "verifyLookup"
  /\ CallAt(c, "verifyWrite") /\ answer' = [answer EXCEPT ![c] = dns /\ sesAgrees]
  /\ UNCHANGED <<row, resumed, dns, sweepVars, read, faults, historyVars>>

VerifyWrite(c) ==
  /\ call[c] = "verifyWrite"
  /\ Update([row EXCEPT !.status = IF read[c].paused THEN "disabled"
                                   ELSE IF answer[c] THEN "verified" ELSE "failed",
                        !.verifiedAt = answer[c] \/ read[c].verifiedAt])
  /\ Done(c)
  /\ UNCHANGED <<resumed, dns, sweepVars, faults, historyVars>>

(* POST .../resume: refused unless paused, and after MaxSelfResumes.       *)
ResumeRead(c) ==
  /\ call[c] = "idle" /\ row.exists /\ row.rep = "paused"
  /\ CallAt(c, "resumeCount")
  /\ UNCHANGED <<row, resumed, dns, sweepVars, read, answer, faults, historyVars>>

ResumeCount(c) ==
  /\ call[c] = "resumeCount"
  /\ CallAt(c, IF resumed >= MaxSelfResumes THEN "idle" ELSE "resumeWrite")
  /\ UNCHANGED <<row, resumed, dns, sweepVars, read, answer, faults, historyVars>>

HoldsPause(c) == call[c] \in {"verifyLookup", "verifyWrite"} /\ read[c].paused

(* Mutant: the resume does not bring the status back.                      *)
ResumeRepOnly(c) ==
  /\ call[c] = "resumeWrite"
  /\ Update([row EXCEPT !.rep = "ok"])
  /\ CallAt(c, "resumeAudit")
  /\ resumes' = resumes + 1
  /\ overtaken' = (overtaken \/ \E o \in Operators : HoldsPause(o))
  /\ UNCHANGED <<resumed, dns, sweepVars, read, answer, faults, failedBefore>>

ResumeWrite(c) ==
  /\ call[c] = "resumeWrite"
  /\ Update([row EXCEPT !.rep = "ok", !.status = "verified"])
  /\ CallAt(c, "resumeAudit")
  /\ resumes' = resumes + 1
  /\ overtaken' = (overtaken \/ \E o \in Operators : HoldsPause(o))
  /\ UNCHANGED <<resumed, dns, sweepVars, read, answer, faults, failedBefore>>

(* Mutant: an operator's resume is not put on the audit trail.             *)
ResumeUnaudited(c) ==
  /\ call[c] = "resumeAudit"
  /\ CallAt(c, "idle")
  /\ UNCHANGED <<row, resumed, dns, sweepVars, read, answer, faults, historyVars>>

ResumeAudit(c) ==
  /\ call[c] = "resumeAudit"
  /\ AuditResumed /\ CallAt(c, "idle")
  /\ UNCHANGED <<row, dns, sweepVars, read, answer, faults, historyVars>>

(* DELETE: refused while paused, then the row goes by its id.              *)
DeleteRead(c) ==
  /\ call[c] = "idle" /\ row.exists /\ row.rep # "paused"
  /\ CallAt(c, "delete")
  /\ UNCHANGED <<row, resumed, dns, sweepVars, read, answer, faults, historyVars>>

DeleteWrite(c) ==
  /\ call[c] = "delete"
  /\ Update([NewRow EXCEPT !.exists = FALSE]) /\ CallAt(c, "idle")
  /\ UNCHANGED <<resumed, dns, sweepVars, read, answer, faults, historyVars>>

(* A call ends in an exception between two of its steps.                   *)
CallDies(c) ==
  /\ call[c] # "idle" /\ faults < MaxFaults /\ faults' = faults + 1
  /\ Done(c)
  /\ UNCHANGED <<row, resumed, dns, sweepVars, historyVars>>

-----------------------------------------------------------------------------
(* Time and the client's DNS                                               *)

\* The grace period is hours, a check seconds: it does not end during one.
GraceEnds ==
  /\ row.exists /\ row.failing = "recent" /\ sweep \notin {"lookup", "record"}
  /\ row' = [row EXCEPT !.failing = "long"]
  /\ UNCHANGED <<resumed, dns, sweepVars, operatorVars, faults, historyVars>>

RecordsChange ==
  /\ row.exists /\ dns' = ~dns
  /\ UNCHANGED <<row, resumed, sweepVars, operatorVars, faults, historyVars>>

SweepStep ==
  \/ SelectReputation \/ (\E b \in Bands : Judge(b)) \/ AuditTransition
  \/ SelectDns \/ NothingDue \/ Lookup \/ Record

Next ==
  \/ SweepStep \/ SweepFails
  \/ \E c \in Operators :
       \/ VerifyRead(c) \/ (\E s \in BOOLEAN : VerifyLookup(c, s)) \/ VerifyWrite(c)
       \/ ResumeRead(c) \/ ResumeCount(c) \/ ResumeWrite(c) \/ ResumeAudit(c)
       \/ DeleteRead(c) \/ DeleteWrite(c) \/ CallDies(c)
  \/ GraceEnds \/ RecordsChange

Spec == Init /\ [][Next]_vars

(* The sweep is a repeatable job, and again and again an hour has passed   *)
(* since the last check; nobody must call, fix their DNS or be judged in   *)
(* any particular way.                                                     *)
FairSpec == Spec /\ WF_vars(SweepStep) /\ SF_vars(SelectDns)

-----------------------------------------------------------------------------
(* Properties                                                              *)

TypeOK ==
  /\ row \in Row /\ held \in Row
  /\ resumed \in 0..MaxSelfResumes /\ dns \in BOOLEAN
  /\ sweep \in {"idle", "judge", "audit", "dns", "lookup", "record"}
  /\ found \in BOOLEAN
  /\ call \in [Operators -> CallPlaces]
  /\ read \in [Operators -> [paused : BOOLEAN, verifiedAt : BOOLEAN]] /\ answer \in [Operators -> BOOLEAN]
  /\ faults \in 0..MaxFaults
  /\ resumes \in Nat /\ overtaken \in BOOLEAN /\ failedBefore \in BOOLEAN

(* A paused tenant's sending is opened by nothing but an operator's        *)
(* resume: not by a verification, by DNS that recovers or by numbers that  *)
(* do, whatever the writes that cross the pause (subtenants.ts: "a         *)
(* reputation pause outranks DNS").                                        *)
PauseHolds ==
  [][row.rep = "paused" /\ Sending' => \E c \in Operators : call[c] = "resumeWrite"]_vars

(* Resumes are bounded: beyond the limit there are only those that counted *)
(* the trail before an earlier resume, or a failed one, was on it.         *)
ResumesBounded == resumes <= MaxSelfResumes + Cardinality(Operators) - 1 + faults

(* A tenant is disabled only while it is paused, so that resume can bring  *)
(* it back; the one exception is a verify that read the pause before a     *)
(* resume and wrote after it.                                              *)
DisabledMeansPaused ==
  row.status = "disabled" => row.rep = "paused" \/ overtaken

(* The sweep stops nobody's mail on one bad lookup: when it suspends, the  *)
(* last lookup it recorded before this one failed as well, whatever        *)
(* verifications, pauses and resumes came between (dns-drift.ts: "a grace  *)
(* period instead of a hair trigger").  A lookup whose write throws        *)
(* records nothing, a good one neither.                                    *)
SuspendedAfterWarning ==
  [][sweep = "record" /\ sweep' # sweep /\ row.status # "failed" /\ row'.status = "failed"
       => failedBefore]_vars

(* Once the records resolve for good and no call is under way, a tenant    *)
(* suspended for its DNS and not paused sends again by itself, provided no *)
(* verify that read the row before its first success has unset verifiedAt  *)
(* (dns-drift.ts: "you do not need to do anything here").                  *)
Suspended ==
  /\ row.exists /\ row.verifiedAt
  /\ row.status = "failed" /\ row.failing # "no" /\ row.rep # "paused"
SuspensionHeals ==
  <>[](dns /\ \A c \in Operators : call[c] = "idle") => <>[]~Suspended
=============================================================================
