----------------------- MODULE WebhookDelivery_proofs -----------------------
(***************************************************************************)
(* An endpoint is disabled by its deliveries only after Threshold of them  *)
(* in a row have failed for good, and without faults a delivery to an      *)
(* endpoint that stays active is confirmed once or exhausted, for any      *)
(* number of events, endpoints, editors, attempts and faults.              *)
(*                                                                         *)
(* The argument, of the first: every copy of the counter that anybody      *)
(* still decides from (the row's own, the one a delivery read before its   *)
(* request, the one a PATCH read) is at most the failures in a row; a      *)
(* success nothing overlapped finds the row as it read it and nobody else  *)
(* with a copy, so that it leaves no copy above zero.  Of the second:      *)
(* without faults an event job runs once and adds one delivery for an      *)
(* endpoint, whose place and attempt say how many requests it has made and *)
(* how many answers it has heard; and an endpoint never seen off cannot    *)
(* drop it.                                                                *)
(***************************************************************************)
EXTENDS WebhookDelivery, TLAPS

USE EndpointsAssumption, LimitsAssumption

-----------------------------------------------------------------------------
(* The inductive invariant, by part                                        *)

EarnedAt(e) ==
  /\ Stored(e) => endpoint[e].failures <= streak[e]
  /\ \A j \in InHand(e) : job[j].read.failures <= streak[e] /\ job[j].read.status = "active"
  /\ \A c \in Editing(e) : edit[c].of.failures <= streak[e] /\ edit[c].of.status # "absent"
  /\ \A j \in alone \cap InHand(e) :
       /\ InHand(e) = {j} /\ Editing(e) = {}
       /\ Stored(e) => endpoint[e].failures = job[j].read.failures
  /\ endpoint[e].status = "absent" => InHand(e) = {} /\ Editing(e) = {}
Earned == \A e \in Endpoints : EarnedAt(e)

USE DEF historyVars, postVars, streakVars, faultVars, FanRuns

-----------------------------------------------------------------------------
(* What the variables hold, and what writing them keeps                    *)

LEMMA JobParts ==
  ASSUME NEW j \in Jobs PROVE EventOf(j) \in Events /\ TargetOf(j) \in Endpoints
  BY DEF Jobs, EventOf, TargetOf

LEMMA Fields ==
  ASSUME TypeOK
  PROVE  /\ \A e \in Endpoints : endpoint[e].failures \in Nat
         /\ \A v \in Events : fan[v].run \in FanRuns /\ fan[v].todo \subseteq Endpoints
         /\ \A j \in Jobs : job[j].attempt \in 1..MaxAttempts /\ job[j].read \in Endpoint
         /\ \A c \in Editors : edit[c].of \in Endpoint /\ edit[c].id \in Endpoints
  BY DEF TypeOK, Endpoint, Fan, Job, Edit

LEMMA EndpointFields ==
  ASSUME NEW x \in Endpoint
  PROVE  x.failures \in Nat /\ x.status \in {"absent", "active", "disabled", "deleted"}
  BY DEF Endpoint

LEMMA EndpointMade ==
  ASSUME NEW s \in {"absent", "active", "disabled", "deleted"}, NEW n \in Nat
  PROVE  [status |-> s, failures |-> n] \in Endpoint
  BY DEF Endpoint

LEMMA NoEndpointType == NoEndpoint \in Endpoint
  BY EndpointMade DEF NoEndpoint

LEMMA FailureType == ASSUME NEW x \in Endpoint PROVE Failure(x) \in Endpoint
  BY DEF Endpoint, Failure

LEMMA UpdateType ==
  ASSUME TypeOK, NEW e \in Endpoints, NEW x \in Endpoint, Update(e, x)
  PROVE  endpoint' \in [Endpoints -> Endpoint] /\ everOff' \subseteq Endpoints
  BY DEF Update, TypeOK

LEMMA FanType ==
  ASSUME TypeOK, NEW v \in Events, NEW p \in {"none", "waiting", "adding", "done", "failed"},
         NEW n \in FanRuns, NEW todo \in SUBSET Endpoints, FanTo(v, p, n, todo)
  PROVE  fan' \in [Events -> Fan]
<1>1. [at |-> p, run |-> n, todo |-> todo] \in Fan
  BY DEF Fan
<1> QED BY <1>1 DEF FanTo, TypeOK

LEMMA JobType ==
  ASSUME TypeOK, NEW j \in Jobs, NEW n \in 1..MaxAttempts, NEW x \in Endpoint,
         NEW p \in {"none", "waiting", "request", "good", "bad", "done", "dropped", "failed"},
         JobTo(j, p, n, x)
  PROVE  job' \in [Jobs -> Job]
<1>1. [at |-> p, attempt |-> n, read |-> x] \in Job
  BY DEF Job
<1> QED BY <1>1 DEF JobTo, TypeOK

LEMMA EditType ==
  ASSUME TypeOK, NEW c \in Editors, NEW p \in {"idle", "write"}, NEW x \in Endpoint,
         NEW e \in Endpoints, EditTo(c, p, x, e)
  PROVE  edit' \in [Editors -> Edit]
<1>1. [at |-> p, of |-> x, id |-> e] \in Edit
  BY DEF Edit
<1> QED BY <1>1 DEF EditTo, TypeOK

-----------------------------------------------------------------------------
(* Types                                                                   *)

LEMMA TypeInit == Init => TypeOK
<1> SUFFICES ASSUME Init PROVE TypeOK
  OBVIOUS
<1>1. (CHOOSE e \in Endpoints : TRUE) \in Endpoints
  OBVIOUS
<1>2. 1 \in 1..MaxAttempts
  OBVIOUS
<1> QED BY <1>1, <1>2, NoEndpointType DEF Init, TypeOK, Fan, Job, Edit

LEMMA TypeStep == TypeOK /\ [Next]_vars => TypeOK'
<1> SUFFICES ASSUME TypeOK, [Next]_vars PROVE TypeOK'
  OBVIOUS
<1> USE Fields, NoEndpointType DEF Fault
<1>1. ASSUME NEW v \in Events, Emit(v) \/ FanRead(v) \/ FanDone(v) \/ FanThrows(v) \/ FanStalls(v) PROVE TypeOK'
  <2>1. fan' \in [Events -> Fan]
    <3>1. CASE Emit(v) \/ FanRead(v) \/ FanDone(v)
      BY <3>1, FanType DEF Emit, FanRead, FanDone
    <3>2. CASE FanThrows(v) \/ FanStalls(v)
      <4>1. fan' = fan \/ \E n \in FanRuns, p \in {"waiting", "failed"} : FanTo(v, p, n, {})
        <5>1. CASE FanThrows(v)
          <6>1. fan[v].run < (IF v \in stalledFans THEN 3 ELSE 2) => fan[v].run + 1 \in FanRuns
            OBVIOUS
          <6> QED BY <5>1, <6>1 DEF FanThrows, FanAgain
        <5>2. CASE FanStalls(v)
          <6>1. v \notin stalledFans => fan[v].run + 1 \in FanRuns
            BY DEF TypeOK
          <6> QED BY <5>2, <6>1 DEF FanStalls, FanAgain
        <5> QED BY <3>2, <5>1, <5>2
      <4> QED BY <4>1, FanType DEF TypeOK
    <3> QED BY <1>1, <3>1, <3>2
  <2>2. \A w \in Events \ stalledFans' : fan'[w].run < 3
    <3>1. CASE Emit(v) \/ FanRead(v) \/ FanDone(v)
      <4>1. stalledFans' = stalledFans /\ \A w \in Events : fan'[w].run = fan[w].run \/ fan'[w].run = 1
        <5>1. stalledFans' = stalledFans
          BY <3>1 DEF Emit, FanRead, FanDone
        <5>2. PICK p, n, todo : FanTo(v, p, n, todo) /\ n \in {1, fan[v].run}
          BY <3>1 DEF Emit, FanRead, FanDone
        <5> QED BY <5>1, <5>2 DEF FanTo, TypeOK
      <4> QED BY <4>1 DEF TypeOK
    <3>2. CASE FanThrows(v)
      <4>1. stalledFans' = stalledFans /\ \A w \in Events \ {v} : fan'[w] = fan[w]
        BY <3>2 DEF FanThrows, FanAgain, FanTo, TypeOK
      <4>2. \/ fan'[v].run = fan[v].run
            \/ fan'[v].run = fan[v].run + 1 /\ fan[v].run < (IF v \in stalledFans THEN 3 ELSE 2)
        BY <3>2 DEF FanThrows, FanAgain, FanTo, TypeOK
      <4>3. v \notin stalledFans => fan'[v].run < 3
        <5>1. v \notin stalledFans => fan[v].run < 3
          BY DEF TypeOK
        <5> QED BY <4>2, <5>1
      <4> QED BY <4>1, <4>3 DEF TypeOK
    <3>3. CASE FanStalls(v)
      BY <3>3 DEF FanStalls, FanAgain, FanTo, TypeOK
    <3> QED BY <1>1, <3>1, <3>2, <3>3
  <2> QED BY <1>1, <2>1, <2>2 DEF Emit, FanRead, FanDone, FanThrows, FanStalls, TypeOK
<1>2. ASSUME NEW v \in Events, NEW e \in Endpoints, FanAdd(v, e) PROVE TypeOK'
  <2>1. fan' \in [Events -> Fan]
    BY <1>2, FanType DEF FanAdd
  <2>2. <<v, e, fan[v].run>> \in Jobs /\ 1 \in 1..MaxAttempts
    BY DEF Jobs
  <2>3. job' \in [Jobs -> Job]
    BY <1>2, <2>2, JobType DEF FanAdd
  <2>4. \A w \in Events \ stalledFans' : fan'[w].run < 3
    BY <1>2 DEF FanAdd, FanTo, TypeOK
  <2> QED BY <1>2, <2>1, <2>3, <2>4 DEF FanAdd, TypeOK
<1>3. ASSUME NEW j \in Jobs, JobStep(j) PROVE TypeOK'
  <2> USE JobParts DEF JobAt, NextAttempt, IsFinal
  <2>1. CASE Begin(j)
    <3>1. job' \in [Jobs -> Job]
      BY <2>1, JobType DEF Begin, TypeOK
    <3>2. alone' \subseteq Jobs
      BY <2>1 DEF Begin, TypeOK
    <3> QED BY <2>1, <3>1, <3>2 DEF Begin, TypeOK
  <2>2. ASSUME NEW a \in {"good", "bad"}, Request(j, a) PROVE TypeOK'
    <3>1. job' \in [Jobs -> Job]
      BY <2>2, JobType DEF Request
    <3>2. tries' \in [Events -> [Endpoints -> Nat]] /\ heard' \in [Events -> [Endpoints -> Nat]]
      BY <2>2 DEF Request, TypeOK
    <3> QED BY <2>2, <3>1, <3>2 DEF Request, TypeOK
  <2>3. CASE Good(j)
    <3>1. job' \in [Jobs -> Job]
      BY <2>3, JobType DEF Good
    <3>2. [endpoint[TargetOf(j)] EXCEPT !.failures = 0] \in Endpoint
      BY DEF TypeOK, Endpoint
    <3>3. endpoint' \in [Endpoints -> Endpoint] /\ everOff' \subseteq Endpoints
      BY <2>3, <3>2, UpdateType DEF Good, Reset, TypeOK
    <3>4. streak' \in [Endpoints -> Nat]
      BY <2>3 DEF Good, EndsRow, TypeOK
    <3> QED BY <2>3, <3>1, <3>3, <3>4 DEF Good, TypeOK
  <2>4. CASE Retry(j)
    <3>1. job' \in [Jobs -> Job]
      BY <2>4, JobType DEF Retry
    <3> QED BY <2>4, <3>1 DEF Retry, TypeOK
  <2>5. CASE GiveUp(j)
    <3>1. job' \in [Jobs -> Job]
      BY <2>5, JobType DEF GiveUp
    <3>2. endpoint' \in [Endpoints -> Endpoint] /\ everOff' \subseteq Endpoints
      BY <2>5, UpdateType, FailureType DEF GiveUp
    <3>3. streak' \in [Endpoints -> Nat]
      BY <2>5 DEF GiveUp, TypeOK
    <3> QED BY <2>5, <3>1, <3>2, <3>3 DEF GiveUp, TypeOK
  <2> QED BY <1>3, <2>1, <2>2, <2>3, <2>4, <2>5 DEF JobStep
<1>4. ASSUME NEW j \in Jobs, Throws(j) \/ Stalls(j) PROVE TypeOK'
  <2>1. job' \in [Jobs -> Job]
    <3>1. CASE Throws(j)
      BY <3>1, JobType DEF Throws, JobAt, NextAttempt, IsFinal
    <3>2. CASE Stalls(j)
      <4>1. PICK p \in {"failed", "waiting"} : JobTo(j, p, job[j].attempt, NoEndpoint)
        BY <3>2 DEF Stalls, JobAt
      <4> QED BY <4>1, JobType
    <3> QED BY <1>4, <3>1, <3>2
  <2> QED BY <1>4, <2>1 DEF Throws, Stalls, TypeOK
<1>5. ASSUME NEW e \in Endpoints, Create(e) \/ Delete(e) PROVE TypeOK'
  <2>1. CASE Create(e)
    BY <2>1, EndpointMade DEF Create, TypeOK
  <2>2. CASE Delete(e)
    BY <2>2, UpdateType, EndpointMade DEF Delete, TypeOK
  <2> QED BY <1>5, <2>1, <2>2
<1>6. ASSUME NEW c \in Editors, NEW e \in Endpoints, PatchRead(c, e) PROVE TypeOK'
  <2>1. edit' \in [Editors -> Edit]
    BY <1>6, EditType DEF PatchRead, TypeOK
  <2>2. alone' \subseteq Jobs
    BY <1>6 DEF PatchRead, TypeOK
  <2> QED BY <1>6, <2>1, <2>2 DEF PatchRead, TypeOK
<1>7. ASSUME NEW c \in Editors, NEW s \in {"active", "disabled", "unset"}, PatchWrite(c, s)
      PROVE  TypeOK'
  <2>1. edit' \in [Editors -> Edit]
    BY <1>7, EditType DEF PatchWrite
  <2>2. [status |-> IF s = "unset" THEN edit[c].of.status ELSE s,
         failures |-> IF s = "active" THEN 0 ELSE edit[c].of.failures] \in Endpoint
    BY EndpointMade, EndpointFields
  <2>3. endpoint' \in [Endpoints -> Endpoint] /\ everOff' \subseteq Endpoints
    BY <1>7, <2>2, UpdateType DEF PatchWrite
  <2>4. streak' \in [Endpoints -> Nat]
    BY <1>7 DEF PatchWrite, TypeOK
  <2> QED BY <1>7, <2>1, <2>3, <2>4 DEF PatchWrite, TypeOK
<1>8. CASE UNCHANGED vars
  BY <1>8 DEF vars, TypeOK
<1> QED BY <1>1, <1>2, <1>3, <1>4, <1>5, <1>6, <1>7, <1>8 DEF Next

(* Every variable keeps its type, for every instance.                      *)
THEOREM TypeCorrect == Spec => []TypeOK
  BY TypeInit, TypeStep, PTL DEF Spec

-----------------------------------------------------------------------------
(* The counter                                                             *)

LEMMA InHandJobs ==
  ASSUME NEW e \in Endpoints
  PROVE  InHand(e) \subseteq Jobs /\ Editing(e) \subseteq Editors /\ \A j \in InHand(e) : TargetOf(j) = e
  BY DEF InHand, Editing

\* A job that is put somewhere, as its endpoint and any other see it.
LEMMA JobEffect ==
  ASSUME TypeOK, NEW j \in Jobs, NEW p, NEW n, NEW x, JobTo(j, p, n, x), NEW e \in Endpoints
  PROVE  /\ p \notin {"request", "good", "bad"} \/ TargetOf(j) # e => InHand(e)' = InHand(e) \ {j}
         /\ p \in {"request", "good", "bad"} /\ TargetOf(j) = e => InHand(e)' = InHand(e) \cup {j}
         /\ \A k \in Jobs \ {j} : job'[k] = job[k]
         /\ job'[j].read = x /\ job'[j].at = p
<1>1. job'[j] = [at |-> p, attempt |-> n, read |-> x] /\ \A k \in Jobs \ {j} : job'[k] = job[k]
  BY DEF JobTo, TypeOK
<1>2. InHand(e)' = {k \in Jobs : TargetOf(k) = e /\ job'[k].at \in {"request", "good", "bad"}}
  BY DEF InHand
<1> QED BY <1>1, <1>2 DEF InHand

LEMMA EditEffect ==
  ASSUME TypeOK, NEW c \in Editors, NEW p, NEW x, NEW d \in Endpoints, EditTo(c, p, x, d), NEW e \in Endpoints
  PROVE  /\ p # "write" \/ d # e => Editing(e)' = Editing(e) \ {c}
         /\ p = "write" /\ d = e => Editing(e)' = Editing(e) \cup {c}
         /\ \A b \in Editors \ {c} : edit'[b] = edit[b]
         /\ edit'[c].of = x
<1>1. edit'[c] = [at |-> p, of |-> x, id |-> d] /\ \A b \in Editors \ {c} : edit'[b] = edit[b]
  BY DEF EditTo, TypeOK
<1>2. Editing(e)' = {b \in Editors : edit'[b].at = "write" /\ edit'[b].id = e}
  BY DEF Editing
<1> QED BY <1>1, <1>2 DEF Editing

LEMMA Counters ==
  ASSUME TypeOK, NEW e \in Endpoints
  PROVE  /\ streak[e] \in Nat /\ endpoint[e].failures \in Nat
         /\ \A j \in InHand(e) : job[j].read.failures \in Nat
         /\ \A c \in Editing(e) : edit[c].of.failures \in Nat
<1>1. streak[e] \in Nat
  BY DEF TypeOK
<1> QED BY <1>1, Fields, EndpointFields, InHandJobs

\* Nobody takes a copy of e, and nobody but a delete writes its row.
LEMMA KeptAt ==
  ASSUME TypeOK, NEW e \in Endpoints, EarnedAt(e), streak'[e] = streak[e],
         InHand(e)' \subseteq InHand(e), \A j \in InHand(e)' : job'[j].read = job[j].read,
         Editing(e)' \subseteq Editing(e), \A c \in Editing(e)' : edit'[c] = edit[c],
         alone' \cap InHand(e)' \subseteq alone,
         endpoint'[e] = endpoint[e] \/ endpoint'[e].status = "deleted"
  PROVE  EarnedAt(e)'
<1>1. Stored(e)' => Stored(e) /\ endpoint'[e] = endpoint[e]
  BY DEF Stored
<1>2. endpoint'[e].status = "absent" => endpoint[e].status = "absent"
  OBVIOUS
<1>3. Stored(e)' => endpoint'[e].failures <= streak'[e]
  BY <1>1 DEF EarnedAt
<1>4. \A j \in InHand(e)' : job'[j].read.failures <= streak'[e] /\ job'[j].read.status = "active"
  BY DEF EarnedAt
<1>5. \A c \in Editing(e)' : edit'[c].of.failures <= streak'[e] /\ edit'[c].of.status # "absent"
  BY DEF EarnedAt
<1>6. ASSUME NEW j \in alone' \cap InHand(e)'
      PROVE  /\ InHand(e)' = {j} /\ Editing(e)' = {}
             /\ Stored(e)' => endpoint'[e].failures = job'[j].read.failures
  <2>1. j \in alone \cap InHand(e)
    OBVIOUS
  <2>2. InHand(e) = {j} /\ Editing(e) = {} /\ (Stored(e) => endpoint[e].failures = job[j].read.failures)
    BY <2>1 DEF EarnedAt
  <2> QED BY <1>1, <2>2
<1>7. endpoint'[e].status = "absent" => InHand(e)' = {} /\ Editing(e)' = {}
  BY <1>2 DEF EarnedAt
<1> QED BY <1>3, <1>4, <1>5, <1>6, <1>7 DEF EarnedAt

\* The row is written by one who then decides no more, and no delivery
\* that stays is alone.
LEMMA WrittenAt ==
  ASSUME TypeOK, TypeOK', NEW e \in Endpoints, EarnedAt(e), NEW x \in Endpoint, Update(e, x),
         x.status # "absent", x.failures <= streak'[e],
         streak[e] <= streak'[e] \/ (InHand(e)' = {} /\ Editing(e)' = {}),
         InHand(e)' \subseteq InHand(e), \A j \in InHand(e)' : job'[j].read = job[j].read,
         Editing(e)' \subseteq Editing(e), \A c \in Editing(e)' : edit'[c] = edit[c],
         alone' \cap InHand(e)' = {}
  PROVE  EarnedAt(e)'
<1>0. streak[e] \in Nat /\ streak'[e] \in Nat
  BY DEF TypeOK
<1>1. endpoint'[e] = IF Stored(e) THEN x ELSE endpoint[e]
  BY DEF Update, TypeOK
<1>2. Stored(e)' => endpoint'[e] = x
  BY <1>1 DEF Stored
<1>3. \A j \in InHand(e)' : job'[j].read.failures <= streak'[e] /\ job'[j].read.status = "active"
  BY <1>0, Counters DEF EarnedAt
<1>4. \A c \in Editing(e)' : edit'[c].of.failures <= streak'[e] /\ edit'[c].of.status # "absent"
  BY <1>0, Counters DEF EarnedAt
<1>5. endpoint'[e].status = "absent" => endpoint[e].status = "absent"
  BY <1>1
<1>6. endpoint'[e].status = "absent" => InHand(e)' = {} /\ Editing(e)' = {}
  BY <1>5 DEF EarnedAt
<1> QED BY <1>2, <1>3, <1>4, <1>6 DEF EarnedAt

LEMMA EarnedInit == Init => Earned
<1> SUFFICES ASSUME Init, NEW e \in Endpoints PROVE EarnedAt(e)
  BY DEF Earned
<1>1. InHand(e) = {} /\ Editing(e) = {} /\ ~Stored(e)
  BY DEF Init, InHand, Editing, Stored, NoEndpoint
<1> QED BY <1>1 DEF EarnedAt

\* A delivery's own step, at its endpoint.
LEMMA EarnedJobStep ==
  ASSUME TypeOK, TypeOK', NEW j \in Jobs, JobStep(j), EarnedAt(TargetOf(j))
  PROVE  EarnedAt(TargetOf(j))'
<1> DEFINE e == TargetOf(j)
<1>0. e \in Endpoints /\ InHand(e) \subseteq Jobs /\ Editing(e) \subseteq Editors
  BY JobParts, InHandJobs
<1>1. j \in InHand(e) <=> job[j].at \in {"request", "good", "bad"}
  BY DEF InHand
<1> HIDE DEF e
<1>2. CASE Begin(j)
  <2>1. job[j].at = "waiting" /\ UNCHANGED <<endpoint, edit, streak>>
    BY <1>2 DEF Begin
  <2>2. Editing(e)' = Editing(e) /\ (Stored(e)' <=> Stored(e))
    BY <2>1 DEF Editing, Stored
  <2>3. CASE endpoint[e].status = "active"
    <3>1. JobTo(j, "request", job[j].attempt, endpoint[e])
          /\ alone' = (alone \ Joined(e)) \cup {k \in {j} : InHand(e) = {} /\ Editing(e) = {}}
      BY <1>2, <2>3 DEF Begin, e
    <3>2. InHand(e)' = InHand(e) \cup {j} /\ job'[j].read = endpoint[e] /\ \A k \in Jobs \ {j} : job'[k] = job[k]
      BY <1>0, <3>1, JobEffect DEF e
    <3>3. \A k \in InHand(e)' : job'[k].read.failures <= streak'[e] /\ job'[k].read.status = "active"
      <4>1. endpoint[e].failures <= streak[e]
        BY <2>3 DEF EarnedAt, Stored, e
      <4>2. \A k \in InHand(e) : job[k].read.failures <= streak[e] /\ job[k].read.status = "active"
        BY DEF EarnedAt, e
      <4> QED BY <1>0, <2>1, <2>3, <3>2, <4>1, <4>2
    <3>4. \A c \in Editing(e)' : edit'[c].of.failures <= streak'[e] /\ edit'[c].of.status # "absent"
      BY <2>1, <2>2 DEF EarnedAt, e
    <3>5. ASSUME NEW k \in alone' \cap InHand(e)'
          PROVE  /\ InHand(e)' = {k} /\ Editing(e)' = {}
                 /\ Stored(e)' => endpoint'[e].failures = job'[k].read.failures
      <4>1. k \notin alone \ Joined(e)
        <5>1. TargetOf(k) = e
          BY <3>2, <1>0, InHandJobs DEF e
        <5> QED BY <5>1 DEF Joined
      <4>2. k = j /\ InHand(e) = {} /\ Editing(e) = {}
        BY <3>1, <4>1
      <4> QED BY <2>1, <2>2, <3>2, <4>2
    <3>6. endpoint'[e].status # "absent"
      BY <2>1, <2>3
    <3>7. Stored(e)' => endpoint'[e].failures <= streak'[e]
      BY <2>1, <2>2 DEF EarnedAt, e
    <3> QED BY <3>3, <3>4, <3>5, <3>6, <3>7 DEF EarnedAt, e
  <2>4. CASE endpoint[e].status # "active"
    <3>1. JobTo(j, "dropped", job[j].attempt, NoEndpoint) /\ alone' = alone
      BY <1>2, <2>4 DEF Begin, JobAt, e
    <3>2. InHand(e)' = InHand(e) \ {j} /\ \A k \in Jobs \ {j} : job'[k] = job[k]
      BY <1>0, <3>1, JobEffect
    <3> QED BY <1>0, <2>1, <2>2, <3>1, <3>2, KeptAt DEF e
  <2> QED BY <2>3, <2>4
<1>3. ASSUME NEW a \in {"good", "bad"}, Request(j, a) PROVE EarnedAt(e)'
  <2>1. job[j].at = "request" /\ UNCHANGED <<endpoint, edit, streak, alone>> /\ JobTo(j, a, job[j].attempt, job[j].read)
    BY <1>3 DEF Request
  <2>2. InHand(e)' = InHand(e) \cup {j} /\ job'[j].read = job[j].read /\ \A k \in Jobs \ {j} : job'[k] = job[k]
    BY <1>0, <2>1, JobEffect DEF e
  <2>3. InHand(e)' \subseteq InHand(e) /\ \A k \in InHand(e)' : job'[k].read = job[k].read
    BY <1>0, <1>1, <2>1, <2>2
  <2>4. Editing(e)' = Editing(e)
    BY <2>1 DEF Editing
  <2> QED BY <1>0, <2>1, <2>3, <2>4, KeptAt DEF e
<1>4. CASE Good(j)
  <2>1. job[j].at = "good" /\ UNCHANGED <<edit, alone>> /\ JobTo(j, "done", job[j].attempt, NoEndpoint)
    BY <1>4 DEF Good, JobAt
  <2>2. InHand(e)' = InHand(e) \ {j} /\ \A k \in Jobs \ {j} : job'[k] = job[k]
    BY <1>0, <2>1, JobEffect
  <2>3. Editing(e)' = Editing(e) /\ j \in InHand(e)
    BY <1>1, <2>1 DEF Editing
  <2>4. streak'[e] = (IF j \in alone THEN 0 ELSE streak[e])
    BY <1>0, <1>4 DEF Good, EndsRow, TypeOK, e
  <2>5. alone' \cap InHand(e)' = {}
    BY <2>1, <2>2, <2>3 DEF EarnedAt, e
  <2>6. j \in alone => InHand(e)' = {} /\ Editing(e)' = {}
    BY <2>2, <2>3 DEF EarnedAt, e
  <2>7. CASE job[j].read.failures # 0
    <3> DEFINE x == [endpoint[e] EXCEPT !.failures = 0]
    <3>1. x \in Endpoint /\ x.failures = 0 /\ x.status = endpoint[e].status
      <4>1. endpoint[e] \in Endpoint
        BY <1>0 DEF TypeOK
      <4> QED BY <4>1 DEF Endpoint
    <3>2. Update(e, x) /\ x.status # "absent"
      BY <1>4, <2>3, <2>7 DEF Good, Reset, EarnedAt, e
    <3> HIDE DEF x
    <3>3. x.failures <= streak'[e] /\ (streak[e] <= streak'[e] \/ (InHand(e)' = {} /\ Editing(e)' = {}))
      BY <1>0, <2>4, <2>6, <3>1, Counters
    <3> QED BY <1>0, <2>1, <2>2, <2>3, <2>5, <3>1, <3>2, <3>3, WrittenAt DEF e
  <2>8. CASE job[j].read.failures = 0
    <3>1. UNCHANGED endpoint /\ (Stored(e)' <=> Stored(e))
      BY <1>4, <2>8 DEF Good, Reset, Stored
    <3>2. CASE j \in alone
      <4>1. Stored(e) => endpoint[e].failures = 0
        BY <2>3, <2>8, <3>2 DEF EarnedAt, e
      <4>2. Stored(e)' => endpoint'[e].failures <= streak'[e]
        BY <2>4, <3>1, <3>2, <4>1
      <4> QED BY <2>6, <3>2, <4>2 DEF EarnedAt, e
    <3>3. CASE j \notin alone
      BY <1>0, <2>1, <2>2, <2>3, <2>4, <3>1, <3>3, KeptAt DEF e
    <3> QED BY <3>2, <3>3
  <2> QED BY <2>7, <2>8
<1>5. CASE Retry(j)
  <2>1. UNCHANGED <<endpoint, edit, streak, alone>> /\ JobTo(j, "waiting", job[j].attempt + 1, NoEndpoint)
    BY <1>5 DEF Retry, NextAttempt
  <2>2. InHand(e)' = InHand(e) \ {j} /\ \A k \in Jobs \ {j} : job'[k] = job[k]
    BY <1>0, <2>1, JobEffect
  <2>3. Editing(e)' = Editing(e)
    BY <2>1 DEF Editing
  <2> QED BY <1>0, <2>1, <2>2, <2>3, KeptAt DEF e
<1>6. CASE GiveUp(j)
  <2>1. job[j].at = "bad" /\ UNCHANGED <<edit, alone>> /\ JobTo(j, "done", job[j].attempt, NoEndpoint)
    BY <1>6 DEF GiveUp, JobAt
  <2>2. InHand(e)' = InHand(e) \ {j} /\ \A k \in Jobs \ {j} : job'[k] = job[k]
    BY <1>0, <2>1, JobEffect
  <2>3. Editing(e)' = Editing(e) /\ j \in InHand(e)
    BY <1>1, <2>1 DEF Editing
  <2>4. streak'[e] = streak[e] + 1
    BY <1>0, <1>6 DEF GiveUp, TypeOK, e
  <2>5. alone' \cap InHand(e)' = {}
    BY <2>1, <2>2, <2>3 DEF EarnedAt, e
  <2> DEFINE x == Failure(job[j].read)
  <2>6. x \in Endpoint /\ Update(e, x)
    BY <1>6, Fields, FailureType DEF GiveUp, e
  <2>7. job[j].read.status = "active" /\ job[j].read.failures <= streak[e]
    BY <2>3 DEF EarnedAt, e
  <2>8. x.status # "absent" /\ x.failures = job[j].read.failures + 1
    BY <2>7 DEF Failure
  <2> HIDE DEF x
  <2>9. x.failures <= streak'[e] /\ streak[e] <= streak'[e]
    BY <1>0, <2>3, <2>4, <2>7, <2>8, Counters
  <2> QED BY <1>0, <2>1, <2>2, <2>3, <2>5, <2>6, <2>8, <2>9, WrittenAt DEF e
<1>7. EarnedAt(e)'
  BY <1>2, <1>3, <1>4, <1>5, <1>6 DEF JobStep, e
<1> QED BY <1>7 DEF e

\* A step at one endpoint leaves the others alone.
LEMMA OtherJob ==
  ASSUME TypeOK, NEW j \in Jobs, JobStep(j) \/ Throws(j) \/ Stalls(j),
         NEW e \in Endpoints, EarnedAt(e), e # TargetOf(j) \/ Throws(j) \/ Stalls(j)
  PROVE  EarnedAt(e)'
<1>0. TargetOf(j) \in Endpoints /\ InHand(e) \subseteq Jobs /\ \A k \in InHand(e) : TargetOf(k) = e
  BY JobParts, InHandJobs
<1>1. PICK p, n, x : JobTo(j, p, n, x) /\ (p \notin {"request", "good", "bad"} \/ TargetOf(j) # e)
  <2>1. \E p, n, x : JobTo(j, p, n, x)
    BY DEF JobStep, Begin, Request, Good, Retry, GiveUp, Throws, Stalls, JobAt, NextAttempt
  <2>2. Throws(j) \/ Stalls(j) => \E n, x : JobTo(j, "failed", n, x) \/ JobTo(j, "waiting", n, x)
    BY DEF Throws, Stalls, JobAt, NextAttempt
  <2> QED BY <2>1, <2>2
<1>2. InHand(e)' = InHand(e) \ {j} /\ \A k \in Jobs \ {j} : job'[k] = job[k]
  BY <1>1, JobEffect
<1>3. edit' = edit /\ Editing(e)' = Editing(e)
  BY DEF JobStep, Begin, Request, Good, Retry, GiveUp, Throws, Stalls, Editing
<1>4. alone' \subseteq alone \cup {j}
  BY DEF JobStep, Begin, Request, Good, Retry, GiveUp, Throws, Stalls
<1>5. endpoint'[e] = endpoint[e] /\ streak'[e] = streak[e]
  <2>1. CASE Throws(j) \/ Stalls(j)
    BY <2>1 DEF Throws, Stalls
  <2>2. CASE Begin(j) \/ Retry(j) \/ \E a \in {"good", "bad"} : Request(j, a)
    BY <2>2 DEF Begin, Retry, Request
  <2>3. CASE Good(j) /\ e # TargetOf(j)
    BY <1>0, <2>3 DEF Good, Reset, EndsRow, Update, TypeOK
  <2>4. CASE GiveUp(j) /\ e # TargetOf(j)
    BY <1>0, <2>4 DEF GiveUp, Update, TypeOK
  <2> QED BY <2>1, <2>2, <2>3, <2>4 DEF JobStep
<1> QED BY <1>0, <1>2, <1>3, <1>4, <1>5, KeptAt

\* The routes.
LEMMA EarnedPatchWrite ==
  ASSUME TypeOK, TypeOK', NEW c \in Editors, NEW s \in {"active", "disabled", "unset"}, PatchWrite(c, s),
         NEW e \in Endpoints, EarnedAt(e)
  PROVE  EarnedAt(e)'
<1> DEFINE d == edit[c].id
           x == [status |-> IF s = "unset" THEN edit[c].of.status ELSE s,
                 failures |-> IF s = "active" THEN 0 ELSE edit[c].of.failures]
<1>0. d \in Endpoints /\ Editing(e) \subseteq Editors /\ edit[c].at = "write"
      /\ edit[c].of.failures \in Nat /\ edit[c].of.status \in {"absent", "active", "disabled", "deleted"}
  BY Fields, EndpointFields, InHandJobs DEF PatchWrite
<1>1. EditTo(c, "idle", NoEndpoint, d) /\ UNCHANGED <<job, alone>> /\ Update(d, x)
      /\ streak' = [streak EXCEPT ![d] = IF s = "active" /\ InHand(d) = {} /\ Editing(d) = {c} THEN 0 ELSE @]
  BY DEF PatchWrite
<1>2. x \in Endpoint
  BY <1>0, EndpointMade
<1>3. Editing(e)' = Editing(e) \ {c} /\ (\A b \in Editors \ {c} : edit'[b] = edit[b]) /\ InHand(e)' = InHand(e)
  BY <1>0, <1>1, EditEffect DEF InHand
<1>4. CASE e # d
  <2>1. endpoint'[e] = endpoint[e] /\ streak'[e] = streak[e]
    BY <1>0, <1>1, <1>4 DEF Update, TypeOK
  <2> QED BY <1>0, <1>1, <1>3, <2>1, KeptAt
<1>5. CASE e = d
  <2>1. c \in Editing(e)
    BY <1>0, <1>5 DEF Editing
  <2>2. edit[c].of.status # "absent" /\ edit[c].of.failures <= streak[e]
    BY <2>1 DEF EarnedAt
  <2>3. x.status # "absent" /\ x.failures = IF s = "active" THEN 0 ELSE edit[c].of.failures
    BY <2>2
  <2> HIDE DEF x, d
  <2>4. streak'[e] = IF s = "active" /\ InHand(e) = {} /\ Editing(e) = {c} THEN 0 ELSE streak[e]
    BY <1>1, <1>5 DEF TypeOK
  <2>5. x.failures <= streak'[e] /\ (streak[e] <= streak'[e] \/ (InHand(e)' = {} /\ Editing(e)' = {}))
    BY <1>0, <1>3, <2>2, <2>3, <2>4, Counters
  <2>6. alone' \cap InHand(e)' = {}
    BY <1>1, <1>3, <2>1 DEF EarnedAt
  <2> QED BY <1>0, <1>1, <1>2, <1>3, <1>5, <2>3, <2>5, <2>6, WrittenAt
<1> QED BY <1>4, <1>5

LEMMA EarnedRoute ==
  ASSUME TypeOK, NEW d \in Endpoints, Create(d) \/ Delete(d) \/ (\E c \in Editors : PatchRead(c, d)),
         NEW e \in Endpoints, EarnedAt(e)
  PROVE  EarnedAt(e)'
<1>0. InHand(e) \subseteq Jobs /\ Editing(e) \subseteq Editors /\ \A k \in InHand(e) : TargetOf(k) = e
  BY InHandJobs
<1>1. CASE Create(d)
  <2>1. UNCHANGED <<job, edit, alone, streak>> /\ InHand(e)' = InHand(e) /\ Editing(e)' = Editing(e)
    BY <1>1 DEF Create, InHand, Editing
  <2>2. CASE e # d
    <3>1. endpoint'[e] = endpoint[e]
      BY <1>1, <2>2 DEF Create, TypeOK
    <3> QED BY <2>1, <3>1, KeptAt
  <2>3. CASE e = d
    <3>1. endpoint'[e].status = "active" /\ endpoint'[e].failures = 0 /\ InHand(e) = {} /\ Editing(e) = {}
      BY <1>1, <2>3 DEF Create, TypeOK, EarnedAt
    <3>2. 0 <= streak'[e]
      BY <2>1, Counters
    <3> QED BY <2>1, <3>1, <3>2 DEF EarnedAt
  <2> QED BY <2>2, <2>3
<1>2. CASE Delete(d)
  <2>1. UNCHANGED <<job, edit, alone, streak>> /\ InHand(e)' = InHand(e) /\ Editing(e)' = Editing(e)
    BY <1>2 DEF Delete, InHand, Editing
  <2>2. endpoint'[e] = endpoint[e] \/ endpoint'[e].status = "deleted"
    BY <1>2 DEF Delete, Update, TypeOK
  <2> QED BY <2>1, <2>2, KeptAt
<1>3. ASSUME NEW c \in Editors, PatchRead(c, d) PROVE EarnedAt(e)'
  <2>1. UNCHANGED <<endpoint, job, streak>> /\ alone' = alone \ Joined(d) /\ InHand(e)' = InHand(e)
        /\ EditTo(c, "write", endpoint[d], d) /\ edit[c].at = "idle" /\ Stored(d) /\ (Stored(e)' <=> Stored(e))
    BY <1>3 DEF PatchRead, InHand, Stored
  <2>2. CASE e # d
    <3>1. Editing(e)' = Editing(e) \ {c} /\ \A b \in Editors \ {c} : edit'[b] = edit[b]
      BY <2>1, <2>2, EditEffect
    <3> QED BY <1>0, <2>1, <3>1, KeptAt
  <2>3. CASE e = d
    <3>1. Editing(e)' = Editing(e) \cup {c} /\ (\A b \in Editors \ {c} : edit'[b] = edit[b]) /\ edit'[c].of = endpoint[e]
      BY <2>1, <2>3, EditEffect
    <3>2. \A b \in Editing(e)' : edit'[b].of.failures <= streak'[e] /\ edit'[b].of.status # "absent"
      BY <1>0, <2>1, <2>3, <3>1 DEF EarnedAt, Stored
    <3>3. alone' \cap InHand(e)' = {}
      BY <1>0, <2>1, <2>3 DEF Joined
    <3>4. endpoint'[e].status # "absent" /\ endpoint'[e].failures <= streak'[e]
      BY <2>1, <2>3 DEF EarnedAt, Stored
    <3>5. \A j \in InHand(e)' : job'[j].read.failures <= streak'[e] /\ job'[j].read.status = "active"
      BY <2>1 DEF EarnedAt
    <3> QED BY <3>2, <3>3, <3>4, <3>5 DEF EarnedAt
  <2> QED BY <2>2, <2>3
<1> QED BY <1>1, <1>2, <1>3

\* Nobody decides from a count that was not earned in a row.
LEMMA EarnedStep == TypeOK /\ Earned /\ [Next]_vars => Earned'
<1> SUFFICES ASSUME TypeOK, Earned, [Next]_vars, NEW e \in Endpoints PROVE EarnedAt(e)'
  BY DEF Earned
<1>0. EarnedAt(e) /\ TypeOK' /\ InHand(e) \subseteq Jobs
  BY TypeStep, InHandJobs DEF Earned
<1>1. ASSUME UNCHANGED <<endpoint, job, edit, streak, alone>> PROVE EarnedAt(e)'
  <2>1. InHand(e)' = InHand(e) /\ Editing(e)' = Editing(e)
    BY <1>1 DEF InHand, Editing
  <2> QED BY <1>0, <1>1, <2>1, KeptAt
<1>2. ASSUME NEW v \in Events, NEW d \in Endpoints, FanAdd(v, d) PROVE EarnedAt(e)'
  <2> DEFINE k == <<v, d, fan[v].run>>
  <2>1. k \in Jobs
    BY Fields DEF Jobs
  <2>2. JobTo(k, "waiting", 1, NoEndpoint) /\ UNCHANGED <<endpoint, edit, streak, alone>>
    BY <1>2 DEF FanAdd
  <2> HIDE DEF k
  <2>3. InHand(e)' = InHand(e) \ {k} /\ \A i \in Jobs \ {k} : job'[i] = job[i]
    BY <2>1, <2>2, JobEffect
  <2>4. Editing(e)' = Editing(e)
    BY <2>2 DEF Editing
  <2> QED BY <1>0, <2>2, <2>3, <2>4, KeptAt
<1>3. ASSUME NEW j \in Jobs, JobStep(j) \/ Throws(j) \/ Stalls(j) PROVE EarnedAt(e)'
  <2>1. CASE e = TargetOf(j) /\ JobStep(j)
    BY <1>0, <2>1, EarnedJobStep
  <2>2. CASE e # TargetOf(j) \/ Throws(j) \/ Stalls(j)
    BY <1>0, <1>3, <2>2, OtherJob
  <2> QED BY <1>3, <2>1, <2>2
<1>4. ASSUME NEW d \in Endpoints, Create(d) \/ Delete(d) \/ (\E c \in Editors : PatchRead(c, d)) PROVE EarnedAt(e)'
  BY <1>0, <1>4, EarnedRoute
<1>5. ASSUME NEW c \in Editors, NEW s \in {"active", "disabled", "unset"}, PatchWrite(c, s) PROVE EarnedAt(e)'
  BY <1>0, <1>5, EarnedPatchWrite
<1>6. ASSUME NEW v \in Events, Emit(v) \/ FanRead(v) \/ FanDone(v) \/ FanThrows(v) \/ FanStalls(v)
      PROVE  UNCHANGED <<endpoint, job, edit, streak, alone>>
  BY <1>6 DEF Emit, FanRead, FanDone, FanThrows, FanStalls
<1>7. CASE UNCHANGED vars
  BY <1>1, <1>7 DEF vars
<1> QED BY <1>1, <1>2, <1>3, <1>4, <1>5, <1>6, <1>7 DEF Next

(* The one step that makes the row of failures longer.                     *)
LEMMA RaisedByGiveUp ==
  ASSUME TypeOK, Next, NEW e \in Endpoints, streak'[e] > streak[e]
  PROVE  \E j \in Jobs : GiveUp(j) /\ TargetOf(j) = e
<1>0. streak[e] \in Nat
  BY DEF TypeOK
<1>1. streak' # streak
  BY <1>0
<1>2. ASSUME NEW j \in Jobs, Good(j) PROVE FALSE
  BY <1>0, <1>2 DEF Good, EndsRow, TypeOK
<1>3. ASSUME NEW c \in Editors, NEW s, PatchWrite(c, s) PROVE FALSE
  BY <1>0, <1>3, Fields DEF PatchWrite, TypeOK
<1>4. PICK j \in Jobs : GiveUp(j)
  BY <1>1, <1>2, <1>3 DEF Next, JobStep, Emit, FanRead, FanDone, FanThrows, FanStalls, FanAdd, Begin, Request,
     Retry, Throws, Stalls, Create, Delete, PatchRead
<1>5. TargetOf(j) = e
  BY <1>0, <1>4 DEF GiveUp, TypeOK
<1> QED BY <1>4, <1>5

(* No copy of the counter that anybody decides from exceeds the failures   *)
(* in a row, so a disabling write has Threshold of them behind it.         *)
THEOREM DisablingIsEarned == Spec => DisabledAfterFailures
<1>1. TypeOK /\ Earned /\ [Next]_vars =>
        [\A e \in Endpoints :
           streak'[e] > streak[e] /\ endpoint'[e].status = "disabled" => streak'[e] >= Threshold]_vars
  <2> SUFFICES ASSUME TypeOK, Earned, Next, NEW e \in Endpoints,
                      streak'[e] > streak[e], endpoint'[e].status = "disabled"
               PROVE  streak'[e] >= Threshold
    OBVIOUS
  <2>1. PICK j \in Jobs : GiveUp(j) /\ TargetOf(j) = e
    BY RaisedByGiveUp
  <2>2. j \in InHand(e)
    BY <2>1 DEF GiveUp, InHand
  <2>3. job[j].read.status = "active" /\ job[j].read.failures <= streak[e]
    BY <2>2 DEF Earned, EarnedAt
  <2>4. endpoint[e].status # "absent"
    BY <2>2 DEF Earned, EarnedAt
  <2>5. CASE Stored(e)
    <3>1. endpoint'[e] = Failure(job[j].read)
      BY <2>1, <2>5 DEF GiveUp, Update, TypeOK
    <3>2. job[j].read.failures + 1 >= Threshold
      BY <2>3, <3>1 DEF Failure
    <3>3. job[j].read.failures \in Nat /\ streak[e] \in Nat /\ streak'[e] = streak[e] + 1
      BY <2>1, <2>2, Counters DEF GiveUp, TypeOK
    <3> QED BY <2>3, <3>2, <3>3
  <2>6. CASE ~Stored(e)
    BY <2>1, <2>6 DEF GiveUp, Update, Stored, TypeOK
  <2> QED BY <2>5, <2>6
<1> QED BY <1>1, TypeInit, TypeStep, EarnedInit, EarnedStep, PTL DEF Spec, DisabledAfterFailures

-----------------------------------------------------------------------------
(* Confirmed once, or exhausted                                            *)

NeverOff == \A e \in Endpoints \ everOff : endpoint[e].status \in {"absent", "active"}

\* What is being added, delivered or edited was created.
Created ==
  /\ \A v \in Events : \A e \in fan[v].todo : endpoint[e].status # "absent"
  /\ \A j \in Jobs : job[j].at # "none" => endpoint[TargetOf(j)].status # "absent"
  /\ \A c \in Editors : edit[c].at = "write" => edit[c].of.status \in {"active", "disabled"}

\* No later run of the event job has added the endpoint.
Unrun(v, e) == \A r \in {2, 3} : job[<<v, e, r>>].at = "none"

\* Without a fault an event job runs once and adds an endpoint once.
FirstRun == faults = 0 =>
  \A v \in Events, e \in Endpoints :
    /\ fan[v].run = 1 /\ Unrun(v, e)
    /\ fan[v].at \in {"none", "waiting"} \/ e \in fan[v].todo => job[<<v, e, 1>>].at = "none"

\* The requests made and answers heard, by the place of the delivery.
Account(now, made, answers) ==
  /\ now.at = "none" => made = 0 /\ answers = 0
  /\ now.at \in {"waiting", "request"} => made = now.attempt - 1 /\ answers = 0
  /\ now.at = "bad" => made = now.attempt /\ answers = 0
  /\ now.at = "good" => made = now.attempt /\ answers = 1
  /\ now.at = "done" => /\ made <= MaxAttempts
                        /\ answers = 1 \/ (answers = 0 /\ made = MaxAttempts)
  /\ now.at \notin {"dropped", "failed"}
Accounted(v, e) == Account(job[<<v, e, 1>>], tries[v][e], heard[v][e])

DeliveriesAccounted == faults = 0 => \A v \in Events, e \in Endpoints \ everOff : Accounted(v, e)

LEMMA JobIs ==
  ASSUME NEW j \in Jobs
  PROVE  j = <<EventOf(j), TargetOf(j), j[3]>> /\ j[3] \in {1, 2, 3}
  BY DEF Jobs, EventOf, TargetOf

LEMMA JobOf == ASSUME NEW v \in Events, NEW e \in Endpoints, NEW r \in FanRuns
               PROVE  <<v, e, r>> \in Jobs /\ EventOf(<<v, e, r>>) = v /\ TargetOf(<<v, e, r>>) = e
  BY DEF Jobs, EventOf, TargetOf

\* Who writes what: the endpoints are written by a create or an update.
LEMMA RowShape ==
  ASSUME TypeOK, Earned, Created, [Next]_vars
  PROVE  \/ UNCHANGED <<endpoint, everOff>>
         \/ \E e \in Endpoints : Create(e)
         \/ \E e \in Endpoints, x \in Endpoint : Update(e, x) /\ (Stored(e) => x.status # "absent")
<1> USE Fields, JobParts
<1>1. ASSUME NEW j \in Jobs, Good(j) PROVE UNCHANGED <<endpoint, everOff>>
        \/ \E e \in Endpoints, x \in Endpoint : Update(e, x) /\ (Stored(e) => x.status # "absent")
  <2> DEFINE z == [endpoint[TargetOf(j)] EXCEPT !.failures = 0]
  <2>1. z \in Endpoint /\ z.status = endpoint[TargetOf(j)].status
    BY DEF TypeOK, Endpoint
  <2>2. UNCHANGED <<endpoint, everOff>> \/ Update(TargetOf(j), z)
    BY <1>1 DEF Good, Reset
  <2>3. Stored(TargetOf(j)) => z.status # "absent"
    BY <2>1 DEF Stored
  <2> QED BY <2>1, <2>2, <2>3
<1>2. ASSUME NEW j \in Jobs, GiveUp(j)
      PROVE  \E e \in Endpoints, x \in Endpoint : Update(e, x) /\ (Stored(e) => x.status # "absent")
  <2>1. Update(TargetOf(j), Failure(job[j].read)) /\ Failure(job[j].read) \in Endpoint /\ job[j].read.status = "active"
    BY <1>2, FailureType DEF GiveUp, Earned, EarnedAt, InHand
  <2>2. Failure(job[j].read).status # "absent"
    BY <2>1 DEF Failure
  <2> QED BY <2>1, <2>2
<1>3. ASSUME NEW c \in Editors, NEW s \in {"active", "disabled", "unset"}, PatchWrite(c, s)
      PROVE  \E e \in Endpoints, x \in Endpoint : Update(e, x) /\ (Stored(e) => x.status # "absent")
  <2> DEFINE x == [status |-> IF s = "unset" THEN edit[c].of.status ELSE s,
                   failures |-> IF s = "active" THEN 0 ELSE edit[c].of.failures]
  <2>1. x \in Endpoint /\ x.status # "absent"
    BY <1>3, EndpointMade, EndpointFields DEF PatchWrite, Created
  <2>2. Update(edit[c].id, x) /\ edit[c].id \in Endpoints
    BY <1>3 DEF PatchWrite
  <2> QED BY <2>1, <2>2
<1>4. ASSUME NEW e \in Endpoints, Delete(e)
      PROVE  \E d \in Endpoints, x \in Endpoint : Update(d, x) /\ (Stored(d) => x.status # "absent")
  <2>1. [status |-> "deleted", failures |-> 0] \in Endpoint
    BY EndpointMade
  <2> QED BY <1>4, <2>1 DEF Delete
<1> QED BY <1>1, <1>2, <1>3, <1>4 DEF Next, vars, JobStep, Emit, FanRead, FanDone, FanThrows, FanStalls, FanAdd, Begin, Request,
           Retry, Throws, Stalls, PatchRead

\* What was active all the time is active, and what was created stays so.
LEMMA RowsKept ==
  ASSUME TypeOK, Earned, Created, NeverOff, [Next]_vars
  PROVE  /\ NeverOff' /\ everOff \subseteq everOff'
         /\ \A e \in Endpoints : endpoint[e].status # "absent" => endpoint'[e].status # "absent"
<1>1. CASE UNCHANGED <<endpoint, everOff>>
  BY <1>1 DEF NeverOff
<1>2. ASSUME NEW e \in Endpoints, Create(e)
      PROVE  /\ NeverOff' /\ everOff \subseteq everOff'
             /\ \A d \in Endpoints : endpoint[d].status # "absent" => endpoint'[d].status # "absent"
  BY <1>2 DEF Create, NeverOff, TypeOK
<1>3. ASSUME NEW e \in Endpoints, NEW x \in Endpoint, Update(e, x), Stored(e) => x.status # "absent"
      PROVE  /\ NeverOff' /\ everOff \subseteq everOff'
             /\ \A d \in Endpoints : endpoint[d].status # "absent" => endpoint'[d].status # "absent"
  <2>1. \A d \in Endpoints : endpoint'[d] = endpoint[d] \/ (d = e /\ endpoint'[d] = x /\ Stored(e))
    BY <1>3 DEF Update, TypeOK
  <2>2. everOff \subseteq everOff' /\ (e \notin everOff' => endpoint'[e].status = "active")
    BY <1>3 DEF Update
  <2> QED BY <1>3, <2>1, <2>2 DEF NeverOff
<1> QED BY <1>1, <1>2, <1>3, RowShape

LEMMA CreatedStep ==
  ASSUME TypeOK, Earned, Created, NeverOff, [Next]_vars
  PROVE  Created'
<1> USE Fields, JobParts
<1>0. \A e \in Endpoints : endpoint[e].status # "absent" => endpoint'[e].status # "absent"
  BY RowsKept
<1>1. ASSUME NEW v \in Events, NEW e \in fan'[v].todo PROVE e \in Endpoints /\ endpoint[e].status # "absent"
  <2>1. CASE fan' = fan
    BY <1>1, <2>1 DEF Created
  <2>2. ASSUME NEW w \in Events, Emit(w) \/ FanDone(w) \/ FanThrows(w) \/ FanStalls(w) \/ \E d \in Endpoints : FanAdd(w, d)
        PROVE  e \in fan[v].todo
    <3>1. PICK p, n, todo : FanTo(w, p, n, todo) /\ todo \subseteq fan[w].todo
      <4>1. CASE Emit(w) \/ FanDone(w)
        BY <4>1 DEF Emit, FanDone
      <4>2. CASE FanThrows(w) \/ FanStalls(w)
        <5>1. \E p, n : FanTo(w, p, n, {})
          BY <4>2 DEF FanThrows, FanStalls, FanAgain
        <5> QED BY <5>1
      <4>3. ASSUME NEW d \in Endpoints, FanAdd(w, d)
            PROVE  \E p, n, todo : FanTo(w, p, n, todo) /\ todo \subseteq fan[w].todo
        <5>1. FanTo(w, "adding", fan[w].run, fan[w].todo \ {d}) /\ fan[w].todo \ {d} \subseteq fan[w].todo
          BY <4>3 DEF FanAdd
        <5> QED BY <5>1
      <4> QED BY <2>2, <4>1, <4>2, <4>3
    <3>2. fan'[v].todo \subseteq fan[v].todo
      BY <3>1 DEF FanTo, TypeOK
    <3> QED BY <1>1, <3>2
  <2>3. ASSUME NEW w \in Events, FanRead(w) PROVE e \in fan[v].todo \/ (e \in Endpoints /\ endpoint[e].status = "active")
    BY <1>1, <2>3 DEF FanRead, FanTo, TypeOK
  <2>4. fan' = fan \/ \E w \in Events : Emit(w) \/ FanRead(w) \/ FanDone(w) \/ FanThrows(w) \/ FanStalls(w) \/ \E d \in Endpoints : FanAdd(w, d)
    BY DEF Next, vars, JobStep, Begin, Request, Good, Retry, GiveUp, Throws, Stalls, Create, Delete, PatchRead, PatchWrite
  <2>5. e \in fan[v].todo => e \in Endpoints /\ endpoint[e].status # "absent"
    BY DEF Created
  <2> QED BY <2>1, <2>2, <2>3, <2>4, <2>5
<1>3. ASSUME NEW j \in Jobs, job'[j].at # "none" PROVE endpoint[TargetOf(j)].status # "absent"
  <2>1. CASE job[j].at # "none"
    BY <2>1 DEF Created
  <2>2. CASE job[j].at = "none"
    <3>1. ASSUME NEW k \in Jobs, JobStep(k) \/ Throws(k) \/ Stalls(k) PROVE FALSE
      <4>1. job[k].at # "none" /\ \A i \in Jobs \ {k} : job'[i] = job[i]
        BY <3>1 DEF JobStep, Begin, Request, Good, Retry, GiveUp, Throws, Stalls, JobTo, JobAt, NextAttempt, TypeOK
      <4> QED BY <1>3, <2>2, <4>1
    <3>2. PICK v \in Events, e \in Endpoints : FanAdd(v, e)
      BY <1>3, <2>2, <3>1 DEF Next, vars, Emit, FanRead, FanDone, FanThrows, FanStalls, Create, Delete, PatchRead, PatchWrite
    <3>3. j = <<v, e, fan[v].run>> /\ e \in fan[v].todo
      BY <1>3, <2>2, <3>2 DEF FanAdd, JobTo, TypeOK
    <3> QED BY <3>3 DEF Created, TargetOf
  <2> QED BY <2>1, <2>2
<1>4. ASSUME NEW c \in Editors, edit'[c].at = "write" PROVE edit'[c].of.status \in {"active", "disabled"}
  <2>1. CASE edit' = edit
    BY <1>4, <2>1 DEF Created
  <2>2. ASSUME NEW d \in Editors, NEW e \in Endpoints, PatchRead(d, e)
        PROVE  edit'[c].of.status \in {"active", "disabled"}
    BY <1>4, <2>2 DEF PatchRead, EditTo, Stored, Created, TypeOK
  <2>3. ASSUME NEW d \in Editors, NEW s, PatchWrite(d, s) PROVE edit'[c].of.status \in {"active", "disabled"}
    BY <1>4, <2>3 DEF PatchWrite, EditTo, Created, TypeOK
  <2>4. edit' = edit \/ \E d \in Editors : (\E e \in Endpoints : PatchRead(d, e)) \/ (\E s : PatchWrite(d, s))
    BY DEF Next, vars, JobStep, Emit, FanRead, FanDone, FanThrows, FanStalls, FanAdd, Begin, Request, Good, Retry, GiveUp,
           Throws, Stalls, Create, Delete
  <2> QED BY <2>1, <2>2, <2>3, <2>4
<1> QED BY <1>0, <1>1, <1>3, <1>4 DEF Created

LEMMA FirstRunStep ==
  ASSUME TypeOK, FirstRun, [Next]_vars
  PROVE  FirstRun' /\ (faults' = 0 => faults = 0)
<1>1. faults' = faults \/ faults' = faults + 1
  BY DEF Next, vars, JobStep, Emit, FanRead, FanDone, FanThrows, FanStalls, FanAdd, Begin, Request, Good, Retry, GiveUp,
         Throws, Stalls, Create, Delete, PatchRead, PatchWrite, Fault
<1>2. faults \in Nat
  BY DEF TypeOK
<1> SUFFICES ASSUME faults' = 0, NEW v \in Events, NEW e \in Endpoints
             PROVE  /\ fan'[v].run = 1 /\ Unrun(v, e)'
                    /\ fan'[v].at \in {"none", "waiting"} \/ e \in fan'[v].todo => job'[<<v, e, 1>>].at = "none"
  BY <1>1, <1>2 DEF FirstRun
<1>3. /\ faults = 0 /\ fan[v].run = 1 /\ Unrun(v, e)
      /\ fan[v].at \in {"none", "waiting"} \/ e \in fan[v].todo => job[<<v, e, 1>>].at = "none"
  BY <1>1, <1>2 DEF FirstRun
<1>4. <<v, e, 1>> \in Jobs /\ \A r \in {2, 3} : <<v, e, r>> \in Jobs
  BY JobOf
<1>5. CASE UNCHANGED <<fan, job>>
  BY <1>3, <1>5 DEF Unrun
<1>6. ASSUME NEW w \in Events, Emit(w) \/ FanRead(w) \/ FanDone(w)
      PROVE  /\ job' = job /\ fan'[v].run = 1
             /\ fan'[v].at \in {"none", "waiting"} \/ e \in fan'[v].todo => fan[v].at \in {"none", "waiting"} \/ e \in fan[v].todo
  BY <1>3, <1>6 DEF Emit, FanRead, FanDone, FanTo, TypeOK
<1>7. ASSUME NEW w \in Events, FanThrows(w) \/ FanStalls(w) PROVE FALSE
  BY <1>1, <1>2, <1>3, <1>7 DEF FanThrows, FanStalls, Fault
<1>8. ASSUME NEW w \in Events, NEW d \in Endpoints, FanAdd(w, d)
      PROVE  /\ fan'[v].run = 1 /\ Unrun(v, e)'
             /\ fan'[v].at \in {"none", "waiting"} \/ e \in fan'[v].todo => job'[<<v, e, 1>>].at = "none"
  <2>1. fan[w].run = 1 /\ <<w, d, 1>> \in Jobs
    <3>1. fan[w].run = 1
      BY <1>3 DEF FirstRun
    <3>2. <<w, d, 1>> \in Jobs
      BY DEF Jobs
    <3> QED BY <3>1, <3>2
  <2>2. job' = [job EXCEPT ![<<w, d, 1>>] = [at |-> "waiting", attempt |-> 1, read |-> NoEndpoint]]
        /\ fan' = [fan EXCEPT ![w] = [at |-> "adding", run |-> 1, todo |-> fan[w].todo \ {d}]]
    BY <1>8, <2>1 DEF FanAdd, FanTo, JobTo
  <2>3. Unrun(v, e)' /\ fan'[v].run = 1
    BY <1>3, <1>4, <2>2 DEF Unrun, TypeOK
  <2>4. CASE v = w /\ e = d
    BY <1>3, <2>2, <2>3, <2>4 DEF TypeOK
  <2>5. CASE v # w \/ e # d
    <3>1. job'[<<v, e, 1>>] = job[<<v, e, 1>>]
      BY <1>4, <2>2, <2>5 DEF TypeOK
    <3>2. fan'[v].at \in {"none", "waiting"} \/ e \in fan'[v].todo => fan[v].at \in {"none", "waiting"} \/ e \in fan[v].todo
      BY <2>2, <2>5 DEF TypeOK
    <3> QED BY <1>3, <2>3, <3>1, <3>2
  <2> QED BY <2>4, <2>5
<1>9. ASSUME NEW j \in Jobs, JobStep(j) \/ Throws(j) \/ Stalls(j)
      PROVE  fan' = fan /\ job[j].at # "none" /\ \A k \in Jobs \ {j} : job'[k] = job[k]
  BY <1>9 DEF JobStep, Begin, Request, Good, Retry, GiveUp, Throws, Stalls, JobTo, JobAt, NextAttempt, TypeOK
<1>10. [Next]_vars => \/ UNCHANGED <<fan, job>>
                      \/ \E w \in Events : Emit(w) \/ FanRead(w) \/ FanDone(w) \/ FanThrows(w) \/ FanStalls(w)
                      \/ \E w \in Events, d \in Endpoints : FanAdd(w, d)
                      \/ \E j \in Jobs : JobStep(j) \/ Throws(j) \/ Stalls(j)
  BY DEF Next, vars, Create, Delete, PatchRead, PatchWrite
<1>11. ASSUME NEW j \in Jobs, JobStep(j) \/ Throws(j) \/ Stalls(j)
       PROVE  /\ fan'[v].run = 1 /\ Unrun(v, e)'
              /\ fan'[v].at \in {"none", "waiting"} \/ e \in fan'[v].todo => job'[<<v, e, 1>>].at = "none"
  <2>1. (\A r \in {2, 3} : j # <<v, e, r>>) /\ (job[<<v, e, 1>>].at = "none" => j # <<v, e, 1>>)
    BY <1>3, <1>9, <1>11 DEF Unrun
  <2> QED BY <1>3, <1>4, <1>9, <1>11, <2>1 DEF Unrun
<1> QED BY <1>3, <1>5, <1>6, <1>7, <1>8, <1>10, <1>11 DEF Unrun

LEMMA AccountKept ==
  ASSUME NEW v \in Events, NEW e \in Endpoints, Accounted(v, e),
         job'[<<v, e, 1>>] = job[<<v, e, 1>>],
         tries'[v][e] = tries[v][e], heard'[v][e] = heard[v][e]
  PROVE  Accounted(v, e)'
  BY DEF Accounted

\* The delivery's own steps keep its account.
LEMMA AccountJobStep ==
  ASSUME TypeOK, Created, NeverOff, NEW v \in Events, NEW e \in Endpoints \ everOff, Accounted(v, e),
         JobStep(<<v, e, 1>>)
  PROVE  Accounted(v, e)'
<1> DEFINE j == <<v, e, 1>>
<1>0. j \in Jobs /\ EventOf(j) = v /\ TargetOf(j) = e /\ e \in Endpoints
  BY DEF Jobs, EventOf, TargetOf
<1>1. /\ job[j].attempt \in 1..MaxAttempts /\ tries[v][e] \in Nat /\ heard[v][e] \in Nat
      /\ job \in [Jobs -> Job]
  BY <1>0 DEF TypeOK, Job
<1>2. job[j].at # "none" => endpoint[e].status = "active"
  BY <1>0 DEF Created, NeverOff
<1>3. Account(job[j], tries[v][e], heard[v][e])
  BY DEF Accounted
<1> HIDE DEF j
<1>4. ASSUME NEW p, NEW n, NEW x, JobTo(j, p, n, x) PROVE job'[j].at = p /\ job'[j].attempt = n
  BY <1>0, <1>1, <1>4 DEF JobTo
<1>5. SUFFICES Account(job'[j], tries'[v][e], heard'[v][e])
  BY DEF Accounted, j
<1>6. CASE Begin(j)
  <2>1. JobTo(j, "request", job[j].attempt, endpoint[e]) /\ tries' = tries /\ heard' = heard /\ job[j].at = "waiting"
    BY <1>0, <1>2, <1>6 DEF Begin
  <2> QED BY <1>3, <1>4, <2>1 DEF Account
<1>7. ASSUME NEW a \in {"good", "bad"}, Request(j, a) PROVE Account(job'[j], tries'[v][e], heard'[v][e])
  <2>1. job[j].at = "request" /\ job'[j].at = a /\ job'[j].attempt = job[j].attempt
    BY <1>4, <1>7 DEF Request
  <2>2. tries'[v][e] = tries[v][e] + 1 /\ heard'[v][e] = IF a = "good" THEN heard[v][e] + 1 ELSE heard[v][e]
    BY <1>0, <1>7 DEF Request, TypeOK
  <2> QED BY <1>1, <1>3, <2>1, <2>2 DEF Account
<1>8. CASE Good(j)
  <2>1. job[j].at = "good" /\ job'[j].at = "done" /\ tries' = tries /\ heard' = heard
    BY <1>4, <1>8 DEF Good, JobAt
  <2> QED BY <1>1, <1>3, <2>1 DEF Account
<1>9. CASE Retry(j)
  <2>1. job[j].at = "bad" /\ job'[j].at = "waiting" /\ job'[j].attempt = job[j].attempt + 1 /\ tries' = tries /\ heard' = heard
    BY <1>4, <1>9 DEF Retry, NextAttempt
  <2> QED BY <1>1, <1>3, <2>1 DEF Account
<1>10. CASE GiveUp(j)
  <2>1. job[j].at = "bad" /\ job'[j].at = "done" /\ tries' = tries /\ heard' = heard /\ job[j].attempt >= MaxAttempts
    BY <1>4, <1>10 DEF GiveUp, JobAt, IsFinal
  <2> QED BY <1>1, <1>3, <2>1 DEF Account
<1>11. JobStep(j)
  BY DEF j
<1> QED BY <1>6, <1>7, <1>8, <1>9, <1>10, <1>11 DEF JobStep

LEMMA AccountStep ==
  ASSUME TypeOK, Earned, Created, NeverOff, FirstRun, DeliveriesAccounted, [Next]_vars
  PROVE  DeliveriesAccounted'
<1> SUFFICES ASSUME faults' = 0, NEW v \in Events, NEW e \in Endpoints \ everOff' PROVE Accounted(v, e)'
  BY DEF DeliveriesAccounted
<1>1. faults = 0 /\ e \notin everOff /\ e \in Endpoints
  BY FirstRunStep, RowsKept
<1>2. Accounted(v, e)
  BY <1>1 DEF DeliveriesAccounted
<1>3. <<v, e, 1>> \in Jobs /\ Unrun(v, e) /\ faults \in Nat
  <2>1. 1 \in FanRuns
    OBVIOUS
  <2> QED BY <1>1, <2>1, JobOf DEF FirstRun, TypeOK
<1>4. CASE UNCHANGED <<job, tries, heard>>
  BY <1>1, <1>2, <1>4, AccountKept
<1>5. ASSUME NEW w \in Events, NEW d \in Endpoints, FanAdd(w, d) PROVE Accounted(v, e)'
  <2>1. fan[w].run = 1 /\ job[<<w, d, 1>>].at = "none"
    BY <1>1, <1>5 DEF FirstRun, FanAdd
  <2>2. JobTo(<<w, d, 1>>, "waiting", 1, NoEndpoint) /\ tries' = tries /\ heard' = heard
    BY <1>5, <2>1 DEF FanAdd
  <2>3. CASE w = v /\ d = e
    <3>1. job'[<<v, e, 1>>].at = "waiting" /\ job'[<<v, e, 1>>].attempt = 1
      BY <1>3, <2>2, <2>3 DEF JobTo, TypeOK
    <3>2. tries[v][e] = 0 /\ heard[v][e] = 0
      BY <1>2, <2>1, <2>3 DEF Accounted, Account
    <3> QED BY <2>2, <3>1, <3>2 DEF Accounted, Account
  <2>4. CASE w # v \/ d # e
    <3>1. job'[<<v, e, 1>>] = job[<<v, e, 1>>]
      BY <1>3, <2>2, <2>4 DEF JobTo, TypeOK
    <3> QED BY <1>1, <1>2, <2>2, <3>1, AccountKept
  <2> QED BY <2>3, <2>4
<1>6. ASSUME NEW j \in Jobs, JobStep(j) PROVE Accounted(v, e)'
  <2>1. CASE j = <<v, e, 1>>
    BY <1>1, <1>2, <1>6, <2>1, AccountJobStep
  <2>2. CASE j # <<v, e, 1>>
    <3>1. job[j].at # "none" /\ job'[<<v, e, 1>>] = job[<<v, e, 1>>]
      BY <1>3, <1>6, <2>2 DEF JobStep, Begin, Request, Good, Retry, GiveUp, JobTo, JobAt, NextAttempt, TypeOK
    <3>2. EventOf(j) # v \/ TargetOf(j) # e
      BY <1>3, <2>2, <3>1, JobIs DEF Unrun
    <3>3. (tries' = tries /\ heard' = heard) \/ \E a : Request(j, a)
      BY <1>6 DEF JobStep, Begin, Good, Retry, GiveUp
    <3>4. tries'[v][e] = tries[v][e] /\ heard'[v][e] = heard[v][e]
      BY <1>1, <3>2, <3>3, JobParts DEF Request, TypeOK
    <3> QED BY <1>1, <1>2, <3>1, <3>4, AccountKept
  <2> QED BY <2>1, <2>2
<1>7. ASSUME NEW j \in Jobs, Throws(j) \/ Stalls(j) PROVE FALSE
  BY <1>1, <1>7 DEF Throws, Stalls, Fault
<1>8. [Next]_vars => \/ UNCHANGED <<job, tries, heard>>
                     \/ \E w \in Events, d \in Endpoints : FanAdd(w, d)
                     \/ \E j \in Jobs : JobStep(j) \/ Throws(j) \/ Stalls(j)
  BY DEF Next, vars, Emit, FanRead, FanDone, FanThrows, FanStalls, Create, Delete, PatchRead, PatchWrite
<1> QED BY <1>4, <1>5, <1>6, <1>7, <1>8

ConfirmInv == TypeOK /\ Earned /\ Created /\ NeverOff /\ FirstRun /\ DeliveriesAccounted

LEMMA ConfirmInit == Init => ConfirmInv
<1> SUFFICES ASSUME Init PROVE ConfirmInv
  OBVIOUS
<1>1. TypeOK /\ Earned
  BY TypeInit, EarnedInit
<1>2. Created /\ NeverOff
  BY JobParts DEF Init, Created, NeverOff, NoEndpoint
<1>3. FirstRun /\ DeliveriesAccounted
  <2>1. \A v \in Events, e \in Endpoints : job[<<v, e, 1>>].at = "none" /\ Unrun(v, e)
    <3>1. \A v \in Events, e \in Endpoints, r \in FanRuns : job[<<v, e, r>>].at = "none"
      BY JobOf DEF Init
    <3>2. 1 \in FanRuns /\ 2 \in FanRuns /\ 3 \in FanRuns
      OBVIOUS
    <3> QED BY <3>1, <3>2 DEF Unrun
  <2> QED BY <2>1 DEF Init, FirstRun, DeliveriesAccounted, Accounted, Account
<1> QED BY <1>1, <1>2, <1>3 DEF ConfirmInv

LEMMA ConfirmStep == ConfirmInv /\ [Next]_vars => ConfirmInv'
<1> SUFFICES ASSUME ConfirmInv, [Next]_vars PROVE ConfirmInv'
  OBVIOUS
<1>1. TypeOK' /\ Earned'
  BY TypeStep, EarnedStep DEF ConfirmInv
<1>2. Created' /\ NeverOff'
  BY CreatedStep, RowsKept DEF ConfirmInv
<1>3. FirstRun' /\ DeliveriesAccounted'
  BY FirstRunStep, AccountStep DEF ConfirmInv
<1> QED BY <1>1, <1>2, <1>3 DEF ConfirmInv

(* When nothing fails inside, an event is confirmed to an endpoint that    *)
(* stays active by exactly one answer, or has used all its attempts, once  *)
(* deliver is through with it: whatever the edits and the other deliveries *)
(* wrote to the endpoint meanwhile.                                        *)
THEOREM ConfirmedOrExhausted == Spec => []ConfirmedOnceOrExhausted
<1>1. ConfirmInv => ConfirmedOnceOrExhausted
  <2> SUFFICES ASSUME ConfirmInv, NEW v \in Events, NEW e \in Endpoints,
                      faults = 0, e \notin everOff, WasAdded(v, e), Through(v, e)
               PROVE  /\ tries[v][e] <= MaxAttempts
                      /\ heard[v][e] = 1 \/ (heard[v][e] = 0 /\ tries[v][e] = MaxAttempts)
    BY DEF ConfirmedOnceOrExhausted
  <2>1. Accounted(v, e) /\ Unrun(v, e)
    BY DEF ConfirmInv, DeliveriesAccounted, FirstRun
  <2>2. job[<<v, e, 1>>].at # "none"
    BY <2>1 DEF WasAdded, Unrun
  <2>3. job[<<v, e, 1>>].at \notin {"waiting", "request", "good", "bad"}
    BY DEF Through
  <2>4. job[<<v, e, 1>>] \in Job
    BY DEF ConfirmInv, TypeOK, Jobs
  <2>5. job[<<v, e, 1>>].at = "done"
    BY <2>1, <2>2, <2>3, <2>4 DEF Accounted, Account, Job
  <2> QED BY <2>1, <2>5 DEF Accounted, Account
<1> QED BY <1>1, ConfirmInit, ConfirmStep, PTL DEF Spec
=============================================================================
