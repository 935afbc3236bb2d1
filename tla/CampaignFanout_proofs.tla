------------------------ MODULE CampaignFanout_proofs -----------------------
(***************************************************************************)
(* A cancelled campaign creates a bounded number of further messages in    *)
(* each execution, and nobody gets more messages than there were fan-outs  *)
(* and faults, for any audience, any re-read interval and any number of    *)
(* callers and workers.                                                    *)
(*                                                                         *)
(* The argument: an execution comes back to its first member only through  *)
(* the start of a job; between two re-reads it mails fewer than CheckEvery *)
(* members; and each chance to mail a member, a job that waits or an       *)
(* execution that has still to come to it, was paid for by a fan-out the   *)
(* queue took or by a fault.                                               *)
(***************************************************************************)
EXTENDS CampaignFanout, TLAPS, FiniteSetTheorems

USE SizesAssumption, BoundsAssumption, NoneAssumption

-----------------------------------------------------------------------------
(* The inductive invariant, by part                                        *)

Starting == {"idle", "load", "mark", "resolve"}

\* An execution counts its members from the first and stops at the last.
Progress ==
  \A w \in Workers :
    /\ wpc[w] \in Starting => next[w] = 1 /\ tail[w] = 0
    /\ wpc[w] \in {"mail", "check"} => next[w] <= Size

\* The next member is in the interval that begins after k re-reads.
Since(w, k) ==
  /\ k * CheckEvery < next[w] /\ next[w] <= (k + 1) * CheckEvery
  /\ wpc[w] = "mail" => tail[w] + k * CheckEvery < next[w]

\* What it has created since the campaign was cancelled fits one interval.
Window ==
  \A w \in Workers :
    /\ status # "cancelled" => tail[w] = 0
    /\ wpc[w] \in {"mail", "check"} => \E k \in Nat : Since(w, k)
    /\ tail[w] <= CheckEvery

\* The executions that have still to come to a member.
Ahead(i) == {w \in Workers : wpc[w] # "idle" /\ next[w] <= i}
Waiting == IF queued = None THEN 0 ELSE 1

\* The queue retains the id of a job that waits or is held.
Retained == ~known => queued = None /\ \A w \in Workers : ~owns[w]

\* Fan-outs and faults pay for each message and for each chance of another.
Covered ==
  \A i \in Members : mailed[i] + Cardinality(Ahead(i)) + Waiting <= Fanouts + faults

Places == {"idle", "load", "mark", "resolve", "mail", "check", "finishSent", "finishCancelled", "done"}
Rows == {"draft", "scheduled", "sending", "sent", "cancelled", "deleted"}

-----------------------------------------------------------------------------
(* Effects of the shared steps                                             *)

LEMMA SetStatusEffect ==
  ASSUME TypeOK, NEW s \in Rows, SetStatus(s)
  PROVE  /\ status' \in Rows /\ tail' \in [Workers -> Nat]
         /\ \A w \in Workers : tail'[w] \in {tail[w], 0}
         /\ status' # "cancelled" => status = "deleted" \/ \A w \in Workers : tail'[w] = 0
  BY DEF SetStatus, TypeOK, Rows

LEMMA StepEffect ==
  ASSUME TypeOK, NEW w \in Workers, NEW p \in Places, Step(w, p)
  PROVE  /\ wpc' \in [Workers -> Places] /\ wpc'[w] = p
         /\ \A v \in Workers \ {w} : wpc'[v] = wpc[v]
         /\ UNCHANGED <<wjob, owns>>
  BY DEF Step, TypeOK, Places

LEMMA RestEffect ==
  ASSUME TypeOK, NEW w \in Workers, Rest(w)
  PROVE  /\ wpc' \in [Workers -> Places] /\ wjob' \in [Workers -> Job \cup {None}]
         /\ owns' \in [Workers -> BOOLEAN] /\ next' \in [Workers -> 1..(Size + 1)]
         /\ tail' \in [Workers -> Nat]
         /\ wpc'[w] = "idle" /\ wjob'[w] = None /\ next'[w] = 1 /\ tail'[w] = 0
         /\ \A v \in Workers \ {w} :
              /\ wpc'[v] = wpc[v] /\ wjob'[v] = wjob[v]
              /\ next'[v] = next[v] /\ tail'[v] = tail[v]
  BY DEF Rest, TypeOK, Places

LEMMA RequeueType ==
  ASSUME TypeOK, NEW w \in Workers, wpc[w] # "idle"
  PROVE  /\ Requeue(w) => queued' \in Job \cup {None}
         /\ Recover(w) => queued' \in Job \cup {None}
<1>1. wjob[w] \in Job
  BY DEF TypeOK
<1>2. wjob[w].tries + 1 < Attempts => [wjob[w] EXCEPT !.tries = @ + 1] \in Job
  BY <1>1 DEF Job
<1>3. [wjob[w] EXCEPT !.stalled = TRUE] \in Job
  BY <1>1 DEF Job
<1>4. queued \in Job \cup {None}
  BY DEF TypeOK
<1> QED BY <1>2, <1>3, <1>4 DEF Requeue, Recover

-----------------------------------------------------------------------------
(* Types                                                                   *)

LEMMA TypeInit == Init => TypeOK
<1>1. Init => next \in [Workers -> 1..(Size + 1)] /\ faults \in 0..MaxFaults /\ sends \in 0..MaxSends
  BY DEF Init
<1>2. Init => wjob \in [Workers -> Job \cup {None}] /\ \A w \in Workers : wpc[w] = "idle" <=> wjob[w] = None
  BY DEF Init
<1>3. Init => mailed \in [Members -> Nat] /\ tail \in [Workers -> Nat] /\ owns \in [Workers -> BOOLEAN]
  BY DEF Init
<1>4. Init => linked \in BOOLEAN /\ known \in BOOLEAN /\ queued \in Job \cup {None}
  BY DEF Init
<1> QED BY <1>1, <1>2, <1>3, <1>4 DEF Init, TypeOK

LEMMA AfterMemberType ==
  ASSUME NEW i \in 1..Size
  PROVE  /\ AfterMember(i) \in {"finishSent", "check", "mail"}
         /\ AfterMember(i) # "finishSent" => i + 1 <= Size
         /\ AfterMember(i) = "mail" => i \notin Rereads
         /\ AfterMember(i) = "check" => i \in Rereads
  BY DEF AfterMember

LEMMA TypeStep ==
  ASSUME TypeOK, Progress, [Next]_vars
  PROVE  TypeOK'
<1>1. ASSUME \/ SendRead \/ SendEnqueue \/ SendDies \/ CancelRead
             \/ PatchRead \/ PatchWrite
      PROVE TypeOK'
  <2>1. calls' \in [CallPlaces -> Nat]
    BY <1>1 DEF SendRead, SendEnqueue, SendDies, CancelRead, PatchRead, PatchWrite, Enter, Leave, CallPlaces, TypeOK
  <2>2. /\ sends' \in 0..MaxSends /\ faults' \in 0..MaxFaults /\ linked' \in BOOLEAN
        /\ forgets' \in Nat
    BY <1>1 DEF SendRead, SendEnqueue, SendDies, CancelRead, PatchRead, PatchWrite, Fault, apiVars,
                queueVars, TypeOK
  <2>3. queued' \in Job \cup {None} /\ known' \in BOOLEAN
    <3>1. [tries |-> 0, stalled |-> FALSE] \in Job
      BY DEF Job
    <3>2. CASE SendEnqueue
      BY <3>1, <3>2 DEF SendEnqueue, TypeOK
    <3>3. CASE UNCHANGED queueVars
      BY <3>3 DEF queueVars, TypeOK
    <3> QED BY <1>1, <3>2, <3>3 DEF SendRead, SendDies, CancelRead, PatchRead, PatchWrite
  <2>4. UNCHANGED <<status, workerVars, mailed, tail>>
    BY <1>1 DEF SendRead, SendEnqueue, SendDies, CancelRead, PatchRead, PatchWrite
  <2> QED BY <2>1, <2>2, <2>3, <2>4 DEF workerVars, TypeOK
<1>2. ASSUME SendWrite \/ CancelWrite PROVE TypeOK'
  <2>1. PICK s \in Rows : SetStatus(s)
    BY <1>2 DEF SendWrite, CancelWrite, Rows
  <2>2. calls' \in [CallPlaces -> Nat]
        /\ UNCHANGED <<linked, sends, queueVars, workerVars, mailed, faults>>
    BY <1>2 DEF SendWrite, CancelWrite, Enter, Leave, CallPlaces, TypeOK
  <2>3. status' \in Rows /\ tail' \in [Workers -> Nat]
    BY <2>1, SetStatusEffect
  <2> QED BY <2>2, <2>3 DEF TypeOK, Rows, queueVars, workerVars
<1>3. CASE Delete
  <2>1. "deleted" \in Rows /\ SetStatus("deleted")
    BY <1>3 DEF Delete, Rows
  <2>2. status' \in Rows /\ tail' \in [Workers -> Nat]
    BY <2>1, SetStatusEffect
  <2> QED BY <1>3, <2>2 DEF Delete, TypeOK, Rows, apiVars, queueVars, workerVars
<1>4. CASE Unlink
  BY <1>4 DEF Unlink, TypeOK, apiVars, queueVars, workerVars
<1>15. CASE Forget
  <2>1. forgets' \in Nat /\ known' \in BOOLEAN
    <3>1. forgets' = forgets + 1 /\ known' = FALSE
      BY <1>15, Zenon DEF Forget
    <3>2. forgets \in Nat
      BY DEF TypeOK
    <3>3. forgets + 1 \in Nat
      BY <3>2
    <3> QED BY <3>1, <3>3, Zenon
  <2>2. UNCHANGED <<status, linked, apiVars, queued, workerVars, mailed, tail, faults>>
    BY <1>15 DEF Forget
  <2> QED BY <2>1, <2>2 DEF TypeOK, apiVars, workerVars
<1>5. ASSUME NEW w \in Workers, Take(w) PROVE TypeOK'
  <2>1. wjob' \in [Workers -> Job \cup {None}] /\ wjob'[w] # None /\ wpc'[w] = "load"
        /\ \A v \in Workers \ {w} : wjob'[v] = wjob[v] /\ wpc'[v] = wpc[v]
    BY <1>5 DEF Take, TypeOK
  <2>2. wpc' \in [Workers -> Places] /\ owns' \in [Workers -> BOOLEAN] /\ queued' = None
    BY <1>5 DEF Take, TypeOK, Places
  <2> QED BY <1>5, <2>1, <2>2 DEF Take, TypeOK, apiVars, Places
<1>6. ASSUME NEW w \in Workers, NEW p \in Places \ {"idle"}, Step(w, p), wpc[w] # "idle",
             status' \in Rows, tail' \in [Workers -> Nat], next' \in [Workers -> 1..(Size + 1)],
             mailed' \in [Members -> Nat], UNCHANGED <<linked, apiVars, queueVars, faults>>
      PROVE TypeOK'
  <2>1. wpc' \in [Workers -> Places] /\ UNCHANGED <<wjob, owns>>
        /\ \A v \in Workers : wpc'[v] = "idle" <=> wpc[v] = "idle"
    BY <1>6, StepEffect
  <2> QED BY <1>6, <2>1 DEF TypeOK, apiVars, queueVars, Rows, Places
<1>7. ASSUME NEW w \in Workers, Load(w) \/ Check(w) PROVE TypeOK'
  <2>1. \E p \in Places \ {"idle"} : Step(w, p)
    BY <1>7 DEF Load, Check, Places
  <2>2. wpc[w] # "idle" /\ UNCHANGED <<status, linked, apiVars, queueVars, next, mailed, tail, faults>>
    BY <1>7 DEF Load, Check
  <2>3. status' \in Rows /\ tail' \in [Workers -> Nat] /\ next' \in [Workers -> 1..(Size + 1)]
        /\ mailed' \in [Members -> Nat]
    BY <2>2 DEF TypeOK, Rows
  <2> QED BY <2>1, <2>2, <2>3, <1>6
<1>8. ASSUME NEW w \in Workers, Mark(w) \/ Finish(w) PROVE TypeOK'
  <2>1. \E p \in Places \ {"idle"} : Step(w, p)
    BY <1>8 DEF Mark, Finish, Places
  <2>2. PICK s \in Rows : SetStatus(s)
    BY <1>8 DEF Mark, Finish, Rows
  <2>3. status' \in Rows /\ tail' \in [Workers -> Nat]
    BY <2>2, SetStatusEffect
  <2>4. wpc[w] # "idle" /\ UNCHANGED <<linked, apiVars, queueVars, next, mailed, faults>>
    BY <1>8 DEF Mark, Finish
  <2>5. next' \in [Workers -> 1..(Size + 1)] /\ mailed' \in [Members -> Nat]
    BY <2>4 DEF TypeOK
  <2> QED BY <2>1, <2>3, <2>4, <2>5, <1>6
<1>9. ASSUME NEW w \in Workers, Mail(w) PROVE TypeOK'
  <2>1. next[w] \in 1..Size /\ wpc[w] # "idle"
    BY <1>9 DEF Mail, Progress, TypeOK
  <2>2. AfterMember(next[w]) \in Places \ {"idle"} /\ Step(w, AfterMember(next[w]))
    BY <1>9, <2>1, AfterMemberType DEF Mail, Places
  <2>3. mailed' \in [Members -> Nat] /\ tail' \in [Workers -> Nat]
    BY <1>9, <2>1 DEF Mail, TypeOK, Members
  <2>4. next' \in [Workers -> 1..(Size + 1)] /\ status' \in Rows
    BY <1>9, <2>1 DEF Mail, TypeOK, Rows
  <2>5. UNCHANGED <<linked, apiVars, queueVars, faults>>
    BY <1>9 DEF Mail
  <2> QED BY <2>1, <2>2, <2>3, <2>4, <2>5, <1>6
<1>10. ASSUME NEW w \in Workers, Rest(w), queued' \in Job \cup {None}, faults' \in 0..MaxFaults,
              UNCHANGED <<status, linked, apiVars, known, forgets, mailed>>
       PROVE TypeOK'
  <2>1. \A v \in Workers : wpc'[v] = "idle" <=> wjob'[v] = None
    BY <1>10, RestEffect DEF TypeOK
  <2> QED BY <1>10, <2>1, RestEffect DEF TypeOK, apiVars, Places
<1>11. ASSUME NEW w \in Workers, Resolve(w) PROVE TypeOK'
  <2>1. CASE linked
    <3>1. \E p \in Places \ {"idle"} : Step(w, p)
      BY <1>11, <2>1 DEF Resolve, Places
    <3>2. wpc[w] # "idle" /\ UNCHANGED <<status, linked, apiVars, queueVars, next, mailed, tail, faults>>
      BY <1>11, <2>1 DEF Resolve, queueVars
    <3>3. status' \in Rows /\ tail' \in [Workers -> Nat] /\ next' \in [Workers -> 1..(Size + 1)]
          /\ mailed' \in [Members -> Nat]
      BY <3>2 DEF TypeOK, Rows
    <3> QED BY <3>1, <3>2, <3>3, <1>6
  <2>2. CASE SetStatus("sent") /\ Step(w, "done") /\ UNCHANGED <<queued, next>>
    <3>1. "sent" \in Rows /\ "done" \in Places \ {"idle"}
      BY DEF Rows, Places
    <3>2. status' \in Rows /\ tail' \in [Workers -> Nat]
      BY <2>2, <3>1, SetStatusEffect
    <3>3. wpc[w] # "idle" /\ UNCHANGED <<linked, apiVars, queueVars, mailed, faults>>
      BY <1>11, <2>2 DEF Resolve, queueVars
    <3>4. next' \in [Workers -> 1..(Size + 1)] /\ mailed' \in [Members -> Nat]
      BY <2>2, <3>3 DEF TypeOK
    <3> QED BY <2>2, <3>1, <3>2, <3>3, <3>4, <1>6
  <2>3. CASE Requeue(w) /\ Rest(w) /\ UNCHANGED status
    <3>1. wpc[w] # "idle" /\ UNCHANGED <<status, linked, apiVars, known, forgets, mailed, faults>>
      BY <1>11, <2>3 DEF Resolve
    <3>2. faults' \in 0..MaxFaults
      BY <3>1 DEF TypeOK
    <3> QED BY <2>3, <3>1, <3>2, RequeueType, <1>10
  <2> QED BY <1>11, <2>1, <2>2, <2>3 DEF Resolve
<1>12. ASSUME NEW w \in Workers, Complete(w) \/ Throw(w) \/ Crash(w) PROVE TypeOK'
  <2>1. wpc[w] # "idle" /\ Rest(w) /\ UNCHANGED <<status, linked, apiVars, known, forgets, mailed>>
    BY <1>12 DEF Complete, Throw, Crash, queueVars
  <2>2. faults' \in 0..MaxFaults
    BY <1>12 DEF Complete, Throw, Crash, Fault, TypeOK
  <2>3. Requeue(w) \/ Recover(w) \/ UNCHANGED queued
    BY <1>12 DEF Complete, Throw, Crash, queueVars
  <2>4. queued' \in Job \cup {None}
    BY <2>1, <2>3, RequeueType DEF TypeOK
  <2> QED BY <2>1, <2>2, <2>4, <1>10
<1>13. ASSUME NEW w \in Workers, Stall(w) PROVE TypeOK'
  <2>1. queued' \in Job \cup {None}
    BY <1>13, RequeueType DEF Stall
  <2>2. owns' \in [Workers -> BOOLEAN] /\ faults' \in 0..MaxFaults
    BY <1>13 DEF Stall, Fault, TypeOK
  <2> QED BY <1>13, <2>1, <2>2 DEF Stall, TypeOK, apiVars
<1>14. CASE UNCHANGED vars
  BY <1>14 DEF vars, TypeOK
<1> QED BY <1>1, <1>2, <1>3, <1>4, <1>5, <1>7, <1>8, <1>9, <1>11, <1>12, <1>13, <1>14, <1>15
        DEF Next, SendStep, WorkerStep

-----------------------------------------------------------------------------
(* A cancellation bites                                                    *)

LEMMA Multiples ==
  ASSUME NEW k \in Nat
  PROVE  k * CheckEvery \in Nat /\ k * CheckEvery >= k /\ (k + 1) * CheckEvery >= k + 1
  OBVIOUS

LEMMA SinceKept ==
  ASSUME TypeOK, NEW w \in Workers, NEW k \in Nat, Since(w, k), next'[w] = next[w],
         tail'[w] \in Nat, tail'[w] <= tail[w], wpc'[w] = "mail" => wpc[w] = "mail"
  PROVE  Since(w, k)'
<1>1. k * CheckEvery \in Nat /\ (k + 1) * CheckEvery \in Nat /\ next[w] \in Nat /\ tail[w] \in Nat
  BY DEF TypeOK
<1> QED BY <1>1 DEF Since

LEMMA BiteStep ==
  ASSUME TypeOK, Progress, Window, [Next]_vars
  PROVE  Progress' /\ Window'
<1>1. CASE UNCHANGED <<status, wpc, next, tail>>
  BY <1>1 DEF Progress, Window, Since
<1>2. ASSUME NEW s \in Rows, SetStatus(s), UNCHANGED <<wpc, next>>
      PROVE Progress' /\ Window'
  <2>1. (\A v \in Workers : tail'[v] \in {tail[v], 0})
        /\ (status' # "cancelled" => status = "deleted" \/ \A w \in Workers : tail'[w] = 0)
    BY <1>2, SetStatusEffect
  <2>2. \A w \in Workers : tail'[w] \in Nat /\ tail[w] \in Nat /\ tail'[w] <= tail[w]
    BY <2>1 DEF TypeOK
  <2>3. \A w \in Workers, k \in Nat : Since(w, k) => Since(w, k)'
    BY <1>2, <2>2, SinceKept
  <2>4. Progress'
    BY <1>2, <2>1 DEF Progress
  <2> QED BY <1>2, <2>1, <2>2, <2>3, <2>4 DEF Window
<1>3. ASSUME NEW w \in Workers, Rest(w), UNCHANGED status PROVE Progress' /\ Window'
  <2>1. wpc'[w] = "idle" /\ next'[w] = 1 /\ tail'[w] = 0
        /\ \A v \in Workers \ {w} : wpc'[v] = wpc[v] /\ next'[v] = next[v] /\ tail'[v] = tail[v]
    BY <1>3, RestEffect
  <2>2. \A v \in Workers \ {w} : \A k \in Nat : Since(v, k) => Since(v, k)'
    BY <2>1 DEF Since
  <2>3. Progress'
    BY <2>1 DEF Progress
  <2> QED BY <1>3, <2>1, <2>2, <2>3 DEF Window
<1>4. ASSUME NEW w \in Workers, Take(w) PROVE Progress' /\ Window'
  <2>1. wpc[w] = "idle" /\ wpc'[w] = "load" /\ (\A v \in Workers \ {w} : wpc'[v] = wpc[v])
        /\ UNCHANGED <<status, next, tail>>
    BY <1>4 DEF Take, TypeOK
  <2> QED BY <2>1 DEF Progress, Window, Since, Starting
<1>5. ASSUME NEW w \in Workers, NEW p \in Places, Step(w, p), UNCHANGED <<status, next, tail>>,
             p \in Starting => wpc[w] \in Starting,
             p \in {"mail", "check"} =>
               tail[w] = 0 /\ next[w] <= Size /\ (next[w] = 1 \/ wpc[w] = "check")
      PROVE Progress' /\ Window'
  <2>1. wpc'[w] = p /\ \A v \in Workers \ {w} : wpc'[v] = wpc[v]
    BY <1>5, StepEffect
  <2>2. Progress'
    BY <1>5, <2>1 DEF Progress
  <2>3. ASSUME p \in {"mail", "check"} PROVE \E k \in Nat : Since(w, k)'
    <3>1. CASE next[w] = 1
      <4>1. 0 * CheckEvery = 0 /\ (0 + 1) * CheckEvery = CheckEvery
        OBVIOUS
      <4>2. next'[w] = 1 /\ tail'[w] = 0 /\ 0 \in Nat
        BY <1>5, <2>3, <3>1
      <4>3. 0 * CheckEvery < next'[w] /\ next'[w] <= (0 + 1) * CheckEvery
            /\ tail'[w] + 0 * CheckEvery < next'[w]
        BY <4>1, <4>2
      <4>4. Since(w, 0)'
        BY <4>3 DEF Since
      <4> QED BY <4>2, <4>4
    <3>2. CASE wpc[w] = "check"
      <4>1. PICK k \in Nat : Since(w, k)
        BY <3>2 DEF Window
      <4>2. k * CheckEvery \in Nat /\ next[w] \in Nat
        BY DEF TypeOK
      <4>3. next'[w] = next[w] /\ tail'[w] = 0
        BY <1>5, <2>3
      <4>4. k * CheckEvery < next[w] /\ next[w] <= (k + 1) * CheckEvery
        BY <4>1 DEF Since
      <4>5. 0 + k * CheckEvery < next[w]
        BY <4>2, <4>4
      <4>6. Since(w, k)'
        BY <4>3, <4>4, <4>5 DEF Since
      <4> QED BY <4>6
    <3> QED BY <1>5, <2>3, <3>1, <3>2
  <2>4. \A v \in Workers \ {w} : \A k \in Nat : Since(v, k) => Since(v, k)'
    BY <1>5, <2>1 DEF Since
  <2> QED BY <1>5, <2>1, <2>2, <2>3, <2>4 DEF Window
<1>6. ASSUME NEW w \in Workers, NEW p \in Places \ (Starting \cup {"mail", "check"}), NEW s \in Rows,
             Step(w, p), SetStatus(s), UNCHANGED next
      PROVE Progress' /\ Window'
  <2>1. wpc'[w] = p /\ \A v \in Workers \ {w} : wpc'[v] = wpc[v]
    BY <1>6, StepEffect
  <2>2. (\A v \in Workers : tail'[v] \in {tail[v], 0})
        /\ (status' # "cancelled" => status = "deleted" \/ \A v \in Workers : tail'[v] = 0)
    BY <1>6, SetStatusEffect
  <2>3. \A v \in Workers : tail'[v] \in Nat /\ tail[v] \in Nat /\ tail'[v] <= tail[v]
    BY <2>2 DEF TypeOK
  <2>4. \A v \in Workers \ {w} : \A k \in Nat : Since(v, k) => Since(v, k)'
    BY <1>6, <2>1, <2>3, SinceKept
  <2>5. Progress'
    BY <1>6, <2>1, <2>2 DEF Progress
  <2> QED BY <1>6, <2>1, <2>2, <2>3, <2>4, <2>5 DEF Window
<1>7. ASSUME NEW w \in Workers, Load(w) PROVE Progress' /\ Window'
  <2>1. Step(w, "mark") \/ Step(w, "done")
    BY <1>7 DEF Load
  <2>2. wpc[w] \in Starting /\ UNCHANGED <<status, next, tail>>
    BY <1>7 DEF Load, Starting
  <2> QED BY <2>1, <2>2, <1>5 DEF Starting, Places
<1>8. ASSUME NEW w \in Workers, Mark(w) PROVE Progress' /\ Window'
  <2>1. /\ wpc[w] \in Starting /\ "resolve" \in Places /\ "sending" \in Rows
        /\ Step(w, "resolve") /\ SetStatus("sending") /\ UNCHANGED next
    BY <1>8 DEF Mark, Starting, Places, Rows
  <2>2. wpc'[w] = "resolve" /\ \A v \in Workers \ {w} : wpc'[v] = wpc[v]
    BY <2>1, StepEffect
  <2>3. (\A v \in Workers : tail'[v] \in {tail[v], 0})
        /\ (status' # "cancelled" => status = "deleted" \/ \A v \in Workers : tail'[v] = 0)
    BY <2>1, SetStatusEffect
  <2>4. \A v \in Workers : tail'[v] \in Nat /\ tail[v] \in Nat /\ tail'[v] <= tail[v]
    BY <2>3 DEF TypeOK
  <2>5. \A v \in Workers \ {w} : \A k \in Nat : Since(v, k) => Since(v, k)'
    BY <2>1, <2>2, <2>4, SinceKept
  <2>6. Progress'
    BY <2>1, <2>2, <2>3, <2>4 DEF Progress, Starting
  <2> QED BY <2>1, <2>2, <2>3, <2>4, <2>5, <2>6 DEF Window
<1>9. ASSUME NEW w \in Workers, Resolve(w) PROVE Progress' /\ Window'
  <2>0. wpc[w] \in Starting
    BY <1>9 DEF Resolve, Starting
  <2>1. CASE linked
    <3>1. (Step(w, "finishSent") \/ (Size # 0 /\ Step(w, "mail"))) /\ UNCHANGED <<status, next, tail>>
      BY <1>9, <2>1 DEF Resolve
    <3>2. next[w] = 1 /\ tail[w] = 0
      BY <2>0 DEF Progress
    <3> QED BY <3>1, <3>2, <1>5 DEF Starting, Places
  <2>2. CASE SetStatus("sent") /\ Step(w, "done") /\ UNCHANGED <<queued, next>>
    BY <2>2, <1>6 DEF Starting, Places, Rows
  <2>3. CASE Requeue(w) /\ Rest(w) /\ UNCHANGED status
    BY <2>3, <1>3
  <2> QED BY <1>9, <2>1, <2>2, <2>3 DEF Resolve
<1>10. ASSUME NEW w \in Workers, Mail(w) PROVE Progress' /\ Window'
  <2> DEFINE i == next[w]
  <2>1. i \in 1..Size /\ wpc[w] = "mail" /\ tail[w] \in Nat
    BY <1>10 DEF Mail, Progress, TypeOK
  <2>2. PICK k \in Nat : Since(w, k)
    BY <2>1 DEF Window
  <2>3. wpc'[w] = AfterMember(i) /\ (\A v \in Workers \ {w} : wpc'[v] = wpc[v])
    BY <1>10 DEF Mail, Step, TypeOK
  <2>4. next'[w] = i + 1 /\ (\A v \in Workers \ {w} : next'[v] = next[v]) /\ status' = status
    BY <1>10 DEF Mail, TypeOK
  <2>5. /\ tail'[w] \in {tail[w], tail[w] + 1} /\ (status # "cancelled" => tail'[w] = tail[w])
        /\ \A v \in Workers \ {w} : tail'[v] = tail[v]
    BY <1>10 DEF Mail, TypeOK
  <2>6. /\ AfterMember(i) \in {"finishSent", "check", "mail"}
        /\ AfterMember(i) # "finishSent" => i + 1 <= Size
        /\ AfterMember(i) = "mail" => i \notin Rereads
        /\ AfterMember(i) = "check" => i \in Rereads
    BY <2>1, AfterMemberType
  <2>7. Progress'
    BY <2>3, <2>4, <2>5, <2>6 DEF Progress, Starting
  <2>8. /\ k * CheckEvery \in Nat /\ (k + 1) * CheckEvery = k * CheckEvery + CheckEvery
        /\ k * CheckEvery < i /\ i <= k * CheckEvery + CheckEvery
        /\ tail[w] + k * CheckEvery < i
    BY <2>1, <2>2 DEF Since
  <2>9. tail'[w] \in Nat /\ tail'[w] <= CheckEvery /\ tail'[w] + k * CheckEvery < i + 1
    BY <2>1, <2>5, <2>8
  <2>10. \A v \in Workers \ {w} : \A m \in Nat : Since(v, m) => Since(v, m)'
    BY <2>3, <2>4, <2>5 DEF Since
  <2>11. CASE i = k * CheckEvery + CheckEvery
    <3>1. k + 1 \in 1..Size
      <4>1. (k + 1) * CheckEvery >= k + 1
        BY Multiples
      <4> QED BY <2>1, <2>8, <2>11, <4>1
    <3>2. i \in Rereads
      BY <2>8, <2>11, <3>1 DEF Rereads
    <3>3. (k + 2) * CheckEvery = k * CheckEvery + CheckEvery + CheckEvery
      BY <2>8
    <3>4. wpc'[w] # "mail" /\ k + 1 \in Nat /\ (k + 1) + 1 = k + 2
      BY <2>3, <2>6, <3>2
    <3>5. Since(w, k + 1)'
      BY <2>1, <2>4, <2>8, <2>11, <3>3, <3>4 DEF Since
    <3> QED BY <2>3, <2>4, <2>5, <2>7, <2>9, <3>4, <3>5, <2>10 DEF Window
  <2>12. CASE i # k * CheckEvery + CheckEvery
    <3>1. Since(w, k)'
      <4>1. k * CheckEvery < i + 1 /\ i + 1 <= (k + 1) * CheckEvery
        BY <2>1, <2>8, <2>12
      <4> QED BY <2>4, <2>9, <4>1 DEF Since
    <3> QED BY <2>3, <2>4, <2>5, <2>7, <2>9, <3>1, <2>10 DEF Window
  <2> QED BY <2>11, <2>12
<1>11. ASSUME NEW w \in Workers, Check(w) PROVE Progress' /\ Window'
  <2>1. wpc[w] = "check" /\ UNCHANGED <<status, next, tail>>
        /\ (Step(w, "finishCancelled") \/ (status # "cancelled" /\ Step(w, "mail")))
    BY <1>11 DEF Check
  <2>2. next[w] <= Size /\ (status # "cancelled" => tail[w] = 0)
    BY <2>1 DEF Progress, Window
  <2> QED BY <2>1, <2>2, <1>5 DEF Starting, Places
<1>12. ASSUME NEW w \in Workers, Finish(w) PROVE Progress' /\ Window'
  <2>1. Step(w, "done") /\ UNCHANGED next /\ (SetStatus("cancelled") \/ SetStatus("sent"))
    BY <1>12 DEF Finish
  <2> QED BY <2>1, <1>6 DEF Starting, Places, Rows
<1>13. ASSUME NEW w \in Workers, Complete(w) \/ Throw(w) \/ Crash(w) PROVE Progress' /\ Window'
  BY <1>13, <1>3 DEF Complete, Throw, Crash
<1>14. ASSUME SendWrite \/ CancelWrite PROVE Progress' /\ Window'
  <2>1. \E s \in Rows : SetStatus(s)
    BY <1>14 DEF SendWrite, CancelWrite, Rows
  <2>2. UNCHANGED <<wpc, next>>
    BY <1>14 DEF SendWrite, CancelWrite, workerVars
  <2> QED BY <2>1, <2>2, <1>2
<1>15. CASE Delete
  <2>1. "deleted" \in Rows /\ SetStatus("deleted") /\ UNCHANGED <<wpc, next>>
    BY <1>15 DEF Delete, Rows, workerVars
  <2> QED BY <2>1, <1>2
<1>16. ASSUME \/ SendRead \/ SendEnqueue \/ SendDies \/ CancelRead
              \/ PatchRead \/ PatchWrite
       PROVE Progress' /\ Window'
  BY <1>16, <1>1 DEF SendRead, SendEnqueue, SendDies, CancelRead, PatchRead, PatchWrite, workerVars
<1>17. ASSUME NEW w \in Workers, Stall(w) PROVE Progress' /\ Window'
  BY <1>17, <1>1 DEF Stall
<1>18. CASE Unlink \/ Forget \/ UNCHANGED vars
  BY <1>18, <1>1 DEF Unlink, Forget, vars, workerVars
<1> QED BY <1>4, <1>7, <1>8, <1>9, <1>10, <1>11, <1>12, <1>13, <1>14, <1>15, <1>16, <1>17, <1>18
        DEF Next, SendStep, WorkerStep

-----------------------------------------------------------------------------
(* One message for each member, fan-out and fault                          *)

LEMMA AheadSize ==
  ASSUME NEW S \in SUBSET Workers
  PROVE  /\ IsFiniteSet(S) /\ Cardinality(S) \in Nat
         /\ \A T \in SUBSET S : Cardinality(T) <= Cardinality(S)
         /\ \A w \in S : Cardinality(S \ {w}) = Cardinality(S) - 1
         /\ \A w : w \notin S => Cardinality(S \cup {w}) = Cardinality(S) + 1
<1>1. IsFiniteSet(S)
  BY WorkersAssumption, FS_Subset
<1> QED BY <1>1, FS_CardinalityType, FS_Subset, FS_AddElement, FS_RemoveElement

LEMMA AddZero == \A n \in Nat : n + 0 = n /\ n + 1 \in Nat
  OBVIOUS

\* When a job that comes back has been paid for.
LEMMA Room ==
  ASSUME NEW x \in {0, 1}, NEW y \in {0, 1}, NEW f \in Nat, NEW g \in Nat, NEW h \in Nat, NEW k \in Nat,
         \/ y = x /\ h = f /\ g <= k
         \/ h = f /\ k = g + 1
         \/ x = 0 /\ h = f + 1 /\ k = g
         \/ h = f /\ y + g <= x + k
  PROVE  y + f + g <= x + h + k
  OBVIOUS

LEMMA Fanning ==
  ASSUME TypeOK
  PROVE  /\ Fanouts \in Nat /\ Waiting \in {0, 1} /\ faults \in Nat
         /\ Fanouts \in {forgets, forgets + 1}
         /\ known => Fanouts = forgets + 1
         /\ ~known => Fanouts = forgets
<1>1. forgets \in Nat /\ faults \in Nat
  BY DEF TypeOK
<1>2. forgets + 0 = forgets /\ forgets + 1 \in Nat
  BY <1>1, AddZero
<1>3. known => Fanouts = forgets + 1
  BY Zenon DEF Fanouts
<1>4. ~known => Fanouts = forgets
  BY <1>2, Zenon DEF Fanouts
<1>5. Waiting \in {0, 1}
  BY DEF Waiting
<1> QED BY <1>1, <1>2, <1>3, <1>4, <1>5, Zenon

LEMMA FanningNext ==
  ASSUME TypeOK'
  PROVE  /\ Fanouts' \in Nat /\ Waiting' \in {0, 1} /\ faults' \in Nat
         /\ Fanouts' \in {forgets', forgets' + 1}
         /\ known' => Fanouts' = forgets' + 1
         /\ ~known' => Fanouts' = forgets'
<1>1. forgets' \in Nat /\ faults' \in Nat
  BY DEF TypeOK
<1>2. forgets' + 0 = forgets' /\ forgets' + 1 \in Nat
  BY <1>1, AddZero
<1>3. known' => Fanouts' = forgets' + 1
  BY Zenon DEF Fanouts
<1>4. ~known' => Fanouts' = forgets'
  BY <1>2, Zenon DEF Fanouts
<1>5. Waiting' \in {0, 1}
  BY DEF Waiting
<1> QED BY <1>1, <1>2, <1>3, <1>4, <1>5, Zenon

LEMMA Account ==
  ASSUME NEW m \in Nat, NEW a \in Nat, NEW b \in Nat, NEW x \in Nat, NEW y \in Nat,
         NEW f \in Nat, NEW g \in Nat, NEW h \in Nat, NEW k \in Nat,
         b <= a, y + f + h <= x + g + k, m + a + x <= f + h
  PROVE  m + b + y <= g + k
  OBVIOUS

\* What a step may do to one member's account without exceeding it.
LEMMA AheadShrinks ==
  ASSUME TypeOK, Covered, NEW i \in Members, Ahead(i)' \subseteq Ahead(i),
         mailed'[i] = mailed[i], Fanouts' \in Nat, faults' \in Nat,
         Waiting' + Fanouts + faults <= Waiting + Fanouts' + faults'
  PROVE  mailed'[i] + Cardinality(Ahead(i)') + Waiting' <= Fanouts' + faults'
<1>1. /\ Cardinality(Ahead(i)') \in Nat /\ Cardinality(Ahead(i)) \in Nat
      /\ Cardinality(Ahead(i)') <= Cardinality(Ahead(i))
  <2>1. Ahead(i) \in SUBSET Workers /\ Ahead(i)' \in SUBSET Workers
    BY DEF Ahead
  <2> QED BY <2>1, AheadSize
<1>2. mailed[i] + Cardinality(Ahead(i)) + Waiting <= Fanouts + faults
  BY DEF Covered
<1>3. /\ mailed[i] \in Nat /\ Fanouts \in Nat /\ faults \in Nat
      /\ Waiting \in Nat /\ Waiting' \in Nat
  BY Fanning DEF TypeOK, Waiting
<1> QED BY <1>1, <1>2, <1>3, Account

LEMMA CoveredStep ==
  ASSUME TypeOK, Progress, Retained, Covered, TypeOK', [Next]_vars
  PROVE  Covered'
<1>0. /\ Fanouts \in Nat /\ Fanouts' \in Nat /\ faults \in Nat /\ faults' \in Nat
      /\ Waiting \in {0, 1} /\ Waiting' \in {0, 1}
  BY Fanning, FanningNext
<1>1. ASSUME UNCHANGED <<queueVars, mailed>>, faults' >= faults,
             \A v \in Workers : wpc'[v] # "idle" => wpc[v] # "idle" /\ next'[v] >= next[v]
      PROVE  Covered'
  <2>1. Fanouts' = Fanouts /\ Waiting' = Waiting
    BY <1>1 DEF queueVars, Fanouts, Waiting
  <2>2. \A v \in Workers : next[v] \in Nat /\ next'[v] \in Nat
    BY DEF TypeOK
  <2>3. \A i \in Members : Ahead(i)' \subseteq Ahead(i)
    BY <1>1, <2>2 DEF Ahead, Members
  <2>4. Waiting' + Fanouts + faults <= Waiting + Fanouts' + faults'
    BY <1>0, <1>1, <2>1, Room
  <2>5. \A i \in Members : mailed'[i] + Cardinality(Ahead(i)') + Waiting' <= Fanouts' + faults'
    BY <1>0, <1>1, <2>3, <2>4, AheadShrinks
  <2> QED BY <2>1, <2>5 DEF Covered
<1>2. ASSUME SendEnqueue PROVE Covered'
  <2>1. known' = TRUE /\ UNCHANGED <<wpc, next, mailed, faults>>
    BY <1>2 DEF SendEnqueue, workerVars
  <2>2. Waiting' + Fanouts + faults <= Waiting + Fanouts' + faults'
    <3>1. forgets' = forgets /\ forgets \in Nat /\ Fanouts' = forgets + 1
      BY <1>2, <2>1, FanningNext DEF SendEnqueue, TypeOK
    <3>2. (Fanouts = forgets + 1 /\ Waiting' = Waiting) \/ (Fanouts = forgets /\ Waiting = 0)
      <4>1. CASE known
        BY <1>2, <4>1, Fanning DEF SendEnqueue, Waiting
      <4>2. CASE ~known
        BY <4>2, Fanning DEF Retained, Waiting
      <4> QED BY <4>1, <4>2
    <3>3. (Fanouts' = Fanouts /\ Waiting' = Waiting) \/ (Fanouts' = Fanouts + 1 /\ Waiting = 0)
      BY <3>1, <3>2
    <3>4. faults' = faults /\ faults <= faults
      BY <1>0, <2>1
    <3> QED BY <1>0, <3>3, <3>4, Room
  <2>3. \A i \in Members : Ahead(i)' \subseteq Ahead(i)
    BY <2>1 DEF Ahead
  <2>4. \A i \in Members : mailed'[i] + Cardinality(Ahead(i)') + Waiting' <= Fanouts' + faults'
    BY <1>0, <2>1, <2>2, <2>3, AheadShrinks
  <2> QED BY <2>1, <2>4 DEF Covered
<1>3. CASE Forget
  <2>1. UNCHANGED <<wpc, next, mailed, faults, queued>> /\ queued = None
    BY <1>3 DEF Forget, workerVars
  <2>2. Fanouts' = Fanouts /\ Waiting' = Waiting
    BY <1>3, <2>1, Fanning, FanningNext DEF Forget, Waiting
  <2>3. \A i \in Members : Ahead(i)' \subseteq Ahead(i)
    BY <2>1 DEF Ahead
  <2>4. Waiting' + Fanouts + faults <= Waiting + Fanouts' + faults'
    BY <1>0, <2>1, <2>2, Room
  <2>5. \A i \in Members : mailed'[i] + Cardinality(Ahead(i)') + Waiting' <= Fanouts' + faults'
    BY <1>0, <2>1, <2>3, <2>4, AheadShrinks
  <2> QED BY <2>1, <2>5 DEF Covered
<1>4. ASSUME NEW w \in Workers, Take(w) PROVE Covered'
  <2>1. /\ queued # None /\ queued' = None /\ wpc[w] = "idle" /\ wpc'[w] = "load"
        /\ (\A v \in Workers \ {w} : wpc'[v] = wpc[v])
        /\ UNCHANGED <<known, forgets, next, mailed, faults>>
    BY <1>4 DEF Take, TypeOK
  <2>2. Fanouts' = Fanouts /\ Waiting = 1 /\ Waiting' = 0
    BY <2>1 DEF Fanouts, Waiting
  <2>3. ASSUME NEW i \in Members
        PROVE  mailed'[i] + Cardinality(Ahead(i)') + Waiting' <= Fanouts' + faults'
    <3>1. w \notin Ahead(i) /\ Ahead(i) \in SUBSET Workers
      BY <2>1 DEF Ahead
    <3>2. Ahead(i)' = Ahead(i) \cup {w}
      BY <2>1 DEF Ahead, Progress, Starting, Members
    <3>3. Cardinality(Ahead(i)') = Cardinality(Ahead(i)) + 1 /\ Cardinality(Ahead(i)) \in Nat
      BY <3>1, <3>2, AheadSize
    <3>4. mailed[i] \in Nat /\ mailed[i] + Cardinality(Ahead(i)) + Waiting <= Fanouts + faults
      BY DEF TypeOK, Covered
    <3> QED BY <1>0, <2>1, <2>2, <3>3, <3>4
  <2> QED BY <2>1, <2>3 DEF Covered
<1>5. ASSUME NEW w \in Workers, NEW p \in Places, Step(w, p), wpc[w] # "idle",
             UNCHANGED <<next, mailed, queueVars, faults>>
      PROVE  Covered'
  <2>1. wpc'[w] = p /\ \A v \in Workers \ {w} : wpc'[v] = wpc[v]
    BY <1>5, StepEffect
  <2>2. \A v \in Workers : next[v] \in Nat
    BY DEF TypeOK
  <2> QED BY <1>0, <1>1, <1>5, <2>1, <2>2
\* A job that goes back: an execution that has mailed nobody, or a fault.
<1>6. ASSUME NEW w \in Workers, wpc[w] # "idle", Rest(w), UNCHANGED <<known, forgets, mailed>>,
             \/ queued' = queued /\ faults' = faults
             \/ next[w] = 1 /\ faults' = faults
             \/ faults' = faults + 1
      PROVE  Covered'
  <2>1. /\ wpc'[w] = "idle" /\ next'[w] = 1
        /\ \A v \in Workers \ {w} : wpc'[v] = wpc[v] /\ next'[v] = next[v]
    BY <1>6, RestEffect
  <2>2. Fanouts' = Fanouts
    BY <1>6 DEF Fanouts
  <2>3. \A i \in Members : Ahead(i)' = Ahead(i) \ {w}
    BY <2>1 DEF Ahead
  <2>4. CASE Waiting' + faults <= Waiting + faults'
    <3>1. Waiting' + Fanouts + faults <= Waiting + Fanouts' + faults'
      BY <1>0, <2>2, <2>4, Room
    <3>2. \A i \in Members : Ahead(i)' \subseteq Ahead(i) /\ mailed'[i] = mailed[i]
      BY <1>6, <2>3
    <3>3. \A i \in Members : mailed'[i] + Cardinality(Ahead(i)') + Waiting' <= Fanouts' + faults'
      BY <1>0, <3>1, <3>2, AheadShrinks
    <3> QED BY <2>2, <3>3 DEF Covered
  <2>5. CASE next[w] = 1 /\ faults' = faults
    <3>1. ASSUME NEW i \in Members
          PROVE  mailed'[i] + Cardinality(Ahead(i)') + Waiting' <= Fanouts' + faults'
      <4>1. w \in Ahead(i) /\ Ahead(i) \in SUBSET Workers
        BY <1>6, <2>5 DEF Ahead, Members
      <4>2. Cardinality(Ahead(i)') = Cardinality(Ahead(i)) - 1 /\ Cardinality(Ahead(i)) \in Nat
        BY <2>3, <4>1, AheadSize
      <4>3. mailed[i] \in Nat /\ mailed[i] + Cardinality(Ahead(i)) + Waiting <= Fanouts + faults
        BY DEF TypeOK, Covered
      <4> QED BY <1>0, <1>6, <2>2, <2>5, <4>2, <4>3
    <3> QED BY <2>2, <3>1 DEF Covered
  <2>6. queued' = queued => Waiting' = Waiting
    BY DEF Waiting
  <2> QED BY <1>0, <1>6, <2>4, <2>5, <2>6
<1>7. ASSUME NEW w \in Workers, Load(w) \/ Mark(w) \/ Check(w) \/ Finish(w) PROVE Covered'
  <2>1. /\ wpc[w] # "idle" /\ UNCHANGED <<next, mailed, queueVars, faults>>
        /\ \E p \in Places : Step(w, p)
    BY <1>7 DEF Load, Mark, Check, Finish, Places
  <2> QED BY <2>1, <1>5
<1>8. ASSUME NEW w \in Workers, Resolve(w) PROVE Covered'
  <2>1. wpc[w] = "resolve" /\ next[w] = 1 /\ UNCHANGED <<known, forgets, mailed, faults>>
    BY <1>8 DEF Resolve, Progress, Starting
  <2>2. CASE \E p \in Places : Step(w, p) /\ UNCHANGED <<queued, next>>
    <3>1. UNCHANGED <<next, mailed, queueVars, faults>>
      BY <2>1, <2>2 DEF queueVars
    <3> QED BY <2>1, <2>2, <3>1, <1>5
  <2>3. CASE Rest(w)
    BY <2>1, <2>3, <1>6
  <2>4. "mail" \in Places /\ "finishSent" \in Places /\ "done" \in Places
    BY DEF Places
  <2> QED BY <1>8, <2>2, <2>3, <2>4 DEF Resolve
<1>9. ASSUME NEW w \in Workers, Mail(w) PROVE Covered'
  <2>0. wpc[w] = "mail" /\ next[w] \in Members
    BY <1>9 DEF Mail, Progress, TypeOK, Members
  <2> PICK i \in Members : i = next[w]
    BY <2>0
  <2>1. wpc[w] = "mail" /\ i \in Members /\ i = next[w]
    BY <2>0
  <2>2. /\ wpc'[w] # "idle" /\ (\A v \in Workers \ {w} : wpc'[v] = wpc[v])
        /\ next'[w] = i + 1 /\ (\A v \in Workers \ {w} : next'[v] = next[v])
    <3>1. AfterMember(i) # "idle"
      BY <2>1, AfterMemberType DEF Members
    <3> QED BY <1>9, <2>1, <3>1 DEF Mail, Step, TypeOK
  <2>3. /\ mailed'[i] \in {mailed[i], mailed[i] + 1}
        /\ (\A j \in Members \ {i} : mailed'[j] = mailed[j]) /\ UNCHANGED <<queueVars, faults>>
    BY <1>9, <2>1 DEF Mail, TypeOK
  <2>4. Fanouts' = Fanouts /\ Waiting' = Waiting
    BY <2>3 DEF queueVars, Fanouts, Waiting
  <2>5. Ahead(i)' = Ahead(i) \ {w} /\ w \in Ahead(i) /\ Ahead(i) \in SUBSET Workers
    <3>1. w \in Ahead(i) /\ i \in Nat
      BY <2>1 DEF Ahead, Members
    <3>2. w \notin Ahead(i)'
      BY <2>2, <3>1 DEF Ahead
    <3>3. \A v \in Workers \ {w} : v \in Ahead(i)' <=> v \in Ahead(i)
      BY <2>2 DEF Ahead
    <3>4. Ahead(i) \in SUBSET Workers /\ Ahead(i)' \in SUBSET Workers
      BY DEF Ahead
    <3> QED BY <3>1, <3>2, <3>3, <3>4
  <2>6. Cardinality(Ahead(i)') = Cardinality(Ahead(i)) - 1 /\ Cardinality(Ahead(i)) \in Nat
    BY <2>5, AheadSize
  <2>7. mailed[i] \in Nat /\ mailed[i] + Cardinality(Ahead(i)) + Waiting <= Fanouts + faults
    BY <2>1 DEF TypeOK, Covered
  <2>8. mailed'[i] + Cardinality(Ahead(i)') + Waiting' <= Fanouts' + faults'
    BY <1>0, <2>3, <2>4, <2>6, <2>7
  <2>9. ASSUME NEW j \in Members \ {i}
        PROVE  mailed'[j] + Cardinality(Ahead(j)') + Waiting' <= Fanouts' + faults'
    <3>1. Ahead(j)' \subseteq Ahead(j)
      BY <2>1, <2>2 DEF Ahead, Members
    <3>2. Waiting' + Fanouts + faults <= Waiting + Fanouts' + faults'
      BY <1>0, <2>3, <2>4
    <3> QED BY <1>0, <2>3, <3>1, <3>2, AheadShrinks
  <2> QED BY <2>8, <2>9 DEF Covered
<1>10. ASSUME NEW w \in Workers, Complete(w) \/ Throw(w) \/ Crash(w) PROVE Covered'
  <2>1. wpc[w] # "idle" /\ Rest(w) /\ UNCHANGED <<known, forgets, mailed>>
    BY <1>10 DEF Complete, Throw, Crash, queueVars
  <2>2. (queued' = queued /\ faults' = faults) \/ faults' = faults + 1
    BY <1>10 DEF Complete, Throw, Crash, Fault, queueVars
  <2> QED BY <2>1, <2>2, <1>6
<1>11. ASSUME NEW w \in Workers, Stall(w) PROVE Covered'
  <2>1. UNCHANGED <<wpc, next, known, forgets, mailed>> /\ faults' = faults + 1
    BY <1>11 DEF Stall, Fault
  <2>2. Fanouts' = Fanouts
    BY <2>1 DEF Fanouts
  <2>3. Waiting' + Fanouts + faults <= Waiting + Fanouts' + faults'
    BY <1>0, <2>1, <2>2, Room
  <2>4. \A i \in Members : Ahead(i)' \subseteq Ahead(i) /\ mailed'[i] = mailed[i]
    BY <2>1 DEF Ahead
  <2> QED BY <1>0, <2>3, <2>4, AheadShrinks DEF Covered
<1>12. ASSUME \/ SendRead \/ SendWrite \/ SendDies \/ CancelRead \/ CancelWrite
              \/ PatchRead \/ PatchWrite
       PROVE Covered'
  <2>1. UNCHANGED <<queueVars, wpc, next, mailed>> /\ faults' >= faults
    BY <1>0, <1>12 DEF SendRead, SendWrite, SendDies, Fault, CancelRead, CancelWrite, PatchRead, PatchWrite,
                      workerVars
  <2>2. \A v \in Workers : next[v] \in Nat
    BY DEF TypeOK
  <2> QED BY <2>1, <2>2, <1>1
<1>13. CASE Delete \/ Unlink \/ UNCHANGED vars
  <2>1. UNCHANGED <<queueVars, wpc, next, mailed, faults>>
    BY <1>13 DEF Delete, Unlink, vars, workerVars, queueVars
  <2>2. \A v \in Workers : next[v] \in Nat
    BY DEF TypeOK
  <2> QED BY <1>0, <2>1, <2>2, <1>1
<1> QED BY <1>2, <1>3, <1>4, <1>7, <1>8, <1>9, <1>10, <1>11, <1>12, <1>13 DEF Next, SendStep, WorkerStep

LEMMA RetainedStep ==
  ASSUME TypeOK, Retained, [Next]_vars
  PROVE  Retained'
<1>1. ASSUME UNCHANGED <<queueVars, owns>> PROVE Retained'
  BY <1>1 DEF Retained, queueVars
<1>2. ASSUME SendEnqueue PROVE Retained'
  BY <1>2 DEF SendEnqueue, Retained
<1>3. CASE Forget
  BY <1>3 DEF Forget, Retained, workerVars
<1>4. ASSUME NEW w \in Workers, Take(w) PROVE Retained'
  BY <1>4 DEF Take, Retained
<1>5. ASSUME NEW w \in Workers, UNCHANGED known, Requeue(w) \/ Recover(w) \/ queued' = queued,
             \A v \in Workers : owns'[v] => owns[v]
      PROVE  Retained'
  BY <1>5 DEF Requeue, Recover, Retained
<1>6. ASSUME NEW w \in Workers, Rest(w) \/ Stall(w) PROVE \A v \in Workers : owns'[v] => owns[v]
  BY <1>6 DEF Rest, Stall, TypeOK
<1>7. ASSUME NEW w \in Workers, Resolve(w) PROVE Retained'
  <2>1. CASE Rest(w) /\ Requeue(w)
    BY <1>5, <1>6, <1>7, <2>1 DEF Resolve
  <2>2. CASE UNCHANGED <<queued, owns>>
    BY <1>1, <1>7, <2>2 DEF Resolve, queueVars
  <2> QED BY <1>7, <2>1, <2>2 DEF Resolve, Step
<1>8. ASSUME NEW w \in Workers, Complete(w) \/ Throw(w) \/ Stall(w) \/ Crash(w) PROVE Retained'
  <2>1. UNCHANGED known /\ (Requeue(w) \/ Recover(w) \/ queued' = queued) /\ (Rest(w) \/ Stall(w))
    BY <1>8 DEF Complete, Throw, Stall, Crash, queueVars
  <2> QED BY <2>1, <1>5, <1>6
<1>9. ASSUME NEW w \in Workers, Load(w) \/ Mark(w) \/ Mail(w) \/ Check(w) \/ Finish(w) PROVE Retained'
  BY <1>1, <1>9 DEF Load, Mark, Mail, Check, Finish, Step
<1>10. ASSUME \/ SendRead \/ SendWrite \/ SendDies \/ CancelRead \/ CancelWrite
              \/ PatchRead \/ PatchWrite
       PROVE Retained'
  BY <1>1, <1>10 DEF SendRead, SendWrite, SendDies, CancelRead, CancelWrite, PatchRead, PatchWrite, workerVars
<1>11. CASE Delete \/ Unlink \/ UNCHANGED vars
  BY <1>1, <1>11 DEF Delete, Unlink, vars, workerVars, queueVars
<1> QED BY <1>2, <1>3, <1>4, <1>7, <1>8, <1>9, <1>10, <1>11 DEF Next, SendStep, WorkerStep

-----------------------------------------------------------------------------
(* The theorems                                                            *)

LEMMA InvInit == Init => Progress /\ Window /\ Retained /\ Covered
<1>1. Init => Progress /\ Window /\ Retained
  BY DEF Init, Progress, Window, Retained, Starting
<1>2. Init => \A i \in Members : Ahead(i) = {}
  BY DEF Init, Ahead
<1>3. Init => Waiting = 0 /\ Fanouts = 0 /\ faults = 0 /\ \A i \in Members : mailed[i] = 0
  BY DEF Init, Waiting, Fanouts
<1>4. Init => Covered
  BY <1>2, <1>3, FS_EmptySet DEF Covered
<1> QED BY <1>1, <1>4

THEOREM Inductive == Spec => [](TypeOK /\ Progress /\ Window /\ Retained /\ Covered)
<1>1. Init => TypeOK /\ Progress /\ Window /\ Retained /\ Covered
  BY TypeInit, InvInit
<1>2. TypeOK /\ Progress /\ Window /\ Retained /\ Covered /\ [Next]_vars
        => (TypeOK /\ Progress /\ Window /\ Retained /\ Covered)'
  BY TypeStep, BiteStep, RetainedStep, CoveredStep
<1> QED BY <1>1, <1>2, PTL DEF Spec

(* Every variable keeps its type, in particular no execution runs past the *)
(* end of its audience.                                                    *)
THEOREM TypeCorrect == Spec => []TypeOK
  BY Inductive, PTL

(* After a cancellation an execution of processCampaignSend creates at     *)
(* most CAMPAIGN_CANCEL_CHECK_EVERY messages, with any faults and any      *)
(* number of concurrent executions.                                        *)
THEOREM CancellationBites == Spec => []CancelBites
<1>1. Window => CancelBites
  BY DEF Window, CancelBites
<1> QED BY <1>1, Inductive, PTL

(* Each member gets at most one message for each fan-out the queue took    *)
(* and one more for each fault, however many calls send and cancel the     *)
(* campaign at once: while the queue retains its id there is one job, and  *)
(* only a fault makes an execution start again or gives it a rival.        *)
THEOREM NobodyTwice == Spec => []OnePerFanout
<1>1. TypeOK /\ Covered => OnePerFanout
  <2> SUFFICES ASSUME TypeOK, Covered, NEW i \in Members PROVE mailed[i] <= Fanouts + faults
    BY DEF OnePerFanout
  <2>1. Ahead(i) \in SUBSET Workers
    BY DEF Ahead
  <2>2. Cardinality(Ahead(i)) \in Nat
    BY <2>1, AheadSize
  <2>3. mailed[i] \in Nat /\ Fanouts \in Nat /\ faults \in Nat /\ Waiting \in Nat
    BY DEF TypeOK, Fanouts, Waiting
  <2>4. mailed[i] + Cardinality(Ahead(i)) + Waiting <= Fanouts + faults
    BY DEF Covered
  <2> QED BY <2>2, <2>3, <2>4
<1> QED BY <1>1, Inductive, PTL
=============================================================================
