----------------------- MODULE ProviderFeedback_proofs ----------------------
(***************************************************************************)
(* A notification is applied at most once, and a bad outcome is lost only  *)
(* to a fault of its own, for any messages, notifications and handlers and *)
(* any number of faults.                                                   *)
(*                                                                         *)
(* The argument: past the de-duplication a handler is the only one with    *)
(* its notification, which is in seen and not yet applied; nobody takes a  *)
(* notification that is in seen.  So what is lost is what one of them held *)
(* when it failed: every other way out of the handler leads through the    *)
(* suppression, or through a message nobody knows yet.                     *)
(***************************************************************************)
EXTENDS ProviderFeedback, FiniteSetTheorems, TLAPS

USE NotesAssumption, BoundsAssumption, NoneAssumption DEF history

-----------------------------------------------------------------------------
(* The inductive invariant, by part                                        *)

Working(h) == hpc[h] \notin {"idle", "dedup"}

Posted == \A h \in Handlers : hpc[h] # "idle" => note[h] \in emitted
Sole == \A g, h \in Handlers : Working(g) /\ Working(h) /\ note[g] = note[h] => g = h
HeldUnapplied == \A h \in Handlers : Working(h) => note[h] \in seen /\ applied[note[h]] = 0
AppliedWasSeen == \A n \in Notes : applied[n] <= 1 /\ (n \notin seen => applied[n] = 0)
AuditsPublished ==
  \A m \in Messages, e \in Events :
    audits[m][e] > 0 => \E n \in seen : MsgOf[n] = m /\ Event[KindOf[n]] = e
WritesOutcome == \A h \in Handlers : hpc[h] = "write" => Kind(h) \in {"delivery", "bounce", "complaint"}

OnceInv == Posted /\ Sole /\ HeldUnapplied /\ AppliedWasSeen /\ AuditsPublished /\ WritesOutcome

\* Only deliveries and opens are checked against the audit trail, and a bad
\* outcome reaches its audit entry through the suppression.
ChecksGood == \A h \in Handlers : hpc[h] = "check" => Kind(h) \notin Bad
AuditsSuppressed ==
  \A h \in Handlers : hpc[h] = "audit" /\ Kind(h) \in Bad => suppressed[About(h)]
LossInv == ChecksGood /\ AuditsSuppressed /\ LossesAreFaults

-----------------------------------------------------------------------------
(* Effects of the shared steps                                             *)

LEMMA EventType ==
  ASSUME NEW k \in Kinds
  PROVE  Event[k] \in Events /\ (k # "open" => Event[k] \in Statuses)
  BY DEF Event, Events, Kinds, Statuses

LEMMA NoteType ==
  ASSUME TypeOK, NEW h \in Handlers, hpc[h] # "idle"
  PROVE  note[h] \in Notes /\ About(h) \in Messages /\ Kind(h) \in Kinds /\ About(h) = MsgOf[note[h]]
         /\ Kind(h) = KindOf[note[h]]
  BY DEF TypeOK, About, Kind

LEMMA GotoEffect ==
  ASSUME TypeOK, NEW h \in Handlers, NEW p \in Places, Goto(h, p)
  PROVE  /\ hpc' \in [Handlers -> Places] /\ hpc'[h] = p
         /\ \A g \in Handlers \ {h} : hpc'[g] = hpc[g]
         /\ UNCHANGED <<note, read, inflight>>
  BY DEF Goto, TypeOK

LEMMA LeaveEffect ==
  ASSUME TypeOK, NEW h \in Handlers, Leave(h)
  PROVE  /\ hpc' \in [Handlers -> Places] /\ note' \in [Handlers -> Notes \cup {None}]
         /\ read' \in [Handlers -> Statuses]
         /\ hpc'[h] = "idle" /\ note'[h] = None
         /\ \A g \in Handlers \ {h} : hpc'[g] = hpc[g] /\ note'[g] = note[g] /\ read'[g] = read[g]
  BY DEF Leave, TypeOK, Places, Statuses

-----------------------------------------------------------------------------
(* Types                                                                   *)

LEMMA TypeInit == Init => TypeOK
<1>1. Init => /\ status \in [Messages -> Statuses] /\ read \in [Handlers -> Statuses]
              /\ pmid \in [Messages -> BOOLEAN] /\ suppressed \in [Messages -> BOOLEAN]
  BY DEF Init, Statuses
<1>2. Init => audits \in [Messages -> [Events -> Nat]] /\ applied \in [Notes -> Nat]
  BY DEF Init
<1>3. Init => hpc \in [Handlers -> Places] /\ note \in [Handlers -> Notes \cup {None}]
  BY DEF Init, Places
<1> QED BY <1>1, <1>2, <1>3 DEF Init, TypeOK

LEMMA TypeStep ==
  ASSUME TypeOK, Posted, WritesOutcome, [Next]_vars
  PROVE  TypeOK'
<1>1. ASSUME NEW m \in Messages, SendStep(m) \/ SendThrows(m) PROVE TypeOK'
  <2>1. send' \in [Messages -> {"submit", "record", "audit", "catch", "done"}]
    BY <1>1 DEF SendStep, Submit, RecordSent, AuditSent, Catch, SendThrows, SendAt, TypeOK
  <2>2. status' \in [Messages -> Statuses] /\ pmid' \in [Messages -> BOOLEAN]
    BY <1>1 DEF SendStep, Submit, RecordSent, AuditSent, Catch, SendThrows, SetStatus, Statuses, TypeOK
  <2>3. faults' \in 0..MaxFaults
    BY <1>1 DEF SendStep, Submit, RecordSent, AuditSent, Catch, SendThrows, Fault, TypeOK
  <2>4. UNCHANGED <<suppressed, audits, snsVars, seen, handlerVars, history>>
    BY <1>1 DEF SendStep, Submit, RecordSent, AuditSent, Catch, SendThrows
  <2> QED BY <2>1, <2>2, <2>3, <2>4 DEF TypeOK, snsVars, handlerVars
<1>2. ASSUME NEW n \in Notes, Emit(n) PROVE TypeOK'
  BY <1>2 DEF Emit, TypeOK, rowVars, handlerVars
<1>3. ASSUME NEW h \in Handlers, NEW n \in Notes, Receive(h, n) PROVE TypeOK'
  <2>1. hpc' \in [Handlers -> Places] /\ note' \in [Handlers -> Notes \cup {None}]
    BY <1>3 DEF Receive, TypeOK, Places
  <2>2. \A g \in Handlers : hpc'[g] = "idle" <=> note'[g] = None
    BY <1>3 DEF Receive, TypeOK
  <2> QED BY <1>3, <2>1, <2>2 DEF Receive, TypeOK, rowVars, snsVars
<1>4. ASSUME NEW h \in Handlers, hpc[h] # "idle",
             \/ \E p \in Places \ {"idle"} : Goto(h, p)
             \/ Answer200(h)
      PROVE /\ hpc' \in [Handlers -> Places] /\ note' \in [Handlers -> Notes \cup {None}]
            /\ read' \in [Handlers -> Statuses] /\ inflight' \subseteq inflight
            /\ \A g \in Handlers : hpc'[g] = "idle" <=> note'[g] = None
  <2>1. CASE \E p \in Places \ {"idle"} : Goto(h, p)
    BY <1>4, <2>1, GotoEffect DEF TypeOK
  <2>2. CASE Leave(h) /\ inflight' = inflight \ {note[h]}
    BY <2>2, LeaveEffect DEF TypeOK
  <2> QED BY <1>4, <2>1, <2>2 DEF Answer200
<1>5. ASSUME NEW h \in Handlers, Dedup(h) \/ Check(h) PROVE TypeOK'
  <2>1. hpc[h] # "idle" /\ (Answer200(h) \/ \E p \in Places \ {"idle"} : Goto(h, p))
    BY <1>5 DEF Dedup, Check, Places
  <2>2. seen' \subseteq emitted
    BY <1>5 DEF Dedup, Check, Posted, TypeOK
  <2>3. UNCHANGED <<rowVars, suppressed, audits, emitted, history, faults>>
    BY <1>5 DEF Dedup, Check
  <2>4. inflight' \subseteq emitted'
    BY <1>4, <2>1, <2>3 DEF TypeOK
  <2> QED BY <2>1, <2>2, <2>3, <2>4, <1>4 DEF TypeOK, rowVars
<1>6. ASSUME NEW h \in Handlers, Read(h) PROVE TypeOK'
  <2>1. hpc[h] # "idle" /\ UNCHANGED <<rowVars, suppressed, audits, seen, emitted, applied, faults>>
    BY <1>6 DEF Read
  <2>4. missed' \subseteq emitted'
    BY <1>6, <2>1 DEF Read, Posted, TypeOK
  <2>2. CASE Answer200(h)
    BY <2>1, <2>2, <2>4, <1>4 DEF TypeOK, rowVars
  <2>3. CASE UNCHANGED <<note, inflight>> /\ ~Answer200(h)
    <3>1. read' \in [Handlers -> Statuses]
      <4>1. read' = [read EXCEPT ![h] = status[About(h)]]
        BY <1>6, <2>3 DEF Read
      <4>2. status[About(h)] \in Statuses
        BY <2>1, NoteType DEF TypeOK
      <4> QED BY <4>1, <4>2 DEF TypeOK
    <3>2. \E p \in {"check", "write", "audit"} : hpc' = [hpc EXCEPT ![h] = p]
      BY <1>6, <2>1, <2>3, NoteType DEF Read, Kinds
    <3>3. hpc' \in [Handlers -> Places] /\ \A g \in Handlers : hpc'[g] = "idle" <=> hpc[g] = "idle"
      BY <2>1, <3>2 DEF TypeOK, Places
    <3> QED BY <2>1, <2>3, <2>4, <3>1, <3>3 DEF TypeOK, rowVars
  <2> QED BY <1>6, <2>2, <2>3 DEF Read
<1>7. ASSUME NEW h \in Handlers, Write(h) PROVE TypeOK'
  <2>1. hpc[h] # "idle" /\ (\E p \in Places \ {"idle"} : Goto(h, p))
        /\ UNCHANGED <<pmid, send, suppressed, audits, seen, emitted, history, faults>>
    BY <1>7 DEF Write, Places
  <2>2. status' \in [Messages -> Statuses]
    <3>1. CASE UNCHANGED status
      BY <3>1 DEF TypeOK
    <3>2. CASE SetStatus(About(h), Event[Kind(h)]) /\ Kind(h) # "open"
      BY <2>1, <3>2, NoteType, EventType DEF SetStatus, TypeOK
    <3>3. Kind(h) # "open"
      BY <1>7 DEF Write, WritesOutcome
    <3> QED BY <1>7, <3>1, <3>2, <3>3 DEF Write
  <2> QED BY <2>1, <2>2, <1>4 DEF TypeOK
<1>8. ASSUME NEW h \in Handlers, Suppress(h) PROVE TypeOK'
  <2>1. hpc[h] # "idle" /\ (\E p \in Places \ {"idle"} : Goto(h, p))
        /\ UNCHANGED <<rowVars, audits, seen, emitted, history, faults>>
    BY <1>8 DEF Suppress, Places
  <2>2. suppressed' \in [Messages -> BOOLEAN]
    BY <1>8 DEF Suppress, TypeOK
  <2> QED BY <2>1, <2>2, <1>4 DEF TypeOK, rowVars
<1>9. ASSUME NEW h \in Handlers, WriteAudit(h) PROVE TypeOK'
  <2>1. hpc[h] # "idle" /\ Answer200(h)
        /\ UNCHANGED <<rowVars, suppressed, seen, emitted, missed, faults>>
    BY <1>9 DEF WriteAudit
  <2>2. applied' \in [Notes -> Nat] /\ audits' \in [Messages -> [Events -> Nat]]
    <3>1. applied' \in [Notes -> Nat]
      BY <1>9, <2>1, NoteType DEF WriteAudit, TypeOK
    <3>2. PICK m \in Messages, e \in Events : audits' = [audits EXCEPT ![m][e] = @ + 1]
      BY <1>9, <2>1, NoteType, EventType DEF WriteAudit
    <3>3. audits' \in [Messages -> [Events -> Nat]]
      BY <3>2 DEF TypeOK
    <3> QED BY <3>1, <3>3
  <2> QED BY <2>1, <2>2, <1>4 DEF TypeOK, rowVars
<1>10. ASSUME NEW h \in Handlers, HandlerFails(h) PROVE TypeOK'
  <2>1. \A g \in Handlers : hpc'[g] = "idle" <=> note'[g] = None
    BY <1>10, LeaveEffect DEF HandlerFails, TypeOK
  <2>2. faults' \in 0..MaxFaults
    BY <1>10 DEF HandlerFails, Fault, TypeOK
  <2> QED BY <1>10, <2>1, <2>2, LeaveEffect DEF HandlerFails, TypeOK, rowVars, snsVars
<1>11. CASE UNCHANGED vars
  BY <1>11 DEF vars, TypeOK
<1> QED BY <1>1, <1>2, <1>3, <1>5, <1>6, <1>7, <1>8, <1>9, <1>10, <1>11 DEF Next, HandlerStep

-----------------------------------------------------------------------------
(* At most once                                                            *)

LEMMA OnceStep ==
  ASSUME TypeOK, OnceInv, [Next]_vars
  PROVE  OnceInv'
<1> USE DEF OnceInv, Working
<1>1. CASE UNCHANGED <<hpc, note, seen, applied, audits>> /\ emitted \subseteq emitted'
  BY <1>1 DEF Posted, Sole, HeldUnapplied, AppliedWasSeen, AuditsPublished, WritesOutcome, Kind
<1>2. ASSUME NEW h \in Handlers, hpc'[h] \in {"idle", "dedup"}, note'[h] \in emitted \/ hpc'[h] = "idle",
             \A g \in Handlers \ {h} : hpc'[g] = hpc[g] /\ note'[g] = note[g],
             UNCHANGED <<seen, applied, audits, emitted>>
      PROVE OnceInv'
  <2>1. \A g \in Handlers : Working(g)' => Working(g) /\ note'[g] = note[g] /\ hpc'[g] = hpc[g]
    BY <1>2
  <2>2. Posted' /\ WritesOutcome'
    BY <1>2 DEF Posted, WritesOutcome, Kind
  <2>3. Sole' /\ HeldUnapplied'
    BY <1>2, <2>1 DEF Sole, HeldUnapplied
  <2>4. AppliedWasSeen' /\ AuditsPublished'
    BY <1>2 DEF AppliedWasSeen, AuditsPublished
  <2> QED BY <2>2, <2>3, <2>4
<1>3. ASSUME NEW h \in Handlers, Working(h), hpc'[h] # "idle",
             hpc'[h] = "write" => Kind(h) \in {"delivery", "bounce", "complaint"},
             \A g \in Handlers \ {h} : hpc'[g] = hpc[g],
             UNCHANGED <<note, seen, applied, audits, emitted>>
      PROVE OnceInv'
  <2>1. \A g \in Handlers : Working(g)' => Working(g)
    BY <1>3
  <2>2. Posted' /\ WritesOutcome'
    BY <1>3 DEF Posted, WritesOutcome, Kind
  <2>3. Sole' /\ HeldUnapplied' /\ AppliedWasSeen' /\ AuditsPublished'
    BY <1>3, <2>1 DEF Sole, HeldUnapplied, AppliedWasSeen, AuditsPublished
  <2> QED BY <2>2, <2>3
<1>4. ASSUME NEW m \in Messages, SendStep(m) \/ SendThrows(m) PROVE OnceInv'
  BY <1>1, <1>4 DEF SendStep, Submit, RecordSent, AuditSent, Catch, SendThrows, snsVars, handlerVars
<1>5. ASSUME NEW n \in Notes, Emit(n) PROVE OnceInv'
  BY <1>1, <1>5 DEF Emit, handlerVars
<1>6. ASSUME NEW h \in Handlers, NEW n \in Notes, Receive(h, n) PROVE OnceInv'
  <2>1. hpc'[h] = "dedup" /\ note'[h] \in emitted
        /\ (\A g \in Handlers \ {h} : hpc'[g] = hpc[g] /\ note'[g] = note[g])
        /\ UNCHANGED <<seen, applied, audits, emitted>>
    BY <1>6 DEF Receive, TypeOK, snsVars
  <2> QED BY <2>1, <1>2
<1>7. ASSUME NEW h \in Handlers, Leave(h), UNCHANGED <<seen, applied, audits, emitted>> PROVE OnceInv'
  BY <1>7, <1>2, LeaveEffect
<1>8. ASSUME NEW h \in Handlers, Dedup(h) PROVE OnceInv'
  <2>1. hpc[h] = "dedup" /\ note[h] \in Notes /\ note[h] \in emitted
        /\ UNCHANGED <<applied, audits, emitted>> /\ seen' = seen \cup {note[h]}
    BY <1>8, NoteType DEF Dedup, Posted
  <2>2. CASE note[h] \in seen
    <3>1. Leave(h) /\ seen' = seen
      BY <1>8, <2>1, <2>2 DEF Dedup, Answer200
    <3> QED BY <2>1, <3>1, <1>7
  <2>3. CASE note[h] \notin seen
    <3>1. hpc'[h] = "read" /\ (\A g \in Handlers \ {h} : hpc'[g] = hpc[g]) /\ note' = note
      BY <1>8, <2>3, GotoEffect DEF Dedup, Places
    <3>2. \A g \in Handlers \ {h} : Working(g) => note[g] # note[h]
      BY <2>3 DEF HeldUnapplied
    <3>3. Posted' /\ WritesOutcome'
      BY <2>1, <3>1 DEF Posted, WritesOutcome, Kind
    <3>4. Sole'
      BY <3>1, <3>2 DEF Sole
    <3>5. HeldUnapplied'
      BY <2>1, <2>3, <3>1 DEF HeldUnapplied, AppliedWasSeen
    <3>6. AppliedWasSeen' /\ AuditsPublished'
      BY <2>1 DEF AppliedWasSeen, AuditsPublished
    <3> QED BY <3>3, <3>4, <3>5, <3>6
  <2> QED BY <2>2, <2>3
<1>9. ASSUME NEW h \in Handlers, Read(h) PROVE OnceInv'
  <2>1. hpc[h] = "read" /\ Kind(h) \in Kinds /\ UNCHANGED <<seen, applied, audits, emitted>>
    BY <1>9, NoteType DEF Read
  <2>2. CASE Answer200(h)
    BY <2>1, <2>2, <1>7 DEF Answer200
  <2>3. CASE ~Answer200(h)
    <3>1. note' = note /\ \E p \in {"check", "write", "audit"} :
            hpc' = [hpc EXCEPT ![h] = p] /\ (p = "write" => Kind(h) \in {"delivery", "bounce", "complaint"})
      BY <1>9, <2>1, <2>3 DEF Read, Kinds
    <3>2. hpc'[h] \in {"check", "write", "audit"} /\ (\A g \in Handlers \ {h} : hpc'[g] = hpc[g])
          /\ (hpc'[h] = "write" => Kind(h) \in {"delivery", "bounce", "complaint"})
      BY <3>1 DEF TypeOK
    <3> QED BY <2>1, <3>1, <3>2, <1>3
  <2> QED BY <2>2, <2>3
<1>10. ASSUME NEW h \in Handlers, Check(h) PROVE OnceInv'
  <2>1. hpc[h] = "check" /\ UNCHANGED <<seen, applied, audits, emitted>>
    BY <1>10 DEF Check
  <2>2. CASE Answer200(h)
    BY <2>1, <2>2, <1>7 DEF Answer200
  <2>3. CASE \E p \in {"write", "audit"} : Goto(h, p) /\ (p = "write" => Kind(h) = "delivery")
    <3>1. hpc'[h] \in {"write", "audit"} /\ (\A g \in Handlers \ {h} : hpc'[g] = hpc[g]) /\ note' = note
          /\ (hpc'[h] = "write" => Kind(h) = "delivery")
      BY <2>3, GotoEffect DEF Places
    <3> QED BY <2>1, <3>1, <1>3
  <2> QED BY <1>10, <2>2, <2>3 DEF Check
<1>11. ASSUME NEW h \in Handlers, Write(h) \/ Suppress(h) PROVE OnceInv'
  <2>1. Working(h) /\ UNCHANGED <<seen, applied, audits, emitted>>
        /\ \E p \in {"audit", "suppress"} : Goto(h, p)
    BY <1>11 DEF Write, Suppress
  <2>2. hpc'[h] \in {"audit", "suppress"} /\ (\A g \in Handlers \ {h} : hpc'[g] = hpc[g]) /\ note' = note
    BY <2>1, GotoEffect DEF Places
  <2> QED BY <2>1, <2>2, <1>3
<1>12. ASSUME NEW h \in Handlers, WriteAudit(h) PROVE OnceInv'
  <2> DEFINE n == note[h]
  <2>1. hpc[h] = "audit" /\ n \in Notes /\ About(h) = MsgOf[n] /\ Kind(h) = KindOf[n]
        /\ Leave(h) /\ UNCHANGED <<seen, emitted>>
    BY <1>12, NoteType DEF WriteAudit, Answer200
  <2>2. n \in seen /\ applied[n] = 0
    BY <2>1 DEF HeldUnapplied
  <2>3. applied'[n] = 1 /\ \A k \in Notes \ {n} : applied'[k] = applied[k]
    BY <1>12, <2>1, <2>2 DEF WriteAudit, TypeOK
  <2>4. hpc'[h] = "idle" /\ \A g \in Handlers \ {h} : hpc'[g] = hpc[g] /\ note'[g] = note[g]
    BY <2>1, LeaveEffect
  <2>5. \A g \in Handlers \ {h} : Working(g) => note[g] # n /\ note[g] \in Notes
    BY <2>1, NoteType DEF Sole
  <2>6. Posted' /\ Sole' /\ WritesOutcome'
    BY <2>1, <2>4 DEF Posted, Sole, WritesOutcome, Kind
  <2>7. HeldUnapplied' /\ AppliedWasSeen'
    BY <2>1, <2>2, <2>3, <2>4, <2>5 DEF HeldUnapplied, AppliedWasSeen
  <2>8. AuditsPublished'
    <3>1. About(h) \in Messages /\ Event[Kind(h)] \in Events
      BY <2>1, NoteType, EventType
    <3>2. \A m \in Messages, e \in Events :
            audits'[m][e] > 0 => audits[m][e] > 0 \/ (m = MsgOf[n] /\ e = Event[KindOf[n]])
      BY <1>12, <2>1, <3>1 DEF WriteAudit, TypeOK
    <3> QED BY <2>1, <2>2, <3>2 DEF AuditsPublished
  <2> QED BY <2>6, <2>7, <2>8
<1>13. ASSUME NEW h \in Handlers, HandlerFails(h) PROVE OnceInv'
  BY <1>13, <1>7 DEF HandlerFails, snsVars
<1>14. CASE UNCHANGED vars
  BY <1>1, <1>14 DEF vars
<1> QED BY <1>4, <1>5, <1>6, <1>8, <1>9, <1>10, <1>11, <1>12, <1>13, <1>14 DEF Next, HandlerStep

-----------------------------------------------------------------------------
(* What is lost                                                            *)

\* A step that loses nothing, and one that loses at most what h held.
LosesNothing == \A n \in Notes : Lost(n)' => Lost(n)
LosesOnly(h) == \A n \in Notes : Lost(n)' => Lost(n) \/ n = note[h]

LEMMA LossCount ==
  ASSUME TypeOK, LossesAreFaults, faults' \in Nat,
         \/ LosesNothing /\ faults' >= faults
         \/ \E h \in Handlers : note[h] \in Notes /\ LosesOnly(h) /\ faults' = faults + 1
  PROVE  LossesAreFaults'
<1> DEFINE Now == {n \in Notes : Lost(n)}
           Then == {n \in Notes : Lost(n)'}
<1>1. IsFiniteSet(Now) /\ IsFiniteSet(Then) BY FS_Subset
<1>2. Cardinality(Now) \in Nat /\ Cardinality(Then) \in Nat BY <1>1, FS_CardinalityType
<1>3. faults \in Nat BY DEF TypeOK
<1>4. Cardinality(Now) <= faults BY DEF LossesAreFaults
<1>5. Cardinality(Then) <= faults'
  <2>1. CASE LosesNothing /\ faults' >= faults
    <3>1. Then \subseteq Now BY <2>1 DEF LosesNothing
    <3>2. Cardinality(Then) <= Cardinality(Now) BY <3>1, <1>1, FS_Subset
    <3> HIDE DEF Now, Then
    <3> QED BY <3>2, <1>2, <1>3, <1>4, <2>1
  <2>2. ASSUME NEW h \in Handlers, note[h] \in Notes, LosesOnly(h), faults' = faults + 1
        PROVE  Cardinality(Then) <= faults'
    <3>1. Then \subseteq Now \cup {note[h]} BY <2>2 DEF LosesOnly
    <3>2. IsFiniteSet(Now \cup {note[h]})
          /\ Cardinality(Now \cup {note[h]}) <= Cardinality(Now) + 1
          /\ Cardinality(Now \cup {note[h]}) \in Nat
      <4> HIDE DEF Now
      <4>1. IsFiniteSet(Now \cup {note[h]})
            /\ Cardinality(Now \cup {note[h]})
                 = IF note[h] \in Now THEN Cardinality(Now) ELSE Cardinality(Now) + 1
        BY <1>1, FS_AddElement
      <4> QED BY <4>1, <1>2
    <3>3. Cardinality(Then) <= Cardinality(Now \cup {note[h]}) BY <3>1, <3>2, FS_Subset
    <3> HIDE DEF Now, Then
    <3> QED BY <3>2, <3>3, <1>2, <1>3, <1>4, <2>2
  <2> QED BY <2>1, <2>2
<1>6. LossesAreFaults' <=> Cardinality(Then) <= faults' BY DEF LossesAreFaults
<1> QED BY <1>5, <1>6

(* A handler that does not fail takes no bad outcome away unsuppressed.    *)
LEMMA HandlerLoses ==
  ASSUME TypeOK, OnceInv, LossInv, NEW h \in Handlers, HandlerStep(h)
  PROVE  LosesNothing /\ UNCHANGED faults
<1>0. hpc[h] # "idle" /\ note[h] \in Notes /\ About(h) = MsgOf[note[h]] /\ Kind(h) = KindOf[note[h]]
  BY NoteType DEF HandlerStep, Dedup, Read, Check, Write, Suppress, WriteAudit
<1>1. /\ seen \subseteq seen' /\ missed \subseteq missed' /\ UNCHANGED faults
      /\ \A m \in Messages : suppressed[m] => suppressed'[m]
      /\ \A g \in Handlers \ {h} : hpc'[g] = hpc[g] /\ note'[g] = note[g]
  <2>1. CASE Dedup(h)
    BY <2>1, GotoEffect, LeaveEffect DEF Dedup, Answer200, Places
  <2>2. CASE Read(h)
    BY <2>2, LeaveEffect DEF Read, Answer200, TypeOK
  <2>3. CASE Check(h)
    BY <2>3, GotoEffect, LeaveEffect DEF Check, Answer200, Places
  <2>4. CASE Write(h) BY <2>4, GotoEffect DEF Write, Places
  <2>5. CASE Suppress(h) BY <2>5, GotoEffect DEF Suppress, Places, TypeOK
  <2>6. CASE WriteAudit(h) BY <2>6, LeaveEffect DEF WriteAudit, Answer200
  <2> QED BY <2>1, <2>2, <2>3, <2>4, <2>5, <2>6 DEF HandlerStep
<1>2. \/ note' = note /\ hpc'[h] \in {"read", "write", "suppress", "audit"} /\ seen' \subseteq seen \cup {note[h]}
      \/ note' = note /\ Kind(h) \notin Bad /\ seen' = seen
      \/ /\ seen' = seen
         /\ \/ hpc[h] = "dedup" \/ note[h] \in missed' \/ Kind(h) \notin Bad
            \/ suppressed[About(h)]
  <2>1. CASE Dedup(h)
    BY <2>1, <1>0, GotoEffect DEF Dedup, Places
  <2>2. CASE Read(h)
    <3>1. CASE pmid[About(h)]
      <4>1. note' = note /\ seen' = seen
            /\ \E p \in {"check", "write", "audit"} :
                 hpc' = [hpc EXCEPT ![h] = p] /\ (p = "check" => Kind(h) \notin Bad)
        BY <2>2, <3>1, <1>0, NoteType DEF Read, Bad, Kinds
      <4> QED BY <4>1 DEF TypeOK
    <3>2. CASE ~pmid[About(h)] BY <2>2, <3>2 DEF Read
    <3> QED BY <3>1, <3>2
  <2>3. CASE Check(h) BY <2>3 DEF Check, LossInv, ChecksGood
  <2>4. CASE Write(h) BY <2>4, GotoEffect DEF Write, Places
  <2>5. CASE Suppress(h) BY <2>5, GotoEffect DEF Suppress, Places
  <2>6. CASE WriteAudit(h) BY <2>6 DEF WriteAudit, LossInv, AuditsSuppressed
  <2> QED BY <2>1, <2>2, <2>3, <2>4, <2>5, <2>6 DEF HandlerStep
<1>3. ASSUME NEW n \in Notes, Lost(n)' PROVE Lost(n)
  <2>1. /\ n \in seen' \ missed' /\ KindOf[n] \in Bad /\ ~suppressed'[MsgOf[n]] /\ ~InHand(n)'
    BY <1>3 DEF Lost
  <2>2. MsgOf[n] \in Messages /\ ~suppressed[MsgOf[n]] /\ n \notin missed BY <2>1, <1>1
  <2>3. n # note[h] \/ (seen' = seen /\ hpc[h] = "dedup")
    BY <2>1, <2>2, <1>0, <1>2 DEF InHand
  <2>4. n \in seen BY <2>1, <2>3, <1>2
  <2>5. ~InHand(n)
    <3> SUFFICES ASSUME NEW g \in Handlers, note[g] = n,
                        hpc[g] \in {"read", "write", "suppress", "audit"}
                 PROVE  FALSE
      BY DEF InHand
    <3>1. g # h BY <2>3
    <3> QED BY <3>1, <1>1, <2>1 DEF InHand
  <2> QED BY <2>1, <2>2, <2>4, <2>5 DEF Lost
<1> QED BY <1>1, <1>3 DEF LosesNothing

(* The notes that decide who holds and who is suppressed stay as they are. *)
LEMMA StillLost ==
  ASSUME TypeOK, UNCHANGED <<suppressed, seen, missed>>,
         \A n \in Notes : InHand(n) => InHand(n)'
  PROVE  LosesNothing
  BY DEF Lost, LosesNothing

LEMMA PlacesStep ==
  ASSUME TypeOK, OnceInv, LossInv, [Next]_vars
  PROVE  ChecksGood' /\ AuditsSuppressed'
<1> USE DEF LossInv, ChecksGood, AuditsSuppressed
<1>0. \A g \in Handlers : hpc[g] # "idle" => About(g) \in Messages BY NoteType
(* One handler moves; what the others rely on stays.                       *)
<1>1. ASSUME NEW h \in Handlers,
             \A g \in Handlers \ {h} : hpc'[g] = hpc[g] /\ note'[g] = note[g],
             \A m \in Messages : suppressed[m] => suppressed'[m],
             hpc'[h] = "check" => Kind(h)' \notin Bad,
             hpc'[h] = "audit" /\ Kind(h)' \in Bad => suppressed'[About(h)']
      PROVE  ChecksGood' /\ AuditsSuppressed'
  BY <1>0, <1>1 DEF Kind, About
<1>2. CASE UNCHANGED <<hpc, note, suppressed>> BY <1>2 DEF Kind, About
<1>3. ASSUME NEW m \in Messages, SendStep(m) \/ SendThrows(m)
      PROVE  UNCHANGED <<hpc, note, suppressed>>
  BY <1>3 DEF SendStep, Submit, RecordSent, AuditSent, Catch, SendThrows, handlerVars
<1>4. ASSUME NEW n \in Notes, Emit(n) PROVE UNCHANGED <<hpc, note, suppressed>>
  BY <1>4 DEF Emit, handlerVars
<1>5. ASSUME NEW h \in Handlers, NEW n \in Notes, Receive(h, n)
      PROVE  ChecksGood' /\ AuditsSuppressed'
  <2>1. /\ hpc'[h] = "dedup" /\ UNCHANGED suppressed
        /\ \A g \in Handlers \ {h} : hpc'[g] = hpc[g] /\ note'[g] = note[g]
    BY <1>5 DEF Receive, TypeOK
  <2> QED BY <2>1, <1>1
<1>6. ASSUME NEW h \in Handlers, HandlerFails(h) PROVE ChecksGood' /\ AuditsSuppressed'
  <2>1. /\ hpc'[h] = "idle" /\ UNCHANGED suppressed
        /\ \A g \in Handlers \ {h} : hpc'[g] = hpc[g] /\ note'[g] = note[g]
    BY <1>6, LeaveEffect DEF HandlerFails
  <2> QED BY <2>1, <1>1
<1>7. ASSUME NEW h \in Handlers, HandlerStep(h) PROVE ChecksGood' /\ AuditsSuppressed'
  <2>0. hpc[h] # "idle" /\ Kind(h) \in Kinds /\ About(h) \in Messages
    BY <1>7, NoteType DEF HandlerStep, Dedup, Read, Check, Write, Suppress, WriteAudit
  <2>1. ASSUME Leave(h), UNCHANGED suppressed PROVE ChecksGood' /\ AuditsSuppressed'
    <3>1. hpc'[h] = "idle" /\ \A g \in Handlers \ {h} : hpc'[g] = hpc[g] /\ note'[g] = note[g]
      BY <2>1, LeaveEffect
    <3> QED BY <3>1, <2>1, <1>1
  <2>2. ASSUME NEW p \in Places, Goto(h, p), \A m \in Messages : suppressed[m] => suppressed'[m],
               p # "check", p = "audit" /\ Kind(h) \in Bad => suppressed'[About(h)]
        PROVE  ChecksGood' /\ AuditsSuppressed'
    <3>1. hpc'[h] = p /\ note' = note /\ \A g \in Handlers \ {h} : hpc'[g] = hpc[g]
      BY <2>2, GotoEffect
    <3> QED BY <3>1, <2>2, <1>1 DEF Kind, About
  <2>3. CASE Dedup(h) BY <2>1, <2>2, <2>3 DEF Dedup, Answer200, Places
  <2>4. CASE Read(h)
    <3>1. CASE ~pmid[About(h)] BY <2>1, <2>4, <3>1 DEF Read, Answer200
    <3>2. CASE pmid[About(h)]
      <4>1. /\ UNCHANGED <<note, suppressed>>
            /\ \E p \in {"check", "write", "audit"} :
                 /\ hpc' = [hpc EXCEPT ![h] = p]
                 /\ p = "check" => Kind(h) \notin Bad
                 /\ p = "audit" => Kind(h) \notin Bad
        BY <2>4, <3>2, <2>0 DEF Read, Kinds, Bad
      <4>2. /\ \A g \in Handlers \ {h} : hpc'[g] = hpc[g]
            /\ hpc'[h] \in {"check", "audit"} => Kind(h) \notin Bad
        BY <4>1 DEF TypeOK
      <4> QED BY <4>1, <4>2, <1>1 DEF Kind, About
    <3> QED BY <3>1, <3>2
  <2>5. CASE Check(h)
    <3>1. Kind(h) \notin Bad BY <2>5 DEF Check
    <3> QED BY <2>1, <2>2, <2>5, <3>1 DEF Check, Answer200, Places
  <2>6. CASE Write(h)
    BY <2>2, <2>6 DEF Write, Places, Bad
  <2>7. CASE Suppress(h)
    <3>1. suppressed'[About(h)] /\ \A m \in Messages : suppressed[m] => suppressed'[m]
      BY <2>0, <2>7 DEF Suppress, TypeOK
    <3> QED BY <2>2, <2>7, <3>1 DEF Suppress, Places
  <2>8. CASE WriteAudit(h) BY <2>1, <2>8 DEF WriteAudit, Answer200
  <2> QED BY <1>7, <2>3, <2>4, <2>5, <2>6, <2>7, <2>8 DEF HandlerStep
<1> QED BY <1>2, <1>3, <1>4, <1>5, <1>6, <1>7 DEF Next, vars

LEMMA LossStep ==
  ASSUME TypeOK, OnceInv, LossInv, [Next]_vars, TypeOK'
  PROVE  LossInv'
<1>0. faults \in Nat /\ faults' \in Nat /\ LossesAreFaults BY DEF TypeOK, LossInv
<1>1. ASSUME NEW m \in Messages, SendStep(m) \/ SendThrows(m) PROVE LossesAreFaults'
  <2>1. /\ UNCHANGED <<suppressed, seen, missed, hpc, note>>
        /\ faults' \in {faults, faults + 1}
    BY <1>1 DEF SendStep, Submit, RecordSent, AuditSent, Catch, SendThrows, Fault, handlerVars
  <2>2. LosesNothing BY <2>1, StillLost DEF InHand
  <2> QED BY <1>0, <2>1, <2>2, LossCount
<1>2. ASSUME NEW n \in Notes, Emit(n) PROVE LossesAreFaults'
  <2>1. UNCHANGED <<suppressed, seen, missed, hpc, note, faults>>
    BY <1>2 DEF Emit, handlerVars
  <2>2. LosesNothing BY <2>1, StillLost DEF InHand
  <2> QED BY <1>0, <2>1, <2>2, LossCount
<1>3. ASSUME NEW h \in Handlers, NEW n \in Notes, Receive(h, n) PROVE LossesAreFaults'
  <2>1. /\ UNCHANGED <<suppressed, seen, missed, faults>> /\ hpc[h] = "idle"
        /\ \A g \in Handlers \ {h} : hpc'[g] = hpc[g] /\ note'[g] = note[g]
    BY <1>3 DEF Receive, TypeOK
  <2>2. \A k \in Notes : InHand(k) => InHand(k)' BY <2>1 DEF InHand
  <2>3. LosesNothing BY <2>1, <2>2, StillLost
  <2> QED BY <1>0, <2>1, <2>3, LossCount
<1>4. ASSUME NEW h \in Handlers, HandlerStep(h) PROVE LossesAreFaults'
  <2>1. LosesNothing /\ UNCHANGED faults BY <1>4, HandlerLoses
  <2> QED BY <1>0, <2>1, LossCount
<1>5. ASSUME NEW h \in Handlers, HandlerFails(h) PROVE LossesAreFaults'
  <2>1. /\ UNCHANGED <<suppressed, seen, missed>> /\ faults' = faults + 1
        /\ \A g \in Handlers \ {h} : hpc'[g] = hpc[g] /\ note'[g] = note[g]
        /\ note[h] \in Notes
    BY <1>5, LeaveEffect, NoteType DEF HandlerFails, Fault
  <2>2. LosesOnly(h) BY <2>1 DEF LosesOnly, Lost, InHand
  <2> QED BY <1>0, <2>1, <2>2, LossCount
<1>6. ASSUME UNCHANGED vars PROVE LossesAreFaults'
  <2>1. UNCHANGED <<suppressed, seen, missed, hpc, note, faults>> BY <1>6 DEF vars
  <2>2. LosesNothing BY <2>1, StillLost DEF InHand
  <2>3. faults' \in Nat /\ faults' >= faults BY <1>0, <2>1
  <2>4. LossesAreFaults BY <1>0
  <2> QED BY <2>2, <2>3, <2>4, LossCount
<1>7. LossesAreFaults' BY <1>1, <1>2, <1>3, <1>4, <1>5, <1>6 DEF Next
<1> QED BY <1>7, PlacesStep DEF LossInv

-----------------------------------------------------------------------------
(* The theorems                                                            *)

LEMMA InvInit == Init => OnceInv
  BY DEF Init, OnceInv, Posted, Sole, HeldUnapplied, AppliedWasSeen, AuditsPublished, WritesOutcome, Working

(* Types, and one holder for every notification being applied.             *)
THEOREM Inductive == Spec => [](TypeOK /\ OnceInv)
<1>1. Init => TypeOK /\ OnceInv
  BY TypeInit, InvInit
<1>2. TypeOK /\ OnceInv /\ [Next]_vars => (TypeOK /\ OnceInv)'
  <2> SUFFICES ASSUME TypeOK, OnceInv, [Next]_vars
               PROVE  TypeOK' /\ OnceInv'
    OBVIOUS
  <2>1. Posted /\ WritesOutcome
    BY DEF OnceInv
  <2> QED BY <2>1, TypeStep, OnceStep
<1> QED BY <1>1, <1>2, PTL DEF Spec

(* Every variable keeps its type.                                          *)
THEOREM TypeCorrect == Spec => []TypeOK
  BY Inductive, PTL

(* The seen key of webhooks-ses.ts makes each notification be applied at   *)
(* most once, and the audit trail holds published outcomes only, whatever  *)
(* SNS posts again, to how many handlers at once, and whatever fails.      *)
THEOREM AppliedOnce == Spec => []AppliedAtMostOnce
<1>1. OnceInv => AppliedAtMostOnce
  BY DEF OnceInv, AppliedWasSeen, AuditsPublished, AppliedAtMostOnce
<1> QED BY <1>1, Inductive, PTL

(* Each fault loses one bad outcome at most, and nothing else loses one:   *)
(* what was marked as seen is being handled, or its recipient suppressed.  *)
THEOREM FaultsAlone == Spec => []LossesAreFaults
<1>1. Init => LossInv
  <2> SUFFICES ASSUME Init PROVE LossInv OBVIOUS
  <2>1. {n \in Notes : Lost(n)} = {} BY DEF Init, Lost
  <2>2. Cardinality({n \in Notes : Lost(n)}) = 0 BY <2>1, FS_EmptySet
  <2>3. LossesAreFaults BY <2>2 DEF Init, LossesAreFaults
  <2> QED BY <2>3 DEF Init, LossInv, ChecksGood, AuditsSuppressed
<1>2. TypeOK /\ OnceInv /\ TypeOK' /\ LossInv /\ [Next]_vars => LossInv'
  BY LossStep
<1>3. LossInv => LossesAreFaults BY DEF LossInv
<1> QED BY <1>1, <1>2, <1>3, Inductive, PTL DEF Spec
=============================================================================
