------------------------------ MODULE AuthHook -----------------------------
(***************************************************************************)
(* The Supabase "send email" hook: one auth event, delivered any number of *)
(* times under one webhook id, becomes one authentication mail for each of *)
(* its recipients.  The hook claims the event in a durable ledger, posts   *)
(* the mails under keys made from the event and the recipient, and answers *)
(* 200 once the server says that all of them were accepted.                *)
(*                                                                         *)
(* The server is what OneShotMail promises of it, which AuthMessages is    *)
(* shown to keep.  Time is counted in steps of minutes; a deadline is the  *)
(* last step at which more than the fifteen seconds of margin are left.    *)
(***************************************************************************)
EXTENDS Naturals, FiniteSets, FiniteSetsExt

CONSTANTS Recipients,  \* of the event: two for a secure change of address
          Calls,       \* deliveries of the event
          ContentOf,   \* the fingerprint of what each delivery renders
          Lifetime,    \* steps a code may be used, less the reserve
          Skew,        \* bound: how far a signature may be ahead of the clock
          LastTime,    \* bound: the clock stops
          NoEntry      \* no entry

ASSUME TimeAssumption == Lifetime \in Nat /\ Skew \in Nat /\ LastTime \in Nat
ASSUME NoEntryAssumption == NoEntry \notin [content : {ContentOf[c] : c \in Calls}, deadline : Nat]

VARIABLES
  now,
  ledger,    \* rootmail_auth_hook.events: the row of this event
  report,    \* the status the server shows for each recipient's mail
  handed,    \* how often that mail went to the provider
  bound,     \* the input each recipient's key was first used with
  place,     \* where each delivery stands, at last the answer it gave
  proposed,  \* the deadline each delivery would set
  entry,     \* what the ledger answered it
  leg        \* where each of its mails stands

eventVars == <<ledger, place, proposed, entry, leg>>
serverVars == <<report, handed, bound>>
hookVars == <<now, eventVars, serverVars>>

Server == INSTANCE OneShotMail WITH Keys <- Recipients

Answers == {"200", "409", "422", "503"}
Receipts == {"queued", "sending", "sent", "failed", "suppressed"}
Legs == {"post", "wire", "refused", "conflict", "over"} \cup Receipts

HookInit ==
  /\ now = 0 /\ ledger = NoEntry
  /\ Server!Init /\ bound = [r \in Recipients |-> NoEntry]
  /\ place = [c \in Calls |-> "away"]
  /\ proposed = [c \in Calls |-> 0]
  /\ entry = [c \in Calls |-> NoEntry]
  /\ leg = [c \in Calls |-> [r \in Recipients |-> "over"]]

-----------------------------------------------------------------------------
(* One delivery                                                            *)

At(c, p) == place[c] = p
Goto(c, p) == place' = [place EXCEPT ![c] = p]

\* The answer; abort cancels what has not reached the wire.
Answer(c, code) ==
  /\ Goto(c, code)
  /\ leg' = [leg EXCEPT ![c] = [r \in Recipients |-> IF @[r] = "wire" THEN "wire" ELSE "over"]]
  /\ entry' = [entry EXCEPT ![c] = IF \E r \in Recipients : leg[c][r] = "wire" THEN @ ELSE NoEntry]
  /\ proposed' = [proposed EXCEPT ![c] = 0]

(* The event arrives, signed at some time; the signature, the payload and  *)
(* the server's capability are checked and a deadline proposed.            *)
Deliver(c) ==
  /\ At(c, "away")
  /\ \E signedAt \in 0..(now + Skew) :
       proposed' = [proposed EXCEPT ![c] = Min({now, signedAt}) + Lifetime]
  /\ Goto(c, "claim")
  /\ UNCHANGED <<now, ledger, entry, leg, serverVars>>

Mine(c) == [content |-> ContentOf[c], deadline |-> proposed[c]]

(* Mutant: the conflicting row takes the new deadline.                     *)
ClaimRenews(c) ==
  /\ At(c, "claim")
  /\ ledger' = IF ledger = NoEntry THEN Mine(c) ELSE [ledger EXCEPT !.deadline = proposed[c]]
  /\ entry' = [entry EXCEPT ![c] = ledger']
  /\ Goto(c, "check")
  /\ UNCHANGED <<now, proposed, leg, serverVars>>

(* HookLedger.claim: insert or read, in one statement.                     *)
ClaimEvent(c) ==
  /\ At(c, "claim")
  /\ ledger' = IF ledger = NoEntry THEN Mine(c) ELSE ledger
  /\ entry' = [entry EXCEPT ![c] = ledger']
  /\ Goto(c, "check")
  /\ UNCHANGED <<now, proposed, leg, serverVars>>

SameContent(c) == entry[c].content = ContentOf[c]
EntryInTime(c) == entry[c].deadline <= proposed[c] /\ entry[c].deadline >= now

Check(c) ==
  /\ At(c, "check")
  /\ \/ ~SameContent(c) /\ Answer(c, "409")
     \/ SameContent(c) /\ ~EntryInTime(c) /\ Answer(c, "422")
     \/ /\ SameContent(c) /\ EntryInTime(c)
        /\ Goto(c, "send")
        /\ leg' = [leg EXCEPT ![c] = [r \in Recipients |-> "post"]]
        /\ UNCHANGED <<proposed, entry>>
  /\ UNCHANGED <<now, ledger, serverVars>>

LegAt(c, r, l) == leg' = [leg EXCEPT ![c][r] = l]

Post(c, r) ==
  /\ At(c, "send") /\ leg[c][r] = "post" /\ LegAt(c, r, "wire")
  /\ UNCHANGED <<now, ledger, place, proposed, entry, serverVars>>

(* GET /v1/messages/:id while the mail is under way.                       *)
Poll(c, r) ==
  /\ At(c, "send") /\ leg[c][r] \in {"queued", "sending"}
  /\ entry[c].deadline >= now
  /\ LegAt(c, r, report[r])
  /\ UNCHANGED <<now, ledger, place, proposed, entry, serverVars>>

(* The first leg to fail answers for all of them; the other refusals that  *)
(* are passed on (401, 402, 403, 429) are not told apart from these.       *)
Fail(c) ==
  /\ At(c, "send")
  /\ \E r \in Recipients :
       \/ leg[c][r] \in {"conflict", "failed", "suppressed"} /\ Answer(c, "409")
       \/ leg[c][r] = "refused" /\ \E code \in Answers \ {"200"} : Answer(c, code)
       \/ leg[c][r] \in {"queued", "sending"} /\ entry[c].deadline < now /\ Answer(c, "422")
  /\ UNCHANGED <<now, ledger, serverVars>>

(* Mutant: one accepted mail confirms the event.                           *)
SucceedOnFirst(c) ==
  /\ At(c, "send") /\ \E r \in Recipients : leg[c][r] = "sent"
  /\ Answer(c, "200")
  /\ UNCHANGED <<now, ledger, serverVars>>

Succeed(c) ==
  /\ At(c, "send") /\ \A r \in Recipients : leg[c][r] = "sent"
  /\ Answer(c, "200")
  /\ UNCHANGED <<now, ledger, serverVars>>

(* The budget ends, the caller goes away, a reply is lost or malformed, or *)
(* the host dies.                                                          *)
Abort(c) ==
  /\ place[c] \in {"claim", "check", "send"} /\ Answer(c, "503")
  /\ UNCHANGED <<now, ledger, serverVars>>

-----------------------------------------------------------------------------
(* The server, and time                                                    *)

\* The reply; nobody waits for it when the delivery was answered.
Reply(c, r, l) ==
  /\ LegAt(c, r, IF At(c, "send") THEN l ELSE "over")
  /\ UNCHANGED <<now, ledger, place, proposed>>
  /\ IF At(c, "send") \/ \E o \in Recipients \ {r} : leg[c][o] = "wire"
       THEN UNCHANGED entry ELSE entry' = [entry EXCEPT ![c] = NoEntry]

(* Mutant: the row is inserted without its request fingerprint.            *)
ServeUnbound(c, r) ==
  /\ leg[c][r] = "wire"
  /\ \/ entry[c].deadline >= now /\ Server!Accept(r) /\ Reply(c, r, "queued")
     \/ /\ entry[c].deadline >= now /\ report[r] # "absent"
        /\ Reply(c, r, IF bound[r] = entry[c] THEN report[r] ELSE "conflict")
        /\ UNCHANGED <<report, handed>>
     \/ Reply(c, r, "refused") /\ UNCHANGED <<report, handed>>
  /\ UNCHANGED bound

(* POST /v1/auth-messages: a new key is accepted, a known one replayed     *)
(* when its input is the same; admission may refuse either.                *)
Serve(c, r) ==
  /\ leg[c][r] = "wire"
  /\ \/ /\ entry[c].deadline >= now /\ Server!Accept(r)
        /\ bound' = [bound EXCEPT ![r] = entry[c]]
        /\ Reply(c, r, "queued")
     \/ /\ entry[c].deadline >= now /\ report[r] # "absent"
        /\ Reply(c, r, IF bound[r] = entry[c] THEN report[r] ELSE "conflict")
        /\ UNCHANGED serverVars
     \/ Reply(c, r, "refused") /\ UNCHANGED serverVars

Work(r) ==
  /\ Server!Start(r) \/ Server!HandOver(r) \/ Server!Settle(r)
  /\ UNCHANGED <<now, eventVars, bound>>

HookTick == now < LastTime /\ now' = now + 1 /\ UNCHANGED <<eventVars, serverVars>>

HookNext ==
  \/ \E c \in Calls :
       \/ Deliver(c) \/ ClaimEvent(c) \/ Check(c) \/ Fail(c) \/ Succeed(c) \/ Abort(c)
       \/ \E r \in Recipients : Post(c, r) \/ Poll(c, r) \/ Serve(c, r)
  \/ \E r \in Recipients : Work(r)
  \/ HookTick

HookSpec == HookInit /\ [][HookNext]_hookVars

-----------------------------------------------------------------------------
(* Properties                                                              *)

Entries == [content : {ContentOf[c] : c \in Calls}, deadline : 0..(LastTime + Lifetime)]

HookTypeOK ==
  /\ now \in 0..LastTime
  /\ ledger \in Entries \cup {NoEntry}
  /\ report \in [Recipients -> Receipts \cup {"absent"}] /\ handed \in [Recipients -> 0..1]
  /\ bound \in [Recipients -> Entries \cup {NoEntry}]
  /\ \A r \in Recipients : bound[r] = NoEntry <=> report[r] = "absent"
  /\ place \in [Calls -> {"away", "claim", "check", "send"} \cup Answers]
  /\ proposed \in [Calls -> 0..(LastTime + Lifetime)]
  /\ entry \in [Calls -> Entries \cup {NoEntry}]
  /\ leg \in [Calls -> [Recipients -> Legs]]

(* A delivery answered 200 means that every recipient's mail was handed to *)
(* the provider and stays reported so, whatever other deliveries of the    *)
(* event, late posts of cancelled ones and the clock did.                  *)
OkMeansAccepted ==
  \A c \in Calls : place[c] = "200" =>
    \A r \in Recipients : report[r] = "sent" /\ handed[r] = 1

(* All deliveries of an event use a recipient's key with one content and   *)
(* one deadline, so that the server never sees it reused with other input, *)
(* and the deadline counts from a time no later than the first claim       *)
(* (hook.ts: "re-signing never renews it").                                *)
OneInputPerKey ==
  /\ \A r \in Recipients : bound[r] # NoEntry => bound[r] = ledger
  /\ \A c \in Calls, r \in Recipients : leg[c][r] # "conflict"
  /\ \A c \in Calls : place[c] = "send" => entry[c].deadline <= proposed[c]
=============================================================================
