------------------------- MODULE NotificationOutbox -------------------------
(***************************************************************************)
(* The durable outbox that shows review cards and operator alerts in       *)
(* Telegram (app/services/notification_outbox.py).                         *)
(*                                                                         *)
(* Several deliverers run at once: the Celery beat task, the bot after it  *)
(* queued a proposal and the inbox poller all call                         *)
(* deliver_notification_outbox.  A deliverer claims a batch of pending     *)
(* rows under one token and one lease, then sends them one by one, each    *)
(* as one or several Telegram messages; the last message of a card carries *)
(* the approval buttons.  Telegram is external: a request can be refused,  *)
(* or its answer can be lost after the message arrived.                    *)
(*                                                                         *)
(* Time is abstract: a lease passes when LeasePasses says so, a back-off   *)
(* ends when BackoffEnds says so.                                          *)
(***************************************************************************)
EXTENDS Naturals, FiniteSets

CONSTANTS
    Rows,         \* idempotency keys, numbered by the created_at of their row
    Alerts,       \* the rows of kind ops_alert: a single message
    InboxCards,   \* the rows of kind inbox_alert; the others are proposal_approval
    Draftless,    \* inbox cards without a draft: one message, no approve button
    ReviewParts,  \* messages of a card with text: the text, then the buttons
    Workers,      \* running calls of deliver_notification_outbox
    Beat,         \* the one started again and again by Celery beat
    BatchLimit,   \* rows claimed by one call
    MaxAttempts,  \* notification_outbox_max_attempts
    Faults,       \* what can go wrong with a Telegram request
    MaxClaims,    \* bound: batches claimed in a behaviour
    MaxRequeues,  \* bound: operator requeues in a behaviour
    MaxCrashes    \* bound: deliverers that die in a behaviour

\* "refused": Telegram answered with an error, nothing was shown.
\* "timeout": the answer was lost and the error text holds a marker of
\*            is_ambiguous_send_error (timeout, connection reset, ...).
\* "disconnect": the answer was lost and the text holds none of the markers
\*            (aiohttp's "Server disconnected", a gateway's "Bad Gateway").
FaultKinds == {"refused", "timeout", "disconnect"}

ASSUME OutboxAssumption ==
    /\ Rows \subseteq Nat \ {0}
    /\ Alerts \subseteq Rows
    /\ InboxCards \subseteq Rows \ Alerts
    /\ Draftless \subseteq InboxCards
    /\ ReviewParts \in Nat \ {0, 1}
    /\ Beat \in Workers
    /\ BatchLimit \in Nat \ {0}
    /\ MaxAttempts \in Nat \ {0}
    /\ Faults \subseteq FaultKinds
    /\ MaxClaims \in Nat /\ MaxRequeues \in Nat /\ MaxCrashes \in Nat

VARIABLES
    row,       \* the table notification_outbox, by key
    card,      \* the rows whose pending review has a message_id
    notified,  \* the inbox rows whose inbound message is "notified"
    worker,    \* the local state of each deliverer
    claims,    \* claim tokens drawn so far; the tokens are 1..claims
    expired,   \* tokens whose claim_expires_at has passed
    requeues,  \* operator requeues so far
    crashes,   \* deliverers that died so far
    shown,     \* history: for each row, the tokens under which its last message arrived
    lastTok,   \* history: the token of each row's latest claim
    licensed   \* history: the tokens whose lease passed and was acknowledged by an operator

vars == <<row, card, notified, worker, claims, expired, requeues, crashes,
          shown, lastTok, licensed>>
history == <<shown, lastTok, licensed>>
budgets == <<requeues, crashes>>

Tokens == 1..MaxClaims
RowStates == {"absent", "pending", "sending", "sent", "needs_attention"}
Errors == {"none", "partial", "commit_failed", "lease_expired"} \cup FaultKinds
Steps == {"idle", "claim", "check", "send", "fail", "finalize", "commit_failed", "lost"}

RowType == [st : RowStates, tok : Tokens \cup {0}, attempts : 0..MaxAttempts,
            due : BOOLEAN, err : Errors, msg : BOOLEAN]
WorkerType == [pc : Steps, tok : Tokens \cup {0}, cur : Rows \cup {0},
               rest : SUBSET Rows, parts : Nat, err : Errors]

Absent == [st |-> "absent", tok |-> 0, attempts |-> 0, due |-> TRUE,
           err |-> "none", msg |-> FALSE]
Idle == [pc |-> "idle", tok |-> 0, cur |-> 0, rest |-> {}, parts |-> 0, err |-> "none"]

Init ==
    /\ row = [r \in Rows |-> Absent]
    /\ card = {} /\ notified = {}
    /\ worker = [w \in Workers |-> Idle]
    /\ claims = 0 /\ expired = {}
    /\ requeues = 0 /\ crashes = 0
    /\ shown = [r \in Rows |-> {}]
    /\ lastTok = [r \in Rows |-> 0]
    /\ licensed = [r \in Rows |-> {}]

-----------------------------------------------------------------------------
(* Operators of the handlers *)

\* Rows shown as a card with an approve button, and the messages of a row.
Approvable == Rows \ (Alerts \cup Draftless)
Parts(r) == IF r \in Approvable THEN ReviewParts ELSE 1

\* Mutant: every error is taken for a known one.
IsAmbiguousNever(e) == FALSE
\* Error texts that carry one of the markers.
IsAmbiguous(e) == e = "timeout"

\* Mutant: the finalizers write whatever the row has become.
HoldsUnfenced(w, r) == TRUE
\* The fence of the three finalizers: still sending, under this very token.
Holds(w, r) == row[r].st = "sending" /\ row[r].tok = worker[w].tok

\* _claim_is_active: the fence, and the lease has not passed.
ClaimIsActive(w, r) == Holds(w, r) /\ row[r].tok \notin expired

\* Mutant: recovery passes over rows that were never retried.
StaleIfRetried(r) == row[r].st = "sending" /\ row[r].tok \in expired /\ row[r].attempts > 0
Stale(r) == row[r].st = "sending" /\ row[r].tok \in expired

\* The table after recover_stale_outbox_claims.
Recovered ==
    [r \in Rows |->
        IF Stale(r)
        THEN [row[r] EXCEPT !.st = "needs_attention", !.tok = 0, !.err = "lease_expired"]
        ELSE row[r]]

\* Mutant: rows left to the operator are claimed like pending ones.
ClaimableWithAttention ==
    {r \in Rows : row[r].st \in {"pending", "needs_attention"} /\ row[r].due}
Claimable ==
    {r \in Rows : /\ row[r].st = "pending" /\ row[r].due
                  /\ row[r].tok = 0 \/ row[r].tok \in expired}

\* The oldest claimable rows, up to the limit.
Batch == {r \in Claimable : Cardinality({s \in Claimable : s < r}) < BatchLimit}

\* The ways the loop over the claimed rows can go on: to the oldest row left,
\* or to the end of the call.
Onwards(tok, rest) ==
    IF rest = {}
    THEN {Idle}
    ELSE {[pc |-> "check", tok |-> tok, cur |-> r, rest |-> rest \ {r}, parts |-> 0,
           err |-> "none"] : r \in {s \in rest : \A t \in rest : s <= t}}

GoOn(w) == \E nxt \in Onwards(worker[w].tok, worker[w].rest) :
               worker' = [worker EXCEPT ![w] = nxt]

\* Mutant: the first accepted message finalizes the row.
AfterFirstPart(n, r) == IF n >= 1 THEN "finalize" ELSE "check"
\* What the loop does after a message was accepted: the last one is finalized.
AfterPart(n, r) == IF n >= Parts(r) THEN "finalize" ELSE "check"

\* Mutant: a failure in the middle of a card is filed as any other.
FiledErrorPlain(w, e) == e
\* The error that _mark_delivery_failure files.
FiledError(w, e) == IF worker[w].parts > 0 THEN "partial" ELSE e

\* Mutant: one attempt too many.
RestsLate(attempts, e) == e = "partial" \/ IsAmbiguous(e) \/ attempts > MaxAttempts
\* Where a failed row goes: to an operator, or back to the queue.
Rests(attempts, e) == e = "partial" \/ IsAmbiguous(e) \/ attempts >= MaxAttempts

\* The row after _mark_delivery_failure filed e.
Failed(r, e) ==
    LET n == row[r].attempts + 1
        rests == Rests(n, e)
    IN  [row[r] EXCEPT !.st = IF rests THEN "needs_attention" ELSE "pending",
                       !.tok = 0, !.attempts = n, !.due = rests, !.err = e]

\* Mutant: the recorded evidence and its error are not looked at.
RequeueableBlindly(r, ack) ==
    row[r].st = "needs_attention" /\ (row[r].err = "lease_expired" => ack)
\* What requeue_outbox_for_delivery demands of a row.
Requeueable(r, ack) ==
    /\ row[r].st = "needs_attention"
    /\ ~row[r].msg
    /\ row[r].err \notin {"commit_failed", "partial"}
    /\ row[r].err = "lease_expired" => ack
    /\ r \notin card

-----------------------------------------------------------------------------
(* enqueue_notification: the first call with a key inserts the row; a later  *)
(* call returns the row it finds and changes nothing.                        *)
Enqueue(r) ==
    /\ row[r].st = "absent"
    /\ row' = [row EXCEPT ![r].st = "pending"]
    /\ UNCHANGED <<card, notified, worker, claims, expired, budgets, history>>

\* deliver_notification_outbox starts: stale claims of dead deliverers first.
Start(w) ==
    /\ worker[w].pc = "idle"
    /\ row' = Recovered
    /\ worker' = [worker EXCEPT ![w].pc = "claim"]
    /\ UNCHANGED <<card, notified, claims, expired, budgets, history>>

ClaimBatch(w) ==
    /\ worker[w].pc = "claim"
    /\ Batch # {}
    /\ claims < MaxClaims
    /\ claims' = claims + 1
    /\ row' = [r \in Rows |-> IF r \in Batch
                              THEN [row[r] EXCEPT !.st = "sending", !.tok = claims + 1]
                              ELSE row[r]]
    /\ lastTok' = [r \in Rows |-> IF r \in Batch THEN claims + 1 ELSE lastTok[r]]
    /\ \E nxt \in Onwards(claims + 1, Batch) : worker' = [worker EXCEPT ![w] = nxt]
    /\ UNCHANGED <<card, notified, expired, budgets, shown, licensed>>

NothingToClaim(w) ==
    /\ worker[w].pc = "claim"
    /\ Batch = {}
    /\ worker' = [worker EXCEPT ![w] = Idle]
    /\ UNCHANGED <<row, card, notified, claims, expired, budgets, history>>

\* Before each Telegram request the claim is read again, in a session of its own.
CheckClaim(w) ==
    /\ worker[w].pc = "check"
    /\ worker' = [worker EXCEPT ![w].pc =
                     IF ClaimIsActive(w, worker[w].cur) THEN "send" ELSE "lost"]
    /\ UNCHANGED <<row, card, notified, claims, expired, budgets, history>>

\* That read fails (SQLAlchemyError): it is logged and the loop goes on; the row
\* stays "sending" until its lease passes.
CheckFails(w) ==
    /\ worker[w].pc = "check"
    /\ GoOn(w)
    /\ UNCHANGED <<row, card, notified, claims, expired, budgets, history>>

\* OutboxClaimLost: stale claims are swept and the loop goes on.
ClaimLost(w) ==
    /\ worker[w].pc = "lost"
    /\ row' = Recovered
    /\ GoOn(w)
    /\ UNCHANGED <<card, notified, claims, expired, budgets, history>>

\* History: the row's last message arrived in Telegram.
Arrives(w) ==
    LET r == worker[w].cur
    IN  shown' = IF worker[w].parts + 1 = Parts(r)
                 THEN [shown EXCEPT ![r] = @ \cup {worker[w].tok}]
                 ELSE shown

PartAccepted(w) ==
    /\ worker[w].pc = "send"
    /\ Arrives(w)
    /\ worker' = [worker EXCEPT
                     ![w].parts = worker[w].parts + 1,
                     ![w].pc = AfterPart(worker[w].parts + 1, worker[w].cur)]
    /\ UNCHANGED <<row, card, notified, claims, expired, budgets, lastTok, licensed>>

\* The request raises; except for a refusal the message may have arrived.
PartFails(w, e) ==
    /\ worker[w].pc = "send"
    /\ e \in Faults
    /\ \/ Arrives(w) /\ e # "refused"
       \/ UNCHANGED shown
    /\ worker' = [worker EXCEPT ![w].pc = "fail", ![w].err = FiledError(w, e)]
    /\ UNCHANGED <<row, card, notified, claims, expired, budgets, lastTok, licensed>>

MarkFailure(w) ==
    /\ worker[w].pc = "fail"
    /\ LET r == worker[w].cur
       IN  row' = IF Holds(w, r) THEN [row EXCEPT ![r] = Failed(r, worker[w].err)] ELSE row
    /\ GoOn(w)
    /\ UNCHANGED <<card, notified, claims, expired, budgets, history>>

\* The writes of _mark_delivery_success.
RecordSent(w) ==
    LET r == worker[w].cur
    IN  IF Holds(w, r)
        THEN /\ row' = [row EXCEPT ![r].st = "sent", ![r].tok = 0,
                                   ![r].err = "none", ![r].msg = TRUE]
             /\ card' = card \cup ({r} \ Alerts)
             /\ notified' = notified \cup ({r} \cap InboxCards)
        ELSE UNCHANGED <<row, card, notified>>

MarkSuccess(w) ==
    /\ worker[w].pc = "finalize"
    /\ RecordSent(w)
    /\ GoOn(w)
    /\ UNCHANGED <<claims, expired, budgets, history>>

\* The commit of _mark_delivery_success raises; the database may have applied it.
CommitRaises(w) ==
    /\ worker[w].pc = "finalize"
    /\ RecordSent(w) \/ UNCHANGED <<row, card, notified>>
    /\ worker' = [worker EXCEPT ![w].pc = "commit_failed"]
    /\ UNCHANGED <<claims, expired, budgets, history>>

MarkCommitFailure(w) ==
    /\ worker[w].pc = "commit_failed"
    /\ LET r == worker[w].cur
       IN  IF Holds(w, r)
           THEN /\ row' = [row EXCEPT ![r].st = "needs_attention", ![r].tok = 0,
                                      ![r].err = "commit_failed", ![r].msg = TRUE]
                /\ card' = card \cup ({r} \ Alerts)
           ELSE UNCHANGED <<row, card>>
    /\ GoOn(w)
    /\ UNCHANGED <<notified, claims, expired, budgets, history>>

\* That second transaction fails as well: logged, the row waits for its lease.
CommitFailureLost(w) ==
    /\ worker[w].pc = "commit_failed"
    /\ GoOn(w)
    /\ UNCHANGED <<row, card, notified, claims, expired, budgets, history>>

\* The process dies, or an exception leaves the call (a database error inside
\* one of the handlers of the loop): the rest of the batch stays "sending".
Crash(w) ==
    /\ worker[w].pc # "idle"
    /\ crashes < MaxCrashes
    /\ crashes' = crashes + 1
    /\ worker' = [worker EXCEPT ![w] = Idle]
    /\ UNCHANGED <<row, card, notified, claims, expired, requeues, history>>

LeasePasses(t) ==
    /\ t \in 1..claims
    /\ t \notin expired
    /\ expired' = expired \cup {t}
    /\ UNCHANGED <<row, card, notified, worker, claims, budgets, history>>

BackoffEnds(r) ==
    /\ row[r].st = "pending"
    /\ ~row[r].due
    /\ row' = [row EXCEPT ![r].due = TRUE]
    /\ UNCHANGED <<card, notified, worker, claims, expired, budgets, history>>

\* scripts/ops_outbox_recovery.py --apply, with or without --ack-ambiguous-lease.
Requeue(r, ack) ==
    /\ requeues < MaxRequeues
    /\ Requeueable(r, ack)
    /\ requeues' = requeues + 1
    /\ row' = [row EXCEPT ![r].st = "pending", ![r].tok = 0, ![r].attempts = 0,
                          ![r].due = TRUE, ![r].err = "none"]
    /\ licensed' = IF row[r].err = "lease_expired"
                   THEN [licensed EXCEPT ![r] = @ \cup {lastTok[r]}]
                   ELSE licensed
    /\ UNCHANGED <<card, notified, worker, claims, expired, crashes, shown, lastTok>>

-----------------------------------------------------------------------------
Deliver(w) ==
    \/ Start(w) \/ ClaimBatch(w) \/ NothingToClaim(w)
    \/ CheckClaim(w) \/ CheckFails(w) \/ ClaimLost(w)
    \/ PartAccepted(w) \/ \E e \in Faults : PartFails(w, e)
    \/ MarkFailure(w) \/ MarkSuccess(w) \/ CommitRaises(w)
    \/ MarkCommitFailure(w) \/ CommitFailureLost(w)

Next ==
    \/ \E r \in Rows : Enqueue(r) \/ BackoffEnds(r)
    \/ \E r \in Rows, ack \in BOOLEAN : Requeue(r, ack)
    \/ \E w \in Workers : Deliver(w) \/ Crash(w)
    \/ \E t \in Tokens : LeasePasses(t)

Spec == Init /\ [][Next]_vars

\* Celery beat starts a delivery every two minutes and that call runs on; time
\* passes.  Nothing is assumed of the other deliverers: they may hang for ever.
Fairness ==
    /\ WF_vars(Deliver(Beat))
    /\ \A t \in Tokens : WF_vars(LeasePasses(t))
    /\ \A r \in Rows : WF_vars(BackoffEnds(r))

FairSpec == Spec /\ Fairness

-----------------------------------------------------------------------------
(* Properties *)

\* Every value has its type.
TypeOK ==
    /\ row \in [Rows -> RowType]
    /\ card \subseteq Rows
    /\ notified \subseteq Rows
    /\ worker \in [Workers -> WorkerType]
    /\ claims \in 0..MaxClaims
    /\ expired \subseteq Tokens
    /\ requeues \in 0..MaxRequeues
    /\ crashes \in 0..MaxCrashes
    /\ shown \in [Rows -> SUBSET Tokens]
    /\ lastTok \in [Rows -> Tokens \cup {0}]
    /\ licensed \in [Rows -> SUBSET (Tokens \cup {0})]

\* A card with an approve button is shown under a second claim only after an
\* operator acknowledged that the first claim's lease passed: deliverers that race,
\* come late or die, lost answers and retries never show it twice, because a fault
\* after the first message of a card leaves the row to review_reissue.
CardShownOnce ==
    \A r \in Approvable : \A t, u \in shown[r] \ licensed[r] : t = u

\* What the database records as delivered was delivered: a sent row, a message id
\* on the row or on the pending review, an inbound message marked as notified.
RecordedMeansShown ==
    \A r \in Rows :
        row[r].st = "sent" \/ row[r].msg \/ r \in card \/ r \in notified => shown[r] # {}

\* A step that leaves a recorded message id, and its row's status, alone.
KeepsEvidence ==
    \A r \in Rows : row[r].msg => row'[r].msg /\ row'[r].st = row[r].st

\* The evidence of a delivery closes the row: once a message id is recorded, the
\* row never returns to the queue, whoever asks for it.
EvidenceIsFinal == [][KeepsEvidence]_vars

\* A row left to the operator is touched by the operator alone: a deliverer that
\* lost its claim, however late, neither finalizes nor retries it.
OnlyOperatorRevives ==
    [][\A r \in Rows : row[r].st = "needs_attention" /\ row'[r] # row[r]
                       => requeues' = requeues + 1]_vars

\* Every queued notification is sent or reaches the operator, though deliverers
\* die with claimed rows in hand and some of them hang.
EventuallySettled ==
    \A r \in Rows : row[r].st \in {"pending", "sending"}
                    ~> row[r].st \in {"sent", "needs_attention"}

\* docs/inbox-outbox-policy.md:14: a timeout or an ambiguous error leaves the row in
\* needs_attention, "without blind resend": with no operator, nothing appears twice.
NoBlindResend ==
    requeues = 0 => \A r \in Rows : \A t, u \in shown[r] : t = u

-----------------------------------------------------------------------------
(* The strengthening that makes CardShownOnce and RecordedMeansShown inductive *)

\* The rows deliverer w may still send a message for.
Ahead(w) ==
    worker[w].rest \cup (IF worker[w].pc \in {"check", "send"} THEN {worker[w].cur} ELSE {})

\* Token t of row r is its live claim, or the passed lease the operator has to
\* acknowledge, or one he has acknowledged.
Accounted(r, t) ==
    \/ row[r].st = "sending" /\ row[r].tok = t
    \/ row[r].st = "needs_attention" /\ row[r].err = "lease_expired" /\ lastTok[r] = t
    \/ t \in licensed[r]

RowTokens ==
    \A r \in Rows : /\ lastTok[r] \in 0..claims
                    /\ shown[r] \subseteq 1..claims
                    /\ IF row[r].st = "sending"
                       THEN row[r].tok = lastTok[r] /\ row[r].tok # 0
                       ELSE row[r].tok = 0

WorkerTokens ==
    /\ \A w \in Workers : worker[w].tok \in 0..claims
    /\ \A v, w \in Workers : worker[v].tok = worker[w].tok /\ worker[v].tok # 0 => v = w

\* A deliverer without a row holds nothing; a row is not both in hand and to come.
HandsInOrder ==
    \A w \in Workers :
        /\ worker[w].pc \in {"idle", "claim"} => worker[w] = [Idle EXCEPT !.pc = worker[w].pc]
        /\ worker[w].pc \notin {"idle", "claim"} => worker[w].tok # 0 /\ worker[w].cur # 0
        /\ worker[w].cur \notin worker[w].rest
        /\ worker[w].pc \in {"check", "send"} => worker[w].parts < Parts(worker[w].cur)

AheadIsOpen ==
    \A w \in Workers : \A r \in Ahead(w) :
        worker[w].tok \notin shown[r] /\ Accounted(r, worker[w].tok)

\* The row in hand: what the deliverer knows of it before it files the outcome.
InHand ==
    \A w \in Workers :
        LET r == worker[w].cur
            t == worker[w].tok
        IN  /\ worker[w].pc \in {"fail", "finalize"} => Accounted(r, t)
            /\ worker[w].pc = "commit_failed" => Accounted(r, t) \/ row[r].st = "sent"
            /\ worker[w].pc = "fail" /\ r \in Approvable /\ t \in shown[r]
               => worker[w].err = "partial"
            /\ worker[w].pc \in {"finalize", "commit_failed"} => t \in shown[r]

\* Whatever was shown is acknowledged, except perhaps under the latest claim; and
\* under that one too for a row that may be claimed or requeued freely.
ShownAccounted ==
    \A r \in Approvable :
        /\ shown[r] \ licensed[r] \subseteq {lastTok[r]}
        /\ \/ row[r].st \in {"absent", "pending"}
           \/ row[r].st = "needs_attention"
              /\ row[r].err \notin {"partial", "commit_failed", "lease_expired"}
           => shown[r] \subseteq licensed[r]

\* A row that may still be sent has an attempt left.
AttemptsLeft ==
    \A r \in Rows : row[r].st \in {"absent", "pending", "sending"} =>
                        row[r].attempts < MaxAttempts

EvidenceCloses ==
    \A r \in Rows :
        /\ row[r].msg => \/ row[r].st = "sent"
                         \/ row[r].st = "needs_attention" /\ row[r].err = "commit_failed"
        /\ row[r].st = "sent" => row[r].msg

IInv == /\ TypeOK
        /\ RowTokens
        /\ WorkerTokens
        /\ HandsInOrder
        /\ AheadIsOpen
        /\ InHand
        /\ ShownAccounted
        /\ AttemptsLeft
        /\ EvidenceCloses
        /\ RecordedMeansShown

=============================================================================
