----------------------------- MODULE InboxIntake -----------------------------
(***************************************************************************)
(* Intake of client messages and generation of reply drafts                *)
(* (services/kwork_inbox.py).  Two pollers, the beat task and the scrape   *)
(* task, read the client's dialog, commit every message before any model   *)
(* call, and answer the committed rows under a lease-fenced claim.         *)
(*                                                                         *)
(* One client dialog.  Sending a reply clears the platform's unread mark,  *)
(* and reading the thread may: the code cannot tell.  A message that is    *)
(* then not committed is seen again only when the client writes once more. *)
(* Rows are compared through revision[m], the number of changes of         *)
(* anything find_kwork_job_for_message returns for m.  A claim is named by *)
(* its poller: a poller works on one message at a time and each reset of   *)
(* the row drops the claim.                                                *)
(***************************************************************************)
EXTENDS Naturals, FiniteSets

CONSTANTS
    Messages,       \* what the client writes, numbered in the order of writing
    Kinds,          \* it carries a platform ID, or is known by user, time and text,
                    \* or has no key: a time or a text is missing
    Matched,        \* messages for which one job is found without an operator
    ReadingClears,  \* whether reading the thread may clear the unread mark
    Pollers,
    Resenders,      \* bound: the pollers whose process may run the resend script instead
    NoMessage, Nobody,
    MaxAttempts,    \* INBOUND_GENERATION_MAX_ATTEMPTS
    MaxPasses,      \* bound: operator resets of one message
    MaxRevisions,   \* bound: changes of the job and proposal rows
    MaxCrashes      \* bound: pollers that die

ASSUME IntakeAssumption ==
    /\ Kinds \subseteq {"identified", "fallback", "unclear"}
    /\ Messages \subseteq Nat
    /\ Matched \subseteq Messages
    /\ ReadingClears \in BOOLEAN
    /\ NoMessage \notin Messages
    /\ Nobody \notin Pollers
    /\ Resenders \subseteq Pollers
    /\ MaxAttempts \in Nat \ {0}
    /\ {MaxPasses, MaxRevisions, MaxCrashes} \subseteq Nat

VARIABLES
    kind,       \* how a message of the thread can be recognised
    unread,     \* the dialog's unread mark
    file,       \* the state file: whether it exists, the keys it lists
    inbound,    \* inbound_messages row of each message
    revision,   \* version of what a message is matched with
    poller,     \* local state of each poller
    reported,   \* messages with an ops_alert about their identity
    pass,       \* history: resets of the message by an operator
    drafted,    \* history: pass in which the current card's text was generated
    crashes

vars == <<kind, unread, file, inbound, revision, poller, reported, pass, drafted, crashes>>

------------------------------------------------------------------------------
(* Rows and pollers *)

written == {m \in Messages : kind[m] # "unwritten"}

InboundStatus == {"none", "seeded", "received", "processed", "notified",
                  "needs_attention"}

\* holder and live are generation_claim_token and generation_claim_until, backoff
\* is generation_retry_after, warned is generation_exhausted_notified_at, bound is
\* operator_bound_job_id, card is inbox_pending_id.
InboundType == [status: InboundStatus, attempts: 0..MaxAttempts,
                holder: Pollers \cup {Nobody}, live: BOOLEAN, backoff: BOOLEAN,
                warned: BOOLEAN, bound: BOOLEAN, card: BOOLEAN]

NoRow == [status |-> "none", attempts |-> 0, holder |-> Nobody, live |-> FALSE,
          backoff |-> FALSE, warned |-> FALSE, bound |-> FALSE, card |-> FALSE]

\* A tick answers the rows left over, captures what is new, answers what it captured;
\* the resend script answers one message.
Steps == {"idle", "retrying", "capturing", "answering", "resending"}

PollerType == [step: Steps, work: {"choosing", "reading", "fetching", "drafting"},
               first: BOOLEAN, seen: SUBSET Messages, todo: SUBSET Messages,
               batch: SUBSET Messages,
               msg: Messages \cup {NoMessage}, context: 0..MaxRevisions,
               pass: 0..MaxPasses]

Resting == [step |-> "idle", work |-> "choosing", first |-> FALSE, seen |-> {},
            todo |-> {}, batch |-> {}, msg |-> NoMessage,
            context |-> 0, pass |-> 0]

Init ==
    /\ kind = [m \in Messages |-> "unwritten"]
    /\ unread = FALSE
    /\ file = [exists |-> FALSE, seen |-> {}]
    /\ inbound = [m \in Messages |-> NoRow]
    /\ revision = [m \in Messages |-> 0]
    /\ poller = [p \in Pollers |-> Resting]
    /\ reported = {}
    /\ pass = [m \in Messages |-> 0]
    /\ drafted = [m \in Messages |-> 0]
    /\ crashes = 0

Recorded == {m \in Messages : inbound[m].status # "none"}

HasJob(m) == inbound[m].bound \/ m \in Matched

\* Mutant: a lease that has elapsed frees the row only with its token.
EligibleIfReleased(m) == /\ inbound[m].status = "received"
                         /\ ~inbound[m].backoff
                         /\ inbound[m].holder = Nobody
\* A row a poller may take now.
Eligible(m) == /\ inbound[m].status = "received"
               /\ ~inbound[m].backoff
               /\ ~inbound[m].live

\* Mutant: whose claim it is is not looked at.
ClaimIsAnyones(p, m) == inbound[m].status = "received" /\ inbound[m].live
ClaimIsCurrent(p, m) == /\ inbound[m].status = "received"
                        /\ inbound[m].holder = p
                        /\ inbound[m].live

\* The row after its claim is given up.
Released(row, failed) ==
    LET spent == row.attempts >= MaxAttempts
    IN [row EXCEPT !.holder = Nobody, !.live = FALSE,
                   !.status = IF spent THEN "needs_attention" ELSE @,
                   !.backoff = IF failed /\ ~spent THEN TRUE ELSE @]

\* The operator alert of an exhausted row, keyed by the row: a second one is dropped.
Warn(m, row) ==
    IF row.status = "needs_attention" /\ ~row.card /\ ~row.warned
    THEN inbound' = [inbound EXCEPT ![m] = [row EXCEPT !.warned = TRUE]]
    ELSE inbound' = [inbound EXCEPT ![m] = row]

\* The unread mark after the thread was read.
MarkAfterRead == IF ReadingClears THEN {unread, FALSE} ELSE {unread}

\* The poller drops the message it works on and goes to the next of its batch.
NextMessage(p) ==
    poller' = [poller EXCEPT ![p].work = "choosing", ![p].msg = NoMessage,
                             ![p].batch = @ \ {poller[p].msg},
                             ![p].context = 0, ![p].pass = 0]

------------------------------------------------------------------------------
(* One tick of a poller: check_kwork_inbox *)

StateSame == UNCHANGED <<kind, unread, file, inbound, revision, reported, pass, drafted, crashes>>

\* The state file is loaded, then looked for; rows left from earlier ticks come first.
Tick(p) ==
    /\ poller[p].step = "idle"
    /\ poller' = [poller EXCEPT ![p].step = "retrying", ![p].first = ~file.exists,
                                ![p].seen = file.seen,
                                ![p].batch = {m \in Messages : Eligible(m)}]
    /\ StateSame

\* Nothing is left to answer in this part of the tick.
BatchDone(p, step) == /\ poller[p].step = step
                      /\ poller[p].work = "choosing" /\ poller[p].batch = {}

\* The dialog is found unread and its thread is read.
Fetch(p) ==
    /\ BatchDone(p, "retrying")
    /\ poller' = [poller EXCEPT ![p].step = "capturing",
                                ![p].todo = IF unread THEN written ELSE {}]
    /\ unread' \in MarkAfterRead
    /\ UNCHANGED <<kind, file, inbound, revision, reported,
                   pass, drafted, crashes>>

\* get_messages fails for the dialog: it stays unread.
FetchFails(p) ==
    /\ BatchDone(p, "retrying") /\ unread
    /\ poller' = [poller EXCEPT ![p].step = "capturing"]
    /\ StateSame

\* Mutant: on the first run the keys are remembered without a row.
CaptureWithoutSeed(p, m) ==
    /\ poller[p].step = "capturing" /\ m \in poller[p].todo
    /\ poller' = [poller EXCEPT ![p].todo = @ \ {m}, ![p].seen = @ \cup {m},
                                ![p].batch = IF m \in Recorded \/ poller[p].first
                                             THEN @ ELSE @ \cup {m}]
    /\ inbound' = [inbound EXCEPT ![m].status =
                       IF m \in Recorded \/ poller[p].first THEN @ ELSE "received"]
    /\ reported' = IF kind[m] = "unclear" THEN reported \cup {m} ELSE reported
    /\ UNCHANGED <<kind, unread, file, revision, pass, drafted, crashes>>
\* Each message is committed on its own.  What carries an ID is committed before the
\* seen keys are asked and answered by a later tick; the rest is answered by this one.
\* What cannot be told apart is reported (the alerts of a tick share one commit).
Capture(p, m) ==
    /\ poller[p].step = "capturing" /\ m \in poller[p].todo
    /\ IF kind[m] = "unclear"
       THEN /\ poller' = [poller EXCEPT ![p].todo = @ \ {m}]
            /\ reported' = reported \cup {m}
            /\ UNCHANGED inbound
       ELSE IF m \in Recorded \/ (kind[m] = "fallback" /\ m \in poller[p].seen)
       THEN /\ poller' = [poller EXCEPT ![p].todo = @ \ {m}, ![p].seen = @ \cup {m}]
            /\ UNCHANGED <<inbound, reported>>
       ELSE /\ poller' = [poller EXCEPT ![p].todo = @ \ {m},
                  ![p].seen = IF poller[p].first \/ kind[m] = "identified" THEN @ \cup {m} ELSE @,
                  ![p].batch = IF poller[p].first \/ kind[m] = "identified" THEN @ ELSE @ \cup {m}]
            /\ inbound' = [inbound EXCEPT ![m].status =
                               IF poller[p].first THEN "seeded" ELSE "received"]
            /\ UNCHANGED reported
    /\ UNCHANGED <<kind, unread, file, revision, pass, drafted, crashes>>

Collected(p) ==
    /\ poller[p].step = "capturing" /\ poller[p].todo = {}
    /\ poller' = [poller EXCEPT ![p].step = "answering", ![p].first = FALSE]
    /\ StateSame

\* The whole file is written from what this tick loaded.
Save(p) ==
    /\ BatchDone(p, "answering")
    /\ file' = [exists |-> TRUE, seen |-> poller[p].seen]
    /\ poller' = [poller EXCEPT ![p] = Resting]
    /\ UNCHANGED <<kind, unread, inbound, revision, reported,
                   pass, drafted, crashes>>

------------------------------------------------------------------------------
(* Answering one message: _persist_inbound_bundle *)

Choosing(p, m) == /\ poller[p].step \in {"retrying", "answering", "resending"}
                  /\ poller[p].work = "choosing" /\ m \in poller[p].batch

Kept == UNCHANGED <<kind, unread, file, revision, reported, pass, crashes>>

\* Mutant: one attempt too many.
ClaimPastTheLimit(p, m) ==
    /\ Choosing(p, m) /\ Eligible(m)
    /\ inbound' = [inbound EXCEPT ![m].attempts = @ + 1, ![m].holder = p, ![m].live = TRUE]
    /\ poller' = [poller EXCEPT ![p].work = "reading", ![p].msg = m, ![p].pass = pass[m]]
    /\ Kept /\ UNCHANGED drafted
\* Mutant: a repeated claim of the row is not counted.
ClaimCountedOnce(p, m) ==
    /\ Choosing(p, m) /\ Eligible(m) /\ inbound[m].attempts < MaxAttempts
    /\ inbound' = [inbound EXCEPT ![m].attempts = 1, ![m].holder = p, ![m].live = TRUE]
    /\ poller' = [poller EXCEPT ![p].work = "reading", ![p].msg = m, ![p].pass = pass[m]]
    /\ Kept /\ UNCHANGED drafted
\* Under the row lock: taken, and counted before the model is called.
Claim(p, m) ==
    /\ Choosing(p, m) /\ Eligible(m) /\ inbound[m].attempts < MaxAttempts
    /\ inbound' = [inbound EXCEPT ![m].attempts = @ + 1, ![m].holder = p, ![m].live = TRUE]
    /\ poller' = [poller EXCEPT ![p].work = "reading", ![p].msg = m, ![p].pass = pass[m]]
    /\ Kept /\ UNCHANGED drafted

ClaimExhausted(p, m) ==
    /\ Choosing(p, m) /\ Eligible(m) /\ inbound[m].attempts >= MaxAttempts
    /\ Warn(m, Released(inbound[m], FALSE))
    /\ poller' = [poller EXCEPT ![p].batch = @ \ {m}]
    /\ Kept /\ UNCHANGED drafted

ClaimRefused(p, m) ==
    /\ Choosing(p, m) /\ ~Eligible(m)
    /\ poller' = [poller EXCEPT ![p].batch = @ \ {m}]
    /\ Kept /\ UNCHANGED <<inbound, drafted>>

\* The match is read without a lock.  Without a job there is nothing to generate;
\* with one the claim must still be renewable.  A row that is retried has lost its
\* thread, which the generation reads again; the others bring the thread along.
ReadContext(p) ==
    LET m == poller[p].msg
        next == IF HasJob(m) /\ poller[p].step = "retrying" THEN "fetching" ELSE "drafting"
    IN /\ poller[p].work = "reading"
       /\ IF HasJob(m) /\ ~ClaimIsCurrent(p, m)
          THEN NextMessage(p)
          ELSE poller' = [poller EXCEPT ![p].work = next, ![p].context = revision[m]]
       /\ Kept /\ UNCHANGED <<inbound, drafted>>

\* _fetch_kwork_thread in the generation of a retried row: what else stands in the
\* thread is not captured here, although it may lose its mark.
ReadThread(p) ==
    /\ poller[p].work = "fetching"
    /\ poller' = [poller EXCEPT ![p].work = "drafting"]
    /\ unread' \in MarkAfterRead
    /\ UNCHANGED <<kind, file, inbound, revision, reported, pass, drafted, crashes>>

\* The model fails, or the heartbeat finds the claim gone and cancels the call.
GenerationFails(p) ==
    LET m == poller[p].msg
    IN /\ poller[p].work \in {"fetching", "drafting"} /\ HasJob(m)
       /\ IF ClaimIsCurrent(p, m)
          THEN Warn(m, Released(inbound[m], TRUE))
          ELSE UNCHANGED <<inbound>>
       /\ NextMessage(p)
       /\ Kept /\ UNCHANGED drafted

\* Card, presentation and outbox row in one transaction, if the claim is current.
CommitReply(p) ==
    LET m == poller[p].msg
    IN /\ poller[p].work = "drafting"
       /\ ClaimIsCurrent(p, m) /\ revision[m] = poller[p].context
       /\ inbound' = [inbound EXCEPT ![m] = [Released(@, FALSE) EXCEPT
                          !.status = "processed", !.card = TRUE]]
       /\ drafted' = [drafted EXCEPT ![m] = poller[p].pass]
       /\ poller' = [poller EXCEPT ![p].work = "choosing", ![p].msg = NoMessage,
                         ![p].batch = @ \ {m}, ![p].context = 0, ![p].pass = 0,
                         ![p].seen = IF poller[p].step = "answering" THEN @ \cup {m} ELSE @]
       /\ Kept

\* The rows changed during the generation: the claim is released as failed, and this
\* path does not look whether that was the last attempt.
ContextChanged(p) ==
    LET m == poller[p].msg
    IN /\ poller[p].work = "drafting"
       /\ ClaimIsCurrent(p, m) /\ revision[m] # poller[p].context
       /\ inbound' = [inbound EXCEPT ![m] = Released(@, TRUE)]
       /\ NextMessage(p)
       /\ Kept /\ UNCHANGED drafted

ClaimLost(p) ==
    /\ poller[p].work = "drafting" /\ ~ClaimIsCurrent(p, poller[p].msg)
    /\ NextMessage(p)
    /\ Kept /\ UNCHANGED <<inbound, drafted>>

------------------------------------------------------------------------------
(* Operator, outbox, client, time *)

WorldSame == UNCHANGED <<kind, unread, file, poller, reported, crashes>>

\* POST /inbound/{id}/bind-job
Bind(m) ==
    /\ m \in Recorded /\ revision[m] < MaxRevisions
    /\ inbound' = [inbound EXCEPT ![m].bound = TRUE]
    /\ revision' = [revision EXCEPT ![m] = @ + 1]
    /\ WorldSame /\ UNCHANGED <<pass, drafted>>

\* POST /inbound/{id}/reprocess
Reprocess(m) ==
    /\ inbound[m].bound /\ pass[m] < MaxPasses
    /\ inbound' = [inbound EXCEPT ![m] = [NoRow EXCEPT !.status = "received", !.bound = TRUE]]
    /\ pass' = [pass EXCEPT ![m] = @ + 1]
    /\ WorldSame /\ UNCHANGED <<revision, drafted>>

\* scripts/ops_inbound_recovery.py --apply: the notified mark is left in place
Requeue(m) ==
    /\ inbound[m].status = "needs_attention" /\ ~inbound[m].card /\ pass[m] < MaxPasses
    /\ inbound' = [inbound EXCEPT ![m].status = "received", ![m].attempts = 0,
                       ![m].holder = Nobody, ![m].live = FALSE, ![m].backoff = FALSE]
    /\ pass' = [pass EXCEPT ![m] = @ + 1]
    /\ WorldSame /\ UNCHANGED <<revision, drafted>>

\* scripts/resend_last_inbox_message.py: the whole thread is read, the newest message
\* of the client alone is captured and answered; without a key the script fails.
ResendLast(p, m) ==
    /\ poller[p].step = "idle"
    /\ m \in written /\ \A n \in written : n <= m
    /\ kind[m] # "unclear"
    /\ inbound' = IF m \in Recorded THEN inbound
                  ELSE [inbound EXCEPT ![m].status = "received"]
    /\ poller' = [poller EXCEPT ![p].step = "resending", ![p].batch = {m}]
    /\ unread' \in MarkAfterRead
    /\ UNCHANGED <<kind, file, revision, reported, pass, drafted, crashes>>

\* The script ends; it has no state file.
ResendDone(p) ==
    /\ BatchDone(p, "resending")
    /\ poller' = [poller EXCEPT ![p] = Resting]
    /\ StateSame

\* The thread is read for another purpose: a card's draft is refreshed or edited, or
\* an ambiguous reply is looked for; the card may be of an earlier pass.
ThreadRead(m) ==
    /\ inbound[m].card \/ pass[m] > 0
    /\ unread' \in MarkAfterRead
    /\ UNCHANGED <<kind, file, inbound, revision, poller, reported,
                   pass, drafted, crashes>>

\* The outbox confirms the delivery of the card; the row is looked up by the card and
\* written in the same transaction.
Notified(m) ==
    /\ inbound[m].card /\ inbound[m].status = "processed"
    /\ inbound' = [inbound EXCEPT ![m].status = "notified"]
    /\ WorldSame /\ UNCHANGED <<revision, pass, drafted>>

\* A job or proposal row of the match changes.
RowsChange(m) ==
    /\ m \in Recorded /\ revision[m] < MaxRevisions
    /\ revision' = [revision EXCEPT ![m] = @ + 1]
    /\ WorldSame /\ UNCHANGED <<inbound, pass, drafted>>

ClientWrites(m) ==
    /\ m \notin written /\ \A n \in Messages : n < m => n \in written
    /\ \E k \in Kinds : kind' = [kind EXCEPT ![m] = k]
    /\ unread' = TRUE
    /\ UNCHANGED <<file, inbound, revision, poller, reported,
                   pass, drafted, crashes>>

\* An approved reply goes out and the whole dialog is marked as read with it.
ReplySent(m) ==
    /\ inbound[m].status \in {"processed", "notified"}
    /\ unread' = FALSE
    /\ UNCHANGED <<kind, file, inbound, revision, poller, reported,
                   pass, drafted, crashes>>

LeaseElapses(m) ==
    /\ inbound[m].live
    /\ inbound' = [inbound EXCEPT ![m].live = FALSE]
    /\ WorldSame /\ UNCHANGED <<revision, pass, drafted>>

BackoffElapses(m) ==
    /\ inbound[m].backoff
    /\ inbound' = [inbound EXCEPT ![m].backoff = FALSE]
    /\ WorldSame /\ UNCHANGED <<revision, pass, drafted>>

\* The process dies, or an exception ends the tick: what is not committed is gone.
Crash(p) ==
    /\ poller[p].step # "idle" /\ crashes < MaxCrashes
    /\ crashes' = crashes + 1
    /\ poller' = [poller EXCEPT ![p] = Resting]
    /\ UNCHANGED <<kind, unread, file, inbound, revision, reported,
                   pass, drafted>>

------------------------------------------------------------------------------
AnswerStep(p) ==
    \/ \E m \in Messages : Claim(p, m) \/ ClaimExhausted(p, m) \/ ClaimRefused(p, m)
    \/ ReadContext(p) \/ ReadThread(p) \/ GenerationFails(p)
    \/ CommitReply(p) \/ ContextChanged(p) \/ ClaimLost(p)

PollerStep(p) ==
    \/ Tick(p) \/ Fetch(p) \/ FetchFails(p)
    \/ \E m \in Messages : Capture(p, m)
    \/ Collected(p) \/ Save(p) \/ ResendDone(p)
    \/ AnswerStep(p)

Environment(m) ==
    \/ Bind(m) \/ Reprocess(m) \/ Requeue(m) \/ Notified(m)
    \/ RowsChange(m) \/ ClientWrites(m) \/ ReplySent(m) \/ ThreadRead(m)
    \/ LeaseElapses(m) \/ BackoffElapses(m)
    \/ \E p \in Resenders : ResendLast(p, m)

Next == \/ \E p \in Pollers : PollerStep(p) \/ Crash(p)
        \/ \E m \in Messages : Environment(m)

Spec == Init /\ [][Next]_vars

\* The lease of a poller that no longer works on the message.
AbandonedLease(m) == /\ LeaseElapses(m)
                     /\ \A p \in Pollers : poller[p].msg # m

\* Celery beat starts ticks for ever, what a poller began ends, clocks advance.
Fairness == /\ \A p \in Pollers : WF_vars(PollerStep(p))
            /\ \A m \in Messages : WF_vars(BackoffElapses(m)) /\ WF_vars(AbandonedLease(m))

FairSpec == Spec /\ Fairness

\* Ticks go on whatever scripts the operator runs besides, and the platform does not
\* refuse the thread for ever.
AnsweredSpec == FairSpec /\ \A p \in Pollers : SF_vars(Tick(p)) /\ SF_vars(Fetch(p))

------------------------------------------------------------------------------
(* Properties *)

\* Every value has its type.
TypeOK ==
    /\ kind \in [Messages -> Kinds \cup {"unwritten"}]
    /\ unread \in BOOLEAN
    /\ file \in [exists: BOOLEAN, seen: SUBSET Messages]
    /\ inbound \in [Messages -> InboundType]
    /\ revision \in [Messages -> 0..MaxRevisions]
    /\ poller \in [Pollers -> PollerType]
    /\ reported \subseteq Messages
    /\ pass \in [Messages -> 0..MaxPasses]
    /\ drafted \in [Messages -> 0..MaxPasses]
    /\ crashes \in 0..MaxCrashes

\* A poller lets go of what it has read only when it is committed or reported, unless
\* it dies: a key of the state file, saved from what some earlier tick had loaded, may
\* take a message off the list only because its row exists (check_kwork_inbox).
ReadIsKept ==
    [][\A p \in Pollers : \A m \in poller[p].todo \ poller'[p].todo :
           m \in (Recorded \cup reported)' \/ crashes' # crashes]_vars

\* The card of a message was generated after the operator's last reset of the message,
\* whatever pollers were still generating for an earlier one.
CardIsOfThisPass ==
    \A m \in Messages : inbound[m].status = "processed" => drafted[m] = pass[m]

\* A poller that generates holds an attempt of the row: pollers never spend more
\* model calls on a pass of a message than it has attempts.
RunsAreCounted ==
    \A m \in Messages :
        Cardinality({p \in Pollers : poller[p].msg = m /\ poller[p].pass = pass[m]})
            <= inbound[m].attempts

\* kwork_inbox.py:1: "Check Kwork inbox for new client messages and notify via
\* Telegram."  While no poller dies, what a client writes is committed or reported.
EventuallyCaptured ==
    \A m \in Messages : m \in written ~> m \in Recorded \cup reported

\* A committed message is answered by a card or given to the operator in the end,
\* although pollers die, leases elapse and generations fail.
EventuallyDecided ==
    \A m \in Messages : inbound[m].status = "received" ~> inbound[m].status # "received"
=============================================================================
