--------------------------- MODULE ProposalDelivery ---------------------------
(***************************************************************************)
(* The delivery of proposals for ONE job: review cards, human decisions,   *)
(* durable approvals, send attempts, the workers that call the platform,   *)
(* and the operator tools that rewrite the same rows.  Rows of different   *)
(* jobs never meet in a transaction of this code, so one job is enough.    *)
(*                                                                         *)
(* Every transaction that takes the Job/Proposal row locks is one step;    *)
(* the platform call, its finalisation and the failure handler are steps   *)
(* of their own, because no transaction is open between them.  Time is     *)
(* abstracted to what the guards compare: a lease or a back-off has        *)
(* elapsed or it has not.                                                  *)
(***************************************************************************)
EXTENDS Naturals

CONSTANTS
    MaxProposals,  \* proposals ever created for the job
    MaxVersion,    \* bound on the revisions of one proposal
    MaxCards,      \* bound on the review cards ever issued
    MaxAttempts,   \* settings.send_attempt_max_attempts
    Workers,       \* processes running ProposalSender.send
    DryRun,        \* the workers whose settings have platform_dry_run on
    Operator       \* the operator tools in use

OperatorTools == {"regenerate", "reissue", "edit_existing", "sync", "reset"}

ASSUME BoundsAssumption ==
    /\ MaxProposals \in Nat \ {0}
    /\ MaxVersion \in Nat \ {0}
    /\ MaxCards \in Nat \ {0}
    /\ MaxAttempts \in Nat \ {0}
ASSUME WorkersAssumption == DryRun \subseteq Workers
ASSUME OperatorAssumption == Operator \subseteq OperatorTools

VARIABLES
    jobStatus,  \* Job.status
    prop,       \* Proposal rows: status and version (the version names the text)
    card,       \* TelegramPending rows with their ProposalApprovalSnapshot
    approvals,  \* ProposalApprovalEvent rows
    attempts,   \* SendAttempt rows by idempotency key
    sender,     \* the local state of each worker inside ProposalSender.send
    regen,      \* the local state of scripts/regenerate_unsent_proposals.py
    offers,     \* observation: offers the platform received for the job
    offeredKeys \* observation: the keys under which they were made

observation == <<offers, offeredKeys>>
vars == <<jobStatus, prop, card, approvals, attempts, sender, regen, observation>>

Proposals == 1 .. MaxProposals
Versions == 1 .. MaxVersion
Cards == 1 .. MaxCards
Actions == {"new_offer", "edit_existing_offer"}

\* proposal_idempotency_key: one row per version, submission action and mode.
Keys == [prop : Proposals, version : Versions, action : Actions,
         mode : {"live", "simulated"}]

JobStatuses == {"new", "scored", "pending_approval", "approved", "skipped",
                "sent", "simulated_sent"}
ProposalStatuses == {"none", "pending_approval", "approved", "edited", "skipped",
                     "sent", "simulated_sent"}
CardStatuses == {"none", "pending", "approved", "edited", "skipped",
                 "superseded", "duplicate"}
AttemptStatuses == {"none", "sending", "known_failed", "unknown_result",
                    "needs_attention", "confirmed_sent"}
Submitted == {"sent", "simulated_sent"}
Outcomes == {"success", "ambiguous", "failed", "closed"}
Tokens == 0 .. MaxAttempts  \* 0 is NULL; a claim's token is its number

NoCard == [status |-> "none", prop |-> 0, version |-> 0, action |-> "none", source |-> 0]
NoAttempt == [status |-> "none", token |-> 0, count |-> 0, stale |-> FALSE,
              backoff |-> FALSE, receipt |-> FALSE]
Idle == [pc |-> "idle"]
NoRegen == [pc |-> "idle"]

CardRow == [status : CardStatuses \ {"none"}, prop : Proposals, version : Versions,
            action : Actions, source : 0 .. MaxCards]
AttemptRow == [status : AttemptStatuses, token : Tokens, count : Tokens,
               stale : BOOLEAN, backoff : BOOLEAN, receipt : BOOLEAN]
Calling == [pc : {"calling"}, key : Keys, token : Tokens]
Answered == [pc : {"answered"}, key : Keys, token : Tokens, outcome : Outcomes]
Marking == [pc : {"marking"}, key : Keys, token : Tokens]
Failing == [pc : {"failing"}, key : Keys, outcome : {"failed", "closed"}]
RegenRead == [pc : {"read"}, prop : 0 .. MaxProposals, version : Versions,
              status : ProposalStatuses]
RegenWriting == [pc : {"committed", "superseded", "announced"}, prop : Proposals]

TypeOK ==
    /\ jobStatus \in JobStatuses
    /\ prop \in [Proposals -> [status : ProposalStatuses, version : Versions]]
    /\ card \in [Cards -> CardRow \cup {NoCard}]
    /\ approvals \subseteq [prop : Proposals, version : Versions, action : Actions]
    /\ attempts \in [Keys -> AttemptRow]
    /\ sender \in [Workers -> {Idle} \cup Calling \cup Answered \cup Marking \cup Failing]
    /\ regen \in {NoRegen} \cup RegenRead \cup RegenWriting
    /\ offers \in Nat
    /\ offeredKeys \subseteq Keys

-----------------------------------------------------------------------------
(* What the guards read.                                                   *)

\* Mutant: an attempt whose result is unknown no longer blocks
BlockingWhileSending == {"sending"}

Blocking == {"sending", "unknown_result", "needs_attention"}
BlockingKeys == {k \in Keys : attempts[k].status \in Blocking}
ConfirmedKeys == {k \in Keys : attempts[k].status = "confirmed_sent"}

\* delivery_blocks_mutation
DeliveryBlocksMutation(includeConfirmed) ==
    \/ BlockingKeys # {}
    \/ includeConfirmed /\ ConfirmedKeys # {}

\* JobPipelineService.is_job_sent: some proposal of the job is submitted
IsJobSent == \E p \in Proposals : prop[p].status \in Submitted

HasSubmitted ==
    \/ jobStatus \in Submitted
    \/ IsJobSent
    \/ ConfirmedKeys # {}

HasLiveSubmitted ==
    \/ jobStatus = "sent"
    \/ \E p \in Proposals : prop[p].status = "sent"
    \/ \E k \in ConfirmedKeys : k.mode = "live"

CurrentAction == IF HasLiveSubmitted THEN "edit_existing_offer" ELSE "new_offer"

\* proposal_card_is_current: the snapshot equals the payload the rows give now
CardIsCurrent(c) ==
    /\ card[c].version = prop[card[c].prop].version
    /\ card[c].action = CurrentAction

Created(p) == prop[p].status # "none"
IsNextProposal(p) == ~Created(p) /\ \A q \in Proposals : q < p => Created(q)
IsLatest(p) == Created(p) /\ \A q \in Proposals : q > p => ~Created(q)
HasCard(p) == \E c \in Cards : card[c].status # "none" /\ card[c].prop = p
IsNextCard(c) ==
    /\ card[c].status = "none"
    /\ \A d \in Cards : d < c => card[d].status # "none"

\* A TelegramPending row and the snapshot capture_proposal_card takes
NewCard(p, version, source) ==
    [status |-> "pending", prop |-> p, version |-> version,
     action |-> CurrentAction, source |-> source]

\* _transition_job_status to pending_approval (through scored for a new job)
ReviewJobStatus == IF jobStatus \in {"new", "scored"} THEN "pending_approval" ELSE jobStatus

-----------------------------------------------------------------------------
Init ==
    /\ jobStatus \in {"new", "scored"}
    /\ prop = [p \in Proposals |-> [status |-> "none", version |-> 1]]
    /\ card = [c \in Cards |-> NoCard]
    /\ approvals = {}
    /\ attempts = [k \in Keys |-> NoAttempt]
    /\ sender = [w \in Workers |-> Idle]
    /\ regen = NoRegen
    /\ offers = 0
    /\ offeredKeys = {}

(* persist_pipeline_results with a generated text: the proposal, its card  *)
(* and the outbox row are one transaction.  The processing claim it also   *)
(* checks belongs to JobProcessing.                                        *)
PersistProposal(p, c) ==
    /\ ~DeliveryBlocksMutation(TRUE)
    /\ ~IsJobSent
    /\ jobStatus \in {"new", "scored", "skipped"}
    /\ \A q \in Proposals : prop[q].status # "pending_approval"
    /\ IsNextProposal(p)
    /\ IsNextCard(c)
    /\ prop' = [prop EXCEPT ![p].status = "pending_approval"]
    /\ card' = [card EXCEPT ![c] = NewCard(p, prop[p].version, 0)]
    /\ jobStatus' = ReviewJobStatus
    /\ UNCHANGED <<approvals, attempts, sender, regen, observation>>

-----------------------------------------------------------------------------
(* The buttons of a card, each one locked transaction.                     *)

Actionable(c) == card[c].status = "pending" /\ CardIsCurrent(c)

Approve(c) ==
    /\ Actionable(c)
    /\ IsJobSent => card[c].action = "edit_existing_offer"
    /\ approvals' = approvals \cup {[prop |-> card[c].prop, version |-> card[c].version,
                                     action |-> card[c].action]}
    /\ card' = [card EXCEPT ![c].status = "approved"]
    /\ prop' = [prop EXCEPT ![card[c].prop].status = "approved"]
    /\ UNCHANGED <<jobStatus, attempts, sender, regen, observation>>

\* Mutant: the duplicate is written to the proposal as well
ApproveDuplicateMarksProposal(c) ==
    /\ Actionable(c)
    /\ IsJobSent /\ card[c].action # "edit_existing_offer"
    /\ card' = [card EXCEPT ![c].status = "duplicate"]
    /\ prop' = [prop EXCEPT ![card[c].prop].status = "duplicate"]
    /\ UNCHANGED <<jobStatus, approvals, attempts, sender, regen, observation>>

\* Approve of a new offer for a job that already has a submitted proposal
ApproveDuplicate(c) ==
    /\ Actionable(c)
    /\ IsJobSent /\ card[c].action # "edit_existing_offer"
    /\ card' = [card EXCEPT ![c].status = "duplicate"]
    /\ UNCHANGED <<jobStatus, prop, approvals, attempts, sender, regen, observation>>

Skip(c) ==
    /\ Actionable(c)
    /\ card' = [card EXCEPT ![c].status = "skipped"]
    /\ prop' = [prop EXCEPT ![card[c].prop].status = "skipped"]
    /\ UNCHANGED <<jobStatus, approvals, attempts, sender, regen, observation>>

(* handle_edit_send: the previewed text becomes the next version, approved *)
(* by the same press.  The version the edit started from is the card's, so *)
(* comparing it again is part of CardIsCurrent.                            *)
EditSend(c) ==
    LET p == card[c].prop IN
    /\ Actionable(c)
    /\ ~DeliveryBlocksMutation(FALSE)
    /\ prop[p].version < MaxVersion
    /\ prop' = [prop EXCEPT ![p] = [status |-> "edited", version |-> @.version + 1]]
    /\ approvals' = approvals \cup {[prop |-> p, version |-> prop[p].version + 1,
                                     action |-> card[c].action]}
    /\ card' = [card EXCEPT ![c].status = "edited"]
    /\ UNCHANGED <<jobStatus, attempts, sender, regen, observation>>

-----------------------------------------------------------------------------
(* Operator tools that issue cards or rewrite proposals.                   *)

\* Mutant: the source card is left open
ReissueKeepsSource(c, d) ==
    LET p == card[c].prop IN
    /\ "reissue" \in Operator
    /\ card[c].status \in {"pending", "approved", "edited"}
    /\ ~HasLiveSubmitted /\ ~DeliveryBlocksMutation(FALSE)
    /\ IsNextCard(d)
    /\ card' = [card EXCEPT ![d] = NewCard(p, prop[p].version, 0)]
    /\ prop' = [prop EXCEPT ![p].status = "pending_approval"]
    /\ jobStatus' = "pending_approval"
    /\ UNCHANGED <<approvals, attempts, sender, regen, observation>>

(* reissue_review: the source becomes superseded, so a second request for  *)
(* it changes nothing.                                                     *)
Reissue(c, d) ==
    LET p == card[c].prop IN
    /\ "reissue" \in Operator
    /\ card[c].status \in {"pending", "approved", "edited"}
    /\ ~HasLiveSubmitted
    /\ jobStatus \in {"new", "scored", "pending_approval", "approved", "simulated_sent"}
    /\ prop[p].status \in {"pending_approval", "approved", "edited", "simulated_sent"}
    /\ ~DeliveryBlocksMutation(FALSE)
    /\ IsNextCard(d)
    /\ card' = [card EXCEPT ![d] = NewCard(p, prop[p].version, 0),
                           ![c].status = "superseded"]
    /\ prop' = [prop EXCEPT ![p].status = "pending_approval"]
    /\ jobStatus' = "pending_approval"
    /\ UNCHANGED <<approvals, attempts, sender, regen, observation>>

(* queue_edit_existing_proposal_review: the snapshot is taken before the   *)
(* statuses are rewritten; the source keeps its status, and the outbox key *)
(* of the source allows one such card per source.                          *)
QueueEditExisting(c, d) ==
    LET p == card[c].prop IN
    /\ "edit_existing" \in Operator
    /\ card[c].status # "none"
    /\ \A e \in Cards : card[e].source # c
    /\ HasSubmitted
    /\ ~DeliveryBlocksMutation(TRUE)
    /\ IsNextCard(d)
    /\ card' = [card EXCEPT ![d] = NewCard(p, prop[p].version, c)]
    /\ prop' = [prop EXCEPT ![p].status = "pending_approval"]
    /\ jobStatus' = "pending_approval"
    /\ UNCHANGED <<approvals, attempts, sender, regen, observation>>

\* sync_project_ids: the site lists an offer of ours for this job
SyncSubmittedOffer(p) ==
    /\ "sync" \in Operator
    /\ Created(p)
    /\ ~(prop[p].status = "sent" /\ jobStatus = "sent")
    /\ prop' = [prop EXCEPT ![p].status = "sent"]
    /\ jobStatus' = "sent"
    /\ UNCHANGED <<card, approvals, attempts, sender, regen, observation>>

ResetFalseSent ==
    /\ "reset" \in Operator
    /\ \E p \in Proposals : prop[p].status = "sent"
    /\ prop' = [p \in Proposals |->
                  IF prop[p].status = "sent"
                  THEN [prop[p] EXCEPT !.status = "pending_approval"] ELSE prop[p]]
    /\ jobStatus' = "pending_approval"
    /\ UNCHANGED <<card, approvals, attempts, sender, regen, observation>>

(* queue_proposal_review returns the existing outbox row or card if the    *)
(* proposal ever had one, whatever its version and status.                 *)
QueueProposalReview(p) ==
    IF HasCard(p) THEN UNCHANGED card
    ELSE \E c \in Cards : IsNextCard(c) /\ card' = [card EXCEPT ![c] = NewCard(p, prop[p].version, 0)]

\* notify_new_proposal from the resend script, for a proposal awaiting review
ResendAlert(p) ==
    /\ prop[p].status = "pending_approval" /\ ~HasCard(p)
    /\ QueueProposalReview(p)
    /\ UNCHANGED <<jobStatus, prop, approvals, attempts, sender, regen, observation>>

-----------------------------------------------------------------------------
(* scripts/regenerate_unsent_proposals.py: regenerate_proposal reads a     *)
(* revision, runs the LLM with no transaction open, and commits only if    *)
(* the revision is unchanged; then the old cards are superseded and the    *)
(* new text is announced, each in a transaction of its own.                *)

RegenerateRead(p) ==
    /\ "regenerate" \in Operator
    /\ regen = NoRegen
    /\ ~IsJobSent
    /\ jobStatus # "new"  \* Job.is_relevant is set when the job is scored
    /\ ~DeliveryBlocksMutation(TRUE)
    /\ \/ IsLatest(p) /\ regen' = [pc |-> "read", prop |-> p, version |-> prop[p].version,
                                   status |-> prop[p].status]
       \/ /\ IsNextProposal(p) /\ \A q \in Proposals : ~Created(q)
          /\ regen' = [pc |-> "read", prop |-> 0, version |-> 1, status |-> "none"]
    /\ UNCHANGED <<jobStatus, prop, card, approvals, attempts, sender, observation>>

\* Mutant: deliveries are looked at before the LLM call only
RegenerateAllowedOnRead == jobStatus \notin Submitted

RegenerateAllowed == jobStatus \notin Submitted /\ ~DeliveryBlocksMutation(TRUE)

RevisionUnchanged ==
    IF regen.prop = 0 THEN \A q \in Proposals : ~Created(q)
    ELSE /\ IsLatest(regen.prop)
         /\ prop[regen.prop] = [status |-> regen.status, version |-> regen.version]

RegenerateCommit(p) ==
    /\ regen.pc = "read"
    /\ RegenerateAllowed /\ RevisionUnchanged
    /\ p = (IF regen.prop = 0 THEN 1 ELSE regen.prop)
    /\ prop[p].status \notin Submitted
    /\ regen.prop # 0 => prop[p].version < MaxVersion
    /\ prop' = [prop EXCEPT ![p] =
                  [status |-> "pending_approval",
                   version |-> IF regen.prop = 0 THEN @.version ELSE @.version + 1]]
    /\ jobStatus' = ReviewJobStatus
    /\ regen' = [pc |-> "committed", prop |-> p]
    /\ UNCHANGED <<card, approvals, attempts, sender, observation>>

\* A stale revision is discarded; an LLM failure or a crash also ends the script
RegenerateEnd ==
    /\ regen # NoRegen
    /\ regen' = NoRegen
    /\ UNCHANGED <<jobStatus, prop, card, approvals, attempts, sender, observation>>

SupersedeTelegramPending ==
    /\ regen.pc = "committed"
    /\ card' = [c \in Cards |-> IF card[c].status = "pending"
                                THEN [card[c] EXCEPT !.status = "superseded"] ELSE card[c]]
    /\ regen' = [pc |-> "superseded", prop |-> regen.prop]
    /\ UNCHANGED <<jobStatus, prop, approvals, attempts, sender, observation>>

RegenerateNotify ==
    /\ regen.pc = "superseded"
    /\ QueueProposalReview(regen.prop)
    /\ regen' = [pc |-> "announced", prop |-> regen.prop]
    /\ UNCHANGED <<jobStatus, prop, approvals, attempts, sender, observation>>

-----------------------------------------------------------------------------
(* ProposalSender.send: prepare and claim, call, finalise, handle failure. *)

KeyFor(w, p) == [prop |-> p, version |-> prop[p].version, action |-> CurrentAction,
                 mode |-> IF w \in DryRun THEN "simulated" ELSE "live"]

\* Mutant: an approval of any version of the text counts
HasMatchingApprovalAnyVersion(p) ==
    \E a \in approvals : a.prop = p /\ a.action = CurrentAction

\* Mutant: an approval to offer also approves editing an existing offer
HasMatchingApprovalAnyAction(p) ==
    \E a \in approvals : a.prop = p /\ a.version = prop[p].version

\* matching_proposal_approval: an event for the payload the rows give now
HasMatchingApproval(p) ==
    [prop |-> p, version |-> prop[p].version, action |-> CurrentAction] \in approvals

(* The checks of prepare_proposal_send before the claim.  The submission   *)
(* action is the one of the matching approval, so it agrees with the       *)
(* job's live state, and a "sent" proposal fails the status check.         *)
MayPrepare(p) ==
    /\ HasMatchingApproval(p)
    /\ prop[p].status \in {"approved", "edited", "simulated_sent"}

\* Mutant: an elapsed lease is taken for a definite failure
ExpiredAsFailed(a) == [a EXCEPT !.status = "known_failed", !.token = 0, !.stale = FALSE]

Expired(a) == [a EXCEPT !.status = "unknown_result", !.token = 0, !.stale = FALSE]

(* _claim_locked meets a blocking attempt first: it only expires a lease   *)
(* that has elapsed, and the caller is told "blocked".                     *)
ClaimExpiresStale(w, p, k) ==
    /\ sender[w] = Idle
    /\ MayPrepare(p)
    /\ attempts[k].status = "sending" /\ attempts[k].stale
    /\ attempts' = [attempts EXCEPT ![k] = Expired(@)]
    /\ UNCHANGED <<jobStatus, prop, card, approvals, sender, regen, observation>>

\* Mutant: only attempts under the claim's own key are looked at
ClaimOwnKeyOnly(w, p) ==
    LET k == KeyFor(w, p) IN
    /\ sender[w] = Idle
    /\ MayPrepare(p)
    /\ attempts[k].status \in {"none", "known_failed"} /\ ~attempts[k].backoff
    /\ attempts' = [attempts EXCEPT ![k].status = "sending", ![k].count = @ + 1,
                                   ![k].token = attempts[k].count + 1]
    /\ sender' = [sender EXCEPT ![w] = [pc |-> "calling", key |-> k,
                                       token |-> attempts[k].count + 1]]
    /\ UNCHANGED <<jobStatus, prop, card, approvals, regen, observation>>

(* No attempt of the job blocks.  A confirmed key is "already_sent", an    *)
(* elapsed back-off is required, and a key out of attempts needs a human.  *)
Claim(w, p) ==
    LET k == KeyFor(w, p) IN
    /\ sender[w] = Idle
    /\ MayPrepare(p)
    /\ BlockingKeys = {}
    /\ attempts[k].status \in {"none", "known_failed"}
    /\ ~attempts[k].backoff
    /\ IF attempts[k].count >= MaxAttempts
       THEN /\ attempts' = [attempts EXCEPT ![k].status = "needs_attention"]
            /\ UNCHANGED sender
       ELSE /\ attempts' = [attempts EXCEPT ![k].status = "sending", ![k].count = @ + 1,
                                           ![k].token = attempts[k].count + 1]
            /\ sender' = [sender EXCEPT ![w] = [pc |-> "calling", key |-> k,
                                               token |-> attempts[k].count + 1]]
    /\ UNCHANGED <<jobStatus, prop, card, approvals, regen, observation>>

(* _send_to_platform.  A dry run succeeds without a call.  A live call     *)
(* that may have pressed the button answers "ambiguous", even on success   *)
(* (payload_receipt_unverified); a definite failure happened before it.    *)
PlatformCall(w, outcome, effect) ==
    LET k == sender[w].key IN
    /\ sender[w].pc = "calling"
    /\ (outcome = "success") <=> (w \in DryRun)
    /\ effect => outcome = "ambiguous"
    /\ sender' = [sender EXCEPT ![w] = [pc |-> "answered", key |-> k,
                                       token |-> sender[w].token, outcome |-> outcome]]
    /\ IF effect THEN offers' = offers + 1 /\ offeredKeys' = offeredKeys \cup {k}
                 ELSE UNCHANGED observation
    /\ UNCHANGED <<jobStatus, prop, card, approvals, attempts, regen>>

(* _apply_confirmed_send of a simulated attempt: the proposal only if it   *)
(* is still the version of the snapshot, the job always.                   *)
ApplyConfirmedSend(k) ==
    LET status == IF k.mode = "simulated" THEN "simulated_sent" ELSE "sent" IN
    /\ prop' = [prop EXCEPT ![k.prop].status = IF prop[k.prop].version = k.version
                                              THEN status ELSE @]
    /\ jobStatus' = status

\* Mutant: the claim token is not compared
HoldsClaimUnchecked(w) == attempts[sender[w].key].status # "none"

HoldsClaim(w) ==
    /\ attempts[sender[w].key].status = "sending"
    /\ attempts[sender[w].key].token = sender[w].token

Return(w) == sender' = [sender EXCEPT ![w] = Idle]

Settled(a, status) == [a EXCEPT !.status = status, !.token = 0, !.stale = FALSE]

(* What finalize_send_attempt writes.  A definite failure backs off, or     *)
(* needs attention after the last attempt; but it is stored as unknown when *)
(* the wording of its error looks like a timeout (is_ambiguous_send_error), *)
(* which the text of a closed order never does.                             *)
RecordOutcome(w) ==
    LET k == sender[w].key
        outcome == sender[w].outcome IN
    \/ /\ outcome = "success"
       /\ attempts' = [attempts EXCEPT ![k] =
                            [Settled(@, "confirmed_sent") EXCEPT !.receipt = TRUE]]
       /\ ApplyConfirmedSend(k)
    \/ /\ outcome \in {"ambiguous", "failed"}
       /\ attempts' = [attempts EXCEPT ![k] = Settled(@, "unknown_result")]
       /\ UNCHANGED <<jobStatus, prop>>
    \/ /\ outcome \in {"failed", "closed"}
       /\ attempts' = [attempts EXCEPT ![k] =
                IF @.count >= MaxAttempts THEN Settled(@, "needs_attention")
                ELSE [Settled(@, "known_failed") EXCEPT !.backoff = TRUE]]
       /\ UNCHANGED <<jobStatus, prop>>

FinalizeSendAttempt(w) ==
    /\ sender[w].pc = "answered" /\ HoldsClaim(w)
    /\ RecordOutcome(w)
    /\ sender' = [sender EXCEPT ![w] =
            IF sender[w].outcome \in {"failed", "closed"}
            THEN [pc |-> "failing", key |-> sender[w].key, outcome |-> sender[w].outcome]
            ELSE Idle]
    /\ UNCHANGED <<card, approvals, regen, observation>>

\* The claim was expired or settled meanwhile: "stale_claim", nothing written
FinalizeRejected(w) ==
    /\ sender[w].pc = "answered" /\ ~HoldsClaim(w)
    /\ Return(w)
    /\ UNCHANGED <<jobStatus, prop, card, approvals, attempts, regen, observation>>

(* The commit of finalize raises: it was rolled back, or the server had    *)
(* applied it and the connection broke.  Only a success goes on to         *)
(* mark_unknown_after_commit_failure, in a new transaction.                *)
FinalizeCommitFails(w) ==
    /\ sender[w].pc = "answered" /\ HoldsClaim(w)
    /\ RecordOutcome(w) \/ UNCHANGED <<attempts, jobStatus, prop>>
    /\ sender' = [sender EXCEPT ![w] =
            IF sender[w].outcome = "success"
            THEN [pc |-> "marking", key |-> sender[w].key, token |-> sender[w].token]
            ELSE Idle]
    /\ UNCHANGED <<card, approvals, regen, observation>>

\* Mutant: the delivery is shown as sent although its commit failed
MarkUnknownAppliesSend(w) ==
    LET k == sender[w].key IN
    /\ sender[w].pc = "marking" /\ HoldsClaim(w)
    /\ attempts' = [attempts EXCEPT ![k] = [Settled(@, "unknown_result") EXCEPT !.receipt = TRUE]]
    /\ ApplyConfirmedSend(k)
    /\ Return(w)
    /\ UNCHANGED <<card, approvals, regen, observation>>

MarkUnknownAfterCommitFailure(w) ==
    LET k == sender[w].key IN
    /\ sender[w].pc = "marking"
    /\ attempts' = IF HoldsClaim(w)
                   THEN [attempts EXCEPT ![k] =
                            [Settled(@, "unknown_result") EXCEPT !.receipt = TRUE]]
                   ELSE attempts
    /\ Return(w)
    /\ UNCHANGED <<jobStatus, prop, card, approvals, regen, observation>>

(* _handle_send_failure: a later transaction, without row locks and        *)
(* without looking at the statuses it overwrites.  It follows every answer *)
(* that was not told as ambiguous, so also one finalize stored as unknown. *)
HandleSendFailure(w) ==
    LET p == sender[w].key.prop
        closed == sender[w].outcome = "closed"
        status == IF closed THEN "skipped" ELSE "approved" IN
    /\ sender[w].pc = "failing"
    /\ prop' = [prop EXCEPT ![p].status = status]
    /\ jobStatus' = status
    /\ card' = [c \in Cards |->
            IF closed /\ card[c].prop = p /\ card[c].status \in {"approved", "edited"}
            THEN [card[c] EXCEPT !.status = "skipped"] ELSE card[c]]
    /\ Return(w)
    /\ UNCHANGED <<approvals, attempts, regen, observation>>

\* The process dies, or an exception leaves send, at any point
Crash(w) ==
    /\ sender[w] # Idle
    /\ Return(w)
    /\ UNCHANGED <<jobStatus, prop, card, approvals, attempts, regen, observation>>

-----------------------------------------------------------------------------
(* Reconciliation and the passing of time.                                 *)

\* Mutant: any unknown result is confirmed
ReconcileWithoutReceipt(k) ==
    /\ attempts[k].status = "unknown_result"
    /\ attempts' = [attempts EXCEPT ![k].status = "confirmed_sent"]
    /\ ApplyConfirmedSend(k)
    /\ UNCHANGED <<card, approvals, sender, regen, observation>>

\* _reconcile_kwork_proposal confirms only a dry run with its own receipt
Reconcile(k) ==
    /\ DryRun # {}
    /\ attempts[k].status = "unknown_result" /\ attempts[k].receipt
    /\ attempts' = [attempts EXCEPT ![k].status = "confirmed_sent"]
    /\ ApplyConfirmedSend(k)
    /\ UNCHANGED <<card, approvals, sender, regen, observation>>

MarkInconclusive(k) ==
    /\ attempts[k].status = "unknown_result"
    /\ attempts' = [attempts EXCEPT ![k].status = "needs_attention"]
    /\ UNCHANGED <<jobStatus, prop, card, approvals, sender, regen, observation>>

LeaseElapses(k) ==
    /\ attempts[k].status = "sending" /\ ~attempts[k].stale
    /\ attempts' = [attempts EXCEPT ![k].stale = TRUE]
    /\ UNCHANGED <<jobStatus, prop, card, approvals, sender, regen, observation>>

BackoffElapses(k) ==
    /\ attempts[k].backoff
    /\ attempts' = [attempts EXCEPT ![k].backoff = FALSE]
    /\ UNCHANGED <<jobStatus, prop, card, approvals, sender, regen, observation>>

-----------------------------------------------------------------------------
Review ==
    \/ \E p \in Proposals, c \in Cards : PersistProposal(p, c)
    \/ \E c \in Cards : Approve(c) \/ ApproveDuplicate(c) \/ Skip(c) \/ EditSend(c)

Tools ==
    \/ \E c, d \in Cards : Reissue(c, d) \/ QueueEditExisting(c, d)
    \/ \E p \in Proposals : \/ SyncSubmittedOffer(p) \/ ResendAlert(p)
                            \/ RegenerateRead(p) \/ RegenerateCommit(p)
    \/ ResetFalseSent
    \/ SupersedeTelegramPending \/ RegenerateNotify \/ RegenerateEnd

Send(w) ==
    \/ \E p \in Proposals : Claim(w, p) \/ \E k \in Keys : ClaimExpiresStale(w, p, k)
    \/ \E outcome \in Outcomes, effect \in BOOLEAN : PlatformCall(w, outcome, effect)
    \/ FinalizeSendAttempt(w) \/ FinalizeRejected(w) \/ FinalizeCommitFails(w)
    \/ MarkUnknownAfterCommitFailure(w)
    \/ HandleSendFailure(w)
    \/ Crash(w)

Environment == \E k \in Keys : \/ Reconcile(k) \/ MarkInconclusive(k)
                               \/ LeaseElapses(k) \/ BackoffElapses(k)

Next == Review \/ Tools \/ Environment \/ \E w \in Workers : Send(w)

Spec == Init /\ [][Next]_vars
-----------------------------------------------------------------------------
(* Properties.                                                             *)

(* However approvals, retries, expired leases, commit failures and crashes *)
(* interleave, the platform receives at most one offer for the job.        *)
AtMostOneOffer == offers <= 1

(* _claim_locked opens an attempt only while no other attempt of the job,  *)
(* of any proposal, version, action or mode, is sending or unresolved.     *)
OneBlockingAttempt == \A k, l \in BlockingKeys : k = l

(* What reached the platform was approved by a human in exactly that       *)
(* version and for that submission action, however the rows moved between  *)
(* the press and the call.                                                 *)
OfferWasApproved ==
    \A k \in offeredKeys :
        [prop |-> k.prop, version |-> k.version, action |-> k.action] \in approvals

(* While an attempt is sending or unresolved nobody replaces the text it   *)
(* carries, so a late confirmation or a human reconciling it still finds   *)
(* the version that may be at the client.                                  *)
InFlightTextIsCurrent ==
    \A k \in BlockingKeys : prop[k.prop].version = k.version

(* "Sent means a confirmed delivery": a proposal or job shown as simulated *)
(* sent is backed by a confirmed dry-run attempt, for the proposal in its  *)
(* present version.                                                        *)
SimulatedMeansConfirmed ==
    /\ \A p \in Proposals : prop[p].status = "simulated_sent" =>
          \E k \in ConfirmedKeys : /\ k.prop = p /\ k.mode = "simulated"
                                   /\ k.version = prop[p].version
    /\ jobStatus = "simulated_sent" => \E k \in ConfirmedKeys : k.mode = "simulated"

(* Two live cards for one proposal would let two presses decide it twice;  *)
(* issuing, re-issuing, editing and superseding leave at most one.         *)
OneActionableCard ==
    \A c, d \in Cards :
        Actionable(c) /\ Actionable(d) /\ card[c].prop = card[d].prop => c = d

(* A commit that raised although the server applied it, a reconciliation   *)
(* or a late worker never takes a confirmed attempt back.                  *)
ConfirmedIsFinal ==
    [][\A k \in ConfirmedKeys : attempts'[k].status = "confirmed_sent"]_vars

(* operator-review-reissue.md: a re-issued card "requires a separate human *)
(* approval".  No delivery starts while a card of the proposal is still    *)
(* waiting for its decision.                                               *)
NoClaimWhileUndecided ==
    [][\A w \in Workers : sender[w] = Idle /\ sender'[w].pc = "calling" =>
          \A c \in Cards : card[c].status = "pending"
                         => card[c].prop # sender'[w].key.prop]_vars

-----------------------------------------------------------------------------
(* The strengthening that makes the safety invariants inductive.           *)

\* A live worker between its claim and its finalisation
LiveCarrier(w) == w \notin DryRun /\ sender[w].pc \in {"calling", "answered"}

(* Modes never mix: a dry-run worker holds simulated keys and only ever    *)
(* succeeds; a live worker never succeeds; only simulated attempts have a  *)
(* dry-run receipt, and only live keys reach the platform.                 *)
ModesAgree ==
    /\ \A w \in Workers : sender[w] # Idle =>
          (sender[w].key.mode = "simulated" <=> w \in DryRun)
    /\ \A w \in Workers : sender[w].pc = "answered" =>
          (sender[w].outcome = "success" <=> w \in DryRun)
    /\ \A w \in Workers : sender[w].pc = "marking" => w \in DryRun
    /\ \A k \in Keys : attempts[k].receipt => k.mode = "simulated"
    /\ \A k \in offeredKeys : k.mode = "live"

(* The attempt of a live worker blocks the job until that worker settles   *)
(* it, expired or not; so there is at most one such worker, and before its *)
(* call, or after a definite failure, nothing was offered under its key.   *)
CarriersBlock ==
    /\ \A w \in Workers : LiveCarrier(w) => sender[w].key \in BlockingKeys
    /\ \A v, w \in Workers : LiveCarrier(v) /\ LiveCarrier(w) => v = w
    /\ \A w \in Workers : LiveCarrier(w) /\ sender[w].key \in offeredKeys =>
          sender[w].pc = "answered" /\ sender[w].outcome = "ambiguous"

\* A key under which an offer was made blocks the job for good
OffersBlock ==
    /\ offeredKeys \subseteq BlockingKeys
    /\ offers = 0 <=> offeredKeys = {}

\* Every claim was approved, so what its call offers is
CarriersApproved ==
    \A w \in Workers : sender[w].pc = "calling" =>
        [prop |-> sender[w].key.prop, version |-> sender[w].key.version,
         action |-> sender[w].key.action] \in approvals

\* What concerns the attempts, the workers that hold them and the platform
SendInv ==
    /\ TypeOK
    /\ OneBlockingAttempt
    /\ ModesAgree
    /\ CarriersBlock
    /\ OffersBlock
    /\ AtMostOneOffer
    /\ CarriersApproved
    /\ OfferWasApproved
    /\ InFlightTextIsCurrent

Standing(c) == card[c].status \in {"pending", "approved", "edited"}

(* A proposal has at most one card that is waiting or decided for sending, *)
(* unless edit_existing, which leaves its source as it was, is in use; and *)
(* whatever has a card, or is to get one, is a proposal that exists.       *)
CardInv ==
    /\ \A c \in Cards : card[c].status # "none" => Created(card[c].prop)
    /\ regen.pc \in {"committed", "superseded", "announced"} => Created(regen.prop)
    /\ "edit_existing" \notin Operator =>
          \A c, d \in Cards :
              Standing(c) /\ Standing(d) /\ card[c].prop = card[d].prop => c = d

IInv == SendInv /\ SimulatedMeansConfirmed /\ CardInv

-----------------------------------------------------------------------------
(* The abstract promise.                                                   *)

Phase ==
    IF \E k \in Keys : attempts[k].status = "sending" THEN "delivering"
    ELSE IF \E k \in Keys : attempts[k].status = "unknown_result" /\ attempts[k].receipt
    THEN "rehearsed"
    ELSE IF BlockingKeys # {} THEN "uncertain"
    ELSE "open"

Promise == INSTANCE DeliveryPromise WITH phase <- Phase, offers <- offers

(* Every step of the detailed system is a step of the promise, or none.    *)
KeepsPromise == Promise!Spec
=============================================================================
