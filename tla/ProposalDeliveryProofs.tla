------------------------- MODULE ProposalDeliveryProofs -------------------------
(***************************************************************************)
(* Proofs about ProposalDelivery, for every number of proposals, versions, *)
(* cards, attempts and workers, every mix of live and dry-run workers and  *)
(* every set of operator tools.                                            *)
(***************************************************************************)
EXTENDS ProposalDelivery, TLAPS

USE BoundsAssumption, WorkersAssumption

-----------------------------------------------------------------------------
(* Lemmas about the types of what an action reads.                         *)

\* A card that was issued is a row, not the placeholder of an unused one.
LEMMA IssuedCard ==
    ASSUME TypeOK, NEW c \in Cards, card[c].status # "none"
    PROVE  /\ card[c] \in CardRow
           /\ card[c].prop \in Proposals
           /\ card[c].version \in Versions
           /\ card[c].action \in Actions
BY DEF TypeOK, CardRow, NoCard

\* The submission action a card or a claim is made for is one of the two.
LEMMA CurrentActionType == CurrentAction \in Actions
BY DEF CurrentAction, Actions

\* A card taken from the current rows is a row.
LEMMA NewCardType ==
    ASSUME TypeOK, NEW p \in Proposals, NEW source \in 0 .. MaxCards
    PROVE  NewCard(p, prop[p].version, source) \in CardRow
BY CurrentActionType DEF TypeOK, NewCard, CardRow, CardStatuses

\* The program counter of a worker tells which fields its state has.
LEMMA WorkerState ==
    ASSUME TypeOK, NEW w \in Workers
    PROVE  /\ sender[w].pc = "calling" => sender[w] \in Calling
           /\ sender[w].pc = "answered" => sender[w] \in Answered
           /\ sender[w].pc = "marking" => sender[w] \in Marking
           /\ sender[w].pc = "failing" => sender[w] \in Failing
           /\ sender[w] # Idle => sender[w].key \in Keys
BY DEF TypeOK, Idle, Calling, Answered, Marking, Failing

\* The key of a worker's claim is a key.
LEMMA KeyForType ==
    ASSUME TypeOK, NEW w \in Workers, NEW p \in Proposals
    PROVE  KeyFor(w, p) \in Keys
BY CurrentActionType DEF TypeOK, KeyFor, Keys

\* What the transactions write into an attempt row is again a row.
LEMMA AttemptUpdates ==
    ASSUME NEW a \in AttemptRow
    PROVE  /\ \A status \in AttemptStatuses : Settled(a, status) \in AttemptRow
           /\ \A status \in AttemptStatuses : [a EXCEPT !.status = status] \in AttemptRow
           /\ Expired(a) \in AttemptRow
           /\ [a EXCEPT !.receipt = TRUE] \in AttemptRow
           /\ [a EXCEPT !.stale = TRUE] \in AttemptRow
           /\ \A b \in BOOLEAN : [a EXCEPT !.backoff = b] \in AttemptRow
<1>1. 0 \in Tokens
  BY DEF Tokens
<1>2. "unknown_result" \in AttemptStatuses
  BY DEF AttemptStatuses
<1> QED
  BY <1>1, <1>2 DEF AttemptRow, Settled, Expired

-----------------------------------------------------------------------------
(* Type correctness.                                                       *)

\* The program starts in a state of the declared types.
LEMMA InitTypeOK == Init => TypeOK
BY DEF Init, TypeOK, Proposals, Versions, Cards, Tokens, JobStatuses, ProposalStatuses,
       AttemptRow, AttemptStatuses, NoAttempt

\* The buttons and the pipeline keep the types.
LEMMA ReviewTypeOK == TypeOK /\ Review => TypeOK'
<1> SUFFICES ASSUME TypeOK, Review PROVE TypeOK'
  OBVIOUS
<1>1. ASSUME NEW p \in Proposals, NEW c \in Cards, PersistProposal(p, c) PROVE TypeOK'
  <2>1. NewCard(p, prop[p].version, 0) \in CardRow
    BY NewCardType
  <2> QED
    BY <1>1, <2>1 DEF PersistProposal, TypeOK, ReviewJobStatus, JobStatuses,
                      ProposalStatuses, observation
<1>2. ASSUME NEW c \in Cards, Approve(c) PROVE TypeOK'
  <2>1. card[c] \in CardRow /\ card[c].prop \in Proposals
        /\ card[c].version \in Versions /\ card[c].action \in Actions
    BY <1>2, IssuedCard DEF Approve, Actionable
  <2>2. [card[c] EXCEPT !.status = "approved"] \in CardRow
    BY <2>1 DEF CardRow, CardStatuses
  <2> QED
    BY <1>2, <2>1, <2>2 DEF Approve, TypeOK, ProposalStatuses, observation
<1>3. ASSUME NEW c \in Cards, ApproveDuplicate(c) PROVE TypeOK'
  <2>1. [card[c] EXCEPT !.status = "duplicate"] \in CardRow
    BY <1>3, IssuedCard DEF ApproveDuplicate, Actionable, CardRow, CardStatuses
  <2> QED
    BY <1>3, <2>1 DEF ApproveDuplicate, TypeOK, observation
<1>4. ASSUME NEW c \in Cards, Skip(c) PROVE TypeOK'
  <2>1. card[c].prop \in Proposals /\ [card[c] EXCEPT !.status = "skipped"] \in CardRow
    BY <1>4, IssuedCard DEF Skip, Actionable, CardRow, CardStatuses
  <2> QED
    BY <1>4, <2>1 DEF Skip, TypeOK, ProposalStatuses, observation
<1>5. ASSUME NEW c \in Cards, EditSend(c) PROVE TypeOK'
  <2>1. card[c].prop \in Proposals /\ card[c].action \in Actions
        /\ [card[c] EXCEPT !.status = "edited"] \in CardRow
    BY <1>5, IssuedCard DEF EditSend, Actionable, CardRow, CardStatuses
  <2>2. prop[card[c].prop].version + 1 \in Versions
    BY <1>5, <2>1 DEF EditSend, TypeOK, Versions
  <2> QED
    BY <1>5, <2>1, <2>2 DEF EditSend, TypeOK, ProposalStatuses, observation
<1> QED
  BY <1>1, <1>2, <1>3, <1>4, <1>5 DEF Review

\* The operator tools keep the types.
LEMMA ToolsTypeOK == TypeOK /\ Tools => TypeOK'
<1> SUFFICES ASSUME TypeOK, Tools PROVE TypeOK'
  OBVIOUS
<1>1. ASSUME NEW c \in Cards, NEW d \in Cards, Reissue(c, d) PROVE TypeOK'
  <2>1. card[c] \in CardRow /\ card[c].prop \in Proposals
    BY <1>1, IssuedCard DEF Reissue
  <2>2. NewCard(card[c].prop, prop[card[c].prop].version, 0) \in CardRow
    BY <2>1, NewCardType
  <2>3. [card[c] EXCEPT !.status = "superseded"] \in CardRow
    BY <2>1 DEF CardRow, CardStatuses
  <2>4. c # d
    BY <1>1 DEF Reissue, IsNextCard
  <2> QED
    BY <1>1, <2>1, <2>2, <2>3, <2>4 DEF Reissue, TypeOK, ProposalStatuses, JobStatuses, observation
<1>2. ASSUME NEW c \in Cards, NEW d \in Cards, QueueEditExisting(c, d) PROVE TypeOK'
  <2>1. card[c].prop \in Proposals
    BY <1>2, IssuedCard DEF QueueEditExisting
  <2>2. NewCard(card[c].prop, prop[card[c].prop].version, c) \in CardRow
    BY <2>1, NewCardType DEF Cards
  <2> QED
    BY <1>2, <2>1, <2>2 DEF QueueEditExisting, TypeOK, ProposalStatuses, JobStatuses, observation
<1>3. ASSUME NEW p \in Proposals, SyncSubmittedOffer(p) PROVE TypeOK'
  BY <1>3 DEF SyncSubmittedOffer, TypeOK, ProposalStatuses, JobStatuses, observation
<1>4. ASSUME NEW p \in Proposals, QueueProposalReview(p)
      PROVE  card' \in [Cards -> CardRow \cup {NoCard}]
  <2>1. NewCard(p, prop[p].version, 0) \in CardRow
    BY NewCardType
  <2> QED
    BY <1>4, <2>1 DEF QueueProposalReview, TypeOK
<1>5. ASSUME NEW p \in Proposals, ResendAlert(p) PROVE TypeOK'
  BY <1>4, <1>5 DEF ResendAlert, TypeOK, observation
<1>6. ASSUME NEW p \in Proposals, RegenerateRead(p) PROVE TypeOK'
  <2>1. [pc |-> "read", prop |-> p, version |-> prop[p].version, status |-> prop[p].status]
            \in RegenRead
    BY DEF TypeOK, RegenRead, Proposals
  <2>2. [pc |-> "read", prop |-> 0, version |-> 1, status |-> "none"] \in RegenRead
    BY DEF RegenRead, Versions, ProposalStatuses
  <2> QED
    BY <1>6, <2>1, <2>2 DEF RegenerateRead, TypeOK, observation
<1>7. ASSUME NEW p \in Proposals, RegenerateCommit(p) PROVE TypeOK'
  <2>1. regen.prop # 0 => prop[p].version + 1 \in Versions
    BY <1>7 DEF RegenerateCommit, TypeOK, Versions
  <2>2. [pc |-> "committed", prop |-> p] \in RegenWriting
    BY DEF RegenWriting
  <2> QED
    BY <1>7, <2>1, <2>2 DEF RegenerateCommit, TypeOK, ReviewJobStatus, JobStatuses,
                            ProposalStatuses, observation
<1>8. ASSUME ResetFalseSent PROVE TypeOK'
  BY <1>8 DEF ResetFalseSent, TypeOK, ProposalStatuses, JobStatuses, observation
<1>9. regen.pc \in {"committed", "superseded"} => regen.prop \in Proposals
  BY DEF TypeOK, NoRegen, RegenRead, RegenWriting
<1>10. ASSUME SupersedeTelegramPending PROVE TypeOK'
  <2>1. \A c \in Cards : card[c].status = "pending" =>
            [card[c] EXCEPT !.status = "superseded"] \in CardRow
    BY IssuedCard DEF CardRow, CardStatuses
  <2> QED
    BY <1>9, <1>10, <2>1 DEF SupersedeTelegramPending, TypeOK, RegenWriting, observation
<1>11. ASSUME RegenerateNotify PROVE TypeOK'
  BY <1>4, <1>9, <1>11 DEF RegenerateNotify, TypeOK, RegenWriting, observation
<1>12. ASSUME RegenerateEnd PROVE TypeOK'
  BY <1>12 DEF RegenerateEnd, TypeOK, observation
<1> QED
  BY <1>1, <1>2, <1>3, <1>5, <1>6, <1>7, <1>8, <1>10, <1>11, <1>12 DEF Tools

\* What finalize writes about an answered call has the types of the rows.
LEMMA RecordOutcomeType ==
    ASSUME TypeOK, NEW w \in Workers, sender[w].pc = "answered", RecordOutcome(w)
    PROVE  /\ attempts' \in [Keys -> AttemptRow]
           /\ prop' \in [Proposals -> [status : ProposalStatuses, version : Versions]]
           /\ jobStatus' \in JobStatuses
<1> DEFINE k == sender[w].key
<1>1. k \in Keys /\ k.prop \in Proposals
  BY WorkerState DEF Idle, Keys
<1>2. attempts[k] \in AttemptRow
  BY <1>1 DEF TypeOK
<1>3. /\ "confirmed_sent" \in AttemptStatuses /\ "unknown_result" \in AttemptStatuses
      /\ "needs_attention" \in AttemptStatuses /\ "known_failed" \in AttemptStatuses
  BY DEF AttemptStatuses
<1>4. CASE sender[w].outcome = "success"
  <2>1. [Settled(attempts[k], "confirmed_sent") EXCEPT !.receipt = TRUE] \in AttemptRow
    BY <1>2, <1>3, AttemptUpdates
  <2> QED
    BY <1>1, <1>4, <2>1 DEF RecordOutcome, ApplyConfirmedSend, TypeOK, ProposalStatuses, JobStatuses
<1>5. CASE sender[w].outcome # "success"
  <2>1. /\ Settled(attempts[k], "unknown_result") \in AttemptRow
        /\ Settled(attempts[k], "needs_attention") \in AttemptRow
        /\ [Settled(attempts[k], "known_failed") EXCEPT !.backoff = TRUE] \in AttemptRow
    BY <1>2, <1>3, AttemptUpdates
  <2> QED
    BY <1>1, <1>5, <2>1 DEF RecordOutcome, TypeOK
<1> QED
  BY <1>4, <1>5

\* A worker's steps inside ProposalSender.send keep the types.
LEMMA SendTypeOK == ASSUME TypeOK, NEW w \in Workers, Send(w) PROVE TypeOK'
<1> DEFINE k == sender[w].key
<1>1. ASSUME NEW p \in Proposals, Claim(w, p) PROVE TypeOK'
  <2> DEFINE l == KeyFor(w, p)
             claimed == [attempts[l] EXCEPT !.status = "sending",
                                            !.count = attempts[l].count + 1,
                                            !.token = attempts[l].count + 1]
  <2>1. l \in Keys /\ attempts[l] \in AttemptRow
    BY KeyForType DEF TypeOK
  <2>2. CASE attempts[l].count >= MaxAttempts
    <3>1. [attempts[l] EXCEPT !.status = "needs_attention"] \in AttemptRow
      BY <2>1 DEF AttemptRow, AttemptStatuses
    <3> QED
      BY <1>1, <2>1, <2>2, <3>1 DEF Claim, TypeOK, observation
  <2>3. CASE ~(attempts[l].count >= MaxAttempts)
    <3>1. attempts[l].count + 1 \in Tokens
      BY <2>1, <2>3 DEF AttemptRow, Tokens
    <3>2. claimed \in AttemptRow
      BY <2>1, <3>1 DEF AttemptRow, AttemptStatuses
    <3>3. [pc |-> "calling", key |-> l, token |-> attempts[l].count + 1] \in Calling
      BY <2>1, <3>1 DEF Calling
    <3>4. /\ attempts' = [attempts EXCEPT ![l] = claimed]
          /\ sender' = [sender EXCEPT ![w] = [pc |-> "calling", key |-> l,
                                             token |-> attempts[l].count + 1]]
          /\ UNCHANGED <<jobStatus, prop, card, approvals, regen, observation>>
      BY <1>1, <2>1, <2>3 DEF Claim, TypeOK
    <3> QED
      BY <2>1, <3>2, <3>3, <3>4 DEF TypeOK, observation
  <2> QED
    BY <2>2, <2>3
<1>2. ASSUME NEW p \in Proposals, NEW l \in Keys, ClaimExpiresStale(w, p, l) PROVE TypeOK'
  <2>1. Expired(attempts[l]) \in AttemptRow
    BY AttemptUpdates DEF TypeOK
  <2> QED
    BY <1>2, <2>1 DEF ClaimExpiresStale, TypeOK, observation
<1>3. ASSUME NEW outcome \in Outcomes, NEW effect \in BOOLEAN, PlatformCall(w, outcome, effect)
      PROVE  TypeOK'
  <2>1. sender[w] \in Calling
    BY <1>3, WorkerState DEF PlatformCall
  <2>2. k \in Keys /\ sender[w].token \in Tokens
    BY <2>1 DEF Calling
  <2>3. [pc |-> "answered", key |-> k, token |-> sender[w].token, outcome |-> outcome] \in Answered
    BY <2>2 DEF Answered
  <2> QED
    BY <1>3, <2>2, <2>3 DEF PlatformCall, TypeOK, observation
<1>4. ASSUME FinalizeSendAttempt(w) PROVE TypeOK'
  <2>1. sender[w] \in Answered
    BY <1>4, WorkerState DEF FinalizeSendAttempt
  <2>2. sender[w].outcome \in {"failed", "closed"} =>
            [pc |-> "failing", key |-> k, outcome |-> sender[w].outcome] \in Failing
    BY <2>1 DEF Answered, Failing
  <2> QED
    BY <1>4, <2>2, RecordOutcomeType DEF FinalizeSendAttempt, TypeOK, observation
<1>5. ASSUME FinalizeRejected(w) PROVE TypeOK'
  BY <1>5 DEF FinalizeRejected, Return, TypeOK, observation
<1>6. ASSUME FinalizeCommitFails(w) PROVE TypeOK'
  <2>1. sender[w] \in Answered
    BY <1>6, WorkerState DEF FinalizeCommitFails
  <2>2. [pc |-> "marking", key |-> k, token |-> sender[w].token] \in Marking
    BY <2>1 DEF Answered, Marking
  <2>3. /\ attempts' \in [Keys -> AttemptRow]
        /\ prop' \in [Proposals -> [status : ProposalStatuses, version : Versions]]
        /\ jobStatus' \in JobStatuses
    BY <1>6, RecordOutcomeType DEF FinalizeCommitFails, TypeOK
  <2> QED
    BY <1>6, <2>2, <2>3 DEF FinalizeCommitFails, TypeOK, observation
<1>7. ASSUME MarkUnknownAfterCommitFailure(w) PROVE TypeOK'
  <2>1. k \in Keys
    BY <1>7, WorkerState DEF MarkUnknownAfterCommitFailure, Idle
  <2>2. [Settled(attempts[k], "unknown_result") EXCEPT !.receipt = TRUE] \in AttemptRow
    BY <2>1, AttemptUpdates DEF TypeOK, AttemptStatuses
  <2> QED
    BY <1>7, <2>1, <2>2 DEF MarkUnknownAfterCommitFailure, Return, TypeOK, observation
<1>8. ASSUME HandleSendFailure(w) PROVE TypeOK'
  <2>1. k.prop \in Proposals
    BY <1>8, WorkerState DEF HandleSendFailure, Idle, Keys
  <2>2. \A c \in Cards : card[c].status \in {"approved", "edited"} =>
            [card[c] EXCEPT !.status = "skipped"] \in CardRow
    BY IssuedCard DEF CardRow, CardStatuses
  <2>3. card' \in [Cards -> CardRow \cup {NoCard}]
    BY <1>8, <2>2 DEF HandleSendFailure, TypeOK
  <2> QED
    BY <1>8, <2>1, <2>3 DEF HandleSendFailure, Return, TypeOK, ProposalStatuses, JobStatuses, observation
<1>9. ASSUME Crash(w) PROVE TypeOK'
  BY <1>9 DEF Crash, Return, TypeOK, observation
<1> QED
  BY <1>1, <1>2, <1>3, <1>4, <1>5, <1>6, <1>7, <1>8, <1>9 DEF Send

\* Reconciliation and the passing of time keep the types.
LEMMA EnvironmentTypeOK == TypeOK /\ Environment => TypeOK'
<1> SUFFICES ASSUME TypeOK, NEW k \in Keys,
                    Reconcile(k) \/ MarkInconclusive(k) \/ LeaseElapses(k) \/ BackoffElapses(k)
             PROVE  TypeOK'
  BY DEF Environment
<1>1. /\ attempts[k] \in AttemptRow
      /\ [attempts[k] EXCEPT !.status = "confirmed_sent"] \in AttemptRow
      /\ [attempts[k] EXCEPT !.status = "needs_attention"] \in AttemptRow
      /\ [attempts[k] EXCEPT !.stale = TRUE] \in AttemptRow
      /\ [attempts[k] EXCEPT !.backoff = FALSE] \in AttemptRow
  BY DEF TypeOK, AttemptRow, AttemptStatuses
<1>2. CASE Reconcile(k)
  BY <1>1, <1>2 DEF Reconcile, ApplyConfirmedSend, TypeOK, Keys, ProposalStatuses, JobStatuses, observation
<1>3. CASE MarkInconclusive(k)
  BY <1>1, <1>3 DEF MarkInconclusive, TypeOK, observation
<1>4. CASE LeaseElapses(k)
  BY <1>1, <1>4 DEF LeaseElapses, TypeOK, observation
<1>5. CASE BackoffElapses(k)
  BY <1>1, <1>5 DEF BackoffElapses, TypeOK, observation
<1> QED
  BY <1>2, <1>3, <1>4, <1>5

\* Every step keeps the types.
LEMMA NextTypeOK == TypeOK /\ [Next]_vars => TypeOK'
<1> SUFFICES ASSUME TypeOK, [Next]_vars PROVE TypeOK'
  OBVIOUS
<1>1. CASE UNCHANGED vars
  BY <1>1 DEF vars, observation, TypeOK
<1> QED
  BY <1>1, ReviewTypeOK, ToolsTypeOK, SendTypeOK, EnvironmentTypeOK DEF Next

(* Type correctness: no action of any component leaves the declared states *)
(* (a version, a claim number or a card never runs past its bound).        *)
THEOREM TypeCorrect == Spec => []TypeOK
BY InitTypeOK, NextTypeOK, PTL DEF Spec
-----------------------------------------------------------------------------
(* The inductive invariant.  Most actions fall under one of two lemmas:    *)
(* those that leave attempts and workers alone, and those that settle an   *)
(* attempt or end a worker's call without opening anything new.            *)

\* No transaction of this model moves a proposal to another version.
VersionsKept == \A p \in Proposals : prop'[p].version = prop[p].version

\* The actions of reviewers and tools: approvals only grow, and a text is
\* replaced only while no attempt blocks the job.
LEMMA RowsOnly ==
    ASSUME SendInv, TypeOK', UNCHANGED <<attempts, sender, observation>>,
           approvals \subseteq approvals', VersionsKept \/ BlockingKeys = {}
    PROVE  SendInv'
<1>1. BlockingKeys' = BlockingKeys
  BY DEF BlockingKeys
<1>2. InFlightTextIsCurrent'
  BY <1>1 DEF SendInv, InFlightTextIsCurrent, VersionsKept, BlockingKeys, Keys
<1>3. CarriersApproved' /\ OfferWasApproved'
  BY DEF SendInv, CarriersApproved, OfferWasApproved, observation
<1>4. OneBlockingAttempt' /\ OffersBlock' /\ AtMostOneOffer'
  BY <1>1 DEF SendInv, OneBlockingAttempt, OffersBlock, AtMostOneOffer, observation
<1>5. ModesAgree' /\ CarriersBlock'
  BY <1>1 DEF SendInv, ModesAgree, CarriersBlock, LiveCarrier, observation
<1> QED
  BY <1>2, <1>3, <1>4, <1>5 DEF SendInv

\* The state of a worker is kept, or its call is over.
CallsEnd ==
    \A w \in Workers :
        \/ sender'[w] = sender[w]
        \/ sender'[w] = Idle
        \/ /\ sender[w] # Idle
           /\ sender'[w].pc \in {"marking", "failing"}
           /\ sender'[w].pc = "marking" => w \in DryRun
           /\ sender'[w].key = sender[w].key

\* Settling an attempt, ending a call and letting time pass: nothing starts
\* to block, and what a live worker holds or the platform received still does.
LEMMA Settling ==
    ASSUME SendInv, TypeOK', UNCHANGED <<approvals, observation>>, VersionsKept, CallsEnd,
           BlockingKeys' \subseteq BlockingKeys, offeredKeys \subseteq BlockingKeys',
           \A w \in Workers : LiveCarrier(w)' => sender[w].key \in BlockingKeys',
           \A k \in Keys : attempts'[k].receipt =>
               attempts[k].receipt \/ k.mode = "simulated"
    PROVE  SendInv'
<1>1. \A w \in Workers : sender'[w].pc \in {"calling", "answered"} => sender'[w] = sender[w]
  BY DEF CallsEnd, Idle
<1>2. InFlightTextIsCurrent'
  BY DEF SendInv, InFlightTextIsCurrent, VersionsKept, BlockingKeys, Keys
<1>3. CarriersApproved' /\ OfferWasApproved'
  BY <1>1 DEF SendInv, CarriersApproved, OfferWasApproved, observation
<1>4. OneBlockingAttempt' /\ OffersBlock' /\ AtMostOneOffer'
  BY DEF SendInv, OneBlockingAttempt, OffersBlock, AtMostOneOffer, observation
<1>5. ModesAgree'
  <2>1. \A w \in Workers : sender'[w] # Idle =>
            (sender'[w].key.mode = "simulated" <=> w \in DryRun)
    BY DEF SendInv, ModesAgree, CallsEnd
  <2>2. \A w \in Workers : sender'[w].pc = "marking" => w \in DryRun
    BY DEF SendInv, ModesAgree, CallsEnd, Idle
  <2> QED
    BY <1>1, <2>1, <2>2 DEF SendInv, ModesAgree, observation
<1>6. CarriersBlock'
  BY <1>1 DEF SendInv, CarriersBlock, LiveCarrier, observation
<1> QED
  BY <1>2, <1>3, <1>4, <1>5, <1>6 DEF SendInv

\* Initially nothing is approved, attempted or offered.
LEMMA InitSendInv == Init => SendInv
<1> SUFFICES ASSUME Init PROVE SendInv
  OBVIOUS
<1>1. BlockingKeys = {}
  BY DEF Init, BlockingKeys, Blocking, NoAttempt
<1>2. \A w \in Workers : sender[w] = Idle /\ sender[w].pc = "idle"
  BY DEF Init, Idle
<1>3. OneBlockingAttempt /\ OffersBlock /\ AtMostOneOffer /\ InFlightTextIsCurrent
  BY <1>1 DEF Init, OneBlockingAttempt, OffersBlock, AtMostOneOffer, InFlightTextIsCurrent
<1>4. ModesAgree /\ CarriersBlock /\ CarriersApproved /\ OfferWasApproved
  BY <1>2 DEF Init, ModesAgree, CarriersBlock, LiveCarrier, CarriersApproved,
              OfferWasApproved, NoAttempt
<1> QED
  BY <1>3, <1>4, InitTypeOK DEF SendInv

\* The pipeline and the buttons of a card keep the invariant.
LEMMA ReviewSendInv == SendInv /\ Review => SendInv'
<1> SUFFICES ASSUME SendInv, Review PROVE SendInv'
  OBVIOUS
<1>1. TypeOK /\ TypeOK'
  BY ReviewTypeOK DEF SendInv
<1>2. UNCHANGED <<attempts, sender, observation>> /\ approvals \subseteq approvals'
  BY DEF Review, PersistProposal, Approve, ApproveDuplicate, Skip, EditSend
<1>3. VersionsKept \/ BlockingKeys = {}
  <2>1. ASSUME NEW p \in Proposals, NEW c \in Cards, PersistProposal(p, c) PROVE VersionsKept
    BY <1>1, <2>1 DEF PersistProposal, VersionsKept, TypeOK
  <2>2. ASSUME NEW c \in Cards, Approve(c) PROVE VersionsKept
    BY <1>1, <2>2 DEF Approve, VersionsKept, TypeOK
  <2>3. ASSUME NEW c \in Cards, ApproveDuplicate(c) PROVE VersionsKept
    BY <2>3 DEF ApproveDuplicate, VersionsKept
  <2>4. ASSUME NEW c \in Cards, Skip(c) PROVE VersionsKept
    BY <1>1, <2>4 DEF Skip, VersionsKept, TypeOK
  <2>5. ASSUME NEW c \in Cards, EditSend(c) PROVE BlockingKeys = {}
    BY <2>5 DEF EditSend, DeliveryBlocksMutation
  <2> QED
    BY <2>1, <2>2, <2>3, <2>4, <2>5 DEF Review
<1> QED
  BY <1>1, <1>2, <1>3, RowsOnly

\* So do the operator tools.
LEMMA ToolsSendInv == SendInv /\ Tools => SendInv'
<1> SUFFICES ASSUME SendInv, Tools PROVE SendInv'
  OBVIOUS
<1>1. TypeOK /\ TypeOK'
  BY ToolsTypeOK DEF SendInv
<1>2. UNCHANGED <<attempts, sender, observation, approvals>>
  BY DEF Tools, Reissue, QueueEditExisting, SyncSubmittedOffer, ResendAlert, RegenerateRead,
         RegenerateCommit, ResetFalseSent, SupersedeTelegramPending, RegenerateNotify, RegenerateEnd
<1>3. VersionsKept \/ BlockingKeys = {}
  <2>1. ASSUME NEW c \in Cards, NEW d \in Cards, Reissue(c, d) \/ QueueEditExisting(c, d)
        PROVE  VersionsKept
    <3>1. prop' = [prop EXCEPT ![card[c].prop].status = "pending_approval"]
      BY <2>1 DEF Reissue, QueueEditExisting
    <3> QED
      BY <1>1, <3>1 DEF VersionsKept, TypeOK
  <2>2. ASSUME NEW p \in Proposals, SyncSubmittedOffer(p) PROVE VersionsKept
    BY <1>1, <2>2 DEF SyncSubmittedOffer, VersionsKept, TypeOK
  <2>3. ASSUME NEW p \in Proposals, ResendAlert(p) \/ RegenerateRead(p) PROVE VersionsKept
    BY <2>3 DEF ResendAlert, RegenerateRead, VersionsKept
  <2>4. ASSUME NEW p \in Proposals, RegenerateCommit(p) PROVE BlockingKeys = {}
    BY <2>4 DEF RegenerateCommit, RegenerateAllowed, DeliveryBlocksMutation
  <2>5. ASSUME ResetFalseSent PROVE VersionsKept
    BY <1>1, <2>5 DEF ResetFalseSent, VersionsKept, TypeOK
  <2>6. ASSUME SupersedeTelegramPending \/ RegenerateNotify \/ RegenerateEnd PROVE VersionsKept
    BY <2>6 DEF SupersedeTelegramPending, RegenerateNotify, RegenerateEnd, VersionsKept
  <2> QED
    BY <2>1, <2>2, <2>3, <2>4, <2>5, <2>6 DEF Tools
<1> QED
  BY <1>1, <1>2, <1>3, RowsOnly

\* A claim opens an attempt only for an approved text, while nothing blocks.
LEMMA ClaimSendInv ==
    ASSUME SendInv, TypeOK', NEW w \in Workers, NEW p \in Proposals, Claim(w, p)
    PROVE  SendInv'
<1> DEFINE k == KeyFor(w, p)
<1>1. k \in Keys /\ attempts[k] \in AttemptRow
  BY KeyForType DEF SendInv, TypeOK
<1>2. BlockingKeys = {} /\ offeredKeys = {} /\ offers = 0 /\ UNCHANGED <<approvals, prop, observation>>
  BY DEF SendInv, OffersBlock, Claim
<1>3. \A v \in Workers : ~LiveCarrier(v)
  BY <1>2 DEF SendInv, CarriersBlock
<1>4. /\ attempts'[k].status \in Blocking /\ attempts'[k].receipt = attempts[k].receipt
      /\ \A l \in Keys \ {k} : attempts'[l] = attempts[l]
  BY <1>1 DEF Claim, SendInv, TypeOK, Blocking, AttemptRow
<1>5. BlockingKeys' = {k}
  BY <1>1, <1>2, <1>4 DEF BlockingKeys
<1>6. /\ \A v \in Workers \ {w} : sender'[v] = sender[v]
      /\ \/ sender'[w] = Idle
         \/ sender'[w].pc = "calling" /\ sender'[w].key = k /\ sender'[w] # Idle
  <2> sender[w] = Idle
    BY DEF Claim
  <2>1. CASE UNCHANGED sender
    BY <2>1
  <2>2. CASE sender' = [sender EXCEPT ![w] = [pc |-> "calling", key |-> k,
                                             token |-> attempts[k].count + 1]]
    BY <2>2 DEF SendInv, TypeOK, Idle
  <2> QED
    BY <2>1, <2>2 DEF Claim
<1>7. k.mode = "simulated" <=> w \in DryRun
  BY DEF KeyFor
<1>8. OneBlockingAttempt' /\ OffersBlock' /\ AtMostOneOffer' /\ OfferWasApproved'
  BY <1>2, <1>5 DEF SendInv, OneBlockingAttempt, OffersBlock, AtMostOneOffer, OfferWasApproved, observation
<1>9. ModesAgree'
  BY <1>2, <1>4, <1>6, <1>7 DEF SendInv, ModesAgree, Idle, observation
<1>10. CarriersBlock'
  BY <1>2, <1>3, <1>5, <1>6 DEF CarriersBlock, LiveCarrier, Idle, observation
<1>11. [prop |-> k.prop, version |-> k.version, action |-> k.action] \in approvals
  BY DEF Claim, MayPrepare, HasMatchingApproval, KeyFor
<1>12. CarriersApproved'
  BY <1>2, <1>6, <1>11 DEF SendInv, CarriersApproved, Idle
<1>13. InFlightTextIsCurrent'
  BY <1>2, <1>5 DEF InFlightTextIsCurrent, KeyFor
<1> QED
  BY <1>8, <1>9, <1>10, <1>12, <1>13 DEF SendInv

\* A call takes effect at most once, under an approved key that blocks the job.
LEMMA PlatformCallSendInv ==
    ASSUME SendInv, TypeOK', NEW w \in Workers, NEW outcome \in Outcomes, NEW effect \in BOOLEAN,
           PlatformCall(w, outcome, effect)
    PROVE  SendInv'
<1> DEFINE k == sender[w].key
<1>1. k \in Keys /\ sender[w].pc = "calling" /\ sender[w] # Idle
  BY WorkerState DEF SendInv, PlatformCall, Idle
<1>2. UNCHANGED <<attempts, approvals, prop>> /\ BlockingKeys' = BlockingKeys
  BY DEF PlatformCall, BlockingKeys
<1>3. /\ \A v \in Workers \ {w} : sender'[v] = sender[v]
      /\ sender'[w] = [pc |-> "answered", key |-> k, token |-> sender[w].token,
                       outcome |-> outcome]
  BY DEF PlatformCall, SendInv, TypeOK
<1>4. OneBlockingAttempt' /\ InFlightTextIsCurrent'
  BY <1>2 DEF SendInv, OneBlockingAttempt, InFlightTextIsCurrent
<1>5. CarriersApproved'
  BY <1>2, <1>3 DEF SendInv, CarriersApproved
<1>6. CASE ~effect
  <2>1. UNCHANGED observation
    BY <1>6 DEF PlatformCall
  <2>2. OffersBlock' /\ AtMostOneOffer' /\ OfferWasApproved'
    BY <1>2, <2>1 DEF SendInv, OffersBlock, AtMostOneOffer, OfferWasApproved, observation
  <2>3. ModesAgree'
    BY <1>1, <1>2, <1>3, <2>1 DEF SendInv, ModesAgree, PlatformCall, observation, Idle
  <2>4. CarriersBlock'
    BY <1>1, <1>2, <1>3, <2>1 DEF SendInv, CarriersBlock, LiveCarrier, observation
  <2> QED
    BY <1>4, <1>5, <2>2, <2>3, <2>4 DEF SendInv
<1>7. CASE effect
  <2>1. outcome = "ambiguous" /\ LiveCarrier(w)
    BY <1>1, <1>7 DEF PlatformCall, LiveCarrier
  <2>2. k \in BlockingKeys /\ k \notin offeredKeys
    BY <1>1, <2>1 DEF SendInv, CarriersBlock
  <2>3. offeredKeys = {} /\ offers = 0
    BY <2>2 DEF SendInv, OffersBlock, OneBlockingAttempt
  <2>4. offers' = 1 /\ offeredKeys' = {k}
    BY <1>7, <2>3 DEF PlatformCall
  <2>5. OffersBlock' /\ AtMostOneOffer' /\ OfferWasApproved'
    BY <1>1, <1>2, <2>2, <2>4 DEF SendInv, OffersBlock, AtMostOneOffer, OfferWasApproved, CarriersApproved
  <2>6. k.mode = "live"
    BY <1>1, <2>1 DEF SendInv, ModesAgree, LiveCarrier, Keys
  <2>7. ModesAgree'
    BY <1>1, <1>2, <1>3, <2>1, <2>4, <2>6 DEF SendInv, ModesAgree, PlatformCall, Idle
  <2>8. CarriersBlock'
    BY <1>1, <1>2, <1>3, <2>1, <2>2, <2>4 DEF SendInv, CarriersBlock, LiveCarrier
  <2> QED
    BY <1>4, <1>5, <2>5, <2>7, <2>8 DEF SendInv
<1> QED
  BY <1>6, <1>7

\* One attempt is written: it blocks as before, or it is released although
\* nothing was offered under its key and no live worker still holds it.
LEMMA SettlingOne ==
    ASSUME SendInv, TypeOK', UNCHANGED <<approvals, observation>>, VersionsKept, CallsEnd,
           NEW k \in Keys, \A l \in Keys \ {k} : attempts'[l] = attempts[l],
           attempts'[k].receipt => attempts[k].receipt \/ k.mode = "simulated",
           \/ attempts'[k].status \in Blocking <=> attempts[k].status \in Blocking
           \/ /\ attempts'[k].status \notin Blocking /\ k \notin offeredKeys
              /\ \A w \in Workers : LiveCarrier(w)' => sender[w].key # k
    PROVE  SendInv'
<1>1. \A w \in Workers : LiveCarrier(w)' => LiveCarrier(w)
  BY DEF CallsEnd, LiveCarrier, Idle
<1>2. \A w \in Workers : LiveCarrier(w)' => sender[w].key \in BlockingKeys
  BY <1>1 DEF SendInv, CarriersBlock
<1>3. offeredKeys \subseteq BlockingKeys /\ BlockingKeys \subseteq Keys
  BY DEF SendInv, OffersBlock, BlockingKeys
<1>4. \A l \in Keys \ {k} : l \in BlockingKeys' <=> l \in BlockingKeys
  BY DEF BlockingKeys
<1>5. k \in BlockingKeys' => k \in BlockingKeys
  BY DEF BlockingKeys
<1>6. k \in BlockingKeys' \/ k \notin BlockingKeys \/
          (k \notin offeredKeys /\ \A w \in Workers : LiveCarrier(w)' => sender[w].key # k)
  BY DEF BlockingKeys
<1>7. BlockingKeys' \subseteq BlockingKeys
  BY <1>4, <1>5 DEF BlockingKeys
<1>8. offeredKeys \subseteq BlockingKeys'
  BY <1>3, <1>4, <1>6
<1>9. \A w \in Workers : LiveCarrier(w)' => sender[w].key \in BlockingKeys'
  BY <1>2, <1>3, <1>4, <1>6
<1>10. \A l \in Keys : attempts'[l].receipt => attempts[l].receipt \/ l.mode = "simulated"
  OBVIOUS
<1> QED
  BY <1>7, <1>8, <1>9, <1>10, Settling

\* Confirming a delivery never moves a proposal to another version.
LEMMA ConfirmKeepsVersions ==
    ASSUME TypeOK, NEW k \in Keys, ApplyConfirmedSend(k)
    PROVE  VersionsKept
BY DEF TypeOK, ApplyConfirmedSend, VersionsKept

\* What finalize writes about the claim its worker holds keeps the invariant.
LEMMA RecordOutcomeSendInv ==
    ASSUME SendInv, TypeOK', NEW w \in Workers, sender[w].pc = "answered", HoldsClaim(w),
           RecordOutcome(w), UNCHANGED <<approvals, observation>>, CallsEnd,
           sender'[w].pc \notin {"calling", "answered"}
    PROVE  SendInv'
<1> DEFINE k == sender[w].key
<1>1. k \in Keys /\ sender[w] # Idle /\ attempts[k].status = "sending"
  BY WorkerState DEF SendInv, Idle, HoldsClaim
<1>2. attempts[k] \in AttemptRow
  BY <1>1 DEF SendInv, TypeOK
<1>3. \A v \in Workers : LiveCarrier(v)' => v # w /\ LiveCarrier(v)
  BY DEF CallsEnd, LiveCarrier, Idle
<1>4. CASE sender[w].outcome = "success"
  <2>1. /\ attempts' = [attempts EXCEPT ![k] =
                            [Settled(attempts[k], "confirmed_sent") EXCEPT !.receipt = TRUE]]
        /\ VersionsKept
    BY <1>1, <1>4, ConfirmKeepsVersions DEF RecordOutcome, SendInv
  <2>2. attempts'[k].status = "confirmed_sent" /\ \A l \in Keys \ {k} : attempts'[l] = attempts[l]
    BY <1>1, <1>2, <2>1 DEF SendInv, TypeOK, Settled, AttemptRow
  <2>3. w \in DryRun /\ k.mode = "simulated"
    BY <1>1, <1>4 DEF SendInv, ModesAgree
  <2>4. k \notin offeredKeys /\ \A v \in Workers : LiveCarrier(v)' => sender[v].key # k
    BY <1>3, <2>3 DEF SendInv, ModesAgree, LiveCarrier, Idle
  <2>5. attempts'[k].status \notin Blocking
    BY <2>2 DEF Blocking
  <2> QED
    BY <1>1, <2>1, <2>2, <2>3, <2>4, <2>5, SettlingOne
<1>5. CASE /\ sender[w].outcome \in {"ambiguous", "failed"}
           /\ attempts' = [attempts EXCEPT ![k] = Settled(attempts[k], "unknown_result")]
           /\ UNCHANGED prop
  <2>1. attempts' = [attempts EXCEPT ![k] = Settled(attempts[k], "unknown_result")] /\ VersionsKept
    BY <1>5 DEF VersionsKept
  <2>2. /\ attempts'[k].status = "unknown_result" /\ attempts'[k].receipt = attempts[k].receipt
        /\ \A l \in Keys \ {k} : attempts'[l] = attempts[l]
    BY <1>1, <1>2, <2>1 DEF SendInv, TypeOK, Settled, AttemptRow
  <2>3. attempts'[k].status \in Blocking /\ attempts[k].status \in Blocking
    BY <1>1, <2>2 DEF Blocking
  <2> QED
    BY <1>1, <2>1, <2>2, <2>3, SettlingOne
<1>6. CASE /\ sender[w].outcome \in {"failed", "closed"}
           /\ attempts' = [attempts EXCEPT ![k] =
                IF attempts[k].count >= MaxAttempts THEN Settled(attempts[k], "needs_attention")
                ELSE [Settled(attempts[k], "known_failed") EXCEPT !.backoff = TRUE]]
           /\ UNCHANGED prop
  <2>1. /\ attempts' = [attempts EXCEPT ![k] =
                IF attempts[k].count >= MaxAttempts THEN Settled(attempts[k], "needs_attention")
                ELSE [Settled(attempts[k], "known_failed") EXCEPT !.backoff = TRUE]]
        /\ VersionsKept
    BY <1>6 DEF VersionsKept
  <2>2. /\ attempts'[k].status \in {"needs_attention", "known_failed"}
        /\ attempts'[k].receipt = attempts[k].receipt
        /\ \A l \in Keys \ {k} : attempts'[l] = attempts[l]
    BY <1>1, <1>2, <2>1 DEF SendInv, TypeOK, Settled, AttemptRow
  <2>3. LiveCarrier(w)
    BY <1>6 DEF SendInv, ModesAgree, LiveCarrier
  <2>4. k \notin offeredKeys /\ \A v \in Workers : ~LiveCarrier(v)'
    BY <1>3, <1>6, <2>3 DEF SendInv, CarriersBlock
  <2>5. attempts[k].status \in Blocking
    BY <1>1 DEF Blocking
  <2> QED
    BY <1>1, <2>1, <2>2, <2>4, <2>5, SettlingOne
<1> QED
  BY <1>4, <1>5, <1>6 DEF RecordOutcome

\* A step that writes no attempt and starts no call keeps the invariant.
LEMMA NoAttemptWritten ==
    ASSUME SendInv, TypeOK', UNCHANGED <<attempts, approvals, observation>>, VersionsKept, CallsEnd
    PROVE  SendInv'
<1>1. BlockingKeys' = BlockingKeys
  BY DEF BlockingKeys
<1>2. \A w \in Workers : LiveCarrier(w)' => LiveCarrier(w)
  BY DEF CallsEnd, LiveCarrier, Idle
<1> QED
  BY <1>1, <1>2, Settling DEF SendInv, OffersBlock, CarriersBlock

\* Every step of a worker inside ProposalSender.send keeps the invariant.
LEMMA SenderSendInv == ASSUME SendInv, NEW w \in Workers, Send(w) PROVE SendInv'
<1> DEFINE k == sender[w].key
<1>1. TypeOK /\ TypeOK'
  BY SendTypeOK DEF SendInv
<1>2. ASSUME Return(w) PROVE CallsEnd /\ sender'[w] = Idle /\ sender'[w].pc = "idle"
  BY <1>1, <1>2 DEF Return, CallsEnd, TypeOK, Idle
<1>3. ASSUME NEW p \in Proposals, Claim(w, p) PROVE SendInv'
  BY <1>1, <1>3, ClaimSendInv
<1>4. ASSUME NEW p \in Proposals, NEW l \in Keys, ClaimExpiresStale(w, p, l) PROVE SendInv'
  <2>1. attempts[l] \in AttemptRow /\ attempts' = [attempts EXCEPT ![l] = Expired(attempts[l])]
    BY <1>1, <1>4 DEF ClaimExpiresStale, TypeOK
  <2>2. /\ attempts'[l].status = "unknown_result" /\ attempts'[l].receipt = attempts[l].receipt
        /\ \A m \in Keys \ {l} : attempts'[m] = attempts[m]
    BY <1>1, <2>1 DEF TypeOK, Expired, AttemptRow
  <2>3. attempts'[l].status \in Blocking /\ attempts[l].status \in Blocking
    BY <1>4, <2>2 DEF ClaimExpiresStale, Blocking
  <2>4. UNCHANGED <<approvals, observation>> /\ VersionsKept /\ CallsEnd
    BY <1>4 DEF ClaimExpiresStale, VersionsKept, CallsEnd
  <2> QED
    BY <1>1, <2>2, <2>3, <2>4, SettlingOne
<1>5. ASSUME NEW outcome \in Outcomes, NEW effect \in BOOLEAN, PlatformCall(w, outcome, effect)
      PROVE  SendInv'
  BY <1>1, <1>5, PlatformCallSendInv
<1>6. ASSUME FinalizeSendAttempt(w) PROVE SendInv'
  <2>1. sender[w].pc = "answered" /\ sender[w] # Idle
    BY <1>6 DEF FinalizeSendAttempt, Idle
  <2>2. /\ \A v \in Workers \ {w} : sender'[v] = sender[v]
        /\ \/ sender'[w] = Idle /\ sender'[w].pc = "idle"
           \/ sender'[w].pc = "failing" /\ sender'[w].key = k
    BY <1>1, <1>6 DEF FinalizeSendAttempt, TypeOK, Idle
  <2>3. CallsEnd /\ sender'[w].pc \notin {"calling", "answered"}
    BY <2>1, <2>2 DEF CallsEnd
  <2> QED
    BY <1>1, <1>6, <2>1, <2>3, RecordOutcomeSendInv DEF FinalizeSendAttempt
<1>7. ASSUME FinalizeRejected(w) PROVE SendInv'
  BY <1>1, <1>2, <1>7, NoAttemptWritten DEF FinalizeRejected, VersionsKept
<1>8. ASSUME FinalizeCommitFails(w) PROVE SendInv'
  <2>1. sender[w].pc = "answered" /\ sender[w] # Idle
    BY <1>8 DEF FinalizeCommitFails, Idle
  <2>2. /\ \A v \in Workers \ {w} : sender'[v] = sender[v]
        /\ \/ sender'[w] = Idle /\ sender'[w].pc = "idle"
           \/ sender'[w].pc = "marking" /\ sender'[w].key = k /\ sender[w].outcome = "success"
    BY <1>1, <1>8 DEF FinalizeCommitFails, TypeOK, Idle
  <2>3. CallsEnd /\ sender'[w].pc \notin {"calling", "answered"}
    BY <2>1, <2>2 DEF CallsEnd, SendInv, ModesAgree
  <2>4. CASE RecordOutcome(w)
    BY <1>1, <1>8, <2>1, <2>3, <2>4, RecordOutcomeSendInv DEF FinalizeCommitFails
  <2>5. CASE UNCHANGED <<attempts, jobStatus, prop>>
    BY <1>1, <1>8, <2>3, <2>5, NoAttemptWritten DEF FinalizeCommitFails, VersionsKept
  <2> QED
    BY <1>8, <2>4, <2>5 DEF FinalizeCommitFails
<1>9. ASSUME MarkUnknownAfterCommitFailure(w) PROVE SendInv'
  <2>1. CallsEnd /\ VersionsKept /\ UNCHANGED <<approvals, observation>>
    BY <1>2, <1>9 DEF MarkUnknownAfterCommitFailure, VersionsKept
  <2>2. CASE ~HoldsClaim(w)
    BY <1>1, <1>9, <2>1, <2>2, NoAttemptWritten DEF MarkUnknownAfterCommitFailure
  <2>3. CASE HoldsClaim(w)
    <3>1. k \in Keys /\ attempts[k] \in AttemptRow /\ sender[w] # Idle
      BY <1>1, <1>9, WorkerState DEF MarkUnknownAfterCommitFailure, Idle, TypeOK
    <3>2. attempts' = [attempts EXCEPT ![k] =
                            [Settled(attempts[k], "unknown_result") EXCEPT !.receipt = TRUE]]
      BY <1>9, <2>3 DEF MarkUnknownAfterCommitFailure
    <3>3. attempts'[k].status = "unknown_result" /\ \A l \in Keys \ {k} : attempts'[l] = attempts[l]
      BY <1>1, <3>1, <3>2 DEF TypeOK, Settled, AttemptRow
    <3>4. attempts'[k].status \in Blocking /\ attempts[k].status \in Blocking
      BY <2>3, <3>3 DEF HoldsClaim, Blocking
    <3>5. k.mode = "simulated"
      BY <1>9, <3>1 DEF SendInv, ModesAgree, MarkUnknownAfterCommitFailure
    <3> QED
      BY <1>1, <2>1, <3>1, <3>3, <3>4, <3>5, SettlingOne
  <2> QED
    BY <2>2, <2>3
<1>10. ASSUME HandleSendFailure(w) PROVE SendInv'
  <2>1. CallsEnd /\ UNCHANGED <<attempts, approvals, observation>>
    BY <1>2, <1>10 DEF HandleSendFailure
  <2>2. VersionsKept
    BY <1>1, <1>10 DEF HandleSendFailure, VersionsKept, TypeOK
  <2> QED
    BY <1>1, <2>1, <2>2, NoAttemptWritten
<1>11. ASSUME Crash(w) PROVE SendInv'
  BY <1>1, <1>2, <1>11, NoAttemptWritten DEF Crash, VersionsKept
<1> QED
  BY <1>3, <1>4, <1>5, <1>6, <1>7, <1>8, <1>9, <1>10, <1>11 DEF Send

\* Reconciliation and the passing of time keep the invariant.
LEMMA EnvironmentSendInv == SendInv /\ Environment => SendInv'
<1> SUFFICES ASSUME SendInv, NEW k \in Keys,
                    Reconcile(k) \/ MarkInconclusive(k) \/ LeaseElapses(k) \/ BackoffElapses(k)
             PROVE  SendInv'
  BY DEF Environment
<1>1. TypeOK /\ TypeOK'
  BY EnvironmentTypeOK DEF SendInv, Environment
<1>2. attempts[k] \in AttemptRow
  BY <1>1 DEF TypeOK
<1>3. UNCHANGED <<approvals, observation>> /\ CallsEnd
  BY DEF Reconcile, MarkInconclusive, LeaseElapses, BackoffElapses, CallsEnd
<1>4. CASE Reconcile(k)
  <2>1. attempts' = [attempts EXCEPT ![k].status = "confirmed_sent"] /\ VersionsKept
    BY <1>1, <1>4, ConfirmKeepsVersions DEF Reconcile
  <2>2. /\ attempts'[k].status = "confirmed_sent" /\ attempts'[k].receipt = attempts[k].receipt
        /\ \A l \in Keys \ {k} : attempts'[l] = attempts[l]
    BY <1>1, <1>2, <2>1 DEF TypeOK, AttemptRow
  <2>3. k.mode = "simulated"
    BY <1>4 DEF Reconcile, SendInv, ModesAgree
  <2>4. k \notin offeredKeys /\ \A w \in Workers : LiveCarrier(w)' => sender[w].key # k
    BY <1>3, <2>3 DEF SendInv, ModesAgree, LiveCarrier, CallsEnd, Idle
  <2>5. attempts'[k].status \notin Blocking
    BY <2>2 DEF Blocking
  <2> QED
    BY <1>1, <1>3, <2>1, <2>2, <2>4, <2>5, SettlingOne
<1>5. CASE ~Reconcile(k)
  <2>1. /\ attempts'[k].status \in Blocking <=> attempts[k].status \in Blocking
        /\ attempts'[k].receipt = attempts[k].receipt
        /\ \A l \in Keys \ {k} : attempts'[l] = attempts[l]
    <3>1. CASE MarkInconclusive(k)
      BY <1>1, <1>2, <3>1 DEF MarkInconclusive, TypeOK, AttemptRow, Blocking
    <3>2. CASE LeaseElapses(k)
      BY <1>1, <1>2, <3>2 DEF LeaseElapses, TypeOK, AttemptRow
    <3>3. CASE BackoffElapses(k)
      BY <1>1, <1>2, <3>3 DEF BackoffElapses, TypeOK, AttemptRow
    <3> QED
      BY <1>5, <3>1, <3>2, <3>3
  <2>2. VersionsKept
    BY <1>5 DEF MarkInconclusive, LeaseElapses, BackoffElapses, VersionsKept
  <2> QED
    BY <1>1, <1>3, <2>1, <2>2, SettlingOne
<1> QED
  BY <1>4, <1>5

-----------------------------------------------------------------------------
(* Confirmed deliveries, and what the rows show of them.                   *)

\* What concerns the attempts is preserved by every step.
LEMMA NextSendInv == SendInv /\ [Next]_vars => SendInv'
<1> SUFFICES ASSUME SendInv, [Next]_vars PROVE SendInv'
  OBVIOUS
<1>1. CASE UNCHANGED vars
  <2>1. TypeOK'
    BY <1>1, NextTypeOK DEF SendInv
  <2>2. UNCHANGED <<attempts, sender, observation>> /\ approvals \subseteq approvals' /\ VersionsKept
    BY <1>1 DEF vars, VersionsKept
  <2> QED
    BY <2>1, <2>2, RowsOnly
<1> QED
  BY <1>1, ReviewSendInv, ToolsSendInv, SenderSendInv, EnvironmentSendInv DEF Next

\* Every write to an attempt finds it unused, failed, sending or unresolved.
LEMMA ConfirmedStays ==
    ASSUME TypeOK, [Next]_vars, NEW k \in ConfirmedKeys
    PROVE  attempts'[k].status = "confirmed_sent"
<1>1. k \in Keys /\ attempts[k].status = "confirmed_sent"
  BY DEF ConfirmedKeys
<1>2. ASSUME UNCHANGED attempts PROVE attempts'[k].status = "confirmed_sent"
  BY <1>1, <1>2
<1>3. ASSUME NEW l \in Keys \ {k}, NEW a, attempts' = [attempts EXCEPT ![l] = a]
      PROVE  attempts'[k].status = "confirmed_sent"
  BY <1>1, <1>3 DEF TypeOK
<1>4. CASE UNCHANGED vars
  BY <1>2, <1>4 DEF vars
<1>5. CASE Review
  BY <1>2, <1>5 DEF Review, PersistProposal, Approve, ApproveDuplicate, Skip, EditSend
<1>6. CASE Tools
  BY <1>2, <1>6 DEF Tools, Reissue, QueueEditExisting, SyncSubmittedOffer, ResendAlert,
         RegenerateRead, RegenerateCommit, ResetFalseSent, SupersedeTelegramPending,
         RegenerateNotify, RegenerateEnd
<1>7. CASE Environment
  <2>1. PICK l \in Keys : Reconcile(l) \/ MarkInconclusive(l) \/ LeaseElapses(l) \/ BackoffElapses(l)
    BY <1>7 DEF Environment
  <2>2. CASE Reconcile(l) \/ MarkInconclusive(l) \/ LeaseElapses(l)
    BY <1>1, <1>3, <2>2 DEF Reconcile, MarkInconclusive, LeaseElapses, TypeOK
  <2>3. CASE BackoffElapses(l)
    BY <1>1, <2>3 DEF BackoffElapses, TypeOK, AttemptRow
  <2> QED
    BY <2>1, <2>2, <2>3
<1>8. ASSUME NEW w \in Workers, Send(w) PROVE attempts'[k].status = "confirmed_sent"
  <2>1. ASSUME NEW p \in Proposals, Claim(w, p) PROVE attempts'[k].status = "confirmed_sent"
    <3>1. KeyFor(w, p) \in Keys \ {k}
      BY <1>1, <2>1, KeyForType DEF Claim
    <3> QED
      BY <1>1, <2>1, <3>1 DEF Claim, TypeOK
  <2>2. ASSUME NEW p \in Proposals, NEW l \in Keys, ClaimExpiresStale(w, p, l)
        PROVE  attempts'[k].status = "confirmed_sent"
    BY <1>1, <1>3, <2>2 DEF ClaimExpiresStale
  <2>3. ASSUME HoldsClaim(w), sender[w].pc \in {"answered", "marking"}
        PROVE  sender[w].key \in Keys \ {k}
    BY <1>1, <2>3, WorkerState DEF HoldsClaim, Idle
  <2>4. ASSUME FinalizeSendAttempt(w) PROVE attempts'[k].status = "confirmed_sent"
    BY <1>1, <2>3, <2>4 DEF FinalizeSendAttempt, RecordOutcome, TypeOK
  <2>5. ASSUME FinalizeCommitFails(w) PROVE attempts'[k].status = "confirmed_sent"
    BY <1>1, <2>3, <2>5 DEF FinalizeCommitFails, RecordOutcome, TypeOK
  <2>6. ASSUME MarkUnknownAfterCommitFailure(w) PROVE attempts'[k].status = "confirmed_sent"
    BY <1>1, <2>3, <2>6 DEF MarkUnknownAfterCommitFailure, TypeOK
  <2> QED
    BY <1>2, <1>8, <2>1, <2>2, <2>4, <2>5, <2>6
       DEF Send, PlatformCall, FinalizeRejected, HandleSendFailure, Crash
<1> QED
  BY <1>4, <1>5, <1>6, <1>7, <1>8 DEF Next

\* A step that newly shows nothing as simulated keeps what is shown backed.
LEMMA NothingNewShown ==
    ASSUME SimulatedMeansConfirmed, TypeOK, [Next]_vars,
           \A p \in Proposals : prop'[p].status = "simulated_sent" => prop'[p] = prop[p],
           jobStatus' = "simulated_sent" => jobStatus = "simulated_sent"
    PROVE  SimulatedMeansConfirmed'
<1>1. ConfirmedKeys \subseteq ConfirmedKeys'
  BY ConfirmedStays DEF ConfirmedKeys
<1> QED
  BY <1>1 DEF SimulatedMeansConfirmed

\* A confirmation shows the proposal, if its text is still the one delivered,
\* and the job as sent.
LEMMA ConfirmationShown ==
    ASSUME SimulatedMeansConfirmed, TypeOK, [Next]_vars, NEW k \in Keys,
           ApplyConfirmedSend(k), k.mode = "simulated", attempts'[k].status = "confirmed_sent"
    PROVE  SimulatedMeansConfirmed'
<1>1. k \in ConfirmedKeys' /\ ConfirmedKeys \subseteq ConfirmedKeys'
  BY ConfirmedStays DEF ConfirmedKeys
<1>2. /\ k.prop \in Proposals
      /\ \A p \in Proposals : /\ prop'[p].version = prop[p].version
                              /\ p # k.prop => prop'[p] = prop[p]
      /\ prop[k.prop].version # k.version => prop'[k.prop] = prop[k.prop]
  BY DEF ApplyConfirmedSend, TypeOK, Keys
<1>3. ASSUME NEW p \in Proposals, prop'[p].status = "simulated_sent"
      PROVE  \E l \in ConfirmedKeys' : /\ l.prop = p /\ l.mode = "simulated"
                                       /\ l.version = prop'[p].version
  <2>1. CASE p = k.prop /\ prop[p].version = k.version
    BY <1>1, <1>2, <2>1
  <2>2. CASE prop'[p] = prop[p]
    BY <1>1, <1>3, <2>2 DEF SimulatedMeansConfirmed
  <2> QED
    BY <1>2, <2>1, <2>2
<1> QED
  BY <1>1, <1>3 DEF SimulatedMeansConfirmed

\* What is shown as simulated sent stays backed by a confirmed dry run.
LEMMA NextSimulated == SendInv /\ SimulatedMeansConfirmed /\ [Next]_vars => SimulatedMeansConfirmed'
<1> SUFFICES ASSUME SendInv, SimulatedMeansConfirmed, [Next]_vars PROVE SimulatedMeansConfirmed'
  OBVIOUS
<1>1. TypeOK
  BY DEF SendInv
<1>2. ASSUME UNCHANGED <<prop, jobStatus>> PROVE SimulatedMeansConfirmed'
  BY <1>1, <1>2, NothingNewShown
<1>3. ASSUME NEW p \in Proposals, NEW status \in ProposalStatuses \ {"simulated_sent"},
             prop' = [prop EXCEPT ![p].status = status], jobStatus' # "simulated_sent" \/ UNCHANGED jobStatus
      PROVE  SimulatedMeansConfirmed'
  BY <1>1, <1>3, NothingNewShown DEF TypeOK
<1>4. CASE UNCHANGED vars
  BY <1>2, <1>4 DEF vars
<1>5. CASE Review
  <2>1. ASSUME NEW p \in Proposals, NEW c \in Cards, PersistProposal(p, c)
        PROVE  SimulatedMeansConfirmed'
    BY <1>3, <2>1 DEF PersistProposal, ReviewJobStatus, ProposalStatuses
  <2>2. ASSUME NEW c \in Cards, Approve(c) \/ Skip(c) PROVE SimulatedMeansConfirmed'
    BY <1>1, <1>3, <2>2, IssuedCard DEF Approve, Skip, Actionable, ProposalStatuses
  <2>3. ASSUME NEW c \in Cards, ApproveDuplicate(c) PROVE SimulatedMeansConfirmed'
    BY <1>2, <2>3 DEF ApproveDuplicate
  <2>4. ASSUME NEW c \in Cards, EditSend(c) PROVE SimulatedMeansConfirmed'
    BY <1>1, <2>4, NothingNewShown DEF EditSend, TypeOK
  <2> QED
    BY <1>5, <2>1, <2>2, <2>3, <2>4 DEF Review
<1>6. CASE Tools
  <2>1. ASSUME NEW c \in Cards, NEW d \in Cards, Reissue(c, d) \/ QueueEditExisting(c, d)
        PROVE  SimulatedMeansConfirmed'
    <3>1. card[c].prop \in Proposals
      BY <1>1, <2>1, IssuedCard DEF Reissue, QueueEditExisting
    <3>2. prop' = [prop EXCEPT ![card[c].prop].status = "pending_approval"]
          /\ jobStatus' = "pending_approval"
      BY <2>1 DEF Reissue, QueueEditExisting
    <3> QED
      BY <1>1, <3>1, <3>2, NothingNewShown DEF TypeOK
  <2>2. ASSUME NEW p \in Proposals, SyncSubmittedOffer(p) PROVE SimulatedMeansConfirmed'
    BY <1>3, <2>2 DEF SyncSubmittedOffer, ProposalStatuses
  <2>3. ASSUME NEW p \in Proposals, RegenerateCommit(p) PROVE SimulatedMeansConfirmed'
    BY <1>1, <2>3, NothingNewShown DEF RegenerateCommit, ReviewJobStatus, TypeOK
  <2>4. ASSUME ResetFalseSent PROVE SimulatedMeansConfirmed'
    BY <1>1, <2>4, NothingNewShown DEF ResetFalseSent, TypeOK
  <2> QED
    BY <1>2, <1>6, <2>1, <2>2, <2>3, <2>4
       DEF Tools, ResendAlert, RegenerateRead, SupersedeTelegramPending, RegenerateNotify, RegenerateEnd
<1>7. CASE Environment
  <2>1. ASSUME NEW k \in Keys, Reconcile(k) PROVE SimulatedMeansConfirmed'
    <3>1. attempts'[k].status = "confirmed_sent" /\ k.mode = "simulated"
      BY <1>1, <2>1 DEF Reconcile, TypeOK, AttemptRow, SendInv, ModesAgree
    <3> QED
      BY <1>1, <2>1, <3>1, ConfirmationShown DEF Reconcile
  <2> QED
    BY <1>2, <1>7, <2>1 DEF Environment, MarkInconclusive, LeaseElapses, BackoffElapses
<1>8. ASSUME NEW w \in Workers, Send(w) PROVE SimulatedMeansConfirmed'
  <2>1. ASSUME RecordOutcome(w), sender[w].pc = "answered" PROVE SimulatedMeansConfirmed'
    <3>1. sender[w].key \in Keys /\ sender[w].outcome \in Outcomes
      BY <1>1, <2>1, WorkerState DEF Answered, Idle
    <3>2. CASE sender[w].outcome = "success"
      <4>1. sender[w].key.mode = "simulated"
        BY <2>1, <3>2 DEF SendInv, ModesAgree, Idle
      <4>2. /\ attempts' = [attempts EXCEPT ![sender[w].key] =
                    [Settled(attempts[sender[w].key], "confirmed_sent") EXCEPT !.receipt = TRUE]]
            /\ ApplyConfirmedSend(sender[w].key)
        BY <2>1, <3>2 DEF RecordOutcome
      <4>3. attempts[sender[w].key] \in AttemptRow
        BY <1>1, <3>1 DEF TypeOK
      <4>4. attempts'[sender[w].key].status = "confirmed_sent"
        BY <1>1, <3>1, <4>2, <4>3 DEF TypeOK, AttemptRow, Settled
      <4> QED
        BY <1>1, <3>1, <4>1, <4>2, <4>4, ConfirmationShown
    <3>3. CASE sender[w].outcome # "success"
      BY <1>2, <2>1, <3>3 DEF RecordOutcome
    <3> QED
      BY <3>2, <3>3
  <2>2. ASSUME HandleSendFailure(w) PROVE SimulatedMeansConfirmed'
    <3>1. sender[w].key.prop \in Proposals
      BY <1>1, <2>2, WorkerState DEF HandleSendFailure, Idle, Keys
    <3>2. \A p \in Proposals : prop'[p].status = "simulated_sent" => prop'[p] = prop[p]
      BY <1>1, <2>2, <3>1 DEF HandleSendFailure, TypeOK
    <3>3. jobStatus' # "simulated_sent"
      BY <2>2 DEF HandleSendFailure
    <3> QED
      BY <1>1, <3>2, <3>3, NothingNewShown
  <2> QED
    BY <1>2, <1>8, <2>1, <2>2
       DEF Send, Claim, ClaimExpiresStale, PlatformCall, FinalizeSendAttempt, FinalizeRejected,
           FinalizeCommitFails, MarkUnknownAfterCommitFailure, Crash
<1> QED
  BY <1>4, <1>5, <1>6, <1>7, <1>8 DEF Next

-----------------------------------------------------------------------------
(* The cards of a proposal.                                                *)

CardsExist == \A c \in Cards : card[c].status # "none" => Created(card[c].prop)

RegeneratedExists == regen.pc \in {"committed", "superseded", "announced"} => Created(regen.prop)

OneStanding ==
    \A c, d \in Cards : Standing(c) /\ Standing(d) /\ card[c].prop = card[d].prop => c = d

\* No row is deleted, and no status becomes the placeholder of a missing one.
LEMMA CreatedStays ==
    ASSUME TypeOK, [Next]_vars, NEW p \in Proposals, Created(p)
    PROVE  Created(p)'
<1>1. ASSUME NEW q \in Proposals, NEW status \in ProposalStatuses \ {"none"},
             prop' = [prop EXCEPT ![q].status = status]
      PROVE  Created(p)'
  BY <1>1 DEF Created, TypeOK
<1>2. CASE UNCHANGED prop
  BY <1>2 DEF Created
<1>3. CASE Review
  <2>1. ASSUME NEW q \in Proposals, NEW c \in Cards, PersistProposal(q, c) PROVE Created(p)'
    BY <2>1 DEF PersistProposal, Created, TypeOK
  <2>2. ASSUME NEW c \in Cards, Approve(c) \/ ApproveDuplicate(c) \/ Skip(c) PROVE Created(p)'
    BY <1>2, <2>2 DEF Approve, ApproveDuplicate, Skip, Created, TypeOK
  <2>3. ASSUME NEW c \in Cards, EditSend(c) PROVE Created(p)'
    BY <2>3 DEF EditSend, Created, TypeOK
  <2> QED
    BY <1>3, <2>1, <2>2, <2>3 DEF Review
<1>4. CASE Tools
  <2>1. ASSUME NEW c \in Cards, NEW d \in Cards, Reissue(c, d) \/ QueueEditExisting(c, d)
        PROVE  Created(p)'
    <3>1. prop' = [prop EXCEPT ![card[c].prop].status = "pending_approval"]
      BY <2>1 DEF Reissue, QueueEditExisting
    <3> QED
      BY <3>1 DEF Created, TypeOK
  <2>2. ASSUME NEW q \in Proposals, SyncSubmittedOffer(q) PROVE Created(p)'
    BY <2>2 DEF SyncSubmittedOffer, Created, TypeOK
  <2>3. ASSUME NEW q \in Proposals, RegenerateCommit(q) PROVE Created(p)'
    BY <2>3 DEF RegenerateCommit, Created, TypeOK
  <2>4. ASSUME ResetFalseSent PROVE Created(p)'
    BY <2>4 DEF ResetFalseSent, Created, TypeOK
  <2> QED
    BY <1>2, <1>4, <2>1, <2>2, <2>3, <2>4
       DEF Tools, ResendAlert, RegenerateRead, SupersedeTelegramPending, RegenerateNotify, RegenerateEnd
<1>5. ASSUME NEW k \in Keys, ApplyConfirmedSend(k) PROVE Created(p)'
  BY <1>5 DEF ApplyConfirmedSend, Created, TypeOK
<1>6. CASE Environment
  BY <1>2, <1>5, <1>6 DEF Environment, Reconcile, MarkInconclusive, LeaseElapses, BackoffElapses
<1>7. ASSUME NEW w \in Workers, Send(w) PROVE Created(p)'
  <2>1. ASSUME RecordOutcome(w), sender[w].pc = "answered" PROVE Created(p)'
    <3>1. sender[w].key \in Keys
      BY <2>1, WorkerState DEF Idle
    <3> QED
      BY <1>2, <1>5, <2>1, <3>1 DEF RecordOutcome
  <2>2. ASSUME HandleSendFailure(w) PROVE Created(p)'
    BY <2>2 DEF HandleSendFailure, Created, TypeOK
  <2> QED
    BY <1>2, <1>7, <2>1, <2>2
       DEF Send, Claim, ClaimExpiresStale, PlatformCall, FinalizeSendAttempt, FinalizeRejected,
           FinalizeCommitFails, MarkUnknownAfterCommitFailure, Crash
<1>8. CASE UNCHANGED vars
  BY <1>2, <1>8 DEF vars
<1> QED
  BY <1>3, <1>4, <1>6, <1>7, <1>8 DEF Next

\* A step changes a card in one of two ways: the card keeps its proposal and
\* stands only if it stood before, or it is a new card of a proposal that exists.
CardKept(c) ==
    /\ card'[c].prop = card[c].prop
    /\ card'[c].status # "none" => card[c].status # "none"
    /\ card'[c].status \in {"pending", "approved", "edited"} => Standing(c)

NewCardOf(d, p) ==
    /\ card'[d].prop = p
    /\ prop'[p].status # "none"
    /\ \A c \in Cards \ {d} : CardKept(c)

\* A card that is kept is of a proposal that still exists.
LEMMA CardKeptExists ==
    ASSUME TypeOK, [Next]_vars, CardsExist, NEW c \in Cards, CardKept(c), card'[c].status # "none"
    PROVE  prop'[card'[c].prop].status # "none"
<1>1. card[c].status # "none" /\ card[c].prop \in Proposals /\ card'[c].prop = card[c].prop
  BY IssuedCard DEF CardKept
<1> QED
  BY <1>1, CreatedStays DEF CardsExist, Created

\* What a step that issues no card keeps.
LEMMA CardsKept ==
    ASSUME TypeOK, [Next]_vars, CardsExist, \A c \in Cards : CardKept(c)
    PROVE  CardsExist' /\ (OneStanding => OneStanding')
<1>1. CardsExist'
  BY CardKeptExists DEF CardsExist, Created
<1> QED
  BY <1>1 DEF OneStanding, Standing, CardKept

\* What a step that issues a card keeps, if no other card of the proposal stands.
LEMMA CardIssued ==
    ASSUME TypeOK, [Next]_vars, CardsExist, NEW d \in Cards, NEW p \in Proposals, NewCardOf(d, p)
    PROVE  /\ CardsExist'
           /\ OneStanding /\ (\A c \in Cards \ {d} : card'[c].prop = p =>
                  card'[c].status \notin {"pending", "approved", "edited"}) => OneStanding'
<1>1. CardsExist'
  BY CardKeptExists DEF CardsExist, Created, NewCardOf
<1>2. ASSUME OneStanding,
             \A c \in Cards \ {d} : card'[c].prop = p =>
                  card'[c].status \notin {"pending", "approved", "edited"}
      PROVE  OneStanding'
  BY <1>2 DEF OneStanding, Standing, CardKept, NewCardOf
<1> QED
  BY <1>1, <1>2

\* The invariant about cards, by its parts.
LEMMA CardParts ==
    CardInv <=> CardsExist /\ RegeneratedExists /\ ("edit_existing" \notin Operator => OneStanding)
BY DEF CardInv, CardsExist, RegeneratedExists, OneStanding

\* The script's proposal exists from its commit on.
LEMMA RegenKept ==
    ASSUME TypeOK, [Next]_vars, RegeneratedExists,
           \/ UNCHANGED regen
           \/ regen'.pc \in {"idle", "read"}
           \/ regen.pc \in {"committed", "superseded"} /\ regen'.prop = regen.prop
    PROVE  RegeneratedExists'
<1>1. ASSUME regen.pc \in {"committed", "superseded", "announced"}
      PROVE  regen.prop \in Proposals /\ prop'[regen.prop].status # "none"
  <2>1. regen.prop \in Proposals
    BY <1>1 DEF TypeOK, NoRegen, RegenRead, RegenWriting
  <2> QED
    BY <1>1, <2>1, CreatedStays DEF RegeneratedExists, Created
<1> QED
  BY <1>1 DEF RegeneratedExists, Created

\* queue_proposal_review gives a card only to a proposal that has none.
LEMMA QueuedCard ==
    ASSUME TypeOK, [Next]_vars, CardsExist, NEW p \in Proposals, Created(p), QueueProposalReview(p)
    PROVE  CardsExist' /\ (OneStanding => OneStanding')
<1>1. CASE HasCard(p)
  <2>1. \A c \in Cards : CardKept(c)
    BY <1>1 DEF QueueProposalReview, CardKept, Standing
  <2> QED
    BY <2>1, CardsKept
<1>2. CASE ~HasCard(p)
  <2>1. PICK d \in Cards : IsNextCard(d) /\ card' = [card EXCEPT ![d] = NewCard(p, prop[p].version, 0)]
    BY <1>2 DEF QueueProposalReview
  <2>2. NewCardOf(d, p)
    <3>1. prop'[p].status # "none"
      BY CreatedStays DEF Created
    <3> QED
      BY <2>1, <3>1 DEF NewCardOf, NewCard, TypeOK, CardKept, Standing
  <2>3. \A c \in Cards \ {d} : card'[c].prop = p => card'[c].status \notin {"pending", "approved", "edited"}
    BY <1>2, <2>1 DEF HasCard, TypeOK
  <2> QED
    BY <2>2, <2>3, CardIssued
<1> QED
  BY <1>1, <1>2

\* Cards exist with their proposals, and at most one of a proposal stands.
LEMMA NextCardInv == TypeOK /\ CardInv /\ [Next]_vars => CardInv'
<1> SUFFICES ASSUME TypeOK, CardInv, [Next]_vars PROVE CardInv'
  OBVIOUS
<1> DEFINE Kept == \A c \in Cards : CardKept(c)
<1>1. CardsExist /\ RegeneratedExists /\ ("edit_existing" \notin Operator => OneStanding)
  BY CardParts
<1>2. ASSUME Kept, RegeneratedExists' PROVE CardInv'
  BY <1>1, <1>2, CardsKept DEF CardInv, CardsExist, RegeneratedExists, OneStanding
<1>3. ASSUME UNCHANGED card PROVE Kept
  BY <1>3 DEF CardKept, Standing
<1>4. ASSUME UNCHANGED regen PROVE RegeneratedExists'
  BY <1>1, <1>4, RegenKept
<1>5. ASSUME NEW c \in Cards, NEW status \in {"approved", "skipped", "duplicate", "edited"},
             card' = [card EXCEPT ![c].status = status], card[c].status = "pending"
      PROVE  Kept
  BY <1>5 DEF CardKept, Standing, TypeOK, CardRow, NoCard
<1>6. ASSUME NEW d \in Cards, NEW p \in Proposals, NewCardOf(d, p), RegeneratedExists',
             \A c \in Cards \ {d} : card'[c].prop = p =>
                  card'[c].status \notin {"pending", "approved", "edited"}
      PROVE  CardInv'
  BY <1>1, <1>6, CardIssued DEF CardInv, CardsExist, RegeneratedExists, OneStanding
<1>7. CASE UNCHANGED vars
  BY <1>2, <1>3, <1>4, <1>7 DEF vars
<1>8. CASE Review
  <2>1. ASSUME NEW p \in Proposals, NEW c \in Cards, PersistProposal(p, c) PROVE CardInv'
    <3>1. \A d \in Cards \ {c} : card[d].status # "none" => card[d].prop # p
      BY <1>1, <2>1 DEF PersistProposal, IsNextProposal, CardsExist
    <3>2. \A d \in Cards \ {c} : card'[d] = card[d]
      BY <2>1 DEF PersistProposal, TypeOK
    <3>3. NewCardOf(c, p)
      BY <2>1, <3>2 DEF PersistProposal, NewCardOf, NewCard, CardKept, Standing, TypeOK
    <3> QED
      BY <1>4, <1>6, <2>1, <3>1, <3>2, <3>3 DEF PersistProposal
  <2>2. ASSUME NEW c \in Cards, Approve(c) \/ ApproveDuplicate(c) \/ Skip(c) \/ EditSend(c)
        PROVE  CardInv'
    <3>1. card[c].status = "pending" /\ UNCHANGED regen
      BY <2>2 DEF Approve, ApproveDuplicate, Skip, EditSend, Actionable
    <3>2. \E status \in {"approved", "skipped", "duplicate", "edited"} :
              card' = [card EXCEPT ![c].status = status]
      BY <2>2 DEF Approve, ApproveDuplicate, Skip, EditSend
    <3> QED
      BY <1>2, <1>4, <1>5, <3>1, <3>2
  <2> QED
    BY <1>8, <2>1, <2>2 DEF Review
<1>9. CASE Tools
  <2>1. ASSUME NEW c \in Cards, NEW d \in Cards, Reissue(c, d) PROVE CardInv'
    <3> DEFINE p == card[c].prop
    <3>1. /\ card[c].status \in {"pending", "approved", "edited"} /\ UNCHANGED regen
          /\ c # d /\ card[d].status = "none"
      BY <2>1 DEF Reissue, IsNextCard
    <3>2. p \in Proposals /\ card[c] \in CardRow
      BY <3>1, IssuedCard
    <3>3. card' = [card EXCEPT ![d] = NewCard(p, prop[p].version, 0), ![c].status = "superseded"]
      BY <2>1 DEF Reissue
    <3>4. /\ card'[d].prop = p
          /\ card'[c].status = "superseded" /\ card'[c].prop = p
          /\ \A e \in Cards \ {c, d} : card'[e] = card[e]
      BY <3>1, <3>2, <3>3 DEF NewCard, TypeOK, CardRow
    <3>5. prop'[p].status = "pending_approval"
      BY <2>1, <3>2 DEF Reissue, TypeOK
    <3>6. NewCardOf(d, p)
      BY <3>1, <3>4, <3>5 DEF NewCardOf, CardKept, Standing
    <3>7. CASE "edit_existing" \notin Operator
      <4>1. \A e \in Cards \ {c, d} : card[e].prop = p => ~Standing(e)
        BY <1>1, <3>1, <3>7 DEF OneStanding, Standing
      <4>2. \A e \in Cards \ {d} : card'[e].prop = p =>
                card'[e].status \notin {"pending", "approved", "edited"}
        BY <3>4, <4>1 DEF Standing
      <4> QED
        BY <1>4, <1>6, <3>1, <3>2, <3>6, <4>2
    <3>8. CASE "edit_existing" \in Operator
      <4>1. CardsExist' /\ RegeneratedExists'
        BY <1>1, <1>4, <3>1, <3>2, <3>6, CardIssued
      <4> QED
        BY <3>8, <4>1 DEF CardInv, CardsExist, RegeneratedExists
    <3> QED
      BY <3>7, <3>8
  <2>2. ASSUME NEW c \in Cards, NEW d \in Cards, QueueEditExisting(c, d) PROVE CardInv'
    <3> DEFINE p == card[c].prop
    <3>1. /\ card[c].status # "none" /\ UNCHANGED regen /\ card[d].status = "none"
          /\ "edit_existing" \in Operator
          /\ card' = [card EXCEPT ![d] = NewCard(p, prop[p].version, c)]
          /\ prop' = [prop EXCEPT ![p].status = "pending_approval"]
      BY <2>2 DEF QueueEditExisting, IsNextCard
    <3>2. p \in Proposals
      BY <3>1, IssuedCard
    <3>3. NewCardOf(d, p)
      BY <3>1, <3>2 DEF NewCardOf, NewCard, CardKept, Standing, TypeOK
    <3>4. CardsExist' /\ RegeneratedExists'
      BY <1>1, <1>4, <3>1, <3>2, <3>3, CardIssued
    <3> QED
      BY <3>1, <3>4 DEF CardInv, CardsExist, RegeneratedExists
  <2>3. ASSUME NEW p \in Proposals, Created(p), QueueProposalReview(p), RegeneratedExists' PROVE CardInv'
    BY <1>1, <2>3, QueuedCard DEF CardInv, CardsExist, RegeneratedExists, OneStanding
  <2>4. ASSUME NEW p \in Proposals, ResendAlert(p) PROVE CardInv'
    BY <1>4, <2>3, <2>4 DEF ResendAlert, Created
  <2>5. ASSUME RegenerateNotify PROVE CardInv'
    <3>1. regen.pc = "superseded" /\ regen' = [pc |-> "announced", prop |-> regen.prop]
      BY <2>5 DEF RegenerateNotify
    <3>2. regen.prop \in Proposals /\ Created(regen.prop)
      BY <1>1, <3>1 DEF TypeOK, NoRegen, RegenRead, RegenWriting, RegeneratedExists
    <3>3. RegeneratedExists'
      BY <1>1, <3>1, RegenKept
    <3> QED
      BY <2>3, <2>5, <3>2, <3>3 DEF RegenerateNotify
  <2>6. ASSUME SupersedeTelegramPending PROVE CardInv'
    <3>1. regen.pc = "committed" /\ regen'.prop = regen.prop
      BY <2>6 DEF SupersedeTelegramPending
    <3>2. RegeneratedExists'
      BY <1>1, <3>1, RegenKept
    <3>3. Kept
      BY <2>6 DEF SupersedeTelegramPending, CardKept, Standing, TypeOK, CardRow, NoCard
    <3> QED
      BY <1>2, <3>2, <3>3
  <2>7. ASSUME NEW p \in Proposals, RegenerateCommit(p) PROVE CardInv'
    <3>1. regen' = [pc |-> "committed", prop |-> p] /\ UNCHANGED card /\ prop'[p].status # "none"
      BY <2>7 DEF RegenerateCommit, TypeOK
    <3>2. RegeneratedExists'
      BY <3>1 DEF RegeneratedExists, Created
    <3> QED
      BY <1>2, <1>3, <3>1, <3>2
  <2>8. ASSUME NEW p \in Proposals, RegenerateRead(p) PROVE CardInv'
    <3>1. regen'.pc = "read" /\ UNCHANGED card
      BY <2>8 DEF RegenerateRead
    <3> QED
      BY <1>1, <1>2, <1>3, <3>1, RegenKept
  <2>9. ASSUME RegenerateEnd PROVE CardInv'
    <3>1. regen'.pc = "idle" /\ UNCHANGED card
      BY <2>9 DEF RegenerateEnd, NoRegen
    <3> QED
      BY <1>1, <1>2, <1>3, <3>1, RegenKept
  <2> QED
    BY <1>2, <1>3, <1>4, <1>9, <2>1, <2>2, <2>4, <2>5, <2>6, <2>7, <2>8, <2>9
       DEF Tools, SyncSubmittedOffer, ResetFalseSent
<1>10. CASE Environment
  BY <1>2, <1>3, <1>4, <1>10 DEF Environment, Reconcile, MarkInconclusive, LeaseElapses, BackoffElapses
<1>11. ASSUME NEW w \in Workers, Send(w) PROVE CardInv'
  <2>1. ASSUME HandleSendFailure(w) PROVE CardInv'
    <3>1. Kept
      BY <2>1 DEF HandleSendFailure, CardKept, Standing, TypeOK, CardRow, NoCard
    <3> QED
      BY <1>2, <1>4, <2>1, <3>1 DEF HandleSendFailure
  <2> QED
    BY <1>2, <1>3, <1>4, <1>11, <2>1
       DEF Send, Claim, ClaimExpiresStale, PlatformCall, FinalizeSendAttempt, FinalizeRejected,
           FinalizeCommitFails, MarkUnknownAfterCommitFailure, Crash
<1> QED
  BY <1>7, <1>8, <1>9, <1>10, <1>11 DEF Next
-----------------------------------------------------------------------------
(* DeliveryPromise: the phase of the job is a function of its attempts,    *)
(* and every transaction moves it the way the promise allows, or not.      *)

\* The phase that one attempt gives a job whose other attempts do not block.
PhaseGiven(a) ==
    IF a.status = "sending" THEN "delivering"
    ELSE IF a.status = "unknown_result" /\ a.receipt THEN "rehearsed"
    ELSE IF a.status \in Blocking THEN "uncertain"
    ELSE "open"

\* When at most one attempt blocks, that attempt gives the phase.
LEMMA PhaseByKey ==
    ASSUME NEW k \in Keys, \A l \in Keys \ {k} : attempts[l].status \notin Blocking
    PROVE  Phase = PhaseGiven(attempts[k])
BY DEF Phase, PhaseGiven, BlockingKeys, Blocking

\* The same, of the state after a step.
LEMMA PhaseByKeyNext ==
    ASSUME NEW k \in Keys, \A l \in Keys \ {k} : attempts'[l].status \notin Blocking
    PROVE  Phase' = PhaseGiven(attempts'[k])
BY DEF Phase, PhaseGiven, BlockingKeys, Blocking

\* Steps that write no attempt and make no offer are stutters of the promise.
LEMMA PhaseKept == UNCHANGED attempts => Phase' = Phase
BY DEF Phase, BlockingKeys

\* A transaction that settles a blocking attempt, or starts a lease's or a
\* back-off's end, without an offer: what the promise allows it.
LEMMA SettlingKeepsPromise ==
    ASSUME SendInv, NEW k \in Keys, k \in BlockingKeys, UNCHANGED offers,
           \A l \in Keys \ {k} : attempts'[l] = attempts[l],
           \/ PhaseGiven(attempts'[k]) = PhaseGiven(attempts[k])
           \/ PhaseGiven(attempts'[k]) = "uncertain"
           \/ /\ PhaseGiven(attempts[k]) \in {"delivering", "rehearsed"}
              /\ PhaseGiven(attempts'[k]) = "open" /\ k \notin offeredKeys
           \/ /\ PhaseGiven(attempts[k]) = "delivering"
              /\ PhaseGiven(attempts'[k]) = "rehearsed" /\ k \notin offeredKeys
    PROVE  [Promise!Next]_(Promise!vars)
<1>1. \A l \in Keys \ {k} : attempts[l].status \notin Blocking
  BY DEF SendInv, OneBlockingAttempt, BlockingKeys
<1>2. Phase = PhaseGiven(attempts[k]) /\ Phase' = PhaseGiven(attempts'[k])
  BY <1>1, PhaseByKey, PhaseByKeyNext
<1>3. k \notin offeredKeys => offers = 0
  BY DEF SendInv, OffersBlock, OneBlockingAttempt
<1> QED
  BY <1>2, <1>3 DEF Promise!Next, Promise!Release, Promise!Rehearse, Promise!Doubt, Promise!vars

\* Initially the job is open and nothing was offered.
LEMMA InitKeepsPromise == Init => Promise!Init
<1> SUFFICES ASSUME Init PROVE Phase = "open" /\ offers = 0
  BY DEF Promise!Init
<1> QED
  BY DEF Init, Phase, BlockingKeys, Blocking, NoAttempt

\* A claim starts a delivery of an open job that no offer has reached.
LEMMA ClaimKeepsPromise ==
    ASSUME SendInv, NEW w \in Workers, NEW p \in Proposals, Claim(w, p)
    PROVE  [Promise!Next]_(Promise!vars)
<1> DEFINE k == KeyFor(w, p)
<1>1. k \in Keys /\ attempts[k] \in AttemptRow
  BY KeyForType DEF SendInv, TypeOK
<1>2. BlockingKeys = {} /\ offers = 0 /\ UNCHANGED offers
  BY DEF Claim, SendInv, OffersBlock, observation
<1>3. /\ attempts'[k].status \in {"sending", "needs_attention"}
      /\ \A l \in Keys \ {k} : attempts'[l] = attempts[l]
  BY <1>1 DEF Claim, SendInv, TypeOK, AttemptRow
<1>4. \A l \in Keys : attempts[l].status \notin Blocking
  BY <1>2 DEF BlockingKeys
<1>5. Phase = "open"
  BY <1>1, <1>4, PhaseByKey DEF PhaseGiven, Blocking
<1>6. Phase' \in {"delivering", "uncertain"}
  BY <1>1, <1>3, <1>4, PhaseByKeyNext DEF PhaseGiven, Blocking
<1> QED
  BY <1>2, <1>5, <1>6 DEF Promise!Next, Promise!Start, Promise!Doubt

\* A call that takes effect is the promise's one offer.
LEMMA CallKeepsPromise ==
    ASSUME SendInv, NEW w \in Workers, NEW outcome \in Outcomes, NEW effect \in BOOLEAN,
           PlatformCall(w, outcome, effect)
    PROVE  [Promise!Next]_(Promise!vars)
<1> DEFINE k == sender[w].key
<1>1. Phase' = Phase
  BY PhaseKept DEF PlatformCall
<1>2. CASE ~effect
  BY <1>1, <1>2 DEF PlatformCall, observation, Promise!vars
<1>3. CASE effect
  <2>1. k \in Keys /\ LiveCarrier(w) /\ sender[w] # Idle
    BY <1>3, WorkerState DEF PlatformCall, LiveCarrier, Idle, SendInv
  <2>2. k \in BlockingKeys /\ k \notin offeredKeys /\ ~attempts[k].receipt
    BY <2>1 DEF SendInv, CarriersBlock, ModesAgree, LiveCarrier, PlatformCall
  <2>3. offers = 0 /\ \A l \in Keys \ {k} : attempts[l].status \notin Blocking
    BY <2>2 DEF SendInv, OffersBlock, OneBlockingAttempt, BlockingKeys
  <2>4. Phase \in {"delivering", "uncertain"}
    BY <2>1, <2>2, <2>3, PhaseByKey DEF PhaseGiven, BlockingKeys
  <2>5. offers' = 1
    BY <1>3, <2>3 DEF PlatformCall
  <2> QED
    BY <1>1, <2>3, <2>4, <2>5 DEF Promise!Next, Promise!Offer
<1> QED
  BY <1>2, <1>3

\* What finalize writes ends a delivery the way the promise allows.
LEMMA OutcomeKeepsPromise ==
    ASSUME SendInv, NEW w \in Workers, sender[w].pc = "answered", HoldsClaim(w),
           RecordOutcome(w), UNCHANGED offers
    PROVE  [Promise!Next]_(Promise!vars)
<1> DEFINE k == sender[w].key
<1>1. k \in Keys /\ sender[w] # Idle /\ attempts[k].status = "sending" /\ sender[w].outcome \in Outcomes
  BY WorkerState DEF SendInv, Idle, HoldsClaim, Answered
<1>2. attempts[k] \in AttemptRow /\ k \in BlockingKeys /\ PhaseGiven(attempts[k]) = "delivering"
  BY <1>1 DEF SendInv, TypeOK, BlockingKeys, Blocking, PhaseGiven
<1>3. CASE sender[w].outcome = "success"
  <2>1. attempts' = [attempts EXCEPT ![k] =
                            [Settled(attempts[k], "confirmed_sent") EXCEPT !.receipt = TRUE]]
    BY <1>3 DEF RecordOutcome
  <2>2. attempts'[k].status = "confirmed_sent" /\ \A l \in Keys \ {k} : attempts'[l] = attempts[l]
    BY <1>1, <1>2, <2>1 DEF SendInv, TypeOK, Settled, AttemptRow
  <2>3. k \notin offeredKeys
    BY <1>1, <1>3 DEF SendInv, ModesAgree
  <2>4. PhaseGiven(attempts'[k]) = "open"
    BY <2>2 DEF PhaseGiven, Blocking
  <2> QED
    BY <1>1, <1>2, <2>2, <2>3, <2>4, SettlingKeepsPromise
<1>4. CASE /\ sender[w].outcome \in {"ambiguous", "failed"}
           /\ attempts' = [attempts EXCEPT ![k] = Settled(attempts[k], "unknown_result")]
  <2>1. attempts' = [attempts EXCEPT ![k] = Settled(attempts[k], "unknown_result")]
    BY <1>4
  <2>2. /\ attempts'[k].status = "unknown_result" /\ attempts'[k].receipt = attempts[k].receipt
        /\ \A l \in Keys \ {k} : attempts'[l] = attempts[l]
    BY <1>1, <1>2, <2>1 DEF SendInv, TypeOK, Settled, AttemptRow
  <2>3. ~attempts[k].receipt
    BY <1>1, <1>4 DEF SendInv, ModesAgree
  <2>4. PhaseGiven(attempts'[k]) = "uncertain"
    BY <2>2, <2>3 DEF PhaseGiven, Blocking
  <2> QED
    BY <1>1, <1>2, <2>2, <2>4, SettlingKeepsPromise
<1>5. CASE /\ sender[w].outcome \in {"failed", "closed"}
           /\ attempts' = [attempts EXCEPT ![k] =
                IF attempts[k].count >= MaxAttempts THEN Settled(attempts[k], "needs_attention")
                ELSE [Settled(attempts[k], "known_failed") EXCEPT !.backoff = TRUE]]
  <2>1. attempts' = [attempts EXCEPT ![k] =
                IF attempts[k].count >= MaxAttempts THEN Settled(attempts[k], "needs_attention")
                ELSE [Settled(attempts[k], "known_failed") EXCEPT !.backoff = TRUE]]
    BY <1>5
  <2>2. /\ attempts'[k].status \in {"needs_attention", "known_failed"}
        /\ \A l \in Keys \ {k} : attempts'[l] = attempts[l]
    BY <1>1, <1>2, <2>1 DEF SendInv, TypeOK, Settled, AttemptRow
  <2>3. k \notin offeredKeys
    BY <1>5 DEF SendInv, ModesAgree, CarriersBlock, LiveCarrier
  <2>4. PhaseGiven(attempts'[k]) \in {"uncertain", "open"}
    BY <2>2 DEF PhaseGiven, Blocking
  <2> QED
    BY <1>1, <1>2, <2>2, <2>3, <2>4, SettlingKeepsPromise
<1> QED
  BY <1>3, <1>4, <1>5 DEF RecordOutcome

\* The steps of a worker.
LEMMA SendKeepsPromise ==
    ASSUME SendInv, NEW w \in Workers, Send(w) PROVE [Promise!Next]_(Promise!vars)
<1> DEFINE k == sender[w].key
<1>1. ASSUME UNCHANGED <<attempts, offers>> PROVE [Promise!Next]_(Promise!vars)
  BY <1>1, PhaseKept DEF Promise!vars
<1>2. ASSUME NEW p \in Proposals, Claim(w, p) PROVE [Promise!Next]_(Promise!vars)
  BY <1>2, ClaimKeepsPromise
<1>3. ASSUME NEW p \in Proposals, NEW l \in Keys, ClaimExpiresStale(w, p, l)
      PROVE  [Promise!Next]_(Promise!vars)
  <2>1. attempts[l] \in AttemptRow /\ attempts[l].status = "sending" /\ l \in BlockingKeys
    BY <1>3 DEF ClaimExpiresStale, SendInv, TypeOK, BlockingKeys, Blocking
  <2>2. attempts' = [attempts EXCEPT ![l] = Expired(attempts[l])]
    BY <1>3 DEF ClaimExpiresStale
  <2>3. /\ attempts'[l].status = "unknown_result" /\ attempts'[l].receipt = attempts[l].receipt
        /\ \A m \in Keys \ {l} : attempts'[m] = attempts[m]
    BY <2>1, <2>2 DEF SendInv, TypeOK, Expired, AttemptRow
  <2>4. attempts[l].receipt => l \notin offeredKeys
    BY DEF SendInv, ModesAgree
  <2>5. /\ PhaseGiven(attempts[l]) = "delivering"
        /\ PhaseGiven(attempts'[l]) = IF attempts[l].receipt THEN "rehearsed" ELSE "uncertain"
    BY <2>1, <2>3 DEF PhaseGiven, Blocking
  <2>6. UNCHANGED offers
    BY <1>3 DEF ClaimExpiresStale, observation
  <2> QED
    BY <2>1, <2>3, <2>4, <2>5, <2>6, SettlingKeepsPromise
<1>4. ASSUME NEW outcome \in Outcomes, NEW effect \in BOOLEAN, PlatformCall(w, outcome, effect)
      PROVE  [Promise!Next]_(Promise!vars)
  BY <1>4, CallKeepsPromise
<1>5. ASSUME FinalizeSendAttempt(w) PROVE [Promise!Next]_(Promise!vars)
  BY <1>5, OutcomeKeepsPromise DEF FinalizeSendAttempt, observation
<1>6. ASSUME FinalizeCommitFails(w) PROVE [Promise!Next]_(Promise!vars)
  BY <1>1, <1>6, OutcomeKeepsPromise DEF FinalizeCommitFails, observation
<1>7. ASSUME MarkUnknownAfterCommitFailure(w) PROVE [Promise!Next]_(Promise!vars)
  <2>1. CASE ~HoldsClaim(w)
    BY <1>1, <1>7, <2>1 DEF MarkUnknownAfterCommitFailure, observation
  <2>2. CASE HoldsClaim(w)
    <3>1. k \in Keys /\ sender[w] # Idle /\ attempts[k].status = "sending"
      BY <1>7, <2>2, WorkerState DEF SendInv, MarkUnknownAfterCommitFailure, HoldsClaim, Idle
    <3>2. attempts[k] \in AttemptRow /\ k \in BlockingKeys /\ PhaseGiven(attempts[k]) = "delivering"
      BY <3>1 DEF SendInv, TypeOK, BlockingKeys, Blocking, PhaseGiven
    <3>3. attempts' = [attempts EXCEPT ![k] =
                            [Settled(attempts[k], "unknown_result") EXCEPT !.receipt = TRUE]]
      BY <1>7, <2>2 DEF MarkUnknownAfterCommitFailure
    <3>4. /\ attempts'[k].status = "unknown_result" /\ attempts'[k].receipt
          /\ \A l \in Keys \ {k} : attempts'[l] = attempts[l]
      BY <3>1, <3>2, <3>3 DEF SendInv, TypeOK, Settled, AttemptRow
    <3>5. k \notin offeredKeys
      BY <1>7, <3>1 DEF SendInv, ModesAgree, MarkUnknownAfterCommitFailure
    <3>6. PhaseGiven(attempts'[k]) = "rehearsed" /\ UNCHANGED offers
      BY <1>7, <3>4 DEF PhaseGiven, MarkUnknownAfterCommitFailure, observation
    <3> QED
      BY <3>1, <3>2, <3>4, <3>5, <3>6, SettlingKeepsPromise
  <2> QED
    BY <2>1, <2>2
<1>8. ASSUME FinalizeRejected(w) \/ HandleSendFailure(w) \/ Crash(w)
      PROVE  [Promise!Next]_(Promise!vars)
  BY <1>1, <1>8 DEF FinalizeRejected, HandleSendFailure, Crash, observation
<1> QED
  BY <1>2, <1>3, <1>4, <1>5, <1>6, <1>7, <1>8 DEF Send

\* Reconciliation and the passing of time.
LEMMA EnvironmentKeepsPromise ==
    ASSUME SendInv, NEW k \in Keys,
           Reconcile(k) \/ MarkInconclusive(k) \/ LeaseElapses(k) \/ BackoffElapses(k)
    PROVE  [Promise!Next]_(Promise!vars)
<1>1. attempts[k] \in AttemptRow
  BY DEF SendInv, TypeOK
<1>2. UNCHANGED offers
  BY DEF Reconcile, MarkInconclusive, LeaseElapses, BackoffElapses, observation
<1>3. CASE Reconcile(k)
  <2>1. /\ attempts[k].status = "unknown_result" /\ attempts[k].receipt
        /\ attempts'[k].status = "confirmed_sent"
        /\ \A l \in Keys \ {k} : attempts'[l] = attempts[l]
    BY <1>1, <1>3 DEF Reconcile, SendInv, TypeOK, AttemptRow
  <2>2. k \in BlockingKeys /\ k \notin offeredKeys
    BY <2>1 DEF BlockingKeys, Blocking, SendInv, ModesAgree
  <2>3. PhaseGiven(attempts[k]) = "rehearsed" /\ PhaseGiven(attempts'[k]) = "open"
    BY <2>1 DEF PhaseGiven, Blocking
  <2> QED
    BY <1>2, <2>1, <2>2, <2>3, SettlingKeepsPromise
<1>4. CASE MarkInconclusive(k)
  <2>1. /\ attempts[k].status = "unknown_result" /\ attempts'[k].status = "needs_attention"
        /\ \A l \in Keys \ {k} : attempts'[l] = attempts[l]
    BY <1>1, <1>4 DEF MarkInconclusive, SendInv, TypeOK, AttemptRow
  <2>2. k \in BlockingKeys /\ PhaseGiven(attempts'[k]) = "uncertain"
    BY <2>1 DEF BlockingKeys, Blocking, PhaseGiven
  <2> QED
    BY <1>2, <2>1, <2>2, SettlingKeepsPromise
<1>5. CASE LeaseElapses(k) \/ BackoffElapses(k)
  <2>1. \A l \in Keys : /\ attempts'[l].status = attempts[l].status
                        /\ attempts'[l].receipt = attempts[l].receipt
    <3>1. attempts \in [Keys -> AttemptRow]
      BY DEF SendInv, TypeOK
    <3>2. CASE LeaseElapses(k)
      BY <3>1, <3>2 DEF LeaseElapses, AttemptRow
    <3>3. CASE BackoffElapses(k)
      BY <3>1, <3>3 DEF BackoffElapses, AttemptRow
    <3> QED
      BY <1>5, <3>2, <3>3
  <2>2. Phase' = Phase
    BY <2>1 DEF Phase, BlockingKeys
  <2> QED
    BY <1>2, <2>2 DEF Promise!vars
<1> QED
  BY <1>3, <1>4, <1>5

\* Every step of the system is a step of the promise or none.
LEMMA NextKeepsPromise == SendInv /\ [Next]_vars => [Promise!Next]_(Promise!vars)
<1> SUFFICES ASSUME SendInv, [Next]_vars PROVE [Promise!Next]_(Promise!vars)
  OBVIOUS
<1>1. ASSUME UNCHANGED <<attempts, observation>> PROVE [Promise!Next]_(Promise!vars)
  BY <1>1, PhaseKept DEF observation, Promise!vars
<1>2. CASE UNCHANGED vars
  BY <1>1, <1>2 DEF vars
<1>3. CASE Review
  BY <1>1, <1>3 DEF Review, PersistProposal, Approve, ApproveDuplicate, Skip, EditSend
<1>4. CASE Tools
  BY <1>1, <1>4 DEF Tools, Reissue, QueueEditExisting, SyncSubmittedOffer, ResendAlert,
         RegenerateRead, RegenerateCommit, ResetFalseSent, SupersedeTelegramPending,
         RegenerateNotify, RegenerateEnd
<1>5. CASE Environment
  BY <1>5, EnvironmentKeepsPromise DEF Environment
<1>6. CASE \E w \in Workers : Send(w)
  BY <1>6, SendKeepsPromise
<1> QED
  BY <1>2, <1>3, <1>4, <1>5, <1>6 DEF Next

-----------------------------------------------------------------------------
(* The theorems.                                                           *)

\* The invariant holds initially.
LEMMA InitIInv == Init => IInv
<1> SUFFICES ASSUME Init PROVE IInv
  OBVIOUS
<1>1. SendInv
  BY InitSendInv
<1>2. SimulatedMeansConfirmed
  BY DEF Init, SimulatedMeansConfirmed
<1>3. CardInv
  BY DEF Init, CardInv, NoCard, NoRegen, Standing
<1> QED
  BY <1>1, <1>2, <1>3 DEF IInv

\* The invariant is inductive.
LEMMA NextIInv == IInv /\ [Next]_vars => IInv'
<1> SUFFICES ASSUME IInv, [Next]_vars PROVE IInv'
  OBVIOUS
<1>1. TypeOK
  BY DEF IInv, SendInv
<1> QED
  BY <1>1, NextSendInv, NextSimulated, NextCardInv DEF IInv

(* Every reachable state satisfies the strengthened invariant.             *)
THEOREM InductiveInvariant == Spec => []IInv
BY InitIInv, NextIInv, PTL DEF Spec

(* At most one offer reaches the platform for the job, for any number of   *)
(* workers, retries, cards and operator tools: a key whose call may have   *)
(* had an effect blocks every later claim of the job.                      *)
THEOREM NeverOfferedTwice == Spec => []AtMostOneOffer
<1>1. IInv => AtMostOneOffer
  BY DEF IInv, SendInv
<1> QED
  BY <1>1, InductiveInvariant, PTL

(* No two attempts of the job are ever sending or unresolved at once.      *)
THEOREM ClaimsAreExclusive == Spec => []OneBlockingAttempt
<1>1. IInv => OneBlockingAttempt
  BY DEF IInv, SendInv
<1> QED
  BY <1>1, InductiveInvariant, PTL

(* Whatever reached the platform was approved in exactly that version and  *)
(* for that submission action.                                             *)
THEOREM NothingUnapprovedIsOffered == Spec => []OfferWasApproved
<1>1. IInv => OfferWasApproved
  BY DEF IInv, SendInv
<1> QED
  BY <1>1, InductiveInvariant, PTL

(* The text of a sending or unresolved attempt stays the current text of   *)
(* its proposal until the attempt is settled.                              *)
THEOREM InFlightTextIsKept == Spec => []InFlightTextIsCurrent
<1>1. IInv => InFlightTextIsCurrent
  BY DEF IInv, SendInv
<1> QED
  BY <1>1, InductiveInvariant, PTL

(* A proposal or job shown as simulated sent has a confirmed dry run behind *)
(* it, of the proposal's present text, for any mix of live and dry-run      *)
(* workers and every set of operator tools.                                 *)
THEOREM ShownIsConfirmed == Spec => []SimulatedMeansConfirmed
<1>1. IInv => SimulatedMeansConfirmed
  BY DEF IInv
<1> QED
  BY <1>1, InductiveInvariant, PTL

(* A proposal never has two cards a human could still decide, as long as    *)
(* the tool that asks to edit a submitted offer, which leaves its source    *)
(* card as it was, is not in use.                                           *)
THEOREM OneCardToDecide ==
    ASSUME "edit_existing" \notin Operator
    PROVE  Spec => []OneActionableCard
<1>1. IInv => OneActionableCard
  BY DEF IInv, CardInv, OneActionableCard, Actionable, Standing
<1> QED
  BY <1>1, InductiveInvariant, PTL

(* No commit failure, reconciliation, expired lease or late worker takes a  *)
(* confirmed attempt back.                                                  *)
THEOREM ConfirmedStaysConfirmed == Spec => ConfirmedIsFinal
<1>1. TypeOK /\ [Next]_vars => [\A k \in ConfirmedKeys : attempts'[k].status = "confirmed_sent"]_vars
  BY ConfirmedStays
<1>2. IInv => TypeOK
  BY DEF IInv, SendInv
<1> QED
  BY <1>1, <1>2, InductiveInvariant, PTL DEF Spec, ConfirmedIsFinal

(* The send-attempt machinery implements its promise: one delivery at a    *)
(* time, at most one offer, nothing after an uncertain result, and an open *)
(* job only while no offer was made.                                       *)
THEOREM ImplementsPromise == Spec => KeepsPromise
<1>1. IInv => SendInv
  BY DEF IInv
<1> QED
  BY <1>1, InductiveInvariant, InitKeepsPromise, NextKeepsPromise, PTL
     DEF Spec, KeepsPromise, Promise!Spec
=============================================================================
