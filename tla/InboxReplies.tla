----------------------------- MODULE InboxReplies -----------------------------
(***************************************************************************)
(* Review and delivery of the reply to one client message: cards, edit     *)
(* dialogue, approvals, send attempts, reconciliation, and the operator's  *)
(* tools that replace cards (telegram/inbox_handlers.py,                   *)
(* services/inbox_approval.py, the inbox half of send_attempt_service,     *)
(* send_attempt_reconcile, review_reissue and kwork_inbox.py).  How the    *)
(* message is captured and its draft generated is InboxIntake.             *)
(*                                                                         *)
(* Each transaction that locks the rows it reads is one step; reprocess,   *)
(* which reads the card without a lock, is two.  A draft is a number, 0 is *)
(* no draft; an order is a number, 0 is none.  A button is live on the     *)
(* Telegram message whose ID the card holds: "card" or, after an edit, the *)
(* "preview".  Leases and back-offs have elapsed or not whenever the code  *)
(* looks at them.  Live platform only: a dry run differs in the word       *)
(* simulated_sent.                                                         *)
(***************************************************************************)
EXTENDS Naturals, FiniteSets

CONSTANTS
    Handlers,       \* concurrent callbacks of the bot
    MaxCards, MaxTexts, MaxPasses,      \* bounds: cards, drafts, reprocesses
    MaxAttempts,    \* send_attempt_max_attempts
    Operator        \* tools in use

OperatorTools == {"reissue", "refresh", "bind", "reprocess"}

ASSUME RepliesAssumption ==
    /\ {MaxCards, MaxTexts, MaxAttempts} \subseteq Nat \ {0}
    /\ MaxPasses \in Nat
    /\ Operator \subseteq OperatorTools

VARIABLES
    inbound,    \* the message's row: its card, its order, whether it awaits a draft
    card,       \* telegram_inbox_pending
    texts,      \* drafts written so far
    approvals,  \* inbox_approval_records of kind card and edited_preview
    attempts,   \* send_attempts, by idempotency key
    handler,    \* callbacks that approved and now send
    dialog,     \* FSM state of the operator's chat
    refresh,    \* the draft refresh between its two transactions
    reset,      \* a reprocess between its read and its write
    reached,    \* history: keys whose text the client received
    replies     \* history: replies received, by pass

vars == <<inbound, card, texts, approvals, attempts, handler, dialog, refresh, reset,
          reached, replies>>

observation == <<reached, replies>>

Cards == 1..MaxCards
Texts == 0..MaxTexts
Orders == 0..2
Passes == 0..MaxPasses
Keys == Cards \X Texts

CardStatuses == {"none", "pending", "approved", "edited", "skipped", "superseded", "sent"}
AttemptStatuses == {"none", "sending", "known_failed", "unknown_result",
                    "needs_attention", "confirmed_sent"}
Faces == {"none", "card", "preview"}

CardType == [status: CardStatuses, text: Texts, order: Orders, shownText: Texts,
             shownOrder: Orders, face: Faces, pass: Passes]
NoCard == [status |-> "none", text |-> 0, order |-> 0, shownText |-> 0,
           shownOrder |-> 0, face |-> "none", pass |-> 0]

AttemptType == [status: AttemptStatuses, token: 0..MaxAttempts, count: 0..MaxAttempts]
NoAttempt == [status |-> "none", token |-> 0, count |-> 0]

ApprovalType == [card: Cards, text: Texts, order: Orders, face: Faces]

Idle == [pc |-> "idle", key |-> <<1, 0>>, token |-> 0, outcome |-> "none"]
HandlerType == [pc: {"idle", "approved", "calling", "answered", "marking"}, key: Keys,
                token: 0..MaxAttempts, outcome: {"none", "success", "ambiguous", "failed"}]

NoDialog == [pc |-> "none", card |-> 1, before |-> 0, text |-> 0]
NoRefresh == [pc |-> "idle", card |-> 1, row |-> NoCard]
NoReset == [pc |-> "idle", pending |-> FALSE]

Init ==
    /\ inbound \in [card: {0}, order: {0, 1}, received: {TRUE}, pass: {0}]
    /\ card = [c \in Cards |-> NoCard]
    /\ texts = 0
    /\ approvals = {}
    /\ attempts = [k \in Keys |-> NoAttempt]
    /\ handler = [h \in Handlers |-> Idle]
    /\ dialog = NoDialog /\ refresh = NoRefresh /\ reset = NoReset
    /\ reached = {}
    /\ replies = [n \in Passes |-> 0]

------------------------------------------------------------------------------
(* What the guards read *)

\* Mutant: an unresolved delivery does not hold others up.
BlockingWhileSending == {"sending"}
Blocking == {"sending", "unknown_result", "needs_attention"}

\* delivery_blocks_mutation for a card
DeliveryBlocks(c, includeConfirmed) ==
    \E t \in Texts : \/ attempts[c, t].status \in Blocking
                     \/ includeConfirmed /\ attempts[c, t].status = "confirmed_sent"

Payload(c) == [card |-> c, text |-> card[c].text, order |-> card[c].order,
               face |-> card[c].face]

\* inbox_presentation_is_current
PresentationIsCurrent(c) == /\ card[c].shownText = card[c].text
                            /\ card[c].shownOrder = card[c].order

\* Mutant: a decided card can be pressed again.
PressableAnyStatus(c) == card[c].face = "card" /\ PresentationIsCurrent(c)
\* A press on the card's own Telegram message, which shows what would be sent.
Pressable(c) == /\ card[c].status = "pending" /\ card[c].face = "card"
                /\ PresentationIsCurrent(c)

\* Mutant: an approval for another order will do.
MatchingApprovalAnyOrder(c) ==
    \E a \in approvals : a.card = c /\ a.text = card[c].text /\ a.face = card[c].face
MatchingApproval(c) == Payload(c) \in approvals

IsNextCard(c) == /\ card[c].status = "none"
                 /\ \A d \in Cards : d < c => card[d].status # "none"

NewCard(text, order, pass) ==
    [status |-> "pending", text |-> text, order |-> order, shownText |-> text,
     shownOrder |-> order, face |-> "none", pass |-> pass]

------------------------------------------------------------------------------
(* Cards *)

\* The last transaction of _persist_inbound_bundle; without an order there is no draft.
Present(c) ==
    LET drafts == IF inbound.order = 0 THEN 0 ELSE 1
        text == IF inbound.order = 0 THEN 0 ELSE texts + 1
    IN /\ inbound.received /\ reset.pc = "idle"
       /\ IsNextCard(c) /\ texts + drafts <= MaxTexts
       /\ texts' = texts + drafts
       /\ card' = [card EXCEPT ![c] = NewCard(text, inbound.order, inbound.pass)]
       /\ inbound' = [inbound EXCEPT !.received = FALSE, !.card = c]
       /\ UNCHANGED <<approvals, attempts, handler, dialog, refresh, reset, observation>>

\* The outbox confirms that the card is in the chat.
Delivered(c) ==
    /\ card[c].status = "pending" /\ card[c].face = "none"
    /\ card' = [card EXCEPT ![c].face = "card"]
    /\ UNCHANGED <<inbound, texts, approvals, attempts, handler, dialog, refresh, reset,
                   observation>>

\* APPROVE: recorded and committed; the sending follows in the same callback.
Approve(h, c) ==
    /\ handler[h].pc = "idle" /\ Pressable(c) /\ card[c].text # 0
    /\ approvals' = approvals \cup {Payload(c)}
    /\ card' = [card EXCEPT ![c].status = "approved"]
    /\ handler' = [handler EXCEPT ![h].pc = "approved", ![h].key = <<c, card[c].text>>]
    /\ UNCHANGED <<inbound, texts, attempts, dialog, refresh, reset, observation>>

\* APPROVE again, before the buttons are gone: nothing is recorded, the sending follows.
ApproveAgain(h, c) ==
    /\ handler[h].pc = "idle"
    /\ card[c].status = "approved" /\ card[c].face = "card"
    /\ handler' = [handler EXCEPT ![h].pc = "approved", ![h].key = <<c, card[c].text>>]
    /\ UNCHANGED <<inbound, card, texts, approvals, attempts, dialog, refresh, reset,
                   observation>>

Skip(c) ==
    /\ Pressable(c)
    /\ card' = [card EXCEPT ![c].status = "skipped"]
    /\ UNCHANGED <<inbound, texts, approvals, attempts, handler, dialog, refresh, reset,
                   observation>>

------------------------------------------------------------------------------
(* The edit dialogue *)

DialogOnly == UNCHANGED <<inbound, card, approvals, attempts, handler, refresh, reset,
                          observation>>

EditStart(c) ==
    /\ Pressable(c)
    /\ dialog' = [pc |-> "asking", card |-> c, before |-> card[c].text, text |-> card[c].text]
    /\ UNCHANGED texts /\ DialogOnly

\* The instruction is applied by the model; a failure leaves the dialogue where it is.
Instruct ==
    /\ dialog.pc = "asking" /\ texts < MaxTexts
    /\ texts' = texts + 1
    /\ dialog' = [dialog EXCEPT !.pc = "reviewing", !.text = texts + 1]
    /\ DialogOnly

EditMore ==
    /\ dialog.pc = "reviewing"
    /\ dialog' = [dialog EXCEPT !.pc = "asking"]
    /\ UNCHANGED texts /\ DialogOnly

EditCancel ==
    /\ dialog.pc = "reviewing"
    /\ dialog' = NoDialog
    /\ UNCHANGED texts /\ DialogOnly

\* SEND on the preview: the card must still be the one the dialogue began with.
EditSend(h) ==
    LET c == dialog.card
    IN /\ handler[h].pc = "idle" /\ dialog.pc = "reviewing"
       /\ Pressable(c) /\ card[c].text = dialog.before
       /\ ~DeliveryBlocks(c, FALSE)
       /\ card' = [card EXCEPT ![c].text = dialog.text, ![c].status = "edited",
                               ![c].face = "preview"]
       /\ approvals' = approvals \cup {[card |-> c, text |-> dialog.text,
                                        order |-> card[c].order, face |-> "preview"]}
       /\ dialog' = NoDialog
       /\ handler' = [handler EXCEPT ![h].pc = "approved", ![h].key = <<c, dialog.text>>]
       /\ UNCHANGED <<inbound, texts, attempts, refresh, reset, observation>>

------------------------------------------------------------------------------
(* Sending: send_kwork_inbox_reply *)

SendOnly == UNCHANGED <<inbound, texts, approvals, dialog, refresh, reset>>

\* prepare_inbox_reply_send finds the card still approved as the callback knows it.
MaySend(c, t) == /\ card[c].text = t
                 /\ card[c].status \in {"approved", "edited"}
                 /\ MatchingApproval(c)

\* The attempts of the card that hold up another one.
Open(c) == {k \in Keys : k[1] = c /\ attempts[k].status \in Blocking}

Claim(h) ==
    LET k == handler[h].key
        c == k[1]
        n == attempts[k].count + 1
    IN /\ handler[h].pc = "approved"
       /\ MaySend(c, k[2]) /\ Open(c) = {}
       /\ attempts[k].status \in {"none", "known_failed"}
       /\ n <= MaxAttempts
       /\ attempts' = [attempts EXCEPT ![k] = [status |-> "sending", token |-> n, count |-> n]]
       /\ handler' = [handler EXCEPT ![h].pc = "calling", ![h].token = n]
       /\ UNCHANGED <<card, observation>> /\ SendOnly

\* The attempts in S whose lease has elapsed become unknown results.
Expired(S) == [j \in Keys |-> IF j \in S
                   THEN [attempts[j] EXCEPT !.status = "unknown_result", !.token = 0]
                   ELSE attempts[j]]

\* Every refusal ends the callback: the card changed, an attempt is open, an attempt that
\* has been tried often enough is left to the operator, it is confirmed, or it must wait.
ClaimRefused(h) ==
    LET k == handler[h].key
        c == k[1]
        spent == attempts[k].status = "known_failed" /\ attempts[k].count >= MaxAttempts
    IN /\ handler[h].pc = "approved"
       /\ \/ ~MaySend(c, k[2]) /\ UNCHANGED attempts
          \/ /\ MaySend(c, k[2]) /\ Open(c) # {}
             /\ \E elapsed \in SUBSET {j \in Open(c) : attempts[j].status = "sending"} :
                    attempts' = Expired(elapsed)
          \/ /\ MaySend(c, k[2]) /\ Open(c) = {} /\ spent
             /\ attempts' = [attempts EXCEPT ![k].status = "needs_attention"]
          \/ /\ MaySend(c, k[2]) /\ Open(c) = {} /\ ~spent
             /\ attempts[k].status \in {"confirmed_sent", "known_failed"}
             /\ UNCHANGED attempts
       /\ handler' = [handler EXCEPT ![h] = Idle]
       /\ UNCHANGED <<card, observation>> /\ SendOnly

\* The platform takes the message; its answer may be lost.
CallReaches(h) ==
    LET k == handler[h].key
    IN /\ handler[h].pc = "calling"
       /\ \E outcome \in {"success", "ambiguous"} :
              handler' = [handler EXCEPT ![h].pc = "answered", ![h].outcome = outcome]
       /\ reached' = reached \cup {k}
       /\ replies' = [replies EXCEPT ![card[k[1]].pass] = @ + 1]
       /\ UNCHANGED <<card, attempts>> /\ SendOnly

\* The session cannot be opened (known failure), or the call raises without effect.
CallFails(h) ==
    /\ handler[h].pc = "calling"
    /\ \E outcome \in {"failed", "ambiguous"} :
           handler' = [handler EXCEPT ![h].pc = "answered", ![h].outcome = outcome]
    /\ UNCHANGED <<card, attempts, observation>> /\ SendOnly

\* Mutant: a late answer is applied to whatever the row has become.
HoldsUnfenced(h) == attempts[handler[h].key].status # "none"
HoldsClaim(h) == LET k == handler[h].key
                 IN attempts[k].status = "sending" /\ attempts[k].token = handler[h].token

\* _apply_confirmed_send for a reply
Confirmed(k) == IF card[k[1]].text = k[2] THEN [card EXCEPT ![k[1]].status = "sent"] ELSE card

Closed(k, status) == [attempts EXCEPT ![k].status = status, ![k].token = 0]

Finalize(h) ==
    LET k == handler[h].key
        outcome == handler[h].outcome
        spent == attempts[k].count >= MaxAttempts
    IN /\ handler[h].pc = "answered" /\ HoldsClaim(h)
       /\ \/ outcome = "success" /\ attempts' = Closed(k, "confirmed_sent")
          \/ outcome = "ambiguous" /\ attempts' = Closed(k, "unknown_result")
          \/ outcome = "failed" /\ spent /\ attempts' = Closed(k, "needs_attention")
          \/ outcome = "failed" /\ ~spent /\ attempts' = Closed(k, "known_failed")
       /\ card' = IF outcome = "success" THEN Confirmed(k) ELSE card
       /\ handler' = [handler EXCEPT ![h] = Idle]
       /\ UNCHANGED observation /\ SendOnly

FinalizeRefused(h) ==
    /\ handler[h].pc = "answered" /\ ~HoldsClaim(h)
    /\ handler' = [handler EXCEPT ![h] = Idle]
    /\ UNCHANGED <<card, attempts, observation>> /\ SendOnly

\* The commit of a success raises; the server may have applied it.
FinalizeCommitFails(h) ==
    LET k == handler[h].key
    IN /\ handler[h].pc = "answered" /\ HoldsClaim(h) /\ handler[h].outcome = "success"
       /\ \/ UNCHANGED <<attempts, card>>
          \/ attempts' = Closed(k, "confirmed_sent") /\ card' = Confirmed(k)
       /\ handler' = [handler EXCEPT ![h].pc = "marking"]
       /\ UNCHANGED observation /\ SendOnly

MarkUnknownAfterCommitFailure(h) ==
    /\ handler[h].pc = "marking"
    /\ attempts' = IF HoldsClaim(h) THEN Closed(handler[h].key, "unknown_result")
                   ELSE attempts
    /\ handler' = [handler EXCEPT ![h] = Idle]
    /\ UNCHANGED <<card, observation>> /\ SendOnly

Crash(h) ==
    /\ handler[h].pc # "idle"
    /\ handler' = [handler EXCEPT ![h] = Idle]
    /\ UNCHANGED <<card, attempts, observation>> /\ SendOnly

\* Mutant: the thread is not looked at.
ReconcileUnread(k) ==
    /\ attempts[k].status = "unknown_result"
    /\ attempts' = Closed(k, "confirmed_sent")
    /\ card' = Confirmed(k)
    /\ UNCHANGED <<handler, observation>> /\ SendOnly
\* The thread is read without a lock; the reply is looked for under its own text.
Reconcile(k) ==
    /\ attempts[k].status = "unknown_result" /\ k \in reached
    /\ attempts' = Closed(k, "confirmed_sent")
    /\ card' = Confirmed(k)
    /\ UNCHANGED <<handler, observation>> /\ SendOnly

MarkInconclusive(k) ==
    /\ attempts[k].status = "unknown_result"
    /\ attempts' = Closed(k, "needs_attention")
    /\ UNCHANGED <<card, handler, observation>> /\ SendOnly

------------------------------------------------------------------------------
(* The operator's tools *)

ToolsOnly == UNCHANGED <<approvals, attempts, handler, dialog, observation>>

\* Mutant: the card it replaces stays open.
ReissueKeepsSource(c, d) ==
    /\ "reissue" \in Operator
    /\ card[c].status \in {"pending", "approved", "edited"} /\ IsNextCard(d)
    /\ ~DeliveryBlocks(c, TRUE)
    /\ inbound.card = c => reset.pc = "idle"
    /\ card' = [card EXCEPT ![d] = NewCard(card[c].text, card[c].order, card[c].pass)]
    /\ inbound' = [inbound EXCEPT !.card = IF @ = c THEN d ELSE @]
    /\ UNCHANGED <<texts, refresh, reset>> /\ ToolsOnly
\* A fresh card with the same draft; the message's row moves to it.
Reissue(c, d) ==
    /\ "reissue" \in Operator
    /\ card[c].status \in {"pending", "approved", "edited"} /\ IsNextCard(d)
    /\ ~DeliveryBlocks(c, TRUE)
    /\ inbound.card = c => reset.pc = "idle"
    /\ card' = [card EXCEPT ![c].status = "superseded",
                            ![d] = NewCard(card[c].text, card[c].order, card[c].pass)]
    /\ inbound' = [inbound EXCEPT !.card = IF @ = c THEN d ELSE @]
    /\ UNCHANGED <<texts, refresh, reset>> /\ ToolsOnly

RefreshRead(c) ==
    /\ "refresh" \in Operator /\ refresh.pc = "idle"
    /\ card[c].status = "pending" /\ card[c].order # 0
    /\ ~DeliveryBlocks(c, TRUE)
    /\ refresh' = [pc |-> "generating", card |-> c, row |-> card[c]]
    /\ UNCHANGED <<inbound, card, texts, reset>> /\ ToolsOnly

RefreshAllowed(c) == card[c] = refresh.row /\ ~DeliveryBlocks(c, TRUE)

\* The row of the message keeps pointing at the old card.
RefreshCommit(d) ==
    LET c == refresh.card
    IN /\ refresh.pc = "generating" /\ RefreshAllowed(c)
       /\ IsNextCard(d) /\ texts < MaxTexts
       /\ texts' = texts + 1
       /\ card' = [card EXCEPT ![c].status = "superseded",
                               ![d] = NewCard(texts + 1, card[c].order, card[c].pass)]
       /\ refresh' = NoRefresh
       /\ UNCHANGED <<inbound, reset>> /\ ToolsOnly

\* Nothing was generated, or the card changed meanwhile.
RefreshEnds ==
    /\ refresh.pc = "generating"
    /\ refresh' = NoRefresh
    /\ UNCHANGED <<inbound, card, texts, reset>> /\ ToolsOnly

\* POST /inbound/{id}/bind-job: the undecided or approved card is moved along.
Bind ==
    LET c == inbound.card
    IN /\ "bind" \in Operator /\ reset.pc = "idle" /\ inbound.order # 2
       /\ inbound' = [inbound EXCEPT !.order = 2]
       /\ card' = IF c # 0 /\ card[c].status \notin {"sent", "superseded"}
                  THEN [card EXCEPT ![c].order = 2] ELSE card
       /\ UNCHANGED <<texts, refresh, reset>> /\ ToolsOnly

\* POST /inbound/{id}/reprocess, from its lock of the message's row ...
ReprocessRead ==
    LET c == inbound.card
    IN /\ "reprocess" \in Operator /\ reset.pc = "idle"
       /\ inbound.order = 2 /\ inbound.pass < MaxPasses
       /\ reset' = [pc |-> "writing", pending |-> c # 0 /\ card[c].status = "pending"]
       /\ UNCHANGED <<inbound, card, texts, refresh>> /\ ToolsOnly

\* Mutant: the old card stays open.
ReprocessKeepsCard ==
    /\ reset.pc = "writing"
    /\ inbound' = [inbound EXCEPT !.card = 0, !.received = TRUE, !.pass = @ + 1]
    /\ reset' = NoReset
    /\ UNCHANGED <<card, texts, refresh>> /\ ToolsOnly
\* ... to its commit: a card that was undecided when it was read is superseded.
ReprocessWrite ==
    LET c == inbound.card
    IN /\ reset.pc = "writing"
       /\ card' = IF reset.pending THEN [card EXCEPT ![c].status = "superseded"] ELSE card
       /\ inbound' = [inbound EXCEPT !.card = 0, !.received = TRUE, !.pass = @ + 1]
       /\ reset' = NoReset
       /\ UNCHANGED <<texts, refresh>> /\ ToolsOnly

------------------------------------------------------------------------------
CardStep(c) ==
    \/ Present(c) \/ Delivered(c) \/ Skip(c) \/ EditStart(c)
    \/ RefreshRead(c) \/ RefreshCommit(c)
    \/ \E d \in Cards : Reissue(c, d)

SendStep(h) ==
    \/ \E c \in Cards : Approve(h, c) \/ ApproveAgain(h, c)
    \/ EditSend(h) \/ Claim(h) \/ ClaimRefused(h)
    \/ CallReaches(h) \/ CallFails(h)
    \/ Finalize(h) \/ FinalizeRefused(h) \/ FinalizeCommitFails(h)
    \/ MarkUnknownAfterCommitFailure(h) \/ Crash(h)

KeyStep(k) == Reconcile(k) \/ MarkInconclusive(k)

Next ==
    \/ \E c \in Cards : CardStep(c)
    \/ \E h \in Handlers : SendStep(h)
    \/ \E k \in Keys : KeyStep(k)
    \/ Instruct \/ EditMore \/ EditCancel
    \/ RefreshEnds \/ Bind \/ ReprocessRead \/ ReprocessWrite

Spec == Init /\ [][Next]_vars

------------------------------------------------------------------------------
(* Properties *)

\* Every value has its type.
TypeOK ==
    /\ inbound \in [card: Cards \cup {0}, order: Orders, received: BOOLEAN, pass: Passes]
    /\ card \in [Cards -> CardType]
    /\ texts \in Texts
    /\ approvals \subseteq ApprovalType
    /\ attempts \in [Keys -> AttemptType]
    /\ handler \in [Handlers -> HandlerType]
    /\ dialog \in [pc: {"none", "asking", "reviewing"}, card: Cards, before: Texts,
                   text: Texts]
    /\ refresh \in [pc: {"idle", "generating"}, card: Cards, row: CardType]
    /\ reset \in [pc: {"idle", "writing"}, pending: BOOLEAN]
    /\ reached \subseteq Keys
    /\ replies \in [Passes -> Nat]

\* Between two reprocesses the client gets at most one reply, whatever callbacks run at
\* once, die, or are answered late, and however often the card is replaced
\* (_claim_locked, delivery_blocks_mutation).
OneReplyPerPass == \A n \in Passes : replies[n] <= 1

\* A delivery starts only for what the operator pressed as a whole: that text, for that
\* order, on that message.  A binding that moves the card to another order after the
\* press takes the approval with it (matching_inbox_approval).
ClaimedAsApproved ==
    [][\A k \in Keys : attempts[k].status # "sending" /\ attempts'[k].status = "sending"
          => \E a \in approvals : /\ a.card = k[1] /\ a.text = k[2]
                                  /\ a.order = card[k[1]].order]_vars

\* Nobody rewrites the draft of a card while a delivery of it is open or done.
DraftIsKept ==
    \A k \in Keys : attempts[k].status \in Blocking \cup {"confirmed_sent"} =>
        card[k[1]].text = k[2]

\* The cards that an open card c of the same pass replaced.
Predecessors(c) == {d \in Cards : card[d].status = "superseded" /\ card[d].pass = card[c].pass}

\* Within a pass one card waits for a decision, and it is the one that bind and reprocess
\* find by the message's row, so neither leaves a card of an earlier pass or for another
\* order open.  The exceptions are the code's: a refresh does not move the row to the card
\* with the new draft, and a card decided before a reprocess can be issued anew after it.
OneOpenCard ==
    \A c \in Cards : card[c].status = "pending" =>
        /\ \A d \in Cards : card[d].status = "pending" /\ card[d].pass = card[c].pass => d = c
        /\ \/ inbound.card = c
           \/ \E d \in Predecessors(c) : card[d].text # card[c].text
           \/ card[c].pass < inbound.pass /\ Predecessors(c) # {}

\* A card is shown as sent exactly when its delivery is confirmed, which the client did
\* receive; only a reprocess that ran into the approval may have retired it.
SentMeansConfirmed ==
    \A c \in Cards :
        LET confirmed == \E t \in Texts : attempts[c, t].status = "confirmed_sent"
        IN /\ card[c].status = "sent" => confirmed
           /\ confirmed => card[c].status \in {"sent", "superseded"}
           /\ \A t \in Texts : attempts[c, t].status = "confirmed_sent" => <<c, t>> \in reached

------------------------------------------------------------------------------
(* What a pass promises the client (ReplyPromise) *)

\* The deliveries of a pass that are open or done, on whichever of its cards.
Held(n) == (UNION {{attempts[c, t].status : t \in Texts} : c \in {d \in Cards : card[d].pass = n}})
               \ {"none", "known_failed"}

\* A pass is open until there is one; that one gives it its phase.
Phase(n) ==
    LET held == Held(n)
    IN CASE held = {} -> "open"
         [] "confirmed_sent" \in held -> "replied"
         [] "sending" \in held -> "delivering"
         [] OTHER -> "uncertain"

Promise == INSTANCE ReplyPromise WITH phase <- [n \in Passes |-> Phase(n)]

\* Through every race of callbacks, tools and reconciliation, each pass goes only the ways
\* ReplyPromise allows: no delivery begins while one is open, in doubt or done, whichever
\* card of the pass it is on, and none is called done that the client did not receive.
KeepsPromise == Promise!Spec
==============================================================================
