-------------------------- MODULE InboxRepliesProofs --------------------------
(***************************************************************************)
(* The theorems of InboxReplies, for any callbacks, tools and bounds.       *)
(***************************************************************************)
EXTENDS InboxReplies, TLAPS

-----------------------------------------------------------------------------
(* Types *)

LEMMA Bounds ==
  /\ MaxCards \in Nat /\ MaxCards > 0 /\ MaxTexts \in Nat /\ MaxTexts > 0
  /\ MaxAttempts \in Nat /\ MaxAttempts > 0 /\ MaxPasses \in Nat
  /\ 0 \in Texts /\ 0 \in Orders /\ 0 \in Passes /\ 1 \in Cards /\ 0 \in 0..MaxAttempts
  /\ 0 \notin Cards /\ 2 \in Orders
  BY RepliesAssumption DEF Texts, Orders, Passes, Cards

LEMMA Fields ==
  ASSUME TypeOK
  PROVE  /\ inbound.card \in Cards \cup {0} /\ inbound.order \in Orders
         /\ inbound.received \in BOOLEAN /\ inbound.pass \in Passes /\ inbound.pass \in Nat
         /\ \A c \in Cards : card[c] \in CardType
         /\ \A k \in Keys : attempts[k] \in AttemptType
         /\ \A h \in Handlers : handler[h] \in HandlerType
  BY DEF TypeOK, Passes

LEMMA CardFields ==
  ASSUME TypeOK, NEW c \in Cards
  PROVE  /\ card[c] \in CardType /\ card[c].status \in CardStatuses /\ card[c].text \in Texts
         /\ card[c].order \in Orders /\ card[c].face \in Faces /\ card[c].pass \in Passes
         /\ card[c].pass \in Nat
         /\ \A t \in Texts : <<c, t>> \in Keys
         /\ <<c, card[c].text>> \in Keys
  BY DEF TypeOK, CardType, Passes, Keys

LEMMA HandlerFields ==
  ASSUME TypeOK, NEW h \in Handlers
  PROVE  /\ handler[h] \in HandlerType /\ handler[h].key \in Keys
         /\ handler[h].key[1] \in Cards /\ handler[h].key[2] \in Texts
         /\ handler[h].key = <<handler[h].key[1], handler[h].key[2]>>
         /\ handler[h].token \in 0..MaxAttempts
  BY DEF TypeOK, HandlerType, Keys

LEMMA IdleType == Idle \in HandlerType
  BY Bounds DEF Idle, HandlerType, Keys

LEMMA NewCardType ==
  ASSUME NEW text \in Texts, NEW order \in Orders, NEW pass \in Passes
  PROVE  NewCard(text, order, pass) \in CardType
  BY DEF NewCard, CardType, CardStatuses, Faces

LEMMA InitTypeOK == Init => TypeOK
  <1> SUFFICES ASSUME Init PROVE TypeOK
    OBVIOUS
  <1>1. NoCard \in CardType /\ NoAttempt \in AttemptType /\ Idle \in HandlerType
    <2>1. NoCard \in CardType
      BY Bounds DEF NoCard, CardType, CardStatuses, Faces
    <2>2. NoAttempt \in AttemptType
      BY Bounds DEF NoAttempt, AttemptType, AttemptStatuses
    <2> QED BY <2>1, <2>2, IdleType
  <1>2. inbound \in [card: Cards \cup {0}, order: Orders, received: BOOLEAN, pass: Passes]
    <2>1. {0} \subseteq Cards \cup {0} /\ {0, 1} \subseteq Orders /\ {TRUE} \subseteq BOOLEAN /\ {0} \subseteq Passes
      BY Bounds DEF Orders
    <2>2. inbound \in [card: {0}, order: {0, 1}, received: {TRUE}, pass: {0}]
      BY DEF Init
    <2> QED BY <2>1, <2>2
  <1>3. /\ card \in [Cards -> CardType] /\ attempts \in [Keys -> AttemptType]
        /\ handler \in [Handlers -> HandlerType] /\ replies \in [Passes -> Nat]
        /\ texts \in Texts /\ approvals \subseteq ApprovalType /\ reached \subseteq Keys
    BY <1>1, Bounds DEF Init
  <1>4. dialog \in [pc: {"none", "asking", "reviewing"}, card: Cards, before: Texts, text: Texts]
    BY Bounds DEF Init, NoDialog
  <1>5. /\ refresh \in [pc: {"idle", "generating"}, card: Cards, row: CardType]
        /\ reset \in [pc: {"idle", "writing"}, pending: BOOLEAN]
    BY <1>1, Bounds DEF Init, NoRefresh, NoReset
  <1> QED BY <1>2, <1>3, <1>4, <1>5 DEF TypeOK

LEMMA CardSet ==
  ASSUME TypeOK, NEW c, NEW new \in CardType, card' = [card EXCEPT ![c] = new]
  PROVE  card' \in [Cards -> CardType]
  BY DEF TypeOK

LEMMA HandlerSet ==
  ASSUME TypeOK, NEW h, NEW new \in HandlerType, handler' = [handler EXCEPT ![h] = new]
  PROVE  handler' \in [Handlers -> HandlerType]
  BY DEF TypeOK

LEMMA AttemptSet ==
  ASSUME TypeOK, NEW k, NEW new \in AttemptType, attempts' = [attempts EXCEPT ![k] = new]
  PROVE  attempts' \in [Keys -> AttemptType]
  BY DEF TypeOK

\* A card takes another status.
LEMMA CardStatusSet ==
  ASSUME TypeOK, NEW c \in Cards, NEW status \in CardStatuses
  PROVE  [card EXCEPT ![c].status = status] \in [Cards -> CardType]
  <1>1. [card[c] EXCEPT !.status = status] \in CardType
    BY CardFields DEF CardType
  <1> QED BY <1>1 DEF TypeOK

LEMMA CardTypes ==
  ASSUME TypeOK, NEW c \in Cards
  PROVE  /\ Present(c) => TypeOK'
         /\ Delivered(c) => TypeOK'
         /\ Skip(c) => TypeOK'
         /\ EditStart(c) => TypeOK'
         /\ RefreshRead(c) => TypeOK'
  <1>0. card[c] \in CardType
    BY CardFields
  <1>1. ASSUME Present(c) PROVE TypeOK'
    <2> DEFINE drafts == IF inbound.order = 0 THEN 0 ELSE 1
               text == IF inbound.order = 0 THEN 0 ELSE texts + 1
    <2>1. texts' = texts + drafts /\ texts + drafts <= MaxTexts
      BY <1>1 DEF Present
    <2>2. texts' \in Texts /\ text \in Texts
      BY <2>1, Bounds DEF Texts, TypeOK
    <2>3. NewCard(text, inbound.order, inbound.pass) \in CardType
      BY <2>2, Fields, NewCardType
    <2>4. card' = [card EXCEPT ![c] = NewCard(text, inbound.order, inbound.pass)]
      BY <1>1 DEF Present
    <2>5. card' \in [Cards -> CardType]
      BY <2>3, <2>4, CardSet
    <2>6. inbound' \in [card: Cards \cup {0}, order: Orders, received: BOOLEAN, pass: Passes]
      BY <1>1 DEF Present, TypeOK
    <2> QED BY <1>1, <2>2, <2>5, <2>6 DEF Present, observation, TypeOK
  <1>2. ASSUME Delivered(c) PROVE TypeOK'
    <2>1. [card[c] EXCEPT !.face = "card"] \in CardType
      BY <1>0 DEF CardType, Faces
    <2>2. card' = [card EXCEPT ![c] = [card[c] EXCEPT !.face = "card"]]
      BY <1>2 DEF Delivered, TypeOK
    <2>3. card' \in [Cards -> CardType]
      BY <2>1, <2>2, CardSet
    <2> QED BY <1>2, <2>3 DEF Delivered, observation, TypeOK
  <1>3. ASSUME Skip(c) PROVE TypeOK'
    <2>1. card' \in [Cards -> CardType]
      BY <1>3, CardStatusSet DEF Skip, CardStatuses
    <2> QED BY <1>3, <2>1 DEF Skip, observation, TypeOK
  <1>4. ASSUME EditStart(c) PROVE TypeOK'
    <2>1. dialog' \in [pc: {"none", "asking", "reviewing"}, card: Cards, before: Texts, text: Texts]
      BY <1>4, CardFields DEF EditStart
    <2> QED BY <1>4, <2>1 DEF EditStart, DialogOnly, observation, TypeOK
  <1>5. ASSUME RefreshRead(c) PROVE TypeOK'
    <2>1. refresh' \in [pc: {"idle", "generating"}, card: Cards, row: CardType]
      BY <1>0, <1>5 DEF RefreshRead
    <2> QED BY <1>5, <2>1 DEF RefreshRead, ToolsOnly, observation, TypeOK
  <1> QED BY <1>1, <1>2, <1>3, <1>4, <1>5

LEMMA ToolTypes ==
  ASSUME TypeOK
  PROVE  /\ \A c, d \in Cards : Reissue(c, d) => TypeOK'
         /\ \A d \in Cards : RefreshCommit(d) => TypeOK'
         /\ RefreshEnds => TypeOK'
         /\ Bind => TypeOK'
         /\ ReprocessRead => TypeOK'
         /\ (reset.pc = "writing" => inbound.pass < MaxPasses) /\ ReprocessWrite => TypeOK'
  <1>1. ASSUME NEW c \in Cards, NEW d \in Cards, Reissue(c, d) PROVE TypeOK'
    <2>1. NewCard(card[c].text, card[c].order, card[c].pass) \in CardType
      BY CardFields, NewCardType
    <2>2. [card[c] EXCEPT !.status = "superseded"] \in CardType
      BY CardFields DEF CardType, CardStatuses
    <2>3. card' \in [Cards -> CardType]
      BY <1>1, <2>1, <2>2 DEF Reissue, TypeOK
    <2>4. inbound' \in [card: Cards \cup {0}, order: Orders, received: BOOLEAN, pass: Passes]
      BY <1>1 DEF Reissue, TypeOK
    <2> QED BY <1>1, <2>3, <2>4 DEF Reissue, ToolsOnly, observation, TypeOK
  <1>2. ASSUME NEW d \in Cards, RefreshCommit(d) PROVE TypeOK'
    <2> DEFINE c == refresh.card
    <2>0. c \in Cards
      BY DEF TypeOK
    <2>1. texts + 1 \in Texts
      BY <1>2, Bounds DEF RefreshCommit, Texts, TypeOK
    <2>2. NewCard(texts + 1, card[c].order, card[c].pass) \in CardType
      BY <2>0, <2>1, CardFields, NewCardType
    <2>3. [card[c] EXCEPT !.status = "superseded"] \in CardType
      BY <2>0, CardFields DEF CardType, CardStatuses
    <2>4. card' \in [Cards -> CardType]
      BY <1>2, <2>2, <2>3 DEF RefreshCommit, TypeOK
    <2>5. NoRefresh \in [pc: {"idle", "generating"}, card: Cards, row: CardType]
      BY Bounds DEF NoRefresh, NoCard, CardType, CardStatuses, Faces
    <2> QED BY <1>2, <2>1, <2>4, <2>5 DEF RefreshCommit, ToolsOnly, observation, TypeOK
  <1>3. ASSUME RefreshEnds PROVE TypeOK'
    <2>1. NoRefresh \in [pc: {"idle", "generating"}, card: Cards, row: CardType]
      BY Bounds DEF NoRefresh, NoCard, CardType, CardStatuses, Faces
    <2> QED BY <1>3, <2>1 DEF RefreshEnds, ToolsOnly, observation, TypeOK
  <1>4. ASSUME Bind PROVE TypeOK'
    <2> DEFINE c == inbound.card
    <2>1. inbound' \in [card: Cards \cup {0}, order: Orders, received: BOOLEAN, pass: Passes]
      BY <1>4, Bounds DEF Bind, TypeOK
    <2>2. card' \in [Cards -> CardType]
      <3>1. CASE c # 0 /\ card[c].status \notin {"sent", "superseded"}
        <4>1. c \in Cards
          BY <3>1, Fields
        <4>2. [card[c] EXCEPT !.order = 2] \in CardType
          BY <4>1, CardFields, Bounds DEF CardType
        <4>3. card' = [card EXCEPT ![c] = [card[c] EXCEPT !.order = 2]]
          BY <1>4, <3>1 DEF Bind, TypeOK
        <4> QED BY <4>2, <4>3, CardSet
      <3>2. CASE ~(c # 0 /\ card[c].status \notin {"sent", "superseded"})
        BY <1>4, <3>2 DEF Bind, TypeOK
      <3> QED BY <3>1, <3>2
    <2> QED BY <1>4, <2>1, <2>2 DEF Bind, ToolsOnly, observation, TypeOK
  <1>5. ASSUME ReprocessRead PROVE TypeOK'
    <2>1. reset' \in [pc: {"idle", "writing"}, pending: BOOLEAN]
      BY <1>5 DEF ReprocessRead
    <2> QED BY <1>5, <2>1 DEF ReprocessRead, ToolsOnly, observation, TypeOK
  <1>6. ASSUME ReprocessWrite, inbound.pass < MaxPasses PROVE TypeOK'
    <2>1. inbound.pass + 1 \in Passes
      BY <1>6, Fields, Bounds DEF Passes
    <2>2. inbound' \in [card: Cards \cup {0}, order: Orders, received: BOOLEAN, pass: Passes]
      BY <1>6, <2>1 DEF ReprocessWrite, TypeOK
    <2>3. card' \in [Cards -> CardType]
      <3>1. CASE inbound.card \in Cards
        BY <1>6, <3>1, CardStatusSet DEF ReprocessWrite, CardStatuses, TypeOK
      <3>2. CASE inbound.card \notin Cards
        BY <1>6, <3>2 DEF ReprocessWrite, TypeOK
      <3> QED BY <3>1, <3>2
    <2>4. reset' \in [pc: {"idle", "writing"}, pending: BOOLEAN]
      BY <1>6 DEF ReprocessWrite, NoReset
    <2> QED BY <1>6, <2>2, <2>3, <2>4 DEF ReprocessWrite, ToolsOnly, observation, TypeOK
  <1>7. ReprocessWrite => reset.pc = "writing"
    BY DEF ReprocessWrite
  <1> QED BY <1>1, <1>2, <1>3, <1>4, <1>5, <1>6, <1>7

LEMMA DialogTypes ==
  ASSUME TypeOK
  PROVE  /\ Instruct => TypeOK'
         /\ (EditMore \/ EditCancel) => TypeOK'
         /\ \A h \in Handlers : EditSend(h) => TypeOK'
  <1> DEFINE DialogType == [pc: {"none", "asking", "reviewing"}, card: Cards, before: Texts, text: Texts]
  <1>0. dialog \in DialogType /\ NoDialog \in DialogType
    BY Bounds DEF TypeOK, NoDialog
  <1>1. ASSUME Instruct PROVE TypeOK'
    <2>1. texts + 1 \in Texts
      BY <1>1, Bounds DEF Instruct, Texts, TypeOK
    <2>2. dialog' \in DialogType
      BY <1>0, <1>1, <2>1 DEF Instruct
    <2> QED BY <1>1, <2>1, <2>2 DEF Instruct, DialogOnly, observation, TypeOK
  <1>2. ASSUME EditMore \/ EditCancel PROVE TypeOK'
    <2>1. dialog' \in DialogType
      BY <1>0, <1>2 DEF EditMore, EditCancel
    <2> QED BY <1>2, <2>1 DEF EditMore, EditCancel, DialogOnly, observation, TypeOK
  <1>3. ASSUME NEW h \in Handlers, EditSend(h) PROVE TypeOK'
    <2> DEFINE c == dialog.card
               new == [card[c] EXCEPT !.text = dialog.text, !.status = "edited", !.face = "preview"]
               mine == [handler[h] EXCEPT !.pc = "approved", !.key = <<c, dialog.text>>]
    <2>0. c \in Cards /\ dialog.text \in Texts
      BY <1>0
    <2>1. new \in CardType
      BY <2>0, CardFields DEF CardType, CardStatuses, Faces
    <2>2. card' = [card EXCEPT ![c] = new]
      BY <1>3, <2>0 DEF EditSend, TypeOK
    <2>3. mine \in HandlerType
      BY <2>0, HandlerFields DEF HandlerType, Keys
    <2>4. handler' = [handler EXCEPT ![h] = mine]
      BY <1>3 DEF EditSend, TypeOK
    <2>5. card' \in [Cards -> CardType] /\ handler' \in [Handlers -> HandlerType]
      BY <2>1, <2>2, <2>3, <2>4, CardSet, HandlerSet
    <2>6. [card |-> c, text |-> dialog.text, order |-> card[c].order, face |-> "preview"] \in ApprovalType
      BY <2>0, CardFields DEF ApprovalType, Faces
    <2>7. approvals' \subseteq ApprovalType /\ dialog' \in DialogType
      BY <1>0, <1>3, <2>6 DEF EditSend, TypeOK
    <2> QED BY <1>3, <2>5, <2>7 DEF EditSend, observation, TypeOK
  <1> QED BY <1>1, <1>2, <1>3

LEMMA ClosedType ==
  ASSUME TypeOK, NEW k \in Keys, NEW status \in AttemptStatuses
  PROVE  Closed(k, status) \in [Keys -> AttemptType]
  <1> DEFINE new == [attempts[k] EXCEPT !.status = status, !.token = 0]
  <1>1. new \in AttemptType
    BY Fields, Bounds DEF AttemptType
  <1>2. Closed(k, status) = [attempts EXCEPT ![k] = new]
    BY DEF Closed, TypeOK
  <1> QED BY <1>1, <1>2 DEF TypeOK

LEMMA ConfirmedType == ASSUME TypeOK, NEW k \in Keys PROVE Confirmed(k) \in [Cards -> CardType]
  BY CardStatusSet DEF Confirmed, Keys, CardStatuses, TypeOK

LEMMA EndsTypes ==
  ASSUME TypeOK, NEW h \in Handlers, handler' = [handler EXCEPT ![h] = Idle]
  PROVE  handler' \in [Handlers -> HandlerType]
  BY IdleType, HandlerSet

LEMMA SendTypes ==
  ASSUME TypeOK, NEW h \in Handlers
  PROVE  /\ \A c \in Cards : Approve(h, c) => TypeOK'
         /\ \A c \in Cards : ApproveAgain(h, c) => TypeOK'
         /\ Claim(h) => TypeOK'
         /\ ClaimRefused(h) => TypeOK'
         /\ CallReaches(h) => TypeOK'
         /\ CallFails(h) => TypeOK'
         /\ Finalize(h) => TypeOK'
         /\ FinalizeRefused(h) => TypeOK'
         /\ FinalizeCommitFails(h) => TypeOK'
         /\ MarkUnknownAfterCommitFailure(h) => TypeOK'
         /\ Crash(h) => TypeOK'
  <1> DEFINE k == handler[h].key
  <1>0. handler[h] \in HandlerType /\ k \in Keys /\ attempts[k] \in AttemptType
    BY HandlerFields, Fields
  <1>1. ASSUME NEW pc \in {"approved", "calling", "answered", "marking"}, NEW key \in Keys,
               NEW token \in 0..MaxAttempts, NEW outcome \in {"none", "success", "ambiguous", "failed"}
        PROVE  [handler[h] EXCEPT !.pc = pc, !.key = key, !.token = token, !.outcome = outcome] \in HandlerType
    BY <1>0, <1>1 DEF HandlerType
  <1>2. ASSUME NEW c \in Cards, Approve(h, c) \/ ApproveAgain(h, c)
        PROVE  handler' \in [Handlers -> HandlerType]
    <2> DEFINE mine == [handler[h] EXCEPT !.pc = "approved", !.key = <<c, card[c].text>>]
    <2>1. mine \in HandlerType
      BY <1>0, CardFields DEF HandlerType
    <2>2. handler' = [handler EXCEPT ![h] = mine]
      BY <1>2 DEF Approve, ApproveAgain, TypeOK
    <2> QED BY <2>1, <2>2, HandlerSet
  <1>3. ASSUME NEW c \in Cards, Approve(h, c) PROVE TypeOK'
    <2>1. Payload(c) \in ApprovalType
      BY CardFields DEF Payload, ApprovalType
    <2>2. card' \in [Cards -> CardType]
      BY <1>3, CardStatusSet DEF Approve, CardStatuses
    <2>3. handler' \in [Handlers -> HandlerType]
      BY <1>2, <1>3
    <2> QED BY <1>3, <2>1, <2>2, <2>3 DEF Approve, observation, TypeOK
  <1>4. ASSUME NEW c \in Cards, ApproveAgain(h, c) PROVE TypeOK'
    <2>1. handler' \in [Handlers -> HandlerType]
      BY <1>2, <1>4
    <2> QED BY <1>4, <2>1 DEF ApproveAgain, observation, TypeOK
  <1>5. ASSUME Claim(h) PROVE TypeOK'
    <2> DEFINE n == attempts[k].count + 1
               mine == [handler[h] EXCEPT !.pc = "calling", !.token = n]
               new == [status |-> "sending", token |-> n, count |-> n]
    <2>1. n \in 0..MaxAttempts
      BY <1>0, <1>5, Bounds DEF Claim, AttemptType
    <2>2. new \in AttemptType
      BY <2>1 DEF AttemptType, AttemptStatuses
    <2>3. mine \in HandlerType
      BY <1>0, <2>1 DEF HandlerType
    <2>4. attempts' = [attempts EXCEPT ![k] = new]
      BY <1>5 DEF Claim
    <2>5. handler' = [handler EXCEPT ![h] = mine]
      BY <1>0, <1>5 DEF Claim, HandlerType, TypeOK
    <2>6. attempts' \in [Keys -> AttemptType] /\ handler' \in [Handlers -> HandlerType]
      BY <2>2, <2>3, <2>4, <2>5, AttemptSet, HandlerSet
    <2> QED BY <1>5, <2>6 DEF Claim, SendOnly, observation, TypeOK
  <1>6. ASSUME ClaimRefused(h) PROVE TypeOK'
    <2>1. ASSUME NEW j \in Keys
          PROVE  [attempts[j] EXCEPT !.status = "unknown_result", !.token = 0] \in AttemptType
      BY Fields, Bounds DEF AttemptType, AttemptStatuses
    <2>2. \A S : Expired(S) \in [Keys -> AttemptType]
      BY <2>1, Fields DEF Expired
    <2>3. [attempts[k] EXCEPT !.status = "needs_attention"] \in AttemptType
      BY <1>0 DEF AttemptType, AttemptStatuses
    <2>4. \/ UNCHANGED attempts
          \/ \E S : attempts' = Expired(S)
          \/ attempts' = [attempts EXCEPT ![k].status = "needs_attention"]
      BY <1>6 DEF ClaimRefused
    <2>5. attempts' \in [Keys -> AttemptType]
      <3>1. [attempts EXCEPT ![k].status = "needs_attention"]
              = [attempts EXCEPT ![k] = [attempts[k] EXCEPT !.status = "needs_attention"]]
        BY <1>0 DEF TypeOK
      <3> QED BY <2>2, <2>3, <2>4, <3>1 DEF TypeOK
    <2>6. handler' \in [Handlers -> HandlerType]
      BY <1>6, EndsTypes DEF ClaimRefused
    <2> QED BY <1>6, <2>5, <2>6 DEF ClaimRefused, SendOnly, observation, TypeOK
  <1>7. ASSUME CallReaches(h) \/ CallFails(h) PROVE handler' \in [Handlers -> HandlerType]
    <2>1. PICK outcome \in {"success", "ambiguous", "failed"} :
             handler' = [handler EXCEPT ![h].pc = "answered", ![h].outcome = outcome]
      BY <1>7 DEF CallReaches, CallFails
    <2>2. [handler[h] EXCEPT !.pc = "answered", !.outcome = outcome] \in HandlerType
      BY <1>0 DEF HandlerType
    <2>3. handler' = [handler EXCEPT ![h] = [handler[h] EXCEPT !.pc = "answered", !.outcome = outcome]]
      BY <1>0, <2>1 DEF HandlerType, TypeOK
    <2> QED BY <2>2, <2>3, HandlerSet
  <1>8. ASSUME CallReaches(h) PROVE TypeOK'
    <2>1. card[k[1]].pass \in Passes
      BY HandlerFields, CardFields
    <2>2. replies' \in [Passes -> Nat] /\ reached' \subseteq Keys
      BY <1>0, <1>8, <2>1 DEF CallReaches, TypeOK
    <2> QED BY <1>7, <1>8, <2>2 DEF CallReaches, SendOnly, TypeOK
  <1>9. ASSUME CallFails(h) PROVE TypeOK'
    BY <1>7, <1>9 DEF CallFails, SendOnly, observation, TypeOK
  <1>10. ASSUME Finalize(h) PROVE TypeOK'
    <2>1. attempts' \in [Keys -> AttemptType]
      BY <1>0, <1>10, ClosedType DEF Finalize, AttemptStatuses
    <2>2. card' \in [Cards -> CardType]
      BY <1>0, <1>10, ConfirmedType DEF Finalize, TypeOK
    <2>3. handler' \in [Handlers -> HandlerType]
      BY <1>10, EndsTypes DEF Finalize
    <2> QED BY <1>10, <2>1, <2>2, <2>3 DEF Finalize, SendOnly, observation, TypeOK
  <1>11. ASSUME FinalizeRefused(h) PROVE TypeOK'
    BY <1>11, EndsTypes DEF FinalizeRefused, SendOnly, observation, TypeOK
  <1>12. ASSUME FinalizeCommitFails(h) PROVE TypeOK'
    <2>1. attempts' \in [Keys -> AttemptType] /\ card' \in [Cards -> CardType]
      <3>1. Closed(k, "confirmed_sent") \in [Keys -> AttemptType] /\ Confirmed(k) \in [Cards -> CardType]
        BY <1>0, ClosedType, ConfirmedType DEF AttemptStatuses
      <3>2. \/ UNCHANGED <<attempts, card>>
            \/ attempts' = Closed(k, "confirmed_sent") /\ card' = Confirmed(k)
        BY <1>12 DEF FinalizeCommitFails
      <3> QED BY <3>1, <3>2 DEF TypeOK
    <2>2. [handler[h] EXCEPT !.pc = "marking"] \in HandlerType
      BY <1>0 DEF HandlerType
    <2>3. handler' \in [Handlers -> HandlerType]
      BY <1>12, <2>2 DEF FinalizeCommitFails, TypeOK
    <2> QED BY <1>12, <2>1, <2>3 DEF FinalizeCommitFails, SendOnly, observation, TypeOK
  <1>13. ASSUME MarkUnknownAfterCommitFailure(h) PROVE TypeOK'
    <2>1. attempts' \in [Keys -> AttemptType]
      BY <1>0, <1>13, ClosedType DEF MarkUnknownAfterCommitFailure, AttemptStatuses, TypeOK
    <2>2. handler' \in [Handlers -> HandlerType]
      BY <1>13, EndsTypes DEF MarkUnknownAfterCommitFailure
    <2> QED BY <1>13, <2>1, <2>2 DEF MarkUnknownAfterCommitFailure, SendOnly, observation, TypeOK
  <1>14. ASSUME Crash(h) PROVE TypeOK'
    BY <1>14, EndsTypes DEF Crash, SendOnly, observation, TypeOK
  <1> QED BY <1>3, <1>4, <1>5, <1>6, <1>8, <1>9, <1>10, <1>11, <1>12, <1>13, <1>14

LEMMA KeyTypes ==
  ASSUME TypeOK, NEW k \in Keys, KeyStep(k)
  PROVE  TypeOK'
  <1>1. CASE Reconcile(k)
    <2>1. attempts' \in [Keys -> AttemptType] /\ card' \in [Cards -> CardType]
      BY <1>1, ClosedType, ConfirmedType DEF Reconcile, AttemptStatuses
    <2> QED BY <1>1, <2>1 DEF Reconcile, SendOnly, observation, TypeOK
  <1>2. CASE MarkInconclusive(k)
    <2>1. attempts' \in [Keys -> AttemptType]
      BY <1>2, ClosedType DEF MarkInconclusive, AttemptStatuses
    <2> QED BY <1>2, <2>1 DEF MarkInconclusive, SendOnly, observation, TypeOK
  <1> QED BY <1>1, <1>2 DEF KeyStep

-----------------------------------------------------------------------------
(* The invariant *)

\* A delivery of the card is open or done.
Taken == Blocking \cup {"confirmed_sent"}
Used(c) == \E t \in Texts : attempts[<<c, t>>].status \in Taken

\* The callback has claimed a delivery and has not settled it.
InFlight(h) == handler[h].pc \in {"calling", "answered", "marking"}

\* A card that is not there has no deliveries; what is open or done is of the card's text.
KeyInv(k) ==
  /\ attempts[k].status \in Taken => card[k[1]].text = k[2] /\ card[k[1]].status # "none"
  /\ attempts[k].status = "confirmed_sent"
       => card[k[1]].status \in {"sent", "superseded"} /\ k \in reached
  /\ k \in reached => attempts[k].status \in Taken

\* The delivery of a callback in flight is open, or confirmed without it; while it calls,
\* and after a known failure, its text has not reached the client.
HandlerInv(h) ==
  InFlight(h) =>
    /\ attempts[handler[h].key].status \in Taken
    /\ handler[h].pc = "calling" \/ (handler[h].pc = "answered" /\ handler[h].outcome = "failed")
         => handler[h].key \notin reached
    /\ handler[h].pc # "calling" /\ handler[h].outcome = "success" => handler[h].key \in reached

\* One callback at a time delivers a card.
OneInFlight ==
  \A g, h \in Handlers :
    InFlight(g) /\ InFlight(h) /\ handler[g].key[1] = handler[h].key[1] => g = h

\* One card stands for a pass: it is not retired, or a delivery of it is open or done.
Stands(c) == card[c].status \notin {"none", "superseded"} \/ Used(c)
OneStands == \A c, d \in Cards : Stands(c) /\ Stands(d) /\ card[c].pass = card[d].pass => c = d

\* Cards are of passes that have begun, and a message that awaits its draft has none.
CardInv(c) ==
  /\ card[c].status # "none" => /\ card[c].pass <= inbound.pass
                                /\ inbound.received => card[c].pass # inbound.pass
  /\ card[c].status = "sent" => \E t \in Texts : attempts[<<c, t>>].status = "confirmed_sent"

\* A reply was received only for a key that reached the client.
ReplyInv(n) == replies[n] = 0 \/ (replies[n] = 1 /\ \E k \in reached : card[k[1]].pass = n)

\* A refresh read a pending card, a reprocess writes while a pass is left, and the row of
\* the message points at a card that is there.
ToolInv ==
  /\ refresh.pc = "generating" => refresh.row.status = "pending"
  /\ reset.pc = "writing" => inbound.pass < MaxPasses
  /\ inbound.card # 0 => card[inbound.card].status # "none"

IInv ==
  /\ TypeOK
  /\ \A k \in Keys : KeyInv(k)
  /\ \A h \in Handlers : HandlerInv(h)
  /\ OneInFlight
  /\ OneStands
  /\ \A c \in Cards : CardInv(c)
  /\ \A n \in Passes : ReplyInv(n)
  /\ ToolInv


-----------------------------------------------------------------------------
(* Steps that move cards: no delivery changes *)

LEMMA KeyParts == ASSUME NEW k \in Keys PROVE k[1] \in Cards /\ k[2] \in Texts /\ k = <<k[1], k[2]>>
  BY DEF Keys

\* A card with a delivery open or done is there, and stands for its pass.
LEMMA TakenStands ==
  ASSUME IInv, NEW k \in Keys, attempts[k].status \in Taken
  PROVE  Used(k[1]) /\ Stands(k[1]) /\ card[k[1]].status # "none" /\ card[k[1]].text = k[2]
  <1>1. Used(k[1])
    BY KeyParts DEF Used
  <1>2. KeyInv(k)
    BY DEF IInv
  <1> QED BY <1>1, <1>2 DEF Stands, KeyInv

LEMMA StandsIsThere ==
  ASSUME IInv, NEW c \in Cards, Stands(c)
  PROVE  card[c].status # "none"
  <1>1. CASE Used(c)
    <2>1. PICK t \in Texts : attempts[<<c, t>>].status \in Taken
      BY <1>1 DEF Used
    <2>2. <<c, t>> \in Keys
      BY DEF Keys
    <2>3. KeyInv(<<c, t>>)
      BY <2>2 DEF IInv
    <2> QED BY <2>1, <2>3 DEF KeyInv
  <1> QED BY <1>1 DEF Stands

\* What a step may do to a card that was there before it.
CardQuiet(c) ==
  /\ card'[c].pass = card[c].pass
  /\ Used(c) => card'[c].text = card[c].text
  /\ \/ card'[c].status = card[c].status
     \/ card[c].status = "pending" /\ card'[c].status \in {"approved", "edited", "skipped"}
     \/ card[c].status # "none" /\ card'[c].status = "superseded"

\* What a step must do for a card that was not.
CardFresh(c) ==
  /\ card[c].status = "none" /\ card'[c].status = "pending"
  /\ card'[c].pass <= inbound'.pass
  /\ inbound'.received => card'[c].pass # inbound'.pass
  /\ \A d \in Cards : d # c /\ Stands(d)' => card'[d].pass # card'[c].pass

LEMMA CardsStep ==
  ASSUME IInv, TypeOK', ToolInv', UNCHANGED <<attempts, reached, replies>>,
         \A h \in Handlers : InFlight(h)' => handler'[h] = handler[h],
         \/ inbound'.pass = inbound.pass /\ (inbound'.received => inbound.received)
         \/ inbound'.pass = inbound.pass + 1,
         \A c \in Cards : CardQuiet(c) \/ CardFresh(c)
  PROVE  IInv'
  <1>0. TypeOK /\ OneStands /\ OneInFlight
    BY DEF IInv
  <1>a. \A c \in Cards : Used(c)' <=> Used(c)
    BY DEF Used
  <1>b. \A c \in Cards : Used(c) => CardQuiet(c)
    <2> SUFFICES ASSUME NEW c \in Cards, Used(c) PROVE ~CardFresh(c)
      OBVIOUS
    <2> QED BY StandsIsThere DEF CardFresh, Stands
  <1>1. ASSUME NEW k \in Keys PROVE KeyInv(k)'
    <2>1. KeyInv(k) /\ k[1] \in Cards
      BY KeyParts DEF IInv
    <2>2. CASE attempts[k].status \in Taken
      <3>1. CardQuiet(k[1]) /\ Used(k[1])
        BY <1>b, <2>1, <2>2, TakenStands
      <3> QED BY <2>1, <2>2, <3>1 DEF KeyInv, CardQuiet
    <2>3. CASE attempts[k].status \notin Taken
      BY <2>1, <2>3 DEF KeyInv, Taken
    <2> QED BY <2>2, <2>3
  <1>2. ASSUME NEW h \in Handlers PROVE HandlerInv(h)'
    <2>1. HandlerInv(h)
      BY DEF IInv
    <2> QED BY <2>1 DEF HandlerInv, InFlight
  <1>3. OneInFlight'
    BY <1>0 DEF OneInFlight, InFlight
  <1>4. ASSUME NEW c \in Cards, CardQuiet(c), Stands(c)' PROVE Stands(c)
    BY <1>a, <1>4 DEF Stands, CardQuiet
  <1>5. OneStands'
    <2> SUFFICES ASSUME NEW c \in Cards, NEW d \in Cards, Stands(c)', Stands(d)',
                        card'[c].pass = card'[d].pass
                 PROVE  c = d
      BY DEF OneStands
    <2>1. CASE CardQuiet(c) /\ CardQuiet(d)
      BY <1>0, <1>4, <2>1 DEF OneStands, CardQuiet
    <2>2. CASE CardFresh(c)
      BY <2>2 DEF CardFresh
    <2>3. CASE CardFresh(d)
      BY <2>3 DEF CardFresh
    <2> QED BY <2>1, <2>2, <2>3
  <1>6. ASSUME NEW c \in Cards PROVE CardInv(c)'
    <2>1. CardInv(c) /\ card[c].pass \in Nat /\ inbound.pass \in Nat
      BY <1>0, CardFields, Fields DEF IInv
    <2>2. CASE CardFresh(c)
      BY <2>2 DEF CardFresh, CardInv
    <2>3. CASE CardQuiet(c)
      <3>1. card'[c].status # "none" => card[c].status # "none"
        BY <2>3 DEF CardQuiet
      <3>2. card'[c].status = "sent" => card[c].status = "sent"
        BY <2>3 DEF CardQuiet
      <3>3. card'[c].pass = card[c].pass
        BY <2>3 DEF CardQuiet
      <3> QED BY <2>1, <3>1, <3>2, <3>3 DEF CardInv
    <2> QED BY <2>2, <2>3
  <1>7. ASSUME NEW n \in Passes PROVE ReplyInv(n)'
    <2>1. ReplyInv(n)
      BY DEF IInv
    <2>2. CASE replies[n] = 0
      BY <2>2 DEF ReplyInv
    <2>3. CASE replies[n] = 1 /\ \E k \in reached : card[k[1]].pass = n
      <3>1. PICK k \in reached : card[k[1]].pass = n
        BY <2>3
      <3>2. k \in Keys /\ KeyInv(k)
        BY <1>0 DEF IInv, TypeOK
      <3>3. Used(k[1]) /\ k[1] \in Cards
        BY <3>2, TakenStands, KeyParts DEF KeyInv
      <3> QED BY <1>b, <2>3, <3>1, <3>3 DEF ReplyInv, CardQuiet
    <2> QED BY <2>1, <2>2, <2>3 DEF ReplyInv
  <1> QED BY <1>1, <1>2, <1>3, <1>5, <1>6, <1>7 DEF IInv

-----------------------------------------------------------------------------
(* Steps that move deliveries: a card becomes sent, or nothing of it changes *)

CardSent(c) ==
  /\ card'[c].pass = card[c].pass /\ card'[c].text = card[c].text
  /\ \/ card'[c].status = card[c].status
     \/ /\ card'[c].status = "sent"
        /\ \E t \in Texts : attempts'[<<c, t>>].status = "confirmed_sent"

\* A delivery begins for the text of an approved card; it is confirmed, with its card,
\* when it is open and has reached the client; it is given up only when it has not.
KeyMoves(k) ==
  /\ attempts'[k].status \in Taken /\ attempts[k].status \notin Taken
       => card[k[1]].text = k[2] /\ card[k[1]].status \in {"approved", "edited"}
  /\ attempts'[k].status = "confirmed_sent" /\ attempts[k].status # "confirmed_sent"
       => /\ attempts[k].status \in Taken /\ k \in reached
          /\ card'[k[1]].status = "sent"
  /\ attempts[k].status \in Taken /\ attempts'[k].status \notin Taken => k \notin reached
  /\ attempts[k].status = "confirmed_sent" => attempts'[k].status = "confirmed_sent"

LEMMA AttemptsStep ==
  ASSUME IInv, TypeOK', UNCHANGED <<inbound, refresh, reset, reached, replies>>,
         \A c \in Cards : CardSent(c),
         \A k \in Keys : KeyMoves(k),
         \A h \in Handlers : HandlerInv(h)',
         OneInFlight'
  PROVE  IInv'
  <1>0. TypeOK /\ OneStands
    BY DEF IInv
  <1>1. ASSUME NEW k \in Keys PROVE KeyInv(k)'
    <2>1. KeyInv(k) /\ KeyMoves(k) /\ CardSent(k[1])
      BY KeyParts DEF IInv
    <2>2. ASSUME attempts'[k].status \in Taken PROVE card'[k[1]].text = k[2] /\ card'[k[1]].status # "none"
      BY <2>1, <2>2 DEF KeyInv, KeyMoves, CardSent
    <2>3. ASSUME attempts'[k].status = "confirmed_sent"
          PROVE  card'[k[1]].status \in {"sent", "superseded"} /\ k \in reached'
      BY <2>1, <2>3 DEF KeyInv, KeyMoves, CardSent
    <2>4. ASSUME k \in reached' PROVE attempts'[k].status \in Taken
      BY <2>1, <2>4 DEF KeyInv, KeyMoves
    <2> QED BY <2>2, <2>3, <2>4 DEF KeyInv
  <1>2. ASSUME NEW c \in Cards, NEW t \in Texts, attempts'[<<c, t>>].status \in Taken PROVE Stands(c)
    <2> DEFINE k == <<c, t>>
    <2>1. k \in Keys /\ k[1] = c
      BY DEF Keys
    <2>2. CASE attempts[k].status \in Taken
      BY <2>1, <2>2, TakenStands
    <2>3. CASE attempts[k].status \notin Taken
      <3>1. card[k[1]].status \in {"approved", "edited"}
        BY <1>2, <2>1, <2>3 DEF KeyMoves
      <3> QED BY <2>1, <3>1 DEF Stands
    <2> QED BY <2>2, <2>3
  <1>3. ASSUME NEW c \in Cards, Stands(c)' PROVE Stands(c)
    <2>1. CASE Used(c)'
      BY <1>2, <2>1 DEF Used
    <2>2. CASE card'[c].status \notin {"none", "superseded"} /\ card'[c].status = card[c].status
      BY <2>2 DEF Stands
    <2>3. CASE \E t \in Texts : attempts'[<<c, t>>].status = "confirmed_sent"
      BY <1>2, <2>3 DEF Taken
    <2> QED BY <1>3, <2>1, <2>2, <2>3 DEF Stands, CardSent
  <1>4. OneStands'
    BY <1>0, <1>3 DEF OneStands, CardSent
  <1>5. ASSUME NEW c \in Cards PROVE CardInv(c)'
    <2>1. CardInv(c) /\ CardSent(c)
      BY DEF IInv
    <2>2. ASSUME card'[c].status # "none" PROVE card[c].status # "none"
      <3>1. CASE card'[c].status = card[c].status
        BY <2>2, <3>1
      <3>2. CASE \E t \in Texts : attempts'[<<c, t>>].status = "confirmed_sent"
        <4>1. Stands(c)
          BY <1>2, <3>2 DEF Taken
        <4> QED BY <4>1, StandsIsThere
      <3> QED BY <2>1, <3>1, <3>2 DEF CardSent
    <2>3. ASSUME card'[c].status = "sent" PROVE \E t \in Texts : attempts'[<<c, t>>].status = "confirmed_sent"
      <3>1. CASE card'[c].status = card[c].status
        <4>1. PICK t \in Texts : attempts[<<c, t>>].status = "confirmed_sent"
          BY <2>1, <2>3, <3>1 DEF CardInv
        <4>2. <<c, t>> \in Keys
          BY DEF Keys
        <4> QED BY <4>1, <4>2 DEF KeyMoves
      <3> QED BY <2>1, <3>1 DEF CardSent
    <2> QED BY <2>1, <2>2, <2>3 DEF CardInv, CardSent
  <1>6. ASSUME NEW n \in Passes PROVE ReplyInv(n)'
    <2>1. ReplyInv(n) /\ \A k \in reached : k[1] \in Cards
      BY <1>0, KeyParts DEF IInv, TypeOK
    <2> QED BY <2>1 DEF ReplyInv, CardSent
  <1>7. ToolInv'
    <2>1. ToolInv
      BY DEF IInv
    <2>2. inbound.card # 0 => card'[inbound.card].status # "none"
      <3> SUFFICES ASSUME inbound.card # 0 PROVE card'[inbound.card].status # "none"
        OBVIOUS
      <3>1. inbound.card \in Cards
        BY <1>0, Fields
      <3> QED BY <2>1, <3>1 DEF ToolInv, CardSent
    <2> QED BY <2>1, <2>2 DEF ToolInv
  <1> QED BY <1>1, <1>4, <1>5, <1>6, <1>7 DEF IInv

\* The step changes no card.
LEMMA NoCardSent == ASSUME UNCHANGED card PROVE \A c \in Cards : CardSent(c)
  BY DEF CardSent

\* A callback that leaves or never was in flight disturbs no other.
LEMMA OneFewer ==
  ASSUME OneInFlight, \A g \in Handlers : InFlight(g)' => InFlight(g) /\ handler'[g].key = handler[g].key
  PROVE  OneInFlight'
  BY DEF OneInFlight

-----------------------------------------------------------------------------
(* Actions on cards *)

LEMMA SameCardQuiet == ASSUME NEW c, card'[c] = card[c] PROVE CardQuiet(c)
  BY DEF CardQuiet

LEMMA NotUsed ==
  ASSUME NEW c \in Cards, ~DeliveryBlocks(c, TRUE)
  PROVE  ~Used(c)
  BY DEF DeliveryBlocks, Used, Taken

\* Everything a step takes no part in.
LEMMA QuietStep ==
  ASSUME IInv, TypeOK', UNCHANGED <<inbound, card, refresh, reset, attempts, reached, replies>>,
         \A h \in Handlers : InFlight(h)' => handler'[h] = handler[h]
  PROVE  IInv'
  <1>1. \A c \in Cards : CardQuiet(c)
    BY SameCardQuiet
  <1>2. ToolInv'
    BY DEF IInv, ToolInv
  <1> QED BY <1>1, <1>2, CardsStep

\* The cards after the card d has taken the place of the card c.
Succeeds(c, d) ==
  /\ card'[c].status = "superseded" /\ card'[c].pass = card[c].pass /\ card'[c].text = card[c].text
  /\ card'[d].status = "pending" /\ card'[d].pass = card[c].pass
  /\ \A e \in Cards \ {c, d} : card'[e] = card[e]

\* It is then the only one that stands for its pass.
LEMMA Replaced ==
  ASSUME IInv, UNCHANGED attempts, NEW c \in Cards, NEW d \in Cards, Succeeds(c, d), ~Used(c),
         card[c].status \in {"pending", "approved", "edited"}, card[d].status = "none",
         inbound'.pass = inbound.pass, inbound'.received = inbound.received
  PROVE  \A e \in Cards : CardQuiet(e) \/ CardFresh(e)
  <1>0. TypeOK /\ c # d
    BY DEF IInv
  <1>1. card'[c].status = "superseded" /\ \A e \in Cards \ {c, d} : card'[e] = card[e]
    BY DEF Succeeds
  <1>2. CardQuiet(c)
    BY DEF CardQuiet, Succeeds
  <1>3. \A e \in Cards \ {c, d} : CardQuiet(e)
    BY <1>1, SameCardQuiet
  <1>4. CardFresh(d)
    <2>1. CardInv(c)
      BY DEF IInv
    <2>2. ASSUME NEW e \in Cards, e # d, Stands(e)' PROVE card'[e].pass # card'[d].pass
      <3>1. e # c
        <4>1. ~Used(c)'
          BY DEF Used
        <4> QED BY <1>1, <2>2, <4>1 DEF Stands
      <3>2. card'[e] = card[e]
        BY <1>1, <2>2, <3>1
      <3>3. Stands(e)
        BY <2>2, <3>2 DEF Stands, Used
      <3>4. Stands(c)
        BY DEF Stands
      <3>5. card'[d].pass = card[c].pass
        BY DEF Succeeds
      <3> QED BY <3>1, <3>2, <3>3, <3>4, <3>5 DEF IInv, OneStands
    <2>3. card'[d].pass = card[c].pass /\ card'[d].status = "pending"
      BY DEF Succeeds
    <2>4. card[c].pass <= inbound.pass /\ (inbound.received => card[c].pass # inbound.pass)
      BY <2>1 DEF CardInv
    <2> QED BY <2>2, <2>3, <2>4 DEF CardFresh
  <1> QED BY <1>2, <1>3, <1>4

LEMMA PresentStep == ASSUME IInv, NEW c \in Cards, Present(c) PROVE IInv'
  <1> DEFINE text == IF inbound.order = 0 THEN 0 ELSE texts + 1
             new == NewCard(text, inbound.order, inbound.pass)
  <1>0. TypeOK /\ TypeOK' /\ ToolInv
    BY CardTypes DEF Present, IInv
  <1>1. card' = [card EXCEPT ![c] = new] /\ card[c].status = "none" /\ inbound.received
        /\ inbound' = [inbound EXCEPT !.received = FALSE, !.card = c]
        /\ UNCHANGED <<attempts, handler, refresh, reset, reached, replies>>
    BY DEF Present, IsNextCard, observation
  <1>2. card'[c] = new /\ \A e \in Cards \ {c} : card'[e] = card[e]
    BY <1>0, <1>1 DEF TypeOK
  <1>3. inbound'.pass = inbound.pass /\ inbound'.received = FALSE /\ inbound'.card = c
    BY <1>0, <1>1 DEF TypeOK
  <1>4. new.status = "pending" /\ new.pass = inbound.pass
    BY DEF NewCard
  <1>5. CardFresh(c)
    <2>1. ASSUME NEW e \in Cards, e # c, Stands(e)' PROVE card'[e].pass # card'[c].pass
      <3>1. card'[e] = card[e]
        BY <1>2, <2>1
      <3>2. Stands(e)
        BY <1>1, <2>1, <3>1 DEF Stands, Used
      <3>3. CardInv(e) /\ card[e].status # "none"
        BY <3>2, StandsIsThere DEF IInv
      <3> QED BY <1>1, <1>2, <1>4, <3>1, <3>3 DEF CardInv
    <2>2. inbound.pass \in Nat
      BY <1>0, Fields
    <2> QED BY <1>1, <1>2, <1>3, <1>4, <2>1, <2>2 DEF CardFresh
  <1>6. \A e \in Cards : CardQuiet(e) \/ CardFresh(e)
    BY <1>2, <1>5, SameCardQuiet
  <1>7. ToolInv'
    BY <1>0, <1>1, <1>2, <1>3, <1>4 DEF ToolInv
  <1> QED BY <1>0, <1>1, <1>3, <1>6, <1>7, CardsStep

\* The step changes one card, which was there, and nothing the tools look at.
LEMMA OneCard ==
  ASSUME IInv, TypeOK', NEW c \in Cards, NEW new \in CardType, card[c].status # "none",
         card' = [card EXCEPT ![c] = new], new.status # "none",
         card'[c] = new => CardQuiet(c),
         UNCHANGED <<inbound, refresh, reset, attempts, reached, replies>>,
         \A h \in Handlers : InFlight(h)' => handler'[h] = handler[h]
  PROVE  IInv'
  <1>1. card'[c] = new /\ \A e \in Cards \ {c} : card'[e] = card[e]
    BY DEF IInv, TypeOK
  <1>2. \A e \in Cards : CardQuiet(e) \/ CardFresh(e)
    BY <1>1, SameCardQuiet
  <1>3. ToolInv'
    <2>1. ToolInv /\ inbound.card \in Cards \cup {0}
      BY Fields DEF IInv
    <2> QED BY <1>1, <2>1, Bounds DEF ToolInv
  <1> QED BY <1>2, <1>3, CardsStep

LEMMA CardActions ==
  ASSUME IInv, NEW c \in Cards
  PROVE  /\ Delivered(c) => IInv'
         /\ Skip(c) => IInv'
         /\ EditStart(c) => IInv'
         /\ RefreshRead(c) => IInv'
  <1>0. TypeOK /\ card[c] \in CardType
    BY CardFields DEF IInv
  <1>1. ASSUME Delivered(c) PROVE IInv'
    <2> DEFINE new == [card[c] EXCEPT !.face = "card"]
    <2>1. new \in CardType /\ new.status = card[c].status /\ new.pass = card[c].pass /\ new.text = card[c].text
      BY <1>0 DEF CardType, Faces
    <2>2. card' = [card EXCEPT ![c] = new] /\ card[c].status = "pending"
      BY <1>0, <1>1 DEF Delivered, TypeOK
    <2>3. card'[c] = new => CardQuiet(c)
      BY <2>1 DEF CardQuiet
    <2>4. UNCHANGED <<inbound, refresh, reset, attempts, reached, replies, handler>>
      BY <1>1 DEF Delivered, observation
    <2>5. TypeOK'
      BY <1>0, <1>1, CardTypes
    <2> HIDE DEF new
    <2> QED BY <2>1, <2>2, <2>3, <2>4, <2>5, OneCard
  <1>2. ASSUME Skip(c) PROVE IInv'
    <2> DEFINE new == [card[c] EXCEPT !.status = "skipped"]
    <2>1. new \in CardType /\ new.status = "skipped" /\ new.pass = card[c].pass /\ new.text = card[c].text
      BY <1>0 DEF CardType, CardStatuses
    <2>2. card' = [card EXCEPT ![c] = new] /\ card[c].status = "pending"
      BY <1>0, <1>2 DEF Skip, Pressable, TypeOK
    <2>3. card'[c] = new => CardQuiet(c)
      BY <2>1, <2>2 DEF CardQuiet
    <2>4. UNCHANGED <<inbound, refresh, reset, attempts, reached, replies, handler>>
      BY <1>2 DEF Skip, observation
    <2>5. TypeOK'
      BY <1>0, <1>2, CardTypes
    <2> HIDE DEF new
    <2> QED BY <2>1, <2>2, <2>3, <2>4, <2>5, OneCard
  <1>3. ASSUME EditStart(c) PROVE IInv'
    BY <1>0, <1>3, CardTypes, QuietStep DEF EditStart, DialogOnly, observation
  <1>4. ASSUME RefreshRead(c) PROVE IInv'
    <2>1. TypeOK'
      BY <1>0, <1>4, CardTypes
    <2>2. UNCHANGED <<inbound, card, reset, attempts, handler, reached, replies>>
          /\ refresh'.row.status = "pending"
      BY <1>4 DEF RefreshRead, ToolsOnly, observation
    <2>3. ToolInv'
      BY <2>2 DEF IInv, ToolInv
    <2> QED BY <2>1, <2>2, <2>3, CardsStep, SameCardQuiet
  <1> QED BY <1>1, <1>2, <1>3, <1>4

LEMMA ReissueStep == ASSUME IInv, NEW c \in Cards, NEW d \in Cards, Reissue(c, d) PROVE IInv'
  <1> DEFINE new == NewCard(card[c].text, card[c].order, card[c].pass)
  <1>0. TypeOK /\ TypeOK' /\ ToolInv
    BY ToolTypes DEF IInv
  <1>1. /\ card' = [card EXCEPT ![c].status = "superseded", ![d] = new]
        /\ card[c].status \in {"pending", "approved", "edited"} /\ card[d].status = "none"
        /\ UNCHANGED <<attempts, handler, refresh, reset, reached, replies>>
        /\ inbound' = [inbound EXCEPT !.card = IF @ = c THEN d ELSE @]
    BY DEF Reissue, IsNextCard, ToolsOnly, observation
  <1>2. inbound'.pass = inbound.pass /\ inbound'.received = inbound.received
        /\ inbound'.card = IF inbound.card = c THEN d ELSE inbound.card
    BY <1>0, <1>1 DEF TypeOK
  <1>3. new.status = "pending" /\ new.pass = card[c].pass
    BY DEF NewCard
  <1>4. ~Used(c)
    BY NotUsed DEF Reissue
  <1>s. Succeeds(c, d)
    <2> DEFINE old == [card[c] EXCEPT !.status = "superseded"]
    <2>1. old.status = "superseded" /\ old.pass = card[c].pass /\ old.text = card[c].text
      <3>1. card[c] \in CardType
        BY <1>0, CardFields
      <3> QED BY <3>1 DEF CardType
    <2>2. c # d
      BY <1>1
    <2>3. card'[c] = old /\ card'[d] = new /\ \A e \in Cards \ {c, d} : card'[e] = card[e]
      BY <1>0, <1>1, <2>2 DEF TypeOK
    <2> HIDE DEF old, new
    <2> QED BY <1>3, <2>1, <2>3 DEF Succeeds
  <1>5. \A e \in Cards : CardQuiet(e) \/ CardFresh(e)
    <2>1. UNCHANGED attempts
      BY <1>1
    <2> QED BY <1>s, <1>1, <1>2, <1>4, <2>1, Replaced
  <1>6. ToolInv'
    <2>1. inbound.card \in Cards \cup {0}
      BY <1>0, Fields
    <2>2. card'[d].status = "pending" /\ \A e \in Cards : card[e].status # "none" => card'[e].status # "none"
      BY <1>s DEF Succeeds
    <2> QED BY <1>0, <1>1, <1>2, <2>1, <2>2, Bounds DEF ToolInv
  <1> QED BY <1>0, <1>1, <1>2, <1>5, <1>6, CardsStep

LEMMA RefreshCommitStep == ASSUME IInv, NEW d \in Cards, RefreshCommit(d) PROVE IInv'
  <1> DEFINE c == refresh.card
             new == NewCard(texts + 1, card[c].order, card[c].pass)
  <1>0. TypeOK /\ TypeOK' /\ ToolInv /\ c \in Cards
    BY ToolTypes DEF IInv, TypeOK
  <1>1. /\ card' = [card EXCEPT ![c].status = "superseded", ![d] = new]
        /\ refresh.pc = "generating" /\ card[c] = refresh.row /\ card[d].status = "none"
        /\ UNCHANGED <<inbound, attempts, handler, reset, reached, replies>>
        /\ refresh' = NoRefresh
    BY DEF RefreshCommit, RefreshAllowed, IsNextCard, ToolsOnly, observation
  <1>2. card[c].status = "pending"
    BY <1>0, <1>1 DEF ToolInv
  <1>3. new.status = "pending" /\ new.pass = card[c].pass
    BY DEF NewCard
  <1>4. ~Used(c)
    BY <1>0, NotUsed DEF RefreshCommit, RefreshAllowed
  <1>s. Succeeds(c, d)
    <2> DEFINE old == [card[c] EXCEPT !.status = "superseded"]
    <2>1. old.status = "superseded" /\ old.pass = card[c].pass /\ old.text = card[c].text
      <3>1. card[c] \in CardType
        BY <1>0, CardFields
      <3> QED BY <3>1 DEF CardType
    <2>2. c # d
      BY <1>1, <1>2
    <2>3. card'[c] = old /\ card'[d] = new /\ \A e \in Cards \ {c, d} : card'[e] = card[e]
      BY <1>0, <1>1, <2>2 DEF TypeOK
    <2> HIDE DEF old, new
    <2> QED BY <1>3, <2>1, <2>3 DEF Succeeds
  <1>5. \A e \in Cards : CardQuiet(e) \/ CardFresh(e)
    <2>1. UNCHANGED attempts /\ inbound' = inbound
      BY <1>1
    <2> HIDE DEF c
    <2> QED BY <1>s, <1>0, <1>1, <1>2, <1>4, <2>1, Replaced
  <1>6. ToolInv'
    <2>1. inbound.card \in Cards \cup {0}
      BY <1>0, Fields
    <2>2. \A e \in Cards : card[e].status # "none" => card'[e].status # "none"
      BY <1>s DEF Succeeds
    <2>3. refresh'.pc = "idle"
      BY <1>1 DEF NoRefresh
    <2> QED BY <1>0, <1>1, <2>1, <2>2, <2>3 DEF ToolInv
  <1> QED BY <1>0, <1>1, <1>5, <1>6, CardsStep

LEMMA ReprocessSteps ==
  ASSUME IInv
  PROVE  /\ RefreshEnds => IInv'
         /\ Bind => IInv'
         /\ ReprocessRead => IInv'
         /\ ReprocessWrite => IInv'
  <1>0. TypeOK /\ ToolInv /\ inbound.pass \in Nat /\ inbound.card \in Cards \cup {0}
    BY Fields DEF IInv
  <1>1. ASSUME RefreshEnds PROVE IInv'
    <2>1. TypeOK' /\ UNCHANGED <<inbound, card, reset, attempts, handler, reached, replies>>
          /\ refresh' = NoRefresh
      BY <1>0, <1>1, ToolTypes DEF RefreshEnds, ToolsOnly, observation
    <2>2. ToolInv'
      BY <1>0, <2>1 DEF ToolInv, NoRefresh
    <2> QED BY <2>1, <2>2, CardsStep, SameCardQuiet
  <1>2. ASSUME Bind PROVE IInv'
    <2> DEFINE c == inbound.card
    <2>1. TypeOK' /\ UNCHANGED <<refresh, reset, attempts, handler, reached, replies>>
          /\ inbound'.pass = inbound.pass /\ inbound'.received = inbound.received /\ inbound'.card = c
      BY <1>0, <1>2, ToolTypes DEF Bind, ToolsOnly, observation, TypeOK
    <2>2. \A e \in Cards : card'[e].status = card[e].status /\ card'[e].pass = card[e].pass
                           /\ card'[e].text = card[e].text
      BY <1>0, <1>2, CardFields DEF Bind, TypeOK, CardType
    <2>3. \A e \in Cards : CardQuiet(e)
      BY <2>2 DEF CardQuiet
    <2>4. ToolInv'
      BY <1>0, <2>1, <2>2 DEF ToolInv
    <2> QED BY <2>1, <2>3, <2>4, CardsStep
  <1>3. ASSUME ReprocessRead PROVE IInv'
    <2>1. TypeOK' /\ UNCHANGED <<inbound, card, refresh, attempts, handler, reached, replies>>
          /\ inbound.pass < MaxPasses
      BY <1>0, <1>3, ToolTypes DEF ReprocessRead, ToolsOnly, observation
    <2>2. ToolInv'
      BY <1>0, <2>1 DEF ToolInv
    <2> QED BY <2>1, <2>2, CardsStep, SameCardQuiet
  <1>4. ASSUME ReprocessWrite PROVE IInv'
    <2> DEFINE c == inbound.card
    <2>1. reset.pc = "writing" /\ inbound.pass < MaxPasses
      BY <1>0, <1>4 DEF ReprocessWrite, ToolInv
    <2>2. TypeOK'
      BY <1>0, <1>4, <2>1, ToolTypes
    <2>3. /\ UNCHANGED <<refresh, attempts, handler, reached, replies>>
          /\ inbound' = [inbound EXCEPT !.card = 0, !.received = TRUE, !.pass = @ + 1]
          /\ reset' = NoReset
      BY <1>4 DEF ReprocessWrite, ToolsOnly, observation
    <2>4. inbound'.pass = inbound.pass + 1 /\ inbound'.card = 0
      BY <1>0, <2>3 DEF TypeOK
    <2>5. \A e \in Cards : CardQuiet(e)
      <3>1. CASE c \in Cards /\ reset.pending
        <4>1. card' = [card EXCEPT ![c].status = "superseded"] /\ card[c].status # "none"
          BY <1>0, <1>4, <3>1, Bounds DEF ReprocessWrite, ToolInv
        <4>2. card'[c] = [card[c] EXCEPT !.status = "superseded"]
          BY <1>0, <3>1, <4>1 DEF TypeOK
        <4>3. card'[c].status = "superseded" /\ card'[c].pass = card[c].pass /\ card'[c].text = card[c].text
          BY <1>0, <3>1, <4>2, CardFields DEF CardType
        <4>4. CardQuiet(c)
          BY <4>1, <4>3 DEF CardQuiet
        <4>5. \A e \in Cards \ {c} : card'[e] = card[e]
          BY <1>0, <4>1 DEF TypeOK
        <4> QED BY <4>4, <4>5, SameCardQuiet
      <3>2. CASE c \notin Cards \/ ~reset.pending
        <4>1. \A e \in Cards : card'[e] = card[e]
          BY <1>0, <1>4, <3>2 DEF ReprocessWrite, TypeOK
        <4> QED BY <4>1, SameCardQuiet
      <3> QED BY <3>1, <3>2
    <2>6. ToolInv'
      BY <1>0, <2>3, <2>4 DEF ToolInv, NoReset
    <2> QED BY <2>2, <2>3, <2>4, <2>5, <2>6, CardsStep
  <1> QED BY <1>1, <1>2, <1>3, <1>4

-----------------------------------------------------------------------------
(* Actions of the callbacks *)

LEMMA HandlerEnds ==
  ASSUME TypeOK, NEW h \in Handlers, NEW new, handler' = [handler EXCEPT ![h] = new],
         new.pc \notin {"calling", "answered", "marking"}
  PROVE  \A g \in Handlers : InFlight(g)' => handler'[g] = handler[g] /\ g # h
  BY DEF TypeOK, InFlight

LEMMA ApproveSteps ==
  ASSUME IInv, NEW h \in Handlers
  PROVE  /\ \A c \in Cards : Approve(h, c) => IInv'
         /\ \A c \in Cards : ApproveAgain(h, c) => IInv'
         /\ EditSend(h) => IInv'
         /\ FinalizeRefused(h) => IInv'
         /\ Crash(h) => IInv'
  <1>0. TypeOK /\ handler[h] \in HandlerType
    BY HandlerFields DEF IInv
  <1>1. ASSUME NEW c \in Cards, NEW t \in Texts,
               handler' = [handler EXCEPT ![h].pc = "approved", ![h].key = <<c, t>>]
        PROVE  \A g \in Handlers : InFlight(g)' => handler'[g] = handler[g]
    <2> DEFINE new == [handler[h] EXCEPT !.pc = "approved", !.key = <<c, t>>]
    <2>1. new.pc = "approved" /\ handler' = [handler EXCEPT ![h] = new]
      BY <1>0, <1>1 DEF HandlerType, TypeOK
    <2> HIDE DEF new
    <2> QED BY <1>0, <2>1, HandlerEnds
  <1>2. ASSUME handler' = [handler EXCEPT ![h] = Idle]
        PROVE  \A g \in Handlers : InFlight(g)' => handler'[g] = handler[g]
    BY <1>0, <1>2, HandlerEnds DEF Idle
  <1>3. ASSUME NEW c \in Cards, Approve(h, c) PROVE IInv'
    <2> DEFINE new == [card[c] EXCEPT !.status = "approved"]
    <2>1. card[c] \in CardType
      BY <1>0, CardFields
    <2>2. new \in CardType /\ new.status = "approved" /\ new.pass = card[c].pass /\ new.text = card[c].text
      BY <2>1 DEF CardType, CardStatuses
    <2>3. card' = [card EXCEPT ![c] = new] /\ card[c].status = "pending"
      BY <1>0, <1>3 DEF Approve, Pressable, TypeOK
    <2>4. card'[c] = new => CardQuiet(c)
      BY <2>2, <2>3 DEF CardQuiet
    <2>5. UNCHANGED <<inbound, refresh, reset, attempts, reached, replies>>
          /\ handler' = [handler EXCEPT ![h].pc = "approved", ![h].key = <<c, card[c].text>>]
      BY <1>3 DEF Approve, observation
    <2>6. TypeOK' /\ card[c].text \in Texts
      BY <1>0, <1>3, SendTypes, CardFields
    <2>7. \A g \in Handlers : InFlight(g)' => handler'[g] = handler[g]
      BY <1>1, <2>5, <2>6
    <2> HIDE DEF new
    <2> QED BY <2>2, <2>3, <2>4, <2>5, <2>6, <2>7, OneCard
  <1>4. ASSUME NEW c \in Cards, ApproveAgain(h, c) PROVE IInv'
    <2>1. UNCHANGED <<inbound, card, refresh, reset, attempts, reached, replies>>
          /\ handler' = [handler EXCEPT ![h].pc = "approved", ![h].key = <<c, card[c].text>>]
      BY <1>4 DEF ApproveAgain, observation
    <2>2. TypeOK' /\ card[c].text \in Texts
      BY <1>0, <1>4, SendTypes, CardFields
    <2>3. \A g \in Handlers : InFlight(g)' => handler'[g] = handler[g]
      BY <1>1, <2>1, <2>2
    <2> QED BY <2>1, <2>2, <2>3, QuietStep
  <1>5. ASSUME EditSend(h) PROVE IInv'
    <2> DEFINE c == dialog.card
               new == [card[c] EXCEPT !.text = dialog.text, !.status = "edited", !.face = "preview"]
    <2>1. c \in Cards /\ dialog.text \in Texts
      BY <1>0 DEF TypeOK
    <2>2. card[c] \in CardType
      BY <1>0, <2>1, CardFields
    <2>3. new \in CardType /\ new.status = "edited" /\ new.pass = card[c].pass
      BY <2>1, <2>2 DEF CardType, CardStatuses, Faces
    <2>4. card' = [card EXCEPT ![c] = new] /\ card[c].status = "pending" /\ ~DeliveryBlocks(c, FALSE)
      BY <1>0, <1>5, <2>1 DEF EditSend, Pressable, TypeOK
    <2>5. ~Used(c)
      <3> SUFFICES ASSUME NEW t \in Texts, attempts[<<c, t>>].status = "confirmed_sent" PROVE FALSE
        BY <2>4 DEF Used, Taken, DeliveryBlocks
      <3>1. <<c, t>> \in Keys /\ <<c, t>>[1] = c
        BY <2>1 DEF Keys
      <3>2. KeyInv(<<c, t>>)
        BY <3>1 DEF IInv
      <3> QED BY <2>4, <3>1, <3>2 DEF KeyInv
    <2>6. card'[c] = new => CardQuiet(c)
      BY <2>3, <2>4, <2>5 DEF CardQuiet
    <2>7. UNCHANGED <<inbound, refresh, reset, attempts, reached, replies>>
          /\ handler' = [handler EXCEPT ![h].pc = "approved", ![h].key = <<c, dialog.text>>]
      BY <1>5 DEF EditSend, observation
    <2>8. TypeOK'
      BY <1>0, <1>5, DialogTypes
    <2>9. \A g \in Handlers : InFlight(g)' => handler'[g] = handler[g]
      BY <1>1, <2>1, <2>7
    <2> HIDE DEF new, c
    <2> QED BY <2>1, <2>3, <2>4, <2>6, <2>7, <2>8, <2>9, OneCard
  <1>6. ASSUME FinalizeRefused(h) \/ Crash(h) PROVE IInv'
    <2>1. UNCHANGED <<inbound, card, refresh, reset, attempts, reached, replies>>
          /\ handler' = [handler EXCEPT ![h] = Idle]
      BY <1>6 DEF FinalizeRefused, Crash, SendOnly, observation
    <2>2. TypeOK'
      BY <1>0, <1>6, SendTypes
    <2> QED BY <1>2, <2>1, <2>2, QuietStep
  <1> QED BY <1>3, <1>4, <1>5, <1>6

\* A step that settles or ages a delivery while its callback, if any, leaves.
LEMMA OthersHold ==
  ASSUME IInv, UNCHANGED reached,
         \A g \in Handlers : InFlight(g)' => handler'[g] = handler[g] /\ attempts'[handler[g].key].status \in Taken
  PROVE  (\A g \in Handlers : HandlerInv(g)') /\ OneInFlight'
  <1>1. \A g \in Handlers : HandlerInv(g)
    BY DEF IInv
  <1>2. \A g \in Handlers : InFlight(g)' => InFlight(g)
    BY DEF InFlight
  <1>3. \A g \in Handlers : HandlerInv(g)'
    BY <1>1, <1>2 DEF HandlerInv
  <1> QED BY <1>2, <1>3 DEF IInv, OneInFlight

\* No callback is in flight on a card whose claim is free.
LEMMA FreeCard ==
  ASSUME IInv, NEW c \in Cards, Open(c) = {}, card[c].status \in {"approved", "edited"},
         NEW g \in Handlers, InFlight(g)
  PROVE  handler[g].key[1] # c
  <1> DEFINE j == handler[g].key
  <1>1. j \in Keys /\ KeyInv(j) /\ HandlerInv(g)
    BY HandlerFields DEF IInv
  <1>2. attempts[j].status \in Taken
    BY <1>1 DEF HandlerInv
  <1> SUFFICES ASSUME j[1] = c PROVE FALSE
    OBVIOUS
  <1>3. CASE attempts[j].status \in Blocking
    BY <1>1, <1>3 DEF Open
  <1>4. CASE attempts[j].status = "confirmed_sent"
    BY <1>1, <1>4 DEF KeyInv
  <1> QED BY <1>2, <1>3, <1>4 DEF Taken

LEMMA ClaimStep == ASSUME IInv, NEW h \in Handlers, Claim(h) PROVE IInv'
  <1> DEFINE k == handler[h].key
             n == attempts[k].count + 1
             mine == [handler[h] EXCEPT !.pc = "calling", !.token = n]
  <1>0. TypeOK /\ TypeOK' /\ k \in Keys /\ k[1] \in Cards /\ handler[h] \in HandlerType /\ KeyInv(k)
    BY SendTypes, HandlerFields, KeyParts DEF IInv
  <1>1. /\ MaySend(k[1], k[2]) /\ Open(k[1]) = {} /\ attempts[k].status \in {"none", "known_failed"}
        /\ UNCHANGED <<inbound, card, refresh, reset, reached, replies>>
        /\ handler[h].pc = "approved"
    BY DEF Claim, SendOnly, observation
  <1>2. attempts'[k].status = "sending" /\ \A j \in Keys : j # k => attempts'[j] = attempts[j]
    BY <1>0 DEF Claim, TypeOK
  <1>3. mine.pc = "calling" /\ mine.key = k /\ handler'[h] = mine
        /\ \A g \in Handlers : g # h => handler'[g] = handler[g]
    BY <1>0 DEF Claim, TypeOK, HandlerType
  <1>4. attempts[k].status \notin Taken /\ k \notin reached
    BY <1>0, <1>1 DEF Taken, Blocking, KeyInv
  <1>5. ASSUME NEW j \in Keys PROVE KeyMoves(j)
    <2>1. CASE j = k
      BY <1>1, <1>2, <1>4, <2>1 DEF KeyMoves, MaySend
    <2>2. CASE j # k
      BY <1>2, <2>2 DEF KeyMoves
    <2> QED BY <2>1, <2>2
  <1>6. ASSUME NEW g \in Handlers, g # h, InFlight(g)'
        PROVE  InFlight(g) /\ handler'[g] = handler[g] /\ handler[g].key[1] # k[1]
    <2>1. InFlight(g) /\ handler'[g] = handler[g]
      BY <1>3, <1>6 DEF InFlight
    <2> QED BY <1>0, <1>1, <2>1, FreeCard DEF MaySend
  <1>7. ASSUME NEW g \in Handlers PROVE HandlerInv(g)'
    <2>1. CASE g = h
      <3>1. handler'[g].key = k /\ handler'[g].pc = "calling"
        BY <1>3, <2>1
      <3> QED BY <1>1, <1>2, <1>4, <3>1 DEF HandlerInv, Taken, Blocking
    <2>2. CASE g # h
      <3> SUFFICES ASSUME InFlight(g)' PROVE HandlerInv(g)'
        BY DEF HandlerInv
      <3>1. InFlight(g) /\ handler'[g] = handler[g] /\ handler[g].key # k /\ handler[g].key \in Keys
        BY <1>0, <1>6, <2>2, HandlerFields
      <3>2. HandlerInv(g) /\ attempts'[handler[g].key] = attempts[handler[g].key]
        BY <1>2, <3>1 DEF IInv
      <3> QED BY <1>1, <3>1, <3>2 DEF HandlerInv
    <2> QED BY <2>1, <2>2
  <1>8. OneInFlight'
    <2> SUFFICES ASSUME NEW f \in Handlers, NEW g \in Handlers, InFlight(f)', InFlight(g)',
                        handler'[f].key[1] = handler'[g].key[1]
                 PROVE  f = g
      BY DEF OneInFlight
    <2>1. handler'[h].key = k
      BY <1>3
    <2>2. CASE f # h /\ g # h
      BY <1>6, <2>2 DEF IInv, OneInFlight
    <2>3. CASE f = h \/ g = h
      BY <1>6, <2>1, <2>3
    <2> QED BY <2>2, <2>3
  <1>9. \A c \in Cards : CardSent(c)
    BY <1>1, NoCardSent
  <1> QED BY <1>0, <1>1, <1>5, <1>7, <1>8, <1>9, AttemptsStep

\* Statuses of an attempt that an aged, failed or given up delivery may take.
LEMMA StatusKept ==
  ASSUME NEW k, \/ attempts'[k].status = attempts[k].status
                \/ attempts[k].status \in Blocking /\ attempts'[k].status \in Blocking
  PROVE  KeyMoves(k)
  BY DEF KeyMoves, Taken, Blocking

LEMMA ClaimRefusedStep == ASSUME IInv, NEW h \in Handlers, ClaimRefused(h) PROVE IInv'
  <1> DEFINE k == handler[h].key
             sending == {j \in Open(k[1]) : attempts[j].status = "sending"}
  <1>0. TypeOK /\ TypeOK' /\ k \in Keys
    BY SendTypes, HandlerFields DEF IInv
  <1>1. UNCHANGED <<inbound, card, refresh, reset, reached, replies>>
        /\ handler' = [handler EXCEPT ![h] = Idle]
    BY DEF ClaimRefused, SendOnly, observation
  <1>2. \/ UNCHANGED attempts
        \/ \E elapsed \in SUBSET sending : attempts' = Expired(elapsed)
        \/ /\ attempts' = [attempts EXCEPT ![k].status = "needs_attention"]
           /\ MaySend(k[1], k[2]) /\ attempts[k].status = "known_failed"
    BY DEF ClaimRefused
  <1>3. ASSUME NEW j \in Keys
        PROVE  KeyMoves(j) /\ (attempts[j].status \in Taken => attempts'[j].status \in Taken)
    <2>1. CASE UNCHANGED attempts
      BY <2>1, StatusKept
    <2>2. CASE \E elapsed \in SUBSET sending : attempts' = Expired(elapsed)
      <3> PICK elapsed \in SUBSET sending : attempts' = Expired(elapsed)
        BY <2>2
      <3>1. CASE j \in elapsed
        <4>1. attempts[j].status \in Blocking /\ attempts[j] \in AttemptType
          BY <1>0, <3>1, Fields DEF Open
        <4>2. attempts'[j].status = "unknown_result"
          BY <3>1, <4>1 DEF Expired, AttemptType
        <4> QED BY <4>1, <4>2, StatusKept DEF Blocking, Taken
      <3>2. CASE j \notin elapsed
        BY <3>2, StatusKept DEF Expired
      <3> QED BY <3>1, <3>2
    <2>3. CASE /\ attempts' = [attempts EXCEPT ![k].status = "needs_attention"]
               /\ MaySend(k[1], k[2]) /\ attempts[k].status = "known_failed"
      <3>1. CASE j = k
        <4>1. attempts[k] \in AttemptType
          BY <1>0, Fields
        <4>2. attempts'[j].status = "needs_attention"
          BY <1>0, <2>3, <3>1, <4>1 DEF TypeOK, AttemptType
        <4> QED BY <2>3, <3>1, <4>2 DEF KeyMoves, MaySend, Taken, Blocking
      <3>2. CASE j # k
        <4>1. attempts'[j] = attempts[j]
          BY <1>0, <2>3, <3>2 DEF TypeOK
        <4> QED BY <4>1, StatusKept
      <3> QED BY <3>1, <3>2
    <2> QED BY <1>2, <2>1, <2>2, <2>3
  <1>4. \A g \in Handlers : InFlight(g)' => handler'[g] = handler[g] /\ g # h
    BY <1>0, <1>1, HandlerEnds DEF Idle
  <1>5. ASSUME NEW g \in Handlers, InFlight(g)'
        PROVE  handler'[g] = handler[g] /\ attempts'[handler[g].key].status \in Taken
    <2>1. handler'[g] = handler[g] /\ InFlight(g) /\ HandlerInv(g) /\ handler[g].key \in Keys
      BY <1>0, <1>4, <1>5, HandlerFields DEF IInv, InFlight
    <2> QED BY <1>3, <2>1 DEF HandlerInv
  <1>6. (\A g \in Handlers : HandlerInv(g)') /\ OneInFlight'
    BY <1>1, <1>5, OthersHold
  <1>7. \A c \in Cards : CardSent(c)
    BY <1>1, NoCardSent
  <1> QED BY <1>0, <1>1, <1>3, <1>6, <1>7, AttemptsStep

\* The client has at most one text of a pass: its cards that stand are one, and what is
\* open or done is of that card's text.
LEMMA CallReachesStep == ASSUME IInv, NEW h \in Handlers, CallReaches(h) PROVE IInv'
  <1> DEFINE k == handler[h].key
             m == card[k[1]].pass
  <1>0. TypeOK /\ TypeOK' /\ k \in Keys /\ k[1] \in Cards /\ handler[h] \in HandlerType
        /\ InFlight(h) /\ HandlerInv(h) /\ m \in Passes
    BY SendTypes, HandlerFields, KeyParts, CardFields DEF IInv, CallReaches, InFlight
  <1>1. attempts[k].status \in Taken /\ k \notin reached
    BY <1>0 DEF HandlerInv, CallReaches
  <1>2. reached' = reached \cup {k} /\ replies' = [replies EXCEPT ![m] = @ + 1]
        /\ UNCHANGED <<inbound, card, attempts, refresh, reset>>
    BY DEF CallReaches, SendOnly
  <1>3. \E outcome \in {"success", "ambiguous"} :
          handler' = [handler EXCEPT ![h].pc = "answered", ![h].outcome = outcome]
    BY DEF CallReaches
  <1>4. /\ handler'[h].pc = "answered" /\ handler'[h].key = k /\ handler'[h].outcome # "failed"
        /\ \A g \in Handlers : g # h => handler'[g] = handler[g]
    BY <1>0, <1>3 DEF TypeOK, HandlerType
  <1>5. ASSUME NEW j \in Keys PROVE KeyInv(j)'
    <2>1. KeyInv(j)
      BY DEF IInv
    <2> QED BY <1>1, <1>2, <2>1 DEF KeyInv
  <1>6. ASSUME NEW g \in Handlers PROVE HandlerInv(g)'
    <2>1. CASE g = h
      BY <1>1, <1>2, <1>4, <2>1 DEF HandlerInv
    <2>2. CASE g # h
      <3> SUFFICES ASSUME InFlight(g)' PROVE HandlerInv(g)'
        BY DEF HandlerInv
      <3>1. InFlight(g) /\ handler'[g] = handler[g]
        BY <1>4, <2>2 DEF InFlight
      <3>2. HandlerInv(g) /\ handler[g].key # k
        BY <1>0, <2>2, <3>1 DEF IInv, OneInFlight
      <3> QED BY <1>2, <3>1, <3>2 DEF HandlerInv
    <2> QED BY <2>1, <2>2
  <1>7. OneInFlight'
    <2>1. \A g \in Handlers : InFlight(g)' => InFlight(g) /\ handler'[g].key = handler[g].key
      BY <1>0, <1>4 DEF InFlight
    <2> QED BY <2>1, OneFewer DEF IInv
  <1>8. ASSUME NEW n \in Passes PROVE ReplyInv(n)'
    <2>0. ReplyInv(n)
      BY DEF IInv
    <2>1. CASE n # m
      BY <1>2, <2>0, <2>1 DEF ReplyInv
    <2>2. CASE n = m /\ replies[n] = 0
      <3>1. replies'[n] = 1
        BY <1>0, <1>2, <2>2 DEF TypeOK
      <3>2. k \in reached' /\ card'[k[1]].pass = n
        BY <1>2, <2>2
      <3> QED BY <3>1, <3>2 DEF ReplyInv
    <2>3. CASE n = m /\ replies[n] # 0
      <3>1. PICK j \in reached : card[j[1]].pass = m
        BY <2>0, <2>3 DEF ReplyInv
      <3>2. j \in Keys /\ KeyInv(j)
        BY <1>0 DEF IInv, TypeOK
      <3>3. attempts[j].status \in Taken
        BY <3>2 DEF KeyInv
      <3>4. Stands(j[1]) /\ card[j[1]].text = j[2] /\ j[1] \in Cards
        BY <3>2, <3>3, TakenStands, KeyParts
      <3>5. Stands(k[1]) /\ card[k[1]].text = k[2]
        BY <1>0, <1>1, TakenStands
      <3>6. j[1] = k[1]
        BY <1>0, <3>1, <3>4, <3>5 DEF IInv, OneStands
      <3>7. j = k
        BY <1>0, <3>2, <3>4, <3>5, <3>6, KeyParts
      <3> QED BY <1>1, <3>7
    <2> QED BY <2>1, <2>2, <2>3
  <1>9. OneStands' /\ ToolInv' /\ \A c \in Cards : CardInv(c)'
    <2>1. OneStands /\ ToolInv /\ \A c \in Cards : CardInv(c)
      BY DEF IInv
    <2>2. OneStands'
      BY <1>2, <2>1 DEF OneStands, Stands, Used
    <2>3. ToolInv'
      BY <1>2, <2>1 DEF ToolInv
    <2>4. \A c \in Cards : CardInv(c)'
      BY <1>2, <2>1 DEF CardInv
    <2> QED BY <2>2, <2>3, <2>4
  <1> QED BY <1>0, <1>5, <1>6, <1>7, <1>8, <1>9 DEF IInv

\* The callback h moves on with its key, the deliveries as they were.
LEMMA CallFailsStep == ASSUME IInv, NEW h \in Handlers, CallFails(h) PROVE IInv'
  <1> DEFINE k == handler[h].key
  <1>0. TypeOK /\ TypeOK' /\ handler[h] \in HandlerType /\ InFlight(h) /\ HandlerInv(h)
    BY SendTypes, HandlerFields DEF IInv, CallFails, InFlight
  <1>1. attempts[k].status \in Taken /\ k \notin reached
    BY <1>0 DEF HandlerInv, CallFails
  <1>2. UNCHANGED <<inbound, card, attempts, refresh, reset, reached, replies>>
    BY DEF CallFails, SendOnly, observation
  <1>3. \E outcome \in {"failed", "ambiguous"} :
          handler' = [handler EXCEPT ![h].pc = "answered", ![h].outcome = outcome]
    BY DEF CallFails
  <1>4. /\ handler'[h].pc = "answered" /\ handler'[h].key = k /\ handler'[h].outcome # "success"
        /\ \A g \in Handlers : g # h => handler'[g] = handler[g]
    BY <1>0, <1>3 DEF TypeOK, HandlerType
  <1>5. ASSUME NEW g \in Handlers PROVE HandlerInv(g)'
    <2>1. CASE g = h
      BY <1>1, <1>2, <1>4, <2>1 DEF HandlerInv
    <2>2. CASE g # h
      BY <1>2, <1>4, <2>2 DEF IInv, HandlerInv, InFlight
    <2> QED BY <2>1, <2>2
  <1>6. OneInFlight'
    <2>1. \A g \in Handlers : InFlight(g)' => InFlight(g) /\ handler'[g].key = handler[g].key
      BY <1>0, <1>4 DEF InFlight
    <2> QED BY <2>1, OneFewer DEF IInv
  <1>7. (\A c \in Cards : CardSent(c)) /\ (\A j \in Keys : KeyMoves(j))
    BY <1>2, NoCardSent, StatusKept
  <1> QED BY <1>0, <1>2, <1>5, <1>6, <1>7, AttemptsStep

\* A delivery is closed with a status; the rest are as they were.
LEMMA ClosedKeys ==
  ASSUME TypeOK, NEW k \in Keys, NEW status, attempts' = Closed(k, status)
  PROVE  attempts'[k].status = status /\ \A j \in Keys : j # k => attempts'[j] = attempts[j]
  <1>1. attempts[k] \in AttemptType
    BY Fields
  <1> QED BY <1>1 DEF Closed, TypeOK, AttemptType

\* The card of a confirmed delivery becomes sent.
LEMMA ConfirmedCard ==
  ASSUME IInv, NEW k \in Keys, attempts[k].status \in Taken, attempts'[k].status = "confirmed_sent",
         card' = Confirmed(k)
  PROVE  card'[k[1]].status = "sent" /\ \A c \in Cards : CardSent(c)
  <1>1. TypeOK /\ k[1] \in Cards /\ card[k[1]].text = k[2] /\ k = <<k[1], k[2]>> /\ k[2] \in Texts
    BY KeyParts, TakenStands DEF IInv
  <1>2. card[k[1]] \in CardType
    BY <1>1, CardFields
  <1> DEFINE new == [card[k[1]] EXCEPT !.status = "sent"]
  <1>3. new.status = "sent" /\ new.pass = card[k[1]].pass /\ new.text = card[k[1]].text
    BY <1>2 DEF CardType
  <1>4. card'[k[1]] = new /\ \A c \in Cards : c # k[1] => card'[c] = card[c]
    BY <1>1 DEF Confirmed, TypeOK
  <1>5. CardSent(k[1])
    BY <1>1, <1>3, <1>4 DEF CardSent
  <1>6. \A c \in Cards : c # k[1] => CardSent(c)
    BY <1>4 DEF CardSent
  <1> QED BY <1>3, <1>4, <1>5, <1>6

\* Settling one delivery: the callback on it, if there is one, leaves.
LEMMA Settled ==
  ASSUME IInv, TypeOK', UNCHANGED <<inbound, refresh, reset, reached, replies>>, NEW k \in Keys,
         \A c \in Cards : CardSent(c), KeyMoves(k), \A j \in Keys : j # k => attempts'[j] = attempts[j],
         \A g \in Handlers : InFlight(g)' => handler'[g] = handler[g],
         \A g \in Handlers : InFlight(g)' /\ handler[g].key = k => attempts'[k].status \in Taken
  PROVE  IInv'
  <1>1. \A j \in Keys : KeyMoves(j)
    BY StatusKept
  <1>2. ASSUME NEW g \in Handlers, InFlight(g)'
        PROVE  handler'[g] = handler[g] /\ attempts'[handler[g].key].status \in Taken
    <2>1. handler'[g] = handler[g] /\ InFlight(g) /\ HandlerInv(g) /\ handler[g].key \in Keys
      BY <1>2, HandlerFields DEF IInv, InFlight
    <2> QED BY <1>2, <2>1 DEF HandlerInv
  <1>3. (\A g \in Handlers : HandlerInv(g)') /\ OneInFlight'
    BY <1>2, OthersHold
  <1> QED BY <1>1, <1>3, AttemptsStep

LEMMA FinalizeStep == ASSUME IInv, NEW h \in Handlers, Finalize(h) PROVE IInv'
  <1> DEFINE k == handler[h].key
             outcome == handler[h].outcome
  <1>0. TypeOK /\ TypeOK' /\ k \in Keys /\ InFlight(h) /\ HandlerInv(h) /\ handler[h].pc = "answered"
    BY SendTypes, HandlerFields DEF IInv, Finalize, InFlight
  <1>1. attempts[k].status = "sending" /\ UNCHANGED <<inbound, refresh, reset, reached, replies>>
        /\ handler' = [handler EXCEPT ![h] = Idle]
        /\ card' = IF outcome = "success" THEN Confirmed(k) ELSE card
    BY DEF Finalize, HoldsClaim, SendOnly, observation
  <1>2. attempts[k].status \in Taken /\ attempts[k].status \in Blocking
    BY <1>1 DEF Taken, Blocking
  <1>3. \A g \in Handlers : InFlight(g)' => handler'[g] = handler[g] /\ g # h
    BY <1>0, <1>1, HandlerEnds DEF Idle
  <1>4. \A g \in Handlers : InFlight(g)' => handler[g].key # k
    BY <1>0, <1>3 DEF IInv, OneInFlight, InFlight
  <1>5. CASE outcome = "success" /\ attempts' = Closed(k, "confirmed_sent")
    <2>1. attempts'[k].status = "confirmed_sent" /\ \A j \in Keys : j # k => attempts'[j] = attempts[j]
      BY <1>0, <1>5, ClosedKeys
    <2>2. card'[k[1]].status = "sent" /\ \A c \in Cards : CardSent(c)
      BY <1>0, <1>1, <1>2, <1>5, <2>1, ConfirmedCard
    <2>3. k \in reached
      BY <1>0, <1>5 DEF HandlerInv
    <2>4. KeyMoves(k)
      BY <1>2, <2>1, <2>2, <2>3 DEF KeyMoves, Taken
    <2> QED BY <1>0, <1>1, <1>3, <1>4, <2>1, <2>2, <2>4, Settled
  <1>6. CASE /\ outcome # "success"
             /\ \/ outcome = "ambiguous" /\ attempts' = Closed(k, "unknown_result")
                \/ outcome = "failed" /\ attempts' = Closed(k, "needs_attention")
                \/ outcome = "failed" /\ attempts' = Closed(k, "known_failed")
    <2>1. \A j \in Keys : j # k => attempts'[j] = attempts[j]
      BY <1>0, <1>6, ClosedKeys
    <2>2. \/ attempts'[k].status \in {"unknown_result", "needs_attention"}
          \/ outcome = "failed" /\ attempts'[k].status = "known_failed"
      BY <1>0, <1>6, ClosedKeys
    <2>3. KeyMoves(k)
      <3>1. CASE attempts'[k].status \in {"unknown_result", "needs_attention"}
        BY <1>2, <3>1, StatusKept DEF Blocking
      <3>2. CASE outcome = "failed" /\ attempts'[k].status = "known_failed"
        <4>1. k \notin reached
          BY <1>0, <3>2 DEF HandlerInv
        <4> QED BY <1>1, <3>2, <4>1 DEF KeyMoves, Taken, Blocking
      <3> QED BY <2>2, <3>1, <3>2
    <2>4. \A c \in Cards : CardSent(c)
      BY <1>1, <1>6, NoCardSent
    <2> QED BY <1>0, <1>1, <1>3, <1>4, <2>1, <2>3, <2>4, Settled
  <1> QED BY <1>5, <1>6 DEF Finalize

LEMMA FinalizeCommitFailsStep == ASSUME IInv, NEW h \in Handlers, FinalizeCommitFails(h) PROVE IInv'
  <1> DEFINE k == handler[h].key
             new == [handler[h] EXCEPT !.pc = "marking"]
  <1>0. TypeOK /\ TypeOK' /\ k \in Keys /\ InFlight(h) /\ HandlerInv(h) /\ handler[h] \in HandlerType
    BY SendTypes, HandlerFields DEF IInv, FinalizeCommitFails, InFlight
  <1>1. /\ attempts[k].status = "sending" /\ UNCHANGED <<inbound, refresh, reset, reached, replies>>
        /\ handler[h].outcome = "success" /\ handler[h].pc = "answered"
        /\ \/ UNCHANGED <<attempts, card>>
           \/ attempts' = Closed(k, "confirmed_sent") /\ card' = Confirmed(k)
    BY DEF FinalizeCommitFails, HoldsClaim, SendOnly, observation
  <1>2. new.pc = "marking" /\ new.key = k /\ new.outcome = "success"
    BY <1>0, <1>1 DEF HandlerType
  <1>3. handler'[h] = new /\ \A g \in Handlers : g # h => handler'[g] = handler[g]
    BY <1>0 DEF FinalizeCommitFails, TypeOK
  <1>4. attempts[k].status \in Taken /\ k \in reached
    BY <1>0, <1>1 DEF Taken, Blocking, HandlerInv
  <1>5. (\A j \in Keys : KeyMoves(j)) /\ (\A c \in Cards : CardSent(c))
        /\ (\A j \in Keys : attempts[j].status \in Taken => attempts'[j].status \in Taken)
    <2>1. CASE UNCHANGED <<attempts, card>>
      BY <2>1, StatusKept, NoCardSent
    <2>2. CASE attempts' = Closed(k, "confirmed_sent") /\ card' = Confirmed(k)
      <3>1. attempts'[k].status = "confirmed_sent" /\ \A j \in Keys : j # k => attempts'[j] = attempts[j]
        BY <1>0, <2>2, ClosedKeys
      <3>2. card'[k[1]].status = "sent" /\ \A c \in Cards : CardSent(c)
        BY <1>0, <1>4, <2>2, <3>1, ConfirmedCard
      <3>3. KeyMoves(k)
        BY <1>4, <3>1, <3>2 DEF KeyMoves, Taken
      <3>4. \A j \in Keys : j # k => KeyMoves(j)
        BY <3>1, StatusKept
      <3> QED BY <3>1, <3>2, <3>3, <3>4 DEF Taken
    <2> QED BY <1>1, <2>1, <2>2
  <1>6. ASSUME NEW g \in Handlers PROVE HandlerInv(g)'
    <2>1. CASE g = h
      <3>1. handler'[g].pc = "marking" /\ handler'[g].key = k /\ handler'[g].outcome = "success"
        BY <1>2, <1>3, <2>1
      <3> QED BY <1>0, <1>1, <1>4, <1>5, <3>1 DEF HandlerInv
    <2>2. CASE g # h
      <3> SUFFICES ASSUME InFlight(g)' PROVE HandlerInv(g)'
        BY DEF HandlerInv
      <3>1. InFlight(g) /\ HandlerInv(g) /\ handler'[g] = handler[g] /\ handler[g].key \in Keys
        BY <1>0, <1>3, <2>2, HandlerFields DEF IInv, InFlight
      <3> QED BY <1>1, <1>5, <3>1 DEF HandlerInv
    <2> QED BY <2>1, <2>2
  <1>7. OneInFlight'
    <2>1. \A g \in Handlers : InFlight(g)' => InFlight(g) /\ handler'[g].key = handler[g].key
      BY <1>0, <1>2, <1>3 DEF InFlight
    <2> QED BY <2>1, OneFewer DEF IInv
  <1> QED BY <1>0, <1>1, <1>5, <1>6, <1>7, AttemptsStep

LEMMA MarkUnknownStep == ASSUME IInv, NEW h \in Handlers, MarkUnknownAfterCommitFailure(h) PROVE IInv'
  <1> DEFINE k == handler[h].key
  <1>0. TypeOK /\ TypeOK' /\ k \in Keys
    BY SendTypes, HandlerFields DEF IInv
  <1>1. /\ UNCHANGED <<inbound, card, refresh, reset, reached, replies>>
        /\ handler' = [handler EXCEPT ![h] = Idle]
        /\ attempts' = IF HoldsClaim(h) THEN Closed(k, "unknown_result") ELSE attempts
    BY DEF MarkUnknownAfterCommitFailure, SendOnly, observation
  <1>2. \A g \in Handlers : InFlight(g)' => handler'[g] = handler[g]
    BY <1>0, <1>1, HandlerEnds DEF Idle
  <1>3. CASE HoldsClaim(h)
    <2>1. attempts'[k].status = "unknown_result" /\ \A j \in Keys : j # k => attempts'[j] = attempts[j]
      BY <1>0, <1>1, <1>3, ClosedKeys
    <2>2. attempts[k].status \in Blocking /\ attempts'[k].status \in Blocking
      BY <1>3, <2>1 DEF HoldsClaim, Blocking
    <2>3. KeyMoves(k) /\ attempts'[k].status \in Taken
      BY <2>2, StatusKept DEF Taken
    <2>4. \A c \in Cards : CardSent(c)
      BY <1>1, NoCardSent
    <2> QED BY <1>0, <1>1, <1>2, <2>1, <2>3, <2>4, Settled
  <1>4. CASE ~HoldsClaim(h)
    BY <1>0, <1>1, <1>2, <1>4, QuietStep
  <1> QED BY <1>3, <1>4

LEMMA KeySteps == ASSUME IInv, NEW k \in Keys, KeyStep(k) PROVE IInv'
  <1>0. TypeOK /\ TypeOK' /\ attempts[k] \in AttemptType
    BY KeyTypes, Fields DEF IInv
  <1>1. UNCHANGED <<inbound, refresh, reset, handler, reached, replies>>
    BY DEF KeyStep, Reconcile, MarkInconclusive, SendOnly, observation
  <1>2. \A g \in Handlers : InFlight(g)' => handler'[g] = handler[g]
    BY <1>1
  <1>3. CASE Reconcile(k)
    <2>1. attempts'[k].status = "confirmed_sent" /\ \A j \in Keys : j # k => attempts'[j] = attempts[j]
      BY <1>0, <1>3, ClosedKeys DEF Reconcile
    <2>2. attempts[k].status \in Taken /\ k \in reached /\ card' = Confirmed(k)
      BY <1>3 DEF Reconcile, Taken, Blocking
    <2>3. card'[k[1]].status = "sent" /\ \A c \in Cards : CardSent(c)
      BY <2>1, <2>2, ConfirmedCard
    <2>4. KeyMoves(k) /\ attempts'[k].status \in Taken
      BY <2>1, <2>2, <2>3 DEF KeyMoves, Taken
    <2> QED BY <1>0, <1>1, <1>2, <2>1, <2>3, <2>4, Settled
  <1>4. CASE MarkInconclusive(k)
    <2>1. attempts'[k].status = "needs_attention" /\ \A j \in Keys : j # k => attempts'[j] = attempts[j]
      BY <1>0, <1>4, ClosedKeys DEF MarkInconclusive
    <2>2. attempts[k].status \in Blocking /\ attempts'[k].status \in Blocking /\ UNCHANGED card
      BY <1>4, <2>1 DEF MarkInconclusive, Blocking
    <2>3. KeyMoves(k) /\ attempts'[k].status \in Taken /\ \A c \in Cards : CardSent(c)
      BY <2>2, StatusKept, NoCardSent DEF Taken
    <2> QED BY <1>0, <1>1, <1>2, <2>1, <2>3, Settled
  <1> QED BY <1>3, <1>4 DEF KeyStep

-----------------------------------------------------------------------------
(* ReplyPromise: a pass has one delivery open or done at most, which gives it *)
(* its phase; every step moves one delivery, or none.                         *)

\* The phase of a pass whose delivery has the status.
Named(status) == CASE status = "confirmed_sent" -> "replied"
                   [] status = "sending" -> "delivering"
                   [] OTHER -> "uncertain"

\* The delivery is of a card of the pass, and open or done.
HeldBy(n, k) == card[k[1]].pass = n /\ attempts[k].status \in Taken

LEMMA HeldStatuses ==
  ASSUME TypeOK, NEW n, NEW s
  PROVE  s \in Held(n) <=> \E k \in Keys : HeldBy(n, k) /\ attempts[k].status = s
  <1> DEFINE of(c) == {attempts[c, t].status : t \in Texts}
             mine == {d \in Cards : card[d].pass = n}
             all == UNION {of(c) : c \in mine}
  <1>0. Held(n) = all \ {"none", "known_failed"}
    BY DEF Held
  <1>b. \A c : s \in of(c) <=> \E t \in Texts : s = attempts[<<c, t>>].status
    OBVIOUS
  <1>a. s \in all <=> \E c \in Cards, t \in Texts : card[c].pass = n /\ s = attempts[<<c, t>>].status
    <2>1. s \in all <=> \E c \in mine : s \in of(c)
      <3> HIDE DEF mine, of
      <3> QED OBVIOUS
    <2>2. \A c : c \in mine <=> c \in Cards /\ card[c].pass = n
      OBVIOUS
    <2> HIDE DEF mine, of, all
    <2> QED BY <1>b, <2>1, <2>2
  <1> HIDE DEF all
  <1>1. ASSUME s \in Held(n) PROVE \E k \in Keys : HeldBy(n, k) /\ attempts[k].status = s
    <2>1. PICK c \in Cards, t \in Texts : card[c].pass = n /\ attempts[<<c, t>>].status = s
      BY <1>0, <1>1, <1>a
    <2>2. s \notin {"none", "known_failed"}
      BY <1>0, <1>1
    <2>3. <<c, t>> \in Keys /\ <<c, t>>[1] = c
      BY DEF Keys
    <2>4. attempts[<<c, t>>] \in AttemptType
      BY <2>3, Fields
    <2>5. s \in Taken
      BY <2>1, <2>2, <2>4 DEF AttemptType, AttemptStatuses, Taken, Blocking
    <2> QED BY <2>1, <2>3, <2>5 DEF HeldBy
  <1>2. ASSUME NEW k \in Keys, HeldBy(n, k), attempts[k].status = s PROVE s \in Held(n)
    <2>1. k[1] \in Cards /\ k[2] \in Texts /\ k = <<k[1], k[2]>>
      BY KeyParts
    <2>2. s \notin {"none", "known_failed"}
      BY <1>2 DEF HeldBy, Taken, Blocking
    <2>3. s \in all
      BY <1>2, <1>a, <2>1 DEF HeldBy
    <2> QED BY <1>0, <2>2, <2>3
  <1> QED BY <1>1, <1>2

\* The one delivery of a pass gives it its phase.
LEMMA PhaseIs ==
  TypeOK => \A n \in Passes, k \in Keys :
              HeldBy(n, k) /\ (\A j \in Keys : HeldBy(n, j) => j = k)
                => Phase(n) = Named(attempts[k].status)
  <1> SUFFICES ASSUME TypeOK, NEW n \in Passes, NEW k \in Keys, HeldBy(n, k),
                      \A j \in Keys : HeldBy(n, j) => j = k
               PROVE  Phase(n) = Named(attempts[k].status)
    OBVIOUS
  <1>1. \A s : s \in Held(n) <=> s = attempts[k].status
    BY HeldStatuses
  <1>2. Held(n) = {attempts[k].status}
    BY <1>1, Zenon
  <1> QED BY <1>2 DEF Phase, Named

\* Without one it is open.
LEMMA PhaseOpen ==
  TypeOK => \A n \in Passes : (\A k \in Keys : ~HeldBy(n, k)) => Phase(n) = "open"
  <1> SUFFICES ASSUME TypeOK, NEW n \in Passes, \A k \in Keys : ~HeldBy(n, k)
               PROVE  Phase(n) = "open"
    OBVIOUS
  <1>1. \A s : s \notin Held(n)
    BY HeldStatuses
  <1>2. Held(n) = {}
    BY <1>1
  <1> QED BY <1>2 DEF Phase

\* A pass has one.
LEMMA OneHeld ==
  IInv => \A n \in Passes, j \in Keys, k \in Keys : HeldBy(n, j) /\ HeldBy(n, k) => j = k
  <1> SUFFICES ASSUME IInv, NEW n \in Passes, NEW j \in Keys, NEW k \in Keys,
                      HeldBy(n, j), HeldBy(n, k)
               PROVE  j = k
    OBVIOUS
  <1>1. Stands(j[1]) /\ Stands(k[1]) /\ card[j[1]].text = j[2] /\ card[k[1]].text = k[2]
    BY TakenStands DEF HeldBy
  <1>2. j[1] = k[1]
    BY <1>1, KeyParts DEF HeldBy, IInv, OneStands
  <1> QED BY <1>1, <1>2, KeyParts

\* A pass without one has not been answered.
LEMMA OpenIsUnanswered ==
  IInv => \A n \in Passes : (\A k \in Keys : ~HeldBy(n, k)) => replies[n] = 0
  <1> SUFFICES ASSUME IInv, NEW n \in Passes, \A k \in Keys : ~HeldBy(n, k)
               PROVE  replies[n] = 0
    OBVIOUS
  <1>1. ReplyInv(n) /\ reached \subseteq Keys /\ \A k \in Keys : KeyInv(k)
    BY DEF IInv, TypeOK
  <1> QED BY <1>1 DEF ReplyInv, KeyInv, HeldBy

\* The same of the state after a step.
LEMMA PhasesNext ==
  /\ TypeOK' => \A n \in Passes, k \in Keys :
                  HeldBy(n, k)' /\ (\A j \in Keys : HeldBy(n, j)' => j = k)
                    => Phase(n)' = Named(attempts'[k].status)
  /\ TypeOK' => \A n \in Passes : (\A k \in Keys : ~HeldBy(n, k)') => Phase(n)' = "open"
  /\ IInv' => \A n \in Passes, j \in Keys, k \in Keys : HeldBy(n, j)' /\ HeldBy(n, k)' => j = k
  /\ IInv' => \A n \in Passes : (\A k \in Keys : ~HeldBy(n, k)') => replies'[n] = 0
  <1>1. (TypeOK => \A n \in Passes, k \in Keys :
                     HeldBy(n, k) /\ (\A j \in Keys : HeldBy(n, j) => j = k)
                       => Phase(n) = Named(attempts[k].status))'
    BY PhaseIs, PTL
  <1>2. (TypeOK => \A n \in Passes : (\A k \in Keys : ~HeldBy(n, k)) => Phase(n) = "open")'
    BY PhaseOpen, PTL
  <1>3. (IInv => \A n \in Passes, j \in Keys, k \in Keys : HeldBy(n, j) /\ HeldBy(n, k) => j = k)'
    BY OneHeld, PTL
  <1>4. (IInv => \A n \in Passes : (\A k \in Keys : ~HeldBy(n, k)) => replies[n] = 0)'
    BY OpenIsUnanswered, PTL
  <1> QED BY <1>1, <1>2, <1>3, <1>4 DEF Named

LEMMA InitKeepsPromise == Init => Promise!Init
  <1> SUFFICES ASSUME Init PROVE Promise!Init
    OBVIOUS
  <1>1. TypeOK
    BY InitTypeOK
  <1>2. \A k \in Keys, n \in Passes : ~HeldBy(n, k)
    BY DEF Init, HeldBy, NoAttempt, Taken, Blocking
  <1>3. \A n \in Passes : Phase(n) = "open"
    BY <1>1, <1>2, PhaseOpen
  <1> QED BY <1>3 DEF Init, Promise!Init

\* The step gives one delivery another status.
Only(k) == \A j \in Keys : j # k => attempts'[j].status = attempts[j].status

\* What is asked of a step for its passes to keep the promise: cards that are there stay
\* in their pass.
PassesKept == \A c \in Cards : card[c].status # "none" => card'[c].pass = card[c].pass

\* A pass whose delivery the step leaves alone keeps its phase.
LEMMA OtherPasses ==
  ASSUME IInv, IInv', PassesKept, NEW n \in Passes,
         \A k \in Keys : HeldBy(n, k)' => HeldBy(n, k),
         \A k \in Keys : HeldBy(n, k) => attempts'[k].status = attempts[k].status
  PROVE  Phase(n)' = Phase(n)
  <1>0. TypeOK /\ TypeOK'
    BY DEF IInv
  <1>3. CASE \E k \in Keys : HeldBy(n, k)
    <2>1. PICK k \in Keys : HeldBy(n, k)
      BY <1>3
    <2>2. \A j \in Keys : HeldBy(n, j) => j = k
      BY <2>1, OneHeld
    <2>3. card[k[1]].status # "none" /\ k[1] \in Cards
      BY <2>1, TakenStands, KeyParts DEF HeldBy
    <2>4. HeldBy(n, k)' /\ attempts'[k].status = attempts[k].status
      BY <2>1, <2>3 DEF HeldBy, PassesKept
    <2>5. \A j \in Keys : HeldBy(n, j)' => j = k
      BY <2>2
    <2>6. Phase(n) = Named(attempts[k].status)
      BY <1>0, <2>1, <2>2, PhaseIs
    <2>7. Phase(n)' = Named(attempts'[k].status)
      BY <1>0, <2>4, <2>5, PhasesNext
    <2> QED BY <2>4, <2>6, <2>7
  <1>4. CASE \A k \in Keys : ~HeldBy(n, k)
    <2>1. Phase(n) = "open"
      BY <1>0, <1>4, PhaseOpen
    <2>2. Phase(n)' = "open"
      BY <1>0, <1>4, PhasesNext
    <2> QED BY <2>1, <2>2
  <1> QED BY <1>3, <1>4

\* A step that gives no delivery another status, and brings no reply, is nothing the
\* client could tell.
LEMMA UnseenKeepsPromise ==
  ASSUME IInv, IInv', PassesKept, UNCHANGED replies,
         \A k \in Keys : attempts'[k].status = attempts[k].status
  PROVE  [Promise!Next]_(Promise!vars)
  <1>1. ASSUME NEW n \in Passes PROVE Phase(n)' = Phase(n)
    <2>1. ASSUME NEW k \in Keys, HeldBy(n, k)' PROVE HeldBy(n, k)
      <3>1. attempts[k].status \in Taken /\ k[1] \in Cards
        BY <2>1, KeyParts DEF HeldBy
      <3>2. card[k[1]].status # "none"
        BY <3>1, TakenStands
      <3> QED BY <2>1, <3>1, <3>2 DEF HeldBy, PassesKept
    <2> QED BY <2>1, OtherPasses
  <1> QED BY <1>1 DEF Promise!vars

\* What a step may make of a delivery.
Goes(k) ==
  \/ attempts[k].status \notin Taken /\ attempts'[k].status \in {"sending", "needs_attention"}
  \/ attempts[k].status = "sending" /\ attempts'[k].status \in {"known_failed", "unknown_result", "needs_attention"}
  \/ attempts[k].status = "unknown_result" /\ attempts'[k].status = "needs_attention"
  \/ /\ attempts[k].status \in {"sending", "unknown_result"}
     /\ attempts'[k].status = "confirmed_sent"
     /\ replies[card[k[1]].pass] = 1

\* A step that does so keeps the promise.
LEMMA OneKeepsPromise ==
  ASSUME IInv, IInv', PassesKept, UNCHANGED replies, NEW k \in Keys, Only(k), Goes(k),
         card[k[1]].status # "none"
  PROVE  [Promise!Next]_(Promise!vars)
  <1>0. TypeOK /\ TypeOK' /\ k[1] \in Cards
    BY KeyParts DEF IInv
  <1> PICK n \in Passes : n = card[k[1]].pass
    BY <1>0, CardFields
  <1>a. card'[k[1]].pass = n
    BY <1>0 DEF PassesKept
  <1>b. ASSUME NEW m \in Passes, NEW j \in Keys, j # k PROVE HeldBy(m, j)' <=> HeldBy(m, j)
    <2>1. attempts'[j].status = attempts[j].status /\ j[1] \in Cards
      BY <1>b, KeyParts DEF Only
    <2>2. attempts[j].status \in Taken => card[j[1]].status # "none"
      BY TakenStands
    <2> QED BY <2>1, <2>2 DEF HeldBy, PassesKept
  <1>4. ASSUME NEW m \in Passes, m # n PROVE Phase(m)' = Phase(m)
    <2>1. ~HeldBy(m, k) /\ ~HeldBy(m, k)'
      BY <1>4, <1>a DEF HeldBy
    <2> QED BY <1>b, <2>1, OtherPasses DEF Only
  <1>5. attempts[k].status \in Taken => Phase(n) = Named(attempts[k].status)
    <2> SUFFICES ASSUME attempts[k].status \in Taken PROVE Phase(n) = Named(attempts[k].status)
      OBVIOUS
    <2>1. HeldBy(n, k)
      BY DEF HeldBy
    <2> QED BY <1>0, <2>1, OneHeld, PhaseIs
  <1>6. attempts'[k].status \in Taken => Phase(n)' = Named(attempts'[k].status)
    <2> SUFFICES ASSUME attempts'[k].status \in Taken PROVE Phase(n)' = Named(attempts'[k].status)
      OBVIOUS
    <2>1. HeldBy(n, k)'
      BY <1>a DEF HeldBy
    <2>2. \A j \in Keys : HeldBy(n, j)' => j = k
      BY <1>0, <2>1, PhasesNext
    <2> QED BY <1>0, <2>1, <2>2, PhasesNext
  <1>7. attempts[k].status \notin Taken /\ attempts'[k].status \in Taken
          => Phase(n) = "open" /\ replies[n] = 0
    <2> SUFFICES ASSUME attempts[k].status \notin Taken, attempts'[k].status \in Taken
                 PROVE  Phase(n) = "open" /\ replies[n] = 0
      OBVIOUS
    <2>1. HeldBy(n, k)'
      BY <1>a DEF HeldBy
    <2>2. \A j \in Keys : ~HeldBy(n, j)
      <3> SUFFICES ASSUME NEW j \in Keys, HeldBy(n, j) PROVE FALSE
        OBVIOUS
      <3>1. j # k
        BY DEF HeldBy
      <3> QED BY <1>0, <1>b, <2>1, <3>1, PhasesNext
    <2> QED BY <1>0, <2>2, PhaseOpen, OpenIsUnanswered
  <1>8. attempts[k].status \in Taken /\ attempts'[k].status \notin Taken
          => Phase(n)' = "open" /\ replies[n] = 0
    <2> SUFFICES ASSUME attempts[k].status \in Taken, attempts'[k].status \notin Taken
                 PROVE  Phase(n)' = "open" /\ replies[n] = 0
      OBVIOUS
    <2>1. HeldBy(n, k)
      BY DEF HeldBy
    <2>2. \A j \in Keys : ~HeldBy(n, j)'
      <3> SUFFICES ASSUME NEW j \in Keys, HeldBy(n, j)' PROVE FALSE
        OBVIOUS
      <3>1. j # k
        BY DEF HeldBy
      <3> QED BY <1>0, <1>b, <2>1, <3>1, OneHeld
    <2> QED BY <1>0, <2>2, PhasesNext
  <1>9. \A m \in Passes : m # n => Phase(m)' = Phase(m)
    BY <1>4
  <1>10. \A to : Phase(n)' = to
           => [m \in Passes |-> Phase(m)]' = [[m \in Passes |-> Phase(m)] EXCEPT ![n] = to]
    BY <1>0, <1>9
  <1>11. CASE attempts[k].status \notin Taken /\ attempts'[k].status = "sending"
    <2>1. Phase(n) = "open" /\ replies[n] = 0 /\ Phase(n)' = "delivering"
      BY <1>6, <1>7, <1>11 DEF Taken, Blocking, Named
    <2> QED BY <1>0, <1>10, <2>1 DEF Promise!Next, Promise!Start, Promise!Moves
  <1>12. CASE attempts[k].status \notin Taken /\ attempts'[k].status = "needs_attention"
    <2>1. Phase(n) = "open" /\ Phase(n)' = "uncertain"
      BY <1>6, <1>7, <1>12 DEF Taken, Blocking, Named
    <2> QED BY <1>0, <1>10, <2>1 DEF Promise!Next, Promise!Doubt, Promise!Moves
  <1>13. CASE attempts[k].status = "sending" /\ attempts'[k].status = "known_failed"
    <2>1. Phase(n) = "delivering" /\ replies[n] = 0 /\ Phase(n)' = "open"
      BY <1>5, <1>8, <1>13 DEF Taken, Blocking, Named
    <2> QED BY <1>0, <1>10, <2>1 DEF Promise!Next, Promise!Release, Promise!Moves
  <1>14. CASE attempts[k].status = "sending" /\ attempts'[k].status \in {"unknown_result", "needs_attention"}
    <2>1. Phase(n) = "delivering" /\ Phase(n)' = "uncertain"
      BY <1>5, <1>6, <1>14 DEF Taken, Blocking, Named
    <2> QED BY <1>0, <1>10, <2>1 DEF Promise!Next, Promise!Doubt, Promise!Moves
  <1>15. CASE attempts[k].status = "unknown_result" /\ attempts'[k].status = "needs_attention"
    <2>1. Phase(n) = "uncertain" /\ Phase(n)' = "uncertain"
      BY <1>5, <1>6, <1>15 DEF Taken, Blocking, Named
    <2>2. \A m \in Passes : Phase(m)' = Phase(m)
      BY <1>9, <2>1
    <2> QED BY <2>2 DEF Promise!vars
  <1>16. CASE /\ attempts[k].status \in {"sending", "unknown_result"}
              /\ attempts'[k].status = "confirmed_sent" /\ replies[n] = 1
    <2>1. Phase(n) \in {"delivering", "uncertain"} /\ Phase(n)' = "replied"
      BY <1>5, <1>6, <1>16 DEF Taken, Blocking, Named
    <2> QED BY <1>0, <1>10, <1>16, <2>1 DEF Promise!Next, Promise!Confirm, Promise!Moves
  <1> QED BY <1>11, <1>12, <1>13, <1>14, <1>15, <1>16 DEF Goes

-----------------------------------------------------------------------------
(* The theorems *)

LEMMA InitIInv == Init => IInv
  <1> SUFFICES ASSUME Init PROVE IInv
    OBVIOUS
  <1>1. TypeOK
    BY InitTypeOK
  <1>2. /\ \A c \in Cards : card[c] = NoCard
        /\ \A k \in Keys : attempts[k] = NoAttempt
        /\ \A h \in Handlers : handler[h] = Idle
        /\ reached = {} /\ \A n \in Passes : replies[n] = 0
        /\ refresh = NoRefresh /\ reset = NoReset /\ inbound.card = 0
    BY DEF Init
  <1>3. \A c \in Cards : ~Used(c)
    <2>1. ASSUME NEW c \in Cards, NEW t \in Texts PROVE attempts[<<c, t>>].status \notin Taken
      <3>1. <<c, t>> \in Keys
        BY DEF Keys
      <3>2. attempts[<<c, t>>] = NoAttempt
        BY <1>2, <3>1
      <3> QED BY <3>2 DEF Taken, Blocking, NoAttempt
    <2> QED BY <2>1 DEF Used
  <1>4. \A k \in Keys : KeyInv(k)
    BY <1>2 DEF KeyInv, Taken, Blocking, NoAttempt
  <1>5. \A h \in Handlers : ~InFlight(h)
    BY <1>2 DEF InFlight, Idle
  <1>6. \A c \in Cards : ~Stands(c) /\ CardInv(c)
    BY <1>2, <1>3 DEF Stands, CardInv, NoCard
  <1>7. ToolInv
    BY <1>2 DEF ToolInv, NoRefresh, NoReset
  <1> QED BY <1>1, <1>2, <1>4, <1>5, <1>6, <1>7 DEF IInv, HandlerInv, OneInFlight, OneStands, ReplyInv

LEMMA NextIInv == ASSUME IInv, [Next]_vars PROVE IInv'
  <1>1. ASSUME NEW c \in Cards, CardStep(c) PROVE IInv'
    BY <1>1, PresentStep, CardActions, RefreshCommitStep, ReissueStep DEF CardStep
  <1>2. ASSUME NEW h \in Handlers, SendStep(h) PROVE IInv'
    BY <1>2, ApproveSteps, ClaimStep, ClaimRefusedStep, CallReachesStep, CallFailsStep,
       FinalizeStep, FinalizeCommitFailsStep, MarkUnknownStep DEF SendStep
  <1>3. ASSUME NEW k \in Keys, KeyStep(k) PROVE IInv'
    BY <1>3, KeySteps
  <1>4. CASE Instruct \/ EditMore \/ EditCancel
    <2>1. UNCHANGED <<inbound, card, refresh, reset, attempts, handler, reached, replies>>
      BY <1>4 DEF Instruct, EditMore, EditCancel, DialogOnly, observation
    <2>2. TypeOK'
      BY <1>4, DialogTypes DEF IInv
    <2> QED BY <2>1, <2>2, QuietStep
  <1>5. CASE RefreshEnds \/ Bind \/ ReprocessRead \/ ReprocessWrite
    BY <1>5, ReprocessSteps
  <1>6. CASE UNCHANGED vars
    <2>1. TypeOK'
      BY <1>6 DEF IInv, TypeOK, vars
    <2> QED BY <1>6, <2>1, QuietStep DEF vars
  <1> QED BY <1>1, <1>2, <1>3, <1>4, <1>5, <1>6 DEF Next

\* The invariant holds of every state the callbacks and the tools can reach.
LEMMA Inductive == Spec => []IInv
  <1>1. IInv /\ [Next]_vars => IInv'
    BY NextIInv
  <1> QED BY InitIInv, <1>1, PTL DEF Spec

\* No step moves a card that is there to another pass.
LEMMA PassesStay == ASSUME IInv, [Next]_vars PROVE PassesKept
  <1>0. TypeOK /\ ToolInv /\ \A c \in Cards : card[c] \in CardType
    BY CardFields DEF IInv
  <1>1. ASSUME UNCHANGED card PROVE PassesKept
    BY <1>1 DEF PassesKept
  <1>2. ASSUME NEW k \in Keys, card' = Confirmed(k) PROVE PassesKept
    <2>1. \A c \in Cards : card'[c].pass = card[c].pass
      BY <1>0, <1>2, KeyParts DEF Confirmed, TypeOK, CardType
    <2> QED BY <2>1 DEF PassesKept
  <1>3. ASSUME NEW c \in Cards, NEW status, card' = [card EXCEPT ![c].status = status]
        PROVE  PassesKept
    <2>1. \A d \in Cards : card'[d].pass = card[d].pass
      BY <1>0, <1>3 DEF TypeOK, CardType
    <2> QED BY <2>1 DEF PassesKept
  <1>4. ASSUME NEW c \in Cards, CardStep(c) PROVE PassesKept
    <2>1. CASE Present(c)
      <3>1. card[c].status = "none" /\ \A d \in Cards : d # c => card'[d] = card[d]
        BY <1>0, <2>1 DEF Present, IsNextCard, TypeOK
      <3> QED BY <3>1 DEF PassesKept
    <2>2. CASE Delivered(c)
      <3>1. \A d \in Cards : card'[d].pass = card[d].pass
        BY <1>0, <2>2 DEF Delivered, TypeOK, CardType
      <3> QED BY <3>1 DEF PassesKept
    <2>3. CASE Skip(c)
      BY <1>3, <2>3 DEF Skip
    <2>4. CASE EditStart(c) \/ RefreshRead(c)
      BY <1>1, <2>4 DEF EditStart, DialogOnly, RefreshRead
    <2>5. ASSUME NEW b \in Cards, NEW d \in Cards, NEW new, card[d].status = "none",
                 card' = [card EXCEPT ![b].status = "superseded", ![d] = new]
          PROVE  PassesKept
      <3>1. \A e \in Cards : e # d => card'[e].pass = card[e].pass
        BY <1>0, <2>5 DEF TypeOK, CardType
      <3> QED BY <2>5, <3>1 DEF PassesKept
    <2>6. CASE RefreshCommit(c)
      <3>1. refresh.card \in Cards /\ card[c].status = "none"
        BY <1>0, <2>6 DEF RefreshCommit, IsNextCard, TypeOK
      <3> QED BY <2>5, <2>6, <3>1 DEF RefreshCommit
    <2>7. CASE \E d \in Cards : Reissue(c, d)
      BY <2>5, <2>7 DEF Reissue, IsNextCard
    <2> QED BY <1>4, <2>1, <2>2, <2>3, <2>4, <2>6, <2>7 DEF CardStep
  <1>5. ASSUME NEW h \in Handlers, SendStep(h) PROVE PassesKept
    <2>1. handler[h].key \in Keys
      BY <1>0, HandlerFields
    <2>2. ASSUME NEW c \in Cards, Approve(h, c) PROVE PassesKept
      BY <1>3, <2>2 DEF Approve
    <2>3. CASE EditSend(h)
      <3>1. \A d \in Cards : card'[d].pass = card[d].pass
        BY <1>0, <2>3 DEF EditSend, TypeOK, CardType
      <3> QED BY <3>1 DEF PassesKept
    <2>4. CASE Finalize(h)
      BY <1>1, <1>2, <2>1, <2>4 DEF Finalize
    <2>5. CASE FinalizeCommitFails(h)
      BY <1>1, <1>2, <2>1, <2>5 DEF FinalizeCommitFails
    <2>6. CASE \/ \E c \in Cards : ApproveAgain(h, c)
               \/ Claim(h) \/ ClaimRefused(h) \/ CallReaches(h) \/ CallFails(h) \/ FinalizeRefused(h)
               \/ MarkUnknownAfterCommitFailure(h) \/ Crash(h)
      BY <1>1, <2>6 DEF ApproveAgain, Claim, ClaimRefused, CallReaches, CallFails,
         FinalizeRefused, MarkUnknownAfterCommitFailure, Crash
    <2> QED BY <1>5, <2>2, <2>3, <2>4, <2>5, <2>6 DEF SendStep
  <1>6. ASSUME NEW k \in Keys, KeyStep(k) PROVE PassesKept
    BY <1>1, <1>2, <1>6 DEF KeyStep, Reconcile, MarkInconclusive
  <1>7. CASE Instruct \/ EditMore \/ EditCancel \/ RefreshEnds \/ ReprocessRead
    BY <1>1, <1>7 DEF Instruct, EditMore, EditCancel, DialogOnly, RefreshEnds, ReprocessRead
  <1>8. CASE Bind
    <2>1. \A c \in Cards : card'[c].pass = card[c].pass
      BY <1>0, <1>8 DEF Bind, TypeOK, CardType
    <2> QED BY <2>1 DEF PassesKept
  <1>9. CASE ReprocessWrite
    <2>1. \A c \in Cards : card'[c].pass = card[c].pass
      BY <1>0, <1>9 DEF ReprocessWrite, TypeOK, CardType
    <2> QED BY <2>1 DEF PassesKept
  <1>10. CASE UNCHANGED vars
    BY <1>1, <1>10 DEF vars
  <1> QED BY <1>4, <1>5, <1>6, <1>7, <1>8, <1>9, <1>10 DEF Next

\* A text that reached the client is counted in the pass of its card.
ReachedInv == \A k \in reached : replies[card[k[1]].pass] = 1

LEMMA OnlyCallsReach ==
  ASSUME [Next]_vars, ~UNCHANGED <<reached, replies>>
  PROVE  \E h \in Handlers : CallReaches(h)
  BY DEF Next, CardStep, SendStep, KeyStep, Present, Delivered, Skip, EditStart, DialogOnly,
     RefreshRead, RefreshCommit, Reissue, Approve, ApproveAgain, EditSend, Claim, ClaimRefused,
     CallFails, Finalize, FinalizeRefused, FinalizeCommitFails, MarkUnknownAfterCommitFailure,
     Crash, Reconcile, MarkInconclusive, Instruct, EditMore, EditCancel, RefreshEnds, Bind,
     ReprocessRead, ReprocessWrite, ToolsOnly, observation, vars

LEMMA ReachedStep == ASSUME IInv, IInv', ReachedInv, [Next]_vars PROVE ReachedInv'
  <1>0. TypeOK /\ PassesKept /\ reached \subseteq Keys
    BY PassesStay DEF IInv, TypeOK
  <1>1. \A k \in reached : card'[k[1]].pass = card[k[1]].pass /\ k[1] \in Cards
    <2> SUFFICES ASSUME NEW k \in reached PROVE card'[k[1]].pass = card[k[1]].pass /\ k[1] \in Cards
      OBVIOUS
    <2>1. k \in Keys /\ KeyInv(k) /\ k[1] \in Cards
      BY <1>0, KeyParts DEF IInv
    <2> QED BY <1>0, <2>1 DEF KeyInv, PassesKept
  <1>2. CASE UNCHANGED <<reached, replies>>
    BY <1>1, <1>2 DEF ReachedInv
  <1>3. ASSUME NEW h \in Handlers, CallReaches(h) PROVE ReachedInv'
    <2> DEFINE k == handler[h].key
               n == card[k[1]].pass
    <2>1. k \in Keys /\ k[1] \in Cards /\ n \in Passes
      BY <1>0, HandlerFields, CardFields
    <2>2. /\ UNCHANGED card /\ reached' = reached \cup {k}
          /\ replies' = [replies EXCEPT ![n] = replies[n] + 1]
      BY <1>3 DEF CallReaches
    <2>3. replies[n] \in Nat /\ replies' = [replies EXCEPT ![n] = replies[n] + 1]
          /\ replies \in [Passes -> Nat]
      BY <1>0, <2>1, <2>2 DEF TypeOK
    <2>4. replies'[n] = replies[n] + 1 /\ \A m \in Passes : m # n => replies'[m] = replies[m]
      BY <2>1, <2>3
    <2>5. replies'[n] = 0 \/ replies'[n] = 1
      BY <2>1 DEF IInv, ReplyInv
    <2>6. replies'[n] = 1
      BY <2>3, <2>4, <2>5
    <2>7. ASSUME NEW j \in reached' PROVE replies'[card'[j[1]].pass] = 1
      <3>1. CASE j = k
        BY <2>2, <2>6, <3>1
      <3>2. CASE j \in reached
        <4>1. j[1] \in Cards /\ card[j[1]].pass \in Passes /\ replies[card[j[1]].pass] = 1
          BY <1>0, <1>1, <3>2, CardFields DEF ReachedInv
        <4> QED BY <2>2, <2>4, <2>6, <4>1
      <3> QED BY <2>2, <2>7, <3>1, <3>2
    <2> QED BY <2>7 DEF ReachedInv
  <1> QED BY <1>2, <1>3, OnlyCallsReach

LEMMA ReachedIsCounted == Spec => []ReachedInv
  <1>1. Init => ReachedInv
    BY DEF Init, ReachedInv
  <1>2. IInv /\ IInv' /\ ReachedInv /\ [Next]_vars => ReachedInv'
    BY ReachedStep
  <1> QED BY <1>1, <1>2, Inductive, PTL DEF Spec

-----------------------------------------------------------------------------
(* Every step of the program is one ReplyPromise allows *)

LEMMA ClaimKeepsPromise ==
  ASSUME IInv, IInv', PassesKept, NEW h \in Handlers, Claim(h) \/ ClaimRefused(h)
  PROVE  [Promise!Next]_(Promise!vars)
  <1> DEFINE k == handler[h].key
  <1>0. TypeOK /\ k \in Keys /\ attempts[k] \in AttemptType /\ UNCHANGED replies
    BY HandlerFields, Fields DEF IInv, Claim, ClaimRefused, observation
  <1>1. MaySend(k[1], k[2]) => card[k[1]].status # "none"
    BY DEF MaySend
  <1>2. CASE Claim(h)
    <2>1. attempts'[k].status = "sending" /\ \A j \in Keys : j # k => attempts'[j] = attempts[j]
      BY <1>0, <1>2 DEF Claim, TypeOK
    <2>2. Goes(k) /\ Only(k) /\ card[k[1]].status # "none"
      BY <1>1, <1>2, <2>1 DEF Claim, Goes, Only, Taken, Blocking
    <2> QED BY <1>0, <2>2, OneKeepsPromise
  <1>3. CASE ClaimRefused(h)
    <2>1. \/ UNCHANGED attempts
          \/ \E elapsed \in SUBSET {j \in Open(k[1]) : attempts[j].status = "sending"} :
                attempts' = Expired(elapsed)
          \/ /\ attempts' = [attempts EXCEPT ![k].status = "needs_attention"]
             /\ MaySend(k[1], k[2]) /\ attempts[k].status = "known_failed"
      BY <1>3 DEF ClaimRefused
    <2>2. CASE UNCHANGED attempts
      BY <1>0, <2>2, UnseenKeepsPromise
    <2>3. CASE \E elapsed \in SUBSET {j \in Open(k[1]) : attempts[j].status = "sending"} :
                  attempts' = Expired(elapsed)
      <3>1. PICK elapsed \in SUBSET {j \in Open(k[1]) : attempts[j].status = "sending"} :
                    attempts' = Expired(elapsed)
        BY <2>3
      <3>2. CASE elapsed = {}
        BY <1>0, <3>1, <3>2, UnseenKeepsPromise DEF Expired
      <3>3. CASE elapsed # {}
        <4>1. PICK j \in elapsed : TRUE
          BY <3>3
        <4>2. /\ j \in Keys /\ j[1] = k[1] /\ attempts[j].status = "sending"
              /\ \A i \in elapsed : i \in Keys /\ i[1] = k[1] /\ attempts[i].status = "sending"
          BY <3>1 DEF Open
        <4>3. \A i \in elapsed : i[2] = card[k[1]].text
          BY <4>2, TakenStands DEF Taken, Blocking
        <4>4. \A i \in elapsed : i = j
          BY <4>2, <4>3, KeyParts
        <4>5. attempts[j] \in AttemptType
          BY <1>0, <4>2, Fields
        <4>6. attempts'[j].status = "unknown_result"
          BY <3>1, <4>2, <4>5 DEF Expired, AttemptType
        <4>7. Only(j)
          BY <3>1, <4>4 DEF Only, Expired
        <4>8. card[j[1]].status # "none"
          BY <4>2, TakenStands DEF Taken, Blocking
        <4> QED BY <1>0, <4>2, <4>6, <4>7, <4>8, OneKeepsPromise DEF Goes
      <3> QED BY <3>2, <3>3
    <2>4. CASE /\ attempts' = [attempts EXCEPT ![k].status = "needs_attention"]
               /\ MaySend(k[1], k[2]) /\ attempts[k].status = "known_failed"
      <3>1. attempts'[k].status = "needs_attention"
        BY <1>0, <2>4 DEF AttemptType, TypeOK
      <3>2. Only(k)
        BY <1>0, <2>4 DEF Only, TypeOK
      <3>3. Goes(k)
        BY <2>4, <3>1 DEF Goes, Taken, Blocking
      <3> QED BY <1>0, <1>1, <2>4, <3>2, <3>3, OneKeepsPromise
    <2> QED BY <2>1, <2>2, <2>3, <2>4
  <1> QED BY <1>2, <1>3

LEMMA ReachKeepsPromise ==
  ASSUME IInv, IInv', NEW h \in Handlers, CallReaches(h)
  PROVE  [Promise!Next]_(Promise!vars)
  <1> DEFINE k == handler[h].key
  <1>0. TypeOK /\ k \in Keys /\ k[1] \in Cards /\ card[k[1]].pass \in Passes
    BY HandlerFields, CardFields DEF IInv
  <1> PICK n \in Passes : n = card[k[1]].pass
    BY <1>0
  <1>1. UNCHANGED <<card, attempts>> /\ replies' = [replies EXCEPT ![n] = replies[n] + 1]
    BY DEF CallReaches
  <1>2. replies[n] \in Nat /\ replies \in [Passes -> Nat]
    BY <1>0 DEF TypeOK
  <1>3. replies'[n] = 0 \/ replies'[n] = 1
    BY DEF IInv, ReplyInv
  <1>4. replies'[n] = replies[n] + 1
    BY <1>1, <1>2
  <1>5. replies[n] = 0
    BY <1>2, <1>3, <1>4
  <1>6. attempts[k].status \in Taken /\ k \notin reached /\ KeyInv(k)
    <2>1. HandlerInv(h) /\ InFlight(h) /\ handler[h].pc = "calling"
      BY DEF IInv, CallReaches, InFlight
    <2> QED BY <1>0, <2>1 DEF HandlerInv, IInv
  <1>7. HeldBy(n, k)
    BY <1>6 DEF HeldBy
  <1>8. Phase(n) = Named(attempts[k].status)
    BY <1>0, <1>7, OneHeld, PhaseIs
  <1>9. attempts[k].status # "confirmed_sent"
    BY <1>6 DEF KeyInv
  <1>10. Phase(n) \in {"delivering", "uncertain"}
    BY <1>6, <1>8, <1>9 DEF Named
  <1>11. \A m \in Passes : Phase(m)' = Phase(m)
    BY <1>1 DEF Phase, Held
  <1>12. replies' = [replies EXCEPT ![n] = 1]
    BY <1>1, <1>5
  <1>13. [m \in Passes |-> Phase(m)]' = [m \in Passes |-> Phase(m)]
    BY <1>11
  <1>14. [m \in Passes |-> Phase(m)][n] \in {"delivering", "uncertain"}
    BY <1>10
  <1> QED BY <1>5, <1>12, <1>13, <1>14 DEF Promise!Next, Promise!Arrive

\* A delivery is closed: its answer is applied, or the thread shows what became of it.
LEMMA ClosedKeepsPromise ==
  ASSUME IInv, IInv', PassesKept, UNCHANGED replies, NEW k \in Keys, NEW status,
         attempts' = Closed(k, status), attempts[k].status \in {"sending", "unknown_result"},
         \/ status \in {"needs_attention", "unknown_result"}
         \/ status = "known_failed" /\ attempts[k].status = "sending"
         \/ status = "confirmed_sent" /\ replies[card[k[1]].pass] = 1
  PROVE  [Promise!Next]_(Promise!vars)
  <1>1. attempts'[k].status = status /\ \A j \in Keys : j # k => attempts'[j] = attempts[j]
    BY ClosedKeys DEF IInv
  <1>2. card[k[1]].status # "none"
    BY TakenStands DEF Taken, Blocking
  <1>3. CASE status = attempts[k].status
    BY <1>1, <1>3, UnseenKeepsPromise
  <1>4. CASE status # attempts[k].status
    <2>1. Goes(k) /\ Only(k)
      BY <1>1, <1>4 DEF Goes, Only
    <2> QED BY <1>2, <2>1, OneKeepsPromise
  <1> QED BY <1>3, <1>4

LEMMA AnswerKeepsPromise ==
  ASSUME IInv, IInv', ReachedInv, PassesKept, NEW h \in Handlers,
         Finalize(h) \/ FinalizeCommitFails(h) \/ MarkUnknownAfterCommitFailure(h)
  PROVE  [Promise!Next]_(Promise!vars)
  <1> DEFINE k == handler[h].key
  <1>0. TypeOK /\ k \in Keys /\ UNCHANGED replies
    BY HandlerFields DEF IInv, Finalize, FinalizeCommitFails, MarkUnknownAfterCommitFailure,
       observation
  <1>1. handler[h].pc = "answered" /\ handler[h].outcome = "success" => replies[card[k[1]].pass] = 1
    <2> SUFFICES ASSUME handler[h].pc = "answered", handler[h].outcome = "success"
                 PROVE  replies[card[k[1]].pass] = 1
      OBVIOUS
    <2>1. HandlerInv(h) /\ InFlight(h)
      BY DEF IInv, InFlight
    <2>2. k \in reached
      BY <2>1 DEF HandlerInv
    <2> QED BY <2>2 DEF ReachedInv
  <1>2. HoldsClaim(h) => attempts[k].status = "sending"
    BY DEF HoldsClaim
  <1>3. CASE Finalize(h)
    <2>1. /\ attempts[k].status = "sending" /\ handler[h].pc = "answered"
          /\ \/ handler[h].outcome = "success" /\ attempts' = Closed(k, "confirmed_sent")
             \/ \E status \in {"unknown_result", "needs_attention", "known_failed"} :
                  attempts' = Closed(k, status)
      BY <1>2, <1>3 DEF Finalize
    <2> QED BY <1>0, <1>1, <2>1, ClosedKeepsPromise
  <1>4. CASE FinalizeCommitFails(h)
    <2>1. /\ attempts[k].status = "sending" /\ replies[card[k[1]].pass] = 1
          /\ UNCHANGED attempts \/ attempts' = Closed(k, "confirmed_sent")
      BY <1>1, <1>2, <1>4 DEF FinalizeCommitFails
    <2> QED BY <1>0, <2>1, ClosedKeepsPromise, UnseenKeepsPromise
  <1>5. CASE MarkUnknownAfterCommitFailure(h)
    <2>1. UNCHANGED attempts \/ (attempts[k].status = "sending" /\ attempts' = Closed(k, "unknown_result"))
      BY <1>2, <1>5 DEF MarkUnknownAfterCommitFailure
    <2> QED BY <1>0, <2>1, ClosedKeepsPromise, UnseenKeepsPromise
  <1> QED BY <1>3, <1>4, <1>5

LEMMA ThreadKeepsPromise ==
  ASSUME IInv, IInv', ReachedInv, PassesKept, NEW k \in Keys, KeyStep(k)
  PROVE  [Promise!Next]_(Promise!vars)
  <1>1. UNCHANGED replies
    BY DEF KeyStep, Reconcile, MarkInconclusive, observation
  <1>2. CASE Reconcile(k)
    <2>1. replies[card[k[1]].pass] = 1
      BY <1>2 DEF Reconcile, ReachedInv
    <2> QED BY <1>1, <1>2, <2>1, ClosedKeepsPromise DEF Reconcile
  <1>3. CASE MarkInconclusive(k)
    BY <1>1, <1>3, ClosedKeepsPromise DEF MarkInconclusive
  <1> QED BY <1>2, <1>3 DEF KeyStep

LEMMA NextKeepsPromise ==
  ASSUME IInv, IInv', ReachedInv, [Next]_vars
  PROVE  [Promise!Next]_(Promise!vars)
  <1>0. PassesKept
    BY PassesStay
  <1>1. ASSUME UNCHANGED <<attempts, replies>> PROVE [Promise!Next]_(Promise!vars)
    BY <1>0, <1>1, UnseenKeepsPromise
  <1>2. ASSUME NEW c \in Cards, CardStep(c) PROVE UNCHANGED <<attempts, replies>>
    BY <1>2 DEF CardStep, Present, Delivered, Skip, EditStart, DialogOnly, RefreshRead,
       RefreshCommit, Reissue, ToolsOnly, observation
  <1>3. ASSUME NEW h \in Handlers, SendStep(h) PROVE [Promise!Next]_(Promise!vars)
    <2>1. CASE Claim(h) \/ ClaimRefused(h)
      BY <1>0, <2>1, ClaimKeepsPromise
    <2>2. CASE CallReaches(h)
      BY <2>2, ReachKeepsPromise
    <2>3. CASE Finalize(h) \/ FinalizeCommitFails(h) \/ MarkUnknownAfterCommitFailure(h)
      BY <1>0, <2>3, AnswerKeepsPromise
    <2>4. CASE \/ \E c \in Cards : Approve(h, c) \/ ApproveAgain(h, c)
               \/ EditSend(h) \/ CallFails(h) \/ FinalizeRefused(h) \/ Crash(h)
      BY <1>1, <2>4 DEF Approve, ApproveAgain, EditSend, CallFails, FinalizeRefused, Crash, observation
    <2> QED BY <1>3, <2>1, <2>2, <2>3, <2>4 DEF SendStep
  <1>4. ASSUME NEW k \in Keys, KeyStep(k) PROVE [Promise!Next]_(Promise!vars)
    BY <1>0, <1>4, ThreadKeepsPromise
  <1>5. CASE Instruct \/ EditMore \/ EditCancel \/ RefreshEnds \/ Bind \/ ReprocessRead \/ ReprocessWrite
    BY <1>1, <1>5 DEF Instruct, EditMore, EditCancel, DialogOnly, RefreshEnds, Bind,
       ReprocessRead, ReprocessWrite, ToolsOnly, observation
  <1>6. CASE UNCHANGED vars
    BY <1>1, <1>6 DEF vars
  <1> QED BY <1>1, <1>2, <1>3, <1>4, <1>5, <1>6 DEF Next

\* Every value has its type (telegram_inbox_pending, send_attempts, the dialogue).
THEOREM ReplyTypes == Spec => []TypeOK
  <1>1. IInv => TypeOK
    BY DEF IInv
  <1> QED BY <1>1, Inductive, PTL

\* Between two reprocesses the client gets at most one reply (_claim_locked,
\* delivery_blocks_mutation).
THEOREM OneReply == Spec => []OneReplyPerPass
  <1>1. IInv => OneReplyPerPass
    BY DEF IInv, ReplyInv, OneReplyPerPass
  <1> QED BY <1>1, Inductive, PTL

\* Nobody rewrites the draft of a card while a delivery of it is open or done.
THEOREM DraftKept == Spec => []DraftIsKept
  <1>1. IInv => DraftIsKept
    BY DEF IInv, KeyInv, Taken, DraftIsKept
  <1> QED BY <1>1, Inductive, PTL

-----------------------------------------------------------------------------
(* Which cards the row of the message leads to                              *)

Awaits(c) == card[c].status \in {"pending", "approved", "edited"}

\* A card that awaits its end is the row's own, or its draft came from a refresh, or the
\* message was reprocessed after it; and only a replacement of another waits undecided.
TrackInv(c) ==
  /\ Awaits(c) => \/ inbound.card = c
                  \/ \E d \in Predecessors(c) : card[d].text # card[c].text
                  \/ card[c].pass < inbound.pass
  /\ card[c].status = "pending" => inbound.card = c \/ Predecessors(c) # {}

\* Drafts are drawn one after another, and one under review is on no card yet.
DraftInv ==
  /\ dialog.text <= texts /\ \A c \in Cards : card[c].text <= texts
  /\ dialog.pc = "reviewing" => dialog.text # 0 /\ \A c \in Cards : card[c].text # dialog.text

\* A message that awaits its draft has no card, and a reprocess that read a decided card
\* still finds it decided.
RowInv ==
  /\ inbound.received => inbound.card = 0
  /\ reset.pc = "writing" /\ ~reset.pending /\ inbound.card # 0
       => card[inbound.card].status # "pending"

FoundInv == (\A c \in Cards : TrackInv(c)) /\ DraftInv /\ RowInv

\* What most steps do to a card: nothing, or bring it nearer to its end.
CardSteady(c) ==
  /\ card'[c].text = card[c].text /\ card'[c].pass = card[c].pass
  /\ card'[c].status = "pending" => card[c].status = "pending"
  /\ Awaits(c)' => Awaits(c)
  /\ card[c].status = "superseded" => card'[c].status # "none"

LEMMA TextsAreNumbers ==
  ASSUME TypeOK
  PROVE  texts \in Nat /\ dialog.text \in Nat /\ \A c \in Cards : card[c].text \in Nat
  <1>1. \A t \in Texts : t \in Nat
    BY Bounds DEF Texts
  <1>2. texts \in Texts /\ dialog.text \in Texts
    BY DEF TypeOK
  <1>3. \A c \in Cards : card[c].text \in Texts
    BY CardFields
  <1> QED BY <1>1, <1>2, <1>3

LEMMA SameCardSteady == ASSUME NEW c, card'[c] = card[c] PROVE CardSteady(c)
  BY DEF CardSteady, Awaits

\* A card that another one of the pass replaced stays superseded.
LEMMA PredecessorsKept ==
  ASSUME IInv', NEW c \in Cards, Awaits(c), Awaits(c)', card'[c].pass = card[c].pass,
         NEW d \in Predecessors(c), CardSteady(d)
  PROVE  d \in Predecessors(c)' /\ card'[d].text = card[d].text
  <1>1. d \in Cards /\ card[d].status = "superseded" /\ card[d].pass = card[c].pass
    BY DEF Predecessors
  <1>2. card'[d].pass = card'[c].pass /\ card'[d].status # "none" /\ card'[d].text = card[d].text
    BY <1>1 DEF CardSteady
  <1>3. d # c
    BY <1>1 DEF Awaits
  <1>4. ~Stands(d)'
    <2>1. Stands(c)'
      BY DEF Stands, Awaits
    <2> QED BY <1>1, <1>2, <1>3, <2>1 DEF IInv, OneStands
  <1>5. card'[d].status = "superseded"
    BY <1>2, <1>4 DEF Stands
  <1> QED BY <1>1, <1>2, <1>5 DEF Predecessors

LEMMA TrackKept ==
  ASSUME IInv', NEW c \in Cards, TrackInv(c), CardSteady(c),
         inbound.card = c => inbound'.card = c, inbound'.pass = inbound.pass,
         \A d \in Cards : card[d].status = "superseded" => CardSteady(d)
  PROVE  TrackInv(c)'
  <1> SUFFICES ASSUME Awaits(c)' PROVE TrackInv(c)'
    BY DEF TrackInv, Awaits
  <1>1. Awaits(c) /\ card'[c].pass = card[c].pass /\ card'[c].text = card[c].text
    BY DEF CardSteady
  <1>2. \A d \in Predecessors(c) : d \in Predecessors(c)' /\ card'[d].text = card[d].text
    <2> SUFFICES ASSUME NEW d \in Predecessors(c)
                 PROVE  d \in Predecessors(c)' /\ card'[d].text = card[d].text
      OBVIOUS
    <2>1. CardSteady(d)
      BY DEF Predecessors
    <2> QED BY <1>1, <2>1, PredecessorsKept
  <1>3. \/ inbound'.card = c
        \/ \E d \in Predecessors(c)' : card'[d].text # card'[c].text
        \/ card'[c].pass < inbound'.pass
    BY <1>1, <1>2 DEF TrackInv
  <1>4. card'[c].status = "pending" => inbound'.card = c \/ Predecessors(c)' # {}
    BY <1>2 DEF TrackInv, CardSteady
  <1> QED BY <1>3, <1>4 DEF TrackInv

\* Steps that draw no draft and leave the row and the dialogue alone.
LEMMA SteadyStep ==
  ASSUME IInv', FoundInv, \A c \in Cards : CardSteady(c), TypeOK,
         inbound'.card = inbound.card, inbound'.pass = inbound.pass,
         inbound'.received = inbound.received, UNCHANGED <<texts, dialog, reset>>
  PROVE  FoundInv'
  <1>1. \A c \in Cards : TrackInv(c)'
    BY TrackKept DEF FoundInv
  <1>2. DraftInv'
    BY DEF FoundInv, DraftInv, CardSteady
  <1>3. RowInv'
    BY Fields DEF FoundInv, RowInv, CardSteady
  <1> QED BY <1>1, <1>2, <1>3 DEF FoundInv

LEMMA StatusSteady ==
  ASSUME TypeOK, NEW c \in Cards, NEW status \in CardStatuses \ {"none", "pending"},
         card' = [card EXCEPT ![c].status = status],
         status \in {"approved", "edited"} => card[c].status = "pending"
  PROVE  \A d \in Cards : CardSteady(d)
  <1>1. card[c] \in CardType
    BY CardFields
  <1>2. /\ card'[c].text = card[c].text /\ card'[c].pass = card[c].pass
        /\ card'[c].status = status
    BY <1>1 DEF TypeOK, CardType
  <1>3. CardSteady(c)
    BY <1>2 DEF CardSteady, Awaits
  <1>4. ASSUME NEW d \in Cards, d # c PROVE CardSteady(d)
    <2>1. card'[d] = card[d]
      BY <1>4 DEF TypeOK
    <2> QED BY <2>1, SameCardSteady
  <1> QED BY <1>3, <1>4

LEMMA ConfirmedSteady ==
  ASSUME TypeOK, NEW k \in Keys, card' = Confirmed(k)
  PROVE  \A d \in Cards : CardSteady(d)
  <1>1. CASE card' = card
    BY <1>1, SameCardSteady
  <1>2. CASE card' = [card EXCEPT ![k[1]].status = "sent"]
    <2>1. k[1] \in Cards
      BY KeyParts
    <2>2. "sent" \in CardStatuses \ {"none", "pending"}
      BY DEF CardStatuses
    <2> QED BY <1>2, <2>1, <2>2, StatusSteady
  <1> QED BY <1>1, <1>2 DEF Confirmed

LEMMA SendFound ==
  ASSUME IInv, IInv', FoundInv, NEW h \in Handlers, SendStep(h), ~EditSend(h)
  PROVE  FoundInv'
  <1>0. TypeOK /\ handler[h].key \in Keys
    BY HandlerFields DEF IInv
  <1>1. UNCHANGED <<inbound, texts, dialog, reset>>
    BY DEF SendStep, Approve, ApproveAgain, Claim, ClaimRefused, CallReaches, CallFails, Finalize,
       FinalizeRefused, FinalizeCommitFails, MarkUnknownAfterCommitFailure, Crash, SendOnly
  <1>2. ASSUME UNCHANGED card PROVE \A c \in Cards : CardSteady(c)
    BY <1>2, SameCardSteady
  <1>3. ASSUME NEW c \in Cards, Approve(h, c) PROVE \A d \in Cards : CardSteady(d)
    <2>1. "approved" \in CardStatuses \ {"none", "pending"}
      BY DEF CardStatuses
    <2> QED BY <1>0, <1>3, <2>1, StatusSteady DEF Approve, Pressable
  <1>4. ASSUME Finalize(h) \/ FinalizeCommitFails(h) PROVE \A d \in Cards : CardSteady(d)
    <2>1. card' = Confirmed(handler[h].key) \/ UNCHANGED card
      BY <1>4 DEF Finalize, FinalizeCommitFails
    <2> QED BY <1>0, <1>2, <2>1, ConfirmedSteady
  <1>5. ASSUME \/ \E c \in Cards : ApproveAgain(h, c)
               \/ Claim(h) \/ ClaimRefused(h) \/ CallReaches(h) \/ CallFails(h)
               \/ FinalizeRefused(h) \/ MarkUnknownAfterCommitFailure(h) \/ Crash(h)
        PROVE  UNCHANGED card
    BY <1>5 DEF ApproveAgain, Claim, ClaimRefused, CallReaches, CallFails, FinalizeRefused,
       MarkUnknownAfterCommitFailure, Crash
  <1>6. \A c \in Cards : CardSteady(c)
    BY <1>2, <1>3, <1>4, <1>5 DEF SendStep
  <1> QED BY <1>0, <1>1, <1>6, SteadyStep

\* An edit sends the reviewed draft: new for the card, and for those it replaced.
LEMMA EditSendFound ==
  ASSUME IInv, IInv', FoundInv, NEW h \in Handlers, EditSend(h)
  PROVE  FoundInv'
  <1>a. TypeOK /\ dialog.card \in Cards
    BY DEF IInv, TypeOK
  <1>b. PICK c \in Cards : c = dialog.card
    BY <1>a
  <1>0. TypeOK /\ c \in Cards /\ card[c] \in CardType
    BY <1>a, CardFields
  <1>1. /\ UNCHANGED <<inbound, texts, reset>> /\ dialog' = NoDialog
        /\ dialog.pc = "reviewing" /\ card[c].status = "pending"
        /\ card' = [card EXCEPT ![c].text = dialog.text, ![c].status = "edited", ![c].face = "preview"]
    BY <1>b DEF EditSend, Pressable
  <1>2. /\ card'[c].status = "edited" /\ card'[c].text = dialog.text /\ card'[c].pass = card[c].pass
        /\ \A d \in Cards : d # c => card'[d] = card[d]
    BY <1>0, <1>1 DEF TypeOK, CardType
  <1>3. \A d \in Cards : d # c => CardSteady(d)
    BY <1>2, SameCardSteady
  <1>4. \A d \in Cards : card[d].status = "superseded" => CardSteady(d)
    BY <1>1, <1>3
  <1>5. ASSUME NEW d \in Cards PROVE TrackInv(d)'
    <2>1. CASE d # c
      BY <1>1, <1>3, <1>4, <2>1, TrackKept DEF FoundInv
    <2>2. CASE d = c
      <3>1. TrackInv(c) /\ Awaits(c) /\ Awaits(c)'
        BY <1>0, <1>1, <1>2 DEF FoundInv, Awaits
      <3>2. ASSUME NEW e \in Predecessors(c)
            PROVE  e \in Predecessors(c)' /\ card'[e].text # card'[c].text
        <4>1. e \in Cards /\ CardSteady(e)
          BY <1>4 DEF Predecessors
        <4>2. e \in Predecessors(c)' /\ card'[e].text = card[e].text
          BY <1>0, <1>2, <3>1, <4>1, PredecessorsKept
        <4>3. card[e].text # dialog.text
          BY <1>1, <4>1 DEF FoundInv, DraftInv
        <4> QED BY <1>2, <4>2, <4>3
      <3> QED BY <1>1, <1>2, <2>2, <3>1, <3>2 DEF TrackInv
    <2> QED BY <2>1, <2>2
  <1>6. DraftInv'
    <2>1. dialog'.text = 0 /\ dialog'.pc = "none" /\ texts \in Nat /\ texts' = texts
      BY <1>0, <1>1, TextsAreNumbers DEF NoDialog
    <2>2. dialog'.text <= texts' /\ dialog'.pc # "reviewing"
      BY <2>1
    <2>3. ASSUME NEW d \in Cards PROVE card'[d].text <= texts'
      <3>1. card'[d].text = card[d].text \/ card'[d].text = dialog.text
        BY <1>2
      <3>2. card[d].text <= texts /\ dialog.text <= texts
        BY DEF FoundInv, DraftInv
      <3> QED BY <2>1, <3>1, <3>2
    <2> QED BY <2>2, <2>3 DEF DraftInv
  <1>7. RowInv'
    BY <1>0, <1>1, <1>2, Fields DEF FoundInv, RowInv
  <1> QED BY <1>5, <1>6, <1>7 DEF FoundInv

\* The dialogue, and the read of a reprocess, change no card.
LEMMA DialogFound ==
  ASSUME IInv, IInv', FoundInv,
         Instruct \/ EditMore \/ EditCancel \/ ReprocessRead \/ \E c \in Cards : EditStart(c)
  PROVE  FoundInv'
  <1>0. TypeOK /\ texts \in Nat /\ dialog.text \in Nat /\ \A c \in Cards : card[c].text \in Nat
    <2>1. TypeOK
      BY DEF IInv
    <2> QED BY <2>1, TextsAreNumbers
  <1>1. UNCHANGED <<inbound, card>>
    BY DEF Instruct, EditMore, EditCancel, EditStart, DialogOnly, ReprocessRead, ToolsOnly
  <1>2. \A c \in Cards : CardSteady(c)
    BY <1>1, SameCardSteady
  <1>3. \A c \in Cards : TrackInv(c)'
    BY <1>1, <1>2, TrackKept DEF FoundInv
  <1>4. DraftInv'
    <2>1. CASE Instruct
      <3>1. texts' = texts + 1 /\ dialog'.text = texts + 1
        BY <1>0, <2>1 DEF Instruct, TypeOK
      <3> QED BY <1>0, <1>1, <3>1 DEF FoundInv, DraftInv
    <2>2. CASE EditMore
      <3>1. dialog'.text = dialog.text /\ dialog'.pc = "asking" /\ texts' = texts
        BY <1>0, <2>2 DEF EditMore, TypeOK
      <3> QED BY <1>1, <3>1 DEF FoundInv, DraftInv
    <2>3. CASE EditCancel
      <3>1. dialog'.text = 0 /\ dialog'.pc = "none" /\ texts' = texts
        BY <2>3 DEF EditCancel, NoDialog
      <3> QED BY <1>0, <1>1, <3>1 DEF FoundInv, DraftInv
    <2>4. CASE ReprocessRead
      BY <1>1, <2>4 DEF ReprocessRead, ToolsOnly, FoundInv, DraftInv
    <2>5. ASSUME NEW c \in Cards, EditStart(c) PROVE DraftInv'
      <3>1. dialog'.text = card[c].text /\ dialog'.pc = "asking" /\ texts' = texts
        BY <2>5 DEF EditStart
      <3> QED BY <1>1, <3>1 DEF FoundInv, DraftInv
    <2> QED BY <2>1, <2>2, <2>3, <2>4, <2>5
  <1>5. RowInv'
    <2>1. CASE ReprocessRead
      BY <1>1, <2>1 DEF ReprocessRead, FoundInv, RowInv
    <2>2. CASE UNCHANGED reset
      BY <1>1, <2>2 DEF FoundInv, RowInv
    <2> QED BY <2>1, <2>2 DEF Instruct, EditMore, EditCancel, EditStart, DialogOnly
  <1> QED BY <1>3, <1>4, <1>5 DEF FoundInv

LEMMA PresentFound == ASSUME IInv, IInv', FoundInv, NEW c \in Cards, Present(c) PROVE FoundInv'
  <1> DEFINE text == IF inbound.order = 0 THEN 0 ELSE texts + 1
  <1>0. TypeOK /\ texts \in Nat /\ dialog.text \in Nat /\ \A e \in Cards : card[e].text \in Nat
    <2>1. TypeOK
      BY DEF IInv
    <2> QED BY <2>1, TextsAreNumbers
  <1>1. /\ inbound.received /\ reset.pc = "idle" /\ card[c].status = "none"
        /\ texts' = (IF inbound.order = 0 THEN texts ELSE texts + 1)
        /\ card' = [card EXCEPT ![c] = NewCard(text, inbound.order, inbound.pass)]
        /\ inbound' = [inbound EXCEPT !.received = FALSE, !.card = c]
        /\ UNCHANGED <<dialog, reset>>
    BY <1>0 DEF Present, IsNextCard
  <1>2. inbound'.card = c /\ inbound'.pass = inbound.pass /\ ~inbound'.received /\ inbound.card = 0
    BY <1>0, <1>1 DEF TypeOK, FoundInv, RowInv
  <1>3. card'[c].text = text /\ \A d \in Cards : d # c => card'[d] = card[d]
    BY <1>0, <1>1 DEF TypeOK, NewCard
  <1>4. \A d \in Cards : d # c => CardSteady(d)
    BY <1>3, SameCardSteady
  <1>5. \A d \in Cards : card[d].status = "superseded" => CardSteady(d)
    BY <1>1, <1>4
  <1>6. ASSUME NEW d \in Cards PROVE TrackInv(d)'
    <2>1. CASE d = c
      BY <1>2, <2>1 DEF TrackInv
    <2>2. CASE d # c
      <3>1. TrackInv(d) /\ inbound.card # d
        BY <1>2, Bounds DEF FoundInv
      <3> QED BY <1>2, <1>4, <1>5, <2>2, <3>1, TrackKept
    <2> QED BY <2>1, <2>2
  <1>7. DraftInv'
    BY <1>0, <1>1, <1>3 DEF FoundInv, DraftInv
  <1>8. RowInv'
    BY <1>1, <1>2 DEF RowInv
  <1> QED BY <1>6, <1>7, <1>8 DEF FoundInv

\* The card d takes the place of the card c, which awaited its end.
LEMMA SucceedsFound ==
  ASSUME IInv, IInv', FoundInv, NEW c \in Cards, NEW d \in Cards, Succeeds(c, d),
         Awaits(c), card[d].status = "none", inbound'.pass = inbound.pass,
         \A e \in Cards \ {c, d} : inbound.card = e => inbound'.card = e,
         \/ inbound.card = c /\ inbound'.card = d /\ card'[d].text = card[c].text
         \/ inbound.card # c /\ card'[d].text = card[c].text
         \/ card'[d].text # card[c].text
  PROVE  \A e \in Cards : TrackInv(e)'
  <1>1. \A e \in Cards \ {c, d} : CardSteady(e)
    BY SameCardSteady DEF Succeeds
  <1>2. \A e \in Cards : card[e].status = "superseded" => e \in Cards \ {c, d} /\ CardSteady(e)
    BY <1>1 DEF Awaits
  <1>3. \A e \in Cards \ {c, d} : TrackInv(e)'
    BY <1>1, <1>2, TrackKept DEF FoundInv
  <1>4. TrackInv(c)'
    BY DEF TrackInv, Awaits, Succeeds
  <1>5. c \in Predecessors(d)' /\ card'[c].text = card[c].text /\ card'[d].pass = card[c].pass
    BY DEF Predecessors, Succeeds
  <1>6. \A e \in Predecessors(c) : e \in Predecessors(d)' /\ card'[e].text = card[e].text
    <2> SUFFICES ASSUME NEW e \in Predecessors(c)
                 PROVE  e \in Predecessors(d)' /\ card'[e].text = card[e].text
      OBVIOUS
    <2>1. e \in Cards /\ card[e].status = "superseded" /\ card[e].pass = card[c].pass
      BY DEF Predecessors
    <2>2. card'[e] = card[e]
      BY <1>2, <2>1 DEF Succeeds
    <2> QED BY <1>5, <2>1, <2>2 DEF Predecessors
  <1>7. TrackInv(d)'
    <2>1. TrackInv(c)
      BY DEF FoundInv
    <2>2. \/ inbound'.card = d
          \/ \E e \in Predecessors(d)' : card'[e].text # card'[d].text
          \/ card'[d].pass < inbound'.pass
      BY <1>5, <1>6, <2>1 DEF TrackInv
    <2> QED BY <1>5, <2>2 DEF TrackInv
  <1> QED BY <1>3, <1>4, <1>7

LEMMA ReissueFound ==
  ASSUME IInv, IInv', FoundInv, NEW c \in Cards, NEW d \in Cards, Reissue(c, d)
  PROVE  FoundInv'
  <1>0. TypeOK /\ ToolInv /\ card[c] \in CardType /\ c # d
    BY CardFields DEF IInv, Reissue, IsNextCard
  <1>1. /\ Awaits(c) /\ card[d].status = "none" /\ UNCHANGED <<texts, dialog, reset>>
        /\ inbound.card = c => reset.pc = "idle"
        /\ card' = [card EXCEPT ![c].status = "superseded",
                                ![d] = NewCard(card[c].text, card[c].order, card[c].pass)]
        /\ inbound' = [inbound EXCEPT !.card = IF inbound.card = c THEN d ELSE inbound.card]
    BY DEF Reissue, IsNextCard, Awaits, ToolsOnly
  <1>2. Succeeds(c, d) /\ card'[d].text = card[c].text
    BY <1>0, <1>1 DEF Succeeds, NewCard, TypeOK, CardType
  <1>3. /\ inbound'.card = (IF inbound.card = c THEN d ELSE inbound.card)
        /\ inbound'.pass = inbound.pass /\ inbound'.received = inbound.received
    BY <1>0, <1>1 DEF TypeOK
  <1>4. \A e \in Cards : TrackInv(e)'
    BY <1>1, <1>2, <1>3, SucceedsFound
  <1>5. DraftInv'
    BY <1>0, <1>1, <1>2 DEF FoundInv, DraftInv, Succeeds
  <1>6. RowInv'
    <2>1. CASE inbound.card = c
      BY <1>1, <1>3, <2>1, Bounds DEF FoundInv, RowInv
    <2>2. CASE inbound.card # c
      <3>1. inbound.card # 0 => inbound.card \in Cards \ {c, d} /\ card'[inbound.card] = card[inbound.card]
        BY <1>0, <1>1, <1>2, <2>2, Fields DEF ToolInv, Succeeds
      <3> QED BY <1>1, <1>3, <2>2, <3>1 DEF FoundInv, RowInv
    <2> QED BY <2>1, <2>2
  <1> QED BY <1>4, <1>5, <1>6 DEF FoundInv

LEMMA RefreshFound ==
  ASSUME IInv, IInv', FoundInv, NEW d \in Cards, RefreshCommit(d)
  PROVE  FoundInv'
  <1>a. refresh.card \in Cards
    BY DEF IInv, TypeOK
  <1>b. PICK c \in Cards : c = refresh.card
    BY <1>a
  <1>0. TypeOK /\ ToolInv /\ c \in Cards /\ card[c] \in CardType
        /\ texts \in Nat /\ dialog.text \in Nat /\ \A e \in Cards : card[e].text \in Nat
    <2>1. TypeOK /\ ToolInv
      BY DEF IInv
    <2> QED BY <2>1, CardFields, TextsAreNumbers
  <1>1. /\ card[c].status = "pending" /\ card[d].status = "none"
        /\ texts' = texts + 1 /\ UNCHANGED <<inbound, dialog, reset>>
        /\ card' = [card EXCEPT ![c].status = "superseded",
                                ![d] = NewCard(texts + 1, card[c].order, card[c].pass)]
    BY <1>0, <1>b DEF RefreshCommit, RefreshAllowed, IsNextCard, ToolInv, ToolsOnly
  <1>2. Succeeds(c, d) /\ card'[d].text = texts + 1
    BY <1>0, <1>1 DEF Succeeds, NewCard, TypeOK, CardType
  <1>3. card'[d].text # card[c].text
    BY <1>0, <1>2 DEF FoundInv, DraftInv
  <1>4. \A e \in Cards : TrackInv(e)'
    BY <1>0, <1>1, <1>2, <1>3, SucceedsFound DEF Awaits
  <1>5. DraftInv'
    <2>1. ASSUME NEW e \in Cards PROVE card'[e].text = card[e].text \/ card'[e].text = texts + 1
      BY <1>2 DEF Succeeds
    <2>2. dialog.text <= texts /\ \A e \in Cards : card[e].text <= texts
      BY DEF FoundInv, DraftInv
    <2>a. texts' = texts + 1 /\ dialog' = dialog /\ texts \in Nat /\ dialog.text \in Nat
      BY <1>0, <1>1
    <2>3. dialog'.text <= texts'
      BY <2>a, <2>2
    <2>4. ASSUME NEW e \in Cards PROVE card'[e].text <= texts'
      <3>1. card[e].text \in Nat
        BY <1>0
      <3> QED BY <2>a, <2>1, <2>2, <3>1
    <2>5. ASSUME dialog'.pc = "reviewing", NEW e \in Cards
          PROVE  dialog'.text # 0 /\ card'[e].text # dialog'.text
      <3>1. dialog.text # 0 /\ card[e].text # dialog.text
        BY <2>a, <2>5 DEF FoundInv, DraftInv
      <3>2. texts + 1 # dialog.text
        BY <2>a, <2>2
      <3> QED BY <2>a, <2>1, <3>1, <3>2
    <2>6. dialog'.pc = "reviewing" => dialog'.text # 0
      BY <1>0, <2>5
    <2> QED BY <2>3, <2>4, <2>5, <2>6 DEF DraftInv
  <1>6. RowInv'
    <2>1. inbound.card # 0 => inbound.card \in Cards \ {d}
      BY <1>0, <1>1, Fields DEF ToolInv
    <2>2. inbound.card # 0 => \/ card'[inbound.card].status = "superseded"
                              \/ card'[inbound.card] = card[inbound.card]
      BY <1>2, <2>1 DEF Succeeds
    <2> QED BY <1>1, <2>2 DEF FoundInv, RowInv
  <1> QED BY <1>4, <1>5, <1>6 DEF FoundInv

LEMMA ReprocessFound == ASSUME IInv, IInv', FoundInv, ReprocessWrite PROVE FoundInv'
  <1>a. PICK x : x = inbound.card
    OBVIOUS
  <1>0. TypeOK /\ x \in Cards \cup {0} /\ inbound.pass \in Nat /\ (x \notin Cards => x = 0)
    <2>1. TypeOK
      BY DEF IInv
    <2> QED BY <1>a, <2>1, Fields
  <1>1. /\ reset.pc = "writing" /\ UNCHANGED <<texts, dialog>> /\ reset' = NoReset
        /\ card' = (IF reset.pending THEN [card EXCEPT ![x].status = "superseded"] ELSE card)
        /\ inbound'.card = 0 /\ inbound'.pass = inbound.pass + 1
    BY <1>0, <1>a DEF ReprocessWrite, ToolsOnly, TypeOK
  <1>2. \A c \in Cards : CardSteady(c)
    <2>1. CASE UNCHANGED card
      BY <2>1, SameCardSteady
    <2>2. CASE x \in Cards /\ card' = [card EXCEPT ![x].status = "superseded"]
      <3>1. "superseded" \in CardStatuses \ {"none", "pending"}
        BY DEF CardStatuses
      <3> QED BY <1>0, <2>2, <3>1, StatusSteady
    <2>3. CASE x \notin Cards
      <3>1. \A c \in Cards : card'[c] = card[c]
        BY <1>0, <1>1, <2>3 DEF TypeOK
      <3> QED BY <3>1, SameCardSteady
    <2> QED BY <1>1, <2>1, <2>2, <2>3
  <1>3. ASSUME NEW c \in Cards PROVE TrackInv(c)'
    <2> SUFFICES ASSUME Awaits(c)' PROVE TrackInv(c)'
      BY DEF TrackInv, Awaits
    <2>1. Awaits(c) /\ TrackInv(c) /\ CardInv(c) /\ card'[c].pass = card[c].pass /\ card[c].pass \in Nat
      BY <1>0, <1>2, CardFields DEF CardSteady, FoundInv, IInv
    <2>2. card'[c].pass < inbound'.pass
      BY <1>0, <1>1, <2>1 DEF CardInv, Awaits
    <2>3. \A d \in Predecessors(c) : d \in Predecessors(c)'
      <3> SUFFICES ASSUME NEW d \in Predecessors(c) PROVE d \in Predecessors(c)'
        OBVIOUS
      <3>1. CardSteady(d)
        BY <1>2 DEF Predecessors
      <3> QED BY <2>1, <3>1, PredecessorsKept
    <2>4. card'[c].status = "pending" => x # c
      <3> SUFFICES ASSUME card'[c].status = "pending", x = c PROVE FALSE
        OBVIOUS
      <3>1. card[c].status = "pending" /\ c # 0
        BY <1>2, Bounds DEF CardSteady
      <3>2. reset.pending
        BY <1>a, <1>1, <3>1 DEF FoundInv, RowInv
      <3>3. card[c] \in CardType
        BY <1>0, CardFields
      <3> QED BY <1>0, <1>1, <3>2, <3>3 DEF TypeOK, CardType
    <2>5. card'[c].status = "pending" => Predecessors(c)' # {}
      BY <1>a, <1>2, <2>1, <2>3, <2>4 DEF TrackInv, CardSteady
    <2> QED BY <2>2, <2>5 DEF TrackInv
  <1>4. DraftInv'
    BY <1>1, <1>2 DEF FoundInv, DraftInv, CardSteady
  <1>5. RowInv'
    BY <1>1 DEF RowInv
  <1> QED BY <1>3, <1>4, <1>5 DEF FoundInv

LEMMA OtherFound ==
  ASSUME IInv, IInv', FoundInv,
         \/ \E c \in Cards : Delivered(c) \/ Skip(c) \/ RefreshRead(c)
         \/ \E k \in Keys : KeyStep(k)
         \/ Bind \/ RefreshEnds \/ UNCHANGED vars
  PROVE  FoundInv'
  <1>0. TypeOK
    BY DEF IInv
  <1>1. /\ inbound'.card = inbound.card /\ inbound'.pass = inbound.pass
        /\ inbound'.received = inbound.received /\ UNCHANGED <<texts, dialog, reset>>
    BY <1>0 DEF Delivered, Skip, RefreshRead, KeyStep, Reconcile, MarkInconclusive, SendOnly,
       Bind, RefreshEnds, ToolsOnly, vars, TypeOK
  <1>2. ASSUME UNCHANGED card PROVE \A c \in Cards : CardSteady(c)
    BY <1>2, SameCardSteady
  <1>3. ASSUME NEW c \in Cards, Delivered(c) PROVE \A d \in Cards : CardSteady(d)
    <2>1. card[c] \in CardType
      BY <1>0, CardFields
    <2>2. /\ card'[c].status = card[c].status /\ card'[c].text = card[c].text
          /\ card'[c].pass = card[c].pass /\ \A d \in Cards : d # c => card'[d] = card[d]
      BY <1>0, <1>3, <2>1 DEF Delivered, TypeOK, CardType
    <2> QED BY <1>3, <2>2 DEF CardSteady, Awaits, Delivered
  <1>4. ASSUME NEW c \in Cards, Skip(c) PROVE \A d \in Cards : CardSteady(d)
    <2>1. "skipped" \in CardStatuses \ {"none", "pending"}
      BY DEF CardStatuses
    <2> QED BY <1>0, <1>4, <2>1, StatusSteady DEF Skip
  <1>5. ASSUME NEW k \in Keys, KeyStep(k) PROVE \A d \in Cards : CardSteady(d)
    BY <1>0, <1>2, <1>5, ConfirmedSteady DEF KeyStep, Reconcile, MarkInconclusive
  <1>6. ASSUME Bind PROVE \A d \in Cards : CardSteady(d)
    <2>a. PICK c : c = inbound.card
      OBVIOUS
    <2>1. UNCHANGED card \/ (c \in Cards /\ card' = [card EXCEPT ![c].order = 2])
      BY <1>0, <1>6, <2>a, Fields DEF Bind
    <2>2. CASE c \in Cards /\ card' = [card EXCEPT ![c].order = 2]
      <3>1. card[c] \in CardType
        BY <1>0, <2>2, CardFields
      <3>2. /\ card'[c].status = card[c].status /\ card'[c].text = card[c].text
            /\ card'[c].pass = card[c].pass /\ \A d \in Cards : d # c => card'[d] = card[d]
        BY <1>0, <2>2, <3>1 DEF TypeOK, CardType
      <3>3. CardSteady(c)
        BY <3>2 DEF CardSteady, Awaits
      <3> QED BY <3>2, <3>3, SameCardSteady
    <2> QED BY <1>2, <2>1, <2>2
  <1>7. (\E c \in Cards : RefreshRead(c)) \/ RefreshEnds \/ UNCHANGED vars => UNCHANGED card
    BY DEF RefreshRead, RefreshEnds, vars
  <1>8. \A c \in Cards : CardSteady(c)
    BY <1>2, <1>3, <1>4, <1>5, <1>6, <1>7
  <1> QED BY <1>0, <1>1, <1>8, SteadyStep

LEMMA FoundNext == ASSUME IInv, IInv', FoundInv, [Next]_vars PROVE FoundInv'
  <1>1. ASSUME NEW c \in Cards, CardStep(c) PROVE FoundInv'
    BY <1>1, PresentFound, ReissueFound, RefreshFound, DialogFound, OtherFound DEF CardStep
  <1>2. ASSUME NEW h \in Handlers, SendStep(h) PROVE FoundInv'
    BY <1>2, SendFound, EditSendFound
  <1> QED BY <1>1, <1>2, DialogFound, ReprocessFound, OtherFound DEF Next

LEMMA FoundInit == ASSUME Init PROVE FoundInv
  <1>1. /\ \A c \in Cards : card[c] = NoCard
        /\ texts = 0 /\ dialog = NoDialog /\ reset = NoReset
    BY DEF Init
  <1>2. \A c \in Cards : TrackInv(c)
    BY <1>1 DEF TrackInv, Awaits, NoCard
  <1>3. DraftInv
    BY <1>1 DEF DraftInv, NoCard, NoDialog
  <1>4. RowInv
    BY <1>1 DEF RowInv, Init, NoReset
  <1> QED BY <1>2, <1>3, <1>4 DEF FoundInv

LEMMA FoundInductive == Spec => []FoundInv
  <1>1. IInv /\ IInv' /\ FoundInv /\ [Next]_vars => FoundInv'
    BY FoundNext
  <1>2. Init => FoundInv
    BY FoundInit
  <1> QED BY <1>1, <1>2, Inductive, PTL DEF Spec

\* Within a pass one card waits for a decision, and bind and reprocess find it by the
\* message's row, unless a refresh made it or it was issued anew after a reprocess
\* (reissue, refresh and reprocess, whatever they race with).
THEOREM OneCardIsOpen == Spec => []OneOpenCard
  <1>1. IInv /\ FoundInv => OneOpenCard
    <2> SUFFICES ASSUME IInv, FoundInv, NEW c \in Cards, card[c].status = "pending"
                 PROVE  /\ \A d \in Cards :
                              card[d].status = "pending" /\ card[d].pass = card[c].pass => d = c
                        /\ \/ inbound.card = c
                           \/ \E d \in Predecessors(c) : card[d].text # card[c].text
                           \/ card[c].pass < inbound.pass /\ Predecessors(c) # {}
      BY DEF OneOpenCard
    <2>1. \A d \in Cards : card[d].status = "pending" /\ card[d].pass = card[c].pass => d = c
      BY DEF IInv, OneStands, Stands
    <2>2. TrackInv(c) /\ Awaits(c)
      BY DEF FoundInv, Awaits
    <2> QED BY <2>1, <2>2 DEF TrackInv
  <1> QED BY <1>1, Inductive, FoundInductive, PTL

\* A card is shown as sent exactly when its delivery is confirmed, which the client did
\* receive (_apply_confirmed_send, reconciliation).
THEOREM SentIsConfirmed == Spec => []SentMeansConfirmed
  <1>1. IInv => SentMeansConfirmed
    <2> SUFFICES ASSUME IInv, NEW c \in Cards
                 PROVE  LET confirmed == \E t \in Texts : attempts[<<c, t>>].status = "confirmed_sent"
                        IN /\ card[c].status = "sent" => confirmed
                           /\ confirmed => card[c].status \in {"sent", "superseded"}
                           /\ \A t \in Texts : attempts[<<c, t>>].status = "confirmed_sent"
                                => <<c, t>> \in reached
      BY DEF SentMeansConfirmed
    <2>1. CardInv(c) /\ \A t \in Texts : <<c, t>> \in Keys /\ <<c, t>>[1] = c /\ KeyInv(<<c, t>>)
      BY DEF IInv, Keys
    <2> QED BY <2>1 DEF CardInv, KeyInv
  <1> QED BY <1>1, Inductive, PTL

\* Each pass goes only the ways ReplyPromise allows: no delivery begins while one is open,
\* in doubt or done, whichever card of the pass it is on (_claim_locked, reconciliation,
\* reissue, refresh and reprocess).
THEOREM ImplementsReplyPromise == Spec => KeepsPromise
  <1>1. IInv /\ IInv' /\ ReachedInv /\ [Next]_vars => [Promise!Next]_(Promise!vars)
    BY NextKeepsPromise
  <1> QED BY <1>1, InitKeepsPromise, Inductive, ReachedIsCounted, PTL
          DEF Spec, KeepsPromise, Promise!Spec

\* Only a claim begins a delivery, and it does so for its own key.
LEMMA OnlyClaimSends ==
  ASSUME TypeOK, [Next]_vars, NEW k \in Keys,
         attempts[k].status # "sending", attempts'[k].status = "sending"
  PROVE  \E h \in Handlers : Claim(h) /\ handler[h].key = k
  <1> SUFFICES ASSUME \A h \in Handlers : ~(Claim(h) /\ handler[h].key = k) PROVE FALSE
    OBVIOUS
  <1>0. attempts[k] \in AttemptType /\ attempts # attempts'
    BY Fields
  <1>1. ASSUME NEW j \in Keys, NEW status \in AttemptStatuses \ {"sending"},
               attempts' = Closed(j, status)
        PROVE  FALSE
    BY <1>1, ClosedKeys
  <1>2. ASSUME NEW h \in Handlers, SendStep(h) PROVE FALSE
    <2> DEFINE j == handler[h].key
    <2>0. j \in Keys
      BY HandlerFields
    <2>1. CASE Claim(h)
      <3>1. j # k
        BY <2>1
      <3> QED BY <2>0, <2>1, <3>1 DEF Claim, TypeOK
    <2>2. CASE ClaimRefused(h)
      <3>1. \/ \E S : attempts' = Expired(S)
            \/ attempts' = [attempts EXCEPT ![j].status = "needs_attention"]
        BY <1>0, <2>2 DEF ClaimRefused
      <3>2. CASE \E S : attempts' = Expired(S)
        BY <1>0, <3>2 DEF Expired, AttemptType
      <3>3. CASE attempts' = [attempts EXCEPT ![j].status = "needs_attention"]
        <4>1. \A i \in Keys : i # j => attempts'[i] = attempts[i]
          BY <3>3 DEF TypeOK
        <4>2. attempts[j] \in AttemptType
          BY <2>0, Fields
        <4>3. attempts'[j].status = "needs_attention"
          BY <2>0, <3>3, <4>2 DEF AttemptType, TypeOK
        <4> QED BY <4>1, <4>3
      <3> QED BY <3>1, <3>2, <3>3
    <2>3. CASE Finalize(h)
      BY <1>1, <2>0, <2>3 DEF Finalize, AttemptStatuses
    <2>4. CASE FinalizeCommitFails(h)
      BY <1>0, <1>1, <2>0, <2>4 DEF FinalizeCommitFails, AttemptStatuses
    <2>5. CASE MarkUnknownAfterCommitFailure(h)
      BY <1>0, <1>1, <2>0, <2>5 DEF MarkUnknownAfterCommitFailure, AttemptStatuses
    <2>6. CASE \/ \E c \in Cards : Approve(h, c) \/ ApproveAgain(h, c)
               \/ EditSend(h) \/ CallReaches(h) \/ CallFails(h) \/ FinalizeRefused(h) \/ Crash(h)
      BY <1>0, <2>6 DEF Approve, ApproveAgain, EditSend, CallReaches, CallFails, FinalizeRefused, Crash
    <2> QED BY <1>2, <2>1, <2>2, <2>3, <2>4, <2>5, <2>6 DEF SendStep
  <1>3. ASSUME NEW c \in Cards, CardStep(c) PROVE FALSE
    BY <1>0, <1>3 DEF CardStep, Present, Delivered, Skip, EditStart, DialogOnly, RefreshRead,
       RefreshCommit, Reissue, ToolsOnly
  <1>4. ASSUME NEW j \in Keys, KeyStep(j) PROVE FALSE
    BY <1>1, <1>4 DEF KeyStep, Reconcile, MarkInconclusive, AttemptStatuses
  <1>5. CASE Instruct \/ EditMore \/ EditCancel \/ RefreshEnds \/ Bind \/ ReprocessRead \/ ReprocessWrite
    BY <1>0, <1>5 DEF Instruct, EditMore, EditCancel, DialogOnly, RefreshEnds, Bind, ReprocessRead,
       ReprocessWrite, ToolsOnly
  <1>6. CASE UNCHANGED vars
    BY <1>0, <1>6 DEF vars
  <1> QED BY <1>2, <1>3, <1>4, <1>5, <1>6 DEF Next

\* A delivery starts only for what the operator approved as a whole: that text, for that
\* order (prepare_inbox_reply_send, matching_inbox_approval).
THEOREM OnlyApprovedIsSent == Spec => ClaimedAsApproved
  <1>1. ASSUME TypeOK, [Next]_vars, NEW k \in Keys,
               attempts[k].status # "sending", attempts'[k].status = "sending"
        PROVE  \E a \in approvals : a.card = k[1] /\ a.text = k[2] /\ a.order = card[k[1]].order
    <2>1. PICK h \in Handlers : Claim(h) /\ handler[h].key = k
      BY <1>1, OnlyClaimSends
    <2>2. Payload(k[1]) \in approvals /\ card[k[1]].text = k[2]
      BY <2>1 DEF Claim, MaySend, MatchingApproval
    <2> QED BY <2>2 DEF Payload
  <1>2. TypeOK /\ [Next]_vars
        => [\A k \in Keys : attempts[k].status # "sending" /\ attempts'[k].status = "sending"
              => \E a \in approvals : /\ a.card = k[1] /\ a.text = k[2]
                                      /\ a.order = card[k[1]].order]_vars
    BY <1>1
  <1>3. Spec => [][\A k \in Keys : attempts[k].status # "sending" /\ attempts'[k].status = "sending"
              => \E a \in approvals : /\ a.card = k[1] /\ a.text = k[2]
                                      /\ a.order = card[k[1]].order]_vars
    BY <1>2, ReplyTypes, PTL DEF Spec
  <1> QED BY <1>3 DEF ClaimedAsApproved
=============================================================================
