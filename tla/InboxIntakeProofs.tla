-------------------------- MODULE InboxIntakeProofs --------------------------
(***************************************************************************)
(* The theorems of InboxIntake, for any messages, pollers and bounds.       *)
(***************************************************************************)
EXTENDS InboxIntake, FiniteSetTheorems, TLAPS

-----------------------------------------------------------------------------
(* Types *)

LEMMA Fields ==
  ASSUME TypeOK
  PROVE  /\ MaxAttempts \in Nat /\ MaxAttempts > 0 /\ MaxPasses \in Nat /\ MaxRevisions \in Nat
         /\ \A m \in Messages : inbound[m] \in InboundType /\ revision[m] \in 0..MaxRevisions
                                /\ pass[m] \in 0..MaxPasses
         /\ \A p \in Pollers : poller[p] \in PollerType
  BY IntakeAssumption DEF TypeOK

LEMMA NoRowType == NoRow \in InboundType
  BY IntakeAssumption DEF NoRow, InboundType, InboundStatus

LEMMA RestingType == Resting \in PollerType
  BY IntakeAssumption DEF Resting, PollerType, Steps

LEMMA InitTypeOK == Init => TypeOK
  <1> SUFFICES ASSUME Init PROVE TypeOK
    OBVIOUS
  <1>1. 0 \in 0..MaxRevisions /\ 0 \in 0..MaxPasses /\ 0 \in 0..MaxCrashes
    BY IntakeAssumption
  <1>2. inbound \in [Messages -> InboundType] /\ poller \in [Pollers -> PollerType]
    BY NoRowType, RestingType DEF Init
  <1> QED BY <1>1, <1>2 DEF Init, TypeOK

LEMMA PollerSet ==
  ASSUME TypeOK, NEW p \in Pollers, NEW new \in PollerType, poller' = [poller EXCEPT ![p] = new]
  PROVE  poller' \in [Pollers -> PollerType]
  BY DEF TypeOK

LEMMA RowSet ==
  ASSUME TypeOK, NEW m, NEW new \in InboundType, inbound' = [inbound EXCEPT ![m] = new]
  PROVE  inbound' \in [Messages -> InboundType]
  BY DEF TypeOK

LEMMA ReleasedType ==
  ASSUME NEW row \in InboundType, NEW failed \in BOOLEAN
  PROVE  Released(row, failed) \in InboundType
  BY DEF Released, InboundType, InboundStatus

LEMMA WarnSets ==
  ASSUME TypeOK, NEW m, NEW row \in InboundType, Warn(m, row)
  PROVE  inbound' \in [Messages -> InboundType]
  <1>1. [row EXCEPT !.warned = TRUE] \in InboundType
    BY DEF InboundType
  <1> QED BY <1>1, RowSet DEF Warn

LEMMA NextMessageTypes ==
  ASSUME TypeOK, NEW p \in Pollers, NextMessage(p) PROVE poller' \in [Pollers -> PollerType]
  <1> DEFINE new == [poller[p] EXCEPT !.work = "choosing", !.msg = NoMessage,
                                      !.batch = @ \ {poller[p].msg}, !.context = 0, !.pass = 0]
  <1>1. poller[p] \in PollerType /\ 0 \in 0..MaxRevisions /\ 0 \in 0..MaxPasses
    BY Fields
  <1>2. new \in PollerType
    BY <1>1 DEF PollerType
  <1>3. poller' = [poller EXCEPT ![p] = new]
    BY <1>1 DEF NextMessage, PollerType, TypeOK
  <1> QED BY <1>2, <1>3, PollerSet

LEMMA MarkType == ASSUME TypeOK, unread' \in MarkAfterRead PROVE unread' \in BOOLEAN
  BY DEF MarkAfterRead, TypeOK

\* What a step of a tick keeps the types of.
LEMMA TickTypes ==
  ASSUME TypeOK, NEW p \in Pollers
  PROVE  /\ Tick(p) => TypeOK'
         /\ Fetch(p) => TypeOK'
         /\ FetchFails(p) => TypeOK'
         /\ Collected(p) => TypeOK'
         /\ Save(p) => TypeOK'
         /\ ResendDone(p) => TypeOK'
  <1>0. poller[p] \in PollerType /\ file \in [exists: BOOLEAN, seen: SUBSET Messages]
    BY Fields DEF TypeOK
  <1>1. ASSUME Tick(p) PROVE TypeOK'
    <2> DEFINE new == [poller[p] EXCEPT !.step = "retrying", !.first = ~file.exists,
                                        !.seen = file.seen, !.batch = {m \in Messages : Eligible(m)}]
    <2>1. new \in PollerType
      BY <1>0 DEF PollerType, Steps
    <2>2. poller' = [poller EXCEPT ![p] = new]
      BY <1>0, <1>1 DEF Tick, PollerType, TypeOK
    <2>3. poller' \in [Pollers -> PollerType]
      BY <2>1, <2>2, PollerSet
    <2> QED BY <1>1, <2>3 DEF Tick, StateSame, TypeOK
  <1>2. ASSUME Fetch(p) PROVE TypeOK'
    <2> DEFINE todo == IF unread THEN written ELSE {}
               new == [poller[p] EXCEPT !.step = "capturing", !.todo = todo]
    <2>1. new \in PollerType
      BY <1>0 DEF PollerType, Steps, written
    <2>2. poller' = [poller EXCEPT ![p] = new]
      BY <1>0, <1>2 DEF Fetch, PollerType, TypeOK
    <2>3. poller' \in [Pollers -> PollerType]
      BY <2>1, <2>2, PollerSet
    <2>4. unread' \in BOOLEAN
      BY <1>2, MarkType DEF Fetch
    <2> QED BY <1>2, <2>3, <2>4 DEF Fetch, TypeOK
  <1>3. ASSUME FetchFails(p) PROVE TypeOK'
    <2> DEFINE new == [poller[p] EXCEPT !.step = "capturing"]
    <2>1. new \in PollerType
      BY <1>0 DEF PollerType, Steps
    <2>2. poller' = [poller EXCEPT ![p] = new]
      BY <1>0, <1>3 DEF FetchFails, PollerType, TypeOK
    <2>3. poller' \in [Pollers -> PollerType]
      BY <2>1, <2>2, PollerSet
    <2> QED BY <1>3, <2>3 DEF FetchFails, StateSame, TypeOK
  <1>4. ASSUME Collected(p) PROVE TypeOK'
    <2> DEFINE new == [poller[p] EXCEPT !.step = "answering", !.first = FALSE]
    <2>1. new \in PollerType
      BY <1>0 DEF PollerType, Steps
    <2>2. poller' = [poller EXCEPT ![p] = new]
      BY <1>0, <1>4 DEF Collected, PollerType, TypeOK
    <2>3. poller' \in [Pollers -> PollerType]
      BY <2>1, <2>2, PollerSet
    <2> QED BY <1>4, <2>3 DEF Collected, StateSame, TypeOK
  <1>5. ASSUME Save(p) PROVE TypeOK'
    <2>1. poller' \in [Pollers -> PollerType]
      BY <1>5, RestingType, PollerSet DEF Save
    <2>2. file' \in [exists: BOOLEAN, seen: SUBSET Messages]
      BY <1>0, <1>5 DEF Save, PollerType
    <2> QED BY <1>5, <2>1, <2>2 DEF Save, TypeOK
  <1>6. ASSUME ResendDone(p) PROVE TypeOK'
    <2>1. poller' \in [Pollers -> PollerType]
      BY <1>6, RestingType, PollerSet DEF ResendDone
    <2> QED BY <1>6, <2>1 DEF ResendDone, StateSame, TypeOK
  <1> QED BY <1>1, <1>2, <1>3, <1>4, <1>5, <1>6

LEMMA CaptureTypes == ASSUME TypeOK, NEW p \in Pollers, NEW m \in Messages, Capture(p, m) PROVE TypeOK'
  <1>0. poller[p] \in PollerType /\ inbound[m] \in InboundType
    BY Fields
  <1>1. ASSUME NEW seen \in SUBSET Messages, NEW batch \in SUBSET Messages
        PROVE  [poller[p] EXCEPT !.todo = @ \ {m}, !.seen = seen, !.batch = batch] \in PollerType
    BY <1>0 DEF PollerType
  <1>2. poller[p].seen \in SUBSET Messages /\ poller[p].batch \in SUBSET Messages
        /\ poller[p].seen \cup {m} \in SUBSET Messages /\ poller[p].batch \cup {m} \in SUBSET Messages
    BY <1>0 DEF PollerType
  <1>3. CASE kind[m] = "unclear"
    <2> DEFINE new == [poller[p] EXCEPT !.todo = @ \ {m}, !.seen = poller[p].seen, !.batch = poller[p].batch]
    <2>1. poller' = [poller EXCEPT ![p] = new]
      BY <1>0, <1>3 DEF Capture, PollerType, TypeOK
    <2>2. poller' \in [Pollers -> PollerType]
      BY <1>1, <1>2, <2>1, PollerSet
    <2> QED BY <1>3, <2>2 DEF Capture, TypeOK
  <1>4. CASE kind[m] # "unclear" /\ (m \in Recorded \/ (kind[m] = "fallback" /\ m \in poller[p].seen))
    <2> DEFINE new == [poller[p] EXCEPT !.todo = @ \ {m}, !.seen = poller[p].seen \cup {m}, !.batch = poller[p].batch]
    <2>1. poller' = [poller EXCEPT ![p] = new]
      BY <1>0, <1>4 DEF Capture, PollerType, TypeOK
    <2>2. poller' \in [Pollers -> PollerType]
      BY <1>1, <1>2, <2>1, PollerSet
    <2> QED BY <1>4, <2>2 DEF Capture, TypeOK
  <1>5. CASE kind[m] # "unclear" /\ ~(m \in Recorded \/ (kind[m] = "fallback" /\ m \in poller[p].seen))
    <2> DEFINE keep == poller[p].first \/ kind[m] = "identified"
               seen == IF keep THEN poller[p].seen \cup {m} ELSE poller[p].seen
               batch == IF keep THEN poller[p].batch ELSE poller[p].batch \cup {m}
               new == [poller[p] EXCEPT !.todo = @ \ {m}, !.seen = seen, !.batch = batch]
               status == IF poller[p].first THEN "seeded" ELSE "received"
    <2>1. poller' = [poller EXCEPT ![p] = new]
      BY <1>0, <1>5 DEF Capture, PollerType, TypeOK
    <2>2. seen \in SUBSET Messages /\ batch \in SUBSET Messages
      BY <1>2
    <2>3. poller' \in [Pollers -> PollerType]
      BY <1>1, <2>1, <2>2, PollerSet
    <2>4. [inbound[m] EXCEPT !.status = status] \in InboundType
      BY <1>0 DEF InboundType, InboundStatus
    <2>5. inbound' = [inbound EXCEPT ![m] = [inbound[m] EXCEPT !.status = status]]
      BY <1>5 DEF Capture, TypeOK
    <2>6. inbound' \in [Messages -> InboundType]
      BY <2>4, <2>5, RowSet
    <2> QED BY <1>5, <2>3, <2>6 DEF Capture, TypeOK
  <1> QED BY <1>3, <1>4, <1>5

LEMMA AnswerTypes ==
  ASSUME TypeOK, NEW p \in Pollers
  PROVE  /\ \A m \in Messages : /\ Claim(p, m) => TypeOK'
                                /\ ClaimExhausted(p, m) => TypeOK'
                                /\ ClaimRefused(p, m) => TypeOK'
         /\ ReadContext(p) /\ poller[p].msg \in Messages => TypeOK'
         /\ ReadThread(p) => TypeOK'
         /\ GenerationFails(p) => TypeOK'
         /\ CommitReply(p) /\ poller[p].msg \in Messages => TypeOK'
         /\ ContextChanged(p) /\ poller[p].msg \in Messages => TypeOK'
         /\ ClaimLost(p) => TypeOK'
  <1>0. poller[p] \in PollerType /\ MaxAttempts \in Nat
    BY Fields
  <1>1. ASSUME NEW m \in Messages, Claim(p, m) PROVE TypeOK'
    <2> DEFINE row == [inbound[m] EXCEPT !.attempts = @ + 1, !.holder = p, !.live = TRUE]
               new == [poller[p] EXCEPT !.work = "reading", !.msg = m, !.pass = pass[m]]
    <2>0. inbound[m] \in InboundType /\ inbound[m].attempts < MaxAttempts /\ pass[m] \in 0..MaxPasses
      BY <1>1, Fields DEF Claim
    <2>1. inbound[m].attempts + 1 \in 0..MaxAttempts
      BY <1>0, <2>0 DEF InboundType
    <2>2. row \in InboundType
      BY <2>0, <2>1 DEF InboundType
    <2>3. inbound' = [inbound EXCEPT ![m] = row]
      BY <1>1, <2>0 DEF Claim, InboundType, TypeOK
    <2>4. new \in PollerType
      BY <1>0, <2>0 DEF PollerType
    <2>5. poller' = [poller EXCEPT ![p] = new]
      BY <1>0, <1>1 DEF Claim, PollerType, TypeOK
    <2>6. inbound' \in [Messages -> InboundType] /\ poller' \in [Pollers -> PollerType]
      BY <2>2, <2>3, <2>4, <2>5, RowSet, PollerSet
    <2> QED BY <1>1, <2>6 DEF Claim, Kept, TypeOK
  <1>2. ASSUME NEW m \in Messages, poller' = [poller EXCEPT ![p].batch = @ \ {m}]
        PROVE  poller' \in [Pollers -> PollerType]
    <2>1. [poller[p] EXCEPT !.batch = @ \ {m}] \in PollerType
      BY <1>0 DEF PollerType
    <2>2. poller' = [poller EXCEPT ![p] = [poller[p] EXCEPT !.batch = @ \ {m}]]
      BY <1>0, <1>2 DEF PollerType, TypeOK
    <2> QED BY <2>1, <2>2, PollerSet
  <1>3. ASSUME NEW m \in Messages, ClaimExhausted(p, m) PROVE TypeOK'
    <2>1. inbound' \in [Messages -> InboundType]
      BY <1>3, Fields, ReleasedType, WarnSets DEF ClaimExhausted
    <2>2. poller' \in [Pollers -> PollerType]
      BY <1>2, <1>3 DEF ClaimExhausted
    <2> QED BY <1>3, <2>1, <2>2 DEF ClaimExhausted, Kept, TypeOK
  <1>4. ASSUME NEW m \in Messages, ClaimRefused(p, m) PROVE TypeOK'
    <2>1. poller' \in [Pollers -> PollerType]
      BY <1>2, <1>4 DEF ClaimRefused
    <2> QED BY <1>4, <2>1 DEF ClaimRefused, Kept, TypeOK
  <1>5. ASSUME ReadContext(p), poller[p].msg \in Messages PROVE TypeOK'
    <2> DEFINE next == IF HasJob(poller[p].msg) /\ poller[p].step = "retrying"
                       THEN "fetching" ELSE "drafting"
               new == [poller[p] EXCEPT !.work = next, !.context = revision[poller[p].msg]]
    <2>1. new \in PollerType
      BY <1>0, <1>5, Fields DEF PollerType
    <2>2. CASE NextMessage(p)
      <3>1. poller' \in [Pollers -> PollerType]
        BY <2>2, NextMessageTypes
      <3> QED BY <1>5, <3>1 DEF ReadContext, Kept, TypeOK
    <2>3. CASE poller' = [poller EXCEPT ![p].work = next, ![p].context = revision[poller[p].msg]]
      <3>1. poller' = [poller EXCEPT ![p] = new]
        BY <1>0, <2>3 DEF PollerType, TypeOK
      <3>2. poller' \in [Pollers -> PollerType]
        BY <2>1, <3>1, PollerSet
      <3> QED BY <1>5, <3>2 DEF ReadContext, Kept, TypeOK
    <2> QED BY <1>5, <2>2, <2>3 DEF ReadContext
  <1>6. ASSUME GenerationFails(p) PROVE TypeOK'
    <2>1. poller' \in [Pollers -> PollerType]
      BY <1>6, NextMessageTypes DEF GenerationFails
    <2>2. inbound' \in [Messages -> InboundType]
      <3>1. CASE poller[p].msg \in Messages
        BY <1>6, <3>1, Fields, ReleasedType, WarnSets DEF GenerationFails, TypeOK
      <3>2. CASE poller[p].msg \notin Messages
        BY <1>6, <3>2 DEF GenerationFails, Warn, TypeOK
      <3> QED BY <3>1, <3>2
    <2> QED BY <1>6, <2>1, <2>2 DEF GenerationFails, Kept, TypeOK
  <1>7. ASSUME CommitReply(p), poller[p].msg \in Messages PROVE TypeOK'
    <2> DEFINE m == poller[p].msg
               row == [Released(inbound[m], FALSE) EXCEPT !.status = "processed", !.card = TRUE]
               seen == IF poller[p].step = "answering" THEN poller[p].seen \cup {m} ELSE poller[p].seen
               new == [poller[p] EXCEPT !.work = "choosing", !.msg = NoMessage, !.batch = @ \ {m},
                                        !.context = 0, !.pass = 0, !.seen = seen]
    <2>1. Released(inbound[m], FALSE) \in InboundType
      BY <1>7, Fields, ReleasedType
    <2>2. row \in InboundType
      BY <2>1 DEF InboundType, InboundStatus
    <2>3. inbound' \in [Messages -> InboundType]
      <3>1. inbound' = [inbound EXCEPT ![m] = row]
        BY <1>7 DEF CommitReply, TypeOK
      <3> QED BY <2>2, <3>1, RowSet
    <2>4. 0 \in 0..MaxRevisions /\ 0 \in 0..MaxPasses
      BY Fields
    <2>5. new \in PollerType
      BY <1>0, <1>7, <2>4 DEF PollerType
    <2>6. poller' = [poller EXCEPT ![p] = new]
      BY <1>0, <1>7 DEF CommitReply, PollerType, TypeOK
    <2>7. poller' \in [Pollers -> PollerType]
      BY <2>5, <2>6, PollerSet
    <2>8. drafted' \in [Messages -> 0..MaxPasses]
      BY <1>0, <1>7 DEF CommitReply, PollerType, TypeOK
    <2> QED BY <1>7, <2>3, <2>7, <2>8 DEF CommitReply, Kept, TypeOK
  <1>8. ASSUME ContextChanged(p), poller[p].msg \in Messages PROVE TypeOK'
    <2>1. poller' \in [Pollers -> PollerType]
      BY <1>8, NextMessageTypes DEF ContextChanged
    <2>2. Released(inbound[poller[p].msg], TRUE) \in InboundType
      BY <1>8, Fields, ReleasedType
    <2>3. inbound' \in [Messages -> InboundType]
      BY <1>8, <2>2 DEF ContextChanged, TypeOK
    <2> QED BY <1>8, <2>1, <2>3 DEF ContextChanged, Kept, TypeOK
  <1>9. ASSUME ClaimLost(p) PROVE TypeOK'
    <2>1. poller' \in [Pollers -> PollerType]
      BY <1>9, NextMessageTypes DEF ClaimLost
    <2> QED BY <1>9, <2>1 DEF ClaimLost, Kept, TypeOK
  <1>10. ASSUME ReadThread(p) PROVE TypeOK'
    <2>1. [poller[p] EXCEPT !.work = "drafting"] \in PollerType
      BY <1>0 DEF PollerType
    <2>2. poller' = [poller EXCEPT ![p] = [poller[p] EXCEPT !.work = "drafting"]]
      BY <1>0, <1>10 DEF ReadThread, PollerType, TypeOK
    <2>3. poller' \in [Pollers -> PollerType]
      BY <2>1, <2>2, PollerSet
    <2>4. unread' \in BOOLEAN
      BY <1>10, MarkType DEF ReadThread
    <2> QED BY <1>10, <2>3, <2>4 DEF ReadThread, TypeOK
  <1> QED BY <1>1, <1>3, <1>4, <1>5, <1>6, <1>7, <1>8, <1>9, <1>10

LEMMA OutsideTypes ==
  ASSUME TypeOK, NEW m \in Messages
  PROVE  /\ Bind(m) => TypeOK'
         /\ Reprocess(m) => TypeOK'
         /\ Requeue(m) => TypeOK'
         /\ Notified(m) => TypeOK'
         /\ RowsChange(m) => TypeOK'
         /\ ClientWrites(m) => TypeOK'
         /\ ReplySent(m) => TypeOK'
         /\ ThreadRead(m) => TypeOK'
         /\ LeaseElapses(m) => TypeOK'
         /\ BackoffElapses(m) => TypeOK'
         /\ \A p \in Pollers : ResendLast(p, m) => TypeOK'
  <1>0. inbound[m] \in InboundType /\ revision[m] \in 0..MaxRevisions /\ pass[m] \in 0..MaxPasses
        /\ MaxRevisions \in Nat /\ MaxPasses \in Nat /\ 0 \in 0..MaxAttempts
    BY Fields
  <1>1. ASSUME revision[m] < MaxRevisions, revision' = [revision EXCEPT ![m] = @ + 1]
        PROVE  revision' \in [Messages -> 0..MaxRevisions]
    <2>1. revision[m] + 1 \in 0..MaxRevisions
      BY <1>0, <1>1
    <2> QED BY <1>1, <2>1 DEF TypeOK
  <1>2. ASSUME pass[m] < MaxPasses, pass' = [pass EXCEPT ![m] = @ + 1]
        PROVE  pass' \in [Messages -> 0..MaxPasses]
    <2>1. pass[m] + 1 \in 0..MaxPasses
      BY <1>0, <1>2
    <2> QED BY <1>2, <2>1 DEF TypeOK
  <1>3. ASSUME Bind(m) PROVE TypeOK'
    <2>1. [inbound[m] EXCEPT !.bound = TRUE] \in InboundType
      BY <1>0 DEF InboundType
    <2>2. inbound' \in [Messages -> InboundType]
      BY <1>3, <2>1 DEF Bind, TypeOK
    <2>3. revision' \in [Messages -> 0..MaxRevisions]
      BY <1>1, <1>3 DEF Bind
    <2> QED BY <1>3, <2>2, <2>3 DEF Bind, WorldSame, TypeOK
  <1>4. ASSUME Reprocess(m) PROVE TypeOK'
    <2>1. [NoRow EXCEPT !.status = "received", !.bound = TRUE] \in InboundType
      BY NoRowType DEF InboundType, InboundStatus
    <2>2. inbound' \in [Messages -> InboundType]
      BY <1>4, <2>1, RowSet DEF Reprocess
    <2>3. pass' \in [Messages -> 0..MaxPasses]
      BY <1>2, <1>4 DEF Reprocess
    <2> QED BY <1>4, <2>2, <2>3 DEF Reprocess, WorldSame, TypeOK
  <1>5. ASSUME Requeue(m) PROVE TypeOK'
    <2> DEFINE new == [inbound[m] EXCEPT !.status = "received", !.attempts = 0, !.holder = Nobody,
                                         !.live = FALSE, !.backoff = FALSE]
    <2>1. new \in InboundType
      BY <1>0 DEF InboundType, InboundStatus
    <2>2. inbound' = [inbound EXCEPT ![m] = new]
      BY <1>5 DEF Requeue, TypeOK
    <2>3. inbound' \in [Messages -> InboundType]
      BY <2>1, <2>2, RowSet
    <2>4. pass' \in [Messages -> 0..MaxPasses]
      BY <1>2, <1>5 DEF Requeue
    <2> QED BY <1>5, <2>3, <2>4 DEF Requeue, WorldSame, TypeOK
  <1>6. ASSUME Notified(m) PROVE TypeOK'
    <2>1. [inbound[m] EXCEPT !.status = "notified"] \in InboundType
      BY <1>0 DEF InboundType, InboundStatus
    <2>2. inbound' \in [Messages -> InboundType]
      BY <1>6, <2>1 DEF Notified, TypeOK
    <2> QED BY <1>6, <2>2 DEF Notified, WorldSame, TypeOK
  <1>7. ASSUME RowsChange(m) PROVE TypeOK'
    <2>1. revision' \in [Messages -> 0..MaxRevisions]
      BY <1>1, <1>7 DEF RowsChange
    <2> QED BY <1>7, <2>1 DEF RowsChange, WorldSame, TypeOK
  <1>8. ASSUME ClientWrites(m) PROVE TypeOK'
    <2>1. kind' \in [Messages -> Kinds \cup {"unwritten"}]
      BY <1>8 DEF ClientWrites, TypeOK
    <2> QED BY <1>8, <2>1 DEF ClientWrites, TypeOK
  <1>9. ASSUME ReplySent(m) PROVE TypeOK'
    BY <1>9 DEF ReplySent, TypeOK
  <1>10. ASSUME LeaseElapses(m) PROVE TypeOK'
    <2>1. [inbound[m] EXCEPT !.live = FALSE] \in InboundType
      BY <1>0 DEF InboundType
    <2>2. inbound' \in [Messages -> InboundType]
      BY <1>10, <2>1 DEF LeaseElapses, TypeOK
    <2> QED BY <1>10, <2>2 DEF LeaseElapses, WorldSame, TypeOK
  <1>11. ASSUME BackoffElapses(m) PROVE TypeOK'
    <2>1. [inbound[m] EXCEPT !.backoff = FALSE] \in InboundType
      BY <1>0 DEF InboundType
    <2>2. inbound' \in [Messages -> InboundType]
      BY <1>11, <2>1 DEF BackoffElapses, TypeOK
    <2> QED BY <1>11, <2>2 DEF BackoffElapses, WorldSame, TypeOK
  <1>12. ASSUME NEW p \in Pollers, ResendLast(p, m) PROVE TypeOK'
    <2> DEFINE new == [poller[p] EXCEPT !.step = "resending", !.batch = {m}]
    <2>1. poller[p] \in PollerType /\ unread' \in BOOLEAN
      BY <1>12, Fields, MarkType DEF ResendLast
    <2>2. new \in PollerType
      BY <2>1 DEF PollerType, Steps
    <2>3. poller' = [poller EXCEPT ![p] = new]
      BY <1>12, <2>1 DEF ResendLast, PollerType, TypeOK
    <2>4. poller' \in [Pollers -> PollerType]
      BY <2>2, <2>3, PollerSet
    <2>5. [inbound[m] EXCEPT !.status = "received"] \in InboundType
      BY <1>0 DEF InboundType, InboundStatus
    <2>6. inbound' \in [Messages -> InboundType]
      BY <1>12, <2>5 DEF ResendLast, TypeOK
    <2> QED BY <1>12, <2>1, <2>4, <2>6 DEF ResendLast, TypeOK
  <1>13. ASSUME ThreadRead(m) PROVE TypeOK'
    <2>1. unread' \in BOOLEAN
      BY <1>13, MarkType DEF ThreadRead
    <2> QED BY <1>13, <2>1 DEF ThreadRead, TypeOK
  <1> QED BY <1>3, <1>4, <1>5, <1>6, <1>7, <1>8, <1>9, <1>10, <1>11, <1>12, <1>13

LEMMA CrashTypes == ASSUME TypeOK, NEW p \in Pollers, Crash(p) PROVE TypeOK'
  <1>1. poller' \in [Pollers -> PollerType]
    BY RestingType, PollerSet DEF Crash
  <1>2. crashes' \in 0..MaxCrashes
    BY IntakeAssumption DEF Crash, TypeOK
  <1> QED BY <1>1, <1>2 DEF Crash, TypeOK

-----------------------------------------------------------------------------
(* The invariant *)

\* The pollers that may be spending a model call on the present pass of m.
Runs(m) == {p \in Pollers : poller[p].msg = m /\ poller[p].pass = pass[m]}

\* Each of them was counted as an attempt.
RunInv(m) == IsFiniteSet(Runs(m)) /\ Cardinality(Runs(m)) <= inbound[m].attempts

\* A claim is of the present pass: a reset takes it away.
HolderInv(p, m) ==
  poller[p].msg = m => /\ poller[p].pass <= pass[m]
                       /\ inbound[m].holder = p => poller[p].pass = pass[m]

\* Where a poller is in its tick.
PlaceInv(p) ==
  /\ poller[p].work # "choosing" => poller[p].msg \in Messages
  /\ poller[p].todo # {} => poller[p].step = "capturing"

\* What is remembered as seen has its row.
SeenInv ==
  /\ file.seen \subseteq Recorded
  /\ \A p \in Pollers : poller[p].seen \subseteq Recorded

IInv ==
  /\ TypeOK
  /\ \A m \in Messages : RunInv(m)
  /\ \A p \in Pollers : PlaceInv(p) /\ \A m \in Messages : HolderInv(p, m)
  /\ SeenInv
  /\ CardIsOfThisPass

-----------------------------------------------------------------------------
(* Steps that begin no run and no pass *)

\* A row keeps its attempts and, unless it becomes free, its holder; it stays a row, and
\* no card comes to it.
RowQuiet(m) ==
  /\ inbound'[m].attempts = inbound[m].attempts
  /\ inbound'[m].holder \in {inbound[m].holder, Nobody}
  /\ inbound[m].status # "none" => inbound'[m].status # "none"
  /\ inbound'[m].status = "processed" => inbound[m].status = "processed"

PollerQuiet(p) ==
  \/ poller'[p].msg = poller[p].msg /\ poller'[p].pass = poller[p].pass
  \/ poller'[p].msg \notin Messages

Quiet ==
  /\ UNCHANGED <<pass, drafted>>
  /\ \A m \in Messages : RowQuiet(m)
  /\ \A p \in Pollers : PollerQuiet(p)

LEMMA SameRows == ASSUME UNCHANGED inbound PROVE \A m \in Messages : RowQuiet(m)
  BY DEF RowQuiet

LEMMA SamePollers == ASSUME UNCHANGED poller PROVE \A p \in Pollers : PollerQuiet(p)
  BY DEF PollerQuiet

LEMMA OneRow ==
  ASSUME TypeOK, NEW m \in Messages, NEW new, inbound' = [inbound EXCEPT ![m] = new],
         new.attempts = inbound[m].attempts, new.holder \in {inbound[m].holder, Nobody},
         inbound[m].status # "none" => new.status # "none",
         new.status = "processed" => inbound[m].status = "processed"
  PROVE  \A v \in Messages : RowQuiet(v)
  BY DEF RowQuiet, TypeOK

LEMMA OnePoller ==
  ASSUME TypeOK, NEW p \in Pollers, NEW new, poller' = [poller EXCEPT ![p] = new],
         \/ new.msg = poller[p].msg /\ new.pass = poller[p].pass
         \/ new.msg \notin Messages
  PROVE  \A q \in Pollers : PollerQuiet(q)
  BY DEF PollerQuiet, TypeOK

LEMMA NextMessageQuiet ==
  ASSUME TypeOK, NEW p \in Pollers, NextMessage(p) PROVE \A q \in Pollers : PollerQuiet(q)
  <1>1. poller[p] \in PollerType /\ NoMessage \notin Messages
    BY Fields, IntakeAssumption
  <1>2. poller'[p].msg = NoMessage
    BY <1>1 DEF NextMessage, PollerType, TypeOK
  <1>3. \A q \in Pollers : q # p => poller'[q] = poller[q]
    BY DEF NextMessage, TypeOK
  <1> QED BY <1>1, <1>2, <1>3 DEF PollerQuiet

LEMMA ReleasedQuiet ==
  ASSUME NEW row \in InboundType, NEW failed \in BOOLEAN
  PROVE  LET new == Released(row, failed)
         IN /\ new.attempts = row.attempts /\ new.holder = Nobody
            /\ new.status = row.status \/ new.status = "needs_attention"
  BY DEF Released, InboundType

LEMMA WarnQuiet ==
  ASSUME TypeOK, NEW m \in Messages, NEW failed \in BOOLEAN, Warn(m, Released(inbound[m], failed))
  PROVE  \A v \in Messages : RowQuiet(v)
  <1> DEFINE row == Released(inbound[m], failed)
             warned == [row EXCEPT !.warned = TRUE]
  <1>1. inbound[m] \in InboundType
    BY Fields
  <1>2. row \in InboundType
    BY <1>1, ReleasedType
  <1>3. row.attempts = inbound[m].attempts /\ row.holder = Nobody
        /\ (row.status = inbound[m].status \/ row.status = "needs_attention")
    BY <1>1, ReleasedQuiet
  <1>4. warned.attempts = row.attempts /\ warned.holder = row.holder /\ warned.status = row.status
    BY <1>2 DEF InboundType
  <1>5. inbound' = [inbound EXCEPT ![m] = row] \/ inbound' = [inbound EXCEPT ![m] = warned]
    BY DEF Warn
  <1>6. CASE inbound' = [inbound EXCEPT ![m] = row]
    BY <1>3, <1>6, OneRow
  <1>7. CASE inbound' = [inbound EXCEPT ![m] = warned]
    BY <1>3, <1>4, <1>7, OneRow
  <1> QED BY <1>5, <1>6, <1>7

\* What a step of a tick leaves of its poller.
LEMMA TickFields ==
  ASSUME TypeOK, NEW p \in Pollers, Tick(p) \/ Fetch(p) \/ FetchFails(p) \/ Collected(p)
  PROVE  /\ poller'[p].msg = poller[p].msg /\ poller'[p].pass = poller[p].pass
         /\ poller'[p].work = poller[p].work
         /\ poller'[p].seen \in {poller[p].seen, file.seen}
         /\ \/ poller'[p].step = "capturing"
            \/ poller'[p].todo = poller[p].todo /\ (poller[p].step = "idle" \/ poller[p].todo = {})
  <1>0. poller[p] \in PollerType
    BY Fields
  <1>1. CASE Tick(p)
    <2> DEFINE new == [poller[p] EXCEPT !.step = "retrying", !.first = ~file.exists,
                                        !.seen = file.seen, !.batch = {m \in Messages : Eligible(m)}]
    <2>1. poller' = [poller EXCEPT ![p] = new]
      BY <1>0, <1>1 DEF Tick, PollerType, TypeOK
    <2>2. poller'[p] = new /\ poller[p].step = "idle"
      BY <1>1, <2>1 DEF Tick, TypeOK
    <2> QED BY <1>0, <2>2 DEF PollerType
  <1>2. CASE Fetch(p)
    <2> DEFINE todo == IF unread THEN written ELSE {}
               new == [poller[p] EXCEPT !.step = "capturing", !.todo = todo]
    <2>1. poller' = [poller EXCEPT ![p] = new]
      BY <1>0, <1>2 DEF Fetch, PollerType, TypeOK
    <2>2. poller'[p] = new
      BY <2>1 DEF TypeOK
    <2> QED BY <1>0, <2>2 DEF PollerType
  <1>3. CASE FetchFails(p)
    <2> DEFINE new == [poller[p] EXCEPT !.step = "capturing"]
    <2>1. poller' = [poller EXCEPT ![p] = new]
      BY <1>0, <1>3 DEF FetchFails, PollerType, TypeOK
    <2>2. poller'[p] = new
      BY <2>1 DEF TypeOK
    <2> QED BY <1>0, <2>2 DEF PollerType
  <1>4. CASE Collected(p)
    <2> DEFINE new == [poller[p] EXCEPT !.step = "answering", !.first = FALSE]
    <2>1. poller' = [poller EXCEPT ![p] = new]
      BY <1>0, <1>4 DEF Collected, PollerType, TypeOK
    <2>2. poller'[p] = new /\ poller[p].todo = {}
      BY <1>4, <2>1 DEF Collected, TypeOK
    <2> QED BY <1>0, <2>2 DEF PollerType
  <1> QED BY <1>1, <1>2, <1>3, <1>4

\* A message that is captured keeps its poller where it is and gets a row, or is reported.
LEMMA CaptureFields ==
  ASSUME TypeOK, NEW p \in Pollers, NEW m \in Messages, Capture(p, m)
  PROVE  /\ poller'[p].msg = poller[p].msg /\ poller'[p].pass = poller[p].pass
         /\ poller'[p].work = poller[p].work /\ poller'[p].step = "capturing"
         /\ poller'[p].todo = poller[p].todo \ {m}
         /\ poller'[p].seen \in {poller[p].seen, poller[p].seen \cup {m}}
         /\ \/ UNCHANGED inbound /\ poller'[p].seen = poller[p].seen /\ m \in reported'
            \/ UNCHANGED inbound /\ (m \in Recorded \/ m \in poller[p].seen)
            \/ /\ inbound' = [inbound EXCEPT ![m] = [inbound[m] EXCEPT
                                  !.status = IF poller[p].first THEN "seeded" ELSE "received"]]
               /\ m \notin Recorded
  <1>0. poller[p] \in PollerType /\ inbound[m] \in InboundType /\ poller[p].step = "capturing"
    BY Fields DEF Capture
  <1>1. ASSUME NEW seen, NEW batch,
               poller' = [poller EXCEPT ![p] = [poller[p] EXCEPT !.todo = @ \ {m}, !.seen = seen, !.batch = batch]]
        PROVE  /\ poller'[p].msg = poller[p].msg /\ poller'[p].pass = poller[p].pass
               /\ poller'[p].work = poller[p].work /\ poller'[p].step = "capturing"
               /\ poller'[p].todo = poller[p].todo \ {m} /\ poller'[p].seen = seen
    <2>1. poller'[p] = [poller[p] EXCEPT !.todo = @ \ {m}, !.seen = seen, !.batch = batch]
      BY <1>1 DEF TypeOK
    <2> QED BY <1>0, <2>1 DEF PollerType
  <1>3. CASE kind[m] = "unclear"
    <2>1. poller' = [poller EXCEPT ![p] = [poller[p] EXCEPT !.todo = @ \ {m}, !.seen = poller[p].seen,
                                                            !.batch = poller[p].batch]]
      BY <1>0, <1>3 DEF Capture, PollerType, TypeOK
    <2>2. UNCHANGED inbound /\ m \in reported'
      BY <1>3 DEF Capture
    <2> QED BY <1>1, <2>1, <2>2
  <1>4. CASE kind[m] # "unclear" /\ (m \in Recorded \/ (kind[m] = "fallback" /\ m \in poller[p].seen))
    <2>1. poller' = [poller EXCEPT ![p] = [poller[p] EXCEPT !.todo = @ \ {m}, !.seen = poller[p].seen \cup {m},
                                                            !.batch = poller[p].batch]]
      BY <1>0, <1>4 DEF Capture, PollerType, TypeOK
    <2>2. UNCHANGED inbound
      BY <1>4 DEF Capture
    <2> QED BY <1>1, <1>4, <2>1, <2>2
  <1>5. CASE kind[m] # "unclear" /\ ~(m \in Recorded \/ (kind[m] = "fallback" /\ m \in poller[p].seen))
    <2> DEFINE keep == poller[p].first \/ kind[m] = "identified"
               seen == IF keep THEN poller[p].seen \cup {m} ELSE poller[p].seen
               batch == IF keep THEN poller[p].batch ELSE poller[p].batch \cup {m}
    <2>1. poller' = [poller EXCEPT ![p] = [poller[p] EXCEPT !.todo = @ \ {m}, !.seen = seen, !.batch = batch]]
      BY <1>0, <1>5 DEF Capture, PollerType, TypeOK
    <2>2. inbound' = [inbound EXCEPT ![m] = [inbound[m] EXCEPT
                          !.status = IF poller[p].first THEN "seeded" ELSE "received"]]
      BY <1>5 DEF Capture, TypeOK
    <2>3. seen \in {poller[p].seen, poller[p].seen \cup {m}}
      OBVIOUS
    <2> HIDE DEF seen, batch
    <2> QED BY <1>1, <1>5, <2>1, <2>2, <2>3
  <1> QED BY <1>3, <1>4, <1>5

LEMMA TickQuiet ==
  ASSUME TypeOK, NEW p \in Pollers,
         \/ Tick(p) \/ Fetch(p) \/ FetchFails(p) \/ Collected(p) \/ Save(p) \/ ResendDone(p)
         \/ (\E m \in Messages : Capture(p, m))
  PROVE  Quiet
  <1>0. poller[p] \in PollerType /\ NoMessage \notin Messages
    BY Fields, IntakeAssumption
  <1>1. UNCHANGED <<pass, drafted>>
    BY DEF Tick, Fetch, FetchFails, Collected, Save, ResendDone, Capture, StateSame
  <1>2. \A q \in Pollers : PollerQuiet(q)
    <2>1. \A q \in Pollers : q # p => poller'[q] = poller[q]
      BY DEF Tick, Fetch, FetchFails, Collected, Save, ResendDone, Capture, TypeOK
    <2>2. \/ poller'[p].msg = poller[p].msg /\ poller'[p].pass = poller[p].pass
          \/ poller'[p].msg = NoMessage
      <3>1. CASE Tick(p) \/ Fetch(p) \/ FetchFails(p) \/ Collected(p)
        BY <3>1, TickFields
      <3>2. CASE Save(p) \/ ResendDone(p)
        BY <1>0, <3>2 DEF Save, ResendDone, Resting, TypeOK
      <3>3. ASSUME NEW m \in Messages, Capture(p, m)
            PROVE  poller'[p].msg = poller[p].msg /\ poller'[p].pass = poller[p].pass
        BY <3>3, CaptureFields
      <3> QED BY <3>1, <3>2, <3>3
    <2> QED BY <1>0, <2>1, <2>2 DEF PollerQuiet
  <1>3. \A m \in Messages : RowQuiet(m)
    <2>1. CASE UNCHANGED inbound
      BY <2>1, SameRows
    <2>2. ASSUME NEW m \in Messages, Capture(p, m), inbound' # inbound PROVE \A v \in Messages : RowQuiet(v)
      <3> DEFINE status == IF poller[p].first THEN "seeded" ELSE "received"
                 new == [inbound[m] EXCEPT !.status = status]
      <3>1. inbound' = [inbound EXCEPT ![m] = new]
        BY <2>2, CaptureFields
      <3>2. inbound[m] \in InboundType
        BY Fields
      <3>3. new.attempts = inbound[m].attempts /\ new.holder = inbound[m].holder /\ new.status = status
        BY <3>2 DEF InboundType
      <3>4. status # "none" /\ status # "processed"
        OBVIOUS
      <3> HIDE DEF new, status
      <3> QED BY <3>1, <3>3, <3>4, OneRow
    <2> QED BY <2>1, <2>2 DEF Tick, Fetch, FetchFails, Collected, Save, ResendDone, StateSame
  <1> QED BY <1>1, <1>2, <1>3 DEF Quiet

LEMMA AnswerQuiet ==
  ASSUME TypeOK, NEW p \in Pollers, PlaceInv(p),
         \/ (\E m \in Messages : ClaimExhausted(p, m) \/ ClaimRefused(p, m))
         \/ ReadContext(p) \/ ReadThread(p) \/ GenerationFails(p) \/ ContextChanged(p) \/ ClaimLost(p)
  PROVE  Quiet
  <1>0. poller[p] \in PollerType /\ NoMessage \notin Messages
    BY Fields, IntakeAssumption
  <1>1. ASSUME NEW m \in Messages, poller' = [poller EXCEPT ![p].batch = @ \ {m}]
        PROVE  \A q \in Pollers : PollerQuiet(q)
    BY <1>0, <1>1 DEF PollerQuiet, PollerType, TypeOK
  <1>2. ASSUME NEW m \in Messages, ClaimExhausted(p, m) PROVE Quiet
    <2>1. \A q \in Pollers : PollerQuiet(q)
      BY <1>1, <1>2 DEF ClaimExhausted
    <2>2. \A v \in Messages : RowQuiet(v)
      BY <1>2, WarnQuiet DEF ClaimExhausted
    <2> QED BY <1>2, <2>1, <2>2 DEF ClaimExhausted, Kept, Quiet
  <1>3. ASSUME NEW m \in Messages, ClaimRefused(p, m) PROVE Quiet
    BY <1>1, <1>3, SameRows DEF ClaimRefused, Kept, Quiet
  <1>4. CASE ReadContext(p)
    <2>1. \A q \in Pollers : PollerQuiet(q)
      <3>1. CASE NextMessage(p)
        BY <3>1, NextMessageQuiet
      <3>2. ASSUME NEW next, poller' = [poller EXCEPT ![p].work = next, ![p].context = revision[poller[p].msg]]
            PROVE  \A q \in Pollers : PollerQuiet(q)
        BY <1>0, <3>2 DEF PollerQuiet, PollerType, TypeOK
      <3> QED BY <1>4, <3>1, <3>2 DEF ReadContext
    <2> QED BY <1>4, <2>1, SameRows DEF ReadContext, Kept, Quiet
  <1>5. CASE GenerationFails(p)
    <2>1. \A q \in Pollers : PollerQuiet(q)
      BY <1>5, NextMessageQuiet DEF GenerationFails
    <2>2. poller[p].msg \in Messages
      BY <1>5 DEF GenerationFails, PlaceInv
    <2>3. \A v \in Messages : RowQuiet(v)
      BY <1>5, <2>2, WarnQuiet, SameRows DEF GenerationFails
    <2> QED BY <1>5, <2>1, <2>3 DEF GenerationFails, Kept, Quiet
  <1>6. CASE ContextChanged(p)
    <2> DEFINE m == poller[p].msg
               row == Released(inbound[m], TRUE)
    <2>1. \A q \in Pollers : PollerQuiet(q)
      BY <1>6, NextMessageQuiet DEF ContextChanged
    <2>2. m \in Messages
      BY <1>6 DEF ContextChanged, PlaceInv
    <2>3. row.attempts = inbound[m].attempts /\ row.holder = Nobody
          /\ (row.status = inbound[m].status \/ row.status = "needs_attention")
      BY <2>2, Fields, ReleasedQuiet
    <2>4. inbound' = [inbound EXCEPT ![m] = row]
      BY <1>6 DEF ContextChanged, TypeOK
    <2>5. \A v \in Messages : RowQuiet(v)
      BY <2>2, <2>3, <2>4, OneRow
    <2> QED BY <1>6, <2>1, <2>5 DEF ContextChanged, Kept, Quiet
  <1>7. CASE ClaimLost(p)
    BY <1>7, NextMessageQuiet, SameRows DEF ClaimLost, Kept, Quiet
  <1>8. CASE ReadThread(p)
    <2>1. \A q \in Pollers : PollerQuiet(q)
      BY <1>0, <1>8 DEF ReadThread, PollerQuiet, PollerType, TypeOK
    <2> QED BY <1>8, <2>1, SameRows DEF ReadThread, Quiet
  <1> QED BY <1>2, <1>3, <1>4, <1>5, <1>6, <1>7, <1>8

LEMMA OutsideQuiet ==
  ASSUME TypeOK, NEW m \in Messages,
         \/ Bind(m) \/ Notified(m) \/ RowsChange(m) \/ ClientWrites(m) \/ ReplySent(m) \/ ThreadRead(m)
         \/ LeaseElapses(m) \/ BackoffElapses(m)
  PROVE  Quiet
  <1>0. inbound[m] \in InboundType
    BY Fields
  <1>1. UNCHANGED <<pass, drafted, poller>>
    BY DEF Bind, Notified, RowsChange, ClientWrites, ReplySent, ThreadRead, LeaseElapses, BackoffElapses, WorldSame
  <1>2. \A v \in Messages : RowQuiet(v)
    <2>1. CASE UNCHANGED inbound
      BY <2>1, SameRows
    <2>2. CASE Bind(m)
      BY <1>0, <2>2 DEF Bind, RowQuiet, InboundType, TypeOK
    <2>3. CASE Notified(m)
      BY <1>0, <2>3 DEF Notified, RowQuiet, InboundType, TypeOK
    <2>4. CASE LeaseElapses(m)
      BY <1>0, <2>4 DEF LeaseElapses, RowQuiet, InboundType, TypeOK
    <2>6. CASE BackoffElapses(m)
      BY <1>0, <2>6 DEF BackoffElapses, RowQuiet, InboundType, TypeOK
    <2>5. RowsChange(m) \/ ClientWrites(m) \/ ReplySent(m) \/ ThreadRead(m) => UNCHANGED inbound
      BY DEF RowsChange, ClientWrites, ReplySent, ThreadRead
    <2> QED BY <2>1, <2>2, <2>3, <2>4, <2>5, <2>6
  <1> QED BY <1>1, <1>2, SamePollers DEF Quiet

LEMMA ResendQuiet == ASSUME TypeOK, NEW p \in Pollers, NEW m \in Messages, ResendLast(p, m) PROVE Quiet
  <1>0. poller[p] \in PollerType /\ inbound[m] \in InboundType
    BY Fields
  <1>1. \A q \in Pollers : PollerQuiet(q)
    BY <1>0 DEF ResendLast, PollerQuiet, PollerType, TypeOK
  <1>2. \A v \in Messages : RowQuiet(v)
    BY <1>0 DEF ResendLast, RowQuiet, InboundType, TypeOK
  <1> QED BY <1>1, <1>2 DEF ResendLast, Quiet

LEMMA CrashQuiet == ASSUME TypeOK, NEW p \in Pollers, Crash(p) PROVE Quiet
  <1>1. \A q \in Pollers : PollerQuiet(q)
    BY IntakeAssumption DEF Crash, PollerQuiet, Resting, TypeOK
  <1> QED BY <1>1, SameRows DEF Crash, Quiet

LEMMA QuietKeeps ==
  ASSUME IInv, TypeOK', Quiet
  PROVE  /\ \A m \in Messages : RunInv(m)'
         /\ \A p \in Pollers, m \in Messages : HolderInv(p, m)'
         /\ CardIsOfThisPass'
         /\ Recorded \subseteq Recorded'
  <1>1. ASSUME NEW m \in Messages PROVE RunInv(m)'
    <2>1. Runs(m)' \subseteq Runs(m)
      BY <1>1 DEF Runs, Quiet, PollerQuiet
    <2>2. RunInv(m) /\ RowQuiet(m)
      BY DEF IInv, Quiet
    <2>3. IsFiniteSet(Runs(m)') /\ Cardinality(Runs(m)') <= Cardinality(Runs(m))
      BY <2>1, <2>2, FS_Subset, FS_CardinalityType DEF RunInv
    <2>4. Cardinality(Runs(m)) \in Nat /\ Cardinality(Runs(m)') \in Nat /\ inbound[m].attempts \in Nat
      BY <2>2, <2>3, Fields, FS_CardinalityType DEF RunInv, IInv, InboundType
    <2> QED BY <2>2, <2>3, <2>4 DEF RunInv, RowQuiet
  <1>2. ASSUME NEW p \in Pollers, NEW m \in Messages PROVE HolderInv(p, m)'
    <2>1. HolderInv(p, m) /\ RowQuiet(m) /\ PollerQuiet(p) /\ pass' = pass /\ Nobody \notin Pollers
      BY IntakeAssumption DEF IInv, Quiet
    <2> QED BY <2>1 DEF HolderInv, RowQuiet, PollerQuiet
  <1>3. CardIsOfThisPass'
    BY DEF Quiet, RowQuiet, IInv, CardIsOfThisPass
  <1>4. Recorded \subseteq Recorded'
    BY DEF Quiet, RowQuiet, Recorded
  <1> QED BY <1>1, <1>2, <1>3, <1>4

-----------------------------------------------------------------------------
(* The four steps that do *)

\* A claim adds one poller to the runs of the row, and one attempt.
LEMMA ClaimKeeps ==
  ASSUME IInv, NEW p \in Pollers, NEW m \in Messages, Claim(p, m)
  PROVE  /\ \A v \in Messages : RunInv(v)'
         /\ \A q \in Pollers, v \in Messages : HolderInv(q, v)'
         /\ CardIsOfThisPass'
         /\ Recorded \subseteq Recorded'
  <1>0. /\ poller[p] \in PollerType /\ inbound[m] \in InboundType /\ TypeOK
        /\ UNCHANGED <<pass, drafted>> /\ pass[m] \in 0..MaxPasses /\ MaxPasses \in Nat
    BY Fields DEF IInv, Claim, Kept
  <1>1. /\ inbound'[m].attempts = inbound[m].attempts + 1 /\ inbound'[m].holder = p
        /\ inbound'[m].status = inbound[m].status /\ inbound[m].attempts \in Nat
    BY <1>0 DEF Claim, InboundType, TypeOK
  <1>2. \A v \in Messages : v # m => inbound'[v] = inbound[v]
    BY <1>0 DEF Claim, TypeOK
  <1>3. poller'[p].msg = m /\ poller'[p].pass = pass[m]
    BY <1>0 DEF Claim, PollerType, TypeOK
  <1>4. \A q \in Pollers : q # p => poller'[q] = poller[q]
    BY <1>0 DEF Claim, TypeOK
  <1>5. ASSUME NEW v \in Messages PROVE RunInv(v)'
    <2>0. RunInv(v)
      BY DEF IInv
    <2>1. CASE v = m
      <3>1. Runs(v)' = Runs(v) \cup {p}
        BY <1>0, <1>3, <1>4, <2>1 DEF Runs
      <3>2. IsFiniteSet(Runs(v) \cup {p}) /\ Cardinality(Runs(v) \cup {p}) <= Cardinality(Runs(v)) + 1
        <4>1. IsFiniteSet(Runs(v)) /\ Cardinality(Runs(v)) \in Nat
          BY <2>0, FS_CardinalityType DEF RunInv
        <4>2. /\ IsFiniteSet(Runs(v) \cup {p})
              /\ Cardinality(Runs(v) \cup {p}) = IF p \in Runs(v) THEN Cardinality(Runs(v))
                                                  ELSE Cardinality(Runs(v)) + 1
          BY <4>1, FS_AddElement
        <4> QED BY <4>1, <4>2
      <3>3. Cardinality(Runs(v)) \in Nat /\ Cardinality(Runs(v) \cup {p}) \in Nat
        BY <2>0, <3>2, FS_CardinalityType DEF RunInv
      <3> QED BY <1>1, <2>0, <2>1, <3>1, <3>2, <3>3 DEF RunInv
    <2>2. CASE v # m
      <3>1. Runs(v)' \subseteq Runs(v)
        BY <1>0, <1>3, <1>4, <2>2 DEF Runs
      <3>2. IsFiniteSet(Runs(v)') /\ Cardinality(Runs(v)') <= Cardinality(Runs(v))
        BY <2>0, <3>1, FS_Subset DEF RunInv
      <3>3. Cardinality(Runs(v)) \in Nat /\ Cardinality(Runs(v)') \in Nat /\ inbound[v].attempts \in Nat
        BY <1>0, <2>0, <3>2, Fields, FS_CardinalityType DEF RunInv, InboundType
      <3> QED BY <1>2, <2>0, <2>2, <3>2, <3>3 DEF RunInv
    <2> QED BY <2>1, <2>2
  <1>6. ASSUME NEW q \in Pollers, NEW v \in Messages PROVE HolderInv(q, v)'
    <2>1. HolderInv(q, v)
      BY DEF IInv
    <2>2. pass[m] <= pass[m]
      BY <1>0
    <2> QED BY <1>0, <1>1, <1>2, <1>3, <1>4, <2>1, <2>2 DEF HolderInv
  <1>7. CardIsOfThisPass' /\ Recorded \subseteq Recorded'
    BY <1>0, <1>1, <1>2 DEF IInv, CardIsOfThisPass, Recorded
  <1> QED BY <1>5, <1>6, <1>7

\* The card that is committed is of the pass in which its text was generated.
LEMMA CommitKeeps ==
  ASSUME IInv, NEW p \in Pollers, CommitReply(p)
  PROVE  /\ \A v \in Messages : RunInv(v)'
         /\ \A q \in Pollers, v \in Messages : HolderInv(q, v)'
         /\ CardIsOfThisPass'
         /\ Recorded \subseteq Recorded'
  <1> DEFINE m == poller[p].msg
  <1>0. /\ poller[p] \in PollerType /\ m \in Messages /\ inbound[m] \in InboundType /\ TypeOK
        /\ UNCHANGED pass /\ NoMessage \notin Messages /\ Nobody \notin Pollers
    BY Fields, IntakeAssumption DEF IInv, PlaceInv, CommitReply, Kept
  <1>1. Released(inbound[m], FALSE) \in InboundType /\ Released(inbound[m], FALSE).attempts = inbound[m].attempts
        /\ Released(inbound[m], FALSE).holder = Nobody
    BY <1>0, ReleasedType, ReleasedQuiet
  <1>2. /\ inbound'[m].attempts = inbound[m].attempts /\ inbound'[m].holder = Nobody
        /\ inbound'[m].status = "processed"
    BY <1>0, <1>1 DEF CommitReply, InboundType, TypeOK
  <1>3. \A v \in Messages : v # m => inbound'[v] = inbound[v] /\ drafted'[v] = drafted[v]
    BY <1>0 DEF CommitReply, TypeOK
  <1>4. poller'[p].msg = NoMessage
    BY <1>0 DEF CommitReply, PollerType, TypeOK
  <1>5. \A q \in Pollers : q # p => poller'[q] = poller[q]
    BY <1>0 DEF CommitReply, TypeOK
  <1>6. ASSUME NEW v \in Messages PROVE RunInv(v)'
    <2>0. RunInv(v)
      BY DEF IInv
    <2>1. Runs(v)' \subseteq Runs(v)
      BY <1>0, <1>4, <1>5 DEF Runs
    <2>2. IsFiniteSet(Runs(v)') /\ Cardinality(Runs(v)') <= Cardinality(Runs(v))
      BY <2>0, <2>1, FS_Subset DEF RunInv
    <2>3. Cardinality(Runs(v)) \in Nat /\ Cardinality(Runs(v)') \in Nat /\ inbound[v].attempts \in Nat
      BY <1>0, <2>0, <2>2, Fields, FS_CardinalityType DEF RunInv, InboundType
    <2>4. inbound'[v].attempts = inbound[v].attempts
      BY <1>2, <1>3
    <2> QED BY <2>0, <2>2, <2>3, <2>4 DEF RunInv
  <1>7. ASSUME NEW q \in Pollers, NEW v \in Messages PROVE HolderInv(q, v)'
    <2>1. HolderInv(q, v)
      BY DEF IInv
    <2> QED BY <1>0, <1>2, <1>3, <1>4, <1>5, <2>1 DEF HolderInv
  <1>8. ASSUME NEW v \in Messages, inbound'[v].status = "processed" PROVE drafted'[v] = pass'[v]
    <2>1. CASE v = m
      <3>1. drafted'[m] = poller[p].pass
        BY <1>0 DEF CommitReply, TypeOK
      <3>2. poller[p].pass = pass[m]
        BY <1>0 DEF CommitReply, ClaimIsCurrent, IInv, HolderInv
      <3> QED BY <1>0, <2>1, <3>1, <3>2
    <2>2. CASE v # m
      BY <1>0, <1>3, <1>8, <2>2 DEF IInv, CardIsOfThisPass
    <2> QED BY <2>1, <2>2
  <1>9. Recorded \subseteq Recorded'
    BY <1>2, <1>3 DEF Recorded
  <1> QED BY <1>6, <1>7, <1>8, <1>9 DEF CardIsOfThisPass

\* A reset leaves no run of the new pass and no holder.
LEMMA ResetKeeps ==
  ASSUME IInv, NEW m \in Messages, Reprocess(m) \/ Requeue(m)
  PROVE  /\ \A v \in Messages : RunInv(v)'
         /\ \A q \in Pollers, v \in Messages : HolderInv(q, v)'
         /\ CardIsOfThisPass'
         /\ Recorded \subseteq Recorded'
  <1>0. /\ TypeOK /\ UNCHANGED <<poller, drafted>> /\ Nobody \notin Pollers
        /\ inbound[m] \in InboundType /\ \A v \in Messages : pass[v] \in Nat
        /\ \A p \in Pollers : poller[p].pass \in Nat
    BY Fields, IntakeAssumption DEF IInv, Reprocess, Requeue, WorldSame, PollerType
  <1>1. /\ inbound'[m].attempts = 0 /\ inbound'[m].holder = Nobody /\ inbound'[m].status = "received"
    <2>1. CASE Reprocess(m)
      <3>1. inbound'[m] = [NoRow EXCEPT !.status = "received", !.bound = TRUE]
        BY <1>0, <2>1 DEF Reprocess, TypeOK
      <3> QED BY <3>1 DEF NoRow
    <2>2. CASE Requeue(m)
      BY <1>0, <2>2 DEF Requeue, InboundType, TypeOK
    <2> QED BY <2>1, <2>2
  <1>2. pass'[m] = pass[m] + 1
    BY <1>0 DEF Reprocess, Requeue, TypeOK
  <1>3. \A v \in Messages : v # m => inbound'[v] = inbound[v] /\ pass'[v] = pass[v]
    BY <1>0 DEF Reprocess, Requeue, TypeOK
  <1>4. ASSUME NEW v \in Messages PROVE RunInv(v)'
    <2>0. RunInv(v) /\ \A p \in Pollers : HolderInv(p, v)
      BY DEF IInv
    <2>1. CASE v = m
      <3>1. Runs(v)' = {}
        BY <1>0, <1>2, <2>0, <2>1 DEF Runs, HolderInv
      <3> QED BY <1>1, <2>1, <3>1, FS_EmptySet DEF RunInv
    <2>2. CASE v # m
      <3>1. Runs(v)' = Runs(v)
        BY <1>0, <1>3, <2>2 DEF Runs
      <3> QED BY <1>3, <2>0, <2>2, <3>1 DEF RunInv
    <2> QED BY <2>1, <2>2
  <1>5. ASSUME NEW q \in Pollers, NEW v \in Messages PROVE HolderInv(q, v)'
    <2>1. HolderInv(q, v)
      BY DEF IInv
    <2>2. CASE v = m
      BY <1>0, <1>1, <1>2, <2>1, <2>2 DEF HolderInv
    <2>3. CASE v # m
      BY <1>0, <1>3, <2>1, <2>3 DEF HolderInv
    <2> QED BY <2>2, <2>3
  <1>6. CardIsOfThisPass' /\ Recorded \subseteq Recorded'
    BY <1>0, <1>1, <1>3 DEF IInv, CardIsOfThisPass, Recorded
  <1> QED BY <1>4, <1>5, <1>6

-----------------------------------------------------------------------------
(* Where the pollers are, and what they have seen *)

\* What a step of poller p does to the places and the keys.
Places(p) ==
  /\ \A q \in Pollers : q # p => poller'[q] = poller[q]
  /\ PlaceInv(p)'
  /\ poller'[p].seen \subseteq Recorded'
  /\ file'.seen \subseteq Recorded'

LEMMA TickPlaces ==
  ASSUME IInv, NEW p \in Pollers, Recorded \subseteq Recorded',
         \/ Tick(p) \/ Fetch(p) \/ FetchFails(p) \/ Collected(p) \/ Save(p) \/ ResendDone(p) \/ Crash(p)
         \/ (\E m \in Messages : Capture(p, m) \/ ResendLast(p, m))
  PROVE  Places(p)
  <1>0. /\ poller[p] \in PollerType /\ TypeOK /\ PlaceInv(p)
        /\ poller[p].seen \subseteq Recorded' /\ file.seen \subseteq Recorded'
    BY Fields DEF IInv, SeenInv
  <1>1. \A q \in Pollers : q # p => poller'[q] = poller[q]
    BY <1>0 DEF Tick, Fetch, FetchFails, Collected, Save, ResendDone, Crash, Capture, ResendLast, TypeOK
  <1>2. CASE Tick(p) \/ Fetch(p) \/ FetchFails(p) \/ Collected(p)
    <2>1. PlaceInv(p)'
      BY <1>0, <1>2, TickFields DEF PlaceInv
    <2>2. poller'[p].seen \in {poller[p].seen, file.seen} /\ UNCHANGED file
      BY <1>0, <1>2, TickFields DEF Tick, Fetch, FetchFails, Collected, StateSame
    <2> QED BY <1>0, <1>1, <2>1, <2>2 DEF Places
  <1>3. CASE Save(p) \/ ResendDone(p) \/ Crash(p)
    <2>1. poller'[p] = Resting
      BY <1>0, <1>3 DEF Save, ResendDone, Crash, TypeOK
    <2>2. file'.seen \in {poller[p].seen, file.seen}
      BY <1>3 DEF Save, ResendDone, Crash, StateSame
    <2> QED BY <1>0, <1>1, <2>1, <2>2 DEF Places, PlaceInv, Resting
  <1>4. ASSUME NEW m \in Messages, Capture(p, m) PROVE Places(p)
    <2>1. PlaceInv(p)'
      BY <1>0, <1>4, CaptureFields DEF PlaceInv
    <2>2. UNCHANGED file
      BY <1>4 DEF Capture
    <2>3. poller'[p].seen \subseteq poller[p].seen \cup {m}
      BY <1>0, <1>4, CaptureFields
    <2>4. m \in poller'[p].seen => m \in Recorded'
      <3>1. CASE poller'[p].seen = poller[p].seen \/ m \in Recorded \/ m \in poller[p].seen
        BY <1>0, <3>1
      <3>2. CASE inbound' = [inbound EXCEPT ![m] = [inbound[m] EXCEPT
                                 !.status = IF poller[p].first THEN "seeded" ELSE "received"]]
        <4>1. inbound[m] \in InboundType
          BY <1>0, Fields
        <4>2. inbound'[m].status \in {"seeded", "received"}
          BY <1>0, <3>2, <4>1 DEF InboundType, TypeOK
        <4> QED BY <4>2 DEF Recorded
      <3> QED BY <1>0, <1>4, <3>1, <3>2, CaptureFields
    <2> QED BY <1>0, <1>1, <2>1, <2>2, <2>3, <2>4 DEF Places
  <1>5. ASSUME NEW m \in Messages, ResendLast(p, m) PROVE Places(p)
    <2>1. poller'[p].seen = poller[p].seen /\ UNCHANGED file
      BY <1>0, <1>5 DEF ResendLast, PollerType, TypeOK
    <2>2. PlaceInv(p)'
      BY <1>0, <1>5 DEF ResendLast, PlaceInv, PollerType, TypeOK
    <2> QED BY <1>0, <1>1, <2>1, <2>2 DEF Places
  <1> QED BY <1>2, <1>3, <1>4, <1>5

LEMMA NextMessagePlace ==
  ASSUME TypeOK, NEW p \in Pollers, PlaceInv(p), NextMessage(p)
  PROVE  PlaceInv(p)' /\ poller'[p].seen = poller[p].seen
  <1>1. poller[p] \in PollerType
    BY Fields
  <1> QED BY <1>1 DEF NextMessage, PlaceInv, PollerType, TypeOK

LEMMA AnswerPlaces ==
  ASSUME IInv, NEW p \in Pollers, Recorded \subseteq Recorded', AnswerStep(p)
  PROVE  Places(p)
  <1>0. /\ poller[p] \in PollerType /\ TypeOK /\ PlaceInv(p)
        /\ poller[p].seen \subseteq Recorded' /\ file.seen \subseteq Recorded'
    BY Fields DEF IInv, SeenInv
  <1>1. (\A q \in Pollers : q # p => poller'[q] = poller[q]) /\ UNCHANGED file
    BY <1>0 DEF AnswerStep, Claim, ClaimExhausted, ClaimRefused, ReadContext, ReadThread, GenerationFails,
                CommitReply, ContextChanged, ClaimLost, NextMessage, Kept, TypeOK
  <1>2. ASSUME NEW m \in Messages, Claim(p, m) \/ ClaimExhausted(p, m) \/ ClaimRefused(p, m)
        PROVE  PlaceInv(p)' /\ poller'[p].seen = poller[p].seen
    <2>1. /\ poller'[p].step = poller[p].step /\ poller'[p].todo = poller[p].todo
          /\ poller'[p].seen = poller[p].seen
          /\ poller'[p].work \in {poller[p].work, "reading"}
          /\ poller'[p].msg = m \/ (poller'[p].msg = poller[p].msg /\ poller'[p].work = poller[p].work)
      <3>1. CASE Claim(p, m)
        <4>1. poller' = [poller EXCEPT ![p] = [poller[p] EXCEPT !.work = "reading", !.msg = m, !.pass = pass[m]]]
          BY <1>0, <3>1 DEF Claim, PollerType, TypeOK
        <4>2. poller'[p] = [poller[p] EXCEPT !.work = "reading", !.msg = m, !.pass = pass[m]]
          BY <1>0, <4>1 DEF TypeOK
        <4> QED BY <1>0, <4>2 DEF PollerType
      <3>2. CASE poller' = [poller EXCEPT ![p].batch = @ \ {m}]
        <4>1. poller'[p] = [poller[p] EXCEPT !.batch = @ \ {m}]
          BY <1>0, <3>2 DEF TypeOK
        <4> QED BY <1>0, <4>1 DEF PollerType
      <3> QED BY <1>2, <3>1, <3>2 DEF ClaimExhausted, ClaimRefused
    <2> QED BY <1>0, <2>1 DEF PlaceInv
  <1>3. CASE ReadContext(p) \/ ReadThread(p)
    <2>1. CASE NextMessage(p)
      BY <1>0, <1>1, <2>1, NextMessagePlace DEF Places
    <2>2. ASSUME NEW next, poller' = [poller EXCEPT ![p].work = next, ![p].context = revision[poller[p].msg]]
                           \/ poller' = [poller EXCEPT ![p].work = next]
          PROVE  Places(p)
      <3>1. poller[p].msg \in Messages
        BY <1>0, <1>3 DEF ReadContext, ReadThread, PlaceInv
      <3>2. PlaceInv(p)' /\ poller'[p].seen = poller[p].seen
        BY <1>0, <2>2, <3>1 DEF PlaceInv, PollerType, TypeOK
      <3> QED BY <1>0, <1>1, <3>2 DEF Places
    <2> QED BY <1>3, <2>1, <2>2 DEF ReadContext, ReadThread
  <1>4. CASE GenerationFails(p) \/ ContextChanged(p) \/ ClaimLost(p)
    <2>1. NextMessage(p)
      BY <1>4 DEF GenerationFails, ContextChanged, ClaimLost
    <2> QED BY <1>0, <1>1, <2>1, NextMessagePlace DEF Places
  <1>5. CASE CommitReply(p)
    <2>1. poller'[p].work = "choosing" /\ poller'[p].todo = poller[p].todo /\ poller'[p].step = poller[p].step
      BY <1>0, <1>5 DEF CommitReply, PollerType, TypeOK
    <2>2. PlaceInv(p)'
      BY <1>0, <2>1 DEF PlaceInv
    <2>3. poller'[p].seen \subseteq poller[p].seen \cup {poller[p].msg}
      BY <1>0, <1>5 DEF CommitReply, PollerType, TypeOK
    <2>4. poller[p].msg \in Recorded
      BY <1>0, <1>5 DEF CommitReply, ClaimIsCurrent, Recorded, PlaceInv
    <2> QED BY <1>0, <1>1, <2>2, <2>3, <2>4 DEF Places
  <1> QED BY <1>0, <1>1, <1>2, <1>3, <1>4, <1>5 DEF AnswerStep, Places

LEMMA PlacesKeep ==
  ASSUME IInv, NEW p \in Pollers, Recorded \subseteq Recorded', Places(p)
  PROVE  (\A q \in Pollers : PlaceInv(q)') /\ SeenInv'
  <1>1. ASSUME NEW q \in Pollers, q # p PROVE PlaceInv(q)' /\ poller'[q].seen \subseteq Recorded'
    <2>1. PlaceInv(q) /\ poller[q].seen \subseteq Recorded /\ poller'[q] = poller[q]
      BY <1>1 DEF IInv, SeenInv, Places
    <2> QED BY <2>1 DEF PlaceInv
  <1> QED BY <1>1 DEF Places, SeenInv

LEMMA SamePlaces ==
  ASSUME IInv, Recorded \subseteq Recorded', UNCHANGED <<poller, file>>
  PROVE  (\A q \in Pollers : PlaceInv(q)') /\ SeenInv'
  BY DEF IInv, PlaceInv, SeenInv

-----------------------------------------------------------------------------
(* The induction *)

LEMMA InitInv == Init => IInv
  <1> SUFFICES ASSUME Init PROVE IInv
    OBVIOUS
  <1>0. TypeOK /\ NoMessage \notin Messages
    BY InitTypeOK, IntakeAssumption
  <1>1. \A p \in Pollers : poller[p].msg = NoMessage /\ poller[p].work = "choosing"
                           /\ poller[p].todo = {} /\ poller[p].seen = {}
    BY DEF Init, Resting
  <1>2. \A m \in Messages : inbound[m].attempts = 0 /\ inbound[m].status = "none"
    BY DEF Init, NoRow
  <1>3. ASSUME NEW m \in Messages PROVE RunInv(m)
    <2>1. Runs(m) = {}
      BY <1>0, <1>1 DEF Runs
    <2> QED BY <1>2, <2>1, FS_EmptySet DEF RunInv
  <1>4. \A p \in Pollers : PlaceInv(p) /\ \A m \in Messages : HolderInv(p, m)
    BY <1>0, <1>1 DEF PlaceInv, HolderInv
  <1>5. SeenInv
    BY <1>1 DEF Init, SeenInv
  <1>6. CardIsOfThisPass
    BY <1>2 DEF CardIsOfThisPass
  <1> QED BY <1>0, <1>3, <1>4, <1>5, <1>6 DEF IInv

LEMMA NextInv == IInv /\ [Next]_vars => IInv'
  <1> SUFFICES ASSUME IInv, [Next]_vars PROVE IInv'
    OBVIOUS
  <1>0. TypeOK /\ \A p \in Pollers : PlaceInv(p)
    BY DEF IInv
  <1>1. ASSUME TypeOK', \A m \in Messages : RunInv(m)',
               \A p \in Pollers, m \in Messages : HolderInv(p, m)',
               CardIsOfThisPass', (\A q \in Pollers : PlaceInv(q)'), SeenInv'
        PROVE  IInv'
    BY <1>1 DEF IInv
  <1>2. ASSUME NEW p \in Pollers,
               \/ Tick(p) \/ Fetch(p) \/ FetchFails(p) \/ Collected(p) \/ Save(p) \/ ResendDone(p)
               \/ (\E m \in Messages : Capture(p, m))
        PROVE  IInv'
    <2>1. TypeOK' /\ Quiet
      BY <1>0, <1>2, TickTypes, CaptureTypes, TickQuiet
    <2> QED BY <1>1, <1>2, <2>1, QuietKeeps, TickPlaces, PlacesKeep
  <1>3. ASSUME NEW p \in Pollers, AnswerStep(p) PROVE IInv'
    <2>1. TypeOK'
      <3>1. poller[p].work # "choosing" => poller[p].msg \in Messages
        BY <1>0 DEF PlaceInv
      <3>2. ReadContext(p) \/ CommitReply(p) \/ ContextChanged(p) => poller[p].msg \in Messages
        BY <3>1 DEF ReadContext, CommitReply, ContextChanged
      <3> QED BY <1>0, <1>3, <3>2, AnswerTypes DEF AnswerStep
    <2>2. CASE (\E m \in Messages : ClaimExhausted(p, m) \/ ClaimRefused(p, m))
               \/ ReadContext(p) \/ ReadThread(p) \/ GenerationFails(p) \/ ContextChanged(p) \/ ClaimLost(p)
      <3>1. Quiet
        BY <1>0, <2>2, AnswerQuiet
      <3> QED BY <1>1, <1>3, <2>1, <3>1, QuietKeeps, AnswerPlaces, PlacesKeep
    <2>3. ASSUME NEW m \in Messages, Claim(p, m) PROVE IInv'
      BY <1>1, <1>3, <2>1, <2>3, ClaimKeeps, AnswerPlaces, PlacesKeep
    <2>4. CASE CommitReply(p)
      BY <1>1, <1>3, <2>1, <2>4, CommitKeeps, AnswerPlaces, PlacesKeep
    <2> QED BY <1>3, <2>2, <2>3, <2>4 DEF AnswerStep
  <1>4. ASSUME NEW p \in Pollers, Crash(p) PROVE IInv'
    <2>0. TypeOK' /\ Quiet
      BY <1>0, <1>4, CrashTypes, CrashQuiet
    <2> QED BY <1>1, <1>4, <2>0, QuietKeeps, TickPlaces, PlacesKeep
  <1>5. ASSUME NEW m \in Messages, NEW p \in Resenders, ResendLast(p, m) PROVE IInv'
    <2>0. p \in Pollers
      BY IntakeAssumption
    <2>1. TypeOK' /\ Quiet
      BY <1>0, <1>5, <2>0, OutsideTypes, ResendQuiet
    <2> QED BY <1>1, <1>5, <2>0, <2>1, QuietKeeps, TickPlaces, PlacesKeep
  <1>6. ASSUME NEW m \in Messages,
               \/ Bind(m) \/ Notified(m) \/ RowsChange(m) \/ ClientWrites(m) \/ ReplySent(m) \/ ThreadRead(m)
               \/ LeaseElapses(m) \/ BackoffElapses(m)
        PROVE  IInv'
    <2>1. TypeOK'
      BY <1>0, <1>6, OutsideTypes
    <2>2. UNCHANGED <<poller, file>>
      BY <1>6 DEF Bind, Notified, RowsChange, ClientWrites, ReplySent, ThreadRead,
         LeaseElapses, BackoffElapses, WorldSame
    <2>3. Quiet
      BY <1>0, <1>6, OutsideQuiet
    <2> QED BY <1>1, <2>1, <2>2, <2>3, QuietKeeps, SamePlaces
  <1>7. ASSUME NEW m \in Messages, Reprocess(m) \/ Requeue(m) PROVE IInv'
    <2>1. TypeOK' /\ UNCHANGED <<poller, file>>
      BY <1>0, <1>7, OutsideTypes DEF Reprocess, Requeue, WorldSame
    <2> QED BY <1>1, <1>7, <2>1, ResetKeeps, SamePlaces
  <1>8. CASE UNCHANGED vars
    <2>1. UNCHANGED <<kind, unread, file, inbound, revision, poller, reported, pass, drafted, crashes>>
      BY <1>8 DEF vars
    <2>2. TypeOK' /\ Quiet
      BY <1>0, <2>1, SameRows, SamePollers DEF TypeOK, Quiet
    <2> QED BY <1>1, <2>1, <2>2, QuietKeeps, SamePlaces
  <1> QED BY <1>2, <1>3, <1>4, <1>5, <1>6, <1>7, <1>8 DEF Next, PollerStep, Environment

LEMMA Inductive == Spec => []IInv
  BY InitInv, NextInv, PTL DEF Spec

-----------------------------------------------------------------------------
(* What follows *)

(* Type correctness of thread, file, rows and pollers.                         *)
THEOREM IntakeTypes == Spec => []TypeOK
  <1>1. IInv => TypeOK
    BY DEF IInv
  <1> QED BY <1>1, Inductive, PTL

(* A card that waits was generated after the operator's last reset of the         *)
(* message, for any number of pollers, resets and elapsed leases.                  *)
THEOREM CardOfThisPass == Spec => []CardIsOfThisPass
  <1>1. IInv => CardIsOfThisPass
    BY DEF IInv
  <1> QED BY <1>1, Inductive, PTL

(* Pollers that generate for a pass of a message were all counted as attempts,    *)
(* so there are never more of them than the attempts of a pass.                    *)
THEOREM RunsCounted == Spec => []RunsAreCounted
  <1>1. IInv => RunsAreCounted
    BY DEF IInv, RunInv, Runs, RunsAreCounted
  <1> QED BY <1>1, Inductive, PTL

-----------------------------------------------------------------------------
(* What was read is kept *)

\* A poller that answers leaves the list alone.
LEMMA AnswerTodo ==
  ASSUME TypeOK, NEW p \in Pollers, AnswerStep(p) PROVE poller'[p].todo = poller[p].todo
  <1>0. poller[p] \in PollerType
    BY Fields
  <1>1. ASSUME NextMessage(p) PROVE poller'[p].todo = poller[p].todo
    BY <1>0, <1>1 DEF NextMessage, PollerType, TypeOK
  <1>2. ASSUME NEW x \in Messages, Claim(p, x) \/ ClaimExhausted(p, x) \/ ClaimRefused(p, x)
        PROVE  poller'[p].todo = poller[p].todo
    <2>1. CASE Claim(p, x)
      BY <1>0, <2>1 DEF Claim, PollerType, TypeOK
    <2>2. CASE poller' = [poller EXCEPT ![p].batch = @ \ {x}]
      BY <1>0, <2>2 DEF PollerType, TypeOK
    <2> QED BY <1>2, <2>1, <2>2 DEF ClaimExhausted, ClaimRefused
  <1>3. CASE CommitReply(p)
    BY <1>0, <1>3 DEF CommitReply, PollerType, TypeOK
  <1>4. ASSUME NEW next, poller' = [poller EXCEPT ![p].work = next, ![p].context = revision[poller[p].msg]]
                         \/ poller' = [poller EXCEPT ![p].work = next]
        PROVE  poller'[p].todo = poller[p].todo
    BY <1>0, <1>4 DEF PollerType, TypeOK
  <1> QED BY <1>1, <1>2, <1>3, <1>4 DEF AnswerStep, ReadContext, ReadThread, GenerationFails,
         ContextChanged, ClaimLost

\* Only a capture takes a message off a poller's list: a list is empty when its tick goes
\* on, and what a capture leaves out has its row, for which the key was remembered.
LEMMA StepKeepsRead ==
  ASSUME IInv, [Next]_vars, crashes' = crashes, NEW p \in Pollers,
         NEW m \in poller[p].todo, m \notin poller'[p].todo
  PROVE  m \in (Recorded \cup reported)'
  <1>0. /\ TypeOK /\ PlaceInv(p) /\ poller[p] \in PollerType /\ m \in Messages
        /\ poller[p].seen \subseteq Recorded /\ Resenders \subseteq Pollers /\ crashes \in Nat
    <2>1. TypeOK /\ PlaceInv(p) /\ poller[p] \in PollerType /\ poller[p].seen \subseteq Recorded
      BY Fields DEF IInv, SeenInv
    <2> QED BY <2>1, IntakeAssumption DEF PollerType, TypeOK
  <1>1. poller[p].step = "capturing"
    BY <1>0 DEF PlaceInv
  <1>2. ~Crash(p) /\ poller' # poller
    BY <1>0 DEF Crash
  <1>3. ASSUME NEW q \in Pollers, PollerStep(q) \/ Crash(q) \/ (\E x \in Messages : ResendLast(q, x))
        PROVE  q = p
    <2>1. \A r \in Pollers : r # q => poller'[r] = poller[r]
      BY <1>0, <1>3 DEF PollerStep, AnswerStep, Tick, Fetch, FetchFails, Collected, Save, ResendDone, Capture,
         ResendLast, Claim, ClaimExhausted, ClaimRefused, ReadContext, ReadThread, GenerationFails,
         CommitReply, ContextChanged, ClaimLost, NextMessage, Crash, TypeOK
    <2> QED BY <2>1
  <1>4. \E x \in Messages : Capture(p, x)
    <2>1. PollerStep(p) \/ (\E x \in Messages : ResendLast(p, x))
      <3>1. ASSUME NEW x \in Messages, Environment(x) PROVE \E q \in Pollers : ResendLast(q, x)
        BY <1>0, <1>2, <3>1 DEF Environment, Bind, Reprocess, Requeue, Notified, RowsChange, ClientWrites,
           ReplySent, ThreadRead, LeaseElapses, BackoffElapses, WorldSame
      <3>2. ~UNCHANGED vars
        BY <1>2 DEF vars
      <3> QED BY <1>2, <1>3, <3>1, <3>2 DEF Next
    <2>2. ~Tick(p) /\ ~Fetch(p) /\ ~FetchFails(p) /\ ~Save(p) /\ ~ResendDone(p)
          /\ \A x \in Messages : ~ResendLast(p, x)
      BY <1>1 DEF Tick, Fetch, FetchFails, Save, ResendDone, ResendLast, BatchDone
    <2>3. ~Collected(p)
      BY DEF Collected
    <2>4. ~AnswerStep(p)
      <3>1. ASSUME AnswerStep(p) PROVE poller'[p].todo = poller[p].todo
        BY <3>1, AnswerTodo, <1>0
      <3> QED BY <3>1
    <2> QED BY <2>1, <2>2, <2>3, <2>4 DEF PollerStep
  <1>5. PICK x \in Messages : Capture(p, x)
    BY <1>4
  <1>6. x = m
    BY <1>0, <1>5, CaptureFields
  <1>7. CASE m \in reported' \/ (UNCHANGED inbound /\ (m \in Recorded \/ m \in poller[p].seen))
    BY <1>0, <1>7 DEF Recorded
  <1>8. CASE inbound' = [inbound EXCEPT ![m] = [inbound[m] EXCEPT
                             !.status = IF poller[p].first THEN "seeded" ELSE "received"]]
    <2>1. inbound'[m].status \in {"seeded", "received"}
      BY <1>0, <1>8, Fields DEF InboundType, TypeOK
    <2> QED BY <1>0, <2>1 DEF Recorded
  <1> QED BY <1>0, <1>5, <1>6, <1>7, <1>8, CaptureFields

(* A message a poller has read is committed or reported before the poller lets go *)
(* of it, for any number of messages and pollers and whatever the state file was   *)
(* overwritten with; only a poller that dies loses what it has read.               *)
THEOREM ReadKept == Spec => ReadIsKept
  <1>1. IInv /\ [Next]_vars =>
          [\A p \in Pollers : \A m \in poller[p].todo \ poller'[p].todo :
              m \in (Recorded \cup reported)' \/ crashes' # crashes]_vars
    BY StepKeepsRead
  <1> QED BY <1>1, Inductive, PTL DEF Spec, ReadIsKept

=============================================================================
