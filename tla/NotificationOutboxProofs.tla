----------------------- MODULE NotificationOutboxProofs -----------------------
(***************************************************************************)
(* Proofs about NotificationOutbox, for every set of rows and deliverers,  *)
(* every batch limit, number of attempts and number of messages per card,  *)
(* and every kind of Telegram fault.                                       *)
(***************************************************************************)
EXTENDS NotificationOutbox, TLAPS

-----------------------------------------------------------------------------
(* Lemmas about the constants and the loop over a batch                    *)

\* The bounds are numbers, and a row has at least one attempt.
LEMMA Bounds ==
    /\ MaxClaims \in Nat /\ MaxRequeues \in Nat /\ MaxCrashes \in Nat
    /\ MaxAttempts \in Nat /\ MaxAttempts > 0
BY OutboxAssumption

\* Where the loop can go: to the end of the call, or to a row of the rest.
LEMMA OnwardsCases ==
    ASSUME NEW t, NEW rest, NEW nxt, nxt \in Onwards(t, rest)
    PROVE  \/ nxt = Idle
           \/ \E r \in rest : nxt = [pc |-> "check", tok |-> t, cur |-> r,
                                     rest |-> rest \ {r}, parts |-> 0, err |-> "none"]
BY DEF Onwards

\* The state the loop goes on with has the type of a deliverer's state.
LEMMA OnwardsType ==
    ASSUME NEW t \in Tokens \cup {0}, NEW rest \in SUBSET Rows, NEW nxt,
           nxt \in Onwards(t, rest)
    PROVE  nxt \in WorkerType
<1>1. CASE nxt = Idle
  BY <1>1 DEF Idle, WorkerType, Steps, Errors
<1>2. CASE \E r \in rest : nxt = [pc |-> "check", tok |-> t, cur |-> r,
                                  rest |-> rest \ {r}, parts |-> 0, err |-> "none"]
  BY <1>2 DEF WorkerType, Steps, Errors
<1> QED
  BY <1>1, <1>2, OnwardsCases

\* Going on changes no other deliverer and keeps the types.
LEMMA GoOnType ==
    ASSUME TypeOK, NEW w \in Workers, GoOn(w)
    PROVE  worker' \in [Workers -> WorkerType]
<1>1. worker[w].tok \in Tokens \cup {0} /\ worker[w].rest \in SUBSET Rows
  BY DEF TypeOK, WorkerType
<1>2. PICK nxt : /\ nxt \in Onwards(worker[w].tok, worker[w].rest)
                 /\ worker' = [worker EXCEPT ![w] = nxt]
  BY DEF GoOn
<1>3. nxt \in WorkerType
  BY <1>1, <1>2, OnwardsType
<1> QED
  BY <1>2, <1>3 DEF TypeOK

\* The shape of the loop's next state, and that no other deliverer moves.
LEMMA GoOnShape ==
    ASSUME TypeOK, NEW w \in Workers, GoOn(w)
    PROVE  /\ \A v \in Workers : v # w => worker'[v] = worker[v]
           /\ \/ worker'[w] = Idle
              \/ \E r \in worker[w].rest :
                     worker'[w] = [pc |-> "check", tok |-> worker[w].tok, cur |-> r,
                                   rest |-> worker[w].rest \ {r}, parts |-> 0, err |-> "none"]
<1>1. PICK nxt : /\ nxt \in Onwards(worker[w].tok, worker[w].rest)
                 /\ worker' = [worker EXCEPT ![w] = nxt]
  BY DEF GoOn
<1>2. /\ worker'[w] = nxt
      /\ \A v \in Workers : v # w => worker'[v] = worker[v]
  BY <1>1 DEF TypeOK
<1>3. \/ nxt = Idle
      \/ \E r \in worker[w].rest :
             nxt = [pc |-> "check", tok |-> worker[w].tok, cur |-> r,
                    rest |-> worker[w].rest \ {r}, parts |-> 0, err |-> "none"]
  BY <1>1, OnwardsCases
<1> QED
  BY <1>2, <1>3

\* The same for the loop's start: the deliverer that claimed stands before a row of
\* its batch, and every row of the batch was pending.
LEMMA ClaimShape ==
    ASSUME TypeOK, NEW w \in Workers, ClaimBatch(w)
    PROVE  /\ \A v \in Workers : v # w => worker'[v] = worker[v]
           /\ \/ worker'[w] = Idle
              \/ \E r \in Batch :
                     worker'[w] = [pc |-> "check", tok |-> claims + 1, cur |-> r,
                                   rest |-> Batch \ {r}, parts |-> 0, err |-> "none"]
           /\ Batch \subseteq Rows
           /\ \A r \in Batch : /\ row[r].st = "pending"
                             /\ row'[r].st = "sending"
                             /\ row'[r].tok = claims + 1
                             /\ row'[r].attempts = row[r].attempts
                             /\ row'[r].err = row[r].err
                             /\ row'[r].msg = row[r].msg
           /\ \A r \in Rows : r \notin Batch => row'[r] = row[r]
           /\ \A r \in Rows : lastTok'[r] = IF r \in Batch THEN claims + 1 ELSE lastTok[r]
           /\ claims \in Nat /\ claims' = claims + 1
<1>1. PICK nxt : nxt \in Onwards(claims + 1, Batch) /\ worker' = [worker EXCEPT ![w] = nxt]
  BY DEF ClaimBatch
<1>2. /\ worker'[w] = nxt
      /\ \A v \in Workers : v # w => worker'[v] = worker[v]
  BY <1>1 DEF TypeOK
<1>3. Batch \subseteq Rows /\ \A r \in Batch : row[r].st = "pending"
  BY DEF Batch, Claimable
<1>4. \/ nxt = Idle
      \/ \E r \in Batch :
             nxt = [pc |-> "check", tok |-> claims + 1, cur |-> r,
                    rest |-> Batch \ {r}, parts |-> 0, err |-> "none"]
  BY <1>1, OnwardsCases
<1>5. claims \in Nat
  BY Bounds DEF TypeOK
<1>6. ASSUME NEW r \in Rows
      PROVE  row'[r] = IF r \in Batch
                       THEN [row[r] EXCEPT !.st = "sending", !.tok = claims + 1]
                       ELSE row[r]
  BY DEF ClaimBatch
<1>7. \A r \in Rows : row[r] \in RowType
  BY DEF TypeOK
<1>8. \A r \in Batch : /\ row'[r].st = "sending"
                       /\ row'[r].tok = claims + 1
                        /\ row'[r].attempts = row[r].attempts
                        /\ row'[r].err = row[r].err
                        /\ row'[r].msg = row[r].msg
  BY <1>3, <1>6, <1>7 DEF RowType
<1>9. \A r \in Rows : r \notin Batch => row'[r] = row[r]
  BY <1>6
<1>10. \A r \in Rows : lastTok'[r] = IF r \in Batch THEN claims + 1 ELSE lastTok[r]
  BY DEF ClaimBatch
<1>11. claims' = claims + 1
  BY DEF ClaimBatch
<1> QED
  BY <1>2, <1>3, <1>4, <1>5, <1>8, <1>9, <1>10, <1>11

\* Recovery leaves a row alone, or gives a sending one to the operator.
LEMMA RecoveredShape ==
    ASSUME TypeOK, NEW r \in Rows
    PROVE  \/ Recovered[r] = row[r]
           \/ /\ row[r].st = "sending"
              /\ Recovered[r].st = "needs_attention"
              /\ Recovered[r].tok = 0
              /\ Recovered[r].err = "lease_expired"
              /\ Recovered[r].attempts = row[r].attempts
              /\ Recovered[r].msg = row[r].msg
<1>1. row[r] \in RowType
  BY DEF TypeOK
<1>2. CASE Stale(r)
  <2>1. Recovered[r] = [row[r] EXCEPT !.st = "needs_attention", !.tok = 0,
                                      !.err = "lease_expired"]
    BY <1>2 DEF Recovered
  <2>2. row[r].st = "sending"
    BY <1>2 DEF Stale
  <2> QED
    BY <1>1, <2>1, <2>2 DEF RowType
<1>3. CASE ~Stale(r)
  BY <1>3 DEF Recovered
<1> QED
  BY <1>2, <1>3

\* Every row is at least one message.
LEMMA PartsPositive == \A r : Parts(r) \in Nat /\ Parts(r) > 0
BY OutboxAssumption DEF Parts

-----------------------------------------------------------------------------
(* Type correctness                                                        *)

\* The initial state has the declared types.
LEMMA InitTypeOK == Init => TypeOK
BY OutboxAssumption
   DEF Init, TypeOK, Absent, Idle, RowType, RowStates, Errors, WorkerType, Steps, Tokens

\* Recovery keeps the type of the table.
LEMMA RecoveredType == TypeOK => Recovered \in [Rows -> RowType]
<1> SUFFICES ASSUME TypeOK, NEW r \in Rows
             PROVE  (IF Stale(r)
                     THEN [row[r] EXCEPT !.st = "needs_attention", !.tok = 0, !.err = "lease_expired"]
                     ELSE row[r]) \in RowType
  BY DEF Recovered
<1>1. row[r] \in RowType
  BY DEF TypeOK
<1>2. [row[r] EXCEPT !.st = "needs_attention", !.tok = 0, !.err = "lease_expired"] \in RowType
  BY <1>1 DEF RowType, RowStates, Errors
<1> QED
  BY <1>1, <1>2

\* A failed row: the number of attempts stays within the limit, because a row that
\* has reached it is not pending any more.
LEMMA FailedType ==
    ASSUME TypeOK, NEW r \in Rows, row[r].attempts < MaxAttempts, NEW e \in Errors
    PROVE  Failed(r, e) \in RowType
<1>1. row[r] \in RowType
  BY DEF TypeOK
<1>2. row[r].attempts + 1 \in 0..MaxAttempts
  BY <1>1, OutboxAssumption DEF RowType
<1>3. Rests(row[r].attempts + 1, e) \in BOOLEAN
  BY DEF Rests
<1> DEFINE rests == Rests(row[r].attempts + 1, e)
<1> HIDE DEF rests
<1>4. [row[r] EXCEPT !.st = IF rests THEN "needs_attention" ELSE "pending",
                     !.tok = 0, !.attempts = row[r].attempts + 1, !.due = rests, !.err = e]
      \in RowType
  BY <1>1, <1>2, <1>3 DEF RowType, RowStates, rests
<1> QED
  BY <1>4 DEF Failed, rests

\* What a deliverer files is an error.
LEMMA FiledErrorType ==
    ASSUME TypeOK, NEW w \in Workers, NEW e \in Faults
    PROVE  FiledError(w, e) \in Errors
BY OutboxAssumption DEF FiledError, Errors

\* Every step keeps the types.
LEMMA TypeStep == IInv /\ [Next]_vars => TypeOK'
<1> SUFFICES ASSUME IInv, [Next]_vars PROVE TypeOK'
  OBVIOUS
<1> USE DEF IInv
<1>1. ASSUME NEW r \in Rows, Enqueue(r) PROVE TypeOK'
  BY <1>1 DEF Enqueue, TypeOK, RowType, RowStates, budgets, history
<1>2. ASSUME NEW r \in Rows, BackoffEnds(r) PROVE TypeOK'
  BY <1>2 DEF BackoffEnds, TypeOK, RowType, RowStates, budgets, history
<1>3. ASSUME NEW r \in Rows, NEW ack \in BOOLEAN, Requeue(r, ack) PROVE TypeOK'
  <2>1. row[r] \in RowType
    BY DEF TypeOK
  <2>2. [row[r] EXCEPT !.st = "pending", !.tok = 0, !.attempts = 0,
                       !.due = TRUE, !.err = "none"] \in RowType
    <3>1. 0 \in 0..MaxAttempts
      BY Bounds
    <3> QED
      BY <2>1, <3>1 DEF RowType, RowStates, Errors
  <2>3. row' \in [Rows -> RowType]
    BY <1>3, <2>2 DEF Requeue, TypeOK
  <2>4. licensed' \in [Rows -> SUBSET (Tokens \cup {0})]
    BY <1>3 DEF Requeue, TypeOK
  <2>5. requeues' \in 0..MaxRequeues
    BY <1>3, OutboxAssumption DEF Requeue, TypeOK
  <2> QED
    BY <1>3, <2>3, <2>4, <2>5 DEF Requeue, TypeOK
<1>4. ASSUME NEW w \in Workers, Start(w) PROVE TypeOK'
  <2>1. worker' \in [Workers -> WorkerType]
    <3>1. [worker[w] EXCEPT !.pc = "claim"] \in WorkerType
      <4>1. worker[w] \in WorkerType
        BY DEF TypeOK
      <4> QED
        BY <4>1 DEF WorkerType, Steps
    <3> QED
      BY <1>4, <3>1 DEF Start, TypeOK
  <2>2. row' \in [Rows -> RowType]
    BY <1>4, RecoveredType DEF Start
  <2> QED
    BY <1>4, <2>1, <2>2 DEF Start, TypeOK, budgets, history
<1>5. ASSUME NEW w \in Workers, ClaimBatch(w) PROVE TypeOK'
  <2>1. claims + 1 \in Tokens /\ claims + 1 \in 0..MaxClaims
    <3>1. claims \in Nat /\ claims < MaxClaims
      <4>1. claims \in 0..MaxClaims
        BY DEF TypeOK
      <4>2. claims < MaxClaims
        BY <1>5 DEF ClaimBatch
      <4> QED
        BY <4>1, <4>2, Bounds
    <3> QED
      BY <3>1, Bounds DEF Tokens
  <2>2. \A r \in Rows : [row[r] EXCEPT !.st = "sending", !.tok = claims + 1] \in RowType
    BY <2>1 DEF TypeOK, RowType, RowStates
  <2>3. row' \in [Rows -> RowType]
    BY <1>5, <2>2 DEF ClaimBatch, TypeOK
  <2>4. lastTok' \in [Rows -> Tokens \cup {0}]
    BY <1>5, <2>1 DEF ClaimBatch, TypeOK
  <2>5. PICK nxt : nxt \in Onwards(claims + 1, Batch) /\ worker' = [worker EXCEPT ![w] = nxt]
    BY <1>5 DEF ClaimBatch
  <2>6. Batch \in SUBSET Rows
    BY DEF Batch, Claimable
  <2>7. worker' \in [Workers -> WorkerType]
    BY <2>1, <2>5, <2>6, OnwardsType DEF TypeOK
  <2> QED
    BY <1>5, <2>1, <2>3, <2>4, <2>7 DEF ClaimBatch, TypeOK, budgets
<1>6. ASSUME NEW w \in Workers, NothingToClaim(w) PROVE TypeOK'
  BY <1>6 DEF NothingToClaim, TypeOK, WorkerType, Idle, Steps, Errors, budgets, history
<1>7. ASSUME NEW w \in Workers, CheckClaim(w) PROVE TypeOK'
  BY <1>7 DEF CheckClaim, TypeOK, WorkerType, Steps, budgets, history
<1>8. ASSUME NEW w \in Workers, CheckFails(w) PROVE TypeOK'
  BY <1>8, GoOnType DEF CheckFails, TypeOK, budgets, history
<1>9. ASSUME NEW w \in Workers, ClaimLost(w) PROVE TypeOK'
  BY <1>9, GoOnType, RecoveredType DEF ClaimLost, TypeOK, budgets, history
<1>10. ASSUME NEW w \in Workers, Arrives(w), worker[w].pc = "send"
       PROVE  shown' \in [Rows -> SUBSET Tokens]
  <2>1. worker[w].cur \in Rows /\ worker[w].tok \in Tokens
    BY <1>10 DEF TypeOK, HandsInOrder, WorkerType
  <2> QED
    BY <1>10, <2>1 DEF Arrives, TypeOK
<1>11. ASSUME NEW w \in Workers, PartAccepted(w) PROVE TypeOK'
  <2>1. AfterPart(worker[w].parts + 1, worker[w].cur) \in Steps
    BY DEF AfterPart, Steps
  <2>2. [worker[w] EXCEPT !.parts = worker[w].parts + 1,
                          !.pc = AfterPart(worker[w].parts + 1, worker[w].cur)] \in WorkerType
    <3>1. worker[w] \in WorkerType /\ worker[w].parts + 1 \in Nat
      BY DEF TypeOK, WorkerType
    <3> QED
      BY <2>1, <3>1 DEF WorkerType
  <2>3. worker' \in [Workers -> WorkerType]
    BY <1>11, <2>2 DEF PartAccepted, TypeOK
  <2> QED
    BY <1>10, <1>11, <2>3 DEF PartAccepted, TypeOK, budgets
<1>12. ASSUME NEW w \in Workers, NEW e \in Faults, PartFails(w, e) PROVE TypeOK'
  <2>1. worker' \in [Workers -> WorkerType]
    <3>1. worker[w] \in WorkerType /\ FiledError(w, e) \in Errors
      BY FiledErrorType DEF TypeOK
    <3>2. [worker[w] EXCEPT !.pc = "fail", !.err = FiledError(w, e)] \in WorkerType
      BY <3>1 DEF WorkerType, Steps
    <3> QED
      BY <1>12, <3>2 DEF PartFails, TypeOK
  <2>2. shown' \in [Rows -> SUBSET Tokens]
    BY <1>10, <1>12 DEF PartFails, TypeOK
  <2> QED
    BY <1>12, <2>1, <2>2 DEF PartFails, TypeOK, budgets
<1>13. ASSUME NEW w \in Workers, MarkFailure(w) PROVE TypeOK'
  <2>1. worker[w].cur \in Rows /\ worker[w].err \in Errors
    BY <1>13 DEF MarkFailure, TypeOK, HandsInOrder, WorkerType
  <2>2. row' \in [Rows -> RowType]
    BY <1>13, <2>1, FailedType DEF MarkFailure, TypeOK, Holds, AttemptsLeft
  <2> QED
    BY <1>13, <2>2, GoOnType DEF MarkFailure, TypeOK, budgets, history
<1>14. ASSUME NEW w \in Workers, worker[w].pc = "finalize",
              RecordSent(w) \/ UNCHANGED <<row, card, notified>>
       PROVE  row' \in [Rows -> RowType] /\ card' \subseteq Rows /\ notified' \subseteq Rows
  <2>1. worker[w].cur \in Rows
    BY <1>14 DEF TypeOK, HandsInOrder, WorkerType
  <2>2. CASE UNCHANGED <<row, card, notified>>
    BY <2>2 DEF TypeOK
  <2>3. CASE RecordSent(w)
    <3>1. [row[worker[w].cur] EXCEPT !.st = "sent", !.tok = 0, !.err = "none", !.msg = TRUE]
          \in RowType
      <4>1. row[worker[w].cur] \in RowType
        BY <2>1 DEF TypeOK
      <4> QED
        BY <4>1 DEF RowType, RowStates, Errors
    <3>2. row' \in [Rows -> RowType]
      <4>1. CASE Holds(w, worker[w].cur)
        BY <2>1, <2>3, <3>1, <4>1 DEF RecordSent, TypeOK
      <4>2. CASE ~Holds(w, worker[w].cur)
        BY <2>3, <4>2 DEF RecordSent, TypeOK
      <4> QED
        BY <4>1, <4>2
    <3>3. card' \subseteq Rows /\ notified' \subseteq Rows
      <4>1. CASE Holds(w, worker[w].cur)
        BY <2>1, <2>3, <4>1 DEF RecordSent, TypeOK
      <4>2. CASE ~Holds(w, worker[w].cur)
        BY <2>3, <4>2 DEF RecordSent, TypeOK
      <4> QED
        BY <4>1, <4>2
    <3> QED
      BY <3>2, <3>3
  <2> QED
    BY <1>14, <2>2, <2>3
<1>15. ASSUME NEW w \in Workers, MarkSuccess(w) PROVE TypeOK'
  BY <1>14, <1>15, GoOnType DEF MarkSuccess, TypeOK, budgets, history
<1>16. ASSUME NEW w \in Workers, CommitRaises(w) PROVE TypeOK'
  <2>1. worker' \in [Workers -> WorkerType]
    BY <1>16 DEF CommitRaises, TypeOK, WorkerType, Steps
  <2> QED
    BY <1>14, <1>16, <2>1 DEF CommitRaises, TypeOK, budgets, history
<1>17. ASSUME NEW w \in Workers, MarkCommitFailure(w) PROVE TypeOK'
  <2>1. worker[w].cur \in Rows
    BY <1>17 DEF MarkCommitFailure, TypeOK, HandsInOrder, WorkerType
  <2>2. row' \in [Rows -> RowType] /\ card' \subseteq Rows
    <3>1. CASE Holds(w, worker[w].cur)
      <4>1. [row[worker[w].cur] EXCEPT !.st = "needs_attention", !.tok = 0,
                                       !.err = "commit_failed", !.msg = TRUE] \in RowType
        <5>1. row[worker[w].cur] \in RowType
          BY <2>1 DEF TypeOK
        <5> QED
          BY <5>1 DEF RowType, RowStates, Errors
      <4>2. row' \in [Rows -> RowType]
        BY <1>17, <2>1, <3>1, <4>1 DEF MarkCommitFailure, TypeOK
      <4>3. card' \subseteq Rows
        BY <1>17, <2>1, <3>1 DEF MarkCommitFailure, TypeOK
      <4> QED
        BY <4>2, <4>3
    <3>2. CASE ~Holds(w, worker[w].cur)
      BY <1>17, <3>2 DEF MarkCommitFailure, TypeOK
    <3> QED
      BY <3>1, <3>2
  <2> QED
    BY <1>17, <2>2, GoOnType DEF MarkCommitFailure, TypeOK, budgets, history
<1>18. ASSUME NEW w \in Workers, CommitFailureLost(w) PROVE TypeOK'
  BY <1>18, GoOnType DEF CommitFailureLost, TypeOK, budgets, history
<1>19. ASSUME NEW w \in Workers, Crash(w) PROVE TypeOK'
  BY <1>19, OutboxAssumption
     DEF Crash, TypeOK, WorkerType, Idle, Steps, Errors, history
<1>20. ASSUME NEW t \in Tokens, LeasePasses(t) PROVE TypeOK'
  BY <1>20 DEF LeasePasses, TypeOK, budgets, history
<1>21. CASE UNCHANGED vars
  BY <1>21 DEF vars, TypeOK
<1> QED
  BY <1>1, <1>2, <1>3, <1>4, <1>5, <1>6, <1>7, <1>8, <1>9, <1>11, <1>12, <1>13,
     <1>15, <1>16, <1>17, <1>18, <1>19, <1>20, <1>21 DEF Next, Deliver

\* Going on, a deliverer keeps its token or drops everything it held.
LEMMA GoOnHands ==
    ASSUME TypeOK, HandsInOrder, WorkerTokens, NEW w \in Workers, GoOn(w), claims' = claims,
           worker[w].pc \notin {"idle", "claim"}
    PROVE  HandsInOrder' /\ WorkerTokens'
<1>1. /\ worker[w].tok \in 0..claims /\ worker[w].tok # 0
      /\ \A v \in Workers : v # w => worker'[v] = worker[v]
      /\ worker'[w].tok \in {0, worker[w].tok}
  <2>1. worker[w].tok \in 0..claims /\ worker[w].tok # 0
    BY DEF WorkerTokens, HandsInOrder
  <2>2. \A v \in Workers : v # w => worker'[v] = worker[v]
    BY GoOnShape
  <2>3. worker'[w] = Idle \/ worker'[w].tok = worker[w].tok
    <3>1. ASSUME NEW r \in worker[w].rest,
                 worker'[w] = [pc |-> "check", tok |-> worker[w].tok, cur |-> r,
                               rest |-> worker[w].rest \ {r}, parts |-> 0, err |-> "none"]
          PROVE  worker'[w].tok = worker[w].tok
      BY <3>1
    <3> QED
      BY <3>1, GoOnShape
  <2> QED
    BY <2>1, <2>2, <2>3 DEF Idle
<1>2. WorkerTokens'
  <2>1. \A v \in Workers : worker'[v].tok \in 0..claims
    BY <1>1, Bounds DEF WorkerTokens, TypeOK
  <2>2. ASSUME NEW u \in Workers, NEW v \in Workers, worker'[u].tok = worker'[v].tok,
               worker'[u].tok # 0
        PROVE  u = v
    BY <1>1, <2>2 DEF WorkerTokens
  <2> QED
    BY <2>1, <2>2 DEF WorkerTokens
<1>3. ASSUME NEW v \in Workers
      PROVE  /\ worker'[v].pc \in {"idle", "claim"} =>
                    worker'[v] = [Idle EXCEPT !.pc = worker'[v].pc]
             /\ worker'[v].pc \notin {"idle", "claim"} => worker'[v].tok # 0 /\ worker'[v].cur # 0
             /\ worker'[v].cur \notin worker'[v].rest
             /\ worker'[v].pc \in {"check", "send"} =>
                    worker'[v].parts < Parts(worker'[v].cur)
  <2>1. CASE v # w
    BY <1>1, <2>1 DEF HandsInOrder
  <2>2. CASE v = w /\ worker'[w] = Idle
    <3>1. 0 \notin {}
      OBVIOUS
    <3> QED
      BY <2>2, <3>1 DEF Idle
  <2>3. ASSUME v = w, NEW r \in worker[w].rest,
               worker'[w] = [pc |-> "check", tok |-> worker[w].tok, cur |-> r,
                             rest |-> worker[w].rest \ {r}, parts |-> 0, err |-> "none"]
        PROVE  /\ worker'[w].pc = "check"
               /\ worker'[w].tok # 0
               /\ worker'[w].cur # 0
               /\ worker'[w].cur \notin worker'[w].rest
               /\ worker'[w].parts < Parts(worker'[w].cur)
    <3>1. r \in Rows /\ r # 0
      BY OutboxAssumption DEF TypeOK, WorkerType
    <3>2. Parts(r) \in Nat /\ 0 < Parts(r)
      BY PartsPositive
    <3> QED
      BY <1>1, <2>3, <3>1, <3>2
  <2> QED
    BY <2>1, <2>2, <2>3, GoOnShape
<1> QED
  BY <1>2, <1>3 DEF HandsInOrder

-----------------------------------------------------------------------------
(* The parts of the inductive invariant, step by step                      *)

\* A sending row carries the token of its latest claim.
LEMMA RowTokensStep == IInv /\ TypeOK' /\ [Next]_vars => RowTokens'
<1> SUFFICES ASSUME IInv, TypeOK', [Next]_vars PROVE RowTokens'
  OBVIOUS
<1> USE DEF IInv
<1>1. ASSUME NEW r \in Rows, Enqueue(r) PROVE RowTokens'
  BY <1>1, Bounds
     DEF Enqueue, budgets, history, RowTokens, TypeOK, RowType, Tokens, HandsInOrder, WorkerTokens
<1>2. ASSUME NEW r \in Rows, BackoffEnds(r) PROVE RowTokens'
  BY <1>2, Bounds
     DEF BackoffEnds, budgets, history, RowTokens, TypeOK, RowType, Tokens, HandsInOrder, WorkerTokens
<1>3. ASSUME NEW r \in Rows, NEW ack \in BOOLEAN, Requeue(r, ack) PROVE RowTokens'
  BY <1>3, Bounds
     DEF Requeue, Requeueable, RowTokens, TypeOK, RowType, Tokens, HandsInOrder, WorkerTokens
<1>4. ASSUME NEW w \in Workers, Start(w) PROVE RowTokens'
  BY <1>4, RecoveredShape, Bounds
     DEF Start, budgets, history, RowTokens, TypeOK, RowType, Tokens, HandsInOrder, WorkerTokens
<1>5. ASSUME NEW w \in Workers, ClaimBatch(w) PROVE RowTokens'
  <2>1. UNCHANGED <<card, notified, shown, licensed>>
    BY <1>5 DEF ClaimBatch
  <2> QED
    BY <1>5, <2>1, ClaimShape, Bounds DEF RowTokens, TypeOK
<1>6. ASSUME NEW w \in Workers, NothingToClaim(w) PROVE RowTokens'
  BY <1>6, Bounds
     DEF NothingToClaim, Idle, budgets, history, RowTokens, TypeOK, RowType, Tokens, HandsInOrder, WorkerTokens
<1>7. ASSUME NEW w \in Workers, CheckClaim(w) PROVE RowTokens'
  BY <1>7, Bounds
     DEF CheckClaim, budgets, history, RowTokens, TypeOK, RowType, Tokens, HandsInOrder, WorkerTokens
<1>8. ASSUME NEW w \in Workers, CheckFails(w) PROVE RowTokens'
  BY <1>8, GoOnShape, Bounds
     DEF CheckFails, budgets, history, RowTokens, TypeOK, RowType, Tokens, HandsInOrder, WorkerTokens
<1>9. ASSUME NEW w \in Workers, ClaimLost(w) PROVE RowTokens'
  BY <1>9, GoOnShape, RecoveredShape, Bounds
     DEF ClaimLost, budgets, history, RowTokens, TypeOK, RowType, Tokens, HandsInOrder, WorkerTokens
<1>10. ASSUME NEW w \in Workers, PartAccepted(w) PROVE RowTokens'
  BY <1>10, Bounds
     DEF PartAccepted, Arrives, AfterPart, budgets, RowTokens, TypeOK, RowType, Tokens, HandsInOrder, WorkerTokens
<1>11. ASSUME NEW w \in Workers, NEW e \in Faults, PartFails(w, e) PROVE RowTokens'
  BY <1>11, Bounds
     DEF PartFails, Arrives, FiledError, budgets, RowTokens, TypeOK, RowType, Tokens, HandsInOrder, WorkerTokens
<1>12. ASSUME NEW w \in Workers, MarkFailure(w) PROVE RowTokens'
  BY <1>12, GoOnShape, Bounds
     DEF MarkFailure, Holds, Failed, Rests, budgets, history, RowTokens, TypeOK, RowType, Tokens, HandsInOrder, WorkerTokens
<1>13. ASSUME NEW w \in Workers, MarkSuccess(w) PROVE RowTokens'
  BY <1>13, GoOnShape, Bounds
     DEF MarkSuccess, RecordSent, Holds, budgets, history, RowTokens, TypeOK, RowType, Tokens, HandsInOrder, WorkerTokens
<1>14. ASSUME NEW w \in Workers, CommitRaises(w) PROVE RowTokens'
  BY <1>14, Bounds
     DEF CommitRaises, RecordSent, Holds, budgets, history, RowTokens, TypeOK, RowType, Tokens, HandsInOrder, WorkerTokens
<1>15. ASSUME NEW w \in Workers, MarkCommitFailure(w) PROVE RowTokens'
  BY <1>15, GoOnShape, Bounds
     DEF MarkCommitFailure, Holds, budgets, history, RowTokens, TypeOK, RowType, Tokens, HandsInOrder, WorkerTokens
<1>16. ASSUME NEW w \in Workers, CommitFailureLost(w) PROVE RowTokens'
  BY <1>16, GoOnShape, Bounds
     DEF CommitFailureLost, budgets, history, RowTokens, TypeOK, RowType, Tokens, HandsInOrder, WorkerTokens
<1>17. ASSUME NEW w \in Workers, Crash(w) PROVE RowTokens'
  BY <1>17, Bounds
     DEF Crash, Idle, history, RowTokens, TypeOK, RowType, Tokens, HandsInOrder, WorkerTokens
<1>18. ASSUME NEW t \in Tokens, LeasePasses(t) PROVE RowTokens'
  BY <1>18, Bounds
     DEF LeasePasses, budgets, history, RowTokens, TypeOK, RowType, Tokens, HandsInOrder, WorkerTokens
<1>19. CASE UNCHANGED vars
  BY <1>19 DEF vars, RowTokens, TypeOK, RowType, Tokens, HandsInOrder, WorkerTokens
<1> QED
  BY <1>1, <1>2, <1>3, <1>4, <1>5, <1>6, <1>7, <1>8, <1>9,
     <1>10, <1>11, <1>12, <1>13, <1>14, <1>15, <1>16, <1>17, <1>18, <1>19 DEF Next, Deliver

\* Tokens are drawn once and by one deliverer.
LEMMA WorkerTokensStep == IInv /\ TypeOK' /\ [Next]_vars => WorkerTokens'
<1> SUFFICES ASSUME IInv, TypeOK', [Next]_vars PROVE WorkerTokens'
  OBVIOUS
<1> USE DEF IInv
<1>1. ASSUME NEW r \in Rows, Enqueue(r) PROVE WorkerTokens'
  BY <1>1, Bounds
     DEF Enqueue, budgets, history, WorkerTokens, TypeOK, WorkerType, Idle, HandsInOrder
<1>2. ASSUME NEW r \in Rows, BackoffEnds(r) PROVE WorkerTokens'
  BY <1>2, Bounds
     DEF BackoffEnds, budgets, history, WorkerTokens, TypeOK, WorkerType, Idle, HandsInOrder
<1>3. ASSUME NEW r \in Rows, NEW ack \in BOOLEAN, Requeue(r, ack) PROVE WorkerTokens'
  BY <1>3, Bounds
     DEF Requeue, Requeueable, WorkerTokens, TypeOK, WorkerType, Idle, HandsInOrder
<1>4. ASSUME NEW w \in Workers, Start(w) PROVE WorkerTokens'
  BY <1>4, RecoveredShape, Bounds
     DEF Start, budgets, history, WorkerTokens, TypeOK, WorkerType, Idle, HandsInOrder
<1>5. ASSUME NEW w \in Workers, ClaimBatch(w) PROVE WorkerTokens'
  <2>1. claims \in Nat /\ claims' = claims + 1
    BY <1>5, ClaimShape
  <2>2. worker'[w].tok \in {0, claims + 1}
    <3>1. CASE worker'[w] = Idle
      BY <3>1 DEF Idle
    <3>2. ASSUME NEW r \in Batch,
                 worker'[w] = [pc |-> "check", tok |-> claims + 1, cur |-> r,
                               rest |-> Batch \ {r}, parts |-> 0, err |-> "none"]
          PROVE  worker'[w].tok = claims + 1
      BY <3>2
    <3> QED
      BY <1>5, <3>1, <3>2, ClaimShape
  <2>3. \A v \in Workers : v # w => worker'[v].tok = worker[v].tok
    BY <1>5, ClaimShape
  <2>4. \A v \in Workers : v # w => worker[v].tok \in 0..claims
    BY DEF WorkerTokens
  <2>5. \A v \in Workers : worker'[v].tok \in 0..claims'
    BY <2>1, <2>2, <2>3, <2>4
  <2>6. ASSUME NEW u \in Workers, NEW v \in Workers,
               worker'[u].tok = worker'[v].tok, worker'[u].tok # 0, u # v
        PROVE  FALSE
    <3>1. CASE u # w /\ v # w
      BY <2>3, <2>6, <3>1 DEF WorkerTokens
    <3>2. CASE u = w \/ v = w
      BY <2>1, <2>2, <2>3, <2>4, <2>6, <3>2
    <3> QED
      BY <3>1, <3>2
  <2> QED
    BY <2>5, <2>6 DEF WorkerTokens
<1>6. ASSUME NEW w \in Workers, NothingToClaim(w) PROVE WorkerTokens'
  BY <1>6, Bounds
     DEF NothingToClaim, Idle, budgets, history, WorkerTokens, TypeOK, WorkerType, HandsInOrder
<1>7. ASSUME NEW w \in Workers, CheckClaim(w) PROVE WorkerTokens'
  BY <1>7, Bounds
     DEF CheckClaim, budgets, history, WorkerTokens, TypeOK, WorkerType, Idle, HandsInOrder
<1>8. ASSUME NEW w \in Workers, CheckFails(w) PROVE WorkerTokens'
  BY <1>8, GoOnHands DEF CheckFails
<1>9. ASSUME NEW w \in Workers, ClaimLost(w) PROVE WorkerTokens'
  BY <1>9, GoOnHands DEF ClaimLost
<1>10. ASSUME NEW w \in Workers, PartAccepted(w) PROVE WorkerTokens'
  BY <1>10, Bounds
     DEF PartAccepted, Arrives, AfterPart, budgets, WorkerTokens, TypeOK, WorkerType, Idle, HandsInOrder
<1>11. ASSUME NEW w \in Workers, NEW e \in Faults, PartFails(w, e) PROVE WorkerTokens'
  BY <1>11, Bounds
     DEF PartFails, Arrives, FiledError, budgets, WorkerTokens, TypeOK, WorkerType, Idle, HandsInOrder
<1>12. ASSUME NEW w \in Workers, MarkFailure(w) PROVE WorkerTokens'
  BY <1>12, GoOnHands DEF MarkFailure
<1>13. ASSUME NEW w \in Workers, MarkSuccess(w) PROVE WorkerTokens'
  BY <1>13, GoOnHands DEF MarkSuccess
<1>14. ASSUME NEW w \in Workers, CommitRaises(w) PROVE WorkerTokens'
  BY <1>14, Bounds
     DEF CommitRaises, RecordSent, Holds, budgets, history, WorkerTokens, TypeOK, WorkerType, Idle, HandsInOrder
<1>15. ASSUME NEW w \in Workers, MarkCommitFailure(w) PROVE WorkerTokens'
  BY <1>15, GoOnHands DEF MarkCommitFailure
<1>16. ASSUME NEW w \in Workers, CommitFailureLost(w) PROVE WorkerTokens'
  BY <1>16, GoOnHands DEF CommitFailureLost
<1>17. ASSUME NEW w \in Workers, Crash(w) PROVE WorkerTokens'
  BY <1>17, Bounds
     DEF Crash, Idle, history, WorkerTokens, TypeOK, WorkerType, HandsInOrder
<1>18. ASSUME NEW t \in Tokens, LeasePasses(t) PROVE WorkerTokens'
  BY <1>18, Bounds
     DEF LeasePasses, budgets, history, WorkerTokens, TypeOK, WorkerType, Idle, HandsInOrder
<1>19. CASE UNCHANGED vars
  BY <1>19 DEF vars, WorkerTokens, TypeOK, WorkerType, Idle, HandsInOrder
<1> QED
  BY <1>1, <1>2, <1>3, <1>4, <1>5, <1>6, <1>7, <1>8, <1>9,
     <1>10, <1>11, <1>12, <1>13, <1>14, <1>15, <1>16, <1>17, <1>18, <1>19 DEF Next, Deliver

\* What a deliverer holds fits the place where it is.
LEMMA HandsInOrderStep == IInv /\ TypeOK' /\ [Next]_vars => HandsInOrder'
<1> SUFFICES ASSUME IInv, TypeOK', [Next]_vars PROVE HandsInOrder'
  OBVIOUS
<1> USE DEF IInv
<1>1. ASSUME NEW r \in Rows, Enqueue(r) PROVE HandsInOrder'
  BY <1>1, PartsPositive
     DEF Enqueue, budgets, history, HandsInOrder, TypeOK, WorkerType, Idle
<1>2. ASSUME NEW r \in Rows, BackoffEnds(r) PROVE HandsInOrder'
  BY <1>2, PartsPositive
     DEF BackoffEnds, budgets, history, HandsInOrder, TypeOK, WorkerType, Idle
<1>3. ASSUME NEW r \in Rows, NEW ack \in BOOLEAN, Requeue(r, ack) PROVE HandsInOrder'
  BY <1>3, PartsPositive
     DEF Requeue, Requeueable, HandsInOrder, TypeOK, WorkerType, Idle
<1>4. ASSUME NEW w \in Workers, Start(w) PROVE HandsInOrder'
  BY <1>4, RecoveredShape, PartsPositive
     DEF Start, budgets, history, HandsInOrder, TypeOK, WorkerType, Idle
<1>5. ASSUME NEW w \in Workers, ClaimBatch(w) PROVE HandsInOrder'
  <2>1. ASSUME NEW v \in Workers
        PROVE  /\ worker'[v].pc \in {"idle", "claim"} =>
                      worker'[v] = [Idle EXCEPT !.pc = worker'[v].pc]
               /\ worker'[v].pc \notin {"idle", "claim"} =>
                      worker'[v].tok # 0 /\ worker'[v].cur # 0
               /\ worker'[v].cur \notin worker'[v].rest
               /\ worker'[v].pc \in {"check", "send"} =>
                      worker'[v].parts < Parts(worker'[v].cur)
    <3>1. CASE v # w
      BY <1>5, <3>1, ClaimShape DEF HandsInOrder
    <3>2. CASE v = w /\ worker'[w] = Idle
      BY <3>2 DEF Idle
    <3>3. ASSUME v = w, NEW r \in Batch,
                 worker'[w] = [pc |-> "check", tok |-> claims + 1, cur |-> r,
                               rest |-> Batch \ {r}, parts |-> 0, err |-> "none"]
          PROVE  /\ worker'[w].pc = "check"
                 /\ worker'[w].tok # 0
                 /\ worker'[w].cur # 0
                 /\ worker'[w].cur \notin worker'[w].rest
                 /\ worker'[w].parts < Parts(worker'[w].cur)
      <4>1. r \in Rows /\ r # 0 /\ claims + 1 # 0
        BY <1>5, ClaimShape, OutboxAssumption
      <4>2. Parts(r) \in Nat /\ 0 < Parts(r)
        BY PartsPositive
      <4> QED
        BY <3>3, <4>1, <4>2
    <3> QED
      BY <1>5, <3>1, <3>2, <3>3, ClaimShape
  <2> QED
    BY <2>1 DEF HandsInOrder
<1>6. ASSUME NEW w \in Workers, NothingToClaim(w) PROVE HandsInOrder'
  BY <1>6, PartsPositive
     DEF NothingToClaim, Idle, budgets, history, HandsInOrder, TypeOK, WorkerType
<1>7. ASSUME NEW w \in Workers, CheckClaim(w) PROVE HandsInOrder'
  BY <1>7, PartsPositive
     DEF CheckClaim, budgets, history, HandsInOrder, TypeOK, WorkerType, Idle
<1>8. ASSUME NEW w \in Workers, CheckFails(w) PROVE HandsInOrder'
  BY <1>8, GoOnHands DEF CheckFails
<1>9. ASSUME NEW w \in Workers, ClaimLost(w) PROVE HandsInOrder'
  BY <1>9, GoOnHands DEF ClaimLost
<1>10. ASSUME NEW w \in Workers, PartAccepted(w) PROVE HandsInOrder'
  BY <1>10, PartsPositive
     DEF PartAccepted, Arrives, AfterPart, budgets, HandsInOrder, TypeOK, WorkerType, Idle
<1>11. ASSUME NEW w \in Workers, NEW e \in Faults, PartFails(w, e) PROVE HandsInOrder'
  BY <1>11, PartsPositive
     DEF PartFails, Arrives, FiledError, budgets, HandsInOrder, TypeOK, WorkerType, Idle
<1>12. ASSUME NEW w \in Workers, MarkFailure(w) PROVE HandsInOrder'
  BY <1>12, GoOnHands DEF MarkFailure
<1>13. ASSUME NEW w \in Workers, MarkSuccess(w) PROVE HandsInOrder'
  BY <1>13, GoOnHands DEF MarkSuccess
<1>14. ASSUME NEW w \in Workers, CommitRaises(w) PROVE HandsInOrder'
  BY <1>14, PartsPositive
     DEF CommitRaises, RecordSent, Holds, budgets, history, HandsInOrder, TypeOK, WorkerType, Idle
<1>15. ASSUME NEW w \in Workers, MarkCommitFailure(w) PROVE HandsInOrder'
  BY <1>15, GoOnHands DEF MarkCommitFailure
<1>16. ASSUME NEW w \in Workers, CommitFailureLost(w) PROVE HandsInOrder'
  BY <1>16, GoOnHands DEF CommitFailureLost
<1>17. ASSUME NEW w \in Workers, Crash(w) PROVE HandsInOrder'
  BY <1>17, PartsPositive
     DEF Crash, Idle, history, HandsInOrder, TypeOK, WorkerType
<1>18. ASSUME NEW t \in Tokens, LeasePasses(t) PROVE HandsInOrder'
  BY <1>18, PartsPositive
     DEF LeasePasses, budgets, history, HandsInOrder, TypeOK, WorkerType, Idle
<1>19. CASE UNCHANGED vars
  BY <1>19 DEF vars, HandsInOrder, TypeOK, WorkerType, Idle
<1> QED
  BY <1>1, <1>2, <1>3, <1>4, <1>5, <1>6, <1>7, <1>8, <1>9,
     <1>10, <1>11, <1>12, <1>13, <1>14, <1>15, <1>16, <1>17, <1>18, <1>19 DEF Next, Deliver

\* A row that may be sent has an attempt left.
LEMMA AttemptsLeftStep == IInv /\ TypeOK' /\ [Next]_vars => AttemptsLeft'
<1> SUFFICES ASSUME IInv, TypeOK', [Next]_vars PROVE AttemptsLeft'
  OBVIOUS
<1> USE DEF IInv
<1>1. ASSUME NEW r \in Rows, Enqueue(r) PROVE AttemptsLeft'
  BY <1>1, Bounds
     DEF Enqueue, budgets, history, AttemptsLeft, TypeOK, RowType
<1>2. ASSUME NEW r \in Rows, BackoffEnds(r) PROVE AttemptsLeft'
  BY <1>2, Bounds
     DEF BackoffEnds, budgets, history, AttemptsLeft, TypeOK, RowType
<1>3. ASSUME NEW r \in Rows, NEW ack \in BOOLEAN, Requeue(r, ack) PROVE AttemptsLeft'
  BY <1>3, Bounds
     DEF Requeue, Requeueable, AttemptsLeft, TypeOK, RowType
<1>4. ASSUME NEW w \in Workers, Start(w) PROVE AttemptsLeft'
  BY <1>4, RecoveredShape, Bounds
     DEF Start, budgets, history, AttemptsLeft, TypeOK, RowType
<1>5. ASSUME NEW w \in Workers, ClaimBatch(w) PROVE AttemptsLeft'
  <2>1. UNCHANGED <<card, notified, shown, licensed>>
    BY <1>5 DEF ClaimBatch
  <2> QED
    BY <1>5, <2>1, ClaimShape, Bounds DEF AttemptsLeft
<1>6. ASSUME NEW w \in Workers, NothingToClaim(w) PROVE AttemptsLeft'
  BY <1>6, Bounds
     DEF NothingToClaim, Idle, budgets, history, AttemptsLeft, TypeOK, RowType
<1>7. ASSUME NEW w \in Workers, CheckClaim(w) PROVE AttemptsLeft'
  BY <1>7, Bounds
     DEF CheckClaim, budgets, history, AttemptsLeft, TypeOK, RowType
<1>8. ASSUME NEW w \in Workers, CheckFails(w) PROVE AttemptsLeft'
  BY <1>8, GoOnShape, Bounds
     DEF CheckFails, budgets, history, AttemptsLeft, TypeOK, RowType
<1>9. ASSUME NEW w \in Workers, ClaimLost(w) PROVE AttemptsLeft'
  BY <1>9, GoOnShape, RecoveredShape, Bounds
     DEF ClaimLost, budgets, history, AttemptsLeft, TypeOK, RowType
<1>10. ASSUME NEW w \in Workers, PartAccepted(w) PROVE AttemptsLeft'
  BY <1>10, Bounds
     DEF PartAccepted, Arrives, AfterPart, budgets, AttemptsLeft, TypeOK, RowType
<1>11. ASSUME NEW w \in Workers, NEW e \in Faults, PartFails(w, e) PROVE AttemptsLeft'
  BY <1>11, Bounds
     DEF PartFails, Arrives, FiledError, budgets, AttemptsLeft, TypeOK, RowType
<1>12. ASSUME NEW w \in Workers, MarkFailure(w) PROVE AttemptsLeft'
  BY <1>12, GoOnShape, Bounds
     DEF MarkFailure, Holds, Failed, Rests, budgets, history, AttemptsLeft, TypeOK, RowType
<1>13. ASSUME NEW w \in Workers, MarkSuccess(w) PROVE AttemptsLeft'
  BY <1>13, GoOnShape, Bounds
     DEF MarkSuccess, RecordSent, Holds, budgets, history, AttemptsLeft, TypeOK, RowType
<1>14. ASSUME NEW w \in Workers, CommitRaises(w) PROVE AttemptsLeft'
  BY <1>14, Bounds
     DEF CommitRaises, RecordSent, Holds, budgets, history, AttemptsLeft, TypeOK, RowType
<1>15. ASSUME NEW w \in Workers, MarkCommitFailure(w) PROVE AttemptsLeft'
  BY <1>15, GoOnShape, Bounds
     DEF MarkCommitFailure, Holds, budgets, history, AttemptsLeft, TypeOK, RowType
<1>16. ASSUME NEW w \in Workers, CommitFailureLost(w) PROVE AttemptsLeft'
  BY <1>16, GoOnShape, Bounds
     DEF CommitFailureLost, budgets, history, AttemptsLeft, TypeOK, RowType
<1>17. ASSUME NEW w \in Workers, Crash(w) PROVE AttemptsLeft'
  BY <1>17, Bounds
     DEF Crash, Idle, history, AttemptsLeft, TypeOK, RowType
<1>18. ASSUME NEW t \in Tokens, LeasePasses(t) PROVE AttemptsLeft'
  BY <1>18, Bounds
     DEF LeasePasses, budgets, history, AttemptsLeft, TypeOK, RowType
<1>19. CASE UNCHANGED vars
  BY <1>19 DEF vars, AttemptsLeft, TypeOK, RowType
<1> QED
  BY <1>1, <1>2, <1>3, <1>4, <1>5, <1>6, <1>7, <1>8, <1>9,
     <1>10, <1>11, <1>12, <1>13, <1>14, <1>15, <1>16, <1>17, <1>18, <1>19 DEF Next, Deliver

\* A message id belongs to a closed row.
LEMMA EvidenceClosesStep == IInv /\ TypeOK' /\ [Next]_vars => EvidenceCloses'
<1> SUFFICES ASSUME IInv, TypeOK', [Next]_vars PROVE EvidenceCloses'
  OBVIOUS
<1> USE DEF IInv
<1>1. ASSUME NEW r \in Rows, Enqueue(r) PROVE EvidenceCloses'
  BY <1>1
     DEF Enqueue, budgets, history, EvidenceCloses, TypeOK, RowType, HandsInOrder, WorkerType
<1>2. ASSUME NEW r \in Rows, BackoffEnds(r) PROVE EvidenceCloses'
  BY <1>2
     DEF BackoffEnds, budgets, history, EvidenceCloses, TypeOK, RowType, HandsInOrder, WorkerType
<1>3. ASSUME NEW r \in Rows, NEW ack \in BOOLEAN, Requeue(r, ack) PROVE EvidenceCloses'
  BY <1>3
     DEF Requeue, Requeueable, EvidenceCloses, TypeOK, RowType, HandsInOrder, WorkerType
<1>4. ASSUME NEW w \in Workers, Start(w) PROVE EvidenceCloses'
  BY <1>4, RecoveredShape
     DEF Start, budgets, history, EvidenceCloses, TypeOK, RowType, HandsInOrder, WorkerType
<1>5. ASSUME NEW w \in Workers, ClaimBatch(w) PROVE EvidenceCloses'
  <2>1. UNCHANGED <<card, notified, shown, licensed>>
    BY <1>5 DEF ClaimBatch
  <2> QED
    BY <1>5, <2>1, ClaimShape, Bounds DEF EvidenceCloses
<1>6. ASSUME NEW w \in Workers, NothingToClaim(w) PROVE EvidenceCloses'
  BY <1>6
     DEF NothingToClaim, Idle, budgets, history, EvidenceCloses, TypeOK, RowType, HandsInOrder, WorkerType
<1>7. ASSUME NEW w \in Workers, CheckClaim(w) PROVE EvidenceCloses'
  BY <1>7
     DEF CheckClaim, budgets, history, EvidenceCloses, TypeOK, RowType, HandsInOrder, WorkerType
<1>8. ASSUME NEW w \in Workers, CheckFails(w) PROVE EvidenceCloses'
  BY <1>8, GoOnShape
     DEF CheckFails, budgets, history, EvidenceCloses, TypeOK, RowType, HandsInOrder, WorkerType
<1>9. ASSUME NEW w \in Workers, ClaimLost(w) PROVE EvidenceCloses'
  BY <1>9, GoOnShape, RecoveredShape
     DEF ClaimLost, budgets, history, EvidenceCloses, TypeOK, RowType, HandsInOrder, WorkerType
<1>10. ASSUME NEW w \in Workers, PartAccepted(w) PROVE EvidenceCloses'
  BY <1>10
     DEF PartAccepted, Arrives, AfterPart, budgets, EvidenceCloses, TypeOK, RowType, HandsInOrder, WorkerType
<1>11. ASSUME NEW w \in Workers, NEW e \in Faults, PartFails(w, e) PROVE EvidenceCloses'
  BY <1>11
     DEF PartFails, Arrives, FiledError, budgets, EvidenceCloses, TypeOK, RowType, HandsInOrder, WorkerType
<1>12. ASSUME NEW w \in Workers, MarkFailure(w) PROVE EvidenceCloses'
  BY <1>12, GoOnShape
     DEF MarkFailure, Holds, Failed, Rests, budgets, history, EvidenceCloses, TypeOK, RowType, HandsInOrder, WorkerType
<1>13. ASSUME NEW w \in Workers, MarkSuccess(w) PROVE EvidenceCloses'
  BY <1>13, GoOnShape
     DEF MarkSuccess, RecordSent, Holds, budgets, history, EvidenceCloses, TypeOK, RowType, HandsInOrder, WorkerType
<1>14. ASSUME NEW w \in Workers, CommitRaises(w) PROVE EvidenceCloses'
  BY <1>14
     DEF CommitRaises, RecordSent, Holds, budgets, history, EvidenceCloses, TypeOK, RowType, HandsInOrder, WorkerType
<1>15. ASSUME NEW w \in Workers, MarkCommitFailure(w) PROVE EvidenceCloses'
  BY <1>15, GoOnShape
     DEF MarkCommitFailure, Holds, budgets, history, EvidenceCloses, TypeOK, RowType, HandsInOrder, WorkerType
<1>16. ASSUME NEW w \in Workers, CommitFailureLost(w) PROVE EvidenceCloses'
  BY <1>16, GoOnShape
     DEF CommitFailureLost, budgets, history, EvidenceCloses, TypeOK, RowType, HandsInOrder, WorkerType
<1>17. ASSUME NEW w \in Workers, Crash(w) PROVE EvidenceCloses'
  BY <1>17
     DEF Crash, Idle, history, EvidenceCloses, TypeOK, RowType, HandsInOrder, WorkerType
<1>18. ASSUME NEW t \in Tokens, LeasePasses(t) PROVE EvidenceCloses'
  BY <1>18
     DEF LeasePasses, budgets, history, EvidenceCloses, TypeOK, RowType, HandsInOrder, WorkerType
<1>19. CASE UNCHANGED vars
  BY <1>19 DEF vars, EvidenceCloses, TypeOK, RowType, HandsInOrder, WorkerType
<1> QED
  BY <1>1, <1>2, <1>3, <1>4, <1>5, <1>6, <1>7, <1>8, <1>9,
     <1>10, <1>11, <1>12, <1>13, <1>14, <1>15, <1>16, <1>17, <1>18, <1>19 DEF Next, Deliver

\* What is recorded as delivered was shown.
LEMMA RecordedMeansShownStep == IInv /\ TypeOK' /\ [Next]_vars => RecordedMeansShown'
<1> SUFFICES ASSUME IInv, TypeOK', [Next]_vars PROVE RecordedMeansShown'
  OBVIOUS
<1> USE DEF IInv
<1>1. ASSUME NEW r \in Rows, Enqueue(r) PROVE RecordedMeansShown'
  BY <1>1
     DEF Enqueue, budgets, history, RecordedMeansShown, InHand, EvidenceCloses, TypeOK, RowType, HandsInOrder, WorkerType
<1>2. ASSUME NEW r \in Rows, BackoffEnds(r) PROVE RecordedMeansShown'
  BY <1>2
     DEF BackoffEnds, budgets, history, RecordedMeansShown, InHand, EvidenceCloses, TypeOK, RowType, HandsInOrder, WorkerType
<1>3. ASSUME NEW r \in Rows, NEW ack \in BOOLEAN, Requeue(r, ack) PROVE RecordedMeansShown'
  BY <1>3
     DEF Requeue, Requeueable, RecordedMeansShown, InHand, EvidenceCloses, TypeOK, RowType, HandsInOrder, WorkerType
<1>4. ASSUME NEW w \in Workers, Start(w) PROVE RecordedMeansShown'
  BY <1>4, RecoveredShape
     DEF Start, budgets, history, RecordedMeansShown, InHand, EvidenceCloses, TypeOK, RowType, HandsInOrder, WorkerType
<1>5. ASSUME NEW w \in Workers, ClaimBatch(w) PROVE RecordedMeansShown'
  <2>1. UNCHANGED <<card, notified, shown, licensed>>
    BY <1>5 DEF ClaimBatch
  <2> QED
    BY <1>5, <2>1, ClaimShape, Bounds DEF RecordedMeansShown, EvidenceCloses
<1>6. ASSUME NEW w \in Workers, NothingToClaim(w) PROVE RecordedMeansShown'
  BY <1>6
     DEF NothingToClaim, Idle, budgets, history, RecordedMeansShown, InHand, EvidenceCloses, TypeOK, RowType, HandsInOrder, WorkerType
<1>7. ASSUME NEW w \in Workers, CheckClaim(w) PROVE RecordedMeansShown'
  BY <1>7
     DEF CheckClaim, budgets, history, RecordedMeansShown, InHand, EvidenceCloses, TypeOK, RowType, HandsInOrder, WorkerType
<1>8. ASSUME NEW w \in Workers, CheckFails(w) PROVE RecordedMeansShown'
  BY <1>8, GoOnShape
     DEF CheckFails, budgets, history, RecordedMeansShown, InHand, EvidenceCloses, TypeOK, RowType, HandsInOrder, WorkerType
<1>9. ASSUME NEW w \in Workers, ClaimLost(w) PROVE RecordedMeansShown'
  BY <1>9, GoOnShape, RecoveredShape
     DEF ClaimLost, budgets, history, RecordedMeansShown, InHand, EvidenceCloses, TypeOK, RowType, HandsInOrder, WorkerType
<1>10. ASSUME NEW w \in Workers, PartAccepted(w) PROVE RecordedMeansShown'
  BY <1>10
     DEF PartAccepted, Arrives, AfterPart, budgets, RecordedMeansShown, InHand, EvidenceCloses, TypeOK, RowType, HandsInOrder, WorkerType
<1>11. ASSUME NEW w \in Workers, NEW e \in Faults, PartFails(w, e) PROVE RecordedMeansShown'
  <2>1. /\ UNCHANGED <<row, card, notified>>
        /\ \A r \in Rows : shown[r] \subseteq shown'[r]
    BY <1>11 DEF PartFails, Arrives, TypeOK
  <2> QED
    BY <2>1 DEF RecordedMeansShown
<1>12. ASSUME NEW w \in Workers, MarkFailure(w) PROVE RecordedMeansShown'
  BY <1>12, GoOnShape
     DEF MarkFailure, Holds, Failed, Rests, budgets, history, RecordedMeansShown, InHand, EvidenceCloses, TypeOK, RowType, HandsInOrder, WorkerType
<1>13. ASSUME NEW w \in Workers, MarkSuccess(w) PROVE RecordedMeansShown'
  BY <1>13, GoOnShape
     DEF MarkSuccess, RecordSent, Holds, budgets, history, RecordedMeansShown, InHand, EvidenceCloses, TypeOK, RowType, HandsInOrder, WorkerType
<1>14. ASSUME NEW w \in Workers, CommitRaises(w) PROVE RecordedMeansShown'
  BY <1>14
     DEF CommitRaises, RecordSent, Holds, budgets, history, RecordedMeansShown, InHand, EvidenceCloses, TypeOK, RowType, HandsInOrder, WorkerType
<1>15. ASSUME NEW w \in Workers, MarkCommitFailure(w) PROVE RecordedMeansShown'
  BY <1>15, GoOnShape
     DEF MarkCommitFailure, Holds, budgets, history, RecordedMeansShown, InHand, EvidenceCloses, TypeOK, RowType, HandsInOrder, WorkerType
<1>16. ASSUME NEW w \in Workers, CommitFailureLost(w) PROVE RecordedMeansShown'
  BY <1>16, GoOnShape
     DEF CommitFailureLost, budgets, history, RecordedMeansShown, InHand, EvidenceCloses, TypeOK, RowType, HandsInOrder, WorkerType
<1>17. ASSUME NEW w \in Workers, Crash(w) PROVE RecordedMeansShown'
  BY <1>17
     DEF Crash, Idle, history, RecordedMeansShown, InHand, EvidenceCloses, TypeOK, RowType, HandsInOrder, WorkerType
<1>18. ASSUME NEW t \in Tokens, LeasePasses(t) PROVE RecordedMeansShown'
  BY <1>18
     DEF LeasePasses, budgets, history, RecordedMeansShown, InHand, EvidenceCloses, TypeOK, RowType, HandsInOrder, WorkerType
<1>19. CASE UNCHANGED vars
  BY <1>19 DEF vars, RecordedMeansShown, InHand, EvidenceCloses, TypeOK, RowType, HandsInOrder, WorkerType
<1> QED
  BY <1>1, <1>2, <1>3, <1>4, <1>5, <1>6, <1>7, <1>8, <1>9,
     <1>10, <1>11, <1>12, <1>13, <1>14, <1>15, <1>16, <1>17, <1>18, <1>19 DEF Next, Deliver

-----------------------------------------------------------------------------
(* What a step does to the claims a deliverer relies on                    *)

\* Going on, a deliverer has no row ahead that it had not to come.
LEMMA GoOnAhead ==
    ASSUME TypeOK, NEW w \in Workers, GoOn(w), NEW v \in Workers, NEW r \in Ahead(v)'
    PROVE  /\ r \in Ahead(v)
           /\ worker'[v].tok = worker[v].tok
           /\ v = w => r \in worker[w].rest
<1>1. CASE v # w
  <2>1. worker'[v] = worker[v]
    BY <1>1, GoOnShape
  <2> QED
    BY <1>1, <2>1 DEF Ahead
<1>2. CASE worker'[w] = Idle /\ v = w
  BY <1>2 DEF Ahead, Idle
<1>3. ASSUME v = w, NEW q \in worker[w].rest,
             worker'[w] = [pc |-> "check", tok |-> worker[w].tok, cur |-> q,
                           rest |-> worker[w].rest \ {q}, parts |-> 0, err |-> "none"]
      PROVE  r \in worker[w].rest /\ worker'[w].tok = worker[w].tok
  <2>1. /\ worker'[w].cur = q /\ worker'[w].rest = worker[w].rest \ {q}
        /\ worker'[w].tok = worker[w].tok
    BY <1>3
  <2> QED
    BY <1>3, <2>1 DEF Ahead
<1> QED
  BY <1>1, <1>2, <1>3, GoOnShape DEF Ahead

\* What a deliverer will still send is what it would have sent before, or the batch
\* it has just claimed.
LEMMA AheadShrinks ==
    ASSUME IInv, [Next]_vars, NEW v \in Workers, NEW r \in Ahead(v)'
    PROVE  \/ r \in Ahead(v) /\ worker'[v].tok = worker[v].tok
           \/ ClaimBatch(v) /\ r \in Batch /\ worker'[v].tok = claims + 1
<1> USE DEF IInv
<1> DEFINE Goal == \/ r \in Ahead(v) /\ worker'[v].tok = worker[v].tok
                   \/ ClaimBatch(v) /\ r \in Batch /\ worker'[v].tok = claims + 1
<1>1. ASSUME NEW r0 \in Rows, Enqueue(r0) PROVE Goal
  BY <1>1 DEF Enqueue, Ahead, TypeOK, WorkerType, Idle, AfterPart
<1>2. ASSUME NEW r0 \in Rows, BackoffEnds(r0) PROVE Goal
  BY <1>2 DEF BackoffEnds, Ahead, TypeOK, WorkerType, Idle, AfterPart
<1>3. ASSUME NEW r0 \in Rows, NEW ack \in BOOLEAN, Requeue(r0, ack) PROVE Goal
  BY <1>3 DEF Requeue, Ahead, TypeOK, WorkerType, Idle, AfterPart
<1>4. ASSUME NEW w \in Workers, Start(w) PROVE Goal
  BY <1>4 DEF Start, Ahead, TypeOK, WorkerType, Idle, AfterPart
<1>5. ASSUME NEW w \in Workers, ClaimBatch(w) PROVE Goal
  <2>1. CASE v # w
    BY <1>5, <2>1, ClaimShape DEF Ahead
  <2>2. CASE v = w /\ worker'[w] = Idle
    BY <2>2 DEF Ahead, Idle
  <2>3. ASSUME v = w, NEW q \in Batch,
               worker'[w] = [pc |-> "check", tok |-> claims + 1, cur |-> q,
                             rest |-> Batch \ {q}, parts |-> 0, err |-> "none"]
        PROVE  Goal
    <3>1. worker'[w].tok = claims + 1 /\ worker'[w].cur = q /\ worker'[w].rest = Batch \ {q}
      BY <2>3
    <3>2. r \in Batch
      BY <2>3, <3>1 DEF Ahead
    <3> QED
      BY <1>5, <2>3, <3>1, <3>2
  <2> QED
    BY <1>5, <2>1, <2>2, <2>3, ClaimShape
<1>6. ASSUME NEW w \in Workers, NothingToClaim(w) PROVE Goal
  BY <1>6 DEF NothingToClaim, Ahead, TypeOK, WorkerType, Idle, AfterPart
<1>7. ASSUME NEW w \in Workers, CheckClaim(w) PROVE Goal
  BY <1>7 DEF CheckClaim, Ahead, TypeOK, WorkerType, Idle, AfterPart
<1>8. ASSUME NEW w \in Workers, CheckFails(w) PROVE Goal
  BY <1>8, GoOnAhead DEF CheckFails
<1>9. ASSUME NEW w \in Workers, ClaimLost(w) PROVE Goal
  BY <1>9, GoOnAhead DEF ClaimLost
<1>10. ASSUME NEW w \in Workers, PartAccepted(w) PROVE Goal
  BY <1>10 DEF PartAccepted, Ahead, TypeOK, WorkerType, Idle, AfterPart
<1>11. ASSUME NEW w \in Workers, NEW e \in Faults, PartFails(w, e) PROVE Goal
  BY <1>11 DEF PartFails, Ahead, TypeOK, WorkerType, Idle, AfterPart
<1>12. ASSUME NEW w \in Workers, MarkFailure(w) PROVE Goal
  BY <1>12, GoOnAhead DEF MarkFailure
<1>13. ASSUME NEW w \in Workers, MarkSuccess(w) PROVE Goal
  BY <1>13, GoOnAhead DEF MarkSuccess
<1>14. ASSUME NEW w \in Workers, CommitRaises(w) PROVE Goal
  BY <1>14 DEF CommitRaises, Ahead, TypeOK, WorkerType, Idle, AfterPart
<1>15. ASSUME NEW w \in Workers, MarkCommitFailure(w) PROVE Goal
  BY <1>15, GoOnAhead DEF MarkCommitFailure
<1>16. ASSUME NEW w \in Workers, CommitFailureLost(w) PROVE Goal
  BY <1>16, GoOnAhead DEF CommitFailureLost
<1>17. ASSUME NEW w \in Workers, Crash(w) PROVE Goal
  BY <1>17 DEF Crash, Ahead, TypeOK, WorkerType, Idle, AfterPart
<1>18. ASSUME NEW x \in Tokens, LeasePasses(x) PROVE Goal
  BY <1>18 DEF LeasePasses, Ahead, TypeOK, WorkerType, Idle, AfterPart
<1>19. CASE UNCHANGED vars
  BY <1>19 DEF vars, Ahead
<1> QED
  BY <1>1, <1>2, <1>3, <1>4, <1>5, <1>6, <1>7, <1>8, <1>9,
     <1>10, <1>11, <1>12, <1>13, <1>14, <1>15, <1>16, <1>17, <1>18, <1>19 DEF Next, Deliver

\* A deliverer that goes on after filing an outcome has moved.
LEMMA GoOnMoves ==
    ASSUME TypeOK, NEW w \in Workers, GoOn(w), worker[w].pc \notin {"idle", "check"}
    PROVE  worker'[w] # worker[w]
<1>1. worker'[w].pc \in {"idle", "check"}
  <2>1. ASSUME NEW q \in worker[w].rest,
               worker'[w] = [pc |-> "check", tok |-> worker[w].tok, cur |-> q,
                             rest |-> worker[w].rest \ {q}, parts |-> 0, err |-> "none"]
        PROVE  worker'[w].pc = "check"
    BY <2>1
  <2>2. CASE worker'[w] = Idle
    BY <2>2 DEF Idle
  <2> QED
    BY <2>1, <2>2, GoOnShape
<1> QED
  BY <1>1

\* The local state of a deliverer is a record of its type.
LEMMA WorkerTyped == TypeOK => \A w \in Workers : worker[w] \in WorkerType
BY DEF TypeOK

\* A claim that is accounted for stays so, unless its own deliverer files the outcome.
LEMMA AccountedKept ==
    ASSUME IInv, [Next]_vars, NEW r \in Rows, NEW t, Accounted(r, t),
           \A w \in Workers : worker[w].tok = t /\ worker[w].cur = r =>
               \/ worker'[w] = worker[w]
               \/ worker[w].pc \notin {"fail", "finalize", "commit_failed"}
    PROVE  Accounted(r, t)'
<1> USE DEF IInv
<1>1. ASSUME NEW r0 \in Rows, Enqueue(r0) PROVE Accounted(r, t)'
  BY <1>1 DEF Enqueue, Accounted, TypeOK, history
<1>2. ASSUME NEW r0 \in Rows, BackoffEnds(r0) PROVE Accounted(r, t)'
  BY <1>2 DEF BackoffEnds, Accounted, TypeOK, RowType, history
<1>3. ASSUME NEW r0 \in Rows, NEW ack \in BOOLEAN, Requeue(r0, ack) PROVE Accounted(r, t)'
  BY <1>3 DEF Requeue, Requeueable, Accounted, TypeOK, RowType
<1>4. ASSUME NEW w \in Workers, Start(w) PROVE Accounted(r, t)'
  <2>1. row'[r] = Recovered[r] /\ UNCHANGED history
    BY <1>4 DEF Start
  <2> QED
    BY <2>1, RecoveredShape DEF Accounted, history, RowTokens
<1>5. ASSUME NEW w \in Workers, ClaimBatch(w) PROVE Accounted(r, t)'
  <2>1. licensed' = licensed
    BY <1>5 DEF ClaimBatch
  <2> QED
    BY <1>5, <2>1, ClaimShape DEF Accounted
<1>6. ASSUME NEW w \in Workers, NothingToClaim(w) PROVE Accounted(r, t)'
  BY <1>6 DEF NothingToClaim, Accounted, budgets, history
<1>7. ASSUME NEW w \in Workers, CheckClaim(w) PROVE Accounted(r, t)'
  BY <1>7 DEF CheckClaim, Accounted, budgets, history
<1>8. ASSUME NEW w \in Workers, CheckFails(w) PROVE Accounted(r, t)'
  BY <1>8 DEF CheckFails, Accounted, budgets, history
<1>9. ASSUME NEW w \in Workers, ClaimLost(w) PROVE Accounted(r, t)'
  <2>1. row'[r] = Recovered[r] /\ UNCHANGED history
    BY <1>9 DEF ClaimLost
  <2> QED
    BY <2>1, RecoveredShape DEF Accounted, history, RowTokens
<1>10. ASSUME NEW w \in Workers, PartAccepted(w) PROVE Accounted(r, t)'
  BY <1>10 DEF PartAccepted, Accounted, budgets, history
<1>11. ASSUME NEW w \in Workers, NEW e \in Faults, PartFails(w, e) PROVE Accounted(r, t)'
  BY <1>11 DEF PartFails, Accounted, budgets, history
<1>12. ASSUME NEW w \in Workers, MarkFailure(w) PROVE Accounted(r, t)'
  <2>1. worker[w].pc = "fail" /\ worker'[w] # worker[w] /\ UNCHANGED history
    BY <1>12, GoOnMoves DEF MarkFailure
  <2>2. CASE row'[r] = row[r]
    BY <2>1, <2>2 DEF Accounted, history
  <2>3. CASE row'[r] # row[r]
    <3>1. r = worker[w].cur /\ Holds(w, r)
      BY <1>12, <2>3 DEF MarkFailure, TypeOK
    <3>2. t # worker[w].tok
      BY <2>1, <3>1
    <3> QED
      BY <2>1, <3>1, <3>2 DEF Accounted, Holds, history
  <2> QED
    BY <2>2, <2>3
<1>13. ASSUME NEW w \in Workers, MarkSuccess(w) PROVE Accounted(r, t)'
  <2>1. worker[w].pc = "finalize" /\ worker'[w] # worker[w] /\ UNCHANGED history
    BY <1>13, GoOnMoves DEF MarkSuccess
  <2>2. CASE row'[r] = row[r]
    BY <2>1, <2>2 DEF Accounted, history
  <2>3. CASE row'[r] # row[r]
    <3>1. r = worker[w].cur /\ Holds(w, r)
      BY <1>13, <2>3 DEF MarkSuccess, RecordSent, TypeOK
    <3>2. t # worker[w].tok
      BY <2>1, <3>1
    <3> QED
      BY <2>1, <3>1, <3>2 DEF Accounted, Holds, history
  <2> QED
    BY <2>2, <2>3
<1>14. ASSUME NEW w \in Workers, CommitRaises(w) PROVE Accounted(r, t)'
  <2>1. worker[w].pc = "finalize" /\ worker'[w] # worker[w] /\ UNCHANGED history
    BY <1>14 DEF CommitRaises, TypeOK, WorkerType
  <2>2. CASE row'[r] = row[r]
    BY <2>1, <2>2 DEF Accounted, history
  <2>3. CASE row'[r] # row[r]
    <3>1. r = worker[w].cur /\ Holds(w, r)
      BY <1>14, <2>3 DEF CommitRaises, RecordSent, TypeOK
    <3>2. t # worker[w].tok
      BY <2>1, <3>1
    <3> QED
      BY <2>1, <3>1, <3>2 DEF Accounted, Holds, history
  <2> QED
    BY <2>2, <2>3
<1>15. ASSUME NEW w \in Workers, MarkCommitFailure(w) PROVE Accounted(r, t)'
  <2>1. worker[w].pc = "commit_failed" /\ worker'[w] # worker[w] /\ UNCHANGED history
    BY <1>15, GoOnMoves DEF MarkCommitFailure
  <2>2. CASE row'[r] = row[r]
    BY <2>1, <2>2 DEF Accounted, history
  <2>3. CASE row'[r] # row[r]
    <3>1. r = worker[w].cur /\ Holds(w, r)
      BY <1>15, <2>3 DEF MarkCommitFailure, TypeOK
    <3>2. t # worker[w].tok
      BY <2>1, <3>1
    <3> QED
      BY <2>1, <3>1, <3>2 DEF Accounted, Holds, history
  <2> QED
    BY <2>2, <2>3
<1>16. ASSUME NEW w \in Workers, CommitFailureLost(w) PROVE Accounted(r, t)'
  BY <1>16 DEF CommitFailureLost, Accounted, budgets, history
<1>17. ASSUME NEW w \in Workers, Crash(w) PROVE Accounted(r, t)'
  BY <1>17 DEF Crash, Accounted, budgets, history
<1>18. ASSUME NEW x \in Tokens, LeasePasses(x) PROVE Accounted(r, t)'
  BY <1>18 DEF LeasePasses, Accounted, budgets, history
<1>19. CASE UNCHANGED vars
  BY <1>19 DEF vars, Accounted
<1> QED
  BY <1>1, <1>2, <1>3, <1>4, <1>5, <1>6, <1>7, <1>8, <1>9,
     <1>10, <1>11, <1>12, <1>13, <1>14, <1>15, <1>16, <1>17, <1>18, <1>19 DEF Next, Deliver

\* Only the deliverer that sends the row's last message shows it; if the request
\* failed nevertheless, an approvable card was under way and is filed as partial.
LEMMA ShownKept ==
    ASSUME IInv, [Next]_vars, NEW r \in Rows, NEW t, t \in shown'[r], t \notin shown[r]
    PROVE  /\ \E w \in Workers :
                 /\ worker[w].pc = "send" /\ worker[w].cur = r /\ worker[w].tok = t
                 /\ worker'[w].pc \in {"fail", "finalize"}
                 /\ worker'[w].cur = r /\ worker'[w].rest = worker[w].rest
                 /\ worker'[w].pc = "fail" /\ r \in Approvable => worker'[w].err = "partial"
           /\ UNCHANGED <<row, lastTok, licensed>>
<1>1. ASSUME NEW w \in Workers, PartAccepted(w)
      PROVE  /\ worker[w].pc = "send" /\ worker[w].cur = r /\ worker[w].tok = t
             /\ worker'[w].pc = "finalize"
             /\ worker'[w].cur = r /\ worker'[w].rest = worker[w].rest
             /\ UNCHANGED <<row, lastTok, licensed>>
  <2>1. r = worker[w].cur /\ t = worker[w].tok /\ worker[w].parts + 1 = Parts(r)
    BY <1>1 DEF IInv, PartAccepted, Arrives, TypeOK
  <2>2. AfterPart(worker[w].parts + 1, r) = "finalize"
    BY <2>1, PartsPositive DEF AfterPart
  <2>3. worker[w] \in WorkerType
    BY WorkerTyped DEF IInv
  <2> QED
    BY <1>1, <2>1, <2>2, <2>3 DEF IInv, PartAccepted, TypeOK, WorkerType
<1>2. ASSUME NEW w \in Workers, NEW e \in Faults, PartFails(w, e)
      PROVE  /\ worker[w].pc = "send" /\ worker[w].cur = r /\ worker[w].tok = t
             /\ worker'[w].pc = "fail"
             /\ worker'[w].cur = r /\ worker'[w].rest = worker[w].rest
             /\ r \in Approvable => worker'[w].err = "partial"
             /\ UNCHANGED <<row, lastTok, licensed>>
  <2>1. r = worker[w].cur /\ t = worker[w].tok /\ worker[w].parts + 1 = Parts(r)
    BY <1>2 DEF IInv, PartFails, Arrives, TypeOK
  <2>2. worker[w] \in WorkerType
    BY WorkerTyped DEF IInv
  <2>3. ASSUME r \in Approvable PROVE FiledError(w, e) = "partial"
    <3>1. worker[w].parts \in Nat /\ worker[w].parts + 1 = ReviewParts /\ ReviewParts \in Nat \ {0, 1}
      BY <2>1, <2>2, <2>3, OutboxAssumption DEF Parts, WorkerType
    <3> QED
      BY <3>1 DEF FiledError
  <2> QED
    BY <1>2, <2>1, <2>2, <2>3 DEF IInv, PartFails, TypeOK, WorkerType
<1>3. CASE UNCHANGED shown
  BY <1>3
<1> QED
  BY <1>1, <1>2, <1>3
     DEF Next, Deliver, vars, history, Enqueue, BackoffEnds, Requeue, Start, ClaimBatch,
         NothingToClaim, CheckClaim, CheckFails, ClaimLost, MarkFailure, MarkSuccess,
         CommitRaises, MarkCommitFailure, CommitFailureLost, Crash, LeasePasses

\* Whatever a deliverer will still send is unshown under its token and accounted for.
LEMMA AheadIsOpenStep == IInv /\ TypeOK' /\ [Next]_vars => AheadIsOpen'
<1> SUFFICES ASSUME IInv, TypeOK', [Next]_vars, NEW v \in Workers, NEW r \in Ahead(v)',
                    NEW t, t = worker'[v].tok
             PROVE  t \notin shown'[r] /\ Accounted(r, t)'
  BY DEF AheadIsOpen, Accounted
<1> USE DEF IInv
<1>0. WorkerTokens /\ HandsInOrder
  OBVIOUS
<1>1. CASE ClaimBatch(v) /\ r \in Batch /\ worker'[v].tok = claims + 1
  <2>1. r \in Rows /\ row'[r].st = "sending" /\ row'[r].tok = claims + 1 /\ claims \in Nat
    BY <1>1, ClaimShape
  <2>2. shown'[r] = shown[r] /\ shown[r] \subseteq 1..claims
    BY <1>1, <2>1 DEF ClaimBatch, RowTokens
  <2>3. claims + 1 \notin 1..claims
    BY <2>1
  <2> QED
    BY <1>1, <2>1, <2>2, <2>3 DEF Accounted
<1>2. CASE r \in Ahead(v) /\ worker'[v].tok = worker[v].tok
  <2>1. r \in Rows /\ t # 0 /\ worker[v].pc \notin {"idle", "claim"}
    <3>1. worker[v] \in WorkerType
      BY WorkerTyped
    <3>2. worker[v].pc \notin {"idle", "claim"}
      <4>1. ASSUME worker[v].pc \in {"idle", "claim"} PROVE worker[v].rest = {}
        BY <1>0, <4>1 DEF HandsInOrder, Idle
      <4> QED
        BY <1>2, <4>1 DEF Ahead
    <3>3. t # 0 /\ worker[v].cur # 0
      BY <1>0, <1>2, <3>2 DEF HandsInOrder
    <3>4. r \in worker[v].rest \/ r = worker[v].cur
      BY <1>2 DEF Ahead
    <3> QED
      BY <3>1, <3>2, <3>3, <3>4 DEF WorkerType
  <2>2. t \notin shown[r] /\ Accounted(r, t)
    BY <1>2 DEF AheadIsOpen, Accounted
  <2>3. ASSUME NEW w \in Workers, worker[w].tok = t PROVE w = v
    BY <1>0, <1>2, <2>1, <2>3 DEF WorkerTokens
  <2>4. \/ worker[v].cur # r
        \/ worker[v].pc \notin {"fail", "finalize", "commit_failed"}
    BY <1>0, <1>2 DEF Ahead, HandsInOrder
  <2>5. Accounted(r, t)'
    BY <2>1, <2>2, <2>3, <2>4, AccountedKept
  <2>6. ASSUME t \in shown'[r] PROVE FALSE
    <3>1. PICK w \in Workers : /\ worker[w].cur = r /\ worker[w].tok = t
                               /\ worker'[w].pc \in {"fail", "finalize"}
                               /\ worker'[w].rest = worker[w].rest
      BY <2>1, <2>2, <2>6, ShownKept
    <3>2. w = v
      BY <2>3, <3>1
    <3> QED
      BY <1>0, <3>1, <3>2 DEF Ahead, HandsInOrder
  <2> QED
    BY <2>5, <2>6
<1> QED
  BY <1>1, <1>2, AheadShrinks

\* The rows of the table are records of their type.
LEMMA RowTyped == TypeOK => \A r \in Rows : row[r] \in RowType
BY DEF TypeOK

\* Recording a success changes at most one row, which becomes sent.
LEMMA RecordSentShape ==
    ASSUME TypeOK, NEW w \in Workers, RecordSent(w), NEW r \in Rows
    PROVE  row'[r] = row[r] \/ row'[r].st = "sent"
<1>1. CASE ~Holds(w, worker[w].cur)
  BY <1>1 DEF RecordSent
<1>2. CASE Holds(w, worker[w].cur) /\ r # worker[w].cur
  BY <1>2 DEF RecordSent, TypeOK
<1>3. CASE Holds(w, r) /\ r = worker[w].cur
  <2>1. row' = [row EXCEPT ![r].st = "sent", ![r].tok = 0, ![r].err = "none", ![r].msg = TRUE]
    BY <1>3 DEF RecordSent
  <2>2. row[r] \in RowType
    BY RowTyped
  <2> QED
    BY <2>1, <2>2 DEF TypeOK, RowType
<1> QED
  BY <1>1, <1>2, <1>3

\* A sent row stays sent.
LEMMA SentStays ==
    ASSUME IInv, [Next]_vars, NEW r \in Rows, row[r].st = "sent"
    PROVE  row'[r].st = "sent"
<1> USE DEF IInv
<1>1. ASSUME NEW r0 \in Rows, Enqueue(r0) PROVE row'[r].st = "sent"
  BY <1>1 DEF Enqueue, TypeOK
<1>2. ASSUME NEW r0 \in Rows, BackoffEnds(r0) PROVE row'[r].st = "sent"
  BY <1>2 DEF BackoffEnds, TypeOK
<1>3. ASSUME NEW r0 \in Rows, NEW ack \in BOOLEAN, Requeue(r0, ack) PROVE row'[r].st = "sent"
  BY <1>3 DEF Requeue, Requeueable, TypeOK
<1>4. ASSUME NEW w \in Workers, Start(w) PROVE row'[r].st = "sent"
  <2>1. row'[r] = Recovered[r]
    BY <1>4 DEF Start
  <2> QED
    BY <2>1, RecoveredShape
<1>5. ASSUME NEW w \in Workers, ClaimBatch(w) PROVE row'[r].st = "sent"
  BY <1>5, ClaimShape
<1>6. ASSUME NEW w \in Workers, NothingToClaim(w) PROVE row'[r].st = "sent"
  BY <1>6 DEF NothingToClaim, TypeOK
<1>7. ASSUME NEW w \in Workers, CheckClaim(w) PROVE row'[r].st = "sent"
  BY <1>7 DEF CheckClaim, TypeOK
<1>8. ASSUME NEW w \in Workers, CheckFails(w) PROVE row'[r].st = "sent"
  BY <1>8 DEF CheckFails, TypeOK
<1>9. ASSUME NEW w \in Workers, ClaimLost(w) PROVE row'[r].st = "sent"
  <2>1. row'[r] = Recovered[r]
    BY <1>9 DEF ClaimLost
  <2> QED
    BY <2>1, RecoveredShape
<1>10. ASSUME NEW w \in Workers, PartAccepted(w) PROVE row'[r].st = "sent"
  BY <1>10 DEF PartAccepted, TypeOK
<1>11. ASSUME NEW w \in Workers, NEW e \in Faults, PartFails(w, e) PROVE row'[r].st = "sent"
  BY <1>11 DEF PartFails, TypeOK
<1>12. ASSUME NEW w \in Workers, MarkFailure(w) PROVE row'[r].st = "sent"
  BY <1>12 DEF MarkFailure, Holds, TypeOK
<1>13. ASSUME NEW w \in Workers, MarkSuccess(w) PROVE row'[r].st = "sent"
  BY <1>13 DEF MarkSuccess, RecordSent, Holds, TypeOK
<1>14. ASSUME NEW w \in Workers, CommitRaises(w) PROVE row'[r].st = "sent"
  BY <1>14 DEF CommitRaises, RecordSent, Holds, TypeOK
<1>15. ASSUME NEW w \in Workers, MarkCommitFailure(w) PROVE row'[r].st = "sent"
  BY <1>15 DEF MarkCommitFailure, Holds, TypeOK
<1>16. ASSUME NEW w \in Workers, CommitFailureLost(w) PROVE row'[r].st = "sent"
  BY <1>16 DEF CommitFailureLost, TypeOK
<1>17. ASSUME NEW w \in Workers, Crash(w) PROVE row'[r].st = "sent"
  BY <1>17 DEF Crash, TypeOK
<1>18. ASSUME NEW x \in Tokens, LeasePasses(x) PROVE row'[r].st = "sent"
  BY <1>18 DEF LeasePasses, TypeOK
<1>19. CASE UNCHANGED vars
  BY <1>19 DEF vars, TypeOK
<1> QED
  BY <1>1, <1>2, <1>3, <1>4, <1>5, <1>6, <1>7, <1>8, <1>9,
     <1>10, <1>11, <1>12, <1>13, <1>14, <1>15, <1>16, <1>17, <1>18, <1>19 DEF Next, Deliver

\* What was shown stays shown.
LEMMA ShownGrows ==
    ASSUME IInv, [Next]_vars, NEW r \in Rows
    PROVE  shown[r] \subseteq shown'[r]
<1>1. ASSUME NEW w \in Workers, PartAccepted(w) PROVE shown[r] \subseteq shown'[r]
  BY <1>1 DEF IInv, PartAccepted, Arrives, TypeOK
<1>2. ASSUME NEW w \in Workers, NEW e \in Faults, PartFails(w, e)
      PROVE  shown[r] \subseteq shown'[r]
  BY <1>2 DEF IInv, PartFails, Arrives, TypeOK
<1>3. CASE UNCHANGED shown
  BY <1>3
<1> QED
  BY <1>1, <1>2, <1>3
     DEF Next, Deliver, vars, history, Enqueue, BackoffEnds, Requeue, Start, ClaimBatch,
         NothingToClaim, CheckClaim, CheckFails, ClaimLost, MarkFailure, MarkSuccess,
         CommitRaises, MarkCommitFailure, CommitFailureLost, Crash, LeasePasses

\* The loop goes on to a check or to the end.
LEMMA GoOnPlaces ==
    ASSUME TypeOK, NEW w \in Workers, GoOn(w)
    PROVE  worker'[w].pc \in {"idle", "check"}
<1>1. ASSUME NEW q \in worker[w].rest,
             worker'[w] = [pc |-> "check", tok |-> worker[w].tok, cur |-> q,
                           rest |-> worker[w].rest \ {q}, parts |-> 0, err |-> "none"]
      PROVE  worker'[w].pc = "check"
  BY <1>1
<1>2. CASE worker'[w] = Idle
  BY <1>2 DEF Idle
<1> QED
  BY <1>1, <1>2, GoOnShape

\* The steps after which a deliverer has an outcome in hand.
LEMMA OutcomeSteps ==
    ASSUME IInv, [Next]_vars, NEW v \in Workers, worker'[v] # worker[v],
           worker'[v].pc \in {"fail", "finalize", "commit_failed"}
    PROVE  \/ PartAccepted(v)
           \/ \E e \in Faults : PartFails(v, e)
           \/ CommitRaises(v)
<1> USE DEF IInv
<1> DEFINE Goal == \/ PartAccepted(v) \/ (\E e \in Faults : PartFails(v, e)) \/ CommitRaises(v)
<1>1. ASSUME NEW r0 \in Rows, Enqueue(r0) PROVE Goal
  BY <1>1 DEF Enqueue, TypeOK, WorkerType, Idle, history, vars
<1>2. ASSUME NEW r0 \in Rows, BackoffEnds(r0) PROVE Goal
  BY <1>2 DEF BackoffEnds, TypeOK, WorkerType, Idle, history, vars
<1>3. ASSUME NEW r0 \in Rows, NEW ack \in BOOLEAN, Requeue(r0, ack) PROVE Goal
  BY <1>3 DEF Requeue, TypeOK, WorkerType, Idle, history, vars
<1>4. ASSUME NEW w \in Workers, Start(w) PROVE Goal
  BY <1>4 DEF Start, TypeOK, WorkerType, Idle, history, vars
<1>5. ASSUME NEW w \in Workers, ClaimBatch(w) PROVE Goal
  <2>1. ASSUME NEW q \in Batch,
               worker'[w] = [pc |-> "check", tok |-> claims + 1, cur |-> q,
                             rest |-> Batch \ {q}, parts |-> 0, err |-> "none"]
        PROVE  worker'[w].pc = "check"
    BY <2>1
  <2>2. ASSUME worker'[w] = Idle PROVE worker'[w].pc = "idle"
    BY <2>2 DEF Idle
  <2>3. /\ \A u \in Workers : u # w => worker'[u] = worker[u]
        /\ \/ worker'[w] = Idle
           \/ \E q \in Batch :
                  worker'[w] = [pc |-> "check", tok |-> claims + 1, cur |-> q,
                                rest |-> Batch \ {q}, parts |-> 0, err |-> "none"]
    BY <1>5, ClaimShape
  <2>4. worker'[w].pc \in {"idle", "check"}
    BY <2>1, <2>2, <2>3
  <2>5. v = w
    BY <2>3
  <2> QED
    BY <2>4, <2>5
<1>6. ASSUME NEW w \in Workers, NothingToClaim(w) PROVE Goal
  BY <1>6 DEF NothingToClaim, TypeOK, WorkerType, Idle, history, vars
<1>7. ASSUME NEW w \in Workers, CheckClaim(w) PROVE Goal
  BY <1>7 DEF CheckClaim, TypeOK, WorkerType, Idle, history, vars
<1>8. ASSUME NEW w \in Workers, CheckFails(w) PROVE Goal
  <2>1. CASE v # w
    BY <1>8, <2>1, GoOnShape DEF CheckFails
  <2>2. CASE v = w
    BY <1>8, <2>2, GoOnPlaces DEF CheckFails
  <2> QED
    BY <2>1, <2>2
<1>9. ASSUME NEW w \in Workers, ClaimLost(w) PROVE Goal
  <2>1. CASE v # w
    BY <1>9, <2>1, GoOnShape DEF ClaimLost
  <2>2. CASE v = w
    BY <1>9, <2>2, GoOnPlaces DEF ClaimLost
  <2> QED
    BY <2>1, <2>2
<1>10. ASSUME NEW w \in Workers, PartAccepted(w) PROVE Goal
  BY <1>10 DEF PartAccepted, TypeOK
<1>11. ASSUME NEW w \in Workers, NEW e \in Faults, PartFails(w, e) PROVE Goal
  BY <1>11 DEF PartFails, TypeOK
<1>12. ASSUME NEW w \in Workers, MarkFailure(w) PROVE Goal
  <2>1. CASE v # w
    BY <1>12, <2>1, GoOnShape DEF MarkFailure
  <2>2. CASE v = w
    BY <1>12, <2>2, GoOnPlaces DEF MarkFailure
  <2> QED
    BY <2>1, <2>2
<1>13. ASSUME NEW w \in Workers, MarkSuccess(w) PROVE Goal
  <2>1. CASE v # w
    BY <1>13, <2>1, GoOnShape DEF MarkSuccess
  <2>2. CASE v = w
    BY <1>13, <2>2, GoOnPlaces DEF MarkSuccess
  <2> QED
    BY <2>1, <2>2
<1>14. ASSUME NEW w \in Workers, CommitRaises(w) PROVE Goal
  BY <1>14 DEF CommitRaises, TypeOK
<1>15. ASSUME NEW w \in Workers, MarkCommitFailure(w) PROVE Goal
  <2>1. CASE v # w
    BY <1>15, <2>1, GoOnShape DEF MarkCommitFailure
  <2>2. CASE v = w
    BY <1>15, <2>2, GoOnPlaces DEF MarkCommitFailure
  <2> QED
    BY <2>1, <2>2
<1>16. ASSUME NEW w \in Workers, CommitFailureLost(w) PROVE Goal
  <2>1. CASE v # w
    BY <1>16, <2>1, GoOnShape DEF CommitFailureLost
  <2>2. CASE v = w
    BY <1>16, <2>2, GoOnPlaces DEF CommitFailureLost
  <2> QED
    BY <2>1, <2>2
<1>17. ASSUME NEW w \in Workers, Crash(w) PROVE Goal
  BY <1>17 DEF Crash, TypeOK, WorkerType, Idle, history, vars
<1>18. ASSUME NEW x \in Tokens, LeasePasses(x) PROVE Goal
  BY <1>18 DEF LeasePasses, TypeOK, WorkerType, Idle, history, vars
<1>19. CASE UNCHANGED vars
  BY <1>19 DEF vars, TypeOK
<1> QED
  BY <1>1, <1>2, <1>3, <1>4, <1>5, <1>6, <1>7, <1>8, <1>9,
     <1>10, <1>11, <1>12, <1>13, <1>14, <1>15, <1>16, <1>17, <1>18, <1>19 DEF Next, Deliver

\* A deliverer with an outcome in hand knows enough to file it.
LEMMA InHandStep == IInv /\ TypeOK' /\ [Next]_vars => InHand'
<1> SUFFICES ASSUME IInv, TypeOK', [Next]_vars, NEW v \in Workers,
                    NEW r, r = worker'[v].cur, NEW t, t = worker'[v].tok
             PROVE  /\ worker'[v].pc \in {"fail", "finalize"} => Accounted(r, t)'
                    /\ worker'[v].pc = "commit_failed" => Accounted(r, t)' \/ row'[r].st = "sent"
                    /\ worker'[v].pc = "fail" /\ r \in Approvable /\ t \in shown'[r]
                       => worker'[v].err = "partial"
                    /\ worker'[v].pc \in {"finalize", "commit_failed"} => t \in shown'[r]
  BY DEF InHand, Accounted
<1> USE DEF IInv
<1> SUFFICES ASSUME worker'[v].pc \in {"fail", "finalize", "commit_failed"}
             PROVE  /\ worker'[v].pc \in {"fail", "finalize"} => Accounted(r, t)'
                    /\ worker'[v].pc = "commit_failed" => Accounted(r, t)' \/ row'[r].st = "sent"
                    /\ worker'[v].pc = "fail" /\ r \in Approvable /\ t \in shown'[r]
                       => worker'[v].err = "partial"
                    /\ worker'[v].pc \in {"finalize", "commit_failed"} => t \in shown'[r]
  OBVIOUS
<1>1. CASE worker'[v] = worker[v]
  <2>1. r = worker[v].cur /\ t = worker[v].tok /\ t # 0 /\ r \in Rows
    BY <1>1, WorkerTyped DEF HandsInOrder, WorkerType
  <2>2. /\ worker[v].pc \in {"fail", "finalize"} => Accounted(r, t)
        /\ worker[v].pc = "commit_failed" => Accounted(r, t) \/ row[r].st = "sent"
        /\ worker[v].pc = "fail" /\ r \in Approvable /\ t \in shown[r]
           => worker[v].err = "partial"
        /\ worker[v].pc \in {"finalize", "commit_failed"} => t \in shown[r]
    BY <2>1 DEF InHand, Accounted
  <2>3. ASSUME NEW w \in Workers, worker[w].tok = t PROVE w = v
    BY <2>1, <2>3 DEF WorkerTokens
  <2>4. ASSUME Accounted(r, t) PROVE Accounted(r, t)'
    BY <1>1, <2>1, <2>3, <2>4, AccountedKept
  <2>5. row[r].st = "sent" => row'[r].st = "sent"
    BY <2>1, SentStays
  <2>6. ASSUME t \in shown'[r], t \notin shown[r] PROVE worker[v].pc = "send"
    <3>1. PICK w \in Workers : worker[w].pc = "send" /\ worker[w].tok = t
      BY <2>1, <2>6, ShownKept
    <3> QED
      BY <2>3, <3>1
  <2>7. shown[r] \subseteq shown'[r]
    BY <2>1, ShownGrows
  <2> QED
    BY <1>1, <2>2, <2>4, <2>5, <2>6, <2>7
<1>2. CASE worker'[v] # worker[v] /\ (PartAccepted(v) \/ \E e \in Faults : PartFails(v, e))
  <2>1. /\ worker[v].pc = "send" /\ worker'[v].pc \in {"fail", "finalize"}
        /\ r = worker[v].cur /\ t = worker[v].tok
        /\ UNCHANGED <<row, lastTok, licensed>>
    BY <1>2, WorkerTyped DEF PartAccepted, PartFails, TypeOK, WorkerType
  <2>2. r \in Rows /\ r \in Ahead(v) /\ t # 0
    BY <2>1, WorkerTyped DEF Ahead, HandsInOrder, WorkerType
  <2>3. t \notin shown[r] /\ Accounted(r, t)
    BY <2>1, <2>2 DEF AheadIsOpen, Accounted
  <2>4. Accounted(r, t)'
    BY <2>1, <2>3 DEF Accounted
  <2>5. ASSUME worker'[v].pc = "fail", r \in Approvable, t \in shown'[r]
        PROVE  worker'[v].err = "partial"
    <3>1. PICK w \in Workers : /\ worker[w].tok = t
                               /\ worker'[w].pc = "fail" /\ r \in Approvable
                                  => worker'[w].err = "partial"
      BY <2>2, <2>3, <2>5, ShownKept
    <3>2. w = v
      BY <2>1, <2>2, <3>1 DEF WorkerTokens
    <3> QED
      BY <2>5, <3>1, <3>2
  <2>6. ASSUME worker'[v].pc = "finalize" PROVE t \in shown'[r]
    <3>1. PartAccepted(v)
      <4>1. ASSUME NEW e \in Faults, PartFails(v, e) PROVE worker'[v].pc = "fail"
        BY <4>1, WorkerTyped DEF PartFails, TypeOK, WorkerType
      <4> QED
        BY <1>2, <2>6, <4>1
    <3>2. worker[v].parts \in Nat /\ worker[v].parts < Parts(r) /\ Parts(r) \in Nat
      BY <2>1, WorkerTyped, PartsPositive DEF HandsInOrder, WorkerType
    <3>3. AfterPart(worker[v].parts + 1, r) = "finalize"
      BY <2>1, <2>6, <3>1, WorkerTyped DEF PartAccepted, TypeOK, WorkerType
    <3>4. worker[v].parts + 1 = Parts(r)
      BY <3>2, <3>3 DEF AfterPart
    <3> QED
      BY <2>1, <2>2, <3>1, <3>4 DEF PartAccepted, Arrives, TypeOK
  <2> QED
    BY <2>1, <2>4, <2>5, <2>6
<1>3. CASE worker'[v] # worker[v] /\ CommitRaises(v)
  <2>1. /\ worker[v].pc = "finalize" /\ worker'[v].pc = "commit_failed"
        /\ r = worker[v].cur /\ t = worker[v].tok
        /\ UNCHANGED <<shown, lastTok, licensed>>
    BY <1>3, WorkerTyped DEF CommitRaises, TypeOK, WorkerType, history
  <2>2. Accounted(r, t) /\ t \in shown[r]
    BY <2>1 DEF InHand, Accounted
  <2>3. r \in Rows
    BY <2>1, WorkerTyped DEF HandsInOrder, WorkerType
  <2>4. row'[r] = row[r] \/ row'[r].st = "sent"
    <3>1. CASE UNCHANGED <<row, card, notified>>
      BY <3>1
    <3>2. CASE RecordSent(v)
      BY <2>3, <3>2, RecordSentShape
    <3> QED
      BY <1>3, <3>1, <3>2 DEF CommitRaises
  <2> QED
    BY <2>1, <2>2, <2>4 DEF Accounted
<1> QED
  BY <1>1, <1>2, <1>3, OutcomeSteps

\* A step that shows nothing of a row keeps the account of what was shown of it.
LEMMA QuietStep ==
    ASSUME IInv, [Next]_vars, NEW r \in Approvable, shown'[r] = shown[r]
    PROVE  /\ shown'[r] \ licensed'[r] \subseteq {lastTok'[r]}
           /\ \/ row'[r].st \in {"absent", "pending"}
              \/ row'[r].st = "needs_attention"
                 /\ row'[r].err \notin {"partial", "commit_failed", "lease_expired"}
              => shown'[r] \subseteq licensed'[r]
<1> USE DEF IInv
<1> DEFINE Goal == /\ shown'[r] \ licensed'[r] \subseteq {lastTok'[r]}
                   /\ \/ row'[r].st \in {"absent", "pending"}
                      \/ row'[r].st = "needs_attention"
                         /\ row'[r].err \notin {"partial", "commit_failed", "lease_expired"}
                      => shown'[r] \subseteq licensed'[r]
<1>a. r \in Rows
  BY DEF Approvable
<1>1. ASSUME NEW r0 \in Rows, Enqueue(r0) PROVE Goal
  BY <1>a, <1>1 DEF Enqueue, ShownAccounted, TypeOK, history
<1>2. ASSUME NEW r0 \in Rows, BackoffEnds(r0) PROVE Goal
  BY <1>a, <1>2 DEF BackoffEnds, ShownAccounted, TypeOK, RowType, history
<1>3. ASSUME NEW r0 \in Rows, NEW ack \in BOOLEAN, Requeue(r0, ack) PROVE Goal
  <2>1. lastTok' = lastTok /\ licensed[r] \subseteq licensed'[r]
    BY <1>a, <1>3 DEF Requeue, TypeOK
  <2>2. CASE row'[r] = row[r]
    BY <2>1, <2>2 DEF ShownAccounted
  <2>3. CASE row'[r] # row[r] /\ row[r].err = "lease_expired"
    <3>1. licensed'[r] = licensed[r] \cup {lastTok[r]}
      BY <1>a, <1>3, <2>3 DEF Requeue, TypeOK
    <3> QED
      BY <2>1, <3>1 DEF ShownAccounted
  <2>4. CASE row'[r] # row[r] /\ row[r].err # "lease_expired"
    <3>1. row[r].st = "needs_attention" /\ row[r].err \notin {"partial", "commit_failed"}
      BY <1>a, <1>3, <2>4 DEF Requeue, Requeueable, TypeOK
    <3> QED
      BY <2>1, <2>4, <3>1 DEF ShownAccounted
  <2> QED
    BY <2>2, <2>3, <2>4
<1>4. ASSUME NEW w \in Workers, Start(w) PROVE Goal
  <2>1. row'[r] = Recovered[r] /\ UNCHANGED <<lastTok, licensed>>
    BY <1>a, <1>4 DEF Start, history
  <2> QED
    BY <1>a, <2>1, RecoveredShape DEF ShownAccounted
<1>5. ASSUME NEW w \in Workers, ClaimBatch(w) PROVE Goal
  <2>1. UNCHANGED <<shown, licensed>>
    BY <1>a, <1>5 DEF ClaimBatch
  <2>2. CASE r \in Batch
    <3>1. row[r].st = "pending" /\ row'[r].st = "sending"
      BY <1>a, <1>5, <2>2, ClaimShape
    <3> QED
      BY <2>1, <3>1 DEF ShownAccounted
  <2>3. CASE r \notin Batch
    <3>1. row'[r] = row[r] /\ lastTok'[r] = lastTok[r]
      BY <1>a, <1>5, <2>3, ClaimShape
    <3> QED
      BY <2>1, <3>1 DEF ShownAccounted
  <2> QED
    BY <2>2, <2>3
<1>6. ASSUME NEW w \in Workers, NothingToClaim(w) PROVE Goal
  BY <1>a, <1>6 DEF NothingToClaim, ShownAccounted, budgets, history
<1>7. ASSUME NEW w \in Workers, CheckClaim(w) PROVE Goal
  BY <1>a, <1>7 DEF CheckClaim, ShownAccounted, budgets, history
<1>8. ASSUME NEW w \in Workers, CheckFails(w) PROVE Goal
  BY <1>a, <1>8 DEF CheckFails, ShownAccounted, budgets, history
<1>9. ASSUME NEW w \in Workers, ClaimLost(w) PROVE Goal
  <2>1. row'[r] = Recovered[r] /\ UNCHANGED <<lastTok, licensed>>
    BY <1>a, <1>9 DEF ClaimLost, history
  <2> QED
    BY <1>a, <2>1, RecoveredShape DEF ShownAccounted
<1>10. ASSUME NEW w \in Workers, PartAccepted(w) PROVE Goal
  BY <1>a, <1>10 DEF PartAccepted, ShownAccounted, budgets, history
<1>11. ASSUME NEW w \in Workers, NEW e \in Faults, PartFails(w, e) PROVE Goal
  BY <1>a, <1>11 DEF PartFails, ShownAccounted, budgets, history
<1>12. ASSUME NEW w \in Workers, MarkFailure(w) PROVE Goal
  <2>1. UNCHANGED history
    BY <1>a, <1>12 DEF MarkFailure
  <2>2. CASE row'[r] = row[r]
    BY <2>1, <2>2 DEF ShownAccounted, history
  <2>3. CASE row'[r] # row[r]
    <3>1. /\ worker[w].pc = "fail" /\ r = worker[w].cur /\ Holds(w, r)
          /\ row'[r] = Failed(r, worker[w].err)
      BY <1>a, <1>12, <2>3 DEF MarkFailure, TypeOK
    <3>2. row[r].tok = worker[w].tok /\ row[r].tok = lastTok[r]
      BY <1>a, <3>1 DEF Holds, RowTokens
    <3>3. /\ row'[r].err = worker[w].err
          /\ worker[w].err = "partial" => row'[r].st = "needs_attention"
      BY <1>a, <3>1, RowTyped DEF Failed, Rests, RowType
    <3>4. worker[w].tok \in shown[r] => worker[w].err = "partial"
      BY <3>1 DEF InHand
    <3> QED
      BY <2>1, <3>2, <3>3, <3>4 DEF ShownAccounted, history
  <2> QED
    BY <2>2, <2>3
<1>13. ASSUME NEW w \in Workers, MarkSuccess(w) PROVE Goal
  <2>1. UNCHANGED history
    BY <1>a, <1>13 DEF MarkSuccess
  <2>2. row'[r] = row[r] \/ row'[r].st = "sent"
    BY <1>a, <1>13, RecordSentShape DEF MarkSuccess
  <2> QED
    BY <2>1, <2>2 DEF ShownAccounted, history
<1>14. ASSUME NEW w \in Workers, CommitRaises(w) PROVE Goal
  <2>1. UNCHANGED history
    BY <1>a, <1>14 DEF CommitRaises
  <2>2. row'[r] = row[r] \/ row'[r].st = "sent"
    BY <1>a, <1>14, RecordSentShape DEF CommitRaises
  <2> QED
    BY <2>1, <2>2 DEF ShownAccounted, history
<1>15. ASSUME NEW w \in Workers, MarkCommitFailure(w) PROVE Goal
  <2>1. UNCHANGED history
    BY <1>a, <1>15 DEF MarkCommitFailure
  <2>2. \/ row'[r] = row[r]
        \/ row'[r].st = "needs_attention" /\ row'[r].err = "commit_failed"
    BY <1>a, <1>15, RowTyped DEF MarkCommitFailure, Holds, TypeOK, RowType
  <2> QED
    BY <2>1, <2>2 DEF ShownAccounted, history
<1>16. ASSUME NEW w \in Workers, CommitFailureLost(w) PROVE Goal
  BY <1>a, <1>16 DEF CommitFailureLost, ShownAccounted, budgets, history
<1>17. ASSUME NEW w \in Workers, Crash(w) PROVE Goal
  BY <1>a, <1>17 DEF Crash, ShownAccounted, budgets, history
<1>18. ASSUME NEW x \in Tokens, LeasePasses(x) PROVE Goal
  BY <1>a, <1>18 DEF LeasePasses, ShownAccounted, budgets, history
<1>19. CASE UNCHANGED vars
  BY <1>a, <1>19 DEF vars, ShownAccounted
<1> QED
  BY <1>a, <1>1, <1>2, <1>3, <1>4, <1>5, <1>6, <1>7, <1>8, <1>9,
     <1>10, <1>11, <1>12, <1>13, <1>14, <1>15, <1>16, <1>17, <1>18, <1>19 DEF Next, Deliver

\* Whatever was shown of an approvable card is acknowledged or of the latest claim.
LEMMA ShownAccountedStep == IInv /\ TypeOK' /\ [Next]_vars => ShownAccounted'
<1> SUFFICES ASSUME IInv, TypeOK', [Next]_vars, NEW r \in Approvable
             PROVE  /\ shown'[r] \ licensed'[r] \subseteq {lastTok'[r]}
                    /\ \/ row'[r].st \in {"absent", "pending"}
                       \/ row'[r].st = "needs_attention"
                          /\ row'[r].err \notin {"partial", "commit_failed", "lease_expired"}
                       => shown'[r] \subseteq licensed'[r]
  BY DEF ShownAccounted
<1> USE DEF IInv
<1>1. r \in Rows
  BY DEF Approvable
<1>2. CASE shown'[r] = shown[r]
  BY <1>2, QuietStep
<1>3. CASE shown'[r] # shown[r]
  <2>1. PICK x \in shown'[r] : x \notin shown[r]
    BY <1>1, <1>3, ShownGrows
  <2>2. UNCHANGED <<row, lastTok, licensed>>
    BY <1>1, <2>1, ShownKept
  <2>3. ASSUME NEW y \in shown'[r], y \notin shown[r]
        PROVE  Accounted(r, y)
    <3>1. PICK w \in Workers : worker[w].pc = "send" /\ worker[w].cur = r /\ worker[w].tok = y
      BY <1>1, <2>3, ShownKept
    <3> QED
      BY <3>1 DEF AheadIsOpen, Ahead, Accounted
  <2>4. ASSUME NEW y \in shown'[r], y \notin shown[r], y \notin licensed[r]
        PROVE  /\ y = lastTok[r]
               /\ \/ row[r].st = "sending"
                  \/ row[r].st = "needs_attention" /\ row[r].err = "lease_expired"
    BY <1>1, <2>3, <2>4 DEF Accounted, RowTokens
  <2> QED
    BY <2>2, <2>4 DEF ShownAccounted
<1> QED
  BY <1>2, <1>3

\* Who may change a row: a deliverer only one that is pending or that it holds, the
\* operator only one that is left to him and has no evidence of a delivery.
LEMMA RowSteps ==
    ASSUME IInv, [Next]_vars, NEW r \in Rows
    PROVE  \/ row'[r] = row[r]
           \/ row[r].st \in {"absent", "pending", "sending"}
           \/ row[r].st = "needs_attention" /\ ~row[r].msg /\ requeues' = requeues + 1
<1> USE DEF IInv
<1> DEFINE Goal == \/ row'[r] = row[r]
                   \/ row[r].st \in {"absent", "pending", "sending"}
                   \/ row[r].st = "needs_attention" /\ ~row[r].msg /\ requeues' = requeues + 1
<1>1. ASSUME NEW r0 \in Rows, Enqueue(r0) PROVE Goal
  BY <1>1 DEF Enqueue, TypeOK
<1>2. ASSUME NEW r0 \in Rows, BackoffEnds(r0) PROVE Goal
  BY <1>2 DEF BackoffEnds, TypeOK
<1>3. ASSUME NEW r0 \in Rows, NEW ack \in BOOLEAN, Requeue(r0, ack) PROVE Goal
  BY <1>3 DEF Requeue, Requeueable, TypeOK
<1>4. ASSUME NEW w \in Workers, Start(w) PROVE Goal
  <2>1. row'[r] = Recovered[r]
    BY <1>4 DEF Start
  <2> QED
    BY <2>1, RecoveredShape
<1>5. ASSUME NEW w \in Workers, ClaimBatch(w) PROVE Goal
  BY <1>5, ClaimShape
<1>6. ASSUME NEW w \in Workers, NothingToClaim(w) PROVE Goal
  BY <1>6 DEF NothingToClaim
<1>7. ASSUME NEW w \in Workers, CheckClaim(w) PROVE Goal
  BY <1>7 DEF CheckClaim
<1>8. ASSUME NEW w \in Workers, CheckFails(w) PROVE Goal
  BY <1>8 DEF CheckFails
<1>9. ASSUME NEW w \in Workers, ClaimLost(w) PROVE Goal
  <2>1. row'[r] = Recovered[r]
    BY <1>9 DEF ClaimLost
  <2> QED
    BY <2>1, RecoveredShape
<1>10. ASSUME NEW w \in Workers, PartAccepted(w) PROVE Goal
  BY <1>10 DEF PartAccepted
<1>11. ASSUME NEW w \in Workers, NEW e \in Faults, PartFails(w, e) PROVE Goal
  BY <1>11 DEF PartFails
<1>12. ASSUME NEW w \in Workers, MarkFailure(w) PROVE Goal
  BY <1>12 DEF MarkFailure, Holds, TypeOK
<1>13. ASSUME NEW w \in Workers, MarkSuccess(w) PROVE Goal
  BY <1>13 DEF MarkSuccess, RecordSent, Holds, TypeOK
<1>14. ASSUME NEW w \in Workers, CommitRaises(w) PROVE Goal
  BY <1>14 DEF CommitRaises, RecordSent, Holds, TypeOK
<1>15. ASSUME NEW w \in Workers, MarkCommitFailure(w) PROVE Goal
  BY <1>15 DEF MarkCommitFailure, Holds, TypeOK
<1>16. ASSUME NEW w \in Workers, CommitFailureLost(w) PROVE Goal
  BY <1>16 DEF CommitFailureLost
<1>17. ASSUME NEW w \in Workers, Crash(w) PROVE Goal
  BY <1>17 DEF Crash
<1>18. ASSUME NEW x \in Tokens, LeasePasses(x) PROVE Goal
  BY <1>18 DEF LeasePasses
<1>19. CASE UNCHANGED vars
  BY <1>19 DEF vars
<1> QED
  BY <1>1, <1>2, <1>3, <1>4, <1>5, <1>6, <1>7, <1>8, <1>9,
     <1>10, <1>11, <1>12, <1>13, <1>14, <1>15, <1>16, <1>17, <1>18, <1>19 DEF Next, Deliver

-----------------------------------------------------------------------------
(* Theorems                                                                *)

\* The initial state satisfies the strengthened invariant.
LEMMA InitIInv == Init => IInv
<1> SUFFICES ASSUME Init PROVE IInv
  OBVIOUS
<1>1. TypeOK
  BY InitTypeOK
<1>2. RowTokens /\ WorkerTokens
  BY Bounds DEF Init, RowTokens, WorkerTokens, Absent, Idle
<1>3. HandsInOrder
  BY DEF Init, HandsInOrder, Idle
<1>4. AheadIsOpen /\ InHand
  BY DEF Init, AheadIsOpen, InHand, Ahead, Idle
<1>5. ShownAccounted /\ AttemptsLeft /\ EvidenceCloses /\ RecordedMeansShown
  BY Bounds DEF Init, ShownAccounted, Approvable, AttemptsLeft, EvidenceCloses,
                RecordedMeansShown, Absent
<1> QED
  BY <1>1, <1>2, <1>3, <1>4, <1>5 DEF IInv

\* Every step preserves the strengthened invariant.
LEMMA IInvStep == IInv /\ [Next]_vars => IInv'
<1> SUFFICES ASSUME IInv, [Next]_vars PROVE IInv'
  OBVIOUS
<1>1. TypeOK'
  BY TypeStep
<1>2. RowTokens' /\ WorkerTokens'
  BY <1>1, RowTokensStep, WorkerTokensStep
<1>3. HandsInOrder' /\ AheadIsOpen' /\ InHand'
  BY <1>1, HandsInOrderStep, AheadIsOpenStep, InHandStep
<1>4. ShownAccounted' /\ AttemptsLeft' /\ EvidenceCloses' /\ RecordedMeansShown'
  BY <1>1, ShownAccountedStep, AttemptsLeftStep, EvidenceClosesStep, RecordedMeansShownStep
<1> QED
  BY <1>1, <1>2, <1>3, <1>4 DEF IInv

\* The strengthened invariant holds in every reachable state.
THEOREM OutboxInvariant == Spec => []IInv
<1>1. Init => IInv
  BY InitIInv
<1>2. IInv /\ [Next]_vars => IInv'
  BY IInvStep
<1> QED
  BY <1>1, <1>2, PTL DEF Spec

\* No action of the outbox leaves the declared states.
THEOREM OutboxTypes == Spec => []TypeOK
<1>1. IInv => TypeOK
  BY DEF IInv
<1> QED
  BY <1>1, OutboxInvariant, PTL

\* A card with an approve button is shown a second time only after an operator
\* acknowledged the passed lease of the first time.
THEOREM CardsAreShownOnce == Spec => []CardShownOnce
<1>1. IInv => CardShownOnce
  BY DEF IInv, ShownAccounted, CardShownOnce
<1> QED
  BY <1>1, OutboxInvariant, PTL

\* What the database records as delivered has been delivered.
THEOREM RecordsAreTrue == Spec => []RecordedMeansShown
<1>1. IInv => RecordedMeansShown
  BY DEF IInv
<1> QED
  BY <1>1, OutboxInvariant, PTL

\* Once the evidence of a delivery is recorded, the row never returns to the queue.
THEOREM EvidenceStays == Spec => EvidenceIsFinal
<1>1. ASSUME IInv, [Next]_vars, NEW r \in Rows, row[r].msg
      PROVE  row'[r].msg /\ row'[r].st = row[r].st
  <2>1. row[r].st \in {"sent", "needs_attention"}
    BY <1>1 DEF IInv, EvidenceCloses
  <2>2. row'[r] = row[r]
    BY <1>1, <2>1, RowSteps
  <2> QED
    BY <1>1, <2>2
<1>2. IInv /\ [Next]_vars => [KeepsEvidence]_vars
  BY <1>1 DEF KeepsEvidence
<1> QED
  BY <1>2, OutboxInvariant, PTL DEF Spec, EvidenceIsFinal

\* A row left to the operator is changed by nobody else.
THEOREM OperatorAloneRevives == Spec => OnlyOperatorRevives
<1>1. ASSUME IInv, [Next]_vars, NEW r \in Rows,
             row[r].st = "needs_attention", row'[r] # row[r]
      PROVE  requeues' = requeues + 1
  BY <1>1, RowSteps
<1>2. IInv /\ [Next]_vars
      => [\A r \in Rows : row[r].st = "needs_attention" /\ row'[r] # row[r]
                          => requeues' = requeues + 1]_vars
  BY <1>1
<1> QED
  BY <1>2, OutboxInvariant, PTL DEF Spec, OnlyOperatorRevives

-----------------------------------------------------------------------------
(* Without the operator, and when every lost answer is recognized as one,  *)
(* nothing appears twice: no row returns to the queue once it was shown.   *)

\* Leases are acknowledged by the operator only.
NothingLicensed == requeues = 0 => \A r \in Rows : licensed[r] = {}

\* A failure whose message arrived nevertheless is filed as one that leaves the row to
\* the operator.
FailureKnown ==
    \A w \in Workers :
        worker[w].pc = "fail" /\ worker[w].tok \in shown[worker[w].cur]
            => worker[w].err \in {"partial", "timeout"}

\* What was shown of a row, alert or card, was shown under its latest claim, and the row
\* is not in the queue.
ShownLeavesQueue ==
    requeues = 0 =>
        \A r \in Rows : /\ shown[r] \subseteq {lastTok[r]}
                        /\ row[r].st \in {"absent", "pending"} => shown[r] = {}

\* While the operator has requeued nothing, a step is no requeue.
LEMMA WithoutOperator ==
    ASSUME IInv, NothingLicensed, [Next]_vars, requeues' = 0
    PROVE  requeues = 0 /\ UNCHANGED licensed /\ \A r \in Rows : licensed[r] = {}
<1>1. requeues \in Nat
  BY Bounds DEF IInv, TypeOK
<1>2. ~ \E r \in Rows, ack \in BOOLEAN : Requeue(r, ack)
  <2> SUFFICES ASSUME NEW r \in Rows, NEW ack \in BOOLEAN, Requeue(r, ack) PROVE FALSE
    OBVIOUS
  <2>1. requeues' = requeues + 1
    BY DEF Requeue
  <2> QED
    BY <1>1, <2>1
<1>3. UNCHANGED <<requeues, licensed>>
  BY <1>2 DEF Next, Deliver, vars, history, budgets, Enqueue, BackoffEnds, Start, ClaimBatch,
         NothingToClaim, CheckClaim, CheckFails, ClaimLost, PartAccepted, PartFails, MarkFailure,
         MarkSuccess, CommitRaises, MarkCommitFailure, CommitFailureLost, Crash, LeasePasses
<1> QED
  BY <1>3 DEF NothingLicensed

LEMMA FailureKnownStep ==
    ASSUME "disconnect" \notin Faults, IInv, FailureKnown, [Next]_vars
    PROVE  FailureKnown'
<1> SUFFICES ASSUME NEW v \in Workers, worker'[v].pc = "fail",
                    worker'[v].tok \in shown'[worker'[v].cur]
             PROVE  worker'[v].err \in {"partial", "timeout"}
  BY DEF FailureKnown
<1>0. worker[v] \in WorkerType /\ TypeOK /\ WorkerTokens /\ HandsInOrder /\ AheadIsOpen
  BY WorkerTyped DEF IInv
<1>1. CASE worker'[v] = worker[v]
  <2>1. worker[v].cur \in Rows /\ worker[v].tok # 0 /\ worker[v].pc = "fail"
    BY <1>0, <1>1 DEF HandsInOrder, WorkerType
  <2>2. CASE worker[v].tok \in shown[worker[v].cur]
    BY <1>1, <2>1, <2>2 DEF FailureKnown
  <2>3. CASE worker[v].tok \notin shown[worker[v].cur]
    <3>1. PICK w \in Workers : worker[w].pc = "send" /\ worker[w].tok = worker[v].tok
      BY <1>1, <2>1, <2>3, ShownKept
    <3>2. w = v
      BY <1>0, <2>1, <3>1 DEF WorkerTokens
    <3> QED
      BY <2>1, <3>1, <3>2
  <2> QED
    BY <2>2, <2>3
<1>2. CASE worker'[v] # worker[v]
  <2>1. PartAccepted(v) \/ (\E e \in Faults : PartFails(v, e)) \/ CommitRaises(v)
    BY <1>2, OutcomeSteps
  <2>2. ~PartAccepted(v)
    <3> SUFFICES ASSUME PartAccepted(v) PROVE FALSE
      OBVIOUS
    <3>1. worker'[v].pc = AfterPart(worker[v].parts + 1, worker[v].cur)
      BY <1>0 DEF PartAccepted, TypeOK, WorkerType
    <3> QED
      BY <3>1 DEF AfterPart
  <2>3. ~CommitRaises(v)
    BY <1>0 DEF CommitRaises, TypeOK, WorkerType
  <2>4. PICK e \in Faults : PartFails(v, e)
    BY <2>1, <2>2, <2>3
  <2>5. /\ worker'[v].err = FiledError(v, e) /\ worker'[v].tok = worker[v].tok
        /\ worker'[v].cur = worker[v].cur /\ worker[v].pc = "send"
    BY <1>0, <2>4 DEF PartFails, TypeOK, WorkerType
  <2>6. worker[v].tok \notin shown[worker[v].cur]
    BY <1>0, <2>5 DEF AheadIsOpen, Ahead
  <2>7. e # "refused"
    BY <2>4, <2>5, <2>6 DEF PartFails
  <2>8. e = "timeout"
    BY <2>7, OutboxAssumption DEF FaultKinds
  <2> QED
    BY <2>5, <2>8 DEF FiledError
<1> QED
  BY <1>1, <1>2

\* A step that shows nothing of a row puts it back into the queue only unshown.
LEMMA UnshownReturns ==
    ASSUME IInv, FailureKnown, [Next]_vars, NEW r \in Rows, shown'[r] = shown[r],
           ~ \E s \in Rows, ack \in BOOLEAN : Requeue(s, ack),
           shown[r] \subseteq {lastTok[r]}, row[r].st \in {"absent", "pending"} => shown[r] = {}
    PROVE  /\ shown'[r] \subseteq {lastTok'[r]}
           /\ row'[r].st \in {"absent", "pending"} => shown'[r] = {}
<1> DEFINE Goal == /\ shown'[r] \subseteq {lastTok'[r]}
                   /\ row'[r].st \in {"absent", "pending"} => shown'[r] = {}
<1>0. TypeOK /\ RowTokens /\ row[r] \in RowType
  BY RowTyped DEF IInv
<1>a. ASSUME lastTok'[r] = lastTok[r],
             \/ row'[r] = row[r]
             \/ row[r].st \in {"absent", "pending"}
             \/ row'[r].st \notin {"absent", "pending"}
      PROVE  Goal
  BY <1>a
<1>1. ASSUME NEW r0 \in Rows, Enqueue(r0) \/ BackoffEnds(r0) PROVE Goal
  <2>1. lastTok' = lastTok /\ (row'[r] = row[r] \/ row[r].st \in {"absent", "pending"})
    BY <1>0, <1>1 DEF Enqueue, BackoffEnds, TypeOK, history
  <2> QED
    BY <1>a, <2>1
<1>2. ASSUME NEW w \in Workers, Start(w) \/ ClaimLost(w) PROVE Goal
  <2>1. row'[r] = Recovered[r] /\ UNCHANGED lastTok
    BY <1>2 DEF Start, ClaimLost, history
  <2>2. row'[r] = row[r] \/ row'[r].st = "needs_attention"
    BY <1>0, <2>1, RecoveredShape
  <2> QED
    BY <1>a, <2>1, <2>2
<1>3. ASSUME NEW w \in Workers, ClaimBatch(w) PROVE Goal
  <2>1. CASE r \in Batch
    <3>1. row[r].st = "pending" /\ row'[r].st = "sending"
      BY <1>0, <1>3, <2>1, ClaimShape
    <3> QED
      BY <3>1
  <2>2. CASE r \notin Batch
    <3>1. row'[r] = row[r] /\ lastTok'[r] = lastTok[r]
      BY <1>0, <1>3, <2>2, ClaimShape
    <3> QED
      BY <1>a, <3>1
  <2> QED
    BY <2>1, <2>2
<1>4. ASSUME NEW w \in Workers, MarkFailure(w) PROVE Goal
  <2>1. UNCHANGED lastTok
    BY <1>4 DEF MarkFailure, history
  <2>2. CASE row'[r] = row[r]
    BY <1>a, <2>1, <2>2
  <2>3. CASE row'[r] # row[r]
    <3>1. /\ worker[w].pc = "fail" /\ r = worker[w].cur /\ Holds(w, r)
          /\ row'[r] = Failed(r, worker[w].err)
      BY <1>0, <1>4, <2>3 DEF MarkFailure, TypeOK
    <3>2. row[r].tok = worker[w].tok /\ row[r].tok = lastTok[r]
      BY <1>0, <3>1 DEF Holds, RowTokens
    <3>3. worker[w].err \in {"partial", "timeout"} => row'[r].st = "needs_attention"
      BY <1>0, <3>1 DEF Failed, Rests, IsAmbiguous, RowType
    <3>4. worker[w].tok \in shown[r] => worker[w].err \in {"partial", "timeout"}
      BY <3>1 DEF FailureKnown
    <3> QED
      BY <2>1, <3>2, <3>3, <3>4
  <2> QED
    BY <2>2, <2>3
<1>5. ASSUME NEW w \in Workers, MarkSuccess(w) \/ CommitRaises(w) PROVE Goal
  <2>1. UNCHANGED lastTok /\ (row'[r] = row[r] \/ row'[r].st = "sent")
    BY <1>0, <1>5, RecordSentShape DEF MarkSuccess, CommitRaises, history
  <2> QED
    BY <1>a, <2>1
<1>6. ASSUME NEW w \in Workers, MarkCommitFailure(w) PROVE Goal
  <2>1. /\ UNCHANGED lastTok
        /\ row'[r] = row[r] \/ row'[r].st = "needs_attention"
    BY <1>0, <1>6 DEF MarkCommitFailure, Holds, TypeOK, RowType, history
  <2> QED
    BY <1>a, <2>1
<1>7. ASSUME UNCHANGED <<row, lastTok>> PROVE Goal
  BY <1>a, <1>7
<1> QED
  BY <1>1, <1>2, <1>3, <1>4, <1>5, <1>6, <1>7
     DEF Next, Deliver, vars, history, NothingToClaim, CheckClaim, CheckFails, PartAccepted,
         PartFails, CommitFailureLost, Crash, LeasePasses

LEMMA ShownLeavesQueueStep ==
    ASSUME IInv, NothingLicensed, FailureKnown, ShownLeavesQueue, [Next]_vars
    PROVE  ShownLeavesQueue'
<1> SUFFICES ASSUME requeues' = 0, NEW r \in Rows
             PROVE  /\ shown'[r] \subseteq {lastTok'[r]}
                    /\ row'[r].st \in {"absent", "pending"} => shown'[r] = {}
  BY DEF ShownLeavesQueue
<1>0. requeues = 0 /\ \A s \in Rows : licensed[s] = {}
  BY WithoutOperator
<1>1. /\ shown[r] \subseteq {lastTok[r]}
      /\ row[r].st \in {"absent", "pending"} => shown[r] = {}
  BY <1>0 DEF ShownLeavesQueue
<1>2. ~ \E s \in Rows, ack \in BOOLEAN : Requeue(s, ack)
  BY <1>0 DEF Requeue
<1>3. CASE shown'[r] = shown[r]
  BY <1>1, <1>2, <1>3, UnshownReturns
<1>4. CASE shown'[r] # shown[r]
  <2>1. PICK x \in shown'[r] : x \notin shown[r]
    BY <1>4, ShownGrows
  <2>2. UNCHANGED <<row, lastTok>>
    BY <2>1, ShownKept
  <2>3. ASSUME NEW y \in shown'[r], y \notin shown[r]
        PROVE  y = lastTok[r] /\ row[r].st \notin {"absent", "pending"}
    <3>1. PICK w \in Workers : worker[w].pc = "send" /\ worker[w].cur = r /\ worker[w].tok = y
      BY <2>3, ShownKept
    <3>2. Accounted(r, y) /\ RowTokens
      BY <3>1 DEF IInv, AheadIsOpen, Ahead, Accounted
    <3> QED
      BY <1>0, <3>2 DEF Accounted, RowTokens
  <2> QED
    BY <1>1, <2>1, <2>2, <2>3
<1> QED
  BY <1>3, <1>4

\* With no operator, and when every lost answer carries a marker of is_ambiguous_send_error,
\* no notification appears twice: not only the cards CardShownOnce is about, but the
\* single messages of alerts and cards without a draft (docs/inbox-outbox-policy.md:14).
THEOREM NothingIsResentBlindly ==
    ASSUME "disconnect" \notin Faults
    PROVE  Spec => []NoBlindResend
<1> DEFINE Blind == NothingLicensed /\ FailureKnown /\ ShownLeavesQueue
<1>1. Init => Blind
  BY DEF Init, NothingLicensed, FailureKnown, ShownLeavesQueue, Idle
<1>2. IInv /\ Blind /\ [Next]_vars => Blind'
  <2> SUFFICES ASSUME IInv, NothingLicensed, FailureKnown, ShownLeavesQueue, [Next]_vars
               PROVE  Blind'
    OBVIOUS
  <2>1. NothingLicensed'
    BY WithoutOperator DEF NothingLicensed
  <2> QED
    BY <2>1, FailureKnownStep, ShownLeavesQueueStep
<1>3. Blind => NoBlindResend
  BY DEF ShownLeavesQueue, NoBlindResend
<1> QED
  BY <1>1, <1>2, <1>3, OutboxInvariant, PTL DEF Spec
=============================================================================
