------------------------- MODULE JobProcessingProofs -------------------------
(***************************************************************************)
(* The theorems of JobProcessing, for every number of jobs, worker slots,  *)
(* attempts, claims, requeues and crashes.                                 *)
(***************************************************************************)
EXTENDS JobProcessing, TLAPS

-----------------------------------------------------------------------------
(* Types *)

\* The domains that the tokens and attempts range over.
LEMMA Bounds ==
    /\ MaxClaims \in Nat /\ MaxAttempts \in Nat \ {0} /\ MaxQueued \in Nat
    /\ MaxRequeues \in Nat /\ MaxCrashes \in Nat
    /\ Outcomes \subseteq GraphOutcomes
  BY ProcessingAssumption

LEMMA IdleType == Idle \in SlotType
  <1>1. (CHOOSE j \in Jobs : TRUE) \in Jobs
    BY ProcessingAssumption
  <1> QED BY <1>1 DEF Idle, SlotType, Steps, GraphOutcomes

\* The rows and slots that a typed state holds.
LEMMA Typed ==
    TypeOK => /\ \A j \in Jobs : job[j] \in JobType
              /\ \A s \in Slots : slot[s] \in SlotType /\ slot[s].job \in Jobs
                                  /\ slot[s].seen \subseteq Jobs /\ slot[s].todo \subseteq Jobs
  BY DEF TypeOK, SlotType

\* What the handlers write to a row is a row.
LEMMA RowTypes ==
    ASSUME TypeOK, NEW j \in Jobs
    PROVE  /\ Unclaimed(j) \in JobType
           /\ \A b \in BOOLEAN : Failed(j, b) \in JobType
           /\ \A st \in {"pending_approval", "filtered", "scored"} : Persisted(j, st) \in JobType
  <1>1. job[j] \in JobType
    BY Typed
  <1>2. Unclaimed(j) \in JobType
    BY <1>1 DEF Unclaimed, JobType
  <1>3. ASSUME NEW b \in BOOLEAN PROVE Failed(j, b) \in JobType
    <2>1. CASE b /\ ~Exhausted(j)
      BY <1>1, <2>1 DEF Failed, JobType, JobStatuses, Queueable, ErrorTypes
    <2>2. CASE ~(b /\ ~Exhausted(j))
      BY <1>1, <2>2 DEF Failed, JobType, JobStatuses, Terminal, ErrorTypes
    <2> QED BY <2>1, <2>2
  <1>4. ASSUME NEW st \in {"pending_approval", "filtered", "scored"}
        PROVE  Persisted(j, st) \in JobType
    <2>1. Transition(job[j].st, st) \in JobStatuses
      BY <1>1 DEF Transition, JobType, JobStatuses, Queueable, Protected, Terminal
    <2> QED BY <1>1, <2>1 DEF Persisted, JobType, ErrorTypes
  <1> QED BY <1>2, <1>3, <1>4

LEMMA InitTypeOK == Init => TypeOK
  BY IdleType, Bounds, ProcessingAssumption
  DEF Init, TypeOK, Absent, JobType, JobStatuses, ErrorTypes, Tokens

\* WriteResult leaves rows, reviews and counts typed.
LEMMA WriteTypes ==
    ASSUME TypeOK, NEW s \in Slots, WriteResult(s) \/ UNCHANGED <<job, review, made>>
    PROVE  /\ job' \in [Jobs -> JobType]
           /\ review' \in [Jobs -> {"none", "open", "closed"}]
           /\ made' \in [Jobs -> Nat]
  <1> DEFINE j == slot[s].job
  <1>1. j \in Jobs
    BY Typed
  <1>2. Failed(j, slot[s].out = "retryable") \in JobType
    BY <1>1, RowTypes
  <1>3. \A st \in {"pending_approval", "filtered", "scored"} : Persisted(j, st) \in JobType
    BY <1>1, RowTypes
  <1>4. (IF slot[s].out = "filtered" THEN "filtered" ELSE "scored") \in {"filtered", "scored"}
    OBVIOUS
  <1> QED BY <1>1, <1>2, <1>3, <1>4 DEF WriteResult, TypeOK

LEMMA ProcessTypes == ASSUME TypeOK, NEW s \in Slots, ProcessJob(s) PROVE TypeOK'
  <1> DEFINE j == slot[s].job
  <1>0. /\ slot[s] \in SlotType /\ j \in Jobs /\ job[j] \in JobType
        /\ AfterJob(s) \in Steps
    BY Typed DEF AfterJob, Steps
  <1> USE Bounds
  <1>1. CASE ClaimRefused(s)
    BY <1>0, <1>1 DEF ClaimRefused, TypeOK, SlotType, Steps, Go, queue, budgets, history
  <1>2. CASE ClaimExhausted(s)
    <2>1. [job[j] EXCEPT !.st = "permanent_error", !.tok = 0, !.live = FALSE, !.due = TRUE,
                         !.err = "retry_exhausted"] \in JobType
      BY <1>0 DEF JobType, JobStatuses, Terminal, ErrorTypes
    <2>2. job' \in [Jobs -> JobType]
      BY <1>0, <1>2, <2>1 DEF ClaimExhausted, TypeOK
    <2>3. slot' \in [Slots -> SlotType]
      BY <1>0, <1>2 DEF ClaimExhausted, Go, TypeOK, SlotType
    <2> QED BY <1>2, <2>2, <2>3 DEF ClaimExhausted, TypeOK, queue, budgets, history
  <1>3. CASE ClaimTaken(s)
    <2>1. claims + 1 \in 1..MaxClaims /\ job[j].attempts + 1 \in 0..MaxAttempts
      BY <1>0, <1>3 DEF ClaimTaken, Exhausted, TypeOK, JobType
    <2>2. [job[j] EXCEPT !.tok = claims + 1, !.live = TRUE, !.attempts = job[j].attempts + 1]
             \in JobType
      BY <1>0, <2>1 DEF JobType, Tokens
    <2>3. job' \in [Jobs -> JobType]
      BY <1>0, <1>3, <2>2 DEF ClaimTaken, TypeOK
    <2>4. [slot[s] EXCEPT !.pc = "start", !.tok = claims + 1] \in SlotType
      BY <1>0, <2>1 DEF SlotType, Steps, Tokens
    <2>5. slot' \in [Slots -> SlotType]
      BY <1>3, <2>4 DEF ClaimTaken, TypeOK
    <2> QED BY <1>3, <2>1, <2>3, <2>5 DEF ClaimTaken, TypeOK, queue, budgets, history
  <1>4. CASE TooOld(s)
    BY <1>0, <1>4 DEF TooOld, TypeOK, SlotType, Steps, Go, queue, budgets, history, GraphOutcomes
  <1>5. CASE GraphStarts(s)
    <2>1. runs' \in [Jobs -> Nat]
      BY <1>0, <1>5 DEF GraphStarts, TypeOK
    <2>2. slot' \in [Slots -> SlotType]
      BY <1>0, <1>5 DEF GraphStarts, Go, TypeOK, SlotType, Steps
    <2> QED BY <1>5, <2>1, <2>2 DEF GraphStarts, TypeOK, queue, budgets
  <1>6. CASE Raises(s)
    BY <1>0, <1>6 DEF Raises, TypeOK, SlotType, Steps, Go, queue, budgets, history
  <1>7. ASSUME NEW out \in Outcomes, GraphEnds(s, out) PROVE TypeOK'
    <2>1. [slot[s] EXCEPT !.pc = "persist", !.out = out] \in SlotType
      BY <1>0 DEF SlotType, Steps
    <2>2. slot' \in [Slots -> SlotType]
      BY <1>7, <2>1 DEF GraphEnds, TypeOK
    <2> QED BY <1>7, <2>2 DEF GraphEnds, TypeOK, queue, budgets, history
  <1>8. CASE Persist(s)
    BY <1>0, <1>8, WriteTypes DEF Persist, TypeOK, SlotType, Steps, GraphOutcomes, queue, budgets, history
  <1>9. CASE PersistRaises(s)
    BY <1>0, <1>9, WriteTypes DEF PersistRaises, TypeOK, SlotType, Steps, GraphOutcomes, queue, budgets, history
  <1>10. CASE RecordError(s)
    BY <1>0, <1>10, RowTypes DEF RecordError, TypeOK, SlotType, Steps, Go, queue, budgets, history
  <1>11. CASE ErrorUnrecorded(s)
    BY <1>0, <1>11 DEF ErrorUnrecorded, TypeOK, SlotType, Steps, Go, queue, budgets, history
  <1>12. CASE Release(s)
    BY <1>0, <1>12, RowTypes DEF Release, TypeOK, SlotType, Steps, Go, queue, budgets, history, Tokens
  <1>13. CASE ReleaseFails(s)
    BY <1>0, <1>13 DEF ReleaseFails, TypeOK, SlotType, Steps, Go, queue, budgets, history, Tokens
  <1>14. CASE EndTask(s)
    BY <1>0, <1>14, IdleType DEF EndTask, TypeOK, SlotType, Steps, Go, queue, budgets, history
  <1> QED BY <1>1, <1>2, <1>3, <1>4, <1>5, <1>6, <1>7, <1>8, <1>9, <1>10, <1>11, <1>12, <1>13, <1>14 DEF ProcessJob

LEMMA SweepTypes ==
    ASSUME TypeOK, NEW s \in Slots, StartSweep(s) \/ Crash(s) \/ Sweep(s) \/ \E j \in Jobs : StartTask(s, j)
    PROVE  TypeOK'
  <1>0. slot[s] \in SlotType /\ slot[s].job \in Jobs /\ slot[s].seen \subseteq Jobs /\ slot[s].todo \subseteq Jobs
    BY Typed
  <1> USE Bounds
  <1>1. CASE StartSweep(s)
    <2>1. PICK stale \in SUBSET {j \in Jobs : Stale(j)} :
             /\ job' = [j \in Jobs |-> IF j \in stale THEN Unclaimed(j) ELSE job[j]]
             /\ slot' = [slot EXCEPT ![s].pc = "unmark", ![s].sweep = TRUE, ![s].todo = stale]
      BY <1>1 DEF StartSweep
    <2>2. job' \in [Jobs -> JobType]
      BY <2>1, RowTypes, Typed
    <2>3. [slot[s] EXCEPT !.pc = "unmark", !.sweep = TRUE, !.todo = stale] \in SlotType
      BY <1>0 DEF SlotType, Steps
    <2>4. slot' \in [Slots -> SlotType]
      BY <2>1, <2>3 DEF TypeOK
    <2> QED BY <1>1, <2>2, <2>4 DEF StartSweep, TypeOK, queue, budgets, history
  <1>2. CASE Crash(s)
    BY <1>0, <1>2, IdleType DEF Crash, TypeOK, SlotType, Steps, Go, queue, budgets, history
  <1>3. CASE Unmark(s)
    BY <1>0, <1>3 DEF Unmark, TypeOK, SlotType, Steps, Go, queue, budgets, history
  <1>4. CASE SelectDue(s)
    BY <1>0, <1>4 DEF SelectDue, TypeOK, SlotType, Steps, Go, queue, budgets, history
  <1>5. CASE SendTask(s)
    BY <1>0, <1>5 DEF SendTask, TypeOK, SlotType, Steps, Go, queue, budgets, history
  <1>6. CASE SendRefused(s)
    BY <1>0, <1>6, IdleType DEF SendRefused, TypeOK, SlotType, Steps, Go, queue, budgets, history
  <1>7. CASE EndSweep(s)
    BY <1>0, <1>7, IdleType DEF EndSweep, TypeOK, SlotType, Steps, Go, queue, budgets, history
  <1>8. ASSUME NEW j \in Jobs, Scrape(s, j) PROVE TypeOK'
    <2>1. [job[j] EXCEPT !.st = "new"] \in JobType
      BY Typed DEF JobType, JobStatuses, Queueable
    <2>2. job' \in [Jobs -> JobType]
      BY <1>8, <2>1 DEF Scrape, TypeOK
    <2>3. [slot[s] EXCEPT !.pc = "claim", !.job = j, !.seen = slot[s].seen \cup {j}] \in SlotType
      BY <1>0 DEF SlotType, Steps
    <2>4. slot' \in [Slots -> SlotType]
      BY <1>8, <2>3 DEF Scrape, TypeOK
    <2> QED BY <1>8, <2>2, <2>4 DEF Scrape, TypeOK, queue, budgets, history
  <1>9. ASSUME NEW j \in Jobs, Reserve(s, j) PROVE TypeOK'
    BY <1>0, <1>9, Typed DEF Reserve, TypeOK, SlotType, Steps, Go, queue, budgets, history
  <1>10. ASSUME NEW j \in Jobs, StartTask(s, j) PROVE TypeOK'
    <2>1. slot' \in [Slots -> SlotType]
      BY <1>0, <1>10 DEF StartTask, TypeOK, SlotType, Steps
    <2>2. broker[j] - 1 \in 0..MaxQueued
      <3>1. broker[j] \in 0..MaxQueued
        BY DEF TypeOK
      <3>2. broker[j] > 0
        BY <1>10 DEF StartTask
      <3> QED BY <3>1, <3>2
    <2>3. broker' \in [Jobs -> 0..MaxQueued]
      BY <1>10, <2>2 DEF StartTask, TypeOK
    <2> QED BY <1>10, <2>1, <2>3 DEF StartTask, TypeOK, budgets, history
  <1> QED BY <1>1, <1>2, <1>3, <1>4, <1>5, <1>6, <1>7, <1>8, <1>9, <1>10 DEF Sweep

LEMMA EnvironmentTypes == TypeOK /\ Environment => TypeOK'
  <1> SUFFICES ASSUME TypeOK, Environment PROVE TypeOK'
    OBVIOUS
  <1> USE Bounds
  <1>1. ASSUME NEW j \in Jobs, ApiQueue(j) PROVE TypeOK'
    BY <1>1, Typed DEF ApiQueue, TypeOK, queue, budgets, history
  <1>2. ASSUME NEW j \in Jobs, RequeueExhausted(j) PROVE TypeOK'
    <2>1. [job[j] EXCEPT !.st = "retryable_error", !.err = "retryable", !.attempts = 0, !.due = TRUE]
             \in JobType
      <3>1. job[j] \in JobType /\ 0 \in 0..MaxAttempts
        BY Typed
      <3> QED BY <3>1 DEF JobType, JobStatuses, Queueable, ErrorTypes
    <2>2. job' \in [Jobs -> JobType]
      BY <1>2, <2>1 DEF RequeueExhausted, TypeOK
    <2>3. requeues' \in 0..MaxRequeues /\ runs' \in [Jobs -> Nat]
      BY <1>2 DEF RequeueExhausted, TypeOK
    <2> QED BY <1>2, <2>2, <2>3 DEF RequeueExhausted, TypeOK, queue
  <1>3. ASSUME NEW j \in Jobs, LeasePasses(j) PROVE TypeOK'
    BY <1>3, Typed DEF LeasePasses, TypeOK, queue, budgets, history, JobType
  <1>4. ASSUME NEW j \in Jobs, BackoffEnds(j) PROVE TypeOK'
    BY <1>4, Typed DEF BackoffEnds, TypeOK, queue, budgets, history, JobType
  <1>5. ASSUME NEW j \in Jobs, MarkerExpires(j) PROVE TypeOK'
    BY <1>5, Typed DEF MarkerExpires, TypeOK, queue, budgets, history
  <1>6. ASSUME NEW j \in Jobs, NEW st \in {"sent", "approved", "skipped"}, Deliver(j, st) PROVE TypeOK'
    <2>1. [job[j] EXCEPT !.st = st] \in JobType
      BY Typed DEF JobType, JobStatuses, Protected, Terminal
    <2>2. job' \in [Jobs -> JobType] /\ review' \in [Jobs -> {"none", "open", "closed"}]
      BY <1>6, <2>1 DEF Deliver, TypeOK
    <2>3. closed' \subseteq Jobs
      BY <1>6 DEF Deliver, TypeOK
    <2> QED BY <1>6, <2>2, <2>3 DEF Deliver, TypeOK, queue, budgets
  <1> QED BY <1>1, <1>2, <1>3, <1>4, <1>5, <1>6 DEF Environment

LEMMA NextTypes == TypeOK /\ [Next]_vars => TypeOK'
  <1> SUFFICES ASSUME TypeOK, [Next]_vars PROVE TypeOK'
    OBVIOUS
  <1>1. ASSUME NEW s \in Slots, ProcessJob(s) PROVE TypeOK'
    BY <1>1, ProcessTypes
  <1>2. ASSUME NEW s \in Slots, Sweep(s) \/ StartSweep(s) \/ Crash(s) PROVE TypeOK'
    BY <1>2, SweepTypes
  <1>3. ASSUME NEW s \in Slots, NEW j \in Jobs, StartTask(s, j) PROVE TypeOK'
    BY <1>3, SweepTypes
  <1>4. CASE Environment
    BY <1>4, EnvironmentTypes
  <1>5. CASE UNCHANGED vars
    BY <1>5 DEF vars, TypeOK
  <1> QED BY <1>1, <1>2, <1>3, <1>4, <1>5 DEF Next

-----------------------------------------------------------------------------
(* Claims and attempts *)

\* A step that takes no claim and starts no run: rows may lose their claim, slots their
\* token, and no slot comes to the start of a run.
Quiet ==
    /\ \A j \in Jobs : job'[j].tok \in {job[j].tok, 0} /\ job'[j].attempts = job[j].attempts
    /\ \A s \in Slots : /\ slot'[s].tok \in {slot[s].tok, 0}
                        /\ slot'[s].pc = "start" => slot'[s] = slot[s]
    /\ claims' = claims /\ runs' = runs

LEMMA QuietKeeps == IInv /\ Quiet => TokensDrawn' /\ RunsArePaid'
  <1> SUFFICES ASSUME IInv, Quiet PROVE TokensDrawn' /\ RunsArePaid'
    OBVIOUS
  <1>0. /\ claims \in Nat
        /\ \A s \in Slots : slot[s].tok \in Nat
        /\ \A j \in Jobs : job[j].tok \in Nat
        /\ \A s \in Slots : slot[s].job \in Jobs
    BY Typed, Bounds DEF IInv, TypeOK, JobType, SlotType, Tokens
  <1>1. TokensDrawn'
    <2>1. \A j \in Jobs : job'[j].tok <= claims'
      BY <1>0 DEF IInv, Quiet, TokensDrawn
    <2>2. \A s \in Slots : slot'[s].tok <= claims'
      BY <1>0 DEF IInv, Quiet, TokensDrawn
    <2>3. \A s \in Slots : slot'[s].pc = "start" => slot'[s].tok # 0
      BY DEF IInv, Quiet, TokensDrawn
    <2>4. \A s, t \in Slots : slot'[s].tok = slot'[t].tok /\ slot'[s].tok # 0 => s = t
      BY DEF IInv, Quiet, TokensDrawn
    <2> QED BY <2>1, <2>2, <2>3, <2>4 DEF TokensDrawn
  <1>2. \A j \in Jobs : runs'[j] <= job'[j].attempts
    BY DEF IInv, Quiet, RunsArePaid
  <1>3. ASSUME NEW s \in Slots, slot'[s].pc = "start", job'[slot'[s].job].tok = slot'[s].tok
        PROVE  runs'[slot'[s].job] < job'[slot'[s].job].attempts
    <2>1. slot'[s] = slot[s]
      BY <1>3 DEF Quiet
    <2>2. slot[s].job \in Jobs /\ slot[s].tok # 0
      BY <1>0, <1>3, <2>1 DEF IInv, TokensDrawn
    <2>3. job[slot[s].job].tok = slot[s].tok
      BY <1>3, <2>1, <2>2 DEF Quiet
    <2> QED BY <1>3, <2>1, <2>2, <2>3 DEF IInv, Quiet, RunsArePaid
  <1> QED BY <1>1, <1>2, <1>3 DEF RunsArePaid

\* What the handlers write to a row leaves its attempts and frees its claim.
LEMMA Rewritten ==
    ASSUME TypeOK, NEW j \in Jobs
    PROVE  /\ Unclaimed(j).tok = 0 /\ Unclaimed(j).attempts = job[j].attempts
           /\ Unclaimed(j).st = job[j].st
           /\ \A b : /\ Failed(j, b).tok = 0 /\ Failed(j, b).attempts = job[j].attempts
                     /\ Failed(j, b).st \in {"retryable_error", "permanent_error"}
           /\ \A st : /\ Persisted(j, st).tok = 0 /\ Persisted(j, st).attempts = job[j].attempts
                      /\ Persisted(j, st).st = Transition(job[j].st, st)
  BY Typed DEF JobType, Unclaimed, Failed, Persisted

LEMMA WriteFrees ==
    ASSUME TypeOK, NEW s \in Slots, WriteResult(s) \/ UNCHANGED <<job, review, made>>
    PROVE  \A j \in Jobs : job'[j].tok \in {job[j].tok, 0} /\ job'[j].attempts = job[j].attempts
  BY Rewritten, Typed DEF WriteResult, TypeOK

LEMMA ProcessQuiet ==
    ASSUME TypeOK, NEW s \in Slots, ProcessJob(s), ~ClaimTaken(s), ~GraphStarts(s)
    PROVE  Quiet
  <1> DEFINE j == slot[s].job
  <1>0. slot[s] \in SlotType /\ j \in Jobs /\ AfterJob(s) # "start"
    BY Typed DEF AfterJob
  <1>1. CASE ClaimRefused(s)
    BY <1>0, <1>1 DEF ClaimRefused, Quiet, TypeOK, SlotType, Go, queue, budgets, history
  <1>2. CASE ClaimExhausted(s)
    <2>1. \A i \in Jobs : job'[i].tok \in {job[i].tok, 0} /\ job'[i].attempts = job[i].attempts
      BY <1>2, Typed DEF ClaimExhausted, JobType, TypeOK
    <2>2. \A t \in Slots : /\ slot'[t].tok \in {slot[t].tok, 0}
                           /\ slot'[t].pc = "start" => slot'[t] = slot[t]
      BY <1>0, <1>2 DEF ClaimExhausted, Go, SlotType, TypeOK
    <2>3. claims' = claims /\ runs' = runs
      BY <1>2 DEF ClaimExhausted, history
    <2> QED BY <2>1, <2>2, <2>3 DEF Quiet
  <1>3. CASE TooOld(s)
    BY <1>0, <1>3 DEF TooOld, Quiet, TypeOK, SlotType, Go, queue, budgets, history
  <1>4. CASE Raises(s)
    BY <1>0, <1>4 DEF Raises, Quiet, TypeOK, SlotType, Go, queue, budgets, history
  <1>5. CASE \E out \in Outcomes : GraphEnds(s, out)
    BY <1>0, <1>5 DEF GraphEnds, Quiet, TypeOK, SlotType, Go, queue, budgets, history
  <1>6. CASE Persist(s)
    BY <1>0, <1>6, WriteFrees DEF Persist, Quiet, TypeOK, SlotType, Go, queue, budgets, history
  <1>7. CASE PersistRaises(s)
    BY <1>0, <1>7, WriteFrees DEF PersistRaises, Quiet, TypeOK, SlotType, Go, queue, budgets, history
  <1>8. CASE RecordError(s)
    <2>1. \A i \in Jobs : job'[i].tok \in {job[i].tok, 0} /\ job'[i].attempts = job[i].attempts
      <3>1. job' = job \/ job' = [job EXCEPT ![j] = Failed(j, TRUE)]
        BY <1>8 DEF RecordError
      <3>2. Failed(j, TRUE).tok = 0 /\ Failed(j, TRUE).attempts = job[j].attempts
        BY <1>0, Rewritten
      <3> HIDE DEF j
      <3> QED BY <1>0, <3>1, <3>2 DEF TypeOK
    <2>2. \A t \in Slots : /\ slot'[t].tok \in {slot[t].tok, 0}
                           /\ slot'[t].pc = "start" => slot'[t] = slot[t]
      BY <1>0, <1>8 DEF RecordError, Go, TypeOK, SlotType
    <2> QED BY <1>8, <2>1, <2>2 DEF RecordError, Quiet, history
  <1>9. CASE ErrorUnrecorded(s)
    BY <1>0, <1>9 DEF ErrorUnrecorded, Quiet, TypeOK, SlotType, Go, queue, budgets, history
  <1>10. CASE Release(s)
    BY <1>0, <1>10, Rewritten DEF Release, Quiet, TypeOK, SlotType, Go, queue, budgets, history
  <1>11. CASE ReleaseFails(s)
    BY <1>0, <1>11 DEF ReleaseFails, Quiet, TypeOK, SlotType, Go, queue, budgets, history
  <1>12. CASE EndTask(s)
    BY <1>0, <1>12 DEF EndTask, Quiet, TypeOK, SlotType, Go, queue, budgets, history, Idle
  <1> QED BY <1>1, <1>2, <1>3, <1>4, <1>5, <1>6, <1>7, <1>8, <1>9, <1>10, <1>11, <1>12 DEF ProcessJob

LEMMA SweepQuiet ==
    ASSUME TypeOK, NEW s \in Slots, StartSweep(s) \/ Crash(s) \/ Sweep(s) \/ \E j \in Jobs : StartTask(s, j)
    PROVE  Quiet
  <1>0. slot[s] \in SlotType
    BY Typed
  <1>1. CASE StartSweep(s)
    <2>1. PICK stale \in SUBSET {j \in Jobs : Stale(j)} :
             /\ job' = [j \in Jobs |-> IF j \in stale THEN Unclaimed(j) ELSE job[j]]
             /\ slot' = [slot EXCEPT ![s].pc = "unmark", ![s].sweep = TRUE, ![s].todo = stale]
      BY <1>1 DEF StartSweep
    <2>2. \A i \in Jobs : job'[i].tok \in {job[i].tok, 0} /\ job'[i].attempts = job[i].attempts
      BY <2>1, Rewritten
    <2>3. \A t \in Slots : /\ slot'[t].tok \in {slot[t].tok, 0}
                           /\ slot'[t].pc = "start" => slot'[t] = slot[t]
      BY <1>0, <2>1 DEF TypeOK, SlotType
    <2> QED BY <1>1, <2>2, <2>3 DEF StartSweep, Quiet, history
  <1>2. CASE Crash(s)
    BY <1>0, <1>2 DEF Crash, Quiet, TypeOK, SlotType, Go, queue, budgets, history, Idle
  <1>3. CASE Unmark(s)
    BY <1>0, <1>3 DEF Unmark, Quiet, TypeOK, SlotType, Go, queue, budgets, history
  <1>4. CASE SelectDue(s)
    BY <1>0, <1>4 DEF SelectDue, Quiet, TypeOK, SlotType, Go, queue, budgets, history
  <1>5. CASE SendTask(s)
    BY <1>0, <1>5 DEF SendTask, Quiet, TypeOK, SlotType, Go, queue, budgets, history
  <1>6. CASE SendRefused(s)
    BY <1>0, <1>6 DEF SendRefused, Quiet, TypeOK, SlotType, Go, queue, budgets, history, Idle
  <1>7. CASE EndSweep(s)
    BY <1>0, <1>7 DEF EndSweep, Quiet, TypeOK, SlotType, Go, queue, budgets, history, Idle
  <1>8. ASSUME NEW j \in Jobs, Scrape(s, j) PROVE Quiet
    BY <1>0, <1>8, Typed DEF Scrape, Quiet, TypeOK, SlotType, Go, queue, budgets, history, JobType
  <1>9. ASSUME NEW j \in Jobs, Reserve(s, j) PROVE Quiet
    BY <1>0, <1>9 DEF Reserve, Quiet, TypeOK, SlotType, Go, queue, budgets, history
  <1>10. ASSUME NEW j \in Jobs, StartTask(s, j) PROVE Quiet
    BY <1>0, <1>10 DEF StartTask, Quiet, TypeOK, SlotType, Go, queue, budgets, history
  <1> QED BY <1>1, <1>2, <1>3, <1>4, <1>5, <1>6, <1>7, <1>8, <1>9, <1>10 DEF Sweep

LEMMA EnvironmentQuiet ==
    ASSUME TypeOK, Environment, \A j \in Jobs : ~RequeueExhausted(j)
    PROVE  Quiet
  <1>1. ASSUME NEW j \in Jobs, ApiQueue(j) PROVE Quiet
    BY <1>1, Typed DEF ApiQueue, Quiet, TypeOK, SlotType, Go, queue, budgets, history
  <1>2. ASSUME NEW j \in Jobs, LeasePasses(j) PROVE Quiet
    BY <1>2, Typed DEF LeasePasses, Quiet, TypeOK, SlotType, Go, queue, budgets, history, JobType
  <1>3. ASSUME NEW j \in Jobs, BackoffEnds(j) PROVE Quiet
    BY <1>3, Typed DEF BackoffEnds, Quiet, TypeOK, SlotType, Go, queue, budgets, history, JobType
  <1>4. ASSUME NEW j \in Jobs, MarkerExpires(j) PROVE Quiet
    BY <1>4, Typed DEF MarkerExpires, Quiet, TypeOK, SlotType, Go, queue, budgets, history
  <1>5. ASSUME NEW j \in Jobs, NEW st \in {"sent", "approved", "skipped"}, Deliver(j, st) PROVE Quiet
    BY <1>5, Typed DEF Deliver, Quiet, TypeOK, SlotType, Go, queue, budgets, history, JobType
  <1> QED BY <1>1, <1>2, <1>3, <1>4, <1>5 DEF Environment

LEMMA ClaimKeeps ==
    ASSUME IInv, NEW s \in Slots, ClaimTaken(s)
    PROVE  TokensDrawn' /\ RunsArePaid'
  <1> DEFINE j == slot[s].job
  <1>0. /\ claims \in Nat /\ j \in Jobs
        /\ \A t \in Slots : slot[t].tok \in Nat /\ slot[t].job \in Jobs
        /\ \A i \in Jobs : job[i].tok \in Nat /\ job[i].attempts \in Nat
        /\ \A i \in Jobs : runs[i] \in Nat
    BY Typed, Bounds DEF IInv, TypeOK, JobType, SlotType, Tokens
  <1>1. /\ claims' = claims + 1 /\ runs' = runs
        /\ job'[j].tok = claims + 1 /\ job'[j].attempts = job[j].attempts + 1
        /\ \A i \in Jobs \ {j} : job'[i] = job[i]
    BY <1>0, Typed DEF ClaimTaken, IInv, TypeOK, JobType, history
  <1>2. /\ slot'[s].tok = claims + 1 /\ slot'[s].job = j
        /\ \A t \in Slots \ {s} : slot'[t] = slot[t]
    BY Typed DEF ClaimTaken, IInv, TypeOK, SlotType
  <1> HIDE DEF j
  <1>3. TokensDrawn'
    <2>1. \A i \in Jobs : job'[i].tok <= claims'
      BY <1>0, <1>1 DEF IInv, TokensDrawn
    <2>2. \A t \in Slots : slot'[t].tok <= claims'
      BY <1>0, <1>1, <1>2 DEF IInv, TokensDrawn
    <2>3. \A t \in Slots : slot'[t].pc = "start" => slot'[t].tok # 0
      BY <1>0, <1>2 DEF IInv, TokensDrawn
    <2>4. \A t \in Slots \ {s} : slot'[t].tok # slot'[s].tok
      BY <1>0, <1>2 DEF IInv, TokensDrawn
    <2>5. \A t, u \in Slots : slot'[t].tok = slot'[u].tok /\ slot'[t].tok # 0 => t = u
      BY <1>2, <2>4 DEF IInv, TokensDrawn
    <2> QED BY <2>1, <2>2, <2>3, <2>5 DEF TokensDrawn
  <1>4. \A i \in Jobs : runs'[i] <= job'[i].attempts
    BY <1>0, <1>1 DEF IInv, RunsArePaid
  <1>5. ASSUME NEW t \in Slots, slot'[t].pc = "start", job'[slot'[t].job].tok = slot'[t].tok
        PROVE  runs'[slot'[t].job] < job'[slot'[t].job].attempts
    <2>1. CASE t = s
      BY <1>0, <1>1, <1>2, <2>1 DEF IInv, RunsArePaid
    <2>2. CASE t # s
      <3>1. slot'[t] = slot[t] /\ slot[t].tok # claims + 1
        BY <1>0, <1>2, <2>2 DEF IInv, TokensDrawn
      <3>2. slot[t].job # j /\ slot[t].job \in Jobs
        BY <1>0, <1>1, <1>5, <3>1
      <3> QED BY <1>1, <1>5, <3>1, <3>2 DEF IInv, RunsArePaid
    <2> QED BY <2>1, <2>2
  <1> QED BY <1>3, <1>4, <1>5 DEF RunsArePaid

LEMMA GraphStartsKeeps ==
    ASSUME IInv, NEW s \in Slots, GraphStarts(s)
    PROVE  TokensDrawn' /\ RunsArePaid'
  <1> DEFINE j == slot[s].job
  <1>0. /\ j \in Jobs
        /\ \A t \in Slots : slot[t].tok \in Nat /\ slot[t].job \in Jobs
        /\ \A i \in Jobs : runs[i] \in Nat /\ job[i].attempts \in Nat
    BY Typed, Bounds DEF IInv, TypeOK, JobType, SlotType, Tokens
  <1>1. /\ claims' = claims /\ job' = job
        /\ runs'[j] = runs[j] + 1 /\ \A i \in Jobs \ {j} : runs'[i] = runs[i]
    BY <1>0 DEF GraphStarts, IInv, TypeOK
  <1>2. /\ slot'[s].tok = slot[s].tok /\ slot'[s].pc = "graph"
        /\ \A t \in Slots \ {s} : slot'[t] = slot[t]
    BY Typed DEF GraphStarts, Go, IInv, TypeOK, SlotType
  <1>3. slot[s].pc = "start" /\ job[j].tok = slot[s].tok /\ slot[s].tok # 0
    BY DEF GraphStarts, StillMine, HasActiveClaim
  <1> HIDE DEF j
  <1>4. TokensDrawn'
    BY <1>1, <1>2 DEF IInv, TokensDrawn
  <1>5. runs[j] < job[j].attempts
    BY <1>3 DEF IInv, RunsArePaid, j
  <1>6. \A i \in Jobs : runs'[i] <= job'[i].attempts
    BY <1>0, <1>1, <1>5 DEF IInv, RunsArePaid
  <1>7. ASSUME NEW t \in Slots, slot'[t].pc = "start", job'[slot'[t].job].tok = slot'[t].tok
        PROVE  runs'[slot'[t].job] < job'[slot'[t].job].attempts
    <2>1. t # s /\ slot'[t] = slot[t]
      BY <1>2, <1>7
    <2>2. slot[t].tok # slot[s].tok
      BY <1>3, <2>1 DEF IInv, TokensDrawn
    <2>3. slot[t].job # j /\ slot[t].job \in Jobs
      BY <1>0, <1>1, <1>3, <1>7, <2>1, <2>2
    <2> QED BY <1>1, <1>7, <2>1, <2>3 DEF IInv, RunsArePaid
  <1> QED BY <1>4, <1>6, <1>7 DEF RunsArePaid

LEMMA RequeueKeeps ==
    ASSUME IInv, NEW j \in Jobs, RequeueExhausted(j)
    PROVE  TokensDrawn' /\ RunsArePaid'
  <1>0. \A t \in Slots : slot[t].job \in Jobs
    BY Typed DEF IInv
  <1>1. /\ claims' = claims /\ slot' = slot /\ job[j].tok = 0
        /\ job'[j].tok = 0 /\ job'[j].attempts = 0 /\ runs'[j] = 0
        /\ \A i \in Jobs \ {j} : job'[i] = job[i] /\ runs'[i] = runs[i]
    BY Typed DEF RequeueExhausted, IInv, TypeOK, JobType
  <1>2. TokensDrawn'
    BY <1>1 DEF IInv, TokensDrawn
  <1>3. \A i \in Jobs : runs'[i] <= job'[i].attempts
    BY <1>1 DEF IInv, RunsArePaid
  <1>4. ASSUME NEW t \in Slots, slot[t].pc = "start", job'[slot[t].job].tok = slot[t].tok
        PROVE  runs'[slot[t].job] < job'[slot[t].job].attempts
    <2>1. slot[t].tok # 0
      BY <1>4 DEF IInv, TokensDrawn
    <2>2. slot[t].job # j
      BY <1>1, <1>4, <2>1
    <2> QED BY <1>0, <1>1, <1>4, <2>2 DEF IInv, RunsArePaid
  <1> QED BY <1>1, <1>2, <1>3, <1>4 DEF RunsArePaid

LEMMA ClaimsStep == IInv /\ [Next]_vars => TokensDrawn' /\ RunsArePaid'
  <1> SUFFICES ASSUME IInv, [Next]_vars PROVE TokensDrawn' /\ RunsArePaid'
    OBVIOUS
  <1>0. TypeOK
    BY DEF IInv
  <1>1. ASSUME NEW s \in Slots, ProcessJob(s) PROVE TokensDrawn' /\ RunsArePaid'
    BY <1>0, <1>1, ProcessQuiet, QuietKeeps, ClaimKeeps, GraphStartsKeeps
  <1>2. ASSUME NEW s \in Slots, Sweep(s) \/ StartSweep(s) \/ Crash(s)
        PROVE  TokensDrawn' /\ RunsArePaid'
    BY <1>0, <1>2, SweepQuiet, QuietKeeps
  <1>3. ASSUME NEW s \in Slots, NEW j \in Jobs, StartTask(s, j)
        PROVE  TokensDrawn' /\ RunsArePaid'
    BY <1>0, <1>3, SweepQuiet, QuietKeeps
  <1>4. CASE Environment
    BY <1>0, <1>4, EnvironmentQuiet, QuietKeeps, RequeueKeeps
  <1>5. CASE UNCHANGED vars
    BY <1>5, QuietKeeps DEF vars, Quiet
  <1> QED BY <1>1, <1>2, <1>3, <1>4, <1>5 DEF Next

-----------------------------------------------------------------------------
(* Statuses and proposals *)

\* The ways a step may move the status of a job and the number of its proposals.
Keeps(j) == job'[j].st = job[j].st /\ made'[j] = made[j]
Appears(j) == job[j].st = "absent" /\ job'[j].st = "new" /\ made'[j] = made[j]
Decides(j) ==
    /\ Allows(job[j].st)
    /\ job'[j].st # "skipped"
    /\ made'[j] = made[j]
Proposes(j) ==
    /\ Allows(job[j].st)
    /\ job[j].st = "skipped" \/ job'[j].st = "pending_approval"
    /\ made'[j] = made[j] + 1
Revives(j) ==
    job[j].st = "permanent_error" /\ job'[j].st = "retryable_error" /\ made'[j] = made[j]
Delivers(j) ==
    /\ job[j].st \in {"pending_approval", "approved"}
    /\ job'[j].st \in {"sent", "approved"} \/ (job'[j].st = "skipped" /\ j \in closed')
    /\ made'[j] = made[j]
Moves(j) ==
    Keeps(j) \/ Appears(j) \/ Decides(j) \/ Proposes(j) \/ Revives(j) \/ Delivers(j)

LEMMA AllowedStatuses ==
    ASSUME TypeOK, NEW j \in Jobs, Allows(job[j].st)
    PROVE  job[j].st \in Queueable \cup {"skipped"}
  BY Typed DEF Allows, JobType, JobStatuses, Protected, Terminal

LEMMA WriteMoves ==
    ASSUME TypeOK, NEW s \in Slots, WriteResult(s) \/ UNCHANGED <<job, review, made>>,
           NEW i \in Jobs
    PROVE  Moves(i)
  <1> DEFINE j == slot[s].job
             out == slot[s].out
  <1>0. j \in Jobs /\ (StillMine(s) => Allows(job[j].st))
    BY Typed DEF StillMine
  <1>1. CASE job' = job /\ made' = made
    BY <1>1 DEF Moves, Keeps
  <1>2. CASE WriteResult(s) /\ StillMine(s) /\ out = "proposal" /\ review[j] # "open"
    <2>1. /\ job' = [job EXCEPT ![j] = Persisted(j, "pending_approval")]
          /\ made' = [made EXCEPT ![j] = made[j] + 1]
      BY <1>2 DEF WriteResult
    <2>2. CASE i # j
      BY <2>1, <2>2 DEF Moves, Keeps, TypeOK
    <2>3. CASE i = j
      <3>1. job'[j].st = Transition(job[j].st, "pending_approval") /\ made'[j] = made[j] + 1
        BY <1>0, <2>1, Rewritten DEF TypeOK
      <3>2. job[j].st = "skipped" \/ job'[j].st = "pending_approval"
        BY <1>0, <1>2, <3>1, AllowedStatuses DEF Transition
      <3> QED BY <1>0, <1>2, <2>3, <3>1, <3>2 DEF Moves, Proposes
    <2> QED BY <2>2, <2>3
  <1>3. CASE WriteResult(s) /\ StillMine(s) /\ ~(out = "proposal" /\ review[j] # "open")
    <2>1. /\ made' = made
          /\ job' = [job EXCEPT ![j] =
                        IF out \in {"retryable", "permanent"}
                        THEN Failed(j, out = "retryable")
                        ELSE Persisted(j, IF out = "filtered" THEN "filtered" ELSE "scored")]
      BY <1>3 DEF WriteResult
    <2>2. CASE i # j
      BY <2>1, <2>2 DEF Moves, Keeps, TypeOK
    <2>3. CASE i = j
      <3>1. Failed(j, out = "retryable").st # "skipped"
        BY <1>0, Rewritten
      <3>2. \A st \in {"filtered", "scored"} :
               Persisted(j, st).st = job[j].st \/ Persisted(j, st).st # "skipped"
        BY <1>0, Rewritten DEF Transition
      <3>3. job'[j].st = job[j].st \/ job'[j].st # "skipped"
        BY <1>0, <2>1, <3>1, <3>2 DEF TypeOK
      <3> QED BY <1>0, <1>3, <2>1, <2>3, <3>3 DEF Moves, Keeps, Decides
    <2> QED BY <2>2, <2>3
  <1> QED BY <1>1, <1>2, <1>3 DEF WriteResult

LEMMA ProcessMoves ==
    ASSUME TypeOK, NEW s \in Slots, ProcessJob(s), NEW i \in Jobs
    PROVE  Moves(i) /\ closed' = closed
  <1> DEFINE j == slot[s].job
  <1>0. j \in Jobs /\ job[j] \in JobType
    BY Typed
  <1>1. CASE ClaimExhausted(s)
    BY <1>0, <1>1 DEF ClaimExhausted, Moves, Keeps, Decides, JobType, TypeOK, history
  <1>2. CASE ClaimTaken(s)
    BY <1>0, <1>2 DEF ClaimTaken, Moves, Keeps, JobType, TypeOK, history
  <1>3. CASE Persist(s) \/ PersistRaises(s)
    BY <1>3, WriteMoves DEF Persist, PersistRaises
  <1>4. CASE RecordError(s)
    <2>1. Failed(j, TRUE).st # "skipped"
      BY <1>0, Rewritten
    <2>2. StillMine(s) => Allows(job[j].st)
      BY DEF StillMine
    <2>3. /\ job' = IF StillMine(s) THEN [job EXCEPT ![j] = Failed(j, TRUE)] ELSE job
          /\ made' = made /\ closed' = closed
      BY <1>4 DEF RecordError, history
    <2> HIDE DEF j
    <2>4. CASE StillMine(s) /\ i = j
      BY <1>0, <2>1, <2>2, <2>3, <2>4 DEF Moves, Decides, TypeOK
    <2>5. CASE ~(StillMine(s) /\ i = j)
      BY <1>0, <2>3, <2>5 DEF Moves, Keeps, TypeOK
    <2> QED BY <2>3, <2>4, <2>5
  <1>5. CASE Release(s)
    <2>1. job' = job \/ job' = [job EXCEPT ![j] = Unclaimed(j)]
      BY <1>5 DEF Release
    <2>2. Unclaimed(j).st = job[j].st
      BY <1>0, Rewritten
    <2> HIDE DEF j
    <2>3. job'[i].st = job[i].st
      BY <1>0, <2>1, <2>2 DEF TypeOK
    <2> QED BY <1>5, <2>3 DEF Release, Moves, Keeps, history
  <1>6. CASE ClaimRefused(s) \/ TooOld(s) \/ GraphStarts(s) \/ Raises(s)
             \/ (\E out \in Outcomes : GraphEnds(s, out))
             \/ ErrorUnrecorded(s) \/ ReleaseFails(s) \/ EndTask(s)
    BY <1>6 DEF ClaimRefused, TooOld, GraphStarts, Raises, GraphEnds, ErrorUnrecorded,
                ReleaseFails, EndTask, Moves, Keeps, history
  <1> QED BY <1>1, <1>2, <1>3, <1>4, <1>5, <1>6 DEF ProcessJob

LEMMA SweepMoves ==
    ASSUME TypeOK, NEW s \in Slots, NEW i \in Jobs,
           StartSweep(s) \/ Crash(s) \/ Sweep(s) \/ \E j \in Jobs : StartTask(s, j)
    PROVE  Moves(i) /\ closed' = closed
  <1>1. CASE StartSweep(s)
    <2>1. PICK stale \in SUBSET {j \in Jobs : Stale(j)} :
             job' = [j \in Jobs |-> IF j \in stale THEN Unclaimed(j) ELSE job[j]]
      BY <1>1 DEF StartSweep
    <2>2. job'[i].st = job[i].st
      BY <2>1, Rewritten
    <2> QED BY <1>1, <2>2 DEF StartSweep, Moves, Keeps, history
  <1>2. ASSUME NEW j \in Jobs, Scrape(s, j) PROVE Moves(i) /\ closed' = closed
    BY <1>2, Typed DEF Scrape, Moves, Keeps, Appears, JobType, TypeOK, history
  <1>3. CASE Crash(s) \/ Unmark(s) \/ SelectDue(s) \/ SendTask(s) \/ SendRefused(s)
             \/ EndSweep(s) \/ (\E j \in Jobs : Reserve(s, j) \/ StartTask(s, j))
    BY <1>3 DEF Crash, Unmark, SelectDue, SendTask, SendRefused, EndSweep, Reserve, StartTask,
                Moves, Keeps, history
  <1> QED BY <1>1, <1>2, <1>3 DEF Sweep

LEMMA EnvironmentMoves ==
    ASSUME TypeOK, Environment, NEW i \in Jobs
    PROVE  Moves(i) /\ closed \subseteq closed'
  <1>1. ASSUME NEW j \in Jobs, RequeueExhausted(j) PROVE Moves(i) /\ closed \subseteq closed'
    BY <1>1, Typed DEF RequeueExhausted, Moves, Keeps, Revives, JobType, TypeOK
  <1>2. ASSUME NEW j \in Jobs, NEW st \in {"sent", "approved", "skipped"}, Deliver(j, st)
        PROVE  Moves(i) /\ closed \subseteq closed'
    <2>1. job'[j].st = st /\ \A k \in Jobs \ {j} : job'[k] = job[k]
      BY <1>2, Typed DEF Deliver, JobType, TypeOK
    <2>2. closed \subseteq closed' /\ (st = "skipped" => j \in closed')
      BY <1>2 DEF Deliver
    <2> QED BY <1>2, <2>1, <2>2 DEF Deliver, Moves, Keeps, Delivers
  <1>3. ASSUME NEW j \in Jobs, LeasePasses(j) \/ BackoffEnds(j)
        PROVE  Moves(i) /\ closed \subseteq closed'
    BY <1>3, Typed DEF LeasePasses, BackoffEnds, Moves, Keeps, JobType, TypeOK, history
  <1>4. CASE \E j \in Jobs : ApiQueue(j) \/ MarkerExpires(j)
    BY <1>4 DEF ApiQueue, MarkerExpires, Moves, Keeps, history
  <1> QED BY <1>1, <1>2, <1>3, <1>4 DEF Environment

LEMMA StepMoves ==
    ASSUME TypeOK, [Next]_vars, NEW i \in Jobs
    PROVE  Moves(i) /\ closed \subseteq closed'
  <1>1. ASSUME NEW s \in Slots, ProcessJob(s) PROVE Moves(i) /\ closed \subseteq closed'
    BY <1>1, ProcessMoves
  <1>2. ASSUME NEW s \in Slots,
               Sweep(s) \/ StartSweep(s) \/ Crash(s) \/ \E j \in Jobs : StartTask(s, j)
        PROVE  Moves(i) /\ closed \subseteq closed'
    BY <1>2, SweepMoves
  <1>3. CASE Environment
    BY <1>3, EnvironmentMoves
  <1>4. CASE UNCHANGED vars
    BY <1>4 DEF vars, Moves, Keeps
  <1> QED BY <1>1, <1>2, <1>3, <1>4 DEF Next

LEMMA ProposalsStep == IInv /\ [Next]_vars => ProposalsAreProtected' /\ OneProposal'
  <1> SUFFICES ASSUME IInv, [Next]_vars, NEW j \in Jobs, j \notin closed'
               PROVE  /\ job'[j].st # "skipped"
                      /\ made'[j] # 0 => job'[j].st \in Protected
                      /\ made'[j] <= 1
    BY DEF ProposalsAreProtected, OneProposal
  <1>1. Moves(j) /\ j \notin closed
    BY StepMoves DEF IInv
  <1>2. /\ job[j].st # "skipped" /\ made[j] \in Nat /\ made[j] <= 1
        /\ made[j] # 0 => job[j].st \in Protected
    BY <1>1 DEF IInv, TypeOK, ProposalsAreProtected, OneProposal
  <1>3. CASE Keeps(j) \/ Appears(j) \/ Revives(j) \/ Delivers(j)
    BY <1>2, <1>3 DEF Keeps, Appears, Revives, Delivers, Protected
  <1>4. CASE Decides(j) \/ Proposes(j)
    <2>1. made[j] = 0
      BY <1>2, <1>4 DEF Decides, Proposes, Allows
    <2> QED BY <1>2, <1>4, <2>1 DEF Decides, Proposes, Protected
  <1> QED BY <1>1, <1>3, <1>4 DEF Moves

-----------------------------------------------------------------------------
(* Theorems *)

LEMMA InitIInv == Init => IInv
  <1> SUFFICES ASSUME Init PROVE IInv
    OBVIOUS
  <1>1. /\ TypeOK /\ claims = 0
        /\ \A j \in Jobs : job[j] = Absent /\ made[j] = 0 /\ runs[j] = 0
        /\ \A s \in Slots : slot[s] = Idle
    BY InitTypeOK DEF Init
  <1>2. Absent.tok = 0 /\ Absent.attempts = 0 /\ Absent.st = "absent"
    BY DEF Absent
  <1>3. Idle.tok = 0 /\ Idle.pc = "idle"
    BY DEF Idle
  <1>4. TokensDrawn
    BY <1>1, <1>2, <1>3 DEF TokensDrawn
  <1>5. RunsArePaid
    BY <1>1, <1>2, <1>3 DEF RunsArePaid
  <1>6. ProposalsAreProtected /\ OneProposal
    BY <1>1, <1>2 DEF ProposalsAreProtected, OneProposal
  <1> QED BY <1>1, <1>4, <1>5, <1>6 DEF IInv

LEMMA IInvStep == IInv /\ [Next]_vars => IInv'
  BY NextTypes, ClaimsStep, ProposalsStep DEF IInv

\* The strengthened invariant of claims, attempts and proposals holds in every state.
THEOREM ProcessingInvariant == Spec => []IInv
  <1> QED BY InitIInv, IInvStep, PTL DEF Spec

\* No task, sweep or operator leaves the declared states.
THEOREM ProcessingTypes == Spec => []TypeOK
  <1>1. IInv => TypeOK
    BY DEF IInv
  <1> QED BY <1>1, ProcessingInvariant, PTL

\* A job gets one proposal, whatever the number of workers, sweeps, lost claims and late
\* results, unless its order is found closed (save_normalized_job to
\* persist_pipeline_results).
THEOREM OneProposalPerJob == Spec => []OneProposal
  <1>1. IInv => OneProposal
    BY DEF IInv
  <1> QED BY <1>1, ProcessingInvariant, PTL

\* No more graph runs than attempts, and no more attempts than job_processing_max_attempts
\* (try_claim_job, renew_job_claim).
THEOREM RunsCapped == Spec => []RunsAreCapped
  <1>1. IInv => RunsAreCapped
    <2> SUFFICES ASSUME IInv, NEW j \in Jobs
                 PROVE  runs[j] <= job[j].attempts /\ runs[j] <= MaxAttempts
      BY DEF RunsAreCapped
    <2>1. runs[j] \in Nat /\ job[j].attempts \in 0..MaxAttempts /\ runs[j] <= job[j].attempts
      BY Typed DEF IInv, TypeOK, JobType, RunsArePaid
    <2> QED BY <2>1, Bounds
  <1> QED BY <1>1, ProcessingInvariant, PTL

\* The pipeline never overwrites what review, delivery or the filter decided.
THEOREM DecisionsAreKept == Spec => DecidedIsKept
  <1>1. IInv /\ [Next]_vars => [KeepsDecisions]_vars
    <2> SUFFICES ASSUME IInv, [Next]_vars, NEW j \in Jobs
                 PROVE  /\ job[j].st = "pending_approval" =>
                              job'[j].st \in {"pending_approval", "approved", "sent", "skipped"}
                        /\ job[j].st = "approved" => job'[j].st \in {"approved", "sent", "skipped"}
                        /\ job[j].st \in {"sent", "filtered"} => job'[j].st = job[j].st
      BY DEF KeepsDecisions
    <2>1. Moves(j)
      BY StepMoves DEF IInv
    <2> QED BY <2>1 DEF Moves, Keeps, Appears, Decides, Proposes, Revives, Delivers, Allows,
                        Protected, Terminal
  <1> QED BY <1>1, ProcessingInvariant, PTL DEF Spec, DecidedIsKept

=============================================================================
