------------------------- MODULE MemoryIndexProofs -------------------------
(***************************************************************************)
(* The theorems of MemoryIndex, for every number of jobs and texts, every   *)
(* set of payloads and keys, and any number of overlapping runs.            *)
(***************************************************************************)
EXTENDS MemoryIndex, FiniteSetTheorems, TLAPS

-----------------------------------------------------------------------------
(* Types *)

\* The queue's keys are finitely many, so that places are numbers.
LEMMA PlaceIsNumber == NextPlace \in Nat
  <1> DEFINE f == [p \in Payloads |-> KeyOf[p]]
             S == {k \in Keys : row[k] # None}
  <1>1. f \in Surjection(Payloads, Keys)
    BY DEF Surjection, Keys
  <1>2. IsFiniteSet(Keys)
    BY <1>1, FS_Surjection, IndexAssumption
  <1>3. IsFiniteSet(S)
    BY <1>2, FS_Subset
  <1>4. Cardinality(S) \in Nat
    BY <1>3, FS_CardinalityType
  <1> QED BY <1>4 DEF NextPlace

\* The sets that the constants span.
LEMMA Domains ==
  /\ \A j \in Jobs : j \in Nat
  /\ Texts \subseteq 0..MaxText /\ 0 \in 0..MaxText /\ 1 \in Texts
  /\ None \notin RowType /\ None \notin CopyType
  BY IndexAssumption DEF Jobs, Texts

LEMMA FirstIsPart == ASSUME NEW S PROVE First(S) \subseteq S
  BY DEF First

\* A row's and a run's fields.
LEMMA Typed ==
  ASSUME TypeOK
  PROVE  /\ \A j \in Jobs : /\ job[j] \in JobType /\ saver[j] \in SaverType
                            /\ point[j] \in 0..MaxText
         /\ \A j \in Jobs : copy[j] # None => copy[j] \in CopyType
         /\ \A k \in Keys : row[k] # None => row[k] \in RowType
         /\ \A w \in Workers : /\ worker[w] \in WorkerType
                               /\ worker[w].todo \subseteq TodoType
                               /\ worker[w].claims \subseteq ClaimType
                               /\ CurrentJob(w) \subseteq worker[w].todo
                               /\ CurrentClaim(w) \subseteq worker[w].claims
  BY DEF TypeOK, WorkerType, CurrentJob, CurrentClaim

LEMMA CurrentTypes ==
  ASSUME TypeOK, NEW w \in Workers
  PROVE  /\ \A c \in CurrentJob(w) : c \in worker[w].todo /\ c.job \in Jobs /\ c.text \in Texts
         /\ \A c \in CurrentClaim(w) : /\ c \in worker[w].claims /\ c.key \in Keys
                                       /\ c.payload \in Payloads /\ c.tok \in Tokens
  BY Typed DEF TodoType, ClaimType

LEMMA InitTypeOK == Init => TypeOK
  <1> SUFFICES ASSUME Init PROVE TypeOK
    OBVIOUS
  <1>1. [text |-> 0, pending |-> FALSE, sig |-> "none", kwork |-> FALSE] \in JobType
    BY Domains DEF JobType, Sigs
  <1>2. NoSaver \in SaverType
    BY Domains DEF NoSaver, SaverType
  <1>3. Idle \in WorkerType
    BY DEF Idle, WorkerType
  <1> QED BY <1>1, <1>2, <1>3, Domains, IndexAssumption DEF Init, TypeOK

\* One field of a run is set.
LEMMA ToTypes ==
  ASSUME TypeOK, NEW w \in Workers,
         NEW pc \in {"idle", "job", "mark", "recover", "claim", "apply", "written", "refused"},
         To(w, pc)
  PROVE  worker' \in [Workers -> WorkerType]
  <1>1. worker[w] \in WorkerType
    BY Typed
  <1>2. [worker[w] EXCEPT !.pc = pc] \in WorkerType
    BY <1>1 DEF WorkerType
  <1> QED BY <1>2 DEF To, TypeOK

LEMMA NextJobTypes ==
  ASSUME TypeOK, NEW w \in Workers, NEW c, NextJob(w, c)
  PROVE  worker' \in [Workers -> WorkerType]
  <1> DEFINE rest == worker[w].todo \ {c}
             pc == IF rest = {} THEN "recover" ELSE "job"
             new == [worker[w] EXCEPT !.todo = rest, !.pc = pc]
  <1>1. worker[w] \in WorkerType /\ rest \in SUBSET TodoType
    BY Typed
  <1>2. new \in WorkerType
    BY <1>1 DEF WorkerType
  <1>3. worker' = [worker EXCEPT ![w] = new]
    BY <1>1 DEF NextJob, TypeOK, WorkerType
  <1> QED BY <1>2, <1>3 DEF TypeOK

LEMMA NextClaimTypes ==
  ASSUME TypeOK, NEW w \in Workers, NEW c, NextClaim(w, c)
  PROVE  worker' \in [Workers -> WorkerType]
  <1> DEFINE rest == worker[w].claims \ {c}
             pc == IF rest = {} THEN "idle" ELSE "apply"
             new == [worker[w] EXCEPT !.claims = rest, !.pc = pc]
  <1>1. worker[w] \in WorkerType /\ rest \in SUBSET ClaimType
    BY Typed
  <1>2. new \in WorkerType
    BY <1>1 DEF WorkerType
  <1>3. worker' = [worker EXCEPT ![w] = new]
    BY <1>1 DEF NextClaim, TypeOK, WorkerType
  <1> QED BY <1>2, <1>3 DEF TypeOK

\* What a call costs of the bound.
LEMMA EventTypes ==
  ASSUME TypeOK
  PROVE  /\ Event => events' \in 0..MaxEvents
         /\ \A n \in Nat : Events(n) => events' \in 0..MaxEvents
         /\ UNCHANGED events => events' \in 0..MaxEvents
  BY IndexAssumption DEF Event, Events, TypeOK

LEMMA MarkedTypes ==
  ASSUME TypeOK, NEW j \in Jobs, NEW t
  PROVE  Marked(j, t) \in [Jobs -> JobType]
  <1>1. job[j] \in JobType
    BY Typed
  <1>2. [job[j] EXCEPT !.pending = FALSE, !.sig = "current"] \in JobType
    BY <1>1 DEF JobType, Sigs
  <1>3. [job[j] EXCEPT !.pending = TRUE] \in JobType
    BY <1>1 DEF JobType
  <1> QED BY <1>2, <1>3 DEF Marked, TypeOK

LEMMA UnclaimedType == ASSUME NEW r \in RowType PROVE Unclaimed(r) \in RowType
  BY DEF Unclaimed, RowType

LEMMA WithoutTypes ==
  ASSUME TypeOK, NEW k \in Keys, row[k] # None
  PROVE  Without(k) \in [Keys -> {None} \cup RowType]
  <1>1. row[k] \in RowType
    BY Typed
  <1>2. ASSUME NEW h \in Keys, row[h] # None, row[h].at > row[k].at
        PROVE  [row[h] EXCEPT !.at = @ - 1] \in RowType
    <2>1. row[h] \in RowType
      BY <1>2, Typed
    <2>2. row[h].at - 1 \in Nat
      BY <1>1, <2>1, <1>2 DEF RowType
    <2> QED BY <2>1, <2>2 DEF RowType
  <1> QED BY <1>2 DEF Without, TypeOK

\* The columns of the job.
LEMMA JobActionTypes ==
  ASSUME TypeOK, NEW j \in Jobs
  PROVE  /\ \A kwork \in BOOLEAN : SaveNew(j, kwork) => TypeOK'
         /\ \A t \in Texts : Rescrape(j, t) => TypeOK'
         /\ SaverStore(j) => TypeOK'
         /\ SaverMark(j) => TypeOK'
         /\ \A why \in Rewriters : CopyRawData(j, why) => TypeOK'
         /\ Rewrite(j) => TypeOK'
  <1>0. job[j] \in JobType /\ saver[j] \in SaverType /\ NoSaver \in SaverType
    BY Typed, Domains DEF NoSaver, SaverType
  <1>1. ASSUME NEW kwork \in BOOLEAN, SaveNew(j, kwork) PROVE TypeOK'
    <2>1. [text |-> 1, pending |-> TRUE, sig |-> "none", kwork |-> kwork] \in JobType
      BY Domains DEF JobType, Sigs
    <2>2. [pc |-> "store", text |-> 1] \in SaverType
      BY Domains DEF SaverType
    <2> QED BY <1>1, <2>1, <2>2 DEF SaveNew, TypeOK, queueVars
  <1>2. ASSUME NEW t \in Texts, Rescrape(j, t) PROVE TypeOK'
    <2>1. [job[j] EXCEPT !.text = t, !.pending = TRUE] \in JobType
      BY <1>0, Domains DEF JobType
    <2>2. [job[j] EXCEPT !.text = t] \in JobType
      BY <1>0, Domains DEF JobType
    <2>3. job' \in [Jobs -> JobType]
      BY <1>2, <2>1, <2>2 DEF Rescrape, TypeOK
    <2>4. unmarked' \subseteq Jobs
      BY <1>2 DEF Rescrape, TypeOK
    <2>5. events' \in 0..MaxEvents
      BY <1>2, EventTypes DEF Rescrape
    <2> QED BY <1>2, <2>3, <2>4, <2>5 DEF Rescrape, TypeOK, queueVars
  <1>3. ASSUME SaverStore(j) PROVE TypeOK'
    <2>1. [saver[j] EXCEPT !.pc = "mark"] \in SaverType /\ saver[j].text \in 0..MaxText
      BY <1>0 DEF SaverType
    <2>2. saver' \in [Jobs -> SaverType]
      BY <1>0, <1>3, <2>1 DEF SaverStore, TypeOK
    <2>3. point' \in [Jobs -> 0..MaxText] /\ unmarked' \subseteq Jobs
      BY <1>3, <2>1 DEF SaverStore, Land, LandUnheard, TypeOK
    <2>4. events' \in 0..MaxEvents
      BY <1>3, EventTypes DEF SaverStore
    <2> QED BY <1>3, <2>2, <2>3, <2>4 DEF SaverStore, TypeOK, queueVars
  <1>4. ASSUME SaverMark(j) PROVE TypeOK'
    <2>1. job' \in [Jobs -> JobType]
      BY <1>4, MarkedTypes DEF SaverMark, TypeOK
    <2>2. saver' \in [Jobs -> SaverType] /\ unmarked' \subseteq Jobs
      BY <1>0, <1>4 DEF SaverMark, TypeOK
    <2>3. events' \in 0..MaxEvents
      BY <1>4, EventTypes DEF SaverMark
    <2> QED BY <1>4, <2>1, <2>2, <2>3 DEF SaverMark, TypeOK, queueVars
  <1>5. ASSUME NEW why \in Rewriters, CopyRawData(j, why) PROVE TypeOK'
    <2>1. [why |-> why, pending |-> job[j].pending, sig |-> job[j].sig] \in CopyType
      BY <1>0 DEF JobType, CopyType
    <2>2. events' \in 0..MaxEvents
      BY <1>5, EventTypes DEF CopyRawData
    <2> QED BY <1>5, <2>1, <2>2 DEF CopyRawData, TypeOK, queueVars
  <1>6. ASSUME Rewrite(j) PROVE TypeOK'
    <2>1. PICK pending \in BOOLEAN : copy[j] # None /\ WriteBack(j, pending)
      <3>1. copy[j] # None
        BY <1>6 DEF Rewrite, WriteAudit, MarkForReindex, MarkPilot
      <3>2. copy[j].pending \in BOOLEAN
        BY <3>1, Typed DEF CopyType
      <3> QED BY <1>6, <3>1, <3>2 DEF Rewrite, WriteAudit, MarkForReindex, MarkPilot
    <2>2. copy[j].sig \in Sigs
      BY <2>1, Typed DEF CopyType
    <2>3. [job[j] EXCEPT !.pending = pending, !.sig = copy[j].sig] \in JobType
      BY <1>0, <2>2 DEF JobType
    <2>4. job' \in [Jobs -> JobType]
      BY <2>1, <2>3 DEF WriteBack, TypeOK
    <2>5. unmarked' \subseteq Jobs /\ copy' \in [Jobs -> {None} \cup CopyType]
      BY <2>1 DEF WriteBack, TypeOK
    <2> QED BY <2>1, <2>4, <2>5 DEF WriteBack, TypeOK, queueVars
  <1> QED BY <1>1, <1>2, <1>3, <1>4, <1>5, <1>6

LEMMA SwitchTypes == TypeOK /\ SwitchModel => TypeOK'
  <1> SUFFICES ASSUME TypeOK, SwitchModel PROVE TypeOK'
    OBVIOUS
  <1>1. ASSUME NEW j \in Jobs
        PROVE  [job[j] EXCEPT !.sig = IF @ = "current" THEN "old" ELSE @] \in JobType
    BY Typed DEF JobType, Sigs
  <1>2. NoSaver \in SaverType /\ Idle \in WorkerType
    BY Domains DEF NoSaver, SaverType, Idle, WorkerType
  <1>3. job' \in [Jobs -> JobType]
    BY <1>1 DEF SwitchModel
  <1>4. events' \in 0..MaxEvents
    BY EventTypes DEF SwitchModel
  <1> QED BY <1>2, <1>3, <1>4, Domains DEF SwitchModel, TypeOK

\* The queue's rows and its producers.
LEMMA QueueActionTypes ==
  ASSUME TypeOK
  PROVE  /\ \A p \in Payloads : OfferPattern(p) => TypeOK'
         /\ \A p \in Payloads : Enqueue(p) => TypeOK'
         /\ \A p \in Payloads : ProducerDies(p) => TypeOK'
         /\ \A steps, refused \in SUBSET Edits : OfferEdits(steps, refused) => TypeOK'
         /\ \A k \in Keys : LeaseElapses(k) => TypeOK'
  <1>1. ASSUME NEW p \in Payloads, OfferPattern(p) PROVE TypeOK'
    <2>1. events' \in 0..MaxEvents
      BY <1>1, EventTypes DEF OfferPattern
    <2> QED BY <1>1, <2>1 DEF OfferPattern, TypeOK, jobVars
  <1>2. ASSUME NEW p \in Payloads, Enqueue(p) PROVE TypeOK'
    <2> DEFINE k == KeyOf[p]
               new == [payload |-> p, tok |-> None, lease |-> "none", at |-> NextPlace]
    <2>1. k \in Keys
      BY DEF Keys
    <2>2. new \in RowType
      BY PlaceIsNumber DEF RowType
    <2>3. ASSUME row[k] # None PROVE [Unclaimed(row[k]) EXCEPT !.payload = p] \in RowType
      <3>1. Unclaimed(row[k]) \in RowType
        BY <2>1, <2>3, Typed, UnclaimedType
      <3> QED BY <3>1 DEF RowType
    <2>4. row' \in [Keys -> {None} \cup RowType]
      BY <1>2, <2>1, <2>2, <2>3 DEF Enqueue, TypeOK
    <2> QED BY <1>2, <2>4 DEF Enqueue, TypeOK, jobVars
  <1>3. ASSUME NEW p \in Payloads, ProducerDies(p) PROVE TypeOK'
    <2>1. events' \in 0..MaxEvents
      BY <1>3, EventTypes DEF ProducerDies
    <2> QED BY <1>3, <2>1 DEF ProducerDies, TypeOK, jobVars
  <1>4. ASSUME NEW steps \in SUBSET Edits, NEW refused \in SUBSET Edits,
               OfferEdits(steps, refused)
        PROVE  TypeOK'
    <2>1. PICK queued \in {steps, refused} :
            deferred' = deferred \cup queued /\ Events(Cardinality(queued))
      BY <1>4 DEF OfferEdits
    <2>2. queued \subseteq Payloads
      BY IndexAssumption
    <2>3. Cardinality(queued) \in Nat
      BY <2>2, FS_Subset, FS_CardinalityType, IndexAssumption
    <2>4. events' \in 0..MaxEvents
      BY <2>1, <2>3, EventTypes
    <2>5. UNCHANGED <<jobVars, row, worker>>
      BY <1>4 DEF OfferEdits
    <2> QED BY <2>1, <2>2, <2>4, <2>5 DEF TypeOK, jobVars
  <1>5. ASSUME NEW k \in Keys, LeaseElapses(k) PROVE TypeOK'
    <2>1. [row[k] EXCEPT !.lease = "over"] \in RowType
      BY <1>5, Typed DEF LeaseElapses, RowType
    <2>2. row' \in [Keys -> {None} \cup RowType]
      BY <1>5, <2>1 DEF LeaseElapses, TypeOK
    <2>3. events' \in 0..MaxEvents
      BY <1>5, EventTypes DEF LeaseElapses
    <2> QED BY <1>5, <2>2, <2>3 DEF LeaseElapses, TypeOK, jobVars
  <1> QED BY <1>1, <1>2, <1>3, <1>4, <1>5

\* The runs of the task.
LEMMA JobHalfTypes ==
  ASSUME TypeOK, NEW w \in Workers
  PROVE  /\ ReadPendingJobs(w) => TypeOK'
         /\ StoreJob(w) => TypeOK'
         /\ MarkJob(w) => TypeOK'
         /\ WorkerDies(w) => TypeOK'
  <1>1. ASSUME ReadPendingJobs(w) PROVE TypeOK'
    <2> DEFINE pending == {j \in Jobs : Saved(j) /\ job[j].pending}
               jobs == First(pending)
               todo == {[job |-> j, text |-> job[j].text] : j \in jobs}
               new == [pc |-> IF jobs = {} THEN "recover" ELSE "job", todo |-> todo, claims |-> {}]
    <2>1. jobs \subseteq pending
      BY FirstIsPart
    <2>2. ASSUME NEW j \in pending PROVE job[j].text \in Texts
      BY Typed DEF Saved, JobType, Texts
    <2>3. todo \subseteq TodoType
      <3>1. ASSUME NEW j \in jobs PROVE [job |-> j, text |-> job[j].text] \in TodoType
        BY <2>1, <2>2 DEF TodoType
      <3> QED BY <3>1
    <2>4. new \in WorkerType
      BY <2>3 DEF WorkerType
    <2>5. worker' = [worker EXCEPT ![w] = new]
      BY <1>1 DEF ReadPendingJobs
    <2>6. worker' \in [Workers -> WorkerType]
      BY <2>4, <2>5 DEF TypeOK
    <2> QED BY <1>1, <2>6 DEF ReadPendingJobs, TypeOK, jobVars, queueVars
  <1>2. ASSUME StoreJob(w) PROVE TypeOK'
    <2>1. PICK c \in CurrentJob(w) :
            \/ Land(c.job, c.text) /\ To(w, "mark") /\ UNCHANGED events
            \/ /\ Event
               /\ LandUnheard(c.job, c.text) \/ UNCHANGED <<point, unmarked>>
               /\ NextJob(w, c)
      BY <1>2 DEF StoreJob
    <2>2. c.job \in Jobs /\ c.text \in 0..MaxText
      BY CurrentTypes, Domains
    <2>3. point' \in [Jobs -> 0..MaxText] /\ unmarked' \subseteq Jobs
      BY <2>1, <2>2 DEF Land, LandUnheard, TypeOK
    <2>4. worker' \in [Workers -> WorkerType]
      BY <2>1, ToTypes, NextJobTypes
    <2>5. events' \in 0..MaxEvents
      BY <2>1, EventTypes
    <2> QED BY <1>2, <2>3, <2>4, <2>5 DEF StoreJob, TypeOK, queueVars
  <1>3. ASSUME MarkJob(w) PROVE TypeOK'
    <2>1. PICK c \in CurrentJob(w) :
            /\ \/ job' = Marked(c.job, c.text) /\ UNCHANGED <<unmarked, events>>
               \/ Event /\ unmarked' = unmarked \cup {c.job} /\ UNCHANGED job
            /\ NextJob(w, c)
      BY <1>3 DEF MarkJob
    <2>2. c.job \in Jobs
      BY CurrentTypes
    <2>3. job' \in [Jobs -> JobType] /\ unmarked' \subseteq Jobs
      BY <2>1, <2>2, MarkedTypes DEF TypeOK
    <2>4. worker' \in [Workers -> WorkerType]
      BY <2>1, NextJobTypes
    <2>5. events' \in 0..MaxEvents
      BY <2>1, EventTypes
    <2> QED BY <1>3, <2>3, <2>4, <2>5 DEF MarkJob, TypeOK, queueVars
  <1>4. ASSUME WorkerDies(w) PROVE TypeOK'
    <2>1. Idle \in WorkerType
      BY DEF Idle, WorkerType
    <2>2. worker' \in [Workers -> WorkerType]
      BY <1>4, <2>1 DEF WorkerDies, TypeOK
    <2>3. unmarked' \subseteq Jobs
      BY <1>4, CurrentTypes DEF WorkerDies, TypeOK
    <2>4. events' \in 0..MaxEvents
      BY <1>4, EventTypes DEF WorkerDies
    <2> QED BY <1>4, <2>2, <2>3, <2>4 DEF WorkerDies, TypeOK, queueVars
  <1> QED BY <1>1, <1>2, <1>3, <1>4

LEMMA QueueHalfTypes ==
  ASSUME TypeOK, NEW w \in Workers
  PROVE  /\ RecoverStale(w) => TypeOK'
         /\ ClaimBatch(w) => TypeOK'
         /\ ApplyRow(w) => TypeOK'
         /\ Finalize(w) => TypeOK'
  <1>1. ASSUME RecoverStale(w) PROVE TypeOK'
    <2>1. ASSUME NEW k \in Keys, row[k] # None PROVE Unclaimed(row[k]) \in RowType
      BY <2>1, Typed, UnclaimedType
    <2>2. row' \in [Keys -> {None} \cup RowType]
      BY <1>1, <2>1, Typed DEF RecoverStale
    <2>3. worker' \in [Workers -> WorkerType]
      BY <1>1, ToTypes DEF RecoverStale
    <2> QED BY <1>1, <2>2, <2>3 DEF RecoverStale, TypeOK, jobVars
  <1>2. ASSUME ClaimBatch(w) PROVE TypeOK'
    <2> DEFINE free  == {k \in Keys : row[k] # None /\ row[k].lease # "live"}
               batch == {k \in free : row[k].at \in First({row[h].at : h \in free})}
               pc == IF batch = {} THEN "idle" ELSE "apply"
               claims(t) == {[key |-> k, payload |-> row[k].payload, tok |-> t, at |-> row[k].at] :
                               k \in batch}
    <2>1. PICK t \in NewTokens :
            /\ row' = [k \in Keys |-> IF k \in batch
                                      THEN [row[k] EXCEPT !.tok = t, !.lease = "live"]
                                      ELSE row[k]]
            /\ worker' = [worker EXCEPT ![w].pc = pc, ![w].claims = claims(t)]
      BY <1>2 DEF ClaimBatch
    <2>2. t \in Tokens
      BY <2>1 DEF NewTokens
    <2>3. ASSUME NEW k \in batch
          PROVE  [row[k] EXCEPT !.tok = t, !.lease = "live"] \in RowType
      BY <2>2, Typed DEF RowType
    <2>4. row' \in [Keys -> {None} \cup RowType]
      BY <2>1, <2>3, Typed
    <2>5. claims(t) \subseteq ClaimType
      <3>1. ASSUME NEW k \in batch
            PROVE  [key |-> k, payload |-> row[k].payload, tok |-> t, at |-> row[k].at] \in ClaimType
        BY <2>2, Typed DEF RowType, ClaimType
      <3> QED BY <3>1
    <2>6. worker[w] \in WorkerType
      BY Typed
    <2>7. [worker[w] EXCEPT !.pc = pc, !.claims = claims(t)] \in WorkerType
      BY <2>5, <2>6 DEF WorkerType
    <2>8. worker' = [worker EXCEPT ![w] = [worker[w] EXCEPT !.pc = pc, !.claims = claims(t)]]
      BY <2>1, <2>6 DEF TypeOK, WorkerType
    <2>9. worker' \in [Workers -> WorkerType]
      BY <2>7, <2>8 DEF TypeOK
    <2> QED BY <1>2, <2>4, <2>9 DEF ClaimBatch, TypeOK, jobVars
  <1>3. ASSUME ApplyRow(w) PROVE TypeOK'
    <2>1. worker' \in [Workers -> WorkerType]
      BY <1>3, ToTypes DEF ApplyRow, StoreAnswers
    <2>2. events' \in 0..MaxEvents
      BY <1>3, EventTypes DEF ApplyRow
    <2> QED BY <1>3, <2>1, <2>2 DEF ApplyRow, TypeOK, jobVars, queueVars
  <1>4. ASSUME Finalize(w) PROVE TypeOK'
    <2>1. PICK c \in CurrentClaim(w) :
            /\ row' = IF ~Mine(c) THEN row
                      ELSE IF worker[w].pc = "written" THEN Without(c.key)
                      ELSE [row EXCEPT ![c.key] = Unclaimed(@)]
            /\ NextClaim(w, c)
      BY <1>4 DEF Finalize
    <2>2. c.key \in Keys
      BY CurrentTypes
    <2>3. ASSUME Mine(c) PROVE Unclaimed(row[c.key]) \in RowType
      BY <2>2, <2>3, Typed, UnclaimedType DEF Mine
    <2>4. row' \in [Keys -> {None} \cup RowType]
      <3>1. CASE ~Mine(c)
        BY <2>1, <3>1 DEF TypeOK
      <3>2. CASE Mine(c) /\ worker[w].pc = "written"
        BY <2>1, <2>2, <3>2, WithoutTypes DEF Mine
      <3>3. CASE Mine(c) /\ worker[w].pc # "written"
        BY <2>1, <2>2, <2>3, <3>3 DEF TypeOK
      <3> QED BY <3>1, <3>2, <3>3
    <2>5. worker' \in [Workers -> WorkerType]
      BY <2>1, NextClaimTypes
    <2> QED BY <1>4, <2>4, <2>5 DEF Finalize, TypeOK, jobVars
  <1> QED BY <1>1, <1>2, <1>3, <1>4

LEMMA NextTypeOK == TypeOK /\ [Next]_vars => TypeOK'
  <1> SUFFICES ASSUME TypeOK, [Next]_vars PROVE TypeOK'
    OBVIOUS
  <1>1. CASE Next
    BY <1>1, JobActionTypes, SwitchTypes, QueueActionTypes, JobHalfTypes, QueueHalfTypes
    DEF Next, WorkerStep
  <1>2. CASE UNCHANGED vars
    BY <1>2 DEF vars, TypeOK
  <1> QED BY <1>1, <1>2

(* Type correctness: every column, copy, claim and counter keeps its range in  *)
(* every step of savers, scrapes, scripts, producers and runs of the task.      *)
THEOREM IndexTypes == Spec => []TypeOK
  BY InitTypeOK, NextTypeOK, PTL DEF Spec

-----------------------------------------------------------------------------
(* The embedding of jobs *)

JobPart == EmbeddingIsCurrent /\ LandedIsThere /\ CopyIsNoNewer

\* A writer has stored text u for job i and is about to compare it.
Waiting(i, u) ==
  \/ saver[i].pc = "mark" /\ saver[i].text = u
  \/ \E w \in Workers : worker[w].pc = "mark" /\ \E c \in CurrentJob(w) : c.job = i /\ c.text = u

\* The part of the invariant that is about job i.
JobInv(i) ==
  /\ \A u : job[i].text = u /\ u > 0 /\ ~job[i].pending /\ job[i].sig = "current"
             => point[i] = u \/ i \in unmarked \/ \E x : x # u /\ Waiting(i, x)
  /\ \A u : Waiting(i, u) => point[i] = u \/ i \in unmarked
  /\ copy[i] # None => job[i].text > 0 /\ (copy[i].sig = "current" => job[i].sig = "current")

LEMMA CrossesForm == ASSUME NEW i, NEW u PROVE Crosses(i, u) <=> \E x : x # u /\ Waiting(i, x)
  BY DEF Crosses, Waiting

LEMMA JobByJob == JobPart => \A i \in Jobs : JobInv(i)
  <1> SUFFICES ASSUME JobPart, NEW i \in Jobs PROVE JobInv(i)
    OBVIOUS
  <1>1. ASSUME NEW u, Waiting(i, u) PROVE point[i] = u \/ i \in unmarked
    BY <1>1 DEF Waiting, JobPart, LandedIsThere
  <1> QED BY <1>1, CrossesForm DEF JobInv, JobPart, EmbeddingIsCurrent, CopyIsNoNewer, Saved

LEMMA JobByJobNext == TypeOK' /\ (\A i \in Jobs : JobInv(i)') => JobPart'
  <1> SUFFICES ASSUME TypeOK', \A i \in Jobs : JobInv(i)' PROVE JobPart'
    OBVIOUS
  <1>1. EmbeddingIsCurrent'
    <2> SUFFICES ASSUME NEW j \in Jobs,
                        job'[j].text > 0, ~job'[j].pending, job'[j].sig = "current"
                 PROVE  point'[j] = job'[j].text \/ j \in unmarked' \/ Crosses(j, job[j].text)'
      BY DEF EmbeddingIsCurrent, Saved
    <2>1. \/ point'[j] = job'[j].text \/ j \in unmarked'
          \/ \E x : x # job'[j].text /\ Waiting(j, x)'
      BY DEF JobInv
    <2> QED BY <2>1 DEF Waiting, Crosses
  <1>2. LandedIsThere'
    <2>1. ASSUME NEW j \in Jobs, saver'[j].pc = "mark"
          PROVE  point'[j] = saver'[j].text \/ j \in unmarked'
      <3>1. Waiting(j, saver[j].text)'
        BY <2>1 DEF Waiting
      <3> QED BY <3>1 DEF JobInv, Waiting
    <2>2. ASSUME NEW w \in Workers, worker'[w].pc = "mark", NEW c \in CurrentJob(w)'
          PROVE  point'[c.job] = c.text \/ c.job \in unmarked'
      <3>1. c.job \in Jobs
        BY DEF CurrentJob, TypeOK, WorkerType, TodoType
      <3>2. Waiting(c.job, c.text)'
        BY <2>2 DEF Waiting
      <3> QED BY <3>1, <3>2 DEF JobInv
    <2> QED BY <2>1, <2>2 DEF LandedIsThere
  <1>3. CopyIsNoNewer'
    BY DEF JobInv, CopyIsNoNewer, Saved
  <1> QED BY <1>1, <1>2, <1>3 DEF JobPart

\* No run begins or ends the wait between write and comparison.
SameMarks ==
  \A v \in Workers :
    /\ worker'[v].pc = "mark" <=> worker[v].pc = "mark"
    /\ worker[v].pc = "mark" => worker'[v].todo = worker[v].todo

LEMMA SameWaiting ==
  ASSUME SameMarks, NEW i, saver'[i] = saver[i] \/ (saver'[i].pc # "mark" /\ saver[i].pc # "mark")
  PROVE  \A u : Waiting(i, u)' <=> Waiting(i, u)
  <1>1. ASSUME NEW v \in Workers, worker[v].pc = "mark", NEW c
        PROVE  c \in CurrentJob(v)' <=> c \in CurrentJob(v)
    BY <1>1 DEF SameMarks, CurrentJob
  <1>2. \A v \in Workers : worker'[v].pc = "mark" <=> worker[v].pc = "mark"
    BY DEF SameMarks
  <1> QED BY <1>1, <1>2 DEF Waiting

\* A job that a step is not about.
SameJob(i) ==
  /\ job'[i] = job[i] /\ point'[i] = point[i] /\ copy'[i] = copy[i]
  /\ i \in unmarked' <=> i \in unmarked
  /\ \A u : Waiting(i, u)' <=> Waiting(i, u)

LEMMA Undisturbed == ASSUME NEW i, JobInv(i), SameJob(i) PROVE JobInv(i)'
  BY DEF JobInv, SameJob

\* A job whose writers may end, if they leave it unmarked.
LEMMA LeftUnmarked ==
  ASSUME NEW i, JobInv(i), i \in unmarked', job'[i] = job[i], copy'[i] = copy[i]
  PROVE  JobInv(i)'
  BY DEF JobInv

\* All that a run has next is of one job.
LEMMA OneCurrentJob ==
  ASSUME TypeOK, OneTextOfAJob, NEW w \in Workers, NEW c \in CurrentJob(w), NEW d \in CurrentJob(w)
  PROVE  c = d
  <1>1. c \in worker[w].todo /\ d \in worker[w].todo /\ c.job \in Nat /\ d.job \in Nat
    BY CurrentTypes, Domains
  <1>2. c.job <= d.job /\ d.job <= c.job
    BY <1>1 DEF CurrentJob
  <1> QED BY <1>1, <1>2 DEF OneTextOfAJob

\* A writer with text t lands: who waits with another text leaves the job unmarked.
LEMMA Landing ==
  ASSUME TypeOK, NEW j \in Jobs, NEW t, JobInv(j), Land(j, t),
         job'[j] = job[j], copy'[j] = copy[j],
         \A u : Waiting(j, u)' <=> Waiting(j, u) \/ u = t
  PROVE  JobInv(j)'
  <1>1. point'[j] = t
    BY DEF Land, TypeOK
  <1>2. j \in unmarked' <=> \E x : x # t /\ Waiting(j, x)
    BY CrossesForm DEF Land
  <1> QED BY <1>1, <1>2 DEF JobInv

\* It compares: the text in the index is its own, or the job is unmarked.
LEMMA Comparing ==
  ASSUME TypeOK, NEW j \in Jobs, NEW t, JobInv(j), Waiting(j, t),
         job' = Marked(j, t), point'[j] = point[j], copy'[j] = copy[j],
         j \in unmarked' <=> j \in unmarked,
         \A u : Waiting(j, u)' => Waiting(j, u)
  PROVE  JobInv(j)'
  <1>1. job[j] \in JobType /\ job \in [Jobs -> JobType]
    BY Typed DEF TypeOK
  <1>2. /\ job'[j].text = job[j].text
        /\ job[j].sig = "current" => job'[j].sig = "current"
        /\ ~job'[j].pending => job[j].text = t
    BY <1>1 DEF Marked, JobType
  <1> QED BY <1>2 DEF JobInv

LEMMA JobActionsKeep ==
  ASSUME TypeOK, JobPart, NEW j \in Jobs
  PROVE  /\ \A kwork \in BOOLEAN : SaveNew(j, kwork) => \A i \in Jobs : JobInv(i)'
         /\ \A t \in Texts : Rescrape(j, t) => \A i \in Jobs : JobInv(i)'
         /\ SaverStore(j) => \A i \in Jobs : JobInv(i)'
         /\ SaverMark(j) => \A i \in Jobs : JobInv(i)'
         /\ \A why \in Rewriters : CopyRawData(j, why) => \A i \in Jobs : JobInv(i)'
         /\ Rewrite(j) => \A i \in Jobs : JobInv(i)'
  <1>0. /\ \A i \in Jobs : JobInv(i)
        /\ job[j] \in JobType /\ job \in [Jobs -> JobType] /\ saver \in [Jobs -> SaverType]
        /\ copy \in [Jobs -> {None} \cup CopyType] /\ point \in [Jobs -> 0..MaxText]
    BY JobByJob, Typed DEF TypeOK
  <1>1. ASSUME NEW kwork \in BOOLEAN, SaveNew(j, kwork), NEW i \in Jobs PROVE JobInv(i)'
    <2>1. CASE i # j
      <3>1. SameMarks /\ saver'[i] = saver[i]
        BY <1>0, <1>1, <2>1 DEF SaveNew, SameMarks
      <3>2. SameJob(i)
        BY <1>0, <1>1, <2>1, <3>1, SameWaiting DEF SaveNew, SameJob
      <3> QED BY <1>0, <3>2, Undisturbed
    <2>2. CASE i = j
      <3>1. saver'[j].pc = "store" /\ job'[j].pending /\ job[j].text = 0
        BY <1>0, <1>1 DEF SaveNew, Saved, JobType
      <3>2. \A u : Waiting(j, u)' => Waiting(j, u)
        BY <1>1, <3>1 DEF SaveNew, Waiting, CurrentJob
      <3>3. copy'[j] = None /\ point'[j] = point[j] /\ unmarked' = unmarked
        BY <1>0, <1>1, <3>1 DEF SaveNew, JobInv
      <3> QED BY <1>0, <2>2, <3>1, <3>2, <3>3 DEF JobInv
    <2> QED BY <2>1, <2>2
  <1>2. ASSUME NEW t \in Texts, Rescrape(j, t), NEW i \in Jobs PROVE JobInv(i)'
    <2>1. SameMarks /\ UNCHANGED <<saver, point, copy>>
      BY <1>2 DEF Rescrape, SameMarks
    <2>2. \A u : Waiting(i, u)' <=> Waiting(i, u)
      BY <2>1, SameWaiting
    <2>3. CASE i # j
      <3>1. job'[i] = job[i] /\ (i \in unmarked' <=> i \in unmarked)
        BY <1>0, <1>2, <2>3 DEF Rescrape
      <3> QED BY <1>0, <2>1, <2>2, <3>1, Undisturbed DEF SameJob
    <2>4. CASE i = j
      <3>1. /\ job'[j].text > 0 /\ job'[j].sig = job[j].sig
            /\ job'[j].pending \/ j \in unmarked'
            /\ unmarked \subseteq unmarked'
        BY <1>0, <1>2 DEF Rescrape, JobType, Texts
      <3> QED BY <1>0, <2>1, <2>2, <2>4, <3>1 DEF JobInv
    <2> QED BY <2>3, <2>4
  <1>3. ASSUME SaverStore(j), NEW i \in Jobs PROVE JobInv(i)'
    <2> DEFINE t == saver[j].text
    <2>0. SameMarks /\ UNCHANGED <<job, copy>>
      BY <1>3 DEF SaverStore, SameMarks
    <2>1. CASE i # j
      <3>1. /\ saver'[i] = saver[i] /\ point'[i] = point[i]
            /\ i \in unmarked' <=> i \in unmarked
        BY <1>0, <1>3, <2>1 DEF SaverStore, Land, LandUnheard
      <3>2. SameJob(i)
        BY <2>0, <3>1, SameWaiting DEF SameJob
      <3> QED BY <1>0, <3>2, Undisturbed
    <2>2. CASE i = j /\ Land(j, t) /\ saver' = [saver EXCEPT ![j].pc = "mark"]
      <3>1. saver'[j].pc = "mark" /\ saver'[j].text = t /\ saver[j].pc = "store"
        BY <1>0, <1>3, <2>2 DEF SaverStore, SaverType
      <3>2. \A u : Waiting(j, u)' <=> Waiting(j, u) \/ u = t
        BY <1>3, <3>1 DEF SaverStore, Waiting, CurrentJob
      <3> QED BY <1>0, <2>0, <2>2, <3>2, Landing
    <2>3. CASE i = j /\ saver' = [saver EXCEPT ![j] = NoSaver]
               /\ (LandUnheard(j, t) \/ UNCHANGED <<point, unmarked>>)
      <3>1. saver'[j].pc # "mark" /\ saver[j].pc # "mark"
        BY <1>0, <1>3, <2>3 DEF SaverStore, NoSaver
      <3>2. \A u : Waiting(j, u)' <=> Waiting(j, u)
        BY <2>0, <3>1, SameWaiting
      <3>3. j \in unmarked' \/ (point' = point /\ unmarked' = unmarked)
        BY <2>3 DEF LandUnheard
      <3> QED BY <1>0, <2>0, <2>3, <3>2, <3>3, LeftUnmarked, Undisturbed DEF SameJob
    <2> QED BY <1>3, <2>1, <2>2, <2>3 DEF SaverStore
  <1>4. ASSUME SaverMark(j), NEW i \in Jobs PROVE JobInv(i)'
    <2> DEFINE t == saver[j].text
    <2>0. SameMarks /\ UNCHANGED <<point, copy>> /\ saver'[j].pc # "mark"
      BY <1>0, <1>4 DEF SaverMark, SameMarks, NoSaver
    <2>1. CASE i # j
      <3>1. /\ saver'[i] = saver[i] /\ job'[i] = job[i]
            /\ i \in unmarked' <=> i \in unmarked
        BY <1>0, <1>4, <2>1 DEF SaverMark, Marked
      <3>2. SameJob(i)
        BY <2>0, <3>1, SameWaiting DEF SameJob
      <3> QED BY <1>0, <3>2, Undisturbed
    <2>2. \A u : Waiting(j, u)' => Waiting(j, u)
      BY <1>4, <2>0 DEF SaverMark, Waiting, CurrentJob
    <2>3. Waiting(j, t)
      BY <1>4 DEF SaverMark, Waiting
    <2>4. CASE i = j /\ job' = Marked(j, t) /\ UNCHANGED unmarked
      BY <1>0, <2>0, <2>2, <2>3, <2>4, Comparing
    <2>5. CASE i = j /\ unmarked' = unmarked \cup {j} /\ UNCHANGED job
      BY <1>0, <2>0, <2>5, LeftUnmarked
    <2> QED BY <1>4, <2>1, <2>4, <2>5 DEF SaverMark
  <1>5. ASSUME NEW why \in Rewriters, CopyRawData(j, why), NEW i \in Jobs PROVE JobInv(i)'
    <2>1. SameMarks /\ UNCHANGED <<job, point, saver, unmarked>>
      BY <1>5 DEF CopyRawData, SameMarks
    <2>2. \A u : Waiting(i, u)' <=> Waiting(i, u)
      BY <2>1, SameWaiting
    <2>3. CASE i # j
      <3>1. copy'[i] = copy[i]
        BY <1>0, <1>5, <2>3 DEF CopyRawData
      <3> QED BY <1>0, <2>1, <2>2, <3>1, Undisturbed DEF SameJob
    <2>4. CASE i = j
      <3>1. job[j].text > 0 /\ copy'[j].sig = job[j].sig
        BY <1>0, <1>5 DEF CopyRawData, Saved
      <3> QED BY <1>0, <2>1, <2>2, <2>4, <3>1 DEF JobInv
    <2> QED BY <2>3, <2>4
  <1>6. ASSUME Rewrite(j), NEW i \in Jobs PROVE JobInv(i)'
    <2>1. PICK pending : copy[j] # None /\ WriteBack(j, pending)
      BY <1>6 DEF Rewrite, WriteAudit, MarkForReindex, MarkPilot
    <2>2. SameMarks /\ UNCHANGED <<saver, point>>
      BY <2>1 DEF WriteBack, SameMarks
    <2>3. \A u : Waiting(i, u)' <=> Waiting(i, u)
      BY <2>2, SameWaiting
    <2>4. CASE i # j
      <3>1. /\ job'[i] = job[i] /\ copy'[i] = copy[i]
            /\ i \in unmarked' <=> i \in unmarked
        BY <1>0, <2>1, <2>4 DEF WriteBack
      <3> QED BY <1>0, <2>2, <2>3, <3>1, Undisturbed DEF SameJob
    <2>5. CASE i = j
      <3>1. /\ job'[j].text = job[j].text /\ job'[j].sig = copy[j].sig
            /\ ~job[j].pending \/ job'[j].pending \/ j \in unmarked'
            /\ unmarked \subseteq unmarked' /\ copy'[j] = None
        BY <1>0, <2>1 DEF WriteBack, JobType
      <3>2. job'[j].sig = "current" => job[j].sig = "current"
        BY <1>0, <2>1, <3>1 DEF JobInv
      <3> QED BY <1>0, <2>2, <2>3, <2>5, <3>1, <3>2 DEF JobInv
    <2> QED BY <2>4, <2>5
  <1> QED BY <1>1, <1>2, <1>3, <1>4, <1>5, <1>6

LEMMA SwitchKeeps ==
  ASSUME TypeOK, SwitchModel, NEW i \in Jobs PROVE JobInv(i)'
  <1>1. job'[i].sig # "current" /\ copy'[i] = None
    BY Typed DEF SwitchModel, JobType
  <1>2. \A u : ~Waiting(i, u)'
    BY DEF SwitchModel, Waiting, NoSaver, Idle
  <1> QED BY <1>1, <1>2 DEF JobInv

\* What a run does elsewhere.
LEMMA QueueHalfKeeps ==
  ASSUME JobPart, SameMarks, UNCHANGED jobVars, NEW i \in Jobs
  PROVE  JobInv(i)'
  BY JobByJob, SameWaiting, Undisturbed DEF SameJob, jobVars

\* One run's step, seen from the others.
LEMMA MovesFrom ==
  ASSUME TypeOK, NEW w \in Workers, NEW v \in Workers, NEW pc,
         \/ To(w, pc)
         \/ \E c : NextJob(w, c)
         \/ \E c : NextClaim(w, c)
         \/ worker' = [worker EXCEPT ![w] = Idle]
  PROVE  /\ v # w => worker'[v] = worker[v]
         /\ To(w, pc) =>
              /\ worker'[w].pc = pc /\ worker'[w].todo = worker[w].todo
              /\ worker'[w].claims = worker[w].claims
         /\ \A c : NextJob(w, c) =>
              /\ worker'[w].pc \in {"recover", "job"} /\ worker'[w].todo = worker[w].todo \ {c}
              /\ worker'[w].claims = worker[w].claims
         /\ \A c : NextClaim(w, c) =>
              /\ worker'[w].pc \in {"idle", "apply"} /\ worker'[w].todo = worker[w].todo
              /\ worker'[w].claims = worker[w].claims \ {c}
  <1>0. worker[w] \in WorkerType /\ worker \in [Workers -> WorkerType]
    BY Typed DEF TypeOK
  <1>1. v # w => worker'[v] = worker[v]
    BY <1>0 DEF To, NextJob, NextClaim
  <1>2. ASSUME To(w, pc)
        PROVE  worker'[w].pc = pc /\ worker'[w].todo = worker[w].todo
                 /\ worker'[w].claims = worker[w].claims
    BY <1>0, <1>2 DEF WorkerType, To
  <1>3. ASSUME NEW c, NextJob(w, c)
        PROVE  worker'[w].pc \in {"recover", "job"}
                 /\ worker'[w].todo = worker[w].todo \ {c}
                 /\ worker'[w].claims = worker[w].claims
    BY <1>0, <1>3 DEF WorkerType, NextJob
  <1>4. ASSUME NEW c, NextClaim(w, c)
        PROVE  worker'[w].pc \in {"idle", "apply"}
                 /\ worker'[w].todo = worker[w].todo
                 /\ worker'[w].claims = worker[w].claims \ {c}
    BY <1>0, <1>4 DEF WorkerType, NextClaim
  <1> QED BY <1>1, <1>2, <1>3, <1>4

LEMMA JobHalfKeeps ==
  ASSUME TypeOK, JobPart, OneTextOfAJob, NEW w \in Workers
  PROVE  /\ ReadPendingJobs(w) => \A i \in Jobs : JobInv(i)'
         /\ StoreJob(w) => \A i \in Jobs : JobInv(i)'
         /\ MarkJob(w) => \A i \in Jobs : JobInv(i)'
         /\ WorkerDies(w) => \A i \in Jobs : JobInv(i)'
  <1>0. /\ \A i \in Jobs : JobInv(i)
        /\ job \in [Jobs -> JobType] /\ point \in [Jobs -> 0..MaxText]
    BY JobByJob DEF TypeOK
  <1>1. ASSUME ReadPendingJobs(w), NEW i \in Jobs PROVE JobInv(i)'
    <2>1. SameMarks /\ UNCHANGED jobVars
      BY <1>1 DEF ReadPendingJobs, SameMarks, TypeOK
    <2> QED BY <2>1, QueueHalfKeeps
  <1>2. ASSUME StoreJob(w), NEW i \in Jobs PROVE JobInv(i)'
    <2>1. PICK c \in CurrentJob(w) :
            \/ Land(c.job, c.text) /\ To(w, "mark") /\ UNCHANGED events
            \/ /\ Event
               /\ LandUnheard(c.job, c.text) \/ UNCHANGED <<point, unmarked>>
               /\ NextJob(w, c)
      BY <1>2 DEF StoreJob
    <2>2. c.job \in Jobs /\ worker[w].pc = "job" /\ UNCHANGED <<job, saver, copy>>
      BY <1>2, CurrentTypes DEF StoreJob
    <2>3. CASE Land(c.job, c.text) /\ To(w, "mark")
      <3>1. /\ \A v \in Workers : v # w => worker'[v] = worker[v]
            /\ worker'[w].pc = "mark" /\ worker'[w].todo = worker[w].todo
        BY <2>3, MovesFrom
      <3>2. ASSUME NEW v \in Workers, NEW d PROVE d \in CurrentJob(v)' <=> d \in CurrentJob(v)
        <4>1. worker'[v].todo = worker[v].todo
          BY <3>1
        <4> QED BY <4>1 DEF CurrentJob
      <3>3. \A d \in CurrentJob(w) : d = c
        BY OneCurrentJob
      <3>4. \A u : Waiting(i, u)' <=> Waiting(i, u) \/ (i = c.job /\ u = c.text)
        BY <2>2, <3>1, <3>2, <3>3 DEF Waiting
      <3>5. CASE i = c.job
        BY <1>0, <2>2, <2>3, <3>4, <3>5, Landing
      <3>6. CASE i # c.job
        <4>1. point'[i] = point[i] /\ (i \in unmarked' <=> i \in unmarked)
          BY <1>0, <2>3, <3>6 DEF Land
        <4> QED BY <1>0, <2>2, <3>4, <3>6, <4>1, Undisturbed DEF SameJob
      <3> QED BY <3>5, <3>6
    <2>4. CASE /\ LandUnheard(c.job, c.text) \/ UNCHANGED <<point, unmarked>>
               /\ NextJob(w, c)
      <3>1. SameMarks
        BY <2>2, <2>4, MovesFrom DEF SameMarks
      <3>2. \A u : Waiting(i, u)' <=> Waiting(i, u)
        BY <2>2, <3>1, SameWaiting
      <3>3. i \in unmarked' \/ (point'[i] = point[i] /\ (i \in unmarked' <=> i \in unmarked))
        BY <1>0, <2>4 DEF LandUnheard
      <3> QED BY <1>0, <2>2, <3>2, <3>3, LeftUnmarked, Undisturbed DEF SameJob
    <2> QED BY <2>1, <2>3, <2>4
  <1>3. ASSUME MarkJob(w), NEW i \in Jobs PROVE JobInv(i)'
    <2>1. PICK c \in CurrentJob(w) :
            /\ \/ job' = Marked(c.job, c.text) /\ UNCHANGED <<unmarked, events>>
               \/ Event /\ unmarked' = unmarked \cup {c.job} /\ UNCHANGED job
            /\ NextJob(w, c)
      BY <1>3 DEF MarkJob
    <2>2. c.job \in Jobs /\ worker[w].pc = "mark" /\ UNCHANGED <<point, saver, copy>>
      BY <1>3, CurrentTypes DEF MarkJob
    <2>3. /\ \A v \in Workers : v # w => worker'[v] = worker[v]
          /\ worker'[w].pc # "mark"
      BY <2>1, MovesFrom
    <2>4. ASSUME NEW v \in Workers, v # w, NEW d PROVE d \in CurrentJob(v)' <=> d \in CurrentJob(v)
      BY <2>3, <2>4 DEF CurrentJob
    <2>5. \A d \in CurrentJob(w) : d = c
      BY OneCurrentJob
    <2>6. \A u : Waiting(i, u)' => Waiting(i, u)
      BY <2>2, <2>3, <2>4 DEF Waiting
    <2>7. Waiting(c.job, c.text)
      BY <2>2 DEF Waiting
    <2>8. CASE i = c.job
      BY <1>0, <2>1, <2>2, <2>6, <2>7, <2>8, Comparing, LeftUnmarked
    <2>9. CASE i # c.job
      <3>1. \A u : Waiting(i, u)' <=> Waiting(i, u)
        BY <2>2, <2>3, <2>4, <2>5, <2>9 DEF Waiting
      <3>2. job'[i] = job[i] /\ (i \in unmarked' <=> i \in unmarked)
        BY <1>0, <2>1, <2>9 DEF Marked
      <3> QED BY <1>0, <2>2, <3>1, <3>2, Undisturbed DEF SameJob
    <2> QED BY <2>8, <2>9
  <1>4. ASSUME WorkerDies(w), NEW i \in Jobs PROVE JobInv(i)'
    <2>1. UNCHANGED <<job, point, saver, copy>> /\ unmarked \subseteq unmarked'
      BY <1>4 DEF WorkerDies
    <2>2. worker'[w].pc = "idle" /\ \A v \in Workers : v # w => worker'[v] = worker[v]
      BY <1>4 DEF WorkerDies, TypeOK, Idle
    <2>3. CASE worker[w].pc # "mark"
      <3>1. SameMarks /\ unmarked' = unmarked
        BY <1>4, <2>2, <2>3 DEF WorkerDies, SameMarks
      <3> QED BY <2>1, <3>1, QueueHalfKeeps DEF jobVars
    <2>4. CASE worker[w].pc = "mark"
      <3>1. \A d \in CurrentJob(w) : d.job \in unmarked'
        BY <1>4, <2>4 DEF WorkerDies
      <3>2. ASSUME NEW v \in Workers, v # w, NEW d PROVE d \in CurrentJob(v)' <=> d \in CurrentJob(v)
        BY <2>2, <3>2 DEF CurrentJob
      <3>3. CASE i \in unmarked'
        BY <1>0, <2>1, <3>3, LeftUnmarked
      <3>4. CASE i \notin unmarked'
        <4>1. \A u : Waiting(i, u)' <=> Waiting(i, u)
          BY <2>1, <2>2, <3>1, <3>2, <3>4 DEF Waiting
        <4>2. i \in unmarked' <=> i \in unmarked
          BY <2>1, <3>4
        <4> QED BY <1>0, <2>1, <4>1, <4>2, Undisturbed DEF SameJob
      <3> QED BY <3>3, <3>4
    <2> QED BY <2>3, <2>4
  <1> QED BY <1>1, <1>2, <1>3, <1>4

\* The second half of a run.
LEMMA QueueHalfMoves ==
  ASSUME TypeOK, NEW w \in Workers, RecoverStale(w) \/ ClaimBatch(w) \/ ApplyRow(w) \/ Finalize(w)
  PROVE  /\ SameMarks /\ UNCHANGED jobVars
         /\ \A v \in Workers : worker'[v].todo = worker[v].todo
  <1>0. worker[w] \in WorkerType /\ worker \in [Workers -> WorkerType]
    BY Typed DEF TypeOK
  <1> DEFINE Advances == \E pc \in {"claim", "written", "refused"} : To(w, pc)
             Claims(pc, claims) == worker' = [worker EXCEPT ![w].pc = pc, ![w].claims = claims]
  <1>1. UNCHANGED jobVars /\ worker[w].pc # "mark"
    BY DEF RecoverStale, ClaimBatch, ApplyRow, Finalize
  <1>2. CASE Advances
    BY <1>1, <1>2, MovesFrom DEF SameMarks
  <1>3. CASE \E c : NextClaim(w, c)
    BY <1>1, <1>3, MovesFrom DEF SameMarks
  <1>4. ASSUME NEW pc \in {"idle", "apply"}, NEW claims, Claims(pc, claims)
        PROVE  SameMarks /\ \A v \in Workers : worker'[v].todo = worker[v].todo
    <2>1. worker'[w].pc # "mark" /\ worker'[w].todo = worker[w].todo
      BY <1>0, <1>4 DEF WorkerType
    <2>2. \A v \in Workers : v # w => worker'[v] = worker[v]
      BY <1>0, <1>4
    <2> QED BY <1>1, <2>1, <2>2 DEF SameMarks
  <1>5. RecoverStale(w) \/ ApplyRow(w) => Advances
    BY DEF RecoverStale, ApplyRow, StoreAnswers
  <1>6. Finalize(w) => \E c : NextClaim(w, c)
    BY DEF Finalize
  <1>7. ClaimBatch(w) => \E claims : Claims("idle", claims) \/ Claims("apply", claims)
    BY DEF ClaimBatch
  <1> QED BY <1>1, <1>2, <1>3, <1>4, <1>5, <1>6, <1>7

LEMMA OneTextKept == ASSUME TypeOK, OneTextOfAJob, [Next]_vars PROVE OneTextOfAJob'
  <1>1. CASE \A v \in Workers : worker'[v].todo \subseteq worker[v].todo
    BY <1>1 DEF OneTextOfAJob
  <1>2. CASE UNCHANGED worker
    BY <1>2 DEF OneTextOfAJob
  <1>3. ASSUME NEW w \in Workers, WorkerStep(w) PROVE OneTextOfAJob'
    <2>1. CASE ReadPendingJobs(w)
      <3>1. \A v \in Workers : v # w => worker'[v] = worker[v]
        BY <2>1 DEF ReadPendingJobs, TypeOK
      <3>2. PICK S : worker'[w].todo = {[job |-> j, text |-> job[j].text] : j \in S}
        BY <2>1 DEF ReadPendingJobs, TypeOK
      <3>3. \A c, d \in worker'[w].todo : c.job = d.job => c = d
        BY <3>2
      <3> QED BY <3>1, <3>3 DEF OneTextOfAJob
    <2>2. CASE StoreJob(w) \/ MarkJob(w)
      <3>1. PICK c : To(w, "mark") \/ NextJob(w, c)
        BY <2>2 DEF StoreJob, MarkJob
      <3>2. \A v \in Workers : worker'[v].todo \subseteq worker[v].todo
        BY <3>1, MovesFrom
      <3> QED BY <1>1, <3>2
    <2>3. CASE RecoverStale(w) \/ ClaimBatch(w) \/ ApplyRow(w) \/ Finalize(w)
      BY <1>1, <2>3, QueueHalfMoves
    <2> QED BY <1>3, <2>1, <2>2, <2>3 DEF WorkerStep
  <1>4. ASSUME NEW w \in Workers, WorkerDies(w) PROVE OneTextOfAJob'
    <2>1. \A v \in Workers : worker'[v] = worker[v] \/ worker'[v] = Idle
      BY <1>4 DEF WorkerDies, TypeOK
    <2> QED BY <2>1 DEF OneTextOfAJob, Idle
  <1>5. CASE SwitchModel
    BY <1>5 DEF SwitchModel, OneTextOfAJob, Idle
  <1>6. ASSUME NEW j \in Jobs, NEW kwork \in BOOLEAN, SaveNew(j, kwork) PROVE UNCHANGED worker
    BY <1>6 DEF SaveNew
  <1>7. ASSUME NEW j \in Jobs, SaverStore(j) \/ SaverMark(j) \/ Rewrite(j) PROVE UNCHANGED worker
    BY <1>7 DEF SaverStore, SaverMark, Rewrite, WriteAudit, MarkForReindex, MarkPilot, WriteBack
  <1>8. ASSUME NEW j \in Jobs, NEW t \in Texts, Rescrape(j, t) PROVE UNCHANGED worker
    BY <1>8 DEF Rescrape
  <1>9. ASSUME NEW j \in Jobs, NEW why \in Rewriters, CopyRawData(j, why) PROVE UNCHANGED worker
    BY <1>9 DEF CopyRawData
  <1>10. ASSUME NEW p \in Payloads, OfferPattern(p) \/ Enqueue(p) \/ ProducerDies(p) PROVE UNCHANGED worker
    BY <1>10 DEF OfferPattern, Enqueue, ProducerDies, jobVars
  <1>11. ASSUME NEW steps \in SUBSET Edits, NEW refused \in SUBSET Edits, OfferEdits(steps, refused)
         PROVE  UNCHANGED worker
    BY <1>11 DEF OfferEdits
  <1>12. ASSUME NEW k \in Keys, LeaseElapses(k) PROVE UNCHANGED worker
    BY <1>12 DEF LeaseElapses
  <1>13. UNCHANGED vars => UNCHANGED worker
    BY DEF vars
  <1> QED BY <1>2, <1>3, <1>4, <1>5, <1>6, <1>7, <1>8, <1>9, <1>10, <1>11, <1>12, <1>13 DEF Next

LEMMA JobPartKept == ASSUME TypeOK, JobPart, OneTextOfAJob, [Next]_vars PROVE JobPart'
  <1>0. TypeOK'
    BY NextTypeOK
  <1>1. ASSUME NEW i \in Jobs PROVE JobInv(i)'
    <2>1. CASE SameMarks /\ UNCHANGED jobVars
      BY <2>1, QueueHalfKeeps
    <2>2. ASSUME UNCHANGED worker, UNCHANGED jobVars PROVE JobInv(i)'
      BY <2>1, <2>2 DEF SameMarks
    <2>3. ASSUME NEW w \in Workers, WorkerStep(w) PROVE JobInv(i)'
      BY <2>1, <2>3, JobHalfKeeps, QueueHalfMoves DEF WorkerStep
    <2>4. ASSUME NEW w \in Workers, WorkerDies(w) PROVE JobInv(i)'
      BY <2>4, JobHalfKeeps
    <2>5. CASE SwitchModel
      BY <2>5, SwitchKeeps
    <2>6. ASSUME NEW p \in Payloads, OfferPattern(p) \/ Enqueue(p) \/ ProducerDies(p)
          PROVE  UNCHANGED worker /\ UNCHANGED jobVars
      BY <2>6 DEF OfferPattern, Enqueue, ProducerDies
    <2>7. ASSUME NEW steps \in SUBSET Edits, NEW refused \in SUBSET Edits, OfferEdits(steps, refused)
          PROVE  UNCHANGED worker /\ UNCHANGED jobVars
      BY <2>7 DEF OfferEdits
    <2>8. ASSUME NEW k \in Keys, LeaseElapses(k) PROVE UNCHANGED worker /\ UNCHANGED jobVars
      BY <2>8 DEF LeaseElapses
    <2>9. UNCHANGED vars => UNCHANGED worker /\ UNCHANGED jobVars
      BY DEF vars, jobVars
    <2> QED BY <2>2, <2>3, <2>4, <2>5, <2>6, <2>7, <2>8, <2>9, JobActionsKeep DEF Next
  <1> QED BY <1>0, <1>1, JobByJobNext

-----------------------------------------------------------------------------
(* The queue of payloads *)

\* What keeps a claim about its row: the row's payload, or nobody's claim on it.
KeptRow(k) ==
  \/ row'[k] = None \/ row'[k].tok = None
  \/ /\ row[k] # None /\ row'[k].tok = row[k].tok
     /\ row'[k].payload = row[k].payload

LEMMA ClaimsKept ==
  ASSUME TypeOK, ClaimIsOfTheRow, \A k \in Keys : KeptRow(k),
         \A v \in Workers : worker'[v].claims \subseteq worker[v].claims
  PROVE  ClaimIsOfTheRow'
  <1> SUFFICES ASSUME NEW v \in Workers, NEW c \in worker'[v].claims, row'[c.key] # None,
                      row'[c.key].tok = c.tok
               PROVE  row'[c.key].payload = c.payload
    BY DEF ClaimIsOfTheRow, Mine
  <1>1. c \in worker[v].claims
    OBVIOUS
  <1>2. c.key \in Keys /\ c.tok \in Nat /\ None \notin Nat
    BY <1>1, Typed, IndexAssumption DEF ClaimType, Tokens
  <1>3. row[c.key] # None /\ row[c.key].tok = c.tok /\ row'[c.key].payload = row[c.key].payload
    BY <1>2 DEF KeptRow
  <1> QED BY <1>1, <1>3 DEF ClaimIsOfTheRow, Mine

LEMMA SameRows == ASSUME TypeOK, UNCHANGED row PROVE \A k \in Keys : KeptRow(k)
  BY DEF KeptRow

\* Fewer claims, the same rows: every step of the job half and of the jobs.
LEMMA NotOfTheQueue ==
  ASSUME TypeOK, ClaimIsOfTheRow, UNCHANGED row,
         \A v \in Workers : worker'[v].claims \subseteq worker[v].claims
  PROVE  ClaimIsOfTheRow'
  BY ClaimsKept, SameRows

LEMMA EnqueueKeepsClaims ==
  ASSUME TypeOK, ClaimIsOfTheRow, NEW p \in Payloads, Enqueue(p)
  PROVE  /\ ClaimIsOfTheRow'
         /\ \A k \in Keys : row[k] # None => row'[k] # None
  <1>1. row \in [Keys -> {None} \cup RowType] /\ KeyOf[p] \in Keys
    BY DEF TypeOK, Keys
  <1>2. ASSUME NEW k \in Keys, k # KeyOf[p] PROVE row'[k] = row[k]
    BY <1>1, <1>2 DEF Enqueue
  <1>3. ASSUME row[KeyOf[p]] # None
        PROVE  /\ row'[KeyOf[p]] = row[KeyOf[p]] \/ row'[KeyOf[p]].tok = None
               /\ row'[KeyOf[p]] # None
    <2>1. row[KeyOf[p]] \in RowType
      BY <1>1, <1>3
    <2>2. [Unclaimed(row[KeyOf[p]]) EXCEPT !.payload = p] \in RowType
      <3>1. Unclaimed(row[KeyOf[p]]) \in RowType
        BY <2>1, UnclaimedType
      <3> QED BY <3>1 DEF RowType
    <2>3. [Unclaimed(row[KeyOf[p]]) EXCEPT !.payload = p].tok = None
      BY <2>1 DEF Unclaimed, RowType
    <2> QED BY <1>1, <1>3, <2>1, <2>2, <2>3, Domains DEF Enqueue
  <1>4. ASSUME row[KeyOf[p]] = None PROVE row'[KeyOf[p]].tok = None
    BY <1>1, <1>4 DEF Enqueue
  <1>5. \A k \in Keys : KeptRow(k)
    BY <1>2, <1>3, <1>4 DEF KeptRow
  <1>6. UNCHANGED worker
    BY DEF Enqueue
  <1> QED BY <1>2, <1>3, <1>5, <1>6, ClaimsKept

LEMMA RecoverKeepsClaims ==
  ASSUME TypeOK, ClaimIsOfTheRow, NEW w \in Workers, RecoverStale(w)
  PROVE  /\ ClaimIsOfTheRow'
         /\ \A k \in Keys : row[k] # None => row'[k] # None
  <1>1. ASSUME NEW k \in Keys, row[k] # None
        PROVE  /\ Unclaimed(row[k]) \in RowType
               /\ Unclaimed(row[k]).tok = None
    <2>1. row[k] \in RowType
      BY <1>1, Typed
    <2> QED BY <2>1, UnclaimedType DEF Unclaimed, RowType
  <1>2. ASSUME NEW k \in Keys
        PROVE  row'[k] = row[k] \/ (row[k] # None /\ row'[k] = Unclaimed(row[k]))
    BY DEF RecoverStale
  <1>3. \A k \in Keys : KeptRow(k)
    BY <1>1, <1>2 DEF KeptRow
  <1>4. \A v \in Workers : worker'[v].claims \subseteq worker[v].claims
    BY MovesFrom DEF RecoverStale
  <1> QED BY <1>1, <1>2, <1>3, <1>4, ClaimsKept, Domains

LEMMA LeaseKeepsClaims ==
  ASSUME TypeOK, ClaimIsOfTheRow, NEW l \in Keys, LeaseElapses(l)
  PROVE  /\ ClaimIsOfTheRow'
         /\ \A k \in Keys : row[k] # None => row'[k] # None
  <1>1. row[l] \in RowType /\ row \in [Keys -> {None} \cup RowType]
    BY Typed DEF LeaseElapses, TypeOK
  <1>2. [row[l] EXCEPT !.lease = "over"] \in RowType
    BY <1>1 DEF RowType
  <1>3. \A k \in Keys : k # l => row'[k] = row[k]
    BY <1>1 DEF LeaseElapses
  <1>4. row'[l] = [row[l] EXCEPT !.lease = "over"]
    BY <1>1 DEF LeaseElapses
  <1>5. row'[l].tok = row[l].tok /\ row'[l].payload = row[l].payload /\ row'[l] # None
    BY <1>1, <1>2, <1>4, Domains DEF RowType
  <1>6. \A k \in Keys : KeptRow(k)
    BY <1>3, <1>5, <1>1, Domains DEF KeptRow
  <1>7. UNCHANGED worker
    BY DEF LeaseElapses
  <1> QED BY <1>3, <1>5, <1>6, <1>7, ClaimsKept

\* A new token is on no other claim.
LEMMA ClaimBatchKeepsClaims ==
  ASSUME TypeOK, ClaimIsOfTheRow, NEW w \in Workers, ClaimBatch(w)
  PROVE  /\ ClaimIsOfTheRow'
         /\ \A k \in Keys : row[k] # None => row'[k] # None
  <1> DEFINE free  == {k \in Keys : row[k] # None /\ row[k].lease # "live"}
             batch == {k \in free : row[k].at \in First({row[h].at : h \in free})}
             pc == IF batch = {} THEN "idle" ELSE "apply"
             claims(t) == {[key |-> k, payload |-> row[k].payload, tok |-> t, at |-> row[k].at] :
                             k \in batch}
  <1>1. PICK t \in NewTokens :
          /\ row' = [k \in Keys |-> IF k \in batch
                                    THEN [row[k] EXCEPT !.tok = t, !.lease = "live"]
                                    ELSE row[k]]
          /\ worker' = [worker EXCEPT ![w].pc = pc, ![w].claims = claims(t)]
    BY DEF ClaimBatch
  <1>2. t \in Tokens \ TokensInUse
    BY <1>1 DEF NewTokens
  <1>3. ASSUME NEW k \in batch
        PROVE  /\ row[k] # None /\ row'[k] \in RowType /\ row'[k] # None
               /\ row'[k].tok = t /\ row'[k].payload = row[k].payload
    <2>1. row[k] \in RowType /\ k \in Keys /\ row[k] # None
      BY Typed
    <2>2. row'[k] = [row[k] EXCEPT !.tok = t, !.lease = "live"]
      BY <1>1, <2>1
    <2>3. [row[k] EXCEPT !.tok = t, !.lease = "live"] \in RowType
      BY <1>2, <2>1 DEF RowType
    <2>4. row'[k].tok = t /\ row'[k].payload = row[k].payload
      BY <2>1, <2>2 DEF RowType
    <2> QED BY <2>1, <2>2, <2>3, <2>4, Domains
  <1>4. ASSUME NEW k \in Keys, k \notin batch PROVE row'[k] = row[k]
    BY <1>1, <1>4
  <1>5. worker[w] \in WorkerType /\ worker \in [Workers -> WorkerType]
    BY Typed DEF TypeOK
  <1>6. worker'[w].claims = claims(t)
    BY <1>1, <1>5 DEF WorkerType
  <1>7. \A v \in Workers : v # w => worker'[v] = worker[v]
    BY <1>1, <1>5
  <1>8. ASSUME NEW v \in Workers, NEW c \in worker'[v].claims, row'[c.key] # None,
               row'[c.key].tok = c.tok
        PROVE  row'[c.key].payload = c.payload
    <2>1. CASE v = w
      <3>1. PICK k \in batch :
              c = [key |-> k, payload |-> row[k].payload, tok |-> t, at |-> row[k].at]
        BY <1>6, <1>8, <2>1
      <3> QED BY <1>3, <3>1
    <2>2. CASE v # w
      <3>1. c \in worker[v].claims /\ c.key \in Keys
        BY <1>7, <1>8, <2>2, Typed DEF ClaimType
      <3>2. c.tok # t
        BY <1>2, <3>1 DEF TokensInUse
      <3>3. c.key \notin batch
        BY <1>3, <1>8, <3>2
      <3> QED BY <1>4, <1>8, <3>1, <3>3 DEF ClaimIsOfTheRow, Mine
    <2> QED BY <2>1, <2>2
  <1>9. ClaimIsOfTheRow'
    BY <1>8 DEF ClaimIsOfTheRow, Mine
  <1>10. \A k \in Keys : row[k] # None => row'[k] # None
    BY <1>3, <1>4
  <1> QED BY <1>9, <1>10

\* What the action property says of a step.
RemovedNow ==
  \A k \in Keys : row[k] # None /\ row'[k] = None =>
    \E w \in Workers :
      /\ worker[w].pc = "written"
      /\ \E c \in CurrentClaim(w) : c.key = k /\ c.payload = row[k].payload

LEMMA FinalizeKeepsClaims ==
  ASSUME TypeOK, ClaimIsOfTheRow, NEW w \in Workers, Finalize(w)
  PROVE  ClaimIsOfTheRow' /\ RemovedNow
  <1>1. PICK c \in CurrentClaim(w) :
          /\ row' = IF ~Mine(c) THEN row
                    ELSE IF worker[w].pc = "written" THEN Without(c.key)
                    ELSE [row EXCEPT ![c.key] = Unclaimed(@)]
          /\ NextClaim(w, c)
    BY DEF Finalize
  <1>2. c \in worker[w].claims /\ c.key \in Keys
    BY CurrentTypes
  <1>3. \A v \in Workers : worker'[v].claims \subseteq worker[v].claims
    BY <1>1, MovesFrom
  <1>4. CASE ~Mine(c)
    <2>1. row' = row
      BY <1>1, <1>4
    <2> QED BY <1>3, <2>1, NotOfTheQueue DEF RemovedNow
  <1>5. CASE Mine(c) /\ worker[w].pc = "written"
    <2>1. row' = Without(c.key) /\ row[c.key] \in RowType
      BY <1>1, <1>2, <1>5, Typed DEF Mine
    <2>2. ASSUME NEW h \in Keys, h # c.key, row[h] # None
          PROVE  /\ row'[h] # None /\ row'[h].tok = row[h].tok
                 /\ row'[h].payload = row[h].payload
      <3>1. row[h] \in RowType
        BY <2>2, Typed
      <3>2. CASE ~(row[h].at > row[c.key].at)
        BY <2>1, <2>2, <3>2 DEF Without
      <3>3. CASE row[h].at > row[c.key].at
        <4>1. row'[h] = [row[h] EXCEPT !.at = @ - 1]
          BY <2>1, <2>2, <3>3 DEF Without
        <4>2. row[h].at - 1 \in Nat
          BY <2>1, <3>1, <3>3 DEF RowType
        <4>3. [row[h] EXCEPT !.at = @ - 1] \in RowType
          BY <3>1, <4>2 DEF RowType
        <4> QED BY <3>1, <4>1, <4>3, Domains DEF RowType
      <3> QED BY <3>2, <3>3
    <2>3. row'[c.key] = None
      BY <1>2, <2>1 DEF Without
    <2>4. ASSUME NEW h \in Keys, row[h] = None PROVE row'[h] = None
      BY <2>1, <2>4 DEF Without
    <2>5. \A k \in Keys : KeptRow(k)
      BY <2>2, <2>3, <2>4 DEF KeptRow
    <2>6. ClaimIsOfTheRow'
      BY <1>3, <2>5, ClaimsKept
    <2>7. row[c.key].payload = c.payload
      BY <1>2, <1>5 DEF ClaimIsOfTheRow
    <2>8. RemovedNow
      BY <1>5, <2>2, <2>7 DEF RemovedNow
    <2> QED BY <2>6, <2>8
  <1>6. CASE Mine(c) /\ worker[w].pc # "written"
    <2>1. row[c.key] \in RowType /\ row \in [Keys -> {None} \cup RowType]
      BY <1>2, <1>6, Typed DEF Mine, TypeOK
    <2>2. row' = [row EXCEPT ![c.key] = Unclaimed(row[c.key])]
      BY <1>1, <1>6
    <2>3. Unclaimed(row[c.key]).tok = None /\ Unclaimed(row[c.key]) # None
      BY <2>1, UnclaimedType, Domains DEF Unclaimed, RowType
    <2>4. \A k \in Keys : KeptRow(k) /\ (row[k] # None => row'[k] # None)
      BY <1>2, <2>1, <2>2, <2>3 DEF KeptRow
    <2>5. ClaimIsOfTheRow'
      BY <1>3, <2>4, ClaimsKept
    <2> QED BY <2>4, <2>5 DEF RemovedNow
  <1> QED BY <1>4, <1>5, <1>6

LEMMA ClaimsInStep == ASSUME TypeOK, ClaimIsOfTheRow, [Next]_vars PROVE ClaimIsOfTheRow' /\ RemovedNow
  <1>1. CASE UNCHANGED row /\ \A v \in Workers : worker'[v].claims \subseteq worker[v].claims
    BY <1>1, NotOfTheQueue DEF RemovedNow
  <1>2. CASE UNCHANGED <<row, worker>>
    BY <1>1, <1>2
  <1>3. ASSUME NEW w \in Workers, WorkerStep(w) PROVE ClaimIsOfTheRow' /\ RemovedNow
    <2>1. CASE ReadPendingJobs(w)
      <3>1. UNCHANGED row
        BY <2>1 DEF ReadPendingJobs, queueVars
      <3>2. \A v \in Workers : worker'[v].claims \subseteq worker[v].claims
        BY <2>1 DEF ReadPendingJobs, TypeOK
      <3> QED BY <1>1, <3>1, <3>2
    <2>2. CASE StoreJob(w) \/ MarkJob(w)
      <3>1. UNCHANGED row
        BY <2>2 DEF StoreJob, MarkJob, queueVars
      <3>2. PICK c : To(w, "mark") \/ NextJob(w, c)
        BY <2>2 DEF StoreJob, MarkJob
      <3>3. \A v \in Workers : worker'[v].claims \subseteq worker[v].claims
        BY <3>2, MovesFrom
      <3> QED BY <1>1, <3>1, <3>3
    <2>3. CASE ApplyRow(w)
      <3>1. UNCHANGED row /\ \E pc : To(w, pc)
        BY <2>3 DEF ApplyRow, queueVars
      <3>2. \A v \in Workers : worker'[v].claims \subseteq worker[v].claims
        BY <3>1, MovesFrom
      <3> QED BY <1>1, <3>1, <3>2
    <2>4. CASE RecoverStale(w)
      BY <2>4, RecoverKeepsClaims DEF RemovedNow
    <2>5. CASE ClaimBatch(w)
      BY <2>5, ClaimBatchKeepsClaims DEF RemovedNow
    <2>6. CASE Finalize(w)
      BY <2>6, FinalizeKeepsClaims
    <2> QED BY <1>3, <2>1, <2>2, <2>3, <2>4, <2>5, <2>6 DEF WorkerStep
  <1>4. ASSUME NEW w \in Workers, WorkerDies(w) PROVE ClaimIsOfTheRow' /\ RemovedNow
    <2>1. UNCHANGED row
      BY <1>4 DEF WorkerDies, queueVars
    <2>2. \A v \in Workers : worker'[v].claims \subseteq worker[v].claims
      BY <1>4 DEF WorkerDies, TypeOK, Idle
    <2> QED BY <1>1, <2>1, <2>2
  <1>5. CASE SwitchModel
    <2>1. UNCHANGED row /\ \A v \in Workers : worker'[v].claims \subseteq worker[v].claims
      BY <1>5 DEF SwitchModel, Idle
    <2> QED BY <1>1, <2>1
  <1>6. ASSUME NEW j \in Jobs, NEW kwork \in BOOLEAN, SaveNew(j, kwork) PROVE UNCHANGED <<row, worker>>
    BY <1>6 DEF SaveNew, queueVars
  <1>7. ASSUME NEW j \in Jobs, SaverStore(j) \/ SaverMark(j) \/ Rewrite(j)
        PROVE  UNCHANGED <<row, worker>>
    BY <1>7 DEF SaverStore, SaverMark, Rewrite, WriteAudit, MarkForReindex, MarkPilot, WriteBack, queueVars
  <1>8. ASSUME NEW j \in Jobs, NEW t \in Texts, Rescrape(j, t) PROVE UNCHANGED <<row, worker>>
    BY <1>8 DEF Rescrape, queueVars
  <1>9. ASSUME NEW j \in Jobs, NEW why \in Rewriters, CopyRawData(j, why)
        PROVE  UNCHANGED <<row, worker>>
    BY <1>9 DEF CopyRawData, queueVars
  <1>10. ASSUME NEW p \in Payloads, OfferPattern(p) \/ ProducerDies(p) PROVE UNCHANGED <<row, worker>>
    BY <1>10 DEF OfferPattern, ProducerDies
  <1>11. ASSUME NEW p \in Payloads, Enqueue(p) PROVE ClaimIsOfTheRow' /\ RemovedNow
    BY <1>11, EnqueueKeepsClaims DEF RemovedNow
  <1>12. ASSUME NEW steps \in SUBSET Edits, NEW refused \in SUBSET Edits, OfferEdits(steps, refused)
         PROVE  UNCHANGED <<row, worker>>
    BY <1>12 DEF OfferEdits
  <1>13. ASSUME NEW k \in Keys, LeaseElapses(k) PROVE ClaimIsOfTheRow' /\ RemovedNow
    BY <1>13, LeaseKeepsClaims DEF RemovedNow
  <1>14. UNCHANGED vars => UNCHANGED <<row, worker>>
    BY DEF vars
  <1> QED BY <1>2, <1>3, <1>4, <1>5, <1>6, <1>7, <1>8, <1>9, <1>10, <1>11, <1>12, <1>13, <1>14 DEF Next

-----------------------------------------------------------------------------
(* The inductive invariant and what follows from it *)

LEMMA Inductive == Spec => []IInv
  <1>1. Init => IInv
    <2> SUFFICES ASSUME Init PROVE IInv
      OBVIOUS
    <2>1. TypeOK
      BY InitTypeOK
    <2>2. /\ EmbeddingIsCurrent /\ LandedIsThere /\ CopyIsNoNewer
          /\ OneTextOfAJob /\ ClaimIsOfTheRow
      BY DEF Init, EmbeddingIsCurrent, LandedIsThere, CopyIsNoNewer, OneTextOfAJob,
             ClaimIsOfTheRow, Saved, NoSaver, Idle
    <2> QED BY <2>1, <2>2 DEF IInv
  <1>2. IInv /\ [Next]_vars => IInv'
    <2> SUFFICES ASSUME IInv, [Next]_vars PROVE IInv'
      OBVIOUS
    <2>1. TypeOK' /\ OneTextOfAJob' /\ ClaimIsOfTheRow'
      BY NextTypeOK, OneTextKept, ClaimsInStep DEF IInv
    <2>2. JobPart'
      BY JobPartKept DEF IInv, JobPart
    <2> QED BY <2>1, <2>2 DEF IInv, JobPart
  <1> QED BY <1>1, <1>2, PTL DEF Spec

(* The flag never lies where the code guards it: in every reachable state a job *)
(* that is signed with the current model and not pending has its present text    *)
(* in the index, or one of the named unguarded ways led there, or a writer with  *)
(* another text is about to make it pending again.  For every number of jobs,    *)
(* texts and overlapping runs.                                                   *)
THEOREM EmbeddingStaysCurrent == Spec => []EmbeddingIsCurrent
  <1>1. IInv => EmbeddingIsCurrent
    BY DEF IInv
  <1> QED BY <1>1, Inductive, PTL

(* No payload is lost from the queue: a row goes only by the run that holds it   *)
(* and wrote the very payload it holds now, whatever was queued meanwhile and     *)
(* however many runs overlap or outlive their leases.                             *)
THEOREM RemovedIsIndexed == Spec => RemovedWasIndexed
  <1>1. IInv /\ [Next]_vars => [RemovedNow]_vars
    BY ClaimsInStep DEF IInv
  <1>2. RemovedWasIndexed <=> [][RemovedNow]_vars
    BY DEF RemovedWasIndexed, RemovedNow
  <1> QED BY <1>1, <1>2, Inductive, PTL DEF Spec
=============================================================================
