---------------------------- MODULE MemoryIndex ----------------------------
(* The vector memory of JobPilot AI and the two ways into it that survive a    *)
(* failing index.                                                              *)
(*                                                                             *)
(* A job's text is embedded under the job's id; the flag embedding_pending in  *)
(* the job's raw_data says that this is still to be done, and the signature    *)
(* beside it which embedding model did it (job_pipeline.py, embedding_tasks.py, *)
(* embedding_index_signature.py).  Proposals, phrases and edit preferences are *)
(* written straight to the index by their producers, and what the index refuses *)
(* waits in the SQL queue memory_index_pending (memory_index_queue.py).  The    *)
(* Celery task reindex_pending_embeddings works through both; two of its runs   *)
(* may overlap.                                                                 *)
(*                                                                             *)
(* A text is a number, its length.  A payload of the queue is a value, and      *)
(* KeyOf gives its dedupe key: two payloads share one when they are the same    *)
(* phrase with two scores, or two edits that begin alike.  What the index holds *)
(* of the payloads is left out: a write shows in what its caller does next.     *)
EXTENDS Naturals, FiniteSets

CONSTANTS
  NumJobs,      \* jobs, numbered in the order of their creation
  MaxText,      \* texts of a job
  Payloads,     \* what producers offer to the memory
  Edits,        \* those that are edit preferences
  KeyOf,        \* dedupe_key of a payload
  Workers,      \* runs of the task that may overlap
  Limit,        \* batch of one run (25 in the code)
  None,         \* no payload, no token, nothing copied
  MaxEvents     \* bound: scrapes with a new text, offers, rewrites of raw_data from
                \* a copy, changes of the model, and failures, all together

VARIABLES
  job,       \* columns of the job: text (0: not saved), pending, sig, kwork
  point,     \* text of the job in the collection of the current model, 0: none
  saver,     \* the call that saved the job and now embeds it
  copy,      \* raw_data of the job as read by a call that will write it whole
  unmarked,  \* jobs whose last landing nobody will compare with the text (history)
  row,       \* the row of each queue key, or None
  deferred,  \* payloads the index refused and the producer is about to queue
  worker,    \* the runs of the task
  events     \* how much of the bound has been spent

vars == <<job, point, saver, copy, unmarked, row, deferred, worker, events>>
jobVars == <<job, point, saver, copy, unmarked>>
queueVars == <<row, deferred>>

Jobs   == 1..NumJobs
Texts  == 1..MaxText
Keys   == {KeyOf[p] : p \in Payloads}
Tokens == 1..(Cardinality(Workers) + Cardinality(Keys) + 1)
Sigs   == {"none", "old", "current"}
Rewriters == {"audit", "reindex", "pilot"}

JobType  == [text : 0..MaxText, pending : BOOLEAN, sig : Sigs, kwork : BOOLEAN]
SaverType == [pc : {"none", "store", "mark"}, text : 0..MaxText]
CopyType == [why : Rewriters, pending : BOOLEAN, sig : Sigs]
RowType  == [payload : Payloads, tok : Tokens \cup {None}, lease : {"none", "live", "over"}, at : Nat]
TodoType  == [job : Jobs, text : Texts]
ClaimType == [key : Keys, payload : Payloads, tok : Tokens, at : Nat]
WorkerType ==
  [pc : {"idle", "job", "mark", "recover", "claim", "apply", "written", "refused"},
   todo : SUBSET TodoType, claims : SUBSET ClaimType]

Idle == [pc |-> "idle", todo |-> {}, claims |-> {}]
NoSaver == [pc |-> "none", text |-> 0]

ASSUME IndexAssumption ==
  /\ NumJobs \in Nat /\ MaxText \in Nat \ {0} /\ Limit \in Nat \ {0} /\ MaxEvents \in Nat
  /\ IsFiniteSet(Payloads) /\ IsFiniteSet(Workers) /\ Edits \subseteq Payloads
  /\ None \notin Nat /\ None \notin RowType /\ None \notin CopyType

TypeOK ==
  /\ job \in [Jobs -> JobType]
  /\ point \in [Jobs -> 0..MaxText]
  /\ saver \in [Jobs -> SaverType]
  /\ copy \in [Jobs -> {None} \cup CopyType]
  /\ unmarked \subseteq Jobs
  /\ row \in [Keys -> {None} \cup RowType]
  /\ deferred \subseteq Payloads
  /\ worker \in [Workers -> WorkerType]
  /\ events \in 0..MaxEvents

\* Something that nothing here makes happen: within the bound.
Events(n) == events + n <= MaxEvents /\ events' = events + n
Event == Events(1)

Saved(j) == job[j].text > 0

Init ==
  /\ job = [j \in Jobs |-> [text |-> 0, pending |-> FALSE, sig |-> "none", kwork |-> FALSE]]
  /\ point = [j \in Jobs |-> 0]
  /\ saver = [j \in Jobs |-> NoSaver]
  /\ copy = [j \in Jobs |-> None]
  /\ unmarked = {}
  /\ row = [k \in Keys |-> None]
  /\ deferred = {}
  /\ worker = [w \in Workers |-> Idle]
  /\ events = 0

-----------------------------------------------------------------------------
(* The job's text and its flag.                                                *)

\* save_normalized_job of a listing not seen before: the row is committed as
\* pending, then the same call embeds the text it has just saved.
SaveNew(j, kwork) ==
  /\ ~Saved(j) /\ \A i \in Jobs : i < j => Saved(i)
  /\ job' = [job EXCEPT ![j] = [text |-> 1, pending |-> TRUE, sig |-> "none", kwork |-> kwork]]
  /\ saver' = [saver EXCEPT ![j] = [pc |-> "store", text |-> 1]]
  /\ UNCHANGED <<point, copy, unmarked, queueVars, worker, events>>

\* The listing is scraped again with another text.  A Kwork job takes any change
\* and is pending again in the same transaction; elsewhere only a longer
\* description is taken, and the flag is left as it is.
Rescrape(j, t) ==
  /\ Saved(j) /\ Event
  /\ IF job[j].kwork
     THEN /\ t # job[j].text
          /\ job' = [job EXCEPT ![j].text = t, ![j].pending = TRUE]
          /\ UNCHANGED unmarked
     ELSE /\ t > job[j].text
          /\ job' = [job EXCEPT ![j].text = t]
          /\ unmarked' = unmarked \cup {j}
  /\ UNCHANGED <<point, saver, copy, queueVars, worker>>

\* Where the two loops of a run stand: the oldest of what it still has to do.
CurrentJob(w) == {c \in worker[w].todo : \A d \in worker[w].todo : c.job <= d.job}
CurrentClaim(w) == {c \in worker[w].claims : \A d \in worker[w].claims : c.at <= d.at}

\* A writer has stored another text than t for j and is about to compare it with
\* the job's.
Crosses(j, t) ==
  \/ saver[j].pc = "mark" /\ saver[j].text # t
  \/ \E w \in Workers : /\ worker[w].pc = "mark"
                        /\ \E c \in CurrentJob(w) : c.job = j /\ c.text # t

\* The point of j becomes t, and its writer goes on to compare t with the text.
\* A writer it overtook has its own text to compare, not this one.
Land(j, t) ==
  /\ point' = [point EXCEPT ![j] = t]
  /\ unmarked' = IF Crosses(j, t) THEN unmarked \cup {j} ELSE unmarked \ {j}

\* The point of j becomes t, but the answer is lost: the caller takes it for a failure.
LandUnheard(j, t) ==
  /\ point' = [point EXCEPT ![j] = t]
  /\ unmarked' = unmarked \cup {j}

\* Mutant: the text is not read again.
MarkedUnread(j, t) ==
  [job EXCEPT ![j].pending = FALSE, ![j].sig = "current"]

\* Mutant: only the signature is written.
MarkedUncleared(j, t) ==
  IF job[j].text = t
  THEN [job EXCEPT ![j].sig = "current"]
  ELSE [job EXCEPT ![j].pending = TRUE]

\* The locked transaction of a writer that stored t: the flag goes only if the
\* text is still t.
Marked(j, t) ==
  IF job[j].text = t
  THEN [job EXCEPT ![j].pending = FALSE, ![j].sig = "current"]
  ELSE [job EXCEPT ![j].pending = TRUE]

SaverStore(j) ==
  /\ saver[j].pc = "store"
  /\ \/ /\ Land(j, saver[j].text)
        /\ saver' = [saver EXCEPT ![j].pc = "mark"]
        /\ UNCHANGED events
     \/ /\ Event
        /\ LandUnheard(j, saver[j].text) \/ UNCHANGED <<point, unmarked>>
        /\ saver' = [saver EXCEPT ![j] = NoSaver]
  /\ UNCHANGED <<job, copy, queueVars, worker>>

SaverMark(j) ==
  /\ saver[j].pc = "mark"
  /\ \/ /\ job' = Marked(j, saver[j].text)
        /\ UNCHANGED <<unmarked, events>>
     \/ /\ Event
        /\ unmarked' = unmarked \cup {j}
        /\ UNCHANGED job
  /\ saver' = [saver EXCEPT ![j] = NoSaver]
  /\ UNCHANGED <<point, copy, queueVars, worker>>

\* job_needs_embedding_reindex; jobs indexed before signatures were kept are not
\* modelled.
NeedsReindex(j) == job[j].pending \/ job[j].sig = "old"

\* raw_data is read without a lock by a call that will write the whole column:
\* skip_if_stale of any job of age, the script for a new model of those that need
\* it, the pilot of those its operator names.
CopyRawData(j, why) ==
  /\ Saved(j) /\ copy[j] = None /\ Event
  /\ why = "reindex" => NeedsReindex(j)
  /\ copy' = [copy EXCEPT ![j] = [why |-> why, pending |-> job[j].pending, sig |-> job[j].sig]]
  /\ UNCHANGED <<job, point, saver, unmarked, queueVars, worker>>

\* The copy is written back, with the flag as given.
WriteBack(j, pending) ==
  /\ job' = [job EXCEPT ![j].pending = pending, ![j].sig = copy[j].sig]
  /\ unmarked' = IF job[j].pending /\ ~pending THEN unmarked \cup {j} ELSE unmarked
  /\ copy' = [copy EXCEPT ![j] = None]
  /\ UNCHANGED <<point, saver, queueVars, worker, events>>

\* skip_if_stale adds its audit entry and leaves the rest as it read it.
WriteAudit(j) == copy[j] # None /\ copy[j].why = "audit" /\ WriteBack(j, copy[j].pending)

\* mark_embedding_reindex.py and pilot_embedding_reindex.py set the flag; the pilot
\* may then run the job half of the task itself.
MarkForReindex(j) == copy[j] # None /\ copy[j].why = "reindex" /\ WriteBack(j, TRUE)
MarkPilot(j) == copy[j] # None /\ copy[j].why = "pilot" /\ WriteBack(j, TRUE)

Rewrite(j) == WriteAudit(j) \/ MarkForReindex(j) \/ MarkPilot(j)

\* The deployment moves to another embedding model: collections carry the
\* model's name, so the job collection is empty, and every process restarts.
SwitchModel ==
  /\ Event
  /\ job' = [j \in Jobs |-> [job[j] EXCEPT !.sig = IF @ = "current" THEN "old" ELSE @]]
  /\ point' = [j \in Jobs |-> 0]
  /\ saver' = [j \in Jobs |-> NoSaver]
  /\ copy' = [j \in Jobs |-> None]
  /\ worker' = [w \in Workers |-> Idle]
  /\ deferred' = {}
  /\ UNCHANGED <<unmarked, row>>

-----------------------------------------------------------------------------
(* The queue and its producers.                                                *)

\* The learning agent's _store_success_patterns offers the proposal and its
\* phrases one by one; one that the memory does not take is to be queued.
OfferPattern(p) ==
  /\ p \in Payloads \ Edits /\ p \notin deferred /\ Event
  /\ deferred' = deferred \cup {p}
  /\ UNCHANGED <<jobVars, row, worker>>

\* record_edit_steps queues the steps the memory refused, and after an exception
\* every step, those already stored among them.
OfferEdits(steps, refused) ==
  /\ refused \subseteq steps /\ refused # {} /\ steps \cap deferred = {}
  /\ \E raised \in BOOLEAN :
       LET queued == IF raised THEN steps ELSE refused
       IN deferred' = deferred \cup queued /\ Events(Cardinality(queued))
  /\ UNCHANGED <<jobVars, row, worker>>

Unclaimed(r) == [r EXCEPT !.tok = None, !.lease = "none"]

\* The place after every row there is: created_at of a new row.  Places are kept
\* without gaps.
NextPlace == Cardinality({k \in Keys : row[k] # None}) + 1

\* Mutant: the claim stays with the row whose payload is replaced.
EnqueueKeepingClaim(p) ==
  LET k == KeyOf[p]
  IN /\ p \in deferred
     /\ deferred' = deferred \ {p}
     /\ row' = IF row[k] = None
               THEN [row EXCEPT ![k] = [payload |-> p, tok |-> None, lease |-> "none", at |-> NextPlace]]
               ELSE IF row[k].payload # p
               THEN [row EXCEPT ![k] = [@ EXCEPT !.payload = p]]
               ELSE row
     /\ UNCHANGED <<jobVars, worker, events>>

\* enqueue_memory_index: a new payload under the same key takes the row's claim
\* away but not its place; the same payload changes nothing.
Enqueue(p) ==
  LET k == KeyOf[p]
  IN /\ p \in deferred
     /\ deferred' = deferred \ {p}
     /\ row' = IF row[k] = None
               THEN [row EXCEPT ![k] = [payload |-> p, tok |-> None, lease |-> "none", at |-> NextPlace]]
               ELSE IF row[k].payload # p
               THEN [row EXCEPT ![k] = [Unclaimed(@) EXCEPT !.payload = p]]
               ELSE row
     /\ UNCHANGED <<jobVars, worker, events>>

-----------------------------------------------------------------------------
(* The task reindex_pending_embeddings.                                        *)

\* The first Limit of the numbers in S.
First(S) == {i \in S : Cardinality({h \in S : h < i}) < Limit}

To(w, pc) == worker' = [worker EXCEPT ![w].pc = pc]

\* w is done with c and goes on with the next one, or with what comes after.
NextJob(w, c) ==
  LET rest == worker[w].todo \ {c}
  IN worker' = [worker EXCEPT ![w].todo = rest,
                              ![w].pc = IF rest = {} THEN "recover" ELSE "job"]

NextClaim(w, c) ==
  LET rest == worker[w].claims \ {c}
  IN worker' = [worker EXCEPT ![w].claims = rest,
                              ![w].pc = IF rest = {} THEN "idle" ELSE "apply"]

\* The oldest pending jobs are read without a lock, and the session is closed.
ReadPendingJobs(w) ==
  LET jobs == First({j \in Jobs : Saved(j) /\ job[j].pending})
  IN /\ worker[w].pc = "idle"
     /\ worker' = [worker EXCEPT
          ![w] = [pc |-> IF jobs = {} THEN "recover" ELSE "job",
                  todo |-> {[job |-> j, text |-> job[j].text] : j \in jobs},
                  claims |-> {}]]
     /\ UNCHANGED <<jobVars, queueVars, events>>

\* store_job_embedding of the copied text: stored, or refused, or a call that
\* fails before or after the point was written.
StoreJob(w) ==
  /\ worker[w].pc = "job"
  /\ \E c \in CurrentJob(w) :
       \/ /\ Land(c.job, c.text)
          /\ To(w, "mark")
          /\ UNCHANGED events
       \/ /\ Event
          /\ LandUnheard(c.job, c.text) \/ UNCHANGED <<point, unmarked>>
          /\ NextJob(w, c)
  /\ UNCHANGED <<job, saver, copy, queueVars>>

\* The job is locked, its text compared with the one embedded; an exception here
\* is caught, and the next job is taken.
MarkJob(w) ==
  /\ worker[w].pc = "mark"
  /\ \E c \in CurrentJob(w) :
       /\ \/ /\ job' = Marked(c.job, c.text)
             /\ UNCHANGED <<unmarked, events>>
          \/ /\ Event
             /\ unmarked' = unmarked \cup {c.job}
             /\ UNCHANGED job
       /\ NextJob(w, c)
  /\ UNCHANGED <<point, saver, copy, queueVars>>

\* recover_stale_memory_index_claims
RecoverStale(w) ==
  /\ worker[w].pc = "recover"
  /\ row' = [k \in Keys |-> IF row[k] # None /\ row[k].lease = "over"
                            THEN Unclaimed(row[k]) ELSE row[k]]
  /\ To(w, "claim")
  /\ UNCHANGED <<jobVars, deferred, events>>

TokensInUse ==
  {row[k].tok : k \in {h \in Keys : row[h] # None}}
    \cup {c.tok : c \in UNION {worker[w].claims : w \in Workers}}

\* A token never used before; the numbers are used again once nobody has them.
NewTokens ==
  {t \in Tokens \ TokensInUse : \A u \in Tokens \ TokensInUse : t <= u}

\* _claim_memory_index_batch: the oldest rows without a lease that holds.  Each
\* gets a token of its own in the code; here the rows of a batch share one, for it
\* is only ever compared on the same row.
ClaimBatch(w) ==
  LET free  == {k \in Keys : row[k] # None /\ row[k].lease # "live"}
      batch == {k \in free : row[k].at \in First({row[h].at : h \in free})}
  IN /\ worker[w].pc = "claim"
     /\ \E t \in NewTokens :
          /\ row' = [k \in Keys |-> IF k \in batch
                                    THEN [row[k] EXCEPT !.tok = t, !.lease = "live"]
                                    ELSE row[k]]
          /\ worker' = [worker EXCEPT
               ![w].pc = IF batch = {} THEN "idle" ELSE "apply",
               ![w].claims = {[key |-> k, payload |-> row[k].payload, tok |-> t, at |-> row[k].at] :
                                k \in batch}]
     /\ UNCHANGED <<jobVars, deferred, events>>

\* What the vector memory answers: the point was written, or it was not (no
\* embedding, a failed upsert) or not so that the caller knows.
StoreAnswers == {"written", "refused"}

\* _apply_pending_row with the payload read at the claim; an exception counts as
\* refused.
ApplyRow(w) ==
  /\ worker[w].pc = "apply"
  /\ \E answer \in StoreAnswers :
       /\ IF answer = "refused" THEN Event ELSE UNCHANGED events
       /\ To(w, answer)
  /\ UNCHANGED <<jobVars, queueVars>>

\* The row is still under the claim that this worker made.
Mine(c) == row[c.key] # None /\ row[c.key].tok = c.tok

\* The rows with k's row deleted.
Without(k) ==
  [h \in Keys |-> IF h = k THEN None
                  ELSE IF row[h] # None /\ row[h].at > row[k].at THEN [row[h] EXCEPT !.at = @ - 1]
                  ELSE row[h]]

\* _finalize_memory_index_success and _finalize_memory_index_failure
Finalize(w) ==
  /\ worker[w].pc \in {"written", "refused"}
  /\ \E c \in CurrentClaim(w) :
       /\ row' = IF ~Mine(c) THEN row
                 ELSE IF worker[w].pc = "written" THEN Without(c.key)
                 ELSE [row EXCEPT ![c.key] = Unclaimed(@)]
       /\ NextClaim(w, c)
  /\ UNCHANGED <<jobVars, deferred, events>>

\* The task ends before its work is done: the process dies, the index cannot be
\* opened (get_memory_store raises after the batch was claimed), or a statement
\* on the database fails.
WorkerDies(w) ==
  /\ worker[w].pc # "idle" /\ Event
  /\ worker' = [worker EXCEPT ![w] = Idle]
  /\ unmarked' = IF worker[w].pc = "mark" THEN unmarked \cup {c.job : c \in CurrentJob(w)} ELSE unmarked
  /\ UNCHANGED <<job, point, saver, copy, queueVars>>

\* The producer dies between the refusal and the insert into the queue.
ProducerDies(p) ==
  /\ p \in deferred /\ Event
  /\ deferred' = deferred \ {p}
  /\ UNCHANGED <<jobVars, row, worker>>

Held(k) == \E w \in Workers : \E c \in worker[w].claims : c.key = k /\ c.tok = row[k].tok

\* memory_index_lease_seconds pass; that a worker outlives its lease is counted.
LeaseElapses(k) ==
  /\ row[k] # None /\ row[k].lease = "live"
  /\ IF Held(k) THEN Event ELSE UNCHANGED events
  /\ row' = [row EXCEPT ![k].lease = "over"]
  /\ UNCHANGED <<jobVars, deferred, worker>>

-----------------------------------------------------------------------------
WorkerStep(w) ==
  \/ ReadPendingJobs(w) \/ StoreJob(w) \/ MarkJob(w)
  \/ RecoverStale(w) \/ ClaimBatch(w) \/ ApplyRow(w) \/ Finalize(w)

Next ==
  \/ \E j \in Jobs :
       \/ \E kwork \in BOOLEAN : SaveNew(j, kwork)
       \/ SaverStore(j) \/ SaverMark(j) \/ Rewrite(j)
       \/ \E t \in Texts : Rescrape(j, t)
       \/ \E why \in Rewriters : CopyRawData(j, why)
  \/ \E p \in Payloads : OfferPattern(p) \/ Enqueue(p) \/ ProducerDies(p)
  \/ \E steps, refused \in SUBSET Edits : OfferEdits(steps, refused)
  \/ \E w \in Workers : WorkerStep(w) \/ WorkerDies(w)
  \/ \E k \in Keys : LeaseElapses(k)
  \/ SwitchModel

Spec == Init /\ [][Next]_vars

(* Beat starts the task every half hour and Celery runs it, a call that has    *)
(* begun goes on, and time passes.  Nobody has to scrape, offer, mark or fail.  *)
(* A run of the task always has a next step (when idle, the next run's first),  *)
(* so that weak fairness means that it takes one again and again.               *)
FairSpec ==
  /\ Spec
  /\ \A w \in Workers : []<><<WorkerStep(w)>>_vars
  /\ WF_vars(\E j \in Jobs : SaverStore(j) \/ SaverMark(j) \/ Rewrite(j))
  /\ WF_vars(\E p \in Payloads : Enqueue(p))
  /\ WF_vars(\E k \in Keys : LeaseElapses(k))

-----------------------------------------------------------------------------
(* A job that is signed with the current model and not pending is in the index *)
(* with the text it has now, however its first save, the runs of the task and   *)
(* new scrapes interleave, or a writer with another text is about to make it     *)
(* pending again; the only ways out are those the code does not guard: a write   *)
(* whose writer ended before its comparison, two writers of different texts      *)
(* between write and comparison at once, raw_data written back from an unlocked   *)
(* copy, and the longer description of a listing from another platform            *)
(* (job_pipeline.py:112,116 and 206-212, embedding_tasks.py:45-59).               *)
EmbeddingIsCurrent ==
  \A j \in Jobs :
    Saved(j) /\ ~job[j].pending /\ job[j].sig = "current"
      => point[j] = job[j].text \/ j \in unmarked \/ Crosses(j, job[j].text)

(* Why: a writer between write and comparison finds its own text in the index,   *)
(* or the job is among the unmarked; raw_data is copied of saved jobs, and the    *)
(* copy is no newer than the row; and a run has one text of a job.                *)
LandedIsThere ==
  /\ \A j \in Jobs : saver[j].pc = "mark" => point[j] = saver[j].text \/ j \in unmarked
  /\ \A w \in Workers : worker[w].pc = "mark" =>
       \A c \in CurrentJob(w) : point[c.job] = c.text \/ c.job \in unmarked

CopyIsNoNewer ==
  \A j \in Jobs : copy[j] # None => Saved(j) /\ (copy[j].sig = "current" => job[j].sig = "current")

OneTextOfAJob ==
  \A w \in Workers : \A c, d \in worker[w].todo : c.job = d.job => c = d

(* A claim whose token is still on its row has the row's payload.                *)
ClaimIsOfTheRow ==
  \A w \in Workers : \A c \in worker[w].claims : Mine(c) => row[c.key].payload = c.payload

IInv == /\ TypeOK /\ EmbeddingIsCurrent
        /\ LandedIsThere /\ CopyIsNoNewer /\ OneTextOfAJob /\ ClaimIsOfTheRow

(* A row leaves the queue only by the worker that holds it and has written the  *)
(* very payload the row holds now: a payload that replaces another during the   *)
(* write is not deleted with it (memory_index_queue.py:40-51 and 92-102).       *)
RemovedWasIndexed ==
  [][\A k \in Keys : row[k] # None /\ row'[k] = None =>
       \E w \in Workers :
         /\ worker[w].pc = "written"
         /\ \E c \in CurrentClaim(w) : c.key = k /\ c.payload = row[k].payload]_vars

(* Once the listings stop changing, nobody offers anything more and failures    *)
(* stop, no job stays pending and the queue drains: a claim whose worker died    *)
(* is taken over after its lease, and a text that changed under its embedding    *)
(* is embedded again.                                                            *)
EventuallyIndexed ==
  <>[](/\ \A j \in Jobs : Saved(j) => ~job[j].pending
       /\ \A k \in Keys : row[k] = None)
=============================================================================
