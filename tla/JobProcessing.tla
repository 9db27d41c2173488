---------------------------- MODULE JobProcessing ----------------------------
(***************************************************************************)
(* The pipeline that turns scraped jobs into proposals                     *)
(* (app/services/job_processing.py, app/tasks/scrape_tasks.py,             *)
(* app/services/job_task_enqueue.py, the persistence in                    *)
(* app/services/job_pipeline.py).                                          *)
(*                                                                         *)
(* Celery worker slots take two kinds of tasks: process_single_job for one *)
(* job, and the sweep (run_all_scrapers, reprocess_pending_jobs), which    *)
(* recovers stale claims, may scrape and process jobs itself, and queues   *)
(* the jobs that are due.  A job is claimed under a token and a lease; the *)
(* LLM graph then runs outside any transaction, so a slot may lose its     *)
(* claim at any moment and still come back with a result.  A Redis marker  *)
(* per job is meant to keep a second task of the job out of the broker.    *)
(*                                                                         *)
(* Review and delivery (module ProposalDelivery) appear as what they do to *)
(* the job's status.  Time is abstract: leases, back-offs and markers run  *)
(* out when LeasePasses, BackoffEnds and MarkerExpires say so.             *)
(***************************************************************************)
EXTENDS Naturals

CONSTANTS
    Jobs,           \* jobs that the platforms list
    Slots,          \* Celery worker processes
    MaxAttempts,    \* job_processing_max_attempts
    Outcomes,       \* what a run of the graph may come to
    OrdersClose,    \* whether the platform may answer that an order is closed
    MarkersFail,    \* whether Redis may lose a marker or refuse to set or delete one
    MaxClaims,      \* bound: claims in a behaviour
    MaxQueued,      \* bound: tasks of one job waiting in the broker
    MaxRequeues,    \* bound: operator requeues in a behaviour
    MaxCrashes      \* bound: worker deaths in a behaviour

\* "filtered": not relevant, stale or below the threshold; "empty": relevant, but the
\* model wrote no proposal; "retryable" and "permanent": a stage reported its error.
GraphOutcomes == {"filtered", "empty", "proposal", "retryable", "permanent"}

ASSUME ProcessingAssumption ==
    /\ Jobs # {}
    /\ MaxAttempts \in Nat \ {0}
    /\ Outcomes \subseteq GraphOutcomes /\ "filtered" \in Outcomes
    /\ OrdersClose \in BOOLEAN /\ MarkersFail \in BOOLEAN
    /\ MaxClaims \in Nat /\ MaxQueued \in Nat
    /\ MaxRequeues \in Nat /\ MaxCrashes \in Nat

VARIABLES
    job,       \* the table jobs: status, claim token and whether its lease is running,
               \* attempts, whether the back-off is over, error type
    review,    \* the newest proposal of a job: "none", "open" (pending_approval) or "closed"
    broker,    \* process_single_job messages waiting, by job
    marker,    \* jobs whose Redis key jobpilot:enqueue:process_job:<id> is set
    slot,      \* the local state of each worker
    claims,    \* claim tokens drawn so far; the tokens are 1..claims
    requeues,  \* operator requeues so far
    crashes,   \* worker deaths so far
    made,      \* history: how many proposals of a job the pipeline created
    runs,      \* history: graph runs of a job since it was last requeued by the operator
    closed     \* history: jobs whose order the platform reported as closed

vars == <<job, review, broker, marker, slot, claims, requeues, crashes, made, runs, closed>>
queue == <<broker, marker>>
budgets == <<requeues, crashes>>
history == <<made, runs, closed>>

Tokens == 1..MaxClaims
Queueable == {"new", "retryable_error", "scored"}
Protected == {"pending_approval", "approved", "sent"}
Terminal == {"sent", "filtered", "permanent_error"}
JobStatuses == {"absent", "skipped"} \cup Queueable \cup Protected \cup Terminal
ErrorTypes == {"none", "retryable", "permanent", "retry_exhausted"}
Steps == {"idle", "claim", "start", "graph", "persist", "error", "release", "done",
          "unmark", "scrape", "queue", "send"}

JobType == [st : JobStatuses, tok : Tokens \cup {0}, live : BOOLEAN, attempts : 0..MaxAttempts,
            due : BOOLEAN, err : ErrorTypes]
SlotType == [pc : Steps, sweep : BOOLEAN, job : Jobs, tok : Tokens \cup {0},
             out : GraphOutcomes, todo : SUBSET Jobs, seen : SUBSET Jobs]

Absent == [st |-> "absent", tok |-> 0, live |-> FALSE, attempts |-> 0,
           due |-> TRUE, err |-> "none"]
\* A slot without a task; its job and outcome mean nothing.
Idle == [pc |-> "idle", sweep |-> FALSE, job |-> CHOOSE j \in Jobs : TRUE, tok |-> 0,
         out |-> "filtered", todo |-> {}, seen |-> {}]

Init ==
    /\ job = [j \in Jobs |-> Absent]
    /\ review = [j \in Jobs |-> "none"]
    /\ broker = [j \in Jobs |-> 0]
    /\ marker = {}
    /\ slot = [s \in Slots |-> Idle]
    /\ claims = 0
    /\ requeues = 0 /\ crashes = 0
    /\ made = [j \in Jobs |-> 0]
    /\ runs = [j \in Jobs |-> 0]
    /\ closed = {}

-----------------------------------------------------------------------------
(* Operators of the handlers *)

\* Mutant: only a delivered job is kept from the pipeline.
AllowsUnlessSent(st) == st \notin {"absent", "sent"} \cup Terminal
\* job_allows_pipeline_persist, for a job that exists.
Allows(st) == st # "absent" /\ st \notin Protected \cup Terminal

HasActiveClaim(j) == job[j].tok # 0 /\ job[j].live

\* Mutant: the claim is not renewed before the graph runs.
StillMineUnchecked(s) == TRUE
\* What renew_job_claim, persist_pipeline_results and record_processing_error demand
\* of the locked row.
StillMine(s) ==
    LET j == slot[s].job
    IN  job[j].tok = slot[s].tok /\ HasActiveClaim(j) /\ Allows(job[j].st)

\* Mutant: one attempt too many.
ExhaustedLate(j) == job[j].attempts > MaxAttempts
Exhausted(j) == job[j].attempts >= MaxAttempts

\* apply_processing_failure.
Failed(j, retryable) ==
    LET again == retryable /\ ~Exhausted(j)
    IN  [job[j] EXCEPT
            !.st = IF again THEN "retryable_error" ELSE "permanent_error",
            !.tok = 0, !.live = FALSE,
            !.due = ~again,
            !.err = IF ~retryable THEN "permanent"
                    ELSE IF Exhausted(j) THEN "retry_exhausted" ELSE "retryable"]

\* _transition_job_status from an open status: a status outside the table stays.
Transition(st, new) == IF st \in Queueable THEN new ELSE st

\* The row after a run that ended without an error.
Persisted(j, new) ==
    [job[j] EXCEPT !.st = Transition(job[j].st, new), !.tok = 0, !.live = FALSE,
                   !.due = TRUE, !.err = "none"]

\* The row of a job without its claim.
Unclaimed(j) == [job[j] EXCEPT !.tok = 0, !.live = FALSE]

\* A claim whose lease has passed.
Stale(j) == job[j].tok # 0 /\ ~job[j].live

\* Mutant: failed jobs are not selected again.
DueWhenNew(j) == job[j].due /\ ~HasActiveClaim(j) /\ job[j].st = "new"
\* The rows _queue_unprocessed_jobs selects.
Due(j) ==
    /\ job[j].due /\ ~HasActiveClaim(j)
    /\ \/ job[j].st \in {"new", "retryable_error"}
       \/ job[j].st = "scored" /\ review[j] = "none"

\* The slot goes to step pc of its task.
Go(s, pc) == slot' = [slot EXCEPT ![s].pc = pc]

\* After its job a sweep goes on scraping, a process_single_job clears the marker.
AfterJob(s) == IF slot[s].sweep THEN "scrape" ELSE "done"

-----------------------------------------------------------------------------
(* process_single_job, and the same steps inside a sweep *)

\* The broker hands a message to a worker; it is acknowledged at once.
StartTask(s, j) ==
    /\ slot[s].pc = "idle"
    /\ broker[j] > 0
    /\ broker' = [broker EXCEPT ![j] = @ - 1]
    /\ slot' = [slot EXCEPT ![s].pc = "claim", ![s].job = j]
    /\ UNCHANGED <<job, review, marker, claims, budgets, history>>

ClaimRefused(s) ==
    LET j == slot[s].job
    IN  /\ slot[s].pc = "claim"
        /\ ~Allows(job[j].st) \/ ~job[j].due \/ HasActiveClaim(j)
        /\ Go(s, AfterJob(s))
        /\ UNCHANGED <<job, review, queue, claims, budgets, history>>

ClaimExhausted(s) ==
    LET j == slot[s].job
    IN  /\ slot[s].pc = "claim"
        /\ Allows(job[j].st) /\ job[j].due /\ ~HasActiveClaim(j)
        /\ Exhausted(j)
        /\ job' = [job EXCEPT ![j].st = "permanent_error", ![j].tok = 0,
                              ![j].live = FALSE, ![j].due = TRUE, ![j].err = "retry_exhausted"]
        /\ Go(s, AfterJob(s))
        /\ UNCHANGED <<review, queue, claims, budgets, history>>

ClaimTaken(s) ==
    LET j == slot[s].job
    IN  /\ slot[s].pc = "claim"
        /\ Allows(job[j].st) /\ job[j].due /\ ~HasActiveClaim(j)
        /\ ~Exhausted(j)
        /\ claims < MaxClaims
        /\ claims' = claims + 1
        /\ job' = [job EXCEPT ![j].tok = claims + 1, ![j].live = TRUE,
                              ![j].attempts = job[j].attempts + 1]
        /\ slot' = [slot EXCEPT ![s].pc = "start", ![s].tok = claims + 1]
        /\ UNCHANGED <<review, queue, budgets, history>>

\* skip_if_stale: an old or overdue job is filtered without a run.
TooOld(s) ==
    /\ slot[s].pc = "start"
    /\ slot' = [slot EXCEPT ![s].pc = "persist", ![s].out = "filtered"]
    /\ UNCHANGED <<job, review, queue, claims, budgets, history>>

\* run_job_graph_with_claim renews the claim and starts the graph.
GraphStarts(s) ==
    /\ slot[s].pc = "start"
    /\ StillMine(s)
    /\ runs' = [runs EXCEPT ![slot[s].job] = @ + 1]
    /\ Go(s, "graph")
    /\ UNCHANGED <<job, review, queue, claims, budgets, made, closed>>

\* Something raises before a result is there: the claim is lost before the graph or
\* found lost by the heartbeat, which cancels the graph; the graph itself raises; a
\* database call fails.
Raises(s) ==
    /\ slot[s].pc \in {"start", "graph"}
    /\ Go(s, "error")
    /\ UNCHANGED <<job, review, queue, claims, budgets, history>>

GraphEnds(s, out) ==
    /\ slot[s].pc = "graph"
    /\ slot' = [slot EXCEPT ![s].pc = "persist", ![s].out = out]
    /\ UNCHANGED <<job, review, queue, claims, budgets, history>>

\* The writes of persist_pipeline_results.  A proposal is created only if none is open.
WriteResult(s) ==
    LET j == slot[s].job
        out == slot[s].out
    IN  IF ~StillMine(s)
        THEN UNCHANGED <<job, review, made>>
        ELSE IF out = "proposal" /\ review[j] # "open"
        THEN /\ job' = [job EXCEPT ![j] = Persisted(j, "pending_approval")]
             /\ review' = [review EXCEPT ![j] = "open"]
             /\ made' = [made EXCEPT ![j] = @ + 1]
        ELSE /\ job' = [job EXCEPT ![j] =
                           IF out \in {"retryable", "permanent"}
                           THEN Failed(j, out = "retryable")
                           ELSE Persisted(j, IF out = "filtered" THEN "filtered" ELSE "scored")]
             /\ UNCHANGED <<review, made>>

Persist(s) ==
    /\ slot[s].pc = "persist"
    /\ WriteResult(s)
    /\ slot' = [slot EXCEPT ![s].pc = "release", ![s].out = "filtered"]
    /\ UNCHANGED <<queue, claims, budgets, runs, closed>>

\* The transaction raises (Kwork is paused, no review chat, a lost connection); in the
\* last case the database may have applied it.
PersistRaises(s) ==
    /\ slot[s].pc = "persist"
    /\ WriteResult(s) \/ UNCHANGED <<job, review, made>>
    /\ slot' = [slot EXCEPT ![s].pc = "error", ![s].out = "filtered"]
    /\ UNCHANGED <<queue, claims, budgets, runs, closed>>

RecordError(s) ==
    LET j == slot[s].job
    IN  /\ slot[s].pc = "error"
        /\ job' = IF StillMine(s) THEN [job EXCEPT ![j] = Failed(j, TRUE)] ELSE job
        /\ Go(s, "release")
        /\ UNCHANGED <<review, queue, claims, budgets, history>>

\* record_processing_error fails itself: logged.
ErrorUnrecorded(s) ==
    /\ slot[s].pc = "error"
    /\ Go(s, "release")
    /\ UNCHANGED <<job, review, queue, claims, budgets, history>>

Release(s) ==
    LET j == slot[s].job
    IN  /\ slot[s].pc = "release"
        /\ job' = IF job[j].tok = slot[s].tok THEN [job EXCEPT ![j] = Unclaimed(j)] ELSE job
        /\ slot' = [slot EXCEPT ![s].pc = AfterJob(s), ![s].tok = 0]
        /\ UNCHANGED <<review, queue, claims, budgets, history>>

\* release_job_claim fails: the row keeps its claim until the lease has passed.
ReleaseFails(s) ==
    /\ slot[s].pc = "release"
    /\ slot' = [slot EXCEPT ![s].pc = AfterJob(s), ![s].tok = 0]
    /\ UNCHANGED <<job, review, queue, claims, budgets, history>>

\* The task's finally: the job's marker goes, whoever set it; a failure is logged.
EndTask(s) ==
    /\ slot[s].pc = "done"
    /\ \/ marker' = marker \ {slot[s].job}
       \/ MarkersFail /\ UNCHANGED marker
    /\ slot' = [slot EXCEPT ![s] = Idle]
    /\ UNCHANGED <<job, review, broker, claims, budgets, history>>

-----------------------------------------------------------------------------
(* The sweep *)

\* recover_stale_job_claims: one transaction, which skips the rows that are locked, then
\* the markers of the recovered jobs.
StartSweep(s) ==
    /\ slot[s].pc = "idle"
    /\ \E stale \in SUBSET {j \in Jobs : Stale(j)} :
           /\ job' = [j \in Jobs |-> IF j \in stale THEN Unclaimed(j) ELSE job[j]]
           /\ slot' = [slot EXCEPT ![s].pc = "unmark", ![s].sweep = TRUE, ![s].todo = stale]
    /\ UNCHANGED <<review, queue, claims, budgets, history>>

\* release_process_job_enqueue for each of them; one that fails is logged, and its
\* marker stays until it expires.
Unmark(s) ==
    /\ slot[s].pc = "unmark"
    /\ \E kept \in SUBSET slot[s].todo :
           /\ MarkersFail \/ kept = {}
           /\ marker' = marker \ (slot[s].todo \ kept)
    /\ slot' = [slot EXCEPT ![s].pc = "scrape", ![s].todo = {}]
    /\ UNCHANGED <<job, review, broker, claims, budgets, history>>

\* A scraper found the job: it is saved, if it is new, and claimed in place.
Scrape(s, j) ==
    /\ slot[s].pc = "scrape"
    /\ j \notin slot[s].seen
    /\ job' = IF job[j].st = "absent" THEN [job EXCEPT ![j].st = "new"] ELSE job
    /\ slot' = [slot EXCEPT ![s].pc = "claim", ![s].job = j, ![s].seen = @ \cup {j}]
    /\ UNCHANGED <<review, queue, claims, budgets, history>>

\* _queue_unprocessed_jobs: the due jobs are read once and queued one by one.
SelectDue(s) ==
    /\ slot[s].pc = "scrape"
    /\ slot' = [slot EXCEPT ![s].pc = "queue",
                            ![s].todo = {j \in Jobs : Due(j)} \ slot[s].seen]
    /\ UNCHANGED <<job, review, queue, claims, budgets, history>>

\* queue_process_single_job: SET NX on the marker; a job that has one is passed over,
\* and a job whose marker Redis cannot set is queued without one.
Reserve(s, j) ==
    /\ slot[s].pc = "queue"
    /\ j \in slot[s].todo
    /\ \/ /\ slot' = [slot EXCEPT ![s].pc = IF j \in marker THEN "queue" ELSE "send",
                                  ![s].job = j, ![s].todo = @ \ {j}]
          /\ marker' = marker \cup {j}
       \/ /\ MarkersFail
          /\ slot' = [slot EXCEPT ![s].pc = "send", ![s].job = j, ![s].todo = @ \ {j}]
          /\ UNCHANGED marker
    /\ UNCHANGED <<job, review, broker, claims, budgets, history>>

\* The message goes to the broker.
SendTask(s) ==
    LET j == slot[s].job
    IN  /\ slot[s].pc = "send"
        /\ broker[j] < MaxQueued
        /\ broker' = [broker EXCEPT ![j] = @ + 1]
        /\ Go(s, "queue")
        /\ UNCHANGED <<job, review, marker, claims, budgets, history>>

\* The broker refuses it: the marker is released, and the exception ends the sweep.  The
\* marker is kept by the same Redis, so it may well stay.
SendRefused(s) ==
    /\ slot[s].pc = "send"
    /\ \/ marker' = marker \ {slot[s].job}
       \/ MarkersFail /\ UNCHANGED marker
    /\ slot' = [slot EXCEPT ![s] = Idle]
    /\ UNCHANGED <<job, review, broker, claims, budgets, history>>

EndSweep(s) ==
    /\ slot[s].pc = "queue"
    /\ slot[s].todo = {}
    /\ slot' = [slot EXCEPT ![s] = Idle]
    /\ UNCHANGED <<job, review, queue, claims, budgets, history>>

-----------------------------------------------------------------------------
(* The environment *)

\* POST /jobs/{id}/process.
ApiQueue(j) ==
    /\ job[j].st # "absent"
    /\ j \notin marker
    /\ broker[j] < MaxQueued
    /\ marker' = marker \cup {j}
    /\ broker' = [broker EXCEPT ![j] = @ + 1]
    /\ UNCHANGED <<job, review, slot, claims, budgets, history>>

\* requeue_exhausted_job, run by an operator.
RequeueExhausted(j) ==
    /\ requeues < MaxRequeues
    /\ job[j].st = "permanent_error" /\ job[j].err = "retry_exhausted" /\ job[j].tok = 0
    /\ review[j] = "none"
    /\ requeues' = requeues + 1
    /\ job' = [job EXCEPT ![j].st = "retryable_error", ![j].err = "retryable",
                          ![j].attempts = 0, ![j].due = TRUE]
    /\ runs' = [runs EXCEPT ![j] = 0]
    /\ UNCHANGED <<review, queue, slot, claims, crashes, made, closed>>

\* Delivery: an offer is sent, fails, or is refused because the order is closed.
Deliver(j, st) ==
    /\ job[j].st \in {"pending_approval", "approved"}
    /\ st \in {"sent", "approved"} \cup (IF OrdersClose THEN {"skipped"} ELSE {})
    /\ job' = [job EXCEPT ![j].st = st]
    /\ review' = [review EXCEPT ![j] = "closed"]
    /\ closed' = IF st = "skipped" THEN closed \cup {j} ELSE closed
    /\ UNCHANGED <<queue, slot, claims, budgets, made, runs>>

\* The worker process dies with its task, whose message is gone.
Crash(s) ==
    /\ slot[s].pc # "idle"
    /\ crashes < MaxCrashes
    /\ crashes' = crashes + 1
    /\ slot' = [slot EXCEPT ![s] = Idle]
    /\ UNCHANGED <<job, review, queue, claims, requeues, history>>

\* The lease of a claim passes.  A heartbeat renews it in time as long as the process
\* runs; a process that was held up finds it passed.
LeasePasses(j) ==
    /\ HasActiveClaim(j)
    /\ job' = [job EXCEPT ![j].live = FALSE]
    /\ UNCHANGED <<review, queue, slot, claims, budgets, history>>

BackoffEnds(j) ==
    /\ ~job[j].due
    /\ job' = [job EXCEPT ![j].due = TRUE]
    /\ UNCHANGED <<review, queue, slot, claims, budgets, history>>

MarkerExpires(j) ==
    /\ MarkersFail
    /\ j \in marker
    /\ marker' = marker \ {j}
    /\ UNCHANGED <<job, review, broker, slot, claims, budgets, history>>

-----------------------------------------------------------------------------
ProcessJob(s) ==
    \/ ClaimRefused(s) \/ ClaimExhausted(s) \/ ClaimTaken(s)
    \/ TooOld(s) \/ GraphStarts(s) \/ Raises(s)
    \/ \E out \in Outcomes : GraphEnds(s, out)
    \/ Persist(s) \/ PersistRaises(s) \/ RecordError(s) \/ ErrorUnrecorded(s)
    \/ Release(s) \/ ReleaseFails(s) \/ EndTask(s)

Sweep(s) ==
    \/ Unmark(s) \/ SelectDue(s) \/ SendTask(s) \/ SendRefused(s) \/ EndSweep(s)
    \/ \E j \in Jobs : Scrape(s, j) \/ Reserve(s, j)

Environment ==
    \/ \E j \in Jobs : \/ ApiQueue(j) \/ RequeueExhausted(j)
                       \/ LeasePasses(j) \/ BackoffEnds(j) \/ MarkerExpires(j)
    \/ \E j \in Jobs, st \in {"sent", "approved", "skipped"} : Deliver(j, st)

Next ==
    \/ \E s \in Slots : ProcessJob(s) \/ Sweep(s) \/ StartSweep(s) \/ Crash(s)
    \/ \E s \in Slots, j \in Jobs : StartTask(s, j)
    \/ Environment

Spec == Init /\ [][Next]_vars

\* Every task comes to its end (LLM, HTTP and database calls have timeouts); the broker
\* is a queue, so a message and the beat's next sweep are each taken at some time when a
\* slot is idle; the broker does not refuse messages for ever; time passes.
Fairness ==
    /\ \A s \in Slots : WF_vars(ProcessJob(s) \/ Sweep(s))
    /\ SF_vars(\E s \in Slots : StartSweep(s))
    /\ \A j \in Jobs : SF_vars(\E s \in Slots : slot[s].job = j /\ SendTask(s))
    /\ \A j \in Jobs : SF_vars(\E s \in Slots : StartTask(s, j))
    /\ \A j \in Jobs :
           WF_vars(LeasePasses(j)) /\ WF_vars(BackoffEnds(j)) /\ WF_vars(MarkerExpires(j))

FairSpec == Spec /\ Fairness

-----------------------------------------------------------------------------
(* Properties *)

\* Every value has its type.
TypeOK ==
    /\ job \in [Jobs -> JobType]
    /\ review \in [Jobs -> {"none", "open", "closed"}]
    /\ broker \in [Jobs -> 0..MaxQueued]
    /\ marker \subseteq Jobs
    /\ slot \in [Slots -> SlotType]
    /\ claims \in 0..MaxClaims
    /\ requeues \in 0..MaxRequeues
    /\ crashes \in 0..MaxCrashes
    /\ made \in [Jobs -> Nat]
    /\ runs \in [Jobs -> Nat]
    /\ closed \subseteq Jobs

\* A job gets one proposal, however many workers, tasks and sweeps process it and
\* however late their results come.  A job whose order was closed is "skipped", which the
\* pipeline takes for open: it gets another one.
OneProposal == \A j \in Jobs \ closed : made[j] <= 1

\* The number of LLM runs of a job is capped: each one is paid for by an attempt, also
\* across lost claims, crashes, recoveries and an operator's requeue.
RunsAreCapped == \A j \in Jobs : runs[j] <= job[j].attempts /\ runs[j] <= MaxAttempts

\* A step that leaves the decisions of review, delivery and the filter alone.
KeepsDecisions ==
    \A j \in Jobs :
        /\ job[j].st = "pending_approval" =>
               job'[j].st \in {"pending_approval", "approved", "sent", "skipped"}
        /\ job[j].st = "approved" => job'[j].st \in {"approved", "sent", "skipped"}
        /\ job[j].st \in {"sent", "filtered"} => job'[j].st = job[j].st

\* docs/remediation-plan.md:96: what review, delivery or the filter decided is never
\* overwritten by a run of the pipeline that comes late.
DecidedIsKept == [][KeepsDecisions]_vars

\* Every job that is new or failed is decided or given up, though workers die and
\* claims, messages and markers are lost.  (A requeue gives a job its attempts back; a
\* behaviour that then runs into the bound on claims shows nothing.)
EventuallyHandled ==
    \A j \in Jobs : job[j].st \in {"new", "retryable_error"}
        ~> \/ job[j].st \notin {"new", "retryable_error"}
           \/ requeues > 0 /\ claims = MaxClaims

-----------------------------------------------------------------------------
(* The strengthening that makes OneProposal and RunsAreCapped inductive *)

\* Tokens in use were drawn; two slots never hold the same one.
TokensDrawn ==
    /\ \A j \in Jobs : job[j].tok <= claims
    /\ \A s \in Slots : slot[s].tok <= claims
    /\ \A s \in Slots : slot[s].pc = "start" => slot[s].tok # 0
    /\ \A s, t \in Slots : slot[s].tok = slot[t].tok /\ slot[s].tok # 0 => s = t

\* Every run was paid for, and the holder of the claim still has one to start.
RunsArePaid ==
    /\ \A j \in Jobs : runs[j] <= job[j].attempts
    /\ \A s \in Slots :
           LET j == slot[s].job
           IN  slot[s].pc = "start" /\ job[j].tok = slot[s].tok => runs[j] < job[j].attempts

\* A job with a proposal is with review or delivery, or its order is closed.
ProposalsAreProtected ==
    \A j \in Jobs \ closed : /\ job[j].st # "skipped"
                             /\ made[j] # 0 => job[j].st \in Protected

IInv == /\ TypeOK
        /\ TokensDrawn
        /\ RunsArePaid
        /\ ProposalsAreProtected
        /\ OneProposal

=============================================================================
