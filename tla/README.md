# JobPilot AI: specifications, model checks and proofs

JobPilot finds jobs on freelance sites, has an LLM score them and write a proposal, shows the proposal to a human
in Telegram, and sends it to the site only after a press of APPROVE. It also reads the client's answers on Kwork and
drafts replies, under the same rule. The program is a FastAPI service, Celery workers and a Telegram bot over one
Postgres database; Redis, Qdrant and a few JSON files are caches, indexes and switches. What makes it hard is that
several processes act on the same rows, that calls to the site and to Telegram cannot be undone or always be observed,
and that a process may die between a call and the commit that records it.

## 1. Inventory

Paths are under `src/app/`.

| Component | Code | State | Operations | Hard behaviour | Modelled in |
|---|---|---|---|---|---|
| Job pipeline | `services/job_pipeline.py` | `Job`, `Proposal` | save, persist results, regenerate, supersede | LLM call between a read and the write that depends on it | `JobProcessing`, `ProposalDelivery`, `MemoryIndex` |
| Job processing | `services/job_processing.py`, `job_task_enqueue.py`, `tasks/scrape_tasks.py` | claim columns of `Job`, Redis marker | claim, renew, release, retry, recover | duplicate tasks, leases, killed workers | `JobProcessing` |
| Review cards and approvals | `telegram/bot.py`, `services/approval_snapshot.py` | `TelegramPending`, `ProposalApprovalEvent` | queue, approve, edit and send, skip | presses on old cards, text replaced under a card | `ProposalDelivery` |
| Send attempts and sender | `services/send_attempt_service.py`, `proposal_sender.py`, `send_attempt_reconcile.py` | `SendAttempt` | claim, call the site, finalize, mark unknown, reconcile | concurrent claims, late workers, failed commits | `ProposalDelivery`, `InboxReplies` |
| Operator tools | `services/review_reissue.py`, `scripts/*.py` | the same rows | re-issue, edit existing, regenerate, sync, reset | rewrite statuses under running deliveries | `ProposalDelivery`, `InboxReplies` |
| Notification outbox | `services/notification_outbox.py` | `NotificationOutbox` | enqueue, claim, deliver, recover, requeue | at-least-once delivery, leases, commit failure after a send | `NotificationOutbox` |
| Inbox intake | `services/kwork_inbox.py` | `InboundMessage`, state file | poll, capture, generate a draft, bind, reprocess, requeue | two pollers, the platform's unread mark, model calls under a lease | `InboxIntake` |
| Inbox replies | `telegram/inbox_handlers.py`, `services/inbox_approval.py` | `TelegramInboxPending`, its approvals and attempts | approve, edit dialogue, send, refresh, re-issue | callbacks that run at once, cards replaced meanwhile | `InboxReplies` |
| Kwork browser | `services/kwork_browser.py` | a browser page, `_kwork_send_lock` | log in, open and fill the form, submit, verify, rotate connections | what a failure leaves behind on the site | `OfferSubmission` |
| Kwork pause | `services/kwork_pause.py` | `data/kwork_connects_pause.json` | probe, record, clear | unlocked rewrites by several processes | `ConnectsPause` |
| LLM providers | `llm/provider.py`, `llm/model_catalog.py` | settings, catalogs cached per process | choose a model, call, fall back, try again | a chain of failures that ends in a paid request | `ModelCalls` |
| Vector memory | `services/memory_index_queue.py`, `tasks/embedding_tasks.py` | `raw_data` of `Job`, `MemoryIndexPending`, Qdrant (`memory/qdrant_store.py`) | embed, queue, claim, index, mark for reindex | texts that change while they are embedded, claims | `MemoryIndex` |
| Status tables | `db/status_transitions.py` | none | validate | only two of four tables are consulted | guards of the modules above |
| Outcomes and learning | `services/outcome_service.py`, `agents/learning_agent.py` | `Outcome`, `Reward`, weights | record, reward, learn, activate | order of outcomes | not modelled (section 8) |
| Journal, conflicts | `services/operator_override_journal.py`, `proposal_conflict_resolution.py` | `OperatorOverrideEvent` | append, choose | sequential | not modelled |
| Agents, scrapers, reassessment, context | `agents/`, `scrapers/`, `services/job_freshness.py` | none of their own | score, parse, reject | their result is an input of the models | not modelled |
| API, Telegram presentation, dev agent, ledger, configuration, migrations | `main.py`, `telegram/`, `db/`, `config.py` | | | | not modelled |

The components meet in the database. One transaction usually spans several tables (a proposal, its card and its
outbox row are committed together), and a transaction first locks `Job`, then `Proposal`, then the card or attempt
(section 6 names the places that take another order). Calls to the site, to Telegram and to an LLM happen with no
transaction open.

PROJECT.json lists every part with its status, and the hazards at their lines with the properties about them.

## 2. Modules

### ProposalDelivery: one job from its first card to its offer

`ProposalDelivery.tla` models every transaction that changes the `Job`, `Proposal`, `TelegramPending`, approval and
`SendAttempt` rows of one job. Rows of different jobs never meet in a transaction, so one job is enough.

| Variable | Rows |
|---|---|
| `jobStatus`, `prop` | `Job.status`; status and version of each `Proposal` (the version stands for the text) |
| `card` | `TelegramPending` with the version and the submission action its snapshot recorded |
| `approvals` | `ProposalApprovalEvent`: proposal, version, action |
| `attempts` | `SendAttempt` by idempotency key (proposal, version, action, mode) with its claim token, count, lease, back-off and dry-run receipt |
| `sender`, `regen` | what a worker inside `ProposalSender.send`, or the regeneration script, holds in memory |
| `offers`, `offeredKeys` | observation only: what the site received |

A transaction under the Job and Proposal locks is one step. `send` is not: prepare-and-claim (`Claim`), the call
(`PlatformCall`), `FinalizeSendAttempt` and `HandleSendFailure` are separate steps with anything in between, `Crash`
ends a worker at any of them, `FinalizeCommitFails` is a commit that raises whether or not the server applied it,
and `LeaseElapses` and `BackoffElapses` are the clock.

Abstractions: price, terms and assessment of the job are constant, so a payload is told by version and action; the
edit dialogue is its last press (`EditSend`), whose comparison with the version the dialogue began from is the
card's own; a Kwork pause, a policy rejection or an unauthorised press is an action that is not taken; the two
transactions that take no row lock (the failure handler and superseding) are one step, since each issues one
commit; a live call never reports success, because `_send_to_platform` turns an unverified success into an
ambiguous outcome. A known failure whose error is worded like a timeout is filed as unknown and still handled as a
failure (`RecordOutcome`, then `HandleSendFailure`), as in the code. What happens inside the call is `OfferSubmission`.

### DeliveryPromise: what it should look like from outside

A job is `open`, `delivering`, `rehearsed` (a dry run whose record is still open) or `uncertain`, and an offer can
only be made once, while delivering or uncertain. `KeepsPromise` in `ProposalDelivery` states that the detailed
system implements it under the mapping `Phase`.

### OfferSubmission and ConnectsPause: inside one call to Kwork

`OfferSubmission.tla` opens up what `PlatformCall` takes for granted: one call of `send_kwork_offer`, from the lock to
what `finalize_send_attempt` is told. A call tries the direct connection and then the proxy until it is logged in, opens
the form, fills it, reads it back (`Verify`), presses the button (`Click`) and looks at the page it gets. Reading back
and pressing are two steps with awaits between them: what the press sends is what the page holds by then, and that it
is the approved text is not stated, because the code cannot know it. What the page answers is nondeterministic; every branch of the code that leaves the sequence is an action (`OfferBlocked`, `LimitAtOpening`,
`LessonRequired`, `Mismatch`, `StaysOnForm`, `OfferNotSeen`, `RaisesAndRotates`, ...). The module composes with
`ConnectsPause.tla`, which it EXTENDS: a call obeys the pause and feeds it (`RecordLimit`).

| Variable | Code |
|---|---|
| `call` | the local state of a call: stage, connections left, whether a step that begins with "click on" was noted, the result told |
| `lock` | `_kwork_send_lock` |
| `offer`, `clicks` | what the site holds of a call: no offer, an older one, or the one sent; history of presses |
| `file`, `writer` | the pause file (absent, torn or written) and each process between its look at the page and its write |
| `auto`, `manual`, `connects` | `KWORK_PAUSE_AUTO`, `KWORK_PAUSE_UNTIL`, the balance on the site |
| `exhausted`, `raced` | history that `PauseIsKept` is stated with |

A process writes the file in three steps (`ReadFile`, `Truncate`, `Fill`), because nothing locks it. `EffectIsAmbiguous`
is exactly what `ProposalDelivery` assumes of a call: a failure told as known had no effect. It is the interface between
the two modules; they are not run as one because their product is far larger than the question.

### NotificationOutbox: what Telegram is shown

`NotificationOutbox.tla` models the outbox table and every call of `deliver_notification_outbox`: the claim of a
batch under one token and lease, the check of the claim before each request, the messages of a card one after the
other, the three finalizers (sent, failed, commit failed), the recovery of claims whose lease passed, and the
operator's requeue with and without acknowledgement.

| Variable | Code |
|---|---|
| `row` | `NotificationOutbox`: status, claim token, attempts, back-off, last error, whether a message id is recorded |
| `card`, `notified` | the message id copied to the pending review; the inbound message marked as notified |
| `worker` | the local state of each deliverer: its token, the row in hand, the rows to come, messages accepted so far |
| `claims`, `expired` | tokens are numbered; a token is in `expired` once its lease has passed |
| `shown`, `lastTok`, `licensed` | history: under which claims a message of the row appeared; the latest claim; claims whose repetition an operator acknowledged |

Time is abstract (a lease passes, a back-off ends, at any moment). Rows in the format of before the full text cards
are always refused by the code and left out; an inbox card without a draft is one message; a missing bot token is a
call that is not made. Faults are told apart by what the code reads from their text: `refused` (not delivered),
`timeout` (a marker of ambiguity is found) and `disconnect` (an answer lost with a text that has no marker); the
message may have appeared in the last two.

### JobProcessing: from a scraped job to a proposal

`JobProcessing.tla` models the Celery tasks that run the LLM graph over jobs. A slot (a worker process) takes a
`process_single_job` message (`StartTask`), or runs a sweep (`StartSweep`: `run_all_scrapers` or
`reprocess_pending_jobs`, which recovers stale claims, saves and processes jobs in place and queues the jobs that are
due). Both share the steps claim, graph, persist, record an error, release; the graph runs with no transaction open,
so leases pass, other slots claim and review decides in between.

| Variable | Code |
|---|---|
| `job` | `Job`: status, claim token and whether its lease runs (`live`), attempts, back-off over (`due`), error type |
| `review` | whether the job has a proposal, and whether it still waits for a decision |
| `broker`, `marker` | `process_single_job` messages in Redis; the key `jobpilot:enqueue:process_job:<id>` |
| `slot` | the local state of each worker: step, job, claim token, result, jobs still to queue |
| `made`, `runs`, `closed` | history: proposals created, graph runs since the last operator requeue, orders found closed |

A marker stays when Redis fails to delete it (`Unmark`, `SendRefused`) and then goes by its expiry.

Review and delivery are `Deliver`: an offer is sent, fails, or is refused because the order is closed. What the graph
computes is one of five results. Abstracted: the Kwork pause (a task or job that is passed over), the audit journal in
`raw_data`, tasks of other kinds, and the two-transaction gap in which two scrapers insert one job (the unique key makes
the second insert fail and the sweep pass over the job).

### InboxIntake: what the client writes

`InboxIntake.tla` models one dialog and the pollers of `check_kwork_inbox` (the beat task, the scrape task, a script).
A tick answers the rows left over, fetches the thread, commits every new message before any model call, answers what it
captured, and writes the state file. A draft is generated under a claim with a token and a lease
(`_claim_inbound_generation`), and committed only if the claim, the row and everything the message is matched with are as they
were (`CommitReply`, `ContextChanged`, `ClaimLost`). The resend script reads the same thread, captures the newest message
only and answers it without a state file (`ResendLast`, `ResendDone`).

Whether reading a thread on Kwork clears the dialog's unread mark cannot be told from the code, so `ReadingClears` is a
constant. Where it is `TRUE`, every read of the thread may or may not clear the mark: that of a poller (`Fetch`), of the
generation for a retried row (`ReadThread`), of the resend script, and of a draft refresh, the edit dialogue or the
reconciliation of a reply (`ThreadRead`). Where it is `FALSE`, only a reply does (`mark_read`).

| Variable | Code |
|---|---|
| `kind` | how a message can be recognised: by the platform's id, by the fallback identity (user, time, text), or not, because a time or a text is missing |
| `unread` | the dialog's unread mark on Kwork |
| `file` | the state file: whether it exists and the keys it lists |
| `inbound` | `InboundMessage`: status, attempts, claim, back-off, exhaustion warning, bound job, card |
| `poller` | a poller's tick: step, keys loaded, messages to capture, batch, message in hand, context and pass it read |
| `revision` | changes of what `find_kwork_job_for_message` returns for a message |
| `pass`, `drafted`, `reported` | history of the operator's resets; `reported` are the alerts about messages without identity |

A claim is named by its poller rather than by a token: a poller works on one message at a time, and every reset of a
row drops the claim. Parsing of threads and the text of alerts are left out, as are two equal messages without an id,
which the code reports like one without a key.

### InboxReplies: one reply to the client

`InboxReplies.tla` continues where a card for a message exists: presses, the edit dialogue with its preview, approvals,
the claim and settlement of attempts, the operator's reconciliation, and the tools that replace cards (re-issue, draft
refresh, bind to another order, reprocess).

| Variable | Code |
|---|---|
| `inbound` | the message's row: its card, its order, whether it awaits a draft, and its pass |
| `card` | `TelegramInboxPending` with what is shown on its Telegram message and where its buttons are live |
| `approvals`, `attempts` | approval records and `SendAttempt` by idempotency key (card, text) |
| `handler` | callbacks of the bot between approval, claim, call and settlement |
| `dialog`, `refresh`, `reset` | the FSM state of the chat; a refresh between its two transactions; a reprocess between its unlocked read and its write |
| `reached`, `replies` | history: what the client received |

`OneOpenCard` relates the cards to the row of the message, across passes: an open card is the one `inbound.card` names,
which is what bind and reprocess find, but for the two ways in which the code leaves another one open (section 6).

Transactions that lock what they read are one step. Leases and back-offs have elapsed or not whenever the code looks at
them, which allows more than any clock. A dry run differs only in the word `simulated_sent` and is left out.

### ReplyPromise: what the client of a message is promised

Without cards, drafts, keys, callbacks or leases: each pass of a message is `open`, `delivering`, `uncertain` or
`replied`; at most one delivery is under way, at most one reply arrives, a delivery in doubt is never followed by
another, and what is called replied has arrived for good. `KeepsPromise` in `InboxReplies` states that the detailed
system implements it: `Phase(n)` is the status of the one delivery of pass `n` that is open or done (`Held(n)`), and
`replies[n]` what the client received in that pass.

### ModelCalls: which model is asked and who pays

`ModelCalls.tla` models `llm/provider.py` from an agent's call to its answer: the choice of the service, the check of
the usage limit, the name (automatic or from the settings), the catalogs of free models that the calls of a process
share, their refill by a late answer, the second attempt with an emptied catalog, and the fallbacks of OpenRouter to
Ollama and of Ollama to OpenAI.

| Variable | Code |
|---|---|
| `conf` | the settings that steer fallbacks and names, and where `ollama_base_url` points |
| `cache` | `_openrouter_cache` and `_ollama_cache` with the time of their fetch |
| `call` | one call: the service it entered by and is at, its place in the code, the list in hand, the model asked |
| `now`, `paidAt` | the clock in ticks, and when a model stops being free |

Requests take any number of ticks. OpenRouter reads the clock before its request and counts an entry's age from there,
which is why `RouterChoiceIsRecent` can be stated without a word about timeouts. Ollama counts from after its second
request, and a choice then takes a listing and one request per installed model, each with its own timeout
(`llm/model_catalog.py:336`, `369`), so the age of its choice is not bounded by the cache time and no bound is stated.
Rotation of proxies is part of one request. Prices are read as free or not free; the four settings that name a model are
told apart (`Names`), the names they hold are not.

### MemoryIndex: what the vector memory holds

`MemoryIndex.tla` models the two ways into Qdrant that survive its failure. A job's embedding: the row is saved as
pending, its saver embeds it, another scrape changes the text, the task `reindex_pending_embeddings` embeds what is
pending, and a writer compares the text it stored with the row's before it clears the flag. The queue
`memory_index_pending`: producers queue what the index refused, a batch is claimed under one token, written and removed,
a row whose payload was replaced meanwhile is kept.

| Variable | Code |
|---|---|
| `job` | text, `embedding_pending` and the index signature in `raw_data`, whether it is a Kwork job |
| `point` | which text the collection of the current model holds |
| `saver`, `copy` | the call that saved the job and embeds it; a call that will write `raw_data` back whole |
| `row`, `deferred` | the queue's rows by dedupe key; payloads refused and about to be queued |
| `worker` | overlapping runs of the task: place, jobs read, claims held |
| `unmarked` | history: jobs whose last write to the index nobody will compare with the row |

A text is a number (its length). What the index holds of queue payloads is left out: no property here is about it; jobs
of before signatures existed are left out; a batch has one token.

### MC modules and proof modules

`MCProposalDelivery`, `MCJobProcessing`, `MCInboxReplies`, `MCModelCalls` add symmetry sets and `MCMemoryIndex` the
payloads and keys of its instance; the other modules are checked as they are. Eight modules named `...Proofs` hold the
theorems of the module they extend: `ProposalDeliveryProofs` (with the refinement of `DeliveryPromise`),
`OfferSubmissionProofs` (with what it takes from `ConnectsPause`), `NotificationOutboxProofs`, `JobProcessingProofs`,
`InboxIntakeProofs`, `InboxRepliesProofs` (with the refinement of `ReplyPromise`), `ModelCallsProofs` and
`MemoryIndexProofs`.

## 3. Plan: done and left

The order was: the delivery of offers (`ProposalDelivery`, `DeliveryPromise`), what Telegram shows
(`NotificationOutbox`), the processing of jobs (`JobProcessing`), the inbox (`InboxIntake`, `InboxReplies`,
`ReplyPromise`), the call to the site (`OfferSubmission` with `ConnectsPause`), the choice of models (`ModelCalls`),
the vector memory (`MemoryIndex`). All are written, run, and have their safety properties proved.

Left:

- abstract specifications of the outbox (each card appears once, or an operator is asked) and of the processing of a
  job (given up, or decided once), with proofs that the modules implement them;
- that `OfferSubmission` implements the answer `PlatformCall` of `ProposalDelivery` takes for granted: today the
  interface is the invariant `EffectIsAmbiguous`;
- the order of row locks inside the transactions of `ProposalDelivery` (section 6).

## 4. Runs

A run that passes visits every reachable state of its instance. `CHECK_DEADLOCK FALSE` stands where an instance ends
when its bounds are used up (`delivery_*`, `late_failure`, `outbox_delivery`, `processing_claims`, `inbox_replies`,
`offer_submission`, `model_calls`); the other runs check deadlock. States are distinct states; symmetry is used in
runs of safety properties only.

| Run | Instance | States | Question |
|---|---|---|---|
| `delivery_mixed` | 1 proposal, 2 versions, 3 cards, a live and a dry-run worker, re-issue and regeneration | 388,376 | the inductive invariant; one actionable card; text in flight is kept; what "simulated" means; `DeliveryPromise` is implemented |
| `delivery_tools` | 2 proposals, 2 versions, 2 cards, one worker, every operator tool | 361,279 | at most one offer and one blocking attempt, and only what was approved, whatever tools run in between |
| `late_failure` | 1 proposal, 1 version, 2 cards, 2 workers, re-issue | violation | does a re-issued card always wait for its own approval? (section 6, 1) |
| `outbox_delivery` | a card and an alert, 2 deliverers, batches of 2, 2 claims, every fault, a crash, a requeue | 608,236 | cards are shown once, records are true, evidence is final; the inductive invariant |
| `outbox_settles` | the same rows, batches of 1, 4 claims, a crash, beat alone is fair | 319,032 | every row is sent or reaches the operator |
| `processing_claims` | 1 job, 2 slots, 2 attempts, 2 claims, a requeue, a crash, fair slots | 248,972 | one proposal, capped LLM runs, decisions kept; every job is decided or given up |
| `inbox_intake` | 1 message, 2 pollers, the resend script in place of one, reads that may clear the mark, 2 attempts, a pass, a revision, a crash, fair pollers | 597,842 | cards are of their pass, runs are counted, what is read is kept; every message is decided |
| `inbox_unread` | 2 messages, 1 poller, which may be the resend script, reads that clear nothing, no crash | violation | is every message captured? (section 6, 2) |
| `inbox_replies` | 2 callbacks, 2 cards, 2 texts, a reprocess, 2 attempts, every tool | 972,871 | one reply per pass; drafts kept; one open card, the message's own; sent is confirmed; only approved text; `ReplyPromise` is implemented |
| `offer_submission` | 1 call, 2 connections, 1 prober, 1 connect, a replenishment, a crash | 59,258 | known failures had no effect, one press; the recorded pause stands and ends |
| `model_calls` | 2 calls, 1 model, cache time 2, 2 ticks | 5,387,904 | no payment the settings did not choose; an automatic choice of OpenRouter's was free within the cache time |
| `memory_index` | 1 job, 2 texts, a phrase and two edits with one key, 2 runs, batches of 2, 3 events | 515,771 | embeddings are current but for named ways; no payload is removed unwritten; both queues drain |

Why the bounds are enough to be interesting. Two versions, two texts and two attempts make every comparison of keys
fail in some state, and one retry after a failure reaches every branch of the counters. Three cards allow a re-issue of
a re-issue. Two deliverers, slots, pollers, callbacks or runs are a race, and a third would wait as the second does.
Two connections are one rotation. Rows of different jobs, messages and dialogs share nothing but the order of a batch,
which the outbox has two rows for. The clock of
`model_calls` reaches the cache time, so an entry can expire and an answer can arrive when it is already too old. The one
message of `inbox_intake` can be read, committed and read again, but no second message can be lost behind it: two
messages with liveness are out of reach, `inbox_unread` has two, and `ReadKept` (section 7) is for any number. The two
exceptions of `OneOpenCard` need a third card and are not reached in `inbox_replies`; its proof is for any number. One
job and a batch above everything queued mean that `memory_index` says nothing about rows that starve others. The liveness runs bound what makes trouble
(crashes, claims, events) and not what repairs it. The proofs of section 7 remove every bound for the safety properties.

## 5. Fairness

None for deliveries, replies and model calls: presses drive them.

- Outbox: beat goes on calling `deliver_notification_outbox`, and its calls do not hang for ever (`WF` of
  `Deliver(Beat)`); leases pass and back-offs end. Other deliverers may hang.
- Processing: a task that runs comes to its end, because LLM, HTTP and database calls have timeouts (`WF`); beat goes on
  starting sweeps, and the broker is a queue, so a sweep or a message is taken sooner or later by a slot that is idle
  again and again, and is not refused for ever (`SF`); leases, back-offs and markers run out. `EventuallyHandled` excepts
  behaviours in which an operator's requeue runs into the bound on claims. Whether Redis deletes a marker is left open.
- Intake: a poller inside a tick goes on, back-offs end, and the lease of a dead poller passes (`WF`). `inbox_unread`
  adds that ticks start and fetches succeed again and again (`SF`), and the message is still lost.
- Pause: the pause task sees an available balance if it looks at one again and again (`SF`), who has looked writes
  (`WF`), and the date in `KWORK_PAUSE_UNTIL` passes. `EventuallyResumed` says that the file comes to record "no pause"
  while there are connects: neither a torn file nor a passed manual date counts as the end of a recorded pause.
- Memory: runs of the task go on (`[]<><<WorkerStep(w)>>_vars`), savers, rewriters and producers in their middle go on,
  leases pass. Failures and new texts draw on `MaxEvents`, so they stop; what is shown is that both queues drain then.

## 6. Where the code differs from what it says

With a run whose counterexample shows it:

1. `late_failure`: the handler of a failed delivery (`services/proposal_sender.py:148`) writes `approved` over whatever
   job and proposal have become. If the card was re-issued in between, the old approval matches again and the new card's
   text can be sent while the card waits. `docs/operator-review-reissue.md:20` says a new card needs its own approval.
2. `inbox_unread`: a reply marks the whole dialog as read (`services/kwork_inbox.py:347`), and only unread dialogs are
   opened, so what the client wrote since the last poll is never captured unless the client writes again. If reading
   clears the mark as well, every thread the code reads without capturing it has the same effect: for the draft of a
   retried row, a refresh, an edit, the reconciliation of a reply, and the resend script, which captures the newest
   message only; and a poller that dies after its read loses what it read.

Seen while modelling, with no run of their own:

- *Outbox.* A lost answer whose text has none of the markers of ambiguity puts an alert, or a card without a draft,
  back into the queue, where `docs/inbox-outbox-policy.md:14` says "without blind resend". `NothingIsResentBlindly`
  (section 7) says this is the only way. The transaction that marks a row sent reads the
  inbound message without a lock and can write `notified` over what another has just written.
- *Memory.* `docs/remediation-progress.md:952` says the pending flag goes only if the text is the current one. Two
  writers of different texts can cross: the saver embeds the old text, a run of the task stores the new one, the saver
  stores the old one and sets the flag, and the run, whose text is the row's, clears it. `EmbeddingIsCurrent` names this
  way (`Crosses`) and the other unguarded ones (`unmarked`): a writer that ends between its write and its
  comparison, and a copy of `raw_data` taken without a lock and written back whole. A longer description of a job that is
  not from Kwork does not set the flag at all.
- *Memory queue.* The dedupe key of an edit is cut shorter than the key of its point, so two edits can share a row and
  the first is never indexed; a slow run can overwrite a newer payload in the index; rows that can never be written
  stay at the head of the queue.
- *Delivery.* The card queued for editing an existing offer can be refused as outdated from the start, since queueing it
  rewrites the statuses its snapshot was taken from (`services/review_reissue.py`, `_queue_proposal`). The regeneration
  script supersedes the cards of a job and then announces nothing new. `queue_edit_existing` locks its card before the
  job, where the presses lock the job first.
- *Processing.* The marker of a queued task has no owner, so a task or a sweep may delete another task's
  (`services/job_task_enqueue.py:53`); the second task is harmless because of the claim. A job whose order is closed
  becomes `skipped`, which the pipeline takes for open.
- *Call to the site.* The press on "Предложить услугу" is noted as a press on the button, so a failure before submitting
  is told as ambiguous. The check after an edit cannot tell the old offer from the edited one. A disabled button counts
  as an exhausted balance. The form is read back before the press and not at it, and the visible text is compared by its
  first 80 characters, so a page that changes what was filled in is not noticed.
- *Pause.* With `KWORK_PAUSE_AUTO=false` a recorded pause without a date never ends; a file read while it is being
  rewritten counts as no pause.
- *Replies.* A card that was approved and then bound to another order can be neither sent nor approved again; an edited
  reply whose sending failed has no button; re-issue locks card before message, reprocess and bind the other way round;
  a refreshed draft leaves the message pointing at the old card (`docs/remediation-plan.md:73`), so a later reprocess
  retires the old card and leaves the refreshed one open beside the new pass's card; a card decided before a reprocess
  can be issued anew after it. `OneOpenCard` names both and says there is no third way.
- *Intake.* When the context changes during the last attempt, the message is exhausted with no warning.
- *Models.* Failed proxies are never tried again, and when none is left the request goes out directly. A catalog
  emptied for a second attempt can be refilled by an older answer. The age of an automatic choice of Ollama's has no
  bound in the code (section 2).
- *Learning.* Two outcomes under different event keys that arrive together can both be rewarded for one stage, and a
  status can go back (`docs/remediation-plan.md:128`). `/chat` runs the learning agent as "replied" without
  recording an outcome (`app/main.py:157`, `docs/remediation-plan.md:130`). Two activations of weights at once can exceed
  `learning_max_weight_delta`, or fail on the unique index and lose the learning; so does a crash between the commit of
  an outcome and learning.
- *Tables.* The tables of proposal approvals and of cards in `db/status_transitions.py` are consulted by tests only.

## 7. Proofs

The theorems hold for every value of the constants. They assume only the named `ASSUME`s on constants, which the runs
evaluate: bounds are natural numbers, tools and outcomes are among the known ones, names that stand for "nobody" are
nobody's. Sets such as workers, slots, callbacks, calls, rows and messages need not be finite, but where a module says
so (`IndexAssumption`: the runs of the task and the payloads). Two theorems have a hypothesis of their own, stated with
them. Every safety property of a passing run is stated by a theorem. A module's theorems follow from an inductive
invariant `IInv`; the lemmas go action by action. `ProposalDelivery`, `NotificationOutbox`, `JobProcessing` and
`OfferSubmission` define `IInv` themselves and a run checks it; `MemoryIndex` defines it; in the other modules it stands
with its proof, and was checked on the same instances before.

**Delivery** (`ProposalDeliveryProofs`). `IInv` is `SendInv /\ SimulatedMeansConfirmed /\ CardInv`.

- `AtMostOneOffer` is not inductive: nothing in it keeps two workers from standing before the site with two keys.
  `SendInv` adds that only live keys reach the site and that a dry-run worker never blocks or offers (`ModesAgree`);
  that the attempt of a live worker stays blocking until the worker settles it, even when its lease has passed, so
  there is one such worker, and nothing was offered under its key before the call (`CarriersBlock`); that a key with an
  offer blocks for good (`OffersBlock`); and that the key a worker carries was approved (`CarriersApproved`). A claim
  needs an unblocked job, hence meets no carrier and no earlier offer. From it: `NeverOfferedTwice`,
  `ClaimsAreExclusive`, `NothingUnapprovedIsOffered`, `InFlightTextIsKept`.
- `ShownIsConfirmed` (`SimulatedMeansConfirmed`) rests on `ConfirmedStaysConfirmed`: whatever writes an attempt, be it a
  commit that fails, a lease, the reconciliation or a retry, has found it in another status, so a confirmed dry run
  stays what the status `simulated_sent` refers to.
- `OneCardToDecide` (`OneActionableCard`) rests on `CardInv`: cards exist with their proposals, and one card of a proposal
  stands at a time. A transaction that makes a card has found none standing, or retires the one that is. Its hypothesis
  is that `edit_existing` is not among the tools: queueing an edit of an existing offer leaves the source card open by
  design. The other theorems allow every tool.
- `ImplementsPromise`: under `Phase` the initial states map to initial states and each action to a step of
  `DeliveryPromise` or a stutter; the invariant supplies that an offer is made only while an attempt is open and that
  none was made before.

**The call to the site** (`OfferSubmissionProofs`). `CallInv` says nothing is told before a call returns, nothing is
pressed or taken before the stage of the press, and after it a step that begins with "click on" is noted, which is
what turns any later exception into an ambiguous answer; hence `EffectsAreAmbiguous` and `OneClick`.
`PauseStands` needs `WriterInv`: a writer nobody has overtaken that saw connects has connects ahead of it, one that saw
none is writing a pause, and one that copies "no pause" does so only while the balance is not known to be zero. The
history `raced` excepts writers that were overtaken, because the file has no lock.

**Outbox** (`NotificationOutboxProofs`). That a card is shown once depends on who may still send: every deliverer with a
row ahead of it holds a claim that the row accounts for, as its live claim, as a lease the operator must acknowledge, or
as one already acknowledged, and has shown nothing under it (`AheadIsOpen`); what it knows of the row in hand agrees
with what was shown (`InHand`); whatever was shown and not acknowledged was shown under the latest claim, and rows that
are free to be claimed again have nothing of the kind (`ShownAccounted`). `RowTokens`, `WorkerTokens`, `HandsInOrder`
say that tokens are drawn once, held once and go with the steps; `AttemptsLeft` keeps the counter within its type;
`EvidenceCloses` ties a recorded message id to a closed row. From it: `CardsAreShownOnce`, `RecordsAreTrue`,
`EvidenceStays`, `OperatorAloneRevives`. `NothingIsResentBlindly` adds the hypothesis that lost answers are recognised by
their text (`"disconnect" \notin Faults`): then a failure that showed something is filed as partial or as a timeout, so
a row that is back in the queue with no operator was never shown. Without it the statement is false (section 6), which
is why no run lists it.

**Processing** (`JobProcessingProofs`). A run is paid for when the slot that may start it holds the current claim:
tokens are drawn in order and no two slots hold one (`TokensDrawn`), and the holder of the claim, before its graph
starts, has one attempt more than the runs made (`RunsArePaid`). All steps but the claim, the start of the graph and
the operator's requeue are `Quiet`: rows may lose their claim and slots their token, nobody gains one. For statuses,
every step moves a job in one of six ways (`Moves`), so a job with a proposal stays with review or delivery unless its
order is closed (`ProposalsAreProtected`). From it: `OneProposalPerJob`, `RunsCapped`, and, as an action property,
`DecisionsAreKept`.

**Intake** (`InboxIntakeProofs`). The pollers that may be spending a model call on the present pass of a message are
finitely many and each was counted (`RunInv`), because a claim counts one and a reset, which takes the claim away, begins
a new pass (`HolderInv`); what a poller or the file remembers as seen has its row (`SeenInv`), because a row is committed
before it is remembered. From it: `CardOfThisPass`, `RunsCounted`, `ReadKept`. `ReadKept` is about what a poller has read:
`SeenInv` is what forbids a key of the state file, written by another poller from an older load, to take an uncommitted
message off the list. It promises nothing for a message nobody reads, which is what `inbox_unread` is about.

**Replies** (`InboxRepliesProofs`). A claim needs an approved card with no open delivery, so no other callback has that
card in flight (`OneInFlight`); one card stands for a pass (`OneStands`), because re-issue, refresh and bind replace or
keep the standing card and refuse while a delivery is open; whatever is open or done is of its card's present text
(`KeyInv`). A second reply of a pass would therefore need the same key, which is taken. From it: `OneReply`,
`DraftKept`, `SentIsConfirmed`, `OnlyApprovedIsSent`. `OneCardIsOpen` (`OneOpenCard`) needs more (`FoundInv`): an undecided
card is the one the row names or has followed another, and one that was refreshed bears a new draft (`TrackInv`); drafts
are drawn one after another, so a draft under review is on no card yet (`DraftInv`); a message that awaits its draft has
no card, and a reprocess that found a decided card still finds it decided (`RowInv`).

**Refinement of the replies** (`ImplementsReplyPromise`). At most one delivery of a pass is open or done, and its status is
the phase of the pass (`PhaseIs`, `OneHeld`). No step moves an existing card to another pass (`PassesStay`), and every step
changes one delivery or none, so the other passes keep their phase (`OtherPasses`). Each kind of step is then one action
of `ReplyPromise`: a claim `Start`, an effect on the site `Arrive`, a known failure `Release`, a lost answer or exhausted
attempts `Doubt`, a success or the thread `Confirm`, the rest `Unseen`. That a new delivery finds the pass unanswered
needs `ReachedInv`: whatever reached the client was counted in the pass of its card.

**Models** (`ModelCallsProofs`). `PayInv` follows a call through its services: OpenAI is asked only if the call entered
there or the settings allow the fallback to it, and an explicit name only by a call whose settings named it
(`NoPaymentUnasked`). `CatalogFresh` is about OpenRouter alone and uses no bound on requests: what the shared entry lists
was free when the entry's lifetime began (`CacheInv`), because that is counted from before the request, and the list in
a call's hand became stale at most the cache time before the call looked (`AgeInv`), because an entry is used only while
its lifetime lasts; hence `RouterChoices`, whatever calls clear, refill and overwrite the entry in between.

**Memory** (`MemoryIndexProofs`). `EmbeddingStaysCurrent` needs to know of every writer in its middle that what it stored
is in the index or the job is among the named exceptions (`LandedIsThere`), that a copy of `raw_data` says nothing
better than the row (`CopyIsNoNewer`), and that a run reads one text of a job (`OneTextOfAJob`). `RemovedIsIndexed`
needs that a claim a row still accounts for is of the payload it holds (`ClaimIsOfTheRow`).

## 8. What is only model-checked, and what is not modelled

Only checked: the liveness properties `EventuallySettled`, `EventuallyHandled`, `EventuallyDecided`, `EventuallyResumed`
and `EventuallyIndexed`, because the prover has no rule for fairness and `ENABLED`; and the two properties that fail.
Nothing recursive is used in the models, so no property rests on induction over data.

Not modelled, and why:

- outcomes, rewards, learning weights: what they promise (one reward per stage, a status that never goes back, learning
  after each outcome) holds in the code only while calls on one proposal do not overlap, and nothing enforces that
  (section 6); what learning writes to the memory is in `MemoryIndex`;
- the operator journal and the choice between two proposals: an append and a pure function, sequential;
- environment of the models: agents (the results of a run), scrapers (which jobs appear), reassessment and freshness (a
  rejected action is not taken), Telegram presentation and access checks, conversation summaries (a context that
  changes, in `InboxIntake`);
- no state the properties are about: the ledger of LLM costs, the developer bridge, health, metrics and the rate limit,
  configuration and migrations;
- inside the modelled components: the order in which a transaction takes its row locks; rewrites of the JSON column
  `raw_data` other than those of `MemoryIndex`; the dry run of a reply; a closed browser and a page that hangs longer
  than its timeout, which are exceptions at the step where they happen.
