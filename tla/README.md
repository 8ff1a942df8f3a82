# A TLA+ model of the bureau CRM

The repository is the CRM of an architecture bureau: an operator talks to a
Telegram bot, the bot runs *use cases* against Postgres, and a worker runs the
slow or delayed ones from a job queue kept in the same database.  This
directory holds TLA+ modules that model it, TLC configurations that check them
on small instances, and proofs that TLAPS checks for every instance.

Paths below are relative to the repository's root; `crm/` stands for `src/crm/`.

## 1. The system

| component | code | state it keeps | operations |
|---|---|---|---|
| job queue table | `crm/db/models/scheduled_job.py`, `crm/db/repositories/scheduled_jobs.py`, `crm/scheduler/jobs.py` | one row per idempotency key: status, attempts, run_at, locked_at, locked_by | enqueue, pick, mark running / done / failed, reschedule, reclaim |
| worker | `crm/scheduler/runner.py`, `crm/entrypoints/worker.py` | the batch it picked, `attempts` of each job in memory, the shutdown event | poll loop: reclaim, pick at most 10, run them one by one, finalize each, alert |
| handler registry | `crm/scheduler/handlers.py` | job type -> function, filled at start | register, look up |
| lead intake | `crm/use_cases/intake_lead.py` | leads, events | insert (TX 1), AI extraction outside, update (TX 2) |
| qualification | `crm/use_cases/qualify_lead.py` | leads, clients, events | one transaction: client if there is a name, status qualified |
| proposal generation | `crm/use_cases/generate_proposal.py` | proposals, events | draft (TX 1), AI outside, text (TX 2) |
| publication | `crm/use_cases/publish_proposal_to_gdoc.py` | jobs, documents, events | click: enqueue; job handler: read, create the doc outside, insert the Document, notify |
| sending | `crm/use_cases/mark_proposal_sent.py` | proposals, leads, follow-ups, jobs, events | one transaction: proposal sent, follow-up and its job in 3 days |
| reminder | `crm/use_cases/send_follow_up.py` | follow-ups, events | job handler: read, send outside, mark sent |
| result | `crm/use_cases/record_follow_up_result.py` | follow-ups, proposals, leads, events | one transaction: notes, proposal and lead accepted / declined |
| bot | `crm/entrypoints/bot.py` | none; buttons carry ids | poll, one handler per message or button, each update in a task of its own; ask who it is, call the use case, reply with the next button |
| adapters | `crm/adapters/` | none | AI, Google Docs, Telegram: answer or raise |
| unit of work | `crm/db/unit_of_work.py`, `crm/db/session.py`, `crm/db/repositories/base.py` | a session: a connection of the process's pool, row locks | enter, query, flush, commit, roll back, close |
| API, configuration, container, migrations | `crm/entrypoints/api.py`, `crm/config.py`, `crm/container.py`, `migrations/` | none after start | health checks, wiring, schema |

The bot and the worker share nothing but the database; the worker reaches the
operator, and the operator the bot, through Telegram messages whose buttons
name a row.  So what is hard is what two transactions, or a transaction and an
external call, do to each other:

* **No lock and no version column.**  Every use case reads rows, decides, and
  updates `WHERE id = ...` at commit, in READ COMMITTED.  The one row lock
  the code asks for is the worker's `FOR UPDATE SKIP LOCKED`.
* **External calls between two transactions.**  A crash, a retry or a second
  worker can come between the call and the commit that records it.
* **At-least-once delivery.**  Leases expire (also under live workers), ticks
  fail, workers crash; a handler must be safe to run again, and beside itself.
* **Buttons are never removed.**  Any click can come again, late, twice at once.
* **Telegram delivers an update until the bot asks for the next ones**, so a bot
  that dies loses some updates and gets others twice.
* **One pool of connections per process**, and three use cases that lock the same
  rows in one transaction each.

What makes each part correct, in short: a job is held once per attempt, settles,
and is not touched again once it has; a handler's effect is recorded before its
job is done; statuses of a lead, its proposals and their follow-ups agree, only
move forward, and are never ahead of the document or the message they stand for;
a message makes one lead for each time the bot takes it on, and a lead keeps a
button; every task ends and gives
back what it holds.

## 2. Modules

| module | what it is |
|---|---|
| `JobQueue` | the table `scheduled_jobs` and the worker processes, transaction by transaction |
| `Delivery` | what the queue promises, without attempts, run_at, leases' clocks and the loop |
| `JobQueueRefines` | the refinement mapping from `JobQueue` to `Delivery` |
| `Publication` | the publish click and the publish handler, on top of `Delivery` |
| `Reminders` | the follow-up handler, on top of `Delivery` |
| `LeadWorkflow` | the use cases of one lead, as overlapping tasks of the bot |
| `Lifecycle` | what the use cases promise of a lead's rows, each as one step |
| `LeadWorkflowRefines` | the refinement mapping from `LeadWorkflow` to `Lifecycle`, and its proviso |
| `Bureau` | `LeadWorkflow`, `Publication` and `Reminders` composed: the bot and the workers on one lead |
| `Bot` | the conversation: Telegram's updates, polling, a task per update, refusals, replies and their buttons |
| `Sessions` | what every transaction of the system does to connections and row locks |
| `MCJobQueue`, `MCPublication`, `MCReminders`, `MCLeadWorkflow`, `MCBureau`, `MCBot`, `MCSessions` | instances for TLC |
| `JobQueueProofs`, `DeliveryProofs`, `PublicationProofs`, `RemindersProofs`, `LeadWorkflowProofs`, `BureauProofs`, `BotProofs`, `SessionsProofs` | theorems |

The composition goes through `Delivery`: `Publication` and `Reminders` EXTEND it,
so their steps contain its actions (`Pick`, `Settle`, `Drop`, ...), and
`JobQueue` is proved to implement it.  A handler is thereby checked against
everything the real queue can do to it, and not against the queue's 400 000
states.  `LeadWorkflow` has one action for each of the two handlers
(`LinkArrives`, `Remind`); their insides are in the two modules, and `Bureau`
puts the three together.  `Bot` and `Sessions` look at the same use cases from
two other sides: what the operator can still do, and what a transaction holds.

### 2.1 JobQueue

A row is identified by its idempotency key (unique index), so a job is a member
of `Jobs`.  An action that writes the table is one committed transaction.

| variable | code |
|---|---|
| `status`, `attempts`, `lockedBy` | the columns |
| `due`, `earlier` | run_at: which rows satisfy `run_at <= now()`, and their order |
| `expired` | the running rows with `locked_at` older than LEASE_TIMEOUT (5 min) |
| `pc`, `batch`, `stopping` | a worker: where it is in `run_worker`, `picked` from the current job on with `attempts` as the session has it, the shutdown event |
| `faults`, `stops`, `overruns`, `alerted` | three bounds in use, and a history of alerts |

| action | code |
|---|---|
| `Enqueue` | `enqueue_job` |
| `BecomeDue`, `LeaseExpires`, `LeaseOverruns` | the clock; the last one is a lease that runs out while its worker is alive and busy |
| `Wake`, `Stop`, `EndBatch` | the loop of `run_worker`; the event is looked at only between batches |
| `Reclaim` | `_reclaim`, `reclaim_stuck` |
| `Select`, `Claim` | `_pick_due_jobs` in two steps, with the row locks held between them |
| `HandlerReturns`, `HandlerRaises`, `NoHandler` | `_run_one` up to the handler's end |
| `MarkDone`, `Reschedule`, `MarkFailedTerminal`, `SendOperatorAlert` | the finalizing transactions and the alert after one of them |
| `TickError`, `Crash`, `Signal`, `Start` | a failing transaction of a tick, the process's death, SIGTERM, the container's restart |

`Select` and `Claim` are the one transaction that is split: its row locks are
`LockedRows`, and `OneTakePerAttempt` is about what they are worth.  The
finalizing UPDATEs (`Finalize`) say `WHERE id = ...` and nothing else, as the
code does.

### 2.2 Delivery and the mapping

`Delivery` keeps `state` (absent, open, done, failed), `takes` (which worker has
which job and has not finalized it) and `late` (the jobs whose lease has run out
under a live worker).  A job may be picked by a second worker only if it is late;
a worker finalizes what it has, whatever has become of the row.

`JobQueueRefines` maps pending and running to open, the committed batches to
`takes` (without the head whose failure is committed and whose alert is being
sent), and `overruns[j] > 0` to `late`.  So `Enqueue` is `Insert`, `Claim` is
`Pick`, the finalizing actions are `Succeed`, `Retry` and `Fail`, `TickError` and
`Crash` are `Drop`, `LeaseOverruns` is `Outlive`, and all else is a stutter.

### 2.3 Publication and Reminders

A job stands for a proposal (`publish_proposal_to_gdoc:{id}`) or a follow-up
(`send_follow_up:{id}`) and for its row.  `phase` is where each worker is in the
handler; a step is one transaction or one external call.  `documents`, `links`,
`followUp` and `reminders` are the effects.  In `Publication` a click is two
steps (`LookUp`, then insert or collide), as `enqueue_job` is a SELECT and an
INSERT.  Which exception retries and which fails the job is the queue's business,
so `Finalize` allows both after a raise.

`SenderTakesButtons` says whether `telegram_sender.send_message` has the
parameter `reply_markup`.  The plans intend a sender that has it and the tests
use mocks that do; the one `container.py:87` builds does not, and every message
with buttons then raises a TypeError.  The passing runs set it to TRUE, because
they are about the handlers; `reminders_sender` sets it to FALSE.  The operators'
list is taken to be non-empty: with an empty one no click reaches a use case.

### 2.4 LeadWorkflow

The bot runs the handler of each update in a task of its own, so `task` has a
record per task: where it is, and what it has read.  The rows are `lead`,
`clients`, `linked`, `proposal`, `written`, `about` and `reminded`; `buttons` are
the messages the operator can click, for ever.  A use case is a read (its guard
is evaluated there) and a commit.  `WriteLead` and `WriteProposal` write a column
only when the value differs from the one read, which is what the session does.
`raced` is a history variable: some commit was based on a row that had changed
since.  It is what the `...UnlessRaced` properties mean by a race: one flag for the
whole run, so that a single stale commit excuses all that comes after it.

Of an event the model keeps whether it repeats the status its proposal already has
(`repeated`), and nothing of the log's order.  `record_event` flushes the event,
which gives it its id and its time, before the UPDATE of the proposal waits for
the row's lock: of two overlapping commits the later one may have the earlier
event, so what the log lists last need not be the status.  Nothing in the code
reads the log to decide, and no document promises more.

`Lifecycle` has no tasks, readings or messages: a use case is one step (two around
an AI call) whose guard is asked of the rows themselves, and each proposal has one
follow-up with a status.  `LeadWorkflowRefines` maps the follow-ups to that status.
`AtomicUnlessRaced` says that `LeadWorkflow` implements it up to the first commit
that was based on a stale read: where a use case decides on what it read some
steps ago, no step in between has made the decision wrong.  It is what `Bot`
assumes when it takes a transaction as one step.

Intake, qualification, generation, sending and the answer are all here; a task
may die at any step (`LoseTask`), and a message with a button may be lost.

### 2.5 Bureau

`Bureau` INSTANCEs the three modules over one set of variables and joins the
steps they share: `CommitSent` is `LeadWorkflow!CommitSent` together with
`Reminders!Schedule`, since `mark_proposal_sent` inserts the follow-up and its job
in one transaction; `SendLink` is the link of `Publication` and the `mark_sent`
button of `LeadWorkflow`; `MarkReminded` is the commit after which an answer is
accepted (`reminded` of `LeadWorkflow` is defined from `followUp`); a click
publishes only a proposal whose text is `written`; and `PickJobs` fills one batch
with jobs of both types.  Everything else of a part is a step of it that leaves
the other two alone.

### 2.6 Bot

An update is a member of `Updates`; `queue` is what Telegram has not been told to
forget, `fetched` how much of it has been handed to handlers, `step` where each
handler is.  `Poll` is one getUpdates: it confirms what was fetched before and
starts a task for each new update, whether the old ones are over or not, so a
confirmed update can die with the bot and an unconfirmed one comes again after
`Crash`.  A transaction is one step here (what overlapping ones do to each other
is `LeadWorkflow`'s); two are split where the hazard is: `LookUpJob` and
`InsertJob` of a publish click, and the two transactions around each AI call.
`Owed(u)` is the button the reply of `u` still has to bring; it goes to `due` when
that message is lost.

Each of the six handlers that change rows has a definition of its own (`OnText`,
`OnConfirm`, `OnPropose`, `OnPublish`, `OnMarkSent`, `OnOutcome`), which begins with
its own look at the allowlist, as in the code, and goes on with its transactions.
Any of these may fail (`TransactionFails`): a statement, a commit, or an answer of
the AI that the table cannot hold, written outside the `try`.  The exception leaves
the handler, and the update is confirmed as if it had been served; a request whose
first transaction ended so, or died with the bot, is in `lost`.  `crashes` counts
how often the bot died.

`/start` and the edit stub change nothing and are left out; ids in buttons are
those of existing rows, so the refusals for a missing row and for a broken
callback do not occur.

### 2.7 Sessions

Each use case, the health probe and the worker's transactions are a *script*: the
order of their statements, commits, ends of blocks and external calls.  A task
runs one; `CheckOut` takes a connection from the pool of its process at a block's
first statement, `DoLock` waits for the row, `DoCommit` and `DoLeave`
(`__aexit__`) give all back.  `Raise` fails a statement, a commit or the wait for a
connection; `DoQuery` may also end the use case (a guard, a missing row, an early
return); `Caught` says which exceptions `_run_one` catches.

Taken from outside the code: `AsyncRepository.add` flushes all changed objects,
and SQLAlchemy writes them class by class in the order of the class names, as no
relationship orders them; a `with_for_update(skip_locked=True)` skips and every
other write waits; the unique index makes a second INSERT of a key wait for the
first transaction; a lost connection or a dead process rolls back; an UPDATE of
several rows, as in `reclaim_stuck`, meets them in the same order each time.  All
tasks work on the same rows, which is the worst case.

## 3. What is checked

| run | states | what it shows |
|---|---|---|
| `queue` | 400 997 | type correctness, one take per attempt number, one taker unless a lease was overrun, the budget of attempts, no early failure, a running row is held by its owner, terminal rows stay terminal, `ImplementsDelivery`, and `EveryJobSettles`: after any crash, every enqueued job ends up done or failed and stays so |
| `publication_handler` | 58 598 | done means there is a Document; one Document unless the lease was overrun; without a fault the link follows |
| `publication_notified` | violation | a retry finds a Document and returns silently, the link was never sent |
| `reminders_handler` | 12 423 | done means marked as sent, which means a message went out; extra messages are paid for by faults |
| `reminders_once` | violation | a worker lost between the message and its commit: the retry sends the message again |
| `reminders_sender` | violation | with the sender that is wired no reminder ever arrives |
| `workflow_races` | 87 701 | what stays true of lead, proposals and follow-ups, under races and without them; overlapping use cases implement `Lifecycle` |
| `workflow_double_click` | violation | two follow-ups by two overlapping clicks |
| `bureau_together` | 257 584 | no status is ahead of the document, the link or the reminder it stands for; every follow-up becomes answerable or its job has failed |
| `bot_buttons` | 693 132 | a message makes at most one lead more than the bot died times; a lead gets stuck only by the loss of one of two messages or of a reminder |
| `bot_serves` | 420 910 | a message makes a lead unless its own transaction failed or died with the bot; overlapping publish clicks come to a job that is done or has failed |
| `sessions` | 305 486 | no circular wait for locks and connections, nothing held during an external call or at the end, every task ends |

Each property of a passing run has a mutant: an operator next to the definition
it replaces, marked "Mutant" in the module, that breaks the property under the
run's own bounds.

### Bounds

*Two workers and two jobs* in the queue: every hazard of section 1 is about two
workers and one job, or about one job behind another in a batch.  One job is
delayed and of an unknown type, so all paths of `_run_one` are taken; with both
jobs of a known type the safety properties were checked once without an error
(1 867 636 states, up to symmetry).  `Limit` is 2 instead of 10, so that a batch
can be longer than one job and be full.  `MaxAttempts` is 2: one retry and the last
try.  `MaxFaults`, `MaxStops` and `MaxOverruns` bound crashes and failed ticks, SIGTERMs, and the leases
of each job that are overrun: the lease of the job with a handler may be, and the
other job shows what an overrun does not excuse.  With an overrun of both the run
takes TLC three times as long, and was done once without an error (1 158 203
states).  One of each is enough for every mutant, since a property with a
bound in it (`AttemptsBudget`) counts them.

*Two workers, two proposals or follow-ups, two clicks and two faults* for the
handlers: two faults let a retry be hit again, and a second job lets a worker
hold one job while it runs the other.

*Two tasks, two proposals and two follow-ups* in `LeadWorkflow`: three tasks at a
time were run once without an error (2 302 820 states).  `Proposals` and
`FollowUps` bound how many rows are ever inserted; the second of each is needed
for `LeadFollowsUnlessRaced` and `OneFollowUp`.

*One task, two workers, one proposal, one follow-up and a fault of either type* in
`Bureau`: the races inside each part are the parts' own runs; here two workers
race on one job while the bot moves the lead.  Two proposals and two follow-ups
with one worker (76 818 states), and two clicks and two proposals (903 506), were
run without an error.

*Two updates and one message* in `Bot`: two updates are the overlap of two clicks,
and a click that races a message.  In `bot_buttons` there are three leads, the
message's, the one its redelivery makes and one too many, and two proposals.
`MaxLosses` is one, and is spent on a crash, a lost message, a failed transaction
or a failed job: what is asked is which one loss a lead survives, and
`OneLeadPerMessage` counts.  In `bot_serves` one update may be a stranger's, so each
handler refuses and serves.  A second message, or a third update, with a loss takes
TLC too long; what two messages do to each other is only to wait in the queue,
which a stranger's message does as well.  `Room` keeps a row free for each update in
flight and for what may be delivered again, so that no handler waits for a row the
model lacks.

*Three tasks and two connections* in `sessions`, in all 156 mixes: three tasks are
the shortest cycle through two locks and the pool, and more tasks than connections.
The theorems of section 4 have no such bound.

Symmetry is used in the safety runs of the handlers, the workflow and the bot only,
whose properties name no worker, task or update; the queue's run has liveness
properties and no symmetry.  `CHECK_DEADLOCK FALSE` is set where the system may stop
because it has nothing left to do: a handler's jobs are all settled, or a lead's pools are used
up, or every task has ended.  The queue's run checks for deadlock.

### Fairness

`FairSpec` assumes weak fairness of each worker's next step and of its start, of
`run_at` coming and of an orphaned lease expiring.  The first is the event loop,
together with the assumption that a handler returns or raises; the second is
`restart: unless-stopped` of the worker's service in `docker-compose.yml`; the
rest is the clock.  Nothing is assumed about enqueueing, faults, signals or
overruns: they may stop happening or never happen.  Which of two outcomes a
handler has is not fair either; `EveryJobSettles` holds because attempts run out.  A
worker's step and its start are one condition, as never both are possible, and so
are `run_at` and the lease of one job.

`Bureau` assumes weak fairness of a worker's next handler step and strong fairness
of a due reminder's being picked: the due rows are taken in the order of run_at,
so a publish job that is tried for ever does not keep a reminder waiting, although
it makes any one pick of it possible and impossible again.  Nothing is assumed
about the operator or the bot.  `Bot` assumes that the loop goes on polling, that
each handler that can take a step takes one, and that the worker does its part;
nothing about writing or clicking.  `Sessions` assumes that each task's next step
is taken when it stays possible, including the end of a call; that a lock is
granted in turn is not needed, since every holder ends.

## 4. What is proved

TLAPS proves these for every value of the constants that meets the modules'
ASSUMEs: any number of workers, jobs, tasks, proposals and faults.

| module | theorems |
|---|---|
| `JobQueueProofs` | `TypeCorrect`, `OneTakePerAttemptHolds`, `SingleTake`, `TerminalFinal`, `FailedOnlyWhenExhaustedHolds`, `AttemptsStayInBudget`, `RunningIsHeld`, `Refinement`: `Spec => ImplementsDelivery` |
| `DeliveryProofs` | `DeliveryIsExclusive`, and one lemma per action, cited by the handlers' proofs |
| `PublicationProofs` | `TypeCorrect`, `DoneHasDocument`, `SingleDocument`, `SingleLink`, `LinkFollows` |
| `RemindersProofs` | `TypeCorrect`, `DoneHasSent`, `SentHasReminder`, `ExtraReminderHasFault`, `FailedHasFault` |
| `LeadWorkflowProofs` | `TypeCorrect`, `AnswersFollowReminders`, `QualifiedStays`, `LeadFollows`, `NoRepeat`, `OneFollowUpEach`, `OneClient`, `SentStays`, `Atomicity`: `Spec => AtomicUnlessRaced` |
| `BureauProofs` | `TypeCorrect`, `PartsImplemented`, `SentHasDocument`, `AnswerHasReminder`, `LeadIsDocumented` |
| `BotProofs` | `TypeCorrect`, `OneLeadEach`, `StuckByLoss` |
| `SessionsProofs` | `TypeCorrect`, `NothingHeldOutside`, `DeadlockFree` |

`LinkFollows` and `FailedHasFault` assume `SenderTakesButtons`.

**The queue.**  `OneTakePerAttempt` is not inductive: a second take under one
number would come from a claim that read `attempts` before another claim raised
it.  `TakeInv` adds what the row locks are worth: the rows of an open pick are
pending and have the attempts it read (`RowsAsRead`), no row is locked twice
(`RowLocks`), and no committed take is numbered above its row (`TakesNumbered`);
that a pick has no row twice comes from the irreflexive order of run_at
(`DueOrder`).  `LeaseInv` is about jobs without an overrun: their takes carry the
row's own attempt number, their rows are running, their leases have not expired
(`TakesCurrent`), and only running rows expire (`ExpiredRunning`).  Two takes of
such a job then have the same number, so they are one take; and a finalize or a
reclaim cannot meet a finished row.  `FailInv` adds that the no-handler path is
taken only for jobs without a handler.

`AttemptsBudget` says nothing of the workers, but its proof must: a finalize with
an old attempt number puts its row back to pending, where the row can be claimed
again.  `BudgetInv` counts the chances of another claim: one for each live take
numbered below max_attempts, whose finalize makes the row claimable (`LiveNumbers`;
`TakesDistinct` gives each number one take), and one if the row is claimable
already.  Without faults and overruns there is one chance below max_attempts and
none from there on; each fault or overrun adds one, which a claim past
max_attempts uses up.  `RunningIsHeldByOwner`
needs the exact shape of a shutdown (the rest of the batch is still run) and of a
stale finalize (the row is not running any more), and that a batch is no longer
than its pick (`ShortBatches`).

**The refinement** needs two facts more (`MapInv`).  A batch has each job once,
or a finalize would leave its worker another take.  And a row that a worker has
failed and is about to report is not running again under the same attempt, or a
lease could run out under a worker that has nothing left to settle.  One lemma
then maps each kind of step (`MapInsert`, `MapOutlive`, `MapPick`, `MapSettle`,
`MapDrop`, `MapStutter`).

**The handlers.**  `ExclusiveUnlessLate` gives a job that is not late one taker.
`DocumentInv` and `LinkInv` say what has been done before each phase and what has
not (`StoredAfterward`, `MissingBefore`, `LinkedAfterward`, `UnsentBefore`), and
`EffectInv` and `CountInv` the same of the reminder; `Accounted` charges every
message that no commit recorded to a fault.

**The workflow.**  Rows change behind a task's back, so the invariant `ReadInv`
says what of a reading stays true: a task that sends read a draft, and the
follow-up that an answering task read stays sent and keeps its proposal.  Hence no
answer goes to a proposal that no reminder was about.  `IntakeInv` says that while the extractor works there is no button, no
text and no follow-up, so nothing else can happen to the lead: this alone keeps
the blind write of `qualifying` from taking a lead back.

The `...UnlessRaced` properties share one argument.  `raced` stays set, and a
commit that leaves it unset was made on rows still as they were read
(`FreshCommit`), so what its task checked then is true now.  `MovedInv` is what
holds in any case (a proposal once moved stays moved, a follow-up is of a moved
one, without the link there is no client) and `UnracedInv` what holds until the
flag is set; `WritingSteps` leaves six commits to look at.

`Atomicity` uses the same invariants to find each guard of `Lifecycle` true at the
commit.  What readings do not give is in `WritingInv`: a task that writes a text
works on a draft that is its own and has none yet (so the second transaction of
generate_proposal needs no check), and a lead that is not qualified has no client.
`OneEach` makes the reminder of a follow-up the proposal's.  The steps are mapped in
`MapLead`, `MapGenerate`, `MapSent`, `MapOutcome` and `MapRemind`.

**The composition.**  `BureauProofs` proves nothing twice: every step of `Bureau`
is a step or a stutter of each part (`PartsImplemented`), so the parts' invariants
hold of the whole.  Reminders comes first, as it needs no other part;
`LeadWorkflow`'s `Remind` is then enabled exactly when the follow-up is marked
(`MarkedFollowUp`); `Publication`'s click needs only that a text belongs to a
proposal.  What is left is `Agree`: a button is a link that came, a follow-up is
one with a job.  `SentOnlyWithDocument` then follows from `ShownInv` (a proposal
was sent by its button) and `Publication`'s `LinkedAfterward`, and `AnsweredOnlyIfReminderCame` from `SentMeansReminded` and
`AnsweredOnlyIfReminded`.

**The conversation.**  `BotInv` places every update (in the queue once, waiting
behind the offset and busy before it) and says what the name it carries is a name
of.  Every step of a handler is then one of two kinds, `Moves` (on to a next step,
or to its end) and the polling loop's, with one lemma each.  `OneLeadPerMessage` counts three things: the
leads of a message, one more while it is still to make one (not written yet, or in
an update whose first transaction has not begun), and the crashes.  `MessageInv`
puts a written message in one update at most; `LeadsInv` says that the first two
together are at most one more than the third.  An insert moves one from the second
to the first, a failed transaction only takes from the second, and a crash, which
may put a handled message back to its start, adds to both sides.  For `StuckOnlyByLoss`,
`WayInv` gives each status of a lead what takes it on: its button is shown, owed
by a handler that has still to reply (`Owed`) or known to be missing (`due`), or
there is a reminder, which comes, came or has failed (`Pending`).

**Sessions.**  All rests on the shape of the scripts (`ScriptsOrderly`): a
statement is followed by another, a commit or the end of its block, and a lock by a
commit or by a lock of a higher rank.  `AllPlaced` is inductive: a task that holds
anything is inside a block, and what it holds ranks below what it asks for.  A
group of tasks that waits for its own members only has one that waits for the
highest lock among them, and whoever holds that one would wait for a higher
(`Climb`); who waits for a connection holds no lock, and the holders of
connections are the group's.

**Only model-checked:** liveness, which is out of the prover's reach:
`EveryJobSettles`, `SentIsReminded`, `MessageMakesLead`, `PublishClickIsServed` and
`EveryTaskEnds`, and the four runs that end in a violation.  Every invariant and every action property of the other runs is a
theorem.  The other way round, `ExclusiveUnlessLate`, `OneLinkUnlessLate`,
`AnsweredOnlyIfReminded`, `FailedOnlyByFault` and `SentForGoodUnlessRaced` (which
`AtomicUnlessRaced` implies) are proved and in no run.

## 5. Where the code and its documents disagree

Four runs end in a violation; PROJECT.json quotes the line each refutes.

1. The silent return on an existing Document does not mean that the operator was
   notified (`publication_notified`).
2. The look at the follow-up's status does not keep a retry from notifying twice
   (`reminders_once`): the status is set in a commit after the message, so a worker
   lost in between, or a commit that fails, sends it again.
3. The sender that the container builds refuses every message with buttons
   (`reminders_sender`).
4. Two overlapping clicks on "sent" both pass the guard (`workflow_double_click`).

More of what the documents say is stated at the end of the modules and does not
hold; to see it, add it to the invariants (properties) of the cfg named.

5. `JobQueue!FailureIsAlerted` (`MCJobQueue_queue.cfg`): a failed job may never be
   reported, as the alert is sent once, after the commit, and its failure is
   swallowed.
6. `Publication!OneDocument` (`MCPublication_handler.cfg`): a publish job run twice
   at once inserts two Documents.
7. `Publication!FoundMeansPending` (the same cfg): a repeated click does not always
   get a pending job.
8. `LeadWorkflow!AcceptedTogether` (`MCLeadWorkflow_races.cfg`): sending a second
   draft takes an accepted lead back.
9. `Bot!FailureIsTold` (`MCBot_buttons.cfg`): the design says that the bot catches
   an exception of a use case and tells the operator
   (`docs/superpowers/specs/2026-05-19-crm-platform-design.md:431`).  The handlers
   catch the use cases' own errors; the IntegrityError of two publish clicks that
   overlap, and any transaction that fails, are told to nobody.

The provisos of the passing properties are cases in which the code does what one
would not wish; where a document promises otherwise, the case is in the list above.
Such a property says that there are no other cases, and does not catch this one.  A job whose handler
outlasts its lease is run by two workers (`SingleTakeUnlessOverrun`), and its
finished row may be overwritten (`TerminalFinalUnlessOverrun`).  A job that kills
its worker is picked again past max_attempts, without bound (`AttemptsBudget`).  A
Document whose worker was lost, or whose message failed, is without its link
(`LinkFollowsUnlessFault`).  Overlapping updates of a lead may record one answer
twice, make two clients, answer a lead differently from its proposal, or take it
back to qualified (`NoRepeatUnlessRaced`, `OneClientUnlessRaced`,
`LeadFollowsUnlessRaced`, `AtomicUnlessRaced`).  A bot that dies may make a second
lead of a message (`OneLeadPerMessage`), a message whose first transaction fails
makes none (`MessageMakesLead`), and a lead whose confirm or propose button was
lost with a message stays where it is (`StuckOnlyByLoss`).

## 6. What is not modelled

* The insides of the adapters (AI, Google Docs, Telegram), the prompts, and the
  parsing of the AI's answers: the models see that a call answers, raises, that its
  answer is lost, or that the table refuses it.
* Configuration, logging, and of the container all but the pool and the sender.
* Migrations; repositories and tables that no use case writes.
* The order of the event log when transactions overlap (2.4).
* In the bot: `/start`, the edit stub, the parsing of callback data and the texts.
* The backoff's length: a rescheduled job comes due again some time later.
* The contents of a lead, a proposal or a document, except whether there are any.
* Deadlocks through indexes and foreign keys that Postgres checks with weaker locks
  than these updates take.

## 7. Plan

Done, in this order: `JobQueue` with its runs; `Delivery` and the refinement;
`Publication` and `Reminders` on `Delivery`; `LeadWorkflow`; their proofs; `Bot`;
`Bureau` and its proofs; `Sessions` and its proofs; the proofs of every safety
property of the runs that was left; `Lifecycle` and its refinement.  Next:

1. **`EveryTaskEnds` by a measure**: `DeadlockFree` is its hard half; what remains
   is that scripts have no loops.
2. **The handlers as one step**: an abstract specification of what a publish job
   and a reminder do to the rows, implemented by `Publication` and `Reminders` for
   jobs that are not late.
