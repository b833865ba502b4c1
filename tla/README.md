# TLA+ models of SENDERSMS

SENDERSMS sends SMS and email campaigns and receives the answers. A FastAPI process serves the operators,
takes the webhooks and runs an inline poller; Celery workers and beat run the same work as tasks; all of
them share one PostgreSQL database and, for the tasks, a Redis broker. This directory models what decides
who is sent what, when and how often: the life of a campaign, the batches that create messages, the worker
that sends them, the sending limits, receipts and polls, sequences with their follow-ups, the ads manager's
jobs, and the services around them. Paths below are relative to `src/backend/app/`.

What makes this code hard is not one algorithm. Every handler and task reads rows, awaits, and writes
back; up to three processes (API, Celery worker, inline poller) do the same periodic work; the ORM
writes only the attributes that changed, with an unconditional `UPDATE ... WHERE id`; the broker may
refuse a task; a worker may die after the provider has taken a message; what was written in one
transaction may be committed or lost as a whole. The models therefore keep each handler's awaits and
commits as separate steps, with what it read carried in the session.

## The system's parts

| Part | State | Operations | Hard behaviour | Correct means |
|---|---|---|---|---|
| Campaign lifecycle: `services/campaign_service.py`, `api/v1/campaigns.py` | `campaigns` row (status, paused_from, scheduled_start_at, total_contacts) | schedule, update, start, pause, resume, stop, delete | reads the row, commits later; a refused broker is undone by hand | statuses move along `TRANSITIONS`; a stopped campaign has nobody left; history is kept |
| Launcher and batch: `tasks/campaign_tasks.py` | `campaign_contacts` rows | launch_due, process_campaign, flush and rollback of the outbox | two launchers, two batches, row locks, skip locked | everybody enrolled once; completed means drained; due is launched |
| Sequences and follow-ups: same file, `services/sequence_service.py`, `api/v1/followups.py` | contact's step, `followups` rows | run a step, due sweep, claim, skip, send now | claim and work are two transactions; five writers share the contact's status | one place in the sequence; steps once and in order; the campaign ends |
| Send pipeline: `tasks/sms_tasks.py` | `messages` row | load, claim, hold check, gate, dispatch, record, retry | the claim accepts `sending`; deaths and lost answers | a message goes out once; counters are honest; every message settles |
| Sending gate: `services/campaign_sending.py` | none (counts `messages`) | check(), room() | each answer is put together from several queries; windows overnight and over weekends | cap and delay hold; nobody is starved; no window goes by unused |
| Receipts and polls: `services/sms_service.py`, `_poll` in `main.py` | message status, counters, contact | process_delivery_status, poll | late, repeated, reordered | nothing goes back; receipts settle the contact with the message |
| Choice of a sender: `services/gateway_service.py`, deliver in `services/email_service.py` | phones, senders | order candidates, try, go on | a provider that fails may have taken the message | handed over once; a thread keeps its sender |
| Brevo events: `services/email_service.py`, `api/v1/webhooks.py` | `email_events`, message, suppression | webhook, periodic question | twice, early, late, never, refused | one delivery counts once; a bounce suppresses |
| SMS ads manager: `services/campaign_jobs.py`, `services/ads_service.py`, `api/v1/ads.py` | campaign, assignments, jobs, follow-up tasks | launch, pause, ..., claim a job, slice, repair, sync | two sessions; limits counted and then claimed row by row; slices fail half way | one job; limits hold; everybody is served |
| Follow-up rules: `services/campaign_followup_service.py` | log rows | sweep, run | one transaction over many sends | once per contact and rule, in order |
| Scheduled messages, meeting reminders: `main.py`, `services/meeting_service.py` | rows, reminder records | pass, cancel, retry, move a meeting | no claim; one commit for the whole pass | each once; none forgotten |
| Execution guard: `mcp/execution_guard.py` | ledger row | lookup, record | lookup and record are apart from the work | one key, one operation |
| AI agent: `services/agent_runtime.py` | confirmation cards | turn, approve, cancel, undo | streams, requests and cuts | a card runs once and is undone once |
| Invoices: `services/invoice_service.py` | invoice, payments | webhook, verify, checkout, by hand, edit, void | the same money by several ways | the sum shown is the money that came |
| Mailbox sync: `services/mailbox_service.py` | cursor, messages | pass | incomplete fetches, overlapping passes | no reply behind the cursor is missed |
| Inbound texts: `services/sms_service.py`, `api/v1/webhooks.py` | event, message, thread, opt-out | webhook | repeated and overlapping deliveries, refused statements | acknowledged is stored; a stop is not answered |
| Campaign of a thread: `services/attribution.py`, `api/v1/inbox.py` | first and last campaign of `conversations` | stamp at a send, mend in the inbox, credit a reply | everybody reads the row without a lock | the first touch stays; a reply counts for the campaign it is filed under |
| Bounce watch and push: `services/bounce_watch.py`, `services/push_service.py` | alerts, browser subscriptions | check after an event, periodic check, subscribe | the check is inside the webhook's transaction | one alert in the cooldown; the bounce is not lost |
| Email verification: `services/verification_jobs.py` | job row, verdicts | run, resume, cancel | contacts are edited during network calls | counts add up; a verdict belongs to its address |
| Imports and lists: `services/csv_service.py`, `api/v1/contacts.py`, `api/v1/lists.py` | contacts, members, cached count | import, edit, look | commits in batches, count at the end | everybody listed, counted once |
| Inline poller: `main.py`, `poll_scheduler.py` | delay, wake-up | one pass over everything above | the same work as beat at the same time; how long to sleep | each thing done by one of the two, and in time |
| Beat: `tasks/celery_app.py` | none | schedule, acks_late | redelivery | fairness |

Every part, modelled or not, is a component of `PROJECT.json` with its status and a note; the hazards are
listed there at the line where they bite, with the properties that would catch them.

## Modules

| Module | Models | Checked by |
|---|---|---|
| `CampaignLifecycle` | one campaign and its contacts: requests, launchers, batches | `MCCampaignLifecycle` |
| `MessageSend` | the messages of one campaign: workers, sweeps, retries, receipts, polls | `MCMessageSend` |
| `OutboundMessage` | what the send pipeline promises: the abstract specification of `MessageSend` | `MCMessageSend` (`KeepsPromise`) |
| `SendingGate` | cap and delay: room() and check(), query by query | `MCSendingGate` |
| `SequenceRun` | one contact's way through a sequence | `MCSequenceRun` |
| `AdsJobs` | an ads campaign, its durable jobs, assignments and their messages | `MCAdsJobs` |
| `AdsFollowUps` | the follow-up tasks of an ads campaign | `MCServices` |
| `FollowUpRules` | the chain of reminder rules of a campaign | `MCServices` |
| `ScheduledMessages` | scheduled SMS and emails | `MCServices` |
| `MeetingReminders` | the reminders of one meeting | `MCServices` |
| `PollPacing` | when the inline poller comes back | `MCServices` |
| `SenderFailover` | who sends one text or one email | `MCServices` |
| `EmailEvents` | what becomes of letters that Brevo has taken | `MCServices` |
| `MailboxSync` | reading the replies out of a mailbox | `MCServices` |
| `InboundTexts` | a contact's texts that come by webhook | `MCServices` |
| `ExecutionGuard` | the idempotency ledger of the MCP tools | `MCServices` |
| `AgentCards` | the agent's turns and its confirmation cards | `MCServices` |
| `InvoicePayments` | the payments of one invoice | `MCServices` |
| `VerificationJobs` | a verification job over its snapshot of contacts | `MCServices` |
| `ContactImports` | the import of a file into a list | `MCServices` |
| `SendingWindow` | the hours of a campaign and a message deferred to them | `MCServices` |
| `BounceWatch` | the checks of a campaign's bounces, their alerts and pushes | `MCServices` |
| `ThreadAttribution` | the campaigns a thread of the inbox is credited to | `MCServices` |
| `CampaignLifecycleProofs`, `MessageSendProofs`, `SendingGateProofs`, `SequenceRunProofs`, `AdsJobsProofs` | theorems about those modules | tlapm |
| `RedeliveryProofs` | theorems about `ExecutionGuard`, `VerificationJobs`, `MailboxSync`, `InboundTexts` and `ThreadAttribution` | tlapm |
| `TimesProofs` | theorems about `MCServices`: `ScheduledMessages`, `MeetingReminders`, `PollPacing`, `SendingWindow`, `FollowUpRules` and `AdsFollowUps` | tlapm |
| `ServicesProofs` | theorems about `MCServices`: the inbox, put together from `RedeliveryProofs`, `AgentCards`, `ContactImports`, `EmailEvents`, `BounceWatch`, `InvoicePayments` and `SenderFailover` | tlapm |

Every definition's source lines are in the `map` of `PROJECT.json`. Definitions whose comment begins with
*Mutant* are variants with a plausible bug; no action uses them. They are substituted for the definition
they vary to see that the property they belong to notices.

### How the parts are put together

The campaign core is four modules over one subject at different magnifications. `CampaignLifecycle` takes
what happens to a message as two steps of its contact (`Sent`, `Settled`); `MessageSend` is what these
stand for, and takes the campaign's status as something that pauses, resumes and stops; `SendingGate` is
the question `MessageSend` asks before it dispatches and a batch asks before it creates; `SequenceRun`
follows one contact through all of them. `OutboundMessage` is the interface: with one worker `MessageSend`
implements it (`KeepsPromise`, `KeepsPromiseHolds`), so what the other modules take a message to do, leave
once or end, is what the pipeline does.

The services share no state with one another except the inbox, so `MCServices` composes them as a choice:
a behaviour is one of a single `part`, and its graph is the sum of theirs, not the product. A property with
a name of several parts is the conjunction of theirs:

| Property | Is |
|---|---|
| `AudienceMatches` | `EmptyBeforeLaunch`, `TotalIsAudience` |
| `QueueIsServed` | `DueIsLaunched`, `PendingIsServed` |
| `KeepsPlace` | `OneThread`, `StepsInOrder` |
| `WithinLimits` | `LimitHolds`, `Paced`, unless two slices have overlapped (`lapped`) |
| `ResultsHold` | `VTypeOK`, `CountsAddUp`, `VerdictMatches` |
| `KeyHonoured` | `GTypeOK`, `WorkOnce`, `LateIsReplay`, `CreatedIsRecorded` |
| `ChainsHold` | of the rules `OncePerContact`, `ChainInOrder`, `ChainEnds`; of the ads `StepOnce`, `OneOpen` |
| `InboxHolds` | `MailAnsweredOnce`, `RepliesOnce`, `UnreadCounts`; of the threads `TouchEarned`, `TouchExact`, `RepliesAgree` |
| `TimesKept` | `EmailOnce`, `SmsOnce`, `RemindedOnce`, `RecordIsOfStart`, `PassesInTime`, `WindowUsed` |
| `CardsHold` | `RunsOnce`, `UndoneOnce`, `OneCardWaits` |
| `InvoiceHolds` | `MoneyCounted`, `PaidIsPaid`, `PaidOnce` |
| `SenderHolds` | `HandedOverOnce`, `SenderStays`, `NobodyLeft`, `TakenIsRecorded` |
| `EventsHold` | `BouncedIsSuppressed`, `DeliveredOnce`; of the bounces `AlertsSpaced`, `ReportsKept` |
| `ImportsHold` | `EveryoneListed`, `CountHolds`, `TallyHolds` |
| `WorkEnds` | `ProgressKept` and the leads-to of every part: `JobEnds`, `DueIsHandled` (unless the contact leaves SENT_STATUSES), `DueTaskEnds`, `ItemSettles`, `TurnEnds`, `WindowIsServed`, `ReplyIsStored`, `LetterSettles`, `TextIsAcked`, that an unused poller comes to rest, and of the last three parts: a message that waits for its window is sent, a campaign that stays over the limit gets its alert, an older thread is mended |

### CampaignLifecycle

State: `row` (the committed campaign), `cc` (a status for each slot contact x inserting session, so that
two enrolments of one contact can both be there, as no unique key forbids it), `lock` (the transaction
that has updated the row and not committed), `ses` (what each session has read, `snap`, and wants,
`want`), `now`, `letters` (the contact rows that have a row in `messages`), and two histories, `reached` (whose
message has gone out) and `undone` (whose message a rollback has deleted).

- A request is `Read`, then its commit. `Flush(current, snap, want)` is the ORM: an attribute is written
  only if `want` differs from `snap`. Lost updates come from there.
- start_campaign: `StartFresh`, `ReadExisting`, `CommitStart`, then `Enqueued` or `QueueUnavailable`,
  which restores the status that was read, whatever has happened since.
- launch_due_campaigns_async: `LaunchSelect`, `LaunchClaim` (the conditional UPDATE, which takes the row
  lock), `ReadExisting`, `CommitLaunch`, or `LaunchFails`, `LaunchSkip`.
- process_campaign_batch_async: `BatchRead`, `BatchPick` (FOR UPDATE SKIP LOCKED; `Locked` is what other
  batches hold), `BatchCommit`, `Flushed` or `FlushRefused` and `FlushRollback`; or `BatchWait` (the gate
  gives no room); or `BatchFinds` and `CommitComplete`.
- `Sent` and `Settled` stand for everything `MessageSend` does to a contact.
- `Crash` ends any session between two steps; its uncommitted work and its locks are gone.

Left out: validation (any subset of the list may turn out eligible), the sequence, the idempotency keys.

### MessageSend

State: `msg`, `cc`, `camp` (status and counters), `queue` (tasks in the broker), `wk` (each worker's
session: what it loaded before the provider call it writes after it), `accepted` (ghost: what the
provider took), `old`, `receipts`, `poll`, `faults`, `apart` (whose status was last written without the contact).

A worker's pass is `TakeTask`, `SweepDue` or `SweepStuck`; then `Claim` (statuses queued, retrying *and*
sending); `Held` or the gate; `Dispatch`, and `Accepted`, `Retries`, `GivesUp`, `Deferred` or `Blocked`
for its outcome; `Crash` at any point. `Receipt` is process_delivery_status with its rank guard, `Event` Brevo's
events about an email (apply_event, by webhook or by the pass that asks for them), and
`PollAsk`/`PollWrite` the status poll around its HTTP call. Left out: Celery's own retry budget, the email
attempt log, deleted contacts, `messages_failed`.

### SendingGate

State: `msg`, `age` (time since a message left, up to `Aged`), `bt` (batches inside room()), `wk`
(workers inside check()). The queries of room() and check() are separate steps, each over the database
of its moment; both fix their "now" at the start, which is what `expired` and `rested` record.
`MayReclaim` is the claim of what another worker is sending (see *Divergences*); it is FALSE in the
passing runs, because with it no limit can hold. Left out: the sending window
(`SendingWindow`), two of the three caps (they differ in their period), the choice of a random delay.

### SequenceRun

State: `camp`, `cc` (status and step of one contact), `fups` and `msgs` (in the order of their ids),
`opted`, `wk`, `skip`. `Steps` is the snapshot; branches lead forward, as validate_sequence_steps
demands. `Executed[i]` is _execute_sequence_step: all the outcomes (status, step, message, follow-up) that running
step i may have; a condition may go either way, a send may fail. Where the code calls itself for the branch of
a condition, `RunWith(i)` is the least set of steps that has i and is closed under branching, so that the
module needs no recursion and can be proved about.

- the batch: `BatchRead`, `BatchCommit` (contact locked), `BatchFinds`, `CommitComplete`;
- a follow-up: `FollowUpDue` or `SendNow`, `Claim` (first session), `Load`, then `CommitStep`,
  `StepRaises` (an exception: only the follow-up's failure and the place it had got to are written) or
  `CommitOther` (second session, contact not locked and written attribute by attribute);
- `Flushed`, or `FlushRefused` and `FlushRollback`;
- `SendMessage`, `Receipt` (message and contact), `Reported` (the message alone: the poll, Brevo's events),
  `Reply`, `OptOut` (stops nothing), `SkipRead`/`SkipCommit`, `PauseResume`, `Stop`, `Tick`.

`Crash` is a step only where a claimed follow-up is lost; elsewhere a death looks like not having begun.
Left out: rescheduling and deleting follow-ups, follow-ups written by hand, tags.

### OutboundMessage

State: `stage` of each message (waiting, cleared, taken, ended) and `run`. It has no workers, tasks, sweeps
or retries: a message may be cleared while the campaign runs, is taken once or ends, and stays so.
`MessageSend` instantiates it: `taken` is what the provider has accepted, `cleared` a worker that has passed
the gate; clearing happens inside a worker's session and a crash or a retry un-clears (`Release`).

### AdsJobs

State: `camp`, `setup` (limits, who takes part), `asg` (send status of each assignment), `msg` (its message),
`job` (the durable rows, whose names are used again) and `last` (the newest), `ses` (requests and sweeps under
way), `wk`. A request (launch, pause, resume, bulk resume, complete, archive, dispatch, retry) or a sweep
(`ReadDue`, `ReadMissing`) reads the campaign, looks for an active job (`Looks`) and commits what it has decided
(`Commits`: wake the job it found, insert one, or write the status only), or dies. Between these steps anybody
else may act, but for two locks (`Holds`): a launch reads the campaign FOR UPDATE, and who writes the status has
written it, by autoflush, when it looks for the job. Dispatch, retry and the recovery of jobs hold neither. A
job is claimed by a conditional UPDATE in one session and worked on in another: `ClaimJob`, then the slice,
which counts what the limits leave and takes assignments, then its end, which reschedules or ends the job.
`RecoverStale` takes back the jobs of silent workers, `SyncDelivery` copies the messages' outcome. `fresh` and
`heard` are the two windows by which the drip is counted. Histories record what the code forgets: `sends`,
`gone` (whose message the provider has accepted) and `lapped` (two slices were under way together). Left out:
creatives, rotation, reports, classification of replies.

### AdsFollowUps, FollowUpRules

The two chains of reminders. `AdsFollowUps` is process_followups: it takes the longest due tasks, loads the
campaign with the first of each, works through them and commits once; `FirstQueued`, `FallsDue`, opt-outs,
pauses and edits of the chain happen meanwhile, an operator may press process, and the unique key
(`StepOnce`) is what is left when two passes overlap. `FollowUpRules` is the sweep of rules over the contacts
of a campaign: it `FollowUpRules` is the sweep of rules over the contacts
of a campaign: it reads the handled contacts, sends, writes log rows that are unique by rule and contact, and
commits everything together; `Log` and `Last` are what the open transaction sees. A rule takes up only contacts
in one of SENT_STATUSES; `rout` has the others: `MessageSettles` puts the contact of a message that is given up
on there, and `RowMoves` stands for the receipts, stops and rollbacks that move a row in or out. Left out: how a reply, an
open or a click is recognised, and what a step says.

### ScheduledMessages, MeetingReminders, PollPacing

The poller's timed work. A pass of `ScheduledMessages` is `Open`, then each row in turn (refused, handed
over, raised), then one commit; an email's message has the unique key of its row and an SMS's has not, a
statement the database refuses breaks the rest of the pass, and `sreq` is a cancel or a retry that has read
its row. `slost` marks that a broken pass has forgotten the key of an email it had sent, the case that
`EmailOnce` names beside the death of a worker. `MeetingReminders` is one meeting, whose pass works on what it loaded while the form moves the
meeting; `mdone` is the list that both write. `PollPacing` is the loop itself: `Begin`, `Serve` or `Fails`,
`Look` (the snapshot of pending work), `FallsAsleep`; `Request`, `Appears`, `Outage` and `Clock` come from
outside, and `NextDelay` is compute_next_delay. Work is of kinds that differ in how the snapshot sees them:
with a time, counted once due, not looked for at all, and never taken.

### SenderFailover

One message's way to a provider. `Plan` is the order of candidates: `TextOrder` in each routing mode, with
the second SIM where failover is on; `MailOrder` for the pool, the fallback and the mailbox of a reply. Each
candidate is `Skip`, `Accepts`, `Refuses` or `AnswerLost`; `Commit` records what was taken. `EditPhone`
switches phones on and off, makes one the default or deletes it meanwhile. Left out: the allowance of a
sender, which makes it unusable, the rotation for unpinned replies, and what the providers are sent.

### EmailEvents

What Brevo reports of the letters it took: `Hook` is its webhook, `Pass`, `Ask`, `Apply` (one event of the
answer) and `Commit` the periodic question with its recheck interval (`Recheck`), `WorkerCommits` the worker that stores the provider's id, and
`Found` the letter an event is attributed to before that. `Applied` is the handling of one event with its
counters, suppression and event row. Left out: counts of opens and clicks, the text of an event.

### MailboxSync, InboundTexts

The two ways in. `MailboxSync` is a pass: `Watermark`, `ListNewer` or an incomplete `ListPart`, `StoreReply`
for each mail (unique by id; an insert of what another pass has inserted waits for it), `CommitPass` with the
cursor, or `LosePass`. `InboundTexts` is a webhook: `Deliver`, `Event` (idempotency row), `StoreText`, `Answer`
with its own commit, `Ends`; `Refused` and `BrokenEnds` are a statement that the database refuses, and `Look`
the operator who reads the thread. Left out: keyword rules, classification, protocols.

### ExecutionGuard, AgentCards, InvoicePayments

`ExecutionGuard` is the ledger of the MCP tools: `Lookup`, `Work`, `Record`, `CommitAnswer` of calls with one
key, for tools that work in the transaction of the record ("create"), before it ("start") and over many
commits ("run"). `AgentCards` is the agent's turns (ask, run the safe tools, show a card) and the operator's
approve, cancel and undo, with the row lock where the code takes one. `InvoicePayments` is one invoice,
whose requests load it, may ask Paystack, write a payment and sum up what they see; `Recalculated` is
_recalculate_paid with the sum counted unit by unit (`Units`), and the ORM writes what differs from the load.
Totals are positive (`InvoiceAssumption`). Left out: the tools' own work, line items,
documents, the provider's client.

### VerificationJobs, ContactImports

Long jobs in the web process. A verification job is `Begin`, then per chunk a second read, the checks, and a
commit of verdicts, counts and `processed` together, from where a restart goes on; contacts are edited and
deleted meanwhile, and `Raced` allows an edit between the second read and the commit. An import is `Start`,
`TakeRow` (find by phone, address or further address; merge or create), `Publish` every batch and
`PublishLast` with the list's cached count; the list is edited and looked at meanwhile. Left out: the checks
on an address, matching by name, tags and fields.

### SendingWindow, BounceWatch, ThreadAttribution

`SendingWindow` is _window_state and _next_window over a week of ticks, and one message of the campaign:
`AsksGate` sends it or defers it for a whole number of seconds (`WaitUntil`), and `Tick` brings it back.
Hours are edited once while it waits (`EditWindow`). `wmissed` counts the time within a window that it was
made to wait. Left out: changes to and from summer time.

A check of `BounceWatch` is `Judge` (the campaign's rates, with the bounce of its own transaction),
`LookBack` (an alert in the cooldown), `Tell` (insert the alert, push it, count the failures of the
subscription) and its end: `EndCheck`, or `LoseCheck` when the subscription it wrote was deleted meanwhile.
Webhooks and the periodic sweep check alike; `UndoCheck` is any other rollback. Left out: the wording, the
list of notifications, more than one browser.

`ThreadAttribution` is one contact's thread. A session reads the row (`Sends` with `Stamped`, `Opens` and
`Replied` with `Mended`), and writes the columns it changed (`ColumnsWritten`) at its commit, `Closes`, or is
dropped. `lmails` are the campaigns' messages in the thread, by whom and whether deleted since: a batch commits
first and publishes then (`flush`), and a message that the broker refuses is deleted while the thread keeps its
stamp (`Withdraws`). With an older thread stamped before it was mended (`lold`) and sessions that overlap
(`lover`) these are the circumstances in which the columns may be wrong. `Withdraws` takes a refused message as
one step, and leaves out that the thread itself may go with its contact. Left out: that mending looks at fifty messages at either
end of the thread, so that more than these by hand keep it unmended.

## Runs

Every passing run ends with the complete state space. State counts are those of distinct states.

| Run | Instance | Shows | States |
|---|---|---|---|
| `LifecycleSerial` | 2 contacts, all requests, one session at a time | `AudienceMatches`, `LegalMoves`: the handlers are right one at a time | 7 k |
| `LifecycleConcurrent` | 2 contacts, 2 operators, 2 workers, 3 open sessions; pause, stop, delete; crashes | `TypeOK`, `EnrolledOnce`, `CompletedDrained`, `StoppedQuiet` | 133 k |
| `LifecycleLive` | 1 contact, 2 workers; pause, resume, stop, delete; crashes, failing broker | `HistoryKept`, `QueueIsServed`, `DrainedCompletes` | 29 k |
| `SendOneWorker` | 2 SMS, 1 worker | `TypeOK`, `AcceptedOnce`, `SentIsCounted`, `FinalStays`, and that the worker implements `OutboundMessage` (`KeepsPromise`) | 668 k |
| `SendEmail` | 1 email, 2 workers, one death or lost answer | `CountIsHonest`, `OnlyApart`, `MessageSettles` | 273 k |
| `GateBoth` | 3 messages (2 by follow-ups), 2 batches, 2 workers, crashes; cap 2 in a period of 2, delay 1 | `CapHolds`, `Spaced` | 62 k |
| `GateOneBatch` | 3 messages, 1 batch, 2 workers, crashes, bounces; cap 2 | `QueueFits`, `QueuedLeaves` | 20 k |
| `SequenceSafe` | send, wait, condition, send, send; 2 workers; all events; crashes, steps that raise | `KeepsPlace` | 3.6 M |
| `SequenceEnds` | wait, send, wait, send; 1 worker; failing broker, crashes, steps that raise, skip, reply, opt-out, stop | `RunEnds` | 197 k |
| `AdsJobs` | 2 job rows; 2 contacts and a total or a drip of 1 with 1 session and 1 worker, failing slices and deaths; 1 contact with 2 sessions and 2 workers; 1 contact with bulk resumes | `WithinLimits`, `SentOnce`, `Served` | 288 k |
| `Services` | one part at a time, see below | the combined properties above, `StopUnanswered` | 367 k |
| `BugSentTwice` | 1 SMS, 2 workers | that `AcceptedOnce` does not hold, see *Divergences* | |

Why the bounds are enough. The interactions are pairwise: two sessions on one row, two workers on one
message, two batches on one contact. Two contacts let a batch of one leave somebody behind; three open
sessions let a third party come between two; a cap of two is the smallest where a message in flight and a
message sent both count, and three messages overrun it. `MaxTime` is two instants, before and after a
launch time. `MaxAccepted` is two, so that a second acceptance can happen. `MaxAttempts` is two for a retry
and a last attempt. In `SequenceEnds` three messages and two follow-ups allow a refusal of each step
(`FlushRefused` accepts the last message of the bound). Two assignments and a limit of one make the limit
bite. Symmetry is used only in runs of safety properties.

In `LifecycleConcurrent` nobody resumes or starts by hand: with these the invariants fail, for the reasons
given under *Divergences*. `StoppedQuiet` and the safety of `SequenceSafe` are stated for a broker that
takes every task; with a broker that refuses, a rollback puts a contact back to pending whatever has
happened since. `AcceptedOnce` and `KeepsPromise` are checked with one worker; with two they fail.
In `AdsJobs` the limits are stated for slices that do not overlap, and measured by who got the message: not by
the code's own counts, which forget a message that failed before its acceptance was seen (`Forgotten`,
`Dropped`). `SentOnce` has no such condition: with two sessions two jobs arise, and their slices run side by side.

The parts of `Services`:

| Part | States | Part | States |
|---|---|---|---|
| `VerificationJobs`: 3 contacts in chunks of 2, one death, cancel | 11 k | `MeetingReminders`: 2 windows, 1 guest, moved once | 5 k |
| `FollowUpRules`: 2 rules, 1 contact, 1 sweep, one lost | 29 k | `MailboxSync`: 2 mails, 2 overlapping passes | 20 k |
| `AdsFollowUps`: 2 steps, one of which only acts, 1 task by hand | 27 k | `InboundTexts`: 2 texts, one an opt-out, 2 handlers | 4 k |
| `ScheduledMessages`: an SMS and an email, 2 pollers | 35 k | `SenderFailover`: 2 phones, 2 Brevo senders, a mailbox | 13 k |
| `ExecutionGuard`: 3 calls with one key, each kind of operation | 8 k | `EmailEvents`: 2 letters, delivered and bounce, 2 events | 17 k |
| `AgentCards`: 2 turns, 2 cards, 1 request at a time | 17 k | `ContactImports`: 2 rows, 2 numbers, 2 addresses, commits after each | 33 k |
| `InvoicePayments`: 2 references, totals 1 and 2, 2 requests at a time | 16 k | `PollPacing`: a job with a time, one that is counted | 9 k |
| `SendingWindow`: days of 3 hours of 2 ticks, all windows and edits of them | 15 k | `BounceWatch`: 1 webhook and the sweep, 2 messages, a cooldown of 2 hours | 28 k |
| `ThreadAttribution`: a campaign of each kind, 2 sessions, 3 messages | 74 k | | |

`InvoicePayments` is a part a second time, for edits, voiding and views between requests that follow one
another (5 k). Larger instances were run by hand with the
same result: `EmailEvents` with four kinds and three events (269 k, and with two eventful letters and
liveness 740 k), `ContactImports` with three rows in batches of two, `SenderFailover` with two edits (638 k),
`PollPacing` with all three kinds of job (27 k) and with other intervals, and `ScheduledMessages` with two emails
and three pollers (36 k), where a broken pass forgets the key of an email it sent (`slost`); with one email it
cannot.

### Fairness

- Beat runs the launcher, batches, due follow-ups and the sweep of retries every few seconds to minutes
  (`tasks/celery_app.py`, beat_schedule), and the inline poller repeats all of it (`_poll` in `main.py`).
  They come back for ever, but each pass may find the row locked, the campaign paused or the worker busy:
  strong fairness of `LaunchSelect`, `BatchRead`, `SweepDue`, `SweepStuck`, `Claim` (of the gate),
  `FollowUpDue`, and of the sweeps and passes of `AdsJobs` and `Services` (`ComesBack`), of which looking into
  the inbox (`Opens`) is the only one that an operator begins: a thread nobody opens needs no mending.
- A session, slice, pass or request that has begun goes on: weak fairness of its next step (`GoesOn`).
- Crashes come to an end. `<>[][~Crash]` needs crashes to be told from other steps: a died session is
  marked (`Die`), or `Crash` is a step only where it is distinct, or crashes are counted (`faults` and the
  `Max...` of the services). Exceptions of a slice and rows that are put back come to an end as well.
- A full allowance of a mailbox, a cap or a window reopens, and a provider that refuses for ever runs into
  `MaxAttempts`: strong fairness of `GateAllows` and of the outcome of a dispatch.
- Time passes: weak fairness of the clock and of the poller's loop. A device repeats a text that it was not
  answered for. Brevo's event question reaches every waiting letter within its recheck interval (`Recheck`),
  which is the assumption that half an hour holds enough passes.
- Nothing else is assumed of operators, replies or, in the lifecycle, of messages. `SequenceRun` assumes that a
  message in the queue is sent and that what was sent is reported on, by a receipt that settles the contact or,
  as the code may have it, by the poll or an event that does not (`Reported`): without any report a campaign
  stays running, which is what the code intends.

`MCServices` states the fairness of all its parts over numbered actors: the k-th actor of the current part
goes on, and comes back. That is as strong as one condition for each action of each part, since an actor
has one step to take at a time, and TLC's cost grows with the number of conditions.

## Divergences between the code and what it says

One is a run of its own, and a finding: `BugSentTwice`. `_send_one` claims rows that are queued, retrying
*or sending*, so two workers that loaded the row both win what the comment calls an atomic claim, and the
message is handed over twice.

Others, met while modelling, have a configuration here that shows them. They are run in the same way
(`tlc -config BugX.cfg MC....tla`).

| Configuration | Property | What happens |
|---|---|---|
| `BugEnrolledTwice` | `EnrolledOnce` | A manual start reads the existing rows without a claim, while a launch is about to insert: every contact has two rows and gets the message twice. |
| `BugCutShort` | `CompletedSequences` | After a step's message is delivered its contact is `delivered`, not `queued`; the batch finds nobody in flight and completes the campaign during the wait. The due sweep asks for running campaigns, so the rest of the sequence is never sent. One worker, no failure and no race is needed. |
| `BugPolled` | `SettledTogether` | The status poll writes the final status on the message alone; the contact stays `sent` and the campaign runs for ever. Brevo's events do the same to emails (`email_service.py`:2572-2664). |
| `BugSentLost` | `SentIsCounted` | Two workers write `messages_sent` from the value each loaded before its provider call. |
| `BugDeliveredTwice` | `DeliveredOnce` | delivered, failed, delivered counts twice: the two have one rank. |
| `BugParked` | `PolledToTheEnd` | The poll stores an unknown state of the gateway as the message's status; nobody looks at it again. |
| `BugStarved` | `QueuedLeaves` | With two batches the queue can exceed the cap; each message is then refused because of the others. |
| `BugRolledBack` | `OneThread` | The rollback returns a contact to the batch while a follow-up of it is being run by another worker. |
| `BugRepliedOn` | `RepliedNoMore` | A reply while a follow-up is being run: the step is committed over it and its message goes out. |

The same shows when a constant of a listed configuration is changed:

| Change | Property | What happens |
|---|---|---|
| `LifecycleConcurrent`: `Ops <- HoldAndStop` | `EmptyBeforeLaunch` | A pause that read `scheduled` commits after the launch; a resume then arms the campaign again. |
| the same | `TerminalIsFinal` | A batch writes `completed` over a stop that was committed after it read the row. |
| `LifecycleLive` | `HistoryKept` without its exception, `undone` | "Once a campaign has touched real recipients its history is the record" (`campaign_service.py`:846): the sweep sends a message no task was published for, the rollback deletes it (`campaign_tasks.py`:332), and no message's key refuses the delete any more (the thread's does, if the campaign was the first to write in it). |
| `LifecycleConcurrent`: `Ops <- Reschedule`, `StartStatus = "draft"` | `LaunchOnTime` | The claim checks the status, not the time it selected by; a rescheduling in between is ignored. |
| `LifecycleConcurrent`: `Ops <- StartAndStop`, `BrokerMayFail` | `LegalMoves` | The undo of a start restores the old status over a change made meanwhile. |
| `GateBoth`: `MayReclaim = TRUE` | `Spaced`, `CapHolds` | With the double claim a message may leave after another one has taken its place under the cap. |
| `AdsJobs`: `SPECIFICATION Spec` | `LegalMoves` of `AdsJobs` | A sweep that has read a due campaign sets it active over an archiving that was committed meanwhile. |
| the same | `OneJob` | "Create or wake the nonterminal job for one campaign, idempotently" (`campaign_jobs.py`:80): two sweeps, or a dispatch and a launch, find no job and insert one each. |
| the same, two sessions and workers, a total or a drip of 1, `launch` and `add` | `LimitHolds`, `Paced` | Slices of two jobs count the same rest, and each sends its batch ("A rolling-window count cannot over-send", `ads_service.py`:1008). |
| `AdsJobs`: `SPECIFICATION Spec` | `JobAwake` | A bulk resume (`api/v1/ads.py`:2873) or a relaunch during a slice wakes no job, which is left queued without a time to wake up. |
| `Services`: two `Sweepers` | `ChainsHold` | Two sweeps read the handled contacts before either writes its rows; the key refuses the second's rows after its messages went out. |
| `RetryEmails = TRUE` | `TimesKept`, `WorkEnds` | A retried email has its old key, whose refusal breaks every further pass. |
| `Raced = TRUE` | `ResultsHold` | An edit between the second read and the commit: a verdict is shown for an address that was not checked. |
| `LateFailure = TRUE` | `InvoiceHolds` | A late charge.failed takes back a success (`services/invoice_service.py`, against `api/v1/invoices.py`:625-630). |
| `Same = TRUE` | `TimesKept` | Saving a meeting without moving it clears its record, and the reminders go out again (`MeetingModal.tsx`:294 sends the start each time). |
| two `Polls`, `WithIds`, kind `deferred` | `WorkEnds` | Overlapping passes store one event id twice, and `scalar_one_or_none` raises in every later pass. |
| `KeepsAsked = TRUE` | `TimesKept` | A request during a pass that found the database down is forgotten, though any request is said to wake the loop (`poll_scheduler.py`:61-63). |
| `Stuck = {k1}` | `WorkEnds` | A follow-up of an ended campaign stays pending and overdue: the poller never comes to rest (against `main.py`:977-981). |

`RunEnds` names four more, each of which keeps the campaign running for ever, and each needed (without any
one of them the property is violated):

- `Stranded`: a worker that dies with a claimed follow-up leaves it `sending`, which nothing takes up again.
- `Untracked`: a rollback deletes the row of a message that a sweep has sent, so that no receipt finds it.
- `Forgotten`, first part: a follow-up is set `failed`, because its contact had opted out
  (`tasks/campaign_tasks.py`:923-927; an opt-out in the inbox, by a link or by the agent stops no sequence) or
  because its step raised (:1074-1082), and its contact stays `queued`.
- `Forgotten`, second part: the status poll or an event of Brevo's ends a message and leaves its contact `queued`
  or `sent`. A later receipt of the gateway would still settle it, but need not come, and none comes for an email.

Reading, without a model, showed the following.

- Poller: the launcher and the due sweep return `int(list)`, which raises after the work is done, so that it
  does not count as work done.
- Campaigns: a reply always stops the sequence, so a `contact_replied` condition can hardly ever be met; a
  follow-up rule does not wait for a message that is `retrying` (`services/campaign_followup_service.py`:130).
- Sending: a gateway or a Gmail mailbox whose answer is lost counts as failed, and the next sender is tried
  (two copies); deleting a phone while it sends makes the commit raise.
- Scheduled messages: an SMS may go out twice by overlapping passes or by a stale cancel or retry; an email too,
  when a pass breaks after it sent the email, whose key goes with it, and a third pass overlaps the two.
- Events: a soft bounce counts as a hard one; an open before the delivery loses the delivered count; `delivered`
  has no guard by rank; the worker's commit of `sent` overwrites an earlier event; `provider_event_id` is not
  unique; the webhook says that it keeps the raw body (`api/v1/webhooks.py`:697-699), but a rollback discards it.
- Mailboxes: the query for `already` never matches (`services/email_service.py`:3575); a long cursor is cut at
  8000 characters and is no JSON any more (`services/mailbox_service.py`:725); overlapping passes may answer twice.
- Inbound: a refused statement in an auto-reply loses the text though the device is answered; overlapping
  handlers lose updates of unread and reply counts; without a campaign contact every reply counts.
- Invoices: two payments at a time lose an update of the sum (`services/invoice_service.py`:654); a stale
  announcement of `paid`.
- Agent: two approvals run a card twice (`services/agent_runtime.py`:508); a card is streamed before its commit;
  `running` stays after a crash.
- Meetings: a form saved during a pass, or a deleted meeting, loses the pass's record.
- Imports: a process that dies leaves the job `running` and the list's count stale; a row that matches one
  contact by phone and another by address gives two contacts one address, and its number is not kept
  (`services/csv_service.py`:649-660), so that a later row with this number finds nobody, though every row is
  said to join the list (`services/csv_service.py`:683): `EveryoneListed` names it (`NumberLost`).
- Sending window: with an overnight window and no weekends, Monday's hours before the window's end are passed
  over (`_next_window` looks for starts only), and the start of a campaign announces the later time as that of
  its first messages (`api/v1/campaigns.py`:463); `WindowUsed` names the exception. `allowed_weekdays`
  "NULL/empty = the legacy allow_weekends flag decides" (`models/campaign.py`:87-88) is stored, but the gate
  reads only `allow_weekends`.
- Bounce watch: "a watchdog fault must not lose a webhook" (`services/bounce_watch.py`:326), but a subscription
  that is deleted during the push makes the commit raise, and the bounce goes with it; of overlapping checks
  each sends an alert. `ReportsKept` and `AlertsSpaced` name both.
- Threads: "exactly one of the two is set" (`models/conversation.py`:40-41), but overlapping sends of the two
  kinds of campaign set both firsts, or empty both last columns; an older thread that is stamped before it was
  mended keeps a wrong first campaign; a reply raises the count of the last classic campaign, also when its row
  is filed under an ads campaign; and a campaign whose only message the broker refused stays the thread's first
  or last touch after the rollback has deleted the message (`tasks/campaign_tasks.py`:332), for good if it is
  stopped then. `TouchEarned`, `TouchExact` and `RepliesAgree` say when it is right.
- Follow-up rules: `evaluate_contact` stops the chain of a contact whose last message failed
  (`services/campaign_followup_service.py`:107-143), but a campaign text that is given up on fails the contact's
  row (`tasks/sms_tasks.py`:338-340), which the rule's query then leaves out (line 275): such a contact gets
  no log row, not even `stopped`. `DueIsHandled` excepts rows out of SENT_STATUSES.
- Ads: due follow-up tasks of held campaigns occupy the limit of a pass (`services/ads_service.py`:1980).

## Proofs

Checked by tlapm with SMT, Zenon and PTL. They hold for every value of the constants that the assumption
named in the module allows, and for those in the last column.

| Module | Theorem | Says | Assumes |
|---|---|---|---|
| `CampaignLifecycleProofs` | `TypeCorrect` | `[]TypeOK` | |
| | `EnrolledOnceHolds` | `[]EnrolledOnce` | nobody starts by hand: `"start" \notin Ops` |
| | `StoppedQuietHolds` | `[]StoppedQuiet` | a broker that takes every task: `~BrokerMayFail` |
| | `CompletedDrainedHolds` | `[]CompletedDrained` | the same, and the requests are pause, stop and delete |
| | `HistoryKeptHolds` | `[]HistoryKept`: a deleted campaign has reached nobody but those whose message a rollback deleted | |
| | `AudienceMatchesHolds`, `LegalMovesHold` | `[]AudienceMatches`, `LegalMoves` | one session at a time: `MaxOpen = 1`; `~BrokerMayFail` |
| `MessageSendProofs` | `TypeCorrect` | `[]TypeOK` | `Messages # {}`, as in all of this module |
| | `AcceptedOnceHolds`, `CancelledNotSentHolds`, `FinalStaysHolds` | what was accepted is not accepted again; what a stop cancelled was not accepted; what is final stays | one worker, `MaxFaults = 0` |
| | `KeepsPromiseHolds` | `KeepsPromise` for every step: the worker implements `OutboundMessage` | the same |
| | `SentIsCountedHolds` | `[]SentIsCounted`: the counter is exact | the same |
| | `CountIsHonestHolds` | `[]CountIsHonest`: it is never too high | |
| | `OnlyApartHolds` | `[]OnlyApart`, either channel, any number of workers | |
| `SendingGateProofs` | `TypeCorrect` | `[]TypeOK` | |
| | `CapHoldsAlways`, `SpacedAlways` | `[]CapHolds`, `Spaced`, for any number of workers and batches | `~MayReclaim`, `~MayBounce` |
| | `QueueFitsAlways` | `[]QueueFits`, any number of workers | one batch, no follow-ups, `~MayReclaim` |
| `SequenceRunProofs` | `TypeCorrect` | `[]TypeOK` | |
| | `KeepsPlaceHolds` | `[]KeepsPlace`, any snapshot and number of workers | `~BrokerMayFail` |
| `AdsJobsProofs` | `TypeCorrect` | `[]TypeOK` | |
| | `SentOnceAlways` | `SentOnce`, however many jobs and slices run side by side | |
| | `WithinLimitsAlways` | `[]WithinLimits`: the limits hold until two slices overlap | |
| `RedeliveryProofs` | `KeyHonouredHolds`, of `WorkOnceHolds`, `LateIsReplayHolds`, `CreatedIsRecordedHolds` | one key, one operation | `MaxExpired, MaxCut \in Nat` |
| | `ResultsHoldAlways`, of `VerdictMatchesHolds`, `CountsAddUpHolds` | counts add up, verdicts match | `N, MaxCrashes \in Nat`; for the verdicts `~Raced` |
| | `NoneMissedHolds` | no reply is behind the cursor | `Mails \subseteq Nat`, `Replies \subseteq Mails`, `0 \notin Replies` |
| | `MailAnsweredOnceHolds` | one automatic answer in a cooldown | |
| | `AckedIsStoredHolds` | what was acknowledged is stored | |
| | `RepliesOnceHolds`, `StopUnansweredHolds` | replies and unread texts are counted; no answer after an opt-out | |
| | `TouchesHoldAlways` | first and last touches are earned, exact, and agree with the replies, but for deleted messages | `SourcesAssumption`: the two kinds of campaigns are distinct |
| `ServicesProofs` | `InboxHoldsAlways` | `[]InboxHolds` of the composed `MCServices` | |
| | `CardsHoldAlways` | `[]CardsHold` of the composed `MCServices` | `CardsAssumption`: cards are numbered from 1 |
| | `ImportsHoldAlways` | `[]ImportsHold` of the composed `MCServices` | `ImportsAssumption`: `Rows` and `Batch` are numbers, `Batch` not 0 |
| | `EventsHoldAlways` | `[]EventsHold` of the composed `MCServices` | `EventsAssumption`: letters are numbered, something happens to some of them; `WatchAssumption`: finitely many checks |
| | `InvoiceHoldsAlways` | `[]InvoiceHolds` of the composed `MCServices` | `~LateFailure`; `InvoiceAssumption`: finitely many references, positive totals of which one is the greatest |
| | `SenderHoldsAlways` | `[]SenderHolds` of the composed `MCServices` | `SendersAssumption`: finitely many senders, none of them nobody |
| `TimesProofs` | `TimesKeptAlways` | `[]TimesKept` of the composed `MCServices` | `~RetryEmails`, `~Same`, `~KeepsAsked`; `ItemsAssumption`, `MeetingAssumption`, `PacingAssumption` (a pass is shorter than the active window), `TimesAssumption` |
| | `ChainInOrderAlways` | `[]ChainInOrder`, any number of sweeps | `RulesAssumption`: `K` and the bounds are numbers, `K` not 0 |
| | `ChainsHoldAlways` | `[]ChainsHold` of the composed `MCServices` | one sweep and one pass at a time; `StepsAssumption`: a task written by hand has no step of the chain |

Where a theorem assumes that something does not happen, a run, or a configuration of *Divergences*, shows
what happens if it does: the assumption is the boundary of what the code guarantees.

`TypeOK` is inductive in every module but one; its proof has one step for each action, over lemmas about
shared operators (`FlushType`, `UpdateType`, `ReadType`, `WriteType`, `EnrolType`). In `SequenceRun` it needs
`Refs`: what a worker holds is a row that exists. The others are not inductive.

**The campaign**

- `EnrolledOnce`: an insert is harmless only because what the launcher read of the existing rows is still
  true. `EnrolInv` adds `LaunchLocked`: a launcher between its claim and its commit holds the row lock, and
  the contacts it is going to add have no row. Since two sessions cannot hold the lock, no other launcher can
  have read before and insert after it. A manual start holds no lock at that point, which is where the
  assumption is needed, and why `BugEnrolledTwice` exists.
- `StoppedQuiet` relates a stop, which reads the row, updates the contacts and commits, to batches that hold
  contacts locked meanwhile. It needs `BatchInv` (a contact that a batch holds is pending, and no two batches
  hold the same one, so a stop that waits for their locks misses none) and `Intents`: the rows a session is
  about to insert as pending belong to an intent to run, not to a stopped campaign, and a flush writes
  `stopped` only together with the cancelling of the contacts. A refused broker would return contacts to
  pending later, hence the assumption.
- `CompletedDrained` is about the batch that finds nobody left and commits `completed` later. `DrainInv` says
  that nothing can be enrolled in between: a launcher holds the row lock of a campaign that is still scheduled,
  and a batch works on one that is not. A start, resume or reschedule that read the row earlier could write an
  old status over it, hence the requests that are allowed; a rolled back outbox would return a contact to
  pending after the check.
- `HistoryKept` needs no assumption: however old what delete_campaign checked is, the database refuses the delete
  while a message refers to the campaign. `OnRecord` says that whoever was reached still has a message, or lost it
  by a rollback; `HistoryInv` that a deleted campaign has neither message nor contact row (`Gone`) and that no
  session's flush but the delete's writes the deletion (`Told`), so that nobody is reached afterwards.
- `AudienceMatches` and `LegalMoves` are stated for sessions that follow one another: `SerialInv` says that the
  one session that is under way wants what its operation allows (`PlanOf`) and has read what the row still
  says (`UpToDate`). With two sessions both fail, as *Divergences* shows.

**Sending**

- `AcceptedOnce`: `OnceInv` adds `TakenOnce` (a message with a provider's id is no longer open, and what the
  provider took has its id or is about to get it) and `ClaimHolds` (what a worker has claimed is still
  `sending` when it comes back from the provider, unless an event about what the provider took was faster). With `IdIsTaken` (only what the provider took has an id) it
  is `PromiseInv`, under which every step is one of `OutboundMessage` or a stutter.
- `OnlyApart` is inductive: the worker's record and the receipt write message and contact in one transaction and
  clear `apart`, the poll and Brevo's events write the message alone and set it. It holds for every channel,
  number of workers and fault; without `apart`, as `SettledTogether`, it does not (`BugPolled`).
- The counter: `LoadedInv` (the count that the one worker has loaded is the current one) makes it exact;
  `HonestInv` (what any worker has loaded is at most what was accepted, and one less if it is about to record
  an acceptance) bounds it however workers overlap.
- `CapHolds` and `Spaced`: each check counts, with several queries, what has left and what is in flight, while
  others do the same. `GateInv` orders the workers: there is an order in which they asked, each has counted at
  least those before it (`Counted`), and if the cap let it pass there is room for it, all that left within the
  period and all before it (`RoomKept`). The order is not in the state, so it is quantified, and each step
  has a witness for the next one: who asks goes last, who leaves drops out. For the delay nothing may be in
  flight at all (`AllRest`). A claim of what another worker is sending puts one message under two checks, and a
  bounce takes a message out of the count that was made of it.
- `QueueFits`: `QueueInv` says that what a batch has counted only shrinks until it commits, and that its room
  is what is left; a second batch or a follow-up would fill the same room again.

**Sequences and ads**

- `KeepsPlace`: a follow-up that was cancelled or skipped while a worker holds it can still run its step, or be
  put back to pending. So not the live follow-ups are unique but the *busy* ones, live or held. `PlaceInv` says
  that there is at most one, with at most one holder, that its step is ahead of all messages, and that before
  the first step was run there is none. `Forward`, the lemma about the operators, says that running step i
  adds a message or a follow-up of step i or later, at most one of each, in order. A rollback of the outbox
  would return the contact to the batch beside its follow-up: `BugRolledBack`.
- `SentOnce`: `SentInv` says where an assignment is once it has had a message: past the states from which it may
  be claimed, with nothing that leads back. What a slice has selected does not matter, as it claims only what is
  still pending.
- `WithinLimits`: `LimitsInv` says that while slices follow one another, what is used or released and what the
  one slice has selected fit together in the limits (`RowsFit`), until it claims it. Who got the message and is
  not forgotten is among those used, which is how the counts of the code bound what really happened.

**Services**

- The ledger: `LateWaits` (a call that came after the record has not passed the lookup unless the record
  expired), and `Alone`, `Unanswered`, `WorkBound` (calls that follow one another: at most one works, and its
  work is counted by the expiries).
- Verification: `SameRow` (the only task has the committed row, but for a cancellation) for the counts, which
  are stated for processes that do not overlap; `AboutToMark` (a task is about to mark addresses that the
  contacts have) for the verdicts.
- The mailbox: `CursorInv` adds that a pass began where nothing was missing, and that what is missing up to its
  watermark it has listed or inserted; `AnswerInv` that an answer that is about to be sent is the first.
- Inbound: `StoredInv`: an event on record has its text in the inbox, as it is committed with it. `CountInv`
  bounds every counter, also those a handler has loaded, by the number of texts stored; `RowInv` says that the
  one handler of deliveries in a row has loaded what is there.
- Threads: `EarnedInv` (a first touch that a session has read is still in the row, so that its stale write cannot
  empty it) and `SerialInv` (as long as sessions did not overlap, the row is as the session read it). Both speak
  of the messages that were ever committed, so that a deletion changes only who is in `Withdrawn`.
- The cards: `CardsApart` (what a turn is about to save is fresh and its own), `KnownInv` (a request's card has the
  status that it read, but for what it wrote itself), and from these `RanInv`, `UndoneInv` and `OneInv`: a tool
  that has run belongs to a card that is decided or to the one request that ran it.
- The import: `BatchInv` (what the open transaction has is the committed state and what its rows added),
  `TallyInv` and `CachedInv` for the sums, and `ListedInv` for the list: each row gone over has somebody in the
  list, or to be, whom its address or number still finds (`KeyMet`), unless an earlier merge lost the number.
  The invariant needed that exception, which the property had not: the proof found it, and TLC now meets it.
- Scheduled messages: `EmailInv` says that an email that is out has its key, committed or held by the pass that
  sent it; `TextInv` the same of an SMS by its row, which only holds while nothing overlaps. The first attempt
  failed on the broken pass that forgets a key, hence `slost`.
- Reminders: `LoadedInv` (what the pass has loaded is the record, unless the meeting moved meanwhile) and
  `RemindedInv` (who was reminded for the present start is in the record or in the hands of the pass).
- The poller: `AskedInv` and `FoundInv` say how long the loop may sleep when a request waits or a job is known,
  `WaitInv` that what a job has waited and the sleep that is left together keep to the bound.
- The sending window: time is taken apart into days and times of the day (`DividedOnce`), where the product of
  hours and ticks is the hard part for the provers. `NextIs` says what `_next_window` finds: the first start on
  an allowed day. `Before` says that until then the gate stays closed and the wait ends at most the shortest
  wait after it; `After` that the message is asked about again in the first hour of the window.
- The reminders: `OrderInv` needs no assumption on the sweeps: a rule looks at whom the one before has reminded,
  and that is never taken back. `ChainInv` says what one sweep at a time adds: its rows are of contacts that the
  rule has not handled, the rules that have reminded a contact are the first ones, and what has gone has a row,
  committed or held, unless a commit was lost. A second sweep reads the handled contacts too early.
- The steps of an ads campaign: `TaskInv` (a message completes its task, once), `OrderedInv` (of two tasks of a
  contact the earlier has had its message before the later was made) and `PassInv`, which relates a pass to what
  is committed: it writes tasks that it selected and that had no message then, and makes at most one new task
  for a contact to whom it sends.
- Brevo's events: `BounceInv` says of every session that has a bounce or an unsubscription in hand that it
  suppresses the address or has seen it suppressed, which survives a refused commit. `Sees`, for sessions that
  follow one another, says that what a session has read is still so, and that the count with what it is about
  to add is at most the letters that it leaves delivered. For the proof an answer's events are applied one by
  one (`Apply`): in whatever order Brevo lists them the invariant holds after each.
- The invoice: `PaymentsInv` says who may work on a payment at a time and that a success stays one; that is why
  two requests can only show too little (`PaidInv`: what a request has summed up is there when it commits), and
  why the theorem asks that a charge.failed is not late. `AloneInv` is what holds while requests follow one
  another. The sum is counted unit by unit, so that it grows with the successful payments by `FS_Subset`.
- The sender: what has to be known of `Plan` is not its order but whom it lists. `TextOrderIs`, `MailOrderIs` and
  `EachSimIs` say that the primary phone, or every usable sender of the pool, is in it, and that a message with
  one sender has no other. `LeftInv` says that who is wanted has tried or is still in the plan, unless Brevo has
  left a try open; `HandedInv` that the plan ends when a provider may have the message. Orders are built from
  functions over 1..n, as the provers cannot look into `SelectSeq` and `SortSeq`.
- The bounce watch: `WatchInv` bounds the alerts together with the checks that are about to add one (`Telling`):
  who tells has seen none, so those already there are of checks that overlapped. A check loses its transaction
  only if the subscription was deleted under it (`WriteLost`).

Only model-checked: liveness, that is `QueueIsServed`, `DrainedCompletes`, `MessageSettles`, `QueuedLeaves`,
`Served`, `RunEnds` and `WorkEnds`, since fairness and ENABLED are beyond the prover. Every invariant and action
property that a run checks is stated by a theorem.

## Not modelled

- Storage that no concurrent step depends on: the sequence editor (a campaign runs a snapshot), suppression
  lists (a contact may be sent to or not, at any moment), templates, custom fields, users, plain CRUD.
- The task queue's and the ORM's internals: what they may do (refuse, redeliver, lose, write what changed) are
  choices and operators of the models.
- The MCP server and OAuth, the AI providers, gateways' and mailboxes' protocols: clients and servers of
  external services. What their calls do to shared state is in the modules that use them.
- Text: rendering of templates, keyword rules, classification of replies, parsing of mails and files, number
  and address normalisation, PDF and CSV output. No property here is about them.
- The list of notifications, heartbeats, logs: output only.
- Authentication, rate limits and encryption: library code and a fixed window counter.
- Schema repair at start-up, deployment scripts, the frontend.

The code is large and most of it is of these kinds: request validation, queries for lists and reports,
conversions, and text for people. The models cover the operations that change the shared state on which
sending, receiving and paying depend.
