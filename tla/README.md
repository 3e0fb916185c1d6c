# Freyja OS: specifications and proofs

TLA+ specifications of the parts of Freyja OS that keep durable state shared by
several processes, with TLC configurations and TLAPS proofs. Paths below are
relative to the repository; `loop.py` stands for
`src/freyja/cloyd_smith_loop.py`, and so on where the text says so.

To check: `tlc -config X.cfg M` for each run of the table below, `tlapm M_proofs.tla`
for each module of proofs. `PROJECT.json` maps every definition to the lines it
stands for.

## 1. The system

Freyja is a household assistant. Channels (Telegram, Signal, iMessage, Discord,
mail, Open WebUI) bring messages to the **Director** (`main.py`, FastAPI), which
classifies them, calls models and tools, and answers. Beside the Director run a
supervisor daemon that drives a coding agent (**Smith**, an OpenCode server), the
**Freyja 3** application (`freyja3_app.py`: agents, audit, memory, scheduler,
worker jobs), runners on other machines and maintenance scripts. Nearly all shared
state is in SQLite files that several processes open.

What each part keeps, does, and must get right; **hard** names what a test
hardly reaches.

| Component | State | Operations | Talks to | Hard | Correct when |
|---|---|---|---|---|---|
| Cloyd-Smith job ledger (`cloyd_smith_loop.py`) | job rows, heartbeats | create, two-step update, two-step heartbeat, mark stale, listings | shared SQLite file of the three below | lost updates between SELECT and UPDATE | a queueing is handed out once; verdicts are not overwritten |
| Supervisor daemon (`scripts/cloyd-smith-loop-daemon.py`) | none of its own but the tick's listing | tick: mark stale, list, poll, send; `--stop-job` | ledger, OpenCode | stale snapshots, crashes between two statements, send timeouts, outages | never sends twice; every job settles |
| Operator endpoints (`main.py`) and tools (`tools/cloyd_smith_loop.py`) | none | submit, record, done, clear, block, stop, follow-up, retry, replace, requeue, stop-all, reset | ledger, OpenCode | run beside a tick | a stop holds, limits hold, done is reviewed |
| OpenCode session tools (`tools/opencode_runtime.py`) | sessions (in OpenCode) | start, send, status, stop | OpenCode over HTTP | unreachable server, slow reply | idle means idle |
| Freyja 3 worker queue (`freyja3_workers.py`) | job rows | create, claim, complete | runners, by HTTP | lost and late requests, dead runners | a job is performed once and its own outcome recorded |
| Worker runner (`cli/worker_runner.py`) | one job per run | claim, perform, complete | queue | killed at any point | as above |
| Freyja 3 scheduler (`freyja3_scheduler.py`) | envelopes | create, list due, mark dispatched; dispatch-due | agents | overlapping requests around an await, a failing agent | nothing is marked undone; re-execution is bounded |
| Write approvals (`agents/approval_*.py`, `cli/smith_approval.py`) | approval records | create, approve, deny, consume, cancel, expire | write pilot, operator | concurrent decisions, expiry, replay | decisions stand |
| Write pilot (`agents/runtime.py`, write tools of `tools/builtin.py`) | target file, index, HEAD, backups; the run in memory | start, resume through four gates, write, add, commit, roll back | approvals, git | overlapping resumes, rollback of another run's work, crashes | nothing unapproved is written, the original is kept, an approved pilot completes |
| Telegram gateway (`connectors/telegram/gateway.py`, `scripts/run-telegram-gateway.py`) | update offset in memory and on disk, recent ids, a batch and its replies | poll, handle, send, load the offset | Bot API, Director | the offset is saved before the message is handled; replies leave after the batch; updates without a message are never acknowledged | nothing is acted on or answered twice, little is lost, replies keep their order, no message waits for ever |
| iMessage connector (`connectors/imessage/*`, `scripts/run-imessage-connector.py`) | seen list in memory and on disk, recent ids | seed, poll, watch, handle, provisional and final reply | Messages database, `imsg`, Director | two tasks over one seen list, a bounded list, a task that dies without a word | each message is taken by one task, once, or has left the window, or a start has skipped it |
| Signal connector (`connectors/signal/*`, `scripts/run-signal-connector.py`) | the batch, recent ids | receive, handle, send | signal-cli-rest-api, Director | receiving is destructive, a failed send drops the batch, a Director that fails ends the process | deliveries are conserved up to a failure, and the connector comes back |
| Gmail connector (`connectors/gmail/*`, `scripts/run-gmail-connector.py`) | recent ids | search, fetch, handle, reply, mark read | IMAP, SMTP, Director | the fetch marks a mail read before it is answered | each mail is acted on once and read in the end |
| Memory store (`memory/store.py`) | conversations, shared memories | append, put, list, prune, delete | Director, agents | two evicting quotas and a message limit across threads and processes, expiry, clocks read before the lock | the newest are kept, quotas hold, eviction takes the stalest |
| Director router (`router.py` behind `main.py`) | the conversation's record | decide, execute, tool loop, record | models, registry, memory store | many paths to the cloud, interleaved turns, a tool loop driven by a model | nothing private leaves, the record keeps what was answered, every turn returns |
| Freyja 3 agents (`agent_runtime_v3.py` over `tools/registry.py`) | one objective | plan, tool loop, model's tool calls, memory writes | registry, models | a tool that acted and then failed, retries, tool calls by a model | approved mutations happen once, retries are bounded |
| Calendar (`calendar/*`) | none (a provider's events) | CRUD, find time, move on conflict | provider | failures between two calls | moves never lose an event |
| Identity (`identity/*`) | people and aliases | add, resolve | connectors | ambiguous aliases | one person per channel identity |
| Tool registry (`tools/registry.py`) | tools | register, authorize, execute | pilot, router, agents | timeouts around implementations | no unauthorized tool runs (seen from its three callers) |
| Service shepherd (`scripts/smith-service-shepherd.py`) | last status file | look, compare, alert, write the file | launchd, Docker, Discord | a death between the alert and the file, or in the middle of the file; a refused alert | an outage is told once, and none passes in silence without a reason |
| Discord connector | none (no offset, no resume) | receive, handle, send | Discord, Director | a broken socket loses what was in hand | as Signal, without a queue behind it |
| Freyja 3 gateway, registries, audit | audit rows | check, record | agents | none of its own | domain rules hold |
| Inference clients, privacy egress, monitors, media, RoadMode, paralegal enclave, scripts | none shared | request and response | models, files | none of its own | out of scope |

`PROJECT.json` lists every component with its files, what is modelled of it, and,
under `hazards`, the lines where the code is exposed.

## 2. Modules

```
 JobOutcomes        <-- implemented by --  WorkerJobs
 ScheduleDispatch                                          Queues_proofs
 CloydSmithLoop     (MCCloydSmithLoop)                     CloydSmithLoop_proofs
 WritePilot         (MCWritePilot)                         WritePilot_proofs
 TelegramGateway, SignalConnector, GmailConnector,
 IMessageConnector, ServiceShepherd                        Connectors_proofs
 ConversationMemory, SharedMemory                          Memory_proofs
 DirectorTurn       (MCDirector)                           DirectorTurn_proofs
 AgentTurn                                                 AgentTurn_proofs
 MCServices         extends WorkerJobs, ScheduleDispatch and the nine above,
                    and runs one of the eleven at a time   Services_proofs
```

Every module takes its sets and limits as CONSTANTS with a named assumption
(`ConstantsOK`, `WorkersOK`, `SchedulesOK`, `PilotOK`, `TelegramOK`, ...) and keeps its bounds
(`Max...`) in the guards of the actions they bound. Definitions whose comment says
*Mutant* are deliberately wrong variants of the definition beneath them; nothing
in the specifications uses them. They document which mistake in the code each
property would catch.

### CloydSmithLoop: ledger, daemon, operators, OpenCode

Three processes share the ledger: the Director, the daemon (unique by `flock`)
and the command line of the daemon, which takes no lock. `store.update` reads the
row in one connection and writes every column in another, so it is two steps,
`ReadRow` and `WriteRow`; so is `record_heartbeat`, which first looks up the start of the run
(`ReadHeartbeat`) and then upserts (`RecordHeartbeat`), and `mark_stale_runs` upserts a heartbeat
with the start it had listed. Of a start it matters only whether the 180 s busy window that
began then is over; an upsert of a start that was recent when it was read is over the window if
the row it replaces is. What a process still has to do
is a list of such operations, `todo[a]`, run in program order; between lists it is
at a control point `ctl[a]` with the listing it works from. One action of the
daemon is one stretch of `_run_once` between two of them: `TickStarts`,
`MarkNextStale`, `ListActive`, `BeginSend`, `SendPrompt` / `SendRefused`,
`SendAnswered` / `SendFailed` / `SendTimedOut`, `CheckAfterTimeout`, `CheckJob`,
`EndTick`. The Director's handlers are one action each (`Submit`, `Retry`,
`FollowUp`, `StopJob`, ...), whose checks read the ledger at once and whose
changes go through `todo`: its handlers are `async` but never suspend, so the
Director serves one request at a time. The environment lets a session answer, time
pass (the 180 s busy window, the 300 s of a heartbeat), the server go away and come
back, and any process die or abandon its tick (`Crash`).

Rows are status and the two counters the handlers read back; prompts, evidence,
outcomes, phases and wording are left out. A session is the queue of the prompts it
accepted and has not answered.

### WorkerJobs and JobOutcomes: the worker queue

`JobOutcomes` is what the queue promises, in two actions: a job is performed at most
once, and what is recorded is the outcome of that performance. `WorkerJobs` is how:
rows in (created_at, job_id) order, `Claim` and `Complete` as single SQL statements,
a runner per machine that claims, performs and reports, and what goes wrong: a run
that ends anywhere (`RunAborted`) and a request that its runner gave up on and Atlas
receives later (`RequestTimesOut`, `LateArrives`). The refinement maps `performed` to
itself and `recorded` to the status of the row.

### ScheduleDispatch: dispatch-due

A request lists the due envelopes (`Begin`), hands the next one to its agent
(`Submit`), suspends, and marks it (`Mark`). Requests overlap at that suspension
only. An unknown agent and an already marked envelope both raise and end the
request; `Fail` is a request that dies with an envelope in its agent's hands.
Envelope numbers are both the order of the listing and the time at which they are
due.

### WritePilot: approvals and the approved-write pilot

Each request has a record per gate (path, content, stage, commit) and every resume
replays the run from the start. Handlers suspend only at the three tools, which the
registry awaits with `asyncio.wait_for` (a task of its own on Python 3.11, the
minimum version); so `ResumeStops` and `ResumeWrites` are everything up to the end or
the first tool, and `WriteTool`, `AfterWrite`, `AddTool`, `AfterAdd`, `CommitTool`,
`AfterCommit` the tools and what the run does with their results. `Rollback` and
`RollbackDenied` are the two ways the runtime undoes a run. The content of a file is
the request that proposed it, its draft, or `Absent`.

`"overdue"` is a pending row whose `expires_at` has passed. `approve` on such a row
updates it to expired and raises inside the same transaction, which undoes the
update: in the model it does nothing. `cancel` and `cleanup_expired` have no caller
in the repository and are modelled as maintenance.

Left out: the caller's payload. The model's caller resends the content its request
proposed, which `resume` and `resume-pilot` of the command line enforce with a hash;
the endpoint compares hashes only for path and content records. The in-process
`run_write_pilot` with a caller's callback, which only tests use, is left out too.

### The connectors: TelegramGateway, IMessageConnector, SignalConnector, GmailConnector

All four take messages from a service, remember what they took, ask the Director and
reply; they differ in where the memory is and when it is written, and that decides
what a failure costs. Messages are numbers or model values with a *kind*, which is
all the gateway's checks make of sender, text and attachments: forwarded, answered
by the gateway itself, or passed over. `tgAsked`, `imAsked` and so on are histories.

- **Telegram.** `PollUpdates` sends the offset that lies in memory, and Telegram drops
  what is below it. `Record` is `handle` up to its first await: the id goes to the
  recent list and to the offset file, then the Director is asked. `BatchEnds` starts the
  replies, which `send_reply` tries once each. `RecordFails` is a full disk, before or
  after the file was replaced; `TelegramCrash` is a restart with `_load_offset`. Ids
  ascend, so every list of them is a set.
- **iMessage.** Two tasks of one event loop interleave where they await. `PollLists` takes
  a listing that grows old while the task waits for the Director; `WatchStarts` streams
  from now on. `Take` marks a message seen, in the list and if possible in its file,
  before it is handled. `PollRaises` is a poll task that ends with nobody awaiting it;
  `WatchRaises` takes the process with it. `Seed` counts as seen whatever is recent when
  the process starts: what nobody had taken by then, nobody will (`imFate` remembers it
  as *skipped*).
- **Signal.** `Receive` empties the service's queue into the batch. A failed send raises out
  of the batch; a failed Director makes `handle` return None, and sending None is an
  exception that the loop does not catch: the process ends and Docker starts it again.
- **Gmail.** `FetchAndHandle` marks the mail read, since `RFC822` is fetched from a mailbox
  selected for writing (RFC 3501), so the later `store` changes nothing unless the owner
  intervenes (`MarkUnread`).

### ConversationMemory and SharedMemory: the memory store

The lock of `store.py` orders the threads of one process; writers here may be processes.
An append is four steps (`Stamp`, `Commit`, `ListExcess`, `DeleteExcess`), since the
message is committed before the limit is looked at and the listing is a statement of
its own. A row is its timestamp and its rowid. SQLite may use a rowid again after its row
is gone; only the order among the rows that are there matters, and in that order
counting on does the same.

A put of a shared memory is one `BEGIN IMMEDIATE` transaction with a time read before it:
`BeginPut`, then `CommitPut`, which removes what had expired at that time, inserts or
updates the row (an update keeps the rowid) and applies both quotas in turn.

### DirectorTurn: Router.execute

A turn is a call of `execute`, suspended at the classifier, a health check, a search, a
tool or a model; what lies between two suspensions is one action. A request is the
answers that the code gets when it asks about it (is it an exact answer, is it private,
does it cost too much, ...), so every request there can be is one of `TurnRequest`.
`Manual`, `AutoImage` and `Classified` are the three parts of `decide`. The tool loop
keeps its round. `transcript` is the conversation in the memory store: the prompt and the
answer are appended in one step because nothing is awaited between them, and a failing
store may take the first without the second. A turn that ends *blank* had an empty answer
(`ModelAnswers`, `LoopAnswers`): `execute` records prompt and answer as always, and its
caller, finding no text in the result, answers 503 (`main.py:2112`, `:2159`). Ollama's client
turns an empty answer into an error, but a search answer may be nothing but a tool call that is
stripped, and OpenRouter's text is taken as it is, `null` included: then the record of the
answer is refused by `AppendMessageRequest`, the prompt before it is stored, and
`RoutingResult` raises (`AnswerRaises`, the turn ends *raised*, a 500); after a search and in the
tool loop the text is looked at first, which raises before anything is recorded.

### AgentTurn: AgentRuntimeV3.arun

An objective is the tools it selects, the approvals that come with it and whether a
question is open. `ExecuteTool` lets the registry refuse, or perform with any report: an
implementation may have acted and then failed or run out of time. `GoOn` is
`_choose_follow_up_tools`, `ModelCalls` and `CallTool` the loop in which a model calls
tools by any name, never with an approval.

### ServiceShepherd: the watchdog

A cycle looks at each service in turn (`Look`; they change meanwhile), compares what is
critical with what the status file says of the last cycle (`Compare`), alerts when a healthy
record turns critical, and rewrites the file, which `write_text` empties first
(`TruncateFile`, `WriteReport`). A file that is missing or cut off reads as a first start, for
which nothing is sent. `told` and `silent` are histories of the outage on record: the
alerts delivered for it, and whether it has been recorded without one. The process is the
only one: launchd runs it, and `docs/operations/smith-service-shepherd.md` forbids a second.

## 3. Runs

| Run | Instance | Shows |
|---|---|---|
| `loop_operators` | 1 job, 12 kinds of requests, 2 requests, 1 crash, heartbeats that lapse without bound | `TypeOK`, one dispatch per queueing, `ReviewIsIdle` (without outages), `DoneIsReviewed` |
| `loop_two_jobs` | 2 jobs on one session, retry / replace / record / `--stop-job`, 1 request, 1 crash, 1 outage | the inductive invariant `DispatchInv` |
| `loop_settles` | 2 jobs on one session, 1 crash, heartbeats that lapse without bound, fairness | `EventuallySettles` |
| `loop_stop_overwritten` | 1 job, the stop tool | violated: `StopIsHonoured` |
| `loop_grants_exceeded` | 1 job, block / follow-up / retry | violated: `GrantsBounded` |
| `loop_outage_review` | 1 job, 1 outage | violated: `ReviewIsIdle` |
| `loop_review_starves_queue` | 2 jobs, list limit 1 for the code's 20, fairness | violated: `QueuedIsPickedUp` |
| `services` | see below, fairness | 30 properties of the eleven services |
| `director_budget` | 5 turns that choose the cloud by hand, a hard limit of 2 answers | violated: `CloudWithinBudget` |
| `pilot_gates` | 2 requests for one new file, 2 overlapping resumes, deny / clean-up, 1 lapse | `TypeOK`, `PilotInv`, `DecisionsStand` |
| `pilot_completes` | 1 request over an existing file, repeated start, eager and lazy rollback, deny / cancel, 1 failing tool, 1 crash, fairness | `ApprovedIsCommitted` |
| `pilot_original_lost` | 1 request over an existing file, 1 start | violated: `OriginalKept` |

`services` checks eleven modules at once. They share no variable, so a behaviour chooses one
(`active`) and leaves the others as they begin; a property of one module then holds in the
run exactly if it holds of that module by itself: where the service is not active its
variables keep their initial values, for which each of these properties is trivial (and
`ServicesRunAlone` proves that the run adds nothing to any module's behaviours). The
fairness of each module is kept; the n-th fair action of every service share one `WF`,
which is the same as one each because only the active one's is ever enabled.

| Service | Instance | Properties |
|---|---|---|
| telegram | 5 updates of every kind, batches of 3, a recent list of 2, 2 crashes, 1 unsaved offset, 1 refused reply | `UpdateOnce`, `UpdateLossBounded`, `RepliesInOrder`, `MessagesTaken` |
| imessage | 3 messages, window 2, lists of 3 and 2, a crash, an unwritten file, a failed seeding, a failed reply, an exception | `MessageOnce`, `WindowIsServed` |
| signal | 3 messages delivered up to twice, a recent list of 2, a crash, a failure | `SignalOncePerLife`, `DeliveriesConserved`, `ServiceIsDrained` |
| gmail | 3 mails, one marked unread again, a crash, a failure | `MailOnce`, `MailIsRead` |
| conversation | 2 processes, limit 2, 4 messages, 2 times, 1 death | `NewestKept`, `ConversationBounded` |
| shared | 2 principals, 2 ids, 2 putters, both quotas 1, 2 times | `QuotasHold`, `EvictedForFresher` |
| workers | 2 jobs, 2 machines, 2 losses | `PromiseInv`, `OldestFirst`, the refinement `KeepsPromise`, `ServedJobsLeave` |
| schedules | 4 envelopes, the last for an unknown agent, 2 overlapping requests of limit 2, a death | `DispatchedWasExecuted`, `RunsBounded`, `DueIsDispatched` |
| director | a turn with any request beside one that chose the cloud, 2 rounds, a failing store | `CloudIsPermitted`, `TranscriptKeepsAnswers`, `TurnReturns` |
| agent | 4 grants, one of them without a tool, 3 iterations, 1 call per answer | `MutationsGuarded`, `RetriedOnce`, `AgentReturns` |
| shepherd | 2 services that fail and recover, any file at the first start, 2 deaths, 1 refused alert | `OutagesAreTold` |

`ServicesTypeOK` is the type invariant of all eleven.

- `UpdateLossBounded` counts the messages that got no reply: a crash costs a batch at most,
  an unsaved offset or a refused reply one message. `MessagesTaken` depends on there being
  fewer updates without a message than a batch holds: the code never acknowledges
  those alone, so 100 of them in a row would stop the bot (`BatchLimit` is 3, one of
  the 5 updates is such a one).
- `MessageOnce` states its exceptions: a seen list that was full, and a file that could
  not be written together with a failed seeding.
- `OutagesAreTold` bounds both what a failure can repeat and what it can hide. The comment
  in the code, "Send at most once per transition", holds for a shepherd that does not die
  between the alert and the file; each death can add one alert.
- `NewestKept` is what survives three races: two appends with lists that overlap, an append
  with an old timestamp, and prunes in between.
- `TranscriptKeepsAnswers` says exactly which answers a conversation forgets: exact
  answers and everything the tool loop says. That is what the code does; no document
  promises otherwise. It does not say that the caller got what was recorded: an empty
  answer is recorded and refused with a 503, and an answer without content leaves its
  prompt alone in the conversation.
- `WindowIsServed` has the seeding as an exception: a message that arrives while the process
  is down, or that no task has taken when it dies, is marked seen by the next start and never
  handled. What is *taken* may still go unanswered, by a failure or a death: the code puts
  a message on its list before it handles it.
- `EventuallySettles` has a premise, `BeatsInTime`: from some point on no running job has
  a heartbeat older than 300 s. The code needs it. A tick that finds the heartbeat of a busy
  job too old lists the job as stale, and `_recover_stale_job` only reports it running again,
  without looking at the 180 s of the busy window. If the heartbeat grows old again before
  each tick (a daemon that takes longer than that to come round), the job alternates
  between stale and running for as long as its session is busy; without the premise
  TLC shows it with one job. Any number of lapses before that point is allowed.
- The instances are smaller than the statements in places. A crash of the Telegram bot may cost
  a batch of 3 of its 5 updates, so after one `UpdateLossBounded` leaves little to be
  violated; both quotas of the shared memories are 1, so the store's implies the
  principal's. `TelegramLosesLittle` and `SharedQuotasHold` are the general statements. `ReviewIsIdle`
  is run with one job, several jobs on one session are in `ReviewedAreIdle`.
- `DueIsDispatched` is about envelopes due before the unknown agent's. What is due behind it
  waits for ever, since every request raises there; nothing in the repository promises otherwise.
- Liveness is stated as `[]<>(served)`. Each of these conditions once served stays so until
  something new arrives, hence the form says the same as "what waits is served".

**Why the bounds are enough.** The hazards are races of two actors over one row or
one file, so two jobs, machines, requests or runs let every pair meet; the safety
properties are then proved without any bound (section 5), and TLC's part is to say
that the formulas hold and are not empty: a run covers each action, and each property
fails when the mutant named for it replaces its definition. The bounds limit how often the
environment interferes, and one crash, lapse, outage or failure at any point is what
each hazard needs; two losses of the workers in `services` let one late request race with
another cut run. `loop_operators` needs two requests for one operator's
request to undo another's; with a second job its states go past what TLC can list, so
`loop_two_jobs` takes the requests that involve two jobs, and `loop_settles` leaves requests
and outages out for the second job's sake (a retry only queues the job once more, a send that
an outage breaks blocks it, which is at rest). The listing limits are
20 and 50 except where the limit itself is the hazard. `pilot_gates` is symmetric in
requests and in runs, and checks safety only; no definition orders or names either.

**Fairness.**
- `CloydSmithLoop`: the daemon loops for ever and is restarted (`WF` of its step), a
  process in the middle of a list of operations goes on, clocks advance, an unreachable
  server comes back. Nothing makes Smith answer or an operator act: `EventuallySettles`
  holds although Smith may be silent, because the busy window ends and the session is
  stopped. That the daemon comes round before a heartbeat is too old is no fairness but the
  premise of that property (section 3).
- `WorkerJobs`: the timer starts a run every minute and a run goes on (`WF` of a
  runner's step). Nothing is assumed of late requests.
- `ScheduleDispatch`: somebody calls dispatch-due for ever, time passes, agents answer.
  With deaths bounded by `MaxFailures` this says that not every call dies.
- Connectors: the loop polls for ever, every request has a timeout, launchd or Docker
  starts the process again. Nothing makes messages arrive, and every failure may happen
  at any point up to its bound. The two tasks of iMessage are fair each by itself, as an
  event loop is.
- `DirectorTurn`, `AgentTurn`: every model and tool that is waited for returns or times out,
  and nothing is assumed of what they say.
- `WritePilot`: a call that has begun goes on, and the operator approves what is pending
  and keeps resuming with the record approved last, as `run-pilot` and `resume-pilot`
  do. That is a premise about the operator and not a promise of the code: the property
  says that no crash, failed tool or stale resume can leave such an operator stuck.
  It needs strong fairness for the resume because a run under way keeps it disabled
  for a while.

## 4. Findings

The six violations are disagreements between the code and what its own documents say.
1. *A stop is overwritten* (`StopIsHonoured`). A tick listed the job as queued, the
   operator stops it, the tick writes `running` over the row and sends the prompt. The
   stop tool promises that the supervisor will not continue the job.
2. *More grants than the limit* (`GrantsBounded`). The same read-then-write takes back the
   counters in `metadata_json`; the runtime contract allows three retries and one
   follow-up.
3. *An outage reads as idle* (`ReviewIsIdle`). A session that cannot be asked counts as
   idle and its job goes to review while it is at work.
4. *Reviews starve the queue* (`QueuedIsPickedUp`). Jobs waiting for review count for the
   20 rows a tick lists and are skipped, so enough of them keep queued jobs out.
5. *The start endpoint deletes the target* (`OriginalKept`). It ends at the path gate with
   `rollback_on_unapproved` at its default and rolls back a run that never looked at the
   file: the rollback takes an existing file for one the pilot created.
6. *The month's limit is never compared* (`CloudWithinBudget`). `execute` takes
   `spent_this_month`, default 0.0, and neither caller in `main.py` passes it; only tests do.
   The cloud is used "within budget" as long as nobody spends.

## 5. Proofs

All theorems hold for every value of the constants that satisfies the module's named
assumption, hence for any number of jobs, machines, requests, files, overlapping calls,
crashes and operators' acts.

| Module | Theorem | States |
|---|---|---|
| `CloydSmithLoop_proofs` | `TypeCorrect` | `[]TypeOK` |
| | `DispatchOnce`, `DispatchInvHolds` | `[]DispatchedOncePerQueueing`, `[]DispatchInv` |
| | `ReviewedAreIdle` (without outages) | `[]ReviewIsIdle` |
| | `DoneAreReviewed` (without `--stop-job`) | `DoneIsReviewed` |
| `Queues_proofs` | `WorkersTypeCorrect`, `PromiseHolds` | `[]TypeOK`, `[]PromiseInv` |
| | `QueueImplementsOutcomes` | `Spec` implements `JobOutcomes` |
| | `OldestLeavesFirst` | `[]OldestFirst` |
| | `ScheduleTypeCorrect`, `NothingMarkedUndone` | `[]TypeOK`, `[]DispatchedWasExecuted` |
| | `ScheduleRunsBounded` | `[]RunsBounded` |
| `WritePilot_proofs` | `PilotTypeCorrect`, `GatesHold` | `[]TypeOK`, `[]PilotInv` |
| | `DecisionsAreFinal` | `DecisionsStand` |
| `Connectors_proofs` | `TelegramTypeCorrect`, `TelegramActsOnce`, `TelegramKeepsOrder` | `[]TelegramTypeOK`, `[]UpdateOnce`, `RepliesInOrder` |
| | `TelegramLosesLittle` | `[]UpdateLossBounded` |
| | `SignalTypeCorrect`, `SignalConserves`, `SignalAsksOncePerLife` | `[]SignalTypeOK`, `[]DeliveriesConserved`, `[]SignalOncePerLife` |
| | `GmailTypeCorrect`, `GmailActsOnce` | `[]GmailTypeOK`, `[]MailOnce` |
| | `IMessageTypeCorrect`, `IMessageAsksOnce` | `[]IMessageTypeOK`, `[]MessageOnce` |
| | `ShepherdTypeCorrect`, `ShepherdTells` | `[]ShepherdTypeOK`, `[]OutagesAreTold` |
| `Memory_proofs` | `SharedTypeCorrect`, `SharedQuotasHold`, `SharedEvictsForFresher` | `[]SharedTypeOK`, `[]QuotasHold`, `EvictedForFresher` |
| | `ConversationTypeCorrect`, `ConversationKeepsNewest`, `ConversationStaysBounded` | `[]ConversationTypeOK`, `[]NewestKept`, `[]ConversationBounded` |
| `DirectorTurn_proofs` | `DirectorTypeCorrect`, `CloudOnlyPermitted`, `AnswersAreKept` | `[]DirectorTypeOK`, `[]CloudIsPermitted`, `[]TranscriptKeepsAnswers` |
| `AgentTurn_proofs` | `AgentTypeCorrect`, `MutationsAreGuarded`, `LoopRetriesOnce` | `[]AgentTypeOK`, `[]MutationsGuarded`, `[]RetriedOnce` |
| `Services_proofs` | `ServicesRunAlone` | `ServicesSpec` implies the specification of each service |
| | `ServicesTypeCorrect`, `ServicesKeepPromises` | `[]ServicesTypeOK`, and every safety property of the services in one system |

- **One dispatch per queueing.** `sent <= entered` is not inductive: between the listing
  and the send the tick holds a claim on a queueing that nothing in the ledger shows.
  `DispatchInv` adds it. A queueing is *open* while the row says queued, or the tick has
  it listed as queued, or has yet to save `running`; it is *claimed* from there to the
  send. Each of the two is covered by an entry not yet sent for, and both together by
  two (`Covered`). `SendShape` (what is left to do before a send) and `ListApart` (a tick
  lists a job once) carry it through the steps of a tick; the other actors can only turn
  rows to queued, which adds an entry.
- **Review is idle.** What is up for review must have nothing left in its session, but the
  session is asked well before the row is written, and other processes write in between.
  `RestInv` says who may still write: each process has at most one operation on a row ahead
  of it, and a job whose row is `needs_review` or `done`, or will be by what the Director is
  about to write (`Rested`), is neither listed by the tick nor about to be sent for. `Due` adds
  the jobs that the tick itself is about to put up for review; no step makes a job due
  except the tick's, after the session said it was idle. `IdleInv`: what is due has no prompt in
  the session's queue. The theorem assumes `MaxOutages = 0`, because a session
  that cannot be asked reads as idle (finding 3), and that `cloyd_smith.record` is not used to
  give a verdict by hand.
- **Done is reviewed.** A verdict is written some steps after its guard was passed. `DoneInv`
  says, on top of `RestInv`, that when the Director is about to write a verdict (`DirHolds`) the
  row is already under review or done, that a done job is on no list the Director is going
  through, and that whatever the Director is about to write to it leaves it done, stops it or
  keeps its status (`Mild`). `--stop-job` is a process of its own and writes without asking the
  Director: a done whose guard has passed can land on the row that the stop has just written,
  and the job is done from stopped. A status recorded by hand repeats no guard either. So the
  theorem assumes that the first is not used and the second for nothing but a stop or a note;
  `loop_operators` is such an instance.
- **The queue's promise.** A runner at work holds a job that is running and claimed by it
  (`HolderIsClaimer`), so no two machines hold one job; a late report is true and its job
  held by nobody (`LateIsTrue`); rows agree with the performances (`RowsAgree`). From the
  three, a report is a `Record` step or a stutter and a performance a `Perform` step.
- **Bounded execution.** While an envelope waits, each execution of it ended in a death; once
  it is marked, the executions and the requests that still *hold* it (listed it and have
  not come past it) are together within deaths plus requests (`RunsCovered`). The step that
  marks it is one of the holders (`HeldOnce`), and a marked envelope is never listed again.
- **The gates hold.** `GatesInOrder` alone does not survive a run that is between two
  tools; `RunsApproved` says that a run's gates are consumed up to where it is and that
  what it would restore was approved. `ContentIsApproved` then follows from one lemma,
  `StepContains`: whatever a step leaves in a file, the index, HEAD or a backup was in one
  of them before, or is the content or the original of a run for that target. All of it
  rests on `ConsumedStays`, which comes with `Moved`: each change of a record
  is one of `Life`, and that is also `DecisionsStand`.

- **Telegram acts once, in order.** Neither offset file nor recent list says enough alone.
  `OnceInv` says where every update is: the file is never above `lastOffset`, the updates of
  the batch still to be handled are all above it, and whatever was asked about, answered or
  still owed a reply is at or below the file, so that Telegram never hands it out to this
  gateway or the next. `RepliesInOrder` follows because what was sent is below what is owed.
- **Telegram loses little.** What was lost never comes back, so the count can only grow, and
  `GapInv` says by how much: only updates without a message are passed over between what
  was last recorded and the batch in hand, and the batch, the replies owed and the update at
  the Director together are within `BatchLimit`. A death loses no more than those; a save
  or a send that fails loses one. That a batch is within its limit rests on there being a
  greatest update in it, taken from the well-foundedness of `<`.
- **iMessage asks once.** Two things keep a message from being asked about again: the seen
  list, as far as it reached the file, and the seeding, which marks what is recent at a start.
  Each of them suffices, so `ImOnceInv` states both: while every persist worked, list and file
  agree and hold whatever was asked about; while every seeding worked, what was asked
  about and is not in the list is `Behind` both tasks, out of the window, of the listing
  in hand and of the stream, and none of the three ever goes back. That the list drops nothing
  while no more arrived than it holds is a pigeonhole argument (`SeenHasRoom`). Seeding runs
  `add` over the window in any order; `AddedManySteps` shows by a shortest counterexample that
  the recursive function that describes the loop exists, `SeededFits` in the same way what
  it leaves in the list.
- **Signal conserves.** What each action takes from one place it adds to another
  (`DeliveriesConserved` is itself inductive). Once per life (`LifeInv`): the copies a life asks
  about are on its recent list, which forgets nothing while the messages fit it -- the
  assumption `Cardinality(SignalMessages) <= SignalLimit` of the theorem. Beyond it the
  code does forget, and a copy delivered that late would be asked about again.
- **The shepherd tells.** `TellInv`: while the record is healthy and this cycle has not yet
  alerted, each alert since it turned healthy cost a death; and an outage that is on its
  way to be recorded in silence is paid for already, by the first look, a death in the
  middle of the file or a refused alert.
- **A mail is handled once.** `MailInv` counts per mail: a process asks at most once (`asked`
  is within `lives`, and below it while this life has not recorded the mail) and sends at
  most what it asked; while nobody marks a mail unread again, what is listed is unread, and
  an unread mail was never asked about.
- **Quotas and eviction.** Cardinalities are bounded through what `Trimmed` leaves
  (`GivesWay`): the rows that stay are as many as the limit and none is staler than one that
  goes; the second quota only removes from what the first left.
- **Conversations.** A list of what to delete grows old while other writers commit, but it is
  safe: whatever was listed had `MessageLimit` newer messages then, and what is stored only
  grows (`ListsAreOld`). The bound needs more than one list at a time, because two lists may
  hold the same messages: `ListsCover` says of every set of writers that have listed that
  what is not on any of their lists exceeds the limit by no more than the other appends at
  work and the deaths. With the empty set it is the property.
- **The cloud.** `CloudInv` adds to the property what a turn must satisfy before it is at the
  cloud: a turn that is not private was flagged by neither request nor classifier, and a turn
  whose provider is OpenRouter had the cloud enabled and was neither private nor dear.
- **The transcript.** `FitInv` ties each turn's state to what it has appended, `OfTexts` and
  `OfTurns` each entry to its turn; every step keeps the transcript, or ends a turn and
  appends its prompt and answer together, or ends it without an answer and appends the
  prompt (`Steps`).
- **Mutations.** `LoopBounded` counts, per tool, its executions and what is still pending in
  `nextTools`: one, or two once the loop retried, and a retry is only of a selection without a
  mutation. `MutationInv` adds that a mutation that needs approval was executed by the loop
  only if approved, and that with a question open no mutation was or can be executed.

- **One system.** A step of `ServicesNext` is a step of one service or leaves it alone
  (`OneSteps`), hence each behaviour of the whole is one of every part, and what was proved of a
  part holds of the whole. The fairness of the run is not needed for that.

Recursion over data is within reach where the definition is a recursive function over a
sequence: what the library states with an operator as parameter is replaced by a least
counterexample, from the well-foundedness of `<` on the naturals (`LeastOf`).

**Only model-checked:** the liveness properties (`EventuallySettles`, `ServedJobsLeave`,
`DueIsDispatched`, `ApprovedIsCommitted`, `MessagesTaken`, `WindowIsServed`, `ServiceIsDrained`,
`MailIsRead`, `TurnReturns`, `AgentReturns`), which need fairness and ENABLED and so are out of
the prover's reach. Every invariant and action property that a passing run checks is proved.

## 6. Not modelled, and what is left

Components marked `not_modelled` in `PROJECT.json` carry their reason: request and
response handlers with no state of their own (inference clients, media, front ends), pure
I/O (monitors, identity import, certification scripts), one-statement stores (audit,
machines), generated or vendored material. The Discord client has no state that outlives a
message. How words are classified (`_classify_privacy`, the tool patterns of the agents) is
abstracted to every answer they can give: the properties hold whatever they say, and say
nothing about whether they are right.

Known and not covered by a property: the stop tool leaves a session at work on the prompt of
a stopped job (`tools/cloyd_smith_loop.py:421`); `_incomplete_agent_run_jobs` lists with two
queries (`main.py:893`) and is modelled as one; dispatch-due without a bound on the due
time takes envelopes that are not due (`freyja3_scheduler.py:75`); an approved record never
expires (`agents/approval_store.py:333`); resuming past a consumed content gate with a record
that carries no hash compares the content with nothing (`agents/approval_provider.py:136`); a
commit takes the file as it is in the tree, which another request's run may have written
since the add (`tools/registry.py:342`); a provisional iMessage reply is not followed by
another when the Director fails (`scripts/run-imessage-connector.py:147`).

What would come next: the identity store and the migration of memories between identities, which
plans outside the transaction it applies in; the tool registry with its timeouts as a module of
its own; the Discord bridge (`scripts/run-discord-freyja-bridge.py`), a smaller Telegram gateway.
