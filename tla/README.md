# Verification of the family-budget backend

TLA+ specifications of the backend under `src/`, checked with TLC and proved about with TLAPS.
Each module is translated from the code; `PROJECT.json` gives, for every definition that stands
for code, the file and the lines, and for every property a mutation of the code that breaks it.

## The system

The gateway turns HTTP requests into messages on RabbitMQ; each service consumes one queue with a
`MessageWorker`, calls a handler per message type, and keeps its rows in one PostgreSQL database.
Redis holds idempotency claims, per-user data versions, read caches and short locks. Services call
one another over the bus: by `publish` (background, no answer) or `request` (reply queue, timeout).

| Component | State | Operations | What makes it correct |
| --- | --- | --- | --- |
| Message bus and worker (`libs/common/common/messaging.py`, `redis_client.py`) | service queue, `.retry`, `.dead`, claims in Redis, the delivery in hand | publish, request, consume, retry, dead-letter, acknowledge | no background message forgotten but by a failed publish of its retry or dead letter; handlers not run twice behind the guard; dead letters only after every attempt; queues drain |
| Chat workflow (`chat_service/app/workflow_*.py`, `handlers.py`) | chats, messages, outbox and inbox rows, two queues shared with an external AI service | create/delete chat, create message, flush outbox, consume results | task sent if stored, sends accounted for; one answer per prompt; none for a deleted chat; prompts answered in the end |
| File import (`file_service/app/handlers.py`) | files, import jobs, import lock, transactions through finance_service | upload, run import, bulk_create | one set of transactions per file whatever is repeated; a job ends in a final status |
| Excel parser (`imports/parsers/family_budget_excel_v1.py`) | none | validate header, normalise rows | every row is a transaction or an issue; a row keeps its dedupe key |
| Finance ledger (`finance_service/app/handlers.py`) | transactions, accounts, categories, limits, goals, debts | CRUD, bulk_create, sums | ownership of references, no duplicate imports, every change bumps the version |
| Data versions and read caches (`redis_cache.py`; analytics, health score, group handlers) | version per user, cached results keyed by version | bump, get, compute, set | a cached answer is as fresh as its key claims |
| Groups (`group_service/app/handlers.py`) | groups, members, invitations | create, invite, accept, decline, remove | members come by their owner or by an invitation that stands, and stay until the owner removes them |
| Authentication (`access_service/app/handlers.py`, `gateway/app/dependencies.py`) | sessions, refresh tokens, verify cache | login, refresh, logout, change password, verify | a rotated or revoked token stays dead |
| Regular expenses (`analytics_service/app/handlers.py`) | detected and manual expenses, debounce lock | detect, create, update, delete | one active detected expense per merchant |
| Reminders (`scheduler_service`, `notification_service`) | reminders, notifications, devices | plan, due scan, schedule, deliver | a queued reminder is delivered, and once per charge |
| Health score (`health_score_service/app/handlers.py`) | profile rows, profile cache | calculate, get | scores within bounds, profile fresh |
| Backend data worker (`backend_data_worker/app`) | none of its own | answer context requests of the AI | one response per request, failures answered |
| Migrations, bucket bootstrap (`migration_service`, `create_bucket_service`) | schema, seed users, bucket | run once at start, again after a failure | a completed bootstrap is whole; the file of a row can be read |
| Gateway (`gateway/app`) | none but the verify cache | HTTP to one bus request | covered by the bus's request |

What is hard about it: every worker is at-least-once; handler threads outlive their connection;
a commit in PostgreSQL, a version bump in Redis and a publish are three steps that a crash can
separate; several readers select before they insert; caches are filled with results computed before
the version they are stored under was bumped. `PROJECT.json` lists these hazards at their lines.

## Modules

| Module | Models | Status |
| --- | --- | --- |
| `BackgroundTask` | the abstract promise of the bus: a submitted task is outstanding until its outcome is recorded, or the bus gives it up in a failure of its own | refined by `MessageWorker`, `Reminders` and `BackendData` |
| `MessageWorker`, `MCMessageWorker`, `MessageWorker_proofs` | producers, workers, queues, claims and faults of the bus; instances; theorems | checked and proved |
| `ChatWorkflow`, `MCChatWorkflow`, `ChatWorkflow_proofs` | the transactional outbox, the AI as environment, the result inbox | checked and proved |
| `FileImport`, `MCFileImport`, `FileImport_proofs` | uploads, import jobs and their lock, the rows on their way to finance_service, accounts, transactions and version bumps | checked and proved |
| `ExcelParser`, `FinanceData_proofs` | the parser, over successive exports of one user | checked and proved |
| `UserData`, `UserData_proofs` | data versions and the three caches keyed by them | checked and proved |
| `FinanceLedger`, `FinanceData_proofs` | accounts, categories, limits, goals and debts | checked and proved |
| `GroupMembership`, `Access_proofs` | groups, members, invitations | checked and proved |
| `AuthSessions`, `Access_proofs` | refresh sessions, password change, the gateway's verify cache | checked and proved |
| `RegularExpenses`, `Reminders_proofs` | detection and the user's changes | checked and proved |
| `Reminders`, `Reminders_proofs` | planning, scans and delivery, on top of `RegularExpenses` | checked and proved |
| `HealthScore`, `MCHealthScore`, `Services_proofs` | the components and the score of a profile | checked and proved |
| `BackendData`, `FinanceData_proofs` | the worker that answers the AI's requests for data | checked and proved |
| `Bootstrap`, `FinanceData_proofs` | migration_service and create_bucket_service | checked and proved |
| `MCServices`, `Services_proofs` | one instance of each of the services above but `UserData`, in one run | checked and proved |

`Reminders` EXTENDS `RegularExpenses`: reminders are planned from the rows detection and the user leave
there. `FileImport` contains the bus and finance_service as far as an import sees them. The other services
meet only in the user's data version, which is `UserData`'s.

### MessageWorker

A queue is a bag of copies; a copy is its `message_id` and its `retry.attempts`. A worker's loop goes
`idle → received → running → settling → acking → idle`: deliver, claim (or skip, or fail to parse),
handler, publish of the reply, the retry or the dead letter, acknowledgement. `held` says whether the
broker still counts the delivery as unacknowledged; it is cleared by a lost connection while the
handler thread goes on, which is how one message comes to be processed twice. `LoopFails` is an
exception leaving `_consume_forever`. Replies, retries and dead letters are published inside
`message.process()`, which rejects without requeueing on any exception: `PublishFails`, on a live connection, loses the
message for good (`rejected`), `PublishDisconnected` leaves it to the broker. With `GuardEnabled` the claim is a set of ids in Redis;
`RedisMayFail` lets `SET NX` raise, before or after it took effect, `ClaimMayLapse` lets it expire.

### ChatWorkflow

`CreateMessage` is the transaction of `handle_messages_create`; the handler and the flushers then work
through a batch of row ids (`Scan`, `LockRow`, `TaskAccepted`, `CommitPublished`, `CommitFailure`).
The row lock of `FOR UPDATE` is the guard `~Locked(m)`. `CommitFailure` may follow `TaskAccepted`: the
broker has the task, but its confirmation was late. The consumer's transaction is split where it reads
(`CheckResult`) and where it writes (`StoreAnswer`, or `StoreFails` when the primary key of the
inbox or a foreign key refuses it). Rejection without requeueing, which any exception leads to, drops
the result. The AI service is not in the repository: `AiAnswers` and `AiRepeats` say no more than that
it answers tasks, perhaps several times.

### FileImport

Three kinds of threads. An uploader is in `handle_files_upload_create`: look the file up by its sha256
(`Upload`), insert it (`StoreFile`, or `FileExists` when the unique key refuses it), commit the job
(`CreateJob`), publish (`PublishRun`). A runner is a worker of file_service with a copy of
`files.import.run`:

    idle → received → claimed → locked → marked → sending ⇄ waiting → finishing → releasing → settling → acking → idle

that is deliver, claim, `ImportLock`, commit of `running`, parse, one request and its wait per row,
commit of the outcome in the inner `finally`, release of the lock in the outer one, retry, and
acknowledgement. A finance worker (`Ledgers`) is in `handle_transactions_bulk_create`: it looks
the card's account up (`PrepareRow`), commits account and row (`InsertRow`), bumps the version
(`BumpVersion`) and replies. The look-up takes no lock: several workers may create an account each. `visible` is what the ledger held at the latest bump: what a reader that
honours versions is sure to see.

A row stands for the chunk of up to 500 it is sent in, and is told apart by its `dedupe_key`. The bus
is `MessageWorker` cut down to what an import sees: repeated deliveries, the guard, retries, requests
that time out (`Abandon` turns a request into one nobody waits for). Claims do not expire, and do not fail,
here; finance_service's lost connections appear only as crashes, which also deliver again. An exception after
the import started leads to `FailJob`, which may itself fail to publish the failed event; the status is
committed either way. A crash leaves the lock behind.

### ExcelParser

A user exports a workbook, appends rows to it or edits a cell (the actions `Export…` are the user's and the
bank's, outside the repository), and the parser goes through it sheet by sheet and row by row: `RejectHeader`,
`SkipEmptyRow`, `RejectRow`, `AcceptRow`. A cell is right, missing or invalid, and two right amounts differ.
A dedupe key is the tuple that `normalize_row` hashes. `previous` keeps the export before, so that a property
can compare the keys of both.

### UserData

A change is counted; a result is how many changes it accounts for. Writers commit and bump in two steps, with
a crash or a failing Redis in between (`BumpLost`); `accounts.create` and `accounts.update` never bump
(`CommitAccount`). A reader reads the version, looks the entry up, computes, reads the version again and stores
under it: the steps of `handle_available_balance`. The profile adds its snapshot row; the budget is
computed under the greatest version of the members, which it read first. `Mixed` is a result that a commit
came into the middle of, or whose reader Redis failed: the code promises nothing of it. `TypeOK` holds on the
instance and is kept for the proofs; the run checks the two properties only.

### FinanceLedger

`AskCreate`, `AskUpdate` and `AskDelete` are a handler up to the end of its validation, `CommitCreate` and so
on its commit: the sessions do not flush in between, and take no locks. An update commits only the fields it
was given. `skewed` marks the debts that two overlapping updates changed.

### GroupMembership

Each owner's handler is `CheckOwner` and a commit, each accept is `SelectInvitation` and `CommitAccept`;
the deletion of a group takes its members and invitations with it between the two. `overruled` remembers
whom the owner removed or changed since they joined.

### AuthSessions

`Register`, `Login`, `Refresh`, `Logout` and `ChangePassword` read, and commit in a later step; the update of
`change_password` holds row locks until its commit (`RowsLocked`), invalidation of the verify cache follows it in
two steps (`ReadIndex`, `DeleteEntries`). The gateway verifies and caches in two steps. `races` and `late`
count what runs into a rotation or a change of the password, `gap` the tokens cached while the index is emptied.

### RegularExpenses and Reminders

Detection asks for the cooldown and the lock unless forced, selects an active expense per candidate, commits,
marks and releases. `exclusive` falls once detection was forced, Redis failed or the lock lapsed in use.
Planning, scans and notifiers are threads of their own; a scan publishes inside the transaction that marks, a notifier
commits the deliveries before it acknowledges. A notifier whose handler failed has its message retried, dead-lettered or,
when that publish raises, lost (`rejected`). `repeats` counts the overlaps and failures that cost a charge
another delivery.

### HealthScore

The formulas of `handlers.py` as operators over small amounts, percents in hundredths, a component that cannot
be computed as the empty set. `ReadTransactions` and `ReadRest` read at different times; `torn` says that the
data changed in between. `Decimal` rounding is coarser than in the code.

### BackendData

One consumer, an AI that asks for sets of data types, transactions that change while they are fetched by
offset. A page is the count (`CountRows`) and the select (`FetchPage`) of `handle_transactions_list`, two statements between
which the transactions may change; the select answers in any order that the time and the row in the sheet (`Rank`)
allow, another one at each page. The two providers differ as in the code: the bus gives up what it has when a page fails, the HTTP client
keeps it, and they stop by different counts.

### Bootstrap

`main` runs through the schema, the reset, and one action per transaction of `run_bootstrap`; it may die anywhere
and is started again, with the reset on or off. The bootstrap data are parts, counted: the user, the chunks
of the workbook, the demo transactions, each demo chat. create_bucket_service interleaves with it as the
two compose files allow (`settings.waits`).

## Runs

| Run | Instance | Shows |
| --- | --- | --- |
| `worker_guarded` | b1, r1; 2 workers, 1 retry, 2 faults, Redis may fail, guard | `AtMostOnce` |
| `worker_refines_task` | b1 and unparsable x1; 2 workers, 2 retries, 2 faults, no guard | `TypeOK`, `NoSilentLoss`, `DeadOnlyWhenExhausted`, `ImplementsBackgroundTask`, `EventuallyRecorded` |
| `worker_guarded_live` | guard, Redis failures, lapsing claims, 1 worker, 1 fault | `EventuallyDrained` |
| `worker_guard_loses_retry` | b1, guard, no faults | violation of `NoSilentLoss`: see Findings |
| `chat_delivery` | 1 prompt, 1 other message; handler, 2 flushers, 2 consumers; 2 attempts, 2 faults, working database | `TypeOK`, `SendsAccounted`, `NeverResentOncePublished`, `ResultNotLost`, `EventuallyAnswered` |
| `import_unguarded` | 1 job of 2 rows on one card, some with errors; 2 runners, 2 finance workers, no retry, 1 fault; no guard | `TypeOK`, `CompletedMeansImported`, `CompletedIsVisible`, `AccountsReused`, `LockExclusive` |
| `import_guarded` | the same with 2 uploads, 1 finance worker, 1 retry, the guard, a failing store, failing Redis and lapsing locks | `FinalStatusStable`, `EventuallyFinished` |
| `import_skips_lost_chunk` | guard, 1 thread of each kind, 1 fault | violation of `CompletedMeansImported`: see Findings |
| `user_data` | 2 members, a writer and a reader of each kind, 2 changes, 2 requests, 1 failure | `BalanceMissesOnlyOverlaps`, `BudgetAsFreshAsItsKey` |
| `services` | see below | 19 properties of ten services |
| `pushes_never_sent` | 1 charge, a planner, a scan, a notifier, a working Firebase | violation of `PushesAreSent`: see Findings |
| `everything_unclear` | one profile | violation of `OnlyUnclearIsUnclear`: see Findings |

`services` explores the services that share no state here one at a time: `part` is chosen at the beginning, the
rest stands still, so the state space is the sum of the parts and not their product. Its instances:

| Part | Instance | Properties |
| --- | --- | --- |
| sessions | 2 threads, 1 of the gateway, 3 sessions, 1 access token, 4 requests | `SessionsAccounted`, `OldSessionsRevoked`, `CachedTokensIndexed` |
| groups | 2 threads, groups, users and invitations; 4 requests | `AcceptedIsMember`, `AdmittedByOwner` |
| expenses | 2 detections, 1 merchant, 3 rows, 4 calls, 1 failure | `DetectedOncePerMerchant` |
| reminders | with them 2 planners and scans, a notifier, 2 reminders, a limit | `QueuedIsAccounted`, `DeliveredOncePerCharge` |
| data worker | 1 request, 3 transactions, two of which tie, in pages of 1, 4 changes, 2 faults | `RequestIsAccounted`, `TransactionsAreWhole` |
| bootstrap | 2 chunks, 2 chats, 3 starts, 2 faults, every setting | `CompletedBootstrapIsWhole`, `FileIsStored` |
| ledger | 2 threads, 2 users, an account, 2 other rows, 3 requests | `ReferencesOwned`, `CreditCardsHaveLimits` |
| parser | 3 sheets, one of another name; 3 rows, 2 exports | `KeysFollowRows` |
| scores | amounts of up to 3 hundred, a goal with a positive or a negative target, two debts, 1 change | `ScoreOfWhatIsKnown` |
| inbox | 2 prompts, one with an unparsable result; 2 consumers, failing database, 2 faults | `AnswersMatchInbox`, `NoOrphanAnswer` |

Some properties name what the code lets slip, and bound it: `SessionsAccounted`, `DeliveredOncePerCharge`,
`CreditCardsHaveLimits`, `TransactionsAreWhole`, `AccountsReused` and `BalanceMissesOnlyOverlaps` hold but for a counted
race, and `NoSilentLoss`, `EventuallyRecorded` and `QueuedIsAccounted` but for a failed publish of the retry or dead letter,
which the code does nothing against and the instances are large enough to meet.

Bounds. Two workers, threads or consumers are enough for one to be late while another has its message; one
retry or attempt shows the boundary, two an intermediate one; two faults let a redelivered copy be
redelivered again. One file of two rows lets a job fail
half-way; two runners let a redelivered run meet the first one, and two finance workers a timed out row the same row of
the redelivered run, which is how a card comes by two accounts. Without
retries a redelivery is what brings a run back there; `import_guarded` has the retry. Two members let one hide the other's version.
Three sessions let two refreshes race and a third be left. Three starts let a crashed one be followed by one that
skips the reset and one that does not skip it. `MaxRequests` and its like bound the handlers that begin, not what
they do. Every fault counts against its bound; handler failures, late confirmations and
refused inserts of the bus and the chats do not, they are bounded by the attempts.

`CHECK_DEADLOCK FALSE`: the systems come to rest when nothing is left to do, or a bound is reached.

Symmetry: workers, runners, finance workers and the rows of one file are interchangeable in the runs that say
so, none of which has liveness properties.

Fairness. Weak fairness of each worker's or thread's own steps: their loops are `while not stopping`,
restarted by `_run` or by the container's restart policy, handlers and publishes return or time out.
Of the broker: it delivers and expires. Of the AI service: it answers what it takes. Of an
uploader only that it publishes the job it committed. Nothing is assumed of users, faults, Redis or
PostgreSQL. `EventuallyFinished` excludes dying processes and a failing bus: the code has nothing that
takes up a job whose runner died, or whose message was never published. The services of `services` and
`user_data` promise nothing in the end: their handlers are one-shot, and safety is what is asked of them.

## Proofs

For every value of the constants:

* `MessageWorker_proofs`: `TypeCorrect`; `GuardedAtMostOnce` (guard on, claims do not lapse), from
  "an unclaimed message has not been started"; `DeadLettersExhausted`, from an invariant that a copy with
  n attempts implies n failures; `UnguardedNoSilentLoss` (guard off), from an invariant that also follows
  deliveries that are settled but not acknowledged; `UnguardedImplementsTask`: every step maps to a
  step of `BackgroundTask` or a stutter, `PublishFails` being the step that abandons a task.
* `ChatWorkflow_proofs`: `TypeCorrect`, which needs the exclusiveness of row locks (`LockInv`) and that
  only written prompts have tasks (`QueueInv`); `SendsBounded` from `SendInv`, which
  adds to the bound that an unpublished row without a just-served sender has one send less;
  `NotResent`; `OneAnswer` and `NoOrphans` from `InboxInv` (stored messages have live chats);
  `ResultsSurvive` (working database) from `ResultInv`; and, putting the outbox, the AI's queues and the inbox
  together, `PromptsAreAccounted`: a stored prompt is an unpublished row, a task, a result on its way or an answer.
* `FileImport_proofs`: `TypeCorrect`, inductive with `Linked` (what a thread holds exists) and `Calls` (only
  waiting runners have a request out, and at most one, queued or taken); `CompletedIsImported` (guard off) from
  `ImportInv`: what a runner has not still to send is in the ledger, but for the row it waits for, and that one
  too once its request was answered with ok; `CompletedIsShown` (guard off, Redis counts) on top of
  it; `LockExcludes` (Redis answers, no lock lapses); `FinalStays` (guard on) from "one copy or runner per job";
  `AccountsPerWorker`, from an invariant that the accounts of a card and the finance workers that found none and have not
  committed are together no more than the workers, of which `LedgersAssumption` says that they are finitely many. The
  assumptions on the guard are needed, as the findings show: with it a completed job may lack rows.
* `UserData_proofs`: `BalancesMissOnlyOverlaps` and `BudgetsAreAsFreshAsTheirKey`, from one invariant that needs a
  history the model does not keep: for each member the version it had when the greatest of the members' versions last
  rose (`UserDataInv` says that there is one). What accounts for the present version of its user accounts for what was
  completed, and what accounts for a version from that history on, for what was completed when it rose. That a finite
  set of versions has a greatest is proved along the strict-subset order. Members, writers and readers are any sets,
  the members a finite one; the bounds play no part.
* `Access_proofs`: of the sessions `AuthTypes`, whose invariant counts the changes of the password under way,
  `SessionsAreAccounted`, `OldSessionsAreRevoked` from `SweepInv` (until a change of the password commits, each active
  session is among those it has swept, or late) and `CachedTokensAreIndexed`; of the groups `GroupTypes`,
  `AcceptedAreMembers` from `MemberInv` and the action property `MembersAreAdmitted` from `Addressed` (an invitation a
  handler is accepting is its user's for as long as it stands).
* `FinanceData_proofs`: of the ledger `LedgerTypes`, `ReferencesAreOwned` (an invariant over rows and over what a
  handler has validated and not yet committed: no request changes an owner or a kind) and `CreditCardsAreLimited` from
  `CardsInv` (the updates a handler validated against a row leave it valid, unless another update came between); of
  the data worker `BackendTypes`, where distinct transactions bound the table, `RequestsAreAccounted`,
  `AnswersAreWhole` from `PagesInv` (undisturbed, the pages read so far agree with the table up to ties and end at a page's
  end), and `RequestsAreTasks`: each step maps to a step of `BackgroundTask` or a stutter, a response being the outcome
  and a request that `process()` rejects an abandoned task.
  Of the bootstrap `BootstrapTypes`, `FilesAreStored` and `CompletedIsWhole` from one invariant that ties the
  contents of the database to where `main` is. There too, since bootstrap reads its workbook with that parser:
  `ParserTypes`, and `KeysFollowTheirRows` from an invariant that the transactions and issues so far are those of the
  rows passed. It assumes that the sheets of a workbook have different names, as Excel sees to.
* `Reminders_proofs`: `ExpenseTypes`; `OneExpensePerMerchant` from `ExclusiveInv` (one detection has the lock);
  `ReminderTypes`; `QueuedAreAccounted`; `DeliveriesAreLimited` from a count of all that can still become a delivery
  of a charge: deliveries, copies in the queue and at notifiers, planned rows, scans that selected a row somebody else
  took, and plannings that found none. It counts members of sets of threads and rows, which `ReminderAssumption` takes
  to be finite. `NotificationsAreTasks` shows that `Reminders` implements `BackgroundTask`, with the notification of a
  charge for a task: it is outstanding while a message of it is queued, at a notifier or dead-lettered, and a delivery
  or a dead letter is its outcome; a rejected message abandons it. It rests on the invariant of `QueuedAreAccounted`: a notifier forgets a message only
  after a delivery of its charge, or with the failed publish of its retry or dead letter.
* `Services_proofs`: of the scores `HealthTypeCorrect` (each component is missing or from 0 to 100) and
  `ScoreIsOfWhatIsKnown` (the total score lies between two of the components present, and the total of the expenses is
  the sum of the categories shown, unless data changed in between). Both need laws of sums over finite sets: a sum is
  one term and the sum of the rest, is natural if its terms are, and a weighted mean lies between two of its values.
  An operator cannot be passed to a theorem here, so the laws are stated for the function that is summed, and what is
  proved by induction over the set is that the set of the subsets with the law holds all of them. `HealthDataAssumption`
  says what the other services guarantee of the data: incomes, expenses and the fields of debts are not negative,
  balances and goals may be, for `goals.create` looks at no sign. Then `ServicesTypes`: `MCServices` keeps the type of
  every service. Each `…Composed` lemma shows that the composition implements the specification of one service,
  whose own theorem does the rest; `ServicesKeepTheirs` carries the other properties of the run over in the same way.

Only model-checked: the four liveness properties (`EventuallyRecorded`, `EventuallyDrained`, `EventuallyAnswered`,
`EventuallyFinished`), which TLAPS does not do. Every invariant and action property of a run that passes is a theorem.
`UserData.TypeOK`, which no run checks, bounds the changes of all users together; its theorems use types without
that bound.

## Findings

`worker_guard_loses_retry`: `_handle_message` claims a `message_id` before the handler runs and keeps the
claim when it fails; `_retry_or_dead_letter` republishes under the same id. With Redis enabled the first
retry is answered `duplicate_skipped` and acknowledged: the failed task is neither run again nor
dead-lettered, while `docs/backend-architecture-levels.md:190` says failed background tasks go to the
retry/dead-letter queues.

`import_skips_lost_chunk`: finance_service dies after it claimed a chunk and before it committed it. The
redelivered request is answered `duplicate_skipped` with ok, which `_send_transactions` takes for success: the
job is `completed` and `files.import.completed.v1` announced without the chunk.

`pushes_never_sent`: `notification_service/app/handlers.py:285` reads a module variable that only
`runtime.py` defines; the `NameError` is caught and recorded as a failed delivery, so that no push is ever
sent, though `docs/backend-plan.md:288` says it is.

`everything_unclear`: a marker of `UNCLEAR_CATEGORY_MARKERS` is the empty string, which every name contains:
all expenses are unclear and `clarity_score` is 0 for everybody who has any, against `docs/backend-plan.md:441`.

## Observations

Met while modelling, and in the models, but without a run of their own:

* Two finance workers that handle chunks with a new card each create an account for it
  (`finance_service/app/handlers.py:702` selects, then inserts, with no unique constraint), while
  `docs/backend-plan.md:33` says existing accounts are reused. `import_unguarded` reaches this: a request times out
  while it is handled, the runner dies, and the redelivered run sends the row again. `AccountsReused` says that it gets
  no worse: an account per worker at most.
* A retry or dead letter whose publish raises on a live connection is lost with its delivery: `message.process()` rejects
  without requeueing (`libs/common/common/messaging.py:346`, `:359`) and the queue has no dead-letter exchange, though
  `docs/backend-architecture-levels.md:190` says failed background tasks go to the retry/dead-letter queues.
* Transactions that tie in `operation_at` and `source_row_number` (the row is unique within a file and sheet only) come
  in no fixed order (`finance_service/app/handlers.py:151`): with nothing changed, an answer of the data worker may hold one
  twice and miss the other.
* `health.profile.get` answers from a snapshot of any age (`health_score_service/app/handlers.py:39`) and stores it under the
  current version: without `refresh` a profile never changes again, though `docs/redis-usage.md:96` and `:167` describe
  its invalidation.
* A regular expense the user disabled or adjusted is created again by the next detection, which looks for active detected
  ones only (`analytics_service/app/handlers.py:122`), though `docs/backend-plan.md:317` lets users correct or disable them.
* `accounts.create` and `accounts.update` change the balance and bump no version: cached balances keep the old one until
  another change bumps it, against `docs/redis-usage.md:167`.
* With `BOOTSTRAP_RESET_ON_START=false` a second start fails on the unique email of the bootstrap user and exits with
  an error, though `docs/backend-plan.md:620` calls the bootstrap repeatable; the reset is on by default
  (`migration_service/app/config.py:17`).
* `docker-compose.prod.yml` does not make create_bucket_service wait for the migration: it may run between the schema
  and the reset, and lose its record to the truncation, or exit for want of the table.
* The tables of the outbox and the inbox are in `migrations/090` and `091`, which no Alembic revision applies
  (`docs/backend-plan.md:599` wants one per change).
* `_category_limits` answers an empty list on every path, so `budget_score` is never computed.
* An inserted row shifts the row numbers below it, and with them their dedupe keys: an export with a row added in
  the middle imports the later ones again. `KeysFollowRows` therefore speaks of rows that kept their place.

## Not modelled

The text of messages, answers, errors and advice; results of the AI addressed to another chat (refused like
a missing prompt); AI tasks the AI service never answers (no promise is made about them); the order
within a flusher's batch; the synchronous copies of the worker's helpers that only tests call; HTTP, with the routes
and schemas of the gateway, which validate a body and forward one request; lists, sums and searches, which change nothing;
recommendations; how tokens are made and hashed. Of the import: the status of `uploaded_files`, the rows of `import_errors`,
reading and deleting files. Of the caches: the lapse of entries, which only makes a miss. Of the health score: history
and comparisons. Of the parser: how cells are written; a cell is right, missing or invalid.

## Plan

Done: all modules above, and a theorem for every safety invariant and action property of the runs.
What would come next:

1. An abstract cache that answers like the database at some moment not before its version, refined by `UserData`.
2. `MessageWorker` as what `FileImport` and `Reminders` take of the bus: their queues refine its queues.
