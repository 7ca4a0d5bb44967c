# Event fanout: a TLA+ model

This directory holds a TLA+ model of the event fanout service, the TLC
configurations that check it on small instances, and proofs, checked by TLAPS,
of what matters most for instances of any size. It was written from the Go
source; the documents under `docs/` are used for what the code is *supposed* to
do, never for what it does.

## 1. The system

Clients POST events to an HTTP server, which stores each in PostgreSQL and
appends it to a Redis stream. Workers read the stream through one consumer
group, find the subscriptions whose rules match, and POST the event to each
webhook, with one `delivery_attempts` row per (event, subscription) pair. Rows
that failed are tried again by the same workers from PostgreSQL. Nothing but
those three tables and the stream is shared; server and worker processes never
talk to each other.

| Component | State | Operations | What makes it correct |
|---|---|---|---|
| Event ingestion (`internal/service/event_service.go`, `http/handler.go`) | `events` table; a request in progress | INSERT, then XADD | a 201 means stored *and* queued; nothing is queued that is not stored |
| Stream (`internal/queue`) | entries, the group's cursor, its pending entries and their idle times | XADD, XGROUP CREATE, XREADGROUP, XACK, XAUTOCLAIM | an entry is acknowledged only when no delivery depends on it any more |
| Subscription API (`subscription_service.go`, `subscription_repo.go`) | `subscriptions` table; PUT's copy | POST, PUT (SELECT then UPDATE), DELETE | a deleted subscription stays deleted, and hears nothing more |
| Delivery attempts (`delivery_repo.go`) | `delivery_attempts` table | SELECT, upsert, two UPDATEs, the query for due rows | success and final failure are final; attempt numbers count attempts |
| Worker loop (`internal/worker/processor.go`) | one goroutine's position and locals | read, reclaim, retry tick | every owed delivery ends, whatever crashes; nothing in the loop waits longer than it must |
| Fanout service (`fanout_service.go`) | the attempt in hand | ProcessEvent, ProcessPendingRetries, deliverAttempt, markFailure | success is recorded only if earned; giving up only when exhausted; no retry before its backoff |
| Webhook client (`internal/delivery`) | none | POST | classifies an outcome |
| Rules matcher (`matcher.go`) | none | Matches | a wildcard is the only thing that is not literal; comparisons agree with each other; a rule that cannot be evaluated lets nothing through |
| Audit queries (`event_service.go`, `delivery_repo.go`, `handler.go`) | a page being put together; what the client has so far | GET `.../audit`, page by page | a client that pages to the end has seen every row there was |
| Other read handlers, health check, configuration, deployment | none that matters here | | not modelled (section 6) |

What is hard about it: a worker is one goroutine but there are several workers,
every call of each is a round trip to one of two stores or to a subscriber, and
between two of them anything may happen: another worker reclaims the same entry
(an entry counts as abandoned after 30 s, no longer than the timeout of *one*
POST), takes the same row from the retry query, or the subscription is changed
or deleted; the process dies; a statement takes effect though it reports
failure; Redis loses what it holds. A worker is also a single loop that reads,
reclaims and retries in turn, so each of the three can hold up the others; and
an audit is read in pages while all this goes on. `PROJECT.json` lists these hazards at the
lines where they bite.

## 2. Modules

| Module | Models | Extends |
|---|---|---|
| `FanoutTypes` | events, subscriptions, pairs | |
| `EventStream` | the stream and its group, a Redis command each | `FanoutTypes` |
| `FaultModel` | which faults happen, and how many | |
| `EventIngest` | `POST /events` | `EventStream`, `FaultModel` |
| `Subscriptions` | the subscription API | `FanoutTypes` |
| `DeliveryStore` | the `delivery_attempts` table, a SQL statement each | `FanoutTypes` |
| `FanoutWorker` | worker loop, fanout service, webhook client | the above |
| `EventFanout` | the whole service; its properties | `EventIngest`, `FanoutWorker` |
| `DeliveryLifecycle` | the abstract life of one delivery | |
| `MCEventFanout` | values for the configurations | `EventFanout` |
| `EventFanoutProofs` | proofs: types, `Inv`, and how a step writes each part of the state | `EventFanout`, `TLAPS` |
| `RequestProofs` | proofs: what the event API promises | `EventFanoutProofs` |
| `WorkerProofs` | proofs: any number of workers | `EventFanoutProofs` |
| `OneWorkerProofs` | proofs: one worker | `WorkerProofs` |
| `LifecycleProofs` | proofs: one worker implements `DeliveryLifecycle` | `OneWorkerProofs` |
| `PollLoop` | the worker loop against the clock | |
| `PollLoopProofs` | proofs: types, the backoff, the two bounds on waiting | `PollLoop`, `TLAPS` |
| `AuditQueries` | an audit in pages, over a table that changes | `DeliveryStore`, `Subscriptions`, `FaultModel` |
| `MCAuditQueries` | its symmetry | `AuditQueries` |
| `AuditProofs` | proofs: what a client that pages has seen | `AuditQueries`, `TLAPS` |
| `RulesMatcher` | the rules of a subscription | |
| `MCRulesMatcher` | rules and events for it | `RulesMatcher` |
| `MatcherProofs` | proofs: what patterns and payload rules mean | `RulesMatcher`, `TLAPS` |

`EventFanout` composes the first six. `PollLoop` times what `FanoutWorker` takes
apart step by step, `AuditQueries` reuses the table and the subscriptions with a
reader in place of the workers, and `RulesMatcher` computes what the composition
has as the constant `Matches`.

In the composition one step is one Redis command, one SQL statement, one POST, one fault or one
tick of a clock. A worker's `pc` names the call it makes next:

    init ─ claim ─ subs ─ attempt ─ [create] ─ post ─ record ─ attempt … subs ─ read
                                                                         └ claim ─ … retries ─ load ─ post ─ record ─ load … read

| Code | Actions |
|---|---|
| `Run` up to the loop | `Start`, `StartFails` |
| `reclaimAndProcess` | `Claim`, `ClaimNoGroup`, `ClaimFails`, then the messages one by one, `MessagesDone` |
| `ReadEvent` in `Run` | `Read`, `ReadFails`, `ReadTimeout` |
| `ProcessEvent` | `ListSubs`, `ListSubsFails`, `Lookup`, `LookupFails`, `CreateAttempt`, `CreateAttemptFails` |
| `deliverAttempt`, `markFailure` | `Post`; `Record`, `RecordFails` (with `Saves`, `MarkFailure`) |
| `processMessage` | `Ack`, `AckFails`; `Abandon` for the early return |
| `ProcessPendingRetries` | `ListRetries`, `ListRetriesFails`, `Load`, `LoadFails`, `RetriesDone` |
| death and restart of the process | `Crash` |
| `cmd/server/main.go` | `ServerStarts` |

Three history variables record what no part of the program knows: `owed`, the
pairs due since the event was queued; `heard` and `posts`, what the POSTs of a
pair came to and how many there were.

The other modules:

| Code | Definitions |
|---|---|
| `Run`'s loop, its ticker and its 2 s reads | `TakeEvent`, `FinishEvent`, `ReadTimesOut`, `Wake`, `ListDue`, `Retry`, `FinishRetries`; `Ticker`, `Second` (`PollLoop`) |
| `markFailure`'s backoff | `Delay`, `FailAttempt`, `Schedule` (`PollLoop`) |
| `ListPendingRetries`, its order and LIMIT | `IsDue`, `InBatch`, `MovesUp` (`PollLoop`) |
| `pagination`, `GetEventAudit`, `GetSubscriptionAudit` | `PageSize`, `StartAudit`, `OpenRequest`, `ListPage`, `LoadUrl`, `LoadUrlFails`, `Respond` (`AuditQueries`) |
| `ListByEventID`, `ListBySubscriptionID` | `Rows`, `Place`, `Newest`, `Window` (`AuditQueries`) |
| `Matches`, `matchPattern` | `Matches`, `Decide`, `MatchPattern`, `Step`, `After` (`RulesMatcher`) |
| `evaluatePayloadRule` and what it calls | `EvaluatePayloadRule`, `ExtractPath`, `Field`, `CompareValues`, `Shown`, ... (`RulesMatcher`) |

### What the model abstracts

In the composition:

- The stream is kept whole (the service never trims it), so an entry's ID is
  its position. Consumer names are left out: no command used depends on them.
  Data loss empties the queue but keeps the IDs.
- `next_retry_at` is NULL, future or reached. The order in which rows come due,
  which is all that `ORDER BY` can observe, is kept in `older`; the skew between
  the worker's clock, which sets the time, and PostgreSQL's, which compares it,
  is ignored in that order.
- Rules are a relation `Matches` between events and subscription bodies; a rule
  that cannot be evaluated counts as one that does not match, as in the code.
- A POST comes to `ok` (2xx), `client` (4xx), `retry` (anything else) or `lost`
  (the subscriber took the event, the worker saw an error). Which URL it went
  to is not kept, so staleness of the URL is not seen.
- The foreign keys never refuse an INSERT: `QueuedIsStored` is why.
- XAUTOCLAIM takes the oldest idle entries. That one call looks at no more than
  ten times as many pending entries as it may return is left out: entries that
  are not idle yet could hide others for a while.
- A failing statement may or may not take effect, but takes effect before the
  caller goes on. A statement of a dead process that is executed later than the
  process's restart is not modelled.
- SIGTERM cancels the context, fails the call in progress and ends the process:
  that is `Crash`.
- Without its group, XREADGROUP fails at once and `Run` calls it again. That
  changes nothing, so the worker just stays at `read`.
- The order of subscriptions in `ListAll` and of rows in a retry batch is left
  open.

In `PollLoop` a second is the unit, one worker runs, nothing fails, and a whole
message, reclaim or retry pass takes any time from 0 to `MaxWork` seconds. One
row is followed through its retries. When it comes due any number of other due
rows, up to `MaxAhead`, come before it in the order of `next_retry_at`; it is in
the batch if they are fewer than `RetryBatch`. If not, those in the batch are
delivered, given up or scheduled behind it, so that it moves up, except for
`Skipped` rows at most: those of an inactive subscription, which the pass leaves
where they are.

In `AuditQueries` the workers are reduced to `Insert`, which is `Create` by any
of them for any pair; what they change in existing rows moves no row. The order
of a page has no tiebreaker in the code, so rows with one `created_at` could
come in any order; here no two rows have the same. Of a view only the pair and
whether its URL was found is kept. `total_subscriptions` is left out; it counts
the rows of the page and not those of the event, so no property is about it.
The audit of a subscription reads the subscription before the page and looks up
no other; that of an event looks up the subscription of each row.

In `RulesMatcher` a number is an integer or the negative zero of a `float64`. It
shows its sign and all its digits, and from 10^6 on an exponent, as `%v` shows a
`float64`. Sign and digits are the constant `Numeral`, of which only this
matters: different numbers have different ones, 0 and -0 among them. In order
the two zeros are equal. The values in play are the constant `Json`, any set
that holds the parts of its members. What a regular expression matches is a
constant; the text of a list or an object is the sequence of the texts of its
parts. The `*` of a pattern becomes `.*` without the `s` flag, so it does not
pass a newline: `PatternMeansGlob` is about values of a single line.

## 3. What the runs check

Passing runs:

| Run | Instance | Properties |
|---|---|---|
| `one_worker` | 1 worker, 1 subscription with 2 bodies, requests that overlap one PUT, 2 entries, 2 faults of any kind | `ImplementsLifecycle`, `SuccessIsFinal`, `NumberNeverDecreases`, `NoNewPostAfterDelete`, `GivesUpOnlyWhenExhausted`, `PostsWithinRetries`, `DeletedFallsSilent`, `AcceptedIsQueued`, `QueuedIsStored`, `Inv` (with `TypeOK`), `OneWorkerInv` |
| `two_workers` | 2 workers, 2 subscriptions, 1 database fault | `NoDeliveryForgotten`, `SuccessIsEarned`, `AttemptNumberBounded` |
| `liveness` | 1 worker, 2 subscriptions, 2 entries, a retry batch of 1, 2 faults of any kind | `OwedSettlesUnlessLost`, `ImplementsLifecycle` |
| `poll_loop` | the code's 5 s ticker, 2 s reads and 5 s base delay, 4 attempts, a retry batch of 2, up to 3 due rows before the one followed and 1 that is skipped, 2 waiting entries, work of up to 6 s | `BackoffHonoured`, `EventPrompt`, `RetryPrompt`, `PollTypeOK` |
| `audit` | 3 subscriptions, requests that overlap one PUT, page sizes 1, 2 and the default, 1 database fault | `PagesMissNothing`, `RepeatsAreInserts`, `UrlsAreFound` |
| `rules` | patterns of up to 4 and values of up to 3 characters; 11 JSON values, 0 and -0 among them, in payloads of depth up to 2; lists of up to 2 of 12 payload rules | `PatternMeansGlob`, `ComparisonsAgree`, `AddedRulesOnlyNarrow` |

*One worker.* Even with every fault, one worker keeps a success a success:
reprocessing always meets the row. It gives up only after a 4xx or `MaxRetries`
POSTs, and as long as nothing has gone wrong it never makes more of them, though
a delivery may come up in both of its loops (`PostsWithinRetries`). The rows,
the worker's attempt in hand and the answers implement `DeliveryLifecycle`, the
state machine of `docs/delivery-guarantees.md`: at most one POST of a pair is
evaluated at a time, none follows a success, and as long as nothing has gone
wrong none follows a failure and there are at most `MaxRetries`. The faults of
the service are the abstract `trouble`, which lets a reply be forgotten or a
failed delivery be tried again, and nothing else. `NoNewPostAfterDelete` says
what a DELETE, which is not seen by a worker that has listed the subscriptions
already, still stops: from then on nothing more is added to what a worker is
about to POST to that subscription. `DeletedFallsSilent` is what this comes to
in the end: once the PUTs that read the subscription before the DELETE and the
deliveries that workers had in hand are over, it stays deleted and hears nothing
more, for good. (That such a PUT brings it back is the run `deleted_returns`.)
`Inv` and `OneWorkerInv` are the invariants the proofs of section 4 rest on.

`MAX_DELIVERY_RETRIES` is read here as the code reads it: the number of POSTs in
all. `PostsWithinRetries`, `GivesUpOnlyWhenExhausted`, `AttemptNumberBounded`
and the `MaxAttempts` of `DeliveryLifecycle` say that `markFailure` keeps to
that, through both loops, races and faults. The documents read it as the number
of retries that follow the first POST (five delays for a value of 5);
`EveryRetryIsMade` says so, and the run `retries_missing` shows that the code
does otherwise.

*Several workers.* What survives their races is weaker, and stated for them:
nothing acknowledged is forgotten, nothing is a success that was not earned,
and the attempt number passes `MaxRetries` at most once for every further
worker. In turn a delivery may be given up one POST early for every further
worker: that is how `GivesUpOnlyWhenExhausted` is stated. TLC checks it for one
worker, where nothing is given away; section 4 proves it for any number.

*Liveness.* Across crashes, failed updates, lost replies, entries that are
pending with nobody at work on them and the loss of Redis' data, every owed
delivery ends (`OwedSettlesUnlessLost`), with three exceptions, each of which is
needed (without it TLC finds the property violated):

- every worker has left `Run`, which returns on one failed XGROUP CREATE while
  its process lives on, and nothing restarts it;
- the event was only in Redis and had no row yet when Redis lost its data;
- the consumer group is lost and no process is ever started that creates it
  again. A running worker does not: XREADGROUP's error sends it back to
  XREADGROUP, so it never comes to the retries that PostgreSQL remembers. The
  documents call in-flight deliveries "unaffected" by the loss
  (`docs/delivery-guarantees.md:144`); they are once the group is there again,
  which is what the property says of them.

The run `retry_starvation` shows that requests of the subscription API, which
`liveness` leaves out, can break it too. `ImplementsLifecycle` is checked here
as well, for two deliveries side by side.

*The clock.* `Run` makes a retry never earlier than the backoff, although the
ticker drops ticks while a pass takes longer than its period. An entry waits for
one idle wait, one reclaim and one retry pass and for the entries before it
(`EventPrompt`). A due row waits for one round while the stream is empty, or,
where more due rows come before it than `LIMIT` lets through, for as many more
rounds as there are too many (`RetryPrompt`); this needs a batch that the rows
skipped for ever cannot fill, which is what `retry_starvation` does, and an
empty stream, which `busy_stream` does not leave. Both bounds are reached: one
second less and TLC finds them violated.

*Audits.* A client that pages to the end misses no row that was there when it
began, because rows only come in and never move; it may see rows twice, at most
one for each that came in.

*Rules.* A pattern means what its wildcards say; the operators, which compare
texts for `==` and numbers for `<`, agree with each other where both apply, with
one exception that `ComparisonsAgree` names: 0 and -0 are one number in order
and two texts, so that `<=` and `>=` hold of them and `==` does not; and rules
that are added, whether or not they can be evaluated, never let an event through
that was held back before.

*Runs that expect a violation* show where the code and its documents part:

| Run | What TLC finds |
|---|---|
| `success_reopened` | two workers find no row; the upsert of the second turns the first one's `success` into `pending`, and its own id names no row |
| `failure_reopened` | a crash between a 4xx and XACK; the reclaimed entry skips only `success`, so the pair is POSTed again |
| `retry_starvation` | rows of a deleted subscription are skipped but stay due, first in the order, and fill the batch |
| `busy_stream` | the ticker is looked at only after a read that found nothing: with an event every two seconds no retry is ever made |
| `retries_missing` | the fifth POST fails and the delivery is given up: the fifth delay of `docs/delivery-guarantees.md:136`, and the POST after it, never come |
| `deleted_returns` | PUT writes back the `active` it read before the DELETE |

### Bounds

`MaxEntries` (stream), `MaxFaults`, `MaxRetries` (a constant of the program, 2
in most runs: a first POST, a retry, and the end), `RetryBatch` (a constant of
the program, 1 in the composition so that two rows already overflow it) and
`PostBound` (the count in `posts` stops there: `MaxRetries + 1` where a property
counts POSTs, so that one too many shows, and 0 elsewhere). `retries_missing`
takes the documented default of 5.

In the composition one event is enough where the properties are about pairs:
rows of different events meet only in the retry batch, where two subscriptions
of one event meet as well. Two entries of one event come from the client
library's retry. Two workers suffice for one race; the proofs of section 4 cover
more.

In `poll_loop` `MaxWork` is 6 s so that a pass can outlast a tick and drop the
next; `RetryBatch` of 2 with 1 row skipped for ever is the least in which a row
behind a full batch still moves up, and `MaxAhead` of 3 makes it wait for up to
two further rounds; `busy_stream` needs neither and has the row alone;
`MaxBacklog` of 2 is the least with an entry behind another; `SinceBound`, 40 s,
is no shorter than any backoff, so that the seconds beyond it make no
difference. In `audit` `MaxTime` is one value of `created_at` per row, and
`MaxUpserts` of 2 lets every row be upserted once; 3 rows and pages of 1 or 2
make a page end before, at and after an inserted row. In `rules`, `MaxRules` of
2 is what it takes for one rule to hide another, and `NewPayloadRules` combines
payload rules with each other and not with patterns, since `Matches` tries the
patterns first. `PollLoop`, `AuditQueries` and `RulesMatcher` count nothing
else.

In `two_workers` workers and subscriptions are symmetric, and in `audit`
subscriptions, since nothing tells them apart there; no liveness run uses
symmetry.

### Fairness

`Fairness` asks three things. A live worker goroutine goes on (weak fairness of
`WorkerWorks`, which holds none of the failures); a dead process is restarted
by its Deployment, so `Start` belongs to it, but a process whose `Run` has
returned is alive and is *not* restarted: the worker has no liveness probe.
Clocks run: an entry becomes idle, a retry comes due. No request need arrive,
no server need restart and no fault need happen. A fault is never fair, and
`MaxFaults` says that the environment eventually behaves.

`PollFairSpec` asks that the worker's goroutine goes on and that time passes. No
event need come, so what `busy_stream` shows is an environment that keeps
sending, against a worker that is scheduled all the time.

`CHECK_DEADLOCK FALSE` stands where the system may really stop: every worker has
left `Run` (`one_worker`, `liveness`), and where an audit is complete (`audit`).

## 4. What is proved

Every property of a passing run is a theorem, except for liveness (see the end
of this section). TLC shows each on a small instance; the
theorem holds for arbitrary sets of events, subscriptions, bodies, handlers and
workers, any relation `Matches`, any `MaxRetries` and batch size, and all
faults, from the named assumptions on the constants alone
(`MaxEntriesAssumption`, `FaultsAssumption`, `WorkerAssumption`,
`PollAssumption`, `AuditAssumption`, `JsonAssumption`, `RulesAssumption`). These
say that bounds are natural numbers, that `MaxRetries` and `RetryBatch` are not
0, that `None` is not an answer, and of what the matcher works on that it has
the parts its kind says.

Where a theorem needs more, it says so in its statement:

| Hypothesis | Says | Why it is needed |
|---|---|---|
| `OneWorker` | one worker process, as in `docker-compose.yml` and `values-doks.yaml` (not in `values.yaml`, which has two) | `success_reopened` |
| `MaxFaults = 0` | nothing fails | `failure_reopened`, with one crash |
| `PostsTold` | `PostBound + Cardinality(Worker) > MaxRetries`: `posts` counts as far as the property looks | the bound is the model's |
| `IsFiniteSet(Worker)` | there are finitely many workers | `Cardinality(Worker)` bounds the number |

### The composed service

`EventFanoutProofs`, any number of workers:

- `TypeCorrect`: `Spec => []TypeOK`. Types alone are not inductive: a step at
  `record` reads `att` and `answer`, which may be `None` elsewhere. `Typing`
  adds `LocalsReady`, that a worker's locals are set whenever its next step
  reads them.
- `SuccessEarned`: `Spec => []SuccessIsEarned`. The strengthening is
  `AnswerGenuine`: an answer in hand is one the subscriber gave to that pair.
  `RowsStep` shows that only a worker holding `ok` makes a row a success, and
  `AnswersStep` that such a worker has just POSTed or held the answer before.
- `NothingForgotten`: `Spec => []NoDeliveryForgotten`. The strengthening is
  `NothingDropped`: while a worker processes an entry, every pair owed for it
  is still in `todo` or has its row, and `OwedIsDue`: what is owed is what
  `ListAll` and `Matches` would find now. `DroppedStep` carries it through the
  message loop, where rows may change under the worker's hands but only ever
  appear (`RowsStep`), and debts of an entry already read only disappear
  (`EntriesStep`); `AckedStep` shows that an XACK, by whichever worker, reaches
  only an entry with nothing left in `todo`.
- `Invariance`: `Spec => []Inv`, all of these together; the run `one_worker`
  checks the same `Inv`.

Lemmas that say what a step may do to one part of the state (`WorkerStore`,
`WorkerOutside`, `WorkerInside`, `RowsStep`, `EntriesStep`) are cited by all of
the modules below, so a proof need not split `Next` anew.

`RequestProofs`:

- `AcceptedQueued` and `QueuedStored`: `AcceptedIsQueued` and `QueuedIsStored`.
  The strengthening `RequestBacked` says what each answer has behind it: a
  request past its INSERT is in the table, one answered 201 also in the stream.
  `OutsideIngest` shows that nothing else, data loss in Redis included, touches
  the three.
`WorkerProofs`:

- `AttemptsBounded`: `AttemptNumberBounded`. The number alone is not inductive,
  since any worker about to INSERT may still add one by its upsert.
  `NumbersLeaveRoom` counts these (`Creators`): the number of a row and those
  that may still be added to it stay below `MaxRetries + Cardinality(Worker)`,
  and as long as there is no row any worker may join. A worker joins only where
  there is no row (`ToCreate`), and the INSERT that makes the row takes its own
  worker out.
- `GivesUp`: `GivesUpOnlyWhenExhausted`. The strengthening is
  `AttemptsCovered`: every attempt number there is, in a row, in a worker's
  hands or in its retry batch, is covered by the `Slack` of its pair: the POSTs
  made, and the workers that are not, or no longer, about to INSERT. Where an
  answer is in hand the next number is covered too. `SlackStep` shows what pays
  for a larger number: a POST, or the INSERT of a worker that had seen no row,
  which leaves `Creators` and cannot join again. `HeldStep` says where the
  attempts that workers hold come from. A stale copy needs no case of its own:
  `Slack` never shrinks once there is a row.
- `NoneTakenUpAfterDelete`: `NoNewPostAfterDelete`. The strengthening is
  `InHand`: in the message loop the delivery in hand is still in `todo`, so
  that its POST was counted before; `TakesUpActive` has one case per action.
- `FallsSilent`: `DeletedFallsSilent`, for requests that overlap in any way.
  `GoneStep` is the part of the subscription API: a PUT that begins after the
  DELETE reads, and writes back, the inactive row. `TakesUpStep` is the part of
  the workers, as above.

`OneWorkerProofs` and `LifecycleProofs`, under `OneWorker`:

- `SuccessStays` and `NumberStays`: `SuccessIsFinal` and `NumberNeverDecreases`.
  The strengthening is `Current`: with no other worker, what a worker remembers
  of a row is what a SELECT would return now, through the message loop and the
  retry batch, and it holds no delivery that succeeded. `TableStep` then says
  all that a step can do to the table.
- `OneWorkerInvariance`: `[]OneWorkerInv`, the above together with `Counted`,
  that every attempt number but the next has been POSTed, and with what holds
  until something fails: an event is in the stream once (`OnceInStream`), and
  what is pending is what the worker holds, none of it delivered before
  (`OnceDelivered`).
- `FailureFinal`: `MaxFaults = 0 => (Spec => FailureIsFinal)`. It is the
  property that the run `failure_reopened` refutes with a crash: a final failure
  is reopened only because an entry is delivered twice.
- `PostsBounded`: `PostsWithinRetries`. The strengthening is `Spent`: there are
  no more POSTs than the row's number, and where there are as many, the answer
  to the last is in hand or has ended the delivery. `OnceDelivered` is why no
  worker is about to POST one that has ended.
- `LifecycleImplemented`: `ImplementsLifecycle`. Initial states map to
  initial states; `Begins`, `Sends`, `Concludes` and `Forgets` map the steps
  that the state machine sees, `Stutters` all others, and `NextRefines` puts
  them together. A reply that is lost with its worker is `trouble`. `OnceDelivered` is why a POST of a failed row needs trouble.

### The clock

`PollLoopProofs`, for every period, read timeout, base delay, backlog, amount
of work and number of retries:

- `Backoff`: `BackoffHonoured`. The strengthening is `Waiting`: the seconds
  since the last POST and those until `next_retry_at` make up the delay of the
  attempt that failed, and a row in the batch has none left to wait. `FailStep`
  starts the two clocks; only `Second` moves them, one up and one down.
- `PollTypes`: `PollTypeOK`, with `Timed`, which says why an idle wait is short:
  the ticker fires within a period of the moment the last read began.
- `EventsPrompt`: `EventPrompt`. `ToRead` bounds the seconds until the worker
  reads again, and `Queueing` says that an entry's wait so far and `ToRead`
  stay within what the bound allows for its place. A second takes one from
  `ToRead` and adds one to every wait; a read moves every entry up.
- `RetriesPrompt`: `RetryPrompt`, for every size of the batch and any number of
  rows before the one followed. In the same way with `ToTurn`: `ToList`, the
  seconds until the retry query runs next, and a `Round` for each pass that the
  rows before it take (`Further`). `PassStep` shows that a pass which does not
  reach the row lets it move up by at least one.

### The audits

`AuditProofs`, for any number of rows, page sizes and insertions:

- `NothingMissed`: `PagesMissNothing`. The strengthening is `Paging`: every row
  of the beginning that the client has not received has its place beyond
  `offset`, or beyond the page in hand once that is listed. An INSERT only ever
  pushes rows back (`InsertStep`), and an empty page means that there is no
  place beyond `offset` (`WindowLemma`). `NewestLemma` shows that the list by
  places is the table in descending `created_at`, each row once; it rests on
  `PlaceLemma`, a pigeonhole argument.
- `RepeatsBounded`: `RepeatsAreInserts`. The newest rows, as many as were
  received, were all received or came in since (`TopLemma`).
- `UrlsFound`: `UrlsAreFound`. `Known`: no row is without its subscription,
  which DELETE only marks.

### The matcher

`MatcherProofs`, for patterns, values, payloads, paths and lists of rules of any
size:

- `PatternsAreGlobs`: `PatternMeansGlob`. `After`, the positions a match can
  have reached, is computed character by character, and `Glob` cuts the value
  into a piece for each character. `CutFurther` and `CutShorter` give a cut one
  more piece or take one away, so that the positions in `After` are the ends of
  such cuts (`AfterIsCut`).
- `OperatorsAgree`: `ComparisonsAgree`. That two numbers have the same text if
  they are equal and both or neither of them is -0 is `NumbersShown`, from the
  assumption on `Numeral`; that a field is a value of the payload, so that its
  text is defined, is `PathLeadsToPart`.
- `RulesOnlyNarrow`: `AddedRulesOnlyNarrow`. `MatchesMeans` says when the order
  in which `Matches` tries the rules lets an event through: when the patterns
  match and every payload rule says yes. The order, and an early end because
  of a rule that cannot be evaluated, then no longer matter.

`After` and `ExtractPath` are recursive functions on numbers. What they compute
rests on `Recursion`, that such a function has the values its definition says,
and on `Induction` over sets of numbers, both proved from `LeastNumber`.

### Only model-checked

- `OwedSettlesUnlessLost` (and the liveness that two of the violation
  runs are about): it rests on fairness, whose `ENABLED` the prover does not treat.

Nothing proved depends on the text of a list or an object, which `shown`
computes by recursion over values: two of them compare the same way wherever
they stand, and that is all the theorems use. What `shown` gives for them is seen
by the run `rules` only.

## 5. Checking it

    tlc -config one_worker.cfg MCEventFanout
    tlc -config deleted_returns.cfg Subscriptions
    tlc -config poll_loop.cfg PollLoop
    tlc -config audit.cfg MCAuditQueries
    tlc -config rules.cfg MCRulesMatcher
    tlapm EventFanoutProofs.tla      (also RequestProofs, WorkerProofs,
                                      OneWorkerProofs, LifecycleProofs)
    tlapm PollLoopProofs.tla
    tlapm AuditProofs.tla
    tlapm MatcherProofs.tla

Every property of a passing run has a plausible bug, written next to the
definition it would replace, that breaks it (`PROJECT.json`, `mutants`); those
definitions are marked "A plausible bug" or the like and are used nowhere else.

## 6. Not modelled

- The health check and the GET handlers other than the two audits: they read
  one row or one list, or ping the stores, and change no state. `ListByType` and
  `ListAll` of the events table have no caller.
- Configuration, connection strings and pools, which are read once. Migrations
  and charts, except for what they say about restarts (section 3, fairness).
- A malformed stream entry, which only a writer outside the service could add.
- Failures against the clock: `PollLoop` has none, and the other modules have
  the 30 s of the reclaim and the timeouts only as events that may or may not
  have happened yet. A reclaimed entry, which `PollLoop` leaves out with the
  failures, does POST a row that still waits: `ProcessEvent` does not look at
  `next_retry_at`. `BackoffHonoured` is about the retry loop.
- The overflow of the backoff: with the default base of 5 s the product
  passes what a `time.Duration` holds at attempt 32, after more than 170 years
  of backoff.
- Fractions and numbers too large for a `float64` in payload
  rules; what Go's regular expressions match.

## 7. Plan

Done: the composed service with its faults, the refinement of the state
machine, liveness, the loop against the clock, the audits, the matcher, and the
theorems of section 4. What `docs/delivery-guarantees.md` promises of a delivery
is proved of the service itself (`SuccessStays`, `FailureFinal`, `PostsBounded`,
`GivesUp`), so `DeliveryLifecycle` needs no theorems of its own. What could
still be added, in this order:

1. Lemmas about `EventStream` alone, that an entry is unread, pending or
   acknowledged and never goes back, for any user of the stream.
2. What still holds of the audits' order when two rows have one `created_at`,
   which needs an order with ties in `AuditQueries`.
3. A bound on how many POSTs of a delivery several workers may make, by the
   number of faults and of times its entry was reclaimed.
