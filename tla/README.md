# openminimax: a TLA+ verification of the gateway, the queue, the workers and the box

openminimax is a MiniMax-compatible media API in front of self-hosted models. A
client submits a video or image request and gets a task; the task waits in a
table until a worker on the GPU box takes it, drives the model server ("shim")
on the same box, publishes the result and writes the verdict, which the client
polls. This directory holds the TLA+ models of that system, the TLC runs that
check them, and the TLAPS proofs about them.

## Running it

    tlc -config MCWorker_safety.cfg MCWorker      # any cfg with the MC module it is named after
    tlapm WorkerProofs.tla
    tlapm DynamoProofs.tla
    tlapm LimiterProofs.tla
    tlapm RequestProofs.tla
    tlapm GatewayProofs.tla
    tlapm RefusalProofs.tla
    tlapm ClientProofs.tla
    tlapm BoxProofs.tla

The runs, what they check and what they are expected to say are listed in
`PROJECT.json`, with the source lines each definition stands for and a mutant
of the model that each property catches.

## The system

| component | source | state | operations |
|---|---|---|---|
| task store, SQLite | `gateway/app/tasks.py` `TaskStore` | one row per task: status, owner, request, url, error, duration, kind, two timestamps | enqueue, get, claim_next, mark_succeeded, mark_failed, requeue_stale_running |
| task store, DynamoDB | `gateway/app/tasks.py` `DynamoDBTaskStore` | the same items, plus two asynchronous indexes | the same, as queries and conditional item updates |
| worker | `gateway/app/worker.py`, `worker_main.py` | the task in hand, in memory only | start, the drain loop around run_once, stop |
| key store and meter | `gateway/app/keys.py` | one row per key: secret hash, limit, revoked, window, submits, seconds billed | issue, revoke, verify, check_and_count_submit, add_seconds_billed |
| gateway, one process | `gateway/app/main.py` | none of its own | submit, poll, image request (waits in the request), admin |
| gateway, Lambdas | `gateway/lambdas/api.py`, `authorizer.py` | the authorizer's answers, cached by API Gateway | the same routes, each request a process |
| wire protocol | `gateway/app/protocol.py` | none | parse a request, choose a workflow, render a task |
| backends | `gateway/app/backend.py` | none | submit a job to a shim and poll it, within a deadline |
| shims | `serving/h3_turbo_server.py`, `flux_image_server.py` | a job table and a queue, in memory | HTTP submit and poll, one inference thread |
| publisher | `gateway/app/publish.py` | S3 or local files | publish, presign |
| autostop | `gateway/lambdas/autostop.py`, `infra/autostop_controller.py` | an idle timer | start and stop the GPU instance |
| infrastructure | `infra/`, `serving/*.sh` | none | deployment; sets timeouts, restarts, cache TTL |

How they meet: submits (Lambdas or the gateway) call the limiter and then insert
a task; workers on another machine claim from the same table; the autostop
watches the table to decide whether that machine runs at all; a worker calls its
shim over loopback HTTP and the meter in the key table. All sharing goes through
the tables; no component calls back another.

What is hard here, and where the properties aim:

- several workers and restarts act on one table, each holding a task only in
  memory, so a crash leaves a row that says `running` and nobody at work on it;
- a restart requeues by age alone, without knowing who is alive;
- the DynamoDB store finds its items through indexes that lag, then updates
  them one call at a time;
- verdict and charge are two writes to two tables, and one except clause covers
  both;
- the limiter of the deployed system is two conditional updates raced by any
  number of Lambdas that may be slow, cut off, or answered twice;
- a key's state is seen through a stale read, an authorizer that may fail, and a
  cache of its answers, and what it opens runs on after it is revoked;
- a client knows only what calls told it that may have been cut off, or read a
  table that lags;
- whether an image is a frame or a subject, and which, is decided four times over,
  in the parser, the stored request, the backend and the shim, each from what the
  one before passed on;
- a job lives in a shim's memory, its task in a table, and the box under both is
  stopped by a process that sees neither at the moment it acts.

`PROJECT.json` lists each hazard at its line with the properties that cover it.

What makes each component correct:

- *store and workers*: a task has one executor at a time, of its kind, oldest
  first; a requeue takes a task from nobody alive; a verdict is final while no store
  call fails; every task ends, as far as crashes allow;
- *meter*: never two charges for one task, and at most one success given
  away per crash or failed store call;
- *limiter*: never more than the limit in a window, a bound on any burst, and
  the same windows as the SQLite store;
- *keys and authorizer*: a revoked key stops working after a bounded
  time, but for calls let in by then;
- *routes*: a client is told "failed" only of a task that failed and "succeeded" only
  of one that did (a charge that raises may turn it into a failure afterwards), and
  loses a task only to a call that broke off or to a Lambda's timeout; every call
  ends; every submit counted for nothing goes back to a lost answer or a broken call;
- *protocol and model call*: subjects and frames stay apart, references keep their
  order, the two ends of a clip are not swapped; the charge is for what was made,
  between the model's shortest and longest clip;
- *shims and backends*: a completed job has its files; every task claimed ends or is
  orphaned by a halt (a job given up on is still run, and the task behind it may fail
  for that);
- *autostop*: a stop hits only tasks written since the controller last knew all of
  them (or anything, if every count of the loop's idle window failed), and a box
  nobody has work for is stopped.

Some of these are weaker than what comments and documents of the repository say: see
"What the runs found".

## Modules

| module | what it is |
|---|---|
| `TaskStore` | the SQLite table, each store operation as an operator that gives the new table |
| `Worker` | workers, submits, crashes, store faults and the clock over `TaskStore`, with the meter |
| `JobQueue` | what queue and workers promise, without table, clock or timestamps |
| `DynamoQueue` | the workers of `Worker` over the DynamoDB store and its two indexes |
| `FixedWindow` | the SQLite limiter, one step per submit |
| `RateLimiter` | the DynamoDB limiter, one step per update |
| `Protocol` | parsing of both request bodies, the stored request, the rendering of a task: pure operators |
| `ModelCall` | what the backends send to the shims and the shims run the models with: pure operators |
| `RequestPath` | one request through `Protocol` and `ModelCall`, from body to answer |
| `Gateway` | the routes of both deployments, with key, authorizer, cache and cut-offs |
| `Shim` | a shim's job table, its threads, and the client of it in a worker |
| `Box` | the instance, its two controllers, the table, a worker, and a `Shim` |
| `MC...` | small instances and their symmetry |
| `WorkerProofs`, `DynamoProofs`, `LimiterProofs`, `RequestProofs`, `GatewayProofs`, `RefusalProofs`, `ClientProofs`, `BoxProofs` | theorems and their proofs |

`DynamoQueue` extends `Worker`, which extends `TaskStore`; `RequestPath` extends
`ModelCall`, which extends `Protocol`; `Box` extends `Shim`. `Worker` has an instance
of `JobQueue`, `RateLimiter` one of `FixedWindow`: the refinements. `Gateway` and
`Box` keep of the queue only a status per task (and `Gateway` that the worker may turn
a success into a failure when it charges it), of the limiter only that it may refuse
and that its answers may be lost: the rest of both is what `Worker`, `DynamoQueue` and
`RateLimiter` check.

An operator introduced as a *slip* is a plausible mistake in the code below it, which
the specification does not use. The mutants in `PROJECT.json` do, to show that the
properties would notice.

### TaskStore and Worker

`rows[t]` is a row; a task that was not inserted is `absent`. The text of
requests, urls and errors is left out: a row keeps how many media references its
url holds, because the image charge and the rule "succeeded has media" depend on
it. `now` is the one clock (`time.time` in the code), in ticks.

`pc[w]` says where worker `w` is in `run_once`:

    down --Start--> idle --ClaimNext--> generating --Generate--> publishing
         --Publish--> marking --MarkSucceeded--> billing --Bill--> idle
    generating, publishing, marking, billing --exception--> failing --MarkFailed--> idle

Each store call is a step of its own and `Crash` may end the process between any
two of them. A call that raises is an action whose name ends in `Fails` (or
`ClaimLost`); it may have taken effect or not, and what follows is what the code's
except clause does: the task is marked failed, whatever failed. `Start` is
`start()`: one requeue, then the loop. Workers begin `down`, so every first start
is a start that may find work of other workers in the table.

`Tick` lets time pass, with one constraint taken from the code: no worker is at
one task for longer than `GenBudget`, because the backends give up at their
deadline (1800 s for a clip, 180 s for images) and each call they make has a
timeout of its own. The assumption `CutoffCoversGeneration` relates it to
the worker's `stale_running_s` (3600 s): "the caller passes that cutoff". Without
it a restart takes a task from a live worker.

`charges` and `runs` are history variables: how often a task's owner was charged
for it, and how often it was claimed.

### DynamoQueue

Enqueue, verdicts and everything between claim and verdict are the actions of
`Worker`, because in this store too they are one item write each. Different are
`claim_next` (`QueryQueued`, then `TryClaim` or `ClaimBeaten` item by item, or
`ClaimNone`) and `requeue_stale_running` (`QueryStale`, `RequeueOne` item by item,
`RequeueDone`). For either index a task has a queue of changes: the head is what a
query sees, the last is what the table holds, and `ReplicateKind` and
`ReplicateStatus` take one change over, at any time. The two indexes lag
independently of one another, item by item. `Indexed` says that each write of the
table enters both queues, which is true because the code writes `kind_status`
along with every `status`. The ten items of `Limit=10` are `QueryLimit`.

### FixedWindow and RateLimiter

A key's item has `start`, `count` and `submits`. A Lambda reads the clock once
(`at[c]`), tries the update that counts in an open window (`FastOk`, `FastFails`),
then the one that opens a window (`SlowOk`), or is refused. The same two updates
may take effect with their answer lost, after which the client library sends them
again (`FastLost`, `SlowLost`), and `CutOff` ends a Lambda anywhere; the clock does
not pass a Lambda's timeout, `MaxDelay`, which is below the window (29 s and 60 s).
A key begins with a window that ended long ago (`window_start` 0). `admitted` and
`log` are history: how many submits were told "ok" in this window, and when each
submit ever was. A limit
of 0 or less means no limit to the SQLite store, so properties of the limit say
`Limit > 0`.

### Protocol, ModelCall and RequestPath

The data is abstracted to what decides something: a URL is a model value, a role is
the word the parser compares, a duration any integer, a ratio any two integers (nothing
checks it before the shim computes with it), a missing field `Absent`, and what `int()`
cannot read `Junk`. Prompts are not read. Each
operator is one function of the code: `ParseVideo`, `Task` and `Reloaded`
(`GenRequest` and its trip through the table), `ToSglang`, `RunVideo` with
`ShortEdgeDims` and `FramesFor`, `ToFlux`, `RunImage`, `PollResponse`, `ImageResponse`.
`Rounded` is Python's `round`, half to even, of a quotient of any two integers. A zero
that would be divided by raises in the code: such a ratio has no canvas (`HasCanvas`,
`HasSize`), `Run` cannot be taken, and the task can only `Fail`.

`RequestPath` applies them in the order of the system, one action per process that
handles the request, and each action reads only what the one before left: body, row,
call, job, row, answer. `Fail` is any raise between claim and success. Its properties
compare the two ends: what the model is run with and what the client meant, written
off the body without the operators that translate it (`Openings` and `Closings` are the
frames asked for at either end). `FramesInPlace` is about clips with an opening frame, and
either of two askers for one end may win; `GeometryAccepted` has 17k + 5 frames from 5
seconds on, and the long edge less than a step of 32 from the ratio, as 1344 and 1376 both
are from 16:9. Neither says yes or no to what `protocol.py` says of precedence,
`backend.py` of a closing frame alone, and the documents of frame counts and of the
canvas: these four statements are the run `documents_refuted`.

### Gateway

One key, the clients that hold it, and the tasks they submit, for both deployments
(`mode`). A client's call is in `pc[c]`:

    idle --Send--> sent --RequireKey (process), AuthHit (cache)--> handling or refused
    sent --AuthMiss--> verifying --Verify--> allowed/rejected --Authorized--> handling or refused
    handling --Count--> counted --Enqueue--> replying --Accept--> idle     (video)
                                        \--> waiting --Look--> idle        (image)
    handling --AnswerPoll--> idle                                          (a poll)

What goes wrong, in both deployments unless said otherwise:

- `CountLost` (Lambda): the limiter's update took effect, its answer was lost, and it is
  sent again, to be counted once more (`Count`) or refused (`Decline`);
- `BreakOff`: the key check of `main.py` or a handler raises (a store call fails), or
  its process or connection ends, at any point of the call;
- `CutOff` (Lambda): a function reaches its `Timeout`, wherever it is;
- `VerifyFault` (Lambda): the authorizer's read of the key raises;
- `ChargeRaises`: the charge of a success (or the answer of its write) raises, and the
  worker makes the task a failure, which a client may have read as succeeded before.

The client of a call that ends in `BreakOff` or `CutOff` tries again; the task of a
submit is then nobody's (`told[t]` is "cut off") if it was inserted already, a poll loses
nothing. `troubles` counts lost answers and calls broken or cut off, but not image waits
cut off by the `Timeout`, which take nothing going wrong. `bill[t]` is where the charge
of a success is. A read that is not
`ConsistentRead` returns any value of a set (`keyReads`, `reads[t]`): the value it had
before the write or after, until replication, at most `Lag` later. API Gateway's cache
is `entry` with its age. `told[t]` is why the client stopped asking about a task. All
time is kept as ages with a ceiling (`Horizon`), so the model has no last tick.

### Shim and Box

`Shim` is the same for both model servers: HTTP threads put jobs in `queue` and `job`,
the inference thread takes one at a time once the loader is done, names the files and
then marks the record completed. `generate()` in a worker posts, polls with two reads
of the record (status, then files), reads and removes the files, and gives up when its
deadline has passed: an event, as this model has no clock. `GiveUp` leaves the job
behind, and the shim goes on with it.

`Box` puts a worker and its shim on an instance and has either controller (`path`)
look at the table. The Lambda's evaluation is what it is in the code: a count of
queued rows, a count of running rows, a scan, then lookup and action, with everything
else going on in between, over reads that may be one write behind: `fresh` are the tasks
written within the idle window, `recent` those for which this holds of the write before as
well, which is what a scan that misses the last one sees. `touched` is history: the active
tasks written since the controller last knew all about them. The loop counts in
one statement; a count that fails is "no work"; `idle` is its timer. Lookup and action
are one step, because only the controller moves the instance out of `stopped` and
`running`. On the path `single` the worker is in the gateway's process and reaches the
shim and its disk over the network, as `SGLANG_URL` allows; a halt then breaks its
calls off instead of ending it. A shim that dies on a running box is not in it.

## Runs

| run | what it asks | instance |
|---|---|---|
| `worker_safety` | exclusive, in order, right kind, never yanked, verdicts final and charges equal to verdicts while no store call fails; reruns, charges and successes given away also when one does | 2 video tasks, 1 image task of up to 2 images, 2 video workers, 1 image worker, 1 crash, 1 fault, clock 0..2 |
| `worker_live` | every queued task ends; a stale orphan is recovered; the workers implement `JobQueue` | 2 video tasks, 2 video workers that race for them, 1 image worker whose starts requeue them too, 1 crash, no fault |
| `dynamo_safety` | the same promises over lagging indexes | 2 tasks, 2 workers, 1 crash, a query window of 1 |
| `dynamo_live` | a lagging index hides no task for ever | 2 tasks, 2 workers, no crash, a query window of 1 |
| `limiter_window` | limit, burst, refinement of the SQLite limiter | 3 Lambdas, limit 2, window 3, timeout 1, clock 0..7, 1 lost answer |
| `requests` | roles, order, geometry, charge and count of every request | up to 2 content items of 8, both top-level frames, up to 2 subjects; durations -2..20 and two that are no numbers; the six ratios of the documents, unreadable text, and six with zero or negative sides; 2 resolutions; image bodies with 8 counts, 5 widths, 2 heights and all these ratios; 3 references at most |
| `gateway` | how long a key outlives its revocation, what clients are told, what is counted, that calls end and a poller hears of its task | a video client, an image client, one task, lag 1, cache 1, Lambda timeouts 0 and 1, image wait 2, one trouble (a key read that fails, a lost answer, a call broken or cut off), charges that raise at any time |
| `box` | what a stop may hit, that a completed job has its files, that an idle box stops, that queued work ends | 2 tasks, either controller, 2 failing steps of the loop |
| `restart_strands` | *violated*: a restart strands no task | 1 task, a worker, 1 crash |
| `success_overwritten` | *violated*: only a failed generation is reported failed | 1 fault |
| `spurious_429` | *violated*: a refusal means the window is full | 2 Lambdas, limit 2 |
| `documents_refuted` | *violated*: of four statements on clips, at least one is true of each clip | bodies of 16:9 at 768P with a content item, either top-level frame, 4 or 6 s |

Why the bounds are enough to see the interesting cases: with `StaleCutoff` 1 and a
clock up to 2, a task claimed at 0 is stale at 2, can be requeued, claimed again
and finished, while another worker, restarted, still holds a stale list with that
task. Two tasks of one kind are what age order and a query window of 1 need, two
workers of one kind what any race needs; the third worker shows that a restart of
one kind's worker also touches the other's tasks. In `limiter_window` the clock
passes two full windows, and a Lambda can be late at each: the stretch in
`BurstBounded` is the longest for which the bound holds, one tick more is refuted.
In `requests` two content items are what order, and mixing of roles, need; the range of
durations has one on each side of 0, of the floor of 5 s and of the ceiling of 15 s; the
ratios have a zero and a negative number on each side and on both.
In `gateway` the bounds differ by one where the code's differ (an image wait longer
than its Lambda, a lag shorter than the key's whole grace), and they make the grace of
`RevocationTakesHold` exact: one tick less is refuted. One task id lets the two clients
race for the key, the cache and the poll, but only one of them be in the middle of a
submit, and one trouble is at a time a read that fails, a submit counted twice, or a call
broken off; the theorems of `GatewayProofs`, `RefusalProofs` and `ClientProofs` have no
such bounds (and TLC has checked the invariants and the two properties of the key with two
troubles). In `box` the second task is
one that waits behind a job that was given up, or that is written while the controller
counts the first.

The mutants in `PROJECT.json` each break their property within these bounds, so
none of the properties holds for want of a case.

Deadlock is not checked: each system stops by design once every task or request the
instance has is done and, where there is one, the clock has reached its bound.

What each property says is written above its definition. Some deserve a note:

- `MeterMatchesVerdicts` ties the meter to the table: a key's meter is the sum of
  what its charged tasks are worth, and as long as no store call has failed these
  are successes. `FewGivenAway` is the other direction: the successes nobody will
  charge for any more are no more than the crashes and failed calls.
- `ImplementsJobQueue`: in the abstract queue a task is handed out only if nobody
  alive has it, its verdict is written once, and a charge follows a success. The
  concrete system implements it for as long as no store call fails; with faults it
  does not (`success_overwritten`), which is why it is checked with `MaxFaults` 0, in
  `worker_live` and `dynamo_safety`.
- `SubmitsAccounted` bounds in both directions: no task comes without being counted, and
  what was counted for nothing is at most the number of lost answers and of calls broken
  or cut off. A submit counted twice is such a loss, as is one counted and then refused,
  or counted and not enqueued because the process ended.
- `HeardIsTrue` is about what a client heard last. "Succeeded" may be taken back, but only
  by a charge that raised, which is what `success_overwritten` shows in the worker; "cut
  off" needs a trouble or, on Lambda, a `Timeout`.
- `StaleOrphanRecovered` is what is true of crash recovery: an orphan gets a verdict
  *if* it is already stale when some worker starts. The stronger statement in the
  code's documentation is the violated run `restart_strands`.

### Fairness

`FairSpec` has weak fairness of `Work(w)` for each worker: a worker whose next call
can be made makes it, and a worker that is down is started again. The loop has no
exit but `stop`, its backends give up at a deadline, and the service units say
`Restart=always`. Nothing is assumed of clients, of the clock or of crashes.
`DFairSpec` adds that each index takes over each change, which is what eventual
consistency means.

`GFairSpec` has every call served, replicas catch up and time pass. What goes wrong
(`Mishap`, `ChargeRaises`) never has to, and nothing is assumed of workers: the routes have no loop but the image
wait, whose deadline is checked in it. `PollerHears` adds, as a premise (`PollFairness`), that clients go on polling, as
`docs/API.md` asks them to, and that workers end tasks.

`BoxFairSpec`: worker, shim and loader go on, EC2 does what it was told, replicas catch
up and the controller is invoked again and again (EventBridge every minute, the loop's
`while`). Deadlines and windows get strong fairness: they pass in the end for a call or
a table that stays as it is but for the moments between two polls. Nothing makes a
client submit, an inference fail or a count succeed.

## What the runs found

1. *A restart can strand a task.* Start requeues once, only what is older than an
   hour; the service manager restarts a dead worker after ten seconds. The task of
   the dead worker stays `running` until some restart an hour or more later.
   `worker.py` says "so a worker restart doesn't strand a task".
2. *A recorded success can turn into a failure.* If the meter update raises after
   `mark_succeeded`, the except clause marks the task failed, although "a
   generation failure becomes the task's failed reason" and the clip is there.
3. *A submit can be refused with room in the window.* Of two submits that both find
   the window over, one opens the new one and the other is refused, where the
   comment says "genuinely rate limited".
4. *A top-level frame field is lost to content.* A frame given by its role in `content`
   displaces the field for the same end, where the comment (`protocol.py:163`) gives the
   fields precedence.
5. *A closing frame alone becomes the opening frame.* The list of keyframes keeps order but
   not ends, and the first of it gets `frame_index` 0; the comment at `backend.py:123` has
   the closing one at -1.
6. *A 4 second clip is off the grid.* It has 120 frames, which is not 17k + 5, the form
   that `serving/README.md:45` states for all; 4 s is a valid duration (`docs/API.md:91`).
7. *16:9 at 768P is 1376x768*, the nearest multiple of 32; `docs/API.md:90`, `README.md:54`
   and the comment above the computation say 1344x768.

1 to 3 are a violated run each. 4 to 7 are refuted together by `documents_refuted`: the
documents say all four of every clip, and `SomeDocumentHolds` says only that one of the
four holds; the clip TLC finds breaks each of them.

The passing runs keep to what the code does, and let the following through. Where a
document says otherwise, it is quoted; these disagreements can be read off the models but
have no run of their own.

- *A ratio is not checked.* Any two integers are computed with: a negative side gives a
  negative edge, a zero side a zero edge or a division by zero, which fails the task.
  `docs/API.md:93` has values outside the list normalised to 16:9. `GeometryAccepted`
  holds of such clips too, and says of the long edge only that it is in steps of 32.
- *The meter can fall.* A negative duration is made into a clip of the shortest length
  and taken off `seconds_billed`, "a monotonic counter" (`keys.py:25`). A duration of 0 is
  stored, read back as 6 s and charged 0; one beyond 15 s is charged in full for a clip of
  345 frames. `ChargeFollowsClip` lets both ends through.
- *The image route on Lambda outwaits its Lambda.* `api.py:43` has the wait capped "a
  little under the function timeout"; the default is 120 s, the function's is 29 s. A
  slow image's client is cut off with nothing broken, and is never told its task.
  `HeardIsTrue` permits it, and to `EveryCallReturns` a call that is cut off has ended.
- *A poll right after the submit may be answered 404*, which to a client is terminal
  ("unknown/expired", `docs/API.md:122`), as the read is not `ConsistentRead`.
  `HeardIsTrue` permits it on Lambda; to `PollerHears` it is something final.
- *A stop can hit a generation.* What was written after the Lambda's scan, or was not yet
  to be seen by its reads, is not spared, though `autostop.py:9` says it "cannot stop the
  box mid-generation". Nor is what was claimed between count and stop of the loop, and
  nothing at all is once every count of its idle window has failed:
  `autostop_controller.py:84` says "never mid-generation", line 49 that a spurious idle
  "just delays a start by one poll". `StopSparesWork` says how far either controller does
  spare work, and is proved.
- *A halt strands the task in hand*, as in 1, and its `running` row then counts as work:
  it keeps the box on, or starts it again, until a worker starts after the cutoff.
  `IdleBoxStops` is about a table without active rows, and `TasksEndOrAreOrphaned` counts
  an orphan as an end.
- *A worker claims before its shim listens.* At a cold start the first task fails
  (refused POST), or spends its deadline on the load: 180 s for an image, less than the
  prewarm takes. The README's advice to wait for `/health` is for the operator, and to
  `TasksEndOrAreOrphaned` a task that failed has ended. The same holds of a task that
  waits behind a job that was given up.
- *A revoked key* works for replication lag, authorizer run and cache lifetime longer on
  Lambda, and for as long as a call let in before it runs, in either deployment. A good
  key is refused for as long if it was tried just before it was issued, or if one read
  of it failed: to a client that polls, a 403 is terminal (`docs/API.md:123`).
- *A submit broken off between count and insert*, or whose count was sent twice, has used
  up budget; one broken off after the insert leaves a task whose id nobody has, in either
  deployment. `SubmitsAccounted` and `HeardIsTrue` bound these, and do not exclude them.

## Proofs

All proof modules are checked from nothing, for any sets of tasks, workers, keys,
Lambdas, clients and request bodies and any bounds, from the assumptions named in the
modules: the kinds' ids are disjoint, durations are integers, the bounds are numbers,
`NoTask` is no task, `CutoffCoversGeneration`, `TimeoutBelowWindow`, and
`BodiesAssumption` (a body's fields are what the parser may find in them). Where a sum or a
count runs over all tasks or clients, the theorem says that these are finite.

Every invariant and every safety property of a step that a passing run checks is stated
by a theorem, and so are the three refinements. What is left to TLC is liveness.

`WorkerProofs`. None of the properties is inductive. That a task is not in two hands
needs that a requeue takes only orphans, which needs a relation between clock,
`started` and the row: the invariant `HandInv` says that a worker with a task has it
in a row that runs or, past the verdict, has succeeded or (after a fault) the like,
that a row that runs in hand was last updated exactly at the claim, and that the worker is within
its budget. With `GenBudget <= StaleCutoff` a row in hand is then never stale
(`StaleNotInHand`). `ChargeInv` relates each task's charges to its row and to the
worker that still owes the charge; `RunsInv` counts claims against crashes and
faults. Lemmas at the top say what each table operation does to every row, so that
the proofs of the steps never look into an EXCEPT.

These invariants are proved of steps that are looser than the code's: `Steps` lets a
claim take any queued task and a requeue put back any set of orphans. Those of the
SQLite store are such steps (`NextSteps`), those of the DynamoDB store too. Proved:

- `TypeCorrect`, `OneExecutorPerTask`, `KindsApart`, `AtMostOneCharge`, `NoIdleRerun`
  as invariants;
- `OldestIsFirst`, which needs besides that a row's `created` is kept and is not of the
  future, and that a task past `queued` has been claimed (`CreatedKept`, `Begun`);
- `GivenAwayForTrouble`: a step puts at most one task among those given away, and when
  it does counts a crash or a fault;
- `MeterAddsUp`: meter and sum move together. The sum is a recursion over an arbitrary
  order of the tasks; that it exists for every set of them, and that it changes by what
  one task's worth changes by, is an induction on the size of the set, written without
  the library's rule (`Climb`: a set of numbers with 0, closed under successor, is Nat).
  A charged task keeps owner, worth and, without faults, verdict (`SettledRows`);
- `RequeueTakesOrphans` and `VerdictStands` as action properties;
- `WorkersImplementJobQueue`: `Spec => Jobs!Spec` for `MaxFaults = 0`.

`DynamoProofs`. A worker between two calls of a claim or a requeue has nothing in hand.
Seen as idle (`Seen`) until its conditional update succeeds, it takes the steps of
`WorkerProofs` or none (`SeenSteps`), whatever the queries showed it: the indexes may lag
without bound. The one thing to add is that a requeue compares with a cutoff taken in the past,
which by the time of the update is too low, if anything (`CutoffPast`). Proved:
`DOneExecutorPerTask`, `DNoIdleRerun`, `DMeterAddsUp`, `DRequeueTakesOrphans`,
`DVerdictStands`, `DynamoImplementsJobQueue`, and `DTypeCorrect`, for which every index's
queue of changes ends in what the table holds (`IndexInv`).

`LimiterProofs`. The strengthening is that no Lambda's clock reading is of the future
(`ReadBefore`), from which windows begin in the past. Proved: `LimiterTypeCorrect`,
`WithinLimit`, and `LimiterImplementsFixedWindow`, where a step of a Lambda maps to a
submit of the SQLite limiter at the time that Lambda read.

`BurstsStayBounded` is about stretches of time that are no windows. A submit is told "ok"
within a Lambda's timeout of the reading it was counted by (`InTime`), so those of the present
window are told before it is over by more than that (`NoneLate`), and those of earlier
windows within that of its start: whatever was told later is of this window
(`OneWindow`), whatever was told a window's length earlier is of this one or the last
(`TwoWindows`). The stretch in `BurstBounded` is too short for a third.

`RequestProofs`. The invariant (`PathInv`) has a conjunct per stage: body and kind, the row,
the call made of the row, the job made of the call, the urls of a success, the answer.
With it each property becomes a statement about operators, from body to job. What needs work is
the order of images: the subsequence of items that play a part (`Kept`) is a recursive
function, and that it lists those items, all of them and in order, is an induction on the
items' number (`KeptRuns`); `FramesParsed` and `ReferencesParsed` say what the
parser makes of them, `FramesRun` and `ReferencesRun` what comes out at the model. For the
geometry, `RoundedNear` bounds Python's rounding for a positive divisor and `RoundedWhole`
says that it gives an integer for any but zero, `LongEdge` and `TilesOfRatio` give the sizes
for any integer ratio that has a canvas, and `FramesFollow` gives 17k + 5 for every length
of 5 s and more. That the frame at an end is one asked for at that end, whichever asker
wins, goes by way of the first item of a role in the content (`FrameAmongAsked`). Proved:
`PathAsParsed`, `ModesStayApart`, `FramesStayInPlace`, `ReferencesStayInOrder`,
`ClipChargedAtItsLength`, `ModelAcceptsGeometry`, `ImagesToldAndCharged`, for contents of
any length, any duration and any ratio. (A number is an exact integer here, also beyond what a
float holds exactly.)

`GatewayProofs`. A revocation takes hold late by three delays that follow on one another,
and the invariant (`GraceInv`) has one conjunct for each place a stale "active" can be:
a read shows it at most `Lag` after the change; an authorizer that read it answers
within its own age of that; a cache entry made of its answer lives `TTL` from then; and
a handler that any of these let in runs on. Each conjunct bounds the key's age by the
delays before it plus the age of what holds it. Proved: `GTypeCorrect` and
`RevocationHolds`. `RefusalProofs` is the mirror image (`RefusalInv`): a cached or pending
"deny" of a good key dates from its issue or from a failed read. Proved:
`GoodKeyIsRefusedBriefly`.

`ClientProofs`. A verdict that was read or told is one the table bears out (`BorneOut`): a
failure is for good, a success may have been taken back, but then its charge raised
(`BillsAgree` ties the charge to the status). With that of every read (`ReadsAreTrue`),
that every task has exactly one client asking or one that was told (`AskersAreOne`), and
that an image's wait is never longer than its Lambda's age (`WaitsEnd`), `HeardIsTrue` is
inductive: `WhatIsHeardIsTrue`, for any number of lost answers, broken calls and charges
that raise, in both deployments. `SubmitsAreAccounted`, for finite sets of clients and
tasks, follows each step's change of the count, of the tasks and of `troubles`: a submit
sent twice moves count and troubles together, a call broken off moves the troubles alone.

`BoxProofs`. The strengthening follows an evaluation: a row that was not written within
the window is read as it is (`RowsSettle`), so what the Lambda has counted as none was
written within the window, and what was is behind its replicas once the scan found the
window quiet (`LambdaKnows`); the loop's clock runs only while all active rows are newer
than its last good count, or there was none (`LoopKnows`). Proved: `StopsSpareWork`.
`ClipsAreThere` needs two facts that outlive any number of halts: what the worker has
asked for is its own task, whose row is running as long as it is at it (`WorkerKnows`),
and that a record marked completed has its files, also between the worker's two reads of
it (`RecordsHold`).

Only model-checked, because fairness and ENABLED are out of the prover's reach:
`EveryTaskEnds` and `DEveryTaskEnds`, `StaleOrphanRecovered`, `EveryCallReturns`,
`PollerHears`, `IdleBoxStops`, `TasksEndOrAreOrphaned`.

## Not modelled, and the plan

Next:

1. `DynamoQueue`: lost answers of its calls, as `Worker` and `RateLimiter` have them.
2. A second key in `Gateway`: another key's task is answered 404.

Left out for good: hashing, key parsing, `list_keys`, presigning, uploads, HTTP and JSON
formats, loading and quantising of models, the backends' fallbacks for shims that return
media inline (none here does), fakes, deployment and measuring scripts: I/O and string
work with no state of their own. Prompts and the text of errors are abstracted away
throughout. The shims keep the records and files of jobs nobody reads for ever; the
model drops them, and says nothing of the disk. Files that cannot be read back (a short
batch, charged short) need a disk fault that no model has.
