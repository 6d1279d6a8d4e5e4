# plaita: a TLA+ model of distributed flow execution

plaita runs flows (graphs of nodes) either inside one process or on a cluster of
workers that share a Redis. In the cluster an *execution* has no owner process: it
is a row in Redis, moved from node to node by whichever worker takes the next
message about it. Workers crash, stall, overrun their leases and take each other's
messages; users cancel, retry and delete executions while that happens. Around it
stand the protocols that bring work to the cluster: starting an execution once per
dedup key, turning events into resume messages, and carrying published flow
versions from the console's database to the workers' Redis. This directory models
these parts of the system and says what they guarantee.

Paths below are relative to the repository; `flow_worker.py` is
`plaita/server/flow_worker.py` and `executions.py` is
`plaita-console/backend/api/executions.py`.

## 1. Inventory

| Component | State it keeps | Operations | Talks to |
|---|---|---|---|
| Execution lease (`plaita/server/execution_lease.py`) | lease key with holder and generation, fence key, generation counter | acquire with a generation, renew, release | Redis scripts; worker |
| Fenced storage (`plaita/storage/fenced.py`) over Redis storage (`plaita/storage/redis.py`) | execution row, index with its ready mark, tombstone, counters | save and delete, with or without a fence token; load; list, rebuild the index | lease's fence and counter keys |
| Flow worker (`flow_worker.py`) | per thread: message, row in memory, fence token; in Redis: cancel flag, retry and wake-up counters | consume loop, `start_flow`, `resume_flow`, step loop, suspension and compensation, failure paths, dead-letter guard | everything |
| Task queue (`plaita/server/task_queue.py`) | Redis stream, consumer group, pending list with delivery counts, DLQ stream | enqueue, read, claim idle messages, ack, dead-letter | worker |
| Distributed strategy (`plaita/core/strategies.py`) | context with `$LAST_NODE`, subscription of a suspended node | run the next node, suspend, resume, refuse a resume | worker, event subscriptions |
| Step ownership (`plaita/core/ownership.py`) | step token on the row | mint, declare, keep as evidence, reuse | worker, connectors |
| Event filter (`plaita/server/event_filter.py`), event bus (`plaita/event/redis.py`), timeouts (`plaita/event/timeout.py`), reconciler (`plaita/server/event_reconcile.py`) | stored events, subscriptions and their indexes, dedup keys, scan cursor | publish, handle a notification, scan from the cursor, fire timeouts | queue |
| Console control (`executions.py`) | none of its own | start, cancel, delete, retry | row, flag, queue |
| Start dedup (`plaita/server/start_dedup.py`) and sweeper (`start_dedup_sweeper.py`) | map, owner, token and park keys per dedup key | claim, guard, reserve, mark, adopt, release, park, sweep | console, schedule service, worker |
| Tenant quota (`tenant_quota.py`), status, DLQ quota | slots with a TTL, gates | admit, defer, release | worker, console, schedule service |
| Publish outbox (`plaita-console/backend/services/engine_outbox.py`) | outbox table; keys and row leases in the target Redis | enqueue, deliver, reconcile, delete, resolve, discard, recover | flow versions (`flow_store.py`), target Redis |
| DLQ replay, dispatch ledger, services | ledger entries, service queues | replay, record, answer | queue, events |
| Capacity, registry, control channel, metrics, timeline | advertised capacity, heartbeats | report | console |
| Engine core, expressions, node library, DSL | one process's context | evaluate, run, time out, retry in place | strategy |
| Console beyond executions, frontend, plaita-ai | database, browser, prompts | CRUD, agents | console API |

What is hard in this system: every read of a shared key is stale by the time of the
next command; a message may be delivered twice, claimed from a live worker, or
acknowledged by a worker that only found the lease taken; a lease may run out under
a node that is still running; a suspended execution depends on exactly one event
message and one pushed task; writers outside the protocol (console, dead-letter
guard, the failure path of a start) use no token. `PROJECT.json` lists these
hazards line by line.

What makes each part correct:

- lease and storage: generations are unique and increasing for the whole life of an
  id, across deletes; an overtaken session changes nothing; a row is in the index that
  listings read;
- queue and worker: what is under way always has a carrier (a message or a worker);
  a decision for a suspended execution is never dropped; a service is told of its
  task; progress is not repeated by whoever holds the lease; a final status is final;
- control plane: after a cancellation no worker goes beyond its current node; what
  was deleted does not come back;
- start dedup and quota: a dedup key runs one execution; an id a caller was given
  can still run, is never taken back, and comes to an end; a client that keeps
  trying is answered; a tenant runs no more than its slots but where the code lets it;
- events: the cursor passes no event that nobody has read; an event resumes a
  subscription once; a wait ends by its event or its timeout while its subscription
  lasts;
- publish outbox: the target ends up as the source table says; what was deleted does
  not come back; a row has one writer; what an operator closed stays closed.

## 2. Modules

| Module | Contents |
|---|---|
| `EpochRegister` | abstract specification: a register whose fenced writes happen only under the newest, still open epoch |
| `FencedStore` | all Redis keys of one execution id and every script on them |
| `FencedStore_proofs` | its inductive invariant and the theorems |
| `FlowWorker` | workers, messages and control plane driving one execution; extends `FencedStore` |
| `StartDedup` | requesters, a worker, users and the sweeper on one dedup key |
| `EventDelivery` | publisher, event filters with reconciler and timeout checker, and one waiting execution |
| `EngineOutbox` | consoles that publish, deliver, reconcile and delete one flow version |
| `FlowWorker_proofs` | the inductive invariant of `FlowWorker`, that it implements `FencedStore`, and four safety properties, each with its own invariant |
| `FlowDelivery_proofs` | decisions, running executions and service tasks of `FlowWorker` get through, under stated conditions on the faults |
| `StartDedup_proofs`, `StartDedupCalm_proofs` | invariants of the start protocol: those that always hold, and those of one key while nothing is deleted or answered too late |
| `EventDelivery_proofs`, `EngineOutbox_proofs` | invariants of the event delivery and of the publish outbox |
| `Extrema` | the least and the greatest element of a finite set of numbers, for the proofs |
| `MCFencedStore`, `MCFlowWorker`, `MCStartDedup`, `MCEventDelivery`, `MCEngineOutbox` | instances for TLC; they and the `.cfg` files pick flow, faults and properties |

### FencedStore

One action per Lua script or MULTI/EXEC pipeline, which Redis runs atomically:
`TryAcquireFenced` (`_FENCED_ACQUIRE_LUA`), `Release`, `RenewLost`, `FencedSave`
and `FencedDelete` (`fenced.py`, with the comparison `FenceAccepts` that both
scripts make), `Refused` for their negative answers, `PlainSave`, `Load`,
`ControlDelete` (`redis.py`), `ConsoleSave` (the console sets the row key itself).
Around them Redis expires the lease, the fence key, terminal rows and tombstones;
a process crashes; and an operator backs up the row and the fence key and restores
them without the counter. `LegacyFence` lets the fence key start with a value
left by a release that counted there. Keys of two execution ids never meet in one
script, so one id is enough.

The index is read and mended without a lock, so its readers are actions of their own.
A `Reader` is a call of `list_executions` or `rebuild_execution_index`: a listing takes
a slice of the index (`ListSlice`), loads the rows (`ListLook`, the MGET) and removes the
members whose row it did not find (`ListPrune`, the ZREM); when the mark `index:ready`
is missing it first backfills the index (`EnsureIndex`, then per row `BackfillLook` or
`BackfillSkip`, then one pipeline, `BackfillDone`); a rebuild drops index and mark
(`DropIndex`) and backfills. A reader may stop anywhere (`ReaderStops`), and its steps
mix with those of sessions, writers and other readers. `revoked`, `restored` and `lost`
are history variables, used only by properties.

### FlowWorker

A *session* of the store is a worker thread. `wk[w]` is its program counter, its
message, the path it is on (`start` or `resume`), whether the loop is in its first
run, the node last completed (`c`), whether that node waits, and the row in memory
(`d`). An action ends where the code reads or writes a shared key or where a node
has its side effect, so threads interleave everywhere they can in the code. Groups
of actions:

- queue: `Take`, `Reclaim`, `Finish`, and the dead-letter guard read by read:
  `DeadLetterGuard` (row), `DeadLetterProbe` (lease), `DeadLetterVerdict` (tombstone,
  then the clone) and `DeadLetterWrite`
  (`_consume_loop`, `_reclaim_one`, `_dead_letter_guard`);
- `start_flow`: `StartCheck`, `StartCancelled`, `StartAcquire`, `StartPersist`,
  `StartFailed`;
- `resume_flow`: `GuardResume`, `AcquireResume`, `RecheckResume`, `ResumeRefused`,
  `WakeUp`, and the compensation of an unpushed task `CompensateAcquire`,
  `CompensateCheck`;
- the step loop: `RunNode`, `ResolveNode`, `NodeFails`, `NodeAborted`, `LeaseLost`,
  `StepBoundary`, `StepPersist`, `SuspendPersist`, `PushTask`, `ClearPending`,
  `EndPersist`, `CancelPersist`, `HandleFailure`, `ErrorPersist`, `Requeue`;
- outside: `WorkerCrash`, `LeaseTTL`, `Publish` (event filter), `CancelRequest` and
  `CancelCommit`, `RetryRequest`, `DeleteRequest`, `DeleteSignal`, `DeleteCommit`,
  `DeleteSweep` (console).

A flow is a chain of nodes (`Kind`), each a task, a service call or a wait for an
event; what nodes compute is left out. A subscription is named by the generation
of the lease under which its node ran. `ran` and `late` are history variables.

Abstractions to know of:

- a resume of type `timeout` behaves as `event` and is not a type of its own;
- the deterministic-failure counter (12 attempts) and the cap on the total of node
  retries are left out; the budget per node and the wake-up budget are there;
- Redis answers every command: `StatePersistError`, serialization errors, and the
  token leak when the first persist of a start raises are not modelled;
- the placeholder row with status `queued` that the console writes before it
  enqueues a start is treated by `_existing_start_checkpoint` like no row at all; it
  and the head of `start_flow` are in `StartDedup`;
- the way from an event to its resume message is one step here (`Publish`), and is
  taken apart in `EventDelivery`;
- the dead-letter path of a message that failed while it was processed goes through
  the same guard as that of a claimed one, which is the one modelled;
- `RowExpires`, `FenceExpires`, `TombstoneExpires`, `Backup` and `Restore` of the
  store are not steps of `FlowWorker`, nor are the readers of the index (`Reader = {}`);
- the console handles one cancel or delete request at a time; reading the row and
  enqueueing the message are one step there, the write that follows is another;
- affinity hand-over, tenant gates, quotas, definition hashes and observers are
  refusals or output around the paths modelled, and are left out.

Bounds: `MaxGen` generations, `MaxMsg` messages, `MaxTok` step tokens, and
`Budgets`, the combinations of how often each of crash, stall, failed node, failed
push, retry and request (cancel or delete) may happen; `Init` picks one. A *stall* is a live worker whose lease runs
out, or whose message is idle long enough to be claimed.

### StartDedup

One dedup key of one tenant. `map`, `claim` (owner and token key, which are written,
deleted and expire together) and `parked` are the keys of `start_dedup.py`; `row`,
`tomb`, `slots`, `flag` and `msgs` are what the other parts keep per execution id.
A requester is a console request (`start_execution`) or, in a scenario with `cron`,
a firing of a schedule (`fire_schedule`); both follow the same sequence and differ
in their failure paths. Actions, in the order of the code:

- claim and admission: `TryClaim`, `Admit`, `Guard`, `WriteRow`, `Reserve`,
  `Reguard` (schedules), `Send`, `XAdd`, `Mark`, `RecoverMark`, `Park`; a request that
  fails takes its work back in separate steps, each of which may be the last before a
  crash: `GiveSlot`, `Drop` (the row), `Xdel` (the message), `GiveBack` (the key);
- meeting a key that is taken: `Hit`, `NoRow`, `WaitRow`, `Orphan`, `RowHit`,
  `WaitMark`, `Adopt`, `ReAdd`, `ReMark`, `ReXdel`, `Lost`; for schedules
  `FireOwner`, `FireLook`, `FireDiscard`, `FireClear`;
- the worker: `Take`, `Gate` (tombstone and quota), `DeferSend` and `DeferAck`
  (`_defer_over_quota_start`), `CheckTomb`, `WorkerClaim`, `WorkerHit`, `ReleaseGet`,
  `ReleaseDel`, `AfterRelease`, `StartFlow`, `Finish`;
- users, sweeper and faults: `CancelQueued`, `CancelRow`, `Delete`, `SweepLook`,
  `SweepDelete`, `SweepRelease`, `SweepClear`, `CrashReq`, `CrashWorker`, `TryAgain`,
  `ClaimExpires`, `SlotExpires`.

The quota is a soft limit in the code, and so it is here. Console, scheduler and the
worker's gate ask for a slot (`TakesSlot`); without a cap, or when Redis fails under the
question, the start passes without one (`PassesOpen`). A start that finds no room at the
gate goes to the tail of the queue with a count of its deferrals, and passes the gate
unasked once there were more than `DeferMax` (`Bypass`). A slot runs out a day after it
was last taken, whether its execution is over, waits or runs (`SlotExpires`). What the
quota has lost sight of in one of these ways, or because a requester gave the slot up
before the row, is recorded in `beside`.

Lua scripts are predicates (`MayProceed`, `MayMark`, `MayAdopt`, `MayReleaseOwn`,
`MayReleaseOrphan`) that the actions test and act on in one step. A random token is
the requester that drew it. An execution runs in one step (`StartFlow`, `Finish`);
`FlowWorker` has the detail. The cancel message of a queued execution, which
the worker drops, is left out, and so is the migration of keys written by older
consoles. Ids are reused once nothing refers to them, so that retries may go on for
ever.

### EventDelivery

One execution waits through one subscription or, when its worker died and another
runs the node again, several. `ev`, `sub`, `keys`, `timeoutKeys`, `cursor` and `msgs`
are in Redis; each filter has its `handle_event` tasks (`task`), its reconciler
(`scan`) and its timeout checker (`timer`). Tasks of one filter share an event loop:
`Runs` says which may run, since parts of them use a synchronous client. `Publish`
stores and notifies; `HandleList`, `HandleClaim`, `HandleEnqueue`, `HandleMark` are
`handle_event`; `ScanPage` and `ScanSave` with `Limits` and `NewCursor` are
`scan_once`; `TimerList`, `TimerCall`, `TimerEnqueue` are the timeout checker;
`Subscribe`, `Suspend`, `Resume`, `Drop`, `Cancel` are the worker and the console as
far as they touch subscriptions; `CrashFilter` and `Restart` are the process.

The cursor is a pair of timestamp and event id, compared as `_parse_cursor` does;
pages grow up to `Batch * SkipFactor` as in `_next_page`. All events match by type
and correlation. Outages are shorter than the backfill window. A resume that arrives
for a subscription the row does not wait on is a `Drop`.

A subscription is stored with a TTL (7 days by default) that nothing renews while the
execution waits. `SubExpires` lets the data key run out at any moment; its members stay
in the indexes until a listing (`Pruned`, in `HandleList`), the janitor or their own TTL
removes them (`IndexFades`), and neither an event nor the timeout checker finds the
subscription any more. `data` says what has become of the key: `ttl`, `expired`,
`none` (unregistered), or brought back by a late `mark_event_processed`, `forever` after
an unregistration and `revived` after an expiry.

Left out: the TTL of events, and members of the events' index whose payload is missing
or unreadable. The latter shorten a full page (`event/redis.py:1365`), after which the
cursor moves to the end of the window: `CursorCovers` and `EveryEventSeen` are about
stores without such members.

### EngineOutbox

One version of one flow. `src` is its row in `flow_versions`, `rows` the outbox
table, `key` and `listed` what `RedisFlowStorage` keeps in the target, `lease` the
row leases there. Each console has one outbox thread (`thr`) and at most one deletion
under way (`del`); in a process they exclude each other by `OUTBOX_DELETE_LOCK`
(`LockFree`), between processes there are only the leases.

- users and operators: `SaveDraft`, `Publish`, `DeleteRead`, `DeleteMark`,
  `DeletePurge`, `DeleteCommit`, `DeleteRestore`, `Resolve`, `Discard`;
- the thread: `DeliveryCycle` and `ReconcileCycle` list rows; for each of them
  `TakeLease`, `Reload`, then `Write`, `Verify`, `Book` or `CheckSource`,
  `CheckTarget`, `PurgeOrphan`, `DropOrphan`, and `ReleaseLease`;
- the rest: `LeaseExpires`, `BackoffEnds`, `TargetDown`, `TargetUp`,
  `TargetLosesKeys`, `SourceEdited`, `SourceRemoved`, `Crash`, `Restart`.

A definition is a member of `Content`, compared where the code compares hashes. A
database transaction is one step under READ COMMITTED; a session that updates a row
writes only the columns it changed, and one whose row is gone raises and ends its
cycle (`Update`). Definitions that cannot be parsed or encoded never reach the
outbox and are left out, as is a purge of outbox rows that fails inside a deletion that
succeeds. The first pass of a console that starts is one of the thread's cycles.

A cycle takes the first `batch` rows by id (`FirstRows`). Rows that were delivered leave
the list of a delivery cycle and make room for the next, but not that of a
reconciliation: `_iter_delivered_ids` begins with the smallest id every time. `ahead` is
the number of delivered rows of other versions with smaller ids. The transaction that
restores the rows of a failed deletion can fail too (`DeleteRestore`, trouble
`restore`); the rows then stay `deleting` until a console starts.

## 3. Runs

The flow runs use two workers (the store three sessions and two readers). Two are enough
for a worker and the one that overtakes it; the third session of the store tells the
stale one, its successor and one after a delete apart. A second reader lets a rebuild
meet another's backfill; readers are at work only under the first generation and before
a backup (`ReadersEarly`), since they touch the index alone, which saves and deletes of
one session disturb as those of several do. `MaxDeliveries` is 2, so that
dead-lettering is reached with few faults; `MaxGen`, `MaxMsg` and `MaxTok` are larger
than what the budgets use up in the behaviours that matter. `CHECK_DEADLOCK FALSE`:
an execution that has ended, or that waits for an event that never comes, is at
rest, and so are requesters that are answered, filters without events and an empty
outbox.

The three other modules take their faults as a set of *scenarios*, of which the
initial state picks one: who takes part, and how often each trouble may happen.
Troubles that interact are in one scenario, others in different ones, which keeps
the state space small without leaving a combination out that the code handles.
`Dedup.cfg`: two requesters, one worker, four ids, five messages, two claim attempts
(three in the code; the third repeats the second), one deferral before the bypass, and a
cap of two slots, of one that a dead start exhausts, or none. `Events.cfg`: up to two
filters, three events, two subscriptions, two instants, a page of one event that grows
fourfold. `Outbox.cfg`: up to two consoles, two definitions, two rows, two attempts
before a row counts as failed, batches that hold all rows, or one row, or none of them.

| Run | Shows |
|---|---|
| `store` | Generations are unique, the holder is the newest, overtaken sessions neither write nor delete, deletes are final for older sessions, a row is in the index unless one of three races of its readers lost it, fence values do not regress, and the store implements `EpochRegister` |
| `flow_crashes` | Two crashes anywhere and a failed push, or a crash and a failing node, in a flow with a service node: no running row without a carrier, no task forgotten, the marker cleared only after the push, no published decision lost; and under fairness a running execution completes, fails or suspends |
| `flow_takeover` | A stall, two crashes, a failing node with no retry left and a user's retry: the holder of the lease never runs a node that is recorded as completed, and only a retry replaces a final status |
| `flow_control` | A failing node and one cancel or forced delete at any moment: every worker stops after its current node, and no write of a lease revoked by the delete lands |
| `start_dedup` | Requesters and workers that crash, rows, messages and marks that fail, users that cancel and delete, requesters slower than their claim, quotas that are full, cannot be asked or forget a slot: one execution per key unless one is deleted, every accepted id has a carrier and settles, enqueued claims are final, accepted executions are not taken back, running ones hold a slot but in four cases, and a client that keeps trying is answered |
| `events` | Lost notifications, crashes, failing reads, writes and enqueues, late events, subscriptions that run out, one or two filters: the cursor covers what it passed, one resume per event and subscription, a wait is subscribed, every event is read, an event or a timeout ends the wait while the subscription lasts |
| `outbox` | Failed, partial and slow deliveries, lost keys, edits and removals behind the API, failed deletions and failed restores of their rows, small batches, crashes, operators, one or two consoles: no ghost of a deleted version, closed rows stay closed, one writer per row, and the target converges to the source |

Fairness. In `flow_crashes` worker threads run, idle ones poll the queue and claim
(`_consume_loop` is an endless loop with a blocking read of at most a second), the
lease of a dead worker expires (Redis TTL), a request under way is completed. In
`start_dedup` live requesters and workers make progress, messages come back until
they are acknowledged, clients and schedules that failed try again where the scenario
has retries, claims and slots of the dead expire by their TTL, the sweeper runs. In
`events` the event loop lets every task run again (strong fairness of the
reconciler's and the checker's rounds, which other tasks of the loop may interrupt),
workers consume, timeout keys expire, processes are restarted. In `outbox` the thread
cycles for ever (`_outbox_loop`; strong fairness, since the list of due rows may be
empty in between), deletions under way are completed, consoles are restarted, leases
and back-offs run out and an outage ends. No fairness is assumed of users, operators,
publishers or faults.

Assumptions that deserve attention.

- `ClaimIdleExceedsLease`. `flow_crashes` assumes that a message is claimed only after
  its dead owner's lease has expired. The defaults are the other way round (`claim_min_idle_ms` 60 s, lease TTL 120 s), and then `v_carrier_lost`
  applies. A deployment that sets the idle time above the TTL gets the guarantee.
- The TTL of a subscription. `WaitIsSubscribed`, `EventEndsWait` and `TimedWaitEnds` hold
  until the subscription of the row has lapsed: an execution that waits longer than
  `store_subscription` keeps its data key (`event/redis.py:1717`, 7 days unless
  configured) is resumed by no event and no timeout, and a timeout must be shorter than
  that. TLC violates each of the three without the condition.
- The quota. `RunningHoldsSlot` bounds the slots by the cap and names the four ways to run
  without one: the gate could not ask Redis, the start was deferred more than `DeferMax`
  times, the slot ran out while the execution waited or ran, or the requester is taking
  the start back and has released the slot (a separate command) before it deletes the row.
  Without any one of them TLC finds a violation.
- The index. `RowIndexed` holds while the mark stands, but for three races that `lost`
  records: a listing prunes the member of a row saved after its MGET
  (`storage/redis.py:562`, 590); a rebuild drops the index behind a backfill that has
  passed the row and will set the mark (638); a backfill cannot read the row and goes on
  (499). Without any one of them TLC finds a violation. The next save or load of the row
  puts the member back.
- Batches. `Converges` is stated while the delivered rows fit in a batch and no restore of
  a failed deletion has failed itself. TLC violates it without either condition: a row
  beyond the first `batch_size` delivered ones is never compared with source and target
  again.
- Budgets. `RunningHasCarrier`, `NoForgottenDispatch` and `RunningSettles` hold for the
  flow and the budgets of `flow_crashes`; the first two are also proved for every flow
  and number of workers under conditions of their own (section 4). Outside both, TLC
  finds executions left behind:
  - an `event` node before the first saved row, with one crash or one failed node: the
    subscription is taken and resolved while the row still stands at the start
    (`<<"event", "task">>`);
  - as many crashes as it takes to dead-letter the start, whose clone then runs beside
    it (`<<"service", "task">>`, four crashes);
  - crashes together with failing nodes, through the lease conflicts that are
    acknowledged (`<<"task", "task">>`, three crashes and two failures; for
    `NoForgottenDispatch` one crash, one failure and one failed push);
  - for `NoForgottenDispatch`, one crash in `<<"service", "service", "task">>`: the
    session of an event reaches the second service, and its redelivered message no
    longer fits the row and is acknowledged. The docstrings at
    `flow_worker.py:4622` and `5186` describe a redelivery that compensates.
- `DecisionNotLost` is checked, and proved, without stalls, requests and nodes out of
  tries. Each part is needed. With two stalls (and a
  claim that comes before the lease expires) TLC finds the published event of a
  suspension dropped: a start whose lease was taken over writes its verdict without a
  token (`StartFailed`), the dead-letter guard of the event's message takes that
  verdict for final, and the new holder, which is about to suspend and has already
  subscribed, then writes a row that waits for an event nobody carries any more.
  With a cancellation of `<<"event", "service", "task">>` the cancel message resumes the
  execution before the row says `cancelled`; the console then writes `cancelled`, the
  guard drops the service's event, and clearing the marker writes `suspended` back.
  With two crashes and two failures the guard's own verdict lands between the push and
  the clearing of the marker.
- `OneIdRuns` is stated for behaviours without a deletion. With one, two executions may
  run for one key: the worker that drops the message of the deleted execution reads
  the dedup key (`ReleaseGet`), a new request takes the key, and the worker's delete
  (`ReleaseDel`) frees it for a third one while the second is started. The comment at
  `_release_start_dedup` (`flow_worker.py`) accepts a repeated start in that window.
  TLC finds it with two workers, a deletion and a crash, or with three requesters that
  try again.
- Conditions in the properties. `StartDedup` states its properties for behaviours in
  which certain troubles have not happened (`Calm`); `EventEndsWait` excludes
  `Swallows`; `EngineOutbox` excludes what its documentation excludes and
  `NotPromised`. In each case TLC finds a violation without the condition, and the
  windows are listed below. The runs contain scenarios in which the excluded trouble
  happens, for the properties that are stated without the condition.

`HolderNeverReruns` and `TerminalIsFinal` speak of rows written under a lease: the
dead-letter guard, the failure path of a start and the console write without a
token, and can replace a newer row.

### Where the code and its comments disagree

| Run | What happens |
|---|---|
| `v_start_overwrites` | `start_flow` looks for a checkpoint before it has the lease and writes the first row after it; a second delivery overwrites progress made in between |
| `v_carrier_lost` | A crashed worker's message is claimed while its lease lasts, refused with `ExecutionLeaseError` and acknowledged; when the lease expires nothing is left that would continue the execution |
| `v_deleted_returns` | The failure path of a start writes after its token was reset, and brings a deleted row back |
| `v_start_lost` | The worker reads the dedup key and deletes it in two commands; in between the key may go to a newer start, whose message is then dropped as a repetition although its caller was told it is started |
| `v_event_swallowed` | The reconciler of a second filter counts an event as handled because the first holds its dedup key, and moves the cursor on; when the first filter's enqueue fails, nobody reads the event again |

### Windows known from the model, without a property

Each of these was seen in a trace of TLC or is visible in a definition, and is either
documented, deliberate, or contradicted by no statement of the code.

Worker:

- the cancel message of a suspended execution may be processed before the console
  has written `cancelled` (`executions.py:2981`); the flow then runs on for one node
  (the comment at 2986 expects the opposite order);
- a redelivered start mints a new step token (`flow_worker.py:3536`), so connectors
  see another idempotency key; the token kept on an error row is compared with the
  wrong node and never reused (4308);
- a lost lease in the first run of a message ends the execution as `cancelled` (6102);
- a compensation that finds the lease taken is acknowledged although the holder may
  fail (5204); a crash between push and clearing the marker pushes twice (5256); a
  crash after the first run of a message repeats two nodes (4594);
- the dead-letter guard writes its verdict over the row it read before it looked for
  the lease and the tombstone (5686), without a token (5797);
- a wake-up counter that is incremented after the write gives a wake-up for free (4332);
- the first persist of a start raises between setting the token and the block that
  resets it (3588), and the watchdog works from a snapshot of the leases (6070); Redis
  write errors and the watchdog's own state are not modelled.

Start dedup: a mark that took effect but lost its answer lets the sweeper delete a
queued execution another caller was given (`executions.py:2777`); a requester slower
than its claim leads to two live executions (`start_dedup.py:275`); a recovery message
that cannot be sent is still answered with success (`executions.py:1164`); a schedule
whose mark failed has moved on to its next due time (`schedule_service.py:625`); the
sweeper deletes a row that has started since it looked (`start_dedup_sweeper.py:180`);
the slot of a cancelled queued execution is taken again by its message
(`executions.py:2904`).

Events: `mark_event_processed` brings the data key of an unregistered subscription
back without a TTL (`event/redis.py:2058`); subscriptions of executions that are over
stay until their TTL (`event_filter.py:211`); with two filters the cursor can move back
(`event_reconcile.py:324`); an event stored after the cursor has passed its time is not
read (163); an event between subscription and suspension does not match
(`event/core.py:135`); more events of one instant than the largest page hold the
reconciler (266); a filter that dies between the dedup key and the enqueue swallows the
event until the key expires (`event_filter.py:229`).

Store: a listing, a rebuild or a backfill can lose the index member of a live row, as
section 3 says of `RowIndexed`.

Outbox: delivered rows beyond the first `batch_size` are never reconciled, although the
docstring at `engine_outbox.py:1067` says that many rows are digested in turns; rows whose
restore failed stay `deleting` until a console starts (594); a console that starts while
the target is down starts no thread (`main.py:422`,
although 373 says that the thread reconnects); a delivery that set the key and failed to
register the version leaves a key that `delete_flow` does not delete
(`storage/redis.py:1133`); a starting replica takes back the tombstones of another
replica's deletion (`engine_outbox.py:630`); the reconciliation of a version removed
behind the API may clear away the row a new publication has been deduplicated against
(1154); it also compares with a draft as if it were published (988); deletions from
several replicas (documented at 76-82) and while the target is down (documented at 502)
leave ghosts.

## 4. Proofs

Everything below is proved by TLAPS for every value of the constants: any number of
workers, filters, consoles, requesters, messages, events and nodes, and any budget of
faults. The assumptions are the named `ASSUME`s of the modules: the bounds are
naturals, null values are no members of the sets they complete, a flow ends in a task
(`FlowAssumption`), there are finitely many consoles (`OutboxAssumption`), and each
trouble of `StartDedup` other than a client's retry happens finitely often
(`DedupAssumption`; how often is left open). 31 of the 38 properties of the runs are
proved: all invariants and all action properties; the other seven are liveness. The three
theorems of `FlowDelivery_proofs` hold for limited faults only, and name the limits as
assumptions of the theorem.

### FencedStore

Proved: the type invariant, the other three invariants and the action
properties of the `store` run, and that `FencedStore` implements `EpochRegister`.

The inductive invariant `StoreInv` conjoins the types with: no session's token
exceeds the counter (`TokensGranted`); tokens of two sessions differ
(`GenerationsUnique`); a live lease bears the counter's value (`LeaseNewest`); a
session bearing the lease's generation is its holder (`LeaseOwned`); the revocation
mark does not exceed the counter, and a fence key the scripts would accept, unless
an operator restored it, exceeds the mark (`FenceAfterDelete`). The parts need each
other: uniqueness survives an acquisition only because the granted generation
exceeds every token, and finality of a delete survives one only because the mark
stays below the counter. A fenced write then
requires fence = counter = token, so its generation is the newest granted; a write
after a delete requires a generation above the mark. For the refinement the
register's epoch is the counter, and it is open while the fence key equals the
counter: acquiring grants, deleting and expiry close, a restore of an old fence key
opens only what an operator put back (a step of `Outside`).

`RowIndexed` is shown with `Accounted`: a row that is neither in the index nor `lost`
stands without the mark, and no backfill has passed it by, which would set the mark at
its end. Any number of readers may be at work.

### FlowWorker

`FlowWorker_proofs` proves `FlowTypeOK` and `FlowImplementsStore`: every step of
workers, queue, console and filter is a step of `FencedStore` or leaves its variables
alone. The theorems about the store therefore hold of the whole system
(`FlowNoResurrection`, `FlowImplementsRegister`). The type invariant needs a good deal
of control: `FlowInv` says that the row and what a worker has in memory are `Sound`
(whatever is running, suspended or in error has a node left; whatever is suspended
waits at a node that suspends and has a subscription) and that each worker is `Sane`
where it is (a token wherever it acts under a lease, a node number within the flow).
One lemma per group of actions shows that the group keeps `FlowInv`, over lemmas for
the common shapes of a step (`GotoStep`, `PersistStep`, `LeaveStep`, `AcquireStep`).

The same module adds one invariant per property.

- `CancelInv` for `CancelStopsEachWorker`: a worker that ran a node after the flag was
  set is not about to run another one. Every way into `run` passes the flag
  (`EntersRun`), and nobody but the console clears it.
- `MarkInv` for `MarkerClearedAfterPush`: a row and a worker about to clear the marker
  agree with the dispatches made. The compensation reads the row again under the lease
  before it clears.
- `HolderInv` for `HolderNeverReruns`: the row of the holder of the lease, if written
  under a lease, is not ahead of what the holder has in memory. It is inductive because
  a worker enters the loop only with the row it has just read or written, and because
  whoever else writes under a token takes the lease away first (`OthersKeep`).
- `FinalInv` for `TerminalIsFinal`: a worker whose write the fence would accept has no
  finished row before it, unless it retries one that ended in error.

`FlowDelivery_proofs` is about what must not get lost on its way. Its theorems assume
part of the following; section 3 has a counterexample for each part that is dropped.

| Condition | Says |
|---|---|
| `Steady` | no renewal stalls, nobody cancels or deletes, and nodes fail less often in all than one may be tried |
| `CrashesOnly` | no node fails, and crashes and failed pushes together stay below `MaxDeliveries` |
| `ClaimIdleExceedsLease` | a message is claimed only after the lease of its dead owner |
| `SavedBeforeEvents` | no `event` node is reached before a row with progress is saved |
| `ServiceFirst` | a service has only tasks before it |

`FlowDecisionNotLost` needs `Steady` alone, with any number of crashes, failed pushes and
retries of the user. Its invariant `DeliveryInv` is a tower:

- `SteadyInv`: a worker with a token is the one holder of the lease and the fence accepts
  it (`OneHolder`); nobody is about to cancel, abort or write a dead-letter verdict;
- `WorkInv`: so what the holder has in memory is the row it will write over;
- `AttendInv`: a worker treats a decision's message as one until it is admitted, and never
  mends the dispatch of another subscription;
- `AskInv`: a subscription bears the generation of the session that asked, so a session
  that has not asked yet waits for nothing decided, and its own message is of an older one;
- `DecisionInv`: a decision published for the subscription of the row, or for the one a
  worker is about to write, has a message in the queue or under work, and no worker that
  has it is about to throw it away (`Carries`).

`FlowRunningHasCarrier` and `FlowNoForgottenDispatch` add the other conditions. Without
failing nodes every step of a worker is one of seven moves (`Looks`, `Drives`, `Acquires`,
`Yields`, `Dies`, `Pushes`, `Writes`; `CalmStep`), and the invariants are shown move by
move instead of action by action:

- `OwnInv`: a message under work is pending in the name of its one worker;
- `RowInv`, `ProgressInv`, `FirstInv`, `ResolvedInv`: how far the memory of a worker, the
  row, the subscriptions and the decisions may be ahead of each other;
- `AloneInv`: until the first decision there is one message, the start, with one worker at
  a time, and a lease is that worker's or a dead predecessor's. This is where
  `ClaimIdleExceedsLease` comes in: the next worker finds the lease free, so the start is
  not acknowledged over a lease conflict;
- `DeliveriesInv`: every delivery of the start but the last was used up by a crash or a
  failed push, so the start is not dead-lettered;
- `CarriedInv` and `DriveInv`: a row that runs, or owes its service the task, is carried
  by the start before the first decision and by a decision after it;
- `ServiceInv`, for the task of the service: once something was pushed or decided there
  is no service left ahead of the row.

### EventDelivery

`EventInv` has the types and, for tasks and scans, what they are about: a task handles a
stored event, a page holds stored events. Beyond it:

- `WaitInv` for `WaitIsSubscribed`: until the row is saved as suspended nothing but its
  TTL removes a subscription and the row will wait on the latest; afterwards only the
  resume message of that subscription goes before it is removed. `Stands` says of every
  other step, a clean-up of the indexes included, that a subscription the filters can
  find stays one or lapses;
- `ResumeInv` for `OneResumePerEvent`: a task between the dedup key and the enqueue is
  alone with the key, nothing was enqueued under it, and without a failed enqueue keys
  stay. This holds of any number of filters, crashes included;
- `CoverInv` for `CursorCovers`: the cursor and the one each reconciler is about to
  write have passed only events that were handled or are still in its page, and are
  times that have come or keys of stored events, so that events published in order lie
  behind them. The page's new cursor is its last event only if the page is full and
  the end of the window otherwise, which is where the order of keys
  (`KeyOrder`, `LastIsMember`) and `GreatestElement` come in.

### EngineOutbox

`OutboxInv` has the types and the exclusion by the process lock: a thread between its
steps and a deletion that has marked its rows are not in one process together.
`LeaseInv` (a thread at a row has its lease, while the target answers in time) and
`WorkInv` (the row is what the thread read) give `SingleWriter`; `ClosedInv` (no thread
at a closed row, and no deletion remembers one as due) gives `ClosedStaysClosed`;
`RegisteredInv`, `PurgedInv` and `GhostInv` give `NoGhost`: a key is registered unless
a delivery failed halfway, so a deletion finds it, and what was purged stays away until
the transaction, because the thread that could write it needs the lock.

### StartDedup

`DedupInv` has the types, and that no two requesters claim one id. `FreshInv` says that
nobody but its own requester works with an id whose row was not written yet; `SlotInv`
that a worker past its gate, and every row that runs, has a slot, is deleted or over, or
is recorded in `beside`; `CapInv` that slots do not exceed the cap, since only the two
admissions add one. Together they give `RunningHoldsSlot`, with every trouble there is.

`StartDedupCalm_proofs` is about behaviours in which no requester is slower than its
claim, no mark goes unanswered and nothing is deleted; requesters and workers may still
crash anywhere, writes fail, claims of the dead expire, users cancel. The invariant
`CalmInv` then says who may touch the key: at most one requester is *busy* (from the
claim to the mark), key and claim are its own, and until it has sent its message nobody
has answered with, run or cancelled its id; every message, worker and started id belongs
to the id under the key. From it follow `OneIdRuns`, `EnqueuedIsFinal` and
`AcceptedNotUndone`, and with `CarriedInv` (what is marked or about to be marked has a
message, has run or is deleted, while no recovery fails either) `AcceptedIsCarried`. A
deferred start is in the stream twice for a moment; that the copy outlives the original
(`Copied`) holds because messages are numbered as they are sent (`Numbered`). The
proof first reduces a requester's twenty-odd actions to what they may do to the keys, to
the rows, to the caller, to the stream and to what the requester knows (`KeysMoved`,
`RowsMoved`, `Tells`, `Sends`, `Reads`).

### What is model-checked only

- Liveness: `RunningSettles`, `AcceptedSettles`, `ClientAnswered`, `EveryEventSeen`,
  `EventEndsWait`, `TimedWaitEnds`, `Converges`. They need fairness and `ENABLED`, which
  this prover does not handle.
- `RunningHasCarrier` and `NoForgottenDispatch` beyond the conditions of their theorems:
  `flow_crashes` also has a failing node, and as many crashes as dead-letter a message,
  for its one flow.
- The violations of the `v_` runs.

## 5. Plan

Done: all modules of section 2 and the proofs of section 4. Next, in this order:

1. The lease watchdog's own state (watched leases, orphans, progress publishing) and
   Redis write errors in the worker.
2. The console's scheduler and the DLQ replay.

## 6. Not modelled, and why

Expressions, node library, DSL and the engine's in-process executor: sequential
computation, no protocol between processes; together with the console, the frontend
and plaita-ai they are most of the repository's lines, which is why the map covers a
small share of them. Console views, accounts, flow editing, frontend, plaita-ai:
CRUD, rendering and prompts. Dispatch ledger: an append-only record no decision
depends on. Tenant status and DLQ quota: gates that refuse a message before any of
the paths modelled. Registry, capacity, metrics,
timelines, alerts: output that no decision about ownership depends on. In-memory
and SQL storage: not used by cluster workers.
