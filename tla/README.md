# geth-benchmark: models, checks and proofs

geth-benchmark is a load generator for Ethereum nodes. An engine issues works at
a given rate to a fixed number of workers, each work runs a test case against
the node, a collector accounts for the outcome and the latency of every work, a
reporter publishes a histogram to InfluxDB, and a transaction monitor tells the
transfer test cases when their transaction has been mined. This directory holds
TLA+ models of these parts, the configurations with which TLC checks them, and
proofs checked by TLAPS.

## 1. Inventory

| Part | Source | State | Operations | Interacts with |
|---|---|---|---|---|
| Benchmark engine | `internal/benchmark/engine.go`, `CreateRpcClients` of `internal/core/rpc.go` | clients, work channel, deadline, the program counters of `Run` and of one `consumeWork` per worker | `Run`, `produceWork`, `consumeWork`, `doWork` | wait group, collector, test case |
| Limit wait group | `internal/benchmark/throttler.go` | `occupiedCh`, `sync.WaitGroup` | `Add`, `AddWithContext`, `Done`, `Wait` | called by `Run` and, deferred, by every worker |
| Result collector and monitor | `internal/benchmark/result.go` | `BenchmarkResult`, `totalExecTime`, mutex | `initBenchmarkResult`, `onWorkStart`, `onWorkFinish`, `printStatus`, `monitorLoop` | goroutines of the engine; calls the reporter under its mutex |
| InfluxDB reporter | `internal/benchmark/influxdb.go` | `workBuckets`, mutex | `CollectWorkResult`, `PublishReport` | collector, monitor, the server |
| Transaction monitor | `internal/txpool/txs_monitor.go` | `txConfirmedSubs`, mutex, the event loop | `SendTransaction`, `subscribeTxConfirmed`, `eventLoop`, `fetchBlockTxs`, `dispatchTxsConfirmed` | senders (channels), the node |
| Test cases | `internal/benchmark/testcase/*.go` | one nonce per worker | `Prepair`, `CreateWorker`, `DoWork` | wallet, monitor, node |
| Test wallet | `internal/benchmark/wallet.go` | accounts, pending nonces | `FetchNonces`, `GetPendingNonce` | node |
| Token deployment | `internal/benchmark/erc20/deploy.go` | none | `DeployBenchmarkToken`, `waitForTxConfirmed` | node |
| Node listener | `internal/core/listener.go`, `TryConnect` of `rpc.go`, `cmd/reporter` | client, two subscriptions, two files | `TryConnect`, `listenEventsWorker`, `onNewHeads`, `onNewPendingTx` | node |
| ERC20 token | `internal/benchmark/erc20/ERC20.sol` | balances, allowances | `transfer`, `approve`, `transferFrom`, ... | called through the bindings |
| Command line | `cmd/benchmark` | none | flags, printing | creates the engine |
| Bindings | `internal/benchmark/erc20/ERC20.go` | none | generated | |

### What is hard, and what makes each part correct

* **Engine.** The producer, the workers and the deadline race; the channel is
  closed while works are buffered; `doWork`'s `select` evaluates `DoWork` before
  it looks at the context, so both of its cases may be ready. Correct means: no
  work is lost, taken twice or out of order, `Run` returns only when every work
  that was sent is concluded, and it does return.
* **Limit wait group.** The channel and the wait group are touched one after
  the other without a lock. Correct means: the limit holds at every
  interleaving, `Done` neither blocks nor panics, `Wait` covers every earlier
  `Add`, no caller is starved.
* **Collector.** Two unordered goroutines per work; `Total` is counted with an
  atomic add and no lock, the rest is under a mutex; the monitor reads counter
  after counter without any lock. Correct means: exact counts, exact latencies as
  far as the sentinel of the minimum allows, and a printed number of works in
  progress that is off by no more than what happened while it was read.
* **Reporter.** Its mutex is taken under the collector's and held across
  blocking HTTP writes. Correct means: a report is the histogram of one moment,
  the server's values never fall, nothing recorded is missing from it, every
  result gets recorded in the end.
* **Engine with collector.** `Run` waits for the workers but not for the
  goroutines that record their results: it sleeps a second. Correct means: the
  result printed accounts for every work whose goroutine has run, no goroutine
  uses the result before it exists, and a hanging server cannot keep the run
  from ending.
* **Transaction monitor.** A transaction can be mined before the call that sent
  it returns; the call may fail although the node has the transaction; the
  context may expire during the dispatch; the event loop sends to subscribers
  while it holds the mutex; a block is fetched by number after its head was
  announced, when the chain may have another one there. Correct means: no
  confirmation is lost or invented and the loop never blocks.
* **Test cases, wallet.** A worker counts its nonce itself, and advances it
  before the send; errors of the nonce query are dropped; earlier runs used the
  same accounts. Correct means: the count never gets ahead of the node by
  itself, no nonce is used twice, an accepted transaction is mined unless one
  before it was lost, and, with the monitor below, confirmed to its worker.
* **Token deployment.** In `TransferERC20`, account 0 deploys a contract after
  the nonces were fetched; the receipt is polled for without end, every error
  taken for "not yet". Correct means: no worker starts with a token that is not
  there, only worker 0 is behind the node, and the preparation ends unless the
  deployment is never mined.
* **Listener.** A head is handled in a goroutine of its own, a transaction in
  the loop, which reads no channel meanwhile; any error starts it over with a
  new client, and the old one is never closed, so that subscriptions without a
  reader go on beside the new ones. Correct means: nothing is missed while a
  subscription lives, nothing is recorded twice, heads are received in order
  across restarts, what was received gets recorded, and the listener comes back.

`PROJECT.json` lists each hazard at its line with the properties that cover it.

## 2. Modules

| Module | Models | Checked by | Proofs |
|---|---|---|---|
| `LimitWaitGroup` | `throttler.go` | `MCLimitWaitGroup` | `LimitWaitGroupProofs` |
| `InfluxDBReporter` | `influxdb.go` | with the collector | with the collector |
| `ResultCollector` | `result.go`, extends the reporter | `MCResultCollector` | `ResultCollectorProofs` |
| `BenchmarkRun` | abstract: what a run promises | as a property of `Engine` | |
| `Engine` | `engine.go`, instantiates `LimitWaitGroup` | `MCEngine` | `EngineProofs` |
| `BenchmarkSystem` | `Engine` and `ResultCollector` joined | `MCBenchmarkSystem` | `BenchmarkSystemProofs` |
| `TxPool` | `txs_monitor.go` and a node | `MCTxPool` | `TransferSystemProofs` |
| `TransferEth` | `wallet.go`, `testcase/transfer_eth.go` and a node | `MCTransferEth` | `TransferEthProofs` |
| `TransferSystem` | `testcase/transfer_eth.go` on top of `TxPool`; implements `TransferEth` | `MCTransferSystem` | `TransferSystemProofs` |
| `TokenDeploy` | `erc20/deploy.go`, `testcase/transfer_erc20.go`, `testcase/query_erc20_balance.go` | `MCTokenDeploy` | `TokenDeployProofs` |
| `EventRecord` | abstract: what the files of the reporter promise | as a property of `EthListener` | |
| `EthListener` | `listener.go`, `TryConnect`, the handlers of `cmd/reporter` | `MCEthListener` | `EthListenerProofs` |

Definitions marked `\* Faulty:` are not part of the model: each is a plausible
mistake in the definition that follows it, and the property named beside it in
`PROJECT.json` (`mutants`) is violated when it takes that definition's place.

### How state and actions correspond to the code

**`LimitWaitGroup`.** A unit is one `Add` with its `Done`. `stage` is where the
unit is: inside the `select` of `AddWithContext` (`adding`), between the send and
`wg.Add(1)` (`occupied`), inside (`in`), between the receive and `wg.Done()`
(`released`). `occupiedCh` is the number of buffered elements and `wg` the
counter. `awaited` is history: what `Wait` has to cover. The group is
parameterised by any finite set of units and any limit.

**`InfluxDBReporter`, `ResultCollector`.** `startPc` and `finishPc` are the two
goroutines of each work. `onWorkStart` is its atomic add; `onWorkFinish` is three
steps under the mutex: add the duration, the reporter's `CollectWorkResult`
(which waits for its own mutex), and the rest. The monitor is `printStatus`, of
which the line "Working:" depends on three counters, read in three steps
(`ReadCounter`) in any order, since Go leaves open in which order the operands
of an expression are loaded; `unread` and `shown` are what it has yet to read and
what it has computed, in integers, of which `Working` takes the remainder. Then,
with a reporter, `PublishReport`: a step that takes the mutex and makes the
points, one step per point in any order, a failing write that ends it, and the
flush. The rates are left out. Two variables are history: `before`, how many works
were started and recorded when `printStatus` read the first counter, and
`sinceZero`, the works recorded since the last whose duration was 0. Such a
duration, possible on a coarse clock, is taken for a minimum not yet known.

**`Engine`.** `pc` is `Run` together with `produceWork`; `wpc` one `consumeWork`
per worker, `doWork` included. `Add` of worker `w` is the pair of actions
`AddWorker`, `OccupySlot` and `GoConsume`, each conjoined with the wait group's
action; the deferred `Done` is `Leave` and `Gone`. `DeadlinePasses` may happen
at any moment while works are produced, and `produceWork` looks at it only after
a send, as the code does. `limiter.Take()` only delays a send; that a step may
be delayed is part of every model here. A process that has exited, panicked or
called `log.Fatal` takes no more steps (`Stopped`). The test case is external:
`DoWork` returns `nil` or an error.

**`BenchmarkSystem`.** Every action of the engine that calls the collector
(start of production, taking a work, concluding it) is joined with the collector
action it causes; all others interleave. The collector's goroutines go on while
`Run` sleeps its last second, and are cut off when the process exits.

**`TxPool`.** `SendTransaction` is a call per transaction: subscribe (under the
mutex), send, wait. The node is external: it may accept a transaction whether
or not the call is told so, mine it at any time after, and replace its latest
block. The event loop takes the oldest announced head, fetches the block that
has that number *now*, and dispatches its transactions one by one under the mutex.

**`TransferEth`.** `PendingNonces` is the wallet's, `pendingNonce` each worker's
own. A worker and its account are one: `CreateWorker` gives each worker the
account of its index. `Prepair` leaves the process with `log.Fatal` on every
error it sees (`TestcaseFatal` of `Engine`), so that only its success is here,
which `FetchNonces` reports also when the query, or a part of it, has failed. A
call of `DoWork` is the signing, which advances the nonce, the send with its
three outcomes, and the wait for the confirmation; the confirmation itself is
the subject of `TxPool` and is here the fact that the transaction is mined. The
node is external: it mines an account's nonces in order (`mined`), keeps what
came too early (`held`), refuses a nonce it has, and may get a transaction whose
send was reported as failed at any later time (`unanswered`). It has no limit on
what it holds and drops nothing.

**`TransferSystem`.** The calls of `SendTransaction` are those of `TxPool`, one
for each pair of a worker and a nonce; `Sign`, `Send` and `DoWorkReturns` are
the lines of `DoWork` before, in and after it. The mapping to `TransferEth` reads the
node's transactions off the mempool and the chain. A worker is mapped to
"waiting" as soon as the node has its transaction, so that an answer that is
lost after that is the end of a wait, and one lost before a failed send.

**`TokenDeploy`.** `pc` is `Prepair` of either test case (`test`), with
`waitForTxConfirmed` as the two points `poll` and `sleep`. `Fatal` is every
`log.Fatal` on the way; while polling there is none but that of a receipt with
status 0. The node is external: it mines the deployment, with success or not,
replaces its block, or drops it. `DoWork` of the two test cases changes no state
and has no action: `QueryERC20Balance` calls the node, and `TransferERC20` gives
`Transfer` no `Signer`, so that each of its works fails before it is sent. The
stale nonce of worker 0 has no consequence for that reason only.

**`EthListener`.** `pc` is the one goroutine of `listenEventsWorker`: the dials
of `TryConnect`, the two subscriptions, the `select`, the handler it waits for,
and the sleep before the next turn. `onHead` are the goroutines of `OnNewHead`.
The client's end of a subscription, which buffers events for the reader of its
channel and ends the subscription when the buffer is full, is external
(`queue`, `sub`), as are the connections (`open`). An abandoned connection keeps
its subscriptions, and `Announce` fills them as it does the current ones. A
subscription on a client that has lost its connection makes it anew, as
`rpc.Client` does. The context of `Start` is never done, so that the cases of
`ctx.Done()` are left out. A line of a file is the event it stands for.

## 3. Runs, bounds and what they show

| Run | Configuration | Question |
|---|---|---|
| `wait_group` | 3 units, limit 2, contexts may be cancelled | limit, safe `Done`, `Wait`, no starvation |
| `collector` | 2 works, durations 0, 1 and 2 in two buckets, reporter | counts, latencies, what is printed as in progress, histogram, reports, recording in the end |
| `engine` | 2 workers, channel of 2, at most 4 works | what `Wait` covers, no circular wait, refinement of `BenchmarkRun` (nothing lost or repeated), termination |
| `system` | 1 worker, channel of 1, 2 works, reporter that may hang with two mutexes held | what the collector hears of each work, the final result against what `doWork` returned (`verdict`), and termination |
| `tx_pool` | 2 transactions, 2 blocks, 1 replaced block | confirmations neither lost nor invented, each on its way at every moment |
| `transfer_eth` | 2 workers, nonces below 4, up to 2 transactions of earlier runs each | the workers' counts against the node's, gaps and what they hold up, refusals |
| `transfer_system` | 2 workers, with two works and one | refinement of `TransferEth`, no work stuck, confirmation from end to end |
| `token_deploy` | 2 accounts, one replaced block | the token, the nonces, the end of `Prepair` |
| `listener` | 2 connections, buffers of 1, 2 events | nothing missed or repeated, order, refinement of `EventRecord`; what was received is recorded, the listener comes back |
| `no_workers`, `connections` | small engines | two disagreements of code and text, section 6 |
| `nonces` | as `transfer_eth` | one more, of the wallet |

The bounds are chosen so that every guard is met from both sides. Three units
for a limit of two make a blocked `Add` and let a freed slot be contended. With
a channel of two and four works, the producer blocks, the channel is full,
drained and closed non-empty, and a worker takes a second work; two workers
conclude in either order. Two works are two pairs of goroutines, enough for a
lost update, for one to hold the collector's mutex while the other waits, and
for a report of two points to be cut between them; the sum of two durations 1 and
2 is not divisible by their count and exercises the rounding, and 0 before and
after another duration the sentinel of the minimum. One worker is
enough in `system`, since its goroutines outlive its works and overlap; that
several workers change nothing of the invariants is proved. Two transactions in two
blocks, one of them replaced, let a transaction move, disappear, or be announced
in one block and fetched from another. Four nonces hold the old transactions of
an account (none, mined, held, or held behind a gap), a send that is lost, and
one behind it; the workers share no account, and two are enough to see that one
does not disturb the other. `MaxNonce` and `MaxOld` are the bounds. Three
transactions of two workers let one worker leave a gap or a subscription behind
and go on while the loop serves the other; blocks hold one transaction there,
and `MaxHeight` is enough for all of them. Two connections are the current one
and one that was abandoned; a buffer of one event is full at once, so that both
a kept and an overflowing event occur; two events in all (`MaxEvents`, of both
kinds together) are enough for one left in an abandoned subscription and a
later one received by the current. Once all connections are left open the listener
dials in vain, as `Exhausted` says. `MaxWork`, `MaxHeight` and `MaxReorgs`
are the bounds on counters; the first is a bound on how late the deadline
passes and the other two on the node. `U64` is the modulus of `uint64`; 16 is
larger than the spread of differences in a status, so that one below 0 shows as a
number near 16 and is not taken for another.

`CHECK_DEADLOCK FALSE` is set only where the modelled part really stops: in
`transfer_eth` the
workers have reached `MaxNonce` and the node has nothing to mine, in
`token_deploy` the workers are there and the deployment is at its end. Everywhere else
deadlock is checked; where a process or a node may come to its end there is a
step `Stopped` that is enabled only then.

### Fairness

Weak fairness is assumed of goroutines that can run, of time (the deadline and
a context's time-out pass), and of the node where the property is about the
node's progress. Strong fairness is assumed where a goroutine competes for a
mutex or a full channel: Go's mutex hands itself to a waiter of more than a
millisecond, and blocked senders of a channel queue in order. `DoWork` is
assumed to return only after its context is done and only if it honours the
context (`HonoursCtx`); the transfer test cases do, through
`SendTransaction`. `QueryERC20Balance` passes an empty `bind.CallOpts` and does
not, so that `RunTerminates` is not claimed of it. A `WritePoint` ends (the HTTP
client has a time-out) for `ResultsGetRecorded`; `RunTerminatesAnyway` does
without that assumption. In `TransferEth` only the node is fair, to each account
whose next nonce it holds: nothing makes a worker work or a lost transaction
arrive. `TransferSystem` adds the fairness of `TxPool`'s event loop and of the
calls, and none for contexts. In `TokenDeploy` the preparation runs, and the
call for a receipt that is there succeeds some time (strong fairness: it is
repeated every half second). In `EthListener` sleeps end, handlers and
goroutines run (weak); the cases of the `select` are strongly fair, since Go
chooses at random among the ready ones, and so are dials and subscriptions,
which are repeated: a node that refuses them for ever would prove nothing about
the listener. `ListensAgain` assumes in addition, in its statement, that
connections stop being lost.

## 4. Proofs

Every theorem holds for all values of the constants that satisfy the named
assumptions (`GroupAssumption`, `ReporterAssumption`, `CollectorAssumption`,
`EngineAssumption`, `SystemAssumption`, `NonceAssumption`, `PoolAssumption`,
`TransferAssumption`, `DeployAssumption`, `ListenerAssumption`). They say that
sets are finite, limits, bounds and durations natural numbers, 0 included for
durations, and model values distinct.
`TransferAssumption` also relates bounds of the model: transactions are pairs
of a worker and a nonce below `MaxNonce`, and `MaxHeight` blocks suffice for
all. Every invariant and every action property that a run checks is proved,
and so are the refinements of `BenchmarkRun`, of `EventRecord` and of
`TransferEth`; the liveness properties are not. Some invariants are proved and
in no run of their own, for a run checks a stronger property or they are a
step of another proof: the type invariants (`TypeOK` of each module,
`SysTypeOK` of the two compositions; TLC found each of them to hold before it
was proved), `NoSlotLeaks` and `CriticalSection`, `WorkInOnePlace`
(`ImplementsRun`), `AddNeverBlocks` (`RunTerminates`), `OnlyFailuresLeak`,
`ReportsFollowEngine`.

A liveness property cannot be proved here, but its safety part can: that at
every moment what has to happen next is on its way, so that only an unfair
scheduler or an unfair node could keep it from happening. Each of the main
liveness properties has such an invariant, proved and checked:

| Liveness (TLC) | Invariant (TLC, TLAPS) | What it says |
|---|---|---|
| `ConfirmedEventually` | `ConfirmationOnItsWay` | the signal is there, or the loop is dispatching the block, or its head is still to be received or fetched |
| `AcceptedIsMined` | `MinableOrBehindGap` | the nonce is mined, or the node can mine the account's next one, or a lower nonce is lost |
| `WorksConfirmed` | `WorkNeverStuck` | both together, for a work from its send to its confirmation |
| `RunTerminates` | `NoCircularWait` | while `Run` is blocked, a worker can go on |

* **`LimitWaitGroupProofs`.** `CountersOK`: `occupiedCh` is the number of units
  in `occupied` or `in`, `wg` that of units in `in` or `released`. Without it no
  property is inductive, for the counters alone do not tell who holds them.
  Three lemmas say how a cardinality changes when one unit moves; the actions
  only cite them. `SlotsAreHeld` is the other half of the limit: the group does
  not shrink, so that a full channel means as many holders as the limit.
* **`ResultCollectorProofs`.** The invariant relates each counter to a set of
  works (counts, sums, extremes, buckets), and says what the holder of the mutex
  has and has not done. The average does not exceed the maximum because the sum of n
  durations does not exceed n times the maximum, and the same for the minimum
  as long as no duration was 0 (`sinceZero = Recorded`); the sum is carried in
  the invariant through these bounds, so that no induction over the set of
  works is needed. `LatenciesExact` assumes nothing of the durations and says
  exactly what `MinLatency` is: the shortest since the last duration of 0, or 0 if
  none has followed it.
  `WorkingBracketed` is about the unlocked reads. `PrintOK` says that there are
  values `t`, `s` and `f`, those of the three counters at the first read, such
  that each counter already read was between that value and the present one; as
  counters only grow, what `printStatus` has computed stays between the two
  differences. It claims no more: the range goes below 0 when a work is recorded
  ahead of its `onWorkStart` or after `Total` was read, and the number wraps.
  `MutualExclusion` states what its lock is for: a finish is in
  its critical section if and only if the mutex is its own.
* **`EngineProofs`.** `MainOK` ties the program counter of `Run` to what it has
  set; `StageOK` ties the wait group's stages to the workers' program counters;
  `LeaveOK` says that workers leave only a closed, empty channel; `QueueOK`
  that the channel holds exactly the works not yet taken, in order; `PlaceOK`
  that a taken work is with one worker or has a verdict. The wait group's
  invariant is imported: every step of the engine is a step of the group
  (`GroupStep`), so its own theorem applies. From these follow that `wg.Add`
  never blocks, that `wg.Wait` covers all works, and that every step of the
  engine is a step of `BenchmarkRun` or leaves it unchanged. The last needs
  `NumWorkers > 0`; the run `no_workers` shows why. `NeverDeadlocked`: where
  `Run` blocks, a worker can go on. At a full channel this is so because no
  worker has left before the close (`LeaveOK`), in `wg.Wait` because whoever is
  counted by `wg` is on the way to its `Done` (`CountersOK`, `StageOK`).
* **`TransferEthProofs`.** `Part`, the invariant of one worker and its account,
  says that the nonces a worker has used and is not just sending (`Used`) are
  with the node or lost, and conversely that the node has nothing but these and
  what it had before. The conjuncts need each other: a refusal is of an old
  nonce because the nonce being sent is not in `Used`, and a success lies below
  every gap because what is lost is not with the node. A step of one worker
  leaves the parts of the others alone (`OthersKeepPart`). The bounds `MaxNonce`
  and `MaxOld` are any numbers there. `OnlyGapsHold`: a transaction that the node
  has accepted is not mined only as long as the node has something of the account
  to mine, or a lower nonce was lost, since all lower ones are with the node or lost.
* **`TransferSystemProofs`**, first of the monitor alone. For each call, where
  its subscription is (entry in the map, signal in the channel, neither) against
  where the call is (`MapOK`, `ChainOK`); from it, no waiting call has missed its
  signal, the loop never sends to a full or closed channel, and success was
  mined. `WayInv` adds that nothing is mined before the monitor runs, for no call
  subscribes before `InitTxPool`; then each block with the transaction of a
  waiting call is announced, being fetched or being dispatched, also when it has
  taken the place of another at the same height (`NeverStuckOnItsWay`).

  Then of the transfers on top of it. `SysInv` says what `Prepair` has done, that
  a call has begun only for a nonce below the worker's count, that only the call
  of the work in progress waits, and that the node mines each account without a
  gap. Every step of the system is one of `TxPool` or leaves it alone
  (`SystemImplementsPool`), which brings the monitor's invariants in. The
  refinement of `TransferEth` has a lemma for each action (`SignMaps`,
  `SendMaps`, `MineNextMaps`, ...), and `ViewIsLocal` for the workers that an action
  does not touch. `TransferEth` counts what is mined, here it is a set: a finite
  set of numbers without a gap is an interval from 0 (`NoGaps`), so that its
  cardinality is the next nonce (`MinedBelow`). With `BlocksOK` (all that is
  mined is in the chain, which is no longer than that) follows `NeverStuck`: the
  transaction of a work is mined and its confirmation on the way, or the lowest
  nonce not mined is with the node, which has room for it, or is lost.
* **`BenchmarkSystemProofs`.** Every step of the system is a step of the engine
  or leaves it alone, and the same for the collector
  (`SystemImplementsParts`), so that the theorems about each part hold of the
  whole. `LinkOK` ties the two: a work is in the collector only from where the
  engine has it (out of the channel, out of `doWork`), and conversely, and the
  result is there before production starts. From this, the guards of the
  collector's actions never hold up the engine they are joined with
  (`EachReportedOnce`: a work is reported as started once and as finished once,
  in that order). With the counts of the collector, the
  accounting of the engine and `WaitCovers`, the final result follows: the works
  sent are those recorded and those still being recorded, and the total those
  counted and those still being counted. `LinkOK` also ties the error of each
  result to the verdict of `doWork`, so that those recorded count as succeeded
  or failed accordingly.
* **`TokenDeployProofs`.** What `Prepair` knows at each of its points: no
  transaction before the deployment, no address before a receipt with status 1,
  nonces from before the deployment.
* **`EthListenerProofs`.** `Fresh`: the buffers of the client the listener has
  now, and of no other, hold events in order, all later than what was received.
  A new client starts with empty buffers and what is announced is later than all
  that was, whence order, at most one line for an event, and `EventRecord`; what
  was announced since the subscription is in the buffer or received while the
  subscription lives (`Covered`). Nothing is said of abandoned connections,
  for nobody reads them: the run's mutant `ReceiveHeadShared`, with one channel
  for all, shows that this is the point.

Only model-checked: the liveness properties (`AddIsServed`,
`ResultsGetRecorded`, `RunTerminates`, `RunTerminatesAnyway`,
`ConfirmedEventually`, `AcceptedIsMined`, `WorksConfirmed`, `PrepairEnds`,
`RecordedEventually`, `ListensAgain`), which are out of this prover's reach.
They need fairness, and with it ENABLED, and the induction over what is
left to be done. The definitions of the models are not recursive, so that no
proof needs an induction over data.

## 5. Not modelled, and the plan

The plan was, in this order: the wait group, the collector with its reporter,
the engine with its abstract run, their composition, the transaction monitor,
the nonces of the transfers; then the listener with its abstract record, the
token deployment with the remaining test cases, the transfers on top of the
monitor, and the proofs about the compositions. It is carried out, with these
parts left out for good:

* `ERC20.sol` is a library contract, copied unchanged and deployed without a
  mint. Its supply is 0 for ever, nothing but the amount 0 can move, and no
  transfer of the benchmark reaches it; conservation of its balances would hold
  of nothing. Its Go bindings are generated.
* The command line: flags and a printed table, from top to bottom before and
  after the run. The values reach the models as constants.
* The derivation of the wallet's accounts (a library's), and `GetPendingNonce`,
  which has no caller.
* Rates over elapsed time. That a delayed `onWorkStart` can leave an older
  `SubmitPerSec` in place (`result.go:49`) is a hazard no property covers, for
  nothing says what the rate must be. The same is true of `len(p.txSubs)`, which `handleNewHead`
  (`txs_monitor.go:66`) reads without the mutex and only prints.
* The engine with a test case inside it: all the engine sees of `DoWork` is
  its answer and whether it minds the context, which `Engine` leaves open.
* In `TransferSystem`, replaced blocks and transactions of earlier runs:
  `TransferEth` has no replaced blocks, and the two parts deal with them apart.

## 6. Where code and text disagree

* `throttler.go:15` rejects `limit < 0`, while its panic says "wait group size
  must be greater than zero." The trace of `no_workers` is `--workers=0` getting
  past that check. No worker is started then and no work ever taken: the
  producer fills the channel of 100 times the rate and, unless `--duration` is
  over before that, is blocked for ever on the next send.
* `CreateRpcClients` answers a failed dial with `nil, nil` (`rpc.go:22`), so
  `Run` never sees the error, and the first worker panics dividing by
  `len(e.clients)` (`connections`).
* `FetchNonces` answers a failed batch call with `nil, nil` (`wallet.go:59`) and
  ignores the errors of its elements, so that `log.Fatal` in
  `transfer_eth.go:76` never runs and workers start with the nonce 0, which
  the node has had from earlier runs (`nonces`).

Not the subject of a run: `MinLatency` is not the minimum once a work took no
time (`result.go:73`), for after durations 0 and 5 it is 5 and exceeds the average
of 2 (`MinimumIsExact` and `LatenciesOrdered` state what holds); "Working:" can
show a number close to 2^64 for a moment (`result.go:94`); `--duration` bounds the production of works only, and
the backlog, up to 100 seconds of the rate, is started after it (in `Engine`
workers take works when `late` is true); the listener logs "RPC connection
closed." (`listener.go:67`) whatever has ended its attempt, but after a failed
subscription or an overflow the connection is open, is never closed, and its
only reference is overwritten at the next dial (`Exhausted` in `EthListener` is
where this ends with a node that limits its connections); with `--workers 0` and no `--erc20addr` the token test
cases index an empty wallet (`transfer_erc20.go:91`); `main.go:58` reads the file named by the default
phrase instead of the one given by `--seed`; `README.md:30` documents a flag
`--receipt` that does not exist.
