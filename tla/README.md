# mkpool: specification, model checking and proofs

This directory holds TLA+ specifications of **mkpool**, the solo-mining pool
engine under `yumtech/mkpool-src/src`, with the configurations that check them
with TLC and theorems about them that the TLA+ proof system checks. Paths below
are relative to that directory unless they start with `yumtech`.

    tlc -config ShareGate.cfg MCShareGate.tla       # one run
    tlapm ShareProofs.tla                           # one module's proofs

## 1. The system

The repository packages mkpool (C++23) for Umbrel and plain Linux, with
dashboards, a TV page and a separate Python arbitrage application. The logic of
the repository is in mkpool. It runs in one of several roles: a *pool* that mines on its
own node; a *proxy* or *redirector* in front of other pools; and *passthrough* and *node*
members of a cluster. Asynchronous work runs on a pool of io threads (a main
`io_context` and several others); each connection has a strand; the database
has a thread of its own. The main context is run by a worker of the pool
(`io_pool.cpp:48`) and by the main thread too (`mkpool.cpp:218`), so its handlers, the
generator's among them, run two at a time.

| Component | State | Operations | Talks to |
|---|---|---|---|
| Generator (`generator.cpp`, `zmq_client.cpp`, `ipc_mining.cpp`) | current template, ZMQ feeds and their liveness, timers, IPC handle | poll, keepalive, ZMQ message, watchdog, reconnect, stop | RPC client; calls `Stratifier::updateWork` |
| Stratifier (`stratifier.cpp`, `job_window.hpp`) | tip, window of recent jobs, duplicate table, best share | updateWork, findJob, register_share, note_share_diff | pool manager (new job), sessions |
| Client session (`client_session.cpp`) | subscription, worker, difficulty, aux jobs, V2 channel and custom jobs | subscribe, authorize, configure, submit (V1; V2 standard and extended), teardown | stratifier, RPC client, database worker, limiter |
| Output (`write_queue.hpp`) | queued lines, byte count, write in flight | push, completion, stop | socket |
| Vardiff (`vardiff.cpp`) | decayed share rates, current difficulty | on_share, set_current | session |
| Connector, rate limiter | open connections and tokens per address, bans | accept, allow, record_invalid_share, ban, release | sessions |
| Pool manager (`pool_manager.cpp`) | session shards, drain state | register, broadcast, drain waves, idle sweep, control commands | everything |
| Database worker (`db_worker.cpp`) | five queues, connection, batch in hand | enqueue, drain, flush, requeue, stop | PostgreSQL |
| Database, blacklist, network stats | miner-id cache, blacklist, last stats | lookups, reload | PostgreSQL, RPC |
| RPC client (`bitcoin_client.cpp`) | nodes, which is preferred | template, submitblock, validateaddress, failover | the nodes |
| Proxy, relays, upstream clients | upstream links, slots of their extranonces, waiters, pending shares | attach, forward, reconnect, migrate | miners, other pools |
| Cluster trunk, ingest, block relay | multiplexed sessions, frames waiting for the welcome | attach, frame, drop, block | origin, edges |

What is hard about it:

* **Interleaving.** `handle_submit` of every session runs concurrently with
  `updateWork`; they meet in three separately locked places (tip, table, window)
  and one atomic. Each critical section is correct alone; the question is what
  the handlers do with values read under an earlier one.
* **Ordering.** Jobs, templates, presence records and lines are each produced on
  one thread and consumed on another.
* **Failure.** The database goes away in mid-transaction; the node answers late,
  softly or not at all; peers reset connections while a write is in flight.
* **Teardown.** A session can be hung up by its reader, its writer, its
  watermark, a ban, the idle sweep and a shutdown, in the same instant.

What makes each part correct: a share is credited once and a solve is never
lost (share gate); an accepted record is stored once, in order, in its own round
(database worker); a line is sent once, in order, and nothing after the close
(output); the tip only moves as the node's does, and work always resumes
(generator); a call asks every node before it fails, and its caller hears once unless its callback throws
(RPC client); a
connection's slot is released once and its worker does not stay online (limiter, session);
a session ends on the newest job and its shares are rebuilt as it hashed them (broadcast);
a miner works as its link says wherever it is moved (proxy); both ends of a trunk agree on
who is connected (cluster).

## 2. The modules

| Module | What it is |
|---|---|
| `ShareGate` | Stratifier and the submit handlers of V1 and V2 sessions |
| `ShareProofs` | seven theorems: five about `ShareGate`, two about `NodeClient` |
| `DbWorker` | the database worker, its server and its process |
| `DbWorkerProofs` | four theorems about it |
| `RecordLedger` | what the worker promises: per kind, first in first out, each record once |
| `WriteQueue` | the output of a session and its teardown |
| `Outbox` | what the output promises: in order, once, nothing after the hang-up |
| `Generator` | every source of block templates: poll, keepalive, ZMQ, the node's mining IPC |
| `GeneratorProofs` | two theorems about it |
| `NodeClient` | the RPC client, its failover and watchdog, and the submission of a found block |
| `SessionLife` | a connection from accept to teardown: limiter, session, sweep, orders, drain |
| `SessionProofs` | eight theorems: five about `WriteQueue`, three about `SessionLife` |
| `JobFeed` | jobs on their way to a session, its difficulty, and its shares rebuilt |
| `JobFeedProofs` | five theorems about it |
| `Proxy` | upstream links, slots and migration under V1 and V2 miners |
| `ProxyProofs` | three theorems about it |
| `Sv2Upstream` | the upstream client for a Stratum V2 pool: connection, channel, jobs, slots, shares |
| `Sv2UpstreamProofs` | four theorems about it |
| `Trunk` | the two ends of a cluster's trunk |
| `TrunkProofs` | four theorems about it |
| `MC...` | model values and definitions for the configurations |

### ShareGate

One action per critical section. `updateWork` is four steps, because it takes
its locks one after the other: `PublishTip` (`mu_`), `PurgeSeen` (`share_mu_`),
`ResetBest` (the atomic), `PushJob` (the window). A template that cannot be
parsed returns before the first and is no step. The templates' order is not
restricted: any tip may follow any other.

A submit line is `FindJob`, then for V1 `ReadTip` (the verdict `stale_by_block`
is kept in the program counter, as the code keeps it in a local) and one of
`GateStale`, `GateLow`, `GateAccept`; then `NoteBest` and `SubmitBlock`. For V2 it is
`FindJob`, `HashV2` (which consults the duplicate table only for a solve),
`SubmitBlock` if it is one, `JudgeV2`, `NoteBest`.

| TLA+ | code |
|---|---|
| `lastPrevhash`, `issued`, `seenShares`, `bestShare` | `last_prevhash_`, `jobs_`, `seen_shares_`, `best_share_round_` |
| `upc`, `building`; `pc`, `share` | where a thread is, and its locals |
| `round`, `overflows`, `counted`, `late`, `solves`, `submitted`, `withheld`, `roundBest` | history, read only by properties |

A header hash is represented by what it commits to: job, search space
(extranonce1 and payout script) and the miner's own nonces. Two sessions may be given the
same search space, since `generate_extranonce1` draws 32 random bits. The hash's
value matters only through its difficulty, `Diff`. A session's threshold moves
with vardiff, grace period and tolerance; `Targets` is the set it may take and
each verdict picks any member.

Properties: `CountedOncePerRound`, `SolvesReachNode`, `RoundBestKept`,
`LateSharesBounded`. Two statements in the code's comments do not hold:
`StaleReplayGated` and `DuplicateNeverRecounted` (section 5).

### DbWorker

`Enqueue` and `Stop` belong to other threads. The loop is `Connect`, `Drain`, then
either `FlushBroken` or `FlushRefused`, or `FlushStatements` followed by `Commit` or
`CommitInDoubt`. The whole effect of the transaction is `Apply`, with its
statements in the code's order: shares before effort, effort before the blocks'
snapshot, reset after the snapshot. An outage (`DbDown`) leaves a connection that
still looks open (`link = "cut"`), as a `pqxx::connection` does until it is used.
`Restart` ends the process at any point, with everything in memory lost.

Records are told apart by a key (the worker of a presence, the hash of a block)
and the order of acceptance. Amounts are sets of shares rather than sums, which is
what lets `RoundsExact` speak of every single share: each stored once, in the effort of one
round, and none lost between the effort and the blocks' snapshots.
The hashrate queue has no caller and the five-minute aggregation writes only the
`hashrates` table; neither is modelled. That libpqxx's `in_doubt_error` does not
derive from `broken_connection` is taken from that library, outside this repository.

`NothingReordered` has two parts: no presence record is overwritten by an older one, and
`FifoLedger`, which states that the worker implements `RecordLedger` under the mapping
*pending = batch followed by queue, for each kind*.

### WriteQueue

`SendLine` posts; `Push` is the posted handler; `PopAndChain` and `OnFailed` are the
completion of a write; `OnDisconnect` is `on_disconnect_local`, whose exchange on
`closed_` makes it run once. `Refuse` is a handler that sends its error line and
hangs up before it returns. The socket (`WriteDone`, `WriteFails`) is boost's: a
close turns a pending write into a failed one, but a completion already queued keeps its outcome.
`OutboxPromise` states that the path implements `Outbox`, with *pending* the
accepted lines that have not reached the peer.

### Generator

Everything that fetches a template ends in `HandleTemplate`. Fetches of the poll chain
(`Polls`) and of the keepalive are records that pass through *asking the parent node*,
*asking the aux node* and *answered*; several may be in flight and be answered in any order.
`PollTimerFires` and `UpdateTimerFires` are the two timers, `ReceiveHashblock` a ZMQ message.
Durations are left out: an armed timer may fire at any time. `StopBegins` and `StopEnds` are stop() before
and after its join, which it does holding `mtx_` (`MtxFree`).

Handlers run on two threads at once. One that does its work under `mtx_` is one step; those that touch the
ZMQ clients are not done under it. The handler of a poll looks at the list of clients (`HandleFetch`) and goes on
in another step (`JudgeTemplate`). The watchdog (`WatchdogFires`), which replaces clients that missed a tip
or never started, tears the list down, waits for `mtx_`, fills the list and returns
(`WatchdogTearsDown`, `WatchdogLocks`, `WatchdogBuilds`, `WatchdogReturns`), with other handlers and stop between. A
handler that meets the list while someone changes it (`ListChanging`) may see any list (`FeedSeen`), and since the
behaviour is undefined it may also end the process (`Collide`). Races on the timer objects themselves are
merged into these; the feed of a single endpoint (`zmqClient_`) is left out, since nothing ever creates it.

The notify thread of the mining IPC has a program counter (`ipc`): it connects, reads the tip, publishes its client
(`ipcClient`), waits, and in template mode reads the template in two calls between which the
tip may move; what it finds it posts to the main context (`posts`). A client it loses is withdrawn
(`ThreadWithdraws`), then shut down, and then the thread lets go of it (`ThreadShutsDown`), while a share thread that
submits a block may have taken a copy at any point (`ShareHandles`). What the share thread does with its copy is not modelled.

`PollChainUnbroken` is the backstop of every mode, `RetiredBeforeDropped` the order in which a client is retired under
the share threads that use it, `WorkFollowsNode` says that the stratifier ends up with the tips of both
nodes, `FeedsHealOrEnd` that a dead feed is replaced and that stop ends every activity. They speak of runs that do not end in a
collision; that none happens is what the comment `RebuiltAlone` claims, which does not hold, and neither do
`StopClosesFeed` and `StopNeverBlocksThread` (section 5).

### NodeClient

A call is one HTTP exchange at a time: `stage` is where it is, `at` the node asked, `tried` and
`attempt` the arguments of `rpcTryEndpoint` and `submitAttempt`. `NodeReceives` and `AnswerRead` are
separate because a node may have acted on a request whose answer is lost: the block that is
then sent to the next node is answered "duplicate". `current_` is moved by every answer and by
the watchdog (`WatchdogFires`, `ProbeEnds`) while other calls go round. `FoundBlock` is what
`submit_block_candidate` starts: the IPC, the redundant copies, the submission with its
retries; `BlockAnswered` is its callback. `CallsAccounted` joins three statements: no node is asked twice in a failover, nobody
is told of a failure before every node failed every attempt, and the caller hears once, and once more for each time its
callback threw (`AnswersCounted`): the client takes the exception for a failure of its own and calls it
again. That it is always invoked exactly once (`InvokedOnce`) does not hold (section 5). A callback that throws does so before it
does anything else, and only when it is given an answer.

### SessionLife

A connection is a record (`conn[s]`) that passes through the accept (`Admit`, `Register`, `Place`, `Start`:
the sweep, the control socket and the signal handler run between them, because a worker and the main thread both run
the main context), the detection of its protocol, and lines or frames. One read delivers several
requests (`OnRead`, `OnFrames`): the loop goes on with the next one after a request that closed
the session. What others ask of a session is posted to its strand (`mail`). An authorization waits for the node's answers
(`asks`), which may come after the teardown or in the wrong order. `IdleSweep`, `Order`, `Wave` and `GraceEnds`
are the pool manager's; `counted` and `ip` are the address the limiter's slot was taken under and the one
it will be given back under, which the code reads separately.

### JobFeed

One session, the broadcast (`PushJob`, `OnNewJob`, `NotifyNewJob`) and the requests that interleave with it. It starts as V1
(*plain*, *merged* with a second chain, or *equihash*) or as V2; a V2 session sends `SetupConnection` and opens channels, standard or
extended, and has been *extended* since its first extended one, by which all its shares are then judged. A coinbase is whom it pays
and whether it carries the aux commitment; `told[j]` is what the miner was last sent for job *j*, and
`RebuildCoinbase` what `handle_submit` hashes, from the session's members as they are then. An equihash
job may have no output to redirect (`Unswappable`); that an address has no script is left out, since the node has found it valid.

Difficulties are fractions, counted in parts of which `Unit` make 1. `vd` is vardiff's state:
`OnShare` keeps its control and leaves the difficulty the decayed rate asks for to be any of `Diffs`. `Heard` is what the
miner is told: a V1 miner a whole number (`Rounded`), a V2 miner the difficulty as it is. Each way to a difficulty has the bounds the code
gives it: vardiff the tier's, the password fixed ones (`CustomMin`, `CustomMax`), a standard channel the one the tier
starts with, an extended one what its declared rate asks for. Of the grace periods (40 seconds, 15 on an extended
channel) only the end is an action.

`ThresholdAdvertised` compares what the miner was told last with what its shares are judged by. Vardiff does not round what it keeps,
so a V1 miner told 1 may be judged by 1 1/3; the property asks a share to meet the rounded number and
half a unit more. `astray` marks the requests after which the two are known to
differ: `suggest_difficulty`, a second standard channel, and a standard channel on a tier that starts at a fraction. A payout
name that ends the session is not modelled.

### Proxy

`UpstreamClient` is a record per link (`L`), its subscribers' slots among them; a session is a record
per miner (`S`), V1 (`ProxyDownstreamSession`) or V2 (`Sv2RelaySession`, the miners in `v2`). Handlers of the client run
on its strand, those of a session on its own; between them are `mu_` and the posts in `mail`. Two
handlers are split where the other side can tell: an attachment is `any_ready`, `attach` and the read of
the link's work (`pc`), and a message of the pool is set on the link before it is posted to the
miners that hold a slot (`casting`). `Migrate` walks the slots of a lost link in an order of its own. V2 miners open their channel
after they have set the connection up, and may open it again. Links have weights (`Cost`, their inverse), by which the least loaded is
found. A share is followed to its single verdict (`share`, `OneVerdict`).

### Sv2Upstream

`Sv2UpstreamClient`, which takes the place of `UpstreamClient` for a V2 pool, with the V1 sessions that take work from it.
The connection is a record (`c`) of what is awaited on the socket: a resolve or connect (`op`), a read, writes in flight, the
timer. Posted handlers wait in `strand`; those of the socket run, in any order among each other, once
their operation has completed. That order is what the teardown meets. A frame of the pool is one step; what it
posts to the sessions (`casting`) is another, since sessions attach meanwhile, in four steps
(`any_ready`, `attach` or `register_waiter`, `current_diff`, `current_job`: `pc`). Jobs are named by the order the pool makes
them in; `ids` is the number each carries on the wire and `era` the channel it was announced over. A pool gives no number twice on
one connection and may give those of an earlier connection again.

Two things are assumed of the pool. It names its newest job in `SetNewPrevHash`: the code does not read the job id in that message
(`sv2_upstream_client.cpp:308`) and takes the newest, so the part of `InStep` about the
pool's active job rests on it. And its first job is announced before its first previous hash, with no immediate job
(`min_ntime`) between a future job and its `SetNewPrevHash`: the branches for a job without a previous hash (`303`) and for a
previous hash without a job (`310`) are not reached. The version of a share without version bits is the newest job's; versions are
data here.

### Trunk

`ClusterTrunk` at the edge and `ClusterIngestSession` at the origin, with the wire in both directions
(`up`, `down`), the frames waiting on the trunk's strand (`posted`), for the welcome (`out`), and for a
loopback connection (`bridge[c].pending`). A lost connection drops every miner of the edge on the strand, while frames
posted by their sessions still wait behind it. Each miner's lines are numbered, so `LinesRelayed` is about each
one: in order, once, none missing; `EndsMatch` is about who is connected. Both ends notice a lost connection at once: a trunk
that one end still believes in (half open, with no keepalive to tell it) is not modelled, and `EndsMatch` says nothing of it.

## 3. The runs

| Run | Configuration | Expected | Shows |
|---|---|---|---|
| `share_gate` | 2 V1 sessions in one search space, 1 V2 session, 2 nonces, 2 tips, 3 jobs, 3 submits, window 2, table cap 1 | pass | four safety properties, 3.9 million states |
| `db_worker` | 2 workers, 2 parent blocks, 1 aux block, 3 records, queues of 2, 1 outage, 1 restart, refusals | pass | the accounting of rounds, the ledger refinement and presence order, draining; 417,000 states |
| `write_queue` | 5 lines of size 1 or 2, watermark 4, resets | pass | three invariants, one action property, the outbox refinement, delivery |
| `generator` | all four modes, an aux node in the polling one, 1 move of each tip, 1 poll and 1 post in flight, 1 fault, a stop | pass | two invariants, two liveness properties; 406,000 states |
| `node_client` | 2 nodes, 1 extra node, 1 plain call, 1 block, 2 attempts, 2 faults, 1 callback that throws | pass | the accounting of calls, two liveness properties; 836,000 states |
| `session_life` | 2 sessions of 1 address, 2 events, a V1 listener and a Noise one, a drain | pass | slots, presence, reconnect notices, the sweep; 638,000 states |
| `job_feed` | 3 jobs (two with aux work), 4 requests, every kind of session, difficulties in thirds, maps emptied at 1 | pass | newest job last, rebuilt as sent, judged as told, aux once; 326,000 states |
| `proxy` | 2 links, a V1 miner and a V2 one, 2 slots, both modes, 2 upstream events, 3 requests, 1 share | pass | miners in step, waiters known, one verdict; 1.8 million states |
| `trunk` | 2 miners, 2 lines, 1 line of the pool, 1 block, 2 losses, buffers of 3 and 1 | pass | both ends agree, lines relayed; 1.8 million states |
| `sv2_upstream` | 1 miner, 2 jobs, 1 difficulty besides the initial one, 2 shares, 1 failure, refusal or change of target, a stop, windows of 2 and 1 | pass | in step, rebuilt as hashed, verdicts, stop, one liveness property; 843,000 states |
| `sv2_recount` | as `share_gate`, 1 or 2 sessions, a table that never fills | violation | section 5 |
| `generator_stop` | as `generator` | violation | section 5 |

**Why the bounds suffice.** In `share_gate`, three jobs over two tips reach two
block changes, a keepalive in the same round and a return to an earlier tip; a
window of two makes the first job expire; a table cap of one makes it
overflow; three submits by sessions in one search space let a share be
credited, forgotten and replayed while another handler still holds an old verdict.
One nonce always falls between the thresholds and one solves a block, and both can be
refused for difficulty. Sessions of one search space, and the tips, are interchangeable, which
is the symmetry used; no liveness is checked with it. In `db_worker`, three
records suffice for two in one batch with one accepted during the flush, for two blocks
with a share between them and for one block reported twice; longer outages or second restarts only repeat
the states of the first. In `write_queue`, five lines of mixed size cross the
watermark of four in several ways.

In `generator`, one move of each tip lets a fetch of before be answered after it, and the keepalive
is a second fetch in flight beside the poll; one fault is a failed call, a dead feed, a feed that does
not start or a lost IPC connection, at any point. The aux node is asked by the polling mode only; beside ZMQ, where the same
code asks it, the states would be too many, and `FeedsHealOrEnd` and `WorkFollowsNode` are not checked there (the invariants are proved there). In `node_client`, two nodes and two faults lose the
answer of one node and the connection of the other; a plain call moves the preferred node under
the submission. In `session_life` two sessions at a limit of two share one address, so that a slot not given back, or
given back twice, shows in the count; that the limiter refuses a third is one comparison that leaves no state. The TLS listener
(one more step before a V1 connection), the plaintext V2 one (a V1 listener's first byte, then V2 frames) and a drain of no seconds are not
instantiated. Two events let a read race a ban, an order or the sweep.
In `job_feed` three jobs and maps emptied beyond one let the
entry of a live job be forgotten; difficulties of 1, 1 1/3 and 4 against a tier of 1 to 3 that starts at 2, and a password's
bounds of 1 2/3 and 4, reach every bound, a fraction that is rounded, and thresholds outside the tier; four requests allow subscribe, authorize, a retarget and a share, in any order. In
`proxy` two miners and two slots fill a link, so that a migration finds room for one or none, and one of the miners speaks each protocol; two upstream
events are a loss and a message, or two losses; a link has difficulty 1 until its pool sets the other. In `trunk` two losses let the frames of one connection arrive in the
next; two announcements and two lines overflow the buffer of three, two lines of one miner that of one. Miners are
interchangeable in both (the symmetry used, for safety only).

In `sv2_upstream` the failure is one of the network at any point, a refusal, or a change of target; it opens a second channel under a bound
miner, and leaves a share pending into it. Two shares let one success answer both, and a refusal come between. In the code the
two windows are 32 and 8 jobs; two jobs already pass the shorter one of the instance, and the second may come over a second connection
with the number of the first. Miners meet only in the numbering of slots, so one is enough.
The difficulty goes from 1 to the other as the channel opens; that it may change again under a miner is left to the proof of `MinersInStep`.

**Deadlock** is checked in the share gate, where an idle pool always has a control
command to run, in `node_client`, whose nodes and watchdog go on, in `session_life`, whose end is a step that repeats itself (`Ended`),
and in `job_feed` except once every job has been told (`Quiet`). It is not in the others: a stopped worker's thread exits, a
closed session ends, and a stop ends the generator, the proxy, the V2 upstream client and the trunk.

**Fairness.** `ShareGate`, `JobFeed`, `Proxy` and `Trunk` have none; their properties are safety. `DbWorker`
assumes `WF(Worker)`: the thread is scheduled while it can run, and its waits end
(the condition variable has a timeout, the reconnect sleeps two seconds).
Nothing is assumed of the server: `EventuallySettled` speaks only of behaviours in which it
stays up and the worker is not stopped. `WriteQueue` assumes `WF(Strand)` and `WF(Socket)`: the io
threads run posted handlers and a write in flight ends. A peer that never reads is
outside this assumption; `AllDelivered` says nothing of it, and it is what the watermark is for.
`Generator` assumes that armed timers fire, posted handlers, the watchdog's rebuild and the notify thread run, and every call ends (the HTTP
client gives up after ten seconds). A share thread may keep its client for ever. Its actions that start a poll wait for a free slot of the bounded `Polls`, which the code
does not; strong fairness of those keeps that bound from starving them. `NodeClient` assumes that
exchanges end (each has a timeout) and that the timers of retries and of the watchdog fire; nothing of the
nodes. `SessionLife` assumes that strands run what was posted to them (`RunMail`) and that the timer
of the sweep fires (`IdleSweep`); nothing of the miners or of a drain.
`Sv2Upstream` assumes that its strand runs (posted handlers, completions, the timer), that what is written and dialed ends, and that the pool
answers the two requests of the handshake. The code has no timer for those answers: a pool that
never sends one and keeps the connection open holds the link for ever, and `LinkRecovers` says nothing of it.

## 4. What is proved

The theorems hold for every value of the constants that satisfies the named
assumption of the module (`GateConstants`, `QueueConstants`, `SessionConstants`, `WorkerConstants`, `GeneratorConstants`,
`ClientConstants`, `FeedConstants`,
`ProxyConstants`, `UpstreamConstants`, `TrunkConstants`), which TLC evaluates on the instance.

*ShareProofs, the share gate.* All five rest on `Core`: the type invariant, what a program
counter says of the share a handler holds (`HandlerInv`: its job has been issued,
its space is the session's, and each step belongs to one protocol), and how the tip, the rounds
of the jobs and `updateWork`'s position relate (`RoundInv`: no job is of a later round than the
current one, and while the table is still to be purged, or the best share reset, all are of earlier ones).

* `TypeCorrect` : `TypeOK`.
* `CreditedOnce` : `CountedOncePerRound`. The property alone is not inductive: a
  share may be replayed only if it is no longer in the table, so `CountInv` gives each
  share an allowance that depends on whether the table holds it and on whether a purge is pending.
* `SolveNeverLost` : `SolvesReachNode`. `SolveInv` adds that a registered solve is settled or
  past its verdicts on the way to the node, without which the duplicate verdict could drop it.
* `BestShareOfRoundKept` : `RoundBestKept`. `BestInv` adds that nothing was noted for
  the new round while its reset is pending.
* `LateCreditBounded` : `LateSharesBounded`. `LateInv` counts a verdict that was taken
  before the last change and not yet used.

*SessionProofs, the output.* `ChainInv` adds to `ChainUnbroken` and `CleanedUpOnce` that the
queue is stopped exactly when the session is closed. From it follow
`ChainNeverBreaks`, `ReleasedOnce` and the action property `NothingWrittenAfterClose`.
`ImplementsOutbox` proves `OutboxPromise`. It needs `QueueInv`: the queue of a live
session is the end of the sequence it has accepted, from the first line the peer has not got,
or from the line before it while a completion waits. `StepKinds` sorts the steps
into the five the promise tells apart (take, deliver, complete, hang up, stutter), and
`OutboxStep` maps each to a step of `Outbox` or a stutter. `WatermarkHolds` proves `TypeOK` and in it `WatermarkExact`.
The sum of a queue is given by its running totals (`IsTotalSize`), and `WatermarkInv` carries totals that also never fall: a push adds one at the
end (`SummedAppend`), a completed write drops the first and lowers the rest by it (`SummedTail`), so no
induction over the queue is needed and the count cannot become negative.

*SessionProofs, the life of a session.* A handler is a value (`w`) made from the state and put back at once (`Becomes`), so
`Handled(s, w, b)` says once what every handler keeps: the connection is the one it was and is not reopened, the slot is given back
exactly if this handler closed it, and a name that is online is announced by this connection or by another. `Disconnected`, `Rejected`,
`CameOnline`, `LineKept`, `FrameKept` and `AnswerKept` show it of each request, `LinesKept` and `FramesKept` of a whole read, by
counting up (`CountingUp`) along the recursive functions of `AfterLines` and `AfterFrames`, which `LinesRunExists` and
`FramesRunExists` show to be defined. `HandledStep` then gives `SlotsInv` (every connection `Sound`, and the slots of an address
as many as the connections that hold one) and `PresenceTruth`, `HandledDrain` gives `DrainInv`: a closed session has no mail; before the end
of the drain nobody is told to close by force; whoever is out of the waves has been told, is closed, speaks V2, or has the order
waiting (`Warned`); and a forced close that waits stands behind the order to reconnect. `ToldBeforeForced` alone is not inductive:
it is the order in the mailbox that makes it so. `SlotsGivenBack` (`SlotsExact` and with it the types), `NobodyAnnounced`
(`PresenceTruth`) and `MinersTold` (`ToldBeforeForced`) follow from the three together (`SessionInv`).

*DbWorkerProofs.* `Movements` sorts the steps of the worker into six ways records move
(accepted, drained, requeued, settled, forgotten by a restart, left alone).
`ImplementsLedger` maps each to a step of `RecordLedger` or a stutter: what is settled is
a prefix of what was pending (`SplitConcat`, `SettleBy`). The accounting needs
`HeldInv`, which is about *all* kinds together: whatever has left the worker is older than
everything in the batch, and that older than everything in the queues. It holds because
every queue is drained in one hold of the mutex and a broken batch goes back in front.
`TablesInv` says the same of what the tables hold, `BlocksKnown` that a recorded hash has
left the worker, without which a second report of it could not be told from a first. From these
follow `RoundsAreExact` (`RoundsExact`, one lemma per table) and, for the rows of miners,
`NeverReordered` (`NothingReordered`). The commit that is in doubt needs no case of its own:
it either applies the batch or does not, and settles it in both.

*GeneratorProofs.* `GenInv` is a conjunction: the types of what the timers (`Flags`), the fetches (`IoInv`) and the notify thread (`ThreadInv`)
hold, the unbroken chain itself (`Chain`), which needs that polls are told from the keepalive, whose answers re-arm nothing, and
`HandlesInv`, which adds to `RetiredBeforeDropped` where the notify thread is: its client is unshut as long as it
has one, none is published while it connects or shuts one down, and a client that a share thread holds is its own, or shut.
`PolledBusy` and `Handled` say what `pollBlockTemplate` and
`handleBlockTemplate` leave behind on each of their branches: what came by a poll leaves the poll timer armed or another
poll in flight, unless the generator has stopped. `TimersKeep`, `WatchdogKeeps`, `PostKeeps`, `HandlersKeep`, `ShareKeeps`,
`ThreadKeeps` and `OthersKeep` take the actions in turn; that a new client is none of those someone still holds is `NewClientFresh`.
`PollChainKept` (`PollChainUnbroken`, the types included) and `ClientRetiredFirst` (`RetiredBeforeDropped`) follow, in
every mode, with an aux node or without, however the watchdog's steps and stop fall between the others.

*ShareProofs, the RPC client.* `ClientInv` gives each call what its stage requires (`Accounted`): which
nodes it has asked, in turn from the one it began with, how many attempts have failed, and how often its
caller was answered, which is once for each time its callback threw until the call has ended and once more then. The node a failover begins with is `current_` as it was
when the attempt began, so nothing is said of `current`, which every other call and the watchdog move.
`NudgeInv` adds that the preciousblock call starts only when the submission has been answered, without
which its caller could hear twice. `ClientTypesKept` (`ClientTypes`) and `EveryCallAccounted` follow.

*JobFeedProofs.* `FeedInv` is what must hold of the session (`Good`) and of the handlers posted to it
(`Posted`: the last one posted is for the newest job). `Good` joins `Rebuilt` (what the miner was sent last is what the session would hash),
`MapFilled` (nothing is in the equihash map before somebody is paid, nor a job that cannot be redirected), `Advertised` and
`AuxCounted`. Everything a handler sends passes
through four lemmas (`EmitJobEmits`, `TellingEmits`, `LatestSentEmits`, `ToldDifficulty`), each saying what the miner has
then been told and what the session still rebuilds; between the change of the payout name and the job that
`proceed_auth` sends, the coinbase is not rebuilt as told, which is why they ask nothing of it. `Advertised` says of the difficulty told
and of the one before it what they are of vardiff's own and of `last_diff`, rounding included (`Difficulties`); `RoundsNear` bounds
what the rounding moves, and `StartKept` says that a starting difficulty that is whole is vardiff's own. `NewestIsLast`,
`HashedAsSent`, `JudgedAsTold` and `AuxHandedOnOnce` follow, for any tier, any bounds of the password, any unit, and whatever vardiff asks for.
`TypeCorrect` (`TypeOK`) needs more: `Fits`, kept by each operator a handler is made of, bounds the counters, the difficulties
and the per-job maps, which are emptied before they take one more job (`TakesOne`);
`Queued` orders the handlers posted and says that the job about to be cast is newer than them all.

*ProxyProofs.* `InStep` speaks of sessions with nothing left to run, so it says nothing of a step by itself. `ProxyInv` says of every session what it
will be told, and of every link what it says meanwhile. `Follows`: of a session that holds a slot, the last posted handler that changes its binding, its
difficulty, its job or its extranonce, or else what the session has or is about to read, says what its link says, unless the strand has
set the link and not posted it yet (`casting`); of the extranonce only if it is of the link's present subscription (`Current`). `Unattached`: who was
never attached holds no slot and waits only to be told that a link is up, which is why nothing older can overwrite what an attachment reads.
`Told` ties the job last sent to the one the session has, `Waiting` is `WaiterKnown`, `Standing` what a position of a session's handler requires.
A handler that runs takes the head of the mail into the session (`HeardFollows`); a post adds one at the end
(`PostedSound`); a change of slots leaves a session none it did not have (`OneSlot`). A migration is neither: `Migrate` is a run over the slots
of a lost link, whose sessions go to slots another session may have held. `Moving` holds before it and is kept by each `MoveOne`: a session
stays, or loses its slots, or was moved from one slot to the one it now holds and was told of it once (`MovingGoesOn`).
`MovingRunExists` shows the recursive function of `MoveAll` to be defined, by counting up, so that `AllMoved` has it of the whole walk and `MovedSound` gives
back what the invariant asks of a session. `OneVerdictEach` (`OneVerdict`, the types included), `WaitersAreKnown` and `MinersFollowTheirLink` follow, for any links, sessions, slots and shares,
in both modes.

*Sv2UpstreamProofs.* `DownInv` gives the connection and the strand their types and says that once `stop`'s
handler has run no operation is under way from which the socket could be opened: `TeardownDown` and `WritingTyped`
show that a teardown or a write leaves none. `StoppedStaysDown` follows (`StaysDown`).
`StepInv` follows the posts: of a session that has a slot, the last job waiting in its mail, or else the one it has or is
about to read, is the newest, unless the strand has yet to post it (`ToldJob`; `ToldDiff` for the difficulty, within one
channel); only sessions with a slot are told (`Placed`); and what the pool has made active is what the client made a job
of (`PoolInv`). Hence `MinersInStep` (`InStep`), whatever the numbering. `RebuiltAsTold` (`RebuiltAsHashed`) is for any numbering a pool may
choose, and speaks of every state of an open session, settled or not. `HashInv` says that a job told, waiting or remembered has been
announced, and that two of one connection have two numbers; `RememberHolds` is what `remember_job` then leaves: the job itself, or one of another
connection that it found under the same number.
`VerdictsAreHonest` (`VerdictsHonest`, the types included) follows a share along `Line`, which is the write queue and behind it the strand: a handler that is posted
puts one at its end, a push moves one from the strand to the queue and leaves `Line` as it was, a completed write takes its head. `Ledger` numbers the
shares in the order they are sent, without a gap, each once; `Lined` says that those on `Line` are in that order; `Judging` that of these the pool has judged
the head, if its write has ended and the connection lives, and no other; `Judged` that what waits for a verdict and has none is still
on `Line` and newer than the newest success to be sent, and that every refusal to be sent is of a share judged bad. So a success of one number
finds each earlier share judged, and those judged bad refused before it; a teardown forgets what waits, which is then no longer asked about. The head
of the queue is the frame under way only because of `LinkInv`: while a connection is being made nothing is written or
posted to be written (`Calm`), so at most one write is under way on an open socket, and it is that of the head. `FeedInv` (the newest job has a number, every
job a connection) is for the types alone. All four are over any number of sessions, shares and failures; how many numbers there are needs that no
more shares are numbered than exist, a fact about cardinality (`LedgerNumbers`).

*TrunkProofs.* `Inv` is about the frames of each miner in `Pipeline`, which is what is on the wire, then what waits for the welcome,
then what waits on the strand: the order in which the origin will read them. `EndsMatch` and `LinesRelayed` speak of a trunk at rest and
of what was read, so they say nothing of a step by themselves; `Inv` says what must be on its way meanwhile. `Lines`: a miner's announcement comes before its other frames; its
lines there are in order, and while it is announced or has a bridge they are, without a gap, the ones after those the origin has read or keeps.
`Read`: those are numbered from one. `Registered`: a miner the edge has registered is announced or
bridged, or the origin's close frame is on its way (`ClosedThere`), unless the connection is lost and not yet forgotten. `Unregistered`: one
that is not has been shut down or is gone, and its close frame is on its way, or nothing of it is left at the origin, or the trunk dropped it. `Unseen`
makes a cid new. A miner of whom a full buffer threw a frame away is excepted, as in the properties. `Wire` (only a live connection carries
frames; frames are kept only before the welcome) is what lets a lost connection be handled as one cut from the front of `Pipeline`.
The steps are sorted by what they do to one miner's part of the queues: nothing (`Kept`), a cut (`Lost`),
an announcement, line or close at the end (`Attached`, `Spoken`, `Gone`), or one read at the front (`OpenRead`, `DataRead`, `CloseRead`). `TypeCorrect` (`TypeOK`, for which
`BlocksInOrder` numbers the blocks on their way), `EndsAgree` (`EndsMatch`) and `LinesInOrder` (`LinesRelayed`) follow from `TrunkInv`.

The type invariants of `ShareGate`, `DbWorker` and `NodeClient` are proved and therefore in no configuration; those of
`Generator`, `Sv2Upstream`, `Proxy` and `SessionLife` are conjuncts of an invariant that is (`PollChainUnbroken`,
`VerdictsHonest`, `OneVerdict`, `SlotsExact`), each proved with it; those of `WriteQueue`, `JobFeed` and `Trunk` are checked by a run and proved as well.

*Only model-checked:* the liveness properties, which are out of the prover's reach. Every invariant and every safety property of
steps that a passing run checks is proved.

## 5. Where comments and code disagree

Two runs end in a violation of what a comment says:

| Run | The comment | What the code does |
|---|---|---|
| `sv2_recount` | `client_session.cpp:1692`, `stratifier.hpp:216`: a repeat must not be counted again, across sessions | V2 handlers ask the table only about solves and credit the repeat |
| `generator_stop` | `generator.cpp:117`: the join takes no locks of ours and cannot deadlock | stop holds `mtx_` while it joins a thread that takes `mtx_` as it starts |

Other statements were met that do not hold. Each is kept as a definition of its module, outside the
configurations; TLC refutes it when it takes the place of the invariants (or properties) of its component's
configuration, with the change the table names.

| Definition | The comment | What the code does |
|---|---|---|
| `StaleReplayGated` (`ShareGate`, a table cap that is never reached) | `client_session.cpp:1629`: a replayed in-flight share cannot double-submit | the block change that makes it stale also emptied the table the check relies on |
| `DoubleSubmitHandled` (`DbWorker`, no refusals, no restart) | `db_worker.cpp:411`: `ON CONFLICT DO NOTHING` handles double submits | the effort is reset again although the insert did nothing |
| `QueueBounded` (`DbWorker`, the same) | `db_worker.cpp:114`, `166`: the queue is bounded by `max_queue` | a requeue ignores the cap |
| `BounceLossless` (`DbWorker`, the same) | `db_worker.cpp:440`: a database bounce is lossless | a connection lost around COMMIT drops the batch |
| `RebuiltAlone` (`Generator`) | `generator.cpp:534`: a single-threaded io_context, so it is safe to rebuild the client list without locks | two threads run that context (`io_pool.cpp:48`, `mkpool.cpp:218`); the handler of a template and stop meet the list as it changes |
| `StopClosesFeed` (`Generator`) | `generator.cpp:139`: stop all ZMQ clients | a rebuild that waits for the lock stop holds starts new clients after it |
| `InvokedOnce` (`NodeClient`) | `bitcoin_client.hpp:535`: the caller's callback is always invoked exactly once | one that throws is taken for a failed call and invoked again (`beast_client.cpp:126`) |
| `RefusalIsSent` (`WriteQueue`, no resets) | `client_session.cpp:683`: send a stratum error and tear down | the queue is stopped before the posted line is pushed |
| `ExtranonceReissued` (`Proxy`) | `upstream_client.hpp:93`: the session is told when its extranonce changes | a reconnection assigns a new one and tells only miners that attach later (`upstream_client.cpp:379`) |
| `SilentAlwaysReaped` (`SessionLife`) | `pool_manager.cpp:684`: silence counts from the connect time if nothing was submitted | a session that never subscribed has no snapshot and is skipped |
| `SameCommitmentSpliced` (`JobFeed`) | `client_session.cpp:1529`: the commitment spliced in is exactly the one sent | a retarget, an authorization or extranonce.subscribe sends the newest job again without its commitment, and its shares are refused until the next job |
| `SlotsDistinct` (`Sv2Upstream`, 3 miners, 2 slots, no jobs) | `sv2_upstream_client.hpp:46`: the space is subdivided exactly as for a V1 upstream, where a slot has one miner (`upstream_client.cpp:512`, `540`) | slots are numbered without end, cut to their bytes (`sv2_upstream_client.cpp:381`) and never checked |
| `NeverAborts` (`Sv2Upstream`, no shares) | `CMakeLists.txt:79`: the build asserts what libstdc++ requires, of `pop_front` a queue that is not empty | a write's completion (`sv2_upstream_client.cpp:201`) pops the queue a teardown has emptied; `UpstreamConn::do_write` (`upstream_client.cpp:105`) has a check |
| `RebuiltExactly` (`Sv2Upstream`) | `proxy_session.cpp:317`: rebuilt is exactly what the miner hashed | under an id given again (`proxy_session.cpp:242`) the session keeps the job of the earlier connection |
| `RememberedMapped` (`Sv2Upstream`, 4 jobs, no shares, windows of 3 and 2) | `sv2_upstream_client.hpp:142`: the id handed to the miner is mapped to the one to submit with | dropping the earlier entry of an id given again takes the live one out of the map (`sv2_upstream_client.cpp:354`) |
| `HeldOnlyWhileDown` (`Sv2Upstream`, no jobs) | `proxy_session.cpp:185`: a held subscribe completes once a link comes up | the link comes up between the check and the registration (`sv2_upstream_client.cpp:373`), and tells nobody |

What the properties except, because the code does it and nothing documents otherwise:

* `RoundsExact`: a block reported twice resets the effort twice.
* `PresenceTruth`: a connection that authorizes a second name leaves the first online.
* `SlotsExact`: the slot of a connection whose address `start` can no longer read is never given back.
* `ThresholdAdvertised`: `suggest_difficulty`, a standard channel opened again, and one on a tier that starts at a fraction move what the miner
  is told and not what it is judged by. A V1 miner is told the rounded number and judged by the other: a difficulty of 1.4 is told
  as 1, and a share of 1.2 is refused; the tolerance makes up for it at large difficulties only.
* `CallsAccounted`: a callback that throws is called again.
* `RebuiltAsHashed`: a job of an earlier connection, remembered under the same number, may be what a share is rebuilt from.
* `AuxSubmittedOnce`: once more for each time the table of submitted aux blocks is emptied; after a transport error the block is not sent again.
* `WaiterKnown`: a V2 miner that opens its open channel again while no link is ready is never answered. Waiters are told of a
  link's authorization only: one held for want of a slot is not told when a slot is freed, nor when the answer to
  subscribe follows that to authorize.
* `InStep`: a V1 miner that authorizes before it subscribes gets no job until the next one; a V2 miner that opens its channel again keeps a slot on
  each link, and in active-active mode gets the jobs of both; a session that closes between its migration and the
  posted `on_rebind` keeps its new slot for ever.
* `OneVerdict`: a share handed to a link whose host is still being resolved ends that attempt to connect; one that is pending when
  the link reconnects has no verdict.
* `InStep` of `Sv2Upstream`: a miner bound to an earlier channel is told neither the prefix nor the difficulty of the next.
* `VerdictsHonest`: shares pending when the connection was lost are answered by the next connection's first success.
* `StaysDown`: a stop while the host is being resolved does not stop the connect that follows; the link is made again, and used.
* `EndsMatch`, `LinesRelayed`: frames beyond the buffers are thrown away (`cluster_trunk.cpp:217`, `cluster_ingest.cpp:155`),
  and a miner dropped while its announcement was posted leaves a loopback connection behind until the trunk drops.

## 6. Not modelled

* **Pure computation on bytes**: header, coinbase and merkle assembly, addresses, Equihash, Noise, SV2 framing, the parsing of
  blocks read over the IPC. The models take what these compute as values; the repository has unit tests for them.
* **Input and output**: logging, metrics, replies of the control socket, dashboards, packaging, the configuration's text.
* **`Database`**: the statements are PostgreSQL's; `DbWorker` has their effect. The miner-id cache is not modelled: it is filled
  from a transaction that may roll back, after which share records carry an id that has no row and their
  batches are refused (`FlushRefused` stands for such refusals).
* **V2 custom jobs, `mining.configure`**: what a miner declares is data checked by byte comparison.
* **`RedirectorSession`**: one request, one answer, no state that outlives it. **`Blacklist`**: a set replaced as a whole.
* **Vardiff's arithmetic**: exponentially decayed rates over real time.
* The **arbitrage application** and the Hummingbot overlay share no code or state with mkpool.

A continuation would model the miner-id cache in `DbWorker`.
