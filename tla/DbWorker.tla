------------------------------ MODULE DbWorker ------------------------------
(***************************************************************************)
(* The background database worker of mkpool: the io threads enqueue        *)
(* records, one thread drains every queue into a batch and writes it in    *)
(* one transaction, through outages of the server and restarts of the      *)
(* process.                                                                *)
(*                                                                         *)
(* A record is its key and the order `at` in which it was accepted.  The   *)
(* hashrate queue has no caller and the five-minute aggregation touches    *)
(* only the hashrates table, so neither is here.                           *)
(***************************************************************************)
EXTENDS Integers, Sequences, FiniteSetsExt

CONSTANTS Workers,       \* rows of the miners table a presence record updates
          ParentHashes,  \* blocks of the pool's own coin
          AuxHashes,     \* merge-mined blocks of another coin
          MaxQueue,      \* cfg_.max_queue
          MayRefuse,     \* the server may refuse a flush and stay up
          MaxRecords,    \* bound: records accepted
          MaxOutages,    \* bound: outages of the server
          MaxRestarts    \* bound: restarts of the process

NoKey == "none"

\* What the records of each kind are told apart by.
Keys == [presence |-> Workers, share |-> {NoKey}, best |-> {NoKey},
         block |-> ParentHashes \cup AuxHashes]
Kinds   == DOMAIN Keys
Numbers == 1..MaxRecords
Records == [at : Numbers, key : UNION { Keys[k] : k \in Kinds }]

ASSUME WorkerConstants ==
  /\ ParentHashes \cap AuxHashes = {}
  /\ MaxQueue \in Nat \ {0}
  /\ MayRefuse \in BOOLEAN
  /\ MaxRecords \in Nat /\ MaxOutages \in Nat /\ MaxRestarts \in Nat

VARIABLES
  running,     \* running_
  thread,      \* where run() is
  queue,       \* shares_, presences_, best_shares_, blocks_, under mu_
  batch,       \* the vectors they were drained into
  link,        \* the connection: none, up, or cut and not yet noticed
  dbUp,        \* the server accepts connections
  \* The tables.
  shareRows,   \* raw_shares, in insertion order
  presenceRow, \* presenceRow[w]: the presence record the row of w reflects
  bestRow,     \* whether best_share_difficulty has been raised
  effort,      \* the shares effort_state.accum_diff sums
  lastReset,   \* the block record that last reset it
  blocks,      \* blocks by hash, with the shares round_effort sums
  \* Bounds and history.
  clock,       \* records accepted
  outages, restarts,
  settled      \* settled[k]: the records that have left the worker, in order

tables == <<shareRows, presenceRow, bestRow, effort, lastReset, blocks>>
world  == <<dbUp, outages>>
vars   == <<running, thread, queue, batch, link, tables, world, clock,
            restarts, settled>>

Nothing == [k \in Kinds |-> << >>]

(***************************************************************************)
(* The io threads.                                                         *)
(***************************************************************************)

\* enqueue_*: at the cap the record is refused, and nothing changes.
Enqueue(k, key) ==
  /\ clock < MaxRecords
  /\ Len(queue[k]) < MaxQueue
  /\ clock' = clock + 1
  /\ queue' = [queue EXCEPT ![k] = Append(@, [at |-> clock', key |-> key])]
  /\ UNCHANGED <<running, thread, batch, link, tables, world, restarts, settled>>

\* stop(), from main on a signal.
Stop ==
  /\ running
  /\ running' = FALSE
  /\ UNCHANGED <<thread, queue, batch, link, tables, world, clock, restarts, settled>>

(***************************************************************************)
(* run(): the thread.                                                      *)
(***************************************************************************)

\* The loop's head: leave, or have a connection that looks open before any
\* record is taken out of a queue. A failed reconnect sleeps and tries again.
ConnectOrDie ==
  /\ thread = "head"
  /\ \/ /\ ~running \/ (link = "none" /\ ~dbUp)
        /\ thread' = "exited" /\ UNCHANGED link
     \/ /\ running /\ link # "none" /\ thread' = "wait" /\ UNCHANGED link
     \/ /\ running /\ link = "none" /\ dbUp /\ thread' = "wait" /\ link' = "up"
  /\ UNCHANGED <<running, queue, batch, tables, world, clock, restarts, settled>>

Connect ==
  /\ thread = "head"
  /\ \/ /\ ~running /\ thread' = "exited" /\ UNCHANGED link
     \/ /\ running /\ link # "none" /\ thread' = "wait" /\ UNCHANGED link
     \/ /\ running /\ link = "none" /\ dbUp /\ thread' = "wait" /\ link' = "up"
  /\ UNCHANGED <<running, queue, batch, tables, world, clock, restarts, settled>>

\* The wait ends by notification or after the flush interval, and every queue
\* is drained in one hold of mu_.
Drain ==
  /\ thread = "wait"
  /\ batch' = queue
  /\ queue' = Nothing
  /\ thread' = IF queue = Nothing THEN "head" ELSE "flush"
  /\ UNCHANGED <<running, link, tables, world, clock, restarts, settled>>

\* The batch has left the worker.
Settle == /\ settled' = [k \in Kinds |-> settled[k] \o batch[k]]
          /\ batch' = Nothing

\* broken_connection while the statements run: the transaction is gone, and
\* the batch goes back in front of what has been queued meanwhile.
RequeueBehind == queue' = [k \in Kinds |-> queue[k] \o batch[k]]
Requeue == queue' = [k \in Kinds |-> batch[k] \o queue[k]]

FlushBroken ==
  /\ thread = "flush" /\ link = "cut"
  /\ Requeue
  /\ batch' = Nothing
  /\ link' = "none"
  /\ thread' = "head"
  /\ UNCHANGED <<running, tables, world, clock, restarts, settled>>

\* Any other error rolls the transaction back and drops the batch.
FlushRefused ==
  /\ thread = "flush" /\ link = "up" /\ MayRefuse
  /\ Settle
  /\ thread' = "head"
  /\ UNCHANGED <<running, queue, link, tables, world, clock, restarts>>

\* The statements ran; COMMIT is next.
FlushStatements ==
  /\ thread = "flush" /\ link = "up"
  /\ thread' = "commit"
  /\ UNCHANGED <<running, queue, batch, link, tables, world, clock, restarts, settled>>

\* The transaction's effect, statement by statement in the code's order:
\* presences, shares, effort, best shares, blocks.  Parents and PresencesOf are the
\* places in the batch of its parent blocks and of a worker's presence records.
IsParent(r) == r.key \in ParentHashes
NewShares   == { batch.share[i].at : i \in DOMAIN batch.share }
Parents     == { i \in DOMAIN batch.block : IsParent(batch.block[i]) }
BlockKeys   == { batch.block[i].key : i \in DOMAIN batch.block }
PresencesOf(w) == { i \in DOMAIN batch.presence : batch.presence[i].key = w }

\* Every parent block record resets the accumulator, a duplicate included.
EffortKept == effort \cup NewShares
EffortAfter == IF Parents = {} THEN effort \cup NewShares ELSE {}

\* The first parent block of the batch takes the round; ON CONFLICT DO NOTHING
\* leaves a recorded hash as it is, and an aux block has no round.
RoundTaken(h) ==
  IF Parents # {} /\ h = batch.block[Min(Parents)].key THEN effort \cup NewShares ELSE {}

Apply ==
  /\ shareRows' = shareRows \o batch.share
  /\ presenceRow' = [w \in Workers |->
       IF PresencesOf(w) = {} THEN presenceRow[w] ELSE batch.presence[Max(PresencesOf(w))].at]
  /\ bestRow' = (bestRow \/ batch.best # << >>)
  /\ effort' = EffortAfter
  /\ lastReset' = IF Parents = {} THEN lastReset ELSE batch.block[Max(Parents)].at
  /\ blocks' = [h \in DOMAIN blocks \cup BlockKeys |->
       IF h \in DOMAIN blocks THEN blocks[h] ELSE RoundTaken(h)]

Commit ==
  /\ thread = "commit" /\ link = "up"
  /\ Apply
  /\ Settle
  /\ thread' = "head"
  /\ UNCHANGED <<running, queue, link, world, clock, restarts>>

\* The connection died around COMMIT. libpqxx cannot tell whether the server
\* applied it and throws in_doubt_error, which is not a broken_connection: the
\* handler for other errors drops the batch.
CommitInDoubt ==
  /\ thread = "commit" /\ link = "cut"
  /\ Apply \/ UNCHANGED tables
  /\ Settle
  /\ link' = "none"
  /\ thread' = "head"
  /\ UNCHANGED <<running, queue, world, clock, restarts>>

(***************************************************************************)
(* The server and the process.                                             *)
(***************************************************************************)

DbDown ==
  /\ dbUp /\ outages < MaxOutages
  /\ dbUp' = FALSE
  /\ outages' = outages + 1
  /\ link' = IF link = "up" THEN "cut" ELSE link
  /\ UNCHANGED <<running, thread, queue, batch, tables, clock, restarts, settled>>

DbBack ==
  /\ ~dbUp
  /\ dbUp' = TRUE
  /\ UNCHANGED <<running, thread, queue, batch, link, tables, outages, clock,
                 restarts, settled>>

\* The process ends, stopped or killed, and a new one starts its worker: what
\* was in memory is gone.
Restart ==
  /\ restarts < MaxRestarts
  /\ restarts' = restarts + 1
  /\ settled' = [k \in Kinds |-> settled[k] \o batch[k] \o queue[k]]
  /\ queue' = Nothing
  /\ batch' = Nothing
  /\ running' = TRUE
  /\ thread' = "head"
  /\ link' = "none"
  /\ UNCHANGED <<tables, world, clock>>

(***************************************************************************)
(* The specification.                                                      *)
(***************************************************************************)

Init ==
  /\ running = TRUE
  /\ thread = "head"
  /\ queue = Nothing
  /\ batch = Nothing
  /\ link = "none"
  /\ dbUp \in BOOLEAN
  /\ shareRows = << >>
  /\ presenceRow = [w \in Workers |-> 0]
  /\ bestRow = FALSE
  /\ effort = {}
  /\ lastReset = 0
  /\ blocks = << >>
  /\ clock = 0
  /\ outages = 0
  /\ restarts = 0
  /\ settled = Nothing

Worker == \/ Connect \/ Drain \/ FlushBroken \/ FlushRefused \/ FlushStatements
          \/ Commit \/ CommitInDoubt

Next == \/ \E k \in Kinds : \E key \in Keys[k] : Enqueue(k, key)
        \/ Stop \/ Worker \/ DbDown \/ DbBack \/ Restart

\* The thread is scheduled again and again while it can run.
Spec == Init /\ [][Next]_vars /\ WF_vars(Worker)

(***************************************************************************)
(* Properties.                                                             *)
(***************************************************************************)

\* Every variable keeps its type, and a transaction is open exactly while
\* there is a batch for it.
TypeOK ==
  /\ running \in BOOLEAN
  /\ thread \in {"head", "wait", "flush", "commit", "exited"}
  /\ queue \in [Kinds -> Seq(Records)]
  /\ batch \in [Kinds -> Seq(Records)]
  /\ thread \in {"flush", "commit"} <=> batch # Nothing
  /\ link \in {"none", "up", "cut"}
  /\ dbUp \in BOOLEAN
  /\ shareRows \in Seq(Records)
  /\ presenceRow \in [Workers -> Numbers \cup {0}]
  /\ bestRow \in BOOLEAN
  /\ effort \subseteq Numbers
  /\ lastReset \in Numbers \cup {0}
  /\ DOMAIN blocks \subseteq ParentHashes \cup AuxHashes
  /\ \A h \in DOMAIN blocks : blocks[h] \subseteq Numbers
  /\ clock \in 0..MaxRecords
  /\ settled \in [Kinds -> Seq(Records)]

\* Each kind is a first-in first-out ledger: through drains, requeues and
\* outages no record overtakes another of its kind, is left behind, or comes
\* back after it has left.
Ledger == INSTANCE RecordLedger WITH
  Record <- Records, pending <- [k \in Kinds |-> batch[k] \o queue[k]]
FifoLedger == Ledger!Spec

\* A write to a miner's row always brings it to the newest of its presence
\* records that have left the worker: a retry never restores an older status.
PresenceNeverOlder ==
  [][\A w \in Workers : presenceRow'[w] # presenceRow[w] =>
       \A i \in DOMAIN settled'.presence :
         settled'.presence[i].key = w => settled'.presence[i].at <= presenceRow'[w]]_vars

\* Nothing is reordered: not in the queues, and not by what the rows end up with.
NothingReordered == FifoLedger /\ PresenceNeverOlder

\* raw_shares holds each accepted share at most once and in the order of
\* acceptance: the retry of a broken flush never inserts a share twice.
SharesStoredOnce ==
  \A i, j \in DOMAIN shareRows : i < j => shareRows[i].at < shareRows[j].at

\* Work accepted before a parent block was recorded never counts in the round
\* that starts at that block, even when it is written in the same batch.
EffortIsOfThisRound == \A n \in effort : n > lastReset

\* No share's work counts in two rounds.
RoundsDisjoint ==
  /\ \A h \in DOMAIN blocks : blocks[h] \cap effort = {}
  /\ \A g, h \in DOMAIN blocks : g # h => blocks[g] \cap blocks[h] = {}

Stored == { shareRows[i].at : i \in DOMAIN shareRows }
InSomeRound ==
  Stored \subseteq effort \cup UNION { blocks[h] : h \in DOMAIN blocks \cap ParentHashes }

\* Unless a block was reported twice, all stored work is in the running effort
\* or in the round of a recorded parent block: aux blocks take none of it.
EffortConserved ==
  InSomeRound \/ \E i, j \in DOMAIN settled.block :
                   i # j /\ settled.block[i].key = settled.block[j].key

\* The accounting of rounds is exact: every stored share is stored once, counts
\* in one round at most and in the right one, and none is left out.
RoundsExact ==
  SharesStoredOnce /\ EffortIsOfThisRound /\ RoundsDisjoint /\ EffortConserved

\* "ON CONFLICT(block_hash) DO NOTHING handles double-submits": a block
\* reported twice loses none of the running effort.
DoubleSubmitHandled == InSomeRound

\* "The queue is bounded by max_queue ... even if Postgres is unreachable".
QueueBounded == \A k \in Kinds : Len(queue[k]) <= MaxQueue

\* "This is what makes a DB bounce lossless": a share that has left the worker
\* is in the table.
BounceLossless == \A i \in DOMAIN settled.share : settled.share[i].at \in Stored

\* While the server stays up and the worker is not stopped, every record it
\* accepted leaves it: no accepted block or share waits forever.
EventuallySettled ==
  <>[](dbUp /\ running) => []<>(batch = Nothing /\ queue = Nothing)
=============================================================================
