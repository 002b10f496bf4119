----------------------------- MODULE NodeClient -----------------------------
(***************************************************************************)
(* The RPC client of the node (BitcoinClient over BeastClient): failover   *)
(* across the configured nodes, the watchdog that returns to the primary,  *)
(* the retries of a block submission and its redundant copies, and what a  *)
(* session does with a found block.                                        *)
(*                                                                         *)
(* A call is one HTTP exchange at a time.  What a node has received it may *)
(* have acted upon even if its answer never arrives.  A failed exchange is *)
(* a resolve, connect, write or read that failed or took ten seconds, or   *)
(* an answer that is not JSON.                                             *)
(***************************************************************************)
EXTENDS Integers, FiniteSets

CONSTANTS
  N,           \* endpoints_, the primary being 0
  Extra,       \* submitEndpoints_
  Calls,       \* callers of plain calls, each with one call at a time
  Blocks,      \* blocks the pool finds
  MaxAttempts, \* kSubmitMaxAttempts
  Ipc,         \* blocks are also submitted over the primary's mining IPC
  Precious,    \* preciousblock exists on this chain
  MaxFaults,   \* bound: nodes that go down, exchanges that fail although the node is up
  MaxThrows    \* bound: caller's callbacks that throw

ASSUME ClientConstants ==
  /\ N \in Nat \ {0} /\ MaxAttempts \in Nat \ {0}
  /\ MaxFaults \in Nat /\ MaxThrows \in Nat
  /\ Ipc \in BOOLEAN /\ Precious \in BOOLEAN
  /\ IsFiniteSet(Extra)

Node == 0..N - 1
Primary == 0

\* Everything that runs through asyncRPC.
Plain == {<<"plain", c>> : c \in Calls}
Submits == {<<"submit", b>> : b \in Blocks}
Nudges == {<<"precious", b>> : b \in Blocks}
AllCalls == Plain \cup Submits \cup Nudges

VARIABLES
  current,   \* current_
  watchdog,  \* the watchdog's timer is armed
  probe,     \* its getblockcount is in flight
  call,      \* per call: where its exchange is, and the arguments of rpcTryEndpoint
  copies,    \* per block: the extra nodes whose copy is in flight
  recorded,  \* blocks handed to the database worker
  up,        \* nodes that answer
  has,       \* per node: the blocks it has
  faults, throws, \* bounds
  \* History.
  answers,   \* per call: times its callback has run
  threw,     \* per call: times its callback threw
  failures   \* per call: exchanges that failed

clientVars == <<current, watchdog, probe, call, copies, recorded, up, has, faults, throws, answers,
          threw, failures>>

\* stage: "connect" before the node has the request, "read" after; asked: the
\* nodes asked in this attempt.
Idle == [stage |-> "idle", at |-> Primary, tried |-> 0, attempt |-> 0, asked |-> {},
         reply |-> "none"]

\* asyncRPC: the exchange starts with the node that answered last.
Begun(at, attempt) ==
  [stage |-> "connect", at |-> at, tried |-> 0, attempt |-> attempt, asked |-> {at},
   reply |-> "none"]

Busy(c) == call[c].stage \notin {"idle", "answered", "failed"}

Faulty == faults < MaxFaults /\ faults' = faults + 1

(***************************************************************************)
(* The exchange of a call.                                                 *)
(***************************************************************************)

\* rpcTryEndpoint after a failure: the next node, until all were tried.
NextNode(k) ==
  LET n == (k.at + 1) % N
  IN [k EXCEPT !.stage = "connect", !.at = n, !.tried = @ + 1, !.asked = @ \cup {n},
               !.reply = "none"]

\* submitAttempt after all nodes failed: another attempt, until they run out.
MayRetry(c, k) == c \in Submits /\ k.attempt < MaxAttempts

\* What follows a failed exchange; the last failure is the caller's.
AfterFailureSilent(c, k) ==
  CASE k.tried + 1 < N -> NextNode(k)
    [] k.tried + 1 >= N /\ MayRetry(c, k) -> [k EXCEPT !.stage = "backoff"]
    [] OTHER -> [k EXCEPT !.stage = "lost"]

AfterFailure(c, k) ==
  CASE k.tried + 1 < N -> NextNode(k)
    [] k.tried + 1 >= N /\ MayRetry(c, k) -> [k EXCEPT !.stage = "backoff"]
    [] OTHER -> [k EXCEPT !.stage = "failed"]

Failed(c) == call[c].tried + 1 >= N /\ ~MayRetry(c, call[c])

Fail(c) ==
  /\ call' = [call EXCEPT ![c] = AfterFailure(c, @)]
  /\ failures' = [failures EXCEPT ![c] = @ + 1]

\* on_resolve, on_connect, on_write and on_read with an error.
ExchangeFails(c) ==
  /\ call[c].stage \in {"connect", "read"}
  /\ IF call[c].at \in up THEN Faulty ELSE UNCHANGED faults
  /\ Fail(c)
  /\ answers' = [answers EXCEPT ![c] = IF Failed(c) THEN @ + 1 ELSE @]
  /\ UNCHANGED <<current, watchdog, probe, copies, recorded, up, has, throws, threw>>

\* The node acts on the request.  A block it has is answered "duplicate"; one it has not
\* it accepts, answers softly ("inconclusive", "high-hash") or refuses with an error.
NodeReceives(c) ==
  LET k == call[c] IN
  /\ k.stage = "connect" /\ k.at \in up
  /\ \E reply \in {"ok", "soft", "error"} :
       /\ call' = [call EXCEPT ![c].stage = "read", ![c].reply = reply]
       /\ IF c \in Submits
            THEN /\ c[2] \in has[k.at] => reply = "soft"
                 /\ has' = [has EXCEPT ![k.at] = IF reply = "ok" THEN @ \cup {c[2]} ELSE @]
            ELSE reply = "ok" /\ UNCHANGED has
  /\ UNCHANGED <<current, watchdog, probe, copies, recorded, up, faults, throws, answers,
                 threw, failures>>

\* The callback of submit_block_candidate: a node that did not refuse is nudged, and the
\* block recorded.
BlockAnswered(b, at, reply) ==
  /\ recorded' = IF reply = "error" THEN recorded ELSE recorded \cup {b}
  /\ call' = [call EXCEPT
       ![<<"submit", b>>].stage = "answered",
       ![<<"precious", b>>] = IF reply = "error" \/ ~Precious THEN @ ELSE Begun(at, 1)]

AnswerReadRetryingSoft(c) ==
  LET k == call[c] IN
  /\ k.stage = "read"
  /\ current' = k.at
  /\ answers' = [answers EXCEPT ![c] = @ + 1]
  /\ IF k.reply = "soft"
       THEN Fail(c) /\ UNCHANGED recorded
       ELSE /\ UNCHANGED failures
            /\ IF c \in Submits
                 THEN BlockAnswered(c[2], k.at, k.reply)
                 ELSE call' = [call EXCEPT ![c].stage = "answered"] /\ UNCHANGED recorded
  /\ UNCHANGED <<watchdog, probe, copies, up, has, faults, throws, threw>>

\* on_read with an answer: this node becomes the current one, then the callback runs.
AnswerRead(c) ==
  LET k == call[c] IN
  /\ k.stage = "read"
  /\ current' = k.at
  /\ answers' = [answers EXCEPT ![c] = @ + 1]
  /\ IF c \in Submits
       THEN BlockAnswered(c[2], k.at, k.reply)
       ELSE call' = [call EXCEPT ![c].stage = "answered"] /\ UNCHANGED recorded
  /\ UNCHANGED <<watchdog, probe, copies, up, has, faults, throws, threw, failures>>

\* A callback that throws, before it has done anything, is caught as if the answer were
\* not JSON: the call goes on as a failed one.
CallbackThrows(c) ==
  /\ call[c].stage = "read" /\ throws < MaxThrows
  /\ throws' = throws + 1
  /\ current' = call[c].at
  /\ Fail(c)
  /\ answers' = [answers EXCEPT ![c] = IF Failed(c) THEN @ + 2 ELSE @ + 1]
  /\ threw' = [threw EXCEPT ![c] = @ + 1]
  /\ UNCHANGED <<watchdog, probe, copies, recorded, up, has, faults>>

Exchange(c) == NodeReceives(c) \/ ExchangeFails(c) \/ AnswerRead(c)

\* 250 ms later the submission starts again, with the node that is current by then.
RetryTimer(c) ==
  /\ call[c].stage = "backoff"
  /\ call' = [call EXCEPT ![c] = Begun(current, @.attempt + 1)]
  /\ UNCHANGED <<current, watchdog, probe, copies, recorded, up, has, faults, throws, answers,
                 threw, failures>>

(***************************************************************************)
(* The callers.                                                            *)
(***************************************************************************)

\* A plain call: a template, an address to validate, statistics.
Ask(c) ==
  /\ c \in Plain /\ ~Busy(c)
  /\ call' = [call EXCEPT ![c] = Begun(current, 1)]
  /\ answers' = [answers EXCEPT ![c] = 0] /\ failures' = [failures EXCEPT ![c] = 0]
  /\ threw' = [threw EXCEPT ![c] = 0]
  /\ UNCHANGED <<current, watchdog, probe, copies, recorded, up, has, faults, throws>>

\* The solution by the mining IPC, if its connection still has the template: the
\* outcome is only logged.
IpcSubmit(b) ==
  \/ Ipc /\ Primary \in up /\ has' = [has EXCEPT ![Primary] = @ \cup {b}]
  \/ UNCHANGED has

\* submit_block_candidate: the mining IPC as well as it can, the redundant copies,
\* then the submission with its retries.
FoundBlock(b) ==
  LET c == <<"submit", b>> IN
  /\ call[c].stage = "idle"
  /\ IpcSubmit(b)
  /\ copies' = [copies EXCEPT ![b] = Extra]
  /\ call' = [call EXCEPT ![c] = Begun(current, 1)]
  /\ UNCHANGED <<current, watchdog, probe, recorded, up, faults, throws, answers, threw, failures>>

\* broadcastSubmit's exchanges: whether they succeed is only logged.
CopyEnds(b, e) ==
  /\ e \in copies[b]
  /\ copies' = [copies EXCEPT ![b] = @ \ {e}]
  /\ UNCHANGED <<current, watchdog, probe, call, recorded, up, has, faults, throws, answers,
                 threw, failures>>

(***************************************************************************)
(* The watchdog.                                                           *)
(***************************************************************************)

\* On a fallback it probes the primary; it re-arms itself in any case.
WatchdogFiresOnce ==
  /\ watchdog
  /\ probe' = (probe \/ current # Primary)
  /\ watchdog' = (current = Primary)
  /\ UNCHANGED <<current, call, copies, recorded, up, has, faults, throws, answers, threw, failures>>

WatchdogFires ==
  /\ watchdog
  /\ probe' = (probe \/ current # Primary)
  /\ watchdog' = TRUE
  /\ UNCHANGED <<current, call, copies, recorded, up, has, faults, throws, answers, threw, failures>>

ProbeEnds ==
  /\ probe
  /\ probe' = FALSE
  /\ \/ Primary \in up /\ current' = Primary /\ UNCHANGED faults
     \/ Primary \in up /\ Faulty /\ UNCHANGED current
     \/ Primary \notin up /\ UNCHANGED <<current, faults>>
  /\ UNCHANGED <<watchdog, call, copies, recorded, up, has, throws, answers, threw, failures>>

(***************************************************************************)
(* The nodes.                                                              *)
(***************************************************************************)

NodeGoesDown(n) ==
  /\ n \in up /\ Faulty
  /\ up' = up \ {n}
  /\ UNCHANGED <<current, watchdog, probe, call, copies, recorded, has, throws, answers,
                 threw, failures>>

NodeComesBack(n) ==
  /\ n \in Node \ up
  /\ up' = up \cup {n}
  /\ UNCHANGED <<current, watchdog, probe, call, copies, recorded, has, faults, throws, answers,
                 threw, failures>>

(***************************************************************************)
(* The specification.                                                      *)
(***************************************************************************)

\* startWatchdog does nothing with a single node.
ClientInit ==
  /\ current = Primary /\ watchdog = (N > 1) /\ probe = FALSE
  /\ call = [c \in AllCalls |-> Idle]
  /\ copies = [b \in Blocks |-> {}]
  /\ recorded = {}
  /\ up \in SUBSET Node
  /\ has = [n \in Node |-> {}]
  /\ faults = 0 /\ throws = 0
  /\ answers = [c \in AllCalls |-> 0] /\ failures = [c \in AllCalls |-> 0]
  /\ threw = [c \in AllCalls |-> 0]

ClientNext ==
  \/ \E c \in AllCalls : Exchange(c) \/ CallbackThrows(c) \/ RetryTimer(c) \/ Ask(c)
  \/ \E b \in Blocks : FoundBlock(b) \/ \E e \in Extra : CopyEnds(b, e)
  \/ WatchdogFires \/ ProbeEnds
  \/ \E n \in Node : NodeGoesDown(n) \/ NodeComesBack(n)

\* Every operation of an exchange has a timeout, and timers fire.  Nothing is assumed
\* of the nodes, nor of the redundant copies.
Fairness ==
  /\ \A c \in AllCalls : WF_clientVars(Exchange(c)) /\ WF_clientVars(RetryTimer(c))
  /\ WF_clientVars(WatchdogFires) /\ WF_clientVars(ProbeEnds)

ClientSpec == ClientInit /\ [][ClientNext]_clientVars /\ Fairness

(***************************************************************************)
(* Properties.                                                             *)
(***************************************************************************)

Stages == {"idle", "connect", "read", "backoff", "answered", "failed"}

\* Every variable keeps its type.
ClientTypes ==
  /\ current \in Node /\ watchdog \in BOOLEAN /\ probe \in BOOLEAN
  /\ call \in [AllCalls -> [stage : Stages, at : Node, tried : Node, attempt : 0..MaxAttempts,
                            asked : SUBSET Node, reply : {"none", "ok", "soft", "error"}]]
  /\ copies \in [Blocks -> SUBSET Extra]
  /\ recorded \subseteq Blocks /\ up \subseteq Node
  /\ has \in [Node -> SUBSET Blocks]
  /\ faults \in 0..MaxFaults /\ throws \in 0..MaxThrows
  /\ answers \in [AllCalls -> Nat] /\ failures \in [AllCalls -> Nat]
  /\ threw \in [AllCalls -> Nat]

\* A failover never asks a node twice in one attempt, although the node it starts
\* with is moved meanwhile by other calls and by the watchdog.
EachNodeOnce == \A c \in AllCalls :
  call[c].stage \in {"connect", "read"} => Cardinality(call[c].asked) = call[c].tried + 1

\* A call is reported failed only after every node has failed it, and a found block
\* only after every node has failed every attempt.
GivesUpLate == \A c \in AllCalls : call[c].stage = "failed" =>
  failures[c] = N * (IF c \in Submits THEN MaxAttempts ELSE 1)

\* A caller hears of its call once, when the call has ended, and before that once for each
\* time its callback threw: it is told too little never, and too much only by throwing.
AnswersCounted == \A c \in AllCalls :
  answers[c] = threw[c] + (IF Busy(c) \/ call[c].stage = "idle" THEN 0 ELSE 1)

\* Every call is accounted for: no node asked twice, nobody given up early, every answer
\* told, and told again only to a callback that threw.
CallsAccounted == EachNodeOnce /\ GivesUpLate /\ AnswersCounted

\* "The caller's callback is always invoked exactly once": one that throws is invoked again.
InvokedOnce == \A c \in AllCalls : answers[c] <= 1

\* Every call ends, whatever the nodes do: in particular the fate of a found block is
\* known, and the poll chain that waits for a template goes on.
EveryCallEnds == \A c \in AllCalls : []<>~Busy(c)

\* Once the primary stays up, the client always returns to it, whatever late answers
\* of the fallback nodes still arrive.
PrimaryRegained == <>[](Primary \in up) => []<>(current = Primary)
=============================================================================
