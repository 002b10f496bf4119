----------------------------- MODULE Generator -----------------------------
(***************************************************************************)
(* The block-template generator: a poll chain, a keepalive, a ZMQ feed     *)
(* with a watchdog, or the notify thread of the node's mining IPC, all     *)
(* fetching templates and handing them to the stratifier.                  *)
(*                                                                         *)
(* The main io_context is run by a worker of the pool and by the main      *)
(* thread, so handlers overlap: one that is done under mtx_ is one step,   *)
(* the watchdog and the handler of a template are several.  The list of    *)
(* ZMQ clients has no lock: a handler that meets it as it changes reads    *)
(* anything, or "crashed".  stop() holds mtx_ while it joins the notify    *)
(* thread.  The nodes' tips are numbers that grow, and an armed timer may  *)
(* fire at any time.                                                       *)
(***************************************************************************)
EXTENDS Integers, Sequences

CONSTANTS
  Modes,      \* among "rpc", "zmq", "notify" and "template" (IPC, two ways)
  AuxModes,   \* the modes in which an aux (DOGE) client is configured
  MaxTip,     \* bound: moves of the parent's tip
  MaxAuxTip,  \* bound: moves of the aux chain's tip
  MaxPolls,   \* bound: poll fetches in flight
  MaxPosts,   \* bound: handlers the notify thread has posted
  MaxFaults,  \* bound: failed calls, lost feeds, lost connections
  MayStop     \* stop() may be called

ASSUME GeneratorConstants ==
  /\ Modes \subseteq {"rpc", "zmq", "notify", "template"}
  /\ AuxModes \subseteq Modes /\ MayStop \in BOOLEAN
  /\ MaxTip \in Nat /\ MaxAuxTip \in Nat /\ MaxFaults \in Nat
  /\ MaxPolls \in Nat \ {0} /\ MaxPosts \in Nat \ {0}

None == -1

\* A template: the parent's previous block and height, the aux chain's tip.
Template(prev, height, aux) == [prev |-> prev, height |-> height, aux |-> aux]
NoTemplate == Template(None, None, None)
Templates == [prev : None..MaxTip, height : None..MaxTip + 1, aux : None..MaxAuxTip]

\* A fetch: its request with the parent's node, or with the aux node; "error" and
\* "answered" wait for their handler, which has seen the feed up at "judge".
Polls == 1..MaxPolls
Keepalive == 0
Stages == {"free", "parent", "aux", "answered", "error", "judge"}
Fetch(stage, got, merged) == [stage |-> stage, got |-> got, merged |-> merged]
Free == Fetch("free", NoTemplate, FALSE)
Asking == Fetch("parent", NoTemplate, FALSE)

\* The ipc::Client objects that anyone can hold at once.
Clients == 1..3
NoClient == 0

VARIABLES
  mode,        \* useZMQ_ and ipcSocket_ as configured
  phase,       \* "running", "joining" (stop waits for the thread), "stopped", "crashed"
  current,     \* currentTemplate_
  work,        \* the last template the stratifier took
  fetches,     \* calls in flight: one of the keepalive, several of the poll path
  pollTimer, updateTimer, \* armed
  dog,         \* the watchdog: off, armed, or where it is in reconnectZmq
  restore,     \* it found useZMQ_ false
  useZMQ,      \* useZMQ_
  clients,     \* zmqClients_ is not empty
  recent,      \* lastZmqEvent_ is within the grace of now
  stale,       \* lastTipChangeAt_ > lastZmqEvent_ + zmqRecoverGrace_
  throttled,   \* lastZmqRecover_ is within the throttle of now
  \* The notify thread, and a share thread that submits a block.
  ipc,         \* where the thread is
  ipcRunning,  \* ipcRunning_
  known,       \* the tip it waits to change; in template mode, of its template
  reading,     \* the template it is reading
  own,         \* its client
  ipcClient,   \* ipcClient_, the client that is published
  held,        \* the client the share thread took
  shut,        \* clients that were shut down
  posts,       \* handlers it has posted to the io_context
  \* The nodes.
  tip, auxTip, \* their tips
  feed,        \* the publisher reaches the sockets
  messages,    \* hashblock messages not yet received
  faults       \* bound: faults so far

timers == <<pollTimer, updateTimer>>
watchdog == <<dog, restore, throttled>>
zmq == <<useZMQ, clients, recent, stale, feed, messages>>
handles == <<own, ipcClient, held, shut>>
thread == <<ipc, ipcRunning, known, reading>>
node == <<tip, auxTip>>
vars == <<mode, phase, current, work, fetches, timers, watchdog, zmq, thread, handles, posts,
          node, faults>>

Running == phase = "running"
Alive == phase # "crashed"
\* mtx_ is free unless stop() is joining.
MtxFree == phase \in {"running", "stopped"}
ByIpc == mode \in {"notify", "template"}
Aux == mode \in AuxModes /\ ~ByIpc
Faulty == /\ faults < MaxFaults
          /\ faults' = faults + 1

\* Someone changes zmqClients_: the watchdog, or stop() past its join.
ListChanging ==
  \/ dog \in {"teardown", "build"}
  \/ phase = "joining" /\ ipc \in {"off", "done"}

(***************************************************************************)
(* pollBlockTemplate, and the handler of every template.                   *)
(***************************************************************************)

\* pollBlockTemplate starts a fetch, unless the generator has stopped.
Polled(f) ==
  IF Running
    THEN {[f EXCEPT ![i] = Asking] : i \in {j \in Polls : f[j] = Free /\ \A k \in 1..j - 1 : f[k] # Free}}
    ELSE {f}

\* The stratifier ignores a template it cannot parse.
Publish(t) == work' = IF t.prev = None THEN work ELSE t

\* The branch of a poll that finds no ZMQ client: the template is dropped and
\* polling starts anew.
LostFeedSilently(f) ==
  /\ useZMQ' = FALSE
  /\ fetches' = f
  /\ UNCHANGED <<current, work, pollTimer, updateTimer, stale>>

LostFeed(f) ==
  /\ useZMQ' = FALSE
  /\ fetches' \in Polled(f)
  /\ UNCHANGED <<current, work, pollTimer, updateTimer, stale>>

NewWork(t) == t.prev # current.prev \/ t.aux # current.aux

\* handleBlockTemplate past its look at the feed, f being the fetches that remain.
HandleTemplate(f, failed, t, fromPoll) ==
  /\ IF ~failed /\ NewWork(t)
       THEN /\ current' = t /\ Publish(t)
            /\ stale' = ~recent
            /\ updateTimer' = TRUE
       ELSE /\ IF ~failed /\ ~fromPoll
                 THEN current' = t /\ Publish(t)
                 ELSE UNCHANGED <<current, work>>
            /\ UNCHANGED <<stale, updateTimer>>
  /\ pollTimer' = (pollTimer \/ fromPoll)
  /\ failed \/ MtxFree
  /\ fetches' = f
  /\ UNCHANGED useZMQ

AskAuxOnNewTip(f) == f.stage = "answered" /\ Aux /\ ~f.merged /\ f.got.prev # current.prev

AskAux(f) == f.stage = "answered" /\ Aux /\ ~f.merged

Answered(f) == f.stage \in {"answered", "error"}

\* The look of a poll at the feed: any list may be seen of one that changes.
LooksAtFeed(i) == i \in Polls /\ useZMQ /\ Answered(fetches[i]) /\ ~AskAux(fetches[i])
FeedSeen == IF ListChanging THEN BOOLEAN ELSE {clients}

\* The callback of a call: an aux client is asked after the parent answered; its
\* failure leaves the parent's template.
HandleFetch(i) ==
  LET f == fetches[i]
      rest == [fetches EXCEPT ![i] = Free]
      failed == f.stage = "error" /\ ~f.merged
      Becomes(g) == /\ fetches' = [fetches EXCEPT ![i] = g]
                    /\ UNCHANGED <<current, work, pollTimer, updateTimer, stale, useZMQ>>
  IN /\ Alive /\ Answered(f)
     /\ \/ AskAux(f) /\ Becomes(Fetch("aux", f.got, TRUE))
        \/ /\ ~AskAux(f) /\ ~LooksAtFeed(i)
           /\ HandleTemplate(rest, failed, f.got, i # Keepalive)
        \/ /\ LooksAtFeed(i)
           /\ \/ FALSE \in FeedSeen /\ MtxFree /\ LostFeed(rest)
              \/ TRUE \in FeedSeen /\ Becomes(Fetch("judge", f.got, ~failed))
     /\ UNCHANGED <<mode, phase, watchdog, clients, recent, feed, messages, thread, handles,
                    posts, node, faults>>

\* The rest of the handler of a poll that has seen the feed up.
JudgeTemplate(i) ==
  /\ Alive /\ fetches[i].stage = "judge"
  /\ HandleTemplate([fetches EXCEPT ![i] = Free], ~fetches[i].merged, fetches[i].got, TRUE)
  /\ UNCHANGED <<mode, phase, watchdog, clients, recent, feed, messages, thread, handles,
                 posts, node, faults>>

PollTimerFires ==
  /\ MtxFree /\ pollTimer
  /\ pollTimer' = FALSE
  /\ fetches' \in Polled(fetches)
  /\ UNCHANGED <<mode, phase, current, work, updateTimer, watchdog, zmq, thread, handles, posts,
                 node, faults>>

\* armJobUpdate's handler re-arms itself before it fetches.
UpdateTimerFires ==
  /\ MtxFree /\ updateTimer
  /\ updateTimer' = Running
  /\ IF Running
       THEN /\ fetches[Keepalive] = Free
            /\ fetches' = [fetches EXCEPT ![Keepalive] = Asking]
       ELSE UNCHANGED fetches
  /\ UNCHANGED <<mode, phase, current, work, pollTimer, watchdog, zmq, thread, handles, posts,
                 node, faults>>

(***************************************************************************)
(* The ZMQ feed and its watchdog.                                          *)
(***************************************************************************)

\* asyncReceive: every event counts as activity, a hashblock polls.
ReceiveHashblock ==
  /\ MtxFree /\ clients /\ messages > 0
  /\ messages' = messages - 1
  /\ recent' = TRUE /\ stale' = FALSE
  /\ fetches' \in Polled(fetches)
  /\ UNCHANGED <<mode, phase, current, work, timers, watchdog, useZMQ, clients, feed, thread,
                 handles, posts, node, faults>>

NeedRecoverWhenPolling == ~useZMQ

NeedRecover == ~useZMQ \/ stale

Rearmed == IF Running THEN "armed" ELSE "off"

WatchdogFires ==
  /\ Alive /\ dog = "armed"
  /\ IF Running /\ NeedRecover /\ ~throttled
       THEN dog' = "teardown" /\ restore' = ~useZMQ /\ throttled' = TRUE
       ELSE dog' = Rearmed /\ UNCHANGED <<restore, throttled>>
  /\ UNCHANGED <<mode, phase, current, work, fetches, timers, zmq, thread, handles, posts, node,
                 faults>>

StopClients == clients' = FALSE /\ messages' = 0

\* reconnectZmq stops the clients and clears their list.
WatchdogTearsDown ==
  /\ Alive /\ dog = "teardown"
  /\ dog' = "lock"
  /\ StopClients
  /\ UNCHANGED <<mode, phase, current, work, fetches, timers, restore, throttled, useZMQ, recent,
                 stale, feed, thread, handles, posts, node, faults>>

\* startZmqClients takes the endpoints under mtx_.
WatchdogLocks ==
  /\ MtxFree /\ dog = "lock"
  /\ dog' = "build"
  /\ UNCHANGED <<mode, phase, current, work, fetches, timers, restore, throttled, zmq, thread,
                 handles, posts, node, faults>>

\* It then fills the list: sockets that may still hear nothing, or a failure and none.
WatchdogBuilds ==
  /\ Alive /\ dog = "build"
  /\ \/ clients' = TRUE /\ dog' = "rebuilt" /\ UNCHANGED restore
        /\ \/ feed' = TRUE /\ UNCHANGED faults
           \/ feed' = FALSE /\ Faulty
     \/ clients' = FALSE /\ dog' = Rearmed /\ restore' = FALSE
        /\ Faulty /\ UNCHANGED feed
  /\ UNCHANGED <<mode, phase, current, work, fetches, timers, throttled, useZMQ, recent, stale,
                 messages, thread, handles, posts, node>>

\* A rebuilt feed counts as heard and is polled; one that was lost is used again.
WatchdogReturns ==
  /\ MtxFree /\ dog = "rebuilt"
  /\ recent' = TRUE /\ stale' = FALSE
  /\ fetches' \in Polled(fetches)
  /\ useZMQ' = (useZMQ \/ restore)
  /\ dog' = Rearmed /\ restore' = FALSE
  /\ UNCHANGED <<mode, phase, current, work, timers, throttled, clients, feed, messages, thread,
                 handles, posts, node, faults>>

\* Two threads at the list, one of them changing it: the behaviour is undefined, and
\* where it is not as if one came first the pool ends.
Collide ==
  /\ Alive /\ ListChanging
  /\ \/ \E i \in Polls : LooksAtFeed(i)
     \/ clients /\ messages > 0
     \/ dog \in {"teardown", "build"} /\ phase = "joining"
  /\ phase' = "crashed"
  /\ UNCHANGED <<mode, current, work, fetches, timers, watchdog, zmq, thread, handles, posts,
                 node, faults>>

\* Time passes: the last event, or the last recovery, is long ago.
TimePasses ==
  /\ Alive /\ (recent \/ throttled)
  /\ \/ recent' = FALSE /\ UNCHANGED throttled
     \/ throttled' = FALSE /\ UNCHANGED recent
  /\ UNCHANGED <<mode, phase, current, work, fetches, timers, dog, restore, useZMQ, clients,
                 stale, feed, messages, thread, handles, posts, node, faults>>

(***************************************************************************)
(* The notify thread of the mining IPC.                                    *)
(***************************************************************************)

ThreadGoes(where) ==
  /\ ipc' = where
  /\ UNCHANGED <<mode, phase, current, work, fetches, timers, watchdog, zmq, ipcRunning, held,
                 node>>

RoomToPost == Len(posts) < MaxPosts
Post(p) == posts' = Append(posts, p)

PollPosted == [poll |-> TRUE, got |-> NoTemplate]
TemplatePosted(t) == [poll |-> FALSE, got |-> t]

\* It reads ipcTemplate_ and ipcFeeThreshold_ under mtx_ before its loop.
ThreadStarts ==
  /\ ipc \in {"begin", "fee"} /\ MtxFree
  /\ ThreadGoes(IF ipc = "begin" THEN "fee" ELSE "connect")
  /\ UNCHANGED <<own, ipcClient, shut, known, reading, posts, faults>>

\* A new client, another object than those someone still holds.
NewClient == CHOOSE c \in Clients : c \notin {ipcClient, held}

\* Client::connect, retried every five seconds.
ThreadConnects ==
  /\ ipc = "connect"
  /\ \/ /\ ~ipcRunning /\ ThreadGoes("done")
        /\ UNCHANGED <<own, shut, faults>>
     \/ /\ ipcRunning /\ ThreadGoes("tip")
        /\ own' = NewClient /\ shut' = shut \ {NewClient}
        /\ UNCHANGED faults
     \/ /\ ipcRunning /\ ThreadGoes("connect") /\ Faulty
        /\ UNCHANGED <<own, shut>>
  /\ UNCHANGED <<ipcClient, known, reading, posts>>

\* get_tip, then the client is published under a mutex of its own; in notify mode the
\* first refresh is posted.
ThreadGetsTip ==
  /\ ipc = "tip"
  /\ \/ /\ ~ipcRunning
        /\ ThreadGoes("done") /\ own' = NoClient
        /\ UNCHANGED <<ipcClient, known, posts, faults>>
     \/ /\ ipcRunning /\ RoomToPost
        /\ ThreadGoes("wait") /\ ipcClient' = own
        /\ IF mode = "notify"
             THEN known' = tip /\ Post(PollPosted)
             ELSE known' = None /\ UNCHANGED posts
        /\ UNCHANGED <<own, faults>>
     \/ /\ ipcRunning /\ ThreadGoes("tip") /\ Faulty
        /\ UNCHANGED <<own, ipcClient, known, posts>>
  /\ UNCHANGED <<shut, reading>>

\* waitTipChanged returns a new tip, and a refresh is posted.
ThreadSeesTip ==
  /\ ipc = "wait" /\ mode = "notify" /\ ipcRunning
  /\ tip # known /\ RoomToPost
  /\ known' = tip
  /\ Post(PollPosted)
  /\ ThreadGoes("wait")
  /\ UNCHANGED <<own, ipcClient, shut, reading, faults>>

\* createNewBlock, or waitNext on a new tip or a fee rise, hands out a template;
\* read_template then asks for the tip a second time to compute the height.
CreateTemplate ==
  /\ ipc = "wait" /\ mode = "template" /\ ipcRunning /\ RoomToPost
  /\ reading' = Template(tip, None, None)
  /\ ThreadGoes("read")
  /\ UNCHANGED <<own, ipcClient, shut, known, posts, faults>>

ThreadCreatesTemplate == known # tip /\ CreateTemplate
FeesRise == known = tip /\ CreateTemplate

ThreadReadsTemplate ==
  /\ ipc = "read"
  /\ known' = reading.prev
  /\ Post(TemplatePosted(Template(reading.prev, tip + 1, None)))
  /\ reading' = NoTemplate
  /\ ThreadGoes("wait")
  /\ UNCHANGED <<own, ipcClient, shut, faults>>

\* A template with an output the pool cannot honour: one poll instead, and start over.
ThreadFallsBack ==
  /\ ipc = "read"
  /\ known' = None /\ reading' = NoTemplate
  /\ Post(PollPosted) /\ Faulty
  /\ ThreadGoes("wait")
  /\ UNCHANGED <<own, ipcClient, shut>>

\* A connection that cannot be had back on the same transport is dropped at once.
ThreadLosesConnectionDropping ==
  /\ ipc \in {"wait", "read"} /\ ipcRunning /\ Faulty
  /\ reading' = NoTemplate
  /\ \/ ThreadGoes("wait") /\ known' = (IF mode = "notify" THEN known ELSE None) /\ UNCHANGED own
     \/ ThreadGoes("connect") /\ own' = NoClient /\ UNCHANGED known
  /\ UNCHANGED <<ipcClient, shut, posts>>

\* A lost connection: reconnect() on the same transport, or leave the loop.
ThreadLosesConnection ==
  /\ ipc \in {"wait", "read"} /\ ipcRunning /\ Faulty
  /\ reading' = NoTemplate
  /\ \/ ThreadGoes("wait") /\ known' = IF mode = "notify" THEN known ELSE None
     \/ ThreadGoes("retire") /\ UNCHANGED known
  /\ UNCHANGED <<own, ipcClient, shut, posts>>

\* stop() has ended the wait.
ThreadLeavesLoop ==
  /\ ipc = "wait" /\ ~ipcRunning
  /\ ThreadGoes("retire")
  /\ UNCHANGED <<own, ipcClient, shut, known, reading, posts, faults>>

ThreadWithdraws ==
  /\ ipc = "retire"
  /\ ipcClient' = NoClient
  /\ ThreadGoes("shutdown")
  /\ UNCHANGED <<own, shut, known, reading, posts, faults>>

\* The client is shut down, and then the thread's hold on it goes.
ThreadShutsDown ==
  /\ ipc = "shutdown"
  /\ shut' = shut \cup {own} /\ own' = NoClient
  /\ ThreadGoes("connect")
  /\ UNCHANGED <<ipcClient, known, reading, posts, faults>>

\* ipcSubmitSolution of a share thread takes a copy, and is done with it in the end.
ShareHandles ==
  /\ \/ held = NoClient /\ ipcClient # NoClient /\ held' = ipcClient
     \/ held # NoClient /\ held' = NoClient
  /\ UNCHANGED <<mode, phase, current, work, fetches, timers, watchdog, zmq, thread, own,
                 ipcClient, shut, posts, node, faults>>

\* What the notify thread posted runs in order.
RunPost ==
  /\ MtxFree /\ posts # << >>
  /\ posts' = Tail(posts)
  /\ IF Head(posts).poll
       THEN /\ fetches' \in Polled(fetches)
            /\ UNCHANGED <<current, work, pollTimer, updateTimer, stale, useZMQ>>
       ELSE HandleTemplate(fetches, FALSE, Head(posts).got, FALSE)
  /\ UNCHANGED <<mode, phase, watchdog, clients, recent, feed, messages, thread, handles, node,
                 faults>>

(***************************************************************************)
(* Stop.                                                                   *)
(***************************************************************************)

\* stop() takes mtx_, lowers the flags, interrupts the thread's wait and joins it.
StopBegins ==
  /\ Running /\ MayStop
  /\ phase' = "joining"
  /\ ipcRunning' = FALSE
  /\ UNCHANGED <<mode, current, work, fetches, timers, watchdog, zmq, ipc, known, reading,
                 handles, posts, node, faults>>

\* The thread has ended, or never was: timers are cancelled, clients stopped.
StopEnds ==
  /\ phase = "joining" /\ ipc \in {"off", "done"}
  /\ phase' = "stopped"
  /\ pollTimer' = FALSE /\ updateTimer' = FALSE
  /\ dog' = IF dog = "armed" THEN "off" ELSE dog
  /\ StopClients
  /\ UNCHANGED <<mode, current, work, fetches, restore, throttled, useZMQ, recent, stale, feed,
                 thread, handles, posts, node, faults>>

(***************************************************************************)
(* The nodes.                                                              *)
(***************************************************************************)

TipMoves ==
  /\ Alive
  /\ \/ /\ tip < MaxTip /\ tip' = tip + 1 /\ UNCHANGED auxTip
        /\ messages' = IF feed /\ clients THEN messages + 1 ELSE messages
     \/ /\ Aux /\ auxTip < MaxAuxTip /\ auxTip' = auxTip + 1
        /\ UNCHANGED <<tip, messages>>
  /\ UNCHANGED <<mode, phase, current, work, fetches, timers, watchdog, useZMQ, clients, recent,
                 stale, feed, thread, handles, posts, faults>>

\* A node answers a call with its tip, with no valid result, or not at all.
NodeAnswers(i) ==
  LET f == fetches[i] IN
  /\ Alive
  /\ \/ /\ f.stage = "parent" /\ UNCHANGED faults
        /\ fetches' = [fetches EXCEPT ![i] = Fetch("answered", Template(tip, tip + 1, None), FALSE)]
     \/ /\ f.stage = "parent" /\ Faulty
        /\ \/ fetches' = [fetches EXCEPT ![i] = Fetch("answered", NoTemplate, FALSE)]
           \/ fetches' = [fetches EXCEPT ![i] = Fetch("error", NoTemplate, FALSE)]
     \/ /\ f.stage = "aux" /\ UNCHANGED faults
        /\ fetches' = [fetches EXCEPT ![i] = Fetch("answered",
             IF f.got.prev = None THEN f.got ELSE [f.got EXCEPT !.aux = auxTip], TRUE)]
     \/ /\ f.stage = "aux" /\ Faulty
        /\ fetches' = [fetches EXCEPT ![i] = Fetch("error", f.got, TRUE)]
  /\ UNCHANGED <<mode, phase, current, work, timers, watchdog, zmq, thread, handles, posts, node>>

FeedDies ==
  /\ Alive /\ feed /\ clients /\ Faulty
  /\ feed' = FALSE /\ messages' = 0
  /\ UNCHANGED <<mode, phase, current, work, fetches, timers, watchdog, useZMQ, clients, recent,
                 stale, thread, handles, posts, node>>

(***************************************************************************)
(* start(): the first poll, the keepalive, and what the mode asks for.     *)
(***************************************************************************)

\* startZMQ falls back to polling when no client starts; the watchdog keeps trying.
FeedStarted ==
  /\ dog = IF mode = "zmq" THEN "armed" ELSE "off"
  /\ clients \in (IF mode = "zmq" THEN BOOLEAN ELSE {FALSE})
  /\ useZMQ = clients /\ feed = clients

ThreadStarted ==
  /\ ipc = IF ByIpc THEN "begin" ELSE "off"
  /\ ipcRunning = ByIpc

Init ==
  /\ mode \in Modes
  /\ phase = "running"
  /\ current = NoTemplate /\ work = NoTemplate
  /\ fetches = [i \in Polls \cup {Keepalive} |-> IF i = 1 THEN Asking ELSE Free]
  /\ pollTimer = FALSE /\ updateTimer = TRUE
  /\ FeedStarted /\ ThreadStarted
  /\ recent = TRUE /\ stale = FALSE /\ throttled = FALSE
  /\ restore = FALSE
  /\ own = NoClient /\ ipcClient = NoClient /\ held = NoClient /\ shut = {}
  /\ known = None /\ reading = NoTemplate /\ posts = << >>
  /\ tip = 0 /\ auxTip = 0 /\ messages = 0 /\ faults = 0

Thread ==
  \/ ThreadStarts \/ ThreadConnects \/ ThreadGetsTip \/ ThreadSeesTip
  \/ ThreadCreatesTemplate \/ ThreadReadsTemplate \/ ThreadFallsBack
  \/ ThreadLosesConnection \/ ThreadLeavesLoop \/ ThreadWithdraws \/ ThreadShutsDown

IoTimers == PollTimerFires \/ UpdateTimerFires \/ WatchdogFires
Rebuild == WatchdogTearsDown \/ WatchdogLocks \/ WatchdogBuilds \/ WatchdogReturns

Next ==
  \/ IoTimers \/ Rebuild \/ ReceiveHashblock \/ Collide \/ TimePasses \/ Thread \/ ShareHandles
  \/ RunPost \/ StopBegins \/ StopEnds \/ TipMoves \/ FeesRise \/ FeedDies
  \/ \E i \in DOMAIN fetches : HandleFetch(i) \/ JudgeTemplate(i) \/ NodeAnswers(i)

\* Armed timers fire, posted handlers run, calls end (the HTTP client gives up
\* after ten seconds), the threads are scheduled, time passes.  The handlers that
\* poll wait here for a free slot, as they do not in the code: strong fairness keeps
\* that bound from holding them back for ever.
Fairness ==
  /\ WF_vars(PollTimerFires) /\ WF_vars(UpdateTimerFires) /\ WF_vars(WatchdogFires)
  /\ SF_vars(Rebuild)
  /\ SF_vars(ReceiveHashblock) /\ SF_vars(RunPost) /\ WF_vars(Thread)
  /\ WF_vars(TimePasses) /\ WF_vars(StopEnds)
  /\ \A i \in Polls \cup {Keepalive} :
       WF_vars(HandleFetch(i)) /\ WF_vars(JudgeTemplate(i)) /\ WF_vars(NodeAnswers(i))

Spec == Init /\ [][Next]_vars /\ Fairness
(***************************************************************************)
(* Properties.                                                             *)
(***************************************************************************)

\* Every variable keeps its type.
TypeOK ==
  /\ mode \in Modes /\ phase \in {"running", "joining", "stopped", "crashed"}
  /\ current \in Templates /\ work \in Templates
  /\ fetches \in [Polls \cup {Keepalive} -> [stage : Stages, got : Templates, merged : BOOLEAN]]
  /\ \A b \in {pollTimer, updateTimer, restore, useZMQ, clients, recent, stale, throttled,
               ipcRunning, feed} : b \in BOOLEAN
  /\ dog \in {"off", "armed", "teardown", "lock", "build", "rebuilt"}
  /\ ipc \in {"off", "begin", "fee", "connect", "tip", "wait", "read", "retire", "shutdown", "done"}
  /\ {own, ipcClient, held} \subseteq Clients \cup {NoClient} /\ shut \subseteq Clients
  /\ known \in None..MaxTip /\ reading \in Templates
  /\ posts \in Seq([poll : BOOLEAN, got : Templates]) /\ Len(posts) <= MaxPosts
  /\ tip \in 0..MaxTip /\ auxTip \in 0..MaxAuxTip /\ messages \in 0..MaxTip
  /\ faults \in 0..MaxFaults

\* Whatever answers are lost and feeds die, a generator that runs always has a
\* poll in flight or its timer armed: the backstop of every mode never ends.
\* (The types are part of it.)
PollChainUnbroken ==
  /\ TypeOK
  /\ phase \in {"running", "joining"} => pollTimer \/ \E i \in Polls : fetches[i] # Free

\* "Retired before the connection is dropped": a client that is published is the
\* notify thread's own and not shut down, and one that a share thread still holds
\* when the notify thread has let go of it was shut down, so that its destruction
\* on any thread is harmless.
RetiredBeforeDropped ==
  /\ ipcClient # NoClient => ipcClient = own /\ ipcClient \notin shut
  /\ held # NoClient => held = own \/ held \in shut

\* While the node is being asked, work may fall behind; once its tips stand still
\* and calls succeed, the stratifier ends up with them, whichever answers came late,
\* empty or out of order, and whichever feed or connection was lost.
WorkFollowsNode ==
  <>[](phase = "running" => work.prev = tip /\ (Aux => work.aux = auxTip))

\* "self-healing": a feed that missed a tip, or could not be started, is replaced
\* by one that is alive, again and again as long as the generator runs.
FeedHeals == []<>(mode = "zmq" /\ Running => useZMQ /\ clients /\ ~stale)

\* After stop() the generator comes to rest: no timer, no call, no rebuild, no thread.
Quiet == /\ ~pollTimer /\ ~updateTimer /\ dog = "off" /\ posts = << >>
         /\ \A i \in DOMAIN fetches : fetches[i] = Free
         /\ ipc \in {"off", "done"}
ComesToRest == <>[](phase = "stopped" => Quiet)

\* Feeds heal as long as the generator runs, and all its work ends when it stops.
FeedsHealOrEnd == FeedHeals /\ ComesToRest

\* "It takes no locks of ours, so this cannot deadlock": stop() never joins a
\* thread that waits for the lock stop() holds.
StopNeverBlocksThread == phase = "joining" => ipc \notin {"begin", "fee"}

\* "Single-threaded io_context": reconnectZmq never meets another handler at the list
\* it rebuilds without a lock.
RebuiltAlone == phase # "crashed"

\* "Stop all ZMQ clients": none is left when the generator has stopped.
StopClosesFeed == phase = "stopped" => ~clients

=============================================================================
