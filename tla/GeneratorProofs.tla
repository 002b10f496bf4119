-------------------------- MODULE GeneratorProofs --------------------------
(***************************************************************************)
(* What holds of the generator in every mode, for any number of tips,      *)
(* faults, fetches in flight and posted handlers.                          *)
(***************************************************************************)
EXTENDS Generator, SequenceTheorems, TLAPS

Calls == [stage : Stages, got : Templates, merged : BOOLEAN]
Fetches == [Polls \cup {Keepalive} -> Calls]
Posts == [poll : BOOLEAN, got : Templates]

\* A poll is in flight.
Busy(f) == \E i \in Polls : f[i] # Free

Flags ==
  /\ pollTimer \in BOOLEAN /\ updateTimer \in BOOLEAN /\ restore \in BOOLEAN
  /\ useZMQ \in BOOLEAN /\ clients \in BOOLEAN /\ recent \in BOOLEAN /\ stale \in BOOLEAN
  /\ throttled \in BOOLEAN /\ ipcRunning \in BOOLEAN /\ feed \in BOOLEAN
  /\ dog \in {"off", "armed", "teardown", "lock", "build", "rebuilt"}

\* What the handlers and the feed change, and what the notify thread does.
IoInv ==
  /\ mode \in Modes /\ phase \in {"running", "joining", "stopped", "crashed"}
  /\ current \in Templates /\ work \in Templates /\ fetches \in Fetches
  /\ tip \in 0..MaxTip /\ auxTip \in 0..MaxAuxTip /\ messages \in 0..tip
  /\ faults \in 0..MaxFaults

\* The thread has a client from Client::connect to the end of its retirement, which is
\* not shut down before; what is published is that client, while the loop runs and until
\* it is withdrawn, and no share thread has a client that was not published.
HandlesInv ==
  /\ {own, ipcClient, held} \subseteq Clients \cup {NoClient} /\ shut \subseteq Clients
  /\ own # NoClient <=> ipc \in {"tip", "wait", "read", "retire", "shutdown"}
  /\ own \notin shut
  /\ ipcClient # NoClient => ipcClient = own /\ ipc \in {"wait", "read", "retire"}
  /\ held # NoClient => held = own \/ held \in shut
  /\ ipc = "tip" => held # own

\* The thread reads a template only when there is room to post it.
ThreadInv ==
  /\ ipc \in {"off", "begin", "fee", "connect", "tip", "wait", "read", "retire", "shutdown", "done"}
  /\ known \in None..MaxTip /\ reading \in Templates
  /\ posts \in Seq(Posts) /\ Len(posts) <= MaxPosts
  /\ ipc = "read" => Len(posts) < MaxPosts
  /\ HandlesInv

Chain == phase \in {"running", "joining"} => pollTimer \/ Busy(fetches)

GenInv == Flags /\ IoInv /\ ThreadInv /\ Chain

LEMMA InvGivesTypes == GenInv => PollChainUnbroken
<1> SUFFICES ASSUME GenInv  PROVE PollChainUnbroken
  OBVIOUS
<1>1. \A b \in {pollTimer, updateTimer, restore, useZMQ, clients, recent, stale, throttled,
                ipcRunning, feed} : b \in BOOLEAN
  BY DEF GenInv, Flags
<1>2. messages \in 0..MaxTip
  BY GeneratorConstants DEF GenInv, IoInv
<1>3. TypeOK
  BY <1>1, <1>2 DEF GenInv, Flags, IoInv, ThreadInv, HandlesInv, TypeOK, Fetches, Calls, Posts
<1> QED  BY <1>3 DEF GenInv, Chain, PollChainUnbroken, Busy

(***************************************************************************)
(* Templates and fetches.                                                  *)
(***************************************************************************)

LEMMA TemplateTyped ==
  /\ NoTemplate \in Templates
  /\ tip \in 0..MaxTip => Template(tip, tip + 1, None) \in Templates /\ Template(tip, None, None) \in Templates
  /\ \A t \in Templates : tip \in 0..MaxTip => Template(t.prev, tip + 1, None) \in Templates
  /\ \A t \in Templates : auxTip \in 0..MaxAuxTip => [t EXCEPT !.aux = auxTip] \in Templates
BY GeneratorConstants DEF NoTemplate, Template, Templates, None

LEMMA CallTyped ==
  /\ Free \in Calls /\ Asking \in Calls /\ Asking # Free
  /\ \A stage \in Stages, t \in Templates, b \in BOOLEAN : Fetch(stage, t, b) \in Calls
BY TemplateTyped DEF Free, Asking, Fetch, Calls, Stages

\* pollBlockTemplate leaves a poll in flight while the generator runs.
LEMMA PolledBusy ==
  ASSUME NEW f \in Fetches, NEW g \in Polled(f)
  PROVE  g \in Fetches /\ (Running => Busy(g)) /\ (~Running => g = f)
<1>1. CASE Running
  <2>1. PICK i \in Polls : g = [f EXCEPT ![i] = Asking]
    BY <1>1 DEF Polled
  <2>2. g \in Fetches /\ g[i] = Asking
    BY <2>1, CallTyped DEF Fetches
  <2> QED  BY <1>1, <2>2, CallTyped DEF Busy
<1>2. CASE ~Running
  BY <1>2 DEF Polled
<1> QED  BY <1>1, <1>2

\* Whatever a template's handler does, work stays well-formed, and what came by a poll
\* leaves the poll timer armed.
LEMMA Handled ==
  ASSUME Flags, IoInv, NEW f \in Fetches, NEW failed \in BOOLEAN, NEW t \in Templates,
         NEW fromPoll \in BOOLEAN, HandleTemplate(f, failed, t, fromPoll)
  PROVE  /\ current' \in Templates /\ work' \in Templates /\ fetches' = f /\ useZMQ' = useZMQ
         /\ pollTimer' = (pollTimer \/ fromPoll) /\ updateTimer' \in BOOLEAN /\ stale' \in BOOLEAN
BY DEF HandleTemplate, Publish, Flags, IoInv

(***************************************************************************)
(* The steps.                                                              *)
(***************************************************************************)

LEMMA GenInit == Init => GenInv
<1> SUFFICES ASSUME Init  PROVE GenInv
  OBVIOUS
<1>1. Flags
  <2>1. /\ pollTimer \in BOOLEAN /\ updateTimer \in BOOLEAN /\ recent \in BOOLEAN /\ stale \in BOOLEAN
        /\ throttled \in BOOLEAN /\ restore \in BOOLEAN
    BY DEF Init
  <2>2. ipcRunning \in BOOLEAN
    <3>1. ByIpc \in BOOLEAN
      BY DEF ByIpc
    <3>2. ipcRunning = ByIpc
      BY DEF Init, ThreadStarted
    <3> QED  BY Zenon, <3>1, <3>2
  <2>3. clients \in BOOLEAN /\ useZMQ = clients /\ feed = clients /\ dog \in {"armed", "off"}
    BY DEF Init, FeedStarted
  <2> QED  BY <2>1, <2>2, <2>3 DEF Flags
<1>2. IoInv
  <2>1. fetches \in Fetches
    BY CallTyped DEF Init, Fetches
  <2> QED  BY <2>1, TemplateTyped, GeneratorConstants DEF Init, IoInv
<1>3. ThreadInv
  BY TemplateTyped, GeneratorConstants
  DEF Init, ThreadInv, ThreadStarted, HandlesInv, Clients, NoClient, ByIpc, None
<1>4. Chain
  <2>1. 1 \in Polls /\ fetches[1] = Asking
    BY GeneratorConstants DEF Init, Polls
  <2> QED  BY <2>1, CallTyped DEF Chain, Busy
<1> QED  BY <1>1, <1>2, <1>3, <1>4 DEF GenInv

\* A step that leaves the notify thread and the clients it made alone.
LEMMA ThreadKept == ThreadInv /\ UNCHANGED <<thread, handles, posts>> => ThreadInv'
BY DEF ThreadInv, HandlesInv, thread, handles

\* The timers and the feed: whoever takes the poll timer polls.
LEMMA TimersKeep ==
  ASSUME GenInv, PollTimerFires \/ UpdateTimerFires \/ ReceiveHashblock \/ TimePasses \/ FeedDies
  PROVE  GenInv'
<1> USE DEF GenInv
<1>1. CASE PollTimerFires
  <2>1. fetches' \in Polled(fetches)
    BY <1>1 DEF PollTimerFires
  <2>2. fetches' \in Fetches /\ (Running => Busy(fetches'))
    BY <2>1, PolledBusy DEF IoInv
  <2>3. Chain'
    BY <1>1, <2>2 DEF PollTimerFires, Chain, Busy, MtxFree, Running
  <2>4. Flags'
    BY <1>1, ZenonT(60) DEF PollTimerFires, Flags, zmq, watchdog, thread
  <2>5. IoInv'
    BY <1>1, <2>2 DEF PollTimerFires, IoInv, zmq, node
  <2>6. ThreadInv'
    BY <1>1, ThreadKept DEF PollTimerFires
  <2> QED  BY <2>3, <2>4, <2>5, <2>6
<1>2. CASE UpdateTimerFires
  <2>1. /\ fetches' \in Fetches
        /\ \A i \in Polls : fetches'[i] = fetches[i]
    BY <1>2, CallTyped, GeneratorConstants DEF UpdateTimerFires, IoInv, Fetches, Polls, Keepalive
  <2>2. Chain'
    BY <1>2, <2>1 DEF UpdateTimerFires, Chain, Busy
  <2>3. ThreadInv'
    BY <1>2, ThreadKept DEF UpdateTimerFires
  <2> QED  BY <1>2, <2>1, <2>2, <2>3
        DEF UpdateTimerFires, Flags, IoInv, Running, zmq, watchdog, thread, node
<1>3. CASE ReceiveHashblock
  <2>1. fetches' \in Fetches /\ (Running => Busy(fetches')) /\ (~Running => fetches' = fetches)
    BY <1>3, PolledBusy DEF ReceiveHashblock, IoInv
  <2>2. Chain'
    BY <1>3, <2>1 DEF ReceiveHashblock, Chain, Busy, timers
  <2>3. messages' \in 0..tip
    BY <1>3, GeneratorConstants DEF ReceiveHashblock, IoInv
  <2>4. Flags'
    BY <1>3, ZenonT(60) DEF ReceiveHashblock, Flags, timers, watchdog, thread
  <2>5. IoInv'
    BY <1>3, <2>1, <2>3 DEF ReceiveHashblock, IoInv, node
  <2>6. ThreadInv'
    BY <1>3, ThreadKept DEF ReceiveHashblock
  <2> QED  BY <2>2, <2>4, <2>5, <2>6
<1>4. CASE TimePasses
  <2>1. Flags'
    BY <1>4, ZenonT(60) DEF TimePasses, Flags, timers, thread
  <2>2. IoInv' /\ Chain'
    BY <1>4 DEF TimePasses, Flags, IoInv, Chain, Busy, timers, node
  <2>3. ThreadInv'
    BY <1>4, ThreadKept DEF TimePasses
  <2> QED  BY <2>1, <2>2, <2>3
<1>5. CASE FeedDies
  <2>1. faults' \in 0..MaxFaults /\ messages' \in 0..tip
    BY <1>5, GeneratorConstants DEF FeedDies, Faulty, IoInv
  <2>2. Flags'
    BY <1>5, ZenonT(60) DEF FeedDies, Flags, timers, watchdog, thread
  <2>3. IoInv' /\ Chain'
    BY <1>5, <2>1 DEF FeedDies, Flags, IoInv, Chain, Busy, timers, node
  <2>4. ThreadInv'
    BY <1>5, ThreadKept DEF FeedDies
  <2> QED  BY <2>2, <2>3, <2>4
<1> QED  BY <1>1, <1>2, <1>3, <1>4, <1>5

\* The watchdog, from its timer to the end of a rebuild: it polls, or leaves the calls and
\* the poll timer alone.
LEMMA WatchdogKeeps ==
  ASSUME GenInv, WatchdogFires \/ Rebuild \/ Collide
  PROVE  GenInv'
<1> USE DEF GenInv
<1>1. ThreadInv'
  BY ThreadKept DEF WatchdogFires, Rebuild, WatchdogTearsDown, WatchdogLocks, WatchdogBuilds,
     WatchdogReturns, Collide
<1>2. faults' \in 0..MaxFaults /\ messages' \in 0..tip
  <2>1. faults \in 0..MaxFaults /\ messages \in 0..tip /\ 0 \in 0..tip
    BY GeneratorConstants DEF IoInv
  <2>2. faults' = faults \/ Faulty
    BY DEF WatchdogFires, Rebuild, WatchdogTearsDown, WatchdogLocks, WatchdogBuilds,
       WatchdogReturns, Collide
  <2>3. messages' \in {messages, 0}
    BY DEF WatchdogFires, Rebuild, WatchdogTearsDown, StopClients, WatchdogLocks, WatchdogBuilds,
       WatchdogReturns, Collide, zmq
  <2> QED  BY <2>1, <2>2, <2>3, GeneratorConstants DEF Faulty
<1>3. CASE WatchdogFires
  <2>1. (~useZMQ) \in BOOLEAN /\ Rearmed \in {"armed", "off"}
    BY DEF Rearmed
  <2>2. Flags'
    BY <1>3, <2>1 DEF WatchdogFires, Flags, timers, zmq, thread
  <2> QED  BY <1>1, <1>2, <1>3, <2>2 DEF WatchdogFires, IoInv, Chain, Busy, timers, node
<1>4. CASE WatchdogTearsDown
  <2>1. Flags'
    BY <1>4 DEF WatchdogTearsDown, StopClients, Flags, timers, thread
  <2> QED  BY <1>1, <1>2, <1>4, <2>1 DEF WatchdogTearsDown, IoInv, Chain, Busy, timers, node
<1>5. CASE WatchdogLocks
  BY <1>1, <1>2, <1>5 DEF WatchdogLocks, Flags, IoInv, Chain, Busy, timers, zmq, thread, node
<1>6. CASE WatchdogBuilds
  <2>1. Rearmed \in {"armed", "off"}
    BY DEF Rearmed
  <2>2. Flags'
    BY <1>6, <2>1 DEF WatchdogBuilds, Flags, timers, thread
  <2> QED  BY <1>1, <1>2, <1>6, <2>2 DEF WatchdogBuilds, IoInv, Chain, Busy, timers, node
<1>7. CASE WatchdogReturns
  <2>1. fetches' \in Fetches /\ (Running => Busy(fetches')) /\ (~Running => fetches' = fetches)
    BY <1>7, PolledBusy DEF WatchdogReturns, IoInv
  <2>2. Chain'
    BY <1>7, <2>1 DEF WatchdogReturns, Chain, Busy, timers
  <2>3. Flags'
    <3>1. (useZMQ \/ restore) \in BOOLEAN /\ Rearmed \in {"armed", "off"}
      BY DEF Flags, Rearmed
    <3> QED  BY <1>7, <3>1 DEF WatchdogReturns, Flags, timers, thread
  <2>4. IoInv'
    BY <1>2, <1>7, <2>1 DEF WatchdogReturns, IoInv, node
  <2> QED  BY <1>1, <2>2, <2>3, <2>4
<1>8. CASE Collide
  BY <1>1, <1>2, <1>8
  DEF Collide, Flags, IoInv, Chain, Busy, timers, watchdog, zmq, thread, node
<1> QED  BY <1>3, <1>4, <1>5, <1>6, <1>7, <1>8 DEF Rebuild

\* The callbacks of the calls, and what the notify thread posted.
LEMMA PostKeeps ==
  ASSUME GenInv, RunPost
  PROVE  GenInv'
<1> USE DEF GenInv
<1>1. posts \in Seq(Posts) /\ posts # << >>
  BY DEF RunPost, ThreadInv
<1>2. /\ Head(posts) \in Posts /\ Tail(posts) \in Seq(Posts)
      /\ Len(Tail(posts)) = Len(posts) - 1 /\ Len(posts) \in Nat
  BY <1>1, HeadTailProperties, LenProperties
<1>3. ThreadInv'
  BY <1>2, GeneratorConstants DEF RunPost, ThreadInv, HandlesInv, thread, handles
<1>4. CASE Head(posts).poll
  <2>1. fetches' \in Fetches /\ (Running => Busy(fetches')) /\ (~Running => fetches' = fetches)
    BY <1>4, PolledBusy DEF RunPost, IoInv
  <2>2. Chain'
    BY <1>4, <2>1 DEF RunPost, Chain, Busy
  <2> QED  BY <1>3, <1>4, <2>1, <2>2 DEF RunPost, Flags, IoInv, watchdog, thread, node
<1>5. CASE ~Head(posts).poll
  <2>1. HandleTemplate(fetches, FALSE, Head(posts).got, FALSE) /\ Head(posts).got \in Templates
    BY <1>2, <1>5 DEF RunPost, Posts
  <2>2. /\ current' \in Templates /\ work' \in Templates /\ fetches' = fetches /\ useZMQ' = useZMQ
        /\ pollTimer' = (pollTimer \/ FALSE) /\ updateTimer' \in BOOLEAN /\ stale' \in BOOLEAN
    BY <2>1, Handled DEF IoInv
  <2>3. pollTimer' = pollTimer
    BY <2>2 DEF Flags
  <2> QED  BY <1>3, <2>2, <2>3 DEF RunPost, Flags, IoInv, Chain, Busy, watchdog, thread, node
<1> QED  BY <1>4, <1>5

LEMMA HandlersKeep ==
  ASSUME GenInv, NEW i \in DOMAIN fetches, HandleFetch(i) \/ JudgeTemplate(i)
  PROVE  GenInv'
<1> USE DEF GenInv
<1> DEFINE f == fetches[i]
           rest == [fetches EXCEPT ![i] = Free]
           failed == f.stage = "error" /\ ~f.merged
           Becomes(g) == /\ fetches' = [fetches EXCEPT ![i] = g]
                         /\ UNCHANGED <<current, work, pollTimer, updateTimer, stale, useZMQ>>
<1>1. i \in Polls \cup {Keepalive} /\ f \in Calls /\ f.got \in Templates /\ rest \in Fetches
  BY CallTyped DEF IoInv, Fetches, Calls
<1>2. /\ UNCHANGED <<mode, phase, watchdog, clients, recent, feed, messages, thread, handles,
                     posts, node, faults>>
  BY DEF HandleFetch, JudgeTemplate
<1>3. ThreadInv'
  BY <1>2, ThreadKept
<1>4. ASSUME NEW g \in Calls, g # Free, Becomes(g)  PROVE GenInv'
  <2>1. fetches' \in Fetches /\ \A j \in Polls : fetches[j] # Free => fetches'[j] # Free
    BY <1>1, <1>4 DEF IoInv, Fetches
  <2>2. Chain'
    BY <1>2, <1>4, <2>1 DEF Chain, Busy
  <2> QED  BY <1>2, <1>3, <1>4, <2>1, <2>2 DEF Flags, IoInv, watchdog, thread, node
<1>5. ASSUME NEW b \in BOOLEAN, NEW fromPoll \in BOOLEAN, HandleTemplate(rest, b, f.got, fromPoll),
             fromPoll \/ i = Keepalive
      PROVE  GenInv'
  <2>1. /\ current' \in Templates /\ work' \in Templates /\ fetches' = rest /\ useZMQ' = useZMQ
        /\ pollTimer' = (pollTimer \/ fromPoll) /\ updateTimer' \in BOOLEAN /\ stale' \in BOOLEAN
    <3> HIDE DEF f, rest
    <3> QED  BY <1>1, <1>5, Handled
  <2>2. pollTimer' \in BOOLEAN /\ (pollTimer => pollTimer') /\ (fromPoll => pollTimer')
    BY <2>1 DEF Flags
  <2>3. i = Keepalive => \A j \in Polls : fetches'[j] = fetches[j]
    BY <1>1, <2>1 DEF IoInv, Fetches, Polls, Keepalive
  <2>4. Chain'
    BY <1>2, <1>5, <2>2, <2>3 DEF Chain, Busy
  <2> HIDE DEF f, rest
  <2> QED  BY <1>1, <1>2, <1>3, <2>1, <2>2, <2>4 DEF Flags, IoInv, watchdog, thread, node
<1>6. CASE HandleFetch(i)
  <2>1. CASE AskAux(f) /\ Becomes(Fetch("aux", f.got, TRUE))
    <3>1. Fetch("aux", f.got, TRUE) \in Calls /\ Fetch("aux", f.got, TRUE) # Free
      BY <1>1, CallTyped DEF Fetch, Free, Stages
    <3> HIDE DEF f
    <3> QED  BY <1>4, <2>1, <3>1
  <2>2. CASE HandleTemplate(rest, failed, f.got, i # Keepalive)
    <3>1. failed \in BOOLEAN /\ (i # Keepalive) \in BOOLEAN
      BY <1>1 DEF Calls
    <3> HIDE DEF f, rest, failed
    <3> QED  BY <1>5, <2>2, <3>1
  <2>3. CASE MtxFree /\ LostFeed(rest)
    <3>1. fetches' \in Fetches /\ (Running => Busy(fetches'))
      BY <1>1, <2>3, PolledBusy DEF LostFeed
    <3>2. Chain'
      BY <1>2, <2>3, <3>1 DEF Chain, MtxFree, Running, Busy
    <3>3. Flags'
      BY <1>2, <2>3, ZenonT(60) DEF LostFeed, Flags, watchdog, thread
    <3>4. IoInv'
      BY <1>2, <2>3, <3>1 DEF LostFeed, IoInv, node
    <3> QED  BY <1>3, <3>2, <3>3, <3>4
  <2>4. CASE Becomes(Fetch("judge", f.got, ~failed))
    <3>1. Fetch("judge", f.got, ~failed) \in Calls /\ Fetch("judge", f.got, ~failed) # Free
      BY <1>1, CallTyped DEF Fetch, Free, Stages
    <3> HIDE DEF f, failed
    <3> QED  BY <1>4, <2>4, <3>1
  <2> QED  BY <1>6, <2>1, <2>2, <2>3, <2>4 DEF HandleFetch
<1>7. CASE JudgeTemplate(i)
  <2>1. HandleTemplate(rest, ~f.merged, f.got, TRUE) /\ (~f.merged) \in BOOLEAN
    BY <1>1, <1>7 DEF JudgeTemplate, Calls
  <2> HIDE DEF f, rest
  <2> QED  BY <1>5, <2>1
<1> QED  BY <1>6, <1>7

\* A share thread's copy is of the published client.
LEMMA ShareKeeps ==
  ASSUME GenInv, ShareHandles
  PROVE  GenInv'
<1> USE DEF GenInv, ShareHandles
<1>1. ThreadInv'
  BY DEF ThreadInv, HandlesInv, thread, NoClient
<1> QED  BY <1>1 DEF Flags, IoInv, Chain, Busy, timers, watchdog, zmq, thread, node

\* The client of a new connection is none that anyone still holds.
LEMMA NewClientFresh ==
  ASSUME ipcClient = NoClient
  PROVE  NewClient \in Clients /\ NewClient # held /\ NewClient # NoClient
<1>1. \E c \in Clients : c \notin {ipcClient, held}
  BY DEF Clients, NoClient
<1> QED  BY <1>1 DEF NewClient, Clients, NoClient

\* The notify thread touches its own state, its clients and the queue of posts only.
LEMMA ThreadKeeps ==
  ASSUME GenInv, Thread \/ FeesRise
  PROVE  GenInv'
<1>1. UNCHANGED <<mode, phase, current, work, fetches, timers, watchdog, zmq, ipcRunning, held, node>>
  BY DEF Thread, FeesRise, ThreadStarts, ThreadConnects, ThreadGetsTip, ThreadSeesTip,
         ThreadCreatesTemplate, CreateTemplate, ThreadReadsTemplate, ThreadFallsBack,
         ThreadLosesConnection, ThreadLeavesLoop, ThreadWithdraws, ThreadShutsDown, ThreadGoes
<1>2. faults' \in 0..MaxFaults
  BY GeneratorConstants
  DEF Thread, FeesRise, ThreadStarts, ThreadConnects, ThreadGetsTip, ThreadSeesTip,
      ThreadCreatesTemplate, CreateTemplate, ThreadReadsTemplate, ThreadFallsBack,
      ThreadLosesConnection, ThreadLeavesLoop, ThreadWithdraws, ThreadShutsDown, Faulty, GenInv, IoInv
<1>3. ASSUME NEW p \in Posts, Post(p), Len(posts) < MaxPosts
      PROVE  posts' \in Seq(Posts) /\ Len(posts') <= MaxPosts
  <2>1. posts \in Seq(Posts) /\ Len(posts) \in Nat
    BY LenProperties DEF GenInv, ThreadInv
  <2> QED  BY <1>3, <2>1, AppendProperties, GeneratorConstants DEF Post
<1>4. PollPosted \in Posts /\ NoTemplate \in Templates /\ None \in None..MaxTip /\ tip \in None..MaxTip
      /\ Template(tip, None, None) \in Templates
  BY TemplateTyped, GeneratorConstants DEF PollPosted, Posts, GenInv, IoInv, None
<1>5. \A t \in Templates : /\ TemplatePosted(Template(t.prev, tip + 1, None)) \in Posts
                           /\ t.prev \in None..MaxTip
  BY TemplateTyped DEF TemplatePosted, Posts, GenInv, IoInv, Templates
<1>6. ThreadInv'
  <2> USE DEF GenInv, ThreadInv, ThreadGoes
  <2>1. CASE ThreadStarts
    BY <2>1 DEF ThreadStarts, HandlesInv
  <2>2. CASE ThreadConnects
    <3>1. ipcClient = NoClient /\ own = NoClient
      BY <2>2 DEF ThreadConnects, HandlesInv
    <3> QED  BY <2>2, <3>1, NewClientFresh DEF ThreadConnects, HandlesInv
  <2>3. CASE ThreadGetsTip
    <3>1. CASE ipc' = "done"
      BY <2>3, <3>1 DEF ThreadGetsTip, HandlesInv, Clients, NoClient
    <3>2. CASE ipc' = "tip"
      BY <2>3, <3>2 DEF ThreadGetsTip, HandlesInv
    <3>3. CASE ipc' = "wait"
      <4>1. HandlesInv'
        BY <2>3, <3>3 DEF ThreadGetsTip, HandlesInv
      <4>2. /\ known' \in None..MaxTip /\ reading' \in Templates
            /\ posts' \in Seq(Posts) /\ Len(posts') <= MaxPosts
        BY <2>3, <3>3, <1>3, <1>4 DEF ThreadGetsTip, RoomToPost
      <4> QED  BY <3>3, <4>1, <4>2
    <3>4. ipc' \in {"done", "tip", "wait"}
      BY <2>3 DEF ThreadGetsTip
    <3> HIDE DEF ThreadInv
    <3> QED  BY <3>1, <3>2, <3>3, <3>4
  <2>4. CASE ThreadSeesTip
    BY <2>4, <1>3, <1>4 DEF ThreadSeesTip, RoomToPost, HandlesInv
  <2>5. CASE CreateTemplate
    BY <2>5, <1>4 DEF CreateTemplate, RoomToPost, HandlesInv
  <2>6. CASE ThreadReadsTemplate
    BY <2>6, <1>3, <1>4, <1>5 DEF ThreadReadsTemplate, HandlesInv
  <2>7. CASE ThreadFallsBack
    BY <2>7, <1>3, <1>4 DEF ThreadFallsBack, HandlesInv
  <2>8. CASE ThreadLosesConnection
    BY <2>8, <1>4 DEF ThreadLosesConnection, HandlesInv
  <2>9. CASE ThreadLeavesLoop
    BY <2>9 DEF ThreadLeavesLoop, HandlesInv
  <2>10. CASE ThreadWithdraws
    BY <2>10 DEF ThreadWithdraws, HandlesInv
  <2>11. CASE ThreadShutsDown
    <3>1. own \in Clients /\ ipcClient = NoClient /\ NoClient \notin Clients
      BY <2>11 DEF ThreadShutsDown, HandlesInv, Clients, NoClient
    <3> QED  BY <2>11, <3>1 DEF ThreadShutsDown, HandlesInv
  <2> QED  BY <2>1, <2>2, <2>3, <2>4, <2>5, <2>6, <2>7, <2>8, <2>9, <2>10, <2>11
        DEF Thread, ThreadCreatesTemplate, FeesRise
<1> QED  BY <1>1, <1>2, <1>6 DEF GenInv, Flags, IoInv, Chain, Busy, timers, watchdog, zmq, node

\* stop(), and the nodes.
LEMMA OthersKeep ==
  ASSUME GenInv, StopBegins \/ StopEnds \/ TipMoves \/ \E i \in DOMAIN fetches : NodeAnswers(i)
  PROVE  GenInv'
<1> USE DEF GenInv
<1>1. CASE StopBegins
  <2>1. Flags'
    BY <1>1, ZenonT(60) DEF StopBegins, Flags, timers, watchdog, zmq
  <2>2. IoInv' /\ Chain'
    BY <1>1 DEF StopBegins, Running, Flags, IoInv, Chain, Busy, timers, zmq, node
  <2>3. ThreadInv'
    BY <1>1 DEF StopBegins, ThreadInv, HandlesInv, handles
  <2> QED  BY <2>1, <2>2, <2>3
<1>2. CASE StopEnds
  <2>1. messages' \in 0..tip'
    BY <1>2, GeneratorConstants DEF StopEnds, StopClients, IoInv, node
  <2>2. ThreadInv'
    BY <1>2, ThreadKept DEF StopEnds
  <2>3. Flags'
    BY <1>2 DEF StopEnds, StopClients, Flags, thread
  <2> QED  BY <1>2, <2>1, <2>2, <2>3 DEF StopEnds, IoInv, Chain, node
<1>3. CASE TipMoves
  <2>1. tip' \in 0..MaxTip /\ auxTip' \in 0..MaxAuxTip /\ messages' \in 0..tip'
    BY <1>3, GeneratorConstants DEF TipMoves, IoInv
  <2>2. ThreadInv'
    BY <1>3, ThreadKept DEF TipMoves
  <2> QED  BY <1>3, <2>1, <2>2 DEF TipMoves, Flags, IoInv, Chain, Busy, timers, watchdog, thread
<1>4. ASSUME NEW i \in DOMAIN fetches, NodeAnswers(i)  PROVE GenInv'
  <2> DEFINE f == fetches[i]
  <2>1. i \in Polls \cup {Keepalive} /\ f \in Calls
    BY <1>4 DEF IoInv, Fetches
  <2>2. PICK g \in Calls : fetches' = [fetches EXCEPT ![i] = g] /\ g # Free
    <3>1. /\ f.got \in Templates /\ [f.got EXCEPT !.aux = auxTip] \in Templates
          /\ Template(tip, tip + 1, None) \in Templates
      BY <2>1, TemplateTyped DEF Calls, IoInv
    <3>2. \A t \in Templates, b \in BOOLEAN :
            /\ Fetch("answered", t, b) \in Calls /\ Fetch("error", t, b) \in Calls
            /\ Fetch("answered", t, b) # Free /\ Fetch("error", t, b) # Free
      BY CallTyped DEF Fetch, Free, Stages
    <3> HIDE DEF f
    <3> QED  BY <1>4, <3>1, <3>2, TemplateTyped DEF NodeAnswers, f
  <2>3. fetches' \in Fetches /\ \A j \in Polls : fetches[j] # Free => fetches'[j] # Free
    BY <2>1, <2>2 DEF IoInv, Fetches
  <2>4. faults' \in 0..MaxFaults
    <3>1. faults' = faults \/ Faulty
      BY <1>4 DEF NodeAnswers
    <3> QED  BY <3>1, GeneratorConstants DEF Faulty, IoInv
  <2>5. Chain'
    BY <1>4, <2>3 DEF NodeAnswers, Chain, Busy, Flags, timers
  <2>6. ThreadInv'
    BY <1>4, ThreadKept DEF NodeAnswers
  <2> QED  BY <1>4, <2>3, <2>4, <2>5, <2>6
        DEF NodeAnswers, Flags, IoInv, timers, watchdog, zmq, thread, node
<1> QED  BY <1>1, <1>2, <1>3, <1>4

LEMMA GenStep == GenInv /\ [Next]_vars => GenInv'
<1> SUFFICES ASSUME GenInv, [Next]_vars  PROVE GenInv'
  OBVIOUS
<1>1. CASE Next
  BY <1>1, TimersKeep, WatchdogKeeps, PostKeeps, HandlersKeep, ShareKeeps, ThreadKeeps, OthersKeep
  DEF Next, IoTimers
<1>2. CASE UNCHANGED vars
  BY <1>2 DEF GenInv, Flags, IoInv, ThreadInv, Chain, Busy, HandlesInv, vars, timers,
              watchdog, zmq, thread, handles, node
<1> QED  BY <1>1, <1>2

LEMMA GenInvariant == Spec => []GenInv
BY GenInit, GenStep, PTL DEF Spec

\* In every mode and under any pattern of lost answers, dead feeds and late timers, a
\* generator that has not stopped has a poll in flight or its poll timer armed: no branch
\* of handleBlockTemplate, none of the watchdog and none of the notify thread drops the
\* backstop.  Every variable keeps its type.
THEOREM PollChainKept == Spec => []PollChainUnbroken
BY GenInvariant, InvGivesTypes, PTL

\* However the notify thread leaves its loop, and whenever a share thread takes the client:
\* what is published is the thread's own and not shut down, and a client that a share thread
\* holds on to after the notify thread has let go of it was shut down before.
THEOREM ClientRetiredFirst == Spec => []RetiredBeforeDropped
<1>1. GenInv => RetiredBeforeDropped
  BY DEF GenInv, ThreadInv, HandlesInv, RetiredBeforeDropped
<1> QED  BY GenInvariant, <1>1, PTL
=============================================================================
