---------------------------- MODULE Sv2Upstream ----------------------------
(***************************************************************************)
(* The proxy's other source of work: Sv2UpstreamClient opens one extended  *)
(* channel to a Stratum V2 pool, makes V1 jobs of what the pool announces, *)
(* cuts the channel's extranonce into slots and forwards the V1 miners'    *)
(* shares.                                                                 *)
(*                                                                         *)
(* The client's handlers run one at a time on its strand: those posted, in *)
(* order; those of the socket, when an operation has completed.  The       *)
(* sessions run on strands of their own and meet it under mu_.  What they  *)
(* do beyond taking work from the source is in Proxy.                      *)
(***************************************************************************)
EXTENDS Integers, Sequences, Functions

CONSTANTS
  Sessions,   \* miners
  Span,       \* slots that nonce_bytes_ bytes tell apart
  Window,     \* jobs whose ids can be submitted (32)
  Kept,       \* jobs a session remembers (8)
  Diffs,      \* difficulties the pool sets; 1 before it has set any
  MaxJobs,    \* bound: jobs of the pool
  MaxShares,  \* bound: shares of the miners
  MaxEvents   \* bound: failures of the network, refusals and changes of target by the pool

ASSUME UpstreamConstants ==
  /\ Span \in Nat \ {0} /\ Window \in Nat /\ Kept \in 1..(Window - 1)
  /\ MaxJobs \in Nat /\ MaxShares \in Nat /\ MaxEvents \in Nat

Jobs == 1..MaxJobs
Shares == 1..MaxShares
None == 0

VARIABLES
  stopped,   \* "no" while running_; then whether the handler of stop has run, and
             \* whether it came while the host was being resolved
  aborted,   \* the process has ended on a failed assertion
  c,         \* the connection: connected_, channel_ok_, what is being awaited (op, read,
             \* writes), the timer, wq_ and writing_, whether the socket is connected
  strand,    \* handlers posted to the client's strand
  casting,   \* what the strand has set and not yet posted to the sessions
  job, prev, \* job_ and prev_: the newest of each; a tip is named by its first job
  notify,    \* cur_notify_: the job made of them, and its tip
  mapped, order,   \* jobid_map_ and jobid_order_
  gen, diff, \* the channels opened so far (each with a prefix of its own), diff_
  next, subs,      \* next_slot_, and the slot of every subscriber
  waiters, S, mail,    \* sessions held, the sessions' members, handlers posted to them
  nextSeq, share,      \* next_seq_, and the shares with what became of them
  pool,      \* the other end: how far the handshake is, its newest work, verdicts to send
  ids, era,  \* the pool's number of every job, and the channel it was announced over
  events     \* bound

vars == <<stopped, aborted, c, strand, casting, job, prev, notify, mapped, order, gen, diff,
          next, subs, waiters, S, mail, nextSeq, share, pool, ids, era, events>>

Work == [job : Jobs \cup {None}, tip : Jobs \cup {None}]
NoWork == [job |-> None, tip |-> None]
Idle == "nothing"
Free == ~aborted /\ casting = Idle
Running == stopped = "no"
Event == events < MaxEvents /\ events' = events + 1

Push(frame, x) == [do |-> "push", frame |-> frame, share |-> x]
Handler(do, x) == [do |-> do, frame |-> "none", share |-> x]
NoPool == [stage |-> "absent", active |-> NoWork, tipped |-> FALSE, count |-> 0, good |-> 0, bad |-> <<>>]

(***************************************************************************)
(* The transport.                                                          *)
(***************************************************************************)

Feed == <<job, prev, notify, mapped, order, ids, era>>
Channel == <<gen, diff>>
Miners == <<next, subs, waiters, S, mail>>

\* The next handler posted is run.
Runs(do) == Free /\ strand # <<>> /\ Head(strand).do = do

ConnectAnyway(d) == [d EXCEPT !.connected = FALSE, !.open = FALSE, !.op = "resolve"]

\* connect
Connect(d) ==
  IF ~Running THEN d ELSE [d EXCEPT !.connected = FALSE, !.open = FALSE, !.op = "resolve"]

TornDownForGood(d) ==
  [d EXCEPT !.connected = FALSE, !.open = FALSE, !.sock = FALSE, !.wq = <<>>, !.writing = FALSE,
            !.op = IF @ = "connect" THEN "failed" ELSE @,
            !.read = IF @ = "pending" THEN "failed" ELSE @,
            !.writes = [i \in DOMAIN @ |-> IF @[i] = "pending" THEN "failed" ELSE @[i]]]

\* teardown: closing the socket fails what is being awaited on it, but for what has completed.
\* The sessions are told that the link is down, which none of them acts on.
TornDown(d) ==
  [d EXCEPT !.connected = FALSE, !.open = FALSE, !.sock = FALSE, !.wq = <<>>, !.writing = FALSE,
            !.timer = @ \/ Running,
            !.op = IF @ = "connect" THEN "failed" ELSE @,
            !.read = IF @ = "pending" THEN "failed" ELSE @,
            !.writes = [i \in DOMAIN @ |-> IF @[i] = "pending" THEN "failed" ELSE @[i]]]

Forgetting == [x \in Shares |-> [share[x] EXCEPT !.lost = @ \/ share[x].at = "pending"]]

Teardown(d) ==
  /\ c' = TornDown(d) /\ share' = Forgetting /\ pool' = NoPool

ConnectPosted ==
  /\ Runs("connect")
  /\ c' = Connect(c) /\ strand' = Tail(strand)
  /\ UNCHANGED <<stopped, aborted, casting, Feed, Channel, Miners, nextSeq, share, pool, events>>

\* stop: running_ is cleared, and the teardown posted.
Stop ==
  /\ Running /\ ~aborted
  /\ stopped' = "posted" /\ strand' = Append(strand, Handler("stop", None))
  /\ UNCHANGED <<aborted, c, casting, Feed, Channel, Miners, nextSeq, share, pool, events>>

StopPosted ==
  /\ Runs("stop")
  /\ stopped' = IF c.op = "resolve" THEN "late" ELSE "done"
  /\ Teardown(c) /\ strand' = Tail(strand)
  /\ UNCHANGED <<aborted, casting, Feed, Channel, Miners, nextSeq, events>>

\* schedule_reconnect's handler, at least two seconds after the teardown: everything that was
\* posted or had completed by then has run.
TimerFires ==
  /\ Free /\ c.timer /\ c.op = "none" /\ c.read = "none" /\ c.writes = <<>>
  /\ \A i \in DOMAIN strand : strand[i].do = "stop"
  /\ c' = Connect([c EXCEPT !.timer = FALSE])
  /\ UNCHANGED <<stopped, aborted, strand, casting, Feed, Channel, Miners, nextSeq, share, pool, events>>

\* The handlers of resolve and connect.
Resolved ==
  /\ Free /\ c.op = "resolve"
  /\ c' = [c EXCEPT !.op = "connect"]
  /\ UNCHANGED <<stopped, aborted, strand, casting, Feed, Channel, Miners, nextSeq, share, pool, events>>

ResolveFails ==
  /\ Free /\ c.op = "resolve" /\ Event
  /\ Teardown([c EXCEPT !.op = "none"])
  /\ UNCHANGED <<stopped, aborted, strand, casting, Feed, Channel, Miners, nextSeq>>

Connected ==
  /\ Free /\ c.op = "done"
  /\ c' = [c EXCEPT !.op = "none", !.connected = TRUE, !.read = IF c.sock THEN "pending" ELSE "failed"]
  /\ strand' = Append(strand, Push("setup", None))
  /\ UNCHANGED <<stopped, aborted, casting, Feed, Channel, Miners, nextSeq, share, pool, events>>

ConnectFails ==
  /\ Free /\ c.op = "failed"
  /\ Teardown([c EXCEPT !.op = "none"])
  /\ UNCHANGED <<stopped, aborted, strand, casting, Feed, Channel, Miners, nextSeq, events>>

\* do_write, on whatever the socket is by now.
Writing(d) == [d EXCEPT !.writing = TRUE, !.writes = Append(@, IF d.sock THEN "pending" ELSE "failed")]

\* The handler send_sv2 posts.
PushFrame ==
  /\ Runs("push")
  /\ LET d == [c EXCEPT !.wq = Append(@, Head(strand))]
     IN c' = IF c.writing THEN d ELSE Writing(d)
  /\ strand' = Tail(strand)
  /\ UNCHANGED <<stopped, aborted, casting, Feed, Channel, Miners, nextSeq, share, pool, events>>

\* The handler of a write: pop_front, which the libstdc++ assertions of the build end the
\* process in when a teardown has emptied the queue.
WriteEnds ==
  /\ Free /\ c.writes # <<>> /\ Head(c.writes) = "done"
  /\ LET d == [c EXCEPT !.writes = Tail(@)] IN
     IF c.wq = <<>> THEN aborted' = TRUE /\ UNCHANGED c
     ELSE /\ UNCHANGED aborted
          /\ c' = IF Len(c.wq) = 1 THEN [d EXCEPT !.wq = <<>>, !.writing = FALSE]
                  ELSE Writing([d EXCEPT !.wq = Tail(@)])
  /\ UNCHANGED <<stopped, strand, casting, Feed, Channel, Miners, nextSeq, share, pool, events>>

WriteFails ==
  /\ Free /\ c.writes # <<>> /\ Head(c.writes) = "failed"
  /\ Teardown([c EXCEPT !.writes = Tail(@), !.writing = FALSE])
  /\ UNCHANGED <<stopped, aborted, strand, casting, Feed, Channel, Miners, nextSeq, events>>

\* on_read with an error.
ReadFails ==
  /\ Free /\ c.read = "failed"
  /\ Teardown([c EXCEPT !.read = "none"])
  /\ UNCHANGED <<stopped, aborted, strand, casting, Feed, Channel, Miners, nextSeq, events>>

(***************************************************************************)
(* The network and the pool, which judges the shares it gets in order.     *)
(***************************************************************************)

Received(frame, x) ==
  \/ frame = "setup" /\ pool' = [pool EXCEPT !.stage = "setup"] /\ UNCHANGED share
  \/ frame = "open" /\ pool' = [pool EXCEPT !.stage = "opening"] /\ UNCHANGED share
  \/ /\ frame = "share"
     /\ \E good \in BOOLEAN :
          /\ share' = [share EXCEPT ![x].judged = IF good THEN "good" ELSE "bad"]
          /\ pool' = IF good THEN [pool EXCEPT !.good = share[x].seq]
                     ELSE [pool EXCEPT !.bad = Append(@, share[x].seq)]

EndFirst(d, end) == [d EXCEPT !.writes = [i \in DOMAIN @ |-> IF i = 1 THEN end ELSE @[i]]]

Written ==
  /\ c.writes # <<>> /\ Head(c.writes) = "pending" /\ ~aborted
  /\ c' = EndFirst(c, "done")
  /\ Received(c.wq[1].frame, c.wq[1].share)
  /\ UNCHANGED <<stopped, aborted, strand, casting, Feed, Channel, Miners, nextSeq, events>>

Dialed ==
  /\ c.op = "connect" /\ ~aborted
  /\ c' = [c EXCEPT !.op = "done", !.sock = TRUE]
  /\ UNCHANGED <<stopped, aborted, strand, casting, Feed, Channel, Miners, nextSeq, share, pool, events>>

\* The attempt fails, or the connection does: what is being written fails with it, or has
\* left the host and reaches nobody, or gets through yet.
Breaks ==
  /\ ~aborted /\ Event
  /\ \/ /\ c.op = "connect"
        /\ c' = [c EXCEPT !.op = "failed"]
     \/ /\ c.read = "pending"
        /\ c' = [c EXCEPT !.read = "failed"]
     \/ /\ c.read = "pending" /\ c.writes # <<>> /\ Head(c.writes) = "pending"
        /\ \E end \in {"done", "failed"} : c' = EndFirst([c EXCEPT !.read = "failed"], end)
  /\ UNCHANGED <<stopped, aborted, strand, casting, Feed, Channel, Miners, nextSeq, share, pool>>

(***************************************************************************)
(* What the pool sends: one frame read at a time, for nothing else of the  *)
(* strand comes between the frames of one read.                            *)
(***************************************************************************)

Reads == Free /\ c.connected /\ c.read = "pending"

\* Those posted to the sessions that are still there.
Told(to, m) == [s \in Sessions |-> IF s \in to /\ S[s].open THEN Append(mail[s], m) ELSE mail[s]]
Message(what, n, d) == [what |-> what, job |-> n, diff |-> d]
Subscribers == {s \in Sessions : subs[s] # None}

SetupAnswered ==
  /\ Reads /\ pool.stage = "setup"
  /\ pool' = [pool EXCEPT !.stage = "ready"]
  /\ strand' = Append(strand, Push("open", None))
  /\ UNCHANGED <<stopped, aborted, c, casting, Feed, Channel, Miners, nextSeq, share, events>>

\* on_channel_open; sessions bound to an earlier channel are told nothing.
ChannelOpened ==
  /\ Reads /\ pool.stage = "opening"
  /\ pool' = [pool EXCEPT !.stage = "open"]
  /\ c' = [c EXCEPT !.open = TRUE] /\ gen' = gen + 1 /\ diff' \in Diffs /\ casting' = "up"
  /\ UNCHANGED <<stopped, aborted, strand, Feed, Miners, nextSeq, share, events>>

\* Either request refused.
Refused ==
  /\ Reads /\ pool.stage \in {"setup", "opening"} /\ Event
  /\ Teardown([c EXCEPT !.read = "none"])
  /\ UNCHANGED <<stopped, aborted, strand, casting, Feed, Channel, Miners, nextSeq>>

\* rebuild_and_broadcast up to live_sinks; the oldest id of jobid_order_ is erased although
\* it may have been given out again.
Rebuild(n, tip) ==
  /\ notify' = [job |-> n, tip |-> tip] /\ casting' = "job"
  /\ LET longer == Append(order, ids'[n])
         full == Len(longer) > Window
     IN /\ order' = IF full THEN Tail(longer) ELSE longer
        /\ mapped' = (mapped \cup {ids'[n]}) \ (IF full THEN {Head(longer)} ELSE {})

\* The pool gives no number twice on one connection; one it gave on an earlier one it may.
Numbered(n) ==
  /\ \E id \in ({n} \cup Range(ids)) \ ({None} \cup {ids[k] : k \in {j \in Jobs : era[j] = gen}}) :
       ids' = [ids EXCEPT ![n] = id]
  /\ era' = [era EXCEPT ![n] = gen]
Announces(n) == Reads /\ pool.stage = "open" /\ ids[n] = None /\ \A k \in 1..(n - 1) : ids[k] # None

\* on_extended_job, of a job for a later tip.
FutureJob(n) ==
  /\ Announces(n) /\ job' = n /\ Numbered(n)
  /\ pool' = [pool EXCEPT !.count = @ + 1, !.tipped = FALSE]
  /\ UNCHANGED <<prev, notify, mapped, order, casting>>
  /\ UNCHANGED <<stopped, aborted, c, strand, Channel, Miners, nextSeq, share, events>>

\* The same with its min_ntime: active at once.
ActiveJob(n) ==
  /\ Announces(n) /\ pool.active # NoWork /\ pool.tipped /\ job' = n /\ Numbered(n)
  /\ pool' = [pool EXCEPT !.count = @ + 1, !.active.job = n]
  /\ IF prev = None THEN UNCHANGED <<notify, casting, mapped, order>> ELSE Rebuild(n, prev)
  /\ UNCHANGED prev
  /\ UNCHANGED <<stopped, aborted, c, strand, Channel, Miners, nextSeq, share, events>>

\* on_set_prev_hash, which takes the newest job for the one the pool names.
NewPrevHash ==
  /\ Reads /\ pool.stage = "open" /\ pool.count > 0 /\ ~pool.tipped
  /\ UNCHANGED <<job, ids, era>>
  /\ prev' = job /\ Rebuild(job, job)
  /\ pool' = [pool EXCEPT !.active = [job |-> job, tip |-> job], !.tipped = TRUE]
  /\ UNCHANGED <<stopped, aborted, c, strand, Channel, Miners, nextSeq, share, events>>

\* on_set_target
SetTarget ==
  /\ Reads /\ pool.stage = "open" /\ Event
  /\ diff' \in Diffs /\ casting' = "diff"
  /\ UNCHANGED <<stopped, aborted, c, strand, Feed, gen, Miners, nextSeq, share, pool>>

\* live_sinks, and the posts to every session it returns.
Broadcast ==
  /\ casting \in {"job", "diff"} /\ casting' = Idle
  /\ mail' = Told(Subscribers, Message(casting, notify.job, diff))
  /\ UNCHANGED <<stopped, aborted, c, strand, Feed, Channel, next, subs, waiters, S, nextSeq, share, pool, events>>

\* notify_waiters: the list is taken and cleared.
NotifyWaiters ==
  /\ casting = "up" /\ casting' = Idle
  /\ mail' = Told(waiters, Message("up", None, diff)) /\ waiters' = {}
  /\ UNCHANGED <<stopped, aborted, c, strand, Feed, Channel, next, subs, S, nextSeq, share, pool, events>>

\* on_submit_result: an error is for its share, a success for every share up to it.
Answered(x, said) == [share[x] EXCEPT !.at = "over", !.said = said, !.got = @ + 1]

AllAccepted ==
  /\ Reads /\ pool.good # 0 /\ \A i \in DOMAIN pool.bad : pool.bad[i] > pool.good
  /\ share' = [x \in Shares |-> IF share[x].at = "pending" THEN Answered(x, "accepted") ELSE share[x]]
  /\ pool' = [pool EXCEPT !.good = 0]
  /\ UNCHANGED <<stopped, aborted, c, strand, casting, Feed, Channel, Miners, nextSeq, events>>

SharesAccepted ==
  /\ Reads /\ pool.good # 0 /\ \A i \in DOMAIN pool.bad : pool.bad[i] > pool.good
  /\ share' = [x \in Shares |-> IF share[x].at = "pending" /\ share[x].seq <= pool.good
                                THEN Answered(x, "accepted") ELSE share[x]]
  /\ pool' = [pool EXCEPT !.good = 0]
  /\ UNCHANGED <<stopped, aborted, c, strand, casting, Feed, Channel, Miners, nextSeq, events>>

ShareRefused ==
  /\ Reads /\ pool.bad # <<>>
  /\ share' = [x \in Shares |-> IF share[x].at = "pending" /\ share[x].seq = Head(pool.bad)
                                THEN Answered(x, "refused") ELSE share[x]]
  /\ pool' = [pool EXCEPT !.bad = Tail(@)]
  /\ UNCHANGED <<stopped, aborted, c, strand, casting, Feed, Channel, Miners, nextSeq, events>>

(***************************************************************************)
(* The sessions.                                                           *)
(***************************************************************************)

Theirs == <<stopped, aborted, c, casting, Feed, Channel, pool, events>>
Here(s) == ~aborted /\ S[s].open /\ S[s].pc = "idle"

Newcomer == [open |-> TRUE, pc |-> "idle", sub |-> FALSE, pend |-> FALSE, job |-> None, recent |-> <<>>,
             diff |-> 1, slot |-> None, gen |-> 0]

\* try_attach_and_reply up to any_ready.
TryAttach(r) == IF r.sub THEN r ELSE [r EXCEPT !.pc = IF c.open THEN "attach" ELSE "register"]

Subscribe(s) ==
  /\ Here(s) /\ ~S[s].sub /\ S' = [S EXCEPT ![s] = TryAttach(@)]
  /\ UNCHANGED <<strand, next, subs, waiters, mail, nextSeq, share, Theirs>>

AttachLate(s) ==
  /\ S[s].pc = "attach" /\ ~aborted
  /\ IF c.open
     THEN /\ next' = next + 1 /\ subs' = subs
          /\ S' = [S EXCEPT ![s] = [@ EXCEPT !.pc = "diff", !.slot = next, !.gen = gen]]
     ELSE S' = [S EXCEPT ![s].pc = "register"] /\ UNCHANGED <<next, subs>>
  /\ UNCHANGED <<strand, waiters, mail, nextSeq, share, Theirs>>

\* attach: slots are numbered without end, and the number cut to its bytes.
Attach(s) ==
  /\ S[s].pc = "attach" /\ ~aborted
  /\ IF c.open
     THEN /\ next' = next + 1 /\ subs' = [subs EXCEPT ![s] = next]
          /\ S' = [S EXCEPT ![s] = [@ EXCEPT !.pc = "diff", !.slot = next, !.gen = gen]]
     ELSE S' = [S EXCEPT ![s].pc = "register"] /\ UNCHANGED <<next, subs>>
  /\ UNCHANGED <<strand, waiters, mail, nextSeq, share, Theirs>>

\* register_waiter
RegisterWaiter(s) ==
  /\ S[s].pc = "register" /\ ~aborted
  /\ S' = [S EXCEPT ![s].pc = "idle", ![s].pend = TRUE] /\ waiters' = waiters \cup {s}
  /\ UNCHANGED <<strand, next, subs, mail, nextSeq, share, Theirs>>

RememberUntilFull(recent, n) ==
  IF n = None \/ (\E i \in DOMAIN recent : ids[recent[i]] = ids[n]) \/ Len(recent) = Kept THEN recent
  ELSE Append(recent, n)

\* remember_job: a job whose id is remembered already is not.
Remember(recent, n) ==
  IF n = None \/ \E i \in DOMAIN recent : ids[recent[i]] = ids[n] THEN recent
  ELSE IF Len(recent) = Kept THEN Append(Tail(recent), n) ELSE Append(recent, n)

\* The rest of try_attach_and_reply: current_diff, then current_job.
ReadDiff(s) ==
  /\ S[s].pc = "diff" /\ ~aborted
  /\ S' = [S EXCEPT ![s] = [@ EXCEPT !.pc = "job", !.sub = TRUE, !.pend = FALSE, !.diff = diff]]
  /\ UNCHANGED <<strand, next, subs, waiters, mail, nextSeq, share, Theirs>>

ReadJob(s) ==
  /\ S[s].pc = "job" /\ ~aborted
  /\ S' = [S EXCEPT ![s] = [@ EXCEPT !.pc = "idle", !.job = notify.job, !.recent = Remember(S[s].recent, notify.job)]]
  /\ UNCHANGED <<strand, next, subs, waiters, mail, nextSeq, share, Theirs>>

\* on_upstream_job, on_upstream_diff, on_upstream_state
RunMail(s) ==
  /\ Here(s) /\ mail[s] # <<>> /\ mail' = [mail EXCEPT ![s] = Tail(@)]
  /\ LET m == Head(mail[s]) IN
     S' = [S EXCEPT ![s] =
             CASE m.what = "job"  -> [@ EXCEPT !.job = m.job, !.recent = Remember(S[s].recent, m.job)]
               [] m.what = "diff" -> [@ EXCEPT !.diff = m.diff]
               [] m.what = "up"   -> IF @.pend THEN TryAttach(@) ELSE @]
  /\ UNCHANGED <<strand, next, subs, waiters, nextSeq, share, Theirs>>

\* handle_submit's accepted exit, with the part of submit that runs there.
Submit(s) ==
  /\ Here(s) /\ S[s].sub
  /\ \E n \in Range(S[s].recent), x \in Shares :
       /\ share[x].at = "none" /\ \A y \in 1..(x - 1) : share[y].at # "none"
       /\ IF c.open /\ ids[n] \in mapped
          THEN /\ share' = [share EXCEPT ![x].at = "posted"]
               /\ strand' = Append(strand, Handler("submit", x))
          ELSE share' = [share EXCEPT ![x] = Answered(x, "unsent")] /\ UNCHANGED strand
  /\ UNCHANGED <<Miners, nextSeq, Theirs>>

\* The rest of submit, on the client's strand.
SubmitPosted ==
  /\ Runs("submit")
  /\ LET x == Head(strand).share IN
     IF c.connected
     THEN /\ share' = [share EXCEPT ![x].at = "pending", ![x].seq = nextSeq]
          /\ nextSeq' = nextSeq + 1
          /\ strand' = Append(Tail(strand), Push("share", x))
     ELSE /\ share' = [share EXCEPT ![x] = Answered(x, "unsent")]
          /\ strand' = Tail(strand) /\ UNCHANGED nextSeq
  /\ UNCHANGED <<stopped, aborted, c, casting, Feed, Channel, Miners, pool, events>>

\* on_closed, with detach.
HangUp(s) ==
  /\ Here(s)
  /\ S' = [S EXCEPT ![s] = [Newcomer EXCEPT !.open = FALSE]] /\ subs' = [subs EXCEPT ![s] = None]
  /\ mail' = [mail EXCEPT ![s] = <<>>] /\ waiters' = waiters \ {s}
  /\ UNCHANGED <<strand, next, nextSeq, share, Theirs>>

(***************************************************************************)
(* The specification.                                                      *)
(***************************************************************************)

\* After start.
Init ==
  /\ stopped = "no" /\ aborted = FALSE
  /\ c = [connected |-> FALSE, open |-> FALSE, sock |-> FALSE, op |-> "none", timer |-> FALSE,
          read |-> "none", wq |-> <<>>, writing |-> FALSE, writes |-> <<>>]
  /\ strand = <<Handler("connect", None)>> /\ casting = Idle
  /\ job = None /\ prev = None /\ notify = NoWork /\ mapped = {} /\ order = <<>>
  /\ gen = 0 /\ diff = 1 /\ next = 1
  /\ subs = [s \in Sessions |-> None] /\ waiters = {}
  /\ S = [s \in Sessions |-> Newcomer] /\ mail = [s \in Sessions |-> <<>>]
  /\ nextSeq = 1
  /\ share = [x \in Shares |-> [at |-> "none", seq |-> 0, judged |-> "no", lost |-> FALSE,
                                said |-> "nothing", got |-> 0]]
  /\ pool = NoPool /\ ids = [n \in Jobs |-> None] /\ era = [n \in Jobs |-> 0] /\ events = 0

Strand ==
  \/ ConnectPosted \/ StopPosted \/ SubmitPosted \/ PushFrame
  \/ TimerFires \/ Resolved \/ ResolveFails \/ Connected \/ ConnectFails
  \/ WriteEnds \/ WriteFails \/ ReadFails \/ Broadcast \/ NotifyWaiters

Network == Written \/ Dialed \/ Breaks
Handshake == SetupAnswered \/ ChannelOpened
Frames ==
  \/ Refused \/ NewPrevHash \/ SetTarget \/ SharesAccepted \/ ShareRefused
  \/ \E n \in Jobs : FutureJob(n) \/ ActiveJob(n)

Miner(s) ==
  Subscribe(s) \/ Attach(s) \/ RegisterWaiter(s) \/ ReadDiff(s) \/ ReadJob(s) \/ RunMail(s) \/ Submit(s) \/ HangUp(s)

Next == Strand \/ Network \/ Handshake \/ Frames \/ Stop \/ \E s \in Sessions : Miner(s)

\* Posted and completed handlers run, the timer fires, what is written and dialed ends one
\* way or the other, and the pool answers the two requests of the handshake.
Fairness ==
  /\ WF_vars(Strand) /\ WF_vars(Written \/ Dialed) /\ WF_vars(Handshake)

Spec == Init /\ [][Next]_vars
FairSpec == Spec /\ Fairness

(***************************************************************************)
(* Properties.                                                             *)
(***************************************************************************)

\* The type of every variable.
TypeOK ==
  /\ stopped \in {"no", "posted", "done", "late"} /\ aborted \in BOOLEAN
  /\ c \in [connected : BOOLEAN, open : BOOLEAN, sock : BOOLEAN, timer : BOOLEAN, writing : BOOLEAN,
            op : {"none", "resolve", "connect", "done", "failed"}, read : {"none", "pending", "failed"},
            wq : Seq([do : {"push"}, frame : {"setup", "open", "share"}, share : Shares \cup {None}]),
            writes : Seq({"pending", "done", "failed"})]
  /\ strand \in Seq([do : {"connect", "stop", "submit", "push"}, frame : {"none", "setup", "open", "share"},
                     share : Shares \cup {None}])
  /\ casting \in {Idle, "job", "diff", "up"}
  /\ job \in Jobs \cup {None} /\ prev \in Jobs \cup {None} /\ notify \in Work
  /\ mapped \subseteq Jobs /\ order \in Seq(Jobs) /\ Len(order) <= Window
  /\ gen \in Nat /\ diff \in Diffs \cup {1} /\ next \in Nat /\ subs \in [Sessions -> Nat]
  /\ waiters \subseteq Sessions
  /\ S \in [Sessions -> [open : BOOLEAN, pc : {"idle", "attach", "register", "diff", "job"}, sub : BOOLEAN,
                         pend : BOOLEAN, job : Jobs \cup {None}, recent : Seq(Jobs), diff : Diffs \cup {1},
                         slot : Nat, gen : Nat]]
  /\ DOMAIN mail = Sessions /\ nextSeq \in 1..(MaxShares + 1)
  /\ share \in [Shares -> [at : {"none", "posted", "pending", "over"}, seq : 0..MaxShares, lost : BOOLEAN,
                           judged : {"no", "good", "bad"}, got : Nat,
                           said : {"nothing", "unsent", "accepted", "refused"}]]
  /\ pool \in [stage : {"absent", "setup", "ready", "opening", "open"}, active : Work, tipped : BOOLEAN,
               count : Nat, good : 0..MaxShares, bad : Seq(1..MaxShares)]
  /\ ids \in [Jobs -> Jobs \cup {None}] /\ era \in [Jobs -> Nat] /\ events \in 0..MaxEvents

\* Session s has run what was posted to it, and the client has nothing more to post.
Settled(s) == S[s].open /\ S[s].pc = "idle" /\ mail[s] = <<>> /\ Free

\* A miner mines what the pool has made active, however its attach, the channel's jobs, tips
\* and targets and the posts of live_sinks interleave; at the difficulty of the channel,
\* unless it was bound before the channel was opened again.
InStep ==
  \A s \in Sessions :
    (Settled(s) /\ S[s].sub) =>
      /\ S[s].job = notify.job
      /\ pool.active # NoWork => notify = pool.active
      /\ S[s].gen = gen => S[s].diff = diff

\* jobid_map_ and recent_jobs_ drop their oldest at different lengths: a share that its
\* session still rebuilds is one that submit still translates.
RememberedMapped ==
  \A s \in Sessions : (Settled(s) /\ S[s].sub) => \A n \in Range(S[s].recent) : ids[n] \in mapped

\* What a session rebuilds for a share of the job it told last is that job, across reconnections
\* to pools that number anew, and whatever was dropped from its memory; unless it still
\* remembers a job of another connection under the same number, which remember_job leaves there.
RebuiltAsHashed ==
  \A s \in Sessions : (S[s].open /\ S[s].job # None) =>
    \E n \in Range(S[s].recent) :
      ids[n] = ids[S[s].job] /\ (n = S[s].job \/ era[n] # era[S[s].job])

\* What a share's callback is told is what the pool said of it, across the cumulative
\* acknowledgements of on_submit_result and refusals in between; but for the shares a
\* teardown left in pending_, which the next connection's first success accepts.  None is
\* told twice, whatever connection its answer comes over.  (The types are part of it.)
VerdictsHonest ==
  /\ TypeOK
  /\ \A x \in Shares :
       /\ share[x].got <= 1
       /\ share[x].said = "accepted" => share[x].judged = "good" \/ share[x].lost
       /\ share[x].said = "refused" => share[x].judged = "bad"

\* Once stop's handler has run the link stays down: no timer, attempt or completed connect
\* brings it back; unless it ran while the host was being resolved, which closing the
\* socket does not cancel.
StaysDown == stopped = "done" => ~c.open /\ ~c.sock /\ c.op # "resolve"

\* Whatever fails, and in whatever order the completions of one connection's operations are
\* handled, the channel is opened again; a running client is never left without a timer, an
\* attempt or a read that will end.
LinkRecovers == []<>(c.open \/ ~Running \/ aborted)

\* sv2_upstream_client.hpp:46: the extranonce space "is subdivided across downstream miners
\* exactly like the V1 UpstreamClient subdivides a V1 extranonce", that is with no slot for
\* two miners (upstream_client.cpp:512 and 540).
SlotsDistinct ==
  \A s, t \in Sessions :
    (s # t /\ subs[s] # None /\ subs[t] # None /\ S[s].gen = S[t].gen) => subs[s] % Span # subs[t] % Span

\* proxy_session.cpp:317: what is rebuilt for a share is "the exact coinbase/merkle-root/header
\* the miner hashed": under its number a session remembers the job it told last.
RebuiltExactly ==
  \A s \in Sessions : (Settled(s) /\ S[s].job # None) => S[s].job \in Range(S[s].recent)

\* CMakeLists.txt:79 builds with the assertions of libstdc++, one of which is that pop_front
\* is called on no empty deque.
NeverAborts == ~aborted

\* proxy_session.cpp:185: a subscribe with no link ready is held to "complete once a link
\* comes up": held while a link is up, it has been told so.
HeldOnlyWhileDown ==
  \A s \in Sessions : (Settled(s) /\ S[s].pend) => ~c.open
=============================================================================
