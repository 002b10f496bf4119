------------------------------- MODULE Proxy -------------------------------
(***************************************************************************)
(* The proxy role: UpstreamClient keeps one link to every configured pool, *)
(* carves a slot of the link's extranonce for each miner, and moves the    *)
(* miners of a link that fails to a standby.  ProxyDownstreamSession is    *)
(* the side of a Stratum V1 miner, Sv2RelaySession that of a V2 miner.     *)
(*                                                                         *)
(* The client's handlers run one at a time on its strand, each session's   *)
(* on its own; they meet under the client's mu_, and in the handlers the   *)
(* client posts to the sessions' strands (mail).  A handler of either side *)
(* that takes mu_ more than once is split where the other side can tell.   *)
(***************************************************************************)
EXTENDS Integers, Sequences, FiniteSets, SequencesExt

CONSTANTS
  NLinks,     \* endpoints, in the order of their priority
  Cost,       \* what a miner adds to a link's load: a common multiple of the weights over its own
  Sessions,   \* miners
  Nobody,     \* no session
  V2Sets,     \* the sets of miners that may be the V2 ones
  Span,       \* slot_span: slots a link's extranonce is cut into
  Modes,      \* of upstream.mode: "failover", "activeactive"
  Diffs,      \* difficulties an upstream sets; 1 before it has set any
  MaxUp,      \* bound: what upstreams and the operator do unasked
  MaxDown,    \* bound: requests of miners
  MaxShares   \* bound: shares forwarded

ASSUME ProxyConstants ==
  /\ NLinks \in Nat \ {0} /\ Span \in Nat \ {0} /\ Nobody \notin Sessions
  /\ Cost \in [1..NLinks -> Nat \ {0}]
  /\ Modes \subseteq {"failover", "activeactive"}
  /\ V2Sets \subseteq SUBSET Sessions
  /\ MaxUp \in Nat /\ MaxDown \in Nat /\ MaxShares \in Nat

Links == 1..NLinks
Slots == 0..(Span - 1)
Shares == 1..MaxShares
None == 0

VARIABLES
  mode,      \* active_active_
  v2,        \* the miners that speak Stratum V2
  primary,   \* primary_
  L,         \* the links: conn is where the connection is, en1 the extranonce the pool
             \* assigned, first the one of this connection's subscription, subs the
             \* holders of the slots
  waiters,   \* sessions to ping when a link becomes ready
  casting,   \* what the client's strand has set on a link and not yet posted to its miners
  S,         \* the sessions' members; told is the job last sent to the miner; of a V2 session,
             \* sub is channel_open_ and auth is setup_done_, twice: its channel was opened again
  mail,      \* handlers posted to the sessions' strands
  share,     \* forwarded shares: where each is, its link, verdicts its callback got
  running, jobs, ups, downs

vars == <<mode, v2, primary, L, waiters, casting, S, mail, share, running, jobs, ups, downs>>

Message(what) == [what |-> what, link |-> None, slot |-> 0, en1 |-> None, job |-> None, diff |-> 1]
Messages == [what : {"up", "job", "diff", "extranonce", "rebind"}, link : Links \cup {None}, slot : Slots,
             en1 : Nat, job : 0..MaxUp, diff : Diffs \cup {1}]
Idle == [what |-> "nothing", link |-> None]
Free == casting = Idle

\* What the handlers posted to each session make of the mailboxes; those posted to a session
\* that is gone have no one to run them.  A closed session lives on in its posted handlers.
Alive(s) == S[s].open \/ mail[s] # <<>>
Mailed(posts) == [s \in Sessions |-> IF Alive(s) THEN mail[s] \o posts[s] ELSE <<>>]
Copies(n, m) == [i \in 1..n |-> m]

Connected(l) == L[l].conn \in {"open", "closing"}
Taken(subs) == {k \in Slots : subs[k] # Nobody}

(***************************************************************************)
(* Assignment of links and slots; all under mu_.                           *)
(***************************************************************************)

\* link_ready_locked, of a link whose slots are held as in subs.
ReadyWith(l, subs) ==
  Connected(l) /\ L[l].authorized /\ L[l].subscribed /\ L[l].en1 # None
    /\ Cardinality(Taken(subs)) < Span
Ready(l) == ReadyWith(l, L[l].subs)
AnyReady == \E l \in Links : Ready(l)

Load(l, subs) == Cardinality(Taken(subs)) * Cost[l]
LeastLoaded(T, subs) ==
  CHOOSE l \in T : \A k \in T : \/ Load(l, subs[l]) < Load(k, subs[k])
                                \/ Load(l, subs[l]) = Load(k, subs[k]) /\ l <= k

\* pick_link_locked; None when no link is ready.
Pick ==
  LET ready == {l \in Links : Ready(l)} IN
  IF ready = {} THEN None
  ELSE IF mode = "activeactive" THEN LeastLoaded(ready, [l \in Links |-> L[l].subs])
  ELSE IF primary \in ready THEN primary ELSE Min(ready)

\* allocate_on_locked: the first free slot from next_slot on.
FreeSlot(subs, next) ==
  CHOOSE k \in Slots : /\ subs[k] = Nobody
                       /\ \A j \in Slots : subs[j] = Nobody => (k - next) % Span <= (j - next) % Span
Allocate(link, s) ==
  LET k == FreeSlot(link.subs, link.next)
  IN [link EXCEPT !.subs[k] = s, !.next = (k + 1) % Span]

\* Where a miner of link l goes, given the slots taken so far: in failover mode
\* everyone to one standby, the first that was ready.
Target(l, links) ==
  LET ready == {k \in Links \ {l} : ReadyWith(k, links[k].subs)} IN
  IF ready = {} THEN None
  ELSE IF mode = "activeactive" THEN LeastLoaded(ready, [k \in Links |-> links[k].subs])
  ELSE Min(ready)

RebindingWithoutWork(s, t, k) ==
  [Message("rebind") EXCEPT !.link = t, !.slot = k, !.en1 = L[t].en1, !.diff = S[s].diff]
Rebinding(s, t, k) ==
  [Message("rebind") EXCEPT !.link = t, !.slot = k, !.en1 = L[t].en1, !.job = L[t].job, !.diff = L[t].diff]

\* One subscriber of a failed link, in slot k: erased when its sink is gone, moved
\* to the target, or kept when there is none with a free slot.
MoveOne(l, target, acc, k) ==
  LET s == acc.links[l].subs[k]
      t == IF mode = "activeactive" THEN Target(l, acc.links) ELSE target
      gone == [acc.links EXCEPT ![l].subs[k] = Nobody]
  IN IF ~Alive(s) THEN [acc EXCEPT !.links = gone]
     ELSE IF t = None THEN acc
     ELSE IF ~ReadyWith(t, acc.links[t].subs) THEN acc
     ELSE [links |-> [gone EXCEPT ![t] = Allocate(gone[t], s)],
           posts |-> [acc.posts EXCEPT ![s] =
                        Append(acc.posts[s], Rebinding(s, t, FreeSlot(gone[t].subs, gone[t].next)))]]

\* The subscribers of l one after the other.
MoveAll(l, order, links) ==
  LET target == Target(l, links)
      moved[i \in 0..Len(order)] ==
        IF i = 0 THEN [links |-> links, posts |-> [s \in Sessions |-> <<>>]]
        ELSE MoveOne(l, target, moved[i - 1], order[i])
  IN moved[Len(order)]

\* migrate_link, the link's flags being cleared already; the table is walked in an
\* order of its own.
Migrate(l, links) ==
  \E order \in SetToSeqs(Taken(links[l].subs)) :
    LET target == Target(l, links)
        all == MoveAll(l, order, links)
    IN /\ L' = all.links /\ mail' = Mailed(all.posts)
       /\ primary' = IF mode = "failover" /\ target # None THEN target
                     ELSE IF primary = l THEN None ELSE primary

(***************************************************************************)
(* The client's strand.                                                    *)
(***************************************************************************)

Aside == <<mode, v2, S, share, running, downs>>    \* what no handler of a link touches

Unasked == ups < MaxUp /\ ups' = ups + 1

\* connect_link, when the reconnect timer fires; pending requests are forgotten and
\* their callbacks with them.
ConnectLink(l) ==
  /\ Free /\ running /\ L[l].conn = "down"
  /\ L' = [L EXCEPT ![l].conn = "dialing"]
  /\ share' = [x \in Shares |-> IF share[x].at = "pending" /\ share[x].link = l
                                THEN [share[x] EXCEPT !.at = "over"] ELSE share[x]]
  /\ UNCHANGED <<mode, v2, primary, waiters, casting, S, mail, running, jobs, ups, downs>>

\* on_conn_open: subscribe and authorize are sent together.
OnConnOpen(l) ==
  /\ Free /\ L[l].conn = "dialing"
  /\ L' = [L EXCEPT ![l].conn = "open"]
  /\ UNCHANGED <<primary, waiters, casting, mail, jobs, ups, Aside>>

\* UpstreamConn::close, once: by a failed resolve, connect, handshake, read or write, by
\* the idle watchdog or a client.reconnect.
ConnCloses(l) ==
  /\ Unasked
  /\ \/ L[l].conn = "dialing" /\ L' = [L EXCEPT ![l].conn = "failed"]
     \/ L[l].conn = "open" /\ L' = [L EXCEPT ![l].conn = "closing"]
  /\ UNCHANGED <<primary, waiters, casting, mail, jobs, Aside>>

\* on_conn_close with migrate_link; the reconnect timer is set.
OnConnClose(l) ==
  /\ Free /\ L[l].conn \in {"failed", "closing"}
  /\ Migrate(l, [L EXCEPT ![l].conn = "down", ![l].authorized = FALSE, ![l].subscribed = FALSE])
  /\ UNCHANGED <<waiters, casting, jobs, ups, Aside>>

\* on_line runs for link l, for what was read before the close too.  The pool answers
\* requests in the order they came.
Line(l) == Free /\ L[l].conn \in {"open", "closing"}

\* The answer to mining.subscribe: a fresh extranonce, of which the sessions still
\* bound to the link are told nothing.
Subscribed(l) ==
  /\ Line(l) /\ ~L[l].subscribed
  /\ L' = [L EXCEPT ![l].en1 = L[l].en1 + 1, ![l].first = L[l].en1 + 1, ![l].subscribed = TRUE]
  /\ UNCHANGED <<primary, waiters, casting, mail, jobs, ups, Aside>>

\* The answer to mining.authorize, with notify_waiters: the list is taken and cleared
\* in one section.
Authorized(l) ==
  /\ Line(l) /\ L[l].subscribed /\ ~L[l].authorized
  /\ L' = [L EXCEPT ![l].authorized = TRUE]
  /\ mail' = Mailed([s \in Sessions |-> Copies(Cardinality({i \in DOMAIN waiters : waiters[i] = s}), Message("up"))])
  /\ waiters' = <<>>
  /\ UNCHANGED <<primary, casting, jobs, ups, Aside>>

\* A malformed answer to the one, or a refusal of the other, drops the link.
Refused(l) ==
  /\ Line(l) /\ ~L[l].authorized /\ Unasked
  /\ L' = [L EXCEPT ![l].conn = "failed"]
  /\ UNCHANGED <<primary, waiters, casting, mail, jobs, Aside>>

\* set_upstream_diff and build_and_broadcast_notify up to link_sinks.
SetDifficulty(l) ==
  /\ Line(l) /\ Unasked
  /\ \E d \in Diffs : L' = [L EXCEPT ![l].diff = d]
  /\ casting' = [what |-> "diff", link |-> l]
  /\ UNCHANGED <<primary, waiters, mail, jobs, Aside>>
Notify(l) ==
  /\ Line(l) /\ Unasked
  /\ jobs' = jobs + 1 /\ L' = [L EXCEPT ![l].job = jobs + 1]
  /\ casting' = [what |-> "job", link |-> l]
  /\ UNCHANGED <<primary, waiters, mail, Aside>>

ToHolders(l, m) ==
  Mailed([s \in Sessions |-> Copies(Cardinality({k \in Slots : L[l].subs[k] = s}), m)])

\* link_sinks, and the posts to every session it returns.
Broadcast ==
  /\ casting # Idle /\ casting' = Idle
  /\ mail' = ToHolders(casting.link, [Message(casting.what) EXCEPT !.job = L[casting.link].job,
                                                                 !.diff = L[casting.link].diff])
  /\ UNCHANGED <<primary, L, waiters, jobs, ups, Aside>>

\* set_upstream_extranonce for mining.set_extranonce: each bound session is re-issued
\* its own slot of the new one.
SetExtranonce(l) ==
  /\ Line(l) /\ L[l].subscribed /\ Unasked
  /\ L' = [L EXCEPT ![l].en1 = L[l].en1 + 1]
  /\ mail' = ToHolders(l, [Message("extranonce") EXCEPT !.en1 = L[l].en1 + 1])
  /\ UNCHANGED <<primary, waiters, casting, jobs, Aside>>

\* stop: every connection is closed, and no timer is armed again.
Stop ==
  /\ running /\ Free /\ Unasked
  /\ running' = FALSE
  /\ L' = [l \in Links |-> [L[l] EXCEPT !.conn = IF L[l].conn = "open" THEN "closing"
                                                 ELSE IF L[l].conn = "dialing" THEN "failed" ELSE L[l].conn]]
  /\ UNCHANGED <<mode, v2, primary, waiters, casting, S, mail, share, jobs, downs>>

(***************************************************************************)
(* Shares on their way.                                                    *)
(***************************************************************************)

\* submit's posted handler: a share for a connection still being made is written to a socket
\* not yet open, which ends the attempt, or waits for the one being connected.
ForwardShare(x) ==
  /\ Free /\ share[x].at = "posted"
  /\ LET l == share[x].link IN
     IF l # None /\ L[l].conn \in {"open", "dialing"}
     THEN /\ share' = [share EXCEPT ![x].at = "pending"]
          /\ \E conn \in {L[l].conn} \cup (IF L[l].conn = "dialing" THEN {"failed"} ELSE {}) :
               L' = [L EXCEPT ![l].conn = conn]
     ELSE /\ share' = [share EXCEPT ![x].at = "over", ![x].got = share[x].got + 1]
          /\ UNCHANGED L
  /\ UNCHANGED <<mode, v2, primary, waiters, casting, S, mail, running, jobs, ups, downs>>

\* The upstream's verdict reaches its callback, through handle_result.
ShareAnswered(x) ==
  /\ share[x].at = "pending" /\ Line(share[x].link)
  /\ share' = [share EXCEPT ![x].at = "over", ![x].got = share[x].got + 1]
  /\ UNCHANGED <<mode, v2, primary, L, waiters, casting, S, mail, running, jobs, ups, downs>>

\* arm_idle_watchdog's other half: no verdict for 30 seconds.
ShareTimesOutKept(x) ==
  /\ Free /\ running /\ share[x].at = "pending"
  /\ share' = [share EXCEPT ![x].got = share[x].got + 1]
  /\ UNCHANGED <<mode, v2, primary, L, waiters, casting, S, mail, running, jobs, ups, downs>>

ShareTimesOut(x) ==
  /\ Free /\ running /\ share[x].at = "pending"
  /\ share' = [share EXCEPT ![x].at = "over", ![x].got = share[x].got + 1]
  /\ UNCHANGED <<mode, v2, primary, L, waiters, casting, S, mail, running, jobs, ups, downs>>

(***************************************************************************)
(* A miner's strand.  pc is where try_attach_and_reply is between its      *)
(* calls of the client.                                                    *)
(***************************************************************************)

Outside == <<mode, v2, casting, running, jobs, ups>>
Request(s) == S[s].open /\ S[s].pc = "idle" /\ downs < MaxDown /\ downs' = downs + 1
Gone == [open |-> FALSE, pc |-> "idle", sub |-> FALSE, auth |-> FALSE, rolls |-> FALSE, pend |-> FALSE, twice |-> FALSE,
         link |-> None, slot |-> 0, en1 |-> None, job |-> None, told |-> None, diff |-> 1]

\* try_attach_and_reply up to any_ready; a subscribed miner is only answered again.
TryAttach(r) == IF r.sub THEN r ELSE [r EXCEPT !.pc = IF AnyReady THEN "attach" ELSE "register"]

Subscribe(s) ==
  /\ Request(s) /\ s \notin v2 /\ S' = [S EXCEPT ![s] = TryAttach(S[s])]
  /\ UNCHANGED <<primary, L, waiters, mail, share, Outside>>

\* handle_open_standard_channel with its try_attach, of a miner that has set the
\* connection up: an open channel is attached once more, and its first slot kept.
TryAttachV2(r) == [r EXCEPT !.pc = IF AnyReady THEN "attach" ELSE "register", !.twice = r.twice \/ r.sub]

OpenChannel(s) ==
  /\ Request(s) /\ s \in v2 /\ S[s].auth /\ S' = [S EXCEPT ![s] = TryAttachV2(S[s])]
  /\ UNCHANGED <<primary, L, waiters, mail, share, Outside>>

\* attach under mu_.  Finding no slot, it leaves the session with none: one that has its
\* channel open loses sight of the slot it held.
Attach(s) ==
  /\ S[s].pc = "attach"
  /\ LET l == Pick IN
     IF l = None
     THEN /\ S' = [S EXCEPT ![s] = [S[s] EXCEPT !.pc = "register", !.link = None, !.slot = 0, !.en1 = None]]
          /\ UNCHANGED <<primary, L>>
     ELSE /\ L' = [L EXCEPT ![l] = Allocate(L[l], s)]
          /\ S' = [S EXCEPT ![s] = [S[s] EXCEPT !.pc = "read", !.link = l, !.en1 = L[l].en1,
                                             !.slot = FreeSlot(L[l].subs, L[l].next)]]
          /\ primary' = IF mode = "failover" THEN l ELSE primary
  /\ UNCHANGED <<waiters, mail, share, downs, Outside>>

\* register_waiter under mu_.
RegisterWaiterOnce(s) ==
  /\ S[s].pc = "register"
  /\ S' = [S EXCEPT ![s].pc = "idle", ![s].pend = TRUE]
  /\ waiters' = IF S[s].pend THEN waiters ELSE Append(waiters, s)
  /\ UNCHANGED <<primary, L, mail, share, downs, Outside>>

RegisterWaiter(s) ==
  /\ S[s].pc = "register"
  /\ S' = [S EXCEPT ![s].pc = "idle", ![s].pend = TRUE]
  /\ waiters' = Append(waiters, s)
  /\ UNCHANGED <<primary, L, mail, share, downs, Outside>>

\* The rest of try_attach_and_reply: the job is kept, not sent.
ReadWork(s) ==
  /\ S[s].pc = "read" /\ s \notin v2
  /\ S' = [S EXCEPT ![s] = [S[s] EXCEPT !.pc = "idle", !.sub = TRUE, !.pend = FALSE,
                                     !.diff = L[S[s].link].diff, !.job = L[S[s].link].job]]
  /\ UNCHANGED <<primary, L, waiters, mail, share, downs, Outside>>

\* emit_current_job.
Emit(r) == IF r.job = None THEN r ELSE [r EXCEPT !.told = r.job]

\* emit_job, with its SetNewPrevHash: nothing before the channel is open.
EmitV2(r) == IF r.sub THEN Emit(r) ELSE r

\* The rest of try_attach: the channel is open, and the job sent.
OpensWithWork(s) ==
  /\ S[s].pc = "read" /\ s \in v2
  /\ S' = [S EXCEPT ![s] = EmitV2([S[s] EXCEPT !.pc = "idle", !.sub = TRUE, !.pend = FALSE,
                                            !.diff = L[S[s].link].diff, !.job = L[S[s].link].job])]
  /\ UNCHANGED <<primary, L, waiters, mail, share, downs, Outside>>

\* handle_setup_connection, after the Noise handshake if there is one.
SetupConnection(s) ==
  /\ Request(s) /\ s \in v2 /\ ~S[s].auth /\ S' = [S EXCEPT ![s].auth = TRUE]
  /\ UNCHANGED <<primary, L, waiters, mail, share, Outside>>

Authorize(s) ==
  /\ Request(s) /\ s \notin v2 /\ ~S[s].auth
  /\ S' = [S EXCEPT ![s] = IF S[s].sub THEN Emit([S[s] EXCEPT !.auth = TRUE]) ELSE [S[s] EXCEPT !.auth = TRUE]]
  /\ UNCHANGED <<primary, L, waiters, mail, share, Outside>>

\* mining.extranonce.subscribe, or the extension of mining.configure.
ExtranonceSubscribe(s) ==
  /\ Request(s) /\ s \notin v2 /\ ~S[s].rolls /\ S' = [S EXCEPT ![s].rolls = TRUE]
  /\ UNCHANGED <<primary, L, waiters, mail, share, Outside>>

\* A share goes to the link its session is bound to when it arrives.
Forward(s) ==
  /\ \E x \in Shares :
       /\ share[x].at = "none" /\ \A y \in 1..(x - 1) : share[y].at # "none"
       /\ share' = [share EXCEPT ![x] = [share[x] EXCEPT !.at = "posted", !.link = S[s].link]]
  /\ UNCHANGED <<primary, L, waiters, S, mail, Outside>>

\* handle_submit's accepted exits: a share at the difficulty, or a block below it.
Submit(s) == Request(s) /\ s \notin v2 /\ S[s].sub /\ S[s].auth /\ S[s].told # None /\ Forward(s)

\* handle_submit_shares' accepted exit: the miner hears of success before the pool has
\* seen its share.
SubmitV2(s) == Request(s) /\ s \in v2 /\ S[s].sub /\ S[s].told # None /\ Forward(s)

\* close and on_closed, in which detach takes mu_.
Detached(r) == IF r.link = None THEN L ELSE [L EXCEPT ![r.link].subs[r.slot] = Nobody]
Leave(s) ==
  /\ Request(s) /\ S' = [S EXCEPT ![s] = Gone] /\ L' = Detached(S[s])
  /\ UNCHANGED <<primary, waiters, mail, share, Outside>>
HangUp(s) == s \notin v2 /\ Leave(s)

\* A failed read, write or decryption, a frame too large, the miner closing its channel.
HangUpV2(s) == s \in v2 /\ Leave(s)

\* The handlers the client posted, run in order; nothing once the session is closed.
OnJob(r, m) == LET kept == [r EXCEPT !.job = m.job] IN IF r.sub /\ r.auth THEN Emit(kept) ELSE kept
OnDiff(r, m) == [r EXCEPT !.diff = m.diff]
OnExtranonce(r, m) ==
  LET kept == [r EXCEPT !.en1 = m.en1] IN IF r.sub THEN Emit(kept) ELSE kept
OnState(r) == IF r.pend THEN TryAttach(r) ELSE r

\* The same of a V2 session: it is never re-keyed, for its coinbases are the proxy's.
OnJobV2(r, m) == EmitV2([r EXCEPT !.job = m.job])
OnExtranonceV2(r, m) == EmitV2([r EXCEPT !.en1 = m.en1])
OnStateV2(r) == IF r.auth /\ ~r.sub THEN TryAttachV2(r) ELSE r
Rebound(r, m) ==
  LET bound == [r EXCEPT !.link = m.link, !.slot = m.slot, !.en1 = m.en1, !.diff = m.diff]
  IN IF m.job = None THEN bound ELSE Emit([bound EXCEPT !.job = m.job])

Handled(s, r, m) ==
  CASE m.what = "job" -> IF s \in v2 THEN OnJobV2(r, m) ELSE OnJob(r, m)
    [] m.what = "extranonce" -> IF s \in v2 THEN OnExtranonceV2(r, m) ELSE OnExtranonce(r, m)
    [] m.what = "up" -> IF s \in v2 THEN OnStateV2(r) ELSE OnState(r)
    [] m.what = "diff" -> OnDiff(r, m)
    [] m.what = "rebind" -> Rebound(r, m)

RunMail(s) ==
  /\ S[s].pc = "idle" /\ mail[s] # <<>>
  /\ mail' = [mail EXCEPT ![s] = Tail(mail[s])]
  /\ LET m == Head(mail[s])
         r == S[s]
         \* A V1 miner that cannot be re-keyed.
         drops == r.open /\ m.what = "rebind" /\ s \notin v2 /\ ~r.rolls
     IN /\ S' = [S EXCEPT ![s] = IF ~r.open THEN r ELSE IF drops THEN Gone ELSE Handled(s, r, m)]
        /\ L' = IF drops THEN Detached(m) ELSE L
  /\ UNCHANGED <<primary, waiters, share, downs, Outside>>

(***************************************************************************)
(* The specification.                                                      *)
(***************************************************************************)

\* After start: every link is being connected.
Init ==
  /\ mode \in Modes /\ v2 \in V2Sets /\ primary = None
  /\ L = [l \in Links |-> [conn |-> "dialing", authorized |-> FALSE, subscribed |-> FALSE,
                           en1 |-> None, first |-> None, job |-> None, diff |-> 1, next |-> 0,
                           subs |-> [k \in Slots |-> Nobody]]]
  /\ waiters = <<>> /\ casting = Idle
  /\ S = [s \in Sessions |-> [Gone EXCEPT !.open = TRUE]]
  /\ mail = [s \in Sessions |-> <<>>]
  /\ share = [x \in Shares |-> [at |-> "none", link |-> None, got |-> 0]]
  /\ running = TRUE /\ jobs = 0 /\ ups = 0 /\ downs = 0

Strand ==
  \/ \E l \in Links : \/ ConnectLink(l) \/ OnConnOpen(l) \/ ConnCloses(l) \/ OnConnClose(l)
                      \/ Subscribed(l) \/ Authorized(l) \/ Refused(l) \/ SetDifficulty(l) \/ Notify(l)
                      \/ SetExtranonce(l)
  \/ Broadcast \/ Stop
  \/ \E x \in Shares : ForwardShare(x) \/ ShareAnswered(x) \/ ShareTimesOut(x)

Miner(s) ==
  \/ Subscribe(s) \/ Attach(s) \/ RegisterWaiter(s) \/ ReadWork(s) \/ Authorize(s)
  \/ ExtranonceSubscribe(s) \/ Submit(s) \/ HangUp(s) \/ RunMail(s)
  \/ SetupConnection(s) \/ OpenChannel(s) \/ OpensWithWork(s) \/ SubmitV2(s)
  \/ HangUpV2(s)

Next == Strand \/ \E s \in Sessions : Miner(s)
Spec == Init /\ [][Next]_vars

(***************************************************************************)
(* Properties.                                                             *)
(***************************************************************************)

\* The type of every variable.
TypeOK ==
  /\ mode \in Modes /\ v2 \in V2Sets /\ primary \in Links \cup {None}
  /\ L \in [Links -> [conn : {"dialing", "open", "closing", "failed", "down"},
                      authorized : BOOLEAN, subscribed : BOOLEAN,
                      en1 : Nat, first : Nat, job : 0..MaxUp, diff : Diffs \cup {1}, next : Slots,
                      subs : [Slots -> Sessions \cup {Nobody}]]]
  /\ waiters \in Seq(Sessions)
  /\ casting \in [what : {"nothing", "diff", "job"}, link : Links \cup {None}]
  /\ S \in [Sessions -> [open : BOOLEAN, pc : {"idle", "attach", "register", "read"}, sub : BOOLEAN,
                         auth : BOOLEAN, rolls : BOOLEAN, pend : BOOLEAN,
                         twice : BOOLEAN, link : Links \cup {None},
                         slot : Slots, en1 : Nat, job : 0..MaxUp, told : 0..MaxUp, diff : Diffs \cup {1}]]
  /\ mail \in [Sessions -> Seq(Messages)]
  /\ share \in [Shares -> [at : {"none", "posted", "pending", "over"}, link : Links \cup {None}, got : Nat]]
  /\ running \in BOOLEAN /\ jobs \in 0..MaxUp /\ ups \in 0..MaxUp /\ downs \in 0..MaxDown

\* A forwarded share has one verdict at most, and none while it is on its way or in the
\* table: whichever of handle_result, the 30-second timeout, the loss of the link and its
\* reconnection comes first.  (The types are part of it.)
OneVerdict ==
  /\ TypeOK
  /\ \A x \in Shares : share[x].got <= (IF share[x].at = "over" THEN 1 ELSE 0)

\* What the client still has to tell session s.
Settled(s) == mail[s] = <<>> /\ S[s].pc = "idle" /\ Free
Bound(s) == S[s].open /\ S[s].sub /\ S[s].link # None /\ L[S[s].link].subs[S[s].slot] = s

\* A miner whose session holds its slot works as the link says once the client has
\* nothing left to tell it: its difficulty and, when it is a V2 miner or is authorized and
\* has been sent any job, its newest one, however attaching, migration and the link's
\* messages interleave.  Its extranonce too, unless it was bound before the link's present
\* subscription.  A V2 miner that opened its channel again keeps a slot of each link and is
\* sent the work of both.
InStep ==
  \A s \in Sessions :
    (Settled(s) /\ Bound(s) /\ ~S[s].twice) =>
      LET l == L[S[s].link] IN
      /\ S[s].diff = l.diff
      /\ l.job # None => /\ S[s].job = l.job
                         /\ S[s].auth => S[s].told \in (IF s \in v2 THEN {l.job} ELSE {None, l.job})
      /\ S[s].en1 >= l.first => S[s].en1 = l.en1

\* A miner whose subscribe was held is never forgotten: it is on the list, on its way to
\* it, or about to be told to try again.  The list is cleared while miners join it.  Only
\* who opens an open V2 channel again while no link is ready is never answered.
WaiterKnown ==
  \A s \in Sessions :
    (S[s].open /\ S[s].pend /\ ~(s \in v2 /\ S[s].sub)) =>
      \/ s \in Range(waiters) \/ S[s].pc # "idle"
      \/ \E m \in Range(mail[s]) : m.what = "up"

\* upstream_client.hpp:93: the recomputed extranonce is passed to the session when it changes
\* on the same link, by set_extranonce or by a reconnect.
ExtranonceReissued ==
  \A s \in Sessions :
    (Settled(s) /\ Bound(s) /\ Connected(S[s].link) /\ L[S[s].link].subscribed) =>
      S[s].en1 = L[S[s].link].en1
=============================================================================
