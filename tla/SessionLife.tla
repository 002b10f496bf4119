---------------------------- MODULE SessionLife ----------------------------
(***************************************************************************)
(* The life of a miner's connection: Connector and RateLimiter admit it,   *)
(* PoolManager keeps it in a shard, ClientSession detects its protocol,    *)
(* subscribes and authorizes it and tears it down; the idle sweep, the     *)
(* control socket and the drain of a restart end it from outside.          *)
(*                                                                         *)
(* The main io_context is contexts_[0], which a worker thread and the main *)
(* thread both run, so an accept in progress interleaves with the sweep,   *)
(* the control socket and the signal handler.  The handlers of a session   *)
(* run one at a time on its strand.                                        *)
(***************************************************************************)
EXTENDS Integers, FiniteSets, Sequences

CONSTANTS
  S,          \* session objects, numbered as they are made
  Ips,        \* peer addresses
  Workers,    \* payout names whose address decodes
  Junk,       \* a name whose address does not
  Nobody,     \* worker_address_ is empty
  TiersOf,    \* the kinds of listener a session object may belong to
  MaxOpen,    \* max_connections_per_ip
  BanAt,      \* invalid_share_ban_threshold
  Aux,        \* the password names an address on the aux chain, validated too
  DrainOn,    \* restartDrainSeconds > 0
  LineReads,  \* bound: the lines one read may deliver
  FrameReads, \* bound: the frames one read may deliver
  MaxEvents   \* bound: reads, orders, lost addresses, silences and lapsed bans

Unknown == "?"   \* remote_endpoint failed
Unset == ""      \* client_ip_ before start
Addresses == Ips \cup {Unknown}
Names == Workers \cup {Junk}
kWaves == 10
Listeners == {"v1", "tls", "sv2", "noise"}

\* What a peer may send: a line of V1, or a frame of V2.
LinesV1 == ({"subscribe"} \X BOOLEAN) \cup ({"authorize"} \X Names) \cup {<<"share">>, <<"bad">>}
FramesV2 == {<<"setup">>, <<"share">>} \cup ({"open"} \X Names \X BOOLEAN)

ASSUME SessionConstants ==
  /\ S \subseteq Nat
  /\ MaxOpen \in Nat \ {0} /\ BanAt \in Nat \ {0}
  /\ Aux \in BOOLEAN /\ DrainOn \in BOOLEAN
  /\ MaxEvents \in Nat
  /\ TiersOf \in [S -> SUBSET Listeners]
  /\ Ips \cap {Unknown, Unset} = {}
  /\ LineReads \subseteq Seq(LinesV1) /\ FrameReads \subseteq Seq(FramesV2)
  /\ Nobody \notin Workers \cup {Junk} /\ Junk \notin Workers

VARIABLES
  conn,      \* per session: how far its accept is, its listener until the protocol is known,
             \* the address its slot was taken under (counted) and client_ip_ (ip), its members
  mail,      \* per session: handlers posted to its strand from outside
  open,      \* per address: open_connections
  invalid,   \* per address: invalid_shares
  bans,      \* addresses in bans_
  shard,     \* sessions in the shards
  presence,  \* per name: the last event handed to the database worker
  listening, \* running_ of the connectors
  drain,     \* the drain: its step, the snapshot, who is still to be told
  signals,   \* signals received
  up,        \* the io contexts run
  events,    \* bound
  \* History.
  told       \* sessions that were sent client.reconnect

sessionVars == <<conn, mail, open, invalid, bans, shard, presence, listening, drain, signals, up,
          events, told>>

limiter == <<open, invalid, bans>>
process == <<listening, drain, signals, up>>

Fresh == [at |-> "free", tier |-> "none", counted |-> Unset, ip |-> Unset, stage |-> "none",
          closed |-> FALSE, v2 |-> FALSE, auth |-> FALSE, snap |-> FALSE, silent |-> FALSE,
          worker |-> Nobody, said |-> {}, asks |-> {}, by |-> "none"]

Connections ==
  [at : {"free", "admitted", "registered", "placed", "started"}, tier : Listeners \cup {"none"},
   counted : Addresses \cup {Unset}, ip : Addresses \cup {Unset},
   stage : {"none", "handshake", "first", "lines", "frames"},
   closed : BOOLEAN, v2 : BOOLEAN, auth : BOOLEAN, snap : BOOLEAN, silent : BOOLEAN,
   worker : Names \cup {Nobody}, said : SUBSET Workers, asks : SUBSET (Workers \X {"node", "aux"}),
   by : {"none", "shutdown", "forced"}]

Orders == {"shutdown", "forced", "reconnect"}

Event == events < MaxEvents /\ events' = events + 1

\* What a handler of session s may change.
Here(s) == [c |-> conn[s], open |-> open, invalid |-> invalid, bans |-> bans,
            shard |-> shard, presence |-> presence]

\* What is still posted to a closed session does nothing.
Becomes(s, w) ==
  /\ mail' = [mail EXCEPT ![s] = IF w.c.closed THEN <<>> ELSE @]
  /\ conn' = [conn EXCEPT ![s] = w.c]
  /\ open' = w.open /\ invalid' = w.invalid /\ bans' = w.bans
  /\ shard' = w.shard /\ presence' = w.presence

\* A handler runs on the strand of s.
OnStrand(s) == up /\ conn[s].at # "free"

(***************************************************************************)
(* RateLimiter.                                                            *)
(***************************************************************************)

\* allow_connection; that the accept bucket is empty is one more reason to
\* refuse, and a refused session leaves nothing behind.
MayConnect(a) == a \notin bans /\ open[a] < MaxOpen

\* on_disconnect
Release(counts, a) ==
  IF a \in Addresses /\ counts[a] > 0 THEN [counts EXCEPT ![a] = @ - 1] ELSE counts

BanLapses(a) ==
  /\ a \in bans /\ Event
  /\ bans' = bans \ {a}
  /\ UNCHANGED <<conn, mail, open, invalid, shard, presence, process, told>>

WindowLapses(a) ==
  /\ invalid[a] > 0
  /\ invalid' = [invalid EXCEPT ![a] = 0]
  /\ UNCHANGED <<conn, mail, open, bans, shard, presence, process, events, told>>

(***************************************************************************)
(* ClientSession::on_disconnect_local.                                     *)
(***************************************************************************)

\* Nobody asks a closed session for its protocol or its statistics.
Dead(c) == [c EXCEPT !.closed = TRUE, !.stage = "none", !.snap = FALSE,
                     !.silent = FALSE, !.tier = IF c.at = "started" THEN "none" ELSE @]

DisconnectRepeated(w, s) ==
  [w EXCEPT
     !.c = Dead(w.c),
     !.presence = IF w.c.worker = Nobody THEN w.presence ELSE [w.presence EXCEPT ![w.c.worker] = "offline"],
     !.open = Release(w.open, w.c.ip),
     !.shard = IF w.c.at \in {"placed", "started"} THEN w.shard \ {s} ELSE w.shard]

\* The handler that leaves the shard is in place only once the accept is
\* "placed".
OnDisconnectLocal(w, s) ==
  IF w.c.closed THEN w
  ELSE [w EXCEPT
          !.c = Dead(w.c),
          !.presence = IF w.c.worker = Nobody THEN w.presence ELSE [w.presence EXCEPT ![w.c.worker] = "offline"],
          !.open = Release(w.open, w.c.ip),
          !.shard = IF w.c.at \in {"placed", "started"} THEN w.shard \ {s} ELSE w.shard]

Closes(s) == Becomes(s, OnDisconnectLocal(Here(s), s))

(***************************************************************************)
(* Connector::handle_accept, in the steps another thread can see.          *)
(***************************************************************************)

AcceptInProgress(tier) ==
  \E s \in S : conn[s].tier = tier /\ conn[s].at \in {"admitted", "registered", "placed"}

Lost(gone) == IF gone THEN Event ELSE UNCHANGED events

Admit(s, tier, ip, gone) ==
  LET a == IF gone THEN Unknown ELSE ip IN
  /\ up /\ listening /\ conn[s].at = "free" /\ ~AcceptInProgress(tier) /\ Lost(gone)
  /\ \A t \in S : t < s => conn[t].at # "free"
  /\ MayConnect(a)
  /\ open' = [open EXCEPT ![a] = @ + 1]
  /\ conn' = [conn EXCEPT ![s] = [Fresh EXCEPT !.at = "admitted", !.tier = tier, !.counted = a]]
  /\ UNCHANGED <<mail, invalid, bans, shard, presence, process, told>>

\* registerSession
Register(s) ==
  /\ conn[s].at = "admitted"
  /\ conn' = [conn EXCEPT ![s].at = "registered"]
  /\ shard' = shard \cup {s}
  /\ UNCHANGED <<mail, limiter, presence, process, events, told>>

\* setDisconnectHandler
Place(s) ==
  /\ conn[s].at = "registered"
  /\ conn' = [conn EXCEPT ![s].at = "placed"]
  /\ UNCHANGED <<mail, limiter, shard, presence, process, events, told>>

\* start asks for the peer's address again: a peer that has reset the
\* connection by now, or a socket closed meanwhile, has none.
Start(s, ip, gone) ==
  LET c == conn[s] IN
  /\ c.at = "placed" /\ Lost(gone)
  /\ c.counted # Unknown => ip = c.counted
  /\ conn' = [conn EXCEPT ![s] =
       [c EXCEPT !.at = "started", !.ip = IF gone \/ c.closed \/ c.counted = Unknown THEN Unknown ELSE ip,
                 !.stage = IF c.closed THEN "none" ELSE IF c.tier = "tls" THEN "handshake" ELSE "first",
                 !.tier = IF c.closed THEN "none" ELSE c.tier]]
  /\ UNCHANGED <<mail, limiter, shard, presence, process, told>>

(***************************************************************************)
(* ClientSession::start: detection of the protocol.                        *)
(***************************************************************************)

Reading(s, stage) == OnStrand(s) /\ conn[s].stage = stage /\ ~conn[s].closed

\* Once the protocol is known the kind of listener does not matter.
MovesTo(s, stage) ==
  LET tier == IF stage = "handshake" THEN conn[s].tier ELSE "none" IN
  Becomes(s, [Here(s) EXCEPT !.c = [conn[s] EXCEPT !.stage = stage, !.v2 = (stage = "frames"), !.tier = tier]])

\* The TLS handshake, or acts 1 and 2 of Noise.
Handshake(s) ==
  /\ Reading(s, "handshake")
  /\ MovesTo(s, IF conn[s].tier = "tls" THEN "lines" ELSE "frames")
  /\ UNCHANGED <<process, events, told>>

\* text: the first byte is a brace or a space, as V1 has it and no other.
FirstByte(s, text) ==
  /\ Reading(s, "first")
  /\ IF text # (conn[s].tier = "v1")
     THEN Closes(s)
     ELSE MovesTo(s, [v1 |-> "lines", noise |-> "handshake", sv2 |-> "frames"][conn[s].tier])
  /\ UNCHANGED <<process, events, told>>

\* A read or a write that fails, the peer leaving, a buffer or a frame too large.
ReadFails(s) ==
  /\ OnStrand(s) /\ conn[s].at = "started" /\ ~conn[s].closed
  /\ Closes(s)
  /\ UNCHANGED <<process, events, told>>

(***************************************************************************)
(* Lines and frames.  A read delivers several lines; all are processed in  *)
(* one run of on_read, even those after one that closed the session.       *)
(***************************************************************************)

\* reject in handle_submit, with record_invalid_share.
Reject(w, s) ==
  LET a == w.c.ip IN
  IF w.invalid[a] + 1 >= BanAt
  THEN OnDisconnectLocal([w EXCEPT !.bans = w.bans \cup {a}, !.invalid = [w.invalid EXCEPT ![a] = 0]], s)
  ELSE [w EXCEPT !.invalid = [w.invalid EXCEPT ![a] = w.invalid[a] + 1]]

\* note_accepted_share and clear_invalid.
Credit(w) ==
  [w EXCEPT !.c = [w.c EXCEPT !.silent = FALSE], !.invalid = [w.invalid EXCEPT ![w.c.ip] = 0]]

\* handle_subscribe; an aggregator without a port of its own is refused.
Subscribe(w, s, refused) ==
  IF refused THEN OnDisconnectLocal(w, s) ELSE [w EXCEPT !.c = [w.c EXCEPT !.snap = ~w.c.closed]]

\* A question to the node, or to that of the aux chain.
Asks(w, name, stage) == [w EXCEPT !.c = [w.c EXCEPT !.asks = w.c.asks \cup {<<name, stage>>}]]

\* handle_authorize up to the question to the node: missing, long, undecodable,
\* blacklisted and reserved names are refused and change nothing.
Authorize(w, name) ==
  IF name = Junk THEN w ELSE Asks(w, name, "node")

Line(w, s, line) ==
  CASE line[1] = "subscribe" -> Subscribe(w, s, line[2])
    [] line[1] = "authorize" -> Authorize(w, line[2])
    [] line[1] = "share"     -> IF w.c.auth THEN Credit(w) ELSE Reject(w, s)
    [] line[1] = "bad"       -> Reject(w, s)

AfterLines(s, batch) ==
  LET after[k \in 0..Len(batch)] == IF k = 0 THEN Here(s) ELSE Line(after[k - 1], s, batch[k])
  IN after[Len(batch)]

OnRead(s, batch) ==
  /\ Reading(s, "lines") /\ Event
  /\ Becomes(s, AfterLines(s, batch))
  /\ UNCHANGED <<process, told>>

\* The worker is known, and its presence recorded.
ComesOnline(w, name, auth, snap) ==
  [w EXCEPT !.c = [w.c EXCEPT !.worker = name, !.said = w.c.said \cup {name}, !.auth = auth, !.snap = snap],
            !.presence = [w.presence EXCEPT ![name] = "online"]]

\* A channel is opened before the node has validated the payout address; only
\* an extended one subscribes and authorizes by itself.
OpenChannel(w, name, extended) ==
  IF name = Junk THEN [w EXCEPT !.c = [w.c EXCEPT !.worker = Junk]]
  ELSE Asks(ComesOnline(w, name, w.c.auth \/ extended, w.c.snap \/ extended), name, "node")

Frame(w, frame) ==
  CASE frame[1] = "setup" -> [w EXCEPT !.c = [w.c EXCEPT !.auth = TRUE, !.snap = TRUE]]
    [] frame[1] = "open"  -> OpenChannel(w, frame[2], frame[3])
    [] frame[1] = "share" -> [w EXCEPT !.c = [w.c EXCEPT !.silent = w.c.silent /\ ~w.c.auth]]

\* process_v2_buffer looks at closed_ before every frame.
AfterFrames(s, batch) ==
  LET after[k \in 0..Len(batch)] ==
        IF k = 0 THEN Here(s)
        ELSE IF after[k - 1].c.closed THEN after[k - 1] ELSE Frame(after[k - 1], batch[k])
  IN after[Len(batch)]

OnFrames(s, batch) ==
  /\ Reading(s, "frames") /\ Event
  /\ Becomes(s, AfterFrames(s, batch))
  /\ UNCHANGED <<process, told>>

(***************************************************************************)
(* The node's answer about a payout name, posted to the strand.            *)
(***************************************************************************)

\* proceed_auth
Proceed(w, name) == ComesOnline(w, name, TRUE, TRUE)

AnsweredLate(w, s, name, stage, ok) ==
  CASE ~ok /\ w.c.v2 -> OnDisconnectLocal(w, s)
    [] ok /\ ~w.c.v2 -> Proceed(w, name)
    [] OTHER         -> w

Answered(w, s, name, stage, ok) ==
  CASE w.c.closed                               -> w
    [] ~w.c.closed /\ ~ok /\ w.c.v2             -> OnDisconnectLocal(w, s)
    [] ~w.c.closed /\ ok /\ ~w.c.v2 /\ Aux /\ stage = "node" ->
         Asks(w, name, "aux")
    [] ~w.c.closed /\ ok /\ ~w.c.v2 /\ (~Aux \/ stage = "aux") -> Proceed(w, name)
    [] OTHER                                    -> w

AuthAnswer(s, name, stage, ok) ==
  /\ OnStrand(s) /\ <<name, stage>> \in conn[s].asks
  /\ LET asks == conn[s].asks \ {<<name, stage>>}
     IN Becomes(s, Answered([Here(s) EXCEPT !.c = [conn[s] EXCEPT !.asks = asks]], s, name, stage, ok))
  /\ UNCHANGED <<process, events, told>>

(***************************************************************************)
(* Orders from outside: posted to the strands.                             *)
(***************************************************************************)

Waits(s, what) == \E k \in 1..Len(mail[s]) : mail[s][k] = what

Posted(who, what) ==
  [s \in S |-> IF s \in who /\ ~conn[s].closed /\ ~Waits(s, what) THEN Append(mail[s], what) ELSE mail[s]]

\* The handlers of shutdown and of requestReconnect.
RunMail(s) ==
  /\ OnStrand(s) /\ mail[s] # <<>>
  /\ \/ /\ Head(mail[s]) \in {"shutdown", "forced"}
        /\ Becomes(s, OnDisconnectLocal([Here(s) EXCEPT !.c = [conn[s] EXCEPT !.by = Head(mail[s])]], s))
        /\ UNCHANGED told
     \/ /\ Head(mail[s]) = "reconnect"
        /\ mail' = [mail EXCEPT ![s] = Tail(@)]
        /\ told' = IF conn[s].v2 THEN told ELSE told \cup {s}
        /\ UNCHANGED <<conn, limiter, shard, presence>>
  /\ UNCHANGED <<process, events>>

\* Longer than idleDropSeconds since the last share, or since the start.
FallsSilent(s) ==
  /\ conn[s].at = "started" /\ ~conn[s].closed /\ ~conn[s].silent /\ Event
  /\ conn' = [conn EXCEPT ![s].silent = TRUE]
  /\ UNCHANGED <<mail, limiter, shard, presence, process, told>>

\* scheduleIdleSweep
VictimsThatMined == {s \in shard : conn[s].snap /\ conn[s].silent /\ conn[s].auth}

Victims == {s \in shard : conn[s].snap /\ conn[s].silent}

IdleSweep ==
  /\ up /\ drain.step \notin {"stopping"}
  /\ mail # Posted(Victims, "shutdown")
  /\ mail' = Posted(Victims, "shutdown")
  /\ UNCHANGED <<conn, limiter, shard, presence, process, events, told>>

\* reconnect, reconnclient, dropclient and dropall of handleControlCommand.
Order(who, what) ==
  /\ up /\ drain.step # "stopping" /\ Event
  /\ who \subseteq shard /\ (who = shard \/ Cardinality(who) = 1)
  /\ what \in {"reconnect", "shutdown"}
  /\ mail' = Posted(who, what)
  /\ UNCHANGED <<conn, limiter, shard, presence, process, told>>

(***************************************************************************)
(* Shutdown: on_signal, beginGracefulShutdown, scheduleDrainWave, stop.    *)
(***************************************************************************)

\* stop
StopAll(list) ==
  /\ listening' = FALSE
  /\ drain' = [drain EXCEPT !.step = "stopping"]
  /\ mail' = Posted(list \cup shard, "forced")

PerWave == LET n == (Cardinality(drain.list) + kWaves - 1) \div kWaves
           IN IF n = 0 THEN 1 ELSE n

FirstSignal ==
  /\ up /\ signals = 0
  /\ signals' = 1
  /\ IF DrainOn
     THEN /\ drain' = [step |-> "waves", list |-> shard, left |-> shard]
          /\ listening' = FALSE
          /\ UNCHANGED mail
     ELSE StopAll({})
  /\ UNCHANGED <<conn, limiter, shard, presence, up, events, told>>

SecondSignal ==
  /\ up /\ signals = 1 /\ DrainOn /\ drain.step # "stopping"
  /\ signals' = 2
  /\ StopAll({})
  /\ UNCHANGED <<conn, limiter, shard, presence, up, events, told>>

TellNobody(wave) == mail

Tell(wave) == Posted(wave, "reconnect")

\* One wave of scheduleDrainWave.
Wave(wave) ==
  /\ up /\ drain.step = "waves"
  /\ wave \subseteq drain.left
  /\ \/ /\ drain.left # {}
        /\ \/ Cardinality(wave) = PerWave
           \/ wave = drain.left /\ Cardinality(wave) < PerWave
     \/ drain.left = {} /\ wave = {}
  /\ mail' = Tell(wave)
  /\ drain' = [drain EXCEPT !.left = @ \ wave, !.step = IF drain.left \ wave = {} THEN "grace" ELSE "waves"]
  /\ UNCHANGED <<conn, limiter, shard, presence, listening, signals, up, events, told>>

GraceEnds ==
  /\ up /\ drain.step = "grace"
  /\ StopAll(drain.list)
  /\ UNCHANGED <<conn, limiter, shard, presence, signals, up, events, told>>

\* IoPool::stop: what is posted and has not run never does.
Halt ==
  /\ up /\ drain.step = "stopping"
  /\ up' = FALSE
  /\ UNCHANGED <<conn, mail, limiter, shard, presence, listening, drain, signals, events, told>>

(***************************************************************************)
(* The specification.                                                      *)
(***************************************************************************)

SessionInit ==
  /\ conn = [s \in S |-> Fresh] /\ mail = [s \in S |-> <<>>]
  /\ open = [a \in Addresses |-> 0] /\ invalid = [a \in Addresses |-> 0] /\ bans = {}
  /\ shard = {} /\ presence = [n \in Names |-> "none"]
  /\ listening = TRUE /\ drain = [step |-> "off", list |-> {}, left |-> {}]
  /\ signals = 0 /\ up = TRUE
  /\ events = 0 /\ told = {}

Accepting ==
  \E s \in S :
     \/ \E tier \in TiersOf[s], ip \in Ips, gone \in BOOLEAN : Admit(s, tier, ip, gone)
     \/ Register(s)
     \/ Place(s)
     \/ \E ip \in Ips, gone \in BOOLEAN : Start(s, ip, gone)

Session(s) ==
  \/ Handshake(s)
  \/ \E text \in BOOLEAN : FirstByte(s, text)
  \/ ReadFails(s)
  \/ \E batch \in LineReads : OnRead(s, batch)
  \/ \E batch \in FrameReads : OnFrames(s, batch)
  \/ \E name \in Workers, stage \in {"node", "aux"}, ok \in BOOLEAN :
       AuthAnswer(s, name, stage, ok)
  \/ FallsSilent(s)
  \/ RunMail(s)

Outside ==
  \/ \E a \in Addresses : BanLapses(a) \/ WindowLapses(a)
  \/ IdleSweep
  \/ \E who \in SUBSET S, what \in {"reconnect", "shutdown"} : Order(who, what)
  \/ FirstSignal
  \/ SecondSignal
  \/ \E wave \in SUBSET S : Wave(wave)
  \/ GraceEnds
  \/ Halt

\* The process has ended.
Ended == ~up /\ UNCHANGED sessionVars

SessionNext == Accepting \/ (\E s \in S : Session(s)) \/ Outside \/ Ended

\* The sweep's timer fires, and what is posted to a strand runs while the contexts run.
Fairness ==
  /\ \A s \in S : WF_sessionVars(RunMail(s))
  /\ WF_sessionVars(IdleSweep)

SessionSpec == SessionInit /\ [][SessionNext]_sessionVars /\ Fairness

(***************************************************************************)
(* Properties.                                                             *)
(***************************************************************************)

\* The members stay within their types, and nobody is in a shard before the
\* accept put it there.
SessionTypes ==
  /\ conn \in [S -> Connections] /\ mail \in [S -> Seq(Orders)]
  /\ open \in [Addresses -> 0..MaxOpen] /\ invalid \in [Addresses -> 0..BanAt - 1]
  /\ bans \subseteq Addresses /\ told \subseteq S
  /\ presence \in [Names -> {"none", "online", "offline"}]
  /\ shard \subseteq {s \in S : conn[s].at \in {"registered", "placed", "started"}}
  /\ drain \in [step : {"off", "waves", "grace", "stopping"}, list : SUBSET S, left : SUBSET S]
  /\ drain.left \subseteq drain.list
  /\ listening \in BOOLEAN /\ up \in BOOLEAN /\ signals \in 0..2

\* A connection takes one slot of the address it was admitted under and gives
\* it back once, whichever of the many ways it ends; the only slots lost are
\* those of connections whose address start could no longer see, or that were
\* closed before start (on_disconnect_local, allow_connection).  (The types are part of it.)
SlotsExact ==
  /\ SessionTypes
  /\ \A a \in Ips :
       open[a] = Cardinality({s \in S : conn[s].counted = a /\ ~(conn[s].closed /\ conn[s].ip = a)})

\* A payout name whose last event is "online" belongs to a connection that is
\* still open, or to one that took another name after announcing it: an answer
\* of the node that arrives after the teardown announces nobody
\* (handle_authorize, on_disconnect_local).
PresenceTruth ==
  \A n \in Workers : presence[n] = "online" =>
    \E s \in S : n \in conn[s].said /\ (~conn[s].closed \/ conn[s].worker # n)

\* A V1 miner of the snapshot is told to reconnect before the end of a drain
\* closes it, unless a second signal cut the drain short (scheduleDrainWave).
ToldBeforeForced ==
  \A s \in drain.list : signals = 1 /\ conn[s].by = "forced" /\ ~conn[s].v2 => s \in told

\* No miner that subscribed stays connected and silent for ever: it is closed, mines again,
\* or the process stops first (scheduleIdleSweep).
SilentReaped ==
  \A s \in S : []<>(conn[s].snap /\ conn[s].silent => conn[s].closed \/ drain.step = "stopping")

\* The comment of scheduleIdleSweep says it of every connection: the silence is
\* "measured from last accepted share, or connect time if the session never
\* submitted".
SilentAlwaysReaped ==
  \A s \in S : (conn[s].at = "started" /\ conn[s].silent)
                 ~> (conn[s].closed \/ ~conn[s].silent \/ drain.step = "stopping")

=============================================================================
