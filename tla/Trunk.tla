------------------------------- MODULE Trunk -------------------------------
(***************************************************************************)
(* The cluster: an edge relays the lines of its miners over one connection *)
(* to the origin, ClusterTrunk on its side and ClusterIngestSession on the *)
(* other, which opens a loopback connection to its own stratum port for    *)
(* each miner.  A miner is known by its cid, which is never used again.    *)
(*                                                                         *)
(* The trunk's handlers run on its strand; a miner's session registers     *)
(* under mu_ and posts its frames to that strand, where they wait behind   *)
(* whatever is posted there.  A lost connection loses what is on the wire. *)
(***************************************************************************)
EXTENDS Integers, Sequences, FiniteSetsExt, SequencesExt

CONSTANTS
  Miners,     \* the miners of an edge, one cid each
  Nobody,     \* the cid 0
  OutCap,     \* frames kept for the welcome (100000)
  PendCap,    \* lines kept for the loopback connection (64)
  NodeRole,   \* the edge is a node: it submits the blocks the origin finds
  MaxLines,   \* bound: lines the miners send
  MaxSaid,    \* bound: lines the pool sends them
  MaxBlocks,  \* bound: blocks of the origin's node
  MaxDrops    \* bound: lost connections, refusals, and the stop

ASSUME TrunkConstants ==
  /\ Nobody \notin Miners /\ OutCap \in Nat /\ PendCap \in Nat /\ NodeRole \in BOOLEAN
  /\ MaxLines \in Nat /\ MaxSaid \in Nat /\ MaxBlocks \in Nat /\ MaxDrops \in Nat

VARIABLES
  running,   \* running_
  conn,      \* the uplink: "down", "dialing", "up", or closed and on_close not run yet
  welcomed,  \* welcomed_
  sessions,  \* sessions_: the cids that have a miner
  posted,    \* send_frame handlers on the trunk's strand
  out,       \* pending_out_
  up, down,  \* frames on the wire
  E,         \* the edge sessions: sent counts the miner's lines, heard the pool's,
             \* dropped: the trunk let go of it, discarded: a frame of it was
  hello,     \* hello_ok_ of the trunk's session at the origin
  bridge,    \* clients_, with each one's pending lines; got: lines the pool has read
  got,
  blocks,    \* found by the origin's node, and submitted to the edge's
  drops

vars == <<running, conn, welcomed, sessions, posted, out, up, down, E, hello, bridge, got, blocks, drops>>
origin == <<hello, bridge, got>>

\* line numbers a miner's lines, the pool's, or the blocks.
Frame(t, c, line) == [t |-> t, cid |-> c, line |-> line]
Word(t) == Frame(t, Nobody, 0)
NoBridge == [at |-> "none", pending |-> <<>>]

Drop == drops < MaxDrops /\ drops' = drops + 1

(***************************************************************************)
(* A miner's session at the edge.                                          *)
(***************************************************************************)

\* The bounds on what miners and the pool say.
LinesLeft == MapThenSumSet(LAMBDA x : E[x].sent, Miners) < MaxLines
AnswersLeft == MapThenSumSet(LAMBDA x : E[x].said, Miners) < MaxSaid

\* on_open with attach: the cid is registered, and the announcement posted.
AttachMiner(c) ==
  /\ E[c].at = "new"
  /\ E' = [E EXCEPT ![c].at = "open"]
  /\ sessions' = sessions \cup {c} /\ posted' = Append(posted, Frame("open", c, 0))
  /\ UNCHANGED <<running, conn, welcomed, out, up, down, origin, blocks, drops>>

MinerLine(c) ==
  /\ E[c].at = "open" /\ LinesLeft
  /\ E' = [E EXCEPT ![c].sent = @ + 1]
  /\ posted' = Append(posted, Frame("data", c, E[c].sent + 1))
  /\ UNCHANGED <<running, conn, welcomed, sessions, out, up, down, origin, blocks, drops>>

\* on_closed with detach: only a cid still registered is announced as closed.
Detach(c) ==
  /\ sessions' = sessions \ {c}
  /\ posted' = IF c \in sessions THEN Append(posted, Frame("close", c, 0)) ELSE posted
MinerGone(c) ==
  /\ E[c].at = "open"
  /\ E' = [E EXCEPT ![c].at = "closed", ![c].shut = FALSE]
  /\ Detach(c)
  /\ UNCHANGED <<running, conn, welcomed, out, up, down, origin, blocks, drops>>

\* The handler posted by shutdown.
ShutDown(c) == E[c].shut /\ MinerGone(c)

(***************************************************************************)
(* ClusterTrunk.                                                           *)
(***************************************************************************)

Discarded(f) == [E EXCEPT ![f.cid].discarded = TRUE]

RunPostedUncapped ==
  /\ posted # <<>> /\ posted' = Tail(posted)
  /\ IF welcomed THEN up' = Append(up, Head(posted)) /\ UNCHANGED out
     ELSE out' = Append(out, Head(posted)) /\ UNCHANGED up
  /\ UNCHANGED <<running, conn, welcomed, sessions, down, E, origin, blocks, drops>>

\* send_frame's posted handler.  A frame for a connection that is closed and not
\* yet forgotten is lost with it.
RunPosted ==
  /\ posted # <<>> /\ posted' = Tail(posted)
  /\ LET f == Head(posted) IN
     IF ~running \/ (welcomed /\ conn = "closing") THEN UNCHANGED <<up, out, E>>
     ELSE IF welcomed THEN up' = Append(up, f) /\ UNCHANGED <<out, E>>
     ELSE IF Len(out) < OutCap THEN out' = Append(out, f) /\ UNCHANGED <<up, E>>
     ELSE E' = Discarded(f) /\ UNCHANGED <<up, out>>
  /\ UNCHANGED <<running, conn, welcomed, sessions, down, origin, blocks, drops>>

\* connect, at the start and when the reconnect timer fires.
Connect ==
  /\ running /\ conn = "down"
  /\ conn' = "dialing" /\ welcomed' = FALSE
  /\ UNCHANGED <<running, sessions, posted, out, up, down, E, origin, blocks, drops>>

\* on_open: the hello is the first frame; the origin has a new session for it.
Connected ==
  /\ conn = "dialing"
  /\ conn' = "up" /\ up' = <<Word("hello")>>
  /\ UNCHANGED <<running, welcomed, sessions, posted, out, down, E, origin, blocks, drops>>

\* The connection is lost, refused with a "bye", or cannot be made.  The origin's
\* session closes every loopback connection it had.
Severed ==
  /\ conn' = "closing" /\ up' = <<>> /\ down' = <<>>
  /\ hello' = FALSE /\ bridge' = [c \in Miners |-> NoBridge]
LoseTrunk ==
  /\ conn \in {"dialing", "up"} /\ Drop /\ Severed
  /\ UNCHANGED <<running, welcomed, sessions, posted, out, E, got, blocks>>

\* drop_all_sessions: every miner is shut down, and none is registered any more.
DropAll ==
  /\ E' = [c \in Miners |-> IF c \in sessions THEN [E[c] EXCEPT !.shut = TRUE, !.dropped = TRUE] ELSE E[c]]
  /\ sessions' = {}
OnCloseKeepingMiners ==
  /\ conn = "closing"
  /\ conn' = "down" /\ welcomed' = FALSE /\ out' = <<>>
  /\ UNCHANGED <<running, sessions, posted, up, down, E, origin, blocks, drops>>

OnClose ==
  /\ conn = "closing"
  /\ conn' = "down" /\ welcomed' = FALSE /\ out' = <<>> /\ DropAll
  /\ UNCHANGED <<running, posted, up, down, origin, blocks, drops>>

\* stop: its posted handler closes the connection; on_close then does not reconnect.
Stop ==
  /\ running /\ Drop /\ running' = FALSE /\ DropAll /\ out' = <<>>
  /\ IF conn \in {"dialing", "up"} THEN Severed ELSE UNCHANGED <<conn, up, down, hello, bridge>>
  /\ UNCHANGED <<welcomed, posted, got, blocks>>

\* on_frame
OnWelcome ==
  /\ welcomed' = TRUE /\ up' = up \o out /\ out' = <<>>
  /\ UNCHANGED <<sessions, E, blocks>>
OnData(f) ==
  /\ E' = IF f.cid \in sessions THEN [E EXCEPT ![f.cid].heard = @ + 1] ELSE E
  /\ UNCHANGED <<welcomed, up, out, sessions, blocks>>
OnCloseFrame(f) ==
  /\ E' = IF f.cid \in sessions THEN [E EXCEPT ![f.cid].shut = TRUE] ELSE E
  /\ sessions' = sessions \ {f.cid}
  /\ UNCHANGED <<welcomed, up, out, blocks>>
SubmitBlock ==
  /\ blocks' = [blocks EXCEPT !.submitted = IF NodeRole THEN @ + 1 ELSE @]
  /\ UNCHANGED <<welcomed, up, out, sessions, E>>
OnFrame ==
  /\ down # <<>> /\ down' = Tail(down)
  /\ LET f == Head(down) IN
     \/ f.t = "welcome" /\ OnWelcome
     \/ f.t = "data" /\ OnData(f)
     \/ f.t = "close" /\ OnCloseFrame(f)
     \/ f.t = "block" /\ SubmitBlock
  /\ UNCHANGED <<running, conn, posted, origin, drops>>

(***************************************************************************)
(* ClusterIngestSession and the block relay at the origin.                 *)
(***************************************************************************)

edge == <<running, conn, welcomed, sessions, posted, out>>

\* handle_hello; a refusal is LoseTrunk.
HandleHello == hello' = TRUE /\ down' = Append(down, Word("welcome")) /\ UNCHANGED <<bridge, got, E>>

OpenClient(c) ==
  /\ bridge' = IF bridge[c].at = "none" THEN [bridge EXCEPT ![c].at = "connecting"] ELSE bridge
  /\ UNCHANGED <<hello, down, got, E>>

\* client_data: a line of an unknown miner is ignored, and one too many before the
\* loopback connection is made is thrown away.
ClientData(f) ==
  LET b == bridge[f.cid] IN
  /\ bridge' = IF b.at = "connecting" /\ Len(b.pending) < PendCap
               THEN [bridge EXCEPT ![f.cid].pending = Append(@, f.line)] ELSE bridge
  /\ got' = IF b.at = "connected" THEN [got EXCEPT ![f.cid] = Append(@, f.line)] ELSE got
  /\ E' = IF b.at = "connecting" /\ Len(b.pending) >= PendCap THEN Discarded(f) ELSE E
  /\ UNCHANGED <<hello, down>>

\* close_client, when the edge asked for it.
CloseClient(c) == bridge' = [bridge EXCEPT ![c] = NoBridge] /\ UNCHANGED <<hello, down, got, E>>

OnLine ==
  /\ up # <<>> /\ up' = Tail(up)
  /\ LET f == Head(up) IN
     \/ f.t = "hello" /\ HandleHello
     \/ f.t = "open" /\ OpenClient(f.cid)
     \/ f.t = "data" /\ ClientData(f)
     \/ f.t = "close" /\ CloseClient(f.cid)
  /\ UNCHANGED <<edge, blocks, drops>>

LoopbackConnectedUnflushed(c) ==
  /\ bridge[c].at = "connecting" /\ bridge' = [bridge EXCEPT ![c].at = "connected"]
  /\ UNCHANGED <<edge, up, down, E, hello, got, blocks, drops>>

LoopbackConnected(c) ==
  /\ bridge[c].at = "connecting"
  /\ bridge' = [bridge EXCEPT ![c] = [at |-> "connected", pending |-> <<>>]]
  /\ got' = [got EXCEPT ![c] = @ \o bridge[c].pending]
  /\ UNCHANGED <<edge, up, down, E, hello, blocks, drops>>

\* A line of the pool for the miner.
LoopbackLine(c) ==
  /\ bridge[c].at = "connected" /\ AnswersLeft
  /\ E' = [E EXCEPT ![c].said = @ + 1]
  /\ down' = Append(down, Frame("data", c, E[c].said + 1))
  /\ UNCHANGED <<edge, up, origin, blocks, drops>>

\* The pool hung up on the miner, or could not be reached: close_client tells the edge.
LoopbackClosed(c) ==
  /\ bridge[c].at # "none"
  /\ bridge' = [bridge EXCEPT ![c] = NoBridge] /\ down' = Append(down, Frame("close", c, 0))
  /\ UNCHANGED <<edge, up, E, hello, got, blocks, drops>>

\* on_rawblock: to the trunks that said they are nodes.
OnRawblock ==
  /\ blocks.found < MaxBlocks
  /\ blocks' = [blocks EXCEPT !.found = @ + 1]
  /\ down' = IF hello /\ NodeRole THEN Append(down, Frame("block", Nobody, blocks.found + 1)) ELSE down
  /\ UNCHANGED <<edge, up, E, origin, drops>>

(***************************************************************************)
(* The specification.                                                      *)
(***************************************************************************)

Init ==
  /\ running = TRUE /\ conn = "down" /\ welcomed = FALSE /\ sessions = {}
  /\ posted = <<>> /\ out = <<>> /\ up = <<>> /\ down = <<>>
  /\ E = [c \in Miners |-> [at |-> "new", shut |-> FALSE, dropped |-> FALSE, discarded |-> FALSE,
                            sent |-> 0, said |-> 0, heard |-> 0]]
  /\ hello = FALSE /\ bridge = [c \in Miners |-> NoBridge] /\ got = [c \in Miners |-> <<>>]
  /\ blocks = [found |-> 0, submitted |-> 0] /\ drops = 0

Next ==
  \/ RunPosted \/ Connect \/ Connected \/ LoseTrunk \/ OnClose \/ Stop \/ OnFrame \/ OnLine \/ OnRawblock
  \/ \E c \in Miners : \/ AttachMiner(c) \/ MinerLine(c) \/ MinerGone(c) \/ ShutDown(c)
                       \/ LoopbackConnected(c) \/ LoopbackLine(c) \/ LoopbackClosed(c)

Spec == Init /\ [][Next]_vars

(***************************************************************************)
(* Properties.                                                             *)
(***************************************************************************)

\* The type of every variable; neither buffer outgrows its cap, and the edge's node is
\* given no more blocks than the origin's found.
TypeOK ==
  LET Frames == [t : {"hello", "welcome", "open", "data", "close", "block"},
                 cid : Miners \cup {Nobody}, line : Nat] IN
  /\ running \in BOOLEAN /\ conn \in {"down", "dialing", "up", "closing"} /\ welcomed \in BOOLEAN
  /\ sessions \subseteq Miners
  /\ \A q \in {posted, out, up, down} : q \in Seq(Frames)
  /\ Len(out) <= OutCap
  /\ E \in [Miners -> [at : {"new", "open", "closed"}, shut : BOOLEAN, dropped : BOOLEAN, discarded : BOOLEAN,
                       sent : Nat, said : Nat, heard : Nat]]
  /\ hello \in BOOLEAN
  /\ bridge \in [Miners -> [at : {"none", "connecting", "connected"}, pending : Seq(Nat)]]
  /\ \A c \in Miners : Len(bridge[c].pending) <= PendCap
  /\ got \in [Miners -> Seq(Nat)]
  /\ blocks \in [found : 0..MaxBlocks, submitted : Nat] /\ blocks.submitted <= blocks.found
  /\ drops \in 0..MaxDrops

\* Nothing is on its way to or from miner c: the trunk serves and its buffers are empty.
AtRest(c) ==
  /\ running /\ conn = "up" /\ welcomed /\ posted = <<>> /\ up = <<>> /\ down = <<>>
  /\ ~E[c].shut

\* Nobody is left talking to nothing: once all is at rest, a miner of the edge has its
\* loopback connection at the origin, and such a connection has its miner.  Excepted are
\* miners of whom a full buffer threw a frame away, and a miner dropped while its
\* announcement waited on the strand behind the loss of the connection, which it outlives.
EndsMatch ==
  \A c \in Miners :
    (AtRest(c) /\ ~E[c].discarded) =>
      /\ E[c].at = "open" => bridge[c].at # "none"
      /\ bridge[c].at # "none" => E[c].at = "open" \/ E[c].dropped

\* Through both buffers, a welcome in between and a loopback connection that is late, the
\* pool reads a miner's lines in their order, none twice and none missing in the middle;
\* at rest it has read all of them.
LinesRelayed ==
  \A c \in Miners :
    ~E[c].discarded =>
      /\ got[c] = [i \in 1..Len(got[c]) |-> i]
      /\ (AtRest(c) /\ E[c].at = "open" /\ bridge[c].at = "connected") => Len(got[c]) = E[c].sent
=============================================================================
