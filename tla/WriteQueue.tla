----------------------------- MODULE WriteQueue -----------------------------
(***************************************************************************)
(* The outbound path of one session: send_line posts to the session's      *)
(* strand, WriteQueue::push queues under a byte watermark and chains one   *)
(* async_write after the other, and on_disconnect_local stops the queue    *)
(* before it closes the socket.  RelaySession uses the same queue the same *)
(* way.                                                                    *)
(*                                                                         *)
(* The socket and its completions are boost::asio's, modelled from how the *)
(* queue uses them: one write at a time, aborted by a close, its handler   *)
(* run later on the strand.                                                *)
(***************************************************************************)
EXTENDS Integers, Sequences

CONSTANTS Sizes,      \* sizes of the lines sent
          HighWater,  \* high_water_
          PeerFails,  \* the peer may reset the connection
          MaxLines    \* bound: lines sent

Lines == [id : 1..MaxLines, size : Sizes]

ASSUME QueueConstants ==
  /\ Sizes \subseteq Nat \ {0}
  /\ HighWater \in Nat
  /\ PeerFails \in BOOLEAN
  /\ MaxLines \in Nat

VARIABLES
  posted,    \* lines send_line has posted and the strand has not yet pushed
  closed,    \* ClientSession::closed_
  stopped,   \* stopped_
  queue,     \* queue_; its front is the line being written
  bytes,     \* queued_bytes_
  writing,   \* writing_
  io,        \* the write in flight: none, pending, or done and not yet handled
  wire,      \* lines handed to the peer
  \* History and bound.
  sent,      \* lines given to send_line
  accepted,  \* lines push has taken
  cleanups,  \* times a disconnect ran its presence, limiter and pool callbacks
  refusals   \* lines sent by a handler that then hung up

queueVars == <<queue, bytes, writing>>
vars == <<posted, closed, stopped, queueVars, io, wire, sent, accepted, cleanups, refusals>>

(***************************************************************************)
(* Teardown.                                                               *)
(***************************************************************************)

\* on_disconnect_local: the exchange on closed_ lets one caller through; it
\* stops the queue, closes the socket, which aborts the write in flight, and
\* runs the callbacks.
OnDisconnectRepeated(flight) ==
  /\ closed' = TRUE
  /\ stopped' = TRUE
  /\ io' = IF flight = "pending" THEN "failed" ELSE flight
  /\ cleanups' = cleanups + 1

OnDisconnectUnstopped(flight) ==
  /\ closed' = TRUE
  /\ UNCHANGED stopped
  /\ io' = IF flight = "pending" THEN "failed" ELSE flight
  /\ cleanups' = IF closed THEN cleanups ELSE cleanups + 1

OnDisconnect(flight) ==
  /\ closed' = TRUE
  /\ stopped' = TRUE
  /\ io' = IF flight = "pending" THEN "failed" ELSE flight
  /\ cleanups' = IF closed THEN cleanups ELSE cleanups + 1

\* shutdown(), a read error or end of file, an oversize buffer.
Close ==
  /\ ~closed
  /\ OnDisconnect(io)
  /\ UNCHANGED <<posted, queueVars, wire, sent, accepted, refusals>>

(***************************************************************************)
(* Sending.                                                                *)
(***************************************************************************)

NewLine(n) == [id |-> sent + 1, size |-> n]

\* send_line, from a handler, a broadcast or an RPC completion.
SendLine(n) ==
  /\ sent < MaxLines
  /\ sent' = sent + 1
  /\ posted' = Append(posted, NewLine(n))
  /\ UNCHANGED <<closed, stopped, queueVars, io, wire, accepted, cleanups, refusals>>

\* handle_subscribe's aggregator gate and the ban for invalid shares: the
\* handler sends its error line and hangs up before it returns.
Refuse(n) ==
  /\ sent < MaxLines /\ ~closed
  /\ sent' = sent + 1
  /\ posted' = Append(posted, NewLine(n))
  /\ refusals' = refusals \cup {NewLine(n)}
  /\ OnDisconnect(io)
  /\ UNCHANGED <<queueVars, wire, accepted>>

\* The posted handler: WriteQueue::push, which refuses after stop, hangs up
\* above the watermark, and starts the chain when no write is in flight.
AcceptRestarting(m) ==
  /\ accepted' = Append(accepted, m)
  /\ queue' = Append(queue, m)
  /\ bytes' = bytes + m.size
  /\ writing' = TRUE
  /\ io' = "pending"
  /\ UNCHANGED <<closed, stopped, cleanups>>

Accept(m) ==
  /\ accepted' = Append(accepted, m)
  /\ queue' = Append(queue, m)
  /\ bytes' = bytes + m.size
  /\ writing' = TRUE
  /\ io' = IF writing THEN io ELSE "pending"
  /\ UNCHANGED <<closed, stopped, cleanups>>

Overflow(m) ==
  /\ bytes' = bytes + m.size
  /\ OnDisconnect(io)
  /\ UNCHANGED <<accepted, queue, writing>>

Push ==
  /\ posted # << >>
  /\ posted' = Tail(posted)
  /\ LET m == Head(posted) IN
     \/ stopped /\ UNCHANGED <<closed, stopped, queueVars, io, accepted, cleanups>>
     \/ ~stopped /\ bytes + m.size > HighWater /\ Overflow(m)
     \/ ~stopped /\ bytes + m.size <= HighWater /\ Accept(m)
  /\ UNCHANGED <<wire, sent, refusals>>

(***************************************************************************)
(* The socket, and the completion handler of a write.                      *)
(***************************************************************************)

WriteDone ==
  /\ io = "pending"
  /\ io' = "done"
  /\ wire' = Append(wire, queue[1])
  /\ UNCHANGED <<posted, closed, stopped, queueVars, sent, accepted, cleanups, refusals>>

WriteFails ==
  /\ io = "pending" /\ PeerFails
  /\ io' = "failed"
  /\ UNCHANGED <<posted, closed, stopped, queueVars, wire, sent, accepted, cleanups, refusals>>

\* Success: unless the session was torn down meanwhile, take the line off the
\* front and write the next one.
PopThenIdle ==
  /\ queue' = Tail(queue)
  /\ bytes' = bytes - queue[1].size
  /\ writing' = FALSE
  /\ io' = "none"

PopForgettingBytes ==
  /\ queue' = Tail(queue)
  /\ UNCHANGED bytes
  /\ writing' = (Len(queue) > 1)
  /\ io' = IF Len(queue) > 1 THEN "pending" ELSE "none"

PopAndChain ==
  /\ queue' = Tail(queue)
  /\ bytes' = bytes - queue[1].size
  /\ writing' = (Len(queue) > 1)
  /\ io' = IF Len(queue) > 1 THEN "pending" ELSE "none"

OnWritten ==
  /\ io = "done"
  /\ IF stopped \/ queue = << >>
       THEN /\ writing' = FALSE /\ io' = "none"
            /\ UNCHANGED <<queue, bytes>>
       ELSE PopAndChain
  /\ UNCHANGED <<posted, closed, stopped, wire, sent, accepted, cleanups, refusals>>

\* Failure: the drop handler hangs up; already hung up, it does nothing.
OnFailed ==
  /\ io = "failed"
  /\ writing' = FALSE
  /\ OnDisconnect("none")
  /\ UNCHANGED <<posted, queue, bytes, wire, sent, accepted, refusals>>

Init ==
  /\ posted = << >> /\ closed = FALSE /\ stopped = FALSE
  /\ queue = << >> /\ bytes = 0 /\ writing = FALSE /\ io = "none"
  /\ wire = << >> /\ sent = 0 /\ accepted = << >>
  /\ cleanups = 0 /\ refusals = {}

Strand == Push \/ OnWritten \/ OnFailed
Socket == WriteDone \/ WriteFails

Next == \/ \E n \in Sizes : SendLine(n) \/ Refuse(n)
        \/ Close \/ Strand \/ Socket

\* The io threads run the strand, and a write in flight ends.
Spec == Init /\ [][Next]_vars /\ WF_vars(Strand) /\ WF_vars(Socket)

(***************************************************************************)
(* Properties.                                                             *)
(***************************************************************************)

\* The watermark of a live session measures exactly what it has queued.
IsTotalSize(q, b) ==
  \E total \in [0..Len(q) -> 0..b] :
    /\ total[0] = 0 /\ total[Len(q)] = b
    /\ \A i \in 1..Len(q) : total[i] = total[i - 1] + q[i].size
WatermarkExact ==
  ~stopped => IsTotalSize(queue, bytes) /\ bytes <= HighWater

\* Every variable keeps its type, and the byte count is that of the queue: a
\* leak would close healthy sessions, an overpayment let a slow reader grow it.
TypeOK ==
  /\ posted \in Seq(Lines) /\ queue \in Seq(Lines)
  /\ wire \in Seq(Lines) /\ accepted \in Seq(Lines)
  /\ closed \in BOOLEAN /\ stopped \in BOOLEAN /\ writing \in BOOLEAN
  /\ bytes \in Nat /\ WatermarkExact /\ sent \in 0..MaxLines
  /\ io \in {"none", "pending", "done", "failed"}
  /\ cleanups \in Nat
  /\ refusals \subseteq Lines

\* An accepted line of a live session never waits without a write in flight,
\* and a write in flight never outlives the line it points into.
ChainUnbroken ==
  /\ ~stopped => (queue # << >> <=> io # "none") /\ (writing <=> io # "none")
  /\ io = "pending" => ~stopped /\ queue # << >>

\* However a watermark, a failed write, a read error and a shutdown coincide,
\* the connection is released once: one limiter decrement, one offline record.
CleanedUpOnce == cleanups = (IF closed THEN 1 ELSE 0)

\* No write is ever started on a socket that is being closed.
NoWriteAfterClose == [][io' = "pending" /\ io # "pending" => ~closed']_vars

\* The whole path keeps the outbox promise: in order, once, nothing after a
\* hang-up.
Path == INSTANCE Outbox WITH
  pending <- SubSeq(accepted, Len(wire) + 1, Len(accepted)), open <- ~closed
OutboxPromise == Path!Spec

\* A session that stays open gets every line it sent through to the peer.
AllDelivered == [](sent > 0 => <>(closed \/ Len(wire) = sent))

\* "Send a stratum error and tear down the connection so the upstream proxy
\* reroutes": the line of a refusal reaches the peer before the path falls idle.
RefusalIsSent ==
  posted = << >> /\ io = "none" => \A m \in refusals : \E i \in DOMAIN wire : wire[i] = m
=============================================================================
