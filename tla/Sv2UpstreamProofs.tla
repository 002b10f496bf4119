------------------------- MODULE Sv2UpstreamProofs -------------------------
(***************************************************************************)
(* What holds of the V2 upstream client for any number of sessions, jobs,  *)
(* shares and failures, and any length of its windows.                     *)
(***************************************************************************)
EXTENDS Sv2Upstream, SequenceTheorems, FiniteSetTheorems, TLAPS

(***************************************************************************)
(* A stopped link stays down.                                              *)
(***************************************************************************)

Handlers == [do : {"connect", "stop", "submit", "push"}, frame : {"none", "setup", "open", "share"},
             share : Shares \cup {None}]
Ends == {"pending", "done", "failed"}
Connections ==
  [connected : BOOLEAN, open : BOOLEAN, sock : BOOLEAN, timer : BOOLEAN, writing : BOOLEAN,
   op : {"none", "resolve", "connect", "done", "failed"}, read : {"none", "pending", "failed"},
   wq : Seq(Handlers), writes : Seq(Ends)]

\* Nothing is under way from which the socket could be opened.
Down(d) == d.op \notin {"resolve", "connect"} /\ ~d.open /\ ~d.sock /\ d.read # "pending"

DownInv ==
  /\ c \in Connections /\ strand \in Seq(Handlers)
  /\ stopped \in {"no", "posted", "done", "late"}
  /\ stopped = "done" => Down(c)

LEMMA Handlers1 ==
  ASSUME NEW x \in Shares \cup {None}
  PROVE  /\ \A do \in {"connect", "stop", "submit"} : Handler(do, x) \in Handlers
         /\ \A frame \in {"setup", "open", "share"} : Push(frame, x) \in Handlers
BY DEF Handlers, Handler, Push

LEMMA DownInit == Init => DownInv
<1> SUFFICES ASSUME Init  PROVE DownInv
  OBVIOUS
<1>1. <<Handler("connect", None)>> \in Seq(Handlers)
  BY Handlers1
<1>2. <<>> \in Seq(Handlers) /\ <<>> \in Seq(Ends)
  OBVIOUS
<1>3. c \in Connections
  BY <1>2 DEF Init, Connections
<1> QED  BY <1>1, <1>3 DEF Init, DownInv

LEMMA WritingTyped ==
  ASSUME NEW d \in Connections
  PROVE  Writing(d) \in Connections /\ (Down(d) => Down(Writing(d)))
<1> DEFINE more == Append(d.writes, IF d.sock THEN "pending" ELSE "failed")
<1>1. d.writes \in Seq(Ends)
  BY DEF Connections
<1>2. more \in Seq(Ends)
  BY <1>1 DEF Ends
<1>3. Writing(d) = [d EXCEPT !.writing = TRUE, !.writes = more]
  BY DEF Writing, Connections
<1> HIDE DEF more
<1> QED  BY <1>2, <1>3, ZenonT(60) DEF Connections, Down

LEMMA EndFirstTyped ==
  ASSUME NEW d \in Connections, NEW end \in Ends
  PROVE  /\ EndFirst(d, end) \in Connections
         /\ Down(d) => Down(EndFirst(d, end))
<1> DEFINE ends == [i \in DOMAIN d.writes |-> IF i = 1 THEN end ELSE d.writes[i]]
<1>1. ends \in Seq(Ends)
  <2>1. d.writes \in Seq(Ends)
    BY DEF Connections
  <2> QED  BY <2>1 DEF Ends
<1>2. EndFirst(d, end) = [d EXCEPT !.writes = ends]
  BY DEF EndFirst, Connections
<1> HIDE DEF ends
<1> QED  BY <1>1, <1>2, ZenonT(60) DEF Connections, Down

LEMMA TornDownTyped ==
  ASSUME NEW d \in Connections
  PROVE  /\ TornDown(d) \in Connections
         /\ d.op # "resolve" => Down(TornDown(d))
<1> DEFINE ends == [i \in DOMAIN d.writes |-> IF d.writes[i] = "pending" THEN "failed" ELSE d.writes[i]]
<1>1. ends \in Seq(Ends)
  <2>1. d.writes \in Seq(Ends)
    BY DEF Connections
  <2> QED  BY <2>1 DEF Ends
<1>2. <<>> \in Seq(Handlers)
  OBVIOUS
<1> HIDE DEF ends
<1>3. TornDown(d) =
        [d EXCEPT !.connected = FALSE, !.open = FALSE, !.sock = FALSE, !.wq = <<>>, !.writing = FALSE,
                  !.timer = d.timer \/ Running, !.op = IF d.op = "connect" THEN "failed" ELSE d.op,
                  !.read = IF d.read = "pending" THEN "failed" ELSE d.read, !.writes = ends]
  BY DEF TornDown, ends, Connections
<1> QED  BY <1>1, <1>2, <1>3, ZenonT(60) DEF Connections, Down, Running

LEMMA TeardownDown ==
  ASSUME c \in Connections, NEW d \in Connections, Teardown(d), d.op # "resolve"
  PROVE  c' \in Connections /\ Down(c')
BY TornDownTyped DEF Teardown

LEMMA TailTyped == ASSUME strand \in Seq(Handlers), strand # <<>>
                   PROVE  Head(strand) \in Handlers /\ Tail(strand) \in Seq(Handlers)
OBVIOUS

LEMMA DownNext == DownInv /\ [Next]_vars => DownInv'
<1> SUFFICES ASSUME DownInv, [Next]_vars  PROVE DownInv'
  OBVIOUS
<1>a. /\ c \in Connections /\ strand \in Seq(Handlers)
      /\ stopped \in {"no", "posted", "done", "late"}
      /\ stopped = "done" => Down(c)
  BY DEF DownInv
<1>b. ASSUME c' \in Connections, strand' \in Seq(Handlers), stopped' = stopped, stopped = "done" => Down(c')
      PROVE  DownInv'
  BY <1>a, <1>b DEF DownInv
<1>c. ASSUME UNCHANGED <<c, strand, stopped>>  PROVE DownInv'
  BY <1>a, <1>c DEF DownInv
<1>1. CASE UNCHANGED vars
  BY <1>1, <1>c DEF vars
<1>2. CASE Strand
  <2>1. CASE ConnectPosted
    <3>1. c' \in Connections /\ (stopped = "done" => Down(c'))
      BY <2>1, <1>a, ZenonT(60) DEF ConnectPosted, Connect, Running, Connections, Down
    <3> QED  BY <2>1, <3>1, <1>a, <1>b, TailTyped DEF ConnectPosted, Runs
  <2>2. CASE StopPosted
    <3>1. c' \in Connections /\ (c.op # "resolve" => Down(c'))
      BY <2>2, <1>a, TornDownTyped DEF StopPosted, Teardown
    <3> QED  BY <2>2, <3>1, <1>a, TailTyped DEF StopPosted, Runs, DownInv
  <2>3. CASE SubmitPosted
    <3>1. strand # <<>> /\ Head(strand) \in Handlers /\ Tail(strand) \in Seq(Handlers)
      BY <2>3, <1>a, TailTyped DEF SubmitPosted, Runs
    <3>2. CASE c.connected
      <4>1. Head(strand).share \in Shares \cup {None}
        BY <3>1 DEF Handlers
      <4>2. Push("share", Head(strand).share) \in Handlers
        BY <4>1, Handlers1
      <4>3. strand' = Append(Tail(strand), Push("share", Head(strand).share))
        BY <2>3, <3>2 DEF SubmitPosted
      <4>4. strand' \in Seq(Handlers)
        BY <3>1, <4>2, <4>3
      <4> QED  BY <2>3, <4>4, <1>a, <1>b DEF SubmitPosted
    <3>3. CASE ~c.connected
      <4>1. strand' = Tail(strand)
        BY <2>3, <3>3 DEF SubmitPosted
      <4> QED  BY <2>3, <3>1, <4>1, <1>a, <1>b DEF SubmitPosted
    <3> QED  BY <3>2, <3>3
  <2>4. CASE PushFrame
    <3> DEFINE d == [c EXCEPT !.wq = Append(c.wq, Head(strand))]
    <3>0. c.wq \in Seq(Handlers) /\ Head(strand) \in Handlers
      BY <2>4, <1>a, TailTyped DEF PushFrame, Runs, Connections
    <3>00. Append(c.wq, Head(strand)) \in Seq(Handlers)
      BY <3>0
    <3>1. d \in Connections /\ (Down(c) => Down(d))
      BY <3>00, <1>a, ZenonT(60) DEF Connections, Down
    <3>2. c' = IF c.writing THEN d ELSE Writing(d)
      BY <2>4, <1>a DEF PushFrame, Connections
    <3> HIDE DEF d
    <3>3. c' \in Connections /\ (stopped = "done" => Down(c'))
      BY <1>a, <3>1, <3>2, WritingTyped
    <3> QED  BY <2>4, <3>3, <1>a, <1>b, TailTyped DEF PushFrame, Runs
  <2>5. CASE TimerFires
    <3>1. c' \in Connections /\ (stopped = "done" => Down(c'))
      BY <2>5, <1>a, ZenonT(60) DEF TimerFires, Connect, Running, Connections, Down
    <3> QED  BY <2>5, <3>1, <1>a, <1>b DEF TimerFires
  <2>6. CASE Resolved
    <3>1. c' \in Connections /\ (stopped = "done" => Down(c'))
      BY <2>6, <1>a, SMTT(40) DEF Resolved, Connections, Down
    <3> QED  BY <2>6, <3>1, <1>a, <1>b DEF Resolved
  <2>7. CASE ResolveFails
    <3>1. [c EXCEPT !.op = "none"] \in Connections /\ [c EXCEPT !.op = "none"].op # "resolve"
      BY <1>a DEF Connections
    <3> QED  BY <2>7, <3>1, <1>a, <1>b, TeardownDown DEF ResolveFails
  <2>8. CASE Connected
    <3>1. c' \in Connections /\ (stopped = "done" => Down(c'))
      BY <2>8, <1>a, ZenonT(60) DEF Connected, Connections, Down
    <3>2. strand' \in Seq(Handlers)
      BY <2>8, <1>a, Handlers1 DEF Connected
    <3> QED  BY <2>8, <3>1, <3>2, <1>a, <1>b DEF Connected
  <2>9. CASE ConnectFails
    <3>1. [c EXCEPT !.op = "none"] \in Connections /\ [c EXCEPT !.op = "none"].op # "resolve"
      BY <1>a DEF Connections
    <3> QED  BY <2>9, <3>1, <1>a, <1>b, TeardownDown DEF ConnectFails
  <2>10. CASE WriteEnds
    <3> DEFINE d == [c EXCEPT !.writes = Tail(c.writes)]
               e == [c EXCEPT !.writes = Tail(c.writes), !.wq = <<>>, !.writing = FALSE]
               f == [c EXCEPT !.writes = Tail(c.writes), !.wq = Tail(c.wq)]
    <3>0. c.wq \in Seq(Handlers) /\ c.writes \in Seq(Ends) /\ c.writes # <<>>
      BY <2>10, <1>a DEF WriteEnds, Connections
    <3>00. /\ Tail(c.writes) \in Seq(Ends) /\ <<>> \in Seq(Handlers)
           /\ c.wq # <<>> => Tail(c.wq) \in Seq(Handlers)
      BY <3>0
    <3>1. /\ e \in Connections /\ (Down(c) => Down(e))
          /\ c.wq # <<>> => f \in Connections /\ (Down(c) => Down(f))
      BY <3>00, <1>a, ZenonT(60) DEF Connections, Down
    <3>2. c' = c \/ c' = e \/ (c.wq # <<>> /\ c' = Writing(f))
      BY <2>10, <1>a DEF WriteEnds, Connections
    <3> HIDE DEF e, f
    <3>3. c' \in Connections /\ (stopped = "done" => Down(c'))
      BY <1>a, <3>1, <3>2, WritingTyped
    <3> QED  BY <2>10, <3>3, <1>a, <1>b DEF WriteEnds
  <2>11. CASE WriteFails
    <3> DEFINE d == [c EXCEPT !.writes = Tail(c.writes), !.writing = FALSE]
    <3>1. d \in Connections /\ d.op = c.op
      <4>1. c.writes \in Seq(Ends) /\ c.writes # <<>>
        BY <2>11, <1>a DEF WriteFails, Connections
      <4>2. Tail(c.writes) \in Seq(Ends)
        BY <4>1
      <4> QED  BY <4>2, <1>a DEF Connections
    <3>2. c' = TornDown(d)
      BY <2>11, <1>a DEF WriteFails, Teardown
    <3> HIDE DEF d
    <3>3. c' \in Connections /\ (stopped = "done" => Down(c'))
      BY <1>a, <3>1, <3>2, TornDownTyped DEF Down
    <3> QED  BY <2>11, <3>3, <1>a, <1>b DEF WriteFails
  <2>12. CASE ReadFails
    <3> DEFINE d == [c EXCEPT !.read = "none"]
    <3>1. d \in Connections /\ d.op = c.op
      BY <1>a DEF Connections
    <3>2. c' = TornDown(d)
      BY <2>12, <1>a DEF ReadFails, Teardown
    <3> HIDE DEF d
    <3>3. c' \in Connections /\ (stopped = "done" => Down(c'))
      BY <1>a, <3>1, <3>2, TornDownTyped DEF Down
    <3> QED  BY <2>12, <3>3, <1>a, <1>b DEF ReadFails
  <2>13. CASE Broadcast \/ NotifyWaiters
    BY <2>13, <1>c DEF Broadcast, NotifyWaiters
  <2> QED  BY <1>2, <2>1, <2>2, <2>3, <2>4, <2>5, <2>6, <2>7, <2>8, <2>9, <2>10, <2>11, <2>12, <2>13 DEF Strand
<1>3. CASE Network
  <2>1. CASE Written
    <3>1. c' \in Connections /\ (stopped = "done" => Down(c'))
      <4>1. c' = EndFirst(c, "done") /\ "done" \in Ends
        BY <2>1 DEF Written, Ends
      <4>2. c' \in Connections /\ (Down(c) => Down(c'))
        BY <4>1, <1>a, EndFirstTyped
      <4> QED  BY <4>2, <1>a
    <3> QED  BY <2>1, <3>1, <1>a, <1>b DEF Written
  <2>2. CASE Dialed
    <3>1. c' \in Connections /\ (stopped = "done" => Down(c'))
      BY <2>2, <1>a DEF Dialed, Connections, Down
    <3> QED  BY <2>2, <3>1, <1>a, <1>b DEF Dialed
  <2>3. CASE Breaks
    <3>1. c' \in Connections /\ (stopped = "done" => Down(c'))
      <4>1. CASE c.op = "connect" /\ c' = [c EXCEPT !.op = "failed"]
        BY <4>1, <1>a DEF Connections, Down
      <4>2. CASE c.read = "pending" /\ c' = [c EXCEPT !.read = "failed"]
        BY <4>2, <1>a DEF Connections, Down
      <4>3. CASE /\ c.read = "pending"
                 /\ \E end \in {"done", "failed"} : c' = EndFirst([c EXCEPT !.read = "failed"], end)
        <5> DEFINE d == [c EXCEPT !.read = "failed"]
        <5>1. d \in Connections
          BY <1>a DEF Connections
        <5>2. PICK end \in {"done", "failed"} : c' = EndFirst(d, end)
          BY <4>3
        <5> HIDE DEF d
        <5>3. end \in Ends
          BY DEF Ends
        <5>4. c' \in Connections
          BY <5>1, <5>2, <5>3, EndFirstTyped
        <5> QED  BY <4>3, <5>4, <1>a DEF Down
      <4> QED  BY <2>3, <4>1, <4>2, <4>3 DEF Breaks
    <3> QED  BY <2>3, <3>1, <1>a, <1>b DEF Breaks
  <2> QED  BY <1>3, <2>1, <2>2, <2>3 DEF Network
<1>4. CASE Handshake
  <2>1. CASE SetupAnswered
    <3>1. strand' \in Seq(Handlers)
      BY <2>1, <1>a, Handlers1 DEF SetupAnswered
    <3> QED  BY <2>1, <3>1, <1>a, <1>b DEF SetupAnswered
  <2>2. CASE ChannelOpened
    <3>1. c' \in Connections /\ ~Down(c)
      BY <2>2, <1>a DEF ChannelOpened, Reads, Connections, Down
    <3> QED  BY <2>2, <3>1, <1>a, <1>b DEF ChannelOpened
  <2> QED  BY <1>4, <2>1, <2>2 DEF Handshake
<1>5. CASE Frames
  <2>1. CASE Refused
    <3> DEFINE d == [c EXCEPT !.read = "none"]
    <3>1. d \in Connections /\ d.op = c.op
      BY <1>a DEF Connections
    <3>2. c' = TornDown(d)
      BY <2>1, <1>a DEF Refused, Teardown
    <3> HIDE DEF d
    <3>3. c' \in Connections /\ (stopped = "done" => Down(c'))
      BY <1>a, <3>1, <3>2, TornDownTyped DEF Down
    <3> QED  BY <2>1, <3>3, <1>a, <1>b DEF Refused
  <2>2. CASE NewPrevHash \/ SetTarget \/ SharesAccepted \/ ShareRefused
    BY <2>2, <1>c DEF NewPrevHash, SetTarget, SharesAccepted, ShareRefused
  <2>3. CASE \E n \in Jobs : FutureJob(n) \/ ActiveJob(n)
    BY <2>3, <1>c DEF FutureJob, ActiveJob
  <2> QED  BY <1>5, <2>1, <2>2, <2>3 DEF Frames
<1>6. CASE Stop
  BY <1>6, <1>a, Handlers1 DEF Stop, DownInv
<1>7. CASE \E s \in Sessions : Miner(s)
  <2>1. PICK s \in Sessions : Miner(s)
    BY <1>7
  <2>2. CASE Submit(s)
    <3>1. strand' \in Seq(Handlers)
      BY <2>2, <1>a, Handlers1, SMTT(40) DEF Submit
    <3> QED  BY <2>2, <3>1, <1>a, <1>b DEF Submit, Theirs
  <2>3. CASE Subscribe(s) \/ Attach(s) \/ RegisterWaiter(s) \/ ReadDiff(s) \/ ReadJob(s) \/ RunMail(s) \/ HangUp(s)
    BY <2>3, <1>c DEF Subscribe, Attach, RegisterWaiter, ReadDiff, ReadJob, RunMail, HangUp, Theirs
  <2> QED  BY <2>1, <2>2, <2>3 DEF Miner
<1> QED  BY <1>1, <1>2, <1>3, <1>4, <1>5, <1>6, <1>7 DEF Next

\* Once stop's handler has run, unless during a resolve, no completion, timer or posted handler
\* brings the link back.
THEOREM StoppedStaysDown == Spec => []StaysDown
<1>1. DownInv => StaysDown
  BY DEF DownInv, Down, StaysDown
<1> QED  BY <1>1, DownInit, DownNext, PTL DEF Spec

(***************************************************************************)
(* Messages on their way to a session.                                     *)
(***************************************************************************)

\* What a miner's difficulty may be: one the pool has set, or the one it starts with.
Difficulties == Diffs \cup {1}

Messages == [what : {"job", "diff", "up"}, job : Jobs \cup {None}, diff : Difficulties]
Members ==
  [open : BOOLEAN, pc : {"idle", "attach", "register", "diff", "job"}, sub : BOOLEAN, pend : BOOLEAN,
   job : Jobs \cup {None}, recent : Seq(Jobs), diff : Difficulties, slot : Nat, gen : Nat]

\* No message of this kind waits; the last of this kind that waits says v.
Without(q, w) == \A i \in 1..Len(q) : q[i].what # w
Value(m, w) == IF w = "job" THEN m.job ELSE m.diff
Latest(q, w, v) ==
  \A i \in 1..Len(q) : (q[i].what = w /\ \A j \in 1..Len(q) : j > i => q[j].what # w) => Value(q[i], w) = v

LEMMA Appended ==
  ASSUME NEW q \in Seq(Messages), NEW m \in Messages, NEW w, NEW v
  PROVE  /\ Append(q, m) \in Seq(Messages)
         /\ m.what = w => Latest(Append(q, m), w, Value(m, w)) /\ ~Without(Append(q, m), w)
         /\ m.what # w => /\ Latest(q, w, v) => Latest(Append(q, m), w, v)
                          /\ Without(Append(q, m), w) => Without(q, w)
                          /\ Without(q, w) => Without(Append(q, m), w)
<1> DEFINE r == Append(q, m)
<1>1. r \in Seq(Messages) /\ Len(r) = Len(q) + 1 /\ Len(q) \in Nat /\ r[Len(q) + 1] = m
      /\ \A i \in 1..Len(q) : r[i] = q[i]
  BY AppendProperties, LenProperties
<1> HIDE DEF r
<1>2. ASSUME m.what = w  PROVE Latest(r, w, Value(m, w)) /\ ~Without(r, w)
  BY <1>1, <1>2 DEF Latest, Without
<1>3. ASSUME m.what # w  PROVE /\ Latest(q, w, v) => Latest(r, w, v)
                               /\ Without(r, w) => Without(q, w)
                               /\ Without(q, w) => Without(r, w)
  <2>1. \A i \in 1..Len(r) : i \in 1..Len(q) \/ (i = Len(q) + 1 /\ r[i].what # w)
    BY <1>1, <1>3
  <2>2. \A i \in 1..Len(q) : i \in 1..Len(r)
    BY <1>1
  <2>3. (Without(r, w) => Without(q, w)) /\ (Without(q, w) => Without(r, w))
    BY <1>1, <2>1, <2>2 DEF Without
  <2>4. ASSUME Latest(q, w, v)  PROVE Latest(r, w, v)
    <3> SUFFICES ASSUME NEW i \in 1..Len(r), r[i].what = w, \A j \in 1..Len(r) : j > i => r[j].what # w
                 PROVE  Value(r[i], w) = v
      BY DEF Latest
    <3>1. i \in 1..Len(q) /\ q[i].what = w
      BY <1>1, <2>1
    <3>2. \A j \in 1..Len(q) : j > i => q[j].what # w
      BY <1>1, <2>2
    <3> QED  BY <1>1, <2>4, <3>1, <3>2 DEF Latest
  <2> QED  BY <2>3, <2>4
<1>4. /\ r \in Seq(Messages)
      /\ m.what = w => Latest(r, w, Value(m, w)) /\ ~Without(r, w)
      /\ m.what # w => /\ Latest(q, w, v) => Latest(r, w, v)
                       /\ Without(r, w) => Without(q, w)
                       /\ Without(q, w) => Without(r, w)
  BY Zenon, <1>1, <1>2, <1>3
<1> QED  BY <1>4 DEF r

LEMMA Taken ==
  ASSUME NEW q \in Seq(Messages), q # <<>>, NEW w, NEW v
  PROVE  /\ Tail(q) \in Seq(Messages) /\ Head(q) \in Messages
         /\ Without(q, w) => Without(Tail(q), w)
         /\ Latest(q, w, v) => Latest(Tail(q), w, v)
         /\ Latest(q, w, v) /\ Without(Tail(q), w) => Head(q).what # w \/ Value(Head(q), w) = v
         /\ Without(Tail(q), w) => Without(q, w) \/ Head(q).what = w
<1> DEFINE r == Tail(q)
<1>1. /\ r \in Seq(Messages) /\ Len(q) \in Nat /\ Len(q) > 0 /\ Len(r) = Len(q) - 1 /\ Head(q) = q[1]
      /\ \A i \in 1..Len(r) : r[i] = q[i + 1] /\ i + 1 \in 1..Len(q)
      /\ \A i \in 1..Len(q) : i = 1 \/ (i - 1 \in 1..Len(r) /\ r[i - 1] = q[i])
      /\ Head(q) \in Messages
  BY HeadTailProperties, LenProperties, EmptySeq
<1> HIDE DEF r
<1>2. /\ Without(q, w) => Without(r, w)
      /\ Without(r, w) => Without(q, w) \/ Head(q).what = w
  BY <1>1, ZenonT(60) DEF Without
<1>3. ASSUME Latest(q, w, v)  PROVE Latest(r, w, v)
  <2> SUFFICES ASSUME NEW i \in 1..Len(r), r[i].what = w, \A j \in 1..Len(r) : j > i => r[j].what # w
               PROVE  Value(r[i], w) = v
    BY DEF Latest
  <2>1. i + 1 \in 1..Len(q) /\ q[i + 1].what = w /\ r[i] = q[i + 1]
    BY <1>1
  <2>2. ASSUME NEW j \in 1..Len(q), j > i + 1  PROVE q[j].what # w
    <3>1. j - 1 \in 1..Len(r) /\ r[j - 1] = q[j] /\ j - 1 > i
      BY <1>1, <2>2
    <3> QED  BY <3>1
  <2> QED  BY <1>3, <2>1, <2>2 DEF Latest
<1>4. ASSUME Latest(q, w, v), Without(r, w), Head(q).what = w  PROVE Value(Head(q), w) = v
  <2>1. 1 \in 1..Len(q) /\ q[1].what = w
    BY <1>1, <1>4
  <2>2. ASSUME NEW j \in 1..Len(q), j > 1  PROVE q[j].what # w
    <3>1. j - 1 \in 1..Len(r) /\ r[j - 1] = q[j]
      BY <1>1, <2>2
    <3> QED  BY <3>1, <1>4 DEF Without
  <2> QED  BY <1>1, <1>4, <2>1, <2>2 DEF Latest
<1> QED  BY <1>1, <1>2, <1>3, <1>4 DEF r

LEMMA AppendTyped ==
  ASSUME NEW q \in Seq(Messages), NEW m \in Messages
  PROVE  Append(q, m) \in Seq(Messages)
OBVIOUS

LEMMA AppendSame ==
  ASSUME NEW q \in Seq(Messages), NEW m \in Messages
  PROVE  Latest(Append(q, m), m.what, Value(m, m.what)) /\ ~Without(Append(q, m), m.what)
BY Appended

LEMMA AppendOther ==
  ASSUME NEW q \in Seq(Messages), NEW m \in Messages, NEW w, m.what # w
  PROVE  /\ \A v : Latest(q, w, v) => Latest(Append(q, m), w, v)
         /\ Without(Append(q, m), w) <=> Without(q, w)
<1> SUFFICES ASSUME NEW v
             PROVE  /\ Latest(q, w, v) => Latest(Append(q, m), w, v)
                    /\ Without(Append(q, m), w) <=> Without(q, w)
  OBVIOUS
<1> QED  BY Appended

(***************************************************************************)
(* What a session has been told.                                           *)
(***************************************************************************)

MinersInv ==
  /\ S \in [Sessions -> Members] /\ mail \in [Sessions -> Seq(Messages)] /\ subs \in [Sessions -> Nat]
  /\ job \in Jobs \cup {None} /\ prev \in Jobs \cup {None} /\ notify \in Work
  /\ diff \in Difficulties /\ gen \in Nat /\ next \in Nat \ {0}
  /\ casting \in {Idle, "job", "diff", "up"}

\* A session that has a slot is open, and past attach for good; no other is told of jobs or targets.
Placed(s) ==
  /\ S[s].sub => subs[s] # None
  /\ S[s].pc = "job" => S[s].sub
  /\ S[s].pc \in {"attach", "register", "diff"} => ~S[s].sub
  /\ subs[s] # None => S[s].open /\ S[s].pc \in {"idle", "diff", "job"} /\ (S[s].pc = "idle" => S[s].sub)
  /\ S[s].pc \in {"diff", "job"} => subs[s] # None
  /\ S[s].pc \in {"attach", "register"} => S[s].open
  /\ S[s].gen <= gen
  /\ subs[s] = None => Without(mail[s], "job") /\ Without(mail[s], "diff")

\* The last job it will be told, or has been, is the newest; so for the difficulty of its channel.
ToldJob(s) ==
  (subs[s] # None /\ casting # "job") =>
    /\ Latest(mail[s], "job", notify.job)
    /\ Without(mail[s], "job") => S[s].pc \in {"diff", "job"} \/ S[s].job = notify.job

ToldDiff(s) ==
  (subs[s] # None /\ casting # "diff" /\ S[s].gen = gen) =>
    /\ Latest(mail[s], "diff", diff)
    /\ Without(mail[s], "diff") => S[s].pc = "diff" \/ S[s].diff = diff

SessionInv(s) == Placed(s) /\ ToldJob(s) /\ ToldDiff(s)

\* What the pool has made active is what the client has made a job of.
PoolInv ==
  /\ pool = [stage |-> pool.stage, active |-> pool.active, tipped |-> pool.tipped, count |-> pool.count,
             good |-> pool.good, bad |-> pool.bad]
  /\ pool.active \in Work /\ pool.count \in Nat
  /\ pool.count > 0 => job # None
  /\ pool.active # NoWork => notify = pool.active /\ prev = pool.active.tip /\ prev # None

StepInv == MinersInv /\ PoolInv /\ \A s \in Sessions : SessionInv(s)

LEMMA StepInit == Init => StepInv
<1> SUFFICES ASSUME Init  PROVE StepInv
  OBVIOUS
<1>1. <<>> \in Seq(Messages) /\ <<>> \in Seq(Jobs) /\ \A w : Without(<<>>, w)
  BY DEF Without
<1>2. Newcomer \in Members
  BY <1>1, UpstreamConstants DEF Newcomer, Members, None, Difficulties
<1>3. MinersInv
  BY <1>1, <1>2, UpstreamConstants DEF Init, MinersInv, NoWork, Work, None, Difficulties
<1>4. PoolInv
  BY DEF Init, PoolInv, NoPool, NoWork, Work
<1>5. \A s \in Sessions : SessionInv(s)
  BY <1>1 DEF Init, SessionInv, Placed, ToldJob, ToldDiff, Newcomer, None
<1> QED  BY <1>3, <1>4, <1>5 DEF StepInv

\* Steps that leave the sessions, the feed and the channel as they are.
Quiet ==
  /\ UNCHANGED <<casting, Feed, Channel, Miners>>
  /\ pool' = NoPool \/ \E stage, good, bad : pool' = [pool EXCEPT !.stage = stage, !.good = good, !.bad = bad]

LEMMA QuietKeeps == ASSUME StepInv, Quiet  PROVE StepInv'
<1>1. MinersInv' /\ \A s \in Sessions : SessionInv(s)'
  BY ZenonT(60) DEF StepInv, Quiet, MinersInv, SessionInv, Placed, ToldJob, ToldDiff, Feed, Channel, Miners
<1>2. PoolInv'
  <2>1. CASE pool' = NoPool
    BY <2>1 DEF PoolInv, NoPool, NoWork, Work
  <2>2. CASE \E stage, good, bad : pool' = [pool EXCEPT !.stage = stage, !.good = good, !.bad = bad]
    BY <2>2, ZenonT(60) DEF StepInv, Quiet, PoolInv, Feed
  <2> QED  BY <2>1, <2>2 DEF Quiet
<1> QED  BY <1>1, <1>2 DEF StepInv

LEMMA QuietSteps ==
  ASSUME StepInv,
         \/ ConnectPosted \/ StopPosted \/ SubmitPosted \/ PushFrame \/ TimerFires \/ Resolved
         \/ ResolveFails \/ Connected \/ ConnectFails \/ WriteEnds \/ WriteFails \/ ReadFails
         \/ Network \/ SetupAnswered \/ Refused \/ SharesAccepted \/ ShareRefused \/ Stop
         \/ \E s \in Sessions : Submit(s)
  PROVE  Quiet
<1> DEFINE Pooled == \E stage, good, bad : pool' = [pool EXCEPT !.stage = stage, !.good = good, !.bad = bad]
<1>0. pool = [stage |-> pool.stage, active |-> pool.active, tipped |-> pool.tipped, count |-> pool.count,
             good |-> pool.good, bad |-> pool.bad]
  BY DEF StepInv, PoolInv
<1>1. pool' = pool => Pooled
  <2>1. pool = [pool EXCEPT !.stage = pool.stage, !.good = pool.good, !.bad = pool.bad]
    BY <1>0
  <2> QED  BY <2>1, ZenonT(60)
<1>2. \A v : [pool EXCEPT !.stage = v] = [pool EXCEPT !.stage = v, !.good = pool.good, !.bad = pool.bad]
  BY <1>0
<1>3. \A v : [pool EXCEPT !.good = v] = [pool EXCEPT !.stage = pool.stage, !.good = v, !.bad = pool.bad]
  BY <1>0
<1>4. \A v : [pool EXCEPT !.bad = v] = [pool EXCEPT !.stage = pool.stage, !.good = pool.good, !.bad = v]
  BY <1>0
<1>5. /\ \A v : pool' = [pool EXCEPT !.stage = v] => Pooled
      /\ \A v : pool' = [pool EXCEPT !.good = v] => Pooled
      /\ \A v : pool' = [pool EXCEPT !.bad = v] => Pooled
  <2> SUFFICES ASSUME NEW v  PROVE /\ pool' = [pool EXCEPT !.stage = v] => Pooled
                                   /\ pool' = [pool EXCEPT !.good = v] => Pooled
                                   /\ pool' = [pool EXCEPT !.bad = v] => Pooled
    OBVIOUS
  <2>1. ASSUME pool' = [pool EXCEPT !.stage = v]  PROVE Pooled
    <3>1. pool' = [pool EXCEPT !.stage = v, !.good = pool.good, !.bad = pool.bad]
      BY <1>2, <2>1, ZenonT(60)
    <3> QED  BY <3>1, ZenonT(60)
  <2>2. ASSUME pool' = [pool EXCEPT !.good = v]  PROVE Pooled
    <3>1. pool' = [pool EXCEPT !.stage = pool.stage, !.good = v, !.bad = pool.bad]
      BY <1>3, <2>2, ZenonT(60)
    <3> QED  BY <3>1, ZenonT(60)
  <2>3. ASSUME pool' = [pool EXCEPT !.bad = v]  PROVE Pooled
    <3>1. pool' = [pool EXCEPT !.stage = pool.stage, !.good = pool.good, !.bad = v]
      BY <1>4, <2>3, ZenonT(60)
    <3> QED  BY <3>1, ZenonT(60)
  <2> QED  BY <2>1, <2>2, <2>3, ZenonT(60)
<1> HIDE DEF Pooled
<1>6. CASE ConnectPosted \/ TimerFires \/ Resolved \/ Connected \/ PushFrame \/ WriteEnds \/ Stop
  BY <1>1, <1>6 DEF ConnectPosted, TimerFires, Resolved, Connected, PushFrame, WriteEnds, Stop, Quiet, Pooled
<1>7. CASE StopPosted \/ ResolveFails \/ ConnectFails \/ WriteFails \/ ReadFails \/ Refused
  BY <1>7, ZenonT(60) DEF StopPosted, ResolveFails, ConnectFails, WriteFails, ReadFails, Refused, Teardown, Quiet
<1>8. CASE SubmitPosted \/ \E s \in Sessions : Submit(s)
  BY <1>1, <1>8 DEF SubmitPosted, Submit, Theirs, Miners, Quiet, Pooled
<1>9. CASE Network
  <2>1. CASE Written
    <3>1. Pooled
      BY <1>5, <2>1 DEF Written, Received
    <3> QED  BY <2>1, <3>1, ZenonT(60) DEF Written, Quiet, Pooled
  <2>2. CASE Dialed \/ Breaks
    BY <1>1, <2>2 DEF Dialed, Breaks, Quiet, Pooled
  <2> QED  BY <1>9, <2>1, <2>2 DEF Network
<1>10. CASE SetupAnswered \/ SharesAccepted \/ ShareRefused
  BY <1>5, <1>10 DEF SetupAnswered, SharesAccepted, ShareRefused, Quiet, Pooled
<1> QED  BY <1>6, <1>7, <1>8, <1>9, <1>10

\* What the pool sends, and what the strand then posts to the sessions.
LEMMA FeedKeeps ==
  ASSUME StepInv, ChannelOpened \/ NewPrevHash \/ SetTarget \/ \E n \in Jobs : FutureJob(n) \/ ActiveJob(n)
  PROVE  StepInv'
<1>0. /\ casting = Idle /\ MinersInv /\ PoolInv /\ \A s \in Sessions : Placed(s) /\ ToldJob(s) /\ ToldDiff(s)
  BY DEF ChannelOpened, NewPrevHash, SetTarget, FutureJob, ActiveJob, Announces, Reads, Free, StepInv, SessionInv
<1>1. CASE ChannelOpened
  <2>1. MinersInv'
    BY <1>0, <1>1 DEF ChannelOpened, MinersInv, Feed, Miners, Difficulties
  <2>2. PoolInv'
    BY <1>0, <1>1 DEF ChannelOpened, PoolInv, Feed
  <2>3. ASSUME NEW s \in Sessions  PROVE SessionInv(s)'
    <3>1. S[s].gen <= gen /\ S[s].gen \in Nat /\ gen \in Nat /\ gen' = gen + 1
      BY <1>0, <1>1 DEF ChannelOpened, Placed, MinersInv, Members
    <3>2. UNCHANGED <<S, subs, mail, notify>>
      BY <1>1 DEF ChannelOpened, Miners, Feed
    <3>3. Placed(s)' /\ ToldDiff(s)'
      BY <1>0, <3>1, <3>2 DEF Placed, ToldDiff
    <3>4. ToldJob(s)'
      BY <1>0, <3>2 DEF ToldJob, Idle
    <3> QED  BY <3>3, <3>4 DEF SessionInv
  <2> QED  BY <2>1, <2>2, <2>3 DEF StepInv
<1>2. CASE SetTarget
  <2>1. MinersInv'
    BY <1>0, <1>2 DEF SetTarget, MinersInv, Feed, Miners, Difficulties
  <2>2. PoolInv'
    BY <1>0, <1>2 DEF SetTarget, PoolInv, Feed
  <2>3. UNCHANGED <<S, subs, mail, notify, gen>> /\ casting' = "diff"
    BY <1>2 DEF SetTarget, Miners, Feed
  <2>4. \A s \in Sessions : SessionInv(s)'
    BY <1>0, <2>3 DEF SessionInv, Placed, ToldJob, ToldDiff, Idle
  <2> QED  BY <2>1, <2>2, <2>4 DEF StepInv
<1>3. ASSUME NEW n \in Jobs, FutureJob(n)  PROVE StepInv'
  <2>1. MinersInv'
    BY <1>0, <1>3 DEF FutureJob, MinersInv, Channel, Miners
  <2>2. PoolInv'
    <3>1. pool' = [pool EXCEPT !.count = pool.count + 1, !.tipped = FALSE] /\ UNCHANGED <<prev, notify>> /\ job' = n
      BY <1>0, <1>3 DEF FutureJob, PoolInv
    <3>2. /\ pool' = [stage |-> pool'.stage, active |-> pool'.active, tipped |-> pool'.tipped,
                      count |-> pool'.count, good |-> pool'.good, bad |-> pool'.bad]
          /\ pool'.active = pool.active /\ pool'.count = pool.count + 1
      BY <1>0, <3>1 DEF PoolInv
    <3> QED  BY <1>0, <3>1, <3>2 DEF PoolInv, Jobs, None
  <2>3. UNCHANGED <<S, subs, mail, notify, gen, diff, casting>>
    BY <1>3 DEF FutureJob, Miners, Channel
  <2>4. \A s \in Sessions : SessionInv(s)'
    BY <1>0, <2>3 DEF SessionInv, Placed, ToldJob, ToldDiff
  <2> QED  BY <2>1, <2>2, <2>4 DEF StepInv
<1>4. ASSUME casting' = "job", UNCHANGED <<S, subs, mail, gen, diff>>
      PROVE  \A s \in Sessions : SessionInv(s)'
  BY <1>0, <1>4 DEF SessionInv, Placed, ToldJob, ToldDiff, Idle
<1>5. ASSUME NEW n \in Jobs, ActiveJob(n)  PROVE StepInv'
  <2>1. /\ prev # None /\ pool.active # NoWork /\ prev = pool.active.tip /\ prev' = prev /\ prev \in Jobs
        /\ job' = n /\ pool' = [pool EXCEPT !.count = @ + 1, !.active.job = n]
        /\ UNCHANGED <<S, subs, mail, gen, diff, next>>
    BY <1>0, <1>5 DEF ActiveJob, PoolInv, Miners, Channel, MinersInv
  <2>2. notify' = [job |-> n, tip |-> prev] /\ casting' = "job"
    BY <1>5, <2>1 DEF ActiveJob, Rebuild
  <2>3. MinersInv'
    BY <1>0, <2>1, <2>2 DEF MinersInv, Work
  <2>4. PoolInv'
    <3>1. pool' = [pool EXCEPT !.count = pool.count + 1, !.active = [pool.active EXCEPT !.job = n]]
      BY <1>0, <2>1 DEF PoolInv
    <3>2. [pool.active EXCEPT !.job = n] = [job |-> n, tip |-> prev] /\ [job |-> n, tip |-> prev] \in Work
      BY <1>0, <2>1 DEF PoolInv, Work
    <3>3. n # None
      BY DEF Jobs, None
    <3>4. pool' = [pool EXCEPT !.count = pool.count + 1, !.active = [job |-> n, tip |-> prev]]
      BY <3>1, <3>2
    <3>5. /\ pool' = [stage |-> pool'.stage, active |-> pool'.active, tipped |-> pool'.tipped,
                      count |-> pool'.count, good |-> pool'.good, bad |-> pool'.bad]
          /\ pool'.active = [job |-> n, tip |-> prev] /\ pool'.count = pool.count + 1
      BY <1>0, <3>4 DEF PoolInv
    <3>6. pool'.active.tip = prev
      BY <3>5
    <3> QED  BY <1>0, <2>1, <2>2, <3>2, <3>3, <3>5, <3>6, SMTT(40) DEF PoolInv
  <2> QED  BY <1>4, <2>1, <2>2, <2>3, <2>4 DEF StepInv
<1>6. CASE NewPrevHash
  <2>1. /\ job # None /\ job' = job /\ prev' = job
          /\ pool' = [pool EXCEPT !.active = [job |-> job, tip |-> job], !.tipped = TRUE]
        /\ notify' = [job |-> job, tip |-> job] /\ casting' = "job"
        /\ UNCHANGED <<S, subs, mail, gen, diff, next>>
    BY <1>0, <1>6 DEF NewPrevHash, Rebuild, PoolInv, Miners, Channel
  <2>2. MinersInv'
    BY <1>0, <2>1 DEF MinersInv, Work
  <2>3. PoolInv'
    <3>1. [job |-> job, tip |-> job] \in Work
      BY <1>0 DEF MinersInv, Work
    <3> QED  BY <1>0, <2>1, <3>1 DEF PoolInv
  <2> QED  BY <1>4, <2>1, <2>2, <2>3 DEF StepInv
<1> QED  BY <1>1, <1>2, <1>3, <1>5, <1>6

LEMMA CastKeeps ==
  ASSUME StepInv, Broadcast \/ NotifyWaiters
  PROVE  StepInv'
<1>0. MinersInv /\ PoolInv /\ \A s \in Sessions : Placed(s) /\ ToldJob(s) /\ ToldDiff(s)
  BY DEF StepInv, SessionInv
<1> DEFINE m == IF casting = "up" THEN Message("up", None, diff) ELSE Message(casting, notify.job, diff)
           to == IF casting = "up" THEN waiters ELSE Subscribers
<1>1. /\ casting \in {"job", "diff", "up"} /\ casting' = Idle /\ mail' = Told(to, m)
      /\ UNCHANGED <<S, subs, job, prev, notify, diff, gen, next, pool>>
  BY DEF Broadcast, NotifyWaiters, Feed, Channel
<1>2. /\ m \in Messages /\ m.what = casting /\ Value(m, "diff") = diff
      /\ casting = "job" => Value(m, "job") = notify.job
  BY <1>0, <1>1 DEF MinersInv, Message, Messages, Work, Value
<1>3. \A s \in Sessions : mail'[s] = IF s \in to /\ S[s].open THEN Append(mail[s], m) ELSE mail[s]
  BY <1>1 DEF Told
<1>3a. \A s \in Sessions : /\ subs[s] # None /\ casting # "up" => s \in to
                           /\ subs[s] # None => S[s].open
                           /\ casting # "up" /\ s \in to => subs[s] # None
  BY <1>0 DEF Subscribers, Placed
<1> HIDE DEF m, to
<1>4. \A s \in Sessions : mail[s] \in Seq(Messages) /\ Append(mail[s], m) \in Seq(Messages)
  <2> SUFFICES ASSUME NEW s \in Sessions  PROVE mail[s] \in Seq(Messages) /\ Append(mail[s], m) \in Seq(Messages)
    OBVIOUS
  <2>1. mail[s] \in Seq(Messages)
    BY <1>0 DEF MinersInv
  <2>2. m \in Messages
    BY <1>2
  <2> QED  BY Zenon, <2>1, <2>2, AppendTyped
<1>5. MinersInv'
  <2>1. mail' \in [Sessions -> Seq(Messages)]
    <3> QED  BY <1>1, <1>4 DEF Told
  <2> QED  BY <1>0, <1>1, <2>1 DEF MinersInv
<1>6. PoolInv'
  BY <1>0, <1>1 DEF PoolInv
<1>7. ASSUME NEW s \in Sessions  PROVE SessionInv(s)'
  <2>1. /\ subs[s] # None /\ casting # "up" => s \in to
        /\ subs[s] # None => S[s].open
        /\ casting # "up" /\ s \in to => subs[s] # None
    BY <1>3a
  <2>0. mail[s] \in Seq(Messages) /\ mail'[s] = IF s \in to /\ S[s].open THEN Append(mail[s], m) ELSE mail[s]
    BY <1>3, <1>4
  <2>5. Latest(Append(mail[s], m), m.what, Value(m, m.what)) /\ ~Without(Append(mail[s], m), m.what)
    BY Zenon, <1>2, <2>0, AppendSame
  <2>6. \A w : m.what # w => /\ \A v : Latest(mail[s], w, v) => Latest(Append(mail[s], m), w, v)
                             /\ Without(Append(mail[s], m), w) <=> Without(mail[s], w)
    BY Zenon, <1>2, <2>0, AppendOther
  <2>2. Placed(s)'
    <3>1. subs[s] = None => Without(mail'[s], "job") /\ Without(mail'[s], "diff")
      <4>1. ASSUME subs[s] = None, NEW w \in {"job", "diff"}, Without(mail[s], w)  PROVE Without(mail'[s], w)
        <5>1. CASE m.what # w
          BY <2>0, <2>6, <4>1, <5>1
        <5>2. CASE m.what = w
          BY <1>2, <2>0, <2>1, <4>1, <5>2
        <5> QED  BY <5>1, <5>2
      <4> QED  BY <1>0, <4>1 DEF Placed
    <3> QED  BY <1>0, <1>1, <3>1 DEF Placed
  <2>3. ToldJob(s)'
    <3>1. CASE casting = "job" /\ subs[s] # None
      <4>1. mail'[s] = Append(mail[s], m)
        BY <1>3, <2>1, <3>1
      <4>2. Latest(mail'[s], "job", notify.job) /\ ~Without(mail'[s], "job")
        BY <1>2, <2>5, <3>1, <4>1
      <4> QED  BY <1>1, <4>2 DEF ToldJob
    <3>2. CASE casting # "job" /\ subs[s] # None
      <4>1. /\ Latest(mail'[s], "job", notify.job)
            /\ Without(mail'[s], "job") => Without(mail[s], "job")
        <5>1. Latest(mail[s], "job", notify.job)
          BY <1>0, <3>2 DEF ToldJob
        <5> QED  BY <1>2, <2>0, <2>6, <3>2, <5>1
      <4> QED  BY <1>0, <1>1, <3>2, <4>1 DEF ToldJob
    <3>3. CASE subs[s] = None
      BY <1>1, <3>3 DEF ToldJob
    <3> QED  BY <3>1, <3>2, <3>3
  <2>4. ToldDiff(s)'
    <3>1. CASE casting = "diff" /\ subs[s] # None
      <4>1. mail'[s] = Append(mail[s], m)
        BY <1>3, <2>1, <3>1
      <4>2. Latest(mail'[s], "diff", diff) /\ ~Without(mail'[s], "diff")
        BY <1>2, <2>5, <3>1, <4>1
      <4> QED  BY <1>1, <4>2 DEF ToldDiff
    <3>2. CASE casting # "diff" /\ subs[s] # None /\ S[s].gen = gen
      <4>1. /\ Latest(mail'[s], "diff", diff)
            /\ Without(mail'[s], "diff") => Without(mail[s], "diff")
        <5>1. Latest(mail[s], "diff", diff)
          BY <1>0, <3>2 DEF ToldDiff
        <5> QED  BY <1>2, <2>0, <2>6, <3>2, <5>1
      <4> QED  BY <1>0, <1>1, <3>2, <4>1 DEF ToldDiff
    <3>3. CASE subs[s] = None \/ S[s].gen # gen
      BY <1>1, <3>3 DEF ToldDiff
    <3> QED  BY <3>1, <3>2, <3>3
  <2> QED  BY <2>2, <2>3, <2>4 DEF SessionInv
<1> QED  BY <1>5, <1>6, <1>7 DEF StepInv

LEMMA RememberTyped ==
  ASSUME NEW G, NEW recent \in Seq(G), NEW n \in G \cup {None}
  PROVE  Remember(recent, n) \in Seq(G)
<1>1. CASE n = None \/ \E i \in DOMAIN recent : ids[recent[i]] = ids[n]
  BY <1>1 DEF Remember
<1>2. CASE ~(n = None \/ \E i \in DOMAIN recent : ids[recent[i]] = ids[n])
  <2>1. n \in G
    BY <1>2
  <2>2. CASE Len(recent) = Kept
    <3>1. recent # <<>>
      BY <2>2, UpstreamConstants
    <3>2. Tail(recent) \in Seq(G)
      BY <3>1
    <3>3. Append(Tail(recent), n) \in Seq(G)
      BY <2>1, <3>2
    <3> QED  BY <1>2, <2>2, <3>3 DEF Remember
  <2>3. CASE Len(recent) # Kept
    <3>1. Append(recent, n) \in Seq(G)
      BY <2>1
    <3> QED  BY <1>2, <2>3, <3>1 DEF Remember
  <2> QED  BY <2>2, <2>3
<1> QED  BY <1>1, <1>2

\* A miner's step disturbs its own session only.
LEMMA OneSession ==
  ASSUME StepInv, NEW s \in Sessions, NEW r \in Members, S' = [S EXCEPT ![s] = r],
         NEW q \in Seq(Messages), mail' = [mail EXCEPT ![s] = q],
         NEW k \in Nat, subs' = [subs EXCEPT ![s] = k], next' \in Nat \ {0},
         UNCHANGED <<job, prev, notify, diff, gen, casting, pool>>, SessionInv(s)'
  PROVE  StepInv'
<1>1. MinersInv'
  BY DEF StepInv, MinersInv
<1>2. PoolInv'
  BY DEF StepInv, PoolInv
<1>3. ASSUME NEW t \in Sessions, t # s  PROVE SessionInv(t)'
  <2>1. S'[t] = S[t] /\ mail'[t] = mail[t] /\ subs'[t] = subs[t]
    BY <1>3 DEF StepInv, MinersInv
  <2>2. SessionInv(t)
    BY DEF StepInv
  <2> QED  BY <2>1, <2>2 DEF SessionInv, Placed, ToldJob, ToldDiff
<1> QED  BY <1>1, <1>2, <1>3 DEF StepInv

LEMMA MinerKeeps ==
  ASSUME StepInv, NEW s \in Sessions,
         Subscribe(s) \/ Attach(s) \/ RegisterWaiter(s) \/ ReadDiff(s) \/ ReadJob(s) \/ RunMail(s) \/ HangUp(s)
  PROVE  StepInv'
<1>0. /\ S \in [Sessions -> Members] /\ S[s] \in Members /\ mail \in [Sessions -> Seq(Messages)]
        /\ mail[s] \in Seq(Messages)
      /\ subs \in [Sessions -> Nat] /\ subs[s] \in Nat /\ next \in Nat \ {0} /\ gen \in Nat /\ diff \in Difficulties
      /\ notify.job \in Jobs \cup {None}
      /\ Placed(s) /\ ToldJob(s) /\ ToldDiff(s)
  BY DEF StepInv, SessionInv, MinersInv, Work
<1>1. mail = [mail EXCEPT ![s] = mail[s]] /\ subs = [subs EXCEPT ![s] = subs[s]]
  BY <1>0
<1>2. UNCHANGED <<job, prev, notify, diff, gen, casting, pool>>
  BY DEF Subscribe, Attach, RegisterWaiter, ReadDiff, ReadJob, RunMail, HangUp, Theirs, Feed, Channel
\* A step that leaves the messages and the slots.
<1>3. ASSUME NEW r \in Members, S' = [S EXCEPT ![s] = r], UNCHANGED <<mail, subs, next>>, SessionInv(s)'
      PROVE  StepInv'
  BY <1>0, <1>1, <1>2, <1>3, OneSession
<1>4. CASE Subscribe(s)
  <2> DEFINE r == TryAttach(S[s])
  <2>1. /\ r \in Members /\ r.pc \in {"attach", "register"} /\ r.open /\ ~r.sub /\ r.gen = S[s].gen
        /\ subs[s] = None /\ S' = [S EXCEPT ![s] = r]
    BY <1>0, <1>4, ZenonT(60) DEF Subscribe, Here, TryAttach, Members, Placed
  <2>2. UNCHANGED <<mail, subs, next>> /\ S'[s] = r
    BY <1>0, <1>4, <2>1 DEF Subscribe
  <2> HIDE DEF r
  <2>3. SessionInv(s)'
    BY <1>0, <1>2, <2>1, <2>2 DEF SessionInv, Placed, ToldJob, ToldDiff
  <2> QED  BY <1>3, <2>1, <2>2, <2>3
<1>5. CASE Attach(s)
  <2>1. subs[s] = None /\ S[s].open /\ ~S[s].sub /\ Without(mail[s], "job") /\ Without(mail[s], "diff")
    BY <1>0, <1>5 DEF Attach, Placed
  <2>2. CASE c.open
    <3> DEFINE r == [S[s] EXCEPT !.pc = "diff", !.slot = next, !.gen = gen]
    <3>1. S' = [S EXCEPT ![s] = r] /\ subs' = [subs EXCEPT ![s] = next] /\ next' = next + 1 /\ UNCHANGED mail
      BY <1>0, <1>5, <2>2, SMTT(40) DEF Attach
    <3>2. r \in Members /\ r.pc = "diff" /\ r.open /\ ~r.sub /\ r.gen = gen
      BY <1>0, <2>1 DEF Members
    <3> HIDE DEF r
    <3>3. S'[s] = r /\ subs'[s] = next /\ next # None /\ next' \in Nat \ {0}
      BY <1>0, <3>1 DEF None
    <3>4. SessionInv(s)'
      BY <1>0, <1>2, <2>1, <3>1, <3>2, <3>3, SMTT(40) DEF SessionInv, Placed, ToldJob, ToldDiff, Latest, Without
    <3> QED  BY <1>0, <1>1, <1>2, <3>1, <3>2, <3>3, <3>4, OneSession
  <2>3. CASE ~c.open
    <3> DEFINE r == [S[s] EXCEPT !.pc = "register"]
    <3>1. S' = [S EXCEPT ![s] = r] /\ UNCHANGED <<mail, subs, next>>
      BY <1>0, <1>5, <2>3 DEF Attach
    <3>2. r \in Members /\ r.pc = "register" /\ r.open /\ ~r.sub /\ r.gen = S[s].gen
      BY <1>0, <2>1 DEF Members
    <3> HIDE DEF r
    <3>3. SessionInv(s)'
      BY <1>0, <1>2, <2>1, <3>1, <3>2 DEF SessionInv, Placed, ToldJob, ToldDiff
    <3> QED  BY <1>3, <3>1, <3>2, <3>3
  <2> QED  BY <2>2, <2>3
<1>6. CASE RegisterWaiter(s)
  <2> DEFINE r == [S[s] EXCEPT !.pc = "idle", !.pend = TRUE]
  <2>1. S' = [S EXCEPT ![s] = r] /\ UNCHANGED <<mail, subs, next>>
    BY <1>0, <1>6 DEF RegisterWaiter
  <2>2. /\ r \in Members /\ r.pc = "idle" /\ r.open = S[s].open /\ ~r.sub /\ r.gen = S[s].gen
        /\ subs[s] = None
    BY <1>0, <1>6 DEF RegisterWaiter, Placed, Members
  <2> HIDE DEF r
  <2>3. SessionInv(s)'
    BY <1>0, <1>2, <2>1, <2>2 DEF SessionInv, Placed, ToldJob, ToldDiff
  <2> QED  BY <1>3, <2>1, <2>2, <2>3
<1>7. CASE ReadDiff(s)
  <2> DEFINE r == [S[s] EXCEPT !.pc = "job", !.sub = TRUE, !.pend = FALSE, !.diff = diff]
  <2>1. S' = [S EXCEPT ![s] = r] /\ UNCHANGED <<mail, subs, next>>
    BY <1>0, <1>7 DEF ReadDiff
  <2>2. /\ r \in Members /\ r.pc = "job" /\ r.open = S[s].open /\ r.sub /\ r.gen = S[s].gen /\ r.diff = diff
        /\ subs[s] # None
    BY <1>0, <1>7 DEF ReadDiff, Placed, Members
  <2> HIDE DEF r
  <2>3. SessionInv(s)'
    BY <1>0, <1>2, <2>1, <2>2 DEF SessionInv, Placed, ToldJob, ToldDiff
  <2> QED  BY <1>3, <2>1, <2>2, <2>3
<1>8. CASE ReadJob(s)
  <2> DEFINE known == Remember(S[s].recent, notify.job)
             r == [S[s] EXCEPT !.pc = "idle", !.job = notify.job, !.recent = known]
  <2>1. S' = [S EXCEPT ![s] = r] /\ UNCHANGED <<mail, subs, next>>
    BY <1>0, <1>8 DEF ReadJob
  <2>2. known \in Seq(Jobs)
    BY <1>0, RememberTyped DEF Members
  <2> HIDE DEF known
  <2>3. /\ r \in Members /\ r.pc = "idle" /\ r.open = S[s].open /\ r.sub /\ r.gen = S[s].gen /\ r.diff = S[s].diff
        /\ r.job = notify.job /\ S[s].pc = "job"
    BY <1>0, <1>8, <2>2 DEF ReadJob, Placed, Members
  <2> HIDE DEF r
  <2>4. SessionInv(s)'
    BY <1>0, <1>2, <2>1, <2>3 DEF SessionInv, Placed, ToldJob, ToldDiff
  <2> QED  BY <1>3, <2>1, <2>3, <2>4
<1>9. CASE RunMail(s)
  <2> DEFINE q == Tail(mail[s])
             m == Head(mail[s])
  <2>1. mail[s] # <<>> /\ mail' = [mail EXCEPT ![s] = q] /\ UNCHANGED <<subs, next>> /\ S[s].pc = "idle" /\ S[s].open
    BY <1>0, <1>9 DEF RunMail, Here
  <2>2. q \in Seq(Messages) /\ m \in Messages
    BY <1>0, <2>1
  <2>3. \A w : /\ Without(mail[s], w) => Without(q, w)
               /\ \A v : /\ Latest(mail[s], w, v) => Latest(q, w, v)
                         /\ Latest(mail[s], w, v) /\ Without(q, w) => m.what # w \/ Value(m, w) = v
               /\ Without(q, w) => Without(mail[s], w) \/ m.what = w
    BY Zenon, <1>0, <2>1, Taken
  <2> HIDE DEF q, m
  <2>4. PICK r \in Members : /\ S' = [S EXCEPT ![s] = r]
                             /\ r.open = S[s].open /\ r.sub = S[s].sub /\ r.gen = S[s].gen
                             /\ r.job = (IF m.what = "job" THEN m.job ELSE S[s].job)
                             /\ r.diff = (IF m.what = "diff" THEN m.diff ELSE S[s].diff)
                             /\ r.pc = "idle" \/ (r.pc \in {"attach", "register"} /\ ~S[s].sub)
    <3>0. m.what \in {"job", "diff", "up"} /\ m.job \in Jobs \cup {None} /\ m.diff \in Difficulties
      BY <2>2 DEF Messages
    <3>1. CASE m.what = "job"
      <4> DEFINE known == Remember(S[s].recent, m.job)
      <4>1. S' = [S EXCEPT ![s] = [S[s] EXCEPT !.job = m.job, !.recent = known]]
        BY <1>0, <1>9, <3>1 DEF RunMail, m
      <4>2. known \in Seq(Jobs)
        BY <1>0, <3>0, RememberTyped DEF Members
      <4> HIDE DEF known
      <4> DEFINE r == [S[s] EXCEPT !.job = m.job, !.recent = known]
      <4>3. /\ r \in Members /\ r.open = S[s].open /\ r.sub = S[s].sub /\ r.gen = S[s].gen
            /\ r.job = m.job /\ r.diff = S[s].diff /\ r.pc = "idle"
        BY <1>0, <2>1, <3>0, <4>2 DEF Members
      <4> HIDE DEF r
      <4> QED  BY <3>1, <4>1, <4>3 DEF r
    <3>2. CASE m.what = "diff"
      <4>1. S' = [S EXCEPT ![s] = [S[s] EXCEPT !.diff = m.diff]]
        BY <1>0, <1>9, <3>2 DEF RunMail, m
      <4> DEFINE r == [S[s] EXCEPT !.diff = m.diff]
      <4>3. /\ r \in Members /\ r.open = S[s].open /\ r.sub = S[s].sub /\ r.gen = S[s].gen
            /\ r.job = S[s].job /\ r.diff = m.diff /\ r.pc = "idle"
        BY <1>0, <2>1, <3>0 DEF Members
      <4> HIDE DEF r
      <4> QED  BY <3>2, <4>1, <4>3 DEF r
    <3>3. CASE m.what = "up"
      <4>1. S' = [S EXCEPT ![s] = IF S[s].pend THEN TryAttach(S[s]) ELSE S[s]]
        BY <1>0, <1>9, <3>3 DEF RunMail, m
      <4>2. CASE S[s].pend /\ ~S[s].sub
        <5>1. S' = [S EXCEPT ![s] = [S[s] EXCEPT !.pc = IF c.open THEN "attach" ELSE "register"]]
          BY <4>1, <4>2 DEF TryAttach
        <5> DEFINE r == [S[s] EXCEPT !.pc = IF c.open THEN "attach" ELSE "register"]
        <5>2. /\ r \in Members /\ r.open = S[s].open /\ r.sub = S[s].sub /\ r.gen = S[s].gen
              /\ r.job = S[s].job /\ r.diff = S[s].diff /\ r.pc \in {"attach", "register"}
          BY <1>0, ZenonT(60) DEF Members
        <5> HIDE DEF r
        <5> QED  BY <3>3, <4>2, <5>1, <5>2, ZenonT(60) DEF r
      <4>3. CASE ~S[s].pend \/ S[s].sub
        <5>1. S' = [S EXCEPT ![s] = S[s]]
          BY <4>1, <4>3 DEF TryAttach
        <5> QED  BY <1>0, <2>1, <3>3, <5>1
      <4> QED  BY <4>2, <4>3
    <3> QED  BY <3>0, <3>1, <3>2, <3>3
  <2>5. S'[s] = r /\ mail'[s] = q /\ subs'[s] = subs[s]
    BY <1>0, <2>1, <2>4
  <2>6. Placed(s)'
    BY <1>0, <1>2, <2>1, <2>3, <2>4, <2>5, ZenonT(60) DEF Placed
  <2>7. ToldJob(s)'
    <3> SUFFICES ASSUME subs[s] # None, casting # "job"
                 PROVE  /\ Latest(q, "job", notify.job)
                        /\ Without(q, "job") => r.job = notify.job
      BY <1>2, <2>5 DEF ToldJob
    <3>1. /\ Latest(mail[s], "job", notify.job)
          /\ Without(mail[s], "job") => S[s].job = notify.job
      BY <1>0, <2>1 DEF ToldJob
    <3>2. Latest(q, "job", notify.job)
      BY <2>3, <3>1
    <3>3. ASSUME Without(q, "job")  PROVE r.job = notify.job
      <4>1. CASE m.what = "job"
        BY <2>3, <2>4, <3>1, <3>3, <4>1 DEF Value
      <4>2. CASE m.what # "job"
        BY <2>3, <2>4, <3>1, <3>3, <4>2
      <4> QED  BY <4>1, <4>2
    <3> QED  BY <3>2, <3>3
  <2>8. ToldDiff(s)'
    <3> SUFFICES ASSUME subs[s] # None, casting # "diff", r.gen = gen
                 PROVE  /\ Latest(q, "diff", diff)
                        /\ Without(q, "diff") => r.diff = diff
      BY <1>2, <2>5 DEF ToldDiff
    <3>1. /\ Latest(mail[s], "diff", diff)
          /\ Without(mail[s], "diff") => S[s].diff = diff
      BY <1>0, <2>1, <2>4 DEF ToldDiff
    <3>2. Latest(q, "diff", diff)
      BY <2>3, <3>1
    <3>3. ASSUME Without(q, "diff")  PROVE r.diff = diff
      <4>1. CASE m.what = "diff"
        BY <2>3, <2>4, <3>1, <3>3, <4>1 DEF Value
      <4>2. CASE m.what # "diff"
        BY <2>3, <2>4, <3>1, <3>3, <4>2
      <4> QED  BY <4>1, <4>2
    <3> QED  BY <3>2, <3>3
  <2> QED  BY <1>0, <1>1, <1>2, <2>1, <2>2, <2>4, <2>6, <2>7, <2>8, OneSession DEF SessionInv
<1>10. CASE HangUp(s)
  <2> DEFINE r == [Newcomer EXCEPT !.open = FALSE]
  <2>1. /\ S' = [S EXCEPT ![s] = r] /\ subs' = [subs EXCEPT ![s] = None] /\ mail' = [mail EXCEPT ![s] = <<>>]
        /\ UNCHANGED next /\ S[s].pc = "idle"
    BY <1>10 DEF HangUp, Here
  <2>2. <<>> \in Seq(Jobs) /\ <<>> \in Seq(Messages) /\ None \in Nat
    BY DEF None
  <2>3. r \in Members /\ r.pc = "idle" /\ ~r.sub /\ r.gen = 0
    BY <2>2, UpstreamConstants DEF Newcomer, Members, None, Difficulties
  <2> HIDE DEF r
  <2>4. S'[s] = r /\ mail'[s] = <<>> /\ subs'[s] = None
    BY <1>0, <2>1
  <2>5. SessionInv(s)'
    BY <1>0, <1>2, <2>3, <2>4 DEF SessionInv, Placed, ToldJob, ToldDiff, Without
  <2> QED  BY <1>0, <1>2, <2>1, <2>2, <2>3, <2>5, OneSession
<1> QED  BY <1>4, <1>5, <1>6, <1>7, <1>8, <1>9, <1>10

LEMMA StepNext == StepInv /\ [Next]_vars => StepInv'
<1> SUFFICES ASSUME StepInv, [Next]_vars  PROVE StepInv'
  OBVIOUS
<1>1. CASE UNCHANGED vars
  BY <1>1 DEF vars, StepInv, MinersInv, PoolInv, SessionInv, Placed, ToldJob, ToldDiff
<1>2. CASE Next
  BY <1>2, QuietSteps, QuietKeeps, FeedKeeps, CastKeeps, MinerKeeps
  DEF Next, Strand, Handshake, Frames, Miner
<1> QED  BY <1>1, <1>2

\* For any number of sessions, jobs and failures: a session that has run what was posted to it
\* mines the job the pool has made active, at the difficulty of its channel.
THEOREM MinersInStep == Spec => []InStep
<1>1. StepInv => InStep
  <2> SUFFICES ASSUME StepInv, NEW s \in Sessions, Settled(s), S[s].sub
               PROVE  /\ S[s].job = notify.job
                      /\ pool.active # NoWork => notify = pool.active
                      /\ S[s].gen = gen => S[s].diff = diff
    BY DEF InStep
  <2>1. casting = Idle /\ subs[s] # None /\ S[s].pc = "idle" /\ ToldJob(s) /\ ToldDiff(s) /\ PoolInv
    BY DEF StepInv, SessionInv, Placed, Settled, Free
  <2>2. Without(mail[s], "job") /\ Without(mail[s], "diff")
    BY DEF Settled, Without
  <2> QED  BY <2>1, <2>2 DEF ToldJob, ToldDiff, PoolInv, Idle
<1> QED  BY <1>1, StepInit, StepNext, PTL DEF Spec

(***************************************************************************)
(* What a session rebuilds, of jobs whose numbers may have been given *)
(***************************************************************************)

\* The jobs announced; nothing is said or remembered of another.
Given == {n \in Jobs : ids[n] # None}
GivenMessages == {m \in Messages : m.job \in Given \cup {None}}

\* Under the number of job n is remembered n, or a job of another connection.
Known(n, recent) == \E k \in Range(recent) : ids[k] = ids[n] /\ (k = n \/ era[k] # era[n])

\* Of one connection, no two jobs have a number in common.
HashInv ==
  /\ ids \in [Jobs -> Jobs \cup {None}] /\ era \in [Jobs -> Nat]
  /\ \A n, k \in Given : ids[n] = ids[k] /\ era[n] = era[k] => n = k
  /\ job \in Given \cup {None} /\ notify.job \in Given \cup {None}
  /\ \A s \in Sessions : /\ S[s].recent \in Seq(Given) /\ mail[s] \in Seq(GivenMessages)
                         /\ S[s].job \in Given \cup {None}
                         /\ S[s].job # None => Known(S[s].job, S[s].recent)

LEMMA RememberHolds ==
  ASSUME HashInv, NEW recent \in Seq(Given), NEW n \in Given
  PROVE  Known(n, Remember(recent, n))
<1>0. n # None /\ n \in Jobs
  BY DEF Given, Jobs, None
<1>1. CASE \E i \in DOMAIN recent : ids[recent[i]] = ids[n]
  <2>1. PICK i \in DOMAIN recent : ids[recent[i]] = ids[n]
    BY <1>1
  <2>2. recent[i] \in Given
    BY <2>1
  <2>3. recent[i] = n \/ era[recent[i]] # era[n]
    BY <2>1, <2>2 DEF HashInv
  <2>4. recent[i] \in Range(recent) /\ Remember(recent, n) = recent
    BY <1>1, <2>1 DEF Remember, Range
  <2> QED  BY <2>1, <2>3, <2>4 DEF Known
<1>2. CASE ~\E i \in DOMAIN recent : ids[recent[i]] = ids[n]
  <2>1. ASSUME NEW q \in Seq(Given)  PROVE n \in Range(Append(q, n))
    <3>1. Append(q, n)[Len(q) + 1] = n /\ Len(q) + 1 \in DOMAIN Append(q, n)
      BY AppendProperties, LenProperties
    <3> QED  BY <3>1 DEF Range
  <2>2. Len(recent) = Kept => Tail(recent) \in Seq(Given)
    <3>1. Len(recent) = Kept => recent # <<>>
      BY UpstreamConstants
    <3> QED  BY <3>1
  <2>3. Remember(recent, n) = IF Len(recent) = Kept THEN Append(Tail(recent), n) ELSE Append(recent, n)
    BY <1>0, <1>2 DEF Remember
  <2>4. ASSUME Len(recent) = Kept  PROVE n \in Range(Remember(recent, n))
    <3>1. n \in Range(Append(Tail(recent), n))
      BY Zenon, <2>1, <2>2, <2>4
    <3> QED  BY <2>3, <2>4, <3>1
  <2>5. ASSUME Len(recent) # Kept  PROVE n \in Range(Remember(recent, n))
    <3>1. n \in Range(Append(recent, n))
      BY Zenon, <2>1
    <3> QED  BY <2>3, <2>5, <3>1
  <2>6. n \in Range(Remember(recent, n))
    BY <2>4, <2>5
  <2> QED  BY <2>6 DEF Known
<1> QED  BY <1>1, <1>2

LEMMA HashInit == Init => HashInv
<1> SUFFICES ASSUME Init  PROVE HashInv
  OBVIOUS
<1>1. <<>> \in Seq(Given) /\ <<>> \in Seq(GivenMessages)
  OBVIOUS
<1>2. Given = {}
  BY DEF Init, Given
<1> QED  BY <1>1, <1>2, UpstreamConstants DEF Init, HashInv, NoWork, Newcomer

LEMMA HashStill == ASSUME HashInv, UNCHANGED <<ids, era, job, notify, S, mail>>  PROVE HashInv'
<1>1. Given' = Given /\ GivenMessages' = GivenMessages
  BY DEF Given, GivenMessages
<1>2. \A n, recent : Known(n, recent)' <=> Known(n, recent)
  BY DEF Known
<1> QED  BY <1>1, <1>2, ZenonT(30) DEF HashInv

\* Messages for the sessions that stay in order of their posting.
LEMMA HashSteps ==
  ASSUME StepInv, HashInv, Next
  PROVE  HashInv'
<1>0. /\ S \in [Sessions -> Members] /\ mail \in [Sessions -> Seq(Messages)] /\ notify \in Work /\ diff \in Difficulties
      /\ PoolInv /\ \A s \in Sessions : S[s] \in Members
  BY DEF StepInv, MinersInv
<1>1. ASSUME UNCHANGED <<ids, era, job, notify, S, mail>>  PROVE HashInv'
  BY <1>1, HashStill
<1>2. CASE Quiet \/ ChannelOpened \/ SetTarget
  BY <1>1, <1>2 DEF Quiet, ChannelOpened, SetTarget, Feed, Miners
<1>3. ASSUME NEW n \in Jobs, FutureJob(n) \/ ActiveJob(n)  PROVE HashInv'
  <2>1. job' = n /\ UNCHANGED <<S, mail>> /\ n \notin Given
    BY <1>3 DEF FutureJob, ActiveJob, Announces, Miners, Given
  <2>2. PICK id \in ({n} \cup Range(ids)) \ ({None} \cup {ids[k] : k \in {j \in Jobs : era[j] = gen}}) :
          ids' = [ids EXCEPT ![n] = id] /\ era' = [era EXCEPT ![n] = gen]
    BY <1>3 DEF FutureJob, ActiveJob, Numbered
  <2>3. id \in Jobs /\ id # None /\ gen \in Nat
    <3>1. \A k \in Range(ids) : k \in Jobs \cup {None}
      BY DEF HashInv, Range
    <3>2. gen \in Nat
      BY DEF StepInv, MinersInv
    <3> QED  BY <2>2, <3>1, <3>2
  <2>4. /\ ids' \in [Jobs -> Jobs \cup {None}] /\ era' \in [Jobs -> Nat] /\ ids'[n] = id /\ era'[n] = gen
        /\ \A k \in Jobs : k # n => ids'[k] = ids[k] /\ era'[k] = era[k]
    BY <2>2, <2>3 DEF HashInv
  <2>5. Given' = Given \cup {n}
    BY <2>3, <2>4 DEF Given
  <2>6. Given \subseteq Jobs /\ \A k \in Given : ids'[k] = ids[k] /\ era'[k] = era[k] /\ k # n /\ k \in Jobs
    BY <2>1, <2>4 DEF Given
  <2>7. ASSUME NEW k \in Given', NEW l \in Given', ids'[k] = ids'[l], era'[k] = era'[l]  PROVE k = l
    <3>1. ASSUME NEW j \in Given, ids[j] = id  PROVE era[j] # gen
      BY <2>2, <2>6, <3>1
    <3>2. CASE k \in Given /\ l \in Given
      BY <2>6, <2>7, <3>2 DEF HashInv
    <3>3. CASE k = n /\ l \in Given
      BY <2>4, <2>6, <2>7, <3>1, <3>3
    <3>4. CASE k \in Given /\ l = n
      BY <2>4, <2>6, <2>7, <3>1, <3>4
    <3> QED  BY <2>5, <2>7, <3>2, <3>3, <3>4
  <2>8. GivenMessages \subseteq GivenMessages'
    BY <2>5 DEF GivenMessages
  <2>9. ASSUME NEW s \in Sessions
        PROVE  /\ S[s].recent \in Seq(Given') /\ mail[s] \in Seq(GivenMessages') /\ S[s].job \in Given' \cup {None}
               /\ S[s].job # None => Known(S[s].job, S[s].recent)'
    <3>1. S[s].recent \in Seq(Given) /\ mail[s] \in Seq(GivenMessages) /\ S[s].job \in Given \cup {None}
      BY DEF HashInv
    <3>2. ASSUME S[s].job # None  PROVE Known(S[s].job, S[s].recent)'
      <4>1. PICK k \in Range(S[s].recent) : ids[k] = ids[S[s].job] /\ (k = S[s].job \/ era[k] # era[S[s].job])
        BY <3>2 DEF HashInv, Known
      <4>2. k \in Given /\ S[s].job \in Given
        BY <3>1, <3>2, <4>1 DEF Range
      <4> QED  BY <2>1, <2>6, <4>1, <4>2 DEF Known
    <3> QED  BY <2>5, <2>8, <3>1, <3>2
  <2>10. notify' = notify \/ notify' = [job |-> n, tip |-> prev]
    BY <1>3 DEF FutureJob, ActiveJob, Rebuild
  <2>11. notify'.job \in Given' \cup {None}
    BY <2>5, <2>10 DEF HashInv
  <2> QED  BY <2>1, <2>4, <2>5, <2>7, <2>9, <2>11 DEF HashInv
<1>4. CASE NewPrevHash
  <2>1. notify' = [job |-> job, tip |-> job] /\ UNCHANGED <<ids, era, job, S, mail>>
    BY <1>4 DEF NewPrevHash, Rebuild, Miners
  <2>2. Given' = Given /\ GivenMessages' = GivenMessages /\ \A n, recent : Known(n, recent)' <=> Known(n, recent)
    BY <2>1 DEF Given, GivenMessages, Known
  <2>3. notify'.job \in Given \cup {None}
    BY <2>1 DEF HashInv
  <2> QED  BY <2>1, <2>2, <2>3, ZenonT(30) DEF HashInv
<1>5. CASE Broadcast \/ NotifyWaiters
  <2>1. PICK m \in GivenMessages, to \in {Subscribers, waiters} : mail' = Told(to, m)
    <3>1. CASE Broadcast
      <4>1. Message(casting, notify.job, diff) \in GivenMessages
        BY <1>0, <3>1 DEF Broadcast, Message, GivenMessages, Messages, Work, HashInv
      <4> QED  BY <3>1, <4>1 DEF Broadcast
    <3>2. CASE NotifyWaiters
      <4>1. Message("up", None, diff) \in GivenMessages
        BY <1>0 DEF Message, GivenMessages, Messages
      <4> QED  BY <3>2, <4>1 DEF NotifyWaiters
    <3> QED  BY <1>5, <3>1, <3>2
  <2>2. UNCHANGED <<ids, era, job, notify, S>>
    BY <1>5 DEF Broadcast, NotifyWaiters, Feed
  <2>3. ASSUME NEW s \in Sessions  PROVE mail'[s] \in Seq(GivenMessages)
    <3>1. mail[s] \in Seq(GivenMessages)
      BY DEF HashInv
    <3>2. Append(mail[s], m) \in Seq(GivenMessages)
      BY <3>1
    <3> QED  BY <2>1, <3>1, <3>2 DEF Told
  <2>4. Given' = Given /\ GivenMessages' = GivenMessages /\ \A n, recent : Known(n, recent)' <=> Known(n, recent)
    BY <2>2 DEF Given, GivenMessages, Known
  <2> QED  BY <2>2, <2>3, <2>4, ZenonT(30) DEF HashInv
<1>6. ASSUME NEW s \in Sessions, NEW r \in Members, S' = [S EXCEPT ![s] = r], UNCHANGED <<ids, era, job, notify>>,
             NEW q \in Seq(GivenMessages), mail' = [mail EXCEPT ![s] = q],
             r.recent \in Seq(Given), r.job \in Given \cup {None}, r.job # None => Known(r.job, r.recent)
      PROVE  HashInv'
  <2>1. Given' = Given /\ GivenMessages' = GivenMessages /\ \A n, recent : Known(n, recent)' <=> Known(n, recent)
    BY <1>6 DEF Given, GivenMessages, Known
  <2>2. \A t \in Sessions : /\ S'[t] = IF t = s THEN r ELSE S[t]
                           /\ mail'[t] = IF t = s THEN q ELSE mail[t]
    BY <1>0, <1>6
  <2>3. ASSUME NEW t \in Sessions
        PROVE  /\ S'[t].recent \in Seq(Given) /\ mail'[t] \in Seq(GivenMessages) /\ S'[t].job \in Given \cup {None}
               /\ S'[t].job # None => Known(S'[t].job, S'[t].recent)
    BY <1>6, <2>2 DEF HashInv
  <2> QED  BY <1>6, <2>1, <2>3, ZenonT(30) DEF HashInv
<1>7. ASSUME NEW s \in Sessions,
             Subscribe(s) \/ Attach(s) \/ RegisterWaiter(s) \/ ReadDiff(s) \/ ReadJob(s) \/ RunMail(s) \/ HangUp(s)
      PROVE  HashInv'
  <2>1. UNCHANGED <<ids, era, job, notify>>
    BY <1>7 DEF Subscribe, Attach, RegisterWaiter, ReadDiff, ReadJob, RunMail, HangUp, Theirs, Feed
  <2>2. /\ S[s] \in Members /\ S[s].recent \in Seq(Given) /\ mail[s] \in Seq(GivenMessages)
        /\ mail = [mail EXCEPT ![s] = mail[s]]
        /\ S[s].job \in Given \cup {None} /\ (S[s].job # None => Known(S[s].job, S[s].recent))
        /\ notify.job \in Given \cup {None}
    BY <1>0 DEF HashInv
  <2>3. S' \in [Sessions -> Members] /\ S'[s] \in Members
    BY StepNext, <1>7 DEF StepInv, MinersInv, Next, Miner
  <2>4. CASE Subscribe(s) \/ Attach(s) \/ RegisterWaiter(s) \/ ReadDiff(s)
    <3>1. S' = [S EXCEPT ![s] = S'[s]] /\ UNCHANGED mail
      BY <1>0, <2>4 DEF Subscribe, Attach, RegisterWaiter, ReadDiff
    <3>2. S'[s].recent = S[s].recent /\ S'[s].job = S[s].job
      <4>1. CASE Subscribe(s)
        BY <1>0, <2>2, <4>1 DEF Subscribe, TryAttach, Members
      <4>2. CASE Attach(s)
        <5>1. S'[s] = [S[s] EXCEPT !.pc = "diff", !.slot = next, !.gen = gen] \/ S'[s] = [S[s] EXCEPT !.pc = "register"]
          BY <1>0, <4>2 DEF Attach
        <5> QED  BY <2>2, <5>1, ZenonT(60) DEF Members
      <4>3. CASE RegisterWaiter(s)
        BY <1>0, <2>2, <4>3 DEF RegisterWaiter, Members
      <4>4. CASE ReadDiff(s)
        BY <1>0, <2>2, <4>4 DEF ReadDiff, Members
      <4> QED  BY <2>4, <4>1, <4>2, <4>3, <4>4
    <3>3. S'[s] \in Members /\ mail' = [mail EXCEPT ![s] = mail[s]] /\ mail[s] \in Seq(GivenMessages)
      BY <2>2, <2>3, <3>1
    <3>4. /\ S'[s].recent \in Seq(Given) /\ S'[s].job \in Given \cup {None}
          /\ S'[s].job # None => Known(S'[s].job, S'[s].recent)
      BY <2>2, <3>2
    <3> DEFINE r == S'[s]
    <3> HIDE DEF r
    <3> QED  BY <1>6, <2>1, <3>1, <3>3, <3>4 DEF r
  <2>5. ASSUME NEW n \in Given  PROVE /\ Remember(S[s].recent, n) \in Seq(Given)
                                     /\ Known(n, Remember(S[s].recent, n))
    <3>1. n \in Given \cup {None} /\ S[s].recent \in Seq(Given)
      BY <2>2
    <3>2. Remember(S[s].recent, n) \in Seq(Given)
      BY <3>1, RememberTyped
    <3>3. Known(n, Remember(S[s].recent, n))
      BY Zenon, <3>1, RememberHolds
    <3> QED  BY <3>2, <3>3
  <2>50. Remember(S[s].recent, None) = S[s].recent
    BY DEF Remember
  <2>6. CASE ReadJob(s)
    <3> DEFINE known == Remember(S[s].recent, notify.job)
               r == [S[s] EXCEPT !.pc = "idle", !.job = notify.job, !.recent = known]
    <3>1. S' = [S EXCEPT ![s] = r] /\ UNCHANGED mail
      BY <1>0, <2>6 DEF ReadJob
    <3>2. known \in Seq(Given) /\ (notify.job # None => Known(notify.job, known))
      <4>1. CASE notify.job \in Given
        BY Zenon, <2>5, <4>1
      <4>2. CASE notify.job = None
        BY <2>2, <2>50, <4>2
      <4> QED  BY <2>2, <4>1, <4>2
    <3> HIDE DEF known
    <3>3. r.recent = known /\ r.job = notify.job
      BY <2>2 DEF Members
    <3> HIDE DEF r
    <3>4. r \in Members
      BY <1>0, <2>3, <3>1
    <3> QED  BY <1>6, <2>1, <2>2, <3>1, <3>2, <3>3, <3>4
  <2>7. CASE RunMail(s)
    <3> DEFINE q == Tail(mail[s])
               m == Head(mail[s])
    <3>1. mail[s] # <<>> /\ mail' = [mail EXCEPT ![s] = q]
      BY <2>7 DEF RunMail
    <3>2. q \in Seq(GivenMessages) /\ m \in GivenMessages
      BY <2>2, <3>1
    <3> HIDE DEF q, m
    <3>3. m.what \in {"job", "diff", "up"} /\ m.job \in Given \cup {None}
      BY <3>2 DEF GivenMessages, Messages
    <3>4. PICK r : /\ S' = [S EXCEPT ![s] = r]
                   /\ \/ r.recent = S[s].recent /\ r.job = S[s].job
                      \/ r.recent = Remember(S[s].recent, m.job) /\ r.job = m.job
      <4>1. CASE m.what = "job"
        <5> DEFINE known == Remember(S[s].recent, m.job)
                   r == [S[s] EXCEPT !.job = m.job, !.recent = known]
        <5>1. S' = [S EXCEPT ![s] = r]
          BY <1>0, <2>7, <4>1 DEF RunMail, m
        <5> HIDE DEF known
        <5>2. r.recent = known /\ r.job = m.job
          BY <2>2 DEF Members
        <5> HIDE DEF r
        <5> QED  BY <5>1, <5>2 DEF known
      <4>2. CASE m.what = "diff"
        <5>1. S' = [S EXCEPT ![s] = [S[s] EXCEPT !.diff = m.diff]]
          BY <1>0, <2>7, <4>2 DEF RunMail, m
        <5>2. [S[s] EXCEPT !.diff = m.diff].recent = S[s].recent /\ [S[s] EXCEPT !.diff = m.diff].job = S[s].job
          BY <2>2 DEF Members
        <5> QED  BY <5>1, <5>2
      <4>3. CASE m.what = "up"
        <5>1. S' = [S EXCEPT ![s] = IF S[s].pend THEN TryAttach(S[s]) ELSE S[s]]
          BY <1>0, <2>7, <4>3 DEF RunMail, m
        <5>2. TryAttach(S[s]).recent = S[s].recent /\ TryAttach(S[s]).job = S[s].job
          BY <2>2 DEF TryAttach, Members
        <5> QED  BY <5>1, <5>2
      <4> QED  BY <3>3, <4>1, <4>2, <4>3
    <3>5. r \in Members
      BY <1>0, <2>3, <3>4
    <3>6. r.recent \in Seq(Given) /\ r.job \in Given \cup {None} /\ (r.job # None => Known(r.job, r.recent))
      <4>1. CASE r.recent = S[s].recent /\ r.job = S[s].job
        BY <2>2, <4>1
      <4>2. CASE r.recent = Remember(S[s].recent, m.job) /\ r.job = m.job
        <5>1. CASE m.job \in Given
          <6>1. /\ Remember(S[s].recent, m.job) \in Seq(Given)
                /\ Known(m.job, Remember(S[s].recent, m.job))
            BY Zenon, <2>5, <5>1
          <6> QED  BY Zenon, <4>2, <5>1, <6>1
        <5>2. CASE m.job = None
          BY <2>2, <2>50, <4>2, <5>2
        <5> QED  BY <3>3, <5>1, <5>2
      <4> QED  BY <3>4, <4>1, <4>2
    <3> QED  BY <1>6, <2>1, <3>1, <3>2, <3>4, <3>5, <3>6
  <2>8. CASE HangUp(s)
    <3> DEFINE r == [Newcomer EXCEPT !.open = FALSE]
    <3>1. S' = [S EXCEPT ![s] = r] /\ mail' = [mail EXCEPT ![s] = <<>>]
      BY <2>8 DEF HangUp
    <3>2. r.recent = <<>> /\ r.job = None
      BY DEF Newcomer
    <3>3. <<>> \in Seq(Given) /\ <<>> \in Seq(GivenMessages)
      OBVIOUS
    <3> HIDE DEF r
    <3>4. r \in Members
      BY <1>0, <2>3, <3>1
    <3> QED  BY <1>6, <2>1, <3>1, <3>2, <3>3, <3>4
  <2> QED  BY <1>7, <2>4, <2>6, <2>7, <2>8
<1> QED  BY <1>2, <1>3, <1>4, <1>5, <1>7, QuietSteps DEF Next, Strand, Handshake, Frames, Miner

\* For any windows, and any numbers a pool gives its jobs on one connection and again on the
\* next: what a session rebuilds for a share of the job it told last is that job, whatever was
\* dropped from its memory, unless a job of another connection is remembered under its number.
THEOREM RebuiltAsTold == Spec => []RebuiltAsHashed
<1>1. StepInv /\ HashInv /\ [Next]_vars => HashInv'
  <2>1. CASE UNCHANGED vars
    BY <2>1, HashStill DEF vars
  <2> QED  BY <2>1, HashSteps
<1>2. HashInv => RebuiltAsHashed
  BY DEF HashInv, RebuiltAsHashed, Known
<1> QED  BY <1>1, <1>2, StepInit, StepNext, HashInit, PTL DEF Spec

(***************************************************************************)
(* The frames and handlers on their way to the pool.                       *)
(***************************************************************************)

Pushes == {f \in [do : {"push"}, frame : {"setup", "open", "share"}, share : Shares \cup {None}] :
             f.frame = "share" => f.share \in Shares}
Calls == [do : {"connect", "stop"}, frame : {"none"}, share : {None}]
           \cup [do : {"submit"}, frame : {"none"}, share : Shares]
Posted == Pushes \cup Calls

Carries(f, x) == f.frame = "share" /\ f.share = x
Submits(f, x) == f.do = "submit" /\ f.share = x

\* Those of the queue being written, then those the strand has yet to run.
Line == c.wq \o strand

\* r is q without the n entries after the k-th; r is q with f behind it.
Cut(r, q, k, n) ==
  /\ k \in Nat /\ n \in Nat /\ k + n <= Len(q) /\ Len(r) = Len(q) - n
  /\ \A i \in 1..Len(r) : r[i] = IF i <= k THEN q[i] ELSE q[i + n]
Grown(r, q, f) == Len(r) = Len(q) + 1 /\ r[Len(q) + 1] = f /\ \A i \in 1..Len(q) : r[i] = q[i]

LEMMA PostedTyped ==
  /\ \A f \in Posted : f.share \in Shares \cup {None} /\ f \in Handlers
  /\ \A f \in Posted : f.do = "push" => f \in Pushes
  /\ \A f \in Pushes : f.do = "push" /\ f.frame \in {"setup", "open", "share"}
                       /\ (f.frame = "share" => f.share \in Shares)
  /\ \A f \in Calls : f.do # "push" /\ f.frame = "none" /\ (f.do = "submit" => f.share \in Shares)
  /\ \A frame \in {"setup", "open"} : Push(frame, None) \in Pushes
  /\ \A x \in Shares : Push("share", x) \in Pushes /\ Handler("submit", x) \in Calls
  /\ Handler("connect", None) \in Calls /\ Handler("stop", None) \in Calls
BY DEF Posted, Pushes, Calls, Handlers, Push, Handler

LEMMA JoinAt ==
  ASSUME NEW s \in Seq(Posted), NEW t \in Seq(Posted)
  PROVE /\ s \o t \in Seq(Posted) /\ Len(s \o t) = Len(s) + Len(t) /\ Len(s) \in Nat /\ Len(t) \in Nat
        /\ \A i \in 1..Len(s) : (s \o t)[i] = s[i]
        /\ \A i \in (Len(s) + 1)..(Len(s) + Len(t)) : (s \o t)[i] = t[i - Len(s)]
<1>1. /\ s \o t \in Seq(Posted) /\ Len(s \o t) = Len(s) + Len(t) /\ Len(s) \in Nat /\ Len(t) \in Nat
      /\ \A i \in 1..Len(s) + Len(t) : (s \o t)[i] = IF i <= Len(s) THEN s[i] ELSE t[i - Len(s)]
  BY ConcatProperties, LenProperties
<1>2. ASSUME NEW i \in 1..Len(s) PROVE (s \o t)[i] = s[i]
  <2>1. i <= Len(s) /\ i \in 1..Len(s) + Len(t)
    BY <1>1
  <2> QED  BY <1>1, <2>1
<1>3. ASSUME NEW i \in (Len(s) + 1)..(Len(s) + Len(t)) PROVE (s \o t)[i] = t[i - Len(s)]
  <2>1. ~(i <= Len(s)) /\ i \in 1..Len(s) + Len(t)
    BY <1>1
  <2> QED  BY <1>1, <2>1
<1> QED  BY <1>1, <1>2, <1>3

LEMMA FirstAndRest ==
  ASSUME NEW s \in Seq(Posted), s # <<>>
  PROVE /\ Head(s) = s[1] /\ Head(s) \in Posted /\ Tail(s) \in Seq(Posted)
        /\ Len(s) \in Nat /\ Len(s) >= 1 /\ Len(Tail(s)) = Len(s) - 1
        /\ \A i \in 1..(Len(s) - 1) : Tail(s)[i] = s[i + 1]
<1>1. Len(s) \in Nat /\ Len(s) >= 1
  BY EmptySeq
<1>2. Head(s) = s[1]
  OBVIOUS
<1> QED  BY <1>1, <1>2, HeadTailProperties

\* The strand posts f.
LEMMA JoinGrows ==
  ASSUME NEW s \in Seq(Posted), NEW t \in Seq(Posted), NEW f \in Posted
  PROVE  Grown(s \o Append(t, f), s \o t, f)
<1> DEFINE w == Append(t, f)
           q == s \o t
           r == s \o w
<1>1. w \in Seq(Posted) /\ Len(w) = Len(t) + 1 /\ w[Len(t) + 1] = f /\ \A i \in 1..Len(t) : w[i] = t[i]
  BY AppendProperties
<1> HIDE DEF w
<1>2. /\ Len(q) = Len(s) + Len(t) /\ Len(s) \in Nat /\ Len(t) \in Nat
      /\ \A i \in 1..Len(s) : q[i] = s[i]
      /\ \A i \in (Len(s) + 1)..(Len(s) + Len(t)) : q[i] = t[i - Len(s)]
  BY JoinAt
<1>3. /\ Len(r) = Len(s) + Len(w)
      /\ \A i \in 1..Len(s) : r[i] = s[i]
      /\ \A i \in (Len(s) + 1)..(Len(s) + Len(w)) : r[i] = w[i - Len(s)]
  BY <1>1, JoinAt, ZenonT(60)
<1> HIDE DEF q, r
<1>4. Len(r) = Len(q) + 1
  BY <1>1, <1>2, <1>3
<1>5. r[Len(q) + 1] = f
  <2>1. Len(q) + 1 \in (Len(s) + 1)..(Len(s) + Len(w)) /\ (Len(q) + 1) - Len(s) = Len(t) + 1
    BY <1>1, <1>2
  <2> QED  BY <1>1, <1>3, <2>1, SMTT(40)
<1>6. ASSUME NEW i \in 1..Len(q)  PROVE r[i] = q[i]
  <2>1. CASE i <= Len(s)
    <3>1. i \in 1..Len(s)
      BY <1>2, <2>1
    <3> QED  BY <1>2, <1>3, <3>1
  <2>2. CASE i > Len(s)
    <3>1. i \in (Len(s) + 1)..(Len(s) + Len(t)) /\ i \in (Len(s) + 1)..(Len(s) + Len(w)) /\ i - Len(s) \in 1..Len(t)
      BY <1>1, <1>2, <2>2
    <3> QED  BY <1>1, <1>2, <1>3, <3>1, SMTT(40)
  <2> QED  BY <1>2, <2>1, <2>2
<1>7. Grown(r, q, f)
  BY <1>4, <1>5, <1>6 DEF Grown
<1> QED  BY <1>7 DEF r, q, w

\* The frame written is taken off.
LEMMA JoinPops ==
  ASSUME NEW s \in Seq(Posted), NEW t \in Seq(Posted), s # <<>>
  PROVE  Cut(Tail(s) \o t, s \o t, 0, 1)
<1> DEFINE w == Tail(s)
           q == s \o t
           r == w \o t
<1>1. w \in Seq(Posted) /\ Len(w) = Len(s) - 1 /\ Len(s) >= 1 /\ \A i \in 1..(Len(s) - 1) : w[i] = s[i + 1]
  BY FirstAndRest
<1> HIDE DEF w
<1>2. /\ Len(q) = Len(s) + Len(t) /\ Len(s) \in Nat /\ Len(t) \in Nat
      /\ \A i \in 1..Len(s) : q[i] = s[i]
      /\ \A i \in (Len(s) + 1)..(Len(s) + Len(t)) : q[i] = t[i - Len(s)]
  BY JoinAt
<1>3. /\ Len(r) = Len(w) + Len(t)
      /\ \A i \in 1..Len(w) : r[i] = w[i]
      /\ \A i \in (Len(w) + 1)..(Len(w) + Len(t)) : r[i] = t[i - Len(w)]
  BY <1>1, JoinAt, ZenonT(60)
<1> HIDE DEF q, r
<1>4. ASSUME NEW i \in 1..Len(r)  PROVE r[i] = q[i + 1]
  <2>1. CASE i <= Len(w)
    <3>1. i \in 1..Len(w) /\ i \in 1..(Len(s) - 1) /\ i + 1 \in 1..Len(s)
      BY <1>1, <1>2, <2>1
    <3>2. r[i] = w[i]
      BY <1>3, <3>1
    <3>3. q[i + 1] = s[i + 1]
      BY <1>2, <3>1
    <3> QED  BY <1>1, <3>1, <3>2, <3>3, ZenonT(60)
  <2>2. CASE i > Len(w)
    <3>1. /\ i \in (Len(w) + 1)..(Len(w) + Len(t)) /\ i + 1 \in (Len(s) + 1)..(Len(s) + Len(t))
          /\ i - Len(w) = (i + 1) - Len(s)
      BY <1>1, <1>2, <1>3, <2>2
    <3> QED  BY <1>2, <1>3, <3>1, ZenonT(60)
  <2> QED  BY <1>1, <1>2, <2>1, <2>2
<1>5. Cut(r, q, 0, 1)
  BY <1>1, <1>2, <1>3, <1>4 DEF Cut
<1> QED  BY <1>5 DEF r, q, w

\* The strand has run its first handler.
LEMMA JoinRuns ==
  ASSUME NEW s \in Seq(Posted), NEW t \in Seq(Posted), t # <<>>
  PROVE  Cut(s \o Tail(t), s \o t, Len(s), 1) /\ (s \o t)[Len(s) + 1] = Head(t)
<1> DEFINE w == Tail(t)
           q == s \o t
           r == s \o w
<1>1. /\ w \in Seq(Posted) /\ Len(w) = Len(t) - 1 /\ Len(t) >= 1 /\ Head(t) = t[1]
      /\ \A i \in 1..(Len(t) - 1) : w[i] = t[i + 1]
  BY FirstAndRest
<1> HIDE DEF w
<1>2. /\ Len(q) = Len(s) + Len(t) /\ Len(s) \in Nat /\ Len(t) \in Nat
      /\ \A i \in 1..Len(s) : q[i] = s[i]
      /\ \A i \in (Len(s) + 1)..(Len(s) + Len(t)) : q[i] = t[i - Len(s)]
  BY JoinAt
<1>3. /\ Len(r) = Len(s) + Len(w)
      /\ \A i \in 1..Len(s) : r[i] = s[i]
      /\ \A i \in (Len(s) + 1)..(Len(s) + Len(w)) : r[i] = w[i - Len(s)]
  BY <1>1, JoinAt
<1> HIDE DEF q, r
<1>4. ASSUME NEW i \in 1..Len(r)  PROVE r[i] = IF i <= Len(s) THEN q[i] ELSE q[i + 1]
  <2>1. CASE i <= Len(s)
    <3>1. i \in 1..Len(s)
      BY <1>2, <2>1
    <3> QED  BY <1>2, <1>3, <2>1, <3>1
  <2>2. CASE ~(i <= Len(s))
    <3>1. /\ i \in (Len(s) + 1)..(Len(s) + Len(w)) /\ i + 1 \in (Len(s) + 1)..(Len(s) + Len(t))
          /\ i - Len(s) \in 1..(Len(t) - 1) /\ (i + 1) - Len(s) = (i - Len(s)) + 1
      BY <1>1, <1>2, <1>3, <2>2, SMTT(40)
    <3>2. r[i] = w[i - Len(s)] /\ q[i + 1] = t[(i + 1) - Len(s)]
      BY <1>2, <1>3, <3>1, ZenonT(60)
    <3>3. w[i - Len(s)] = t[(i - Len(s)) + 1]
      BY <1>1, <3>1, ZenonT(60)
    <3>4. r[i] = q[i + 1]
      BY <3>1, <3>2, <3>3, ZenonT(60)
    <3> QED  BY <2>2, <3>4, ZenonT(60)
  <2> QED  BY <2>1, <2>2
<1>5. Cut(r, q, Len(s), 1)
  BY <1>1, <1>2, <1>3, <1>4 DEF Cut
<1>6. q[Len(s) + 1] = Head(t)
  <2>1. Len(s) + 1 \in (Len(s) + 1)..(Len(s) + Len(t)) /\ (Len(s) + 1) - Len(s) = 1
    BY <1>1, <1>2
  <2> QED  BY <1>1, <1>2, <2>1
<1> QED  BY <1>5, <1>6 DEF r, q, w

\* A posted frame goes to the queue.
LEMMA JoinMoves ==
  ASSUME NEW s \in Seq(Posted), NEW t \in Seq(Posted), t # <<>>
  PROVE  Cut(Append(s, Head(t)) \o Tail(t), s \o t, 0, 0)
<1> DEFINE f == Head(t)
           v == Append(s, f)
           w == Tail(t)
           q == s \o t
           r == v \o w
<1>1. /\ w \in Seq(Posted) /\ Len(w) = Len(t) - 1 /\ Len(t) >= 1 /\ f = t[1] /\ f \in Posted
      /\ \A i \in 1..(Len(t) - 1) : w[i] = t[i + 1]
  BY FirstAndRest
<1> HIDE DEF w, f
<1>2. v \in Seq(Posted) /\ Len(v) = Len(s) + 1 /\ v[Len(s) + 1] = f /\ \A i \in 1..Len(s) : v[i] = s[i]
  BY <1>1, AppendProperties
<1> HIDE DEF v
<1>3. /\ Len(q) = Len(s) + Len(t) /\ Len(s) \in Nat /\ Len(t) \in Nat
      /\ \A i \in 1..Len(s) : q[i] = s[i]
      /\ \A i \in (Len(s) + 1)..(Len(s) + Len(t)) : q[i] = t[i - Len(s)]
  BY JoinAt
<1>4. /\ Len(r) = Len(v) + Len(w)
      /\ \A i \in 1..Len(v) : r[i] = v[i]
      /\ \A i \in (Len(v) + 1)..(Len(v) + Len(w)) : r[i] = w[i - Len(v)]
  BY <1>1, <1>2, JoinAt, ZenonT(60)
<1> HIDE DEF q, r
<1>5. ASSUME NEW i \in 1..Len(r)  PROVE r[i] = q[i]
  <2>1. CASE i <= Len(s)
    <3>1. i \in 1..Len(s) /\ i \in 1..Len(v)
      BY <1>2, <1>3, <2>1
    <3> QED  BY <1>2, <1>3, <1>4, <3>1
  <2>2. CASE i = Len(s) + 1
    <3>1. i \in 1..Len(v) /\ i \in (Len(s) + 1)..(Len(s) + Len(t)) /\ i - Len(s) = 1
      BY <1>1, <1>2, <1>3, <2>2
    <3> QED  BY <1>1, <1>2, <1>3, <1>4, <2>2, <3>1
  <2>3. CASE i > Len(s) + 1
    <3>1. /\ i \in (Len(v) + 1)..(Len(v) + Len(w)) /\ i \in (Len(s) + 1)..(Len(s) + Len(t))
          /\ i - Len(v) \in 1..(Len(t) - 1) /\ i - Len(s) = (i - Len(v)) + 1
      BY <1>1, <1>2, <1>3, <1>4, <2>3, SMTT(40)
    <3>2. r[i] = w[i - Len(v)] /\ q[i] = t[i - Len(s)]
      BY <1>3, <1>4, <3>1, ZenonT(60)
    <3> QED  BY <1>1, <3>1, <3>2, ZenonT(60)
  <2> QED  BY <1>3, <2>1, <2>2, <2>3
<1>6. Cut(r, q, 0, 0)
  <2>1. Len(r) = Len(q) - 0 /\ 0 + 0 <= Len(q)
    BY <1>1, <1>2, <1>3, <1>4
  <2>2. \A i \in 1..Len(r) : r[i] = IF i <= 0 THEN q[i] ELSE q[i + 0]
    BY <1>5
  <2> QED  BY <2>1, <2>2 DEF Cut
<1> QED  BY <1>6 DEF r, q, w, v, f

\* The queue is emptied, and the strand has run its first handler or not.
LEMMA JoinDrops ==
  ASSUME NEW s \in Seq(Posted), NEW t \in Seq(Posted)
  PROVE  /\ Cut(<<>> \o t, s \o t, 0, Len(s))
         /\ t # <<>> => Cut(<<>> \o Tail(t), s \o t, 0, Len(s) + 1)
<1> DEFINE e == <<>>
           q == s \o t
           r == e \o t
<1>0. e \in Seq(Posted) /\ Len(e) = 0
  OBVIOUS
<1> HIDE DEF e
<1>1. /\ Len(q) = Len(s) + Len(t) /\ Len(s) \in Nat /\ Len(t) \in Nat
      /\ \A i \in (Len(s) + 1)..(Len(s) + Len(t)) : q[i] = t[i - Len(s)]
  BY JoinAt
<1>2. /\ Len(r) = 0 + Len(t)
      /\ \A i \in (0 + 1)..(0 + Len(t)) : r[i] = t[i - 0]
  BY <1>0, JoinAt
<1> HIDE DEF q
<1>3. Cut(r, q, 0, Len(s))
  <2> HIDE DEF r
  <2>1. ASSUME NEW i \in 1..Len(r)  PROVE r[i] = q[i + Len(s)] /\ ~(i <= 0)
    <3>1. i \in (0 + 1)..(0 + Len(t)) /\ i + Len(s) \in (Len(s) + 1)..(Len(s) + Len(t)) /\ (i + Len(s)) - Len(s) = i - 0
      BY <1>1, <1>2
    <3> QED  BY <1>1, <1>2, <3>1, SMTT(40)
  <2> QED  BY <1>1, <1>2, <2>1 DEF Cut
<1>4. ASSUME t # <<>>  PROVE Cut(e \o Tail(t), q, 0, Len(s) + 1)
  <2> DEFINE w == Tail(t)
             u == e \o w
  <2>1. w \in Seq(Posted) /\ Len(w) = Len(t) - 1 /\ Len(t) >= 1 /\ \A i \in 1..(Len(t) - 1) : w[i] = t[i + 1]
    BY <1>4, FirstAndRest
  <2> HIDE DEF w
  <2>2. /\ Len(u) = 0 + Len(w)
        /\ \A i \in (0 + 1)..(0 + Len(w)) : u[i] = w[i - 0]
    BY <1>0, <2>1, JoinAt
  <2> HIDE DEF u
  <2>3. ASSUME NEW i \in 1..Len(u)  PROVE u[i] = q[i + (Len(s) + 1)] /\ ~(i <= 0)
    <3>1. /\ i \in (0 + 1)..(0 + Len(w)) /\ i - 0 = i /\ i \in 1..(Len(t) - 1)
          /\ i + (Len(s) + 1) \in (Len(s) + 1)..(Len(s) + Len(t)) /\ (i + (Len(s) + 1)) - Len(s) = i + 1
      BY <1>1, <2>1, <2>2
    <3> QED  BY <1>1, <2>1, <2>2, <3>1, SMTT(40)
  <2>4. Cut(u, q, 0, Len(s) + 1)
    <3>1. Len(s) + 1 \in Nat /\ 0 + (Len(s) + 1) <= Len(q) /\ Len(u) = Len(q) - (Len(s) + 1)
      BY <1>1, <2>1, <2>2
    <3>2. \A i \in 1..Len(u) : u[i] = IF i <= 0 THEN q[i] ELSE q[i + (Len(s) + 1)]
      BY <2>3
    <3> QED  BY <3>1, <3>2 DEF Cut
  <2> QED  BY <2>4 DEF u, w
<1> QED  BY <1>3, <1>4 DEF r, q, e

(***************************************************************************)
(* The connection.                                                         *)
(***************************************************************************)

HasDo(q, do) == \E i \in 1..Len(q) : q[i].do = do

\* Nothing is being sent over d, and nothing in q is about to be.
Calm(d, q) == d.writes = <<>> /\ ~d.connected /\ d.read = "none" /\ ~d.timer /\ ~HasDo(q, "push")

\* A write under way has its frame at the head of wq, and only an open socket has one.
Link(d) ==
  /\ d.writing => d.wq # <<>> /\ d.writes # <<>>
  /\ d.wq # <<>> => d.writing
  /\ \A i \in 1..Len(d.writes) : d.writes[i] = "pending" => d.sock
  /\ d.sock => Len(d.writes) <= 1 /\ (d.writes # <<>> => d.writing)
  /\ d.read = "pending" => d.sock
  /\ d.timer => ~d.connected

\* While the connection is being made nothing is sent; it is first made by the first handler posted.
LinkInv ==
  /\ c.wq \in Seq(Pushes) /\ strand \in Seq(Posted)
  /\ Link(c)
  /\ c.op # "none" => Calm(c, strand)
  /\ HasDo(strand, "connect") => c.op = "none" /\ Calm(c, strand)
  /\ HasDo(strand, "stop") => ~Running
  /\ \A i \in 1..Len(strand) : strand[i].do = "connect" => i = 1

LEMMA TornDownFields ==
  ASSUME NEW d \in Connections
  PROVE  /\ TornDown(d).wq = <<>> /\ TornDown(d).writing = FALSE /\ TornDown(d).sock = FALSE
         /\ TornDown(d).connected = FALSE /\ TornDown(d).timer = (d.timer \/ Running)
         /\ TornDown(d).op = IF d.op = "connect" THEN "failed" ELSE d.op
         /\ TornDown(d).read = IF d.read = "pending" THEN "failed" ELSE d.read
         /\ Len(TornDown(d).writes) = Len(d.writes)
         /\ \A i \in 1..Len(d.writes) : TornDown(d).writes[i] # "pending"
         /\ d.writes = <<>> => TornDown(d).writes = <<>>
<1> DEFINE ends == [i \in DOMAIN d.writes |-> IF d.writes[i] = "pending" THEN "failed" ELSE d.writes[i]]
<1>1. d.writes \in Seq(Ends) /\ ends \in Seq(Ends) /\ Len(ends) = Len(d.writes)
  <2>1. d.writes \in Seq(Ends)
    BY DEF Connections
  <2> QED  BY <2>1 DEF Ends
<1>2. \A i \in 1..Len(d.writes) : ends[i] # "pending"
  BY <1>1
<1>2a. d.writes = <<>> => ends = <<>>
  BY <1>1, EmptySeq
<1> HIDE DEF ends
<1>3. TornDown(d) =
        [d EXCEPT !.connected = FALSE, !.open = FALSE, !.sock = FALSE, !.wq = <<>>, !.writing = FALSE,
                  !.timer = d.timer \/ Running, !.op = IF d.op = "connect" THEN "failed" ELSE d.op,
                  !.read = IF d.read = "pending" THEN "failed" ELSE d.read, !.writes = ends]
  BY DEF TornDown, ends, Connections
<1>4. TornDown(d).writes = ends
  BY <1>3 DEF Connections
<1>5. /\ TornDown(d).wq = <<>> /\ TornDown(d).writing = FALSE /\ TornDown(d).sock = FALSE
      /\ TornDown(d).connected = FALSE /\ TornDown(d).timer = (d.timer \/ Running)
      /\ TornDown(d).op = IF d.op = "connect" THEN "failed" ELSE d.op
      /\ TornDown(d).read = IF d.read = "pending" THEN "failed" ELSE d.read
  BY <1>3, ZenonT(60) DEF Connections
<1> QED  BY <1>1, <1>2, <1>2a, <1>4, <1>5

LEMMA WritingFields ==
  ASSUME NEW d \in Connections
  PROVE  /\ Writing(d).wq = d.wq /\ Writing(d).writing = TRUE /\ Writing(d).sock = d.sock
         /\ Writing(d).connected = d.connected /\ Writing(d).timer = d.timer
         /\ Writing(d).op = d.op /\ Writing(d).read = d.read
         /\ Len(Writing(d).writes) = Len(d.writes) + 1
         /\ \A i \in 1..Len(d.writes) : Writing(d).writes[i] = d.writes[i]
         /\ Writing(d).writes[Len(d.writes) + 1] = IF d.sock THEN "pending" ELSE "failed"
<1> DEFINE end == IF d.sock THEN "pending" ELSE "failed"
           more == Append(d.writes, end)
<1>1. d.writes \in Seq(Ends) /\ end \in Ends
  BY DEF Connections, Ends
<1> HIDE DEF end
<1>2. /\ Len(more) = Len(d.writes) + 1 /\ more[Len(d.writes) + 1] = end
      /\ \A i \in 1..Len(d.writes) : more[i] = d.writes[i]
  BY <1>1, AppendProperties
<1>3. Writing(d) = [d EXCEPT !.writing = TRUE, !.writes = more]
  BY DEF Writing, Connections, end
<1> HIDE DEF more
<1>4. Writing(d).writes = more
  BY <1>3 DEF Connections
<1>5. /\ Writing(d).wq = d.wq /\ Writing(d).writing = TRUE /\ Writing(d).sock = d.sock
      /\ Writing(d).connected = d.connected /\ Writing(d).timer = d.timer
      /\ Writing(d).op = d.op /\ Writing(d).read = d.read
  BY <1>3 DEF Connections
<1> QED  BY <1>2, <1>4, <1>5 DEF end

LEMMA EndFirstFields ==
  ASSUME NEW d \in Connections, NEW end \in Ends
  PROVE  /\ EndFirst(d, end).wq = d.wq /\ EndFirst(d, end).writing = d.writing /\ EndFirst(d, end).sock = d.sock
         /\ EndFirst(d, end).connected = d.connected /\ EndFirst(d, end).timer = d.timer
         /\ EndFirst(d, end).op = d.op /\ EndFirst(d, end).read = d.read
         /\ Len(EndFirst(d, end).writes) = Len(d.writes)
         /\ \A i \in 1..Len(d.writes) : EndFirst(d, end).writes[i] = IF i = 1 THEN end ELSE d.writes[i]
<1> DEFINE ends == [i \in DOMAIN d.writes |-> IF i = 1 THEN end ELSE d.writes[i]]
<1>1. d.writes \in Seq(Ends) /\ ends \in Seq(Ends) /\ Len(ends) = Len(d.writes)
  <2>1. d.writes \in Seq(Ends)
    BY DEF Connections
  <2> QED  BY <2>1 DEF Ends
<1>1a. \A i \in 1..Len(d.writes) : ends[i] = IF i = 1 THEN end ELSE d.writes[i]
  BY <1>1
<1>2. EndFirst(d, end) = [d EXCEPT !.writes = ends]
  BY DEF EndFirst, Connections
<1> HIDE DEF ends
<1>3. EndFirst(d, end).writes = ends
  BY <1>2 DEF Connections
<1>4. /\ EndFirst(d, end).wq = d.wq /\ EndFirst(d, end).writing = d.writing /\ EndFirst(d, end).sock = d.sock
      /\ EndFirst(d, end).connected = d.connected /\ EndFirst(d, end).timer = d.timer
      /\ EndFirst(d, end).op = d.op /\ EndFirst(d, end).read = d.read
  BY <1>2 DEF Connections
<1> QED  BY <1>1, <1>1a, <1>3, <1>4

LEMMA StrandShrinks ==
  ASSUME NEW q \in Seq(Posted), q # <<>>
  PROVE  /\ HasDo(q, Head(q).do)
         /\ \A do : HasDo(Tail(q), do) => HasDo(q, do)
         /\ (\A i \in 1..Len(q) : q[i].do = "connect" => i = 1) => ~HasDo(Tail(q), "connect")
<1>1. /\ Head(q) = q[1] /\ Len(q) \in Nat /\ Len(q) >= 1 /\ Len(Tail(q)) = Len(q) - 1
      /\ \A i \in 1..(Len(q) - 1) : Tail(q)[i] = q[i + 1]
  BY FirstAndRest
<1>2. \A i \in 1..Len(Tail(q)) : i + 1 \in 1..Len(q) /\ i + 1 # 1 /\ Tail(q)[i] = q[i + 1]
  BY <1>1
<1>3. HasDo(q, Head(q).do)
  <2>1. 1 \in 1..Len(q)
    BY <1>1
  <2> QED  BY <1>1, <2>1 DEF HasDo
<1> QED  BY <1>2, <1>3 DEF HasDo

LEMMA StrandGrows ==
  ASSUME NEW q \in Seq(Posted), NEW f \in Posted
  PROVE  /\ \A do : HasDo(Append(q, f), do) <=> HasDo(q, do) \/ f.do = do
         /\ f.do # "connect" /\ (\A i \in 1..Len(q) : q[i].do = "connect" => i = 1)
              => \A i \in 1..Len(Append(q, f)) : Append(q, f)[i].do = "connect" => i = 1
<1> DEFINE r == Append(q, f)
<1>1. /\ Len(r) = Len(q) + 1 /\ r[Len(q) + 1] = f /\ Len(q) \in Nat
      /\ \A i \in 1..Len(q) : r[i] = q[i]
  BY AppendProperties, LenProperties
<1> HIDE DEF r
<1>2. /\ \A i \in 1..Len(r) : i = Len(q) + 1 \/ i \in 1..Len(q)
      /\ \A i \in 1..Len(q) : i \in 1..Len(r)
      /\ Len(q) + 1 \in 1..Len(r)
  BY <1>1
<1>3. \A do : HasDo(r, do) <=> HasDo(q, do) \/ f.do = do
  BY <1>1, <1>2, ZenonT(60) DEF HasDo
<1>4. f.do # "connect" /\ (\A i \in 1..Len(q) : q[i].do = "connect" => i = 1)
              => \A i \in 1..Len(r) : r[i].do = "connect" => i = 1
  BY <1>1, <1>2
<1> QED  BY <1>3, <1>4 DEF r

LEMMA TornDownLinks == ASSUME NEW d \in Connections  PROVE Link(TornDown(d)) /\ TornDown(d).wq \in Seq(Pushes)
<1> DEFINE e == TornDown(d)
<1>1. /\ e.wq = <<>> /\ e.writing = FALSE /\ e.sock = FALSE /\ e.connected = FALSE
      /\ e.read # "pending" /\ Len(e.writes) = Len(d.writes) /\ \A i \in 1..Len(d.writes) : e.writes[i] # "pending"
  BY TornDownFields
<1> HIDE DEF e
<1>2. Link(e) /\ e.wq \in Seq(Pushes)
  BY <1>1 DEF Link
<1> QED  BY <1>2 DEF e

\* While anything is being sent, or is about to be, no connection is being made.
LEMMA Stirs ==
  ASSUME LinkInv, c.writes # <<>> \/ c.connected \/ c.read # "none" \/ HasDo(strand, "push")
  PROVE  c.op = "none" /\ ~HasDo(strand, "connect")
BY DEF LinkInv, Calm

LEMMA LinkInit == Init => LinkInv
<1> SUFFICES ASSUME Init  PROVE LinkInv
  OBVIOUS
<1> DEFINE f == Handler("connect", None)
<1>1. f \in Posted /\ f.do = "connect"
  BY PostedTyped DEF Posted, Handler
<1> HIDE DEF f
<1>2. strand = <<f>> /\ strand \in Seq(Posted) /\ Len(strand) = 1 /\ strand[1] = f
  BY <1>1 DEF Init, f
<1>3. c.wq = <<>> /\ c.writes = <<>> /\ ~c.connected /\ c.read = "none" /\ ~c.timer /\ c.op = "none" /\ ~c.writing
      /\ ~c.sock
  BY DEF Init
<1>4. c.wq \in Seq(Pushes) /\ Len(c.writes) = 0
  BY <1>3
<1>5. ~HasDo(strand, "push") /\ ~HasDo(strand, "stop") /\ \A i \in 1..Len(strand) : i = 1
  BY <1>1, <1>2 DEF HasDo
<1> QED  BY <1>2, <1>3, <1>4, <1>5 DEF LinkInv, Link, Calm

LEMMA LinkNext == DownInv /\ LinkInv /\ [Next]_vars => LinkInv'
<1> SUFFICES ASSUME DownInv, LinkInv, [Next]_vars  PROVE LinkInv'
  OBVIOUS
<1>a. c \in Connections /\ c.wq \in Seq(Pushes) /\ strand \in Seq(Posted) /\ Link(c) /\ c.writes \in Seq(Ends)
      /\ c.connected \in BOOLEAN /\ c.timer \in BOOLEAN /\ c.sock \in BOOLEAN /\ c.writing \in BOOLEAN
  BY DEF DownInv, LinkInv, Connections
<1>b. ASSUME UNCHANGED <<strand, stopped>>, c'.wq \in Seq(Pushes), Link(c'),
             c'.op # "none" => Calm(c', strand), ~HasDo(strand, "connect")
      PROVE  LinkInv'
  BY <1>b DEF LinkInv, Running
<1>c. ASSUME UNCHANGED <<c, strand, stopped>>  PROVE LinkInv'
  BY <1>c DEF LinkInv, Running
\* The strand has run its first handler; r is what is left.
<1>d. ASSUME strand # <<>>, UNCHANGED stopped, strand' = Tail(strand), c'.wq \in Seq(Pushes), Link(c'),
             c'.op # "none" => Calm(c', strand) \/ Calm(c', Tail(strand))
      PROVE  LinkInv'
  <2>1. /\ Tail(strand) \in Seq(Posted) /\ ~HasDo(Tail(strand), "connect")
        /\ \A do : HasDo(Tail(strand), do) => HasDo(strand, do)
    BY <1>a, <1>d, FirstAndRest, StrandShrinks DEF LinkInv
  <2>2. \A i \in 1..Len(Tail(strand)) : Tail(strand)[i].do # "connect"
    BY <2>1 DEF HasDo
  <2>3. Calm(c', strand) => Calm(c', Tail(strand))
    BY <2>1 DEF Calm
  <2> QED  BY <1>d, <2>1, <2>2, <2>3 DEF LinkInv, Running
\* The strand is posted f.
<1>e. ASSUME UNCHANGED stopped, NEW q \in Seq(Posted), q = strand \/ (strand # <<>> /\ q = Tail(strand)),
             NEW f \in Pushes, strand' = Append(q, f), c'.wq \in Seq(Pushes), Link(c'), c'.op = "none",
             ~HasDo(strand, "connect")
      PROVE  LinkInv'
  <2>1. \A do : HasDo(q, do) => HasDo(strand, do)
    BY <1>a, <1>e, StrandShrinks, ZenonT(60)
  <2>2. f \in Posted /\ f.do = "push"
    BY PostedTyped DEF Posted
  <2>3. \A do : HasDo(Append(q, f), do) <=> HasDo(q, do) \/ f.do = do
    BY <2>2, StrandGrows
  <2>4. Append(q, f) \in Seq(Posted)
    BY <2>2
  <2>5. ~HasDo(strand', "connect") /\ (HasDo(strand', "stop") => ~Running)
    BY <1>e, <2>1, <2>2, <2>3 DEF LinkInv
  <2>6. \A i \in 1..Len(strand') : strand'[i].do # "connect"
    BY <2>5 DEF HasDo
  <2> QED  BY <1>e, <2>4, <2>5, <2>6 DEF LinkInv, Running
<1>1. CASE UNCHANGED vars
  BY <1>1, <1>c DEF vars
<1>2. CASE ConnectPosted
  <2>1. strand # <<>> /\ strand' = Tail(strand) /\ UNCHANGED stopped /\ HasDo(strand, "connect")
    BY <1>2, <1>a, StrandShrinks DEF ConnectPosted, Runs
  <2>2. c.op = "none" /\ Calm(c, strand)
    BY <2>1 DEF LinkInv
  <2>3. c' = c \/ c' = [c EXCEPT !.connected = FALSE, !.open = FALSE, !.op = "resolve"]
    BY <1>2 DEF ConnectPosted, Connect
  <2>4. /\ c'.wq = c.wq /\ c'.writes = c.writes /\ c'.writing = c.writing /\ c'.sock = c.sock
        /\ c'.read = c.read /\ c'.timer = c.timer /\ (c'.connected => c.connected)
    BY <1>a, <2>3, ZenonT(60) DEF Connections
  <2>5. Link(c')
    BY <1>a, <2>4 DEF Link
  <2>6. Calm(c', strand)
    BY <2>2, <2>4 DEF Calm
  <2> QED  BY <1>a, <1>d, <2>1, <2>4, <2>5, <2>6
<1>3. CASE StopPosted
  <2>1. strand # <<>> /\ strand' = Tail(strand) /\ c' = TornDown(c) /\ HasDo(strand, "stop") /\ stopped' # "no"
    BY <1>3, <1>a, StrandShrinks DEF StopPosted, Runs, Teardown
  <2>2. ~Running /\ ~Running'
    BY <2>1 DEF LinkInv, Running
  <2>3. /\ Tail(strand) \in Seq(Posted) /\ ~HasDo(Tail(strand), "connect")
        /\ \A do : HasDo(Tail(strand), do) => HasDo(strand, do)
    BY <1>a, <2>1, FirstAndRest, StrandShrinks DEF LinkInv
  <2>4. \A i \in 1..Len(Tail(strand)) : Tail(strand)[i].do # "connect"
    BY <2>3 DEF HasDo
  <2>5. Link(c') /\ c'.wq \in Seq(Pushes)
    BY <1>a, <2>1, TornDownLinks
  <2>6. ASSUME c'.op # "none"  PROVE Calm(c', Tail(strand))
    <3>1. /\ c'.op = (IF c.op = "connect" THEN "failed" ELSE c.op) /\ c'.connected = FALSE
          /\ c'.timer = (c.timer \/ Running) /\ c'.read = (IF c.read = "pending" THEN "failed" ELSE c.read)
          /\ c.writes = <<>> => c'.writes = <<>>
      BY <1>a, <2>1, TornDownFields
    <3>2. Calm(c, strand)
      BY <2>6, <3>1 DEF LinkInv
    <3> QED  BY <2>2, <2>3, <3>1, <3>2 DEF Calm
  <2> QED  BY <2>1, <2>2, <2>3, <2>4, <2>5, <2>6 DEF LinkInv
<1>4. CASE SubmitPosted
  <2>1. strand # <<>> /\ UNCHANGED <<c, stopped>> /\ Head(strand) \in Posted /\ Tail(strand) \in Seq(Posted)
        /\ Head(strand).do = "submit"
    BY <1>4, <1>a, FirstAndRest DEF SubmitPosted, Runs
  <2>2. CASE c.connected
    <3>1. Head(strand).share \in Shares
      BY <2>1, PostedTyped DEF Posted
    <3>2. Push("share", Head(strand).share) \in Pushes
      BY <3>1, PostedTyped
    <3>3. c'.op = "none" /\ ~HasDo(strand, "connect")
      BY <2>1, <2>2, Stirs
    <3>4. strand' = Append(Tail(strand), Push("share", Head(strand).share))
      BY <1>4, <2>2 DEF SubmitPosted
    <3> QED  BY <1>a, <1>e, <2>1, <3>2, <3>3, <3>4
  <2>3. CASE ~c.connected
    <3>1. strand' = Tail(strand)
      BY <1>4, <2>3 DEF SubmitPosted
    <3>2. c'.op # "none" => Calm(c', strand)
      BY <2>1 DEF LinkInv
    <3> QED  BY <1>a, <1>d, <2>1, <3>1, <3>2
  <2> QED  BY <2>2, <2>3
<1>5. CASE PushFrame
  <2> DEFINE d == [c EXCEPT !.wq = Append(c.wq, Head(strand))]
  <2>1. /\ strand # <<>> /\ strand' = Tail(strand) /\ UNCHANGED stopped /\ HasDo(strand, "push")
        /\ c' = IF c.writing THEN d ELSE Writing(d)
    BY <1>5, <1>a, StrandShrinks DEF PushFrame, Runs, Connections
  <2>2. c.op = "none"
    BY <2>1, Stirs
  <2>3. Head(strand) \in Pushes
    BY <1>5, <1>a, FirstAndRest, PostedTyped DEF PushFrame, Runs
  <2>4. Append(c.wq, Head(strand)) \in Seq(Pushes) /\ Append(c.wq, Head(strand)) # <<>>
    BY <1>a, <2>3, SMTT(40)
  <2>5. /\ d.wq = Append(c.wq, Head(strand)) /\ d.writes = c.writes /\ d.writing = c.writing /\ d.sock = c.sock
        /\ d.read = c.read /\ d.timer = c.timer /\ d.connected = c.connected /\ d.op = c.op
    BY <1>a DEF Connections
  <2>6. d \in Connections
    <3>1. c.wq \in Seq(Handlers) /\ Head(strand) \in Handlers
      BY <1>a, <2>3, PostedTyped DEF Connections, Posted
    <3>2. Append(c.wq, Head(strand)) \in Seq(Handlers)
      BY <3>1
    <3> QED  BY <1>a, <3>2 DEF Connections
  <2> HIDE DEF d
  <2>7. c'.op = "none" /\ c'.wq \in Seq(Pushes)
    BY <2>1, <2>2, <2>4, <2>5, <2>6, WritingFields, ZenonT(60)
  <2>8. CASE c.writing
    <3>1. Link(c')
      BY <1>a, <2>1, <2>4, <2>5, <2>8 DEF Link
    <3> QED  BY <1>d, <2>1, <2>7, <3>1
  <2>9. CASE ~c.writing
    <3>1. /\ c'.wq # <<>> /\ c'.writing = TRUE /\ c'.sock = c.sock /\ c'.connected = c.connected
          /\ c'.timer = c.timer /\ c'.read = c.read /\ Len(c'.writes) = Len(c.writes) + 1
          /\ \A i \in 1..Len(c.writes) : c'.writes[i] = c.writes[i]
          /\ c'.writes[Len(c.writes) + 1] = IF c.sock THEN "pending" ELSE "failed"
      <4>1. c' = Writing(d)
        BY <2>1, <2>9
      <4>2. /\ c'.wq = d.wq /\ c'.writing = TRUE /\ c'.sock = d.sock /\ c'.connected = d.connected
            /\ c'.timer = d.timer /\ c'.read = d.read /\ Len(c'.writes) = Len(d.writes) + 1
            /\ \A i \in 1..Len(d.writes) : c'.writes[i] = d.writes[i]
            /\ c'.writes[Len(d.writes) + 1] = IF d.sock THEN "pending" ELSE "failed"
        BY <2>6, <4>1, WritingFields
      <4> QED  BY <2>4, <2>5, <4>2
    <3>2. Len(c.writes) \in Nat /\ (c.sock => Len(c.writes) = 0)
      BY <1>a, <2>9, LenProperties DEF Link
    <3>3. c'.writes # <<>> /\ (c'.sock => Len(c'.writes) <= 1)
      BY <3>1, <3>2
    <3>4. \A i \in 1..Len(c'.writes) : i \in 1..Len(c.writes) \/ i = Len(c.writes) + 1
      BY <3>1, <3>2
    <3>5. \A i \in 1..Len(c'.writes) : c'.writes[i] = "pending" => c'.sock
      BY <1>a, <3>1, <3>4 DEF Link
    <3>6. Link(c')
      BY <1>a, <3>1, <3>3, <3>5 DEF Link
    <3> QED  BY <1>d, <2>1, <2>7, <3>6
  <2> QED  BY <1>a, <2>8, <2>9

<1>6. CASE TimerFires
  <2>1. /\ c.timer /\ c.op = "none" /\ c.read = "none" /\ c.writes = <<>> /\ UNCHANGED <<strand, stopped>>
        /\ \A i \in DOMAIN strand : strand[i].do = "stop"
    BY <1>6 DEF TimerFires
  <2>2. ~HasDo(strand, "push") /\ ~HasDo(strand, "connect")
    BY <1>a, <2>1 DEF HasDo
  <2>3. c' = [c EXCEPT !.timer = FALSE]
        \/ c' = [c EXCEPT !.timer = FALSE, !.connected = FALSE, !.open = FALSE, !.op = "resolve"]
    BY <1>6, <1>a DEF TimerFires, Connect, Connections
  <2>4. /\ c'.wq = c.wq /\ c'.writes = c.writes /\ c'.writing = c.writing /\ c'.sock = c.sock
        /\ c'.read = c.read /\ ~c'.timer /\ (c'.connected => c.connected)
    BY <1>a, <2>3, ZenonT(60) DEF Connections
  <2>5. Link(c') /\ Calm(c', strand)
    BY <1>a, <2>1, <2>2, <2>4 DEF Link, Calm
  <2> QED  BY <1>a, <1>b, <2>1, <2>2, <2>4, <2>5
<1>7. CASE Resolved
  <2>1. c.op = "resolve" /\ c' = [c EXCEPT !.op = "connect"] /\ UNCHANGED <<strand, stopped>>
    BY <1>7 DEF Resolved
  <2>2. /\ c'.wq = c.wq /\ c'.writes = c.writes /\ c'.writing = c.writing /\ c'.sock = c.sock
        /\ c'.read = c.read /\ c'.timer = c.timer /\ c'.connected = c.connected
    BY <1>a, <2>1 DEF Connections
  <2>3. Link(c') /\ Calm(c', strand) /\ ~HasDo(strand, "connect")
    BY <1>a, <2>1, <2>2 DEF Link, Calm, LinkInv
  <2> QED  BY <1>a, <1>b, <2>1, <2>2, <2>3
\* A teardown of what stirs, or of an attempt that has ended.
<1>8. ASSUME NEW d \in Connections, d.op = "none", c' = TornDown(d), UNCHANGED <<strand, stopped>>,
             ~HasDo(strand, "connect")
      PROVE  LinkInv'
  <2>1. c'.op = "none" /\ Link(c') /\ c'.wq \in Seq(Pushes)
    BY <1>8, TornDownFields, TornDownLinks
  <2> QED  BY <1>8, <1>b, <2>1
<1>9. CASE ResolveFails \/ ConnectFails
  <2>1. c' = TornDown([c EXCEPT !.op = "none"]) /\ c.op # "none" /\ UNCHANGED <<strand, stopped>>
    BY <1>9 DEF ResolveFails, ConnectFails, Teardown
  <2>2. [c EXCEPT !.op = "none"] \in Connections /\ [c EXCEPT !.op = "none"].op = "none"
    BY <1>a DEF Connections
  <2>3. ~HasDo(strand, "connect")
    BY <2>1 DEF LinkInv
  <2> QED  BY <1>8, <2>1, <2>2, <2>3
<1>10. CASE Connected
  <2>1. /\ c.op = "done" /\ strand' = Append(strand, Push("setup", None)) /\ UNCHANGED stopped
        /\ c' = [c EXCEPT !.op = "none", !.connected = TRUE, !.read = IF c.sock THEN "pending" ELSE "failed"]
    BY <1>10 DEF Connected
  <2>2. /\ c'.wq = c.wq /\ c'.writes = c.writes /\ c'.writing = c.writing /\ c'.sock = c.sock
        /\ c'.timer = c.timer /\ c'.read = (IF c.sock THEN "pending" ELSE "failed") /\ c'.op = "none"
    BY <1>a, <2>1 DEF Connections
  <2>3. ~HasDo(strand, "connect") /\ ~c.timer
    BY <2>1 DEF LinkInv, Calm
  <2>4. Link(c')
    BY <1>a, <2>2, <2>3 DEF Link
  <2>5. Push("setup", None) \in Pushes
    BY PostedTyped
  <2> QED  BY <1>a, <1>e, <2>1, <2>2, <2>3, <2>4, <2>5, SMTT(40)
<1>11. CASE WriteEnds
  <2> DEFINE e == [c EXCEPT !.writes = Tail(c.writes), !.wq = <<>>, !.writing = FALSE]
             f == [c EXCEPT !.writes = Tail(c.writes), !.wq = Tail(c.wq)]
  <2>1. /\ c.writes # <<>> /\ UNCHANGED <<strand, stopped>> /\ c.op = "none" /\ ~HasDo(strand, "connect")
    BY <1>11, Stirs DEF WriteEnds
  <2>2. /\ Len(Tail(c.writes)) = Len(c.writes) - 1 /\ Len(c.writes) \in Nat /\ Len(c.writes) >= 1
        /\ \A i \in 1..(Len(c.writes) - 1) : Tail(c.writes)[i] = c.writes[i + 1]
        /\ Tail(c.writes) \in Seq(Ends)
    <3>1. Len(c.writes) \in Nat /\ Len(c.writes) >= 1
      BY <1>a, <2>1, EmptySeq
    <3> QED  BY <1>a, <2>1, <3>1, HeadTailProperties
  <2>3. \/ c.wq = <<>> /\ c' = c
        \/ c.wq # <<>> /\ Len(c.wq) = 1 /\ c' = e
        \/ c.wq # <<>> /\ Len(c.wq) # 1 /\ c' = Writing(f)
    BY <1>11, <1>a DEF WriteEnds, Connections
  <2>4. \A i \in 1..Len(Tail(c.writes)) : Tail(c.writes)[i] = "pending" => c.sock
    <3>1. \A i \in 1..Len(Tail(c.writes)) : i \in 1..(Len(c.writes) - 1) /\ i + 1 \in 1..Len(c.writes)
      BY <2>2
    <3> QED  BY <1>a, <2>2, <3>1 DEF Link
  <2>5. c.sock => Len(Tail(c.writes)) = 0
    <3>1. c.sock => Len(c.writes) <= 1
      BY <1>a DEF Link
    <3>2. Len(c.writes) <= 1 => Len(Tail(c.writes)) = 0
      <4> DEFINE m == Len(Tail(c.writes))
                 n == Len(c.writes)
      <4>1. m = n - 1 /\ n \in Nat /\ n >= 1
        BY <2>2
      <4> HIDE DEF m, n
      <4>2. n <= 1 => m = 0
        BY <4>1
      <4> QED  BY <4>2 DEF m, n
    <3> QED  BY <3>1, <3>2
  <2>6. CASE c.wq = <<>> /\ c' = c
    BY <1>c, <2>1, <2>6
  <2>7. CASE c.wq # <<>> /\ c' = e
    <3>1. /\ e.wq = <<>> /\ e.writing = FALSE /\ e.writes = Tail(c.writes) /\ e.sock = c.sock
          /\ e.read = c.read /\ e.timer = c.timer /\ e.connected = c.connected /\ e.op = c.op
      BY <1>a DEF Connections
    <3> HIDE DEF e
    <3>2. c.sock => Tail(c.writes) = <<>>
      BY <2>2, <2>5, EmptySeq
    <3>3. Link(c') /\ c'.wq \in Seq(Pushes)
      BY <1>a, <2>4, <2>5, <2>7, <3>1, <3>2 DEF Link
    <3> QED  BY <1>b, <2>1, <2>7, <3>1, <3>3
  <2>8. CASE c.wq # <<>> /\ Len(c.wq) # 1 /\ c' = Writing(f)
    <3>0. Tail(c.wq) \in Seq(Pushes) /\ Tail(c.wq) # <<>>
      <4>1. Len(c.wq) \in Nat /\ Len(c.wq) >= 1
        BY <1>a, <2>8, EmptySeq
      <4>2. Len(Tail(c.wq)) = Len(c.wq) - 1 /\ Tail(c.wq) \in Seq(Pushes)
        BY <1>a, <2>8, HeadTailProperties
      <4>3. Len(Tail(c.wq)) # 0
        BY <2>8, <4>1, <4>2
      <4> QED  BY <4>2, <4>3, EmptySeq
    <3>1. /\ f.wq = Tail(c.wq) /\ f.writing = c.writing /\ f.writes = Tail(c.writes) /\ f.sock = c.sock
          /\ f.read = c.read /\ f.timer = c.timer /\ f.connected = c.connected /\ f.op = c.op
      BY <1>a DEF Connections
    <3>2. f \in Connections
      <4>1. c.wq \in Seq(Handlers)
        BY <1>a DEF Connections
      <4>2. Tail(c.wq) \in Seq(Handlers)
        BY <4>1, <2>8, HeadTailProperties
      <4> QED  BY <1>a, <2>2, <4>2 DEF Connections
    <3> HIDE DEF f
    <3>3. /\ c'.wq = Tail(c.wq) /\ c'.writing = TRUE /\ c'.sock = c.sock /\ c'.connected = c.connected
          /\ c'.timer = c.timer /\ c'.read = c.read /\ c'.op = c.op /\ Len(c'.writes) = Len(Tail(c.writes)) + 1
          /\ \A i \in 1..Len(Tail(c.writes)) : c'.writes[i] = Tail(c.writes)[i]
          /\ c'.writes[Len(Tail(c.writes)) + 1] = IF c.sock THEN "pending" ELSE "failed"
      <4>1. /\ c'.wq = f.wq /\ c'.writing = TRUE /\ c'.sock = f.sock /\ c'.connected = f.connected
            /\ c'.timer = f.timer /\ c'.read = f.read /\ c'.op = f.op /\ Len(c'.writes) = Len(f.writes) + 1
            /\ \A i \in 1..Len(f.writes) : c'.writes[i] = f.writes[i]
            /\ c'.writes[Len(f.writes) + 1] = IF f.sock THEN "pending" ELSE "failed"
        BY <2>8, <3>2, WritingFields
      <4> QED  BY <3>1, <4>1
    <3>4. c'.writes # <<>> /\ (c'.sock => Len(c'.writes) <= 1)
      BY <2>2, <2>5, <3>3
    <3>5. \A i \in 1..Len(c'.writes) : i \in 1..Len(Tail(c.writes)) \/ i = Len(Tail(c.writes)) + 1
      BY <2>2, <3>3
    <3>6. \A i \in 1..Len(c'.writes) : c'.writes[i] = "pending" => c'.sock
      BY <2>4, <3>3, <3>5, SMTT(40)
    <3>7. Link(c')
      BY <1>a, <3>0, <3>3, <3>4, <3>6 DEF Link
    <3> QED  BY <1>b, <2>1, <3>0, <3>3, <3>7
  <2> QED  BY <2>3, <2>6, <2>7, <2>8
<1>12. CASE WriteFails
  <2> DEFINE d == [c EXCEPT !.writes = Tail(c.writes), !.writing = FALSE]
  <2>1. c.writes # <<>> /\ UNCHANGED <<strand, stopped>> /\ c.op = "none" /\ ~HasDo(strand, "connect")
    BY <1>12, Stirs DEF WriteFails
  <2>2. d \in Connections /\ d.op = "none"
    <3>1. Tail(c.writes) \in Seq(Ends)
      BY <1>a, <2>1
    <3> QED  BY <1>a, <2>1, <3>1 DEF Connections
  <2>3. c' = TornDown(d)
    BY <1>12, <1>a DEF WriteFails, Teardown
  <2> QED  BY <1>8, <2>1, <2>2, <2>3
<1>13. CASE ReadFails \/ Refused
  <2>1. c.read # "none" /\ c' = TornDown([c EXCEPT !.read = "none"]) /\ UNCHANGED <<strand, stopped>>
    BY <1>13 DEF ReadFails, Refused, Reads, Teardown
  <2>2. c.op = "none" /\ ~HasDo(strand, "connect")
    BY <2>1, Stirs
  <2>3. [c EXCEPT !.read = "none"] \in Connections /\ [c EXCEPT !.read = "none"].op = "none"
    BY <1>a, <2>2, SMTT(40) DEF Connections
  <2> QED  BY <1>8, <2>1, <2>2, <2>3
\* What is being written ends.
<1>14. ASSUME NEW d \in Connections, Link(d), d.wq = c.wq, d.op = c.op, NEW end \in {"done", "failed"},
              c' = EndFirst(d, end), c.writes # <<>>, UNCHANGED <<strand, stopped>>
       PROVE  LinkInv'
  <2>1. c.op = "none" /\ ~HasDo(strand, "connect")
    BY <1>14, Stirs
  <2>2. /\ c'.wq = d.wq /\ c'.writing = d.writing /\ c'.sock = d.sock /\ c'.connected = d.connected
        /\ c'.timer = d.timer /\ c'.op = d.op /\ c'.read = d.read /\ Len(c'.writes) = Len(d.writes)
        /\ \A i \in 1..Len(d.writes) : c'.writes[i] = IF i = 1 THEN end ELSE d.writes[i]
    BY <1>14, EndFirstFields DEF Ends
  <2>3. d.writes \in Seq(Ends) /\ c'.writes \in Seq(Ends)
    BY <1>14, EndFirstTyped DEF Connections, Ends
  <2>4. d.writes = <<>> <=> c'.writes = <<>>
    BY <2>2, <2>3, EmptySeq
  <2>5. \A i \in 1..Len(d.writes) : c'.writes[i] = "pending" => d.writes[i] = "pending"
    BY <2>2
  <2>6. Link(c')
    BY <1>14, <2>2, <2>4, <2>5 DEF Link
  <2> QED  BY <1>14, <1>a, <1>b, <2>1, <2>2, <2>6
<1>15. CASE Written
  BY <1>15, <1>14, <1>a DEF Written
<1>16. CASE Dialed
  <2>1. c.op = "connect" /\ c' = [c EXCEPT !.op = "done", !.sock = TRUE] /\ UNCHANGED <<strand, stopped>>
    BY <1>16 DEF Dialed
  <2>2. /\ c'.wq = c.wq /\ c'.writes = c.writes /\ c'.writing = c.writing /\ c'.sock = TRUE
        /\ c'.read = c.read /\ c'.timer = c.timer /\ c'.connected = c.connected
    BY <1>a, <2>1 DEF Connections
  <2>3. Calm(c, strand) /\ Len(c.writes) = 0 /\ ~HasDo(strand, "connect")
    BY <2>1 DEF Calm, LinkInv
  <2>4. Link(c') /\ Calm(c', strand)
    BY <1>a, <2>2, <2>3 DEF Link, Calm
  <2> QED  BY <1>a, <1>b, <2>1, <2>2, <2>3, <2>4
<1>17. CASE Breaks
  <2>0. UNCHANGED <<strand, stopped>>
    BY <1>17 DEF Breaks
  <2> DEFINE d == [c EXCEPT !.read = "failed"]
  <2>1. d \in Connections /\ Link(d) /\ d.wq = c.wq /\ d.op = c.op
    <3>1. /\ d.wq = c.wq /\ d.writes = c.writes /\ d.writing = c.writing /\ d.sock = c.sock
          /\ d.read = "failed" /\ d.timer = c.timer /\ d.connected = c.connected /\ d.op = c.op
      BY <1>a DEF Connections
    <3>2. d \in Connections
      BY <1>a DEF Connections
    <3> QED  BY <1>a, <3>1, <3>2 DEF Link
  <2>2. CASE c.op = "connect" /\ c' = [c EXCEPT !.op = "failed"]
    <3>1. /\ c'.wq = c.wq /\ c'.writes = c.writes /\ c'.writing = c.writing /\ c'.sock = c.sock
          /\ c'.read = c.read /\ c'.timer = c.timer /\ c'.connected = c.connected
      BY <1>a, <2>2 DEF Connections
    <3>2. Link(c') /\ Calm(c', strand) /\ ~HasDo(strand, "connect")
      BY <1>a, <2>2, <3>1 DEF Link, Calm, LinkInv
    <3> QED  BY <1>a, <1>b, <2>0, <3>1, <3>2
  <2>3. CASE c.read = "pending" /\ c' = d
    <3>1. c.op = "none" /\ ~HasDo(strand, "connect")
      BY <2>3, Stirs
    <3> QED  BY <1>a, <1>b, <2>0, <2>1, <2>3, <3>1
  <2>4. CASE c.writes # <<>> /\ \E end \in {"done", "failed"} : c' = EndFirst(d, end)
    <3> HIDE DEF d
    <3> QED  BY <1>14, <2>0, <2>1, <2>4
  <2> QED  BY <1>17, <2>2, <2>3, <2>4 DEF Breaks
<1>18. CASE SetupAnswered
  <2>1. c.connected /\ UNCHANGED <<c, stopped>> /\ strand' = Append(strand, Push("open", None))
    BY <1>18 DEF SetupAnswered, Reads
  <2>2. c.op = "none" /\ ~HasDo(strand, "connect")
    BY <2>1, Stirs
  <2>3. Push("open", None) \in Pushes
    BY PostedTyped
  <2> QED  BY <1>a, <1>e, <2>1, <2>2, <2>3, SMTT(40)
<1>19. CASE ChannelOpened
  <2>1. c.connected /\ c' = [c EXCEPT !.open = TRUE] /\ UNCHANGED <<strand, stopped>>
    BY <1>19 DEF ChannelOpened, Reads
  <2>2. /\ c'.wq = c.wq /\ c'.writes = c.writes /\ c'.writing = c.writing /\ c'.sock = c.sock
        /\ c'.read = c.read /\ c'.timer = c.timer /\ c'.connected = c.connected /\ c'.op = c.op
    BY <1>a, <2>1 DEF Connections
  <2>3. c.op = "none" /\ ~HasDo(strand, "connect")
    BY <2>1, Stirs
  <2>4. Link(c')
    BY <1>a, <2>2 DEF Link
  <2> QED  BY <1>a, <1>b, <2>1, <2>2, <2>3, <2>4
\* A handler is posted that sends nothing yet.
<1>20. ASSUME NEW f \in Calls, f.do # "connect", strand' = Append(strand, f), UNCHANGED c,
              f.do = "stop" \/ ~Running => ~Running'
       PROVE  LinkInv'
  <2>1. f \in Posted /\ f.do # "push"
    BY PostedTyped DEF Posted
  <2>2. /\ \A do : HasDo(strand', do) <=> HasDo(strand, do) \/ f.do = do
        /\ \A i \in 1..Len(strand') : strand'[i].do = "connect" => i = 1
    BY <1>20, <1>a, <2>1, StrandGrows DEF LinkInv
  <2>3. strand' \in Seq(Posted)
    BY <1>20, <1>a, <2>1
  <2>4. Calm(c, strand) => Calm(c', strand')
    BY <1>20, <2>1, <2>2 DEF Calm
  <2> QED  BY <1>20, <2>2, <2>3, <2>4 DEF LinkInv
<1>21. CASE Stop
  <2>1. Handler("stop", None) \in Calls /\ Handler("stop", None).do = "stop"
    BY PostedTyped DEF Handler
  <2> QED  BY <1>20, <1>21, <2>1 DEF Stop, Running
<1>22. ASSUME NEW s \in Sessions, Submit(s)  PROVE LinkInv'
  <2>1. UNCHANGED <<c, stopped>>
    BY <1>22 DEF Submit, Theirs
  <2>2. CASE UNCHANGED strand
    BY <1>c, <2>1, <2>2
  <2>3. ASSUME NEW x \in Shares, strand' = Append(strand, Handler("submit", x))  PROVE LinkInv'
    <3>1. Handler("submit", x) \in Calls /\ Handler("submit", x).do = "submit"
      BY PostedTyped DEF Handler
    <3> QED  BY <1>20, <2>1, <2>3, <3>1 DEF Running
  <2> QED  BY <1>22, <2>2, <2>3 DEF Submit
<1>23. ASSUME NEW s \in Sessions,
              Subscribe(s) \/ Attach(s) \/ RegisterWaiter(s) \/ ReadDiff(s) \/ ReadJob(s) \/ RunMail(s) \/ HangUp(s)
       PROVE  LinkInv'
  BY <1>23, <1>c DEF Subscribe, Attach, RegisterWaiter, ReadDiff, ReadJob, RunMail, HangUp, Theirs
<1>24. CASE Broadcast \/ NotifyWaiters \/ NewPrevHash \/ SetTarget \/ SharesAccepted \/ ShareRefused
            \/ \E n \in Jobs : FutureJob(n) \/ ActiveJob(n)
  BY <1>24, <1>c DEF Broadcast, NotifyWaiters, NewPrevHash, SetTarget, SharesAccepted, ShareRefused, FutureJob,
          ActiveJob
<1> QED  BY <1>1, <1>2, <1>3, <1>4, <1>5, <1>6, <1>7, <1>9, <1>10, <1>11, <1>12, <1>13, <1>15, <1>16, <1>17,
            <1>18, <1>19, <1>21, <1>22, <1>23, <1>24, SMTT(40) DEF Next, Strand, Network, Handshake, Frames, Miner

(***************************************************************************)
(* What becomes of a share.                                                *)
(***************************************************************************)

Entries ==
  [at : {"none", "posted", "pending", "over"}, seq : 0..MaxShares, lost : BOOLEAN,
   judged : {"no", "good", "bad"}, got : Nat, said : {"nothing", "unsent", "accepted", "refused"}]

\* A share is numbered when it is sent, judged after that, and told of once.
Sound(r) ==
  /\ r.at \in {"none", "posted"} => r.seq = 0
  /\ r.at = "pending" => r.seq # 0
  /\ r.seq = 0 => r.judged = "no"
  /\ r.at # "over" => r.got = 0 /\ r.said = "nothing"
  /\ r.got <= 1
  /\ r.said = "accepted" => r.judged = "good" \/ r.lost
  /\ r.said = "refused" => r.judged = "bad"

\* n - 1 shares have been numbered, from one on.
Numbers(sh) == {x \in Shares : sh[x].seq # 0}
Ledger(sh, n) ==
  /\ sh \in [Shares -> Entries] /\ n \in Nat \ {0} /\ Cardinality(Numbers(sh)) = n - 1
  /\ \A x \in Shares : Sound(sh[x]) /\ sh[x].seq < n
  /\ \A x, y \in Numbers(sh) : sh[x].seq = sh[y].seq => x = y

LEMMA LedgerKept ==
  ASSUME NEW sh, NEW n, Ledger(sh, n), NEW tab \in [Shares -> Entries],
         \A x \in Shares : Sound(tab[x]) /\ tab[x].seq = sh[x].seq
  PROVE  Ledger(tab, n)
<1>1. Numbers(tab) = Numbers(sh)
  BY DEF Numbers
<1>2. \A x \in Numbers(sh) : x \in Shares
  BY DEF Numbers
<1> QED  BY <1>1, <1>2 DEF Ledger

\* Another share is numbered: there are no more numbers than shares.
LEMMA LedgerNumbers ==
  ASSUME NEW sh, NEW n, Ledger(sh, n), NEW x \in Shares, sh[x].at = "posted"
  PROVE  /\ n \in 1..MaxShares
         /\ Ledger([sh EXCEPT ![x].at = "pending", ![x].seq = n], n + 1)
<1> DEFINE r == [sh[x] EXCEPT !.at = "pending", !.seq = n]
           tab == [sh EXCEPT ![x] = r]
<1>0. sh[x] \in Entries /\ Sound(sh[x]) /\ n \in Nat \ {0} /\ sh \in [Shares -> Entries]
  BY DEF Ledger
<1>1. sh[x].seq = 0
  BY <1>0 DEF Sound
<1>2. r.at = "pending" /\ r.seq = n /\ r.judged = sh[x].judged /\ r.got = sh[x].got /\ r.said = sh[x].said
      /\ r.lost = sh[x].lost
  BY <1>0 DEF Entries
<1>3. Sound(r)
  BY <1>0, <1>1, <1>2 DEF Sound
<1>4. /\ \A y \in Shares : tab[y] = IF y = x THEN r ELSE sh[y]
      /\ tab = [sh EXCEPT ![x].at = "pending", ![x].seq = n]
  BY <1>0
<1>5. Numbers(tab) = Numbers(sh) \cup {x} /\ x \notin Numbers(sh)
  BY <1>0, <1>1, <1>2, <1>4 DEF Numbers
<1>6. IsFiniteSet(Shares) /\ Cardinality(Shares) = MaxShares
  <2>1. MaxShares \in Nat
    BY UpstreamConstants
  <2>2. IsFiniteSet(1..MaxShares) /\ Cardinality(1..MaxShares) = IF 1 > MaxShares THEN 0 ELSE MaxShares - 1 + 1
    BY <2>1, FS_Interval
  <2> QED  BY <2>1, <2>2 DEF Shares
<1>7. IsFiniteSet(Numbers(sh))
  BY <1>6, FS_Subset DEF Numbers
<1>8. Cardinality(Numbers(tab)) = (n - 1) + 1
  <2>1. Cardinality(Numbers(sh)) = n - 1
    BY DEF Ledger
  <2>2. Cardinality(Numbers(sh) \cup {x}) = Cardinality(Numbers(sh)) + 1
    BY <1>5, <1>7, FS_AddElement
  <2> QED  BY <1>5, <2>1, <2>2
<1>9. Cardinality(Numbers(tab)) <= MaxShares
  BY <1>6, FS_Subset DEF Numbers
<1>10. n \in 1..MaxShares
  BY <1>0, <1>8, <1>9, UpstreamConstants
<1> HIDE DEF tab
<1>11. r \in Entries
  <2>1. n \in 0..MaxShares
    BY <1>10
  <2> QED  BY <1>0, <2>1 DEF Entries
<1> HIDE DEF r
<1>12. tab \in [Shares -> Entries]
  BY <1>0, <1>11 DEF tab
<1>13. \A y \in Shares : Sound(tab[y]) /\ tab[y].seq < n + 1
  <2> SUFFICES ASSUME NEW y \in Shares  PROVE Sound(tab[y]) /\ tab[y].seq < n + 1
    OBVIOUS
  <2>1. CASE y = x
    BY <1>0, <1>2, <1>3, <1>4, <2>1
  <2>2. CASE y # x
    <3>1. tab[y] = sh[y] /\ sh[y] \in Entries
      BY <1>0, <1>4, <2>2
    <3>2. sh[y].seq \in Nat /\ sh[y].seq < n /\ Sound(sh[y])
      BY <3>1, UpstreamConstants DEF Ledger, Entries
    <3> QED  BY <1>0, <3>1, <3>2
  <2> QED  BY <2>1, <2>2
<1>14. ASSUME NEW y \in Numbers(tab), NEW z \in Numbers(tab), tab[y].seq = tab[z].seq  PROVE y = z
  <2>1. y \in Shares /\ z \in Shares /\ (y # x => y \in Numbers(sh)) /\ (z # x => z \in Numbers(sh))
    BY <1>5 DEF Numbers
  <2>2. \A v \in Shares : v # x => tab[v].seq # n
    <3> SUFFICES ASSUME NEW v \in Shares, v # x  PROVE tab[v].seq # n
      OBVIOUS
    <3>1. tab[v] = sh[v] /\ sh[v] \in Entries
      BY <1>0, <1>4
    <3>2. sh[v].seq \in Nat /\ sh[v].seq < n
      BY <3>1, UpstreamConstants DEF Ledger, Entries
    <3> QED  BY <1>0, <3>1, <3>2
  <2>3. CASE y # x /\ z # x
    BY <1>4, <1>14, <2>1, <2>3 DEF Ledger
  <2>4. CASE y = x \/ z = x
    BY <1>2, <1>4, <1>14, <2>1, <2>2, <2>4, ZenonT(60)
  <2> QED  BY <2>3, <2>4
<1>15. Cardinality(Numbers(tab)) = (n + 1) - 1 /\ n + 1 \in Nat \ {0}
  BY <1>0, <1>8
<1>16. Ledger(tab, n + 1)
  BY <1>12, <1>13, <1>14, <1>15 DEF Ledger
<1> QED  BY <1>4, <1>10, <1>16

(***************************************************************************)
(* Shares on their way to the pool and verdicts on their way back.  sh is  *)
(* share, q the Line; sent says that the first of q has been written, up   *)
(* that the client is connected, live that it is reading.                  *)
(***************************************************************************)

\* Shares are handed to the strand once, and sent in the order of their numbers.
Lined(q, sh) ==
  /\ \A i, j \in 1..Len(q), x, y \in Shares :
       (i < j /\ Carries(q[i], x) /\ Carries(q[j], y)) => sh[x].seq < sh[y].seq
  /\ \A i, j \in 1..Len(q), x \in Shares : (Submits(q[i], x) /\ Submits(q[j], x)) => i = j
  /\ \A i \in 1..Len(q), x \in Shares : /\ Submits(q[i], x) => sh[x].at = "posted"
                                        /\ Carries(q[i], x) => sh[x].seq # 0

\* What has not been written has not been judged; what has been, and was not lost, has.
Judging(q, sh, sent, live) ==
  \A i \in 1..Len(q), x \in Shares :
    Carries(q[i], x) => /\ (i > 1 \/ ~sent) => sh[x].judged = "no"
                        /\ (i = 1 /\ sent /\ live) => sh[x].judged # "no"

\* The pool's verdicts are on shares it got; a share that waits for its own is behind those it
\* has judged good, and a refusal of it is on its way.
Waiting(r) == r.at = "pending" /\ ~r.lost
Judged(q, sh, up, live, good, bad) ==
  /\ \A i \in 1..Len(bad), x \in Shares : sh[x].seq = bad[i] => sh[x].judged = "bad"
  /\ \A x \in Shares : Waiting(sh[x]) =>
       /\ up
       /\ sh[x].judged = "bad" => \E i \in 1..Len(bad) : bad[i] = sh[x].seq
       /\ (live /\ sh[x].judged = "no") => good < sh[x].seq /\ \E i \in 1..Len(q) : Carries(q[i], x)

Tracked(q, sh, sent, up, live, good, bad) ==
  Lined(q, sh) /\ Judging(q, sh, sent, live) /\ Judged(q, sh, up, live, good, bad)

\* Where the i-th of what a Cut leaves was.
Before(i, k, n) == IF i <= k THEN i ELSE i + n

\* Every entry of r is one of q, in order, and every other of q is among those cut.
Kin(q, r, k, n) ==
  /\ k \in Nat /\ n \in Nat /\ Len(r) \in Nat
  /\ \A i \in 1..Len(r) : Before(i, k, n) \in 1..Len(q) /\ r[i] = q[Before(i, k, n)]
  /\ \A i, j \in 1..Len(r) : /\ i < j => Before(i, k, n) < Before(j, k, n)
                             /\ Before(i, k, n) = Before(j, k, n) => i = j
  /\ \A i \in 1..Len(q) : i \in (k + 1)..(k + n) \/ \E j \in 1..Len(r) : r[j] = q[i]

LEMMA CutFrom ==
  ASSUME NEW q, NEW r, NEW k, NEW n, Cut(r, q, k, n), Len(q) \in Nat
  PROVE  Kin(q, r, k, n)
<1>1. k \in Nat /\ n \in Nat /\ Len(r) \in Nat /\ Len(r) = Len(q) - n /\ k + n <= Len(q)
      /\ \A i \in 1..Len(r) : r[i] = IF i <= k THEN q[i] ELSE q[i + n]
  BY DEF Cut
<1>2. \A i \in 1..Len(r) : Before(i, k, n) \in 1..Len(q) /\ r[i] = q[Before(i, k, n)]
  BY <1>1, SMTT(40) DEF Before
<1>3. \A i, j \in 1..Len(r) : /\ i < j => Before(i, k, n) < Before(j, k, n)
                              /\ Before(i, k, n) = Before(j, k, n) => i = j
  BY <1>1 DEF Before
<1>4. ASSUME NEW i \in 1..Len(q), i \notin (k + 1)..(k + n)  PROVE \E j \in 1..Len(r) : r[j] = q[i]
  <2>1. CASE i <= k
    <3>1. i \in 1..Len(r) /\ r[i] = q[i]
      BY <1>1, <2>1
    <3> QED  BY <3>1
  <2>2. CASE ~(i <= k)
    <3>1. i - n \in 1..Len(r) /\ ~(i - n <= k) /\ (i - n) + n = i
      BY <1>1, <1>4, <2>2
    <3>2. r[i - n] = q[i]
      BY <1>1, <3>1
    <3> QED  BY <3>1, <3>2
  <2> QED  BY <2>1, <2>2
<1> QED  BY <1>1, <1>2, <1>3, <1>4 DEF Kin

\* Entries leave the line: none that a waiting share is judged by.
LEMMA TrackedCut ==
  ASSUME NEW q, NEW r, NEW k, NEW n, Cut(r, q, k, n), Len(q) \in Nat,
         NEW sh, NEW sent, NEW up, NEW live, NEW good, NEW bad, Tracked(q, sh, sent, up, live, good, bad),
         NEW sent2, NEW live2, live2 => live,
         \A i \in 1..Len(r) : (i > 1 \/ ~sent2) => Before(i, k, n) > 1 \/ ~sent,
         sent2 /\ live2 => sent /\ Before(1, k, n) = 1,
         \A i \in (k + 1)..(k + n), x \in Shares :
           (Carries(q[i], x) /\ Waiting(sh[x]) /\ live2) => sh[x].judged # "no"
  PROVE  Tracked(r, sh, sent2, up, live2, good, bad)
<1>0. Kin(q, r, k, n)
  BY Zenon, CutFrom
<1>1. /\ k \in Nat /\ n \in Nat /\ Len(r) \in Nat
      /\ \A i \in 1..Len(r) : Before(i, k, n) \in 1..Len(q) /\ r[i] = q[Before(i, k, n)]
      /\ \A i, j \in 1..Len(r) : /\ i < j => Before(i, k, n) < Before(j, k, n)
                                 /\ Before(i, k, n) = Before(j, k, n) => i = j
      /\ \A i \in 1..Len(q) : i \in (k + 1)..(k + n) \/ \E j \in 1..Len(r) : r[j] = q[i]
  BY <1>0 DEF Kin
<1>2. Lined(q, sh) /\ Judging(q, sh, sent, live) /\ Judged(q, sh, up, live, good, bad)
  BY DEF Tracked
<1>3. Lined(r, sh)
  <2>1. ASSUME NEW i \in 1..Len(r), NEW j \in 1..Len(r), NEW x \in Shares, NEW y \in Shares,
               i < j, Carries(r[i], x), Carries(r[j], y)
        PROVE  sh[x].seq < sh[y].seq
    <3>1. /\ Before(i, k, n) \in 1..Len(q) /\ Before(j, k, n) \in 1..Len(q) /\ Before(i, k, n) < Before(j, k, n)
          /\ Carries(q[Before(i, k, n)], x) /\ Carries(q[Before(j, k, n)], y)
      BY <1>1, <2>1
    <3>2. \A a, b \in 1..Len(q) : (a < b /\ Carries(q[a], x) /\ Carries(q[b], y)) => sh[x].seq < sh[y].seq
      BY <1>2 DEF Lined
    <3> QED  BY <3>1, <3>2, SMTT(40)
  <2>2. ASSUME NEW i \in 1..Len(r), NEW j \in 1..Len(r), NEW x \in Shares, Submits(r[i], x), Submits(r[j], x)
        PROVE  i = j
    BY <1>1, <1>2, <2>2, SMTT(40) DEF Lined
  <2>3. ASSUME NEW i \in 1..Len(r), NEW x \in Shares
        PROVE  /\ Submits(r[i], x) => sh[x].at = "posted"
               /\ Carries(r[i], x) => sh[x].seq # 0
    <3>1. Before(i, k, n) \in 1..Len(q) /\ r[i] = q[Before(i, k, n)]
      BY <1>1
    <3>2. \A j \in 1..Len(q) : /\ Submits(q[j], x) => sh[x].at = "posted"
                               /\ Carries(q[j], x) => sh[x].seq # 0
      BY <1>2 DEF Lined
    <3> QED  BY <3>1, <3>2
  <2> QED  BY <2>1, <2>2, <2>3 DEF Lined
<1>4. Judging(r, sh, sent2, live2)
  <2>1. ASSUME NEW i \in 1..Len(r), NEW x \in Shares, Carries(r[i], x)
        PROVE  /\ (i > 1 \/ ~sent2) => sh[x].judged = "no"
               /\ (i = 1 /\ sent2 /\ live2) => sh[x].judged # "no"
    <3>1. Before(i, k, n) \in 1..Len(q) /\ Carries(q[Before(i, k, n)], x)
      BY <1>1, <2>1
    <3>2. (i > 1 \/ ~sent2) => sh[x].judged = "no"
      BY <1>2, <3>1 DEF Judging
    <3>3. (i = 1 /\ sent2 /\ live2) => sh[x].judged # "no"
      BY <1>2, <3>1 DEF Judging
    <3> QED  BY <3>2, <3>3
  <2> QED  BY <2>1 DEF Judging
<1>5. Judged(r, sh, up, live2, good, bad)
  <2>1. ASSUME NEW x \in Shares, Waiting(sh[x])
        PROVE  (live2 /\ sh[x].judged = "no") => good < sh[x].seq /\ \E i \in 1..Len(r) : Carries(r[i], x)
    <3> SUFFICES ASSUME live2, sh[x].judged = "no"
                 PROVE  good < sh[x].seq /\ \E i \in 1..Len(r) : Carries(r[i], x)
      OBVIOUS
    <3>1. good < sh[x].seq /\ \E i \in 1..Len(q) : Carries(q[i], x)
      BY <1>2, <2>1 DEF Judged
    <3>2. PICK i \in 1..Len(q) : Carries(q[i], x)
      BY <3>1
    <3>3. i \notin (k + 1)..(k + n)
      BY <2>1, <3>2
    <3> QED  BY <1>1, <3>1, <3>2, <3>3
  <2> QED  BY <1>2, <2>1 DEF Judged
<1> QED  BY <1>3, <1>4, <1>5 DEF Tracked

\* What is known of the shares changes: nothing of those in the line but what was lost or told.
LEMMA TrackedKept ==
  ASSUME NEW q, Len(q) \in Nat, NEW sh, NEW tab, NEW sent, NEW up, NEW live, NEW good, NEW bad,
         Tracked(q, sh, sent, up, live, good, bad),
         \A x \in Shares : /\ tab[x].seq = sh[x].seq /\ tab[x].judged = sh[x].judged
                           /\ Waiting(tab[x]) => Waiting(sh[x]),
         \A i \in 1..Len(q), x \in Shares : Submits(q[i], x) => tab[x].at = "posted"
  PROVE  Tracked(q, tab, sent, up, live, good, bad)
<1>1. Lined(q, tab)
  BY DEF Tracked, Lined
<1>2. Judging(q, tab, sent, live)
  BY DEF Tracked, Judging
<1>3. Judged(q, tab, up, live, good, bad)
  BY DEF Tracked, Judged
<1> QED  BY <1>1, <1>2, <1>3 DEF Tracked

\* No share waits: the connection may be another, and the pool forgotten.
LEMMA TrackedAlone ==
  ASSUME NEW q, NEW sh, NEW sent, NEW up, NEW live, NEW good, NEW bad,
         Tracked(q, sh, sent, up, live, good, bad), \A x \in Shares : ~Waiting(sh[x]),
         NEW up2, NEW live2, live2 => ~sent
  PROVE  Tracked(q, sh, sent, up2, live2, good, bad) /\ Tracked(q, sh, sent, up2, live2, 0, <<>>)
<1>1. Judging(q, sh, sent, live2)
  BY DEF Tracked, Judging
<1>2. Judged(q, sh, up2, live2, good, bad) /\ Judged(q, sh, up2, live2, 0, <<>>)
  BY DEF Tracked, Judged
<1> QED  BY <1>1, <1>2 DEF Tracked

\* A frame or a call is posted, of a share or of none.
LEMMA TrackedGrown ==
  ASSUME NEW q, NEW r, NEW f, Grown(r, q, f), Len(q) \in Nat,
         NEW sh, NEW sent, NEW up, NEW live, NEW good, NEW bad, Tracked(q, sh, sent, up, live, good, bad),
         \A x \in Shares : ~Carries(f, x),
         \A x \in Shares : Submits(f, x) => sh[x].at = "posted" /\ \A i \in 1..Len(q) : ~Submits(q[i], x)
  PROVE  Tracked(r, sh, sent, up, live, good, bad)
<1>1. /\ Len(r) = Len(q) + 1 /\ \A i \in 1..Len(r) : i \in 1..Len(q) \/ i = Len(q) + 1
      /\ r[Len(q) + 1] = f /\ \A i \in 1..Len(q) : r[i] = q[i] /\ i \in 1..Len(r)
  BY DEF Grown
<1>2. Lined(q, sh) /\ Judging(q, sh, sent, live) /\ Judged(q, sh, up, live, good, bad)
  BY DEF Tracked
<1>3. ASSUME NEW i \in 1..Len(r), NEW x \in Shares, Carries(r[i], x)  PROVE i \in 1..Len(q) /\ Carries(q[i], x)
  BY <1>1, <1>3
<1>4. Lined(r, sh)
  <2>1. ASSUME NEW i \in 1..Len(r), NEW j \in 1..Len(r), NEW x \in Shares, NEW y \in Shares,
               i < j, Carries(r[i], x), Carries(r[j], y)
        PROVE  sh[x].seq < sh[y].seq
    <3>1. i \in 1..Len(q) /\ Carries(q[i], x) /\ j \in 1..Len(q) /\ Carries(q[j], y)
      BY <1>3, <2>1
    <3> QED  BY <1>2, <2>1, <3>1 DEF Lined
  <2>2. ASSUME NEW i \in 1..Len(r), NEW j \in 1..Len(r), NEW x \in Shares, Submits(r[i], x), Submits(r[j], x)
        PROVE  i = j
    BY <1>1, <1>2, <2>2 DEF Lined
  <2>3. ASSUME NEW i \in 1..Len(r), NEW x \in Shares
        PROVE  /\ Submits(r[i], x) => sh[x].at = "posted"
               /\ Carries(r[i], x) => sh[x].seq # 0
    BY <1>1, <1>2, <1>3 DEF Lined
  <2> QED  BY <2>1, <2>2, <2>3 DEF Lined
<1>5. Judging(r, sh, sent, live)
  BY <1>2, <1>3 DEF Judging
<1>6. Judged(r, sh, up, live, good, bad)
  <2>1. \A x \in Shares : (\E i \in 1..Len(q) : Carries(q[i], x)) => \E i \in 1..Len(r) : Carries(r[i], x)
    BY <1>1
  <2> QED  BY <1>2, <2>1 DEF Judged
<1> QED  BY <1>4, <1>5, <1>6 DEF Tracked

\* The verdicts under way are on shares numbered already.
Below(good, bad, n) == good < n /\ \A i \in 1..Len(bad) : bad[i] < n

\* A posted share is numbered and sent.
LEMMA TrackedSent ==
  ASSUME NEW q, NEW r, NEW f, Grown(r, q, f), Len(q) \in Nat,
         NEW sh, NEW n, Ledger(sh, n), NEW x \in Shares, sh[x].at = "posted", \A i \in 1..Len(q) : ~Submits(q[i], x),
         NEW sent, NEW up, up, NEW live, NEW good, NEW bad, Tracked(q, sh, sent, up, live, good, bad),
                 Below(good, bad, n),
         \A y \in Shares : ~Submits(f, y) /\ (Carries(f, y) <=> y = x),
         sent => Len(q) >= 1
  PROVE  Tracked(r, [sh EXCEPT ![x].at = "pending", ![x].seq = n], sent, up, live, good, bad)
<1> DEFINE tab == [sh EXCEPT ![x].at = "pending", ![x].seq = n]
<1>1. /\ Len(r) = Len(q) + 1 /\ \A i \in 1..Len(r) : i \in 1..Len(q) \/ i = Len(q) + 1
      /\ r[Len(q) + 1] = f /\ \A i \in 1..Len(q) : r[i] = q[i] /\ i \in 1..Len(r)
  BY DEF Grown
<1>2. Lined(q, sh) /\ Judging(q, sh, sent, live) /\ Judged(q, sh, up, live, good, bad)
  BY DEF Tracked
<1>3. /\ sh \in [Shares -> Entries] /\ sh[x] \in Entries /\ Sound(sh[x]) /\ n \in Nat \ {0}
      /\ \A y \in Shares : sh[y].seq < n
  BY DEF Ledger
<1>4. sh[x].seq = 0 /\ sh[x].judged = "no"
  BY <1>3 DEF Sound
<1>5. /\ \A y \in Shares : y # x => tab[y] = sh[y]
      /\ tab[x].at = "pending" /\ tab[x].seq = n /\ tab[x].judged = "no"
  <2>1. tab[x] = [sh[x] EXCEPT !.at = "pending", !.seq = n]
    BY <1>3
  <2>2. \A y \in Shares : y # x => tab[y] = sh[y]
    BY <1>3
  <2> HIDE DEF tab
  <2> QED  BY <1>3, <1>4, <2>1, <2>2 DEF Entries
<1> HIDE DEF tab
<1>6. \A i \in 1..Len(q) : ~Carries(q[i], x)
  BY <1>2, <1>4 DEF Lined
<1>7. ASSUME NEW i \in 1..Len(r), NEW y \in Shares, Carries(r[i], y)
      PROVE  \/ i \in 1..Len(q) /\ Carries(q[i], y) /\ y # x
             \/ i = Len(q) + 1 /\ y = x
  BY <1>1, <1>6, <1>7
<1>8. Lined(r, tab)
  <2>1. ASSUME NEW i \in 1..Len(r), NEW j \in 1..Len(r), NEW y \in Shares, NEW z \in Shares,
               i < j, Carries(r[i], y), Carries(r[j], z)
        PROVE  tab[y].seq < tab[z].seq
    <3>1. i \in 1..Len(q) /\ Carries(q[i], y) /\ y # x
      BY <1>1, <1>7, <2>1
    <3>2. CASE j \in 1..Len(q) /\ Carries(q[j], z) /\ z # x
      BY <1>2, <1>5, <2>1, <3>1, <3>2 DEF Lined
    <3>3. CASE z = x
      BY <1>3, <1>5, <3>1, <3>3
    <3> QED  BY <1>7, <2>1, <3>2, <3>3
  <2>2. ASSUME NEW i \in 1..Len(r), NEW j \in 1..Len(r), NEW y \in Shares, Submits(r[i], y), Submits(r[j], y)
        PROVE  i = j
    BY <1>1, <1>2, <2>2 DEF Lined
  <2>3. ASSUME NEW i \in 1..Len(r), NEW y \in Shares
        PROVE  /\ Submits(r[i], y) => tab[y].at = "posted"
               /\ Carries(r[i], y) => tab[y].seq # 0
    <3>1. ASSUME Submits(r[i], y)  PROVE tab[y].at = "posted"
      <4>1. i \in 1..Len(q) /\ Submits(q[i], y) /\ y # x
        BY <1>1, <3>1
      <4> QED  BY <1>2, <1>5, <4>1 DEF Lined
    <3>2. ASSUME Carries(r[i], y)  PROVE tab[y].seq # 0
      <4>1. CASE i \in 1..Len(q) /\ Carries(q[i], y) /\ y # x
        BY <1>2, <1>5, <4>1 DEF Lined
      <4>2. CASE y = x
        BY <1>3, <1>5, <4>2
      <4> QED  BY <1>7, <3>2, <4>1, <4>2
    <3> QED  BY <3>1, <3>2
  <2> QED  BY <2>1, <2>2, <2>3, SMTT(40) DEF Lined
<1>9. Judging(r, tab, sent, live)
  <2> SUFFICES ASSUME NEW i \in 1..Len(r), NEW y \in Shares, Carries(r[i], y)
               PROVE  /\ (i > 1 \/ ~sent) => tab[y].judged = "no"
                      /\ (i = 1 /\ sent /\ live) => tab[y].judged # "no"
    BY DEF Judging
  <2>1. CASE i \in 1..Len(q) /\ Carries(q[i], y) /\ y # x
    BY <1>2, <1>5, <2>1 DEF Judging
  <2>2. CASE i = Len(q) + 1 /\ y = x
    BY <1>5, <2>2
  <2> QED  BY <1>7, <2>1, <2>2
<1>10. Judged(r, tab, up, live, good, bad)
  <2>1. ASSUME NEW i \in 1..Len(bad), NEW y \in Shares, tab[y].seq = bad[i]  PROVE tab[y].judged = "bad"
    <3>1. bad[i] < n
      BY DEF Below
    <3>2. y # x
      BY <1>3, <1>5, <2>1, <3>1
    <3> QED  BY <1>2, <1>5, <2>1, <3>2 DEF Judged
  <2>2. ASSUME NEW y \in Shares, Waiting(tab[y])
        PROVE  /\ tab[y].judged = "bad" => \E i \in 1..Len(bad) : bad[i] = tab[y].seq
               /\ (live /\ tab[y].judged = "no") => good < tab[y].seq /\ \E i \in 1..Len(r) : Carries(r[i], y)
    <3>1. CASE y = x
      <4>1. Len(q) + 1 \in 1..Len(r) /\ Carries(r[Len(q) + 1], x)
        BY <1>1
      <4> QED  BY <1>5, <3>1, <4>1 DEF Below
    <3>2. CASE y # x
      <4>1. (\E i \in 1..Len(q) : Carries(q[i], y)) => \E i \in 1..Len(r) : Carries(r[i], y)
        BY <1>1
      <4> QED  BY <1>2, <1>5, <2>2, <3>2, <4>1 DEF Judged
    <3> QED  BY <3>1, <3>2
  <2> QED  BY <2>1, <2>2 DEF Judged
<1>11. Tracked(r, tab, sent, up, live, good, bad)
  BY <1>8, <1>9, <1>10 DEF Tracked
<1> QED  BY <1>11 DEF tab

\* The pool's verdict v on share x, which has number n.
JudgedAs(sh, x, v) == [sh EXCEPT ![x].judged = v]
GoodAfter(good, v, n) == IF v = "good" THEN n ELSE good
BadAfter(bad, v, n) == IF v = "good" THEN bad ELSE Append(bad, n)

\* The pool judges the share it gets: the first of the line.
LEMMA TrackedWritten ==
  ASSUME NEW q, Len(q) \in Nat, 1 \in 1..Len(q), NEW sh, NEW n, Ledger(sh, n), NEW x \in Shares, Carries(q[1], x),
         NEW up, NEW live, NEW good \in Nat, NEW bad \in Seq(1..MaxShares),
         NEW sent, ~sent, NEW sent2, sent2, Tracked(q, sh, sent, up, live, good, bad), Below(good, bad, n),
         NEW v \in {"good", "bad"}
  PROVE  /\ sh[x].seq \in 1..MaxShares /\ Ledger(JudgedAs(sh, x, v), n)
         /\ Below(GoodAfter(good, v, sh[x].seq), BadAfter(bad, v, sh[x].seq), n)
         /\ Tracked(q, JudgedAs(sh, x, v), sent2, up, live,
                    GoodAfter(good, v, sh[x].seq), BadAfter(bad, v, sh[x].seq))
<1> DEFINE tab == JudgedAs(sh, x, v)
           good2 == GoodAfter(good, v, sh[x].seq)
           bad2 == BadAfter(bad, v, sh[x].seq)
<1>0. /\ tab = [sh EXCEPT ![x].judged = v]
      /\ \/ v = "good" /\ good2 = sh[x].seq /\ bad2 = bad
         \/ v = "bad" /\ good2 = good /\ bad2 = Append(bad, sh[x].seq)
  BY DEF JudgedAs, GoodAfter, BadAfter
<1> HIDE DEF tab, good2, bad2
<1>1. Lined(q, sh) /\ Judging(q, sh, sent, live) /\ Judged(q, sh, up, live, good, bad)
  BY DEF Tracked
<1>2. /\ sh \in [Shares -> Entries] /\ sh[x] \in Entries /\ Sound(sh[x]) /\ n \in Nat \ {0}
      /\ \A y \in Shares : sh[y] \in Entries /\ sh[y].seq < n /\ Sound(sh[y])
  BY DEF Ledger
<1>3. sh[x].seq # 0 /\ sh[x].judged = "no"
  BY <1>1 DEF Lined, Judging
<1>4. sh[x].seq \in 1..MaxShares /\ sh[x].seq < n /\ sh[x].seq \in Nat
  BY <1>2, <1>3, UpstreamConstants DEF Entries
<1>5. /\ \A y \in Shares : y # x => tab[y] = sh[y]
      /\ tab[x].judged = v
      /\ \A y \in Shares : /\ tab[y].seq = sh[y].seq /\ tab[y].at = sh[y].at /\ tab[y].lost = sh[y].lost
                           /\ tab[y].got = sh[y].got /\ tab[y].said = sh[y].said /\ tab[y] \in Entries
  <2> DEFINE r == [sh[x] EXCEPT !.judged = v]
  <2>1. tab[x] = r /\ \A y \in Shares : y # x => tab[y] = sh[y]
    BY <1>0, <1>2
  <2>2. /\ r.judged = v /\ r.seq = sh[x].seq /\ r.at = sh[x].at /\ r.lost = sh[x].lost /\ r.got = sh[x].got
        /\ r.said = sh[x].said /\ r \in Entries
    BY <1>0, <1>2 DEF Entries
  <2> HIDE DEF r
  <2> QED  BY <1>2, <2>1, <2>2
<1>6. tab \in [Shares -> Entries]
  BY <1>0, <1>2, <1>5
<1>7. \A y \in Shares : sh[y].seq = sh[x].seq => y = x
  BY <1>3 DEF Ledger, Numbers
<1>8. \A y \in Shares : Sound(tab[y])
  <2>1. Sound(tab[x])
    <3>1. sh[x].said # "accepted" \/ sh[x].lost
      BY <1>2, <1>3 DEF Sound
    <3>2. sh[x].said # "refused"
      BY <1>2, <1>3 DEF Sound
    <3> QED  BY <1>2, <1>3, <1>5, <3>1, <3>2 DEF Sound
  <2> QED  BY <1>2, <1>5, <2>1, SMTT(40)
<1>9. Ledger(tab, n)
  BY <1>5, <1>6, <1>8, LedgerKept
<1>10. Lined(q, tab)
  BY <1>1, <1>5 DEF Lined
<1>11. Judging(q, tab, sent2, live)
  <2> SUFFICES ASSUME NEW i \in 1..Len(q), NEW y \in Shares, Carries(q[i], y)
               PROVE  /\ i > 1 => tab[y].judged = "no"
                      /\ (i = 1 /\ live) => tab[y].judged # "no"
    BY DEF Judging
  <2>1. ASSUME i > 1  PROVE tab[y].judged = "no"
    <3>1. sh[x].seq < sh[y].seq
      BY <1>1, <2>1 DEF Lined
    <3>2. y # x
      BY <1>4, <3>1
    <3> QED  BY <1>1, <1>5, <3>2 DEF Judging
  <2>2. ASSUME i = 1  PROVE y = x
    BY <2>2 DEF Carries
  <2> QED  BY <1>5, <2>1, <2>2
\* Every other share that waits unjudged comes later.
<1>12. ASSUME NEW y \in Shares, y # x, Waiting(sh[y]), live, sh[y].judged = "no"  PROVE sh[x].seq < sh[y].seq
  <2>1. PICK i \in 1..Len(q) : Carries(q[i], y)
    BY <1>1, <1>12 DEF Judged
  <2>2. i # 1
    BY <1>12, <2>1 DEF Carries
  <2>3. 1 < i
    BY <2>2
  <2> QED  BY <1>1, <2>1, <2>3 DEF Lined
<1>13. \A y \in Shares : Waiting(tab[y]) <=> Waiting(sh[y])
  BY <1>5 DEF Waiting
<1>14. CASE v = "good"
  <2>0. good2 = sh[x].seq /\ bad2 = bad
    BY <1>0, <1>14
  <2>1. Below(good2, bad2, n)
    BY <1>4, <2>0 DEF Below
  <2>2. Judged(q, tab, up, live, good2, bad2)
    <3>1. ASSUME NEW i \in 1..Len(bad), NEW y \in Shares, tab[y].seq = bad[i]  PROVE tab[y].judged = "bad"
      <4>1. sh[y].judged = "bad"
        BY <1>1, <1>5, <3>1 DEF Judged
      <4>2. y # x
        BY <1>3, <4>1
      <4> QED  BY <1>5, <4>1, <4>2
    <3>2. ASSUME NEW y \in Shares, Waiting(tab[y])
          PROVE  /\ up
                 /\ tab[y].judged = "bad" => \E i \in 1..Len(bad) : bad[i] = tab[y].seq
                 /\ (live /\ tab[y].judged = "no") => sh[x].seq < tab[y].seq /\ \E i \in 1..Len(q) : Carries(q[i], y)
      <4>1. Waiting(sh[y])
        BY <1>13, <3>2
      <4>2. CASE y = x
        BY <1>1, <1>5, <1>14, <4>1, <4>2 DEF Judged
      <4>3. CASE y # x
        <5>1. tab[y] = sh[y]
          BY <1>5, <4>3
        <5> QED  BY <1>1, <1>12, <4>1, <4>3, <5>1 DEF Judged
      <4> QED  BY <4>2, <4>3
    <3> QED  BY <2>0, <3>1, <3>2, SMTT(40) DEF Judged
  <2> QED  BY <1>4, <1>9, <1>10, <1>11, <2>1, <2>2 DEF Tracked, tab, good2, bad2
<1>15. CASE v = "bad"
  <2>0. good2 = good /\ bad2 = Append(bad, sh[x].seq)
    BY <1>0, <1>15
  <2>00. /\ Len(bad) \in Nat /\ Len(bad2) = Len(bad) + 1 /\ bad2[Len(bad) + 1] = sh[x].seq
         /\ \A i \in 1..Len(bad) : bad2[i] = bad[i] /\ i \in 1..Len(bad2)
         /\ \A i \in 1..Len(bad2) : i \in 1..Len(bad) \/ i = Len(bad) + 1
    <3>1. /\ Len(bad) \in Nat /\ Len(bad2) = Len(bad) + 1 /\ bad2[Len(bad) + 1] = sh[x].seq
          /\ \A i \in 1..Len(bad) : bad2[i] = bad[i]
      BY <1>4, <2>0, AppendProperties, LenProperties
    <3> QED  BY <3>1
  <2>1. Below(good2, bad2, n)
    BY <1>4, <2>0, <2>00 DEF Below
  <2>2. Judged(q, tab, up, live, good2, bad2)
    <3>1. ASSUME NEW i \in 1..Len(bad2), NEW y \in Shares, tab[y].seq = bad2[i]  PROVE tab[y].judged = "bad"
      <4>1. CASE i \in 1..Len(bad)
        <5>1. sh[y].judged = "bad"
          BY <1>1, <1>5, <2>00, <3>1, <4>1 DEF Judged
        <5>2. y # x
          BY <1>3, <5>1
        <5> QED  BY <1>5, <5>1, <5>2
      <4>2. CASE i = Len(bad) + 1
        BY <1>5, <1>7, <1>15, <2>00, <3>1, <4>2
      <4> QED  BY <2>00, <4>1, <4>2
    <3>2. ASSUME NEW y \in Shares, Waiting(tab[y])
          PROVE  /\ up
                 /\ tab[y].judged = "bad" => \E i \in 1..Len(bad2) : bad2[i] = tab[y].seq
                 /\ (live /\ tab[y].judged = "no") => good < tab[y].seq /\ \E i \in 1..Len(q) : Carries(q[i], y)
      <4>1. Waiting(sh[y])
        BY <1>13, <3>2
      <4>2. CASE y = x
        <5>1. Len(bad) + 1 \in 1..Len(bad2) /\ bad2[Len(bad) + 1] = tab[y].seq
          BY <1>5, <2>00, <4>2
        <5> QED  BY <1>1, <1>5, <1>15, <4>1, <4>2, <5>1 DEF Judged
      <4>3. CASE y # x
        <5>1. tab[y] = sh[y]
          BY <1>5, <4>3
        <5>2. (\E i \in 1..Len(bad) : bad[i] = sh[y].seq) => \E i \in 1..Len(bad2) : bad2[i] = sh[y].seq
          BY <2>00
        <5> QED  BY <1>1, <4>1, <4>3, <5>1, <5>2 DEF Judged
      <4> QED  BY <4>2, <4>3
    <3> QED  BY <2>0, <3>1, <3>2 DEF Judged
  <2> QED  BY <1>4, <1>9, <1>10, <1>11, <2>1, <2>2 DEF Tracked, tab, good2, bad2
<1> QED  BY <1>0, <1>14, <1>15

\* A share is told what became of it.
Answer(r, said) == [r EXCEPT !.at = "over", !.said = said, !.got = r.got + 1]

LEMMA Answers ==
  ASSUME NEW r \in Entries, Sound(r), r.at # "over", NEW said \in {"unsent", "accepted", "refused"},
         said = "accepted" => r.judged = "good" \/ r.lost, said = "refused" => r.judged = "bad"
  PROVE  /\ Answer(r, said) \in Entries /\ Sound(Answer(r, said)) /\ Answer(r, said).at = "over"
         /\ Answer(r, said).seq = r.seq /\ Answer(r, said).judged = r.judged /\ ~Waiting(Answer(r, said))
<1> DEFINE a == Answer(r, said)
<1>1. /\ a \in Entries /\ a.at = "over" /\ a.seq = r.seq /\ a.judged = r.judged /\ a.lost = r.lost
      /\ a.got = r.got + 1 /\ a.said = said
  <2> DEFINE more == r.got + 1
  <2>1. more \in Nat
    BY DEF Entries
  <2>2. a = [r EXCEPT !.at = "over", !.said = said, !.got = more]
    BY DEF Answer
  <2> HIDE DEF a, more
  <2>3. a \in Entries
    BY <2>1, <2>2 DEF Entries
  <2>4. /\ a.at = "over" /\ a.seq = r.seq /\ a.judged = r.judged /\ a.lost = r.lost
        /\ a.got = more /\ a.said = said
    BY <2>2 DEF Entries
  <2> QED  BY <2>3, <2>4 DEF more
<1>2. r.got = 0
  BY DEF Sound
<1> HIDE DEF a
<1>3. Sound(a) /\ ~Waiting(a)
  BY <1>1, <1>2 DEF Sound, Waiting
<1> QED  BY <1>1, <1>3 DEF a

\* The shares of one verdict are told of it.
Telling(sh, told, said) == [x \in Shares |-> IF x \in told THEN Answer(sh[x], said) ELSE sh[x]]

LEMMA LedgerTold ==
  ASSUME NEW sh, NEW n, Ledger(sh, n), NEW told, \A x \in told : x \in Shares /\ sh[x].at # "over",
         NEW said \in {"unsent", "accepted", "refused"},
         said = "accepted" => \A x \in told : sh[x].judged = "good" \/ sh[x].lost,
         said = "refused" => \A x \in told : sh[x].judged = "bad"
  PROVE  LET tab == Telling(sh, told, said) IN
         /\ Ledger(tab, n)
         /\ \A x \in Shares : /\ tab[x].seq = sh[x].seq /\ tab[x].judged = sh[x].judged
                              /\ x \in told => tab[x].at = "over" /\ ~Waiting(tab[x])
                              /\ x \notin told => tab[x] = sh[x]
<1> DEFINE tab == Telling(sh, told, said)
<1>1. \A x \in Shares : sh[x] \in Entries /\ Sound(sh[x])
  BY DEF Ledger
<1>2. \A x \in Shares : tab[x] = IF x \in told THEN Answer(sh[x], said) ELSE sh[x]
  BY DEF Telling
<1>3. DOMAIN tab = Shares /\ tab = [x \in Shares |-> tab[x]]
  BY DEF Telling
<1> HIDE DEF tab
<1>4. ASSUME NEW x \in Shares
      PROVE  /\ tab[x] \in Entries /\ Sound(tab[x]) /\ tab[x].seq = sh[x].seq /\ tab[x].judged = sh[x].judged
             /\ x \in told => tab[x].at = "over" /\ ~Waiting(tab[x])
             /\ x \notin told => tab[x] = sh[x]
  <2>1. CASE x \in told
    BY <1>1, <1>2, <2>1, Answers
  <2>2. CASE x \notin told
    BY <1>1, <1>2, <2>2
  <2> QED  BY <2>1, <2>2
<1>5. tab \in [Shares -> Entries]
  BY <1>3, <1>4
<1>6. Ledger(tab, n)
  BY <1>4, <1>5, LedgerKept, SMTT(40)
<1> QED  BY <1>4, <1>6 DEF tab

\* The pool acknowledges every share up to the newest it judged good, every bad one before it refused.
LEMMA TrackedAccepted ==
  ASSUME NEW q, Len(q) \in Nat, NEW sh, NEW n, Ledger(sh, n), NEW sent, NEW up, NEW live, live,
         NEW good \in Nat, NEW bad \in Seq(1..MaxShares),
         Tracked(q, sh, sent, up, live, good, bad), Below(good, bad, n),
         \A i \in 1..Len(bad) : bad[i] > good
  PROVE  LET tab == Telling(sh, {x \in Shares : sh[x].at = "pending" /\ sh[x].seq <= good}, "accepted")
         IN  Ledger(tab, n) /\ Below(0, bad, n) /\ Tracked(q, tab, sent, up, live, 0, bad)
<1> DEFINE told == {x \in Shares : sh[x].at = "pending" /\ sh[x].seq <= good}
           tab == Telling(sh, told, "accepted")
<1>1. Lined(q, sh) /\ Judging(q, sh, sent, live) /\ Judged(q, sh, up, live, good, bad)
  BY DEF Tracked
<1>2. \A x \in Shares : sh[x] \in Entries /\ Sound(sh[x]) /\ sh[x].seq \in Nat
  BY UpstreamConstants DEF Ledger, Entries
<1>3. ASSUME NEW x \in told  PROVE sh[x].judged = "good" \/ sh[x].lost
  <2> SUFFICES ASSUME Waiting(sh[x])  PROVE sh[x].judged = "good"
    BY DEF Waiting
  <2>1. x \in Shares /\ sh[x].seq <= good /\ sh[x].seq \in Nat
    BY <1>2
  <2>2. sh[x].judged # "no"
    BY <1>1, <2>1 DEF Judged
  <2>3. sh[x].judged # "bad"
    <3> SUFFICES ASSUME sh[x].judged = "bad"  PROVE FALSE
      OBVIOUS
    <3>1. PICK i \in 1..Len(bad) : bad[i] = sh[x].seq
      BY <1>1, <2>1 DEF Judged
    <3> QED  BY <2>1, <3>1
  <2> QED  BY <1>2, <2>1, <2>2, <2>3 DEF Entries
<1>4. /\ Ledger(tab, n)
      /\ \A x \in Shares : /\ tab[x].seq = sh[x].seq /\ tab[x].judged = sh[x].judged
                           /\ x \in told => tab[x].at = "over" /\ ~Waiting(tab[x])
                           /\ x \notin told => tab[x] = sh[x]
  <2>1. \A x \in told : x \in Shares /\ sh[x].at # "over"
    OBVIOUS
  <2> HIDE DEF told
  <2> QED  BY <1>3, <2>1, LedgerTold
<1>5. \A x \in told : sh[x].at # "posted"
  OBVIOUS
<1> HIDE DEF told, tab
<1>6. Tracked(q, tab, sent, up, live, good, bad)
  <2>1. \A i \in 1..Len(q), x \in Shares : Submits(q[i], x) => tab[x].at = "posted"
    BY <1>1, <1>4, <1>5 DEF Lined
  <2> QED  BY <1>4, <2>1, TrackedKept, ZenonT(60)
<1>7. Judged(q, tab, up, live, 0, bad)
  <2>1. Judged(q, tab, up, live, good, bad)
    BY <1>6 DEF Tracked
  <2>2. \A x \in Shares : tab[x].seq \in Nat
    BY <1>2, <1>4
  <2> QED  BY <2>1, <2>2 DEF Judged
<1>8. Below(0, bad, n)
  BY DEF Below, Ledger
<1> QED  BY <1>4, <1>6, <1>7, <1>8 DEF Tracked, tab, told

\* The refusals to send are the first of them and the rest.
FirstOf(bad, first, rest) == first = Head(bad) /\ rest = Tail(bad)

\* Every share of one number is refused.
Refusing(sh, first) == Telling(sh, {x \in Shares : sh[x].at = "pending" /\ sh[x].seq = first}, "refused")

\* The pool refuses a share it has judged bad.
LEMMA TrackedRefused ==
  ASSUME NEW q, Len(q) \in Nat, NEW sh, NEW n, Ledger(sh, n), NEW sent, NEW up, NEW live, live,
         NEW good \in Nat, NEW bad \in Seq(1..MaxShares), bad # <<>>,
         Tracked(q, sh, sent, up, live, good, bad), Below(good, bad, n),
         NEW first, NEW rest, FirstOf(bad, first, rest)
  PROVE  /\ Ledger(Refusing(sh, first), n) /\ Below(good, rest, n)
         /\ Tracked(q, Refusing(sh, first), sent, up, live, good, rest)
<1> DEFINE told == {x \in Shares : sh[x].at = "pending" /\ sh[x].seq = first}
           tab == Telling(sh, told, "refused")
<1>1. Lined(q, sh) /\ Judging(q, sh, sent, live) /\ Judged(q, sh, up, live, good, bad)
  BY DEF Tracked
<1>2. /\ Len(bad) \in Nat /\ Len(bad) >= 1 /\ first = bad[1] /\ Len(rest) = Len(bad) - 1
      /\ \A i \in 1..Len(rest) : rest[i] = bad[i + 1] /\ i + 1 \in 1..Len(bad)
  <2>1. Len(bad) \in Nat /\ Len(bad) >= 1
    BY EmptySeq
  <2>2. first = bad[1]
    BY DEF FirstOf
  <2>3. Len(rest) = Len(bad) - 1 /\ \A i \in 1..Len(rest) : rest[i] = bad[i + 1]
    BY HeadTailProperties DEF FirstOf
  <2> QED  BY <2>1, <2>2, <2>3
<1>3. \A x \in told : sh[x].judged = "bad"
  <2>1. 1 \in 1..Len(bad)
    BY <1>2
  <2> QED  BY <1>1, <1>2, <2>1 DEF Judged
<1>4. /\ Ledger(tab, n)
      /\ \A x \in Shares : /\ tab[x].seq = sh[x].seq /\ tab[x].judged = sh[x].judged
                           /\ x \in told => tab[x].at = "over" /\ ~Waiting(tab[x])
                           /\ x \notin told => tab[x] = sh[x]
  <2>1. \A x \in told : x \in Shares /\ sh[x].at # "over"
    OBVIOUS
  <2> HIDE DEF told
  <2> QED  BY <1>3, <2>1, LedgerTold
<1>5. /\ \A x \in told : sh[x].at # "posted"
      /\ \A x \in Shares : (x \notin told /\ Waiting(sh[x])) => sh[x].seq # bad[1]
  BY <1>2 DEF Waiting
<1> HIDE DEF told, tab
<1>6. Tracked(q, tab, sent, up, live, good, bad)
  <2>1. \A i \in 1..Len(q), x \in Shares : Submits(q[i], x) => tab[x].at = "posted"
    BY <1>1, <1>4, <1>5 DEF Lined
  <2>2. \A x \in Shares : Waiting(tab[x]) => Waiting(sh[x])
    BY <1>4
  <2> QED  BY <1>4, <2>1, <2>2, TrackedKept
<1>7. Judged(q, tab, up, live, good, rest)
  <2>1. Judged(q, tab, up, live, good, bad)
    BY <1>6 DEF Tracked
  <2>2. ASSUME NEW x \in Shares, Waiting(tab[x]), tab[x].judged = "bad"
        PROVE  \E i \in 1..Len(rest) : rest[i] = tab[x].seq
    <3>1. x \notin told /\ tab[x] = sh[x]
      BY <1>4, <2>2
    <3>2. PICK i \in 1..Len(bad) : bad[i] = tab[x].seq
      BY <2>1, <2>2 DEF Judged
    <3>3. i # 1
      BY <1>5, <2>2, <3>1, <3>2
    <3>4. i - 1 \in 1..Len(rest) /\ (i - 1) + 1 = i
      BY <1>2, <3>3
    <3>5. rest[i - 1] = bad[i]
      BY <1>2, <3>4
    <3> QED  BY <3>2, <3>4, <3>5
  <2>3. \A i \in 1..Len(rest), x \in Shares : tab[x].seq = rest[i] => tab[x].judged = "bad"
    BY <1>2, <2>1 DEF Judged
  <2> QED  BY <2>1, <2>2, <2>3 DEF Judged
<1>8. Below(good, rest, n)
  BY <1>2 DEF Below
<1> QED  BY <1>4, <1>6, <1>7, <1>8 DEF Tracked, Refusing, tab, told

\* A frame of the handshake is written.
LEMMA TrackedHello ==
  ASSUME NEW q, NEW sh, NEW sent, ~sent, NEW sent2, NEW up, NEW live, NEW good, NEW bad,
         Tracked(q, sh, sent, up, live, good, bad), \A x \in Shares : ~Carries(q[1], x)
  PROVE  Tracked(q, sh, sent2, up, live, good, bad)
<1>1. Judging(q, sh, sent2, live)
  BY DEF Tracked, Judging
<1> QED  BY <1>1 DEF Tracked

\* The first frame of the queue has been written, or its write has failed.
Sent(d) == d.wq # <<>> /\ d.writes[1] # "pending"
Live(d) == d.read = "pending"

ShareInv ==
  /\ Ledger(share, nextSeq)
  /\ pool.good \in 0..MaxShares /\ pool.bad \in Seq(1..MaxShares) /\ Below(pool.good, pool.bad, nextSeq)
  /\ Tracked(Line, share, Sent(c), c.connected, Live(c), pool.good, pool.bad)

LEMMA LineTyped ==
  ASSUME LinkInv
  PROVE  Line \in Seq(Posted) /\ Len(Line) \in Nat /\ Len(c.wq) \in Nat /\ c.wq \in Seq(Posted)
          /\ strand \in Seq(Posted)
         /\ (c.wq # <<>> => Len(c.wq) >= 1) /\ Cut(Line, Line, 0, 0)
<1>1. c.wq \in Seq(Posted) /\ strand \in Seq(Posted)
  BY DEF LinkInv, Posted
<1>2. Line \in Seq(Posted) /\ Len(Line) \in Nat /\ Len(c.wq) \in Nat
  BY <1>1, JoinAt, LenProperties DEF Line
<1>3. c.wq # <<>> => Len(c.wq) >= 1
  BY <1>1, EmptySeq
<1>4. Cut(Line, Line, 0, 0)
  <2> DEFINE q == Line
  <2>1. Len(q) \in Nat
    BY <1>2
  <2> HIDE DEF q
  <2>2. \A i \in 1..Len(q) : q[i] = IF i <= 0 THEN q[i] ELSE q[i + 0]
    OBVIOUS
  <2>3. Cut(q, q, 0, 0)
    BY <2>1, <2>2 DEF Cut
  <2> QED  BY <2>3 DEF q
<1> QED  BY <1>1, <1>2, <1>3, <1>4

\* A posted call or a frame of the handshake is about no share that is sent.
LEMMA NoShare ==
  /\ \A x \in Shares : \A frame \in {"setup", "open"} :
       ~Carries(Push(frame, None), x) /\ ~Submits(Push(frame, None), x)
  /\ \A x \in Shares : /\ ~Carries(Handler("stop", None), x) /\ ~Submits(Handler("stop", None), x)
  /\ \A x, y \in Shares : /\ ~Carries(Handler("submit", x), y) /\ (Submits(Handler("submit", x), y) <=> y = x)
                          /\ (Carries(Push("share", x), y) <=> y = x) /\ ~Submits(Push("share", x), y)
BY DEF Carries, Submits, Push, Handler

\* Nothing happens to a share.
LEMMA ShareStill ==
  ASSUME LinkInv, ShareInv, Cut(Line', Line, 0, 0), UNCHANGED <<share, nextSeq>>,
         pool'.good = pool.good, pool'.bad = pool.bad, c'.connected = c.connected,
         Live(c') => Live(c), Sent(c) => Sent(c'), Sent(c') /\ Live(c') => Sent(c)
  PROVE  ShareInv'
<1> DEFINE q == Line
           r == Line'
           live == Live(c)
           live2 == Live(c')
           sent == Sent(c)
           sent2 == Sent(c')
           up == c.connected
<1>1. Cut(r, q, 0, 0) /\ Len(q) \in Nat /\ Tracked(q, share, sent, up, live, pool.good, pool.bad)
      /\ (live2 => live) /\ (sent => sent2) /\ (sent2 /\ live2 => sent)
  BY LineTyped DEF ShareInv
<1> HIDE DEF q, r, live, live2, sent, sent2, up
<1>2. \A i : Before(i, 0, 0) = i \/ i \notin Nat
  BY DEF Before
<1>3. Len(r) \in Nat
  BY <1>1 DEF Cut
<1>4. Before(1, 0, 0) = 1 /\ \A i \in 1..Len(r) : Before(i, 0, 0) = i
  BY <1>2, <1>3
<1>5. \A i \in (0 + 1)..(0 + 0) : FALSE
  OBVIOUS
<1>6. Tracked(r, share, sent2, up, live2, pool.good, pool.bad)
  BY <1>1, <1>4, <1>5, TrackedCut
<1>7. Tracked(Line', share', Sent(c'), c'.connected, Live(c'), pool'.good, pool'.bad)
  BY <1>6 DEF r, sent2, live2, up
<1> QED  BY <1>7 DEF ShareInv

\* The connection is lost, and with it the verdicts on what was sent.
LEMMA ShareTorn ==
  ASSUME DownInv, LinkInv, ShareInv, NEW d \in Connections, Teardown(d), UNCHANGED nextSeq,
         UNCHANGED strand \/ (strand # <<>> /\ strand' = Tail(strand))
  PROVE  ShareInv'
<1>1. c' = TornDown(d) /\ share' = Forgetting /\ pool'.good = 0 /\ pool'.bad = <<>>
  BY DEF Teardown, NoPool
<1>2. c'.wq = <<>> /\ c'.connected = FALSE /\ ~Live(c') /\ ~Sent(c')
  BY <1>1, TornDownFields DEF Live, Sent
<1>3. Ledger(share, nextSeq) /\ Tracked(Line, share, Sent(c), c.connected, Live(c), pool.good, pool.bad)
  BY DEF ShareInv
<1>4. /\ share' \in [Shares -> Entries]
      /\ \A x \in Shares : /\ share'[x].seq = share[x].seq /\ share'[x].judged = share[x].judged
                           /\ share'[x].at = share[x].at /\ ~Waiting(share'[x]) /\ Sound(share'[x])
  <2>1. share \in [Shares -> Entries] /\ \A x \in Shares : share[x] \in Entries /\ Sound(share[x])
    BY <1>3 DEF Ledger
  <2>2. share' = [x \in Shares |-> [share[x] EXCEPT !.lost = share[x].lost \/ share[x].at = "pending"]]
    BY <1>1, <2>1 DEF Forgetting, Entries
  <2> SUFFICES ASSUME NEW x \in Shares
               PROVE  /\ share'[x] \in Entries /\ share'[x].seq = share[x].seq /\ share'[x].judged = share[x].judged
                      /\ share'[x].at = share[x].at /\ ~Waiting(share'[x]) /\ Sound(share'[x])
    BY <2>2
  <2> DEFINE r == share[x]
             e == [r EXCEPT !.lost = r.lost \/ r.at = "pending"]
  <2>3. share'[x] = e /\ r \in Entries /\ Sound(r)
    BY <2>1, <2>2
  <2> HIDE DEF r
  <2>4. /\ e \in Entries /\ e.seq = r.seq /\ e.judged = r.judged /\ e.at = r.at /\ e.got = r.got /\ e.said = r.said
        /\ e.lost = (r.lost \/ r.at = "pending")
    BY <2>3, ZenonT(60) DEF Entries
  <2> HIDE DEF e
  <2>5. Sound(e) /\ ~Waiting(e)
    BY <2>3, <2>4 DEF Sound, Waiting
  <2> QED  BY <2>3, <2>4, <2>5 DEF r
<1>5. Ledger(share', nextSeq)
  BY <1>3, <1>4, LedgerKept
<1>6. PICK m \in Nat : Cut(Line', Line, 0, m) /\ (c.wq # <<>> => m >= 1)
  <2>1. c.wq \in Seq(Posted) /\ strand \in Seq(Posted) /\ Len(c.wq) \in Nat /\ (c.wq # <<>> => Len(c.wq) >= 1)
    BY LineTyped
  <2>2. /\ Cut(<<>> \o strand, c.wq \o strand, 0, Len(c.wq))
        /\ strand # <<>> => Cut(<<>> \o Tail(strand), c.wq \o strand, 0, Len(c.wq) + 1)
    BY <2>1, JoinDrops
  <2>3. CASE UNCHANGED strand
    <3>1. Cut(Line', Line, 0, Len(c.wq))
      BY <1>2, <2>2, <2>3 DEF Line
    <3> QED  BY <2>1, <3>1
  <2>4. CASE strand # <<>> /\ strand' = Tail(strand)
    <3>1. Cut(Line', Line, 0, Len(c.wq) + 1)
      BY <1>2, <2>2, <2>4 DEF Line
    <3> QED  BY <2>1, <3>1
  <2> QED  BY <2>3, <2>4
<1> DEFINE q == Line
           r == Line'
           live == Live(c)
           sent == Sent(c)
           up == c.connected
           sh == share
           tab == share'
           good == pool.good
           bad == pool.bad
<1>7. /\ Cut(r, q, 0, m) /\ Len(q) \in Nat /\ Tracked(q, sh, sent, up, live, good, bad)
      /\ (sent => m >= 1) /\ Len(r) \in Nat
      /\ \A x \in Shares : /\ tab[x].seq = sh[x].seq /\ tab[x].judged = sh[x].judged /\ tab[x].at = sh[x].at
                           /\ ~Waiting(tab[x])
  BY <1>3, <1>4, <1>6, LineTyped DEF Sent, Cut
<1> HIDE DEF q, r, live, sent, up, sh, tab, good, bad
<1>8. Tracked(q, tab, sent, up, live, good, bad)
  <2>1. \A i \in 1..Len(q), x \in Shares : Submits(q[i], x) => tab[x].at = "posted"
    BY <1>7 DEF Tracked, Lined
  <2> QED  BY <1>7, <2>1, TrackedKept
<1>9. Tracked(q, tab, sent, FALSE, FALSE, 0, <<>>)
  BY <1>7, <1>8, TrackedAlone
<1>10. \A i \in 1..Len(r) : Before(i, 0, m) > 1 \/ ~sent
  BY <1>7 DEF Before
<1>11. Tracked(r, tab, FALSE, FALSE, FALSE, 0, <<>>)
  <2> DEFINE no == FALSE
  <2>1. /\ ~no /\ Tracked(q, tab, sent, no, no, 0, <<>>) /\ Cut(r, q, 0, m) /\ Len(q) \in Nat
        /\ \A i \in 1..Len(r) : (i > 1 \/ ~no) => Before(i, 0, m) > 1 \/ ~sent
    BY <1>7, <1>9, <1>10
  <2> HIDE DEF no
  <2>2. Tracked(r, tab, no, no, no, 0, <<>>)
    BY <2>1, TrackedCut
  <2> QED  BY <2>2 DEF no
<1>12. Tracked(Line', share', Sent(c'), c'.connected, Live(c'), pool'.good, pool'.bad)
  <2>1. Sent(c') = FALSE /\ Live(c') = FALSE
    BY <1>2 DEF Sent, Live
  <2> QED  BY <1>1, <1>2, <1>11, <2>1 DEF r, tab
<1>13. /\ pool'.good \in 0..MaxShares /\ pool'.bad \in Seq(1..MaxShares) /\ Below(pool'.good, pool'.bad, nextSeq)
  BY <1>1, <1>3, UpstreamConstants DEF Below, Ledger
<1> QED  BY <1>5, <1>12, <1>13 DEF ShareInv

\* A handler is posted that sends no share yet.
LEMMA SharePosts ==
  ASSUME LinkInv, ShareInv, UNCHANGED <<c, nextSeq>>, NEW f \in Posted, strand' = Append(strand, f),
         pool'.good = pool.good, pool'.bad = pool.bad, Ledger(share', nextSeq), \A x \in Shares : ~Carries(f, x),
         \A x \in Shares : /\ share'[x].seq = share[x].seq /\ share'[x].judged = share[x].judged
                           /\ Waiting(share'[x]) => Waiting(share[x])
                           /\ share[x].at = "posted" => share'[x].at = "posted"
                           /\ Submits(f, x) => share[x].at # "posted" /\ share'[x].at = "posted"
  PROVE  ShareInv'
<1> DEFINE q == Line
           r == Line'
           tab == share'
           live == Live(c)
           sent == Sent(c)
           up == c.connected
<1>1. Grown(r, q, f) /\ Len(q) \in Nat
  BY LineTyped, JoinGrows DEF Line
<1>2. Tracked(q, share, sent, up, live, pool.good, pool.bad)
  BY DEF ShareInv
<1> HIDE DEF q, r, live, sent, up, tab
<1>3. \A i \in 1..Len(q), x \in Shares : Submits(q[i], x) => share[x].at = "posted"
  BY <1>2 DEF Tracked, Lined
<1>4. \A i \in 1..Len(q), x \in Shares : Submits(q[i], x) => tab[x].at = "posted"
  BY <1>3 DEF tab
<1>5. Tracked(q, tab, sent, up, live, pool.good, pool.bad)
  <2>1. \A x \in Shares : tab[x].seq = share[x].seq /\ tab[x].judged = share[x].judged
                          /\ (Waiting(tab[x]) => Waiting(share[x]))
    BY DEF tab
  <2> QED  BY <1>1, <1>2, <1>4, <2>1, TrackedKept
<1>6. \A x \in Shares : Submits(f, x) => tab[x].at = "posted" /\ \A i \in 1..Len(q) : ~Submits(q[i], x)
  BY <1>3 DEF tab
<1>7. Tracked(r, tab, sent, up, live, pool.good, pool.bad)
  BY <1>1, <1>5, <1>6, TrackedGrown
<1>8. Tracked(Line', share', Sent(c'), c'.connected, Live(c'), pool'.good, pool'.bad)
  BY <1>7 DEF r, tab, sent, up, live
<1> QED  BY <1>8 DEF ShareInv

\* The strand runs a posted share.
LEMMA ShareRuns ==
  ASSUME LinkInv, ShareInv, SubmitPosted
  PROVE  ShareInv'
<1> DEFINE x == Head(strand).share
           q == Line
           p == c.wq \o Tail(strand)
           k == Len(c.wq)
           live == Live(c)
           sent == Sent(c)
           good == pool.good
           bad == pool.bad
           n == nextSeq
           sh == share
<1>1. /\ Head(strand).do = "submit" /\ strand # <<>> /\ Head(strand) \in Posted /\ Tail(strand) \in Seq(Posted)
      /\ UNCHANGED <<c, pool>>
  <2>1. strand # <<>> /\ Head(strand).do = "submit" /\ UNCHANGED <<c, pool>>
    BY DEF SubmitPosted, Runs
  <2> QED  BY <2>1, LineTyped, FirstAndRest
<1>2. x \in Shares /\ Head(strand).frame = "none"
  BY <1>1, PostedTyped DEF Posted
<1>3. Cut(p, q, k, 1) /\ q[k + 1] = Head(strand) /\ k \in Nat /\ Len(q) \in Nat /\ (c.wq # <<>> => k >= 1)
  BY <1>1, LineTyped, JoinRuns DEF Line
<1>4. Ledger(sh, n) /\ Below(good, bad, n) /\ Tracked(q, sh, sent, c.connected, live, good, bad)
      /\ good \in 0..MaxShares /\ bad \in Seq(1..MaxShares)
  BY DEF ShareInv
<1>5. Submits(q[k + 1], x) /\ \A y \in Shares : ~Carries(q[k + 1], y)
  BY <1>1, <1>2, <1>3 DEF Submits, Carries
<1>6. (sent => k >= 1)
  BY <1>3 DEF Sent
<1> HIDE DEF x, q, p, k, live, sent, good, bad, n, sh
<1>7. /\ k + 1 \in 1..Len(q) /\ Len(p) \in Nat /\ Len(p) = Len(q) - 1
      /\ \A i \in 1..Len(p) : p[i] = (IF i <= k THEN q[i] ELSE q[i + 1])
      /\ (k >= 1 => Len(p) >= 1)
  BY <1>3 DEF Cut
<1>9. sh[x].at = "posted"
  BY <1>2, <1>4, <1>5, <1>7 DEF Tracked, Lined
<1>10. \A i \in 1..Len(p) : ~Submits(p[i], x)
  <2> SUFFICES ASSUME NEW i \in 1..Len(p), Submits(p[i], x)  PROVE FALSE
    OBVIOUS
  <2>1. \A a, b \in 1..Len(q) : Submits(q[a], x) /\ Submits(q[b], x) => a = b
    BY <1>2, <1>4 DEF Tracked, Lined
  <2>2. CASE i <= k
    <3>1. i \in 1..Len(q) /\ p[i] = q[i] /\ i # k + 1
      BY <1>3, <1>7, <2>2
    <3> QED  BY <1>5, <1>7, <2>1, <3>1, SMTT(40)
  <2>3. CASE ~(i <= k)
    <3>1. i + 1 \in 1..Len(q) /\ p[i] = q[i + 1] /\ i + 1 # k + 1
      BY <1>3, <1>7, <2>3
    <3> QED  BY <1>5, <1>7, <2>1, <3>1
  <2> QED  BY <1>3, <2>2, <2>3
<1>11. Tracked(p, sh, sent, c.connected, live, good, bad)
  <2>1. \A i \in 1..Len(p) : (i > 1 \/ ~sent) => Before(i, k, 1) > 1 \/ ~sent
    BY <1>3, <1>7 DEF Before
  <2>2. sent /\ live => sent /\ Before(1, k, 1) = 1
    BY <1>3, <1>6 DEF Before
  <2>3. \A i \in (k + 1)..(k + 1) : i = k + 1
    BY <1>3
  <2>4. \A i \in (k + 1)..(k + 1), y \in Shares : (Carries(q[i], y) /\ Waiting(sh[y]) /\ live) => sh[y].judged # "no"
    BY <1>5, <2>3
  <2> QED  BY <1>3, <1>4, <2>1, <2>2, <2>4, TrackedCut, SMTT(40)
<1>12. CASE c.connected
  <2> DEFINE f == Push("share", x)
             tab == [sh EXCEPT ![x].at = "pending", ![x].seq = n]
  <2>1. share' = tab /\ nextSeq' = n + 1 /\ strand' = Append(Tail(strand), f)
    BY <1>12 DEF SubmitPosted, x, sh, n
  <2>2. f \in Posted /\ \A y \in Shares : ~Submits(f, y) /\ (Carries(f, y) <=> y = x)
    BY <1>2, PostedTyped, NoShare DEF Posted
  <2> HIDE DEF f, tab
  <2>3. Grown(Line', p, f)
    <3>1. Grown(c.wq \o Append(Tail(strand), f), c.wq \o Tail(strand), f)
      BY <1>1, <2>2, LineTyped, JoinGrows
    <3> QED  BY <1>1, <2>1, <3>1 DEF Line, p
  <2>4. n \in 1..MaxShares /\ Ledger(tab, n + 1)
    BY <1>2, <1>4, <1>9, LedgerNumbers DEF tab
  <2>6. sent => Len(p) >= 1
    BY <1>6, <1>7
  <2> DEFINE r == Line'
  <2>7. Grown(r, p, f)
    BY <2>3
  <2> HIDE DEF r
  <2>8. Tracked(r, tab, sent, c.connected, live, good, bad)
    BY <1>2, <1>4, <1>7, <1>9, <1>10, <2>2, <1>11, <1>12, <2>6, <2>7, TrackedSent DEF tab
  <2>9. Tracked(Line', share', Sent(c'), c'.connected, Live(c'), pool'.good, pool'.bad)
    BY <1>1, <2>1, <2>8 DEF r, sent, live, good, bad
  <2>10. Below(good, bad, n + 1)
    <3>1. good < n /\ \A i \in 1..Len(bad) : bad[i] < n /\ bad[i] \in 1..MaxShares
      <4>1. bad \in Seq(1..MaxShares)
        BY <1>4
      <4>2. \A i \in 1..Len(bad) : bad[i] \in 1..MaxShares
        BY <4>1, ElementOfSeq
      <4> QED  BY <1>4, <4>2 DEF Below
    <3>2. good \in Nat /\ n \in Nat
      BY <1>4, <2>4
    <3> QED  BY <3>1, <3>2 DEF Below
  <2> QED  BY <1>1, <1>4, <2>1, <2>4, <2>9, <2>10 DEF ShareInv, good, bad, n
<1>13. CASE ~c.connected
  <2> DEFINE tab == Telling(sh, {x}, "unsent")
  <2>1. strand' = Tail(strand) /\ UNCHANGED nextSeq /\ share' = [share EXCEPT ![x] = Answered(x, "unsent")]
    BY <1>13 DEF SubmitPosted, x
  <2>2. share' = tab
    BY <1>2, <1>4, <2>1 DEF Telling, Answered, Answer, Ledger, sh, Entries
  <2>3. /\ Ledger(tab, n)
        /\ \A y \in Shares : /\ tab[y].seq = sh[y].seq /\ tab[y].judged = sh[y].judged
                             /\ y \in {x} => tab[y].at = "over" /\ ~Waiting(tab[y])
                             /\ y \notin {x} => tab[y] = sh[y]
    <3>1. \A y \in {x} : y \in Shares /\ sh[y].at # "over"
      BY <1>2, <1>9
    <3>2. "unsent" \in {"unsent", "accepted", "refused"} /\ "unsent" # "accepted" /\ "unsent" # "refused"
      OBVIOUS
    <3> QED  BY <1>4, <3>1, <3>2, LedgerTold
  <2> HIDE DEF tab
  <2>4. Tracked(p, tab, sent, c.connected, live, good, bad)
    <3>1. \A i \in 1..Len(p), y \in Shares : Submits(p[i], y) => sh[y].at = "posted"
      BY <1>11 DEF Tracked, Lined
    <3>2. \A i \in 1..Len(p), y \in Shares : Submits(p[i], y) => tab[y].at = "posted"
      BY <1>10, <2>3, <3>1
    <3>3. \A y \in Shares : Waiting(tab[y]) => Waiting(sh[y])
      BY <2>3
    <3> QED  BY <1>7, <1>11, <2>3, <3>2, <3>3, TrackedKept
  <2>5. Tracked(Line', share', Sent(c'), c'.connected, Live(c'), pool'.good, pool'.bad)
    BY <1>1, <2>1, <2>2, <2>4 DEF Line, p, sent, live, good, bad
  <2> QED  BY <1>1, <1>4, <2>1, <2>2, <2>3, <2>5 DEF ShareInv, good, bad, n
<1> QED  BY <1>12, <1>13

\* The completion of a write takes its frame off the queue.
LEMMA SharePops ==
  ASSUME LinkInv, ShareInv, c.wq # <<>>, Sent(c), c'.wq = Tail(c.wq), UNCHANGED <<strand, share, nextSeq, pool>>,
         c'.connected = c.connected, Live(c') => Live(c), Live(c') => ~Sent(c')
  PROVE  ShareInv'
<1> DEFINE q == Line
           r == Line'
           live == Live(c)
           live2 == Live(c')
           sent == Sent(c)
           sent2 == Sent(c')
           up == c.connected
           sh == share
<1>1. Cut(r, q, 0, 1) /\ Len(q) \in Nat /\ Tracked(q, sh, sent, up, live, pool.good, pool.bad)
      /\ (live2 => live) /\ (live2 => ~sent2) /\ sent
  BY LineTyped, JoinPops DEF ShareInv, Line
<1> HIDE DEF q, r, live, live2, sent, sent2, up, sh
<1>2. Len(r) \in Nat /\ Len(q) >= 1
  BY <1>1 DEF Cut
<1>3. \A i \in 1..Len(r) : Before(i, 0, 1) > 1
  BY <1>2 DEF Before
<1>4. \A i \in (0 + 1)..(0 + 1), x \in Shares : (Carries(q[i], x) /\ Waiting(sh[x]) /\ live2) => sh[x].judged # "no"
  <2>1. 1 \in 1..Len(q) /\ \A i \in (0 + 1)..(0 + 1) : i = 1
    BY <1>1, <1>2
  <2>2. \A x \in Shares : Carries(q[1], x) /\ live => sh[x].judged # "no"
    BY <1>1, <2>1 DEF Tracked, Judging
  <2> QED  BY <1>1, <2>1, <2>2
<1>5. Tracked(r, sh, sent2, up, live2, pool.good, pool.bad)
  <2> DEFINE k == 0
             n == 1
  <2>1. \A i \in 1..Len(r) : (i > 1 \/ ~sent2) => Before(i, k, n) > 1 \/ ~sent
    BY <1>3
  <2>2. sent2 /\ live2 => sent /\ Before(1, k, n) = 1
    BY <1>1
  <2>3. \A i \in (k + 1)..(k + n), x \in Shares :
          (Carries(q[i], x) /\ Waiting(sh[x]) /\ live2) => sh[x].judged # "no"
    BY <1>4
  <2>4. Cut(r, q, k, n) /\ Len(q) \in Nat /\ Tracked(q, sh, sent, up, live, pool.good, pool.bad) /\ (live2 => live)
    BY <1>1
  <2> HIDE DEF k, n
  <2> QED  BY <2>1, <2>2, <2>3, <2>4, TrackedCut
<1>6. Tracked(Line', share', Sent(c'), c'.connected, Live(c'), pool'.good, pool'.bad)
  BY <1>5 DEF r, sent2, live2, up, sh
<1> QED  BY <1>6 DEF ShareInv

LEMMA ShareInit == Init => ShareInv
<1> SUFFICES ASSUME Init  PROVE ShareInv
  OBVIOUS
<1>1. /\ nextSeq = 1 /\ pool.good = 0 /\ pool.bad = <<>> /\ c.wq = <<>>
      /\ \A x \in Shares : share[x] = [at |-> "none", seq |-> 0, judged |-> "no", lost |-> FALSE,
                                       said |-> "nothing", got |-> 0]
  BY DEF Init, NoPool
<1>2. share \in [Shares -> Entries]
  BY UpstreamConstants DEF Init, Entries
<1>3. \A x \in Shares : Sound(share[x]) /\ share[x].seq = 0 /\ ~Waiting(share[x])
  BY <1>1 DEF Sound, Waiting
<1>4. Numbers(share) = {}
  BY <1>3 DEF Numbers
<1>5. Ledger(share, nextSeq)
  BY <1>1, <1>2, <1>3, <1>4, FS_EmptySet DEF Ledger
<1>6. Below(pool.good, pool.bad, nextSeq) /\ pool.good \in 0..MaxShares /\ pool.bad \in Seq(1..MaxShares)
  BY <1>1, UpstreamConstants DEF Below
<1>7. Line = <<Handler("connect", None)>>
  BY <1>1 DEF Init, Line
<1>8. \A i \in 1..Len(Line), x \in Shares : ~Carries(Line[i], x) /\ ~Submits(Line[i], x)
  BY <1>7 DEF Carries, Submits, Handler
<1>9. Lined(Line, share) /\ Judging(Line, share, Sent(c), Live(c))
  BY <1>8 DEF Lined, Judging
<1>10. Judged(Line, share, c.connected, Live(c), pool.good, pool.bad)
  BY <1>1, <1>3 DEF Judged
<1> QED  BY <1>5, <1>6, <1>9, <1>10 DEF ShareInv, Tracked

\* The connection is made: no share waits, nothing is being written.
LEMMA ShareConnects ==
  ASSUME DownInv, LinkInv, ShareInv, Connected
  PROVE  ShareInv'
<1> DEFINE q == Line
           f == Push("setup", None)
           r == Line'
           live2 == Live(c')
           up2 == c'.connected
           sent == Sent(c)
           good == pool.good
           bad == pool.bad
<1>1. /\ c.op = "done" /\ strand' = Append(strand, f) /\ UNCHANGED <<share, nextSeq, pool>>
      /\ c' = [c EXCEPT !.op = "none", !.connected = TRUE, !.read = IF c.sock THEN "pending" ELSE "failed"]
  BY DEF Connected
<1>2. c'.wq = c.wq /\ c'.writes = c.writes
  BY <1>1 DEF DownInv, Connections
<1>3. c.wq = <<>> /\ ~c.connected
  BY <1>1 DEF LinkInv, Link, Calm
<1>4. f \in Posted /\ \A x \in Shares : ~Carries(f, x) /\ ~Submits(f, x)
  BY PostedTyped, NoShare DEF Posted
<1>5. Grown(r, q, f) /\ Len(q) \in Nat
  BY <1>1, <1>2, <1>4, LineTyped, JoinGrows DEF Line
<1>6. /\ ~sent
      /\ Tracked(q, share, sent, c.connected, Live(c), good, bad)
      /\ \A x \in Shares : ~Waiting(share[x])
  BY <1>3 DEF ShareInv, Sent, Tracked, Judged
<1>7. Sent(c') = sent
  BY <1>2 DEF Sent
<1> HIDE DEF q, f, r, live2, up2, sent, good, bad
<1>8. Tracked(q, share, sent, up2, live2, good, bad)
  BY <1>6, TrackedAlone
<1>9. Tracked(r, share, sent, up2, live2, good, bad)
  BY <1>4, <1>5, <1>8, TrackedGrown, SMTT(40)
<1>10. Tracked(Line', share', Sent(c'), c'.connected, Live(c'), pool'.good, pool'.bad)
  BY <1>1, <1>7, <1>9 DEF r, up2, live2, good, bad
<1> QED  BY <1>1, <1>10 DEF ShareInv

\* A frame has gone out to the pool.
LEMMA ShareWritten ==
  ASSUME DownInv, LinkInv, StepInv, ShareInv, Written
  PROVE  ShareInv'
<1> DEFINE q == Line
           live == Live(c)
           sent == Sent(c)
           up == c.connected
           good == pool.good
           bad == pool.bad
           n == nextSeq
           sh == share
           x == c.wq[1].share
<1>1. /\ c.writes # <<>> /\ c.writes[1] = "pending" /\ c' = EndFirst(c, "done")
      /\ Received(c.wq[1].frame, c.wq[1].share) /\ UNCHANGED <<strand, nextSeq>> /\ c \in Connections
      /\ c.writes \in Seq(Ends)
  <2>1. c.writes # <<>> => Head(c.writes) = c.writes[1]
    OBVIOUS
  <2> QED  BY <2>1 DEF Written, DownInv, Connections
<1>2. 1 \in 1..Len(c.writes)
  <2>1. Len(c.writes) \in Nat \ {0}
    BY <1>1, EmptySeq
  <2> QED  BY <2>1
<1>3. c.wq # <<>> /\ ~sent
  BY <1>1, <1>2 DEF LinkInv, Link, Sent
<1>4. /\ c'.wq = c.wq /\ c'.connected = c.connected /\ c'.read = c.read /\ c'.writes[1] = "done"
  <2>1. "done" \in Ends
    BY DEF Ends
  <2> QED  BY <1>1, <1>2, <2>1, EndFirstFields
<1>5. Sent(c') /\ Live(c') = live /\ Line' = Line /\ c'.connected = up
  BY <1>1, <1>3, <1>4 DEF Sent, Live, Line
<1>6. Len(q) \in Nat /\ 1 \in 1..Len(q) /\ q[1] = c.wq[1] /\ c.wq[1] \in Pushes
  <2>1. Len(c.wq) >= 1 /\ c.wq \in Seq(Pushes) /\ c.wq \in Seq(Posted) /\ strand \in Seq(Posted) /\ Len(c.wq) \in Nat
    BY <1>3, LineTyped DEF LinkInv
  <2>2. Len(q) = Len(c.wq) + Len(strand) /\ Len(strand) \in Nat /\ \A i \in 1..Len(c.wq) : q[i] = c.wq[i]
    BY <2>1, JoinAt DEF Line
  <2>3. 1 \in 1..Len(c.wq)
    BY <2>1
  <2>4. c.wq[1] \in Pushes
    BY <2>1, <2>3, ElementOfSeq
  <2> HIDE DEF q
  <2> QED  BY <2>1, <2>2, <2>3, <2>4
<1>7. /\ Ledger(sh, n) /\ good \in 0..MaxShares /\ bad \in Seq(1..MaxShares) /\ Below(good, bad, n)
      /\ Tracked(q, sh, sent, up, live, good, bad) /\ good \in Nat
  BY UpstreamConstants DEF ShareInv
<1>8. pool = [stage |-> pool.stage, active |-> pool.active, tipped |-> pool.tipped, count |-> pool.count,
             good |-> pool.good, bad |-> pool.bad]
  BY DEF StepInv, PoolInv
<1>9. ASSUME Ledger(share', n), Below(pool'.good, pool'.bad, n), pool'.good \in 0..MaxShares,
             pool'.bad \in Seq(1..MaxShares), Tracked(q, share', Sent(c'), up, live, pool'.good, pool'.bad)
      PROVE  ShareInv'
  <2>1. Tracked(Line', share', Sent(c'), c'.connected, Live(c'), pool'.good, pool'.bad)
    BY <1>5, <1>9
  <2> QED  BY <1>1, <1>9, <2>1 DEF ShareInv
<1>10. CASE c.wq[1].frame # "share"
  <2>1. /\ UNCHANGED share
        /\ pool' = [pool EXCEPT !.stage = "setup"] \/ pool' = [pool EXCEPT !.stage = "opening"]
    BY <1>1, <1>10 DEF Received
  <2>2. pool'.good = good /\ pool'.bad = bad
    BY <1>8, <2>1
  <2>3. \A y \in Shares : ~Carries(q[1], y)
    BY <1>6, <1>10 DEF Carries
  <2> HIDE DEF q, live, sent, up, good, bad
  <2>4. Tracked(q, sh, Sent(c'), up, live, good, bad)
    BY <1>3, <1>7, <2>3, TrackedHello
  <2> QED  BY <1>7, <1>9, <2>1, <2>2, <2>4
<1>11. CASE c.wq[1].frame = "share"
  <2>1. x \in Shares /\ Carries(q[1], x)
    BY <1>6, <1>11, SMTT(40) DEF Pushes, Carries
  <2>2. PICK v \in {"good", "bad"} :
          /\ share' = [share EXCEPT ![x].judged = v]
          /\ pool' = IF v = "good" THEN [pool EXCEPT !.good = share[x].seq]
                     ELSE [pool EXCEPT !.bad = Append(pool.bad, share[x].seq)]
    <3>1. PICK ok \in BOOLEAN :
            /\ share' = [share EXCEPT ![x].judged = IF ok THEN "good" ELSE "bad"]
            /\ pool' = IF ok THEN [pool EXCEPT !.good = share[x].seq]
                       ELSE [pool EXCEPT !.bad = Append(pool.bad, share[x].seq)]
      BY <1>1, <1>8, <1>11 DEF Received
    <3>2. CASE ok
      BY <3>1, <3>2
    <3>3. CASE ~ok
      BY <3>1, <3>3
    <3> QED  BY <3>2, <3>3, SMTT(40)
  <2>3. /\ pool'.good = IF v = "good" THEN share[x].seq ELSE good
        /\ pool'.bad = IF v = "good" THEN bad ELSE Append(bad, share[x].seq)
    <3>1. CASE v = "good"
      BY <1>8, <2>2, <3>1, SMTT(40)
    <3>2. CASE v # "good"
      BY <1>8, <2>2, <3>2
    <3> QED  BY <3>1, <3>2
  <2> HIDE DEF q, live, sent, up, good, bad, n, sh, x
  <2>00. /\ share' = JudgedAs(sh, x, v)
         /\ pool'.good = GoodAfter(good, v, sh[x].seq) /\ pool'.bad = BadAfter(bad, v, sh[x].seq)
    BY <2>2, <2>3 DEF sh, JudgedAs, GoodAfter, BadAfter
  <2>4. /\ sh[x].seq \in 1..MaxShares /\ Ledger(JudgedAs(sh, x, v), n)
        /\ Below(GoodAfter(good, v, sh[x].seq), BadAfter(bad, v, sh[x].seq), n)
        /\ Tracked(q, JudgedAs(sh, x, v), Sent(c'), up, live,
                   GoodAfter(good, v, sh[x].seq), BadAfter(bad, v, sh[x].seq))
    <3>1. /\ Len(q) \in Nat /\ 1 \in 1..Len(q) /\ Ledger(sh, n) /\ x \in Shares /\ Carries(q[1], x)
          /\ good \in Nat /\ bad \in Seq(1..MaxShares) /\ Below(good, bad, n)
      BY <1>6, <1>7, <2>1
    <3>2. Tracked(q, sh, sent, up, live, good, bad)
      BY <1>7
    <3>3. v \in {"good", "bad"} /\ Sent(c')
      BY <1>5, <2>2
    <3> QED  BY <1>3, <3>1, <3>2, <3>3, TrackedWritten, ZenonT(60)
  <2>5. pool'.good \in 0..MaxShares /\ pool'.bad \in Seq(1..MaxShares)
    <3>1. Append(bad, sh[x].seq) \in Seq(1..MaxShares)
      BY <1>7, <2>4
    <3>2. CASE v = "good"
      <4>1. pool'.good = sh[x].seq /\ pool'.bad = bad
        BY <2>00, <3>2 DEF GoodAfter, BadAfter
      <4> QED  BY <1>7, <2>4, <4>1
    <3>3. CASE v # "good"
      <4>1. pool'.good = good /\ pool'.bad = Append(bad, sh[x].seq)
        BY <2>00, <3>3 DEF GoodAfter, BadAfter
      <4> QED  BY <1>7, <3>1, <4>1
    <3> QED  BY <3>2, <3>3
  <2> QED  BY <1>9, <2>00, <2>4, <2>5
<1> QED  BY <1>10, <1>11

\* The pool's answers are told to the shares they are for.
LEMMA ShareToldVerdict ==
  ASSUME LinkInv, StepInv, ShareInv, SharesAccepted \/ ShareRefused
  PROVE  ShareInv'
<1> DEFINE q == Line
           live == Live(c)
           sent == Sent(c)
           up == c.connected
           good == pool.good
           bad == pool.bad
           n == nextSeq
           sh == share
<1>1. /\ live /\ UNCHANGED <<c, strand, nextSeq>>
  BY DEF SharesAccepted, ShareRefused, Reads, Live
<1>2. /\ Ledger(sh, n) /\ good \in 0..MaxShares /\ bad \in Seq(1..MaxShares) /\ Below(good, bad, n)
      /\ Tracked(q, sh, sent, up, live, good, bad) /\ good \in Nat /\ Len(q) \in Nat
  BY LineTyped, UpstreamConstants DEF ShareInv
<1>3. pool = [stage |-> pool.stage, active |-> pool.active, tipped |-> pool.tipped, count |-> pool.count,
             good |-> pool.good, bad |-> pool.bad]
  BY DEF StepInv, PoolInv
<1>4. ASSUME Ledger(share', n), Below(pool'.good, pool'.bad, n), pool'.good \in 0..MaxShares,
             pool'.bad \in Seq(1..MaxShares), Tracked(q, share', sent, up, live, pool'.good, pool'.bad)
      PROVE  ShareInv'
  <2>1. Line' = Line
    BY <1>1 DEF Line
  <2> QED  BY <1>1, <1>4, <2>1 DEF ShareInv
<1>5. CASE SharesAccepted
  <2> DEFINE told == {x \in Shares : sh[x].at = "pending" /\ sh[x].seq <= good}
             tab == Telling(sh, told, "accepted")
  <2>1. share' = [x \in Shares |-> IF share[x].at = "pending" /\ share[x].seq <= pool.good
                                   THEN Answered(x, "accepted") ELSE share[x]]
        /\ pool' = [pool EXCEPT !.good = 0] /\ \A i \in DOMAIN pool.bad : pool.bad[i] > pool.good
    BY <1>5 DEF SharesAccepted
  <2>2. share' = tab
    <3>1. \A x \in Shares : Answered(x, "accepted") = Answer(share[x], "accepted")
      BY <1>2 DEF Answered, Answer, Ledger, Entries
    <3> QED  BY <2>1, <3>1 DEF Telling
  <2>3. pool'.good = 0 /\ pool'.bad = bad
    BY <1>3, <2>1
  <2>4. \A i \in 1..Len(bad) : bad[i] > good
    BY <1>2, <2>1
  <2> HIDE DEF q, live, sent, up, good, bad, n, sh
  <2>5. Ledger(tab, n) /\ Below(0, bad, n) /\ Tracked(q, tab, sent, up, live, 0, bad)
    BY <1>1, <1>2, <2>4, TrackedAccepted, ZenonT(60)
  <2>6. 0 \in 0..MaxShares
    BY UpstreamConstants
  <2> QED  BY <1>2, <1>4, <2>2, <2>3, <2>5, <2>6
<1>6. CASE ShareRefused
  <2> DEFINE told == {x \in Shares : sh[x].at = "pending" /\ sh[x].seq = Head(bad)}
             tab == Telling(sh, told, "refused")
  <2>1. share' = [x \in Shares |-> IF share[x].at = "pending" /\ share[x].seq = Head(pool.bad)
                                   THEN Answered(x, "refused") ELSE share[x]]
        /\ pool' = [pool EXCEPT !.bad = Tail(pool.bad)] /\ pool.bad # <<>>
    BY <1>3, <1>6 DEF ShareRefused
  <2>2. share' = tab
    <3>1. \A x \in Shares : Answered(x, "refused") = Answer(share[x], "refused")
      BY <1>2 DEF Answered, Answer, Ledger, Entries
    <3> QED  BY <2>1, <3>1 DEF Telling
  <2>3. pool'.good = good /\ pool'.bad = Tail(bad) /\ bad # <<>>
    BY <1>3, <2>1
  <2> HIDE DEF q, live, sent, up, good, bad, n, sh
  <2>4. live /\ bad # <<>>
    BY <1>1, <2>3
  <2>4a. bad \in Seq(1..MaxShares) /\ good \in Nat /\ Len(q) \in Nat
    BY <1>2
  <2>4b. Ledger(sh, n) /\ Below(good, bad, n) /\ Tracked(q, sh, sent, up, live, good, bad)
    BY <1>2
  <2>5. Ledger(tab, n) /\ Below(good, Tail(bad), n) /\ Tracked(q, tab, sent, up, live, good, Tail(bad))
    <3> DEFINE first == Head(bad)
               rest == Tail(bad)
    <3>1. tab = Refusing(sh, first)
      BY DEF Refusing
    <3>2. FirstOf(bad, first, rest)
      BY DEF FirstOf
    <3> HIDE DEF first, rest, tab
    <3>3. Ledger(tab, n) /\ Below(good, rest, n) /\ Tracked(q, tab, sent, up, live, good, rest)
      BY <2>4, <2>4a, <2>4b, <3>1, <3>2, TrackedRefused
    <3> QED  BY <3>3 DEF rest
  <2>6. Tail(bad) \in Seq(1..MaxShares)
    BY <1>2, <2>3, HeadTailProperties
  <2> QED  BY <1>2, <1>4, <2>2, <2>3, <2>5, <2>6
<1> QED  BY <1>5, <1>6

LEMMA ShareNext == DownInv /\ LinkInv /\ StepInv /\ ShareInv /\ [Next]_vars => ShareInv'
<1> SUFFICES ASSUME DownInv, LinkInv, StepInv, ShareInv, [Next]_vars  PROVE ShareInv'
  OBVIOUS
<1>a. c \in Connections /\ Link(c) /\ c.wq \in Seq(Posted) /\ strand \in Seq(Posted) /\ c.writes \in Seq(Ends)
      /\ Len(c.wq) \in Nat /\ Cut(Line, Line, 0, 0)
  BY LineTyped DEF DownInv, LinkInv, Connections
<1>b. pool = [stage |-> pool.stage, active |-> pool.active, tipped |-> pool.tipped, count |-> pool.count,
              good |-> pool.good, bad |-> pool.bad]
  BY DEF StepInv, PoolInv
\* Nothing happens to the line.
<1>c. ASSUME UNCHANGED <<strand, share, nextSeq>>, c'.wq = c.wq, c'.connected = c.connected,
             pool'.good = pool.good, pool'.bad = pool.bad,
             Live(c') => Live(c), Sent(c) => Sent(c'), Sent(c') /\ Live(c') => Sent(c)
      PROVE  ShareInv'
  <2>1. Line' = Line
    BY <1>c DEF Line
  <2> QED  BY <1>a, <1>c, <2>1, ShareStill
<1>d. ASSUME UNCHANGED <<c, strand, share, nextSeq>>, pool'.good = pool.good, pool'.bad = pool.bad
      PROVE  ShareInv'
  BY <1>c, <1>d
\* Nothing is done to what is written.
<1>e. ASSUME UNCHANGED <<strand, share, nextSeq, pool>>, c'.wq = c.wq, c'.connected = c.connected,
             c'.writes = c.writes, Live(c') => Live(c)
      PROVE  ShareInv'
  <2>1. Sent(c') = Sent(c)
    BY <1>e DEF Sent
  <2> QED  BY <1>c, <1>e, <2>1
<1>1. CASE UNCHANGED vars
  BY <1>1, <1>d DEF vars
<1>2. CASE ConnectPosted
  <2> DEFINE q == Line
             r == Line'
             k == Len(c.wq)
             sent == Sent(c)
             sent2 == Sent(c')
             live == Live(c)
             live2 == Live(c')
             up == c.connected
  <2>1. /\ strand # <<>> /\ Head(strand).do = "connect" /\ strand' = Tail(strand)
        /\ UNCHANGED <<share, nextSeq, pool>> /\ c' = Connect(c)
    BY <1>2 DEF ConnectPosted, Runs
  <2>2. Calm(c, strand)
    BY <1>a, <2>1, StrandShrinks DEF LinkInv
  <2>3. /\ c'.wq = c.wq /\ c'.writes = c.writes /\ c'.read = c.read /\ c'.connected = c.connected
    <3>1. c.connected = FALSE
      BY <1>a, <2>2 DEF Calm, Connections
    <3> QED  BY <1>a, <2>1, <3>1 DEF Connect, Connections
  <2>4. ~live2 /\ ~sent /\ ~sent2
    BY <1>a, <2>2, <2>3 DEF Live, Sent, Calm, Link
  <2>5. Cut(r, q, k, 1) /\ Len(q) \in Nat
    BY <1>a, <2>1, <2>3, LineTyped, JoinRuns DEF Line
  <2>6. Tracked(q, share, sent, up, live, pool.good, pool.bad)
    BY DEF ShareInv
  <2> HIDE DEF q, r, k, sent, sent2, live, live2, up
  <2>7. Tracked(r, share, sent2, up, live2, pool.good, pool.bad)
    BY <2>4, <2>5, <2>6, TrackedCut
  <2>8. Tracked(Line', share', Sent(c'), c'.connected, Live(c'), pool'.good, pool'.bad)
    BY <2>1, <2>3, <2>7 DEF r, sent2, live2, up
  <2> QED  BY <2>1, <2>8 DEF ShareInv
<1>3. CASE StopPosted
  BY <1>a, <1>3, ShareTorn DEF StopPosted, Runs
<1>4. CASE SubmitPosted
  BY <1>4, ShareRuns
<1>5. CASE PushFrame
  <2> DEFINE d == [c EXCEPT !.wq = Append(c.wq, Head(strand))]
  <2>1. /\ strand # <<>> /\ strand' = Tail(strand) /\ UNCHANGED <<share, nextSeq, pool>>
        /\ c' = IF c.writing THEN d ELSE Writing(d)
    BY <1>5, <1>a DEF PushFrame, Runs, Connections
  <2>2. Append(c.wq, Head(strand)) \in Seq(Handlers)
    <3>1. c.wq \in Seq(Handlers) /\ Head(strand) \in Handlers
      BY <1>a, <2>1, TailTyped DEF Connections, DownInv
    <3> QED  BY <3>1
  <2>3. d \in Connections /\ d.wq = Append(c.wq, Head(strand)) /\ d.connected = c.connected /\ d.read = c.read
        /\ d.writes = c.writes /\ d.sock = c.sock
    BY <1>a, <2>2 DEF Connections
  <2> HIDE DEF d
  <2>4. /\ c'.wq = Append(c.wq, Head(strand)) /\ c'.connected = c.connected /\ c'.read = c.read
    BY <2>1, <2>3, WritingFields
  <2>5. Cut(Line', Line, 0, 0)
    BY <1>a, <2>1, <2>4, JoinMoves DEF Line
  <2>6. /\ Sent(c) => Sent(c')
        /\ Sent(c') /\ Live(c') => Sent(c)
    <3>0. c'.wq # <<>>
      BY <1>a, <2>1, <2>4, FirstAndRest
    <3>1. CASE c.writing
      <4>1. c.wq # <<>> /\ c'.writes = c.writes
        BY <1>a, <2>1, <2>3, <3>1 DEF Link
      <4> QED  BY <4>1, <3>0 DEF Sent
    <3>2. CASE ~c.writing
      <4>1. c.wq = <<>>
        BY <1>a, <3>2 DEF Link
      <4>2. ASSUME Live(c')  PROVE ~Sent(c')
        <5>1. c.sock
          BY <1>a, <2>4, <4>2 DEF Live, Link
        <5>2. Len(c.writes) = 0
          <6>1. c.writes = <<>>
            BY <1>a, <3>2, <5>1 DEF Link
          <6> QED  BY <6>1
        <5>3. c'.writes[Len(c.writes) + 1] = "pending"
          <6>1. c' = Writing(d)
            BY <2>1, <3>2
          <6>2. Writing(d).writes[Len(d.writes) + 1] = IF d.sock THEN "pending" ELSE "failed"
            BY <2>3, WritingFields
          <6> QED  BY <2>3, <5>1, <6>1, <6>2
        <5>4. c'.writes[1] = "pending"
          BY <5>2, <5>3
        <5> QED  BY <5>4 DEF Sent
      <4> QED  BY <4>1, <4>2 DEF Sent
    <3> QED  BY <3>1, <3>2
  <2>7. Live(c') => Live(c)
    BY <2>4 DEF Live
  <2> QED  BY <2>1, <2>4, <2>5, <2>6, <2>7, ShareStill
<1>6. CASE TimerFires
  <2>1. /\ UNCHANGED <<strand, share, nextSeq, pool>> /\ c.timer
        /\ \/ c' = [c EXCEPT !.timer = FALSE]
           \/ c' = [c EXCEPT !.timer = FALSE, !.connected = FALSE, !.open = FALSE, !.op = "resolve"]
    BY <1>6, <1>a DEF TimerFires, Connect, Connections
  <2>2. c.connected = FALSE
    BY <1>a, <2>1 DEF Link, Connections
  <2>3. c'.wq = c.wq /\ c'.writes = c.writes /\ c'.connected = c.connected /\ c'.read = c.read
    BY <1>a, <2>1, <2>2, ZenonT(60) DEF Connections
  <2> QED  BY <1>e, <2>1, <2>3 DEF Live
<1>7. CASE Resolved \/ Dialed \/ ChannelOpened
  <2>1. /\ UNCHANGED <<strand, share, nextSeq>>
        /\ c' \in {[c EXCEPT !.op = "connect"], [c EXCEPT !.op = "done", !.sock = TRUE], [c EXCEPT !.open = TRUE]}
        /\ pool' = pool \/ pool' = [pool EXCEPT !.stage = "open"]
    BY <1>7 DEF Resolved, Dialed, ChannelOpened
  <2>2. c'.wq = c.wq /\ c'.writes = c.writes /\ c'.connected = c.connected /\ c'.read = c.read
    BY <1>a, <2>1 DEF Connections
  <2>3. pool'.good = pool.good /\ pool'.bad = pool.bad
    BY <1>b, <2>1
  <2>4. Sent(c') = Sent(c) /\ Live(c') = Live(c)
    BY <2>2 DEF Sent, Live
  <2> QED  BY <1>c, <2>1, <2>2, <2>3, <2>4
<1>8. CASE ResolveFails \/ ConnectFails
  <2>1. [c EXCEPT !.op = "none"] \in Connections
    BY <1>a DEF Connections
  <2> QED  BY <1>8, <2>1, ShareTorn DEF ResolveFails, ConnectFails
<1>9. CASE Connected
  BY <1>9, ShareConnects
<1>10. CASE WriteEnds
  <2> DEFINE e == [c EXCEPT !.writes = Tail(c.writes), !.wq = <<>>, !.writing = FALSE]
             f == [c EXCEPT !.writes = Tail(c.writes), !.wq = Tail(c.wq)]
  <2>1. /\ c.writes # <<>> /\ UNCHANGED <<strand, share, nextSeq, pool>> /\ Head(c.writes) = "done"
    BY <1>10 DEF WriteEnds
  <2>2. /\ Len(Tail(c.writes)) = Len(c.writes) - 1 /\ Len(c.writes) \in Nat /\ Len(c.writes) >= 1
        /\ Tail(c.writes) \in Seq(Ends) /\ c.writes[1] = "done"
    <3>1. Len(c.writes) \in Nat /\ Len(c.writes) >= 1
      BY <1>a, <2>1, EmptySeq
    <3> QED  BY <1>a, <2>1, <3>1, HeadTailProperties
  <2>3. \/ c.wq = <<>> /\ c' = c
        \/ c.wq # <<>> /\ Len(c.wq) = 1 /\ c' = e
        \/ c.wq # <<>> /\ Len(c.wq) # 1 /\ c' = Writing(f)
    BY <1>10, <1>a DEF WriteEnds, Connections
  <2>4. CASE c.wq = <<>> /\ c' = c
    BY <1>d, <2>1, <2>4
  <2>5. CASE c.wq # <<>> /\ Len(c.wq) = 1 /\ c' = e
    <3>1. e.wq = <<>> /\ e.connected = c.connected /\ e.read = c.read
      BY <1>a DEF Connections
    <3>2. Tail(c.wq) = <<>>
      <4> DEFINE rest == Tail(c.wq)
                 m == Len(rest)
                 k == Len(c.wq)
      <4>1. m = k - 1 /\ rest \in Seq(Posted) /\ k = 1
        BY <1>a, <2>5, HeadTailProperties
      <4> HIDE DEF rest, m, k
      <4>2. m = 0
        BY <4>1
      <4>3. rest = <<>>
        BY <4>1, <4>2, EmptySeq DEF m
      <4> QED  BY <4>3 DEF rest
    <3> HIDE DEF e
    <3>3. Sent(c) /\ ~Sent(c') /\ Live(c') = Live(c)
      BY <2>2, <2>5, <3>1 DEF Sent, Live
    <3> QED  BY <2>1, <2>5, <3>1, <3>2, <3>3, SharePops
  <2>6. CASE c.wq # <<>> /\ c' = Writing(f)
    <3>1. f.wq = Tail(c.wq) /\ f.connected = c.connected /\ f.read = c.read /\ f.writes = Tail(c.writes)
            /\ f.sock = c.sock
      BY <1>a DEF Connections
    <3>2. f \in Connections
      <4>1. c.wq \in Seq(Handlers)
        BY <1>a DEF Connections
      <4>2. Tail(c.wq) \in Seq(Handlers)
        BY <4>1, <2>6, HeadTailProperties
      <4> QED  BY <1>a, <2>2, <4>2 DEF Connections
    <3> HIDE DEF f
    <3>3. /\ c'.wq = f.wq /\ c'.connected = f.connected /\ c'.read = f.read
          /\ c'.writes[Len(f.writes) + 1] = IF f.sock THEN "pending" ELSE "failed"
      BY <2>6, <3>2, WritingFields
    <3>4. Sent(c) /\ Live(c') = Live(c)
      BY <2>2, <2>6, <3>1, <3>3 DEF Sent, Live
    <3>5. ASSUME Live(c')  PROVE ~Sent(c')
      <4>1. c.sock /\ Len(c.writes) <= 1
        BY <1>a, <3>4, <3>5 DEF Link, Live
      <4>2. Len(f.writes) = 0
        <5> DEFINE m == Len(Tail(c.writes))
                   k == Len(c.writes)
        <5>1. m = k - 1 /\ k \in Nat /\ k >= 1 /\ k <= 1
          BY <2>2, <4>1
        <5> HIDE DEF m, k
        <5>2. m = 0
          BY <5>1
        <5> QED  BY <3>1, <5>2 DEF m
      <4>3. c'.writes[1] = "pending"
        BY <3>1, <3>3, <4>1, <4>2
      <4> QED  BY <4>3 DEF Sent
    <3> QED  BY <2>1, <2>6, <3>1, <3>3, <3>4, <3>5, SharePops
  <2> QED  BY <2>3, <2>4, <2>5, <2>6
<1>11. CASE WriteFails
  <2>1. [c EXCEPT !.writes = Tail(c.writes), !.writing = FALSE] \in Connections
    <3>1. c.writes # <<>>
      BY <1>11 DEF WriteFails
    <3>2. Tail(c.writes) \in Seq(Ends)
      BY <1>a, <3>1
    <3> QED  BY <1>a, <3>2 DEF Connections
  <2>2. Teardown([c EXCEPT !.writes = Tail(c.writes), !.writing = FALSE]) /\ UNCHANGED <<strand, nextSeq>>
    BY <1>11, <1>a DEF WriteFails
  <2> QED  BY <2>1, <2>2, ShareTorn
<1>12. CASE ReadFails \/ Refused
  <2>1. [c EXCEPT !.read = "none"] \in Connections
    BY <1>a DEF Connections
  <2> QED  BY <1>12, <2>1, ShareTorn DEF ReadFails, Refused
<1>13. CASE Written
  BY <1>13, ShareWritten
<1>14. CASE Breaks
  <2>0. UNCHANGED <<strand, share, nextSeq, pool>>
    BY <1>14 DEF Breaks
  <2>1. CASE c' \in {[c EXCEPT !.op = "failed"], [c EXCEPT !.read = "failed"]}
    <3>1. c'.wq = c.wq /\ c'.writes = c.writes /\ c'.connected = c.connected /\ (c'.read = c.read \/ c'.read = "failed")
      BY <1>a, <2>1 DEF Connections
    <3> QED  BY <1>e, <2>0, <3>1 DEF Live
  <2>2. CASE c.writes # <<>> /\ \E end \in {"done", "failed"} : c' = EndFirst([c EXCEPT !.read = "failed"], end)
    <3> DEFINE d == [c EXCEPT !.read = "failed"]
    <3>1. d \in Connections /\ d.wq = c.wq /\ d.writes = c.writes /\ d.connected = c.connected /\ d.read = "failed"
      BY <1>a DEF Connections
    <3>2. PICK end \in {"done", "failed"} : c' = EndFirst(d, end)
      BY <2>2
    <3> HIDE DEF d
    <3>3. 1 \in 1..Len(c.writes)
      <4>1. Len(c.writes) \in Nat \ {0}
        BY <1>a, <2>2, EmptySeq
      <4> QED  BY <4>1
    <3>4. end \in Ends /\ end # "pending"
      BY <3>2 DEF Ends
    <3>5. c'.wq = c.wq /\ c'.connected = c.connected /\ c'.read = "failed" /\ c'.writes[1] = end
      BY <3>1, <3>2, <3>3, <3>4, EndFirstFields
    <3>6. ~Live(c') /\ (Sent(c) => Sent(c'))
      BY <3>4, <3>5 DEF Live, Sent
    <3> QED  BY <1>c, <2>0, <3>5, <3>6
  <2> QED  BY <1>14, <2>1, <2>2 DEF Breaks
<1>15. CASE SetupAnswered
  <2>1. /\ UNCHANGED <<c, nextSeq, share>> /\ strand' = Append(strand, Push("open", None))
        /\ pool' = [pool EXCEPT !.stage = "ready"]
    BY <1>15 DEF SetupAnswered
  <2>2. pool'.good = pool.good /\ pool'.bad = pool.bad
    BY <1>b, <2>1
  <2>3. Push("open", None) \in Posted /\ \A x \in Shares : /\ ~Carries(Push("open", None), x)
                                                           /\ ~Submits(Push("open", None), x)
    BY PostedTyped, NoShare DEF Posted
  <2>4. Ledger(share', nextSeq)
    BY <2>1 DEF ShareInv
  <2> QED  BY <2>1, <2>2, <2>3, <2>4, SharePosts
<1>16. CASE Stop
  <2>1. /\ UNCHANGED <<c, nextSeq, share, pool>> /\ strand' = Append(strand, Handler("stop", None))
    BY <1>16 DEF Stop
  <2>2. Handler("stop", None) \in Posted /\ \A x \in Shares : /\ ~Carries(Handler("stop", None), x)
                                                              /\ ~Submits(Handler("stop", None), x)
    BY PostedTyped, NoShare DEF Posted
  <2>3. Ledger(share', nextSeq)
    BY <2>1 DEF ShareInv
  <2> QED  BY <2>1, <2>2, <2>3, SharePosts
<1>17. CASE SharesAccepted \/ ShareRefused
  BY <1>17, ShareToldVerdict
<1>18. CASE Broadcast \/ NotifyWaiters \/ NewPrevHash \/ SetTarget \/ \E n \in Jobs : FutureJob(n) \/ ActiveJob(n)
  <2>1. UNCHANGED <<c, strand, share, nextSeq>>
    BY <1>18 DEF Broadcast, NotifyWaiters, NewPrevHash, SetTarget, FutureJob, ActiveJob
  <2>2. pool'.good = pool.good /\ pool'.bad = pool.bad
    <3>1. CASE Broadcast \/ NotifyWaiters \/ SetTarget
      BY <3>1 DEF Broadcast, NotifyWaiters, SetTarget
    <3>2. CASE NewPrevHash
      BY <1>b, <3>2 DEF NewPrevHash
    <3>3. CASE \E n \in Jobs : FutureJob(n) \/ ActiveJob(n)
      BY <1>b, <3>3 DEF FutureJob, ActiveJob
    <3> QED  BY <1>18, <3>1, <3>2, <3>3
  <2> QED  BY <1>d, <2>1, <2>2
<1>19. ASSUME NEW s \in Sessions,
              Subscribe(s) \/ Attach(s) \/ RegisterWaiter(s) \/ ReadDiff(s) \/ ReadJob(s) \/ RunMail(s) \/ HangUp(s)
       PROVE  ShareInv'
  BY <1>19, <1>d DEF Subscribe, Attach, RegisterWaiter, ReadDiff, ReadJob, RunMail, HangUp, Theirs
<1>20. ASSUME NEW s \in Sessions, Submit(s)  PROVE ShareInv'
  <2>1. UNCHANGED <<c, nextSeq, pool>>
    BY <1>20 DEF Submit, Theirs
  <2>2. PICK x \in Shares :
          /\ share[x].at = "none"
          /\ \/ /\ share' = [share EXCEPT ![x].at = "posted"]
                /\ strand' = Append(strand, Handler("submit", x))
             \/ share' = [share EXCEPT ![x] = Answered(x, "unsent")] /\ UNCHANGED strand
    BY <1>20 DEF Submit
  <2>3. Ledger(share, nextSeq) /\ share \in [Shares -> Entries] /\ share[x] \in Entries /\ Sound(share[x])
    BY <2>2 DEF ShareInv, Ledger
  <2>4. CASE share' = [share EXCEPT ![x].at = "posted"] /\ strand' = Append(strand, Handler("submit", x))
    <3> DEFINE r == [share[x] EXCEPT !.at = "posted"]
    <3>1. share'[x] = r /\ \A y \in Shares : y # x => share'[y] = share[y]
      BY <2>3, <2>4
    <3>2. /\ r.at = "posted" /\ r.seq = share[x].seq /\ r.judged = share[x].judged /\ r.got = share[x].got
          /\ r.said = share[x].said /\ r.lost = share[x].lost /\ r \in Entries
      BY <2>3 DEF Entries
    <3> HIDE DEF r
    <3>3. Sound(r) /\ ~Waiting(r)
      BY <2>2, <2>3, <3>2 DEF Sound, Waiting
    <3>4. share' \in [Shares -> Entries] /\ \A y \in Shares : Sound(share'[y]) /\ share'[y].seq = share[y].seq
      <4>1. \A y \in Shares : share[y] \in Entries /\ Sound(share[y])
        BY <2>3 DEF Ledger
      <4> QED  BY <2>3, <2>4, <3>1, <3>2, <3>3, <4>1
    <3>5. Ledger(share', nextSeq)
      BY <2>3, <3>4, LedgerKept
    <3> DEFINE f == Handler("submit", x)
    <3>6. f \in Posted /\ \A y \in Shares : ~Carries(f, y) /\ (Submits(f, y) <=> y = x)
      BY <2>2, PostedTyped, NoShare DEF Posted
    <3> HIDE DEF f
    <3>7. \A y \in Shares : /\ share'[y].seq = share[y].seq /\ share'[y].judged = share[y].judged
                            /\ Waiting(share'[y]) => Waiting(share[y])
                            /\ share[y].at = "posted" => share'[y].at = "posted"
                            /\ Submits(f, y) => share[y].at # "posted" /\ share'[y].at = "posted"
      BY <2>2, <3>1, <3>2, <3>3, <3>6
    <3> QED  BY <2>1, <2>4, <3>5, <3>6, <3>7, SharePosts DEF f
  <2>5. CASE share' = [share EXCEPT ![x] = Answered(x, "unsent")] /\ UNCHANGED strand
    <3> DEFINE tab == Telling(share, {x}, "unsent")
               q == Line
    <3>1. share' = tab
      BY <2>2, <2>3, <2>5 DEF Telling, Answered, Answer, Entries
    <3>2. /\ Ledger(tab, nextSeq)
          /\ \A y \in Shares : /\ tab[y].seq = share[y].seq /\ tab[y].judged = share[y].judged
                               /\ y \in {x} => tab[y].at = "over" /\ ~Waiting(tab[y])
                               /\ y \notin {x} => tab[y] = share[y]
      <4>1. \A y \in {x} : y \in Shares /\ share[y].at # "over"
        BY <2>2
      <4>2. "unsent" \in {"unsent", "accepted", "refused"} /\ "unsent" # "accepted" /\ "unsent" # "refused"
        OBVIOUS
      <4> QED  BY <2>3, <4>1, <4>2, LedgerTold
    <3> HIDE DEF tab
    <3>3. Tracked(q, share, Sent(c), c.connected, Live(c), pool.good, pool.bad) /\ Len(q) \in Nat
      BY LineTyped DEF ShareInv
    <3> HIDE DEF q
    <3>4. \A i \in 1..Len(q), y \in Shares : Submits(q[i], y) => tab[y].at = "posted"
      <4>1. \A i \in 1..Len(q), y \in Shares : Submits(q[i], y) => share[y].at = "posted"
        BY <3>3 DEF Tracked, Lined
      <4> QED  BY <2>2, <3>2, <4>1
    <3>5. \A y \in Shares : /\ tab[y].seq = share[y].seq /\ tab[y].judged = share[y].judged
                            /\ Waiting(tab[y]) => Waiting(share[y])
      BY <3>2
    <3>6. Tracked(q, tab, Sent(c), c.connected, Live(c), pool.good, pool.bad)
      BY <3>3, <3>4, <3>5, TrackedKept
    <3>7. Tracked(Line', share', Sent(c'), c'.connected, Live(c'), pool'.good, pool'.bad)
      BY <2>1, <2>5, <3>1, <3>6 DEF Line, q
    <3> QED  BY <2>1, <3>1, <3>2, <3>7 DEF ShareInv
  <2> QED  BY <2>2, <2>4, <2>5
<1> QED  BY <1>1, <1>2, <1>3, <1>4, <1>5, <1>6, <1>7, <1>8, <1>9, <1>10, <1>11, <1>12, <1>13, <1>14, <1>15, <1>16,
            <1>17, <1>18, <1>19, <1>20 DEF Next, Strand, Network, Handshake, Frames, Miner

(***************************************************************************)
(* What the pool has announced.                                            *)
(***************************************************************************)

Stages == {"absent", "setup", "ready", "opening", "open"}

\* The newest job has an id.
FeedInv ==
  /\ aborted \in BOOLEAN /\ events \in 0..MaxEvents /\ waiters \subseteq Sessions
  /\ order \in Seq(Jobs) /\ Len(order) <= Window /\ mapped \subseteq Jobs
  /\ ids \in [Jobs -> Jobs \cup {None}] /\ era \in [Jobs -> Nat]
  /\ pool.stage \in Stages /\ pool.tipped \in BOOLEAN
  /\ job # None => ids[job] # None

LEMMA FeedInit == Init => FeedInv
<1> SUFFICES ASSUME Init  PROVE FeedInv
  OBVIOUS
<1>1. <<>> \in Seq(Jobs) /\ Len(<<>>) = 0 /\ 0 \in 0..MaxEvents
  BY UpstreamConstants
<1>2. pool.stage \in Stages /\ pool.tipped \in BOOLEAN
  BY DEF Init, NoPool, Stages
<1>4. order \in Seq(Jobs) /\ Len(order) <= Window
  <2>1. order = <<>> /\ Window \in Nat
    BY UpstreamConstants DEF Init
  <2> QED  BY <1>1, <2>1
<1>5. /\ ids \in [Jobs -> Jobs \cup {None}] /\ era \in [Jobs -> Nat] /\ aborted \in BOOLEAN /\ events \in 0..MaxEvents
      /\ waiters \subseteq Sessions /\ mapped \subseteq Jobs /\ job = None
  BY <1>1 DEF Init
<1> QED  BY <1>2, <1>4, <1>5 DEF FeedInv

\* Nothing is announced.
LEMMA FeedStill ==
  ASSUME FeedInv, PoolInv, UNCHANGED Feed, aborted' \in BOOLEAN, events' \in 0..MaxEvents, waiters' \subseteq Sessions,
         pool'.stage \in Stages, pool'.tipped \in BOOLEAN
  PROVE  FeedInv'
BY DEF FeedInv, Feed

LEMMA CountedEvent == ASSUME FeedInv, Event  PROVE events' \in 0..MaxEvents
BY UpstreamConstants DEF FeedInv, Event

\* A job of one tip is built of what the pool announced last.
LEMMA RebuildTyped ==
  ASSUME FeedInv, NEW n \in Jobs, NEW tip, Rebuild(n, tip), ids'[n] \in Jobs
  PROVE  order' \in Seq(Jobs) /\ Len(order') <= Window /\ mapped' \subseteq Jobs
<1> DEFINE longer == Append(order, ids'[n])
           rest == Tail(longer)
           k == Len(order)
<1>1. longer \in Seq(Jobs) /\ Len(longer) = k + 1 /\ k \in Nat /\ k <= Window /\ longer # <<>>
  BY AppendProperties DEF FeedInv
<1>2. rest \in Seq(Jobs) /\ Len(rest) = Len(longer) - 1
  BY <1>1, HeadTailProperties
<1>3. /\ order' = IF Len(longer) > Window THEN rest ELSE longer
      /\ mapped' \subseteq mapped \cup {ids'[n]}
  BY DEF Rebuild
<1>4. Len(longer) \in Nat /\ Window \in Nat
  BY <1>1, UpstreamConstants
<1> HIDE DEF longer, rest, k
<1>5. CASE Len(longer) > Window
  <2> DEFINE m == Len(rest)
             l == Len(longer)
  <2>1. m = l - 1 /\ l = k + 1 /\ order' = rest
    BY <1>1, <1>2, <1>3, <1>5
  <2> HIDE DEF m, l
  <2>2. m <= Window
    BY <1>1, <2>1
  <2> QED  BY <1>2, <1>3, <2>1, <2>2 DEF FeedInv, m
<1>6. CASE ~(Len(longer) > Window)
  <2> DEFINE l == Len(longer)
  <2>1. l <= Window
    BY <1>4, <1>6
  <2> QED  BY <1>1, <1>3, <1>6, <2>1 DEF FeedInv
<1> QED  BY <1>5, <1>6

\* Job n is announced.
LEMMA NumberedTyped ==
  ASSUME FeedInv, gen \in Nat, NEW n \in Jobs, Numbered(n)
  PROVE  ids' \in [Jobs -> Jobs \cup {None}] /\ ids'[n] \in Jobs /\ era' \in [Jobs -> Nat]
<1>1. PICK id \in ({n} \cup Range(ids)) \ ({None} \cup {ids[k] : k \in {j \in Jobs : era[j] = gen}}) :
        ids' = [ids EXCEPT ![n] = id] /\ era' = [era EXCEPT ![n] = gen]
  BY DEF Numbered
<1>2. id \in Jobs
  BY <1>1 DEF FeedInv, Range
<1> QED  BY <1>1, <1>2 DEF FeedInv

LEMMA FeedNext == StepInv /\ FeedInv /\ [Next]_vars => FeedInv'
<1> SUFFICES ASSUME StepInv, FeedInv, [Next]_vars  PROVE FeedInv'
  OBVIOUS
<1>a. PoolInv /\ aborted \in BOOLEAN /\ events \in 0..MaxEvents /\ waiters \subseteq Sessions
      /\ pool.stage \in Stages /\ pool.tipped \in BOOLEAN
      /\ pool = [stage |-> pool.stage, active |-> pool.active, tipped |-> pool.tipped, count |-> pool.count,
                 good |-> pool.good, bad |-> pool.bad]
  BY DEF StepInv, PoolInv, FeedInv
\* Nothing is announced, and the pool is what it was, or gone.
<1>b. ASSUME UNCHANGED <<Feed, waiters>>, aborted' \in BOOLEAN, events' = events \/ Event,
        pool' = pool \/ pool' = NoPool
      PROVE  FeedInv'
  <2>1. events' \in 0..MaxEvents
    BY <1>a, <1>b, CountedEvent
  <2>2. pool'.stage \in Stages /\ pool'.tipped \in BOOLEAN
    <3>1. CASE pool' = pool
      BY <1>a, <3>1
    <3>2. CASE pool' = NoPool
      BY <3>2 DEF NoPool, Stages
    <3> QED  BY <1>b, <3>1, <3>2
  <2> QED  BY <1>a, <1>b, <2>1, <2>2, FeedStill
<1>1. CASE UNCHANGED vars
  BY <1>1, <1>a, <1>b, SMTT(40) DEF vars, Feed
<1>2. CASE ConnectPosted \/ SubmitPosted \/ PushFrame \/ TimerFires \/ Resolved \/ Connected \/ Stop
  BY <1>2, <1>a, <1>b DEF ConnectPosted, SubmitPosted, PushFrame, TimerFires, Resolved, Connected, Stop, Miners
<1>3. CASE StopPosted \/ ResolveFails \/ ConnectFails \/ WriteFails \/ ReadFails \/ Refused
  <2>1. UNCHANGED <<Feed, waiters, aborted>> /\ pool' = NoPool /\ (events' = events \/ Event)
    BY <1>3, ZenonT(60) DEF StopPosted, ResolveFails, ConnectFails, WriteFails, ReadFails, Refused, Teardown, Miners
  <2> QED  BY <1>a, <1>b, <2>1
<1>4. CASE WriteEnds
  <2>1. aborted' \in BOOLEAN
    <3>1. aborted' = TRUE \/ aborted' = aborted
      BY <1>4, Zenon DEF WriteEnds
    <3> QED  BY <1>a, <3>1
  <2>2. UNCHANGED <<Feed, waiters, pool, events>>
    BY <1>4 DEF WriteEnds, Miners
  <2> QED  BY <1>b, <2>1, <2>2
<1>5. CASE Written
  <2>1. UNCHANGED <<Feed, waiters, aborted, events>>
    BY <1>5 DEF Written, Miners
  <2>2. pool'.stage \in Stages /\ pool'.tipped \in BOOLEAN
    <3>1. \E v : \/ v \in Stages /\ pool' = [pool EXCEPT !.stage = v]
                 \/ pool' = [pool EXCEPT !.good = v]
                 \/ pool' = [pool EXCEPT !.bad = v]
      BY <1>5 DEF Written, Received, Stages
    <3> QED  BY <1>a, <3>1, SMTT(40)
  <2> QED  BY <1>a, <2>1, <2>2, FeedStill
<1>6. CASE Dialed \/ Breaks
  BY <1>6, <1>a, <1>b DEF Dialed, Breaks, Miners
<1>7. CASE SetupAnswered \/ ChannelOpened \/ SharesAccepted \/ ShareRefused
  <2>1. UNCHANGED <<Feed, waiters, aborted, events>>
    BY <1>7 DEF SetupAnswered, ChannelOpened, SharesAccepted, ShareRefused, Miners
  <2>2. pool'.stage \in Stages /\ pool'.tipped \in BOOLEAN
    <3>1. \E v : \/ v \in Stages /\ pool' = [pool EXCEPT !.stage = v]
                 \/ pool' = [pool EXCEPT !.good = v]
                 \/ pool' = [pool EXCEPT !.bad = v]
      BY <1>7, <1>a DEF SetupAnswered, ChannelOpened, SharesAccepted, ShareRefused, Stages
    <3> QED  BY <1>a, <3>1
  <2> QED  BY <1>a, <2>1, <2>2, FeedStill
<1>8. CASE SetTarget
  BY <1>8, <1>a, <1>b DEF SetTarget, Miners
<1>9. CASE Broadcast \/ NotifyWaiters
  <2>1. UNCHANGED <<Feed, aborted, events, pool>> /\ waiters' \subseteq Sessions
    BY <1>9, <1>a DEF Broadcast, NotifyWaiters
  <2> QED  BY <1>a, <2>1, FeedStill
<1>10. CASE NewPrevHash
  <2>1. /\ job # None /\ UNCHANGED <<job, ids, era, aborted, events, waiters>> /\ Rebuild(job, job)
        /\ pool' = [pool EXCEPT !.active = [job |-> job, tip |-> job], !.tipped = TRUE]
    BY <1>10, <1>a DEF NewPrevHash, Miners, PoolInv
  <2>2. job \in Jobs /\ ids'[job] \in Jobs
    BY <2>1 DEF StepInv, MinersInv, FeedInv
  <2>3. order' \in Seq(Jobs) /\ Len(order') <= Window /\ mapped' \subseteq Jobs
    BY <2>1, <2>2, RebuildTyped
  <2>4. pool'.stage = pool.stage /\ pool'.tipped = TRUE
    BY <1>a, <2>1
  <2> QED  BY <2>1, <2>3, <2>4 DEF FeedInv
<1>11. ASSUME NEW n \in Jobs, FutureJob(n) \/ ActiveJob(n)  PROVE FeedInv'
  <2>1. Announces(n) /\ Numbered(n) /\ job' = n /\ UNCHANGED <<aborted, events, waiters>>
    BY <1>11 DEF FutureJob, ActiveJob, Miners
  <2>2. ids' \in [Jobs -> Jobs \cup {None}] /\ ids'[n] \in Jobs /\ era' \in [Jobs -> Nat]
    <3>1. gen \in Nat
      BY DEF StepInv, MinersInv
    <3> QED  BY <2>1, <3>1, NumberedTyped
  <2>3. order' \in Seq(Jobs) /\ Len(order') <= Window /\ mapped' \subseteq Jobs
    <3>1. CASE UNCHANGED <<order, mapped>>
      BY <3>1 DEF FeedInv
    <3>2. CASE Rebuild(n, prev)
      BY <2>2, <3>2, RebuildTyped
    <3> QED  BY <1>11, <3>1, <3>2 DEF FutureJob, ActiveJob
  <2>4. pool'.stage = pool.stage /\ pool'.tipped \in BOOLEAN
    <3>1. CASE FutureJob(n)
      BY <1>a, <3>1 DEF FutureJob
    <3>2. CASE ActiveJob(n)
      BY <1>a, <3>2 DEF ActiveJob
    <3> QED  BY <1>11, <3>1, <3>2
  <2>5. n # None /\ None \notin Jobs
    BY DEF None, Jobs
  <2> QED  BY <1>a, <2>1, <2>2, <2>3, <2>4, <2>5 DEF FeedInv
<1>12. ASSUME NEW s \in Sessions, Miner(s)  PROVE FeedInv'
  <2>1. UNCHANGED <<Feed, aborted, events, pool>>
    BY <1>12 DEF Miner, Subscribe, Attach, RegisterWaiter, ReadDiff, ReadJob, RunMail, Submit, HangUp, Theirs
  <2>2. waiters' \subseteq Sessions
    BY <1>12, <1>a DEF Miner, Subscribe, Attach, RegisterWaiter, ReadDiff, ReadJob, RunMail, Submit, HangUp, Miners
  <2> QED  BY <1>a, <2>1, <2>2, FeedStill
<1> QED  BY <1>1, <1>2, <1>3, <1>4, <1>5, <1>6, <1>7, <1>8, <1>9, <1>10, <1>11, <1>12
         DEF Next, Strand, Network, Handshake, Frames

(***************************************************************************)
(* What a share's callback is told.                                        *)
(***************************************************************************)

\* The types of what is on its way, and of the sessions.
LEMMA LineTypes ==
  ASSUME DownInv, LinkInv
  PROVE  /\ c \in [connected : BOOLEAN, open : BOOLEAN, sock : BOOLEAN, timer : BOOLEAN, writing : BOOLEAN,
                   op : {"none", "resolve", "connect", "done", "failed"}, read : {"none", "pending", "failed"},
                   wq : Seq([do : {"push"}, frame : {"setup", "open", "share"}, share : Shares \cup {None}]),
                   writes : Seq({"pending", "done", "failed"})]
         /\ strand \in Seq([do : {"connect", "stop", "submit", "push"}, frame : {"none", "setup", "open", "share"},
                            share : Shares \cup {None}])
<1> DEFINE Frame == [do : {"push"}, frame : {"setup", "open", "share"}, share : Shares \cup {None}]
<1>1. \A f \in Pushes : f \in Frame
  BY DEF Pushes
<1>2. c \in Connections /\ c.wq \in Seq(Pushes) /\ strand \in Seq(Handlers)
  BY DEF DownInv, LinkInv
<1> HIDE DEF Frame
<1>3. c.wq \in Seq(Frame)
  <2> DEFINE q == c.wq
  <2>1. q \in Seq(Pushes)
    BY <1>2
  <2> HIDE DEF q
  <2>2. Len(q) \in Nat /\ q \in [1..Len(q) -> Pushes]
    BY <2>1, LenProperties
  <2>3. q \in [1..Len(q) -> Frame]
    BY <1>1, <2>2
  <2>4. q \in Seq(Frame)
    BY <2>2, <2>3, SeqDef
  <2> QED  BY <2>4 DEF q
<1>4. c \in [connected : BOOLEAN, open : BOOLEAN, sock : BOOLEAN, timer : BOOLEAN, writing : BOOLEAN,
             op : {"none", "resolve", "connect", "done", "failed"}, read : {"none", "pending", "failed"},
             wq : Seq(Frame), writes : Seq({"pending", "done", "failed"})]
  BY <1>2, <1>3 DEF Connections, Ends
<1> QED  BY <1>2, <1>4 DEF Frame, Handlers

LEMMA MinerTypes ==
  ASSUME StepInv
  PROVE  /\ casting \in {Idle, "job", "diff", "up"}
         /\ job \in Jobs \cup {None} /\ prev \in Jobs \cup {None} /\ notify \in Work
         /\ gen \in Nat /\ diff \in Diffs \cup {1} /\ next \in Nat /\ subs \in [Sessions -> Nat]
         /\ S \in [Sessions -> [open : BOOLEAN, pc : {"idle", "attach", "register", "diff", "job"}, sub : BOOLEAN,
                                pend : BOOLEAN, job : Jobs \cup {None}, recent : Seq(Jobs), diff : Diffs \cup {1},
                                slot : Nat, gen : Nat]]
         /\ DOMAIN mail = Sessions
BY DEF StepInv, MinersInv, Members, Difficulties

\* No number is past the shares.
LEMMA NumberTyped == ASSUME NEW sh, NEW n, Ledger(sh, n)  PROVE n \in 1..(MaxShares + 1)
<1>1. n \in Nat \ {0} /\ Cardinality(Numbers(sh)) = n - 1 /\ MaxShares \in Nat
  BY UpstreamConstants DEF Ledger
<1>2. IsFiniteSet(1..MaxShares) /\ Cardinality(1..MaxShares) = IF 1 > MaxShares THEN 0 ELSE MaxShares - 1 + 1
  BY <1>1, FS_Interval, SMTT(40)
<1>3. Cardinality(Shares) = MaxShares /\ IsFiniteSet(Shares)
  BY <1>1, <1>2 DEF Shares
<1>4. Cardinality(Numbers(sh)) <= Cardinality(Shares)
  BY <1>3, FS_Subset DEF Numbers
<1> QED  BY <1>1, <1>3, <1>4

LEMMA ShareTypes ==
  ASSUME ShareInv
  PROVE  /\ nextSeq \in 1..(MaxShares + 1)
         /\ share \in [Shares -> [at : {"none", "posted", "pending", "over"}, seq : 0..MaxShares, lost : BOOLEAN,
                                  judged : {"no", "good", "bad"}, got : Nat,
                                  said : {"nothing", "unsent", "accepted", "refused"}]]
<1>1. Ledger(share, nextSeq)
  BY DEF ShareInv
<1> QED  BY <1>1, NumberTyped DEF Ledger, Entries

LEMMA PoolTypes ==
  ASSUME StepInv, ShareInv, FeedInv
  PROVE  pool \in [stage : {"absent", "setup", "ready", "opening", "open"}, active : Work, tipped : BOOLEAN,
                   count : Nat, good : 0..MaxShares, bad : Seq(1..MaxShares)]
<1>1. /\ pool = [stage |-> pool.stage, active |-> pool.active, tipped |-> pool.tipped, count |-> pool.count,
                 good |-> pool.good, bad |-> pool.bad]
      /\ pool.active \in Work /\ pool.count \in Nat
  BY DEF StepInv, PoolInv
<1>2. pool.stage \in Stages /\ pool.tipped \in BOOLEAN /\ pool.good \in 0..MaxShares /\ pool.bad \in Seq(1..MaxShares)
  BY DEF ShareInv, FeedInv
<1> QED  BY <1>1, <1>2 DEF Stages

LEMMA Honest == DownInv /\ StepInv /\ LinkInv /\ ShareInv /\ FeedInv => VerdictsHonest
<1> SUFFICES ASSUME DownInv, StepInv, LinkInv, ShareInv, FeedInv  PROVE VerdictsHonest
  OBVIOUS
<1>1. TypeOK
  <2>1. /\ stopped \in {"no", "posted", "done", "late"} /\ aborted \in BOOLEAN /\ waiters \subseteq Sessions
        /\ mapped \subseteq Jobs /\ order \in Seq(Jobs) /\ Len(order) <= Window
        /\ ids \in [Jobs -> Jobs \cup {None}] /\ era \in [Jobs -> Nat] /\ events \in 0..MaxEvents
    BY DEF DownInv, FeedInv
  <2> QED  BY <2>1, LineTypes, MinerTypes, ShareTypes, PoolTypes DEF TypeOK
<1>2. \A x \in Shares : Sound(share[x])
  BY DEF ShareInv, Ledger
<1> QED  BY <1>1, <1>2 DEF VerdictsHonest, Sound

\* For any number of sessions, jobs, shares and failures: a share is told of once, and what it is
\* told is what the pool said of it, but for those a teardown forgot.  The argument follows the
\* share down the line of the write queue and the strand: its number is its place in it, the pool
\* judges the head, and a success of one number finds every earlier share judged.
THEOREM VerdictsAreHonest == Spec => []VerdictsHonest
<1>1. Init => DownInv /\ StepInv /\ LinkInv /\ ShareInv /\ FeedInv
  BY DownInit, StepInit, LinkInit, ShareInit, FeedInit
<1>2. DownInv /\ StepInv /\ LinkInv /\ ShareInv /\ FeedInv /\ [Next]_vars
        => DownInv' /\ StepInv' /\ LinkInv' /\ ShareInv' /\ FeedInv'
  BY DownNext, StepNext, LinkNext, ShareNext, FeedNext
<1> QED  BY <1>1, <1>2, Honest, PTL DEF Spec
=============================================================================
