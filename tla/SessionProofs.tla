---------------------------- MODULE SessionProofs ----------------------------
(***************************************************************************)
(* A session, its outbound path (WriteQueue) and its life (SessionLife):   *)
(* what holds for any line sizes, watermark and number of lines, and for   *)
(* any sessions, addresses, payout names, limits and reads.                *)
(***************************************************************************)
EXTENDS WriteQueue, SessionLife, SequenceTheorems, FiniteSetTheorems, WellFoundedInduction, NaturalsInduction, TLAPS

(***************************************************************************)
(* The outbound path.                                                      *)
(***************************************************************************)

\* The queue is stopped exactly when the session is closed.
ChainInv ==
  /\ queue \in Seq(Lines) /\ posted \in Seq(Lines)
  /\ stopped = closed /\ closed \in BOOLEAN /\ writing \in BOOLEAN
  /\ io \in {"none", "pending", "done", "failed"}
  /\ sent \in Nat /\ cleanups \in Nat
  /\ ChainUnbroken
  /\ CleanedUpOnce

LEMMA ChainInit == Init => ChainInv
<1> SUFFICES ASSUME Init PROVE ChainInv
  OBVIOUS
<1>1. queue = << >> /\ queue \in Seq(Lines) /\ posted \in Seq(Lines)
  BY EmptySeq DEF Init
<1>2. ChainUnbroken
  BY <1>1 DEF Init, ChainUnbroken
<1>3. CleanedUpOnce
  BY DEF Init, CleanedUpOnce
<1> QED  BY <1>1, <1>2, <1>3 DEF Init, ChainInv

LEMMA EmptyOrNot ==
  ASSUME NEW T, NEW q \in Seq(T)
  PROVE  /\ Len(q) \in Nat
         /\ q # << >> <=> Len(q) > 0
  BY EmptySeq, LenProperties

LEMMA HeadTailType ==
  ASSUME NEW T, NEW q \in Seq(T), q # << >>
  PROVE  /\ Head(q) \in T /\ Head(q) = q[1] /\ Tail(q) \in Seq(T)
         /\ Tail(q) # << >> <=> Len(q) > 1
<1>1. Head(q) \in T /\ Tail(q) \in Seq(T) /\ Len(Tail(q)) = Len(q) - 1
  BY HeadTailProperties
<1>2. Head(q) = q[1]
  OBVIOUS
<1>3. Len(q) \in Nat /\ (Tail(q) # << >> <=> Len(Tail(q)) > 0)
  BY <1>1, EmptyOrNot
<1> QED  BY <1>1, <1>2, <1>3

LEMMA AppendType ==
  ASSUME NEW T, NEW q \in Seq(T), NEW e \in T
  PROVE  Append(q, e) \in Seq(T) /\ Append(q, e) # << >>
  BY AppendProperties

LEMMA NewLineType ==
  ASSUME sent \in Nat, sent < MaxLines, NEW n \in Sizes
  PROVE  NewLine(n) \in Lines
  BY QueueConstants DEF NewLine, Lines

LEMMA ChainStep == ChainInv /\ [Next]_vars => ChainInv'
<1> SUFFICES ASSUME ChainInv, [Next]_vars PROVE ChainInv'
  OBVIOUS
<1> USE DEF ChainInv, ChainUnbroken, CleanedUpOnce
<1>1. ASSUME NEW n \in Sizes, SendLine(n) PROVE ChainInv'
  BY <1>1, NewLineType, AppendType DEF SendLine, queueVars
<1>2. ASSUME NEW n \in Sizes, Refuse(n) PROVE ChainInv'
  BY <1>2, NewLineType, AppendType DEF Refuse, OnDisconnect, queueVars
<1>3. CASE Close
  BY <1>3 DEF Close, OnDisconnect, queueVars
<1>4. CASE Push
  <2> DEFINE m == Head(posted)
  <2>1. m \in Lines /\ posted' \in Seq(Lines)
    BY <1>4, HeadTailType DEF Push
  <2>2. CASE stopped /\ UNCHANGED <<closed, stopped, queueVars, io, accepted, cleanups>>
    BY <1>4, <2>1, <2>2 DEF Push, queueVars
  <2>3. CASE ~stopped /\ Overflow(m)
    BY <1>4, <2>1, <2>3 DEF Push, Overflow, OnDisconnect
  <2>4. CASE ~stopped /\ Accept(m)
    BY <1>4, <2>1, <2>4, AppendType DEF Push, Accept
  <2> QED  BY <1>4, <2>2, <2>3, <2>4 DEF Push
<1>5. CASE WriteDone \/ WriteFails
  BY <1>5 DEF WriteDone, WriteFails, queueVars
<1>6. CASE OnWritten
  <2>1. CASE stopped \/ queue = << >>
    BY <1>6, <2>1 DEF OnWritten
  <2>2. CASE ~(stopped \/ queue = << >>)
    <3>1. PopAndChain /\ UNCHANGED <<posted, closed, stopped, sent, cleanups>>
      BY <1>6, <2>2 DEF OnWritten
    <3>2. queue' \in Seq(Lines) /\ (queue' # << >> <=> Len(queue) > 1)
      BY <2>2, <3>1, HeadTailType DEF PopAndChain
    <3> QED  BY <2>2, <3>1, <3>2 DEF PopAndChain
  <2> QED  BY <2>1, <2>2
<1>7. CASE OnFailed
  <2>1. /\ closed' = TRUE /\ stopped' = TRUE /\ writing' = FALSE /\ io' = "none"
        /\ UNCHANGED <<posted, queue, sent>>
        /\ cleanups' = IF closed THEN cleanups ELSE cleanups + 1
    BY <1>7 DEF OnFailed, OnDisconnect
  <2>2. cleanups' = 1
    BY <2>1
  <2>3. ChainUnbroken'
    BY <2>1
  <2>4. CleanedUpOnce'
    BY <2>1, <2>2
  <2>5. queue' \in Seq(Lines) /\ posted' \in Seq(Lines) /\ sent' \in Nat
    BY <2>1
  <2>6. cleanups' \in Nat
    BY <2>2
  <2>7. /\ stopped' = closed' /\ closed' \in BOOLEAN /\ writing' \in BOOLEAN
        /\ io' \in {"none", "pending", "done", "failed"}
    BY <2>1
  <2> HIDE DEF ChainUnbroken, CleanedUpOnce
  <2> QED  BY <2>3, <2>4, <2>5, <2>6, <2>7
<1>8. CASE UNCHANGED vars
  BY <1>8 DEF vars, queueVars
<1> QED
  BY <1>1, <1>2, <1>3, <1>4, <1>5, <1>6, <1>7, <1>8 DEF Next, Strand, Socket

LEMMA ChainInvariant == Spec => []ChainInv
  BY ChainInit, ChainStep, PTL DEF Spec

\* An accepted line of a live session always has a write in flight, whatever
\* the order of pushes, completions and teardown.
THEOREM ChainNeverBreaks == Spec => []ChainUnbroken
<1>1. ChainInv => ChainUnbroken
  BY DEF ChainInv
<1> QED  BY ChainInvariant, <1>1, PTL

\* The disconnect callbacks run once per session however many causes meet.
THEOREM ReleasedOnce == Spec => []CleanedUpOnce
<1>1. ChainInv => CleanedUpOnce
  BY DEF ChainInv
<1> QED  BY ChainInvariant, <1>1, PTL

\* No write is started on a socket that is being closed.
THEOREM NothingWrittenAfterClose == Spec => NoWriteAfterClose
<1>1. ChainInv /\ [Next]_vars => [io' = "pending" /\ io # "pending" => ~closed']_vars
  <2> SUFFICES ASSUME ChainInv, Next, io' = "pending", io # "pending"
               PROVE  ~closed'
    OBVIOUS
  <2>1. CASE Push
    BY <2>1 DEF Push, Accept, Overflow, OnDisconnect, ChainInv
  <2>2. CASE OnWritten
    BY <2>2 DEF OnWritten, PopAndChain, ChainInv
  <2> QED
    BY <2>1, <2>2 DEF Next, Strand, Socket, SendLine, Refuse, Close, OnDisconnect,
                      WriteDone, WriteFails, OnFailed
<1> QED  BY ChainInvariant, <1>1, PTL DEF Spec, NoWriteAfterClose

(***************************************************************************)
(* The path implements Outbox.                                             *)
(***************************************************************************)

\* The lines taken that have not reached the peer.
Unsent == SubSeq(accepted, Len(wire) + 1, Len(accepted))

\* The queue of a live session is the tail of what it has accepted: the unsent
\* lines, behind the line just written until its completion is handled.
QueueInv ==
  /\ wire \in Seq(Lines) /\ accepted \in Seq(Lines)
  /\ Len(wire) <= Len(accepted)
  /\ ~stopped =>
       /\ Len(queue) <= Len(accepted)
       /\ Len(queue) = Len(accepted) - Len(wire) + (IF io = "done" THEN 1 ELSE 0)
       /\ \A i \in 1..Len(queue) : queue[i] = accepted[Len(accepted) - Len(queue) + i]

LEMMA AppendFacts ==
  ASSUME NEW T, NEW q \in Seq(T), NEW e \in T
  PROVE  /\ Append(q, e) \in Seq(T)
         /\ Len(q) \in Nat /\ Len(Append(q, e)) = Len(q) + 1
         /\ \A i \in 1..Len(q) : Append(q, e)[i] = q[i]
         /\ Append(q, e)[Len(q) + 1] = e
  BY AppendProperties, LenProperties

LEMMA SuffixOfAppend ==
  ASSUME NEW T, NEW q \in Seq(T), NEW e \in T, NEW k \in 0..Len(q)
  PROVE  SubSeq(Append(q, e), k + 1, Len(q) + 1) = Append(SubSeq(q, k + 1, Len(q)), e)
<1> DEFINE a == Append(q, e)
           l == SubSeq(a, k + 1, Len(q) + 1)
           r == SubSeq(q, k + 1, Len(q))
<1>1. /\ a \in Seq(T) /\ Len(q) \in Nat /\ Len(a) = Len(q) + 1
      /\ \A i \in 1..Len(q) : a[i] = q[i]
      /\ a[Len(q) + 1] = e
  BY AppendFacts
<1>2. /\ \A i \in k + 1..Len(q) : q[i] \in T
      /\ \A i \in k + 1..Len(q) + 1 : a[i] \in T
  BY <1>1, ElementOfSeq
<1>3. /\ l \in Seq(T) /\ Len(l) = Len(q) + 1 - k
      /\ \A i \in 1..Len(q) + 1 - k : l[i] = a[k + i]
  <2> HIDE DEF a
  <2> QED  BY <1>1, <1>2, SubSeqProperties
<1>4. /\ r \in Seq(T) /\ Len(r) = Len(q) - k
      /\ \A i \in 1..Len(q) - k : r[i] = q[k + i]
  BY <1>1, <1>2, SubSeqProperties, SMTT(40)
<1>5. /\ Append(r, e) \in Seq(T) /\ Len(Append(r, e)) = Len(r) + 1
      /\ \A i \in 1..Len(r) : Append(r, e)[i] = r[i]
      /\ Append(r, e)[Len(r) + 1] = e
  <2> HIDE DEF r
  <2> QED  BY <1>4, AppendFacts, SMTT(40)
<1> DEFINE b == Append(r, e)
<1> HIDE DEF a, l, r, b
<1>6. /\ b \in Seq(T) /\ Len(b) = Len(q) + 1 - k
      /\ \A i \in 1..Len(q) - k : b[i] = q[k + i]
      /\ b[Len(q) - k + 1] = e
  BY <1>1, <1>4, <1>5, SMTT(40) DEF b
<1>7. ASSUME NEW i \in 1..Len(q) + 1 - k PROVE l[i] = b[i]
  <2>1. CASE i \in 1..Len(q) - k
    <3>1. i \in 1..Len(q) + 1 - k /\ k + i \in 1..Len(q)
      BY <1>1, <2>1
    <3>2. l[i] = a[k + i]
      BY <1>3, <3>1
    <3>3. a[k + i] = q[k + i]
      BY <1>1, <3>1
    <3>4. b[i] = q[k + i]
      BY <1>6, <2>1
    <3> QED  BY <3>2, <3>3, <3>4
  <2>2. CASE i = Len(q) - k + 1
    BY <1>1, <1>3, <1>6, <2>2, SMTT(40)
  <2> QED  BY <1>1, <2>1, <2>2
<1>8. l = b
  BY <1>3, <1>6, <1>7, SeqEqual, SMTT(40)
<1> QED  BY <1>8, <1>1 DEF a, l, r, b

LEMMA QueueInit == Init => QueueInv
<1> SUFFICES ASSUME Init PROVE QueueInv
  OBVIOUS
<1>1. /\ wire = << >> /\ accepted = << >> /\ queue = << >> /\ io = "none"
      /\ wire \in Seq(Lines) /\ accepted \in Seq(Lines)
      /\ Len(wire) = 0 /\ Len(accepted) = 0 /\ Len(queue) = 0
  BY EmptySeq DEF Init
<1> QED  BY <1>1 DEF QueueInv

\* What a step of the queue may do, as far as the promise is concerned.
Takes(m) ==
  /\ ~stopped /\ m \in Lines
  /\ accepted' = Append(accepted, m) /\ queue' = Append(queue, m)
  /\ (io' = "done" <=> io = "done")
  /\ UNCHANGED <<wire, closed, stopped>>

Delivers ==
  /\ ~stopped /\ io = "pending" /\ io' = "done" /\ queue # << >>
  /\ wire' = Append(wire, queue[1])
  /\ UNCHANGED <<accepted, queue, closed, stopped>>

Completes ==
  /\ ~stopped /\ io = "done" /\ io' # "done" /\ queue # << >>
  /\ queue' = Tail(queue)
  /\ UNCHANGED <<wire, accepted, closed, stopped>>

HangsUp ==
  /\ closed' = TRUE /\ stopped' = TRUE
  /\ UNCHANGED <<wire, accepted>>

Idles ==
  /\ ~stopped => UNCHANGED queue /\ (io' = "done" <=> io = "done")
  /\ UNCHANGED <<wire, accepted, closed, stopped>>

LEMMA StepKinds ==
  ChainInv /\ [Next]_vars =>
    (\E m \in Lines : Takes(m)) \/ Delivers \/ Completes \/ HangsUp \/ Idles
<1> SUFFICES ASSUME ChainInv, [Next]_vars
             PROVE (\E m \in Lines : Takes(m)) \/ Delivers \/ Completes \/ HangsUp \/ Idles
  OBVIOUS
<1> USE DEF ChainInv, ChainUnbroken
<1>1. ASSUME NEW n \in Sizes, SendLine(n) PROVE Idles
  BY <1>1 DEF SendLine, queueVars, Idles
<1>2. ASSUME NEW n \in Sizes, Refuse(n) PROVE HangsUp
  BY <1>2 DEF Refuse, OnDisconnect, HangsUp
<1>3. CASE Close
  BY <1>3 DEF Close, OnDisconnect, HangsUp
<1>4. CASE Push
  <2> DEFINE m == Head(posted)
  <2>1. m \in Lines /\ UNCHANGED wire
    BY <1>4, HeadTailType DEF Push
  <2>2. CASE stopped /\ UNCHANGED <<closed, stopped, queueVars, io, accepted, cleanups>>
    BY <2>1, <2>2 DEF Idles
  <2>3. CASE ~stopped /\ Overflow(m)
    BY <2>1, <2>3 DEF Overflow, OnDisconnect, HangsUp
  <2>4. CASE ~stopped /\ Accept(m)
    <3>1. io' = "done" <=> io = "done"
      BY <2>4 DEF Accept
    <3>2. Takes(m)
      BY <2>1, <2>4, <3>1 DEF Accept, Takes
    <3> QED  BY <2>1, <3>2
  <2> QED  BY <1>4, <2>2, <2>3, <2>4 DEF Push
<1>5. CASE WriteDone
  BY <1>5 DEF WriteDone, queueVars, Delivers
<1>6. CASE WriteFails
  BY <1>6 DEF WriteFails, queueVars, Idles
<1>7. CASE OnWritten
  <2>1. CASE stopped
    BY <1>7, <2>1 DEF OnWritten, Idles
  <2>2. CASE ~stopped
    <3>1. queue # << >>
      BY <1>7, <2>2 DEF OnWritten
    <3> QED  BY <1>7, <2>2, <3>1 DEF OnWritten, PopAndChain, Completes
  <2> QED  BY <2>1, <2>2
<1>8. CASE OnFailed
  BY <1>8 DEF OnFailed, OnDisconnect, HangsUp
<1>9. CASE UNCHANGED vars
  BY <1>9 DEF vars, queueVars, Idles
<1> QED
  BY <1>1, <1>2, <1>3, <1>4, <1>5, <1>6, <1>7, <1>8, <1>9 DEF Next, Strand, Socket

\* The queue of a live session starts at the first unsent line, or one before.
LEMMA QueueStep == ChainInv /\ QueueInv /\ [Next]_vars => QueueInv'
<1> SUFFICES ASSUME ChainInv, QueueInv, [Next]_vars PROVE QueueInv'
  OBVIOUS
<1>1. /\ queue \in Seq(Lines) /\ Len(queue) \in Nat
      /\ wire \in Seq(Lines) /\ Len(wire) \in Nat
      /\ accepted \in Seq(Lines) /\ Len(accepted) \in Nat
  BY LenProperties DEF ChainInv, QueueInv
<1>2. ASSUME NEW m \in Lines, Takes(m) PROVE QueueInv'
  <2>1. /\ accepted' \in Seq(Lines) /\ Len(accepted') = Len(accepted) + 1
        /\ \A i \in 1..Len(accepted) : accepted'[i] = accepted[i]
        /\ accepted'[Len(accepted) + 1] = m
    BY <1>1, <1>2, AppendFacts DEF Takes
  <2>2. /\ Len(queue') = Len(queue) + 1
        /\ \A i \in 1..Len(queue) : queue'[i] = queue[i]
        /\ queue'[Len(queue) + 1] = m
    BY <1>1, <1>2, AppendFacts DEF Takes
  <2>3. ASSUME NEW i \in 1..Len(queue) + 1
        PROVE  queue'[i] = accepted'[Len(accepted') - Len(queue') + i]
    <3>1. CASE i \in 1..Len(queue)
      BY <1>1, <1>2, <2>1, <2>2, <3>1, SMTT(40) DEF Takes, QueueInv
    <3>2. CASE i = Len(queue) + 1
      BY <1>1, <2>1, <2>2, <3>2
    <3> QED  BY <1>1, <3>1, <3>2
  <2>4. Len(queue') = Len(accepted') - Len(wire') + (IF io' = "done" THEN 1 ELSE 0)
    BY <1>1, <1>2, <2>1, <2>2 DEF Takes, QueueInv
  <2>5. wire' = wire /\ Len(queue) <= Len(accepted) /\ Len(wire) <= Len(accepted)
    BY <1>2 DEF Takes, QueueInv
  <2>6. \A i \in 1..Len(queue') : queue'[i] = accepted'[Len(accepted') - Len(queue') + i]
    BY <2>2, <2>3
  <2>7. /\ wire' \in Seq(Lines) /\ Len(wire') <= Len(accepted')
        /\ Len(queue') <= Len(accepted')
    BY <1>1, <2>1, <2>2, <2>5
  <2> QED  BY <2>1, <2>4, <2>6, <2>7 DEF QueueInv
<1>3. CASE Delivers
  <2>1. queue[1] \in Lines /\ Len(queue) > 0
    BY <1>1, <1>3, EmptyOrNot, ElementOfSeq DEF Delivers
  <2>2. wire' \in Seq(Lines) /\ Len(wire') = Len(wire) + 1
    BY <1>1, <1>3, <2>1, AppendFacts DEF Delivers
  <2> QED  BY <1>1, <1>3, <2>1, <2>2 DEF Delivers, QueueInv
<1>4. CASE Completes
  <2>1. /\ Len(queue) > 0 /\ Len(queue') = Len(queue) - 1
        /\ \A i \in 1..Len(queue) - 1 : queue'[i] = queue[i + 1]
    BY <1>1, <1>4, EmptyOrNot, HeadTailProperties DEF Completes
  <2> QED  BY <1>1, <1>4, <2>1, SMTT(40) DEF Completes, QueueInv
<1>5. CASE HangsUp
  BY <1>5 DEF HangsUp, QueueInv
<1>6. CASE Idles
  BY <1>6 DEF Idles, QueueInv
<1> QED  BY <1>2, <1>3, <1>4, <1>5, <1>6, StepKinds

LEMMA OutboxInit == Init => Path!Init
<1> SUFFICES ASSUME Init PROVE Path!Init
  OBVIOUS
<1>1. /\ wire = << >> /\ accepted = << >> /\ closed = FALSE
      /\ Len(wire) = 0 /\ Len(accepted) = 0
  BY EmptySeq DEF Init
<1>2. Unsent = << >>
  BY <1>1, SubSeqEmpty DEF Unsent
<1> QED  BY <1>1, <1>2 DEF Path!Init, Unsent

LEMMA OutboxStep ==
  ChainInv /\ QueueInv /\ [Next]_vars => [Path!Next]_<<Unsent, wire, ~closed>>
<1> SUFFICES ASSUME ChainInv, QueueInv, [Next]_vars
             PROVE  [Path!Next]_<<Unsent, wire, ~closed>>
  OBVIOUS
<1>1. /\ queue \in Seq(Lines) /\ Len(queue) \in Nat
      /\ wire \in Seq(Lines) /\ Len(wire) \in Nat
      /\ accepted \in Seq(Lines) /\ Len(accepted) \in Nat
      /\ Len(wire) <= Len(accepted)
      /\ stopped = closed /\ closed \in BOOLEAN
  BY LenProperties DEF ChainInv, QueueInv
<1>2. ASSUME NEW m \in Lines, Takes(m) PROVE Path!Take(m)
  <2>1. Len(accepted') = Len(accepted) + 1
    BY <1>1, <1>2, AppendFacts DEF Takes
  <2>2. Unsent' = Append(Unsent, m)
    <3>1. Unsent' = SubSeq(Append(accepted, m), Len(wire) + 1, Len(accepted) + 1)
      BY <1>2, <2>1 DEF Takes, Unsent
    <3>2. Len(wire) \in 0..Len(accepted)
      BY <1>1
    <3> QED  BY <1>1, <3>1, <3>2, SuffixOfAppend, ZenonT(60) DEF Unsent
  <2> QED  BY <1>1, <1>2, <2>2 DEF Takes, Path!Take, Unsent
<1>3. CASE Delivers
  <2>1. /\ Len(wire) + 1 \in 1..Len(accepted)
        /\ queue[1] = accepted[Len(wire) + 1] /\ queue[1] \in Lines
    <3>1. Len(queue) > 0 /\ Len(queue) = Len(accepted) - Len(wire)
      BY <1>1, <1>3, EmptyOrNot DEF Delivers, QueueInv
    <3>2. queue[1] = accepted[Len(accepted) - Len(queue) + 1]
      BY <1>1, <1>3, <3>1, SMTT(40) DEF Delivers, QueueInv
    <3> QED  BY <1>1, <3>1, <3>2, ElementOfSeq
  <2>2. Len(wire') = Len(wire) + 1
    BY <1>1, <1>3, <2>1, AppendFacts DEF Delivers
  <2>3. Len(accepted) \in Len(wire) + 1..Len(accepted)
    BY <1>1, <2>1
  <2>4. /\ Head(Unsent) = accepted[Len(wire) + 1]
        /\ Tail(Unsent) = SubSeq(accepted, Len(wire) + 1 + 1, Len(accepted))
    BY <1>1, <2>1, <2>3, HeadTailOfSubSeq, SMTT(40) DEF Unsent
  <2>5. Unsent # << >>
    <3>1. \A i \in Len(wire) + 1..Len(accepted) : accepted[i] \in Lines
      BY <1>1, ElementOfSeq
    <3>2. Unsent \in Seq(Lines) /\ Len(Unsent) > 0
      BY <1>1, <2>1, <3>1, SubSeqProperties DEF Unsent
    <3> QED  BY <3>2, EmptyOrNot
  <2>6. Unsent' = Tail(Unsent) /\ wire' = Append(wire, Head(Unsent))
    BY <1>1, <1>3, <2>1, <2>2, <2>4 DEF Delivers, Unsent
  <2> QED  BY <1>1, <1>3, <2>5, <2>6 DEF Delivers, Path!Next, Path!Deliver, Unsent
<1>4. CASE HangsUp
  <2>1. Unsent' = Unsent /\ wire' = wire
    BY <1>4 DEF HangsUp, Unsent
  <2>2. CASE closed
    BY <1>4, <2>1, <2>2 DEF HangsUp
  <2>3. CASE ~closed
    BY <1>4, <2>1, <2>3 DEF HangsUp, Path!Next, Path!HangUp, Unsent
  <2> QED  BY <2>2, <2>3
<1>5. CASE Completes \/ Idles
  BY <1>5, SMTT(40) DEF Completes, Idles, Unsent
<1>6. (\E m \in Lines : Path!Take(m)) => Path!Next
  BY DEF Path!Next
<1> QED  BY <1>2, <1>3, <1>4, <1>5, <1>6, StepKinds

\* The lines a session's send path takes reach the peer in order and once, and
\* nothing is taken or sent after it has hung up.
THEOREM ImplementsOutbox == Spec => OutboxPromise
<1>1. Spec => []QueueInv
  BY ChainInvariant, QueueInit, QueueStep, PTL DEF Spec
<1>2. QED
  BY ChainInvariant, <1>1, OutboxInit, OutboxStep, PTL
     DEF Spec, OutboxPromise, Path!Spec, Unsent

(***************************************************************************)
(* The watermark.  A step changes the running totals of the queue at one   *)
(* end: they are carried along with the invariant, so nothing has to be    *)
(* summed again.                                                           *)
(***************************************************************************)

Totals(q, b, total) ==
  /\ total \in [0..Len(q) -> Nat] /\ total[0] = 0 /\ total[Len(q)] = b
  /\ \A i \in 1..Len(q) : total[i] = total[i - 1] + q[i].size
  /\ \A i, k \in 0..Len(q) : i <= k => total[i] <= total[k]

Summed(q, b) == \E total : Totals(q, b, total)

LEMMA SizeType == ASSUME NEW m \in Lines PROVE m.size \in Nat
BY QueueConstants DEF Lines

LEMMA SummedBounds ==
  ASSUME NEW q \in Seq(Lines), NEW b \in Nat, Summed(q, b)
  PROVE  IsTotalSize(q, b)
<1>1. PICK total : Totals(q, b, total)
  BY DEF Summed
<1>2. Len(q) \in Nat
  BY LenProperties
<1>3. \A i \in 0..Len(q) : total[i] \in 0..b
  BY <1>1, <1>2, SMTT(40) DEF Totals
<1>4. total \in [0..Len(q) -> 0..b]
  BY <1>1, <1>3 DEF Totals
<1> QED  BY <1>1, <1>4 DEF Totals, IsTotalSize

LEMMA SummedEmpty == Summed(<< >>, 0)
<1> DEFINE total == [i \in 0..0 |-> 0]
<1>1. Len(<< >>) = 0
  OBVIOUS
<1>2. Totals(<< >>, 0, total)
  BY <1>1 DEF Totals
<1> QED  BY <1>2 DEF Summed

LEMMA SummedAppend ==
  ASSUME NEW q \in Seq(Lines), NEW m \in Lines, NEW b \in Nat, Summed(q, b)
  PROVE  Summed(Append(q, m), b + m.size)
<1> DEFINE n == Len(q)
           a == Append(q, m)
           w == m.size
<1>1. PICK total : Totals(q, b, total)
  BY DEF Summed
<1>2. /\ n \in Nat /\ Len(a) = n + 1 /\ w \in Nat
      /\ \A i \in 1..n : a[i] = q[i]
      /\ a[n + 1].size = w
  BY AppendFacts, SizeType
<1>3. /\ total \in [0..n -> Nat] /\ total[0] = 0 /\ total[n] = b
      /\ \A i \in 1..n : total[i] = total[i - 1] + q[i].size
      /\ \A i, k \in 0..n : i <= k => total[i] <= total[k]
  BY <1>1 DEF Totals
<1> HIDE DEF n, a, w
<1> DEFINE next == [i \in 0..n + 1 |-> IF i = n + 1 THEN b + w ELSE total[i]]
<1>4. /\ next \in [0..n + 1 -> Nat] /\ next[n + 1] = b + w
      /\ \A i \in 0..n : next[i] = total[i] /\ next[i] \in Nat /\ next[i] <= b
  <2>1. \A i \in 0..n : i \in 0..n + 1 /\ i # n + 1 /\ total[i] \in Nat /\ total[i] <= b
    <3>1. \A i \in 0..n : i \in 0..n + 1 /\ i # n + 1 /\ i <= n
      BY <1>2
    <3>2. n \in 0..n
      BY <1>2
    <3>3. \A i \in 0..n : total[i] \in Nat
      BY <1>3
    <3>4. \A i \in 0..n : total[i] <= total[n]
      BY <1>3, <3>1, <3>2
    <3> QED  BY <1>3, <3>1, <3>3, <3>4
  <2>2. \A i \in 0..n + 1 : i = n + 1 \/ i \in 0..n
    BY <1>2
  <2>3. b + w \in Nat /\ n + 1 \in 0..n + 1
    BY <1>2
  <2> QED  BY <2>1, <2>2, <2>3, SMTT(40)
<1> HIDE DEF next
<1>5. next[0] = 0
  BY <1>2, <1>3, <1>4
<1>6. ASSUME NEW i \in 1..n + 1 PROVE next[i] = next[i - 1] + a[i].size
  <2>1. CASE i = n + 1
    BY <1>2, <1>3, <1>4, <2>1, SMTT(40)
  <2>2. CASE i # n + 1
    <3>1. i \in 1..n /\ i \in 0..n /\ i - 1 \in 0..n
      BY <1>2, <2>2
    <3> QED  BY <1>2, <1>3, <1>4, <3>1
  <2> QED  BY <2>1, <2>2
<1>7. ASSUME NEW i \in 0..n + 1, NEW k \in 0..n + 1, i <= k PROVE next[i] <= next[k]
  <2>1. CASE k = n + 1
    <3>1. i = n + 1 \/ i \in 0..n
      BY <1>2
    <3>2. next[k] = b + w /\ b + w \in Nat /\ b <= b + w
      BY <1>2, <1>4, <2>1
    <3>3. CASE i = n + 1
      BY <2>1, <3>2, <3>3
    <3>4. CASE i \in 0..n
      <4>1. next[i] \in Nat /\ next[i] <= b
        BY <1>4, <3>4
      <4> QED  BY <1>2, <3>2, <4>1, SMTT(40)
    <3> QED  BY <3>1, <3>3, <3>4
  <2>2. CASE k # n + 1
    <3>1. i \in 0..n /\ k \in 0..n
      BY <1>2, <1>7, <2>2
    <3> QED  BY <1>3, <1>4, <1>7, <3>1
  <2> QED  BY <2>1, <2>2
<1>8. Totals(a, b + w, next)
  BY <1>2, <1>4, <1>5, <1>6, <1>7, SMTT(40) DEF Totals
<1>9. Summed(a, b + w)
  BY <1>8 DEF Summed
<1> QED  BY <1>9 DEF a, w

\* Taking the same amount off a sum and off its first term leaves the second term.
LEMMA ShiftedSum ==
  ASSUME NEW x \in Nat, NEW y \in Nat, NEW z, NEW w \in Nat, z = x + y
  PROVE  z - w = x - w + y
OBVIOUS

LEMMA SummedTail ==
  ASSUME NEW q \in Seq(Lines), q # << >>, NEW b \in Nat, Summed(q, b)
  PROVE  b - q[1].size \in Nat /\ Summed(Tail(q), b - q[1].size)
<1> DEFINE n == Len(q)
           r == Tail(q)
           w == q[1].size
<1>1. PICK total : Totals(q, b, total)
  BY DEF Summed
<1>2. /\ n \in Nat /\ n >= 1 /\ Len(r) = n - 1 /\ w \in Nat
      /\ \A i \in 1..n - 1 : r[i] = q[i + 1]
  <2>1. n \in Nat /\ n >= 1
    BY EmptyOrNot
  <2>2. Len(r) = n - 1 /\ \A i \in 1..n - 1 : r[i] = q[i + 1]
    BY HeadTailProperties
  <2>3. q[1] \in Lines
    BY <2>1, ElementOfSeq
  <2> QED  BY <2>1, <2>2, <2>3, SizeType
<1>3. /\ total \in [0..n -> Nat] /\ total[0] = 0 /\ total[n] = b
      /\ \A i \in 1..n : total[i] = total[i - 1] + q[i].size
      /\ \A i, k \in 0..n : i <= k => total[i] <= total[k]
  BY <1>1 DEF Totals
<1>4. total[1] = w
  <2>1. 1 \in 1..n /\ total[1] = total[1 - 1] + q[1].size
    BY <1>2, <1>3
  <2> QED  BY <1>2, <1>3, <2>1
<1> HIDE DEF n, r, w
<1> DEFINE next == [i \in 0..n - 1 |-> total[i + 1] - w]
<1>5. \A i \in 0..n - 1 : /\ i + 1 \in 0..n /\ total[i + 1] \in Nat /\ w <= total[i + 1]
                          /\ next[i] = total[i + 1] - w /\ next[i] \in Nat
  <2>1. ASSUME NEW i \in 0..n - 1
        PROVE  i + 1 \in 0..n /\ total[i + 1] \in Nat /\ w <= total[i + 1]
    <3>1. i + 1 \in 0..n /\ 1 \in 0..n /\ 1 <= i + 1
      BY <1>2
    <3>2. total[1] <= total[i + 1] /\ total[i + 1] \in Nat
      BY <1>3, <3>1
    <3> QED  BY <1>4, <3>1, <3>2
  <2>2. \A i \in 0..n - 1 : next[i] = total[i + 1] - w
    OBVIOUS
  <2> HIDE DEF next
  <2> QED  BY <1>2, <2>1, <2>2, SMTT(40)
<1>6. next \in [0..n - 1 -> Nat]
  BY <1>5
<1> HIDE DEF next
<1>7. next[0] = 0 /\ next[n - 1] = b - w /\ b - w \in Nat
  <2>1. 0 \in 0..n - 1 /\ n - 1 \in 0..n - 1 /\ n - 1 + 1 = n /\ 0 + 1 = 1
    BY <1>2
  <2>2. next[0] = total[0 + 1] - w
    BY <1>5, <2>1
  <2>3. next[0] = 0
    BY <1>2, <1>4, <2>1, <2>2
  <2>4. next[n - 1] = total[n - 1 + 1] - w /\ next[n - 1] \in Nat
    BY <1>5, <2>1
  <2>5. next[n - 1] = b - w
    BY <1>3, <2>1, <2>4
  <2> QED  BY <2>3, <2>4, <2>5
<1>8. ASSUME NEW i \in 1..n - 1 PROVE next[i] = next[i - 1] + r[i].size
  <2>1. i \in 0..n - 1 /\ i - 1 \in 0..n - 1 /\ i + 1 \in 1..n /\ i - 1 + 1 = i /\ i + 1 - 1 = i
    BY <1>2
  <2>2. total[i + 1] = total[i] + q[i + 1].size
    <3>1. total[i + 1] = total[i + 1 - 1] + q[i + 1].size
      BY <1>3, <2>1
    <3> QED  BY <2>1, <3>1
  <2>3. r[i].size = q[i + 1].size
    BY <1>2
  <2>4. next[i] = total[i + 1] - w
    BY <1>5, <2>1
  <2>5. next[i - 1] = total[i] - w /\ total[i] \in Nat
    <3>1. next[i - 1] = total[i - 1 + 1] - w /\ total[i - 1 + 1] \in Nat
      BY <1>5, <2>1
    <3> QED  BY <2>1, <3>1
  <2>6. q[i + 1].size \in Nat
    <3>1. q[i + 1] \in Lines
      BY <2>1, ElementOfSeq DEF n
    <3> QED  BY <3>1, SizeType
  <2>7. total[i] \in Nat /\ w \in Nat
    BY <1>2, <2>5
  <2>8. total[i + 1] - w = total[i] - w + q[i + 1].size
    BY <2>2, <2>6, <2>7, ShiftedSum, SMTT(40)
  <2> QED  BY <2>3, <2>4, <2>5, <2>8
<1>9. ASSUME NEW i \in 0..n - 1, NEW k \in 0..n - 1, i <= k PROVE next[i] <= next[k]
  <2>1. i + 1 \in 0..n /\ k + 1 \in 0..n /\ i + 1 <= k + 1
    BY <1>2, <1>9
  <2>2. total[i + 1] <= total[k + 1] /\ total[i + 1] \in Nat /\ total[k + 1] \in Nat
    BY <1>3, <2>1, SMTT(40)
  <2> QED  BY <1>2, <1>5, <2>2, SMTT(40)
<1>10. Totals(r, b - w, next)
  BY <1>2, <1>6, <1>7, <1>8, <1>9 DEF Totals
<1>11. b - w \in Nat /\ Summed(r, b - w)
  BY <1>7, <1>10 DEF Summed
<1> QED  BY <1>11 DEF r, w

WatermarkInv ==
  /\ bytes \in Nat /\ sent \in 0..MaxLines /\ refusals \subseteq Lines
  /\ ~stopped => Summed(queue, bytes) /\ bytes <= HighWater

LEMMA WatermarkInit == Init => WatermarkInv
BY SummedEmpty, QueueConstants DEF Init, WatermarkInv

LEMMA WatermarkStep == ChainInv /\ WatermarkInv /\ [Next]_vars => WatermarkInv'
<1> SUFFICES ASSUME ChainInv, WatermarkInv, [Next]_vars PROVE WatermarkInv'
  OBVIOUS
<1>0. /\ bytes \in Nat /\ sent \in 0..MaxLines /\ MaxLines \in Nat /\ refusals \subseteq Lines
      /\ ~stopped => Summed(queue, bytes) /\ bytes <= HighWater
  BY QueueConstants DEF WatermarkInv
<1>1. ASSUME NEW n \in Sizes, SendLine(n) PROVE WatermarkInv'
  BY <1>0, <1>1 DEF SendLine, queueVars, WatermarkInv
<1>2. ASSUME NEW n \in Sizes, Refuse(n) PROVE WatermarkInv'
  BY <1>0, <1>2, NewLineType DEF Refuse, OnDisconnect, queueVars, WatermarkInv
<1>3. CASE Close
  BY <1>0, <1>3 DEF Close, OnDisconnect, queueVars, WatermarkInv
<1>4. CASE Push
  <2> DEFINE m == Head(posted)
  <2>1. m \in Lines /\ m.size \in Nat /\ UNCHANGED <<sent, refusals>>
    BY <1>4, HeadTailType, SizeType DEF Push, ChainInv
  <2>2. \/ stopped /\ UNCHANGED <<stopped, queue, bytes>>
        \/ Overflow(m)
        \/ ~stopped /\ bytes + m.size <= HighWater /\ Accept(m)
    BY <1>4 DEF Push, queueVars
  <2> HIDE DEF m
  <2>3. CASE stopped /\ UNCHANGED <<stopped, queue, bytes>>
    BY <1>0, <2>1, <2>3 DEF WatermarkInv
  <2>4. CASE Overflow(m)
    BY <1>0, <2>1, <2>4 DEF Overflow, OnDisconnect, WatermarkInv
  <2>5. CASE ~stopped /\ bytes + m.size <= HighWater /\ Accept(m)
    <3>1. queue' = Append(queue, m) /\ bytes' = bytes + m.size /\ stopped' = stopped
      BY <2>5 DEF Accept
    <3>2. Summed(Append(queue, m), bytes + m.size)
      BY <1>0, <2>1, <2>5, SummedAppend DEF ChainInv
    <3>3. bytes' \in Nat /\ bytes' <= HighWater
      BY <1>0, <2>1, <2>5, <3>1
    <3> QED  BY <1>0, <2>1, <3>1, <3>2, <3>3 DEF WatermarkInv
  <2> QED  BY <2>2, <2>3, <2>4, <2>5
<1>5. CASE WriteDone \/ WriteFails
  BY <1>0, <1>5 DEF WriteDone, WriteFails, queueVars, WatermarkInv
<1>6. CASE OnWritten
  <2>1. CASE stopped \/ queue = << >>
    BY <1>0, <1>6, <2>1 DEF OnWritten, WatermarkInv
  <2>2. CASE ~stopped /\ queue # << >>
    <3>1. /\ queue' = Tail(queue) /\ bytes' = bytes - queue[1].size
          /\ UNCHANGED <<stopped, sent, refusals>>
      BY <1>6, <2>2 DEF OnWritten, PopAndChain
    <3>2. queue[1].size \in Nat
      <4>1. queue[1] \in Lines
        BY <2>2, HeadTailType DEF ChainInv
      <4> QED  BY <4>1, SizeType
    <3>3. bytes - queue[1].size \in Nat /\ Summed(Tail(queue), bytes - queue[1].size)
      BY <1>0, <2>2, SummedTail DEF ChainInv
    <3>4. bytes - queue[1].size <= HighWater
      BY <1>0, <2>2, <3>2, QueueConstants
    <3> QED  BY <1>0, <3>1, <3>3, <3>4 DEF WatermarkInv
  <2> QED  BY <2>1, <2>2
<1>7. CASE OnFailed
  BY <1>0, <1>7 DEF OnFailed, OnDisconnect, WatermarkInv
<1>8. CASE UNCHANGED vars
  BY <1>0, <1>8 DEF vars, queueVars, WatermarkInv
<1> QED
  BY <1>1, <1>2, <1>3, <1>4, <1>5, <1>6, <1>7, <1>8 DEF Next, Strand, Socket

\* For any sizes, watermark and number of lines the bytes a live session counts
\* are those of the lines it has queued, never above the watermark, and every
\* variable keeps its type (WriteQueue::push, do_write).
THEOREM WatermarkHolds == Spec => []TypeOK
<1>1. ChainInv /\ QueueInv /\ WatermarkInv => TypeOK
  <2> SUFFICES ASSUME ChainInv, QueueInv, WatermarkInv PROVE TypeOK
    OBVIOUS
  <2>1. WatermarkExact
    BY SummedBounds DEF ChainInv, WatermarkInv, WatermarkExact
  <2> QED  BY <2>1, ZenonT(60) DEF TypeOK, ChainInv, QueueInv, WatermarkInv
<1>2. Spec => []QueueInv
  BY ChainInvariant, QueueInit, QueueStep, PTL DEF Spec
<1>3. Spec => []WatermarkInv
  BY ChainInvariant, WatermarkInit, WatermarkStep, PTL DEF Spec
<1> QED  BY <1>1, <1>2, <1>3, ChainInvariant, PTL

(***************************************************************************)
(* The life of a session.                                                  *)
(***************************************************************************)

\* What is true of every connection, whoever it is.
Sound(c) ==
  /\ c.at = "free" => c = Fresh
  /\ c.at \in {"admitted", "registered", "placed"} => c.tier \in Listeners
  /\ c.at # "started" => c.ip = Unset /\ c.stage = "none" /\ ~c.v2
  /\ c.at = "started" => c.ip \in Addresses
  /\ c.ip \in Ips => c.counted = c.ip
  /\ c.stage = "first" => c.tier \in {"v1", "sv2", "noise"}
  /\ c.closed => c.stage = "none"
  /\ c.v2 => c.stage \in {"frames", "none"}

\* The connections that hold a slot of address a.
HoldersOf(a) == {s \in S : conn[s].counted = a /\ ~(conn[s].closed /\ conn[s].ip = a)}

Made == {s \in S : conn[s].at # "free"}

SlotsInv ==
  /\ SessionTypes
  /\ \A s \in S : Sound(conn[s])
  /\ IsFiniteSet(Made)
  /\ \A a \in Ips : open[a] = Cardinality(HoldersOf(a))

\* Connection c is one that name n may be online for.
Announces(c, n) == n \in c.said /\ (~c.closed \/ c.worker # n)

\* No forced close has been ordered: no signal yet, or the drain is under way.
Unforced == signals = 0 \/ (signals = 1 /\ drain.step \in {"waves", "grace"})

\* Session s need not be told any more, or is about to be.
Warned(s) == conn[s].closed \/ s \in told \/ conn[s].v2 \/ Waits(s, "reconnect")

DrainInv ==
  /\ \A s \in S : conn[s].closed => mail[s] = << >>
  /\ signals = 0 => drain.list = {} /\ drain.step = "off"
  /\ Unforced => \A s \in S : conn[s].by # "forced" /\ ~Waits(s, "forced")
  /\ Unforced => \A s \in drain.list \ drain.left : Warned(s)
  /\ drain.step = "grace" => drain.left = {}
  /\ signals = 1 => \A s \in drain.list : \A k \in 1..Len(mail[s]) : mail[s][k] = "forced"
        => s \in told \/ conn[s].v2 \/ \E j \in 1..k - 1 : mail[s][j] = "reconnect"
  /\ ToldBeforeForced

(***************************************************************************)
(* Connections and what a handler may change.                              *)
(***************************************************************************)

\* d differs from c at most in what a session has said and asked, and in its silence.
SameLife(c, d) ==
  /\ d \in Connections
  /\ d.at = c.at /\ d.tier = c.tier /\ d.counted = c.counted /\ d.ip = c.ip /\ d.stage = c.stage
  /\ d.closed = c.closed /\ d.v2 = c.v2 /\ d.by = c.by

LEMMA SoundKept ==
  ASSUME NEW c \in Connections, Sound(c), NEW d, SameLife(c, d), c.at # "free"
  PROVE  Sound(d)
BY DEF Sound, SameLife

LEMMA FreshSound == Fresh \in Connections /\ Sound(Fresh)
BY SessionConstants, ZenonT(60) DEF Fresh, Connections, Sound, Addresses, Names, Unset, Unknown

LEMMA DeadLife ==
  ASSUME NEW c \in Connections, Sound(c), c.at # "free"
  PROVE  /\ Dead(c) \in Connections /\ Sound(Dead(c)) /\ Dead(c).closed
         /\ Dead(c).at = c.at /\ Dead(c).counted = c.counted /\ Dead(c).ip = c.ip
         /\ Dead(c).v2 = c.v2 /\ Dead(c).by = c.by /\ Dead(c).worker = c.worker /\ Dead(c).said = c.said
<1> DEFINE t == IF c.at = "started" THEN "none" ELSE c.tier
           d == [c EXCEPT !.closed = TRUE, !.stage = "none", !.snap = FALSE, !.silent = FALSE,
                          !.tier = t]
<1>1. Dead(c) = d
  BY DEF Dead
<1>2. t \in Listeners \cup {"none"} /\ (c.at # "started" => t = c.tier)
  BY DEF Connections
<1> HIDE DEF t
<1>3. d \in Connections
  BY <1>2, ZenonT(60) DEF Connections
<1>4. DOMAIN c = {"at", "tier", "counted", "ip", "stage", "closed", "v2", "auth", "snap", "silent", "worker",
                  "said", "asks", "by"}
  BY DEF Connections
<1>5. /\ d.at = c.at /\ d.counted = c.counted /\ d.ip = c.ip /\ d.v2 = c.v2 /\ d.by = c.by
      /\ d.worker = c.worker /\ d.said = c.said /\ d.closed = TRUE /\ d.stage = "none" /\ d.tier = t
  BY <1>4, ZenonT(60)
<1> HIDE DEF d
<1>6. Sound(d)
  BY <1>2, <1>5 DEF Sound
<1> QED  BY <1>1, <1>3, <1>5, <1>6

\* What a handler of session s holds while it runs.
Worlds ==
  [c : Connections, open : [Addresses -> 0..MaxOpen], invalid : [Addresses -> 0..BanAt - 1],
   bans : SUBSET Addresses, shard : SUBSET S, presence : [Names -> {"none", "online", "offline"}]]

\* w can be what the handlers of s have made of the state: the connection is the same and
\* is not reopened, its slot is given back exactly if it was closed, and a name that is
\* online is announced by it or by another.
Handled(s, w, b) ==
  /\ w \in Worlds
  /\ Sound(w.c) /\ w.c.at = conn[s].at /\ w.c.at # "free"
  /\ w.c.counted = conn[s].counted /\ w.c.ip = conn[s].ip
  /\ conn[s].closed => w.c.closed
  /\ conn[s].v2 => w.c.v2
  /\ w.c.by = b
  /\ w.open = IF w.c.closed /\ ~conn[s].closed THEN Release(open, conn[s].ip) ELSE open
  /\ w.shard \subseteq shard
  /\ \A n \in Workers : w.presence[n] = "online" =>
        Announces(w.c, n) \/ \E t \in S \ {s} : Announces(conn[t], n)

LEMMA ReleaseType ==
  ASSUME NEW counts \in [Addresses -> 0..MaxOpen], NEW a
  PROVE  Release(counts, a) \in [Addresses -> 0..MaxOpen]
BY SessionConstants DEF Release

LEMMA Disconnected ==
  ASSUME NEW s, NEW w, NEW b, Handled(s, w, b)
  PROVE  Handled(s, OnDisconnectLocal(w, s), b) /\ OnDisconnectLocal(w, s).c.closed
<1>1. CASE w.c.closed
  BY <1>1 DEF OnDisconnectLocal
<1>2. CASE ~w.c.closed
  <2> DEFINE p == IF w.c.worker = Nobody THEN w.presence ELSE [w.presence EXCEPT ![w.c.worker] = "offline"]
             o == Release(w.open, w.c.ip)
             h == IF w.c.at \in {"placed", "started"} THEN w.shard \ {s} ELSE w.shard
             d == Dead(w.c)
             v == OnDisconnectLocal(w, s)
  <2>1. /\ w \in Worlds /\ w.c \in Connections /\ w.open \in [Addresses -> 0..MaxOpen] /\ w.shard \subseteq S
        /\ w.presence \in [Names -> {"none", "online", "offline"}] /\ w.c.worker \in Names \cup {Nobody}
        /\ Sound(w.c) /\ w.c.at # "free"
    BY DEF Handled, Worlds, Connections
  <2>2. /\ d \in Connections /\ Sound(d) /\ d.closed
        /\ d.at = w.c.at /\ d.counted = w.c.counted /\ d.ip = w.c.ip
        /\ d.v2 = w.c.v2 /\ d.by = w.c.by /\ d.worker = w.c.worker /\ d.said = w.c.said
    BY <2>1, DeadLife
  <2>3. p \in [Names -> {"none", "online", "offline"}]
    BY <2>1
  <2>4. o \in [Addresses -> 0..MaxOpen]
    BY <2>1, ReleaseType
  <2>5. h \subseteq S /\ h \subseteq w.shard
    BY <2>1
  <2>6. \A n \in Workers : p[n] = "online" => n # w.c.worker /\ w.presence[n] = "online"
    BY <2>1, SessionConstants DEF Names
  <2>7. v = [w EXCEPT !.c = d, !.presence = p, !.open = o, !.shard = h]
    BY <1>2 DEF OnDisconnectLocal
  <2> HIDE DEF p, o, h, d, v
  <2>8. /\ v \in Worlds /\ v.c = d /\ v.presence = p /\ v.open = o /\ v.shard = h
    BY <2>1, <2>2, <2>3, <2>4, <2>5, <2>7, ZenonT(60) DEF Worlds
  <2>9. o = Release(open, conn[s].ip) /\ ~conn[s].closed
    BY <1>2 DEF Handled, o
  <2>10. \A n \in Workers : p[n] = "online" => Announces(d, n) \/ \E t \in S \ {s} : Announces(conn[t], n)
    <3>1. \A n \in Workers : Announces(w.c, n) /\ n # w.c.worker => Announces(d, n)
      BY <2>2 DEF Announces
    <3> QED  BY <2>6, <3>1 DEF Handled
  <2>11. /\ d.at = conn[s].at /\ d.at # "free" /\ d.counted = conn[s].counted /\ d.ip = conn[s].ip
         /\ conn[s].v2 => d.v2
         /\ d.by = b /\ h \subseteq shard
    BY <2>2, <2>5 DEF Handled
  <2> QED  BY <2>2, <2>8, <2>9, <2>10, <2>11 DEF Handled, v
<1> QED  BY <1>1, <1>2

LEMMA Adjusted ==
  ASSUME NEW s, NEW w, NEW b, Handled(s, w, b), NEW v \in Worlds, SameLife(w.c, v.c), v.c.said = w.c.said,
         w.c.closed => v.c.worker = w.c.worker,
         v.open = w.open, v.shard = w.shard, v.presence = w.presence
  PROVE  Handled(s, v, b)
<1>1. w.c \in Connections /\ Sound(w.c) /\ w.c.at # "free"
  BY DEF Handled, Worlds
<1>2. Sound(v.c)
  BY <1>1, SoundKept
<1>3. \A n : Announces(w.c, n) => Announces(v.c, n)
  BY DEF Announces, SameLife
<1>4. \A n \in Workers : v.presence[n] = "online" =>
        Announces(v.c, n) \/ \E t \in S \ {s} : Announces(conn[t], n)
  BY <1>3 DEF Handled
<1> QED  BY <1>2, <1>4 DEF Handled, SameLife

LEMMA Asked ==
  ASSUME NEW s, NEW w, NEW b, Handled(s, w, b), NEW name \in Workers, NEW stage \in {"node", "aux"}
  PROVE  Handled(s, Asks(w, name, stage), b)
<1> DEFINE q == w.c.asks \cup {<<name, stage>>}
           d == [w.c EXCEPT !.asks = q]
           v == [w EXCEPT !.c = d]
<1>1. w \in Worlds /\ w.c \in Connections
  BY DEF Handled, Worlds
<1>2. q \in SUBSET (Workers \X {"node", "aux"})
  <2>1. w.c.asks \in SUBSET (Workers \X {"node", "aux"})
    BY <1>1 DEF Connections
  <2>2. <<name, stage>> \in Workers \X {"node", "aux"}
    OBVIOUS
  <2> QED  BY <2>1, <2>2
<1>3. Asks(w, name, stage) = v
  BY DEF Asks
<1> HIDE DEF q
<1>4. d \in Connections
  BY <1>1, <1>2, ZenonT(60) DEF Connections
<1>5. SameLife(w.c, d) /\ d.said = w.c.said /\ d.worker = w.c.worker
  BY <1>1, <1>4, ZenonT(60) DEF SameLife, Connections
<1> HIDE DEF d
<1>6. v \in Worlds /\ v.c = d /\ v.open = w.open /\ v.shard = w.shard /\ v.presence = w.presence
  BY <1>1, <1>4, ZenonT(60) DEF Worlds
<1> HIDE DEF v
<1> QED  BY <1>3, <1>5, <1>6, Adjusted

LEMMA CameOnline ==
  ASSUME NEW s, NEW w, NEW b, Handled(s, w, b), ~w.c.closed, NEW name \in Workers,
         NEW auth \in BOOLEAN, NEW snap \in BOOLEAN
  PROVE  Handled(s, ComesOnline(w, name, auth, snap), b)
<1> DEFINE u == w.c.said \cup {name}
           p == [w.presence EXCEPT ![name] = "online"]
           d == [w.c EXCEPT !.worker = name, !.said = u, !.auth = auth, !.snap = snap]
           v == [w EXCEPT !.c = d, !.presence = p]
<1>1. w \in Worlds /\ w.c \in Connections /\ Sound(w.c) /\ w.c.at # "free"
      /\ w.presence \in [Names -> {"none", "online", "offline"}]
  BY DEF Handled, Worlds
<1>2. u \in SUBSET Workers /\ p \in [Names -> {"none", "online", "offline"}]
      /\ \A n \in Workers : n = name \/ p[n] = w.presence[n]
  BY <1>1 DEF Connections, Names
<1>3. ComesOnline(w, name, auth, snap) = v
  BY DEF ComesOnline
<1>4. name \in u /\ \A n \in w.c.said : n \in u
  OBVIOUS
<1> HIDE DEF u, p
<1>5. d \in Connections
  BY <1>1, <1>2, ZenonT(60) DEF Connections, Names
<1>6. SameLife(w.c, d) /\ d.said = u
  BY <1>1, <1>5, ZenonT(60) DEF SameLife, Connections
<1> HIDE DEF d
<1>7. v \in Worlds /\ v.c = d /\ v.open = w.open /\ v.shard = w.shard /\ v.presence = p
  BY <1>1, <1>2, <1>5, ZenonT(60) DEF Worlds
<1> HIDE DEF v
<1>8. Sound(d)
  BY <1>1, <1>6, SoundKept
<1>9. \A n \in Workers : p[n] = "online" => Announces(d, n) \/ \E t \in S \ {s} : Announces(conn[t], n)
  <2>1. \A n : Announces(w.c, n) => Announces(d, n)
    BY <1>4, <1>6 DEF Announces, SameLife
  <2>2. Announces(d, name)
    BY <1>4, <1>6 DEF Announces, SameLife
  <2> QED  BY <1>2, <2>1, <2>2 DEF Handled
<1> QED  BY <1>3, <1>6, <1>7, <1>8, <1>9 DEF Handled, SameLife

(***************************************************************************)
(* One line, one frame, one answer.                                        *)
(***************************************************************************)

LEMMA SameLifeItself ==
  ASSUME NEW c \in Connections
  PROVE  SameLife(c, c)
BY DEF SameLife

LEMMA Rejected ==
  ASSUME NEW s, NEW w, NEW b, Handled(s, w, b), w.c.ip \in Addresses
  PROVE  Handled(s, Reject(w, s), b)
<1> DEFINE a == w.c.ip
           n == w.invalid[a] + 1
           i0 == [w.invalid EXCEPT ![a] = 0]
           i1 == [w.invalid EXCEPT ![a] = n]
           bb == w.bans \cup {a}
           banned == [w EXCEPT !.bans = bb, !.invalid = i0]
           struck == [w EXCEPT !.invalid = i1]
<1>1. /\ w \in Worlds /\ w.c \in Connections /\ w.invalid \in [Addresses -> 0..BanAt - 1]
      /\ w.bans \in SUBSET Addresses /\ SameLife(w.c, w.c)
  BY SameLifeItself DEF Handled, Worlds
<1>2. CASE n >= BanAt
  <2>1. Reject(w, s) = OnDisconnectLocal(banned, s)
    BY <1>2 DEF Reject
  <2>2. i0 \in [Addresses -> 0..BanAt - 1]
    BY <1>1, SessionConstants
  <2>3. bb \in SUBSET Addresses
    BY <1>1
  <2> HIDE DEF i0, bb
  <2>4. /\ banned \in Worlds /\ banned.c = w.c /\ banned.open = w.open /\ banned.shard = w.shard
        /\ banned.presence = w.presence
    BY <1>1, <2>2, <2>3, ZenonT(60) DEF Worlds
  <2> HIDE DEF banned
  <2>5. Handled(s, banned, b)
    BY <1>1, <2>4, Adjusted
  <2> QED  BY <2>1, <2>5, Disconnected
<1>3. CASE ~(n >= BanAt)
  <2>1. Reject(w, s) = struck
    BY <1>3 DEF Reject
  <2>2. i1 \in [Addresses -> 0..BanAt - 1]
    <3>1. n \in 0..BanAt - 1
      <4>1. w.invalid[a] \in 0..BanAt - 1
        BY <1>1
      <4>2. BanAt \in Nat
        BY SessionConstants
      <4> QED  BY <1>3, <4>1, <4>2
    <3> HIDE DEF n
    <3> QED  BY <1>1, <3>1
  <2> HIDE DEF i1
  <2>3. /\ struck \in Worlds /\ struck.c = w.c /\ struck.open = w.open /\ struck.shard = w.shard
        /\ struck.presence = w.presence
    BY <1>1, <2>2, ZenonT(60) DEF Worlds
  <2> HIDE DEF struck
  <2> QED  BY <1>1, <2>1, <2>3, Adjusted
<1> QED  BY <1>2, <1>3

LEMMA Credited ==
  ASSUME NEW s, NEW w, NEW b, Handled(s, w, b), w.c.ip \in Addresses
  PROVE  Handled(s, Credit(w), b)
<1> DEFINE i0 == [w.invalid EXCEPT ![w.c.ip] = 0]
           d == [w.c EXCEPT !.silent = FALSE]
           v == [w EXCEPT !.c = d, !.invalid = i0]
<1>1. w \in Worlds /\ w.c \in Connections /\ w.invalid \in [Addresses -> 0..BanAt - 1]
  BY DEF Handled, Worlds
<1>2. i0 \in [Addresses -> 0..BanAt - 1]
  BY <1>1, SessionConstants
<1>3. Credit(w) = v
  BY DEF Credit
<1> HIDE DEF i0
<1>4. d \in Connections
  BY <1>1, ZenonT(60) DEF Connections
<1>5. SameLife(w.c, d) /\ d.said = w.c.said /\ d.worker = w.c.worker
  BY <1>1, <1>4, ZenonT(60) DEF SameLife, Connections
<1> HIDE DEF d
<1>6. v \in Worlds /\ v.c = d /\ v.open = w.open /\ v.shard = w.shard /\ v.presence = w.presence
  BY <1>1, <1>2, <1>4, ZenonT(60) DEF Worlds
<1> HIDE DEF v
<1> QED  BY <1>3, <1>5, <1>6, Adjusted

\* A handler that changes only the connection, and nothing of its life.
LEMMA Touched ==
  ASSUME NEW s, NEW w, NEW b, Handled(s, w, b), NEW d, SameLife(w.c, d), d.said = w.c.said,
         w.c.closed => d.worker = w.c.worker
  PROVE  Handled(s, [w EXCEPT !.c = d], b)
<1> DEFINE v == [w EXCEPT !.c = d]
<1>1. w \in Worlds /\ d \in Connections
  BY DEF Handled, SameLife
<1>2. v \in Worlds /\ v.c = d /\ v.open = w.open /\ v.shard = w.shard /\ v.presence = w.presence
  BY <1>1, ZenonT(60) DEF Worlds
<1> HIDE DEF v
<1>3. Handled(s, v, b)
  BY <1>2, Adjusted
<1> QED  BY <1>3 DEF v

LEMMA LineKept ==
  ASSUME NEW s, NEW w, NEW b, Handled(s, w, b), w.c.ip \in Addresses, NEW line \in LinesV1
  PROVE  Handled(s, Line(w, s, line), b)
<1>1. CASE line \in {"subscribe"} \X BOOLEAN
  <2>1. line[1] = "subscribe" /\ line[2] \in BOOLEAN
    BY <1>1
  <2>2. Line(w, s, line) = Subscribe(w, s, line[2])
    BY <2>1, Zenon DEF Line
  <2>3. CASE line[2]
    BY <2>2, <2>3, Disconnected DEF Subscribe
  <2>4. CASE ~line[2]
    <3> DEFINE n == ~w.c.closed
               d == [w.c EXCEPT !.snap = n]
    <3>1. w.c \in Connections /\ n \in BOOLEAN
      BY DEF Handled, Worlds
    <3>2. Subscribe(w, s, line[2]) = [w EXCEPT !.c = d]
      BY <2>4 DEF Subscribe
    <3> HIDE DEF n
    <3>3. d \in Connections
      BY <3>1, ZenonT(60) DEF Connections
    <3>4. SameLife(w.c, d) /\ d.said = w.c.said /\ d.worker = w.c.worker
      BY <3>1, <3>3, ZenonT(60) DEF SameLife, Connections
    <3> HIDE DEF d
    <3> QED  BY <2>2, <3>2, <3>4, Touched
  <2> QED  BY <2>3, <2>4
<1>2. CASE line \in {"authorize"} \X Names
  <2>1. line[1] = "authorize" /\ line[2] \in Names
    BY <1>2
  <2>2. Line(w, s, line) = Authorize(w, line[2])
    BY <2>1, Zenon DEF Line
  <2>3. CASE line[2] = Junk
    BY <2>2, <2>3 DEF Authorize
  <2>4. CASE line[2] # Junk
    <3>1. line[2] \in Workers
      BY <2>1, <2>4 DEF Names
    <3> QED  BY <2>2, <2>4, <3>1, Asked DEF Authorize
  <2> QED  BY <2>3, <2>4
<1>3. CASE line = <<"share">>
  <2>1. Line(w, s, line) = IF w.c.auth THEN Credit(w) ELSE Reject(w, s)
    BY <1>3, Zenon DEF Line
  <2> QED  BY <2>1, Credited, Rejected
<1>4. CASE line = <<"bad">>
  <2>1. Line(w, s, line) = Reject(w, s)
    BY <1>4, Zenon DEF Line
  <2> QED  BY <2>1, Rejected
<1> QED  BY <1>1, <1>2, <1>3, <1>4 DEF LinesV1

LEMMA FrameKept ==
  ASSUME NEW s, NEW w, NEW b, Handled(s, w, b), ~w.c.closed, NEW frame \in FramesV2
  PROVE  Handled(s, Frame(w, frame), b)
<1>c. w.c \in Connections
  BY DEF Handled, Worlds
<1>1. CASE frame = <<"setup">>
  <2> DEFINE d == [w.c EXCEPT !.auth = TRUE, !.snap = TRUE]
  <2>1. Frame(w, frame) = [w EXCEPT !.c = d]
    BY <1>1, Zenon DEF Frame
  <2>2. d \in Connections
    BY <1>c, ZenonT(60) DEF Connections
  <2>3. SameLife(w.c, d) /\ d.said = w.c.said /\ d.worker = w.c.worker
    BY <1>c, <2>2, ZenonT(60) DEF SameLife, Connections
  <2> HIDE DEF d
  <2> QED  BY <2>1, <2>3, Touched
<1>2. CASE frame \in {"open"} \X Names \X BOOLEAN
  <2>1. frame[1] = "open" /\ frame[2] \in Names /\ frame[3] \in BOOLEAN
    BY <1>2
  <2>2. Frame(w, frame) = OpenChannel(w, frame[2], frame[3])
    BY <2>1, Zenon DEF Frame
  <2>3. CASE frame[2] = Junk
    <3> DEFINE d == [w.c EXCEPT !.worker = Junk]
    <3>1. Frame(w, frame) = [w EXCEPT !.c = d]
      BY <2>2, <2>3 DEF OpenChannel
    <3>2. d \in Connections
      BY <1>c, ZenonT(60) DEF Connections, Names
    <3>3. SameLife(w.c, d) /\ d.said = w.c.said
      BY <1>c, <3>2, ZenonT(60) DEF SameLife, Connections
    <3> HIDE DEF d
    <3> QED  BY <3>1, <3>3, Touched
  <2>4. CASE frame[2] # Junk
    <3> DEFINE x == w.c.auth \/ frame[3]
               y == w.c.snap \/ frame[3]
               v == ComesOnline(w, frame[2], x, y)
    <3>1. frame[2] \in Workers /\ x \in BOOLEAN /\ y \in BOOLEAN
      BY <2>1, <2>4 DEF Names
    <3>2. Frame(w, frame) = Asks(v, frame[2], "node")
      BY <2>2, <2>4 DEF OpenChannel
    <3> HIDE DEF x, y
    <3>3. Handled(s, v, b)
      BY <3>1, CameOnline
    <3> HIDE DEF v
    <3> QED  BY <3>1, <3>2, <3>3, Asked
  <2> QED  BY <2>3, <2>4
<1>3. CASE frame = <<"share">>
  <2> DEFINE x == w.c.silent /\ ~w.c.auth
             d == [w.c EXCEPT !.silent = x]
  <2>1. Frame(w, frame) = [w EXCEPT !.c = d]
    BY <1>3, Zenon DEF Frame
  <2>2. x \in BOOLEAN
    BY <1>c DEF Connections
  <2> HIDE DEF x
  <2>3. d \in Connections
    BY <1>c, <2>2, ZenonT(60) DEF Connections
  <2>4. SameLife(w.c, d) /\ d.said = w.c.said /\ d.worker = w.c.worker
    BY <1>c, <2>3, ZenonT(60) DEF SameLife, Connections
  <2> HIDE DEF d
  <2> QED  BY <2>1, <2>4, Touched
<1> QED  BY <1>1, <1>2, <1>3 DEF FramesV2

LEMMA AnswerKept ==
  ASSUME NEW s, NEW w, NEW b, Handled(s, w, b), NEW name \in Workers, NEW stage \in {"node", "aux"},
         NEW ok \in BOOLEAN
  PROVE  Handled(s, Answered(w, s, name, stage, ok), b)
<1>1. CASE w.c.closed
  BY <1>1, Zenon DEF Answered
<1>2. CASE ~w.c.closed /\ ~ok /\ w.c.v2
  <2>1. Answered(w, s, name, stage, ok) = OnDisconnectLocal(w, s)
    BY <1>2, Zenon DEF Answered
  <2> QED  BY <2>1, Disconnected
<1>3. CASE ~w.c.closed /\ ok /\ ~w.c.v2 /\ Aux /\ stage = "node"
  <2>1. Answered(w, s, name, stage, ok) = Asks(w, name, "aux")
    BY <1>3, Zenon DEF Answered
  <2> QED  BY <2>1, Asked
<1>4. CASE ~w.c.closed /\ ok /\ ~w.c.v2 /\ (~Aux \/ stage = "aux")
  <2>1. Answered(w, s, name, stage, ok) = ComesOnline(w, name, TRUE, TRUE)
    BY <1>4, Zenon DEF Answered, Proceed
  <2> QED  BY <1>4, <2>1, CameOnline
<1>5. CASE ~w.c.closed /\ ~(~ok /\ w.c.v2) /\ ~(ok /\ ~w.c.v2)
  <2>1. Answered(w, s, name, stage, ok) = w
    BY <1>5, Zenon DEF Answered
  <2> QED  BY <2>1
<1> QED  BY <1>1, <1>2, <1>3, <1>4, <1>5

(***************************************************************************)
(* A read: its lines, or its frames, one after the other.                  *)
(***************************************************************************)

LEMMA CountingUp ==
  ASSUME NEW T, T \subseteq Nat, 0 \in T, \A n \in Nat : n \in T => n + 1 \in T
  PROVE  T = Nat
<1> SUFFICES ASSUME Nat \ T # {} PROVE FALSE
  OBVIOUS
<1>1. IsWellFoundedOn(OpToRel(<, Nat), Nat)
  BY NatLessThanWellFounded
<1>2. PICK x \in Nat \ T : \A y \in Nat \ T : ~(<<y, x>> \in OpToRel(<, Nat))
  BY <1>1, WFMin
<1>3. \A y \in Nat \ T : ~(y < x)
  BY <1>2 DEF OpToRel
<1>4. x - 1 \in Nat /\ x - 1 < x /\ (x - 1) + 1 = x
  <2>1. x \in Nat /\ x # 0
    BY <1>2, Zenon
  <2> QED  BY <2>1
<1>5. x - 1 \in T
  BY <1>3, <1>4
<1> QED  BY <1>2, <1>4, <1>5

\* f holds what session s has come to after each of the first m lines of the batch.
LinesRun(s, batch, m, f) ==
  f = [k \in 0..m |-> IF k = 0 THEN Here(s) ELSE Line(f[k - 1], s, batch[k])]

FramesRun(s, batch, m, f) ==
  f = [k \in 0..m |-> IF k = 0 THEN Here(s)
                      ELSE IF f[k - 1].c.closed THEN f[k - 1] ELSE Frame(f[k - 1], batch[k])]

LEMMA LinesRunExists ==
  ASSUME NEW s, NEW batch, NEW m \in Nat
  PROVE  \E f : LinesRun(s, batch, m, f)
<1> DEFINE T == {n \in Nat : \E f : LinesRun(s, batch, n, f)}
<1>1. 0 \in T
  <2> DEFINE f == [k \in 0..0 |-> Here(s)]
  <2>1. LinesRun(s, batch, 0, f)
    BY DEF LinesRun
  <2> HIDE DEF f
  <2> QED  BY <2>1
<1>2. ASSUME NEW n \in Nat, n \in T
      PROVE  n + 1 \in T
  <2>1. PICK f : LinesRun(s, batch, n, f)
    BY <1>2
  <2> DEFINE last == Line(f[n], s, batch[n + 1])
             g == [k \in 0..n + 1 |-> IF k = n + 1 THEN last ELSE f[k]]
  <2> HIDE DEF last
  <2>2. \A k \in 0..n : g[k] = f[k] /\ k \in 0..n + 1
    OBVIOUS
  <2>3. g[n + 1] = last /\ n \in 0..n /\ (n + 1) - 1 = n /\ n + 1 # 0
    OBVIOUS
  <2>4. f = [k \in 0..n |-> IF k = 0 THEN Here(s) ELSE Line(f[k - 1], s, batch[k])]
    BY <2>1 DEF LinesRun
  <2>5. DOMAIN g = 0..n + 1
    OBVIOUS
  <2>6. g = [k \in DOMAIN g |-> g[k]]
    OBVIOUS
  <2> HIDE DEF g
  <2>7. ASSUME NEW k \in 0..n + 1
        PROVE  g[k] = IF k = 0 THEN Here(s) ELSE Line(g[k - 1], s, batch[k])
    <3>1. CASE k = n + 1
      BY <2>2, <2>3, <3>1 DEF last
    <3>2. CASE k # n + 1
      <4>1. k \in 0..n /\ (k # 0 => k - 1 \in 0..n)
        BY <3>2
      <4>2. f[k] = IF k = 0 THEN Here(s) ELSE Line(f[k - 1], s, batch[k])
        BY <2>4, <4>1
      <4> QED  BY <2>2, <4>1, <4>2
    <3> QED  BY <3>1, <3>2
  <2>8. LinesRun(s, batch, n + 1, g)
    BY <2>5, <2>6, <2>7 DEF LinesRun
  <2> QED  BY <2>8
<1> HIDE DEF T
<1>3. T = Nat
  <2>1. T \subseteq Nat
    BY DEF T
  <2> QED  BY <1>1, <1>2, <2>1, CountingUp
<1> QED  BY <1>3 DEF T

LEMMA FramesRunExists ==
  ASSUME NEW s, NEW batch, NEW m \in Nat
  PROVE  \E f : FramesRun(s, batch, m, f)
<1> DEFINE T == {n \in Nat : \E f : FramesRun(s, batch, n, f)}
<1>1. 0 \in T
  <2> DEFINE f == [k \in 0..0 |-> Here(s)]
  <2>1. FramesRun(s, batch, 0, f)
    BY DEF FramesRun
  <2> HIDE DEF f
  <2> QED  BY <2>1
<1>2. ASSUME NEW n \in Nat, n \in T
      PROVE  n + 1 \in T
  <2>1. PICK f : FramesRun(s, batch, n, f)
    BY <1>2
  <2> DEFINE last == IF f[n].c.closed THEN f[n] ELSE Frame(f[n], batch[n + 1])
             g == [k \in 0..n + 1 |-> IF k = n + 1 THEN last ELSE f[k]]
  <2> HIDE DEF last
  <2>2. \A k \in 0..n : g[k] = f[k] /\ k \in 0..n + 1
    OBVIOUS
  <2>3. g[n + 1] = last /\ n \in 0..n /\ (n + 1) - 1 = n /\ n + 1 # 0
    OBVIOUS
  <2>4. f = [k \in 0..n |-> IF k = 0 THEN Here(s)
                            ELSE IF f[k - 1].c.closed THEN f[k - 1] ELSE Frame(f[k - 1], batch[k])]
    BY <2>1 DEF FramesRun
  <2>5. DOMAIN g = 0..n + 1
    OBVIOUS
  <2>6. g = [k \in DOMAIN g |-> g[k]]
    OBVIOUS
  <2> HIDE DEF g
  <2>7. ASSUME NEW k \in 0..n + 1
        PROVE  g[k] = IF k = 0 THEN Here(s)
                      ELSE IF g[k - 1].c.closed THEN g[k - 1] ELSE Frame(g[k - 1], batch[k])
    <3>1. CASE k = n + 1
      BY <2>2, <2>3, <3>1 DEF last
    <3>2. CASE k # n + 1
      <4>1. k \in 0..n /\ (k # 0 => k - 1 \in 0..n)
        BY <3>2
      <4>2. f[k] = IF k = 0 THEN Here(s)
                   ELSE IF f[k - 1].c.closed THEN f[k - 1] ELSE Frame(f[k - 1], batch[k])
        BY <2>4, <4>1
      <4> QED  BY <2>2, <4>1, <4>2
    <3> QED  BY <3>1, <3>2
  <2>8. FramesRun(s, batch, n + 1, g)
    BY <2>5, <2>6, <2>7 DEF FramesRun
  <2> QED  BY <2>8
<1> HIDE DEF T
<1>3. T = Nat
  <2>1. T \subseteq Nat
    BY DEF T
  <2> QED  BY <1>1, <1>2, <2>1, CountingUp
<1> QED  BY <1>3 DEF T

LEMMA LinesKept ==
  ASSUME NEW s, NEW b, Handled(s, Here(s), b), conn[s].ip \in Addresses, NEW batch \in Seq(LinesV1)
  PROVE  Handled(s, AfterLines(s, batch), b)
<1> DEFINE m == Len(batch)
           f == CHOOSE f : LinesRun(s, batch, m, f)
           T == {n \in Nat : n <= m => Handled(s, f[n], b)}
<1>1. AfterLines(s, batch) = f[m]
  BY Zenon DEF AfterLines, LinesRun
<1>2. m \in Nat /\ \A k \in 1..m : batch[k] \in LinesV1
  BY ElementOfSeq, LenProperties
<1> HIDE DEF m
<1>3. LinesRun(s, batch, m, f)
  BY <1>2, LinesRunExists
<1> HIDE DEF f
<1>4. f = [k \in 0..m |-> IF k = 0 THEN Here(s) ELSE Line(f[k - 1], s, batch[k])]
  BY <1>3 DEF LinesRun
<1>5. 0 \in T
  <2>1. 0 \in 0..m
    BY <1>2
  <2>2. f[0] = Here(s)
    BY <1>4, <2>1
  <2> QED  BY <2>2
<1>6. ASSUME NEW n \in Nat, n \in T
      PROVE  n + 1 \in T
  <2>1. CASE n + 1 <= m
    <3>1. n <= m /\ n + 1 \in 0..m /\ n + 1 \in 1..m /\ n + 1 # 0 /\ (n + 1) - 1 = n
      BY <1>2, <2>1
    <3>2. Handled(s, f[n], b)
      BY <1>6, <3>1
    <3>3. f[n + 1] = Line(f[n], s, batch[n + 1])
      BY <1>4, <3>1
    <3>4. f[n].c.ip \in Addresses
      BY <3>2 DEF Handled
    <3>5. batch[n + 1] \in LinesV1
      BY <1>2, <3>1
    <3> QED  BY <3>2, <3>3, <3>4, <3>5, LineKept
  <2>2. CASE ~(n + 1 <= m)
    BY <2>2
  <2> QED  BY <2>1, <2>2
<1>7. T = Nat
  <2> HIDE DEF T
  <2>1. T \subseteq Nat
    BY DEF T
  <2> QED  BY <1>5, <1>6, <2>1, CountingUp
<1>8. m <= m /\ m \in T
  BY <1>2, <1>7
<1> QED  BY <1>1, <1>8

LEMMA FramesKept ==
  ASSUME NEW s, NEW b, Handled(s, Here(s), b), NEW batch \in Seq(FramesV2)
  PROVE  Handled(s, AfterFrames(s, batch), b)
<1> DEFINE m == Len(batch)
           f == CHOOSE f : FramesRun(s, batch, m, f)
           T == {n \in Nat : n <= m => Handled(s, f[n], b)}
<1>1. AfterFrames(s, batch) = f[m]
  BY Zenon DEF AfterFrames, FramesRun
<1>2. m \in Nat /\ \A k \in 1..m : batch[k] \in FramesV2
  BY ElementOfSeq, LenProperties
<1> HIDE DEF m
<1>3. FramesRun(s, batch, m, f)
  BY <1>2, FramesRunExists
<1> HIDE DEF f
<1>4. f = [k \in 0..m |-> IF k = 0 THEN Here(s)
                          ELSE IF f[k - 1].c.closed THEN f[k - 1] ELSE Frame(f[k - 1], batch[k])]
  BY <1>3 DEF FramesRun
<1>5. 0 \in T
  <2>1. 0 \in 0..m
    BY <1>2
  <2>2. f[0] = Here(s)
    BY <1>4, <2>1
  <2> QED  BY <2>2
<1>6. ASSUME NEW n \in Nat, n \in T
      PROVE  n + 1 \in T
  <2>1. CASE n + 1 <= m
    <3>1. n <= m /\ n + 1 \in 0..m /\ n + 1 \in 1..m /\ n + 1 # 0 /\ (n + 1) - 1 = n
      BY <1>2, <2>1
    <3>2. Handled(s, f[n], b)
      BY <1>6, <3>1
    <3>3. f[n + 1] = IF f[n].c.closed THEN f[n] ELSE Frame(f[n], batch[n + 1])
      BY <1>4, <3>1
    <3>4. batch[n + 1] \in FramesV2
      BY <1>2, <3>1
    <3> QED  BY <3>2, <3>3, <3>4, FrameKept
  <2>2. CASE ~(n + 1 <= m)
    BY <2>2
  <2> QED  BY <2>1, <2>2
<1>7. T = Nat
  <2> HIDE DEF T
  <2>1. T \subseteq Nat
    BY DEF T
  <2> QED  BY <1>5, <1>6, <2>1, CountingUp
<1>8. m <= m /\ m \in T
  BY <1>2, <1>7
<1> QED  BY <1>1, <1>8

(***************************************************************************)
(* The invariants.                                                         *)
(***************************************************************************)

\* The state seen by a handler of session s that has made d of its connection.
Holding(d) ==
  [c |-> d, open |-> open, invalid |-> invalid, bans |-> bans, shard |-> shard, presence |-> presence]

LEMMA HereHolds ==
  ASSUME NEW s
  PROVE  Here(s) = Holding(conn[s]) /\ \A d : [Here(s) EXCEPT !.c = d] = Holding(d)
BY DEF Here, Holding

LEMMA HoldingHandled ==
  ASSUME SlotsInv, PresenceTruth, NEW s \in S, conn[s].at # "free", NEW d \in Connections, Sound(d),
         d.at = conn[s].at, d.counted = conn[s].counted, d.ip = conn[s].ip, d.closed = conn[s].closed,
         conn[s].v2 => d.v2, d.said = conn[s].said, d.worker = conn[s].worker
  PROVE  Handled(s, Holding(d), d.by)
<1> DEFINE w == Holding(d)
<1>1. /\ open \in [Addresses -> 0..MaxOpen] /\ invalid \in [Addresses -> 0..BanAt - 1]
      /\ bans \in SUBSET Addresses /\ shard \in SUBSET S
      /\ presence \in [Names -> {"none", "online", "offline"}]
  BY DEF SlotsInv, SessionTypes
<1>2. w \in Worlds
  BY <1>1, ZenonT(60) DEF Worlds, Holding
<1>3. w.c = d /\ w.open = open /\ w.shard = shard /\ w.presence = presence
  BY DEF Holding
<1> HIDE DEF w
<1>4. \A n \in Workers : presence[n] = "online" => Announces(d, n) \/ \E t \in S \ {s} : Announces(conn[t], n)
  <2>1. \A n \in Workers : presence[n] = "online" => \E t \in S : Announces(conn[t], n)
    BY DEF PresenceTruth, Announces
  <2>2. \A n : Announces(conn[s], n) => Announces(d, n)
    BY DEF Announces
  <2> QED  BY <2>1, <2>2
<1>5. w.open = IF w.c.closed /\ ~conn[s].closed THEN Release(open, conn[s].ip) ELSE open
  BY <1>3
<1>6. Handled(s, w, d.by)
  BY <1>2, <1>3, <1>4, <1>5 DEF Handled
<1> QED  BY <1>6 DEF w

LEMMA HereHandled ==
  ASSUME SlotsInv, PresenceTruth, NEW s \in S, conn[s].at # "free"
  PROVE  Handled(s, Here(s), conn[s].by)
<1>1. conn[s] \in Connections /\ Sound(conn[s])
  BY DEF SlotsInv, SessionTypes
<1> QED  BY <1>1, HereHolds, HoldingHandled

\* The slots of address a are counted, whatever is added to its holders or taken from them.
LEMMA OneMore ==
  ASSUME NEW T, IsFiniteSet(T), NEW s, s \notin T
  PROVE  IsFiniteSet(T \cup {s}) /\ Cardinality(T \cup {s}) = Cardinality(T) + 1
BY FS_AddElement

LEMMA OneLess ==
  ASSUME NEW T, IsFiniteSet(T), NEW s \in T
  PROVE  /\ IsFiniteSet(T \ {s}) /\ Cardinality(T \ {s}) = Cardinality(T) - 1
         /\ Cardinality(T) \in Nat /\ Cardinality(T) > 0
<1>1. IsFiniteSet(T \ {s}) /\ Cardinality(T \ {s}) = Cardinality(T) - 1
  BY FS_RemoveElement
<1>2. Cardinality(T) \in Nat /\ Cardinality(T \ {s}) \in Nat
  BY <1>1, FS_CardinalityType
<1> QED  BY <1>1, <1>2

LEMMA HoldersFinite ==
  ASSUME SlotsInv, NEW a \in Ips
  PROVE  IsFiniteSet(HoldersOf(a)) /\ Cardinality(HoldersOf(a)) \in Nat
<1>1. a # Unset
  BY SessionConstants
<1>2. \A s \in S : conn[s].at = "free" => conn[s].counted # a
  BY <1>1 DEF SlotsInv, Sound, Fresh
<1>3. HoldersOf(a) \subseteq Made
  BY <1>2 DEF HoldersOf, Made
<1>4. IsFiniteSet(Made)
  BY DEF SlotsInv
<1>5. IsFiniteSet(HoldersOf(a))
  BY <1>3, <1>4, FS_Subset
<1> QED  BY <1>5, FS_CardinalityType

\* A handler of session s is done: the slots it may have given back are those it held.
LEMMA HandledTypes ==
  ASSUME SlotsInv, NEW s \in S, NEW w, NEW b, Handled(s, w, b), Becomes(s, w), UNCHANGED process, told' = told
  PROVE  SessionTypes'
<1>1. w.c \in Connections /\ w \in Worlds
  BY DEF Handled, Worlds
<1>2. SessionTypes
  BY DEF SlotsInv
<1>3. conn' = [conn EXCEPT ![s] = w.c] /\ conn' \in [S -> Connections]
  BY <1>1, <1>2 DEF Becomes, SessionTypes
<1>4. mail' \in [S -> Seq(Orders)]
  BY <1>2 DEF Becomes, SessionTypes
<1>5. /\ open' \in [Addresses -> 0..MaxOpen] /\ invalid' \in [Addresses -> 0..BanAt - 1] /\ bans' \subseteq Addresses
      /\ presence' \in [Names -> {"none", "online", "offline"}]
  BY <1>1 DEF Becomes, Worlds
<1>6. shard' \subseteq {t \in S : conn'[t].at \in {"registered", "placed", "started"}}
  <2>1. \A t \in S : conn'[t].at = conn[t].at
    BY <1>2, <1>3 DEF Handled, SessionTypes
  <2>2. shard' \subseteq shard
    BY DEF Becomes, Handled
  <2> QED  BY <1>2, <2>1, <2>2 DEF SessionTypes
<1> QED  BY <1>2, <1>3, <1>4, <1>5, <1>6 DEF SessionTypes, process

LEMMA HandledSlots ==
  ASSUME SlotsInv, NEW s \in S, NEW w, NEW b, Handled(s, w, b), Becomes(s, w), NEW a \in Ips
  PROVE  open'[a] = Cardinality(HoldersOf(a)')
<1>1. conn \in [S -> Connections] /\ open \in [Addresses -> 0..MaxOpen] /\ a \in Addresses
  BY DEF SlotsInv, SessionTypes, Addresses
<1>2. conn' = [conn EXCEPT ![s] = w.c] /\ open' = w.open
  BY DEF Becomes
<1>3. /\ w.c.counted = conn[s].counted /\ w.c.ip = conn[s].ip
      /\ conn[s].closed => w.c.closed
  BY DEF Handled
<1>4. conn'[s] = w.c /\ \A t \in S \ {s} : conn'[t] = conn[t]
  BY <1>1, <1>2
<1>5. open[a] = Cardinality(HoldersOf(a))
  BY DEF SlotsInv
<1>6. CASE ~(w.c.closed /\ ~conn[s].closed)
  <2>1. w.open = open
    BY <1>6 DEF Handled
  <2>2. HoldersOf(a)' = HoldersOf(a)
    BY <1>3, <1>4, <1>6 DEF HoldersOf, Handled
  <2> QED  BY <1>2, <1>5, <2>1, <2>2
<1>7. CASE w.c.closed /\ ~conn[s].closed
  <2>1. w.open = Release(open, conn[s].ip)
    BY <1>7 DEF Handled
  <2>2. CASE conn[s].ip # a
    <3>1. w.open[a] = open[a]
      BY <1>1, <2>1, <2>2 DEF Release
    <3>2. HoldersOf(a)' = HoldersOf(a)
      BY <1>3, <1>4, <2>2 DEF HoldersOf
    <3> QED  BY <1>2, <1>5, <3>1, <3>2
  <2>3. CASE conn[s].ip = a
    <3>1. conn[s].counted = a
      BY <2>3 DEF SlotsInv, Sound
    <3>2. s \in HoldersOf(a)
      BY <1>7, <3>1 DEF HoldersOf
    <3>3. HoldersOf(a)' = HoldersOf(a) \ {s}
      BY <1>3, <1>4, <1>7, <2>3 DEF HoldersOf
    <3>4. Cardinality(HoldersOf(a) \ {s}) = Cardinality(HoldersOf(a)) - 1 /\ Cardinality(HoldersOf(a)) > 0
      BY <3>2, HoldersFinite, OneLess
    <3>5. open[a] > 0
      BY <1>5, <3>4
    <3>6. w.open[a] = open[a] - 1
      BY <1>1, <2>1, <2>3, <3>5 DEF Release
    <3> QED  BY <1>2, <1>5, <3>3, <3>4, <3>6
  <2> QED  BY <2>2, <2>3
<1> QED  BY <1>6, <1>7

LEMMA HandledStep ==
  ASSUME SlotsInv, NEW s \in S, NEW w, NEW b, Handled(s, w, b), Becomes(s, w), UNCHANGED process, told' = told
  PROVE  SlotsInv' /\ PresenceTruth'
<1>1. SessionTypes'
  BY HandledTypes
<1>2. conn \in [S -> Connections]
  BY DEF SlotsInv, SessionTypes
<1>3. conn'[s] = w.c /\ \A t \in S \ {s} : conn'[t] = conn[t]
  BY <1>2 DEF Becomes
<1>4. \A t \in S : Sound(conn[t])'
  <2>1. \A t \in S : Sound(conn'[t])
    BY <1>3 DEF SlotsInv, Handled
  <2> QED  BY <2>1 DEF Sound
<1>5. Made' = Made
  BY <1>3 DEF Made, Handled
<1>6. \A a \in Ips : open'[a] = Cardinality(HoldersOf(a)')
  BY HandledSlots
<1>7. SlotsInv'
  BY <1>1, <1>4, <1>5, <1>6 DEF SlotsInv
<1>8. ASSUME NEW n \in Workers, presence'[n] = "online"
      PROVE  \E t \in S : Announces(conn'[t], n)
  <2>1. w.presence[n] = "online"
    BY <1>8 DEF Becomes
  <2>2. Announces(w.c, n) \/ \E t \in S \ {s} : Announces(conn[t], n)
    BY <2>1 DEF Handled
  <2> QED  BY <1>3, <2>2
<1> QED  BY <1>7, <1>8 DEF PresenceTruth, Announces

\* A handler of session s is done: the drain is where it was, and whom it has told or
\* closed is still so.  A session is closed by "forced" only when that was its first mail.
LEMMA HandledDrain ==
  ASSUME SlotsInv, DrainInv, NEW s \in S, NEW w, NEW b, Handled(s, w, b), Becomes(s, w), UNCHANGED process,
         told' = told,
         b = conn[s].by \/ (w.c.closed /\ mail[s] # << >> /\ b = Head(mail[s]))
  PROVE  DrainInv'
<1>1. conn \in [S -> Connections] /\ mail \in [S -> Seq(Orders)] /\ drain.list \subseteq S
  BY DEF SlotsInv, SessionTypes
<1>2. conn'[s] = w.c /\ \A t \in S \ {s} : conn'[t] = conn[t]
  BY <1>1 DEF Becomes
<1>3. /\ mail'[s] = IF w.c.closed THEN << >> ELSE mail[s]
      /\ \A t \in S \ {s} : mail'[t] = mail[t]
  BY <1>1 DEF Becomes
<1>4. /\ conn[s].closed => w.c.closed
      /\ conn[s].v2 => w.c.v2
      /\ w.c.by = b
  BY DEF Handled
<1>5. drain' = drain /\ signals' = signals /\ Unforced' = Unforced
  BY DEF process, Unforced
<1>6. \A t \in S : Len(mail[t]) \in Nat
  BY <1>1, LenProperties
<1>7. mail[s] # << >> => 1 \in 1..Len(mail[s]) /\ Head(mail[s]) = mail[s][1]
  BY <1>1, <1>6, EmptySeq, HeadTailProperties
<1>8. \A t \in S : conn'[t].closed => mail'[t] = << >>
  BY <1>2, <1>3 DEF DrainInv
<1>9. signals' = 0 => drain'.list = {} /\ drain'.step = "off"
  BY <1>5 DEF DrainInv
<1>10. Unforced' => \A t \in S : conn'[t].by # "forced" /\ ~Waits(t, "forced")'
  <2> SUFFICES ASSUME Unforced, NEW t \in S
               PROVE  conn'[t].by # "forced" /\ ~Waits(t, "forced")'
    BY <1>5
  <2>1. /\ conn[t].by # "forced"
        /\ \A k \in 1..Len(mail[t]) : mail[t][k] # "forced"
    BY DEF DrainInv, Waits
  <2>2. CASE t # s
    BY <1>2, <1>3, <2>1, <2>2 DEF Waits
  <2>3. CASE t = s
    <3>1. b # "forced"
      BY <1>7, <2>1, <2>3
    <3>2. CASE w.c.closed
      <4>1. mail'[t] = << >>
        BY <1>3, <2>3, <3>2
      <4>2. Len(mail'[t]) = 0
        BY <4>1
      <4> QED  BY <1>2, <1>4, <2>3, <3>1, <4>2 DEF Waits
    <3>3. CASE ~w.c.closed
      BY <1>2, <1>3, <1>4, <2>1, <2>3, <3>1, <3>3 DEF Waits
    <3> QED  BY <3>2, <3>3
  <2> QED  BY <2>2, <2>3
<1>11. Unforced' => \A t \in drain'.list \ drain'.left : Warned(t)'
  <2> SUFFICES ASSUME Unforced, NEW t \in drain.list \ drain.left
               PROVE  Warned(t)'
    BY <1>5
  <2>1. Warned(t) /\ t \in S
    BY <1>1 DEF DrainInv
  <2>2. CASE t # s
    BY <1>2, <1>3, <2>1, <2>2 DEF Warned, Waits
  <2>3. CASE t = s
    BY <1>2, <1>3, <1>4, <2>1, <2>3 DEF Warned, Waits
  <2> QED  BY <2>2, <2>3
<1>12. drain'.step = "grace" => drain'.left = {}
  BY <1>5 DEF DrainInv
<1>13. signals' = 1 => \A t \in drain'.list : \A k \in 1..Len(mail'[t]) : mail'[t][k] = "forced"
         => t \in told' \/ conn'[t].v2 \/ \E j \in 1..k - 1 : mail'[t][j] = "reconnect"
  <2> SUFFICES ASSUME signals = 1, NEW t \in drain.list, NEW k \in 1..Len(mail'[t]), mail'[t][k] = "forced"
               PROVE  t \in told \/ conn'[t].v2 \/ \E j \in 1..k - 1 : mail'[t][j] = "reconnect"
    BY <1>5
  <2>1. mail'[t] = mail[t] /\ t \in S
    <3>1. k \notin 1..0
      OBVIOUS
    <3>2. mail'[t] # << >>
      BY <3>1
    <3> QED  BY <1>1, <1>3, <3>2
  <2>2. t \in told \/ conn[t].v2 \/ \E j \in 1..k - 1 : mail[t][j] = "reconnect"
    BY <2>1 DEF DrainInv
  <2>3. conn[t].v2 => conn'[t].v2
    BY <1>2, <1>4, <2>1
  <2> QED  BY <2>1, <2>2, <2>3
<1>14. ToldBeforeForced'
  <2> SUFFICES ASSUME NEW t \in drain.list, signals = 1, conn'[t].by = "forced", ~conn'[t].v2
               PROVE  t \in told
    BY <1>5 DEF ToldBeforeForced
  <2>1. t \in S
    BY <1>1
  <2>2. CASE t # s
    BY <1>2, <2>1, <2>2 DEF DrainInv, ToldBeforeForced
  <2>3. CASE t = s /\ b = conn[s].by
    BY <1>2, <1>4, <2>3 DEF DrainInv, ToldBeforeForced
  <2>4. CASE t = s /\ mail[s] # << >> /\ b = Head(mail[s])
    <3>1. 1 \in 1..Len(mail[t]) /\ mail[t][1] = "forced" /\ ~conn[t].v2
      BY <1>2, <1>4, <1>7, <2>4
    <3>2. ~ \E j \in 1..1 - 1 : mail[t][j] = "reconnect"
      OBVIOUS
    <3> QED  BY <3>1, <3>2 DEF DrainInv
  <2> QED  BY <2>2, <2>3, <2>4
<1> QED  BY <1>8, <1>9, <1>10, <1>11, <1>12, <1>13, <1>14 DEF DrainInv

\* What the drain sees of the sessions.
LEMMA DrainKept ==
  ASSUME DrainInv, drain.list \subseteq S, mail' = mail, told' = told, UNCHANGED <<drain, signals>>,
         \A t \in S : conn'[t].closed = conn[t].closed /\ conn'[t].v2 = conn[t].v2 /\ conn'[t].by = conn[t].by
  PROVE  DrainInv'
<1>1. Unforced' = Unforced /\ \A t \in S : Warned(t)' = Warned(t) /\ \A x : Waits(t, x)' = Waits(t, x)
  BY DEF Unforced, Warned, Waits
<1>2. ToldBeforeForced'
  BY DEF DrainInv, ToldBeforeForced
<1>3. Unforced' => \A t \in S : conn'[t].by # "forced" /\ ~Waits(t, "forced")'
  BY <1>1 DEF DrainInv
<1>4. Unforced' => \A t \in drain'.list \ drain'.left : Warned(t)'
  BY <1>1 DEF DrainInv
<1>5. signals' = 1 => \A t \in drain'.list : \A k \in 1..Len(mail'[t]) : mail'[t][k] = "forced"
         => t \in told' \/ conn'[t].v2 \/ \E j \in 1..k - 1 : mail'[t][j] = "reconnect"
  BY DEF DrainInv
<1> QED  BY <1>2, <1>3, <1>4, <1>5 DEF DrainInv

\* What holds in every state.
SessionInv == SlotsInv /\ PresenceTruth /\ DrainInv

LEMMA HandlerDone ==
  ASSUME SessionInv, NEW s \in S, NEW w, NEW b, Handled(s, w, b), Becomes(s, w), UNCHANGED process, told' = told,
         b = conn[s].by \/ (w.c.closed /\ mail[s] # << >> /\ b = Head(mail[s]))
  PROVE  SessionInv'
BY HandledStep, HandledDrain DEF SessionInv

LEMMA ClosesStep ==
  ASSUME SessionInv, NEW s \in S, conn[s].at # "free", Closes(s), UNCHANGED process, told' = told
  PROVE  SessionInv'
<1>1. Handled(s, Here(s), conn[s].by)
  BY HereHandled DEF SessionInv
<1>2. Handled(s, OnDisconnectLocal(Here(s), s), conn[s].by)
  BY <1>1, Disconnected
<1> QED  BY <1>2, HandlerDone DEF Closes

LEMMA MovesToStep ==
  ASSUME SessionInv, NEW s \in S, Reading(s, "handshake") \/ Reading(s, "first"),
         NEW stage \in {"handshake", "lines", "frames"}, MovesTo(s, stage), UNCHANGED process, told' = told
  PROVE  SessionInv'
<1> DEFINE tier == IF stage = "handshake" THEN conn[s].tier ELSE "none"
           two == stage = "frames"
           d == [conn[s] EXCEPT !.stage = stage, !.v2 = two, !.tier = tier]
<1>1. conn[s] \in Connections /\ Sound(conn[s]) /\ conn[s].at # "free" /\ ~conn[s].closed
  BY DEF SessionInv, SlotsInv, SessionTypes, Reading, OnStrand
<1>2. conn[s].stage \in {"handshake", "first"}
  BY DEF Reading
<1>3. Becomes(s, [Here(s) EXCEPT !.c = d])
  BY DEF MovesTo
<1>4. tier \in Listeners \cup {"none"} /\ two \in BOOLEAN /\ (two => stage = "frames")
  BY <1>1 DEF Connections
<1> HIDE DEF tier, two
<1>5. d \in Connections
  BY <1>1, <1>4, ZenonT(60) DEF Connections
<1>6. /\ d.at = conn[s].at /\ d.counted = conn[s].counted /\ d.ip = conn[s].ip /\ d.closed = conn[s].closed
      /\ d.said = conn[s].said /\ d.worker = conn[s].worker /\ d.by = conn[s].by
      /\ d.stage = stage /\ d.v2 = two
  BY <1>1, ZenonT(60) DEF Connections
<1> HIDE DEF d
<1>7. Sound(d)
  BY <1>1, <1>2, <1>4, <1>6 DEF Sound
<1>8. ~conn[s].v2
  BY <1>1, <1>2 DEF Sound
<1>9. Handled(s, Holding(d), d.by)
  BY <1>1, <1>5, <1>6, <1>7, <1>8, HoldingHandled DEF SessionInv
<1>10. Becomes(s, Holding(d))
  BY <1>3, HereHolds
<1> QED  BY <1>6, <1>9, <1>10, HandlerDone

LEMMA HandshakeStep ==
  ASSUME SessionInv, NEW s \in S, Handshake(s)
  PROVE  SessionInv'
<1> DEFINE stage == IF conn[s].tier = "tls" THEN "lines" ELSE "frames"
<1>1. stage \in {"handshake", "lines", "frames"} /\ MovesTo(s, stage)
  BY DEF Handshake
<1> HIDE DEF stage
<1> QED  BY <1>1, MovesToStep DEF Handshake

LEMMA FirstByteStep ==
  ASSUME SessionInv, NEW s \in S, NEW text \in BOOLEAN, FirstByte(s, text)
  PROVE  SessionInv'
<1>1. conn[s].at # "free" /\ Sound(conn[s]) /\ conn[s].stage = "first"
  BY DEF FirstByte, Reading, OnStrand, SessionInv, SlotsInv
<1>2. CASE text # (conn[s].tier = "v1")
  <2>1. Closes(s)
    BY <1>2 DEF FirstByte
  <2> QED  BY <1>1, <2>1, ClosesStep DEF FirstByte
<1>3. CASE ~(text # (conn[s].tier = "v1"))
  <2> DEFINE stage == [v1 |-> "lines", noise |-> "handshake", sv2 |-> "frames"][conn[s].tier]
  <2>1. MovesTo(s, stage)
    BY <1>3 DEF FirstByte
  <2>2. conn[s].tier \in {"v1", "sv2", "noise"}
    BY <1>1 DEF Sound
  <2>3. stage \in {"handshake", "lines", "frames"}
    BY <2>2
  <2> HIDE DEF stage
  <2> QED  BY <2>1, <2>3, MovesToStep DEF FirstByte
<1> QED  BY <1>2, <1>3

LEMMA ReadFailsStep ==
  ASSUME SessionInv, NEW s \in S, ReadFails(s)
  PROVE  SessionInv'
BY ClosesStep DEF ReadFails, OnStrand

LEMMA OnReadStep ==
  ASSUME SessionInv, NEW s \in S, NEW batch \in LineReads, OnRead(s, batch)
  PROVE  SessionInv'
<1>1. conn[s].at # "free" /\ Sound(conn[s]) /\ conn[s].stage = "lines"
  BY DEF OnRead, Reading, OnStrand, SessionInv, SlotsInv
<1>2. conn[s].ip \in Addresses
  BY <1>1 DEF Sound
<1>3. batch \in Seq(LinesV1)
  BY SessionConstants
<1>4. Handled(s, Here(s), conn[s].by)
  BY <1>1, HereHandled DEF SessionInv
<1>5. Handled(s, AfterLines(s, batch), conn[s].by)
  BY <1>2, <1>3, <1>4, LinesKept
<1> QED  BY <1>5, HandlerDone DEF OnRead

LEMMA OnFramesStep ==
  ASSUME SessionInv, NEW s \in S, NEW batch \in FrameReads, OnFrames(s, batch)
  PROVE  SessionInv'
<1>1. conn[s].at # "free"
  BY DEF OnFrames, Reading, OnStrand
<1>2. batch \in Seq(FramesV2)
  BY SessionConstants
<1>3. Handled(s, Here(s), conn[s].by)
  BY <1>1, HereHandled DEF SessionInv
<1>4. Handled(s, AfterFrames(s, batch), conn[s].by)
  BY <1>2, <1>3, FramesKept
<1> QED  BY <1>4, HandlerDone DEF OnFrames

LEMMA AuthAnswerStep ==
  ASSUME SessionInv, NEW s \in S, NEW name \in Workers, NEW stage \in {"node", "aux"}, NEW ok \in BOOLEAN,
         AuthAnswer(s, name, stage, ok)
  PROVE  SessionInv'
<1> DEFINE asks == conn[s].asks \ {<<name, stage>>}
           d == [conn[s] EXCEPT !.asks = asks]
<1>1. conn[s] \in Connections /\ Sound(conn[s]) /\ conn[s].at # "free"
  BY DEF SessionInv, SlotsInv, SessionTypes, AuthAnswer, OnStrand
<1>2. Becomes(s, Answered([Here(s) EXCEPT !.c = d], s, name, stage, ok))
  BY DEF AuthAnswer
<1>3. asks \in SUBSET (Workers \X {"node", "aux"})
  BY <1>1 DEF Connections
<1> HIDE DEF asks
<1>4. d \in Connections
  BY <1>1, <1>3, ZenonT(60) DEF Connections
<1>5. SameLife(conn[s], d) /\ d.said = conn[s].said /\ d.worker = conn[s].worker
  BY <1>1, <1>4, ZenonT(60) DEF SameLife, Connections
<1> HIDE DEF d
<1>6. Sound(d)
  BY <1>1, <1>5, SoundKept
<1>7. Handled(s, Holding(d), d.by)
  BY <1>1, <1>4, <1>5, <1>6, HoldingHandled DEF SessionInv, SameLife
<1>8. [Here(s) EXCEPT !.c = d] = Holding(d) /\ d.by = conn[s].by
  BY <1>5, HereHolds DEF SameLife
<1>9. Handled(s, Answered(Holding(d), s, name, stage, ok), conn[s].by)
  BY <1>7, <1>8, AnswerKept
<1> QED  BY <1>2, <1>8, <1>9, HandlerDone DEF AuthAnswer

LEMMA RunMailStep ==
  ASSUME SessionInv, NEW s \in S, RunMail(s)
  PROVE  SessionInv'
<1>1. conn[s] \in Connections /\ Sound(conn[s]) /\ conn[s].at # "free" /\ mail[s] # << >>
  BY DEF SessionInv, SlotsInv, SessionTypes, RunMail, OnStrand
<1>t. /\ mail \in [S -> Seq(Orders)] /\ told \subseteq S /\ conn \in [S -> Connections]
      /\ drain.list \subseteq S /\ SessionTypes
  BY DEF SessionInv, SlotsInv, SessionTypes
<1>2. CASE /\ Head(mail[s]) \in {"shutdown", "forced"}
           /\ Becomes(s, OnDisconnectLocal([Here(s) EXCEPT !.c = [conn[s] EXCEPT !.by = Head(mail[s])]], s))
           /\ UNCHANGED told
  <2> DEFINE b == Head(mail[s])
             d == [conn[s] EXCEPT !.by = b]
             w == OnDisconnectLocal([Here(s) EXCEPT !.c = d], s)
  <2>1. Becomes(s, w) /\ b \in {"shutdown", "forced"}
    BY <1>2
  <2> HIDE DEF b
  <2>2. d \in Connections
    BY <1>1, <2>1, ZenonT(60) DEF Connections
  <2>3. /\ d.at = conn[s].at /\ d.counted = conn[s].counted /\ d.ip = conn[s].ip /\ d.closed = conn[s].closed
        /\ d.said = conn[s].said /\ d.worker = conn[s].worker /\ d.stage = conn[s].stage /\ d.v2 = conn[s].v2
        /\ d.tier = conn[s].tier /\ d.by = b
    BY <1>1, ZenonT(60) DEF Connections
  <2> HIDE DEF d
  <2>4. Sound(d)
    BY <1>1, <2>3 DEF Sound
  <2>5. Handled(s, Holding(d), b)
    BY <1>1, <2>2, <2>3, <2>4, HoldingHandled DEF SessionInv
  <2>6. w = OnDisconnectLocal(Holding(d), s)
    BY HereHolds
  <2> HIDE DEF w
  <2>7. Handled(s, w, b) /\ w.c.closed
    BY <2>5, <2>6, Disconnected
  <2>8. b = Head(mail[s])
    BY DEF b
  <2> QED  BY <1>1, <1>2, <2>1, <2>7, <2>8, HandlerDone DEF RunMail
<1>3. CASE /\ Head(mail[s]) = "reconnect"
           /\ mail' = [mail EXCEPT ![s] = Tail(@)]
           /\ told' = IF conn[s].v2 THEN told ELSE told \cup {s}
           /\ UNCHANGED <<conn, limiter, shard, presence>>
  <2>1. /\ conn' = conn /\ open' = open /\ invalid' = invalid /\ bans' = bans /\ shard' = shard
        /\ presence' = presence /\ drain' = drain /\ signals' = signals /\ listening' = listening /\ up' = up
    BY <1>3 DEF RunMail, limiter, process
  <2>2. /\ mail' \in [S -> Seq(Orders)] /\ mail'[s] = Tail(mail[s])
        /\ \A t \in S \ {s} : mail'[t] = mail[t]
    BY <1>1, <1>3, <1>t
  <2>3. told \subseteq told' /\ told' \subseteq S /\ (s \in told' \/ conn[s].v2)
    BY <1>3, <1>t
  <2>4. /\ Len(Tail(mail[s])) = Len(mail[s]) - 1 /\ Len(mail[s]) \in Nat
        /\ \A k \in 1..Len(Tail(mail[s])) : Tail(mail[s])[k] = mail[s][k + 1] /\ k + 1 \in 1..Len(mail[s])
    BY <1>1, <1>t, HeadTailProperties, LenProperties, ElementOfSeq
  <2>5. ASSUME NEW t \in S, NEW x, Waits(t, x)'
        PROVE  Waits(t, x)
    <3>1. CASE t # s
      BY <2>2, <2>5, <3>1 DEF Waits
    <3>2. CASE t = s
      <4>1. PICK k \in 1..Len(mail'[s]) : mail'[s][k] = x
        BY <2>5, <3>2 DEF Waits
      <4>2. mail'[s] = Tail(mail[s])
        BY <2>2
      <4>3. k + 1 \in 1..Len(mail[s]) /\ mail[s][k + 1] = x
        BY <2>4, <4>1, <4>2
      <4> QED  BY <3>2, <4>3 DEF Waits
    <3> QED  BY <3>1, <3>2
  <2>6. SlotsInv'
    <3>1. SessionTypes'
      BY <1>t, <2>1, <2>2, <2>3 DEF SessionTypes
    <3>2. Made' = Made /\ \A a \in Ips : HoldersOf(a)' = HoldersOf(a)
      BY <2>1 DEF Made, HoldersOf
    <3>3. \A t \in S : Sound(conn'[t])
      BY <2>1 DEF SessionInv, SlotsInv
    <3> QED  BY <2>1, <3>1, <3>2, <3>3 DEF SessionInv, SlotsInv, Sound
  <2>7. PresenceTruth'
    BY <2>1 DEF SessionInv, PresenceTruth
  <2>8. DrainInv'
    <3>1. DrainInv /\ Unforced' = Unforced
      BY <2>1 DEF SessionInv, Unforced
    <3>2. \A t \in S : conn'[t].closed => mail'[t] = << >>
      BY <1>1, <2>1, <2>2, <3>1 DEF DrainInv
    <3>3. Unforced' => \A t \in S : conn'[t].by # "forced" /\ ~Waits(t, "forced")'
      BY <2>1, <2>5, <3>1 DEF DrainInv
    <3>4. Unforced' => \A t \in drain'.list \ drain'.left : Warned(t)'
      <4> SUFFICES ASSUME Unforced, NEW t \in drain.list \ drain.left
                   PROVE  Warned(t)'
        BY <2>1, <3>1
      <4>1. Warned(t) /\ t \in S
        BY <1>t, <3>1 DEF DrainInv
      <4>2. CASE t = s
        BY <2>1, <2>3, <4>2 DEF Warned
      <4>3. CASE t # s
        BY <2>1, <2>2, <2>3, <4>1, <4>3 DEF Warned, Waits
      <4> QED  BY <4>2, <4>3
    <3>5. signals' = 1 => \A t \in drain'.list : \A k \in 1..Len(mail'[t]) : mail'[t][k] = "forced"
            => t \in told' \/ conn'[t].v2 \/ \E j \in 1..k - 1 : mail'[t][j] = "reconnect"
      <4> SUFFICES ASSUME signals = 1, NEW t \in drain.list, NEW k \in 1..Len(mail'[t]), mail'[t][k] = "forced"
                   PROVE  t \in told' \/ conn'[t].v2 \/ \E j \in 1..k - 1 : mail'[t][j] = "reconnect"
        BY <2>1
      <4>1. CASE t = s
        BY <2>1, <2>3, <4>1
      <4>2. CASE t # s
        <5>1. mail'[t] = mail[t] /\ t \in S
          BY <1>t, <2>2, <4>2
        <5>2. t \in told \/ conn[t].v2 \/ \E j \in 1..k - 1 : mail[t][j] = "reconnect"
          BY <3>1, <5>1 DEF DrainInv
        <5> QED  BY <2>1, <2>3, <5>1, <5>2
      <4> QED  BY <4>1, <4>2
    <3>6. ToldBeforeForced'
      BY <2>1, <2>3, <3>1 DEF DrainInv, ToldBeforeForced
    <3> QED  BY <2>1, <3>1, <3>2, <3>3, <3>4, <3>5, <3>6 DEF DrainInv
  <2> QED  BY <2>6, <2>7, <2>8 DEF SessionInv
<1> QED  BY <1>2, <1>3 DEF RunMail

(***************************************************************************)
(* The accept, and the clocks.                                             *)
(***************************************************************************)

\* A step that moves one connection on and closes nothing.
LEMMA ConnectionStep ==
  ASSUME SessionInv, NEW s \in S, NEW d \in Connections, Sound(d), conn' = [conn EXCEPT ![s] = d],
         d.at # "free", d.at = conn[s].at \/ d.at \in {"registered", "placed", "started"},
         d.counted = conn[s].counted, d.said = conn[s].said, d.closed = conn[s].closed,
         d.worker = conn[s].worker, d.v2 = conn[s].v2, d.by = conn[s].by,
         d.closed => \A a \in Ips : d.ip = a <=> conn[s].ip = a,
         mail' = mail, open' = open, invalid' = invalid, bans' = bans, presence' = presence, told' = told,
         shard' = shard \/ (shard' = shard \cup {s} /\ d.at \in {"registered", "placed", "started"}),
         UNCHANGED process
  PROVE  SessionInv'
<1>1. SessionTypes /\ conn \in [S -> Connections] /\ drain.list \subseteq S
  BY DEF SessionInv, SlotsInv, SessionTypes
<1>2. conn' \in [S -> Connections] /\ conn'[s] = d /\ \A t \in S \ {s} : conn'[t] = conn[t]
  BY <1>1
<1>3. SessionTypes'
  <2>1. shard' \subseteq {t \in S : conn'[t].at \in {"registered", "placed", "started"}}
    <3>1. ASSUME NEW t \in shard'
          PROVE  t \in S /\ conn'[t].at \in {"registered", "placed", "started"}
      <4>1. CASE t # s
        BY <1>1, <1>2, <3>1, <4>1 DEF SessionTypes
      <4>2. CASE t = s /\ t \in shard
        <5>1. conn[s].at \in {"registered", "placed", "started"}
          BY <1>1, <4>2 DEF SessionTypes
        <5> QED  BY <1>2, <4>2, <5>1
      <4>3. CASE t = s /\ t \notin shard
        BY <1>2, <3>1, <4>3
      <4> QED  BY <4>1, <4>2, <4>3
    <3> QED  BY <3>1
  <2> QED  BY <1>1, <1>2, <2>1 DEF SessionTypes, process
<1>4. \A t \in S : Sound(conn'[t])
  BY <1>2 DEF SessionInv, SlotsInv
<1>5. IsFiniteSet(Made')
  <2>1. IsFiniteSet(Made)
    BY DEF SessionInv, SlotsInv
  <2>2. IsFiniteSet(Made \cup {s})
    BY <2>1, FS_AddElement
  <2>3. Made' \subseteq Made \cup {s}
    BY <1>2 DEF Made
  <2> QED  BY <2>2, <2>3, FS_Subset
<1>6. \A a \in Ips : HoldersOf(a)' = HoldersOf(a)
  <2> SUFFICES ASSUME NEW a \in Ips
               PROVE  HoldersOf(a)' = HoldersOf(a)
    OBVIOUS
  <2>1. \A t \in S : (conn'[t].counted = a /\ ~(conn'[t].closed /\ conn'[t].ip = a))
                      <=> (conn[t].counted = a /\ ~(conn[t].closed /\ conn[t].ip = a))
    BY <1>2
  <2> QED  BY <2>1 DEF HoldersOf
<1>7. SlotsInv'
  BY <1>3, <1>4, <1>5, <1>6 DEF SessionInv, SlotsInv, Sound
<1>8. PresenceTruth'
  <2>1. \A t \in S : /\ conn'[t].said = conn[t].said /\ conn'[t].closed = conn[t].closed
                     /\ conn'[t].worker = conn[t].worker
    BY <1>2
  <2> QED  BY <2>1 DEF SessionInv, PresenceTruth
<1>9. DrainInv'
  <2>1. \A t \in S : conn'[t].closed = conn[t].closed /\ conn'[t].v2 = conn[t].v2 /\ conn'[t].by = conn[t].by
    BY <1>2
  <2> QED  BY <1>1, <2>1, DrainKept DEF SessionInv, process
<1> QED  BY <1>7, <1>8, <1>9 DEF SessionInv

LEMMA RegisterStep ==
  ASSUME SessionInv, NEW s \in S, Register(s)
  PROVE  SessionInv'
<1> DEFINE d == [conn[s] EXCEPT !.at = "registered"]
<1>1. conn \in [S -> Connections] /\ conn[s] \in Connections /\ Sound(conn[s]) /\ conn[s].at = "admitted"
  BY DEF Register, SessionInv, SlotsInv, SessionTypes
<1>2. conn' = [conn EXCEPT ![s] = d]
  BY <1>1 DEF Register
<1>3. d \in Connections
  BY <1>1, ZenonT(60) DEF Connections
<1>4. /\ d.at = "registered" /\ d.counted = conn[s].counted /\ d.ip = conn[s].ip /\ d.closed = conn[s].closed
      /\ d.said = conn[s].said /\ d.worker = conn[s].worker /\ d.stage = conn[s].stage /\ d.v2 = conn[s].v2
      /\ d.tier = conn[s].tier /\ d.by = conn[s].by
  BY <1>1, ZenonT(60) DEF Connections
<1> HIDE DEF d
<1>5. Sound(d)
  BY <1>1, <1>4 DEF Sound
<1>6. /\ mail' = mail /\ open' = open /\ invalid' = invalid /\ bans' = bans /\ presence' = presence
      /\ told' = told /\ shard' = shard \cup {s} /\ UNCHANGED process
  BY DEF Register, limiter
<1> QED  BY <1>1, <1>2, <1>3, <1>4, <1>5, <1>6, ConnectionStep

LEMMA PlaceStep ==
  ASSUME SessionInv, NEW s \in S, Place(s)
  PROVE  SessionInv'
<1> DEFINE d == [conn[s] EXCEPT !.at = "placed"]
<1>1. conn \in [S -> Connections] /\ conn[s] \in Connections /\ Sound(conn[s]) /\ conn[s].at = "registered"
  BY DEF Place, SessionInv, SlotsInv, SessionTypes
<1>2. conn' = [conn EXCEPT ![s] = d]
  BY <1>1 DEF Place
<1>3. d \in Connections
  BY <1>1, ZenonT(60) DEF Connections
<1>4. /\ d.at = "placed" /\ d.counted = conn[s].counted /\ d.ip = conn[s].ip /\ d.closed = conn[s].closed
      /\ d.said = conn[s].said /\ d.worker = conn[s].worker /\ d.stage = conn[s].stage /\ d.v2 = conn[s].v2
      /\ d.tier = conn[s].tier /\ d.by = conn[s].by
  BY <1>1, ZenonT(60) DEF Connections
<1> HIDE DEF d
<1>5. Sound(d)
  BY <1>1, <1>4 DEF Sound
<1>6. /\ mail' = mail /\ open' = open /\ invalid' = invalid /\ bans' = bans /\ presence' = presence
      /\ told' = told /\ shard' = shard /\ UNCHANGED process
  BY DEF Place, limiter
<1> QED  BY <1>1, <1>2, <1>3, <1>4, <1>5, <1>6, ConnectionStep

LEMMA StartStep ==
  ASSUME SessionInv, NEW s \in S, NEW ip \in Ips, NEW gone \in BOOLEAN, Start(s, ip, gone)
  PROVE  SessionInv'
<1> DEFINE c == conn[s]
           a == IF gone \/ c.closed \/ c.counted = Unknown THEN Unknown ELSE ip
           stage == IF c.closed THEN "none" ELSE IF c.tier = "tls" THEN "handshake" ELSE "first"
           tier == IF c.closed THEN "none" ELSE c.tier
           d == [c EXCEPT !.at = "started", !.ip = a, !.stage = stage, !.tier = tier]
<1>1. conn \in [S -> Connections] /\ c \in Connections /\ Sound(c) /\ c.at = "placed"
  BY DEF Start, SessionInv, SlotsInv, SessionTypes
<1>2. conn' = [conn EXCEPT ![s] = d]
  BY DEF Start
<1>3. c.counted # Unknown => ip = c.counted
  BY DEF Start
<1>4. c.tier \in Listeners /\ c.ip = Unset /\ ~c.v2
  BY <1>1 DEF Sound
<1>5. /\ a \in Addresses
      /\ a \in Ips => a = c.counted /\ ~c.closed
  BY <1>3, SessionConstants DEF Addresses
<1>6. /\ stage \in {"none", "handshake", "first"}
      /\ c.closed => stage = "none"
      /\ stage = "first" => tier \in {"v1", "sv2", "noise"}
      /\ tier \in Listeners \cup {"none"}
  BY <1>4 DEF Listeners
<1>7. Unset \notin Ips
  BY SessionConstants
<1> HIDE DEF a, stage, tier, c
<1>8. d \in Connections
  BY <1>1, <1>5, <1>6, ZenonT(60) DEF Connections
<1>9. /\ d.at = "started" /\ d.counted = c.counted /\ d.ip = a /\ d.closed = c.closed
      /\ d.said = c.said /\ d.worker = c.worker /\ d.stage = stage /\ d.v2 = c.v2
      /\ d.tier = tier /\ d.by = c.by
  BY <1>1, ZenonT(60) DEF Connections
<1> HIDE DEF d
<1>10. Sound(d)
  BY <1>4, <1>5, <1>6, <1>9 DEF Sound
<1>11. d.closed => \A x \in Ips : d.ip = x <=> c.ip = x
  BY <1>4, <1>5, <1>7, <1>9
<1>12. /\ mail' = mail /\ open' = open /\ invalid' = invalid /\ bans' = bans /\ presence' = presence
       /\ told' = told /\ shard' = shard /\ UNCHANGED process
  BY DEF Start, limiter
<1> QED  BY <1>1, <1>2, <1>8, <1>9, <1>10, <1>11, <1>12, ConnectionStep DEF c

LEMMA FallsSilentStep ==
  ASSUME SessionInv, NEW s \in S, FallsSilent(s)
  PROVE  SessionInv'
<1> DEFINE d == [conn[s] EXCEPT !.silent = TRUE]
<1>1. conn \in [S -> Connections] /\ conn[s] \in Connections /\ Sound(conn[s]) /\ conn[s].at = "started"
  BY DEF FallsSilent, SessionInv, SlotsInv, SessionTypes
<1>2. conn' = [conn EXCEPT ![s] = d]
  BY <1>1 DEF FallsSilent
<1>3. d \in Connections
  BY <1>1, ZenonT(60) DEF Connections
<1>4. /\ d.at = "started" /\ d.counted = conn[s].counted /\ d.ip = conn[s].ip /\ d.closed = conn[s].closed
      /\ d.said = conn[s].said /\ d.worker = conn[s].worker /\ d.stage = conn[s].stage /\ d.v2 = conn[s].v2
      /\ d.tier = conn[s].tier /\ d.by = conn[s].by
  BY <1>1, ZenonT(60) DEF Connections
<1> HIDE DEF d
<1>5. Sound(d)
  BY <1>1, <1>4 DEF Sound
<1>6. /\ mail' = mail /\ open' = open /\ invalid' = invalid /\ bans' = bans /\ presence' = presence
      /\ told' = told /\ shard' = shard /\ UNCHANGED process
  BY DEF FallsSilent, limiter
<1> QED  BY <1>1, <1>2, <1>3, <1>4, <1>5, <1>6, ConnectionStep

LEMMA AdmitStep ==
  ASSUME SessionInv, NEW s \in S, NEW tier \in Listeners, NEW ip \in Ips, NEW gone \in BOOLEAN,
         Admit(s, tier, ip, gone)
  PROVE  SessionInv'
<1> DEFINE a == IF gone THEN Unknown ELSE ip
           d == [Fresh EXCEPT !.at = "admitted", !.tier = tier, !.counted = a]
<1>1. /\ SessionTypes /\ conn \in [S -> Connections] /\ open \in [Addresses -> 0..MaxOpen]
      /\ drain.list \subseteq S /\ conn[s] = Fresh /\ conn[s].at = "free"
  BY DEF Admit, SessionInv, SlotsInv, SessionTypes, Sound
<1>2. /\ conn' = [conn EXCEPT ![s] = d] /\ open[a] < MaxOpen /\ open' = [open EXCEPT ![a] = @ + 1]
      /\ mail' = mail /\ invalid' = invalid /\ bans' = bans /\ shard' = shard /\ presence' = presence
      /\ told' = told /\ UNCHANGED process
  BY DEF Admit, MayConnect
<1>3. a \in Addresses
  BY DEF Addresses
<1> HIDE DEF a
<1>4. Fresh \in Connections
  BY FreshSound
<1>5. d \in Connections
  BY <1>3, <1>4, ZenonT(60) DEF Connections
<1>6. /\ d.at = "admitted" /\ d.tier = tier /\ d.counted = a
      /\ d.ip = Unset /\ d.closed = FALSE /\ d.said = {} /\ d.stage = "none" /\ d.v2 = FALSE /\ d.by = "none"
  BY DEF Fresh
<1>7. /\ Fresh.ip = Unset /\ Fresh.closed = FALSE /\ Fresh.said = {} /\ Fresh.v2 = FALSE /\ Fresh.by = "none"
      /\ Fresh.counted = Unset
  BY DEF Fresh
<1> HIDE DEF d
<1>8. Sound(d)
  BY <1>6, SessionConstants DEF Sound
<1>9. conn' \in [S -> Connections] /\ conn'[s] = d /\ \A t \in S \ {s} : conn'[t] = conn[t]
  BY <1>1, <1>2, <1>5
<1>10. open' \in [Addresses -> 0..MaxOpen] /\ open'[a] = open[a] + 1 /\ \A x \in Addresses \ {a} : open'[x] = open[x]
  BY <1>1, <1>2, <1>3, SessionConstants
<1>11. SessionTypes'
  <2>1. shard' \subseteq {t \in S : conn'[t].at \in {"registered", "placed", "started"}}
    BY <1>1, <1>2, <1>9 DEF SessionTypes
  <2> QED  BY <1>1, <1>2, <1>9, <1>10, <2>1 DEF SessionTypes, process
<1>12. \A t \in S : Sound(conn'[t])
  BY <1>8, <1>9 DEF SessionInv, SlotsInv
<1>13. IsFiniteSet(Made')
  <2>1. IsFiniteSet(Made)
    BY DEF SessionInv, SlotsInv
  <2>2. IsFiniteSet(Made \cup {s})
    BY <2>1, FS_AddElement
  <2>3. Made' \subseteq Made \cup {s}
    BY <1>9 DEF Made
  <2> QED  BY <2>2, <2>3, FS_Subset
<1>14. ASSUME NEW x \in Ips
       PROVE  open'[x] = Cardinality(HoldersOf(x)')
  <2>1. open[x] = Cardinality(HoldersOf(x)) /\ x \in Addresses
    BY DEF SessionInv, SlotsInv, Addresses
  <2>2. CASE x = a
    <3>1. s \notin HoldersOf(x)
      BY <1>1, <1>7, SessionConstants DEF HoldersOf
    <3>2. HoldersOf(x)' = HoldersOf(x) \cup {s}
      BY <1>6, <1>9, <2>2 DEF HoldersOf
    <3>3. IsFiniteSet(HoldersOf(x))
      BY HoldersFinite DEF SessionInv
    <3>4. Cardinality(HoldersOf(x) \cup {s}) = Cardinality(HoldersOf(x)) + 1
      BY <3>1, <3>3, OneMore
    <3> QED  BY <1>10, <2>1, <2>2, <3>2, <3>4
  <2>3. CASE x # a
    <3>1. HoldersOf(x)' = HoldersOf(x)
      <4>1. conn[s].counted # x
        BY <1>1, <1>7, SessionConstants
      <4> QED  BY <1>6, <1>9, <2>3, <4>1 DEF HoldersOf
    <3> QED  BY <1>10, <2>1, <2>3, <3>1
  <2> QED  BY <2>2, <2>3
<1>15. SlotsInv'
  BY <1>11, <1>12, <1>13, <1>14 DEF SlotsInv, Sound
<1>16. PresenceTruth'
  <2>1. ASSUME NEW n \in Workers, presence[n] = "online"
        PROVE  \E t \in S : n \in conn'[t].said /\ (~conn'[t].closed \/ conn'[t].worker # n)
    <3>1. PICK t \in S : n \in conn[t].said /\ (~conn[t].closed \/ conn[t].worker # n)
      BY <2>1 DEF SessionInv, PresenceTruth
    <3>2. t # s
      BY <1>1, <1>7, <3>1
    <3> QED  BY <1>9, <3>1, <3>2
  <2> QED  BY <1>2, <2>1 DEF PresenceTruth
<1>17. DrainInv'
  <2>1. \A t \in S : conn'[t].closed = conn[t].closed /\ conn'[t].v2 = conn[t].v2 /\ conn'[t].by = conn[t].by
    BY <1>1, <1>6, <1>7, <1>9
  <2> QED  BY <1>1, <1>2, <2>1, DrainKept DEF SessionInv, process
<1> QED  BY <1>15, <1>16, <1>17 DEF SessionInv

(***************************************************************************)
(* Orders from outside, and the drain.                                     *)
(***************************************************************************)

\* Only open sessions are posted to, at the end of what waits for them.
LEMMA PostedFacts ==
  ASSUME mail \in [S -> Seq(Orders)], NEW who, NEW what \in Orders, NEW box, box = Posted(who, what)
  PROVE  /\ box \in [S -> Seq(Orders)]
         /\ \A s \in S : box[s] = mail[s] \/ (s \in who /\ ~conn[s].closed /\ box[s] = Append(mail[s], what))
         /\ \A s \in S : s \in who /\ ~conn[s].closed => \E k \in 1..Len(box[s]) : box[s][k] = what
         /\ \A s \in S : \A k \in 1..Len(mail[s]) : k \in 1..Len(box[s]) /\ box[s][k] = mail[s][k]
         /\ \A s \in S : \A k \in 1..Len(box[s]) :
              k \in 1..Len(mail[s]) \/ (k = Len(mail[s]) + 1 /\ box[s][k] = what /\ s \in who /\ ~conn[s].closed)
<1>1. box = [s \in S |-> IF s \in who /\ ~conn[s].closed /\ ~Waits(s, what) THEN Append(mail[s], what)
                         ELSE mail[s]]
  BY DEF Posted
<1>2. \A s \in S : box[s] = IF s \in who /\ ~conn[s].closed /\ ~Waits(s, what) THEN Append(mail[s], what)
                            ELSE mail[s]
  BY <1>1
<1>3. \A s \in S : mail[s] \in Seq(Orders) /\ Append(mail[s], what) \in Seq(Orders)
  BY AppendProperties
<1>4. box \in [S -> Seq(Orders)]
  BY <1>1, <1>3
<1>5. \A s \in S : Len(mail[s]) \in Nat
  BY <1>3, LenProperties
<1>6. ASSUME NEW s \in S
      PROVE  /\ Len(Append(mail[s], what)) = Len(mail[s]) + 1
             /\ Append(mail[s], what)[Len(mail[s]) + 1] = what
             /\ \A k \in 1..Len(mail[s]) : Append(mail[s], what)[k] = mail[s][k]
  BY <1>3, AppendProperties
<1>7. ASSUME NEW s \in S, s \in who, ~conn[s].closed
      PROVE  \E k \in 1..Len(box[s]) : box[s][k] = what
  <2>1. CASE Waits(s, what)
    BY <1>2, <2>1 DEF Waits
  <2>2. CASE ~Waits(s, what)
    <3>1. box[s] = Append(mail[s], what)
      BY <1>2, <1>7, <2>2
    <3>2. Len(mail[s]) + 1 \in 1..Len(mail[s]) + 1
      BY <1>5
    <3> QED  BY <1>6, <3>1, <3>2
  <2> QED  BY <2>1, <2>2
<1>8. ASSUME NEW s \in S, NEW k \in 1..Len(mail[s])
      PROVE  k \in 1..Len(box[s]) /\ box[s][k] = mail[s][k]
  <2>1. k \in 1..Len(mail[s]) + 1
    BY <1>5
  <2> QED  BY <1>2, <1>6, <2>1
<1>9. ASSUME NEW s \in S, NEW k \in 1..Len(box[s])
      PROVE  k \in 1..Len(mail[s]) \/ (k = Len(mail[s]) + 1 /\ box[s][k] = what /\ s \in who /\ ~conn[s].closed)
  <2>1. CASE box[s] = mail[s]
    BY <2>1
  <2>2. CASE box[s] # mail[s]
    <3>1. box[s] = Append(mail[s], what) /\ s \in who /\ ~conn[s].closed
      BY <1>2, <2>2
    <3>2. k \in 1..Len(mail[s]) + 1
      BY <1>6, <1>9, <3>1
    <3>3. k \in 1..Len(mail[s]) \/ k = Len(mail[s]) + 1
      BY <1>5, <3>2
    <3> QED  BY <1>6, <3>1, <3>3
  <2> QED  BY <2>1, <2>2
<1> QED  BY <1>2, <1>4, <1>7, <1>8, <1>9

\* A step that leaves the sessions alone and only writes to their mail.
LEMMA OutsideSlots ==
  ASSUME SessionInv, NEW who, NEW what \in Orders, mail' = Posted(who, what), SessionTypes' \/ UNCHANGED process,
         conn' = conn, open' = open, invalid' = invalid, bans' = bans, shard' = shard, presence' = presence,
         told' = told
  PROVE  SlotsInv' /\ PresenceTruth'
<1>1. SessionTypes /\ mail \in [S -> Seq(Orders)]
  BY DEF SessionInv, SlotsInv, SessionTypes
<1>2. mail' \in [S -> Seq(Orders)]
  BY <1>1, PostedFacts
<1>3. SessionTypes'
  BY <1>1, <1>2 DEF SessionTypes, process
<1>4. Made' = Made /\ \A a \in Ips : HoldersOf(a)' = HoldersOf(a)
  BY DEF Made, HoldersOf
<1>5. \A t \in S : Sound(conn'[t])
  BY DEF SessionInv, SlotsInv
<1>6. SlotsInv'
  BY <1>3, <1>4, <1>5 DEF SessionInv, SlotsInv, Sound
<1>7. PresenceTruth'
  BY DEF SessionInv, PresenceTruth
<1> QED  BY <1>6, <1>7

\* Closed sessions get nothing, and what waits for the others stays.
LEMMA PostedMail ==
  ASSUME SessionInv, NEW who, NEW what \in Orders, mail' = Posted(who, what), conn' = conn, told' = told
  PROVE  /\ \A t \in S : conn'[t].closed => mail'[t] = << >>
         /\ \A t \in S : Warned(t) => Warned(t)'
         /\ \A t \in S : t \in who => conn'[t].closed \/ Waits(t, what)'
         /\ what # "forced" => \A t \in S : Waits(t, "forced")' => Waits(t, "forced")
<1>1. mail \in [S -> Seq(Orders)]
  BY DEF SessionInv, SlotsInv, SessionTypes
<1>2. /\ \A s \in S : mail'[s] = mail[s] \/ ~conn[s].closed
      /\ \A s \in S : s \in who /\ ~conn[s].closed => \E k \in 1..Len(mail'[s]) : mail'[s][k] = what
      /\ \A s \in S : \A k \in 1..Len(mail[s]) : k \in 1..Len(mail'[s]) /\ mail'[s][k] = mail[s][k]
      /\ \A s \in S : \A k \in 1..Len(mail'[s]) :
           k \in 1..Len(mail[s]) \/ (k = Len(mail[s]) + 1 /\ mail'[s][k] = what /\ s \in who /\ ~conn[s].closed)
  BY <1>1, PostedFacts
<1>3. \A t \in S : conn'[t].closed => mail'[t] = << >>
  BY <1>2 DEF SessionInv, DrainInv
<1>4. \A t \in S : \A x : Waits(t, x) => Waits(t, x)'
  BY <1>2 DEF Waits
<1>5. \A t \in S : Warned(t) => Warned(t)'
  BY <1>4 DEF Warned
<1>6. \A t \in S : t \in who => conn'[t].closed \/ Waits(t, what)'
  BY <1>2 DEF Waits
<1>7. what # "forced" => \A t \in S : Waits(t, "forced")' => Waits(t, "forced")
  BY <1>2 DEF Waits
<1> QED  BY <1>3, <1>5, <1>6, <1>7

\* An order that is not a forced close; the drain goes on as a wave leaves it.
LEMMA OrderedDrain ==
  ASSUME SessionInv, NEW who, NEW what \in {"reconnect", "shutdown"}, mail' = Posted(who, what),
         conn' = conn, told' = told, signals' = signals, drain'.list = drain.list,
         \/ drain' = drain
         \/ /\ drain.step = "waves" /\ drain'.step \in {"waves", "grace"} /\ what = "reconnect"
            /\ drain.left \ drain'.left \subseteq who
            /\ drain'.step = "grace" => drain'.left = {}
  PROVE  DrainInv'
<1>1. /\ mail \in [S -> Seq(Orders)] /\ drain.list \subseteq S /\ DrainInv /\ what \in Orders /\ what # "forced"
  BY DEF SessionInv, SlotsInv, SessionTypes, Orders
<1>2. /\ \A t \in S : conn'[t].closed => mail'[t] = << >>
      /\ \A t \in S : Warned(t) => Warned(t)'
      /\ \A t \in S : t \in who => conn'[t].closed \/ Waits(t, what)'
      /\ \A t \in S : Waits(t, "forced")' => Waits(t, "forced")
  BY <1>1, PostedMail
<1>3. Unforced' => Unforced
  BY DEF Unforced
<1>4. signals' = 0 => drain'.list = {} /\ drain'.step = "off"
  BY <1>1 DEF DrainInv
<1>5. Unforced' => \A t \in S : conn'[t].by # "forced" /\ ~Waits(t, "forced")'
  BY <1>1, <1>2, <1>3 DEF DrainInv
<1>6. Unforced' => \A t \in drain'.list \ drain'.left : Warned(t)'
  <2> SUFFICES ASSUME Unforced, NEW t \in drain.list, t \notin drain'.left
               PROVE  Warned(t)'
    BY <1>3
  <2>1. CASE t \notin drain.left
    BY <1>1, <1>2, <2>1 DEF DrainInv
  <2>2. CASE t \in drain.left
    <3>1. t \in who /\ what = "reconnect" /\ t \in S
      BY <1>1, <2>2
    <3> QED  BY <1>2, <3>1 DEF Warned
  <2> QED  BY <2>1, <2>2
<1>7. drain'.step = "grace" => drain'.left = {}
  BY <1>1 DEF DrainInv
<1>8. signals' = 1 => \A t \in drain'.list : \A k \in 1..Len(mail'[t]) : mail'[t][k] = "forced"
         => t \in told' \/ conn'[t].v2 \/ \E j \in 1..k - 1 : mail'[t][j] = "reconnect"
  <2> SUFFICES ASSUME signals = 1, NEW t \in drain.list, NEW k \in 1..Len(mail'[t]), mail'[t][k] = "forced"
               PROVE  t \in told \/ conn[t].v2 \/ \E j \in 1..k - 1 : mail'[t][j] = "reconnect"
    OBVIOUS
  <2>1. /\ t \in S
        /\ \A i \in 1..Len(mail[t]) : mail'[t][i] = mail[t][i]
        /\ k \in 1..Len(mail[t])
        /\ Len(mail[t]) \in Nat
    BY <1>1, PostedFacts, LenProperties
  <2>2. t \in told \/ conn[t].v2 \/ \E j \in 1..k - 1 : mail[t][j] = "reconnect"
    BY <1>1, <2>1 DEF DrainInv
  <2>3. \A j \in 1..k - 1 : j \in 1..Len(mail[t])
    BY <2>1
  <2> QED  BY <2>1, <2>2, <2>3
<1>9. ToldBeforeForced'
  BY <1>1 DEF DrainInv, ToldBeforeForced
<1> QED  BY <1>2, <1>4, <1>5, <1>6, <1>7, <1>8, <1>9 DEF DrainInv

LEMMA IdleSweepStep ==
  ASSUME SessionInv, IdleSweep
  PROVE  SessionInv'
<1>1. /\ mail' = Posted(Victims, "shutdown") /\ UNCHANGED process /\ conn' = conn /\ told' = told
      /\ open' = open /\ invalid' = invalid /\ bans' = bans /\ shard' = shard /\ presence' = presence
      /\ drain' = drain /\ signals' = signals
  BY DEF IdleSweep, limiter, process
<1>2. "shutdown" \in Orders /\ "shutdown" \in {"reconnect", "shutdown"}
  BY DEF Orders
<1>3. SlotsInv' /\ PresenceTruth'
  BY <1>1, <1>2, OutsideSlots
<1>4. DrainInv'
  BY <1>1, <1>2, OrderedDrain
<1> QED  BY <1>3, <1>4 DEF SessionInv

LEMMA OrderStep ==
  ASSUME SessionInv, NEW who, NEW what \in {"reconnect", "shutdown"}, Order(who, what)
  PROVE  SessionInv'
<1>1. /\ mail' = Posted(who, what) /\ UNCHANGED process /\ conn' = conn /\ told' = told
      /\ open' = open /\ invalid' = invalid /\ bans' = bans /\ shard' = shard /\ presence' = presence
      /\ drain' = drain /\ signals' = signals
  BY DEF Order, limiter, process
<1>2. what \in Orders
  BY DEF Orders
<1>3. SlotsInv' /\ PresenceTruth'
  BY <1>1, <1>2, OutsideSlots
<1>4. DrainInv'
  BY <1>1, OrderedDrain
<1> QED  BY <1>3, <1>4 DEF SessionInv

LEMMA WaveStep ==
  ASSUME SessionInv, NEW wave, Wave(wave)
  PROVE  SessionInv'
<1> DEFINE rest == drain.left \ wave
           next == IF rest = {} THEN "grace" ELSE "waves"
<1>1. /\ mail' = Posted(wave, "reconnect") /\ conn' = conn /\ told' = told
      /\ open' = open /\ invalid' = invalid /\ bans' = bans /\ shard' = shard /\ presence' = presence
      /\ signals' = signals /\ listening' = listening /\ up' = up
      /\ drain.step = "waves" /\ drain' = [drain EXCEPT !.left = rest, !.step = next]
  BY DEF Wave, Tell, limiter
<1>2. "reconnect" \in Orders /\ "reconnect" \in {"reconnect", "shutdown"}
  BY DEF Orders
<1>3. /\ SessionTypes /\ mail \in [S -> Seq(Orders)]
      /\ drain \in [step : {"off", "waves", "grace", "stopping"}, list : SUBSET S, left : SUBSET S]
      /\ drain.left \subseteq drain.list /\ drain.list \subseteq S
  BY DEF SessionInv, SlotsInv, SessionTypes
<1>4. /\ rest \subseteq drain.left /\ next \in {"waves", "grace"}
      /\ next = "grace" => rest = {}
      /\ drain.left \ rest \subseteq wave
  OBVIOUS
<1> HIDE DEF rest, next
<1>5. drain'.list = drain.list /\ drain'.left = rest /\ drain'.step = next
  BY <1>1, <1>3
<1>6. drain' \in [step : {"off", "waves", "grace", "stopping"}, list : SUBSET S, left : SUBSET S]
  BY <1>1, <1>3, <1>4
<1>7. mail' \in [S -> Seq(Orders)]
  BY <1>1, <1>2, <1>3, PostedFacts
<1>8. SessionTypes'
  BY <1>1, <1>3, <1>4, <1>5, <1>6, <1>7 DEF SessionTypes
<1>9. SlotsInv' /\ PresenceTruth'
  BY <1>1, <1>2, <1>8, OutsideSlots
<1>10. DrainInv'
  BY <1>1, <1>2, <1>4, <1>5, OrderedDrain
<1> QED  BY <1>9, <1>10 DEF SessionInv

\* The end: every session still there is told to close.
LEMMA StopAllTypes ==
  ASSUME SessionInv, NEW list, StopAll(list), signals' \in 0..2, UNCHANGED <<conn, limiter, shard, presence, up, told>>
  PROVE  /\ SlotsInv' /\ PresenceTruth'
         /\ drain'.list = drain.list /\ drain'.left = drain.left /\ drain'.step = "stopping"
         /\ mail' = Posted(list \cup shard, "forced")
<1>1. /\ mail' = Posted(list \cup shard, "forced") /\ conn' = conn /\ told' = told
      /\ open' = open /\ invalid' = invalid /\ bans' = bans /\ shard' = shard /\ presence' = presence
      /\ listening' = FALSE /\ up' = up /\ drain' = [drain EXCEPT !.step = "stopping"]
  BY DEF StopAll, limiter
<1>2. "forced" \in Orders
  BY DEF Orders
<1>3. /\ SessionTypes /\ mail \in [S -> Seq(Orders)]
      /\ drain \in [step : {"off", "waves", "grace", "stopping"}, list : SUBSET S, left : SUBSET S]
  BY DEF SessionInv, SlotsInv, SessionTypes
<1>4. /\ drain' \in [step : {"off", "waves", "grace", "stopping"}, list : SUBSET S, left : SUBSET S]
      /\ drain'.list = drain.list /\ drain'.left = drain.left /\ drain'.step = "stopping"
  BY <1>1, <1>3
<1>5. mail' \in [S -> Seq(Orders)]
  BY <1>1, <1>2, <1>3, PostedFacts
<1>6. SessionTypes'
  BY <1>1, <1>3, <1>4, <1>5 DEF SessionTypes
<1>7. SlotsInv' /\ PresenceTruth'
  BY <1>1, <1>2, <1>6, OutsideSlots
<1> QED  BY <1>1, <1>4, <1>7

LEMMA FirstSignalStep ==
  ASSUME SessionInv, FirstSignal
  PROVE  SessionInv'
<1>1. /\ SessionTypes /\ DrainInv /\ mail \in [S -> Seq(Orders)] /\ shard \subseteq S
  BY DEF SessionInv, SlotsInv, SessionTypes
<1>2. /\ signals = 0 /\ signals' = 1 /\ UNCHANGED <<conn, limiter, shard, presence, up, told>>
      /\ conn' = conn /\ told' = told /\ shard' = shard
      /\ open' = open /\ invalid' = invalid /\ bans' = bans /\ presence' = presence /\ up' = up
  BY DEF FirstSignal, limiter
<1>3. /\ drain.list = {}
      /\ \A s \in S : conn[s].by # "forced" /\ ~Waits(s, "forced")
      /\ \A s \in S : conn[s].closed => mail[s] = << >>
  BY <1>1, <1>2 DEF DrainInv, Unforced
<1>4. CASE DrainOn
  <2>1. /\ drain' = [step |-> "waves", list |-> shard, left |-> shard] /\ listening' = FALSE /\ mail' = mail
    BY <1>4 DEF FirstSignal
  <2>2. drain'.list = shard /\ drain'.left = shard /\ drain'.step = "waves"
    BY <2>1
  <2>3. SessionTypes'
    <3>1. drain' \in [step : {"off", "waves", "grace", "stopping"}, list : SUBSET S, left : SUBSET S]
      BY <1>1, <2>1
    <3>2. mail' = mail /\ listening' = FALSE /\ signals' \in 0..2
      BY <1>2, <2>1
    <3>3. drain'.left \subseteq drain'.list
      BY <2>2
    <3> QED  BY <1>1, <1>2, <3>1, <3>2, <3>3 DEF SessionTypes
  <2>4. Made' = Made /\ \A a \in Ips : HoldersOf(a)' = HoldersOf(a)
    BY <1>2 DEF Made, HoldersOf
  <2>5. \A t \in S : Sound(conn'[t])
    BY <1>2 DEF SessionInv, SlotsInv
  <2>6. SlotsInv'
    BY <1>2, <2>3, <2>4, <2>5 DEF SessionInv, SlotsInv, Sound
  <2>7. PresenceTruth'
    BY <1>2 DEF SessionInv, PresenceTruth
  <2>8. \A s \in S : conn'[s].by # "forced" /\ ~Waits(s, "forced")'
    BY <1>2, <1>3, <2>1 DEF Waits
  <2>9. ToldBeforeForced'
    BY <1>1, <2>2, <2>8 DEF ToldBeforeForced
  <2>10. \A t \in drain'.list : \A k \in 1..Len(mail'[t]) : mail'[t][k] # "forced"
    BY <1>1, <2>2, <2>8 DEF Waits
  <2>11. DrainInv'
    BY <1>2, <1>3, <2>1, <2>2, <2>8, <2>9, <2>10 DEF DrainInv
  <2> QED  BY <2>6, <2>7, <2>11 DEF SessionInv
<1>5. CASE ~DrainOn
  <2>1. StopAll({})
    BY <1>5 DEF FirstSignal
  <2>2. /\ SlotsInv' /\ PresenceTruth'
        /\ drain'.list = {} /\ drain'.left = drain.left /\ drain'.step = "stopping"
        /\ mail' = Posted({} \cup shard, "forced")
    <3>1. signals' \in 0..2
      BY <1>2
    <3> QED  BY <1>2, <1>3, <2>1, <3>1, StopAllTypes
  <2>3. \A t \in S : conn'[t].closed => mail'[t] = << >>
    BY <1>2, <2>2, PostedMail DEF Orders
  <2>4. ~Unforced' /\ ToldBeforeForced'
    BY <1>2, <2>2 DEF Unforced, ToldBeforeForced
  <2>5. DrainInv'
    BY <1>2, <2>2, <2>3, <2>4 DEF DrainInv
  <2> QED  BY <2>2, <2>5 DEF SessionInv
<1> QED  BY <1>4, <1>5

LEMMA SecondSignalStep ==
  ASSUME SessionInv, SecondSignal
  PROVE  SessionInv'
<1>1. /\ signals' = 2 /\ StopAll({}) /\ UNCHANGED <<conn, limiter, shard, presence, up, told>>
      /\ conn' = conn /\ told' = told
  BY DEF SecondSignal
<1>2. /\ SlotsInv' /\ PresenceTruth' /\ drain'.step = "stopping"
      /\ mail' = Posted({} \cup shard, "forced")
  BY <1>1, StopAllTypes
<1>3. \A t \in S : conn'[t].closed => mail'[t] = << >>
  BY <1>1, <1>2, PostedMail DEF Orders
<1>4. ~Unforced' /\ ToldBeforeForced'
  BY <1>1, <1>2 DEF Unforced, ToldBeforeForced
<1>5. DrainInv'
  BY <1>1, <1>2, <1>3, <1>4 DEF DrainInv
<1> QED  BY <1>2, <1>5 DEF SessionInv

LEMMA GraceEndsStep ==
  ASSUME SessionInv, GraceEnds
  PROVE  SessionInv'
<1> DEFINE list == drain.list
<1>1. /\ drain.step = "grace" /\ StopAll(list) /\ UNCHANGED <<conn, limiter, shard, presence, up, told>>
      /\ conn' = conn /\ told' = told /\ signals' = signals
  BY DEF GraceEnds
<1>2. /\ mail \in [S -> Seq(Orders)] /\ list \subseteq S /\ DrainInv /\ signals \in 0..2
  BY DEF SessionInv, SlotsInv, SessionTypes
<1>3. /\ SlotsInv' /\ PresenceTruth' /\ drain'.list = list /\ drain'.step = "stopping"
      /\ mail' = Posted(list \cup shard, "forced")
  BY <1>1, <1>2, StopAllTypes
<1>4. \A t \in S : conn'[t].closed => mail'[t] = << >>
  BY <1>1, <1>3, PostedMail DEF Orders
<1>5. signals # 0
  BY <1>1, <1>2 DEF DrainInv
<1>6. ~Unforced'
  BY <1>1, <1>3, <1>5 DEF Unforced
<1>7. ToldBeforeForced'
  BY <1>1, <1>2, <1>3 DEF DrainInv, ToldBeforeForced
<1>8. signals' = 1 => \A t \in drain'.list : \A k \in 1..Len(mail'[t]) : mail'[t][k] = "forced"
         => t \in told' \/ conn'[t].v2 \/ \E j \in 1..k - 1 : mail'[t][j] = "reconnect"
  <2> SUFFICES ASSUME signals = 1, NEW t \in list, NEW k \in 1..Len(mail'[t]), mail'[t][k] = "forced"
               PROVE  t \in told \/ conn[t].v2 \/ \E j \in 1..k - 1 : mail'[t][j] = "reconnect"
    BY <1>1, <1>3
  <2>1. Unforced /\ drain.left = {} /\ t \in S
    BY <1>1, <1>2 DEF Unforced, DrainInv
  <2>2. Warned(t) /\ \A i \in 1..Len(mail[t]) : mail[t][i] # "forced"
    BY <1>2, <2>1 DEF DrainInv, Waits
  <2>3. /\ \A i \in 1..Len(mail[t]) : mail'[t][i] = mail[t][i]
        /\ k \in 1..Len(mail[t]) \/ (k = Len(mail[t]) + 1 /\ ~conn[t].closed)
        /\ Len(mail[t]) \in Nat
    BY <1>2, <1>3, <2>1, PostedFacts, LenProperties DEF Orders
  <2>4. k = Len(mail[t]) + 1 /\ ~conn[t].closed
    BY <2>2, <2>3
  <2>5. \A i \in 1..Len(mail[t]) : i \in 1..k - 1
    BY <2>3, <2>4
  <2> QED  BY <2>2, <2>3, <2>4, <2>5 DEF Warned, Waits
<1>9. DrainInv'
  BY <1>1, <1>3, <1>4, <1>5, <1>6, <1>7, <1>8 DEF DrainInv
<1> QED  BY <1>3, <1>9 DEF SessionInv

\* Steps that leave the sessions, their mail, the slots and the drain alone.
LEMMA AsideStep ==
  ASSUME SessionInv, conn' = conn, mail' = mail, open' = open, shard' = shard, presence' = presence,
         drain' = drain, signals' = signals, listening' = listening, told' = told,
         invalid' \in [Addresses -> 0..BanAt - 1], bans' \subseteq Addresses, up' \in BOOLEAN
  PROVE  SessionInv'
<1>1. SessionTypes /\ drain.list \subseteq S
  BY DEF SessionInv, SlotsInv, SessionTypes
<1>2. SessionTypes'
  BY <1>1 DEF SessionTypes
<1>3. Made' = Made /\ \A a \in Ips : HoldersOf(a)' = HoldersOf(a)
  BY DEF Made, HoldersOf
<1>4. \A t \in S : Sound(conn'[t])
  BY DEF SessionInv, SlotsInv
<1>5. SlotsInv'
  BY <1>2, <1>3, <1>4 DEF SessionInv, SlotsInv, Sound
<1>6. PresenceTruth'
  BY DEF SessionInv, PresenceTruth
<1>7. DrainInv'
  BY <1>1, DrainKept DEF SessionInv
<1> QED  BY <1>5, <1>6, <1>7 DEF SessionInv

LEMMA ClocksStep ==
  ASSUME SessionInv, NEW a \in Addresses, BanLapses(a) \/ WindowLapses(a) \/ Halt \/ UNCHANGED sessionVars
  PROVE  SessionInv'
<1>1. invalid \in [Addresses -> 0..BanAt - 1] /\ bans \subseteq Addresses /\ up \in BOOLEAN
  BY DEF SessionInv, SlotsInv, SessionTypes
<1>2. CASE BanLapses(a)
  <2>1. /\ conn' = conn /\ mail' = mail /\ open' = open /\ shard' = shard /\ presence' = presence
        /\ drain' = drain /\ signals' = signals /\ listening' = listening /\ up' = up /\ told' = told
        /\ invalid' = invalid /\ bans' \subseteq bans
    BY <1>2 DEF BanLapses, process
  <2> QED  BY <1>1, <2>1, AsideStep
<1>3. CASE WindowLapses(a)
  <2>1. /\ conn' = conn /\ mail' = mail /\ open' = open /\ shard' = shard /\ presence' = presence
        /\ drain' = drain /\ signals' = signals /\ listening' = listening /\ up' = up /\ told' = told
        /\ bans' = bans /\ invalid' = [invalid EXCEPT ![a] = 0]
    BY <1>3 DEF WindowLapses, process
  <2>2. invalid' \in [Addresses -> 0..BanAt - 1]
    BY <1>1, <2>1, SessionConstants
  <2> QED  BY <1>1, <2>1, <2>2, AsideStep
<1>4. CASE Halt
  <2>1. /\ conn' = conn /\ mail' = mail /\ open' = open /\ shard' = shard /\ presence' = presence
        /\ drain' = drain /\ signals' = signals /\ listening' = listening /\ up' = FALSE /\ told' = told
        /\ bans' = bans /\ invalid' = invalid
    BY <1>4 DEF Halt, limiter
  <2> QED  BY <1>1, <2>1, AsideStep
<1>5. CASE UNCHANGED sessionVars
  <2>1. /\ conn' = conn /\ mail' = mail /\ open' = open /\ shard' = shard /\ presence' = presence
        /\ drain' = drain /\ signals' = signals /\ listening' = listening /\ up' = up /\ told' = told
        /\ bans' = bans /\ invalid' = invalid
    BY <1>5 DEF sessionVars
  <2> QED  BY <1>1, <2>1, AsideStep
<1> QED  BY <1>2, <1>3, <1>4, <1>5

(***************************************************************************)
(* The theorems.                                                           *)
(***************************************************************************)

LEMMA SessionStart ==
  ASSUME SessionInit
  PROVE  SessionInv
<1>1. \A s \in S : conn[s] = Fresh /\ mail[s] = << >>
  BY DEF SessionInit
<1>2. /\ Fresh.at = "free" /\ Fresh.counted = Unset /\ Fresh.by = "none" /\ Fresh.closed = FALSE
      /\ Fresh \in Connections /\ Sound(Fresh)
  BY FreshSound DEF Fresh
<1>3. conn \in [S -> Connections] /\ mail \in [S -> Seq(Orders)]
  BY <1>2 DEF SessionInit
<1>4. /\ open \in [Addresses -> 0..MaxOpen] /\ invalid \in [Addresses -> 0..BanAt - 1]
      /\ presence \in [Names -> {"none", "online", "offline"}]
  BY SessionConstants DEF SessionInit
<1>5. drain.list = {} /\ drain.left = {} /\ drain.step = "off" /\ signals = 0
  BY DEF SessionInit
<1>6. drain \in [step : {"off", "waves", "grace", "stopping"}, list : SUBSET S, left : SUBSET S]
  BY DEF SessionInit
<1>7. SessionTypes
  BY <1>3, <1>4, <1>5, <1>6 DEF SessionTypes, SessionInit
<1>8. Made = {}
  BY <1>1, <1>2 DEF Made
<1>9. \A a \in Ips : HoldersOf(a) = {} /\ open[a] = 0
  BY <1>1, <1>2, SessionConstants DEF HoldersOf, SessionInit, Addresses
<1>10. Cardinality({}) = 0 /\ IsFiniteSet({})
  BY FS_EmptySet
<1>11. SlotsInv
  BY <1>1, <1>2, <1>7, <1>8, <1>9, <1>10 DEF SlotsInv
<1>12. PresenceTruth
  BY DEF PresenceTruth, SessionInit, Names
<1>13. DrainInv
  <2>1. \A s \in S : Len(mail[s]) = 0
    BY <1>1
  <2>2. \A s \in S : ~Waits(s, "forced")
    BY <2>1 DEF Waits
  <2> QED  BY <1>1, <1>2, <1>5, <2>2 DEF DrainInv, ToldBeforeForced
<1> QED  BY <1>11, <1>12, <1>13 DEF SessionInv

LEMMA SessionKept ==
  ASSUME SessionInv, [SessionNext]_sessionVars
  PROVE  SessionInv'
<1>a. Unknown \in Addresses
  BY DEF Addresses
<1>1. CASE Accepting
  <2>1. PICK s \in S : \/ \E tier \in TiersOf[s], ip \in Ips, gone \in BOOLEAN : Admit(s, tier, ip, gone)
                       \/ Register(s) \/ Place(s)
                       \/ \E ip \in Ips, gone \in BOOLEAN : Start(s, ip, gone)
    BY <1>1 DEF Accepting
  <2>2. \A tier \in TiersOf[s] : tier \in Listeners
    BY SessionConstants
  <2> QED  BY <2>1, <2>2, AdmitStep, RegisterStep, PlaceStep, StartStep
<1>2. CASE \E s \in S : Session(s)
  <2>1. PICK s \in S : Session(s)
    BY <1>2
  <2> QED  BY <2>1, HandshakeStep, FirstByteStep, ReadFailsStep, OnReadStep, OnFramesStep, AuthAnswerStep,
              FallsSilentStep, RunMailStep DEF Session
<1>3. CASE Outside
  BY <1>3, <1>a, ClocksStep, IdleSweepStep, OrderStep, FirstSignalStep, SecondSignalStep, WaveStep, GraceEndsStep
     DEF Outside
<1>4. CASE Ended \/ UNCHANGED sessionVars
  BY <1>4, <1>a, ClocksStep DEF Ended
<1> QED  BY <1>1, <1>2, <1>3, <1>4 DEF SessionNext

\* The inductive invariant holds in every state.
LEMMA SessionAlways == SessionSpec => []SessionInv
BY SessionStart, SessionKept, PTL DEF SessionSpec

\* Types included: for any sessions, listeners, addresses, limits and reads the slots
\* taken of an address are those of the connections that hold one, whichever of the
\* ways a connection ends, and in whatever order (on_disconnect_local, allow_connection).
THEOREM SlotsGivenBack == SessionSpec => []SlotsExact
<1>1. SessionInv => SlotsExact
  BY DEF SessionInv, SlotsInv, SlotsExact, HoldersOf
<1> QED  BY <1>1, SessionAlways, PTL

\* However late the node answers, for any sessions and names, a name left online
\* belongs to an open connection, or to one that took another name after it
\* (handle_authorize, on_disconnect_local).
THEOREM NobodyAnnounced == SessionSpec => []PresenceTruth
<1>1. SessionInv => PresenceTruth
  BY DEF SessionInv
<1> QED  BY <1>1, SessionAlways, PTL

\* However the waves interleave with the strands, for any number of sessions, the end
\* of a drain closes no V1 miner of the snapshot that was not told to reconnect
\* (scheduleDrainWave, stop).
THEOREM MinersTold == SessionSpec => []ToldBeforeForced
<1>1. SessionInv => ToldBeforeForced
  BY DEF SessionInv, DrainInv
<1> QED  BY <1>1, SessionAlways, PTL
=============================================================================
