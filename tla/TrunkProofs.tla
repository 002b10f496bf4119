---------------------------- MODULE TrunkProofs ----------------------------
(***************************************************************************)
(* What holds of the trunk for every set of miners and every bound: both   *)
(* ends agree on who is connected, and a miner's lines arrive in order,    *)
(* once and complete.                                                      *)
(***************************************************************************)
EXTENDS Trunk, SequenceTheorems, TLAPS

(***************************************************************************)
(* A miner's frames in a queue.                                            *)
(***************************************************************************)

Has(q, t, c) == \E i \in 1..Len(q) : q[i].t = t /\ q[i].cid = c

\* The announcement of miner c comes before its other frames, and its lines, up to
\* line n, are in order.
Ordered(q, c, n) ==
  /\ \A i, j \in 1..Len(q) : (q[i].t = "open" /\ q[i].cid = c /\ q[j].cid = c) => i <= j
  /\ \A i, j \in 1..Len(q) :
       (i < j /\ q[i].t = "data" /\ q[j].t = "data" /\ q[i].cid = c /\ q[j].cid = c) => q[i].line < q[j].line
  /\ \A i \in 1..Len(q) : (q[i].t = "data" /\ q[i].cid = c) => q[i].line <= n

\* The lines of miner c in q are those after the first b, and none up to line n is missing.
Complete(q, c, b, n) ==
  /\ b <= n
  /\ \A i \in 1..Len(q) : (q[i].t = "data" /\ q[i].cid = c) => b < q[i].line
  /\ \A k \in (b + 1)..n : \E i \in 1..Len(q) : q[i].t = "data" /\ q[i].cid = c /\ q[i].line = k

\* q and r tell the same of miner c.
Same(q, r, c) ==
  /\ \A t \in {"open", "data", "close"} : Has(q, t, c) <=> Has(r, t, c)
  /\ \A n \in Nat : Ordered(q, c, n) <=> Ordered(r, c, n)
  /\ \A b, n \in Nat : Complete(q, c, b, n) <=> Complete(r, c, b, n)

\* r is q without the n frames after the k-th.
Cut(r, q, k, n) ==
  /\ k \in Nat /\ n \in Nat /\ k + n <= Len(q) /\ Len(r) = Len(q) - n
  /\ \A i \in 1..Len(r) : r[i] = IF i <= k THEN q[i] ELSE q[i + n]

(***************************************************************************)
(* The inductive invariant.                                                *)
(***************************************************************************)

\* What the miners send, in the order the origin will read it.
Pipeline == up \o (out \o posted)

MinerFrames == [t : {"open", "data", "close"}, cid : Miners, line : Nat]
UpFrames == MinerFrames \cup {Word("hello")}
DownFrames == [t : {"data", "close"}, cid : Miners, line : Nat]
                \cup [t : {"block"}, cid : {Nobody}, line : Nat] \cup {Word("welcome")}
Edges == [at : {"new", "open", "closed"}, shut : BOOLEAN, dropped : BOOLEAN, discarded : BOOLEAN,
          sent : Nat, said : Nat, heard : Nat]
Bridges == [at : {"none", "connecting", "connected"}, pending : Seq(Nat)]

Types ==
  /\ running \in BOOLEAN /\ conn \in {"down", "dialing", "up", "closing"} /\ welcomed \in BOOLEAN
  /\ sessions \in SUBSET Miners
  /\ posted \in Seq(MinerFrames) /\ out \in Seq(MinerFrames)
  /\ up \in Seq(UpFrames) /\ down \in Seq(DownFrames)
  /\ E \in [Miners -> Edges] /\ hello \in BOOLEAN
  /\ bridge \in [Miners -> Bridges] /\ got \in [Miners -> Seq(Nat)]
  /\ blocks \in [found : Nat, submitted : Nat] /\ drops \in 0..MaxDrops

\* Only a live connection carries frames and has bridges, and only before the welcome
\* are frames kept.
Wire ==
  /\ conn # "up" => up = <<>> /\ down = <<>> /\ ~hello /\ bridge = [c \in Miners |-> NoBridge]
  /\ (welcomed \/ ~running) => out = <<>>
  /\ ~running => conn \in {"closing", "down"}
  /\ welcomed => conn \in {"up", "closing"}

Caps ==
  /\ Len(out) <= OutCap
  /\ \A c \in Miners : Len(bridge[c].pending) <= PendCap

\* The blocks in d are numbered upwards, from the one after the s-th to the n-th.
Numbered(d, s, n) ==
  /\ \A i \in 1..Len(d) : d[i].t = "block" => s < d[i].line /\ d[i].line <= n
  /\ \A i, j \in 1..Len(d) : (i < j /\ d[i].t = "block" /\ d[j].t = "block") => d[i].line < d[j].line

\* The edge's node has not been given the blocks that are on their way to it.
BlocksInOrder ==
  /\ blocks.found <= MaxBlocks /\ blocks.submitted <= blocks.found
  /\ Numbered(down, blocks.submitted, blocks.found)

\* The announcement of miner c is on its way; it has a bridge; the origin closed that.
Announced(c) == Has(Pipeline, "open", c)
Bridged(c) == bridge[c].at # "none"
ClosedThere(c) == Has(down, "close", c)

\* A miner that has not attached has left no trace.
Unseen(c) ==
  E[c].at = "new" => /\ ~Has(Pipeline, "open", c) /\ ~Has(Pipeline, "data", c) /\ ~Has(Pipeline, "close", c)
                     /\ ~Bridged(c) /\ ~ClosedThere(c) /\ got[c] = <<>> /\ E[c].sent = 0

\* What the origin has read of miner c, and keeps for it.
Base(c) == Len(got[c]) + Len(bridge[c].pending)
Read(c) ==
  /\ \A i \in 1..Len(got[c]) : got[c][i] = i
  /\ \A i \in 1..Len(bridge[c].pending) : bridge[c].pending[i] = Len(got[c]) + i
  /\ bridge[c].at # "connecting" => bridge[c].pending = <<>>

\* Once its announcement is on its way or its bridge is there, every line is accounted for.
Lines(c) ==
  /\ Ordered(Pipeline, c, E[c].sent)
  /\ Announced(c) => ~Bridged(c) /\ got[c] = <<>>
  /\ (Announced(c) \/ Bridged(c)) => Complete(Pipeline, c, Base(c), E[c].sent)

\* A registered miner is announced or bridged, or something on its way will take it off.
Registered(c) ==
  c \in sessions =>
    /\ E[c].at = "open" /\ ~Has(Pipeline, "close", c)
    /\ (running /\ conn # "closing") => Announced(c) \/ Bridged(c) \/ ClosedThere(c)

\* One that is not has been shut down or is gone, and the origin knows or will be told.
Unregistered(c) ==
  c \notin sessions =>
    /\ E[c].at = "open" => E[c].shut
    /\ E[c].dropped \/ Has(Pipeline, "close", c) \/ (~Announced(c) /\ ~Bridged(c))

MinerInv(c) ==
  /\ Unseen(c)
  /\ ~E[c].discarded => /\ Read(c) /\ Lines(c) /\ Registered(c) /\ Unregistered(c)
                        /\ ClosedThere(c) => ~Announced(c) /\ ~Bridged(c)

Inv == Types /\ Wire /\ Caps /\ BlocksInOrder /\ \A c \in Miners : MinerInv(c)

(***************************************************************************)
(* Queues.                                                                 *)
(***************************************************************************)

LEMMA UpFields ==
  ASSUME NEW q \in Seq(UpFrames), NEW i \in 1..Len(q)
  PROVE /\ q[i] \in UpFrames /\ q[i].line \in Nat
        /\ q[i].t \in {"open", "data", "close"} => q[i].cid \in Miners
        /\ q[i].t \in {"hello", "open", "data", "close"}
        /\ q[i].cid \in Miners => q[i].t \in {"open", "data", "close"}
<1>1. q[i] \in UpFrames  OBVIOUS
<1>2. CASE q[i] \in MinerFrames  BY <1>2, <1>1 DEF MinerFrames
<1>3. CASE q[i] = Word("hello")  BY <1>3, <1>1, TrunkConstants DEF Word, Frame
<1>4. QED  BY <1>1, <1>2, <1>3 DEF UpFrames

\* Nothing new is in a part of a queue, and it is in the same order.
LEMMA CutPart ==
  ASSUME NEW q \in Seq(UpFrames), NEW r \in Seq(UpFrames), NEW k, NEW n, Cut(r, q, k, n), NEW c
  PROVE /\ \A t : Has(r, t, c) => Has(q, t, c)
        /\ \A m : Ordered(q, c, m) => Ordered(r, c, m)
<1>1. k \in Nat /\ n \in Nat /\ k + n <= Len(q) /\ Len(r) = Len(q) - n /\ Len(q) \in Nat /\ Len(r) \in Nat
  BY DEF Cut
<1> DEFINE at(i) == IF i <= k THEN i ELSE i + n
<1>2. \A i \in 1..Len(r) : at(i) \in 1..Len(q) /\ r[i] = q[at(i)]
  BY <1>1, SMTT(40) DEF Cut
<1>3. \A i, j \in 1..Len(r) : (i < j <=> at(i) < at(j)) /\ (i <= j <=> at(i) <= at(j))
  BY <1>1
<1> HIDE DEF at
<1>4. ASSUME NEW t, Has(r, t, c) PROVE Has(q, t, c)
  BY <1>2, <1>4 DEF Has
<1>5. ASSUME NEW m, Ordered(q, c, m) PROVE Ordered(r, c, m)
  <2>1. \A i, j \in 1..Len(r) : (r[i].t = "open" /\ r[i].cid = c /\ r[j].cid = c) => i <= j
    BY <1>2, <1>3, <1>5, SMTT(40) DEF Ordered
  <2>2. \A i, j \in 1..Len(r) :
          (i < j /\ r[i].t = "data" /\ r[j].t = "data" /\ r[i].cid = c /\ r[j].cid = c) => r[i].line < r[j].line
    BY <1>2, <1>3, <1>5, SMTT(40) DEF Ordered
  <2>3. \A i \in 1..Len(r) : (r[i].t = "data" /\ r[i].cid = c) => r[i].line <= m
    BY <1>2, <1>5 DEF Ordered
  <2>4. QED  BY <2>1, <2>2, <2>3 DEF Ordered
<1>6. QED  BY <1>4, <1>5

\* Frames of others say nothing of miner c.
LEMMA CutOthers ==
  ASSUME NEW q \in Seq(UpFrames), NEW r \in Seq(UpFrames), NEW k, NEW n, Cut(r, q, k, n), NEW c,
         \A j \in (k + 1)..(k + n) : q[j].cid # c
  PROVE Same(q, r, c) /\ Same(r, q, c)
<1>1. k \in Nat /\ n \in Nat /\ k + n <= Len(q) /\ Len(r) = Len(q) - n /\ Len(q) \in Nat /\ Len(r) \in Nat
  BY DEF Cut
<1> DEFINE at(i) == IF i <= k THEN i ELSE i + n
<1> DEFINE of(j) == IF j <= k THEN j ELSE j - n
<1>2. \A i \in 1..Len(r) : at(i) \in 1..Len(q) /\ r[i] = q[at(i)]
  BY <1>1, SMTT(40) DEF Cut
<1>3. \A j \in 1..Len(q) : q[j].cid = c => of(j) \in 1..Len(r) /\ q[j] = r[of(j)]
  <2> SUFFICES ASSUME NEW j \in 1..Len(q), q[j].cid = c PROVE of(j) \in 1..Len(r) /\ q[j] = r[of(j)]
    OBVIOUS
  <2>1. j <= k \/ j > k + n  BY <1>1
  <2>2. of(j) \in 1..Len(r) /\ at(of(j)) = j  BY <1>1, <2>1
  <2>3. r[of(j)] = q[at(of(j))]  BY <1>2, <2>2
  <2>4. QED  BY <2>2, <2>3
<1>4. \A i, j \in 1..Len(q) : (q[i].cid = c /\ q[j].cid = c) => (i < j <=> of(i) < of(j)) /\ (i <= j <=> of(i) <= of(j))
  <2> SUFFICES ASSUME NEW i \in 1..Len(q), NEW j \in 1..Len(q), q[i].cid = c, q[j].cid = c
               PROVE (i < j <=> of(i) < of(j)) /\ (i <= j <=> of(i) <= of(j))
    OBVIOUS
  <2>1. (j <= k \/ j > k + n) /\ (i <= k \/ i > k + n)  BY <1>1, SMTT(40)
  <2>2. QED  BY <1>1, <2>1, SMTT(40)
<1> HIDE DEF at, of
<1>5. ASSUME NEW t PROVE Has(q, t, c) <=> Has(r, t, c)
  BY <1>2, <1>3, ZenonT(60) DEF Has
<1>6. ASSUME NEW m \in Nat, Ordered(r, c, m) PROVE Ordered(q, c, m)
  <2>1. \A i, j \in 1..Len(q) : (q[i].t = "open" /\ q[i].cid = c /\ q[j].cid = c) => i <= j
    BY <1>3, <1>4, <1>6, SMTT(40) DEF Ordered
  <2>2. \A i, j \in 1..Len(q) :
          (i < j /\ q[i].t = "data" /\ q[j].t = "data" /\ q[i].cid = c /\ q[j].cid = c) => q[i].line < q[j].line
    BY <1>3, <1>4, <1>6, SMTT(40) DEF Ordered
  <2>3. \A i \in 1..Len(q) : (q[i].t = "data" /\ q[i].cid = c) => q[i].line <= m
    BY <1>3, <1>6 DEF Ordered
  <2>4. QED  BY <2>1, <2>2, <2>3 DEF Ordered
<1>7. ASSUME NEW b \in Nat, NEW m \in Nat PROVE Complete(q, c, b, m) <=> Complete(r, c, b, m)
  <2>1. ASSUME Complete(q, c, b, m) PROVE Complete(r, c, b, m)
    <3>1. \A i \in 1..Len(r) : (r[i].t = "data" /\ r[i].cid = c) => b < r[i].line
      BY <1>2, <2>1 DEF Complete
    <3>2. ASSUME NEW l \in (b + 1)..m PROVE \E i \in 1..Len(r) : r[i].t = "data" /\ r[i].cid = c /\ r[i].line = l
      <4>1. PICK i \in 1..Len(q) : q[i].t = "data" /\ q[i].cid = c /\ q[i].line = l
        BY <2>1 DEF Complete
      <4>2. QED  BY <4>1, <1>3, SMTT(40)
    <3>3. QED  BY <2>1, <3>1, <3>2, SMTT(40) DEF Complete
  <2>2. ASSUME Complete(r, c, b, m) PROVE Complete(q, c, b, m)
    <3>1. \A i \in 1..Len(q) : (q[i].t = "data" /\ q[i].cid = c) => b < q[i].line
      BY <1>3, <2>2 DEF Complete
    <3>2. ASSUME NEW l \in (b + 1)..m PROVE \E i \in 1..Len(q) : q[i].t = "data" /\ q[i].cid = c /\ q[i].line = l
      <4>1. PICK i \in 1..Len(r) : r[i].t = "data" /\ r[i].cid = c /\ r[i].line = l
        BY <2>2 DEF Complete
      <4>2. QED  BY <4>1, <1>2
    <3>3. QED  BY <2>2, <3>1, <3>2 DEF Complete
  <2>3. QED  BY <2>1, <2>2
<1>8. \A m \in Nat : Ordered(q, c, m) <=> Ordered(r, c, m)
  BY <1>6, CutPart
<1>9. QED  BY <1>5, <1>7, <1>8 DEF Same

\* When the end of a queue is kept, and the announcement of miner c is in it, all its frames are.
LEMMA CutFront ==
  ASSUME NEW q \in Seq(UpFrames), NEW r \in Seq(UpFrames), NEW n, Cut(r, q, 0, n), NEW c \in Miners,
         NEW m, Ordered(q, c, m), Has(r, "open", c)
  PROVE Same(r, q, c)
<1>1. n \in Nat /\ n <= Len(q) /\ Len(r) = Len(q) - n /\ Len(q) \in Nat /\ Len(r) \in Nat
  BY DEF Cut
<1>2. PICK i \in 1..Len(r) : r[i].t = "open" /\ r[i].cid = c
  BY DEF Has
<1>3. i + n \in 1..Len(q) /\ q[i + n] = r[i]
  BY <1>1 DEF Cut
<1>4. \A j \in (0 + 1)..(0 + n) : q[j].cid # c
  BY <1>1, <1>2, <1>3, SMTT(40) DEF Ordered
<1>5. QED  BY <1>4, CutOthers

LEMMA AppendCut ==
  ASSUME NEW q \in Seq(UpFrames), NEW f \in UpFrames
  PROVE Append(q, f) \in Seq(UpFrames) /\ Cut(q, Append(q, f), Len(q), 1)
<1>1. Append(q, f) \in Seq(UpFrames) /\ Len(Append(q, f)) = Len(q) + 1 /\ Len(q) \in Nat
      /\ \A i \in 1..Len(q) : Append(q, f)[i] = q[i]
  BY AppendProperties
<1>2. QED  BY <1>1 DEF Cut

LEMMA TailCut ==
  ASSUME NEW q \in Seq(UpFrames), q # <<>>
  PROVE Tail(q) \in Seq(UpFrames) /\ Cut(Tail(q), q, 0, 1)
<1>1. Tail(q) \in Seq(UpFrames) /\ Len(Tail(q)) = Len(q) - 1 /\ Len(q) \in Nat /\ Len(q) >= 1
  BY HeadTailProperties, EmptySeq
<1>2. \A i \in 1..Len(Tail(q)) : Tail(q)[i] = q[i + 1]
  BY <1>1
<1>3. QED  BY <1>1, <1>2 DEF Cut

\* A miner's first frame.
LEMMA AppendOpen ==
  ASSUME NEW q \in Seq(UpFrames), NEW c \in Miners,
         ~Has(q, "open", c), ~Has(q, "data", c), ~Has(q, "close", c)
  PROVE LET r == Append(q, Frame("open", c, 0)) IN
        /\ Has(r, "open", c) /\ ~Has(r, "data", c) /\ ~Has(r, "close", c)
        /\ Ordered(r, c, 0) /\ Complete(r, c, 0, 0)
<1> DEFINE f == Frame("open", c, 0)
<1> DEFINE r == Append(q, f)
<1>1. f.t = "open" /\ f.cid = c  BY DEF Frame
<1>2. r[Len(q) + 1] = f /\ Len(r) = Len(q) + 1 /\ Len(q) \in Nat /\ \A i \in 1..Len(q) : r[i] = q[i]
  BY AppendProperties
<1> HIDE DEF f, r
<1>3. \A i \in 1..Len(q) : q[i].cid # c
  BY UpFields DEF Has
<1>4. \A i \in 1..Len(r) : r[i].cid = c => i = Len(r) /\ r[i].t = "open"
  BY <1>1, <1>2, <1>3
<1>5. Has(r, "open", c) /\ ~Has(r, "data", c) /\ ~Has(r, "close", c)
  BY <1>1, <1>2, <1>4 DEF Has
<1>6. Ordered(r, c, 0) /\ Complete(r, c, 0, 0)
  BY <1>2, <1>4 DEF Ordered, Complete
<1>7. QED  BY <1>5, <1>6 DEF r, f

\* A line after the last one.
LEMMA AppendData ==
  ASSUME NEW q \in Seq(UpFrames), NEW c \in Miners, NEW n \in Nat, Ordered(q, c, n)
  PROVE LET r == Append(q, Frame("data", c, n + 1)) IN
        /\ Has(r, "open", c) <=> Has(q, "open", c)
        /\ Has(r, "close", c) <=> Has(q, "close", c)
        /\ Ordered(r, c, n + 1)
        /\ \A b \in Nat : Complete(q, c, b, n) => Complete(r, c, b, n + 1)
<1> DEFINE f == Frame("data", c, n + 1)
<1> DEFINE r == Append(q, f)
<1>1. f.t = "data" /\ f.cid = c /\ f.line = n + 1  BY DEF Frame
<1>2. r[Len(q) + 1] = f /\ Len(r) = Len(q) + 1 /\ Len(q) \in Nat /\ \A i \in 1..Len(q) : r[i] = q[i]
  BY AppendProperties
<1> HIDE DEF f, r
<1>3. \A i \in 1..Len(r) : (i \in 1..Len(q) /\ r[i] = q[i]) \/ (i = Len(q) + 1 /\ r[i] = f)
  BY <1>2
<1>4. \A i \in 1..Len(q) : i \in 1..Len(r) /\ q[i].line \in Nat
  BY <1>2, UpFields
<1>5. (Has(r, "open", c) <=> Has(q, "open", c)) /\ (Has(r, "close", c) <=> Has(q, "close", c))
  BY <1>1, <1>2, <1>3, <1>4, SMTT(40) DEF Has
<1>6. Ordered(r, c, n + 1)
  <2>1. \A i, j \in 1..Len(r) : (r[i].t = "open" /\ r[i].cid = c /\ r[j].cid = c) => i <= j
    BY <1>1, <1>2, <1>3, SMTT(40) DEF Ordered
  <2>2. \A i, j \in 1..Len(r) :
          (i < j /\ r[i].t = "data" /\ r[j].t = "data" /\ r[i].cid = c /\ r[j].cid = c) => r[i].line < r[j].line
    <3> SUFFICES ASSUME NEW i \in 1..Len(r), NEW j \in 1..Len(r),
                        i < j, r[i].t = "data", r[j].t = "data", r[i].cid = c, r[j].cid = c
                 PROVE r[i].line < r[j].line
      OBVIOUS
    <3>1. i \in 1..Len(q) /\ r[i] = q[i] /\ q[i].line \in Nat /\ q[i].line <= n
      BY <1>2, <1>4 DEF Ordered
    <3>2. CASE j \in 1..Len(q) /\ r[j] = q[j]
      BY <3>1, <3>2, SMTT(40) DEF Ordered
    <3>3. CASE r[j] = f
      BY <3>1, <3>3, <1>1, SMTT(40)
    <3>4. QED  BY <1>3, <3>2, <3>3
  <2>3. \A i \in 1..Len(r) : (r[i].t = "data" /\ r[i].cid = c) => r[i].line <= n + 1
    BY <1>1, <1>3, <1>4, SMTT(40) DEF Ordered
  <2>4. QED  BY <2>1, <2>2, <2>3 DEF Ordered
<1>7. ASSUME NEW b \in Nat, Complete(q, c, b, n) PROVE Complete(r, c, b, n + 1)
  <2>1. \A i \in 1..Len(r) : (r[i].t = "data" /\ r[i].cid = c) => b < r[i].line
    BY <1>1, <1>3, <1>7, SMTT(40) DEF Complete
  <2>2. ASSUME NEW k \in (b + 1)..(n + 1) PROVE \E i \in 1..Len(r) : r[i].t = "data" /\ r[i].cid = c /\ r[i].line = k
    <3>1. CASE k = n + 1
      BY <3>1, <1>1, <1>2
    <3>2. CASE k # n + 1
      <4>1. PICK i \in 1..Len(q) : q[i].t = "data" /\ q[i].cid = c /\ q[i].line = k
        BY <3>2, <1>7 DEF Complete
      <4>2. QED  BY <4>1, <1>2, <1>4, SMTT(40)
    <3>3. QED  BY <3>1, <3>2
  <2>3. QED  BY <2>1, <2>2, <1>7 DEF Complete
<1>8. QED  BY <1>5, <1>6, <1>7 DEF r, f

\* The last frame of a miner.
LEMMA AppendClose ==
  ASSUME NEW q \in Seq(UpFrames), NEW c \in Miners, NEW n \in Nat, Ordered(q, c, n)
  PROVE LET r == Append(q, Frame("close", c, 0)) IN
        /\ Has(r, "open", c) <=> Has(q, "open", c)
        /\ Has(r, "close", c)
        /\ Ordered(r, c, n)
        /\ \A b \in Nat : Complete(q, c, b, n) => Complete(r, c, b, n)
<1> DEFINE f == Frame("close", c, 0)
<1> DEFINE r == Append(q, f)
<1>1. f.t = "close" /\ f.cid = c  BY DEF Frame
<1>2. r[Len(q) + 1] = f /\ Len(r) = Len(q) + 1 /\ Len(q) \in Nat /\ \A i \in 1..Len(q) : r[i] = q[i]
  BY AppendProperties
<1> HIDE DEF f, r
<1>3. \A i \in 1..Len(r) : (i \in 1..Len(q) /\ r[i] = q[i]) \/ (i = Len(q) + 1 /\ r[i] = f)
  BY <1>2
<1>4. \A i \in 1..Len(q) : i \in 1..Len(r)
  BY <1>2
<1>5. (Has(r, "open", c) <=> Has(q, "open", c)) /\ Has(r, "close", c)
  BY <1>1, <1>2, <1>3, <1>4, SMTT(40) DEF Has
<1>6. Ordered(r, c, n)
  BY <1>1, <1>2, <1>3, SMTT(40) DEF Ordered
<1>7. ASSUME NEW b \in Nat, Complete(q, c, b, n) PROVE Complete(r, c, b, n)
  <2>1. \A i \in 1..Len(r) : (r[i].t = "data" /\ r[i].cid = c) => b < r[i].line
    BY <1>1, <1>3, <1>7, ZenonT(60) DEF Complete
  <2>2. ASSUME NEW k \in (b + 1)..n PROVE \E i \in 1..Len(r) : r[i].t = "data" /\ r[i].cid = c /\ r[i].line = k
    <3>1. PICK i \in 1..Len(q) : q[i].t = "data" /\ q[i].cid = c /\ q[i].line = k
      BY <1>7 DEF Complete
    <3>2. QED  BY <3>1, <1>2, <1>4
  <2>3. QED  BY <2>1, <2>2, <1>7 DEF Complete
<1>8. QED  BY <1>5, <1>6, <1>7 DEF r, f

\* Reading a miner's frame: the announcement is not on its way any longer.
LEMMA TailOwn ==
  ASSUME NEW q \in Seq(UpFrames), q # <<>>, NEW c \in Miners, Head(q).cid = c, NEW n \in Nat, Ordered(q, c, n)
  PROVE /\ ~Has(Tail(q), "open", c) /\ Ordered(Tail(q), c, n)
        /\ \A t : Head(q).t # t => (Has(Tail(q), t, c) <=> Has(q, t, c))
        /\ \A b \in Nat : Head(q).t # "data" => (Complete(q, c, b, n) => Complete(Tail(q), c, b, n))
        /\ \A b \in Nat : Head(q).t = "data"
              => (Complete(q, c, b, n) => Head(q).line = b + 1 /\ Complete(Tail(q), c, b + 1, n))
<1> DEFINE r == Tail(q)
<1>1. r \in Seq(UpFrames) /\ Cut(r, q, 0, 1)  BY TailCut
<1>2. Head(q) = q[1] /\ Len(q) \in Nat /\ Len(q) >= 1 /\ Len(r) = Len(q) - 1
  BY HeadTailProperties, EmptySeq
<1>3. \A i \in 1..Len(r) : i + 1 \in 1..Len(q) /\ r[i] = q[i + 1]
  BY <1>1, <1>2 DEF Cut
<1>4. \A i \in 1..Len(q) : i = 1 \/ (i - 1 \in 1..Len(r) /\ q[i] = r[i - 1])
  BY <1>2, <1>3
<1>5. \A i \in 1..Len(q) : q[i].line \in Nat
  BY UpFields
<1> HIDE DEF r
<1>6. ~Has(r, "open", c)
  BY <1>2, <1>3, SMTT(40) DEF Has, Ordered
<1>7. Ordered(r, c, n)
  BY <1>1, CutPart, SMTT(40)
<1>8. ASSUME NEW t, Head(q).t # t PROVE Has(r, t, c) <=> Has(q, t, c)
  BY <1>2, <1>3, <1>4, <1>8, SMTT(40) DEF Has
<1>9. ASSUME NEW b \in Nat, Head(q).t # "data", Complete(q, c, b, n) PROVE Complete(r, c, b, n)
  <2>1. \A i \in 1..Len(r) : (r[i].t = "data" /\ r[i].cid = c) => b < r[i].line
    BY <1>3, <1>9, SMTT(40) DEF Complete
  <2>2. ASSUME NEW k \in (b + 1)..n PROVE \E i \in 1..Len(r) : r[i].t = "data" /\ r[i].cid = c /\ r[i].line = k
    <3>1. PICK i \in 1..Len(q) : q[i].t = "data" /\ q[i].cid = c /\ q[i].line = k
      BY <1>9 DEF Complete
    <3>2. i # 1  BY <3>1, <1>2, <1>9
    <3>3. QED  BY <3>1, <3>2, <1>4, SMTT(40)
  <2>3. QED  BY <2>1, <2>2, <1>9 DEF Complete
<1>10. ASSUME NEW b \in Nat, Head(q).t = "data", Complete(q, c, b, n)
       PROVE Head(q).line = b + 1 /\ Complete(r, c, b + 1, n)
  <2>1. b < q[1].line /\ q[1].line <= n /\ q[1].line \in Nat
    BY <1>2, <1>5, <1>10 DEF Complete, Ordered
  <2>2. \A i \in 1..Len(r) : (r[i].t = "data" /\ r[i].cid = c) => q[1].line < r[i].line
    BY <1>2, <1>3, <1>10, SMTT(40) DEF Ordered
  <2>3. q[1].line = b + 1
    <3> SUFFICES ASSUME q[1].line # b + 1 PROVE FALSE
      OBVIOUS
    <3>1. PICK i \in 1..Len(q) : q[i].t = "data" /\ q[i].cid = c /\ q[i].line = b + 1
      BY <2>1, <1>10, SMTT(40) DEF Complete
    <3>2. i - 1 \in 1..Len(r) /\ q[i] = r[i - 1]  BY <3>1, <1>4
    <3>3. q[1].line < q[i].line  BY <3>1, <3>2, <2>2
    <3>4. QED  BY <3>1, <3>3, <2>1, SMTT(40)
  <2>4. ASSUME NEW k \in (b + 2)..n PROVE \E i \in 1..Len(r) : r[i].t = "data" /\ r[i].cid = c /\ r[i].line = k
    <3>1. PICK i \in 1..Len(q) : q[i].t = "data" /\ q[i].cid = c /\ q[i].line = k
      BY <1>10 DEF Complete
    <3>2. i # 1  BY <3>1, <2>3
    <3>3. QED  BY <3>1, <3>2, <1>4, SMTT(40)
  <2>5. QED  BY <2>1, <2>2, <2>3, <2>4, <1>2 DEF Complete
<1>11. QED  BY <1>6, <1>7, <1>8, <1>9, <1>10 DEF r

(***************************************************************************)
(* What a step does to one miner.                                          *)
(***************************************************************************)

LEMMA QueueTypes ==
  ASSUME NEW u \in Seq(UpFrames), NEW o \in Seq(MinerFrames), NEW p \in Seq(MinerFrames)
  PROVE u \o (o \o p) \in Seq(UpFrames) /\ o \in Seq(UpFrames) /\ p \in Seq(UpFrames)
<1>1. \A s \in Seq(MinerFrames) : s \in Seq(UpFrames)
  BY DEF UpFrames
<1>2. o \o p \in Seq(UpFrames)
  BY <1>1, ConcatProperties
<1>3. u \o (o \o p) \in Seq(UpFrames)
  BY <1>2, ConcatProperties
<1>4. QED  BY <1>1, <1>3

LEMMA PipelineType ==
  ASSUME Types
  PROVE Pipeline \in Seq(UpFrames) /\ out \in Seq(UpFrames) /\ posted \in Seq(UpFrames)
<1>1. up \in Seq(UpFrames) /\ out \in Seq(MinerFrames) /\ posted \in Seq(MinerFrames)
  BY DEF Types
<1>2. QED  BY <1>1, QueueTypes DEF Pipeline

LEMMA MinerTypes ==
  ASSUME Types, NEW c \in Miners
  PROVE /\ E[c].at \in {"new", "open", "closed"} /\ E[c].sent \in Nat
        /\ E[c].shut \in BOOLEAN /\ E[c].dropped \in BOOLEAN /\ E[c].discarded \in BOOLEAN
        /\ bridge[c] \in Bridges /\ bridge[c].at \in {"none", "connecting", "connected"}
        /\ bridge[c].pending \in Seq(Nat) /\ got[c] \in Seq(Nat)
        /\ Len(bridge[c].pending) \in Nat /\ Len(got[c]) \in Nat /\ Base(c) \in Nat
<1>1. E[c] \in Edges /\ bridge[c] \in Bridges /\ got[c] \in Seq(Nat)
  BY DEF Types
<1>2. bridge[c].at \in {"none", "connecting", "connected"} /\ bridge[c].pending \in Seq(Nat)
  BY <1>1 DEF Bridges
<1>3. Len(bridge[c].pending) \in Nat /\ Len(got[c]) \in Nat
  BY <1>1, <1>2, LenProperties
<1>4. E[c].at \in {"new", "open", "closed"} /\ E[c].sent \in Nat /\ E[c].shut \in BOOLEAN
  BY <1>1 DEF Edges
<1>5. E[c].dropped \in BOOLEAN /\ E[c].discarded \in BOOLEAN
  BY <1>1 DEF Edges
<1>6. Base(c) \in Nat
  <2>1. \A m, n \in Nat : m + n \in Nat  OBVIOUS
  <2>2. QED  BY <1>3, <2>1, Zenon DEF Base
<1>7. QED  BY <1>1, <1>2, <1>3, <1>4, <1>5, <1>6, Zenon

EdgeKept(c) ==
  /\ E'[c].at = E[c].at /\ E'[c].shut = E[c].shut /\ E'[c].dropped = E[c].dropped
  /\ E'[c].discarded = E[c].discarded /\ E'[c].sent = E[c].sent

\* Nothing that concerns the miner.
LEMMA Kept ==
  ASSUME NEW c \in Miners, Types, MinerInv(c),
         Same(Pipeline', Pipeline, c), EdgeKept(c), bridge'[c] = bridge[c], got'[c] = got[c],
         c \in sessions' <=> c \in sessions, ClosedThere(c)' <=> ClosedThere(c),
         (running' /\ conn' # "closing") => (running /\ conn # "closing")
  PROVE MinerInv(c)'
<1>1. /\ Announced(c)' <=> Announced(c)
      /\ Bridged(c)' <=> Bridged(c)
      /\ Base(c)' = Base(c)
      /\ Has(Pipeline', "data", c) <=> Has(Pipeline, "data", c)
      /\ Has(Pipeline', "close", c) <=> Has(Pipeline, "close", c)
  BY DEF Same, Announced, Bridged, Base
<1>2. Unseen(c)'
  BY <1>1 DEF Unseen, MinerInv, EdgeKept, Announced
<1>3. ASSUME ~E[c].discarded PROVE Read(c)' /\ Lines(c)' /\ Registered(c)' /\ Unregistered(c)'
                                   /\ (ClosedThere(c) => ~Announced(c) /\ ~Bridged(c))'
  <2>1. Read(c)'
    BY <1>3, SMTT(40) DEF MinerInv, Read
  <2>2. Lines(c)'
    BY <1>1, <1>3, MinerTypes DEF MinerInv, Lines, EdgeKept, Same
  <2>3. Registered(c)' /\ Unregistered(c)'
    BY <1>1, <1>3 DEF MinerInv, Registered, Unregistered, EdgeKept
  <2>4. QED  BY <1>1, <1>3, <2>1, <2>2, <2>3 DEF MinerInv
<1>4. QED  BY <1>2, <1>3 DEF MinerInv, EdgeKept

\* The connection is lost, or its leftovers are thrown away: the miner is dropped, or the
\* trunk is not serving.
LEMMA Lost ==
  ASSUME NEW c \in Miners, Types, Types', MinerInv(c), NEW n, Cut(Pipeline', Pipeline, 0, n),
         bridge'[c] = NoBridge, got'[c] = got[c], ~ClosedThere(c)',
         E'[c].at = E[c].at, E'[c].discarded = E[c].discarded, E'[c].sent = E[c].sent,
         c \in sessions' => c \in sessions /\ ~(running' /\ conn' # "closing"),
         (c \in sessions <=> c \in sessions') => E'[c].shut = E[c].shut /\ E'[c].dropped = E[c].dropped,
         (c \in sessions /\ c \notin sessions') => E'[c].shut /\ E'[c].dropped
  PROVE MinerInv(c)'
<1>1. Pipeline \in Seq(UpFrames) /\ Pipeline' \in Seq(UpFrames)
  <2>1. up' \in Seq(UpFrames) /\ out' \in Seq(MinerFrames) /\ posted' \in Seq(MinerFrames)
    BY DEF Types
  <2>2. QED  BY <2>1, PipelineType, QueueTypes DEF Pipeline
<1>2. \A t : Has(Pipeline', t, c) => Has(Pipeline, t, c)
  BY <1>1, CutPart, SMTT(40)
<1>3. bridge'[c].at = "none" /\ bridge'[c].pending = <<>> /\ Len(bridge'[c].pending) = 0 /\ ~Bridged(c)'
  BY EmptySeq DEF NoBridge, Bridged
<1>4. Unseen(c)'
  BY <1>2, <1>3 DEF Unseen, MinerInv
<1>5. ASSUME ~E[c].discarded PROVE Read(c)' /\ Lines(c)' /\ Registered(c)' /\ Unregistered(c)'
  <2>1. Read(c)'
    BY <1>3, <1>5 DEF MinerInv, Read
  <2>2. Ordered(Pipeline, c, E[c].sent) /\ Ordered(Pipeline', c, E[c].sent)
    BY <1>1, <1>5, CutPart, SMTT(40) DEF MinerInv, Lines
  <2>3. ASSUME Announced(c)' PROVE Same(Pipeline', Pipeline, c)
    <3>1. Has(Pipeline', "open", c)
      BY <2>3 DEF Announced
    <3>2. QED  BY <1>1, <2>2, <3>1, CutFront, Zenon
  <2>4. Announced(c)' => Announced(c)
    BY <1>2 DEF Announced
  <2>5. ASSUME Announced(c)' PROVE got'[c] = <<>> /\ Complete(Pipeline', c, Base(c)', E'[c].sent)
    <3>1. ~Bridged(c) /\ got[c] = <<>> /\ Complete(Pipeline, c, Base(c), E[c].sent) /\ bridge[c].pending = <<>>
      BY <2>4, <2>5, <1>5 DEF MinerInv, Lines, Read, Bridged
    <3>2. Base(c)' = Base(c)
      BY <3>1, <1>3 DEF Base
    <3>3. Base(c) \in Nat /\ E[c].sent \in Nat
      BY MinerTypes
    <3>4. QED  BY <3>1, <3>2, <3>3, <2>3, <2>5 DEF Same
  <2>6. Lines(c)'
    BY <1>3, <2>2, <2>5 DEF Lines
  <2>7. Registered(c)'
    BY <1>2, <1>5 DEF MinerInv, Registered
  <2>8. ASSUME Announced(c)', Has(Pipeline, "close", c) PROVE Has(Pipeline', "close", c)
    BY <2>3, <2>8 DEF Same
  <2>9. Unregistered(c)'
    BY <1>3, <1>5, <2>4, <2>8 DEF MinerInv, Unregistered, Registered
  <2>10. QED  BY <2>1, <2>6, <2>7, <2>9
<1>6. QED  BY <1>4, <1>5 DEF MinerInv

LEMMA Attached ==
  ASSUME NEW c \in Miners, Types, Types', MinerInv(c), E[c].at = "new",
         Pipeline' = Append(Pipeline, Frame("open", c, 0)), bridge'[c] = bridge[c], got'[c] = got[c],
         down' = down, c \in sessions', E'[c].at = "open", E'[c].sent = E[c].sent, E'[c].discarded = E[c].discarded
  PROVE MinerInv(c)'
<1>1. Pipeline \in Seq(UpFrames)
  BY PipelineType
<1>2. /\ ~Has(Pipeline, "open", c) /\ ~Has(Pipeline, "data", c) /\ ~Has(Pipeline, "close", c)
      /\ ~Bridged(c) /\ ~ClosedThere(c) /\ got[c] = <<>> /\ E[c].sent = 0
  BY DEF MinerInv, Unseen
<1>3. /\ Has(Pipeline', "open", c) /\ ~Has(Pipeline', "data", c) /\ ~Has(Pipeline', "close", c)
      /\ Ordered(Pipeline', c, 0) /\ Complete(Pipeline', c, 0, 0)
  BY <1>1, <1>2, AppendOpen
<1>4. ~Bridged(c)' /\ ~ClosedThere(c)' /\ Announced(c)'
  BY <1>2, <1>3 DEF Bridged, ClosedThere, Announced
<1>5. ASSUME ~E[c].discarded PROVE Read(c)' /\ Lines(c)' /\ Registered(c)' /\ Unregistered(c)'
  <2>1. Read(c)' /\ bridge[c].pending = <<>>
    BY <1>2, <1>5 DEF MinerInv, Read, Bridged
  <2>2. Base(c)' = 0
    BY <1>2, <2>1, EmptySeq DEF Base
  <2>3. Lines(c)'
    BY <1>2, <1>3, <1>4, <2>2 DEF Lines
  <2>4. Registered(c)' /\ Unregistered(c)'
    BY <1>3, <1>4 DEF Registered, Unregistered
  <2>5. QED  BY <2>1, <2>3, <2>4
<1>6. QED  BY <1>4, <1>5 DEF MinerInv, Unseen

LEMMA Spoken ==
  ASSUME NEW c \in Miners, Types, Types', MinerInv(c), E[c].at = "open",
         Pipeline' = Append(Pipeline, Frame("data", c, E[c].sent + 1)), bridge'[c] = bridge[c], got'[c] = got[c],
         down' = down, sessions' = sessions, running' = running, conn' = conn,
         E'[c].at = "open", E'[c].shut = E[c].shut, E'[c].dropped = E[c].dropped,
         E'[c].sent = E[c].sent + 1, E'[c].discarded = E[c].discarded
  PROVE MinerInv(c)'
<1>1. Pipeline \in Seq(UpFrames) /\ E[c].sent \in Nat /\ Base(c) \in Nat
  BY PipelineType, MinerTypes
<1>2. ASSUME ~E[c].discarded PROVE /\ Read(c)' /\ Lines(c)' /\ Registered(c)' /\ Unregistered(c)'
                                   /\ (ClosedThere(c) => ~Announced(c) /\ ~Bridged(c))'
  <2>1. /\ Has(Pipeline', "open", c) <=> Has(Pipeline, "open", c)
        /\ Has(Pipeline', "close", c) <=> Has(Pipeline, "close", c)
        /\ Ordered(Pipeline', c, E[c].sent + 1)
        /\ \A b \in Nat : Complete(Pipeline, c, b, E[c].sent) => Complete(Pipeline', c, b, E[c].sent + 1)
    BY <1>1, <1>2, AppendData, SMTT(40) DEF MinerInv, Lines
  <2>2. Read(c)'
    BY <1>2 DEF MinerInv, Read
  <2>3. /\ Announced(c)' <=> Announced(c)
        /\ Bridged(c)' <=> Bridged(c)
        /\ ClosedThere(c)' <=> ClosedThere(c)
        /\ Base(c)' = Base(c)
    BY <2>1 DEF Announced, Bridged, ClosedThere, Base
  <2>4. Lines(c)'
    BY <1>1, <1>2, <2>1, <2>3 DEF MinerInv, Lines
  <2>5. Registered(c)' /\ Unregistered(c)'
    BY <1>2, <2>1, <2>3 DEF MinerInv, Registered, Unregistered
  <2>6. QED  BY <1>2, <2>2, <2>3, <2>4, <2>5 DEF MinerInv
<1>3. QED  BY <1>2 DEF MinerInv, Unseen

LEMMA Gone ==
  ASSUME NEW c \in Miners, Types, Types', MinerInv(c), E[c].at = "open",
         Pipeline' = IF c \in sessions THEN Append(Pipeline, Frame("close", c, 0)) ELSE Pipeline,
         bridge'[c] = bridge[c], got'[c] = got[c], down' = down, c \notin sessions',
         E'[c].at = "closed", E'[c].dropped = E[c].dropped, E'[c].sent = E[c].sent, E'[c].discarded = E[c].discarded
  PROVE MinerInv(c)'
<1>1. Pipeline \in Seq(UpFrames) /\ E[c].sent \in Nat /\ Base(c) \in Nat
  BY PipelineType, MinerTypes
<1>2. ASSUME ~E[c].discarded PROVE /\ Read(c)' /\ Lines(c)' /\ Registered(c)' /\ Unregistered(c)'
                                   /\ (ClosedThere(c) => ~Announced(c) /\ ~Bridged(c))'
  <2>1. /\ Has(Pipeline', "open", c) <=> Has(Pipeline, "open", c)
        /\ Has(Pipeline', "close", c) <=> (Has(Pipeline, "close", c) \/ c \in sessions)
        /\ Ordered(Pipeline', c, E[c].sent)
        /\ \A b \in Nat : Complete(Pipeline, c, b, E[c].sent) => Complete(Pipeline', c, b, E[c].sent)
    <3>1. Ordered(Pipeline, c, E[c].sent)
      BY <1>2 DEF MinerInv, Lines
    <3>2. CASE c \in sessions
      BY <1>1, <3>1, <3>2, AppendClose
    <3>3. CASE c \notin sessions
      BY <3>1, <3>3
    <3>4. QED  BY <3>2, <3>3
  <2>2. Read(c)'
    BY <1>2 DEF MinerInv, Read
  <2>3. /\ Announced(c)' <=> Announced(c)
        /\ Bridged(c)' <=> Bridged(c)
        /\ ClosedThere(c)' <=> ClosedThere(c)
        /\ Base(c)' = Base(c)
    BY <2>1 DEF Announced, Bridged, ClosedThere, Base
  <2>4. Lines(c)'
    BY <1>1, <1>2, <2>1, <2>3 DEF MinerInv, Lines
  <2>5. Registered(c)' /\ Unregistered(c)'
    BY <1>2, <2>1, <2>3 DEF MinerInv, Registered, Unregistered
  <2>6. QED  BY <1>2, <2>2, <2>3, <2>4, <2>5 DEF MinerInv
<1>3. QED  BY <1>2 DEF MinerInv, Unseen

\* Reading a line: it is the one after those the origin has, and the rest stays complete.
LEMMA TailData ==
  ASSUME NEW q \in Seq(UpFrames), q # <<>>, NEW c \in Miners, Head(q).cid = c, NEW n \in Nat, Ordered(q, c, n),
         Head(q).t = "data", NEW b \in Nat, Complete(q, c, b, n)
  PROVE Head(q).line = b + 1 /\ Complete(Tail(q), c, b + 1, n)
BY TailOwn, ZenonT(60)

\* The origin reads the announcement of a miner.
LEMMA OpenRead ==
  ASSUME NEW c \in Miners, Types, Types', MinerInv(c),
         Pipeline # <<>>, Head(Pipeline).t = "open", Head(Pipeline).cid = c, Pipeline' = Tail(Pipeline),
         bridge'[c] = IF bridge[c].at = "none" THEN [bridge[c] EXCEPT !.at = "connecting"] ELSE bridge[c],
         got'[c] = got[c], down' = down, E' = E, UNCHANGED edge
  PROVE MinerInv(c)'
<1>1. Pipeline \in Seq(UpFrames) /\ E[c].sent \in Nat /\ Base(c) \in Nat /\ bridge[c] \in Bridges
  BY PipelineType, MinerTypes
<1>2. Has(Pipeline, "open", c)
  BY <1>1, HeadTailProperties, EmptySeq DEF Has
<1>3. E[c].at # "new"
  BY <1>2 DEF MinerInv, Unseen
<1>4. ASSUME ~E[c].discarded PROVE /\ Read(c)' /\ Lines(c)' /\ Registered(c)' /\ Unregistered(c)'
                                   /\ (ClosedThere(c) => ~Announced(c) /\ ~Bridged(c))'
  <2>1. /\ Announced(c) /\ ~Bridged(c) /\ bridge[c].at = "none" /\ bridge[c].pending = <<>> /\ got[c] = <<>>
        /\ ~ClosedThere(c) /\ Ordered(Pipeline, c, E[c].sent) /\ Complete(Pipeline, c, Base(c), E[c].sent)
    BY <1>2, <1>4 DEF MinerInv, Lines, Read, Announced, Bridged
  <2>2. /\ ~Has(Pipeline', "open", c)
        /\ Has(Pipeline', "close", c) <=> Has(Pipeline, "close", c)
        /\ Ordered(Pipeline', c, E[c].sent) /\ Complete(Pipeline', c, Base(c), E[c].sent)
    BY <1>1, <2>1, TailOwn, ZenonT(60)
  <2>3. bridge'[c].at = "connecting" /\ bridge'[c].pending = bridge[c].pending
    BY <1>1, <2>1 DEF Bridges
  <2>4. ~Announced(c)' /\ Bridged(c)' /\ ~ClosedThere(c)' /\ Base(c)' = Base(c)
    BY <2>1, <2>2, <2>3 DEF Announced, Bridged, ClosedThere, Base
  <2>5. Read(c)'
    BY <1>4, <2>1, <2>3 DEF MinerInv, Read
  <2>6. Lines(c)'
    BY <2>2, <2>4 DEF Lines
  <2>7. Registered(c)' /\ Unregistered(c)'
    BY <1>4, <2>1, <2>2, <2>4 DEF MinerInv, Registered, Unregistered, edge
  <2>8. QED  BY <2>4, <2>5, <2>6, <2>7
<1>5. QED  BY <1>3, <1>4 DEF MinerInv, Unseen

LEMMA KeptInOrder ==
  ASSUME NEW g \in Seq(Nat), NEW p \in Seq(Nat), \A i \in 1..Len(p) : p[i] = Len(g) + i,
         NEW l \in Nat, l = Len(g) + Len(p) + 1
  PROVE /\ Len(g) + Len(Append(p, l)) = (Len(g) + Len(p)) + 1
        /\ \A i \in 1..Len(Append(p, l)) : Append(p, l)[i] = Len(g) + i
<1> DEFINE r == Append(p, l)
<1>1. Len(g) \in Nat /\ Len(p) \in Nat /\ Len(r) = Len(p) + 1 /\ r[Len(p) + 1] = l
  BY AppendProperties, LenProperties
<1>2. \A i \in 1..Len(p) : r[i] = p[i]
  BY AppendProperties
<1> HIDE DEF r
<1>3. Len(g) + Len(r) = (Len(g) + Len(p)) + 1
  BY <1>1
<1>4. ASSUME NEW i \in 1..Len(r) PROVE r[i] = Len(g) + i
  <2>1. CASE i = Len(p) + 1  BY <2>1, <1>1
  <2>2. CASE i \in 1..Len(p)  BY <2>2, <1>2
  <2>3. QED  BY <1>1, <2>1, <2>2, SMTT(40)
<1>5. QED  BY <1>3, <1>4 DEF r

\* What the origin does with a line: nothing, or it keeps it, or it hands it to the pool.
Taken(c, line) ==
  \/ bridge[c].at = "none" /\ bridge'[c] = bridge[c] /\ got'[c] = got[c]
  \/ /\ bridge[c].at = "connecting" /\ got'[c] = got[c]
     /\ bridge'[c].at = "connecting" /\ bridge'[c].pending = Append(bridge[c].pending, line)
  \/ bridge[c].at = "connected" /\ bridge'[c] = bridge[c] /\ got'[c] = Append(got[c], line)

LEMMA DataRead ==
  ASSUME NEW c \in Miners, Types, Types', MinerInv(c),
         Pipeline # <<>>, Head(Pipeline).t = "data", Head(Pipeline).cid = c, Pipeline' = Tail(Pipeline),
         Taken(c, Head(Pipeline).line), down' = down, E' = E, UNCHANGED edge
  PROVE MinerInv(c)'
<1>1. Pipeline \in Seq(UpFrames) /\ E[c].sent \in Nat /\ Base(c) \in Nat /\ bridge[c].pending \in Seq(Nat)
        /\ got[c] \in Seq(Nat)
  BY PipelineType, MinerTypes
<1>2. Has(Pipeline, "data", c)
  BY <1>1, HeadTailProperties, EmptySeq, SMTT(40) DEF Has
<1>3. E[c].at # "new"
  BY <1>2 DEF MinerInv, Unseen
<1>4. ASSUME ~E[c].discarded PROVE /\ Read(c)' /\ Lines(c)' /\ Registered(c)' /\ Unregistered(c)'
                                   /\ (ClosedThere(c) => ~Announced(c) /\ ~Bridged(c))'
  <2>1. /\ Read(c) /\ Ordered(Pipeline, c, E[c].sent)
        /\ Bridged(c) => Complete(Pipeline, c, Base(c), E[c].sent)
    BY <1>4 DEF MinerInv, Lines
  <2>2. /\ ~Has(Pipeline', "open", c)
        /\ Has(Pipeline', "open", c) <=> Has(Pipeline, "open", c)
        /\ Has(Pipeline', "close", c) <=> Has(Pipeline, "close", c)
        /\ Ordered(Pipeline', c, E[c].sent)
        /\ Bridged(c) => Head(Pipeline).line = Base(c) + 1 /\ Complete(Pipeline', c, Base(c) + 1, E[c].sent)
    <3>1. /\ ~Has(Pipeline', "open", c)
          /\ \A t : "data" # t => (Has(Pipeline', t, c) <=> Has(Pipeline, t, c))
          /\ Ordered(Pipeline', c, E[c].sent)
      <4> DEFINE r == Tail(Pipeline)
      <4>1. /\ ~Has(r, "open", c) /\ Ordered(r, c, E[c].sent)
            /\ \A t : Head(Pipeline).t # t => (Has(r, t, c) <=> Has(Pipeline, t, c))
        BY <1>1, <2>1, TailOwn, ZenonT(60)
      <4> HIDE DEF r
      <4>2. Pipeline' = r /\ Head(Pipeline).t = "data"
        BY DEF r
      <4> QED  BY <4>1, <4>2, ZenonT(60)
    <3>2. ASSUME Bridged(c)
          PROVE Head(Pipeline).line = Base(c) + 1 /\ Complete(Pipeline', c, Base(c) + 1, E[c].sent)
      <4>1. Head(Pipeline).line = Base(c) + 1 /\ Complete(Tail(Pipeline), c, Base(c) + 1, E[c].sent)
        <5>1. /\ Pipeline \in Seq(UpFrames) /\ E[c].sent \in Nat /\ Base(c) \in Nat
              /\ Ordered(Pipeline, c, E[c].sent) /\ Complete(Pipeline, c, Base(c), E[c].sent)
          BY <1>1, <2>1, <3>2
        <5>2. QED  BY <5>1, TailData, SMTT(40)
      <4>2. QED  BY <4>1, ZenonT(60)
    <3>3. QED  BY <3>1, <3>2
  <2>3. /\ ~Announced(c) /\ ~Announced(c)'
        /\ Bridged(c)' <=> Bridged(c)
        /\ ClosedThere(c)' <=> ClosedThere(c)
    BY <2>2 DEF Announced, Bridged, ClosedThere, Taken
  <2>4. Read(c)' /\ (Bridged(c) => Base(c)' = Base(c) + 1)
    <3>1. CASE bridge[c].at = "none" /\ bridge'[c] = bridge[c] /\ got'[c] = got[c]
      BY <3>1, <2>1 DEF Read, Bridged
    <3>2. CASE /\ bridge[c].at = "connecting" /\ got'[c] = got[c]
               /\ bridge'[c].at = "connecting" /\ bridge'[c].pending = Append(bridge[c].pending, Head(Pipeline).line)
      <4>1. Head(Pipeline).line = Len(got[c]) + Len(bridge[c].pending) + 1 /\ Head(Pipeline).line \in Nat
        <5>1. Head(Pipeline).line = Base(c) + 1
          BY <3>2, <2>2 DEF Bridged
        <5>2. Head(Pipeline).line \in Nat
          BY <5>1, <1>1, SMTT(40)
        <5>3. QED  BY <5>1, <5>2, Zenon DEF Base
      <4>2. \A i \in 1..Len(bridge[c].pending) : bridge[c].pending[i] = Len(got[c]) + i
        BY <2>1 DEF Read
      <4>3. /\ Len(got[c]) + Len(bridge'[c].pending) = (Len(got[c]) + Len(bridge[c].pending)) + 1
            /\ \A i \in 1..Len(bridge'[c].pending) : bridge'[c].pending[i] = Len(got[c]) + i
        <5>1. \A l \in Nat : l = Len(got[c]) + Len(bridge[c].pending) + 1 =>
                /\ Len(got[c]) + Len(Append(bridge[c].pending, l)) = (Len(got[c]) + Len(bridge[c].pending)) + 1
                /\ \A i \in 1..Len(Append(bridge[c].pending, l)) : Append(bridge[c].pending, l)[i] = Len(got[c]) + i
          BY <1>1, <4>2, KeptInOrder, Zenon
        <5> DEFINE l == Head(Pipeline).line
        <5>2. l \in Nat /\ l = Len(got[c]) + Len(bridge[c].pending) + 1
              /\ bridge'[c].pending = Append(bridge[c].pending, l)
          BY <3>2, <4>1
        <5> HIDE DEF l
        <5>3. QED  BY <5>1, <5>2, ZenonT(60)
      <4>4. Base(c)' = Base(c) + 1
        BY <3>2, <4>3, Zenon DEF Base
      <4>5. QED  BY <2>1, <3>2, <4>3, <4>4, ZenonT(60) DEF Read
    <3>3. CASE bridge[c].at = "connected" /\ bridge'[c] = bridge[c] /\ got'[c] = Append(got[c], Head(Pipeline).line)
      <4>1. bridge[c].pending = <<>> /\ Len(bridge[c].pending) = 0
        BY <3>3, <2>1, EmptySeq DEF Read
      <4>2. Head(Pipeline).line = Len(got[c]) + 1
        BY <1>1, <3>3, <2>2, <4>1 DEF Bridged, Base
      <4>3. /\ Len(got'[c]) = Len(got[c]) + 1
            /\ \A i \in 1..Len(got'[c]) : got'[c][i] = IF i <= Len(got[c]) THEN got[c][i] ELSE Head(Pipeline).line
        BY <3>3, <1>1, <4>2, SMTT(40)
      <4>4. Base(c)' = Base(c) + 1
        BY <1>1, <3>3, <4>1, <4>3 DEF Base
      <4>5. QED  BY <1>1, <2>1, <3>3, <4>1, <4>2, <4>3, <4>4, SMTT(40) DEF Read
    <3>4. QED  BY <3>1, <3>2, <3>3 DEF Taken
  <2>5. Lines(c)'
    BY <2>2, <2>3, <2>4 DEF Lines
  <2>6. Registered(c)' /\ Unregistered(c)'
    BY <1>4, <2>2, <2>3 DEF MinerInv, Registered, Unregistered, edge
  <2>7. QED  BY <1>4, <2>3, <2>4, <2>5, <2>6 DEF MinerInv
<1>5. QED  BY <1>3, <1>4 DEF MinerInv, Unseen

LEMMA CloseRead ==
  ASSUME NEW c \in Miners, Types, Types', MinerInv(c),
         Pipeline # <<>>, Head(Pipeline).t = "close", Head(Pipeline).cid = c, Pipeline' = Tail(Pipeline),
         bridge'[c] = NoBridge, got'[c] = got[c], down' = down, E' = E, UNCHANGED edge
  PROVE MinerInv(c)'
<1>1. Pipeline \in Seq(UpFrames) /\ E[c].sent \in Nat
  BY PipelineType, MinerTypes
<1>2. Has(Pipeline, "close", c)
  BY <1>1, HeadTailProperties, EmptySeq DEF Has
<1>3. E[c].at # "new"
  BY <1>2 DEF MinerInv, Unseen
<1>4. ASSUME ~E[c].discarded PROVE /\ Read(c)' /\ Lines(c)' /\ Registered(c)' /\ Unregistered(c)'
                                   /\ (ClosedThere(c) => ~Announced(c) /\ ~Bridged(c))'
  <2>1. ~Has(Pipeline', "open", c) /\ Ordered(Pipeline', c, E[c].sent)
    BY <1>1, <1>4, TailOwn, SMTT(40) DEF MinerInv, Lines
  <2>2. bridge'[c].at = "none" /\ bridge'[c].pending = <<>> /\ Len(bridge'[c].pending) = 0
    BY EmptySeq DEF NoBridge
  <2>3. ~Announced(c)' /\ ~Bridged(c)'
    BY <2>1, <2>2 DEF Announced, Bridged
  <2>4. Read(c)' /\ Lines(c)'
    BY <1>4, <2>1, <2>2, <2>3 DEF MinerInv, Read, Lines
  <2>5. c \notin sessions
    BY <1>2, <1>4 DEF MinerInv, Registered
  <2>6. Registered(c)' /\ Unregistered(c)'
    BY <1>4, <2>3, <2>5 DEF MinerInv, Registered, Unregistered, edge
  <2>7. QED  BY <2>3, <2>4, <2>6
<1>5. QED  BY <1>3, <1>4 DEF MinerInv, Unseen

LEMMA FlushedInOrder ==
  ASSUME NEW g \in Seq(Nat), NEW p \in Seq(Nat),
         \A i \in 1..Len(g) : g[i] = i, \A i \in 1..Len(p) : p[i] = Len(g) + i
  PROVE /\ Len(g \o p) + Len(<<>>) = Len(g) + Len(p)
        /\ \A i \in 1..Len(g \o p) : (g \o p)[i] = i
<1> DEFINE r == g \o p
<1>1. Len(g) \in Nat /\ Len(p) \in Nat /\ Len(r) = Len(g) + Len(p)
  BY ConcatProperties, LenProperties
<1>2. \A i \in 1..Len(r) : r[i] = IF i <= Len(g) THEN g[i] ELSE p[i - Len(g)]
  BY ConcatProperties
<1>3. Len(<<>>) = 0
  BY EmptySeq
<1> HIDE DEF r
<1>4. Len(r) + Len(<<>>) = Len(g) + Len(p)
  BY <1>1, <1>3
<1>5. ASSUME NEW i \in 1..Len(r) PROVE r[i] = i
  <2>1. CASE i <= Len(g)
    BY <1>1, <1>2, <2>1, SMTT(40)
  <2>2. CASE ~(i <= Len(g))
    <3>1. i - Len(g) \in 1..Len(p) /\ r[i] = p[i - Len(g)]
      BY <1>1, <1>2, <2>2
    <3>2. p[i - Len(g)] = Len(g) + (i - Len(g))
      BY <3>1
    <3>3. QED  BY <1>1, <3>1, <3>2
  <2>3. QED  BY <2>1, <2>2
<1>6. QED  BY <1>4, <1>5 DEF r

\* The loopback connection of a miner is made, and gets the lines kept for it.
LEMMA Flushed ==
  ASSUME NEW c \in Miners, Types, Types', MinerInv(c), Pipeline' = Pipeline,
         bridge[c].at = "connecting", bridge'[c].at = "connected", bridge'[c].pending = <<>>,
         got'[c] = got[c] \o bridge[c].pending, down' = down, E' = E, UNCHANGED edge
  PROVE MinerInv(c)'
<1>1. Bridged(c) /\ Bridged(c)' /\ bridge[c].pending \in Seq(Nat) /\ got[c] \in Seq(Nat)
  BY MinerTypes DEF Bridged
<1>2. /\ Announced(c)' <=> Announced(c)
      /\ ClosedThere(c)' <=> ClosedThere(c)
  BY DEF Announced, ClosedThere
<1>3. E[c].at # "new"
  BY <1>1 DEF MinerInv, Unseen
<1>4. ASSUME ~E[c].discarded PROVE /\ Read(c)' /\ Lines(c)' /\ Registered(c)' /\ Unregistered(c)'
                                   /\ (ClosedThere(c) => ~Announced(c) /\ ~Bridged(c))'
  <2>1. /\ \A i \in 1..Len(got[c]) : got[c][i] = i
        /\ \A i \in 1..Len(bridge[c].pending) : bridge[c].pending[i] = Len(got[c]) + i
    BY <1>4 DEF MinerInv, Read
  <2>2. /\ Len(got[c] \o bridge[c].pending) + Len(<<>>) = Len(got[c]) + Len(bridge[c].pending)
        /\ \A i \in 1..Len(got[c] \o bridge[c].pending) : (got[c] \o bridge[c].pending)[i] = i
    BY <1>1, <2>1, FlushedInOrder
  <2>3. Base(c)' = Base(c)
    BY <2>2, Zenon DEF Base
  <2>4. Read(c)'
    <3>1. \A i \in 1..Len(got'[c]) : got'[c][i] = i
      BY <2>2, Zenon
    <3>2. Len(bridge'[c].pending) = 0
      BY EmptySeq
    <3>3. \A i \in 1..Len(bridge'[c].pending) : bridge'[c].pending[i] = Len(got'[c]) + i
      BY <3>2
    <3>4. QED  BY <3>1, <3>3, Zenon DEF Read
  <2>5. ~Announced(c)
    BY <1>1, <1>4 DEF MinerInv, Lines
  <2>6. Lines(c)'
    BY <1>1, <1>2, <1>4, <2>3, <2>5 DEF MinerInv, Lines
  <2>7. Registered(c)' /\ Unregistered(c)'
    BY <1>1, <1>2, <1>4 DEF MinerInv, Registered, Unregistered, edge
  <2>8. QED  BY <1>1, <1>2, <1>4, <2>4, <2>6, <2>7 DEF MinerInv
<1>5. QED  BY <1>3, <1>4 DEF MinerInv, Unseen

\* The origin has closed the miner's bridge, and tells the edge.
LEMMA ToldEdge ==
  ASSUME NEW c \in Miners, Types, Types', MinerInv(c), Pipeline' = Pipeline,
         bridge[c].at # "none", bridge'[c] = NoBridge, got'[c] = got[c], E' = E, UNCHANGED edge,
         ClosedThere(c)'
  PROVE MinerInv(c)'
<1>1. Bridged(c)
  BY DEF Bridged
<1>2. bridge'[c].at = "none" /\ bridge'[c].pending = <<>> /\ Len(bridge'[c].pending) = 0 /\ ~Bridged(c)'
  BY EmptySeq DEF NoBridge, Bridged
<1>3. E[c].at # "new"
  BY <1>1 DEF MinerInv, Unseen
<1>4. ASSUME ~E[c].discarded PROVE /\ Read(c)' /\ Lines(c)' /\ Registered(c)' /\ Unregistered(c)'
                                   /\ ~Announced(c)'
  <2>1. ~Announced(c)'
    BY <1>1, <1>4 DEF MinerInv, Lines, Announced
  <2>2. Read(c)' /\ Lines(c)'
    BY <1>2, <1>4, <2>1 DEF MinerInv, Read, Lines
  <2>3. Registered(c)' /\ Unregistered(c)'
    BY <1>2, <1>4, <2>1 DEF MinerInv, Registered, Unregistered, edge
  <2>4. QED  BY <2>1, <2>2, <2>3
<1>5. QED  BY <1>2, <1>3, <1>4 DEF MinerInv, Unseen

\* The edge reads that the origin has.
LEMMA CutOff ==
  ASSUME NEW c \in Miners, Types, Types', MinerInv(c), Pipeline' = Pipeline,
         bridge' = bridge, got' = got, c \notin sessions', ClosedThere(c), 
         E'[c].at = E[c].at, E'[c].dropped = E[c].dropped, E'[c].discarded = E[c].discarded, E'[c].sent = E[c].sent,
         IF c \in sessions THEN E'[c].shut ELSE E'[c].shut = E[c].shut
  PROVE MinerInv(c)'
<1>1. /\ Announced(c)' <=> Announced(c)
      /\ Bridged(c)' <=> Bridged(c)
      /\ Base(c)' = Base(c)
  BY DEF Announced, Bridged, Base
<1>2. E[c].at # "new"
  BY DEF MinerInv, Unseen
<1>3. ASSUME ~E[c].discarded PROVE /\ Read(c)' /\ Lines(c)' /\ Registered(c)' /\ Unregistered(c)'
                                   /\ ~Announced(c)' /\ ~Bridged(c)'
  <2>1. ~Announced(c)' /\ ~Bridged(c)'
    BY <1>1, <1>3 DEF MinerInv
  <2>2. Read(c)' /\ Lines(c)'
    BY <1>1, <1>3 DEF MinerInv, Read, Lines
  <2>3. Registered(c)' /\ Unregistered(c)'
    BY <1>3, <2>1 DEF MinerInv, Registered, Unregistered
  <2>4. QED  BY <2>1, <2>2, <2>3
<1>4. QED  BY <1>2, <1>3 DEF MinerInv, Unseen

(***************************************************************************)
(* One queue behind another.                                               *)
(***************************************************************************)

LEMMA JoinAt ==
  ASSUME NEW S, NEW s \in Seq(S), NEW t \in Seq(S)
  PROVE /\ s \o t \in Seq(S) /\ Len(s \o t) = Len(s) + Len(t) /\ Len(s) \in Nat /\ Len(t) \in Nat
        /\ \A i \in 1..Len(s) : (s \o t)[i] = s[i]
        /\ \A i \in (Len(s) + 1)..(Len(s) + Len(t)) : (s \o t)[i] = t[i - Len(s)]
<1>1. /\ s \o t \in Seq(S) /\ Len(s \o t) = Len(s) + Len(t) /\ Len(s) \in Nat /\ Len(t) \in Nat
      /\ \A i \in 1..Len(s) + Len(t) : (s \o t)[i] = IF i <= Len(s) THEN s[i] ELSE t[i - Len(s)]
  BY ConcatProperties, LenProperties
<1>2. ASSUME NEW i \in 1..Len(s) PROVE (s \o t)[i] = s[i]
  <2>1. i <= Len(s) /\ i \in 1..Len(s) + Len(t)  BY <1>1
  <2>2. QED  BY <1>1, <2>1
<1>3. ASSUME NEW i \in (Len(s) + 1)..(Len(s) + Len(t)) PROVE (s \o t)[i] = t[i - Len(s)]
  <2>1. ~(i <= Len(s)) /\ i \in 1..Len(s) + Len(t)  BY <1>1
  <2>2. QED  BY <1>1, <2>1
<1>4. QED  BY <1>1, <1>2, <1>3

LEMMA JoinAppend ==
  ASSUME NEW S, NEW s \in Seq(S), NEW t \in Seq(S), NEW f \in S
  PROVE s \o Append(t, f) = Append(s \o t, f)
<1> DEFINE w == Append(t, f)
<1> DEFINE q == s \o t
<1> DEFINE a == s \o w
<1> DEFINE b == Append(q, f)
<1>1. /\ w \in Seq(S) /\ Len(w) = Len(t) + 1
      /\ w[Len(t) + 1] = f /\ \A i \in 1..Len(t) : w[i] = t[i]
  BY AppendProperties
<1>2. /\ q \in Seq(S) /\ Len(q) = Len(s) + Len(t)
      /\ \A i \in 1..Len(s) : q[i] = s[i]
      /\ \A i \in (Len(s) + 1)..(Len(s) + Len(t)) : q[i] = t[i - Len(s)]
  BY JoinAt
<1> HIDE DEF w, q
<1>3. /\ a \in Seq(S) /\ Len(a) = Len(s) + (Len(t) + 1)
      /\ \A i \in 1..Len(s) : a[i] = s[i]
      /\ \A i \in (Len(s) + 1)..(Len(s) + (Len(t) + 1)) : a[i] = w[i - Len(s)]
  <2>1. /\ a \in Seq(S) /\ Len(a) = Len(s) + Len(w)
        /\ \A i \in 1..Len(s) : a[i] = s[i]
        /\ \A i \in (Len(s) + 1)..(Len(s) + Len(w)) : a[i] = w[i - Len(s)]
    BY <1>1, JoinAt, ZenonT(60)
  <2>2. QED  BY <1>1, <2>1, SMTT(40)
<1>4. /\ b \in Seq(S) /\ Len(b) = Len(s) + Len(t) + 1
      /\ b[Len(s) + Len(t) + 1] = f /\ \A i \in 1..(Len(s) + Len(t)) : b[i] = q[i]
  BY <1>2, AppendProperties
<1>5. Len(s) \in Nat /\ Len(t) \in Nat
  BY LenProperties
<1> HIDE DEF a, b
<1>6. ASSUME NEW i \in 1..Len(a) PROVE a[i] = b[i]
  <2>1. CASE i <= Len(s)
    <3>1. i \in 1..Len(s) /\ i \in 1..(Len(s) + Len(t))
      BY <1>5, <2>1
    <3>2. QED  BY <1>2, <1>3, <1>4, <3>1
  <2>2. CASE i > Len(s) /\ i <= Len(s) + Len(t)
    <3>1. i - Len(s) \in 1..Len(t) /\ a[i] = w[i - Len(s)]
      BY <1>3, <1>5, <2>2
    <3>2. a[i] = t[i - Len(s)]
      BY <1>1, <3>1
    <3>3. i \in 1..(Len(s) + Len(t)) /\ i \in (Len(s) + 1)..(Len(s) + Len(t))
      BY <1>5, <2>2
    <3>4. b[i] = t[i - Len(s)]
      BY <1>2, <1>4, <3>3
    <3>5. QED  BY <3>2, <3>4
  <2>3. CASE i = Len(s) + Len(t) + 1
    <3>1. i - Len(s) = Len(t) + 1
      BY <1>5, <2>3
    <3>2. QED  BY <1>1, <1>3, <1>4, <1>5, <2>3, <3>1
  <2>4. i <= Len(s) \/ (i > Len(s) /\ i <= Len(s) + Len(t)) \/ i = Len(s) + Len(t) + 1
    BY <1>3, <1>5
  <2>5. QED  BY <2>1, <2>2, <2>3, <2>4
<1>7. Len(a) = Len(b)
  BY <1>3, <1>4, <1>5
<1>8. a = b
  BY <1>3, <1>4, <1>6, <1>7, SeqEqual
<1>9. QED  BY <1>8 DEF a, b, w, q

LEMMA HeadIsFirst ==
  ASSUME NEW S, NEW s \in Seq(S), s # <<>>
  PROVE /\ Head(s) = s[1] /\ Head(s) \in S /\ Tail(s) \in Seq(S)
        /\ Len(s) \in Nat /\ Len(s) >= 1 /\ Len(Tail(s)) = Len(s) - 1
        /\ \A i \in 1..(Len(s) - 1) : Tail(s)[i] = s[i + 1]
<1>1. Len(s) \in Nat /\ Len(s) >= 1
  BY EmptySeq
<1>2. Head(s) = s[1]
  OBVIOUS
<1>3. QED  BY <1>1, <1>2, HeadTailProperties

LEMMA JoinTail ==
  ASSUME NEW S, NEW s \in Seq(S), NEW t \in Seq(S), s # <<>>
  PROVE s \o t # <<>> /\ Head(s \o t) = Head(s) /\ Tail(s \o t) = Tail(s) \o t
<1> DEFINE q == s \o t
<1>1. /\ q \in Seq(S) /\ Len(q) = Len(s) + Len(t)
      /\ \A i \in 1..Len(s) : q[i] = s[i]
      /\ \A i \in (Len(s) + 1)..(Len(s) + Len(t)) : q[i] = t[i - Len(s)]
  BY JoinAt
<1>2. Len(s) \in Nat /\ Len(t) \in Nat /\ Len(s) >= 1 /\ Head(s) = s[1] /\ Tail(s) \in Seq(S)
      /\ Len(Tail(s)) = Len(s) - 1 /\ \A i \in 1..(Len(s) - 1) : Tail(s)[i] = s[i + 1]
  BY HeadIsFirst, LenProperties
<1> DEFINE w == Tail(s)
<1> HIDE DEF q
<1>3. q # <<>>
  BY <1>1, <1>2, EmptySeq
<1> DEFINE a == Tail(q)
<1> DEFINE b == w \o t
<1>4. /\ a \in Seq(S) /\ Len(a) = Len(q) - 1 /\ Head(q) = q[1]
      /\ \A i \in 1..(Len(q) - 1) : a[i] = q[i + 1]
  BY <1>1, <1>3, HeadIsFirst
<1>5. /\ b \in Seq(S) /\ Len(b) = Len(w) + Len(t) /\ Len(w) = Len(s) - 1
      /\ \A i \in 1..Len(w) : b[i] = w[i] /\ w[i] = s[i + 1]
      /\ \A i \in (Len(w) + 1)..(Len(w) + Len(t)) : b[i] = t[i - Len(w)]
  BY <1>2, JoinAt
<1> DEFINE m == Len(s)
<1> DEFINE k == Len(t)
<1>5a. m \in Nat /\ k \in Nat /\ m >= 1 /\ Len(w) = m - 1 /\ Len(q) = m + k /\ Len(a) = m + k - 1 /\ Len(b) = m + k - 1
  BY <1>1, <1>2, <1>4, <1>5
<1> HIDE DEF a, b, w, m, k
<1>6. ASSUME NEW i \in 1..Len(a) PROVE a[i] = b[i]
  <2>1. i + 1 \in 1..Len(q) /\ a[i] = q[i + 1]
    BY <1>1, <1>2, <1>4
  <2>2. CASE i < m
    <3>1. i \in 1..Len(w) /\ i + 1 \in 1..m
      BY <1>5a, <2>2
    <3>2. b[i] = s[i + 1]
      BY <1>5, <3>1, SMTT(40)
    <3>3. q[i + 1] = s[i + 1]
      BY <1>1, <3>1 DEF m
    <3>4. QED  BY <2>1, <3>2, <3>3
  <2>3. CASE ~(i < m)
    <3>1. i - Len(w) = (i + 1) - m /\ i \in (Len(w) + 1)..(Len(w) + k) /\ i + 1 \in (m + 1)..(m + k)
      BY <1>5a, <2>3
    <3>2. b[i] = t[i - Len(w)]
      BY <1>5, <3>1, SMTT(40) DEF k
    <3>3. q[i + 1] = t[(i + 1) - m]
      BY <1>1, <3>1, SMTT(40) DEF m, k
    <3>4. QED  BY <2>1, <3>1, <3>2, <3>3
  <2>4. QED  BY <2>2, <2>3
<1>7. a = b
  BY <1>5a, <1>4, <1>5, <1>6, SeqEqual, SMTT(40)
<1>8. Head(q) = Head(s)
  BY <1>1, <1>2, <1>4
<1>9. QED  BY <1>3, <1>7, <1>8 DEF a, b, q, w

LEMMA JoinMove ==
  ASSUME NEW S, NEW s \in Seq(S), NEW t \in Seq(S), t # <<>>
  PROVE Append(s, Head(t)) \o Tail(t) = s \o t
<1>1. Head(t) \in S /\ Tail(t) \in Seq(S) /\ Head(t) = t[1] /\ Len(t) \in Nat /\ Len(t) >= 1
      /\ Len(Tail(t)) = Len(t) - 1 /\ \A i \in 1..(Len(t) - 1) : Tail(t)[i] = t[i + 1]
  BY HeadIsFirst
<1> DEFINE u == Append(s, Head(t))
<1> DEFINE a == u \o Tail(t)
<1> DEFINE b == s \o t
<1>2. /\ u \in Seq(S) /\ Len(u) = Len(s) + 1 /\ Len(s) \in Nat
      /\ u[Len(s) + 1] = Head(t) /\ \A i \in 1..Len(s) : u[i] = s[i]
  BY <1>1, AppendProperties, LenProperties
<1>3. /\ b \in Seq(S) /\ Len(b) = Len(s) + Len(t)
      /\ \A i \in 1..Len(s) : b[i] = s[i]
      /\ \A i \in (Len(s) + 1)..(Len(s) + Len(t)) : b[i] = t[i - Len(s)]
  BY JoinAt
<1> HIDE DEF u, b
<1>4. /\ a \in Seq(S) /\ Len(a) = Len(u) + Len(Tail(t))
      /\ \A i \in 1..Len(u) : a[i] = u[i]
      /\ \A i \in (Len(u) + 1)..(Len(u) + Len(Tail(t))) : a[i] = Tail(t)[i - Len(u)]
  BY <1>1, <1>2, JoinAt, ZenonT(60)
<1> HIDE DEF a
<1>5. ASSUME NEW i \in 1..Len(a) PROVE a[i] = b[i]
  <2>1. CASE i <= Len(s)
    BY <1>1, <1>2, <1>3, <1>4, <2>1, SMTT(40)
  <2>2. CASE i = Len(s) + 1
    <3>1. i - Len(s) = 1  BY <1>2, <2>2
    <3>2. b[i] = t[i - Len(s)]  BY <1>1, <1>2, <1>3, <2>2
    <3>3. a[i] = u[i]  BY <1>1, <1>2, <1>4, <2>2, SMTT(40)
    <3>4. QED  BY <3>1, <3>2, <3>3, <1>1, <1>2, <2>2
  <2>3. CASE i > Len(s) + 1
    <3>1. a[i] = Tail(t)[i - Len(u)]
      BY <1>2, <1>4, <2>3, SMTT(40)
    <3>2. i - Len(u) \in 1..(Len(t) - 1) /\ (i - Len(u)) + 1 = i - Len(s)
      BY <1>1, <1>2, <1>4, <2>3, SMTT(40)
    <3>3. b[i] = t[i - Len(s)]
      BY <1>1, <1>2, <1>3, <1>4, <2>3, SMTT(40)
    <3>4. QED  BY <1>1, <3>1, <3>2, <3>3, SMTT(40)
  <2>4. QED  BY <1>1, <1>2, <1>4, <2>1, <2>2, <2>3, SMTT(40)
<1>6. Len(a) = Len(b)
  BY <1>1, <1>2, <1>3, <1>4, LenProperties
<1>7. a = b
  BY <1>3, <1>4, <1>5, <1>6, SeqEqual, SMTT(40)
<1>8. QED  BY <1>7, SMTT(40) DEF a, b, u

LEMMA JoinCut ==
  ASSUME NEW s \in Seq(UpFrames), NEW t \in Seq(UpFrames)
  PROVE /\ Cut(t, s \o t, 0, Len(s)) /\ \A i \in 1..Len(s) : (s \o t)[i] = s[i]
        /\ t # <<>> => Cut(s \o Tail(t), s \o t, Len(s), 1) /\ (s \o t)[Len(s) + 1] = Head(t)
<1> DEFINE b == s \o t
<1>1. /\ b \in Seq(UpFrames) /\ Len(b) = Len(s) + Len(t) /\ Len(s) \in Nat /\ Len(t) \in Nat
      /\ \A i \in 1..Len(s) : b[i] = s[i]
      /\ \A i \in (Len(s) + 1)..(Len(s) + Len(t)) : b[i] = t[i - Len(s)]
  BY JoinAt
<1> HIDE DEF b
<1>2. Cut(t, b, 0, Len(s)) /\ \A i \in 1..Len(s) : b[i] = s[i]
  <2>1. ASSUME NEW i \in 1..Len(t) PROVE t[i] = b[i + Len(s)]
    <3> DEFINE j == i + Len(s)
    <3>1. j - Len(s) = i /\ j \in (Len(s) + 1)..(Len(s) + Len(t))
      BY <1>1
    <3> HIDE DEF j
    <3>2. b[j] = t[j - Len(s)]
      BY <1>1, <3>1, ZenonT(60)
    <3>3. t[i] = b[j]
      BY <3>1, <3>2, ZenonT(60)
    <3>4. QED  BY <3>3, ZenonT(60) DEF j
  <2>2. QED  BY <1>1, <2>1 DEF Cut
<1>3. ASSUME t # <<>> PROVE Cut(s \o Tail(t), b, Len(s), 1) /\ b[Len(s) + 1] = Head(t)
  <2> DEFINE a == s \o Tail(t)
  <2>1. Tail(t) \in Seq(UpFrames) /\ Head(t) = t[1] /\ Len(t) >= 1
        /\ Len(Tail(t)) = Len(t) - 1 /\ \A i \in 1..(Len(t) - 1) : Tail(t)[i] = t[i + 1]
    BY <1>3, HeadIsFirst
  <2>2. /\ a \in Seq(UpFrames) /\ Len(a) = Len(s) + Len(Tail(t))
        /\ \A i \in 1..Len(s) : a[i] = s[i]
        /\ \A i \in (Len(s) + 1)..(Len(s) + Len(Tail(t))) : a[i] = Tail(t)[i - Len(s)]
    BY <2>1, JoinAt
  <2> HIDE DEF a
  <2>3. ASSUME NEW i \in 1..Len(a) PROVE a[i] = IF i <= Len(s) THEN b[i] ELSE b[i + 1]
    <3>1. CASE i <= Len(s)
      BY <1>1, <2>1, <2>2, <3>1
    <3>2. CASE ~(i <= Len(s))
      <4>1. i - Len(s) \in 1..(Len(t) - 1) /\ (i - Len(s)) + 1 = (i + 1) - Len(s)
        BY <1>1, <2>1, <2>2, <3>2
      <4>2. a[i] = t[(i + 1) - Len(s)]
        BY <2>1, <2>2, <3>2, <4>1
      <4>3. b[i + 1] = t[(i + 1) - Len(s)]
        BY <1>1, <2>1, <2>2, <3>2, SMTT(40)
      <4>4. QED  BY <3>2, <4>2, <4>3
    <3>3. QED  BY <3>1, <3>2
  <2>4. Cut(a, b, Len(s), 1)
    BY <1>1, <2>1, <2>2, <2>3 DEF Cut
  <2>5. b[Len(s) + 1] = Head(t)
    <3>1. (Len(s) + 1) - Len(s) = 1 /\ Len(s) + 1 \in 1..(Len(s) + Len(t)) /\ ~(Len(s) + 1 <= Len(s))
      BY <1>1, <2>1
    <3>2. QED  BY <1>1, <2>1, <3>1, SMTT(40)
  <2>6. QED  BY <2>4, <2>5 DEF a
<1>4. QED  BY <1>2, <1>3 DEF b

(***************************************************************************)
(* Types, the wire, the caps and the blocks.                               *)
(***************************************************************************)

LEMMA FrameTypes ==
  /\ \A c \in Miners, n \in Nat : /\ Frame("open", c, n) \in MinerFrames /\ Frame("data", c, n) \in MinerFrames
                                  /\ Frame("close", c, n) \in MinerFrames
                                  /\ Frame("data", c, n) \in DownFrames /\ Frame("close", c, n) \in DownFrames
  /\ \A n \in Nat : Frame("block", Nobody, n) \in DownFrames
  /\ Word("welcome") \in DownFrames /\ Word("hello") \in UpFrames /\ MinerFrames \subseteq UpFrames
BY DEF Frame, MinerFrames, DownFrames, UpFrames, Word

LEMMA EdgeTypes ==
  ASSUME NEW e \in Edges
  PROVE /\ [e EXCEPT !.at = "open"] \in Edges /\ [e EXCEPT !.sent = e.sent + 1] \in Edges
        /\ [e EXCEPT !.said = e.said + 1] \in Edges /\ [e EXCEPT !.heard = e.heard + 1] \in Edges
        /\ [e EXCEPT !.at = "closed", !.shut = FALSE] \in Edges
        /\ [e EXCEPT !.shut = TRUE] \in Edges /\ [e EXCEPT !.shut = TRUE, !.dropped = TRUE] \in Edges
        /\ [e EXCEPT !.discarded = TRUE] \in Edges /\ e.sent \in Nat /\ e.said \in Nat
<1>1. e.sent \in Nat /\ e.said \in Nat /\ e.heard \in Nat
  BY DEF Edges
<1>2. [e EXCEPT !.at = "open"] \in Edges
  BY DEF Edges
<1>3. \A n \in Nat : [e EXCEPT !.sent = n] \in Edges /\ [e EXCEPT !.said = n] \in Edges
        /\ [e EXCEPT !.heard = n] \in Edges
  BY DEF Edges
<1>4. [e EXCEPT !.at = "closed", !.shut = FALSE] \in Edges
  BY DEF Edges
<1>5. [e EXCEPT !.shut = TRUE] \in Edges /\ [e EXCEPT !.discarded = TRUE] \in Edges
  BY DEF Edges
<1>6. [e EXCEPT !.shut = TRUE, !.dropped = TRUE] \in Edges
  BY DEF Edges
<1>7. e.sent + 1 \in Nat /\ e.said + 1 \in Nat /\ e.heard + 1 \in Nat
  BY <1>1
<1>8. QED  BY <1>1, <1>2, <1>3, <1>4, <1>5, <1>6, <1>7

LEMMA DownFields ==
  ASSUME NEW f \in DownFrames
  PROVE /\ f.t \in {"data", "close"} => f.cid \in Miners
        /\ f.t \in {"data", "close", "block", "welcome"} /\ f.line \in Nat
BY TrunkConstants DEF DownFrames, Word, Frame

LEMMA HeadTyped ==
  ASSUME NEW S, NEW s \in Seq(S), s # <<>>
  PROVE Head(s) \in S /\ Tail(s) \in Seq(S)
BY HeadTailProperties

LEMMA BridgeTypes ==
  ASSUME NEW b \in Bridges
  PROVE /\ NoBridge \in Bridges /\ [b EXCEPT !.at = "connecting"] \in Bridges
        /\ \A n \in Nat : [b EXCEPT !.pending = Append(b.pending, n)] \in Bridges
        /\ [at |-> "connected", pending |-> <<>>] \in Bridges
        /\ b.pending \in Seq(Nat)
<1>1. b.pending \in Seq(Nat) /\ b.at \in {"none", "connecting", "connected"} /\ <<>> \in Seq(Nat)
  BY EmptySeq DEF Bridges
<1>2. \A n \in Nat : Append(b.pending, n) \in Seq(Nat)
  BY <1>1, AppendProperties
<1>3. ASSUME NEW p \in Seq(Nat) PROVE [b EXCEPT !.pending = p] \in Bridges
  BY <1>1 DEF Bridges
<1>4. NoBridge \in Bridges /\ [b EXCEPT !.at = "connecting"] \in Bridges
      /\ [at |-> "connected", pending |-> <<>>] \in Bridges
  BY <1>1 DEF Bridges, NoBridge
<1>5. QED  BY <1>1, <1>2, <1>3, <1>4

LEMMA TypesKept ==
  ASSUME Types, [Next]_vars
  PROVE Types'
<1> USE DEF Types
<1>1. CASE UNCHANGED vars
  BY <1>1 DEF vars
<1>2. ASSUME NEW c \in Miners, AttachMiner(c) PROVE Types'
  <2>1. E' \in [Miners -> Edges]
    BY <1>2, EdgeTypes DEF AttachMiner
  <2>2. posted' \in Seq(MinerFrames)
    BY <1>2, FrameTypes, AppendProperties DEF AttachMiner
  <2>3. QED  BY <1>2, <2>1, <2>2, SMTT(40) DEF AttachMiner, origin
<1>3. ASSUME NEW c \in Miners, MinerLine(c) PROVE Types'
  <2>1. E' \in [Miners -> Edges] /\ E[c].sent + 1 \in Nat
    <3>1. [E[c] EXCEPT !.sent = E[c].sent + 1] \in Edges /\ E[c].sent \in Nat
      BY EdgeTypes
    <3>2. E' = [E EXCEPT ![c] = [E[c] EXCEPT !.sent = E[c].sent + 1]]
      BY <1>3 DEF MinerLine
    <3>3. QED  BY <3>1, <3>2, SMTT(40)
  <2>2. posted' \in Seq(MinerFrames)
    BY <1>3, <2>1, FrameTypes, AppendProperties, SMTT(40) DEF MinerLine
  <2>3. QED  BY <1>3, <2>1, <2>2, SMTT(40) DEF MinerLine, origin
<1>4. ASSUME NEW c \in Miners, MinerGone(c) PROVE Types'
  <2>1. E' \in [Miners -> Edges]
    BY <1>4, EdgeTypes DEF MinerGone
  <2>2. posted' \in Seq(MinerFrames)
    BY <1>4, FrameTypes, AppendProperties DEF MinerGone, Detach
  <2>3. QED  BY <1>4, <2>1, <2>2, SMTT(40) DEF MinerGone, Detach, origin
<1>5. CASE RunPosted
  <2>1. Head(posted) \in MinerFrames /\ Tail(posted) \in Seq(MinerFrames)
    BY <1>5, HeadTyped DEF RunPosted
  <2>2. Head(posted) \in UpFrames /\ Head(posted).cid \in Miners
    BY <2>1, FrameTypes DEF MinerFrames
  <2>3. Append(up, Head(posted)) \in Seq(UpFrames) /\ Append(out, Head(posted)) \in Seq(MinerFrames)
    BY <2>1, <2>2, AppendProperties
  <2>4. Discarded(Head(posted)) \in [Miners -> Edges]
    BY <2>2, EdgeTypes DEF Discarded
  <2>5. up' \in Seq(UpFrames) /\ out' \in Seq(MinerFrames) /\ E' \in [Miners -> Edges]
    BY <1>5, <2>3, <2>4 DEF RunPosted
  <2>6. QED  BY <1>5, <2>1, <2>5, SMTT(40) DEF RunPosted, origin
<1>6. CASE Connect
  BY <1>6 DEF Connect, origin
<1>7. CASE Connected
  <2>1. <<Word("hello")>> \in Seq(UpFrames)
    BY FrameTypes
  <2>2. QED  BY <1>7, <2>1 DEF Connected, origin
<1>8. ASSUME Severed PROVE conn' = "closing" /\ up' \in Seq(UpFrames) /\ down' \in Seq(DownFrames)
                           /\ hello' \in BOOLEAN /\ bridge' \in [Miners -> Bridges]
  <2>1. \A c \in Miners : NoBridge \in Bridges
    BY BridgeTypes
  <2>2. QED  BY <1>8, <2>1, EmptySeq DEF Severed
<1>9. ASSUME Drop PROVE drops' \in 0..MaxDrops
  BY <1>9, TrunkConstants DEF Drop
<1>10. CASE LoseTrunk
  <2>1. drops' \in 0..MaxDrops
    BY <1>9, <1>10 DEF LoseTrunk
  <2>2. conn' = "closing" /\ up' \in Seq(UpFrames) /\ down' \in Seq(DownFrames)
        /\ hello' \in BOOLEAN /\ bridge' \in [Miners -> Bridges]
    BY <1>8, <1>10 DEF LoseTrunk
  <2>3. UNCHANGED <<running, welcomed, sessions, posted, out, E, got, blocks>>
    BY <1>10 DEF LoseTrunk
  <2>4. QED  BY <2>1, <2>2, <2>3, ZenonT(60)
<1>11. ASSUME DropAll PROVE E' \in [Miners -> Edges] /\ sessions' \in SUBSET Miners
  <2>1. \A c \in Miners : [E[c] EXCEPT !.shut = TRUE, !.dropped = TRUE] \in Edges /\ E[c] \in Edges
    BY EdgeTypes
  <2>2. QED  BY <1>11, <2>1, ZenonT(60) DEF DropAll
<1>12. CASE OnClose
  BY <1>11, <1>12, EmptySeq DEF OnClose, origin
<1>13. CASE Stop
  BY <1>8, <1>9, <1>11, <1>13, EmptySeq DEF Stop
<1>14. CASE OnFrame
  <2>1. Head(down) \in DownFrames /\ Tail(down) \in Seq(DownFrames)
    BY <1>14, HeadTyped DEF OnFrame
  <2>2. \A s \in Seq(MinerFrames) : s \in Seq(UpFrames)
    BY FrameTypes
  <2>3. up \o out \in Seq(UpFrames)
    BY <2>2, ConcatProperties
  <2>4. CASE OnWelcome
    BY <1>14, <2>1, <2>3, <2>4, EmptySeq, SMTT(40) DEF OnFrame, OnWelcome, origin
  <2>5. CASE OnData(Head(down))
    <3>1. E' \in [Miners -> Edges]
      BY <2>5, EdgeTypes DEF OnData
    <3>2. QED  BY <1>14, <2>1, <2>5, <3>1, SMTT(40) DEF OnFrame, OnData, origin
  <2>6. CASE OnCloseFrame(Head(down))
    <3>1. E' \in [Miners -> Edges]
      BY <2>6, EdgeTypes DEF OnCloseFrame
    <3>2. QED  BY <1>14, <2>1, <2>6, <3>1, SMTT(40) DEF OnFrame, OnCloseFrame, origin
  <2>7. CASE SubmitBlock
    <3>1. blocks.submitted \in Nat /\ blocks.submitted + 1 \in Nat
      OBVIOUS
    <3>2. blocks' \in [found : Nat, submitted : Nat]
      BY <2>7, <3>1 DEF SubmitBlock
    <3>3. QED  BY <1>14, <2>1, <2>7, <3>2 DEF OnFrame, SubmitBlock, origin
  <2>8. QED  BY <1>14, <2>4, <2>5, <2>6, <2>7 DEF OnFrame
<1>15. CASE OnLine
  <2> DEFINE f == Head(up)
  <2>1. f \in UpFrames /\ Tail(up) \in Seq(UpFrames)
    BY <1>15, HeadTyped DEF OnLine
  <2>2. f.line \in Nat /\ (f.t # "hello" => f.cid \in Miners)
    BY <2>1, SMTT(40) DEF UpFrames, MinerFrames, Word, Frame
  <2> HIDE DEF f
  <2>3. CASE HandleHello
    <3>1. down' \in Seq(DownFrames)
      BY <2>3, FrameTypes, AppendProperties DEF HandleHello
    <3>2. QED  BY <1>15, <2>1, <2>3, <3>1, SMTT(40) DEF OnLine, HandleHello, edge
  <2>4. CASE f.t = "open" /\ OpenClient(f.cid)
    <3>1. bridge' \in [Miners -> Bridges]
      <4>1. f.cid \in Miners /\ bridge[f.cid] \in Bridges
        BY <2>2, <2>4
      <4>2. [bridge[f.cid] EXCEPT !.at = "connecting"] \in Bridges
        BY <4>1, BridgeTypes, SMTT(40)
      <4>3. bridge' = bridge \/ bridge' = [bridge EXCEPT ![f.cid] = [bridge[f.cid] EXCEPT !.at = "connecting"]]
        BY <2>4 DEF OpenClient
      <4>4. QED  BY <4>1, <4>2, <4>3, ZenonT(60)
    <3>2. QED  BY <1>15, <2>1, <2>4, <3>1 DEF OnLine, OpenClient, edge
  <2>5. CASE f.t = "data" /\ ClientData(f)
    <3>1. f.cid \in Miners /\ bridge[f.cid] \in Bridges /\ got[f.cid] \in Seq(Nat) /\ E[f.cid] \in Edges
      BY <2>2, <2>5
    <3>2. bridge' \in [Miners -> Bridges]
      BY <2>2, <2>5, <3>1, BridgeTypes DEF ClientData
    <3>3. got' \in [Miners -> Seq(Nat)]
      <4>1. Append(got[f.cid], f.line) \in Seq(Nat)
        BY <2>2, <3>1, AppendProperties
      <4>2. QED  BY <2>5, <4>1 DEF ClientData
    <3>4. E' \in [Miners -> Edges]
      BY <2>5, <3>1, EdgeTypes DEF ClientData, Discarded
    <3>5. QED  BY <1>15, <2>1, <2>5, <3>2, <3>3, <3>4 DEF OnLine, ClientData, edge
  <2>6. CASE f.t = "close" /\ CloseClient(f.cid)
    <3>1. bridge' \in [Miners -> Bridges]
      BY <2>2, <2>6, BridgeTypes DEF CloseClient
    <3>2. QED  BY <1>15, <2>1, <2>6, <3>1, SMTT(40) DEF OnLine, CloseClient, edge
  <2>7. QED  BY <1>15, <2>3, <2>4, <2>5, <2>6 DEF OnLine, f
<1>16. ASSUME NEW c \in Miners, LoopbackConnected(c) PROVE Types'
  <2>1. bridge' \in [Miners -> Bridges]
    BY <1>16, BridgeTypes DEF LoopbackConnected
  <2>2. got[c] \o bridge[c].pending \in Seq(Nat)
    BY BridgeTypes, ConcatProperties
  <2>3. got' \in [Miners -> Seq(Nat)]
    BY <1>16, <2>2 DEF LoopbackConnected
  <2>4. QED  BY <1>16, <2>1, <2>3, SMTT(40) DEF LoopbackConnected, edge
<1>17. ASSUME NEW c \in Miners, LoopbackLine(c) PROVE Types'
  <2>1. E' \in [Miners -> Edges] /\ E[c].said + 1 \in Nat
    <3>1. [E[c] EXCEPT !.said = E[c].said + 1] \in Edges /\ E[c].said \in Nat
      BY EdgeTypes
    <3>2. E' = [E EXCEPT ![c] = [E[c] EXCEPT !.said = E[c].said + 1]]
      BY <1>17 DEF LoopbackLine
    <3>3. QED  BY <3>1, <3>2, SMTT(40)
  <2>2. down' \in Seq(DownFrames)
    BY <1>17, <2>1, FrameTypes, AppendProperties, SMTT(40) DEF LoopbackLine
  <2>3. QED  BY <1>17, <2>1, <2>2, SMTT(40) DEF LoopbackLine, edge, origin
<1>18. ASSUME NEW c \in Miners, LoopbackClosed(c) PROVE Types'
  <2>1. bridge' \in [Miners -> Bridges]
    BY <1>18, BridgeTypes DEF LoopbackClosed
  <2>2. down' \in Seq(DownFrames)
    BY <1>18, FrameTypes, AppendProperties DEF LoopbackClosed
  <2>3. QED  BY <1>18, <2>1, <2>2, SMTT(40) DEF LoopbackClosed, edge
<1>19. CASE OnRawblock
  <2>1. blocks' \in [found : Nat, submitted : Nat] /\ blocks.found + 1 \in Nat
    <3>1. blocks.found \in Nat /\ blocks.found + 1 \in Nat
      OBVIOUS
    <3>2. QED  BY <1>19, <3>1 DEF OnRawblock
  <2>2. down' \in Seq(DownFrames)
    BY <1>19, <2>1, FrameTypes, AppendProperties DEF OnRawblock
  <2>3. QED  BY <1>19, <2>1, <2>2, SMTT(40) DEF OnRawblock, edge, origin
<1> HIDE DEF Types
<1>20. QED
  BY <1>1, <1>2, <1>3, <1>4, <1>5, <1>6, <1>7, <1>10, <1>12, <1>13, <1>14, <1>15, <1>16, <1>17, <1>18, <1>19
  DEF Next, ShutDown

LEMMA WireKept ==
  ASSUME Types, Types', Wire, [Next]_vars
  PROVE Wire'
<1>1. CASE UNCHANGED vars
  BY <1>1 DEF vars, Wire
<1>2. ASSUME NEW c \in Miners, AttachMiner(c) \/ MinerLine(c) \/ MinerGone(c) \/ LoopbackLine(c) PROVE Wire'
  <2>1. CASE LoopbackLine(c)
    <3>1. conn = "up"
      BY <2>1 DEF LoopbackLine, Wire, NoBridge
    <3>2. QED  BY <2>1, <3>1 DEF LoopbackLine, Wire, edge, origin
  <2>2. QED  BY <1>2, <2>1 DEF AttachMiner, MinerLine, MinerGone, Wire, origin
<1>3. CASE RunPosted
  <2>1. CASE ~running \/ (welcomed /\ conn = "closing")
    BY <1>3, <2>1 DEF RunPosted, Wire, origin
  <2>2. CASE ~(~running \/ (welcomed /\ conn = "closing")) /\ welcomed
    BY <1>3, <2>2 DEF RunPosted, Wire, origin
  <2>3. CASE ~(~running \/ (welcomed /\ conn = "closing")) /\ ~welcomed
    BY <1>3, <2>3 DEF RunPosted, Wire, origin
  <2>4. QED  BY <2>1, <2>2, <2>3
<1>4. CASE Connect
  BY <1>4 DEF Connect, Wire, origin
<1>5. CASE Connected
  BY <1>5 DEF Connected, Wire, origin
<1>6. CASE LoseTrunk
  BY <1>6 DEF LoseTrunk, Severed, Wire
<1>7. CASE OnClose
  BY <1>7 DEF OnClose, Wire, origin
<1>8. CASE Stop
  <2>1. CASE conn \in {"dialing", "up"}
    BY <1>8, <2>1 DEF Stop, Severed, Wire
  <2>2. CASE conn \notin {"dialing", "up"}
    <3>1. conn \in {"down", "closing"}
      BY <2>2 DEF Types
    <3>2. QED  BY <1>8, <2>2, <3>1 DEF Stop, Wire
  <2>3. QED  BY <2>1, <2>2
<1>9. CASE OnFrame
  <2>1. conn = "up" /\ running
    BY <1>9 DEF OnFrame, Wire
  <2>2. out' = <<>> \/ (out' = out /\ welcomed' = welcomed)
    BY <1>9 DEF OnFrame, OnWelcome, OnData, OnCloseFrame, SubmitBlock
  <2>3. conn' = "up" /\ running'
    BY <1>9, <2>1 DEF OnFrame
  <2>4. QED  BY <2>1, <2>2, <2>3 DEF Wire
<1>10. CASE OnLine
  <2>1. conn = "up" /\ running
    BY <1>10 DEF OnLine, Wire
  <2>2. QED  BY <1>10, <2>1 DEF OnLine, Wire, edge
<1>11. ASSUME NEW c \in Miners, LoopbackConnected(c) \/ LoopbackClosed(c) PROVE Wire'
  <2>1. bridge[c].at # "none"
    BY <1>11 DEF LoopbackConnected, LoopbackClosed
  <2>2. conn = "up" /\ running
    BY <2>1 DEF Wire, NoBridge
  <2>3. conn' = conn /\ running' = running /\ welcomed' = welcomed /\ out' = out
    BY <1>11 DEF LoopbackConnected, LoopbackClosed, edge
  <2>4. QED  BY <2>2, <2>3 DEF Wire
<1>12. CASE OnRawblock
  BY <1>12 DEF OnRawblock, Wire, edge, origin
<1>13. QED
  BY <1>1, <1>2, <1>3, <1>4, <1>5, <1>6, <1>7, <1>8, <1>9, <1>10, <1>11, <1>12 DEF Next, ShutDown

LEMMA CapsKept ==
  ASSUME Types, Caps, [Next]_vars
  PROVE Caps'
<1>1. Len(<<>>) = 0
  BY EmptySeq
<1>2. Len(out') <= OutCap
  <2>1. CASE RunPosted
    <3>1. Len(Append(out, Head(posted))) = Len(out) + 1 /\ Len(out) \in Nat
      <4>1. Head(posted) \in MinerFrames /\ out \in Seq(MinerFrames)
        BY <2>1, HeadTyped DEF RunPosted, Types
      <4>2. QED  BY <4>1, AppendProperties, LenProperties
    <3>2. QED  BY <2>1, <3>1, TrunkConstants DEF RunPosted, Caps
  <2>2. CASE out' = out \/ out' = <<>>
    BY <2>2, <1>1, TrunkConstants, SMTT(40) DEF Caps
  <2>3. QED
    BY <2>1, <2>2, ZenonT(60) DEF Next, vars, AttachMiner, MinerLine, MinerGone, ShutDown, Connect, Connected,
       LoseTrunk, OnClose, Stop, OnFrame, OnWelcome, OnData, OnCloseFrame, SubmitBlock, OnLine, LoopbackConnected, LoopbackLine,
       LoopbackClosed, OnRawblock, edge
<1>3. ASSUME NEW c \in Miners PROVE Len(bridge'[c].pending) <= PendCap
  <2>1. NoBridge.pending = <<>>
    BY DEF NoBridge
  <2>2. CASE OnLine
    <3>1. Head(up) \in UpFrames
      BY <2>2, HeadTyped DEF OnLine, Types
    <3>2. CASE HandleHello \/ (Head(up).t = "open" /\ OpenClient(Head(up).cid))
                \/ (Head(up).t = "close" /\ CloseClient(Head(up).cid))
      <4>1. bridge'[c].pending = bridge[c].pending \/ bridge'[c].pending = <<>>
        <5>1. bridge \in [Miners -> Bridges] /\ bridge[c] \in Bridges
          BY DEF Types
        <5>2. CASE HandleHello
          BY <5>2 DEF HandleHello
        <5>3. CASE OpenClient(Head(up).cid)
          BY <5>1, <5>3 DEF OpenClient, Bridges
        <5>4. CASE CloseClient(Head(up).cid)
          BY <5>1, <5>4, <2>1, SMTT(40) DEF CloseClient
        <5>5. QED  BY <3>2, <5>2, <5>3, <5>4
      <4>2. QED  BY <4>1, <1>1, TrunkConstants DEF Caps
    <3>3. CASE ClientData(Head(up))
      <4>1. CASE bridge' = bridge
        BY <4>1 DEF Caps
      <4>2. CASE /\ Len(bridge[Head(up).cid].pending) < PendCap
                 /\ bridge' = [bridge EXCEPT ![Head(up).cid].pending = Append(@, Head(up).line)]
        <5>1. bridge[c].pending \in Seq(Nat) /\ Head(up).line \in Nat
          <6>1. bridge[c] \in Bridges
            BY DEF Types
          <6>2. Head(up).line \in Nat
            BY <3>1 DEF UpFrames, MinerFrames, Word, Frame
          <6>3. QED  BY <6>1, <6>2, BridgeTypes
        <5>2. Len(Append(bridge[c].pending, Head(up).line)) = Len(bridge[c].pending) + 1
                /\ Len(bridge[c].pending) \in Nat
          BY <5>1, AppendProperties, LenProperties
        <5>3. CASE c = Head(up).cid
          <6>1. bridge'[c].pending = Append(bridge[c].pending, Head(up).line)
            BY <4>2, <5>3, ZenonT(60) DEF Types, Bridges
          <6>2. QED  BY <4>2, <5>2, <5>3, <6>1, TrunkConstants, SMTT(40)
        <5>4. CASE c # Head(up).cid
          BY <4>2, <5>4 DEF Types, Caps
        <5>5. QED  BY <5>3, <5>4
      <4>3. QED  BY <3>3, <4>1, <4>2 DEF ClientData
    <3>4. QED  BY <2>2, <3>2, <3>3 DEF OnLine
  <2>3. CASE bridge' = bridge \/ Severed \/ \E b \in Miners : LoopbackConnected(b) \/ LoopbackClosed(b)
    <3>1. bridge'[c] = bridge[c] \/ bridge'[c].pending = <<>>
      BY <2>1, <2>3, SMTT(40) DEF Severed, LoopbackConnected, LoopbackClosed, Types
    <3>2. QED  BY <3>1, <1>1, TrunkConstants DEF Caps
  <2>4. QED
    BY <2>2, <2>3 DEF Next, vars, origin, AttachMiner, MinerLine, MinerGone, ShutDown, RunPosted, Connect, Connected,
       LoseTrunk, OnClose, Stop, OnFrame, LoopbackLine, OnRawblock
<1>4. QED  BY <1>2, <1>3 DEF Caps

LEMMA NumberedTail ==
  ASSUME NEW d \in Seq(DownFrames), d # <<>>, NEW s \in Nat, NEW n \in Nat, Numbered(d, s, n)
  PROVE /\ Numbered(Tail(d), s, n)
        /\ Head(d).t = "block" => s + 1 <= n /\ Numbered(Tail(d), s + 1, n)
<1>1. /\ Head(d) = d[1] /\ Len(d) \in Nat /\ Len(d) >= 1 /\ Len(Tail(d)) = Len(d) - 1
      /\ \A i \in 1..(Len(d) - 1) : Tail(d)[i] = d[i + 1]
  BY HeadIsFirst
<1>2. \A i \in 1..Len(d) : d[i].line \in Nat
  <2>1. \A i \in 1..Len(d) : d[i] \in DownFrames
    BY LenProperties
  <2>2. QED  BY <2>1, DownFields
<1> DEFINE r == Tail(d)
<1>3. \A i \in 1..Len(r) : i + 1 \in 1..Len(d) /\ r[i] = d[i + 1]
  BY <1>1
<1> HIDE DEF r
<1>4. \A i, j \in 1..Len(r) : (i < j /\ r[i].t = "block" /\ r[j].t = "block") => r[i].line < r[j].line
  <2> SUFFICES ASSUME NEW i \in 1..Len(r), NEW j \in 1..Len(r), i < j, r[i].t = "block", r[j].t = "block"
               PROVE r[i].line < r[j].line
    OBVIOUS
  <2>1. i + 1 < j + 1 /\ i + 1 \in 1..Len(d) /\ j + 1 \in 1..Len(d)
    BY <1>3, SMTT(40)
  <2>2. QED  BY <2>1, <1>3 DEF Numbered
<1>5. Numbered(r, s, n)
  BY <1>3, <1>4 DEF Numbered
<1>6. ASSUME Head(d).t = "block" PROVE s + 1 <= n /\ Numbered(r, s + 1, n)
  <2>1. s < d[1].line /\ d[1].line <= n /\ d[1].line \in Nat
    BY <1>1, <1>2, <1>6 DEF Numbered
  <2>2. ASSUME NEW i \in 1..Len(r), r[i].t = "block" PROVE s + 1 < r[i].line /\ r[i].line <= n
    <3>1. d[1].line < d[i + 1].line /\ d[i + 1].line <= n /\ d[i + 1].line \in Nat
      BY <1>1, <1>2, <1>3, <1>6, <2>2, SMTT(40) DEF Numbered
    <3>2. QED  BY <2>1, <3>1, <1>3, SMTT(40)
  <2>3. QED  BY <2>1, <2>2, <1>4, SMTT(40) DEF Numbered
<1>7. QED  BY <1>5, <1>6 DEF r

LEMMA NumberedAppend ==
  ASSUME NEW d \in Seq(DownFrames), NEW f \in DownFrames, NEW s \in Nat, NEW n \in Nat, s <= n, Numbered(d, s, n)
  PROVE /\ f.t # "block" => Numbered(Append(d, f), s, n)
        /\ (f.t = "block" /\ f.line = n + 1) => Numbered(Append(d, f), s, n + 1)
<1> DEFINE r == Append(d, f)
<1>1. r[Len(d) + 1] = f /\ Len(r) = Len(d) + 1 /\ Len(d) \in Nat /\ \A i \in 1..Len(d) : r[i] = d[i]
  BY AppendProperties, LenProperties
<1>2. \A i \in 1..Len(d) : d[i].line \in Nat
  <2>1. \A i \in 1..Len(d) : d[i] \in DownFrames
    BY LenProperties
  <2>2. QED  BY <2>1, DownFields
<1> HIDE DEF r
<1>3. \A i \in 1..Len(r) : (i \in 1..Len(d) /\ r[i] = d[i]) \/ (i = Len(d) + 1 /\ r[i] = f)
  BY <1>1
<1>4. ASSUME f.t # "block" PROVE Numbered(r, s, n)
  BY <1>1, <1>3, <1>4 DEF Numbered
<1>5. ASSUME f.t = "block", f.line = n + 1 PROVE Numbered(r, s, n + 1)
  <2>1. \A i \in 1..Len(r) : r[i].t = "block" => s < r[i].line /\ r[i].line <= n + 1
    BY <1>2, <1>3, <1>5, SMTT(40) DEF Numbered
  <2>2. \A i, j \in 1..Len(r) : (i < j /\ r[i].t = "block" /\ r[j].t = "block") => r[i].line < r[j].line
    <3> SUFFICES ASSUME NEW i \in 1..Len(r), NEW j \in 1..Len(r), i < j, r[i].t = "block", r[j].t = "block"
                 PROVE r[i].line < r[j].line
      OBVIOUS
    <3>1. i \in 1..Len(d) /\ r[i] = d[i]
      BY <1>1
    <3>2. d[i].line <= n /\ d[i].line \in Nat
      BY <3>1, <1>2 DEF Numbered
    <3>3. CASE j \in 1..Len(d) /\ r[j] = d[j]
      BY <3>1, <3>3 DEF Numbered
    <3>4. CASE r[j] = f
      BY <3>1, <3>2, <3>4, <1>5, SMTT(40)
    <3>5. QED  BY <1>3, <3>3, <3>4
  <2>3. QED  BY <2>1, <2>2 DEF Numbered
<1>6. QED  BY <1>4, <1>5 DEF r

LEMMA BlocksKept ==
  ASSUME Types, BlocksInOrder, [Next]_vars
  PROVE BlocksInOrder'
<1>1. /\ blocks \in [found : Nat, submitted : Nat] /\ blocks.found \in Nat /\ blocks.submitted \in Nat
      /\ down \in Seq(DownFrames)
      /\ blocks.found <= MaxBlocks /\ blocks.submitted <= blocks.found /\ Numbered(down, blocks.submitted, blocks.found)
  BY DEF Types, BlocksInOrder
<1>2. ASSUME blocks' = blocks, down' = <<>> PROVE BlocksInOrder'
  <2>1. Numbered(<<>>, blocks.submitted, blocks.found)
    BY EmptySeq DEF Numbered
  <2>2. QED  BY <1>1, <1>2, <2>1 DEF BlocksInOrder
<1>3. ASSUME blocks' = blocks, down' = down PROVE BlocksInOrder'
  BY <1>1, <1>3 DEF BlocksInOrder
<1>4. ASSUME NEW f \in DownFrames, f.t # "block", blocks' = blocks, down' = Append(down, f) PROVE BlocksInOrder'
  <2>1. Numbered(Append(down, f), blocks.submitted, blocks.found)
    BY <1>1, <1>4, NumberedAppend
  <2>2. QED  BY <1>1, <1>4, <2>1 DEF BlocksInOrder
<1>5. CASE OnFrame
  <2>1. Numbered(Tail(down), blocks.submitted, blocks.found)
        /\ (Head(down).t = "block" =>
              blocks.submitted + 1 <= blocks.found /\ Numbered(Tail(down), blocks.submitted + 1, blocks.found))
    BY <1>1, <1>5, NumberedTail DEF OnFrame
  <2>2. CASE blocks' = blocks
    BY <1>1, <1>5, <2>1, <2>2 DEF OnFrame, BlocksInOrder
  <2>3. CASE Head(down).t = "block" /\ SubmitBlock /\ NodeRole
    <3>1. blocks'.found = blocks.found /\ blocks'.submitted = blocks.submitted + 1
      BY <1>1, <2>3 DEF SubmitBlock
    <3>2. QED  BY <1>1, <1>5, <2>1, <2>3, <3>1 DEF OnFrame, BlocksInOrder
  <2>4. CASE SubmitBlock /\ ~NodeRole
    <3>1. blocks'.found = blocks.found /\ blocks'.submitted = blocks.submitted
      BY <1>1, <2>4 DEF SubmitBlock
    <3>2. QED  BY <1>1, <1>5, <2>1, <3>1 DEF OnFrame, BlocksInOrder
  <2>5. QED  BY <1>5, <2>2, <2>3, <2>4 DEF OnFrame, OnWelcome, OnData, OnCloseFrame, SubmitBlock
<1>6. CASE OnRawblock
  <2> DEFINE f == Frame("block", Nobody, blocks.found + 1)
  <2>1. blocks'.found = blocks.found + 1 /\ blocks'.submitted = blocks.submitted
    BY <1>1, <1>6 DEF OnRawblock
  <2>2. f \in DownFrames /\ f.t = "block" /\ f.line = blocks.found + 1
    BY <1>1, FrameTypes DEF Frame
  <2>3. Numbered(Append(down, f), blocks.submitted, blocks.found + 1)
    BY <1>1, <2>2, NumberedAppend
  <2>4. \A i \in 1..Len(down) : down[i].line \in Nat
    <3>1. \A i \in 1..Len(down) : down[i] \in DownFrames
      BY <1>1, LenProperties
    <3>2. QED  BY <3>1, DownFields
  <2>5. Numbered(down, blocks.submitted, blocks.found + 1)
    BY <1>1, <2>4 DEF Numbered
  <2>6. down' = Append(down, f) \/ down' = down
    BY <1>6 DEF OnRawblock
  <2>7. blocks.found + 1 <= MaxBlocks
    BY <1>1, <1>6, TrunkConstants, SMTT(40) DEF OnRawblock
  <2> HIDE DEF f
  <2>8. Numbered(down', blocks.submitted, blocks.found + 1)
    BY <2>3, <2>5, <2>6
  <2>9. blocks.submitted <= blocks.found + 1
    BY <1>1
  <2>10. QED  BY <2>1, <2>7, <2>8, <2>9 DEF BlocksInOrder
<1>7. CASE OnLine
  <2>1. Word("welcome") \in DownFrames /\ Word("welcome").t # "block"
    BY FrameTypes, SMTT(40) DEF Word, Frame
  <2>2. blocks' = blocks /\ (down' = down \/ down' = Append(down, Word("welcome")))
    BY <1>7 DEF OnLine, HandleHello, OpenClient, ClientData, CloseClient
  <2>3. QED  BY <1>3, <1>4, <2>1, <2>2
<1>8. ASSUME NEW c \in Miners, LoopbackLine(c) \/ LoopbackClosed(c) PROVE BlocksInOrder'
  <2>1. Frame("close", c, 0) \in DownFrames /\ Frame("close", c, 0).t # "block"
    BY FrameTypes DEF Frame
  <2>2. E[c].said + 1 \in Nat
    <3>1. E[c] \in Edges /\ E[c].said \in Nat
      BY EdgeTypes DEF Types
    <3>2. QED  BY <3>1
  <2>3. Frame("data", c, E[c].said + 1) \in DownFrames /\ Frame("data", c, E[c].said + 1).t # "block"
    BY <2>2, FrameTypes DEF Frame
  <2>4. QED  BY <1>4, <1>8, <2>1, <2>3 DEF LoopbackLine, LoopbackClosed
<1>9. ASSUME Next, ~OnFrame, ~OnRawblock, ~OnLine, \A c \in Miners : ~LoopbackLine(c) /\ ~LoopbackClosed(c)
      PROVE blocks' = blocks /\ (down' = down \/ down' = <<>>)
  BY <1>9, ZenonT(60) DEF Next, AttachMiner, MinerLine, MinerGone, ShutDown, RunPosted, Connect, Connected,
          LoseTrunk, Severed, OnClose, Stop, LoopbackConnected
<1>10. QED
  BY <1>2, <1>3, <1>5, <1>6, <1>7, <1>8, <1>9 DEF vars

(***************************************************************************)
(* Every step keeps the invariant of every miner.                          *)
(***************************************************************************)

LEMMA SameSelf ==
  ASSUME NEW q, NEW c PROVE Same(q, q, c)
BY DEF Same

LEMMA OthersAppend ==
  ASSUME NEW q \in Seq(UpFrames), NEW f \in UpFrames, NEW c, f.cid # c
  PROVE Same(Append(q, f), q, c)
<1>1. Append(q, f) \in Seq(UpFrames) /\ Cut(q, Append(q, f), Len(q), 1)
  BY AppendCut
<1>2. Append(q, f)[Len(q) + 1] = f /\ Len(q) \in Nat
  BY AppendProperties, LenProperties
<1>3. \A j \in (Len(q) + 1)..(Len(q) + 1) : Append(q, f)[j].cid # c
  BY <1>2
<1>4. QED  BY <1>1, <1>3, CutOthers

LEMMA OthersTail ==
  ASSUME NEW q \in Seq(UpFrames), q # <<>>, NEW c, Head(q).cid # c
  PROVE Same(Tail(q), q, c)
<1>1. Tail(q) \in Seq(UpFrames) /\ Cut(Tail(q), q, 0, 1) /\ Head(q) = q[1]
  BY TailCut
<1>2. \A j \in (0 + 1)..(0 + 1) : q[j].cid # c
  BY <1>1
<1>3. QED  BY <1>1, <1>2, CutOthers

LEMMA DownTail ==
  ASSUME NEW d \in Seq(DownFrames), d # <<>>, NEW c, ~(Head(d).t = "close" /\ Head(d).cid = c)
  PROVE Has(Tail(d), "close", c) <=> Has(d, "close", c)
<1>1. /\ Head(d) = d[1] /\ Len(d) \in Nat /\ Len(d) >= 1 /\ Len(Tail(d)) = Len(d) - 1
      /\ \A i \in 1..(Len(d) - 1) : Tail(d)[i] = d[i + 1]
  BY HeadIsFirst
<1> DEFINE r == Tail(d)
<1>2. \A i \in 1..Len(r) : i + 1 \in 1..Len(d) /\ r[i] = d[i + 1]
  BY <1>1
<1>3. \A i \in 1..Len(d) : i = 1 \/ (i - 1 \in 1..Len(r) /\ r[i - 1] = d[i])
  BY <1>1
<1> HIDE DEF r
<1>4. Has(r, "close", c) <=> Has(d, "close", c)
  BY <1>1, <1>2, <1>3 DEF Has
<1>5. QED  BY <1>4 DEF r

LEMMA DownAppend ==
  ASSUME NEW d \in Seq(DownFrames), NEW f \in DownFrames, NEW c
  PROVE Has(Append(d, f), "close", c) <=> (Has(d, "close", c) \/ (f.t = "close" /\ f.cid = c))
<1> DEFINE r == Append(d, f)
<1>1. r[Len(d) + 1] = f /\ Len(r) = Len(d) + 1 /\ Len(d) \in Nat /\ \A i \in 1..Len(d) : r[i] = d[i]
  BY AppendProperties, LenProperties
<1> HIDE DEF r
<1>2. \A i \in 1..Len(r) : (i \in 1..Len(d) /\ r[i] = d[i]) \/ (i = Len(d) + 1 /\ r[i] = f)
  BY <1>1
<1>3. \A i \in 1..Len(d) : i \in 1..Len(r)
  BY <1>1
<1>4. Len(d) + 1 \in 1..Len(r)
  BY <1>1
<1>5. Has(r, "close", c) <=> (Has(d, "close", c) \/ (f.t = "close" /\ f.cid = c))
  BY <1>1, <1>2, <1>3, <1>4 DEF Has
<1>6. QED  BY <1>5 DEF r

\* Posting a frame, and moving the first one that is posted to the wire or the buffer.
LEMMA Posting ==
  ASSUME NEW u \in Seq(UpFrames), NEW o \in Seq(MinerFrames), NEW p \in Seq(MinerFrames), NEW f \in MinerFrames
  PROVE /\ u \o (o \o Append(p, f)) = Append(u \o (o \o p), f)
        /\ p # <<>> => /\ u \o (Append(o, Head(p)) \o Tail(p)) = u \o (o \o p)
                       /\ o = <<>> => Append(u, Head(p)) \o (o \o Tail(p)) = u \o (o \o p)
<1>1. o \in Seq(UpFrames) /\ p \in Seq(UpFrames) /\ f \in UpFrames
  BY QueueTypes, FrameTypes
<1>2. o \o p \in Seq(UpFrames)
  BY <1>1, ConcatProperties
<1>3. o \o Append(p, f) = Append(o \o p, f)
  BY <1>1, JoinAppend, SMTT(40)
<1>4. u \o Append(o \o p, f) = Append(u \o (o \o p), f)
  BY <1>1, <1>2, JoinAppend, SMTT(40)
<1>5. ASSUME p # <<>> PROVE u \o (Append(o, Head(p)) \o Tail(p)) = u \o (o \o p)
  BY <1>1, <1>5, JoinMove
<1>6. ASSUME p # <<>>, o = <<>> PROVE Append(u, Head(p)) \o (o \o Tail(p)) = u \o (o \o p)
  <2>1. Tail(p) \in Seq(UpFrames)
    BY <1>1, <1>6, HeadTyped
  <2>2. o \o Tail(p) = Tail(p) /\ o \o p = p
    BY <1>1, <1>6, <2>1, ConcatEmptySeq
  <2>3. Append(u, Head(p)) \o Tail(p) = u \o p
    BY <1>1, <1>6, JoinMove, SMTT(40)
  <2>4. QED  BY <2>2, <2>3
<1>7. QED  BY <1>3, <1>4, <1>5, <1>6

LEMMA PipelineParts ==
  ASSUME Types
  PROVE /\ up \in Seq(UpFrames) /\ out \in Seq(MinerFrames) /\ posted \in Seq(MinerFrames)
        /\ out \in Seq(UpFrames) /\ posted \in Seq(UpFrames)
        /\ out \o posted \in Seq(UpFrames) /\ up \o out \in Seq(UpFrames) /\ Pipeline \in Seq(UpFrames)
        /\ Pipeline = (up \o out) \o posted
<1>1. up \in Seq(UpFrames) /\ out \in Seq(MinerFrames) /\ posted \in Seq(MinerFrames)
  BY DEF Types
<1>2. out \in Seq(UpFrames) /\ posted \in Seq(UpFrames) /\ Pipeline \in Seq(UpFrames)
  BY PipelineType
<1>3. out \o posted \in Seq(UpFrames) /\ up \o out \in Seq(UpFrames)
  BY <1>1, <1>2, ConcatProperties
<1>4. (up \o out) \o posted = up \o (out \o posted)
  BY <1>1, <1>2, ConcatAssociative, SMTT(40)
<1>5. QED  BY <1>1, <1>2, <1>3, <1>4 DEF Pipeline

\* A miner's session posts a frame.
LEMMA SessionSteps ==
  ASSUME Types, Types', NEW c \in Miners, MinerInv(c), NEW b \in Miners,
         AttachMiner(b) \/ MinerLine(b) \/ MinerGone(b)
  PROVE MinerInv(c)'
<1>1. Pipeline \in Seq(UpFrames) /\ UNCHANGED <<running, conn, down, bridge, got>>
  BY PipelineParts DEF AttachMiner, MinerLine, MinerGone, origin
<1>2. E[b].sent \in Nat /\ E[b].sent + 1 \in Nat
  <2>1. E[b].sent \in Nat
    BY MinerTypes
  <2>2. QED  BY <2>1
<1>3. \A f \in MinerFrames : (up' = up /\ out' = out /\ posted' = Append(posted, f)) => Pipeline' = Append(Pipeline, f)
  BY PipelineParts, Posting, SMTT(40) DEF Pipeline
<1>4. ASSUME c # b PROVE MinerInv(c)'
  <2>1. E'[c] = E[c] /\ (c \in sessions' <=> c \in sessions)
    BY <1>4 DEF AttachMiner, MinerLine, MinerGone, Detach, Types
  <2>2. \E f \in MinerFrames : f.cid = b
          /\ ((up' = up /\ out' = out /\ posted' = Append(posted, f)) \/ Pipeline' = Pipeline)
    <3>1. /\ Frame("open", b, 0) \in MinerFrames /\ Frame("data", b, E[b].sent + 1) \in MinerFrames
            /\ Frame("close", b, 0) \in MinerFrames
          /\ Frame("open", b, 0).cid = b /\ Frame("data", b, E[b].sent + 1).cid = b /\ Frame("close", b, 0).cid = b
      BY <1>2, FrameTypes DEF Frame
    <3>2. CASE AttachMiner(b)
      BY <3>1, <3>2 DEF AttachMiner
    <3>3. CASE MinerLine(b)
      BY <3>1, <3>3 DEF MinerLine
    <3>4. CASE MinerGone(b)
      <4>1. CASE b \in sessions
        BY <3>1, <3>4, <4>1 DEF MinerGone, Detach
      <4>2. CASE b \notin sessions
        BY <3>1, <3>4, <4>2, SMTT(40) DEF MinerGone, Detach, Pipeline
      <4>3. QED  BY <4>1, <4>2
    <3>5. QED  BY <3>2, <3>3, <3>4
  <2>3. Same(Pipeline', Pipeline, c)
    BY <1>1, <1>3, <1>4, <2>2, OthersAppend, SameSelf, FrameTypes
  <2>4. EdgeKept(c) /\ bridge'[c] = bridge[c] /\ got'[c] = got[c] /\ (ClosedThere(c)' <=> ClosedThere(c))
        /\ ((running' /\ conn' # "closing") => (running /\ conn # "closing"))
    BY <1>1, <2>1 DEF EdgeKept, ClosedThere
  <2>5. QED  BY <2>1, <2>3, <2>4, Kept
<1>5. ASSUME c = b, AttachMiner(c) PROVE MinerInv(c)'
  <2>1. /\ E[c].at = "new" /\ E' = [E EXCEPT ![c].at = "open"] /\ sessions' = sessions \cup {c}
        /\ up' = up /\ out' = out /\ posted' = Append(posted, Frame("open", c, 0))
    BY <1>5 DEF AttachMiner
  <2>2. E'[c].at = "open" /\ E'[c].sent = E[c].sent /\ E'[c].discarded = E[c].discarded /\ c \in sessions'
    BY <2>1 DEF Types, Edges
  <2>3. Pipeline' = Append(Pipeline, Frame("open", c, 0))
    BY <1>3, <2>1, FrameTypes
  <2>4. QED  BY <1>1, <2>1, <2>2, <2>3, Attached
<1>6. ASSUME c = b, MinerLine(c) PROVE MinerInv(c)'
  <2>1. /\ E[c].at = "open" /\ E' = [E EXCEPT ![c] = [E[c] EXCEPT !.sent = E[c].sent + 1]] /\ sessions' = sessions
        /\ up' = up /\ out' = out /\ posted' = Append(posted, Frame("data", c, E[c].sent + 1))
    BY <1>6 DEF MinerLine
  <2>2. /\ E'[c].at = "open" /\ E'[c].sent = E[c].sent + 1 /\ E'[c].discarded = E[c].discarded
        /\ E'[c].shut = E[c].shut /\ E'[c].dropped = E[c].dropped
    BY <2>1 DEF Types, Edges
  <2>3. Pipeline' = Append(Pipeline, Frame("data", c, E[c].sent + 1))
    BY <1>2, <1>3, <1>6, <2>1, FrameTypes
  <2>4. QED  BY <1>1, <2>1, <2>2, <2>3, Spoken
<1>7. ASSUME c = b, MinerGone(c) PROVE MinerInv(c)'
  <2>1. /\ E[c].at = "open" /\ E' = [E EXCEPT ![c] = [E[c] EXCEPT !.at = "closed", !.shut = FALSE]]
        /\ sessions' = sessions \ {c} /\ up' = up /\ out' = out
        /\ posted' = IF c \in sessions THEN Append(posted, Frame("close", c, 0)) ELSE posted
    BY <1>7, ZenonT(60) DEF MinerGone, Detach
  <2>2. /\ E'[c].at = "closed" /\ E'[c].sent = E[c].sent /\ E'[c].discarded = E[c].discarded
        /\ E'[c].dropped = E[c].dropped /\ c \notin sessions'
    BY <2>1 DEF Types, Edges
  <2>3. Pipeline' = IF c \in sessions THEN Append(Pipeline, Frame("close", c, 0)) ELSE Pipeline
    <3>1. CASE c \in sessions
      BY <1>3, <2>1, <3>1, FrameTypes
    <3>2. CASE c \notin sessions
      BY <2>1, <3>2 DEF Pipeline
    <3>3. QED  BY <3>1, <3>2
  <2>4. QED  BY <1>1, <2>1, <2>2, <2>3, Gone
<1>8. QED  BY <1>4, <1>5, <1>6, <1>7

\* With nothing on the wire and nothing kept, what is posted is all there is.
LEMMA OnlyPosted ==
  ASSUME NEW p \in Seq(MinerFrames)
  PROVE <<>> \o (<<>> \o p) = p
<1>1. p \in Seq(UpFrames) /\ <<>> \o p = p
  BY QueueTypes, EmptySeq, ConcatEmptySeq
<1>2. QED  BY <1>1

LEMMA RunPostedStep ==
  ASSUME Types, Types', Wire, NEW c \in Miners, MinerInv(c), RunPosted
  PROVE MinerInv(c)'
<1>1. /\ posted # <<>> /\ posted' = Tail(posted) /\ Head(posted) \in MinerFrames /\ Head(posted) \in UpFrames
      /\ UNCHANGED <<running, conn, sessions, down, bridge, got>>
  BY HeadTyped, FrameTypes, SMTT(40) DEF RunPosted, Types, origin
<1>2. /\ Pipeline \in Seq(UpFrames) /\ up \in Seq(UpFrames) /\ posted \in Seq(UpFrames) /\ up \o out \in Seq(UpFrames)
      /\ up \in Seq(UpFrames) /\ out \in Seq(MinerFrames) /\ posted \in Seq(MinerFrames)
      /\ Pipeline = (up \o out) \o posted
  BY PipelineParts
<1>3. CASE ~running \/ (welcomed /\ conn = "closing")
  <2>1. conn # "up" /\ up = <<>> /\ out = <<>> /\ down = <<>> /\ bridge = [x \in Miners |-> NoBridge]
    BY <1>3 DEF Wire
  <2>2. up' = up /\ out' = out /\ E' = E
    BY <1>3 DEF RunPosted
  <2>3. Pipeline = posted /\ Pipeline' = Tail(posted)
    <3>1. posted' \in Seq(MinerFrames)
      BY DEF Types
    <3>2. QED  BY <1>1, <1>2, <2>1, <2>2, <3>1, OnlyPosted DEF Pipeline
  <2>4. Cut(Pipeline', Pipeline, 0, 1)
    BY <1>1, <1>2, <2>3, TailCut
  <2>5. bridge'[c] = NoBridge /\ ~ClosedThere(c)'
    BY <1>1, <2>1, EmptySeq DEF ClosedThere, Has
  <2>6. ~(running' /\ conn' # "closing") /\ sessions' = sessions /\ got'[c] = got[c]
    BY <1>1, <1>3
  <2>7. QED  BY <2>2, <2>4, <2>5, <2>6, Lost
<1>4. ASSUME Same(Pipeline', Pipeline, c), EdgeKept(c) PROVE MinerInv(c)'
  BY <1>1, <1>4, Kept DEF ClosedThere
<1>5. ASSUME ~(~running \/ (welcomed /\ conn = "closing")), welcomed \/ Len(out) < OutCap PROVE MinerInv(c)'
  <2>1. Pipeline' = Pipeline
    <3>1. CASE welcomed
      <4>1. out = <<>> /\ up' = Append(up, Head(posted)) /\ out' = out
        BY <1>5, <3>1 DEF RunPosted, Wire
      <4>2. QED  BY <1>1, <1>2, <4>1, Posting, SMTT(40) DEF Pipeline
    <3>2. CASE ~welcomed
      <4>1. up' = up /\ out' = Append(out, Head(posted))
        BY <1>5, <3>2 DEF RunPosted
      <4>2. QED  BY <1>1, <1>2, <4>1, Posting, ZenonT(60) DEF Pipeline
    <3>3. QED  BY <3>1, <3>2
  <2>2. EdgeKept(c)
    BY <1>5 DEF RunPosted, EdgeKept
  <2>3. QED  BY <1>4, <2>1, <2>2, SameSelf
<1>6. CASE ~(~running \/ (welcomed /\ conn = "closing")) /\ ~welcomed /\ ~(Len(out) < OutCap)
  <2> DEFINE f == Head(posted)
  <2>1. E' = [E EXCEPT ![f.cid] = [E[f.cid] EXCEPT !.discarded = TRUE]] /\ up' = up /\ out' = out /\ f.cid \in Miners
    BY <1>1, <1>6 DEF RunPosted, Discarded, MinerFrames
  <2> DEFINE k == Len(up \o out)
  <2>2. Pipeline' = (up \o out) \o Tail(posted)
    <3>1. Tail(posted) \in Seq(UpFrames) /\ out \in Seq(UpFrames)
      BY <1>1, <1>2, HeadTyped, PipelineParts
    <3>2. QED  BY <1>1, <1>2, <2>1, <3>1, ConcatAssociative, SMTT(40) DEF Pipeline
  <2>3. Cut(Pipeline', Pipeline, k, 1) /\ Pipeline[k + 1] = f
    BY <1>1, <1>2, <2>2, JoinCut
  <2>4. Pipeline' \in Seq(UpFrames)
    <3>1. Tail(posted) \in Seq(UpFrames)
      BY <1>1, <1>2, HeadTyped
    <3>2. QED  BY <1>2, <2>2, <3>1, ConcatProperties
  <2>5. k \in Nat /\ k + 1 \in 1..Len(Pipeline)
    BY <1>2, <2>3, LenProperties DEF Cut
  <2> HIDE DEF k, f
  <2>6. CASE f.cid # c
    <3>1. \A j \in (k + 1)..(k + 1) : Pipeline[j].cid # c
      BY <2>3, <2>5, <2>6
    <3>2. Same(Pipeline', Pipeline, c)
      BY <1>2, <2>3, <2>4, <3>1, CutOthers, ZenonT(60)
    <3>3. EdgeKept(c)
      BY <2>1, <2>6 DEF EdgeKept, Types
    <3>4. QED  BY <1>4, <3>2, <3>3
  <2>7. CASE f.cid = c
    <3>1. f.t \in {"open", "data", "close"}
      BY <1>1 DEF MinerFrames, f
    <3>2. Has(Pipeline, "open", c) \/ Has(Pipeline, "data", c) \/ Has(Pipeline, "close", c)
      BY <2>3, <2>5, <2>7, <3>1 DEF Has
    <3>3. E[c].at # "new"
      BY <3>2 DEF MinerInv, Unseen
    <3>4. E'[c].at = E[c].at /\ E'[c].discarded
      BY <2>1, <2>7 DEF Types, Edges
    <3>5. QED  BY <3>3, <3>4 DEF MinerInv, Unseen
  <2>8. QED  BY <2>6, <2>7
<1>7. QED  BY <1>3, <1>5, <1>6

LEMMA DialSteps ==
  ASSUME Types, Types', Wire, NEW c \in Miners, MinerInv(c), Connect \/ Connected
  PROVE MinerInv(c)'
<1>1. /\ UNCHANGED <<running, sessions, posted, out, down, E, bridge, got>> /\ conn # "closing"
      /\ Pipeline \in Seq(UpFrames)
  BY PipelineParts DEF Connect, Connected, origin
<1>2. Same(Pipeline', Pipeline, c)
  <2>1. CASE Connect
    BY <1>1, <2>1, SameSelf DEF Connect, Pipeline
  <2>2. CASE Connected
    <3> DEFINE h == <<Word("hello")>>
    <3> DEFINE t == out \o posted
    <3>1. up = <<>> /\ up' = h
      BY <2>2 DEF Connected, Wire
    <3>2. t \in Seq(UpFrames) /\ h \in Seq(UpFrames) /\ Len(h) = 1 /\ h[1] = Word("hello")
      BY PipelineParts, FrameTypes
    <3>3. Pipeline = t /\ Pipeline' = h \o t
      BY <1>1, <3>1, <3>2, ConcatEmptySeq DEF Pipeline
    <3>4. Cut(t, h \o t, 0, Len(h)) /\ \A i \in 1..Len(h) : (h \o t)[i] = h[i]
      BY <3>2, JoinCut
    <3>5. h \o t \in Seq(UpFrames)
      BY <3>2, ConcatProperties
    <3>6. Word("hello").cid # c
      BY TrunkConstants DEF Word, Frame
    <3> HIDE DEF h, t
    <3>7. \A j \in (0 + 1)..(0 + Len(h)) : (h \o t)[j].cid # c
      BY <3>2, <3>4, <3>6, SMTT(40)
    <3>8. QED  BY <3>2, <3>3, <3>4, <3>5, <3>7, CutOthers, ZenonT(60)
  <2>3. QED  BY <2>1, <2>2
<1>3. QED  BY <1>1, <1>2, Kept DEF EdgeKept, ClosedThere

LEMMA LossSteps ==
  ASSUME Types, Types', Wire, NEW c \in Miners, MinerInv(c), LoseTrunk \/ OnClose \/ Stop
  PROVE MinerInv(c)'
<1>1. /\ up' = <<>> /\ down' = <<>> /\ bridge'[c] = NoBridge /\ got'[c] = got[c] /\ posted' = posted
  <2>1. CASE LoseTrunk
    BY <2>1 DEF LoseTrunk, Severed
  <2>2. CASE OnClose
    BY <2>2 DEF OnClose, Wire, origin
  <2>3. CASE Stop
    <3>1. CASE conn \in {"dialing", "up"}
      BY <2>3, <3>1 DEF Stop, Severed
    <3>2. CASE conn \notin {"dialing", "up"}
      BY <2>3, <3>2 DEF Stop, Wire
    <3>3. QED  BY <3>1, <3>2
  <2>4. QED  BY <2>1, <2>2, <2>3
<1>2. ~ClosedThere(c)'
  BY <1>1, EmptySeq DEF ClosedThere, Has
<1>3. \E n : Cut(Pipeline', Pipeline, 0, n)
  <2>1. CASE LoseTrunk
    <3>1. Pipeline' = <<>> \o (out \o posted) /\ up \in Seq(UpFrames) /\ out \o posted \in Seq(UpFrames)
      BY <1>1, <2>1, PipelineParts DEF LoseTrunk, Pipeline
    <3>2. Pipeline' = out \o posted
      BY <3>1, ConcatEmptySeq
    <3>3. Cut(out \o posted, up \o (out \o posted), 0, Len(up))
      BY <3>1, JoinCut
    <3>4. QED  BY <3>2, <3>3 DEF Pipeline
  <2>2. CASE OnClose \/ Stop
    <3>1. out' = <<>>
      BY <2>2 DEF OnClose, Stop
    <3>2. Pipeline' = posted
      BY <1>1, <3>1, OnlyPosted DEF Pipeline, Types
    <3>3. up \o out \in Seq(UpFrames) /\ posted \in Seq(UpFrames) /\ Pipeline = (up \o out) \o posted
      BY PipelineParts
    <3>4. Cut(posted, (up \o out) \o posted, 0, Len(up \o out))
      BY <3>3, JoinCut
    <3>5. QED  BY <3>2, <3>3, <3>4
  <2>3. QED  BY <2>1, <2>2
<1>4. CASE LoseTrunk
  <2>1. E' = E /\ sessions' = sessions /\ ~(running' /\ conn' # "closing")
    BY <1>4 DEF LoseTrunk, Severed
  <2>2. QED  BY <1>1, <1>2, <1>3, <2>1, Lost
<1>5. CASE OnClose \/ Stop
  <2>1. /\ c \notin sessions'
        /\ E'[c] = IF c \in sessions THEN [E[c] EXCEPT !.shut = TRUE, !.dropped = TRUE] ELSE E[c]
    BY <1>5 DEF OnClose, Stop, DropAll
  <2>2. E[c] \in Edges
    BY DEF Types
  <2>3. /\ E'[c].at = E[c].at /\ E'[c].discarded = E[c].discarded /\ E'[c].sent = E[c].sent
        /\ c \in sessions => E'[c].shut /\ E'[c].dropped
        /\ c \notin sessions => E'[c].shut = E[c].shut /\ E'[c].dropped = E[c].dropped
    BY <2>1, <2>2, ZenonT(60) DEF Edges
  <2>4. QED  BY <1>1, <1>2, <1>3, <2>1, <2>3, Lost
<1>6. QED  BY <1>4, <1>5

LEMMA FrameStep ==
  ASSUME Types, Types', Wire, NEW c \in Miners, MinerInv(c), OnFrame
  PROVE MinerInv(c)'
<1> DEFINE f == Head(down)
<1>1. /\ down # <<>> /\ down' = Tail(down) /\ down \in Seq(DownFrames) /\ f \in DownFrames
      /\ UNCHANGED <<running, conn, posted, bridge, got>>
  BY HeadTyped DEF OnFrame, Types, origin
<1>2. ~(f.t = "close" /\ f.cid = c) => (ClosedThere(c)' <=> ClosedThere(c))
  BY <1>1, DownTail DEF ClosedThere
<1> HIDE DEF f
<1>3. ASSUME Same(Pipeline', Pipeline, c), EdgeKept(c), c \in sessions' <=> c \in sessions,
             ~(f.t = "close" /\ f.cid = c)
      PROVE MinerInv(c)'
  BY <1>1, <1>2, <1>3, Kept
<1>4. ASSUME up' = up, out' = out PROVE Pipeline' = Pipeline /\ Same(Pipeline', Pipeline, c)
  BY <1>1, <1>4, SameSelf DEF Pipeline
<1>5. CASE f.t = "welcome" /\ OnWelcome
  <2>1. Pipeline' = (up \o out) \o (<<>> \o posted)
    BY <1>1, <1>5 DEF OnWelcome, Pipeline
  <2>2. <<>> \o posted = posted
    BY PipelineParts, ConcatEmptySeq
  <2>3. Pipeline' = Pipeline
    BY <2>1, <2>2, PipelineParts, SMTT(40)
  <2>4. EdgeKept(c) /\ sessions' = sessions
    BY <1>5 DEF OnWelcome, EdgeKept
  <2>5. QED  BY <1>3, <1>5, <2>3, <2>4, SameSelf
<1>6. CASE f.t = "data" /\ OnData(f)
  <2>1. E' = E \/ E' = [E EXCEPT ![f.cid] = [E[f.cid] EXCEPT !.heard = E[f.cid].heard + 1]]
    BY <1>6 DEF OnData
  <2>2. E[c] \in Edges
    BY DEF Types
  <2>3. EdgeKept(c)
    <3>1. E'[c] = E[c] \/ E'[c] = [E[c] EXCEPT !.heard = E[c].heard + 1]
      BY <2>1, ZenonT(60) DEF Types
    <3>2. QED  BY <2>2, <3>1 DEF EdgeKept, Edges
  <2>4. up' = up /\ out' = out /\ sessions' = sessions
    BY <1>6 DEF OnData
  <2>5. QED  BY <1>3, <1>4, <1>6, <2>3, <2>4
<1>7. CASE f.t = "block" /\ SubmitBlock
  <2>1. EdgeKept(c) /\ up' = up /\ out' = out /\ sessions' = sessions
    BY <1>7 DEF SubmitBlock, EdgeKept
  <2>2. QED  BY <1>3, <1>4, <1>7, <2>1
<1>8. CASE f.t = "close" /\ OnCloseFrame(f)
  <2>1. /\ E' = IF f.cid \in sessions THEN [E EXCEPT ![f.cid] = [E[f.cid] EXCEPT !.shut = TRUE]] ELSE E
        /\ sessions' = sessions \ {f.cid} /\ up' = up /\ out' = out
    BY <1>8 DEF OnCloseFrame
  <2>2. E[c] \in Edges
    BY DEF Types
  <2>3. CASE f.cid # c
    <3>1. E'[c] = E[c] /\ (c \in sessions' <=> c \in sessions)
      BY <2>1, <2>3 DEF Types
    <3>2. QED  BY <1>3, <1>4, <2>1, <2>3, <3>1 DEF EdgeKept
  <2>4. CASE f.cid = c
    <3>1. ClosedThere(c)
      <4>1. f = down[1] /\ Len(down) \in Nat /\ Len(down) >= 1
        BY <1>1, HeadIsFirst DEF f
      <4>2. QED  BY <1>8, <2>4, <4>1 DEF ClosedThere, Has
    <3>2. E'[c] = IF c \in sessions THEN [E[c] EXCEPT !.shut = TRUE] ELSE E[c]
      BY <2>1, <2>4 DEF Types
    <3>3. /\ E'[c].at = E[c].at /\ E'[c].dropped = E[c].dropped /\ E'[c].discarded = E[c].discarded
            /\ E'[c].sent = E[c].sent
          /\ IF c \in sessions THEN E'[c].shut ELSE E'[c].shut = E[c].shut
      BY <2>2, <3>2 DEF Edges
    <3>4. c \notin sessions' /\ Pipeline' = Pipeline
      BY <1>4, <2>1, <2>4
    <3>5. QED  BY <1>1, <3>1, <3>3, <3>4, CutOff
  <2>5. QED  BY <2>3, <2>4
<1>9. QED  BY <1>5, <1>6, <1>7, <1>8 DEF OnFrame, f

LEMMA LineStep ==
  ASSUME Types, Types', Wire, NEW c \in Miners, MinerInv(c), OnLine
  PROVE MinerInv(c)'
<1> DEFINE f == Head(up)
<1>1. /\ up # <<>> /\ up' = Tail(up) /\ f \in UpFrames /\ UNCHANGED edge
  BY HeadTyped DEF OnLine, Types
<1>2. /\ Pipeline \in Seq(UpFrames) /\ Pipeline # <<>> /\ Pipeline' = Tail(Pipeline) /\ Head(Pipeline) = f
  <2>1. up \in Seq(UpFrames) /\ out \o posted \in Seq(UpFrames) /\ Pipeline \in Seq(UpFrames)
    BY PipelineParts
  <2>2. Pipeline' = Tail(up) \o (out \o posted)
    BY <1>1 DEF Pipeline, edge
  <2>3. QED  BY <1>1, <2>1, <2>2, JoinTail, ZenonT(60) DEF Pipeline
<1>3. f.line \in Nat /\ (f.t # "hello" => f.cid \in Miners) /\ (f.t = "hello" => f.cid = Nobody)
  BY <1>1 DEF UpFrames, MinerFrames, Word, Frame
<1> HIDE DEF f
<1>4. ASSUME f.cid # c, E'[c] = E[c], bridge'[c] = bridge[c], got'[c] = got[c], ClosedThere(c)' <=> ClosedThere(c)
      PROVE MinerInv(c)'
  <2>1. Same(Pipeline', Pipeline, c)
    BY <1>2, <1>4, OthersTail
  <2>2. EdgeKept(c) /\ (c \in sessions' <=> c \in sessions)
        /\ ((running' /\ conn' # "closing") => (running /\ conn # "closing"))
    BY <1>1, <1>4 DEF EdgeKept, edge
  <2>3. QED  BY <1>4, <2>1, <2>2, Kept
<1>5. CASE f.t = "hello" /\ HandleHello
  <2>1. Word("welcome") \in DownFrames /\ Word("welcome").t # "close"
    BY FrameTypes DEF Word, Frame
  <2>2. ClosedThere(c)' <=> ClosedThere(c)
    BY <1>5, <2>1, DownAppend DEF HandleHello, ClosedThere, Types
  <2>3. f.cid # c
    BY <1>3, <1>5, TrunkConstants
  <2>4. QED  BY <1>4, <1>5, <2>2, <2>3 DEF HandleHello
<1>6. CASE f.t = "open" /\ OpenClient(f.cid)
  <2>1. down' = down /\ E' = E /\ got' = got
        /\ bridge' = IF bridge[f.cid].at = "none"
                     THEN [bridge EXCEPT ![f.cid] = [bridge[f.cid] EXCEPT !.at = "connecting"]] ELSE bridge
    BY <1>6 DEF OpenClient
  <2>2. CASE f.cid # c
    <3>1. bridge'[c] = bridge[c]
      BY <2>1, <2>2 DEF Types
    <3>2. QED  BY <1>4, <2>1, <2>2, <3>1 DEF ClosedThere
  <2>3. CASE f.cid = c
    <3>1. bridge'[c] = IF bridge[c].at = "none" THEN [bridge[c] EXCEPT !.at = "connecting"] ELSE bridge[c]
      BY <2>1, <2>3 DEF Types
    <3>2. QED  BY <1>1, <1>2, <1>6, <2>1, <2>3, <3>1, OpenRead
  <2>4. QED  BY <2>2, <2>3
<1>7. CASE f.t = "data" /\ ClientData(f)
  <2>1. down' = down /\ f.cid \in Miners
    BY <1>3, <1>7 DEF ClientData
  <2>2. CASE f.cid # c
    <3>1. bridge'[c] = bridge[c] /\ got'[c] = got[c] /\ E'[c] = E[c]
      BY <1>7, <2>2 DEF ClientData, Discarded, Types
    <3>2. QED  BY <1>4, <2>1, <2>2, <3>1, SMTT(40) DEF ClosedThere
  <2>3. CASE f.cid = c /\ bridge[c].at = "connecting" /\ Len(bridge[c].pending) >= PendCap
    <3>1. E'[c].at = E[c].at /\ E'[c].discarded
      BY <1>7, <2>3 DEF ClientData, Discarded, Types, Edges
    <3>2. E[c].at # "new"
      BY <2>3 DEF MinerInv, Unseen, Bridged
    <3>3. QED  BY <3>1, <3>2 DEF MinerInv, Unseen
  <2>4. CASE f.cid = c /\ ~(bridge[c].at = "connecting" /\ Len(bridge[c].pending) >= PendCap)
    <3>1. E' = E
      BY <1>7, <2>4 DEF ClientData
    <3>2. Taken(c, f.line)
      <4>1. bridge[c].at \in {"none", "connecting", "connected"} /\ bridge[c] \in Bridges
              /\ Len(bridge[c].pending) \in Nat
        BY MinerTypes
      <4>2. CASE bridge[c].at = "none"
        BY <1>7, <2>4, <4>2 DEF ClientData, Taken
      <4>3. CASE bridge[c].at = "connecting"
        <5>1. Len(bridge[c].pending) < PendCap
          BY <2>4, <4>1, <4>3, TrunkConstants
        <5>2. bridge' = [bridge EXCEPT ![c] = [bridge[c] EXCEPT !.pending = Append(bridge[c].pending, f.line)]]
                /\ got' = got
          BY <1>7, <2>4, <4>3, <5>1 DEF ClientData
        <5>3. bridge'[c].at = "connecting" /\ bridge'[c].pending = Append(bridge[c].pending, f.line)
          BY <4>1, <4>3, <5>2 DEF Types, Bridges
        <5>4. QED  BY <4>3, <5>2, <5>3 DEF Taken
      <4>4. CASE bridge[c].at = "connected"
        BY <1>7, <2>4, <4>4 DEF ClientData, Taken, Types
      <4>5. QED  BY <4>1, <4>2, <4>3, <4>4
    <3>3. QED  BY <1>1, <1>2, <1>7, <2>1, <2>4, <3>1, <3>2, DataRead
  <2>5. QED  BY <2>2, <2>3, <2>4
<1>8. CASE f.t = "close" /\ CloseClient(f.cid)
  <2>1. down' = down /\ E' = E /\ got' = got /\ bridge' = [bridge EXCEPT ![f.cid] = NoBridge]
    BY <1>8 DEF CloseClient
  <2>2. CASE f.cid # c
    BY <1>4, <2>1, <2>2 DEF ClosedThere, Types
  <2>3. CASE f.cid = c
    <3>1. bridge'[c] = NoBridge
      BY <2>1, <2>3 DEF Types
    <3>2. QED  BY <1>1, <1>2, <1>8, <2>1, <2>3, <3>1, CloseRead
  <2>4. QED  BY <2>2, <2>3
<1>9. QED  BY <1>5, <1>6, <1>7, <1>8 DEF OnLine, f

LEMMA LoopbackSteps ==
  ASSUME Types, Types', Wire, NEW c \in Miners, MinerInv(c), NEW b \in Miners,
         LoopbackConnected(b) \/ LoopbackLine(b) \/ LoopbackClosed(b)
  PROVE MinerInv(c)'
<1>1. UNCHANGED edge /\ Pipeline' = Pipeline /\ down \in Seq(DownFrames)
  BY DEF LoopbackConnected, LoopbackLine, LoopbackClosed, Pipeline, edge, Types
<1>2. ASSUME EdgeKept(c), bridge'[c] = bridge[c], got'[c] = got[c], ClosedThere(c)' <=> ClosedThere(c)
      PROVE MinerInv(c)'
  <2>1. Same(Pipeline', Pipeline, c)
    BY <1>1, SameSelf
  <2>2. (c \in sessions' <=> c \in sessions) /\ ((running' /\ conn' # "closing") => (running /\ conn # "closing"))
    BY <1>1 DEF edge
  <2>3. QED  BY <1>2, <2>1, <2>2, Kept
<1>3. CASE LoopbackConnected(b)
  <2>1. /\ bridge[b].at = "connecting" /\ bridge' = [bridge EXCEPT ![b] = [at |-> "connected", pending |-> <<>>]]
        /\ got' = [got EXCEPT ![b] = got[b] \o bridge[b].pending] /\ E' = E /\ down' = down
    BY <1>3 DEF LoopbackConnected
  <2>2. CASE c # b
    BY <1>2, <2>1, <2>2, SMTT(40) DEF EdgeKept, ClosedThere, Types
  <2>3. CASE c = b
    <3>1. bridge'[c].at = "connected" /\ bridge'[c].pending = <<>> /\ got'[c] = got[c] \o bridge[c].pending
      BY <2>1, <2>3 DEF Types
    <3>2. QED  BY <1>1, <2>1, <2>3, <3>1, Flushed
  <2>4. QED  BY <2>2, <2>3
<1>4. CASE LoopbackLine(b)
  <2>1. /\ E' = [E EXCEPT ![b] = [E[b] EXCEPT !.said = E[b].said + 1]] /\ UNCHANGED <<bridge, got>>
        /\ down' = Append(down, Frame("data", b, E[b].said + 1))
    BY <1>4 DEF LoopbackLine, origin
  <2>2. E[b] \in Edges /\ E[c] \in Edges
    BY DEF Types
  <2>3. Frame("data", b, E[b].said + 1) \in DownFrames /\ Frame("data", b, E[b].said + 1).t # "close"
    <3>1. E[b].said \in Nat
      BY <2>2, EdgeTypes
    <3>2. E[b].said + 1 \in Nat
      BY <3>1
    <3>3. QED  BY <3>2, FrameTypes DEF Frame
  <2>4. ClosedThere(c)' <=> ClosedThere(c)
    BY <1>1, <2>1, <2>3, DownAppend DEF ClosedThere
  <2>5. EdgeKept(c)
    <3>1. E'[c] = E[c] \/ E'[c] = [E[c] EXCEPT !.said = E[c].said + 1]
      BY <2>1 DEF Types
    <3>2. QED  BY <2>2, <3>1 DEF EdgeKept, Edges
  <2>6. QED  BY <1>2, <2>1, <2>4, <2>5
<1>5. CASE LoopbackClosed(b)
  <2>1. /\ bridge[b].at # "none" /\ bridge' = [bridge EXCEPT ![b] = NoBridge] /\ UNCHANGED <<E, got>>
        /\ down' = Append(down, Frame("close", b, 0))
    BY <1>5 DEF LoopbackClosed
  <2>2. /\ Frame("close", b, 0) \in DownFrames /\ Frame("close", b, 0).t = "close" /\ Frame("close", b, 0).cid = b
    BY FrameTypes DEF Frame
  <2>3. ClosedThere(c)' <=> (ClosedThere(c) \/ c = b)
    BY <1>1, <2>1, <2>2, DownAppend DEF ClosedThere
  <2>4. CASE c # b
    BY <1>2, <2>1, <2>3, <2>4 DEF EdgeKept, Types
  <2>5. CASE c = b
    <3>1. bridge'[c] = NoBridge
      BY <2>1, <2>5 DEF Types
    <3>2. QED  BY <1>1, <2>1, <2>3, <2>5, <3>1, ToldEdge
  <2>6. QED  BY <2>4, <2>5
<1>6. QED  BY <1>3, <1>4, <1>5

LEMMA RawblockStep ==
  ASSUME Types, Types', Wire, NEW c \in Miners, MinerInv(c), OnRawblock
  PROVE MinerInv(c)'
<1>1. /\ UNCHANGED edge /\ Pipeline' = Pipeline /\ down \in Seq(DownFrames) /\ UNCHANGED <<E, bridge, got>>
  BY DEF OnRawblock, Pipeline, edge, origin, Types
<1>2. ClosedThere(c)' <=> ClosedThere(c)
  <2> DEFINE f == Frame("block", Nobody, blocks.found + 1)
  <2>1. blocks.found \in Nat /\ blocks.found + 1 \in Nat
    <3>1. blocks.found \in Nat
      BY DEF Types
    <3>2. QED  BY <3>1
  <2>2. f \in DownFrames /\ f.t # "close"
    BY <2>1, FrameTypes DEF Frame
  <2>3. down' = Append(down, f) \/ down' = down
    BY DEF OnRawblock
  <2> HIDE DEF f
  <2>4. Has(Append(down, f), "close", c) <=> Has(down, "close", c)
    BY <1>1, <2>2, DownAppend
  <2>5. QED  BY <2>3, <2>4 DEF ClosedThere
<1>3. Same(Pipeline', Pipeline, c) /\ EdgeKept(c)
  BY <1>1, SameSelf DEF EdgeKept
<1>4. (c \in sessions' <=> c \in sessions) /\ ((running' /\ conn' # "closing") => (running /\ conn # "closing"))
  BY <1>1 DEF edge
<1>5. QED  BY <1>1, <1>2, <1>3, <1>4, Kept

LEMMA MinersKept ==
  ASSUME Types, Types', Wire, NEW c \in Miners, MinerInv(c), [Next]_vars
  PROVE MinerInv(c)'
<1>1. CASE UNCHANGED vars
  <2>1. Pipeline' = Pipeline
    BY <1>1 DEF vars, Pipeline
  <2>2. Same(Pipeline', Pipeline, c)
    BY <2>1, SameSelf
  <2>3. /\ EdgeKept(c) /\ bridge'[c] = bridge[c] /\ got'[c] = got[c] /\ (ClosedThere(c)' <=> ClosedThere(c))
        /\ (c \in sessions' <=> c \in sessions) /\ ((running' /\ conn' # "closing") => (running /\ conn # "closing"))
    BY <1>1 DEF vars, EdgeKept, ClosedThere
  <2>4. QED  BY <2>2, <2>3, Kept
<1>2. CASE Next
  BY <1>2, SessionSteps, RunPostedStep, DialSteps, LossSteps, FrameStep, LineStep, LoopbackSteps, RawblockStep
     DEF Next, ShutDown
<1>3. QED  BY <1>1, <1>2

(***************************************************************************)
(* The theorems.                                                           *)
(***************************************************************************)

LEMMA TrunkInit == Init => Inv
<1> SUFFICES ASSUME Init PROVE Inv
  OBVIOUS
<1>1. Types
  <2>1. NoBridge \in Bridges /\ <<>> \in Seq(Nat)
    BY EmptySeq DEF NoBridge, Bridges
  <2>2. [at |-> "new", shut |-> FALSE, dropped |-> FALSE, discarded |-> FALSE, sent |-> 0, said |-> 0,
          heard |-> 0] \in Edges
    BY DEF Edges
  <2>3. [found |-> 0, submitted |-> 0] \in [found : Nat, submitted : Nat]
    OBVIOUS
  <2>4. E \in [Miners -> Edges] /\ bridge \in [Miners -> Bridges] /\ got \in [Miners -> Seq(Nat)]
    BY <2>1, <2>2 DEF Init
  <2>5. drops \in 0..MaxDrops /\ blocks \in [found : Nat, submitted : Nat]
    BY <2>3, TrunkConstants DEF Init
  <2>6. /\ running \in BOOLEAN /\ conn \in {"down", "dialing", "up", "closing"} /\ welcomed \in BOOLEAN
        /\ sessions \in SUBSET Miners /\ hello \in BOOLEAN
    BY DEF Init
  <2>7. /\ posted \in Seq(MinerFrames) /\ out \in Seq(MinerFrames)
        /\ up \in Seq(UpFrames) /\ down \in Seq(DownFrames)
    BY EmptySeq DEF Init
  <2>8. QED  BY <2>4, <2>5, <2>6, <2>7 DEF Types
<1>2. Wire
  BY DEF Init, Wire
<1>3. Len(<<>>) = 0
  BY EmptySeq
<1>4. Caps
  BY <1>3, TrunkConstants DEF Init, Caps, NoBridge
<1>5. BlocksInOrder
  BY <1>3, TrunkConstants DEF Init, BlocksInOrder, Numbered
<1>6. ASSUME NEW c \in Miners PROVE MinerInv(c)
  <2>1. Pipeline = <<>>
    BY EmptySeq, OnlyPosted DEF Init, Pipeline
  <2>2. \A t : ~Has(Pipeline, t, c)
    BY <1>3, <2>1 DEF Has
  <2>3. Ordered(Pipeline, c, 0)
    BY <1>3, <2>1 DEF Ordered
  <2>4. ~Announced(c) /\ ~Bridged(c) /\ ~ClosedThere(c)
    <3>1. down = <<>> /\ bridge[c] = NoBridge
      BY DEF Init
    <3>2. ~Bridged(c) /\ ~ClosedThere(c)
      BY <1>3, <3>1 DEF Bridged, ClosedThere, Has, NoBridge
    <3>3. QED  BY <2>2, <3>2 DEF Announced
  <2>5. E[c].at = "new" /\ E[c].sent = 0 /\ got[c] = <<>> /\ bridge[c].pending = <<>> /\ sessions = {}
    BY DEF Init, NoBridge
  <2>6. Read(c)
    BY <1>3, <2>5 DEF Read
  <2>7. Lines(c) /\ Registered(c) /\ Unregistered(c)
    BY <2>3, <2>4, <2>5 DEF Lines, Registered, Unregistered
  <2>8. QED  BY <2>2, <2>4, <2>5, <2>6, <2>7 DEF MinerInv, Unseen
<1>7. QED  BY <1>1, <1>2, <1>4, <1>5, <1>6 DEF Inv

LEMMA TrunkStep == Inv /\ [Next]_vars => Inv'
<1> SUFFICES ASSUME Inv, [Next]_vars PROVE Inv'
  OBVIOUS
<1>1. Types' /\ Wire' /\ Caps' /\ BlocksInOrder'
  BY TypesKept, WireKept, CapsKept, BlocksKept DEF Inv
<1>2. \A c \in Miners : MinerInv(c)'
  BY <1>1, MinersKept DEF Inv
<1>3. QED  BY <1>1, <1>2 DEF Inv

\* The invariant holds, from the start and over every step of either side.
THEOREM TrunkInv == Spec => []Inv
BY TrunkInit, TrunkStep, PTL DEF Spec

LEMMA InvTypeOK == Inv => TypeOK
<1> SUFFICES ASSUME Inv PROVE TypeOK
  OBVIOUS
<1> DEFINE Frames == [t : {"hello", "welcome", "open", "data", "close", "block"}, cid : Miners \cup {Nobody},
        line : Nat]
<1>1. UpFrames \subseteq Frames /\ DownFrames \subseteq Frames /\ MinerFrames \subseteq Frames
  BY DEF UpFrames, DownFrames, MinerFrames, Word, Frame
<1>2. posted \in Seq(Frames) /\ out \in Seq(Frames) /\ up \in Seq(Frames) /\ down \in Seq(Frames)
  <2> HIDE DEF Frames
  <2>1. \A q : (q \in Seq(UpFrames) \/ q \in Seq(DownFrames) \/ q \in Seq(MinerFrames)) => q \in Seq(Frames)
    BY <1>1
  <2>2. QED  BY <2>1 DEF Inv, Types
<1>3. \A q \in {posted, out, up, down} : q \in Seq(Frames)
  BY <1>2
<1>4. blocks \in [found : 0..MaxBlocks, submitted : Nat] /\ blocks.submitted <= blocks.found
  BY TrunkConstants DEF Inv, Types, BlocksInOrder
<1>5. /\ Len(out) <= OutCap /\ \A c \in Miners : Len(bridge[c].pending) <= PendCap
      /\ running \in BOOLEAN /\ conn \in {"down", "dialing", "up", "closing"} /\ welcomed \in BOOLEAN
      /\ sessions \subseteq Miners /\ hello \in BOOLEAN /\ drops \in 0..MaxDrops
  BY DEF Inv, Types, Caps
<1>6. bridge \in [Miners -> [at : {"none", "connecting", "connected"}, pending : Seq(Nat)]]
        /\ got \in [Miners -> Seq(Nat)]
  BY DEF Inv, Types, Bridges
<1>7. E \in [Miners -> [at : {"new", "open", "closed"}, shut : BOOLEAN, dropped : BOOLEAN, discarded : BOOLEAN,
                       sent : Nat, said : Nat, heard : Nat]]
  BY DEF Inv, Types, Edges
<1>8. QED  BY <1>3, <1>4, <1>5, <1>6, <1>7 DEF TypeOK

LEMMA InvEndsMatch == Inv => EndsMatch
<1> SUFFICES ASSUME Inv, NEW c \in Miners, AtRest(c), ~E[c].discarded
             PROVE /\ E[c].at = "open" => bridge[c].at # "none"
                   /\ bridge[c].at # "none" => E[c].at = "open" \/ E[c].dropped
  BY DEF EndsMatch
<1>1. running /\ conn = "up" /\ posted = <<>> /\ up = <<>> /\ down = <<>> /\ out = <<>> /\ ~E[c].shut
  BY DEF Inv, AtRest, Wire
<1>2. Pipeline = <<>>
  BY <1>1, EmptySeq, OnlyPosted DEF Pipeline
<1>3. ~Announced(c) /\ ~Has(Pipeline, "close", c) /\ ~ClosedThere(c)
  BY <1>1, <1>2, EmptySeq DEF Announced, ClosedThere, Has
<1>4. Registered(c) /\ Unregistered(c)
  BY DEF Inv, MinerInv
<1>5. QED  BY <1>1, <1>3, <1>4 DEF Registered, Unregistered, Bridged

LEMMA InvLinesRelayed == Inv => LinesRelayed
<1> SUFFICES ASSUME Inv, NEW c \in Miners, ~E[c].discarded
             PROVE /\ got[c] = [i \in 1..Len(got[c]) |-> i]
                   /\ (AtRest(c) /\ E[c].at = "open" /\ bridge[c].at = "connected") => Len(got[c]) = E[c].sent
  BY DEF LinesRelayed
<1>1. Read(c) /\ Lines(c) /\ got[c] \in Seq(Nat) /\ Len(got[c]) \in Nat /\ E[c].sent \in Nat
  BY MinerTypes DEF Inv, MinerInv
<1>2. got[c] = [i \in 1..Len(got[c]) |-> i]
  <2>1. got[c] \in [1..Len(got[c]) -> Nat] /\ \A i \in 1..Len(got[c]) : got[c][i] = i
    BY <1>1, LenProperties, SMTT(40) DEF Read
  <2>2. QED  BY <2>1
<1>3. ASSUME AtRest(c), bridge[c].at = "connected" PROVE Len(got[c]) = E[c].sent
  <2>1. Pipeline = <<>> /\ Len(Pipeline) = 0
    <3>1. posted = <<>> /\ up = <<>> /\ out = <<>>
      BY <1>3 DEF Inv, AtRest, Wire
    <3>2. QED  BY <3>1, EmptySeq, OnlyPosted DEF Pipeline
  <2>2. bridge[c].pending = <<>> /\ Len(bridge[c].pending) = 0
    BY <1>1, <1>3, EmptySeq DEF Read
  <2>3. Base(c) = Len(got[c])
    BY <1>1, <2>2 DEF Base
  <2>4. Complete(Pipeline, c, Len(got[c]), E[c].sent)
    BY <1>1, <1>3, <2>3 DEF Lines, Bridged
  <2>5. Len(got[c]) <= E[c].sent /\ \A k \in (Len(got[c]) + 1)..E[c].sent : FALSE
    BY <2>1, <2>4 DEF Complete
  <2>6. QED  BY <1>1, <2>5, SMTT(40)
<1>4. QED  BY <1>2, <1>3

\* Every variable of the trunk keeps its type, both buffers their cap, and the edge's node
\* is never given a block the origin has not found.
THEOREM TypeCorrect == Spec => []TypeOK
BY TrunkInv, InvTypeOK, PTL

\* Whatever connections are lost, sessions closed at either end and frames still queued,
\* once nothing is on its way an edge's miner and its bridge at the origin exist together.
THEOREM EndsAgree == Spec => []EndsMatch
BY TrunkInv, InvEndsMatch, PTL

\* Through the strand, the buffer before the welcome, the wire and the lines kept for a late
\* loopback connection, the pool reads a miner's lines in order, once and without a gap.
THEOREM LinesInOrder == Spec => []LinesRelayed
BY TrunkInv, InvLinesRelayed, PTL
=============================================================================
