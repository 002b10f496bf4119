--------------------------- MODULE JobFeedProofs ---------------------------
(***************************************************************************)
(* What holds of the job feed for any number of jobs and requests, any     *)
(* difficulties and unit of them, payout names and size of the per-job     *)
(* maps.                                                                   *)
(***************************************************************************)
EXTENDS JobFeed, SequenceTheorems, FiniteSetTheorems, TLAPS

PayMaps == UNION { [D -> Names] : D \in SUBSET Jobs }
Vardiff == [current : Nat, first : BOOLEAN, ssdc : Nat]

Sessions ==
  [kind : Kinds \cup {"extended"}, fixed : BOOLEAN, sub : BOOLEAN, auth : BOOLEAN,
   pays : Names \cup {Nobody}, aux : BOOLEAN, vd : Vardiff, custom : BOOLEAN,
   advertised : Nat, before : Nat, last : Nat, grace : BOOLEAN, astray : BOOLEAN,
   auxJobs : SUBSET Jobs, eqJobs : PayMaps, told : [Jobs -> Coinbases],
   newest : Nat, auxDone : SUBSET Jobs, auxSent : [Jobs -> Nat], auxFlushes : Nat]

\* Rounding moves a difficulty by half a unit at most.
LEMMA RoundsNear ==
  ASSUME NEW d \in Nat
  PROVE  Rounded(d) \in Nat /\ 2 * d <= 2 * Rounded(d) + Unit
<1>1. d % Unit \in 0..(Unit - 1) /\ d % Unit <= d
  BY FeedConstants
<1>2. Unit \in Nat
  BY FeedConstants
<1> DEFINE part == d % Unit
<1>3. part \in 0..(Unit - 1) /\ part <= d
  BY <1>1
<1> HIDE DEF part
<1>4. Rounded(d) = IF 2 * part >= Unit THEN d - part + Unit ELSE d - part
  BY DEF Rounded, part
<1> QED  BY <1>2, <1>3, <1>4

\* A tier that starts at a whole difficulty starts vardiff there.
LEMMA StartKept == StartDiff % Unit = 0 => Bounded(Rounded(StartDiff)) = StartDiff
<1> SUFFICES ASSUME StartDiff % Unit = 0 PROVE Bounded(Rounded(StartDiff)) = StartDiff
  OBVIOUS
<1>1. StartDiff \in Nat /\ MinDiff \in Nat /\ MaxDiff \in Nat /\ Unit \in Nat /\ Unit # 0
  BY FeedConstants
<1>2. Rounded(StartDiff) = StartDiff
  BY <1>1 DEF Rounded
<1> QED  BY <1>1, <1>2 DEF Bounded, Clamp, Lesser, Greater

LEMMA Difficulties ==
  /\ MaxJobs \in Nat /\ \A j \in Jobs : j \in Nat /\ j # 0 /\ j <= MaxJobs
  /\ Diffs \subseteq Nat /\ StartDiff \in Nat
  /\ Bounded(Rounded(StartDiff)) \in Nat
  /\ \A d \in Nat : Within(d) \in Nat /\ Clamp(d, CustomMin, CustomMax) \in Nat
  /\ \A kind : \A d \in Nat : Heard(kind, d) \in Nat
  /\ \A wanted \in Nat : \A network \in Nat : Optimal(wanted, network) \in Nat
<1>1. \A d \in Nat : Within(d) \in Nat /\ Clamp(d, CustomMin, CustomMax) \in Nat
  BY FeedConstants DEF Within, Clamp
<1>2. \A d \in Nat : Bounded(d) \in Nat
  BY FeedConstants DEF Bounded, Clamp, Lesser, Greater
<1>3. \A d \in Nat : Rounded(d) \in Nat
  BY RoundsNear
<1>4. \A wanted \in Nat : \A network \in Nat : Optimal(wanted, network) \in Nat
  BY <1>2, <1>3 DEF Optimal, Lesser
<1>5. \A kind : \A d \in Nat : Heard(kind, d) \in Nat
  BY <1>3 DEF Heard
<1>6. StartDiff \in Nat /\ Diffs \subseteq Nat /\ MaxJobs \in Nat
  BY FeedConstants
<1>7. \A j \in Jobs : j \in Nat /\ j # 0 /\ j <= MaxJobs
  BY <1>6 DEF Jobs
<1> QED  BY <1>1, <1>2, <1>3, <1>4, <1>5, <1>6, <1>7

LEMMA EmptyMap == << >> \in PayMaps /\ DOMAIN << >> = {}
<1>1. << >> \in [{} -> Names]
  OBVIOUS
<1> QED  BY <1>1 DEF PayMaps

LEMMA Remembered ==
  ASSUME NEW map \in PayMaps, NEW j \in Jobs, NEW name \in Names
  PROVE  /\ Remember(map, j, name) \in PayMaps
         /\ j \in DOMAIN Remember(map, j, name) /\ Remember(map, j, name)[j] = name
         /\ DOMAIN Remember(map, j, name) \subseteq DOMAIN map \cup {j}
<1> DEFINE kept == IF Cardinality(DOMAIN map) > Cap THEN << >> ELSE map
<1>1. kept \in PayMaps /\ DOMAIN kept \subseteq DOMAIN map
  BY EmptyMap
<1>2. PICK D \in SUBSET Jobs : kept \in [D -> Names]
  BY <1>1 DEF PayMaps
<1> HIDE DEF kept
<1> DEFINE f == [k \in DOMAIN kept \cup {j} |-> IF k = j THEN name ELSE kept[k]]
<1>3. f \in [D \cup {j} -> Names] /\ D \cup {j} \in SUBSET Jobs
  BY <1>2
<1>4. f \in PayMaps
  BY <1>3 DEF PayMaps
<1>5. j \in DOMAIN f /\ f[j] = name /\ DOMAIN f = DOMAIN kept \cup {j}
  OBVIOUS
<1>6. Remember(map, j, name) = f
  BY DEF Remember, kept
<1> QED  BY <1>1, <1>4, <1>5, <1>6

(***************************************************************************)
(* What must hold of a session.                                            *)
(***************************************************************************)

Rebuilt(c) ==
  c.kind # "merged" /\ c.newest # 0 => RebuildCoinbase(c, c.newest) = c.told[c.newest]

\* Nothing is remembered before somebody is paid, nor of a coinbase that pays
\* the node.
MapFilled(c) ==
  /\ c.pays = Nobody => DOMAIN c.eqJobs = {}
  /\ \A j \in DOMAIN c.eqJobs : j \notin Unswappable

\* What the miner heard last and before is vardiff's threshold and the one before
\* it; until the first channel is opened vardiff is where it started, and only a
\* channel makes a session an extended one.
Advertised(c) ==
  /\ ~c.astray => /\ c.advertised = Heard(c.kind, c.vd.current)
                  /\ c.before = Heard(c.kind, c.last) \/ c.before = Heard(c.kind, c.vd.current)
  /\ c.kind = "standard" /\ c.pays = Nobody => c.vd.current = Bounded(Rounded(StartDiff))
  /\ c.kind = "extended" => c.pays # Nobody

AuxCounted(c) == \A j \in Jobs : /\ c.auxSent[j] <= 1 + c.auxFlushes
                                 /\ j \notin c.auxDone => c.auxSent[j] <= c.auxFlushes

\* e differs from c neither in what the difficulty rests on nor in the aux blocks.
Alike(c, e) ==
  /\ e.kind = c.kind /\ e.pays = c.pays /\ e.vd = c.vd /\ e.astray = c.astray
  /\ e.advertised = c.advertised /\ e.before = c.before /\ e.last = c.last
  /\ e.auxDone = c.auxDone /\ e.auxSent = c.auxSent /\ e.auxFlushes = c.auxFlushes

\* e has been told the coinbases c has, and rebuilds them alike.
Recalls(c, e) ==
  /\ e.kind = c.kind /\ e.pays = c.pays /\ e.aux = c.aux /\ e.told = c.told
  /\ e.eqJobs = c.eqJobs /\ e.auxJobs = c.auxJobs /\ e.newest = c.newest

LEMMA AlikeKeeps ==
  ASSUME NEW c, NEW e, Alike(c, e)
  PROVE  (Advertised(c) => Advertised(e)) /\ (AuxCounted(c) => AuxCounted(e))
  BY DEF Alike, Advertised, AuxCounted

LEMMA RecallsKeeps ==
  ASSUME NEW c, NEW e, Recalls(c, e)
  PROVE  (MapFilled(c) => MapFilled(e)) /\ (Rebuilt(c) => Rebuilt(e))
  BY DEF Recalls, MapFilled, Rebuilt, RebuildCoinbase, SessionCoinbase

\* e is c after a job is sent.
Emitted(c, e, j) ==
  /\ e \in Sessions /\ e.newest = j /\ Rebuilt(e) /\ MapFilled(e) /\ Alike(c, e)
  /\ e.sub = c.sub /\ e.auth = c.auth

LEMMA Told ==
  ASSUME NEW c \in Sessions, NEW j \in Jobs, NEW coinbase \in Coinbases
  PROVE  LET e == Tells(c, j, coinbase)
         IN /\ e \in Sessions /\ e.newest = j /\ e.told[j] = coinbase /\ Alike(c, e)
            /\ e.kind = c.kind /\ e.pays = c.pays /\ e.eqJobs = c.eqJobs
            /\ e.sub = c.sub /\ e.auth = c.auth
<1>1. j \in Nat
  BY Difficulties
<1> QED  BY <1>1 DEF Tells, Sessions, Alike

LEMMA CoinbaseType ==
  ASSUME NEW c \in Sessions, NEW commit \in BOOLEAN
  PROVE  SessionCoinbase(c, commit) \in Coinbases /\ SessionCoinbase(c, commit).pays = c.pays
         /\ SessionCoinbase(c, commit) = [pays |-> c.pays, commit |-> commit]
  BY DEF SessionCoinbase, Coinbases, Sessions

LEMMA NodeCoinbaseType == NodeCoinbase \in Coinbases
  BY DEF NodeCoinbase, Coinbases

LEMMA EmitJobEmits ==
  ASSUME NEW c \in Sessions, NEW j \in Jobs, MapFilled(c)
  PROVE  Emitted(c, EmitJob(c, j), j)
<1>0. SessionCoinbase(c, FALSE) \in Coinbases /\ NodeCoinbase \in Coinbases
  BY CoinbaseType, NodeCoinbaseType
<1>1. CASE c.kind = "equihash" /\ c.pays # Nobody /\ j \notin Unswappable
  <2> DEFINE m == [c EXCEPT !.eqJobs = Remember(@, j, c.pays)]
  <2>1. c.pays \in Names /\ c.eqJobs \in PayMaps
    BY <1>1 DEF Sessions
  <2>2. /\ Remember(c.eqJobs, j, c.pays) \in PayMaps
        /\ j \in DOMAIN Remember(c.eqJobs, j, c.pays)
        /\ Remember(c.eqJobs, j, c.pays)[j] = c.pays
        /\ DOMAIN Remember(c.eqJobs, j, c.pays) \subseteq DOMAIN c.eqJobs \cup {j}
    BY <2>1, Remembered
  <2>3. /\ m \in Sessions /\ m.eqJobs = Remember(c.eqJobs, j, c.pays) /\ Alike(c, m)
        /\ m.kind = c.kind /\ m.pays = c.pays /\ m.sub = c.sub /\ m.auth = c.auth
    BY <2>2 DEF Sessions, Alike
  <2> HIDE DEF m
  <2> DEFINE e == Tells(m, j, SessionCoinbase(c, FALSE))
  <2>4. /\ e \in Sessions /\ e.newest = j /\ e.told[j] = SessionCoinbase(c, FALSE)
        /\ e.kind = m.kind /\ e.pays = m.pays /\ e.eqJobs = m.eqJobs /\ Alike(m, e)
        /\ e.sub = m.sub /\ e.auth = m.auth
    BY <1>0, <2>3, Told, ZenonT(60)
  <2>5. EmitJob(c, j) = e
    BY <1>1 DEF EmitJob, m
  <2> HIDE DEF e
  <2>6. RebuildCoinbase(e, j) = e.told[j]
    BY <1>1, <2>2, <2>3, <2>4, ZenonT(60) DEF RebuildCoinbase, SessionCoinbase
  <2>7. MapFilled(e)
    BY <1>1, <2>2, <2>3, <2>4 DEF MapFilled
  <2>8. Alike(c, e)
    BY <2>3, <2>4 DEF Alike
  <2> QED  BY <2>3, <2>4, <2>5, <2>6, <2>7, <2>8, ZenonT(60) DEF Emitted, Rebuilt
<1>2. CASE c.kind = "equihash" /\ (c.pays = Nobody \/ j \in Unswappable)
  <2> DEFINE e == Tells(c, j, NodeCoinbase)
  <2>1. /\ e \in Sessions /\ e.newest = j /\ e.told[j] = NodeCoinbase
        /\ e.kind = c.kind /\ e.pays = c.pays /\ e.eqJobs = c.eqJobs /\ Alike(c, e)
        /\ e.sub = c.sub /\ e.auth = c.auth
    BY <1>0, Told, ZenonT(60)
  <2>2. EmitJob(c, j) = e
    BY <1>2 DEF EmitJob
  <2> HIDE DEF e
  <2>3. j \notin DOMAIN e.eqJobs
    BY <1>2, <2>1 DEF MapFilled
  <2>4. RebuildCoinbase(e, j) = e.told[j]
    BY <1>2, <2>1, <2>3 DEF RebuildCoinbase, NodeCoinbase
  <2> QED  BY <2>1, <2>2, <2>4 DEF Emitted, Rebuilt, MapFilled
<1>3. CASE c.kind # "equihash"
  <2> DEFINE e == Tells(c, j, SessionCoinbase(c, FALSE))
  <2>1. /\ e \in Sessions /\ e.newest = j /\ e.told[j] = SessionCoinbase(c, FALSE)
        /\ e.kind = c.kind /\ e.pays = c.pays /\ e.eqJobs = c.eqJobs /\ Alike(c, e)
        /\ e.sub = c.sub /\ e.auth = c.auth
    BY <1>0, Told, ZenonT(60)
  <2>2. EmitJob(c, j) = e
    BY <1>3 DEF EmitJob
  <2> HIDE DEF e
  <2>3. c.kind # "merged" => RebuildCoinbase(e, j) = e.told[j]
    BY <1>3, <2>1 DEF RebuildCoinbase, SessionCoinbase
  <2> QED  BY <2>1, <2>2, <2>3 DEF Emitted, Rebuilt, MapFilled
<1> QED  BY <1>1, <1>2, <1>3

\* For sessions that do not remember whom a job paid.
LEMMA TellingEmits ==
  ASSUME NEW c \in Sessions, NEW j \in Jobs, MapFilled(c), NEW commit \in BOOLEAN,
         c.kind = "merged" \/ (c.kind \in V2 /\ commit = FALSE)
  PROVE  Emitted(c, Tells(c, j, SessionCoinbase(c, commit)), j)
<1> DEFINE e == Tells(c, j, SessionCoinbase(c, commit))
<1>1. SessionCoinbase(c, commit) \in Coinbases
  BY CoinbaseType
<1>2. /\ e \in Sessions /\ e.newest = j /\ e.told[j] = SessionCoinbase(c, commit)
      /\ e.kind = c.kind /\ e.pays = c.pays /\ e.eqJobs = c.eqJobs /\ Alike(c, e)
      /\ e.sub = c.sub /\ e.auth = c.auth
  BY <1>1, Told
<1> HIDE DEF e
<1>3. c.kind # "merged" => RebuildCoinbase(e, j) = e.told[j]
  BY <1>2 DEF RebuildCoinbase, SessionCoinbase, V2
<1>4. Emitted(c, e, j)
  BY <1>2, <1>3 DEF Emitted, Rebuilt, MapFilled
<1> QED  BY <1>4 DEF e

LEMMA LatestSentEmits ==
  ASSUME latest \in 0..MaxJobs, NEW c \in Sessions, MapFilled(c), c.newest <= latest
  PROVE  Emitted(c, LatestSent(c), latest)
<1>1. CASE latest = 0
  <2>1. LatestSent(c) = c /\ c.newest = 0
    BY <1>1, Difficulties DEF LatestSent, Sessions
  <2> QED  BY <1>1, <2>1 DEF Emitted, Rebuilt, Alike
<1>2. CASE latest # 0
  <2>1. latest \in Jobs /\ LatestSent(c) = EmitJob(c, latest)
    BY <1>2, Difficulties DEF LatestSent, Jobs
  <2> QED  BY <2>1, EmitJobEmits
<1> QED  BY <1>1, <1>2

\* e is c after it was told difficulty d.
Retargeted(c, e, d, old) ==
  /\ e \in Sessions /\ MapFilled(e) /\ (Rebuilt(c) => Rebuilt(e))
  /\ e.kind = c.kind /\ e.pays = c.pays /\ e.sub = c.sub /\ e.auth = c.auth /\ e.vd = c.vd
  /\ e.auxDone = c.auxDone /\ e.auxSent = c.auxSent /\ e.auxFlushes = c.auxFlushes
  /\ ~e.astray /\ e.advertised = Heard(c.kind, d) /\ e.last = old
  /\ e.before = IF c.astray \/ old = d THEN Heard(c.kind, d) ELSE c.advertised
  /\ e.newest <= latest /\ e.newest \in {c.newest, latest}

LEMMA ToldDifficulty ==
  ASSUME latest \in 0..MaxJobs, NEW c \in Sessions, MapFilled(c), c.newest <= latest,
         NEW d \in Nat, NEW old \in Nat
  PROVE  /\ Retargeted(c, SendSetDifficulty(c, d, old), d, old)
         /\ c.auth => SendSetDifficulty(c, d, old).newest = latest
         /\ Retargeted(c, SendSetTarget(c, d, old), d, old)
<1> DEFINE heard == Heard(c.kind, d)
           before == IF c.astray \/ old = d THEN heard ELSE c.advertised
           t == [c EXCEPT !.advertised = heard, !.before = before, !.last = old,
                          !.grace = TRUE, !.astray = FALSE]
<1>0. heard \in Nat /\ before \in Nat
  BY Difficulties DEF Sessions
<1>2. SendSetTarget(c, d, old) = t /\ SendSetDifficulty(c, d, old) = IF c.auth THEN LatestSent(t) ELSE t
  BY DEF SendSetTarget, SendSetDifficulty, Advertises
<1>3. heard = Heard(c.kind, d) /\ before = IF c.astray \/ old = d THEN Heard(c.kind, d) ELSE c.advertised
  OBVIOUS
<1> HIDE DEF heard, before
<1>1. /\ t \in Sessions /\ t.advertised = heard /\ t.before = before /\ t.last = old
      /\ t.astray = FALSE /\ Recalls(c, t) /\ t.newest = c.newest
      /\ t.kind = c.kind /\ t.pays = c.pays /\ t.sub = c.sub /\ t.auth = c.auth /\ t.vd = c.vd
      /\ t.auxDone = c.auxDone /\ t.auxSent = c.auxSent /\ t.auxFlushes = c.auxFlushes
  BY <1>0, ZenonT(60) DEF Sessions, Recalls
<1> HIDE DEF t
<1>4. MapFilled(t) /\ (Rebuilt(c) => Rebuilt(t))
  BY <1>1, RecallsKeeps
<1>5. Emitted(t, LatestSent(t), latest)
  BY <1>1, <1>4, LatestSentEmits
<1>6. latest <= latest /\ latest \in Nat
  BY Difficulties
<1>7. Retargeted(c, t, d, old)
  BY <1>1, <1>3, <1>4 DEF Retargeted
<1>8. Retargeted(c, LatestSent(t), d, old) /\ LatestSent(t).newest = latest
  BY <1>1, <1>3, <1>5, <1>6 DEF Retargeted, Emitted, Alike
<1> QED  BY <1>2, <1>7, <1>8

LEMMA OnShareType ==
  ASSUME NEW v \in Vardiff, NEW observed, NEW late \in BOOLEAN, NEW wanted \in Nat, NEW network \in Nat
  PROVE  OnShare(v, observed, late, wanted, network) \in Vardiff
<1> DEFINE count == IF v.ssdc < SharesPerCheck THEN v.ssdc + 1 ELSE v.ssdc
           best == Optimal(wanted, network)
<1>1. count \in Nat /\ best \in Nat
  <2>1. best \in Nat
    BY Difficulties
  <2>2. count \in Nat
    BY DEF Vardiff
  <2> QED  BY <2>1, <2>2
<1> HIDE DEF count, best
<1>2. /\ [v EXCEPT !.first = TRUE, !.ssdc = 1] \in Vardiff
      /\ [v EXCEPT !.ssdc = count] \in Vardiff /\ [v EXCEPT !.ssdc = 0] \in Vardiff
      /\ [v EXCEPT !.ssdc = 0, !.current = best] \in Vardiff
  BY <1>1 DEF Vardiff
<1>3. \/ OnShare(v, observed, late, wanted, network) = [v EXCEPT !.first = TRUE, !.ssdc = 1]
      \/ OnShare(v, observed, late, wanted, network) = [v EXCEPT !.ssdc = count]
      \/ OnShare(v, observed, late, wanted, network) = [v EXCEPT !.ssdc = 0]
      \/ OnShare(v, observed, late, wanted, network) = [v EXCEPT !.ssdc = 0, !.current = best]
  BY DEF OnShare, count, best
<1> QED  BY <1>2, <1>3

LEMMA TickKeeps ==
  ASSUME latest \in 0..MaxJobs, NEW c \in Sessions, MapFilled(c), Rebuilt(c), Advertised(c),
         c.newest <= latest, c.kind = "standard" => c.pays # Nobody,
         NEW observed, NEW late \in BOOLEAN, NEW wanted \in Nat, NEW network \in Nat
  PROVE  LET e == Ticked(c, observed, late, wanted, network)
         IN /\ e \in Sessions /\ MapFilled(e) /\ Rebuilt(e) /\ Advertised(e)
            /\ e.sub = c.sub /\ e.auth = c.auth /\ e.pays = c.pays
            /\ e.auxDone = c.auxDone /\ e.auxSent = c.auxSent
            /\ e.auxFlushes = c.auxFlushes /\ e.newest <= latest /\ e.newest \in {c.newest, latest}
<1> DEFINE v == OnShare(c.vd, observed, late, wanted, network)
           m == [c EXCEPT !.vd = v]
           old == c.vd.current
           e == Ticked(c, observed, late, wanted, network)
<1>1. v \in Vardiff /\ v.current \in Nat /\ old \in Nat
  BY OnShareType DEF Sessions, Vardiff
<1>3. \/ e = c
      \/ e = m /\ v.current = old
      \/ e = SendSetTarget(m, v.current, old)
      \/ e = SendSetDifficulty(m, v.current, old)
  BY DEF Ticked
<1> HIDE DEF v
<1>2. /\ m \in Sessions /\ m.vd = v /\ m.kind = c.kind /\ m.pays = c.pays /\ Recalls(c, m)
      /\ m.sub = c.sub /\ m.auth = c.auth /\ m.advertised = c.advertised /\ m.before = c.before
      /\ m.last = c.last /\ m.astray = c.astray /\ m.auxDone = c.auxDone /\ m.auxSent = c.auxSent
      /\ m.auxFlushes = c.auxFlushes /\ m.newest = c.newest
  BY <1>1 DEF Sessions, Recalls
<1> HIDE DEF m, e
<1>4. MapFilled(m) /\ Rebuilt(m) /\ m.newest <= latest
  BY <1>2, RecallsKeeps
<1>5. /\ Retargeted(m, SendSetTarget(m, v.current, old), v.current, old)
      /\ Retargeted(m, SendSetDifficulty(m, v.current, old), v.current, old)
  BY <1>1, <1>2, <1>4, ToldDifficulty
<1>6. /\ e \in Sessions /\ MapFilled(e) /\ Rebuilt(e) /\ Advertised(e)
      /\ e.sub = c.sub /\ e.auth = c.auth /\ e.pays = c.pays
      /\ e.auxDone = c.auxDone /\ e.auxSent = c.auxSent
      /\ e.auxFlushes = c.auxFlushes /\ e.newest <= latest /\ e.newest \in {c.newest, latest}
  <2>1. CASE e = c
    BY <2>1
  <2>2. CASE e = m /\ v.current = old
    BY <1>2, <1>4, <2>2 DEF Advertised
  <2>3. CASE Retargeted(m, e, v.current, old)
    <3>1. /\ ~e.astray /\ e.advertised = Heard(e.kind, e.vd.current) /\ e.kind = c.kind
          /\ e.pays = c.pays /\ e.last = old
          /\ e.before = IF c.astray \/ old = v.current THEN Heard(e.kind, e.vd.current)
                        ELSE c.advertised
      BY <1>2, <2>3 DEF Retargeted
    <3>2. ~c.astray => c.advertised = Heard(c.kind, old)
      BY DEF Advertised
    <3>3. Advertised(e)
      BY <3>1, <3>2 DEF Advertised
    <3> QED  BY <1>2, <1>4, <2>3, <3>3 DEF Retargeted
  <2> QED  BY <1>3, <1>5, <2>1, <2>2, <2>3
<1> QED  BY <1>6 DEF e

LEMMA AuxBlockKeeps ==
  ASSUME NEW c \in Sessions, NEW j \in Jobs, MapFilled(c), Rebuilt(c), Advertised(c), AuxCounted(c)
  PROVE  LET e == AuxBlock(c, j)
         IN /\ e \in Sessions /\ MapFilled(e) /\ Rebuilt(e) /\ Advertised(e) /\ AuxCounted(e)
            /\ e.sub = c.sub /\ e.auth = c.auth /\ e.newest = c.newest /\ e.pays = c.pays
<1> DEFINE full == Cardinality(c.auxDone) > Cap
           flushes == IF full THEN c.auxFlushes + 1 ELSE c.auxFlushes
           done == (IF full THEN {} ELSE c.auxDone) \cup {j}
           sent == [c.auxSent EXCEPT ![j] = @ + 1]
           e == [c EXCEPT !.auxFlushes = flushes, !.auxDone = done, !.auxSent = sent]
<1>1. CASE AuxBlock(c, j) = c
  BY <1>1
<1>2. CASE j \notin c.auxDone /\ AuxBlock(c, j) = e
  <2>1. /\ c.auxFlushes \in Nat /\ c.auxSent \in [Jobs -> Nat] /\ c.auxDone \in SUBSET Jobs
    BY DEF Sessions
  <2>2. flushes \in Nat /\ done \in SUBSET Jobs /\ sent \in [Jobs -> Nat]
    BY <2>1
  <2>3. ASSUME NEW k \in Jobs
        PROVE  sent[k] <= 1 + flushes /\ (k \notin done => sent[k] <= flushes)
    <3>1. c.auxSent[k] <= 1 + c.auxFlushes /\ (k \notin c.auxDone => c.auxSent[k] <= c.auxFlushes)
      BY DEF AuxCounted
    <3>2. c.auxSent[k] \in Nat
      BY <2>1
    <3>3. CASE k = j
      <4>1. sent[k] = c.auxSent[k] + 1 /\ c.auxSent[k] <= c.auxFlushes /\ k \in done
        BY <1>2, <2>1, <3>1, <3>3
      <4> QED  BY <2>1, <3>2, <4>1
    <3>4. CASE k # j
      <4>1. sent[k] = c.auxSent[k]
        BY <2>1, <3>4
      <4> QED  BY <2>1, <3>1, <3>2, <3>4, <4>1
    <3> QED  BY <3>3, <3>4
  <2> HIDE DEF flushes, done, sent
  <2>4. /\ e \in Sessions /\ e.auxFlushes = flushes /\ e.auxDone = done /\ e.auxSent = sent
        /\ Recalls(c, e) /\ e.sub = c.sub /\ e.auth = c.auth /\ e.newest = c.newest
        /\ e.kind = c.kind /\ e.pays = c.pays /\ e.vd = c.vd /\ e.astray = c.astray
        /\ e.advertised = c.advertised /\ e.before = c.before /\ e.last = c.last
    BY <2>2, ZenonT(60) DEF Sessions, Recalls
  <2> HIDE DEF e
  <2>5. AuxCounted(e)
    BY <2>3, <2>4 DEF AuxCounted
  <2>6. MapFilled(e) /\ Rebuilt(e) /\ Advertised(e)
    BY <2>4, RecallsKeeps DEF Advertised
  <2> QED  BY <1>2, <2>4, <2>5, <2>6
<1>3. AuxBlock(c, j) = c \/ (j \notin c.auxDone /\ AuxBlock(c, j) = e)
  BY DEF AuxBlock, Sessions
<1> QED  BY <1>1, <1>2, <1>3

LEMMA NotifiedEmits ==
  ASSUME NEW c \in Sessions, NEW j \in Jobs, MapFilled(c)
  PROVE  (Notified(c, j) = c /\ ~c.sub) \/ Emitted(c, Notified(c, j), j)
<1>1. CASE ~c.sub
  BY <1>1 DEF Notified
<1>2. CASE c.sub /\ BuildsAux(c, j)
  <2> DEFINE kept == (IF Cardinality(c.auxJobs) > Cap THEN {} ELSE c.auxJobs) \cup {j}
             m == [c EXCEPT !.auxJobs = kept]
  <2>1. kept \in SUBSET Jobs
    BY DEF Sessions
  <2> HIDE DEF kept
  <2>2. /\ m \in Sessions /\ m.kind = c.kind /\ m.pays = c.pays /\ m.eqJobs = c.eqJobs
        /\ m.sub = c.sub /\ m.auth = c.auth /\ Alike(c, m)
    BY <2>1 DEF Sessions, Alike
  <2>3. Notified(c, j) = Tells(m, j, SessionCoinbase(m, TRUE))
    <3>1. Notified(c, j) = EmitJobCustom(m, j)
      BY <1>2 DEF Notified, kept, BuildsAux, V2
    <3> QED  BY <3>1 DEF EmitJobCustom
  <2> HIDE DEF m
  <2>4. MapFilled(m) /\ m.kind = "merged"
    BY <1>2, <2>2 DEF MapFilled, BuildsAux
  <2>5. Emitted(m, Notified(c, j), j)
    BY <2>2, <2>3, <2>4, TellingEmits
  <2> QED  BY <2>2, <2>5 DEF Emitted, Alike
<1>3. CASE c.sub /\ ~BuildsAux(c, j) /\ c.kind \in V2
  <2>1. Notified(c, j) = Tells(c, j, SessionCoinbase(c, FALSE))
    BY <1>3 DEF Notified, EmitJobV2
  <2> QED  BY <1>3, <2>1, TellingEmits
<1>4. CASE c.sub /\ ~BuildsAux(c, j) /\ c.kind \notin V2
  <2>1. Notified(c, j) = EmitJob(c, j)
    BY <1>4 DEF Notified
  <2> QED  BY <2>1, EmitJobEmits
<1> QED  BY <1>1, <1>2, <1>3, <1>4

(***************************************************************************)
(* The invariant.  NewestJobLast needs to know that the last handler       *)
(* posted is for the newest job; CurrentJobRebuilt that an equihash        *)
(* session remembers nobody before somebody is paid, and nobody for a job  *)
(* whose coinbase pays the node; ThresholdAdvertised that what the miner   *)
(* heard before is the difficulty vardiff keeps as the last one;           *)
(* AuxSubmittedOnce that a job absent from the table of submitted blocks   *)
(* was handed on at most once for each time the table was emptied.         *)
(***************************************************************************)

Good(c, top) ==
  /\ c \in Sessions /\ c.newest <= top
  /\ Rebuilt(c) /\ MapFilled(c) /\ Advertised(c) /\ AuxCounted(c)

Posted ==
  /\ latest \in 0..MaxJobs /\ casting \in {0, latest}
  /\ mail \in Seq(Nat) /\ \A k \in 1..Len(mail) : mail[k] \in 1..latest
  /\ ~reg => ~s.auth /\ s.pays = Nobody /\ mail = << >>
  /\ mail # << >> /\ casting = 0 => mail[Len(mail)] = latest

FeedInv == Posted /\ Good(s, latest) /\ NewestJobLast

LEMMA InitEstablishes == Init => FeedInv
<1> SUFFICES ASSUME Init PROVE FeedInv
  OBVIOUS
<1> DEFINE first == Bounded(Rounded(StartDiff))
<1>1. PICK kind \in Kinds, fixed \in BOOLEAN :
        s = [kind |-> kind, fixed |-> fixed, sub |-> FALSE, auth |-> FALSE, pays |-> Nobody,
             aux |-> FALSE, vd |-> SetCurrent(first), custom |-> FALSE,
             advertised |-> 0, before |-> 0, last |-> StartDiff, grace |-> TRUE, astray |-> TRUE,
             auxJobs |-> {}, eqJobs |-> <<>>, told |-> [j \in Jobs |-> NotSent], newest |-> 0,
             auxDone |-> {}, auxSent |-> [j \in Jobs |-> 0], auxFlushes |-> 0]
  BY DEF Init
<1>2. SetCurrent(first) \in Vardiff /\ SetCurrent(first).current = first
  BY Difficulties DEF SetCurrent, Vardiff
<1>3. NotSent \in Coinbases
  BY DEF NotSent, Coinbases
<1> DEFINE v == SetCurrent(first)
<1> HIDE DEF v, first
<1>4. s \in Sessions
  <2>1. StartDiff \in Nat /\ << >> \in PayMaps /\ v \in Vardiff
    BY <1>2, EmptyMap, Difficulties DEF v
  <2>2. [j \in Jobs |-> NotSent] \in [Jobs -> Coinbases] /\ [j \in Jobs |-> 0] \in [Jobs -> Nat]
    BY <1>3
  <2> QED  BY <1>1, <2>1, <2>2 DEF Sessions, v
<1>5. s.newest = 0 /\ ~s.auth /\ s.pays = Nobody /\ DOMAIN s.eqJobs = {} /\ s.astray /\ s.vd.current = first
  BY <1>1, <1>2, EmptyMap
<1>6. AuxCounted(s)
  BY <1>1 DEF AuxCounted
<1>7. latest = 0 /\ casting = 0 /\ mail = << >>
  BY DEF Init
<1>8. s.kind # "extended"
  BY <1>1, FeedConstants
<1>9. Good(s, latest)
  BY <1>4, <1>5, <1>6, <1>7, <1>8 DEF Good, Rebuilt, MapFilled, Advertised, first
<1>10. Posted /\ NewestJobLast
  BY <1>5, <1>7, Difficulties DEF Posted, NewestJobLast
<1> QED  BY <1>9, <1>10 DEF FeedInv

\* A handler on the strand that runs to its end.
LEMMA HandlerKeeps ==
  ASSUME FeedInv, UNCHANGED <<latest, casting, reg, mail>>, Good(s', latest),
         ~reg => ~s'.auth /\ s'.pays = Nobody,
         s'.auth /\ s'.sub /\ s'.pays # Nobody =>
           s'.newest = latest \/ (s'.newest = s.newest /\ s.auth /\ s.sub /\ s.pays # Nobody)
  PROVE  FeedInv'
<1>1. Posted'
  BY DEF FeedInv, Posted
<1>2. NewestJobLast'
  BY DEF FeedInv, NewestJobLast
<1> QED  BY <1>1, <1>2 DEF FeedInv

LEMMA SubscribeKeeps == FeedInv /\ Subscribe => FeedInv'
<1> SUFFICES ASSUME FeedInv, Subscribe PROVE FeedInv'
  OBVIOUS
<1> DEFINE c == [s EXCEPT !.sub = TRUE]
           d == s.vd.current
           e == SendSetDifficulty(c, d, d)
<1>1. /\ c \in Sessions /\ Recalls(s, c) /\ Alike(s, c) /\ c.auth = s.auth /\ c.vd = s.vd
      /\ c.kind = s.kind /\ c.newest = s.newest
  BY DEF FeedInv, Good, Sessions, Recalls, Alike
<1>2. s' = e /\ reg /\ s.kind \notin V2 /\ UNCHANGED <<latest, casting, reg, mail>>
  BY DEF Subscribe, IsV1
<1>3. d \in Nat /\ latest \in 0..MaxJobs /\ c.newest <= latest
  BY <1>1 DEF FeedInv, Good, Posted, Sessions, Vardiff
<1> HIDE DEF c
<1>4. MapFilled(c) /\ Rebuilt(c) /\ AuxCounted(c) /\ c.vd.current = d
  BY <1>1, AlikeKeeps, RecallsKeeps DEF FeedInv, Good
<1> HIDE DEF d
<1>5. Retargeted(c, e, d, d) /\ (c.auth => e.newest = latest)
  BY <1>1, <1>3, <1>4, ToldDifficulty
<1> HIDE DEF e
<1>6. Good(e, latest)
  BY <1>1, <1>2, <1>4, <1>5 DEF Good, Retargeted, Advertised, AuxCounted, V2
<1>7. e.auth => e.newest = latest
  BY <1>5 DEF Retargeted
<1> QED  BY <1>2, <1>6, <1>7, HandlerKeeps

LEMMA AuthorizeKeeps ==
  ASSUME FeedInv, NEW name \in Names, NEW aux \in BOOLEAN, NEW custom \in Diffs \cup {0},
         Authorize(name, aux, custom)
  PROVE  FeedInv'
<1> DEFINE c == [s EXCEPT !.pays = name, !.aux = aux \/ @]
           d == Clamp(custom, CustomMin, CustomMax)
           t == [c EXCEPT !.custom = TRUE, !.vd = SetCurrent(d)]
           asked == IF custom = 0 THEN c ELSE SendSetDifficulty(t, d, d)
           a == [asked EXCEPT !.auth = TRUE]
<1>1. s' = LatestSent(a) /\ reg /\ s.kind \notin V2 /\ UNCHANGED <<latest, casting, reg, mail>>
  BY DEF Authorize, IsV1
<1>0. d \in Nat /\ latest \in 0..MaxJobs
  <2>1. custom \in Nat
    BY Difficulties
  <2> QED  BY <2>1, Difficulties DEF FeedInv, Posted
<1> HIDE DEF d
<1>2. SetCurrent(d) \in Vardiff /\ SetCurrent(d).current = d
  BY <1>0 DEF SetCurrent, Vardiff
<1>3. /\ c \in Sessions /\ c.pays = name /\ c.newest = s.newest /\ c.vd = s.vd /\ c.kind = s.kind
      /\ c.advertised = s.advertised /\ c.before = s.before /\ c.last = s.last
      /\ c.astray = s.astray /\ c.eqJobs = s.eqJobs
      /\ c.auxDone = s.auxDone /\ c.auxSent = s.auxSent /\ c.auxFlushes = s.auxFlushes
  BY ZenonT(60) DEF FeedInv, Good, Sessions
<1>4. name # Nobody
  BY FeedConstants
<1> HIDE DEF c
<1>5. /\ t \in Sessions /\ t.pays = name /\ t.newest = s.newest /\ t.vd.current = d
      /\ t.kind = s.kind /\ t.eqJobs = s.eqJobs
      /\ t.auxDone = s.auxDone /\ t.auxSent = s.auxSent /\ t.auxFlushes = s.auxFlushes
  BY <1>2, <1>3 DEF Sessions
<1> HIDE DEF t
<1>6. /\ asked \in Sessions /\ MapFilled(asked) /\ Advertised(asked) /\ asked.kind = s.kind
      /\ asked.newest <= latest
      /\ asked.auxDone = s.auxDone /\ asked.auxSent = s.auxSent
      /\ asked.auxFlushes = s.auxFlushes
  <2>1. CASE custom = 0
    BY <1>1, <1>3, <1>4, <2>1 DEF FeedInv, Good, MapFilled, Advertised, V2
  <2>2. CASE custom # 0
    <3>1. MapFilled(t) /\ t.newest <= latest
      BY <1>4, <1>5 DEF MapFilled, FeedInv, Good
    <3>2. Retargeted(t, SendSetDifficulty(t, d, d), d, d)
      BY <1>0, <1>5, <3>1, ToldDifficulty
    <3> QED  BY <1>1, <1>5, <2>2, <3>2 DEF Retargeted, Advertised, V2
  <2> QED  BY <2>1, <2>2
<1> HIDE DEF asked
<1>7. /\ a \in Sessions /\ Alike(asked, a) /\ a.pays = asked.pays /\ a.eqJobs = asked.eqJobs
      /\ a.newest = asked.newest /\ a.auxDone = s.auxDone /\ a.auxSent = s.auxSent
      /\ a.auxFlushes = s.auxFlushes
  BY <1>6 DEF Sessions, Alike
<1> HIDE DEF a
<1>8. MapFilled(a) /\ Advertised(a) /\ a.newest <= latest /\ AuxCounted(a)
  BY <1>6, <1>7, AlikeKeeps DEF MapFilled, AuxCounted, FeedInv, Good
<1>9. Emitted(a, s', latest)
  BY <1>0, <1>1, <1>7, <1>8, LatestSentEmits
<1>10. latest <= latest
  BY <1>0
<1>11. Good(s', latest) /\ s'.newest = latest
  BY <1>8, <1>9, <1>10, AlikeKeeps DEF Emitted, Good
<1> QED  BY <1>1, <1>11, HandlerKeeps

LEMMA SuggestKeeps ==
  ASSUME FeedInv, NEW wanted \in Diffs, SuggestDifficulty(wanted)
  PROVE  FeedInv'
<1> DEFINE d == Within(wanted)
           e == SendSetDifficulty(s, d, d)
           f == [e EXCEPT !.astray = TRUE]
<1>1. s' = f /\ reg /\ s.kind \notin V2 /\ UNCHANGED <<latest, casting, reg, mail>>
  BY DEF SuggestDifficulty, IsV1
<1>2. /\ d \in Nat /\ latest \in 0..MaxJobs /\ s \in Sessions /\ MapFilled(s) /\ Rebuilt(s)
      /\ s.newest <= latest
  <2>1. d \in Nat
    BY Difficulties
  <2> QED  BY <2>1 DEF FeedInv, Posted, Good
<1> HIDE DEF d
<1>3. Retargeted(s, e, d, d) /\ (s.auth => e.newest = latest)
  BY <1>2, ToldDifficulty
<1> HIDE DEF e
<1>4. /\ e \in Sessions /\ MapFilled(e) /\ Rebuilt(e) /\ AuxCounted(e) /\ e.newest <= latest
      /\ e.kind = s.kind
  BY <1>2, <1>3 DEF Retargeted, FeedInv, Good, AuxCounted
<1>5. /\ f \in Sessions /\ f.astray = TRUE /\ Recalls(e, f) /\ f.kind = s.kind
      /\ f.newest = e.newest
      /\ f.auth = e.auth /\ f.auxDone = e.auxDone /\ f.auxSent = e.auxSent
      /\ f.auxFlushes = e.auxFlushes
  BY <1>4 DEF Sessions, Recalls
<1> HIDE DEF f
<1>6. Good(f, latest)
  BY <1>1, <1>4, <1>5, RecallsKeeps DEF Good, Advertised, AuxCounted, V2
<1>7. f.auth => f.newest = latest
  BY <1>3, <1>5 DEF Retargeted
<1> QED  BY <1>1, <1>6, <1>7, HandlerKeeps

LEMMA ExtranonceKeeps == FeedInv /\ ExtranonceSubscribe => FeedInv'
<1> SUFFICES ASSUME FeedInv, ExtranonceSubscribe PROVE FeedInv'
  OBVIOUS
<1>1. s' = LatestSent(s) /\ reg /\ UNCHANGED <<latest, casting, reg, mail>>
  BY DEF ExtranonceSubscribe
<1>2. Emitted(s, s', latest)
  BY <1>1, LatestSentEmits DEF FeedInv, Posted, Good
<1>3. latest <= latest
  BY Difficulties DEF FeedInv, Posted
<1>4. Good(s', latest) /\ s'.newest = latest
  BY <1>2, <1>3, AlikeKeeps DEF Emitted, FeedInv, Good
<1> QED  BY <1>1, <1>4, HandlerKeeps

LEMMA SetupKeeps == FeedInv /\ SetupConnection => FeedInv'
<1> SUFFICES ASSUME FeedInv, SetupConnection PROVE FeedInv'
  OBVIOUS
<1> DEFINE e == [s EXCEPT !.sub = TRUE, !.auth = TRUE]
<1>1. s' = e /\ reg /\ s.pays = Nobody /\ UNCHANGED <<latest, casting, reg, mail>>
  BY DEF SetupConnection
<1>2. e \in Sessions /\ Recalls(s, e) /\ Alike(s, e) /\ e.pays = s.pays /\ e.newest = s.newest
  BY DEF FeedInv, Good, Sessions, Recalls, Alike
<1> HIDE DEF e
<1>3. Good(e, latest)
  BY <1>2, AlikeKeeps, RecallsKeeps DEF FeedInv, Good
<1> QED  BY <1>1, <1>2, <1>3, HandlerKeeps

\* c is the session at the difficulty the channel starts with.
LEMMA OpenedKeeps ==
  ASSUME FeedInv, NEW c \in Sessions, c.kind \in V2, NEW name \in Names, NEW first \in Nat,
         c.eqJobs = s.eqJobs, c.newest = s.newest,
         c.auxDone = s.auxDone, c.auxSent = s.auxSent, c.auxFlushes = s.auxFlushes,
         ~c.astray => c.vd.current = first,
         s' = Opened(c, name, first), reg, UNCHANGED <<latest, casting, reg, mail>>
  PROVE  FeedInv'
<1> DEFINE t == [c EXCEPT !.pays = name, !.last = first, !.advertised = first, !.before = first]
<1>1. s' = IF latest = 0 THEN t ELSE EmitJobV2(t, latest)
  BY DEF Opened
<1>2. /\ t \in Sessions /\ t.kind = c.kind /\ t.pays = name /\ t.vd = c.vd /\ t.advertised = first
      /\ t.before = first /\ t.last = first /\ t.astray = c.astray /\ t.newest = s.newest
      /\ t.eqJobs = s.eqJobs
      /\ t.auxDone = s.auxDone /\ t.auxSent = s.auxSent /\ t.auxFlushes = s.auxFlushes
  BY DEF Sessions
<1> HIDE DEF t
<1>3. name # Nobody /\ Heard(t.kind, first) = first
  BY <1>2, FeedConstants DEF Heard
<1>4. MapFilled(t) /\ Advertised(t) /\ AuxCounted(t) /\ t.newest <= latest /\ latest \in 0..MaxJobs
  BY <1>2, <1>3 DEF MapFilled, Advertised, AuxCounted, FeedInv, Good, Posted
<1>5. Emitted(t, s', latest)
  <2>1. CASE latest = 0
    <3>1. s' = t /\ t.newest = 0
      BY <1>1, <1>2, <1>4, <2>1 DEF Sessions
    <3> QED  BY <1>2, <1>4, <2>1, <3>1 DEF Emitted, Rebuilt, Alike
  <2>2. CASE latest # 0
    <3>1. latest \in Jobs /\ s' = Tells(t, latest, SessionCoinbase(t, FALSE))
      BY <1>1, <1>4, <2>2, Difficulties DEF EmitJobV2, Jobs
    <3> QED  BY <1>2, <1>4, <3>1, TellingEmits
  <2> QED  BY <2>1, <2>2
<1>6. latest <= latest
  BY <1>4, Difficulties
<1>7. Good(s', latest) /\ s'.newest = latest
  BY <1>4, <1>5, <1>6, AlikeKeeps DEF Emitted, Good
<1> QED  BY <1>7, HandlerKeeps

LEMMA OpenStandardKeeps ==
  ASSUME FeedInv, NEW name \in Names, OpenStandardChannel(name)
  PROVE  FeedInv'
<1> DEFINE astray == s.pays # Nobody \/ StartDiff % Unit # 0
           c == [s EXCEPT !.astray = astray]
<1>1. /\ s' = Opened(c, name, StartDiff) /\ s.kind \in V2 /\ reg
      /\ UNCHANGED <<latest, casting, reg, mail>>
  BY DEF OpenStandardChannel, IsV1
<1>2. astray \in BOOLEAN /\ (~astray => s.pays = Nobody /\ StartDiff % Unit = 0)
  OBVIOUS
<1> HIDE DEF astray
<1>3. /\ c \in Sessions /\ c.kind = s.kind /\ c.vd = s.vd /\ c.astray = astray
      /\ c.eqJobs = s.eqJobs /\ c.newest = s.newest
      /\ c.auxDone = s.auxDone /\ c.auxSent = s.auxSent /\ c.auxFlushes = s.auxFlushes
  BY <1>2 DEF FeedInv, Good, Sessions
<1>4. ~c.astray => c.vd.current = StartDiff
  <2>1. SUFFICES ASSUME ~astray PROVE s.vd.current = StartDiff
    BY <1>3
  <2>2. s.pays = Nobody /\ Bounded(Rounded(StartDiff)) = StartDiff
    BY <1>2, <2>1, StartKept
  <2>3. s.kind # "standard" => FALSE
    <3>1. s.kind = "extended" => s.pays # Nobody
      BY DEF FeedInv, Good, Advertised
    <3> QED  BY <1>1, <2>2, <3>1 DEF V2
  <2> QED  BY <2>2, <2>3 DEF FeedInv, Good, Advertised
<1> HIDE DEF c
<1>5. StartDiff \in Nat
  BY Difficulties
<1> QED  BY <1>1, <1>3, <1>4, <1>5, OpenedKeeps

LEMMA OpenExtendedKeeps ==
  ASSUME FeedInv, NEW name \in Names, NEW d \in Diffs \cup {0}, OpenExtendedChannel(name, d)
  PROVE  FeedInv'
<1> DEFINE first == IF s.fixed \/ d = 0 THEN StartDiff ELSE Within(d)
           c == [s EXCEPT !.kind = "extended", !.sub = TRUE, !.auth = TRUE, !.astray = FALSE,
                          !.vd = SetCurrent(first)]
<1>1. /\ s' = Opened(c, name, first) /\ reg /\ UNCHANGED <<latest, casting, reg, mail>>
  BY DEF OpenExtendedChannel
<1>2. first \in Nat
  BY Difficulties
<1> HIDE DEF first
<1>3. SetCurrent(first) \in Vardiff /\ SetCurrent(first).current = first
  BY <1>2 DEF SetCurrent, Vardiff
<1>4. /\ c \in Sessions /\ c.kind = "extended" /\ c.vd = SetCurrent(first)
      /\ c.eqJobs = s.eqJobs /\ c.newest = s.newest
      /\ c.auxDone = s.auxDone /\ c.auxSent = s.auxSent /\ c.auxFlushes = s.auxFlushes
  BY <1>3, ZenonT(60) DEF FeedInv, Good, Sessions
<1> HIDE DEF c
<1>5. c.kind \in V2
  BY <1>4 DEF V2
<1> QED  BY <1>1, <1>2, <1>3, <1>4, <1>5, OpenedKeeps

LEMMA SubmitKeeps ==
  ASSUME FeedInv, NEW j \in Jobs, NEW d \in Diffs, NEW network \in Diffs \cup {0},
         NEW winsAux \in BOOLEAN, NEW late \in BOOLEAN, NEW wanted \in Diffs \cup {0},
         Submit(j, d, winsAux, late, wanted, network)
  PROVE  FeedInv'
<1> DEFINE t == Ticked(s, TargetDiff(s, d), late, wanted, network)
<1>1. /\ IF IsV1 THEN s.auth ELSE s.pays # Nobody
      /\ UNCHANGED <<latest, casting, reg, mail>>
      /\ s' = t \/ s' = AuxBlock(t, j)
  BY DEF Submit
<1>2. wanted \in Nat /\ network \in Nat /\ (s.kind = "standard" => s.pays # Nobody)
  <2>1. wanted \in Nat /\ network \in Nat
    BY FeedConstants
  <2>2. s.kind = "standard" => s.pays # Nobody
    BY <1>1 DEF IsV1, V2
  <2> QED  BY <2>1, <2>2
<1>3. /\ t \in Sessions /\ MapFilled(t) /\ Rebuilt(t) /\ Advertised(t)
      /\ t.sub = s.sub /\ t.auth = s.auth /\ t.pays = s.pays
      /\ t.auxDone = s.auxDone /\ t.auxSent = s.auxSent
      /\ t.auxFlushes = s.auxFlushes /\ t.newest <= latest /\ t.newest \in {s.newest, latest}
  BY <1>2, TickKeeps DEF FeedInv, Posted, Good
<1> HIDE DEF t
<1>4. AuxCounted(t)
  BY <1>3 DEF AuxCounted, FeedInv, Good
<1>5. /\ Good(s', latest) /\ s'.sub = t.sub /\ s'.auth = t.auth /\ s'.newest = t.newest
      /\ s'.pays = t.pays
  <2>1. CASE s' = t
    BY <1>3, <1>4, <2>1 DEF Good
  <2>2. CASE s' = AuxBlock(t, j)
    BY <1>3, <1>4, <2>2, AuxBlockKeeps DEF Good
  <2> QED  BY <1>1, <2>1, <2>2
<1>6. reg
  BY <1>1 DEF FeedInv, Posted
<1> QED  BY <1>1, <1>3, <1>5, <1>6, HandlerKeeps

LEMMA SubmitStaleKeeps ==
  ASSUME FeedInv, NEW j \in Jobs, SubmitStale(j)
  PROVE  FeedInv'
<1>1. s' = AuxBlock(s, j) /\ s.auth /\ UNCHANGED <<latest, casting, reg, mail>>
  BY DEF SubmitStale
<1>2. /\ Good(s', latest) /\ s'.sub = s.sub /\ s'.auth = s.auth /\ s'.newest = s.newest
      /\ s'.pays = s.pays
  BY <1>1, AuxBlockKeeps DEF FeedInv, Good
<1>3. reg
  BY <1>1 DEF FeedInv, Posted
<1> QED  BY <1>1, <1>2, <1>3, HandlerKeeps

LEMMA GraceKeeps == FeedInv /\ GraceEnds => FeedInv'
<1> SUFFICES ASSUME FeedInv, GraceEnds PROVE FeedInv'
  OBVIOUS
<1> DEFINE e == [s EXCEPT !.grace = FALSE]
<1>1. s' = e /\ UNCHANGED <<latest, casting, reg, mail>>
  BY DEF GraceEnds
<1>2. /\ e \in Sessions /\ Recalls(s, e) /\ Alike(s, e) /\ e.pays = s.pays /\ e.newest = s.newest
      /\ e.sub = s.sub /\ e.auth = s.auth
  BY DEF FeedInv, Good, Sessions, Recalls, Alike
<1> HIDE DEF e
<1>3. Good(e, latest)
  BY <1>2, AlikeKeeps, RecallsKeeps DEF FeedInv, Good
<1>4. ~reg => ~e.auth /\ e.pays = Nobody
  BY <1>2 DEF FeedInv, Posted
<1> QED  BY <1>1, <1>2, <1>3, <1>4, HandlerKeeps

LEMMA PushKeeps == FeedInv /\ PushJob => FeedInv'
<1> SUFFICES ASSUME FeedInv, PushJob PROVE FeedInv'
  OBVIOUS
<1>1. /\ latest \in 0..MaxJobs /\ latest \in Nat /\ latest' = latest + 1 /\ casting' = latest + 1
      /\ latest' \in 0..MaxJobs /\ UNCHANGED <<reg, mail, s>>
  BY Difficulties DEF PushJob, FeedInv, Posted
<1>2. Posted'
  BY <1>1 DEF FeedInv, Posted
<1>3. s.newest \in Nat
  BY DEF FeedInv, Good, Sessions
<1>4. Good(s', latest')
  BY <1>1, <1>3 DEF FeedInv, Good
<1>5. NewestJobLast'
  BY <1>1 DEF NewestJobLast
<1> QED  BY <1>2, <1>4, <1>5 DEF FeedInv

LEMMA OnNewJobKeeps == FeedInv /\ OnNewJob => FeedInv'
<1> SUFFICES ASSUME FeedInv, OnNewJob PROVE FeedInv'
  OBVIOUS
<1>1. /\ casting = latest /\ latest \in 1..MaxJobs /\ latest \in Nat /\ casting' = 0
      /\ mail \in Seq(Nat) /\ mail' = (IF reg THEN Append(mail, latest) ELSE mail)
      /\ UNCHANGED <<latest, reg, s>>
  BY Difficulties DEF OnNewJob, FeedInv, Posted
<1>2. CASE reg
  <2>1. /\ mail' \in Seq(Nat) /\ Len(mail') = Len(mail) + 1 /\ mail' # << >>
        /\ mail'[Len(mail')] = latest
        /\ \A k \in 1..Len(mail) : mail'[k] = mail[k]
    BY <1>1, <1>2, SMTT(40)
  <2>2. \A k \in 1..Len(mail') : mail'[k] \in 1..latest
    BY <1>1, <2>1 DEF FeedInv, Posted
  <2>3. Posted'
    BY <1>1, <1>2, <2>1, <2>2 DEF FeedInv, Posted
  <2> QED  BY <1>1, <2>1, <2>3 DEF FeedInv, NewestJobLast
<1>3. CASE ~reg
  <2>1. mail' = << >> /\ ~s.auth /\ s.pays = Nobody /\ mail = << >>
    BY <1>1, <1>3 DEF FeedInv, Posted
  <2> QED  BY <1>1, <1>3, <2>1 DEF FeedInv, Posted, NewestJobLast
<1> QED  BY <1>2, <1>3

LEMMA NotifyKeeps == FeedInv /\ NotifyNewJob => FeedInv'
<1> SUFFICES ASSUME FeedInv, NotifyNewJob PROVE FeedInv'
  OBVIOUS
<1> DEFINE j == Head(mail)
<1>1. /\ mail \in Seq(Nat) /\ mail # << >> /\ mail' = Tail(mail) /\ s' = Notified(s, j)
      /\ UNCHANGED <<latest, casting, reg>>
  BY DEF NotifyNewJob, FeedInv, Posted
<1>2. /\ Len(mail) \in Nat /\ Len(mail) >= 1 /\ j = mail[1] /\ mail' \in Seq(Nat)
      /\ Len(mail') = Len(mail) - 1
      /\ \A k \in 1..Len(mail') : mail'[k] = mail[k + 1]
      /\ mail' = << >> => Len(mail) = 1
  <2> DEFINE rest == Tail(mail)
  <2>1. Len(mail) \in Nat /\ Len(mail) >= 1 /\ j = mail[1]
    BY <1>1
  <2>2. rest \in Seq(Nat) /\ Len(rest) = Len(mail) - 1
    BY <1>1, HeadTailProperties
  <2>3. \A k \in 1..Len(rest) : rest[k] = mail[k + 1]
    BY <1>1, HeadTailProperties
  <2>4. Len(<< >>) = 0
    OBVIOUS
  <2>5. rest = mail'
    BY <1>1
  <2> HIDE DEF rest, j
  <2> QED  BY <2>1, <2>2, <2>3, <2>4, <2>5, SMTT(40)
<1>3. j \in 1..latest /\ latest \in Nat /\ latest \in 0..MaxJobs /\ j \in Jobs
  BY <1>1, <1>2, Difficulties, SMTT(40) DEF FeedInv, Posted, Jobs
<1>4. (Notified(s, j) = s /\ ~s.sub) \/ Emitted(s, Notified(s, j), j)
  BY <1>3, NotifiedEmits DEF FeedInv, Good
<1>5. Good(s', latest) /\ s'.auth = s.auth /\ s'.pays = s.pays
  <2>1. CASE s' = s
    BY <2>1 DEF FeedInv, Good
  <2>2. CASE Emitted(s, s', j)
    BY <1>3, <2>2, AlikeKeeps DEF Emitted, FeedInv, Good, Alike
  <2> QED  BY <1>1, <1>4, <2>1, <2>2
<1>6. /\ mail' # << >> => mail'[Len(mail')] = mail[Len(mail)]
      /\ \A k \in 1..Len(mail') : mail'[k] \in 1..latest
  BY <1>1, <1>2, SMTT(40) DEF FeedInv, Posted
<1>7. Posted'
  BY <1>1, <1>2, <1>5, <1>6 DEF FeedInv, Posted
<1>8. s'.sub /\ casting = 0 /\ mail' = << >> => s'.newest = latest
  <2>1. casting = 0 /\ mail' = << >> => j = latest
    BY <1>1, <1>2 DEF FeedInv, Posted
  <2> QED  BY <1>1, <1>4, <2>1 DEF Emitted
<1>9. NewestJobLast'
  BY <1>1, <1>8 DEF NewestJobLast
<1> QED  BY <1>1, <1>5, <1>7, <1>9 DEF FeedInv

LEMMA StepKeeps == FeedInv /\ [Next]_vars => FeedInv'
<1> SUFFICES ASSUME FeedInv, [Next]_vars PROVE FeedInv'
  OBVIOUS
<1>1. CASE PushJob
  BY <1>1, PushKeeps
<1>2. CASE OnNewJob
  BY <1>2, OnNewJobKeeps
<1>3. CASE NotifyNewJob
  BY <1>3, NotifyKeeps
<1>4. CASE RegisterSession
  BY <1>4 DEF RegisterSession, FeedInv, Posted, NewestJobLast
<1>5. CASE Subscribe
  BY <1>5, SubscribeKeeps
<1>6. CASE \E name \in Names, aux \in BOOLEAN, custom \in Diffs \cup {0} : Authorize(name, aux, custom)
  BY <1>6, AuthorizeKeeps
<1>7. CASE \E d \in Diffs : SuggestDifficulty(d)
  BY <1>7, SuggestKeeps
<1>8. CASE ExtranonceSubscribe
  BY <1>8, ExtranonceKeeps
<1>9. CASE SetupConnection
  BY <1>9, SetupKeeps
<1>10. CASE \E name \in Names : OpenStandardChannel(name)
  BY <1>10, OpenStandardKeeps
<1>11. CASE \E name \in Names, d \in Diffs \cup {0} : OpenExtendedChannel(name, d)
  BY <1>11, OpenExtendedKeeps
<1>12. CASE \E j \in Jobs, d \in Diffs, network \in Diffs \cup {0},
              winsAux, late \in BOOLEAN, wanted \in Diffs \cup {0} :
              Submit(j, d, winsAux, late, wanted, network)
  BY <1>12, SubmitKeeps
<1>13. CASE \E j \in Jobs : SubmitStale(j)
  BY <1>13, SubmitStaleKeeps
<1>14. CASE GraceEnds
  BY <1>14, GraceKeeps
<1>15. CASE UNCHANGED vars
  BY <1>15 DEF vars, FeedInv, Posted, NewestJobLast
<1>16. CASE Quiet
  BY <1>15, <1>16 DEF Quiet
<1> QED  BY <1>1, <1>2, <1>3, <1>4, <1>5, <1>6, <1>7, <1>8, <1>9, <1>10, <1>11, <1>12, <1>13,
            <1>14, <1>15, <1>16 DEF Next, Miner

LEMMA FeedInvariant == Spec => []FeedInv
BY InitEstablishes, StepKeeps, PTL DEF Spec

(***************************************************************************)
(* The types.  TypeOK bounds what the session counts and remembers, and    *)
(* orders the handlers posted: Fits is kept by every operator a handler is *)
(* made of, and Queued adds that a job about to be cast is newer than all  *)
(* those on their way.                                                     *)
(***************************************************************************)

Sized(c) ==
  /\ c.vd.ssdc \in 0..SharesPerCheck
  /\ Cardinality(c.auxJobs) <= Cap + 1 /\ Cardinality(DOMAIN c.eqJobs) <= Cap + 1

Fits(c) == c \in Sessions /\ Sized(c)

\* e counts and remembers what c does.
SameSize(c, e) == e.vd.ssdc = c.vd.ssdc /\ e.auxJobs = c.auxJobs /\ e.eqJobs = c.eqJobs

LEMMA SameSizeFits ==
  ASSUME NEW c, NEW e, Fits(c), e \in Sessions, SameSize(c, e)
  PROVE  Fits(e)
  BY DEF Fits, Sized, SameSize

LEMMA Limits == SharesPerCheck \in Nat /\ SharesPerCheck # 0 /\ Cap \in Nat
  BY FeedConstants

\* A set that is emptied above Cap, then takes one job.
LEMMA TakesOne ==
  ASSUME NEW S \in SUBSET Jobs, NEW j \in Jobs
  PROVE  Cardinality((IF Cardinality(S) > Cap THEN {} ELSE S) \cup {j}) <= Cap + 1
<1> DEFINE kept == IF Cardinality(S) > Cap THEN {} ELSE S
<1>1. IsFiniteSet(Jobs)
  BY FeedConstants, FS_Interval DEF Jobs
<1>2. IsFiniteSet(S) /\ Cardinality(S) \in Nat
  BY <1>1, FS_Subset, FS_CardinalityType
<1>3. IsFiniteSet({}) /\ Cardinality({}) = 0
  BY FS_EmptySet
<1>4. IsFiniteSet(kept) /\ Cardinality(kept) \in Nat /\ Cardinality(kept) <= Cap
  BY <1>2, <1>3, Limits
<1> HIDE DEF kept
<1>5. \/ Cardinality(kept \cup {j}) = Cardinality(kept)
      \/ Cardinality(kept \cup {j}) = Cardinality(kept) + 1
  BY <1>4, FS_AddElement
<1>6. Cardinality(kept \cup {j}) <= Cap + 1
  BY <1>4, <1>5, Limits
<1> QED  BY <1>6 DEF kept

LEMMA RemembersFew ==
  ASSUME NEW map \in PayMaps, NEW j \in Jobs, NEW name
  PROVE  Cardinality(DOMAIN Remember(map, j, name)) <= Cap + 1
<1> DEFINE D == DOMAIN map
           kept == IF Cardinality(DOMAIN map) > Cap THEN << >> ELSE map
<1>1. D \in SUBSET Jobs
  BY DEF PayMaps
<1>2. DOMAIN kept = IF Cardinality(D) > Cap THEN {} ELSE D
  BY EmptyMap
<1>3. DOMAIN Remember(map, j, name) = DOMAIN kept \cup {j}
  BY DEF Remember
<1> HIDE DEF D, kept
<1>4. DOMAIN Remember(map, j, name) = (IF Cardinality(D) > Cap THEN {} ELSE D) \cup {j}
  BY <1>2, <1>3
<1> QED  BY <1>1, <1>4, TakesOne

LEMMA TellFits ==
  ASSUME NEW c, Fits(c), NEW j \in Jobs, NEW coinbase \in Coinbases
  PROVE  Fits(Tells(c, j, coinbase))
<1> DEFINE e == Tells(c, j, coinbase)
<1>1. c \in Sessions
  BY DEF Fits
<1>2. e \in Sessions
  BY <1>1, Told
<1>3. SameSize(c, e)
  BY <1>1 DEF Tells, Sessions, SameSize
<1> HIDE DEF e
<1>4. Fits(e)
  BY <1>2, <1>3, SameSizeFits
<1> QED  BY <1>4 DEF e

LEMMA SessionTellFits ==
  ASSUME NEW c, Fits(c), NEW j \in Jobs, NEW commit \in BOOLEAN
  PROVE  Fits(Tells(c, j, SessionCoinbase(c, commit)))
<1>1. SessionCoinbase(c, commit) \in Coinbases
  BY CoinbaseType DEF Fits
<1> QED  BY <1>1, TellFits

LEMMA EmitJobFits ==
  ASSUME NEW c, Fits(c), NEW j \in Jobs
  PROVE  Fits(EmitJob(c, j))
<1>1. CASE c.kind = "equihash" /\ c.pays # Nobody /\ j \notin Unswappable
  <2> DEFINE map == Remember(c.eqJobs, j, c.pays)
             m == [c EXCEPT !.eqJobs = map]
  <2>1. c \in Sessions /\ c.pays \in Names /\ c.eqJobs \in PayMaps
    BY <1>1 DEF Fits, Sessions
  <2>2. map \in PayMaps /\ Cardinality(DOMAIN map) <= Cap + 1
    BY <2>1, Remembered, RemembersFew
  <2>3. EmitJob(c, j) = Tells(m, j, SessionCoinbase(c, FALSE))
    BY <1>1 DEF EmitJob
  <2> HIDE DEF map
  <2>4. m \in Sessions /\ m.eqJobs = map /\ m.pays = c.pays /\ m.vd = c.vd /\ m.auxJobs = c.auxJobs
    BY <2>1, <2>2 DEF Sessions
  <2> HIDE DEF m
  <2>5. Fits(m)
    BY <2>2, <2>4 DEF Fits, Sized
  <2>6. SessionCoinbase(m, FALSE) = SessionCoinbase(c, FALSE)
    BY <2>4 DEF SessionCoinbase
  <2> QED  BY <2>3, <2>5, <2>6, SessionTellFits
<1>2. CASE c.kind = "equihash" /\ (c.pays = Nobody \/ j \in Unswappable)
  <2>1. EmitJob(c, j) = Tells(c, j, NodeCoinbase)
    BY <1>2 DEF EmitJob
  <2> QED  BY <2>1, TellFits, NodeCoinbaseType
<1>3. CASE c.kind # "equihash"
  BY <1>3, SessionTellFits DEF EmitJob
<1> QED  BY <1>1, <1>2, <1>3

LEMMA LatestSentFits ==
  ASSUME latest \in 0..MaxJobs, NEW c, Fits(c)
  PROVE  Fits(LatestSent(c))
<1>1. latest # 0 => latest \in Jobs
  BY Difficulties DEF Jobs
<1> QED  BY <1>1, EmitJobFits DEF LatestSent

LEMMA DifficultyFits ==
  ASSUME latest \in 0..MaxJobs, NEW c, Fits(c), NEW d \in Nat, NEW old \in Nat
  PROVE  Fits(SendSetDifficulty(c, d, old)) /\ Fits(SendSetTarget(c, d, old))
<1> DEFINE t == Advertises(c, d, old)
<1>1. t \in Sessions /\ SameSize(c, t)
  <2> DEFINE heard == Heard(c.kind, d)
             before == IF c.astray \/ old = d THEN heard ELSE c.advertised
  <2>1. c \in Sessions /\ heard \in Nat /\ before \in Nat
    BY Difficulties DEF Fits, Sessions
  <2>2. t = [c EXCEPT !.advertised = heard, !.before = before, !.last = old,
                      !.grace = TRUE, !.astray = FALSE]
    BY DEF Advertises
  <2> HIDE DEF heard, before
  <2> QED  BY <2>1, <2>2, ZenonT(60) DEF Sessions, SameSize
<1>2. /\ SendSetTarget(c, d, old) = t
      /\ SendSetDifficulty(c, d, old) = IF c.auth THEN LatestSent(t) ELSE t
  BY DEF SendSetTarget, SendSetDifficulty
<1> HIDE DEF t
<1>3. Fits(t)
  BY <1>1, SameSizeFits
<1> QED  BY <1>2, <1>3, LatestSentFits

LEMMA OnShareFits ==
  ASSUME NEW v \in Vardiff, v.ssdc \in 0..SharesPerCheck, NEW observed,
         NEW late \in BOOLEAN, NEW wanted \in Nat, NEW network \in Nat
  PROVE  LET o == OnShare(v, observed, late, wanted, network)
         IN o \in Vardiff /\ o.ssdc \in 0..SharesPerCheck
<1> DEFINE o == OnShare(v, observed, late, wanted, network)
           count == IF v.ssdc < SharesPerCheck THEN v.ssdc + 1 ELSE v.ssdc
           best == Optimal(wanted, network)
<1>1. o \in Vardiff
  BY OnShareType
<1>2. count \in 0..SharesPerCheck /\ 1 \in 0..SharesPerCheck /\ 0 \in 0..SharesPerCheck
  BY Limits
<1>3. \/ o = [v EXCEPT !.first = TRUE, !.ssdc = 1]
      \/ o = [v EXCEPT !.ssdc = count]
      \/ o = [v EXCEPT !.ssdc = 0]
      \/ o = [v EXCEPT !.ssdc = 0, !.current = best]
  BY DEF OnShare
<1> HIDE DEF o, count, best
<1>4. o.ssdc \in {1, count, 0}
  BY <1>3 DEF Vardiff
<1>5. o.ssdc \in 0..SharesPerCheck
  BY <1>2, <1>4
<1> QED  BY <1>1, <1>5 DEF o

LEMMA TickFits ==
  ASSUME latest \in 0..MaxJobs, NEW c, Fits(c), NEW observed, NEW late \in BOOLEAN,
         NEW wanted \in Nat, NEW network \in Nat
  PROVE  Fits(Ticked(c, observed, late, wanted, network))
<1> DEFINE v == OnShare(c.vd, observed, late, wanted, network)
           m == [c EXCEPT !.vd = v]
           old == c.vd.current
           e == Ticked(c, observed, late, wanted, network)
<1>1. c \in Sessions /\ c.vd \in Vardiff /\ c.vd.ssdc \in 0..SharesPerCheck /\ old \in Nat
  BY DEF Fits, Sized, Sessions, Vardiff
<1>2. v \in Vardiff /\ v.ssdc \in 0..SharesPerCheck /\ v.current \in Nat
  BY <1>1, OnShareFits DEF Vardiff
<1>3. \/ e = c
      \/ e = m
      \/ e = SendSetTarget(m, v.current, old)
      \/ e = SendSetDifficulty(m, v.current, old)
  BY DEF Ticked
<1> HIDE DEF v
<1>4. m \in Sessions /\ m.vd = v /\ m.auxJobs = c.auxJobs /\ m.eqJobs = c.eqJobs
  BY <1>1, <1>2 DEF Sessions
<1> HIDE DEF m, e, old
<1>5. Fits(m)
  BY <1>2, <1>4 DEF Fits, Sized
<1>6. Fits(SendSetTarget(m, v.current, old)) /\ Fits(SendSetDifficulty(m, v.current, old))
  BY <1>1, <1>2, <1>5, DifficultyFits
<1>7. Fits(e)
  BY <1>3, <1>5, <1>6
<1> QED  BY <1>7 DEF e

LEMMA AuxBlockFits ==
  ASSUME NEW c, Fits(c), NEW j \in Jobs
  PROVE  Fits(AuxBlock(c, j))
<1> DEFINE full == Cardinality(c.auxDone) > Cap
           flushes == IF full THEN c.auxFlushes + 1 ELSE c.auxFlushes
           done == (IF full THEN {} ELSE c.auxDone) \cup {j}
           sent == [c.auxSent EXCEPT ![j] = @ + 1]
           e == [c EXCEPT !.auxFlushes = flushes, !.auxDone = done, !.auxSent = sent]
<1>1. c \in Sessions /\ c.auxFlushes \in Nat /\ c.auxSent \in [Jobs -> Nat] /\ c.auxDone \in SUBSET Jobs
  BY DEF Fits, Sessions
<1>2. flushes \in Nat /\ done \in SUBSET Jobs /\ sent \in [Jobs -> Nat]
  BY <1>1
<1>3. AuxBlock(c, j) = c \/ AuxBlock(c, j) = e
  BY <1>1 DEF AuxBlock, Sessions
<1> HIDE DEF flushes, done, sent
<1>4. e \in Sessions /\ SameSize(c, e)
  BY <1>1, <1>2, ZenonT(60) DEF Sessions, SameSize
<1> HIDE DEF e
<1>5. Fits(e)
  BY <1>4, SameSizeFits
<1> QED  BY <1>3, <1>5

LEMMA NotifiedFits ==
  ASSUME NEW c, Fits(c), NEW j \in Jobs
  PROVE  Fits(Notified(c, j))
<1>1. CASE ~c.sub
  BY <1>1 DEF Notified
<1>2. CASE c.sub /\ BuildsAux(c, j)
  <2> DEFINE kept == (IF Cardinality(c.auxJobs) > Cap THEN {} ELSE c.auxJobs) \cup {j}
             m == [c EXCEPT !.auxJobs = kept]
  <2>1. c \in Sessions /\ c.auxJobs \in SUBSET Jobs
    BY DEF Fits, Sessions
  <2>2. kept \in SUBSET Jobs /\ Cardinality(kept) <= Cap + 1
    BY <2>1, TakesOne
  <2>3. Notified(c, j) = EmitJobCustom(m, j)
    BY <1>2 DEF Notified, BuildsAux, V2
  <2> HIDE DEF kept
  <2>4. /\ m \in Sessions /\ m.auxJobs = kept /\ m.vd = c.vd /\ m.eqJobs = c.eqJobs
    BY <2>1, <2>2 DEF Sessions
  <2> HIDE DEF m
  <2>5. Fits(m)
    BY <2>2, <2>4 DEF Fits, Sized
  <2> QED  BY <2>3, <2>5, SessionTellFits DEF EmitJobCustom
<1>3. CASE c.sub /\ ~BuildsAux(c, j)
  <2>1. Notified(c, j) = EmitJobV2(c, j) \/ Notified(c, j) = EmitJob(c, j)
    BY <1>3 DEF Notified
  <2> QED  BY <2>1, SessionTellFits, EmitJobFits DEF EmitJobV2
<1> QED  BY <1>1, <1>2, <1>3

(***************************************************************************)
(* Every handler keeps the sizes.                                          *)
(***************************************************************************)

LEMMA AuthorizeFits ==
  ASSUME latest \in 0..MaxJobs, Fits(s), NEW name \in Names, NEW aux \in BOOLEAN,
         NEW custom \in Diffs \cup {0}, Authorize(name, aux, custom)
  PROVE  Fits(s')
<1> DEFINE c == [s EXCEPT !.pays = name, !.aux = aux \/ @]
           d == Clamp(custom, CustomMin, CustomMax)
           t == [c EXCEPT !.custom = TRUE, !.vd = SetCurrent(d)]
           asked == IF custom = 0 THEN c ELSE SendSetDifficulty(t, d, d)
           a == [asked EXCEPT !.auth = TRUE]
<1>1. s' = LatestSent(a)
  BY DEF Authorize
<1>0. d \in Nat
  <2>1. custom \in Nat
    BY Difficulties
  <2> QED  BY <2>1, Difficulties
<1> HIDE DEF d
<1>2. SetCurrent(d) \in Vardiff /\ SetCurrent(d).ssdc = 0 /\ 0 \in 0..SharesPerCheck
  BY <1>0, Limits DEF SetCurrent, Vardiff
<1>3. c \in Sessions /\ SameSize(s, c)
  BY ZenonT(60) DEF Fits, Sessions, SameSize
<1> HIDE DEF c
<1>4. Fits(c)
  BY <1>3, SameSizeFits
<1>5. t \in Sessions /\ t.vd = SetCurrent(d) /\ t.auxJobs = c.auxJobs /\ t.eqJobs = c.eqJobs
  BY <1>2, <1>3, ZenonT(60) DEF Sessions
<1> HIDE DEF t
<1>6. Fits(t)
  BY <1>2, <1>4, <1>5 DEF Fits, Sized
<1>7. Fits(asked)
  BY <1>0, <1>4, <1>6, DifficultyFits
<1> HIDE DEF asked
<1>8. a \in Sessions /\ SameSize(asked, a)
  BY <1>7 DEF Fits, Sessions, SameSize
<1> HIDE DEF a
<1>9. Fits(a)
  BY <1>7, <1>8, SameSizeFits
<1> QED  BY <1>1, <1>9, LatestSentFits

LEMMA OpenedFits ==
  ASSUME latest \in 0..MaxJobs, NEW c, Fits(c), NEW name \in Names, NEW first \in Nat
  PROVE  Fits(Opened(c, name, first))
<1> DEFINE t == [c EXCEPT !.pays = name, !.last = first, !.advertised = first, !.before = first]
<1>1. Opened(c, name, first) = IF latest = 0 THEN t ELSE EmitJobV2(t, latest)
  BY DEF Opened
<1>2. t \in Sessions /\ SameSize(c, t)
  BY DEF Fits, Sessions, SameSize
<1> HIDE DEF t
<1>3. Fits(t)
  BY <1>2, SameSizeFits
<1>4. latest # 0 => latest \in Jobs
  BY Difficulties DEF Jobs
<1> QED  BY <1>1, <1>3, <1>4, SessionTellFits DEF EmitJobV2

LEMMA OpenStandardFits ==
  ASSUME latest \in 0..MaxJobs, Fits(s), NEW name \in Names, OpenStandardChannel(name)
  PROVE  Fits(s')
<1> DEFINE astray == s.pays # Nobody \/ StartDiff % Unit # 0
           c == [s EXCEPT !.astray = astray]
<1>1. s' = Opened(c, name, StartDiff) /\ StartDiff \in Nat
  BY Difficulties DEF OpenStandardChannel
<1>2. astray \in BOOLEAN
  OBVIOUS
<1> HIDE DEF astray
<1>3. c \in Sessions /\ SameSize(s, c)
  BY <1>2 DEF Fits, Sessions, SameSize
<1> HIDE DEF c
<1> QED  BY <1>1, <1>3, SameSizeFits, OpenedFits

LEMMA OpenExtendedFits ==
  ASSUME latest \in 0..MaxJobs, Fits(s), NEW name \in Names, NEW d \in Diffs \cup {0},
         OpenExtendedChannel(name, d)
  PROVE  Fits(s')
<1> DEFINE first == IF s.fixed \/ d = 0 THEN StartDiff ELSE Within(d)
           c == [s EXCEPT !.kind = "extended", !.sub = TRUE, !.auth = TRUE, !.astray = FALSE,
                          !.vd = SetCurrent(first)]
<1>1. s' = Opened(c, name, first)
  BY DEF OpenExtendedChannel
<1>2. first \in Nat
  BY Difficulties
<1> HIDE DEF first
<1>3. SetCurrent(first) \in Vardiff /\ SetCurrent(first).ssdc = 0 /\ 0 \in 0..SharesPerCheck
  BY <1>2, Limits DEF SetCurrent, Vardiff
<1>4. c \in Sessions /\ c.vd = SetCurrent(first) /\ c.auxJobs = s.auxJobs /\ c.eqJobs = s.eqJobs
  BY <1>3, ZenonT(60) DEF Fits, Sessions
<1> HIDE DEF c
<1>5. Fits(c)
  BY <1>3, <1>4 DEF Fits, Sized
<1> QED  BY <1>1, <1>2, <1>5, OpenedFits

LEMMA SubscribeFits ==
  ASSUME latest \in 0..MaxJobs, Fits(s), Subscribe
  PROVE  Fits(s')
<1> DEFINE c == [s EXCEPT !.sub = TRUE]
<1>1. s' = SendSetDifficulty(c, s.vd.current, s.vd.current) /\ s.vd.current \in Nat
  BY DEF Subscribe, Fits, Sessions, Vardiff
<1>2. c \in Sessions /\ SameSize(s, c)
  BY DEF Fits, Sessions, SameSize
<1> HIDE DEF c
<1>3. Fits(c)
  BY <1>2, SameSizeFits
<1> QED  BY <1>1, <1>3, DifficultyFits

LEMMA SuggestFits ==
  ASSUME latest \in 0..MaxJobs, Fits(s), NEW wanted \in Diffs, SuggestDifficulty(wanted)
  PROVE  Fits(s')
<1> DEFINE d == Within(wanted)
           e == SendSetDifficulty(s, d, d)
           f == [e EXCEPT !.astray = TRUE]
<1>1. s' = f
  BY DEF SuggestDifficulty
<1>4. d \in Nat
  BY Difficulties
<1> HIDE DEF d
<1>2. Fits(e)
  BY <1>4, DifficultyFits
<1> HIDE DEF e
<1>3. f \in Sessions /\ SameSize(e, f)
  BY <1>2 DEF Fits, Sessions, SameSize
<1> HIDE DEF f
<1> QED  BY <1>1, <1>2, <1>3, SameSizeFits

LEMMA SetupFits ==
  ASSUME Fits(s), SetupConnection
  PROVE  Fits(s')
<1>1. s' \in Sessions /\ SameSize(s, s')
  BY DEF SetupConnection, Fits, Sessions, SameSize
<1> QED  BY <1>1, SameSizeFits

LEMMA SubmitFits ==
  ASSUME latest \in 0..MaxJobs, Fits(s), NEW j \in Jobs, NEW d \in Diffs,
         NEW network \in Diffs \cup {0}, NEW winsAux \in BOOLEAN, NEW late \in BOOLEAN,
         NEW wanted \in Diffs \cup {0}, Submit(j, d, winsAux, late, wanted, network)
  PROVE  Fits(s')
<1> DEFINE t == Ticked(s, TargetDiff(s, d), late, wanted, network)
<1>1. s' = t \/ s' = AuxBlock(t, j)
  BY DEF Submit
<1>3. wanted \in Nat /\ network \in Nat
  BY FeedConstants
<1>2. Fits(t)
  BY <1>3, TickFits
<1> HIDE DEF t
<1> QED  BY <1>1, <1>2, AuxBlockFits

LEMMA GraceFits ==
  ASSUME Fits(s), GraceEnds
  PROVE  Fits(s')
<1>1. s' \in Sessions /\ SameSize(s, s')
  BY ZenonT(60) DEF GraceEnds, Fits, Sessions, SameSize
<1> QED  BY <1>1, SameSizeFits

LEMMA StepFits ==
  ASSUME FeedInv, Fits(s), [Next]_vars
  PROVE  Fits(s')
<1>1. latest \in 0..MaxJobs /\ latest \in Nat
  BY Difficulties DEF FeedInv, Posted
<1>2. CASE UNCHANGED s
  BY <1>2
<1>3. CASE NotifyNewJob
  <2>1. Head(mail) \in Jobs /\ s' = Notified(s, Head(mail))
    <3>1. mail \in Seq(Nat) /\ mail # << >> /\ \A k \in 1..Len(mail) : mail[k] \in 1..latest
      BY <1>3 DEF NotifyNewJob, FeedInv, Posted
    <3>2. Head(mail) = mail[1] /\ Len(mail) \in Nat /\ Len(mail) >= 1
      BY <3>1
    <3>3. Head(mail) \in 1..latest
      BY <3>1, <3>2
    <3>4. Head(mail) \in Jobs
      BY <1>1, <3>3, FeedConstants DEF Jobs
    <3>5. s' = Notified(s, Head(mail))
      BY <1>3 DEF NotifyNewJob
    <3> QED  BY <3>4, <3>5
  <2> QED  BY <2>1, NotifiedFits
<1>4. CASE Subscribe
  BY <1>1, <1>4, SubscribeFits
<1>5. CASE \E name \in Names, aux \in BOOLEAN, custom \in Diffs \cup {0} : Authorize(name, aux, custom)
  BY <1>1, <1>5, AuthorizeFits
<1>6. CASE \E d \in Diffs : SuggestDifficulty(d)
  BY <1>1, <1>6, SuggestFits
<1>7. CASE ExtranonceSubscribe
  BY <1>1, <1>7, LatestSentFits DEF ExtranonceSubscribe
<1>8. CASE SetupConnection
  BY <1>8, SetupFits
<1>9. CASE \E name \in Names : OpenStandardChannel(name)
  BY <1>1, <1>9, OpenStandardFits
<1>10. CASE \E name \in Names, d \in Diffs \cup {0} : OpenExtendedChannel(name, d)
  BY <1>1, <1>10, OpenExtendedFits
<1>11. CASE \E j \in Jobs, d \in Diffs, network \in Diffs \cup {0},
              winsAux, late \in BOOLEAN, wanted \in Diffs \cup {0} :
              Submit(j, d, winsAux, late, wanted, network)
  BY <1>1, <1>11, SubmitFits
<1>12. CASE \E j \in Jobs : SubmitStale(j)
  BY <1>12, AuxBlockFits DEF SubmitStale
<1>13. CASE GraceEnds
  BY <1>13, GraceFits
<1>14. CASE PushJob \/ OnNewJob \/ RegisterSession \/ Quiet
  BY <1>2, <1>14, SMTT(40) DEF PushJob, OnNewJob, RegisterSession, Quiet, vars
<1> QED  BY <1>2, <1>3, <1>4, <1>5, <1>6, <1>7, <1>8, <1>9, <1>10, <1>11, <1>12, <1>13, <1>14
         DEF Next, Miner, vars

(***************************************************************************)
(* The handlers posted.                                                    *)
(***************************************************************************)

Queued ==
  /\ \A i, k \in 1..Len(mail) : i < k => mail[i] < mail[k]
  /\ casting # 0 => \A k \in 1..Len(mail) : mail[k] < casting

Counted == requests \in 0..MaxRequests /\ reg \in BOOLEAN

LEMMA QueuedKept ==
  ASSUME FeedInv, Queued, [Next]_vars
  PROVE  Queued'
<1>1. /\ mail \in Seq(Nat) /\ Len(mail) \in Nat /\ latest \in Nat /\ casting \in {0, latest}
      /\ \A k \in 1..Len(mail) : mail[k] \in 1..latest
  BY Difficulties DEF FeedInv, Posted
<1>2. CASE UNCHANGED <<mail, casting>>
  BY <1>2 DEF Queued
<1>3. CASE PushJob
  <2>1. mail' = mail /\ casting' = latest + 1
    BY <1>3 DEF PushJob
  <2> QED  BY <1>1, <2>1 DEF Queued
<1>4. CASE OnNewJob
  <2>1. casting' = 0 /\ casting \in Nat /\ \A k \in 1..Len(mail) : mail[k] < casting
    BY <1>1, <1>4 DEF OnNewJob, Queued
  <2>2. CASE mail' = mail
    BY <2>1, <2>2 DEF Queued
  <2>3. CASE mail' = Append(mail, casting)
    <3>1. /\ Len(mail') = Len(mail) + 1 /\ mail'[Len(mail')] = casting
          /\ \A k \in 1..Len(mail) : mail'[k] = mail[k]
      BY <1>1, <2>1, <2>3
    <3>2. ASSUME NEW i \in 1..Len(mail'), NEW k \in 1..Len(mail'), i < k
          PROVE  mail'[i] < mail'[k]
      <4>1. i \in 1..Len(mail) /\ mail'[i] = mail[i]
        BY <1>1, <3>1, <3>2
      <4>2. CASE k = Len(mail')
        BY <2>1, <3>1, <4>1, <4>2
      <4>3. CASE k # Len(mail')
        <5>1. k \in 1..Len(mail) /\ mail'[k] = mail[k]
          BY <1>1, <3>1, <4>3
        <5> QED  BY <3>2, <4>1, <5>1 DEF Queued
      <4> QED  BY <4>2, <4>3
    <3> QED  BY <2>1, <3>2 DEF Queued
  <2> QED  BY <1>4, <2>2, <2>3 DEF OnNewJob
<1>5. CASE NotifyNewJob
  <2> DEFINE rest == Tail(mail)
  <2>1. mail' = rest /\ casting' = casting /\ mail # << >>
    BY <1>5 DEF NotifyNewJob
  <2>2. /\ Len(rest) = Len(mail) - 1 /\ \A k \in 1..Len(rest) : rest[k] = mail[k + 1]
    BY <1>1, <2>1, HeadTailProperties
  <2> HIDE DEF rest
  <2>3. \A k \in 1..Len(rest) : k + 1 \in 1..Len(mail)
    BY <1>1, <2>2
  <2>4. ASSUME NEW i \in 1..Len(rest), NEW k \in 1..Len(rest), i < k
        PROVE  rest[i] < rest[k]
    <3>1. i + 1 \in 1..Len(mail) /\ k + 1 \in 1..Len(mail) /\ i + 1 < k + 1
      BY <2>3, <2>4
    <3>2. mail[i + 1] < mail[k + 1]
      BY <3>1 DEF Queued
    <3> QED  BY <2>2, <3>2
  <2>5. casting # 0 => \A k \in 1..Len(rest) : rest[k] < casting
    BY <2>2, <2>3 DEF Queued
  <2>6. \A i, k \in 1..Len(mail') : i < k => mail'[i] < mail'[k]
    <3>1. \A i, k \in 1..Len(rest) : i < k => rest[i] < rest[k]
      BY <2>4
    <3> QED  BY <2>1, <3>1, ZenonT(60)
  <2>7. casting' # 0 => \A k \in 1..Len(mail') : mail'[k] < casting'
    BY <2>1, <2>5, ZenonT(60)
  <2> QED  BY <2>6, <2>7, ZenonT(60) DEF Queued
<1> QED  BY <1>2, <1>3, <1>4, <1>5, ZenonT(60) DEF Next, Miner, vars, RegisterSession, Quiet, Subscribe, Authorize,
            SuggestDifficulty, ExtranonceSubscribe, SetupConnection, OpenStandardChannel,
            OpenExtendedChannel, Submit, SubmitStale, GraceEnds

LEMMA CountedKept ==
  ASSUME Counted, [Next]_vars
  PROVE  Counted'
<1>1. requests \in 0..MaxRequests /\ MaxRequests \in Nat /\ reg \in BOOLEAN
  BY FeedConstants, SMTT(40) DEF Counted
<1>2. (requests' = requests \/ Request) /\ (reg' = reg \/ reg' = TRUE)
  BY ZenonT(60) DEF Next, Miner, vars, PushJob, OnNewJob, NotifyNewJob, RegisterSession, Quiet, Subscribe,
         Authorize, SuggestDifficulty, ExtranonceSubscribe, SetupConnection, OpenStandardChannel,
         OpenExtendedChannel, Submit, SubmitStale, GraceEnds
<1>3. Request => requests < MaxRequests /\ requests' = requests + 1
  BY DEF Request
<1>4. requests' \in 0..MaxRequests
  BY <1>1, <1>2, <1>3
<1>5. reg' \in BOOLEAN
  BY <1>1, <1>2, ZenonT(60)
<1> QED  BY <1>4, <1>5, ZenonT(60) DEF Counted

SizeInv == FeedInv /\ Fits(s) /\ Queued /\ Counted

LEMMA InitFits == Init => SizeInv
<1> SUFFICES ASSUME Init PROVE SizeInv
  OBVIOUS
<1>1. FeedInv
  BY InitEstablishes
<1>2. s \in Sessions
  BY <1>1 DEF FeedInv, Good
<1>3. s.vd.ssdc = 0 /\ s.auxJobs = {} /\ s.eqJobs = << >>
  BY DEF Init, SetCurrent
<1>4. 0 \in 0..SharesPerCheck
  BY Limits
<1>5. Cardinality({}) = 0 /\ DOMAIN s.eqJobs = {}
  BY <1>3, EmptyMap, FS_EmptySet
<1>6. Fits(s)
  BY <1>2, <1>3, <1>4, <1>5, Limits DEF Fits, Sized
<1>7. Len(mail) = 0 /\ casting = 0
  BY DEF Init
<1>8. Queued
  BY <1>7 DEF Queued
<1>9. Counted
  <2>1. requests \in 0..MaxRequests /\ reg = FALSE
    BY FeedConstants DEF Init
  <2> QED  BY <2>1, ZenonT(60) DEF Counted
<1> QED  BY <1>1, <1>6, <1>8, <1>9 DEF SizeInv

LEMMA SizeInvariant == Spec => []SizeInv
<1>1. SizeInv /\ [Next]_vars => SizeInv'
  BY StepKeeps, StepFits, QueuedKept, CountedKept DEF SizeInv
<1> QED  BY <1>1, InitFits, PTL DEF Spec

LEMMA SizesTypes == SizeInv => TypeOK
<1> SUFFICES ASSUME SizeInv PROVE TypeOK
  OBVIOUS
<1>1. /\ latest \in 0..MaxJobs /\ casting \in {0, latest} /\ reg \in BOOLEAN
      /\ requests \in 0..MaxRequests /\ s \in Sessions /\ s.newest <= latest
  BY DEF SizeInv, Counted, FeedInv, Posted, Good
<1>2. mail \in Seq(1..latest) /\ \A i, k \in DOMAIN mail : i < k => mail[i] < mail[k]
  <2>1. /\ mail \in Seq(Nat) /\ \A k \in 1..Len(mail) : mail[k] \in 1..latest
        /\ \A i, k \in 1..Len(mail) : i < k => mail[i] < mail[k]
    BY DEF SizeInv, FeedInv, Posted, Queued
  <2> DEFINE J == 1..latest
             n == Len(mail)
  <2>2. n \in Nat /\ DOMAIN mail = 1..n /\ mail \in [1..n -> Nat] /\ \A k \in 1..n : mail[k] \in J
    BY <2>1, LenProperties
  <2> HIDE DEF J, n
  <2>3. mail \in Seq(J) /\ DOMAIN mail = 1..n
    <3>1. n \in Nat /\ mail \in [1..n -> J]
      BY <2>2
    <3>2. mail \in UNION {[1..m -> J] : m \in Nat}
      BY <3>1
    <3> QED  BY <2>2, <3>2, SeqDef
  <2>4. \A i, k \in DOMAIN mail : i < k => mail[i] < mail[k]
    BY <2>1, <2>3, ZenonT(60) DEF n
  <2> QED  BY <2>3, <2>4, ZenonT(60) DEF J
<1>3. /\ s.kind \in Kinds \cup {"extended"} /\ s.fixed \in BOOLEAN /\ s.sub \in BOOLEAN /\ s.auth \in BOOLEAN
      /\ s.aux \in BOOLEAN /\ s.pays \in Names \cup {Nobody} /\ s.custom \in BOOLEAN /\ s.grace \in BOOLEAN
      /\ s.told \in [Jobs -> Coinbases] /\ s.newest \in Nat
  BY <1>1, ZenonT(60) DEF Sessions
<1>4. s.newest \in 0..latest
  BY <1>1, <1>3, FeedConstants
<1>5. /\ s.vd.ssdc \in 0..SharesPerCheck
      /\ {s.advertised, s.before, s.last, s.vd.current} \subseteq Nat
      /\ Cardinality(s.auxJobs) <= Cap + 1 /\ Cardinality(DOMAIN s.eqJobs) <= Cap + 1
  BY DEF SizeInv, Fits, Sized, Sessions, Vardiff
<1> QED  BY <1>1, <1>2, <1>3, <1>4, <1>5 DEF TypeOK

(***************************************************************************)
(* The properties.                                                         *)
(***************************************************************************)

\* Whatever the miner asked for between updateWork, onNewJob and the handler on
\* its strand, an authorized miner works on the newest job once nothing is on
\* its way (notifyNewJob, proceed_auth, send_set_difficulty).
THEOREM NewestIsLast == Spec => []NewestJobLast
<1>1. FeedInv => NewestJobLast
  BY DEF FeedInv
<1> QED  BY <1>1, FeedInvariant, PTL

\* Without merged mining handle_submit rebuilds the coinbase that the last job
\* sent was hashed with, for any payout names and any size of the map in which
\* the equihash session remembers them.
THEOREM HashedAsSent == Spec => []CurrentJobRebuilt
<1>1. FeedInv => CurrentJobRebuilt
  BY DEF FeedInv, Good, Rebuilt, CurrentJobRebuilt
<1> QED  BY <1>1, FeedInvariant, PTL

\* For any tier, any unit of the difficulties and any answer of vardiff: a share that
\* meets the number the miner heard last, or in the grace period the one before, is
\* not refused for its difficulty, on every protocol, as long as the miner neither
\* suggested a difficulty nor opened a second standard channel.  Where the number
\* heard was rounded the share must meet it by half a unit more; below that the code
\* may refuse it (send_set_difficulty, handle_submit).
THEOREM JudgedAsTold == Spec => []ThresholdAdvertised
<1>1. FeedInv => ThresholdAdvertised
  <2> SUFFICES ASSUME FeedInv, ~s.astray
               PROVE  /\ s.advertised = Heard(s.kind, s.vd.current)
                      /\ \A d \in Diffs :
                           Meets(s, d, s.advertised) \/ (s.grace /\ Meets(s, d, s.before))
                           => Accepted(s, d)
    BY DEF ThresholdAdvertised
  <2>1. /\ s.advertised = Heard(s.kind, s.vd.current)
        /\ s.before = Heard(s.kind, s.last) \/ s.before = Heard(s.kind, s.vd.current)
    BY DEF FeedInv, Good, Advertised
  <2>2. s.vd.current \in Nat /\ s.last \in Nat
    BY DEF FeedInv, Good, Sessions, Vardiff
  <2>3. \A d \in Diffs : d \in Nat
    BY Difficulties
  <2>4. ASSUME NEW d \in Diffs, NEW old \in Nat, Meets(s, d, Heard(s.kind, old))
        PROVE  d >= old
    <3>1. CASE s.kind \in V2
      BY <2>4, <3>1 DEF Meets, Heard
    <3>2. CASE s.kind \notin V2
      <4>1. Rounded(old) \in Nat /\ 2 * old <= 2 * Rounded(old) + Unit /\ Unit \in Nat
        BY RoundsNear, FeedConstants
      <4>2. 2 * d >= 2 * Rounded(old) + Unit
        BY <2>4, <3>2 DEF Meets, Heard
      <4> QED  BY <2>3, <4>1, <4>2
    <3> QED  BY <3>1, <3>2
  <2>5. ASSUME NEW d \in Diffs, NEW old \in Nat, d >= old
        PROVE  Reaches(s, d, old)
    <3>1. Tolerance(s.kind) \in {90, 99, 100}
      BY DEF Tolerance
    <3>2. CASE Tolerance(s.kind) = 90
      BY <2>3, <2>5, <3>2 DEF Reaches
    <3>3. CASE Tolerance(s.kind) = 99
      BY <2>3, <2>5, <3>3 DEF Reaches
    <3>4. CASE Tolerance(s.kind) = 100
      BY <2>3, <2>5, <3>4 DEF Reaches
    <3> QED  BY <3>1, <3>2, <3>3, <3>4
  <2>6. ASSUME NEW d \in Diffs, d >= s.vd.current
        PROVE  Accepted(s, d)
    <3>1. TargetDiff(s, d) = s.vd.current
      BY <2>2, <2>3, <2>6 DEF TargetDiff
    <3> QED  BY <2>2, <2>5, <2>6, <3>1 DEF Accepted
  <2>7. ASSUME NEW d \in Diffs, s.grace, d >= s.last
        PROVE  Accepted(s, d)
    <3>1. Reaches(s, d, s.last)
      BY <2>2, <2>5, <2>7
    <3>2. CASE d >= s.vd.current
      BY <2>6, <3>2
    <3>3. CASE d < s.vd.current
      BY <2>7, <3>1, <3>3 DEF Accepted, TargetDiff
    <3> QED  BY <2>2, <2>3, <3>2, <3>3
  <2>8. ASSUME NEW d \in Diffs, Meets(s, d, s.advertised) \/ (s.grace /\ Meets(s, d, s.before))
        PROVE  Accepted(s, d)
    <3>1. CASE Meets(s, d, Heard(s.kind, s.vd.current))
      BY <2>2, <2>4, <2>6, <3>1
    <3>2. CASE s.grace /\ Meets(s, d, Heard(s.kind, s.last))
      BY <2>2, <2>4, <2>7, <3>2
    <3> QED  BY <2>1, <2>8, <3>1, <3>2
  <2> QED  BY <2>1, <2>8
<1> QED  BY <1>1, FeedInvariant, PTL

\* However shares repeat a job, its aux block is handed to the node once, and
\* once more at most each time the table of submitted blocks was emptied
\* (maybe_submit_aux_block).
THEOREM AuxHandedOnOnce == Spec => []AuxSubmittedOnce
<1>1. FeedInv => AuxSubmittedOnce
  BY DEF FeedInv, Good, AuxCounted, AuxSubmittedOnce
<1> QED  BY <1>1, FeedInvariant, PTL

\* Every member keeps its type: the per-job maps never hold more than one job
\* above the size at which they are emptied, vardiff counts no more shares than it
\* checks after, and the handlers posted are for jobs in order, for any number of
\* jobs and requests (Remember, on_share, notifyNewJob).
THEOREM TypeCorrect == Spec => []TypeOK
BY SizeInvariant, SizesTypes, PTL
=============================================================================
