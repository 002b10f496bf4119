---------------------------- MODULE ProxyProofs -----------------------------
(***************************************************************************)
(* What holds of the proxy for any number of links, sessions, slots and    *)
(* shares, and any of its bounds: what a miner will be told, and what its  *)
(* link says.                                                              *)
(***************************************************************************)
EXTENDS Proxy, FiniteSetTheorems, SequenceTheorems, WellFoundedInduction, TLAPS

LEMMA Constants ==
  /\ NLinks \in Nat /\ Span \in Nat /\ Span > 0 /\ Nobody \notin Sessions
  /\ Links \subseteq Nat /\ None \notin Links /\ None \in Nat
  /\ Slots \subseteq Nat /\ 0 \in Slots /\ IsFiniteSet(Slots) /\ Cardinality(Slots) = Span
<1>1. NLinks \in Nat /\ Span \in Nat /\ Span > 0 /\ Nobody \notin Sessions
  BY ProxyConstants
<1>2. Links \subseteq Nat /\ None \notin Links /\ None \in Nat
  BY <1>1 DEF Links, None
<1>3. Slots \subseteq Nat /\ 0 \in Slots
  BY <1>1 DEF Slots
<1>4. IsFiniteSet(Slots) /\ Cardinality(Slots) = Span
  <2>1. 0 \in Int /\ Span - 1 \in Int /\ ~(0 > Span - 1) /\ (Span - 1) - 0 + 1 = Span
    BY <1>1
  <2> QED  BY <2>1, FS_Interval DEF Slots
<1> QED  BY <1>1, <1>2, <1>3, <1>4

(***************************************************************************)
(* Least elements, and counting.                                           *)
(***************************************************************************)

LEMMA LeastNumber ==
  ASSUME NEW T, T \subseteq Nat, T # {}
  PROVE  \E x \in T : \A y \in T : x <= y
<1>1. IsWellFoundedOn(OpToRel(<, Nat), Nat)
  BY NatLessThanWellFounded
<1>2. PICK x \in T : \A y \in T : ~(<<y, x>> \in OpToRel(<, Nat))
  BY <1>1, WFMin
<1>3. \A y \in T : ~(y < x)
  BY <1>2 DEF OpToRel
<1>4. \A y \in T : x <= y
  <2> TAKE y \in T
  <2>1. x \in Nat /\ y \in Nat /\ ~(y < x)
    BY <1>2, <1>3
  <2> QED  BY <2>1
<1> QED  BY <1>2, <1>4

LEMMA CountingUp ==
  ASSUME NEW T, T \subseteq Nat, 0 \in T, \A n \in Nat : n \in T => n + 1 \in T
  PROVE  T = Nat
<1> SUFFICES ASSUME Nat \ T # {} PROVE FALSE
  OBVIOUS
<1>1. PICK x \in Nat \ T : \A y \in Nat \ T : x <= y
  BY LeastNumber
<1>2. x \in Nat /\ x # 0
  BY <1>1, Zenon
<1>3. x - 1 \in Nat /\ ~(x <= x - 1) /\ (x - 1) + 1 = x
  BY <1>2
<1>4. x - 1 \in T
  BY <1>1, <1>3
<1> QED  BY <1>1, <1>3, <1>4

LEMMA TakenCounted ==
  ASSUME NEW subs
  PROVE  Cardinality(Taken(subs)) \in Nat
<1>1. Taken(subs) \subseteq Slots
  BY DEF Taken
<1> QED  BY <1>1, Constants, FS_Subset, FS_CardinalityType

LEMMA MinIsIn ==
  ASSUME NEW T, T \subseteq Links, T # {}
  PROVE  Min(T) \in T
<1>1. \E x \in T : \A y \in T : x =< y
  BY LeastNumber, Constants
<1> QED  BY <1>1 DEF Min

LEMMA LeastLoadedIsIn ==
  ASSUME NEW T, T \subseteq Links, T # {}, NEW subs
  PROVE  LeastLoaded(T, subs) \in T
<1> DEFINE load(l) == Load(l, subs[l])
           Loads == {load(l) : l \in T}
<1>1. \A l \in T : load(l) \in Nat
  <2> TAKE l \in T
  <2>1. Cardinality(Taken(subs[l])) \in Nat /\ Cost[l] \in Nat
    BY TakenCounted, ProxyConstants DEF Links
  <2> QED  BY <2>1 DEF Load
<1>2. PICK x \in Loads : \A y \in Loads : x <= y
  <2>1. Loads \subseteq Nat /\ Loads # {}
    BY <1>1
  <2> HIDE DEF Loads
  <2> QED  BY <2>1, LeastNumber
<1> DEFINE Lightest == {l \in T : load(l) = x}
<1>3. PICK l \in Lightest : \A k \in Lightest : l <= k
  <2>1. Lightest \subseteq Nat /\ Lightest # {}
    BY <1>2, Constants
  <2> HIDE DEF Lightest
  <2> QED  BY <2>1, LeastNumber
<1>4. \A k \in T : load(l) < load(k) \/ (load(l) = load(k) /\ l <= k)
  <2> TAKE k \in T
  <2>1. load(l) = x /\ x <= load(k) /\ load(k) \in Nat /\ load(l) \in Nat /\ l \in T
    BY <1>1, <1>2, <1>3
  <2>2. CASE load(k) = x
    BY <1>3, <2>1, <2>2
  <2>3. CASE load(k) # x
    <3> HIDE DEF load
    <3> QED  BY <2>1, <2>3
  <2> QED  BY <2>2, <2>3
<1>5. \E j \in T : \A k \in T : \/ Load(j, subs[j]) < Load(k, subs[k])
                                \/ Load(j, subs[j]) = Load(k, subs[k]) /\ j <= k
  BY <1>3, <1>4
<1> QED  BY <1>5, Zenon DEF LeastLoaded

LEMMA FreeSlotIsFree ==
  ASSUME NEW subs, NEW next \in Slots, Cardinality(Taken(subs)) < Span
  PROVE  FreeSlot(subs, next) \in Slots /\ subs[FreeSlot(subs, next)] = Nobody
<1> DEFINE Empty == {k \in Slots : subs[k] = Nobody}
           away(k) == (k - next) % Span
           Ways == {away(k) : k \in Empty}
<1>1. \A k \in Slots : away(k) \in Nat
  <2> TAKE k \in Slots
  <2>1. k - next \in Int /\ Span \in Nat /\ Span > 0
    BY Constants
  <2> QED  BY <2>1
<1>2. Empty # {}
  <2>1. SUFFICES ASSUME Empty = {} PROVE FALSE
    OBVIOUS
  <2>2. Taken(subs) = Slots
    BY <2>1 DEF Taken
  <2> QED  BY <2>2, Constants
<1>3. PICK x \in Ways : \A y \in Ways : x <= y
  <2>1. Ways \subseteq Nat /\ Ways # {}
    BY <1>1, <1>2
  <2> HIDE DEF Ways
  <2> QED  BY <2>1, LeastNumber
<1>4. PICK k \in Empty : away(k) = x
  BY <1>3
<1>5. /\ k \in Slots /\ subs[k] = Nobody
      /\ \A j \in Slots : subs[j] = Nobody => away(k) <= away(j)
  BY <1>3, <1>4
<1>6. \E j \in Slots : /\ subs[j] = Nobody
                       /\ \A i \in Slots : subs[i] = Nobody => (j - next) % Span <= (i - next) % Span
  BY <1>5
<1> QED  BY <1>6, Zenon DEF FreeSlot

(***************************************************************************)
(* The link a miner gets.                                                  *)
(***************************************************************************)

LEMMA PickIsReady ==
  Pick # None => Pick \in Links /\ Ready(Pick)
<1> DEFINE ready == {l \in Links : Ready(l)}
           subs == [l \in Links |-> L[l].subs]
<1> SUFFICES ASSUME Pick # None PROVE Pick \in ready
  OBVIOUS
<1>1. ready # {}
  BY DEF Pick
<1>2. Pick = IF mode = "activeactive" THEN LeastLoaded(ready, subs)
             ELSE IF primary \in ready THEN primary ELSE Min(ready)
  BY <1>1, Zenon DEF Pick
<1>3. LeastLoaded(ready, subs) \in ready
  <2>1. ready \subseteq Links
    OBVIOUS
  <2> HIDE DEF ready, subs
  <2> QED  BY <1>1, <2>1, LeastLoadedIsIn
<1>4. Min(ready) \in ready
  <2>1. ready \subseteq Links
    OBVIOUS
  <2> HIDE DEF ready
  <2> QED  BY <1>1, <2>1, MinIsIn
<1> QED  BY <1>2, <1>3, <1>4

LEMMA TargetIsElsewhere ==
  ASSUME NEW l, NEW links
  PROVE  Target(l, links) # None => Target(l, links) \in Links \ {l}
<1> DEFINE ready == {k \in Links \ {l} : ReadyWith(k, links[k].subs)}
           subs == [k \in Links |-> links[k].subs]
<1> SUFFICES ASSUME Target(l, links) # None PROVE Target(l, links) \in Links \ {l}
  OBVIOUS
<1>1. ready # {} /\ Target(l, links) = IF mode = "activeactive" THEN LeastLoaded(ready, subs) ELSE Min(ready)
  BY DEF Target
<1>2. ready \subseteq Links \ {l} /\ ready \subseteq Links
  OBVIOUS
<1> HIDE DEF ready, subs
<1>3. LeastLoaded(ready, subs) \in ready /\ Min(ready) \in ready
  BY <1>1, <1>2, LeastLoadedIsIn, MinIsIn
<1> QED  BY <1>1, <1>2, <1>3

(***************************************************************************)
(* The handlers posted to a session.                                       *)
(***************************************************************************)

\* Those after which it is bound elsewhere, has another difficulty, other work,
\* another extranonce.
Binds == {"rebind"}
Rates == {"diff", "rebind"}
Works == {"job", "rebind"}
Nonces == {"extranonce", "rebind"}

NoneOf(q, K) == \A i \in DOMAIN q : q[i].what \notin K
LastOf(q, K, i) ==
  /\ i \in DOMAIN q /\ q[i].what \in K
  /\ \A j \in DOMAIN q : j > i => q[j].what \notin K

LEMMA LastExists ==
  ASSUME NEW q \in Seq(Messages), NEW K, ~NoneOf(q, K)
  PROVE  \E i \in DOMAIN q : LastOf(q, K, i)
<1> DEFINE Left == {n \in Nat : \E i \in DOMAIN q : q[i].what \in K /\ n = Len(q) - i}
<1>1. PICK i \in DOMAIN q : q[i].what \in K
  BY DEF NoneOf
<1>2. Len(q) \in Nat /\ DOMAIN q = 1..Len(q)
  OBVIOUS
<1>3. Len(q) - i \in Left
  BY <1>1, <1>2
<1>4. PICK n \in Left : \A y \in Left : n <= y
  <2>1. Left \subseteq Nat /\ Left # {}
    BY <1>3
  <2> HIDE DEF Left
  <2> QED  BY <2>1, LeastNumber
<1>5. PICK k \in DOMAIN q : q[k].what \in K /\ n = Len(q) - k
  BY <1>4
<1>6. ASSUME NEW j \in DOMAIN q, j > k, q[j].what \in K
      PROVE  FALSE
  <2>1. j \in Nat /\ k \in Nat /\ j <= Len(q) /\ Len(q) - j \in Nat
    BY <1>2
  <2>2. Len(q) - j \in Left
    BY <1>6, <2>1
  <2>3. n <= Len(q) - j
    BY <1>4, <2>2
  <2> QED  BY <1>2, <1>5, <1>6, <2>1, <2>3
<1> QED  BY <1>5, <1>6 DEF LastOf

\* n handlers m posted after those of q.
LEMMA PostedTwice ==
  ASSUME NEW q \in Seq(Messages), NEW m \in Messages, NEW n \in Nat
  PROVE  /\ q \o Copies(n, m) \in Seq(Messages)
         /\ Len(q \o Copies(n, m)) = Len(q) + n
         /\ \A i \in DOMAIN q : i \in DOMAIN (q \o Copies(n, m)) /\ (q \o Copies(n, m))[i] = q[i]
         /\ \A i \in DOMAIN (q \o Copies(n, m)) : i \in DOMAIN q \/ (i > Len(q) /\ (q \o Copies(n, m))[i] = m)
<1> DEFINE c == Copies(n, m)
<1>1. c \in Seq(Messages) /\ Len(c) = n /\ \A i \in 1..n : c[i] = m
  <2>1. c \in [1..n -> Messages]
    BY DEF Copies
  <2>2. c \in Seq(Messages)
    BY <2>1, SeqDef
  <2>3. Len(c) = n
    BY <2>1, <2>2
  <2> QED  BY <2>2, <2>3 DEF Copies
<1> HIDE DEF c
<1>2. q \o c \in Seq(Messages) /\ Len(q \o c) = Len(q) + n
  BY <1>1
<1>3. \A i \in DOMAIN q : i \in DOMAIN (q \o c) /\ (q \o c)[i] = q[i]
  BY <1>1
<1>4. ASSUME NEW i \in DOMAIN (q \o c), i \notin DOMAIN q
      PROVE  i > Len(q) /\ (q \o c)[i] = m
  <2>1. i \in Nat /\ i > Len(q) /\ i <= Len(q) + n /\ i - Len(q) \in 1..n
    BY <1>1, <1>2, <1>4
  <2>2. (q \o c)[i] = c[i - Len(q)]
    BY <1>1, <2>1
  <2> QED  BY <1>1, <2>1, <2>2
<1> QED  BY <1>2, <1>3, <1>4 DEF c

LEMMA PostedNone ==
  ASSUME NEW q \in Seq(Messages), NEW m
  PROVE  q \o Copies(0, m) = q
<1>1. Copies(0, m) = << >>
  BY DEF Copies
<1> QED  BY <1>1, ConcatEmptySeq

\* Those of its kind are the last ones, and those of another kind change nothing.
LEMMA PostedLast ==
  ASSUME NEW q \in Seq(Messages), NEW m \in Messages, NEW n \in Nat, n > 0, NEW K, m.what \in K
  PROVE  /\ ~NoneOf(q \o Copies(n, m), K)
         /\ \A i : LastOf(q \o Copies(n, m), K, i) => (q \o Copies(n, m))[i] = m
<1> DEFINE c == q \o Copies(n, m)
<1>1. /\ c \in Seq(Messages) /\ Len(c) = Len(q) + n
      /\ \A i \in DOMAIN c : i \in DOMAIN q \/ (i > Len(q) /\ c[i] = m)
  BY PostedTwice
<1> HIDE DEF c
<1>2. Len(c) \in DOMAIN c /\ Len(c) \notin DOMAIN q
  BY <1>1
<1>3. c[Len(c)] = m
  BY <1>1, <1>2
<1>4. ~NoneOf(c, K)
  BY <1>2, <1>3 DEF NoneOf
<1>5. ASSUME NEW i, LastOf(c, K, i)
      PROVE  c[i] = m
  <2>1. i \in DOMAIN c /\ ~(Len(c) > i)
    BY <1>2, <1>3, <1>5 DEF LastOf
  <2>2. i = Len(c)
    BY <1>1, <2>1
  <2> QED  BY <1>3, <2>2
<1> QED  BY <1>4, <1>5 DEF c

LEMMA PostedOther ==
  ASSUME NEW q \in Seq(Messages), NEW m \in Messages, NEW n \in Nat, NEW K, m.what \notin K
  PROVE  /\ NoneOf(q \o Copies(n, m), K) => NoneOf(q, K)
         /\ \A i : LastOf(q \o Copies(n, m), K, i) => LastOf(q, K, i) /\ (q \o Copies(n, m))[i] = q[i]
<1> DEFINE c == q \o Copies(n, m)
<1>1. /\ \A i \in DOMAIN q : i \in DOMAIN c /\ c[i] = q[i]
      /\ \A i \in DOMAIN c : i \in DOMAIN q \/ (i > Len(q) /\ c[i] = m)
  BY PostedTwice
<1> HIDE DEF c
<1>2. NoneOf(c, K) => NoneOf(q, K)
  BY <1>1 DEF NoneOf
<1>3. ASSUME NEW i, LastOf(c, K, i)
      PROVE  LastOf(q, K, i) /\ c[i] = q[i]
  <2>1. i \in DOMAIN q
    BY <1>1, <1>3 DEF LastOf
  <2> QED  BY <1>1, <1>3, <2>1 DEF LastOf
<1> QED  BY <1>2, <1>3 DEF c

LEMMA Popped ==
  ASSUME NEW q \in Seq(Messages), q # << >>
  PROVE  /\ Head(q) \in Messages /\ Tail(q) \in Seq(Messages)
         /\ 1 \in DOMAIN q /\ Head(q) = q[1]
         /\ \A i \in DOMAIN Tail(q) : i \in Nat /\ i + 1 \in DOMAIN q /\ Tail(q)[i] = q[i + 1]
         /\ \A i \in DOMAIN q : i # 1 => i - 1 \in DOMAIN Tail(q) /\ Tail(q)[i - 1] = q[i]
<1>1. Head(q) \in Messages /\ Tail(q) \in Seq(Messages) /\ 1 \in DOMAIN q /\ Head(q) = q[1] /\ Len(Tail(q)) = Len(q) - 1
  OBVIOUS
<1>2. \A i \in DOMAIN Tail(q) : i \in Nat /\ i + 1 \in DOMAIN q /\ Tail(q)[i] = q[i + 1]
  OBVIOUS
<1>3. ASSUME NEW i \in DOMAIN q, i # 1
      PROVE  i - 1 \in DOMAIN Tail(q) /\ Tail(q)[i - 1] = q[i]
  <2>1. i \in Nat /\ i <= Len(q) /\ i > 1 /\ i - 1 \in 1..(Len(q) - 1) /\ (i - 1) + 1 = i
    BY <1>3
  <2>2. i - 1 \in DOMAIN Tail(q)
    BY <1>1, <2>1
  <2> QED  BY <1>2, <2>1, <2>2
<1> QED  BY <1>1, <1>2, <1>3

\* What is still to run when the first has: unless it was the only one of its kind,
\* the last of its kind is as it was.
LEMMA PoppedLast ==
  ASSUME NEW q \in Seq(Messages), q # << >>, NEW K
  PROVE  /\ NoneOf(Tail(q), K) => IF Head(q).what \in K THEN LastOf(q, K, 1) ELSE NoneOf(q, K)
         /\ \A i : LastOf(Tail(q), K, i) => LastOf(q, K, i + 1) /\ Tail(q)[i] = q[i + 1]
<1> DEFINE t == Tail(q)
           h == Head(q)
<1>1. /\ 1 \in DOMAIN q /\ h = q[1]
      /\ \A i \in DOMAIN t : i \in Nat /\ i + 1 \in DOMAIN q /\ t[i] = q[i + 1]
      /\ \A i \in DOMAIN q : i # 1 => i - 1 \in DOMAIN t /\ t[i - 1] = q[i]
  BY Popped
<1>2. DOMAIN q \subseteq Nat
  OBVIOUS
<1> HIDE DEF t, h
<1>3. ASSUME NoneOf(t, K)
      PROVE  \A i \in DOMAIN q : i # 1 => q[i].what \notin K
  BY <1>1, <1>3 DEF NoneOf
<1>4. NoneOf(t, K) => IF h.what \in K THEN LastOf(q, K, 1) ELSE NoneOf(q, K)
  <2> SUFFICES ASSUME NoneOf(t, K) PROVE IF h.what \in K THEN LastOf(q, K, 1) ELSE NoneOf(q, K)
    OBVIOUS
  <2>1. CASE h.what \in K
    <3>1. \A j \in DOMAIN q : j > 1 => q[j].what \notin K
      BY <1>3
    <3> QED  BY <1>1, <2>1, <3>1 DEF LastOf
  <2>2. CASE h.what \notin K
    BY <1>1, <1>3, <2>2 DEF NoneOf
  <2> QED  BY <2>1, <2>2
<1>5. ASSUME NEW i, LastOf(t, K, i)
      PROVE  LastOf(q, K, i + 1) /\ t[i] = q[i + 1]
  <2>1. i \in DOMAIN t /\ i \in Nat /\ i + 1 \in DOMAIN q /\ t[i] = q[i + 1]
    BY <1>1, <1>5 DEF LastOf
  <2>2. ASSUME NEW j \in DOMAIN q, j > i + 1
        PROVE  q[j].what \notin K
    <3>1. j # 1 /\ j - 1 > i
      BY <1>2, <2>1, <2>2
    <3> QED  BY <1>1, <1>5, <3>1 DEF LastOf
  <2> QED  BY <1>5, <2>1, <2>2 DEF LastOf
<1> QED  BY <1>4, <1>5 DEF t, h

(***************************************************************************)
(* The inductive invariant.                                                *)
(***************************************************************************)

LinkStates == [conn : {"dialing", "open", "closing", "failed", "down"},
               authorized : BOOLEAN, subscribed : BOOLEAN,
               en1 : Nat, first : Nat, job : 0..MaxUp, diff : Diffs \cup {1}, next : Slots,
               subs : [Slots -> Sessions \cup {Nobody}]]
SessionStates == [open : BOOLEAN, pc : {"idle", "attach", "register", "read"}, sub : BOOLEAN,
                  auth : BOOLEAN, rolls : BOOLEAN, pend : BOOLEAN,
                  twice : BOOLEAN, link : Links \cup {None},
                  slot : Slots, en1 : Nat, job : 0..MaxUp, told : 0..MaxUp, diff : Diffs \cup {1}]
ShareStates == [at : {"none", "posted", "pending", "over"}, link : Links \cup {None}, got : 0..1]

\* What session r will have once the handlers in q have run.
BoundTo(r, q, l, k) ==
  /\ NoneOf(q, Binds) => r.link = l /\ r.slot = k
  /\ \A i : LastOf(q, Binds, i) => q[i].link = l /\ q[i].slot = k
RatedAt(r, q, d) ==
  /\ NoneOf(q, Rates) => r.pc = "read" \/ r.diff = d
  /\ \A i : LastOf(q, Rates, i) => q[i].diff = d
WorksOn(r, q, j) ==
  /\ NoneOf(q, Works) => r.pc = "read" \/ r.job = j
  /\ \A i : LastOf(q, Works, i) => q[i].job = j

\* An extranonce of the link's present subscription is its newest one.
Current(e, link) == e <= link.en1 /\ (e >= link.first => e = link.en1)
HasNonce(r, q, link) ==
  /\ NoneOf(q, Nonces) => Current(r.en1, link)
  /\ \A i : LastOf(q, Nonces, i) => Current(q[i].en1, link)

Cast(what, l) == [what |-> what, link |-> l]

\* A session that holds slot k of link l will be in step with the link, when what it
\* has been sent, or is about to be, has reached it.
Follows(r, q, link, c, l, k) ==
  /\ BoundTo(r, q, l, k)
  /\ RatedAt(r, q, link.diff) \/ c = Cast("diff", l)
  /\ link.job # None => WorksOn(r, q, link.job) \/ c = Cast("job", l)
  /\ HasNonce(r, q, link)

\* A session that was never attached holds nothing and waits for nothing but a link.
Unattached(s, r, q, M) ==
  (~r.sub /\ r.pc # "read") =>
    /\ \A i \in DOMAIN q : q[i].what = "up"
    /\ \A l \in Links, k \in Slots : M[l].subs[k] # s

\* The job last sent to a miner is the one its session works on, unless a V1 miner was
\* not authorized when it came.
Told(V, s, r) ==
  IF s \in V THEN r.sub /\ r.job # None => r.told = r.job
  ELSE /\ ~r.sub => r.told = None
       /\ r.job = None => r.told = None
       /\ r.sub /\ r.auth => r.told \in {None, r.job}

Served(V, s, r, q, M, c) ==
  (r.open /\ ~r.twice) =>
    /\ Unattached(s, r, q, M)
    /\ \A l \in Links, k \in Slots : M[l].subs[k] = s => Follows(r, q, M[l], c, l, k)
    /\ Told(V, s, r)

Standing(V, s, r) ==
  /\ s \notin V => ~r.twice /\ (r.pend => ~r.sub)
  /\ s \in V => (r.pend \/ r.pc # "idle" => r.auth)
  /\ r.pc # "idle" /\ ~r.twice => ~r.sub
  /\ r.pc = "read" => r.link \in Links

Waiting(V, s, r, q, w) ==
  (r.open /\ r.pend /\ ~(s \in V /\ r.sub)) =>
    \/ \E i \in DOMAIN w : w[i] = s
    \/ r.pc # "idle"
    \/ \E i \in DOMAIN q : q[i].what = "up"

Named(q) == \A i \in DOMAIN q : q[i].what = "job" => q[i].job # None

Sound(V, s, r, q, M, c, w) ==
  /\ Standing(V, s, r) /\ Named(q) /\ Waiting(V, s, r, q, w)
  /\ Served(V, s, r, q, M, c)

Casting(c, M) ==
  \/ c = Idle
  \/ \E l \in Links : c = Cast("diff", l) \/ (c = Cast("job", l) /\ M[l].job # None)

Answered(x) ==
  /\ x.at # "over" => x.got = 0
  /\ x.at = "pending" => x.link \in Links

LinkTypes ==
  /\ mode \in Modes /\ v2 \in V2Sets /\ primary \in Links \cup {None}
  /\ L \in [Links -> LinkStates] /\ waiters \in Seq(Sessions)
  /\ Casting(casting, L)
  /\ running \in BOOLEAN /\ jobs \in Nat /\ jobs <= ups /\ ups \in 0..MaxUp /\ downs \in 0..MaxDown
SessionTypes == S \in [Sessions -> SessionStates] /\ mail \in [Sessions -> Seq(Messages)]
ShareTypes == share \in [Shares -> ShareStates] /\ \A x \in Shares : Answered(share[x])
SessionsSound == \A s \in Sessions : Sound(v2, s, S[s], mail[s], L, casting, waiters)

ProxyInv == LinkTypes /\ SessionTypes /\ ShareTypes /\ SessionsSound

LEMMA InvGivesTypes == ProxyInv => OneVerdict
<1> SUFFICES ASSUME ProxyInv PROVE OneVerdict
  OBVIOUS
<1>1. casting \in [what : {"nothing", "diff", "job"}, link : Links \cup {None}]
  BY DEF ProxyInv, LinkTypes, Casting, Cast, Idle
<1>2. jobs \in 0..MaxUp
  BY ProxyConstants DEF ProxyInv, LinkTypes
<1>3. L \in [Links -> LinkStates] /\ S \in [Sessions -> SessionStates] /\ share \in [Shares -> ShareStates]
  BY DEF ProxyInv, LinkTypes, SessionTypes, ShareTypes
<1>4. /\ mode \in Modes /\ v2 \in V2Sets /\ primary \in Links \cup {None} /\ waiters \in Seq(Sessions)
      /\ mail \in [Sessions -> Seq(Messages)] /\ running \in BOOLEAN /\ ups \in 0..MaxUp /\ downs \in 0..MaxDown
  BY DEF ProxyInv, LinkTypes, SessionTypes
<1>5. ShareStates \subseteq [at : {"none", "posted", "pending", "over"}, link : Links \cup {None}, got : Nat]
  BY DEF ShareStates
<1>6. share \in [Shares -> [at : {"none", "posted", "pending", "over"}, link : Links \cup {None}, got : Nat]]
  BY <1>3, <1>5
<1>7. TypeOK
  BY <1>1, <1>2, <1>3, <1>4, <1>6, Zenon DEF TypeOK, LinkStates, SessionStates
<1>8. ASSUME NEW x \in Shares  PROVE share[x].got <= (IF share[x].at = "over" THEN 1 ELSE 0)
  <2>1. share[x] \in ShareStates /\ Answered(share[x])
    BY <1>3 DEF ProxyInv, ShareTypes
  <2> QED  BY <2>1 DEF ShareStates, Answered
<1> QED  BY <1>7, <1>8 DEF OneVerdict

LEMMA InvGivesWaiters == ProxyInv => WaiterKnown
<1> SUFFICES ASSUME ProxyInv, NEW s \in Sessions, S[s].open, S[s].pend, ~(s \in v2 /\ S[s].sub)
             PROVE  \/ s \in Range(waiters) \/ S[s].pc # "idle"
                    \/ \E m \in Range(mail[s]) : m.what = "up"
  BY DEF WaiterKnown
<1>1. Waiting(v2, s, S[s], mail[s], waiters)
  BY DEF ProxyInv, SessionsSound, Sound
<1> QED  BY <1>1 DEF Waiting, Range

LEMMA InvGivesInStep == ProxyInv => InStep
<1> SUFFICES ASSUME ProxyInv, NEW s \in Sessions, Settled(s), Bound(s), ~S[s].twice
             PROVE  LET l == L[S[s].link] IN
                    /\ S[s].diff = l.diff
                    /\ l.job # None => /\ S[s].job = l.job
                                       /\ S[s].auth => S[s].told \in (IF s \in v2 THEN {l.job} ELSE {None, l.job})
                    /\ S[s].en1 >= l.first => S[s].en1 = l.en1
  BY DEF InStep
<1> DEFINE r == S[s]
           k == r.slot
<1>1. r \in SessionStates /\ Served(v2, s, r, mail[s], L, casting)
  BY DEF ProxyInv, SessionTypes, SessionsSound, Sound
<1>2. r.link \in Links /\ k \in Slots /\ r.open /\ r.sub /\ L[r.link].subs[k] = s
  BY <1>1 DEF Bound, SessionStates
<1>3. mail[s] = << >> /\ r.pc = "idle" /\ casting = Idle
  BY DEF Settled, Free
<1>4. Follows(r, mail[s], L[r.link], casting, r.link, k) /\ Told(v2, s, r)
  BY <1>1, <1>2 DEF Served
<1>5. \A K : NoneOf(mail[s], K)
  BY <1>3 DEF NoneOf
<1>6. casting # Cast("diff", r.link) /\ casting # Cast("job", r.link)
  BY <1>3 DEF Cast, Idle
<1>7. r.diff = L[r.link].diff /\ Current(r.en1, L[r.link]) /\ (L[r.link].job # None => r.job = L[r.link].job)
  BY <1>3, <1>4, <1>5, <1>6 DEF Follows, RatedAt, WorksOn, HasNonce
<1> QED  BY <1>2, <1>4, <1>7 DEF Told, Current

(***************************************************************************)
(* What leaves a session in step.                                          *)
(***************************************************************************)

\* It holds no slot but those it held, of links that say what they said.
Kept(s, M, M2) ==
  \A l \in Links, k \in Slots : M2[l].subs[k] = s =>
    /\ M[l].subs[k] = s
    /\ M2[l].diff = M[l].diff /\ M2[l].job = M[l].job /\ M2[l].en1 = M[l].en1 /\ M2[l].first = M[l].first

LEMMA Untouched ==
  ASSUME NEW V, NEW s, NEW r, NEW q, NEW M, NEW M2, NEW c, NEW w, NEW w2,
         Sound(V, s, r, q, M, c, w), Kept(s, M, M2),
         \A i \in DOMAIN w : i \in DOMAIN w2 /\ w2[i] = w[i]
  PROVE  Sound(V, s, r, q, M2, c, w2)
<1>1. Standing(V, s, r) /\ Named(q) /\ Waiting(V, s, r, q, w) /\ Served(V, s, r, q, M, c)
  BY DEF Sound
<1>2. Waiting(V, s, r, q, w2)
  BY <1>1 DEF Waiting
<1>3. ASSUME r.open, ~r.twice
      PROVE  Unattached(s, r, q, M2)
  BY <1>1, <1>3 DEF Served, Unattached, Kept
<1>4. ASSUME r.open, ~r.twice, NEW l \in Links, NEW k \in Slots, M2[l].subs[k] = s
      PROVE  Follows(r, q, M2[l], c, l, k)
  <2>1. Follows(r, q, M[l], c, l, k)
    BY <1>1, <1>4 DEF Served, Kept
  <2>2. M2[l].diff = M[l].diff /\ M2[l].job = M[l].job /\ M2[l].en1 = M[l].en1 /\ M2[l].first = M[l].first
    BY <1>4 DEF Kept
  <2> QED  BY <2>1, <2>2 DEF Follows, HasNonce, Current
<1>5. Served(V, s, r, q, M2, c)
  BY <1>1, <1>3, <1>4 DEF Served
<1> QED  BY <1>1, <1>2, <1>5 DEF Sound

\* A session that has not opened its channel twice holds one slot at most.
Single(s, M) ==
  \A l1 \in Links, k1 \in Slots, l2 \in Links, k2 \in Slots :
    M[l1].subs[k1] = s /\ M[l2].subs[k2] = s => l1 = l2 /\ k1 = k2

LEMMA OneSlot ==
  ASSUME NEW V, NEW s, NEW r, NEW q \in Seq(Messages), NEW M, NEW c, Served(V, s, r, q, M, c), r.open, ~r.twice
  PROVE  Single(s, M)
<1> SUFFICES ASSUME NEW l1 \in Links, NEW k1 \in Slots, NEW l2 \in Links, NEW k2 \in Slots,
                    M[l1].subs[k1] = s, M[l2].subs[k2] = s
             PROVE  l1 = l2 /\ k1 = k2
  BY DEF Single
<1>1. BoundTo(r, q, l1, k1) /\ BoundTo(r, q, l2, k2)
  BY DEF Served, Follows
<1>2. CASE NoneOf(q, Binds)
  BY <1>1, <1>2 DEF BoundTo
<1>3. CASE ~NoneOf(q, Binds)
  <2>1. PICK i \in DOMAIN q : LastOf(q, Binds, i)
    BY <1>3, LastExists
  <2> QED  BY <1>1, <2>1 DEF BoundTo
<1> QED  BY <1>2, <1>3

\* Of a kind of knowledge, what is posted of another kind changes nothing, and what is
\* posted of its own decides.
LEMMA PostedKeepsBinding ==
  ASSUME NEW q \in Seq(Messages), NEW m \in Messages, NEW n \in Nat, NEW r, NEW l, NEW k,
         BoundTo(r, q, l, k), m.what \notin Binds
  PROVE  BoundTo(r, q \o Copies(n, m), l, k)
<1> DEFINE c == q \o Copies(n, m)
<1>1. /\ NoneOf(c, Binds) => NoneOf(q, Binds)
      /\ \A i : LastOf(c, Binds, i) => LastOf(q, Binds, i) /\ c[i] = q[i]
  BY PostedOther
<1> HIDE DEF c
<1>2. BoundTo(r, c, l, k)
  BY <1>1 DEF BoundTo
<1> QED  BY <1>2 DEF c

LEMMA PostedKeepsRate ==
  ASSUME NEW q \in Seq(Messages), NEW m \in Messages, NEW n \in Nat, NEW r, NEW d,
         RatedAt(r, q, d), m.what \notin Rates
  PROVE  RatedAt(r, q \o Copies(n, m), d)
<1> DEFINE c == q \o Copies(n, m)
<1>1. /\ NoneOf(c, Rates) => NoneOf(q, Rates)
      /\ \A i : LastOf(c, Rates, i) => LastOf(q, Rates, i) /\ c[i] = q[i]
  BY PostedOther
<1> HIDE DEF c
<1>2. RatedAt(r, c, d)
  BY <1>1 DEF RatedAt
<1> QED  BY <1>2 DEF c

LEMMA PostedKeepsWork ==
  ASSUME NEW q \in Seq(Messages), NEW m \in Messages, NEW n \in Nat, NEW r, NEW j,
         WorksOn(r, q, j), m.what \notin Works
  PROVE  WorksOn(r, q \o Copies(n, m), j)
<1> DEFINE c == q \o Copies(n, m)
<1>1. /\ NoneOf(c, Works) => NoneOf(q, Works)
      /\ \A i : LastOf(c, Works, i) => LastOf(q, Works, i) /\ c[i] = q[i]
  BY PostedOther
<1> HIDE DEF c
<1>2. WorksOn(r, c, j)
  BY <1>1 DEF WorksOn
<1> QED  BY <1>2 DEF c

LEMMA PostedKeepsNonce ==
  ASSUME NEW q \in Seq(Messages), NEW m \in Messages, NEW n \in Nat, NEW r, NEW link,
         HasNonce(r, q, link), m.what \notin Nonces
  PROVE  HasNonce(r, q \o Copies(n, m), link)
<1> DEFINE c == q \o Copies(n, m)
<1>1. /\ NoneOf(c, Nonces) => NoneOf(q, Nonces)
      /\ \A i : LastOf(c, Nonces, i) => LastOf(q, Nonces, i) /\ c[i] = q[i]
  BY PostedOther
<1> HIDE DEF c
<1>2. HasNonce(r, c, link)
  BY <1>1 DEF HasNonce
<1> QED  BY <1>2 DEF c

LEMMA PostedDecides ==
  ASSUME NEW q \in Seq(Messages), NEW m \in Messages, NEW n \in Nat, n > 0, NEW r, NEW link
  PROVE  /\ m.what \in Binds => BoundTo(r, q \o Copies(n, m), m.link, m.slot)
         /\ m.what \in Rates => RatedAt(r, q \o Copies(n, m), m.diff)
         /\ m.what \in Works => WorksOn(r, q \o Copies(n, m), m.job)
         /\ m.what \in Nonces /\ Current(m.en1, link) => HasNonce(r, q \o Copies(n, m), link)
<1> DEFINE c == q \o Copies(n, m)
<1>1. ASSUME NEW K, m.what \in K
      PROVE  ~NoneOf(c, K) /\ \A i : LastOf(c, K, i) => c[i] = m
  BY <1>1, PostedLast
<1> HIDE DEF c
<1>2. m.what \in Binds => BoundTo(r, c, m.link, m.slot)
  BY <1>1 DEF BoundTo
<1>3. m.what \in Rates => RatedAt(r, c, m.diff)
  BY <1>1 DEF RatedAt
<1>4. m.what \in Works => WorksOn(r, c, m.job)
  BY <1>1 DEF WorksOn
<1>5. m.what \in Nonces /\ Current(m.en1, link) => HasNonce(r, c, link)
  BY <1>1 DEF HasNonce
<1> QED  BY <1>2, <1>3, <1>4, <1>5 DEF c

\* A word of a link, or of the client, to a session: who waits is still waiting, or is
\* about to be told.
LEMMA PostedSound ==
  ASSUME NEW V, NEW s, NEW r, NEW q \in Seq(Messages), NEW M, NEW M2, NEW c, NEW c2, NEW w, NEW m \in Messages,
         NEW n \in Nat, Sound(V, s, r, q, M, c, w), m.what = "job" => m.job # None,
         (r.open /\ ~r.twice) =>
           /\ Unattached(s, r, q \o Copies(n, m), M2)
           /\ \A l \in Links, k \in Slots : M2[l].subs[k] = s => Follows(r, q \o Copies(n, m), M2[l], c2, l, k)
  PROVE  Sound(V, s, r, q \o Copies(n, m), M2, c2, w)
<1> DEFINE p == q \o Copies(n, m)
<1>1. /\ \A i \in DOMAIN q : i \in DOMAIN p /\ p[i] = q[i]
      /\ \A i \in DOMAIN p : i \in DOMAIN q \/ p[i] = m
  BY PostedTwice
<1>2. Served(V, s, r, p, M2, c2)
  BY DEF Sound, Served
<1> HIDE DEF p
<1>3. Standing(V, s, r) /\ Named(q) /\ Waiting(V, s, r, q, w)
  BY DEF Sound
<1>4. Named(p)
  BY <1>1, <1>3 DEF Named
<1>5. Waiting(V, s, r, p, w)
  BY <1>1, <1>3 DEF Waiting
<1>6. Sound(V, s, r, p, M2, c2, w)
  BY <1>2, <1>3, <1>4, <1>5 DEF Sound
<1> QED  BY <1>6 DEF p

(***************************************************************************)
(* What the client posts.                                                  *)
(***************************************************************************)

LEMMA MessageTypes ==
  /\ Message("up") \in Messages /\ Message("up").what = "up"
  /\ \A e \in Nat : LET m == [Message("extranonce") EXCEPT !.en1 = e]
                    IN m \in Messages /\ m.what = "extranonce" /\ m.en1 = e
<1>1. 0 \in Slots /\ 0 \in Nat /\ 0 \in 0..MaxUp
  BY Constants, ProxyConstants
<1>2. Message("up") \in Messages /\ Message("up").what = "up"
  BY <1>1 DEF Message, Messages, None
<1>3. ASSUME NEW e \in Nat
      PROVE  LET m == [Message("extranonce") EXCEPT !.en1 = e]
             IN m \in Messages /\ m.what = "extranonce" /\ m.en1 = e
  BY <1>1 DEF Message, Messages, None
<1> QED  BY <1>2, <1>3, Zenon

\* What is broadcast.
Word(what, j, d) == [Message(what) EXCEPT !.job = j, !.diff = d]

LEMMA WordType ==
  ASSUME NEW what \in {"job", "diff"}, NEW j \in 0..MaxUp, NEW d \in Diffs \cup {1}
  PROVE  /\ Word(what, j, d) \in Messages
         /\ Word(what, j, d).what = what /\ Word(what, j, d).job = j /\ Word(what, j, d).diff = d
<1>1. 0 \in Slots /\ 0 \in Nat
  BY Constants
<1> QED  BY <1>1 DEF Word, Message, Messages, None

LEMMA RebindingType ==
  ASSUME L \in [Links -> LinkStates], NEW s, NEW t \in Links, NEW k \in Slots
  PROVE  /\ Rebinding(s, t, k) \in Messages
         /\ Rebinding(s, t, k).what = "rebind" /\ Rebinding(s, t, k).link = t /\ Rebinding(s, t, k).slot = k
         /\ Rebinding(s, t, k).en1 = L[t].en1 /\ Rebinding(s, t, k).job = L[t].job
         /\ Rebinding(s, t, k).diff = L[t].diff
<1>1. L[t].en1 \in Nat /\ L[t].job \in 0..MaxUp /\ L[t].diff \in Diffs \cup {1}
  BY DEF LinkStates
<1> QED  BY <1>1 DEF Rebinding, Message, Messages

\* A session that is gone.
LEMMA GoneSound ==
  ASSUME NEW V, NEW s, NEW r, NEW q, NEW M, NEW M2, NEW c, NEW c2, NEW w, NEW w2,
         Sound(V, s, r, q, M, c, w), ~r.open
  PROVE  Sound(V, s, r, << >>, M2, c2, w2)
  BY DEF Sound, Named, Waiting, Served

LEMMA UpSound ==
  ASSUME NEW V, NEW s, NEW r, NEW q \in Seq(Messages), NEW M, NEW M2, NEW c, NEW w, NEW n \in Nat,
         Sound(V, s, r, q, M, c, w), Kept(s, M, M2),
         (\E i \in DOMAIN w : w[i] = s) => n > 0
  PROVE  Sound(V, s, r, q \o Copies(n, Message("up")), M2, c, << >>)
<1> DEFINE m == Message("up")
           p == q \o Copies(n, m)
<1>1. m \in Messages /\ m.what = "up"
  BY MessageTypes
<1> HIDE DEF m
<1>2. /\ \A i \in DOMAIN q : i \in DOMAIN p /\ p[i] = q[i]
      /\ \A i \in DOMAIN p : i \in DOMAIN q \/ p[i] = m
      /\ Len(p) = Len(q) + n /\ p \in Seq(Messages)
      /\ \A i \in DOMAIN p : i \in DOMAIN q \/ (i > Len(q) /\ p[i] = m)
  BY <1>1, PostedTwice
<1>3. ASSUME NEW l, NEW k, Follows(r, q, M[l], c, l, k)
      PROVE  Follows(r, p, M[l], c, l, k)
  <2>1. m.what \notin Binds /\ m.what \notin Rates /\ m.what \notin Works /\ m.what \notin Nonces
    BY <1>1 DEF Binds, Rates, Works, Nonces
  <2>2. BoundTo(r, p, l, k)
    BY <1>1, <1>3, <2>1, PostedKeepsBinding DEF Follows
  <2>3. RatedAt(r, p, M[l].diff) \/ c = Cast("diff", l)
    BY <1>1, <1>3, <2>1, PostedKeepsRate DEF Follows
  <2>4. M[l].job # None => WorksOn(r, p, M[l].job) \/ c = Cast("job", l)
    BY <1>1, <1>3, <2>1, PostedKeepsWork DEF Follows
  <2>5. HasNonce(r, p, M[l])
    BY <1>1, <1>3, <2>1, PostedKeepsNonce DEF Follows
  <2> QED  BY <2>2, <2>3, <2>4, <2>5 DEF Follows
<1>4. n > 0 => Len(p) \in DOMAIN p /\ p[Len(p)] = m
  <2> SUFFICES ASSUME n > 0 PROVE Len(p) \in DOMAIN p /\ p[Len(p)] = m
    OBVIOUS
  <2>1. Len(p) \in DOMAIN p /\ Len(p) \notin DOMAIN q
    BY <1>2
  <2> QED  BY <1>2, <2>1
<1> HIDE DEF p
<1>5. Standing(V, s, r) /\ Named(q) /\ Waiting(V, s, r, q, w) /\ Served(V, s, r, q, M, c)
  BY DEF Sound
<1>6. Named(p)
  BY <1>1, <1>2, <1>5 DEF Named
<1>7. Waiting(V, s, r, p, w)
  BY <1>2, <1>5 DEF Waiting
<1>8. Waiting(V, s, r, p, << >>)
  BY <1>1, <1>4, <1>7 DEF Waiting
<1>9. Served(V, s, r, p, M, c)
  <2> SUFFICES ASSUME r.open, ~r.twice
               PROVE  /\ Unattached(s, r, p, M)
                      /\ \A l \in Links, k \in Slots : M[l].subs[k] = s => Follows(r, p, M[l], c, l, k)
                      /\ Told(V, s, r)
    BY DEF Served
  <2>1. Unattached(s, r, p, M)
    BY <1>1, <1>2, <1>5 DEF Served, Unattached
  <2> QED  BY <1>3, <1>5, <2>1 DEF Served
<1>10. Sound(V, s, r, p, M, c, << >>)
  BY <1>5, <1>6, <1>8, <1>9 DEF Sound
<1>11. Sound(V, s, r, p, M2, c, << >>)
  BY <1>10, Untouched
<1> QED  BY <1>11 DEF p, m

\* A broadcast goes to every holder of a slot of the link.
LEMMA DiffSound ==
  ASSUME NEW V, NEW s, NEW r, NEW q \in Seq(Messages), NEW M, NEW w, NEW n \in Nat, NEW m \in Messages,
         NEW l0 \in Links, Sound(V, s, r, q, M, Cast("diff", l0), w),
         m.what = "diff", m.diff = M[l0].diff,
         n > 0 <=> \E k \in Slots : M[l0].subs[k] = s
  PROVE  Sound(V, s, r, q \o Copies(n, m), M, Idle, w)
<1> DEFINE c == Cast("diff", l0)
<1>1. CASE n = 0
  <2>1. q \o Copies(n, m) = q
    BY <1>1, PostedNone
  <2>2. ASSUME NEW l \in Links, NEW k \in Slots, M[l].subs[k] = s, Follows(r, q, M[l], c, l, k)
        PROVE  Follows(r, q, M[l], Idle, l, k)
    <3>1. l # l0
      BY <1>1, <2>2
    <3>2. c # Cast("diff", l) /\ c # Cast("job", l)
      BY <3>1 DEF Cast
    <3> QED  BY <2>2, <3>2 DEF Follows
  <2>3. Served(V, s, r, q, M, Idle)
    BY <2>2 DEF Sound, Served
  <2>4. Sound(V, s, r, q, M, Idle, w)
    BY <2>3 DEF Sound
  <2> QED  BY <2>1, <2>4
<1>2. CASE n > 0
  <2>1. PICK k0 \in Slots : M[l0].subs[k0] = s
    BY <1>2
  <2> SUFFICES ASSUME r.open, ~r.twice
               PROVE  /\ Unattached(s, r, q \o Copies(n, m), M)
                      /\ \A l \in Links, k \in Slots :
                           M[l].subs[k] = s => Follows(r, q \o Copies(n, m), M[l], Idle, l, k)
    BY PostedSound
  <2>2. Served(V, s, r, q, M, c)
    BY DEF Sound
  <2>3. Unattached(s, r, q, M)
    BY <2>2 DEF Served
  <2>4. Unattached(s, r, q \o Copies(n, m), M)
    BY <2>1, <2>3 DEF Unattached
  <2>5. ASSUME NEW l \in Links, NEW k \in Slots, M[l].subs[k] = s
        PROVE  Follows(r, q \o Copies(n, m), M[l], Idle, l, k)
    <3>1. l = l0
      BY <2>1, <2>2, <2>5, OneSlot DEF Single
    <3>2. Follows(r, q, M[l], c, l, k)
      BY <2>2, <2>5 DEF Served
    <3>3. m.what \notin Binds /\ m.what \in Rates /\ m.what \notin Works /\ m.what \notin Nonces
      BY DEF Binds, Rates, Works, Nonces
    <3>4. BoundTo(r, q \o Copies(n, m), l, k)
      BY <3>2, <3>3, PostedKeepsBinding DEF Follows
    <3>5. RatedAt(r, q \o Copies(n, m), M[l].diff)
      BY <1>2, <3>1, <3>3, PostedDecides
    <3>6. M[l].job # None => WorksOn(r, q \o Copies(n, m), M[l].job)
      <4>1. c # Cast("job", l)
        BY DEF Cast
      <4> QED  BY <3>2, <3>3, <4>1, PostedKeepsWork DEF Follows
    <3>7. HasNonce(r, q \o Copies(n, m), M[l])
      BY <3>2, <3>3, PostedKeepsNonce DEF Follows
    <3> QED  BY <3>4, <3>5, <3>6, <3>7 DEF Follows
  <2> QED  BY <2>4, <2>5
<1> QED  BY <1>1, <1>2

LEMMA JobSound ==
  ASSUME NEW V, NEW s, NEW r, NEW q \in Seq(Messages), NEW M, NEW w, NEW n \in Nat, NEW m \in Messages,
         NEW l0 \in Links, Sound(V, s, r, q, M, Cast("job", l0), w),
         m.what = "job", m.job = M[l0].job, M[l0].job # None,
         n > 0 <=> \E k \in Slots : M[l0].subs[k] = s
  PROVE  Sound(V, s, r, q \o Copies(n, m), M, Idle, w)
<1> DEFINE c == Cast("job", l0)
<1>1. CASE n = 0
  <2>1. q \o Copies(n, m) = q
    BY <1>1, PostedNone
  <2>2. ASSUME NEW l \in Links, NEW k \in Slots, M[l].subs[k] = s, Follows(r, q, M[l], c, l, k)
        PROVE  Follows(r, q, M[l], Idle, l, k)
    <3>1. l # l0
      BY <1>1, <2>2
    <3>2. c # Cast("diff", l) /\ c # Cast("job", l)
      BY <3>1 DEF Cast
    <3> QED  BY <2>2, <3>2 DEF Follows
  <2>3. Served(V, s, r, q, M, Idle)
    BY <2>2 DEF Sound, Served
  <2>4. Sound(V, s, r, q, M, Idle, w)
    BY <2>3 DEF Sound
  <2> QED  BY <2>1, <2>4
<1>2. CASE n > 0
  <2>1. PICK k0 \in Slots : M[l0].subs[k0] = s
    BY <1>2
  <2> SUFFICES ASSUME r.open, ~r.twice
               PROVE  /\ Unattached(s, r, q \o Copies(n, m), M)
                      /\ \A l \in Links, k \in Slots :
                           M[l].subs[k] = s => Follows(r, q \o Copies(n, m), M[l], Idle, l, k)
    BY PostedSound
  <2>2. Served(V, s, r, q, M, c)
    BY DEF Sound
  <2>3. Unattached(s, r, q, M)
    BY <2>2 DEF Served
  <2>4. Unattached(s, r, q \o Copies(n, m), M)
    BY <2>1, <2>3 DEF Unattached
  <2>5. ASSUME NEW l \in Links, NEW k \in Slots, M[l].subs[k] = s
        PROVE  Follows(r, q \o Copies(n, m), M[l], Idle, l, k)
    <3>1. l = l0
      BY <2>1, <2>2, <2>5, OneSlot DEF Single
    <3>2. Follows(r, q, M[l], c, l, k)
      BY <2>2, <2>5 DEF Served
    <3>3. m.what \notin Binds /\ m.what \notin Rates /\ m.what \in Works /\ m.what \notin Nonces
      BY DEF Binds, Rates, Works, Nonces
    <3>4. BoundTo(r, q \o Copies(n, m), l, k)
      BY <3>2, <3>3, PostedKeepsBinding DEF Follows
    <3>5. RatedAt(r, q \o Copies(n, m), M[l].diff)
      <4>1. c # Cast("diff", l)
        BY DEF Cast
      <4> QED  BY <3>2, <3>3, <4>1, PostedKeepsRate DEF Follows
    <3>6. WorksOn(r, q \o Copies(n, m), M[l].job)
      BY <1>2, <3>1, <3>3, PostedDecides
    <3>7. HasNonce(r, q \o Copies(n, m), M[l])
      BY <3>2, <3>3, PostedKeepsNonce DEF Follows
    <3> QED  BY <3>4, <3>5, <3>6, <3>7 DEF Follows
  <2> QED  BY <2>4, <2>5
<1> QED  BY <1>1, <1>2

\* A new extranonce of a subscription goes to every holder with it.
LEMMA NonceSound ==
  ASSUME NEW V, NEW s, NEW r, NEW q \in Seq(Messages), NEW M \in [Links -> LinkStates], NEW M2, NEW c, NEW w,
         NEW n \in Nat, NEW m \in Messages, NEW l0 \in Links,
         Sound(V, s, r, q, M, c, w),
         \A l \in Links : M2[l].subs = M[l].subs /\ M2[l].diff = M[l].diff /\ M2[l].job = M[l].job
                          /\ M2[l].first = M[l].first /\ (l # l0 => M2[l].en1 = M[l].en1),
         m.what = "extranonce", m.en1 = M2[l0].en1, M2[l0].en1 \in Nat,
         n > 0 <=> \E k \in Slots : M[l0].subs[k] = s
  PROVE  Sound(V, s, r, q \o Copies(n, m), M2, c, w)
<1>1. CASE n = 0
  <2>1. q \o Copies(n, m) = q
    BY <1>1, PostedNone
  <2>2. Kept(s, M, M2)
    BY <1>1 DEF Kept
  <2> QED  BY <2>1, <2>2, Untouched
<1>2. CASE n > 0
  <2>1. PICK k0 \in Slots : M[l0].subs[k0] = s
    BY <1>2
  <2> SUFFICES ASSUME r.open, ~r.twice
               PROVE  /\ Unattached(s, r, q \o Copies(n, m), M2)
                      /\ \A l \in Links, k \in Slots :
                           M2[l].subs[k] = s => Follows(r, q \o Copies(n, m), M2[l], c, l, k)
    BY PostedSound
  <2>2. Served(V, s, r, q, M, c)
    BY DEF Sound
  <2>3. Unattached(s, r, q, M)
    BY <2>2 DEF Served
  <2>4. Unattached(s, r, q \o Copies(n, m), M2)
    BY <2>1, <2>3 DEF Unattached
  <2>5. ASSUME NEW l \in Links, NEW k \in Slots, M2[l].subs[k] = s
        PROVE  Follows(r, q \o Copies(n, m), M2[l], c, l, k)
    <3>1. l = l0 /\ M[l].subs[k] = s
      BY <2>1, <2>2, <2>5, OneSlot, SMTT(40) DEF Single
    <3>2. Follows(r, q, M[l], c, l, k)
      BY <2>2, <3>1 DEF Served
    <3>3. m.what \notin Binds /\ m.what \notin Rates /\ m.what \notin Works /\ m.what \in Nonces
      BY DEF Binds, Rates, Works, Nonces
    <3>4. BoundTo(r, q \o Copies(n, m), l, k)
      BY <3>2, <3>3, PostedKeepsBinding DEF Follows
    <3>5. RatedAt(r, q \o Copies(n, m), M2[l].diff) \/ c = Cast("diff", l)
      BY <3>2, <3>3, PostedKeepsRate DEF Follows
    <3>6. M2[l].job # None => WorksOn(r, q \o Copies(n, m), M2[l].job) \/ c = Cast("job", l)
      BY <3>2, <3>3, PostedKeepsWork DEF Follows
    <3>7. HasNonce(r, q \o Copies(n, m), M2[l])
      <4>1. Current(m.en1, M2[l])
        BY <3>1 DEF Current
      <4> QED  BY <1>2, <3>3, <4>1, PostedDecides
    <3> QED  BY <3>4, <3>5, <3>6, <3>7 DEF Follows
  <2> QED  BY <2>4, <2>5
<1> QED  BY <1>1, <1>2

\* A new subscription goes to nobody: what the holders have is older.
LEMMA SubscriptionSound ==
  ASSUME NEW V, NEW s, NEW r \in SessionStates, NEW q \in Seq(Messages), NEW M \in [Links -> LinkStates], NEW M2,
         NEW c, NEW w, NEW l0 \in Links,
         Sound(V, s, r, q, M, c, w),
         \A l \in Links : M2[l].subs = M[l].subs /\ M2[l].diff = M[l].diff /\ M2[l].job = M[l].job
                          /\ (l # l0 => M2[l].first = M[l].first /\ M2[l].en1 = M[l].en1),
         M2[l0].en1 = M[l0].en1 + 1, M2[l0].first = M[l0].en1 + 1
  PROVE  Sound(V, s, r, q, M2, c, w)
<1>1. Served(V, s, r, q, M, c)
  BY DEF Sound
<1>2. ASSUME NEW e \in Nat, NEW l \in Links, Current(e, M[l])
      PROVE  Current(e, M2[l])
  <2>1. CASE l = l0
    <3>1. M[l].en1 \in Nat
      BY DEF LinkStates
    <3> QED  BY <1>2, <2>1, <3>1 DEF Current
  <2>2. CASE l # l0
    BY <1>2, <2>2 DEF Current
  <2> QED  BY <2>1, <2>2
<1>3. ASSUME NEW l \in Links, NEW k, Follows(r, q, M[l], c, l, k)
      PROVE  Follows(r, q, M2[l], c, l, k)
  <2>1. r.en1 \in Nat /\ \A i \in DOMAIN q : q[i].en1 \in Nat
    <3>1. \A i \in DOMAIN q : q[i] \in Messages
      OBVIOUS
    <3> QED  BY <3>1 DEF SessionStates, Messages
  <2>2. \A i : LastOf(q, Nonces, i) => i \in DOMAIN q
    BY DEF LastOf
  <2>3. HasNonce(r, q, M2[l])
    BY <1>2, <1>3, <2>1, <2>2 DEF Follows, HasNonce
  <2> QED  BY <1>3, <2>3 DEF Follows
<1>4. Served(V, s, r, q, M2, c)
  BY <1>1, <1>3 DEF Served, Unattached
<1> QED  BY <1>4 DEF Sound

(***************************************************************************)
(* Slots given and taken.                                                  *)
(***************************************************************************)

\* The links of M2 say what those of M say.
Says(M, M2) ==
  \A l \in Links : M2[l].diff = M[l].diff /\ M2[l].job = M[l].job /\ M2[l].en1 = M[l].en1 /\ M2[l].first = M[l].first

\* Slot k of link l erased, and the free slot f of link t given to s.
Erased(M, l, k) == [M EXCEPT ![l].subs[k] = Nobody]
Given(M, t, s) == [M EXCEPT ![t] = Allocate(M[t], s)]
FreeOf(link) == FreeSlot(link.subs, link.next)

\* The slots of M2 are those of M, but for one that s holds.
SlotSet(M, M2, l, k, s) ==
  \A j \in Links, i \in Slots : M2[j].subs[i] = IF j = l /\ i = k THEN s ELSE M[j].subs[i]

LEMMA SlotErased ==
  ASSUME NEW M \in [Links -> LinkStates], NEW l \in Links, NEW k
  PROVE  /\ Erased(M, l, k) \in [Links -> LinkStates] /\ Says(M, Erased(M, l, k))
         /\ \A j \in Links : j # l => Erased(M, l, k)[j] = M[j]
         /\ SlotSet(M, Erased(M, l, k), l, k, Nobody)
<1> DEFINE u == [M[l].subs EXCEPT ![k] = Nobody]
           x == [M[l] EXCEPT !.subs = u]
           g == [M EXCEPT ![l] = x]
<1>1. M[l] \in LinkStates
  OBVIOUS
<1>2. M[l].subs \in [Slots -> Sessions \cup {Nobody}]
  BY <1>1 DEF LinkStates
<1>3. u \in [Slots -> Sessions \cup {Nobody}] /\ \A i \in Slots : u[i] = IF i = k THEN Nobody ELSE M[l].subs[i]
  BY <1>2
<1> HIDE DEF u
<1>4. x \in LinkStates
  BY <1>1, <1>3, ZenonT(60) DEF LinkStates
<1>5. x.subs = u /\ x.diff = M[l].diff /\ x.job = M[l].job /\ x.en1 = M[l].en1 /\ x.first = M[l].first
  BY <1>1 DEF LinkStates
<1> HIDE DEF x
<1>6. g \in [Links -> LinkStates] /\ g[l] = x /\ \A j \in Links : j # l => g[j] = M[j]
  BY <1>4
<1> HIDE DEF g
<1>7. Says(M, g)
  BY <1>5, <1>6 DEF Says
<1>8. SlotSet(M, g, l, k, Nobody)
  BY <1>3, <1>5, <1>6 DEF SlotSet
<1>9. g = Erased(M, l, k)
  BY DEF g, x, u, Erased
<1> QED  BY <1>6, <1>7, <1>8, <1>9

LEMMA SlotGiven ==
  ASSUME NEW M \in [Links -> LinkStates], NEW t \in Links, NEW s \in Sessions \cup {Nobody},
         Cardinality(Taken(M[t].subs)) < Span
  PROVE  /\ FreeOf(M[t]) \in Slots /\ M[t].subs[FreeOf(M[t])] = Nobody
         /\ Given(M, t, s) \in [Links -> LinkStates] /\ Says(M, Given(M, t, s))
         /\ SlotSet(M, Given(M, t, s), t, FreeOf(M[t]), s)
<1> DEFINE f == FreeOf(M[t])
           n == (f + 1) % Span
           u == [M[t].subs EXCEPT ![f] = s]
           x == [[M[t] EXCEPT !.subs = u] EXCEPT !.next = n]
           g == [M EXCEPT ![t] = x]
<1>1. M[t] \in LinkStates
  OBVIOUS
<1>2. M[t].subs \in [Slots -> Sessions \cup {Nobody}] /\ M[t].next \in Slots
  BY <1>1 DEF LinkStates
<1>3. f \in Slots /\ M[t].subs[f] = Nobody
  BY <1>2, FreeSlotIsFree DEF FreeOf
<1> HIDE DEF f
<1>4. n \in Slots
  <2>1. f + 1 \in Int /\ Span \in Nat /\ Span > 0
    BY <1>3, Constants
  <2> QED  BY <2>1 DEF Slots
<1>5. u \in [Slots -> Sessions \cup {Nobody}] /\ \A i \in Slots : u[i] = IF i = f THEN s ELSE M[t].subs[i]
  BY <1>2
<1> HIDE DEF u, n
<1>6. x \in LinkStates
  BY <1>1, <1>4, <1>5, ZenonT(60) DEF LinkStates
<1>7. x.subs = u /\ x.diff = M[t].diff /\ x.job = M[t].job /\ x.en1 = M[t].en1 /\ x.first = M[t].first
  BY <1>1 DEF LinkStates
<1>8. x = Allocate(M[t], s)
  BY DEF Allocate, u, f, n, FreeOf
<1> HIDE DEF x
<1>9. g \in [Links -> LinkStates] /\ g[t] = x /\ \A j \in Links : j # t => g[j] = M[j]
  BY <1>6
<1> HIDE DEF g
<1>10. Says(M, g)
  BY <1>7, <1>9 DEF Says
<1>11. SlotSet(M, g, t, f, s)
  BY <1>5, <1>7, <1>9 DEF SlotSet
<1>12. g = Given(M, t, s)
  BY <1>8 DEF g, Given
<1> QED  BY <1>3, <1>9, <1>10, <1>11, <1>12 DEF f

(***************************************************************************)
(* The migration.                                                          *)
(***************************************************************************)

\* A session has been left alone, or lost its slots; or it has been moved from a slot of
\* l to the one it now holds, and told so once.
Stays(s, M, a) == a.posts[s] = << >> /\ \A j \in Links, i \in Slots : a.links[j].subs[i] = s => M[j].subs[i] = s
Moves(s, l, M, a) ==
  \E t \in Links, k \in Slots :
    /\ t # l /\ \E i \in Slots : M[l].subs[i] = s
    /\ a.posts[s] = Copies(1, Rebinding(s, t, k))
    /\ \A j \in Links, i \in Slots : a.links[j].subs[i] = s => j = t /\ i = k

Moving(l, M, a) ==
  /\ a = [links |-> a.links, posts |-> a.posts]
  /\ a.links \in [Links -> LinkStates] /\ a.posts \in [Sessions -> Seq(Messages)]
  /\ Says(M, a.links)
  /\ \A s \in Sessions : \A i \in DOMAIN a.posts[s] : a.posts[s][i].what = "rebind"
  /\ \A s \in Sessions : Single(s, M) => Stays(s, M, a) \/ Moves(s, l, M, a)

LEMMA MovingStarts ==
  ASSUME NEW l, NEW M \in [Links -> LinkStates]
  PROVE  Moving(l, M, [links |-> M, posts |-> [s \in Sessions |-> << >>]])
<1> DEFINE a == [links |-> M, posts |-> [s \in Sessions |-> << >>]]
<1>1. a = [links |-> a.links, posts |-> a.posts] /\ a.links = M /\ \A s \in Sessions : a.posts[s] = << >>
  OBVIOUS
<1>2. a.posts \in [Sessions -> Seq(Messages)]
  OBVIOUS
<1> HIDE DEF a
<1>3. Says(M, a.links)
  BY <1>1 DEF Says
<1>4. \A s \in Sessions : Stays(s, M, a)
  BY <1>1 DEF Stays
<1>5. Moving(l, M, a)
  BY <1>1, <1>2, <1>3, <1>4 DEF Moving
<1> QED  BY <1>5 DEF a

LEMMA MovingGoesOn ==
  ASSUME L \in [Links -> LinkStates],
         NEW l \in Links, NEW M \in [Links -> LinkStates], NEW a, Moving(l, M, a), NEW k \in Slots,
         NEW target, target # None => target \in Links \ {l}
  PROVE  Moving(l, M, MoveOne(l, target, a, k))
<1> DEFINE s == a.links[l].subs[k]
           t == IF mode = "activeactive" THEN Target(l, a.links) ELSE target
           g == Erased(a.links, l, k)
<1>1. /\ a = [links |-> a.links, posts |-> a.posts]
      /\ a.links \in [Links -> LinkStates] /\ a.posts \in [Sessions -> Seq(Messages)]
      /\ Says(M, a.links)
      /\ \A x \in Sessions : \A i \in DOMAIN a.posts[x] : a.posts[x][i].what = "rebind"
      /\ \A x \in Sessions : Single(x, M) => Stays(x, M, a) \/ Moves(x, l, M, a)
  BY DEF Moving
<1>2. s \in Sessions \cup {Nobody}
  <2>1. a.links[l] \in LinkStates
    BY <1>1
  <2> QED  BY <2>1 DEF LinkStates
<1>3. t # None => t \in Links \ {l}
  BY TargetIsElsewhere
<1>4. /\ g \in [Links -> LinkStates] /\ Says(a.links, g)
      /\ \A j \in Links : j # l => g[j] = a.links[j]
      /\ SlotSet(a.links, g, l, k, Nobody)
  BY <1>1, SlotErased
<1>5. Nobody \notin Sessions
  BY Constants
<1>6. CASE ~Alive(s)
  <2> DEFINE b == [links |-> g, posts |-> a.posts]
  <2>1. MoveOne(l, target, a, k) = b
    <3>1. MoveOne(l, target, a, k) = [a EXCEPT !.links = g]
      BY <1>6, Zenon DEF MoveOne, Erased
    <3> HIDE DEF g
    <3> QED  BY <1>1, <3>1
  <2>2. b = [links |-> b.links, posts |-> b.posts] /\ b.links = g /\ b.posts = a.posts
    OBVIOUS
  <2> HIDE DEF b, g
  <2>3. Says(M, b.links)
    BY <1>1, <1>4, <2>2 DEF Says
  <2>4. ASSUME NEW x \in Sessions, Single(x, M)
        PROVE  Stays(x, M, b) \/ Moves(x, l, M, b)
    <3>1. CASE Stays(x, M, a)
      BY <1>4, <1>5, <2>2, <3>1 DEF Stays, SlotSet
    <3>2. CASE Moves(x, l, M, a)
      BY <1>4, <1>5, <2>2, <3>2, SMTT(40) DEF Moves, SlotSet
    <3> QED  BY <1>1, <2>4, <3>1, <3>2
  <2>5. Moving(l, M, b)
    BY <1>1, <1>4, <2>2, <2>3, <2>4 DEF Moving
  <2> QED  BY <2>1, <2>5
<1>7. CASE Alive(s) /\ (t = None \/ ~ReadyWith(t, a.links[t].subs))
  <2>1. MoveOne(l, target, a, k) = a
    BY <1>7, Zenon DEF MoveOne
  <2> QED  BY <2>1
<1>8. CASE Alive(s) /\ t # None /\ ReadyWith(t, a.links[t].subs)
  <2> DEFINE f == FreeOf(g[t])
             h == Given(g, t, s)
             m == Rebinding(s, t, f)
             p == [a.posts EXCEPT ![s] = Append(a.posts[s], m)]
             b == [links |-> h, posts |-> p]
  <2>1. MoveOne(l, target, a, k) = b
    BY <1>8, Zenon DEF MoveOne, Erased, Given, FreeOf
  <2>2. t \in Links /\ t # l /\ g[t] = a.links[t]
    BY <1>3, <1>4, <1>8
  <2>3. Cardinality(Taken(g[t].subs)) < Span
    BY <1>8, <2>2 DEF ReadyWith
  <2> HIDE DEF g, s, t
  <2>4. /\ f \in Slots /\ g[t].subs[f] = Nobody
        /\ h \in [Links -> LinkStates] /\ Says(g, h)
        /\ SlotSet(g, h, t, f, s)
    BY <1>2, <1>4, <2>2, <2>3, SlotGiven
  <2> HIDE DEF f, h
  <2>5. m \in Messages /\ m.what = "rebind"
    BY <2>2, <2>4, RebindingType
  <2>6. b = [links |-> b.links, posts |-> b.posts] /\ b.links = h /\ b.posts = p
    OBVIOUS
  <2> HIDE DEF b
  <2>7. /\ p \in [Sessions -> Seq(Messages)]
        /\ \A x \in Sessions : p[x] = IF x = s THEN Append(a.posts[x], m) ELSE a.posts[x]
    <3> HIDE DEF m
    <3>1. s \in Sessions => Append(a.posts[s], m) \in Seq(Messages)
      BY <1>1, <2>5
    <3> QED  BY <1>1, <3>1
  <2>8. \A x \in Sessions : \A i \in DOMAIN p[x] : p[x][i].what = "rebind"
    <3> SUFFICES ASSUME NEW x \in Sessions, NEW i \in DOMAIN p[x] PROVE p[x][i].what = "rebind"
      OBVIOUS
    <3>1. CASE x # s
      BY <1>1, <2>7, <3>1
    <3>2. CASE x = s
      <4> DEFINE e == a.posts[x]
      <4>1. e \in Seq(Messages) /\ \A y \in DOMAIN e : e[y].what = "rebind"
        BY <1>1
      <4>2. p[x] = Append(e, m)
        BY <2>7, <3>2
      <4> HIDE DEF e, m, p
      <4>3. DOMAIN Append(e, m) = 1..(Len(e) + 1) /\ Append(e, m)[Len(e) + 1] = m
             /\ \A y \in 1..Len(e) : Append(e, m)[y] = e[y] /\ y \in DOMAIN e
        BY <4>1, <2>5
      <4>4. Len(e) \in Nat
        BY <4>1
      <4>5. i \in 1..Len(e) \/ i = Len(e) + 1
        BY <4>2, <4>3, <4>4
      <4> QED  BY <2>5, <4>1, <4>2, <4>3, <4>5
    <3> QED  BY <3>1, <3>2
  <2> HIDE DEF p
  <2>9. Says(M, b.links)
    BY <1>1, <1>4, <2>4, <2>6 DEF Says
  <2>10. ASSUME NEW x \in Sessions, Single(x, M)
         PROVE  Stays(x, M, b) \/ Moves(x, l, M, b)
    <3>1. CASE x # s
      <4>1. p[x] = a.posts[x] /\ \A j \in Links, i \in Slots : h[j].subs[i] = x => a.links[j].subs[i] = x
        BY <1>4, <1>5, <2>4, <2>7, <3>1 DEF SlotSet
      <4>2. CASE Stays(x, M, a)
        BY <2>6, <4>1, <4>2 DEF Stays
      <4>3. CASE Moves(x, l, M, a)
        BY <2>6, <4>1, <4>3 DEF Moves
      <4> QED  BY <1>1, <2>10, <4>2, <4>3
    <3>2. CASE x = s
      <4>1. a.links[l].subs[k] = x
        BY <3>2 DEF s
      <4>2. Stays(x, M, a)
        <5>1. ~Moves(x, l, M, a)
          BY <4>1 DEF Moves
        <5> QED  BY <1>1, <2>10, <5>1
      <4>3. M[l].subs[k] = x /\ \A j \in Links, i \in Slots : a.links[j].subs[i] = x => j = l /\ i = k
        BY <2>10, <4>1, <4>2 DEF Stays, Single
      <4>4. \A j \in Links, i \in Slots : g[j].subs[i] # x
        BY <1>4, <1>5, <4>3 DEF SlotSet
      <4>5. \A j \in Links, i \in Slots : h[j].subs[i] = x => j = t /\ i = f
        BY <2>4, <4>4 DEF SlotSet
      <4>6. p[x] = Copies(1, m)
        <5>1. p[x] = Append(<< >>, m)
          BY <2>7, <3>2, <4>2 DEF Stays
        <5> QED  BY <5>1 DEF Copies
      <4>7. m = Rebinding(x, t, f)
        BY <3>2
      <4> HIDE DEF m
      <4>8. Moves(x, l, M, b)
        BY <2>2, <2>4, <2>6, <4>3, <4>5, <4>6, <4>7 DEF Moves
      <4> QED  BY <4>8
    <3> QED  BY <3>1, <3>2
  <2>11. Moving(l, M, b)
    BY <2>4, <2>6, <2>7, <2>8, <2>9, <2>10 DEF Moving
  <2> QED  BY <2>1, <2>11
<1> QED  BY <1>6, <1>7, <1>8

\* f holds what has become of the links and the posts after each of the first m
\* subscribers of l.
MovingRun(l, order, M, m, f) ==
  f = [i \in 0..m |-> IF i = 0 THEN [links |-> M, posts |-> [s \in Sessions |-> << >>]]
                      ELSE MoveOne(l, Target(l, M), f[i - 1], order[i])]

LEMMA MovingRunExists ==
  ASSUME NEW l, NEW order, NEW M, NEW m \in Nat
  PROVE  \E f : MovingRun(l, order, M, m, f)
<1> DEFINE start == [links |-> M, posts |-> [s \in Sessions |-> << >>]]
           target == Target(l, M)
           T == {n \in Nat : \E f : MovingRun(l, order, M, n, f)}
<1> HIDE DEF start, target
<1>0. \A n, f : MovingRun(l, order, M, n, f)
                  <=> f = [i \in 0..n |-> IF i = 0 THEN start ELSE MoveOne(l, target, f[i - 1], order[i])]
  BY DEF MovingRun, start, target
<1>1. 0 \in T
  <2> DEFINE f == [i \in 0..0 |-> start]
  <2>1. f = [i \in 0..0 |-> IF i = 0 THEN start ELSE MoveOne(l, target, f[i - 1], order[i])]
    OBVIOUS
  <2> HIDE DEF f
  <2> QED  BY <1>0, <2>1
<1>2. ASSUME NEW n \in Nat, n \in T
      PROVE  n + 1 \in T
  <2>1. PICK f : MovingRun(l, order, M, n, f)
    BY <1>2
  <2> DEFINE last == MoveOne(l, target, f[n], order[n + 1])
             g == [i \in 0..n + 1 |-> IF i = n + 1 THEN last ELSE f[i]]
  <2> HIDE DEF last
  <2>2. \A i \in 0..n : g[i] = f[i] /\ i \in 0..n + 1
    OBVIOUS
  <2>3. g[n + 1] = last /\ n \in 0..n /\ (n + 1) - 1 = n /\ n + 1 # 0
    OBVIOUS
  <2>4. f = [i \in 0..n |-> IF i = 0 THEN start ELSE MoveOne(l, target, f[i - 1], order[i])]
    BY <1>0, <2>1
  <2>5. DOMAIN g = 0..n + 1 /\ g = [i \in DOMAIN g |-> g[i]]
    OBVIOUS
  <2> HIDE DEF g
  <2>6. ASSUME NEW i \in 0..n + 1
        PROVE  g[i] = IF i = 0 THEN start ELSE MoveOne(l, target, g[i - 1], order[i])
    <3>1. CASE i = n + 1
      BY <2>2, <2>3, <3>1 DEF last
    <3>2. CASE i # n + 1
      <4>1. i \in 0..n /\ (i # 0 => i - 1 \in 0..n)
        BY <3>2
      <4>2. f[i] = IF i = 0 THEN start ELSE MoveOne(l, target, f[i - 1], order[i])
        BY <2>4, <4>1
      <4> QED  BY <2>2, <4>1, <4>2
    <3> QED  BY <3>1, <3>2
  <2>7. g = [i \in 0..n + 1 |-> IF i = 0 THEN start ELSE MoveOne(l, target, g[i - 1], order[i])]
    BY <2>5, <2>6
  <2>8. MovingRun(l, order, M, n + 1, g)
    BY <1>0, <2>7
  <2> QED  BY <2>8
<1>3. T = Nat
  <2> HIDE DEF T
  <2>1. T \subseteq Nat
    BY DEF T
  <2> QED  BY <1>1, <1>2, <2>1, CountingUp
<1> QED  BY <1>3

LEMMA AllMoved ==
  ASSUME L \in [Links -> LinkStates], NEW l \in Links, NEW M \in [Links -> LinkStates],
         NEW order \in SetToSeqs(Taken(M[l].subs))
  PROVE  Moving(l, M, MoveAll(l, order, M))
<1> DEFINE m == Len(order)
           f == CHOOSE f : MovingRun(l, order, M, m, f)
           start == [links |-> M, posts |-> [s \in Sessions |-> << >>]]
           target == Target(l, M)
           T == {n \in Nat : n <= m => Moving(l, M, f[n])}
<1>1. MoveAll(l, order, M) = f[m]
  BY Zenon DEF MoveAll, MovingRun
<1>2. m \in Nat /\ \A i \in 1..m : order[i] \in Slots
  <2> DEFINE n == Cardinality(Taken(M[l].subs))
  <2>1. n \in Nat
    BY TakenCounted
  <2> HIDE DEF n
  <2>2. order \in [1..n -> Taken(M[l].subs)]
    BY DEF SetToSeqs, n
  <2>3. order \in Seq(Taken(M[l].subs)) /\ Len(order) = n
    BY <2>1, <2>2, SeqDef
  <2> QED  BY <2>1, <2>2, <2>3 DEF Taken
<1> HIDE DEF m
<1>3. MovingRun(l, order, M, m, f)
  BY <1>2, MovingRunExists
<1> HIDE DEF f, start, target
<1>4. f = [i \in 0..m |-> IF i = 0 THEN start ELSE MoveOne(l, target, f[i - 1], order[i])]
  BY <1>3 DEF MovingRun, start, target
<1>5. 0 \in T
  <2>1. f[0] = start
    BY <1>2, <1>4
  <2> QED  BY <2>1, MovingStarts DEF start
<1>6. ASSUME NEW n \in Nat, n \in T
      PROVE  n + 1 \in T
  <2>1. CASE n + 1 <= m
    <3>1. n <= m /\ n + 1 \in 0..m /\ n + 1 \in 1..m /\ n + 1 # 0 /\ (n + 1) - 1 = n
      BY <1>2, <2>1
    <3>2. Moving(l, M, f[n])
      BY <1>6, <3>1
    <3>3. f[n + 1] = MoveOne(l, target, f[n], order[n + 1])
      BY <1>4, <3>1
    <3>4. order[n + 1] \in Slots /\ (target # None => target \in Links \ {l})
      BY <1>2, <3>1, TargetIsElsewhere DEF target
    <3> QED  BY <3>2, <3>3, <3>4, MovingGoesOn
  <2>2. CASE ~(n + 1 <= m)
    BY <2>2
  <2> QED  BY <2>1, <2>2
<1>7. T = Nat
  <2> HIDE DEF T
  <2>1. T \subseteq Nat
    BY DEF T
  <2> QED  BY <1>5, <1>6, <2>1, CountingUp
<1>8. m <= m /\ m \in T
  BY <1>2, <1>7
<1> QED  BY <1>1, <1>8

\* A session after the migration.
LEMMA MovedSound ==
  ASSUME L \in [Links -> LinkStates], NEW l \in Links, NEW M, NEW a, Moving(l, M, a),
         Says(L, M), \A j \in Links : M[j].subs = L[j].subs,
         NEW V, NEW s \in Sessions, NEW r, NEW q \in Seq(Messages), NEW c, NEW w, Sound(V, s, r, q, L, c, w)
  PROVE  Sound(V, s, r, q \o a.posts[s], a.links, c, w)
<1> DEFINE p == a.posts[s]
<1>1. p \in Seq(Messages) /\ Says(L, a.links) /\ \A i \in DOMAIN p : p[i].what = "rebind"
  <2>1. a.posts \in [Sessions -> Seq(Messages)] /\ Says(M, a.links)
        /\ \A x \in Sessions : \A i \in DOMAIN a.posts[x] : a.posts[x][i].what = "rebind"
    BY DEF Moving
  <2> QED  BY <2>1 DEF Says
<1>2. Standing(V, s, r) /\ Named(q) /\ Waiting(V, s, r, q, w) /\ Served(V, s, r, q, L, c)
  BY DEF Sound
<1>3. CASE r.open /\ ~r.twice
  <2>1. Single(s, M)
    <3>1. Single(s, L)
      BY <1>2, <1>3, OneSlot
    <3> QED  BY <3>1 DEF Single
  <2>2. CASE Stays(s, M, a)
    <3>1. q \o p = q
      BY <2>2 DEF Stays
    <3>2. Kept(s, L, a.links)
      BY <1>1, <2>2 DEF Stays, Kept, Says
    <3> QED  BY <3>1, <3>2, Untouched
  <2>3. CASE Moves(s, l, M, a)
    <3>1. PICK t \in Links, k \in Slots :
            /\ t # l /\ \E i \in Slots : M[l].subs[i] = s
            /\ p = Copies(1, Rebinding(s, t, k))
            /\ \A j \in Links, i \in Slots : a.links[j].subs[i] = s => j = t /\ i = k
      BY <2>3 DEF Moves
    <3> DEFINE m == Rebinding(s, t, k)
    <3>2. /\ m \in Messages /\ m.what = "rebind" /\ m.link = t /\ m.slot = k
          /\ m.en1 = L[t].en1 /\ m.job = L[t].job /\ m.diff = L[t].diff
      BY RebindingType
    <3>3. p = Copies(1, m)
      BY <3>1
    <3> HIDE DEF p, m
    <3>4. r.sub \/ r.pc = "read"
      BY <1>2, <1>3, <3>1 DEF Served, Unattached
    <3>5. ASSUME NEW j \in Links, NEW i \in Slots, a.links[j].subs[i] = s
          PROVE  Follows(r, q \o Copies(1, m), a.links[j], c, j, i)
      <4>1. j = t /\ i = k
        BY <3>1, <3>5
      <4>2. m.what \in Binds /\ m.what \in Rates /\ m.what \in Works /\ m.what \in Nonces
        BY <3>2 DEF Binds, Rates, Works, Nonces
      <4>3. Current(m.en1, a.links[j])
        <5>1. L[t].en1 \in Nat /\ a.links[j].en1 = L[t].en1
          BY <1>1, <4>1 DEF LinkStates, Says
        <5> QED  BY <3>2, <5>1 DEF Current
      <4>4. a.links[j].diff = m.diff /\ a.links[j].job = m.job
        BY <1>1, <3>2, <4>1 DEF Says
      <4>5. /\ BoundTo(r, q \o Copies(1, m), j, i)
            /\ RatedAt(r, q \o Copies(1, m), a.links[j].diff)
            /\ WorksOn(r, q \o Copies(1, m), a.links[j].job)
            /\ HasNonce(r, q \o Copies(1, m), a.links[j])
        BY <3>2, <4>1, <4>2, <4>3, <4>4, PostedDecides, SMTT(40)
      <4> QED  BY <4>5 DEF Follows
    <3>6. Unattached(s, r, q \o Copies(1, m), a.links)
      BY <3>4 DEF Unattached
    <3>7. Sound(V, s, r, q \o Copies(1, m), a.links, c, w)
      BY <3>2, <3>5, <3>6, PostedSound
    <3> QED  BY <3>3, <3>7 DEF p
  <2> QED  BY <2>1, <2>2, <2>3 DEF Moving
<1>4. CASE ~(r.open /\ ~r.twice)
  <2> HIDE DEF p
  <2>1. /\ \A i \in DOMAIN q : i \in DOMAIN (q \o p) /\ (q \o p)[i] = q[i]
        /\ \A i \in DOMAIN (q \o p) : i \in DOMAIN q \/ (q \o p)[i].what = "rebind"
    <3>1. \A i \in DOMAIN q : i \in DOMAIN (q \o p) /\ (q \o p)[i] = q[i]
      BY <1>1
    <3>2. ASSUME NEW i \in DOMAIN (q \o p), i \notin DOMAIN q
          PROVE  (q \o p)[i].what = "rebind"
      <4>1. i - Len(q) \in DOMAIN p /\ (q \o p)[i] = p[i - Len(q)]
        BY <1>1, <3>2
      <4> QED  BY <1>1, <4>1
    <3> QED  BY <3>1, <3>2
  <2> DEFINE u == q \o p
  <2> HIDE DEF u
  <2>2. Named(u)
    BY <1>2, <2>1 DEF Named, u
  <2>3. Waiting(V, s, r, u, w)
    BY <1>2, <2>1 DEF Waiting, u
  <2>4. Served(V, s, r, u, a.links, c)
    BY <1>4 DEF Served
  <2>5. Sound(V, s, r, u, a.links, c, w)
    BY <1>2, <2>2, <2>3, <2>4 DEF Sound
  <2> QED  BY <2>5 DEF u, p
<1> QED  BY <1>3, <1>4

(***************************************************************************)
(* A posted handler run.                                                   *)
(***************************************************************************)

\* What handler m leaves session r with.
HeardBy(r, m, r2) ==
  /\ IF m.what \in Binds THEN r2.link = m.link /\ r2.slot = m.slot ELSE r2.link = r.link /\ r2.slot = r.slot
  /\ IF m.what \in Rates THEN r2.diff = m.diff ELSE r2.diff = r.diff
  /\ IF m.what \in Works /\ m.job # None THEN r2.job = m.job ELSE r2.job = r.job
  /\ IF m.what \in Nonces THEN r2.en1 = m.en1 ELSE r2.en1 = r.en1

LEMMA HeardFollows ==
  ASSUME NEW r, NEW r2, NEW q \in Seq(Messages), q # << >>, NEW link, NEW c, NEW l, NEW k,
         Follows(r, q, link, c, l, k), r.pc = "idle", HeardBy(r, Head(q), r2)
  PROVE  Follows(r2, Tail(q), link, c, l, k)
<1> DEFINE t == Tail(q)
           m == Head(q)
<1>1. ASSUME NEW K
      PROVE  /\ NoneOf(t, K) => IF m.what \in K THEN LastOf(q, K, 1) /\ q[1] = m ELSE NoneOf(q, K)
             /\ \A i : LastOf(t, K, i) => LastOf(q, K, i + 1) /\ t[i] = q[i + 1]
  <2>1. q[1] = m
    BY Popped
  <2> QED  BY <2>1, PoppedLast
<1> HIDE DEF t, m
<1>2. HeardBy(r, m, r2)
  BY DEF m
<1>3. BoundTo(r2, t, l, k)
  <2>1. BoundTo(r, q, l, k)
    BY DEF Follows
  <2>2. NoneOf(t, Binds) => r2.link = l /\ r2.slot = k
    BY <1>1, <1>2, <2>1 DEF BoundTo, HeardBy
  <2> QED  BY <1>1, <2>1, <2>2 DEF BoundTo
<1>4. ASSUME NEW d, RatedAt(r, q, d)
      PROVE  RatedAt(r2, t, d)
  <2>1. NoneOf(t, Rates) => r2.diff = d
    BY <1>1, <1>2, <1>4 DEF RatedAt, HeardBy
  <2> QED  BY <1>1, <1>4, <2>1 DEF RatedAt
<1>5. ASSUME NEW j, j # None, WorksOn(r, q, j)
      PROVE  WorksOn(r2, t, j)
  <2>1. NoneOf(t, Works) => r2.job = j
    BY <1>1, <1>2, <1>5 DEF WorksOn, HeardBy
  <2> QED  BY <1>1, <1>5, <2>1 DEF WorksOn
<1>6. HasNonce(r2, t, link)
  <2>1. HasNonce(r, q, link)
    BY DEF Follows
  <2>2. NoneOf(t, Nonces) => Current(r2.en1, link)
    BY <1>1, <1>2, <2>1 DEF HasNonce, HeardBy
  <2> QED  BY <1>1, <2>1, <2>2 DEF HasNonce
<1>7. Follows(r2, t, link, c, l, k)
  BY <1>3, <1>4, <1>5, <1>6 DEF Follows
<1> QED  BY <1>7 DEF t

LEMMA HeardSound ==
  ASSUME NEW V, NEW s, NEW r, NEW r2, NEW q \in Seq(Messages), q # << >>, NEW M, NEW c, NEW w,
         Sound(V, s, r, q, M, c, w), r.open, r.pc = "idle", HeardBy(r, Head(q), r2),
         r2.open = r.open, r2.sub = r.sub, r2.twice = r.twice, r2.pend = r.pend, Standing(V, s, r2),
         Head(q).what = "up" /\ r2.pend /\ ~(s \in V /\ r2.sub) => r2.pc # "idle",
         Unattached(s, r, q, M) /\ Told(V, s, r) => Told(V, s, r2)
  PROVE  Sound(V, s, r2, Tail(q), M, c, w)
<1> DEFINE t == Tail(q)
<1>1. /\ 1 \in DOMAIN q /\ Head(q) = q[1]
      /\ \A i \in DOMAIN t : i \in Nat /\ i + 1 \in DOMAIN q /\ t[i] = q[i + 1]
      /\ \A i \in DOMAIN q : i # 1 => i - 1 \in DOMAIN t /\ t[i - 1] = q[i]
  BY Popped
<1>2. Standing(V, s, r) /\ Named(q) /\ Waiting(V, s, r, q, w) /\ Served(V, s, r, q, M, c)
  BY DEF Sound
<1>3. ASSUME NEW l, NEW k, Follows(r, q, M[l], c, l, k)
      PROVE  Follows(r2, t, M[l], c, l, k)
  BY <1>3, HeardFollows
<1> HIDE DEF t
<1>4. Named(t)
  BY <1>1, <1>2 DEF Named
<1>5. Waiting(V, s, r2, t, w)
  <2> SUFFICES ASSUME r2.open, r2.pend, ~(s \in V /\ r2.sub), ~\E i \in DOMAIN w : w[i] = s, r2.pc = "idle"
               PROVE  \E i \in DOMAIN t : t[i].what = "up"
    BY DEF Waiting
  <2>1. PICK i \in DOMAIN q : q[i].what = "up"
    BY <1>2 DEF Waiting
  <2>2. i # 1
    BY <1>1, <2>1
  <2> QED  BY <1>1, <2>1, <2>2
<1>6. Served(V, s, r2, t, M, c)
  <2> SUFFICES ASSUME r2.open, ~r2.twice
               PROVE  /\ Unattached(s, r2, t, M)
                      /\ \A l \in Links, k \in Slots : M[l].subs[k] = s => Follows(r2, t, M[l], c, l, k)
                      /\ Told(V, s, r2)
    BY DEF Served
  <2>1. Unattached(s, r, q, M) /\ Told(V, s, r)
    BY <1>2 DEF Served
  <2>2. Unattached(s, r2, t, M)
    BY <1>1, <2>1 DEF Unattached
  <2>3. ASSUME NEW l \in Links, NEW k \in Slots, M[l].subs[k] = s
        PROVE  Follows(r2, t, M[l], c, l, k)
    BY <1>2, <1>3, <2>3 DEF Served
  <2> QED  BY <2>1, <2>2, <2>3
<1>7. Sound(V, s, r2, t, M, c, w)
  BY <1>4, <1>5, <1>6 DEF Sound
<1> QED  BY <1>7 DEF t

\* What no handler but the word that a link is up changes.
SameBody(r, r2) ==
  r2.open = r.open /\ r2.pc = r.pc /\ r2.sub = r.sub /\ r2.auth = r.auth /\ r2.pend = r.pend /\ r2.twice = r.twice

LEMMA Emitted ==
  ASSUME NEW r \in SessionStates
  PROVE  /\ Emit(r) \in SessionStates /\ SameBody(r, Emit(r))
         /\ Emit(r).link = r.link /\ Emit(r).slot = r.slot /\ Emit(r).diff = r.diff /\ Emit(r).en1 = r.en1
         /\ Emit(r).job = r.job
         /\ r.job = None => Emit(r).told = r.told
         /\ r.job # None => Emit(r).told = r.job
<1>1. CASE r.job = None
  BY <1>1 DEF Emit, SameBody
<1>2. CASE r.job # None
  <2> DEFINE j == r.job
             e == [r EXCEPT !.told = j]
  <2>1. Emit(r) = e
    BY <1>2 DEF Emit
  <2>2. j \in 0..MaxUp
    BY DEF SessionStates
  <2>3. e \in SessionStates
    <3> HIDE DEF j
    <3> QED  BY <2>2, ZenonT(60) DEF SessionStates
  <2>4. /\ SameBody(r, e) /\ e.link = r.link /\ e.slot = r.slot /\ e.diff = r.diff /\ e.en1 = r.en1
        /\ e.job = r.job /\ e.told = j
    BY DEF SessionStates, SameBody
  <2> QED  BY <1>2, <2>1, <2>3, <2>4
<1> QED  BY <1>1, <1>2

LEMMA JobHeard ==
  ASSUME NEW V, NEW s, NEW r \in SessionStates, NEW m \in Messages, m.what = "job", m.job # None, r.pc = "idle",
         Standing(V, s, r), NEW r2, r2 = IF s \in V THEN OnJobV2(r, m) ELSE OnJob(r, m)
  PROVE  r2 \in SessionStates /\ SameBody(r, r2) /\ HeardBy(r, m, r2) /\ (Told(V, s, r) => Told(V, s, r2))
<1> DEFINE j == m.job
           k == [r EXCEPT !.job = j]
<1>1. j \in 0..MaxUp /\ j # None
  BY DEF Messages
<1>2. k \in SessionStates
  <2> HIDE DEF j
  <2> QED  BY <1>1, ZenonT(60) DEF SessionStates
<1>3. /\ SameBody(r, k) /\ k.link = r.link /\ k.slot = r.slot /\ k.diff = r.diff /\ k.en1 = r.en1
      /\ k.job = j /\ k.told = r.told
  BY DEF SessionStates, SameBody
<1>4. r2 = k \/ r2 = Emit(k)
  BY DEF OnJob, OnJobV2, EmitV2
<1>5. (IF s \in V THEN r.sub ELSE r.sub /\ r.auth) => r2 = Emit(k)
  <2> HIDE DEF k
  <2>1. k.sub = r.sub /\ k.auth = r.auth
    BY <1>3 DEF SameBody
  <2> QED  BY <2>1 DEF OnJob, OnJobV2, EmitV2, k
<1>6. m.what \notin Binds /\ m.what \notin Rates /\ m.what \in Works /\ m.what \notin Nonces
  BY DEF Binds, Rates, Works, Nonces
<1> HIDE DEF k, j
<1>7. /\ Emit(k) \in SessionStates /\ SameBody(k, Emit(k))
      /\ Emit(k).link = k.link /\ Emit(k).slot = k.slot /\ Emit(k).diff = k.diff /\ Emit(k).en1 = k.en1
      /\ Emit(k).job = k.job /\ Emit(k).told = k.job
  BY <1>1, <1>2, <1>3, Emitted
<1>8. r2 \in SessionStates /\ SameBody(r, r2)
  BY <1>2, <1>3, <1>4, <1>7 DEF SameBody
<1>9. HeardBy(r, m, r2)
  BY <1>1, <1>3, <1>4, <1>6, <1>7 DEF HeardBy, j
<1>10. Told(V, s, r) => Told(V, s, r2)
  <2>1. r2.sub = r.sub /\ r2.auth = r.auth /\ r2.job = j /\ (r2.told = r.told \/ r2.told = j)
    BY <1>3, <1>4, <1>7, <1>8 DEF SameBody
  <2>2. (IF s \in V THEN r.sub ELSE r.sub /\ r.auth) => r2.told = j
    BY <1>3, <1>5, <1>7
  <2>3. s \notin V /\ ~r.sub => r2 = k
    <3>1. k.sub = r.sub
      BY <1>3 DEF SameBody
    <3> QED  BY <3>1 DEF OnJob, k, j
  <2> QED  BY <1>1, <1>3, <2>1, <2>2, <2>3 DEF Told
<1> QED  BY <1>8, <1>9, <1>10

LEMMA NonceHeard ==
  ASSUME NEW V, NEW s, NEW r \in SessionStates, NEW m \in Messages, m.what = "extranonce",
         NEW r2, r2 = IF s \in V THEN OnExtranonceV2(r, m) ELSE OnExtranonce(r, m)
  PROVE  r2 \in SessionStates /\ SameBody(r, r2) /\ HeardBy(r, m, r2) /\ (Told(V, s, r) => Told(V, s, r2))
<1> DEFINE e == m.en1
           k == [r EXCEPT !.en1 = e]
<1>1. e \in Nat
  BY DEF Messages
<1>2. k \in SessionStates
  <2> HIDE DEF e
  <2> QED  BY <1>1, ZenonT(60) DEF SessionStates
<1>3. /\ SameBody(r, k) /\ k.link = r.link /\ k.slot = r.slot /\ k.diff = r.diff /\ k.en1 = e
      /\ k.job = r.job /\ k.told = r.told
  BY DEF SessionStates, SameBody
<1>4. r2 = IF r.sub THEN Emit(k) ELSE k
  <2> HIDE DEF k
  <2>1. k.sub = r.sub
    BY <1>3 DEF SameBody
  <2> QED  BY <2>1 DEF OnExtranonce, OnExtranonceV2, EmitV2, k
<1>5. m.what \notin Binds /\ m.what \notin Rates /\ m.what \notin Works /\ m.what \in Nonces
  BY DEF Binds, Rates, Works, Nonces
<1> HIDE DEF k, e
<1>6. /\ Emit(k) \in SessionStates /\ SameBody(k, Emit(k))
      /\ Emit(k).link = k.link /\ Emit(k).slot = k.slot /\ Emit(k).diff = k.diff /\ Emit(k).en1 = k.en1
      /\ Emit(k).job = k.job
      /\ (k.job = None => Emit(k).told = k.told) /\ (k.job # None => Emit(k).told = k.job)
  BY <1>2, Emitted
<1>7. r2 \in SessionStates /\ SameBody(r, r2)
  BY <1>2, <1>3, <1>4, <1>6 DEF SameBody
<1>8. HeardBy(r, m, r2)
  BY <1>3, <1>4, <1>5, <1>6 DEF HeardBy, e
<1>9. Told(V, s, r) => Told(V, s, r2)
  <2>1. r2.sub = r.sub /\ r2.auth = r.auth /\ r2.job = r.job
        /\ (r2.told = r.told \/ (r.sub /\ r.job # None /\ r2.told = r.job))
    BY <1>3, <1>4, <1>6, <1>7 DEF SameBody
  <2> QED  BY <2>1 DEF Told
<1> QED  BY <1>7, <1>8, <1>9

LEMMA DiffHeard ==
  ASSUME NEW V, NEW s, NEW r \in SessionStates, NEW m \in Messages, m.what = "diff", NEW r2, r2 = OnDiff(r, m)
  PROVE  r2 \in SessionStates /\ SameBody(r, r2) /\ HeardBy(r, m, r2) /\ (Told(V, s, r) => Told(V, s, r2))
<1> DEFINE d == m.diff
           k == [r EXCEPT !.diff = d]
<1>1. d \in Diffs \cup {1}
  BY DEF Messages
<1>2. k \in SessionStates
  <2> HIDE DEF d
  <2> QED  BY <1>1, ZenonT(60) DEF SessionStates
<1>3. /\ SameBody(r, k) /\ k.link = r.link /\ k.slot = r.slot /\ k.diff = d /\ k.en1 = r.en1
      /\ k.job = r.job /\ k.told = r.told
  BY DEF SessionStates, SameBody
<1>4. r2 = k
  BY DEF OnDiff
<1> HIDE DEF k
<1>5. m.what \notin Binds /\ m.what \in Rates /\ m.what \notin Works /\ m.what \notin Nonces
  BY DEF Binds, Rates, Works, Nonces
<1>6. HeardBy(r, m, r2)
  BY <1>3, <1>4, <1>5 DEF HeardBy
<1>7. Told(V, s, r) => Told(V, s, r2)
  BY <1>3, <1>4 DEF SameBody, Told
<1> QED  BY <1>2, <1>3, <1>4, <1>6, <1>7

LEMMA RebindHeard ==
  ASSUME NEW V, NEW s, NEW r \in SessionStates, NEW m \in Messages, m.what = "rebind", NEW r2, r2 = Rebound(r, m)
  PROVE  /\ r2 \in SessionStates /\ SameBody(r, r2) /\ HeardBy(r, m, r2)
         /\ (r.sub /\ Told(V, s, r) => Told(V, s, r2))
<1> DEFINE l == m.link
           i == m.slot
           e == m.en1
           d == m.diff
           j == m.job
           k == [r EXCEPT !.link = l, !.slot = i, !.en1 = e, !.diff = d]
           h == [k EXCEPT !.job = j]
<1>1. l \in Links \cup {None} /\ i \in Slots /\ e \in Nat /\ d \in Diffs \cup {1} /\ j \in 0..MaxUp
  BY DEF Messages
<1>2. k \in SessionStates /\ h \in SessionStates
  <2> HIDE DEF l, i, e, d, j
  <2>1. k \in SessionStates
    BY <1>1, ZenonT(60) DEF SessionStates
  <2> HIDE DEF k
  <2> QED  BY <1>1, <2>1, ZenonT(60) DEF SessionStates
<1>3. /\ SameBody(r, k) /\ k.link = l /\ k.slot = i /\ k.diff = d /\ k.en1 = e
      /\ k.job = r.job /\ k.told = r.told
  <2> HIDE DEF l, i, e, d
  <2> QED  BY DEF SessionStates, SameBody
<1>4. r2 = IF j = None THEN k ELSE Emit(h)
  BY DEF Rebound
<1> HIDE DEF k
<1>5. /\ SameBody(k, h) /\ h.link = k.link /\ h.slot = k.slot /\ h.diff = k.diff /\ h.en1 = k.en1
      /\ h.job = j
  <2> HIDE DEF j
  <2> QED  BY <1>2 DEF SessionStates, SameBody
<1>6. m.what \in Binds /\ m.what \in Rates /\ m.what \in Works /\ m.what \in Nonces
  BY DEF Binds, Rates, Works, Nonces
<1> HIDE DEF h, l, i, e, d
<1>7. /\ Emit(h) \in SessionStates /\ SameBody(h, Emit(h))
      /\ Emit(h).link = h.link /\ Emit(h).slot = h.slot /\ Emit(h).diff = h.diff /\ Emit(h).en1 = h.en1
      /\ Emit(h).job = h.job /\ (h.job # None => Emit(h).told = h.job)
  BY <1>2, Emitted
<1>8. r2 \in SessionStates /\ SameBody(r, r2)
  BY <1>2, <1>3, <1>4, <1>5, <1>7 DEF SameBody
<1>9. HeardBy(r, m, r2)
  BY <1>3, <1>4, <1>5, <1>6, <1>7 DEF HeardBy, l, i, e, d
<1>10. r.sub /\ Told(V, s, r) => Told(V, s, r2)
  <2>1. r2.sub = r.sub /\ r2.auth = r.auth
    BY <1>8 DEF SameBody
  <2>2. \/ r2.job = r.job /\ r2.told = r.told
        \/ j # None /\ r2.job = j /\ r2.told = j
    BY <1>3, <1>4, <1>5, <1>7
  <2> QED  BY <2>1, <2>2 DEF Told
<1> QED  BY <1>8, <1>9, <1>10

\* What the word that a link is up makes of a session: who waits tries again.
Heeded(V, s, r, m, r2) ==
  /\ r2 \in SessionStates /\ HeardBy(r, m, r2) /\ Standing(V, s, r2)
  /\ r2.open = r.open /\ r2.sub = r.sub /\ r2.twice = r.twice /\ r2.pend = r.pend
  /\ Told(V, s, r) => Told(V, s, r2)
  /\ r2.pend /\ ~(s \in V /\ r2.sub) => r2.pc # "idle"

LEMMA UpHeard ==
  ASSUME NEW V, NEW s, NEW r \in SessionStates, NEW m \in Messages, m.what = "up", r.pc = "idle", Standing(V, s, r),
         NEW r2, r2 = IF s \in V THEN OnStateV2(r) ELSE OnState(r)
  PROVE  Heeded(V, s, r, m, r2)
<1> DEFINE p == IF AnyReady THEN "attach" ELSE "register"
           t == r.twice
           k == [r EXCEPT !.pc = p]
           h == [r EXCEPT !.pc = p, !.twice = t]
<1>1. p \in {"idle", "attach", "register", "read"} /\ p # "idle" /\ p # "read"
  OBVIOUS
<1> HIDE DEF p
<1>2. t \in BOOLEAN /\ r.sub \in BOOLEAN /\ r.open \in BOOLEAN /\ r.pend \in BOOLEAN /\ r.auth \in BOOLEAN
  BY DEF SessionStates
<1>3. k \in SessionStates
  BY <1>1, ZenonT(60) DEF SessionStates
<1>4. h \in SessionStates
  <2> HIDE DEF t
  <2> QED  BY <1>1, <1>2, ZenonT(60) DEF SessionStates
<1>5. /\ k.open = r.open /\ k.sub = r.sub /\ k.twice = r.twice /\ k.pend = r.pend /\ k.auth = r.auth /\ k.pc = p
      /\ k.link = r.link /\ k.slot = r.slot /\ k.diff = r.diff /\ k.en1 = r.en1 /\ k.job = r.job /\ k.told = r.told
  BY DEF SessionStates
<1>6. /\ h.open = r.open /\ h.sub = r.sub /\ h.twice = r.twice /\ h.pend = r.pend /\ h.auth = r.auth /\ h.pc = p
      /\ h.link = r.link /\ h.slot = r.slot /\ h.diff = r.diff /\ h.en1 = r.en1 /\ h.job = r.job /\ h.told = r.told
  BY DEF SessionStates
<1>7. r2 = r \/ (r2 = k /\ s \notin V /\ ~r.sub) \/ (r2 = h /\ s \in V /\ ~r.sub /\ r.auth)
  <2>1. CASE s \in V
    <3>1. ~r.sub => (r.twice \/ r.sub) = t
      BY <1>2
    <3> QED  BY <2>1, <3>1 DEF OnStateV2, TryAttachV2, p
  <2>2. CASE s \notin V
    BY <2>2 DEF OnState, TryAttach, p
  <2> QED  BY <2>1, <2>2
<1>8. r.pend /\ ~(s \in V /\ r.sub) => r2 = k \/ r2 = h
  <2>1. CASE s \in V /\ ~r.sub /\ r.pend
    <3>1. r.auth /\ (r.twice \/ r.sub) = t
      BY <1>2, <2>1 DEF Standing
    <3> QED  BY <2>1, <3>1 DEF OnStateV2, TryAttachV2, p
  <2>2. CASE s \notin V /\ r.pend
    <3>1. ~r.sub
      BY <2>2 DEF Standing
    <3> QED  BY <2>2, <3>1 DEF OnState, TryAttach, p
  <2> QED  BY <2>1, <2>2
<1> HIDE DEF k, h, t
<1>9. m.what \notin Binds /\ m.what \notin Rates /\ m.what \notin Works /\ m.what \notin Nonces
  BY DEF Binds, Rates, Works, Nonces
<1>10. /\ r2.open = r.open /\ r2.sub = r.sub /\ r2.twice = r.twice /\ r2.pend = r.pend /\ r2.auth = r.auth
       /\ r2.link = r.link /\ r2.slot = r.slot /\ r2.diff = r.diff /\ r2.en1 = r.en1 /\ r2.job = r.job
       /\ r2.told = r.told
  BY <1>5, <1>6, <1>7
<1>11. r2 = r \/ (r2.pc = p /\ ~r.sub /\ (s \in V => r.auth))
  BY <1>5, <1>6, <1>7
<1>12. Standing(V, s, r2)
  BY <1>1, <1>2, <1>10, <1>11 DEF Standing
<1>13. r2.pend /\ ~(s \in V /\ r2.sub) => r2.pc # "idle"
  BY <1>1, <1>5, <1>6, <1>8, <1>10
<1>14. HeardBy(r, m, r2)
  BY <1>9, <1>10 DEF HeardBy
<1>15. Told(V, s, r) => Told(V, s, r2)
  BY <1>10 DEF Told
<1> QED  BY <1>3, <1>4, <1>7, <1>10, <1>12, <1>13, <1>14, <1>15 DEF Heeded

LEMMA SameBodyStands ==
  ASSUME NEW V, NEW s, NEW r, NEW r2, Standing(V, s, r), SameBody(r, r2), r.pc = "idle"
  PROVE  Standing(V, s, r2)
  BY DEF Standing, SameBody

LEMMA HandledSound ==
  ASSUME NEW s, NEW r \in SessionStates, NEW q \in Seq(Messages), q # << >>, NEW M, NEW c, NEW w,
         Sound(v2, s, r, q, M, c, w), r.open, r.pc = "idle"
  PROVE  /\ Handled(s, r, Head(q)) \in SessionStates
         /\ Sound(v2, s, Handled(s, r, Head(q)), Tail(q), M, c, w)
<1> DEFINE m == Head(q)
           r2 == Handled(s, r, m)
<1>1. m \in Messages /\ 1 \in DOMAIN q /\ m = q[1]
  BY Popped
<1>2. Standing(v2, s, r) /\ Named(q)
  BY DEF Sound
<1>3. m.what \in {"up", "job", "diff", "extranonce", "rebind"}
  BY <1>1 DEF Messages
<1> HIDE DEF m
<1>4. ASSUME r2 \in SessionStates, SameBody(r, r2), HeardBy(r, m, r2), m.what # "up",
             Unattached(s, r, q, M) /\ Told(v2, s, r) => Told(v2, s, r2)
      PROVE  r2 \in SessionStates /\ Sound(v2, s, r2, Tail(q), M, c, w)
  <2>1. Standing(v2, s, r2)
    BY <1>2, <1>4, SameBodyStands
  <2>2. r2.open = r.open /\ r2.sub = r.sub /\ r2.twice = r.twice /\ r2.pend = r.pend
    BY <1>4 DEF SameBody
  <2> HIDE DEF r2
  <2>3. HeardBy(r, Head(q), r2) /\ Head(q).what # "up"
    BY <1>4 DEF m
  <2> QED  BY <1>4, <2>1, <2>2, <2>3, HeardSound
<1>5. CASE m.what = "job"
  <2>1. r2 = IF s \in v2 THEN OnJobV2(r, m) ELSE OnJob(r, m)
    BY <1>5 DEF Handled
  <2>2. m.job # None
    BY <1>1, <1>2, <1>5 DEF Named
  <2> HIDE DEF r2
  <2>3. r2 \in SessionStates /\ SameBody(r, r2) /\ HeardBy(r, m, r2) /\ (Told(v2, s, r) => Told(v2, s, r2))
    BY <1>1, <1>2, <1>5, <2>1, <2>2, JobHeard
  <2> QED  BY <1>4, <1>5, <2>3 DEF m, r2
<1>6. CASE m.what = "extranonce"
  <2>1. r2 = IF s \in v2 THEN OnExtranonceV2(r, m) ELSE OnExtranonce(r, m)
    BY <1>6 DEF Handled
  <2> HIDE DEF r2
  <2>2. r2 \in SessionStates /\ SameBody(r, r2) /\ HeardBy(r, m, r2) /\ (Told(v2, s, r) => Told(v2, s, r2))
    BY <1>1, <1>6, <2>1, NonceHeard
  <2> QED  BY <1>4, <1>6, <2>2 DEF m, r2
<1>7. CASE m.what = "diff"
  <2>1. r2 = OnDiff(r, m)
    BY <1>7 DEF Handled
  <2> HIDE DEF r2
  <2>2. r2 \in SessionStates /\ SameBody(r, r2) /\ HeardBy(r, m, r2) /\ (Told(v2, s, r) => Told(v2, s, r2))
    BY <1>1, <1>7, <2>1, DiffHeard
  <2> QED  BY <1>4, <1>7, <2>2 DEF m, r2
<1>8. CASE m.what = "rebind"
  <2>1. r2 = Rebound(r, m)
    BY <1>8 DEF Handled
  <2> HIDE DEF r2
  <2>2. /\ r2 \in SessionStates /\ SameBody(r, r2) /\ HeardBy(r, m, r2)
        /\ (r.sub /\ Told(v2, s, r) => Told(v2, s, r2))
    BY <1>1, <1>8, <2>1, RebindHeard
  <2>3. Unattached(s, r, q, M) => r.sub
    BY <1>1, <1>8 DEF Unattached
  <2> QED  BY <1>4, <1>8, <2>2, <2>3 DEF m, r2
<1>9. CASE m.what = "up"
  <2>1. r2 = IF s \in v2 THEN OnStateV2(r) ELSE OnState(r)
    BY <1>9 DEF Handled
  <2> HIDE DEF r2
  <2>2. Heeded(v2, s, r, m, r2)
    BY <1>1, <1>2, <1>9, <2>1, UpHeard
  <2>3. HeardBy(r, Head(q), r2)
    BY <2>2 DEF m, Heeded
  <2>4. Sound(v2, s, r2, Tail(q), M, c, w)
    BY <2>2, <2>3, HeardSound DEF Heeded
  <2> QED  BY <2>2, <2>4 DEF r2, m, Heeded
<1> QED  BY <1>3, <1>5, <1>6, <1>7, <1>8, <1>9

(***************************************************************************)
(* The steps of a miner's strand.                                          *)
(***************************************************************************)

\* A step of the session that leaves what it was told by its link.
LEMMA SteppedSound ==
  ASSUME NEW V, NEW s, NEW r, NEW r2, NEW q, NEW M, NEW c, NEW w, NEW w2, Sound(V, s, r, q, M, c, w),
         r2.open = r.open, r2.sub = r.sub, r.pc # "read", r2.pc # "read", r.twice => r2.twice,
         r2.link = r.link, r2.slot = r.slot, r2.diff = r.diff, r2.job = r.job, r2.en1 = r.en1,
         Standing(V, s, r2), Waiting(V, s, r2, q, w2), Told(V, s, r) => Told(V, s, r2)
  PROVE  Sound(V, s, r2, q, M, c, w2)
<1>1. Named(q) /\ Served(V, s, r, q, M, c)
  BY DEF Sound
<1>2. Served(V, s, r2, q, M, c)
  <2> SUFFICES ASSUME r2.open, ~r2.twice
               PROVE  /\ Unattached(s, r2, q, M)
                      /\ \A l \in Links, k \in Slots : M[l].subs[k] = s => Follows(r2, q, M[l], c, l, k)
                      /\ Told(V, s, r2)
    BY DEF Served
  <2>1. Unattached(s, r, q, M) /\ Told(V, s, r)
    BY <1>1 DEF Served
  <2>2. Unattached(s, r2, q, M)
    BY <2>1 DEF Unattached
  <2>3. ASSUME NEW l \in Links, NEW k \in Slots, M[l].subs[k] = s
        PROVE  Follows(r2, q, M[l], c, l, k)
    <3>1. Follows(r, q, M[l], c, l, k)
      BY <1>1, <2>3 DEF Served
    <3> QED  BY <3>1 DEF Follows, BoundTo, RatedAt, WorksOn, HasNonce
  <2> QED  BY <2>1, <2>2, <2>3
<1> QED  BY <1>1, <1>2 DEF Sound

\* attach's failure, of a session that has no slot.
LEMMA LinklessSound ==
  ASSUME NEW V, NEW s, NEW r, NEW r2, NEW q, NEW M, NEW c, NEW w, Sound(V, s, r, q, M, c, w),
         r.pc = "attach", r2.pc = "register", r2.open = r.open, r2.sub = r.sub, r2.twice = r.twice,
         r2.auth = r.auth, r2.pend = r.pend, r2.job = r.job, r2.told = r.told
  PROVE  Sound(V, s, r2, q, M, c, w)
<1>1. Standing(V, s, r) /\ Named(q) /\ Served(V, s, r, q, M, c)
  BY DEF Sound
<1>2. Standing(V, s, r2)
  BY <1>1 DEF Standing
<1>3. Waiting(V, s, r2, q, w)
  BY DEF Waiting
<1>4. Served(V, s, r2, q, M, c)
  <2> SUFFICES ASSUME r2.open, ~r2.twice
               PROVE  /\ Unattached(s, r2, q, M)
                      /\ \A l \in Links, k \in Slots : M[l].subs[k] # s
                      /\ Told(V, s, r2)
    BY DEF Served
  <2>1. Unattached(s, r, q, M) /\ Told(V, s, r) /\ ~r.sub
    BY <1>1 DEF Served, Standing
  <2>2. Unattached(s, r2, q, M) /\ \A l \in Links, k \in Slots : M[l].subs[k] # s
    BY <2>1 DEF Unattached
  <2>3. Told(V, s, r2)
    BY <2>1 DEF Told
  <2> QED  BY <2>2, <2>3
<1> QED  BY <1>1, <1>2, <1>3, <1>4 DEF Sound

\* attach: the slot given is the only one.
LEMMA AttachedSound ==
  ASSUME NEW V, NEW s \in Sessions, NEW r, NEW r2, NEW q, NEW M \in [Links -> LinkStates], NEW M2, NEW c, NEW w,
         Sound(V, s, r, q, M, c, w),
         NEW l \in Links, NEW k, Says(M, M2), SlotSet(M, M2, l, k, s),
         r.pc = "attach", r2.pc = "read", r2.open = r.open, r2.sub = r.sub, r2.twice = r.twice,
         r2.auth = r.auth, r2.pend = r.pend, r2.job = r.job, r2.told = r.told,
         r2.link = l, r2.slot = k, r2.en1 = M[l].en1
  PROVE  Sound(V, s, r2, q, M2, c, w)
<1>1. Standing(V, s, r) /\ Named(q) /\ Served(V, s, r, q, M, c)
  BY DEF Sound
<1>2. Standing(V, s, r2)
  BY <1>1 DEF Standing
<1>3. Waiting(V, s, r2, q, w)
  BY DEF Waiting
<1>4. Served(V, s, r2, q, M2, c)
  <2> SUFFICES ASSUME r2.open, ~r2.twice
               PROVE  /\ Unattached(s, r2, q, M2)
                      /\ \A j \in Links, i \in Slots : M2[j].subs[i] = s => Follows(r2, q, M2[j], c, j, i)
                      /\ Told(V, s, r2)
    BY DEF Served
  <2>1. Unattached(s, r, q, M) /\ Told(V, s, r) /\ ~r.sub
    BY <1>1 DEF Served, Standing
  <2>2. /\ \A i \in DOMAIN q : q[i].what = "up"
        /\ \A j \in Links, i \in Slots : M[j].subs[i] # s
    BY <2>1 DEF Unattached
  <2>3. Unattached(s, r2, q, M2)
    BY DEF Unattached
  <2>4. ASSUME NEW j \in Links, NEW i \in Slots, M2[j].subs[i] = s
        PROVE  Follows(r2, q, M2[j], c, j, i)
    <3>1. j = l /\ i = k
      BY <2>2, <2>4 DEF SlotSet
    <3>2. \A K, n : LastOf(q, K, n) => "up" \in K
      BY <2>2 DEF LastOf
    <3>3. "up" \notin Binds /\ "up" \notin Rates /\ "up" \notin Works /\ "up" \notin Nonces
      BY DEF Binds, Rates, Works, Nonces
    <3>4. Current(r2.en1, M2[j])
      <4>1. M[l].en1 \in Nat /\ M2[j].en1 = M[l].en1
        BY <3>1 DEF LinkStates, Says
      <4> QED  BY <4>1 DEF Current
    <3> QED  BY <3>1, <3>2, <3>3, <3>4 DEF Follows, BoundTo, RatedAt, WorksOn, HasNonce
  <2>5. Told(V, s, r2)
    BY <2>1 DEF Told
  <2> QED  BY <2>3, <2>4, <2>5
<1> QED  BY <1>1, <1>2, <1>3, <1>4 DEF Sound

\* The link's work, read after it was attached to; what has been posted since is newer.
LEMMA WorkReadSound ==
  ASSUME NEW V, NEW s, NEW r, NEW r2, NEW q, NEW M, NEW c, NEW w, Sound(V, s, r, q, M, c, w),
         r.pc = "read", r2.pc = "idle", r2.open = r.open, r2.sub = TRUE, r2.pend = FALSE, r2.twice = r.twice,
         r2.auth = r.auth, r2.link = r.link, r2.slot = r.slot, r2.en1 = r.en1,
         r2.diff = M[r.link].diff, r2.job = M[r.link].job,
         IF s \in V THEN r2.job # None => r2.told = r2.job ELSE r2.told = r.told
  PROVE  Sound(V, s, r2, q, M, c, w)
<1>1. Standing(V, s, r) /\ Named(q) /\ Served(V, s, r, q, M, c)
  BY DEF Sound
<1>2. Standing(V, s, r2)
  BY <1>1 DEF Standing
<1>3. Waiting(V, s, r2, q, w)
  BY DEF Waiting
<1>4. Served(V, s, r2, q, M, c)
  <2> SUFFICES ASSUME r2.open, ~r2.twice
               PROVE  /\ Unattached(s, r2, q, M)
                      /\ \A l \in Links, k \in Slots : M[l].subs[k] = s => Follows(r2, q, M[l], c, l, k)
                      /\ Told(V, s, r2)
    BY DEF Served
  <2>1. Told(V, s, r) /\ ~r.sub
    BY <1>1 DEF Served, Standing
  <2>2. Unattached(s, r2, q, M)
    BY DEF Unattached
  <2>3. ASSUME NEW l \in Links, NEW k \in Slots, M[l].subs[k] = s
        PROVE  Follows(r2, q, M[l], c, l, k)
    <3>1. Follows(r, q, M[l], c, l, k)
      BY <1>1, <2>3 DEF Served
    <3>2. BoundTo(r2, q, l, k) /\ HasNonce(r2, q, M[l])
      BY <3>1 DEF Follows, BoundTo, HasNonce
    <3>3. NoneOf(q, Binds) => r.link = l
      BY <3>1 DEF Follows, BoundTo
    <3>4. (NoneOf(q, Rates) => NoneOf(q, Binds)) /\ (NoneOf(q, Works) => NoneOf(q, Binds))
      BY DEF NoneOf, Rates, Works, Binds
    <3>5. RatedAt(r2, q, M[l].diff) \/ c = Cast("diff", l)
      BY <3>1, <3>3, <3>4 DEF Follows, RatedAt
    <3>6. M[l].job # None => WorksOn(r2, q, M[l].job) \/ c = Cast("job", l)
      BY <3>1, <3>3, <3>4 DEF Follows, WorksOn
    <3> QED  BY <3>2, <3>5, <3>6 DEF Follows
  <2>4. Told(V, s, r2)
    BY <2>1 DEF Told
  <2> QED  BY <2>2, <2>3, <2>4
<1> QED  BY <1>1, <1>2, <1>3, <1>4 DEF Sound

LEMMA SlotGivenBack ==
  ASSUME L \in [Links -> LinkStates], NEW x, x.link \in Links \cup {None}
  PROVE  /\ Detached(x) \in [Links -> LinkStates] /\ Says(L, Detached(x))
         /\ \A s \in Sessions : Kept(s, L, Detached(x))
<1>1. CASE x.link = None
  BY <1>1 DEF Detached, Says, Kept
<1>2. CASE x.link # None
  <2>1. Detached(x) = Erased(L, x.link, x.slot)
    BY <1>2 DEF Detached, Erased
  <2>2. /\ Detached(x) \in [Links -> LinkStates] /\ Says(L, Detached(x))
        /\ SlotSet(L, Detached(x), x.link, x.slot, Nobody)
    BY <1>2, <2>1, SlotErased
  <2>3. \A s \in Sessions : Kept(s, L, Detached(x))
    BY <2>2, Constants DEF Kept, Says, SlotSet
  <2> QED  BY <2>2, <2>3
<1> QED  BY <1>1, <1>2

LEMMA NobodySound ==
  ASSUME NEW V, NEW s, NEW q, Named(q), NEW M, NEW c, NEW w
  PROVE  Gone \in SessionStates /\ Sound(V, s, Gone, q, M, c, w)
<1>1. 0 \in Slots /\ 0 \in Nat /\ 0 \in 0..MaxUp
  BY Constants, ProxyConstants
<1>2. Gone \in SessionStates
  BY <1>1 DEF Gone, SessionStates, None
<1>3. Gone.pend = FALSE /\ Gone.twice = FALSE /\ Gone.pc = "idle" /\ Gone.open = FALSE
  BY DEF Gone
<1> HIDE DEF Gone
<1>4. Standing(V, s, Gone) /\ Waiting(V, s, Gone, q, w) /\ Served(V, s, Gone, q, M, c)
  BY <1>3 DEF Standing, Waiting, Served
<1> QED  BY <1>2, <1>4 DEF Sound

LEMMA CastingKept ==
  ASSUME NEW M, NEW M2, NEW c, Says(M, M2), Casting(c, M)
  PROVE  Casting(c, M2)
  BY DEF Casting, Says

\* A step of the strand of s leaves the others as they are.
LEMMA MinerStep ==
  ASSUME LinkTypes, SessionTypes, SessionsSound, NEW s \in Sessions, NEW r2 \in SessionStates,
         NEW q2 \in Seq(Messages),
         S' = [S EXCEPT ![s] = r2], mail' = [mail EXCEPT ![s] = q2],
         L' \in [Links -> LinkStates], Says(L, L'), \A x \in Sessions \ {s} : Kept(x, L, L'),
         waiters' \in Seq(Sessions), \A i \in DOMAIN waiters : i \in DOMAIN waiters' /\ waiters'[i] = waiters[i],
         UNCHANGED <<mode, v2, casting, running, jobs, ups>>,
         primary' \in Links \cup {None}, downs' \in 0..MaxDown,
         Sound(v2, s, r2, q2, L', casting, waiters')
  PROVE  LinkTypes' /\ SessionTypes' /\ SessionsSound'
<1>1. S \in [Sessions -> SessionStates] /\ mail \in [Sessions -> Seq(Messages)] /\ Casting(casting, L)
  BY DEF SessionTypes, LinkTypes
<1>2. S' \in [Sessions -> SessionStates] /\ S'[s] = r2 /\ \A x \in Sessions \ {s} : S'[x] = S[x]
  BY <1>1
<1>3. mail' \in [Sessions -> Seq(Messages)] /\ mail'[s] = q2 /\ \A x \in Sessions \ {s} : mail'[x] = mail[x]
  BY <1>1
<1>4. SessionTypes'
  BY <1>2, <1>3 DEF SessionTypes
<1>5. LinkTypes'
  <2>1. Casting(casting, L')
    BY <1>1, CastingKept
  <2> QED  BY <2>1 DEF LinkTypes
<1>6. ASSUME NEW x \in Sessions
      PROVE  Sound(v2, x, S'[x], mail'[x], L', casting, waiters')
  <2>1. CASE x = s
    BY <1>2, <1>3, <2>1
  <2>2. CASE x # s
    <3>1. Sound(v2, x, S[x], mail[x], L, casting, waiters)
      BY DEF SessionsSound
    <3>2. Kept(x, L, L') /\ S'[x] = S[x] /\ mail'[x] = mail[x]
      BY <1>2, <1>3, <2>2
    <3>3. Sound(v2, x, S[x], mail[x], L', casting, waiters')
      BY <3>1, <3>2, Untouched
    <3> QED  BY <3>2, <3>3
  <2> QED  BY <2>1, <2>2
<1>7. SessionsSound'
  BY <1>6 DEF SessionsSound
<1> QED  BY <1>4, <1>5, <1>7

\* The same, of a step that moves no slot and posts nothing.
LEMMA MinerStepAlone ==
  ASSUME LinkTypes, SessionTypes, SessionsSound, NEW s \in Sessions, NEW r2 \in SessionStates,
         S' = [S EXCEPT ![s] = r2],
         UNCHANGED <<mode, v2, casting, running, jobs, ups, L, mail, primary, waiters>>, downs' \in 0..MaxDown,
         Sound(v2, s, r2, mail[s], L, casting, waiters)
  PROVE  LinkTypes' /\ SessionTypes' /\ SessionsSound'
<1> DEFINE q2 == mail[s]
<1>1. /\ L' \in [Links -> LinkStates] /\ waiters' \in Seq(Sessions) /\ primary' \in Links \cup {None}
      /\ mail \in [Sessions -> Seq(Messages)]
  BY DEF LinkTypes, SessionTypes
<1>2. mail' = [mail EXCEPT ![s] = q2] /\ q2 \in Seq(Messages)
  BY <1>1
<1>3. Says(L, L') /\ \A x \in Sessions \ {s} : Kept(x, L, L')
  BY DEF Says, Kept
<1>4. Sound(v2, s, r2, q2, L', casting, waiters')
  OBVIOUS
<1>5. \A i \in DOMAIN waiters : i \in DOMAIN waiters' /\ waiters'[i] = waiters[i]
  OBVIOUS
<1>6. UNCHANGED <<mode, v2, casting, running, jobs, ups>>
  OBVIOUS
<1> HIDE DEF q2
<1> QED  BY <1>1, <1>2, <1>3, <1>4, <1>5, <1>6, MinerStep

LEMMA OneMoreRequest ==
  ASSUME LinkTypes, downs < MaxDown, downs' = downs + 1
  PROVE  downs' \in 0..MaxDown
  BY ProxyConstants DEF LinkTypes

LEMMA SharesKept ==
  ASSUME ShareTypes, share' = share
  PROVE  ShareTypes'
  BY DEF ShareTypes

\* A request that only changes what a session knows of its miner.
LEMMA RequestStep ==
  ASSUME LinkTypes, SessionTypes, SessionsSound, ShareTypes, NEW s \in Sessions, Request(s), NEW r2 \in SessionStates,
         S' = [S EXCEPT ![s] = r2],
         UNCHANGED <<mode, v2, casting, running, jobs, ups, L, mail, primary, waiters, share>>,
         r2.open = S[s].open, r2.sub = S[s].sub, r2.pc # "read", S[s].twice => r2.twice,
         r2.link = S[s].link, r2.slot = S[s].slot, r2.diff = S[s].diff, r2.job = S[s].job, r2.en1 = S[s].en1,
         Standing(v2, s, S[s]) => Standing(v2, s, r2), r2.pend = S[s].pend,
         Told(v2, s, S[s]) => Told(v2, s, r2)
  PROVE  LinkTypes' /\ SessionTypes' /\ SessionsSound' /\ ShareTypes'
<1> DEFINE r == S[s]
           q == mail[s]
<1>1. Sound(v2, s, r, q, L, casting, waiters)
  BY DEF SessionsSound
<1>2. Standing(v2, s, r) /\ Waiting(v2, s, r, q, waiters)
  BY <1>1 DEF Sound
<1>3. r.pc = "idle" /\ downs' \in 0..MaxDown
  BY OneMoreRequest DEF Request
<1>4. Waiting(v2, s, r2, q, waiters)
  BY <1>2, <1>3 DEF Waiting
<1>5. r.pc # "read" /\ Standing(v2, s, r2)
  BY <1>2, <1>3
<1>6. /\ r2.open = r.open /\ r2.sub = r.sub /\ r2.pc # "read" /\ (r.twice => r2.twice)
      /\ r2.link = r.link /\ r2.slot = r.slot /\ r2.diff = r.diff /\ r2.job = r.job /\ r2.en1 = r.en1
      /\ (Told(v2, s, r) => Told(v2, s, r2))
  OBVIOUS
<1> HIDE DEF r, q
<1>7. Sound(v2, s, r2, q, L, casting, waiters)
  BY <1>1, <1>4, <1>5, <1>6, SteppedSound
<1>8. Sound(v2, s, r2, mail[s], L, casting, waiters)
  BY <1>7 DEF q
<1>9. UNCHANGED <<mode, v2, casting, running, jobs, ups, L, mail, primary, waiters>>
  OBVIOUS
<1>10. LinkTypes' /\ SessionTypes' /\ SessionsSound'
  BY <1>3, <1>8, <1>9, MinerStepAlone
<1> QED  BY <1>10, SharesKept

\* What both kinds of sessions are made of.
LEMMA SessionFields ==
  ASSUME NEW r \in SessionStates
  PROVE  /\ r.open \in BOOLEAN /\ r.sub \in BOOLEAN /\ r.auth \in BOOLEAN /\ r.rolls \in BOOLEAN
         /\ r.pend \in BOOLEAN /\ r.twice \in BOOLEAN /\ r.pc \in {"idle", "attach", "register", "read"}
         /\ r.link \in Links \cup {None} /\ r.slot \in Slots /\ r.en1 \in Nat
         /\ r.job \in 0..MaxUp /\ r.told \in 0..MaxUp /\ r.diff \in Diffs \cup {1}
  BY DEF SessionStates

\* Fields that a step may leave alone.
SameWork(r, r2) ==
  /\ r2.link = r.link /\ r2.slot = r.slot /\ r2.diff = r.diff /\ r2.job = r.job /\ r2.en1 = r.en1

LEMMA SubscribeStep ==
  ASSUME ProxyInv, NEW s \in Sessions, Subscribe(s)
  PROVE  ProxyInv'
<1> DEFINE r == S[s]
           r2 == TryAttach(r)
           p == IF AnyReady THEN "attach" ELSE "register"
<1>1. LinkTypes /\ SessionTypes /\ SessionsSound /\ ShareTypes /\ r \in SessionStates
  BY DEF ProxyInv, SessionTypes
<1>2. /\ Request(s) /\ s \notin v2 /\ S' = [S EXCEPT ![s] = r2]
      /\ UNCHANGED <<mode, v2, casting, running, jobs, ups, L, mail, primary, waiters, share>>
  BY DEF Subscribe, Outside
<1>3. r.open /\ r.pc = "idle"
  BY <1>2 DEF Request
<1>4. p \in {"idle", "attach", "register", "read"} /\ p # "read"
  OBVIOUS
<1> HIDE DEF p
<1>5. [r EXCEPT !.pc = p] \in SessionStates
  BY <1>1, <1>4, ZenonT(60) DEF SessionStates
<1>6. r2 = r \/ (~r.sub /\ r2 = [r EXCEPT !.pc = p])
  BY DEF TryAttach, p
<1>7. /\ r2 \in SessionStates /\ SameWork(r, r2) /\ r2.open = r.open /\ r2.sub = r.sub /\ r2.twice = r.twice
      /\ r2.pend = r.pend /\ r2.auth = r.auth /\ r2.told = r.told
      /\ r2.pc # "read" /\ (r2.pc # "idle" => ~r.sub)
  BY <1>1, <1>3, <1>4, <1>5, <1>6, ZenonT(60) DEF SameWork, SessionStates
<1>8. Standing(v2, s, r) => Standing(v2, s, r2)
  BY <1>2, <1>7 DEF Standing
<1>9. Told(v2, s, r) => Told(v2, s, r2)
  BY <1>7 DEF Told, SameWork
<1> HIDE DEF r2
<1>10. /\ r2.link = S[s].link /\ r2.slot = S[s].slot /\ r2.diff = S[s].diff /\ r2.job = S[s].job
       /\ r2.en1 = S[s].en1
  BY <1>7 DEF SameWork
<1>11. LinkTypes' /\ SessionTypes' /\ SessionsSound' /\ ShareTypes'
  BY <1>1, <1>2, <1>7, <1>8, <1>9, <1>10, RequestStep
<1> QED  BY <1>11 DEF ProxyInv

LEMMA OpenChannelStep ==
  ASSUME ProxyInv, NEW s \in Sessions, OpenChannel(s)
  PROVE  ProxyInv'
<1> DEFINE r == S[s]
           p == IF AnyReady THEN "attach" ELSE "register"
           t == r.twice \/ r.sub
           r2 == [r EXCEPT !.pc = p, !.twice = t]
<1>1. LinkTypes /\ SessionTypes /\ SessionsSound /\ ShareTypes /\ r \in SessionStates
  BY DEF ProxyInv, SessionTypes
<1>2. /\ Request(s) /\ s \in v2 /\ r.auth /\ S' = [S EXCEPT ![s] = r2]
      /\ UNCHANGED <<mode, v2, casting, running, jobs, ups, L, mail, primary, waiters, share>>
  BY DEF OpenChannel, Outside, TryAttachV2
<1>3. p \in {"idle", "attach", "register", "read"} /\ p # "read"
  OBVIOUS
<1>4. t \in BOOLEAN /\ (r.twice => t) /\ (~t => ~r.sub)
  BY <1>1, SessionFields
<1> HIDE DEF p, t
<1>5. r2 \in SessionStates
  BY <1>1, <1>3, <1>4, ZenonT(60) DEF SessionStates
<1>6. /\ SameWork(r, r2) /\ r2.open = r.open /\ r2.sub = r.sub /\ r2.twice = t
      /\ r2.pend = r.pend /\ r2.auth = r.auth /\ r2.told = r.told /\ r2.pc = p
  BY <1>1 DEF SameWork, SessionStates
<1> HIDE DEF r2
<1>7. Standing(v2, s, r) => Standing(v2, s, r2)
  BY <1>2, <1>3, <1>4, <1>6 DEF Standing
<1>8. Told(v2, s, r) => Told(v2, s, r2)
  BY <1>6 DEF Told, SameWork
<1>9. /\ r2.link = S[s].link /\ r2.slot = S[s].slot /\ r2.diff = S[s].diff /\ r2.job = S[s].job
      /\ r2.en1 = S[s].en1 /\ (S[s].twice => r2.twice) /\ r2.pc # "read"
  BY <1>3, <1>4, <1>6 DEF SameWork
<1>10. LinkTypes' /\ SessionTypes' /\ SessionsSound' /\ ShareTypes'
  BY <1>1, <1>2, <1>5, <1>6, <1>7, <1>8, <1>9, RequestStep
<1> QED  BY <1>10 DEF ProxyInv

LEMMA SetupConnectionStep ==
  ASSUME ProxyInv, NEW s \in Sessions, SetupConnection(s)
  PROVE  ProxyInv'
<1> DEFINE r == S[s]
           r2 == [r EXCEPT !.auth = TRUE]
<1>1. /\ LinkTypes /\ SessionTypes /\ SessionsSound /\ ShareTypes /\ r \in SessionStates
      /\ S \in [Sessions -> SessionStates]
  BY DEF ProxyInv, SessionTypes
<1>2. /\ Request(s) /\ s \in v2
      /\ UNCHANGED <<mode, v2, casting, running, jobs, ups, L, mail, primary, waiters, share>>
  BY DEF SetupConnection, Outside
<1>3. S' = [S EXCEPT ![s] = r2]
  BY DEF SetupConnection
<1>4. r2 \in SessionStates
  BY <1>1, ZenonT(60) DEF SessionStates
<1>5. /\ SameWork(r, r2) /\ r2.open = r.open /\ r2.sub = r.sub /\ r2.twice = r.twice
      /\ r2.pend = r.pend /\ r2.auth = TRUE /\ r2.told = r.told /\ r2.pc = r.pc
  BY <1>1 DEF SameWork, SessionStates
<1> HIDE DEF r2
<1>6. Standing(v2, s, r) => Standing(v2, s, r2)
  BY <1>5 DEF Standing, SameWork
<1>7. Told(v2, s, r) => Told(v2, s, r2)
  BY <1>2, <1>5 DEF Told, SameWork
<1>8. /\ r2.link = S[s].link /\ r2.slot = S[s].slot /\ r2.diff = S[s].diff /\ r2.job = S[s].job
      /\ r2.en1 = S[s].en1 /\ r2.pc # "read"
  BY <1>2, <1>5 DEF SameWork, Request
<1>9. LinkTypes' /\ SessionTypes' /\ SessionsSound' /\ ShareTypes'
  BY <1>1, <1>2, <1>3, <1>4, <1>5, <1>6, <1>7, <1>8, RequestStep
<1> QED  BY <1>9 DEF ProxyInv

LEMMA ExtranonceSubscribeStep ==
  ASSUME ProxyInv, NEW s \in Sessions, ExtranonceSubscribe(s)
  PROVE  ProxyInv'
<1> DEFINE r == S[s]
           r2 == [r EXCEPT !.rolls = TRUE]
<1>1. /\ LinkTypes /\ SessionTypes /\ SessionsSound /\ ShareTypes /\ r \in SessionStates
      /\ S \in [Sessions -> SessionStates]
  BY DEF ProxyInv, SessionTypes
<1>2. /\ Request(s) /\ s \notin v2
      /\ UNCHANGED <<mode, v2, casting, running, jobs, ups, L, mail, primary, waiters, share>>
  BY DEF ExtranonceSubscribe, Outside
<1>3. S' = [S EXCEPT ![s] = r2]
  BY DEF ExtranonceSubscribe
<1>4. r2 \in SessionStates
  BY <1>1, ZenonT(60) DEF SessionStates
<1>5. /\ SameWork(r, r2) /\ r2.open = r.open /\ r2.sub = r.sub /\ r2.twice = r.twice
      /\ r2.pend = r.pend /\ r2.auth = r.auth /\ r2.told = r.told /\ r2.pc = r.pc
  BY <1>1 DEF SameWork, SessionStates
<1> HIDE DEF r2
<1>6. Standing(v2, s, r) => Standing(v2, s, r2)
  BY <1>5 DEF Standing, SameWork
<1>7. Told(v2, s, r) => Told(v2, s, r2)
  BY <1>5 DEF Told, SameWork
<1>8. /\ r2.link = S[s].link /\ r2.slot = S[s].slot /\ r2.diff = S[s].diff /\ r2.job = S[s].job
      /\ r2.en1 = S[s].en1 /\ r2.pc # "read"
  BY <1>2, <1>5 DEF SameWork, Request
<1>9. LinkTypes' /\ SessionTypes' /\ SessionsSound' /\ ShareTypes'
  BY <1>1, <1>2, <1>3, <1>4, <1>5, <1>6, <1>7, <1>8, RequestStep
<1> QED  BY <1>9 DEF ProxyInv

LEMMA AuthorizeStep ==
  ASSUME ProxyInv, NEW s \in Sessions, Authorize(s)
  PROVE  ProxyInv'
<1> DEFINE r == S[s]
           a == [r EXCEPT !.auth = TRUE]
           r2 == IF r.sub THEN Emit(a) ELSE a
<1>1. LinkTypes /\ SessionTypes /\ SessionsSound /\ ShareTypes /\ r \in SessionStates
  BY DEF ProxyInv, SessionTypes
<1>2. /\ Request(s) /\ s \notin v2 /\ ~r.auth /\ S' = [S EXCEPT ![s] = r2]
      /\ UNCHANGED <<mode, v2, casting, running, jobs, ups, L, mail, primary, waiters, share>>
  BY DEF Authorize, Outside
<1>3. a \in SessionStates
  BY <1>1, ZenonT(60) DEF SessionStates
<1>4. /\ SameWork(r, a) /\ a.open = r.open /\ a.sub = r.sub /\ a.twice = r.twice
      /\ a.pend = r.pend /\ a.auth = TRUE /\ a.told = r.told /\ a.pc = r.pc
  BY <1>1 DEF SameWork, SessionStates
<1> HIDE DEF a
<1>5. /\ Emit(a) \in SessionStates /\ SameBody(a, Emit(a)) /\ SameWork(a, Emit(a))
      /\ (a.job = None => Emit(a).told = a.told) /\ (a.job # None => Emit(a).told = a.job)
  BY <1>3, Emitted DEF SameWork
<1>6. /\ r2 \in SessionStates /\ SameWork(r, r2) /\ r2.open = r.open /\ r2.sub = r.sub /\ r2.twice = r.twice
      /\ r2.pend = r.pend /\ r2.auth = TRUE /\ r2.pc = r.pc
      /\ IF r.sub /\ r.job # None THEN r2.told = r.job ELSE r2.told = r.told
  BY <1>3, <1>4, <1>5 DEF SameBody, SameWork
<1> HIDE DEF r2
<1>7. Standing(v2, s, r) => Standing(v2, s, r2)
  BY <1>6 DEF Standing, SameWork
<1>8. Told(v2, s, r) => Told(v2, s, r2)
  BY <1>2, <1>6 DEF Told, SameWork
<1>9. /\ r2.link = S[s].link /\ r2.slot = S[s].slot /\ r2.diff = S[s].diff /\ r2.job = S[s].job
      /\ r2.en1 = S[s].en1 /\ r2.pc # "read"
  BY <1>2, <1>6 DEF SameWork, Request
<1>10. LinkTypes' /\ SessionTypes' /\ SessionsSound' /\ ShareTypes'
  BY <1>1, <1>2, <1>6, <1>7, <1>8, <1>9, RequestStep
<1> QED  BY <1>10 DEF ProxyInv

\* A step that leaves the mail where it is.
LEMMA MailKept ==
  ASSUME SessionTypes, NEW s \in Sessions, mail' = mail
  PROVE  mail[s] \in Seq(Messages) /\ mail' = [mail EXCEPT ![s] = mail[s]]
  BY DEF SessionTypes

LEMMA AttachStep ==
  ASSUME ProxyInv, NEW s \in Sessions, Attach(s)
  PROVE  ProxyInv'
<1> DEFINE r == S[s]
           q == mail[s]
           l == Pick
           k == FreeOf(L[l])
           e == L[l].en1
           r1 == [r EXCEPT !.pc = "register", !.link = None, !.slot = 0, !.en1 = None]
           r2 == [r EXCEPT !.pc = "read", !.link = l, !.en1 = e, !.slot = k]
<1>1. LinkTypes /\ SessionTypes /\ SessionsSound /\ ShareTypes /\ r \in SessionStates /\ L \in [Links -> LinkStates]
  BY DEF ProxyInv, SessionTypes, LinkTypes
<1>2. /\ r.pc = "attach" /\ downs' \in 0..MaxDown
      /\ UNCHANGED <<mode, v2, casting, running, jobs, ups>>
      /\ waiters' = waiters /\ mail' = mail /\ share' = share
  BY <1>1 DEF Attach, Outside, LinkTypes
<1>3. q \in Seq(Messages) /\ mail' = [mail EXCEPT ![s] = q]
  BY <1>1, <1>2, MailKept
<1>4. Sound(v2, s, r, q, L, casting, waiters)
  BY <1>1 DEF SessionsSound
<1>5. CASE l = None
  <2>1. S' = [S EXCEPT ![s] = r1] /\ UNCHANGED <<primary, L>>
    BY <1>5 DEF Attach
  <2>2. r1 \in SessionStates
    BY <1>1, Constants, ZenonT(60) DEF SessionStates
  <2>3. /\ r1.pc = "register" /\ r1.open = r.open /\ r1.sub = r.sub /\ r1.twice = r.twice
        /\ r1.auth = r.auth /\ r1.pend = r.pend /\ r1.job = r.job /\ r1.told = r.told
    BY <1>1 DEF SessionStates
  <2>4. UNCHANGED <<mode, v2, casting, running, jobs, ups, L, mail, primary, waiters>>
    BY <1>2, <2>1
  <2> HIDE DEF r1, r, q
  <2>5. Sound(v2, s, r1, q, L, casting, waiters)
    BY <1>2, <1>4, <2>3, LinklessSound
  <2>6. Sound(v2, s, r1, mail[s], L, casting, waiters)
    BY <2>5 DEF q
  <2>7. LinkTypes' /\ SessionTypes' /\ SessionsSound'
    BY <1>1, <1>2, <2>1, <2>2, <2>4, <2>6, MinerStepAlone
  <2> QED  BY <1>1, <1>2, <2>7, SharesKept DEF ProxyInv
<1>6. CASE l # None
  <2>1. l \in Links /\ Cardinality(Taken(L[l].subs)) < Span
    BY <1>6, PickIsReady DEF Ready, ReadyWith
  <2>2. L' = Given(L, l, s) /\ primary' = IF mode = "failover" THEN l ELSE primary
    BY <1>6 DEF Attach, Given
  <2>3. S' = [S EXCEPT ![s] = r2]
    BY <1>6 DEF Attach, FreeOf
  <2> HIDE DEF l
  <2>4. /\ k \in Slots /\ Given(L, l, s) \in [Links -> LinkStates] /\ Says(L, Given(L, l, s))
        /\ SlotSet(L, Given(L, l, s), l, k, s)
    BY <1>1, <2>1, SlotGiven
  <2>5. L' \in [Links -> LinkStates] /\ Says(L, L') /\ SlotSet(L, L', l, k, s)
    BY <2>2, <2>4
  <2>6. \A x \in Sessions \ {s} : Kept(x, L, L')
    BY <2>5 DEF Kept, Says, SlotSet
  <2>7. e \in Nat
    BY <1>1, <2>1 DEF LinkStates
  <2> HIDE DEF k, e
  <2>8. r2 \in SessionStates
    BY <1>1, <2>1, <2>4, <2>7, ZenonT(60) DEF SessionStates
  <2>9. /\ r2.pc = "read" /\ r2.open = r.open /\ r2.sub = r.sub /\ r2.twice = r.twice
        /\ r2.auth = r.auth /\ r2.pend = r.pend /\ r2.job = r.job /\ r2.told = r.told
        /\ r2.link = l /\ r2.slot = k /\ r2.en1 = e
    BY <1>1 DEF SessionStates
  <2>10. r2.en1 = L[l].en1
    BY <2>9 DEF e
  <2> HIDE DEF r2, r, q
  <2>11. Sound(v2, s, r2, q, L', casting, waiters)
    BY <1>1, <1>2, <1>4, <2>1, <2>5, <2>9, <2>10, AttachedSound
  <2>12. primary' \in Links \cup {None} /\ waiters' \in Seq(Sessions)
    BY <1>1, <1>2, <2>1, <2>2 DEF LinkTypes
  <2>13. \A i \in DOMAIN waiters : i \in DOMAIN waiters' /\ waiters'[i] = waiters[i]
    BY <1>2
  <2>14. Sound(v2, s, r2, q, L', casting, waiters')
    BY <1>2, <2>11
  <2>15. LinkTypes' /\ SessionTypes' /\ SessionsSound'
    BY <1>1, <1>2, <1>3, <2>3, <2>5, <2>6, <2>8, <2>12, <2>13, <2>14, MinerStep
  <2> QED  BY <1>1, <1>2, <2>15, SharesKept DEF ProxyInv
<1> QED  BY <1>5, <1>6

LEMMA RegisterWaiterStep ==
  ASSUME ProxyInv, NEW s \in Sessions, RegisterWaiter(s)
  PROVE  ProxyInv'
<1> DEFINE r == S[s]
           q == mail[s]
           r2 == [r EXCEPT !.pc = "idle", !.pend = TRUE]
           w2 == Append(waiters, s)
<1>1. /\ LinkTypes /\ SessionTypes /\ SessionsSound /\ ShareTypes /\ r \in SessionStates /\ L \in [Links -> LinkStates]
      /\ waiters \in Seq(Sessions) /\ primary \in Links \cup {None} /\ S \in [Sessions -> SessionStates]
  BY DEF ProxyInv, SessionTypes, LinkTypes
<1>2. /\ r.pc = "register" /\ downs' \in 0..MaxDown
      /\ UNCHANGED <<mode, v2, casting, running, jobs, ups>>
      /\ waiters' = w2 /\ mail' = mail /\ share' = share /\ L' = L /\ primary' = primary
  BY <1>1 DEF RegisterWaiter, Outside, LinkTypes
<1>3. q \in Seq(Messages) /\ mail' = [mail EXCEPT ![s] = q]
  BY <1>1, <1>2, MailKept
<1>4. Sound(v2, s, r, q, L, casting, waiters)
  BY <1>1 DEF SessionsSound
<1>5. S' = [S EXCEPT ![s] = r2]
  BY <1>1 DEF RegisterWaiter
<1>6. r2 \in SessionStates
  BY <1>1, ZenonT(60) DEF SessionStates
<1>7. /\ r2.pc = "idle" /\ r2.open = r.open /\ r2.sub = r.sub /\ r2.twice = r.twice
      /\ r2.auth = r.auth /\ r2.pend = TRUE /\ r2.told = r.told /\ SameWork(r, r2)
  BY <1>1 DEF SessionStates, SameWork
<1>8. /\ w2 \in Seq(Sessions) /\ \A i \in DOMAIN waiters : i \in DOMAIN w2 /\ w2[i] = waiters[i]
      /\ Len(waiters) + 1 \in DOMAIN w2 /\ w2[Len(waiters) + 1] = s
  BY <1>1
<1> HIDE DEF r2, r, q, w2
<1>9. Waiting(v2, s, r2, q, w2)
  BY <1>8 DEF Waiting
<1>10. Standing(v2, s, r2)
  <2>1. Standing(v2, s, r)
    BY <1>4 DEF Sound
  <2> QED  BY <1>2, <1>7, <2>1 DEF Standing
<1>11. Told(v2, s, r) => Told(v2, s, r2)
  BY <1>7 DEF Told, SameWork
<1>12. /\ r2.link = r.link /\ r2.slot = r.slot /\ r2.diff = r.diff /\ r2.job = r.job /\ r2.en1 = r.en1
       /\ r.pc # "read" /\ r2.pc # "read" /\ (r.twice => r2.twice)
  BY <1>2, <1>7 DEF SameWork
<1>13. Sound(v2, s, r2, q, L, casting, w2)
  BY <1>4, <1>7, <1>9, <1>10, <1>11, <1>12, SteppedSound
<1>14. Says(L, L') /\ \A x \in Sessions \ {s} : Kept(x, L, L')
  BY <1>2 DEF Says, Kept
<1>15. /\ L' \in [Links -> LinkStates] /\ primary' \in Links \cup {None} /\ waiters' \in Seq(Sessions)
       /\ \A i \in DOMAIN waiters : i \in DOMAIN waiters' /\ waiters'[i] = waiters[i]
       /\ Sound(v2, s, r2, q, L', casting, waiters')
  BY <1>1, <1>2, <1>8, <1>13
<1>16. LinkTypes' /\ SessionTypes' /\ SessionsSound'
  BY <1>1, <1>2, <1>3, <1>5, <1>6, <1>14, <1>15, MinerStep
<1> QED  BY <1>1, <1>2, <1>16, SharesKept DEF ProxyInv

\* Either kind of session reads the link's work.
LEMMA WorkReadStep ==
  ASSUME ProxyInv, NEW s \in Sessions, S[s].pc = "read", NEW r2 \in SessionStates, S' = [S EXCEPT ![s] = r2],
         r2.pc = "idle", r2.open = S[s].open, r2.sub = TRUE, r2.pend = FALSE, r2.twice = S[s].twice,
         r2.auth = S[s].auth, r2.link = S[s].link, r2.slot = S[s].slot, r2.en1 = S[s].en1,
         r2.diff = L[S[s].link].diff, r2.job = L[S[s].link].job,
         IF s \in v2 THEN r2.job # None => r2.told = r2.job ELSE r2.told = S[s].told,
         UNCHANGED <<mode, v2, casting, running, jobs, ups, L, mail, primary, waiters, share, downs>>
  PROVE  ProxyInv'
<1> DEFINE r == S[s]
           q == mail[s]
<1>1. LinkTypes /\ SessionTypes /\ SessionsSound /\ ShareTypes /\ downs' \in 0..MaxDown
  BY DEF ProxyInv, LinkTypes
<1>2. Sound(v2, s, r, q, L, casting, waiters)
  BY <1>1 DEF SessionsSound
<1>3. /\ r.pc = "read" /\ r2.open = r.open /\ r2.twice = r.twice /\ r2.auth = r.auth
      /\ r2.link = r.link /\ r2.slot = r.slot /\ r2.en1 = r.en1
      /\ r2.diff = L[r.link].diff /\ r2.job = L[r.link].job
      /\ IF s \in v2 THEN r2.job # None => r2.told = r2.job ELSE r2.told = r.told
  OBVIOUS
<1> HIDE DEF r, q
<1>4. Sound(v2, s, r2, q, L, casting, waiters)
  BY <1>2, <1>3, WorkReadSound
<1>5. Sound(v2, s, r2, mail[s], L, casting, waiters)
  BY <1>4 DEF q
<1>6. LinkTypes' /\ SessionTypes' /\ SessionsSound'
  BY <1>1, <1>5, MinerStepAlone
<1> QED  BY <1>1, <1>6, SharesKept DEF ProxyInv

\* What a session has read of its link is of the right kind.
LEMMA WorkIsTyped ==
  ASSUME ProxyInv, NEW s \in Sessions, S[s].pc = "read"
  PROVE  L[S[s].link].diff \in Diffs \cup {1} /\ L[S[s].link].job \in 0..MaxUp
<1>1. Standing(v2, s, S[s]) /\ L \in [Links -> LinkStates]
  BY DEF ProxyInv, SessionsSound, Sound, LinkTypes
<1>2. S[s].link \in Links
  BY <1>1 DEF Standing
<1> QED  BY <1>1, <1>2 DEF LinkStates

LEMMA ReadWorkStep ==
  ASSUME ProxyInv, NEW s \in Sessions, ReadWork(s)
  PROVE  ProxyInv'
<1> DEFINE r == S[s]
           d == L[r.link].diff
           j == L[r.link].job
           r2 == [r EXCEPT !.pc = "idle", !.sub = TRUE, !.pend = FALSE, !.diff = d, !.job = j]
<1>1. /\ r.pc = "read" /\ s \notin v2 /\ S' = [S EXCEPT ![s] = r2]
      /\ UNCHANGED <<mode, v2, casting, running, jobs, ups, L, mail, primary, waiters, share, downs>>
  BY DEF ReadWork, Outside
<1>2. r \in SessionStates /\ d \in Diffs \cup {1} /\ j \in 0..MaxUp
  BY <1>1, WorkIsTyped DEF ProxyInv, SessionTypes
<1> HIDE DEF d, j
<1>3. r2 \in SessionStates
  BY <1>2, ZenonT(60) DEF SessionStates
<1>4. /\ r2.pc = "idle" /\ r2.open = r.open /\ r2.sub = TRUE /\ r2.pend = FALSE /\ r2.twice = r.twice
      /\ r2.auth = r.auth /\ r2.link = r.link /\ r2.slot = r.slot /\ r2.en1 = r.en1
      /\ r2.diff = d /\ r2.job = j /\ r2.told = r.told
  BY <1>2 DEF SessionStates
<1> HIDE DEF r2
<1>5. /\ S[s].pc = "read" /\ r2.open = S[s].open /\ r2.twice = S[s].twice
      /\ r2.auth = S[s].auth /\ r2.link = S[s].link /\ r2.slot = S[s].slot /\ r2.en1 = S[s].en1
      /\ r2.diff = L[S[s].link].diff /\ r2.job = L[S[s].link].job
      /\ IF s \in v2 THEN r2.job # None => r2.told = r2.job ELSE r2.told = S[s].told
  BY <1>1, <1>4 DEF d, j
<1> QED  BY <1>1, <1>3, <1>4, <1>5, WorkReadStep

LEMMA OpensWithWorkStep ==
  ASSUME ProxyInv, NEW s \in Sessions, OpensWithWork(s)
  PROVE  ProxyInv'
<1> DEFINE r == S[s]
           d == L[r.link].diff
           j == L[r.link].job
           a == [r EXCEPT !.pc = "idle", !.sub = TRUE, !.pend = FALSE, !.diff = d, !.job = j]
           r2 == Emit(a)
<1>1. /\ r.pc = "read" /\ s \in v2 /\ S' = [S EXCEPT ![s] = EmitV2(a)]
      /\ UNCHANGED <<mode, v2, casting, running, jobs, ups, L, mail, primary, waiters, share, downs>>
  BY DEF OpensWithWork, Outside
<1>2. r \in SessionStates /\ d \in Diffs \cup {1} /\ j \in 0..MaxUp
  BY <1>1, WorkIsTyped DEF ProxyInv, SessionTypes
<1> HIDE DEF d, j
<1>3. a \in SessionStates
  BY <1>2, ZenonT(60) DEF SessionStates
<1>4. /\ a.pc = "idle" /\ a.open = r.open /\ a.sub = TRUE /\ a.pend = FALSE /\ a.twice = r.twice
      /\ a.auth = r.auth /\ a.link = r.link /\ a.slot = r.slot /\ a.en1 = r.en1
      /\ a.diff = d /\ a.job = j
  BY <1>2 DEF SessionStates
<1> HIDE DEF a
<1>5. S' = [S EXCEPT ![s] = r2]
  BY <1>1, <1>4 DEF EmitV2
<1>6. /\ r2 \in SessionStates /\ SameBody(a, r2) /\ r2.link = a.link /\ r2.slot = a.slot /\ r2.diff = a.diff
      /\ r2.en1 = a.en1 /\ r2.job = a.job /\ (a.job # None => r2.told = a.job)
  BY <1>3, Emitted
<1> HIDE DEF r2
<1>7. /\ S[s].pc = "read" /\ r2.open = S[s].open /\ r2.twice = S[s].twice
      /\ r2.auth = S[s].auth /\ r2.link = S[s].link /\ r2.slot = S[s].slot /\ r2.en1 = S[s].en1
      /\ r2.diff = L[S[s].link].diff /\ r2.job = L[S[s].link].job
      /\ IF s \in v2 THEN r2.job # None => r2.told = r2.job ELSE r2.told = S[s].told
      /\ r2.pc = "idle" /\ r2.sub = TRUE /\ r2.pend = FALSE
  BY <1>1, <1>4, <1>6 DEF d, j, SameBody
<1> QED  BY <1>1, <1>5, <1>6, <1>7, WorkReadStep

LEMMA ForwardStep ==
  ASSUME ProxyInv, NEW s \in Sessions, Request(s), Forward(s)
  PROVE  ProxyInv'
<1>1. /\ LinkTypes /\ SessionTypes /\ SessionsSound /\ ShareTypes /\ S \in [Sessions -> SessionStates]
      /\ share \in [Shares -> ShareStates]
  BY DEF ProxyInv, SessionTypes, ShareTypes
<1>2. UNCHANGED <<mode, v2, casting, running, jobs, ups, L, mail, primary, waiters>> /\ S' = S
  BY DEF Forward, Outside
<1>3. downs' \in 0..MaxDown
  BY <1>1, OneMoreRequest DEF Request
<1>4. S[s] \in SessionStates /\ S' = [S EXCEPT ![s] = S[s]] /\ Sound(v2, s, S[s], mail[s], L, casting, waiters)
  BY <1>1, <1>2 DEF SessionsSound
<1>5. LinkTypes' /\ SessionTypes' /\ SessionsSound'
  BY <1>1, <1>2, <1>3, <1>4, MinerStepAlone
<1>6. PICK x \in Shares : /\ share[x].at = "none"
                          /\ share' = [share EXCEPT ![x] = [share[x] EXCEPT !.at = "posted", !.link = S[s].link]]
  BY DEF Forward
<1> DEFINE y == [share[x] EXCEPT !.at = "posted", !.link = S[s].link]
<1>7. S[s].link \in Links \cup {None}
  BY <1>4, SessionFields
<1>8. y \in ShareStates /\ y.at = "posted" /\ y.got = share[x].got
  BY <1>1, <1>7 DEF ShareStates
<1>9. share[x].got = 0
  BY <1>1, <1>6 DEF ShareTypes, Answered
<1>10. share' = [share EXCEPT ![x] = y]
  BY <1>6
<1> HIDE DEF y
<1>11. ShareTypes'
  BY <1>1, <1>8, <1>9, <1>10 DEF ShareTypes, Answered
<1> QED  BY <1>5, <1>11 DEF ProxyInv

LEMMA LeaveStep ==
  ASSUME ProxyInv, NEW s \in Sessions, Leave(s)
  PROVE  ProxyInv'
<1> DEFINE r == S[s]
           q == mail[s]
           r2 == Gone
<1>1. /\ LinkTypes /\ SessionTypes /\ SessionsSound /\ ShareTypes /\ r \in SessionStates /\ L \in [Links -> LinkStates]
      /\ waiters \in Seq(Sessions) /\ primary \in Links \cup {None}
  BY DEF ProxyInv, SessionTypes, LinkTypes
<1>2. /\ Request(s) /\ S' = [S EXCEPT ![s] = r2] /\ L' = Detached(r)
      /\ UNCHANGED <<mode, v2, casting, running, jobs, ups>>
      /\ mail' = mail /\ share' = share /\ primary' = primary /\ waiters' = waiters
  BY DEF Leave, Outside
<1>3. downs' \in 0..MaxDown
  BY <1>1, <1>2, OneMoreRequest DEF Request
<1>4. q \in Seq(Messages) /\ mail' = [mail EXCEPT ![s] = q]
  BY <1>1, <1>2, MailKept
<1>5. Sound(v2, s, r, q, L, casting, waiters)
  BY <1>1 DEF SessionsSound
<1>6. Named(q)
  BY <1>5 DEF Sound
<1>7. r2 \in SessionStates /\ Sound(v2, s, r2, q, L', casting, waiters')
  BY <1>6, NobodySound
<1>8. r.link \in Links \cup {None}
  BY <1>1, SessionFields
<1>9. L' \in [Links -> LinkStates] /\ Says(L, L') /\ \A x \in Sessions \ {s} : Kept(x, L, L')
  BY <1>1, <1>2, <1>8, SlotGivenBack
<1>10. /\ waiters' \in Seq(Sessions) /\ primary' \in Links \cup {None}
       /\ \A i \in DOMAIN waiters : i \in DOMAIN waiters' /\ waiters'[i] = waiters[i]
  BY <1>1, <1>2
<1> HIDE DEF r2, q
<1>11. LinkTypes' /\ SessionTypes' /\ SessionsSound'
  BY <1>1, <1>2, <1>3, <1>4, <1>7, <1>9, <1>10, MinerStep
<1> QED  BY <1>1, <1>2, <1>11, SharesKept DEF ProxyInv

LEMMA RunMailStep ==
  ASSUME ProxyInv, NEW s \in Sessions, RunMail(s)
  PROVE  ProxyInv'
<1> DEFINE r == S[s]
           q == mail[s]
           q2 == Tail(q)
           m == Head(q)
           drops == r.open /\ m.what = "rebind" /\ s \notin v2 /\ ~r.rolls
           r2 == IF ~r.open THEN r ELSE IF drops THEN Gone ELSE Handled(s, r, m)
<1>1. /\ LinkTypes /\ SessionTypes /\ SessionsSound /\ ShareTypes /\ r \in SessionStates /\ L \in [Links -> LinkStates]
      /\ waiters \in Seq(Sessions) /\ primary \in Links \cup {None} /\ q \in Seq(Messages)
  BY DEF ProxyInv, SessionTypes, LinkTypes
<1>2. /\ r.pc = "idle" /\ q # << >> /\ mail' = [mail EXCEPT ![s] = q2] /\ S' = [S EXCEPT ![s] = r2]
      /\ L' = IF drops THEN Detached(m) ELSE L
      /\ UNCHANGED <<mode, v2, casting, running, jobs, ups>>
      /\ share' = share /\ primary' = primary /\ waiters' = waiters /\ downs' = downs
  BY DEF RunMail, Outside
<1>3. downs' \in 0..MaxDown
  BY <1>1, <1>2 DEF LinkTypes
<1>4. /\ m \in Messages /\ q2 \in Seq(Messages)
      /\ \A i \in DOMAIN q2 : i \in Nat /\ i + 1 \in DOMAIN q /\ q2[i] = q[i + 1]
  BY <1>1, <1>2, Popped
<1>5. Sound(v2, s, r, q, L, casting, waiters)
  BY <1>1 DEF SessionsSound
<1>6. Named(q2) /\ Standing(v2, s, r)
  BY <1>4, <1>5 DEF Sound, Named
<1>7. L' \in [Links -> LinkStates] /\ Says(L, L') /\ \A x \in Sessions \ {s} : Kept(x, L, L')
  <2>1. CASE drops
    <3>1. m.link \in Links \cup {None}
      BY <1>4 DEF Messages
    <3> QED  BY <1>1, <1>2, <2>1, <3>1, SlotGivenBack
  <2>2. CASE ~drops
    BY <1>1, <1>2, <2>2 DEF Says, Kept
  <2> QED  BY <2>1, <2>2
<1>8. r2 \in SessionStates /\ Sound(v2, s, r2, q2, L', casting, waiters)
  <2>1. CASE ~r.open
    <3>1. r2 = r
      BY <2>1
    <3>2. Waiting(v2, s, r, q2, waiters) /\ Served(v2, s, r, q2, L', casting)
      BY <2>1 DEF Waiting, Served
    <3> HIDE DEF r2
    <3> QED  BY <1>1, <1>6, <3>1, <3>2 DEF Sound
  <2>2. CASE r.open /\ drops
    <3>1. r2 = Gone
      BY <2>2
    <3> HIDE DEF r2, q2
    <3> QED  BY <1>6, <3>1, NobodySound
  <2>3. CASE r.open /\ ~drops
    <3>1. r2 = Handled(s, r, m) /\ L' = L
      BY <1>2, <2>3
    <3> HIDE DEF r2, r, q
    <3> QED  BY <1>1, <1>2, <1>5, <2>3, <3>1, HandledSound DEF q2, m
  <2> QED  BY <2>1, <2>2, <2>3
<1>9. /\ waiters' \in Seq(Sessions) /\ primary' \in Links \cup {None}
      /\ \A i \in DOMAIN waiters : i \in DOMAIN waiters' /\ waiters'[i] = waiters[i]
      /\ Sound(v2, s, r2, q2, L', casting, waiters')
  BY <1>1, <1>2, <1>8
<1> HIDE DEF r2, q2, q
<1>10. LinkTypes' /\ SessionTypes' /\ SessionsSound'
  BY <1>1, <1>2, <1>3, <1>4, <1>7, <1>8, <1>9, MinerStep
<1> QED  BY <1>1, <1>2, <1>10, SharesKept DEF ProxyInv

LEMMA MinersKeepInv ==
  ASSUME ProxyInv, NEW s \in Sessions, Miner(s)
  PROVE  ProxyInv'
<1>1. ASSUME Submit(s) \/ SubmitV2(s) PROVE ProxyInv'
  BY <1>1, ForwardStep DEF Submit, SubmitV2
<1>2. ASSUME HangUp(s) \/ HangUpV2(s) PROVE ProxyInv'
  BY <1>2, LeaveStep DEF HangUp, HangUpV2
<1> QED  BY <1>1, <1>2, SubscribeStep, AttachStep, RegisterWaiterStep, ReadWorkStep, AuthorizeStep,
            ExtranonceSubscribeStep, RunMailStep, SetupConnectionStep, OpenChannelStep, OpensWithWorkStep DEF Miner

(***************************************************************************)
(* The steps of the client's strand.                                       *)
(***************************************************************************)

SameTables(M, M2) == \A l \in Links : M2[l].subs = M[l].subs

LEMMA TablesKept ==
  ASSUME NEW M, NEW M2, Says(M, M2), SameTables(M, M2), NEW s
  PROVE  Kept(s, M, M2)
  BY DEF Kept, Says, SameTables

\* What the strand posts reaches the sessions that are left.
LEMMA PostStep ==
  ASSUME SessionTypes, SessionsSound, NEW posts \in [Sessions -> Seq(Messages)],
         mail' = Mailed(posts), S' = S, v2' = v2,
         \A s \in Sessions : Sound(v2, s, S[s], mail[s] \o posts[s], L', casting', waiters')
  PROVE  SessionTypes' /\ SessionsSound'
<1>1. S \in [Sessions -> SessionStates] /\ mail \in [Sessions -> Seq(Messages)]
  BY DEF SessionTypes
<1>2. mail' = [s \in Sessions |-> IF Alive(s) THEN mail[s] \o posts[s] ELSE << >>]
  BY DEF Mailed
<1>3. \A s \in Sessions : mail[s] \o posts[s] \in Seq(Messages)
  BY <1>1
<1>4. << >> \in Seq(Messages)
  OBVIOUS
<1>5. SessionTypes'
  BY <1>1, <1>2, <1>3, <1>4 DEF SessionTypes
<1>6. ASSUME NEW s \in Sessions
      PROVE  Sound(v2, s, S[s], mail'[s], L', casting', waiters')
  <2>1. CASE Alive(s)
    BY <1>2, <2>1
  <2>2. CASE ~Alive(s)
    <3>1. ~S[s].open /\ mail'[s] = << >>
      BY <1>2, <2>2 DEF Alive
    <3>2. Sound(v2, s, S[s], mail[s], L, casting, waiters)
      BY DEF SessionsSound
    <3>3. Sound(v2, s, S[s], << >>, L', casting', waiters')
      BY <3>1, <3>2, GoneSound
    <3> QED  BY <3>1, <3>3
  <2> QED  BY <2>1, <2>2
<1>7. SessionsSound'
  BY <1>6 DEF SessionsSound
<1> QED  BY <1>5, <1>7

\* A step that tells the sessions nothing, and changes nothing they were told of.
LEMMA QuietStep ==
  ASSUME LinkTypes, SessionTypes, SessionsSound, L' \in [Links -> LinkStates], Says(L, L'), SameTables(L, L'),
         UNCHANGED <<mode, v2, primary, waiters, casting, S, mail, jobs, downs>>,
         running' \in BOOLEAN, ups' \in 0..MaxUp, jobs <= ups'
  PROVE  LinkTypes' /\ SessionTypes' /\ SessionsSound'
<1>1. Casting(casting, L')
  BY CastingKept DEF LinkTypes
<1>2. LinkTypes'
  BY <1>1 DEF LinkTypes
<1>3. ASSUME NEW s \in Sessions
      PROVE  Sound(v2, s, S[s], mail[s], L', casting, waiters)
  <2>1. Sound(v2, s, S[s], mail[s], L, casting, waiters)
    BY DEF SessionsSound
  <2>2. Kept(s, L, L')
    BY TablesKept
  <2> QED  BY <2>1, <2>2, Untouched
<1>4. SessionTypes' /\ SessionsSound'
  BY <1>3 DEF SessionTypes, SessionsSound
<1> QED  BY <1>2, <1>4

LEMMA OneMoreUnasked ==
  ASSUME LinkTypes, Unasked
  PROVE  ups' \in 0..MaxUp /\ jobs <= ups' /\ jobs + 1 <= ups' /\ jobs + 1 \in 0..MaxUp /\ jobs + 1 # None
  BY ProxyConstants DEF LinkTypes, Unasked, None

Conns == {"dialing", "open", "closing", "failed", "down"}

LEMMA ConnSet ==
  ASSUME NEW M \in [Links -> LinkStates], NEW l \in Links, NEW c \in Conns,
         NEW M2, M2 = [M EXCEPT ![l].conn = c]
  PROVE  M2 \in [Links -> LinkStates] /\ Says(M, M2) /\ SameTables(M, M2)
<1> DEFINE x == [M[l] EXCEPT !.conn = c]
<1>1. M[l] \in LinkStates /\ M2 = [M EXCEPT ![l] = x]
  OBVIOUS
<1>2. x \in LinkStates
  BY <1>1, ZenonT(60) DEF LinkStates, Conns
<1>3. /\ x.subs = M[l].subs /\ x.diff = M[l].diff /\ x.job = M[l].job /\ x.en1 = M[l].en1 /\ x.first = M[l].first
  BY <1>1 DEF LinkStates
<1> HIDE DEF x
<1>4. M2[l] = x /\ \A j \in Links : j # l => M2[j] = M[j]
  BY <1>1
<1>5. M2 \in [Links -> LinkStates]
  BY <1>1, <1>2
<1> QED  BY <1>3, <1>4, <1>5 DEF Says, SameTables

LEMMA OnConnOpenStep ==
  ASSUME ProxyInv, NEW l \in Links, OnConnOpen(l)
  PROVE  ProxyInv'
<1>1. LinkTypes /\ SessionTypes /\ SessionsSound /\ ShareTypes /\ L \in [Links -> LinkStates]
  BY DEF ProxyInv, LinkTypes
<1>2. /\ L' = [L EXCEPT ![l].conn = "open"] /\ share' = share
      /\ UNCHANGED <<mode, v2, primary, waiters, casting, S, mail, jobs, downs>>
      /\ running' \in BOOLEAN /\ ups' \in 0..MaxUp /\ jobs <= ups'
  BY <1>1 DEF OnConnOpen, Aside, LinkTypes
<1>3. "open" \in Conns
  BY DEF Conns
<1>4. L' \in [Links -> LinkStates] /\ Says(L, L') /\ SameTables(L, L')
  BY <1>1, <1>2, <1>3, ConnSet
<1>5. LinkTypes' /\ SessionTypes' /\ SessionsSound'
  BY <1>1, <1>2, <1>4, QuietStep
<1> QED  BY <1>1, <1>2, <1>5, SharesKept DEF ProxyInv

LEMMA ConnClosesStep ==
  ASSUME ProxyInv, NEW l \in Links, ConnCloses(l) \/ Refused(l)
  PROVE  ProxyInv'
<1>1. LinkTypes /\ SessionTypes /\ SessionsSound /\ ShareTypes /\ L \in [Links -> LinkStates]
  BY DEF ProxyInv, LinkTypes
<1>2. PICK c \in Conns : L' = [L EXCEPT ![l].conn = c]
  BY DEF ConnCloses, Refused, Conns
<1>3. /\ share' = share /\ Unasked
      /\ UNCHANGED <<mode, v2, primary, waiters, casting, S, mail, jobs, downs>> /\ running' = running
  BY DEF ConnCloses, Refused, Aside
<1>4. running' \in BOOLEAN /\ ups' \in 0..MaxUp /\ jobs <= ups'
  BY <1>1, <1>3, OneMoreUnasked DEF LinkTypes
<1>5. L' \in [Links -> LinkStates] /\ Says(L, L') /\ SameTables(L, L')
  BY <1>1, <1>2, ConnSet
<1>6. LinkTypes' /\ SessionTypes' /\ SessionsSound'
  BY <1>1, <1>3, <1>4, <1>5, QuietStep
<1> QED  BY <1>1, <1>3, <1>6, SharesKept DEF ProxyInv

LEMMA StopStep ==
  ASSUME ProxyInv, Stop
  PROVE  ProxyInv'
<1> DEFINE conn(l) == IF L[l].conn = "open" THEN "closing" ELSE IF L[l].conn = "dialing" THEN "failed" ELSE L[l].conn
           x(l) == [L[l] EXCEPT !.conn = conn(l)]
<1>1. LinkTypes /\ SessionTypes /\ SessionsSound /\ ShareTypes /\ L \in [Links -> LinkStates]
  BY DEF ProxyInv, LinkTypes
<1>2. /\ L' = [l \in Links |-> x(l)] /\ share' = share /\ Unasked /\ running' = FALSE
      /\ UNCHANGED <<mode, v2, primary, waiters, casting, S, mail, jobs, downs>>
  BY DEF Stop
<1>3. running' \in BOOLEAN /\ ups' \in 0..MaxUp /\ jobs <= ups'
  BY <1>1, <1>2, OneMoreUnasked
<1>4. ASSUME NEW l \in Links
      PROVE  /\ x(l) \in LinkStates /\ x(l).subs = L[l].subs /\ x(l).diff = L[l].diff /\ x(l).job = L[l].job
             /\ x(l).en1 = L[l].en1 /\ x(l).first = L[l].first
  <2>1. L[l] \in LinkStates
    BY <1>1
  <2>2. conn(l) \in Conns
    BY <2>1 DEF LinkStates, Conns
  <2> HIDE DEF conn
  <2>3. x(l) \in LinkStates
    BY <2>1, <2>2, ZenonT(60) DEF LinkStates, Conns
  <2> QED  BY <2>1, <2>3 DEF LinkStates
<1> HIDE DEF x
<1>5. L' \in [Links -> LinkStates] /\ Says(L, L') /\ SameTables(L, L')
  BY <1>2, <1>4 DEF Says, SameTables
<1>6. LinkTypes' /\ SessionTypes' /\ SessionsSound'
  BY <1>1, <1>2, <1>3, <1>5, QuietStep
<1> QED  BY <1>1, <1>2, <1>6, SharesKept DEF ProxyInv

LEMMA ConnectLinkStep ==
  ASSUME ProxyInv, NEW l \in Links, ConnectLink(l)
  PROVE  ProxyInv'
<1>1. LinkTypes /\ SessionTypes /\ SessionsSound /\ ShareTypes /\ L \in [Links -> LinkStates]
  BY DEF ProxyInv, LinkTypes
<1>2. /\ L' = [L EXCEPT ![l].conn = "dialing"]
      /\ UNCHANGED <<mode, v2, primary, waiters, casting, S, mail, jobs, downs>>
      /\ running' \in BOOLEAN /\ ups' \in 0..MaxUp /\ jobs <= ups'
  BY <1>1 DEF ConnectLink, LinkTypes
<1>3. "dialing" \in Conns
  BY DEF Conns
<1>4. L' \in [Links -> LinkStates] /\ Says(L, L') /\ SameTables(L, L')
  BY <1>1, <1>2, <1>3, ConnSet
<1>5. LinkTypes' /\ SessionTypes' /\ SessionsSound'
  BY <1>1, <1>2, <1>4, QuietStep
<1>6. share' = [x \in Shares |-> IF share[x].at = "pending" /\ share[x].link = l
                                 THEN [share[x] EXCEPT !.at = "over"] ELSE share[x]]
  BY DEF ConnectLink
<1>7. ShareTypes'
  <2>1. ASSUME NEW x \in Shares
        PROVE  share'[x] \in ShareStates /\ Answered(share'[x])
    <3>1. share[x] \in ShareStates /\ Answered(share[x])
      BY <1>1 DEF ShareTypes
    <3>2. CASE share[x].at = "pending" /\ share[x].link = l
      <4>1. share'[x] = [share[x] EXCEPT !.at = "over"]
        BY <1>6, <3>2
      <4> QED  BY <3>1, <4>1 DEF ShareStates, Answered
    <3>3. CASE ~(share[x].at = "pending" /\ share[x].link = l)
      BY <1>6, <3>1, <3>3
    <3> QED  BY <3>2, <3>3
  <2> QED  BY <1>6, <2>1 DEF ShareTypes
<1> QED  BY <1>5, <1>7 DEF ProxyInv

\* The share x is over, with its verdict, or goes to its link.
LEMMA ShareSet ==
  ASSUME ShareTypes, NEW x \in Shares, NEW y \in ShareStates, Answered(y), share' = [share EXCEPT ![x] = y]
  PROVE  ShareTypes'
  BY DEF ShareTypes

LEMMA ShareDone ==
  ASSUME ShareTypes, NEW x \in Shares, share[x].at # "over",
         share' = [share EXCEPT ![x].at = "over", ![x].got = share[x].got + 1]
  PROVE  ShareTypes'
<1> DEFINE y == [share[x] EXCEPT !.at = "over", !.got = share[x].got + 1]
<1>1. share \in [Shares -> ShareStates] /\ share[x].got = 0
  BY DEF ShareTypes, Answered
<1>2. share' = [share EXCEPT ![x] = y]
  BY <1>1
<1>3. y \in ShareStates /\ Answered(y)
  BY <1>1 DEF ShareStates, Answered
<1> HIDE DEF y
<1> QED  BY <1>2, <1>3, ShareSet

LEMMA ForwardShareStep ==
  ASSUME ProxyInv, NEW x \in Shares, ForwardShare(x)
  PROVE  ProxyInv'
<1> DEFINE l == share[x].link
<1>1. LinkTypes /\ SessionTypes /\ SessionsSound /\ ShareTypes /\ L \in [Links -> LinkStates]
  BY DEF ProxyInv, LinkTypes
<1>2. /\ UNCHANGED <<mode, v2, primary, waiters, casting, S, mail, jobs, downs>> /\ share[x].at = "posted"
      /\ running' \in BOOLEAN /\ ups' \in 0..MaxUp /\ jobs <= ups'
  BY <1>1 DEF ForwardShare, LinkTypes
<1>3. share \in [Shares -> ShareStates] /\ Answered(share[x]) /\ l \in Links \cup {None}
  BY <1>1 DEF ShareTypes, ShareStates
<1>4. /\ L' \in [Links -> LinkStates] /\ Says(L, L') /\ SameTables(L, L')
      /\ ShareTypes'
  <2>1. CASE l # None /\ L[l].conn \in {"open", "dialing"}
    <3>1. PICK c \in {L[l].conn} \cup (IF L[l].conn = "dialing" THEN {"failed"} ELSE {}) :
            L' = [L EXCEPT ![l].conn = c]
      BY <2>1 DEF ForwardShare
    <3>2. c \in Conns /\ l \in Links
      BY <1>3, <2>1, <3>1 DEF Conns
    <3>3. L' \in [Links -> LinkStates] /\ Says(L, L') /\ SameTables(L, L')
      BY <1>1, <3>1, <3>2, ConnSet
    <3>4. share' = [share EXCEPT ![x].at = "pending"]
      BY <2>1 DEF ForwardShare
    <3> DEFINE y == [share[x] EXCEPT !.at = "pending"]
    <3>5. y \in ShareStates /\ Answered(y)
      BY <1>2, <1>3, <3>2 DEF ShareStates, Answered
    <3>6. share' = [share EXCEPT ![x] = y]
      BY <1>3, <3>4
    <3> HIDE DEF y
    <3>7. ShareTypes'
      BY <1>1, <3>5, <3>6, ShareSet
    <3> QED  BY <3>3, <3>7
  <2>2. CASE ~(l # None /\ L[l].conn \in {"open", "dialing"})
    <3>1. L' = L /\ share' = [share EXCEPT ![x].at = "over", ![x].got = share[x].got + 1]
      BY <2>2 DEF ForwardShare
    <3>2. ShareTypes'
      BY <1>1, <1>2, <3>1, ShareDone
    <3> QED  BY <1>1, <3>1, <3>2 DEF Says, SameTables
  <2> QED  BY <2>1, <2>2
<1>5. LinkTypes' /\ SessionTypes' /\ SessionsSound'
  BY <1>1, <1>2, <1>4, QuietStep
<1> QED  BY <1>4, <1>5 DEF ProxyInv

LEMMA ShareOverStep ==
  ASSUME ProxyInv, NEW x \in Shares, ShareAnswered(x) \/ ShareTimesOut(x)
  PROVE  ProxyInv'
<1>1. LinkTypes /\ SessionTypes /\ SessionsSound /\ ShareTypes /\ L \in [Links -> LinkStates]
  BY DEF ProxyInv, LinkTypes
<1>2. /\ UNCHANGED <<mode, v2, primary, waiters, casting, S, mail, jobs, downs>> /\ share[x].at # "over"
      /\ running' \in BOOLEAN /\ ups' \in 0..MaxUp /\ jobs <= ups' /\ L' = L
      /\ share' = [share EXCEPT ![x].at = "over", ![x].got = share[x].got + 1]
  BY <1>1 DEF ShareAnswered, ShareTimesOut, LinkTypes
<1>3. ShareTypes'
  BY <1>1, <1>2, ShareDone
<1>4. L' \in [Links -> LinkStates] /\ Says(L, L') /\ SameTables(L, L')
  BY <1>1, <1>2 DEF Says, SameTables
<1>5. LinkTypes' /\ SessionTypes' /\ SessionsSound'
  BY <1>1, <1>2, <1>4, QuietStep
<1> QED  BY <1>3, <1>5 DEF ProxyInv

LEMMA Counted ==
  ASSUME NEW T, NEW U, T \subseteq U, IsFiniteSet(U)
  PROVE  Cardinality(T) \in Nat /\ (Cardinality(T) > 0 <=> \E x \in U : x \in T)
<1>1. IsFiniteSet(T) /\ Cardinality(T) \in Nat
  BY FS_Subset, FS_CardinalityType
<1>2. Cardinality(T) = 0 <=> T = {}
  BY <1>1, FS_EmptySet
<1> QED  BY <1>1, <1>2

LEMMA CopiesType ==
  ASSUME NEW n \in Nat, NEW m \in Messages
  PROVE  Copies(n, m) \in Seq(Messages)
<1>1. Copies(n, m) \in [1..n -> Messages]
  BY DEF Copies
<1> QED  BY <1>1, SeqDef

LEMMA OnConnCloseStep ==
  ASSUME ProxyInv, NEW l \in Links, OnConnClose(l)
  PROVE  ProxyInv'
<1> DEFINE M == [L EXCEPT ![l].conn = "down", ![l].authorized = FALSE, ![l].subscribed = FALSE]
           x == [L[l] EXCEPT !.conn = "down", !.authorized = FALSE, !.subscribed = FALSE]
<1>1. LinkTypes /\ SessionTypes /\ SessionsSound /\ ShareTypes /\ L \in [Links -> LinkStates]
  BY DEF ProxyInv, LinkTypes
<1>2. UNCHANGED <<mode, v2, waiters, casting, S, share, running, jobs, ups, downs>>
  BY DEF OnConnClose, Aside
<1>3. M \in [Links -> LinkStates] /\ Says(L, M) /\ SameTables(L, M)
  <2>1. L[l] \in LinkStates /\ M = [L EXCEPT ![l] = x]
    BY <1>1
  <2>2. x \in LinkStates
    BY <2>1, ZenonT(60) DEF LinkStates
  <2>3. /\ x.subs = L[l].subs /\ x.diff = L[l].diff /\ x.job = L[l].job /\ x.en1 = L[l].en1 /\ x.first = L[l].first
    BY <2>1 DEF LinkStates
  <2> HIDE DEF x, M
  <2>4. M[l] = x /\ \A j \in Links : j # l => M[j] = L[j]
    BY <1>1, <2>1
  <2>5. M \in [Links -> LinkStates]
    BY <1>1, <2>1, <2>2
  <2> QED  BY <2>3, <2>4, <2>5 DEF Says, SameTables
<1>4. Migrate(l, M)
  BY DEF OnConnClose
<1> HIDE DEF M
<1> DEFINE t == Target(l, M)
<1>5. PICK order \in SetToSeqs(Taken(M[l].subs)) :
        /\ L' = MoveAll(l, order, M).links /\ mail' = Mailed(MoveAll(l, order, M).posts)
        /\ primary' = IF mode = "failover" /\ t # None THEN t ELSE IF primary = l THEN None ELSE primary
  BY <1>4 DEF Migrate
<1> DEFINE a == MoveAll(l, order, M)
<1>6. Moving(l, M, a)
  BY <1>1, <1>3, AllMoved
<1>7. t = None \/ t \in Links
  BY TargetIsElsewhere
<1> HIDE DEF a, t
<1>8. /\ L' = a.links /\ mail' = Mailed(a.posts) /\ a.links \in [Links -> LinkStates]
      /\ a.posts \in [Sessions -> Seq(Messages)] /\ Says(M, a.links)
  BY <1>5, <1>6 DEF Moving, a
<1>9. Casting(casting, L')
  <2>1. Casting(casting, M)
    BY <1>1, <1>3, CastingKept DEF LinkTypes
  <2> QED  BY <1>8, <2>1, CastingKept
<1>10. LinkTypes'
  <2>1. primary' \in Links \cup {None}
    BY <1>1, <1>5, <1>7 DEF LinkTypes
  <2> QED  BY <1>1, <1>2, <1>8, <1>9, <2>1 DEF LinkTypes
<1>11. ASSUME NEW s \in Sessions
       PROVE  Sound(v2, s, S[s], mail[s] \o a.posts[s], L', casting', waiters')
  <2>1. Sound(v2, s, S[s], mail[s], L, casting, waiters) /\ mail[s] \in Seq(Messages)
    BY <1>1 DEF SessionsSound, SessionTypes
  <2>2. Sound(v2, s, S[s], mail[s] \o a.posts[s], a.links, casting, waiters)
    BY <1>1, <1>3, <1>6, <2>1, MovedSound DEF SameTables
  <2> QED  BY <1>2, <1>8, <2>2
<1>12. SessionTypes' /\ SessionsSound'
  BY <1>1, <1>2, <1>8, <1>11, PostStep
<1> QED  BY <1>1, <1>2, <1>10, <1>12, SharesKept DEF ProxyInv

LEMMA SubscribedStep ==
  ASSUME ProxyInv, NEW l \in Links, Subscribed(l)
  PROVE  ProxyInv'
<1> DEFINE e == L[l].en1 + 1
           x == [L[l] EXCEPT !.en1 = e, !.first = e, !.subscribed = TRUE]
<1>1. LinkTypes /\ SessionTypes /\ SessionsSound /\ ShareTypes /\ L \in [Links -> LinkStates]
  BY DEF ProxyInv, LinkTypes
<1>2. /\ UNCHANGED <<mode, v2, primary, waiters, casting, S, mail, share, running, jobs, ups, downs>>
      /\ L' = [L EXCEPT ![l].en1 = e, ![l].first = e, ![l].subscribed = TRUE]
  BY DEF Subscribed, Aside
<1>3. L[l] \in LinkStates /\ L' = [L EXCEPT ![l] = x]
  BY <1>1, <1>2
<1>4. e \in Nat
  BY <1>3 DEF LinkStates
<1> HIDE DEF e
<1>5. x \in LinkStates
  BY <1>3, <1>4, ZenonT(60) DEF LinkStates
<1>6. x.subs = L[l].subs /\ x.diff = L[l].diff /\ x.job = L[l].job /\ x.en1 = e /\ x.first = e
  BY <1>3 DEF LinkStates
<1> HIDE DEF x
<1>7. L'[l] = x /\ \A j \in Links : j # l => L'[j] = L[j]
  BY <1>1, <1>3
<1>8. L' \in [Links -> LinkStates] /\ L'[l].en1 = L[l].en1 + 1 /\ L'[l].first = L[l].en1 + 1
  BY <1>1, <1>3, <1>5, <1>6, <1>7 DEF e
<1>9. \A j \in Links : L'[j].subs = L[j].subs /\ L'[j].diff = L[j].diff /\ L'[j].job = L[j].job
                       /\ (j # l => L'[j].first = L[j].first /\ L'[j].en1 = L[j].en1)
  BY <1>6, <1>7
<1>10. Casting(casting, L')
  BY <1>1, <1>9 DEF LinkTypes, Casting
<1>11. LinkTypes'
  BY <1>1, <1>2, <1>8, <1>10 DEF LinkTypes
<1>12. ASSUME NEW s \in Sessions
       PROVE  Sound(v2, s, S[s], mail[s], L', casting, waiters)
  <2>1. Sound(v2, s, S[s], mail[s], L, casting, waiters) /\ mail[s] \in Seq(Messages) /\ S[s] \in SessionStates
    BY <1>1 DEF SessionsSound, SessionTypes
  <2> QED  BY <1>1, <1>8, <1>9, <2>1, SubscriptionSound
<1>13. SessionTypes' /\ SessionsSound'
  BY <1>1, <1>2, <1>12 DEF SessionTypes, SessionsSound
<1> QED  BY <1>1, <1>2, <1>11, <1>13, SharesKept DEF ProxyInv

LEMMA AuthorizedStep ==
  ASSUME ProxyInv, NEW l \in Links, Authorized(l)
  PROVE  ProxyInv'
<1> DEFINE n(s) == Cardinality({i \in DOMAIN waiters : waiters[i] = s})
           m == Message("up")
           posts == [s \in Sessions |-> Copies(n(s), m)]
           x == [L[l] EXCEPT !.authorized = TRUE]
<1>1. /\ LinkTypes /\ SessionTypes /\ SessionsSound /\ ShareTypes /\ L \in [Links -> LinkStates]
      /\ waiters \in Seq(Sessions)
  BY DEF ProxyInv, LinkTypes
<1>2. /\ UNCHANGED <<mode, v2, primary, casting, S, share, running, jobs, ups, downs>>
      /\ L' = [L EXCEPT ![l].authorized = TRUE] /\ mail' = Mailed(posts) /\ waiters' = << >>
  BY DEF Authorized, Aside
<1>3. m \in Messages
  BY MessageTypes
<1>4. ASSUME NEW s \in Sessions
      PROVE  n(s) \in Nat /\ ((\E i \in DOMAIN waiters : waiters[i] = s) => n(s) > 0)
  <2> DEFINE T == {i \in DOMAIN waiters : waiters[i] = s}
  <2>1. IsFiniteSet(DOMAIN waiters) /\ T \subseteq DOMAIN waiters
    <3>1. DOMAIN waiters = 1..Len(waiters) /\ 1 \in Int /\ Len(waiters) \in Int
      BY <1>1
    <3> QED  BY <3>1, FS_Interval
  <2>2. Cardinality(T) \in Nat /\ (Cardinality(T) > 0 <=> \E i \in DOMAIN waiters : i \in T)
    BY <2>1, Counted
  <2> QED  BY <2>2
<1> HIDE DEF n, m
<1>5. posts \in [Sessions -> Seq(Messages)] /\ \A s \in Sessions : posts[s] = Copies(n(s), m)
  BY <1>3, <1>4, CopiesType
<1> HIDE DEF posts
<1>6. L' \in [Links -> LinkStates] /\ Says(L, L') /\ SameTables(L, L')
  <2>1. L[l] \in LinkStates /\ L' = [L EXCEPT ![l] = x]
    BY <1>1, <1>2
  <2>2. x \in LinkStates
    BY <2>1, ZenonT(60) DEF LinkStates
  <2>3. /\ x.subs = L[l].subs /\ x.diff = L[l].diff /\ x.job = L[l].job /\ x.en1 = L[l].en1 /\ x.first = L[l].first
    BY <2>1 DEF LinkStates
  <2> HIDE DEF x
  <2>4. L'[l] = x /\ \A j \in Links : j # l => L'[j] = L[j]
    BY <1>1, <2>1
  <2>5. L' \in [Links -> LinkStates]
    BY <1>1, <2>1, <2>2
  <2> QED  BY <2>3, <2>4, <2>5 DEF Says, SameTables
<1>7. Casting(casting, L')
  BY <1>1, <1>6, CastingKept DEF LinkTypes
<1>8. LinkTypes'
  <2>1. << >> \in Seq(Sessions)
    OBVIOUS
  <2> QED  BY <1>1, <1>2, <1>6, <1>7, <2>1 DEF LinkTypes
<1>9. ASSUME NEW s \in Sessions
      PROVE  Sound(v2, s, S[s], mail[s] \o posts[s], L', casting', waiters')
  <2>1. Sound(v2, s, S[s], mail[s], L, casting, waiters) /\ mail[s] \in Seq(Messages) /\ n(s) \in Nat
    BY <1>1, <1>4 DEF SessionsSound, SessionTypes
  <2>2. Kept(s, L, L')
    BY <1>6, TablesKept
  <2>3. Sound(v2, s, S[s], mail[s] \o Copies(n(s), Message("up")), L', casting, << >>)
    BY <1>4, <2>1, <2>2, UpSound
  <2> QED  BY <1>2, <1>5, <2>3 DEF m
<1>10. SessionTypes' /\ SessionsSound'
  BY <1>1, <1>2, <1>5, <1>9, PostStep
<1> QED  BY <1>1, <1>2, <1>8, <1>10, SharesKept DEF ProxyInv

\* What the strand has set on link l and will post: until then its holders are behind.
LEMMA SetSound ==
  ASSUME NEW V, NEW s, NEW r, NEW q, NEW M, NEW M2, NEW w, NEW what \in {"diff", "job"}, NEW l0 \in Links,
         Sound(V, s, r, q, M, Idle, w),
         \A l \in Links : /\ M2[l].subs = M[l].subs /\ M2[l].en1 = M[l].en1 /\ M2[l].first = M[l].first
                          /\ (l # l0 \/ what = "job" => M2[l].diff = M[l].diff)
                          /\ (l # l0 \/ what = "diff" => M2[l].job = M[l].job)
  PROVE  Sound(V, s, r, q, M2, Cast(what, l0), w)
<1>1. Standing(V, s, r) /\ Named(q) /\ Waiting(V, s, r, q, w) /\ Served(V, s, r, q, M, Idle)
  BY DEF Sound
<1>2. Served(V, s, r, q, M2, Cast(what, l0))
  <2> SUFFICES ASSUME r.open, ~r.twice
               PROVE  /\ Unattached(s, r, q, M2)
                      /\ \A l \in Links, k \in Slots :
                           M2[l].subs[k] = s => Follows(r, q, M2[l], Cast(what, l0), l, k)
                      /\ Told(V, s, r)
    BY DEF Served
  <2>1. Unattached(s, r, q, M) /\ Told(V, s, r)
    BY <1>1 DEF Served
  <2>2. Unattached(s, r, q, M2)
    BY <2>1 DEF Unattached
  <2>3. ASSUME NEW l \in Links, NEW k \in Slots, M2[l].subs[k] = s
        PROVE  Follows(r, q, M2[l], Cast(what, l0), l, k)
    <3>1. Follows(r, q, M[l], Idle, l, k)
      BY <1>1, <2>3 DEF Served
    <3>2. Idle # Cast("diff", l) /\ Idle # Cast("job", l)
      BY DEF Idle, Cast
    <3>3. BoundTo(r, q, l, k) /\ HasNonce(r, q, M2[l])
      BY <3>1 DEF Follows, HasNonce, Current
    <3>4. RatedAt(r, q, M[l].diff) /\ (M[l].job # None => WorksOn(r, q, M[l].job))
      BY <3>1, <3>2 DEF Follows
    <3>5. RatedAt(r, q, M2[l].diff) \/ Cast(what, l0) = Cast("diff", l)
      <4>1. CASE l = l0 /\ what = "diff"
        BY <4>1
      <4>2. CASE ~(l = l0 /\ what = "diff")
        BY <3>4, <4>2
      <4> QED  BY <4>1, <4>2
    <3>6. M2[l].job # None => WorksOn(r, q, M2[l].job) \/ Cast(what, l0) = Cast("job", l)
      <4>1. CASE l = l0 /\ what = "job"
        BY <4>1
      <4>2. CASE ~(l = l0 /\ what = "job")
        BY <3>4, <4>2
      <4> QED  BY <4>1, <4>2
    <3> QED  BY <3>3, <3>5, <3>6 DEF Follows
  <2> QED  BY <2>1, <2>2, <2>3
<1> QED  BY <1>1, <1>2 DEF Sound

LEMMA SetDifficultyStep ==
  ASSUME ProxyInv, NEW l \in Links, SetDifficulty(l)
  PROVE  ProxyInv'
<1>1. LinkTypes /\ SessionTypes /\ SessionsSound /\ ShareTypes /\ L \in [Links -> LinkStates]
  BY DEF ProxyInv, LinkTypes
<1>2. PICK d \in Diffs : L' = [L EXCEPT ![l].diff = d]
  BY DEF SetDifficulty
<1> DEFINE x == [L[l] EXCEPT !.diff = d]
<1>3. /\ UNCHANGED <<mode, v2, primary, waiters, S, mail, share, running, jobs, downs>> /\ Unasked
      /\ casting = Idle /\ casting' = Cast("diff", l)
  BY DEF SetDifficulty, Line, Free, Aside, Cast
<1>4. L[l] \in LinkStates /\ L' = [L EXCEPT ![l] = x]
  BY <1>1, <1>2
<1>5. x \in LinkStates
  BY <1>4, ZenonT(60) DEF LinkStates
<1>6. x.subs = L[l].subs /\ x.job = L[l].job /\ x.en1 = L[l].en1 /\ x.first = L[l].first
  BY <1>4 DEF LinkStates
<1> HIDE DEF x
<1>7. L'[l] = x /\ (\A j \in Links : j # l => L'[j] = L[j]) /\ L' \in [Links -> LinkStates]
  BY <1>1, <1>4, <1>5
<1>8. LinkTypes'
  <2>1. Casting(casting', L')
    BY <1>3 DEF Casting
  <2>2. ups' \in 0..MaxUp /\ jobs <= ups'
    BY <1>1, <1>3, OneMoreUnasked
  <2> QED  BY <1>1, <1>3, <1>7, <2>1, <2>2 DEF LinkTypes
<1>9. \A j \in Links : /\ L'[j].subs = L[j].subs /\ L'[j].en1 = L[j].en1 /\ L'[j].first = L[j].first
                       /\ (j # l => L'[j].diff = L[j].diff) /\ L'[j].job = L[j].job
  BY <1>6, <1>7
<1>10. ASSUME NEW s \in Sessions
       PROVE  Sound(v2, s, S[s], mail[s], L', casting', waiters)
  <2>1. Sound(v2, s, S[s], mail[s], L, Idle, waiters)
    BY <1>1, <1>3 DEF SessionsSound
  <2>2. Sound(v2, s, S[s], mail[s], L', Cast("diff", l), waiters)
    BY <1>9, <2>1, SetSound
  <2> QED  BY <1>3, <2>2
<1>11. SessionTypes' /\ SessionsSound'
  BY <1>1, <1>3, <1>10 DEF SessionTypes, SessionsSound
<1> QED  BY <1>1, <1>3, <1>8, <1>11, SharesKept DEF ProxyInv

LEMMA NotifyStep ==
  ASSUME ProxyInv, NEW l \in Links, Notify(l)
  PROVE  ProxyInv'
<1> DEFINE n == jobs + 1
           x == [L[l] EXCEPT !.job = n]
<1>1. LinkTypes /\ SessionTypes /\ SessionsSound /\ ShareTypes /\ L \in [Links -> LinkStates]
  BY DEF ProxyInv, LinkTypes
<1>2. /\ UNCHANGED <<mode, v2, primary, waiters, S, mail, share, running, downs>> /\ Unasked
      /\ casting = Idle /\ casting' = Cast("job", l) /\ jobs' = n /\ L' = [L EXCEPT ![l].job = n]
  BY DEF Notify, Line, Free, Aside, Cast
<1>3. ups' \in 0..MaxUp /\ n <= ups' /\ n \in 0..MaxUp /\ n # None
  BY <1>1, <1>2, OneMoreUnasked
<1>4. n \in Nat
  BY <1>1 DEF LinkTypes
<1> HIDE DEF n
<1>5. L[l] \in LinkStates /\ L' = [L EXCEPT ![l] = x]
  BY <1>1, <1>2
<1>6. x \in LinkStates
  BY <1>3, <1>5, ZenonT(60) DEF LinkStates
<1>7. x.subs = L[l].subs /\ x.diff = L[l].diff /\ x.en1 = L[l].en1 /\ x.first = L[l].first /\ x.job = n
  BY <1>5 DEF LinkStates
<1> HIDE DEF x
<1>8. L'[l] = x /\ (\A j \in Links : j # l => L'[j] = L[j]) /\ L' \in [Links -> LinkStates]
  BY <1>1, <1>5, <1>6
<1>9. LinkTypes'
  <2>1. Casting(casting', L')
    BY <1>2, <1>3, <1>7, <1>8 DEF Casting
  <2> QED  BY <1>1, <1>2, <1>3, <1>4, <1>8, <2>1 DEF LinkTypes
<1>10. \A j \in Links : /\ L'[j].subs = L[j].subs /\ L'[j].en1 = L[j].en1 /\ L'[j].first = L[j].first
                        /\ L'[j].diff = L[j].diff /\ (j # l => L'[j].job = L[j].job)
  BY <1>7, <1>8
<1>11. ASSUME NEW s \in Sessions
       PROVE  Sound(v2, s, S[s], mail[s], L', casting', waiters)
  <2>1. Sound(v2, s, S[s], mail[s], L, Idle, waiters)
    BY <1>1, <1>2 DEF SessionsSound
  <2>2. Sound(v2, s, S[s], mail[s], L', Cast("job", l), waiters)
    BY <1>10, <2>1, SetSound
  <2> QED  BY <1>2, <2>2
<1>12. SessionTypes' /\ SessionsSound'
  BY <1>1, <1>2, <1>11 DEF SessionTypes, SessionsSound
<1> QED  BY <1>1, <1>2, <1>9, <1>12, SharesKept DEF ProxyInv

\* How often session s is among the holders of the slots of a link.
Holds(s, link) == Cardinality({k \in Slots : link.subs[k] = s})

LEMMA HoldersCounted ==
  ASSUME NEW s, NEW link
  PROVE  Holds(s, link) \in Nat /\ (Holds(s, link) > 0 <=> \E k \in Slots : link.subs[k] = s)
<1> DEFINE T == {k \in Slots : link.subs[k] = s}
<1>1. IsFiniteSet(Slots) /\ T \subseteq Slots
  BY Constants
<1>2. Cardinality(T) \in Nat /\ (Cardinality(T) > 0 <=> \E k \in Slots : k \in T)
  BY <1>1, Counted
<1> QED  BY <1>2 DEF Holds

\* What is posted to the holders of link l.
LEMMA HoldersPosted ==
  ASSUME NEW l, NEW m \in Messages
  PROVE  \E posts \in [Sessions -> Seq(Messages)] :
           ToHolders(l, m) = Mailed(posts) /\ \A s \in Sessions : posts[s] = Copies(Holds(s, L[l]), m)
<1> DEFINE posts == [s \in Sessions |-> Copies(Holds(s, L[l]), m)]
<1>1. posts \in [Sessions -> Seq(Messages)]
  BY HoldersCounted, CopiesType
<1>2. ToHolders(l, m) = Mailed(posts)
  BY DEF ToHolders, Holds
<1> HIDE DEF posts
<1>3. \A s \in Sessions : posts[s] = Copies(Holds(s, L[l]), m)
  BY DEF posts
<1> QED  BY <1>1, <1>2, <1>3

LEMMA BroadcastStep ==
  ASSUME ProxyInv, Broadcast
  PROVE  ProxyInv'
<1> DEFINE l == casting.link
           m == [Message(casting.what) EXCEPT !.job = L[l].job, !.diff = L[l].diff]
<1>1. LinkTypes /\ SessionTypes /\ SessionsSound /\ ShareTypes /\ L \in [Links -> LinkStates]
  BY DEF ProxyInv, LinkTypes
<1>2. /\ UNCHANGED <<mode, v2, primary, L, waiters, S, share, running, jobs, ups, downs>>
      /\ casting # Idle /\ casting' = Idle /\ mail' = ToHolders(l, m)
  BY DEF Broadcast, Aside
<1>3. l \in Links /\ (casting = Cast("diff", l) \/ (casting = Cast("job", l) /\ L[l].job # None))
  BY <1>1, <1>2 DEF LinkTypes, Casting, Cast
<1>4. casting.what \in {"job", "diff"} /\ casting = Cast(casting.what, l)
  BY <1>3 DEF Cast
<1>5. m \in Messages /\ m.what = casting.what /\ m.job = L[l].job /\ m.diff = L[l].diff
  <2>1. L[l].job \in 0..MaxUp /\ L[l].diff \in Diffs \cup {1}
    BY <1>1, <1>3 DEF LinkStates
  <2>2. m = Word(casting.what, L[l].job, L[l].diff)
    BY DEF Word
  <2> HIDE DEF m
  <2> QED  BY <1>4, <2>1, <2>2, WordType
<1> HIDE DEF m
<1>6. PICK posts \in [Sessions -> Seq(Messages)] :
        mail' = Mailed(posts) /\ \A s \in Sessions : posts[s] = Copies(Holds(s, L[l]), m)
  BY <1>2, <1>5, HoldersPosted
<1>7. LinkTypes'
  <2>1. Casting(casting', L')
    BY <1>2 DEF Casting
  <2> QED  BY <1>1, <1>2, <2>1 DEF LinkTypes
<1>8. ASSUME NEW s \in Sessions
      PROVE  Sound(v2, s, S[s], mail[s] \o posts[s], L', casting', waiters')
  <2> DEFINE n == Holds(s, L[l])
  <2>1. Sound(v2, s, S[s], mail[s], L, casting, waiters) /\ mail[s] \in Seq(Messages)
    BY <1>1 DEF SessionsSound, SessionTypes
  <2>2. n \in Nat /\ (n > 0 <=> \E k \in Slots : L[l].subs[k] = s)
    BY HoldersCounted
  <2> HIDE DEF n, l
  <2>3. Sound(v2, s, S[s], mail[s] \o Copies(n, m), L, Idle, waiters)
    <3>1. CASE casting = Cast("diff", l)
      <4>1. m.what = "diff"
        BY <1>5, <3>1 DEF Cast
      <4> QED  BY <1>3, <1>5, <2>1, <2>2, <3>1, <4>1, DiffSound
    <3>2. CASE casting = Cast("job", l) /\ L[l].job # None
      <4>1. m.what = "job"
        BY <1>5, <3>2 DEF Cast
      <4> QED  BY <1>3, <1>5, <2>1, <2>2, <3>2, <4>1, JobSound
    <3> QED  BY <1>3, <3>1, <3>2
  <2> QED  BY <1>2, <1>6, <2>3 DEF n
<1>9. SessionTypes' /\ SessionsSound'
  BY <1>1, <1>2, <1>6, <1>8, PostStep
<1> QED  BY <1>1, <1>2, <1>7, <1>9, SharesKept DEF ProxyInv

LEMMA SetExtranonceStep ==
  ASSUME ProxyInv, NEW l \in Links, SetExtranonce(l)
  PROVE  ProxyInv'
<1> DEFINE e == L[l].en1 + 1
           x == [L[l] EXCEPT !.en1 = e]
           m == [Message("extranonce") EXCEPT !.en1 = e]
<1>1. LinkTypes /\ SessionTypes /\ SessionsSound /\ ShareTypes /\ L \in [Links -> LinkStates]
  BY DEF ProxyInv, LinkTypes
<1>2. /\ UNCHANGED <<mode, v2, primary, waiters, casting, S, share, running, jobs, downs>> /\ Unasked
      /\ L' = [L EXCEPT ![l].en1 = e] /\ mail' = ToHolders(l, m)
  BY DEF SetExtranonce, Aside
<1>3. L[l] \in LinkStates /\ L' = [L EXCEPT ![l] = x]
  BY <1>1, <1>2
<1>4. e \in Nat
  BY <1>3 DEF LinkStates
<1> HIDE DEF e
<1>5. x \in LinkStates
  BY <1>3, <1>4, ZenonT(60) DEF LinkStates
<1>6. x.subs = L[l].subs /\ x.diff = L[l].diff /\ x.job = L[l].job /\ x.first = L[l].first /\ x.en1 = e
  BY <1>3 DEF LinkStates
<1>7. m \in Messages /\ m.what = "extranonce" /\ m.en1 = e
  BY <1>4, MessageTypes
<1> HIDE DEF x, m
<1>8. L'[l] = x /\ (\A j \in Links : j # l => L'[j] = L[j]) /\ L' \in [Links -> LinkStates]
  BY <1>1, <1>3, <1>5
<1>9. \A j \in Links : L'[j].subs = L[j].subs /\ L'[j].diff = L[j].diff /\ L'[j].job = L[j].job
                       /\ L'[j].first = L[j].first /\ (j # l => L'[j].en1 = L[j].en1)
  BY <1>6, <1>8
<1>10. m.en1 = L'[l].en1 /\ L'[l].en1 \in Nat
  BY <1>4, <1>6, <1>7, <1>8
<1>11. PICK posts \in [Sessions -> Seq(Messages)] :
         mail' = Mailed(posts) /\ \A s \in Sessions : posts[s] = Copies(Holds(s, L[l]), m)
  BY <1>2, <1>7, HoldersPosted
<1>12. LinkTypes'
  <2>1. Casting(casting, L')
    BY <1>1, <1>9 DEF LinkTypes, Casting
  <2>2. ups' \in 0..MaxUp /\ jobs <= ups'
    BY <1>1, <1>2, OneMoreUnasked
  <2> QED  BY <1>1, <1>2, <1>8, <2>1, <2>2 DEF LinkTypes
<1>13. ASSUME NEW s \in Sessions
       PROVE  Sound(v2, s, S[s], mail[s] \o posts[s], L', casting', waiters')
  <2> DEFINE n == Holds(s, L[l])
  <2>1. Sound(v2, s, S[s], mail[s], L, casting, waiters) /\ mail[s] \in Seq(Messages)
    BY <1>1 DEF SessionsSound, SessionTypes
  <2>2. n \in Nat /\ (n > 0 <=> \E k \in Slots : L[l].subs[k] = s)
    BY HoldersCounted
  <2> HIDE DEF n
  <2>3. Sound(v2, s, S[s], mail[s] \o Copies(n, m), L', casting, waiters)
    BY <1>1, <1>7, <1>9, <1>10, <2>1, <2>2, NonceSound, ZenonT(60)
  <2> QED  BY <1>2, <1>11, <2>3 DEF n
<1>14. SessionTypes' /\ SessionsSound'
  BY <1>1, <1>2, <1>11, <1>13, PostStep
<1> QED  BY <1>1, <1>2, <1>12, <1>14, SharesKept DEF ProxyInv

LEMMA StrandKeepsInv ==
  ASSUME ProxyInv, Strand
  PROVE  ProxyInv'
<1>1. ASSUME NEW l \in Links, ConnCloses(l) \/ Refused(l) PROVE ProxyInv'
  BY <1>1, ConnClosesStep
<1>2. ASSUME NEW x \in Shares, ShareAnswered(x) \/ ShareTimesOut(x) PROVE ProxyInv'
  BY <1>2, ShareOverStep
<1> QED  BY <1>1, <1>2, ConnectLinkStep, OnConnOpenStep, OnConnCloseStep, SubscribedStep, AuthorizedStep,
            SetDifficultyStep, NotifyStep, SetExtranonceStep, BroadcastStep, StopStep, ForwardShareStep DEF Strand

LEMMA InvAtStart == Init => ProxyInv
<1> SUFFICES ASSUME Init PROVE ProxyInv
  OBVIOUS
<1> DEFINE link == [conn |-> "dialing", authorized |-> FALSE, subscribed |-> FALSE,
                    en1 |-> None, first |-> None, job |-> None, diff |-> 1, next |-> 0,
                    subs |-> [k \in Slots |-> Nobody]]
           fresh == [Gone EXCEPT !.open = TRUE]
<1>1. 0 \in Slots /\ 0 \in Nat /\ 0 \in 0..MaxUp /\ 0 \in 0..MaxDown /\ Nobody \notin Sessions
  BY Constants, ProxyConstants
<1>2. link \in LinkStates /\ \A k \in Slots : link.subs[k] = Nobody
  BY <1>1 DEF LinkStates, None
<1>3. /\ fresh \in SessionStates /\ fresh.open /\ ~fresh.sub /\ fresh.pc = "idle" /\ ~fresh.pend /\ ~fresh.twice
      /\ ~fresh.auth /\ fresh.told = None /\ fresh.job = None
  BY <1>1 DEF Gone, SessionStates, None
<1> HIDE DEF link, fresh
<1>4. /\ mode \in Modes /\ v2 \in V2Sets /\ primary = None /\ L = [l \in Links |-> link]
      /\ waiters = << >> /\ casting = Idle /\ S = [s \in Sessions |-> fresh]
      /\ mail = [s \in Sessions |-> << >>] /\ running = TRUE /\ jobs = 0 /\ ups = 0 /\ downs = 0
      /\ share = [x \in Shares |-> [at |-> "none", link |-> None, got |-> 0]]
  BY DEF Init, link, fresh
<1>5. LinkTypes
  <2>1. << >> \in Seq(Sessions) /\ jobs \in Nat /\ jobs <= ups /\ ups \in 0..MaxUp /\ downs \in 0..MaxDown
    BY <1>1, <1>4
  <2>2. L \in [Links -> LinkStates]
    BY <1>2, <1>4
  <2>3. Casting(casting, L)
    BY <1>4 DEF Casting
  <2> QED  BY <1>4, <2>1, <2>2, <2>3 DEF LinkTypes
<1>6. SessionTypes
  <2>1. << >> \in Seq(Messages)
    OBVIOUS
  <2> QED  BY <1>3, <1>4, <2>1 DEF SessionTypes
<1>7. ShareTypes
  BY <1>4 DEF ShareTypes, ShareStates, Answered
<1>8. ASSUME NEW s \in Sessions
      PROVE  Sound(v2, s, S[s], mail[s], L, casting, waiters)
  <2>1. S[s] = fresh /\ mail[s] = << >> /\ \A l \in Links, k \in Slots : L[l].subs[k] # s
    BY <1>1, <1>2, <1>4
  <2>2. Standing(v2, s, S[s]) /\ Named(mail[s]) /\ Waiting(v2, s, S[s], mail[s], waiters) /\ Told(v2, s, S[s])
    BY <1>3, <2>1 DEF Standing, Named, Waiting, Told
  <2>3. Served(v2, s, S[s], mail[s], L, casting)
    BY <2>1, <2>2 DEF Served, Unattached
  <2> QED  BY <2>2, <2>3 DEF Sound
<1> QED  BY <1>5, <1>6, <1>7, <1>8 DEF ProxyInv, SessionsSound

LEMMA InvAlways == Spec => []ProxyInv
<1>1. Init => ProxyInv
  BY InvAtStart
<1>2. ProxyInv /\ [Next]_vars => ProxyInv'
  <2> SUFFICES ASSUME ProxyInv, [Next]_vars PROVE ProxyInv'
    OBVIOUS
  <2>1. CASE Next
    BY <2>1, StrandKeepsInv, MinersKeepInv DEF Next
  <2>2. CASE UNCHANGED vars
    <3>1. /\ UNCHANGED <<mode, v2, primary, L, waiters, casting, S, mail>>
          /\ UNCHANGED <<share, running, jobs, ups, downs>>
      BY <2>2 DEF vars
    <3>2. LinkTypes' /\ SessionTypes' /\ ShareTypes'
      BY <3>1 DEF ProxyInv, LinkTypes, SessionTypes, ShareTypes
    <3>3. SessionsSound'
      BY <3>1 DEF ProxyInv, SessionsSound
    <3> QED  BY <3>2, <3>3 DEF ProxyInv
  <2> QED  BY <2>1, <2>2
<1> QED  BY <1>1, <1>2, PTL DEF Spec

\* The type of every variable of the proxy, whatever the links, the sessions and the
\* bounds; and no forwarded share ever has a second verdict, whichever of the answer, the
\* timeout and the reconnection comes first.
THEOREM OneVerdictEach == Spec => []OneVerdict
  BY InvAlways, InvGivesTypes, PTL

\* A miner whose subscribe was held is on the list of waiters, on its way to it, or has
\* the word that a link is up in its mailbox: notify_waiters clears the list while miners
\* join it, and forgets none.
THEOREM WaitersAreKnown == Spec => []WaiterKnown
  BY InvAlways, InvGivesWaiters, PTL

\* A miner that holds a slot works at the difficulty, on the job and with the extranonce of
\* its link once it has run what the client posted to it: attaching, a link's messages and
\* the migration of a failed link interleave on two strands and in its mailbox.
THEOREM MinersFollowTheirLink == Spec => []InStep
  BY InvAlways, InvGivesInStep, PTL
=============================================================================
