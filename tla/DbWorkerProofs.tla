--------------------------- MODULE DbWorkerProofs ---------------------------
(***************************************************************************)
(* What holds of the database worker for any workers, hashes, cap and      *)
(* number of records, outages and restarts: no kind of record is           *)
(* reordered, and the accounting of rounds is exact.                       *)
(***************************************************************************)
EXTENDS DbWorker, SequenceTheorems, WellFoundedInduction, TLAPS

(***************************************************************************)
(* Kinds, records and the extremes of a set of places.                     *)
(***************************************************************************)

LEMMA TheKinds ==
  /\ Kinds = {"presence", "share", "best", "block"}
  /\ Keys["presence"] = Workers /\ Keys["share"] = {NoKey} /\ Keys["best"] = {NoKey}
  /\ Keys["block"] = ParentHashes \cup AuxHashes
  BY DEF Kinds, Keys

LEMMA NewRecord ==
  ASSUME NEW k \in Kinds, NEW key \in Keys[k], NEW n \in Numbers
  PROVE  [at |-> n, key |-> key] \in Records
  BY DEF Records

LEMMA Numbering == MaxRecords \in Nat /\ Numbers \subseteq Nat /\ \A r \in Records : r.at \in Numbers
  BY WorkerConstants DEF Numbers, Records

LEMMA FirstPlace ==
  ASSUME NEW T, T \subseteq Nat, T # {}
  PROVE  /\ Min(T) \in T
         /\ \A j \in T : Min(T) <= j
<1>1. IsWellFoundedOn(OpToRel(<, Nat), Nat)
  BY NatLessThanWellFounded
<1>2. PICK x \in T : \A y \in T : ~(<<y, x>> \in OpToRel(<, Nat))
  BY <1>1, WFMin
<1>3. \A y \in T : ~(y < x)
  BY <1>2 DEF OpToRel
<1>4. \A y \in T : x <= y
  BY <1>3
<1> QED  BY <1>4 DEF Min

LEMMA LastPlace ==
  ASSUME NEW n \in Nat, NEW T, T \subseteq 1..n, T # {}
  PROVE  /\ Max(T) \in T
         /\ \A j \in T : j <= Max(T)
<1> DEFINE U == {n - i : i \in T}
<1>1. U \subseteq Nat /\ U # {}
  <2>1. \A i \in 1..n : n - i \in Nat
    OBVIOUS
  <2>2. PICK i \in T : TRUE
    OBVIOUS
  <2>3. n - i \in U
    BY <2>2
  <2> QED  BY <2>1, <2>3
<1>2. Min(U) \in U /\ \A j \in U : Min(U) <= j
  BY <1>1, FirstPlace
<1>3. PICK x \in T : Min(U) = n - x
  BY <1>2
<1>4. \A y \in T : n - x <= n - y
  BY <1>2, <1>3
<1>5. \A y \in T : x >= y
  BY <1>4
<1> QED  BY <1>5 DEF Max

(***************************************************************************)
(* The ways records move: every step is one of these six.                  *)
(***************************************************************************)

Accepts ==
  \E k \in Kinds : \E key \in Keys[k] :
    /\ clock < MaxRecords /\ clock' = clock + 1
    /\ queue' = [queue EXCEPT ![k] = Append(@, [at |-> clock + 1, key |-> key])]
    /\ batch' = batch /\ settled' = settled

Drains == /\ batch = Nothing /\ batch' = queue /\ queue' = Nothing
          /\ settled' = settled /\ clock' = clock

Requeues == /\ queue' = [k \in Kinds |-> batch[k] \o queue[k]] /\ batch' = Nothing
            /\ settled' = settled /\ clock' = clock

Settles == /\ settled' = [k \in Kinds |-> settled[k] \o batch[k]] /\ batch' = Nothing
           /\ queue' = queue /\ clock' = clock

Forgets == /\ settled' = [k \in Kinds |-> settled[k] \o batch[k] \o queue[k]]
           /\ batch' = Nothing /\ queue' = Nothing /\ clock' = clock

Stays == queue' = queue /\ batch' = batch /\ settled' = settled /\ clock' = clock

LEMMA Movements ==
  TypeOK /\ [Next]_vars =>
    Accepts \/ Drains \/ Requeues \/ Settles \/ Forgets \/ Stays
<1> SUFFICES ASSUME TypeOK, [Next]_vars
             PROVE  Accepts \/ Drains \/ Requeues \/ Settles \/ Forgets \/ Stays
  OBVIOUS
<1>1. ASSUME NEW k \in Kinds, NEW key \in Keys[k], Enqueue(k, key) PROVE Accepts
  BY <1>1 DEF Enqueue, Accepts
<1>2. CASE Stop \/ Connect \/ FlushStatements
  BY <1>2 DEF Stop, Connect, FlushStatements, Stays
<1>3. CASE Drain
  BY <1>3 DEF Drain, Drains, TypeOK
<1>4. CASE FlushBroken
  BY <1>4 DEF FlushBroken, Requeue, Requeues
<1>5. CASE FlushRefused \/ Commit \/ CommitInDoubt
  BY <1>5 DEF FlushRefused, Commit, CommitInDoubt, Settle, Settles
<1>6. CASE DbDown \/ DbBack
  BY <1>6 DEF DbDown, DbBack, Stays
<1>7. CASE Restart
  BY <1>7 DEF Restart, Forgets
<1>8. CASE UNCHANGED vars
  BY <1>8 DEF vars, Stays
<1> QED  BY <1>1, <1>2, <1>3, <1>4, <1>5, <1>6, <1>7, <1>8 DEF Next, Worker

(***************************************************************************)
(* Type correctness.                                                       *)
(***************************************************************************)

HeldType == /\ queue \in [Kinds -> Seq(Records)] /\ batch \in [Kinds -> Seq(Records)]
            /\ settled \in [Kinds -> Seq(Records)] /\ clock \in 0..MaxRecords

LEMMA NothingType == Nothing \in [Kinds -> Seq(Records)]
  BY EmptySeq DEF Nothing

\* What the worker holds of a kind has a key of that kind.
RecordsOf(k) == [at : Numbers, key : Keys[k]]
KeyedInv == \A k \in Kinds : queue[k] \in Seq(RecordsOf(k)) /\ batch[k] \in Seq(RecordsOf(k))

LEMMA NothingKeyed == \A k \in Kinds : Nothing[k] = << >> /\ Nothing[k] \in Seq(RecordsOf(k))
  BY EmptySeq DEF Nothing

LEMMA KeyedStep == TypeOK /\ KeyedInv /\ [Next]_vars => KeyedInv'
<1> SUFFICES ASSUME TypeOK, KeyedInv, [Next]_vars PROVE KeyedInv'
  OBVIOUS
<1>1. CASE Accepts
  <2>1. PICK k \in Kinds : \E key \in Keys[k] :
          /\ clock < MaxRecords
          /\ queue' = [queue EXCEPT ![k] = Append(@, [at |-> clock + 1, key |-> key])]
    BY <1>1 DEF Accepts
  <2>2. PICK key \in Keys[k] :
          /\ clock < MaxRecords
          /\ queue' = [queue EXCEPT ![k] = Append(@, [at |-> clock + 1, key |-> key])]
    BY <2>1
  <2>3. [at |-> clock + 1, key |-> key] \in RecordsOf(k)
    BY <2>2, Numbering DEF RecordsOf, Numbers, TypeOK
  <2>4. Append(queue[k], [at |-> clock + 1, key |-> key]) \in Seq(RecordsOf(k))
    BY <2>3, AppendProperties DEF KeyedInv
  <2>5. \A l \in Kinds : queue'[l] \in Seq(RecordsOf(l))
    BY <2>2, <2>4 DEF KeyedInv, TypeOK
  <2> QED  BY <1>1, <2>5 DEF KeyedInv, Accepts
<1>2. CASE Drains
  BY <1>2, NothingKeyed DEF Drains, KeyedInv
<1>3. CASE Requeues
  <2>1. \A k \in Kinds : batch[k] \o queue[k] \in Seq(RecordsOf(k))
    BY ConcatProperties DEF KeyedInv
  <2> QED  BY <1>3, <2>1, NothingKeyed DEF Requeues, KeyedInv
<1>4. CASE Settles \/ Forgets \/ Stays
  BY <1>4, NothingKeyed DEF Settles, Forgets, Stays, KeyedInv
<1> QED  BY <1>1, <1>2, <1>3, <1>4, Movements

LEMMA HeldTypeStep == TypeOK /\ [Next]_vars => HeldType'
<1> SUFFICES ASSUME TypeOK, [Next]_vars PROVE HeldType'
  OBVIOUS
<1>0. HeldType
  BY DEF TypeOK, HeldType
<1>1. CASE Accepts
  <2>0. PICK k \in Kinds : \E key \in Keys[k] :
          /\ clock < MaxRecords /\ clock' = clock + 1
          /\ queue' = [queue EXCEPT ![k] = Append(@, [at |-> clock + 1, key |-> key])]
    BY <1>1 DEF Accepts
  <2>1. PICK key \in Keys[k] :
          /\ clock < MaxRecords /\ clock' = clock + 1
          /\ queue' = [queue EXCEPT ![k] = Append(@, [at |-> clock + 1, key |-> key])]
    BY <2>0
  <2>2. clock + 1 \in Numbers /\ clock' \in 0..MaxRecords
    BY <1>0, <2>1, Numbering DEF HeldType, Numbers
  <2>3. Append(queue[k], [at |-> clock + 1, key |-> key]) \in Seq(Records)
    BY <1>0, <2>2, NewRecord, AppendProperties DEF HeldType
  <2> QED  BY <1>0, <1>1, <2>1, <2>2, <2>3, SMTT(40) DEF HeldType, Accepts
<1>2. CASE Drains
  BY <1>0, <1>2, NothingType DEF Drains, HeldType
<1>3. CASE Requeues
  BY <1>0, <1>3, NothingType, ConcatProperties DEF Requeues, HeldType
<1>4. CASE Settles
  BY <1>0, <1>4, NothingType, ConcatProperties DEF Settles, HeldType
<1>5. CASE Forgets
  <2>1. \A k \in Kinds : settled[k] \o batch[k] \o queue[k] \in Seq(Records)
    BY <1>0, ConcatProperties DEF HeldType
  <2> QED  BY <1>0, <1>5, <2>1, NothingType DEF Forgets, HeldType
<1>6. CASE Stays
  BY <1>0, <1>6 DEF Stays, HeldType
<1> QED  BY <1>1, <1>2, <1>3, <1>4, <1>5, <1>6, Movements

TablesType ==
  /\ shareRows \in Seq(Records) /\ presenceRow \in [Workers -> Numbers \cup {0}]
  /\ bestRow \in BOOLEAN /\ effort \subseteq Numbers /\ lastReset \in Numbers \cup {0}
  /\ DOMAIN blocks \subseteq ParentHashes \cup AuxHashes
  /\ \A h \in DOMAIN blocks : blocks[h] \subseteq Numbers

\* The places of some records of a batch, and what is there.
LEMMA Places ==
  ASSUME HeldType
  PROVE  /\ batch.share \in Seq(Records) /\ batch.presence \in Seq(Records)
         /\ batch.block \in Seq(Records) /\ batch.best \in Seq(Records)
         /\ Parents \subseteq DOMAIN batch.block
         /\ Parents # {} => /\ Max(Parents) \in Parents /\ Min(Parents) \in Parents
                            /\ \A j \in Parents : j <= Max(Parents)
         /\ \A w \in Workers : PresencesOf(w) # {} =>
              /\ Max(PresencesOf(w)) \in PresencesOf(w)
              /\ \A j \in PresencesOf(w) : j <= Max(PresencesOf(w))
<1>1. /\ batch.share \in Seq(Records) /\ batch.presence \in Seq(Records)
      /\ batch.block \in Seq(Records) /\ batch.best \in Seq(Records)
  BY TheKinds DEF HeldType
<1>2. /\ DOMAIN batch.block = 1..Len(batch.block) /\ Len(batch.block) \in Nat
      /\ DOMAIN batch.presence = 1..Len(batch.presence) /\ Len(batch.presence) \in Nat
  BY <1>1, LenProperties
<1>3. /\ Parents \subseteq 1..Len(batch.block)
      /\ \A w \in Workers : PresencesOf(w) \subseteq 1..Len(batch.presence)
  BY <1>2 DEF Parents, PresencesOf
<1>4. ASSUME Parents # {}
      PROVE  /\ Max(Parents) \in Parents /\ Min(Parents) \in Parents
             /\ \A j \in Parents : j <= Max(Parents)
  <2>1. Parents \subseteq Nat
    BY <1>2, <1>3
  <2> QED  BY <1>2, <1>3, <1>4, <2>1, FirstPlace, LastPlace
<1>5. ASSUME NEW w \in Workers, PresencesOf(w) # {}
      PROVE  /\ Max(PresencesOf(w)) \in PresencesOf(w)
             /\ \A j \in PresencesOf(w) : j <= Max(PresencesOf(w))
  BY <1>2, <1>3, <1>5, LastPlace
<1> QED  BY <1>1, <1>2, <1>3, <1>4, <1>5

LEMMA ApplyType == HeldType /\ KeyedInv /\ TablesType /\ Apply => TablesType'
<1> SUFFICES ASSUME HeldType, KeyedInv, TablesType, Apply PROVE TablesType'
  OBVIOUS
<1>0. /\ \A i \in DOMAIN batch.share : batch.share[i].at \in Numbers
      /\ \A i \in DOMAIN batch.presence : batch.presence[i].at \in Numbers
      /\ \A i \in DOMAIN batch.block : batch.block[i].at \in Numbers
  BY Places, ElementOfSeq, LenProperties, Numbering
<1>1. shareRows' \in Seq(Records)
  BY Places, ConcatProperties DEF Apply, TablesType
<1>2. presenceRow' \in [Workers -> Numbers \cup {0}]
  <2>1. ASSUME NEW w \in Workers, PresencesOf(w) # {}
        PROVE  batch.presence[Max(PresencesOf(w))].at \in Numbers
    BY <1>0, <2>1, Places DEF PresencesOf
  <2> QED  BY <2>1 DEF Apply, TablesType
<1>3. bestRow' \in BOOLEAN
  BY DEF Apply, TablesType
<1>4. NewShares \subseteq Numbers
  BY <1>0 DEF NewShares
<1>5. effort' \subseteq Numbers
  BY <1>4 DEF Apply, EffortAfter, TablesType
<1>6. lastReset' \in Numbers \cup {0}
  BY <1>0, Places DEF Apply, TablesType, Parents
<1>7. BlockKeys \subseteq ParentHashes \cup AuxHashes
  <2>1. batch.block \in Seq(RecordsOf("block"))
    BY TheKinds DEF KeyedInv
  <2>2. \A i \in DOMAIN batch.block : batch.block[i] \in RecordsOf("block")
    BY <2>1, ElementOfSeq, LenProperties
  <2> QED  BY <2>2, TheKinds DEF BlockKeys, RecordsOf
<1>8. \A h : RoundTaken(h) \subseteq Numbers
  BY <1>4 DEF RoundTaken, TablesType
<1>9. /\ DOMAIN blocks' \subseteq ParentHashes \cup AuxHashes
      /\ \A h \in DOMAIN blocks' : blocks'[h] \subseteq Numbers
  BY <1>7, <1>8 DEF Apply, TablesType
<1> QED  BY <1>1, <1>2, <1>3, <1>5, <1>6, <1>9 DEF TablesType

LEMMA InitType == Init => TypeOK /\ KeyedInv
<1> SUFFICES ASSUME Init PROVE TypeOK /\ KeyedInv
  OBVIOUS
<1>1. Nothing \in [Kinds -> Seq(Records)] /\ << >> \in Seq(Records)
  BY NothingType, EmptySeq
<1>2. 0 \in 0..MaxRecords /\ DOMAIN blocks = {}
  BY Numbering DEF Init
<1> QED  BY <1>1, <1>2, NothingKeyed DEF Init, TypeOK, KeyedInv

LEMMA TypeStep == TypeOK /\ KeyedInv /\ [Next]_vars => TypeOK'
<1> SUFFICES ASSUME TypeOK, KeyedInv, [Next]_vars PROVE TypeOK'
  OBVIOUS
<1>0. HeldType /\ TablesType
  BY DEF TypeOK, HeldType, TablesType
<1>1. HeldType'
  BY HeldTypeStep
<1>2. TablesType'
  <2>1. CASE UNCHANGED tables
    BY <1>0, <2>1 DEF tables, TablesType
  <2>2. CASE Apply
    BY <1>0, <2>2, ApplyType
  <2>3. UNCHANGED tables \/ Apply
    BY DEF Next, Worker, vars, Enqueue, Stop, Connect, Drain, FlushBroken, FlushRefused,
           FlushStatements, Commit, CommitInDoubt, DbDown, DbBack, Restart, tables
  <2> QED  BY <2>1, <2>2, <2>3
<1>3. /\ running' \in BOOLEAN
      /\ thread' \in {"head", "wait", "flush", "commit", "exited"}
      /\ link' \in {"none", "up", "cut"}
      /\ dbUp' \in BOOLEAN
  BY ZenonT(60) DEF TypeOK, Next, Worker, vars, world, Enqueue, Stop, Connect, Drain, FlushBroken, FlushRefused,
         FlushStatements, Commit, CommitInDoubt, DbDown, DbBack, Restart
<1>4. thread' \in {"flush", "commit"} <=> batch' # Nothing
  BY DEF TypeOK, Next, Worker, vars, Enqueue, Stop, Connect, Drain, FlushBroken, FlushRefused, Settle,
         FlushStatements, Commit, CommitInDoubt, DbDown, DbBack, Restart
<1> QED  BY <1>1, <1>2, <1>3, <1>4 DEF TypeOK, HeldType, TablesType

\* The worker's variables keep their types, and a transaction is open exactly while there
\* is a batch for it, for any number of workers, records, outages and restarts (DbWorker::run).
THEOREM TypeCorrect == Spec => [](TypeOK /\ KeyedInv)
<1>1. TypeOK /\ KeyedInv /\ [Next]_vars => (TypeOK /\ KeyedInv)'
  BY TypeStep, KeyedStep
<1> QED  BY InitType, <1>1, PTL DEF Spec

(***************************************************************************)
(* The worker implements RecordLedger.                                     *)
(***************************************************************************)

LEMMA SplitConcat ==
  ASSUME NEW S, NEW s \in Seq(S), NEW t \in Seq(S)
  PROVE  /\ SubSeq(s \o t, 1, Len(s)) = s
         /\ SubSeq(s \o t, Len(s) + 1, Len(s \o t)) = t
<1> DEFINE u == s \o t
<1>1. /\ u \in Seq(S) /\ Len(u) = Len(s) + Len(t) /\ Len(s) \in Nat /\ Len(t) \in Nat
      /\ \A i \in 1..Len(u) : u[i] = IF i <= Len(s) THEN s[i] ELSE t[i - Len(s)]
  BY ConcatProperties, LenProperties
<1>2. \A i \in 1..Len(u) : u[i] \in S
  BY <1>1, ElementOfSeq
<1> HIDE DEF u
<1>3. SubSeq(u, 1, Len(s)) = s
  <2>1. \A i \in 1..Len(s) : u[i] \in S
    BY <1>1, <1>2
  <2>2. /\ SubSeq(u, 1, Len(s)) \in Seq(S)
        /\ Len(SubSeq(u, 1, Len(s))) = IF 1 <= Len(s) THEN Len(s) - 1 + 1 ELSE 0
        /\ \A i \in 1..Len(s) - 1 + 1 : SubSeq(u, 1, Len(s))[i] = u[1 + i - 1]
    BY <1>1, <2>1, SubSeqProperties, SMTT(40)
  <2>3. Len(SubSeq(u, 1, Len(s))) = Len(s)
    BY <1>1, <2>2
  <2>4. \A i \in 1..Len(s) : SubSeq(u, 1, Len(s))[i] = s[i]
    BY <1>1, <2>2
  <2> QED  BY <2>2, <2>3, <2>4, SeqEqual
<1>4. SubSeq(u, Len(s) + 1, Len(u)) = t
  <2>1. \A i \in Len(s) + 1..Len(u) : u[i] \in S
    BY <1>1, <1>2
  <2>2. /\ SubSeq(u, Len(s) + 1, Len(u)) \in Seq(S)
        /\ Len(SubSeq(u, Len(s) + 1, Len(u))) =
             IF Len(s) + 1 <= Len(u) THEN Len(u) - (Len(s) + 1) + 1 ELSE 0
        /\ \A i \in 1..Len(u) - (Len(s) + 1) + 1 :
             SubSeq(u, Len(s) + 1, Len(u))[i] = u[Len(s) + 1 + i - 1]
    BY <1>1, <2>1, SubSeqProperties, SMTT(40)
  <2>3. Len(SubSeq(u, Len(s) + 1, Len(u))) = Len(t)
    BY <1>1, <2>2
  <2>4. ASSUME NEW i \in 1..Len(t)
        PROVE  SubSeq(u, Len(s) + 1, Len(u))[i] = t[i]
    <3>1. i \in 1..Len(u) - (Len(s) + 1) + 1 /\ Len(s) + 1 + i - 1 = Len(s) + i
      BY <1>1
    <3>2. Len(s) + i \in 1..Len(u) /\ ~(Len(s) + i <= Len(s)) /\ Len(s) + i - Len(s) = i
      BY <1>1
    <3>3. u[Len(s) + i] = t[Len(s) + i - Len(s)]
      BY <1>1, <3>2
    <3> QED  BY <2>2, <3>1, <3>2, <3>3
  <2> QED  BY <2>2, <2>3, <2>4, SeqEqual
<1> QED  BY <1>3, <1>4 DEF u

\* What the worker has accepted and not let go of, kind by kind.
Pending == [k \in Kinds |-> batch[k] \o queue[k]]

LEMMA PendingType == HeldType => Pending \in [Kinds -> Seq(Records)]
  BY ConcatProperties DEF HeldType, Pending

LEMMA EmptyNothing ==
  ASSUME NEW f \in [Kinds -> Seq(Records)]
  PROVE  [k \in Kinds |-> Nothing[k] \o f[k]] = f /\ [k \in Kinds |-> f[k] \o Nothing[k]] = f
<1>1. \A k \in Kinds : Nothing[k] \o f[k] = f[k] /\ f[k] \o Nothing[k] = f[k]
  BY ConcatEmptySeq DEF Nothing
<1> QED  BY <1>1

\* A step that lets a prefix of every kind go.
LEMMA SettleBy ==
  ASSUME HeldType, HeldType',
         NEW gone \in [Kinds -> Seq(Records)],
         NEW rest \in [Kinds -> Seq(Records)],
         Pending = [k \in Kinds |-> gone[k] \o rest[k]],
         Pending' = rest,
         settled' = [k \in Kinds |-> settled[k] \o gone[k]]
  PROVE  Ledger!Settle
<1>1. ASSUME NEW k \in Kinds
      PROVE  /\ Len(gone[k]) \in 0..Len(Pending[k])
             /\ SubSeq(Pending[k], 1, Len(gone[k])) = gone[k]
             /\ SubSeq(Pending[k], Len(gone[k]) + 1, Len(Pending[k])) = rest[k]
  <2>1. Pending[k] = gone[k] \o rest[k] /\ gone[k] \in Seq(Records) /\ rest[k] \in Seq(Records)
    BY DEF Pending
  <2>2. Len(gone[k]) \in 0..Len(Pending[k])
    BY <2>1, ConcatProperties, LenProperties
  <2> QED  BY <2>1, <2>2, SplitConcat
<1>2. \A k \in Kinds : \E n \in 0..Len(Pending[k]) :
        /\ settled'[k] = settled[k] \o SubSeq(Pending[k], 1, n)
        /\ Pending'[k] = SubSeq(Pending[k], n + 1, Len(Pending[k]))
  BY <1>1 DEF HeldType
<1>3. Pending' \in [Kinds -> Seq(Records)] /\ settled' \in [Kinds -> Seq(Records)]
  BY SMTT(40) DEF HeldType
<1> QED  BY <1>2, <1>3 DEF Ledger!Settle, Pending

LEMMA AppendToConcat ==
  ASSUME NEW S, NEW s \in Seq(S), NEW t \in Seq(S), NEW r \in S
  PROVE  s \o Append(t, r) = Append(s \o t, r)
<1>1. Append(t, r) = t \o <<r>>
  BY AppendIsConcat
<1>2. s \o t \in Seq(S) /\ <<r>> \in Seq(S)
  BY ConcatProperties
<1>3. Append(s \o t, r) = (s \o t) \o <<r>>
  BY <1>2, AppendIsConcat
<1>4. (s \o t) \o <<r>> = s \o (t \o <<r>>)
  BY <1>2, ConcatAssociative, SMTT(40)
<1> QED  BY <1>1, <1>3, <1>4

LEMMA LedgerStep ==
  TypeOK /\ KeyedInv /\ [Next]_vars => [Ledger!Next]_<<Pending, settled>>
<1> SUFFICES ASSUME TypeOK, KeyedInv, [Next]_vars
             PROVE  Ledger!Next \/ (Pending' = Pending /\ settled' = settled)
  BY DEF Pending
<1>0. HeldType /\ HeldType' /\ Nothing \in [Kinds -> Seq(Records)]
  BY HeldTypeStep, NothingType, SMTT(40) DEF TypeOK, HeldType
<1>t. Pending \in [Kinds -> Seq(Records)] /\ Pending' \in [Kinds -> Seq(Records)]
  BY <1>0, ConcatProperties DEF HeldType, Pending
<1>1. CASE Accepts
  <2>1. PICK k \in Kinds : \E key \in Keys[k] :
          /\ clock < MaxRecords
          /\ queue' = [queue EXCEPT ![k] = Append(@, [at |-> clock + 1, key |-> key])]
    BY <1>1 DEF Accepts
  <2>2. PICK key \in Keys[k] :
          /\ clock < MaxRecords
          /\ queue' = [queue EXCEPT ![k] = Append(@, [at |-> clock + 1, key |-> key])]
    BY <2>1
  <2> DEFINE r == [at |-> clock + 1, key |-> key]
  <2>3. r \in Records
    BY <1>0, <2>2, NewRecord, Numbering DEF HeldType, Numbers
  <2> HIDE DEF r
  <2>4. batch[k] \o Append(queue[k], r) = Append(batch[k] \o queue[k], r)
    BY <1>0, <2>3, AppendToConcat, SMTT(40) DEF HeldType
  <2>5. Pending' = [Pending EXCEPT ![k] = Append(@, r)]
    BY <1>0, <1>1, <2>2, <2>4 DEF Accepts, Pending, HeldType, r
  <2> QED  BY <1>1, <2>3, <2>5 DEF Accepts, Ledger!Next, Ledger!Accept, Pending
<1>2. CASE Drains
  <2>1. queue \in [Kinds -> Seq(Records)]
    BY <1>0 DEF HeldType
  <2>2. Pending = queue /\ Pending' = queue
    BY <1>2, <2>1, EmptyNothing DEF Drains, Pending
  <2> QED  BY <1>2, <2>2 DEF Drains
<1>3. CASE Requeues
  <2>1. Pending' = Pending
    BY <1>3, <1>t, EmptyNothing DEF Requeues, Pending
  <2> QED  BY <1>3, <2>1 DEF Requeues
<1>4. CASE Settles
  <2>1. /\ Pending = [k \in Kinds |-> batch[k] \o queue[k]]
        /\ batch \in [Kinds -> Seq(Records)] /\ queue \in [Kinds -> Seq(Records)]
    BY <1>0 DEF Pending, HeldType
  <2>2. Pending' = queue
    BY <1>4, <2>1, EmptyNothing DEF Settles, Pending
  <2>3. Ledger!Settle
    BY <1>0, <1>4, <2>1, <2>2, SettleBy DEF Settles
  <2> QED  BY <2>3 DEF Ledger!Next
<1>5. CASE Forgets
  <2>1. Pending = [k \in Kinds |-> Pending[k] \o Nothing[k]]
    BY <1>t, EmptyNothing
  <2>2. Pending' = Nothing
    BY <1>0, <1>5, EmptyNothing DEF Forgets, Pending
  <2>3. settled' = [k \in Kinds |-> settled[k] \o Pending[k]]
    BY <1>0, <1>5, ConcatAssociative, SMTT(40) DEF Forgets, Pending, HeldType
  <2>4. Ledger!Settle
    BY <1>0, <1>t, <2>1, <2>2, <2>3, SettleBy
  <2> QED  BY <2>4 DEF Ledger!Next
<1>6. CASE Stays
  BY <1>6 DEF Stays, Pending
<1> QED  BY <1>1, <1>2, <1>3, <1>4, <1>5, <1>6, Movements

\* The worker implements RecordLedger: whatever the number of drains, requeues, refused flushes,
\* outages and restarts, a record of a kind leaves in its turn and once (DbWorker::run).
THEOREM ImplementsLedger == Spec => FifoLedger
<1>1. Init => Ledger!Init
  <2>1. Nothing \in [Kinds -> Seq(Records)]
    BY NothingType
  <2>2. [k \in Kinds |-> Nothing[k] \o Nothing[k]] = Nothing
    BY <2>1, EmptyNothing
  <2> QED  BY <2>2 DEF Init, Ledger!Init, Nothing
<1>2. TypeOK /\ KeyedInv /\ [Next]_vars =>
        [Ledger!Next]_<<[k \in Kinds |-> batch[k] \o queue[k]], settled>>
  BY LedgerStep DEF Pending
<1> QED  BY <1>1, <1>2, TypeCorrect, PTL DEF Spec, FifoLedger, Ledger!Spec

(***************************************************************************)
(* The order of acceptance: everything that has left the worker is older   *)
(* than everything in the batch, and that than everything in the queues,   *)
(* of whatever kind.                                                       *)
(***************************************************************************)

Rising(s) == \A i, j \in DOMAIN s : i < j => s[i].at < s[j].at
Precedes(n, f) == \A k \in Kinds : \A i \in DOMAIN f[k] : n < f[k][i].at
Waits(n) == n <= clock /\ Precedes(n, batch) /\ Precedes(n, queue)
WillWait(n) == n <= clock' /\ Precedes(n, batch') /\ Precedes(n, queue')

HeldInv ==
  /\ \A k \in Kinds : \A i \in DOMAIN settled[k] : Waits(settled[k][i].at)
  /\ \A k \in Kinds : \A i \in DOMAIN batch[k] :
       batch[k][i].at <= clock /\ Precedes(batch[k][i].at, queue)
  /\ \A k \in Kinds : \A i \in DOMAIN queue[k] : queue[k][i].at <= clock
  /\ \A k \in Kinds : Rising(batch[k]) /\ Rising(queue[k])

LEMMA ConcatPlaces ==
  ASSUME NEW S, NEW s \in Seq(S), NEW t \in Seq(S)
  PROVE  /\ \A i \in DOMAIN (s \o t) :
              \/ i \in DOMAIN s /\ (s \o t)[i] = s[i]
              \/ /\ i \in Nat /\ i > Len(s) /\ i - Len(s) \in DOMAIN t
                 /\ (s \o t)[i] = t[i - Len(s)]
         /\ \A i \in DOMAIN s : i \in DOMAIN (s \o t) /\ (s \o t)[i] = s[i]
         /\ \A j \in DOMAIN t : Len(s) + j \in DOMAIN (s \o t) /\ (s \o t)[Len(s) + j] = t[j]
<1> DEFINE u == s \o t
<1>1. /\ u \in Seq(S) /\ Len(u) = Len(s) + Len(t)
      /\ \A i \in 1..Len(s) + Len(t) : u[i] = IF i <= Len(s) THEN s[i] ELSE t[i - Len(s)]
  BY ConcatProperties
<1> HIDE DEF u
<1>2. /\ Len(s) \in Nat /\ Len(t) \in Nat
      /\ DOMAIN s = 1..Len(s) /\ DOMAIN t = 1..Len(t) /\ DOMAIN u = 1..Len(u)
  BY <1>1, LenProperties
<1>3. ASSUME NEW i \in DOMAIN u
      PROVE  \/ i \in DOMAIN s /\ u[i] = s[i]
             \/ i \in Nat /\ i > Len(s) /\ i - Len(s) \in DOMAIN t /\ u[i] = t[i - Len(s)]
  BY <1>1, <1>2
<1>4. \A i \in DOMAIN s : i \in DOMAIN u /\ u[i] = s[i]
  BY <1>1, <1>2
<1>5. ASSUME NEW j \in DOMAIN t PROVE Len(s) + j \in DOMAIN u /\ u[Len(s) + j] = t[j]
  <2>1. Len(s) + j \in 1..Len(s) + Len(t) /\ ~(Len(s) + j <= Len(s)) /\ Len(s) + j - Len(s) = j
    BY <1>2
  <2>2. u[Len(s) + j] = t[Len(s) + j - Len(s)]
    BY <1>1, <2>1
  <2> QED  BY <1>1, <1>2, <2>1, <2>2
<1> QED  BY <1>3, <1>4, <1>5 DEF u

LEMMA ConcatKeeps ==
  ASSUME NEW s \in Seq(Records), NEW t \in Seq(Records)
  PROVE  /\ \A i \in DOMAIN s : i \in DOMAIN (s \o t) /\ (s \o t)[i] = s[i]
         /\ \A j \in DOMAIN t : Len(s) + j \in DOMAIN (s \o t) /\ (s \o t)[Len(s) + j] = t[j]
  BY ConcatPlaces

LEMMA ConcatElement ==
  ASSUME NEW s \in Seq(Records), NEW t \in Seq(Records), NEW i \in DOMAIN (s \o t)
  PROVE  (\E j \in DOMAIN s : (s \o t)[i] = s[j]) \/ (\E j \in DOMAIN t : (s \o t)[i] = t[j])
<1> DEFINE u == s \o t
<1>1. \/ i \in DOMAIN s /\ u[i] = s[i]
      \/ /\ i \in Nat /\ i > Len(s) /\ i - Len(s) \in DOMAIN t /\ u[i] = t[i - Len(s)]
  BY ConcatPlaces
<1> HIDE DEF u
<1>2. (\E j \in DOMAIN s : u[i] = s[j]) \/ (\E j \in DOMAIN t : u[i] = t[j])
  BY <1>1
<1> QED  BY <1>2 DEF u

LEMMA RisingConcat ==
  ASSUME NEW s \in Seq(Records), NEW t \in Seq(Records), Rising(s), Rising(t),
         \A i \in DOMAIN s : \A j \in DOMAIN t : s[i].at < t[j].at
  PROVE  Rising(s \o t)
<1> DEFINE u == s \o t
<1> SUFFICES ASSUME NEW i \in DOMAIN u, NEW j \in DOMAIN u, i < j PROVE u[i].at < u[j].at
  BY DEF Rising
<1>1. /\ DOMAIN s = 1..Len(s) /\ DOMAIN t = 1..Len(t) /\ Len(s) \in Nat /\ Len(t) \in Nat
  BY LenProperties
<1>2. \A l \in DOMAIN u :
        \/ l \in DOMAIN s /\ u[l] = s[l]
        \/ l \in Nat /\ l > Len(s) /\ l - Len(s) \in DOMAIN t /\ u[l] = t[l - Len(s)]
  BY ConcatPlaces
<1> HIDE DEF u
<1>3. CASE i \in DOMAIN s /\ u[i] = s[i]
  <2>1. CASE j \in DOMAIN s /\ u[j] = s[j]
    BY <1>3, <2>1 DEF Rising
  <2>2. CASE j - Len(s) \in DOMAIN t /\ u[j] = t[j - Len(s)]
    BY <1>3, <2>2
  <2> QED  BY <1>2, <2>1, <2>2
<1>4. CASE i \in Nat /\ i > Len(s) /\ i - Len(s) \in DOMAIN t /\ u[i] = t[i - Len(s)]
  <2>1. j \in Nat /\ j - Len(s) \in DOMAIN t /\ u[j] = t[j - Len(s)]
    BY <1>1, <1>2, <1>4
  <2>2. i - Len(s) < j - Len(s)
    BY <1>1, <1>4, <2>1
  <2> QED  BY <1>4, <2>1, <2>2 DEF Rising
<1> QED  BY <1>2, <1>3, <1>4

LEMMA RisingAppend ==
  ASSUME NEW s \in Seq(Records), NEW r \in Records, Rising(s), \A i \in DOMAIN s : s[i].at < r.at
  PROVE  Rising(Append(s, r))
<1>1. <<r>> \in Seq(Records) /\ DOMAIN <<r>> = {1} /\ <<r>>[1] = r
  OBVIOUS
<1>2. Rising(<<r>>)
  BY <1>1 DEF Rising
<1>3. Rising(s \o <<r>>)
  BY <1>1, <1>2, RisingConcat
<1> QED  BY <1>3, AppendIsConcat

LEMMA NumbersHeld ==
  ASSUME HeldType
  PROVE  /\ clock \in Nat
         /\ \A k \in Kinds :
              /\ settled[k] \in Seq(Records) /\ batch[k] \in Seq(Records) /\ queue[k] \in Seq(Records)
              /\ \A i \in DOMAIN settled[k] : settled[k][i].at \in Nat
              /\ \A i \in DOMAIN batch[k] : batch[k][i].at \in Nat
              /\ \A i \in DOMAIN queue[k] : queue[k][i].at \in Nat
<1>1. \A q \in Seq(Records) : \A i \in DOMAIN q : q[i].at \in Nat
  BY ElementOfSeq, LenProperties, Numbering
<1> QED  BY <1>1, Numbering DEF HeldType

\* A new record comes after everything the worker has seen.
LEMMA AcceptedLast ==
  ASSUME HeldType, HeldInv, Accepts
  PROVE  \E k \in Kinds : \E r \in Records :
           /\ r.at = clock + 1 /\ queue' = [queue EXCEPT ![k] = Append(@, r)]
           /\ \A l \in Kinds : \A i \in DOMAIN queue'[l] :
                \/ i \in DOMAIN queue[l] /\ queue'[l][i] = queue[l][i]
                \/ queue'[l][i].at = clock + 1
<1>1. PICK k \in Kinds : \E key \in Keys[k] :
        /\ clock < MaxRecords
        /\ queue' = [queue EXCEPT ![k] = Append(@, [at |-> clock + 1, key |-> key])]
  BY DEF Accepts
<1>2. PICK key \in Keys[k] :
        /\ clock < MaxRecords
        /\ queue' = [queue EXCEPT ![k] = Append(@, [at |-> clock + 1, key |-> key])]
  BY <1>1
<1> DEFINE r == [at |-> clock + 1, key |-> key]
<1>3. r \in Records /\ r.at = clock + 1
  <2>1. clock + 1 \in Numbers
    BY <1>2, Numbering DEF HeldType, Numbers
  <2> QED  BY <2>1, NewRecord
<1>4. queue' = [queue EXCEPT ![k] = Append(@, r)]
  BY <1>2
<1> HIDE DEF r
<1>5. queue[k] \in Seq(Records) /\ Append(queue[k], r) = queue[k] \o <<r>> /\ <<r>> \in Seq(Records)
  BY <1>3, NumbersHeld, AppendIsConcat
<1>6. \A i \in DOMAIN Append(queue[k], r) :
        \/ i \in DOMAIN queue[k] /\ Append(queue[k], r)[i] = queue[k][i]
        \/ Append(queue[k], r)[i] = r
  BY <1>3, <1>5, AppendProperties, LenProperties
<1>7. \A l \in Kinds : \A i \in DOMAIN queue'[l] :
        \/ i \in DOMAIN queue[l] /\ queue'[l][i] = queue[l][i]
        \/ queue'[l][i].at = clock + 1
  BY <1>3, <1>4, <1>6, SMTT(40) DEF HeldType
<1> QED  BY <1>3, <1>4, <1>7

LEMMA NothingPlaces == \A k \in Kinds : DOMAIN Nothing[k] = {} /\ Rising(Nothing[k])
  BY DEF Nothing, Rising

\* What has left the worker stays older than all it holds.
LEMMA WaitsStep ==
  ASSUME HeldType, HeldInv, NEW n \in Nat, Waits(n),
         Accepts \/ Drains \/ Requeues \/ Settles \/ Forgets \/ Stays
  PROVE  WillWait(n)
<1>1. CASE Accepts
  <2>1. clock' = clock + 1 /\ batch' = batch
    BY <1>1 DEF Accepts
  <2>2. \A l \in Kinds : \A i \in DOMAIN queue'[l] :
          \/ i \in DOMAIN queue[l] /\ queue'[l][i] = queue[l][i]
          \/ queue'[l][i].at = clock + 1
    BY <1>1, AcceptedLast
  <2> QED  BY <2>1, <2>2, NumbersHeld DEF Waits, WillWait, Precedes
<1>2. CASE Drains
  BY <1>2, NothingPlaces DEF Drains, Waits, WillWait, Precedes
<1>3. CASE Requeues
  <2>1. ASSUME NEW k \in Kinds, NEW i \in DOMAIN (batch[k] \o queue[k])
        PROVE  n < (batch[k] \o queue[k])[i].at
    <3>1. batch[k] \in Seq(Records) /\ queue[k] \in Seq(Records)
      BY NumbersHeld
    <3>2. \/ \E j \in DOMAIN batch[k] : (batch[k] \o queue[k])[i] = batch[k][j]
          \/ \E j \in DOMAIN queue[k] : (batch[k] \o queue[k])[i] = queue[k][j]
      BY <2>1, <3>1, ConcatElement
    <3> QED  BY <3>2 DEF Waits, Precedes
  <2> QED  BY <1>3, <2>1, NothingPlaces DEF Requeues, Waits, WillWait, Precedes
<1>4. CASE Settles \/ Forgets \/ Stays
  BY <1>4, NothingPlaces DEF Settles, Forgets, Stays, Waits, WillWait, Precedes
<1> QED  BY <1>1, <1>2, <1>3, <1>4

\* What leaves the worker in a step is older than all it holds afterwards.
LEMMA LeavesWaiting ==
  ASSUME HeldType, HeldInv, Settles \/ Forgets
  PROVE  \A k \in Kinds : \A i \in DOMAIN batch[k] : WillWait(batch[k][i].at)
  BY NothingPlaces, ZenonT(60) DEF Settles, Forgets, HeldInv, Waits, WillWait, Precedes

LEMMA HeldInvStep ==
  ASSUME HeldType, HeldInv, HeldType',
         Accepts \/ Drains \/ Requeues \/ Settles \/ Forgets \/ Stays
  PROVE  HeldInv'
<1>0. \A n \in Nat : Waits(n) => WillWait(n)
  BY WaitsStep
<1>1. CASE Accepts
  <2>1. PICK k \in Kinds : \E r \in Records :
          /\ r.at = clock + 1 /\ queue' = [queue EXCEPT ![k] = Append(@, r)]
          /\ \A l \in Kinds : \A i \in DOMAIN queue'[l] :
               \/ i \in DOMAIN queue[l] /\ queue'[l][i] = queue[l][i]
               \/ queue'[l][i].at = clock + 1
    BY <1>1, AcceptedLast
  <2>2. PICK r \in Records :
          /\ r.at = clock + 1 /\ queue' = [queue EXCEPT ![k] = Append(@, r)]
          /\ \A l \in Kinds : \A i \in DOMAIN queue'[l] :
               \/ i \in DOMAIN queue[l] /\ queue'[l][i] = queue[l][i]
               \/ queue'[l][i].at = clock + 1
    BY <2>1
  <2>3. clock' = clock + 1 /\ batch' = batch /\ settled' = settled
    BY <1>1 DEF Accepts
  <2>4. \A l \in Kinds : \A i \in DOMAIN batch[l] :
          batch[l][i].at <= clock' /\ Precedes(batch[l][i].at, queue')
    BY <2>2, <2>3, NumbersHeld, SMTT(40) DEF HeldInv, Precedes
  <2>5. \A l \in Kinds : \A i \in DOMAIN queue'[l] : queue'[l][i].at <= clock'
    BY <2>2, <2>3, NumbersHeld, SMTT(40) DEF HeldInv
  <2>6. Rising(Append(queue[k], r))
    BY <2>2, NumbersHeld, RisingAppend, SMTT(40) DEF HeldInv
  <2>7. \A l \in Kinds : Rising(queue'[l])
    BY <2>2, <2>6 DEF HeldInv, HeldType
  <2>8. \A l \in Kinds : \A i \in DOMAIN settled[l] : WillWait(settled[l][i].at)
    BY <1>0, NumbersHeld DEF HeldInv
  <2> QED  BY <2>3, <2>4, <2>5, <2>7, <2>8 DEF HeldInv, Waits, WillWait
<1>2. CASE Drains
  <2>1. \A l \in Kinds : \A i \in DOMAIN settled[l] : WillWait(settled[l][i].at)
    BY <1>0, NumbersHeld DEF HeldInv
  <2> QED  BY <1>2, <2>1, NothingPlaces DEF Drains, HeldInv, Precedes, Waits, WillWait
<1>3. CASE Requeues
  <2>1. \A l \in Kinds : \A i \in DOMAIN settled[l] : WillWait(settled[l][i].at)
    BY <1>0, NumbersHeld DEF HeldInv
  <2>2. ASSUME NEW k \in Kinds
        PROVE  /\ \A i \in DOMAIN (batch[k] \o queue[k]) : (batch[k] \o queue[k])[i].at <= clock
               /\ Rising(batch[k] \o queue[k])
    <3>1. batch[k] \in Seq(Records) /\ queue[k] \in Seq(Records)
      BY <2>2, NumbersHeld
    <3>2. \A i \in DOMAIN batch[k] : \A j \in DOMAIN queue[k] : batch[k][i].at < queue[k][j].at
      BY <2>2 DEF HeldInv, Precedes
    <3>3. Rising(batch[k] \o queue[k])
      BY <2>2, <3>1, <3>2, RisingConcat, SMTT(40) DEF HeldInv
    <3>4. ASSUME NEW i \in DOMAIN (batch[k] \o queue[k])
          PROVE  (batch[k] \o queue[k])[i].at <= clock
      <4>1. \/ \E j \in DOMAIN batch[k] : (batch[k] \o queue[k])[i] = batch[k][j]
            \/ \E j \in DOMAIN queue[k] : (batch[k] \o queue[k])[i] = queue[k][j]
        BY <3>1, <3>4, ConcatElement
      <4> QED  BY <2>2, <4>1 DEF HeldInv
    <3> QED  BY <3>3, <3>4
  <2> QED  BY <1>3, <2>1, <2>2, NothingPlaces DEF Requeues, HeldInv, Waits, WillWait
<1>4. CASE Settles
  <2>1. ASSUME NEW k \in Kinds, NEW i \in DOMAIN (settled[k] \o batch[k])
        PROVE  WillWait((settled[k] \o batch[k])[i].at)
    <3>1. settled[k] \in Seq(Records) /\ batch[k] \in Seq(Records)
      BY NumbersHeld
    <3>2. \/ \E j \in DOMAIN settled[k] : (settled[k] \o batch[k])[i] = settled[k][j]
          \/ \E j \in DOMAIN batch[k] : (settled[k] \o batch[k])[i] = batch[k][j]
      BY <2>1, <3>1, ConcatElement
    <3>3. \A j \in DOMAIN settled[k] : WillWait(settled[k][j].at)
      BY <1>0, NumbersHeld DEF HeldInv
    <3> QED  BY <1>4, <3>2, <3>3, LeavesWaiting
  <2> QED  BY <1>4, <2>1, NothingPlaces DEF Settles, HeldInv, Waits, WillWait
<1>5. CASE Forgets
  <2>1. ASSUME NEW k \in Kinds, NEW i \in DOMAIN queue[k] PROVE WillWait(queue[k][i].at)
    BY <1>5, <2>1, NothingPlaces DEF Forgets, HeldInv, Waits, WillWait, Precedes
  <2>2. ASSUME NEW k \in Kinds, NEW i \in DOMAIN (settled[k] \o batch[k])
        PROVE  WillWait((settled[k] \o batch[k])[i].at)
    <3>1. settled[k] \in Seq(Records) /\ batch[k] \in Seq(Records)
      BY NumbersHeld
    <3>2. \/ \E j \in DOMAIN settled[k] : (settled[k] \o batch[k])[i] = settled[k][j]
          \/ \E j \in DOMAIN batch[k] : (settled[k] \o batch[k])[i] = batch[k][j]
      BY <2>2, <3>1, ConcatElement
    <3>3. \A j \in DOMAIN settled[k] : WillWait(settled[k][j].at)
      BY <1>0, NumbersHeld DEF HeldInv
    <3> QED  BY <1>5, <3>2, <3>3, LeavesWaiting
  <2>3. ASSUME NEW k \in Kinds, NEW i \in DOMAIN (settled[k] \o batch[k] \o queue[k])
        PROVE  WillWait((settled[k] \o batch[k] \o queue[k])[i].at)
    <3> DEFINE u == settled[k] \o batch[k]
    <3>1. u \in Seq(Records) /\ queue[k] \in Seq(Records)
      BY NumbersHeld, ConcatProperties
    <3>2. \A j \in DOMAIN u : WillWait(u[j].at)
      BY <2>2
    <3> HIDE DEF u
    <3>3. ASSUME NEW l \in DOMAIN (u \o queue[k]) PROVE WillWait((u \o queue[k])[l].at)
      <4>1. \/ \E j \in DOMAIN u : (u \o queue[k])[l] = u[j]
            \/ \E j \in DOMAIN queue[k] : (u \o queue[k])[l] = queue[k][j]
        BY <3>1, <3>3, ConcatElement, SMTT(40)
      <4> QED  BY <2>1, <3>2, <4>1
    <3> QED  BY <2>3, <3>3 DEF u
  <2> QED  BY <1>5, <2>3, NothingPlaces, ZenonT(60) DEF Forgets, HeldInv, Waits, WillWait
<1>6. CASE Stays
  BY <1>0, <1>6, NumbersHeld DEF Stays, HeldInv, Waits, WillWait
<1> QED  BY <1>1, <1>2, <1>3, <1>4, <1>5, <1>6

(***************************************************************************)
(* What a step does to the tables.                                         *)
(***************************************************************************)

TablesInv ==
  /\ \A i \in DOMAIN shareRows : Waits(shareRows[i].at)
  /\ Waits(lastReset)
  /\ \A n \in effort : Waits(n)
  /\ \A h \in DOMAIN blocks : \A n \in blocks[h] : Waits(n)

\* A recorded block has left the worker.
BlocksKnown == \A h \in DOMAIN blocks : \E i \in DOMAIN settled.block : settled.block[i].key = h

ReportedTwice == \E i, j \in DOMAIN settled.block :
                   i # j /\ settled.block[i].key = settled.block[j].key

LEMMA WriteSteps ==
  TypeOK /\ [Next]_vars => UNCHANGED tables \/ (Apply /\ Settles /\ batch # Nothing)
  BY DEF TypeOK, Next, Worker, vars, Enqueue, Stop, Connect, Drain, FlushBroken, FlushRefused,
         FlushStatements, Commit, CommitInDoubt, DbDown, DbBack, Restart, tables, Settle, Settles

LEMMA TablesNumbers ==
  ASSUME TablesType
  PROVE  /\ lastReset \in Nat /\ \A n \in effort : n \in Nat
         /\ \A h \in DOMAIN blocks : \A n \in blocks[h] : n \in Nat
         /\ \A i \in DOMAIN shareRows : shareRows[i].at \in Nat
<1>1. \A q \in Seq(Records) : \A i \in DOMAIN q : q[i].at \in Nat
  BY ElementOfSeq, LenProperties, Numbering
<1>2. Numbers \subseteq Nat /\ 0 \in Nat
  BY Numbering
<1>3. \A i \in DOMAIN shareRows : shareRows[i].at \in Nat
  BY <1>1 DEF TablesType
<1>4. \A h \in DOMAIN blocks : \A n \in blocks[h] : n \in Nat
  BY <1>2 DEF TablesType
<1>5. lastReset \in Nat /\ \A n \in effort : n \in Nat
  BY <1>2 DEF TablesType
<1> QED  BY <1>3, <1>4, <1>5

LEMMA SettledBoth ==
  ASSUME HeldType, Settles, NEW k \in Kinds
  PROVE  /\ \A i \in DOMAIN settled[k] : i \in DOMAIN settled'[k] /\ settled'[k][i] = settled[k][i]
         /\ \A i \in DOMAIN batch[k] : /\ Len(settled[k]) + i \in DOMAIN settled'[k]
                                       /\ settled'[k][Len(settled[k]) + i] = batch[k][i]
<1>1. settled[k] \in Seq(Records) /\ batch[k] \in Seq(Records)
  BY DEF HeldType
<1>2. /\ \A i \in DOMAIN settled[k] : /\ i \in DOMAIN (settled[k] \o batch[k])
                                      /\ (settled[k] \o batch[k])[i] = settled[k][i]
      /\ \A i \in DOMAIN batch[k] :
           /\ Len(settled[k]) + i \in DOMAIN (settled[k] \o batch[k])
           /\ (settled[k] \o batch[k])[Len(settled[k]) + i] = batch[k][i]
  BY <1>1, ConcatKeeps
<1>3. settled'[k] = settled[k] \o batch[k]
  BY DEF Settles
<1> QED  BY <1>2, <1>3

LEMMA SettledGrows ==
  ASSUME HeldType, Accepts \/ Drains \/ Requeues \/ Settles \/ Forgets \/ Stays, NEW k \in Kinds
  PROVE  \A i \in DOMAIN settled[k] : i \in DOMAIN settled'[k] /\ settled'[k][i] = settled[k][i]
<1>1. CASE settled' = settled
  BY <1>1
<1>2. CASE Settles
  BY <1>2, SettledBoth
<1>3. CASE Forgets
  <2>1. settled[k] \in Seq(Records) /\ batch[k] \in Seq(Records) /\ queue[k] \in Seq(Records)
    BY DEF HeldType
  <2> DEFINE u == settled[k] \o batch[k]
  <2>2. u \in Seq(Records)
    BY <2>1, ConcatProperties
  <2>3. \A i \in DOMAIN settled[k] : i \in DOMAIN u /\ u[i] = settled[k][i]
    BY <2>1, ConcatKeeps
  <2>4. settled'[k] = u \o queue[k]
    BY <1>3 DEF Forgets
  <2> HIDE DEF u
  <2>5. \A i \in DOMAIN u : i \in DOMAIN (u \o queue[k]) /\ (u \o queue[k])[i] = u[i]
    BY <2>1, <2>2, ConcatKeeps
  <2> QED  BY <2>3, <2>4, <2>5
<1> QED  BY <1>1, <1>2, <1>3 DEF Accepts, Drains, Requeues, Stays

LEMMA StillReportedTwice ==
  ASSUME HeldType, Accepts \/ Drains \/ Requeues \/ Settles \/ Forgets \/ Stays, ReportedTwice
  PROVE  ReportedTwice'
  BY TheKinds, SettledGrows DEF ReportedTwice

\* A step that writes no table.
LEMMA TablesUnwritten ==
  ASSUME HeldType, HeldInv, TablesType, TablesInv, BlocksKnown, RoundsExact, UNCHANGED tables,
         Accepts \/ Drains \/ Requeues \/ Settles \/ Forgets \/ Stays
  PROVE  TablesInv' /\ BlocksKnown' /\ RoundsExact'
<1>0. /\ shareRows' = shareRows /\ lastReset' = lastReset /\ effort' = effort /\ blocks' = blocks
  BY DEF tables
<1>1. \A n \in Nat : Waits(n) => WillWait(n)
  BY WaitsStep
<1>2. TablesInv'
  BY <1>0, <1>1, TablesNumbers DEF TablesInv, Waits, WillWait
<1>3. BlocksKnown'
  BY <1>0, TheKinds, SettledGrows DEF BlocksKnown
<1>4. EffortConserved'
  <2>1. InSomeRound => InSomeRound'
    BY <1>0 DEF InSomeRound, Stored
  <2> QED  BY <2>1, StillReportedTwice DEF RoundsExact, EffortConserved, ReportedTwice
<1>5. SharesStoredOnce' /\ EffortIsOfThisRound' /\ RoundsDisjoint'
  BY <1>0 DEF RoundsExact, SharesStoredOnce, EffortIsOfThisRound, RoundsDisjoint
<1> QED  BY <1>2, <1>3, <1>4, <1>5 DEF RoundsExact

\* A transaction that takes effect.
LEMMA NewSharesLast ==
  ASSUME HeldType, HeldInv, Settles
  PROVE  /\ \A n \in NewShares : n \in Nat /\ WillWait(n)
         /\ \A m : Waits(m) => \A n \in NewShares : m < n
<1>1. \A i \in DOMAIN batch.share : batch.share[i].at \in Nat /\ WillWait(batch.share[i].at)
  BY TheKinds, NumbersHeld, LeavesWaiting
<1>2. \A m : Waits(m) => \A i \in DOMAIN batch.share : m < batch.share[i].at
  BY TheKinds DEF Waits, Precedes
<1> QED  BY <1>1, <1>2 DEF NewShares

LEMMA SharesWritten ==
  ASSUME HeldType, HeldInv, TablesType, TablesInv, SharesStoredOnce, Apply, Settles
  PROVE  /\ \A i \in DOMAIN shareRows' : WillWait(shareRows'[i].at)
         /\ SharesStoredOnce' /\ Stored' = Stored \cup NewShares
<1>1. shareRows' = shareRows \o batch.share /\ shareRows \in Seq(Records) /\ batch.share \in Seq(Records)
  BY TheKinds DEF Apply, HeldType, TablesType
<1>2. \A n \in Nat : Waits(n) => WillWait(n)
  BY WaitsStep
<1>3. \A i \in DOMAIN shareRows : WillWait(shareRows[i].at)
  BY <1>2, TablesNumbers DEF TablesInv
<1>4. \A i \in DOMAIN batch.share : WillWait(batch.share[i].at)
  BY TheKinds, LeavesWaiting
<1>5. \A i \in DOMAIN shareRows' :
        (\E j \in DOMAIN shareRows : shareRows'[i] = shareRows[j])
        \/ (\E j \in DOMAIN batch.share : shareRows'[i] = batch.share[j])
  BY <1>1, ConcatElement, SMTT(40)
<1>6. \A i \in DOMAIN shareRows : \A j \in DOMAIN batch.share : shareRows[i].at < batch.share[j].at
  BY TheKinds DEF TablesInv, Waits, Precedes
<1>7. Rising(shareRows) /\ Rising(batch.share)
  BY TheKinds DEF SharesStoredOnce, HeldInv, Rising
<1>8. SharesStoredOnce'
  <2>1. Rising(shareRows \o batch.share)
    BY <1>1, <1>6, <1>7, RisingConcat
  <2> QED  BY <1>1, <2>1, SMTT(40) DEF SharesStoredOnce, Rising
<1>9. Stored' = Stored \cup NewShares
  <2>1. Stored' \subseteq Stored \cup NewShares
    BY <1>5 DEF Stored, NewShares
  <2>2. /\ \A i \in DOMAIN shareRows : \E j \in DOMAIN shareRows' : shareRows'[j] = shareRows[i]
        /\ \A i \in DOMAIN batch.share : \E j \in DOMAIN shareRows' : shareRows'[j] = batch.share[i]
    <3>1. /\ \A i \in DOMAIN shareRows : /\ i \in DOMAIN (shareRows \o batch.share)
                                         /\ (shareRows \o batch.share)[i] = shareRows[i]
          /\ \A i \in DOMAIN batch.share :
               /\ Len(shareRows) + i \in DOMAIN (shareRows \o batch.share)
               /\ (shareRows \o batch.share)[Len(shareRows) + i] = batch.share[i]
      BY <1>1, ConcatPlaces, SMTT(40)
    <3> QED  BY <1>1, <3>1
  <2>3. Stored \cup NewShares \subseteq Stored'
    BY <2>2 DEF Stored, NewShares
  <2> QED  BY <2>1, <2>3
<1> QED  BY <1>3, <1>4, <1>5, <1>8, <1>9

LEMMA BlocksWritten ==
  ASSUME HeldType, BlocksKnown, Apply, Settles
  PROVE  BlocksKnown'
<1>1. /\ \A i \in DOMAIN settled.block : i \in DOMAIN settled'.block
                                         /\ settled'.block[i] = settled.block[i]
      /\ \A i \in DOMAIN batch.block : Len(settled.block) + i \in DOMAIN settled'.block
                                       /\ settled'.block[Len(settled.block) + i] = batch.block[i]
  BY TheKinds, SettledBoth
<1>2. DOMAIN blocks' = DOMAIN blocks \cup BlockKeys
  BY DEF Apply
<1>3. ASSUME NEW h \in DOMAIN blocks
      PROVE  \E i \in DOMAIN settled'.block : settled'.block[i].key = h
  BY <1>1, <1>3 DEF BlocksKnown
<1>4. ASSUME NEW h \in BlockKeys
      PROVE  \E i \in DOMAIN settled'.block : settled'.block[i].key = h
  BY <1>1, <1>4 DEF BlockKeys
<1> QED  BY <1>2, <1>3, <1>4 DEF BlocksKnown

LEMMA RoundsWritten ==
  ASSUME HeldType, HeldInv, TablesType, TablesInv, EffortIsOfThisRound, RoundsDisjoint,
         Apply, Settles
  PROVE  /\ WillWait(lastReset') /\ \A n \in effort' : WillWait(n)
         /\ \A h \in DOMAIN blocks' : \A n \in blocks'[h] : WillWait(n)
         /\ EffortIsOfThisRound' /\ RoundsDisjoint'
<1>0. \A n \in Nat : Waits(n) => WillWait(n)
  BY WaitsStep
<1>1. /\ DOMAIN blocks' = DOMAIN blocks \cup BlockKeys
      /\ \A h \in DOMAIN blocks : blocks'[h] = blocks[h]
      /\ \A h \in DOMAIN blocks' : h \notin DOMAIN blocks => blocks'[h] = RoundTaken(h)
      /\ effort' = EffortAfter
      /\ lastReset' = IF Parents = {} THEN lastReset ELSE batch.block[Max(Parents)].at
  BY DEF Apply
<1>2. \A n \in effort \cup NewShares : WillWait(n)
  BY <1>0, NewSharesLast, TablesNumbers DEF TablesInv
<1>3. \A h : RoundTaken(h) \subseteq effort \cup NewShares
  BY DEF RoundTaken
<1>4. WillWait(lastReset')
  <2>1. CASE Parents = {}
    BY <1>0, <1>1, <2>1, TablesNumbers DEF TablesInv
  <2>2. CASE Parents # {}
    <3>1. Max(Parents) \in DOMAIN batch.block
      BY <2>2, Places
    <3> QED  BY <1>1, <2>2, <3>1, TheKinds, LeavesWaiting
  <2> QED  BY <2>1, <2>2
<1>5. \A n \in effort' : WillWait(n)
  BY <1>1, <1>2 DEF EffortAfter
<1>6. \A h \in DOMAIN blocks' : \A n \in blocks'[h] : WillWait(n)
  BY <1>0, <1>1, <1>2, <1>3, TablesNumbers DEF TablesInv
<1>7. EffortIsOfThisRound'
  <2>1. Parents = {} => \A n \in effort \cup NewShares : n > lastReset
    BY NewSharesLast, TablesNumbers DEF TablesInv, EffortIsOfThisRound
  <2> QED  BY <1>1, <2>1 DEF EffortAfter, EffortIsOfThisRound
<1>8. \A h \in DOMAIN blocks : blocks[h] \cap (effort \cup NewShares) = {}
  <2>1. ASSUME NEW h \in DOMAIN blocks, NEW n \in blocks[h], n \in NewShares PROVE FALSE
    BY <2>1, NewSharesLast, TablesNumbers DEF TablesInv
  <2> QED  BY <2>1 DEF RoundsDisjoint
<1>9. RoundsDisjoint'
  <2>1. CASE Parents = {}
    BY <1>1, <1>8, <2>1 DEF EffortAfter, RoundTaken, RoundsDisjoint
  <2>2. CASE Parents # {}
    <3>1. \A g, h : g # h => RoundTaken(g) = {} \/ RoundTaken(h) = {}
      BY DEF RoundTaken
    <3>2. effort' = {}
      BY <1>1, <2>2 DEF EffortAfter
    <3>3. ASSUME NEW g \in DOMAIN blocks', NEW h \in DOMAIN blocks', g # h
          PROVE  blocks'[g] \cap blocks'[h] = {}
      <4>1. CASE g \in DOMAIN blocks /\ h \in DOMAIN blocks
        BY <1>1, <3>3, <4>1 DEF RoundsDisjoint
      <4>2. CASE g \in DOMAIN blocks /\ h \notin DOMAIN blocks
        BY <1>1, <1>3, <1>8, <4>2
      <4>3. CASE g \notin DOMAIN blocks /\ h \in DOMAIN blocks
        BY <1>1, <1>3, <1>8, <4>3
      <4>4. CASE g \notin DOMAIN blocks /\ h \notin DOMAIN blocks
        BY <1>1, <3>1, <3>3, <4>4
      <4> QED  BY <4>1, <4>2, <4>3, <4>4
    <3> QED  BY <3>2, <3>3 DEF RoundsDisjoint
  <2> QED  BY <2>1, <2>2
<1> QED  BY <1>4, <1>5, <1>6, <1>7, <1>9

LEMMA EffortWritten ==
  ASSUME HeldType, HeldInv, TablesType, TablesInv, BlocksKnown, SharesStoredOnce,
         EffortConserved, Apply, Settles
  PROVE  EffortConserved'
<1>0. Stored' = Stored \cup NewShares
  BY SharesWritten
<1>1. /\ DOMAIN blocks' = DOMAIN blocks \cup BlockKeys
      /\ \A h \in DOMAIN blocks : blocks'[h] = blocks[h]
      /\ \A h \in DOMAIN blocks' : h \notin DOMAIN blocks => blocks'[h] = RoundTaken(h)
      /\ effort' = EffortAfter
  BY DEF Apply
<1>2. CASE ReportedTwice
  <2>1. ReportedTwice'
    BY <1>2, StillReportedTwice
  <2> QED  BY <2>1 DEF EffortConserved, ReportedTwice
<1>3. ASSUME InSomeRound, Parents = {} PROVE InSomeRound'
  BY <1>0, <1>1, <1>3 DEF InSomeRound, EffortAfter
<1>4. ASSUME InSomeRound, Parents # {} PROVE EffortConserved'
  <2> DEFINE p == Min(Parents)
             h == batch.block[p].key
  <2>1. p \in DOMAIN batch.block /\ h \in ParentHashes /\ h \in BlockKeys
    BY <1>4, Places DEF Parents, IsParent, BlockKeys
  <2>2. CASE h \in DOMAIN blocks
    <3>1. PICK i \in DOMAIN settled.block : settled.block[i].key = h
      BY <2>2 DEF BlocksKnown
    <3>2. settled'.block = settled.block \o batch.block
          /\ settled.block \in Seq(Records) /\ batch.block \in Seq(Records)
      BY TheKinds DEF Settles, HeldType
    <3>3. /\ i \in DOMAIN settled'.block /\ settled'.block[i] = settled.block[i]
          /\ Len(settled.block) + p \in DOMAIN settled'.block
          /\ settled'.block[Len(settled.block) + p] = batch.block[p]
      BY <2>1, <3>1, TheKinds, SettledBoth
    <3>4. i # Len(settled.block) + p
      BY <2>1, <3>1, <3>2, LenProperties
    <3>5. ReportedTwice'
      BY <3>1, <3>3, <3>4 DEF ReportedTwice
    <3> QED  BY <3>5 DEF EffortConserved, ReportedTwice
  <2>3. CASE h \notin DOMAIN blocks
    <3>1. h \in DOMAIN blocks' \cap ParentHashes /\ blocks'[h] = effort \cup NewShares
      BY <1>1, <1>4, <2>1, <2>3 DEF RoundTaken
    <3>2. ASSUME NEW n \in Stored' PROVE \E g \in DOMAIN blocks' \cap ParentHashes : n \in blocks'[g]
      <4>1. CASE n \in effort \cup NewShares
        BY <3>1, <4>1
      <4>2. CASE n \notin effort \cup NewShares
        <5>1. PICK g \in DOMAIN blocks \cap ParentHashes : n \in blocks[g]
          BY <1>0, <1>4, <3>2, <4>2 DEF InSomeRound
        <5> QED  BY <1>1, <5>1
      <4> QED  BY <4>1, <4>2
    <3>3. InSomeRound'
      BY <3>2 DEF InSomeRound
    <3> QED  BY <3>3 DEF EffortConserved
  <2> QED  BY <2>2, <2>3
<1> QED  BY <1>2, <1>3, <1>4 DEF EffortConserved, ReportedTwice

(***************************************************************************)
(* The theorems.                                                           *)
(***************************************************************************)

OrderInv == HeldInv /\ TablesInv /\ BlocksKnown /\ RoundsExact

LEMMA OrderInit == Init => OrderInv
<1> SUFFICES ASSUME Init PROVE OrderInv
  OBVIOUS
<1>1. HeldInv
  BY NothingPlaces DEF Init, HeldInv
<1>2. Waits(0)
  BY NothingPlaces DEF Init, Waits, Precedes
<1>3. DOMAIN shareRows = {} /\ DOMAIN blocks = {} /\ effort = {} /\ lastReset = 0
  BY DEF Init
<1>4. TablesInv /\ BlocksKnown
  BY <1>2, <1>3 DEF TablesInv, BlocksKnown
<1>5. RoundsExact
  BY <1>3 DEF RoundsExact, SharesStoredOnce, EffortIsOfThisRound, RoundsDisjoint,
              EffortConserved, InSomeRound, Stored
<1> QED  BY <1>1, <1>4, <1>5 DEF OrderInv

LEMMA OrderStep == TypeOK /\ KeyedInv /\ OrderInv /\ [Next]_vars => OrderInv'
<1> SUFFICES ASSUME TypeOK, KeyedInv, OrderInv, [Next]_vars PROVE OrderInv'
  OBVIOUS
<1>0. HeldType /\ HeldType' /\ TablesType /\ HeldInv /\ TablesInv /\ BlocksKnown /\ RoundsExact
  BY HeldTypeStep, SMTT(40) DEF TypeOK, HeldType, TablesType, OrderInv
<1>1. Accepts \/ Drains \/ Requeues \/ Settles \/ Forgets \/ Stays
  BY Movements
<1>2. HeldInv'
  BY <1>0, <1>1, HeldInvStep
<1>3. TablesInv' /\ BlocksKnown' /\ RoundsExact'
  <2>1. CASE UNCHANGED tables
    BY <1>0, <1>1, <2>1, TablesUnwritten
  <2>2. CASE Apply /\ Settles
    <3>1. SharesStoredOnce /\ EffortIsOfThisRound /\ RoundsDisjoint /\ EffortConserved
      BY <1>0 DEF RoundsExact
    <3>2. /\ \A i \in DOMAIN shareRows' : WillWait(shareRows'[i].at)
          /\ SharesStoredOnce'
      BY <1>0, <2>2, <3>1, SharesWritten
    <3>3. /\ WillWait(lastReset') /\ \A n \in effort' : WillWait(n)
          /\ \A h \in DOMAIN blocks' : \A n \in blocks'[h] : WillWait(n)
          /\ EffortIsOfThisRound' /\ RoundsDisjoint'
      BY <1>0, <2>2, <3>1, RoundsWritten
    <3>4. BlocksKnown' /\ EffortConserved'
      BY <1>0, <2>2, <3>1, BlocksWritten, EffortWritten
    <3>5. TablesInv'
      BY <3>2, <3>3 DEF TablesInv, Waits, WillWait
    <3> QED  BY <3>2, <3>3, <3>4, <3>5 DEF RoundsExact
  <2> QED  BY <2>1, <2>2, WriteSteps
<1> QED  BY <1>2, <1>3 DEF OrderInv

\* The accounting of rounds is exact, whatever the interleaving of shares, parent blocks, aux
\* blocks, broken flushes, outages and restarts: each stored share is stored once and in order,
\* counts in one round at most and never in one that began after it was accepted, and, unless a
\* block was reported twice, none is left out (DbWorker::run).
THEOREM RoundsAreExact == Spec => []RoundsExact
<1>1. TypeOK /\ KeyedInv /\ OrderInv /\ [Next]_vars => OrderInv'
  BY OrderStep
<1>2. OrderInv => RoundsExact
  BY DEF OrderInv
<1> QED  BY OrderInit, <1>1, <1>2, TypeCorrect, PTL DEF Spec

LEMMA PresenceStep ==
  ASSUME TypeOK, OrderInv, [Next]_vars, NEW w \in Workers, presenceRow'[w] # presenceRow[w],
         NEW i \in DOMAIN settled'.presence, settled'.presence[i].key = w
  PROVE  settled'.presence[i].at <= presenceRow'[w]
<1>0. HeldType /\ HeldInv
  BY DEF TypeOK, HeldType, OrderInv
<1>1. Apply /\ Settles
  BY WriteSteps DEF tables
<1> DEFINE top == Max(PresencesOf(w))
<1>2. /\ top \in PresencesOf(w) /\ \A j \in PresencesOf(w) : j <= top
      /\ presenceRow'[w] = batch.presence[top].at
  BY <1>0, <1>1, Places DEF Apply
<1>3. ASSUME NEW k \in Kinds, NEW l \in DOMAIN settled'[k]
      PROVE  \/ \E j \in DOMAIN settled[k] : settled'[k][l] = settled[k][j]
             \/ \E j \in DOMAIN batch[k] : settled'[k][l] = batch[k][j]
  <2>1. /\ settled[k] \in Seq(Records) /\ batch[k] \in Seq(Records)
        /\ settled'[k] = settled[k] \o batch[k]
    BY <1>0, <1>1, <1>3 DEF HeldType, Settles
  <2>2. l \in DOMAIN (settled[k] \o batch[k])
    BY <1>3, <2>1
  <2>3. \/ \E j \in DOMAIN settled[k] : (settled[k] \o batch[k])[l] = settled[k][j]
        \/ \E j \in DOMAIN batch[k] : (settled[k] \o batch[k])[l] = batch[k][j]
    BY <2>1, <2>2, ConcatElement
  <2> QED  BY <2>1, <2>3
<1>4. \/ \E j \in DOMAIN settled.presence : settled'.presence[i] = settled.presence[j]
      \/ \E j \in DOMAIN batch.presence : settled'.presence[i] = batch.presence[j]
  BY <1>3, TheKinds
<1>5. top \in DOMAIN batch.presence
  BY <1>2 DEF PresencesOf
<1> HIDE DEF top
<1>6. ASSUME NEW j \in DOMAIN settled.presence
      PROVE  settled.presence[j].at <= batch.presence[top].at
  <2>1. settled.presence[j].at < batch.presence[top].at
    BY <1>0, <1>5, <1>6, TheKinds DEF HeldInv, Waits, Precedes
  <2>2. settled.presence[j].at \in Nat /\ batch.presence[top].at \in Nat
    BY <1>0, <1>5, <1>6, TheKinds, NumbersHeld
  <2> QED  BY <2>1, <2>2, SMTT(40)
<1>7. ASSUME NEW j \in DOMAIN batch.presence, batch.presence[j].key = w
      PROVE  batch.presence[j].at <= batch.presence[top].at
  <2>1. j \in PresencesOf(w) /\ j <= top
    BY <1>2, <1>7 DEF PresencesOf
  <2>2. batch.presence[j].at \in Nat /\ batch.presence[top].at \in Nat
    BY <1>0, <1>5, <1>7, TheKinds, NumbersHeld
  <2>4. DOMAIN batch.presence = 1..Len(batch.presence)
    BY <1>0, TheKinds, LenProperties DEF HeldType
  <2>5. j \in Nat /\ top \in Nat
    BY <1>5, <1>7, <2>4
  <2>3. j < top => batch.presence[j].at < batch.presence[top].at
    BY <1>0, <1>5, <1>7, TheKinds DEF HeldInv, Rising
  <2> QED  BY <2>1, <2>2, <2>3, <2>5
<1> QED  BY <1>2, <1>4, <1>6, <1>7

\* Nothing is reordered: the worker implements RecordLedger, and a write to a miner's row always
\* brings it to the newest presence record that has left the worker, so the retry of a broken flush
\* never restores an older status (DbWorker::run).
THEOREM NeverReordered == Spec => NothingReordered
<1>1. TypeOK /\ OrderInv /\ [Next]_vars =>
        [\A w \in Workers : presenceRow'[w] # presenceRow[w] =>
           \A i \in DOMAIN settled'.presence :
             settled'.presence[i].key = w => settled'.presence[i].at <= presenceRow'[w]]_vars
  BY PresenceStep
<1>2. TypeOK /\ KeyedInv /\ OrderInv /\ [Next]_vars => OrderInv'
  BY OrderStep
<1>3. Spec => PresenceNeverOlder
  BY OrderInit, <1>1, <1>2, TypeCorrect, PTL DEF Spec, PresenceNeverOlder
<1> QED  BY <1>3, ImplementsLedger DEF NothingReordered
=============================================================================
