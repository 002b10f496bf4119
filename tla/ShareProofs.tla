---------------------------- MODULE ShareProofs -----------------------------
(***************************************************************************)
(* What holds of a share at the gate, for any number of sessions, jobs,    *)
(* tips and any window, table cap and thresholds; and of the block it may  *)
(* be, when it is submitted, for any number of nodes, callers, attempts    *)
(* and faults.                                                             *)
(***************************************************************************)
EXTENDS ShareGate, NodeClient, FiniteSetTheorems, TLAPS

\* A busy handler holds a share of its own search space for a job that was
\* pushed, and is at a step of its own protocol.
HandlerInv ==
  \A s \in Sessions :
    /\ pc[s] # "idle" => /\ share[s] \in Shares
                         /\ share[s].space = Space[s]
                         /\ share[s].job \in 1..Len(issued)
    /\ pc[s] \in {"tip", "gate", "gateStale", "submitStale"} => s \in V1
    /\ pc[s] \in {"hash", "judge"} => s \in V2

\* Jobs carry the round they were built in: the job under construction the
\* current one, and until a block change has emptied the table and reset the
\* best share every pushed job belongs to an earlier one.
RoundInv ==
  /\ upc # "idle" => /\ building.round = round /\ building.prev \in Tips
                    /\ Len(issued) < MaxJobs
  /\ \A j \in 1..Len(issued) : issued[j].round <= round
  /\ upc \in {"purge", "reset"} => \A j \in 1..Len(issued) : issued[j].round < round
  /\ lastPrevhash = NoTip => Len(issued) = 0 /\ upc = "idle" /\ round = 0
  /\ lastPrevhash # NoTip => round > 0

Core == TypeOK /\ HandlerInv /\ RoundInv

(***************************************************************************)
(* Type correctness.                                                       *)
(***************************************************************************)

LEMMA CoreInit == Init => Core
  BY GateConstants DEF Init, Core, TypeOK, HandlerInv, RoundInv, Sessions, Shares, NoShare

LEMMA AppendFacts ==
  ASSUME NEW S, NEW q \in Seq(S), NEW e \in S
  PROVE  /\ Append(q, e) \in Seq(S)
         /\ Len(Append(q, e)) = Len(q) + 1
         /\ \A i \in 1..Len(q) : Append(q, e)[i] = q[i]
         /\ Append(q, e)[Len(q) + 1] = e
  OBVIOUS

LEMMA ElementType ==
  ASSUME NEW S, NEW q \in Seq(S), NEW i \in 1..Len(q)
  PROVE  q[i] \in S
  OBVIOUS

\* updateWork keeps the invariant: only PushJob lengthens the window, and it
\* does so with a job of the round whose resets are done.
LEMMA CorePublish ==
  ASSUME Core, NEW t \in Tips, PublishTip(t)
  PROVE  Core'
<1> USE DEF PublishTip, Core
<1>1. lastPrevhash' = t /\ t # NoTip /\ lastPrevhash' # NoTip
  BY GateConstants
<1>2. round \in Nat /\ round' \in Nat /\ round' >= round
  BY DEF TypeOK
<1>3. TypeOK'
  BY <1>1, <1>2 DEF TypeOK, history, sessVars
<1>4. HandlerInv'
  BY DEF HandlerInv, sessVars
<1>5. RoundInv'
  <2>1. \A j \in 1..Len(issued) : issued[j] \in [prev : Tips, round : Nat]
    BY ElementType DEF TypeOK
  <2>2. CASE t # lastPrevhash
    BY <1>1, <1>2, <2>1, <2>2 DEF RoundInv
  <2>3. CASE t = lastPrevhash
    BY <1>1, <1>2, <2>1, <2>3 DEF RoundInv
  <2> QED  BY <2>2, <2>3
<1> QED  BY <1>3, <1>4, <1>5

LEMMA CorePush ==
  ASSUME Core, PushJob
  PROVE  Core'
<1> USE DEF PushJob, Core
<1>1. building \in [prev : Tips, round : Nat] /\ building.round = round
  BY DEF TypeOK, RoundInv
<1>2. /\ issued' \in Seq([prev : Tips, round : Nat])
      /\ Len(issued') = Len(issued) + 1
      /\ \A j \in 1..Len(issued) : issued'[j] = issued[j]
      /\ issued'[Len(issued) + 1] = building
  BY <1>1, AppendFacts DEF TypeOK
<1>3. Len(issued) \in Nat /\ Len(issued') <= MaxJobs
  BY <1>2, GateConstants DEF TypeOK, RoundInv
<1>4. TypeOK'
  BY <1>2, <1>3 DEF TypeOK, history, sessVars
<1>5. HandlerInv'
  BY <1>2, <1>3 DEF HandlerInv, sessVars
<1>6. RoundInv'
  BY <1>1, <1>2, <1>3, SMTT(40) DEF RoundInv
<1> QED  BY <1>4, <1>5, <1>6

LEMMA CoreUpdate ==
  ASSUME Core, UpdateWork \/ ControlReset
  PROVE  Core'
<1> USE DEF Core, TypeOK, HandlerInv, RoundInv, upVars, history, sessVars
<1>2. CASE PurgeSeen
  BY <1>2 DEF PurgeSeen
<1>3. CASE ResetBest
  BY <1>3 DEF ResetBest
<1>5. CASE ControlReset
  BY <1>5 DEF ControlReset
<1> QED  BY CorePublish, CorePush, <1>2, <1>3, <1>5 DEF UpdateWork

LEMMA GotoFacts ==
  ASSUME TypeOK, NEW s \in Sessions, NEW p, Goto(s, p),
         p \in {"idle", "tip", "gate", "gateStale", "hash", "judge", "note",
                "submit", "submitStale"}
  PROVE  /\ pc' \in [Sessions -> {"idle", "tip", "gate", "gateStale", "hash",
                                  "judge", "note", "submit", "submitStale"}]
         /\ share' \in [Sessions -> Shares \cup {NoShare}]
         /\ pc'[s] = p
         /\ p # "idle" => share'[s] = share[s]
         /\ \A r \in Sessions \ {s} : pc'[r] = pc[r] /\ share'[r] = share[r]
  BY DEF Goto, TypeOK

LEMMA GotoHandlers ==
  ASSUME Core, NEW s \in Sessions, NEW p, Goto(s, p), issued' = issued, pc[s] # "idle",
         p \in {"idle", "gate", "gateStale", "judge", "note", "submit", "submitStale"},
         p \in {"gate", "gateStale", "submitStale"} => s \in V1,
         p = "judge" => s \in V2
  PROVE  HandlerInv'
  BY GotoFacts DEF Core, HandlerInv

LEMMA BusyShare ==
  ASSUME Core, NEW s \in Sessions, pc[s] # "idle"
  PROVE  /\ share[s] \in Shares
         /\ share[s].job \in 1..Len(issued)
         /\ share[s].nonce \in Nonces
         /\ JobRound(share[s]) \in Nat
         /\ Diff[share[s].nonce] \in Nat
<1>1. share[s] \in Shares /\ share[s].job \in 1..Len(issued)
  BY DEF Core, HandlerInv
<1>2. share[s].nonce \in Nonces
  BY <1>1 DEF Shares
<1>3. issued[share[s].job] \in [prev : Tips, round : Nat]
  BY <1>1, ElementType DEF Core, TypeOK
<1> QED  BY <1>1, <1>2, <1>3, GateConstants DEF JobRound

LEMMA RegisterType ==
  ASSUME TypeOK, NEW h \in Shares, Register(h)
  PROVE  seenShares' \subseteq Shares /\ overflows' \in Nat
  BY DEF TypeOK, Register, SeenWith

LEMMA CreditType ==
  ASSUME TypeOK, NEW s \in Sessions, NEW h \in Shares, Credit(s, h)
  PROVE  counted' \in [Shares -> Nat] /\ late' \in [V1 -> Nat]
  BY DEF TypeOK, Credit

\* A step of a submit handler keeps the invariant: it moves its own program
\* counter along its own protocol and leaves the work published alone.
LEMMA CoreSubmit ==
  ASSUME Core, NEW s \in Sessions, Submit(s)
  PROVE  Core'
<1>0. UNCHANGED upVars => RoundInv'
  BY DEF Core, RoundInv, upVars
<1> USE DEF Core
<1>1. ASSUME NEW j \in 1..MaxJobs, NEW n \in Nonces, FindJob(s, j, n)
      PROVE  Core'
  <2>1. j \in 1..Len(issued)
    BY <1>1 DEF FindJob, InWindow
  <2> DEFINE h == [job |-> j, space |-> Space[s], nonce |-> n]
  <2>2. h \in Shares /\ h.space = Space[s] /\ h.job = j
    BY DEF Shares, Spaces
  <2>3. TypeOK'
    BY <1>1, <2>2, SMTT(40) DEF FindJob, TypeOK, upVars, history
  <2>4. HandlerInv'
    BY <1>1, <2>1, <2>2, SMTT(40) DEF FindJob, HandlerInv, TypeOK, upVars, Sessions
  <2> QED  BY <1>0, <1>1, <2>3, <2>4 DEF FindJob
<1>2. CASE ReadTip(s)
  <2>1. s \in V1 /\ pc[s] # "idle"
    BY <1>2 DEF ReadTip, HandlerInv
  <2>2. share[s] \in Shares
    BY <2>1, BusyShare
  <2>3. PICK p \in {"gate", "gateStale", "idle"} : Goto(s, p)
    BY <1>2 DEF ReadTip
  <2>4. solves' \subseteq Shares
    BY <1>2, <2>2 DEF ReadTip, Hashed, TypeOK
  <2>5. TypeOK'
    BY <1>2, <2>3, <2>4, GotoFacts DEF ReadTip, TypeOK, upVars
  <2>6. HandlerInv'
    BY <1>2, <2>1, <2>3, GotoHandlers DEF ReadTip, upVars
  <2> QED  BY <1>0, <1>2, <2>5, <2>6 DEF ReadTip
<1>3. CASE GateStale(s)
  <2>1. s \in V1 /\ pc[s] # "idle"
    BY <1>3 DEF GateStale, HandlerInv
  <2>2. share[s] \in Shares
    BY <2>1, BusyShare
  <2>3. PICK p \in {"submitStale", "idle"} : Goto(s, p)
    BY <1>3 DEF GateStale
  <2>4. seenShares' \subseteq Shares /\ overflows' \in Nat
    BY <1>3, <2>2, RegisterType DEF GateStale
  <2>5. TypeOK'
    BY <1>3, <2>3, <2>4, GotoFacts, SMTT(40) DEF GateStale, TypeOK, upVars
  <2>6. HandlerInv'
    BY <1>3, <2>1, <2>3, GotoHandlers DEF GateStale, upVars
  <2> QED  BY <1>0, <1>3, <2>5, <2>6 DEF GateStale
<1>4. CASE GateLow(s)
  <2>1. s \in V1 /\ pc[s] # "idle"
    BY <1>4 DEF GateLow, HandlerInv
  <2>3. PICK p \in {"submit", "idle"} : Goto(s, p)
    BY <1>4 DEF GateLow
  <2>5. TypeOK'
    BY <1>4, <2>3, GotoFacts DEF GateLow, TypeOK, upVars, history
  <2>6. HandlerInv'
    BY <1>4, <2>1, <2>3, GotoHandlers DEF GateLow, upVars
  <2> QED  BY <1>0, <1>4, <2>5, <2>6 DEF GateLow
<1>5. CASE GateAccept(s)
  <2>1. s \in V1 /\ pc[s] # "idle"
    BY <1>5 DEF GateAccept, HandlerInv
  <2>2. share[s] \in Shares
    BY <2>1, BusyShare
  <2>3. PICK p \in {"note", "idle"} : Goto(s, p)
    BY <1>5 DEF GateAccept
  <2>4. seenShares' \subseteq Shares /\ overflows' \in Nat
    BY <1>5, <2>2, RegisterType DEF GateAccept
  <2>5. counted' \in [Shares -> Nat] /\ late' \in [V1 -> Nat]
    BY <1>5, <2>2, CreditType DEF GateAccept, TypeOK
  <2>6. TypeOK'
    BY <1>5, <2>3, <2>4, <2>5, GotoFacts DEF GateAccept, TypeOK, upVars
  <2>7. HandlerInv'
    BY <1>5, <2>1, <2>3, GotoHandlers DEF GateAccept, upVars
  <2> QED  BY <1>0, <1>5, <2>6, <2>7 DEF GateAccept
<1>6. CASE HashV2(s)
  <2>1. s \in V2 /\ pc[s] # "idle"
    BY <1>6 DEF HashV2, HandlerInv
  <2>2. share[s] \in Shares
    BY <2>1, BusyShare
  <2>3. PICK p \in {"submit", "judge"} : Goto(s, p)
    BY <1>6 DEF HashV2
  <2>4. seenShares' \subseteq Shares /\ overflows' \in Nat
    BY <1>6, <2>2, RegisterType, SMTT(40) DEF HashV2, TypeOK
  <2>5. solves' \subseteq Shares
    BY <1>6, <2>2 DEF HashV2, Hashed, TypeOK
  <2>6. TypeOK'
    BY <1>6, <2>3, <2>4, <2>5, GotoFacts DEF HashV2, TypeOK, upVars
  <2>7. HandlerInv'
    BY <1>6, <2>1, <2>3, GotoHandlers DEF HashV2, upVars
  <2> QED  BY <1>0, <1>6, <2>6, <2>7 DEF HashV2
<1>7. CASE JudgeV2(s)
  <2>1. s \in V2 /\ pc[s] # "idle"
    BY <1>7 DEF JudgeV2, HandlerInv
  <2>2. share[s] \in Shares
    BY <2>1, BusyShare
  <2>3. PICK p \in {"note", "idle"} : Goto(s, p)
    BY <1>7 DEF JudgeV2
  <2>4. counted' \in [Shares -> Nat] /\ late' \in [V1 -> Nat]
    BY <1>7, <2>2, CreditType, SMTT(40) DEF JudgeV2, TypeOK
  <2>5. TypeOK'
    BY <1>7, <2>3, <2>4, GotoFacts DEF JudgeV2, TypeOK, upVars
  <2>6. HandlerInv'
    BY <1>7, <2>1, <2>3, GotoHandlers DEF JudgeV2, upVars
  <2> QED  BY <1>0, <1>7, <2>5, <2>6 DEF JudgeV2
<1>8. CASE NoteBest(s)
  <2>1. pc[s] # "idle"
    BY <1>8 DEF NoteBest
  <2>2. Diff[share[s].nonce] \in Nat
    BY <2>1, BusyShare
  <2>3. PICK p \in {"submit", "idle"} : Goto(s, p)
    BY <1>8 DEF NoteBest
  <2>4. bestShare' \in Nat /\ roundBest' \in Nat
    BY <1>8, <2>2 DEF NoteBest, TypeOK
  <2>5. TypeOK'
    BY <1>8, <2>3, <2>4, GotoFacts, SMTT(40) DEF NoteBest, TypeOK, upVars, history
  <2>6. HandlerInv'
    BY <1>8, <2>1, <2>3, GotoHandlers DEF NoteBest, upVars
  <2> QED  BY <1>0, <1>8, <2>5, <2>6 DEF NoteBest
<1>9. CASE SubmitBlock(s)
  <2>1. pc[s] # "idle"
    BY <1>9 DEF SubmitBlock
  <2>2. share[s] \in Shares
    BY <2>1, BusyShare
  <2>3. PICK p \in {"judge", "idle"} : Goto(s, p) /\ (p = "judge" => s \in V2)
    BY <1>9 DEF SubmitBlock, Sessions
  <2>4. submitted' \subseteq Shares /\ withheld' \subseteq Shares
    BY <1>9, <2>2 DEF SubmitBlock, TypeOK
  <2>5. TypeOK'
    BY <1>9, <2>3, <2>4, GotoFacts DEF SubmitBlock, TypeOK, upVars
  <2>6. HandlerInv'
    BY <1>9, <2>1, <2>3, GotoHandlers DEF SubmitBlock, upVars
  <2> QED  BY <1>0, <1>9, <2>5, <2>6 DEF SubmitBlock
<1> QED
  BY <1>1, <1>2, <1>3, <1>4, <1>5, <1>6, <1>7, <1>8, <1>9 DEF Submit

LEMMA CoreStutter ==
  ASSUME Core, UNCHANGED vars
  PROVE  Core'
  BY SMTT(40) DEF Core, TypeOK, HandlerInv, RoundInv, vars, upVars, history, sessVars

LEMMA CoreInvariant == Spec => []Core
<1>1. Core /\ [Next]_vars => Core'
  BY CoreUpdate, CoreSubmit, CoreStutter DEF Next
<1> QED  BY CoreInit, <1>1, PTL DEF Spec

\* Every variable keeps its type: the submit handlers and updateWork between
\* them never leave a share, a job or a handler step outside its domain.
THEOREM TypeCorrect == Spec => []TypeOK
<1>1. Core => TypeOK
  BY DEF Core
<1> QED  BY CoreInvariant, <1>1, PTL

(***************************************************************************)
(* The best share of a round survives the round's reset.                   *)
(***************************************************************************)

\* While updateWork has announced a block change but not yet reset the mark,
\* no share of the new round can have been noted: its first job is not pushed.
BestInv ==
  /\ bestShare >= roundBest
  /\ upc \in {"purge", "reset"} => roundBest = 0

LEMMA BestStep ==
  ASSUME Core, BestInv, [Next]_vars
  PROVE  BestInv'
<1> USE DEF BestInv
<1>1. bestShare \in Nat /\ roundBest \in Nat /\ upc \in {"idle", "purge", "reset", "push"}
  BY DEF Core, TypeOK
<1>2. ASSUME NEW t \in Tips, PublishTip(t) PROVE BestInv'
  BY <1>1, <1>2 DEF PublishTip
<1>3. CASE PurgeSeen
  BY <1>3 DEF PurgeSeen
<1>4. CASE ResetBest
  BY <1>1, <1>4 DEF ResetBest
<1>5. CASE PushJob
  BY <1>5 DEF PushJob
<1>6. CASE ControlReset
  BY <1>6 DEF ControlReset, upVars
<1>7. ASSUME NEW s \in Sessions, NoteBest(s) PROVE BestInv'
  <2>1. pc[s] # "idle"
    BY <1>7 DEF NoteBest
  <2>2. Diff[share[s].nonce] \in Nat /\ share[s].job \in 1..Len(issued)
    BY <2>1, BusyShare
  <2>3. upc \in {"purge", "reset"} => JobRound(share[s]) # round
    BY <2>2, ElementType, SMTT(40) DEF Core, TypeOK, RoundInv, JobRound
  <2> QED  BY <1>1, <1>7, <2>2, <2>3, SMTT(40) DEF NoteBest, upVars
<1>8. ASSUME NEW s \in Sessions, Submit(s), ~NoteBest(s) PROVE BestInv'
  BY <1>8 DEF Submit, FindJob, ReadTip, GateStale, GateLow, GateAccept, HashV2,
              JudgeV2, SubmitBlock, upVars
<1>9. CASE UNCHANGED vars
  BY <1>9 DEF vars, upVars
<1> QED  BY <1>2, <1>3, <1>4, <1>5, <1>6, <1>7, <1>8, <1>9 DEF Next, UpdateWork

\* The reset of a new round never erases a share of that round, whatever the
\* interleaving of updateWork, the control socket and the submit handlers.
THEOREM BestShareOfRoundKept == Spec => []RoundBestKept
<1>1. Init => BestInv
  BY DEF Init, BestInv
<1>2. BestInv => RoundBestKept
  BY DEF BestInv, RoundBestKept
<1> QED  BY CoreInvariant, <1>1, BestStep, <1>2, PTL DEF Spec

(***************************************************************************)
(* Superseded work: one late share per session and block change.           *)
(***************************************************************************)

\* A share past its tip check whose tip has since been replaced is one that a
\* block change already allows for.
LateInv ==
  \A s \in V1 :
    /\ late[s] = 0 \/ late[s] + 1 <= round
    /\ pc[s] = "gate" /\ Superseded(share[s]) => late[s] + 2 <= round

LEMMA LateStep ==
  ASSUME Core, LateInv, [Next]_vars
  PROVE  LateInv'
<1> USE DEF LateInv
<1>1. round \in Nat /\ \A s \in V1 : late[s] \in Nat
  BY DEF Core, TypeOK
<1>2. ASSUME NEW t \in Tips, PublishTip(t) PROVE LateInv'
  <2>1. CASE t # lastPrevhash
    <3> SUFFICES ASSUME NEW s \in V1
                 PROVE  /\ late[s] = 0 \/ late[s] + 1 <= round + 1
                        /\ pc[s] = "gate" => late[s] + 2 <= round + 1
      BY <1>2, <2>1 DEF PublishTip, history, sessVars
    <3>1. pc[s] = "gate" => round > 0
      <4> SUFFICES ASSUME pc[s] = "gate" PROVE round > 0
        OBVIOUS
      <4>1. s \in Sessions /\ pc[s] # "idle"
        BY DEF Sessions
      <4>2. share[s].job \in 1..Len(issued) /\ Len(issued) \in Nat
        BY <4>1, BusyShare DEF Core, TypeOK
      <4>3. Len(issued) # 0
        BY <4>2
      <4> QED  BY <4>3 DEF Core, RoundInv
    <3> QED  BY <1>1, <3>1
  <2>2. CASE t = lastPrevhash
    BY <1>2, <2>2 DEF PublishTip, history, sessVars, Superseded, Prev
  <2> QED  BY <2>1, <2>2
<1>3. CASE PurgeSeen
  BY <1>3 DEF PurgeSeen, history, sessVars, Superseded, Prev
<1>4. CASE ResetBest
  BY <1>4 DEF ResetBest, history, sessVars, Superseded, Prev
<1>5. CASE PushJob
  <2>1. \A j \in 1..Len(issued) : issued'[j] = issued[j]
    BY <1>5, AppendFacts DEF PushJob, Core, TypeOK, RoundInv
  <2>2. \A s \in V1 : pc[s] = "gate" => share[s].job \in 1..Len(issued)
    BY BusyShare DEF Sessions
  <2> QED  BY <1>5, <2>1, <2>2 DEF PushJob, history, sessVars, Superseded, Prev
<1>6. CASE ControlReset
  BY <1>6 DEF ControlReset, upVars, history, sessVars, Superseded, Prev
<1>7. ASSUME NEW s \in Sessions, Submit(s) PROVE LateInv'
  <2>2. UNCHANGED <<lastPrevhash, issued, round>>
    BY <1>7 DEF Submit, FindJob, ReadTip, GateStale, GateLow, GateAccept, HashV2,
                JudgeV2, NoteBest, SubmitBlock, upVars
  <2>3. \A r \in Sessions \ {s} : pc'[r] = pc[r] /\ share'[r] = share[r]
    BY <1>7, SMTT(40) DEF Submit, FindJob, ReadTip, GateStale, GateLow, GateAccept, HashV2,
                JudgeV2, NoteBest, SubmitBlock, Goto, Core, TypeOK
  <2>8. \A r \in V1 \ {s} : /\ pc'[r] = pc[r]
                            /\ Superseded(share[r])' <=> Superseded(share[r])
    BY <2>2, <2>3 DEF Superseded, Prev, Sessions
  <2>4. CASE GateAccept(s)
    <3>1. pc[s] = "gate" /\ s \in V1 /\ pc'[s] # "gate"
      BY <2>4 DEF GateAccept, Goto, Core, TypeOK, HandlerInv
    <3>2. /\ \A r \in V1 \ {s} : late'[r] = late[r]
          /\ late'[s] = late[s] \/ (Superseded(share[s]) /\ late'[s] = late[s] + 1)
      BY <2>4, <3>1 DEF GateAccept, Credit, Core, TypeOK
    <3> QED  BY <1>1, <2>2, <2>8, <3>1, <3>2
  <2>5. CASE ReadTip(s)
    <3>1. pc'[s] = "gate" => share'[s] = share[s] /\ ~Superseded(share[s])
      BY <2>5 DEF ReadTip, Goto, Core, TypeOK
    <3>2. pc'[s] = "gate" => ~Superseded(share[s])'
      BY <2>2, <3>1 DEF Superseded, Prev
    <3> QED  BY <2>2, <2>5, <2>8, <3>2 DEF ReadTip
  <2>6. CASE JudgeV2(s)
    <3>1. s \notin V1 /\ pc'[s] # "gate" /\ UNCHANGED late
      BY <2>6, GateConstants DEF JudgeV2, Credit, Goto, Core, TypeOK, HandlerInv
    <3> QED  BY <2>2, <2>8, <3>1
  <2>7. CASE ~GateAccept(s) /\ ~ReadTip(s) /\ ~JudgeV2(s)
    <3>1. pc'[s] # "gate" /\ UNCHANGED late
      BY <1>7, <2>7, SMTT(40) DEF Submit, FindJob, GateStale, GateLow, HashV2, NoteBest,
                        SubmitBlock, Goto, history, Core, TypeOK
    <3> QED  BY <2>2, <2>8, <3>1
  <2> QED  BY <2>4, <2>5, <2>6, <2>7
<1>8. CASE UNCHANGED vars
  BY <1>8 DEF vars, upVars, history, sessVars, Superseded, Prev
<1> QED  BY <1>2, <1>3, <1>4, <1>5, <1>6, <1>7, <1>8 DEF Next, UpdateWork

\* However many block changes race its submits, a V1 session is credited for
\* superseded work at most once per block change after the first.
THEOREM LateCreditBounded == Spec => []LateSharesBounded
<1>1. Init => LateInv
  BY DEF Init, LateInv, Sessions
<1>2. Core /\ LateInv => LateSharesBounded
  BY DEF Core, TypeOK, LateInv, LateSharesBounded
<1> QED  BY CoreInvariant, <1>1, LateStep, <1>2, PTL DEF Spec

(***************************************************************************)
(* The duplicate table: at most one credit per round and flush.            *)
(***************************************************************************)

V1Only(h) == \A s \in V2 : Space[s] # h.space

\* Once the table holds h, the next credit needs a purge or a flush. A purge
\* still to come is one the block change has already been charged with.
Allowance(h) ==
  (round - JobRound(h)) - (IF upc = "purge" THEN 1 ELSE 0)
    + overflows + (IF h \in seenShares THEN 1 ELSE 0)

CountInv ==
  \A h \in Shares :
    IF Issued(h) THEN V1Only(h) => counted[h] <= Allowance(h) ELSE counted[h] = 0

LEMMA RoundTypes ==
  ASSUME Core
  PROVE  /\ round \in Nat /\ overflows \in Nat
         /\ \A h \in Shares : counted[h] \in Nat
         /\ \A h \in Shares : Issued(h) => JobRound(h) \in Nat /\ JobRound(h) <= round
         /\ \A h \in Shares : Issued(h) /\ upc = "purge" => JobRound(h) < round
<1>1. \A j \in 1..Len(issued) : issued[j] \in [prev : Tips, round : Nat]
  BY ElementType DEF Core, TypeOK
<1> QED  BY <1>1 DEF Core, TypeOK, RoundInv, Issued, JobRound

LEMMA CountUpdate ==
  ASSUME Core, CountInv, UpdateWork \/ ControlReset \/ UNCHANGED vars
  PROVE  CountInv'
<1>0. /\ round \in Nat /\ overflows \in Nat
      /\ \A h \in Shares : counted[h] \in Nat
      /\ \A h \in Shares : Issued(h) => JobRound(h) \in Nat /\ JobRound(h) <= round
      /\ \A h \in Shares : Issued(h) /\ upc = "purge" => JobRound(h) < round
  BY RoundTypes
<1> USE DEF CountInv, Allowance
<1>1. ASSUME NEW t \in Tips, PublishTip(t) PROVE CountInv'
  <2>1. UNCHANGED <<issued, seenShares, overflows, counted>> /\ upc = "idle"
    BY <1>1 DEF PublishTip, history
  <2>2. \/ round' = round + 1 /\ upc' = "purge"
        \/ round' = round /\ upc' = "push"
    BY <1>1 DEF PublishTip
  <2>3. SUFFICES ASSUME NEW h \in Shares, Issued(h), V1Only(h)
                 PROVE  counted[h] <= Allowance(h)'
    BY <2>1 DEF Issued
  <2>4. counted[h] <= Allowance(h) /\ JobRound(h)' = JobRound(h)
    BY <2>1, <2>3 DEF JobRound
  <2> QED  BY <1>0, <2>1, <2>2, <2>3, <2>4
<1>2. CASE PurgeSeen
  <2>1. /\ UNCHANGED <<issued, round, overflows, counted>>
        /\ upc = "purge" /\ upc' = "reset" /\ seenShares' = {}
    BY <1>2 DEF PurgeSeen, history
  <2>2. SUFFICES ASSUME NEW h \in Shares, Issued(h), V1Only(h)
                 PROVE  counted[h] <= Allowance(h)'
    BY <2>1 DEF Issued
  <2>3. counted[h] <= Allowance(h) /\ JobRound(h)' = JobRound(h)
    BY <2>1, <2>2 DEF JobRound
  <2> QED  BY <1>0, <2>1, <2>2, <2>3
<1>3. CASE PushJob
  <2>1. /\ UNCHANGED <<round, seenShares, overflows, counted>>
        /\ upc = "push" /\ upc' = "idle"
    BY <1>3 DEF PushJob, history
  <2>2. /\ building \in [prev : Tips, round : Nat] /\ building.round = round
        /\ issued \in Seq([prev : Tips, round : Nat])
    BY <1>3 DEF PushJob, Core, TypeOK, RoundInv
  <2>3. /\ Len(issued') = Len(issued) + 1 /\ Len(issued) \in Nat
        /\ \A j \in 1..Len(issued) : issued'[j] = issued[j]
        /\ issued'[Len(issued) + 1] = building
    BY <1>3, <2>2, AppendFacts DEF PushJob
  <2>4. ASSUME NEW h \in Shares
        PROVE  IF Issued(h)' THEN V1Only(h)' => counted'[h] <= Allowance(h)'
                             ELSE counted'[h] = 0
    <3>1. CASE Issued(h)
      <4>1. JobRound(h)' = JobRound(h) /\ Issued(h)'
        BY <2>3, <3>1 DEF JobRound, Issued
      <4>2. V1Only(h) => counted[h] <= Allowance(h)
        BY <3>1
      <4> QED  BY <1>0, <2>1, <3>1, <4>1, <4>2 DEF V1Only
    <3>2. CASE ~Issued(h) /\ h.job = Len(issued) + 1
      <4>1. JobRound(h)' = round /\ counted[h] = 0
        BY <2>2, <2>3, <3>2 DEF JobRound
      <4>2. Issued(h)'
        BY <2>3, <3>2 DEF Issued
      <4> QED  BY <1>0, <2>1, <4>1, <4>2
    <3>3. CASE ~Issued(h) /\ h.job # Len(issued) + 1
      <4>1. ~Issued(h)' /\ counted[h] = 0
        BY <2>3, <3>3 DEF Issued
      <4> QED  BY <2>1, <4>1
    <3> QED  BY <3>1, <3>2, <3>3
  <2> QED  BY <2>4
<1>4. CASE ResetBest \/ ControlReset \/ UNCHANGED vars
  <2>1. /\ UNCHANGED <<issued, round, overflows, counted, seenShares>>
        /\ upc = "purge" <=> upc' = "purge"
    BY <1>4 DEF ResetBest, ControlReset, vars, upVars, history
  <2>2. SUFFICES ASSUME NEW h \in Shares, Issued(h), V1Only(h)
                 PROVE  counted[h] <= Allowance(h)'
    BY <2>1 DEF Issued
  <2>3. counted[h] <= Allowance(h) /\ JobRound(h)' = JobRound(h)
    BY <2>1, <2>2 DEF JobRound
  <2> QED  BY <2>1, <2>3
<1> QED  BY <1>1, <1>2, <1>3, <1>4 DEF UpdateWork

\* Registering a share leaves room for one more credit of it when it was a
\* first sighting, and takes no room from any other share.
LEMMA RegisterAllowance ==
  ASSUME Core, NEW g \in Shares, NEW h \in Shares, Issued(h),
         Register(g), UNCHANGED <<issued, round, upc>>
  PROVE  /\ Allowance(h)' >= Allowance(h)
         /\ (g = h /\ FirstSighting(h)) => Allowance(h)' >= Allowance(h) + 1
         /\ Allowance(h) \in Int /\ Allowance(h)' \in Int
<1>1. round \in Nat /\ overflows \in Nat /\ JobRound(h) \in Nat
  BY RoundTypes
<1>2. JobRound(h)' = JobRound(h)
  BY DEF JobRound
<1>3. CASE TableFull
  <2>1. seenShares' = {g} /\ overflows' = overflows + 1
    BY <1>3 DEF Register, SeenWith
  <2> QED  BY <1>1, <1>2, <2>1 DEF Allowance
<1>4. CASE ~TableFull
  <2>1. seenShares' = seenShares \cup {g} /\ overflows' = overflows
    BY <1>4 DEF Register, SeenWith
  <2>2. FirstSighting(h) => h \notin seenShares
    BY <1>4 DEF FirstSighting
  <2> QED  BY <1>1, <1>2, <2>1, <2>2 DEF Allowance
<1> QED  BY <1>3, <1>4

LEMMA CountSubmit ==
  ASSUME Core, CountInv, NEW s \in Sessions, Submit(s)
  PROVE  CountInv'
<1>0. UNCHANGED <<issued, round, upc>>
  BY DEF Submit, FindJob, ReadTip, GateStale, GateLow, GateAccept, HashV2,
         JudgeV2, NoteBest, SubmitBlock, upVars
<1>1. \A h \in Shares : Issued(h)' <=> Issued(h)
  BY <1>0 DEF Issued
<1>2. \A h \in Shares : Issued(h) =>
        /\ counted[h] \in Nat
        /\ V1Only(h) => counted[h] <= Allowance(h)
  BY RoundTypes DEF CountInv
<1>3. CASE GateAccept(s)
  <2>1. pc[s] # "idle"
    BY <1>3 DEF GateAccept
  <2>2. share[s] \in Shares /\ Issued(share[s])
    BY <2>1, BusyShare DEF Issued
  <2>3. Register(share[s])
    BY <1>3 DEF GateAccept
  <2>4. /\ \A h \in Shares \ {share[s]} : counted'[h] = counted[h]
        /\ FirstSighting(share[s]) => counted'[share[s]] = counted[share[s]] + 1
        /\ ~FirstSighting(share[s]) => counted'[share[s]] = counted[share[s]]
    BY <1>3, <2>2 DEF GateAccept, Credit, Core, TypeOK
  <2>5. ASSUME NEW h \in Shares, Issued(h), V1Only(h)
        PROVE  counted'[h] <= Allowance(h)'
    <3>1. /\ Allowance(h)' >= Allowance(h)
          /\ (share[s] = h /\ FirstSighting(h)) => Allowance(h)' >= Allowance(h) + 1
          /\ Allowance(h) \in Int /\ Allowance(h)' \in Int
      BY <1>0, <2>2, <2>3, <2>5, RegisterAllowance
    <3> QED  BY <1>2, <2>4, <2>5, <3>1
  <2>6. ASSUME NEW h \in Shares, ~Issued(h)
        PROVE  counted'[h] = 0
    BY <2>2, <2>4, <2>6 DEF CountInv
  <2> QED  BY <1>1, <2>5, <2>6 DEF CountInv, V1Only
<1>4. CASE JudgeV2(s)
  <2>1. s \in V2 /\ pc[s] # "idle"
    BY <1>4 DEF JudgeV2, Core, HandlerInv
  <2>2. share[s] \in Shares /\ Issued(share[s]) /\ ~V1Only(share[s])
    BY <2>1, BusyShare DEF Core, HandlerInv, V1Only, Issued
  <2>3. \A h \in Shares \ {share[s]} : counted'[h] = counted[h]
    BY <1>4, <2>2 DEF JudgeV2, Credit, Core, TypeOK
  <2>4. \A h : Allowance(h)' = Allowance(h)
    BY <1>0, <1>4 DEF JudgeV2, Allowance, JobRound
  <2> QED  BY <1>1, <2>2, <2>3, <2>4 DEF CountInv, V1Only
<1>5. CASE GateStale(s) \/ (HashV2(s) /\ Solves(share[s]))
  <2>1. pc[s] # "idle" /\ Register(share[s]) /\ UNCHANGED counted
    BY <1>5 DEF GateStale, HashV2
  <2>2. share[s] \in Shares
    BY <2>1, BusyShare
  <2>3. ASSUME NEW h \in Shares, Issued(h), V1Only(h)
        PROVE  counted'[h] <= Allowance(h)'
    <3>1. Allowance(h)' >= Allowance(h) /\ Allowance(h) \in Int /\ Allowance(h)' \in Int
      BY <1>0, <2>1, <2>2, <2>3, RegisterAllowance
    <3> QED  BY <1>2, <2>1, <2>3, <3>1
  <2> QED  BY <1>1, <2>1, <2>3 DEF CountInv, V1Only
<1>6. CASE ~GateAccept(s) /\ ~JudgeV2(s) /\ ~GateStale(s) /\ ~(HashV2(s) /\ Solves(share[s]))
  <2>1. UNCHANGED <<counted, seenShares, overflows>>
    BY <1>6 DEF Submit, FindJob, ReadTip, GateLow, HashV2, NoteBest, SubmitBlock, history
  <2>2. \A h : Allowance(h)' = Allowance(h)
    BY <1>0, <2>1 DEF Allowance, JobRound
  <2> QED  BY <1>1, <2>1, <2>2 DEF CountInv, V1Only
<1> QED  BY <1>3, <1>4, <1>5, <1>6

\* A share only V1 sessions can produce is credited at most once in its job's
\* round and once more per later block change or table flush, for any window,
\* cap and number of sessions: the order purge, reset, push is what it rests on.
THEOREM CreditedOnce == Spec => []CountedOncePerRound
<1>1. Init => CountInv
  BY DEF Init, CountInv, Issued
<1>2. Core /\ CountInv /\ [Next]_vars => CountInv'
  BY CountUpdate, CountSubmit DEF Next
<1>3. Core /\ CountInv => CountedOncePerRound
  <2> SUFFICES ASSUME Core, CountInv, NEW h \in Shares, Issued(h),
                      \A s \in V2 : Space[s] # h.space
               PROVE  counted[h] <= 1 + (round - JobRound(h)) + overflows
    BY DEF CountedOncePerRound
  <2>1. counted[h] <= Allowance(h)
    BY DEF CountInv, V1Only
  <2> QED  BY <2>1, RoundTypes DEF Allowance
<1> QED  BY CoreInvariant, <1>1, <1>2, <1>3, PTL DEF Spec

(***************************************************************************)
(* A solve is never lost.                                                  *)
(***************************************************************************)

Settled(h) == h \in submitted \/ h \in withheld

\* The handler of s is past the verdicts and will hand its share over.
Sending(s, h) ==
  /\ share[s] = h
  /\ pc[s] \in {"submit", "submitStale"} \/ (pc[s] = "note" /\ s \in V1)

\* Whoever entered a solve in the duplicate table sends it, so a session that
\* then finds it there may drop its own copy.
SolveInv ==
  /\ \A h \in solves : /\ Solves(h)
                       /\ Settled(h) \/ \E s \in Sessions : Carries(s, h)
  /\ \A h \in seenShares :
       Solves(h) => Settled(h) \/ \E s \in Sessions : Sending(s, h)

\* Sufficient conditions for a step of s, holding share g, to keep the
\* invariant: every share but g is left to the others, and g is accounted for.
LEMMA SolveStep ==
  ASSUME SolveInv, NEW s \in Sessions, NEW g, g = share[s],
         \A r \in Sessions \ {s} : pc'[r] = pc[r] /\ share'[r] = share[r],
         solves' \subseteq solves \cup {g},
         g \in solves' => /\ Solves(g)
                          /\ Settled(g)' \/ \E r \in Sessions : Carries(r, g)',
         seenShares' \subseteq seenShares \cup {g},
         g \in seenShares' /\ Solves(g)
           => Settled(g)' \/ \E r \in Sessions : Sending(r, g)',
         submitted \subseteq submitted', withheld \subseteq withheld'
  PROVE  SolveInv'
<1>1. \A h : Settled(h) => Settled(h)'
  BY DEF Settled
<1>3. \A h : Solves(h)' <=> Solves(h)
  BY DEF Solves
<1>5. ASSUME NEW h, h # g, NEW r \in Sessions
      PROVE  /\ Carries(r, h) => Carries(r, h)'
             /\ Sending(r, h) => Sending(r, h)'
  BY <1>5 DEF Carries, Sending
<1>6. ASSUME NEW h \in solves'
      PROVE  /\ Solves(h)'
             /\ Settled(h)' \/ \E r \in Sessions : Carries(r, h)'
  <2>1. CASE h = g
    BY <1>3, <1>6, <2>1
  <2>2. CASE h # g
    BY <1>1, <1>3, <1>5, <1>6, <2>2 DEF SolveInv
  <2> QED  BY <2>1, <2>2
<1>7. ASSUME NEW h \in seenShares', Solves(h)
      PROVE  Settled(h)' \/ \E r \in Sessions : Sending(r, h)'
  <2>1. CASE h = g
    BY <1>7, <2>1
  <2>2. CASE h # g
    BY <1>1, <1>5, <1>7, <2>2 DEF SolveInv
  <2> QED  BY <2>1, <2>2
<1> QED  BY <1>3, <1>6, <1>7 DEF SolveInv

\* A solve some other session is sending, or has sent, stays so.
LEMMA SendingKept ==
  ASSUME SolveInv, NEW s \in Sessions, NEW g,
         \A r \in Sessions \ {s} : pc'[r] = pc[r] /\ share'[r] = share[r],
         ~Sending(s, g), g \in seenShares, Solves(g),
         submitted \subseteq submitted', withheld \subseteq withheld'
  PROVE  Settled(g)' \/ \E r \in Sessions : Sending(r, g)'
<1>1. Settled(g) \/ \E r \in Sessions \ {s} : Sending(r, g)
  BY DEF SolveInv
<1>2. CASE Settled(g)
  BY <1>2 DEF Settled
<1>3. ASSUME NEW r \in Sessions \ {s}, Sending(r, g)
      PROVE  Sending(r, g)'
  <2>1. pc'[r] = pc[r] /\ share'[r] = share[r]
    BY <1>3
  <2> QED  BY <1>3, <2>1 DEF Sending
<1> QED  BY <1>1, <1>2, <1>3

LEMMA CarriedKept ==
  ASSUME SolveInv, NEW s \in Sessions, NEW g,
         \A r \in Sessions \ {s} : pc'[r] = pc[r] /\ share'[r] = share[r],
         ~Carries(s, g), g \in solves,
         submitted \subseteq submitted', withheld \subseteq withheld'
  PROVE  Settled(g)' \/ \E r \in Sessions : Carries(r, g)'
<1>1. Settled(g) \/ \E r \in Sessions \ {s} : Carries(r, g)
  BY DEF SolveInv
<1>2. CASE Settled(g)
  BY <1>2 DEF Settled
<1>3. ASSUME NEW r \in Sessions \ {s}, Carries(r, g)
      PROVE  Carries(r, g)'
  <2>1. pc'[r] = pc[r] /\ share'[r] = share[r]
    BY <1>3
  <2> QED  BY <1>3, <2>1 DEF Carries
<1> QED  BY <1>1, <1>2, <1>3

LEMMA SolveUpdate ==
  ASSUME SolveInv, UpdateWork \/ ControlReset \/ UNCHANGED vars
  PROVE  SolveInv'
<1>1. UNCHANGED <<solves, submitted, withheld, pc, share>> /\ seenShares' \subseteq seenShares
  BY DEF UpdateWork, PublishTip, PurgeSeen, ResetBest, PushJob, ControlReset,
         vars, upVars, history, sessVars
<1> QED  BY <1>1 DEF SolveInv, Settled, Solves, Carries, Sending

LEMMA SolveSubmit ==
  ASSUME Core, SolveInv, NEW s \in Sessions, Submit(s), NEW g, g = share[s]
  PROVE  SolveInv'
<1>0. \A r \in Sessions \ {s} : pc'[r] = pc[r] /\ share'[r] = share[r]
  BY DEF Submit, FindJob, ReadTip, GateStale, GateLow, GateAccept, HashV2,
         JudgeV2, NoteBest, SubmitBlock, Goto, Core, TypeOK
<1>1. submitted \subseteq submitted' /\ withheld \subseteq withheld'
  BY DEF Submit, FindJob, ReadTip, GateStale, GateLow, GateAccept, HashV2,
         JudgeV2, NoteBest, SubmitBlock, history
<1>2. \A p : p # "idle" /\ Goto(s, p) => pc'[s] = p /\ share'[s] = g
  BY DEF Goto, Core, TypeOK
<1>3. ~Carries(s, g) /\ g \in solves
        => Settled(g)' \/ \E r \in Sessions : Carries(r, g)'
  BY <1>0, <1>1, CarriedKept
<1>4. ~Sending(s, g) /\ g \in seenShares /\ Solves(g)
        => Settled(g)' \/ \E r \in Sessions : Sending(r, g)'
  BY <1>0, <1>1, SendingKept
<1>5. g \in solves => Solves(g)
  BY DEF SolveInv
<1>6. \A r \in Sessions : Sending(r, g)' => Carries(r, g)'
  BY DEF Sending, Carries
<1>7. pc[s] \in {"tip", "gate", "gateStale"} => s \in V1 /\ s \notin V2
  BY GateConstants DEF Core, HandlerInv
\* A step that leaves the table alone and is neither a note nor a submission.
<1>8. ASSUME UNCHANGED <<solves, seenShares>>, ~Sending(s, g),
             g \in solves /\ Carries(s, g)
               => Settled(g)' \/ \E r \in Sessions : Carries(r, g)'
      PROVE  SolveInv'
  <2>1. solves' \subseteq solves \cup {g} /\ seenShares' \subseteq seenShares \cup {g}
    BY <1>8
  <2>2. g \in solves' => /\ Solves(g)
                         /\ Settled(g)' \/ \E r \in Sessions : Carries(r, g)'
    BY <1>3, <1>5, <1>8
  <2>3. g \in seenShares' /\ Solves(g)
          => Settled(g)' \/ \E r \in Sessions : Sending(r, g)'
    BY <1>4, <1>8
  <2> QED  BY <1>0, <1>1, <2>1, <2>2, <2>3, SolveStep
<1>9. CASE \E j \in 1..MaxJobs, n \in Nonces : FindJob(s, j, n)
  BY <1>8, <1>9 DEF FindJob, Sending, Carries, history
<1>10. CASE ReadTip(s)
  <2>1. pc[s] = "tip" /\ UNCHANGED seenShares
    BY <1>10 DEF ReadTip
  <2>2. CASE Goto(s, "idle") /\ UNCHANGED solves
    BY <1>8, <2>1, <2>2 DEF Sending, Carries
  <2>3. CASE Hashed(g) /\ \E p \in {"gate", "gateStale"} : Goto(s, p)
    <3>1. Carries(s, g)'
      BY <1>2, <2>3 DEF Carries
    <3>2. solves' \subseteq solves \cup {g} /\ (g \in solves' => Solves(g))
      BY <1>5, <2>3 DEF Hashed
    <3>3. g \in seenShares' /\ Solves(g)
            => Settled(g)' \/ \E r \in Sessions : Sending(r, g)'
      BY <1>4, <2>1 DEF Sending
    <3> QED  BY <1>0, <1>1, <2>1, <3>1, <3>2, <3>3, SolveStep
  <2> QED  BY <1>10, <2>2, <2>3 DEF ReadTip
<1>11. CASE GateStale(s) \/ GateAccept(s)
  <2>1. pc[s] \in {"gate", "gateStale"} /\ UNCHANGED solves /\ Register(g) /\ s \in V1
    BY <1>7, <1>11 DEF GateStale, GateAccept
  <2>2. seenShares' \subseteq seenShares \cup {g}
    BY <2>1 DEF Register, SeenWith
  <2>3. CASE FirstSighting(g) /\ Solves(g)
    <3>1. Sending(s, g)'
      BY <1>2, <1>11, <2>1, <2>3 DEF GateStale, GateAccept, Sending
    <3> QED  BY <1>0, <1>1, <1>5, <1>6, <2>1, <2>2, <3>1, SolveStep
  <2>4. CASE ~FirstSighting(g) /\ Solves(g)
    <3>1. g \in seenShares /\ ~Sending(s, g)
      BY <2>1, <2>4 DEF FirstSighting, Sending
    <3>2. Settled(g)' \/ \E r \in Sessions : Sending(r, g)'
      BY <1>4, <2>4, <3>1
    <3> QED  BY <1>0, <1>1, <1>5, <1>6, <2>1, <2>2, <3>2, SolveStep
  <2>5. CASE ~Solves(g)
    BY <1>0, <1>1, <1>5, <2>1, <2>2, <2>5, SolveStep
  <2> QED  BY <2>3, <2>4, <2>5
<1>12. CASE GateLow(s)
  <2>1. pc[s] = "gate" /\ UNCHANGED <<solves, seenShares>> /\ ~Sending(s, g)
    BY <1>12 DEF GateLow, history, Sending
  <2>2. Solves(g) => Carries(s, g)'
    BY <1>2, <1>12 DEF GateLow, Carries
  <2> QED  BY <1>5, <1>8, <2>1, <2>2
<1>13. CASE HashV2(s)
  <2>1. pc[s] = "hash" /\ Hashed(g)
    BY <1>13 DEF HashV2
  <2>2. solves' \subseteq solves \cup {g} /\ (g \in solves' => Solves(g))
    BY <1>5, <2>1 DEF Hashed
  <2>3. CASE ~Solves(g)
    <3>1. UNCHANGED seenShares
      BY <1>13, <2>3 DEF HashV2
    <3> QED  BY <1>0, <1>1, <2>2, <2>3, <3>1, SolveStep
  <2>4. CASE Solves(g)
    <3>1. Register(g)
      BY <1>13, <2>4 DEF HashV2
    <3>2. seenShares' \subseteq seenShares \cup {g}
      BY <3>1 DEF Register, SeenWith
    <3>3. CASE FirstSighting(g)
      <4>1. Sending(s, g)'
        BY <1>2, <1>13, <2>4, <3>3 DEF HashV2, Sending
      <4> QED  BY <1>0, <1>1, <1>6, <2>2, <3>2, <4>1, SolveStep
    <3>4. CASE ~FirstSighting(g)
      <4>1. g \in seenShares /\ ~Sending(s, g)
        BY <2>1, <3>4 DEF FirstSighting, Sending
      <4>2. Settled(g)' \/ \E r \in Sessions : Sending(r, g)'
        BY <1>4, <2>4, <4>1
      <4> QED  BY <1>0, <1>1, <1>6, <2>2, <3>2, <4>2, SolveStep
    <3> QED  BY <3>3, <3>4
  <2> QED  BY <2>3, <2>4
<1>14. CASE JudgeV2(s)
  BY <1>8, <1>14 DEF JudgeV2, Sending, Carries
<1>15. CASE NoteBest(s)
  <2>1. pc[s] = "note" /\ UNCHANGED <<solves, seenShares>>
    BY <1>15 DEF NoteBest, history
  <2>2. CASE s \in V1 /\ Solves(g)
    <3>1. Sending(s, g)'
      BY <1>2, <1>15, <2>2 DEF NoteBest, Sending
    <3> QED  BY <1>0, <1>1, <1>6, <2>1, <2>2, <3>1, SolveStep
  <2>3. CASE ~Solves(g)
    BY <1>0, <1>1, <1>5, <2>1, <2>3, SolveStep
  <2>4. CASE s \notin V1
    BY <1>8, <2>1, <2>4 DEF Sending, Carries
  <2> QED  BY <2>2, <2>3, <2>4
<1>16. CASE SubmitBlock(s)
  <2>1. Settled(g)' /\ UNCHANGED <<solves, seenShares>>
    BY <1>16 DEF SubmitBlock, Settled
  <2> QED  BY <1>0, <1>1, <1>5, <2>1, SolveStep
<1> QED
  BY <1>9, <1>10, <1>11, <1>12, <1>13, <1>14, <1>15, <1>16 DEF Submit

\* No interleaving of sessions, block changes, purges and table flushes loses
\* a hashed solve: the session that registered it submits it, and a session
\* that refuses it, as low or as a duplicate, leaves it to one that will.
THEOREM SolveNeverLost == Spec => []SolvesReachNode
<1>1. Init => SolveInv
  BY DEF Init, SolveInv
<1>2. Core /\ SolveInv /\ [Next]_vars => SolveInv'
  BY SolveUpdate, SolveSubmit DEF Next
<1>3. SolveInv => SolvesReachNode
  BY DEF SolveInv, SolvesReachNode, Settled
<1> QED  BY CoreInvariant, <1>1, <1>2, <1>3, PTL DEF Spec

(***************************************************************************)
(* The RPC client: every call is accounted for.                            *)
(***************************************************************************)

Replies == {"none", "ok", "soft", "error"}
CallRecords == [stage : Stages, at : Node, tried : Node, attempt : 0..MaxAttempts,
                asked : SUBSET Node, reply : Replies]

LEMMA NodeNumbers ==
  /\ N \in Nat /\ N > 0 /\ MaxAttempts \in Nat /\ MaxAttempts > 0
  /\ \A n : n \in Node <=> n \in Nat /\ n < N
  /\ Primary \in Node
  BY ClientConstants DEF Node, Primary

\* The exchanges of n attempts.
Exchanges(n) == N * n

LEMMA OneMoreAttempt ==
  /\ \A n \in Nat : Exchanges(n) \in Nat /\ Exchanges(n + 1) = Exchanges(n) + N
  /\ Exchanges(1) = N
<1>1. N \in Nat
  BY NodeNumbers
<1>2. \A n \in Nat : N * n \in Nat /\ N * (n + 1) = N * n + N
  BY <1>1
<1>3. N * 1 = N
  BY <1>1
<1> QED  BY <1>2, <1>3 DEF Exchanges

(***************************************************************************)
(* The nodes a failover asks: the last tried + 1 on the way around.        *)
(***************************************************************************)

Arc(at, tried) ==
  { n \in Node : IF tried <= at THEN at - tried <= n /\ n <= at
                 ELSE n <= at \/ N + at - tried <= n }

AskedInv(k) == /\ k.asked = Arc(k.at, k.tried) /\ IsFiniteSet(k.asked)
               /\ Cardinality(k.asked) = k.tried + 1

LEMMA NodeAfter ==
  ASSUME NEW at \in Node
  PROVE  (at + 1) % N = IF at + 1 = N THEN 0 ELSE at + 1
<1>1. at \in Nat /\ at < N /\ N \in Nat /\ N > 0
  BY NodeNumbers
<1>2. CASE at + 1 = N
  BY <1>1, <1>2
<1>3. CASE at + 1 < N
  BY <1>1, <1>3
<1> QED  BY <1>1, <1>2, <1>3

LEMMA AskedNext ==
  ASSUME NEW k \in CallRecords, AskedInv(k), k.tried + 1 < N
  PROVE  AskedInv(NextNode(k)) /\ NextNode(k) \in CallRecords
<1> DEFINE n == (k.at + 1) % N
<1>1. /\ k.at \in Nat /\ k.at < N /\ k.tried \in Nat /\ N \in Nat
      /\ n = IF k.at + 1 = N THEN 0 ELSE k.at + 1
  BY NodeNumbers, NodeAfter DEF CallRecords
<1>2. n \in Node /\ k.tried + 1 \in Node
  BY <1>1, NodeNumbers
<1>3. /\ NextNode(k).at = n /\ NextNode(k).tried = k.tried + 1
      /\ NextNode(k).asked = k.asked \cup {n}
      /\ NextNode(k).stage = "connect" /\ NextNode(k).reply = "none"
      /\ NextNode(k).attempt = k.attempt
  BY DEF NextNode, CallRecords
<1>4. NextNode(k) \in CallRecords
  BY <1>2 DEF NextNode, CallRecords, Stages, Replies
<1> HIDE DEF n
<1>5. n \notin Arc(k.at, k.tried)
  BY <1>1, NodeNumbers DEF Arc
<1>6. Arc(n, k.tried + 1) = Arc(k.at, k.tried) \cup {n}
  <2>1. ASSUME NEW m \in Node PROVE m \in Arc(n, k.tried + 1) <=> m \in Arc(k.at, k.tried) \/ m = n
    BY <1>1, <2>1, NodeNumbers DEF Arc
  <2> QED  BY <1>2, <2>1 DEF Arc
<1>7. IsFiniteSet(k.asked \cup {n}) /\ Cardinality(k.asked \cup {n}) = k.tried + 2
  <2>1. Cardinality(k.asked \cup {n}) = Cardinality(k.asked) + 1 /\ IsFiniteSet(k.asked \cup {n})
    BY <1>5, FS_AddElement DEF AskedInv
  <2> QED  BY <1>1, <2>1 DEF AskedInv
<1> QED  BY <1>1, <1>3, <1>4, <1>6, <1>7 DEF AskedInv

LEMMA AskedFirst ==
  ASSUME NEW at \in Node, NEW n \in 0..MaxAttempts
  PROVE  AskedInv(Begun(at, n)) /\ Begun(at, n) \in CallRecords
<1>1. Arc(at, 0) = {at}
  BY NodeNumbers DEF Arc
<1>2. Begun(at, n) \in CallRecords
  BY NodeNumbers DEF Begun, CallRecords, Stages, Replies
<1>3. Begun(at, n).asked = {at} /\ Begun(at, n).at = at /\ Begun(at, n).tried = 0
  BY DEF Begun
<1>4. IsFiniteSet({at}) /\ Cardinality({at}) = 0 + 1
  BY FS_Singleton
<1> QED  BY <1>1, <1>2, <1>3, <1>4 DEF AskedInv

(***************************************************************************)
(* One call: its record k, the exchanges f that failed, the times a its    *)
(* caller was told, the times w its callback threw.                        *)
(***************************************************************************)

Running(k) == k.stage \in {"connect", "read"}

Accounted(c, k, f, a, w) ==
  /\ k \in CallRecords /\ f \in Nat /\ a \in Nat /\ w \in Nat
  /\ c \notin Submits => k.attempt <= 1
  /\ k.stage = "idle" => f = 0 /\ a = 0 /\ w = 0
  /\ Running(k) => /\ k.attempt >= 1 /\ AskedInv(k)
                   /\ f + N = Exchanges(k.attempt) + k.tried
                   /\ a = w
  /\ k.stage = "backoff" => /\ c \in Submits /\ 1 <= k.attempt /\ k.attempt < MaxAttempts
                            /\ f = Exchanges(k.attempt)
                            /\ a = w
  /\ k.stage = "failed" => /\ k.attempt = IF c \in Submits THEN MaxAttempts ELSE 1
                           /\ f = Exchanges(k.attempt)
                           /\ a = w + 1
  /\ k.stage = "answered" => a = w + 1

LEMMA StartAccounted ==
  ASSUME NEW c \in AllCalls, NEW at \in Node, NEW n \in 1..MaxAttempts, c \notin Submits => n = 1,
         NEW f \in Nat, f + N = Exchanges(n), NEW a \in Nat, NEW w \in Nat, a = w
  PROVE  Accounted(c, Begun(at, n), f, a, w)
<1>1. /\ Begun(at, n).stage = "connect" /\ Begun(at, n).tried = 0 /\ Begun(at, n).attempt = n
  BY DEF Begun
<1>2. n \in 0..MaxAttempts /\ n >= 1 /\ n \in Nat /\ Exchanges(n) \in Nat
  BY NodeNumbers, OneMoreAttempt
<1>3. f + N = Exchanges(n) + 0
  BY <1>2
<1> QED  BY <1>1, <1>2, <1>3, AskedFirst DEF Accounted, Running

LEMMA FailureAccounted ==
  ASSUME NEW c \in AllCalls, NEW k, NEW f, NEW a, NEW w, Accounted(c, k, f, a, w), Running(k),
         NEW v \in Nat, NEW told \in Nat,
         told = v + (IF k.tried + 1 >= N /\ ~MayRetry(c, k) THEN 1 ELSE 0)
  PROVE  Accounted(c, AfterFailure(c, k), f + 1, told, v)
<1>1. /\ k \in CallRecords /\ f \in Nat /\ f + 1 \in Nat
      /\ c \notin Submits => k.attempt <= 1
      /\ k.attempt >= 1 /\ AskedInv(k) /\ f + N = Exchanges(k.attempt) + k.tried /\ a = w
  BY DEF Accounted
<1>2. /\ k.tried \in Nat /\ k.tried < N /\ N \in Nat /\ MaxAttempts \in Nat
      /\ k.attempt \in Nat /\ k.attempt <= MaxAttempts /\ Exchanges(k.attempt) \in Nat
  BY <1>1, NodeNumbers, OneMoreAttempt DEF CallRecords
<1>3. CASE k.tried + 1 < N
  <2>1. AfterFailure(c, k) = NextNode(k)
    BY <1>2, <1>3 DEF AfterFailure
  <2>2. AskedInv(NextNode(k)) /\ NextNode(k) \in CallRecords
    BY <1>1, <1>3, AskedNext
  <2>3. /\ NextNode(k).stage = "connect" /\ NextNode(k).tried = k.tried + 1
        /\ NextNode(k).attempt = k.attempt
    BY <1>1 DEF NextNode, CallRecords
  <2>4. told = v
    BY <1>1, <1>2, <1>3
  <2>5. f + 1 + N = Exchanges(k.attempt) + (k.tried + 1)
    BY <1>1, <1>2
  <2> QED  BY <1>1, <2>1, <2>2, <2>3, <2>4, <2>5 DEF Accounted, Running
<1>4. CASE ~(k.tried + 1 < N)
  <2>1. f + 1 = Exchanges(k.attempt) /\ k.tried + 1 >= N
    BY <1>1, <1>2, <1>4
  <2>2. CASE MayRetry(c, k)
    <3>1. AfterFailure(c, k) = [k EXCEPT !.stage = "backoff"]
      BY <1>2, <1>4, <2>1, <2>2 DEF AfterFailure
    <3>2. [k EXCEPT !.stage = "backoff"] \in CallRecords
      BY <1>1 DEF CallRecords, Stages
    <3>3. [k EXCEPT !.stage = "backoff"].stage = "backoff"
          /\ [k EXCEPT !.stage = "backoff"].attempt = k.attempt
      BY <1>1 DEF CallRecords
    <3>4. c \in Submits /\ k.attempt < MaxAttempts
      BY <2>2 DEF MayRetry
    <3>5. told = v
      BY <1>1, <2>2
    <3> QED  BY <1>1, <1>2, <2>1, <3>1, <3>2, <3>3, <3>4, <3>5 DEF Accounted, Running
  <2>3. CASE ~MayRetry(c, k)
    <3>1. AfterFailure(c, k) = [k EXCEPT !.stage = "failed"]
      BY <1>2, <1>4, <2>1, <2>3 DEF AfterFailure
    <3>2. [k EXCEPT !.stage = "failed"] \in CallRecords
      BY <1>1 DEF CallRecords, Stages
    <3>3. [k EXCEPT !.stage = "failed"].stage = "failed"
          /\ [k EXCEPT !.stage = "failed"].attempt = k.attempt
      BY <1>1 DEF CallRecords
    <3>4. k.attempt = IF c \in Submits THEN MaxAttempts ELSE 1
      BY <1>1, <1>2, <2>3 DEF MayRetry
    <3>5. told = v + 1
      BY <1>1, <2>1, <2>3
    <3> QED  BY <1>1, <1>2, <2>1, <3>1, <3>2, <3>3, <3>4, <3>5 DEF Accounted, Running
  <2> QED  BY <2>2, <2>3
<1> QED  BY <1>3, <1>4

LEMMA ReceiptAccounted ==
  ASSUME NEW c \in AllCalls, NEW k, NEW f, NEW a, NEW w, Accounted(c, k, f, a, w), Running(k),
         NEW reply \in Replies
  PROVE  Accounted(c, [k EXCEPT !.stage = "read", !.reply = reply], f, a, w)
<1> DEFINE r == [k EXCEPT !.stage = "read", !.reply = reply]
<1>1. k \in CallRecords
  BY DEF Accounted
<1>2. r \in CallRecords
  BY <1>1 DEF CallRecords, Stages
<1>3. /\ r.stage = "read" /\ r.attempt = k.attempt /\ r.tried = k.tried /\ r.at = k.at
      /\ r.asked = k.asked
  BY <1>1 DEF CallRecords
<1> HIDE DEF r
<1>4. Accounted(c, r, f, a, w)
  BY <1>2, <1>3 DEF Accounted, Running, AskedInv
<1> QED  BY <1>4 DEF r

LEMMA AnswerAccounted ==
  ASSUME NEW c \in AllCalls, NEW k, NEW f, NEW a, NEW w, Accounted(c, k, f, a, w), Running(k)
  PROVE  Accounted(c, [k EXCEPT !.stage = "answered"], f, a + 1, w)
<1> DEFINE r == [k EXCEPT !.stage = "answered"]
<1>1. k \in CallRecords /\ a \in Nat /\ a = w
  BY DEF Accounted
<1>2. r \in CallRecords
  BY <1>1 DEF CallRecords, Stages
<1>3. r.stage = "answered" /\ r.attempt = k.attempt
  BY <1>1 DEF CallRecords
<1> HIDE DEF r
<1>4. Accounted(c, r, f, a + 1, w)
  BY <1>1, <1>2, <1>3 DEF Accounted, Running
<1> QED  BY <1>4 DEF r

(***************************************************************************)
(* All calls.                                                              *)
(***************************************************************************)

CallsInv == /\ call = [c \in AllCalls |-> call[c]]
            /\ answers = [c \in AllCalls |-> answers[c]]
            /\ failures = [c \in AllCalls |-> failures[c]]
            /\ threw = [c \in AllCalls |-> threw[c]]
            /\ \A c \in AllCalls : Accounted(c, call[c], failures[c], answers[c], threw[c])

\* A nudge begins when the submission is answered, and a submission is answered once.
NudgeInv == \A b \in Blocks : call[<<"submit", b>>].stage # "answered" =>
                                call[<<"precious", b>>].stage = "idle"

WorldInv ==
  /\ current \in Node /\ watchdog \in BOOLEAN /\ probe \in BOOLEAN
  /\ copies \in [Blocks -> SUBSET Extra]
  /\ recorded \subseteq Blocks /\ up \subseteq Node
  /\ has \in [Node -> SUBSET Blocks]
  /\ faults \in 0..MaxFaults /\ throws \in 0..MaxThrows

LEMMA TheCalls ==
  /\ \A b \in Blocks : /\ <<"submit", b>> \in AllCalls /\ <<"precious", b>> \in AllCalls
                       /\ <<"submit", b>> \in Submits /\ <<"precious", b>> \notin Submits
                       /\ <<"submit", b>> # <<"precious", b>>
  /\ \A c \in Submits : c \in AllCalls /\ c[2] \in Blocks /\ c = <<"submit", c[2]>>
  /\ \A c \in Plain : c \in AllCalls /\ c \notin Submits /\ \A b \in Blocks : c # <<"precious", b>>
  /\ \A c \in AllCalls : c \in Plain \/ c \in Submits \/ \E b \in Blocks : c = <<"precious", b>>
  BY DEF AllCalls, Plain, Submits, Nudges

LEMMA WorldStep == WorldInv /\ CallsInv /\ [ClientNext]_clientVars => WorldInv'
<1> SUFFICES ASSUME WorldInv, CallsInv, [ClientNext]_clientVars PROVE WorldInv'
  OBVIOUS
<1>0. \A c \in AllCalls : call[c].at \in Node
  BY DEF CallsInv, Accounted, CallRecords
<1>1. ASSUME NEW c \in AllCalls, NodeReceives(c) PROVE WorldInv'
  BY <1>0, <1>1, TheCalls DEF NodeReceives, WorldInv
<1>2. ASSUME NEW c \in AllCalls, ExchangeFails(c) PROVE WorldInv'
  BY <1>2, ClientConstants DEF ExchangeFails, Faulty, WorldInv
<1>3. ASSUME NEW c \in AllCalls, AnswerRead(c) PROVE WorldInv'
  BY <1>0, <1>3, TheCalls DEF AnswerRead, BlockAnswered, WorldInv
<1>4. ASSUME NEW c \in AllCalls, CallbackThrows(c) PROVE WorldInv'
  BY <1>0, <1>4, ClientConstants DEF CallbackThrows, WorldInv
<1>5. ASSUME NEW c \in AllCalls, RetryTimer(c) \/ Ask(c) PROVE WorldInv'
  BY <1>5 DEF RetryTimer, Ask, WorldInv
<1>6. ASSUME NEW b \in Blocks, FoundBlock(b) PROVE WorldInv'
  BY <1>6, NodeNumbers DEF FoundBlock, IpcSubmit, WorldInv
<1>7. ASSUME NEW b \in Blocks, NEW e \in Extra, CopyEnds(b, e) PROVE WorldInv'
  BY <1>7 DEF CopyEnds, WorldInv
<1>8. CASE WatchdogFires
  BY <1>8 DEF WatchdogFires, WorldInv
<1>9. CASE ProbeEnds
  <2>1. current' \in Node /\ probe' \in BOOLEAN
    BY <1>9, NodeNumbers DEF ProbeEnds, WorldInv
  <2>2. faults' \in 0..MaxFaults
    <3>1. faults' = faults \/ (faults < MaxFaults /\ faults' = faults + 1)
      BY <1>9 DEF ProbeEnds, Faulty
    <3> QED  BY <3>1, ClientConstants DEF WorldInv
  <2> QED  BY <1>9, <2>1, <2>2 DEF ProbeEnds, WorldInv
<1>10. ASSUME NEW n \in Node, NodeGoesDown(n) \/ NodeComesBack(n) PROVE WorldInv'
  BY <1>10, ClientConstants DEF NodeGoesDown, NodeComesBack, Faulty, WorldInv
<1>11. CASE UNCHANGED clientVars
  BY <1>11 DEF clientVars, WorldInv
<1> QED  BY <1>1, <1>2, <1>3, <1>4, <1>5, <1>6, <1>7, <1>8, <1>9, <1>10, <1>11 DEF ClientNext, Exchange

LEMMA CallsStep == WorldInv /\ CallsInv /\ NudgeInv /\ [ClientNext]_clientVars => CallsInv'
<1> SUFFICES ASSUME WorldInv, CallsInv, NudgeInv, [ClientNext]_clientVars PROVE CallsInv'
  OBVIOUS
<1>0. \A c \in AllCalls : Accounted(c, call[c], failures[c], answers[c], threw[c])
  BY DEF CallsInv
<1>1. ASSUME NEW c \in AllCalls, NodeReceives(c) PROVE CallsInv'
  <2>1. PICK reply \in Replies : call' = [call EXCEPT ![c].stage = "read", ![c].reply = reply]
    BY <1>1 DEF NodeReceives, Replies
  <2>2. Accounted(c, [call[c] EXCEPT !.stage = "read", !.reply = reply], failures[c], answers[c],
                  threw[c])
    BY <1>0, <1>1, ReceiptAccounted DEF NodeReceives, Running
  <2>3. call' = [call EXCEPT ![c] = [call[c] EXCEPT !.stage = "read", !.reply = reply]]
    BY <2>1 DEF CallsInv
  <2> QED  BY <1>1, <2>2, <2>3 DEF NodeReceives, CallsInv
<1>2. ASSUME NEW c \in AllCalls, ExchangeFails(c) PROVE CallsInv'
  <2> DEFINE told == IF Failed(c) THEN answers[c] + 1 ELSE answers[c]
  <2>1. /\ told \in Nat /\ threw[c] \in Nat /\ Running(call[c])
        /\ told = threw[c] + (IF Failed(c) THEN 1 ELSE 0)
    BY <1>0, <1>2 DEF ExchangeFails, Running, Accounted
  <2>2. Accounted(c, AfterFailure(c, call[c]), failures[c] + 1, told, threw[c])
    BY <1>0, <2>1, FailureAccounted DEF Failed
  <2> QED  BY <1>2, <2>2 DEF ExchangeFails, Fail, CallsInv
<1>3. ASSUME NEW c \in AllCalls, AnswerRead(c), c \notin Submits PROVE CallsInv'
  <2>1. Accounted(c, [call[c] EXCEPT !.stage = "answered"], failures[c], answers[c] + 1, threw[c])
    BY <1>0, <1>3, AnswerAccounted DEF AnswerRead, Running
  <2> QED  BY <1>3, <2>1 DEF AnswerRead, CallsInv
<1>4. ASSUME NEW c \in Submits, AnswerRead(c) PROVE CallsInv'
  <2>1. PICK b \in Blocks : c = <<"submit", b>> /\ b = c[2]
    BY TheCalls
  <2> DEFINE p == <<"precious", b>>
  <2>2. c \in AllCalls /\ p \in AllCalls /\ p # c /\ p \notin Submits
    BY <2>1, TheCalls
  <2>3. Accounted(c, [call[c] EXCEPT !.stage = "answered"], failures[c], answers[c] + 1, threw[c])
    BY <1>0, <1>4, <2>2, AnswerAccounted DEF AnswerRead, Running
  <2>4. call[p].stage = "idle" /\ failures[p] = 0 /\ answers[p] = 0 /\ threw[p] = 0
    BY <1>0, <1>4, <2>1, <2>2 DEF AnswerRead, NudgeInv, Accounted
  <2>5. Accounted(p, Begun(call[c].at, 1), failures[p], answers[p], threw[p])
    <3>1. call[c].at \in Node /\ 1 \in 1..MaxAttempts
      BY <1>0, <2>2, NodeNumbers DEF Accounted, CallRecords
    <3>2. 0 + N = Exchanges(1)
      BY NodeNumbers, OneMoreAttempt
    <3> QED  BY <2>2, <2>4, <3>1, <3>2, StartAccounted
  <2> DEFINE nudge == IF call[c].reply = "error" \/ ~Precious THEN call[p] ELSE Begun(call[c].at, 1)
  <2>6. Accounted(p, nudge, failures[p], answers[p], threw[p])
    BY <1>0, <2>2, <2>5
  <2>7. call' = [call EXCEPT ![c] = [call[c] EXCEPT !.stage = "answered"], ![p] = nudge]
    BY <1>4, <2>1, <2>2 DEF AnswerRead, BlockAnswered, CallsInv
  <2>8. failures' = failures /\ answers' = [answers EXCEPT ![c] = @ + 1] /\ threw' = threw
    BY <1>4 DEF AnswerRead
  <2> HIDE DEF p, nudge
  <2> QED  BY <2>2, <2>3, <2>6, <2>7, <2>8 DEF CallsInv
<1>5. ASSUME NEW c \in AllCalls, CallbackThrows(c) PROVE CallsInv'
  <2> DEFINE told == IF Failed(c) THEN answers[c] + 2 ELSE answers[c] + 1
  <2>1. /\ told \in Nat /\ threw[c] + 1 \in Nat /\ Running(call[c])
        /\ told = threw[c] + 1 + (IF Failed(c) THEN 1 ELSE 0)
    BY <1>0, <1>5 DEF CallbackThrows, Running, Accounted
  <2>2. Accounted(c, AfterFailure(c, call[c]), failures[c] + 1, told, threw[c] + 1)
    BY <1>0, <2>1, FailureAccounted DEF Failed
  <2> QED  BY <1>5, <2>2 DEF CallbackThrows, Fail, CallsInv
<1>6. ASSUME NEW c \in AllCalls, RetryTimer(c) PROVE CallsInv'
  <2>1. /\ c \in Submits /\ call[c].attempt \in Nat /\ call[c].attempt + 1 \in 1..MaxAttempts
        /\ failures[c] \in Nat /\ failures[c] = Exchanges(call[c].attempt) /\ answers[c] \in Nat
        /\ threw[c] \in Nat /\ answers[c] = threw[c]
    BY <1>0, <1>6, NodeNumbers DEF RetryTimer, Accounted, CallRecords, Running
  <2>2. failures[c] + N = Exchanges(call[c].attempt + 1)
    BY <2>1, OneMoreAttempt
  <2>3. Accounted(c, Begun(current, call[c].attempt + 1), failures[c], answers[c], threw[c])
    BY <2>1, <2>2, StartAccounted DEF WorldInv
  <2> QED  BY <1>6, <2>3 DEF RetryTimer, CallsInv
<1>7. ASSUME NEW c \in AllCalls, Ask(c) PROVE CallsInv'
  <2>1. c \notin Submits /\ 1 \in 1..MaxAttempts /\ 0 + N = Exchanges(1)
    BY <1>7, TheCalls, NodeNumbers, OneMoreAttempt DEF Ask
  <2>2. Accounted(c, Begun(current, 1), 0, 0, 0)
    BY <2>1, StartAccounted DEF WorldInv
  <2> QED  BY <1>7, <2>2 DEF Ask, CallsInv
<1>8. ASSUME NEW b \in Blocks, FoundBlock(b) PROVE CallsInv'
  <2> DEFINE c == <<"submit", b>>
  <2>0. c \in AllCalls
    BY TheCalls
  <2>1. c \in AllCalls /\ 1 \in 1..MaxAttempts /\ 0 + N = Exchanges(1)
    BY <2>0, NodeNumbers, OneMoreAttempt
  <2>2. failures[c] = 0 /\ answers[c] = 0 /\ threw[c] = 0
    BY <1>0, <1>8, <2>1 DEF FoundBlock, Accounted
  <2>3. Accounted(c, Begun(current, 1), failures[c], answers[c], threw[c])
    BY <2>1, <2>2, StartAccounted DEF WorldInv
  <2> QED  BY <1>8, <2>1, <2>3 DEF FoundBlock, CallsInv
<1>9. ASSUME UNCHANGED <<call, failures, answers, threw>> PROVE CallsInv'
  BY <1>9 DEF CallsInv
<1>10. ASSUME NEW b \in Blocks, NEW e \in Extra, CopyEnds(b, e) PROVE CallsInv'
  BY <1>9, <1>10 DEF CopyEnds
<1>11. CASE WatchdogFires \/ ProbeEnds \/ UNCHANGED clientVars
  BY <1>9, <1>11 DEF WatchdogFires, ProbeEnds, clientVars
<1>12. ASSUME NEW n \in Node, NodeGoesDown(n) \/ NodeComesBack(n) PROVE CallsInv'
  BY <1>9, <1>12 DEF NodeGoesDown, NodeComesBack
<1> QED  BY <1>1, <1>2, <1>3, <1>4, <1>5, <1>6, <1>7, <1>8, <1>10, <1>11, <1>12 DEF ClientNext, Exchange

LEMMA NudgeStep == WorldInv /\ CallsInv /\ NudgeInv /\ [ClientNext]_clientVars => NudgeInv'
<1> SUFFICES ASSUME WorldInv, CallsInv, NudgeInv, [ClientNext]_clientVars,
                    NEW b \in Blocks, call'[<<"submit", b>>].stage # "answered"
             PROVE  call'[<<"precious", b>>].stage = "idle"
  BY DEF NudgeInv
<1> DEFINE c == <<"submit", b>>
           p == <<"precious", b>>
<1>0. c \in AllCalls /\ p \in AllCalls /\ c # p /\ c \in Submits /\ p \notin Submits /\ p \notin Plain
  BY TheCalls
<1>k. \A d \in AllCalls : call[d] \in CallRecords
  BY DEF CallsInv, Accounted
<1>i. call[c].stage # "answered" => call[p].stage = "idle"
  BY DEF NudgeInv
<1>1. ASSUME NEW d \in AllCalls, NodeReceives(d) \/ ExchangeFails(d) \/ CallbackThrows(d)
                                   \/ RetryTimer(d) \/ Ask(d)
      PROVE  call'[p].stage = "idle"
  <2>1. d # p => call'[p] = call[p]
    BY <1>0, <1>1 DEF NodeReceives, ExchangeFails, CallbackThrows, RetryTimer, Ask, Fail, CallsInv
  <2>2. d # c => call'[c] = call[c]
    BY <1>0, <1>1 DEF NodeReceives, ExchangeFails, CallbackThrows, RetryTimer, Ask, Fail, CallsInv
  <2>3. d = c => call[c].stage # "answered"
    BY <1>0, <1>1, TheCalls DEF NodeReceives, ExchangeFails, CallbackThrows, RetryTimer, Ask
  <2>4. call[p].stage = "idle"
    BY <1>i, <2>2, <2>3
  <2>5. d # p
    BY <1>0, <1>1, <2>4 DEF NodeReceives, ExchangeFails, CallbackThrows, RetryTimer, Ask
  <2> QED  BY <2>1, <2>4, <2>5
<1>2. ASSUME NEW d \in AllCalls, AnswerRead(d) PROVE call'[p].stage = "idle"
  <2>1. CASE d \notin Submits
    <3>1. call' = [call EXCEPT ![d].stage = "answered"] /\ call[d].stage = "read"
      BY <1>2, <2>1 DEF AnswerRead
    <3>2. d # c /\ call'[c] = call[c]
      BY <1>0, <2>1, <3>1 DEF CallsInv
    <3>3. call[p].stage = "idle"
      BY <1>i, <3>2
    <3> QED  BY <1>0, <3>1, <3>3 DEF CallsInv
  <2>2. CASE d \in Submits
    <3>1. PICK g \in Blocks : d = <<"submit", g>> /\ g = d[2]
      BY <2>2, TheCalls
    <3>2. d # p /\ d # <<"precious", g>> /\ d \in AllCalls /\ <<"precious", g>> \in AllCalls
      BY <1>0, <2>2, <3>1, TheCalls
    <3>3. \E k : call' = [call EXCEPT ![d].stage = "answered", ![<<"precious", g>>] = k]
      BY <1>2, <2>2, <3>1, SMTT(40) DEF AnswerRead, BlockAnswered
    <3>4. call'[d].stage = "answered"
      BY <1>k, <3>2, <3>3 DEF CallsInv, CallRecords
    <3>5. g # b
      BY <3>1, <3>4
    <3>6. call'[p] = call[p] /\ call'[c] = call[c]
      BY <1>0, <3>1, <3>2, <3>3, <3>5 DEF CallsInv
    <3> QED  BY <1>i, <3>6
  <2> QED  BY <2>1, <2>2
<1>3. ASSUME NEW g \in Blocks, FoundBlock(g) PROVE call'[p].stage = "idle"
  <2>1. call[<<"submit", g>>].stage = "idle" /\ <<"submit", g>> # p
        /\ call' = [call EXCEPT ![<<"submit", g>>] = Begun(current, 1)]
    BY <1>3 DEF FoundBlock
  <2>2. call[c].stage # "answered"
    BY <1>0, <2>1, TheCalls DEF CallsInv
  <2> QED  BY <1>0, <1>i, <2>1, <2>2 DEF CallsInv
<1>4. ASSUME UNCHANGED call PROVE call'[p].stage = "idle"
  BY <1>i, <1>4
<1>5. ASSUME NEW g \in Blocks, NEW e \in Extra, CopyEnds(g, e) PROVE call'[p].stage = "idle"
  BY <1>4, <1>5 DEF CopyEnds
<1>6. CASE WatchdogFires \/ ProbeEnds \/ UNCHANGED clientVars
  BY <1>4, <1>6 DEF WatchdogFires, ProbeEnds, clientVars
<1>7. ASSUME NEW n \in Node, NodeGoesDown(n) \/ NodeComesBack(n) PROVE call'[p].stage = "idle"
  BY <1>4, <1>7 DEF NodeGoesDown, NodeComesBack
<1> QED  BY <1>1, <1>2, <1>3, <1>5, <1>6, <1>7 DEF ClientNext, Exchange

(***************************************************************************)
(* The theorems.                                                           *)
(***************************************************************************)

ClientInv == WorldInv /\ CallsInv /\ NudgeInv

LEMMA ClientInvAtStart == ClientInit => ClientInv
<1> SUFFICES ASSUME ClientInit PROVE ClientInv
  OBVIOUS
<1>1. Idle \in CallRecords /\ Idle.stage = "idle" /\ Idle.attempt = 0
  BY NodeNumbers DEF Idle, CallRecords, Stages, Replies
<1>2. \A c \in AllCalls : Accounted(c, Idle, 0, 0, 0)
  BY <1>1 DEF Accounted, Running
<1>3. CallsInv
  BY <1>2 DEF ClientInit, CallsInv
<1>4. NudgeInv
  BY <1>1, TheCalls DEF ClientInit, NudgeInv
<1>5. WorldInv
  <2>1. 0 \in 0..MaxFaults /\ 0 \in 0..MaxThrows
    BY ClientConstants
  <2>2. (N > 1) \in BOOLEAN
    OBVIOUS
  <2>3. Primary \in Node /\ up \subseteq Node
    BY NodeNumbers DEF ClientInit
  <2>4. copies \in [Blocks -> SUBSET Extra] /\ has \in [Node -> SUBSET Blocks]
    BY DEF ClientInit
  <2> QED  BY <2>1, <2>2, <2>3, <2>4 DEF ClientInit, WorldInv
<1> QED  BY <1>3, <1>4, <1>5 DEF ClientInv

LEMMA ClientStep == ClientInv /\ [ClientNext]_clientVars => ClientInv'
  BY WorldStep, CallsStep, NudgeStep DEF ClientInv

LEMMA Invariant == ClientSpec => []ClientInv
  BY ClientInvAtStart, ClientStep, PTL DEF ClientSpec

\* The client's variables keep their types, whatever the number of nodes, callers, blocks,
\* attempts and faults (BitcoinClient).
THEOREM ClientTypesKept == ClientSpec => []ClientTypes
<1>1. ClientInv => ClientTypes
  BY DEF ClientInv, WorldInv, CallsInv, Accounted, CallRecords, Replies, ClientTypes
<1> QED  BY <1>1, Invariant, PTL

\* Every call is accounted for: a failover asks no node twice in an attempt although other calls
\* and the watchdog move the node it starts with, a call is reported failed only after every node
\* has failed every attempt, and a caller hears of its call once, and once more for each time its
\* callback threw (rpcTryEndpoint, submitAttempt, on_read).
THEOREM EveryCallAccounted == ClientSpec => []CallsAccounted
<1>1. ClientInv => CallsAccounted
  <2> SUFFICES ASSUME ClientInv PROVE CallsAccounted
    OBVIOUS
  <2>0. \A c \in AllCalls : Accounted(c, call[c], failures[c], answers[c], threw[c])
    BY DEF ClientInv, CallsInv
  <2>1. EachNodeOnce
    BY <2>0 DEF EachNodeOnce, Accounted, AskedInv, Running
  <2>2. GivesUpLate
    BY <2>0 DEF GivesUpLate, Accounted, Exchanges
  <2>3. AnswersCounted
    <3>1. \A c \in AllCalls : call[c].stage \in Stages
      BY <2>0 DEF Accounted, CallRecords
    <3> QED  BY <2>0, <3>1 DEF AnswersCounted, Accounted, Running, Busy, Stages
  <2> QED  BY <2>1, <2>2, <2>3 DEF CallsAccounted
<1> QED  BY <1>1, Invariant, PTL
=============================================================================
