------------------------------ MODULE ShareGate ------------------------------
(***************************************************************************)
(* The share gate of mkpool: Stratifier publishes work one lock at a time  *)
(* while the session strands run handle_submit (Stratum V1) and            *)
(* handle_submit_shares_v2 / _extended_v2 (Stratum V2) against the same    *)
(* tip, job window, duplicate table and best-share mark.                   *)
(*                                                                         *)
(* Every step is one critical section (or one atomic) of the code; what a  *)
(* thread read in an earlier step it keeps in a local, as the code does.   *)
(* A share is identified by what its header hash commits to: the job, the  *)
(* extranonce1/payout script of the session, and the miner's nonces.       *)
(***************************************************************************)
EXTENDS Integers, Sequences, FiniteSets

CONSTANTS V1,        \* sessions that speak Stratum V1
          V2,        \* sessions that speak Stratum V2
          Space,     \* Space[s]: search space (extranonce1 and payout) of s
          Nonces,    \* what a miner varies within its search space
          Diff,      \* Diff[n]: difficulty of the hash that nonce n yields
          Targets,   \* thresholds a session may apply: vardiff, grace, tolerance
          NetDiff,   \* difficulty of a block
          Tips,      \* previous-block hashes a template can carry
          NoTip,     \* last_prevhash_ before the first template
          Window,    \* capacity of the JobWindow
          SeenCap,   \* size above which register_share empties the table
          MayWithhold, \* TRUE on eCash, where the RTT guard may hold a block back
          MaxJobs,   \* bound: templates per behaviour
          MaxLines   \* bound: submit lines per behaviour

Sessions == V1 \cup V2
Spaces   == { Space[s] : s \in Sessions }
Shares   == [job : 1..MaxJobs, space : Spaces, nonce : Nonces]

ASSUME GateConstants ==
  /\ V1 \cap V2 = {}
  /\ Space \in [Sessions -> Spaces]
  /\ Diff \in [Nonces -> Nat]
  /\ Targets \subseteq Nat
  /\ NetDiff \in Nat
  /\ NoTip \notin Tips
  /\ Window \in Nat \ {0}
  /\ SeenCap \in Nat
  /\ MayWithhold \in BOOLEAN
  /\ MaxJobs \in Nat
  /\ MaxLines \in Nat

NoShare == [job |-> 0]

VARIABLES
  lastPrevhash,  \* Stratifier::last_prevhash_, under mu_
  issued,        \* every job pushed; the window is its last Window entries
  seenShares,    \* Stratifier::seen_shares_, under share_mu_
  bestShare,     \* Stratifier::best_share_round_, atomic
  upc,           \* where updateWork is
  building,      \* the job updateWork is about to push
  pc,            \* where the submit handler of each session is
  share,         \* the share that handler holds
  lines,         \* submit lines taken so far (bounds the model)
  \* History of what the code did, read by the properties only.
  round,         \* block changes published
  overflows,     \* times the size cap emptied the table
  counted,       \* counted[h]: times h was acknowledged and credited
  late,          \* late[s]: superseded shares credited to V1 session s
  solves,        \* shares found, by hashing, to solve a block
  submitted,     \* shares that went to the node as a block
  withheld,      \* solves the RTT guard held back
  roundBest      \* best share noted on the current round's jobs

upVars   == <<lastPrevhash, issued, upc, building, round>>
history  == <<overflows, counted, late, solves, submitted, withheld>>
sessVars == <<pc, share, lines>>
vars     == <<upVars, seenShares, bestShare, roundBest, history, sessVars>>

(***************************************************************************)
(* Reading shared state.                                                   *)
(***************************************************************************)

\* JobWindow: push drops the oldest entry at capacity, find sees the rest.
InWindow(j) == j \in 1..Len(issued) /\ j > Len(issued) - Window

Prev(h)     == issued[h.job].prev
JobRound(h) == issued[h.job].round

\* meets_network: the header hash is at or below the block target.
Solves(h) == Diff[h.nonce] >= NetDiff

\* stale_by_block as handle_submit computes it from current_prevhash().
Superseded(h) == lastPrevhash # NoTip /\ Prev(h) # lastPrevhash

\* register_share: the cap empties the table first, then insert().second.
TableFull == Cardinality(seenShares) > SeenCap
FirstSighting(h) == TableFull \/ h \notin seenShares
SeenWithForgotten(h) == seenShares
SeenWith(h) == (IF TableFull THEN {} ELSE seenShares) \cup {h}

\* The table changes and the history notes a cap flush.
Register(h) == /\ seenShares' = SeenWith(h)
               /\ overflows' = IF TableFull THEN overflows + 1 ELSE overflows

(***************************************************************************)
(* Stratifier::updateWork, on the generator's thread.                      *)
(***************************************************************************)

\* Publish the tip under mu_. A template that fails to parse, or a coin with
\* no donation address, returns before this step and changes nothing.
PublishTip(t) ==
  LET clean == t # lastPrevhash IN
  /\ upc = "idle" /\ Len(issued) < MaxJobs
  /\ lastPrevhash' = t
  /\ round' = IF clean THEN round + 1 ELSE round
  /\ building' = [prev |-> t, round |-> round']
  /\ upc' = IF clean THEN "purge" ELSE "push"
  /\ roundBest' = IF clean THEN 0 ELSE roundBest
  /\ UNCHANGED <<issued, seenShares, bestShare, history, sessVars>>

\* seen_shares_.clear() under share_mu_.
PurgeSeen ==
  /\ upc = "purge"
  /\ seenShares' = {}
  /\ upc' = "reset"
  /\ UNCHANGED <<lastPrevhash, issued, building, round, bestShare, roundBest,
                 history, sessVars>>

\* reset_best_share().
ResetBest ==
  /\ upc = "reset"
  /\ bestShare' = 0
  /\ upc' = "push"
  /\ UNCHANGED <<lastPrevhash, issued, building, round, seenShares, roundBest,
                 history, sessVars>>

\* jobs_.push: from here miners can be told of the job and submit for it.
PushJob ==
  /\ upc = "push"
  /\ issued' = Append(issued, building)
  /\ upc' = "idle"
  /\ UNCHANGED <<lastPrevhash, building, round, seenShares, bestShare, roundBest,
                 history, sessVars>>

\* The control socket's "resetshares".
ControlReset ==
  /\ bestShare' = 0
  /\ roundBest' = 0
  /\ UNCHANGED <<upVars, seenShares, history, sessVars>>

(***************************************************************************)
(* One submit line of session s, on its strand.                            *)
(***************************************************************************)

\* The handler goes on at step p; returning drops its locals.
Goto(s, p) ==
  /\ pc' = [pc EXCEPT ![s] = p]
  /\ share' = IF p = "idle" THEN [share EXCEPT ![s] = NoShare] ELSE share

\* findJob / findJobU32. A job outside the window is answered with "job not
\* found" (V2: "stale-share") and nothing shared changes, so only a hit is a step.
FindJob(s, j, n) ==
  /\ pc[s] = "idle" /\ lines < MaxLines
  /\ InWindow(j)
  /\ share' = [share EXCEPT ![s] = [job |-> j, space |-> Space[s], nonce |-> n]]
  /\ pc' = [pc EXCEPT ![s] = IF s \in V1 THEN "tip" ELSE "hash"]
  /\ lines' = lines + 1
  /\ UNCHANGED <<upVars, seenShares, bestShare, roundBest, history>>

\* The header is hashed and compared with the block target.
Hashed(h) == solves' = IF Solves(h) THEN solves \cup {h} ELSE solves

\* V1 reads the tip, then hashes the header, unless a bad ntime, version or
\* Equihash solution ends the handler before the hash is judged.
ReadTipUnjudged(s) ==
  /\ pc[s] = "tip"
  /\ Goto(s, "gate")
  /\ Hashed(share[s])
  /\ UNCHANGED <<upVars, seenShares, bestShare, roundBest, lines,
                 overflows, counted, late, submitted, withheld>>

ReadTip(s) ==
  /\ pc[s] = "tip"
  /\ \/ /\ Goto(s, IF Superseded(share[s]) THEN "gateStale" ELSE "gate")
        /\ Hashed(share[s])
     \/ /\ Goto(s, "idle")
        /\ UNCHANGED solves
  /\ UNCHANGED <<upVars, seenShares, bestShare, roundBest, lines,
                 overflows, counted, late, submitted, withheld>>

\* V1, stale: a first-sighted solve still goes to the node; the share is
\* refused either way.
GateStale(s) ==
  LET h == share[s] IN
  /\ pc[s] = "gateStale"
  /\ Register(h)
  /\ Goto(s, IF FirstSighting(h) /\ Solves(h) THEN "submitStale" ELSE "idle")
  /\ UNCHANGED <<upVars, bestShare, roundBest, lines,
                 counted, late, solves, submitted, withheld>>

\* V1, below the session's threshold: a solve goes to the node without
\* touching the duplicate table; the share is refused.
GateLowDroppingSolve(s) ==
  /\ pc[s] = "gate"
  /\ \E t \in Targets : Diff[share[s].nonce] < t
  /\ Goto(s, "idle")
  /\ UNCHANGED <<upVars, seenShares, bestShare, roundBest, lines, history>>

GateLow(s) ==
  /\ pc[s] = "gate"
  /\ \E t \in Targets : Diff[share[s].nonce] < t
  /\ Goto(s, IF Solves(share[s]) THEN "submit" ELSE "idle")
  /\ UNCHANGED <<upVars, seenShares, bestShare, roundBest, lines, history>>

\* Crediting share h to session s: the acknowledgement and shares_accepted_.
Credit(s, h) ==
  /\ counted' = [counted EXCEPT ![h] = @ + 1]
  /\ late' = IF s \in V1 /\ Superseded(h) THEN [late EXCEPT ![s] = @ + 1] ELSE late

\* V1, at or above the threshold: the duplicate table decides.
GateAccept(s) ==
  LET h == share[s] IN
  /\ pc[s] = "gate"
  /\ \E t \in Targets : Diff[h.nonce] >= t
  /\ Register(h)
  /\ IF FirstSighting(h)
       THEN Credit(s, h) /\ Goto(s, "note")
       ELSE UNCHANGED <<counted, late>> /\ Goto(s, "idle")
  /\ UNCHANGED <<upVars, bestShare, roundBest, lines, solves, submitted, withheld>>

\* V2 hashes and, only if the share solves a block, consults the duplicate
\* table to submit it, before any other check.
HashV2(s) ==
  LET h == share[s] IN
  /\ pc[s] = "hash"
  /\ Hashed(h)
  /\ IF Solves(h)
       THEN Register(h) /\ Goto(s, IF FirstSighting(h) THEN "submit" ELSE "judge")
       ELSE UNCHANGED <<seenShares, overflows>> /\ Goto(s, "judge")
  /\ UNCHANGED <<upVars, bestShare, roundBest, lines,
                 counted, late, submitted, withheld>>

\* V2 then judges difficulty (and, on an extended channel, ntime): no stale
\* check and no duplicate check stand between the share and its credit.
JudgeV2(s) ==
  /\ pc[s] = "judge"
  /\ \/ /\ \E t \in Targets : Diff[share[s].nonce] >= t
        /\ Credit(s, share[s])
        /\ Goto(s, "note")
     \/ /\ UNCHANGED <<counted, late>>
        /\ Goto(s, "idle")
  /\ UNCHANGED <<upVars, seenShares, bestShare, roundBest, lines,
                 overflows, solves, submitted, withheld>>

\* note_accepted_share: an atomic max. A V1 solve then goes to the node.
NoteBestUnconditionally(s) ==
  LET d == Diff[share[s].nonce] IN
  /\ pc[s] = "note"
  /\ bestShare' = d
  /\ roundBest' = IF JobRound(share[s]) = round /\ d > roundBest THEN d ELSE roundBest
  /\ Goto(s, IF s \in V1 /\ Solves(share[s]) THEN "submit" ELSE "idle")
  /\ UNCHANGED <<upVars, seenShares, lines, history>>

NoteBest(s) ==
  LET d == Diff[share[s].nonce] IN
  /\ pc[s] = "note"
  /\ bestShare' = IF d > bestShare THEN d ELSE bestShare
  /\ roundBest' = IF JobRound(share[s]) = round /\ d > roundBest THEN d ELSE roundBest
  /\ Goto(s, IF s \in V1 /\ Solves(share[s]) THEN "submit" ELSE "idle")
  /\ UNCHANGED <<upVars, seenShares, lines, history>>

\* submit_block_candidate / submit_block_sv2: hand the block to submitblock,
\* unless the eCash RTT guard holds it back. V2 goes on to judge the share.
SubmitBlock(s) ==
  /\ pc[s] \in {"submit", "submitStale"}
  /\ \/ /\ submitted' = submitted \cup {share[s]}
        /\ UNCHANGED withheld
     \/ /\ MayWithhold
        /\ withheld' = withheld \cup {share[s]}
        /\ UNCHANGED submitted
  /\ Goto(s, IF s \in V1 THEN "idle" ELSE "judge")
  /\ UNCHANGED <<upVars, seenShares, bestShare, roundBest, lines,
                 overflows, counted, late, solves>>

(***************************************************************************)
(* The specification.                                                      *)
(***************************************************************************)

Init ==
  /\ lastPrevhash = NoTip
  /\ issued = << >>
  /\ seenShares = {}
  /\ bestShare = 0
  /\ upc = "idle"
  /\ building = [prev |-> NoTip, round |-> 0]
  /\ pc = [s \in Sessions |-> "idle"]
  /\ share = [s \in Sessions |-> NoShare]
  /\ lines = 0
  /\ round = 0
  /\ overflows = 0
  /\ counted = [h \in Shares |-> 0]
  /\ late = [s \in V1 |-> 0]
  /\ solves = {}
  /\ submitted = {}
  /\ withheld = {}
  /\ roundBest = 0

UpdateWork == (\E t \in Tips : PublishTip(t)) \/ PurgeSeen \/ ResetBest \/ PushJob

Submit(s) ==
  \/ \E j \in 1..MaxJobs, n \in Nonces : FindJob(s, j, n)
  \/ ReadTip(s) \/ GateStale(s) \/ GateLow(s) \/ GateAccept(s)
  \/ HashV2(s) \/ JudgeV2(s) \/ NoteBest(s) \/ SubmitBlock(s)

Next == UpdateWork \/ ControlReset \/ \E s \in Sessions : Submit(s)

Spec == Init /\ [][Next]_vars

(***************************************************************************)
(* Properties.                                                             *)
(***************************************************************************)

\* Every variable keeps its type.
TypeOK ==
  /\ lastPrevhash \in Tips \cup {NoTip}
  /\ issued \in Seq([prev : Tips, round : Nat])
  /\ Len(issued) <= MaxJobs
  /\ seenShares \subseteq Shares
  /\ bestShare \in Nat
  /\ upc \in {"idle", "purge", "reset", "push"}
  /\ building \in [prev : Tips \cup {NoTip}, round : Nat]
  /\ pc \in [Sessions -> {"idle", "tip", "gate", "gateStale", "hash", "judge",
                          "note", "submit", "submitStale"}]
  /\ share \in [Sessions -> Shares \cup {NoShare}]
  /\ lines \in Nat
  /\ round \in Nat
  /\ overflows \in Nat
  /\ counted \in [Shares -> Nat]
  /\ late \in [V1 -> Nat]
  /\ solves \subseteq Shares
  /\ submitted \subseteq Shares
  /\ withheld \subseteq Shares
  /\ roundBest \in Nat

Issued(h) == h.job \in 1..Len(issued)

\* A share only V1 sessions can produce is credited at most once in the round
\* of its job, and at most once more for every later block change or flush of
\* the table: because updateWork empties the duplicate table before it pushes
\* the first job of a round, no share of a live job can slip through twice.
CountedOncePerRound ==
  \A h \in Shares :
    (Issued(h) /\ \A s \in V2 : Space[s] # h.space)
      => counted[h] <= 1 + (round - JobRound(h)) + overflows

\* The handler of session s still has to hand its share to the node.
Carries(s, h) ==
  /\ share[s] = h
  /\ \/ pc[s] \in {"gate", "gateStale", "submit", "submitStale"}
     \/ pc[s] = "note" /\ s \in V1

\* "a solve is never discarded untested": whatever the difficulty, stale and
\* duplicate verdicts of whichever session, a share that was hashed and solves
\* a block has gone to the node, is on its way, or was withheld on purpose.
SolvesReachNode ==
  \A h \in solves :
    h \in submitted \/ h \in withheld \/ \E s \in Sessions : Carries(s, h)

\* The reset of a new round never erases a share of that round: the pool's
\* best share is at least that of every share noted on the round's own jobs.
RoundBestKept == bestShare >= roundBest

\* A block change lets each V1 session credit at most the one share whose tip
\* check it had already passed: superseded work does not pad the round effort.
LateSharesBounded == \A s \in V1 : late[s] = 0 \/ late[s] <= round - 1

\* What handle_submit says of its stale branch: gated on first-sighting "so a
\* proxy replaying the same in-flight share cannot double-submit".
StaleReplayGated ==
  \A s \in V1 : pc[s] = "submitStale" => share[s] \notin submitted

\* What the code says of the duplicate table ("must not be counted again",
\* "Global across sessions"), for every session, V2 included.
DuplicateNeverRecounted ==
  \A h \in Shares :
    Issued(h) => counted[h] <= 1 + (round - JobRound(h)) + overflows
=============================================================================
