------------------------------ MODULE JobFeed ------------------------------
(***************************************************************************)
(* From the stratifier to one miner and back: updateWork pushes a job and  *)
(* PoolManager::onNewJob posts it to the session's strand; the session     *)
(* rewrites the coinbase for its miner, sends it, judges the shares that   *)
(* come back by rebuilding that coinbase, retargets, and hands an aux      *)
(* block on.  updateWork runs under the generator's lock, one at a time;   *)
(* everything of the session runs on its strand, which takes what is       *)
(* posted in order, so lines leave in the order of the send_line calls.    *)
(***************************************************************************)
EXTENDS Integers, Sequences, FiniteSets, Functions

CONSTANTS
  MaxJobs,      \* bound: jobs pushed
  Kinds,        \* chains and protocols a session may start as
  Names,        \* payout names
  Nobody,       \* worker_script_hex_ is empty
  AuxJobs,      \* jobs whose template carries the second chain's fields
  Unswappable,  \* jobs whose equihash coinbase has no output to redirect
  Unit,         \* difficulties are fractions, counted in parts: Unit of them are 1
  Diffs,        \* difficulties asked for and measured
  MinDiff, MaxDiff, StartDiff,  \* activeTier.vardiffMin, vardiffMax, startingDifficulty
  CustomMin, CustomMax,         \* bounds of a difficulty asked for in the password
  SharesPerCheck, \* kSharesPerCheck
  Cap,          \* the size at which the per-job maps are emptied
  MaxRequests   \* bound: requests of the miner

ASSUME FeedConstants ==
  /\ MaxJobs \in Nat /\ Kinds \subseteq {"plain", "merged", "equihash", "standard"}
  /\ AuxJobs \subseteq 1..MaxJobs /\ Unswappable \subseteq 1..MaxJobs /\ Nobody \notin Names
  /\ Unit \in Nat \ {0} /\ Diffs \subseteq Nat \ {0}
  /\ MinDiff \in Nat \ {0} /\ MaxDiff \in Nat /\ MinDiff <= MaxDiff
  /\ StartDiff \in Nat \ {0}
  /\ CustomMin \in Nat \ {0} /\ CustomMax \in Nat /\ CustomMin <= CustomMax
  /\ SharesPerCheck \in Nat \ {0} /\ Cap \in Nat \ {0} /\ MaxRequests \in Nat

Jobs == 1..MaxJobs

\* A V2 session is "standard" until it has opened an extended channel.
V2 == {"standard", "extended"}

VARIABLES
  latest,    \* the newest job in jobs_, 0 when there is none
  casting,   \* the job whose callbacks are about to run, 0 when none is
  reg,       \* the session is in its shard
  mail,      \* notifyNewJob handlers posted to the strand
  s,         \* the session's members, and what was sent to the miner; advertised: the
             \* difficulty it was told last, before: the one it had until then; astray: what
             \* it was told last, if anything, was not vardiff's own
  requests   \* bound

vars == <<latest, casting, reg, mail, s, requests>>

\* A coinbase: whom it pays, and whether it carries the aux commitment.
Coinbases == [pays : Names \cup {Nobody}, commit : BOOLEAN]
NotSent == [pays |-> Nobody, commit |-> TRUE]

Request == requests < MaxRequests /\ requests' = requests + 1

(***************************************************************************)
(* Vardiff.                                                                *)
(***************************************************************************)

Clamp(d, low, high) == IF d < low THEN low ELSE IF d > high THEN high ELSE d
Lesser(a, b) == IF a < b THEN a ELSE b
Greater(a, b) == IF a > b THEN a ELSE b

\* std::round: to the nearest whole difficulty, halves up.
Rounded(d) == LET part == d % Unit IN IF 2 * part >= Unit THEN d - part + Unit ELSE d - part

\* A difficulty suggested, or estimated from a declared rate.
Within(d) == Clamp(d, MinDiff, MaxDiff)

\* VarDiff's own bounds: the tier's, widened to its starting difficulty.
Bounded(d) == Clamp(d, Lesser(MinDiff, StartDiff), Greater(MaxDiff, StartDiff))

\* on_share: late says that kCheckSeconds have passed since the last change,
\* wanted is what the decayed rate asks for, 0 within the hysteresis band.  The
\* network's difficulty caps it, even below the tier's own floor and to a
\* fraction; 0 is no cap.
Optimal(wanted, network) ==
  LET best == Bounded(Rounded(wanted)) IN IF network > 0 THEN Lesser(best, network) ELSE best

OnShare(v, observed, late, wanted, network) ==
  LET count == IF v.ssdc < SharesPerCheck THEN v.ssdc + 1 ELSE v.ssdc
      best  == Optimal(wanted, network)
  IN CASE ~v.first -> [v EXCEPT !.first = TRUE, !.ssdc = 1]
       [] v.first /\ count < SharesPerCheck /\ ~late -> [v EXCEPT !.ssdc = count]
       [] v.first /\ (count >= SharesPerCheck \/ late) /\ observed # v.current -> [v EXCEPT !.ssdc = 0]
       [] OTHER -> IF \/ wanted = 0 \/ best = v.current \/ best < Unit
                      \/ best < v.current /\ count = 1
                   THEN [v EXCEPT !.ssdc = count]
                   ELSE [v EXCEPT !.ssdc = 0, !.current = best]

\* set_current starts the measurement anew.
SetCurrent(d) == [current |-> d, first |-> FALSE, ssdc |-> 0]

(***************************************************************************)
(* What is sent.                                                           *)
(***************************************************************************)

Tells(c, j, coinbase) == [c EXCEPT !.told[j] = coinbase, !.newest = j]

\* build_session_coinbase2: empty until the miner has a payout script.
SessionCoinbase(c, commit) == [pays |-> c.pays, commit |-> commit]

RememberThenEmpty(map, j, name) ==
  IF Cardinality(DOMAIN map) > Cap THEN <<>>
  ELSE [k \in DOMAIN map \cup {j} |-> IF k = j THEN name ELSE map[k]]

\* A per-job map is emptied when it has grown too large, then takes the job.
Remember(map, j, name) ==
  LET kept == IF Cardinality(DOMAIN map) > Cap THEN <<>> ELSE map
  IN [k \in DOMAIN kept \cup {j} |-> IF k = j THEN name ELSE kept[k]]

NodeCoinbase == [pays |-> Nobody, commit |-> FALSE]

\* emit_job: on the equihash chain the node's own coinbase, until somebody is
\* paid and when it cannot be redirected; coinbase1 as the stratifier made it,
\* without a commitment, on the others.  An address that the node found valid
\* has a script.
EmitJob(c, j) ==
  CASE c.kind = "equihash" /\ c.pays # Nobody /\ j \notin Unswappable ->
         Tells([c EXCEPT !.eqJobs = Remember(@, j, c.pays)], j, SessionCoinbase(c, FALSE))
    [] c.kind = "equihash" /\ (c.pays = Nobody \/ j \in Unswappable) -> Tells(c, j, NodeCoinbase)
    [] OTHER -> Tells(c, j, SessionCoinbase(c, FALSE))

\* emit_job_custom
EmitJobCustom(c, j) == Tells(c, j, SessionCoinbase(c, TRUE))

\* emit_job_v2
EmitJobV2(c, j) == Tells(c, j, SessionCoinbase(c, FALSE))

\* build_session_aux
BuildsAux(c, j) == c.kind = "merged" /\ c.aux /\ j \in AuxJobs

\* The handler that notifyNewJob posts.
Notified(c, j) ==
  CASE ~c.sub -> c
    [] c.sub /\ BuildsAux(c, j) ->
         EmitJobCustom([c EXCEPT !.auxJobs = (IF Cardinality(@) > Cap THEN {} ELSE @) \cup {j}], j)
    [] c.sub /\ c.kind \in V2 -> EmitJobV2(c, j)
    [] OTHER -> EmitJob(c, j)

LatestSent(c) == IF latest = 0 THEN c ELSE EmitJob(c, latest)

\* What the miner hears of difficulty d: mining.set_difficulty is a whole number,
\* a target of V2 is not rounded.
Heard(kind, d) == IF kind \in V2 THEN d ELSE Rounded(d)

\* The miner is told d.  After a retarget shares at the old difficulty still count
\* for a while; otherwise old is d itself.
Advertises(c, d, old) ==
  LET heard == Heard(c.kind, d)
  IN [c EXCEPT !.advertised = heard, !.before = IF c.astray \/ old = d THEN heard ELSE c.advertised,
               !.last = old, !.grace = TRUE, !.astray = FALSE]

\* send_set_difficulty: an authorized miner gets the newest job again.
SendSetDifficulty(c, d, old) ==
  LET told == Advertises(c, d, old) IN IF c.auth THEN LatestSent(told) ELSE told

\* send_set_target sends no job.
SendSetTarget(c, d, old) == Advertises(c, d, old)

(***************************************************************************)
(* The requests of the miner.                                              *)
(***************************************************************************)

IsV1 == s.kind \notin V2

Subscribe ==
  /\ reg /\ IsV1 /\ Request
  /\ s' = SendSetDifficulty([s EXCEPT !.sub = TRUE], s.vd.current, s.vd.current)
  /\ UNCHANGED <<latest, casting, reg, mail>>

\* proceed_auth; custom is the difficulty of the password, 0 when there is none or
\* the tier is a fixed one.
AuthorizeSilently(name, aux, custom) ==
  /\ reg /\ IsV1 /\ Request
  /\ aux => s.kind = "merged"
  /\ custom # 0 => ~s.fixed
  /\ s' = [s EXCEPT !.pays = name, !.aux = aux \/ @, !.auth = TRUE]
  /\ UNCHANGED <<latest, casting, reg, mail>>

AuthorizeUnmoved(name, aux, custom) ==
  /\ reg /\ IsV1 /\ Request
  /\ aux => s.kind = "merged"
  /\ custom # 0 => ~s.fixed
  /\ LET c == [s EXCEPT !.pays = name, !.aux = aux \/ @]
         d == Clamp(custom, CustomMin, CustomMax)
         asked == IF custom = 0 THEN c ELSE SendSetDifficulty([c EXCEPT !.custom = TRUE], d, d)
     IN s' = LatestSent([asked EXCEPT !.auth = TRUE])
  /\ UNCHANGED <<latest, casting, reg, mail>>

Authorize(name, aux, custom) ==
  /\ reg /\ IsV1 /\ Request
  /\ aux => s.kind = "merged"
  /\ custom # 0 => ~s.fixed
  /\ LET c == [s EXCEPT !.pays = name, !.aux = aux \/ @]
         d == Clamp(custom, CustomMin, CustomMax)
         asked == IF custom = 0 THEN c
                  ELSE SendSetDifficulty([c EXCEPT !.custom = TRUE, !.vd = SetCurrent(d)], d, d)
     IN s' = LatestSent([asked EXCEPT !.auth = TRUE])
  /\ UNCHANGED <<latest, casting, reg, mail>>

\* handle_suggest_difficulty: vardiff keeps its own threshold.  On a fixed tier
\* the request is acknowledged and ignored.
SuggestDifficulty(d) ==
  /\ reg /\ IsV1 /\ ~s.fixed /\ Request
  /\ s' = [SendSetDifficulty(s, Within(d), Within(d)) EXCEPT !.astray = TRUE]
  /\ UNCHANGED <<latest, casting, reg, mail>>

\* mining.extranonce.subscribe, in process_line.
ExtranonceSubscribe ==
  /\ reg /\ IsV1 /\ Request /\ latest # 0
  /\ s' = LatestSent(s)
  /\ UNCHANGED <<latest, casting, reg, mail>>

\* SetupConnection, which a miner sends before it opens a channel.
SetupConnection ==
  /\ reg /\ ~IsV1 /\ s.pays = Nobody /\ Request
  /\ s' = [s EXCEPT !.sub = TRUE, !.auth = TRUE]
  /\ UNCHANGED <<latest, casting, reg, mail>>

\* A channel is opened: c is the session with what it was told.
Opened(c, name, first) ==
  LET told == [c EXCEPT !.pays = name, !.last = first, !.advertised = first, !.before = first]
  IN IF latest = 0 THEN told ELSE EmitJobV2(told, latest)

\* A standard channel is told the difficulty the tier starts with, whatever
\* vardiff has come to: it is vardiff's own only for the first channel of a
\* session, and if it is a whole number.
OpenStandardChannel(name) ==
  /\ reg /\ ~IsV1 /\ Request
  /\ s' = Opened([s EXCEPT !.astray = s.pays # Nobody \/ StartDiff % Unit # 0], name, StartDiff)
  /\ UNCHANGED <<latest, casting, reg, mail>>

\* An extended one starts at the difficulty its declared rate asks for: d is 0
\* when it declares none.  The session stays extended.
OpenExtendedChannel(name, d) ==
  /\ reg /\ ~IsV1 /\ Request
  /\ LET first == IF s.fixed \/ d = 0 THEN StartDiff ELSE Within(d)
     IN s' = Opened([s EXCEPT !.kind = "extended", !.sub = TRUE, !.auth = TRUE, !.astray = FALSE,
                              !.vd = SetCurrent(first)], name, first)
  /\ UNCHANGED <<latest, casting, reg, mail>>

(***************************************************************************)
(* A share.                                                                *)
(***************************************************************************)

\* handle_submit and the V2 handlers rebuild what the miner hashed.
RebuildCoinbase(c, j) ==
  CASE c.kind = "equihash" -> [pays |-> IF j \in DOMAIN c.eqJobs THEN c.eqJobs[j] ELSE Nobody,
                               commit |-> FALSE]
    [] c.kind = "merged"   -> SessionCoinbase(c, c.aux /\ j \in c.auxJobs)
    [] OTHER               -> SessionCoinbase(c, FALSE)

\* The percentage of the threshold that is enough.
Tolerance(kind) == CASE kind = "equihash" -> 90 [] kind = "extended" -> 100 [] OTHER -> 99

Reaches(c, d, threshold) == 100 * d >= Tolerance(c.kind) * threshold

\* The difficulty a share of difficulty d is judged by.
TargetDiff(c, d) ==
  IF d < c.vd.current /\ c.grace /\ Reaches(c, d, c.last) THEN c.last ELSE c.vd.current

\* maybe_submit_aux_block
AuxBlockRepeated(c, j) ==
  IF c.kind # "merged" \/ ~c.aux \/ j \notin c.auxJobs THEN c
  ELSE [c EXCEPT !.auxSent[j] = @ + 1]

AuxBlock(c, j) ==
  IF c.kind # "merged" \/ ~c.aux \/ j \notin c.auxJobs \/ j \in c.auxDone THEN c
  ELSE [c EXCEPT !.auxFlushes = IF Cardinality(c.auxDone) > Cap THEN @ + 1 ELSE @,
                 !.auxDone = (IF Cardinality(@) > Cap THEN {} ELSE @) \cup {j},
                 !.auxSent[j] = @ + 1]

\* The vardiff tick of an accepted share.
Ticked(c, observed, late, wanted, network) ==
  LET v == OnShare(c.vd, observed, late, wanted, network)
      moved == [c EXCEPT !.vd = v]
  IN CASE c.custom \/ c.fixed -> c
       [] ~c.custom /\ ~c.fixed /\ v.current = c.vd.current -> moved
       [] OTHER -> IF c.kind \in V2 THEN SendSetTarget(moved, v.current, c.vd.current)
                   ELSE SendSetDifficulty(moved, v.current, c.vd.current)

\* A miner that hashed what it was told reaches difficulty d, and maybe the aux
\* target.  If the coinbase is rebuilt differently the hash is another one and
\* the share is refused for its difficulty, as it is when d is too low.  A V2 miner
\* has opened a channel; on a standard one the network's difficulty is no cap.
Submit(j, d, winsAux, late, wanted, network) ==
  /\ IF IsV1 THEN s.auth ELSE s.pays # Nobody
  /\ s.told[j] # NotSent /\ Request
  /\ s.kind = "standard" <=> network = 0
  /\ RebuildCoinbase(s, j) = s.told[j]
  /\ LET target == TargetDiff(s, d)
         ticked == Ticked(s, target, late, wanted, network)
     IN /\ Reaches(s, d, target)
        /\ s' = IF winsAux THEN AuxBlock(ticked, j) ELSE ticked
  /\ UNCHANGED <<latest, casting, reg, mail>>

\* A share whose block was superseded is refused, but its aux block counts.
SubmitStale(j) ==
  /\ IsV1 /\ s.auth /\ j # latest /\ s.told[j] # NotSent /\ Request
  /\ RebuildCoinbase(s, j) = s.told[j]
  /\ s' = AuxBlock(s, j)
  /\ UNCHANGED <<latest, casting, reg, mail>>

\* Forty seconds after a change of difficulty, fifteen on an extended channel.
GraceEnds ==
  /\ s.grace
  /\ s' = [s EXCEPT !.grace = FALSE]
  /\ UNCHANGED <<latest, casting, reg, mail, requests>>

(***************************************************************************)
(* The stratifier and the pool manager.                                    *)
(***************************************************************************)

\* updateWork pushes the job, then runs the callbacks.
PushJob ==
  /\ casting = 0 /\ latest < MaxJobs
  /\ latest' = latest + 1 /\ casting' = latest + 1
  /\ UNCHANGED <<reg, mail, s, requests>>

\* onNewJob, at the shard of this session.
CastReplacing ==
  /\ casting # 0
  /\ mail' = IF reg THEN <<casting>> \o mail ELSE mail
  /\ casting' = 0
  /\ UNCHANGED <<latest, reg, s, requests>>

OnNewJob ==
  /\ casting # 0
  /\ mail' = IF reg THEN Append(mail, casting) ELSE mail
  /\ casting' = 0
  /\ UNCHANGED <<latest, reg, s, requests>>

NotifyNewJob ==
  /\ mail # <<>>
  /\ mail' = Tail(mail)
  /\ s' = Notified(s, Head(mail))
  /\ UNCHANGED <<latest, casting, reg, requests>>

RegisterSession ==
  /\ ~reg
  /\ reg' = TRUE
  /\ UNCHANGED <<latest, casting, mail, s, requests>>

(***************************************************************************)
(* The specification.                                                      *)
(***************************************************************************)

Init ==
  /\ latest = 0 /\ casting = 0 /\ reg = FALSE /\ mail = <<>> /\ requests = 0
  /\ \E kind \in Kinds, fixed \in BOOLEAN :
       s = [kind |-> kind, fixed |-> fixed, sub |-> FALSE, auth |-> FALSE, pays |-> Nobody,
            aux |-> FALSE, vd |-> SetCurrent(Bounded(Rounded(StartDiff))), custom |-> FALSE,
            advertised |-> 0, before |-> 0, last |-> StartDiff, grace |-> TRUE, astray |-> TRUE,
            auxJobs |-> {}, eqJobs |-> <<>>, told |-> [j \in Jobs |-> NotSent], newest |-> 0,
            auxDone |-> {}, auxSent |-> [j \in Jobs |-> 0], auxFlushes |-> 0]

Miner ==
  \/ Subscribe
  \/ \E name \in Names, aux \in BOOLEAN, custom \in Diffs \cup {0} : Authorize(name, aux, custom)
  \/ \E d \in Diffs : SuggestDifficulty(d)
  \/ ExtranonceSubscribe
  \/ SetupConnection
  \/ \E name \in Names : OpenStandardChannel(name)
  \/ \E name \in Names, d \in Diffs \cup {0} : OpenExtendedChannel(name, d)
  \/ \E j \in Jobs, d \in Diffs, network \in Diffs \cup {0},
        winsAux, late \in BOOLEAN, wanted \in Diffs \cup {0} :
       Submit(j, d, winsAux, late, wanted, network)
  \/ \E j \in Jobs : SubmitStale(j)

\* Every job has been told; the miner may stay quiet for ever.
Quiet == latest = MaxJobs /\ casting = 0 /\ reg /\ mail = <<>> /\ UNCHANGED vars

Next ==
  \/ PushJob \/ OnNewJob \/ NotifyNewJob \/ RegisterSession
  \/ Miner \/ GraceEnds \/ Quiet

Spec == Init /\ [][Next]_vars

(***************************************************************************)
(* Properties.                                                             *)
(***************************************************************************)

\* The members stay within their types, and the handlers posted are for jobs in
\* order, none newer than the newest.
TypeOK ==
  /\ latest \in 0..MaxJobs /\ casting \in {0, latest} /\ reg \in BOOLEAN
  /\ mail \in Seq(1..latest) /\ \A i, k \in DOMAIN mail : i < k => mail[i] < mail[k]
  /\ requests \in 0..MaxRequests
  /\ s.kind \in Kinds \cup {"extended"} /\ s.fixed \in BOOLEAN
  /\ s.sub \in BOOLEAN /\ s.auth \in BOOLEAN /\ s.aux \in BOOLEAN
  /\ s.pays \in Names \cup {Nobody} /\ s.custom \in BOOLEAN /\ s.grace \in BOOLEAN
  /\ s.vd.ssdc \in 0..SharesPerCheck
  /\ {s.advertised, s.before, s.last, s.vd.current} \subseteq Nat
  /\ s.told \in [Jobs -> Coinbases] /\ s.newest \in 0..latest
  /\ Cardinality(s.auxJobs) <= Cap + 1 /\ Cardinality(DOMAIN s.eqJobs) <= Cap + 1

\* Once nothing is on its way, an authorized miner, or one with a channel on a
\* connection set up, works on the newest job, however its requests interleaved
\* with the broadcast (onNewJob, proceed_auth).
NewestJobLast ==
  s.auth /\ s.sub /\ s.pays # Nobody /\ casting = 0 /\ mail = <<>> => s.newest = latest

\* Without merged mining, a share of the job sent last is hashed again exactly as
\* the miner hashed it, also after another worker took the connection over and
\* after the per-job maps were emptied (handle_submit).
CurrentJobRebuilt ==
  s.kind # "merged" /\ s.newest # 0 => RebuildCoinbase(s, s.newest) = s.told[s.newest]

\* handle_submit says it of every job with a commitment: "Splice the exact same
\* merged-mining commitment that was sent in mining.notify".
SameCommitmentSpliced ==
  s.newest # 0 => RebuildCoinbase(s, s.newest).commit = s.told[s.newest].commit

\* A share of difficulty d is accepted.
Accepted(c, d) == Reaches(c, d, TargetDiff(c, d))

\* d is what the miner heard, and half a unit more if that was a rounded number.
Meets(c, d, heard) == IF c.kind \in V2 THEN d >= heard ELSE 2 * d >= 2 * heard + Unit

\* Unless the miner suggested a difficulty itself, opened a second standard channel,
\* or a first one on a tier that starts at a fraction: vardiff's threshold is the one
\* the miner was told last but for the rounding, along every way it may change; and
\* a share that meets it is accepted, as is one that meets the difficulty told before
\* a retarget while the grace period lasts (send_set_difficulty, handle_submit).
ThresholdAdvertised == ~s.astray =>
  /\ s.advertised = Heard(s.kind, s.vd.current)
  /\ \A d \in Diffs :
       Meets(s, d, s.advertised) \/ (s.grace /\ Meets(s, d, s.before)) => Accepted(s, d)

\* An aux block is handed to its node once, but for those forgotten when the
\* table of submitted blocks was emptied (maybe_submit_aux_block).
AuxSubmittedOnce == \A j \in Jobs : s.auxSent[j] <= 1 + s.auxFlushes
=============================================================================
