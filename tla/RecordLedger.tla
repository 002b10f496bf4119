---------------------------- MODULE RecordLedger ----------------------------
(***************************************************************************)
(* What the database worker promises its callers: of each kind, the        *)
(* records it accepted wait in the order of their acceptance and leave it, *)
(* recorded or given up, from the front, each once.                        *)
(***************************************************************************)
EXTENDS Integers, Sequences

CONSTANTS Kinds,    \* the queues
          Record    \* what may be accepted

VARIABLES pending,  \* pending[k]: accepted and still the worker's
          settled   \* settled[k]: no longer the worker's

Init == /\ pending = [k \in Kinds |-> << >>]
        /\ settled = [k \in Kinds |-> << >>]

Accept(k, r) == /\ pending' = [pending EXCEPT ![k] = Append(@, r)]
                /\ UNCHANGED settled

\* Of every kind some prefix, possibly none, leaves.
Settle ==
  /\ pending' \in [Kinds -> Seq(Record)] /\ settled' \in [Kinds -> Seq(Record)]
  /\ \A k \in Kinds : \E n \in 0..Len(pending[k]) :
       /\ settled'[k] = settled[k] \o SubSeq(pending[k], 1, n)
       /\ pending'[k] = SubSeq(pending[k], n + 1, Len(pending[k]))

Next == (\E k \in Kinds, r \in Record : Accept(k, r)) \/ Settle

Spec == Init /\ [][Next]_<<pending, settled>>
=============================================================================
