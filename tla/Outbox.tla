------------------------------- MODULE Outbox -------------------------------
(***************************************************************************)
(* What a session's outbound path promises: while the session is open the  *)
(* lines it took reach the peer one by one, in order, each once; after it  *)
(* has hung up nothing is taken and nothing more is sent.                  *)
(***************************************************************************)
EXTENDS Sequences

CONSTANT Lines

VARIABLES pending, wire, open

Init == pending = << >> /\ wire = << >> /\ open = TRUE

Take(m) == /\ open
           /\ pending' = Append(pending, m)
           /\ UNCHANGED <<wire, open>>

Deliver == /\ open /\ pending # << >>
           /\ wire' = Append(wire, Head(pending))
           /\ pending' = Tail(pending)
           /\ UNCHANGED open

HangUp == /\ open
          /\ open' = FALSE
          /\ UNCHANGED <<pending, wire>>

Next == (\E m \in Lines : Take(m)) \/ Deliver \/ HangUp

Spec == Init /\ [][Next]_<<pending, wire, open>>
=============================================================================
