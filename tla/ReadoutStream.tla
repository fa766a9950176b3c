--------------------------- MODULE ReadoutStream ---------------------------
(***************************************************************************)
(* What class Readout promises its caller, without packets, times or       *)
(* files: while it is open, what it accepts leaves in batches, in the      *)
(* order of the calls and as often as it was accepted; what is pending is  *)
(* given up only while it is closed.                                       *)
(***************************************************************************)
EXTENDS Naturals, Sequences

CONSTANT Events  \* numbers of the calls that add readouts

VARIABLES pending,  \* accepted and not yet sent
          batches,  \* what was sent, one sequence of events per datagram
          open      \* whether anything is accepted or sent

vars == <<pending, batches, open>>

Init == pending = << >> /\ batches = << >> /\ open = TRUE

(***************************************************************************)
(* e belongs to the latest call so far or to a later one.                  *)
(***************************************************************************)
NotBefore(e) ==
    /\ \A k \in DOMAIN pending : pending[k] <= e
    /\ \A i \in DOMAIN batches : \A k \in DOMAIN batches[i] : batches[i][k] <= e

Accept(e) == /\ open /\ NotBefore(e)
             /\ pending' = Append(pending, e)
             /\ UNCHANGED <<batches, open>>

Flush == /\ open
         /\ batches' = Append(batches, pending) /\ pending' = << >>
         /\ UNCHANGED open

FlushAndAccept(e) == /\ open /\ NotBefore(e)
                     /\ batches' = Append(batches, pending)
                     /\ pending' = <<e>>
                     /\ UNCHANGED open

GiveUp == /\ ~open
          /\ pending' = << >>
          /\ UNCHANGED <<batches, open>>

Switch == open' = ~open /\ UNCHANGED <<pending, batches>>

Next == \/ \E e \in Events : Accept(e) \/ FlushAndAccept(e)
        \/ Flush \/ GiveUp \/ Switch

Spec == Init /\ [][Next]_vars
=============================================================================
