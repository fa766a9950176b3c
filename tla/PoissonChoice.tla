--------------------------- MODULE PoissonChoice ---------------------------
(***************************************************************************)
(* Readout with a history of the Poisson numbers drawn for one readout.    *)
(***************************************************************************)
EXTENDS Readout

VARIABLE choice  \* the first number drawn for the readout in the loop

InitChoice == Init /\ choice = 0

Draw(draw) == /\ CopyStep(draw)
              /\ choice' = IF copy = 0 THEN draw ELSE choice

NextChoice == \/ \E draw \in 0 .. MaxDraw : Draw(draw)
              \/ pc # "copy" /\ Next /\ UNCHANGED choice

SpecChoice == InitChoice /\ [][NextChoice]_<<vars, choice>>

(***************************************************************************)
(* README.md:11 "Each component makes a Poisson distributed Monte Carlo    *)
(* choice for every neutron": a readout is packed as many times as the     *)
(* number chosen for it says.  The loop of ReadoutClass.cpp:146 draws      *)
(* again for every turn.                                                   *)
(***************************************************************************)
OneChoicePerReadout ==
    [][pc = "copy" /\ pc' = "idle" => copy = choice']_<<vars, choice>>
=============================================================================
