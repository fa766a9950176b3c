----------------------------- MODULE MCEfuTime -----------------------------
(***************************************************************************)
(* Operands for the register machine, listed as numbers: one that stands   *)
(* for h seconds and l ticks is 100 * h + l.                               *)
(***************************************************************************)
EXTENDS EfuTimeMachine

CONSTANT Numbers

MCOperands == {[high |-> n \div 100, low |-> n % 100] : n \in Numbers}
=============================================================================
