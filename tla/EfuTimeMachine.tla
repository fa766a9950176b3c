--------------------------- MODULE EfuTimeMachine ---------------------------
(***************************************************************************)
(* A register machine over efu_time: it applies the operators of the class *)
(* to a set of operands in every order and keeps, beside the value the     *)
(* code would hold, the exact number of ticks that the same calculation    *)
(* gives in integers.                                                      *)
(***************************************************************************)
EXTENDS EfuTime

CONSTANTS Operands,  \* of + - %: times
          Factors    \* of *: values of a uint32_t

ASSUME MachineAssumption == Operands \subseteq Times /\ Factors \subseteq 0 .. Word - 1

VARIABLES acc,      \* the efu_time the code holds
          exact,    \* the ticks it should hold, modulo the range of the type
          refused   \* the last subtraction or remainder threw

vars == <<acc, exact, refused>>

Init == acc = TimeOf(0) /\ exact = 0 /\ refused = FALSE

AddStep(t) == /\ acc' = Add(acc, t)
              /\ exact' = (exact + TotalTicks(t)) % Range32
              /\ refused' = FALSE

SubStep(t) == \/ /\ ~SubThrows(acc, t)
                 /\ acc' = Sub(acc, t)
                 /\ exact' = (exact - TotalTicks(t)) % Range32
                 /\ refused' = FALSE
              \/ /\ SubThrows(acc, t)
                 /\ refused' = TRUE
                 /\ UNCHANGED <<acc, exact>>

MulStep(m) == /\ acc' = Mul(acc, m)
              /\ exact' = (exact * m) % Range32
              /\ refused' = FALSE

(***************************************************************************)
(* The quotient is cut to 32 bits: the multiples of t that it leaves out   *)
(* stay in the remainder.                                                  *)
(***************************************************************************)
LeftOut(t) == (TotalTicks(t) * Word) * ((TotalTicks(acc) \div TotalTicks(t)) \div Word)

ModStep(t) == /\ TotalTicks(t) > 0
              /\ \/ /\ ~ModThrows(acc, t)
                    /\ acc' = Mod(acc, t)
                    /\ exact' = ((TotalTicks(acc) % TotalTicks(t)) + LeftOut(t)) % Range32
                    /\ refused' = FALSE
                 \/ /\ ModThrows(acc, t)
                    /\ refused' = TRUE
                    /\ UNCHANGED <<acc, exact>>

Next == \/ \E t \in Operands : AddStep(t) \/ SubStep(t) \/ ModStep(t)
        \/ \E m \in Factors : MulStep(m)

Spec == Init /\ [][Next]_vars

---------------------------------------------------------------------------
TypeOK == acc \in Times /\ exact \in 0 .. Range32 - 1 /\ refused \in BOOLEAN

(***************************************************************************)
(* However the operators of efu_time.h:75-120 are chained, carries,        *)
(* borrows and wraps never lose or gain a tick.                            *)
(***************************************************************************)
TicksExact == TotalTicks(acc) % Range32 = exact

(***************************************************************************)
(* operator- (efu_time.h:85-94) never accepts a subtrahend that is really  *)
(* larger, and never refuses one that is really smaller, in spite of the   *)
(* second representation that low = Ticks gives an instant.                *)
(***************************************************************************)
RefusalFollowsTicks ==
    \A t \in Operands :
        /\ TotalTicks(acc) < TotalTicks(t) => SubThrows(acc, t)
        /\ TotalTicks(acc) > TotalTicks(t) => ~SubThrows(acc, t)

(***************************************************************************)
(* The quotient of efu_time.h:104-106, on which the pulse grid rests.      *)
(* Multiplied back by the code it never exceeds the dividend, and what     *)
(* remains is less than the divisor; when the quotient does not fit its 32 *)
(* bits, but for whole multiples of 2^32 divisors.                         *)
(***************************************************************************)
QuotientBrackets ==
    \A t \in {u \in Operands : TotalTicks(u) > 0} :
        LET rest == TotalTicks(acc) - TotalTicks(Mul(t, Div(acc, t)))
        IN  TotalTicks(acc) < Range32 =>
              /\ rest >= 0
              /\ rest % (TotalTicks(t) * Word) < TotalTicks(t)
=============================================================================
