------------------------------ MODULE EfuTime ------------------------------
(***************************************************************************)
(* The time stamp of the ESS Event Formation Unit, lib/efu_time.h: whole   *)
(* seconds in `high' and oscillator ticks in `low', both 32-bit unsigned.  *)
(*                                                                         *)
(* The constructor carries a full second out of `low' only when it EXCEEDS *)
(* Ticks, so a time may keep low = Ticks: the same instant then has two    *)
(* representations, and the comparisons, which are lexicographic, tell     *)
(* them apart.  The 64-bit intermediates of the code cannot overflow       *)
(* (2^32 * 88052499 < 2^63), so only the 32-bit results are reduced.       *)
(***************************************************************************)
EXTENDS Integers

CONSTANTS
    Ticks,  \* oscillator ticks per second (88052499 in the code)
    Word,   \* number of values of a uint32_t (2^32)
    Nps     \* sub-second units per second of the system clock (10^9)

ASSUME TicksAssumption == Ticks \in Nat /\ Ticks > 0
ASSUME WordAssumption  == Word \in Nat /\ 2 * Ticks < Word
ASSUME NpsAssumption   == Nps \in Nat /\ Nps > 0

U32(n) == n % Word

(***************************************************************************)
(* What every constructed time satisfies: low may reach Ticks, no further. *)
(***************************************************************************)
Times == [high : 0 .. Word - 1, low : 0 .. Ticks]

Range32 == Word * Ticks  \* the ticks after which the type wraps around

---------------------------------------------------------------------------
\* Slip: no carry.
MakeTimeUncarried(h, l) == [high |-> U32(h), low |-> l]

MakeTime(h, l) ==
    IF l > Ticks
    THEN [high |-> U32(h + l \div Ticks), low |-> l % Ticks]
    ELSE [high |-> U32(h), low |-> l]

(***************************************************************************)
(* n sub-second units as a time: the double constructor and the one that   *)
(* reads the system clock, both of which truncate to a whole tick.         *)
(***************************************************************************)
TimeOf(n) == [high |-> U32(n \div Nps), low |-> ((n % Nps) * Ticks) \div Nps]

TotalTicks(t) == t.high * Ticks + t.low

\* Slip: compares the parts independently.
LtByParts(a, b) == a.high < b.high \/ a.low < b.low

Lt(a, b) == a.high < b.high \/ (a.high = b.high /\ a.low < b.low)
Gt(a, b) == a.high > b.high \/ (a.high = b.high /\ a.low > b.low)
Ge(a, b) == Gt(a, b) \/ a = b

---------------------------------------------------------------------------
\* Slip: bypasses the normalising constructor.
AddByParts(a, b) == [high |-> U32(a.high + b.high), low |-> U32(a.low + b.low)]

Add(a, b) == MakeTime(U32(a.high + b.high), U32(a.low + b.low))

\* Slip: the check is missing.
SubUnchecked(a, b) == FALSE

(***************************************************************************)
(* a - b throws "Subtracting a larger time?" when a < b, and otherwise     *)
(* borrows a second from `high' if `low' is too small.                     *)
(***************************************************************************)
SubThrows(a, b) == Lt(a, b)

\* Slip: the second borrowed for the ticks is not paid back.
SubWithoutBorrow(a, b) ==
    MakeTime(U32(a.high - b.high),
             U32(IF a.low >= b.low THEN a.low - b.low ELSE Ticks + a.low - b.low))

Sub(a, b) ==
    IF a.low >= b.low
    THEN MakeTime(U32(a.high - b.high), a.low - b.low)
    ELSE MakeTime(U32(a.high - b.high - 1), U32(Ticks + a.low - b.low))

\* Slip: the dividend is cut to 32 bits, not the quotient.
DivCutEarly(a, b) == U32(TotalTicks(a)) \div TotalTicks(b)

Div(a, b) == U32(TotalTicks(a) \div TotalTicks(b))

Mul(a, m) ==
    LET r == a.low * m
    IN  IF r > Ticks
        THEN MakeTime(U32(a.high * m + r \div Ticks), r % Ticks)
        ELSE MakeTime(U32(a.high * m), r)

ModThrows(a, m) == SubThrows(a, Mul(m, Div(a, m)))
Mod(a, m) == Sub(a, Mul(m, Div(a, m)))
=============================================================================
