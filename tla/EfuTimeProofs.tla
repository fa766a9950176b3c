--------------------------- MODULE EfuTimeProofs ---------------------------
(***************************************************************************)
(* Facts about the arithmetic of efu_time, for every Ticks, Word and Nps:  *)
(* each operator returns a time, and is exact on ticks as long as the      *)
(* result fits the type.                                                   *)
(***************************************************************************)
EXTENDS EfuTime, TLAPS

---------------------------------------------------------------------------
(***************************************************************************)
(* Integers.                                                               *)
(***************************************************************************)
LEMMA DivisionFacts ==
    ASSUME NEW a \in Int, NEW b \in Int, b > 0
    PROVE  /\ a \div b \in Int
           /\ (a % b) \in 0 .. b - 1
           /\ a = b * (a \div b) + (a % b)
  BY SMT

LEMMA ModSmall ==
    ASSUME NEW a \in Nat, NEW b \in Nat, a < b
    PROVE  a % b = a
  BY SMT

LEMMA DivisionUnique ==
    ASSUME NEW b \in Int, b > 0, NEW q \in Int, NEW r \in 0 .. b - 1
    PROVE  (b * q + r) \div b = q /\ (b * q + r) % b = r
  BY SMT

LEMMA DivisionNat ==
    ASSUME NEW a \in Nat, NEW b \in Nat, b > 0
    PROVE  a \div b \in Nat
  BY SMT

LEMMA DivisionMonotone ==
    ASSUME NEW a \in Nat, NEW b \in Nat, b > 0, NEW c \in Nat, a <= c
    PROVE  a \div b <= c \div b
  BY SMT

LEMMA DivisionBelow ==
    ASSUME NEW a \in Nat, NEW b \in Nat, b > 0, NEW c \in Nat, a < c * b
    PROVE  a \div b < c
  BY SMT

LEMMA ProductMonotone ==
    ASSUME NEW a \in Nat, NEW b \in Nat, NEW c \in Nat, a <= b
    PROVE  a * c <= b * c /\ a * c \in Nat
  BY SMT

LEMMA FractionBelow ==
    ASSUME NEW h \in Nat, NEW l \in Nat, NEW n \in Nat, NEW w \in Nat,
           h < w, l < n
    PROVE  h * n + l < w * n
<1>1. (h + 1) * n <= w * n
  BY ProductMonotone
<1>2. (h + 1) * n = h * n + n /\ h * n \in Nat /\ w * n \in Nat
  BY SMT
<1> QED
  BY <1>1, <1>2

LEMMA U32Type == ASSUME NEW n \in Int PROVE U32(n) \in 0 .. Word - 1
  BY DivisionFacts, TicksAssumption, WordAssumption DEF U32

LEMMA U32Small == ASSUME NEW n \in Nat, n < Word PROVE U32(n) = n
  BY ModSmall, WordAssumption DEF U32

---------------------------------------------------------------------------
(***************************************************************************)
(* Every operator returns a time: its low part never exceeds Ticks.        *)
(***************************************************************************)
LEMMA MakeTimeType ==
    ASSUME NEW h \in Int, NEW l \in Nat
    PROVE  MakeTime(h, l) \in Times
<1>1. /\ l \div Ticks \in Nat
      /\ (l % Ticks) \in 0 .. Ticks
  BY DivisionFacts, DivisionNat, TicksAssumption
<1>2. U32(h) \in 0 .. Word - 1 /\ U32(h + l \div Ticks) \in 0 .. Word - 1
  BY <1>1, U32Type
<1> QED
  BY <1>1, <1>2, TicksAssumption DEF MakeTime, Times

LEMMA TimeOfType ==
    ASSUME NEW n \in Nat
    PROVE  /\ TimeOf(n) \in Times
           /\ TimeOf(n).low < Ticks
<1> DEFINE s == n % Nps
<1>1. n \div Nps \in Nat /\ s \in 0 .. Nps - 1
  BY DivisionFacts, DivisionNat, NpsAssumption
<1>2. s * Ticks \in Nat /\ s * Ticks < Ticks * Nps
  BY <1>1, TicksAssumption, NpsAssumption, SMT
<1>3. (s * Ticks) \div Nps \in Nat /\ (s * Ticks) \div Nps < Ticks
  BY <1>2, DivisionNat, DivisionBelow, TicksAssumption, NpsAssumption
<1>4. U32(n \div Nps) \in 0 .. Word - 1
  BY <1>1, U32Type
<1> QED
  BY <1>3, <1>4, TicksAssumption DEF TimeOf, Times

LEMMA AddType ==
    ASSUME NEW a \in Times, NEW b \in Times
    PROVE  Add(a, b) \in Times
<1>1. U32(a.high + b.high) \in Int /\ U32(a.low + b.low) \in Nat
  BY U32Type, TicksAssumption, WordAssumption DEF Times
<1> QED
  BY <1>1, MakeTimeType DEF Add

LEMMA SubType ==
    ASSUME NEW a \in Times, NEW b \in Times
    PROVE  Sub(a, b) \in Times
<1>1. CASE a.low >= b.low
  <2>1. U32(a.high - b.high) \in Int /\ a.low - b.low \in Nat
    BY <1>1, U32Type, TicksAssumption, WordAssumption DEF Times
  <2> QED
    BY <1>1, <2>1, MakeTimeType DEF Sub
<1>2. CASE ~(a.low >= b.low)
  <2>1. U32(a.high - b.high - 1) \in Int /\ U32(Ticks + a.low - b.low) \in Nat
    BY U32Type, TicksAssumption, WordAssumption DEF Times
  <2> QED
    BY <1>2, <2>1, MakeTimeType DEF Sub
<1> QED
  BY <1>1, <1>2

LEMMA DivType ==
    ASSUME NEW a \in Times, NEW b \in Times, TotalTicks(b) > 0
    PROVE  Div(a, b) \in 0 .. Word - 1
<1>1. TotalTicks(a) \in Int /\ TotalTicks(b) \in Int
  BY TicksAssumption DEF Times, TotalTicks
<1>2. TotalTicks(a) \div TotalTicks(b) \in Int
  BY <1>1, DivisionFacts
<1> QED
  BY <1>2, U32Type DEF Div

LEMMA MulType ==
    ASSUME NEW a \in Times, NEW m \in Nat
    PROVE  Mul(a, m) \in Times
<1> DEFINE r == a.low * m
<1>1. r \in Nat /\ a.high * m \in Nat
  BY TicksAssumption DEF Times
<1>2. r \div Ticks \in Nat /\ (r % Ticks) \in Nat
  BY <1>1, DivisionFacts, DivisionNat, TicksAssumption
<1>3. U32(a.high * m) \in Int /\ U32(a.high * m + r \div Ticks) \in Int
  BY <1>1, <1>2, U32Type
<1> QED
  BY <1>1, <1>2, <1>3, MakeTimeType DEF Mul

---------------------------------------------------------------------------
(***************************************************************************)
(* Ticks.  A result that fits the type is exact.                           *)
(***************************************************************************)
LEMMA TotalTicksNat ==
    ASSUME NEW t \in Times
    PROVE  TotalTicks(t) \in Nat
  BY TicksAssumption, ProductMonotone DEF Times, TotalTicks

LEMMA HighBelow ==
    ASSUME NEW h \in Nat, NEW l \in Nat, h * Ticks + l < Range32
    PROVE  h < Word
  BY TicksAssumption, WordAssumption, SMT DEF Range32

LEMMA MakeTimeExact ==
    ASSUME NEW h \in Nat, NEW l \in Nat, h * Ticks + l < Range32
    PROVE  TotalTicks(MakeTime(h, l)) = h * Ticks + l
<1>1. CASE l > Ticks
  <2> DEFINE q == l \div Ticks
             r == l % Ticks
  <2>1. q \in Nat /\ r \in Nat /\ l = Ticks * q + r
    BY DivisionFacts, DivisionNat, TicksAssumption
  <2>2. (h + q) * Ticks + r = h * Ticks + l
    BY <2>1, TicksAssumption, SMT
  <2>3. h + q < Word
    BY <2>1, <2>2, HighBelow
  <2>4. U32(h + q) = h + q
    BY <2>1, <2>3, U32Small
  <2>5. MakeTime(h, l) = [high |-> h + q, low |-> r]
    BY <1>1, <2>4 DEF MakeTime
  <2> QED
    BY <2>2, <2>5 DEF TotalTicks
<1>2. CASE ~(l > Ticks)
  <2>1. U32(h) = h
    BY HighBelow, U32Small
  <2> QED
    BY <1>2, <2>1 DEF MakeTime, TotalTicks
<1> QED
  BY <1>1, <1>2

LEMMA AddExact ==
    ASSUME NEW a \in Times, NEW b \in Times,
           TotalTicks(a) + TotalTicks(b) < Range32
    PROVE  TotalTicks(Add(a, b)) = TotalTicks(a) + TotalTicks(b)
<1> DEFINE h == a.high + b.high
           l == a.low + b.low
<1>1. h \in Nat /\ l \in Nat /\ l < Word
  BY TicksAssumption, WordAssumption DEF Times
<1>2. h * Ticks + l = TotalTicks(a) + TotalTicks(b)
  BY TicksAssumption, SMT DEF Times, TotalTicks
<1>3. U32(h) = h /\ U32(l) = l
  BY <1>1, <1>2, HighBelow, U32Small
<1>4. TotalTicks(MakeTime(h, l)) = h * Ticks + l
  BY <1>1, <1>2, MakeTimeExact
<1> QED
  BY <1>2, <1>3, <1>4 DEF Add

(***************************************************************************)
(* The comparisons agree with ticks, up to the two representations of an   *)
(* instant.                                                                *)
(***************************************************************************)
LEMMA OrderFacts ==
    ASSUME NEW a \in Times, NEW b \in Times
    PROVE  /\ TotalTicks(a) < TotalTicks(b) => Lt(a, b)
           /\ Lt(a, b) => TotalTicks(a) <= TotalTicks(b)
           /\ TotalTicks(a) > TotalTicks(b) => Gt(a, b)
           /\ Gt(a, b) => TotalTicks(a) >= TotalTicks(b)
<1>1. ASSUME NEW x \in Times, NEW y \in Times, x.high < y.high
      PROVE  TotalTicks(x) <= TotalTicks(y)
  <2>1. (x.high + 1) * Ticks <= y.high * Ticks
    BY <1>1, ProductMonotone, TicksAssumption DEF Times
  <2> QED
    BY <2>1, TicksAssumption, SMT DEF Times, TotalTicks
<1>2. ASSUME NEW x \in Times, NEW y \in Times, x.high = y.high
      PROVE  TotalTicks(x) <= TotalTicks(y) <=> x.low <= y.low
  BY <1>2, ProductMonotone, TicksAssumption DEF Times, TotalTicks
<1>3. /\ a.high \in Nat /\ a.low \in Nat /\ b.high \in Nat /\ b.low \in Nat
      /\ TotalTicks(a) \in Nat /\ TotalTicks(b) \in Nat
  BY TotalTicksNat DEF Times
<1>4. /\ a.high < b.high => TotalTicks(a) <= TotalTicks(b)
      /\ b.high < a.high => TotalTicks(b) <= TotalTicks(a)
      /\ a.high = b.high => (TotalTicks(a) <= TotalTicks(b) <=> a.low <= b.low)
      /\ a.high = b.high => (TotalTicks(b) <= TotalTicks(a) <=> b.low <= a.low)
  BY <1>1, <1>2
<1> QED
  BY <1>3, <1>4 DEF Lt, Gt

(***************************************************************************)
(* A time whose low part is a proper fraction of a second, as the ones     *)
(* read from the clock, is before another one only if it is so in ticks.   *)
(***************************************************************************)
LEMMA OrderStrict ==
    ASSUME NEW a \in Times, NEW b \in Times, a.low < Ticks, Lt(a, b)
    PROVE  TotalTicks(a) < TotalTicks(b)
<1>1. /\ a.high \in Nat /\ a.low \in Nat /\ b.high \in Nat /\ b.low \in Nat
  BY DEF Times
<1>2. CASE a.high < b.high
  <2>1. (a.high + 1) * Ticks <= b.high * Ticks
    BY <1>1, <1>2, ProductMonotone, TicksAssumption
  <2> QED
    BY <1>1, <2>1, TicksAssumption, SMT DEF TotalTicks
<1>3. CASE a.high = b.high /\ a.low < b.low
  <2>1. a.high * Ticks \in Nat
    BY <1>1, ProductMonotone, TicksAssumption
  <2> QED
    BY <1>1, <1>3, <2>1 DEF TotalTicks
<1> QED
  BY <1>2, <1>3 DEF Lt

LEMMA MakeTimePlain ==
    ASSUME NEW h \in 0 .. Word - 1, NEW l \in 0 .. Ticks
    PROVE  MakeTime(h, l) = [high |-> h, low |-> l]
<1>1. h \in Nat /\ h < Word /\ ~(l > Ticks)
  BY WordAssumption, TicksAssumption
<1> QED
  BY <1>1, U32Small DEF MakeTime

LEMMA SubExact ==
    ASSUME NEW a \in Times, NEW b \in Times, ~SubThrows(a, b)
    PROVE  TotalTicks(Sub(a, b)) = TotalTicks(a) - TotalTicks(b)
<1>1. CASE a.low >= b.low
  <2> DEFINE h == a.high - b.high
             l == a.low - b.low
  <2>1. h \in 0 .. Word - 1 /\ l \in 0 .. Ticks
    BY <1>1, TicksAssumption, WordAssumption DEF SubThrows, Lt, Times
  <2>2. U32(h) = h
    BY <2>1, U32Small, WordAssumption
  <2>3. Sub(a, b) = [high |-> h, low |-> l]
    BY <1>1, <2>1, <2>2, MakeTimePlain DEF Sub
  <2> QED
    BY <2>3, TicksAssumption, SMT DEF TotalTicks, Times
<1>2. CASE ~(a.low >= b.low)
  <2> DEFINE h == a.high - b.high - 1
             l == Ticks + a.low - b.low
  <2>1. h \in 0 .. Word - 1 /\ l \in 0 .. Ticks
    BY <1>2, TicksAssumption, WordAssumption DEF SubThrows, Lt, Times
  <2>2. U32(h) = h /\ U32(l) = l
    BY <2>1, U32Small, TicksAssumption, WordAssumption
  <2>3. Sub(a, b) = [high |-> h, low |-> l]
    BY <1>2, <2>1, <2>2, MakeTimePlain DEF Sub
  <2> QED
    BY <2>3, TicksAssumption, SMT DEF TotalTicks, Times
<1> QED
  BY <1>1, <1>2

LEMMA MulExact ==
    ASSUME NEW a \in Times, NEW m \in Nat, TotalTicks(a) * m < Range32
    PROVE  TotalTicks(Mul(a, m)) = TotalTicks(a) * m
<1> DEFINE h == a.high * m
           r == a.low * m
           q == r \div Ticks
           s == r % Ticks
<1>1. h \in Nat /\ r \in Nat
  BY TicksAssumption, ProductMonotone DEF Times
<1>2. h * Ticks + r = TotalTicks(a) * m
  BY TicksAssumption, SMT DEF Times, TotalTicks
<1>3. q \in Nat /\ s \in 0 .. Ticks - 1 /\ r = Ticks * q + s
  <2> HIDE DEF r
  <2> QED
    BY <1>1, DivisionFacts, DivisionNat, TicksAssumption
<1>4. CASE r > Ticks
  <2>1. (h + q) * Ticks + s = TotalTicks(a) * m
    BY <1>1, <1>2, <1>3, TicksAssumption, SMT
  <2>2. h + q < Word
    BY <1>1, <1>3, <2>1, HighBelow
  <2>3. U32(h + q) = h + q
    BY <1>1, <1>3, <2>2, U32Small
  <2>4. MakeTime(h + q, s) = [high |-> h + q, low |-> s]
    BY <1>1, <1>3, <2>2, MakeTimePlain, TicksAssumption, WordAssumption
  <2>5. Mul(a, m) = [high |-> h + q, low |-> s]
    BY <1>4, <2>3, <2>4 DEF Mul
  <2> QED
    BY <2>1, <2>5 DEF TotalTicks
<1>5. CASE ~(r > Ticks)
  <2>1. h < Word
    BY <1>1, <1>2, HighBelow
  <2>2. U32(h) = h
    BY <1>1, <2>1, U32Small
  <2>3. MakeTime(h, r) = [high |-> h, low |-> r]
    BY <1>1, <1>5, <2>1, MakeTimePlain, TicksAssumption, WordAssumption
  <2>4. Mul(a, m) = [high |-> h, low |-> r]
    BY <1>5, <2>2, <2>3 DEF Mul
  <2> QED
    BY <1>2, <2>4 DEF TotalTicks
<1> QED
  BY <1>4, <1>5

(***************************************************************************)
(* The quotient brackets the dividend.                                     *)
(***************************************************************************)
LEMMA DivExact ==
    ASSUME NEW a \in Times, NEW b \in Times, TotalTicks(b) > 0,
           TotalTicks(a) < Word * TotalTicks(b)
    PROVE  /\ Div(a, b) \in Nat
           /\ TotalTicks(b) * Div(a, b) <= TotalTicks(a)
           /\ TotalTicks(a) - TotalTicks(b) * Div(a, b) < TotalTicks(b)
           /\ TotalTicks(b) <= TotalTicks(a) => Div(a, b) >= 1
<1> DEFINE x == TotalTicks(a)
           y == TotalTicks(b)
           q == x \div y
<1>1. x \in Nat /\ y \in Nat /\ y > 0
  BY TotalTicksNat
<1> HIDE DEF x, y
<1>2. q \in Nat /\ (x % y) \in 0 .. y - 1 /\ x = y * q + (x % y)
  BY <1>1, DivisionFacts, DivisionNat
<1>3. q < Word
  BY <1>1, DivisionBelow, WordAssumption DEF x, y
<1>4. Div(a, b) = q
  BY <1>2, <1>3, U32Small DEF Div, x, y
<1>5. /\ q \in Nat /\ y * q <= x /\ x - y * q < y
      /\ y <= x => q >= 1
  <2> HIDE DEF q
  <2>1. y * q \in Nat
    BY <1>1, <1>2
  <2> QED
    BY <1>1, <1>2, <2>1
<1> QED
  <2> HIDE DEF q
  <2> QED
    BY <1>4, <1>5 DEF x, y

(***************************************************************************)
(* The time of n sub-second units counts the whole ticks in them, so later *)
(* clocks give later times.                                                *)
(***************************************************************************)
LEMMA TimeOfExact ==
    ASSUME NEW n \in Nat, n \div Nps < Word
    PROVE  TotalTicks(TimeOf(n)) = (n * Ticks) \div Nps
<1> DEFINE h == n \div Nps
           s == n % Nps
           l == (s * Ticks) \div Nps
           r == (s * Ticks) % Nps
<1>1. h \in Nat /\ s \in Nat /\ n = Nps * h + s
  BY DivisionFacts, DivisionNat, NpsAssumption
<1>2. s * Ticks \in Nat
  BY <1>1, ProductMonotone, TicksAssumption
<1>3. l \in Nat /\ r \in 0 .. Nps - 1 /\ s * Ticks = Nps * l + r
  BY <1>2, DivisionFacts, DivisionNat, NpsAssumption
<1>4. n * Ticks = Nps * (h * Ticks + l) + r
  <2> HIDE DEF h, s, l, r
  <2>1. n * Ticks = Nps * (h * Ticks) + s * Ticks
    BY <1>1, NpsAssumption, TicksAssumption, SMT
  <2> QED
    BY <1>1, <1>3, <2>1, NpsAssumption, TicksAssumption, SMT
<1>5. (n * Ticks) \div Nps = h * Ticks + l
  <2> HIDE DEF h, s, l, r
  <2>1. h * Ticks + l \in Int
    BY <1>1, <1>3, TicksAssumption, ProductMonotone
  <2> QED
    BY <1>3, <1>4, <2>1, DivisionUnique, NpsAssumption
<1>6. U32(h) = h
  BY <1>1, U32Small
<1> QED
  BY <1>5, <1>6 DEF TimeOf, TotalTicks

LEMMA TimeOfMonotone ==
    ASSUME NEW m \in Nat, NEW n \in Nat, m <= n, n \div Nps < Word
    PROVE  TotalTicks(TimeOf(m)) <= TotalTicks(TimeOf(n))
<1>1. m \div Nps <= n \div Nps /\ m \div Nps \in Nat /\ n \div Nps \in Nat
  BY DivisionMonotone, DivisionNat, NpsAssumption
<1>2. m * Ticks <= n * Ticks /\ m * Ticks \in Nat /\ n * Ticks \in Nat
  BY ProductMonotone, TicksAssumption
<1>3. (m * Ticks) \div Nps <= (n * Ticks) \div Nps
  BY <1>2, DivisionMonotone, NpsAssumption
<1>4. m \div Nps < Word
  BY <1>1, WordAssumption
<1> QED
  BY <1>3, <1>4, TimeOfExact

LEMMA TimeOfBelow ==
    ASSUME NEW n \in Nat
    PROVE  TotalTicks(TimeOf(n)) < Range32
<1> DEFINE t == TimeOf(n)
<1>1. /\ t.high \in Nat /\ t.high < Word /\ Word \in Nat
      /\ t.low \in Nat /\ t.low < Ticks /\ Ticks \in Nat
  BY TimeOfType, WordAssumption, TicksAssumption DEF Times
<1> HIDE DEF t
<1>2. t.high * Ticks + t.low < Word * Ticks
  BY <1>1, FractionBelow
<1> QED
  BY <1>2 DEF TotalTicks, Range32, t
=============================================================================
