------------------------ MODULE EfuTimeMachineProofs ------------------------
(***************************************************************************)
(* Theorems about chains of efu_time operations, for every Ticks, Word and *)
(* Nps and for all operands: whatever wraps around, the ticks stay right   *)
(* modulo the range of the type.                                           *)
(*                                                                         *)
(* EfuTimeProofs has the operators exact as long as a result fits the      *)
(* type.  Here nothing needs to fit, so they are treated up to multiples   *)
(* of the range.                                                           *)
(***************************************************************************)
EXTENDS EfuTimeMachine, EfuTimeProofs

T(t) == TotalTicks(t)

USE DEF T

Same(a, b) == \E k \in Int : a = b + k * Range32

---------------------------------------------------------------------------
(***************************************************************************)
(* Congruence.                                                             *)
(***************************************************************************)
LEMMA RangeFacts == Range32 \in Nat /\ Range32 > 0
<1>1. Ticks \in Nat /\ Ticks > 0 /\ Word \in Nat /\ Word > 0
  BY TicksAssumption, WordAssumption
<1>2. 1 * Ticks <= Word * Ticks /\ Word * Ticks \in Nat
  BY <1>1, ProductMonotone
<1> QED
  BY <1>1, <1>2 DEF Range32

LEMMA SameMod ==
    ASSUME NEW a \in Int, NEW b \in Int, Same(a, b)
    PROVE  a % Range32 = b % Range32
<1> DEFINE R == Range32
           q == b \div R
           r == b % R
<1>1. PICK k \in Int : a = b + k * R
  BY DEF Same
<1>2. q \in Int /\ r \in 0 .. R - 1 /\ b = R * q + r /\ R \in Int /\ R > 0
  BY RangeFacts, DivisionFacts
<1> HIDE DEF R, q, r
<1>3. r \in Int /\ a = R * (q + k) + r
  BY <1>1, <1>2, SMT
<1>4. q + k \in Int
  BY <1>1, <1>2
<1>5. a % R = r
  BY <1>2, <1>3, <1>4, DivisionUnique
<1> QED
  BY <1>5 DEF R, r

LEMMA ModSame ==
    ASSUME NEW a \in Int
    PROVE  Same(a, a % Range32)
<1> DEFINE R == Range32
           q == a \div R
           r == a % R
<1>1. q \in Int /\ r \in Int /\ a = R * q + r /\ R \in Int
  BY RangeFacts, DivisionFacts
<1> HIDE DEF R, q, r
<1>2. a = r + q * R
  BY <1>1, SMT
<1> QED
  BY <1>1, <1>2 DEF Same, R, r

LEMMA SameSelf == ASSUME NEW a \in Int PROVE Same(a, a)
<1>1. a = a + 0 * Range32
  BY RangeFacts
<1> QED
  BY <1>1 DEF Same

LEMMA SameSum ==
    ASSUME NEW a \in Int, NEW b \in Int, NEW c \in Int, NEW d \in Int,
           Same(a, b), Same(c, d)
    PROVE  Same(a + c, b + d) /\ Same(a - c, b - d)
<1>1. PICK j \in Int : a = b + j * Range32
  BY DEF Same
<1>2. PICK k \in Int : c = d + k * Range32
  BY DEF Same
<1>3. Range32 \in Int
  BY RangeFacts
<1>4. /\ a + c = (b + d) + (j + k) * Range32
      /\ a - c = (b - d) + (j - k) * Range32
  BY <1>1, <1>2, <1>3, SMT
<1>5. j + k \in Int /\ j - k \in Int
  OBVIOUS
<1> QED
  BY <1>4, <1>5 DEF Same

LEMMA SameProduct ==
    ASSUME NEW a \in Int, NEW b \in Int, NEW m \in Int, Same(a, b)
    PROVE  Same(a * m, b * m)
<1>1. PICK k \in Int : a = b + k * Range32
  BY DEF Same
<1>2. Range32 \in Int
  BY RangeFacts
<1>3. a * m = b * m + (k * m) * Range32 /\ k * m \in Int
  BY <1>1, <1>2, SMT
<1> QED
  BY <1>3 DEF Same

LEMMA SameChain ==
    ASSUME NEW a \in Int, NEW b \in Int, NEW c \in Int, Same(a, b), Same(b, c)
    PROVE  Same(a, c)
<1>1. Same(a + b, b + c)
  BY SameSum
<1>2. Same((a + b) - b, (b + c) - b)
  BY <1>1, SameSelf, SameSum
<1> QED
  BY <1>2

---------------------------------------------------------------------------
(***************************************************************************)
(* The operators, up to multiples of the range.                            *)
(***************************************************************************)
LEMMA U32Same ==
    ASSUME NEW h \in Int, NEW l \in Int
    PROVE  Same(h * Ticks + l, U32(h) * Ticks + l)
<1> DEFINE q == h \div Word
           r == h % Word
<1>1. q \in Int /\ r \in Int /\ h = Word * q + r /\ Word \in Int /\ Ticks \in Int
  BY TicksAssumption, WordAssumption, DivisionFacts
<1>2. U32(h) = r
  BY DEF U32
<1> HIDE DEF q, r
<1>3. h * Ticks = q * (Word * Ticks) + r * Ticks
  BY <1>1, SMT
<1>4. r * Ticks \in Int /\ q * (Word * Ticks) \in Int
  BY <1>1, SMT
<1>5. h * Ticks + l = (r * Ticks + l) + q * (Word * Ticks)
  BY <1>3, <1>4
<1> QED
  BY <1>1, <1>2, <1>5 DEF Same, Range32

LEMMA MakeTimeSame ==
    ASSUME NEW h \in Int, NEW l \in Nat
    PROVE  /\ MakeTime(U32(h), l) \in Times
           /\ Same(h * Ticks + l, T(MakeTime(U32(h), l)))
<1> DEFINE u == U32(h)
           q == l \div Ticks
           r == l % Ticks
<1>1. u \in Int /\ Ticks \in Int /\ h * Ticks + l \in Int /\ u * Ticks + l \in Int
  <2>1. u \in 0 .. Word - 1
    BY U32Type
  <2> HIDE DEF u
  <2> QED
    BY <2>1, TicksAssumption
<1>2. Same(h * Ticks + l, u * Ticks + l)
  BY U32Same
<1>3. q \in Int /\ r \in Int /\ l = Ticks * q + r
  BY DivisionFacts, TicksAssumption
<1>4. CASE l > Ticks
  <2>1. T(MakeTime(u, l)) = U32(u + q) * Ticks + r
    BY <1>4 DEF MakeTime, TotalTicks
  <2> HIDE DEF u, q, r
  <2>2. u + q \in Int /\ Same((u + q) * Ticks + r, U32(u + q) * Ticks + r)
    <3>1. u + q \in Int
      BY <1>1, <1>3
    <3> QED
      BY <1>3, <3>1, U32Same
  <2>3. (u + q) * Ticks + r = u * Ticks + l
    BY <1>1, <1>3, SMT
  <2>4. U32(u + q) * Ticks + r \in Int
    <3>1. U32(u + q) \in 0 .. Word - 1
      BY <2>2, U32Type
    <3> QED
      BY <1>1, <1>3, <3>1
  <2>5. Same(h * Ticks + l, U32(u + q) * Ticks + r)
    BY <1>1, <1>2, <2>2, <2>3, <2>4, SameChain
  <2> QED
    BY <1>1, <2>1, <2>5, MakeTimeType DEF u
<1>5. CASE ~(l > Ticks)
  <2>1. u \in 0 .. Word - 1
    BY U32Type
  <2>2. u \in Nat /\ u < Word
    BY <2>1, WordAssumption
  <2>3. T(MakeTime(u, l)) = u * Ticks + l
    <3>1. U32(u) = u
      BY <2>2, U32Small
    <3> QED
      BY <1>5, <3>1 DEF MakeTime, TotalTicks
  <2> QED
    BY <1>1, <1>2, <2>3, MakeTimeType
<1> QED
  BY <1>4, <1>5

LEMMA AddSame ==
    ASSUME NEW a \in Times, NEW b \in Times
    PROVE  Same(T(a) + T(b), T(Add(a, b)))
<1> DEFINE h == a.high + b.high
           l == a.low + b.low
<1>1. h \in Int /\ l \in Nat /\ l < Word
  BY TicksAssumption, WordAssumption DEF Times
<1>2. h * Ticks + l = T(a) + T(b)
  BY TicksAssumption, SMT DEF Times, TotalTicks
<1>3. U32(l) = l
  BY <1>1, U32Small
<1>4. Same(h * Ticks + l, T(MakeTime(U32(h), l)))
  BY <1>1, MakeTimeSame
<1> QED
  BY <1>2, <1>3, <1>4 DEF Add

LEMMA MulSame ==
    ASSUME NEW a \in Times, NEW m \in Nat
    PROVE  Same(T(a) * m, T(Mul(a, m)))
<1> DEFINE h == a.high * m
           r == a.low * m
           q == r \div Ticks
           s == r % Ticks
<1>1. h \in Nat /\ r \in Nat
  BY TicksAssumption, ProductMonotone DEF Times
<1>2. h * Ticks + r = T(a) * m
  BY TicksAssumption, SMT DEF Times, TotalTicks
<1>3. q \in Nat /\ s \in Nat /\ r = Ticks * q + s
  <2> HIDE DEF r
  <2> QED
    BY <1>1, DivisionFacts, DivisionNat, TicksAssumption
<1>4. CASE r > Ticks
  <2>1. Mul(a, m) = MakeTime(U32(h + q), s)
    BY <1>4 DEF Mul
  <2> HIDE DEF h, r, q, s
  <2>2. (h + q) * Ticks + s = T(a) * m
    BY <1>1, <1>2, <1>3, TicksAssumption, SMT
  <2>3. Same((h + q) * Ticks + s, T(MakeTime(U32(h + q), s)))
    BY <1>1, <1>3, MakeTimeSame
  <2> QED
    BY <2>1, <2>2, <2>3
<1>5. CASE ~(r > Ticks)
  <2>1. Mul(a, m) = MakeTime(U32(h), r)
    BY <1>5 DEF Mul
  <2> HIDE DEF h, r
  <2>2. Same(h * Ticks + r, T(MakeTime(U32(h), r)))
    BY <1>1, MakeTimeSame
  <2> QED
    BY <1>2, <2>1, <2>2
<1> QED
  BY <1>4, <1>5

LEMMA TotalTicksBelow ==
    ASSUME NEW t \in Times
    PROVE  T(t) \in Nat /\ T(t) <= Range32
<1>1. /\ t.high \in Nat /\ t.high + 1 <= Word /\ Word \in Nat
      /\ t.low \in Nat /\ t.low <= Ticks /\ Ticks \in Nat
  BY WordAssumption, TicksAssumption DEF Times
<1>2. (t.high + 1) * Ticks <= Word * Ticks
  BY <1>1, ProductMonotone
<1>3. (t.high + 1) * Ticks = t.high * Ticks + Ticks /\ t.high * Ticks \in Nat
  <2> PICK h \in Nat, n \in Nat : h = t.high /\ n = Ticks
    BY <1>1
  <2>1. (h + 1) * n = h * n + n /\ h * n \in Nat
    BY SMT
  <2> QED
    BY <2>1
<1> QED
  BY <1>1, <1>2, <1>3, RangeFacts DEF TotalTicks, Range32

---------------------------------------------------------------------------
(***************************************************************************)
(* The steps.                                                              *)
(***************************************************************************)
LEMMA StillExact ==
    ASSUME NEW a \in Nat, NEW e \in Int, Same(e, a)
    PROVE  a % Range32 = e % Range32 /\ e % Range32 \in 0 .. Range32 - 1
  BY SameMod, RangeFacts, DivisionFacts

LEMMA ExactSame ==
    ASSUME TypeOK, TicksExact
    PROVE  Same(exact, T(acc)) /\ exact \in Int /\ T(acc) \in Nat
<1>1. T(acc) \in Nat /\ exact \in Int
  BY TotalTicksNat, RangeFacts DEF TypeOK
<1>2. PICK k \in Int : T(acc) = exact + k * Range32
  BY <1>1, ModSame DEF TicksExact, Same
<1>3. exact = T(acc) + (-k) * Range32
  BY <1>1, <1>2, RangeFacts, SMT
<1> QED
  BY <1>1, <1>3 DEF Same

LEMMA AddExactly ==
    ASSUME TypeOK, TicksExact, NEW t \in Operands, AddStep(t)
    PROVE  TypeOK' /\ TicksExact'
<1>1. acc \in Times /\ t \in Times
  BY MachineAssumption DEF TypeOK
<1>2. Add(acc, t) \in Times /\ T(Add(acc, t)) \in Nat /\ T(t) \in Nat
  BY <1>1, AddType, TotalTicksNat
<1>3. Same(exact + T(t), T(acc) + T(t))
  BY <1>2, ExactSame, SameSelf, SameSum
<1>4. Same(exact + T(t), T(Add(acc, t)))
  <2>1. Same(T(acc) + T(t), T(Add(acc, t)))
    BY <1>1, AddSame
  <2> QED
    BY <1>2, <1>3, <2>1, ExactSame, SameChain
<1>5. /\ T(Add(acc, t)) % Range32 = (exact + T(t)) % Range32
      /\ (exact + T(t)) % Range32 \in 0 .. Range32 - 1
  BY <1>2, <1>4, ExactSame, StillExact
<1> QED
  BY <1>2, <1>5 DEF AddStep, TypeOK, TicksExact

LEMMA SubExactly ==
    ASSUME TypeOK, TicksExact, NEW t \in Operands, SubStep(t)
    PROVE  TypeOK' /\ TicksExact'
<1>1. acc \in Times /\ t \in Times
  BY MachineAssumption DEF TypeOK
<1>2. CASE ~SubThrows(acc, t)
  <2>1. Sub(acc, t) \in Times /\ T(Sub(acc, t)) \in Nat /\ T(t) \in Nat
    BY <1>1, SubType, TotalTicksNat
  <2>2. T(Sub(acc, t)) = T(acc) - T(t)
    BY <1>1, <1>2, SubExact
  <2>3. Same(exact - T(t), T(Sub(acc, t)))
    BY <2>1, <2>2, ExactSame, SameSelf, SameSum
  <2>4. /\ T(Sub(acc, t)) % Range32 = (exact - T(t)) % Range32
        /\ (exact - T(t)) % Range32 \in 0 .. Range32 - 1
    BY <2>1, <2>3, ExactSame, StillExact
  <2> QED
    BY <1>2, <2>1, <2>4 DEF SubStep, TypeOK, TicksExact
<1>3. CASE SubThrows(acc, t)
  BY <1>3 DEF SubStep, TypeOK, TicksExact
<1> QED
  BY <1>2, <1>3

LEMMA MulExactly ==
    ASSUME TypeOK, TicksExact, NEW m \in Factors, MulStep(m)
    PROVE  TypeOK' /\ TicksExact'
<1>1. acc \in Times /\ m \in Nat
  BY MachineAssumption, WordAssumption DEF TypeOK
<1>2. Mul(acc, m) \in Times /\ T(Mul(acc, m)) \in Nat /\ exact * m \in Int
  BY <1>1, MulType, TotalTicksNat, ExactSame
<1>3. Same(exact * m, T(Mul(acc, m)))
  <2>1. Same(exact * m, T(acc) * m) /\ T(acc) * m \in Int
    BY <1>1, ExactSame, SameProduct
  <2>2. Same(T(acc) * m, T(Mul(acc, m)))
    BY <1>1, MulSame
  <2> QED
    BY <1>2, <2>1, <2>2, SameChain
<1>4. /\ T(Mul(acc, m)) % Range32 = (exact * m) % Range32
      /\ (exact * m) % Range32 \in 0 .. Range32 - 1
  BY <1>2, <1>3, StillExact
<1> QED
  BY <1>2, <1>4 DEF MulStep, TypeOK, TicksExact

(***************************************************************************)
(* The product with the quotient may itself wrap around; the remainder is  *)
(* then still right up to the range.  With the quotient d, of which the    *)
(* code keeps q and leaves out e words, x - y*q is r and y*e words.        *)
(***************************************************************************)
LEMMA Quotient ==
    ASSUME NEW a \in Times, NEW t \in Times, T(t) > 0
    PROVE  \E q \in Nat, r \in Nat, e \in Nat :
              /\ Div(a, t) = q /\ q < Word
              /\ r = T(a) % T(t) /\ r < T(t)
              /\ e = (T(a) \div T(t)) \div Word
              /\ T(a) = T(t) * q + (r + (T(t) * Word) * e)
<1> DEFINE x == T(a)
           y == T(t)
           d == x \div y
           r == x % y
           e == d \div Word
           q == d % Word
<1>1. x \in Nat /\ y \in Nat /\ y > 0 /\ Word \in Nat /\ Word > 0
  BY TotalTicksNat, TicksAssumption, WordAssumption
<1>2. d \in Nat /\ r \in 0 .. y - 1 /\ x = y * d + r
  <2> HIDE DEF x, y
  <2> QED
    BY <1>1, DivisionFacts, DivisionNat
<1>3. e \in Nat /\ q \in 0 .. Word - 1 /\ d = Word * e + q
  <2> HIDE DEF d
  <2> QED
    BY <1>1, <1>2, DivisionFacts, DivisionNat
<1>4. Div(a, t) = q
  BY DEF Div, U32
<1> HIDE DEF x, y, d, r, e, q
<1>5. x = y * q + (r + (y * Word) * e)
  <2>1. q \in Int /\ r \in Int
    BY <1>1, <1>2, <1>3
  <2>2. y * (Word * e + q) = (y * Word) * e + y * q
    BY <1>1, <1>3, <2>1, SMT
  <2>3. (y * Word) * e \in Int /\ y * q \in Int
    BY <1>1, <1>3, <2>1, SMT
  <2> QED
    BY <1>2, <1>3, <2>1, <2>2, <2>3
<1>6. /\ q \in Nat /\ q < Word /\ r \in Nat /\ r < y /\ e \in Nat
  BY <1>1, <1>2, <1>3
<1>7. r = T(a) % T(t) /\ e = (T(a) \div T(t)) \div Word
  BY DEF x, y, d, r, e
<1> QED
  BY <1>4, <1>5, <1>6, <1>7 DEF x, y

LEMMA ModExactly ==
    ASSUME TypeOK, NEW t \in Operands, ModStep(t), ~ModThrows(acc, t)
    PROVE  TypeOK' /\ TicksExact'
<1>1. acc \in Times /\ t \in Times /\ T(t) > 0
  BY MachineAssumption DEF TypeOK, ModStep
<1>2. PICK x \in Nat, y \in Nat : x = T(acc) /\ y = T(t)
  BY <1>1, TotalTicksNat
<1>3. PICK q \in Nat, r \in Nat, e \in Nat :
         /\ Div(acc, t) = q
         /\ r = T(acc) % T(t) /\ e = (T(acc) \div T(t)) \div Word
         /\ T(acc) = T(t) * q + (r + (T(t) * Word) * e)
  BY <1>1, Quotient
<1>4. LeftOut(t) = (y * Word) * e /\ (y * Word) * e \in Int /\ (y * Word) * e >= 0
  <2>1. (y * Word) * e \in Int /\ (y * Word) * e >= 0
    BY WordAssumption, TicksAssumption, SMT
  <2> QED
    BY <1>2, <1>3, <2>1 DEF LeftOut
<1>5. PICK v \in Nat : v = r + LeftOut(t) /\ x = y * q + v /\ y * q \in Int
  <2>1. y * q \in Int
    BY SMT
  <2>2. r + LeftOut(t) \in Nat
    BY <1>4
  <2> QED
    BY <1>2, <1>3, <1>4, <2>1, <2>2
<1>6. PICK p \in Times : p = Mul(t, q) /\ T(p) \in Nat /\ Same(y * q, T(p))
  BY <1>1, <1>2, MulType, TotalTicksNat, MulSame
<1>7. Mod(acc, t) = Sub(acc, p) /\ ~SubThrows(acc, p)
  BY <1>3, <1>6 DEF Mod, ModThrows
<1>8. Sub(acc, p) \in Times /\ T(Sub(acc, p)) \in Nat /\ T(Sub(acc, p)) = x - T(p)
  BY <1>1, <1>2, <1>6, <1>7, SubType, TotalTicksNat, SubExact
<1>9. Same(v, T(Sub(acc, p)))
  <2>1. x - y * q = v
    BY <1>5
  <2>2. Same(x - y * q, x - T(p))
    BY <1>5, <1>6, SameSelf, SameSum
  <2> QED
    BY <1>8, <2>1, <2>2
<1>10. T(Sub(acc, p)) % Range32 = v % Range32 /\ v % Range32 \in 0 .. Range32 - 1
  BY <1>8, <1>9, StillExact
<1>11. acc' = Sub(acc, p) /\ exact' = v % Range32 /\ refused' = FALSE
  BY <1>3, <1>5, <1>7 DEF ModStep
<1> QED
  BY <1>8, <1>10, <1>11 DEF TypeOK, TicksExact

LEMMA MachineCorrect == Spec => [](TypeOK /\ TicksExact)
<1>1. Init => TypeOK /\ TicksExact
  <2> SUFFICES ASSUME Init PROVE TypeOK /\ TicksExact
    OBVIOUS
  <2>1. acc \in Times /\ exact = 0 /\ refused = FALSE
    BY TimeOfType DEF Init
  <2>2. T(acc) = 0
    <3>1. 0 \div Nps = 0 /\ 0 % Nps = 0
      BY NpsAssumption, SMT
    <3>2. 0 < Word /\ U32(0) = 0
      BY TicksAssumption, WordAssumption, U32Small
    <3>3. (0 % Nps) * Ticks = 0
      BY <3>1, TicksAssumption
    <3> QED
      BY <3>1, <3>2, <3>3, TicksAssumption DEF Init, TimeOf, TotalTicks
  <2>3. 0 % Range32 = 0
    BY RangeFacts, ModSmall
  <2>4. 0 \in 0 .. Range32 - 1
    BY RangeFacts
  <2>5. TypeOK
    BY <2>1, <2>4, Zenon DEF TypeOK
  <2>6. TotalTicks(acc) % Range32 = exact
    BY <2>1, <2>2, <2>3, Zenon DEF T
  <2> QED
    BY <2>5, <2>6 DEF TicksExact
<1>2. TypeOK /\ TicksExact /\ [Next]_vars => (TypeOK /\ TicksExact)'
  <2> SUFFICES ASSUME TypeOK, TicksExact, [Next]_vars PROVE TypeOK' /\ TicksExact'
    OBVIOUS
  <2>1. ASSUME NEW t \in Operands, AddStep(t) PROVE TypeOK' /\ TicksExact'
    BY <2>1, AddExactly
  <2>2. ASSUME NEW t \in Operands, SubStep(t) PROVE TypeOK' /\ TicksExact'
    BY <2>2, SubExactly
  <2>3. ASSUME NEW t \in Operands, ModStep(t) PROVE TypeOK' /\ TicksExact'
    <3>1. CASE ~ModThrows(acc, t)
      BY <2>3, <3>1, ModExactly
    <3>2. CASE ModThrows(acc, t)
      BY <2>3, <3>2 DEF ModStep, TypeOK, TicksExact
    <3> QED
      BY <3>1, <3>2
  <2>4. ASSUME NEW m \in Factors, MulStep(m) PROVE TypeOK' /\ TicksExact'
    BY <2>4, MulExactly
  <2>5. CASE UNCHANGED vars
    BY <2>5 DEF vars, TypeOK, TicksExact
  <2> QED
    BY <2>1, <2>2, <2>3, <2>4, <2>5 DEF Next
<1> QED
  BY <1>1, <1>2, PTL DEF Spec

(***************************************************************************)
(* Every register holds a time, whatever was calculated before: low never  *)
(* exceeds Ticks (efu_time.h:25-30).                                       *)
(***************************************************************************)
THEOREM MachineTypeCorrect == Spec => []TypeOK
  BY MachineCorrect, PTL

(***************************************************************************)
(* No chain of operators gains or loses a tick (efu_time.h:75-120): not by *)
(* the carries and borrows, nor where 32 bits wrap around.                 *)
(***************************************************************************)
THEOREM NoTickLost == Spec => []TicksExact
  BY MachineCorrect, PTL

(***************************************************************************)
(* operator- (efu_time.h:85-94) refuses what is really larger and accepts  *)
(* what is really smaller, in every state a chain of operators reaches.    *)
(***************************************************************************)
THEOREM RefusalsRight == Spec => []RefusalFollowsTicks
<1>1. TypeOK => RefusalFollowsTicks
  <2> SUFFICES ASSUME TypeOK, NEW t \in Operands
               PROVE  /\ TotalTicks(acc) < TotalTicks(t) => SubThrows(acc, t)
                      /\ TotalTicks(acc) > TotalTicks(t) => ~SubThrows(acc, t)
    BY DEF RefusalFollowsTicks
  <2>1. acc \in Times /\ t \in Times
    BY MachineAssumption DEF TypeOK
  <2> QED
    BY <2>1, OrderFacts, TotalTicksNat DEF SubThrows
<1> QED
  BY <1>1, MachineTypeCorrect, PTL

(***************************************************************************)
(* The quotient (efu_time.h:104-106), multiplied back by the code, never   *)
(* exceeds the dividend; less than the divisor remains, but for multiples  *)
(* of 2^32 divisors where the quotient does not fit 32 bits.               *)
(***************************************************************************)
THEOREM QuotientsBracket == Spec => []QuotientBrackets
<1>1. TypeOK => QuotientBrackets
  <2> SUFFICES ASSUME TypeOK, NEW t \in Operands, T(t) > 0, T(acc) < Range32
               PROVE  /\ T(acc) - T(Mul(t, Div(acc, t))) >= 0
                      /\ (T(acc) - T(Mul(t, Div(acc, t)))) % (T(t) * Word) < T(t)
    BY DEF QuotientBrackets
  <2>1. acc \in Times /\ t \in Times
    BY MachineAssumption DEF TypeOK
  <2>2. PICK x \in Nat, y \in Nat : x = T(acc) /\ y = T(t) /\ y > 0 /\ x < Range32
    BY <2>1, TotalTicksNat
  <2>3. PICK q \in Nat, r \in Nat, e \in Nat :
           /\ Div(acc, t) = q /\ r < y /\ x = y * q + (r + (y * Word) * e)
    BY <2>1, <2>2, Quotient
  <2>4. PICK m \in Nat : m = y * Word /\ y <= m
    <3>1. y * Word \in Nat /\ y <= y * Word
      BY WordAssumption, TicksAssumption, SMT
    <3> QED
      BY <3>1
  <2>5. m * e \in Nat /\ y * q \in Nat
    BY SMT
  <2>6. T(Mul(t, q)) = y * q
    <3>1. y * q <= x
      BY <2>3, <2>4, <2>5
    <3>2. y * q < Range32
      BY <2>2, <2>5, <3>1, RangeFacts
    <3> QED
      BY <2>1, <2>2, <3>2, MulExact
  <2>7. x - y * q = m * e + r /\ x - y * q >= 0
    BY <2>3, <2>4, <2>5
  <2>8. (m * e + r) % m = r
    <3>1. r \in 0 .. m - 1 /\ m > 0
      BY <2>2, <2>3, <2>4
    <3> QED
      BY <3>1, DivisionUnique
  <2> QED
    BY <2>2, <2>3, <2>4, <2>6, <2>7, <2>8
<1> QED
  BY <1>1, MachineTypeCorrect, PTL
=============================================================================
