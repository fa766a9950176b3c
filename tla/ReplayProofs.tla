---------------------------- MODULE ReplayProofs ----------------------------
(***************************************************************************)
(* The replay of module Replay, for every file and all arguments: the ints *)
(* of the command line wrap when they become size_t, and so do the sums of *)
(* them, without any event taken for another.                              *)
(***************************************************************************)
EXTENDS ReplayWire, PacketBufferProofs, FiniteSetTheorems

---------------------------------------------------------------------------
(***************************************************************************)
(* Integers and words.                                                     *)
(***************************************************************************)
LEMMA Division ==
    ASSUME NEW a \in Int, NEW b \in Int, b > 0
    PROVE  /\ a \div b \in Int
           /\ (a % b) \in 0 .. b - 1
           /\ a = b * (a \div b) + (a % b)
  BY SMT

LEMMA Remainder ==
    ASSUME NEW b \in Int, b > 0, NEW q \in Int, NEW r \in 0 .. b - 1
    PROVE  (b * q + r) % b = r
  BY SMT

Square == Giga * Giga

LEMMA WordFacts ==
    /\ Giga \in Nat /\ Square \in Nat /\ Square >= 2 * Giga /\ Giga > 1
    /\ SizeWord = 16 * Square /\ SizeWord \div 16 = Square /\ SizeWord \in Nat
<1>1. Giga \in Nat /\ Giga > 1
  BY WordsAssumption
<1>2. Square \in Nat /\ Square >= 2 * Giga
  BY <1>1, SMT DEF Square
<1>3. SizeWord = 16 * Square
  BY <1>1, WordsAssumption, SMT DEF Square
<1> QED
  BY <1>1, <1>2, <1>3

(***************************************************************************)
(* A number that is no further from zero than half of a size_t.            *)
(***************************************************************************)
LEMMA Wrapped ==
    ASSUME NEW x \in Int, -(8 * Square) <= x, x < 8 * Square
    PROVE  SizeT(x) = IF x >= 0 THEN x ELSE x + SizeWord
<1> USE WordFacts
<1>1. CASE x >= 0
  <2>1. x \in 0 .. SizeWord - 1 /\ x = SizeWord * 0 + x
    BY <1>1
  <2>2. (SizeWord * 0 + x) % SizeWord = x
    BY <2>1, Remainder
  <2> QED
    BY <1>1, <2>1, <2>2 DEF SizeT
<1>2. CASE x < 0
  <2>1. x + SizeWord \in 0 .. SizeWord - 1 /\ x = SizeWord * (-1) + (x + SizeWord)
    BY <1>2
  <2>2. (SizeWord * (-1) + (x + SizeWord)) % SizeWord = x + SizeWord
    BY <2>1, Remainder
  <2> QED
    BY <1>2, <2>1, <2>2 DEF SizeT
<1> QED
  BY <1>1, <1>2

(***************************************************************************)
(* The sum of wrapped numbers wraps to the same as the sum of the numbers. *)
(***************************************************************************)
LEMMA WrappedSum ==
    ASSUME NEW a \in Int, NEW b \in Int, NEW m \in Int
    PROVE  SizeT(SizeT(a) + m * SizeT(b)) = SizeT(a + m * b)
<1> DEFINE W == SizeWord
           s == (a % W) + m * (b % W)
           c == a \div W + m * (b \div W) + s \div W
<1>0. W \in Int /\ W > 0
  BY WordFacts
<1>1. /\ a \div W \in Int /\ (a % W) \in 0 .. W - 1 /\ a = W * (a \div W) + (a % W)
      /\ b \div W \in Int /\ (b % W) \in 0 .. W - 1 /\ b = W * (b \div W) + (b % W)
  BY <1>0, Division
<1> HIDE DEF W
<1>2. PICK qa \in Int, ra \in Int, qb \in Int, rb \in Int :
         /\ qa = a \div W /\ ra = a % W /\ qb = b \div W /\ rb = b % W
         /\ a = W * qa + ra /\ b = W * qb + rb
  BY <1>0, <1>1
<1>3. s \in Int /\ s = ra + m * rb
  BY <1>2
<1>4. s \div W \in Int /\ (s % W) \in 0 .. W - 1 /\ s = W * (s \div W) + (s % W)
  BY <1>0, <1>3, Division
<1>5. PICK qs \in Int, rs \in 0 .. W - 1 :
         qs = s \div W /\ rs = s % W /\ s = W * qs + rs
  BY <1>4
<1>6. a + m * b = W * (qa + m * qb + qs) + rs /\ qa + m * qb + qs \in Int
  BY <1>0, <1>2, <1>3, <1>5, SMT
<1>7. (W * (qa + m * qb + qs) + rs) % W = rs
  BY <1>0, <1>6, Remainder
<1> QED
  BY <1>5, <1>6, <1>7 DEF SizeT, W

---------------------------------------------------------------------------
(***************************************************************************)
(* Arguments and indexes.                                                  *)
(***************************************************************************)
Ints == -(2 * Giga) .. 2 * Giga - 1

LEMMA ArgumentFacts ==
    ASSUME TypeOK
    PROVE  /\ asked.count \in Ints /\ asked.first \in Ints /\ asked.every \in Ints
           /\ Size(file) \in 0 .. Square - 1
  BY WordFacts, ArgumentsAssumption, FilesAssumption DEF TypeOK, Ints

LEMMA ProductNear ==
    ASSUME NEW m \in Int, 0 <= m, m < 2 * Giga, NEW e \in Ints
    PROVE  m * e \in Int /\ -(4 * Square) <= m * e /\ m * e <= 4 * Square
<1>1. Giga \in Nat /\ e \in Int /\ -(2 * Giga) <= e /\ e <= 2 * Giga
  BY WordFacts DEF Ints
<1>2. m * e <= m * (2 * Giga) /\ m * (-(2 * Giga)) <= m * e
  BY <1>1, SMT
<1>3. m * (2 * Giga) <= (2 * Giga) * (2 * Giga)
  BY <1>1, SMT
<1>4. (2 * Giga) * (2 * Giga) = 4 * Square /\ m * (-(2 * Giga)) = -(m * (2 * Giga))
  BY <1>1, SMT DEF Square
<1> QED
  BY <1>1, <1>2, <1>3, <1>4, WordFacts

(***************************************************************************)
(* What is asked for has no further to wrap than half of a size_t.         *)
(***************************************************************************)
LEMMA AskedNear ==
    ASSUME TypeOK, NEW k \in 1 .. Number
    PROVE  Asked(k) \in Int /\ -(8 * Square) <= Asked(k) /\ Asked(k) < 8 * Square
<1> USE WordFacts
<1>1. CASE AsksForAll
  BY <1>1, ArgumentFacts DEF Asked, Number
<1>2. CASE ~AsksForAll
  <2>1. k \in Int /\ 0 <= k - 1 /\ k - 1 < 2 * Giga
    BY <1>2, ArgumentFacts DEF Number, Ints
  <2>2. PICK first \in Int, every \in Ints : /\ first = asked.first /\ every = asked.every
                                             /\ -(2 * Giga) <= first /\ first < 2 * Giga
    BY ArgumentFacts DEF Ints
  <2>3. PICK product \in Int : /\ product = (k - 1) * every
                               /\ -(4 * Square) <= product /\ product <= 4 * Square
    BY <2>1, <2>2, ProductNear
  <2>4. Asked(k) = first + product
    BY <1>2, <2>2, <2>3 DEF Asked
  <2> QED
    BY <2>2, <2>3, <2>4
<1> QED
  BY <1>1, <1>2

(***************************************************************************)
(* The index that the code computes is that of the event asked for when    *)
(* the file has it, and refused when it has not.                           *)
(***************************************************************************)
InFile(index) == index \in 0 .. Size(file) - 1

LEMMA IndexFacts ==
    ASSUME TypeOK, NEW k \in 1 .. Number
    PROVE  /\ SizeT(Asked(k)) \in 0 .. SizeWord - 1
           /\ InFile(Asked(k)) => SizeT(Asked(k)) = Asked(k)
           /\ InFile(SizeT(Asked(k))) => InFile(Asked(k))
           /\ GetThrows(file, SizeT(Asked(k)), 1) <=> ~InFile(Asked(k))
<1>1. PICK a \in Int, i \in Int, n \in 0 .. Square - 1 :
         /\ a = Asked(k) /\ i = SizeT(a) /\ n = Size(file)
         /\ -(8 * Square) <= a /\ a < 8 * Square
         /\ i = IF a >= 0 THEN a ELSE a + SizeWord
  <2>1. PICK a \in Int : a = Asked(k) /\ -(8 * Square) <= a /\ a < 8 * Square
    BY AskedNear
  <2>2. SizeT(a) = IF a >= 0 THEN a ELSE a + SizeWord
    BY <2>1, Wrapped
  <2>3. SizeT(a) \in Int
    BY <2>2, WordFacts
  <2> QED
    BY <2>1, <2>2, <2>3, ArgumentFacts
<1>2. CASE a \in 0 .. n - 1
  <2>1. i = a /\ i + 1 <= n /\ -(8 * Square) <= i + 1 /\ i + 1 < 8 * Square
    BY <1>1, <1>2, WordFacts
  <2>2. SizeT(i + 1) = i + 1
    BY <1>1, <2>1, <1>2, Wrapped
  <2> QED
    BY <1>1, <1>2, <2>1, <2>2, WordFacts DEF GetThrows, InFile
<1>3. CASE a \notin 0 .. n - 1
  <2>1. i >= n /\ i \in 0 .. SizeWord - 1
    BY <1>1, <1>3, WordFacts
  <2> QED
    BY <1>1, <1>3, <2>1 DEF GetThrows, InFile
<1> QED
  BY <1>2, <1>3

---------------------------------------------------------------------------
(***************************************************************************)
(* The start.  What remains to be replayed is what is asked for.           *)
(***************************************************************************)
LEMMA IndexesAsked ==
    ASSUME TypeOK, Number \in Nat,
           NEW first \in Int, NEW every \in Int, NEW number, number = Number,
           \A k \in 1 .. Number : Asked(k) = first + (k - 1) * every
    PROVE  /\ Indexes(number, SizeT(first), SizeT(every)) =
                 [k \in 1 .. Number |-> SizeT(Asked(k))]
  BY WrappedSum DEF Indexes

LEMMA OneIsOne == SizeT(0) = 0 /\ SizeT(1) = 1
  BY WordFacts, Wrapped

LEMMA CountFacts ==
    ASSUME TypeOK, ~VectorThrows(SizeT(asked.count))
    PROVE  asked.count \in Nat /\ SizeT(asked.count) = asked.count
<1>1. PICK c \in Ints : c = asked.count
  BY ArgumentFacts
<1>2. c \in Int /\ -(8 * Square) <= c /\ c < 2 * Giga /\ c < 8 * Square
  BY WordFacts DEF Ints
<1>3. SizeT(c) = IF c >= 0 THEN c ELSE c + SizeWord
  BY <1>2, Wrapped
<1>4. SizeT(c) < Square
  <2>1. SizeT(c) \in Int /\ ~(SizeT(c) >= SizeWord \div 16)
    BY <1>1, <1>2, <1>3, WordFacts DEF VectorThrows
  <2> QED
    BY <2>1, WordFacts
<1>5. c >= 0
  BY <1>2, <1>3, <1>4, WordFacts DEF Ints
<1> QED
  BY <1>1, <1>2, <1>3, <1>5

LEMMA EveryFacts ==
    ASSUME TypeOK, SizeT(asked.every) = 1
    PROVE  asked.every = 1
<1>1. PICK e \in Ints : e = asked.every
  BY ArgumentFacts
<1>2. e \in Int /\ -(2 * Giga) <= e /\ -(8 * Square) <= e /\ e < 8 * Square
  BY WordFacts DEF Ints
<1>3. SizeT(e) = IF e >= 0 THEN e ELSE e + SizeWord
  BY <1>2, Wrapped
<1> QED
  BY <1>1, <1>2, <1>3, WordFacts

LEMMA StartPlans ==
    ASSUME TypeOK, Start, pc' = "replay"
    PROVE  /\ Number \in Nat /\ ~ReaderThrows(file)
           /\ todo' = [k \in 1 .. Number |-> SizeT(Asked(k))]
           /\ UNCHANGED <<file, asked, random, added>>
<1> USE DEF Throw
<1>1. ~ReaderThrows(file)
  BY DEF Start
<1>2. CASE AsksForAll
  <2>1. /\ UNCHANGED <<file, asked, random, added>>
        /\ todo' = Indexes(Size(file), 0, 1)
    BY <1>2 DEF Start, replay_all, LoadReplay, ChunkReplay
  <2>2. Number = Size(file) /\ Number \in Nat /\ \A k \in 1 .. Number : Asked(k) = 0 + (k - 1) * 1
    BY <1>2, ArgumentFacts DEF Number, Asked
  <2>3. Indexes(Size(file), SizeT(0), SizeT(1)) = [k \in 1 .. Number |-> SizeT(Asked(k))]
    BY <2>2, IndexesAsked
  <2> QED
    BY <1>1, <2>1, <2>2, <2>3, OneIsOne
<1>3. CASE ~AsksForAll
  <2>1. /\ UNCHANGED <<file, asked, random, added>>
        /\ ~VectorThrows(SizeT(asked.count))
        /\ \/ todo' = Indexes(SizeT(asked.count), SizeT(asked.first), SizeT(asked.every))
           \/ /\ SizeT(asked.every) = 1
              /\ todo' = Indexes(SizeT(asked.count), SizeT(asked.first), 1)
    BY <1>3 DEF Start, replay_subset, LoadReplay, ChunkReplay
  <2>2. todo' = Indexes(SizeT(asked.count), SizeT(asked.first), SizeT(asked.every))
    BY <2>1
  <2>3. Number = asked.count /\ Number \in Nat /\ SizeT(asked.count) = Number
    BY <1>3, <2>1, CountFacts DEF Number
  <2>4. \A k \in 1 .. Number : Asked(k) = asked.first + (k - 1) * asked.every
    BY <1>3 DEF Asked
  <2>5. asked.first \in Int /\ asked.every \in Int
    BY ArgumentFacts DEF Ints
  <2>6. Indexes(SizeT(asked.count), SizeT(asked.first), SizeT(asked.every))
           = [k \in 1 .. Number |-> SizeT(Asked(k))]
    BY <2>3, <2>4, <2>5, IndexesAsked
  <2> QED
    BY <1>1, <2>1, <2>2, <2>3, <2>6
<1> QED
  BY <1>2, <1>3

(***************************************************************************)
(* The start of a replay of events that are all in the file does not       *)
(* throw; one that throws leaves nothing behind.                           *)
(***************************************************************************)
LEMMA StartThrows ==
    ASSUME TypeOK, Start, pc' # "replay"
    PROVE  ~AllInFile /\ pc' = "threw" /\ UNCHANGED <<file, asked, random, todo, added>>
<1>1. pc' = "threw" /\ UNCHANGED <<file, asked, random, todo, added>>
  BY DEF Start, replay_all, replay_subset, LoadReplay, ChunkReplay, Throw
<1>2. ASSUME AllInFile PROVE FALSE
  <2> USE <1>1, <1>2
  <2>1. ~ReaderThrows(file) /\ Number > 0 /\ \A k \in 1 .. Number : InFile(Asked(k))
    BY DEF AllInFile, InFile
  <2>2. Number \in 1 .. Square - 1
    <3>1. Number \in Int
      BY ArgumentFacts DEF Number, Ints
    <3>2. CASE AsksForAll
      BY <2>1, <3>1, <3>2, ArgumentFacts DEF Number
    <3>3. CASE ~AsksForAll
      BY <2>1, <3>1, <3>3, ArgumentFacts, WordFacts DEF Number, Ints
    <3> QED
      BY <3>2, <3>3
  <2>3. Number % SizeWord = Number
    BY <2>2, WordFacts, Wrapped DEF SizeT
  <2>4. ~VectorThrows(Number)
    BY <2>2, WordFacts DEF VectorThrows
  <2>5. ASSUME NEW first \in Int, \A k \in 1 .. Number : Asked(k) = first + (k - 1)
        PROVE  ~GetThrows(file, SizeT(first), Number)
    <3>1. PICK number \in 1 .. Square - 1, size \in 0 .. Square - 1 :
             number = Number /\ size = Size(file)
      BY <2>2, ArgumentFacts
    <3>2. Asked(1) = first /\ Asked(Number) = first + (number - 1)
      BY <2>2, <2>5, <3>1
    <3>3. first \in 0 .. size - 1 /\ first + (number - 1) \in 0 .. size - 1
      BY <2>1, <2>2, <3>1, <3>2 DEF InFile
    <3>4. SizeT(first) = first /\ SizeT(first + number) = first + number
      BY <3>1, <3>3, WordFacts, Wrapped
    <3> QED
      BY <3>1, <3>3, <3>4 DEF GetThrows
  <2>6. CASE AsksForAll
    <3>1. Number = Size(file) /\ \A k \in 1 .. Number : Asked(k) = 0 + (k - 1)
      BY <2>2, <2>6 DEF Number, Asked
    <3>2. ~GetThrows(file, 0, Size(file)) /\ ~VectorThrows(Size(file))
      BY <2>4, <2>5, <3>1, OneIsOne
    <3> QED
      BY <2>1, <2>6, <3>2 DEF Start, replay_all, LoadReplay, ChunkReplay
  <2>7. CASE ~AsksForAll
    <3>1. Number = asked.count /\ SizeT(asked.count) = asked.count
      BY <2>3, <2>7 DEF Number, SizeT
    <3>2. asked.first \in Int
      BY ArgumentFacts DEF Ints
    <3>3. asked.every = 1 => \A k \in 1 .. Number : Asked(k) = asked.first + (k - 1)
      BY <2>2, <2>7 DEF Asked
    <3>4. SizeT(asked.every) = 1 => ~GetThrows(file, SizeT(asked.first), SizeT(asked.count))
      BY <2>5, <3>1, <3>2, <3>3, EveryFacts
    <3> QED
      BY <2>1, <2>4, <2>7, <3>1, <3>4 DEF Start, replay_subset, LoadReplay, ChunkReplay
  <2> QED
    BY <2>6, <2>7
<1> QED
  BY <1>1, <1>2

---------------------------------------------------------------------------
(***************************************************************************)
(* The plan.  What has been replayed and what remains are together what    *)
(* was asked for, in some order; without RANDOM in that order.             *)
(***************************************************************************)
Planned(i) == IF i <= Len(added) THEN added[i] ELSE todo[i - Len(added)]

Orders(n) == {p \in [1 .. n -> 1 .. n] : \A i, j \in 1 .. n : p[i] = p[j] => i = j}

InPlan ==
    /\ Number = Len(added) + Len(todo)
    /\ \E p \in Orders(Number) : \A i \in 1 .. Number :
          /\ Planned(i) = SizeT(Asked(p[i]))
          /\ ~random => p[i] = i

PlanInv ==
    /\ \/ pc \in {"start", "threw"} /\ todo = << >> /\ added = << >>
       \/ pc \in {"replay", "done", "threw"} /\ InPlan
    /\ pc = "done" => todo = << >>
    /\ \A i \in DOMAIN added : InFile(added[i])
    /\ AllInFile => pc # "threw"
    /\ pc = "threw" /\ ~random /\ added # << >> => ~InFile(Asked(Len(added) + 1))

(***************************************************************************)
(* Taking the k-th of what remains.                                        *)
(***************************************************************************)
LEMMA Joined ==
    ASSUME NEW S, NEW a \in Seq(S), NEW b \in Seq(S)
    PROVE  /\ a \o b \in Seq(S) /\ Len(a \o b) = Len(a) + Len(b)
           /\ \A i \in 1 .. Len(a) : (a \o b)[i] = a[i]
           /\ \A i \in Len(a) + 1 .. Len(a) + Len(b) : (a \o b)[i] = b[i - Len(a)]
  OBVIOUS

Without(t, k) == SubSeq(t, 1, k - 1) \o SubSeq(t, k + 1, Len(t))

LEMMA WithoutFacts ==
    ASSUME NEW S, NEW t \in Seq(S), NEW k \in 1 .. Len(t)
    PROVE  /\ Without(t, k) \in Seq(S) /\ Len(Without(t, k)) = Len(t) - 1
           /\ \A i \in 1 .. k - 1 : Without(t, k)[i] = t[i]
           /\ \A i \in k .. Len(t) - 1 : Without(t, k)[i] = t[i + 1]
<1>0. k \in Int /\ Len(t) \in Nat /\ 1 <= k /\ k <= Len(t)
  OBVIOUS
<1>1. PICK a \in Seq(S) : /\ a = SubSeq(t, 1, k - 1) /\ Len(a) = k - 1
                          /\ \A i \in 1 .. k - 1 : a[i] = t[i]
  <2>1. SubSeq(t, 1, k - 1) \in Seq(S)
    OBVIOUS
  <2>2. /\ Len(SubSeq(t, 1, k - 1)) = k - 1
        /\ \A i \in 1 .. k - 1 : SubSeq(t, 1, k - 1)[i] = t[i]
    OBVIOUS
  <2> QED
    BY <2>1, <2>2
<1>2. PICK b \in Seq(S) : /\ b = SubSeq(t, k + 1, Len(t)) /\ Len(b) = Len(t) - k
                          /\ \A i \in 1 .. Len(t) - k : b[i] = t[k + i]
  <2>1. SubSeq(t, k + 1, Len(t)) \in Seq(S)
    OBVIOUS
  <2>2. /\ Len(SubSeq(t, k + 1, Len(t))) = Len(t) - k
        /\ \A i \in 1 .. Len(t) - k : SubSeq(t, k + 1, Len(t))[i] = t[k + i]
    OBVIOUS
  <2> QED
    BY <2>1, <2>2
<1>3. Without(t, k) = a \o b
  BY <1>1, <1>2 DEF Without
<1>4. /\ a \o b \in Seq(S) /\ Len(a \o b) = Len(a) + Len(b)
      /\ \A i \in 1 .. Len(a) : (a \o b)[i] = a[i]
      /\ \A i \in Len(a) + 1 .. Len(a) + Len(b) : (a \o b)[i] = b[i - Len(a)]
  BY Joined
<1>5. \A i \in 1 .. k - 1 : (a \o b)[i] = t[i]
  BY <1>1, <1>4
<1>6. \A i \in k .. Len(t) - 1 : (a \o b)[i] = t[i + 1]
  <2> SUFFICES ASSUME NEW i \in k .. Len(t) - 1 PROVE (a \o b)[i] = t[i + 1]
    OBVIOUS
  <2>0. i \in Int /\ k <= i /\ i <= Len(t) - 1
    BY <1>0
  <2>1. PICK m \in Int : m = i - (k - 1)
    BY <1>0, <2>0
  <2>2. m \in 1 .. Len(t) - k /\ k + m = i + 1
    BY <1>0, <2>0, <2>1
  <2>3. PICK la \in Int, lb \in Int :
           la = Len(a) /\ lb = Len(b) /\ la = k - 1 /\ lb = Len(t) - k
    <3>1. k - 1 \in Int /\ Len(t) - k \in Int
      BY <1>0
    <3> QED
      BY <1>1, <1>2, <3>1
  <2>4. i \in la + 1 .. la + lb /\ m = i - la
    BY <1>0, <2>0, <2>1, <2>3
  <2>5. (a \o b)[i] = b[m] /\ b[m] = t[k + m]
    BY <1>2, <1>4, <2>2, <2>3, <2>4
  <2> QED
    BY <2>2, <2>5
<1>7. Len(a \o b) = Len(t) - 1
  <2>1. Len(a) = k - 1 /\ Len(b) = Len(t) - k /\ Len(a \o b) = Len(a) + Len(b)
    BY <1>1, <1>2, <1>4
  <2> QED
    BY <1>0, <2>1
<1> QED
  BY <1>3, <1>4, <1>5, <1>6, <1>7

(***************************************************************************)
(* One turn of the loop moves an event from what remains to the end of     *)
(* what has been replayed.                                                 *)
(***************************************************************************)
Index == 0 .. SizeWord - 1

LEMMA AddMoves ==
    ASSUME TypeOK, InPlan, NEW k \in DOMAIN todo, random \/ k = 1,
           added' = Append(added, todo[k]), Taken(k), UNCHANGED <<file, asked, random>>
    PROVE  InPlan' /\ added' \in Seq(Index) /\ todo' \in Seq(Index)
<1>1. PICK s \in Seq(Index), t \in Seq(Index), n \in Nat :
         s = added /\ t = todo /\ n = Number /\ n = Len(s) + Len(t)
  BY DEF TypeOK, Index, InPlan
<1>2. k \in 1 .. Len(t) /\ t[k] \in Index
  BY <1>1
<1>3. PICK p \in Orders(n) : \A i \in 1 .. n : /\ Planned(i) = SizeT(Asked(p[i]))
                                               /\ ~random => p[i] = i
  BY <1>1 DEF InPlan
<1>4. PICK u \in Seq(Index) : /\ u = todo' /\ Len(u) = Len(t) - 1
                              /\ \A i \in 1 .. k - 1 : u[i] = t[i]
                              /\ \A i \in k .. Len(t) - 1 : u[i] = t[i + 1]
  <2>1. Without(t, k) \in Seq(Index) /\ Len(Without(t, k)) = Len(t) - 1
    BY <1>2, WithoutFacts
  <2>2. /\ \A i \in 1 .. k - 1 : Without(t, k)[i] = t[i]
        /\ \A i \in k .. Len(t) - 1 : Without(t, k)[i] = t[i + 1]
    BY <1>2, WithoutFacts
  <2>3. todo' = Without(t, k)
    BY <1>1 DEF Taken, Without
  <2> QED
    BY <2>1, <2>2, <2>3
<1>5. PICK r \in Seq(Index) : /\ r = added' /\ Len(r) = Len(s) + 1
                              /\ \A i \in 1 .. Len(s) : r[i] = s[i]
                              /\ r[Len(s) + 1] = t[k]
  <2>1. PICK e \in Index : e = t[k]
    BY <1>2
  <2>2. /\ Append(s, e) \in Seq(Index) /\ Len(Append(s, e)) = Len(s) + 1
        /\ \A i \in 1 .. Len(s) : Append(s, e)[i] = s[i]
        /\ Append(s, e)[Len(s) + 1] = e
    OBVIOUS
  <2>3. added' = Append(s, e)
    BY <1>1, <2>1
  <2> QED
    BY <2>1, <2>2, <2>3
<1> DEFINE Moved(i) == IF i <= Len(s) THEN i
                       ELSE IF i = Len(s) + 1 THEN Len(s) + k
                       ELSE IF i <= Len(s) + k THEN i - 1 ELSE i
           q == [i \in 1 .. n |-> p[Moved(i)]]
<1>6. \A i \in 1 .. n : /\ Moved(i) \in 1 .. n
                        /\ \A j \in 1 .. n : Moved(i) = Moved(j) => i = j
                        /\ k = 1 => Moved(i) = i
  BY <1>1, <1>2
<1>7. \A i \in 1 .. n : (Planned(i))' = Planned(Moved(i))
  <2> SUFFICES ASSUME NEW i \in 1 .. n PROVE (Planned(i))' = Planned(Moved(i))
    OBVIOUS
  <2>0. /\ i \in Int /\ k \in Int /\ Len(s) \in Nat /\ Len(t) \in Nat
        /\ 1 <= k /\ k <= Len(t) /\ i <= Len(s) + Len(t) /\ Len(r) = Len(s) + 1
    BY <1>1, <1>2, <1>5
  <2>1. \A m : Planned(m) = IF m <= Len(s) THEN s[m] ELSE t[m - Len(s)]
    BY <1>1 DEF Planned
  <2>2. (Planned(i))' = IF i <= Len(r) THEN r[i] ELSE u[i - Len(r)]
    BY <1>4, <1>5 DEF Planned
  <2>3. CASE i <= Len(s)
    BY <1>5, <2>1, <2>2, <2>3
  <2>4. CASE i = Len(s) + 1
    BY <1>2, <1>5, <2>1, <2>2, <2>4
  <2>5. CASE i > Len(s) + 1 /\ i <= Len(s) + k
    <3>1. PICK m \in Int : m = i - Len(r) /\ m \in 1 .. k - 1
      <4>1. i - Len(r) \in Int /\ 1 <= i - Len(r) /\ i - Len(r) <= k - 1
        BY <2>0, <2>5
      <4> QED
        BY <2>0, <4>1
    <3>2. (Planned(i))' = t[m]
      BY <1>4, <2>0, <2>2, <2>5, <3>1
    <3>3. Moved(i) = i - 1 /\ ~(i - 1 <= Len(s)) /\ (i - 1) - Len(s) = m
      BY <2>0, <2>5, <3>1
    <3> QED
      BY <2>1, <3>2, <3>3
  <2>6. CASE i > Len(s) + k
    <3>1. PICK m \in Int : m = i - Len(r) /\ m \in k .. Len(t) - 1
      <4>1. i - Len(r) \in Int /\ k <= i - Len(r) /\ i - Len(r) <= Len(t) - 1
        BY <2>0, <2>6
      <4> QED
        BY <2>0, <4>1
    <3>2. (Planned(i))' = t[m + 1]
      <4>1. ~(i <= Len(r)) /\ i - Len(r) = m
        BY <2>0, <2>6, <3>1
      <4>2. (Planned(i))' = u[m]
        BY <2>2, <4>1
      <4> QED
        BY <1>4, <3>1, <4>2
    <3>3. Moved(i) = i /\ ~(i <= Len(s)) /\ i - Len(s) = m + 1
      BY <2>0, <2>6, <3>1
    <3> QED
      BY <2>1, <3>2, <3>3
  <2> QED
    BY <1>2, <2>3, <2>4, <2>5, <2>6
<1>8. \A i \in 1 .. n : Asked(i)' = Asked(i)
  BY DEF Asked, AsksForAll
<1>9. Number' = Number
  BY DEF Number, AsksForAll
<1> HIDE DEF Moved
<1>10. q \in Orders(n)
  BY <1>3, <1>6 DEF Orders
<1>11. \A i \in 1 .. n : (Planned(i))' = SizeT(Asked(q[i])') /\ (~random' => q[i] = i)
  BY <1>3, <1>6, <1>7, <1>8 DEF Orders
<1> HIDE DEF q
<1> QED
  BY <1>1, <1>4, <1>5, <1>9, <1>10, <1>11 DEF InPlan

LEMMA StartInPlan ==
    ASSUME TypeOK, added = << >>, Start, pc' = "replay"
    PROVE  InPlan' /\ todo' \in Seq(Index)
<1>1. /\ Number \in Nat /\ todo' = [k \in 1 .. Number |-> SizeT(Asked(k))]
      /\ UNCHANGED <<file, asked, random, added>>
  BY StartPlans
<1>2. PICK n \in Nat : n = Number /\ Number' = n /\ \A i \in 1 .. n : Asked(i)' = Asked(i)
  BY <1>1 DEF Number, Asked, AsksForAll
<1>3. \A i \in 1 .. n : SizeT(Asked(i)) \in Index
  BY <1>2, IndexFacts DEF Index
<1>4. todo' \in Seq(Index) /\ Len(todo') = n /\ \A i \in 1 .. n : todo'[i] = SizeT(Asked(i))
  BY <1>1, <1>2, <1>3
<1>5. Len(added') = 0
  BY <1>1
<1> DEFINE p == [i \in 1 .. n |-> i]
<1>6. p \in Orders(n)
  BY DEF Orders
<1>7. \A i \in 1 .. n : (Planned(i))' = SizeT(Asked(p[i])') /\ p[i] = i
  BY <1>2, <1>4, <1>5 DEF Planned
<1> HIDE DEF p
<1> QED
  BY <1>2, <1>4, <1>5, <1>6, <1>7 DEF InPlan

LEMMA SamePlan ==
    ASSUME UNCHANGED <<file, asked, random, todo, added>>
    PROVE  /\ TypeOK /\ pc' \in {"start", "replay", "done", "threw"} => TypeOK'
           /\ InPlan' <=> InPlan
           /\ AllInFile' <=> AllInFile
           /\ \A i : /\ InFile(added[i])' <=> InFile(added[i])
                     /\ InFile(Asked(i))' <=> InFile(Asked(i))
<1>1. Number' = Number /\ Size(file)' = Size(file) /\ \A i : Asked(i)' = Asked(i)
  BY DEF Number, Asked, AsksForAll
<1>2. InPlan' <=> InPlan
  BY <1>1 DEF InPlan, Planned
<1>3. AllInFile' <=> AllInFile
  BY <1>1 DEF AllInFile
<1>4. \A i : InFile(added[i])' <=> InFile(added[i])
  BY <1>1 DEF InFile
<1>5. \A i : InFile(Asked(i))' <=> InFile(Asked(i))
  BY <1>1 DEF InFile
<1> QED
  BY <1>2, <1>3, <1>4, <1>5 DEF TypeOK

(***************************************************************************)
(* Each event that remains is one of those asked for, without RANDOM the   *)
(* one whose turn it is.                                                   *)
(***************************************************************************)
LEMMA TodoAsked ==
    ASSUME TypeOK, InPlan, NEW k \in DOMAIN todo
    PROVE  \E j \in 1 .. Number : /\ todo[k] = SizeT(Asked(j))
                                  /\ ~random => j = Len(added) + k
<1>1. PICK s \in Seq(Index), t \in Seq(Index), n \in Nat :
         s = added /\ t = todo /\ n = Number /\ n = Len(s) + Len(t)
  BY DEF TypeOK, Index, InPlan
<1>2. PICK p \in Orders(n) : \A i \in 1 .. n : /\ Planned(i) = SizeT(Asked(p[i]))
                                               /\ ~random => p[i] = i
  BY <1>1 DEF InPlan
<1>3. k \in Int /\ 1 <= k /\ k <= Len(t) /\ Len(s) \in Nat /\ Len(t) \in Nat
  BY <1>1
<1>4. PICK i \in 1 .. n : i = Len(s) + k /\ ~(i <= Len(s)) /\ i - Len(s) = k
  BY <1>1, <1>3
<1>5. Planned(i) = todo[k]
  BY <1>1, <1>4 DEF Planned
<1>6. p[i] \in 1 .. n
  BY DEF Orders
<1> QED
  BY <1>1, <1>2, <1>4, <1>5, <1>6

LEMMA PlanStep == TypeOK /\ PlanInv /\ [Next]_vars => TypeOK' /\ PlanInv'
<1> SUFFICES ASSUME TypeOK, PlanInv, [Next]_vars PROVE TypeOK' /\ PlanInv'
  OBVIOUS
<1>1. CASE Start
  <2>1. pc = "start" /\ todo = << >> /\ added = << >>
    BY <1>1 DEF Start, PlanInv
  <2>2. CASE pc' = "replay"
    <3>1. InPlan' /\ todo' \in Seq(Index) /\ UNCHANGED <<file, asked, random, added>>
      BY <1>1, <2>1, <2>2, StartInPlan, StartPlans
    <3>2. TypeOK'
      BY <2>2, <3>1 DEF TypeOK, Index
    <3>3. added' = << >>
      BY <2>1, <3>1
    <3> QED
      BY <2>2, <3>1, <3>2, <3>3 DEF PlanInv
  <2>3. CASE pc' # "replay"
    <3>1. ~AllInFile /\ pc' = "threw" /\ UNCHANGED <<file, asked, random, todo, added>>
      BY <1>1, <2>3, StartThrows
    <3> QED
      BY <2>1, <3>1, SamePlan DEF PlanInv
  <2> QED
    BY <2>2, <2>3
<1>2. CASE Add
  <2>1. pc = "replay" /\ InPlan
    BY <1>2 DEF Add, PlanInv
  <2>2. PICK k \in DOMAIN todo :
           /\ random \/ k = 1
           /\ \/ /\ ~GetThrows(file, todo[k], 1)
                 /\ added' = Append(added, todo[k])
                 /\ Taken(k)
                 /\ UNCHANGED <<file, asked, random, pc>>
              \/ GetThrows(file, todo[k], 1) /\ Throw
    BY <1>2 DEF Add
  <2>3. PICK j \in 1 .. Number : /\ todo[k] = SizeT(Asked(j))
                                 /\ ~random => j = Len(added) + k
    BY <2>1, TodoAsked
  <2>4. CASE /\ ~GetThrows(file, todo[k], 1)
             /\ added' = Append(added, todo[k])
             /\ Taken(k)
             /\ UNCHANGED <<file, asked, random, pc>>
    <3>1. InPlan' /\ added' \in Seq(Index) /\ todo' \in Seq(Index)
      BY <2>1, <2>2, <2>4, AddMoves
    <3>2. TypeOK'
      BY <2>4, <3>1 DEF TypeOK, Index
    <3>3. InFile(todo[k])
      BY <2>3, <2>4, IndexFacts
    <3>4. \A i \in DOMAIN added' : InFile(added'[i])
      <4>1. PICK s \in Seq(Index), e \in Index : s = added /\ e = todo[k]
        <5>1. added \in Seq(Index) /\ todo \in Seq(Index)
          BY DEF TypeOK, Index
        <5>2. todo[k] \in Index
          BY <5>1
        <5> QED
          BY <5>1, <5>2
      <4>2. \A i \in DOMAIN Append(s, e) : \/ Append(s, e)[i] = e
                                           \/ i \in DOMAIN s /\ Append(s, e)[i] = s[i]
        OBVIOUS
      <4> QED
        BY <2>4, <3>3, <4>1, <4>2 DEF PlanInv
    <3>5. \A i \in DOMAIN added' : InFile(added[i])'
      BY <2>4, <3>4 DEF InFile
    <3> QED
      BY <2>1, <2>4, <3>1, <3>2, <3>5 DEF PlanInv
  <2>5. CASE GetThrows(file, todo[k], 1) /\ Throw
    <3>1. pc' = "threw" /\ UNCHANGED <<file, asked, random, todo, added>>
      BY <2>5 DEF Throw
    <3>2. ~InFile(Asked(j))
      BY <2>3, <2>5, IndexFacts
    <3>3. ~AllInFile
      BY <3>2 DEF AllInFile, InFile
    <3>4. ~random => ~InFile(Asked(Len(added) + 1))
      BY <2>2, <2>3, <3>2
    <3> QED
      BY <2>1, <3>1, <3>3, <3>4, SamePlan DEF PlanInv
  <2> QED
    BY <2>2, <2>4, <2>5
<1>3. CASE Return
  BY <1>3, SamePlan DEF Return, PlanInv
<1>4. CASE UNCHANGED vars
  BY <1>4, SamePlan DEF vars, PlanInv, TypeOK
<1> QED
  BY <1>1, <1>2, <1>3, <1>4 DEF Next, Done

LEMMA PlanHolds == Spec => [](TypeOK /\ PlanInv)
<1>1. Init => TypeOK /\ PlanInv
  BY DEF Init, TypeOK, PlanInv
<1> QED
  BY <1>1, PlanStep, PTL DEF Spec

---------------------------------------------------------------------------
(***************************************************************************)
(* Counting.  The order of the plan takes the places at which an event was *)
(* replayed to places at which it was asked for, different ones to         *)
(* different ones.                                                         *)
(***************************************************************************)
LEMMA AddedAsked ==
    ASSUME TypeOK, PlanInv, InPlan
    PROVE  \E p \in Orders(Number) : \A i \in DOMAIN added :
              /\ i \in 1 .. Number /\ added[i] = Asked(p[i])
              /\ ~random => p[i] = i
<1>1. PICK p \in Orders(Number) : \A i \in 1 .. Number : /\ Planned(i) = SizeT(Asked(p[i]))
                                                         /\ ~random => p[i] = i
  BY DEF InPlan
<1>2. ASSUME NEW i \in DOMAIN added
      PROVE  i \in 1 .. Number /\ added[i] = Asked(p[i]) /\ (~random => p[i] = i)
  <2>1. added \in Seq(Index) /\ todo \in Seq(Index) /\ Number = Len(added) + Len(todo)
    BY DEF TypeOK, Index, InPlan
  <2>2. i \in 1 .. Number /\ i <= Len(added)
    BY <1>2, <2>1
  <2>3. added[i] = SizeT(Asked(p[i])) /\ (~random => p[i] = i) /\ InFile(added[i])
    BY <1>1, <1>2, <2>2 DEF Planned, PlanInv
  <2>4. p[i] \in 1 .. Number
    BY <2>2 DEF Orders
  <2> QED
    BY <2>2, <2>3, <2>4, IndexFacts
<1> QED
  BY <1>1, <1>2

LEMMA CountedAsked ==
    ASSUME TypeOK, PlanInv, InPlan, NEW event
    PROVE  Cardinality(AddedAt(event)) <= Cardinality(AskedAt(event))
<1>1. PICK p \in Orders(Number) : \A i \in DOMAIN added :
         i \in 1 .. Number /\ added[i] = Asked(p[i])
  BY AddedAsked
<1>2. PICK S, T : S = AddedAt(event) /\ T = AskedAt(event)
  OBVIOUS
<1>3. \A i \in S : i \in 1 .. Number /\ p[i] \in T
  BY <1>1, <1>2 DEF AddedAt, AskedAt, Orders
<1> DEFINE f == [i \in S |-> p[i]]
<1>4. f \in Injection(S, T)
  BY <1>3 DEF Injection, IsInjective, Orders
<1>5. IsFiniteSet(T)
  <2>1. Number \in Int
    BY DEF TypeOK, InPlan
  <2>2. IsFiniteSet(1 .. Number)
    BY <2>1, FS_Interval
  <2>3. T \in SUBSET (1 .. Number)
    BY <1>2 DEF AskedAt
  <2> QED
    BY <2>2, <2>3, FS_Subset
<1> HIDE DEF f
<1>6. Cardinality(S) <= Cardinality(T)
  BY <1>4, <1>5, FS_Injection
<1> QED
  BY <1>2, <1>6

---------------------------------------------------------------------------
(***************************************************************************)
(* The indexes and arguments of a replay keep their types.                 *)
(***************************************************************************)
THEOREM ReplayTypeCorrect == Spec => []TypeOK
<1> QED
  BY PlanHolds, PTL

(***************************************************************************)
(* No event outside the file is replayed and none more often than it was   *)
(* asked for, for every file and all arguments, however they wrap.         *)
(***************************************************************************)
THEOREM NoneTooOften == Spec => []OnlyAsked
<1>1. TypeOK /\ PlanInv => OnlyAsked
  <2> SUFFICES ASSUME TypeOK, PlanInv, NEW event \in Range(added)
               PROVE  /\ event \in 0 .. Size(file) - 1
                      /\ Cardinality(AddedAt(event)) <= Cardinality(AskedAt(event))
    BY DEF OnlyAsked
  <2>1. PICK i \in DOMAIN added : event = added[i]
    BY DEF Range
  <2>2. event \in 0 .. Size(file) - 1
    BY <2>1 DEF PlanInv, InFile
  <2>3. InPlan
    BY <2>1 DEF PlanInv
  <2> QED
    BY <2>2, <2>3, CountedAsked
<1> QED
  BY <1>1, PlanHolds, PTL

(***************************************************************************)
(* A replay that ends has replayed as many events as were asked for;       *)
(* without RANDOM they came in order, and a failure is that of the event   *)
(* whose turn it was.                                                      *)
(***************************************************************************)
THEOREM ReplayInOrder == Spec => []AsAsked
<1>1. TypeOK /\ PlanInv => AsAsked
  <2> SUFFICES ASSUME TypeOK, PlanInv PROVE AsAsked
    OBVIOUS
  <2>1. pc = "done" => Len(added) = Number
    <3> SUFFICES ASSUME pc = "done" PROVE Len(added) = Number
      OBVIOUS
    <3>1. InPlan /\ todo = << >> /\ added \in Seq(Index)
      BY DEF PlanInv, TypeOK, Index
    <3> QED
      BY <3>1 DEF InPlan
  <2>2. ~random => \A i \in DOMAIN added : added[i] = Asked(i)
    <3>1. CASE InPlan
      BY <3>1, AddedAsked
    <3>2. CASE added = << >>
      BY <3>2
    <3> QED
      BY <3>1, <3>2 DEF PlanInv
  <2> QED
    BY <2>1, <2>2 DEF AsAsked, PlanInv, InFile
<1> QED
  BY <1>1, PlanHolds, PTL

(***************************************************************************)
(* A replay of events that are all in the file, one at least, does not     *)
(* throw.                                                                  *)
(***************************************************************************)
THEOREM LegalReplayCompletes == Spec => []LegalReplayRuns
<1>1. PlanInv => LegalReplayRuns
  BY DEF PlanInv, LegalReplayRuns
<1> QED
  BY <1>1, PlanHolds, PTL

(***************************************************************************)
(* A range of events and each of them on its own.                          *)
(***************************************************************************)
LEMMA OneByOne ==
    ASSUME TypeOK, NEW first \in 0 .. SizeWord - 1, NEW number \in 1 .. Square - 1
    PROVE  GetThrows(file, first, number) <=>
             \E event \in Range(Indexes(number, first, 1)) : GetThrows(file, event, 1)
<1>1. PICK size \in 0 .. Square - 1 : size = Size(file)
  BY ArgumentFacts
<1>2. PICK s \in Nat : s = Square /\ SizeWord = 16 * s
  BY WordFacts
<1>3. first \in Nat /\ number \in Nat /\ 1 <= number /\ number < s /\ size \in Nat /\ size < s
  BY <1>1, <1>2
<1> DEFINE event(k) == SizeT(first + (k - 1))
<1>4. /\ DOMAIN Indexes(number, first, 1) = 1 .. number
      /\ \A k \in 1 .. number : Indexes(number, first, 1)[k] = event(k)
  BY <1>3 DEF Indexes
<1>5. (\E e \in Range(Indexes(number, first, 1)) : GetThrows(file, e, 1))
        <=> \E k \in 1 .. number : GetThrows(file, event(k), 1)
  BY <1>4 DEF Range
<1>6. CASE first >= size
  <2>1. event(1) = first
    <3>1. (SizeWord * 0 + first) % SizeWord = first
      BY <1>2, <1>3, Remainder
    <3>2. SizeWord * 0 + first = first /\ first + (1 - 1) = first
      BY <1>2, <1>3
    <3> QED
      BY <3>1, <3>2 DEF SizeT
  <2>2. GetThrows(file, first, number) /\ GetThrows(file, event(1), 1)
    BY <1>1, <1>6, <2>1 DEF GetThrows
  <2> QED
    BY <1>3, <1>5, <2>2
<1>7. CASE first < size
  <2>1. ASSUME NEW n \in Nat, n <= number PROVE SizeT(first + n) = first + n
    <3>1. first + n \in Int /\ -(8 * Square) <= first + n /\ first + n < 8 * Square
          /\ first + n >= 0
      BY <1>2, <1>3, <1>7, <2>1
    <3> QED
      BY <3>1, Wrapped
  <2>2. GetThrows(file, first, number) <=> first + number > size
    <3>1. SizeT(first + number) = first + number
      BY <1>3, <2>1
    <3> QED
      BY <1>1, <1>3, <1>7, <3>1 DEF GetThrows
  <2>3. ASSUME NEW k \in 1 .. number
        PROVE  GetThrows(file, event(k), 1) <=> first + k > size
    <3>1. k - 1 \in Nat /\ k - 1 <= number /\ k \in Nat /\ k <= number
      BY <1>3, <2>3
    <3>2. event(k) = first + (k - 1) /\ SizeT(first + k) = first + k
      BY <2>1, <3>1
    <3>3. first + (k - 1) + 1 = first + k
      BY <1>3, <3>1
    <3>4. GetThrows(file, event(k), 1) <=> first + (k - 1) >= size \/ first + k > size
      BY <1>1, <3>2, <3>3 DEF GetThrows
    <3> HIDE DEF event
    <3> QED
      BY <1>1, <1>3, <3>1, <3>4
  <2>4. (\E k \in 1 .. number : first + k > size) <=> first + number > size
    BY <1>3
  <2> HIDE DEF event
  <2> QED
    BY <1>5, <2>2, <2>3, <2>4
<1> QED
  BY <1>3, <1>6, <1>7

(***************************************************************************)
(* Events that follow one another may be read at once or on their own: the *)
(* same replays are refused (replay.cpp:26-71), for every file and all     *)
(* arguments.                                                              *)
(***************************************************************************)
THEOREM ReadingWaysAgree == Spec => []WaysAgree
<1>1. TypeOK => WaysAgree
  <2> SUFFICES ASSUME TypeOK, Loaded > 0, ~VectorThrows(Loaded)
               PROVE  GetThrows(file, First, Loaded) <=>
                        \E event \in Range(Indexes(Loaded, First, 1)) : GetThrows(file, event, 1)
    BY DEF WaysAgree
  <2>1. Loaded \in Int /\ First \in 0 .. SizeWord - 1
    <3>1. \A n \in Int : SizeT(n) \in 0 .. SizeWord - 1
      BY WordFacts, Division DEF SizeT
    <3>2. asked.count \in Int /\ asked.first \in Int
      BY ArgumentFacts DEF Ints
    <3> QED
      BY <3>1, <3>2, ArgumentFacts, WordFacts DEF Loaded, First
  <2>2. Loaded \in 1 .. Square - 1
    BY <2>1, WordFacts DEF VectorThrows
  <2> QED
    BY <2>1, <2>2, OneByOne
<1> QED
  BY <1>1, PlanHolds, PTL

---------------------------------------------------------------------------
(***************************************************************************)
(* The buffer of a replay.  A datagram that is sent and one that is begun  *)
(* change neither what is carried nor its order; neither does room made    *)
(* for one more record.                                                    *)
(***************************************************************************)
ReplayBuffers == Buffers({0}, Records)

LEMMA BufferParts ==
    ASSUME NEW x \in ReplayBuffers
    PROVE  /\ x.wire \in Seq(Packets({0}, Records)) /\ x.packet \in Packets({0}, Records)
           /\ x.packet.body \in Seq(Records) /\ x.packet.length \in Nat
           /\ x.dataSize \in Nat
           /\ \A i \in DOMAIN x.wire : x.wire[i].body \in Seq(Records)
<1>1. /\ x.wire \in Seq(Packets({0}, Records)) /\ x.packet \in Packets({0}, Records)
      /\ x.dataSize \in Nat
  BY DEF ReplayBuffers, Buffers
<1>2. \A p \in Packets({0}, Records) : p.body \in Seq(Records) /\ p.length \in Nat
  BY DEF Packets
<1>3. \A i \in DOMAIN x.wire : x.wire[i] \in Packets({0}, Records)
  BY <1>1
<1> QED
  BY <1>1, <1>2, <1>3

LEMMA CarriedParts ==
    ASSUME NEW x
    PROVE  Carried(PacketsOf(x)) = Carried(Range(x.wire)) \cup Range(x.packet.body)
  BY DEF Carried, PacketsOf

LEMMA RangeIsThere == ASSUME NEW s, NEW i \in DOMAIN s PROVE s[i] \in Range(s)
  BY DEF Range

LEMMA EmptyRange == Range(<< >>) = {}
  BY DEF Range

LEMMA SameContents ==
    ASSUME NEW x, NEW y, y.wire = x.wire, y.packet.body = x.packet.body
    PROVE  /\ Carried(PacketsOf(y)) = Carried(PacketsOf(x))
           /\ OrderKept(x) => OrderKept(y)
  BY CarriedParts DEF OrderKept, PacketsOf

LEMMA NextContents ==
    ASSUME NEW x \in ReplayBuffers, OrderKept(x), NEW y,
           y.wire = Append(x.wire, x.packet), y.packet.body = << >>
    PROVE  /\ Carried(PacketsOf(y)) = Carried(PacketsOf(x))
           /\ OrderKept(y)
<1> PICK wire \in Seq(Packets({0}, Records)), p \in Packets({0}, Records) :
       wire = x.wire /\ p = x.packet
  BY BufferParts
<1>1. Range(y.wire) = Range(wire) \cup {p}
  BY RangeOfAppend
<1>2. Carried(PacketsOf(y)) = Carried(PacketsOf(x))
  BY <1>1, EmptyRange DEF Carried, PacketsOf
<1>3. ASSUME NEW q \in PacketsOf(y) PROVE OrderWithin(q.body)
  <2>1. CASE q \in PacketsOf(x)
    BY <2>1 DEF OrderKept
  <2>2. CASE q = y.packet
    BY <2>2 DEF OrderWithin
  <2> QED
    BY <1>1, <2>1, <2>2 DEF PacketsOf
<1>4. DOMAIN y.wire = 1 .. Len(wire) + 1 /\ Len(wire) \in Nat
  BY DEF Range
<1>5. \A i \in 1 .. Len(wire) : y.wire[i] = wire[i]
  OBVIOUS
<1>6. y.wire[Len(wire) + 1] = p
  OBVIOUS
<1>7. ASSUME NEW i \in DOMAIN y.wire, NEW j \in DOMAIN y.wire, i < j
      PROVE  AllBefore(y.wire[i].body, y.wire[j].body)
  <2>1. i \in 1 .. Len(wire) /\ y.wire[i] = wire[i]
    BY <1>4, <1>5, <1>7
  <2>2. CASE j \in 1 .. Len(wire)
    BY <1>5, <1>7, <2>1, <2>2 DEF OrderKept
  <2>3. CASE j = Len(wire) + 1
    BY <1>6, <2>1, <2>3 DEF OrderKept
  <2> QED
    BY <1>4, <2>2, <2>3
<1>8. \A i \in DOMAIN y.wire : AllBefore(y.wire[i].body, y.packet.body)
  BY EmptyRange DEF AllBefore
<1> QED
  BY <1>2, <1>3, <1>7, <1>8 DEF OrderKept

(***************************************************************************)
(* A record after all others goes to the end.                              *)
(***************************************************************************)
LEMMA OneMore ==
    ASSUME NEW x \in ReplayBuffers, OrderKept(x), NEW r \in Records, NEW y,
           \A q \in Carried(PacketsOf(x)) : Before(q, r),
           y.wire = x.wire, y.packet.body = Append(x.packet.body, r)
    PROVE  /\ Carried(PacketsOf(y)) = Carried(PacketsOf(x)) \cup {r}
           /\ OrderKept(y)
<1> PICK body \in Seq(Records) : body = x.packet.body
  BY BufferParts
<1>1. Range(y.packet.body) = Range(body) \cup {r}
  BY RangeOfAppend
<1>2. Carried(PacketsOf(y)) = Carried(PacketsOf(x)) \cup {r}
  BY <1>1, CarriedParts
<1>3. \A q \in Range(body) : Before(q, r)
  BY CarriedParts
<1>4. OrderWithin(y.packet.body)
  <2> SUFFICES ASSUME NEW j \in 1 .. Len(body) + 1, NEW k \in 1 .. Len(body) + 1, j < k
               PROVE  Before(Append(body, r)[j], Append(body, r)[k])
    BY DEF OrderWithin
  <2>1. j \in DOMAIN body /\ Append(body, r)[j] = body[j]
    OBVIOUS
  <2>2. CASE k \in 1 .. Len(body)
    <3>1. OrderWithin(body)
      BY DEF OrderKept, PacketsOf
    <3> QED
      BY <2>1, <2>2, <3>1 DEF OrderWithin
  <2>3. CASE k = Len(body) + 1
    BY <1>3, <2>1, <2>3, RangeIsThere
  <2> QED
    BY <2>2, <2>3
<1>5. \A q \in PacketsOf(y) : OrderWithin(q.body)
  BY <1>4 DEF PacketsOf, OrderKept
<1>6. ASSUME NEW i \in DOMAIN x.wire PROVE AllBefore(x.wire[i].body, y.packet.body)
  <2>1. AllBefore(x.wire[i].body, body)
    BY DEF OrderKept
  <2>2. Range(x.wire[i].body) \subseteq Carried(PacketsOf(x))
    BY RangeIsThere DEF Carried, PacketsOf
  <2> QED
    BY <1>1, <2>1, <2>2 DEF AllBefore
<1> QED
  BY <1>2, <1>5, <1>6 DEF OrderKept

---------------------------------------------------------------------------
(***************************************************************************)
(* The size of packets.  A packet without records is not full, so that     *)
(* making room sends none such.                                            *)
(***************************************************************************)
Fits(x) == /\ Enabled(x)
           /\ x.dataSize = x.packet.length
           /\ x.packet.body = << >> => x.dataSize = HeaderSize
           /\ \A p \in PacketsOf(x) : p.length <= BufferSize

Filled(x) == \A i \in DOMAIN x.wire : x.wire[i].body # << >>

LEMMA HeaderFits == /\ HeaderSize \in Nat /\ HeaderSize < MaxDataSize
                    /\ MaxDataSize \in Nat /\ BufferSize \in Nat
                    /\ HeaderSize <= BufferSize
<1>1. "CAEN" \in Packable
  BY DEF Packable
<1>2. RecordSize("CAEN") \in Nat
  BY <1>1, RecordSizeNat
<1>3. MaxDataSize - 1 + RecordSize("CAEN") <= BufferSize
  BY <1>1, BufferAssumption
<1>4. HeaderSize \in Nat
  BY DEF HeaderSize
<1> QED
  BY <1>2, <1>3, <1>4, BufferAssumption

LEMMA SentReplay ==
    ASSUME NEW x \in ReplayBuffers, Fits(x), OrderKept(x)
    PROVE  LET y == SendPacket(x)
           IN  /\ y \in ReplayBuffers /\ Fits(y) /\ OrderKept(y)
               /\ Carried(PacketsOf(y)) = Carried(PacketsOf(x))
               /\ y.wire = Append(x.wire, x.packet)
               /\ y.packet.body = << >> /\ y.dataSize = HeaderSize
<1> DEFINE y == SendPacket(x)
<1>1. y \in ReplayBuffers
  BY SendPacketType DEF ReplayBuffers
<1>2. /\ y.network = x.network
      /\ y.wire = Append(x.wire, x.packet) /\ y.dataSize = HeaderSize
      /\ y.packet.body = << >> /\ y.packet.length = HeaderSize
  <2>1. x \in Buffers({0}, Records) /\ Enabled(x)
    BY DEF ReplayBuffers, Fits
  <2>2. /\ y.network = x.network
        /\ y.packet = [seq |-> x.seqNum, pulse |-> x.pulse, prev |-> x.prev,
                       length |-> HeaderSize, body |-> << >>]
        /\ y.wire = Append(x.wire, x.packet) /\ y.dataSize = HeaderSize
    BY <2>1, SendPacketFacts
  <2> HIDE DEF y
  <2> QED
    BY <2>2
<1> HIDE DEF y
<1>3. OrderKept(y) /\ Carried(PacketsOf(y)) = Carried(PacketsOf(x))
  BY <1>2, NextContents
<1>4. Range(y.wire) = Range(x.wire) \cup {x.packet}
  BY <1>2, BufferParts, RangeOfAppend
<1>5. Fits(y)
  BY <1>2, <1>4, HeaderFits DEF Fits, Enabled, PacketsOf
<1> QED
  BY <1>1, <1>2, <1>3, <1>5 DEF y

LEMMA RoomReplay ==
    ASSUME NEW x \in ReplayBuffers, Fits(x), OrderKept(x), Filled(x)
    PROVE  LET y == CheckSizeAndSend(x)
           IN  /\ y \in ReplayBuffers /\ Fits(y) /\ OrderKept(y) /\ Filled(y)
               /\ Carried(PacketsOf(y)) = Carried(PacketsOf(x))
               /\ y.dataSize < MaxDataSize
<1>1. CASE ~Full(x)
  <2>1. CheckSizeAndSend(x) = x
    BY <1>1 DEF CheckSizeAndSend
  <2>2. x.dataSize < MaxDataSize
    BY <1>1, BufferParts, HeaderFits DEF Full
  <2> QED
    BY <2>1, <2>2
<1>2. CASE Full(x)
  <2> DEFINE s == SendPacket(x)
             y == CheckSizeAndSend(x)
  <2>1. /\ s \in ReplayBuffers /\ Fits(s) /\ OrderKept(s)
        /\ Carried(PacketsOf(s)) = Carried(PacketsOf(x))
        /\ s.wire = Append(x.wire, x.packet) /\ s.packet.body = << >>
    BY SentReplay
  <2>2. y = NewPacket(s)
    BY <1>2 DEF CheckSizeAndSend
  <2> HIDE DEF s, y
  <2>3. y \in ReplayBuffers
    BY <2>1, <2>2, NewPacketType DEF ReplayBuffers
  <2>4. /\ y.wire = s.wire /\ y.network = s.network /\ y.dataSize = HeaderSize
        /\ y.packet.body = << >> /\ y.packet.length = HeaderSize
    <3>1. s \in Buffers({0}, Records)
      BY <2>1 DEF ReplayBuffers
    <3>2. /\ y.wire = s.wire /\ y.network = s.network /\ y.dataSize = HeaderSize
          /\ y.packet = [seq |-> s.seqNum, pulse |-> s.pulse, prev |-> s.prev,
                         length |-> HeaderSize, body |-> << >>]
      BY <2>2, <3>1, NewPacketFacts
    <3> QED
      BY <3>2
  <2>5. OrderKept(y) /\ Carried(PacketsOf(y)) = Carried(PacketsOf(x))
    BY <2>1, <2>4, SameContents
  <2>6. Fits(y)
    BY <2>1, <2>4, HeaderFits DEF Fits, Enabled, PacketsOf
  <2>7. x.packet.body # << >>
    BY <1>2, BufferParts, HeaderFits DEF Full, Fits
  <2>8. Filled(y)
    <3>1. PICK wire \in Seq(Packets({0}, Records)), p \in Packets({0}, Records) :
             wire = x.wire /\ p = x.packet
      BY BufferParts
    <3>2. \A i \in 1 .. Len(wire) + 1 : Append(wire, p)[i] = p \/
             (i \in DOMAIN wire /\ Append(wire, p)[i] = wire[i])
      BY <3>1
    <3>3. DOMAIN Append(wire, p) = 1 .. Len(wire) + 1
      BY <3>1
    <3> QED
      BY <2>1, <2>4, <2>7, <3>1, <3>2, <3>3 DEF Filled
  <2> QED
    BY <2>3, <2>4, <2>5, <2>6, <2>8, HeaderFits DEF y
<1> QED
  BY <1>1, <1>2

LEMMA PutReplay ==
    ASSUME NEW x \in ReplayBuffers, Fits(x), OrderKept(x), Filled(x),
           NEW type \in Packable, NEW r \in Records,
           \A q \in Carried(PacketsOf(x)) : Before(q, r)
    PROVE  LET y == PutReadout(x, type, r)
           IN  /\ y \in ReplayBuffers /\ Fits(y) /\ OrderKept(y) /\ Filled(y)
               /\ Carried(PacketsOf(y)) = Carried(PacketsOf(x)) \cup {r}
<1> DEFINE room == CheckSizeAndSend(x)
           y == PutReadout(x, type, r)
           size == room.dataSize + RecordSize(type)
<1>1. /\ room \in ReplayBuffers /\ Fits(room) /\ OrderKept(room) /\ Filled(room)
      /\ Carried(PacketsOf(room)) = Carried(PacketsOf(x))
      /\ room.dataSize < MaxDataSize
  BY RoomReplay
<1>2. y \in ReplayBuffers
  BY PutReadoutType DEF ReplayBuffers
<1>3. /\ y.network = x.network /\ y.wire = room.wire /\ y.dataSize = size
      /\ y.packet = Written(room.packet, r, size)
  BY PutReadoutFacts DEF ReplayBuffers
<1> HIDE DEF room, y
<1>4. y.packet.body = Append(room.packet.body, r) /\ y.packet.length = size
  BY <1>1, <1>3, BufferParts DEF Written, Packets
<1>5. OrderKept(y) /\ Carried(PacketsOf(y)) = Carried(PacketsOf(x)) \cup {r}
  BY <1>1, <1>3, <1>4, OneMore
<1>6. size <= BufferSize
  <2>1. MaxDataSize - 1 + RecordSize(type) <= BufferSize /\ RecordSize(type) \in Nat
    BY RecordSizeNat, BufferAssumption
  <2>2. room.dataSize \in Nat
    BY <1>1, BufferParts
  <2> QED
    BY <1>1, <2>1, <2>2, HeaderFits
<1>7. y.packet.body # << >>
  BY <1>1, <1>4, BufferParts
<1>8. Fits(y)
  BY <1>1, <1>3, <1>4, <1>6, <1>7 DEF Fits, Enabled, PacketsOf
<1>9. Filled(y)
  BY <1>1, <1>3 DEF Filled
<1> QED
  BY <1>2, <1>5, <1>8, <1>9 DEF y

---------------------------------------------------------------------------
(***************************************************************************)
(* The replay on the network.  Only the calls of module Replay change its  *)
(* variables, so that what is shown of Spec holds of WireSpec.             *)
(***************************************************************************)
LEMMA WireIsPlan == [WireNext]_wireVars => [Next]_vars
  BY DEF WireNext, WireStart, WireAdd, PackCopy, EndCopies, WireReturn, WireDone,
         wireVars, Next

LEMMA WirePlanHolds == WireSpec => [](TypeOK /\ PlanInv)
<1>1. WireInit => TypeOK /\ PlanInv
  BY DEF WireInit, Init, TypeOK, PlanInv
<1> QED
  BY <1>1, WireIsPlan, PlanStep, PTL DEF WireSpec

(***************************************************************************)
(* The invariant: what is packed is what is carried, no packet outgrows    *)
(* the buffer, and an event is packed while it is the last one added.      *)
(***************************************************************************)
NoneEmpty(x) == \A i \in 1 .. Len(x.wire) - 1 : x.wire[i].body # << >>

CarriesInv(x) == Fits(x) /\ OrderKept(x) /\ Carried(PacketsOf(x)) = PackedCopies

WireInv ==
    /\ CarriesInv(tx)
    /\ pc \in {"start", "replay"} => Filled(tx)
    /\ NoneEmpty(tx)
    /\ pc = "replay" => ~ReaderThrows(file)
    /\ packing => pc = "replay" /\ Len(copies) > 0 /\ Size(file) > 0
    /\ pc = "done" => tx.packet.body = << >>

LEMMA FilledEmpty ==
    ASSUME NEW x \in ReplayBuffers, Filled(x) PROVE NoneEmpty(x)
<1>1. x.wire \in Seq(Packets({0}, Records))
  BY BufferParts
<1>2. \A i \in 1 .. Len(x.wire) - 1 : i \in DOMAIN x.wire
  BY <1>1
<1> QED
  BY <1>2 DEF Filled, NoneEmpty

LEMMA EndedReplay ==
    ASSUME NEW x \in ReplayBuffers, CarriesInv(x), Filled(x),
           NEW y, y = SendPacket(x)
    PROVE  y \in ReplayBuffers /\ CarriesInv(y) /\ NoneEmpty(y) /\ y.packet.body = << >>
<1>1. /\ y \in ReplayBuffers /\ Fits(y) /\ OrderKept(y)
      /\ Carried(PacketsOf(y)) = Carried(PacketsOf(x))
      /\ y.wire = Append(x.wire, x.packet) /\ y.packet.body = << >>
  BY SentReplay DEF CarriesInv
<1>2. PICK wire \in Seq(Packets({0}, Records)), p \in Packets({0}, Records) :
         wire = x.wire /\ p = x.packet
  BY BufferParts
<1>3. NoneEmpty(y)
  <2>1. Len(Append(wire, p)) = Len(wire) + 1 /\ Len(wire) \in Nat
    BY <1>2
  <2>2. \A i \in 1 .. Len(wire) : i \in DOMAIN wire /\ Append(wire, p)[i] = wire[i]
    BY <1>2
  <2>3. (Len(wire) + 1) - 1 = Len(wire)
    BY <2>1
  <2> QED
    BY <1>1, <1>2, <2>1, <2>2, <2>3 DEF NoneEmpty, Filled
<1> QED
  BY <1>1, <1>3 DEF CarriesInv

(***************************************************************************)
(* Steps that pack nothing.                                                *)
(***************************************************************************)
LEMMA NothingPacked ==
    ASSUME UNCHANGED <<added, copies>>
    PROVE  PackedCopies' = PackedCopies
  BY DEF PackedCopies, Copy

LEMMA AbandonedReplay ==
    ASSUME WireTypeOK, WireInv, pc \in {"start", "replay"}, Abandoned,
           UNCHANGED <<added, copies>>
    PROVE  tx' \in ReplayBuffers /\ CarriesInv(tx)' /\ NoneEmpty(tx)'
<1>1. PackedCopies' = PackedCopies
  BY NothingPacked
<1>2. tx \in ReplayBuffers /\ CarriesInv(tx) /\ NoneEmpty(tx) /\ Filled(tx)
  BY DEF WireTypeOK, WireInv, ReplayBuffers
<1>3. CASE tx' = tx
  BY <1>1, <1>2, <1>3 DEF CarriesInv, NoneEmpty
<1>4. CASE tx' = SendPacket(tx)
  <2>1. PICK y : y = tx'
    OBVIOUS
  <2>2. y \in ReplayBuffers /\ CarriesInv(y) /\ NoneEmpty(y)
    BY <1>2, <1>4, <2>1, EndedReplay
  <2> QED
    BY <1>1, <2>1, <2>2 DEF CarriesInv, NoneEmpty
<1> QED
  BY <1>3, <1>4 DEF Abandoned, Destroyed

(***************************************************************************)
(* An event that has just been added has no copies yet.                    *)
(***************************************************************************)
LEMMA EventAdded ==
    ASSUME WireTypeOK, NEW e \in Index, added' = Append(added, e), copies' = Append(copies, 0)
    PROVE  /\ PackedCopies' = PackedCopies
           /\ copies' \in Seq(0 .. MaxCopies + 1) /\ Len(copies') = Len(added')
           /\ Len(copies') > 0
<1> PICK c \in Seq(0 .. MaxCopies + 1), a \in Seq(Index) :
       c = copies /\ a = added /\ Len(c) = Len(a)
  BY DEF WireTypeOK, TypeOK, Index
<1>1. 0 \in 0 .. MaxCopies + 1
  BY WireAssumption
<1>2. /\ Append(c, 0) \in Seq(0 .. MaxCopies + 1)
      /\ Len(Append(c, 0)) = Len(c) + 1 /\ Len(Append(a, e)) = Len(a) + 1
      /\ Len(c) \in Nat
  BY <1>1
<1>3. \A i \in 1 .. Len(c) : Append(c, 0)[i] = c[i] /\ Append(a, e)[i] = a[i]
  OBVIOUS
<1>4. Append(c, 0)[Len(c) + 1] = 0
  OBVIOUS
<1>5. DOMAIN c = 1 .. Len(c) /\ DOMAIN copies' = 1 .. Len(c) + 1
  BY <1>2
<1> DEFINE Of(i) == {Copy(i, k) : k \in 1 .. copies[i]}
<1>6. \A i \in 1 .. Len(c) : Of(i)' = Of(i)
  BY <1>3 DEF Copy
<1>7. Of(Len(c) + 1)' = {}
  BY <1>4
<1>8. PackedCopies = UNION {Of(i) : i \in 1 .. Len(c)}
  BY <1>5 DEF PackedCopies
<1>9. PackedCopies' = UNION {Of(i)' : i \in 1 .. Len(c) + 1}
  BY <1>5 DEF PackedCopies
<1>10. 1 .. Len(c) + 1 = (1 .. Len(c)) \cup {Len(c) + 1}
  BY <1>2
<1> HIDE DEF Of
<1> QED
  BY <1>2, <1>6, <1>7, <1>8, <1>9, <1>10

LEMMA ChangedOne ==
    ASSUME NEW S, NEW s \in Seq(S), NEW i \in 1 .. Len(s), NEW e \in S
    PROVE  [s EXCEPT ![i] = e] \in Seq(S) /\ Len([s EXCEPT ![i] = e]) = Len(s)
  OBVIOUS

(***************************************************************************)
(* A copy that is packed is the last.                                      *)
(***************************************************************************)
LEMMA CopyPacked ==
    ASSUME WireTypeOK, Len(copies) > 0, NEW i, i = Len(copies),
           UNCHANGED added, copies' = [copies EXCEPT ![i] = @ + 1],
           \E n \in Repeats(added[i]) : copies[i] < n
    PROVE  LET r == Copy(i, copies[i] + 1)
           IN  /\ r \in Records
               /\ \A q \in PackedCopies : Before(q, r)
               /\ PackedCopies' = PackedCopies \cup {r}
               /\ copies' \in Seq(0 .. MaxCopies + 1) /\ Len(copies') = Len(copies)
<1> PICK c \in Seq(0 .. MaxCopies + 1), a \in Seq(Index) :
       c = copies /\ a = added /\ Len(c) = Len(a)
  BY DEF WireTypeOK, TypeOK, Index
<1>1. i \in 1 .. Len(c) /\ i \in Nat /\ a[i] \in Index /\ MaxCopies \in Nat
  BY WireAssumption
<1>2. PICK k \in 0 .. MaxCopies + 1 : k = c[i]
  BY <1>1
<1>3. k + 1 \in 0 .. MaxCopies + 1 /\ k + 1 \in Nat
  <2>1. PICK n \in Repeats(added[i]) : k < n
    BY <1>2
  <2>2. n \in {1} \cup 0 .. MaxCopies
    BY <2>1 DEF Repeats
  <2> QED
    BY <1>1, <2>1, <2>2
<1>4. Copy(i, k + 1) \in Records
  BY <1>1, <1>3 DEF Copy, Records, Index
<1>5. /\ copies' = [c EXCEPT ![i] = k + 1]
      /\ copies' \in Seq(0 .. MaxCopies + 1) /\ Len(copies') = Len(c)
  <2>1. copies' = [c EXCEPT ![i] = k + 1]
    BY <1>1, <1>2
  <2>2. PICK e \in 0 .. MaxCopies + 1 : e = k + 1
    BY <1>3
  <2>3. PICK s : s = [c EXCEPT ![i] = e]
    OBVIOUS
  <2>4. s \in Seq(0 .. MaxCopies + 1) /\ Len(s) = Len(c)
    BY <1>1, <2>3, ChangedOne
  <2> QED
    BY <2>1, <2>2, <2>3, <2>4
<1>6. \A j \in 1 .. Len(c) : copies'[j] = IF j = i THEN k + 1 ELSE c[j]
  BY <1>1, <1>5
<1>7. \A q \in PackedCopies : Before(q, Copy(i, k + 1))
  <2> SUFFICES ASSUME NEW j \in 1 .. Len(c), NEW l \in 1 .. c[j]
               PROVE  Before(Copy(j, l), Copy(i, k + 1))
    BY DEF PackedCopies
  <2>1. c[j] \in Nat /\ l \in Nat /\ j <= i /\ j \in Nat
    BY <1>1
  <2>2. CASE j < i
    BY <2>2 DEF Before, Copy
  <2>3. CASE j = i
    BY <1>2, <2>1, <2>3 DEF Before, Copy
  <2> QED
    BY <1>1, <2>1, <2>2, <2>3
<1> DEFINE Of(j) == {Copy(j, l) : l \in 1 .. copies[j]}
<1>8. \A j \in 1 .. Len(c) : j # i => Of(j)' = Of(j)
  BY <1>6 DEF Copy
<1>9. Of(i)' = Of(i) \cup {Copy(i, k + 1)}
  <2>1. copies'[i] = k + 1 /\ copies[i] = k
    BY <1>1, <1>2, <1>6
  <2>2. 1 .. k + 1 = (1 .. k) \cup {k + 1}
    BY <1>2
  <2>3. \A l : Copy(i, l)' = Copy(i, l)
    BY DEF Copy
  <2> QED
    BY <2>1, <2>2, <2>3
<1>10. PackedCopies = UNION {Of(j) : j \in 1 .. Len(c)}
  BY DEF PackedCopies
<1>11. PackedCopies' = UNION {Of(j)' : j \in 1 .. Len(c)}
  BY <1>5 DEF PackedCopies
<1> HIDE DEF Of
<1>12. PackedCopies' = PackedCopies \cup {Copy(i, k + 1)}
  BY <1>1, <1>8, <1>9, <1>10, <1>11
<1> QED
  BY <1>2, <1>4, <1>5, <1>7, <1>12

(***************************************************************************)
(* Every step keeps the invariant.                                         *)
(***************************************************************************)
LEMMA WireStartStep ==
    ASSUME WireTypeOK, PlanInv, WireInv, TypeOK', WireStart
    PROVE  WireTypeOK' /\ WireInv'
<1>1. /\ pc = "start" /\ pc' \in {"replay", "threw"}
      /\ UNCHANGED <<file, added, copies, packing>>
      /\ pc' = "replay" => ~ReaderThrows(file)
  BY DEF WireStart, Start, Throw, replay_subset, replay_all, LoadReplay, ChunkReplay
<1>2. ~packing
  BY <1>1 DEF WireInv
<1>3. tx' \in ReplayBuffers /\ CarriesInv(tx)' /\ NoneEmpty(tx)'
  <2>1. Abandoned
    BY DEF WireStart, Abandoned
  <2> QED
    BY <1>1, <2>1, AbandonedReplay
<1>4. pc' = "replay" => Filled(tx)'
  BY <1>1 DEF WireStart, WireInv, Filled
<1>5. WireTypeOK'
  BY <1>1, <1>3 DEF WireTypeOK, ReplayBuffers
<1>6. pc' = "replay" => ~ReaderThrows(file)'
  BY <1>1
<1> QED
  BY <1>1, <1>2, <1>3, <1>4, <1>5, <1>6 DEF WireInv

LEMMA WireAddStep ==
    ASSUME WireTypeOK, WireInv, TypeOK', WireAdd
    PROVE  WireTypeOK' /\ WireInv'
<1>1. pc = "replay" /\ ~packing /\ UNCHANGED file
  BY DEF WireAdd, Add, Throw
<1>2. CASE pc' = "threw"
  <2>1. UNCHANGED <<added, copies, packing>> /\ Abandoned
    BY <1>1, <1>2 DEF WireAdd, Add, Throw
  <2>2. tx' \in ReplayBuffers /\ CarriesInv(tx)' /\ NoneEmpty(tx)'
    BY <1>1, <2>1, AbandonedReplay
  <2>3. WireTypeOK'
    BY <2>1, <2>2 DEF WireTypeOK, ReplayBuffers
  <2> QED
    BY <1>1, <1>2, <2>1, <2>2, <2>3 DEF WireInv
<1>3. CASE pc' # "threw"
  <2>1. PICK k \in DOMAIN todo : ~GetThrows(file, todo[k], 1)
                                 /\ added' = Append(added, todo[k]) /\ pc' = pc
    BY <1>3 DEF WireAdd, Add, Throw
  <2>2. copies' = Append(copies, 0) /\ packing' = TRUE /\ tx' = tx
    BY <1>3 DEF WireAdd
  <2>3. PICK e \in Index : e = todo[k]
    <3>1. todo \in Seq(Index)
      BY DEF WireTypeOK, TypeOK, Index
    <3>2. \A t \in Seq(Index) : \A j \in DOMAIN t : t[j] \in Index
      OBVIOUS
    <3> QED
      BY <3>1, <3>2
  <2>4. /\ PackedCopies' = PackedCopies
        /\ copies' \in Seq(0 .. MaxCopies + 1) /\ Len(copies') = Len(added')
        /\ Len(copies') > 0
    BY <2>1, <2>2, <2>3, EventAdded
  <2>5. Size(file) > 0
    <3>1. Size(file) \in Int /\ SizeWord \in Int
      BY WordFacts, ArgumentFacts DEF WireTypeOK
    <3>2. e \in Int /\ 0 <= e /\ ~(e >= Size(file))
      BY <2>1, <2>3, <3>1 DEF GetThrows, Index
    <3> QED
      BY <3>1, <3>2
  <2>6. WireTypeOK'
    BY <2>2, <2>4 DEF WireTypeOK
  <2>7. CarriesInv(tx)' /\ Filled(tx)' /\ NoneEmpty(tx)'
    BY <1>1, <2>2, <2>4 DEF WireInv, CarriesInv, Filled, NoneEmpty
  <2>8. Size(file)' > 0 /\ ~ReaderThrows(file)'
    BY <1>1, <2>5 DEF WireInv
  <2> QED
    BY <1>1, <2>1, <2>4, <2>6, <2>7, <2>8 DEF WireInv
<1> QED
  BY <1>2, <1>3

LEMMA PackCopyStep ==
    ASSUME WireTypeOK, WireInv, TypeOK', PackCopy
    PROVE  WireTypeOK' /\ WireInv'
<1>1. /\ pc = "replay" /\ packing /\ Len(copies) > 0
      /\ ~ReaderThrows(file) /\ Size(file) > 0 /\ Filled(tx)
      /\ UNCHANGED <<vars, packing>>
  BY DEF WireInv, PackCopy
<1> PICK i : i = Len(copies)
  OBVIOUS
<1> DEFINE r == Copy(i, copies[i] + 1)
<1>2. /\ \E n \in Repeats(added[i]) : copies[i] < n
      /\ tx' = Packed(r) /\ copies' = [copies EXCEPT ![i] = @ + 1]
  BY DEF PackCopy
<1>3. UNCHANGED added /\ UNCHANGED file /\ UNCHANGED pc
  BY <1>1 DEF vars
<1>4. /\ r \in Records /\ \A q \in PackedCopies : Before(q, r)
      /\ PackedCopies' = PackedCopies \cup {r}
      /\ copies' \in Seq(0 .. MaxCopies + 1) /\ Len(copies') = Len(copies)
  BY <1>1, <1>2, <1>3, CopyPacked
<1> HIDE DEF r
<1>5. PICK type \in Packable : type = ReadoutType(DetectorOf(file))
  BY <1>1, WireAssumption DEF WireTypeOK, TypeOK, Supported
<1>6. tx \in ReplayBuffers /\ CarriesInv(tx)
  BY DEF WireTypeOK, WireInv, ReplayBuffers
<1>7. PICK y : y = PutReadout(tx, type, r) /\ y = tx'
  BY <1>2, <1>5 DEF Packed
<1>8. /\ y \in ReplayBuffers /\ Fits(y) /\ OrderKept(y) /\ Filled(y)
      /\ Carried(PacketsOf(y)) = PackedCopies \cup {r}
  <2>1. Fits(tx) /\ OrderKept(tx) /\ Carried(PacketsOf(tx)) = PackedCopies
    BY <1>6 DEF CarriesInv
  <2>2. \A q \in Carried(PacketsOf(tx)) : Before(q, r)
    BY <1>4, <2>1
  <2>3. r \in Records
    BY <1>4
  <2>4. PICK z : z = PutReadout(tx, type, r)
    OBVIOUS
  <2>5. /\ z \in ReplayBuffers /\ Fits(z) /\ OrderKept(z) /\ Filled(z)
        /\ Carried(PacketsOf(z)) = Carried(PacketsOf(tx)) \cup {r}
    BY <1>1, <1>6, <2>1, <2>2, <2>3, <2>4, PutReplay
  <2> QED
    BY <1>7, <2>1, <2>4, <2>5
<1>9. NoneEmpty(y)
  BY <1>8, FilledEmpty
<1>10. CarriesInv(tx)' /\ Filled(tx)' /\ NoneEmpty(tx)'
  BY <1>4, <1>7, <1>8, <1>9 DEF CarriesInv, Filled, NoneEmpty
<1>11. WireTypeOK'
  BY <1>1, <1>3, <1>4, <1>7, <1>8 DEF WireTypeOK, ReplayBuffers
<1>12. Size(file)' > 0 /\ ~ReaderThrows(file)'
  BY <1>1, <1>3
<1> QED
  BY <1>1, <1>3, <1>4, <1>10, <1>11, <1>12 DEF WireInv

LEMMA WireReturnStep ==
    ASSUME WireTypeOK, WireInv, TypeOK', WireReturn
    PROVE  WireTypeOK' /\ WireInv'
<1>1. /\ pc = "replay" /\ pc' = "done" /\ ~packing
      /\ UNCHANGED <<file, added, copies, packing>> /\ tx' = SendPacket(tx)
  BY DEF WireReturn, Return, Destroyed
<1>2. tx \in ReplayBuffers /\ CarriesInv(tx) /\ Filled(tx)
  BY <1>1 DEF WireTypeOK, WireInv, ReplayBuffers
<1>3. PICK y : y = SendPacket(tx) /\ y = tx'
  BY <1>1
<1>4. y \in ReplayBuffers /\ CarriesInv(y) /\ NoneEmpty(y) /\ y.packet.body = << >>
  BY <1>2, <1>3, EndedReplay
<1>5. PackedCopies' = PackedCopies
  BY <1>1, NothingPacked
<1>6. CarriesInv(tx)' /\ NoneEmpty(tx)' /\ tx'.packet.body = << >>
  BY <1>3, <1>4, <1>5 DEF CarriesInv, NoneEmpty
<1>7. WireTypeOK'
  BY <1>1, <1>3, <1>4 DEF WireTypeOK, ReplayBuffers
<1> QED
  BY <1>1, <1>6, <1>7 DEF WireInv

LEMMA WireQuietStep ==
    ASSUME WireTypeOK, WireInv, UNCHANGED <<vars, tx, copies>>,
           packing' = packing \/ packing' = FALSE
    PROVE  WireTypeOK' /\ WireInv'
<1>1. UNCHANGED <<file, asked, random, todo, added, pc>>
  BY DEF vars
<1>2. PackedCopies' = PackedCopies
  BY <1>1, NothingPacked
<1>3. WireTypeOK'
  BY <1>1 DEF WireTypeOK, TypeOK
<1>4. CarriesInv(tx)' /\ (Filled(tx) => Filled(tx)') /\ NoneEmpty(tx)'
  BY <1>2 DEF WireInv, CarriesInv, Filled, NoneEmpty
<1>5. Size(file)' = Size(file) /\ ReaderThrows(file)' = ReaderThrows(file)
  BY <1>1
<1> QED
  BY <1>1, <1>3, <1>4, <1>5 DEF WireInv

LEMMA WireHolds == WireSpec => [](WireTypeOK /\ WireInv)
<1>1. WireInit => WireTypeOK /\ WireInv
  <2> SUFFICES ASSUME WireInit PROVE WireTypeOK /\ WireInv
    OBVIOUS
  <2>1. /\ file \in Files /\ pc = "start" /\ todo = << >> /\ added = << >>
        /\ copies = << >> /\ packing = FALSE /\ TypeOK
    BY DEF WireInit, Init, TypeOK
  <2>2. PICK x : x = tx /\ x = FirstPacket(0, 0)
    BY DEF WireInit
  <2>3. /\ x.network = "enabled" /\ x.wire = << >> /\ x.dataSize = HeaderSize
        /\ x.packet.length = HeaderSize /\ x.packet.body = << >>
    BY <2>2 DEF FirstPacket
  <2>4. x \in ReplayBuffers
    BY <2>2, HeaderFits DEF FirstPacket, ReplayBuffers, Buffers, Packets
  <2>5. PacketsOf(x) = {x.packet}
    BY <2>3, EmptyRange DEF PacketsOf
  <2>6. Fits(x)
    BY <2>3, <2>5, HeaderFits DEF Fits, Enabled
  <2>7. OrderKept(x) /\ Filled(x) /\ NoneEmpty(x)
    BY <2>3, <2>5 DEF OrderKept, OrderWithin, Filled, NoneEmpty
  <2>8. Carried(PacketsOf(x)) = {}
    BY <2>3, <2>5, EmptyRange DEF Carried
  <2>9. PackedCopies = {}
    BY <2>1 DEF PackedCopies
  <2>10. WireTypeOK
    <3>1. copies \in Seq(0 .. MaxCopies + 1) /\ Len(copies) = Len(added)
      BY <2>1
    <3>2. tx \in Buffers({0}, Records) /\ packing \in BOOLEAN
      BY <2>1, <2>2, <2>4 DEF ReplayBuffers
    <3> QED
      BY <2>1, <3>1, <3>2 DEF WireTypeOK
  <2> QED
    BY <2>1, <2>2, <2>6, <2>7, <2>8, <2>9, <2>10 DEF WireInv, CarriesInv
<1>2. /\ TypeOK /\ PlanInv /\ TypeOK' /\ WireTypeOK /\ WireInv /\ [WireNext]_wireVars
      => WireTypeOK' /\ WireInv'
  <2> SUFFICES ASSUME PlanInv, TypeOK', WireTypeOK, WireInv, [WireNext]_wireVars
               PROVE  WireTypeOK' /\ WireInv'
    OBVIOUS
  <2>1. CASE WireStart
    BY <2>1, WireStartStep
  <2>2. CASE WireAdd
    BY <2>2, WireAddStep
  <2>3. CASE PackCopy
    BY <2>3, PackCopyStep
  <2>4. CASE WireReturn
    BY <2>4, WireReturnStep
  <2>5. CASE EndCopies \/ WireDone \/ UNCHANGED wireVars
    <3>1. UNCHANGED <<vars, tx, copies>> /\ (packing' = packing \/ packing' = FALSE)
      BY <2>5 DEF EndCopies, WireDone, Done, wireVars
    <3> QED
      BY <3>1, WireQuietStep
  <2> QED
    BY <2>1, <2>2, <2>3, <2>4, <2>5 DEF WireNext
<1> QED
  BY <1>1, <1>2, WirePlanHolds, PTL DEF WireSpec

(***************************************************************************)
(* What replay_all and replay_subset do with the object of class Readout   *)
(* changes nothing in what they take from the file: what is proved of Spec *)
(* above holds while the object packs and sends.                           *)
(***************************************************************************)
THEOREM WireImplementsReplay == WireSpec => Spec
<1>1. WireInit => Init
  BY DEF WireInit
<1> QED
  BY <1>1, WireIsPlan, PTL DEF WireSpec, Spec

(***************************************************************************)
(* The buffer and the records of a replay keep their types.                *)
(***************************************************************************)
THEOREM WireTypeCorrect == WireSpec => []WireTypeOK
<1> QED
  BY WireHolds, PTL

(***************************************************************************)
(* Every copy of every replayed event is in one datagram, once and in      *)
(* order, whatever the Poisson numbers are; all are sent when the replay   *)
(* returns (replay.cpp:26-108, ReadoutClass.cpp:33-54, 132-151).           *)
(***************************************************************************)
THEOREM NetworkGetsReplay == WireSpec => []WireIsReplay
<1>1. WireInv => WireIsReplay
  BY DEF WireInv, CarriesInv, WireIsReplay
<1> QED
  BY <1>1, WireHolds, PTL

(***************************************************************************)
(* No datagram of a replay outgrows the buffer, however often readouts are *)
(* repeated (ReadoutClass.cpp:49-54), and none but the last is empty.      *)
(***************************************************************************)
THEOREM ReplayFits == WireSpec => []ReplayPacketsFit
<1>1. WireInv => ReplayPacketsFit
  BY DEF WireInv, CarriesInv, Fits, NoneEmpty, ReplayPacketsFit
<1> QED
  BY <1>1, WireHolds, PTL

=============================================================================
