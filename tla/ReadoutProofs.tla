--------------------------- MODULE ReadoutProofs ---------------------------
(***************************************************************************)
(* Theorems about class Readout, for every value of the constants: its     *)
(* types, times and exceptions, the file it saves to, the packets it       *)
(* builds.  ReadoutWireProofs goes on with what is on the wire.            *)
(***************************************************************************)
EXTENDS Readout, EfuTimeProofs, PacketBufferProofs

---------------------------------------------------------------------------
(***************************************************************************)
(* Types.                                                                  *)
(***************************************************************************)
LEMMA PeriodFacts ==
    /\ period \in Times
    /\ TotalTicks(period) \in Nat /\ TotalTicks(period) > 0
  BY PeriodAssumption, TimeOfType, TotalTicksNat DEF period

LEMMA PulseType ==
    ASSUME TypeOK
    PROVE  Now \in Times /\ Elapsed \in Times /\ Pulse \in Times /\ PrevPulse \in Times
<1>1. time \in Times /\ Now \in Times
  BY TimeOfType DEF TypeOK, Now
<1>2. Elapsed \in Times
  BY <1>1, SubType DEF Elapsed
<1>3. Div(Elapsed, period) \in Nat
  BY <1>2, PeriodFacts, DivType, WordAssumption
<1>4. Mul(period, Div(Elapsed, period)) \in Times
  BY <1>3, PeriodFacts, MulType
<1>5. Pulse \in Times
  BY <1>1, <1>4, AddType DEF Pulse
<1>6. PrevPulse \in Times
  BY <1>1, <1>5, PeriodFacts, SubType DEF PrevPulse
<1> QED
  BY <1>1, <1>2, <1>5, <1>6

LEMMA UpdatedTxType ==
    ASSUME TypeOK
    PROVE  UpdatedTx \in Buffers(Times, Readouts)
<1>1. SendPacket(tx) \in Buffers(Times, Readouts)
  BY SendPacketType DEF TypeOK
<1>2. SetPulseTime(SendPacket(tx), Pulse, PrevPulse) \in Buffers(Times, Readouts)
  BY <1>1, PulseType, SetPulseTimeType
<1> QED
  BY <1>2, NewPacketType DEF UpdatedTx

LEMMA PutType ==
    ASSUME NEW x \in Buffers(Times, Readouts), NEW call \in Nat, NEW t \in Times,
           Supported(type)
    PROVE  Put(x, call, t) \in Buffers(Times, Readouts)
<1>1. [call |-> call, time |-> t] \in Readouts
  BY DEF Readouts
<1>2. ReadoutType(type) \in Packable
  BY DEF Supported
<1> QED
  BY <1>1, <1>2, PutReadoutType DEF Put

LEMMA AddReadoutType ==
    ASSUME TypeOK, NEW x \in Buffers(Times, Readouts), NEW ref \in Times,
           NEW tof \in Tofs, NEW weighted \in BOOLEAN,
           AddReadout(x, ref, tof, weighted), time' \in Times
    PROVE  TypeOK'
<1> DEFINE t == Add(TimeOf(tof), ref)
<1>1. tof \in Nat /\ t \in Times
  BY StepsAssumption, TimeOfType, AddType
<1>2. calls' \in Seq(Nat) /\ Len(calls) + 1 \in Nat
  BY <1>1 DEF AddReadout, TypeOK
<1>3. rows' \in Seq(Nat)
  <2>1. rows \in Seq(Nat) /\ Blank \in Nat
    BY DEF TypeOK, Blank
  <2>2. Append(rows, Len(calls) + 1) \in Seq(Nat) /\ Append(rows, Blank) \in Seq(Nat)
    BY <1>2, <2>1
  <2>3. rows' \in {rows, Append(rows, Len(calls) + 1), Append(rows, Blank)}
    BY DEF AddReadout, Saved, SaveFails
  <2> QED
    BY <2>1, <2>2, <2>3
<1>4. /\ tx' \in Buffers(Times, Readouts) /\ last' \in Times
      /\ pc' \in {"idle", "copy", "threw", "destroyed"}
  <2> HIDE DEF t
  <2>1. CASE Buffer(x, t, weighted)
    BY <1>1, <1>2, <2>1, PutType DEF Buffer, TypeOK
  <2>2. CASE tx' = x /\ pc' = "threw" /\ UNCHANGED last
    BY <2>2 DEF TypeOK
  <2> QED
    BY <2>1, <2>2 DEF AddReadout, t
<1> QED
  BY <1>2, <1>3, <1>4 DEF AddReadout, TypeOK

LEMMA TypeStep == TypeOK /\ [Next]_vars => TypeOK'
<1> SUFFICES ASSUME TypeOK, [Next]_vars PROVE TypeOK'
  OBVIOUS
<1>1. ASSUME NEW tof \in Tofs, NEW weighted \in BOOLEAN, ReadoutAdd(tof, weighted)
      PROVE  TypeOK'
  BY <1>1, PulseType, UpdatedTxType, AddReadoutType DEF ReadoutAdd
<1>2. ASSUME NEW tof \in Tofs, NEW weighted \in BOOLEAN, MethodAdd(tof, weighted)
      PROVE  TypeOK'
  BY <1>2, AddReadoutType DEF MethodAdd, TypeOK
<1>3. ASSUME NEW draw \in 0 .. MaxDraw, CopyStep(draw) PROVE TypeOK'
  <2>1. tx' \in Buffers(Times, Readouts) /\ copy' \in Nat
    BY <1>3, PutType DEF CopyStep, TypeOK
  <2> QED
    BY <1>3, <2>1 DEF CopyStep, TypeOK
<1>4. CASE ReadoutSetPulseTime
  BY <1>4, PulseType, UpdatedTxType DEF ReadoutSetPulseTime, TypeOK
<1>5. CASE UpdateFails
  BY <1>5 DEF UpdateFails, TypeOK, object
<1>6. CASE ReadoutSend
  BY <1>6, SendPacketType DEF ReadoutSend, TypeOK
<1>7. CASE ReadoutNewPacket
  BY <1>7, NewPacketType DEF ReadoutNewPacket, TypeOK
<1>8. ASSUME NEW to \in {"enabled", "disabled"}, SwitchNetwork(to) PROVE TypeOK'
  <2>1. tx' \in Buffers(Times, Readouts)
    BY <1>8 DEF SwitchNetwork, TypeOK, Buffers
  <2> QED
    BY <1>8, <2>1 DEF SwitchNetwork, TypeOK
<1>9. CASE DumpTo
  <2>1. Len(calls) \in Nat /\ << >> \in Seq(Nat)
    BY DEF TypeOK
  <2>2. /\ writer' \in {"none", "open", "mute"}
        /\ pc' \in {"idle", "copy", "threw", "destroyed"}
        /\ rows' \in {rows, << >>} /\ savedFrom' \in {savedFrom, Len(calls)}
    BY <1>9 DEF DumpTo, TypeOK
  <2>3. UNCHANGED <<type, tx, time, last, copy, calls, clock>>
    BY <1>9 DEF DumpTo
  <2> QED
    BY <2>1, <2>2, <2>3 DEF TypeOK
<1>10. CASE Destroy
  BY <1>10, SendPacketType DEF Destroy, TypeOK
<1>11. ASSUME NEW d \in ClockSteps, Tick(d) PROVE TypeOK'
  BY <1>11, StepsAssumption DEF Tick, TypeOK, object
<1>12. ASSUME NEW d \in StepBacks, StepBack(d) PROVE TypeOK'
  BY <1>12, StepsAssumption DEF StepBack, TypeOK, object
<1>13. CASE UNCHANGED vars
  BY <1>13 DEF vars, object, TypeOK
<1> QED
  BY <1>1, <1>2, <1>3, <1>4, <1>5, <1>6, <1>7, <1>8, <1>9, <1>10, <1>11,
     <1>12, <1>13 DEF Next, Done

(***************************************************************************)
(* Every variable keeps its type: in particular every time in a header or  *)
(* a record, whatever the arithmetic of efu_time wraps.                    *)
(***************************************************************************)
THEOREM TypeCorrect == Spec => []TypeOK
<1>1. Init => TypeOK
  <2> SUFFICES ASSUME Init PROVE TypeOK
    OBVIOUS
  <2>1. time \in Times /\ Sub(time, period) \in Times /\ TimeOf(0) \in Times
    BY PeriodFacts, PeriodAssumption, TimeOfType, SubType DEF Init
  <2>2. tx \in Buffers(Times, Readouts)
    BY <2>1 DEF Init, FirstPacket, Buffers, Packets, HeaderSize
  <2> QED
    BY <2>1, <2>2, DetectorsAssumption, PeriodAssumption DEF Init, TypeOK
<1> QED
  BY <1>1, TypeStep, PTL DEF Spec

---------------------------------------------------------------------------
(***************************************************************************)
(* Times.  The reference time lies between the creation of the object and  *)
(* the horizon, so nothing that update_time computes wraps around.         *)
(***************************************************************************)
T(t) == TotalTicks(t)

USE DEF T

StartTime == TimeOf(StartClock)

TimeInv == /\ clock <= MaxClock
           /\ T(StartTime) <= T(time) /\ T(time) <= Latest

LEMMA HorizonFacts ==
    /\ T(StartTime) \in Nat /\ T(StartTime) > T(period)
    /\ Latest \in Nat /\ Latest < Range32 /\ Range32 \in Nat
    /\ T(StartTime) <= Latest
<1>1. StartClock \in Nat /\ MaxClock \in Nat
  BY PeriodAssumption, BoundsAssumption
<1>2. StartTime \in Times /\ TimeOf(MaxClock) \in Times
  BY <1>1, TimeOfType DEF StartTime
<1>3. T(StartTime) <= Latest
  BY <1>1, HorizonAssumption, TimeOfMonotone DEF StartTime, Latest
<1>4. Range32 \in Nat
  BY TicksAssumption, WordAssumption, ProductMonotone DEF Range32
<1> QED
  BY <1>1, <1>2, <1>3, <1>4, TotalTicksNat, TimeOfBelow, PeriodAssumption
     DEF StartTime, Latest

LEMMA NowFacts ==
    ASSUME TypeOK, TimeInv
    PROVE  /\ Now \in Times /\ Now.low < Ticks
           /\ T(Now) \in Nat /\ T(Now) <= Latest
           /\ time \in Times /\ T(time) \in Nat
<1>1. clock \in Nat /\ MaxClock \in Nat /\ clock <= MaxClock /\ time \in Times
  BY BoundsAssumption DEF TypeOK, TimeInv
<1>2. Now \in Times /\ Now.low < Ticks
  BY <1>1, TimeOfType DEF Now
<1>3. T(Now) <= Latest
  BY <1>1, HorizonAssumption, TimeOfMonotone DEF Now, Latest
<1> QED
  BY <1>1, <1>2, <1>3, TotalTicksNat

(***************************************************************************)
(* The new pulse is at most a period behind the clock and no earlier than  *)
(* the old one.                                                            *)
(***************************************************************************)
LEMMA PulseExact ==
    ASSUME TypeOK, TimeInv, ~SubThrows(Now, time)
    PROVE  /\ T(Pulse) \in Nat
           /\ T(time) <= T(Pulse) /\ T(Pulse) <= T(Now)
           /\ T(Now) - T(Pulse) < T(period)
           /\ ~SubThrows(Pulse, time)
<1> DEFINE e == T(Elapsed)
           q == Div(Elapsed, period)
<1>1. e = T(Now) - T(time) /\ e \in Nat /\ Elapsed \in Times
  BY NowFacts, PulseType, SubExact, TotalTicksNat DEF Elapsed
<1>2. e < Word * T(period)
  <2>1. Latest - T(StartTime) < Word * T(period)
    BY HorizonAssumption DEF StartTime
  <2>2. Word * T(period) \in Nat
    BY PeriodFacts, WordAssumption, TicksAssumption, ProductMonotone
  <2> QED
    BY <1>1, <2>1, <2>2, NowFacts, HorizonFacts DEF TimeInv
<1>3. CASE Ge(Elapsed, period)
  <2>1. T(period) <= e
    BY <1>1, <1>3, PeriodFacts, OrderFacts DEF Ge
  <2>2. /\ q \in Nat /\ q >= 1
        /\ T(period) * q <= e
        /\ e - T(period) * q < T(period)
    BY <1>1, <1>2, <2>1, PeriodFacts, DivExact
  <2> HIDE DEF q, e
  <2>3. T(period) * q \in Nat /\ T(period) * q >= T(period)
    BY <2>2, PeriodFacts, SMT
  <2>4. T(Mul(period, q)) = T(period) * q /\ Mul(period, q) \in Times
    BY <1>1, <2>2, <2>3, PeriodFacts, NowFacts, HorizonFacts, MulExact, MulType
  <2>5. T(time) + T(Mul(period, q)) < Range32
    BY <1>1, <2>2, <2>3, <2>4, NowFacts, HorizonFacts
  <2>6. Pulse = Add(time, Mul(period, q))
    BY <1>3 DEF Pulse, q
  <2>7. T(Pulse) = T(time) + T(period) * q
    BY <2>4, <2>5, <2>6, NowFacts, AddExact
  <2>8. /\ T(Pulse) \in Nat /\ T(time) < T(Pulse) /\ T(Pulse) <= T(Now)
        /\ T(Now) - T(Pulse) < T(period)
    BY <1>1, <2>2, <2>3, <2>7, NowFacts, PeriodFacts
  <2>9. ~SubThrows(Pulse, time)
    BY <2>8, NowFacts, PulseType, OrderFacts DEF SubThrows
  <2> QED
    BY <2>8, <2>9, NowFacts
<1>4. CASE ~Ge(Elapsed, period)
  <2>1. Pulse = Now
    BY <1>4 DEF Pulse
  <2>2. T(time) <= T(Now)
    BY <1>1, NowFacts
  <2> QED
    BY <2>1, <2>2, NowFacts, PeriodFacts
<1> QED
  BY <1>3, <1>4

(***************************************************************************)
(* The previous pulse lies five periods before the new one or less, and    *)
(* update_time throws only when the clock is before the old pulse.         *)
(***************************************************************************)
LEMMA PrevPulseExact ==
    ASSUME TypeOK, TimeInv, ~SubThrows(Now, time)
    PROVE  /\ T(Pulse) - T(PrevPulse) \in 0 .. 5 * T(period)
           /\ ~UpdateThrows
<1>1. T(Sub(Pulse, time)) = T(Pulse) - T(time) /\ Sub(Pulse, time) \in Times
  BY PulseExact, PulseType, NowFacts, SubExact, SubType
<1>2. T(Mul(period, 5)) = T(period) * 5 /\ Mul(period, 5) \in Times
  BY HorizonAssumption, PeriodFacts, MulExact, MulType DEF Range32
<1>3. CASE GapTooLong
  <2>1. ~SubThrows(Pulse, period)
    <3>1. T(Pulse) > T(period)
      BY PulseExact, NowFacts, HorizonFacts, PeriodFacts DEF TimeInv
    <3> QED
      BY <3>1, PulseExact, PulseType, PeriodFacts, OrderFacts DEF SubThrows
  <2>2. T(PrevPulse) = T(Pulse) - T(period)
    BY <1>3, <2>1, PulseType, PeriodFacts, SubExact DEF PrevPulse
  <2>3. T(Pulse) - T(PrevPulse) \in 0 .. 5 * T(period)
    BY <2>2, PulseExact, PeriodFacts
  <2> QED
    BY <2>1, <2>3, PulseExact DEF UpdateThrows
<1>4. CASE ~GapTooLong
  <2>1. PrevPulse = time
    BY <1>4 DEF PrevPulse
  <2>2. ~(T(Sub(Pulse, time)) > T(Mul(period, 5)))
    BY <1>1, <1>2, <1>4, OrderFacts DEF GapTooLong
  <2>3. T(Pulse) - T(PrevPulse) \in 0 .. 5 * T(period)
    BY <1>1, <1>2, <2>1, <2>2, PulseExact, NowFacts, PeriodFacts
  <2> QED
    BY <1>4, <2>3, PulseExact DEF UpdateThrows
<1> QED
  BY <1>3, <1>4

LEMMA TimeStep ==
    ASSUME TypeOK, TimeInv, [Next]_vars
    PROVE  /\ \/ time' = time
              \/ time' = Pulse /\ clock' = clock /\ ~UpdateThrows
           /\ clock' <= MaxClock
<1>0. clock \in Nat /\ clock <= MaxClock /\ MaxClock \in Nat
  BY BoundsAssumption DEF TypeOK, TimeInv
<1>1. ASSUME NEW tof \in Tofs, NEW weighted \in BOOLEAN, ReadoutAdd(tof, weighted)
      PROVE  time' = Pulse /\ clock' = clock /\ ~UpdateThrows
  BY <1>1 DEF ReadoutAdd, AddReadout
<1>2. CASE ReadoutSetPulseTime
  BY <1>0, <1>2 DEF ReadoutSetPulseTime
<1>3. ASSUME NEW d \in ClockSteps, Tick(d) PROVE time' = time /\ clock' <= MaxClock
  BY <1>3 DEF Tick, object
<1>4. ASSUME NEW d \in StepBacks, StepBack(d)
      PROVE  time' = time /\ clock' <= MaxClock
  BY <1>0, <1>4, StepsAssumption DEF StepBack, object
<1>5. CASE \/ \E tof \in Tofs, weighted \in BOOLEAN : MethodAdd(tof, weighted)
           \/ \E draw \in 0 .. MaxDraw : CopyStep(draw)
           \/ UpdateFails \/ ReadoutSend \/ ReadoutNewPacket
           \/ \E to \in {"enabled", "disabled"} : SwitchNetwork(to)
           \/ DumpTo \/ Destroy \/ Done \/ UNCHANGED vars
  BY <1>0, <1>5 DEF MethodAdd, AddReadout, CopyStep, UpdateFails, ReadoutSend,
     ReadoutNewPacket, SwitchNetwork, DumpTo, Destroy, Done, vars, object
<1> QED
  BY <1>0, <1>1, <1>2, <1>3, <1>4, <1>5 DEF Next

LEMMA TimeCorrect == Spec => [](TypeOK /\ TimeInv)
<1>1. Init => TimeInv
  BY HorizonFacts, HorizonAssumption DEF Init, TimeInv, StartTime
<1>2. TypeOK /\ TimeInv /\ [Next]_vars => TimeInv'
  <2> SUFFICES ASSUME TypeOK, TimeInv, [Next]_vars PROVE TimeInv'
    OBVIOUS
  <2>1. CASE time' = time
    BY <2>1, TimeStep DEF TimeInv
  <2>2. CASE time' = Pulse /\ ~UpdateThrows
    <3>1. T(StartTime) <= T(Pulse) /\ T(Pulse) <= Latest
      BY <2>2, PulseExact, NowFacts, HorizonFacts DEF TimeInv, UpdateThrows
    <3> QED
      BY <2>2, <3>1, TimeStep DEF TimeInv
  <2> QED
    BY <2>1, <2>2, TimeStep
<1> QED
  BY <1>1, <1>2, TypeCorrect, PTL DEF Spec

(***************************************************************************)
(* An update of the pulse never leaves it in the future nor a whole period *)
(* behind the clock, whatever the clock did before.                        *)
(***************************************************************************)
THEOREM FreshPulse == Spec => PulseIsFresh
<1>1. TypeOK /\ TimeInv /\ [Next]_vars =>
        [time' # time => TotalTicks(Now) - TotalTicks(time')
                            \in 0 .. TotalTicks(period) - 1]_vars
  <2> SUFFICES ASSUME TypeOK, TimeInv, [Next]_vars, time' # time
               PROVE  TotalTicks(Now) - TotalTicks(time')
                            \in 0 .. TotalTicks(period) - 1
    OBVIOUS
  <2>1. time' = Pulse /\ ~SubThrows(Now, time)
    BY TimeStep DEF UpdateThrows
  <2> QED
    BY <2>1, PulseExact, NowFacts, PeriodFacts
<1> QED
  BY <1>1, TimeCorrect, PTL DEF Spec, PulseIsFresh

(***************************************************************************)
(* No call throws while the clock is not set back, files can be written    *)
(* and the detector is supported.                                          *)
(***************************************************************************)
NoThrowInv == /\ type \in Detectors
              /\ T(time) <= T(Now)
              /\ pc # "threw"

THEOREM NoException ==
    ASSUME StepBacks = {}, FileFaults = FALSE, \A d \in Detectors : Supported(d)
    PROVE  Spec => []NeverThrows
<1>1. Init => NoThrowInv
  <2> SUFFICES ASSUME Init PROVE NoThrowInv
    OBVIOUS
  <2>1. T(StartTime) <= T(StartTime)
    BY HorizonFacts
  <2> QED
    BY <2>1 DEF Init, NoThrowInv, Now, StartTime
<1>2. TypeOK /\ TimeInv /\ NoThrowInv /\ [Next]_vars => NoThrowInv'
  <2> SUFFICES ASSUME TypeOK, TimeInv, NoThrowInv, [Next]_vars PROVE NoThrowInv'
    OBVIOUS
  <2>1. Supported(type)
    BY DEF NoThrowInv
  <2>2. ~UpdateThrows
    <3>1. ~Lt(Now, time)
      BY NowFacts, OrderStrict DEF NoThrowInv
    <3> QED
      BY <3>1, PrevPulseExact DEF SubThrows
  <2>3. type' = type /\ clock' >= clock /\ pc' # "threw"
    <3>0. clock \in Nat /\ clock >= clock
      BY DEF TypeOK
    <3>1. ASSUME NEW x, NEW ref, NEW tof \in Tofs, NEW weighted \in BOOLEAN,
                 AddReadout(x, ref, tof, weighted)
          PROVE  type' = type /\ clock' = clock /\ pc' # "threw"
      BY <2>1, <3>1 DEF AddReadout, SaveFails, Buffer, NoThrowInv
    <3>2. ASSUME NEW tof \in Tofs, NEW weighted \in BOOLEAN,
                 ReadoutAdd(tof, weighted) \/ MethodAdd(tof, weighted)
          PROVE  type' = type /\ clock' = clock /\ pc' # "threw"
      BY <3>1, <3>2 DEF ReadoutAdd, MethodAdd
    <3>3. ASSUME NEW d \in ClockSteps, Tick(d)
          PROVE  type' = type /\ clock' >= clock /\ pc' # "threw"
      BY <3>0, <3>3, StepsAssumption DEF Tick, object, NoThrowInv
    <3>4. ASSUME NEW draw \in 0 .. MaxDraw, CopyStep(draw)
          PROVE  type' = type /\ clock' = clock /\ pc' # "threw"
      BY <2>1, <3>4 DEF CopyStep, NoThrowInv
    <3>5. CASE DumpTo
      BY <2>1, <3>0, <3>5 DEF DumpTo, NoThrowInv
    <3>6. CASE \/ ReadoutSetPulseTime \/ UpdateFails
               \/ ReadoutSend \/ ReadoutNewPacket
               \/ \E to \in {"enabled", "disabled"} : SwitchNetwork(to)
               \/ Destroy \/ Done \/ UNCHANGED vars
      BY <2>2, <3>0, <3>6 DEF ReadoutSetPulseTime, UpdateFails, ReadoutSend,
         ReadoutNewPacket, SwitchNetwork, Destroy, Done, vars, object, NoThrowInv
    <3> QED
      BY <3>0, <3>2, <3>3, <3>4, <3>5, <3>6 DEF Next, StepBack
  <2>4. T(time') <= T(Now')
    <3>1. clock \in Nat /\ clock' \in Int /\ clock' <= MaxClock /\ MaxClock \in Nat
      BY <2>3, TimeStep, TypeStep, BoundsAssumption DEF TypeOK
    <3>2. clock' \in Nat /\ clock' \div Nps < Word
      <4>1. clock' \in Nat
        BY <2>3, <3>1
      <4>2. clock' \div Nps <= MaxClock \div Nps
        BY <3>1, <4>1, DivisionMonotone, NpsAssumption
      <4>3. clock' \div Nps \in Nat /\ MaxClock \div Nps \in Nat
        BY <3>1, <4>1, DivisionNat, NpsAssumption
      <4> QED
        BY <4>1, <4>2, <4>3, HorizonAssumption, WordAssumption
    <3>3. T(Now) <= T(Now')
      BY <2>3, <3>1, <3>2, TimeOfMonotone DEF Now
    <3>4. T(time') <= T(Now)
      BY <2>2, TimeStep, PulseExact DEF NoThrowInv, UpdateThrows
    <3>5. Now' \in Times /\ time' \in Times
      BY <3>2, TimeStep, NowFacts, PulseType, TimeOfType DEF Now
    <3> QED
      BY <3>3, <3>4, <3>5, NowFacts, TotalTicksNat
  <2> QED
    BY <2>3, <2>4 DEF NoThrowInv
<1> QED
  BY <1>1, <1>2, TimeCorrect, PTL DEF Spec, NoThrowInv, NeverThrows

---------------------------------------------------------------------------
(***************************************************************************)
(* The file.  Until a call throws, the rows are the calls since the file   *)
(* was opened; the call that throws may leave one row too few, or blank.   *)
(***************************************************************************)
Complete(from, n) == [k \in 1 .. n - from |-> from + k]

RowsInv == /\ savedFrom <= Len(calls)
           /\ writer = "open" /\ pc # "threw" => rows = Complete(savedFrom, Len(calls))
           /\ RowsMirrorCalls

LEMMA CompleteGrows ==
    ASSUME NEW from \in Nat, NEW n \in Nat, from <= n
    PROVE  LET more == Complete(from, n + 1)
               blank == Append(Complete(from, n), Blank)
           IN  /\ Append(Complete(from, n), n + 1) = more
               /\ blank # << >> /\ blank = [more EXCEPT ![Len(blank)] = Blank]
<1> DEFINE some == Complete(from, n)
           more == Complete(from, n + 1)
           m == n - from
<1>1. m \in Nat /\ n + 1 - from = m + 1 /\ from + (m + 1) = n + 1
  OBVIOUS
<1>2. some = [k \in 1 .. m |-> from + k] /\ more = [k \in 1 .. m + 1 |-> from + k]
  BY <1>1 DEF Complete
<1> HIDE DEF m, some, more
<1>3. some \in Seq(Nat) /\ Len(some) = m
  BY <1>1, <1>2
<1>4. ASSUME NEW e \in Nat
      PROVE  /\ Append(some, e) = [k \in 1 .. m + 1 |-> IF k = m + 1 THEN e ELSE from + k]
             /\ Len(Append(some, e)) = m + 1
  BY <1>1, <1>2, <1>3
<1>5. Append(some, n + 1) = more
  BY <1>1, <1>2, <1>4
<1>6. Append(some, Blank) = [more EXCEPT ![m + 1] = Blank]
  BY <1>1, <1>2, <1>4 DEF Blank
<1>7. Append(some, Blank) # << >> /\ Len(Append(some, Blank)) = m + 1
  <2>1. Append(some, Blank) \in Seq(Nat) /\ Len(Append(some, Blank)) = Len(some) + 1
    BY <1>3 DEF Blank
  <2> QED
    BY <1>1, <1>3, <2>1
<1> QED
  BY <1>5, <1>6, <1>7 DEF some, more

LEMMA RowsAdd ==
    ASSUME TypeOK, RowsInv, pc = "idle",
           NEW x, NEW ref, NEW tof \in Tofs, NEW weighted \in BOOLEAN,
           AddReadout(x, ref, tof, weighted)
    PROVE  RowsInv'
<1> PICK n \in Nat : n = Len(calls)
  BY DEF TypeOK
<1>1. /\ calls \in Seq(Nat) /\ calls' = Append(calls, tof) /\ tof \in Nat
      /\ savedFrom \in Nat /\ savedFrom' = savedFrom /\ writer' = writer
  BY StepsAssumption DEF AddReadout, TypeOK
<1>2. Len(calls') = n + 1 /\ calls' # << >> /\ savedFrom <= n
  BY <1>1 DEF RowsInv
<1>3. CASE writer # "open"
  BY <1>1, <1>2, <1>3 DEF RowsInv, RowsMirrorCalls
<1>4. CASE writer = "open"
  <2> DEFINE more == Complete(savedFrom, n + 1)
  <2>1. rows = Complete(savedFrom, n)
    BY <1>4 DEF RowsInv
  <2>2. /\ Append(rows, n + 1) = more
        /\ Append(rows, Blank) # << >>
        /\ Append(rows, Blank) = [more EXCEPT ![Len(Append(rows, Blank))] = Blank]
    BY <1>1, <1>2, <2>1, CompleteGrows
  <2>3. \/ rows' = more
        \/ /\ pc' = "threw"
           /\ rows' \in {rows, Append(rows, Blank)}
    BY <1>4, <2>2 DEF AddReadout, Saved, SaveFails, Saving
  <2> HIDE DEF more
  <2>4. RowsMirrorCalls' = (writer' = "open" =>
           \/ rows' = more
           \/ /\ pc' = "threw" /\ calls' # << >>
              /\ \/ Append(rows', n + 1) = more
                 \/ rows' # << >> /\ rows' = [more EXCEPT ![Len(rows')] = Blank])
    BY <1>1, <1>2 DEF RowsMirrorCalls, Complete, more
  <2>5. RowsMirrorCalls'
    BY <1>2, <2>2, <2>3, <2>4
  <2>6. writer' = "open" /\ pc' # "threw" => rows' = Complete(savedFrom', Len(calls'))
    BY <1>1, <1>2, <2>3 DEF more
  <2> QED
    BY <1>1, <1>2, <2>5, <2>6 DEF RowsInv
<1> QED
  BY <1>3, <1>4

(***************************************************************************)
(* The file mirrors the calls (ReadoutClass.cpp:132-134), for every mix of *)
(* calls, every number of them and wherever writing the file fails.        *)
(***************************************************************************)
THEOREM FileMirrorsCalls == Spec => []RowsMirrorCalls
<1>1. Init => RowsInv
  BY DEF Init, RowsInv, RowsMirrorCalls
<1>2. TypeOK /\ RowsInv /\ [Next]_vars => RowsInv'
  <2> SUFFICES ASSUME TypeOK, RowsInv, [Next]_vars PROVE RowsInv'
    OBVIOUS
  <2>1. ASSUME NEW tof \in Tofs, NEW weighted \in BOOLEAN,
               ReadoutAdd(tof, weighted) \/ MethodAdd(tof, weighted)
        PROVE  RowsInv'
    BY <2>1, RowsAdd DEF ReadoutAdd, MethodAdd, Called
  <2>2. ASSUME NEW draw \in 0 .. MaxDraw, CopyStep(draw) PROVE RowsInv'
    <3>1. UNCHANGED <<writer, rows, savedFrom, calls>> /\ pc # "threw"
      BY <2>2 DEF CopyStep
    <3> QED
      BY <3>1 DEF RowsInv, RowsMirrorCalls, Complete
  <2>3. CASE DumpTo
    <3>0. pc = "idle" /\ calls' = calls /\ calls \in Seq(Nat) /\ Len(calls) \in Nat
      BY <2>3 DEF DumpTo, Called, TypeOK
    <3>1. CASE writer' = "open" /\ rows' = << >> /\ savedFrom' = Len(calls)
      <4>1. Complete(savedFrom', Len(calls')) = << >>
        BY <3>0, <3>1 DEF Complete
      <4> QED
        BY <3>0, <3>1, <4>1 DEF RowsInv, RowsMirrorCalls, Complete
    <3>2. CASE writer' = "mute" /\ UNCHANGED <<rows, savedFrom, pc>>
      BY <3>0, <3>2 DEF RowsInv, RowsMirrorCalls
    <3>3. CASE pc' = "threw" /\ UNCHANGED <<writer, rows, savedFrom>>
      BY <3>0, <3>3 DEF RowsInv, RowsMirrorCalls, Complete
    <3> QED
      BY <2>3, <3>1, <3>2, <3>3 DEF DumpTo
  <2>4. CASE \/ ReadoutSetPulseTime \/ UpdateFails \/ ReadoutSend \/ ReadoutNewPacket
             \/ \E to \in {"enabled", "disabled"} : SwitchNetwork(to)
             \/ Destroy
             \/ \E d \in ClockSteps : Tick(d)
             \/ \E d \in StepBacks : StepBack(d)
    <3>1. UNCHANGED <<writer, rows, savedFrom, calls>> /\ pc # "threw"
      BY <2>4 DEF ReadoutSetPulseTime, UpdateFails, ReadoutSend, ReadoutNewPacket,
         SwitchNetwork, Destroy, Tick, StepBack, Called, object
    <3> QED
      BY <3>1 DEF RowsInv, RowsMirrorCalls, Complete
  <2>5. CASE Done \/ UNCHANGED vars
    BY <2>5 DEF Done, vars, object, RowsInv, RowsMirrorCalls
  <2> QED
    BY <2>1, <2>2, <2>3, <2>4, <2>5 DEF Next
<1>3. RowsInv => RowsMirrorCalls
  BY DEF RowsInv
<1> QED
  BY <1>1, <1>2, <1>3, TypeCorrect, PTL DEF Spec

---------------------------------------------------------------------------
(***************************************************************************)
(* The packets: each one, sent or under construction, has the size it      *)
(* says, pulses an EFU accepts, and readouts whose time of flight a        *)
(* receiver recovers.                                                      *)
(*                                                                         *)
(* The three are proved with one inductive invariant, BufferInv: besides   *)
(* the packets it speaks of the times kept for the NEXT header and of the  *)
(* size counter, from which later packets are made.  Operations are        *)
(* treated one by one on an arbitrary buffer x, then the actions.          *)
(***************************************************************************)
Gap(pulse, prev) == T(pulse) - T(prev) \in 0 .. 5 * T(period)

Sized(p, ty) ==
    /\ p.length <= BufferSize
    /\ p.length = IF p.body = << >> THEN HeaderSize
                  ELSE HeaderSize + Len(p.body) * RecordSize(ReadoutType(ty))

Stamped(r, pulse, c) == /\ r.call \in 1 .. Len(c)
                        /\ T(r.time) = T(pulse) + T(TimeOf(c[r.call]))

Good(p, ty, c) == /\ Sized(p, ty)
                  /\ Gap(p.pulse, p.prev)
                  /\ \A k \in DOMAIN p.body : Stamped(p.body[k], p.pulse, c)

BufferInv(x, ty, c) == /\ x.dataSize = x.packet.length
                       /\ x.packet.pulse = x.pulse
                       /\ Gap(x.pulse, x.prev)
                       /\ \A p \in PacketsOf(x) : Good(p, ty, c)

AnyBuffer == Buffers(Times, Readouts)

---------------------------------------------------------------------------
(***************************************************************************)
(* The operations of the buffer keep the invariant.                        *)
(***************************************************************************)
LEMMA HeaderFits ==
    HeaderSize \in Nat /\ MaxDataSize \in Nat /\ BufferSize \in Nat
    /\ HeaderSize < MaxDataSize /\ HeaderSize <= BufferSize
<1>1. "CAEN" \in Packable
  BY DEF Packable
<1>2. RecordSize("CAEN") \in Nat /\ RecordSize("CAEN") > 0
  BY <1>1, RecordSizeNat
<1>3. MaxDataSize - 1 + RecordSize("CAEN") <= BufferSize
  BY <1>1, BufferAssumption
<1> QED
  BY <1>2, <1>3, BufferAssumption DEF HeaderSize

LEMMA FreshGood ==
    ASSUME NEW p, NEW pulse, NEW prev, NEW ty, NEW c,
           IsFresh(p, pulse, prev), Gap(pulse, prev)
    PROVE  Good(p, ty, c)
<1>1. DOMAIN p.body = {}
  BY DEF IsFresh
<1>2. Sized(p, ty)
  BY HeaderFits DEF IsFresh, Sized
<1> QED
  BY <1>1, <1>2 DEF IsFresh, Good

LEMMA NewGood ==
    ASSUME NEW x \in AnyBuffer, NEW ty, NEW c, BufferInv(x, ty, c)
    PROVE  BufferInv(NewPacket(x), ty, c)
<1> DEFINE y == NewPacket(x)
<1>1. /\ IsFresh(y.packet, x.pulse, x.prev)
      /\ \A p \in PacketsOf(y) : p \in PacketsOf(x) \/ IsFresh(p, x.pulse, x.prev)
  BY NewPacketPackets DEF AnyBuffer
<1>2. y.pulse = x.pulse /\ y.prev = x.prev /\ y.dataSize = HeaderSize
  BY NewPacketFacts DEF AnyBuffer
<1> HIDE DEF y
<1>3. \A p \in PacketsOf(y) : Good(p, ty, c)
  BY <1>1, FreshGood DEF BufferInv
<1> QED
  BY <1>1, <1>2, <1>3 DEF BufferInv, IsFresh, y

LEMMA SendGood ==
    ASSUME NEW x \in AnyBuffer, NEW ty, NEW c, BufferInv(x, ty, c)
    PROVE  BufferInv(SendPacket(x), ty, c)
<1>1. CASE Enabled(x)
  <2> DEFINE y == SendPacket(x)
  <2>1. /\ y.packet = [seq |-> x.seqNum, pulse |-> x.pulse, prev |-> x.prev,
                       length |-> HeaderSize, body |-> << >>]
        /\ y.pulse = x.pulse /\ y.prev = x.prev /\ y.dataSize = HeaderSize
    BY <1>1, SendPacketFacts DEF AnyBuffer
  <2>2. \A p \in PacketsOf(y) : p \in PacketsOf(x) \/ IsFresh(p, x.pulse, x.prev)
    BY SendPacketPackets DEF AnyBuffer
  <2> HIDE DEF y
  <2>3. \A p \in PacketsOf(y) : Good(p, ty, c)
    BY <2>2, FreshGood DEF BufferInv
  <2> QED
    BY <2>1, <2>3 DEF BufferInv, y
<1>2. CASE ~Enabled(x)
  BY <1>2, SendPacketFacts DEF AnyBuffer
<1> QED
  BY <1>1, <1>2

(***************************************************************************)
(* After room has been made there is some: a packet below MaxDataSize.     *)
(***************************************************************************)
LEMMA RoomGood ==
    ASSUME NEW x \in AnyBuffer, NEW ty, NEW c, BufferInv(x, ty, c)
    PROVE  /\ BufferInv(CheckSizeAndSend(x), ty, c)
           /\ CheckSizeAndSend(x).dataSize < MaxDataSize
<1>1. CASE Full(x)
  <2>1. SendPacket(x) \in AnyBuffer
    BY SendPacketType DEF AnyBuffer
  <2>2. BufferInv(SendPacket(x), ty, c)
    BY SendGood
  <2>3. BufferInv(NewPacket(SendPacket(x)), ty, c)
    BY <2>1, <2>2, NewGood
  <2>4. NewPacket(SendPacket(x)).dataSize = HeaderSize
    BY <2>1, NewPacketFacts DEF AnyBuffer
  <2> QED
    BY <1>1, <2>3, <2>4, HeaderFits DEF CheckSizeAndSend
<1>2. CASE ~Full(x)
  <2>1. x.dataSize \in Nat
    BY DEF AnyBuffer, Buffers
  <2> QED
    BY <1>2, <2>1, HeaderFits DEF CheckSizeAndSend, Full
<1> QED
  BY <1>1, <1>2

LEMMA WrittenGood ==
    ASSUME NEW p \in Packets(Times, Readouts), NEW r \in Readouts,
           NEW ty, ReadoutType(ty) \in Packable, NEW c,
           Good(p, ty, c), Stamped(r, p.pulse, c), p.length < MaxDataSize
    PROVE  Good(Written(p, r, p.length + RecordSize(ReadoutType(ty))), ty, c)
<1> DEFINE size == p.length + RecordSize(ReadoutType(ty))
           q == Written(p, r, size)
<1>1. /\ q.body = Append(p.body, r) /\ q.length = size
      /\ q.pulse = p.pulse /\ q.prev = p.prev
  BY DEF Written, Packets
<1>2. p.body \in Seq(Readouts) /\ p.length \in Nat
  BY DEF Packets
<1>3. RecordSize(ReadoutType(ty)) \in Nat
  BY RecordSizeNat
<1> HIDE DEF q
<1>4. q.length <= BufferSize
  <2>1. MaxDataSize - 1 + RecordSize(ReadoutType(ty)) <= BufferSize
    BY BufferAssumption
  <2> QED
    BY <1>1, <1>2, <1>3, <2>1, HeaderFits
<1>5. q.body # << >> /\ q.length = HeaderSize + Len(q.body) * RecordSize(ReadoutType(ty))
  <2> DEFINE n == Len(p.body)
             s == RecordSize(ReadoutType(ty))
  <2>1. n \in Nat /\ s \in Nat /\ Len(q.body) = n + 1 /\ (p.body = << >> <=> n = 0)
    BY <1>1, <1>2, <1>3
  <2>2. p.length = HeaderSize + n * s
    BY <2>1, HeaderFits DEF Good, Sized
  <2> HIDE DEF n, s
  <2>3. (n + 1) * s = n * s + s /\ n * s \in Nat
    BY <2>1, SMT
  <2>4. size = HeaderSize + (n + 1) * s
    BY <2>1, <2>2, <2>3, HeaderFits DEF s
  <2>5. q.body # << >>
    BY <2>1
  <2>6. q.length = HeaderSize + Len(q.body) * s
    BY <1>1, <2>1, <2>4
  <2> QED
    BY <2>5, <2>6 DEF s
<1>6. Sized(q, ty)
  BY <1>4, <1>5 DEF Sized
<1>7. \A k \in DOMAIN q.body : Stamped(q.body[k], q.pulse, c)
  <2> SUFFICES ASSUME NEW k \in DOMAIN q.body
               PROVE  Stamped(q.body[k], q.pulse, c)
    OBVIOUS
  <2>1. k \in 1 .. Len(p.body) + 1
    BY <1>1, <1>2
  <2>2. CASE k \in 1 .. Len(p.body)
    <3>1. q.body[k] = p.body[k] /\ k \in DOMAIN p.body
      BY <1>1, <1>2, <2>2
    <3> QED
      BY <1>1, <3>1 DEF Good
  <2>3. CASE k = Len(p.body) + 1
    <3>1. q.body[k] = r
      BY <1>1, <1>2, <2>3
    <3> QED
      BY <1>1, <3>1
  <2> QED
    BY <1>2, <2>1, <2>2, <2>3
<1> QED
  BY <1>1, <1>6, <1>7 DEF Good, q

LEMMA PutGood ==
    ASSUME NEW x \in AnyBuffer, NEW c, BufferInv(x, type, c), Supported(type),
           NEW call \in Nat, NEW t \in Times,
           Stamped([call |-> call, time |-> t], x.pulse, c)
    PROVE  BufferInv(Put(x, call, t), type, c)
<1> DEFINE r == [call |-> call, time |-> t]
           ty == ReadoutType(type)
           room == CheckSizeAndSend(x)
           y == PutReadout(x, ty, r)
<1>1. r \in Readouts /\ ty \in Packable
  BY DEF Readouts, Supported
<1>2. room \in AnyBuffer
  BY CheckSizeAndSendType DEF AnyBuffer
<1>3. BufferInv(room, type, c) /\ room.dataSize < MaxDataSize
  BY RoomGood
<1>4. room.pulse = x.pulse /\ room.prev = x.prev
  BY CheckSizeAndSendFacts DEF AnyBuffer
<1>5. /\ y.pulse = x.pulse /\ y.prev = x.prev
      /\ y.wire = room.wire
      /\ y.dataSize = room.dataSize + RecordSize(ty)
      /\ y.packet = Written(room.packet, r, room.dataSize + RecordSize(ty))
  BY <1>1, PutReadoutFacts DEF AnyBuffer
<1> HIDE DEF room, y, r
<1>6. room.packet \in Packets(Times, Readouts) /\ room.packet \in PacketsOf(room)
  BY <1>2 DEF AnyBuffer, Buffers, PacketsOf
<1>7. Good(y.packet, type, c)
  <2>1. Good(room.packet, type, c) /\ room.dataSize = room.packet.length
    BY <1>3, <1>6 DEF BufferInv
  <2>2. Stamped(r, room.packet.pulse, c)
    BY <1>3, <1>4 DEF BufferInv, r
  <2> QED
    BY <1>1, <1>3, <1>5, <1>6, <2>1, <2>2, WrittenGood
<1>8. \A p \in PacketsOf(y) : Good(p, type, c)
  BY <1>3, <1>5, <1>7 DEF PacketsOf, BufferInv
<1>9. y.packet.length = y.dataSize /\ y.packet.pulse = y.pulse
  BY <1>3, <1>4, <1>5, <1>6 DEF Written, Packets, BufferInv
<1> QED
  BY <1>3, <1>4, <1>5, <1>8, <1>9 DEF BufferInv, Put, y, r

---------------------------------------------------------------------------
(***************************************************************************)
(* An update of the pulse keeps it, with the new times.                    *)
(***************************************************************************)
LEMMA UpdatedGood ==
    ASSUME TypeOK, TimeInv, ~UpdateThrows, NEW c, BufferInv(tx, type, c)
    PROVE  BufferInv(UpdatedTx, type, c) /\ UpdatedTx.pulse = Pulse
<1> DEFINE s == SendPacket(tx)
           u == SetPulseTime(s, Pulse, PrevPulse)
           y == NewPacket(u)
<1>1. s \in AnyBuffer /\ BufferInv(s, type, c)
  BY SendPacketType, SendGood DEF TypeOK, AnyBuffer
<1>2. u \in AnyBuffer
  BY <1>1, PulseType, SetPulseTimeType DEF AnyBuffer
<1>3. u.pulse = Pulse /\ u.prev = PrevPulse /\ u.packet = s.packet /\ u.wire = s.wire
  BY <1>1, SetPulseTimeFacts DEF AnyBuffer
<1>4. /\ IsFresh(y.packet, u.pulse, u.prev)
      /\ \A p \in PacketsOf(y) : p \in PacketsOf(u) \/ IsFresh(p, u.pulse, u.prev)
  BY <1>2, NewPacketPackets DEF AnyBuffer
<1>5. y.pulse = u.pulse /\ y.prev = u.prev /\ y.dataSize = HeaderSize
  BY <1>2, NewPacketFacts DEF AnyBuffer
<1>6. Gap(Pulse, PrevPulse)
  BY PrevPulseExact DEF Gap, UpdateThrows
<1>7. y = UpdatedTx
  BY DEF UpdatedTx
<1> HIDE DEF s, u, y
<1>8. PacketsOf(u) = PacketsOf(s)
  BY <1>3 DEF PacketsOf
<1>9. \A p \in PacketsOf(y) : Good(p, type, c)
  BY <1>1, <1>3, <1>4, <1>6, <1>8, FreshGood DEF BufferInv
<1> QED
  BY <1>3, <1>4, <1>5, <1>6, <1>7, <1>9 DEF BufferInv, IsFresh

(***************************************************************************)
(* A further call does not change what the packets so far are stamped with.*)
(***************************************************************************)
LEMMA CallsGood ==
    ASSUME NEW x, NEW ty, NEW c \in Seq(Nat), NEW tof \in Nat, BufferInv(x, ty, c)
    PROVE  BufferInv(x, ty, Append(c, tof))
<1>1. ASSUME NEW r, NEW pulse, Stamped(r, pulse, c)
      PROVE  Stamped(r, pulse, Append(c, tof))
  <2>1. r.call \in 1 .. Len(c) + 1 /\ Append(c, tof)[r.call] = c[r.call]
    BY <1>1 DEF Stamped
  <2> QED
    BY <1>1, <2>1 DEF Stamped
<1> QED
  BY <1>1 DEF BufferInv, Good

---------------------------------------------------------------------------
(***************************************************************************)
(* The inductive invariant: the packets are good, the next header gets the *)
(* reference time, and while a weighted readout is repeated its stamp is   *)
(* that of the latest call.                                                *)
(***************************************************************************)
PacketInv == /\ BufferInv(tx, type, calls)
             /\ tx.pulse = time
             /\ pc = "copy" => Stamped([call |-> Len(calls), time |-> last], time, calls)

LEMMA StampExact ==
    ASSUME NEW c \in Seq(Nat), NEW tof \in Tofs, NEW ref \in Times, T(ref) <= Latest
    PROVE  Stamped([call |-> Len(c) + 1, time |-> Add(TimeOf(tof), ref)], ref,
                   Append(c, tof))
<1>1. tof \in Nat /\ TimeOf(tof) \in Times
  BY StepsAssumption, TimeOfType
<1>2. T(TimeOf(tof)) \in Nat /\ T(ref) \in Nat
  BY <1>1, TotalTicksNat
<1>3. T(TimeOf(tof)) + T(ref) < Range32
  <2>1. Latest + T(TimeOf(tof)) < Range32
    BY HorizonAssumption DEF Range32
  <2> QED
    BY <1>2, <2>1, HorizonFacts
<1>4. T(Add(TimeOf(tof), ref)) = T(ref) + T(TimeOf(tof))
  BY <1>1, <1>2, <1>3, AddExact
<1>5. /\ Append(c, tof)[Len(c) + 1] = tof
      /\ Len(c) + 1 \in 1 .. Len(Append(c, tof))
  BY <1>1
<1> QED
  BY <1>4, <1>5 DEF Stamped

LEMMA AddReadoutGood ==
    ASSUME TypeOK, NEW x \in AnyBuffer, BufferInv(x, type, calls),
           NEW tof \in Tofs, NEW weighted \in BOOLEAN, x.pulse \in Times,
           T(x.pulse) <= Latest, pc = "idle",
           AddReadout(x, x.pulse, tof, weighted)
    PROVE  /\ BufferInv(tx', type, calls') /\ tx'.pulse = x.pulse
           /\ pc' = "copy" => Stamped([call |-> Len(calls'), time |-> last'],
                                      x.pulse, calls')
<1> DEFINE t == Add(TimeOf(tof), x.pulse)
           n == Len(calls) + 1
<1>1. calls \in Seq(Nat) /\ tof \in Nat /\ calls' = Append(calls, tof)
  BY StepsAssumption DEF TypeOK, AddReadout
<1>2. BufferInv(x, type, calls')
  BY <1>1, CallsGood
<1>3. Stamped([call |-> n, time |-> t], x.pulse, calls')
  BY <1>1, StampExact
<1>4. t \in Times /\ n \in Nat /\ Len(calls') = n
  BY <1>1, TimeOfType, AddType
<1> HIDE DEF t, n
<1>5. CASE tx' = x /\ pc' # "copy"
  BY <1>2, <1>5
<1>6. CASE tx' = x /\ last' = t
  BY <1>2, <1>3, <1>4, <1>6
<1>7. CASE Supported(type) /\ tx' = Put(x, n, t) /\ pc' = pc
  <2>1. BufferInv(Put(x, n, t), type, calls')
    BY <1>2, <1>3, <1>4, <1>7, PutGood
  <2>2. Put(x, n, t).pulse = x.pulse
    <3>1. [call |-> n, time |-> t] \in Readouts /\ ReadoutType(type) \in Packable
      BY <1>4, <1>7 DEF Readouts, Supported
    <3> QED
      BY <3>1, PutReadoutFacts DEF Put, AnyBuffer
  <2> QED
    BY <1>7, <2>1, <2>2
<1>8. \/ tx' = x /\ pc' # "copy"
      \/ tx' = x /\ last' = t
      \/ Supported(type) /\ tx' = Put(x, n, t) /\ pc' = pc
  BY DEF AddReadout, Buffer, t, n
<1> QED
  BY <1>5, <1>6, <1>7, <1>8

LEMMA PacketStep ==
    ASSUME TypeOK, TimeInv, PacketInv, [Next]_vars
    PROVE  PacketInv'
<1>1. tx \in AnyBuffer /\ time \in Times /\ T(time) <= Latest
  BY DEF TypeOK, AnyBuffer, TimeInv
<1> DEFINE Kept(c, t) == Stamped([call |-> Len(c), time |-> last'], t, c)
           Result == /\ BufferInv(tx', type, calls')
                     /\ tx'.pulse = time'
                     /\ type' = type
                     /\ pc' = "copy" => Kept(calls', time')
<1>2. ASSUME NEW tof \in Tofs, NEW weighted \in BOOLEAN, ReadoutAdd(tof, weighted)
      PROVE  Result
  <2>1. BufferInv(UpdatedTx, type, calls) /\ UpdatedTx.pulse = Pulse
    BY <1>2, UpdatedGood DEF ReadoutAdd, PacketInv
  <2>2. UpdatedTx \in AnyBuffer /\ Pulse \in Times
    BY UpdatedTxType, PulseType DEF AnyBuffer
  <2>3. T(Pulse) <= Latest
    BY <1>2, PulseExact, NowFacts, HorizonFacts DEF ReadoutAdd, UpdateThrows
  <2> QED
    BY <1>2, <2>1, <2>2, <2>3, AddReadoutGood DEF ReadoutAdd, AddReadout, Called
<1>3. ASSUME NEW tof \in Tofs, NEW weighted \in BOOLEAN, MethodAdd(tof, weighted)
      PROVE  Result
  <2>1. BufferInv(tx, type, calls) /\ tx.pulse = time
    BY DEF PacketInv
  <2> QED
    BY <1>1, <1>3, <2>1, AddReadoutGood DEF MethodAdd, AddReadout, Called
<1>4. ASSUME NEW draw \in 0 .. MaxDraw, CopyStep(draw) PROVE Result
  <2>1. /\ BufferInv(tx, type, calls) /\ tx.pulse = time
        /\ Stamped([call |-> Len(calls), time |-> last], time, calls)
    BY <1>4 DEF PacketInv, CopyStep
  <2>2. UNCHANGED <<type, time, last, calls>>
    BY <1>4 DEF CopyStep
  <2>3. CASE tx' = tx
    BY <2>1, <2>2, <2>3
  <2>4. CASE Supported(type) /\ tx' = Put(tx, Len(calls), last)
    <3>1. Len(calls) \in Nat /\ last \in Times
      BY DEF TypeOK
    <3>2. BufferInv(tx', type, calls)
      BY <1>1, <2>1, <2>4, <3>1, PutGood
    <3>3. [call |-> Len(calls), time |-> last] \in Readouts
          /\ ReadoutType(type) \in Packable
      BY <2>4, <3>1 DEF Readouts, Supported
    <3>4. Put(tx, Len(calls), last).pulse = tx.pulse
      BY <1>1, <3>3, PutReadoutFacts DEF Put, AnyBuffer
    <3> QED
      BY <2>1, <2>2, <2>4, <3>2, <3>4
  <2> QED
    BY <1>4, <2>3, <2>4 DEF CopyStep
<1>5. ASSUME ReadoutSetPulseTime
      PROVE  Result
  <2>1. BufferInv(UpdatedTx, type, calls) /\ UpdatedTx.pulse = Pulse
    BY <1>5, UpdatedGood DEF ReadoutSetPulseTime, PacketInv
  <2> QED
    BY <1>5, <2>1 DEF ReadoutSetPulseTime, Called
<1>6. ASSUME tx' = SendPacket(tx) /\ UNCHANGED <<type, time, calls>> /\ pc' # "copy"
      PROVE  Result
  <2>1. BufferInv(SendPacket(tx), type, calls)
    BY <1>1, SendGood DEF PacketInv
  <2>2. SendPacket(tx).pulse = tx.pulse
    BY <1>1, SendPacketFacts DEF AnyBuffer
  <2> QED
    BY <1>6, <2>1, <2>2 DEF PacketInv
<1>7. ASSUME tx' = NewPacket(tx) /\ UNCHANGED <<type, time, calls>> /\ pc' # "copy"
      PROVE  Result
  <2>1. BufferInv(NewPacket(tx), type, calls)
    BY <1>1, NewGood DEF PacketInv
  <2>2. NewPacket(tx).pulse = tx.pulse
    BY <1>1, NewPacketFacts DEF AnyBuffer
  <2> QED
    BY <1>7, <2>1, <2>2 DEF PacketInv
<1>8. ASSUME NEW to \in {"enabled", "disabled"}, SwitchNetwork(to) PROVE Result
  <2>1. /\ tx'.dataSize = tx.dataSize /\ tx'.packet = tx.packet
        /\ tx'.pulse = tx.pulse /\ tx'.prev = tx.prev /\ tx'.wire = tx.wire
    BY <1>1, <1>8 DEF SwitchNetwork, AnyBuffer, Buffers
  <2>2. PacketsOf(tx') = PacketsOf(tx)
    BY <2>1 DEF PacketsOf
  <2>3. BufferInv(tx', type, calls)
    BY <2>1, <2>2 DEF PacketInv, BufferInv
  <2> QED
    BY <1>8, <2>1, <2>3 DEF SwitchNetwork, Called, PacketInv
<1>9. ASSUME UNCHANGED <<type, tx, time, calls>> /\ pc' # "copy"
      PROVE  Result
  BY <1>9 DEF PacketInv
<1>10. ASSUME UNCHANGED vars
       PROVE  Result
  BY <1>10 DEF PacketInv, vars, object
<1>11. ASSUME ReadoutSend \/ Destroy
       PROVE  Result
  <2>1. tx' = SendPacket(tx) /\ UNCHANGED <<type, time, calls>> /\ pc' # "copy"
    BY <1>11 DEF ReadoutSend, Destroy, Called
  <2> QED
    BY <1>6, <2>1
<1>12. ASSUME UpdateFails \/ DumpTo
       PROVE  Result
  <2>1. UNCHANGED <<type, tx, time, calls>> /\ pc' # "copy"
    BY <1>12 DEF UpdateFails, DumpTo, Called, object
  <2> QED
    BY <1>9, <2>1
<1>13. ASSUME (\E d \in ClockSteps : Tick(d)) \/ (\E d \in StepBacks : StepBack(d))
       PROVE  Result
  <2>1. UNCHANGED <<type, tx, time, calls>> /\ pc' # "copy"
    BY <1>13 DEF Tick, StepBack, object
  <2> QED
    BY <1>9, <2>1
<1>14. ASSUME Done \/ UNCHANGED vars
       PROVE  Result
  BY <1>10, <1>14 DEF Done
<1>15. ASSUME ReadoutNewPacket
       PROVE  Result
  BY <1>7, <1>15 DEF ReadoutNewPacket, Called
<1>16. Result
  <2> HIDE DEF Result
  <2> QED
    BY <1>2, <1>3, <1>4, <1>5, <1>8, <1>11, <1>12, <1>13, <1>14, <1>15 DEF Next
<1> QED
  BY <1>16 DEF PacketInv, BufferInv, Good, Sized, Gap, Stamped

LEMMA PacketInit == Init => PacketInv
<1> SUFFICES ASSUME Init PROVE PacketInv
  OBVIOUS
<1> DEFINE prev == Sub(time, period)
<1>1. /\ tx.pulse = time /\ tx.prev = prev /\ tx.dataSize = HeaderSize
      /\ tx.packet = [seq |-> 0, pulse |-> time, prev |-> prev,
                      length |-> HeaderSize, body |-> << >>]
      /\ tx.wire = << >>
  BY DEF Init, FirstPacket
<1>2. Gap(time, prev)
  <2>1. time = StartTime /\ time \in Times
    BY PeriodAssumption, TimeOfType DEF Init, StartTime
  <2>2. ~SubThrows(time, period)
    BY <2>1, HorizonFacts, PeriodFacts, OrderFacts DEF SubThrows
  <2>3. T(prev) = T(time) - T(period)
    BY <2>1, <2>2, PeriodFacts, SubExact
  <2> QED
    BY <2>1, <2>3, PeriodFacts, HorizonFacts DEF Gap
<1> HIDE DEF prev
<1>3. IsFresh(tx.packet, time, prev)
  BY <1>1 DEF IsFresh
<1>4. PacketsOf(tx) = {tx.packet}
  BY <1>1 DEF PacketsOf, Range
<1>5. \A p \in PacketsOf(tx) : Good(p, type, calls)
  BY <1>2, <1>3, <1>4, FreshGood
<1> QED
  BY <1>1, <1>2, <1>5 DEF PacketInv, BufferInv, Init

LEMMA PacketCorrect == Spec => []PacketInv
  BY PacketInit, PacketStep, TimeCorrect, PTL DEF Spec

(***************************************************************************)
(* Every packet fits its array and its TotalLength counts its records: the *)
(* size is tested before a record is written, and RoomGood is what that    *)
(* test is worth.                                                          *)
(***************************************************************************)
THEOREM SoundPackets == Spec => []PacketSound
<1>1. PacketInv => PacketSound
  BY DEF PacketInv, BufferInv, Good, Sized, PacketSound, SoundPacket, AllPackets
<1> QED
  BY <1>1, PacketCorrect, PTL

(***************************************************************************)
(* In every packet the previous pulse is between five periods before the   *)
(* pulse and the pulse, however long the program was silent.               *)
(***************************************************************************)
THEOREM GapsBounded == Spec => []PulseGapBounded
<1>1. PacketInv => PulseGapBounded
  BY DEF PacketInv, BufferInv, Good, Gap, PulseGapBounded, AllPackets
<1> QED
  BY <1>1, PacketCorrect, PTL

(***************************************************************************)
(* A receiver recovers the time of flight of every readout from its stamp  *)
(* and the header of the packet that carries it.                           *)
(***************************************************************************)
THEOREM TofsRecoverable == Spec => []TofRecoverable
<1>1. PacketInv => TofRecoverable
  BY DEF PacketInv, BufferInv, Good, Stamped, TofRecoverable, AllPackets
<1> QED
  BY <1>1, PacketCorrect, PTL
=============================================================================
