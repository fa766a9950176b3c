------------------------- MODULE ReadoutWireProofs -------------------------
(***************************************************************************)
(* The order of the datagrams of class Readout: sequence numbers increase, *)
(* pulses never go back, also when the system clock is set back, a pulse   *)
(* is followed by one that names it as the previous pulse, and what is in  *)
(* the datagrams is the stream of readouts that ReadoutStream promises.    *)
(*                                                                         *)
(* The strengthenings speak of what comes after the wire: the packet under *)
(* construction is numbered after all that were sent and before SeqNum,    *)
(* no packet has a pulse after the one kept for the next header, and the   *)
(* packet goes with the last datagram as that goes with the one before it. *)
(***************************************************************************)
EXTENDS ReadoutProofs, ReadoutRefinement

USE DEF T

Ordered(wire) ==
    \A i, j \in DOMAIN wire : i < j => /\ wire[i].seq < wire[j].seq
                                       /\ T(wire[i].pulse) <= T(wire[j].pulse)

Behind(wire, seq, pulse) ==
    \A i \in DOMAIN wire : wire[i].seq < seq /\ T(wire[i].pulse) <= T(pulse)

OrderInv(x) == /\ Ordered(x.wire)
               /\ Behind(x.wire, x.packet.seq, x.packet.pulse)
               /\ x.packet.seq < x.seqNum
               /\ T(x.packet.pulse) <= T(x.pulse)

---------------------------------------------------------------------------
LEMMA BufferTypes ==
    ASSUME NEW x \in AnyBuffer
    PROVE  /\ x.wire \in Seq(Packets(Times, Readouts))
           /\ x.packet.seq \in Nat /\ x.seqNum \in Nat
           /\ x.packet.pulse \in Times /\ x.pulse \in Times
           /\ T(x.packet.pulse) \in Nat /\ T(x.pulse) \in Nat
           /\ \A i \in DOMAIN x.wire : /\ x.wire[i].seq \in Nat
                                       /\ T(x.wire[i].pulse) \in Nat
<1>1. /\ x.wire \in Seq(Packets(Times, Readouts))
      /\ x.packet \in Packets(Times, Readouts)
      /\ x.seqNum \in Nat /\ x.pulse \in Times
  BY DEF AnyBuffer, Buffers
<1>2. \A i \in DOMAIN x.wire : x.wire[i] \in Packets(Times, Readouts)
  BY <1>1
<1> QED
  BY <1>1, <1>2, TotalTicksNat DEF Packets

LEMMA BehindLater ==
    ASSUME NEW x \in AnyBuffer, NEW s \in Nat, NEW p \in Times, NEW s2 \in Nat,
           NEW p2 \in Times, Behind(x.wire, s, p), s <= s2, T(p) <= T(p2)
    PROVE  Behind(x.wire, s2, p2)
<1>1. T(p) \in Nat /\ T(p2) \in Nat
  BY TotalTicksNat
<1> QED
  BY <1>1, BufferTypes DEF Behind

LEMMA NewOrdered ==
    ASSUME NEW x \in AnyBuffer, OrderInv(x)
    PROVE  OrderInv(NewPacket(x))
<1> DEFINE y == NewPacket(x)
<1>1. /\ y.packet = [seq |-> x.seqNum, pulse |-> x.pulse, prev |-> x.prev,
                     length |-> HeaderSize, body |-> << >>]
      /\ y.pulse = x.pulse /\ y.wire = x.wire /\ y.seqNum = x.seqNum + 1
  BY NewPacketFacts DEF AnyBuffer
<1> HIDE DEF y
<1>2. y.packet.seq = x.seqNum /\ y.packet.pulse = x.pulse
  BY <1>1
<1>3. Behind(x.wire, x.seqNum, x.pulse)
  BY BufferTypes, BehindLater DEF OrderInv
<1> QED
  BY <1>1, <1>2, <1>3, BufferTypes DEF OrderInv, y

LEMMA SendOrdered ==
    ASSUME NEW x \in AnyBuffer, OrderInv(x)
    PROVE  OrderInv(SendPacket(x))
<1>1. CASE Enabled(x)
  <2> DEFINE y == SendPacket(x)
             n == Len(x.wire)
  <2>1. /\ y.packet = [seq |-> x.seqNum, pulse |-> x.pulse, prev |-> x.prev,
                       length |-> HeaderSize, body |-> << >>]
        /\ y.pulse = x.pulse /\ y.seqNum = x.seqNum + 1
        /\ y.wire = Append(x.wire, x.packet)
    BY <1>1, SendPacketFacts DEF AnyBuffer
  <2> HIDE DEF y
  <2>2. y.packet.seq = x.seqNum /\ y.packet.pulse = x.pulse
    BY <2>1
  <2>3. /\ n \in Nat /\ DOMAIN x.wire = 1 .. n /\ DOMAIN y.wire = 1 .. n + 1
        /\ y.wire[n + 1] = x.packet
        /\ \A i \in 1 .. n : y.wire[i] = x.wire[i]
    BY <2>1, BufferTypes
  <2> HIDE DEF n
  <2>4. Ordered(y.wire)
    <3> SUFFICES ASSUME NEW i \in 1 .. n + 1, NEW j \in 1 .. n + 1, i < j
                 PROVE  /\ y.wire[i].seq < y.wire[j].seq
                        /\ T(y.wire[i].pulse) <= T(y.wire[j].pulse)
      BY <2>3 DEF Ordered
    <3>1. i \in 1 .. n /\ y.wire[i] = x.wire[i]
      BY <2>3
    <3>2. CASE j = n + 1
      BY <2>3, <3>1, <3>2 DEF OrderInv, Behind
    <3>3. CASE j \in 1 .. n
      BY <2>3, <3>1, <3>3 DEF OrderInv, Ordered
    <3> QED
      BY <2>3, <3>2, <3>3
  <2>5. Behind(x.wire, x.seqNum, x.pulse)
    BY BufferTypes, BehindLater DEF OrderInv
  <2>6. Behind(y.wire, x.seqNum, x.pulse)
    <3> SUFFICES ASSUME NEW i \in 1 .. n + 1
                 PROVE  y.wire[i].seq < x.seqNum /\ T(y.wire[i].pulse) <= T(x.pulse)
      BY <2>3 DEF Behind
    <3>1. CASE i = n + 1
      BY <2>3, <3>1 DEF OrderInv
    <3>2. CASE i \in 1 .. n
      BY <2>3, <2>5, <3>2 DEF Behind
    <3> QED
      BY <2>3, <3>1, <3>2
  <2> QED
    BY <2>1, <2>2, <2>4, <2>6, BufferTypes DEF OrderInv, y
<1>2. CASE ~Enabled(x)
  BY <1>2, SendPacketFacts DEF AnyBuffer
<1> QED
  BY <1>1, <1>2

LEMMA RoomOrdered ==
    ASSUME NEW x \in AnyBuffer, OrderInv(x)
    PROVE  OrderInv(CheckSizeAndSend(x))
<1>1. SendPacket(x) \in AnyBuffer
  BY SendPacketType DEF AnyBuffer
<1>2. OrderInv(SendPacket(x))
  BY SendOrdered
<1>3. OrderInv(NewPacket(SendPacket(x)))
  BY <1>1, <1>2, NewOrdered
<1> QED
  BY <1>3 DEF CheckSizeAndSend

LEMMA PutOrdered ==
    ASSUME NEW x \in AnyBuffer, OrderInv(x), Supported(type),
           NEW call \in Nat, NEW t \in Times
    PROVE  OrderInv(Put(x, call, t))
<1> DEFINE r == [call |-> call, time |-> t]
           ty == ReadoutType(type)
           room == CheckSizeAndSend(x)
           y == PutReadout(x, ty, r)
<1>1. r \in Readouts /\ ty \in Packable
  BY DEF Readouts, Supported
<1>2. room \in AnyBuffer
  BY CheckSizeAndSendType DEF AnyBuffer
<1>3. OrderInv(room)
  BY RoomOrdered
<1>4. room.pulse = x.pulse
  BY CheckSizeAndSendFacts DEF AnyBuffer
<1>5. /\ y.pulse = x.pulse /\ y.wire = room.wire /\ y.seqNum = room.seqNum
      /\ y.packet = Written(room.packet, r, room.dataSize + RecordSize(ty))
  BY <1>1, PutReadoutFacts DEF AnyBuffer
<1> HIDE DEF room, y, r
<1>6. room.packet \in Packets(Times, Readouts)
  BY <1>2 DEF AnyBuffer, Buffers
<1>7. y.packet.seq = room.packet.seq /\ y.packet.pulse = room.packet.pulse
  BY <1>5, <1>6 DEF Written, Packets
<1> QED
  BY <1>3, <1>4, <1>5, <1>7 DEF OrderInv, Put, y, r

LEMMA UpdatedOrdered ==
    ASSUME TypeOK, TimeInv, ~UpdateThrows, tx.pulse = time, OrderInv(tx)
    PROVE  OrderInv(UpdatedTx)
<1> DEFINE s == SendPacket(tx)
           u == SetPulseTime(s, Pulse, PrevPulse)
<1>1. s \in AnyBuffer /\ s.pulse = time
  BY SendPacketType, SendPacketFacts DEF TypeOK, AnyBuffer
<1>2. OrderInv(s)
  BY SendOrdered DEF TypeOK, AnyBuffer
<1>3. u \in AnyBuffer
  BY <1>1, PulseType, SetPulseTimeType DEF AnyBuffer
<1>4. /\ u.pulse = Pulse /\ u.packet = s.packet /\ u.wire = s.wire
      /\ u.seqNum = s.seqNum
  BY <1>1, SetPulseTimeFacts DEF AnyBuffer
<1>5. UpdatedTx = NewPacket(u)
  BY DEF UpdatedTx
<1> HIDE DEF s, u
<1>6. T(time) <= T(Pulse) /\ T(Pulse) \in Nat /\ T(time) \in Nat
  BY PulseExact, NowFacts DEF UpdateThrows
<1>7. T(u.packet.pulse) <= T(u.pulse)
  BY <1>1, <1>2, <1>4, <1>6, BufferTypes DEF OrderInv
<1>8. OrderInv(u)
  BY <1>2, <1>4, <1>7 DEF OrderInv
<1> QED
  BY <1>3, <1>5, <1>8, NewOrdered

---------------------------------------------------------------------------
LEMMA AddReadoutOrdered ==
    ASSUME TypeOK, NEW x \in AnyBuffer, OrderInv(x), NEW ref \in Times,
           NEW tof \in Tofs, NEW weighted \in BOOLEAN,
           AddReadout(x, ref, tof, weighted)
    PROVE  OrderInv(tx')
<1> DEFINE t == Add(TimeOf(tof), ref)
<1>1. t \in Times /\ Len(calls) + 1 \in Nat
  BY StepsAssumption, TimeOfType, AddType DEF TypeOK
<1> HIDE DEF t
<1>2. \/ tx' = x
      \/ Supported(type) /\ tx' = Put(x, Len(calls) + 1, t)
  BY DEF AddReadout, Buffer, t
<1> QED
  BY <1>1, <1>2, PutOrdered

LEMMA OrderStep ==
    ASSUME TypeOK, TimeInv, PacketInv, OrderInv(tx), [Next]_vars
    PROVE  OrderInv(tx')
<1>1. tx \in AnyBuffer /\ time \in Times /\ tx.pulse = time
  BY DEF TypeOK, AnyBuffer, PacketInv
<1>2. ASSUME ~UpdateThrows
      PROVE  OrderInv(UpdatedTx) /\ UpdatedTx \in AnyBuffer /\ Pulse \in Times
  BY <1>1, <1>2, UpdatedOrdered, UpdatedTxType, PulseType DEF AnyBuffer
<1>3. ASSUME NEW tof \in Tofs, NEW weighted \in BOOLEAN, ReadoutAdd(tof, weighted)
      PROVE  OrderInv(tx')
  BY <1>2, <1>3, AddReadoutOrdered DEF ReadoutAdd
<1>4. ASSUME NEW tof \in Tofs, NEW weighted \in BOOLEAN, MethodAdd(tof, weighted)
      PROVE  OrderInv(tx')
  BY <1>1, <1>4, AddReadoutOrdered DEF MethodAdd
<1>5. ASSUME NEW draw \in 0 .. MaxDraw, CopyStep(draw) PROVE OrderInv(tx')
  <2>1. \/ tx' = tx
        \/ Supported(type) /\ tx' = Put(tx, Len(calls), last)
    BY <1>5 DEF CopyStep
  <2>2. Len(calls) \in Nat /\ last \in Times
    BY DEF TypeOK
  <2> QED
    BY <1>1, <2>1, <2>2, PutOrdered
<1>6. CASE ReadoutSetPulseTime
  BY <1>2, <1>6 DEF ReadoutSetPulseTime
<1>7. CASE ReadoutSend \/ Destroy
  BY <1>1, <1>7, SendOrdered DEF ReadoutSend, Destroy
<1>8. CASE ReadoutNewPacket
  BY <1>1, <1>8, NewOrdered DEF ReadoutNewPacket
<1>9. ASSUME NEW to \in {"enabled", "disabled"}, SwitchNetwork(to)
      PROVE  OrderInv(tx')
  <2>1. /\ tx'.packet = tx.packet /\ tx'.pulse = tx.pulse
        /\ tx'.wire = tx.wire /\ tx'.seqNum = tx.seqNum
    BY <1>1, <1>9 DEF SwitchNetwork, AnyBuffer, Buffers
  <2> QED
    BY <2>1 DEF OrderInv
<1>10. CASE UpdateFails \/ DumpTo \/ Done \/ UNCHANGED vars
  BY <1>10 DEF UpdateFails, DumpTo, Done, vars, object
<1>11. CASE (\E d \in ClockSteps : Tick(d)) \/ (\E d \in StepBacks : StepBack(d))
  BY <1>11 DEF Tick, StepBack, object
<1> QED
  BY <1>3, <1>4, <1>5, <1>6, <1>7, <1>8, <1>9, <1>10, <1>11 DEF Next

LEMMA OrderInit == Init => OrderInv(tx)
<1> SUFFICES ASSUME Init PROVE OrderInv(tx)
  OBVIOUS
<1>1. time \in Times /\ T(time) \in Nat
  BY PeriodAssumption, TimeOfType, TotalTicksNat DEF Init
<1>2. /\ tx.pulse = time /\ tx.seqNum = 1 /\ tx.wire = << >>
      /\ tx.packet.seq = 0 /\ tx.packet.pulse = time
  BY DEF Init, FirstPacket
<1> QED
  BY <1>1, <1>2 DEF OrderInv, Ordered, Behind

(***************************************************************************)
(* Datagrams leave with increasing sequence numbers and pulses that never  *)
(* go back, whatever the clock, the network and the calls do.              *)
(***************************************************************************)
THEOREM OrderedWire == Spec => []WireOrdered
<1>1. TypeOK /\ TimeInv /\ PacketInv /\ OrderInv(tx) /\ [Next]_vars => OrderInv(tx)'
  BY OrderStep DEF OrderInv, Ordered, Behind
<1>2. OrderInv(tx) => WireOrdered
  BY DEF OrderInv, Ordered, WireOrdered
<1> QED
  BY <1>1, <1>2, OrderInit, TimeCorrect, PacketCorrect, PTL DEF Spec

---------------------------------------------------------------------------
(***************************************************************************)
(* The previous pulse.  The packet under construction has the times kept   *)
(* for the next header, of which the pulse is the reference time; it goes  *)
(* with the last datagram as a datagram goes with the one before it.       *)
(***************************************************************************)
Follows(p, q) ==
    \/ p.pulse = q.pulse
    \/ q.prev = p.pulse
    \/ /\ T(q.pulse) - T(p.pulse) >= 5 * T(period)
       /\ T(q.pulse) - T(q.prev) = T(period)

Linked(wire, packet) ==
    /\ \A i \in 1 .. Len(wire) - 1 : Follows(wire[i], wire[i + 1])
    /\ wire # << >> => Follows(wire[Len(wire)], packet)

LinkInv(x) == /\ Enabled(x)
              /\ Linked(x.wire, x.packet)
              /\ x.packet.pulse = x.pulse /\ x.packet.prev = x.prev

(***************************************************************************)
(* A packet can be sent, and one with the same times begun.                *)
(***************************************************************************)
LEMMA LinkedSame ==
    ASSUME NEW wire, NEW p, NEW q, Linked(wire, p), q.pulse = p.pulse, q.prev = p.prev
    PROVE  Linked(wire, q)
  BY DEF Linked, Follows

LEMMA LinkedLonger ==
    ASSUME NEW wire \in Seq(Packets(Times, Readouts)),
           NEW p \in Packets(Times, Readouts), NEW q,
           Linked(wire, p), Follows(p, q)
    PROVE  Linked(Append(wire, p), q)
<1> DEFINE more == Append(wire, p)
<1> PICK n \in Nat : n = Len(wire)
  OBVIOUS
<1>1. /\ Len(more) = n + 1 /\ more[n + 1] = p
      /\ \A i \in 1 .. n : more[i] = wire[i]
      /\ n # 0 => wire # << >>
  OBVIOUS
<1> HIDE DEF more
<1>2. ASSUME NEW i \in 1 .. n PROVE Follows(more[i], more[i + 1])
  <2>1. CASE i = n
    BY <1>1, <2>1 DEF Linked
  <2>2. CASE i # n
    <3>1. i \in 1 .. n - 1 /\ i + 1 \in 1 .. n
      BY <2>2
    <3> QED
      BY <1>1, <3>1 DEF Linked
  <2> QED
    BY <2>1, <2>2
<1>3. Follows(more[Len(more)], q)
  BY <1>1
<1>4. Len(more) - 1 = n
  BY <1>1
<1> QED
  BY <1>2, <1>3, <1>4 DEF Linked, more

LEMMA NewLinked ==
    ASSUME NEW x \in AnyBuffer, LinkInv(x)
    PROVE  LinkInv(NewPacket(x))
<1> DEFINE y == NewPacket(x)
<1>1. /\ y.packet = [seq |-> x.seqNum, pulse |-> x.pulse, prev |-> x.prev,
                     length |-> HeaderSize, body |-> << >>]
      /\ y.pulse = x.pulse /\ y.prev = x.prev /\ y.wire = x.wire
      /\ y.network = x.network
  BY NewPacketFacts DEF AnyBuffer
<1> HIDE DEF y
<1>2. y.packet.pulse = x.pulse /\ y.packet.prev = x.prev
  BY <1>1
<1>3. Linked(y.wire, y.packet)
  BY <1>1, <1>2, LinkedSame DEF LinkInv
<1> QED
  BY <1>1, <1>2, <1>3 DEF LinkInv, Enabled, y

LEMMA SendLinked ==
    ASSUME NEW x \in AnyBuffer, LinkInv(x)
    PROVE  LinkInv(SendPacket(x))
<1> DEFINE y == SendPacket(x)
<1>1. /\ y.packet = [seq |-> x.seqNum, pulse |-> x.pulse, prev |-> x.prev,
                     length |-> HeaderSize, body |-> << >>]
      /\ y.pulse = x.pulse /\ y.prev = x.prev /\ y.network = x.network
      /\ y.wire = Append(x.wire, x.packet)
  BY SendPacketFacts DEF AnyBuffer, LinkInv
<1>2. x.wire \in Seq(Packets(Times, Readouts)) /\ x.packet \in Packets(Times, Readouts)
  BY DEF AnyBuffer, Buffers
<1> HIDE DEF y
<1>3. y.packet.pulse = x.pulse /\ y.packet.prev = x.prev
  BY <1>1
<1>4. Follows(x.packet, y.packet) /\ Linked(x.wire, x.packet)
  BY <1>3 DEF LinkInv, Follows
<1>5. Linked(y.wire, y.packet)
  BY <1>1, <1>2, <1>4, LinkedLonger
<1> QED
  BY <1>1, <1>3, <1>5 DEF LinkInv, Enabled, y

LEMMA PutLinked ==
    ASSUME NEW x \in AnyBuffer, LinkInv(x), Supported(type),
           NEW call \in Nat, NEW t \in Times
    PROVE  LinkInv(Put(x, call, t))
<1> DEFINE r == [call |-> call, time |-> t]
           ty == ReadoutType(type)
           room == CheckSizeAndSend(x)
           y == PutReadout(x, ty, r)
<1>1. r \in Readouts /\ ty \in Packable
  BY DEF Readouts, Supported
<1>2. room \in AnyBuffer
  BY CheckSizeAndSendType DEF AnyBuffer
<1>3. LinkInv(room)
  <2>1. SendPacket(x) \in AnyBuffer /\ LinkInv(SendPacket(x))
    BY SendPacketType, SendLinked DEF AnyBuffer
  <2>2. LinkInv(NewPacket(SendPacket(x)))
    BY <2>1, NewLinked
  <2> QED
    BY <2>2 DEF CheckSizeAndSend
<1>4. room.pulse = x.pulse /\ room.prev = x.prev /\ room.network = x.network
  BY CheckSizeAndSendFacts DEF AnyBuffer
<1>5. /\ y.pulse = x.pulse /\ y.prev = x.prev /\ y.network = x.network
      /\ y.wire = room.wire
      /\ y.packet = Written(room.packet, r, room.dataSize + RecordSize(ty))
  BY <1>1, PutReadoutFacts DEF AnyBuffer
<1> HIDE DEF room, y, r
<1>6. room.packet \in Packets(Times, Readouts)
  BY <1>2 DEF AnyBuffer, Buffers
<1>7. y.packet.pulse = room.packet.pulse /\ y.packet.prev = room.packet.prev
  BY <1>5, <1>6 DEF Written, Packets
<1>8. Linked(room.wire, y.packet)
  BY <1>3, <1>7, LinkedSame DEF LinkInv
<1> QED
  BY <1>3, <1>4, <1>5, <1>7, <1>8 DEF LinkInv, Enabled, Put, y, r

(***************************************************************************)
(* The pulse an update finds is the one all packets since have carried; it *)
(* becomes the previous pulse, or lies five periods back or more.          *)
(***************************************************************************)
LEMMA PrevPulseChoice ==
    ASSUME TypeOK, TimeInv, ~UpdateThrows
    PROVE  \/ PrevPulse = time
           \/ /\ T(Pulse) - T(time) >= 5 * T(period)
              /\ T(Pulse) - T(PrevPulse) = T(period)
<1>1. ~SubThrows(Now, time)
  BY DEF UpdateThrows
<1>2. /\ Pulse \in Times /\ time \in Times
      /\ T(Pulse) \in Nat /\ T(time) \in Nat /\ ~SubThrows(Pulse, time)
  BY <1>1, PulseExact, PulseType, NowFacts
<1>3. T(Sub(Pulse, time)) = T(Pulse) - T(time) /\ Sub(Pulse, time) \in Times
  BY <1>2, SubExact, SubType
<1>4. T(Mul(period, 5)) = T(period) * 5 /\ Mul(period, 5) \in Times
  BY HorizonAssumption, PeriodFacts, MulExact, MulType DEF Range32
<1>5. CASE GapTooLong
  <2>1. ~SubThrows(Pulse, period)
    BY <1>5 DEF UpdateThrows
  <2>2. T(PrevPulse) = T(Pulse) - T(period)
    BY <1>2, <1>5, <2>1, PeriodFacts, SubExact DEF PrevPulse
  <2>3. T(Sub(Pulse, time)) >= T(Mul(period, 5))
    BY <1>3, <1>4, <1>5, OrderFacts DEF GapTooLong
  <2>4. T(Pulse) - T(time) >= 5 * T(period)
    BY <1>2, <1>3, <1>4, <2>3, PeriodFacts
  <2> QED
    BY <1>2, <2>2, <2>4, PeriodFacts
<1>6. CASE ~GapTooLong
  BY <1>6 DEF PrevPulse
<1> QED
  BY <1>5, <1>6

LEMMA UpdatedLinked ==
    ASSUME TypeOK, TimeInv, ~UpdateThrows, tx.pulse = time, LinkInv(tx)
    PROVE  LinkInv(UpdatedTx)
<1> DEFINE s == SendPacket(tx)
           u == SetPulseTime(s, Pulse, PrevPulse)
           y == NewPacket(u)
<1>1. tx \in AnyBuffer
  BY DEF TypeOK, AnyBuffer
<1>2. s \in AnyBuffer
  BY <1>1, SendPacketType DEF AnyBuffer
<1>3. u \in AnyBuffer
  BY <1>2, PulseType, SetPulseTimeType DEF AnyBuffer
<1>4. /\ s.wire = Append(tx.wire, tx.packet) /\ s.network = tx.network
      /\ tx.wire \in Seq(Packets(Times, Readouts))
      /\ tx.packet \in Packets(Times, Readouts)
  <2>1. Enabled(tx)
    BY DEF LinkInv
  <2>2. s.wire = Append(tx.wire, tx.packet) /\ s.network = tx.network
    BY <1>1, <2>1, SendPacketFacts DEF AnyBuffer
  <2> QED
    BY <1>1, <2>2 DEF AnyBuffer, Buffers
<1>5. u.pulse = Pulse /\ u.prev = PrevPulse /\ u.wire = s.wire /\ u.network = s.network
  BY <1>2, SetPulseTimeFacts DEF AnyBuffer
<1>6. /\ y.packet = [seq |-> u.seqNum, pulse |-> u.pulse, prev |-> u.prev,
                     length |-> HeaderSize, body |-> << >>]
      /\ y.pulse = u.pulse /\ y.prev = u.prev /\ y.wire = u.wire
      /\ y.network = u.network
  BY <1>3, NewPacketFacts DEF AnyBuffer
<1>7. UpdatedTx = y
  BY DEF UpdatedTx
<1> HIDE DEF s, u, y
<1>8. y.packet.pulse = Pulse /\ y.packet.prev = PrevPulse
  BY <1>5, <1>6
<1>9. tx.packet.pulse = time /\ Linked(tx.wire, tx.packet)
  BY DEF LinkInv
<1>10. Follows(tx.packet, y.packet)
  BY <1>8, <1>9, PrevPulseChoice DEF Follows
<1>11. Linked(y.wire, y.packet)
  BY <1>4, <1>5, <1>6, <1>9, <1>10, LinkedLonger
<1> QED
  BY <1>4, <1>5, <1>6, <1>7, <1>8, <1>11 DEF LinkInv, Enabled

---------------------------------------------------------------------------
LEMMA AddReadoutLinked ==
    ASSUME TypeOK, NEW x \in AnyBuffer, LinkInv(x), NEW ref \in Times,
           NEW tof \in Tofs, NEW weighted \in BOOLEAN,
           AddReadout(x, ref, tof, weighted)
    PROVE  LinkInv(tx')
<1> DEFINE t == Add(TimeOf(tof), ref)
<1>1. t \in Times /\ Len(calls) + 1 \in Nat
  BY StepsAssumption, TimeOfType, AddType DEF TypeOK
<1> HIDE DEF t
<1>2. \/ tx' = x
      \/ Supported(type) /\ tx' = Put(x, Len(calls) + 1, t)
  BY DEF AddReadout, Buffer, t
<1> QED
  BY <1>1, <1>2, PutLinked

LEMMA LinkStep ==
    ASSUME TypeOK, TimeInv, PacketInv, LinkInv(tx), [Next]_vars,
           "readout_disable_network" \notin Calls
    PROVE  LinkInv(tx')
<1>1. tx \in AnyBuffer /\ time \in Times /\ tx.pulse = time
  BY DEF TypeOK, AnyBuffer, PacketInv
<1>2. ASSUME ~UpdateThrows
      PROVE  LinkInv(UpdatedTx) /\ UpdatedTx \in AnyBuffer /\ Pulse \in Times
  BY <1>1, <1>2, UpdatedLinked, UpdatedTxType, PulseType DEF AnyBuffer
<1>3. ASSUME NEW tof \in Tofs, NEW weighted \in BOOLEAN, ReadoutAdd(tof, weighted)
      PROVE  LinkInv(tx')
  BY <1>2, <1>3, AddReadoutLinked DEF ReadoutAdd
<1>4. ASSUME NEW tof \in Tofs, NEW weighted \in BOOLEAN, MethodAdd(tof, weighted)
      PROVE  LinkInv(tx')
  BY <1>1, <1>4, AddReadoutLinked DEF MethodAdd
<1>5. ASSUME NEW draw \in 0 .. MaxDraw, CopyStep(draw) PROVE LinkInv(tx')
  <2>1. \/ tx' = tx
        \/ Supported(type) /\ tx' = Put(tx, Len(calls), last)
    BY <1>5 DEF CopyStep
  <2>2. Len(calls) \in Nat /\ last \in Times
    BY DEF TypeOK
  <2> QED
    BY <1>1, <2>1, <2>2, PutLinked
<1>6. CASE ReadoutSetPulseTime
  BY <1>2, <1>6 DEF ReadoutSetPulseTime
<1>7. CASE ReadoutSend \/ Destroy
  BY <1>1, <1>7, SendLinked DEF ReadoutSend, Destroy
<1>8. CASE ReadoutNewPacket
  BY <1>1, <1>8, NewLinked DEF ReadoutNewPacket
<1>9. ASSUME NEW to \in {"enabled", "disabled"}, SwitchNetwork(to)
      PROVE  LinkInv(tx')
  <2>1. to = "enabled"
    BY <1>9 DEF SwitchNetwork, Called
  <2>2. /\ tx'.packet = tx.packet /\ tx'.pulse = tx.pulse /\ tx'.prev = tx.prev
        /\ tx'.wire = tx.wire /\ tx'.network = "enabled"
    BY <1>1, <1>9, <2>1 DEF SwitchNetwork, AnyBuffer, Buffers
  <2> QED
    BY <2>2 DEF LinkInv, Enabled
<1>10. CASE UpdateFails \/ DumpTo \/ Done \/ UNCHANGED vars
  BY <1>10 DEF UpdateFails, DumpTo, Done, vars, object
<1>11. CASE (\E d \in ClockSteps : Tick(d)) \/ (\E d \in StepBacks : StepBack(d))
  BY <1>11 DEF Tick, StepBack, object
<1> QED
  BY <1>3, <1>4, <1>5, <1>6, <1>7, <1>8, <1>9, <1>10, <1>11 DEF Next

LEMMA LinkInit == Init => LinkInv(tx)
<1> SUFFICES ASSUME Init PROVE LinkInv(tx)
  OBVIOUS
<1>1. /\ tx.wire = << >> /\ tx.network = "enabled"
      /\ tx.packet.pulse = tx.pulse /\ tx.packet.prev = tx.prev
  BY DEF Init, FirstPacket
<1> QED
  BY <1>1 DEF LinkInv, Linked, Enabled

(***************************************************************************)
(* With the network on, the previous pulse in a header is the pulse of the *)
(* datagram before the pulse changed, or one period back after a gap of    *)
(* five periods (ReadoutClass.h:72-85), also when the clock is set back.   *)
(***************************************************************************)
THEOREM PrevPulsesReal ==
    ASSUME "readout_disable_network" \notin Calls
    PROVE  Spec => []PrevPulseIsReal
<1>1. TypeOK /\ TimeInv /\ PacketInv /\ LinkInv(tx) /\ [Next]_vars => LinkInv(tx)'
  BY LinkStep DEF LinkInv, Linked, Follows, Enabled
<1>2. LinkInv(tx) => PrevPulseIsReal
  BY DEF LinkInv, Linked, Follows, PrevPulseIsReal
<1> QED
  BY <1>1, <1>2, LinkInit, TimeCorrect, PacketCorrect, PTL DEF Spec

---------------------------------------------------------------------------
(***************************************************************************)
(* The stream: what the operations of the buffer do to what is pending and *)
(* to the batches.                                                         *)
(***************************************************************************)
Pending(x) == CallsOf(x.packet.body)
Batches(x) == [i \in DOMAIN x.wire |-> CallsOf(x.wire[i].body)]

Erased(x, y) == Pending(y) = << >> /\ Batches(y) = Batches(x) /\ y.network = x.network

Flushed(x, y) == /\ Pending(y) = << >>
                 /\ Batches(y) = Append(Batches(x), Pending(x))
                 /\ y.network = x.network

LEMMA SequenceIs ==
    ASSUME NEW S, NEW n \in Nat, NEW c,
           c = [i \in 1 .. n |-> c[i]], \A i \in 1 .. n : c[i] \in S
    PROVE  /\ c \in Seq(S) /\ Len(c) = n
           /\ \A e \in S :
                 Append(c, e) = [i \in 1 .. n + 1 |-> IF i = n + 1 THEN e ELSE c[i]]
  OBVIOUS

LEMMA CallsOfNone == CallsOf(<< >>) = << >>
  BY DEF CallsOf

LEMMA CallsOfType ==
    ASSUME NEW body \in Seq(Readouts)
    PROVE  CallsOf(body) \in Seq(Nat)
<1> DEFINE c == CallsOf(body)
<1> PICK n \in Nat : n = Len(body)
  OBVIOUS
<1>1. DOMAIN body = 1 .. n /\ \A k \in 1 .. n : body[k] \in Readouts
  OBVIOUS
<1>2. c = [k \in 1 .. n |-> body[k].call] /\ \A k \in 1 .. n : body[k].call \in Nat
  BY <1>1 DEF CallsOf, Readouts
<1> HIDE DEF c
<1>3. c = [k \in 1 .. n |-> c[k]] /\ \A k \in 1 .. n : c[k] \in Nat
  BY <1>2
<1>4. c \in Seq(Nat)
  BY <1>3, SequenceIs
<1> QED
  BY <1>4 DEF c

LEMMA CallsOfAppend ==
    ASSUME NEW body \in Seq(Readouts), NEW r \in Readouts
    PROVE  CallsOf(Append(body, r)) = Append(CallsOf(body), r.call)
<1> PICK n \in Nat : n = Len(body)
  OBVIOUS
<1>1. /\ DOMAIN body = 1 .. n /\ DOMAIN Append(body, r) = 1 .. n + 1
      /\ Append(body, r)[n + 1] = r
      /\ \A k \in 1 .. n : Append(body, r)[k] = body[k] /\ body[k] \in Readouts
  OBVIOUS
<1>2. r.call \in Nat /\ \A k \in 1 .. n : body[k].call \in Nat
  BY <1>1 DEF Readouts
<1> DEFINE c == CallsOf(body)
           d == CallsOf(Append(body, r))
<1>3. /\ c = [k \in 1 .. n |-> body[k].call]
      /\ d = [k \in 1 .. n + 1 |-> Append(body, r)[k].call]
  BY <1>1 DEF CallsOf
<1> HIDE DEF c, d
<1>4. Append(c, r.call) = [k \in 1 .. n + 1 |-> IF k = n + 1 THEN r.call ELSE c[k]]
  BY <1>2, <1>3, SequenceIs
<1>5. \A k \in 1 .. n + 1 :
         Append(body, r)[k].call = IF k = n + 1 THEN r.call ELSE c[k]
  BY <1>1, <1>3
<1> QED
  BY <1>3, <1>4, <1>5 DEF c, d

LEMMA BatchesAppend ==
    ASSUME NEW x \in AnyBuffer, NEW y, y.wire = Append(x.wire, x.packet)
    PROVE  Batches(y) = Append(Batches(x), Pending(x))
<1> PICK w \in Seq(Packets(Times, Readouts)) : w = x.wire
  BY DEF AnyBuffer, Buffers
<1> PICK p \in Packets(Times, Readouts) : p = x.packet
  BY DEF AnyBuffer, Buffers
<1> PICK n \in Nat : n = Len(w)
  OBVIOUS
<1>1. /\ DOMAIN w = 1 .. n /\ DOMAIN Append(w, p) = 1 .. n + 1
      /\ Append(w, p)[n + 1] = p
      /\ \A i \in 1 .. n : Append(w, p)[i] = w[i] /\ w[i] \in Packets(Times, Readouts)
  OBVIOUS
<1> DEFINE c == Batches(x)
           d == Batches(y)
           e == Pending(x)
<1>2. /\ c = [i \in 1 .. n |-> CallsOf(w[i].body)]
      /\ d = [i \in 1 .. n + 1 |-> CallsOf(Append(w, p)[i].body)]
      /\ e = CallsOf(p.body)
  BY <1>1 DEF Batches, Pending
<1> HIDE DEF c, d, e
<1>3. \A q \in Packets(Times, Readouts) : CallsOf(q.body) \in Seq(Nat)
  BY CallsOfType DEF Packets
<1>4. e \in Seq(Nat) /\ \A i \in 1 .. n : CallsOf(w[i].body) \in Seq(Nat)
  BY <1>1, <1>2, <1>3
<1> DEFINE Bodies == Seq(Nat)
<1>5. e \in Bodies /\ c = [i \in 1 .. n |-> c[i]] /\ \A i \in 1 .. n : c[i] \in Bodies
  BY <1>2, <1>4
<1> HIDE DEF Bodies
<1>6. Append(c, e) = [i \in 1 .. n + 1 |-> IF i = n + 1 THEN e ELSE c[i]]
  BY <1>5, SequenceIs
<1>7. \A i \in 1 .. n + 1 :
         CallsOf(Append(w, p)[i].body) = IF i = n + 1 THEN e ELSE c[i]
  BY <1>1, <1>2
<1> QED
  BY <1>2, <1>6, <1>7 DEF c, d, e

LEMMA NewErases ==
    ASSUME NEW x \in AnyBuffer
    PROVE  Erased(x, NewPacket(x))
<1> DEFINE y == NewPacket(x)
<1>1. /\ y.packet = [seq |-> x.seqNum, pulse |-> x.pulse, prev |-> x.prev,
                     length |-> HeaderSize, body |-> << >>]
      /\ y.wire = x.wire /\ y.network = x.network
  BY NewPacketFacts DEF AnyBuffer
<1> HIDE DEF y
<1>2. y.packet.body = << >>
  BY <1>1
<1> QED
  BY <1>1, <1>2, CallsOfNone DEF Erased, Pending, Batches, y

LEMMA SendFlushes ==
    ASSUME NEW x \in AnyBuffer, Enabled(x)
    PROVE  Flushed(x, SendPacket(x))
<1> DEFINE y == SendPacket(x)
<1>1. /\ y.packet = [seq |-> x.seqNum, pulse |-> x.pulse, prev |-> x.prev,
                     length |-> HeaderSize, body |-> << >>]
      /\ y.wire = Append(x.wire, x.packet) /\ y.network = x.network
  BY SendPacketFacts DEF AnyBuffer
<1> HIDE DEF y
<1>2. y.packet.body = << >>
  BY <1>1
<1> QED
  BY <1>1, <1>2, CallsOfNone, BatchesAppend DEF Flushed, Pending, y

(***************************************************************************)
(* A second newPacket after send() erases nothing.                         *)
(***************************************************************************)
LEMMA SendNewFlushes ==
    ASSUME NEW x \in AnyBuffer, Enabled(x)
    PROVE  Flushed(x, NewPacket(SendPacket(x)))
<1>1. SendPacket(x) \in AnyBuffer
  BY SendPacketType DEF AnyBuffer
<1>2. Erased(SendPacket(x), NewPacket(SendPacket(x)))
  BY <1>1, NewErases
<1> QED
  BY <1>2, SendFlushes DEF Erased, Flushed

LEMMA UpdatedFlushes ==
    ASSUME TypeOK
    PROVE  /\ Enabled(tx) => Flushed(tx, UpdatedTx)
           /\ ~Enabled(tx) => Erased(tx, UpdatedTx)
           /\ ~Full(UpdatedTx)
<1> DEFINE s == SendPacket(tx)
           u == SetPulseTime(s, Pulse, PrevPulse)
           y == NewPacket(u)
<1>1. tx \in AnyBuffer /\ s \in AnyBuffer
  BY SendPacketType DEF TypeOK, AnyBuffer
<1>2. u \in AnyBuffer
  BY <1>1, PulseType, SetPulseTimeType DEF AnyBuffer
<1>3. u.packet = s.packet /\ u.wire = s.wire /\ u.network = s.network
  BY <1>1, SetPulseTimeFacts DEF AnyBuffer
<1>4. y.dataSize = HeaderSize
  BY <1>2, NewPacketFacts DEF AnyBuffer
<1>5. Erased(u, y)
  BY <1>2, NewErases
<1>6. UpdatedTx = y
  BY DEF UpdatedTx
<1>7. Enabled(tx) => Flushed(tx, s)
  BY <1>1, SendFlushes
<1>8. ~Enabled(tx) => s = tx
  BY <1>1, SendPacketFacts DEF AnyBuffer
<1> HIDE DEF s, u, y
<1>9. Erased(s, y)
  BY <1>3, <1>5 DEF Erased, Pending, Batches
<1>10. ~Full(UpdatedTx)
  BY <1>4, <1>6, BufferAssumption DEF Full, HeaderSize
<1>11. Enabled(tx) => Flushed(tx, y)
  BY <1>7, <1>9 DEF Erased, Flushed
<1>12. ~Enabled(tx) => Erased(tx, y)
  BY <1>8, <1>9
<1> QED
  BY <1>6, <1>10, <1>11, <1>12

LEMMA PutAccepts ==
    ASSUME NEW x \in AnyBuffer, Enabled(x), Supported(type),
           NEW call \in Nat, NEW t \in Times
    PROVE  LET y == Put(x, call, t)
           IN  /\ y.network = x.network
               /\ ~Full(x) => /\ Pending(y) = Append(Pending(x), call)
                              /\ Batches(y) = Batches(x)
               /\ Full(x) => /\ Pending(y) = <<call>>
                             /\ Batches(y) = Append(Batches(x), Pending(x))
<1> DEFINE r == [call |-> call, time |-> t]
           ty == ReadoutType(type)
           room == CheckSizeAndSend(x)
           y == PutReadout(x, ty, r)
<1>1. r \in Readouts /\ ty \in Packable /\ r.call = call
  BY DEF Readouts, Supported
<1>2. room \in AnyBuffer
  BY CheckSizeAndSendType DEF AnyBuffer
<1>3. /\ y.network = x.network /\ y.wire = room.wire
      /\ y.packet = Written(room.packet, r, room.dataSize + RecordSize(ty))
  BY <1>1, PutReadoutFacts DEF AnyBuffer
<1>4. Full(x) => Flushed(x, room)
  BY SendNewFlushes DEF CheckSizeAndSend
<1>5. ~Full(x) => room = x
  BY DEF CheckSizeAndSend
<1>6. y = Put(x, call, t)
  BY DEF Put
<1> HIDE DEF room, y, r
<1>7. room.packet \in Packets(Times, Readouts) /\ room.packet.body \in Seq(Readouts)
  BY <1>2 DEF AnyBuffer, Buffers, Packets
<1>8. y.packet.body = Append(room.packet.body, r)
  BY <1>3, <1>7 DEF Written, Packets
<1>9. Pending(y) = Append(Pending(room), call) /\ Batches(y) = Batches(room)
  BY <1>1, <1>3, <1>7, <1>8, CallsOfAppend DEF Pending, Batches
<1> DEFINE z == Put(x, call, t)
<1>10. z = y
  BY <1>6
<1> HIDE DEF z
<1>11. z.network = x.network
  BY <1>3, <1>10
<1>12. CASE ~Full(x)
  BY <1>5, <1>9, <1>10, <1>11, <1>12 DEF z
<1>13. CASE Full(x)
  <2>1. Append(<< >>, call) = <<call>>
    OBVIOUS
  <2>2. Pending(z) = <<call>> /\ Batches(z) = Append(Batches(x), Pending(x))
    BY <1>4, <1>9, <1>10, <1>13, <2>1 DEF Flushed
  <2> QED
    BY <1>11, <1>13, <2>2 DEF z
<1> QED
  BY <1>12, <1>13

---------------------------------------------------------------------------
(***************************************************************************)
(* The steps of the stream, from what they do to the buffer.  No record in *)
(* a packet is from a later call than the latest, and the loop that packs  *)
(* a weighted readout was entered with the network enabled: it cannot be   *)
(* switched before the loop ends.                                          *)
(***************************************************************************)
LoopInv == /\ Len(calls) <= MaxAdds
           /\ pc = "copy" => Enabled(tx)

LEMMA NoneLater ==
    ASSUME TypeOK, PacketInv, NEW e \in Nat, Len(calls) <= e
    PROVE  Stream!NotBefore(e)
<1> PICK c \in Seq(Nat) : c = calls
  BY DEF TypeOK
<1> PICK n \in Nat : n = Len(c) /\ n <= e
  OBVIOUS
<1>1. \A p \in PacketsOf(tx) : \A k \in DOMAIN p.body : p.body[k].call \in 1 .. n
  BY DEF PacketInv, BufferInv, Good, Stamped
<1>2. tx.packet \in PacketsOf(tx) /\ \A i \in DOMAIN tx.wire : tx.wire[i] \in PacketsOf(tx)
  BY DEF PacketsOf, Range
<1>3. \A p \in PacketsOf(tx) : \A k \in DOMAIN CallsOf(p.body) : CallsOf(p.body)[k] <= e
  BY <1>1 DEF CallsOf
<1> QED
  BY <1>2, <1>3 DEF Stream!NotBefore

LEMMA StreamStutters ==
    ASSUME tx' = tx
    PROVE  UNCHANGED Stream!vars
  BY DEF Stream!vars

LEMMA StreamFlushes ==
    ASSUME Enabled(tx), Flushed(tx, tx')
    PROVE  Stream!Flush
<1>1. CallsOf(tx'.packet.body) = << >>
  BY DEF Flushed, Pending
<1>2. [i \in DOMAIN tx'.wire |-> CallsOf(tx'.wire[i].body)]
        = Append([i \in DOMAIN tx.wire |-> CallsOf(tx.wire[i].body)],
                 CallsOf(tx.packet.body))
  BY DEF Flushed, Pending, Batches
<1>3. Enabled(tx) /\ Enabled(tx')
  BY DEF Flushed, Enabled
<1> QED
  BY <1>1, <1>2, <1>3 DEF Stream!Flush

LEMMA StreamGivesUp ==
    ASSUME ~Enabled(tx), Erased(tx, tx')
    PROVE  Stream!GiveUp
<1>1. CallsOf(tx'.packet.body) = << >>
  BY DEF Erased, Pending
<1>2. [i \in DOMAIN tx'.wire |-> CallsOf(tx'.wire[i].body)]
        = [i \in DOMAIN tx.wire |-> CallsOf(tx.wire[i].body)]
  BY DEF Erased, Batches
<1>3. Enabled(tx') = Enabled(tx)
  BY DEF Erased, Enabled
<1> QED
  BY <1>1, <1>2, <1>3 DEF Stream!GiveUp

LEMMA StreamAccepts ==
    ASSUME NEW e \in 1 .. MaxAdds, Stream!NotBefore(e), Enabled(tx),
           tx'.network = tx.network,
           Pending(tx') = Append(Pending(tx), e), Batches(tx') = Batches(tx)
    PROVE  Stream!Accept(e)
<1>1. Enabled(tx')
  BY DEF Enabled
<1> QED
  BY <1>1 DEF Stream!Accept, Pending, Batches

LEMMA StreamFlushesAndAccepts ==
    ASSUME NEW e \in 1 .. MaxAdds, Stream!NotBefore(e), Enabled(tx),
           tx'.network = tx.network,
           Pending(tx') = <<e>>, Batches(tx') = Append(Batches(tx), Pending(tx))
    PROVE  Stream!FlushAndAccept(e)
<1>1. Enabled(tx')
  BY DEF Enabled
<1> QED
  BY <1>1 DEF Stream!FlushAndAccept, Pending, Batches

LEMMA PutStream ==
    ASSUME TypeOK, Enabled(tx), Supported(type), NEW t \in Times,
           NEW e \in 1 .. MaxAdds, Stream!NotBefore(e), tx' = Put(tx, e, t)
    PROVE  Stream!Next
<1>1. tx \in AnyBuffer /\ e \in Nat
  BY DEF TypeOK, AnyBuffer
<1>2. /\ tx'.network = tx.network
      /\ ~Full(tx) => Pending(tx') = Append(Pending(tx), e) /\ Batches(tx') = Batches(tx)
      /\ Full(tx) => /\ Pending(tx') = <<e>>
                     /\ Batches(tx') = Append(Batches(tx), Pending(tx))
  BY <1>1, PutAccepts
<1>3. CASE Full(tx)
  BY <1>2, <1>3, StreamFlushesAndAccepts DEF Stream!Next
<1>4. CASE ~Full(tx)
  BY <1>2, <1>4, StreamAccepts DEF Stream!Next
<1> QED
  BY <1>3, <1>4

LEMMA UpdatedStream ==
    ASSUME TypeOK, tx' = UpdatedTx
    PROVE  Stream!Next
<1>1. CASE Enabled(tx)
  BY <1>1, UpdatedFlushes, StreamFlushes DEF Stream!Next
<1>2. CASE ~Enabled(tx)
  BY <1>2, UpdatedFlushes, StreamGivesUp DEF Stream!Next
<1> QED
  BY <1>1, <1>2

(***************************************************************************)
(* An update makes room, so a readout packed after it is the first of its  *)
(* packet.                                                                 *)
(***************************************************************************)
LEMMA UpdatedPutStream ==
    ASSUME TypeOK, Enabled(UpdatedTx), Supported(type), NEW t \in Times,
           NEW e \in 1 .. MaxAdds, Stream!NotBefore(e), tx' = Put(UpdatedTx, e, t)
    PROVE  Stream!Next
<1> DEFINE u == UpdatedTx
<1>1. u \in AnyBuffer /\ e \in Nat
  BY UpdatedTxType DEF AnyBuffer
<1>2. Enabled(tx) /\ Flushed(tx, u) /\ ~Full(u)
  BY UpdatedFlushes DEF Erased, Enabled
<1> HIDE DEF u
<1>3. /\ tx'.network = u.network
      /\ Pending(tx') = Append(Pending(u), e) /\ Batches(tx') = Batches(u)
  BY <1>1, <1>2, PutAccepts DEF u
<1>4. Pending(u) = << >> /\ Append(<< >>, e) = <<e>>
  BY <1>2 DEF Flushed
<1>5. /\ tx'.network = tx.network /\ Pending(tx') = <<e>>
      /\ Batches(tx') = Append(Batches(tx), Pending(tx))
  BY <1>2, <1>3, <1>4 DEF Flushed
<1> QED
  BY <1>2, <1>5, StreamFlushesAndAccepts DEF Stream!Next

---------------------------------------------------------------------------
(***************************************************************************)
(* The calls as steps of the stream.  AddReadout packs at most one readout *)
(* into a buffer that is tx itself, or tx after an update.                 *)
(***************************************************************************)
LEMMA AddReadoutCases ==
    ASSUME TypeOK, NEW x, NEW ref \in Times, NEW tof \in Tofs,
           NEW weighted \in BOOLEAN, AddReadout(x, ref, tof, weighted)
    PROVE  \/ tx' = x
           \/ /\ Enabled(tx) /\ Supported(type)
              /\ \E t \in Times : tx' = Put(x, Len(calls) + 1, t)
<1> DEFINE t == Add(TimeOf(tof), ref)
<1>1. t \in Times
  BY StepsAssumption, TimeOfType, AddType
<1> HIDE DEF t
<1>2. \/ tx' = x
      \/ Enabled(tx) /\ Supported(type) /\ tx' = Put(x, Len(calls) + 1, t)
  BY DEF AddReadout, Buffer, t
<1> QED
  BY <1>1, <1>2

LEMMA CallNumber ==
    ASSUME TypeOK, PacketInv, Len(calls) < MaxAdds
    PROVE  Len(calls) + 1 \in 1 .. MaxAdds /\ Stream!NotBefore(Len(calls) + 1)
<1>1. Len(calls) \in Nat /\ MaxAdds \in Nat
  BY BoundsAssumption DEF TypeOK
<1>2. Len(calls) + 1 \in Nat /\ Len(calls) <= Len(calls) + 1
  BY <1>1
<1> QED
  BY <1>1, <1>2, NoneLater

LEMMA ReadoutAddStream ==
    ASSUME TypeOK, PacketInv, NEW tof \in Tofs, NEW weighted \in BOOLEAN,
           ReadoutAdd(tof, weighted)
    PROVE  Stream!Next
<1>1. /\ AddReadout(UpdatedTx, Pulse, tof, weighted)
      /\ Len(calls) < MaxAdds /\ Pulse \in Times
  BY PulseType DEF ReadoutAdd
<1>2. CASE tx' = UpdatedTx
  BY <1>2, UpdatedStream
<1>3. ASSUME NEW t \in Times, Enabled(tx), Supported(type),
             tx' = Put(UpdatedTx, Len(calls) + 1, t)
      PROVE  Stream!Next
  <2>1. Enabled(UpdatedTx)
    BY <1>3, UpdatedFlushes DEF Flushed, Enabled
  <2> QED
    BY <1>1, <1>3, <2>1, CallNumber, UpdatedPutStream
<1> QED
  BY <1>1, <1>2, <1>3, AddReadoutCases

LEMMA MethodAddStream ==
    ASSUME TypeOK, PacketInv, NEW tof \in Tofs, NEW weighted \in BOOLEAN,
           MethodAdd(tof, weighted)
    PROVE  [Stream!Next]_(Stream!vars)
<1>1. AddReadout(tx, time, tof, weighted) /\ Len(calls) < MaxAdds /\ time \in Times
  BY DEF MethodAdd, TypeOK
<1>2. CASE tx' = tx
  BY <1>2, StreamStutters
<1>3. ASSUME NEW t \in Times, Enabled(tx), Supported(type),
             tx' = Put(tx, Len(calls) + 1, t)
      PROVE  Stream!Next
  BY <1>1, <1>3, CallNumber, PutStream
<1> QED
  BY <1>1, <1>2, <1>3, AddReadoutCases

LEMMA CopyStream ==
    ASSUME TypeOK, PacketInv, LoopInv, NEW draw \in 0 .. MaxDraw, CopyStep(draw)
    PROVE  [Stream!Next]_(Stream!vars)
<1>1. CASE tx' = tx
  BY <1>1, StreamStutters
<1>2. CASE Supported(type) /\ tx' = Put(tx, Len(calls), last)
  <2>1. Enabled(tx) /\ last \in Times
    BY DEF CopyStep, LoopInv, TypeOK
  <2>2. Len(calls) \in 1 .. MaxAdds
    <3>1. Len(calls) \in 1 .. Len(calls) /\ Len(calls) \in Nat
      BY DEF CopyStep, PacketInv, Stamped, TypeOK
    <3> QED
      BY <3>1, BoundsAssumption DEF LoopInv
  <2>3. Stream!NotBefore(Len(calls))
    BY <2>2, NoneLater
  <2> QED
    BY <1>2, <2>1, <2>2, <2>3, PutStream
<1> QED
  BY <1>1, <1>2 DEF CopyStep

LEMMA StreamStep ==
    ASSUME TypeOK, PacketInv, LoopInv, [Next]_vars,
           "readout_newPacket" \notin Calls
    PROVE  [Stream!Next]_(Stream!vars)
<1>1. tx \in AnyBuffer
  BY DEF TypeOK, AnyBuffer
<1>2. ASSUME NEW tof \in Tofs, NEW weighted \in BOOLEAN, ReadoutAdd(tof, weighted)
      PROVE  Stream!Next
  BY <1>2, ReadoutAddStream
<1>3. ASSUME NEW tof \in Tofs, NEW weighted \in BOOLEAN, MethodAdd(tof, weighted)
      PROVE  [Stream!Next]_(Stream!vars)
  BY <1>3, MethodAddStream
<1>4. ASSUME NEW draw \in 0 .. MaxDraw, CopyStep(draw)
      PROVE  [Stream!Next]_(Stream!vars)
  BY <1>4, CopyStream
<1>5. CASE ReadoutSetPulseTime
  BY <1>5, UpdatedStream DEF ReadoutSetPulseTime
<1>6. CASE ReadoutSend \/ Destroy
  <2>1. tx' = SendPacket(tx)
    BY <1>6 DEF ReadoutSend, Destroy
  <2>2. CASE Enabled(tx)
    BY <1>1, <2>1, <2>2, SendFlushes, StreamFlushes DEF Stream!Next
  <2>3. CASE ~Enabled(tx)
    BY <2>1, <2>3, StreamStutters DEF SendPacket
  <2> QED
    BY <2>2, <2>3
<1>7. CASE ReadoutNewPacket
  BY <1>7 DEF ReadoutNewPacket, Called
<1>8. ASSUME NEW to \in {"enabled", "disabled"}, SwitchNetwork(to)
      PROVE  [Stream!Next]_(Stream!vars)
  <2>1. /\ tx'.packet = tx.packet /\ tx'.wire = tx.wire /\ tx'.network = to
        /\ tx.network \in {"enabled", "disabled"}
    BY <1>1, <1>8 DEF SwitchNetwork, AnyBuffer, Buffers
  <2>2. /\ CallsOf(tx'.packet.body) = CallsOf(tx.packet.body)
        /\ [i \in DOMAIN tx'.wire |-> CallsOf(tx'.wire[i].body)]
             = [i \in DOMAIN tx.wire |-> CallsOf(tx.wire[i].body)]
    BY <2>1
  <2>3. Enabled(tx') = Enabled(tx) \/ Enabled(tx') = ~Enabled(tx)
    BY DEF Enabled
  <2>4. CASE Enabled(tx') = Enabled(tx)
    BY <2>2, <2>4 DEF Stream!vars
  <2>5. CASE Enabled(tx') = ~Enabled(tx)
    BY <2>2, <2>5 DEF Stream!Switch, Stream!Next
  <2> QED
    BY <2>3, <2>4, <2>5
<1>9. CASE UpdateFails \/ DumpTo \/ Done \/ UNCHANGED vars
  <2>1. tx' = tx
    BY <1>9 DEF UpdateFails, DumpTo, Done, vars, object
  <2> QED
    BY <2>1, StreamStutters
<1>10. CASE (\E d \in ClockSteps : Tick(d)) \/ (\E d \in StepBacks : StepBack(d))
  <2>1. tx' = tx
    BY <1>10 DEF Tick, StepBack, object
  <2> QED
    BY <2>1, StreamStutters
<1> QED
  BY <1>2, <1>3, <1>4, <1>5, <1>6, <1>7, <1>8, <1>9, <1>10 DEF Next

LEMMA LoopStep == TypeOK /\ LoopInv /\ [Next]_vars => LoopInv'
<1> SUFFICES ASSUME TypeOK, LoopInv, [Next]_vars PROVE LoopInv'
  OBVIOUS
<1>0. tx \in AnyBuffer /\ calls \in Seq(Nat) /\ Len(calls) \in Nat /\ MaxAdds \in Nat
  BY BoundsAssumption DEF TypeOK, AnyBuffer
<1>1. ASSUME NEW x, x.network = tx.network, NEW ref, NEW tof \in Tofs, pc = "idle",
             NEW weighted \in BOOLEAN, AddReadout(x, ref, tof, weighted),
             Len(calls) < MaxAdds
      PROVE  LoopInv'
  <2>1. Len(calls') = Len(calls) + 1
    BY <1>0, <1>1, StepsAssumption DEF AddReadout
  <2>2. pc' = "copy" => Enabled(x) /\ tx' = x
    BY <1>1 DEF AddReadout, Buffer, Enabled
  <2> QED
    BY <1>0, <1>1, <2>1, <2>2 DEF LoopInv
<1>2. UpdatedTx.network = tx.network
  BY UpdatedFlushes DEF Flushed, Erased
<1>3. ASSUME NEW tof \in Tofs, NEW weighted \in BOOLEAN,
             ReadoutAdd(tof, weighted) \/ MethodAdd(tof, weighted)
      PROVE  LoopInv'
  BY <1>1, <1>2, <1>3 DEF ReadoutAdd, MethodAdd, Called
<1>4. ASSUME NEW draw \in 0 .. MaxDraw, CopyStep(draw) PROVE LoopInv'
  <2>1. Len(calls) \in Nat /\ last \in Times /\ Enabled(tx) /\ calls' = calls
    BY <1>0, <1>4 DEF CopyStep, TypeOK, LoopInv
  <2>2. tx' = tx \/ (Supported(type) /\ tx' = Put(tx, Len(calls), last))
    BY <1>4 DEF CopyStep
  <2>3. tx'.network = tx.network
    BY <1>0, <2>1, <2>2, PutAccepts
  <2> QED
    BY <2>1, <2>3 DEF LoopInv, Enabled
<1>5. CASE \/ ReadoutSetPulseTime \/ UpdateFails \/ ReadoutSend \/ ReadoutNewPacket
           \/ \E to \in {"enabled", "disabled"} : SwitchNetwork(to)
           \/ DumpTo \/ Destroy
           \/ \E d \in ClockSteps : Tick(d)
           \/ \E d \in StepBacks : StepBack(d)
  <2>1. pc' # "copy" /\ calls' = calls
    BY <1>5 DEF ReadoutSetPulseTime, UpdateFails, ReadoutSend, ReadoutNewPacket,
       SwitchNetwork, DumpTo, Destroy, Tick, StepBack, Called, object
  <2> QED
    BY <2>1 DEF LoopInv
<1>6. CASE Done \/ UNCHANGED vars
  BY <1>6 DEF Done, vars, object, LoopInv
<1> QED
  BY <1>3, <1>4, <1>5, <1>6 DEF Next

(***************************************************************************)
(* Every readout that is packed reaches the wire, as often as it was       *)
(* packed and in the order of the calls: class Readout implements          *)
(* ReadoutStream when the call that drops what is buffered is not made.    *)
(***************************************************************************)
THEOREM StreamImplemented ==
    ASSUME "readout_newPacket" \notin Calls
    PROVE  Spec => ImplementsStream
<1>1. Init => Stream!Init /\ LoopInv
  <2> SUFFICES ASSUME Init PROVE Stream!Init /\ LoopInv
    OBVIOUS
  <2>1. tx.packet.body = << >> /\ tx.wire = << >> /\ tx.network = "enabled"
    BY DEF Init, FirstPacket
  <2>2. Stream!Init
    <3>1. [i \in DOMAIN tx.wire |-> CallsOf(tx.wire[i].body)] = << >>
      BY <2>1
    <3>2. Enabled(tx) = TRUE
      BY <2>1 DEF Enabled
    <3> QED
      BY <2>1, <3>1, <3>2, CallsOfNone DEF Stream!Init
  <2>3. LoopInv
    BY BoundsAssumption DEF Init, LoopInv
  <2> QED
    BY <2>2, <2>3
<1>2. TypeOK /\ PacketInv /\ LoopInv /\ [Next]_vars => [Stream!Next]_(Stream!vars)
  BY StreamStep
<1> QED
  BY <1>1, <1>2, LoopStep, TypeCorrect, PacketCorrect, PTL
     DEF Spec, ImplementsStream, Stream!Spec
=============================================================================
