------------------------- MODULE PacketBufferProofs -------------------------
(***************************************************************************)
(* What each operation on the transmit buffer does to its parts, for any   *)
(* times T and readouts R.                                                 *)
(***************************************************************************)
EXTENDS PacketBuffer, TLAPS

LEMMA RecordSizeNat ==
    ASSUME NEW type \in Packable
    PROVE  RecordSize(type) \in Nat /\ RecordSize(type) > 0
  BY DEF Packable, RecordSize, RecordPrefix

LEMMA RangeOfAppend ==
    ASSUME NEW S, NEW s \in Seq(S), NEW e \in S
    PROVE  Range(Append(s, e)) = Range(s) \cup {e}
<1>1. ASSUME NEW x \in Range(Append(s, e)) PROVE x \in Range(s) \cup {e}
  <2>1. PICK k \in 1 .. Len(s) + 1 : x = Append(s, e)[k]
    BY <1>1 DEF Range
  <2> QED
    BY <2>1 DEF Range
<1>2. ASSUME NEW x \in Range(s) PROVE x \in Range(Append(s, e))
  <2>1. PICK k \in 1 .. Len(s) : x = s[k]
    BY <1>2 DEF Range
  <2>2. Append(s, e)[k] = x /\ k \in DOMAIN Append(s, e)
    BY <2>1
  <2> QED
    BY <2>2 DEF Range
<1>3. e \in Range(Append(s, e))
  <2>1. Append(s, e)[Len(s) + 1] = e /\ Len(s) + 1 \in DOMAIN Append(s, e)
    OBVIOUS
  <2> QED
    BY <2>1 DEF Range
<1> QED
  BY <1>1, <1>2, <1>3

---------------------------------------------------------------------------
(***************************************************************************)
(* Every operation returns a buffer.  Type and effect are separate lemmas: *)
(* a prover that is given "the result is a buffer" as a general fact       *)
(* applies it to its own conclusion for ever.                              *)
(***************************************************************************)
LEMMA FreshPacketType ==
    ASSUME NEW T, NEW R, NEW tx \in Buffers(T, R)
    PROVE  /\ [seq |-> tx.seqNum, pulse |-> tx.pulse, prev |-> tx.prev,
               length |-> HeaderSize, body |-> << >>] \in Packets(T, R)
           /\ tx.seqNum + 1 \in Nat
           /\ HeaderSize \in Nat
  BY DEF Buffers, Packets, HeaderSize

LEMMA NewPacketType ==
    ASSUME NEW T, NEW R, NEW tx \in Buffers(T, R)
    PROVE  NewPacket(tx) \in Buffers(T, R)
<1> DEFINE pkt == [seq |-> tx.seqNum, pulse |-> tx.pulse, prev |-> tx.prev,
                   length |-> HeaderSize, body |-> << >>]
<1>1. pkt \in Packets(T, R) /\ tx.seqNum + 1 \in Nat /\ HeaderSize \in Nat
  BY FreshPacketType
<1>2. NewPacket(tx) = [tx EXCEPT !.packet = pkt, !.seqNum = @ + 1,
                                 !.dataSize = HeaderSize]
  BY DEF NewPacket
<1> HIDE DEF pkt
<1> QED
  BY <1>1, <1>2 DEF Buffers

LEMMA NewPacketFacts ==
    ASSUME NEW T, NEW R, NEW tx \in Buffers(T, R)
    PROVE  /\ NewPacket(tx).packet
                = [seq |-> tx.seqNum, pulse |-> tx.pulse, prev |-> tx.prev,
                   length |-> HeaderSize, body |-> << >>]
           /\ NewPacket(tx).pulse = tx.pulse
           /\ NewPacket(tx).prev = tx.prev
           /\ NewPacket(tx).wire = tx.wire
           /\ NewPacket(tx).network = tx.network
           /\ NewPacket(tx).seqNum = tx.seqNum + 1
           /\ NewPacket(tx).dataSize = HeaderSize
  BY DEF NewPacket, Buffers

LEMMA SetPulseTimeType ==
    ASSUME NEW T, NEW R, NEW tx \in Buffers(T, R), NEW pulse \in T, NEW prev \in T
    PROVE  SetPulseTime(tx, pulse, prev) \in Buffers(T, R)
  BY DEF SetPulseTime, Buffers

LEMMA SetPulseTimeFacts ==
    ASSUME NEW T, NEW R, NEW tx \in Buffers(T, R), NEW pulse, NEW prev
    PROVE  LET x == SetPulseTime(tx, pulse, prev)
           IN  /\ x.pulse = pulse /\ x.prev = prev
               /\ x.packet = tx.packet /\ x.wire = tx.wire
               /\ x.network = tx.network
               /\ x.seqNum = tx.seqNum /\ x.dataSize = tx.dataSize
  BY DEF SetPulseTime, Buffers

(***************************************************************************)
(* send(): nothing, or the packet goes onto the wire and a new one begins. *)
(***************************************************************************)
LEMMA SendPacketType ==
    ASSUME NEW T, NEW R, NEW tx \in Buffers(T, R)
    PROVE  SendPacket(tx) \in Buffers(T, R)
<1>1. [tx EXCEPT !.wire = Append(@, tx.packet)] \in Buffers(T, R)
  BY DEF Buffers
<1> QED
  BY <1>1, NewPacketType DEF SendPacket

LEMMA SendPacketFacts ==
    ASSUME NEW T, NEW R, NEW tx \in Buffers(T, R)
    PROVE  /\ SendPacket(tx).pulse = tx.pulse
           /\ SendPacket(tx).prev = tx.prev
           /\ SendPacket(tx).network = tx.network
           /\ ~Enabled(tx) => SendPacket(tx) = tx
           /\ Enabled(tx) =>
                /\ SendPacket(tx).packet
                     = [seq |-> tx.seqNum, pulse |-> tx.pulse, prev |-> tx.prev,
                        length |-> HeaderSize, body |-> << >>]
                /\ SendPacket(tx).wire = Append(tx.wire, tx.packet)
                /\ SendPacket(tx).seqNum = tx.seqNum + 1
                /\ SendPacket(tx).dataSize = HeaderSize
<1> DEFINE y == [tx EXCEPT !.wire = Append(@, tx.packet)]
<1>1. /\ y \in Buffers(T, R)
      /\ y.pulse = tx.pulse /\ y.prev = tx.prev /\ y.seqNum = tx.seqNum
      /\ y.network = tx.network
      /\ y.wire = Append(tx.wire, tx.packet)
  BY DEF Buffers
<1>2. SendPacket(tx) = IF Enabled(tx) THEN NewPacket(y) ELSE tx
  BY DEF SendPacket
<1> HIDE DEF y
<1> QED
  BY <1>1, <1>2, NewPacketFacts

(***************************************************************************)
(* Making room: nothing, or the full packet is sent and another one begun. *)
(***************************************************************************)
LEMMA CheckSizeAndSendType ==
    ASSUME NEW T, NEW R, NEW tx \in Buffers(T, R)
    PROVE  CheckSizeAndSend(tx) \in Buffers(T, R)
<1>1. SendPacket(tx) \in Buffers(T, R)
  BY SendPacketType
<1>2. NewPacket(SendPacket(tx)) \in Buffers(T, R)
  BY <1>1, NewPacketType
<1> QED
  BY <1>2 DEF CheckSizeAndSend

LEMMA CheckSizeAndSendFacts ==
    ASSUME NEW T, NEW R, NEW tx \in Buffers(T, R)
    PROVE  /\ CheckSizeAndSend(tx).pulse = tx.pulse
           /\ CheckSizeAndSend(tx).prev = tx.prev
           /\ CheckSizeAndSend(tx).network = tx.network
           /\ ~Full(tx) => CheckSizeAndSend(tx) = tx
           /\ Full(tx) => CheckSizeAndSend(tx) = NewPacket(SendPacket(tx))
<1>1. SendPacket(tx) \in Buffers(T, R)
  BY SendPacketType
<1>2. /\ SendPacket(tx).pulse = tx.pulse
      /\ SendPacket(tx).prev = tx.prev
      /\ SendPacket(tx).network = tx.network
  BY SendPacketFacts
<1>3. /\ NewPacket(SendPacket(tx)).pulse = SendPacket(tx).pulse
      /\ NewPacket(SendPacket(tx)).prev = SendPacket(tx).prev
      /\ NewPacket(SendPacket(tx)).network = SendPacket(tx).network
  BY <1>1, NewPacketFacts
<1> QED
  BY <1>2, <1>3 DEF CheckSizeAndSend

(***************************************************************************)
(* Writing a record at the end of the packet, or as the first of a new one *)
(* when a full packet has been sent.                                       *)
(***************************************************************************)
Written(packet, readout, size) ==
    [packet EXCEPT !.body = Append(@, readout), !.length = size]

WrittenTo(tx, readout, size) ==
    [tx EXCEPT !.packet = Written(tx.packet, readout, size), !.dataSize = size]

LEMMA WrittenType ==
    ASSUME NEW T, NEW R, NEW tx \in Buffers(T, R),
           NEW readout \in R, NEW size \in Nat
    PROVE  WrittenTo(tx, readout, size) \in Buffers(T, R)
<1>1. tx.packet \in Packets(T, R) /\ Append(tx.packet.body, readout) \in Seq(R)
  BY DEF Buffers, Packets
<1>2. Written(tx.packet, readout, size) \in Packets(T, R)
  BY <1>1 DEF Packets, Written
<1> QED
  BY <1>2 DEF Buffers, WrittenTo

LEMMA WrittenFacts ==
    ASSUME NEW T, NEW R, NEW tx \in Buffers(T, R),
           NEW type \in Packable, NEW readout \in R
    PROVE  LET room == CheckSizeAndSend(tx)
               size == room.dataSize + RecordSize(type)
           IN  /\ size \in Nat
               /\ PutReadout(tx, type, readout) = WrittenTo(room, readout, size)
<1> DEFINE room == CheckSizeAndSend(tx)
           size == room.dataSize + RecordSize(type)
<1>1. room \in Buffers(T, R)
  BY CheckSizeAndSendType
<1>2. PutReadout(tx, type, readout)
        = [room EXCEPT !.packet.body = Append(@, readout),
                       !.packet.length = size, !.dataSize = size]
  BY DEF PutReadout
<1> HIDE DEF room
<1>3. size \in Nat
  BY <1>1, RecordSizeNat DEF Buffers
<1> HIDE DEF size
<1>4. room.packet \in Packets(T, R)
  BY <1>1 DEF Buffers
<1>5. PutReadout(tx, type, readout) = WrittenTo(room, readout, size)
  BY <1>1, <1>2, <1>4 DEF Buffers, Packets, Written, WrittenTo
<1> QED
  BY <1>3, <1>5 DEF room, size

LEMMA PutReadoutType ==
    ASSUME NEW T, NEW R, NEW tx \in Buffers(T, R),
           NEW type \in Packable, NEW readout \in R
    PROVE  PutReadout(tx, type, readout) \in Buffers(T, R)
<1> DEFINE room == CheckSizeAndSend(tx)
           size == room.dataSize + RecordSize(type)
<1>1. room \in Buffers(T, R)
  BY CheckSizeAndSendType
<1>2. size \in Nat /\ PutReadout(tx, type, readout) = WrittenTo(room, readout, size)
  BY WrittenFacts
<1> HIDE DEF room, size
<1>3. WrittenTo(room, readout, size) \in Buffers(T, R)
  BY <1>1, <1>2, WrittenType
<1> QED
  BY <1>2, <1>3

LEMMA PutReadoutFacts ==
    ASSUME NEW T, NEW R, NEW tx \in Buffers(T, R),
           NEW type \in Packable, NEW readout \in R
    PROVE  LET room == CheckSizeAndSend(tx)
               x == PutReadout(tx, type, readout)
           IN  /\ x.pulse = tx.pulse /\ x.prev = tx.prev
               /\ x.network = tx.network
               /\ x.wire = room.wire /\ x.seqNum = room.seqNum
               /\ x.dataSize = room.dataSize + RecordSize(type)
               /\ x.packet = Written(room.packet, readout,
                                     room.dataSize + RecordSize(type))
<1> DEFINE room == CheckSizeAndSend(tx)
           size == room.dataSize + RecordSize(type)
           pkt == Written(room.packet, readout, size)
           x == PutReadout(tx, type, readout)
<1>1. room \in Buffers(T, R)
  BY CheckSizeAndSendType
<1>2. room.pulse = tx.pulse /\ room.prev = tx.prev /\ room.network = tx.network
  BY CheckSizeAndSendFacts
<1>3. x = WrittenTo(room, readout, size)
  BY WrittenFacts
<1> HIDE DEF room, size, pkt, x
<1>4. /\ x.pulse = room.pulse /\ x.prev = room.prev /\ x.network = room.network
      /\ x.wire = room.wire /\ x.seqNum = room.seqNum
      /\ x.dataSize = size /\ x.packet = pkt
  BY <1>1, <1>3 DEF Buffers, WrittenTo, pkt
<1> QED
  BY <1>2, <1>4 DEF room, size, pkt, x

---------------------------------------------------------------------------
(***************************************************************************)
(* The packets of a buffer: an operation keeps those there are, or adds    *)
(* empty ones, or extends the one under construction.                      *)
(***************************************************************************)
IsFresh(p, pulse, prev) == /\ p.body = << >> /\ p.length = HeaderSize
                           /\ p.pulse = pulse /\ p.prev = prev

LEMMA NewPacketPackets ==
    ASSUME NEW T, NEW R, NEW tx \in Buffers(T, R)
    PROVE  /\ IsFresh(NewPacket(tx).packet, tx.pulse, tx.prev)
           /\ \A p \in PacketsOf(NewPacket(tx)) :
                 p \in PacketsOf(tx) \/ IsFresh(p, tx.pulse, tx.prev)
<1> DEFINE y == NewPacket(tx)
<1>1. /\ y.packet = [seq |-> tx.seqNum, pulse |-> tx.pulse, prev |-> tx.prev,
                     length |-> HeaderSize, body |-> << >>]
      /\ y.wire = tx.wire
  BY NewPacketFacts
<1> HIDE DEF y
<1>2. IsFresh(y.packet, tx.pulse, tx.prev)
  BY <1>1 DEF IsFresh
<1> QED
  BY <1>1, <1>2 DEF PacketsOf, y

LEMMA SendPacketPackets ==
    ASSUME NEW T, NEW R, NEW tx \in Buffers(T, R)
    PROVE  \A p \in PacketsOf(SendPacket(tx)) :
              p \in PacketsOf(tx) \/ IsFresh(p, tx.pulse, tx.prev)
<1>1. CASE Enabled(tx)
  <2>1. tx.wire \in Seq(Packets(T, R)) /\ tx.packet \in Packets(T, R)
    BY DEF Buffers
  <2>2. Range(Append(tx.wire, tx.packet)) = Range(tx.wire) \cup {tx.packet}
    BY <2>1, RangeOfAppend
  <2> DEFINE y == SendPacket(tx)
  <2>3. /\ y.wire = Append(tx.wire, tx.packet)
        /\ y.packet = [seq |-> tx.seqNum, pulse |-> tx.pulse, prev |-> tx.prev,
                       length |-> HeaderSize, body |-> << >>]
    BY <1>1, SendPacketFacts
  <2> HIDE DEF y
  <2>4. IsFresh(y.packet, tx.pulse, tx.prev)
    BY <2>3 DEF IsFresh
  <2> QED
    BY <2>2, <2>3, <2>4 DEF PacketsOf, y
<1>2. CASE ~Enabled(tx)
  BY <1>2, SendPacketFacts
<1> QED
  BY <1>1, <1>2

LEMMA CheckSizeAndSendPackets ==
    ASSUME NEW T, NEW R, NEW tx \in Buffers(T, R)
    PROVE  /\ Full(tx) => IsFresh(CheckSizeAndSend(tx).packet, tx.pulse, tx.prev)
           /\ \A p \in PacketsOf(CheckSizeAndSend(tx)) :
                 p \in PacketsOf(tx) \/ IsFresh(p, tx.pulse, tx.prev)
<1>1. CASE Full(tx)
  <2> DEFINE y == SendPacket(tx)
  <2>1. y \in Buffers(T, R) /\ y.pulse = tx.pulse /\ y.prev = tx.prev
    BY SendPacketType, SendPacketFacts
  <2>2. \A p \in PacketsOf(y) : p \in PacketsOf(tx) \/ IsFresh(p, tx.pulse, tx.prev)
    BY SendPacketPackets
  <2>3. CheckSizeAndSend(tx) = NewPacket(y)
    BY <1>1, CheckSizeAndSendFacts
  <2> HIDE DEF y
  <2>4. /\ IsFresh(NewPacket(y).packet, tx.pulse, tx.prev)
        /\ \A p \in PacketsOf(NewPacket(y)) :
              p \in PacketsOf(y) \/ IsFresh(p, tx.pulse, tx.prev)
    BY <2>1, NewPacketPackets
  <2> QED
    BY <2>2, <2>3, <2>4
<1>2. CASE ~Full(tx)
  BY <1>2, CheckSizeAndSendFacts
<1> QED
  BY <1>1, <1>2

LEMMA PutReadoutPackets ==
    ASSUME NEW T, NEW R, NEW tx \in Buffers(T, R),
           NEW type \in Packable, NEW readout \in R
    PROVE  \A p \in PacketsOf(PutReadout(tx, type, readout)) :
              \/ p \in PacketsOf(tx)
              \/ IsFresh(p, tx.pulse, tx.prev)
              \/ p = PutReadout(tx, type, readout).packet
<1>1. PutReadout(tx, type, readout).wire = CheckSizeAndSend(tx).wire
  BY PutReadoutFacts
<1> QED
  BY <1>1, CheckSizeAndSendPackets DEF PacketsOf
=============================================================================
