---------------------------- MODULE PacketBuffer ----------------------------
(***************************************************************************)
(* The transmit buffer of class Readout (lib/ReadoutClass): one datagram   *)
(* under construction, and the operations that build and send it.          *)
(*                                                                         *)
(* The buffer is a record:                                                 *)
(*   pulse, prev   phi/plo and pphi/pplo, the times the next header gets   *)
(*   seqNum        SeqNum, the number the next header gets                 *)
(*   packet        the datagram in buffer[]: its header (seq, pulse, prev, *)
(*                 length = TotalLength) and its body, the readouts in it  *)
(*   dataSize      DataSize, the bytes of buffer[] in use                  *)
(*   network       network: "enabled", or "disabled" and nothing is sent   *)
(*   wire          the datagrams handed to the socket so far (history)     *)
(* A body is a sequence of records; what one holds beside its time is the  *)
(* caller's affair.  Whether sendto succeeds changes nothing in the class: *)
(* send() renews the packet and only reports the error.                    *)
(***************************************************************************)
EXTENDS Integers, Sequences, Functions, ReadoutTypes

CONSTANTS
    MaxDataSize,  \* bytes from which a packet counts as full (8950)
    BufferSize    \* sizeof(buffer) (9000)

(***************************************************************************)
(* A packet one byte short of full still takes one more record: the array  *)
(* must have room for it.                                                  *)
(***************************************************************************)
ASSUME BufferAssumption ==
    /\ MaxDataSize \in Nat /\ HeaderSize < MaxDataSize
    /\ BufferSize \in Nat
    /\ \A type \in Packable : MaxDataSize - 1 + RecordSize(type) <= BufferSize

(***************************************************************************)
(* Buffers whose times are in T and whose readouts are in R.               *)
(***************************************************************************)
Packets(T, R) == [seq : Nat, pulse : T, prev : T, length : Nat, body : Seq(R)]

Buffers(T, R) == [pulse : T, prev : T, seqNum : Nat, dataSize : Nat,
                  network : {"enabled", "disabled"}, packet : Packets(T, R),
                  wire : Seq(Packets(T, R))]

PacketsOf(tx) == Range(tx.wire) \cup {tx.packet}

---------------------------------------------------------------------------
\* Slip: the bytes of the previous packet still count.
NewPacketKeepsSize(tx) ==
    [tx EXCEPT !.packet = [seq |-> tx.seqNum, pulse |-> tx.pulse,
                           prev |-> tx.prev, length |-> HeaderSize,
                           body |-> << >>],
               !.seqNum = @ + 1]

\* Slip: the sequence number is not advanced.
NewPacketKeepsNumber(tx) ==
    [tx EXCEPT !.packet = [seq |-> tx.seqNum, pulse |-> tx.pulse,
                           prev |-> tx.prev, length |-> HeaderSize,
                           body |-> << >>],
               !.dataSize = HeaderSize]

(***************************************************************************)
(* newPacket: whatever the buffer holds is erased, sent or not, and one    *)
(* sequence number is used.                                                *)
(***************************************************************************)
NewPacket(tx) ==
    [tx EXCEPT !.packet = [seq |-> tx.seqNum, pulse |-> tx.pulse,
                           prev |-> tx.prev, length |-> HeaderSize,
                           body |-> << >>],
               !.seqNum = @ + 1,
               !.dataSize = HeaderSize]

(***************************************************************************)
(* send: nothing at all with the network disabled.                         *)
(***************************************************************************)
Enabled(tx) == tx.network = "enabled"

SendPacket(tx) ==
    IF Enabled(tx) THEN NewPacket([tx EXCEPT !.wire = Append(@, tx.packet)])
                   ELSE tx

(***************************************************************************)
(* check_size_and_send: after send() has renewed the packet it is renewed  *)
(* again, so the number that the first renewal took is never sent.         *)
(***************************************************************************)
Full(tx) == tx.dataSize >= MaxDataSize

CheckSizeAndSend(tx) ==
    IF Full(tx) THEN NewPacket(SendPacket(tx)) ELSE tx

(***************************************************************************)
(* The typed addReadout functions: make room, write one record of the      *)
(* given readout type at the end, set the header's length.                 *)
(***************************************************************************)
PutReadout(tx, type, readout) ==
    LET room == CheckSizeAndSend(tx)
        size == room.dataSize + RecordSize(type)
    IN  [room EXCEPT !.packet.body = Append(@, readout),
                     !.packet.length = size,
                     !.dataSize = size]

SetPulseTime(tx, pulse, prev) == [tx EXCEPT !.pulse = pulse, !.prev = prev]

(***************************************************************************)
(* The members' initial values followed by the constructor's setPulseTime  *)
(* and newPacket: the first packet has number 0.                           *)
(***************************************************************************)
FirstPacket(pulse, prev) ==
    [pulse |-> pulse, prev |-> prev, seqNum |-> 1, dataSize |-> HeaderSize,
     network |-> "enabled",
     packet |-> [seq |-> 0, pulse |-> pulse, prev |-> prev,
                 length |-> HeaderSize, body |-> << >>],
     wire |-> << >>]
=============================================================================
