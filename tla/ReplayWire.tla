----------------------------- MODULE ReplayWire -----------------------------
(***************************************************************************)
(* A replay and the object of class Readout that it feeds: what reaches    *)
(* the network of the events that module Replay takes from the file.  The  *)
(* object lives in the scope of the replay.  Nothing updates its pulse     *)
(* time, so every header carries that of its creation, here 0.             *)
(***************************************************************************)
EXTENDS Replay, PacketBuffer

CONSTANTS
    Noise,     \* the rows without weight
    MaxCopies  \* bound: how often a readout with weight is repeated

(***************************************************************************)
(* A file with rows that can be read is one for whose detector Writer      *)
(* could create a dataset.                                                 *)
(***************************************************************************)
ASSUME WireAssumption ==
    /\ MaxCopies \in Nat
    /\ \A f \in Files : ~ReaderThrows(f) /\ Size(f) > 0 => Supported(DetectorOf(f))

VARIABLES
    tx,       \* the transmit buffer
    copies,   \* history: how often each of the added events was packed
    packing   \* addReadout is in the loop for the last of them

wireVars == <<vars, tx, copies, packing>>

WireInit == /\ Init
            /\ tx = FirstPacket(0, 0) /\ copies = << >> /\ packing = FALSE

---------------------------------------------------------------------------
(***************************************************************************)
(* The loop of addReadout: a readout without weight is packed once, any    *)
(* other a random number of times.  A record is the event with, as         *)
(* history, which of the added ones it is and which of its copies.         *)
(***************************************************************************)
Repeats(event) == IF RowsOf(file)[event + 1] \in Noise THEN {1} ELSE 0 .. MaxCopies

Copy(i, c) == [event |-> added[i], add |-> i, copy |-> c]

\* Slip: room is made once for all copies.
PackedAtOnce(record) ==
    LET size == tx.dataSize + RecordSize(ReadoutType(DetectorOf(file)))
    IN  IF record.copy = 1
        THEN PutReadout(tx, ReadoutType(DetectorOf(file)), record)
        ELSE [tx EXCEPT !.packet.body = Append(@, record),
                        !.packet.length = size, !.dataSize = size]

Packed(record) == PutReadout(tx, ReadoutType(DetectorOf(file)), record)

PackCopy ==
    /\ packing
    /\ LET i == Len(copies)
       IN  /\ \E n \in Repeats(added[i]) : copies[i] < n
           /\ tx' = Packed(Copy(i, copies[i] + 1))
           /\ copies' = [copies EXCEPT ![i] = @ + 1]
    /\ UNCHANGED <<vars, packing>>

EndCopies ==
    /\ packing
    /\ copies[Len(copies)] \in Repeats(added[Len(copies)])
    /\ packing' = FALSE
    /\ UNCHANGED <<vars, tx, copies>>

(***************************************************************************)
(* An exception that some caller catches destroys the object on its way;   *)
(* main catches none, and then the object need not be destroyed at all.    *)
(***************************************************************************)
\* Slip: destroying the object drops what is buffered.
DestroyedUnsent == UNCHANGED tx

Destroyed == tx' = SendPacket(tx)

Abandoned == Destroyed \/ UNCHANGED tx

WireStart ==
    /\ Start
    /\ IF pc' = "threw" /\ ~ReaderThrows(file) THEN Abandoned ELSE UNCHANGED tx
    /\ UNCHANGED <<copies, packing>>

WireAdd ==
    /\ ~packing
    /\ Add
    /\ \/ /\ pc' = "threw"
          /\ Abandoned
          /\ UNCHANGED <<copies, packing>>
       \/ /\ pc' # "threw"
          /\ copies' = Append(copies, 0)
          /\ packing' = TRUE
          /\ UNCHANGED tx

WireReturn == ~packing /\ Return /\ Destroyed /\ UNCHANGED <<copies, packing>>

WireDone == Done /\ UNCHANGED <<tx, copies, packing>>

WireNext == WireStart \/ WireAdd \/ PackCopy \/ EndCopies \/ WireReturn \/ WireDone

WireSpec == WireInit /\ [][WireNext]_wireVars

---------------------------------------------------------------------------
(***************************************************************************)
(* Properties.                                                             *)
(***************************************************************************)
Records == [event : 0 .. SizeWord - 1, add : Nat, copy : Nat]

WireTypeOK ==
    /\ TypeOK
    /\ tx \in Buffers({0}, Records)
    /\ copies \in Seq(0 .. MaxCopies + 1) /\ Len(copies) = Len(added)
    /\ packing \in BOOLEAN

(***************************************************************************)
(* All that was packed, and all that is in datagrams.                      *)
(***************************************************************************)
PackedCopies == UNION {{Copy(i, c) : c \in 1 .. copies[i]} : i \in DOMAIN copies}
Carried(packets) == UNION {Range(p.body) : p \in packets}

Before(r, s) == r.add < s.add \/ (r.add = s.add /\ r.copy < s.copy)

OrderWithin(body) == \A j, k \in DOMAIN body : j < k => Before(body[j], body[k])
AllBefore(body, next) == \A r \in Range(body), s \in Range(next) : Before(r, s)

OrderKept(x) ==
    /\ \A p \in PacketsOf(x) : OrderWithin(p.body)
    /\ \A i, j \in DOMAIN x.wire : i < j => AllBefore(x.wire[i].body, x.wire[j].body)
    /\ \A i \in DOMAIN x.wire : AllBefore(x.wire[i].body, x.packet.body)

(***************************************************************************)
(* The network gets every copy of every event once and in the order of the *)
(* replay (replay.cpp:26-108 with ReadoutClass.cpp:33-54, 132-151): all of *)
(* them from a replay that returns; from one that throws all but at most   *)
(* those in the last packet.                                               *)
(***************************************************************************)
WireIsReplay ==
    /\ Carried(PacketsOf(tx)) = PackedCopies
    /\ OrderKept(tx)
    /\ pc = "done" => tx.packet.body = << >>

(***************************************************************************)
(* However often readouts are repeated, no datagram of a replay outgrows   *)
(* the buffer (ReadoutClass.cpp:49-54), and none but the last is empty.    *)
(***************************************************************************)
ReplayPacketsFit ==
    /\ \A p \in PacketsOf(tx) : p.length <= BufferSize
    /\ \A i \in 1 .. Len(tx.wire) - 1 : tx.wire[i].body # << >>
=============================================================================
