------------------------------ MODULE Readout ------------------------------
(***************************************************************************)
(* One object of class Readout (lib/ReadoutClass) under its C interface    *)
(* (lib/Readout.cpp), the system clock it reads and the file it saves to.  *)
(*                                                                         *)
(* Readouts are stamped with the reference time of the latest pulse plus   *)
(* their time of flight, packed into datagrams whose header carries the    *)
(* pulse and the previous pulse, and saved to a file.  The object runs in  *)
(* one thread: a call is one action, except that the loop which repeats a  *)
(* weighted readout takes one action per turn, because datagrams may leave *)
(* between two turns.  The clock is the other actor: it advances between   *)
(* any two calls and may be stepped back.                                  *)
(*                                                                         *)
(* An exception leaves through C frames and ends the process: pc = "threw" *)
(* is final, and the destructor does not run.                              *)
(***************************************************************************)
EXTENDS EfuTime, PacketBuffer

CONSTANTS
    Detectors,    \* the detector types an object may be created for
    PeriodUnits,  \* 1 / source_frequency, in sub-second units
    Tofs,         \* times of flight, in sub-second units
    Calls,        \* the calls this environment makes, by their names in C
    FileFaults,   \* whether operations on the file may fail
    StartClock,   \* the system clock, in sub-second units, at creation
    ClockSteps,   \* by how much it may advance at once
    StepBacks,    \* by how much it may be set back at once
    MaxClock, MaxAdds, MaxDraw, MaxSeq  \* bounds

period == TimeOf(PeriodUnits)

ASSUME CallsAssumption ==
    Calls \subseteq {"readout_add", "addReadout", "readout_send",
                     "readout_setPulseTime", "readout_newPacket",
                     "readout_disable_network", "readout_enable_network",
                     "readout_dump_to"}
ASSUME DetectorsAssumption == Detectors \subseteq DetectorTypes
ASSUME BoundsAssumption == /\ {MaxClock, MaxAdds, MaxDraw, MaxSeq} \subseteq Nat
                           /\ FileFaults \in BOOLEAN
(***************************************************************************)
(* The class divides by the period, and its constructor subtracts it from  *)
(* the time of creation, half a century after the epoch.                   *)
(***************************************************************************)
ASSUME PeriodAssumption == /\ PeriodUnits \in Nat /\ StartClock \in Nat
                           /\ 0 < TotalTicks(period)
                           /\ TotalTicks(period) < TotalTicks(TimeOf(StartClock))
ASSUME StepsAssumption == /\ Tofs \subseteq Nat
                          /\ ClockSteps \subseteq Nat
                          /\ StepBacks \subseteq Nat
(***************************************************************************)
(* The 32 bits suffice: for the seconds until 2106, for the pulses since   *)
(* the object was created, for five periods and for every time of flight.  *)
(***************************************************************************)
Latest == TotalTicks(TimeOf(MaxClock))

ASSUME HorizonAssumption ==
    /\ StartClock <= MaxClock /\ MaxClock \div Nps < Word
    /\ Latest - TotalTicks(TimeOf(StartClock)) < Word * TotalTicks(period)
    /\ TotalTicks(period) * 5 < Word * Ticks
    /\ \A tof \in Tofs : Latest + TotalTicks(TimeOf(tof)) < Word * Ticks

VARIABLES
    type,     \* Type, the detector type
    tx,       \* the transmit buffer and whether the network is enabled
    time,     \* time, the reference time of the latest pulse
    last,     \* lasthi/lastlo, the time of the latest readout
    writer,   \* "none"; "open"; "mute": its file could not be opened
    rows,     \* the rows of the open file: numbers of calls, or Blank
    savedFrom,\* history: how many calls came before the file was opened
    copy,     \* i, the turn of the loop that repeats a weighted readout
    calls,    \* history: the times of flight of the calls that add readouts
    clock,    \* the system clock
    pc        \* "idle" between calls; "copy" in the loop; "threw"; "destroyed"

object == <<type, tx, time, last, writer, rows, savedFrom, copy, calls>>
vars == <<object, clock, pc>>

Blank == 0  \* a row that was allocated and never written

Init ==
    /\ type \in Detectors
    /\ clock = StartClock
    /\ time = TimeOf(StartClock)
    /\ tx = FirstPacket(time, Sub(time, period))
    /\ last = TimeOf(0)
    /\ writer = "none" /\ rows = << >> /\ savedFrom = 0
    /\ copy = 0 /\ calls = << >> /\ pc = "idle"

---------------------------------------------------------------------------
(***************************************************************************)
(* update_time.  A clock less than a period past the latest pulse becomes  *)
(* the new pulse as it is; from a period on, the new pulse is the last     *)
(* point of the grid that the latest one starts.  A gap of more than five  *)
(* periods is hidden by moving the previous pulse to one period before.    *)
(***************************************************************************)
Now == TimeOf(clock)

Elapsed == Sub(Now, time)

\* Slip: advances a single period, however many have passed.
PulseOnePeriod == IF Ge(Elapsed, period) THEN Add(time, period) ELSE Now

\* Slip: takes the next point of the grid.
PulseAhead == IF Ge(Elapsed, period)
              THEN Add(time, Mul(period, Div(Elapsed, period) + 1))
              ELSE Now

Pulse == IF Ge(Elapsed, period)
         THEN Add(time, Mul(period, Div(Elapsed, period)))
         ELSE Now

GapTooLong == Gt(Sub(Pulse, time), Mul(period, 5))

\* Slip: long gaps are not hidden.
PrevPulseUnfaked == time

\* Slip: always one period before.
PrevPulseAlwaysFaked == Sub(Pulse, period)

PrevPulse == IF GapTooLong THEN Sub(Pulse, period) ELSE time

UpdateThrows == \/ SubThrows(Now, time)
                \/ SubThrows(Pulse, time)
                \/ GapTooLong /\ SubThrows(Pulse, period)

\* Slip: the packet is begun before the times are set.
UpdatedTxLate == SetPulseTime(NewPacket(SendPacket(tx)), Pulse, PrevPulse)

\* Slip: what is buffered is not sent first.
UpdatedTxUnsent == NewPacket(SetPulseTime(tx, Pulse, PrevPulse))

(***************************************************************************)
(* The packet under construction leaves with the OLD pulse times, and the  *)
(* one begun by send() is replaced by one with the new times.              *)
(***************************************************************************)
UpdatedTx == NewPacket(SetPulseTime(SendPacket(tx), Pulse, PrevPulse))

---------------------------------------------------------------------------
(***************************************************************************)
(* saveReadout allocates a row and then writes it; either may fail, and    *)
(* the exception passes through the caller.                                *)
(***************************************************************************)
Saving == writer = "open"

\* Slip: only what is sent is saved.
SavedIfSent == rows' = IF Saving /\ Enabled(tx) THEN Append(rows, Len(calls) + 1) ELSE rows

Saved == rows' = IF Saving THEN Append(rows, Len(calls) + 1) ELSE rows

SaveFails == /\ Saving /\ FileFaults
             /\ rows' \in {rows, Append(rows, Blank)}

(***************************************************************************)
(* The typed addReadout called with the number and the time of a readout.  *)
(***************************************************************************)
Put(x, call, t) ==
    PutReadout(x, ReadoutType(type), [call |-> call, time |-> t])

(***************************************************************************)
(* addReadout(Ring, FEN, tof, weight, data), from the buffer x and the     *)
(* reference time ref.  The file comes first, also with the network        *)
(* disabled.  A readout without weight is noise and is packed once; one    *)
(* with weight enters the loop that repeats it.                            *)
(***************************************************************************)
Buffer(x, t, weighted) ==
    \/ /\ ~Enabled(tx)
       /\ tx' = x /\ UNCHANGED <<last, pc>>
    \/ /\ Enabled(tx) /\ weighted
       /\ last' = t /\ tx' = x /\ pc' = "copy"
    \/ /\ Enabled(tx) /\ ~weighted /\ Supported(type)
       /\ last' = t /\ tx' = Put(x, Len(calls) + 1, t) /\ UNCHANGED pc
    \/ /\ Enabled(tx) /\ ~weighted /\ ~Supported(type)
       /\ last' = t /\ tx' = x /\ pc' = "threw"

AddReadout(x, ref, tof, weighted) ==
    /\ calls' = Append(calls, tof)
    /\ \/ Saved /\ Buffer(x, Add(TimeOf(tof), ref), weighted)
       \/ SaveFails /\ tx' = x /\ pc' = "threw" /\ UNCHANGED last
    /\ UNCHANGED <<type, writer, savedFrom, copy, clock>>

---------------------------------------------------------------------------
(***************************************************************************)
(* The calls.  Called(name) is their common guard; the bound on sequence   *)
(* numbers stands for the 2^31 packets after which SeqNum overflows.       *)
(***************************************************************************)
Called(name) == pc = "idle" /\ name \in Calls /\ tx.seqNum < MaxSeq

ReadoutAdd(tof, weighted) ==
    /\ Called("readout_add") /\ Len(calls) < MaxAdds
    /\ ~UpdateThrows
    /\ time' = Pulse
    /\ AddReadout(UpdatedTx, Pulse, tof, weighted)

(***************************************************************************)
(* The method itself, as the replay of a file calls it: the reference time *)
(* is not brought up to date.                                              *)
(***************************************************************************)
MethodAdd(tof, weighted) ==
    /\ Called("addReadout") /\ Len(calls) < MaxAdds
    /\ AddReadout(tx, time, tof, weighted)
    /\ UNCHANGED time

(***************************************************************************)
(* One turn of the loop: the Poisson number is drawn anew for every test   *)
(* of its condition.                                                       *)
(***************************************************************************)
CopyStep(draw) ==
    /\ pc = "copy"
    /\ \/ /\ copy < draw /\ Supported(type)
          /\ tx' = Put(tx, Len(calls), last)
          /\ copy' = copy + 1
          /\ UNCHANGED pc
       \/ /\ copy < draw /\ ~Supported(type)
          /\ pc' = "threw"
          /\ UNCHANGED <<tx, copy>>
       \/ /\ copy >= draw
          /\ pc' = "idle" /\ copy' = 0
          /\ UNCHANGED tx
    /\ UNCHANGED <<type, time, last, writer, rows, savedFrom, calls, clock>>

\* Slip: the reference time is not kept.
ReadoutSetPulseTimeOnly ==
    /\ Called("readout_setPulseTime")
    /\ ~UpdateThrows
    /\ tx' = UpdatedTx
    /\ UNCHANGED <<type, time, last, writer, rows, savedFrom, copy, calls, clock, pc>>

ReadoutSetPulseTime ==
    /\ Called("readout_setPulseTime")
    /\ ~UpdateThrows
    /\ tx' = UpdatedTx /\ time' = Pulse
    /\ UNCHANGED <<type, last, writer, rows, savedFrom, copy, calls, clock, pc>>

(***************************************************************************)
(* All three subtractions of update_time precede its first assignment.     *)
(***************************************************************************)
UpdateFails ==
    /\ Called("readout_add") \/ Called("readout_setPulseTime")
    /\ UpdateThrows
    /\ pc' = "threw"
    /\ UNCHANGED <<object, clock>>

ReadoutSend ==
    /\ Called("readout_send")
    /\ tx' = SendPacket(tx)
    /\ UNCHANGED <<type, time, last, writer, rows, savedFrom, copy, calls, clock, pc>>

ReadoutNewPacket ==
    /\ Called("readout_newPacket")
    /\ tx' = NewPacket(tx)
    /\ UNCHANGED <<type, time, last, writer, rows, savedFrom, copy, calls, clock, pc>>

SwitchNetwork(to) ==
    /\ Called(IF to = "enabled" THEN "readout_enable_network"
                                ELSE "readout_disable_network")
    /\ tx' = [tx EXCEPT !.network = to]
    /\ UNCHANGED <<type, time, last, writer, rows, savedFrom, copy, calls, clock, pc>>

(***************************************************************************)
(* dump_to.  A file that cannot be opened leaves a writer without dataset, *)
(* silently.  The constructor throws, and the previous writer stays, when  *)
(* the names exist in the file already or the type cannot be saved.        *)
(***************************************************************************)
DumpTo ==
    /\ Called("readout_dump_to")
    /\ \/ /\ Supported(type)
          /\ writer' = "open" /\ rows' = << >> /\ savedFrom' = Len(calls)
          /\ UNCHANGED pc
       \/ /\ FileFaults /\ HasReadoutType(type)
          /\ writer' = "mute"
          /\ UNCHANGED <<rows, savedFrom, pc>>
       \/ /\ FileFaults \/ ~Supported(type)
          /\ pc' = "threw"
          /\ UNCHANGED <<writer, rows, savedFrom>>
    /\ UNCHANGED <<type, tx, time, last, copy, calls, clock>>

\* Slip: the destructor sends nothing.
DestroyUnsent ==
    /\ pc = "idle"
    /\ pc' = "destroyed"
    /\ UNCHANGED <<type, tx, time, last, writer, rows, savedFrom, copy, calls, clock>>

(***************************************************************************)
(* readout_destroy: the destructor sends what is buffered.                 *)
(***************************************************************************)
Destroy ==
    /\ pc = "idle"
    /\ tx' = SendPacket(tx)
    /\ pc' = "destroyed"
    /\ UNCHANGED <<type, time, last, writer, rows, savedFrom, copy, calls, clock>>

---------------------------------------------------------------------------
(***************************************************************************)
(* The system clock, which only the calls above read.                      *)
(***************************************************************************)
Tick(d) == /\ pc = "idle" /\ clock + d <= MaxClock
           /\ clock' = clock + d
           /\ UNCHANGED <<object, pc>>

StepBack(d) == /\ pc = "idle" /\ d <= clock
               /\ clock' = clock - d
               /\ UNCHANGED <<object, pc>>

Done == pc \in {"threw", "destroyed"} /\ UNCHANGED vars

Next ==
    \/ \E tof \in Tofs, weighted \in BOOLEAN :
          ReadoutAdd(tof, weighted) \/ MethodAdd(tof, weighted)
    \/ \E draw \in 0 .. MaxDraw : CopyStep(draw)
    \/ ReadoutSetPulseTime \/ UpdateFails
    \/ ReadoutSend \/ ReadoutNewPacket
    \/ \E to \in {"enabled", "disabled"} : SwitchNetwork(to)
    \/ DumpTo
    \/ Destroy
    \/ \E d \in ClockSteps : Tick(d)
    \/ \E d \in StepBacks : StepBack(d)
    \/ Done

Spec == Init /\ [][Next]_vars

(***************************************************************************)
(* A call that was begun goes on, and the program that created the object  *)
(* destroys it in the end: FINALLY of the components, the end of the       *)
(* scope in replay.                                                        *)
(***************************************************************************)
Fairness == /\ WF_vars(\E draw \in 0 .. MaxDraw : CopyStep(draw))
            /\ WF_vars(Destroy)

FairSpec == Spec /\ Fairness

---------------------------------------------------------------------------
(***************************************************************************)
(* Properties.                                                             *)
(***************************************************************************)
Readouts == [call : Nat, time : Times]

TypeOK ==
    /\ type \in DetectorTypes
    /\ tx \in Buffers(Times, Readouts)
    /\ time \in Times /\ last \in Times
    /\ writer \in {"none", "open", "mute"}
    /\ rows \in Seq(Nat) /\ savedFrom \in Nat
    /\ copy \in Nat
    /\ calls \in Seq(Nat)
    /\ clock \in Nat
    /\ pc \in {"idle", "copy", "threw", "destroyed"}

AllPackets == PacketsOf(tx)

(***************************************************************************)
(* No packet outgrows buffer[9000], and the TotalLength of each is the     *)
(* header and its records exactly (ReadoutClass.cpp:33-54 and the typed    *)
(* addReadout functions): size is tested before a record is written, one   *)
(* record after the packet may already have passed MaxDataSize.            *)
(***************************************************************************)
SoundPacket(p) ==
    /\ p.length <= BufferSize
    /\ p.length = IF p.body = << >> THEN HeaderSize
                  ELSE HeaderSize + Len(p.body) * RecordSize(ReadoutType(type))

PacketSound == /\ tx.dataSize = tx.packet.length
               /\ \A p \in AllPackets : SoundPacket(p)

(***************************************************************************)
(* A receiver recovers the time of flight of every readout: the stamp is   *)
(* the pulse in the header of the packet that carries it plus the time of  *)
(* flight passed to the call (ReadoutClass.cpp:139-143), whatever pulse    *)
(* updates, full packets or clock steps came between the call and the send.*)
(***************************************************************************)
TofRecoverable ==
    \A p \in AllPackets : \A k \in DOMAIN p.body :
        TotalTicks(p.body[k].time)
           = TotalTicks(p.pulse) + TotalTicks(TimeOf(calls[p.body[k].call]))

(***************************************************************************)
(* Datagrams carry increasing sequence numbers and pulses that never go    *)
(* back, even when the system clock does (ReadoutClass.h:72-85).           *)
(***************************************************************************)
WireOrdered ==
    \A i, j \in DOMAIN tx.wire : i < j =>
        /\ tx.wire[i].seq < tx.wire[j].seq
        /\ TotalTicks(tx.wire[i].pulse) <= TotalTicks(tx.wire[j].pulse)

(***************************************************************************)
(* "The ESS Caen EFUs require (now - prev) <= 5 * rep"                     *)
(* (ReadoutClass.h:77): so it is in every packet, however long the program *)
(* was silent, and the previous pulse is never after the pulse.            *)
(***************************************************************************)
PulseGapBounded ==
    \A p \in AllPackets :
        TotalTicks(p.pulse) - TotalTicks(p.prev) \in 0 .. 5 * TotalTicks(period)

(***************************************************************************)
(* The previous pulse in a header is not invented: with the network on, it *)
(* is the pulse of the datagram sent before the pulse changed, unless that *)
(* lies five periods back or more and is replaced by one period back.      *)
(***************************************************************************)
PrevPulseIsReal ==
    \A i \in 1 .. Len(tx.wire) - 1 :
        LET p == tx.wire[i]
            q == tx.wire[i + 1]
        IN  \/ p.pulse = q.pulse
            \/ q.prev = p.pulse
            \/ /\ TotalTicks(q.pulse) - TotalTicks(p.pulse) >= 5 * TotalTicks(period)
               /\ TotalTicks(q.pulse) - TotalTicks(q.prev) = TotalTicks(period)

(***************************************************************************)
(* An update of the pulse (ReadoutClass.h:72-85) never leaves it in the    *)
(* future nor a whole period behind the clock.                             *)
(***************************************************************************)
PulseIsFresh ==
    [][time' # time => TotalTicks(Now) - TotalTicks(time')
                          \in 0 .. TotalTicks(period) - 1]_vars

(***************************************************************************)
(* While the system clock does not go back, files can be written and the   *)
(* detector is supported, no call throws: not the three subtractions of    *)
(* update_time (ReadoutClass.h:72-85), whatever gaps the clock leaves.     *)
(***************************************************************************)
NeverThrows == pc # "threw"

(***************************************************************************)
(* The file holds every call since it was opened, once and in order, with  *)
(* the network on or off and however often a weighted readout was packed   *)
(* (ReadoutClass.cpp:132-134); only the call that failed may be missing or *)
(* blank.                                                                  *)
(***************************************************************************)
RowsMirrorCalls ==
    writer = "open" =>
        LET complete == [k \in 1 .. Len(calls) - savedFrom |-> savedFrom + k]
        IN  \/ rows = complete
            \/ /\ pc = "threw" /\ calls # << >>
               /\ \/ Append(rows, Len(calls)) = complete
                  \/ rows # << >> /\ rows = [complete EXCEPT ![Len(rows)] = Blank]

(***************************************************************************)
(* A buffered readout does not stay behind: it gets onto the wire, by the  *)
(* next update, a full packet, readout_send or the destructor              *)
(* (ReadoutClass.h:49-52), unless the program dies or the network is off.  *)
(***************************************************************************)
Sent(c) == \E p \in Range(tx.wire) : \E k \in DOMAIN p.body : p.body[k].call = c
Buffered(c) == \E k \in DOMAIN tx.packet.body : tx.packet.body[k].call = c

BufferedIsSent ==
    \A c \in 1 .. MaxAdds : Buffered(c) ~> (Sent(c) \/ pc = "threw" \/ ~Enabled(tx))
=============================================================================
