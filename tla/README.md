# Verification of the McStas readout library

This directory holds TLA+ modules, TLC configurations and TLAPS proofs for the
readout library: the C++ code that turns simulated neutrons into the UDP
datagrams an ESS Event Formation Unit (EFU) expects, and into HDF5 event files.
Every definition is translated from the source; paths below are relative to the
root of the repository.

Run things from this directory:

    tlc -workers 2 -config ReadoutCore.cfg Readout.tla     # a model-checking run
    tlapm ReadoutProofs.tla                                # a proof module

## 1. The system

| Component | Code | State it keeps | Operations |
|---|---|---|---|
| Time stamps | `lib/efu_time.h` | `(high, low)`: 32-bit seconds and 88 052 499 Hz ticks | construct (parts, seconds, clock), compare, `+ - * / %` |
| Types and layout | `lib/enums.*`, `lib/Structs.h` | none | detector type to readout type, codes and names, record sizes |
| Transmit buffer | `lib/ReadoutClass.*` | `buffer[9000]`, `DataSize`, `SeqNum`, `phi/plo/pphi/pplo` | `newPacket`, `send`, `check_size_and_send`, typed `addReadout`, `setPulseTime` |
| Class `Readout` and C interface | `lib/ReadoutClass.*`, `lib/Readout.*` | reference `time`, `period`, last event time, `network`, the `Writer` | `readout_create/add/send/newPacket/setPulseTime/dump_to/enable/disable/destroy` and queries |
| Event file, writing | `lib/writer.h`, `lib/hdf_interface.*` | the extensible dataset | open, `saveReadout` |
| Event file, reading | `lib/reader.h` | detector and readout type, dataset | open and validate, `size`, `get_*` |
| Merge | `lib/Readout_merge.cpp` | none between calls | `readout_merge_files` |
| Replay | `lib/replay.*`, `src/replay/main.cpp` | none between calls; a `Readout` for one call | `replay_all`, `replay_subset` |
| McStas components | `share/Readout/*.comp` | one `Readout` per MPI process | INITIALIZE, TRACE, FINALLY with barrier, merge and removal |
| EFU shutdown | `lib/ReadoutClass.cpp`, and of `lib/cluon-complete.hpp` `TCPConnection` and `NotifyingPipeline` | `verbosity`, `network`; for one call a socket, two threads and a queue | `readout_shutdown`, `readout_silent`, `readout_print_*`, `readout_verbose` |
| Configuration program | `src/config/*` | none | prints |
| Vendored, the rest | `lib/cluon-complete.hpp`, `src/args.hxx` | - | UDP sender, argument parsing |

How they interact. A McStas component creates one `Readout` in each process, and
calls `readout_add` for every neutron. That call reads the system clock
(`update_time`), sends what is buffered, starts a packet for the new pulse,
appends a row to the event file if one is open, and packs the readout zero or
more times; a packet that is full leaves in the middle of the call. At the end
the component sends, destroys the object, and behind an MPI barrier the first
process merges the files and removes the others'. The replay reads such a file
and calls the method `addReadout` directly, so the reference time is never
updated. One call has threads: `readout_shutdown` opens a TCP connection of cluon to
send the EFU "EXIT", and a connection has a thread that reads and one that hands what
was read to a delegate. Both end with the call. The other actors are the calling
program, the system clock, the file system, the network, the EFU and, in the
components, the other MPI processes.

What is hard, and hard to test:

* **time**: an instant may have two representations; arithmetic wraps in 32 bits;
  the clock may stand still, jump ahead by any number of periods or be set back;
* **order**: what is buffered was stamped with one pulse and must leave under a
  header with that pulse, whichever of the five ways a packet can leave in is
  taken;
* **limits**: a packet is full from 8950 bytes on, in an array of 9000, and the
  test precedes the write;
* **failure in the middle**: saving has two steps, creation of a file has a silent
  failure, and any exception passes through C frames and ends the program;
* **switching**: the network may be disabled between calls while the buffer holds
  readouts;
* **termination**: what is buffered leaves only with a later call;
* **threads**: three of them share flags, a queue, a condition variable and a socket
  while the connection is built, used and destroyed within milliseconds, and the EFU
  may answer, close or reset at any point of it.

The file `PROJECT.json` lists the components, every such hazard at its line, and
the property that covers it.

What makes each component correct:

* *Time stamps*: no operation gains or loses a tick; a subtraction is refused
  exactly when it has to be; the quotient brackets the dividend, or falls short of it by
  multiples of 2^32 divisors.
* *Buffer*: a packet never outgrows the array; its `TotalLength` is what it holds;
  sequence numbers increase on the wire.
* *Class*: a receiver recovers the time of flight of every readout; pulses on the
  wire never go back; the previous pulse is real, or close enough that the EFU
  accepts it; the pulse is fresh after an update; no call throws while the
  environment behaves; the event file is the list of calls; what was accepted is
  delivered in order and as often as it was accepted, eventually.
* *Event file, merge*: the merged file has the rows of each process in their order,
  and all of them when the merge returns; no input is removed before its rows are
  in the merged file; the merge reads closed files, and it ends.
* *Replay*: only events that were asked for are replayed, all of them, in order
  unless shuffled; a replay inside the file does not throw; reading at once and reading
  event by event refuse the same replays; the network gets every copy once, in that
  order, in packets that fit.
* *Shutdown*: the result says how much of the command was given to the EFU; its answers
  are heard in order and taken from the queue only when they are there; the pipeline does
  not sleep through one; no thread outlives the connection; the call ends.

## 2. The modules

    EfuTime        ReadoutTypes
       |    \          |
       |     \    PacketBuffer
       |      \   /
       |     Readout -------- PoissonChoice
       |        |
       |  ReadoutRefinement ---(INSTANCE)--- ReadoutStream
       |
    EfuTimeMachine
       |
    MCEfuTime

    ReadoutTypes
         |
      EventFile
       /     \
    Merge   Replay   PacketBuffer
                 \   /
              ReplayWire
                  |
              MCReplay

    NotifyingPipeline
            |
      TcpConnection
            |
        Shutdown ---(INSTANCE)--- ShutdownCommand

### EfuTime, EfuTimeMachine, MCEfuTime

`EfuTime` translates `lib/efu_time.h` as pure operators on records `[high, low]`:
`MakeTime` is the normalising constructor, `TimeOf(n)` the constructors from a
real number and from the clock (both truncate to a tick), `Add`, `Sub`, `Mul`,
`Div`, `Mod` the operators with their 32-bit reductions, `SubThrows` the
exception of `operator-`. `Ticks`, `Word` and `Nps` (88 052 499, 2^32 and 10^9 in
the code) are constants, so that TLC can work with small ones and the proofs with
all. A real number of seconds is a whole number of sub-second units `1/Nps`.
What rounding in `double` adds to that is not modelled.

`EfuTimeMachine` is a register machine that chains the operators in any order, with any
set of operands, and keeps beside the code's value the exact number of ticks.
`MCEfuTime` lists the operands that TLC uses.

### ReadoutTypes, PacketBuffer

`ReadoutTypes` has the map from detector to readout type, which types the
dispatchers support, the conversions of types to text and back, and the sizes of the
packed structures. `PacketBuffer`
translates the functions that build and send one datagram as operators on a record
with the members of the class that they touch; `wire` is the history of datagrams
passed to the socket. A record in a packet is reduced to its time stamp and the
number of the call it comes from. Whether `sendto` succeeds changes no state of the
class and is left out.

### Readout

The class under its C interface, as a state machine. Variables are the members
(`type`, `tx` for the buffer, `time`, `last`, `writer`), the file's `rows`, the
system `clock`, the loop counter `copy`, `pc`, and two histories (`calls`, the times
of flight of the calls that add readouts, and `savedFrom`, the number of calls
that preceded the opening of the file).

| Action | Code |
|---|---|
| `Init` | constructor (`lib/ReadoutClass.h:27`) through `readout_create` |
| `ReadoutAdd` | `readout_add`: `update_time`, then `addReadout` |
| `MethodAdd` | the method `addReadout`, which the replay calls |
| `CopyStep` | one turn of the loop over the Poisson number (`lib/ReadoutClass.cpp:146`) |
| `ReadoutSetPulseTime` | `readout_setPulseTime`: `update_time` alone |
| `UpdateFails` | `update_time` throws "Subtracting a larger time?" |
| `ReadoutSend`, `ReadoutNewPacket` | `readout_send`, `readout_newPacket` |
| `SwitchNetwork` | `readout_enable_network`, `readout_disable_network` |
| `DumpTo` | `readout_dump_to`: a new `Writer`, silently mute or throwing |
| `Destroy` | `readout_destroy`: the destructor sends |
| `Tick`, `StepBack` | the system clock |

One call is one action, because the object has one thread and nothing can come
between its statements, with one exception: the loop that repeats a weighted
readout takes an action per turn. An exception leaves through C frames; `pc =
"threw"` is final. `Called` is the common guard of the calls; the set `Calls`
selects which of them the environment makes.

The definitions marked "Slip" in the modules (`PulseAhead`, `NewPacketKeepsSize`, ...)
are not used by the specification. Each is a plausible mistake in the definition
that follows it, and is there to show that the property it is paired with in
`PROJECT.json` ("mutants") would notice: with the slip in place of the
definition, TLC finds that property violated.

### ReadoutStream, ReadoutRefinement

`ReadoutStream` is what the class promises, without packets, times or files:
accepted events leave in batches, in order and as often as they were accepted;
pending ones are given up only while the stream is closed. `ReadoutRefinement`
maps the class to it: `pending` is the body of the packet under construction, a
batch the body of a datagram, `open` the network flag.

### PoissonChoice

`Readout` with a history variable for the first Poisson number drawn, for one
finding.

### EventFile

An event file is a record: the parts the constructor of `Writer` has created in it,
in its order (`WriterParts`), the text of the two attributes of types, and the rows.
A constructor that throws after k steps leaves `WrittenFile(detector, readout, k)`.
`ReaderThrows`, `DetectorOf`, `ReadoutOf` and `RowsOf` are the constructor and
`size()` of `Reader` on any such file, including the empty reader that a failed open
or unreadable attributes leave behind, and the exception that a name this version does
not know raises past the handler around it.

### Merge

N MPI processes that share a file system and a barrier.

| Action | Code |
|---|---|
| `Initialize` | INITIALIZE (`ReadoutCAEN.comp:69`): the writer opens, stays mute or throws half way; the test of `event_mode` |
| `Trace`, `TraceThrows` | TRACE: `readout_add` saves a row, or throws between resize and write |
| `Finally` | FINALLY up to the barrier: `readout_destroy` closes the file |
| `PassBarrier` | `MPI_Barrier` lets a process through (`ReadoutCAEN.comp:196`) |
| `Kill` | a process ends by a signal or by any exception of its own |
| `Verify` | the first loop of `readout_merge_files` (`lib/Readout_merge.cpp:17`), one input |
| `Create` | the output's `Writer` (line 30): open, mute, or throwing at any step; a file left by an earlier job makes it throw |
| `OpenInput`, `CopyRow`, `CopyThrows`, `NextInput` | the second loop (line 34) |
| `RemoveInput` | the removal of one input (`ReadoutCAEN.comp:220`), which may fail |

A process that is not the first has nothing left to do behind the barrier and is
`finished`. `readout_merge_files` takes an action per file and row, because another
process may be killed, or the merging one, between any two of them. The constant
`SilentFailures` says whether the silent failure to open the inputs or the output
is part of the environment.

### Replay, ReplayWire, MCReplay

A replay as one call: `Start` chooses between `replay_all` and `replay_subset` and
between loading at once and reading event by event, with the exceptions of each;
`Add` gives the next index, or any that remains when shuffled, to the method
`addReadout` (which is `MethodAdd` in `Readout`); `Return` ends the loop. `int`
arguments are reduced to `size_t` where main passes them on. The page size is
computed as the code computes it and is 0, so "at once" happens for no events
only. `ReplayWire` adds the object of class `Readout` that lives in the scope of the call,
as the buffer of module `PacketBuffer`: `WireStart` creates it behind the reader,
`WireAdd` begins the method `addReadout` for an event, `PackCopy` is a turn of its loop
(`lib/ReadoutClass.cpp:146`) and `EndCopies` leaves it: a noise event is packed once, any
other as often as the Poisson numbers say. A record carries its place among the events
and among their copies, as history. `WireReturn`
destroys it, which sends the rest; an exception destroys it too if a caller
catches. `MCReplay` gives the files and arguments, files of a later version among them.

The assumptions on the constants are those of a 64-bit build: an `unsigned` has
four times `Giga` (2^30) values, a `size_t` the square of that, arguments are `int`s,
a row takes at least 16 of the 2^64 bytes that HDF5 can address, and a file with rows is
of a detector for which `Writer` can create a dataset.

### NotifyingPipeline, TcpConnection

cluon's two classes, one action for what happens between two accesses to something
shared. The mutex of the pipeline is a word of its own only where it is held from one
step to the next (`block`: the predicate was false and the thread has not blocked yet).

| Action | Code (`lib/cluon-complete.hpp`) |
|---|---|
| `Enter`, `Loop`, `Wait`, `Block`, `Count`, `Deliver`, `Pop` | `processPipeline` (6521) |
| `SpuriousWake` | what a condition variable may do |
| `StartPipeline`, `StopPipeline`, `NotifyAll`, `Joined` | constructor and destructor (6487-6508) |
| `AddEntry`, `NotifyAll` | `add`, `notifyAll` (6511-6516) |
| `ConnectFails`, `Connect` | constructor of `TCPConnection` (11085), with the start of the reader, which may throw |
| `PollReader`, `MakePipeline`, `PollPipeline` | `startReadingFromSocket` (11184) |
| `Send`, `Transmit`, `BrokenPipe` | `send` (11221): the tests, then `::send` with its error or SIGPIPE |
| `StopReader`, `JoinReader`, `DestroyPipeline`, `NotifyPipeline`, `JoinPipeline` | the two destructors |
| `ReaderRuns`, `ReaderLoop`, `Select`, `Receive`, `ConnectionLost`, `Store`, `Notify` | `readFromSocket` (11248) |
| `SelectAborts` | `FD_SET` on the descriptor -1, undefined: a hardened library aborts |
| `Answer`, `Leave` | the EFU, which may send, close, reset, or close and then reset |

`m_socket` and `m_pipeline` are read by the reader while the caller assigns them, without
synchronisation; each is modelled as one word that is seen from its assignment on.
What arrives before `m_pipeline` is set is dropped. Of a reset connection the model
keeps whether its error has been returned: only then does `::send` raise SIGPIPE. A reset
that follows a close may count as returned at once.

### ShutdownCommand, Shutdown

`ShutdownCommand` is what a caller of `readout_shutdown` may rely on, without sockets
and threads: at most one command per call, answers heard in order during the call, a
result of -2 or -3 that says how much was given, 0 only with the network disabled, and
an end of the process only in a call that has given nothing. `Shutdown` is the code:
`SetLevel` and `Verbose` set `verbosity`, on which the result depends, `SwitchNetwork` the
flag, `CommandShutdown` begins a call, `Return` (the socket is closed) ends it with
what `check_and_send_tcp` and `command_shutdown` make of the outcome. `Command` maps
the one to the other: the phase is the position of the calling thread, what was given
is what `::send` took, what is heard is what the delegate of the pipeline was given.

### Proof modules

| Module | About |
|---|---|
| `EfuTimeProofs` | the operators on times, where results fit 32 bits |
| `EfuTimeMachineProofs` | chains of them, whatever wraps |
| `PacketBufferProofs` | the operations of the buffer |
| `ReadoutProofs` | class `Readout`: types, times, exceptions, the event file, packets |
| `ReadoutWireProofs` | the order on the wire, previous pulses, the stream |
| `MergeProofs` | merge and barrier |
| `ReplayProofs` | which events are replayed, what the network gets of them |
| `ShutdownProofs` | the connection, its threads and queue, `ShutdownCommand` |

## 3. The runs

| Run | Module / cfg | Result | What it shows |
|---|---|---|---|
| efu_time | MCEfuTime | holds | `TicksExact`, `RefusalFollowsTicks`, `QuotientBrackets`, `TypeOK` |
| readout_core | Readout / ReadoutCore | holds, 1.6 M states | packets, stamps, pulses, exceptions |
| readout_faults | Readout / ReadoutFaults | holds, 2.1 M states | clock set back, file failures, network off, unsupported detectors |
| readout_stream | ReadoutRefinement / ReadoutStream | holds, 0.13 M states | refinement and delivery |
| poisson_choice | PoissonChoice | violated | the loop draws anew at every turn |
| merge | Merge | holds, 0.25 M states | no row lost, order, completeness, closed files, the merge ends |
| merge_unwritable | Merge / MergeUnwritable | violated | inputs are removed although nothing was merged |
| event_mode | Merge / MergeEventMode | violated | the documented mode `"pp"` makes the component exit |
| replay | MCReplay | holds, 0.46 M states | what is replayed is what was asked for, and what reaches the network |
| replay_no_count | MCReplay / MCReplayNoCount | violated | without COUNT the program throws |
| shutdown | Shutdown | holds, 0.18 M states | refinement of `ShutdownCommand`, the queue and its thread, the end of the threads, a call ends or is at one of two places |
| shutdown_hangs | Shutdown / ShutdownHangs | violated | a call may wait for ever |

The bounds, and why they are enough:

* **efu_time**: `Ticks = 7`, `Word = 16`. The state space is closed under the
  operators (no bound on the number of operations). The operands include 0, 1,
  `low = Ticks - 1`, the second representation `low = Ticks` (operand 7), and a
  time in the last second of the word, so carry, borrow, wrap and every
  comparison of representations occur. So do quotients that do not fit the word (with a
  period of 1/14 s that takes ten years): `LeftOut` is what the cut then leaves in the
  remainder. Only the division by a time of zero ticks is left out.
* **readout_core**: `Ticks = 6`, `Nps = 7`, so that the conversion of the clock
  truncates; a period of 3 units is 2 ticks. The clock advances by 1 (less than a
  period), 4 (more than one, so the grid is used) and 18 units (more than five, so
  that the previous pulse is replaced), in any order up to 34. A CAEN record has
  24 bytes and a packet is full from 70, so the second record fills it (30 + 24 +
  24 = 78): with two calls and up to three copies each, packets fill in the middle
  of the loop and across calls. The times of flight are shorter and longer than a
  period. `MaxSeq = 6` packets allow both double renewals and several updates.
* **readout_faults**: here all calls except `readout_send` occur (it is in the
  other two), the clock goes forward by 5 and back by 6 so that it falls behind the
  latest pulse, file operations fail in each of their steps, and the detector may be
  supported (DREAM), without records (MAGIC), or without readout type (Reserved).
* **readout_stream**: switches the network at every point, with two calls, up to
  three copies and a packet that fills with two records. `readout_newPacket` is
  left out, because it is the call whose purpose is to drop the buffer.

* **merge**: three processes, so that there is a first, a middle and a last input and
  some process may wait while another has died; two rows each, so that order within
  and between inputs shows. Every process may fail to open its file, fail at each of
  the steps of creating it, throw while saving, or be killed, at any moment; the
  output may exist already, or fail at each step. `SilentFailures` is empty here;
  merge_unwritable is the same with two processes and an output that cannot be opened.
* **replay**: a byte-sized `size_t` (256) with `int`s from -3 to 3, so that negative
  numbers wrap, indexes wrap back into the file, and every file of up to four events
  is crossed at both ends; half-written files and missing ones; `Giga = 4` keeps
  the product that wraps in 32 bits. The order of a shuffle is arbitrary. An event is
  packed up to three times (`MaxCopies`) and the second is noise; a packet is full with
  two CAEN records, so that packets fill within the copies of one event and between
  two events. Two files of a later version have a type that is not known.
* **shutdown**: two answers, so that one can come while another is delivered, before the
  pipeline is there, or when the connection is already being destroyed; the queue then has
  every length that its code tells apart (empty, one, more). Calls follow one another
  without bound; between them the network is switched and the level of printing takes
  the values silent, errors and 1, which are all that the result tells apart. Either
  thread may fail to start. `StuckInConstructor` and `StuckInDestructor` name the two
  places where a call can stay; `ReturnsOrStuck` says that there is no third one.
* **shutdown_hangs**: no answers, no failing threads; the EFU alone may close.

`CHECK_DEADLOCK FALSE` appears in `MCEfuTime.cfg` only: a
register machine may run out of operands that change anything. In `Readout`
deadlock is checked; `Done` marks the states in which the process or the object is
gone. In `Merge`, `Done` is the end of the job, or the wait at the barrier for a
process that died, which is all that MPI without an abort can do; in `Replay` it is
the end of the program. In `Shutdown` it is checked as well; a process that died stutters,
and a thread that waits for ever is not a deadlock there, because others go on: that
is what `ReturnsOrStuck` is for.

The bounds in the guards are `MaxClock`, `MaxAdds`, `MaxDraw`, `MaxSeq`,
`MaxRows` (the rows of one process), `MaxCopies` and `MaxAnswers` (per connection). `MaxSeq` stands for the 2^31 packets after which `SeqNum`, an `int`, overflows.

**Fairness** (only in readout_stream, merge and the two runs of Shutdown). Weak fairness of `CopyStep`: a call that has
begun is executed to its end; some draw always ends the loop, but the model does
not need it to, because copies use up sequence numbers and the draws are bounded.
Weak fairness of `Destroy`: whoever created the object destroys it: FINALLY of the
components calls `readout_destroy`, in the replay it is the end of the scope. No
fairness is assumed of calls that add or send. In `Merge`, weak fairness of
`PassBarrier` for each process: MPI lets everyone through once all have come; and weak
fairness of the merging process's steps: the merge is one call with bounded loops.
None is assumed of simulating, of reaching the barrier, or of dying. In `Shutdown`, weak
fairness of each of the three threads: the operating system runs a thread that can run,
`connect` and `select` return. `Store` is strongly fair, because the reader needs the
pipeline's mutex there: a pipeline that is woken spuriously again and again takes it
each time, and the mutex is assumed not to starve the reader. Nothing is assumed of the
EFU, nor that a condition variable wakes a thread that nobody notifies.

## 4. What is proved

All theorems hold for every value of the constants under these named assumptions:

* `TicksAssumption`, `WordAssumption`, `NpsAssumption`: a second has at least one
  tick, and two seconds' worth of ticks fit the word (176 104 998 < 2^32);
* `BufferAssumption`: a packet one byte short of full has room for one more record
  of each kind (8949 + 24 <= 9000);
* `PeriodAssumption`: the period is at least a tick and less than the time since the
  epoch, otherwise the constructor throws or the class divides by zero;
* `HorizonAssumption`: 32 bits suffice: the clock stays before 2106, fewer than 2^32
  periods pass, five periods and every time of flight added to the clock fit.
  It is the one assumption about how long the program runs;
* `MergeAssumption`: more than one process, a detector whose readouts can be saved;
* `WordsAssumption`, `ArgumentsAssumption`, `FilesAssumption`, `WireAssumption`: the integers of a 64-bit
  build and files that it can hold (see Replay in section 2);
* `CallsAssumption`, `DetectorsAssumption`, `StepsAssumption`, `BoundsAssumption`,
  `MachineAssumption`, `VerbosityAssumption`, `ConnectionAssumption` type the rest.

Five theorems have a hypothesis of their own, which the run of the property
satisfies as well: `NoException` (no step back, no file faults, supported detectors),
`PrevPulsesReal` (nobody disables the network), `StreamImplemented` (nobody calls
`readout_newPacket`), and `NoRowIsLost` and `MergeIsComplete` (no silent failure).
Each is needed: a run or a finding shows the other case, or it is what the call does.

The argument:

1. **EfuTimeProofs**. Every operator keeps `Times`, and on ticks it is what it should
   be: `AddExact`, `SubExact`, `MulExact`, `DivExact`, `TimeOfMonotone`; the
   comparisons agree with ticks up to the double representation. Multiplication of
   two variables is kept out of the SMT steps by lemmas on integers.
2. **EfuTimeMachineProofs**. The same for chains in which seconds wrap: ticks are
   compared up to multiples of the range of the type (`Same`), which the
   operators respect. `NoTickLost` is then inductive with the types; `RefusalsRight`
   follows from it, and `QuotientsBracket` holds of any value, also where the quotient
   does not fit: lemma `Quotient` splits it into the word that is kept and those left out.
3. **PacketBufferProofs**. Each operation keeps the type of the buffer, and what it
   does to packet, wire and counters.
4. **ReadoutProofs**, times. `TypeCorrect` is inductive alone. `TimeInv` says that the
   reference time lies between the start and the latest clock value; it is needed
   because only then is no sum or product of `update_time` reduced modulo the word.
   From it `PulseExact` (the pulse is between the old reference time and the clock
   and less than a period behind the clock) gives `FreshPulse`. `NoException` is the
   property `NeverThrows` under the conditions it needs: no step back, no file
   faults, supported detectors. Its invariant adds that the reference time is
   not after the clock.
5. **ReadoutProofs**, the event file. `FileMirrorsCalls` needs `RowsInv`: the file was
   opened after some of the calls so far, an active writer has a row for each call
   since, and a call in its loop has saved its row already.
6. **ReadoutProofs**, packets. `PacketSound`, `PulseGapBounded` and `TofRecoverable` are not
   inductive: a stamp is right only if the header that will be written is that of the
   reference time. `PacketInv` therefore says in addition that the pulse of the packet
   under construction, the pulse members and the reference time agree, that the gap
   of the pulse members is at most five periods, and that in the loop `last` is the
   stamp of the latest call. One lemma per buffer operation shows that
   `BufferInv` survives it; the theorems `SoundPackets`, `GapsBounded` and
   `TofsRecoverable` follow.
7. **ReadoutWireProofs**. `OrderInv`: the wire is ordered, the packet under
   construction is numbered after it and not before it in time, and the next number
   is larger still. With `PulseExact` (the pulse never goes back, because a clock
   that does makes the update throw first) it is inductive: `OrderedWire`. `LinkInv`: the
   packet under construction goes with the last datagram as each datagram with the
   one before it, and has the times that the next header will get; this gives
   `PrevPulsesReal`. `StreamImplemented` shows each step to be one of `ReadoutStream` or
   a stutter: a datagram that leaves is a batch, a readout that is packed is accepted,
   and a copy of a later call never precedes one of an earlier call. It needs `LoopInv`:
   in the loop the network is still enabled.
8. **MergeProofs**. `NoRowLost` is not inductive: nothing in it says that the inputs
   are still whole when the merge fails, nor that they may go when it has ended.
   `BarrierInv`: behind the barrier no process writes or will again. `FileInv`: a file
   with rows was created completely, so that the reader sees all its rows, and the
   output is whole while it is open. `KeepInv` relates the position of the merge to the
   files: until the removal begins all saved rows are in their files; while copying,
   the inputs before the one in hand are in the merged file, and of
   that one what is not yet merged remains to be copied; when the removal begins all rows
   are in the merged file. Together they are inductive if the merge's files open
   (`SilentFailures = {}`, without which merge_unwritable is a counterexample) and give
   `NoRowIsLost`; with `WholeInv` (a file has its process's rows from the first on,
   without a gap) and `KindInv` (what is merged was saved, and the inputs and the output
   have the same types) they give `MergeIsComplete`. `BarrierInv` alone gives `ClosedFilesRead`. For `MergeKeepsOrder`,
   `SortedInv` adds to `WholeInv` that what is merged is ordered and precedes what is not. Neither
   `ClosedFilesRead` nor `MergeKeepsOrder` needs the files to open.
9. **ReplayProofs**. What has been added and what remains to be added are together
   a permutation of the indexes asked for, each reduced to `size_t`, and the identical
   one unless shuffled (`InPlan`). The arithmetic: a sum of
   wrapped arguments wraps to what the sum of the arguments themselves does, and an index
   asked for is too near to 0 to wrap into a file (`WrappedSum`, `Wrapped`, `AskedNear`). `PlanInv` adds when a replay throws.
   `NoneTooOften`, `ReplayInOrder` and `LegalReplayCompletes` follow, and hold of `WireSpec`
   because that implements `Spec` (`WireImplementsReplay`). `ReadingWaysAgree` is the same
   arithmetic for a range (`OneByOne`). `WireInv` is about the network:
   the records in the datagrams are those that were packed, each of them before the
   one that comes next (`CopyPacked`, `OneMore`), and a packet without records is not full, so
   that none such is sent before the end. `NetworkGetsReplay` and `ReplayFits` follow.
10. **ShutdownProofs**. What a thread may be doing follows from where the calling thread
   is (`PlaceInv`), because that one alone starts, stops and joins the others. The
   mutex is in `WaitInv`: a thread about to block found nothing, and what has come
   since has a notification pending. With them `FrontIsThere`, `ClosedAlone` and
   `NoLostWakeup`. `KeepsPromise` needs also the order of the answers from the socket
   through the reader's hands and the queue to the delegate (`OrderInv`); each step
   of `Shutdown` is then a step of `ShutdownCommand` or a stutter.

The theorems about `Readout` cover the clock being set back, file faults and every
detector, except where `NoException` says otherwise. The theorems about the merge
cover processes that are killed or throw at any point, those about the shutdown
threads that do not start, spurious wakeups and any conduct of the EFU.

Only model-checked: the liveness properties `BufferedIsSent`, `MergeEnds` and
`ReturnsOrStuck`, which are out of reach of the prover, and the runs that find a property
violated. Every invariant and every action property of the passing runs is proved,
under the hypotheses above.

That a type written as text is read back is the lemma `NamesInverse`.

## 5. Where the code differs from what is said about it

* **The Poisson choice.** The repository's README (line 11) speaks of a Poisson
  distributed choice for every neutron. The loop in `lib/ReadoutClass.cpp:146` draws a
  number for every test of its condition, so the number of copies is not that number.
  Run poisson_choice.
* **Unmerged files are removed.** When the merged file cannot be opened,
  `readout_merge_files` returns as if it had merged and the component removes the
  inputs ("the original unmerged files", `ReadoutCAEN.comp:217`). Run merge_unwritable.
  An input that cannot be opened in the second pass of the merge is lost the same way
  (`SilentFailures = {"input"}`).
* **`event_mode = "pp"`** is documented (README line 37), and is the one text for which
  the component exits (`ReadoutCAEN.comp:140`, `ReadoutTTLMonitor.comp:129`). Run
  event_mode.
* **No COUNT.** The help of the replay program speaks of COUNT not being present
  (`src/replay/main.cpp:17`); its default -1 then asks for more events than a vector
  can hold. Run replay_no_count. `--count 0` replays the whole file.
* **`readout_shutdown` may never return.** The destructor of the pipeline clears a flag
  and notifies without the mutex; between the thread's test of the flag and its blocking
  both are lost (`lib/cluon-complete.hpp:6497`, 6528). The constructor of the connection
  waits for a flag that its reader may set and clear between two looks (11191), when
  the EFU closes at once. Run shutdown_hangs; its trace ends in the destructor: the thread
  has found nothing and is about to block (`block`), the caller clears the flag, notifies
  and joins, and the thread blocks (`StuckInDestructor`). With `StuckInConstructor` left
  out of `ReturnsOrStuck`, TLC finds the other wait.

Without a run of their own:

* **`readout_shutdown` never reports success.** It expects 1 from a function that returns an
  error code (`lib/ReadoutClass.cpp:217`): -2, "Could not read response", is what it
  returns when the command was sent. `ShutdownCommand` states what the results mean. A
  caller that is silent gets the error number of a failed connection instead of -1, and
  with it the loop that passes a null pointer as a message.
* **Answers to "EXIT"** are printed only if they arrive before the destructor, which
  follows the sending at once; nothing waits for them. Those still in the queue when it
  clears the pipeline's flag are dropped.
* **Saving under MPI.** README:169 says "Saving weighted ray data to HDF5 files is currently
  not supported in MPI mode." The components save a file per process and merge
  them behind the barrier (`ReadoutCAEN.comp:194-231`), which is what module `Merge`
  is about; the sentence does not know of them.
* **No file is loaded at once.** `PAGESIZE` (`lib/replay.cpp:8`) is 0, so every event is read on
  its own, and `replay_subset` for no events from the end of a file on throws, or not,
  as `every` is 1 or not. `WaysAgree` says that for one event or more the two ways refuse
  the same replays.
* **A broken connection** may end the simulation with SIGPIPE (`lib/cluon-complete.hpp:11244`).
* **`low` may equal `ticks`.** A comment in `operator+` (`lib/efu_time.h:76`) says that
  the constructor ensures `l` is less than `ticks`; it carries only when `l > ticks`
  (`lib/efu_time.h:26`). No tick is lost by it, as `TicksExact` and the proofs show; but
  such a time compares unequal to the same instant, and would be sent as it is.
* **The pulse drifts.** `lib/main.cpp:80` expects that adding a readout soon after
  the last does not update the reference time. `update_time` takes the clock itself as
  reference time when less than a period has passed, so consecutive pulses on the wire
  are *not* a period apart, and no property says they are.
* **Datagrams that the system refuses** are never reported: `lib/ReadoutClass.cpp:178`
  tests for a negative code and cluon's is a positive `errno`.
* **Type 0x41**, which `lib/Readout.h:63` and `ReadoutCAEN.comp:29` name for CSPEC, is
  undefined in `lib/enums.cpp`, and a component with it ends in INITIALIZE.
* **A file of another version** is said to be such and read on; a type it names that this
  version does not know then ends the program, past the handler that prints such errors
  (`lib/reader.h:68-76`).

## 6. What is not modelled, and why

Printing; the query functions; the random seeds (every Poisson
number up to the bound is possible at every draw); the contents of a readout beside
its time stamp; `double` rounding; negative times of flight; the operating system's treatment of a
datagram. The overflow of `SeqNum`, and of the class's clock and quotients beyond 32 bits,
are limits named above; what a quotient beyond 32 bits is, `EfuTimeMachine` says. A
period of no ticks, by which `update_time` would divide, takes a pulse rate above 88 MHz.

Of files: what HDF5 has written to disk when a process is killed (a row that HDF5
was given counts as in the file); files of other programs; a node's file left from
an earlier job beyond the exception its writer throws; the integer codes of the types,
of which an undefined one throws before there is an object. Of the components:
`merge_mpi = 0` and no `filename`, where nothing is merged; a build without MPI; how a
particle's properties become the fields of a readout. Of the replay: addresses and
ports, sequential and random flags at once (the parser refuses them).

Of cluon: the constructor of `TCPConnection` from a socket, `setOnNewData` and
`setOnConnectionLost`, which the library does not call; the delegates, which print; the resolution of names; and
everything but `TCPConnection` and `NotifyingPipeline`. `UDPSender` hands a datagram to
the operating system under a mutex that nobody else takes. `lib/cluon-complete.hpp` is a
single header of 18 800 lines (sessions, message formats, shared memory, players,
recorders) and `src/args.hxx` one of 4 600; nothing of what is left there is state of this
system, and they are nine tenths of the repository's lines, so the modelled part is a
small share of all lines. Of the library's own files, components and programs the
models cover more than half the lines: what remains is printing, forwarding
overloads, declarations and the layout of records.

## 7. Plan

Done: 1. `EfuTime`; 2. `PacketBuffer`, `ReadoutTypes`; 3. `Readout` with its runs;
4. `ReadoutStream` and its refinement; 5. the proofs about them; 6. `EventFile`;
7. `Merge` with its proofs; 8. `Replay`; 9. `NotifyingPipeline`, `TcpConnection`,
`Shutdown` and its refinement; 10. names of types in `EventFile`; 11. `ReplayWire`;
12. the proofs about the shutdown; 13. order and completeness of the merge;
14. `RowsMirrorCalls`, `PrevPulseIsReal`, `ImplementsStream` and the register machine;
15. the proofs about the replay;
16. the replay on the network, with an action per copy, and its proofs.

Next: fewer hypotheses. `PrevPulsesReal` with the network disabled at times needs the
property itself to say what the previous pulse is when datagrams were withheld.
