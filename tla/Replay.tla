------------------------------- MODULE Replay -------------------------------
(***************************************************************************)
(* The replay of an event file (lib/replay.cpp) and its program            *)
(* (src/replay/main.cpp).  Each event that is taken from the file goes to  *)
(* the method addReadout of a new object of class Readout; what becomes of *)
(* it there is the action MethodAdd of module Readout.  Events are named   *)
(* by their index in the file.                                             *)
(*                                                                         *)
(* An int that becomes a size_t is reduced modulo SizeWord.  std::shuffle  *)
(* is any order: the next event is any of those that remain.               *)
(***************************************************************************)
EXTENDS EventFile, FiniteSets, Functions

CONSTANTS
    Giga,         \* 2^30
    UIntWord,     \* the values of an unsigned int, four Giga
    SizeWord,     \* the values of a size_t
    ElementSize,  \* sizeof(CAEN_event)
    Files,        \* the files that may be replayed
    Counts,       \* values of COUNT, NoCount among them
    Firsts, Everys

(***************************************************************************)
(* A size_t has the bits of two unsigned ints.                             *)
(***************************************************************************)
ASSUME WordsAssumption ==
    /\ {Giga, UIntWord, SizeWord, ElementSize} \subseteq Nat \ {0, 1}
    /\ UIntWord = 4 * Giga
    /\ SizeWord = UIntWord * UIntWord

\* Arguments are ints.
ASSUME ArgumentsAssumption ==
    Counts \cup Firsts \cup Everys \subseteq -(2 * Giga) .. 2 * Giga - 1

VARIABLES
    file,    \* the file to replay
    asked,   \* COUNT, FIRST and EVERY, by the program or of replay_subset
    random,  \* RANDOM is set
    todo,    \* the indexes that remain
    added,   \* the events given to addReadout so far
    pc       \* "start", "replay", "done", "threw"

vars == <<file, asked, random, todo, added, pc>>

SizeT(n) == n % SizeWord
Size(f) == Len(RowsOf(f))

(***************************************************************************)
(* A row takes 16 bytes at least, of the 2^64 that HDF5 can address.       *)
(***************************************************************************)
ASSUME FilesAssumption == \A f \in Files : Size(f) \in 0 .. SizeWord \div 16 - 1

Init == /\ file \in Files
        /\ asked \in [program : BOOLEAN, count : Counts, first : Firsts, every : Everys]
        /\ random \in BOOLEAN
        /\ todo = << >> /\ added = << >> /\ pc = "start"

---------------------------------------------------------------------------
PAGESIZE == (4 * Giga) % UIntWord

loadable(number) == SizeT(ElementSize * number) <= PAGESIZE

(***************************************************************************)
(* A vector of 8-byte elements is refused from 2^60 elements on.           *)
(***************************************************************************)
VectorThrows(number) == number >= SizeWord \div 16

\* Slip: the last event is refused.
GetThrowsAtLast(f, index, count) ==
    index >= Size(f) \/ SizeT(index + count) >= Size(f)

\* Slip: only where the range begins is tested.
GetThrowsAtFirst(f, index, count) == index >= Size(f)

(***************************************************************************)
(* Reader::get_*(index, count).                                            *)
(***************************************************************************)
GetThrows(f, index, count) ==
    \/ index >= Size(f)
    \/ SizeT(index + count) > Size(f)

Throw == pc' = "threw" /\ UNCHANGED <<file, asked, random, todo, added>>

\* Slip: a negative EVERY is not reduced.
IndexesUnwrapped(number, first, every) ==
    [k \in 1 .. number |-> first + (k - 1) * every]

\* Slip: EVERY counts the events between those replayed.
IndexesSkipping(number, first, every) ==
    [k \in 1 .. number |-> SizeT(first + (k - 1) * (every + 1))]

Indexes(number, first, every) ==
    [k \in 1 .. number |-> SizeT(first + (k - 1) * every)]

(***************************************************************************)
(* load_replay reads all events at once and then adds them; chunk_replay   *)
(* reads each before it is added.                                          *)
(***************************************************************************)
LoadReplay(number, first) ==
    \/ /\ ~VectorThrows(number) /\ ~GetThrows(file, first, number)
       /\ todo' = Indexes(number, first, 1)
       /\ pc' = "replay"
       /\ UNCHANGED <<file, asked, random, added>>
    \/ /\ VectorThrows(number) \/ GetThrows(file, first, number)
       /\ Throw

ChunkReplay(number, first, every) ==
    \/ /\ ~VectorThrows(number)
       /\ todo' = Indexes(number, first, every)
       /\ pc' = "replay"
       /\ UNCHANGED <<file, asked, random, added>>
    \/ VectorThrows(number) /\ Throw

replay_all ==
    IF loadable(Size(file)) THEN LoadReplay(Size(file), 0)
                            ELSE ChunkReplay(Size(file), 0, 1)

replay_subset(first, number, every) ==
    IF loadable(number) /\ every = 1 THEN LoadReplay(number, first)
                                     ELSE ChunkReplay(number, first, every)

(***************************************************************************)
(* main: COUNT is -1 when the flag is absent, and replay_all is called for *)
(* COUNT = 0 only.  Both functions begin with the constructor of Reader.   *)
(* A caller of the library may also ask replay_subset for no event.        *)
(***************************************************************************)
NoCount == -1

AsksForAll == asked.program /\ asked.count = 0

Start ==
    /\ pc = "start"
    /\ \/ ReaderThrows(file) /\ Throw
       \/ /\ ~ReaderThrows(file) /\ ~AsksForAll
          /\ replay_subset(SizeT(asked.first), SizeT(asked.count), SizeT(asked.every))
       \/ ~ReaderThrows(file) /\ AsksForAll /\ replay_all

(***************************************************************************)
(* One turn of the loop: event(i).add(readout).                            *)
(***************************************************************************)
\* Slip: an event that was added is not taken out of the order.
TakenTwice(k) == todo' = IF k = 1 THEN SubSeq(todo, 2, Len(todo))
                                  ELSE SubSeq(todo, 1, Len(todo) - 1)

Taken(k) == todo' = SubSeq(todo, 1, k - 1) \o SubSeq(todo, k + 1, Len(todo))

Add ==
    /\ pc = "replay"
    /\ \E k \in DOMAIN todo :
          /\ random \/ k = 1
          /\ \/ /\ ~GetThrows(file, todo[k], 1)
                /\ added' = Append(added, todo[k])
                /\ Taken(k)
                /\ UNCHANGED <<file, asked, random, pc>>
             \/ GetThrows(file, todo[k], 1) /\ Throw

Return == /\ pc = "replay" /\ todo = << >>
          /\ pc' = "done"
          /\ UNCHANGED <<file, asked, random, todo, added>>

Done == pc \in {"done", "threw"} /\ UNCHANGED vars

Next == Start \/ Add \/ Return \/ Done

Spec == Init /\ [][Next]_vars

---------------------------------------------------------------------------
(***************************************************************************)
(* Properties.  Asked(k) is the k-th event that the command line names, in *)
(* integers that do not wrap.                                              *)
(***************************************************************************)
TypeOK ==
    /\ file \in Files
    /\ asked \in [program : BOOLEAN, count : Counts, first : Firsts, every : Everys]
    /\ random \in BOOLEAN
    /\ todo \in Seq(0 .. SizeWord - 1) /\ added \in Seq(0 .. SizeWord - 1)
    /\ pc \in {"start", "replay", "done", "threw"}

Number == IF AsksForAll THEN Size(file) ELSE asked.count
Asked(k) == IF AsksForAll THEN k - 1 ELSE asked.first + (k - 1) * asked.every

AddedAt(event) == {i \in DOMAIN added : added[i] = event}
AskedAt(event) == {k \in 1 .. Number : Asked(k) = event}

(***************************************************************************)
(* However the ints of the command line wrap when they become size_t       *)
(* (main.cpp:45-59, replay.cpp:75-107), no event outside the file is       *)
(* replayed and none more often than it was asked for, also when the       *)
(* replay fails in the middle.                                             *)
(***************************************************************************)
OnlyAsked ==
    \A event \in Range(added) :
        /\ event \in 0 .. Size(file) - 1
        /\ Cardinality(AddedAt(event)) <= Cardinality(AskedAt(event))

(***************************************************************************)
(* A replay that ends (replay.cpp:39-95) has replayed all that was asked   *)
(* for; without RANDOM it has done so in order, and one that failed had    *)
(* replayed what came before the event that is not in the file.            *)
(***************************************************************************)
AsAsked ==
    /\ pc = "done" => Len(added) = Number
    /\ ~random => \A i \in DOMAIN added : added[i] = Asked(i)
    /\ pc = "threw" /\ ~random /\ added # << >> =>
          Asked(Len(added) + 1) \notin 0 .. Size(file) - 1

(***************************************************************************)
(* A replay of events that are all in the file does not throw              *)
(* (reader.h:91-123, replay.cpp:21-107).  It must name at least one: for   *)
(* no events an empty range is read, which is refused at the end of a file.*)
(***************************************************************************)
AllInFile == /\ ~ReaderThrows(file) /\ Number > 0
             /\ \A k \in 1 .. Number : Asked(k) \in 0 .. Size(file) - 1

LegalReplayRuns == AllInFile => pc # "threw"

(***************************************************************************)
(* The two ways of reading (replay.cpp:26-71, reader.h:91-123) agree:      *)
(* however the arguments wrap, reading events one after another at once is *)
(* refused exactly when one of them would be on its own.  PAGESIZE, which  *)
(* should be configurable (replay.cpp:8), then decides how a replay fails, *)
(* but not which.  An empty range is the exception: read at once, it is    *)
(* refused from the end of the file on.                                    *)
(***************************************************************************)
First == IF AsksForAll THEN 0 ELSE SizeT(asked.first)
Loaded == IF AsksForAll THEN Size(file) ELSE SizeT(asked.count)

WaysAgree ==
    Loaded > 0 /\ ~VectorThrows(Loaded) =>
        (GetThrows(file, First, Loaded) <=>
            \E event \in Range(Indexes(Loaded, First, 1)) : GetThrows(file, event, 1))

(***************************************************************************)
(* main.cpp:17 "Replay subset, FIRST and EVERY ignored if COUNT is not     *)
(* present": without COUNT all events of a file are replayed.  main passes *)
(* the absent flag's -1 on as the number of events.                        *)
(***************************************************************************)
NoCountReplaysAll ==
    ~ReaderThrows(file) /\ Size(file) > 0 /\ asked.program /\ asked.count = NoCount
        => pc # "threw"
=============================================================================
