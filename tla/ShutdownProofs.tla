--------------------------- MODULE ShutdownProofs ---------------------------
(***************************************************************************)
(* Proofs about module Shutdown, for any number of answers of the EFU and  *)
(* any settings: its type invariant, that a connection is closed only when *)
(* its threads have ended, that its pipeline neither takes an entry that   *)
(* is not there nor forgets one that is, and that a call keeps the promise *)
(* of ShutdownCommand.  No fairness is used.                               *)
(***************************************************************************)
EXTENDS Shutdown, SequenceTheorems, TLAPS

(***************************************************************************)
(* The invariant.  What the threads have done follows from where the       *)
(* calling thread is: it alone starts, stops and joins them.               *)
(***************************************************************************)
Before == {"idle", "connect", "died"}

Unsent == {"awaitReader", "makePipeline", "awaitPipeline", "send", "transmit"}

Destroying == {"stopReader", "joinReader", "stopPipeline", "notifyPipeline",
               "joinPipeline", "close"}

BeforeInv == caller \in Before => NoConnection /\ NoPipeline

ReaderInv ==
    reader \notin {"none", "ended"} => caller \in Unsent \cup {"stopReader", "joinReader"}

PipelineInv ==
    /\ hasPipeline => caller \in {"send", "transmit"} \cup Destroying
    /\ ~hasPipeline => queue = << >> /\ delivered = << >>
    /\ ~hasPipeline /\ caller # "awaitPipeline" => pipeline = "none"
    /\ caller = "close" => Joined

CommandInv ==
    /\ caller \in Unsent => command = "unsent"
    /\ caller \in Destroying => command # "unsent"
    /\ socket = "none" => command \in {"unsent", "failed"} /\ caller # "transmit"

PlaceInv == BeforeInv /\ ReaderInv /\ PipelineInv /\ CommandInv

(***************************************************************************)
(* The mutex: a thread that is about to wait has found nothing to do, and  *)
(* nothing is added until it waits.                                        *)
(***************************************************************************)
WaitInv == /\ pipeline = "block" => queue = << >>
           /\ WakeupPending

(***************************************************************************)
(* The answers on their way to the delegate, oldest first: those delivered *)
(* (also the one that is not popped yet), those queued, the one in the     *)
(* reader's hands, those in the socket.  Each has a higher number than all *)
(* before it, and none has one that the EFU has not given yet.             *)
(***************************************************************************)
Queued == IF pipeline = "pop" THEN Tail(queue) ELSE queue
InHand == IF reader = "store" THEN <<chunk>> ELSE << >>
Stream == delivered \o (Queued \o (InHand \o inbound))

Increasing(s) == \A i, j \in DOMAIN s : i < j => s[i] < s[j]

OrderInv == Stream \in Seq(1 .. answers) /\ Increasing(Stream)

Inv == TypeOK /\ EntriesPresent /\ PlaceInv /\ WaitInv /\ OrderInv

---------------------------------------------------------------------------
(***************************************************************************)
(* Types.  The flags by themselves first.                                  *)
(***************************************************************************)
Flags == /\ readerRunning \in BOOLEAN /\ hasPipeline \in BOOLEAN
         /\ pipelineRunning \in BOOLEAN

(***************************************************************************)
(* The flags of the two threads are only assigned true and false.          *)
(***************************************************************************)
LEMMA FlagsStep ==
  ASSUME Flags, [Next]_vars
  PROVE  Flags'
<1> USE DEF Flags, vars, connectionVars, pipelineVars, settings
<1>1. CASE UNCHANGED vars
  BY <1>1, Zenon
<1>2. ASSUME NEW x, SetLevel(x) \/ Verbose(x) \/ SwitchNetwork(x)
      PROVE  Flags'
  BY <1>2, Zenon DEF SetLevel, Verbose, SwitchNetwork
<1>3. CASE CommandShutdown
  BY <1>3, Zenon DEF CommandShutdown
<1>4. CASE Return
  BY <1>4, Zenon DEF Return, Die, FreeConnection, FreePipeline
<1>5. CASE CallerStep
  <2>1. CASE ConnectFails \/ Connect \/ PollReader
    BY <2>1, Zenon DEF ConnectFails, Connect, PollReader
  <2>2. CASE MakePipeline \/ PollPipeline
    BY <2>2, Zenon DEF MakePipeline, StartPipeline, PollPipeline
  <2>3. CASE Send \/ Transmit
    BY <2>3, Zenon DEF Send, Transmit
  <2>4. CASE BrokenPipe
    BY <2>4, Zenon DEF BrokenPipe, Die, FreeConnection, FreePipeline
  <2>5. CASE StopReader \/ JoinReader
    BY <2>5, Zenon DEF StopReader, JoinReader
  <2>6. CASE DestroyPipeline \/ NotifyPipeline \/ JoinPipeline
    BY <2>6, Zenon DEF DestroyPipeline, StopPipeline, NotifyPipeline, NotifyAll, JoinPipeline
  <2> QED
    BY <1>5, <2>1, <2>2, <2>3, <2>4, <2>5, <2>6 DEF CallerStep
<1>6. CASE ReaderStep
  <2>1. CASE ReaderRuns \/ ReaderLoop \/ Select \/ ConnectionLost
    BY <2>1, Zenon DEF ReaderRuns, ReaderLoop, Select, ConnectionLost
  <2>2. CASE SelectAborts
    BY <2>2, Zenon DEF SelectAborts, Die, FreeConnection, FreePipeline
  <2>3. CASE Receive \/ Store \/ Notify
    BY <2>3, Zenon DEF Receive, Store, AddEntry, Notify, NotifyAll
  <2> QED
    BY <1>6, <2>1, <2>2, <2>3 DEF ReaderStep
<1>7. CASE (PipelineStep \/ SpuriousWake) /\ UNCHANGED connectionVars
  BY <1>7, Zenon DEF PipelineStep, Enter, Loop, Wait, Block, Count, Deliver, Pop, SpuriousWake
<1>8. CASE Answer \/ Leave
  BY <1>8, Zenon DEF Answer, Leave
<1> QED
  BY <1>1, <1>2, <1>3, <1>4, <1>5, <1>6, <1>7, <1>8 DEF Next

(***************************************************************************)
(* A caller's step (the constructor, send and destructor of TCPConnection) *)
(* keeps the types.                                                        *)
(***************************************************************************)
LEMMA CallerTypes ==
  ASSUME TypeOK, CallerStep, Flags', UNCHANGED <<settings, result>>
  PROVE  TypeOK'
<1> USE DEF TypeOK, ConnectionTypeOK, PipelineTypeOK, Flags, pipelineVars, settings
<1>1. CASE ConnectFails \/ Connect
  BY <1>1 DEF ConnectFails, Connect
<1>2. CASE PollReader \/ PollPipeline
  BY <1>2 DEF PollReader, PollPipeline
<1>3. CASE MakePipeline
  <2>1. CASE StartPipeline /\ caller' = "awaitPipeline" /\ UNCHANGED <<socket, inbound>>
    BY <1>3, <2>1 DEF MakePipeline, StartPipeline
  <2>2. CASE socket' = "none" /\ inbound' = << >> /\ caller' = "send" /\ UNCHANGED pipelineVars
    <3>1. UNCHANGED <<answers, reader, readerRunning, chunk, hasPipeline, command>>
      BY <1>3 DEF MakePipeline
    <3> QED
      BY <2>2, <3>1
  <2> QED
    BY <1>3, <2>1, <2>2, Zenon DEF MakePipeline
<1>4. CASE Send \/ Transmit
  BY <1>4 DEF Send, Transmit
<1>5. CASE BrokenPipe
  BY <1>5, ConnectionAssumption DEF BrokenPipe, Die, FreeConnection, FreePipeline
<1>6. CASE StopReader \/ JoinReader
  BY <1>6 DEF StopReader, JoinReader
<1>7. CASE DestroyPipeline \/ JoinPipeline
  BY <1>7 DEF DestroyPipeline, JoinPipeline, StopPipeline
<1>8. CASE NotifyPipeline
  BY <1>8 DEF NotifyPipeline, NotifyAll
<1> QED
  BY <1>1, <1>2, <1>3, <1>4, <1>5, <1>6, <1>7, <1>8 DEF CallerStep

(***************************************************************************)
(* What the reader takes from the socket, it hands to the pipeline: a step *)
(* of readFromSocket keeps the types.                                      *)
(***************************************************************************)
LEMMA ReaderTypes ==
  ASSUME TypeOK, ReaderStep, Flags', reader = "store" => chunk \in 1 .. MaxAnswers,
         UNCHANGED <<settings, result>>
  PROVE  TypeOK'
<1> USE DEF TypeOK, ConnectionTypeOK, PipelineTypeOK, Flags, pipelineVars, settings
<1>1. CASE ReaderRuns \/ ReaderLoop \/ ConnectionLost
  BY <1>1 DEF ReaderRuns, ReaderLoop, ConnectionLost
<1>2. CASE Select
  BY <1>2 DEF Select
<1>3. CASE SelectAborts
  BY <1>3, ConnectionAssumption DEF SelectAborts, Die, FreeConnection, FreePipeline
<1>4. CASE Receive
  <2>1. CASE inbound # << >>
    <3>1. Head(inbound) \in 1 .. MaxAnswers /\ Tail(inbound) \in Seq(1 .. MaxAnswers)
      BY <2>1, HeadTailProperties
    <3> QED
      BY <1>4, <2>1, <3>1 DEF Receive
  <2>2. CASE inbound = << >>
    BY <1>4, <2>2 DEF Receive
  <2> QED
    BY <2>1, <2>2
<1>5. CASE Store
  <2>1. CASE hasPipeline
    <3>1. Append(queue, chunk) \in Seq(1 .. MaxAnswers)
      BY <1>5, AppendProperties DEF Store
    <3>2. AddEntry(chunk)
      BY <1>5, <2>1, Zenon DEF Store
    <3>3. reader' = "notify" /\ UNCHANGED <<socket, answers, inbound, readerRunning,
                                           chunk, hasPipeline, command, caller>>
      BY <1>5 DEF Store
    <3> QED
      BY <3>1, <3>2, <3>3 DEF AddEntry
  <2>2. CASE ~hasPipeline
    BY <1>5, <2>2 DEF Store
  <2> QED
    BY <2>1, <2>2
<1>6. CASE Notify
  BY <1>6 DEF Notify, NotifyAll
<1> QED
  BY <1>1, <1>2, <1>3, <1>4, <1>5, <1>6 DEF ReaderStep

(***************************************************************************)
(* The entries that processPipeline takes out are there, so they are what  *)
(* the queue holds: its steps keep the types.                              *)
(***************************************************************************)
LEMMA PipelineTypes ==
  ASSUME TypeOK, EntriesPresent, PipelineStep \/ SpuriousWake, Flags',
         UNCHANGED <<connectionVars, settings, result>>
  PROVE  TypeOK' /\ EntriesPresent'
<1> USE DEF TypeOK, ConnectionTypeOK, PipelineTypeOK, Flags, connectionVars, settings,
            EntriesPresent
<1>1. CASE Enter \/ Block \/ SpuriousWake
  BY <1>1 DEF Enter, Block, SpuriousWake
<1>2. CASE Loop \/ Wait
  BY <1>2 DEF Loop, Wait
<1>3. CASE Count
  BY <1>3 DEF Count
<1>4. CASE Deliver
  <2>1. queue # << >>
    BY <1>4 DEF Deliver
  <2>2. Append(delivered, Head(queue)) \in Seq(1 .. MaxAnswers)
    BY <2>1, HeadTailProperties, AppendProperties
  <2> QED
    BY <1>4, <2>2 DEF Deliver
<1>5. CASE Pop
  BY <1>5 DEF Pop
<1> QED
  BY <1>1, <1>2, <1>3, <1>4, <1>5 DEF PipelineStep

---------------------------------------------------------------------------
(***************************************************************************)
(* Where the threads are.                                                  *)
(***************************************************************************)

(***************************************************************************)
(* A destroyed connection leaves nothing behind for the next call.         *)
(***************************************************************************)
LEMMA FreePlace ==
  ASSUME FreeConnection, caller' \in {"idle", "died"}
  PROVE  PlaceInv'
<1>1. BeforeInv'
  BY Zenon DEF FreeConnection, FreePipeline, BeforeInv, NoConnection, NoPipeline
<1>2. ReaderInv'
  BY DEF FreeConnection, ReaderInv
<1>3. PipelineInv'
  <2>1. ~hasPipeline'
    BY Zenon DEF FreeConnection
  <2> QED
    BY <2>1 DEF FreeConnection, FreePipeline, PipelineInv, Joined
<1>4. CommandInv'
  BY DEF FreeConnection, CommandInv, Unsent, Destroying
<1> QED
  BY <1>1, <1>2, <1>3, <1>4 DEF PlaceInv

(***************************************************************************)
(* The calling thread starts the others before it sends, and goes on in    *)
(* the destructor only when the one that it joins has ended.               *)
(***************************************************************************)
LEMMA CallerPlace ==
  ASSUME TypeOK, Flags', PlaceInv, CallerStep
  PROVE  PlaceInv'
<1> USE DEF TypeOK, ConnectionTypeOK, PipelineTypeOK, Flags, pipelineVars, settings,
            PlaceInv, BeforeInv, ReaderInv, PipelineInv, CommandInv, Before, Unsent,
            Destroying, Joined, NoConnection, NoPipeline
<1>1. CASE ConnectFails
  BY <1>1 DEF ConnectFails
<1>2. CASE Connect
  BY <1>2 DEF Connect
<1>3. CASE PollReader
  BY <1>3 DEF PollReader
<1>4. CASE PollPipeline
  BY <1>4 DEF PollPipeline
<1>5. CASE MakePipeline
  <2>1. CASE StartPipeline /\ caller' = "awaitPipeline" /\ UNCHANGED <<socket, inbound>>
    BY <1>5, <2>1 DEF MakePipeline, StartPipeline
  <2>2. CASE socket' = "none" /\ inbound' = << >> /\ caller' = "send" /\ UNCHANGED pipelineVars
    <3>1. caller = "makePipeline"
          /\ UNCHANGED <<answers, reader, readerRunning, chunk, hasPipeline, command>>
      BY <1>5 DEF MakePipeline
    <3> QED
      BY <2>2, <3>1
  <2> QED
    BY <1>5, <2>1, <2>2, Zenon DEF MakePipeline
<1>6. CASE Send
  BY <1>6 DEF Send
<1>7. CASE Transmit
  BY <1>7 DEF Transmit
<1>8. CASE BrokenPipe
  BY <1>8, FreePlace DEF BrokenPipe, Die
<1>9. CASE StopReader
  BY <1>9 DEF StopReader
<1>10. CASE JoinReader
  BY <1>10 DEF JoinReader
<1>11. CASE DestroyPipeline
  BY <1>11 DEF DestroyPipeline, StopPipeline
<1>12. CASE NotifyPipeline
  BY <1>12 DEF NotifyPipeline, NotifyAll
<1>13. CASE JoinPipeline
  BY <1>13 DEF JoinPipeline
<1> QED
  BY <1>1, <1>2, <1>3, <1>4, <1>5, <1>6, <1>7, <1>8, <1>9, <1>10, <1>11, <1>12, <1>13
     DEF CallerStep

(***************************************************************************)
(* The reading thread moves only while the caller has not joined it.       *)
(***************************************************************************)
LEMMA ReaderPlace ==
  ASSUME TypeOK, Flags', PlaceInv, ReaderStep
  PROVE  PlaceInv'
<1> USE DEF TypeOK, ConnectionTypeOK, PipelineTypeOK, Flags, pipelineVars, settings,
            PlaceInv, BeforeInv, ReaderInv, PipelineInv, CommandInv, Before, Unsent,
            Destroying, Joined, NoConnection, NoPipeline
<1>1. CASE ReaderRuns
  BY <1>1 DEF ReaderRuns
<1>2. CASE ReaderLoop
  BY <1>2 DEF ReaderLoop
<1>3. CASE Select
  BY <1>3 DEF Select
<1>4. CASE SelectAborts
  BY <1>4, FreePlace DEF SelectAborts, Die
<1>5. CASE Receive
  <2>1. socket = "none" <=> socket' = "none"
    BY <1>5 DEF Receive
  <2>2. reader = "recv" /\ reader' \in {"store", "lost"}
    BY <1>5 DEF Receive
  <2>3. UNCHANGED <<readerRunning, hasPipeline, command, caller, pipelineVars>>
    BY <1>5 DEF Receive
  <2> QED
    BY <2>1, <2>2, <2>3
<1>6. CASE ConnectionLost
  BY <1>6 DEF ConnectionLost
<1>7. CASE Store
  <2>1. reader = "store" /\ reader' = "notify"
        /\ UNCHANGED <<socket, answers, inbound, readerRunning, chunk, hasPipeline,
                       command, caller>>
    BY <1>7 DEF Store
  <2>2. CASE hasPipeline /\ AddEntry(chunk)
    BY <2>1, <2>2 DEF AddEntry
  <2>3. CASE ~hasPipeline /\ UNCHANGED pipelineVars
    BY <2>1, <2>3
  <2> QED
    BY <1>7, <2>2, <2>3, Zenon DEF Store
<1>8. CASE Notify
  <2>1. reader = "notify" /\ reader' = "while"
        /\ UNCHANGED <<socket, answers, inbound, readerRunning, chunk, hasPipeline,
                       command, caller>>
    BY <1>8 DEF Notify
  <2>2. CASE hasPipeline /\ NotifyAll
    BY <2>1, <2>2 DEF NotifyAll
  <2>3. CASE ~hasPipeline /\ UNCHANGED pipelineVars
    BY <2>1, <2>3
  <2> QED
    BY <1>8, <2>2, <2>3, Zenon DEF Notify
<1> QED
  BY <1>1, <1>2, <1>3, <1>4, <1>5, <1>6, <1>7, <1>8 DEF ReaderStep

(***************************************************************************)
(* The pipeline's thread moves only between its start and its join, and    *)
(* finds nothing to deliver before m_pipeline is set.                      *)
(***************************************************************************)
LEMMA PipelinePlace ==
  ASSUME TypeOK, Flags', EntriesPresent, PlaceInv, PipelineStep \/ SpuriousWake,
         UNCHANGED <<connectionVars, settings, result>>
  PROVE  PlaceInv'
<1> USE DEF TypeOK, ConnectionTypeOK, PipelineTypeOK, Flags, connectionVars, EntriesPresent,
            PlaceInv, BeforeInv, ReaderInv, PipelineInv, CommandInv, Before, Unsent,
            Destroying, Joined, NoConnection, NoPipeline
<1>1. CASE Enter \/ Block \/ SpuriousWake
  BY <1>1 DEF Enter, Block, SpuriousWake
<1>2. CASE Loop \/ Wait
  BY <1>2 DEF Loop, Wait
<1>3. CASE Count
  BY <1>3 DEF Count
<1>4. CASE Deliver \/ Pop
  <2>1. queue # << >>
    BY <1>4 DEF Deliver, Pop
  <2>2. hasPipeline /\ caller \notin Before /\ caller # "close"
        /\ pipeline' \notin {"none", "ended"}
    BY <1>4, <2>1 DEF Deliver, Pop
  <2> QED
    BY <2>2
<1> QED
  BY <1>1, <1>2, <1>3, <1>4 DEF PipelineStep

---------------------------------------------------------------------------
(***************************************************************************)
(* The queue and the condition variable.                                   *)
(***************************************************************************)

(***************************************************************************)
(* Another thread adds entries and never removes any, so those that        *)
(* processPipeline counted are still there; and it adds one only while the *)
(* mutex is free, and notifies after.                                      *)
(***************************************************************************)
LEMMA OthersQueue ==
  ASSUME TypeOK, Flags', EntriesPresent, PlaceInv, WaitInv, CallerStep \/ ReaderStep
  PROVE  EntriesPresent' /\ WaitInv'
<1> USE DEF TypeOK, ConnectionTypeOK, PipelineTypeOK, Flags, pipelineVars, EntriesPresent,
            PlaceInv, PipelineInv, WaitInv, WakeupPending
<1>1. ASSUME FreeConnection PROVE EntriesPresent' /\ WaitInv'
  BY <1>1 DEF FreeConnection, FreePipeline
<1>2. CASE UNCHANGED <<reader, pipelineVars>>
  BY <1>2
<1>3. CASE CallerStep
  <2>1. CASE MakePipeline
    <3>1. CASE StartPipeline
      BY <2>1, <3>1 DEF MakePipeline, StartPipeline
    <3>2. CASE UNCHANGED pipelineVars
      BY <2>1, <1>2, <3>2 DEF MakePipeline
    <3> QED
      BY <2>1, <3>1, <3>2, Zenon DEF MakePipeline
  <2>2. CASE Connect
    <3>1. queue = << >> /\ UNCHANGED <<pipelineVars>>
      BY <2>2 DEF Connect, BeforeInv, Before, NoPipeline
    <3> QED
      BY <3>1
  <2>3. CASE BrokenPipe
    BY <2>3, <1>1 DEF BrokenPipe, Die
  <2>4. CASE DestroyPipeline
    BY <2>4 DEF DestroyPipeline, StopPipeline
  <2>5. CASE NotifyPipeline
    BY <2>5 DEF NotifyPipeline, NotifyAll
  <2>6. CASE ConnectFails \/ PollReader \/ PollPipeline \/ Send \/ Transmit \/ StopReader
               \/ JoinReader \/ JoinPipeline
    BY <2>6, <1>2 DEF ConnectFails, PollReader, PollPipeline, Send, Transmit, StopReader,
                      JoinReader, JoinPipeline
  <2> QED
    BY <1>3, <2>1, <2>2, <2>3, <2>4, <2>5, <2>6 DEF CallerStep
<1>4. CASE ReaderStep
  <2>1. CASE reader # "notify" /\ UNCHANGED pipelineVars
    BY <2>1
  <2>2. CASE SelectAborts
    BY <2>2, <1>1 DEF SelectAborts, Die
  <2>3. CASE Store
    <3>1. CASE hasPipeline
      BY <2>3, <3>1 DEF Store, AddEntry, MutexFree
    <3>2. CASE ~hasPipeline
      BY <2>1, <2>3, <3>2, Zenon DEF Store
    <3> QED
      BY <3>1, <3>2
  <2>4. CASE Notify
    <3>1. CASE hasPipeline
      BY <2>4, <3>1 DEF Notify, NotifyAll
    <3>2. CASE ~hasPipeline
      BY <2>4, <3>2 DEF Notify
    <3> QED
      BY <3>1, <3>2
  <2>5. CASE ReaderRuns \/ ReaderLoop \/ Select \/ Receive \/ ConnectionLost
    BY <2>1, <2>5, Zenon DEF ReaderRuns, ReaderLoop, Select, Receive, ConnectionLost
  <2> QED
    BY <1>4, <2>2, <2>3, <2>4, <2>5 DEF ReaderStep
<1> QED
  BY <1>3, <1>4

(***************************************************************************)
(* A thread that is about to wait has seen an empty queue.                 *)
(***************************************************************************)
LEMMA PipelineQueue ==
  ASSUME TypeOK, Flags', EntriesPresent, WaitInv, PipelineStep \/ SpuriousWake,
         UNCHANGED <<connectionVars, settings, result>>
  PROVE  WaitInv'
<1> USE DEF TypeOK, ConnectionTypeOK, PipelineTypeOK, Flags, connectionVars, WaitInv,
            WakeupPending
<1>1. CASE Enter \/ Loop \/ SpuriousWake
  BY <1>1 DEF Enter, Loop, SpuriousWake
<1>2. CASE Wait
  BY <1>2 DEF Wait
<1>3. CASE Block
  BY <1>3 DEF Block
<1>4. CASE Count \/ Deliver \/ Pop
  BY <1>4 DEF Count, Deliver, Pop
<1> QED
  BY <1>1, <1>2, <1>3, <1>4 DEF PipelineStep

---------------------------------------------------------------------------
(***************************************************************************)
(* The order of the answers.  Facts about sequences first.                 *)
(***************************************************************************)

(***************************************************************************)
(* Where one sequence ends and the next begins does not matter: an element *)
(* may be moved from the head of one to the end of the other.              *)
(***************************************************************************)
LEMMA MoveElement ==
  ASSUME NEW S, NEW s \in Seq(S), NEW t \in Seq(S), NEW x \in S
  PROVE  /\ Append(s, x) \o t = s \o (<<x>> \o t)
         /\ s \o Append(t, x) = Append(s \o t, x)
<1>1. /\ Append(s, x) = s \o <<x>> /\ Append(t, x) = t \o <<x>>
      /\ Append(s \o t, x) = (s \o t) \o <<x>> /\ <<x>> \in Seq(S)
  BY AppendIsConcat, ConcatProperties
<1> QED
  BY <1>1, ConcatAssociative

(***************************************************************************)
(* front() and what is left of the queue.                                  *)
(***************************************************************************)
LEMMA HeadAndTail ==
  ASSUME NEW S, NEW s \in Seq(S), s # << >>
  PROVE  <<Head(s)>> \o Tail(s) = s
<1>1. <<Head(s)>> \in Seq(S) /\ Tail(s) \in Seq(S) /\ Len(s) \in Nat \ {0}
  BY HeadTailProperties, EmptySeq
<1>2. Len(<<Head(s)>> \o Tail(s)) = Len(s) /\ <<Head(s)>> \o Tail(s) \in Seq(S)
  BY <1>1, HeadTailProperties, ConcatProperties
<1>3. ASSUME NEW i \in 1 .. Len(s) PROVE (<<Head(s)>> \o Tail(s))[i] = s[i]
  BY <1>1, HeadTailProperties, ConcatProperties
<1> QED
  BY <1>2, <1>3, SeqEqual

(***************************************************************************)
(* An entry that goes from the queue to the delegate keeps its place.      *)
(***************************************************************************)
LEMMA MoveHead ==
  ASSUME NEW S, NEW s \in Seq(S), NEW q \in Seq(S), NEW r \in Seq(S),
         NEW x \in S, NEW t \in Seq(S), q = <<x>> \o t
  PROVE  Append(s, x) \o (t \o r) = s \o (q \o r)
<1>1. t \o r \in Seq(S) /\ <<x>> \in Seq(S)
  BY ConcatProperties
<1>2. Append(s, x) \o (t \o r) = s \o (<<x>> \o (t \o r))
  BY <1>1, MoveElement
<1>3. <<x>> \o (t \o r) = q \o r
  BY <1>1, ConcatAssociative
<1> QED
  BY <1>2, <1>3

(***************************************************************************)
(* Answers dropped at either end leave the others in order.                *)
(***************************************************************************)
LEMMA PartsIncrease ==
  ASSUME NEW S, NEW s \in Seq(S), NEW t \in Seq(S), NEW T,
         NEW c \in Seq(T), c = s \o t, Increasing(c)
  PROVE  s \in Seq(T) /\ t \in Seq(T) /\ Increasing(s) /\ Increasing(t)
<1>1. /\ Len(s) \in Nat /\ Len(t) \in Nat /\ Len(c) = Len(s) + Len(t)
      /\ DOMAIN s = 1 .. Len(s) /\ DOMAIN t = 1 .. Len(t)
      /\ DOMAIN c = 1 .. Len(s) + Len(t)
  BY ConcatProperties, LenProperties
<1>2. \A i \in 1 .. Len(s) : c[i] = s[i]
  BY <1>1, ConcatProperties
<1>3. \A i \in 1 .. Len(t) : c[Len(s) + i] = t[i]
  BY <1>1, ConcatProperties
<1>4. \A i \in 1 .. Len(s) + Len(t) : c[i] \in T
  BY <1>1, ElementOfSeq
<1>5. s \in Seq(T)
  BY <1>1, <1>2, <1>4, SeqDef
<1>6. t \in Seq(T)
  BY <1>1, <1>3, <1>4, SeqDef
<1>7. \A i, j \in 1 .. Len(s) + Len(t) : i < j => c[i] < c[j]
  BY <1>1 DEF Increasing
<1>8. Increasing(s)
  BY <1>1, <1>2, <1>7 DEF Increasing
<1>9. Increasing(t)
  <2> SUFFICES ASSUME NEW i \in 1 .. Len(t), NEW j \in 1 .. Len(t), i < j
               PROVE  t[i] < t[j]
    BY <1>1 DEF Increasing
  <2>1. /\ Len(s) + i \in 1 .. Len(s) + Len(t) /\ Len(s) + j \in 1 .. Len(s) + Len(t)
        /\ Len(s) + i < Len(s) + j
    BY <1>1
  <2>2. c[Len(s) + i] < c[Len(s) + j]
    BY <1>7, <2>1, Zenon
  <2> QED
    BY <1>3, <2>2
<1> QED
  BY <1>5, <1>6, <1>8, <1>9

(***************************************************************************)
(* The next answer of the EFU has a number above all it has given.         *)
(***************************************************************************)
LEMMA NextIncreases ==
  ASSUME NEW n \in Nat, NEW s \in Seq(1 .. n), Increasing(s)
  PROVE  Append(s, n + 1) \in Seq(1 .. n + 1) /\ Increasing(Append(s, n + 1))
<1>1. s \in Seq(1 .. n + 1)
  BY SeqMonotonic
<1>2. /\ Append(s, n + 1) \in Seq(1 .. n + 1) /\ Len(s) \in Nat
      /\ DOMAIN Append(s, n + 1) = 1 .. Len(s) + 1 /\ DOMAIN s = 1 .. Len(s)
      /\ \A i \in 1 .. Len(s) : Append(s, n + 1)[i] = s[i] /\ s[i] \in 1 .. n
      /\ Append(s, n + 1)[Len(s) + 1] = n + 1
  BY <1>1, AppendProperties, LenProperties, ElementOfSeq
<1> QED
  BY <1>2 DEF Increasing

\* The numbers of the answers; a name that the facts about sequences need not expand.
Number == Nat

(***************************************************************************)
(* What the parts of the stream are.                                       *)
(***************************************************************************)
LEMMA StreamParts ==
  ASSUME TypeOK, EntriesPresent
  PROVE  /\ delivered \in Seq(Number) /\ Queued \in Seq(Number)
         /\ InHand \in Seq(Number) /\ inbound \in Seq(Number) /\ queue \in Seq(Number)
         /\ pipeline \in {"deliver", "pop"} => queue # << >>
         /\ chunk \in Number /\ answers \in Number
<1>1. /\ delivered \in Seq(Number) /\ inbound \in Seq(Number) /\ queue \in Seq(Number)
      /\ chunk \in Number /\ answers \in Number
  BY ConnectionAssumption, SeqMonotonic DEF TypeOK, ConnectionTypeOK, PipelineTypeOK, Number
<1>2. pipeline \in {"deliver", "pop"} => queue # << >>
  BY EmptySeq DEF EntriesPresent
<1>3. Queued \in Seq(Number)
  BY <1>1, <1>2, HeadTailProperties DEF Queued
<1>4. InHand \in Seq(Number)
  <2>1. <<chunk>> \in Seq(Number) /\ << >> \in Seq(Number)
    BY <1>1
  <2> QED
    BY <2>1 DEF InHand
<1> QED
  BY <1>1, <1>2, <1>3, <1>4

(***************************************************************************)
(* Deliver moves the first entry from the queue to the delegate; Pop       *)
(* removes what was delivered; the other steps of processPipeline touch    *)
(* neither.                                                                *)
(***************************************************************************)
LEMMA PipelineOrder ==
  ASSUME TypeOK, EntriesPresent, PipelineStep \/ SpuriousWake, UNCHANGED connectionVars
  PROVE  Stream' = Stream
<1>1. /\ delivered \in Seq(Number) /\ queue \in Seq(Number) /\ inbound \in Seq(Number)
      /\ InHand \in Seq(Number)
      /\ pipeline \in {"deliver", "pop"} => queue # << >>
  BY StreamParts
<1>2. UNCHANGED <<InHand, inbound>>
  BY DEF connectionVars, InHand
<1>3. CASE Deliver
  <2>1. Queued = queue /\ Queued' = Tail(queue) /\ delivered' = Append(delivered, Head(queue))
    BY <1>3 DEF Deliver, Queued
  <2>2. queue # << >>
    BY <1>1, <1>3 DEF Deliver
  <2>3. PICK rest \in Seq(Number) : rest = InHand \o inbound
    BY <1>1, ConcatProperties, Zenon
  <2>4. PICK x \in Number, others \in Seq(Number) :
          x = Head(queue) /\ others = Tail(queue) /\ queue = <<x>> \o others
    BY <1>1, <2>2, HeadTailProperties, HeadAndTail
  <2>5. delivered \in Seq(Number) /\ queue \in Seq(Number) /\ queue = <<x>> \o others
    BY <1>1, <2>4
  <2>6. Append(delivered, x) \o (others \o rest) = delivered \o (queue \o rest)
    BY <2>5, MoveHead
  <2> QED
    BY <1>2, <2>1, <2>3, <2>4, <2>6, Zenon DEF Stream
<1>4. CASE Pop
  BY <1>2, <1>4 DEF Pop, Stream, Queued
<1>5. CASE Enter \/ Loop \/ Wait \/ Block \/ Count \/ SpuriousWake
  <2>1. UNCHANGED <<queue, delivered>> /\ pipeline # "pop" /\ pipeline' # "pop"
    BY <1>5 DEF Enter, Loop, Wait, Block, Count, SpuriousWake
  <2> QED
    BY <1>2, <2>1 DEF Stream, Queued
<1> QED
  BY <1>3, <1>4, <1>5 DEF PipelineStep

(***************************************************************************)
(* recv hands the first chunk to the reader, and add puts it behind those  *)
(* queued; without a pipeline nothing is queued or delivered, and the      *)
(* chunk is dropped.                                                       *)
(***************************************************************************)
LEMMA ReaderOrder ==
  ASSUME TypeOK, EntriesPresent, PlaceInv, OrderInv, ReaderStep, ~SelectAborts
  PROVE  OrderInv' /\ answers' = answers
<1>0. /\ delivered \in Seq(Number) /\ queue \in Seq(Number) /\ inbound \in Seq(Number)
      /\ Queued \in Seq(Number) /\ InHand \in Seq(Number) /\ chunk \in Number
      /\ pipeline \in {"deliver", "pop"} => queue # << >>
      /\ << >> \in Seq(Number) /\ <<chunk>> \in Seq(Number)
  BY StreamParts, EmptySeq
<1>1. CASE ReaderRuns \/ ReaderLoop \/ Select \/ ConnectionLost \/ Notify
  <2>1. UNCHANGED <<queue, delivered, inbound, answers>>
        /\ reader # "store" /\ reader' # "store" /\ (pipeline = "pop") = (pipeline' = "pop")
    BY <1>1, Zenon DEF ReaderRuns, ReaderLoop, Select, ConnectionLost, Notify, NotifyAll,
                       pipelineVars
  <2> QED
    BY <2>1 DEF OrderInv, Stream, Queued, InHand
<1>2. CASE Receive
  <2>1. InHand' \o inbound' = InHand \o inbound
    <3>1. CASE inbound # << >>
      <4>1. InHand = << >> /\ InHand' = <<Head(inbound)>> /\ inbound' = Tail(inbound)
        BY <1>2, <3>1 DEF Receive, InHand
      <4> QED
        BY <1>0, <3>1, <4>1, HeadAndTail, ConcatEmptySeq
    <3>2. CASE inbound = << >>
      BY <1>2, <3>2 DEF Receive, InHand
    <3> QED
      BY <3>1, <3>2
  <2>2. UNCHANGED <<delivered, Queued, answers>>
    BY <1>2 DEF Receive, Queued, pipelineVars
  <2> QED
    BY <2>1, <2>2 DEF OrderInv, Stream
<1>3. CASE Store
  <2>1. InHand = <<chunk>> /\ InHand' = << >> /\ inbound' = inbound /\ answers' = answers
    BY <1>3 DEF Store, InHand
  <2>2. CASE hasPipeline
    <3>1. AddEntry(chunk)
      BY <1>3, <2>2, Zenon DEF Store
    <3>2. delivered' = delivered /\ pipeline' = pipeline /\ queue' = Append(queue, chunk)
      BY <3>1 DEF AddEntry
    <3>3. Queued' = Append(Queued, chunk)
      BY <1>0, <3>2, HeadTailAppend DEF Queued
    <3>4. Queued' \o inbound = Queued \o (<<chunk>> \o inbound)
      BY <1>0, <3>3, MoveElement
    <3> QED
      BY <1>0, <2>1, <3>2, <3>4, ConcatEmptySeq DEF OrderInv, Stream
  <2>3. CASE ~hasPipeline
    <3>1. UNCHANGED pipelineVars
      BY <1>3, <2>3, Zenon DEF Store
    <3>2. queue = << >> /\ delivered = << >> /\ pipeline # "pop"
      BY <1>0, <2>3 DEF PlaceInv, PipelineInv
    <3>3. Stream = <<chunk>> \o inbound /\ Stream' = inbound
      BY <1>0, <2>1, <3>1, <3>2, ConcatEmptySeq, ConcatProperties
         DEF Stream, Queued, pipelineVars
    <3> QED
      BY <1>0, <2>1, <3>3, PartsIncrease DEF OrderInv
  <2> QED
    BY <2>2, <2>3
<1> QED
  BY <1>1, <1>2, <1>3 DEF ReaderStep

(***************************************************************************)
(* The caller touches the stream only when the pipeline's thread does not  *)
(* start, which drops what was not received, or with the whole connection. *)
(***************************************************************************)
LEMMA CallerOrder ==
  ASSUME TypeOK, EntriesPresent, PlaceInv, OrderInv, CallerStep, ~BrokenPipe
  PROVE  OrderInv'
<1>1. /\ Queued \in Seq(Number) /\ InHand \in Seq(Number) /\ inbound \in Seq(Number)
      /\ << >> \in Seq(Number)
  BY StreamParts, EmptySeq
<1>2. ASSUME UNCHANGED <<delivered, queue, reader, chunk, inbound, answers>>,
             (pipeline' = "pop") = (pipeline = "pop")
      PROVE  OrderInv'
  BY <1>2 DEF OrderInv, Stream, Queued, InHand
<1>3. CASE Connect
  <2>1. delivered = << >> /\ queue = << >> /\ inbound = << >> /\ pipeline = "none"
    BY <1>3 DEF Connect, PlaceInv, BeforeInv, Before, NoConnection, NoPipeline
  <2>2. UNCHANGED <<delivered, queue, inbound, answers, pipeline>>
        /\ reader' \in {reader, "start"} /\ chunk' = chunk /\ reader = "none"
    BY <1>3 DEF Connect, pipelineVars, PlaceInv, BeforeInv, Before, NoConnection
  <2> QED
    BY <2>1, <2>2 DEF OrderInv, Stream, Queued, InHand
<1>4. CASE MakePipeline
  <2>1. reader' = reader /\ chunk' = chunk /\ answers' = answers /\ ~hasPipeline
    BY <1>4 DEF MakePipeline, PlaceInv, PipelineInv, Destroying
  <2>2. CASE StartPipeline /\ UNCHANGED inbound
    BY <1>2, <2>1, <2>2 DEF StartPipeline
  <2>3. CASE inbound' = << >> /\ UNCHANGED pipelineVars
    <3>1. queue = << >> /\ delivered = << >> /\ pipeline # "pop"
          /\ UNCHANGED <<queue, delivered, pipeline>>
      BY <1>4, <2>1, <2>3 DEF MakePipeline, PlaceInv, PipelineInv, pipelineVars
    <3>2. Stream = InHand \o inbound /\ Stream' = InHand
      BY <1>1, <2>1, <2>3, <3>1, ConcatEmptySeq, ConcatProperties DEF Stream, Queued, InHand
    <3> QED
      BY <1>1, <2>1, <3>2, PartsIncrease DEF OrderInv
  <2> QED
    BY <1>4, <2>2, <2>3, Zenon DEF MakePipeline
<1>5. CASE NotifyPipeline
  BY <1>2, <1>5 DEF NotifyPipeline, NotifyAll
<1>6. CASE DestroyPipeline
  BY <1>2, <1>6 DEF DestroyPipeline, StopPipeline
<1>7. CASE ConnectFails \/ PollReader \/ PollPipeline \/ Send \/ Transmit \/ StopReader
             \/ JoinReader \/ JoinPipeline
  BY <1>2, <1>7, Zenon DEF ConnectFails, PollReader, PollPipeline, Send, Transmit, StopReader,
                    JoinReader, JoinPipeline, pipelineVars
<1> QED
  BY <1>3, <1>4, <1>5, <1>6, <1>7 DEF CallerStep

(***************************************************************************)
(* An answer of the EFU goes to the end of the stream.                     *)
(***************************************************************************)
LEMMA AnswerOrder ==
  ASSUME TypeOK, EntriesPresent, OrderInv, Answer
  PROVE  OrderInv'
<1>1. /\ delivered \in Seq(Number) /\ Queued \in Seq(Number) /\ InHand \in Seq(Number)
      /\ inbound \in Seq(Number) /\ answers \in Number /\ answers + 1 \in Number /\ answers \in Nat
  BY StreamParts DEF Number
<1>2. /\ UNCHANGED <<delivered, Queued, InHand>> /\ answers' = answers + 1
      /\ inbound' = Append(inbound, answers + 1)
  BY DEF Answer, pipelineVars, Queued, InHand
<1>3. PICK next \in Number : next = answers + 1
  BY <1>1
<1>4. PICK rest \in Seq(Number) : rest = InHand \o inbound
  BY <1>1, ConcatProperties
<1>5. PICK more \in Seq(Number) : more = Queued \o rest
  BY <1>1, ConcatProperties
<1>6. /\ InHand \o Append(inbound, next) = Append(rest, next)
      /\ Queued \o Append(rest, next) = Append(more, next)
      /\ delivered \o Append(more, next) = Append(delivered \o more, next)
  <2>1. InHand \in Seq(Number) /\ inbound \in Seq(Number)
    BY <1>1
  <2>2. InHand \o Append(inbound, next) = Append(InHand \o inbound, next)
    BY <2>1, MoveElement
  <2>3. Queued \in Seq(Number)
    BY <1>1
  <2>4. Queued \o Append(rest, next) = Append(Queued \o rest, next)
    BY <2>3, MoveElement
  <2>5. delivered \in Seq(Number)
    BY <1>1
  <2>6. delivered \o Append(more, next) = Append(delivered \o more, next)
    BY <2>5, MoveElement
  <2> QED
    BY <1>4, <1>5, <2>2, <2>4, <2>6
<1>7. Stream' = Append(Stream, answers + 1)
  BY <1>2, <1>3, <1>4, <1>5, <1>6, Zenon DEF Stream
<1> QED
  BY <1>1, <1>2, <1>7, NextIncreases DEF OrderInv

(***************************************************************************)
(* Nothing is left of the stream of a connection that was destroyed.       *)
(***************************************************************************)
LEMMA FreeOrder ==
  ASSUME FreeConnection
  PROVE  OrderInv'
<1>1. delivered' = << >> /\ queue' = << >> /\ pipeline' = "none" /\ reader' = "none"
      /\ inbound' = << >> /\ answers' = 0
  BY DEF FreeConnection, FreePipeline
<1>2. Stream' = << >>
  BY <1>1, EmptySeq, ConcatEmptySeq DEF Stream, Queued, InHand
<1> QED
  BY <1>1, <1>2, EmptySeq DEF OrderInv, Increasing

---------------------------------------------------------------------------
(***************************************************************************)
(* All of the invariant, over all steps.                                   *)
(***************************************************************************)

(***************************************************************************)
(* A step of the settings, or one that starts or ends a call, has no       *)
(* thread to disturb: those of the previous call have ended.               *)
(***************************************************************************)
LEMMA SettingsStep ==
  ASSUME Inv, UNCHANGED <<pipelineVars, socket, answers, inbound, reader, readerRunning,
                          chunk, hasPipeline, command>>,
         caller = "idle", caller' \in {"idle", "connect"}, TypeOK'
  PROVE  Inv'
<1>1. EntriesPresent' /\ WaitInv'
  BY DEF Inv, EntriesPresent, WaitInv, WakeupPending, pipelineVars
<1>2. NoConnection /\ NoPipeline /\ NoConnection' /\ NoPipeline'
  BY Zenon DEF Inv, PlaceInv, BeforeInv, Before, NoConnection, NoPipeline, pipelineVars
<1>3. PlaceInv'
  BY <1>2 DEF Inv, PlaceInv, BeforeInv, Before, ReaderInv, PipelineInv, CommandInv, Unsent,
              Destroying, NoConnection, NoPipeline, Joined
<1>4. OrderInv'
  BY DEF Inv, OrderInv, Stream, Queued, InHand, pipelineVars
<1> QED
  BY <1>1, <1>3, <1>4 DEF Inv

(***************************************************************************)
(* Nor has one that destroys the connection.                               *)
(***************************************************************************)
LEMMA FreeStep ==
  ASSUME FreeConnection, caller' \in {"idle", "died"}, TypeOK'
  PROVE  Inv'
<1>1. EntriesPresent' /\ WaitInv'
  BY DEF FreeConnection, FreePipeline, EntriesPresent, WaitInv, WakeupPending
<1> QED
  BY <1>1, FreePlace, FreeOrder DEF Inv

(***************************************************************************)
(* What the EFU does, the other threads' places do not depend on.          *)
(***************************************************************************)
LEMMA EfuStep ==
  ASSUME Inv, Flags', Answer \/ Leave, Alive, UNCHANGED <<settings, result>>
  PROVE  Inv'
<1>1. TypeOK'
  <2>1. ASSUME Answer PROVE Append(inbound, answers + 1) \in Seq(1 .. MaxAnswers)
    <3>1. answers + 1 \in 1 .. MaxAnswers /\ inbound \in Seq(1 .. MaxAnswers)
      BY <2>1, ConnectionAssumption DEF Inv, TypeOK, ConnectionTypeOK, Answer
    <3> QED
      BY <3>1, AppendProperties
  <2>2. CASE Answer
    BY <2>1, <2>2, ConnectionAssumption
       DEF Inv, TypeOK, ConnectionTypeOK, PipelineTypeOK, Flags, Answer, pipelineVars, settings
  <2>3. CASE Leave
    BY <2>3 DEF Inv, TypeOK, ConnectionTypeOK, PipelineTypeOK, Flags, Leave, pipelineVars,
                settings
  <2> QED
    BY <2>2, <2>3
<1>2. EntriesPresent' /\ WaitInv'
  BY DEF Inv, Answer, Leave, EntriesPresent, WaitInv, WakeupPending, pipelineVars
<1>3. PlaceInv'
  <2>1. socket # "none" /\ socket' # "none" /\ caller' = caller /\ caller \notin Before
    BY DEF Inv, PlaceInv, BeforeInv, NoConnection, Answer, Leave
  <2> QED
    BY <2>1 DEF Inv, PlaceInv, BeforeInv, ReaderInv, PipelineInv, CommandInv, Joined, Answer,
                Leave, pipelineVars
<1>4. OrderInv'
  <2>1. CASE Answer
    BY <2>1, AnswerOrder DEF Inv
  <2>2. CASE Leave
    BY <2>2 DEF Inv, OrderInv, Stream, Queued, InHand, Leave, pipelineVars
  <2> QED
    BY <2>1, <2>2
<1> QED
  BY <1>1, <1>2, <1>3, <1>4 DEF Inv

(***************************************************************************)
(* Before the first call there is nothing.                                 *)
(***************************************************************************)
LEMMA InvInit == Init => Inv
<1> SUFFICES ASSUME Init PROVE Inv
  OBVIOUS
<1> USE DEF Init, NoPipeline, NoConnection
<1>1. TypeOK
  <2>1. 0 \in Range(Level)
    BY DEF Level, Range
  <2>2. readerRunning \in BOOLEAN /\ hasPipeline \in BOOLEAN /\ pipelineRunning \in BOOLEAN
    BY Zenon
  <2> QED
    BY <2>1, <2>2, ConnectionAssumption DEF TypeOK, ConnectionTypeOK, PipelineTypeOK
<1>2. EntriesPresent /\ WaitInv
  BY DEF EntriesPresent, WaitInv, WakeupPending
<1>3. PlaceInv
  <2>1. ~hasPipeline
    BY Zenon
  <2>2. BeforeInv
    BY Zenon DEF BeforeInv
  <2> QED
    BY <2>1, <2>2 DEF PlaceInv, ReaderInv, PipelineInv, CommandInv, Unsent, Destroying
<1>4. OrderInv
  <2>1. Stream = << >>
    BY EmptySeq, ConcatEmptySeq DEF Stream, Queued, InHand
  <2> QED
    BY <2>1, EmptySeq DEF OrderInv, Increasing
<1> QED
  BY <1>1, <1>2, <1>3, <1>4 DEF Inv

(***************************************************************************)
(* Every step keeps the invariant.                                         *)
(***************************************************************************)
LEMMA InvStep == Inv /\ [Next]_vars => Inv'
<1> SUFFICES ASSUME Inv, [Next]_vars PROVE Inv'
  OBVIOUS
<1>1. Flags'
  BY FlagsStep, Zenon DEF Inv, TypeOK, ConnectionTypeOK, PipelineTypeOK, Flags
<1>2. \A level \in DOMAIN Level : Level[level] \in Range(Level)
  BY DEF Range
<1>3. CASE UNCHANGED vars
  BY <1>3 DEF vars, pipelineVars, connectionVars, settings, Inv, TypeOK, ConnectionTypeOK,
              PipelineTypeOK, EntriesPresent, PlaceInv, BeforeInv, NoConnection, NoPipeline,
              ReaderInv, PipelineInv, CommandInv, Joined, WaitInv, WakeupPending, OrderInv,
              Stream, Queued, InHand
<1>4. ASSUME NEW level \in Levels, SetLevel(level) PROVE Inv'
  <2>1. TypeOK'
    BY <1>1, <1>2, <1>4, VerbosityAssumption
       DEF SetLevel, Inv, TypeOK, ConnectionTypeOK, PipelineTypeOK, Flags, pipelineVars,
           connectionVars
  <2> QED
    BY <1>4, <2>1, SettingsStep DEF SetLevel, connectionVars
<1>5. ASSUME NEW v \in Verbosities, Verbose(v) PROVE Inv'
  <2>1. TypeOK'
    BY <1>1, <1>5
       DEF Verbose, Inv, TypeOK, ConnectionTypeOK, PipelineTypeOK, Flags, pipelineVars,
           connectionVars
  <2> QED
    BY <1>5, <2>1, SettingsStep DEF Verbose, connectionVars
<1>6. ASSUME NEW to \in {"enabled", "disabled"}, SwitchNetwork(to) PROVE Inv'
  <2>1. TypeOK'
    BY <1>1, <1>6
       DEF SwitchNetwork, Inv, TypeOK, ConnectionTypeOK, PipelineTypeOK, Flags, pipelineVars,
           connectionVars
  <2> QED
    BY <1>6, <2>1, SettingsStep DEF SwitchNetwork, connectionVars
<1>7. CASE CommandShutdown
  <2>1. TypeOK'
    BY <1>1, <1>7
       DEF CommandShutdown, Inv, TypeOK, ConnectionTypeOK, PipelineTypeOK, Flags,
           pipelineVars, settings
  <2> QED
    BY <1>7, <2>1, SettingsStep DEF CommandShutdown
<1>8. CASE Return
  <2>1. FreeConnection /\ caller' \in {"idle", "died"} /\ result' \in {-3, -2, result}
        /\ UNCHANGED settings
    BY <1>8, Zenon DEF Return, Die
  <2>2. TypeOK'
    BY <1>1, <2>1, ConnectionAssumption
       DEF FreeConnection, FreePipeline, Inv, TypeOK, ConnectionTypeOK, PipelineTypeOK,
           Flags, settings
  <2> QED
    BY <2>1, <2>2, FreeStep
<1>9. CASE CallerStep /\ UNCHANGED <<settings, result>>
  <2>1. TypeOK'
    BY <1>1, <1>9, CallerTypes DEF Inv
  <2>2. CASE BrokenPipe
    BY <2>1, <2>2, FreeStep DEF BrokenPipe, Die
  <2>3. CASE ~BrokenPipe
    BY <1>1, <1>9, <2>1, <2>3, CallerPlace, CallerOrder, OthersQueue DEF Inv
  <2> QED
    BY <2>2, <2>3
<1>10. CASE ReaderStep /\ UNCHANGED <<settings, result>>
  <2>1. reader = "store" => chunk \in 1 .. MaxAnswers
    <3> SUFFICES ASSUME reader = "store" PROVE chunk \in 1 .. MaxAnswers
      OBVIOUS
    <3>1. /\ delivered \in Seq(Number) /\ Queued \in Seq(Number)
          /\ InHand \in Seq(Number) /\ inbound \in Seq(Number)
      BY StreamParts DEF Inv
    <3>2. PICK rest \in Seq(Number), more \in Seq(Number) :
             rest = InHand \o inbound /\ more = Queued \o rest
      BY <3>1, ConcatProperties
    <3>3. InHand \in Seq(1 .. answers)
      BY <3>1, <3>2, PartsIncrease DEF Inv, OrderInv, Stream, Number
    <3> QED
      BY <3>3 DEF InHand, Inv, TypeOK, ConnectionTypeOK
  <2>2. TypeOK'
    BY <1>1, <1>10, <2>1, ReaderTypes DEF Inv
  <2>3. CASE SelectAborts
    BY <2>2, <2>3, FreeStep DEF SelectAborts, Die
  <2>4. CASE ~SelectAborts
    BY <1>1, <1>10, <2>2, <2>4, ReaderPlace, ReaderOrder, OthersQueue DEF Inv
  <2> QED
    BY <2>3, <2>4
<1>11. CASE (PipelineStep \/ SpuriousWake) /\ UNCHANGED <<connectionVars, settings, result>>
  <2>1. TypeOK' /\ EntriesPresent'
    BY <1>1, <1>11, PipelineTypes DEF Inv
  <2>2. PlaceInv' /\ WaitInv'
    BY <1>1, <1>11, PipelinePlace, PipelineQueue DEF Inv
  <2>3. Stream' = Stream /\ answers' = answers
    BY <1>11, PipelineOrder DEF Inv, connectionVars
  <2> QED
    BY <2>1, <2>2, <2>3 DEF Inv, OrderInv
<1>12. CASE (Answer \/ Leave) /\ Alive /\ UNCHANGED <<settings, result>>
  BY <1>1, <1>12, EfuStep
<1> QED
  BY <1>3, <1>4, <1>5, <1>6, <1>7, <1>8, <1>9, <1>10, <1>11, <1>12 DEF Next

(***************************************************************************)
(* The invariant of every run of readout_shutdown's threads.               *)
(***************************************************************************)
LEMMA Invariant == Spec => []Inv
  BY InvInit, InvStep, PTL DEF Spec

---------------------------------------------------------------------------
(***************************************************************************)
(* The theorems.                                                           *)
(***************************************************************************)

(***************************************************************************)
(* The members of TCPConnection and of NotifyingPipeline, the settings and *)
(* the result of readout_shutdown have their types.                        *)
(***************************************************************************)
THEOREM ShutdownTypeCorrect == Spec => []TypeOK
<1>1. Inv => TypeOK
  BY DEF Inv
<1> QED
  BY Invariant, <1>1, PTL

(***************************************************************************)
(* front() and pop_front() of processPipeline (cluon-complete.hpp:         *)
(* 6538-6556) are only called on a queue that holds an entry.              *)
(***************************************************************************)
THEOREM FrontIsThere == Spec => []EntriesPresent
<1>1. Inv => EntriesPresent
  BY DEF Inv
<1> QED
  BY Invariant, <1>1, PTL

(***************************************************************************)
(* ~TCPConnection closes the socket when neither thread can use it or the  *)
(* members any more.                                                       *)
(***************************************************************************)
THEOREM ClosedAlone == Spec => []NoThreadAtClose
<1>1. Inv => NoThreadAtClose
  BY DEF Inv, PlaceInv, ReaderInv, PipelineInv, Unsent, NoThreadAtClose
<1> QED
  BY Invariant, <1>1, PTL

(***************************************************************************)
(* The pipeline does not sleep through an answer: while it is blocked and  *)
(* its queue is not empty, the reader is about to notify it.               *)
(***************************************************************************)
THEOREM NoLostWakeup == Spec => []WakeupPending
<1>1. Inv => WakeupPending
  BY DEF Inv, WaitInv
<1> QED
  BY Invariant, <1>1, PTL

---------------------------------------------------------------------------
(***************************************************************************)
(* Refinement of ShutdownCommand.                                          *)
(***************************************************************************)
Given == CASE command = "sent" -> "whole"
           [] command = "part" -> "part"
           [] OTHER -> "nothing"

Phase == IF caller \in {"idle", "died"} THEN caller ELSE "calling"

(***************************************************************************)
(* Most steps are not seen from outside: neither what the EFU was given    *)
(* nor what was heard of it changes, nor the phase.                        *)
(***************************************************************************)
LEMMA Unseen ==
  ASSUME Phase' = Phase, Given' = Given, UNCHANGED <<delivered, settings, result>>
  PROVE  UNCHANGED Command!vars
BY Zenon DEF Phase, Given, Command!vars, settings, Silent

(***************************************************************************)
(* A call that ends the process has given nothing: nothing that can end it *)
(* can happen after a successful send.                                     *)
(***************************************************************************)
LEMMA DieCommand ==
  ASSUME Inv, Die, UNCHANGED <<settings, result>>, caller \notin Before,
         command \in {"unsent", "failed"}
  PROVE  Command!Die
<1>1. /\ Phase = "calling" /\ Phase' = "died" /\ Given = "nothing" /\ Given' = "nothing"
      /\ delivered' = << >>
  BY DEF Phase, Given, Die, FreeConnection, FreePipeline, Before
<1> QED
  BY <1>1 DEF Command!Die, Phase, Given, settings, Silent

(***************************************************************************)
(* What Deliver gives the delegate has a higher number than all it was     *)
(* given before.                                                           *)
(***************************************************************************)
LEMMA DeliverCommand ==
  ASSUME Inv, Deliver, UNCHANGED <<connectionVars, settings, result>>
  PROVE  Command!Hear
<1>1. /\ delivered \in Seq(Number) /\ queue \in Seq(Number) /\ Queued = queue /\ queue # << >>
      /\ InHand \in Seq(Number) /\ inbound \in Seq(Number)
  BY StreamParts DEF Inv, Deliver, Queued
<1>2. hasPipeline
  BY <1>1, Zenon DEF Inv, PlaceInv, PipelineInv
<1>3. Phase = "calling" /\ Phase' = Phase /\ Given' = Given
  BY <1>2 DEF Inv, PlaceInv, PipelineInv, Destroying, Phase, Given, connectionVars
<1>4. PICK rest \in Seq(Number), x \in Number, others \in Seq(Number) :
         /\ rest = InHand \o inbound /\ x = Head(queue) /\ others = Tail(queue)
         /\ queue = <<x>> \o others
  BY <1>1, ConcatProperties, HeadTailProperties, HeadAndTail
<1>5. delivered' = Append(delivered, x) /\ Append(delivered, x) \in Seq(Number)
  BY <1>1, <1>4, AppendProperties DEF Deliver
<1>6. others \o rest \in Seq(Number)
  BY <1>4, ConcatProperties
<1>7. Increasing(Append(delivered, x))
  <2>1. delivered \in Seq(Number) /\ queue \in Seq(Number) /\ queue = <<x>> \o others
    BY <1>1, <1>4
  <2>2. Append(delivered, x) \o (others \o rest) = delivered \o (queue \o rest)
    BY <2>1, MoveHead
  <2>3. PICK left \in Seq(Nat), right \in Seq(Nat) :
           left = Append(delivered, x) /\ right = others \o rest
    BY <1>5, <1>6 DEF Number
  <2>4. Stream = left \o right /\ Stream \in Seq(1 .. answers) /\ Increasing(Stream)
    BY <1>1, <1>4, <2>2, <2>3 DEF Stream, Inv, OrderInv
  <2>5. Increasing(left)
    BY <2>4, PartsIncrease
  <2> QED
    BY <2>3, <2>5
<1>8. /\ Len(delivered') = Len(delivered) + 1
      /\ SubSeq(delivered', 1, Len(delivered)) = delivered
      /\ \A i \in DOMAIN delivered : delivered[i] < delivered'[Len(delivered')]
  <2>1. /\ Len(delivered') = Len(delivered) + 1 /\ Len(delivered) \in Nat
        /\ DOMAIN delivered = 1 .. Len(delivered) /\ DOMAIN delivered' = 1 .. Len(delivered) + 1
        /\ \A i \in 1 .. Len(delivered) : delivered'[i] = delivered[i]
    BY <1>1, <1>5, AppendProperties, LenProperties
  <2>2. SubSeq(delivered', 1, Len(delivered)) = delivered
    BY <1>1, <1>5, <2>1
  <2>3. \A i \in DOMAIN delivered : delivered[i] < delivered'[Len(delivered')]
    BY <1>5, <1>7, <2>1 DEF Increasing
  <2> QED
    BY <2>1, <2>2, <2>3
<1> QED
  BY <1>3, <1>8, Zenon DEF Command!Hear, Phase, Given, settings, Silent

(***************************************************************************)
(* The result: a call that returns -2 has given the command, or to a       *)
(* silent caller a part of it; one that returns -3 has not given all.  One *)
(* that dies in command_shutdown has given nothing.                        *)
(***************************************************************************)
LEMMA ReturnCommand ==
  ASSUME Inv, Return
  PROVE  Command!Return \/ Command!Die
<1>1. caller = "close" /\ command \in {"sent", "part", "failed"} /\ UNCHANGED settings
  BY DEF Inv, TypeOK, ConnectionTypeOK, PlaceInv, CommandInv, Destroying, Return
<1>2. Silent' = Silent /\ (network' = "enabled") = (network = "enabled")
  BY <1>1 DEF Silent, settings
<1>3. FreeConnection => Given' = "nothing" /\ delivered' = << >>
  BY DEF FreeConnection, FreePipeline, Given
<1>4. Phase = "calling"
  BY <1>1 DEF Phase
<1>5. CASE Checked < 0 /\ result' = -3 /\ caller' = "idle" /\ FreeConnection
  <2>1. ~Silent /\ Given # "whole"
    BY <1>1, <1>5 DEF Checked, Errno, Given
  <2> QED
    BY <1>2, <1>3, <1>4, <1>5, <2>1, Zenon DEF Command!Return, Phase, Given
<1>6. CASE Checked = 0 /\ result' = -2 /\ caller' = "idle" /\ FreeConnection
  <2>1. IF Silent THEN Given # "nothing" ELSE Given = "whole"
    BY <1>1, <1>6 DEF Checked, Errno, Given
  <2> QED
    BY <1>2, <1>3, <1>4, <1>6, <2>1, Zenon DEF Command!Return, Phase, Given
<1>7. CASE Checked > 0 /\ Die /\ UNCHANGED result
  <2>1. command = "failed"
    BY <1>1, <1>7 DEF Checked, Errno
  <2> QED
    BY <1>1, <1>7, <2>1, DieCommand DEF Before
<1> QED
  BY <1>5, <1>6, <1>7 DEF Return

(***************************************************************************)
(* The caller's steps within a call: ::send gives the command, the second  *)
(* one after a reset ends the process, the others are not seen.            *)
(***************************************************************************)
LEMMA CallerCommand ==
  ASSUME Inv, CallerStep, UNCHANGED <<settings, result>>
  PROVE  [Command!Next]_(Command!vars)
<1>1. CASE Transmit
  <2>1. /\ Phase = "calling" /\ Phase' = "calling" /\ Given = "nothing"
        /\ Given' \in {"nothing", "part", "whole"} /\ delivered' = delivered
    BY <1>1 DEF Inv, PlaceInv, CommandInv, Unsent, Transmit, Phase, Given, pipelineVars
  <2>2. CASE Given' = "nothing"
    BY <2>1, <2>2, Unseen
  <2>3. CASE Given' \in {"part", "whole"}
    BY <2>1, <2>3, Zenon DEF Command!Next, Command!Give, Phase, Given, settings, Silent
  <2> QED
    BY <2>1, <2>2, <2>3
<1>2. CASE BrokenPipe
  BY <1>2, DieCommand DEF BrokenPipe, Inv, PlaceInv, CommandInv, Unsent, Before, Command!Next
<1>3. CASE Send
  BY <1>3, Unseen DEF Inv, PlaceInv, CommandInv, Unsent, Send, Phase, Given, pipelineVars
<1>4. CASE ConnectFails \/ Connect \/ PollReader \/ PollPipeline \/ StopReader
             \/ JoinReader \/ JoinPipeline
  BY <1>4, Unseen DEF ConnectFails, Connect, PollReader, PollPipeline, StopReader, JoinReader,
                      JoinPipeline, Phase, Given, pipelineVars
<1>5. CASE MakePipeline
  <2>1. Phase' = Phase /\ Given' = Given
    BY <1>5 DEF MakePipeline, Phase, Given
  <2>2. delivered' = delivered
    BY <1>5, Zenon DEF MakePipeline, StartPipeline, pipelineVars
  <2> QED
    BY <2>1, <2>2, Unseen
<1>6. CASE DestroyPipeline \/ NotifyPipeline
  BY <1>6, Unseen DEF DestroyPipeline, StopPipeline, NotifyPipeline, NotifyAll, Phase, Given
<1> QED
  BY <1>1, <1>2, <1>3, <1>4, <1>5, <1>6 DEF CallerStep

(***************************************************************************)
(* Of the reading thread, only the abort in select is seen, when the       *)
(* descriptor is -1: then nothing was sent.                                *)
(***************************************************************************)
LEMMA ReaderCommand ==
  ASSUME Inv, ReaderStep, UNCHANGED <<settings, result>>
  PROVE  [Command!Next]_(Command!vars)
<1>1. CASE SelectAborts
  BY <1>1, DieCommand DEF SelectAborts, Inv, PlaceInv, ReaderInv, CommandInv, Unsent, Before,
                          Command!Next
<1>2. CASE ~SelectAborts
  <2>1. Phase' = Phase /\ Given' = Given
    BY <1>2 DEF ReaderStep, ReaderRuns, ReaderLoop, Select, Receive, ConnectionLost, Store,
                Notify, Phase, Given
  <2>2. delivered' = delivered
    BY <1>2, Zenon DEF ReaderStep, ReaderRuns, ReaderLoop, Select, Receive, ConnectionLost,
                       Store, AddEntry, Notify, NotifyAll, pipelineVars
  <2> QED
    BY <2>1, <2>2, Unseen
<1> QED
  BY <1>1, <1>2

(***************************************************************************)
(* Of processPipeline, only the delivery is seen.                          *)
(***************************************************************************)
LEMMA PipelineCommand ==
  ASSUME Inv, PipelineStep \/ SpuriousWake, UNCHANGED <<connectionVars, settings, result>>
  PROVE  [Command!Next]_(Command!vars)
<1>1. CASE Deliver
  BY <1>1, DeliverCommand DEF Command!Next
<1>2. CASE Enter \/ Loop \/ Wait \/ Block \/ Count \/ Pop \/ SpuriousWake
  <2>1. delivered' = delivered
    BY <1>2 DEF Enter, Loop, Wait, Block, Count, Pop, SpuriousWake
  <2>2. Phase' = Phase /\ Given' = Given
    BY DEF connectionVars, Phase, Given
  <2> QED
    BY <2>1, <2>2, Unseen
<1> QED
  BY <1>1, <1>2 DEF PipelineStep

(***************************************************************************)
(* The setters: between two calls any setting may become any other.        *)
(***************************************************************************)
LEMMA SettingsCommand ==
  ASSUME UNCHANGED <<pipelineVars, connectionVars, result>>, caller = "idle"
  PROVE  Command!Configure
<1>1. Phase = "idle" /\ Phase' = Phase /\ Given' = Given /\ delivered' = delivered
  BY DEF pipelineVars, connectionVars, Phase, Given
<1>2. (network = "enabled")' \in BOOLEAN /\ Silent' \in BOOLEAN
  BY DEF Silent
<1> QED
  BY <1>1, <1>2, Zenon DEF Command!Configure, Phase, Given

(***************************************************************************)
(* With the network disabled the call is over at once, with 0.             *)
(***************************************************************************)
LEMMA StartCommand ==
  ASSUME CommandShutdown
  PROVE  Command!Skip \/ Command!Call
<1>1. Phase = "idle" /\ Given' = Given /\ delivered' = delivered /\ UNCHANGED settings
  BY DEF CommandShutdown, pipelineVars, Phase, Given
<1>2. Silent' = Silent /\ (network' = "enabled") = (network = "enabled")
  BY <1>1 DEF Silent, settings
<1>3. CASE network = "disabled" /\ result' = 0 /\ UNCHANGED caller
  <2>1. Phase' = "idle" /\ network # "enabled"
    BY <1>1, <1>3 DEF Phase
  <2> QED
    BY <1>1, <1>2, <1>3, <2>1, Zenon DEF Command!Skip, Phase, Given
<1>4. CASE network = "enabled" /\ caller' = "connect" /\ UNCHANGED result
  <2>1. Phase' = "calling"
    BY <1>4 DEF Phase
  <2> QED
    BY <1>1, <1>2, <1>4, <2>1, Zenon DEF Command!Call, Phase, Given
<1> QED
  BY <1>3, <1>4 DEF CommandShutdown

(***************************************************************************)
(* readout_shutdown keeps its promise: whatever its threads, the EFU and   *)
(* the failures do, seen from outside it is ShutdownCommand.               *)
(***************************************************************************)
THEOREM KeepsPromise == Spec => ImplementsCommand
<1>1. Init => Command!Init
  <2> SUFFICES ASSUME Init PROVE Command!Init
    OBVIOUS
  <2>1. Phase = "idle" /\ Given = "nothing" /\ delivered = << >> /\ network = "enabled"
        /\ result = 1
    BY DEF Init, NoPipeline, NoConnection, Phase, Given
  <2>2. Silent = FALSE
    BY DEF Init, Silent
  <2> QED
    BY <2>1, <2>2, Zenon DEF Command!Init, Phase, Given
<1>2. Inv /\ [Next]_vars => [Command!Next]_(Command!vars)
  <2> SUFFICES ASSUME Inv, [Next]_vars PROVE [Command!Next]_(Command!vars)
    OBVIOUS
  <2>1. CASE UNCHANGED vars
    <3>1. Phase' = Phase /\ Given' = Given /\ UNCHANGED <<delivered, settings, result>>
      BY <2>1 DEF vars, pipelineVars, connectionVars, Phase, Given
    <3> QED
      BY <3>1, Unseen
  <2>2. ASSUME NEW x, SetLevel(x) \/ Verbose(x) \/ SwitchNetwork(x)
        PROVE  Command!Configure
    BY <2>2, SettingsCommand DEF SetLevel, Verbose, SwitchNetwork
  <2>3. CASE CommandShutdown
    BY <2>3, StartCommand DEF Command!Next
  <2>4. CASE Return
    BY <2>4, ReturnCommand DEF Command!Next
  <2>5. CASE CallerStep /\ UNCHANGED <<settings, result>>
    BY <2>5, CallerCommand
  <2>6. CASE ReaderStep /\ UNCHANGED <<settings, result>>
    BY <2>6, ReaderCommand
  <2>7. CASE (PipelineStep \/ SpuriousWake) /\ UNCHANGED <<connectionVars, settings, result>>
    BY <2>7, PipelineCommand
  <2>8. CASE (Answer \/ Leave) /\ UNCHANGED <<settings, result>>
    BY <2>8, Unseen DEF Answer, Leave, pipelineVars, Phase, Given
  <2> QED
    BY <2>1, <2>2, <2>3, <2>4, <2>5, <2>6, <2>7, <2>8 DEF Next, Command!Next
<1> QED
  BY Invariant, <1>1, <1>2, PTL DEF Spec, ImplementsCommand, Command!Spec
=============================================================================
