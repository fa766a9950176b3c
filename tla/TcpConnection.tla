--------------------------- MODULE TcpConnection ---------------------------
(***************************************************************************)
(* cluon::TCPConnection as check_and_send_tcp (lib/ReadoutClass.cpp) uses  *)
(* it: constructed, used to send one command, destroyed.  Three threads    *)
(* (the caller, the reader, and the one of the pipeline), the socket, and  *)
(* the EFU at its other end, which may answer, close or reset at any time. *)
(*                                                                         *)
(* m_socket and m_pipeline are read by the reader while the caller assigns *)
(* them, without synchronisation: each is taken as one word, seen from its *)
(* assignment on.                                                          *)
(*                                                                         *)
(* The members of a connection start afresh with the next one: when it is  *)
(* closed the variables take their first values again.  The answers of one *)
(* connection are numbered as they are sent.                               *)
(***************************************************************************)
EXTENDS NotifyingPipeline

CONSTANTS
    MaxAnswers,     \* bound: the chunks of data an EFU sends per connection
    ThreadsMayFail  \* whether std::thread may throw

ASSUME ConnectionAssumption == /\ MaxAnswers \in Nat
                               /\ ThreadsMayFail \in BOOLEAN

VARIABLES
    socket,        \* "none": m_socket is -1; "open"; the peer's "fin"; its
                   \* "reset", and the same after one call has "returned" it
    answers,       \* how many chunks the EFU has sent
    inbound,       \* those not yet received
    reader,        \* where the reading thread is
    readerRunning, \* m_readFromSocketThreadRunning
    chunk,         \* what it received last
    hasPipeline,   \* m_pipeline is set
    command,       \* how much of the command has been sent
    caller         \* where the calling thread is

connectionVars == <<socket, answers, inbound, reader, readerRunning, chunk,
                    hasPipeline, command, caller>>

NoConnection ==
    /\ socket = "none" /\ answers = 0 /\ inbound = << >>
    /\ reader = "none" /\ readerRunning = FALSE /\ chunk = 0
    /\ hasPipeline = FALSE /\ command = "unsent"

(***************************************************************************)
(* The connection is no more: its destructor has run, or the process died. *)
(***************************************************************************)
FreeConnection ==
    /\ socket' = "none" /\ answers' = 0 /\ inbound' = << >>
    /\ reader' = "none" /\ readerRunning' = FALSE /\ chunk' = 0
    /\ hasPipeline' = FALSE /\ command' = "unsent"
    /\ FreePipeline

Die == caller' = "died" /\ FreeConnection

---------------------------------------------------------------------------
(***************************************************************************)
(* The constructor.  With an address that is not valid, or when the        *)
(* connection is refused, there are no threads.                            *)
(***************************************************************************)
ConnectFails ==
    /\ caller = "connect"
    /\ caller' = "send"
    /\ UNCHANGED <<socket, answers, inbound, reader, readerRunning, chunk,
                   hasPipeline, command, pipelineVars>>

Connect ==
    /\ caller = "connect"
    /\ \/ /\ socket' = "open" /\ reader' = "start"
          /\ caller' = "awaitReader"
       \/ /\ ThreadsMayFail
          /\ caller' = "makePipeline"
          /\ UNCHANGED <<socket, reader>>
    /\ UNCHANGED <<answers, inbound, readerRunning, chunk, hasPipeline,
                   command, pipelineVars>>

\* Slip: the constructor does not wait for its reader.
PollNothing ==
    /\ caller = "awaitReader"
    /\ caller' = "makePipeline"
    /\ UNCHANGED <<socket, answers, inbound, reader, readerRunning, chunk,
                   hasPipeline, command, pipelineVars>>

(***************************************************************************)
(* The loop that sleeps until the reading thread says that it runs.        *)
(***************************************************************************)
PollReader ==
    /\ caller = "awaitReader"
    /\ \/ readerRunning /\ caller' = "makePipeline"
       \/ ~readerRunning /\ UNCHANGED caller
    /\ UNCHANGED <<socket, answers, inbound, reader, readerRunning, chunk,
                   hasPipeline, command, pipelineVars>>

MakePipeline ==
    /\ caller = "makePipeline"
    /\ \/ /\ StartPipeline
          /\ caller' = "awaitPipeline"
          /\ UNCHANGED <<socket, inbound>>
       \/ /\ ThreadsMayFail
          /\ socket' = "none" /\ inbound' = << >>
          /\ caller' = "send"
          /\ UNCHANGED pipelineVars
    /\ UNCHANGED <<answers, reader, readerRunning, chunk, hasPipeline, command>>

(***************************************************************************)
(* make_shared returns once the pipeline's thread runs; the second test of *)
(* the same flag, after the assignment, cannot fail.                       *)
(***************************************************************************)
PollPipeline ==
    /\ caller = "awaitPipeline"
    /\ pipelineRunning
    /\ hasPipeline' = TRUE
    /\ caller' = "send"
    /\ UNCHANGED <<socket, answers, inbound, reader, readerRunning, chunk,
                   command, pipelineVars>>

---------------------------------------------------------------------------
(***************************************************************************)
(* send: nothing is sent when the reading thread has seen the end of the   *)
(* connection.  The end may also come between that test and ::send.        *)
(***************************************************************************)
Send ==
    /\ caller = "send"
    /\ \/ /\ socket = "none" \/ ~readerRunning
          /\ command' = "failed"
          /\ caller' = "stopReader"
       \/ /\ socket # "none" /\ readerRunning
          /\ caller' = "transmit"
          /\ UNCHANGED command
    /\ UNCHANGED <<socket, answers, inbound, reader, readerRunning, chunk,
                   hasPipeline, pipelineVars>>

(***************************************************************************)
(* ::send of the system.  A connection that was reset returns that error   *)
(* once, to whichever call comes first.                                    *)
(***************************************************************************)
Transmit ==
    /\ caller = "transmit"
    /\ caller' = "stopReader"
    /\ \/ /\ socket \in {"open", "fin"}
          /\ command' \in {"sent", "part", "failed"}
          /\ UNCHANGED socket
       \/ /\ socket \in {"reset", "returned"}
          /\ command' = "failed" /\ socket' = "returned"
    /\ UNCHANGED <<answers, inbound, reader, readerRunning, chunk, hasPipeline,
                   pipelineVars>>

(***************************************************************************)
(* A later ::send raises SIGPIPE, which nothing here handles or disables.  *)
(***************************************************************************)
BrokenPipe ==
    /\ caller = "transmit" /\ socket = "returned"
    /\ Die

---------------------------------------------------------------------------
(***************************************************************************)
(* The destructor: stop and join the reading thread, then those of the     *)
(* pipeline, then close the socket.                                        *)
(***************************************************************************)
StopReader ==
    /\ caller = "stopReader"
    /\ readerRunning' = FALSE
    /\ caller' = "joinReader"
    /\ UNCHANGED <<socket, answers, inbound, reader, chunk, hasPipeline,
                   command, pipelineVars>>

\* Slip: the reading thread is not waited for.
DetachReader ==
    /\ caller = "joinReader"
    /\ caller' = IF hasPipeline THEN "stopPipeline" ELSE "close"
    /\ UNCHANGED <<socket, answers, inbound, reader, readerRunning, chunk,
                   hasPipeline, command, pipelineVars>>

JoinReader ==
    /\ caller = "joinReader"
    /\ reader \in {"none", "ended"}
    /\ caller' = IF hasPipeline THEN "stopPipeline" ELSE "close"
    /\ UNCHANGED <<socket, answers, inbound, reader, readerRunning, chunk,
                   hasPipeline, command, pipelineVars>>

DestroyPipeline ==
    /\ caller = "stopPipeline"
    /\ StopPipeline
    /\ caller' = "notifyPipeline"
    /\ UNCHANGED <<socket, answers, inbound, reader, readerRunning, chunk,
                   hasPipeline, command>>

NotifyPipeline ==
    /\ caller = "notifyPipeline"
    /\ NotifyAll
    /\ caller' = "joinPipeline"
    /\ UNCHANGED <<socket, answers, inbound, reader, readerRunning, chunk,
                   hasPipeline, command>>

JoinPipeline ==
    /\ caller = "joinPipeline"
    /\ Joined
    /\ caller' = "close"
    /\ UNCHANGED <<socket, answers, inbound, reader, readerRunning, chunk,
                   hasPipeline, command, pipelineVars>>

CallerStep == ConnectFails \/ Connect \/ PollReader \/ MakePipeline \/ PollPipeline
                \/ Send \/ Transmit \/ BrokenPipe
                \/ StopReader \/ JoinReader
                \/ DestroyPipeline \/ NotifyPipeline \/ JoinPipeline

---------------------------------------------------------------------------
(***************************************************************************)
(* The reading thread, readFromSocket.                                     *)
(***************************************************************************)
ReaderRuns ==
    /\ reader = "start"
    /\ readerRunning' = TRUE
    /\ reader' = "while"
    /\ UNCHANGED <<socket, answers, inbound, chunk, hasPipeline, command, caller,
                   pipelineVars>>

ReaderLoop ==
    /\ reader = "while"
    /\ reader' = IF readerRunning THEN "select" ELSE "ended"
    /\ UNCHANGED <<socket, answers, inbound, readerRunning, chunk, hasPipeline,
                   command, caller, pipelineVars>>

Readable == inbound # << >> \/ socket \in {"fin", "reset", "returned"}

(***************************************************************************)
(* select returns after 20 ms at the latest.  On the descriptor -1, when   *)
(* the pipeline's thread failed, its macros are undefined: the socket      *)
(* seems readable or not, or a hardened library aborts.                    *)
(***************************************************************************)
Select ==
    /\ reader = "select"
    /\ IF socket = "none" THEN reader' \in {"recv", "while"}
                          ELSE reader' = IF Readable THEN "recv" ELSE "while"
    /\ UNCHANGED <<socket, answers, inbound, readerRunning, chunk, hasPipeline,
                   command, caller, pipelineVars>>

SelectAborts == reader = "select" /\ socket = "none" /\ Die

\* Slip: what recv returned is not tested.
ReceiveUntested ==
    /\ reader = "recv"
    /\ chunk' = IF inbound = << >> THEN 0 ELSE Head(inbound)
    /\ inbound' = SubSeq(inbound, 2, Len(inbound))
    /\ reader' = "store"
    /\ UNCHANGED <<socket, answers, readerRunning, hasPipeline, command, caller, pipelineVars>>

Receive ==
    /\ reader = "recv"
    /\ \/ /\ inbound # << >>
          /\ chunk' = Head(inbound) /\ inbound' = Tail(inbound)
          /\ reader' = "store"
          /\ UNCHANGED socket
       \/ /\ inbound = << >>
          /\ reader' = "lost"
          /\ socket' = IF socket = "reset" THEN "returned" ELSE socket
          /\ UNCHANGED <<chunk, inbound>>
    /\ UNCHANGED <<answers, readerRunning, hasPipeline, command, caller, pipelineVars>>

ConnectionLost ==
    /\ reader = "lost"
    /\ readerRunning' = FALSE
    /\ reader' = "ended"
    /\ UNCHANGED <<socket, answers, inbound, chunk, hasPipeline, command, caller,
                   pipelineVars>>

(***************************************************************************)
(* What arrives before m_pipeline is set is dropped.                       *)
(***************************************************************************)
Store ==
    /\ reader = "store"
    /\ IF hasPipeline THEN AddEntry(chunk) ELSE UNCHANGED pipelineVars
    /\ reader' = "notify"
    /\ UNCHANGED <<socket, answers, inbound, readerRunning, chunk, hasPipeline,
                   command, caller>>

Notify ==
    /\ reader = "notify"
    /\ IF hasPipeline THEN NotifyAll ELSE UNCHANGED pipelineVars
    /\ reader' = "while"
    /\ UNCHANGED <<socket, answers, inbound, readerRunning, chunk, hasPipeline,
                   command, caller>>

ReaderStep == ReaderRuns \/ ReaderLoop \/ Select \/ SelectAborts \/ Receive
                \/ ConnectionLost \/ Store \/ Notify

---------------------------------------------------------------------------
(***************************************************************************)
(* The EFU at the other end (not in this repository).                      *)
(***************************************************************************)
Answer ==
    /\ socket = "open" /\ answers < MaxAnswers
    /\ answers' = answers + 1
    /\ inbound' = Append(inbound, answers + 1)
    /\ UNCHANGED <<socket, reader, readerRunning, chunk, hasPipeline, command,
                   caller, pipelineVars>>

(***************************************************************************)
(* It closes, resets, or first the one and then the other.  After a close  *)
(* a reset counts with some systems as returned at once: the next ::send   *)
(* raises SIGPIPE.                                                         *)
(***************************************************************************)
Leave ==
    /\ \/ socket = "open" /\ socket' \in {"fin", "reset"}
       \/ socket = "fin" /\ socket' \in {"reset", "returned"}
    /\ UNCHANGED <<answers, inbound, reader, readerRunning, chunk, hasPipeline,
                   command, caller, pipelineVars>>

---------------------------------------------------------------------------
ConnectionTypeOK ==
    /\ PipelineTypeOK(1 .. MaxAnswers)
    /\ socket \in {"none", "open", "fin", "reset", "returned"}
    /\ answers \in 0 .. MaxAnswers /\ chunk \in 0 .. MaxAnswers
    /\ inbound \in Seq(1 .. MaxAnswers)
    /\ reader \in {"none", "start", "while", "select", "recv", "store",
                   "notify", "lost", "ended"}
    /\ readerRunning \in BOOLEAN /\ hasPipeline \in BOOLEAN
    /\ command \in {"unsent", "sent", "part", "failed"}

(***************************************************************************)
(* The socket is closed, and the members of the connection freed, only     *)
(* when no thread is left that uses them (cluon-complete.hpp:11142-11157): *)
(* neither has a step to take any more.                                    *)
(***************************************************************************)
NoThreadAtClose ==
    caller = "close" => /\ reader \in {"none", "ended"}
                        /\ Joined

(***************************************************************************)
(* The pipeline does not sleep through an answer (cluon-complete.hpp:      *)
(* 6511-6530, 11306-11314): add takes the mutex, so a pipeline about to    *)
(* wait either sees the entry or blocks before it is added.  It is blocked *)
(* with something to deliver only until the reader's notification.  Once   *)
(* awake it may still drop what is queued, if the destructor has cleared   *)
(* its flag by then (6525).                                                *)
(***************************************************************************)
WakeupPending == pipeline = "blocked" /\ queue # << >> => reader = "notify"

(***************************************************************************)
(* The two places where the calling thread can wait for ever.  The reading *)
(* thread may have seen the end of the connection before the constructor   *)
(* first looks (cluon-complete.hpp:11189-11192); the notification of the   *)
(* destructor may come between the pipeline's test of its flag and its     *)
(* blocking (6496-6505, 6528).                                             *)
(***************************************************************************)
StuckInConstructor ==
    caller = "awaitReader" /\ reader = "ended" /\ ~readerRunning

StuckInDestructor ==
    caller = "joinPipeline" /\ pipeline = "blocked" /\ ~pipelineRunning
=============================================================================
