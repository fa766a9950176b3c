------------------------------ MODULE Shutdown ------------------------------
(***************************************************************************)
(* readout_shutdown (lib/Readout.cpp, command_shutdown in ReadoutClass):   *)
(* the EFU is sent "EXIT" over a connection of module TcpConnection, made  *)
(* for this call.  What it depends on of the object can be set between     *)
(* calls: whether the network is enabled and how much is printed, which    *)
(* here decides the result.                                                *)
(***************************************************************************)
EXTENDS TcpConnection, Integers, Functions

CONSTANTS
    Levels,      \* the functions readout_silent, readout_print_* that are called
    Verbosities  \* arguments of readout_verbose

VARIABLES
    verbosity,
    network,   \* "enabled" or "disabled"
    result     \* what the latest call returned; 1 before the first

settings == <<verbosity, network>>
vars == <<pipelineVars, connectionVars, settings, result>>

Init == /\ NoPipeline /\ NoConnection
        /\ caller = "idle"
        /\ verbosity = 0 /\ network = "enabled" /\ result = 1

---------------------------------------------------------------------------
(***************************************************************************)
(* readout_silent, readout_print_errors, ... and readout_verbose.          *)
(***************************************************************************)
Level == [silent |-> -1, errors |-> 0, warnings |-> 1, info |-> 2, details |-> 3]

ASSUME VerbosityAssumption == Levels \subseteq DOMAIN Level /\ Verbosities \subseteq Int

SetLevel(level) == /\ caller = "idle"
                   /\ verbosity' = Level[level]
                   /\ UNCHANGED <<pipelineVars, connectionVars, network, result>>

Verbose(v) == /\ caller = "idle"
              /\ verbosity' = v
              /\ UNCHANGED <<pipelineVars, connectionVars, network, result>>

SwitchNetwork(to) == /\ caller = "idle"
                     /\ network' = to
                     /\ UNCHANGED <<pipelineVars, connectionVars, verbosity, result>>

Silent == verbosity <= -1

CommandShutdown ==
    /\ caller = "idle"
    /\ \/ /\ network = "disabled"
          /\ result' = 0
          /\ UNCHANGED caller
       \/ /\ network = "enabled"
          /\ caller' = "connect"
          /\ UNCHANGED result
    /\ UNCHANGED <<socket, answers, inbound, reader, readerRunning, chunk,
                   hasPipeline, command, pipelineVars, settings>>

---------------------------------------------------------------------------
Errno == 1  \* any error number of the system, all positive

\* Slip: a partial send counts as a success.
CheckedErrorOnly == IF command = "failed" /\ ~Silent THEN -1
                    ELSE IF command = "failed" THEN Errno ELSE 0

(***************************************************************************)
(* What check_and_send_tcp returns: a silent caller gets the error number  *)
(* of a failed send, and no error for a part that was sent.                *)
(***************************************************************************)
Checked == IF command # "sent" /\ ~Silent THEN -1
           ELSE IF command = "failed" THEN Errno ELSE 0

(***************************************************************************)
(* The socket is closed, check_and_send_tcp returns, and command_shutdown  *)
(* turns its result into its own.  A positive one leads into the loop,     *)
(* whose first call constructs a std::string from a null pointer: that     *)
(* throws, through C frames, or crashes.                                   *)
(***************************************************************************)
Return ==
    /\ caller = "close"
    /\ \/ Checked < 0 /\ result' = -3 /\ caller' = "idle" /\ FreeConnection
       \/ Checked = 0 /\ result' = -2 /\ caller' = "idle" /\ FreeConnection
       \/ Checked > 0 /\ Die /\ UNCHANGED result
    /\ UNCHANGED settings

---------------------------------------------------------------------------
Alive == caller # "died"

Next ==
    \/ \E level \in Levels : SetLevel(level)
    \/ \E v \in Verbosities : Verbose(v)
    \/ \E to \in {"enabled", "disabled"} : SwitchNetwork(to)
    \/ CommandShutdown
    \/ Return
    \/ Alive /\ CallerStep /\ UNCHANGED <<settings, result>>
    \/ Alive /\ ReaderStep /\ UNCHANGED <<settings, result>>
    \/ Alive /\ PipelineStep /\ UNCHANGED <<connectionVars, settings, result>>
    \/ Alive /\ SpuriousWake /\ UNCHANGED <<connectionVars, settings, result>>
    \/ Alive /\ Answer /\ UNCHANGED <<settings, result>>
    \/ Alive /\ Leave /\ UNCHANGED <<settings, result>>
    \/ ~Alive /\ UNCHANGED vars

Spec == Init /\ [][Next]_vars

(***************************************************************************)
(* Every thread that can go on does, connect returns, and the mutex is not *)
(* kept from the reader for ever.  Nothing is assumed of the EFU, nor of   *)
(* waking without notification.                                            *)
(***************************************************************************)
Fairness ==
    /\ WF_vars(Alive /\ CallerStep /\ UNCHANGED <<settings, result>>)
    /\ WF_vars(Return)
    /\ WF_vars(Alive /\ ReaderStep /\ UNCHANGED <<settings, result>>)
    /\ SF_vars(Alive /\ Store /\ UNCHANGED <<settings, result>>)
    /\ WF_vars(Alive /\ PipelineStep /\ UNCHANGED <<connectionVars, settings, result>>)

FairSpec == Spec /\ Fairness

---------------------------------------------------------------------------
(***************************************************************************)
(* Properties.                                                             *)
(***************************************************************************)
TypeOK ==
    /\ ConnectionTypeOK
    /\ caller \in {"idle", "connect", "awaitReader", "makePipeline",
                   "awaitPipeline", "send", "transmit", "stopReader",
                   "joinReader", "stopPipeline", "notifyPipeline",
                   "joinPipeline", "close", "died"}
    /\ verbosity \in Verbosities \cup Range(Level)
    /\ network \in {"enabled", "disabled"}
    /\ result \in {-3, -2, 0, 1}

(***************************************************************************)
(* readout_shutdown keeps what ShutdownCommand promises, however the steps *)
(* of its three threads, the EFU and failures interleave.                  *)
(***************************************************************************)
Command == INSTANCE ShutdownCommand WITH
    phase <- IF caller \in {"idle", "died"} THEN caller ELSE "calling",
    enabled <- network = "enabled",
    silent <- Silent,
    given <- CASE command = "sent" -> "whole"
               [] command = "part" -> "part"
               [] OTHER -> "nothing",
    heard <- delivered

ImplementsCommand == Command!Spec

(***************************************************************************)
(* A call of readout_shutdown returns, or ends the process, whatever the   *)
(* EFU does, but for the two places where cluon waits for ever.            *)
(***************************************************************************)
InCall == caller \notin {"idle", "died"}

ReturnsOrStuck == \/ []<>~InCall
                  \/ <>[](StuckInConstructor \/ StuckInDestructor)

(***************************************************************************)
(* cluon-complete.hpp:6527 "Wait until the thread should stop or data is   *)
(* available": it does stop, and a call of readout_shutdown returns.       *)
(***************************************************************************)
ShutdownReturns == InCall ~> ~InCall
=============================================================================
