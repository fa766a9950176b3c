------------------------------ MODULE MCReplay ------------------------------
(***************************************************************************)
(* Files and arguments for the replay: no file, files whose writing ended  *)
(* early, an empty one, short ones, and two of a later version with types  *)
(* that this one does not know.                                            *)
(***************************************************************************)
EXTENDS ReplayWire

CONSTANTS MaxEvents, MaxArgument

FileOf(n) == [NewFile("CSPEC", "CAEN") EXCEPT !.rows = [k \in 1 .. n |-> k]]

LaterFiles == {[FileOf(1) EXCEPT !.detector = detectorType_name("new")],
               [FileOf(1) EXCEPT !.readout = readoutType_name("new")]}

MCFiles == {WrittenFile("CSPEC", "CAEN", k) : k \in 0 .. 8}
              \cup {FileOf(n) : n \in 0 .. MaxEvents} \cup LaterFiles
MCArguments == -MaxArgument .. MaxArgument
=============================================================================
