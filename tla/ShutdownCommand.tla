-------------------------- MODULE ShutdownCommand --------------------------
(***************************************************************************)
(* What a caller of readout_shutdown (lib/Readout.h:80) may rely on, with  *)
(* neither sockets nor threads: the EFU is given the command at most once  *)
(* per call, its answers are heard in order while the call lasts, and the  *)
(* result says how much of the command it was given.                       *)
(*                                                                         *)
(* The code never returns 0 for a command that was given: -2 says that it  *)
(* was (to a caller that is silent, that part of it was), -3 that it was   *)
(* not given completely.                                                   *)
(***************************************************************************)
EXTENDS Integers, Sequences

VARIABLES
    phase,    \* "idle", "calling", "died"
    enabled,  \* the network is
    silent,   \* nothing is to be printed, also no error
    given,    \* what the EFU got in this call: "nothing", "part", "whole"
    heard,    \* its answers in this call, by their numbers
    result    \* of the latest call that returned

vars == <<phase, enabled, silent, given, heard, result>>

Init == /\ phase = "idle" /\ enabled = TRUE /\ silent = FALSE
        /\ given = "nothing" /\ heard = << >> /\ result = 1

Configure == /\ phase = "idle"
             /\ enabled' \in BOOLEAN /\ silent' \in BOOLEAN
             /\ UNCHANGED <<phase, given, heard, result>>

(***************************************************************************)
(* With the network disabled, 0 is returned at once.                       *)
(***************************************************************************)
Skip == /\ phase = "idle" /\ ~enabled
        /\ result' = 0
        /\ UNCHANGED <<phase, enabled, silent, given, heard>>

Call == /\ phase = "idle" /\ enabled
        /\ phase' = "calling"
        /\ UNCHANGED <<enabled, silent, given, heard, result>>

Give == /\ phase = "calling" /\ given = "nothing"
        /\ given' \in {"part", "whole"}
        /\ UNCHANGED <<phase, enabled, silent, heard, result>>

Hear == /\ phase = "calling"
        /\ Len(heard') = Len(heard) + 1
        /\ SubSeq(heard', 1, Len(heard)) = heard
        /\ \A i \in DOMAIN heard : heard[i] < heard'[Len(heard')]
        /\ UNCHANGED <<phase, enabled, silent, given, result>>

Return ==
    /\ phase = "calling"
    /\ \/ result' = -2 /\ (IF silent THEN given # "nothing" ELSE given = "whole")
       \/ result' = -3 /\ ~silent /\ given # "whole"
    /\ phase' = "idle" /\ given' = "nothing" /\ heard' = << >>
    /\ UNCHANGED <<enabled, silent>>

(***************************************************************************)
(* A call may end the process, but only one that has given nothing.        *)
(***************************************************************************)
Die == /\ phase = "calling" /\ given = "nothing"
       /\ phase' = "died" /\ heard' = << >>
       /\ UNCHANGED <<enabled, silent, given, result>>

Next == Configure \/ Skip \/ Call \/ Give \/ Hear \/ Return \/ Die

Spec == Init /\ [][Next]_vars
=============================================================================
