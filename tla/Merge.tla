------------------------------- MODULE Merge -------------------------------
(***************************************************************************)
(* A McStas simulation in N MPI processes (share/Readout/ReadoutCAEN.comp, *)
(* and ReadoutTTLMonitor.comp, which does the same): each saves its        *)
(* readouts to a file of its own; behind a barrier the first process       *)
(* merges the files (lib/Readout_merge.cpp) and removes them.              *)
(*                                                                         *)
(* What the processes send is module Readout; here a process is what it    *)
(* does to files.  Row k of process n is <<n, k>>; a row that was given to *)
(* HDF5 counts as in the file.  Processes share the file system and the    *)
(* barrier; any of them may be killed at any moment.                       *)
(***************************************************************************)
EXTENDS EventFile, Functions

CONSTANTS
    N,              \* mpi_node_count
    Detector,       \* ess_type
    EventModes,     \* values of the parameter event_mode
    SilentFailures, \* which files the merge may fail to open: "input", "output"
    MaxRows         \* bound on the rows of one process

ASSUME MergeAssumption == /\ N \in Nat /\ N > 1
                          /\ Detector \in DetectorTypes /\ Supported(Detector)
                          /\ SilentFailures \subseteq {"input", "output"}
                          /\ MaxRows \in Nat

Nodes == 0 .. N - 1
Master == 0

VARIABLES
    eventMode,  \* event_mode
    keep,       \* keep_mpi_unmerged
    pc,         \* what each process does
    writer,     \* of each process: "none"; "open"; "mute"
    file,       \* its file
    saved,      \* history: the rows saved to it
    out,        \* the merged file
    outOpen,    \* whether the merge's writer has it open
    kind,       \* detector and readout, the types of the first input
    at,         \* i, the input in hand
    left        \* the rows of it that are not copied yet

params == <<eventMode, keep>>
merge == <<out, outOpen, kind, at, left>>
vars == <<params, pc, writer, file, saved, merge>>

Dead == {"exited", "threw"}
Merging == {"verify", "create", "open", "copy"}

\* The row that is left when saving fails between resize and write.
Blank(n) == <<n, 0>>

Leftover == NewFile(Detector, ReadoutType(Detector))

Init ==
    /\ eventMode \in EventModes /\ keep \in BOOLEAN
    /\ pc = [n \in Nodes |-> "initialize"]
    /\ writer = [n \in Nodes |-> "none"]
    /\ file = [n \in Nodes |-> NoFile]
    /\ saved = [n \in Nodes |-> 0]
    /\ out \in {NoFile, Leftover} /\ outOpen = FALSE
    /\ kind = <<"Reserved", "CAEN">> /\ at = 0 /\ left = << >>

Go(n, to) == pc' = [pc EXCEPT ![n] = to]

---------------------------------------------------------------------------
(***************************************************************************)
(* INITIALIZE: readout_dump_to, then the test of event_mode, which exits   *)
(* for "pp" and lets every other text pass.                                *)
(***************************************************************************)
ModeRefused == eventMode # "p" /\ eventMode = "pp"
AfterInitialize == IF ModeRefused THEN "exited" ELSE "trace"

Initialize(n) ==
    /\ pc[n] = "initialize"
    /\ \/ /\ file' = [file EXCEPT ![n] = NewFile(Detector, ReadoutType(Detector))]
          /\ writer' = [writer EXCEPT ![n] = "open"]
          /\ Go(n, AfterInitialize)
       \/ /\ writer' = [writer EXCEPT ![n] = "mute"]
          /\ Go(n, AfterInitialize)
          /\ UNCHANGED file
       \/ /\ \E k \in 1 .. 8 :
                file' = [file EXCEPT ![n] =
                            WrittenFile(Detector, ReadoutType(Detector), k)]
          /\ Go(n, "threw")
          /\ UNCHANGED writer
    /\ UNCHANGED <<params, saved, merge>>

(***************************************************************************)
(* TRACE: readout_add saves one row for a neutron.                         *)
(***************************************************************************)
Trace(n) ==
    /\ pc[n] = "trace" /\ writer[n] = "open" /\ saved[n] < MaxRows
    /\ file' = [file EXCEPT ![n] = AppendRow(@, <<n, saved[n] + 1>>)]
    /\ saved' = [saved EXCEPT ![n] = @ + 1]
    /\ UNCHANGED <<params, pc, writer, merge>>

\* Slip: the exception is swallowed.
TraceSwallows(n) ==
    /\ pc[n] = "trace" /\ writer[n] = "open" /\ Len(file[n].rows) < MaxRows
    /\ file' = [file EXCEPT ![n] = AppendRow(@, Blank(n))]
    /\ UNCHANGED <<params, pc, writer, saved, merge>>

(***************************************************************************)
(* Saving throws after the row was allocated: the process ends.            *)
(***************************************************************************)
TraceThrows(n) ==
    /\ pc[n] = "trace" /\ writer[n] = "open"
    /\ file' = [file EXCEPT ![n] = AppendRow(@, Blank(n))]
    /\ Go(n, "threw")
    /\ UNCHANGED <<params, writer, saved, merge>>

(***************************************************************************)
(* FINALLY up to the barrier: readout_destroy closes the file.             *)
(***************************************************************************)
Finally(n) ==
    /\ pc[n] = "trace"
    /\ writer' = [writer EXCEPT ![n] = "none"]
    /\ Go(n, "barrier")
    /\ UNCHANGED <<params, file, saved, merge>>

Kill(n) ==
    /\ pc[n] \notin Dead \cup {"finished"}
    /\ Go(n, "threw")
    /\ UNCHANGED <<params, writer, file, saved, merge>>

---------------------------------------------------------------------------
\* Slip: nobody waits.
BarrierAbsent == TRUE

\* Slip: only those who wait at the same moment are let through.
BarrierAtOnce == \A n \in Nodes : pc[n] = "barrier"

BarrierOpen == \A n \in Nodes : pc[n] \in {"barrier", "remove", "finished"} \cup Merging

PassBarrier(n) ==
    /\ pc[n] = "barrier" /\ BarrierOpen
    /\ Go(n, IF n = Master THEN "verify" ELSE "finished")
    /\ UNCHANGED <<params, writer, file, saved, merge>>

---------------------------------------------------------------------------
(***************************************************************************)
(* readout_merge_files.  A Reader that cannot open its file sees none.     *)
(***************************************************************************)
Seen(f) == IF "input" \in SilentFailures THEN {f, NoFile} ELSE {f}
KindOf(f) == <<DetectorOf(f), ReadoutOf(f)>>
Last(i) == i = N - 1

(***************************************************************************)
(* First pass: all inputs must be event files of the same types.           *)
(***************************************************************************)
Verify ==
    /\ pc[Master] = "verify"
    /\ \E seen \in Seen(file[at]) :
          \/ /\ ~ReaderThrows(seen) /\ (at = 0 \/ KindOf(seen) = kind)
             /\ kind' = KindOf(seen)
             /\ at' = IF Last(at) THEN 0 ELSE at + 1
             /\ IF Last(at) THEN Go(Master, "create") ELSE UNCHANGED pc
          \/ /\ ReaderThrows(seen) \/ (at > 0 /\ KindOf(seen) # kind)
             /\ Go(Master, "threw")
             /\ UNCHANGED <<kind, at>>
    /\ UNCHANGED <<params, writer, file, saved, out, outOpen, left>>

(***************************************************************************)
(* The merged file.  Its constructor throws when the file exists already;  *)
(* when the file cannot be opened the merge goes on without.               *)
(***************************************************************************)
Create ==
    /\ pc[Master] = "create"
    /\ \/ /\ ~Exists(out)
          /\ out' = NewFile(kind[1], kind[2]) /\ outOpen' = TRUE
          /\ Go(Master, "open")
       \/ /\ "output" \in SilentFailures
          /\ Go(Master, "open")
          /\ UNCHANGED <<out, outOpen>>
       \/ /\ ~Exists(out)
          /\ \E k \in 1 .. 8 : out' = WrittenFile(kind[1], kind[2], k)
          /\ Go(Master, "threw")
          /\ UNCHANGED outOpen
       \/ /\ Exists(out)
          /\ Go(Master, "threw")
          /\ UNCHANGED <<out, outOpen>>
    /\ UNCHANGED <<params, writer, file, saved, kind, at, left>>

(***************************************************************************)
(* Second pass: each input is opened again and copied row by row.          *)
(***************************************************************************)
OpenInput ==
    /\ pc[Master] = "open"
    /\ \E seen \in Seen(file[at]) :
          \/ ~ReaderThrows(seen) /\ left' = RowsOf(seen) /\ Go(Master, "copy")
          \/ ReaderThrows(seen) /\ Go(Master, "threw") /\ UNCHANGED left
    /\ UNCHANGED <<params, writer, file, saved, out, outOpen, kind, at>>

\* Slip: the rows are taken from the end.
CopyRowBackwards ==
    /\ pc[Master] = "copy" /\ left # << >>
    /\ out' = IF outOpen THEN AppendRow(out, left[Len(left)]) ELSE out
    /\ left' = SubSeq(left, 1, Len(left) - 1)
    /\ UNCHANGED <<params, pc, writer, file, saved, outOpen, kind, at>>

CopyRow ==
    /\ pc[Master] = "copy" /\ left # << >>
    /\ out' = IF outOpen THEN AppendRow(out, Head(left)) ELSE out
    /\ left' = Tail(left)
    /\ UNCHANGED <<params, pc, writer, file, saved, outOpen, kind, at>>

\* Slip: the last input is forgotten.
AllCopiedButLast(i) == i >= N - 2

AllCopied(i) == Last(i)

(***************************************************************************)
(* After the last input the merged file is closed and control returns to   *)
(* the component.                                                          *)
(***************************************************************************)
NextInput ==
    /\ pc[Master] = "copy" /\ left = << >>
    /\ IF AllCopied(at)
       THEN /\ at' = 0 /\ outOpen' = FALSE
            /\ Go(Master, IF keep THEN "finished" ELSE "remove")
       ELSE /\ at' = at + 1 /\ UNCHANGED outOpen
            /\ Go(Master, "open")
    /\ UNCHANGED <<params, writer, file, saved, out, kind, left>>

(***************************************************************************)
(* Copying a row throws after it was allocated.                            *)
(***************************************************************************)
CopyThrows ==
    /\ pc[Master] = "copy" /\ left # << >> /\ outOpen
    /\ out' = AppendRow(out, Blank(at))
    /\ Go(Master, "threw")
    /\ UNCHANGED <<params, writer, file, saved, outOpen, kind, at, left>>

(***************************************************************************)
(* The component removes the inputs one by one; a failure is only counted. *)
(***************************************************************************)
RemoveInput ==
    /\ pc[Master] = "remove"
    /\ \/ file' = [file EXCEPT ![at] = NoFile]
       \/ UNCHANGED file
    /\ IF Last(at) THEN Go(Master, "finished") /\ UNCHANGED at
                   ELSE at' = at + 1 /\ UNCHANGED pc
    /\ UNCHANGED <<params, writer, saved, out, outOpen, kind, left>>

---------------------------------------------------------------------------
(***************************************************************************)
(* The job is over, or waits at the barrier for a process that died.       *)
(***************************************************************************)
Done == /\ \A n \in Nodes : pc[n] \in Dead \cup {"barrier", "finished"}
        /\ (\E n \in Nodes : pc[n] \in Dead) \/ (\A n \in Nodes : pc[n] = "finished")
        /\ UNCHANGED vars

MasterStep == \/ Verify \/ Create \/ OpenInput \/ CopyRow \/ CopyThrows
              \/ NextInput \/ RemoveInput

Next == \/ \E n \in Nodes : \/ Initialize(n) \/ Trace(n) \/ TraceThrows(n)
                            \/ Finally(n) \/ Kill(n) \/ PassBarrier(n)
        \/ MasterStep
        \/ Done

Spec == Init /\ [][Next]_vars

(***************************************************************************)
(* A process that may run does: the barrier lets everyone through, and the *)
(* merge is one call that runs to its end.                                 *)
(***************************************************************************)
Fairness == /\ \A n \in Nodes : WF_vars(PassBarrier(n))
            /\ WF_vars(MasterStep)

FairSpec == Spec /\ Fairness

---------------------------------------------------------------------------
(***************************************************************************)
(* Properties.                                                             *)
(***************************************************************************)
Rows == Nodes \X Nat

TypeOK ==
    /\ eventMode \in EventModes /\ keep \in BOOLEAN
    /\ pc \in [Nodes -> {"initialize", "trace", "barrier", "remove", "finished"}
                           \cup Dead \cup Merging]
    /\ writer \in [Nodes -> {"none", "open", "mute"}]
    /\ file \in [Nodes -> EventFiles(Rows)]
    /\ saved \in [Nodes -> Nat]
    /\ out \in EventFiles(Rows) /\ outOpen \in BOOLEAN
    /\ kind \in DetectorTypes \X Packable
    /\ at \in Nodes /\ left \in Seq(Rows)

(***************************************************************************)
(* Removing the inputs (ReadoutCAEN.comp:213-220) never removes a readout: *)
(* at every moment, whatever has failed or been killed, each row that was  *)
(* saved is in the file it was saved to or in the merged one.              *)
(***************************************************************************)
SavedBy(n) == {<<n, k>> : k \in 1 .. saved[n]}

NoRowLost ==
    \A n \in Nodes : SavedBy(n) \subseteq Range(file[n].rows) \cup Range(out.rows)

(***************************************************************************)
(* The merged file (Readout_merge.cpp:36-48) has the rows of each process  *)
(* in their order, those of a process before those of the next, and none   *)
(* twice; only a merge that threw leaves a blank row, at the end.          *)
(***************************************************************************)
Before(r, s) == r[1] < s[1] \/ (r[1] = s[1] /\ r[2] < s[2])

MergedInOrder ==
    \A i, j \in DOMAIN out.rows : i < j =>
        \/ Before(out.rows[i], out.rows[j])
        \/ out.rows[j][2] = 0 /\ j = Len(out.rows) /\ pc[Master] \in Dead

(***************************************************************************)
(* A merge that ends without an exception has merged everything: the file  *)
(* holds the rows of all processes and nothing else, and their types, which*)
(* have been written as text and read back twice (enums.cpp:40-90).        *)
(***************************************************************************)
MergedIsAll ==
    pc[Master] \in {"remove", "finished"} =>
        /\ Range(out.rows) = UNION {SavedBy(n) : n \in Nodes}
        /\ out.rows # << >> => KindOf(out) = <<Detector, ReadoutType(Detector)>>

(***************************************************************************)
(* The merge reads files that their processes have closed: the barrier     *)
(* (ReadoutCAEN.comp:196) stands between readout_destroy and the merge.    *)
(***************************************************************************)
ReadsClosedFiles ==
    pc[Master] \in Merging \cup {"remove"} => \A n \in Nodes : writer[n] # "open"

(***************************************************************************)
(* When all processes have come to the barrier the merge ends, with all    *)
(* files merged or with an exception (ReadoutCAEN.comp:194-222).           *)
(***************************************************************************)
MergeEnds ==
    (\A n \in Nodes : pc[n] = "barrier")
        ~> (pc[Master] = "finished" \/ \E n \in Nodes : pc[n] \in Dead)

(***************************************************************************)
(* README.md:37: event_mode is "p", or "pp" for p squared.  Neither makes  *)
(* a component leave in INITIALIZE (ReadoutCAEN.comp:139-140).             *)
(***************************************************************************)
DocumentedModesRun ==
    eventMode \in {"p", "pp"} => \A n \in Nodes : pc[n] # "exited"
=============================================================================
