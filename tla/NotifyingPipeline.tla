------------------------- MODULE NotifyingPipeline -------------------------
(***************************************************************************)
(* cluon::NotifyingPipeline: a queue, a thread that hands its entries to a *)
(* delegate, and a condition variable on which the thread waits.  This     *)
(* module has the steps of the thread and the operations of its owner; the *)
(* actions say nothing of other variables.                                 *)
(*                                                                         *)
(* A step is what happens between two accesses to something shared.  The   *)
(* mutex is held from one step to the next only while the thread is about  *)
(* to wait; every other critical section is inside one step.               *)
(***************************************************************************)
EXTENDS Naturals, Sequences

VARIABLES
    queue,           \* m_pipeline
    pipelineRunning, \* m_pipelineThreadRunning
    pipeline,        \* where the thread is; "none" before and after its life
    entries,         \* how many entries it has still to deliver in this round
    delivered        \* what the delegate was given

pipelineVars == <<queue, pipelineRunning, pipeline, entries, delivered>>

NoPipeline == /\ queue = << >> /\ pipelineRunning = FALSE /\ pipeline = "none"
              /\ entries = 0 /\ delivered = << >>

\* A thread that is about to wait holds the mutex.
MutexFree == pipeline # "block"

---------------------------------------------------------------------------
(***************************************************************************)
(* The thread, processPipeline.                                            *)
(***************************************************************************)
Enter == /\ pipeline = "start"
         /\ pipelineRunning' = TRUE
         /\ pipeline' = "while"
         /\ UNCHANGED <<queue, entries, delivered>>

Loop == /\ pipeline = "while"
        /\ pipeline' = IF pipelineRunning THEN "wait" ELSE "ended"
        /\ UNCHANGED <<queue, pipelineRunning, entries, delivered>>

(***************************************************************************)
(* The predicate of the wait, evaluated with the mutex locked.  If it is   *)
(* false the thread blocks, which releases the mutex; a notification in    *)
(* between finds no thread to wake.                                        *)
(***************************************************************************)
Wait == /\ pipeline = "wait"
        /\ pipeline' = IF ~pipelineRunning \/ queue # << >> THEN "count" ELSE "block"
        /\ UNCHANGED <<queue, pipelineRunning, entries, delivered>>

Block == /\ pipeline = "block"
         /\ pipeline' = "blocked"
         /\ UNCHANGED <<queue, pipelineRunning, entries, delivered>>

Count == /\ pipeline = "count"
         /\ entries' = Len(queue)
         /\ pipeline' = IF queue = << >> THEN "while" ELSE "deliver"
         /\ UNCHANGED <<queue, pipelineRunning, delivered>>

Deliver == /\ pipeline = "deliver"
           /\ delivered' = Append(delivered, Head(queue))
           /\ pipeline' = "pop"
           /\ UNCHANGED <<queue, pipelineRunning, entries>>

\* Slip: one turn of the loop too many.
PopOnceMore ==
    /\ pipeline = "pop"
    /\ queue' = Tail(queue)
    /\ entries' = IF entries = 0 THEN 0 ELSE entries - 1
    /\ pipeline' = IF entries = 0 THEN "while" ELSE "deliver"
    /\ UNCHANGED <<pipelineRunning, delivered>>

Pop == /\ pipeline = "pop"
       /\ queue' = Tail(queue)
       /\ entries' = entries - 1
       /\ pipeline' = IF entries = 1 THEN "while" ELSE "deliver"
       /\ UNCHANGED <<pipelineRunning, delivered>>

PipelineStep == Enter \/ Loop \/ Wait \/ Block \/ Count \/ Deliver \/ Pop

(***************************************************************************)
(* A condition variable may wake a thread that nobody notified.            *)
(***************************************************************************)
SpuriousWake == /\ pipeline = "blocked"
                /\ pipeline' = "wait"
                /\ UNCHANGED <<queue, pipelineRunning, entries, delivered>>

---------------------------------------------------------------------------
(***************************************************************************)
(* The owner's operations: the constructor starts the thread and then      *)
(* waits for it to run; the destructor stops it, notifies without the      *)
(* mutex, and joins the thread.                                            *)
(***************************************************************************)
StartPipeline == /\ pipeline = "none"
                 /\ pipeline' = "start"
                 /\ UNCHANGED <<queue, pipelineRunning, entries, delivered>>

\* Slip: the entry is added while the thread is about to wait.
AddUnlocked(entry) ==
    /\ queue' = Append(queue, entry)
    /\ UNCHANGED <<pipelineRunning, pipeline, entries, delivered>>

AddEntry(entry) ==
    /\ MutexFree
    /\ queue' = Append(queue, entry)
    /\ UNCHANGED <<pipelineRunning, pipeline, entries, delivered>>

NotifyAll == /\ pipeline' = IF pipeline = "blocked" THEN "wait" ELSE pipeline
             /\ UNCHANGED <<queue, pipelineRunning, entries, delivered>>

StopPipeline == /\ pipelineRunning' = FALSE
                /\ UNCHANGED <<queue, pipeline, entries, delivered>>

\* Freed: the next pipeline starts afresh.
FreePipeline == /\ queue' = << >> /\ pipelineRunning' = FALSE /\ pipeline' = "none"
                /\ entries' = 0 /\ delivered' = << >>

Joined == pipeline \in {"none", "ended"}

---------------------------------------------------------------------------
PipelineTypeOK(Entry) ==
    /\ queue \in Seq(Entry) /\ delivered \in Seq(Entry)
    /\ pipelineRunning \in BOOLEAN
    /\ pipeline \in {"none", "start", "while", "wait", "block", "blocked",
                     "count", "deliver", "pop", "ended"}
    /\ entries \in Nat

(***************************************************************************)
(* front() and pop_front() are called without a test (cluon-complete.hpp:  *)
(* 6538-6556): the entries counted under one lock must still be there      *)
(* under the later ones.                                                   *)
(***************************************************************************)
EntriesPresent ==
    pipeline \in {"deliver", "pop"} => entries \in 1 .. Len(queue)
=============================================================================
