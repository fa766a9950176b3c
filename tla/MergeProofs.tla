---------------------------- MODULE MergeProofs ----------------------------
(***************************************************************************)
(* The merge of module Merge, for every number of processes: types, the    *)
(* barrier, that no saved readout is lost when the inputs are removed, and *)
(* that the merged file has all of them, in order, and nothing else.       *)
(***************************************************************************)
EXTENDS Merge, TLAPS

AFile == EventFiles(Rows)

---------------------------------------------------------------------------
(***************************************************************************)
(* Files and sequences.                                                    *)
(***************************************************************************)
LEMMA WrittenType ==
    ASSUME NEW d \in DetectorTypes, NEW r \in Packable, NEW k \in 0 .. 9
    PROVE  /\ WrittenFile(d, r, k) \in AFile
           /\ WrittenFile(d, r, k).rows = << >>
           /\ WrittenFile(d, r, k).parts = PartsUpTo(k)
<1>1. PartsUpTo(k) \subseteq AllParts
  BY DEF AllParts, PartsUpTo
<1> QED
  BY <1>1 DEF WrittenFile, AFile, EventFiles, DetectorNames, PackableNames

(***************************************************************************)
(* A type that was written as text is read back.                           *)
(***************************************************************************)
LEMMA NamesInverse ==
    /\ \A d \in DetectorTypes : detectorType_from_name(detectorType_name(d)) = d
    /\ \A r \in Packable : readoutType_from_name(readoutType_name(r)) = r
  BY DEF detectorType_from_name, detectorType_name,
         readoutType_from_name, readoutType_name

LEMMA NamesType ==
    /\ \A name \in DetectorNames : detectorType_from_name(name) \in DetectorTypes
    /\ \A name \in PackableNames : readoutType_from_name(name) \in Packable
  BY NamesInverse DEF DetectorNames, PackableNames

LEMMA OwnTypes ==
    /\ Detector \in DetectorTypes /\ ReadoutType(Detector) \in Packable
    /\ "Reserved" \in DetectorTypes /\ "CAEN" \in Packable
  BY MergeAssumption DEF Supported, DetectorTypes, Packable

LEMMA AppendRowFacts ==
    ASSUME NEW f \in AFile, NEW row \in Rows
    PROVE  /\ AppendRow(f, row) \in AFile
           /\ AppendRow(f, row).parts = f.parts
           /\ AppendRow(f, row).rows = Append(f.rows, row)
  BY DEF AppendRow, AFile, EventFiles

LEMMA RowsAppended ==
    ASSUME NEW s \in Seq(Rows), NEW e \in Rows
    PROVE  Range(Append(s, e)) = Range(s) \cup {e}
<1>1. ASSUME NEW x \in Range(Append(s, e)) PROVE x \in Range(s) \cup {e}
  <2>1. PICK k \in 1 .. Len(s) + 1 : x = Append(s, e)[k]
    BY <1>1 DEF Range
  <2> QED
    BY <2>1 DEF Range
<1>2. ASSUME NEW x \in Range(s) PROVE x \in Range(Append(s, e))
  <2>1. PICK k \in 1 .. Len(s) : x = s[k]
    BY <1>2 DEF Range
  <2>2. Append(s, e)[k] = x /\ k \in DOMAIN Append(s, e)
    BY <2>1
  <2> QED
    BY <2>2 DEF Range
<1>3. e \in Range(Append(s, e))
  <2>1. Append(s, e)[Len(s) + 1] = e /\ Len(s) + 1 \in DOMAIN Append(s, e)
    OBVIOUS
  <2> QED
    BY <2>1 DEF Range
<1> QED
  BY <1>1, <1>2, <1>3

LEMMA RowsTaken ==
    ASSUME NEW s \in Seq(Rows), s # << >>
    PROVE  /\ Head(s) \in Rows /\ Tail(s) \in Seq(Rows)
           /\ Range(s) = {Head(s)} \cup Range(Tail(s))
<1>1. ASSUME NEW x \in Range(s), x # Head(s) PROVE x \in Range(Tail(s))
  <2>1. PICK k \in 1 .. Len(s) : x = s[k]
    BY <1>1 DEF Range
  <2>2. k # 1
    BY <1>1, <2>1
  <2>3. Tail(s)[k - 1] = x /\ k - 1 \in DOMAIN Tail(s)
    BY <2>1, <2>2
  <2> QED
    BY <2>3 DEF Range
<1>2. Head(s) \in Rows /\ Tail(s) \in Seq(Rows)
  OBVIOUS
<1>3. Head(s) \in Range(s)
  BY DEF Range
<1>4. ASSUME NEW x \in Range(Tail(s)) PROVE x \in Range(s)
  <2>1. PICK k \in 1 .. Len(s) - 1 : x = Tail(s)[k]
    BY <1>4 DEF Range
  <2>2. s[k + 1] = x /\ k + 1 \in DOMAIN s
    BY <2>1
  <2> QED
    BY <2>2 DEF Range
<1> QED
  BY <1>1, <1>2, <1>3, <1>4

LEMMA SeenFacts ==
    ASSUME NEW f \in AFile, NEW seen \in Seen(f)
    PROVE  /\ seen \in AFile /\ RowsOf(seen) \in Seq(Rows)
           /\ KindOf(seen) \in DetectorTypes \X Packable
<1>1. NoFile \in AFile
  BY WrittenType, OwnTypes DEF NoFile
<1>2. seen \in AFile
  BY <1>1 DEF Seen
<1> QED
  BY <1>2, OwnTypes, NamesType
     DEF AFile, EventFiles, RowsOf, KindOf, DetectorOf, ReadoutOf

---------------------------------------------------------------------------
(***************************************************************************)
(* Types.                                                                  *)
(***************************************************************************)
LEMMA NodeFacts == /\ N \in Nat /\ N > 1 /\ Master \in Nodes /\ 0 \in Nodes
                   /\ \A i \in Nodes : i \in Nat /\ (i # N - 1 => i + 1 \in Nodes)
  BY MergeAssumption DEF Nodes, Master

States == {"initialize", "trace", "barrier", "remove", "finished"}
              \cup Dead \cup Merging

LEMMA GoType ==
    ASSUME NEW n \in Nodes, NEW to \in States, pc \in [Nodes -> States], Go(n, to)
    PROVE  pc' \in [Nodes -> States]
  BY DEF Go

LEMMA MergeTypeStep == TypeOK /\ [Next]_vars => TypeOK'
<1> SUFFICES ASSUME TypeOK, [Next]_vars PROVE TypeOK'
  OBVIOUS
<1> USE DEF AFile
<1>t. /\ pc \in [Nodes -> States] /\ file \in [Nodes -> AFile] /\ out \in AFile
      /\ writer \in [Nodes -> {"none", "open", "mute"}]
      /\ saved \in [Nodes -> Nat] /\ kind \in DetectorTypes \X Packable
      /\ left \in Seq(Rows) /\ at \in Nodes
  BY DEF TypeOK, States
<1>s. TypeOK' <=> /\ eventMode' \in EventModes /\ keep' \in BOOLEAN
                  /\ pc' \in [Nodes -> States]
                  /\ writer' \in [Nodes -> {"none", "open", "mute"}]
                  /\ file' \in [Nodes -> AFile]
                  /\ saved' \in [Nodes -> Nat]
                  /\ out' \in AFile /\ outOpen' \in BOOLEAN
                  /\ kind' \in DetectorTypes \X Packable
                  /\ at' \in Nodes /\ left' \in Seq(Rows)
  BY DEF TypeOK, States
<1> HIDE DEF AFile
<1> USE NodeFacts
<1>1. ASSUME NEW n \in Nodes, Initialize(n) PROVE TypeOK'
  <2>1. \A k \in 1 .. 9 : WrittenFile(Detector, ReadoutType(Detector), k) \in AFile
    BY WrittenType, OwnTypes
  <2>6. \/ file' = file
        \/ \E k \in 1 .. 9 :
              file' = [file EXCEPT ![n] = WrittenFile(Detector, ReadoutType(Detector), k)]
    BY <1>1 DEF Initialize, NewFile
  <2>2. file' \in [Nodes -> AFile]
    BY <2>6, <1>t, <2>1
  <2>3. \E to \in {"exited", "trace", "threw"} : Go(n, to)
    BY <1>1 DEF Initialize, AfterInitialize
  <2>4. pc' \in [Nodes -> States]
    BY <2>3, <1>t, GoType DEF States, Dead
  <2>5. writer' \in [Nodes -> {"none", "open", "mute"}]
    BY <1>1, <1>t DEF Initialize
  <2> QED
    BY <1>1, <2>2, <2>4, <2>5, <1>s DEF Initialize, TypeOK, params, merge, AFile
<1>2. ASSUME NEW n \in Nodes, Trace(n) PROVE TypeOK'
  <2>1. <<n, saved[n] + 1>> \in Rows
    BY <1>t DEF Rows
  <2>2. file' \in [Nodes -> AFile]
    BY <1>2, <1>t, <2>1, AppendRowFacts DEF Trace
  <2>3. saved' \in [Nodes -> Nat]
    BY <1>2, <1>t DEF Trace
  <2> QED
    BY <1>2, <2>2, <2>3, <1>s DEF Trace, TypeOK, params, merge, AFile, States
<1>3. ASSUME NEW n \in Nodes, TraceThrows(n) PROVE TypeOK'
  <2>1. Blank(n) \in Rows
    BY DEF Rows, Blank
  <2>2. file' \in [Nodes -> AFile]
    BY <1>3, <1>t, <2>1, AppendRowFacts DEF TraceThrows
  <2>3. pc' \in [Nodes -> States]
    BY <1>3, <1>t, GoType DEF TraceThrows, States, Dead
  <2> QED
    BY <1>3, <2>2, <2>3, <1>s, <1>t DEF TraceThrows, TypeOK, params, merge
<1>4. ASSUME NEW n \in Nodes, Finally(n) PROVE TypeOK'
  <2>1. pc' \in [Nodes -> States]
    BY <1>4, <1>t, GoType DEF Finally, States
  <2>2. writer' \in [Nodes -> {"none", "open", "mute"}]
    BY <1>4, <1>t DEF Finally
  <2> QED
    BY <1>4, <2>1, <2>2, <1>s, <1>t DEF Finally, TypeOK, params, merge
<1>5. ASSUME NEW n \in Nodes, Kill(n) PROVE TypeOK'
  <2>1. pc' \in [Nodes -> States]
    BY <1>5, <1>t, GoType DEF Kill, States, Dead
  <2> QED
    BY <1>5, <2>1, <1>s, <1>t DEF Kill, TypeOK, params, merge
<1>6. ASSUME NEW n \in Nodes, PassBarrier(n) PROVE TypeOK'
  <2>1. pc' \in [Nodes -> States]
    BY <1>6, <1>t, GoType DEF PassBarrier, States, Merging
  <2> QED
    BY <1>6, <2>1, <1>s, <1>t DEF PassBarrier, TypeOK, params, merge
<1>7. CASE Verify
  <2>1. PICK seen \in Seen(file[at]) :
          \/ /\ kind' = KindOf(seen)
             /\ at' = IF Last(at) THEN 0 ELSE at + 1
             /\ IF Last(at) THEN Go(Master, "create") ELSE UNCHANGED pc
          \/ /\ Go(Master, "threw")
             /\ UNCHANGED <<kind, at>>
    BY <1>7 DEF Verify
  <2>2. KindOf(seen) \in DetectorTypes \X Packable
    BY <1>t, SeenFacts
  <2>3. kind' \in DetectorTypes \X Packable /\ at' \in Nodes
    BY <2>1, <2>2, <1>t DEF Last
  <2>4. pc' \in [Nodes -> States]
    BY <2>1, <1>t, GoType DEF States, Merging, Dead
  <2> QED
    BY <1>7, <2>3, <2>4, <1>s, <1>t DEF Verify, TypeOK, params
<1>8. CASE Create
  <2>1. \A k \in 1 .. 9 : WrittenFile(kind[1], kind[2], k) \in AFile
    BY <1>t, WrittenType
  <2>4. out' = out \/ \E k \in 1 .. 9 : out' = WrittenFile(kind[1], kind[2], k)
    BY <1>8 DEF Create, NewFile
  <2>5. outOpen' \in BOOLEAN
    BY <1>8 DEF Create, TypeOK
  <2>2. out' \in AFile /\ outOpen' \in BOOLEAN
    BY <2>4, <2>5, <2>1, <1>t
  <2>3. pc' \in [Nodes -> States]
    BY <1>8, <1>t, GoType DEF Create, States, Merging, Dead
  <2> QED
    BY <1>8, <2>2, <2>3, <1>s, <1>t DEF Create, TypeOK, params
<1>9. CASE OpenInput
  <2>1. PICK seen \in Seen(file[at]) :
          \/ left' = RowsOf(seen) /\ Go(Master, "copy")
          \/ Go(Master, "threw") /\ UNCHANGED left
    BY <1>9 DEF OpenInput
  <2>2. left' \in Seq(Rows)
    BY <2>1, <1>t, SeenFacts
  <2>3. pc' \in [Nodes -> States]
    BY <2>1, <1>t, GoType DEF States, Merging, Dead
  <2> QED
    BY <1>9, <2>2, <2>3, <1>s, <1>t DEF OpenInput, TypeOK, params
<1>10. CASE CopyRow
  <2>1. Head(left) \in Rows /\ Tail(left) \in Seq(Rows)
    BY <1>10, <1>t, RowsTaken DEF CopyRow
  <2>2. out' \in AFile
    BY <1>10, <1>t, <2>1, AppendRowFacts DEF CopyRow
  <2> QED
    BY <1>10, <2>1, <2>2, <1>s, <1>t DEF CopyRow, TypeOK, params
<1>11. CASE CopyThrows
  <2>1. Blank(at) \in Rows
    BY <1>t DEF Rows, Blank
  <2>2. out' \in AFile
    BY <1>11, <1>t, <2>1, AppendRowFacts DEF CopyThrows
  <2>3. pc' \in [Nodes -> States]
    BY <1>11, <1>t, GoType DEF CopyThrows, States, Dead
  <2> QED
    BY <1>11, <2>2, <2>3, <1>s, <1>t DEF CopyThrows, TypeOK, params
<1>12. CASE NextInput
  <2>1. at' \in Nodes /\ outOpen' \in BOOLEAN
    BY <1>12, <1>t DEF NextInput, AllCopied, Last, TypeOK
  <2>2. pc' \in [Nodes -> States]
    BY <1>12, <1>t, GoType DEF NextInput, States, Merging
  <2> QED
    BY <1>12, <2>1, <2>2, <1>s, <1>t DEF NextInput, TypeOK, params
<1>13. CASE RemoveInput
  <2>1. NoFile \in AFile
    BY WrittenType, OwnTypes DEF NoFile
  <2>2. file' \in [Nodes -> AFile]
    BY <1>13, <1>t, <2>1 DEF RemoveInput
  <2>3. at' \in Nodes
    BY <1>13, <1>t DEF RemoveInput, Last
  <2>4. pc' \in [Nodes -> States]
    BY <1>13, <1>t, GoType DEF RemoveInput, States
  <2> QED
    BY <1>13, <2>2, <2>3, <2>4, <1>s, <1>t DEF RemoveInput, TypeOK, params
<1>14. CASE UNCHANGED vars
  BY <1>14, <1>s, <1>t DEF vars, params, merge, TypeOK
<1> QED
  BY <1>1, <1>2, <1>3, <1>4, <1>5, <1>6, <1>7, <1>8, <1>9, <1>10, <1>11,
     <1>12, <1>13, <1>14 DEF Next, MasterStep, Done

(***************************************************************************)
(* Files, rows and the merge's indexes keep their types, for every number  *)
(* of processes.                                                           *)
(***************************************************************************)
THEOREM MergeTypeCorrect == Spec => []TypeOK
<1>1. Init => TypeOK
  <2> SUFFICES ASSUME Init PROVE TypeOK
    OBVIOUS
  <2>1. NoFile \in AFile /\ Leftover \in AFile
    BY WrittenType, OwnTypes DEF NoFile, Leftover, NewFile
  <2> QED
    BY <2>1, NodeFacts, OwnTypes DEF Init, TypeOK, AFile
<1> QED
  BY <1>1, MergeTypeStep, PTL DEF Spec

---------------------------------------------------------------------------
(***************************************************************************)
(* The barrier.  Once the first process is behind it no process saves, or  *)
(* will save, and those that got there have closed their files.            *)
(***************************************************************************)
Past == Merging \cup {"remove", "finished"}
AtRest == \A n \in Nodes : pc[n] \notin {"initialize", "trace"}
AllClosed == \A n \in Nodes : writer[n] # "open"

BarrierInv ==
    /\ \A n \in Nodes : pc[n] \in {"barrier"} \cup Past => writer[n] # "open"
    /\ pc[Master] \in Past => AtRest /\ AllClosed

LEMMA BarrierStep == TypeOK /\ BarrierInv /\ [Next]_vars => BarrierInv'
<1> SUFFICES ASSUME TypeOK, BarrierInv, [Next]_vars PROVE BarrierInv'
  OBVIOUS
<1>t. pc \in [Nodes -> States] /\ writer \in [Nodes -> {"none", "open", "mute"}]
  BY DEF TypeOK, States
<1>m. Master \in Nodes
  BY NodeFacts
<1> USE <1>t, <1>m DEF BarrierInv, Past, AtRest, AllClosed
<1>1. ASSUME NEW n \in Nodes, Initialize(n) PROVE BarrierInv'
  <2>1. /\ pc[n] = "initialize"
        /\ \E to \in {"exited", "trace", "threw"} : pc' = [pc EXCEPT ![n] = to]
        /\ \A m \in Nodes : m # n => writer'[m] = writer[m]
    BY <1>1 DEF Initialize, AfterInitialize, Go
  <2> QED
    BY <2>1 DEF Merging
<1>2. ASSUME NEW n \in Nodes, Trace(n) PROVE BarrierInv'
  BY <1>2 DEF Trace
<1>3. ASSUME NEW n \in Nodes, TraceThrows(n) PROVE BarrierInv'
  BY <1>3 DEF TraceThrows, Go, Merging
<1>4. ASSUME NEW n \in Nodes, Finally(n) PROVE BarrierInv'
  BY <1>4 DEF Finally, Go, Merging
<1>5. ASSUME NEW n \in Nodes, Kill(n) PROVE BarrierInv'
  BY <1>5 DEF Kill, Go, Merging
<1>6. ASSUME NEW n \in Nodes, PassBarrier(n) PROVE BarrierInv'
  BY <1>6 DEF PassBarrier, BarrierOpen, Go, Merging
<1>7. ASSUME UNCHANGED writer, \/ UNCHANGED pc
                               \/ /\ pc[Master] \in Past
                                  /\ \E to \in States \ {"initialize", "trace"} :
                                        Go(Master, to)
      PROVE BarrierInv'
  BY <1>7 DEF Go
<1>8. CASE MasterStep
  BY <1>7, <1>8 DEF MasterStep, Verify, Create, OpenInput, CopyRow, CopyThrows,
                    NextInput, RemoveInput, States, Merging, Dead
<1>9. CASE UNCHANGED vars
  BY <1>9 DEF vars
<1> QED
  BY <1>1, <1>2, <1>3, <1>4, <1>5, <1>6, <1>8, <1>9 DEF Next, Done

LEMMA BarrierHolds == Spec => []BarrierInv
<1>1. Init => BarrierInv
  BY NodeFacts DEF Init, BarrierInv, Past, Merging
<1> QED
  BY <1>1, BarrierStep, MergeTypeCorrect, PTL DEF Spec

(***************************************************************************)
(* The merge reads only files that are closed: the barrier of the          *)
(* component does what it is for, for every number of processes and        *)
(* whichever of them die.                                                  *)
(***************************************************************************)
THEOREM ClosedFilesRead == Spec => []ReadsClosedFiles
<1>1. BarrierInv => ReadsClosedFiles
  BY DEF BarrierInv, ReadsClosedFiles, Past, AllClosed
<1> QED
  BY <1>1, BarrierHolds, PTL

---------------------------------------------------------------------------
(***************************************************************************)
(* No row is lost.  While the merge copies, every row is in its file; when *)
(* the inputs are removed every row is in the merged file.  What has been  *)
(* copied grows with the index of the input, and of the input in hand it   *)
(* is all but what is left.                                                *)
(***************************************************************************)
AllInFiles == \A n \in Nodes : SavedBy(n) \subseteq Range(file[n].rows)
AllMerged == \A n \in Nodes : SavedBy(n) \subseteq Range(out.rows)
CopiedBelow(i) == \A n \in Nodes : n < i => SavedBy(n) \subseteq Range(out.rows)

FileInv == \A n \in Nodes :
    /\ pc[n] = "initialize" => saved[n] = 0 /\ writer[n] # "open"
    /\ writer[n] = "open" \/ file[n].rows # << >> => HasDataset(file[n])

KeepInv ==
    /\ AllInFiles \/ (AllMerged /\ AtRest)
    /\ pc[Master] \notin {"remove", "finished"} \cup Dead => AllInFiles
    /\ pc[Master] = "create" => at = 0
    /\ pc[Master] \in {"open", "copy"} => outOpen /\ CopiedBelow(at)
    /\ pc[Master] = "copy" => SavedBy(at) \subseteq Range(left) \cup Range(out.rows)
    /\ pc[Master] \in {"remove", "finished"} => AllMerged

MergeTypes == /\ pc \in [Nodes -> States] /\ file \in [Nodes -> AFile]
              /\ out \in AFile /\ saved \in [Nodes -> Nat]
              /\ writer \in [Nodes -> {"none", "open", "mute"}]
              /\ left \in Seq(Rows) /\ at \in Nodes

LEMMA MergeTypesHold == TypeOK => MergeTypes
  BY DEF TypeOK, MergeTypes, States, AFile

LEMMA RowsTyped == ASSUME NEW f \in AFile PROVE f.rows \in Seq(Rows)
  BY DEF AFile, EventFiles

LEMMA NewHasDataset ==
    ASSUME NEW d, NEW r PROVE HasDataset(NewFile(d, r))
<1>1. /\ WriterParts[3] = "dataset" /\ WriterParts[8] = "detector"
      /\ WriterParts[9] = "readout"
  BY DEF WriterParts
<1>2. {"dataset", "detector", "readout"} \subseteq PartsUpTo(9)
  BY <1>1 DEF PartsUpTo
<1> QED
  BY <1>2 DEF HasDataset, NewFile, WrittenFile

LEMMA FileStep == TypeOK /\ BarrierInv /\ FileInv /\ [Next]_vars => FileInv'
<1> SUFFICES ASSUME TypeOK, BarrierInv, FileInv, [Next]_vars PROVE FileInv'
  OBVIOUS
<1>t. MergeTypes
  BY MergeTypesHold
<1>m. Master \in Nodes
  BY NodeFacts
<1> USE <1>t, <1>m DEF FileInv, MergeTypes
<1>1. ASSUME NEW n \in Nodes, Initialize(n) PROVE FileInv'
  <2>1. /\ pc[n] = "initialize" /\ saved' = saved
        /\ \E to \in {"exited", "trace", "threw"} : pc' = [pc EXCEPT ![n] = to]
        /\ \A m \in Nodes : m # n => writer'[m] = writer[m] /\ file'[m] = file[m]
    BY <1>1 DEF Initialize, AfterInitialize, Go
  <2>2. writer'[n] = "open" \/ file'[n].rows # << >> => HasDataset(file'[n])
    <3>1. CASE file' = [file EXCEPT ![n] = NewFile(Detector, ReadoutType(Detector))]
      BY <3>1, NewHasDataset
    <3>2. CASE writer' = [writer EXCEPT ![n] = "mute"] /\ UNCHANGED file
      BY <3>2
    <3>3. ASSUME NEW k \in 1 .. 8, UNCHANGED writer,
                 file' = [file EXCEPT ![n] =
                            WrittenFile(Detector, ReadoutType(Detector), k)]
          PROVE  writer'[n] = "open" \/ file'[n].rows # << >> => HasDataset(file'[n])
      BY <3>3, <2>1 DEF WrittenFile
    <3> QED
      BY <1>1, <3>1, <3>2, <3>3 DEF Initialize
  <2> QED
    BY <2>1, <2>2
<1>2. ASSUME NEW n \in Nodes, NEW row \in Rows, UNCHANGED writer,
             pc[n] # "initialize", writer[n] = "open",
             \A m \in Nodes : pc'[m] = "initialize" => pc[m] = "initialize",
             \A m \in Nodes : m # n => saved'[m] = saved[m],
             pc'[n] # "initialize",
             file' = [file EXCEPT ![n] = AppendRow(@, row)]
      PROVE  FileInv'
  <2>3. file[n] \in AFile /\ file'[n] = AppendRow(file[n], row)
    BY <1>2
  <2>4. file'[n].parts = file[n].parts
    BY <2>3, AppendRowFacts
  <2>5. HasDataset(file[n])
    BY <1>2
  <2>1. HasDataset(file'[n])
    BY <2>4, <2>5 DEF HasDataset
  <2>2. \A m \in Nodes : m # n => file'[m] = file[m]
    BY <1>2
  <2> QED
    BY <1>2, <2>1, <2>2
<1>3. ASSUME NEW n \in Nodes, Trace(n) PROVE FileInv'
  <2>1. <<n, saved[n] + 1>> \in Rows
    BY DEF Rows
  <2> QED
    BY <1>2, <1>3, <2>1 DEF Trace
<1>4. ASSUME NEW n \in Nodes, TraceThrows(n) PROVE FileInv'
  <2>1. Blank(n) \in Rows
    BY DEF Rows, Blank
  <2> QED
    BY <1>2, <1>4, <2>1 DEF TraceThrows, Go
<1>5. ASSUME NEW n \in Nodes, Finally(n) \/ Kill(n) \/ PassBarrier(n) PROVE FileInv'
  BY <1>5 DEF Finally, Kill, PassBarrier, Go
<1>6. ASSUME UNCHANGED <<writer, saved, file>>,
             \/ UNCHANGED pc
             \/ \E to \in States \ {"initialize"} : Go(Master, to)
      PROVE  FileInv'
  BY <1>6 DEF Go
<1>7. CASE RemoveInput
  <2>1. writer[at] # "open" /\ writer' = writer /\ saved' = saved
    BY <1>7 DEF RemoveInput, BarrierInv, Past, AllClosed
  <2>2. \/ file' = file
        \/ file'[at].rows = << >> /\ \A m \in Nodes : m # at => file'[m] = file[m]
    BY <1>7 DEF RemoveInput, NoFile, WrittenFile
  <2>3. \A m \in Nodes : pc'[m] = "initialize" => pc[m] = "initialize"
    BY <1>7 DEF RemoveInput, Go
  <2> QED
    BY <2>1, <2>2, <2>3
<1>8. CASE Verify \/ Create \/ OpenInput \/ CopyRow \/ CopyThrows \/ NextInput
  BY <1>6, <1>8 DEF Verify, Create, OpenInput, CopyRow, CopyThrows, NextInput,
                    States, Merging, Dead
<1>9. CASE UNCHANGED vars
  BY <1>9 DEF vars
<1> QED
  BY <1>1, <1>3, <1>4, <1>5, <1>7, <1>8, <1>9 DEF Next, MasterStep, Done

(***************************************************************************)
(* A step that leaves files, rows and the merged file alone keeps what is  *)
(* in them.                                                                *)
(***************************************************************************)
LEMMA SameContents ==
    ASSUME UNCHANGED <<saved, file, out>>
    PROVE  /\ AllInFiles' <=> AllInFiles
           /\ AllMerged' <=> AllMerged
           /\ \A i : CopiedBelow(i)' <=> CopiedBelow(i)
  BY DEF AllInFiles, AllMerged, CopiedBelow, SavedBy

LEMMA NodeStepKeeps ==
    ASSUME TypeOK, BarrierInv, FileInv, KeepInv, NEW n \in Nodes,
           Initialize(n) \/ Trace(n) \/ TraceThrows(n)
    PROVE  KeepInv'
<1>t. MergeTypes
  BY MergeTypesHold
<1>m. Master \in Nodes
  BY NodeFacts
<1> USE <1>t, <1>m DEF MergeTypes
<1>1. pc[n] \in {"initialize", "trace"} /\ out' = out
  BY DEF Initialize, Trace, TraceThrows, merge
<1>2. ~AtRest
  BY <1>1 DEF AtRest
<1>3. AllInFiles
  BY <1>2 DEF KeepInv
<1>4. pc[Master] \notin Past
  BY <1>2 DEF BarrierInv
<1>5. pc'[Master] \notin Past
  BY <1>4 DEF Initialize, AfterInitialize, Trace, TraceThrows, Go, Past, Merging
<1>6. AllInFiles'
  <2>1. CASE Initialize(n)
    <3>1. saved[n] = 0 /\ saved' = saved
      BY <2>1 DEF Initialize, FileInv
    <3>2. \A m \in Nodes : m # n => file'[m] = file[m]
      BY <2>1 DEF Initialize
    <3>3. \A m \in Nodes : SavedBy(m)' = SavedBy(m)
      BY <3>1 DEF SavedBy
    <3>4. SavedBy(n) = {}
      BY <3>1 DEF SavedBy
    <3> QED
      BY <1>3, <3>2, <3>3, <3>4 DEF AllInFiles
  <2>2. ASSUME NEW row \in Rows, file' = [file EXCEPT ![n] = AppendRow(@, row)]
        PROVE  /\ \A m \in Nodes : m # n => file'[m] = file[m]
               /\ Range(file'[n].rows) = Range(file[n].rows) \cup {row}
    <3>1. file[n] \in AFile /\ file'[n] = AppendRow(file[n], row)
      BY <2>2
    <3>2. file'[n].rows = Append(file[n].rows, row) /\ file[n].rows \in Seq(Rows)
      BY <3>1, AppendRowFacts, RowsTyped
    <3> QED
      BY <2>2, <3>2, RowsAppended
  <2>3. CASE Trace(n)
    <3> DEFINE row == <<n, saved[n] + 1>>
    <3>1. row \in Rows /\ file' = [file EXCEPT ![n] = AppendRow(@, row)]
      BY <2>3 DEF Trace, Rows
    <3>2. /\ \A m \in Nodes : m # n => file'[m] = file[m]
          /\ Range(file'[n].rows) = Range(file[n].rows) \cup {row}
      BY <2>2, <3>1
    <3>3. \A m \in Nodes : m # n => SavedBy(m)' = SavedBy(m)
      BY <2>3 DEF Trace, SavedBy
    <3>4. SavedBy(n)' \subseteq SavedBy(n) \cup {row}
      <4>1. saved'[n] = saved[n] + 1 /\ saved[n] \in Nat
        BY <2>3 DEF Trace
      <4> QED
        BY <4>1 DEF SavedBy
    <3> HIDE DEF row
    <3> QED
      BY <1>3, <3>2, <3>3, <3>4 DEF AllInFiles
  <2>4. CASE TraceThrows(n)
    <3>1. /\ Blank(n) \in Rows /\ saved' = saved
          /\ file' = [file EXCEPT ![n] = AppendRow(@, Blank(n))]
      BY <2>4 DEF TraceThrows, Rows, Blank
    <3>2. /\ \A m \in Nodes : m # n => file'[m] = file[m]
          /\ Range(file[n].rows) \subseteq Range(file'[n].rows)
      BY <2>2, <3>1
    <3>3. \A m \in Nodes : SavedBy(m)' = SavedBy(m)
      BY <3>1 DEF SavedBy
    <3> QED
      BY <1>3, <3>2, <3>3 DEF AllInFiles
  <2> QED
    BY <2>1, <2>3, <2>4
<1> QED
  BY <1>5, <1>6 DEF KeepInv, Past, Merging

LEMMA MergeStepKeeps ==
    ASSUME SilentFailures = {}, TypeOK, BarrierInv, FileInv, KeepInv, MasterStep
    PROVE  KeepInv'
<1>t. MergeTypes
  BY MergeTypesHold
<1>m. Master \in Nodes /\ \A i \in Nodes : i \in Nat
  BY NodeFacts
<1> USE <1>t, <1>m DEF MergeTypes, Go, Merging, Dead
<1>r. pc[Master] \in Merging \cup {"remove"} => AtRest
  BY DEF BarrierInv, Past
<1>1. CASE Verify
  <2>1. UNCHANGED <<saved, file, out>> /\ pc[Master] = "verify"
    BY <1>1 DEF Verify
  <2>2. pc'[Master] \in {"verify", "create", "threw"}
    BY <1>1 DEF Verify
  <2>3. pc'[Master] = "create" => at' = 0
    BY <1>1 DEF Verify
  <2> QED
    BY <2>1, <2>2, <2>3, SameContents DEF KeepInv
<1>2. CASE Create
  <2>1. /\ pc[Master] = "create" /\ at = 0 /\ at' = at
        /\ UNCHANGED <<saved, file>> /\ AllInFiles
    BY <1>2 DEF Create, KeepInv
  <2>2. pc'[Master] = "threw" \/ (pc'[Master] = "open" /\ outOpen' = TRUE)
    BY <1>2 DEF Create
  <2>3. AllInFiles'
    BY <2>1 DEF AllInFiles, SavedBy
  <2>4. CopiedBelow(0)'
    BY DEF CopiedBelow
  <2>5. CopiedBelow(at)'
    BY <2>1, <2>4 DEF CopiedBelow
  <2> QED
    BY <2>2, <2>3, <2>5 DEF KeepInv
<1>3. CASE OpenInput
  <2>1. /\ pc[Master] = "open" /\ at' = at /\ outOpen' = outOpen
        /\ UNCHANGED <<saved, file, out>>
        /\ AllInFiles /\ outOpen /\ CopiedBelow(at)
    BY <1>3 DEF OpenInput, KeepInv
  <2>2. pc'[Master] = "threw" \/ (pc'[Master] = "copy" /\ left' = RowsOf(file[at]))
    BY <1>3 DEF OpenInput, Seen
  <2>3. SavedBy(at) \subseteq Range(RowsOf(file[at]))
    <3>1. SavedBy(at) \subseteq Range(file[at].rows)
      BY <2>1 DEF AllInFiles
    <3>2. file[at].rows = << >> \/ RowsOf(file[at]) = file[at].rows
      BY DEF FileInv, RowsOf
    <3>3. RowsOf(file[at]) = file[at].rows
      BY <3>2 DEF RowsOf
    <3> QED
      BY <3>1, <3>3
  <2>4. SavedBy(at)' = SavedBy(at) /\ CopiedBelow(at)' /\ AllInFiles'
    BY <2>1, SameContents DEF SavedBy, CopiedBelow
  <2> QED
    BY <2>1, <2>2, <2>3, <2>4 DEF KeepInv
<1>4. CASE CopyRow
  <2>1. /\ pc[Master] = "copy" /\ UNCHANGED <<pc, saved, file, at, outOpen>>
        /\ left # << >> /\ left' = Tail(left)
        /\ AllInFiles /\ outOpen /\ CopiedBelow(at)
        /\ SavedBy(at) \subseteq Range(left) \cup Range(out.rows)
        /\ out' = AppendRow(out, Head(left))
    BY <1>4 DEF CopyRow, KeepInv
  <2>2. /\ Head(left) \in Rows
        /\ Range(left) \subseteq {Head(left)} \cup Range(Tail(left))
    BY <2>1, RowsTaken
  <2>3. Range(out'.rows) = Range(out.rows) \cup {Head(left)}
    BY <2>1, <2>2, AppendRowFacts, RowsAppended, RowsTyped
  <2>4. \A n \in Nodes : SavedBy(n)' = SavedBy(n)
    BY <2>1 DEF SavedBy
  <2>5. CopiedBelow(at)' /\ AllInFiles'
    BY <2>1, <2>3, <2>4 DEF CopiedBelow, AllInFiles
  <2>6. SavedBy(at)' \subseteq Range(left') \cup Range(out'.rows)
    BY <2>1, <2>2, <2>3, <2>4
  <2> QED
    BY <2>1, <2>5, <2>6 DEF KeepInv
<1>5. CASE CopyThrows
  <2>1. AllInFiles /\ UNCHANGED <<saved, file>> /\ pc'[Master] = "threw"
    BY <1>5 DEF CopyThrows, KeepInv
  <2>2. AllInFiles'
    BY <2>1 DEF AllInFiles, SavedBy
  <2> QED
    BY <2>1, <2>2 DEF KeepInv
<1>6. CASE NextInput
  <2>1. /\ pc[Master] = "copy" /\ UNCHANGED <<saved, file, out>> /\ left = << >>
        /\ AllInFiles /\ outOpen /\ CopiedBelow(at)
        /\ SavedBy(at) \subseteq Range(left) \cup Range(out.rows)
    BY <1>6 DEF NextInput, KeepInv
  <2>2. Range(left) = {}
    BY <2>1 DEF Range
  <2>3. \A n \in Nodes : n <= at => SavedBy(n) \subseteq Range(out.rows)
    <3> SUFFICES ASSUME NEW n \in Nodes, n <= at
                 PROVE  SavedBy(n) \subseteq Range(out.rows)
      OBVIOUS
    <3>1. CASE n = at
      BY <2>1, <2>2, <3>1
    <3>2. CASE n # at
      <4>1. n < at
        BY <3>2, <1>m, NodeFacts DEF MergeTypes
      <4> QED
        BY <2>1, <4>1 DEF CopiedBelow
    <3> QED
      BY <3>1, <3>2
  <2>4. CASE Last(at)
    <3>1. AllMerged
      BY <2>3, <2>4, MergeAssumption DEF AllMerged, Last, Nodes
    <3>2. pc'[Master] \in {"finished", "remove"} /\ AllInFiles' /\ AllMerged'
      BY <1>6, <2>1, <2>4, <3>1, SameContents DEF NextInput, AllCopied
    <3> QED
      BY <3>2 DEF KeepInv
  <2>5. CASE ~Last(at)
    <3>1. at' = at + 1 /\ outOpen' = outOpen /\ pc'[Master] = "open"
      BY <1>6, <2>5 DEF NextInput, AllCopied
    <3>2. CopiedBelow(at + 1)
      BY <2>3 DEF CopiedBelow
    <3>3. CopiedBelow(at)' /\ AllInFiles'
      BY <2>1, <3>1, <3>2, SameContents DEF CopiedBelow
    <3> QED
      BY <2>1, <3>1, <3>3 DEF KeepInv
  <2> QED
    BY <2>4, <2>5
<1>7. CASE RemoveInput
  <2>1. /\ pc[Master] = "remove" /\ AllMerged /\ AtRest
        /\ UNCHANGED <<saved, out>>
        /\ pc' = pc \/ pc' = [pc EXCEPT ![Master] = "finished"]
    BY <1>7, <1>r DEF RemoveInput, KeepInv
  <2>2. AllMerged' /\ AtRest'
    BY <2>1 DEF AllMerged, AtRest, SavedBy
  <2> QED
    BY <2>1, <2>2 DEF KeepInv
<1> QED
  BY <1>1, <1>2, <1>3, <1>4, <1>5, <1>6, <1>7 DEF MasterStep

LEMMA KeepStep ==
    ASSUME SilentFailures = {}
    PROVE  TypeOK /\ BarrierInv /\ FileInv /\ KeepInv /\ [Next]_vars => KeepInv'
<1> SUFFICES ASSUME TypeOK, BarrierInv, FileInv, KeepInv, [Next]_vars PROVE KeepInv'
  OBVIOUS
<1>t. pc \in [Nodes -> States] /\ Master \in Nodes
  BY MergeTypesHold, NodeFacts DEF MergeTypes
<1>1. ASSUME NEW n \in Nodes, Finally(n) \/ Kill(n) \/ PassBarrier(n) PROVE KeepInv'
  <2>1. /\ UNCHANGED <<saved, file, out, outOpen, at, left>>
        /\ \E to \in {"barrier", "threw", "verify", "finished"} : Go(n, to)
    BY <1>1 DEF Finally, Kill, PassBarrier, merge
  <2>2. AtRest => AtRest'
    BY <1>t, <2>1 DEF AtRest, Go
  <2>3. \/ pc'[Master] = pc[Master]
        \/ pc'[Master] = "threw"
        \/ /\ pc'[Master] \in {"barrier", "verify"}
           /\ pc[Master] \notin {"remove", "finished"} \cup Dead
    BY <1>1, <1>t DEF Finally, Kill, PassBarrier, Go, Dead
  <2>4. /\ AllInFiles' <=> AllInFiles
        /\ AllMerged' <=> AllMerged
        /\ CopiedBelow(at)' <=> CopiedBelow(at)
        /\ SavedBy(at)' = SavedBy(at)
    BY <2>1, SameContents DEF CopiedBelow, SavedBy
  <2> QED
    BY <2>1, <2>2, <2>3, <2>4 DEF KeepInv, Dead
<1>2. CASE UNCHANGED vars
  <2>1. UNCHANGED <<saved, file, out, outOpen, at, left, pc>>
    BY <1>2 DEF vars, merge
  <2>2. /\ AllInFiles' <=> AllInFiles
        /\ AllMerged' <=> AllMerged
        /\ CopiedBelow(at)' <=> CopiedBelow(at)
        /\ SavedBy(at)' = SavedBy(at) /\ (AtRest' <=> AtRest)
    BY <2>1, SameContents DEF CopiedBelow, SavedBy, AtRest
  <2> QED
    BY <2>1, <2>2 DEF KeepInv
<1> QED
  BY <1>1, <1>2, NodeStepKeeps, MergeStepKeeps DEF Next, Done

(***************************************************************************)
(* Merging and removing lose no readout, for every number of processes and *)
(* rows and whatever fails or is killed, as long as no file that the merge *)
(* opens fails to open silently.                                           *)
(***************************************************************************)
THEOREM NoRowIsLost ==
    ASSUME SilentFailures = {}
    PROVE  Spec => []NoRowLost
<1>1. Init => FileInv /\ KeepInv
  <2> SUFFICES ASSUME Init PROVE FileInv /\ KeepInv
    OBVIOUS
  <2>1. \A n \in Nodes : SavedBy(n) = {}
    BY DEF Init, SavedBy
  <2>2. FileInv
    BY DEF Init, FileInv, NoFile, WrittenFile
  <2>3. pc[Master] = "initialize"
    BY NodeFacts DEF Init
  <2> QED
    BY <2>1, <2>2, <2>3 DEF KeepInv, AllInFiles
<1>2. KeepInv => NoRowLost
  BY DEF KeepInv, AllInFiles, AllMerged, NoRowLost
<1>3. Spec => [](FileInv /\ KeepInv)
  BY <1>1, FileStep, KeepStep, BarrierHolds, MergeTypeCorrect, PTL DEF Spec
<1> QED
  BY <1>2, <1>3, PTL

---------------------------------------------------------------------------
(***************************************************************************)
(* The merged file in order.  While the first process merges, the file of  *)
(* each process is exactly the rows it saved, one after the other: one     *)
(* that a failure has left a blank row in would have kept the barrier      *)
(* closed.  So what is left of the input in hand comes after all that is   *)
(* in the merged file.                                                     *)
(***************************************************************************)
Whole(n) == /\ Len(file[n].rows) = saved[n]
            /\ \A k \in 1 .. saved[n] : file[n].rows[k] = <<n, k>>

Ended == {"remove", "finished"} \cup Dead

WholeInv ==
    /\ \A n \in Nodes : pc[n] \notin Dead /\ pc[Master] \notin Ended => Whole(n)
    /\ pc[Master] \in Merging => \A n \in Nodes : Whole(n)

Sorted(rows) == \A i, j \in DOMAIN rows : i < j => Before(rows[i], rows[j])

RowsUpTo(n) == \A i \in DOMAIN out.rows : out.rows[i][1] <= n
RowsBelow(n) == \A i \in DOMAIN out.rows : out.rows[i][1] < n
LeftAfter == /\ Sorted(left)
             /\ \A k \in DOMAIN left : left[k][1] = at
             /\ \A i \in DOMAIN out.rows, k \in DOMAIN left : Before(out.rows[i], left[k])

SortedInv ==
    /\ MergedInOrder
    /\ pc[Master] \notin Dead => Sorted(out.rows)
    /\ pc[Master] \notin {"open", "copy"} \cup Ended => out.rows = << >>
    /\ pc[Master] = "create" => at = 0
    /\ pc[Master] = "open" => RowsBelow(at)
    /\ pc[Master] = "copy" => RowsUpTo(at) /\ LeftAfter

LEMMA NextRow ==
    ASSUME NEW s \in Seq(Rows), NEW n, NEW m \in Nat, NEW row \in Rows,
           row = <<n, m + 1>>, Len(s) = m, \A k \in 1 .. m : s[k] = <<n, k>>
    PROVE  /\ Len(Append(s, row)) = m + 1
           /\ \A k \in 1 .. m + 1 : Append(s, row)[k] = <<n, k>>
<1>1. /\ Len(Append(s, row)) = m + 1
      /\ Append(s, row)[m + 1] = row
      /\ \A k \in 1 .. m : Append(s, row)[k] = s[k]
  OBVIOUS
<1>2. \A k \in 1 .. m + 1 : k \in 1 .. m \/ k = m + 1
  OBVIOUS
<1> QED
  BY <1>1, <1>2

(***************************************************************************)
(* Saving extends the file by the next row; an exception in saving ends    *)
(* the process; behind the barrier nothing is saved.                       *)
(***************************************************************************)
LEMMA WholeStep == TypeOK /\ BarrierInv /\ FileInv /\ WholeInv /\ [Next]_vars => WholeInv'
<1> SUFFICES ASSUME TypeOK, BarrierInv, FileInv, WholeInv, [Next]_vars PROVE WholeInv'
  OBVIOUS
<1>t. MergeTypes
  BY MergeTypesHold
<1>m. Master \in Nodes
  BY NodeFacts
<1> USE <1>t, <1>m DEF MergeTypes
<1>s. \A m \in Nodes : file'[m] = file[m] /\ saved'[m] = saved[m] => (Whole(m)' <=> Whole(m))
  BY DEF Whole
<1>1. ASSUME NEW n \in Nodes, pc[n] \in {"initialize", "trace"},
             pc'[n] = pc[n] \/ pc'[n] \in Dead \cup {"trace"},
             \A m \in Nodes : m # n => pc'[m] = pc[m] /\ file'[m] = file[m] /\ saved'[m] = saved[m],
             pc'[n] \notin Dead /\ Whole(n) => Whole(n)'
      PROVE  WholeInv'
  <2>1. pc[Master] \notin Merging
    BY <1>1 DEF BarrierInv, Past, AtRest
  <2>2. pc'[Master] \notin Merging
    BY <1>1, <2>1 DEF Merging, Dead
  <2>3. pc'[Master] \notin Ended => pc[Master] \notin Ended
    BY <1>1 DEF Ended, Dead
  <2>4. pc'[n] \notin Dead => pc[n] \notin Dead
    BY <1>1 DEF Dead
  <2> QED
    BY <1>1, <1>s, <2>2, <2>3, <2>4 DEF WholeInv
<1>2. ASSUME NEW n \in Nodes, Initialize(n) PROVE WholeInv'
  <2>1. /\ pc[n] = "initialize" /\ UNCHANGED saved /\ saved[n] = 0
        /\ pc'[n] \in Dead \cup {"trace"}
        /\ \A m \in Nodes : m # n => pc'[m] = pc[m] /\ file'[m] = file[m]
    BY <1>2 DEF Initialize, AfterInitialize, Go, FileInv, Dead
  <2>2. pc'[n] \notin Dead => file'[n] = file[n] \/ file'[n].rows = << >>
    BY <1>2 DEF Initialize, AfterInitialize, Go, Dead, NewFile, WrittenFile
  <2>3. pc'[n] \notin Dead /\ Whole(n) => Whole(n)'
    BY <2>1, <2>2 DEF Whole
  <2> QED
    BY <1>1, <2>1, <2>3
<1>3. ASSUME NEW n \in Nodes, Trace(n) PROVE WholeInv'
  <2>1. /\ pc[n] = "trace" /\ UNCHANGED pc /\ saved'[n] = saved[n] + 1 /\ saved[n] \in Nat
        /\ file'[n] = AppendRow(file[n], <<n, saved[n] + 1>>)
        /\ \A m \in Nodes : m # n => file'[m] = file[m] /\ saved'[m] = saved[m]
    BY <1>3 DEF Trace
  <2>2. file[n] \in AFile /\ file[n].rows \in Seq(Rows) /\ <<n, saved[n] + 1>> \in Rows
    BY <2>1, RowsTyped DEF Rows
  <2>3. PICK row \in Rows, f \in AFile, s \in Seq(Rows), m \in Nat :
           row = <<n, m + 1>> /\ f = file[n] /\ s = f.rows /\ m = saved[n]
    BY <2>1, <2>2
  <2>4. AppendRow(f, row).rows = Append(s, row)
    BY <2>3, AppendRowFacts
  <2>5. Whole(n) => Whole(n)'
    <3> SUFFICES ASSUME Whole(n) PROVE Whole(n)'
      OBVIOUS
    <3>1. Len(s) = m /\ \A k \in 1 .. m : s[k] = <<n, k>>
      BY <2>3 DEF Whole
    <3>2. /\ Len(Append(s, row)) = m + 1
          /\ \A k \in 1 .. m + 1 : Append(s, row)[k] = <<n, k>>
      BY <2>3, <3>1, NextRow
    <3>3. file'[n].rows = Append(s, row) /\ saved'[n] = m + 1
      BY <2>1, <2>3, <2>4
    <3> QED
      BY <3>2, <3>3 DEF Whole
  <2> QED
    BY <1>1, <2>1, <2>5
<1>4. ASSUME NEW n \in Nodes, TraceThrows(n) PROVE WholeInv'
  <2>1. /\ pc[n] = "trace" /\ pc'[n] \in Dead /\ UNCHANGED saved
        /\ \A m \in Nodes : m # n => pc'[m] = pc[m] /\ file'[m] = file[m]
    BY <1>4 DEF TraceThrows, Go, Dead
  <2> QED
    BY <1>1, <2>1
<1>5. ASSUME UNCHANGED <<file, saved>>,
             \A n \in Nodes : pc'[n] \notin Dead => pc[n] \notin Dead,
             pc'[Master] \notin Ended => pc[Master] \notin Ended,
             pc'[Master] \in Merging =>
                pc[Master] \in Merging \/ \A n \in Nodes : pc[n] \notin Dead /\ pc[Master] \notin Ended
      PROVE  WholeInv'
  BY <1>5, <1>s DEF WholeInv
<1>6. ASSUME NEW n \in Nodes, Finally(n) \/ Kill(n) PROVE WholeInv'
  BY <1>5, <1>6 DEF Finally, Kill, Go, Dead, Ended, Merging
<1>7. ASSUME NEW n \in Nodes, PassBarrier(n) PROVE WholeInv'
  <2>1. UNCHANGED <<file, saved>> /\ \A m \in Nodes : pc[m] \notin Dead
    BY <1>7 DEF PassBarrier, BarrierOpen, Dead, Merging
  <2>2. n # Master => pc'[Master] = pc[Master]
    BY <1>7 DEF PassBarrier, Go
  <2>3. n = Master => pc[Master] \notin Ended
    BY <1>7 DEF PassBarrier, Ended, Dead
  <2> QED
    BY <1>5, <2>1, <2>2, <2>3
<1>8. CASE Verify \/ Create \/ OpenInput \/ CopyRow \/ CopyThrows \/ NextInput
  <2>1. /\ UNCHANGED <<file, saved>> /\ pc[Master] \in Merging
        /\ pc' = pc \/ \E to \in States : pc' = [pc EXCEPT ![Master] = to]
    BY <1>8 DEF Verify, Create, OpenInput, CopyRow, CopyThrows, NextInput, Go, Merging,
                States, Dead
  <2> QED
    BY <1>5, <2>1 DEF Merging, Ended, Dead
<1>9. CASE RemoveInput
  <2>1. pc[Master] = "remove" /\ pc'[Master] \in {"remove", "finished"}
    BY <1>9 DEF RemoveInput, Go
  <2> QED
    BY <2>1 DEF WholeInv, Ended, Merging
<1>10. CASE UNCHANGED vars
  BY <1>5, <1>10 DEF vars
<1> QED
  BY <1>2, <1>3, <1>4, <1>6, <1>7, <1>8, <1>9, <1>10 DEF Next, MasterStep, Done

(***************************************************************************)
(* Facts about sorted rows.                                                *)
(***************************************************************************)
LEMMA SortedAppended ==
    ASSUME NEW s \in Seq(Rows), NEW row \in Rows, Sorted(s),
           \A i \in DOMAIN s : Before(s[i], row)
    PROVE  Sorted(Append(s, row))
<1>1. /\ DOMAIN Append(s, row) = 1 .. Len(s) + 1 /\ DOMAIN s = 1 .. Len(s) /\ Len(s) \in Nat
      /\ \A i \in 1 .. Len(s) : Append(s, row)[i] = s[i]
      /\ Append(s, row)[Len(s) + 1] = row
  OBVIOUS
<1> QED
  BY <1>1 DEF Sorted

LEMMA SortedTaken ==
    ASSUME NEW s \in Seq(Rows), s # << >>, Sorted(s)
    PROVE  /\ Sorted(Tail(s))
           /\ \A k \in DOMAIN Tail(s) : /\ Before(Head(s), Tail(s)[k])
                                        /\ k + 1 \in DOMAIN s /\ Tail(s)[k] = s[k + 1]
<1>1. /\ DOMAIN Tail(s) = 1 .. Len(s) - 1 /\ DOMAIN s = 1 .. Len(s)
      /\ Len(s) \in Nat \ {0} /\ Head(s) = s[1]
      /\ \A k \in 1 .. Len(s) - 1 : Tail(s)[k] = s[k + 1]
  OBVIOUS
<1> QED
  BY <1>1 DEF Sorted

LEMMA SortedInOrder == Sorted(out.rows) => MergedInOrder
  BY DEF Sorted, MergedInOrder

(***************************************************************************)
(* The rows of an input that its process saved completely are in order.    *)
(***************************************************************************)
LEMMA WholeSorted ==
    ASSUME TypeOK, NEW n \in Nodes, Whole(n)
    PROVE  /\ Sorted(file[n].rows) /\ file[n].rows \in Seq(Rows)
           /\ \A k \in DOMAIN file[n].rows : file[n].rows[k] = <<n, k>> /\ k \in Nat
<1>1. file[n].rows \in Seq(Rows) /\ n \in Nat
  BY MergeTypesHold, RowsTyped, NodeFacts DEF MergeTypes
<1>2. \A k \in DOMAIN file[n].rows : file[n].rows[k] = <<n, k>> /\ k \in Nat
  BY <1>1 DEF Whole
<1> QED
  BY <1>1, <1>2 DEF Sorted, Before

(***************************************************************************)
(* Copying a row takes the first that is left to the end of the merged     *)
(* file, if there is one.                                                  *)
(***************************************************************************)
LEMMA CopySorted ==
    ASSUME TypeOK, SortedInv, CopyRow
    PROVE  SortedInv'
<1>1. /\ pc[Master] = "copy" /\ UNCHANGED <<pc, at>> /\ left # << >> /\ left' = Tail(left)
      /\ out' = IF outOpen THEN AppendRow(out, Head(left)) ELSE out
      /\ Sorted(out.rows) /\ RowsUpTo(at) /\ LeftAfter
  BY DEF CopyRow, SortedInv, Dead
<1>2. PICK done \in Seq(Rows), rest \in Seq(Rows), first \in Rows :
         done = out.rows /\ rest = Tail(left) /\ first = Head(left)
  BY <1>1, MergeTypesHold, RowsTyped, RowsTaken DEF MergeTypes
<1>3. out'.rows \in {done, Append(done, first)}
  BY <1>1, <1>2, MergeTypesHold, AppendRowFacts DEF MergeTypes
<1>4. left \in Seq(Rows) /\ Sorted(left) /\ first = left[1] /\ 1 \in DOMAIN left
  BY <1>1, <1>2, MergeTypesHold DEF MergeTypes, LeftAfter
<1>5. /\ Sorted(rest) /\ first[1] = at
      /\ \A k \in DOMAIN rest : Before(first, rest[k]) /\ rest[k][1] = at
      /\ \A i \in DOMAIN done : Before(done[i], first) /\ done[i][1] <= at
      /\ \A i \in DOMAIN done, k \in DOMAIN rest : Before(done[i], rest[k])
  BY <1>1, <1>2, <1>4, SortedTaken DEF LeftAfter, RowsUpTo
<1>6. /\ DOMAIN Append(done, first) = 1 .. Len(done) + 1 /\ DOMAIN done = 1 .. Len(done)
      /\ \A i \in 1 .. Len(done) : Append(done, first)[i] = done[i]
      /\ Append(done, first)[Len(done) + 1] = first
      /\ Len(done) \in Nat /\ at \in Nat
  BY MergeTypesHold, NodeFacts DEF MergeTypes
<1>7. Sorted(out'.rows)
  BY <1>1, <1>2, <1>3, <1>5, SortedAppended
<1>8. ASSUME NEW i \in DOMAIN out'.rows
      PROVE  out'.rows[i] = first \/ (i \in DOMAIN done /\ out'.rows[i] = done[i])
  <2>1. CASE out'.rows = done
    BY <2>1
  <2>2. CASE out'.rows = Append(done, first)
    BY <1>6, <2>2
  <2> QED
    BY <1>3, <2>1, <2>2
<1>9. RowsUpTo(at)' /\ LeftAfter'
  <2>1. ASSUME NEW i \in DOMAIN out'.rows
        PROVE  out'.rows[i][1] <= at /\ \A k \in DOMAIN rest : Before(out'.rows[i], rest[k])
    BY <1>5, <1>6, <1>8
  <2>2. RowsUpTo(at)'
    BY <1>1, <2>1 DEF RowsUpTo
  <2>3. LeftAfter'
    BY <1>1, <1>2, <1>5, <2>1 DEF LeftAfter
  <2> QED
    BY <2>2, <2>3
<1>10. MergedInOrder'
  BY <1>7 DEF Sorted, MergedInOrder
<1> QED
  BY <1>1, <1>7, <1>9, <1>10 DEF SortedInv, Ended, Dead

(***************************************************************************)
(* The other steps of the merge: an input is opened when only rows of      *)
(* those before it have been copied; an exception leaves a blank row at    *)
(* the end.                                                                *)
(***************************************************************************)
LEMMA MergeSorted ==
    ASSUME TypeOK, FileInv, WholeInv, SortedInv, MasterStep
    PROVE  SortedInv'
<1>t. MergeTypes
  BY MergeTypesHold
<1>m. Master \in Nodes /\ \A i \in Nodes : i \in Nat
  BY NodeFacts
<1> USE <1>t, <1>m DEF MergeTypes, Go, Merging, Dead, Ended
<1>r. out.rows \in Seq(Rows) /\ \A i \in DOMAIN out.rows : out.rows[i] \in Nodes \X Nat
  BY RowsTyped DEF Rows
<1>1. CASE Verify
  <2>1. out' = out /\ out.rows = << >> /\ pc[Master] = "verify"
        /\ pc'[Master] \in {"verify", "create", "threw"}
        /\ (pc'[Master] = "create" => at' = 0)
    BY <1>1 DEF Verify, SortedInv
  <2> QED
    BY <2>1 DEF SortedInv, MergedInOrder, Sorted
<1>2. CASE Create
  <2>1. /\ pc[Master] = "create" /\ at' = at /\ at = 0 /\ out.rows = << >>
        /\ pc'[Master] \in {"open", "threw"}
    BY <1>2 DEF Create, SortedInv
  <2>2. out'.rows = << >>
    BY <1>2, <2>1 DEF Create, NewFile, WrittenFile
  <2> QED
    BY <2>1, <2>2 DEF SortedInv, MergedInOrder, Sorted, RowsBelow
<1>3. CASE OpenInput
  <2>1. /\ pc[Master] = "open" /\ at' = at /\ out' = out /\ Sorted(out.rows) /\ RowsBelow(at)
        /\ MergedInOrder /\ Whole(at)
    BY <1>3 DEF OpenInput, SortedInv, WholeInv
  <2>2. CASE pc'[Master] = "threw"
    BY <2>1, <2>2 DEF SortedInv, MergedInOrder, Sorted
  <2>3. CASE pc'[Master] = "copy" /\ left' \in {<< >>, file[at].rows}
    <3>1. /\ Sorted(file[at].rows)
          /\ \A k \in DOMAIN file[at].rows : file[at].rows[k] = <<at, k>>
      BY <2>1, WholeSorted
    <3>2. RowsUpTo(at)' /\ MergedInOrder' /\ Sorted(out'.rows)
      BY <1>r, <2>1, <2>3, SortedInOrder DEF RowsUpTo, RowsBelow, MergedInOrder, Sorted
    <3>3. LeftAfter'
      <4>1. CASE left' = << >>
        BY <4>1 DEF LeftAfter, Sorted
      <4>2. CASE left' = file[at].rows
        <5>1. \A k \in DOMAIN left' : left'[k] = <<at, k>>
          BY <3>1, <4>2
        <5>2. \A i \in DOMAIN out.rows : out.rows[i][1] < at
          BY <2>1 DEF RowsBelow
        <5>3. \A i \in DOMAIN out.rows, k \in DOMAIN left' : Before(out.rows[i], left'[k])
          BY <5>1, <5>2 DEF Before
        <5> QED
          BY <2>1, <3>1, <4>2, <5>1, <5>3 DEF LeftAfter
      <4> QED
        BY <2>3, <4>1, <4>2
    <3> QED
      BY <2>1, <2>3, <3>2, <3>3 DEF SortedInv
  <2>4. ASSUME NEW seen \in Seen(file[at])
        PROVE  RowsOf(seen) \in {<< >>, file[at].rows}
    BY <2>4 DEF Seen, RowsOf, NoFile, WrittenFile
  <2> QED
    BY <1>3, <2>2, <2>3, <2>4 DEF OpenInput
<1>4. CASE CopyRow
  BY <1>4, CopySorted
<1>5. CASE CopyThrows
  <2>1. /\ pc[Master] = "copy" /\ pc'[Master] = "threw" /\ out' = AppendRow(out, Blank(at))
        /\ Sorted(out.rows)
    BY <1>5 DEF CopyThrows, SortedInv
  <2>2. PICK row \in Rows : row = Blank(at) /\ row[2] = 0
    <3>1. Blank(at) = <<at, 0>> /\ <<at, 0>> \in Rows
      BY DEF Blank, Rows
    <3> QED
      BY <3>1
  <2>3. out'.rows = Append(out.rows, row)
    BY <2>1, <2>2, AppendRowFacts
  <2>4. /\ Len(out'.rows) = Len(out.rows) + 1 /\ Len(out.rows) \in Nat
        /\ DOMAIN out'.rows = 1 .. Len(out.rows) + 1 /\ DOMAIN out.rows = 1 .. Len(out.rows)
        /\ \A i \in 1 .. Len(out.rows) : out'.rows[i] = out.rows[i]
        /\ out'.rows[Len(out.rows) + 1][2] = 0
    BY <1>r, <2>2, <2>3
  <2>5. ASSUME NEW i \in DOMAIN out'.rows, NEW j \in DOMAIN out'.rows, i < j
        PROVE  \/ Before(out'.rows[i], out'.rows[j])
               \/ out'.rows[j][2] = 0 /\ j = Len(out'.rows)
    <3>1. CASE j \in 1 .. Len(out.rows)
      <4>1. i \in DOMAIN out.rows /\ j \in DOMAIN out.rows
        BY <2>4, <2>5, <3>1
      <4>2. Before(out.rows[i], out.rows[j])
        BY <2>1, <2>5, <4>1 DEF Sorted
      <4> QED
        BY <2>4, <4>1, <4>2
    <3>2. CASE j = Len(out.rows) + 1
      BY <2>4, <3>2
    <3> QED
      BY <2>4, <2>5, <3>1, <3>2
  <2>6. MergedInOrder'
    BY <2>1, <2>5 DEF MergedInOrder
  <2> QED
    BY <2>1, <2>6 DEF SortedInv
<1>6. CASE NextInput
  <2>1. /\ pc[Master] = "copy" /\ out' = out /\ Sorted(out.rows) /\ RowsUpTo(at)
        /\ pc'[Master] \in {"open", "remove", "finished"}
        /\ (pc'[Master] = "open" => at' = at + 1)
    BY <1>6 DEF NextInput, SortedInv
  <2>2. pc'[Master] = "open" => RowsBelow(at)'
    BY <1>r, <2>1 DEF RowsUpTo, RowsBelow
  <2>3. MergedInOrder' /\ Sorted(out'.rows)
    BY <2>1 DEF MergedInOrder, Sorted
  <2> QED
    BY <2>1, <2>2, <2>3 DEF SortedInv
<1>7. CASE RemoveInput
  <2>1. out' = out /\ pc[Master] = "remove" /\ pc'[Master] \in {"remove", "finished"}
        /\ Sorted(out.rows)
    BY <1>7 DEF RemoveInput, SortedInv
  <2> QED
    BY <2>1 DEF SortedInv, MergedInOrder, Sorted
<1> QED
  BY <1>1, <1>2, <1>3, <1>4, <1>5, <1>6, <1>7 DEF MasterStep

(***************************************************************************)
(* No other step touches the merged file.                                  *)
(***************************************************************************)
LEMMA SortedStep ==
    TypeOK /\ FileInv /\ WholeInv /\ SortedInv /\ [Next]_vars => SortedInv'
<1> SUFFICES ASSUME TypeOK, FileInv, WholeInv, SortedInv, [Next]_vars PROVE SortedInv'
  OBVIOUS
<1>t. pc \in [Nodes -> States] /\ Master \in Nodes
  BY MergeTypesHold, NodeFacts DEF MergeTypes
<1>1. ASSUME UNCHANGED merge,
             \/ pc'[Master] = pc[Master]
             \/ pc'[Master] \in Dead /\ pc[Master] \notin Dead
             \/ /\ pc[Master] \in {"initialize", "trace", "barrier"}
                /\ pc'[Master] \in {"trace", "barrier", "verify"} \cup Dead
      PROVE  SortedInv'
  <2>1. \/ Sorted(out.rows)
        \/ pc[Master] \in Dead /\ pc'[Master] \in Dead
    BY <1>1 DEF SortedInv, Dead
  <2>2. MergedInOrder'
    BY <1>1, <2>1 DEF merge, SortedInv, MergedInOrder, Sorted
  <2> QED
    BY <1>1, <2>1, <2>2 DEF merge, SortedInv, Sorted, RowsBelow, RowsUpTo, LeftAfter, Ended, Dead
<1>2. ASSUME NEW n \in Nodes, \/ Initialize(n) \/ Trace(n) \/ TraceThrows(n)
                               \/ Finally(n) \/ Kill(n) \/ PassBarrier(n)
      PROVE  SortedInv'
  <2>1. UNCHANGED merge
    BY <1>2 DEF Initialize, Trace, TraceThrows, Finally, Kill, PassBarrier
  <2>2. pc' = pc \/ \E to : pc' = [pc EXCEPT ![n] = to]
    BY <1>2 DEF Initialize, Trace, TraceThrows, Finally, Kill, PassBarrier, Go
  <2>3. CASE n # Master
    <3>1. pc'[Master] = pc[Master]
      BY <1>t, <2>2, <2>3
    <3> QED
      BY <1>1, <2>1, <3>1
  <2>4. CASE n = Master
    <3>1. \/ pc'[Master] = pc[Master]
          \/ pc'[Master] \in Dead /\ pc[Master] \notin Dead
          \/ /\ pc[Master] \in {"initialize", "trace", "barrier"}
             /\ pc'[Master] \in {"trace", "barrier", "verify"} \cup Dead
      BY <1>t, <1>2, <2>4 DEF Initialize, AfterInitialize, Trace, TraceThrows, Finally,
                              Kill, PassBarrier, Go, Dead
    <3> QED
      BY <1>1, <2>1, <3>1
  <2> QED
    BY <2>3, <2>4
<1>3. CASE UNCHANGED vars
  BY <1>1, <1>3 DEF vars
<1> QED
  BY <1>2, <1>3, MergeSorted DEF Next, Done

(***************************************************************************)
(* The merged file holds the rows in the order of the processes and, for   *)
(* each process, of its saving; whichever files fail to open.              *)
(***************************************************************************)
THEOREM MergeKeepsOrder == Spec => []MergedInOrder
<1>1. Init => FileInv /\ WholeInv /\ SortedInv
  <2> SUFFICES ASSUME Init PROVE FileInv /\ WholeInv /\ SortedInv
    OBVIOUS
  <2>1. FileInv
    BY DEF Init, FileInv, NoFile, WrittenFile
  <2>2. pc[Master] = "initialize" /\ out.rows = << >>
    BY NodeFacts DEF Init, NoFile, Leftover, NewFile, WrittenFile
  <2>3. WholeInv
    BY <2>2 DEF Init, WholeInv, Whole, NoFile, WrittenFile, Merging
  <2> QED
    BY <2>1, <2>2, <2>3 DEF SortedInv, MergedInOrder, Sorted, Dead
<1>2. SortedInv => MergedInOrder
  BY DEF SortedInv
<1>3. Spec => [](FileInv /\ WholeInv /\ SortedInv)
  BY <1>1, FileStep, WholeStep, SortedStep, BarrierHolds, MergeTypeCorrect, PTL DEF Spec
<1> QED
  BY <1>2, <1>3, PTL

---------------------------------------------------------------------------
(***************************************************************************)
(* Nothing but saved rows, and of the detector's types: the first pass has *)
(* found the same types in all inputs, which are those of any input that   *)
(* has a row, and the merged file is created with them.                    *)
(***************************************************************************)
Types == <<Detector, ReadoutType(Detector)>>
AllSaved == UNION {SavedBy(n) : n \in Nodes}
Copying == {"open", "copy", "remove", "finished"}

KindInv ==
    /\ \A n \in Nodes : HasDataset(file[n]) => KindOf(file[n]) = Types
    /\ pc[Master] \in {"initialize", "trace", "barrier"} => at = 0
    /\ pc[Master] = "verify" => \A n \in Nodes : n < at => KindOf(file[n]) = kind
    /\ pc[Master] \in Merging \ {"verify"} => \A n \in Nodes : KindOf(file[n]) = kind
    /\ pc[Master] \in Copying => /\ KindOf(out) = kind
                                 /\ Range(out.rows) \subseteq AllSaved
                                 /\ out.rows # << >> => kind = Types
    /\ pc[Master] = "copy" => /\ Range(left) \subseteq AllSaved
                              /\ left # << >> => kind = Types

(***************************************************************************)
(* A file that Writer has completed is read back with the types it was     *)
(* created with; adding a row does not change them.                        *)
(***************************************************************************)
LEMMA WrittenKind ==
    ASSUME NEW d \in DetectorTypes, NEW r \in Packable, NEW k,
           HasDataset(WrittenFile(d, r, k))
    PROVE  KindOf(WrittenFile(d, r, k)) = <<d, r>>
<1>1. {"dataset", "detector"} \subseteq WrittenFile(d, r, k).parts
  BY DEF HasDataset
<1> QED
  BY <1>1, NamesInverse DEF KindOf, DetectorOf, ReadoutOf, WrittenFile

LEMMA AppendedKind ==
    ASSUME NEW f \in AFile, NEW row
    PROVE  /\ HasDataset(AppendRow(f, row)) <=> HasDataset(f)
           /\ KindOf(AppendRow(f, row)) = KindOf(f)
<1>1. /\ AppendRow(f, row).parts = f.parts
      /\ AppendRow(f, row).detector = f.detector
      /\ AppendRow(f, row).readout = f.readout
  BY DEF AppendRow, AFile, EventFiles
<1> QED
  BY <1>1 DEF HasDataset, KindOf, DetectorOf, ReadoutOf

(***************************************************************************)
(* The rows of a complete input are those its process saved.               *)
(***************************************************************************)
LEMMA RowsNumbered ==
    ASSUME NEW s \in Seq(Rows), NEW n \in Nodes, NEW m \in Nat,
           \A k \in DOMAIN s : s[k] = <<n, k>> /\ k \in 1 .. m
    PROVE  Range(s) \subseteq {<<n, k>> : k \in 1 .. m}
  BY DEF Range

(***************************************************************************)
(* While processes save, only the types of their files can change.         *)
(***************************************************************************)
LEMMA NodeStepKind ==
    ASSUME TypeOK, BarrierInv, KindInv, NEW n \in Nodes,
           Initialize(n) \/ Trace(n) \/ TraceThrows(n)
    PROVE  KindInv'
<1>t. MergeTypes
  BY MergeTypesHold
<1>m. Master \in Nodes
  BY NodeFacts
<1> USE <1>t, <1>m DEF MergeTypes
<1>1. pc[n] \in {"initialize", "trace"} /\ at' = at
  BY DEF Initialize, Trace, TraceThrows, merge
<1>2. pc[Master] \notin Past
  BY <1>1 DEF BarrierInv, AtRest
<1>3. /\ pc'[Master] \notin Past
      /\ pc'[Master] \in {"initialize", "trace", "barrier"} =>
            pc[Master] \in {"initialize", "trace", "barrier"}
  BY <1>2 DEF Initialize, AfterInitialize, Trace, TraceThrows, Go, Past, Merging
<1>4. \A m \in Nodes : m # n => file'[m] = file[m]
  BY DEF Initialize, Trace, TraceThrows
<1>5. HasDataset(file'[n]) => KindOf(file'[n]) = Types
  <2>1. CASE Initialize(n)
    <3>1. \/ file'[n] = file[n]
          \/ \E k \in 1 .. 9 : file'[n] = WrittenFile(Detector, ReadoutType(Detector), k)
      BY <2>1 DEF Initialize, NewFile
    <3> QED
      BY <3>1, OwnTypes, WrittenKind DEF KindInv, Types
  <2>2. CASE Trace(n) \/ TraceThrows(n)
    <3>1. file[n] \in AFile /\ \E row : file'[n] = AppendRow(file[n], row)
      BY <2>2 DEF Trace, TraceThrows
    <3> QED
      BY <3>1, AppendedKind DEF KindInv
  <2> QED
    BY <2>1, <2>2
<1> QED
  BY <1>1, <1>3, <1>4, <1>5 DEF KindInv, Past, Merging, Copying

(***************************************************************************)
(* The first pass compares the types, the second copies what was saved.    *)
(***************************************************************************)
LEMMA MergeStepKind ==
    ASSUME SilentFailures = {}, TypeOK, FileInv, WholeInv, KeepInv, KindInv, MasterStep
    PROVE  KindInv'
<1>t. MergeTypes /\ kind \in DetectorTypes \X Packable
  BY MergeTypesHold DEF TypeOK
<1>m. Master \in Nodes /\ \A i \in Nodes : i \in Nat /\ i <= N - 1
  BY NodeFacts DEF Nodes
<1> USE <1>t, <1>m DEF MergeTypes, Go, Merging, Copying
<1>s. UNCHANGED saved => AllSaved' = AllSaved
  BY DEF AllSaved, SavedBy
<1>1. CASE Verify
  <2>1. /\ UNCHANGED <<file, saved, out, left>> /\ pc[Master] = "verify"
        /\ \A n \in Nodes : n < at => KindOf(file[n]) = kind
    BY <1>1 DEF Verify, KindInv
  <2>2. CASE pc'[Master] = "threw"
    BY <2>1, <2>2 DEF KindInv
  <2>3. CASE /\ at = 0 \/ KindOf(file[at]) = kind
             /\ kind' = KindOf(file[at])
             /\ at' = IF Last(at) THEN 0 ELSE at + 1
             /\ IF Last(at) THEN Go(Master, "create") ELSE UNCHANGED pc
    <3>1. \A n \in Nodes : n < at + 1 => KindOf(file[n]) = kind'
      <4> SUFFICES ASSUME NEW n \in Nodes, n < at + 1 PROVE KindOf(file[n]) = kind'
        OBVIOUS
      <4>1. CASE n = at
        BY <2>3, <4>1
      <4>2. CASE n < at
        BY <2>1, <2>3, <4>2
      <4> QED
        BY <4>1, <4>2
    <3>2. CASE Last(at)
      <4>1. pc'[Master] = "create" /\ \A n \in Nodes : n < at + 1
        BY <2>3, <3>2 DEF Last
      <4> QED
        BY <2>1, <3>1, <4>1 DEF KindInv
    <3>3. CASE ~Last(at)
      <4>1. pc'[Master] = "verify" /\ at' = at + 1
        BY <2>1, <2>3, <3>3
      <4> QED
        BY <2>1, <3>1, <4>1 DEF KindInv
    <3> QED
      BY <3>2, <3>3
  <2> QED
    BY <1>1, <2>2, <2>3 DEF Verify, Seen
<1>2. CASE Create
  <2>1. /\ pc[Master] = "create" /\ UNCHANGED <<file, saved, kind, left>>
        /\ \A n \in Nodes : KindOf(file[n]) = kind
    BY <1>2 DEF Create, KindInv
  <2>2. CASE pc'[Master] = "threw"
    BY <2>1, <2>2 DEF KindInv
  <2>3. CASE pc'[Master] = "open" /\ out' = NewFile(kind[1], kind[2])
    <3>1. HasDataset(out') /\ out' = WrittenFile(kind[1], kind[2], 9)
      BY <2>3, NewHasDataset DEF NewFile
    <3>2. KindOf(out') = kind
      <4>1. PICK d \in DetectorTypes, r \in Packable : kind = <<d, r>>
        OBVIOUS
      <4>2. out' = WrittenFile(d, r, 9) /\ HasDataset(WrittenFile(d, r, 9))
        BY <3>1, <4>1
      <4> QED
        BY <4>1, <4>2, WrittenKind
    <3>3. out'.rows = << >> /\ Range(out'.rows) = {}
      BY <3>1 DEF WrittenFile, Range
    <3> QED
      BY <2>1, <2>3, <3>2, <3>3 DEF KindInv
  <2> QED
    BY <1>2, <2>2, <2>3 DEF Create
<1>3. CASE OpenInput
  <2>1. /\ pc[Master] = "open" /\ UNCHANGED <<file, saved, kind, out, at>>
        /\ \A n \in Nodes : KindOf(file[n]) = kind
        /\ Whole(at)
    BY <1>3 DEF OpenInput, KindInv, WholeInv
  <2>2. CASE pc'[Master] = "threw"
    BY <2>1, <2>2 DEF KindInv
  <2>3. CASE pc'[Master] = "copy" /\ left' = RowsOf(file[at])
    <3>1. left' # << >> => kind = Types
      BY <2>1, <2>3 DEF RowsOf, KindInv
    <3>2. Range(left') \subseteq AllSaved
      <4>1. Range(file[at].rows) \subseteq SavedBy(at)
        <5>1. file[at].rows \in Seq(Rows) /\ Len(file[at].rows) = saved[at]
          BY <2>1, WholeSorted DEF Whole
        <5>2. \A k \in DOMAIN file[at].rows :
                 file[at].rows[k] = <<at, k>> /\ k \in 1 .. saved[at]
          BY <2>1, <5>1 DEF Whole
        <5>3. PICK s \in Seq(Rows), m \in Nat, n \in Nodes :
                 s = file[at].rows /\ m = saved[at] /\ n = at
          BY <5>1
        <5>4. \A k \in DOMAIN s : s[k] = <<n, k>> /\ k \in 1 .. m
          BY <5>2, <5>3
        <5>5. Range(s) \subseteq {<<n, k>> : k \in 1 .. m}
          BY <5>4, RowsNumbered
        <5> QED
          BY <5>3, <5>5 DEF SavedBy
      <4>2. Range(left') \subseteq Range(file[at].rows)
        BY <2>3 DEF RowsOf, Range
      <4> QED
        BY <4>1, <4>2 DEF AllSaved
    <3> QED
      BY <2>1, <2>3, <3>1, <3>2, <1>s DEF KindInv
  <2> QED
    BY <1>3, <2>2, <2>3 DEF OpenInput, Seen
<1>4. CASE CopyRow
  <2>1. /\ pc[Master] = "copy" /\ UNCHANGED <<pc, file, saved, kind, at>>
        /\ left # << >> /\ left' = Tail(left) /\ outOpen
        /\ out' = AppendRow(out, Head(left))
        /\ Range(left) \subseteq AllSaved /\ kind = Types
    BY <1>4 DEF CopyRow, KindInv, KeepInv
  <2>2. Head(left) \in Rows /\ Range(left) = {Head(left)} \cup Range(left')
    BY <2>1, RowsTaken
  <2>3. Range(out'.rows) = Range(out.rows) \cup {Head(left)}
    BY <2>1, <2>2, AppendRowFacts, RowsAppended, RowsTyped
  <2>4. KindOf(out') = KindOf(out)
    BY <2>1, AppendedKind
  <2> QED
    BY <2>1, <2>2, <2>3, <2>4, <1>s DEF KindInv
<1>5. CASE CopyThrows
  BY <1>5 DEF CopyThrows, KindInv
<1>6. CASE NextInput
  <2>1. /\ pc[Master] = "copy" /\ UNCHANGED <<file, saved, kind, out>>
        /\ pc'[Master] \in {"open", "remove", "finished"}
    BY <1>6 DEF NextInput
  <2> QED
    BY <2>1, <1>s DEF KindInv
<1>7. CASE RemoveInput
  <2>1. /\ pc[Master] = "remove" /\ pc'[Master] \in {"remove", "finished"}
        /\ UNCHANGED <<saved, kind, out>>
        /\ \A n \in Nodes : file'[n] = file[n] \/ file'[n] = NoFile
    BY <1>7 DEF RemoveInput
  <2>2. ~HasDataset(NoFile)
    BY DEF HasDataset, NoFile, WrittenFile, PartsUpTo
  <2> QED
    BY <2>1, <2>2, <1>s DEF KindInv
<1> QED
  BY <1>1, <1>2, <1>3, <1>4, <1>5, <1>6, <1>7 DEF MasterStep

(***************************************************************************)
(* No other step touches the merged file or the index.                     *)
(***************************************************************************)
LEMMA KindStep ==
    ASSUME SilentFailures = {}
    PROVE  TypeOK /\ BarrierInv /\ FileInv /\ WholeInv /\ KeepInv /\ KindInv /\ [Next]_vars
               => KindInv'
<1> SUFFICES ASSUME TypeOK, BarrierInv, FileInv, WholeInv, KeepInv, KindInv, [Next]_vars
             PROVE  KindInv'
  OBVIOUS
<1>t. pc \in [Nodes -> States] /\ Master \in Nodes
  BY MergeTypesHold, NodeFacts DEF MergeTypes
<1>1. ASSUME UNCHANGED <<file, saved, out, kind, at, left>>,
             \/ pc'[Master] = pc[Master]
             \/ pc'[Master] \in Dead
             \/ /\ pc[Master] \in {"trace", "barrier"}
                /\ pc'[Master] \in {"barrier", "verify"}
      PROVE  KindInv'
  <2>1. AllSaved' = AllSaved
    BY <1>1 DEF AllSaved, SavedBy
  <2>2. pc[Master] \in {"trace", "barrier"} => \A n \in Nodes : ~(n < at)
    BY NodeFacts DEF KindInv
  <2> QED
    BY <1>1, <2>1, <2>2 DEF KindInv, Dead, Merging, Copying
<1>2. ASSUME NEW n \in Nodes, Finally(n) \/ Kill(n) \/ PassBarrier(n) PROVE KindInv'
  <2>1. UNCHANGED <<file, saved, out, kind, at, left>>
    BY <1>2 DEF Finally, Kill, PassBarrier, merge
  <2>2. \/ pc'[Master] = pc[Master]
        \/ pc'[Master] \in Dead
        \/ /\ pc[Master] \in {"trace", "barrier"}
           /\ pc'[Master] \in {"barrier", "verify"}
    BY <1>t, <1>2 DEF Finally, Kill, PassBarrier, Go, Dead
  <2> QED
    BY <1>1, <2>1, <2>2
<1>3. CASE UNCHANGED vars
  BY <1>1, <1>3 DEF vars, merge
<1> QED
  BY <1>2, <1>3, NodeStepKind, MergeStepKind DEF Next, Done

(***************************************************************************)
(* A merge that ends without an exception has merged every saved row and   *)
(* nothing else, into a file of the detector's types, for every number of  *)
(* processes and rows, as long as no file fails to open silently.          *)
(***************************************************************************)
THEOREM MergeIsComplete ==
    ASSUME SilentFailures = {}
    PROVE  Spec => []MergedIsAll
<1>1. Init => FileInv /\ WholeInv /\ KeepInv /\ KindInv
  <2> SUFFICES ASSUME Init PROVE FileInv /\ WholeInv /\ KeepInv /\ KindInv
    OBVIOUS
  <2>1. \A n \in Nodes : SavedBy(n) = {}
    BY DEF Init, SavedBy
  <2>2. FileInv /\ \A n \in Nodes : ~HasDataset(file[n])
    BY DEF Init, FileInv, HasDataset, NoFile, WrittenFile, PartsUpTo
  <2>3. pc[Master] = "initialize"
    BY NodeFacts DEF Init
  <2>4. WholeInv
    BY <2>3 DEF Init, WholeInv, Whole, NoFile, WrittenFile, Merging
  <2>5. KeepInv
    BY <2>1, <2>3 DEF KeepInv, AllInFiles
  <2>6. KindInv
    BY <2>2, <2>3 DEF Init, KindInv, Merging, Copying
  <2> QED
    BY <2>2, <2>4, <2>5, <2>6
<1>2. KeepInv /\ KindInv => MergedIsAll
  BY DEF KeepInv, KindInv, AllMerged, AllSaved, Types, Copying, MergedIsAll
<1>3. Spec => [](FileInv /\ WholeInv /\ KeepInv /\ KindInv)
  BY <1>1, FileStep, WholeStep, KeepStep, KindStep, BarrierHolds, MergeTypeCorrect, PTL
     DEF Spec
<1> QED
  BY <1>2, <1>3, PTL
=============================================================================
