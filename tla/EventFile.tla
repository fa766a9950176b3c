----------------------------- MODULE EventFile -----------------------------
(***************************************************************************)
(* An event file, as the constructor of Writer (lib/writer.h) leaves it    *)
(* and as the constructor of Reader (lib/reader.h) understands it.         *)
(*                                                                         *)
(* A file is a record: the parts the writer has put in it, the text of the *)
(* attributes detector and readout, and the rows of the dataset.  Of HDF5  *)
(* only this remains.  A file that is not there has no parts.              *)
(***************************************************************************)
EXTENDS Integers, Sequences, ReadoutTypes

(***************************************************************************)
(* The constructor of Writer opens the file, commits the data type,        *)
(* creates the dataset and then the attributes.  An exception on the way   *)
(* leaves what was created before it.                                      *)
(***************************************************************************)
WriterParts == <<"file", "type", "dataset", "program", "version", "revision",
                 "events", "detector", "readout">>

PartsUpTo(k) == {WriterParts[i] : i \in 1 .. k}
AllParts == PartsUpTo(9)

PackableNames == {readoutType_name(r) : r \in Packable}

EventFiles(R) == [parts : SUBSET AllParts, detector : DetectorNames,
                  readout : PackableNames, rows : Seq(R)]

WrittenFile(detector, readout, k) ==
    [parts |-> PartsUpTo(k), detector |-> detectorType_name(detector),
     readout |-> readoutType_name(readout), rows |-> << >>]

NewFile(detector, readout) == WrittenFile(detector, readout, 9)
NoFile == WrittenFile("Reserved", "CAEN", 0)

Exists(file) == "file" \in file.parts

(***************************************************************************)
(* saveReadout: the dataset grows by one row.                              *)
(***************************************************************************)
AppendRow(file, row) == [file EXCEPT !.rows = Append(@, row)]

---------------------------------------------------------------------------
(***************************************************************************)
(* Reader refuses a file that libreadout did not write.  A file that       *)
(* cannot be opened, or whose dataset or types cannot be read, gives an    *)
(* empty reader instead, with the default types.  The handler for the      *)
(* types takes exceptions of HDF5 only: a name that another version of     *)
(* libreadout has written, and this one does not know, goes past it.       *)
(***************************************************************************)
HasDataset(file) == {"dataset", "detector", "readout"} \subseteq file.parts

UnknownTypes(file) ==
    \/ {"dataset", "detector"} \subseteq file.parts /\ file.detector \notin DetectorNames
    \/ HasDataset(file) /\ file.readout \notin ReadoutNames

ReaderThrows(file) ==
    /\ Exists(file)
    /\ \/ ~({"program", "version", "events"} \subseteq file.parts)
       \/ UnknownTypes(file)
       \/ HasDataset(file) /\ "type" \notin file.parts

DetectorOf(file) == IF {"dataset", "detector"} \subseteq file.parts
                    THEN detectorType_from_name(file.detector) ELSE "Reserved"

\* Slip: the default is that of the detector.
ReadoutOfUndefined(file) == IF HasDataset(file)
                            THEN readoutType_from_name(file.readout) ELSE "Reserved"

ReadoutOf(file) == IF HasDataset(file)
                   THEN readoutType_from_name(file.readout) ELSE "CAEN"
RowsOf(file) == IF HasDataset(file) THEN file.rows ELSE << >>
=============================================================================
