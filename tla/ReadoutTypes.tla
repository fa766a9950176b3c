---------------------------- MODULE ReadoutTypes ----------------------------
(***************************************************************************)
(* Detector types, the readout type each one produces (lib/enums) and the  *)
(* sizes in bytes of what is packed into a datagram (lib/Structs.h).       *)
(***************************************************************************)
EXTENDS Integers

CaenDetectors == {"LOKI", "BIFROST", "MIRACLES", "CSPEC"}
Vmm3Detectors == {"NMX", "FREIA", "TREX"}

DetectorTypes ==
    CaenDetectors \cup Vmm3Detectors
                  \cup {"Reserved", "TTLMonitor", "DREAM", "MAGIC"}

(***************************************************************************)
(* readoutType_from_detectorType: Reserved has no readout type, the code   *)
(* throws; the others of lib/enums.h:29-41 have one.                       *)
(***************************************************************************)
HasReadoutType(d) == d # "Reserved"

ReadoutType(d) == CASE d \in CaenDetectors -> "CAEN"
                    [] d \in Vmm3Detectors -> "VMM3"
                    [] OTHER -> d

(***************************************************************************)
(* The types the dispatchers know how to put in a packet or a file: for    *)
(* any other the `default' branch throws, and so does the mapping above.   *)
(***************************************************************************)
Packable == {"CAEN", "TTLMonitor", "DREAM", "VMM3"}
Supported(d) == HasReadoutType(d) /\ ReadoutType(d) \in Packable

---------------------------------------------------------------------------
(***************************************************************************)
(* The types as text, the way a file keeps them.  The conversions back     *)
(* throw for a text that is not the name of a type.                        *)
(***************************************************************************)
detectorType_name(d) == <<"DetectorType", d>>
readoutType_name(r) == <<"ReadoutType", r>>

DetectorNames == {detectorType_name(d) : d \in DetectorTypes}
ReadoutNames == {readoutType_name(r) : r \in Packable \cup {"MAGIC"}}

\* Slip: one line returns the type of the line above it.
detectorType_copied(name) == IF name[2] = "CSPEC" THEN "MIRACLES" ELSE name[2]

detectorType_from_name(name) ==
    CHOOSE d \in DetectorTypes : detectorType_name(d) = name
readoutType_from_name(name) ==
    CHOOSE r \in Packable \cup {"MAGIC"} : readoutType_name(r) = name

---------------------------------------------------------------------------
(***************************************************************************)
(* The structures are packed: their sizes are the sums of their fields'.   *)
(* Every record starts with Ring, FEN, Length, TimeHigh and TimeLow.       *)
(***************************************************************************)
HeaderSize == 2 * 1 + 4 + 2 + 2 * 1 + 5 * 4
RecordPrefix == 2 * 1 + 2 + 2 * 4

RecordSize(type) == CASE type = "CAEN"       -> RecordPrefix + 2 * 1 + 5 * 2
                      [] type = "TTLMonitor" -> RecordPrefix + 2 * 1 + 2
                      [] type = "DREAM"      -> RecordPrefix + 4 * 1
                      [] type = "VMM3"       -> RecordPrefix + 2 * 2 + 4 * 1
=============================================================================
