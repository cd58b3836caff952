---------------------------- MODULE BlockStorage ----------------------------
(***************************************************************************)
(* The disk under the processor (block_storage_disk.go): a file for each   *)
(* block, compressed or not, and a database of headers, written one after  *)
(* the other before the ledger learns of the block (processor.go). Writes  *)
(* may fail, the node may stop between any two steps, and it is started    *)
(* again with or without -compress.                                        *)
(***************************************************************************)
EXTENDS Naturals

CONSTANTS
    Block,          \* the blocks other than genesis
    Previous,       \* their parents
    Genesis,
    CompressFlags,  \* the values of -compress that the node is started with
    FaultSteps,     \* the steps before which a stop or an error may happen
    MaxFaults       \* bound on stops and errors

ASSUME BlockStorageAssumption ==
    /\ Genesis \notin Block
    /\ Previous \in [Block -> Block \cup {Genesis}]
    /\ CompressFlags \subseteq BOOLEAN /\ CompressFlags # {}
    /\ MaxFaults \in Nat

VARIABLES
    file,       \* by block and extension: "none", "torn" or "whole"
    headers,    \* the blocks that have a header in the database
    known,      \* the blocks with a branch type in the ledger
    compress,   \* the flag of this run
    storing,    \* <<block, next step>> of the processor, or Idle
    faults

vars == <<file, headers, known, compress, storing, faults>>

ID == Block \cup {Genesis}
Ext == {".json", ".lz4"}
Idle == <<Genesis, "idle">>

ext(flag) == IF flag THEN ".lz4" ELSE ".json"

\* A new data directory: genesis is processed before anything else.
Init ==
    /\ compress \in CompressFlags
    /\ file = [b \in ID |-> [e \in Ext |-> IF b = Genesis /\ e = ext(compress) THEN "whole" ELSE "none"]]
    /\ headers = {Genesis} /\ known = {Genesis}
    /\ storing = Idle /\ faults = 0

-----------------------------------------------------------------------------
(* Reading *)

GetBlockBytes(b) ==
    IF file[b][ext(compress)] # "none" THEN file[b][ext(compress)] ELSE file[b][ext(~compress)]

\* The block, if there is a file that unmarshals.
GetBlock(b) == IF GetBlockBytes(b) = "whole" THEN {b} ELSE {}

-----------------------------------------------------------------------------
(* The processor takes a block whose parent it has processed *)

\* Mutant: blocks are stored again.
processBlockAgain(b) ==
    /\ storing = Idle
    /\ Previous[b] \in known
    /\ storing' = <<b, "open">>
    /\ UNCHANGED <<file, headers, known, compress, faults>>

processBlock(b) ==
    /\ storing = Idle
    /\ b \notin known
    /\ Previous[b] \in known
    /\ storing' = <<b, "open">>
    /\ UNCHANGED <<file, headers, known, compress, faults>>

\* O_TRUNC: what the file held is gone.
openFile(b) ==
    /\ storing = <<b, "open">>
    /\ file' = [file EXCEPT ![b][ext(compress)] = "torn"]
    /\ storing' = <<b, "write">>
    /\ UNCHANGED <<headers, known, compress, faults>>

writeAndSync(b) ==
    /\ storing = <<b, "write">>
    /\ file' = [file EXCEPT ![b][ext(compress)] = "whole"]
    /\ storing' = <<b, "put">>
    /\ UNCHANGED <<headers, known, compress, faults>>

putHeader(b) ==
    /\ storing = <<b, "put">>
    /\ headers' = headers \cup {b}
    /\ storing' = <<b, "ledger">>
    /\ UNCHANGED <<file, known, compress, faults>>

\* ConnectBlock or SetBranchType(SIDE); a block that does not connect stays unknown.
acceptBlockContinue(b) ==
    /\ storing = <<b, "ledger">>
    /\ known' \in {known, known \cup {b}}
    /\ storing' = Idle
    /\ UNCHANGED <<file, headers, compress, faults>>

\* Store returns an error, and so does ProcessBlock.
storeError(b) ==
    /\ storing \in {<<b, "open">>, <<b, "write">>, <<b, "put">>}
    /\ storing[2] \in FaultSteps /\ faults < MaxFaults
    /\ faults' = faults + 1
    /\ storing' = Idle
    /\ UNCHANGED <<file, headers, known, compress>>

\* The node stops at any point and is started again; genesis is known already.
restart ==
    /\ storing[2] \in FaultSteps /\ faults < MaxFaults
    /\ faults' = faults + 1
    /\ compress' \in CompressFlags
    /\ storing' = Idle
    /\ UNCHANGED <<file, headers, known>>

Next ==
    \/ \E b \in Block :
        \/ processBlock(b) \/ openFile(b) \/ writeAndSync(b)
        \/ putHeader(b) \/ acceptBlockContinue(b) \/ storeError(b)
    \/ restart

Spec == Init /\ [][Next]_vars

-----------------------------------------------------------------------------
(* Properties *)

\* Whatever stops or fails in between, a block that the ledger knows can be read
\* with its header: a reorganization needs it, and no peer is asked for it again.
KnownIsReadable == \A b \in known : GetBlock(b) = {b} /\ b \in headers

\* So it is but for one case: a write was cut short, the block was stored later
\* by a run with the other flag, and the file that is left of the first write has
\* the extension that GetBlockBytes tries first. Even then a whole file is there.
ReadableUnlessTorn ==
    \A b \in known :
        /\ b \in headers
        /\ \E e \in Ext : file[b][e] = "whole"
        /\ GetBlock(b) = {b} \/ file[b][ext(compress)] = "torn"
=============================================================================
