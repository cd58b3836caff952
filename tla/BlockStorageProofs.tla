------------------------- MODULE BlockStorageProofs -------------------------
(***************************************************************************)
(* What becomes of the blocks that the ledger knows, for any tree of blocks*)
(* and any number of stops and errors. Each keeps a header and a whole file*)
(* and can be read unless a torn file is in the way; that cannot be if the *)
(* node is always started with the same -compress flag, nor if no write is *)
(* cut short.                                                              *)
(***************************************************************************)
EXTENDS BlockStorage, TLAPS

\* The steps of Store, with the block they are about.
StoringOK ==
    /\ storing \in ID \X {"idle", "open", "write", "put", "ledger"}
    /\ storing[2] # "idle" => storing[1] \in Block \ known

TypeInv ==
    /\ file \in [ID -> [Ext -> {"none", "torn", "whole"}]]
    /\ headers \subseteq ID /\ known \subseteq ID
    /\ compress \in CompressFlags
    /\ StoringOK

\* Past its write, a block's file is whole; past the header's put, it has both.
Progress ==
    /\ storing[2] \in {"put", "ledger"} => file[storing[1]][ext(compress)] = "whole"
    /\ storing[2] = "ledger" => storing[1] \in headers
    /\ known \subseteq headers

\* With one flag only the files of its extension matter.
OneFlagInv ==
    /\ TypeInv /\ Progress
    /\ \A b \in known : file[b][ext(compress)] = "whole"

\* A known block's whole file is never opened again, whatever the flags.
WholeInv ==
    /\ TypeInv /\ Progress
    /\ \A b \in known : \E e \in Ext : file[b][e] = "whole"

\* With no write cut short, only the file being written is not whole.
NoTearInv ==
    /\ WholeInv
    /\ \A b \in ID, e \in Ext : file[b][e] = "torn" => storing = <<b, "write">> /\ e = ext(compress)

\* ext yields one of the two extensions, and both occur.
LEMMA ExtType ==
    ASSUME NEW flag \in BOOLEAN
    PROVE  ext(flag) \in Ext /\ \A e \in Ext : e = ext(flag) \/ e = ext(~flag)
  BY DEF ext, Ext

\* A new data directory satisfies the invariants.
LEMMA InitEstablishes == Init => OneFlagInv /\ WholeInv /\ NoTearInv
  <1> SUFFICES ASSUME Init PROVE OneFlagInv /\ WholeInv /\ NoTearInv
    OBVIOUS
  <1>1. TypeInv
    BY BlockStorageAssumption DEF Init, TypeInv, StoringOK, Idle, ID
  <1>2. Progress
    BY DEF Init, Progress, Idle
  <1>3. ext(compress) \in Ext
    BY <1>1, BlockStorageAssumption, ExtType DEF TypeInv
  <1> QED
    BY <1>1, <1>2, <1>3 DEF Init, OneFlagInv, WholeInv, NoTearInv, ID

\* The tables keep their types, and a block is stored only while the ledger does
\* not know it.
LEMMA TypePreserved == TypeInv /\ [Next]_vars => TypeInv'
  <1> SUFFICES ASSUME TypeInv, [Next]_vars PROVE TypeInv'
    OBVIOUS
  <1> USE BlockStorageAssumption, ExtType DEF TypeInv, StoringOK, ID, Idle
  <1>1. CASE UNCHANGED vars
    BY <1>1 DEF vars
  <1>2. CASE \E b \in Block : processBlock(b)
    BY <1>2 DEF processBlock
  <1>3. CASE \E b \in Block : openFile(b)
    BY <1>3 DEF openFile
  <1>4. CASE \E b \in Block : writeAndSync(b)
    BY <1>4 DEF writeAndSync
  <1>5. CASE \E b \in Block : putHeader(b)
    BY <1>5 DEF putHeader
  <1>6. CASE \E b \in Block : acceptBlockContinue(b)
    BY <1>6 DEF acceptBlockContinue
  <1>7. CASE \E b \in Block : storeError(b)
    BY <1>7 DEF storeError
  <1>8. CASE restart
    BY <1>8 DEF restart
  <1> QED
    BY <1>1, <1>2, <1>3, <1>4, <1>5, <1>6, <1>7, <1>8 DEF Next

\* Store's order: the file before the header, the header before the ledger.
LEMMA ProgressPreserved == TypeInv /\ Progress /\ [Next]_vars => Progress'
  <1> SUFFICES ASSUME TypeInv, Progress, [Next]_vars PROVE Progress'
    OBVIOUS
  <1> USE BlockStorageAssumption, ExtType DEF TypeInv, StoringOK, Progress, ID, Idle
  <1>1. CASE UNCHANGED vars
    BY <1>1 DEF vars
  <1>2. CASE \E b \in Block : processBlock(b)
    BY <1>2 DEF processBlock
  <1>3. CASE \E b \in Block : openFile(b)
    BY <1>3 DEF openFile
  <1>4. CASE \E b \in Block : writeAndSync(b)
    BY <1>4 DEF writeAndSync
  <1>5. CASE \E b \in Block : putHeader(b)
    BY <1>5 DEF putHeader
  <1>6. CASE \E b \in Block : acceptBlockContinue(b)
    BY <1>6 DEF acceptBlockContinue
  <1>7. CASE \E b \in Block : storeError(b)
    BY <1>7 DEF storeError
  <1>8. CASE restart
    BY <1>8 DEF restart
  <1> QED
    BY <1>1, <1>2, <1>3, <1>4, <1>5, <1>6, <1>7, <1>8 DEF Next

\* With one flag, a known block's file of that extension is never opened again.
LEMMA OneFlagPreserved ==
    ASSUME NEW flag \in BOOLEAN, CompressFlags = {flag}
    PROVE  OneFlagInv /\ [Next]_vars => OneFlagInv'
  <1> SUFFICES ASSUME OneFlagInv, [Next]_vars
               PROVE  \A b \in known' : file'[b][ext(compress')] = "whole"
    BY TypePreserved, ProgressPreserved DEF OneFlagInv
  <1> USE ExtType DEF OneFlagInv, TypeInv, StoringOK, Progress, ID, Idle
  <1>0. compress = flag /\ compress' = flag
    BY TypePreserved
  <1>1. CASE UNCHANGED vars
    BY <1>1 DEF vars
  <1>2. CASE \E b \in Block : processBlock(b)
    BY <1>0, <1>2 DEF processBlock
  <1>3. CASE \E b \in Block : openFile(b)
    BY <1>0, <1>3 DEF openFile
  <1>4. CASE \E b \in Block : writeAndSync(b)
    BY <1>0, <1>4 DEF writeAndSync
  <1>5. CASE \E b \in Block : putHeader(b)
    BY <1>0, <1>5 DEF putHeader
  <1>6. CASE \E b \in Block : acceptBlockContinue(b)
    BY <1>0, <1>6 DEF acceptBlockContinue
  <1>7. CASE \E b \in Block : storeError(b)
    BY <1>0, <1>7 DEF storeError
  <1>8. CASE restart
    BY <1>0, <1>8 DEF restart
  <1> QED
    BY <1>1, <1>2, <1>3, <1>4, <1>5, <1>6, <1>7, <1>8 DEF Next

\* The file that Store opens and truncates is that of a block not known yet.
LEMMA WholePreserved == WholeInv /\ [Next]_vars => WholeInv'
  <1> SUFFICES ASSUME WholeInv, [Next]_vars
               PROVE  \A b \in known' : \E e \in Ext : file'[b][e] = "whole"
    BY TypePreserved, ProgressPreserved DEF WholeInv
  <1> USE BlockStorageAssumption, ExtType DEF WholeInv, TypeInv, StoringOK, Progress, ID, Idle
  <1>0. ext(compress) \in Ext
    OBVIOUS
  <1>1. CASE UNCHANGED vars
    BY <1>1 DEF vars
  <1>2. CASE \E b \in Block : processBlock(b)
    BY <1>0, <1>2 DEF processBlock
  <1>3. CASE \E b \in Block : openFile(b)
    BY <1>0, <1>3 DEF openFile
  <1>4. CASE \E b \in Block : writeAndSync(b)
    BY <1>0, <1>4 DEF writeAndSync
  <1>5. CASE \E b \in Block : putHeader(b)
    BY <1>0, <1>5 DEF putHeader
  <1>6. CASE \E b \in Block : acceptBlockContinue(b)
    BY <1>0, <1>6 DEF acceptBlockContinue
  <1>7. CASE \E b \in Block : storeError(b)
    BY <1>0, <1>7 DEF storeError
  <1>8. CASE restart
    BY <1>0, <1>8 DEF restart
  <1> QED
    BY <1>1, <1>2, <1>3, <1>4, <1>5, <1>6, <1>7, <1>8 DEF Next

\* With no write cut short, a torn file is one that is being written.
LEMMA NoTearPreserved ==
    ASSUME "write" \notin FaultSteps
    PROVE  NoTearInv /\ [Next]_vars => NoTearInv'
  <1> DEFINE Torn == \A b \in ID, e \in Ext :
                        file[b][e] = "torn" => storing = <<b, "write">> /\ e = ext(compress)
  <1> SUFFICES ASSUME NoTearInv, [Next]_vars PROVE Torn'
    BY WholePreserved DEF NoTearInv
  <1> USE BlockStorageAssumption, ExtType
      DEF NoTearInv, WholeInv, TypeInv, StoringOK, Progress, ID, Idle
  <1>0. ext(compress) \in Ext
    OBVIOUS
  <1>1. CASE UNCHANGED vars
    BY <1>1 DEF vars
  <1>2. CASE \E b \in Block : processBlock(b)
    BY <1>0, <1>2 DEF processBlock
  <1>3. CASE \E b \in Block : openFile(b)
    BY <1>0, <1>3 DEF openFile
  <1>4. CASE \E b \in Block : writeAndSync(b)
    BY <1>0, <1>4 DEF writeAndSync
  <1>5. CASE \E b \in Block : putHeader(b)
    BY <1>0, <1>5 DEF putHeader
  <1>6. CASE \E b \in Block : acceptBlockContinue(b)
    BY <1>0, <1>6 DEF acceptBlockContinue
  <1>7. CASE \E b \in Block : storeError(b)
    BY <1>0, <1>7 DEF storeError
  <1>8. CASE restart
    BY <1>0, <1>8 DEF restart
  <1> QED
    BY <1>1, <1>2, <1>3, <1>4, <1>5, <1>6, <1>7, <1>8 DEF Next

\* Wherever Store is interrupted and whatever flags the node is started with, a
\* block that the ledger knows has its header and a whole file, and it can be read
\* unless the file that GetBlockBytes tries first is torn.
THEOREM WholeUnlessTorn == Spec => []ReadableUnlessTorn
  <1>1. WholeInv => ReadableUnlessTorn
    <2> SUFFICES ASSUME WholeInv, NEW b \in known
                 PROVE  /\ b \in headers
                        /\ \E e \in Ext : file[b][e] = "whole"
                        /\ GetBlock(b) = {b} \/ file[b][ext(compress)] = "torn"
      BY DEF ReadableUnlessTorn
    <2>1. b \in headers /\ \E e \in Ext : file[b][e] = "whole"
      BY DEF WholeInv, Progress
    <2>2. compress \in BOOLEAN /\ b \in ID
      BY BlockStorageAssumption DEF WholeInv, TypeInv
    <2>3. file[b][ext(compress)] \in {"none", "torn", "whole"}
      BY <2>2, ExtType DEF WholeInv, TypeInv
    <2>4. file[b][ext(compress)] # "torn" => GetBlockBytes(b) = "whole"
      BY <2>1, <2>2, <2>3, ExtType DEF GetBlockBytes
    <2> QED
      BY <2>1, <2>4 DEF GetBlock
  <1> QED
    BY <1>1, InitEstablishes, WholePreserved, PTL DEF Spec

\* A node that is always started with the same -compress flag can read every block
\* that its ledger knows, wherever Store is interrupted.
THEOREM ReadableWithOneFlag ==
    ASSUME NEW flag \in BOOLEAN, CompressFlags = {flag}
    PROVE  Spec => []KnownIsReadable
  <1>1. OneFlagInv => KnownIsReadable
    BY ExtType, BlockStorageAssumption
    DEF OneFlagInv, Progress, TypeInv, KnownIsReadable, GetBlock, GetBlockBytes
  <1> QED
    BY <1>1, InitEstablishes, OneFlagPreserved, PTL DEF Spec

\* So can one that is started with either flag in turn, if no write is cut short.
THEOREM ReadableWithWholeWrites ==
    ASSUME "write" \notin FaultSteps
    PROVE  Spec => []KnownIsReadable
  <1>1. NoTearInv => KnownIsReadable
    <2> SUFFICES ASSUME NoTearInv, NEW b \in known PROVE GetBlock(b) = {b} /\ b \in headers
      BY DEF KnownIsReadable
    <2>1. compress \in BOOLEAN /\ b \in ID
      BY BlockStorageAssumption DEF NoTearInv, WholeInv, TypeInv
    <2>2. \A e \in Ext : file[b][e] # "torn"
      BY <2>1 DEF NoTearInv, WholeInv, TypeInv, StoringOK
    <2>3. GetBlockBytes(b) = "whole"
      BY <2>1, <2>2, ExtType DEF NoTearInv, WholeInv, TypeInv, GetBlockBytes
    <2> QED
      BY <2>3 DEF GetBlock, NoTearInv, WholeInv, Progress
  <1> QED
    BY <1>1, InitEstablishes, NoTearPreserved, PTL DEF Spec
=============================================================================
