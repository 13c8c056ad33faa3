-------------------------- MODULE BootloaderProofs --------------------------
(***************************************************************************)
(* Proofs about the bootloader, for any set of images and any number of    *)
(* blocks: what boots is recorded, it boots again while nothing changes,   *)
(* and a crash does not lead back to it.                                   *)
(***************************************************************************)
EXTENDS Bootloader, TLAPS

(* What the check accepts without storing anything.                        *)
Sound == flash[1] # "blank" /\ \A b \in Blocks : flash[b] # "ecc"
Known == version = BuildId \/ BuildId = "noId"
Good == Sound /\ Known /\ crc = flash

(* Between the verdict and the application.                                *)
FlowInv ==
  /\ pc \in {"storeVersion", "storeCRC", "boot"} => Sound
  /\ pc = "storeCRC" => recorded # "both" /\ (recorded = "version" => version = BuildId)
  /\ pc = "boot" => recorded = "none" \/ Good
  /\ pc \in {"erase", "write"} => incoming \in Images
  /\ pc = "write" => ran = None

(* What booted has at most decayed since, and if its stores worked and it  *)
(* has not decayed, the check accepts it as it is.                         *)
RanInv ==
  /\ ran # None => \A b \in Blocks :
                    flash[b] = ran[b] \/ (flash[b] \in Decayed /\ ran[b] \in Images)
  /\ ran = flash /\ recorded = "both" => Good

Inv == BootTypeOK /\ FlowInv /\ RanInv

-----------------------------------------------------------------------------

(* A blank partition and an empty store satisfy the invariant.             *)
LEMMA InitInv == BootInit => Inv
<1>1. SUFFICES ASSUME BootInit PROVE Inv
  OBVIOUS
<1>2. flash \in Contents
  BY <1>1 DEF BootInit, Contents, Cell
<1>3. BootTypeOK
  BY <1>1, <1>2, BootAssumption DEF BootInit, BootTypeOK, PCs, Blocks
<1>4. FlowInv /\ RanInv
  BY <1>1 DEF BootInit, FlowInv, RanInv
<1> QED
  BY <1>3, <1>4 DEF Inv

(* Steps that change neither the partition, the store nor what ran.        *)
LEMMA Untouched ==
  ASSUME Inv, UNCHANGED <<flash, kvs, ran, recorded>>
  PROVE  RanInv' /\ (pc' \notin {"storeVersion", "storeCRC", "boot", "erase", "write"} => FlowInv')
BY DEF Inv, RanInv, FlowInv, Good, Sound, Known, BuildId, kvs

(* Every step keeps the types.                                             *)
LEMMA NextTypeOK == Inv /\ [BootNext]_bootVars => BootTypeOK'
<1> SUFFICES ASSUME BootTypeOK, FlowInv, [BootNext]_bootVars PROVE BootTypeOK'
  BY DEF Inv
<1>0. 1 \in Blocks /\ \A i \in Images : i \in Cell
  BY BootAssumption DEF Blocks, Cell
<1> USE DEF BootTypeOK, PCs
<1>1. CASE CheckResetReason
  BY <1>1 DEF CheckResetReason, kvs
<1>2. CASE Validate
  BY <1>2 DEF Validate, kvs
<1>3. CASE StoreVersion
  BY <1>0, <1>3 DEF StoreVersion, BuildId, Contents
<1>4. CASE StoreCRC
  BY <1>4 DEF StoreCRC, NewCRC
<1>5. CASE BootApplication
  BY <1>5 DEF BootApplication, kvs
<1>6. ASSUME NEW i \in Images, StartUpdate(i) PROVE BootTypeOK'
  BY <1>0, <1>6 DEF StartUpdate, kvs
<1>7. CASE EraseBlock
  <2>1. flash' \in Contents
    BY <1>7 DEF EraseBlock, Contents, Cell
  <2>2. k' \in Blocks
    BY <1>7, BootAssumption DEF EraseBlock, Blocks, LastBlock
  <2> QED
    BY <1>7, <2>1, <2>2 DEF EraseBlock, kvs
<1>8. CASE WriteBlock
  <2>1. PICK b \in Blocks : flash' = [flash EXCEPT ![b] = incoming]
    BY <1>8 DEF WriteBlock
  <2>2. flash' \in Contents
    BY <1>0, <1>8, <2>1 DEF WriteBlock, FlowInv, Contents
  <2> QED
    BY <1>8, <2>2 DEF WriteBlock, kvs
<1>9. CASE AppResets
  BY <1>0, <1>9 DEF AppResets, Restarted, kvs
<1>10. CASE PowerLoss
  BY <1>0, <1>10 DEF PowerLoss, Restarted, kvs
<1>11. ASSUME NEW i \in Images, JtagFlash(i) PROVE BootTypeOK'
  BY <1>0, <1>11 DEF JtagFlash, Restarted, kvs, Contents
<1>12. ASSUME NEW b \in MayDecay, Decay(b) PROVE BootTypeOK'
  <2>1. flash' \in Contents
    BY <1>12, BootAssumption DEF Decay, Contents, Cell, Decayed
  <2> QED
    BY <1>12, <2>1 DEF Decay, kvs
<1>13. CASE UNCHANGED bootVars
  BY <1>13 DEF bootVars
<1> QED
  BY <1>1, <1>2, <1>3, <1>4, <1>5, <1>6, <1>7, <1>8, <1>9, <1>10, <1>11, <1>12, <1>13
  DEF BootNext

(* Every step keeps what is known of the flow and of what ran.             *)
LEMMA NextInv == Inv /\ [BootNext]_bootVars => FlowInv' /\ RanInv'
<1> SUFFICES ASSUME Inv, [BootNext]_bootVars PROVE FlowInv' /\ RanInv'
  OBVIOUS
<1>0. BootTypeOK /\ FlowInv /\ RanInv /\ BootTypeOK' /\ 1 \in Blocks
  BY NextTypeOK, BootAssumption DEF Inv, Blocks
<1>1. CASE CheckResetReason
  <2>1. pc' \notin {"storeVersion", "storeCRC", "boot", "erase", "write"}
    BY <1>1 DEF CheckResetReason
  <2> QED
    BY <1>1, <2>1, Untouched DEF CheckResetReason
<1>2. CASE Validate
  <2>1. CASE pc' = "boot"
    <3>1. Good
      BY <1>2, <2>1 DEF Validate, Good, Sound, Known, IsAppUpdated, BuildId, CRCMatches
    <3> QED
      BY <1>0, <1>2, <2>1, <3>1
      DEF Validate, FlowInv, RanInv, Good, Sound, Known, BuildId, kvs
  <2>2. CASE pc' = "storeVersion"
    <3>1. Sound
      BY <1>2, <2>2 DEF Validate, Sound
    <3> QED
      BY <1>0, <1>2, <2>2, <3>1
      DEF Validate, FlowInv, RanInv, Good, Sound, Known, BuildId, kvs
  <2>3. CASE pc' = "dfu"
    BY <1>2, <2>3, Untouched DEF Validate
  <2> QED
    BY <1>2, <2>1, <2>2, <2>3 DEF Validate
<1>3. CASE StoreVersion
  BY <1>0, <1>3 DEF StoreVersion, FlowInv, RanInv, Sound, BuildId
<1>4. CASE StoreCRC
  <2>1. Sound' /\ (recorded' = "none" \/ Good')
    BY <1>0, <1>4 DEF StoreCRC, NewCRC, FlowInv, Good, Sound, Known, BuildId
  <2> QED
    BY <1>0, <1>4, <2>1 DEF StoreCRC, FlowInv, RanInv
<1>5. CASE BootApplication
  BY <1>0, <1>5 DEF BootApplication, FlowInv, RanInv, Good, Sound, Known, BuildId, kvs
<1>6. ASSUME NEW i \in Images, StartUpdate(i) PROVE FlowInv' /\ RanInv'
  <2>1. RanInv'
    BY <1>6, Untouched DEF StartUpdate
  <2> QED
    BY <1>6, <2>1 DEF StartUpdate, FlowInv
<1>7. CASE EraseBlock
  <2>1. ran' = None /\ None # flash'
    BY <1>0, <1>7, BootAssumption DEF EraseBlock, BootTypeOK
  <2>2. pc' \in {"erase", "write"} /\ incoming' \in Images
    BY <1>0, <1>7 DEF EraseBlock, FlowInv
  <2> QED
    BY <2>1, <2>2 DEF FlowInv, RanInv
<1>8. CASE WriteBlock
  <2>1. ran' = None /\ None # flash'
    BY <1>0, <1>8, BootAssumption DEF WriteBlock, FlowInv, BootTypeOK
  <2>2. pc' = "validate" \/ (pc' = "write" /\ incoming' \in Images)
    BY <1>0, <1>8 DEF WriteBlock, FlowInv
  <2> QED
    BY <2>1, <2>2 DEF FlowInv, RanInv
<1>9. CASE AppResets
  BY <1>9, Untouched DEF AppResets, Restarted
<1>10. CASE PowerLoss
  BY <1>10, Untouched DEF PowerLoss, Restarted
<1>11. ASSUME NEW i \in Images, JtagFlash(i) PROVE FlowInv' /\ RanInv'
  <2>1. ran' = None /\ None # flash' /\ pc' = "reset"
    BY <1>0, <1>11, BootAssumption DEF JtagFlash, Restarted, BootTypeOK
  <2> QED
    BY <2>1 DEF FlowInv, RanInv
<1>12. ASSUME NEW b \in MayDecay, Decay(b) PROVE FlowInv' /\ RanInv'
  <2>1. /\ b \in Blocks /\ flash[b] \in Images /\ flash'[b] \in Decayed
        /\ \A c \in Blocks : c # b => flash'[c] = flash[c]
        /\ ran' = ran /\ pc' = pc /\ pc \in {"app", "reset"}
    BY <1>0, <1>12, BootAssumption DEF Decay, Decayed, BootTypeOK, Contents
  <2>2. FlowInv'
    BY <2>1 DEF FlowInv
  <2>3. CASE ran = None
    BY <1>0, <2>1, <2>2, <2>3, BootAssumption DEF RanInv, BootTypeOK
  <2>4. CASE ran # None
    <3>1. ran[b] \in Images
      BY <1>0, <2>1, <2>4, BootAssumption DEF RanInv
    <3>2. ran' # flash'
      BY <2>1, <3>1, BootAssumption
    <3> QED
      BY <1>0, <2>1, <2>2, <2>4, <3>1, <3>2 DEF RanInv
  <2> QED
    BY <2>2, <2>3, <2>4
<1>13. CASE UNCHANGED bootVars
  BY <1>0, <1>13 DEF bootVars, FlowInv, RanInv, Good, Sound, Known, BuildId
<1> QED
  BY <1>1, <1>2, <1>3, <1>4, <1>5, <1>6, <1>7, <1>8, <1>9, <1>10, <1>11, <1>12, <1>13
  DEF BootNext

-----------------------------------------------------------------------------

(* The inductive invariant.                                                *)
THEOREM Invariance == BootSpec => []Inv
<1>1. Inv /\ [BootNext]_bootVars => Inv'
  BY NextTypeOK, NextInv DEF Inv
<1> QED
  BY InitInv, <1>1, PTL DEF BootSpec

(* Types (BootTypeOK).                                                     *)
THEOREM TypeCorrect == BootSpec => []BootTypeOK
<1>1. Inv => BootTypeOK
  BY DEF Inv
<1> QED
  BY Invariance, <1>1, PTL

(* What boots is recorded, if the store worked (BootedImageIsRecorded).    *)
THEOREM BootsRecorded == BootSpec => BootedImageIsRecorded
<1>1. Inv /\ [BootNext]_bootVars =>
        [pc = "boot" /\ pc' = "app" => crc = flash \/ recorded = "none"]_bootVars
  BY DEF Inv, FlowInv, Good
<1> QED
  BY Invariance, <1>1, PTL DEF BootSpec, BootedImageIsRecorded

(* A crash does not lead back to what crashed (NoCrashLoop).               *)
THEOREM CrashesDoNotLoop == BootSpec => NoCrashLoop
<1>1. ASSUME Inv, [BootNext]_bootVars, pc = "reset", pc' = "validate", m_state = "CRASH",
             flash = ran, recorded = "both"
      PROVE  FALSE
  <2>1. CheckResetReason
    BY <1>1
    DEF BootNext, bootVars, Restarted, Validate, StoreVersion, StoreCRC, BootApplication,
        EraseBlock, WriteBlock, AppResets, PowerLoss, StartUpdate, JtagFlash, Decay
  <2>2. BuildId # "noId" /\ version # BuildId
    BY <1>1, <2>1 DEF CheckResetReason, IsAppUpdated
  <2> QED
    BY <1>1, <2>2 DEF Inv, RanInv, Good, Known
<1>2. Inv /\ [BootNext]_bootVars =>
        [pc = "reset" /\ pc' = "validate" /\ m_state = "CRASH"
           => flash # ran \/ recorded # "both"]_bootVars
  BY <1>1
<1> QED
  BY Invariance, <1>2, PTL DEF BootSpec, NoCrashLoop

(* What has booted boots again (BootedImageBootsAgain).                    *)
THEOREM BootsAgain == BootSpec => BootedImageBootsAgain
<1>1. ASSUME Inv, [BootNext]_bootVars, pc' = "dfu", pc \in {"reset", "validate"},
             flash = ran, recorded = "both"
      PROVE  m_state \in {"DFU", "CRASH"}
  <2>1. CheckResetReason \/ Validate
    BY <1>1
    DEF BootNext, bootVars, Restarted, StoreVersion, StoreCRC, BootApplication,
        EraseBlock, WriteBlock, AppResets, PowerLoss, StartUpdate, JtagFlash, Decay
  <2>2. Good
    BY <1>1 DEF Inv, RanInv
  <2>3. ~Validate
    BY <1>1, <2>2 DEF Validate, Good, Sound, CRCMatches
  <2> QED
    BY <1>1, <2>1, <2>3 DEF CheckResetReason
<1>2. Inv /\ [BootNext]_bootVars =>
        [pc' = "dfu" /\ pc \in {"reset", "validate"} /\ flash = ran /\ recorded = "both"
           => m_state \in {"DFU", "CRASH"}]_bootVars
  BY <1>1
<1> QED
  BY Invariance, <1>2, PTL DEF BootSpec, BootedImageBootsAgain

=============================================================================
