----------------------------- MODULE Bootloader -----------------------------
(***************************************************************************)
(* The bootloader (bootloader/bootloader.cpp): from a reset through the    *)
(* check of the application partition to the application or the firmware   *)
(* update flow.  Flash and the key-value store survive every reset, and    *)
(* power may fail between any two steps.  The update flow is a board's own *)
(* code and the store is a library: both are external.                     *)
(***************************************************************************)
EXTENDS Integers

CONSTANTS
  Images,   \* firmware builds, each with a build ID of its own
  NBlocks,  \* erase blocks of the partition; the first holds vector and build ID
  MayDecay, \* blocks that may decay
  None      \* nothing stored

Blocks == 1 .. NBlocks

(* A block is blank, of an image, or decayed.  A decayed header has either *)
(* another build ID than any image or no longer a valid one; elsewhere the *)
(* flash notices a decay ("ecc") or does not ("rot").                      *)
Decayed == {"rot", "ecc", "otherId", "noId"}
Cell == Images \cup Decayed \cup {"blank"}
Contents == [Blocks -> Cell]

(* An image has at least a block besides its header.                       *)
ASSUME BootAssumption ==
  /\ NBlocks \in Nat /\ NBlocks >= 2 /\ MayDecay \subseteq Blocks
  /\ Images \cap (Decayed \cup {"blank"}) = {}
  /\ None \notin Contents

VARIABLES
  flash,            \* the application partition
  version, crc,     \* g_imageVersionKey and g_imageCRCKey in the store
  m_state,          \* g_bbram->m_state
  pc, k,            \* place in the flow, next block of the update flow
  incoming,         \* the image being written
  ran,              \* what last booted, until the partition is written again
  recorded          \* how much of the last new image the stores got down:
                    \* "none", "version", or "both"

kvs == <<version, crc>>
bootVars == <<flash, version, crc, m_state, pc, k, incoming, ran, recorded>>

PCs == {"reset", "validate", "storeVersion", "storeCRC", "boot", "app",
        "dfu", "erase", "write"}

BootInit ==
  /\ flash = [b \in Blocks |-> "blank"]
  /\ version = None /\ crc = None
  /\ m_state = "POR" /\ pc = "reset" /\ k = 1
  /\ incoming = None /\ ran = None /\ recorded = "none"

-----------------------------------------------------------------------------
(* Deciding what to run.                                                   *)

BuildId == flash[1]

\* Variant: a partition without a build ID passes for a new one.
IsAppUpdated_NoIdIsNew == BuildId = "noId" \/ (BuildId # "blank" /\ version # BuildId)
(* No valid build ID: not updated.  None stored, or another: updated.      *)
IsAppUpdated == BuildId \notin {"blank", "noId"} /\ version # BuildId

(* A CRC finds every difference in contents.                               *)
\* Variant: the result of the comparison is not looked at.
CRCMatches_Ignored == TRUE
CRCMatches == crc = flash

(* Bootloader_MainLoop.                                                    *)
CheckResetReason ==
  /\ pc = "reset"
  /\ pc' = CASE m_state = "DFU" -> "dfu"
             [] m_state = "CRASH" -> IF IsAppUpdated THEN "validate" ELSE "dfu"
             [] OTHER -> "validate"
  /\ UNCHANGED <<flash, kvs, m_state, k, incoming, ran, recorded>>

(* ValidateAppPartition, up to the stores: a blank vector, an ECC fault     *)
(* and a wrong CRC are refused; a new build, or one without a CRC, is not. *)
Validate ==
  /\ pc = "validate"
  /\ pc' = IF flash[1] = "blank" \/ \E b \in Blocks : flash[b] = "ecc" THEN "dfu"
           ELSE IF IsAppUpdated \/ crc = None THEN "storeVersion"
           ELSE IF CRCMatches THEN "boot" ELSE "dfu"
  /\ recorded' = IF pc' = "boot" THEN "both" ELSE recorded
  /\ UNCHANGED <<flash, kvs, m_state, k, incoming, ran>>

(* The image is new: remember its build ID, then its CRC.  A failed        *)
(* StoreObject() leaves the old object and is only logged.                 *)
StoreVersion ==
  /\ pc = "storeVersion"
  /\ \E ok \in BOOLEAN :
       /\ version' = IF ok THEN BuildId ELSE version
       /\ recorded' = IF ok THEN "version" ELSE "none"
  /\ pc' = "storeCRC"
  /\ UNCHANGED <<flash, crc, m_state, k, incoming, ran>>

\* Variant: a CRC already in the store is kept.
NewCRC_KeepsOld == IF crc = None THEN flash ELSE crc
NewCRC == flash

StoreCRC ==
  /\ pc = "storeCRC"
  /\ \E ok \in BOOLEAN :
       /\ crc' = IF ok THEN NewCRC ELSE crc
       /\ recorded' = IF ok /\ recorded = "version" THEN "both" ELSE "none"
  /\ pc' = "boot"
  /\ UNCHANGED <<flash, version, m_state, k, incoming, ran>>

BootApplication ==
  /\ pc = "boot"
  /\ m_state' = "APP" /\ pc' = "app" /\ ran' = flash
  /\ UNCHANGED <<flash, kvs, k, incoming, recorded>>

-----------------------------------------------------------------------------
(* The firmware update flow: EraseFlash() block by block, then the image   *)
(* in whatever order it arrives, then the same check as after a reset.     *)

StartUpdate(i) ==
  /\ pc = "dfu"
  /\ pc' = "erase" /\ k' = 1 /\ incoming' = i
  /\ UNCHANGED <<flash, kvs, m_state, ran, recorded>>

\* Variant: one block past the end.
LastBlock_OneMore == NBlocks + 1
LastBlock == NBlocks

EraseBlock ==
  /\ pc = "erase"
  /\ flash' = [flash EXCEPT ![k] = "blank"] /\ ran' = None
  /\ IF k < LastBlock THEN k' = k + 1 /\ pc' = pc ELSE k' = 1 /\ pc' = "write"
  /\ UNCHANGED <<kvs, m_state, incoming, recorded>>

WriteBlock ==
  /\ pc = "write"
  /\ \E b \in Blocks :
       /\ flash[b] = "blank"
       /\ flash' = [flash EXCEPT ![b] = incoming]
  /\ IF \A b \in Blocks : flash'[b] # "blank"
       THEN pc' = "validate" /\ incoming' = None
       ELSE UNCHANGED <<pc, incoming>>
  /\ UNCHANGED <<kvs, m_state, k, ran, recorded>>

-----------------------------------------------------------------------------
(* The application and the world.                                          *)

Restarted == pc' = "reset" /\ k' = 1 /\ incoming' = None

(* The application crashes, asks for an update, or just resets.            *)
AppResets ==
  /\ pc = "app"
  /\ m_state' \in {"CRASH", "DFU", "APP"}
  /\ Restarted
  /\ UNCHANGED <<flash, kvs, ran, recorded>>

(* A reset or a loss of power; the backup registers may lose theirs too.   *)
PowerLoss ==
  /\ m_state' \in {m_state, "POR"}
  /\ Restarted
  /\ UNCHANGED <<flash, kvs, ran, recorded>>

(* A debugger writes an image.                                             *)
JtagFlash(i) ==
  /\ pc \in {"app", "dfu"}
  /\ flash' = [b \in Blocks |-> i] /\ ran' = None
  /\ Restarted
  /\ UNCHANGED <<kvs, m_state, recorded>>

Decay(b) ==
  /\ pc \in {"app", "reset"} /\ flash[b] \in Images
  /\ \E c \in IF b = 1 THEN {"otherId", "noId"} ELSE {"rot", "ecc"} :
       flash' = [flash EXCEPT ![b] = c]
  /\ UNCHANGED <<kvs, m_state, pc, k, incoming, ran, recorded>>

BootNext ==
  \/ CheckResetReason \/ Validate \/ StoreVersion \/ StoreCRC \/ BootApplication
  \/ EraseBlock \/ WriteBlock
  \/ AppResets \/ PowerLoss
  \/ \E i \in Images : StartUpdate(i) \/ JtagFlash(i)
  \/ \E b \in MayDecay : Decay(b)

BootSpec == BootInit /\ [][BootNext]_bootVars

(* For a run: the update flow is the only way an image gets into flash, it *)
(* runs to its end once it has begun, and every store that is made works.  *)
(* What power may still cut short is the bootloader itself.                *)
UpdateCompletes ==
  /\ pc \in {"erase", "write"} => pc' # "reset"
  /\ pc = "storeVersion" /\ pc' = "storeCRC" => recorded' = "version"
  /\ pc = "storeCRC" /\ pc' = "boot" => recorded' = "both"
  /\ pc \in {"dfu", "app"} => flash' = flash

-----------------------------------------------------------------------------
(* Properties.                                                             *)

(* Types.                                                                  *)
BootTypeOK ==
  /\ flash \in Contents
  /\ version \in Cell \cup {None} /\ crc \in Contents \cup {None}
  /\ m_state \in {"POR", "APP", "DFU", "CRASH"}
  /\ pc \in PCs /\ k \in Blocks
  /\ incoming \in Images \cup {None} /\ ran \in Contents \cup {None}
  /\ recorded \in {"none", "version", "both"}

(* Nothing boots without a record to check it against at the next reset:   *)
(* what starts is what the stored CRC describes, if the store worked.      *)
BootedImageIsRecorded ==
  [][pc = "boot" /\ pc' = "app" => crc = flash \/ recorded = "none"]_bootVars

(* "Don't try to run the crashy app again to avoid bootlooping": after a   *)
(* crash what ran is not even considered, however often the board is reset *)
(* on the way, if the stores of that boot worked.                          *)
NoCrashLoop ==
  [][pc = "reset" /\ pc' = "validate" /\ m_state = "CRASH"
       => flash # ran \/ recorded # "both"]_bootVars

(* What has booted boots again: as long as the partition is unchanged it   *)
(* is only passed over for the update flow on request or after a crash.    *)
BootedImageBootsAgain ==
  [][pc' = "dfu" /\ pc \in {"reset", "validate"} /\ flash = ran /\ recorded = "both"
       => m_state \in {"DFU", "CRASH"}]_bootVars

(* What bootloader-common.h says of the update flow: "It is called if the  *)
(* user requests a firmware update, or if no bootable image was found in   *)
(* flash".  So an image that is whole is not refused.                      *)
WholeImage == \E i \in Images : \A b \in Blocks : flash[b] = i
WholeImageNeverRefused == [][pc = "validate" /\ pc' = "dfu" => ~WholeImage]_bootVars

=============================================================================
