------------------------------ MODULE FPGAUpdate ------------------------------
(***************************************************************************)
(* The FPGA firmware updater (fpga/FPGAFirmwareUpdater.{h,cpp}): a .bit    *)
(* file arrives over SFTP in pieces cut anywhere, is parsed as it comes,   *)
(* and the bitstream in it goes to the FPGA's flash in blocks.             *)
(*                                                                         *)
(* A file is a sequence of bytes; what the parser would see in a byte is   *)
(* given by the field it belongs to.  Buffers and flash hold positions in  *)
(* the file.  The handlers run to their end, flash accesses included; the  *)
(* steps below are the passes of their loops.                              *)
(***************************************************************************)
EXTENDS Integers, Sequences, SequencesExt

CONSTANTS
  Files,       \* the files that may be sent
  MagicLen,    \* 13
  BufSize,     \* BIT_RX_BUFFER_SIZE
  WriteBlock,  \* GetMaxWriteBlockSize()
  SectorSize,  \* GetEraseBlockSize(), a power of two
  ImageOffset, ImageSize,  \* the flash partition
  Golden,      \* addresses below the partition in use for something else
  MaxChunk,    \* most bytes in one call of OnRxData
  CutsE        \* whether a call may end with the third or fourth of the five
               \* bytes before the image

(* Field(k, n, w): n bytes of a field of kind k; a type 2 packet header    *)
(* announces w words.                                                      *)
Field(k, n, w) == [i \in 1 .. n |-> [kind |-> k, len |-> n, at |-> i, words |-> w]]
Packets == {"type1", "desync"}
HeaderKinds == {"magic", "noMagic", "text", "device", "otherDevice"}
Kinds == HeaderKinds \cup Packets \cup {"e", "pad", "sync", "type2", "data", "bad"}

(* A file is a row of whole fields, the records of its header in front of  *)
(* the image that the 'e' record announces and one command ends.           *)
IsFile(f) ==
  /\ f \in Seq([kind : Kinds, len : Nat \ {0}, at : Nat \ {0}, words : Nat])
  /\ Len(f) > 0 /\ f[1].at = 1
  /\ \A i \in 1 .. Len(f) : f[i].at = 1 =>
       /\ \A k \in 1 .. f[i].len :
            i + k - 1 <= Len(f) /\ f[i + k - 1] = [f[i] EXCEPT !.at = k]
       /\ i + f[i].len <= Len(f) => f[i + f[i].len].at = 1
  /\ \A i \in 1 .. Len(f) : /\ f[i].kind = "magic" => f[i].len = MagicLen
                            /\ f[i].kind = "e" => f[i].len = 5
  /\ \A i, j \in 1 .. Len(f) :
       /\ f[i].kind = f[j].kind /\ f[i].kind \in {"e", "desync"} =>
            f[i].len = f[j].len /\ (i = j <=> f[i].at = f[j].at)
       /\ f[i].kind = "e" /\ i < j => f[j].kind \notin HeaderKinds
  /\ \A j \in 1 .. Len(f) :
       f[j].kind \notin HeaderKinds => \E i \in 1 .. j : f[i].kind = "e"

ASSUME UpdateAssumption ==
  /\ MagicLen \in Nat \ {0} /\ BufSize \in Nat /\ WriteBlock \in 1 .. BufSize
  /\ SectorSize \in Nat \ {0} /\ ImageSize \in Nat /\ ImageOffset \in Nat
  /\ Golden \subseteq 0 .. ImageOffset - 1
  /\ MaxChunk \in Nat \ {0} /\ CutsE \in BOOLEAN
  /\ \A f \in Files : IsFile(f)

(* A cell of flash is blank, holds the byte of the current file at a       *)
(* position, something older, or what a failed write left.                 *)
Blank == 0
Old == -1
Mixed == -2
Addr == 0 .. ImageOffset + ImageSize - 1

VARIABLES
  m_state, m_bigWordLen, m_wptr,
  rx, wr,      \* m_rxBuffer, m_writeBuffer: positions in the file
  flash,
  pc,          \* place in the handlers
  file, sent,  \* the file being sent, how much of it has arrived
  faulty       \* a flash access has failed in this upload

vars == <<m_state, m_bigWordLen, m_wptr, rx, wr, flash, pc, file, sent, faulty>>

Init ==
  /\ m_state = "READ_BITHDR" /\ m_bigWordLen = 0 /\ m_wptr = ImageOffset
  /\ rx = <<>> /\ wr = <<>>
  /\ flash = [a \in Addr |-> IF a >= ImageOffset \/ a \in Golden THEN Old ELSE Blank]
  /\ pc = "closed" /\ file \in Files /\ sent = 0 /\ faulty = FALSE

-----------------------------------------------------------------------------
(* The three entry points.                                                 *)

OnDeviceOpened ==
  /\ pc = "closed" /\ pc' = "idle"
  /\ rx' = <<>> /\ wr' = <<>>
  /\ m_state' = "READ_BITHDR" /\ m_bigWordLen' = 0 /\ m_wptr' = ImageOffset
  /\ file' \in Files /\ sent' = 0 /\ faulty' = FALSE
  /\ flash' = [a \in Addr |-> IF flash[a] > 0 THEN Old ELSE flash[a]]

(* Data that does not fit the buffer is dropped.                           *)
OnRxData ==
  /\ pc = "idle"
  /\ \E n \in 1 .. MaxChunk :
       /\ sent + n <= Len(file)
       /\ CutsE \/ file[sent + n].kind # "e" \/ file[sent + n].at \notin {3, 4}
       /\ sent' = sent + n
       /\ IF Len(rx) + n <= BufSize
            THEN rx' = rx \o [i \in 1 .. n |-> sent + i] /\ pc' = "process"
            ELSE UNCHANGED <<rx, pc>>
  /\ UNCHANGED <<m_state, m_bigWordLen, m_wptr, wr, flash, file, faulty>>

(* FlushWriteData(), unless the update has failed.                         *)
OnDeviceClosed ==
  /\ pc = "idle"
  /\ pc' = IF m_state = "FAILED" THEN "closed" ELSE "pushFlush"
  /\ UNCHANGED <<m_state, m_bigWordLen, m_wptr, rx, wr, flash, file, sent, faulty>>

-----------------------------------------------------------------------------
(* ProcessDataFromBuffer(): what is next, and whether to come again.       *)

Next1 == file[Head(rx)]
Starts(kinds) == rx # <<>> /\ Next1.kind \in kinds /\ Next1.at = 1
Pop(buf, n) == SubSeq(buf, n + 1, Len(buf))
First(n) == SubSeq(rx, 1, n)

(* Push() to the write buffer stores all of it or nothing.                 *)
Fits(bytes) == Len(wr) + Len(bytes) <= BufSize
PushWr(bytes) == wr' = IF Fits(bytes) THEN wr \o bytes ELSE wr

(* The result of the call: with true, OnRxData comes back after writing.   *)
Returns(more) == pc' = IF more THEN "push" ELSE "pushLast"

(* Whether the buffer holds all of what is next, whose length is in its    *)
(* first bytes.                                                            *)
Has(n) == Len(rx) >= n
HasNext ==
  CASE m_state = "READ_BITHDR" -> Has(MagicLen)
    [] m_state = "READ_BITHDR_RECORDS" -> Has(3) /\ (Next1.kind = "e" \/ Has(Next1.len))
    [] m_state = "BITSTREAM" -> Has(4) /\ (Starts(Packets) => Has(Next1.len))
    [] m_state = "BIG_WRITE" -> Has(4)
    [] OTHER -> TRUE

Parsing(state) ==
  pc = "process" /\ m_state = state /\ HasNext /\ UNCHANGED <<file, sent, m_wptr>>
FlashLeft == UNCHANGED <<flash, faulty>>

NeedMore ==
  /\ pc = "process" /\ ~HasNext
  /\ Returns(FALSE)
  /\ UNCHANGED <<m_state, m_bigWordLen, m_wptr, rx, wr, flash, file, sent, faulty>>

ReadMagic ==
  /\ Parsing("READ_BITHDR")
  /\ IF Starts({"magic"})
       THEN m_state' = "READ_BITHDR_RECORDS" /\ rx' = Pop(rx, MagicLen)
       ELSE m_state' = "FAILED" /\ UNCHANGED rx
  /\ Returns(TRUE) /\ FlashLeft /\ UNCHANGED <<m_bigWordLen, wr>>

\* Variant: the device name is printed and not compared.
DeviceMatches_Any == TRUE
DeviceMatches == Next1.kind # "otherDevice"
ReadRecord ==
  /\ Parsing("READ_BITHDR_RECORDS") /\ ~Starts({"e"})
  /\ m_state' = IF DeviceMatches THEN m_state ELSE "FAILED"
  /\ rx' = Pop(rx, Next1.len)
  /\ Returns(TRUE) /\ FlashLeft /\ UNCHANGED <<m_bigWordLen, wr>>

(* EraseFlashPartition(): (m_imageSize | (secsize - 1)) / secsize sectors, *)
(* which rounds down.  It may fail at any of them.  Then the blank check.  *)
NumSectors == ImageSize \div SectorSize
ErasedSectors(n) ==
  [a \in Addr |->
     IF a \in ImageOffset .. ImageOffset + n * SectorSize - 1 THEN Blank ELSE flash[a]]
BlankCheck(cells) == \A a \in 0 .. ImageSize - 1 : cells[a] = Blank

EraseFlashPartition ==
  \/ /\ \E n \in 0 .. NumSectors - 1 : flash' = ErasedSectors(n)
     /\ m_state' = "FAILED" /\ faulty' = TRUE
  \/ /\ flash' = ErasedSectors(NumSectors)
     /\ m_state' = IF BlankCheck(flash') THEN "SYNC_WAIT" ELSE "FAILED"
     /\ UNCHANGED faulty

(* Three bytes are enough to see the 'e' record, five are popped.  What    *)
(* Pop() does with more than there is is the buffer's: nothing, or all.    *)
ReadERecord ==
  /\ Parsing("READ_BITHDR_RECORDS") /\ Starts({"e"})
  /\ IF Len(rx) >= 5 THEN rx' = Pop(rx, 5) ELSE rx' \in {rx, <<>>}
  /\ EraseFlashPartition
  /\ Returns(TRUE) /\ UNCHANGED <<m_bigWordLen, wr>>

(* Padding goes to flash byte by byte up to the sync word, as long as more *)
(* than a sync word is in the buffer.                                      *)
\* Variant: the padding is skipped.
Padding_Skipped(n) == <<>>
Padding(n) == First(n)
SyncAt(i) == file[rx[i]].kind = "sync" /\ file[rx[i]].at = 1
Padded(n) == wr \o SubSeq(Padding(n), 1, Min({Len(Padding(n)), BufSize - Len(wr)}))

FindSync ==
  /\ Parsing("SYNC_WAIT")
  /\ \E i \in 1 .. Len(rx) - 4 :
       /\ SyncAt(i)
       /\ wr' = IF Len(Padded(i - 1)) + 4 <= BufSize
                  THEN Padded(i - 1) \o SubSeq(rx, i, i + 3) ELSE Padded(i - 1)
       /\ rx' = Pop(rx, i + 3)
  /\ m_state' = "BITSTREAM"
  /\ Returns(TRUE) /\ FlashLeft /\ UNCHANGED m_bigWordLen

NoSync ==
  /\ Parsing("SYNC_WAIT") /\ ~ \E i \in 1 .. Len(rx) - 4 : SyncAt(i)
  /\ LET n == IF Len(rx) > 4 THEN Len(rx) - 4 ELSE 0 IN
       wr' = Padded(n) /\ rx' = Pop(rx, n)
  /\ Returns(FALSE) /\ FlashLeft /\ UNCHANGED <<m_state, m_bigWordLen>>

ReadPacket ==
  /\ Parsing("BITSTREAM") /\ Starts(Packets)
  /\ m_state' = IF Next1.kind = "desync" THEN "DONE" ELSE m_state
  /\ PushWr(First(Next1.len)) /\ rx' = Pop(rx, Next1.len)
  /\ Returns(TRUE) /\ FlashLeft /\ UNCHANGED m_bigWordLen

ReadType2 ==
  /\ Parsing("BITSTREAM") /\ Starts({"type2"})
  /\ m_state' = "BIG_WRITE" /\ m_bigWordLen' = Next1.words
  /\ PushWr(First(4)) /\ rx' = Pop(rx, 4)
  /\ Returns(TRUE) /\ FlashLeft

BadPacket ==
  /\ Parsing("BITSTREAM") /\ ~Starts(Packets \cup {"type2"})
  /\ m_state' = "FAILED"
  /\ Returns(TRUE) /\ FlashLeft /\ UNCHANGED <<m_bigWordLen, rx, wr>>

(* As many words as there are, but not beyond the end of the packet.  The  *)
(* end of the packet also ends a failure to store its last words.          *)
\* Variant: all words there are.
BigWords_All == Len(rx) \div 4
BigWords ==
  IF Len(rx) \div 4 >= m_bigWordLen THEN m_bigWordLen ELSE Len(rx) \div 4
BigWrite ==
  LET n == BigWords
      left == m_bigWordLen - n IN
  /\ Parsing("BIG_WRITE")
  /\ PushWr(First(4 * n)) /\ rx' = Pop(rx, 4 * n)
  /\ m_bigWordLen' = left
  /\ m_state' = IF left = 0 THEN "BITSTREAM"
                ELSE IF Fits(First(4 * n)) THEN m_state ELSE "FAILED"
  /\ Returns(left = 0) /\ FlashLeft

\* Variant: the finished parser asks to be called again.
DiscardRest_Again ==
  /\ pc = "process" /\ m_state \in {"DONE", "FAILED"}
  /\ rx' = <<>>
  /\ Returns(TRUE)
  /\ UNCHANGED <<m_state, m_bigWordLen, m_wptr, wr, flash, file, sent, faulty>>
DiscardRest ==
  /\ pc = "process" /\ m_state \in {"DONE", "FAILED"}
  /\ rx' = <<>>
  /\ Returns(FALSE)
  /\ UNCHANGED <<m_state, m_bigWordLen, m_wptr, wr, flash, file, sent, faulty>>

-----------------------------------------------------------------------------
(* PushWriteData() and the end of FlushWriteData().                        *)

(* A write and its readback: bytes stick only in blank cells.              *)
Target(n) == m_wptr .. m_wptr + n - 1
TargetBlank(n) == \A a \in Target(n) : a \in Addr => flash[a] = Blank
WriteVerified(n) ==
  \/ /\ TargetBlank(n)
     /\ flash' = [a \in Addr |-> IF a \in Target(n) THEN wr[a - m_wptr + 1] ELSE flash[a]]
     /\ wr' = Pop(wr, n)
     /\ UNCHANGED <<m_state, faulty>>
  \/ /\ flash' = [a \in Addr |-> IF a \in Target(n) THEN Mixed ELSE flash[a]]
     /\ m_state' = "FAILED" /\ faulty' = (faulty \/ TargetBlank(n))
     /\ UNCHANGED wr

Pushing == pc \in {"push", "pushLast", "pushFlush"}
\* Variant: a block that is just full waits.
MorePushes_Strict == m_state # "FAILED" /\ Len(wr) > WriteBlock
MorePushes == m_state # "FAILED" /\ Len(wr) >= WriteBlock

\* Variant: the write pointer stays where it is.
NextWptr_Stuck == m_wptr
NextWptr == m_wptr + WriteBlock
PushBlock ==
  /\ Pushing /\ MorePushes
  /\ WriteVerified(WriteBlock)
  /\ m_wptr' = IF m_state' = "FAILED" THEN m_wptr ELSE NextWptr
  /\ UNCHANGED <<m_bigWordLen, rx, pc, file, sent>>

PushedAll ==
  /\ Pushing /\ ~MorePushes
  /\ pc' = CASE pc = "push" -> "process" [] pc = "pushLast" -> "idle"
             [] pc = "pushFlush" -> "flush"
  /\ UNCHANGED <<m_state, m_bigWordLen, m_wptr, rx, wr, flash, file, sent, faulty>>

\* Variant: what fills no block is forgotten.
FlushRest_Nothing ==
  /\ pc = "flush" /\ pc' = "closed"
  /\ UNCHANGED <<m_state, m_bigWordLen, m_wptr, rx, wr, flash, file, sent, faulty>>
FlushRest ==
  /\ pc = "flush" /\ pc' = "closed"
  /\ WriteVerified(Len(wr))
  /\ UNCHANGED <<m_bigWordLen, m_wptr, rx, file, sent>>

Process ==
  \/ NeedMore \/ ReadMagic \/ ReadRecord \/ ReadERecord \/ FindSync \/ NoSync
  \/ ReadPacket \/ ReadType2 \/ BadPacket \/ BigWrite \/ DiscardRest

Handler == Process \/ PushBlock \/ PushedAll \/ FlushRest

Next == OnDeviceOpened \/ OnRxData \/ OnDeviceClosed \/ Handler

Spec == Init /\ [][Next]_vars

(* A handler runs to its end.                                              *)
FairSpec == Spec /\ WF_vars(Handler)

-----------------------------------------------------------------------------
(* Properties.                                                             *)

States == {"READ_BITHDR", "READ_BITHDR_RECORDS", "SYNC_WAIT", "BITSTREAM",
           "BIG_WRITE", "DONE", "FAILED"}
PCs == {"closed", "idle", "process", "push", "pushLast", "pushFlush", "flush"}

(* Types.  No buffer runs over, and less than a block waits between calls. *)
UpdateTypeOK ==
  /\ m_state \in States /\ m_bigWordLen \in Nat
  /\ m_wptr \in ImageOffset .. ImageOffset + ImageSize
  /\ file \in Files /\ sent \in 0 .. Len(file)
  /\ ToSet(rx) \cup ToSet(wr) \subseteq 1 .. Len(file)
  /\ Len(rx) <= BufSize /\ Len(wr) <= BufSize
  /\ pc = "idle" /\ m_state # "FAILED" => Len(wr) < WriteBlock
  /\ \A a \in Addr : flash[a] \in -2 .. Len(file)
  /\ pc \in PCs /\ faulty \in BOOLEAN

(* The image is what follows the 'e' record, up to the command that ends   *)
(* the bitstream.                                                          *)
ImageStart(f) == CHOOSE i \in 1 .. Len(f) : f[i].kind = "e" /\ f[i].at = 5
ImageEnd(f) == CHOOSE i \in 1 .. Len(f) : f[i].kind = "desync" /\ f[i].at = f[i].len

(* What the code leaves to its surroundings.  The image has room in the    *)
(* partition, and so it has with the five bytes in front of it.            *)
ImageFits == \A f \in Files : Len(f) - (ImageStart(f) - 5) <= ImageSize

(* Whatever the parser waits for with less than a block to be written, a   *)
(* further call of OnRxData fits the buffers.                              *)
LongestWait == BufSize - MaxChunk - WriteBlock + 2
BuffersSuffice ==
  /\ 5 <= LongestWait /\ MagicLen <= LongestWait
  /\ \A f \in Files : \A i \in 1 .. Len(f) : f[i].kind # "data" => f[i].len <= LongestWait

InFlash ==
  \A i \in ImageStart(file) + 1 .. ImageEnd(file) :
    flash[ImageOffset + i - ImageStart(file) - 1] = i

(* An update that ended in DONE has every byte of the image in its place   *)
(* in flash, however the file was cut, whatever was in flash before and    *)
(* whatever failed on the way.                                             *)
DoneMeansFlashed == pc = "closed" /\ m_state = "DONE" => InFlash

(* A file for another FPGA does not touch the flash.                       *)
OtherDeviceHarmless ==
  [][(\E i \in 1 .. Len(file) : file[i].kind = "otherDevice") /\ file' = file /\ pc # "closed"
       => flash' = flash]_vars

(* Each call of a handler returns: the loop in OnRxData ends.              *)
HandlersReturn == pc \notin {"idle", "closed"} ~> pc \in {"idle", "closed"}

(* A sound file that arrived in full, with no flash access failing, is     *)
(* accepted, and the image starts where the comments say it does: "Pop the *)
(* header and two mystery bytes before the .bin image starts", after the   *)
(* partition was erased and found blank.                                   *)
Sound(f) ==
  /\ f[1].kind = "magic"
  /\ \A i \in 1 .. Len(f) : f[i].kind \notin {"otherDevice", "bad"}

(* What a sound file holds: the 'e' record at e, the only sync word at s,  *)
(* and packets from there to the command that ends the bitstream at d.     *)
Packet(f, i) == f[i].kind \in Packets \cup {"type2"} /\ f[i].at = 1 /\ f[i].len >= 4
Behind(f, i) == i + IF f[i].kind = "type2" THEN 4 + 4 * f[i].words ELSE f[i].len
Bitstream(f, e, s, d) ==
  /\ f[e].kind = "e" /\ f[e].at = 1 /\ e + 4 < s
  /\ \A i \in 1 .. Len(f) : f[i].kind = "sync" /\ f[i].at = 1 <=> i = s
  /\ s + 4 <= d /\ f[d].kind = "desync" /\ Packet(f, d) /\ Packet(f, s + 4)
  /\ \A i \in s + 4 .. d - 1 :
       Packet(f, i) => Behind(f, i) <= d /\ Packet(f, Behind(f, i))
SoundFilesWhole ==
  \A f \in Files : Sound(f) => \E e, s, d \in 1 .. Len(f) : Bitstream(f, e, s, d)

(* The erase gets to the end of the partition, and the blank check, which  *)
(* looks from address 0 on, meets nothing in front of it.                  *)
PartitionErasable ==
  ImageSize = NumSectors * SectorSize /\ Golden \cap (0 .. ImageSize - 1) = {}
SoundFileFlashed ==
  pc = "closed" /\ sent = Len(file) /\ Sound(file) /\ ~faulty
    => m_state = "DONE" /\ InFlash

=============================================================================
