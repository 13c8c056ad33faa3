------------------------------- MODULE IPCFifo -------------------------------
(***************************************************************************)
(* UnidirectionalIPCFifo (multicore/IPCDescriptorTable.{h,cpp}): a buffer  *)
(* in shared memory, a length word, and one flag of the IPC controller.    *)
(* The producers run on cores that share a data cache which the consumer   *)
(* does not see into, so every location has a cached and a memory copy: a  *)
(* store changes the first, a cache clean or an eviction carries it to the *)
(* second, and the consumer reads the second.                              *)
(***************************************************************************)
EXTENDS Integers, Sequences

CONSTANTS
  Producers,  \* cores that hold the sending end of the channel
  Byte,       \* byte values
  Size        \* m_size, the length of the buffer

ASSUME FifoAssumption == Size \in Nat \ {0} /\ Byte # {} /\ Producers # {}

Index == 1 .. Size
MsgUpTo(n) == UNION {[1 .. i -> Byte] : i \in 1 .. n}
Msg == MsgUpTo(Size)

VARIABLES
  bufC, bufM,    \* the buffer: cached by the producers, and in memory
  lenC, lenM,    \* m_writePtr: cached, and in memory
  busy,          \* the channel's flag in the IPC controller
  pc, msg, wi,   \* per producer: place in Push(), its argument, bytes copied
  rpc, rlen, ri, \* consumer: place in Pop(), its local p, bytes copied
  rxbuf,         \* the consumer's buffer
  taken          \* what the last Pop() returned (with a bit that flips)

writer == <<bufC, lenC, pc, msg, wi>>
memory == <<bufM, lenM>>
reader == <<rpc, rlen, ri, rxbuf, taken>>
vars == <<bufC, bufM, lenC, lenM, busy, pc, msg, wi, rpc, rlen, ri, rxbuf, taken>>

WriterPCs == {"idle", "wait", "copy", "setlen", "cleanbuf", "cleanlen", "setbusy"}

Blank == CHOOSE b \in Byte : TRUE

Init ==
  /\ bufC = [i \in Index |-> Blank] /\ bufM = bufC
  /\ lenC = 0 /\ lenM = 0
  /\ busy = FALSE
  /\ pc = [p \in Producers |-> "idle"]
  /\ msg = [p \in Producers |-> <<>>] /\ wi = [p \in Producers |-> 0]
  /\ rpc = "idle" /\ rlen = 0 /\ ri = 0
  /\ rxbuf = [i \in Index |-> Blank]
  /\ taken = [msg |-> <<>>, bit |-> 0]

-----------------------------------------------------------------------------
(* Push(buf, size).                                                        *)

(* The call: a message longer than the buffer is dropped without a word,   *)
(* so only one that fits starts to wait for the channel.                   *)
Fits(m) == Len(m) <= Size
StartPush(p, m) ==
  /\ pc[p] = "idle" /\ Fits(m)
  /\ pc' = [pc EXCEPT ![p] = "wait"]
  /\ msg' = [msg EXCEPT ![p] = m]
  /\ wi' = [wi EXCEPT ![p] = 0]
  /\ UNCHANGED <<bufC, lenC, memory, busy, reader>>

(* The spin on IsPrimaryToSecondaryChannelFree() and its twin ends.        *)
PushGetsChannel(p) ==
  /\ pc[p] = "wait" /\ ~busy
  /\ pc' = [pc EXCEPT ![p] = "copy"]
  /\ UNCHANGED <<bufC, lenC, msg, wi, memory, busy, reader>>

(* memcpy, one byte at a time.                                             *)
PushCopy(p) ==
  /\ pc[p] = "copy"
  /\ bufC' = [bufC EXCEPT ![wi[p] + 1] = msg[p][wi[p] + 1]]
  /\ wi' = [wi EXCEPT ![p] = @ + 1]
  /\ pc' = [pc EXCEPT ![p] = IF wi[p] + 1 = Len(msg[p]) THEN "setlen" ELSE @]
  /\ UNCHANGED <<lenC, msg, memory, busy, reader>>

PushSetLength(p) ==
  /\ pc[p] = "setlen"
  /\ lenC' = Len(msg[p])
  /\ pc' = [pc EXCEPT ![p] = "cleanbuf"]
  /\ UNCHANGED <<bufC, msg, wi, memory, busy, reader>>

\* Variant: the buffer is left in the cache.
PushCleanBuffer_Forgotten(p) ==
  /\ pc[p] = "cleanbuf"
  /\ pc' = [pc EXCEPT ![p] = "cleanlen"]
  /\ UNCHANGED <<bufC, lenC, msg, wi, bufM, lenM, busy, reader>>
PushCleanBuffer(p) ==
  /\ pc[p] = "cleanbuf"
  /\ bufM' = [i \in Index |-> IF i <= Len(msg[p]) THEN bufC[i] ELSE bufM[i]]
  /\ pc' = [pc EXCEPT ![p] = "cleanlen"]
  /\ UNCHANGED <<bufC, lenC, msg, wi, lenM, busy, reader>>

PushCleanLength(p) ==
  /\ pc[p] = "cleanlen"
  /\ lenM' = lenC
  /\ pc' = [pc EXCEPT ![p] = "setbusy"]
  /\ UNCHANGED <<bufC, lenC, msg, wi, bufM, busy, reader>>

PushSetBusy(p) ==
  /\ pc[p] = "setbusy"
  /\ busy' = TRUE
  /\ pc' = [pc EXCEPT ![p] = "idle"]
  /\ UNCHANGED <<bufC, lenC, msg, wi, memory, reader>>

-----------------------------------------------------------------------------
(* Pop(rxbuf).  With the channel free it returns 0 and changes nothing.    *)

StartPop ==
  /\ rpc = "idle" /\ busy
  /\ rlen' = lenM /\ ri' = 0
  /\ rpc' = "copy"
  /\ UNCHANGED <<writer, memory, busy, rxbuf, taken>>

PopCopy ==
  /\ rpc = "copy" /\ ri < rlen
  /\ rxbuf' = [rxbuf EXCEPT ![ri + 1] = bufM[ri + 1]]
  /\ ri' = ri + 1
  /\ UNCHANGED <<writer, memory, busy, rpc, rlen, taken>>

Returned == [msg |-> [i \in 1 .. rlen |-> rxbuf[i]],
             bit |-> IF taken.bit = 0 THEN 1 ELSE 0]

FinishPop ==
  /\ rpc = "copy" /\ ri = rlen
  /\ busy' = FALSE
  /\ taken' = Returned
  /\ rpc' = "idle"
  /\ UNCHANGED <<writer, memory, rlen, ri, rxbuf>>

-----------------------------------------------------------------------------
(* The cache may write a line back at any time.                            *)

EvictByte(i) ==
  /\ bufM' = [bufM EXCEPT ![i] = bufC[i]]
  /\ UNCHANGED <<writer, lenM, busy, reader>>

EvictLength ==
  /\ lenM' = lenC
  /\ UNCHANGED <<writer, bufM, busy, reader>>

PushStep(p) ==
  \/ PushGetsChannel(p) \/ PushCopy(p) \/ PushSetLength(p)
  \/ PushCleanBuffer(p) \/ PushCleanLength(p) \/ PushSetBusy(p)

PopStep == StartPop \/ PopCopy \/ FinishPop

Evict == EvictLength \/ \E i \in Index : EvictByte(i)

Next ==
  \/ \E p \in Producers : PushStep(p) \/ \E m \in MsgUpTo(Size + 1) : StartPush(p, m)
  \/ PopStep \/ Evict

Spec == Init /\ [][Next]_vars

-----------------------------------------------------------------------------
(* Properties.                                                             *)

(* Types.  The consumer never reads past its buffer.                       *)
FifoTypeOK ==
  /\ bufC \in [Index -> Byte] /\ bufM \in [Index -> Byte]
  /\ lenC \in 0 .. Size /\ lenM \in 0 .. Size
  /\ busy \in BOOLEAN
  /\ pc \in [Producers -> WriterPCs] /\ msg \in [Producers -> Msg \cup {<<>>}]
  /\ wi \in [Producers -> 0 .. Size]
  /\ rpc \in {"idle", "copy"} /\ rlen \in 0 .. Size /\ ri \in 0 .. rlen
  /\ rxbuf \in [Index -> Byte]
  /\ taken \in [msg : Msg \cup {<<>>}, bit : {0, 1}]

(* The buffer, the length and the flag together are a mailbox: a message   *)
(* comes out exactly as it was pushed, once, and in order.  The mailbox is *)
(* full from the flag going up in Push() to it going down in Pop(), and    *)
(* its contents are what memory holds in between.                          *)
Pushing == [p \in Producers |-> IF pc[p] = "idle" THEN <<>> ELSE <<msg[p]>>]
Slot == IF busy THEN <<[i \in 1 .. lenM |-> bufM[i]]>> ELSE <<>>
Channel == INSTANCE Mailbox WITH pushing <- Pushing, slot <- Slot
ImplementsMailbox == Channel!Spec

=============================================================================
