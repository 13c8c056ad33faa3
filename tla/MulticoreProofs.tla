-------------------------- MODULE MulticoreProofs --------------------------
(***************************************************************************)
(* Proofs about the way from one core to another: that the FIFO with one   *)
(* producer implements the mailbox, for every buffer size, every message   *)
(* and every order of cache evictions, and that the log device on top of it*)
(* implements a stream of bytes, for every size of its own buffer that is  *)
(* not above that of the FIFO's.                                           *)
(***************************************************************************)
EXTENDS MulticoreLog, SequenceTheorems, TLAPS

(* Part one: the FIFO.                                                     *)

(* The place in Push() after each of its effects.                          *)
Holding == {"copy", "setlen", "cleanbuf", "cleanlen", "setbusy"}
Copied  == {"setlen", "cleanbuf", "cleanlen", "setbusy"}

(* A producer past its wait has the channel to itself, and what it has     *)
(* already carried to the cache and to memory is its message.              *)
PushInv(p) ==
  /\ pc[p] # "idle" => msg[p] \in Msg
  /\ pc[p] = "wait" => wi[p] = 0
  /\ pc[p] \in Holding => ~busy /\ rpc = "idle"
  /\ pc[p] = "copy" => /\ wi[p] < Len(msg[p])
                       /\ \A i \in 1 .. wi[p] : bufC[i] = msg[p][i]
  /\ pc[p] \in Copied => \A i \in 1 .. Len(msg[p]) : bufC[i] = msg[p][i]
  /\ pc[p] \in {"cleanbuf", "cleanlen", "setbusy"} => lenC = Len(msg[p])
  /\ pc[p] \in {"cleanlen", "setbusy"} =>
       \A i \in 1 .. Len(msg[p]) : bufM[i] = msg[p][i]
  /\ pc[p] = "setbusy" => lenM = Len(msg[p])

(* While the flag is up cache and memory agree, so no eviction can change  *)
(* the message, and a Pop() under way has copied a prefix of it.           *)
PopInv ==
  /\ busy => /\ lenC = lenM /\ lenM > 0
             /\ \A i \in 1 .. lenM : bufC[i] = bufM[i]
  /\ rpc = "copy" => /\ busy /\ rlen = lenM
                     /\ \A i \in 1 .. ri : rxbuf[i] = bufM[i]

Inv == FifoTypeOK /\ PopInv /\ \A p \in Producers : PushInv(p)

-----------------------------------------------------------------------------

(* A message is a function on the positions up to its length.              *)
LEMMA MsgLength ==
  ASSUME NEW n \in Nat, NEW m \in MsgUpTo(n)
  PROVE  Len(m) \in 1 .. n /\ m \in [1 .. Len(m) -> Byte]
<1>1. PICK i \in 1 .. n : m \in [1 .. i -> Byte]
  BY DEF MsgUpTo
<1>2. m \in Seq(Byte)
  BY <1>1, SeqDef
<1>3. Len(m) = i
  BY <1>1, <1>2, LenProperties
<1> QED
  BY <1>1, <1>3

(* A message that fits is one of the messages of the mailbox.              *)
LEMMA FitsIsMsg ==
  ASSUME NEW m \in MsgUpTo(Size + 1), Fits(m)
  PROVE  m \in Msg
BY FifoAssumption, MsgLength DEF Fits, Msg, MsgUpTo

(* The invariant holds after a reset of both sides.                        *)
LEMMA InitInv == Init => Inv
<1> SUFFICES ASSUME Init PROVE Inv
  OBVIOUS
<1>1. Blank \in Byte
  BY FifoAssumption DEF Blank
<1>2. FifoTypeOK
  <2>1. busy \in BOOLEAN
    BY Zenon DEF Init
  <2> QED
    BY <1>1, <2>1, FifoAssumption DEF Init, FifoTypeOK, WriterPCs, Index
<1>3. PopInv /\ \A p \in Producers : PushInv(p)
  BY DEF Init, PopInv, PushInv, Holding, Copied
<1> QED
  BY <1>2, <1>3 DEF Inv

(* Every step keeps the types.                                             *)
LEMMA NextTypeOK ==
  ASSUME Inv, [Next]_vars
  PROVE  FifoTypeOK'
<1> USE FifoAssumption DEF FifoTypeOK, WriterPCs, Index
<1>0. /\ FifoTypeOK
      /\ \A p \in Producers : PushInv(p)
      /\ \A p \in Producers :
           pc[p] # "idle" => /\ Len(msg[p]) \in 1 .. Size
                             /\ msg[p] \in [1 .. Len(msg[p]) -> Byte]
  BY MsgLength DEF Inv, PushInv, Msg
<1>1. ASSUME NEW p \in Producers, NEW m \in MsgUpTo(Size + 1), StartPush(p, m)
      PROVE  FifoTypeOK'
  <2>1. m \in Msg
    BY <1>1, FitsIsMsg DEF StartPush
  <2> QED
    BY <1>0, <1>1, <2>1 DEF StartPush, memory, reader
<1>2. ASSUME NEW p \in Producers, PushGetsChannel(p) PROVE FifoTypeOK'
  BY <1>0, <1>2 DEF PushGetsChannel, memory, reader
<1>3. ASSUME NEW p \in Producers, PushCopy(p) PROVE FifoTypeOK'
  <2>1. wi[p] + 1 \in 1 .. Len(msg[p])
    BY <1>0, <1>3 DEF PushCopy, PushInv
  <2> QED
    BY <1>0, <1>3, <2>1 DEF PushCopy, memory, reader
<1>4. ASSUME NEW p \in Producers, PushSetLength(p) PROVE FifoTypeOK'
  BY <1>0, <1>4 DEF PushSetLength, memory, reader
<1>5. ASSUME NEW p \in Producers, PushCleanBuffer(p) PROVE FifoTypeOK'
  BY <1>0, <1>5 DEF PushCleanBuffer, reader
<1>6. ASSUME NEW p \in Producers, PushCleanLength(p) PROVE FifoTypeOK'
  BY <1>0, <1>6 DEF PushCleanLength, reader
<1>7. ASSUME NEW p \in Producers, PushSetBusy(p) PROVE FifoTypeOK'
  <2>1. busy' \in BOOLEAN
    BY <1>7, Zenon DEF PushSetBusy
  <2> QED
    BY <1>0, <1>7, <2>1 DEF PushSetBusy, memory, reader
<1>8. CASE StartPop
  BY <1>0, <1>8 DEF StartPop, writer, memory
<1>9. CASE PopCopy
  BY <1>0, <1>9 DEF PopCopy, writer, memory
<1>10. CASE FinishPop
  <2>1. busy' \in BOOLEAN
    BY <1>10, Zenon DEF FinishPop
  <2>2. [i \in 1 .. rlen |-> rxbuf[i]] \in Msg \cup {<<>>}
    <3>1. CASE rlen = 0
      BY <3>1
    <3>2. CASE rlen \in 1 .. Size
      <4>1. [i \in 1 .. rlen |-> rxbuf[i]] \in [1 .. rlen -> Byte]
        BY <1>0, <3>2
      <4> QED
        BY <3>2, <4>1 DEF Msg, MsgUpTo
    <3>3. rlen = 0 \/ rlen \in 1 .. Size
      BY <1>0
    <3> QED
      BY <3>1, <3>2, <3>3
  <2>3. taken' \in [msg : Msg \cup {<<>>}, bit : {0, 1}]
    BY <1>10, <2>2 DEF FinishPop, Returned
  <2> QED
    BY <1>0, <1>10, <2>1, <2>3 DEF FinishPop, writer, memory
<1>11. CASE EvictLength
  BY <1>0, <1>11 DEF EvictLength, writer, reader
<1>12. ASSUME NEW i \in Index, EvictByte(i) PROVE FifoTypeOK'
  BY <1>0, <1>12 DEF EvictByte, writer, reader
<1>13. CASE UNCHANGED vars
  BY <1>0, <1>13 DEF vars
<1> QED
  BY <1>1, <1>2, <1>3, <1>4, <1>5, <1>6, <1>7, <1>8, <1>9, <1>10, <1>11, <1>12, <1>13
  DEF Next, PushStep, PopStep, Evict

(* With one producer every step keeps what Push() has established and what *)
(* Pop() relies on.                                                        *)
LEMMA NextInv ==
  ASSUME NEW p, Producers = {p}, Inv, [Next]_vars
  PROVE  PopInv' /\ PushInv(p)'
<1> USE DEF Holding, Copied
<1>0. /\ FifoTypeOK /\ FifoTypeOK' /\ PopInv /\ PushInv(p)
      /\ pc[p] # "idle" => /\ Len(msg[p]) \in 1 .. Size
                           /\ msg[p] \in [1 .. Len(msg[p]) -> Byte]
      /\ Size \in Nat /\ p \in Producers
  BY NextTypeOK, MsgLength, FifoAssumption DEF Inv, PushInv, Msg
<1>1. ASSUME NEW m \in MsgUpTo(Size + 1), StartPush(p, m)
      PROVE  PopInv' /\ PushInv(p)'
  <2>1. m \in Msg
    BY <1>1, FitsIsMsg DEF StartPush
  <2> QED
    BY <1>0, <1>1, <2>1 DEF StartPush, memory, reader, FifoTypeOK, PopInv, PushInv
<1>2. CASE PushGetsChannel(p)
  BY <1>0, <1>2 DEF PushGetsChannel, memory, reader, FifoTypeOK, PopInv, PushInv
<1>3. CASE PushCopy(p)
  <2>1. PopInv'
    BY <1>0, <1>3 DEF PushCopy, memory, reader, PopInv, PushInv
  <2>2. /\ msg' = msg /\ wi'[p] = wi[p] + 1 /\ busy' = busy /\ rpc' = rpc
        /\ bufC'[wi[p] + 1] = msg[p][wi[p] + 1]
        /\ \A i \in 1 .. wi[p] : bufC'[i] = bufC[i]
    BY <1>0, <1>3 DEF PushCopy, memory, reader, FifoTypeOK, PushInv, Index
  <2>0. msg'[p] \in Msg /\ ~busy' /\ rpc' = "idle"
    BY <1>0, <1>3, <2>2 DEF PushCopy, PushInv
  <2>3. \A i \in 1 .. wi'[p] : bufC'[i] = msg'[p][i]
    BY <1>0, <1>3, <2>2 DEF PushCopy, FifoTypeOK, PushInv
  <2>4. CASE pc'[p] = "copy"
    <3>1. wi'[p] < Len(msg[p])
      BY <1>0, <1>3, <2>2, <2>4 DEF PushCopy, FifoTypeOK, PushInv
    <3> QED
      BY <2>0, <2>1, <2>2, <2>3, <2>4, <3>1 DEF PushInv
  <2>5. CASE pc'[p] = "setlen"
    <3>1. wi'[p] = Len(msg[p])
      BY <1>0, <1>3, <2>2, <2>5 DEF PushCopy, FifoTypeOK
    <3> QED
      BY <2>0, <2>1, <2>2, <2>3, <2>5, <3>1 DEF PushInv
  <2>6. pc'[p] \in {"copy", "setlen"}
    BY <1>0, <1>3 DEF PushCopy, FifoTypeOK
  <2> QED
    BY <2>4, <2>5, <2>6
<1>4. CASE PushSetLength(p)
  BY <1>0, <1>4 DEF PushSetLength, memory, reader, FifoTypeOK, PopInv, PushInv
<1>5. CASE PushCleanBuffer(p)
  <2>1. PopInv'
    BY <1>0, <1>5 DEF PushCleanBuffer, reader, PopInv, PushInv
  <2>2. \A i \in 1 .. Len(msg[p]) : bufM'[i] = bufC[i]
    BY <1>0, <1>5 DEF PushCleanBuffer, Index
  <2>3. PushInv(p)'
    BY <1>0, <1>5, <2>2 DEF PushCleanBuffer, reader, FifoTypeOK, PushInv
  <2> QED
    BY <2>1, <2>3
<1>6. CASE PushCleanLength(p)
  BY <1>0, <1>6 DEF PushCleanLength, reader, FifoTypeOK, PopInv, PushInv
<1>7. CASE PushSetBusy(p)
  BY <1>0, <1>7 DEF PushSetBusy, memory, reader, FifoTypeOK, PopInv, PushInv
<1>8. CASE StartPop
  BY <1>0, <1>8 DEF StartPop, writer, memory, FifoTypeOK, PopInv, PushInv
<1>9. CASE PopCopy
  <2>1. PopInv'
    BY <1>0, <1>9 DEF PopCopy, writer, memory, FifoTypeOK, PopInv, Index
  <2>2. PushInv(p)'
    BY <1>0, <1>9 DEF PopCopy, writer, memory, PopInv, PushInv
  <2> QED
    BY <2>1, <2>2
<1>10. CASE FinishPop
  BY <1>0, <1>10 DEF FinishPop, writer, memory, FifoTypeOK, PopInv, PushInv
<1>11. CASE EvictLength
  BY <1>0, <1>11 DEF EvictLength, writer, reader, FifoTypeOK, PopInv, PushInv
<1>12. ASSUME NEW i \in Index, EvictByte(i) PROVE PopInv' /\ PushInv(p)'
  <2>1. PopInv'
    BY <1>0, <1>12 DEF EvictByte, writer, reader, FifoTypeOK, PopInv, Index
  <2>2. PushInv(p)'
    BY <1>0, <1>12 DEF EvictByte, writer, reader, FifoTypeOK, PushInv, Index
  <2> QED
    BY <2>1, <2>2
<1>13. CASE UNCHANGED vars
  BY <1>0, <1>13 DEF vars, PopInv, PushInv
<1> QED
  BY <1>1, <1>2, <1>3, <1>4, <1>5, <1>6, <1>7, <1>8, <1>9, <1>10, <1>11, <1>12, <1>13
  DEF Next, PushStep, PopStep, Evict

-----------------------------------------------------------------------------
(* The refinement.                                                         *)

LEMMA RefinedInit == Init => Channel!Init
BY DEF Init, Channel!Init, Pushing, Slot

(* A step that starts or ends no Push() and no Pop() leaves the mailbox    *)
(* as it was: an eviction in particular rewrites a byte by itself.         *)
LEMMA RefinedNext ==
  ASSUME NEW p, Producers = {p}, Inv, Inv', [Next]_vars
  PROVE  [Channel!Next]_Channel!vars
<1> DEFINE Stutter == Pushing' = Pushing /\ Slot' = Slot /\ taken' = taken
<1>s. Stutter => UNCHANGED Channel!vars
  BY DEF Channel!vars
<1> HIDE DEF Stutter
<1> USE DEF Holding, Copied
<1>0. /\ FifoTypeOK /\ PopInv /\ PushInv(p)
      /\ FifoTypeOK' /\ PopInv' /\ PushInv(p)'
      /\ p \in Producers
  BY DEF Inv
<1>1. ASSUME NEW m \in MsgUpTo(Size + 1), StartPush(p, m)
      PROVE  Channel!Next
  <2>1. m \in Msg
    BY <1>1, FitsIsMsg DEF StartPush
  <2>2. Pushing[p] = <<>> /\ Pushing' = [Pushing EXCEPT ![p] = <<m>>]
    BY <1>0, <1>1 DEF StartPush, Pushing, FifoTypeOK
  <2>3. Slot' = Slot /\ taken' = taken
    BY <1>1 DEF StartPush, Slot, memory, reader
  <2> QED
    BY <1>0, <2>1, <2>2, <2>3 DEF Channel!Next, Channel!Call
<1>2. CASE PushGetsChannel(p)
  <2>1. Stutter
    BY <1>0, <1>2 DEF PushGetsChannel, Stutter, Pushing, Slot, memory, reader, FifoTypeOK
  <2> QED
    BY <1>s, <2>1
<1>3. CASE PushCopy(p) \/ PushSetLength(p)
  <2>1. Stutter
    BY <1>0, <1>3
    DEF PushCopy, PushSetLength, Stutter, Pushing, Slot, memory, reader, FifoTypeOK
  <2> QED
    BY <1>s, <2>1
<1>4. CASE PushCleanBuffer(p) \/ PushCleanLength(p)
  <2>1. Pushing' = Pushing /\ taken' = taken /\ ~busy /\ ~busy'
    BY <1>0, <1>4
    DEF PushCleanBuffer, PushCleanLength, Pushing, reader, FifoTypeOK, PushInv
  <2>2. Stutter
    BY <2>1 DEF Stutter, Slot
  <2> QED
    BY <1>s, <2>2
<1>5. CASE PushSetBusy(p)
  <2>1. Slot = <<>> /\ busy'
    BY <1>0, <1>5 DEF PushSetBusy, Slot, PushInv
  <2>2. Pushing[p] = <<msg[p]>> /\ Pushing' = [Pushing EXCEPT ![p] = <<>>]
    BY <1>0, <1>5 DEF PushSetBusy, Pushing, FifoTypeOK
  <2>3. [i \in 1 .. lenM |-> bufM[i]]' = msg[p]
    <3>1. msg[p] \in [1 .. Len(msg[p]) -> Byte] /\ Len(msg[p]) = lenM
      BY <1>0, <1>5, MsgLength, FifoAssumption DEF PushSetBusy, PushInv, Msg
    <3>2. \A i \in 1 .. lenM : bufM[i] = msg[p][i]
      BY <1>0, <1>5, <3>1 DEF PushSetBusy, PushInv
    <3>3. lenM' = lenM /\ bufM' = bufM
      BY <1>5 DEF PushSetBusy, memory
    <3> QED
      BY <3>1, <3>2, <3>3
  <2>4. Slot' = <<msg[p]>>
    BY <2>1, <2>3 DEF Slot
  <2>5. taken' = taken
    BY <1>5 DEF PushSetBusy, reader
  <2> QED
    BY <1>0, <2>1, <2>2, <2>4, <2>5 DEF Channel!Next, Channel!Deposit
<1>6. CASE StartPop \/ PopCopy
  <2>1. /\ pc' = pc /\ msg' = msg /\ taken' = taken
        /\ busy' = busy /\ lenM' = lenM /\ bufM' = bufM
    <3>1. CASE StartPop
      BY <3>1 DEF StartPop, writer, memory
    <3>2. CASE PopCopy
      BY <3>2 DEF PopCopy, writer, memory
    <3> QED
      BY <1>6, <3>1, <3>2
  <2>2. Pushing' = Pushing /\ Slot' = Slot
    BY <2>1 DEF Pushing, Slot
  <2>3. Stutter
    BY <2>1, <2>2 DEF Stutter
  <2> QED
    BY <1>s, <2>3
<1>7. CASE FinishPop
  <2>1. Slot = <<[i \in 1 .. lenM |-> bufM[i]]>> /\ Slot' = <<>>
    BY <1>0, <1>7 DEF FinishPop, Slot, PopInv
  <2>2. [i \in 1 .. rlen |-> rxbuf[i]] = [i \in 1 .. lenM |-> bufM[i]]
    BY <1>0, <1>7 DEF FinishPop, PopInv
  <2>3. Slot # <<>> /\ Slot[1] = [i \in 1 .. rlen |-> rxbuf[i]]
    BY <2>1, <2>2
  <2>4. taken' = [msg |-> Slot[1], bit |-> IF taken.bit = 0 THEN 1 ELSE 0]
    BY <1>7, <2>3 DEF FinishPop, Returned
  <2>5. Pushing' = Pushing
    BY <1>7 DEF FinishPop, Pushing, writer
  <2> QED
    BY <2>1, <2>3, <2>4, <2>5 DEF Channel!Next, Channel!Take
<1>8. CASE EvictLength
  <2>1. busy => lenM' = lenM
    BY <1>0, <1>8 DEF EvictLength, PopInv
  <2>2. Stutter
    BY <1>8, <2>1 DEF EvictLength, Stutter, Pushing, Slot, writer, reader
  <2> QED
    BY <1>s, <2>2
<1>9. ASSUME NEW i \in Index, EvictByte(i) PROVE UNCHANGED Channel!vars
  <2>1. /\ busy' = busy /\ lenM' = lenM /\ Pushing' = Pushing /\ taken' = taken
        /\ bufM' = [bufM EXCEPT ![i] = bufC[i]]
    BY <1>9 DEF EvictByte, Pushing, writer, reader
  <2>2. busy => \A j \in 1 .. lenM : bufM'[j] = bufM[j]
    BY <1>0, <2>1 DEF PopInv, FifoTypeOK, Index
  <2>3. busy => [j \in 1 .. lenM |-> bufM[j]]' = [j \in 1 .. lenM |-> bufM[j]]
    BY <2>1, <2>2
  <2>4. Slot' = Slot
    BY <2>1, <2>3 DEF Slot
  <2> QED
    BY <1>s, <2>1, <2>4 DEF Stutter
<1>10. CASE UNCHANGED vars
  BY <1>s, <1>10 DEF vars, Stutter, Pushing, Slot
<1> QED
  BY <1>1, <1>2, <1>3, <1>4, <1>5, <1>6, <1>7, <1>8, <1>9, <1>10
  DEF Next, PushStep, PopStep, Evict

-----------------------------------------------------------------------------

(* The inductive invariant, with one producer.                             *)
THEOREM Invariance ==
  ASSUME NEW CONSTANT p, Producers = {p}
  PROVE  Spec => []Inv
<1>1. Inv /\ [Next]_vars => Inv'
  BY NextTypeOK, NextInv DEF Inv
<1> QED
  BY InitInv, <1>1, PTL DEF Spec

(* Types, and no index leaves its buffer (FifoTypeOK).                     *)
THEOREM TypeCorrect ==
  ASSUME NEW CONSTANT p, Producers = {p}
  PROVE  Spec => []FifoTypeOK
<1>1. Inv => FifoTypeOK
  BY DEF Inv
<1> QED
  BY Invariance, <1>1, PTL

(* With one producer the FIFO implements the mailbox (ImplementsMailbox).  *)
THEOREM Refinement ==
  ASSUME NEW CONSTANT p, Producers = {p}
  PROVE  Spec => ImplementsMailbox
<1>1. Inv /\ Inv' /\ [Next]_vars => [Channel!Next]_Channel!vars
  BY RefinedNext
<1> QED
  BY Invariance, RefinedInit, <1>1, PTL DEF Spec, ImplementsMailbox, Channel!Spec

-----------------------------------------------------------------------------
(* Part two: the log device.                                               *)

LogInv == Inv /\ LogTypeOK

(* The core's buffer, if it fits into the FIFO's, is one of its messages.  *)
LEMMA BufferIsMessage ==
  ASSUME NEW buf \in Seq(Byte), buf # <<>>, Fits(buf)
  PROVE  buf \in MsgUpTo(Size + 1) /\ buf \in Msg
<1>1. Len(buf) \in 1 .. Size /\ buf \in [1 .. Len(buf) -> Byte]
  BY EmptySeq, LenProperties, FifoAssumption DEF Fits
<1>2. Len(buf) \in 1 .. Size + 1
  BY <1>1, FifoAssumption
<1> QED
  BY <1>1, <1>2 DEF Msg, MsgUpTo

(* What PrintBinary() adds to the buffer.                                  *)
LEMMA BufferGrows ==
  ASSUME LogTypeOK, NEW ch \in Byte
  PROVE  /\ Append(txbuf, ch) \in Seq(Byte) /\ Append(txbuf, ch) # <<>>
         /\ Len(Append(txbuf, ch)) = Len(txbuf) + 1 /\ Len(txbuf) + 1 <= TxSize
BY AppendProperties, LenProperties, LogAssumption DEF LogTypeOK

(* Flush() either hands the buffer to Push() or drops it.                  *)
LEMMA FlushCases ==
  ASSUME NEW buf, FlushOf(buf)
  PROVE  /\ txbuf' = <<>>
         /\ IF channel /\ buf # <<>> /\ Fits(buf) THEN StartPush(Core, buf)
                                                  ELSE UNCHANGED fifoVars
BY DEF FlushOf

(* To the FIFO every step of the log device is a step of its own or none.  *)
LEMMA LogStepIsFifoStep ==
  ASSUME LogTypeOK, [LogNext]_logVars
  PROVE  [Next]_vars
<1>1. UNCHANGED fifoVars => UNCHANGED vars
  BY DEF fifoVars, vars, writer, memory, reader
<1>2. Core \in Producers
  BY LogAssumption
<1>3. ASSUME NEW buf \in Seq(Byte), FlushOf(buf) PROVE [Next]_vars
  <2>1. CASE channel /\ buf # <<>> /\ Fits(buf)
    BY <1>2, <1>3, <2>1, FlushCases, BufferIsMessage DEF Next
  <2>2. CASE ~(channel /\ buf # <<>> /\ Fits(buf))
    BY <1>1, <1>3, <2>2, FlushCases
  <2> QED
    BY <2>1, <2>2
<1>4. ASSUME NEW ch \in Byte, PrintBinary(ch) PROVE [Next]_vars
  <2>1. FlushOf(Append(txbuf, ch)) \/ UNCHANGED fifoVars
    BY <1>4 DEF PrintBinary
  <2> QED
    BY <1>1, <1>3, <2>1, BufferGrows
<1>5. CASE FlushTask
  BY <1>3, <1>5 DEF FlushTask, LogTypeOK
<1>6. CASE LookupChannel
  BY <1>1, <1>6 DEF LookupChannel
<1>7. CASE Transport
  BY <1>2, <1>7 DEF Transport, Next
<1>8. CASE UNCHANGED logVars
  BY <1>1, <1>8 DEF logVars
<1> QED
  BY <1>4, <1>5, <1>6, <1>7, <1>8 DEF LogNext

LEMMA LogInitInv == LogInit => LogInv
<1> SUFFICES ASSUME LogInit PROVE LogInv
  OBVIOUS
<1>1. Inv
  BY InitInv DEF LogInit
<1>2. channel \in BOOLEAN
  BY Zenon DEF LogInit
<1>3. txbuf \in Seq(Byte) /\ Len(txbuf) < TxSize
  BY EmptySeq, LogAssumption DEF LogInit
<1> QED
  BY <1>1, <1>2, <1>3 DEF LogInv, LogTypeOK, Inv

LEMMA LogNextInv ==
  ASSUME LogInv, [LogNext]_logVars
  PROVE  LogInv'
<1>1. Inv'
  BY LogStepIsFifoStep, NextTypeOK, NextInv, LogAssumption DEF LogInv, Inv
<1>2. LogTypeOK
  BY DEF LogInv
<1>3. txbuf' = <<>> => txbuf' \in Seq(Byte) /\ Len(txbuf') < TxSize
  BY EmptySeq, LogAssumption
<1>4. ASSUME NEW ch \in Byte, PrintBinary(ch)
      PROVE  channel' = channel /\ txbuf' \in Seq(Byte) /\ Len(txbuf') < TxSize
  <2>1. CASE FlushDue(Append(txbuf, ch), ch)
    BY <1>3, <1>4, <2>1, FlushCases DEF PrintBinary
  <2>2. CASE ~FlushDue(Append(txbuf, ch), ch)
    <3>1. txbuf' = Append(txbuf, ch) /\ Len(Append(txbuf, ch)) # TxSize
      BY <1>4, <2>2 DEF PrintBinary, FlushDue
    <3> QED
      BY <1>2, <1>4, <3>1, BufferGrows, LogAssumption DEF PrintBinary, LogTypeOK
  <2> QED
    BY <2>1, <2>2
<1>5. ASSUME FlushTask \/ LookupChannel \/ Transport \/ UNCHANGED logVars
      PROVE  txbuf' \in Seq(Byte) /\ Len(txbuf') < TxSize
  <2>1. txbuf' = <<>> \/ txbuf' = txbuf
    BY <1>5, FlushCases DEF FlushTask, LookupChannel, Transport, logVars
  <2> QED
    BY <1>2, <1>3, <2>1 DEF LogTypeOK
<1>6. txbuf' \in Seq(Byte) /\ Len(txbuf') < TxSize
  BY <1>4, <1>5 DEF LogNext
<1>7. channel' \in BOOLEAN
  <2>1. channel' = channel \/ channel' \in BOOLEAN
    BY DEF LogNext, PrintBinary, FlushTask, LookupChannel, Transport, logVars
  <2> QED
    BY <1>2, <2>1, Zenon DEF LogTypeOK
<1> QED
  BY <1>1, <1>6, <1>7 DEF LogInv, LogTypeOK, Inv

THEOREM LogInvariance == LogSpec => []LogInv
BY LogInitInv, LogNextInv, PTL DEF LogSpec

(* The local buffer never runs over, and no index of the channel leaves its*)
(* buffer (LogTypeOK): whatever is printed and however long lines are.     *)
THEOREM LogTypeCorrect == LogSpec => []LogTypeOK
<1>1. LogInv => LogTypeOK
  BY DEF LogInv
<1> QED
  BY LogInvariance, <1>1, PTL

(* Below a log device the FIFO is still a mailbox (ImplementsMailbox).     *)
THEOREM LogUsesMailbox == LogSpec => ImplementsMailbox
<1>1. LogInit => Channel!Init
  BY RefinedInit DEF LogInit
<1>2. LogInv /\ LogInv' /\ [LogNext]_logVars => [Channel!Next]_Channel!vars
  BY LogStepIsFifoStep, RefinedNext, LogAssumption DEF LogInv
<1> QED
  BY LogInvariance, <1>1, <1>2, PTL DEF LogSpec, ImplementsMailbox, Channel!Spec

-----------------------------------------------------------------------------
(* The stream, over the mailbox.                                           *)

(* A sequence cut where two were joined.                                   *)
LEMMA CutOfConcat ==
  ASSUME NEW S, NEW s \in Seq(S), NEW t \in Seq(S)
  PROVE  /\ SubSeq(s \o t, 1, Len(s)) = s
         /\ SubSeq(s \o t, Len(s) + 1, Len(s \o t)) = t
<1> DEFINE u == s \o t
<1>1. /\ u \in Seq(S) /\ Len(u) = Len(s) + Len(t) /\ Len(s) \in Nat /\ Len(t) \in Nat
      /\ \A i \in 1 .. Len(s) + Len(t) : u[i] = IF i <= Len(s) THEN s[i] ELSE t[i - Len(s)]
  BY ConcatProperties, LenProperties
<1>2. \A i \in 1 .. Len(u) : u[i] \in S
  BY <1>1, ElementOfSeq
<1> HIDE DEF u
<1>3. SubSeq(u, 1, Len(s)) = s
  <2>1. /\ SubSeq(u, 1, Len(s)) \in Seq(S) /\ Len(SubSeq(u, 1, Len(s))) = Len(s)
        /\ \A i \in 1 .. Len(s) : SubSeq(u, 1, Len(s))[i] = u[i]
    BY <1>1, <1>2, SubSeqProperties
  <2> QED
    BY <1>1, <2>1, SeqEqual
<1>4. SubSeq(u, Len(s) + 1, Len(u)) = t
  <2> DEFINE v == SubSeq(u, Len(s) + 1, Len(u))
  <2>1. /\ v \in Seq(S) /\ Len(v) = Len(t)
        /\ \A i \in 1 .. Len(t) : v[i] = u[Len(s) + i]
    BY <1>1, <1>2, SubSeqProperties
  <2>2. \A i \in 1 .. Len(t) : v[i] = t[i]
    BY <1>1, <2>1
  <2> HIDE DEF v
  <2>3. v = t
    BY <1>1, <2>1, <2>2, SeqEqual
  <2> QED
    BY <2>3 DEF v
<1> QED
  BY <1>3, <1>4 DEF u

(* The bytes in the mailbox, and those a Push() has not put there.         *)
Waiting == IF busy THEN [i \in 1 .. lenM |-> bufM[i]] ELSE <<>>
InPush == IF Running THEN <<>> ELSE msg[Core]

LEMMA TransitParts ==
  ASSUME LogInv
  PROVE  /\ Waiting \in Seq(Byte) /\ InPush \in Seq(Byte) /\ txbuf \in Seq(Byte)
         /\ busy => Len(Waiting) > 0 /\ Waiting # <<>>
         /\ InTransit = (Waiting \o InPush) \o txbuf
<1>1. Waiting \in Seq(Byte) /\ (busy => Len(Waiting) > 0 /\ Waiting # <<>>)
  <2>1. CASE busy
    <3>1. lenM \in 1 .. Size /\ bufM \in [1 .. Size -> Byte] /\ Size \in Nat
      BY <2>1, FifoAssumption DEF LogInv, Inv, PopInv, FifoTypeOK, Index
    <3>2. Waiting \in [1 .. lenM -> Byte]
      BY <2>1, <3>1 DEF Waiting
    <3>3. Waiting \in Seq(Byte) /\ Len(Waiting) = lenM
      BY <3>1, <3>2
    <3> QED
      BY <3>1, <3>3, EmptySeq
  <2>2. CASE ~busy
    BY <2>2, EmptySeq DEF Waiting
  <2> QED
    BY <2>1, <2>2
<1>2. InPush \in Seq(Byte)
  <2>1. CASE Running
    BY <2>1, EmptySeq DEF InPush
  <2>2. CASE ~Running
    <3>1. msg[Core] \in Msg
      BY <2>2, LogAssumption DEF LogInv, Inv, PushInv, Running
    <3>2. msg[Core] \in [1 .. Len(msg[Core]) -> Byte] /\ Len(msg[Core]) \in 1 .. Size
      BY <3>1, MsgLength, FifoAssumption DEF Msg
    <3> QED
      BY <2>2, <3>2, FifoAssumption DEF InPush
  <2> QED
    BY <2>1, <2>2
<1>3. txbuf \in Seq(Byte)
  BY DEF LogInv, LogTypeOK
<1> QED
  BY <1>1, <1>2, <1>3 DEF InTransit, Waiting, InPush

(* What Flush() of a buffer the FIFO has room for does to the stream.      *)
LEMMA FlushedStream ==
  ASSUME LogInv, LogInv', Running, NEW buf \in Seq(Byte), Fits(buf), FlushOf(buf)
  PROVE  taken' = taken /\ InTransit' = IF channel THEN Waiting \o buf ELSE Waiting
<1>1. Waiting \in Seq(Byte) /\ txbuf' = <<>>
  BY TransitParts, FlushCases
<1>2. /\ Waiting \o <<>> = Waiting /\ (Waiting \o <<>>) \o <<>> = Waiting
      /\ (Waiting \o buf) \o <<>> = Waiting \o buf
  BY <1>1, ConcatEmptySeq, ConcatProperties
<1>3. CASE channel /\ buf # <<>>
  <2>1. StartPush(Core, buf)
    BY <1>3, FlushCases
  <2>2. Waiting' = Waiting /\ taken' = taken
    BY <2>1 DEF StartPush, Waiting, memory, reader
  <2>3. InPush' = buf
    BY <2>1, LogAssumption DEF StartPush, InPush, Running, LogInv, Inv, FifoTypeOK
  <2> QED
    BY <1>1, <1>2, <1>3, <2>2, <2>3 DEF InTransit, Waiting, InPush
<1>4. CASE ~channel \/ buf = <<>>
  <2>1. UNCHANGED fifoVars
    BY <1>4, FlushCases
  <2>2. Waiting' = Waiting /\ taken' = taken /\ Running'
    BY <2>1 DEF fifoVars, writer, memory, reader, Waiting, Running
  <2>3. InTransit' = Waiting
    BY <1>1, <1>2, <2>2 DEF InTransit, Waiting
  <2> QED
    BY <1>2, <1>4, <2>2, <2>3
<1> QED
  BY <1>3, <1>4

(* Steps of the channel and of the core inside Push(): the mailbox's Take  *)
(* is an arrival, its Deposit carries bytes on within the stream.          *)
LEMMA TransportStream ==
  ASSUME LogInv, LogInv', Transport
  PROVE  Stream!Arrive \/ UNCHANGED Stream!vars
<1>1. channel' = channel /\ txbuf' = txbuf
  BY DEF Transport
<1>2. [Channel!Next]_Channel!vars
  BY LogStepIsFifoStep, RefinedNext, LogAssumption DEF LogInv, LogNext
<1>3. /\ Slot = IF busy THEN <<Waiting>> ELSE <<>>
      /\ Slot' = IF busy' THEN <<Waiting'>> ELSE <<>>
      /\ ~busy => Waiting = <<>>
      /\ ~busy' => Waiting' = <<>>
  BY DEF Slot, Waiting
<1>4. /\ Pushing[Core] = IF Running THEN <<>> ELSE <<InPush>>
      /\ Pushing'[Core] = IF Running' THEN <<>> ELSE <<InPush'>>
      /\ Running => InPush = <<>>
      /\ Running' => InPush' = <<>>
  BY LogAssumption DEF Pushing, InPush, Running
<1>5. /\ Waiting \in Seq(Byte) /\ InPush \in Seq(Byte) /\ txbuf \in Seq(Byte)
      /\ busy => Len(Waiting) > 0
      /\ InTransit = (Waiting \o InPush) \o txbuf
      /\ InTransit' = (Waiting' \o InPush') \o txbuf
  BY <1>1, TransitParts DEF InTransit, Waiting, InPush
<1>6. CASE UNCHANGED Channel!vars
  <2>1. Waiting' = Waiting /\ InPush' = InPush /\ taken' = taken
    BY <1>3, <1>4, <1>6 DEF Channel!vars
  <2> QED
    BY <1>1, <1>5, <2>1 DEF Stream!vars
<1>7. CASE Channel!Take
  <2>1. /\ busy /\ ~busy' /\ Waiting' = <<>> /\ InPush' = InPush
        /\ taken' = [msg |-> Waiting, bit |-> IF taken.bit = 0 THEN 1 ELSE 0]
    BY <1>3, <1>4, <1>7 DEF Channel!Take
  <2> DEFINE rest == InPush \o txbuf
  <2>2. rest \in Seq(Byte) /\ InTransit = Waiting \o rest /\ InTransit' = rest
    BY <1>5, <2>1, ConcatProperties, ConcatAssociative, ConcatEmptySeq
  <2>3. /\ SubSeq(InTransit, 1, Len(Waiting)) = Waiting
        /\ SubSeq(InTransit, Len(Waiting) + 1, Len(InTransit)) = rest
    BY <1>5, <2>2, CutOfConcat
  <2>4. Len(Waiting) \in 1 .. Len(InTransit)
    BY <1>5, <2>1, <2>2, ConcatProperties, LenProperties
  <2> QED
    BY <1>1, <2>1, <2>2, <2>3, <2>4 DEF Stream!Arrive
<1>8. ASSUME NEW p \in Producers, Channel!Deposit(p) PROVE UNCHANGED Stream!vars
  <2>1. p = Core
    BY <1>8, LogAssumption
  <2>2. /\ ~Running /\ ~busy /\ Slot' = <<InPush>> /\ taken' = taken
        /\ Pushing' = [Pushing EXCEPT ![Core] = <<>>]
    BY <1>3, <1>4, <1>8, <2>1 DEF Channel!Deposit
  <2>3. Pushing'[Core] = <<>>
    BY <2>2, LogAssumption DEF Pushing
  <2>4. Waiting = <<>> /\ Waiting' = InPush /\ InPush' = <<>>
    BY <1>3, <1>4, <2>2, <2>3
  <2>5. Waiting' \o InPush' = Waiting \o InPush
    BY <1>5, <2>4, ConcatEmptySeq
  <2> QED
    BY <1>1, <1>5, <2>2, <2>5 DEF Stream!vars
<1>9. ASSUME NEW p \in Producers, Channel!Call(p) PROVE FALSE
  <2>1. p = Core
    BY <1>9, LogAssumption
  <2>2. Running => Running'
    BY DEF Transport, PushStep, PopStep, Evict, PushGetsChannel, PushCopy, PushSetLength,
           PushCleanBuffer, PushCleanLength, PushSetBusy, StartPop, PopCopy, FinishPop,
           EvictLength, EvictByte, writer, Running
  <2>3. Pushing[Core] = <<>> /\ Pushing'[Core] # <<>>
    BY <1>9, <2>1, LogAssumption DEF Channel!Call, Pushing
  <2>4. CASE ~Running
    <3>1. <<InPush>> # <<>>
      OBVIOUS
    <3> QED
      BY <1>4, <2>3, <2>4, <3>1
  <2>5. CASE Running'
    <3>1. Pushing'[Core] = <<>>
      BY <1>4, <2>5
    <3> QED
      BY <2>3, <3>1
  <2> QED
    BY <2>2, <2>4, <2>5
<1> QED
  BY <1>2, <1>6, <1>7, <1>8, <1>9 DEF Channel!Next

LEMMA StreamNext ==
  ASSUME TxSize <= Size, LogInv, LogInv', [LogNext]_logVars
  PROVE  [Stream!Next]_Stream!vars
<1>0. LogTypeOK /\ TxSize \in Nat /\ Size \in Nat
  BY LogAssumption, FifoAssumption DEF LogInv
<1>1. /\ Waiting \in Seq(Byte) /\ txbuf \in Seq(Byte)
      /\ Running => InTransit = Waiting \o txbuf
  BY TransitParts, ConcatEmptySeq DEF InPush
<1>2. ASSUME NEW t \in Seq(Byte), Running, InTransit = Waiting \o t, ~channel,
             InTransit' = Waiting, channel' = channel, taken' = taken
      PROVE  Stream!Lose
  <2>1. SubSeq(InTransit, 1, Len(Waiting)) = Waiting
    BY <1>1, <1>2, CutOfConcat
  <2>2. Len(Waiting) \in 0 .. Len(InTransit)
    BY <1>1, <1>2, ConcatProperties, LenProperties
  <2> QED
    BY <1>2, <2>1, <2>2 DEF Stream!Lose
<1>3. ASSUME NEW ch \in Byte, PrintBinary(ch) PROVE Stream!Next
  <2> DEFINE buf == Append(txbuf, ch)
  <2>1. /\ buf \in Seq(Byte) /\ Fits(buf) /\ Running /\ channel' = channel
        /\ InTransit = Waiting \o txbuf
    BY <1>0, <1>1, <1>3, BufferGrows DEF PrintBinary, Fits
  <2>2. Waiting \o buf = Append(InTransit, ch)
    <3>1. buf = txbuf \o <<ch>> /\ <<ch>> \in Seq(Byte)
      BY <1>1, AppendIsConcat
    <3>2. Append(InTransit, ch) = (Waiting \o txbuf) \o <<ch>>
      BY <1>1, <2>1, AppendIsConcat, ConcatProperties
    <3> QED
      BY <1>1, <3>1, <3>2, ConcatAssociative
  <2>3. ASSUME InTransit' = Waiting \o buf, taken' = taken PROVE Stream!PrintByte
    BY <2>1, <2>2, <2>3 DEF Stream!PrintByte
  <2>4. CASE FlushDue(buf, ch)
    <3>1. taken' = taken /\ InTransit' = IF channel THEN Waiting \o buf ELSE Waiting
      BY <1>3, <2>1, <2>4, FlushedStream DEF PrintBinary
    <3> QED
      BY <1>1, <1>2, <2>1, <2>3, <3>1 DEF Stream!Next
  <2>5. CASE ~FlushDue(buf, ch)
    <3>1. txbuf' = buf /\ UNCHANGED fifoVars
      BY <1>3, <2>5 DEF PrintBinary
    <3>2. Waiting' = Waiting /\ taken' = taken /\ Running'
      BY <2>1, <3>1 DEF fifoVars, writer, memory, reader, Waiting, Running
    <3>3. InTransit' = (Waiting \o <<>>) \o buf
      BY <3>1, <3>2 DEF InTransit, Waiting
    <3>4. Waiting \o <<>> = Waiting
      BY <1>1, ConcatEmptySeq
    <3> QED
      BY <2>3, <3>2, <3>3, <3>4 DEF Stream!Next
  <2> QED
    BY <2>4, <2>5
<1>4. CASE FlushTask
  <2>1. Running /\ FlushOf(txbuf) /\ channel' = channel /\ Fits(txbuf)
    BY <1>0, <1>1, <1>4, LenProperties DEF FlushTask, LogTypeOK, Fits
  <2>2. taken' = taken /\ InTransit' = IF channel THEN Waiting \o txbuf ELSE Waiting
    BY <1>1, <2>1, FlushedStream
  <2> QED
    BY <1>1, <1>2, <2>1, <2>2 DEF Stream!Next, Stream!vars
<1>5. CASE LookupChannel
  <2>1. UNCHANGED <<InTransit, taken>> /\ channel' \in BOOLEAN
    BY <1>5 DEF LookupChannel, InTransit, Running, fifoVars, writer, memory, reader
  <2> QED
    BY <2>1 DEF Stream!Next, Stream!Attach
<1>6. CASE Transport
  BY <1>6, TransportStream DEF Stream!Next
<1>7. CASE UNCHANGED logVars
  BY <1>7 DEF logVars, fifoVars, writer, memory, reader, InTransit, Running, Stream!vars
<1> QED
  BY <1>3, <1>4, <1>5, <1>6, <1>7 DEF LogNext

(* If a full local buffer fits into the channel's, what a core prints is   *)
(* one stream of bytes to the other core (ImplementsStream): through the   *)
(* buffer, the cache, the memory and the flag nothing is lost while there  *)
(* is a channel, and nothing comes twice or out of order.                  *)
THEOREM LogIsStream ==
  ASSUME TxSize <= Size
  PROVE  LogSpec => ImplementsStream
<1>1. LogInit => Stream!Init
  <2> SUFFICES ASSUME LogInit PROVE Stream!Init
    OBVIOUS
  <2>1. /\ InTransit = (<<>> \o <<>>) \o <<>>
        /\ channel = FALSE /\ taken = [msg |-> <<>>, bit |-> 0]
    BY LogAssumption DEF LogInit, Init, InTransit, Running
  <2>2. InTransit = <<>>
    BY <2>1, EmptySeq, ConcatEmptySeq
  <2> QED
    BY <2>1, <2>2 DEF Stream!Init
<1>2. LogInv /\ LogInv' /\ [LogNext]_logVars => [Stream!Next]_Stream!vars
  BY StreamNext
<1> QED
  BY LogInvariance, <1>1, <1>2, PTL DEF LogSpec, ImplementsStream, Stream!Spec

=============================================================================
