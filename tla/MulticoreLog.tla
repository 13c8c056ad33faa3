---------------------------- MODULE MulticoreLog ----------------------------
(***************************************************************************)
(* The log device of a secondary core (multicore/MulticoreLogDevice.{h,cpp}*)
(* with core/LogFlushTask.h): characters gather in the core's own buffer,  *)
(* which goes to the primary core over an IPC channel.  Every core has a   *)
(* buffer and a channel of its own, so one core is enough here.            *)
(***************************************************************************)
EXTENDS IPCFifo

CONSTANTS
  Core,      \* the core
  Newline,   \* the byte that ends a line
  TxSize,    \* LOG_TXBUF_SIZE
  Reserve    \* room a line is given: 128 bytes

ASSUME LogAssumption ==
  /\ Producers = {Core} /\ Newline \in Byte
  /\ TxSize \in Nat \ {0} /\ Reserve \in 0 .. TxSize

VARIABLES
  channel,   \* m_channels[nchan] is not null
  txbuf      \* m_txBuffers[nchan] up to m_writePointers[nchan]

fifoVars == <<writer, memory, busy, reader>>
logVars == <<fifoVars, channel, txbuf>>

LogInit == Init /\ channel = FALSE /\ txbuf = <<>>

(* The core runs its own code, it is not inside Push().                    *)
Running == pc[Core] = "idle"

(* Flush() with the given contents of the buffer.  Push() copies straight  *)
(* out of it, and the core does nothing else until Push() returns; without *)
(* a channel, or if Push() finds the message too long, the bytes are gone. *)
\* Variant: the buffer is not emptied.
FlushOf_KeepsBuffer(buf) ==
  /\ txbuf' = buf
  /\ IF channel /\ buf # <<>> /\ Fits(buf) THEN StartPush(Core, buf)
                                           ELSE UNCHANGED fifoVars
FlushOf(buf) ==
  /\ txbuf' = <<>>
  /\ IF channel /\ buf # <<>> /\ Fits(buf) THEN StartPush(Core, buf)
                                           ELSE UNCHANGED fifoVars

(* Full, or at the end of a line with little room left for another.        *)
\* Variant: only the end of a line is looked at.
FlushDue_LinesOnly(buf, ch) == ch = Newline /\ Len(buf) > TxSize - Reserve
FlushDue(buf, ch) ==
  Len(buf) = TxSize \/ (ch = Newline /\ Len(buf) > TxSize - Reserve)

PrintBinary(ch) ==
  LET buf == Append(txbuf, ch) IN
  /\ Running
  /\ IF FlushDue(buf, ch) THEN FlushOf(buf)
                          ELSE txbuf' = buf /\ UNCHANGED fifoVars
  /\ UNCHANGED channel

\* Variant: the task never calls Flush().
FlushTask_Never == FALSE /\ UNCHANGED logVars
(* LogFlushTask, once per pass through the core's loop.                    *)
FlushTask == Running /\ FlushOf(txbuf) /\ UNCHANGED channel

(* FindChannel() finds a channel of that name in the table, or none.       *)
LookupChannel ==
  /\ Running
  /\ channel' \in BOOLEAN
  /\ UNCHANGED <<fifoVars, txbuf>>

Transport == (PushStep(Core) \/ PopStep \/ Evict) /\ UNCHANGED <<channel, txbuf>>

LogNext ==
  \/ \E ch \in Byte : PrintBinary(ch)
  \/ FlushTask \/ LookupChannel \/ Transport

LogSpec == LogInit /\ [][LogNext]_logVars

(* Both cores run, and the primary one polls the channel.                  *)
LogFairSpec ==
  /\ LogSpec
  /\ WF_logVars(FlushTask)
  /\ WF_logVars(PushStep(Core) /\ UNCHANGED <<channel, txbuf>>)
  /\ WF_logVars(PopStep /\ UNCHANGED <<channel, txbuf>>)

-----------------------------------------------------------------------------
(* Properties.                                                             *)

(* Types.  The local buffer never runs over.                               *)
LogTypeOK ==
  /\ FifoTypeOK
  /\ channel \in BOOLEAN
  /\ txbuf \in Seq(Byte) /\ Len(txbuf) < TxSize

(* Through buffer, cache, memory and flag the log is one stream of bytes:  *)
(* none is lost while there is a channel whose buffer holds a full local   *)
(* one, none comes twice or out of order.                                  *)
InTransit ==
  (IF busy THEN [i \in 1 .. lenM |-> bufM[i]] ELSE <<>>)
    \o (IF Running THEN <<>> ELSE msg[Core]) \o txbuf
Stream == INSTANCE LogStream WITH pending <- InTransit
ImplementsStream == Stream!Spec

(* What was printed reaches the primary core, a short line that fills no   *)
(* buffer included: some of it arrives as long as there is any.            *)
LogArrives ==
  \A b \in {0, 1} :
    InTransit # <<>> /\ taken.bit = b ~> InTransit = <<>> \/ taken.bit # b

=============================================================================
