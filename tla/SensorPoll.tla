------------------------------ MODULE SensorPoll ------------------------------
(***************************************************************************)
(* The supervisor's sensors (supervisor/supervisor.cpp): PollIBCSensors(), *)
(* called once per pass through the main loop, goes round the sensors with *)
(* one of two readers (TempSensorReader, IBCRegisterReader) that take one  *)
(* step of an I2C transaction per call, and SupervisorSPIServer hands what *)
(* they found to the main CPU.  Bus, slaves and main CPU are external.     *)
(***************************************************************************)
EXTENDS Integers, Sequences, SequencesExt

CONSTANTS
  Rotation,    \* the sensors in the order of the states of PollIBCSensors
  TempSensor,  \* the one behind the temperature reader
  AdcSensors,  \* those read by the supervisor's own ADC
  Refreshing,  \* those whose arrival sets iLastUpdate to 0
  Hosted,      \* those the main CPU asks for
  Timeout,     \* polls until everything is reset: 30000
  MaxPolls,    \* polls a step of the bus or of the ADC may take
  MaxLosses    \* transactions that a slave leaves hanging

Sensors == ToSet(Rotation)

ASSUME PollAssumption ==
  /\ Rotation \in Seq(Sensors) /\ Rotation # <<>> /\ Rotation[1] = TempSensor
  /\ AdcSensors \subseteq Sensors \ {TempSensor}
  /\ Refreshing \subseteq Sensors /\ Hosted \subseteq Sensors
  /\ Timeout \in Nat \ {0} /\ MaxPolls \in Nat /\ MaxLosses \in Nat

Readers == {"temp", "ibc"}
ReaderOf(s) == IF s = TempSensor THEN "temp" ELSE "ibc"

(* A byte of a reading: its sensor, which of two samples, and which half.  *)
Byte(s, n, half) == <<s, n, half>>
Bytes == Sensors \X {0, 1} \X {"hi", "lo"}
Zero == <<"zero">>
Sample(s, n) == [hi |-> Byte(s, n, "hi"), lo |-> Byte(s, n, "lo")]
NoReading == [hi |-> Zero, lo |-> Zero]

VARIABLES
  state, iLastUpdate,  \* static locals of PollIBCSensors
  m_state, m_tmpval,   \* per reader
  reading,             \* g_ibcTemp, g_vin48, ...: per sensor
  bus,                 \* the transaction: step, slave, register, step done, slave gone
  pointer,             \* per slave: its register pointer
  latch,               \* which sample the slave is sending
  waited, losses,      \* polls spent on this step, transactions lost so far
  fifo, asked, got     \* SPI: bytes to send, sensor asked for, bytes received

poller == <<state, iLastUpdate, m_state, m_tmpval, reading>>
spi == <<fifo, asked, got>>
vars == <<state, iLastUpdate, m_state, m_tmpval, reading, bus, pointer,
          latch, waited, losses, fifo, asked, got>>

FreeBus == [op |-> "none", dev |-> "temp", reg |-> TempSensor, done |-> FALSE, lost |-> FALSE]

Init ==
  /\ state = 0 /\ iLastUpdate = 0
  /\ m_state = [r \in Readers |-> "idle"] /\ m_tmpval = [r \in Readers |-> Zero]
  /\ reading = [s \in Sensors |-> NoReading]
  /\ bus = FreeBus /\ pointer = [r \in Readers |-> TempSensor]
  /\ latch = 0 /\ waited = 0 /\ losses = 0
  /\ fifo = <<>> /\ asked = TempSensor /\ got = <<>>

-----------------------------------------------------------------------------
(* The I2C peripheral.                                                     *)

Busy(op, r, s) == [op |-> op, dev |-> r, reg |-> s, done |-> FALSE, lost |-> FALSE]
IsDone(op) == bus.op = op /\ bus.done
DataByte == Byte(pointer[bus.dev], latch, bus.op)

-----------------------------------------------------------------------------
(* PollIBCSensors(): one disjunct per way through it.                      *)

(* Its first lines: the poll counts, and has not timed out.                *)
\* Variant: one poll too late.
Polling_OneMore == state < Len(Rotation) /\ iLastUpdate <= Timeout
Polling == state < Len(Rotation) /\ iLastUpdate < Timeout
Current == Rotation[state + 1]
Counted == iLastUpdate' = iLastUpdate + 1

(* A reader takes its step from one state to the next.                     *)
Reads(s, from, to) ==
  LET r == ReaderOf(s) IN
  /\ Polling /\ s = Current /\ s \notin AdcSensors
  /\ m_state[r] = from /\ m_state' = [m_state EXCEPT ![r] = to]
  /\ waited' = 0

StartAddress(s) ==
  /\ Reads(s, "idle", "addrStart")
  /\ bus' = Busy("addr", ReaderOf(s), s)
  /\ Counted /\ UNCHANGED <<state, m_tmpval, reading>>

\* Variant: the register of the first sensor is always asked for.
RegisterOf_First(s) == Rotation[2]
RegisterOf(s) == s
SendRegister(s) ==
  /\ Reads(s, "addrStart", "regid") /\ IsDone("addr")
  /\ bus' = Busy("reg", ReaderOf(s), RegisterOf(s))
  /\ Counted /\ UNCHANGED <<state, m_tmpval, reading>>

StartRead(s) ==
  /\ Reads(s, "regid", "dataLo") /\ IsDone("reg")
  /\ bus' = Busy("hi", ReaderOf(s), bus.reg)
  /\ Counted /\ UNCHANGED <<state, m_tmpval, reading>>

\* Variant: the first byte goes straight into the published value.
FirstByte_IntoRegval(s) ==
  /\ Reads(s, "dataLo", "dataHi") /\ IsDone("hi")
  /\ m_tmpval' = [m_tmpval EXCEPT ![ReaderOf(s)] = DataByte]
  /\ reading' = [reading EXCEPT ![s].hi = DataByte]
  /\ bus' = Busy("lo", bus.dev, bus.reg)
  /\ Counted /\ UNCHANGED state
FirstByte(s) ==
  /\ Reads(s, "dataLo", "dataHi") /\ IsDone("hi")
  /\ m_tmpval' = [m_tmpval EXCEPT ![ReaderOf(s)] = DataByte]
  /\ bus' = Busy("lo", bus.dev, bus.reg)
  /\ Counted /\ UNCHANGED <<state, reading>>

(* The reading is complete: publish it and go on to the next sensor.       *)
Publish(s, value) ==
  /\ reading' = [reading EXCEPT ![s] = value]
  /\ state' = state + 1
  /\ IF s \in Refreshing THEN iLastUpdate' = 0 ELSE Counted

LastByte(s) ==
  /\ Reads(s, "dataHi", "idle") /\ IsDone("lo")
  /\ Publish(s, [hi |-> m_tmpval[ReaderOf(s)], lo |-> DataByte])
  /\ bus' = FreeBus /\ UNCHANGED m_tmpval

ReadAdc(s) ==
  /\ Polling /\ s = Current /\ s \in AdcSensors
  /\ \E n \in {0, 1} : Publish(s, Sample(s, n))
  /\ waited' = 0 /\ UNCHANGED <<m_state, m_tmpval, bus>>

(* The step under way is not done yet.                                     *)
NotYet ==
  /\ Polling /\ (bus.lost \/ waited < MaxPolls)
  /\ Current \in AdcSensors \/ (bus.op # "none" /\ ~bus.done)
  /\ waited' = IF bus.lost THEN waited ELSE waited + 1
  /\ Counted /\ UNCHANGED <<state, m_state, m_tmpval, reading, bus>>

(* The end of the rotation.                                                *)
WrapAround ==
  /\ state = Len(Rotation) /\ iLastUpdate < Timeout
  /\ state' = 0 /\ Counted
  /\ UNCHANGED <<m_state, m_tmpval, reading, bus, waited>>

(* Too many polls without news: reset everything and, in the same call,    *)
(* start over with the first sensor.                                       *)
\* Variant: the register reader is forgotten.
TimedOut_KeepsReader ==
  /\ iLastUpdate = Timeout
  /\ m_state' = [m_state EXCEPT !["temp"] = "addrStart"]
  /\ bus' = Busy("addr", "temp", TempSensor)
  /\ state' = 0 /\ iLastUpdate' = 0 /\ waited' = 0
  /\ UNCHANGED <<m_tmpval, reading>>
TimedOut ==
  /\ iLastUpdate = Timeout
  /\ m_state' = [r \in Readers |-> IF r = "temp" THEN "addrStart" ELSE "idle"]
  /\ bus' = Busy("addr", "temp", TempSensor)
  /\ state' = 0 /\ iLastUpdate' = 0 /\ waited' = 0
  /\ UNCHANGED <<m_tmpval, reading>>

Poll ==
  /\ \/ \E s \in Sensors :
          \/ StartAddress(s) \/ SendRegister(s) \/ StartRead(s)
          \/ FirstByte(s) \/ LastByte(s) \/ ReadAdc(s)
     \/ NotYet \/ WrapAround \/ TimedOut
  /\ UNCHANGED <<pointer, latch, losses, spi>>

-----------------------------------------------------------------------------
(* SupervisorSPIServer::OnCommand: a dummy byte, then the value as it lies *)
(* in memory, low byte first.  The bytes are copied into the FIFO.         *)

OnCommand(s) ==
  /\ fifo = <<>>
  /\ fifo' = <<Zero, reading[s].lo, reading[s].hi>>
  /\ asked' = s /\ got' = <<>>
  /\ UNCHANGED <<poller, bus, pointer, latch, waited, losses>>

HostClocksByte ==
  /\ fifo # <<>>
  /\ got' = Append(got, Head(fifo)) /\ fifo' = Tail(fifo)
  /\ UNCHANGED <<poller, bus, pointer, latch, waited, losses, asked>>

-----------------------------------------------------------------------------
(* The bus and what hangs on it.                                           *)

(* A step ends: the slave takes the register, or latches a sample as it   *)
(* starts to send.                                                         *)
BusStepDone ==
  /\ bus.op # "none" /\ ~bus.done /\ ~bus.lost
  /\ bus' = [bus EXCEPT !.done = TRUE]
  /\ pointer' = IF bus.op = "reg" THEN [pointer EXCEPT ![bus.dev] = bus.reg] ELSE pointer
  /\ IF bus.op = "hi" THEN latch' \in {0, 1} ELSE UNCHANGED latch
  /\ UNCHANGED <<poller, waited, losses, spi>>

(* The slave hangs or reboots: the step never ends.                        *)
SlaveGone ==
  /\ losses < MaxLosses /\ bus.op # "none" /\ ~bus.done /\ ~bus.lost
  /\ bus' = [bus EXCEPT !.lost = TRUE] /\ losses' = losses + 1
  /\ UNCHANGED <<poller, pointer, latch, waited, spi>>

Next ==
  \/ Poll \/ HostClocksByte \/ \E s \in Hosted : OnCommand(s)
  \/ BusStepDone \/ SlaveGone

Spec == Init /\ [][Next]_vars

(* The main loop polls for ever, and the bus works on.                     *)
FairSpec == Spec /\ WF_vars(Poll) /\ WF_vars(BusStepDone)

-----------------------------------------------------------------------------
(* Properties.                                                             *)

(* Types.                                                                  *)
PollTypeOK ==
  /\ state \in 0 .. Len(Rotation) /\ iLastUpdate \in 0 .. Timeout
  /\ m_state \in [Readers -> {"idle", "addrStart", "regid", "dataLo", "dataHi"}]
  /\ m_tmpval \in [Readers -> Bytes \cup {Zero}]
  /\ reading \in [Sensors -> [hi : Bytes \cup {Zero}, lo : Bytes \cup {Zero}]]
  /\ bus \in [op : {"none", "addr", "reg", "hi", "lo"}, dev : Readers, reg : Sensors,
              done : BOOLEAN, lost : BOOLEAN]
  /\ pointer \in [Readers -> Sensors]
  /\ latch \in {0, 1}
  /\ waited \in 0 .. MaxPolls /\ losses \in 0 .. MaxLosses
  /\ asked \in Sensors

(* What is published for a sensor is one sample of that sensor, never the  *)
(* bytes of two samples nor a byte of another register, whatever a reset   *)
(* of the readers in the middle of a transaction left behind.              *)
Whole(s, value) == value = NoReading \/ \E n \in {0, 1} : value = Sample(s, n)
ReadingsWhole == \A s \in Sensors : Whole(s, reading[s])

(* So is what the main CPU puts together out of the bytes it clocks in,    *)
(* although the readers publish new values between those bytes.            *)
HostGetsWhole == Len(got) = 3 => Whole(asked, [hi |-> got[3], lo |-> got[2]])

(* Polling comes to the end of the rotation again and again, whatever step *)
(* a slave hangs at and in whatever state that leaves the readers.         *)
RotationGoesOn == []<>(state = Len(Rotation))

=============================================================================
