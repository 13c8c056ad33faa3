--------------------------- MODULE SensorPollProofs ---------------------------
(***************************************************************************)
(* Proofs about SensorPoll for any rotation of sensors.                    *)
(***************************************************************************)
EXTENDS SensorPoll, TLAPS

-----------------------------------------------------------------------------
(* The inductive invariant: what the bus carries while a reader waits for  *)
(* it, and what has gone over to the main CPU so far.                      *)

(* It is this reader's turn, and its place in the transaction.             *)
Turn(r) == state < Len(Rotation) /\ Current \notin AdcSensors /\ ReaderOf(Current) = r

Carries(op, r) == bus.op = op /\ bus.dev = r

InTurn(r) ==
  /\ ~Turn(r) => m_state[r] = "idle"
  /\ m_state[r] = "regid" =>
       Carries("reg", r) /\ bus.reg = Current /\ (bus.done => pointer[r] = Current)
  /\ m_state[r] = "dataLo" => Carries("hi", r) /\ pointer[r] = Current
  /\ m_state[r] = "dataHi" =>
       /\ Carries("lo", r) /\ pointer[r] = Current
       /\ m_tmpval[r] = Byte(Current, latch, "hi")

ReadersInTurn == \A r \in Readers : InTurn(r)

Sent(value) == <<Zero, value.lo, value.hi>>
Underway(value) ==
  /\ Len(got) + Len(fifo) = 3
  /\ \A i \in 1 .. Len(got) : got[i] = Sent(value)[i]
  /\ \A i \in 1 .. Len(fifo) : fifo[i] = Sent(value)[Len(got) + i]

Values == [hi : Bytes \cup {Zero}, lo : Bytes \cup {Zero}]
HostInv ==
  /\ got \in Seq(Bytes \cup {Zero}) /\ fifo \in Seq(Bytes \cup {Zero})
  /\ \/ got = <<>> /\ fifo = <<>>
     \/ \E value \in Values : Whole(asked, value) /\ Underway(value)

Inv == PollTypeOK /\ ReadersInTurn /\ ReadingsWhole /\ HostInv

-----------------------------------------------------------------------------

LEMMA RotationFacts ==
  /\ Len(Rotation) \in Nat \ {0} /\ 0 < Len(Rotation)
  /\ TempSensor \in Sensors /\ TempSensor \notin AdcSensors
  /\ Rotation[1] = TempSensor
  /\ \A i \in 0 .. Len(Rotation) - 1 : Rotation[i + 1] \in Sensors
<1>1. Rotation \in Seq(Sensors) /\ Rotation # <<>> /\ Rotation[1] = TempSensor
  BY PollAssumption
<1>2. Len(Rotation) \in Nat \ {0}
  BY <1>1
<1>3. \A i \in 1 .. Len(Rotation) : Rotation[i] \in Sensors
  BY <1>1
<1>4. TempSensor \in Sensors /\ TempSensor \notin AdcSensors
  BY <1>1, <1>2, <1>3, PollAssumption
<1> QED
  BY <1>1, <1>2, <1>3, <1>4

(* The sensor whose turn it is, while it is one's turn.                    *)
LEMMA CurrentIsSensor ==
  PollTypeOK /\ state < Len(Rotation) => Current \in Sensors
  BY RotationFacts DEF PollTypeOK, Current

LEMMA InitInv == Init => Inv
<1> SUFFICES ASSUME Init PROVE Inv
  OBVIOUS
<1>1. PollTypeOK
  BY RotationFacts, PollAssumption DEF Init, PollTypeOK, FreeBus, NoReading, Readers
<1>2. ReadersInTurn
  BY DEF Init, ReadersInTurn, InTurn
<1>3. ReadingsWhole
  BY DEF Init, ReadingsWhole, Whole
<1>4. HostInv
  BY DEF Init, HostInv
<1> QED
  BY <1>1, <1>2, <1>3, <1>4 DEF Inv

-----------------------------------------------------------------------------
(* Types.                                                                  *)

LEMMA ByteTypes ==
  ASSUME PollTypeOK, bus.op \in {"hi", "lo"}
  PROVE  DataByte \in Bytes
<1>1. pointer[bus.dev] \in Sensors /\ latch \in {0, 1}
  BY DEF PollTypeOK
<1> QED
  BY <1>1 DEF DataByte, Byte, Bytes

LEMMA SampleTypes ==
  ASSUME NEW s \in Sensors, NEW n \in {0, 1}
  PROVE  Sample(s, n) \in Values
  BY DEF Sample, Values, Byte, Bytes

(* A started step of the bus has its type.                                 *)
LEMMA BusyTypes ==
  ASSUME NEW op \in {"addr", "reg", "hi", "lo"}, NEW r \in Readers, NEW s \in Sensors
  PROVE  Busy(op, r, s) \in [op : {"none", "addr", "reg", "hi", "lo"}, dev : Readers,
                             reg : Sensors, done : BOOLEAN, lost : BOOLEAN]
  BY DEF Busy

LEMMA ReaderTypes == \A s : ReaderOf(s) \in Readers
  BY DEF ReaderOf, Readers

LEMMA NextTypeOK == PollTypeOK /\ [Next]_vars => PollTypeOK'
<1> SUFFICES ASSUME PollTypeOK, [Next]_vars PROVE PollTypeOK'
  OBVIOUS
<1> USE DEF PollTypeOK
<1>t. Timeout \in Nat \ {0} /\ MaxPolls \in Nat /\ MaxLosses \in Nat
  BY PollAssumption
<1>a. CASE Poll
  <2>0. UNCHANGED <<pointer, latch, losses, asked>>
    BY <1>a DEF Poll, spi
  <2>1. ASSUME NEW s \in Sensors, StartAddress(s) PROVE PollTypeOK'
    <3>1. bus' \in [op : {"none", "addr", "reg", "hi", "lo"}, dev : Readers,
                    reg : Sensors, done : BOOLEAN, lost : BOOLEAN]
      BY <2>1, BusyTypes, ReaderTypes DEF StartAddress
    <3> QED
      BY <1>t, <2>0, <2>1, <3>1, ReaderTypes DEF StartAddress, Reads, Counted, Polling
  <2>2. ASSUME NEW s \in Sensors, SendRegister(s) PROVE PollTypeOK'
    <3>1. bus' \in [op : {"none", "addr", "reg", "hi", "lo"}, dev : Readers,
                    reg : Sensors, done : BOOLEAN, lost : BOOLEAN]
      BY <2>2, BusyTypes, ReaderTypes DEF SendRegister, RegisterOf
    <3> QED
      BY <1>t, <2>0, <2>2, <3>1, ReaderTypes DEF SendRegister, Reads, Counted, Polling
  <2>3. ASSUME NEW s \in Sensors, StartRead(s) PROVE PollTypeOK'
    <3>1. bus' \in [op : {"none", "addr", "reg", "hi", "lo"}, dev : Readers,
                    reg : Sensors, done : BOOLEAN, lost : BOOLEAN]
      BY <2>3, BusyTypes, ReaderTypes DEF StartRead
    <3> QED
      BY <1>t, <2>0, <2>3, <3>1, ReaderTypes DEF StartRead, Reads, Counted, Polling
  <2>4. ASSUME NEW s \in Sensors, FirstByte(s) PROVE PollTypeOK'
    <3>1. bus' \in [op : {"none", "addr", "reg", "hi", "lo"}, dev : Readers,
                    reg : Sensors, done : BOOLEAN, lost : BOOLEAN]
      BY <2>4, BusyTypes DEF FirstByte
    <3>2. DataByte \in Bytes
      BY <2>4, ByteTypes DEF FirstByte, IsDone
    <3> QED
      BY <1>t, <2>0, <2>4, <3>1, <3>2, ReaderTypes DEF FirstByte, Reads, Counted, Polling
  <2>5. ASSUME NEW s \in Sensors, LastByte(s) PROVE PollTypeOK'
    <3>1. bus' \in [op : {"none", "addr", "reg", "hi", "lo"}, dev : Readers,
                    reg : Sensors, done : BOOLEAN, lost : BOOLEAN]
      BY <2>5, RotationFacts DEF LastByte, FreeBus, Readers
    <3>2. [hi |-> m_tmpval[ReaderOf(s)], lo |-> DataByte] \in Values
      BY <2>5, ByteTypes, ReaderTypes DEF LastByte, IsDone, Values
    <3>3. reading' \in [Sensors -> Values]
      BY <2>5, <3>2 DEF LastByte, Publish, Values
    <3>4. state' \in 0 .. Len(Rotation) /\ iLastUpdate' \in 0 .. Timeout
      BY <1>t, <2>5, RotationFacts DEF LastByte, Publish, Reads, Counted, Polling
    <3> QED
      BY <1>t, <2>0, <2>5, <3>1, <3>3, <3>4, ReaderTypes DEF LastByte, Reads, Values
  <2>6. ASSUME NEW s \in Sensors, ReadAdc(s) PROVE PollTypeOK'
    <3>1. PICK n \in {0, 1} : Publish(s, Sample(s, n))
      BY <2>6 DEF ReadAdc
    <3>2. reading' \in [Sensors -> Values]
      BY <3>1, SampleTypes DEF Publish, Values
    <3>3. state' \in 0 .. Len(Rotation) /\ iLastUpdate' \in 0 .. Timeout
      BY <1>t, <2>6, <3>1, RotationFacts DEF ReadAdc, Publish, Counted, Polling
    <3> QED
      BY <1>t, <2>0, <2>6, <3>2, <3>3 DEF ReadAdc, Values
  <2>7. CASE NotYet
    BY <1>t, <2>0, <2>7, RotationFacts DEF NotYet, Counted, Polling
  <2>8. CASE WrapAround
    BY <1>t, <2>0, <2>8, RotationFacts DEF WrapAround, Counted
  <2>9. CASE TimedOut
    <3>1. bus' \in [op : {"none", "addr", "reg", "hi", "lo"}, dev : Readers,
                    reg : Sensors, done : BOOLEAN, lost : BOOLEAN]
      BY <2>9, BusyTypes, RotationFacts DEF TimedOut, Readers
    <3> QED
      BY <1>t, <2>0, <2>9, <3>1, RotationFacts DEF TimedOut
  <2> QED
    BY <1>a, <2>1, <2>2, <2>3, <2>4, <2>5, <2>6, <2>7, <2>8, <2>9 DEF Poll
<1>b. CASE HostClocksByte
  BY <1>b DEF HostClocksByte, poller
<1>c. ASSUME NEW s \in Hosted, OnCommand(s) PROVE PollTypeOK'
  BY <1>c, PollAssumption DEF OnCommand, poller
<1>d. CASE BusStepDone
  BY <1>d DEF BusStepDone, poller, spi
<1>e. CASE SlaveGone
  <2>1. bus' = [bus EXCEPT !.lost = TRUE] /\ losses' \in 0 .. MaxLosses
    BY <1>e, <1>t DEF SlaveGone
  <2>2. bus' \in [op : {"none", "addr", "reg", "hi", "lo"}, dev : Readers,
                  reg : Sensors, done : BOOLEAN, lost : BOOLEAN]
    BY <2>1
  <2> QED
    BY <1>e, <2>1, <2>2 DEF SlaveGone, poller, spi
<1>f. CASE UNCHANGED vars
  BY <1>f DEF vars
<1> QED
  BY <1>a, <1>b, <1>c, <1>d, <1>e, <1>f DEF Next

-----------------------------------------------------------------------------
(* The readers keep to their turns, and the bus to the reader.             *)

LEMMA NextReaders ==
  ASSUME Inv, PollTypeOK', [Next]_vars PROVE ReadersInTurn'
<1> USE DEF PollTypeOK, Inv, ReadersInTurn
<1>a. CASE Poll
  <2>0. UNCHANGED <<pointer, latch, losses, spi>>
    BY <1>a DEF Poll
  <2>1. ASSUME NEW s \in Sensors, StartAddress(s) PROVE ReadersInTurn'
    BY <2>0, <2>1, ReaderTypes
    DEF StartAddress, Reads, InTurn, Turn, Current, Polling
  <2>2. ASSUME NEW s \in Sensors, SendRegister(s) PROVE ReadersInTurn'
    BY <2>0, <2>2, ReaderTypes
    DEF SendRegister, RegisterOf, Reads, InTurn, Turn, Current, Polling, Carries, Busy
  <2>3. ASSUME NEW s \in Sensors, StartRead(s) PROVE ReadersInTurn'
    BY <2>0, <2>3, ReaderTypes
    DEF StartRead, Reads, IsDone, InTurn, Turn, Current, Polling, Carries, Busy
  <2>4. ASSUME NEW s \in Sensors, FirstByte(s) PROVE ReadersInTurn'
    BY <2>0, <2>4, ReaderTypes
    DEF FirstByte, Reads, IsDone, DataByte, InTurn, Turn, Current, Polling, Carries, Busy
  <2>5. ASSUME NEW s \in Sensors, LastByte(s) PROVE ReadersInTurn'
    <3>1. \A r \in Readers : m_state'[r] = "idle"
      BY <2>5, ReaderTypes DEF LastByte, Reads, InTurn, Turn
    <3> QED
      BY <3>1 DEF InTurn
  <2>6. ASSUME NEW s \in Sensors, ReadAdc(s) PROVE ReadersInTurn'
    <3>1. \A r \in Readers : m_state'[r] = "idle"
      BY <2>6 DEF ReadAdc, InTurn, Turn
    <3> QED
      BY <3>1 DEF InTurn
  <2>7. CASE NotYet
    BY <2>0, <2>7 DEF NotYet, InTurn, Turn, Current, Carries
  <2>8. CASE WrapAround
    <3>1. \A r \in Readers : m_state'[r] = "idle"
      BY <2>8 DEF WrapAround, InTurn, Turn
    <3> QED
      BY <3>1 DEF InTurn
  <2>9. CASE TimedOut
    <3>1. state' = 0 /\ Turn("temp")'
      BY <2>9, RotationFacts DEF TimedOut, Turn, Current, ReaderOf
    <3>2. m_state'["temp"] = "addrStart" /\ m_state'["ibc"] = "idle"
      BY <2>9 DEF TimedOut, Readers
    <3> QED
      BY <3>1, <3>2 DEF InTurn, Readers
  <2> QED
    BY <1>a, <2>1, <2>2, <2>3, <2>4, <2>5, <2>6, <2>7, <2>8, <2>9 DEF Poll
<1>b. CASE HostClocksByte \/ (\E s \in Hosted : OnCommand(s)) \/ UNCHANGED vars
  <2>1. UNCHANGED <<state, m_state, m_tmpval, bus, pointer, latch>>
    BY <1>b DEF HostClocksByte, OnCommand, vars, poller
  <2> QED
    BY <2>1 DEF InTurn, Turn, Current, Carries
<1>c. CASE BusStepDone
  BY <1>c DEF BusStepDone, poller, InTurn, Turn, Current, Carries
<1>d. CASE SlaveGone
  BY <1>d DEF SlaveGone, poller, InTurn, Turn, Current, Carries
<1> QED
  BY <1>a, <1>b, <1>c, <1>d DEF Next

(* Only a whole sample is published.                                       *)
LEMMA NextReadings ==
  ASSUME Inv, [Next]_vars PROVE ReadingsWhole'
<1> USE DEF Inv, ReadingsWhole
<1>1. ASSUME NEW s \in Sensors, LastByte(s) PROVE ReadingsWhole'
  <2>1. m_tmpval[ReaderOf(s)] = Byte(s, latch, "hi") /\ DataByte = Byte(s, latch, "lo")
    BY <1>1, ReaderTypes
    DEF LastByte, Reads, IsDone, DataByte, ReadersInTurn, InTurn, Carries
  <2>2. reading' = [reading EXCEPT ![s] = Sample(s, latch)] /\ latch \in {0, 1}
    BY <1>1, <2>1 DEF LastByte, Publish, Sample, PollTypeOK
  <2> QED
    BY <2>2 DEF Whole, PollTypeOK
<1>2. ASSUME NEW s \in Sensors, ReadAdc(s) PROVE ReadingsWhole'
  BY <1>2 DEF ReadAdc, Publish, Whole, PollTypeOK
<1>3. CASE UNCHANGED reading
  BY <1>3
<1> QED
  BY <1>1, <1>2, <1>3
  DEF Next, Poll, StartAddress, SendRegister, StartRead, FirstByte, NotYet, WrapAround,
      TimedOut, HostClocksByte, OnCommand, BusStepDone, SlaveGone, vars, poller

(* What is in the FIFO and beyond it is one published value.               *)
LEMMA NextHost ==
  ASSUME Inv, [Next]_vars PROVE HostInv'
<1> USE DEF Inv, HostInv
<1>1. ASSUME NEW s \in Hosted, OnCommand(s) PROVE HostInv'
  <2>1. PICK value \in Values : value = reading[s] /\ Whole(s, value)
    BY PollAssumption DEF PollTypeOK, Values, ReadingsWhole
  <2>2. fifo' = Sent(value) /\ got' = <<>> /\ asked' = s
    BY <1>1, <2>1 DEF OnCommand, Sent
  <2>3. fifo' \in Seq(Bytes \cup {Zero}) /\ got' \in Seq(Bytes \cup {Zero})
    BY <2>1, <2>2 DEF Sent, Values
  <2>4. Underway(value)'
    BY <2>2 DEF Underway, Sent
  <2> QED
    BY <2>1, <2>2, <2>3, <2>4
<1>2. CASE HostClocksByte
  <2>1. PICK value \in Values : Whole(asked, value) /\ Underway(value)
    BY <1>2 DEF HostClocksByte
  <2>2. got' = Append(got, Head(fifo)) /\ fifo' = Tail(fifo) /\ fifo # <<>> /\ asked' = asked
    BY <1>2 DEF HostClocksByte
  <2>3. got' \in Seq(Bytes \cup {Zero}) /\ fifo' \in Seq(Bytes \cup {Zero})
    BY <2>2
  <2>4. Len(got') = Len(got) + 1 /\ Len(fifo') = Len(fifo) - 1 /\ Len(fifo) > 0
    BY <2>2
  <2>5. \A i \in 1 .. Len(got') : got'[i] = Sent(value)[i]
    BY <2>1, <2>2, <2>4 DEF Underway
  <2>6. \A i \in 1 .. Len(fifo') : fifo'[i] = Sent(value)[Len(got') + i]
    BY <2>1, <2>2, <2>4 DEF Underway
  <2>7. Underway(value)'
    BY <2>1, <2>4, <2>5, <2>6 DEF Underway
  <2> QED
    BY <2>1, <2>2, <2>3, <2>7
<1>3. CASE UNCHANGED spi
  BY <1>3 DEF spi, Underway
<1> QED
  BY <1>1, <1>2, <1>3 DEF Next, Poll, BusStepDone, SlaveGone, vars, spi

-----------------------------------------------------------------------------

(* The inductive invariant.                                                *)
THEOREM Invariance == Spec => []Inv
<1>1. Inv /\ [Next]_vars => Inv'
  BY NextTypeOK, NextReaders, NextReadings, NextHost DEF Inv
<1> QED
  BY InitInv, <1>1, PTL DEF Spec

(* Types, for any rotation (PollTypeOK).                                   *)
THEOREM TypeCorrect == Spec => []PollTypeOK
<1>1. Inv => PollTypeOK
  BY DEF Inv
<1> QED
  BY Invariance, <1>1, PTL

(* No published reading is torn or of another register (ReadingsWhole).    *)
THEOREM NoTornReading == Spec => []ReadingsWhole
<1>1. Inv => ReadingsWhole
  BY DEF Inv
<1> QED
  BY Invariance, <1>1, PTL

(* Nor is one that the main CPU has clocked in (HostGetsWhole).            *)
THEOREM HostReading == Spec => []HostGetsWhole
<1>1. Inv => HostGetsWhole
  <2> SUFFICES ASSUME Inv, Len(got) = 3
               PROVE  Whole(asked, [hi |-> got[3], lo |-> got[2]])
    BY DEF HostGetsWhole
  <2>1. PICK value \in Values : Whole(asked, value) /\ Underway(value)
    BY DEF Inv, HostInv
  <2>2. got[2] = value.lo /\ got[3] = value.hi
    BY <2>1 DEF Underway, Sent
  <2>3. [hi |-> got[3], lo |-> got[2]] = value
    BY <2>2 DEF Values
  <2> QED
    BY <2>1, <2>3
<1> QED
  BY Invariance, <1>1, PTL

=============================================================================
