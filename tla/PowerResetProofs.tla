--------------------------- MODULE PowerResetProofs ---------------------------
(***************************************************************************)
(* Proofs about PowerReset for any number of rails and reset lines.        *)
(***************************************************************************)
EXTENDS PowerReset, TLAPS

-----------------------------------------------------------------------------
(* The inductive invariant: what the pins look like at every point of the  *)
(* calls, in terms of the loop index k.                                    *)

EnabledBelow(n) == \A r \in Rails : r \in enabled <=> r < n
ReleasedUpTo(n) == \A l \in Lines : l \in released <=> l <= n

Off == ~m_powerOn /\ ~m_resetsDone
AllRailsOn == EnabledBelow(NRails)
AllOff == EnabledBelow(0) /\ ReleasedUpTo(-1)

Running ==
  /\ m_powerOn /\ AllRailsOn
  /\ ReleasedUpTo(m_resetSequenceIndex)
  /\ m_resetsDone <=> m_resetSequenceIndex = NResets

InIdle == pc = "idle" => Running \/ (Off /\ AllOff)

InPowerOn ==
  /\ pc = "railOn"   => Off /\ k \in Rails /\ EnabledBelow(k) /\ ReleasedUpTo(-1)
  /\ pc = "railPoll" => Off /\ k \in Rails /\ EnabledBelow(k + 1) /\ ReleasedUpTo(-1)
  /\ pc = "powerUp"  => Off /\ AllRailsOn /\ ReleasedUpTo(-1)

InPowerOff ==
  /\ pc = "offResets" =>
       /\ Off /\ k \in Lines
       /\ \/ AllRailsOn /\ \A l \in released : l <= k
          \/ AllOff
  /\ pc = "offRails" =>
       /\ Off /\ k \in Rails /\ ReleasedUpTo(-1)
       /\ EnabledBelow(k + 1) \/ EnabledBelow(0)

InPanic ==
  /\ pc = "panicRails" =>
       /\ k \in Rails
       /\ \A r \in enabled : r <= k /\ \A q \in Rails : q < r => q \in enabled
  /\ pc = "panicResets" =>
       k \in Lines /\ EnabledBelow(0) /\ \A l \in released : l >= k
  /\ pc = "hung" => Off /\ AllOff

InIteration ==
  /\ pc \in {"scan", "monitor"} => Running
  /\ pc = "scan" => k \in 0 .. m_resetSequenceIndex
  /\ pc = "release" =>
       /\ m_powerOn /\ ~m_resetsDone /\ AllRailsOn /\ k = 0
       /\ m_resetSequenceIndex \in 1 .. NResets - 1
       /\ ReleasedUpTo(m_resetSequenceIndex - 1)
  /\ pc = "reassert" =>
       /\ m_powerOn /\ ~m_resetsDone /\ AllRailsOn
       /\ m_resetSequenceIndex < NResets
       /\ k \in m_resetSequenceIndex + 1 .. NResets
       /\ \A l \in Lines : l <= m_resetSequenceIndex => l \in released
       /\ \A l \in released : l <= m_resetSequenceIndex \/ l >= k

Inv == TypeOK /\ InIdle /\ InPowerOn /\ InPowerOff /\ InPanic /\ InIteration

-----------------------------------------------------------------------------

(* The two flags stay Boolean.                                             *)
LEMMA FlagsBoolean ==
  TypeOK /\ [Next]_vars => m_powerOn' \in BOOLEAN /\ m_resetsDone' \in BOOLEAN
  BY Zenon
  DEF TypeOK, Next, vars, flags, Application, Supervisor, Board, CallPowerOn, CallPowerOff,
      CallPanicShutdown, StartPowerOff, ClearFlags, RailEnable, RailPoll, FinishPowerOn,
      OffReset, OffRail, PanicRail, PanicReset, AdvanceReset, ReleaseNext, ScanReady,
      ReassertLater, MonitorRail, PowerGoodChanges, DonePinChanges, DelayElapses

(* The rail index stays inside the sequence: it is reduced modulo NRails.  *)
LEMMA MonitorIndexInRange == m_monitorRailIndex \in Rails => NextMonitorIndex \in Rails
  BY SequenceAssumption DEF Rails, NextMonitorIndex

(* The initial state, everything off and held, satisfies the invariant.    *)
LEMMA InitInv == Init => Inv
<1> SUFFICES ASSUME Init PROVE Inv
  OBVIOUS
<1>1. m_powerOn \in BOOLEAN /\ m_resetsDone \in BOOLEAN
  BY Zenon DEF Init
<1> QED
  BY <1>1, SequenceAssumption
  DEF Init, Inv, TypeOK, Rails, Lines, PCs, Off, AllOff, EnabledBelow, ReleasedUpTo, InIdle,
      InPowerOn, InPowerOff, InPanic, InIteration

(* Every step keeps the types; the loop indices are in range by Inv.       *)
LEMMA NextTypeOK == Inv /\ [Next]_vars => TypeOK'
<1> SUFFICES ASSUME Inv, [Next]_vars PROVE TypeOK'
  OBVIOUS
<1>0. m_powerOn' \in BOOLEAN /\ m_resetsDone' \in BOOLEAN
  BY FlagsBoolean DEF Inv
<1> USE <1>0, SequenceAssumption, MonitorIndexInRange
    DEF Inv, TypeOK, PCs, Rails, Lines, InPowerOn, InPowerOff, InPanic, InIteration,
        flags, pins
<1>1. CASE CallPowerOn
  BY <1>1 DEF CallPowerOn
<1>2. CASE RailEnable
  BY <1>2 DEF RailEnable
<1>3. CASE RailPoll
  BY <1>3 DEF RailPoll
<1>4. CASE FinishPowerOn
  BY <1>4 DEF FinishPowerOn, Deassert
<1>5. CASE CallPowerOff
  BY <1>5 DEF CallPowerOff, StartPowerOff, ClearFlags
<1>6. CASE OffReset
  BY <1>6 DEF OffReset, Assert
<1>7. CASE OffRail
  BY <1>7 DEF OffRail, TurnOff, Return
<1>8. CASE CallPanicShutdown
  BY <1>8 DEF CallPanicShutdown, StartPanic
<1>9. CASE PanicRail
  BY <1>9 DEF PanicRail, TurnOff
<1>10. CASE PanicReset
  BY <1>10 DEF PanicReset, Assert, ClearFlags, Return
<1>11. CASE AdvanceReset
  <2>1. ~m_resetsDone => m_resetSequenceIndex < NResets
    BY <1>11 DEF AdvanceReset, InIdle, Running, Off
  <2> QED
    BY <1>11, <2>1 DEF AdvanceReset
<1>12. CASE ReleaseNext
  <2>1. m_resetSequenceIndex \in Lines
    BY <1>12 DEF ReleaseNext
  <2> QED
    BY <1>12, <2>1 DEF ReleaseNext, Deassert
<1>13. CASE ScanReady
  BY <1>13 DEF ScanReady, ScannedLines, IsReady
<1>14. CASE ReassertLater
  <2>1. ready' = ready /\ released' \subseteq released
    BY <1>14 DEF ReassertLater, Assert
  <2> QED
    BY <1>14, <2>1 DEF ReassertLater
<1>15. CASE MonitorRail
  BY <1>15 DEF MonitorRail, StartPanic, StartPowerOff, ClearFlags
<1>16. ASSUME NEW r \in PGoodRails, PowerGoodChanges(r) PROVE TypeOK'
  BY <1>16 DEF PowerGoodChanges
<1>17. ASSUME NEW l \in DoneLines, DonePinChanges(l) PROVE TypeOK'
  BY <1>17 DEF DonePinChanges
<1>18. ASSUME NEW l \in DelayLines, DelayElapses(l) PROVE TypeOK'
  BY <1>18 DEF DelayElapses
<1>19. CASE UNCHANGED vars
  BY <1>19 DEF vars
<1> QED
  BY <1>1, <1>2, <1>3, <1>4, <1>5, <1>6, <1>7, <1>8, <1>9, <1>10, <1>11, <1>12,
     <1>13, <1>14, <1>15, <1>16, <1>17, <1>18, <1>19
  DEF Next, Application, Supervisor, Board

(* Every step of the application, the supervisor and the board keeps the   *)
(* picture of the pins that belongs to its place in the calls: the parts   *)
(* of Inv about the place it leads to follow from the part about the place *)
(* it leaves, the other parts say nothing about the new place.             *)
LEMMA NextInv == Inv /\ [Next]_vars => Inv'
<1> SUFFICES ASSUME Inv, [Next]_vars, TypeOK' PROVE Inv'
  BY NextTypeOK
<1> USE SequenceAssumption DEF Inv, Rails, Lines, AllRailsOn, AllOff, EnabledBelow, ReleasedUpTo
<1>1. CASE CallPowerOn
  <2>1. InPowerOn'
    BY <1>1 DEF InPowerOn, InIdle, Off, Running, TypeOK, CallPowerOn, flags, pins
  <2>2. InIdle' /\ InPowerOff' /\ InPanic' /\ InIteration'
    BY <1>1 DEF InIdle, InPowerOff, InPanic, InIteration, CallPowerOn
  <2> QED
    BY <2>1, <2>2
<1>2. CASE RailEnable
  <2>1. InPowerOn'
    BY <1>2 DEF InPowerOn, Off, Running, TypeOK, RailEnable, flags, pins
  <2>2. InIdle' /\ InPowerOff' /\ InPanic' /\ InIteration'
    BY <1>2 DEF InIdle, InPowerOff, InPanic, InIteration, RailEnable
  <2> QED
    BY <2>1, <2>2
<1>3. CASE RailPoll
  <2>1. InPowerOn'
    <3>1. CASE pgood[k] /\ k + 1 < NRails
      BY <1>3, <3>1 DEF InPowerOn, Off, TypeOK, RailPoll, flags
    <3>2. CASE pgood[k] /\ ~(k + 1 < NRails)
      BY <1>3, <3>2 DEF InPowerOn, Off, TypeOK, RailPoll, flags
    <3>3. CASE ~pgood[k]
      BY <1>3, <3>3 DEF InPowerOn, Off, TypeOK, RailPoll, flags
    <3> QED
      BY <3>1, <3>2, <3>3
  <2>2. InPanic'
    BY <1>3 DEF InPanic, InPowerOn, Off, Running, TypeOK, RailPoll, flags, pins
  <2>3. InIdle' /\ InPowerOff' /\ InIteration'
    BY <1>3 DEF InIdle, InPowerOff, InIteration, RailPoll
  <2> QED
    BY <2>1, <2>2, <2>3
<1>4. CASE FinishPowerOn
  <2>1. InIdle'
    BY <1>4 DEF InIdle, InPowerOn, Off, Running, TypeOK, FinishPowerOn, Deassert, flags, pins
  <2>2. InPowerOn' /\ InPowerOff' /\ InPanic' /\ InIteration'
    BY <1>4 DEF InPowerOn, InPowerOff, InPanic, InIteration, FinishPowerOn, Deassert
  <2> QED
    BY <2>1, <2>2
<1>5. CASE CallPowerOff
  <2>1. InPowerOff'
    BY <1>5 DEF InPowerOff, InIdle, Off, Running, TypeOK, CallPowerOff, StartPowerOff, ClearFlags, flags, pins
  <2>2. InIdle' /\ InPowerOn' /\ InPanic' /\ InIteration'
    BY <1>5 DEF InIdle, InPowerOn, InPanic, InIteration, CallPowerOff, StartPowerOff, ClearFlags
  <2> QED
    BY <2>1, <2>2
<1>6. CASE OffReset
  <2>1. InPowerOff'
    <3>1. CASE k > 0
      BY <1>6, <3>1 DEF InPowerOff, Off, TypeOK, OffReset, Assert, flags
    <3>2. CASE ~(k > 0)
      BY <1>6, <3>2 DEF InPowerOff, Off, TypeOK, OffReset, Assert, flags
    <3> QED
      BY <3>1, <3>2
  <2>2. InIdle' /\ InPowerOn' /\ InPanic' /\ InIteration'
    BY <1>6 DEF InIdle, InPowerOn, InPanic, InIteration, OffReset, Assert
  <2> QED
    BY <2>1, <2>2
<1>7. CASE OffRail
  <2>1. InPowerOff'
    <3>1. CASE k > 0
      BY <1>7, <3>1 DEF InPowerOff, Off, TypeOK, OffRail, TurnOff, flags
    <3>2. CASE ~(k > 0)
      BY <1>7, <3>2 DEF InPowerOff, OffRail, Return
    <3> QED
      BY <3>1, <3>2
  <2>2. InIdle'
    BY <1>7 DEF InIdle, InPowerOff, Off, Running, TypeOK, OffRail, TurnOff, Return, flags, pins
  <2>3. InPowerOn' /\ InPanic' /\ InIteration'
    BY <1>7 DEF InPowerOn, InPanic, InIteration, OffRail, TurnOff, Return
  <2> QED
    BY <2>1, <2>2, <2>3
<1>8. CASE CallPanicShutdown
  <2>1. InPanic'
    BY <1>8 DEF InPanic, InIdle, Off, Running, TypeOK, CallPanicShutdown, StartPanic, flags, pins
  <2>2. InIdle' /\ InPowerOn' /\ InPowerOff' /\ InIteration'
    BY <1>8 DEF InIdle, InPowerOn, InPowerOff, InIteration, CallPanicShutdown, StartPanic
  <2> QED
    BY <2>1, <2>2
<1>9. CASE PanicRail
  <2>1. InPanic'
    BY <1>9 DEF InPanic, Off, Running, TypeOK, PanicRail, TurnOff, flags, pins
  <2>2. InIdle' /\ InPowerOn' /\ InPowerOff' /\ InIteration'
    BY <1>9 DEF InIdle, InPowerOn, InPowerOff, InIteration, PanicRail, TurnOff
  <2> QED
    BY <2>1, <2>2
<1>10. CASE PanicReset
  <2>1. InPanic'
    BY <1>10 DEF InPanic, Off, Running, TypeOK, PanicReset, Assert, ClearFlags, Return, flags, pins
  <2>2. InIdle'
    BY <1>10 DEF InIdle, InPanic, Off, Running, TypeOK, PanicReset, Assert, ClearFlags, Return, flags, pins
  <2>3. InPowerOn' /\ InPowerOff' /\ InIteration'
    BY <1>10 DEF InPowerOn, InPowerOff, InIteration, PanicReset, Assert, ClearFlags, Return
  <2> QED
    BY <2>1, <2>2, <2>3
<1>11. CASE AdvanceReset
  <2>0. Running
    BY <1>11 DEF AdvanceReset, InIdle, Off
  <2>1. InIteration'
    <3>1. CASE ~m_resetsDone /\ IsReady(m_resetSequenceIndex)
      <4>1. /\ UNCHANGED <<m_powerOn, enabled, released>> /\ k' = 0
            /\ m_resetSequenceIndex' = m_resetSequenceIndex + 1
            /\ m_resetsDone' = (m_resetSequenceIndex + 1 = NResets)
            /\ pc' = IF m_resetsDone' THEN "scan" ELSE "release"
        BY <1>11, <3>1 DEF AdvanceReset
      <4>2. m_resetSequenceIndex \in 0 .. NResets - 1
        BY <2>0, <3>1 DEF Running, TypeOK
      <4>3. CASE m_resetSequenceIndex + 1 = NResets
        <5>1. pc' = "scan" /\ m_resetsDone' /\ m_resetSequenceIndex' = NResets
          BY <4>1, <4>3
        <5>2. m_powerOn' /\ AllRailsOn'
          BY <2>0, <4>1 DEF Running
        <5>3. ReleasedUpTo(m_resetSequenceIndex)'
          BY <2>0, <4>1, <4>2, <4>3 DEF Running
        <5>4. Running'
          BY <5>1, <5>2, <5>3 DEF Running
        <5> QED
          BY <4>1, <5>1, <5>4 DEF InIteration
      <4>4. CASE m_resetSequenceIndex + 1 # NResets
        <5>1. pc' = "release" /\ ~m_resetsDone'
          BY <4>1, <4>4
        <5> QED
          BY <2>0, <4>1, <4>2, <4>4, <5>1 DEF InIteration, Running
      <4> QED
        BY <4>3, <4>4
    <3>2. CASE ~(~m_resetsDone /\ IsReady(m_resetSequenceIndex))
      <4>1. /\ pc' = "scan" /\ k' = 0
            /\ UNCHANGED <<m_powerOn, m_resetsDone, m_resetSequenceIndex, enabled, released>>
        BY <1>11, <3>2 DEF AdvanceReset
      <4>2. Running'
        BY <2>0, <4>1 DEF Running
      <4> QED
        BY <4>1, <4>2 DEF InIteration, TypeOK
    <3> QED
      BY <3>1, <3>2
  <2>2. InIdle' /\ InPowerOn' /\ InPowerOff' /\ InPanic'
    BY <1>11 DEF InIdle, InPowerOn, InPowerOff, InPanic, AdvanceReset
  <2> QED
    BY <2>1, <2>2
<1>12. CASE ReleaseNext
  <2>1. InIteration'
    BY <1>12 DEF InIteration, Running, TypeOK, ReleaseNext, Deassert, flags
  <2>2. InIdle' /\ InPowerOn' /\ InPowerOff' /\ InPanic'
    BY <1>12 DEF InIdle, InPowerOn, InPowerOff, InPanic, ReleaseNext
  <2> QED
    BY <2>1, <2>2
<1>13. CASE ScanReady
  <2>1. InIteration'
    <3>1. CASE k \in ScannedLines /\ IsReady(k)
      <4>1. /\ pc = "scan" /\ pc' = "scan" /\ k' = k + 1
            /\ UNCHANGED <<m_powerOn, m_resetsDone, m_resetSequenceIndex, enabled, released>>
        BY <1>13, <3>1 DEF ScanReady
      <4>2. Running'
        BY <4>1 DEF InIteration, Running
      <4> QED
        BY <3>1, <4>1, <4>2 DEF InIteration, ScannedLines, TypeOK
    <3>2. CASE k \in ScannedLines /\ ~IsReady(k)
      <4>1. /\ pc = "scan" /\ pc' = "reassert" /\ k' = k + 1
            /\ m_resetSequenceIndex' = k /\ m_resetsDone' = FALSE
            /\ UNCHANGED <<m_powerOn, enabled, released>>
        BY <1>13, <3>2 DEF ScanReady
      <4>2. k < m_resetSequenceIndex /\ Running
        BY <3>2, <4>1 DEF InIteration, ScannedLines, TypeOK
      <4> QED
        BY <4>1, <4>2 DEF InIteration, Running, TypeOK
    <3>3. CASE k \notin ScannedLines
      BY <1>13, <3>3 DEF InIteration, Running, TypeOK, ScanReady
    <3> QED
      BY <3>1, <3>2, <3>3
  <2>2. InIdle' /\ InPowerOn' /\ InPowerOff' /\ InPanic'
    BY <1>13 DEF InIdle, InPowerOn, InPowerOff, InPanic, ScanReady, ScannedLines, IsReady
  <2> QED
    BY <2>1, <2>2
<1>14. CASE ReassertLater
  <2>1. InIteration'
    BY <1>14 DEF InIteration, Off, Running, TypeOK, ReassertLater, Assert, flags, pins
  <2>2. InIdle' /\ InPowerOn' /\ InPowerOff' /\ InPanic'
    BY <1>14 DEF InIdle, InPowerOn, InPowerOff, InPanic, ReassertLater, Assert
  <2> QED
    BY <2>1, <2>2
<1>15. CASE MonitorRail
  <2>1. InPanic'
    <3>1. CASE pc' = "panicRails"
      <4>1. k' = NRails - 1 /\ enabled' = enabled /\ AllRailsOn
        BY <1>15, <3>1 DEF MonitorRail, StartPanic, StartPowerOff, InIteration, Running
      <4> QED
        BY <3>1, <4>1 DEF InPanic, TypeOK
    <3>2. CASE pc' # "panicRails"
      BY <1>15, <3>2 DEF MonitorRail, StartPanic, StartPowerOff, InPanic
    <3> QED
      BY <3>1, <3>2
  <2>2. InPowerOff'
    <3>1. CASE pc' = "offResets"
      <4>1. k' = NResets - 1 /\ enabled' = enabled /\ released' = released /\ AllRailsOn /\ ClearFlags
        BY <1>15, <3>1 DEF MonitorRail, StartPanic, StartPowerOff, InIteration, Running
      <4> QED
        BY <3>1, <4>1 DEF InPowerOff, TypeOK, Off, ClearFlags
    <3>2. CASE pc' # "offResets"
      BY <1>15, <3>2 DEF MonitorRail, StartPanic, StartPowerOff, InPowerOff
    <3> QED
      BY <3>1, <3>2
  <2>3. InIdle'
    BY <1>15 DEF InIdle, InIteration, Off, Running, TypeOK, MonitorRail, StartPanic, StartPowerOff, ClearFlags, flags, pins
  <2>4. InPowerOn' /\ InIteration'
    BY <1>15 DEF InPowerOn, InIteration, MonitorRail, StartPanic, StartPowerOff, ClearFlags
  <2> QED
    BY <2>1, <2>2, <2>3, <2>4
<1>16. ASSUME NEW r \in PGoodRails, PowerGoodChanges(r) PROVE Inv'
  BY <1>16 DEF TypeOK, InIdle, InPowerOn, InPowerOff, InPanic, InIteration, Off, Running,
       flags, PowerGoodChanges
<1>17. ASSUME NEW l \in DoneLines, DonePinChanges(l) PROVE Inv'
  BY <1>17 DEF TypeOK, InIdle, InPowerOn, InPowerOff, InPanic, InIteration, Off, Running,
       flags, DonePinChanges
<1>18. ASSUME NEW l \in DelayLines, DelayElapses(l) PROVE Inv'
  BY <1>18 DEF TypeOK, InIdle, InPowerOn, InPowerOff, InPanic, InIteration, Off, Running,
       flags, DelayElapses
<1>19. CASE UNCHANGED vars
  BY <1>19 DEF TypeOK, InIdle, InPowerOn, InPowerOff, InPanic, InIteration, Off, Running,
       flags, vars, pins
<1> QED
  BY <1>1, <1>2, <1>3, <1>4, <1>5, <1>6, <1>7, <1>8, <1>9, <1>10, <1>11, <1>12,
     <1>13, <1>14, <1>15, <1>16, <1>17, <1>18, <1>19
  DEF Next, Application, Supervisor, Board

-----------------------------------------------------------------------------
(* "On" and "off" in terms of indices mean the whole set and the empty one. *)
LEMMA OnIsRails == TypeOK /\ AllRailsOn => enabled = Rails
<1>1. \A r \in Rails : r < NRails
  BY SequenceAssumption DEF Rails
<1> QED
  BY <1>1 DEF AllRailsOn, EnabledBelow, TypeOK

LEMMA OffIsEmpty == TypeOK => (ReleasedUpTo(-1) <=> released = {})
<1>1. \A l \in Lines : ~(l <= -1)
  BY DEF Lines
<1> QED
  BY <1>1 DEF ReleasedUpTo, TypeOK

(* The invariant holds in every reachable state.                           *)
THEOREM Invariance == Spec => []Inv
  BY InitInv, NextInv, PTL DEF Spec

(* Type correctness, for any board.                                        *)
THEOREM TypeCorrect == Spec => []TypeOK
<1>1. Inv => TypeOK
  BY DEF Inv
<1> QED
  BY <1>1, Invariance, PTL

(* Between two Iterations m_powerOn, m_resetsDone and m_resetSequenceIndex *)
(* describe exactly which rails are on and which lines are released.       *)
THEOREM FlagsTellThePins == Spec => []FlagsMatchPins
<1>1. Inv => FlagsMatchPins
  <2> SUFFICES ASSUME Inv, pc = "idle" PROVE FlagsMatchPins
    BY DEF FlagsMatchPins
  <2>1. CASE Running
    <3>1. enabled = Rails
      BY <2>1, OnIsRails DEF Running, Inv
    <3>2. released = {l \in Lines : l <= m_resetSequenceIndex}
      BY <2>1 DEF Running, ReleasedUpTo, Inv, TypeOK
    <3> QED
      BY <2>1, <3>1, <3>2 DEF Running, FlagsMatchPins
  <2>2. CASE Off /\ AllOff
    BY <2>2 DEF Off, AllOff, EnabledBelow, ReleasedUpTo, Inv, TypeOK, Rails, Lines,
                FlagsMatchPins
  <2> QED
    BY <2>1, <2>2 DEF Inv, InIdle
<1> QED
  BY <1>1, Invariance, PTL

(* No device runs on a board that is not fully powered, but in a panic.    *)
THEOREM PowerBeforeReset == Spec => []ResetReleasedNeedsPower
<1>1. Inv => ResetReleasedNeedsPower
  <2> SUFFICES ASSUME Inv, released # {}, pc \notin {"panicRails", "panicResets"}
               PROVE  enabled = Rails
    BY DEF ResetReleasedNeedsPower
  <2>1. ~ReleasedUpTo(-1)
    BY OffIsEmpty DEF Inv
  <2>2. AllRailsOn
    BY <2>1 DEF Inv, TypeOK, PCs, InIdle, InPowerOn, InPowerOff, InPanic, InIteration,
                Running, AllOff
  <2> QED
    BY <2>2, OnIsRails DEF Inv
<1> QED
  BY <1>1, Invariance, PTL

(* IsReady() is asked only of released lines, so never of a delay line     *)
(* whose start time was not set.                                           *)
THEOREM ReadyAsked == Spec => []ReadyAskedOnlyWhenReleased
<1>1. Inv => ReadyAskedOnlyWhenReleased
  BY SequenceAssumption
  DEF Inv, TypeOK, InIdle, InIteration, Off, Running, ReleasedUpTo, Lines, ScannedLines,
      ReadyAskedOnlyWhenReleased
<1> QED
  BY <1>1, Invariance, PTL

-----------------------------------------------------------------------------
(* Refinement.  Each action is at most one abstract step: switching a rail *)
(* is RailUp or RailDown, finding a line ready that others wait for is     *)
(* LookAt, Deassert is ReleaseReset, Assert is HoldReset, starting a panic *)
(* is Trip, and the pins are Devices; everything else leaves the abstract  *)
(* state alone.                                                            *)

LEMMA RefinedInit == Init => Sequencer!Init
  BY DEF Init, SequencerMode, SeenReady, Lines, Sequencer!Init, Sequencer!Lines

(* The first n rails are the abstract interval of rails.                   *)
LEMMA BelowIsInterval ==
  ASSUME TypeOK, NEW n \in 0 .. NRails, EnabledBelow(n) PROVE enabled = 0 .. n - 1
<1>1. \A r \in Rails : r < n <=> r \in 0 .. n - 1
  BY SequenceAssumption DEF Rails
<1>2. 0 .. n - 1 \subseteq Rails
  BY SequenceAssumption DEF Rails
<1> QED
  BY <1>1, <1>2 DEF EnabledBelow, TypeOK

LEMMA UpToIsInterval ==
  ASSUME TypeOK, NEW n \in -1 .. NResets - 1, ReleasedUpTo(n) PROVE released = 0 .. n
<1>1. \A l \in Lines : l <= n <=> l \in 0 .. n
  BY SequenceAssumption DEF Lines
<1>2. 0 .. n \subseteq Lines
  BY SequenceAssumption DEF Lines
<1> QED
  BY <1>1, <1>2 DEF ReleasedUpTo, TypeOK

LEMMA RefinedNext == Inv /\ Inv' /\ [Next]_vars => [Sequencer!Next]_Sequencer!vars
<1> SUFFICES ASSUME Inv, Inv', [Next]_vars
             PROVE  Sequencer!Next \/ UNCHANGED Sequencer!vars
  OBVIOUS
<1> USE DEF Sequencer!vars, SequencerMode, SeenReady, Rails, Lines, Sequencer!Rails, Sequencer!Lines
<1>0. TypeOK /\ TypeOK'
  BY DEF Inv
<1>1. CASE RailEnable
  <2>1. k \in Rails /\ EnabledBelow(k) /\ released = {}
    BY <1>0, <1>1, OffIsEmpty DEF RailEnable, Inv, InPowerOn
  <2>2. enabled = 0 .. k - 1
    BY <1>0, <2>1, BelowIsInterval, SequenceAssumption
  <2>3. Sequencer!RailUp(k)
    BY <1>1, <2>1, <2>2 DEF RailEnable, Sequencer!RailUp, pins
  <2> QED
    BY <2>1, <2>3 DEF Sequencer!Next
<1>2. CASE FinishPowerOn
  <2>1. enabled = Rails /\ released = {} /\ ready' \in [Lines -> BOOLEAN]
    BY <1>0, <1>2, OffIsEmpty, OnIsRails DEF FinishPowerOn, Inv, InPowerOn, TypeOK
  <2>2. Sequencer!ReleaseReset(0)
    BY <1>2, <2>1 DEF FinishPowerOn, Deassert, Sequencer!ReleaseReset
  <2> QED
    BY <2>2, SequenceAssumption DEF Sequencer!Next
<1>3. CASE OffReset
  <2>1. k \in Lines /\ Sequencer!HoldReset(k)
    BY <1>3 DEF OffReset, Assert, Inv, InPowerOff, Sequencer!HoldReset
  <2> QED
    BY <2>1 DEF Sequencer!Next
<1>4. CASE OffRail
  <2>1. k \in Rails /\ released = {} /\ (EnabledBelow(k + 1) \/ EnabledBelow(0))
    BY <1>0, <1>4, OffIsEmpty DEF OffRail, Inv, InPowerOff
  <2>2. UNCHANGED <<released, ready, SeenReady, SequencerMode>> /\ enabled' = enabled \ {k}
    BY <1>4 DEF OffRail, TurnOff, Return, pins
  <2>3. CASE EnabledBelow(k + 1)
    <3>1. k + 1 \in 0 .. NRails
      BY <2>1, SequenceAssumption
    <3>2. enabled = 0 .. (k + 1) - 1
      BY <1>0, <2>3, <3>1, BelowIsInterval
    <3>3. enabled = 0 .. k
      BY <2>1, <3>2
    <3> QED
      BY <2>1, <2>2, <3>3 DEF Sequencer!RailDown, Sequencer!Next
  <2>4. CASE EnabledBelow(0)
    <3>1. enabled = 0 .. -1
      BY <1>0, <2>4, BelowIsInterval, SequenceAssumption
    <3> QED
      BY <2>2, <3>1
  <2> QED
    BY <2>1, <2>3, <2>4
<1>5. CASE PanicRail
  <2>1. /\ k \in Rails
        /\ \A r \in enabled : r <= k /\ \A q \in Rails : q < r => q \in enabled
    BY <1>5 DEF PanicRail, Inv, InPanic
  <2>2. /\ UNCHANGED <<released, ready, SeenReady, SequencerMode>>
        /\ enabled' = enabled \ {k} /\ SequencerMode = "panic"
    BY <1>5 DEF PanicRail, TurnOff, pins
  <2>3. CASE k \in enabled
    <3>0. enabled \subseteq 0 .. k /\ 0 .. k \subseteq enabled
      BY <1>0, <2>1, <2>3, SequenceAssumption DEF TypeOK
    <3>1. enabled = 0 .. k
      BY <3>0
    <3> QED
      BY <2>1, <2>2, <3>1 DEF Sequencer!RailDown, Sequencer!Next
  <2> QED
    BY <2>2, <2>3
<1>6. CASE PanicReset
  <2>1. k \in Lines /\ (\A l \in released : l >= k) /\ enabled = {}
    BY <1>0, <1>6 DEF PanicReset, Inv, InPanic, EnabledBelow, TypeOK
  <2>2. k + 1 = NResets => released' = {}
    BY <1>0, <1>6, <2>1 DEF PanicReset, Assert, TypeOK
  <2>3. /\ released' = released \ {k} /\ UNCHANGED <<enabled, ready>> /\ SequencerMode = "panic"
        /\ SeenReady' = {}
        /\ k + 1 < NResets => SequencerMode' = "panic"
        /\ k + 1 >= NResets => SequencerMode' = "normal"
    <3>1. CASE k + 1 < NResets
      BY <1>6, <2>1, <3>1, SequenceAssumption DEF PanicReset, Assert
    <3>2. CASE ~(k + 1 < NResets)
      <4>1. PICK to \in FaultOutcomes : Return(to)
        BY <1>6, <3>2 DEF PanicReset
      <4>2. SequencerMode' = "normal" /\ SeenReady' = {}
        BY <4>1, SequenceAssumption DEF Return
      <4> QED
        BY <1>6, <3>2, <4>2 DEF PanicReset, Assert
    <3> QED
      BY <2>1, <3>1, <3>2, SequenceAssumption
  <2>4. Sequencer!HoldReset(k)
    BY <2>1, <2>2, <2>3, SequenceAssumption DEF Sequencer!HoldReset
  <2> QED
    BY <2>1, <2>4 DEF Sequencer!Next
<1>7. CASE AdvanceReset
  <2>1. UNCHANGED <<enabled, released, ready, SequencerMode>> /\ SeenReady = {}
    BY <1>7 DEF AdvanceReset, pins
  <2>2. CASE pc' = "release"
    <3> DEFINE l == m_resetSequenceIndex
    <3>1. ready[l] /\ l + 1 # NResets /\ l' = l + 1 /\ ~m_resetsDone
      BY <1>7, <2>2 DEF AdvanceReset, IsReady
    <3>2. Running
      BY <1>7 DEF AdvanceReset, Inv, InIdle, Off
    <3>3. l \in Lines /\ l \in released
      BY <1>0, <3>1, <3>2, SequenceAssumption DEF Running, ReleasedUpTo, TypeOK
    <3>4. SeenReady' = {l}
      BY <1>0, <2>2, <3>1 DEF TypeOK
    <3>5. Sequencer!LookAt(l)
      BY <1>7, <2>1, <3>1, <3>3, <3>4 DEF AdvanceReset, Sequencer!LookAt
    <3> QED
      BY <3>3, <3>5 DEF Sequencer!Next
  <2>3. CASE pc' # "release"
    BY <2>1, <2>3
  <2> QED
    BY <2>2, <2>3
<1>8. CASE ReleaseNext
  <2> DEFINE l == m_resetSequenceIndex
  <2>1. AllRailsOn /\ ReleasedUpTo(l - 1) /\ l \in 1 .. NResets - 1
    BY <1>8 DEF ReleaseNext, Inv, InIteration
  <2>2. l \in Lines /\ l - 1 \in -1 .. NResets - 1
    BY <2>1, SequenceAssumption
  <2>3. enabled = Rails /\ released = 0 .. l - 1
    BY <1>0, <2>1, <2>2, OnIsRails, UpToIsInterval
  <2>4. SequencerMode = "normal" /\ SequencerMode' = "normal"
        /\ SeenReady = {l - 1} /\ SeenReady' = {}
    BY <1>8 DEF ReleaseNext
  <2>5. Sequencer!ReleaseReset(l)
    BY <1>0, <1>8, <2>2, <2>3, <2>4 DEF ReleaseNext, Deassert, Sequencer!ReleaseReset, TypeOK
  <2> QED
    BY <2>2, <2>5 DEF Sequencer!Next
<1>9. CASE ReassertLater
  <2>1. CASE k < NResets
    <3>1. k \in Lines
      BY <1>0, <1>9, <2>1, SequenceAssumption DEF ReassertLater, Inv, InIteration, TypeOK
    <3>2. Sequencer!HoldReset(k)
      BY <1>9, <2>1 DEF ReassertLater, Assert, Sequencer!HoldReset
    <3> QED
      BY <3>1, <3>2 DEF Sequencer!Next
  <2>2. CASE ~(k < NResets)
    BY <1>9, <2>2 DEF ReassertLater
  <2> QED
    BY <2>1, <2>2
<1>10. CASE RailPoll \/ CallPanicShutdown \/ MonitorRail
  <2>1. /\ UNCHANGED <<enabled, released, ready>> /\ SequencerMode = "normal"
        /\ SeenReady = {} /\ SeenReady' = {}
    BY <1>10 DEF RailPoll, CallPanicShutdown, MonitorRail, StartPanic, StartPowerOff, pins
  <2>2. SequencerMode' \in {"normal", "panic"}
    OBVIOUS
  <2> QED
    BY <2>1, <2>2 DEF Sequencer!Trip, Sequencer!Next
<1>11. CASE CallPowerOn \/ CallPowerOff \/ ScanReady
  BY <1>11 DEF CallPowerOn, CallPowerOff, StartPowerOff, ScanReady, pins
<1>12. CASE Board
  <2>1. UNCHANGED <<enabled, released, m_resetSequenceIndex, pc>>
    BY <1>12 DEF flags, Board, PowerGoodChanges, DonePinChanges, DelayElapses
  <2> QED
    BY <1>0, <2>1 DEF TypeOK, Sequencer!Devices, Sequencer!Next
<1>13. CASE UNCHANGED vars
  BY <1>13 DEF vars
<1> QED
  BY <1>1, <1>2, <1>3, <1>4, <1>5, <1>6, <1>7, <1>8, <1>9, <1>10, <1>11, <1>12, <1>13
  DEF Next, Application, Supervisor

(* The supervisor implements the abstract power sequencer.                 *)
THEOREM Refinement == Spec => ImplementsSequencer
  BY RefinedInit, RefinedNext, Invariance, PTL
  DEF Spec, ImplementsSequencer, Sequencer!Spec

=============================================================================
