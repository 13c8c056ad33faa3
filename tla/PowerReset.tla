------------------------------ MODULE PowerReset ------------------------------
(***************************************************************************)
(* The board supervisor's power and reset sequencer                        *)
(* (supervisor/PowerResetSupervisor.{h,cpp} with the rail and reset        *)
(* descriptors it drives).                                                 *)
(*                                                                         *)
(* The class runs on one core under a cooperative main loop, so its own    *)
(* steps never interleave with each other, but the board does not wait for *)
(* it: power-good and ready pins move between any two pin accesses.  One   *)
(* action is therefore one pin access with the bookkeeping up to the next  *)
(* one, and "pc" and "k" are the call in progress and its loop index.      *)
(***************************************************************************)
EXTENDS Integers

CONSTANTS
  NRails,       \* m_railSequence.size()
  NResets,      \* m_resetSequence.size()
  PGoodRails,   \* rails whose descriptor has power-good feedback (pin or ADC)
  Critical,     \* rails whose IsCritical() is true
  InputSupply,  \* rails whose IsInputSupply() is true
  DoneLines,    \* reset lines whose IsReady() is a pin of the device
  DelayLines,   \* reset lines whose IsReady() is a time after Deassert()
  PollTicks,    \* m_delay of a rail with feedback: ticks until it times out
  FaultOutcomes \* where OnFault() may lead: the default hangs, a board's own may return

Rails == 0 .. NRails - 1
Lines == 0 .. NResets - 1

(* UpdateResets and MonitorRails index element 0 of the vectors, and the   *)
(* latter divides by the number of rails, so both sequences are non-empty. *)
ASSUME SequenceAssumption ==
  /\ NRails \in Nat \ {0} /\ NResets \in Nat \ {0}
  /\ PGoodRails \subseteq Rails /\ Critical \subseteq Rails
  /\ InputSupply \subseteq Rails
  /\ DoneLines \subseteq Lines /\ DelayLines \subseteq Lines
  /\ DoneLines \cap DelayLines = {}
  /\ PollTicks \in Nat
  /\ FaultOutcomes # {} /\ FaultOutcomes \subseteq {"idle", "hung"}

VARIABLES
  m_powerOn, m_resetsDone, m_resetSequenceIndex, m_monitorRailIndex,
  enabled,   \* rails whose enable pin is active
  released,  \* reset lines that are deasserted
  pgood,     \* what IsPowerGood() of each rail would return now
  ready,     \* what IsReady() of each line would return now
  pc, k,     \* the call in progress, its loop index
  tick,      \* ticks spent in the power-good poll of TurnOn()
  caller     \* who called PowerOff or PanicShutdown: the application or MonitorRails

flags == <<m_powerOn, m_resetsDone, m_resetSequenceIndex>>
pins  == <<pgood, ready>>
vars  == <<m_powerOn, m_resetsDone, m_resetSequenceIndex, m_monitorRailIndex,
           enabled, released, pgood, ready, pc, k, tick, caller>>

PCs == {"idle", "railOn", "railPoll", "powerUp", "offResets", "offRails",
        "panicRails", "panicResets", "release", "scan", "reassert", "monitor",
        "hung"}

(* A rail without feedback always reports good, a line with neither pin    *)
(* nor delay is always ready.  m_tstart of a delay line is uninitialised   *)
(* until its first Deassert(), so its first answer may be anything.        *)
Init ==
  /\ m_powerOn = FALSE /\ m_resetsDone = FALSE
  /\ m_resetSequenceIndex = 0 /\ m_monitorRailIndex = 0
  /\ enabled = {} /\ released = {}
  /\ pgood \in [Rails -> BOOLEAN]
  /\ \A r \in Rails \ PGoodRails : pgood[r]
  /\ ready \in [Lines -> BOOLEAN]
  /\ \A l \in Lines \ (DoneLines \cup DelayLines) : ready[l]
  /\ pc = "idle" /\ k = 0 /\ tick = 0 /\ caller = "app"

-----------------------------------------------------------------------------
(* Pin operations of the descriptors.                                      *)

Assert(l) == released' = released \ {l} /\ UNCHANGED ready

\* Variants: a delay that is never over; one that nobody waits for.
IsReady_DelayStuck(l) == ready[l] /\ l \notin DelayLines
IsReady_NoDelay(l) == ready[l] \/ l \in DelayLines
IsReady(l) == ready[l]

(* A delay line restarts its clock: m_done = false, m_tstart = now.        *)
Deassert(l) ==
  /\ released' = released \cup {l}
  /\ ready' = IF l \in DelayLines THEN [ready EXCEPT ![l] = FALSE] ELSE ready

TurnOff(r) == enabled' = enabled \ {r}

\* Variant: the resets-done flag survives the shutdown.
ClearFlags_KeepDone ==
  m_powerOn' = FALSE /\ m_resetSequenceIndex' = 0 /\ UNCHANGED m_resetsDone
ClearFlags ==
  m_powerOn' = FALSE /\ m_resetsDone' = FALSE /\ m_resetSequenceIndex' = 0

(* Return to the main loop; MonitorRails still advances its rail index.    *)
\* Variants: the index runs past the last rail; it never moves.
NextMonitorIndex_NoWrap == m_monitorRailIndex + 1
NextMonitorIndex_Stuck == m_monitorRailIndex
NextMonitorIndex == (m_monitorRailIndex + 1) % NRails
Return(to) ==
  /\ pc' = to /\ k' = 0
  /\ m_monitorRailIndex' =
       IF caller = "monitor" /\ to = "idle" THEN NextMonitorIndex ELSE m_monitorRailIndex

-----------------------------------------------------------------------------
(* PowerOn(): called by the application while the board is off.            *)

CallPowerOn ==
  /\ pc = "idle" /\ ~m_powerOn
  /\ pc' = "railOn" /\ k' = 0 /\ caller' = "app"
  /\ UNCHANGED <<flags, m_monitorRailIndex, enabled, released, pins, tick>>

RailEnable ==
  /\ pc = "railOn"
  /\ enabled' = enabled \cup {k}
  /\ pc' = "railPoll" /\ tick' = 0
  /\ UNCHANGED <<flags, m_monitorRailIndex, released, pins, k, caller>>

(* A rail that is up moves on to the next one; a rail that is still down   *)
(* when its ticks are spent fails TurnOn(), and PowerOn() panics.          *)
RailPoll ==
  /\ pc = "railPoll"
  /\ \/ /\ pgood[k]
        /\ pc' = IF k + 1 < NRails THEN "railOn" ELSE "powerUp"
        /\ k' = k + 1
        /\ UNCHANGED tick
     \/ /\ ~pgood[k] /\ tick < PollTicks
        /\ tick' = tick + 1
        /\ UNCHANGED <<pc, k>>
     \/ /\ ~pgood[k] /\ tick = PollTicks
        /\ pc' = "panicRails" /\ k' = NRails - 1
        /\ UNCHANGED tick
  /\ UNCHANGED <<flags, m_monitorRailIndex, enabled, released, pins, caller>>

\* Variant: nobody releases the first reset.
FinishPowerOn_NoDeassert ==
  /\ pc = "powerUp"
  /\ m_powerOn' = TRUE /\ m_resetsDone' = FALSE /\ m_resetSequenceIndex' = 0
  /\ pc' = "idle" /\ k' = 0
  /\ UNCHANGED <<m_monitorRailIndex, enabled, released, pins, tick, caller>>

FinishPowerOn ==
  /\ pc = "powerUp"
  /\ m_powerOn' = TRUE /\ m_resetsDone' = FALSE /\ m_resetSequenceIndex' = 0
  /\ Deassert(0)
  /\ pc' = "idle" /\ k' = 0
  /\ UNCHANGED <<m_monitorRailIndex, enabled, pgood, tick, caller>>

-----------------------------------------------------------------------------
(* PowerOff(): flags first, then resets, then rails, both in reverse.      *)

\* Variant: rails go down without holding the resets.
StartPowerOff_RailsFirst(who) ==
  /\ ClearFlags
  /\ pc' = "offRails" /\ k' = NRails - 1 /\ caller' = who

StartPowerOff(who) ==
  /\ ClearFlags
  /\ pc' = "offResets" /\ k' = NResets - 1 /\ caller' = who

CallPowerOff ==
  /\ pc = "idle" /\ StartPowerOff("app")
  /\ UNCHANGED <<m_monitorRailIndex, enabled, released, pins, tick>>

OffReset ==
  /\ pc = "offResets"
  /\ Assert(k)
  /\ IF k > 0 THEN pc' = pc /\ k' = k - 1
              ELSE pc' = "offRails" /\ k' = NRails - 1
  /\ UNCHANGED <<flags, m_monitorRailIndex, enabled, pgood, tick, caller>>

OffRail ==
  /\ pc = "offRails"
  /\ TurnOff(k)
  /\ IF k > 0 THEN pc' = pc /\ k' = k - 1 /\ UNCHANGED m_monitorRailIndex
              ELSE Return("idle")
  /\ UNCHANGED <<flags, released, pins, tick, caller>>

-----------------------------------------------------------------------------
(* PanicShutdown(): rails in reverse, then every reset, then the flags.    *)

StartPanic(who) == pc' = "panicRails" /\ k' = NRails - 1 /\ caller' = who

CallPanicShutdown ==
  /\ pc = "idle" /\ StartPanic("app")
  /\ UNCHANGED <<flags, m_monitorRailIndex, enabled, released, pins, tick>>

PanicRail ==
  /\ pc = "panicRails"
  /\ TurnOff(k)
  /\ IF k > 0 THEN pc' = pc /\ k' = k - 1
              ELSE pc' = "panicResets" /\ k' = 0
  /\ UNCHANGED <<flags, m_monitorRailIndex, released, pins, tick, caller>>

PanicReset ==
  /\ pc = "panicResets"
  /\ Assert(k)
  /\ IF k + 1 < NResets
       THEN pc' = pc /\ k' = k + 1 /\ UNCHANGED <<flags, m_monitorRailIndex>>
       ELSE ClearFlags /\ \E to \in FaultOutcomes : Return(to)
  /\ UNCHANGED <<enabled, pgood, tick, caller>>

-----------------------------------------------------------------------------
(* Iteration(): UpdateResets() then MonitorRails(), only while powered.    *)

(* First half of UpdateResets: if the active line is ready, go on to the   *)
(* next.  The answer may be old by the time that one is released.          *)
AdvanceReset ==
  /\ pc = "idle" /\ m_powerOn
  /\ IF ~m_resetsDone /\ IsReady(m_resetSequenceIndex)
       THEN /\ m_resetSequenceIndex' = m_resetSequenceIndex + 1
            /\ m_resetsDone' = (m_resetSequenceIndex + 1 = NResets)
            /\ pc' = IF m_resetsDone' THEN "scan" ELSE "release"
       ELSE pc' = "scan" /\ UNCHANGED <<m_resetSequenceIndex, m_resetsDone>>
  /\ k' = 0
  /\ UNCHANGED <<m_powerOn, m_monitorRailIndex, enabled, released, pins, tick, caller>>

ReleaseNext ==
  /\ pc = "release"
  /\ Deassert(m_resetSequenceIndex)
  /\ pc' = "scan"
  /\ UNCHANGED <<flags, m_monitorRailIndex, enabled, pgood, k, tick, caller>>

(* Second half: look at every earlier line; back up to one that went down. *)
\* Variant: the scan stops one line early.
ScannedLines_SkipLast == 0 .. m_resetSequenceIndex - 2
ScannedLines == 0 .. m_resetSequenceIndex - 1

ScanReady ==
  /\ pc = "scan"
  /\ \/ /\ k \in ScannedLines /\ IsReady(k)
        /\ k' = k + 1 /\ UNCHANGED <<pc, m_resetSequenceIndex, m_resetsDone>>
     \/ /\ k \in ScannedLines /\ ~IsReady(k)
        /\ m_resetSequenceIndex' = k /\ m_resetsDone' = FALSE
        /\ pc' = "reassert" /\ k' = k + 1
     \/ /\ k \notin ScannedLines
        /\ pc' = "monitor" /\ k' = 0
        /\ UNCHANGED <<m_resetSequenceIndex, m_resetsDone>>
  /\ UNCHANGED <<m_powerOn, m_monitorRailIndex, enabled, released, pins, tick, caller>>

ReassertLater ==
  /\ pc = "reassert"
  /\ IF k < NResets THEN Assert(k) /\ k' = k + 1 /\ pc' = pc
                    ELSE pc' = "monitor" /\ k' = 0 /\ UNCHANGED <<released, ready>>
  /\ UNCHANGED <<flags, m_monitorRailIndex, enabled, pgood, tick, caller>>

(* One rail per call, round robin; the index moves on after the shutdown   *)
(* the check may start has returned (Return above).                        *)
MonitorRail ==
  LET r == m_monitorRailIndex IN
  /\ pc = "monitor"
  /\ \/ /\ ~pgood[r] /\ r \in Critical
        /\ StartPanic("monitor") /\ UNCHANGED <<flags, m_monitorRailIndex>>
     \/ /\ ~pgood[r] /\ r \notin Critical /\ r \in InputSupply
        /\ StartPowerOff("monitor") /\ UNCHANGED m_monitorRailIndex
     \/ /\ pgood[r] \/ r \notin Critical \cup InputSupply
        /\ pc' = "idle" /\ k' = 0 /\ m_monitorRailIndex' = NextMonitorIndex
        /\ UNCHANGED <<flags, caller>>
  /\ UNCHANGED <<enabled, released, pins, tick>>

-----------------------------------------------------------------------------
(* The board: pins of rails with feedback and of devices move at any time; *)
(* a delay that runs out stays expired until the next Deassert().          *)

PowerGoodChanges(r) ==
  /\ pgood' = [pgood EXCEPT ![r] = ~@]
  /\ UNCHANGED <<flags, m_monitorRailIndex, enabled, released, ready, pc, k, tick, caller>>

DonePinChanges(l) ==
  /\ ready' = [ready EXCEPT ![l] = ~@]
  /\ UNCHANGED <<flags, m_monitorRailIndex, enabled, released, pgood, pc, k, tick, caller>>

DelayElapses(l) ==
  /\ ~ready[l]
  /\ ready' = [ready EXCEPT ![l] = TRUE]
  /\ UNCHANGED <<flags, m_monitorRailIndex, enabled, released, pgood, pc, k, tick, caller>>

Application == CallPowerOn \/ CallPowerOff \/ CallPanicShutdown

Supervisor ==
  \/ RailEnable \/ RailPoll \/ FinishPowerOn
  \/ OffReset \/ OffRail
  \/ PanicRail \/ PanicReset
  \/ AdvanceReset \/ ReleaseNext \/ ScanReady \/ ReassertLater \/ MonitorRail

Board ==
  \/ \E r \in PGoodRails : PowerGoodChanges(r)
  \/ \E l \in DoneLines : DonePinChanges(l)
  \/ \E l \in DelayLines : DelayElapses(l)

Next == Application \/ Supervisor \/ Board

Spec == Init /\ [][Next]_vars

(* The main loop calls Iteration() forever and a call runs to its end; a   *)
(* delay runs out.  Nothing makes the application call or a pin move.      *)
FairSpec ==
  /\ Spec /\ WF_vars(Supervisor)
  /\ \A l \in DelayLines : WF_vars(DelayElapses(l))

-----------------------------------------------------------------------------
(* Properties.                                                             *)

(* Every variable keeps its type, the pins of descriptors without feedback *)
(* or readiness keep their constant answer.                                *)
TypeOK ==
  /\ m_powerOn \in BOOLEAN /\ m_resetsDone \in BOOLEAN
  /\ m_resetSequenceIndex \in 0 .. NResets
  /\ m_monitorRailIndex \in Rails
  /\ enabled \subseteq Rails /\ released \subseteq Lines
  /\ pgood \in [Rails -> BOOLEAN] /\ ready \in [Lines -> BOOLEAN]
  /\ pc \in PCs /\ k \in Int /\ tick \in 0 .. PollTicks
  /\ caller \in {"app", "monitor"}

(* Between two Iterations the flags describe the pins: powered means every *)
(* rail is on and exactly the lines up to the active one are released,     *)
(* resets-done means all of them; off means everything is off and held.    *)
FlagsMatchPins ==
  pc = "idle" =>
    IF m_powerOn
      THEN /\ enabled = Rails
           /\ released = {l \in Lines : l <= m_resetSequenceIndex}
           /\ m_resetsDone <=> m_resetSequenceIndex = NResets
      ELSE enabled = {} /\ released = {} /\ ~m_resetsDone

(* A device is out of reset only while all rails are on, except between    *)
(* the first step of a panic and its last one.                             *)
ResetReleasedNeedsPower ==
  released # {} => enabled = Rails \/ pc \in {"panicRails", "panicResets"}

(* IsReady() is only ever asked of a line that has been released: a delay  *)
(* line's clock (m_tstart) is uninitialised or stale before Deassert().    *)
ReadyAskedOnlyWhenReleased ==
  /\ pc = "idle" /\ m_powerOn /\ ~m_resetsDone => m_resetSequenceIndex \in released
  /\ pc = "scan" /\ k \in ScannedLines => k \in released

(* The supervisor implements the abstract sequencer; its panic mode is the *)
(* window between the first rail a panic drops and the last line it holds, *)
(* and the line seen ready is the one that was asked before a release.     *)
SequencerMode == IF pc \in {"panicRails", "panicResets"} THEN "panic" ELSE "normal"
SeenReady == IF pc = "release" THEN {m_resetSequenceIndex - 1} ELSE {}
Sequencer == INSTANCE PowerSequence WITH mode <- SequencerMode, seen <- SeenReady
ImplementsSequencer == Sequencer!Spec

(* A critical rail or the input supply that stays bad cannot go unnoticed  *)
(* while power stays on: MonitorRails looks at one rail per Iteration and  *)
(* must come round to it.                                                  *)
RailLossShutsDown ==
  \A r \in Critical \cup InputSupply : ~<>[](m_powerOn /\ ~pgood[r])

(* While power stays on and every device stays ready, the sequence runs to *)
(* its end and stays there (UpdateResets never backs up for nothing).      *)
ResetsComplete ==
  <>[](m_powerOn /\ \A l \in DoneLines : ready[l]) => <>[]m_resetsDone

(* A device that stays not ready while power stays on ends with every      *)
(* later line held in reset, and resets-done withdrawn (UpdateResets).     *)
NotReadyHoldsLaterLines ==
  \A l \in DoneLines :
    <>[](m_powerOn /\ ~ready[l]) =>
      <>[](~m_resetsDone /\ \A j \in Lines : j > l => j \notin released)

=============================================================================
