-------------------------- MODULE TimerTasksProofs --------------------------
(***************************************************************************)
(* Proofs about the main loop's clock: for any number of tasks and any     *)
(* periods, no task runs early, no deadline is pushed out of reach, and    *)
(* the delay of a reset line ends at most one pass late.                   *)
(***************************************************************************)
EXTENDS TimerTasks, TLAPS

(* The clock: it is set back before it is a whole pass past the shift, and *)
(* OnTimer() started in this pass.                                         *)
ClockInv ==
  /\ count < Shift + spent
  /\ IF place = "ontimer" THEN now + spent >= count ELSE now = 0

(* Since its last run a task has used up what its deadline no longer asks  *)
(* for; while OnTimer() runs, the deadline is yet to be computed.          *)
TaskInv(t) ==
  IF place = "ontimer" /\ t = task
    THEN since[t] = count - now
    ELSE since[t] >= Period[t] \/ since[t] + m_target[t] >= count + Period[t]

(* The delay line was found waiting when last polled.  Its age is the time *)
(* on the clock since m_tstart, or that plus a shift once the clock went   *)
(* back; the next poll then sees a clock that is behind m_tstart.          *)
DelayInv ==
  ~m_done =>
    /\ age <= IF place = "top" THEN Delay ELSE Delay + spent
    /\ \/ age = count - m_tstart
       \/ place # "top" /\ age = count + Shift - m_tstart

Inv ==
  /\ TimerTypeOK /\ ClockInv /\ DelayInv /\ WaitBounded
  /\ \A t \in Tasks : TaskInv(t)

-----------------------------------------------------------------------------

(* The invariant holds when the constructors have run.                     *)
LEMMA InitInv == TimerInit => Inv
<1>1. SUFFICES ASSUME TimerInit PROVE Inv
  OBVIOUS
<1>2. TimerTypeOK
  BY <1>1, TimerAssumption DEF TimerInit, TimerTypeOK, Tasks
<1>3. ClockInv /\ DelayInv /\ WaitBounded
  BY <1>1, TimerAssumption DEF TimerInit, ClockInv, DelayInv, WaitBounded, Tasks
<1>4. \A t \in Tasks : TaskInv(t)
  BY <1>1, TimerAssumption DEF TimerInit, TaskInv, Tasks
<1> QED
  BY <1>2, <1>3, <1>4 DEF Inv

(* Every step keeps the types and the bound on the clock.                  *)
LEMMA NextTypeOK == Inv /\ [TimerNext]_timerVars => TimerTypeOK' /\ ClockInv'
<1> SUFFICES ASSUME TimerTypeOK, ClockInv, DelayInv, [TimerNext]_timerVars
             PROVE  TimerTypeOK' /\ ClockInv'
  BY DEF Inv
<1> USE TimerAssumption DEF TimerTypeOK, ClockInv, Tasks
<1>1. CASE Tick
  <2>1. since' \in [Tasks -> Nat]
    BY <1>1 DEF Tick
  <2>2. age' \in Nat
    BY <1>1 DEF Tick
  <2> QED
    BY <1>1, <2>1, <2>2 DEF Tick
<1>2. CASE CheckOverflow
  <2>1. CASE MustShift
    <3>1. m_target' \in [Tasks -> Nat]
      BY <1>2, <2>1 DEF CheckOverflow, OnTimerShift
    <3> QED
      BY <1>2, <2>1, <3>1 DEF CheckOverflow, MustShift, taskVars, lineVars
  <2>2. CASE ~MustShift
    BY <1>2, <2>2 DEF CheckOverflow, MustShift, taskVars, lineVars
  <2> QED
    BY <2>1, <2>2
<1>3. CASE NotDue
  BY <1>3 DEF NotDue, taskVars, lineVars
<1>4. CASE StartOnTimer
  BY <1>4 DEF StartOnTimer, taskVars, lineVars
<1>5. CASE FinishOnTimer
  BY <1>5 DEF FinishOnTimer, taskVars, lineVars
<1>6. ASSUME NEW t \in Tasks, Restart(t) PROVE TimerTypeOK' /\ ClockInv'
  <2>1. m_target' \in [Tasks -> Nat] /\ since' \in [Tasks -> Nat]
    BY <1>6 DEF Restart
  <2> QED
    BY <1>6, <2>1 DEF Restart, lineVars
<1>7. CASE Deassert
  <2>1. m_done' \in BOOLEAN
    BY <1>7, Zenon DEF Deassert
  <2> QED
    BY <1>7, <2>1 DEF Deassert, taskVars
<1>8. CASE IsReady
  <2>1. m_done' \in BOOLEAN
    BY <1>8 DEF IsReady
  <2> QED
    BY <1>8, <2>1 DEF IsReady, taskVars
<1>9. CASE UNCHANGED timerVars
  BY <1>9 DEF timerVars
<1> QED
  BY <1>1, <1>2, <1>3, <1>4, <1>5, <1>6, <1>7, <1>8, <1>9 DEF TimerNext

(* Every step keeps the account of a task's time.  A tick moves the clock  *)
(* and the task's own count together, a shift either moves the deadline    *)
(* with the clock or leaves more to wait for.                              *)
LEMMA NextTask ==
  ASSUME Inv, [TimerNext]_timerVars, NEW t \in Tasks
  PROVE  TaskInv(t)'
<1> USE TimerAssumption DEF TimerTypeOK, ClockInv
<1>0. TimerTypeOK /\ ClockInv /\ TaskInv(t) /\ Tasks \subseteq Int
  BY DEF Inv, Tasks
<1>1. CASE Tick
  <2>1. CASE place = "ontimer" /\ t = task
    BY <1>0, <1>1, <2>1 DEF Tick, TaskInv, SinceBound
  <2>2. CASE ~(place = "ontimer" /\ t = task)
    BY <1>0, <1>1, <2>2 DEF Tick, TaskInv, SinceBound
  <2> QED
    BY <2>1, <2>2
<1>2. CASE CheckOverflow
  <2>1. CASE MustShift
    BY <1>0, <1>2, <2>1
    DEF CheckOverflow, MustShift, OnTimerShift, TaskInv, lineVars
  <2>2. CASE ~MustShift
    BY <1>0, <1>2, <2>2 DEF CheckOverflow, TaskInv, lineVars
  <2> QED
    BY <2>1, <2>2
<1>3. CASE NotDue
  BY <1>0, <1>3 DEF NotDue, TaskInv, taskVars
<1>4. CASE StartOnTimer
  <2>1. CASE t = task
    BY <1>0, <1>4, <2>1 DEF StartOnTimer, TaskInv
  <2>2. CASE t # task
    BY <1>0, <1>4, <2>2 DEF StartOnTimer, TaskInv
  <2> QED
    BY <2>1, <2>2
<1>5. CASE FinishOnTimer
  <2>1. CASE t = task
    BY <1>0, <1>5, <2>1 DEF FinishOnTimer, TaskInv
  <2>2. CASE t # task
    BY <1>0, <1>5, <2>2 DEF FinishOnTimer, TaskInv
  <2> QED
    BY <2>1, <2>2
<1>6. ASSUME NEW u \in Tasks, Restart(u) PROVE TaskInv(t)'
  <2>1. CASE t = u
    BY <1>0, <1>6, <2>1 DEF Restart, TaskInv
  <2>2. CASE t # u
    BY <1>0, <1>6, <2>2 DEF Restart, TaskInv
  <2> QED
    BY <2>1, <2>2
<1>7. CASE Deassert \/ IsReady
  BY <1>0, <1>7 DEF Deassert, IsReady, TaskInv, taskVars
<1>8. CASE UNCHANGED timerVars
  BY <1>0, <1>8 DEF timerVars, TaskInv
<1> QED
  BY <1>1, <1>2, <1>3, <1>4, <1>5, <1>6, <1>7, <1>8 DEF TimerNext

(* Every step keeps the bound on what is still to be waited for.           *)
LEMMA NextWait == Inv /\ [TimerNext]_timerVars => WaitBounded'
<1> SUFFICES ASSUME Inv, [TimerNext]_timerVars, NEW t \in Tasks
             PROVE  m_target[t]' <= Shift \/ m_target[t]' <= (count + Period[t])'
  BY DEF WaitBounded
<1> USE TimerAssumption DEF TimerTypeOK
<1>0. TimerTypeOK /\ (m_target[t] <= Shift \/ m_target[t] <= count + Period[t])
  BY DEF Inv, WaitBounded
<1>1. CASE Tick
  BY <1>0, <1>1 DEF Tick
<1>2. CASE CheckOverflow
  BY <1>0, <1>2 DEF CheckOverflow, MustShift, OnTimerShift, lineVars
<1>3. CASE NotDue \/ StartOnTimer
  BY <1>0, <1>3 DEF NotDue, StartOnTimer, taskVars
<1>4. CASE FinishOnTimer
  BY <1>0, <1>4 DEF FinishOnTimer
<1>5. ASSUME NEW u \in Tasks, Restart(u)
      PROVE  m_target[t]' <= Shift \/ m_target[t]' <= (count + Period[t])'
  BY <1>0, <1>5 DEF Restart
<1>6. CASE Deassert \/ IsReady
  BY <1>0, <1>6 DEF Deassert, IsReady, taskVars
<1>7. CASE UNCHANGED timerVars
  BY <1>0, <1>7 DEF timerVars
<1> QED
  BY <1>1, <1>2, <1>3, <1>4, <1>5, <1>6, <1>7 DEF TimerNext

(* Every step keeps the account of the delay.  Its heart is IsReady: a     *)
(* line whose clock went back sees it behind m_tstart, because its age is  *)
(* less than a shift.                                                      *)
LEMMA NextDelay == Inv /\ [TimerNext]_timerVars => DelayInv'
<1> SUFFICES ASSUME Inv, [TimerNext]_timerVars PROVE DelayInv'
  OBVIOUS
<1> USE TimerAssumption DEF TimerTypeOK, ClockInv, DelayInv
<1>0. TimerTypeOK /\ ClockInv /\ DelayInv
  BY DEF Inv
<1>1. CASE Tick
  BY <1>0, <1>1 DEF Tick, AgeBound
<1>2. CASE CheckOverflow
  BY <1>0, <1>2 DEF CheckOverflow, lineVars
<1>3. CASE NotDue \/ StartOnTimer \/ FinishOnTimer
  BY <1>0, <1>3 DEF NotDue, StartOnTimer, FinishOnTimer, lineVars
<1>4. ASSUME NEW u \in Tasks, Restart(u) PROVE DelayInv'
  BY <1>0, <1>4 DEF Restart, lineVars
<1>5. CASE Deassert
  BY <1>0, <1>5 DEF Deassert
<1>6. CASE IsReady
  <2>1. CASE m_done'
    BY <2>1
  <2>2. CASE ~m_done'
    <3>1. ~m_done /\ count >= m_tstart /\ count <= m_tstart + Delay
      <4>1. ~m_done /\ ~Elapsed
        BY <1>6, <2>2, Zenon DEF IsReady
      <4> QED
        BY <1>0, <4>1 DEF Elapsed
    <3>2. age' = age /\ m_tstart' = m_tstart /\ count' = count /\ spent' = spent
      BY <1>6, <2>2 DEF IsReady
    <3>3. place = "tasks" /\ place' = "top"
      BY <1>6 DEF IsReady
    <3> QED
      BY <1>0, <3>1, <3>2, <3>3
  <2> QED
    BY <2>1, <2>2
<1>7. CASE UNCHANGED timerVars
  BY <1>0, <1>7 DEF timerVars
<1> QED
  BY <1>1, <1>2, <1>3, <1>4, <1>5, <1>6, <1>7 DEF TimerNext

-----------------------------------------------------------------------------

(* The inductive invariant.                                                *)
THEOREM Invariance == TimerSpec => []Inv
<1>1. Inv /\ [TimerNext]_timerVars => Inv'
  BY NextTypeOK, NextTask, NextWait, NextDelay DEF Inv, Tasks
<1> QED
  BY InitInv, <1>1, PTL DEF TimerSpec

(* Types, and the clock is set back in time (TimerTypeOK).                 *)
THEOREM TypeCorrect == TimerSpec => []TimerTypeOK
<1>1. Inv => TimerTypeOK
  BY DEF Inv
<1> QED
  BY Invariance, <1>1, PTL

(* No task runs before its period is over (NeverEarly).                    *)
THEOREM TasksNeverEarly == TimerSpec => NeverEarly
<1>1. ASSUME Inv, [TimerNext]_timerVars, NEW t \in Tasks,
             task = t, place = "tasks", place' = "ontimer"
      PROVE  since[t] >= Period[t]
  <2>1. StartOnTimer
    BY <1>1
    DEF TimerNext, timerVars, Tick, CheckOverflow, NotDue, FinishOnTimer, Restart, Deassert, IsReady
  <2>2. count >= m_target[t]
    BY <1>1, <2>1 DEF StartOnTimer, Due
  <2> QED
    BY <1>1, <2>2, TimerAssumption DEF Inv, TaskInv, TimerTypeOK
<1>2. Inv /\ [TimerNext]_timerVars =>
        [\A t \in Tasks :
           task = t /\ place = "tasks" /\ place' = "ontimer" => since[t] >= Period[t]]_timerVars
  BY <1>1
<1> QED
  BY Invariance, <1>2, PTL DEF TimerSpec, NeverEarly

(* No deadline is further off than a period or a shift (WaitBounded).      *)
THEOREM DeadlinesInReach == TimerSpec => []WaitBounded
<1>1. Inv => WaitBounded
  BY DEF Inv
<1> QED
  BY Invariance, <1>1, PTL

(* The delay of a reset line ends in time (DelayNeverOverruns).            *)
THEOREM DelaysEnd == TimerSpec => []DelayNeverOverruns
<1>1. Inv => DelayNeverOverruns
  BY TimerAssumption DEF Inv, DelayInv, DelayNeverOverruns, TimerTypeOK
<1> QED
  BY Invariance, <1>1, PTL

=============================================================================
