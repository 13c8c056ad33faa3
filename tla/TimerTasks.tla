----------------------------- MODULE TimerTasks -----------------------------
(***************************************************************************)
(* The main loop's clock (core/main.cpp, core/TimerTask.{h,cpp}).  The log *)
(* timer counts up; a loop that finds it past logTimerMax sets it back by  *)
(* that much and tells every timer task.  A reset line with a delay        *)
(* (supervisor/ResetDescriptor.h) reads the same timer and is told nothing.*)
(* Time passes anywhere in the loop, at most MaxLoop ticks in one pass.    *)
(***************************************************************************)
EXTENDS Integers

CONSTANTS
  NTasks,   \* length of g_timerTasks
  Period,   \* m_period of each task
  Shift,    \* logTimerMax
  MaxLoop,  \* most ticks one pass through the main loop takes
  Delay     \* m_delay of the reset line

Tasks == 1 .. NTasks

(* A pass is far shorter than the 60000 ticks between two shifts, and the  *)
(* delay of a line ends well before a whole shift.                         *)
ASSUME TimerAssumption ==
  /\ NTasks \in Nat /\ Period \in [Tasks -> Nat \ {0}]
  /\ MaxLoop \in Nat \ {0} /\ Delay \in Nat
  /\ Shift \in Nat /\ Shift > Delay + MaxLoop

VARIABLES
  count,      \* g_logTimer.GetCount()
  m_target,   \* per task
  place, task,  \* where in the loop, and the next task
  spent,      \* ticks since the top of the loop
  now,        \* the local of TimerTask::Iteration
  since,      \* per task: ticks since its last run read the clock
  m_tstart, m_done, \* the delay line
  age         \* ticks since the line's Deassert(), while it is not done

taskVars == <<m_target, now, since>>
lineVars == <<m_tstart, m_done, age>>
timerVars == <<count, m_target, place, task, spent, now, since, m_tstart, m_done, age>>

(* since and age only count as far as a property looks.                    *)
SinceBound(t) == Period[t] + 2 * MaxLoop + 1
AgeBound == Delay + MaxLoop + 1

(* The tasks' constructors read the clock and add an initial offset.       *)
TimerInit ==
  /\ count = 0
  /\ m_target = [t \in Tasks |-> 0]
  /\ place = "top" /\ task = 1 /\ spent = 0 /\ now = 0
  /\ since = Period
  /\ m_tstart = 0 /\ m_done = TRUE /\ age = 0

-----------------------------------------------------------------------------

(* A tick of the timer.                                                    *)
Tick ==
  /\ place # "top" /\ spent < MaxLoop
  /\ count' = count + 1 /\ spent' = spent + 1
  /\ since' = [t \in Tasks |->
                 IF since[t] < SinceBound(t) THEN since[t] + 1 ELSE since[t]]
  /\ age' = IF ~m_done /\ age < AgeBound THEN age + 1 ELSE age
  /\ UNCHANGED <<m_target, place, task, now, m_tstart, m_done>>

\* Variant: deadlines stay where they are.
OnTimerShift_None(t) == m_target[t]
OnTimerShift(t) == IF m_target[t] > Shift THEN m_target[t] - Shift ELSE m_target[t]

(* UpdateOffset(), of the log library: the clock is set back by the given  *)
(* number of ticks once it has counted that many.                          *)
\* Variant: the loop has to meet the exact tick.
MustShift_Exact == count = Shift
MustShift == count >= Shift

(* Top of the loop: UpdateOffset() and, if it moved the clock, the tasks.  *)
CheckOverflow ==
  /\ place = "top"
  /\ IF MustShift
       THEN /\ count' = count - Shift
            /\ m_target' = [t \in Tasks |-> OnTimerShift(t)]
       ELSE UNCHANGED <<count, m_target>>
  /\ place' = "tasks" /\ task' = 1 /\ spent' = 0
  /\ UNCHANGED <<now, since, lineVars>>

(* TimerTask::Iteration.                                                   *)
\* Variant: the comparison is off by one.
Due_Early(t) == count + 1 >= m_target[t]
Due(t) == count >= m_target[t]

NotDue ==
  /\ place = "tasks" /\ task \in Tasks /\ ~Due(task)
  /\ task' = task + 1
  /\ UNCHANGED <<count, place, spent, taskVars, lineVars>>

StartOnTimer ==
  /\ place = "tasks" /\ task \in Tasks /\ Due(task)
  /\ now' = count /\ since' = [since EXCEPT ![task] = 0]
  /\ place' = "ontimer"
  /\ UNCHANGED <<count, task, spent, m_target, lineVars>>

FinishOnTimer ==
  /\ place = "ontimer"
  /\ m_target' = [m_target EXCEPT ![task] = now + Period[task]]
  /\ place' = "tasks" /\ task' = task + 1
  /\ now' = 0
  /\ UNCHANGED <<count, spent, since, lineVars>>

(* Restart(), from any code the loop runs but the task's own OnTimer(): it *)
(* would be pointless there, Iteration() sets the deadline afterwards.     *)
Restart(t) ==
  /\ place # "top" /\ (place = "ontimer" => t # task)
  /\ m_target' = [m_target EXCEPT ![t] = count + Period[t]]
  /\ since' = [since EXCEPT ![t] = 0]
  /\ UNCHANGED <<count, place, task, spent, now, lineVars>>

(* The supervisor's task, last in the list: Deassert() of the line, or     *)
(* IsReady() while it is not yet done.                                     *)
Deassert ==
  /\ place = "tasks" /\ task \notin Tasks /\ m_done
  /\ m_done' = FALSE /\ m_tstart' = count /\ age' = 0
  /\ place' = "top"
  /\ UNCHANGED <<count, task, spent, taskVars>>

\* Variant: the clock running backwards goes unnoticed.
Elapsed_NoWrap == count > m_tstart + Delay
Elapsed == count < m_tstart \/ count > m_tstart + Delay

IsReady ==
  /\ place = "tasks" /\ task \notin Tasks
  /\ m_done' = (m_done \/ Elapsed)
  /\ age' = IF m_done' THEN 0 ELSE age
  /\ place' = "top"
  /\ UNCHANGED <<count, task, spent, taskVars, m_tstart>>

TimerNext ==
  \/ Tick \/ CheckOverflow \/ NotDue \/ StartOnTimer \/ FinishOnTimer
  \/ \E t \in Tasks : Restart(t)
  \/ Deassert \/ IsReady

TimerSpec == TimerInit /\ [][TimerNext]_timerVars

-----------------------------------------------------------------------------
(* Properties.                                                             *)

(* Types.  The clock never gets further past a shift than one pass takes,  *)
(* so a 16-bit counter does not wrap by itself when Shift + MaxLoop fits.  *)
TimerTypeOK ==
  /\ count \in 0 .. Shift + MaxLoop
  /\ m_target \in [Tasks -> Nat]
  /\ place \in {"top", "tasks", "ontimer"} /\ task \in 1 .. NTasks + 1
  /\ place = "ontimer" => task \in Tasks
  /\ spent \in 0 .. MaxLoop /\ now \in 0 .. count
  /\ since \in [Tasks -> Nat]
  /\ m_tstart \in Nat /\ m_done \in BOOLEAN /\ age \in Nat

(* A task never runs before its period is over: neither setting the clock  *)
(* back nor a run that takes long nor Restart() makes OnTimer come sooner. *)
NeverEarly ==
  [][\A t \in Tasks :
       task = t /\ place = "tasks" /\ place' = "ontimer" => since[t] >= Period[t]]_timerVars

(* The task "executes a function at regular intervals" (TimerTask.h:36):   *)
(* when its period is over it runs as soon as the loop comes round to it,  *)
(* which two passes bound.                                                 *)
RegularIntervals == \A t \in Tasks : since[t] <= Period[t] + 2 * MaxLoop

(* How far RegularIntervals is missed: the next run is at most a period    *)
(* away, unless the deadline is one that a shift left behind, and that one *)
(* lies within a shift of the clock's zero.  No chain of shifts and        *)
(* restarts pushes a deadline out further.                                 *)
WaitBounded ==
  \A t \in Tasks : m_target[t] <= Shift \/ m_target[t] <= count + Period[t]

(* The delay of a reset line ends at most one pass late, although nobody   *)
(* tells the line that the clock it measures with was set back.            *)
DelayNeverOverruns == ~m_done => age <= Delay + MaxLoop

=============================================================================
