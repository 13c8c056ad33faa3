---------------------------- MODULE MCTimerTasks ----------------------------
(* Two timer tasks, one with a period shorter than the time between two    *)
(* shifts of the clock and one with a longer period.                       *)
EXTENDS TimerTasks
MCPeriod == <<3, 12>>
=============================================================================
