------------------------------ MODULE OvisTime -------------------------------
(***************************************************************************)
(* The computation of wake-up times: set_next_periodic_time() of the       *)
(* scheduler (src/lib/src/ovis_event/ovis_event.c) and resched_task() of   *)
(* ldmsd's tasks (src/ldms/src/ldmsd/ldmsd.c).  Times are whole            *)
(* microseconds; the code's conversions to and from struct timeval are     *)
(* exact.                                                                  *)
(***************************************************************************)
EXTENDS Integers

\* ROUND(): the first multiple of p that is not before x.
RoundUp(x, p) == ((x + (p - 1)) \div p) * p

\* Mutant: a wake-up time that has just passed is not moved to the next period.
NextPeriodicTime_StaysDue(now, period, phase) ==
  now + (RoundUp(now, period) + phase - now)

\* set_next_periodic_time()
NextPeriodicTime(now, period, phase) ==
  LET diff == RoundUp(now, period) + phase - now
  IN  now + (IF diff <= 0 THEN diff + period
             ELSE IF diff > period THEN diff % period
             ELSE diff)

\* resched_task() of a task with LDMSD_TASK_F_SYNCHRONOUS: the time to wait.
SynchronousWait(now, period, offset) ==
  LET adj_interval == period - (now % period) + offset
  IN  IF adj_interval <= 0 THEN adj_interval + period ELSE adj_interval

\* t is one of the instants offset + k * period.
OnGrid(t, period, offset) == (t - offset) % period = 0
=============================================================================
