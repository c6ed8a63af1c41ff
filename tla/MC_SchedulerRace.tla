--------------------------- MODULE MC_SchedulerRace --------------------------
(* Two CPUs and two threads of one priority, for the unlocked t_flags     *)
(* updates of scheduler_release and smp_ipi_schedule.                    *)
EXTENDS Scheduler

CONSTANTS c1, c2, i1, i2, t1, t2

MCCPU == {c1, c2}
MCThread == {i1, i2, t1, t2}
MCIdle == [c \in MCCPU |-> IF c = c1 THEN i1 ELSE i2]
MCPriority == [t \in MCThread |-> IF t \in {i1, i2} THEN 255 ELSE 200]
MCAffinity == [t \in MCThread |-> CASE t = i1 -> c1
                                    [] t = i2 -> c2
                                    [] OTHER -> AnyCPU]
==============================================================================
