---------------------------- MODULE MC_Scheduler ----------------------------
(***************************************************************************)
(* Two CPUs, their two idle threads and two other threads: one of high   *)
(* priority (100) and one of the default priority (200).  The liveness   *)
(* run uses the boot CPU alone (MCCPU1), where the timer is the only      *)
(* source of reschedules.                                                  *)
(***************************************************************************)
EXTENDS Scheduler

CONSTANTS c1, c2, i1, i2, t1, t2

MCCPU == {c1, c2}
MCThread == {i1, i2, t1, t2}
MCIdle == [c \in MCCPU |-> IF c = c1 THEN i1 ELSE i2]
PriorityOn(S) == [t \in S |-> CASE t \in {i1, i2} -> 255
                                    [] t = t1 -> 100
                                    [] OTHER -> 200]
AffinityOn(S) == [t \in S |-> CASE t = i1 -> c1
                                    [] t = i2 -> c2
                                    [] OTHER -> AnyCPU]
MCPriority == PriorityOn(MCThread)
MCAffinity == AffinityOn(MCThread)
MCCPU1 == {c1}
MCThread1 == {i1, t1, t2}
MCIdle1 == [c \in MCCPU1 |-> i1]
MCPriority1 == PriorityOn(MCThread1)
MCAffinity1 == AffinityOn(MCThread1)

(* The safety run explores every behaviour up to the first lost update that *)
(* leaves a SUSPENDED thread on the run queue (run unlocked_flags_race).    *)
(* From there the next Resume of that thread fails SCHED_ASSERT at          *)
(* scheduler.cpp:100 or unlinks it with the sleep queue's LIST_REMOVE,      *)
(* list corruption the model does not represent.                            *)
BeforeListCorruption == RunqNotSuspended
==============================================================================
