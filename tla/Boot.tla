-------------------------------- MODULE Boot --------------------------------
(***************************************************************************)
(* Kernel start-up, with the wall clock that runs alongside it.            *)
(*                                                                         *)
(*  - The machine-dependent start-up hands each chunk of the memory map to *)
(*    kmem_chunk_reserve (kern/mm.cpp) to cut the kernel's own range out   *)
(*    of it.                                                               *)
(*  - mi_startup (kern/init.cpp) creates the "init" kernel thread, launches *)
(*    the scheduler and spins on the volatile flag `done` until the init    *)
(*    thread has run every init function; then it becomes the idle thread. *)
(*  - run_init sorts a pointer chain of the registered init functions with *)
(*    SortInitFunctions, runs all but the last, frees the chain and runs   *)
(*    the last one.                                                        *)
(*  - smp_launch (arch/x86/smp.cpp) is one of those init functions: it     *)
(*    raises can_smp_launch, broadcasts INIT-SIPI-SIPI, spins until        *)
(*    num_smp_launched reaches the CPU count and frees the page holding    *)
(*    the AP entry stub.  Each AP runs mp_ap_startup, spins on             *)
(*    can_smp_launch and increments num_smp_launched with a locked add.    *)
(*    smp_prepare/smp_init ran before mi_startup: their outcome is part of *)
(*    the initial state.                                                   *)
(*  - Once interrupts are on, the timer calls time::OnTick on the boot CPU *)
(*    (kern/time.cpp), and a driver may set the wall clock with SetTime.   *)
(*                                                                         *)
(* The init functions other than smp_launch are single steps: what they    *)
(* do belongs to the modules of their components.                          *)
(***************************************************************************)
EXTENDS Integers, Sequences, SequencesExt, FiniteSets

CONSTANTS
    InitFn,       \* the init functions registered with INIT_FUNCTION
    Registered,   \* initFunctions in registration (link) order
    Subsystem,    \* oi_subsystem of each init function, as a number
    Order,        \* oi_order of each init function, as a number
    SmpLaunch,    \* INIT_FUNCTION(smp_launch, SUBSYSTEM_SCHEDULER, ORDER_MIDDLE)
    AP,           \* application processors
    SmpOutcomes,  \* results of acpi_smp_init in smp_init: TRUE = SMP usable
    MemMap,       \* the memory map: a sequence of chunks <<start, end>>
    Reserved,     \* the kernel's range <<start, end>>
    Dates,        \* struct tm values a driver may pass to SetTime
    MaxTicks,     \* bound on timer ticks
    SetWindow     \* SetTime is called only while ticks <= SetWindow

ASSUME /\ Registered \in Seq(InitFn) /\ IsInjective(Registered)
       /\ ToSet(Registered) = InitFn /\ SmpLaunch \in InitFn
       /\ SmpOutcomes \subseteq BOOLEAN /\ SmpOutcomes # {}
       /\ MaxTicks \in Nat /\ SetWindow \in Nat

VARIABLES
    chain,       \* initFunctionChain after SortInitFunctions (<<>> before)
    n,           \* run_init's loop index into the chain (1-based)
    final,       \* finalInitFunction, read from the chain before delete[]
    chainFreed,  \* delete[] initFunctionChain has run
    ran,         \* the init functions that have returned, in order
    done,        \* mi_startup's volatile bool done
    ipc,         \* where the init thread is
    bsp,         \* where the boot CPU is: memory map, mi_startup, idle
    apc,         \* where each AP is
    canLaunch,   \* can_smp_launch
    launched,    \* num_smp_launched
    numCpus,     \* smp_config.cfg_num_cpus
    apFrees,     \* page_free calls on ap_page so far
    memIdx,      \* next chunk of MemMap to hand to kmem_chunk_reserve
    zones,       \* the chunks kmem_chunk_reserve returned, as <<start, end>>
    ticks,       \* time::ticks
    timeCurrent, \* time::time_current, [sec, nsec]
    setBase,     \* (history) seconds since the epoch of the last SetTime date
    setTicks     \* (history) ticks at the last SetTime

initVars == <<chain, n, final, chainFreed, ran, done, ipc>>
smpVars  == <<apc, canLaunch, launched, numCpus, apFrees>>
memVars  == <<memIdx, zones>>
timeVars == <<ticks, timeCurrent, setBase, setTicks>>
vars     == <<initVars, bsp, smpVars, memVars, timeVars>>

-----------------------------------------------------------------------------
(* SortInitFunctions: a bubble sort of the chain.  The inner loop runs j  *)
(* from the end down to i+1 and swaps chain[j] and chain[j-1] unless      *)
(* Keep says they are in order.                                           *)
\* Mutant: compares oi_order before oi_subsystem.
KeepOrderFirst(a, b) ==
    \/ Order[a] > Order[b]
    \/ Order[a] >= Order[b] /\ Subsystem[a] >= Subsystem[b]

Keep(a, b) ==
    \/ Subsystem[a] > Subsystem[b]
    \/ Subsystem[a] >= Subsystem[b] /\ Order[a] >= Order[b]

Swap(s, i, j) == [s EXCEPT ![i] = s[j], ![j] = s[i]]

RECURSIVE BubblePass(_, _, _)
BubblePass(s, i, j) ==
    IF j <= i THEN s
    ELSE BubblePass(IF Keep(s[j], s[j - 1]) THEN s ELSE Swap(s, j - 1, j), i, j - 1)

RECURSIVE BubbleSort(_, _)
BubbleSort(s, i) ==
    IF i > Len(s) THEN s ELSE BubbleSort(BubblePass(s, i, Len(s)), i + 1)

SortInitFunctions(s) == BubbleSort(s, 1)

(* The chain run_init builds from initFunctions: it depends only on the  *)
(* registrations.                                                         *)
SortedChain == SortInitFunctions(Registered)

\* Mutant: case 3 starts the remaining chunk at reserved_start.
ChunkReserveCase3FromStart(cs, ce, rs, re) ==
    IF cs >= re \/ ce <= rs THEN << <<cs, ce>>, <<0, 0>> >>
    ELSE IF cs >= rs /\ ce <= re THEN << <<0, 0>>, <<0, 0>> >>
    ELSE IF cs < rs /\ ce <= re THEN << <<cs, rs>>, <<0, 0>> >>
    ELSE IF cs >= rs /\ ce > re THEN << <<rs, ce>>, <<0, 0>> >>
    ELSE << <<cs, rs>>, <<re, ce>> >>

(* kmem_chunk_reserve(cs, ce, rs, re): up to two chunks covering          *)
(* [cs, ce) without [rs, re); an unused output is <<0, 0>>.  The early    *)
(* returns are tried in the code's order.                                 *)
kmem_chunk_reserve(cs, ce, rs, re) ==
    IF cs >= re \/ ce <= rs THEN << <<cs, ce>>, <<0, 0>> >>
    ELSE IF cs >= rs /\ ce <= re THEN << <<0, 0>>, <<0, 0>> >>
    ELSE IF cs < rs /\ ce <= re THEN << <<cs, rs>>, <<0, 0>> >>
    ELSE IF cs >= rs /\ ce > re THEN << <<re, ce>>, <<0, 0>> >>
    ELSE << <<cs, rs>>, <<re, ce>> >>

(* GetPeriodicyInHz, and nanoseconds per second.                          *)
Hz == 100
NsPerSec == 1000000000

(* C division of int32_t truncates towards zero.                          *)
CDiv(a, b) == IF a >= 0 THEN a \div b ELSE -((-a) \div b)

\* Mutant: "m < 2", so February counts in the year it is in.
DateFebInSameYear(tm) ==
    LET d   == tm.mday
        m   == tm.mon
        y   == IF m < 2 THEN tm.year - 1 ELSE tm.year
        era == CDiv(IF y >= 0 THEN y ELSE y - 399, 400)
        yoe == y - era * 400
        doy == (153 * (m + (IF m > 2 THEN -3 ELSE 9)) + 2) \div 5 + d - 1
        doe == yoe * 365 + yoe \div 4 - yoe \div 100 + doy
    IN  era * 146097 + doe - 719468

(* DateToSerialDayNumber: days from 1970-01-01 to the civil date tm, with *)
(* tm_mon 1..12 and tm_year the full year, as the code reads them.        *)
DateToSerialDayNumber(tm) ==
    LET d   == tm.mday
        m   == tm.mon
        y   == IF m <= 2 THEN tm.year - 1 ELSE tm.year
        era == CDiv(IF y >= 0 THEN y ELSE y - 399, 400)
        yoe == y - era * 400
        doy == (153 * (m + (IF m > 2 THEN -3 ELSE 9)) + 2) \div 5 + d - 1
        doe == yoe * 365 + yoe \div 4 - yoe \div 100 + doy
    IN  era * 146097 + doe - 719468

(* TMtoTS.                                                                 *)
TMtoTS(tm) ==
    [sec  |-> DateToSerialDayNumber(tm) * (24 * 60 * 60)
              + tm.hour * (60 * 60) + tm.min * 60 + tm.sec,
     nsec |-> 0]

(* OnTick's "while (tv_nsec >= 1000000000) { tv_sec++; tv_nsec -= ... }" *)
RECURSIVE Carry(_)
Carry(t) ==
    IF t.nsec >= NsPerSec
    THEN Carry([sec |-> t.sec + 1, nsec |-> t.nsec - NsPerSec])
    ELSE t

(* The calendar, as reference for DateToSerialDayNumber: days from       *)
(* 1970-01-01 counted year by year and month by month.                    *)
Leap(y) == (y % 4 = 0 /\ y % 100 # 0) \/ y % 400 = 0

MonthDays(y, m) ==
    IF m = 2 THEN (IF Leap(y) THEN 29 ELSE 28)
    ELSE IF m \in {4, 6, 9, 11} THEN 30 ELSE 31

RECURSIVE DaysBeforeMonth(_, _)
DaysBeforeMonth(y, m) ==
    IF m = 1 THEN 0 ELSE DaysBeforeMonth(y, m - 1) + MonthDays(y, m - 1)

CivilDays(tm) ==
    LET y == tm.year
        before == IF y >= 1970
                  THEN 365 * (y - 1970) + Cardinality({k \in 1970..(y - 1) : Leap(k)})
                  ELSE -(365 * (1970 - y) + Cardinality({k \in y..1969 : Leap(k)}))
    IN  before + DaysBeforeMonth(y, tm.mon) + tm.mday - 1

CivilSeconds(tm) ==
    CivilDays(tm) * (24 * 60 * 60) + tm.hour * (60 * 60) + tm.min * 60 + tm.sec

(* Interrupts are enabled once scheduler::Launch has run.                 *)
IntrOn == bsp \in {"spin", "idle"}

-----------------------------------------------------------------------------
(* smp_prepare allocates ap_page.  smp_init copies the AP stub into it;   *)
(* when acpi_smp_init fails it frees ap_page and returns NO_DEVICE, and   *)
(* cfg_num_cpus keeps whatever the ACPI parse left (at most 1).  The      *)
(* launch counter starts at 1 (the BSP) and can_smp_launch at 0.         *)
SmpInit(usable) ==
    /\ numCpus \in IF usable THEN {1 + Cardinality(AP)} ELSE {0, 1}
    /\ apFrees = IF usable THEN 0 ELSE 1
    /\ apc = [a \in AP |-> IF usable THEN "off" ELSE "absent"]
    /\ canLaunch = 0
    /\ launched = 1

Init ==
    /\ \E usable \in SmpOutcomes : SmpInit(usable)
    /\ chain = <<>> /\ n = 1 /\ final = SmpLaunch /\ chainFreed = FALSE
    /\ ran = <<>> /\ done = FALSE /\ ipc = "new"
    /\ bsp = "mem" /\ memIdx = 1 /\ zones = {}
    /\ ticks = 0 /\ timeCurrent = [sec |-> 0, nsec |-> 0]
    /\ setBase = 0 /\ setTicks = 0

(* The memory-map walk of the machine-dependent start-up: one chunk per   *)
(* step through kmem_chunk_reserve; the non-empty results become zones.   *)
AddChunk ==
    /\ bsp = "mem"
    /\ memIdx <= Len(MemMap)
    /\ LET c == MemMap[memIdx]
           out == kmem_chunk_reserve(c[1], c[2], Reserved[1], Reserved[2])
       IN  zones' = zones \cup {out[k] : k \in {k \in 1..2 : out[k][1] < out[k][2]}}
    /\ memIdx' = memIdx + 1
    /\ UNCHANGED <<initVars, bsp, smpVars, timeVars>>

(* mi_startup: kthread_alloc("init"), Resume, scheduler::Launch (which    *)
(* enables interrupts); then the boot CPU spins on done.                  *)
Launch ==
    /\ bsp = "mem"
    /\ memIdx > Len(MemMap)
    /\ bsp' = "spin"
    /\ ipc' = "sort"
    /\ UNCHANGED <<chain, n, final, chainFreed, ran, done, smpVars, memVars, timeVars>>

(* run_init up to the loop: count, build the chain, sort it.             *)
BuildChain ==
    /\ ipc = "sort"
    /\ chain' = SortedChain
    /\ n' = 1
    /\ ipc' = "run"
    /\ UNCHANGED <<final, chainFreed, ran, done, bsp, smpVars, memVars, timeVars>>

(* The loop "for n < initFunctionCount - 1: chain[n]->oi_func()" for an   *)
(* init function other than smp_launch.                                   *)
RunInit ==
    /\ ipc = "run"
    /\ n < Len(chain)
    /\ chain[n] # SmpLaunch
    /\ ran' = Append(ran, chain[n])
    /\ n' = n + 1
    /\ UNCHANGED <<chain, final, chainFreed, done, ipc, bsp, smpVars, memVars, timeVars>>

(* smp_launch, up to the wait: can_smp_launch++ and INIT-SIPI-SIPI to all *)
(* other CPUs, which start the stub in ap_page.                           *)
SmpSignal ==
    /\ ipc = "run"
    /\ n < Len(chain)
    /\ chain[n] = SmpLaunch
    /\ canLaunch' = canLaunch + 1
    /\ apc' = [a \in AP |-> IF apc[a] = "off" THEN "stub" ELSE apc[a]]
    /\ ipc' = "smpwait"
    /\ UNCHANGED <<chain, n, final, chainFreed, ran, done, bsp, launched,
                   numCpus, apFrees, memVars, timeVars>>

\* Mutant: smp_launch does not wait for the APs.
SmpWaitNoSpin ==
    /\ ipc = "smpwait"
    /\ apFrees' = apFrees + 1
    /\ ran' = Append(ran, SmpLaunch)
    /\ n' = n + 1
    /\ ipc' = "run"
    /\ UNCHANGED <<chain, final, chainFreed, done, bsp, apc, canLaunch,
                   launched, numCpus, memVars, timeVars>>

\* Mutant: "while (num_smp_launched <= cfg_num_cpus)".
SmpWaitPastCount ==
    /\ ipc = "smpwait"
    /\ launched > numCpus
    /\ apFrees' = apFrees + 1
    /\ ran' = Append(ran, SmpLaunch)
    /\ n' = n + 1
    /\ ipc' = "run"
    /\ UNCHANGED <<chain, final, chainFreed, done, bsp, apc, canLaunch,
                   launched, numCpus, memVars, timeVars>>

(* smp_launch, the rest: spin until num_smp_launched >= cfg_num_cpus,     *)
(* page_free(ap_page), return.                                            *)
SmpWait ==
    /\ ipc = "smpwait"
    /\ launched >= numCpus
    /\ apFrees' = apFrees + 1
    /\ ran' = Append(ran, SmpLaunch)
    /\ n' = n + 1
    /\ ipc' = "run"
    /\ UNCHANGED <<chain, final, chainFreed, done, bsp, apc, canLaunch,
                   launched, numCpus, memVars, timeVars>>

(* mp_ap_startup, entered from the stub: switch to the AP's idle thread   *)
(* and program the local APIC.                                            *)
ApEnter(a) ==
    /\ apc[a] = "stub"
    /\ apc' = [apc EXCEPT ![a] = "wait"]
    /\ UNCHANGED <<initVars, bsp, canLaunch, launched, numCpus, apFrees, memVars, timeVars>>

(* mp_ap_startup: once can_smp_launch is set, "lock incl num_smp_launched" *)
(* and become the idle thread.                                            *)
ApUp(a) ==
    /\ apc[a] = "wait"
    /\ canLaunch # 0
    /\ launched' = launched + 1
    /\ apc' = [apc EXCEPT ![a] = "up"]
    /\ UNCHANGED <<initVars, bsp, canLaunch, numCpus, apFrees, memVars, timeVars>>

(* run_init after the loop: finalInitFunction = chain[count - 1].         *)
FetchFinal ==
    /\ ipc = "run"
    /\ n = Len(chain)
    /\ final' = chain[Len(chain)]
    /\ ipc' = "free"
    /\ UNCHANGED <<chain, n, chainFreed, ran, done, bsp, smpVars, memVars, timeVars>>

(* delete[] initFunctionChain.                                             *)
FreeChain ==
    /\ ipc = "free"
    /\ chainFreed' = TRUE
    /\ ipc' = "final"
    /\ UNCHANGED <<chain, n, final, ran, done, bsp, smpVars, memVars, timeVars>>

(* finalInitFunction->oi_func().                                           *)
RunFinal ==
    /\ ipc = "final"
    /\ ran' = Append(ran, final)
    /\ ipc' = "setdone"
    /\ UNCHANGED <<chain, n, final, chainFreed, done, bsp, smpVars, memVars, timeVars>>

(* init_thread_func: *done = true.                                         *)
SetDone ==
    /\ ipc = "setdone"
    /\ done' = TRUE
    /\ ipc' = "exit"
    /\ UNCHANGED <<chain, n, final, chainFreed, ran, bsp, smpVars, memVars, timeVars>>

(* init_thread_func: Terminate(0).  A kernel thread has no process, so     *)
(* Terminate runs thread_cleanup (SignalWaiters: nobody joins the init    *)
(* thread), drops its reference and exits to the scheduler.               *)
TerminateInit ==
    /\ ipc = "exit"
    /\ ipc' = "zombie"
    /\ UNCHANGED <<chain, n, final, chainFreed, ran, done, bsp, smpVars, memVars, timeVars>>

(* mi_startup: "while (!done) Relax();" then idle_thread.                  *)
BspIdle ==
    /\ bsp = "spin"
    /\ done
    /\ bsp' = "idle"
    /\ UNCHANGED <<initVars, smpVars, memVars, timeVars>>

(* OnTick, under time_lock: ticks++, add one period to the wall clock and *)
(* carry whole seconds.                                                   *)
OnTick ==
    /\ IntrOn
    /\ ticks < MaxTicks
    /\ ticks' = ticks + 1
    /\ timeCurrent' = Carry([timeCurrent EXCEPT !.nsec = @ + NsPerSec \div Hz])
    /\ UNCHANGED <<initVars, bsp, smpVars, memVars, setBase, setTicks>>

(* SetTime(tm): TMtoTS, then time_current = ts under time_lock.  The     *)
(* history variables record the date, by the calendar, and the tick.     *)
SetTime(tm) ==
    /\ ticks <= SetWindow
    /\ timeCurrent' = TMtoTS(tm)
    /\ setBase' = CivilSeconds(tm)
    /\ setTicks' = ticks
    /\ UNCHANGED <<initVars, bsp, smpVars, memVars, ticks>>

BspStep == AddChunk \/ Launch \/ BspIdle

InitThreadStep ==
    \/ BuildChain \/ RunInit \/ SmpSignal \/ SmpWait \/ FetchFinal
    \/ FreeChain \/ RunFinal \/ SetDone \/ TerminateInit

ApStep(a) == ApEnter(a) \/ ApUp(a)

Next ==
    \/ BspStep
    \/ InitThreadStep
    \/ \E a \in AP : ApStep(a)
    \/ OnTick
    \/ \E tm \in Dates : SetTime(tm)

(* The boot CPU, each AP and the init thread each make progress: the CPUs *)
(* spin on their own, and the init thread is runnable on the scheduler    *)
(* from Launch on.  The timer and SetTime need no fairness.               *)
Spec ==
    /\ Init /\ [][Next]_vars
    /\ WF_vars(BspStep) /\ WF_vars(InitThreadStep)
    /\ \A a \in AP : WF_vars(ApStep(a))
-----------------------------------------------------------------------------
(* f is ordered no later than g by (oi_subsystem, oi_order).              *)
RunsBefore(f, g) ==
    \/ Subsystem[f] < Subsystem[g]
    \/ Subsystem[f] = Subsystem[g] /\ Order[f] <= Order[g]

(* run_init calls every registered init function once, by subsystem and  *)
(* then order (what SortInitFunctions' bubble sort and the "all but the   *)
(* last, then the last" loop must give together), and mi_startup leaves   *)
(* its spin loop on `done` only after all of them have returned.          *)
InitRunsInOrder ==
    /\ IsInjective(ran)
    /\ IsSorted(ran, RunsBefore)
    /\ bsp = "idle" => ToSet(ran) = InitFn

(* smp_launch frees ap_page only when no AP is still executing the entry  *)
(* stub in it: it waits until num_smp_launched counts every CPU, and an   *)
(* AP counts itself only from mp_ap_startup.                              *)
ApCodeOutlivesStartup ==
    apFrees > 0 => \A a \in AP : apc[a] # "stub"

(* ap_page is freed at most once, by smp_init's failure path or by        *)
(* smp_launch.                                                            *)
ApPageFreedOnce == apFrees <= 1

(* The zones kmem_chunk_reserve returned for the chunks walked so far     *)
(* cover exactly those chunks minus the kernel's reserved range, in every *)
(* one of its six overlap cases.                                          *)
ZonesAvoidReserved ==
    LET Addr(z) == z[1]..(z[2] - 1)
        walked == {MemMap[i] : i \in 1..(memIdx - 1)}
    IN  UNION {Addr(z) : z \in zones} = UNION {Addr(c) : c \in walked} \ Addr(Reserved)

(* The wall clock is the calendar time of the last SetTime date (the      *)
(* epoch before any) plus one period per OnTick since: TMtoTS and         *)
(* DateToSerialDayNumber agree with the calendar, and OnTick's carry      *)
(* keeps seconds and nanoseconds exact across the 100th tick.             *)
WallClockTracksTicks ==
    LET e == ticks - setTicks
    IN  timeCurrent = [sec |-> setBase + e \div Hz, nsec |-> (e % Hz) * (NsPerSec \div Hz)]

(* Boot finishes: every AP comes up and the boot CPU becomes the idle     *)
(* thread, although the init thread, smp_launch and the APs each spin on  *)
(* a flag another CPU sets.                                               *)
BootCompletes ==
    <>(bsp = "idle" /\ \A a \in AP : apc[a] \in {"up", "absent"})
==============================================================================
