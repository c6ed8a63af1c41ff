------------------------------ MODULE Scheduler ------------------------------
(***************************************************************************)
(* The SMP scheduler of src/kernel/kern/scheduler.cpp together with the    *)
(* thread operations that enter it (thread.cpp: Suspend, Resume,           *)
(* thread_sleep_ms, Terminate's scheduler part) and the SMP schedule IPI   *)
(* (arch/x86/smp.cpp).                                                     *)
(*                                                                         *)
(* One run queue and one sleep queue are shared by all CPUs and guarded   *)
(* by spl_scheduler, taken with interrupts disabled; every locked section  *)
(* is therefore one atomic action.  What is NOT atomic is modelled as     *)
(* separate steps:                                                         *)
(*  - thread_sleep_ms and sleep-queue waits call Suspend and then Schedule *)
(*    as two locked sections with interrupts enabled in between; an IRQ,   *)
(*    an IPI or a Resume from another CPU may come in that window;         *)
(*  - schedule() drops the lock before the context switch, and the         *)
(*    incoming thread clears the outgoing thread's ACTIVE flag afterwards  *)
(*    (scheduler_release); prev[c] records that window on CPU c;          *)
(*  - scheduler_release and the SCHEDULE IPI handler update t_flags with   *)
(*    a plain &= / |= and no lock: a load step and a store step, between   *)
(*    which another CPU's locked section may write the same t_flags.       *)
(* t_flags is a set of flag names; the running thread stays on the run     *)
(* queue, as the code keeps it there (the file's header comment says       *)
(* otherwise).                                                             *)
(***************************************************************************)
EXTENDS Naturals, Sequences, SequencesExt, FiniteSets

CONSTANTS
    CPU,        \* the CPUs
    BSP,        \* the boot CPU; it takes the timer interrupt
    Thread,     \* every thread, the idle threads included
    Idle,       \* Idle[c]: the idle thread of CPU c (PCPU idlethread)
    Priority,   \* t_priority (0 highest, 255 idle)
    Affinity,   \* t_affinity: a CPU or AnyCPU
    AnyCPU,     \* THREAD_AFFINITY_ANY
    NoThread,   \* no pending switch on a CPU
    NoSnapshot, \* no unlocked t_flags update in progress on a CPU
    MaxTicks,   \* horizon of the tick counter
    MaxSleep    \* longest sleep_ms, in ticks

ASSUME /\ BSP \in CPU
       /\ Idle \in [CPU -> Thread]
       /\ Priority \in [Thread -> Nat]
       /\ Affinity \in [Thread -> CPU \cup {AnyCPU}]
       /\ \A c \in CPU : Affinity[Idle[c]] = c
       /\ NoThread \notin Thread
       /\ MaxTicks \in Nat /\ MaxSleep \in Nat \ {0}

IdleThreads == {Idle[c] : c \in CPU}
Flag == {"active", "suspended", "zombie", "resched", "timeout"}

VARIABLES
    runq,       \* sched_runqueue, in list order
    sleepq,     \* sched_sleepqueue, in list order
    flags,      \* flags[t]: t_flags
    timeout,    \* timeout[t]: t_timeout
    ticks,      \* time::ticks
    cur,        \* cur[c]: PCPU curthread of CPU c
    prev,       \* prev[c]: outgoing thread whose ACTIVE flag is not yet released
    pc,         \* pc[t]: where thread t continues when it runs
    ipi,        \* ipi[c]: a schedule IPI is pending at CPU c
    snap        \* snap[c]: the t_flags value an unlocked update on CPU c
                \* has loaded and not yet stored, or NoSnapshot

vars == <<runq, sleepq, flags, timeout, ticks, cur, prev, pc, ipi, snap>>

(***************************************************************************)
(* Helpers translating the list code.                                      *)
(***************************************************************************)
OnQueue(q, t) == \E i \in 1..Len(q) : q[i] = t

\* Fault variant: the run queue appended to, its priority order ignored.
RunqInsertAppend(q, t) == Append(q, t)

\* scheduler_add_thread_locked: insert before the first thread of a
\* numerically higher priority value, otherwise append.
RunqInsert(q, t) ==
    LET i == SelectInSeq(q, LAMBDA s : ~(Priority[s] <= Priority[t]))
    IN  IF i = 0 THEN Append(q, t) ELSE InsertAt(q, i, t)

\* Ananas::Time::IsTickBefore(a, b)
IsTickBefore(a, b) == a < b

\* Fault variants of the sleep-queue insertion: plain append; and a scan
\* that steps over entries without a timeout instead of stopping there.
SleepqInsertAppend(q, t, fl, deadline) == Append(q, t)
SleepqInsertPastBlocked(q, t, fl, deadline) ==
    IF "timeout" \in fl[t]
    THEN LET i == SelectInSeq(q, LAMBDA s : "timeout" \in fl[s] /\ ~IsTickBefore(timeout[s], deadline))
         IN  IF i = 0 THEN Append(q, t) ELSE InsertAt(q, i, t)
    ELSE Append(q, t)

\* The sleep-queue insertion of scheduler_remove_thread: a thread with a
\* timeout goes before the first entry that is not a timeout thread waking
\* earlier; a thread without one is appended.
SleepqInsert(q, t, fl, deadline) ==
    IF "timeout" \in fl[t]
    THEN LET i == SelectInSeq(q, LAMBDA s : ~("timeout" \in fl[s] /\ IsTickBefore(timeout[s], deadline)))
         IN  IF i = 0 THEN Append(q, t) ELSE InsertAt(q, i, t)
    ELSE Append(q, t)

\* Ananas::Time::IsTickAfter(now, deadline) as the spec states it (deadline <= now)
TickReached(now, deadline) == deadline <= now

\* Fault variants of the pick test: ACTIVE ignored; affinity ignored;
\* ACTIVE refused even for the CPU's own current thread.
CanRunOnIgnoringActive(s, c, fl, self) == Affinity[s] \in {AnyCPU, c}
CanRunOnIgnoringAffinity(s, c, fl, self) == ~("active" \in fl[s] /\ s # self)
CanRunOnNotSelf(s, c, fl, self) ==
    /\ Affinity[s] \in {AnyCPU, c}
    /\ "active" \notin fl[s]

\* The thread a CPU may take: allowed here and not running on another CPU.
CanRunOn(s, c, fl, self) ==
    /\ Affinity[s] \in {AnyCPU, c}
    /\ ~("active" \in fl[s] /\ s # self)

\* The interrupt flag of CPU c is set: no switch in progress and the
\* current thread is outside every spl_scheduler section.
IntrEnabled(c) ==
    /\ prev[c] = NoThread /\ snap[c] = NoSnapshot
    /\ pc[cur[c]] \in {"run", "blocked"}

\* The store half of an unlocked read-modify-write of t's t_flags that
\* loaded old and computed new.  If a locked section of another CPU wrote
\* t_flags in between, the two stores race: the stale value new may land
\* last (undoing that write) or the other CPU's may (undoing this one).
UnlockedStore(t, old, new) ==
    flags' \in {[flags EXCEPT ![t] = v] :
                   v \in IF flags[t] = old THEN {new} ELSE {new, flags[t]}}

\* Fault variant: a scan that passes over the current thread whenever any
\* other thread may run, as a round-robin yield would.
PickNextYielding(rq, c, fl, self) ==
    LET j == SelectInSeq(rq, LAMBDA s : s # self /\ CanRunOn(s, c, fl, self))
    IN  IF j # 0 THEN j ELSE SelectInSeq(rq, LAMBDA s : CanRunOn(s, c, fl, self))

\* The run-queue scan of schedule(): the index of the first thread that may
\* run on CPU c, 0 if there is none.
PickNext(rq, c, fl, self) == SelectInSeq(rq, LAMBDA s : CanRunOn(s, c, fl, self))

(***************************************************************************)
(* schedule(), lines 191-270: the section under spl_scheduler.  It wakes   *)
(* the sleep-queue head if its deadline passed, picks the first run-queue  *)
(* thread that may run here, re-queues an involuntarily preempted current  *)
(* thread at the tail of its band, marks the pick ACTIVE and makes it      *)
(* curthread.  rq and fl are the queue and flags it finds on entry; newPc *)
(* is what the outgoing thread continues with.                            *)
(***************************************************************************)
ScheduleLocked(c, rq, fl, newPc) ==
    LET t    == cur[c]
        fl0  == [fl EXCEPT ![t] = @ \ {"resched"}]
        h    == Head(sleepq)
        wake == sleepq # <<>> /\ "timeout" \in fl0[h] /\ TickReached(ticks, timeout[h])
        sq1  == IF wake THEN Tail(sleepq) ELSE sleepq
        rq1  == IF wake THEN RunqInsert(rq, h) ELSE rq
        fl1  == IF wake THEN [fl0 EXCEPT ![h] = @ \ {"timeout", "suspended"}] ELSE fl0
        i    == PickNext(rq1, c, fl1, t)
        n    == rq1[i]
        rq2  == IF {"suspended", "zombie"} \cap fl1[t] = {}
                THEN RunqInsert(Remove(rq1, t), t)
                ELSE rq1
    IN  /\ i # 0
        /\ runq'   = rq2
        /\ sleepq' = sq1
        /\ flags'  = [fl1 EXCEPT ![n] = @ \cup {"active"}]
        /\ cur'    = [cur EXCEPT ![c] = n]
        /\ prev'   = [prev EXCEPT ![c] = IF n # t THEN t ELSE NoThread]
        /\ pc'     = [pc EXCEPT ![t] = newPc]
        /\ UNCHANGED <<timeout, ticks, ipi, snap>>

(***************************************************************************)
(* Actions.                                                                *)
(***************************************************************************)

\* The running thread calls schedule() itself: the second half of
\* thread_sleep_ms or of a sleep-queue wait; schedule() returns into "run".
Schedule(c) ==
    /\ prev[c] = NoThread /\ snap[c] = NoSnapshot
    /\ pc[cur[c]] = "blocked"
    /\ ScheduleLocked(c, runq, flags, "run")

\* Return from an interrupt with RESCHEDULE set on the current thread.
Preempt(c) ==
    /\ IntrEnabled(c)
    /\ "resched" \in flags[cur[c]]
    /\ ScheduleLocked(c, runq, flags, pc[cur[c]])

\* scheduler_release, run by the incoming thread after md_thread_switch:
\* old->t_flags &= ~THREAD_FLAG_ACTIVE without spl_scheduler, a load ...
ReleaseLoad(c) ==
    /\ prev[c] # NoThread
    /\ snap[c] = NoSnapshot
    /\ snap' = [snap EXCEPT ![c] = flags[prev[c]]]
    /\ UNCHANGED <<runq, sleepq, flags, timeout, ticks, cur, prev, pc, ipi>>

\* ... and a store of the loaded value without ACTIVE.
ReleaseStore(c) ==
    /\ prev[c] # NoThread
    /\ snap[c] # NoSnapshot
    /\ UnlockedStore(prev[c], snap[c], snap[c] \ {"active"})
    /\ prev' = [prev EXCEPT ![c] = NoThread]
    /\ snap' = [snap EXCEPT ![c] = NoSnapshot]
    /\ UNCHANGED <<runq, sleepq, timeout, ticks, cur, pc, ipi>>

\* Thread::Suspend -> scheduler_remove_thread, with or without the timeout
\* set by thread_sleep_ms (deadline = ticks + n); the Schedule() that
\* follows is the separate action Schedule.
SuspendSelf(c, armed, n) ==
    LET t  == cur[c]
        fl == [flags EXCEPT ![t] = IF armed THEN @ \cup {"timeout"} ELSE @]
        dl == IF armed THEN ticks + n ELSE timeout[t]
    IN  /\ IntrEnabled(c)
        /\ pc[t] = "run"
        /\ t \notin IdleThreads
        /\ "suspended" \notin flags[t]
        /\ runq'    = Remove(runq, t)
        /\ sleepq'  = SleepqInsert(sleepq, t, fl, dl)
        /\ timeout' = [timeout EXCEPT ![t] = dl]
        /\ flags'   = [fl EXCEPT ![t] = @ \cup {"suspended"}]
        /\ pc'      = [pc EXCEPT ![t] = "blocked"]
        /\ UNCHANGED <<ticks, cur, prev, ipi, snap>>

\* thread_sleep_ms(ms), ms giving n ticks; deadlines stay within the horizon.
SleepMs(c, n) ==
    /\ ticks + n <= MaxTicks
    /\ SuspendSelf(c, TRUE, n)

\* A sleep-queue wait (semaphore, mutex): Thread::Suspend without timeout.
Block(c) == SuspendSelf(c, FALSE, 0)

\* Fault variant: the thread is queued to run with SUSPENDED left set.
ResumeKeepsSuspended(c, u) ==
    /\ IntrEnabled(c)
    /\ "suspended" \in flags[u]
    /\ "timeout" \notin flags[u]
    /\ sleepq' = Remove(sleepq, u)
    /\ runq'   = RunqInsert(runq, u)
    /\ UNCHANGED <<flags, timeout, ticks, cur, prev, pc, ipi, snap>>

\* Thread::Resume -> scheduler_add_thread, by the running thread or an
\* interrupt handler of CPU c (sys_clone, a semaphore signal).  Only a
\* thread waiting without a timeout has someone to resume it.
Resume(c, u) ==
    /\ IntrEnabled(c)
    /\ "suspended" \in flags[u]
    /\ "timeout" \notin flags[u]
    /\ sleepq' = Remove(sleepq, u)
    /\ runq'   = RunqInsert(runq, u)
    /\ flags'  = [flags EXCEPT ![u] = @ \ {"suspended", "timeout"}]
    /\ UNCHANGED <<timeout, ticks, cur, prev, pc, ipi, snap>>

\* Fault variant: the exiting thread left on the run queue.
ExitThreadKeepsQueue(c) ==
    LET t == cur[c]
    IN  /\ IntrEnabled(c)
        /\ pc[t] = "run"
        /\ t \notin IdleThreads
        /\ ScheduleLocked(c, runq, [flags EXCEPT ![t] = @ \cup {"zombie"}], "exited")

\* The scheduler part of Thread::Terminate: scheduler_exit_thread removes
\* the thread from the run queue, marks it ZOMBIE and calls schedule(),
\* which never returns (interrupts stay disabled in between).
ExitThread(c) ==
    LET t == cur[c]
    IN  /\ IntrEnabled(c)
        /\ pc[t] = "run"
        /\ t \notin IdleThreads
        /\ ScheduleLocked(c, Remove(runq, t),
                          [flags EXCEPT ![t] = @ \cup {"zombie"}], "exited")

\* smp_broadcast_schedule, called by a running thread: a SCHEDULE IPI to
\* every CPU, self included.
Broadcast(c) ==
    /\ IntrEnabled(c)
    /\ pc[cur[c]] = "run"
    /\ ipi' = [d \in CPU |-> TRUE]
    /\ UNCHANGED <<runq, sleepq, flags, timeout, ticks, cur, prev, pc, snap>>

\* smp_ipi_schedule on CPU c, entered with its interrupts off:
\* curthread->t_flags |= THREAD_FLAG_RESCHEDULE without spl_scheduler,
\* a load ...
IPILoad(c) ==
    /\ IntrEnabled(c)
    /\ ipi[c]
    /\ snap' = [snap EXCEPT ![c] = flags[cur[c]]]
    /\ ipi'  = [ipi EXCEPT ![c] = FALSE]
    /\ UNCHANGED <<runq, sleepq, flags, timeout, ticks, cur, prev, pc>>

\* ... and a store of the loaded value with RESCHEDULE.
IPIStore(c) ==
    /\ prev[c] = NoThread
    /\ snap[c] # NoSnapshot
    /\ UnlockedStore(cur[c], snap[c], snap[c] \cup {"resched"})
    /\ snap' = [snap EXCEPT ![c] = NoSnapshot]
    /\ UNCHANGED <<runq, sleepq, timeout, ticks, cur, prev, pc, ipi>>

\* The timer interrupt on the BSP: time::OnTick and the reschedule request
\* the timer driver makes (spec section 7; that driver is not in src/, so
\* its update of t_flags is taken as one step).
\* Past the horizon MaxTicks the counter stops but the interrupt still fires.
TimerInterrupt ==
    /\ IntrEnabled(BSP)
    /\ ticks' = IF ticks < MaxTicks THEN ticks + 1 ELSE ticks
    /\ flags' = [flags EXCEPT ![cur[BSP]] = @ \cup {"resched"}]
    /\ UNCHANGED <<runq, sleepq, timeout, cur, prev, pc, ipi, snap>>

(***************************************************************************)
(* Boot: every CPU runs its idle thread, which is on the run queue         *)
(* (mp_ap_startup adds it; scheduler_launch on the BSP) but, as in the     *)
(* code, not marked ACTIVE.  Every other thread was allocated by           *)
(* thread_alloc / kthread_init: SUSPENDED and appended to the sleep queue, *)
(* waiting for its Resume.                                                 *)
(***************************************************************************)
Init ==
    /\ runq    = SetToSeq(IdleThreads)
    /\ sleepq  = SetToSeq(Thread \ IdleThreads)
    /\ flags   = [t \in Thread |-> IF t \in IdleThreads THEN {} ELSE {"suspended"}]
    /\ timeout = [t \in Thread |-> 0]
    /\ ticks   = 0
    /\ cur     = Idle
    /\ prev    = [c \in CPU |-> NoThread]
    /\ pc      = [t \in Thread |-> "run"]
    /\ ipi     = [c \in CPU |-> FALSE]
    /\ snap    = [c \in CPU |-> NoSnapshot]

Next ==
    \/ \E c \in CPU :
          \/ Schedule(c) \/ Preempt(c) \/ Block(c) \/ ExitThread(c)
          \/ ReleaseLoad(c) \/ ReleaseStore(c)
          \/ Broadcast(c) \/ IPILoad(c) \/ IPIStore(c)
          \/ \E n \in 1..MaxSleep : SleepMs(c, n)
          \/ \E u \in Thread : Resume(c, u)
    \/ TimerInterrupt

(***************************************************************************)
(* Fairness: a CPU always carries on with its own kernel path (the         *)
(* Schedule() after a Suspend, the two halves of a release or of the IPI   *)
(* handler).  The IRQ-return check runs as each interrupt handler returns, *)
(* before the interrupted thread goes on; here other steps may come in     *)
(* between, so a pending RESCHEDULE is only enabled intermittently and the *)
(* check gets strong fairness.  The hardware timer keeps interrupting the  *)
(* BSP whenever its interrupts are enabled, which is intermittently        *)
(* (strong fairness).  What threads choose to do (sleep, block, exit,      *)
(* resume, broadcast) is not fair.                                         *)
(***************************************************************************)
Fairness ==
    /\ \A c \in CPU :
          /\ WF_vars(Schedule(c)) /\ SF_vars(Preempt(c))
          /\ WF_vars(ReleaseLoad(c)) /\ WF_vars(ReleaseStore(c))
          /\ WF_vars(IPILoad(c)) /\ WF_vars(IPIStore(c))
    /\ SF_vars(TimerInterrupt)

Spec == Init /\ [][Next]_vars /\ Fairness

-----------------------------------------------------------------------------
\* Threads whose stack some CPU is using: its current thread, or the
\* outgoing thread of a switch whose release has not run yet.
StackUsers(t) == {c \in CPU : cur[c] = t \/ prev[c] = t}

(* Spec section 3 and invariant 1 as far as the queues go, kept by every   *)
(* scheduler_* routine together under spl_scheduler: a zombie is on        *)
(* neither queue, any other thread on exactly one and at most once, idle   *)
(* threads never on the sleep queue.  (Whether SUSPENDED marks exactly the *)
(* sleep queue is RunqNotSuspended, which the unlocked updates break.)     *)
QueueConsistency ==
    \A t \in Thread :
        /\ \A q \in {runq, sleepq} : Cardinality({i \in 1..Len(q) : q[i] = t}) <= 1
        /\ "zombie" \in flags[t] => ~OnQueue(runq, t) /\ ~OnQueue(sleepq, t)
        /\ "zombie" \notin flags[t] => (OnQueue(runq, t) # OnQueue(sleepq, t))
        /\ t \in IdleThreads => ~OnQueue(sleepq, t)

(* No two CPUs ever run on one thread's stack: the pick in schedule()      *)
(* skips ACTIVE threads, and a thread that is not idle is ACTIVE whenever  *)
(* a CPU uses its stack, until the store of the incoming thread's          *)
(* scheduler_release, whatever that store races with.                      *)
StackExclusive ==
    \A t \in Thread :
        /\ Cardinality(StackUsers(t)) <= 1
        /\ t \notin IdleThreads /\ StackUsers(t) # {} => "active" \in flags[t]

(* Spec invariants 3 and 4: the run queue is in priority order, and the    *)
(* threads with a timeout form a prefix of the sleep queue in deadline     *)
(* order, which is what lets schedule() look only at the head.             *)
QueuesOrdered ==
    /\ IsSorted(runq, LAMBDA a, b : Priority[a] <= Priority[b])
    /\ \A i, j \in 1..Len(sleepq) :
          i < j /\ "timeout" \in flags[sleepq[j]] =>
              /\ "timeout" \in flags[sleepq[i]]
              /\ timeout[sleepq[i]] <= timeout[sleepq[j]]

(* Every CPU can always schedule: whenever its interrupts are enabled, the *)
(* run queue holds a thread that may run on it (the KASSERT "nothing on    *)
(* the runqueue for cpu" never fires).                                     *)
AlwaysRunnable ==
    \A c \in CPU :
        IntrEnabled(c) => \E i \in 1..Len(runq) : CanRunOn(runq[i], c, flags, cur[c])

(* Each switch on a CPU takes a thread allowed on that CPU, and no other   *)
(* thread it was allowed to take has a better priority (schedule() takes   *)
(* the first eligible thread of the priority-ordered run queue).           *)
PickIsBest ==
    [][\A c \in CPU :
         cur'[c] # cur[c] =>
            /\ Affinity[cur'[c]] \in {AnyCPU, c}
            /\ \A i \in 1..Len(runq') :
                  LET s == runq'[i] IN
                  (s # cur'[c] /\ Affinity[s] \in {AnyCPU, c}
                   /\ ("active" \notin flags'[s] \/ s = cur[c]))
                     => Priority[cur'[c]] <= Priority[s]
      ]_vars

(* A thread sleeping in thread_sleep_ms is eventually back on the run      *)
(* queue: the timer keeps the BSP scheduling and each schedule() wakes the *)
(* expired head of the sleep queue.                                        *)
TimedSleeperWakes ==
    \A t \in Thread :
        (OnQueue(sleepq, t) /\ "timeout" \in flags[t]) ~> ~OnQueue(sleepq, t)

(* schedule() asserts of the thread it activates "!THREAD_IS_SUSPENDED"   *)
(* (scheduler.cpp:239), and scheduler_add_thread clears SUSPENDED under   *)
(* the lock as it moves a thread to the run queue (lines 107-112): no      *)
(* thread on the run queue is SUSPENDED.                                   *)
RunqNotSuspended ==
    \A i \in 1..Len(runq) : "suspended" \notin flags[runq[i]]

-----------------------------------------------------------------------------
(***************************************************************************)
(* Refinement: the scheduler implements the thread lifecycle of            *)
(* ThreadLifecycle.  A thread's abstract status is read off its flags      *)
(* (ZOMBIE, else SUSPENDED, else ready) and the thread a CPU runs is its   *)
(* curthread; the queues, the ACTIVE flag, the switch window, the ticks    *)
(* and the IPIs are hidden.                                                *)
(***************************************************************************)
AbsStatus ==
    [t \in Thread |-> IF "zombie" \in flags[t] THEN "zombie"
                      ELSE IF "suspended" \in flags[t] THEN "suspended"
                      ELSE "ready"]

Lifecycle == INSTANCE ThreadLifecycle WITH status <- AbsStatus, running <- cur

(* On a single CPU, every step of the scheduler, thread_sleep_ms, Suspend, *)
(* Resume and the scheduler part of Terminate is a step of the lifecycle   *)
(* (with two, the unlocked t_flags updates break it: RunqNotSuspended).    *)
(* schedule()                                                              *)
(* only ever switches a CPU to a thread that is neither suspended nor a    *)
(* zombie, is allowed on that CPU and is no other CPU's curthread; it      *)
(* wakes only suspended threads; only a running thread suspends or exits.  *)
ImplementsLifecycle == Lifecycle!Spec
==============================================================================
