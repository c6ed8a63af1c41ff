------------------------------- MODULE Process -------------------------------
(***************************************************************************)
(* The process lifecycle of kern/process.cpp with the thread steps that    *)
(* drive it (sys_clone, Thread::Terminate) and the /proc reader of         *)
(* fs/ankhfs/ankhfs-proc.cpp that looks processes up by pid.               *)
(*                                                                         *)
(* Each process runs one thread, named by the process itself; Reader is    *)
(* the set of kernel threads serving /proc reads.  A step is one section   *)
(* under a lock, or one unlocked statement whose interleaving matters:     *)
(* a lock that may block is a guard on the step that takes it.             *)
(***************************************************************************)
EXTENDS Naturals, Sequences, SequencesExt, FiniteSets, Graphs

CONSTANTS Proc,      \* process slots
          Root,      \* the first process, running at boot
          Reader,    \* threads executing AnkhFS HandleRead on /proc/<pid>
          None       \* no process / no owner

ASSUME Root \in Proc /\ None \notin Proc \cup Reader /\ Proc \cap Reader = {}

Actor == Proc \cup Reader

VARIABLES
    state,      \* p_state, plus "unused" (never allocated) and "destroyed"
    refcount,   \* p_refcount
    parent,     \* p_parent
    children,   \* p_children, in list order
    all,        \* process::process_all, in list order
    lockOwner,  \* the holder of Process::Lock of each process
    mtxOwner,   \* the holder of process::process_mtx
    sem,        \* the count of process_sleep_sem
    pc,         \* where each thread is
    tgt,        \* the process a thread's current operation is about
    idx,        \* the position of a list scan in progress
    allThreads, \* thread::allThreads, in list order (thread p is p's own)
    mainthread, \* p_mainthread of each process
    tref,       \* t_refcount of each process's thread
    loaded      \* the p_refcount value a thread's process_deref has loaded

procVars == <<state, refcount, parent, children, all, lockOwner, mtxOwner, sem,
              pc, tgt, idx, loaded>>
threadVars == <<allThreads, mainthread, tref>>
vars == <<procVars, threadVars>>

\* Thread positions.  "none": the thread does not exist yet; "dead": it
\* left through scheduler_exit_thread.
Phase == {"none", "idle", "link", "addall", "vmclone", "thrclone",
          "terminate", "dead", "waitlock", "waitscan", "waitsem", "sleep",
          "reaped", "lookup", "holding", "deref", "decrement", "destroy",
          "readdir"}

(***************************************************************************)
(* Semaphore (spec 3.2): Signal wakes one sleeper if there is one, else    *)
(* counts a unit; Wait takes a unit if there is one, else sleeps.          *)
(***************************************************************************)
Sleepers == {a \in Proc : pc[a] = "sleep"}

SemSignal(pc0) ==
    IF Sleepers = {}
    THEN /\ sem' = sem + 1 /\ pc' = pc0
    ELSE \E w \in Sleepers : /\ pc' = [pc0 EXCEPT ![w] = "waitlock"]
                             /\ UNCHANGED sem

\* Thread a calls process_deref(p).
Deref(a, p) ==
    /\ pc'  = [pc EXCEPT ![a] = "deref"]
    /\ tgt' = [tgt EXCEPT ![a] = p]

\* process_deref: KASSERT(p_refcount > 0), then --p_refcount without any
\* lock, a load ...
DerefLoad(a) ==
    /\ pc[a] = "deref"
    /\ refcount[tgt[a]] > 0
    /\ loaded' = [loaded EXCEPT ![a] = refcount[tgt[a]]]
    /\ pc'     = [pc EXCEPT ![a] = "decrement"]
    /\ UNCHANGED <<state, refcount, parent, children, all, lockOwner, mtxOwner, sem, tgt, idx>>

\* ... and a store of the loaded value less one.  A process_ref under
\* process_mtx may have stored in between: then either store may land
\* last.  The value this thread computed decides whether it enters
\* process_destroy, whose visible step is Destroy.
DerefStore(a) ==
    LET p == tgt[a]
        v == loaded[a]
    IN  /\ pc[a] = "decrement"
        /\ refcount' \in {[refcount EXCEPT ![p] = w] :
                             w \in IF refcount[p] = v THEN {v - 1} ELSE {v - 1, refcount[p]}}
        /\ pc' = [pc EXCEPT ![a] = IF v = 1 THEN "destroy" ELSE "idle"]
        /\ UNCHANGED <<state, parent, children, all, lockOwner, mtxOwner, sem, tgt, idx, loaded>>

(***************************************************************************)
(* sys_clone -> process_clone -> process_alloc_ex.  The allocation with    *)
(* AllocateProcessID under process_mtx; its failure paths free the new     *)
(* process before anything links it and are not visible steps.             *)
(***************************************************************************)
AllocateProcess(a, c) ==
    /\ pc[a] = "idle" /\ a \in Proc /\ state[a] = "active"
    /\ state[c] = "unused" /\ mtxOwner = None
    /\ state'    = [state EXCEPT ![c] = "active"]
    /\ refcount' = [refcount EXCEPT ![c] = 1]
    /\ parent'   = [parent EXCEPT ![c] = a]
    /\ pc'       = [pc EXCEPT ![a] = "link"]
    /\ tgt'      = [tgt EXCEPT ![a] = c]
    /\ UNCHANGED <<children, all, lockOwner, mtxOwner, sem, idx>>

\* Fault variant: the parent's lock is still held when process_all is
\* extended (the two blocks of process_alloc_ex merged), and never dropped.
LinkChildHoldingLock(a) ==
    /\ pc[a] = "link" /\ lockOwner[a] = None
    /\ children'  = [children EXCEPT ![a] = Append(@, tgt[a])]
    /\ lockOwner' = [lockOwner EXCEPT ![a] = a]
    /\ pc' = [pc EXCEPT ![a] = "addall"]
    /\ UNCHANGED <<state, refcount, parent, all, mtxOwner, sem, tgt, idx>>

\* parent->Lock(); p_children.push_back(*p); parent->Unlock().
LinkChild(a) ==
    /\ pc[a] = "link" /\ lockOwner[a] = None
    /\ children' = [children EXCEPT ![a] = Append(@, tgt[a])]
    /\ pc' = [pc EXCEPT ![a] = "addall"]
    /\ UNCHANGED <<state, refcount, parent, all, lockOwner, mtxOwner, sem, tgt, idx>>

\* MutexGuard g(process_mtx); process_all.push_back(*p).
AddToAll(a) ==
    /\ pc[a] = "addall" /\ mtxOwner = None
    /\ all' = Append(all, tgt[a])
    /\ pc'  = [pc EXCEPT ![a] = "vmclone"]
    /\ UNCHANGED <<state, refcount, parent, children, lockOwner, mtxOwner, sem, tgt, idx>>

\* vmspace_clone; on failure process_clone calls process_deref(*newp).
CloneVmspace(a, ok) ==
    /\ pc[a] = "vmclone"
    /\ IF ok THEN /\ pc' = [pc EXCEPT ![a] = "thrclone"]
                  /\ UNCHANGED tgt
             ELSE Deref(a, tgt[a])
    /\ UNCHANGED <<state, refcount, parent, children, all, lockOwner, mtxOwner, sem, idx>>

\* thread_alloc(p) via thread_clone: p.AddThread, t_refcount 1 for the
\* caller, p_mainthread if p has none yet, scheduler::InitThread, and the
\* push onto allThreads under spl_threadqueue.  It cannot fail.
ThreadAlloc(p) ==
    /\ allThreads' = Append(allThreads, p)
    /\ mainthread' = [mainthread EXCEPT ![p] = IF @ = None THEN p ELSE @]
    /\ tref'       = [tref EXCEPT ![p] = 1]

\* sys_clone after process_clone: thread_clone, then thread_resume of the
\* new thread, which starts running.  thread_clone never fails, so the
\* process_deref of sys_clone's failure path is not reached.
CloneThread(a) ==
    /\ pc[a] = "thrclone"
    /\ ThreadAlloc(tgt[a])
    /\ pc' = [pc EXCEPT ![a] = "idle", ![tgt[a]] = "idle"]
    /\ UNCHANGED <<state, refcount, parent, children, all, lockOwner, mtxOwner, sem, tgt, idx,
                   loaded>>

\* process_destroy: exit callbacks, handles and vmspace_cleanup, then the
\* removal from process_all under process_mtx and kmem_unmap of p_info.
Destroy(a) ==
    /\ pc[a] = "destroy" /\ mtxOwner = None
    /\ all'   = Remove(all, tgt[a])
    /\ state' = [state EXCEPT ![tgt[a]] = "destroyed"]
    /\ pc'    = [pc EXCEPT ![a] = "idle"]
    /\ UNCHANGED <<refcount, parent, children, lockOwner, mtxOwner, sem, tgt, idx>>

(***************************************************************************)
(* Thread::Terminate: p->Lock(); as the process's main thread, p->Exit;   *)
(* thread_cleanup, --t_refcount and scheduler::ExitThread, which does not  *)
(* return: the SignalExit and Unlock after it never run.  Process::Exit is *)
(* not under src/; it is taken from spec 4.4 (exit: zombie, exit status,   *)
(* process_sleep_sem.Signal()).  process_exit in process.cpp, which has no *)
(* caller under src/, would instead re-lock the mutex Terminate holds.     *)
(* Each process here runs only its main thread.                           *)
(***************************************************************************)
TerminateLock(a) ==
    /\ pc[a] = "idle" /\ a \in Proc /\ lockOwner[a] = None
    /\ lockOwner' = [lockOwner EXCEPT ![a] = a]
    /\ pc' = [pc EXCEPT ![a] = "terminate"]
    /\ UNCHANGED <<state, refcount, parent, children, all, mtxOwner, sem, tgt, idx>>

TerminateExit(a) ==
    /\ pc[a] = "terminate"
    /\ mainthread[a] = a
    /\ state' = [state EXCEPT ![a] = "zombie"]
    /\ SemSignal([pc EXCEPT ![a] = "dead"])
    /\ tref' = [tref EXCEPT ![a] = @ - 1]
    /\ UNCHANGED <<refcount, parent, children, all, lockOwner, mtxOwner, tgt, idx,
                   allThreads, mainthread, loaded>>

(***************************************************************************)
(* process_wait_and_lock(parent): lock the parent, scan its children,      *)
(* locking each; return the first zombie, removed from the list, with its  *)
(* lock held; else unlock and wait on process_sleep_sem, then rescan.      *)
(***************************************************************************)
WaitLock(a) ==
    /\ pc[a] = "waitlock" \/ (pc[a] = "idle" /\ a \in Proc /\ state[a] = "active")
    /\ lockOwner[a] = None
    /\ lockOwner' = [lockOwner EXCEPT ![a] = a]
    /\ pc'  = [pc EXCEPT ![a] = "waitscan"]
    /\ idx' = [idx EXCEPT ![a] = 1]
    /\ UNCHANGED <<state, refcount, parent, children, all, mtxOwner, sem, tgt>>

WaitScan(a) ==
    LET c == children[a][idx[a]] IN
    /\ pc[a] = "waitscan"
    /\ IF idx[a] > Len(children[a])
       THEN /\ lockOwner' = [lockOwner EXCEPT ![a] = None]
            /\ pc' = [pc EXCEPT ![a] = "waitsem"]
            /\ UNCHANGED <<children, tgt, idx>>
       ELSE /\ lockOwner[c] = None
            /\ IF state[c] = "zombie"
               THEN /\ children'  = [children EXCEPT ![a] = Remove(@, c)]
                    /\ lockOwner' = [lockOwner EXCEPT ![a] = None, ![c] = a]
                    /\ pc'  = [pc EXCEPT ![a] = "reaped"]
                    /\ tgt' = [tgt EXCEPT ![a] = c]
                    /\ UNCHANGED idx
               ELSE /\ idx' = [idx EXCEPT ![a] = @ + 1]
                    /\ UNCHANGED <<children, lockOwner, pc, tgt>>
    /\ UNCHANGED <<state, refcount, parent, all, mtxOwner, sem>>

\* Fault variant: Wait takes a unit whether or not there is one.
WaitSemUnchecked(a) ==
    /\ pc[a] = "waitsem"
    /\ sem' = sem - 1 /\ pc' = [pc EXCEPT ![a] = "waitlock"]
    /\ UNCHANGED <<state, refcount, parent, children, all, lockOwner, mtxOwner, tgt, idx>>

WaitSem(a) ==
    /\ pc[a] = "waitsem"
    /\ IF sem > 0 THEN sem' = sem - 1 /\ pc' = [pc EXCEPT ![a] = "waitlock"]
                  ELSE pc' = [pc EXCEPT ![a] = "sleep"] /\ UNCHANGED sem
    /\ UNCHANGED <<state, refcount, parent, children, all, lockOwner, mtxOwner, tgt, idx>>

\* The caller of wait_and_lock would unlock the returned child and drop the
\* final reference; no run gets there, because the zombie's lock is never
\* free (see TerminateExit), so that step is not part of Next.

(***************************************************************************)
(* AnkhFS HandleRead on /proc/<q>: process_lookup_by_id_and_ref(q) scans   *)
(* process_all under process_mtx, locking each process to compare its pid, *)
(* and takes a reference on the match; the reader then reads p_info and    *)
(* calls Deref.                                                            *)
(***************************************************************************)
LookupStart(r, q) ==
    /\ pc[r] = "idle" /\ mtxOwner = None
    /\ mtxOwner' = r
    /\ pc'  = [pc EXCEPT ![r] = "lookup"]
    /\ tgt' = [tgt EXCEPT ![r] = q]
    /\ idx' = [idx EXCEPT ![r] = 1]
    /\ UNCHANGED <<state, refcount, parent, children, all, lockOwner, sem>>

LookupScan(r) ==
    LET p == all[idx[r]] IN
    /\ pc[r] = "lookup"
    /\ IF idx[r] > Len(all)
       THEN /\ mtxOwner' = None
            /\ pc' = [pc EXCEPT ![r] = "idle"]
            /\ UNCHANGED <<refcount, idx>>
       ELSE /\ lockOwner[p] = None
            /\ IF p = tgt[r]
               THEN /\ refcount' = [refcount EXCEPT ![p] = @ + 1]
                    /\ mtxOwner' = None
                    /\ pc' = [pc EXCEPT ![r] = "holding"]
                    /\ UNCHANGED idx
               ELSE /\ idx' = [idx EXCEPT ![r] = @ + 1]
                    /\ UNCHANGED <<refcount, mtxOwner, pc>>
    /\ UNCHANGED <<state, parent, children, all, lockOwner, sem, tgt>>

ReadDone(r) ==
    /\ pc[r] = "holding"
    /\ Deref(r, tgt[r])
    /\ UNCHANGED <<state, refcount, parent, children, all, lockOwner, mtxOwner, sem, idx>>

(***************************************************************************)
(* AnkhFS readdir of /proc: HandleReadDir_Proc_Root takes process_mtx and  *)
(* hands HandleReadDir a FetchEntry callback whose iterator walks          *)
(* process_all, one entry per call, reading p_pid without the process     *)
(* lock.  HandleReadDir stops when the callback returns false at the end  *)
(* of the list, or earlier when the caller's dirent buffer is full; the   *)
(* MutexGuard releases process_mtx on return.                             *)
(***************************************************************************)
ReadDirStart(r) ==
    /\ pc[r] = "idle" /\ mtxOwner = None
    /\ mtxOwner' = r
    /\ pc'  = [pc EXCEPT ![r] = "readdir"]
    /\ idx' = [idx EXCEPT ![r] = 1]
    /\ UNCHANGED <<state, refcount, parent, children, all, lockOwner, sem, tgt>>

\* One FetchNextEntry call (currentProcess is all[idx]), or the return.
FetchNextEntry(r) ==
    /\ pc[r] = "readdir"
    /\ \/ /\ idx[r] <= Len(all)
          /\ idx' = [idx EXCEPT ![r] = @ + 1]
          /\ UNCHANGED <<mtxOwner, pc>>
       \/ /\ mtxOwner' = None
          /\ pc' = [pc EXCEPT ![r] = "idle"]
          /\ UNCHANGED idx
    /\ UNCHANGED <<state, refcount, parent, children, all, lockOwner, sem, tgt>>

-----------------------------------------------------------------------------
Init ==
    /\ state    = [p \in Proc |-> IF p = Root THEN "active" ELSE "unused"]
    /\ refcount = [p \in Proc |-> IF p = Root THEN 1 ELSE 0]
    /\ parent   = [p \in Proc |-> None]
    /\ children = [p \in Proc |-> <<>>]
    /\ all      = <<Root>>
    /\ lockOwner = [p \in Proc |-> None]
    /\ mtxOwner = None
    /\ sem      = 0
    /\ pc       = [a \in Actor |-> IF a \in Reader \/ a = Root THEN "idle" ELSE "none"]
    /\ tgt      = [a \in Actor |-> None]
    /\ idx      = [a \in Actor |-> 1]
    /\ allThreads = <<Root>>
    /\ mainthread = [p \in Proc |-> IF p = Root THEN Root ELSE None]
    /\ tref       = [p \in Proc |-> IF p = Root THEN 1 ELSE 0]
    /\ loaded     = [a \in Actor |-> 0]

\* What a thread does next on its own, once an operation has started.
Continue(a) ==
    \/ CloneThread(a) \/ TerminateExit(a)
    \/ DerefLoad(a) /\ UNCHANGED threadVars
    \/ /\ \/ LinkChild(a) \/ AddToAll(a) \/ Destroy(a)
          \/ \E ok \in BOOLEAN : CloneVmspace(a, ok)
          \/ DerefStore(a)
          \/ WaitScan(a) \/ WaitSem(a)
          \/ LookupScan(a) \/ ReadDone(a) \/ FetchNextEntry(a)
          \/ pc[a] = "waitlock" /\ WaitLock(a)
       /\ UNCHANGED <<loaded, threadVars>>

\* Operations a thread may start from user code.
Start(a) ==
    /\ UNCHANGED <<loaded, threadVars>>
    /\ \/ \E c \in Proc : AllocateProcess(a, c)
       \/ TerminateLock(a)
       \/ pc[a] = "idle" /\ WaitLock(a)
       \/ a \in Reader /\ \E q \in Proc : LookupStart(a, q)
       \/ a \in Reader /\ ReadDirStart(a)

Next == \E a \in Actor : Start(a) \/ Continue(a)

(***************************************************************************)
(* Fairness: a thread inside a kernel operation is eventually scheduled    *)
(* and takes its next step when that step is enabled; user threads share *)
(* THREAD_PRIORITY_DEFAULT, so the scheduler's round robin reaches each.  *)
(* Starting an operation is the program's choice and is not fair.         *)
(***************************************************************************)
Spec == Init /\ [][Next]_vars /\ \A a \in Actor : WF_vars(Continue(a))

-----------------------------------------------------------------------------
TypeOK ==
    /\ state \in [Proc -> {"unused", "active", "zombie", "destroyed"}]
    /\ refcount \in [Proc -> Nat]
    /\ parent \in [Proc -> Proc \cup {None}]
    /\ children \in [Proc -> Seq(Proc)]
    /\ all \in Seq(Proc)
    /\ lockOwner \in [Proc -> Actor \cup {None}]
    /\ mtxOwner \in Actor \cup {None}
    /\ sem \in Nat
    /\ pc \in [Actor -> Phase]
    /\ tgt \in [Actor -> Proc \cup {None}]
    /\ idx \in [Actor -> Nat]
    /\ allThreads \in Seq(Proc)
    /\ mainthread \in [Proc -> Proc \cup {None}]
    /\ tref \in [Proc -> Nat]

\* Process p is in process_destroy, between its last deref and the removal.
Destroying(p) == \E a \in Actor : pc[a] = "destroy" /\ tgt[a] = p

\* The holders of the lock the next step of thread a waits for: its own
\* process lock (LinkChild, WaitLock), process_mtx (AddToAll, Destroy), the
\* lock of the child a wait scan or of the process a pid lookup reaches.
BlockedOn(a) ==
    LET need == CASE pc[a] \in {"link", "waitlock"} -> {lockOwner[a]}
                  [] pc[a] \in {"addall", "destroy"} -> {mtxOwner}
                  [] pc[a] = "waitscan" /\ idx[a] <= Len(children[a]) ->
                        {lockOwner[children[a][idx[a]]]}
                  [] pc[a] = "lookup" /\ idx[a] <= Len(all) -> {lockOwner[all[idx[a]]]}
                  [] OTHER -> {}
    IN  need \ {None}

WaitFor == [node |-> Actor, edge |-> {e \in Actor \X Actor : e[2] \in BlockedOn(e[1])}]

(* No set of threads waits on each other in a circle: the process locks    *)
(* (parent before child in process_wait_and_lock) and process_mtx (before  *)
(* a process lock in process_lookup_by_id_and_ref) are never taken in the  *)
(* opposite order, because process_alloc_ex drops the parent's lock before *)
(* it takes process_mtx and process_destroy takes process_mtx alone.       *)
NoLockCycle == ~HasCycle(WaitFor)

(* Spec 4.4: wait_and_lock returns a zombie child to its parent.  A       *)
(* parent waiting while one of its children is a zombie eventually has it *)
(* reaped.                                                                 *)
ZombieChildReaped ==
    \A a, c \in Proc :
        (pc[a] \in {"waitlock", "waitscan", "waitsem", "sleep"}
         /\ c \in ToSet(children[a]) /\ state[c] = "zombie")
            ~> pc[a] = "reaped"

(* A process that process_destroy freed is no longer reachable through    *)
(* its parent's child list (spec 5: ownership runs parent -> children).   *)
DestroyedNotListed ==
    \A a, p \in Proc : state[p] = "destroyed" => p \notin ToSet(children[a])

(* A /proc reader holding the reference process_lookup_by_id_and_ref took *)
(* holds a process that is not being or has not been destroyed, so its    *)
(* p_info read in HandleRead is of mapped memory.                          *)
ReaderHoldsLive ==
    \A r \in Reader :
        pc[r] = "holding" => state[tgt[r]] # "destroyed" /\ ~Destroying(tgt[r])

==============================================================================
