--------------------------- MODULE ThreadLifecycle ---------------------------
(***************************************************************************)
(* What the scheduler promises about a thread's life (spec section 3,      *)
(* "Thread ... Lifecycle"), without queues, flags, locks or the switch     *)
(* window: a thread is allocated suspended, resumed into the ready state,  *)
(* run by at most one CPU at a time and only on a CPU its affinity allows, *)
(* suspended again only by itself while it runs, and once a zombie never   *)
(* runs again.  Idle threads run from boot on their own CPU and never      *)
(* sleep or exit.                                                          *)
(***************************************************************************)
CONSTANTS CPU, Thread, Idle, Affinity, AnyCPU

IdleSet == {Idle[c] : c \in CPU}

VARIABLES
    status,   \* "suspended", "ready" (runnable or running) or "zombie"
    running   \* running[c]: the thread CPU c runs

Init ==
    /\ status  = [t \in Thread |-> IF t \in IdleSet THEN "ready" ELSE "suspended"]
    /\ running = Idle

\* The thread running on CPU c suspends itself.
Suspend(c) ==
    LET t == running[c] IN
    /\ t \notin IdleSet
    /\ status[t] = "ready"
    /\ status' = [status EXCEPT ![t] = "suspended"]
    /\ UNCHANGED running

\* Another party makes a suspended thread ready.
Resume(u) ==
    /\ status[u] = "suspended"
    /\ status' = [status EXCEPT ![u] = "ready"]
    /\ UNCHANGED running

\* CPU c switches to thread t.  On the way, the threads of W, suspended,
\* are woken, and the outgoing thread may exit (exits).  t must then be
\* ready, allowed on c, and not running on another CPU.
Dispatch(c, W, exits, t) ==
    LET out == running[c]
        woken == [u \in Thread |-> IF u \in W THEN "ready" ELSE status[u]]
        after == IF exits THEN [woken EXCEPT ![out] = "zombie"] ELSE woken
    IN  /\ \A u \in W : status[u] = "suspended"
        /\ exits => out \notin IdleSet /\ status[out] = "ready"
        /\ after[t] = "ready"
        /\ Affinity[t] \in {AnyCPU, c}
        /\ \A d \in CPU \ {c} : running[d] # t
        /\ status'  = after
        /\ running' = [running EXCEPT ![c] = t]

Next ==
    \/ \E c \in CPU : Suspend(c)
    \/ \E u \in Thread : Resume(u)
    \/ \E c \in CPU, W \in {{}} \cup {{u} : u \in Thread}, exits \in BOOLEAN, t \in Thread :
          Dispatch(c, W, exits, t)

Spec == Init /\ [][Next]_<<status, running>>
==============================================================================
