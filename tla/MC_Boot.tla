------------------------------- MODULE MC_Boot -------------------------------
(* Five init functions: exec_init (SUBSYSTEM_THREAD, ORDER_FIRST), an     *)
(* exec format registration (THREAD, MIDDLE), process_init (PROCESS,      *)
(* FIRST), smp_launch (SCHEDULER, MIDDLE) and the console banner          *)
(* (CONSOLE, LAST), registered far from sorted order.  The numbers of the *)
(* SubSystem and Order enumerations are not in the repository; these put *)
(* PROCESS after SCHEDULER so that sorting by order first would differ.   *)
(* Two APs.  The memory map has one chunk for each *)
(* of kmem_chunk_reserve's cases and each boundary between them, around a *)
(* kernel range [4, 8).  SetTime dates include leap days before and after *)
(* the epoch, a 400-year leap day and the last second that fits the      *)
(* model's 32-bit integers; 101 ticks take the clock over a carry.        *)
EXTENDS Boot, TLC

CONSTANTS fExec, fExecReg, fProc, fSmp, fHello, a1, a2

MCInitFn == {fExec, fExecReg, fProc, fSmp, fHello}
MCRegistered == <<fHello, fSmp, fExecReg, fExec, fProc>>
MCSubsystem == (fExec :> 1) @@ (fExecReg :> 1) @@ (fSmp :> 2) @@ (fProc :> 3) @@ (fHello :> 4)
MCOrder == (fProc :> 0) @@ (fExec :> 0) @@ (fExecReg :> 1) @@ (fSmp :> 1) @@ (fHello :> 2)
MCAP == {a1, a2}
MCMemMap == << <<0, 12>>, <<5, 7>>, <<4, 8>>, <<2, 6>>, <<2, 8>>, <<6, 12>>,
               <<4, 10>>, <<0, 3>>, <<0, 4>>, <<9, 12>>, <<8, 10>> >>
MCReserved == <<4, 8>>
Date(y, mo, d, h, mi, s) == [year |-> y, mon |-> mo, mday |-> d, hour |-> h, min |-> mi, sec |-> s]
MCDates == {Date(1970, 1, 1, 0, 0, 0), Date(1972, 2, 29, 23, 59, 59),
            Date(2000, 2, 29, 0, 0, 0), Date(1904, 2, 29, 12, 0, 0),
            Date(2037, 12, 31, 23, 59, 59)}
==============================================================================
