----------------------------- MODULE MC_Process -----------------------------
(* Four process slots: the boot process p0 and three more, enough for a   *)
(* parent with two children and a grandchild.  The runs with a /proc       *)
(* reader r1 use the first three slots (MCProc3).                          *)
EXTENDS Process

CONSTANTS p0, p1, p2, p3, r1

MCProc == {p0, p1, p2, p3}
MCProc3 == {p0, p1, p2}
NoReader == {}
OneReader == {r1}
==============================================================================
