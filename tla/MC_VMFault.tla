----------------------------- MODULE MC_VMFault -----------------------------
(* A parent space and one clone, three page slots and ten page objects: as *)
(* many as can be live at once (six mapped, two cached, two in flight), so *)
(* the allocator never runs out.  With DLength = 3 half pages, slot 0 lies *)
(* wholly in the file window (the Duplicate path), slot 1 straddles its    *)
(* end (the copy path) and slot 2 is past it (anonymous).                  *)
EXTENDS VMFault

CONSTANTS s1, s2, q1, q2, q3, q4, q5, q6, q7, q8, q9, q10

MCSpace == {s1, s2}
MCPage == {q1, q2, q3, q4, q5, q6, q7, q8, q9, q10}
MCSlot == 0..2
==============================================================================
