------------------------------- MODULE VMFault -------------------------------
(***************************************************************************)
(* The page-fault handler of vm/vmfault.cpp, VMSpace::HandleFault, with    *)
(* its dentry-backed path (HandleDEntryBackedFault, GetDEntryBackedPage)   *)
(* and its copy-on-write path (PromotePage, AssignPageToVirtualAddress).   *)
(*                                                                         *)
(* Each vmspace belongs to a process with one thread, so the faults that   *)
(* run concurrently are those of different vmspaces; they meet on the VM   *)
(* pages they share: pages shared copy-on-write after a clone, and the     *)
(* pages of the inode page cache.  Every space maps one area, the same     *)
(* region of one file, with the same flags.  A VM page is an object with a *)
(* reference count and a sleepable lock; the physical frame behind it is   *)
(* abstracted away.                                                        *)
(*                                                                         *)
(* The VMPage and VMArea methods the handler calls (Promote, Duplicate,    *)
(* LookupOrCreateINodePage, LookupVAddrAndLock, Map, Deref) and            *)
(* vmspace_clone are not part of the repository; they are modelled from    *)
(* spec 4.5-4.7.  The one they leave open, whether LookupVAddrAndLock      *)
(* takes a reference on the page it returns, is the constant               *)
(* LookupTakesRef.                                                         *)
(***************************************************************************)
EXTENDS Naturals, Integers, FiniteSets

CONSTANTS Space,          \* vmspaces, one faulting thread each
          Parent,         \* the space that exists at boot; the others are its clones
          Slot,           \* the page slots of the area: 0 .. N-1
          PageObj,        \* the VMPage objects the allocator hands out
          AreaWriteFlags, \* the values VM_FLAG_WRITE on the area may have
          Dentry,         \* the area has a va_dentry
          DLength,        \* va_dlength, in half pages
          LookupTakesRef, \* LookupVAddrAndLock returns its page with a reference
          MaxFaults,      \* bound on the faults taken in a behaviour
          NoPage, NoSpace

ASSUME /\ Parent \in Space /\ Slot \subseteq Nat
       /\ AreaWriteFlags \subseteq BOOLEAN /\ Dentry \in BOOLEAN /\ LookupTakesRef \in BOOLEAN
       /\ DLength \in Nat /\ MaxFaults \in Nat

\* PAGE_SIZE, in the half pages DLength is counted in.
PAGE == 2

VARIABLES
    areaWrite,  \* VM_FLAG_WRITE on the area (VM_FLAG_READ is always set)
    present,    \* the spaces that exist
    cow,        \* vmarea::flag::COW on each space's area
    slot,       \* va_pages: the VMPage in each slot, or NoPage
    writable,   \* the hardware mapping of each slot allows writes
    refcount,   \* vp_refcount; a page with count 0 is free
    lock,       \* the space whose fault holds the page lock, or NoSpace
    pending,    \* vmpage::flag::Pending
    readOnly,   \* vmpage::flag::ReadOnly
    filled,     \* the page holds its content (zeroed, read, or copied)
    cache,      \* the inode page cache, by page index in the file
    pc,         \* where each space's thread is in HandleFault
    fslot,      \* the slot the current fault is for
    fwrite,     \* the current fault is a write
    vp,         \* the page found by the lookup, or the inode page
    nvp,        \* the page about to be assigned to the slot
    faults      \* faults taken so far

vars == <<areaWrite, present, cow, slot, writable, refcount, lock, pending, readOnly,
          filled, cache, pc, fslot, fwrite, vp, nvp, faults>>

Phase == {"idle", "lookup", "promote", "reject", "anon", "inode", "inodelock",
          "read", "dup", "assign", "dead"}

FreePages == {q \in PageObj : refcount[q] = 0 /\ lock[q] = NoSpace}

\* page_alloc / AllocatePrivatePage: some free page object.
NewPage == CHOOSE q \in FreePages : TRUE

\* The flags and content of a freshly allocated page object n; its
\* reference count (1) and its lock (the allocating fault) are set by the
\* caller together with the other pages it touches.
Fresh(n, ro, full, pend) ==
    /\ readOnly' = [readOnly EXCEPT ![n] = ro]
    /\ filled'   = [filled EXCEPT ![n] = full]
    /\ pending'  = [pending EXCEPT ![n] = pend]

\* DeterminePageFlagsFromVMArea: read-only unless the area is writable.
AreaReadOnly == ~areaWrite

(***************************************************************************)
(* HandleFault, entry.  The hardware faults on an absent page, or on a     *)
(* write through a read-only mapping.                                      *)
(***************************************************************************)
Fault(s, i, w) ==
    /\ s \in present /\ pc[s] = "idle" /\ faults < MaxFaults
    /\ slot[s][i] = NoPage \/ (w /\ ~writable[s][i])
    /\ pc' = [pc EXCEPT ![s] = "lookup"]
    /\ fslot' = [fslot EXCEPT ![s] = i]
    /\ fwrite' = [fwrite EXCEPT ![s] = w]
    /\ faults' = faults + 1
    /\ UNCHANGED <<areaWrite, present, cow, slot, writable, refcount, lock, pending,
                   readOnly, filled, cache, vp, nvp>>

\* Fault variant: the lookup does not take a reference.
LookupMappedNoRef(s) ==
    LET q == slot[s][fslot[s]] IN
    /\ pc[s] = "lookup" /\ q # NoPage
    /\ lock[q] = NoSpace
    /\ lock' = [lock EXCEPT ![q] = s]
    /\ vp' = [vp EXCEPT ![s] = q]
    /\ pc' = [pc EXCEPT ![s] = IF fwrite[s] /\ cow[s] THEN "promote" ELSE "reject"]
    /\ UNCHANGED <<areaWrite, present, cow, slot, writable, refcount, pending, readOnly,
                   filled, cache, fslot, fwrite, nvp, faults>>

\* va->LookupVAddrAndLock(alignedVirt) finds the slot's page and locks it;
\* a write to a COW area promotes, anything else is rejected.
LookupMapped(s) ==
    LET q == slot[s][fslot[s]] IN
    /\ pc[s] = "lookup" /\ q # NoPage
    /\ lock[q] = NoSpace
    /\ lock' = [lock EXCEPT ![q] = s]
    /\ refcount' = IF LookupTakesRef THEN [refcount EXCEPT ![q] = @ + 1]
                                     ELSE refcount
    /\ vp' = [vp EXCEPT ![s] = q]
    /\ pc' = [pc EXCEPT ![s] = IF fwrite[s] /\ cow[s] THEN "promote" ELSE "reject"]
    /\ UNCHANGED <<areaWrite, present, cow, slot, writable, pending, readOnly, filled,
                   cache, fslot, fwrite, nvp, faults>>

\* No page yet: dentry-backed if the offset lies in [0, va_dlength),
\* otherwise anonymous.
LookupEmpty(s) ==
    /\ pc[s] = "lookup" /\ slot[s][fslot[s]] = NoPage
    /\ pc' = [pc EXCEPT ![s] = IF Dentry /\ fslot[s] * PAGE < DLength
                                THEN "inode" ELSE "anon"]
    /\ UNCHANGED <<areaWrite, present, cow, slot, writable, refcount, lock, pending,
                   readOnly, filled, cache, fslot, fwrite, vp, nvp, faults>>

\* "write to non-cow, reject": unlock the page and return EFAULT; the
\* faulting user thread does not return to the faulting instruction.
Reject(s) ==
    /\ pc[s] = "reject"
    /\ lock' = [lock EXCEPT ![vp[s]] = NoSpace]
    /\ pc' = [pc EXCEPT ![s] = "dead"]
    /\ UNCHANGED <<areaWrite, present, cow, slot, writable, refcount, pending, readOnly,
                   filled, cache, fslot, fwrite, vp, nvp, faults>>
\* PromotePage: vp.Promote() copies the page into a new private one (spec
\* 4.5: a copy whatever the sharing), and since the result is not vp,
\* vp.Deref() drops a reference and the lock.  Promote asserts that vp is
\* not ReadOnly; a COW area is writable, so no page of it is.
\* Fault variant: Promote hands back vp itself, so PromotePage takes the
\* &new_vp == &vp branch and keeps the reference and the lock.
PromoteInPlace(s) ==
    LET q == vp[s] IN
    /\ pc[s] = "promote" /\ FreePages # {}
    /\ nvp' = [nvp EXCEPT ![s] = q]
    /\ pc' = [pc EXCEPT ![s] = "assign"]
    /\ UNCHANGED <<areaWrite, present, cow, slot, writable, refcount, lock, pending,
                   readOnly, filled, cache, fslot, fwrite, vp, faults>>

Promote(s) ==
    LET q == vp[s]
        n == NewPage
    IN  /\ pc[s] = "promote" /\ FreePages # {}
        /\ refcount' = [refcount EXCEPT ![n] = 1, ![q] = @ - 1]
        /\ lock' = [lock EXCEPT ![n] = s, ![q] = NoSpace]
        /\ Fresh(n, FALSE, filled[q], FALSE)
        /\ nvp' = [nvp EXCEPT ![s] = n]
        /\ pc' = [pc EXCEPT ![s] = "assign"]
        /\ UNCHANGED <<areaWrite, present, cow, slot, writable, cache, fslot, fwrite, vp,
                       faults>>

\* Anonymous mapping: AllocatePrivatePage(Private) and Zero.
Anon(s) ==
    LET n == NewPage IN
    /\ pc[s] = "anon" /\ FreePages # {}
    /\ refcount' = [refcount EXCEPT ![n] = 1]
    /\ lock' = [lock EXCEPT ![n] = s]
    /\ Fresh(n, FALSE, TRUE, FALSE)
    /\ nvp' = [nvp EXCEPT ![s] = n]
    /\ pc' = [pc EXCEPT ![s] = "assign"]
    /\ UNCHANGED <<areaWrite, present, cow, slot, writable, cache, fslot, fwrite, vp, faults>>

\* Fault variant: a cached page is used without waiting for its lock, so
\* without looking at Pending.
InodeLookupHitNoWait(s) ==
    LET q == cache[fslot[s]] IN
    /\ pc[s] = "inode" /\ q # NoPage
    /\ refcount' = [refcount EXCEPT ![q] = @ + 1]
    /\ vp' = [vp EXCEPT ![s] = q]
    /\ pc' = [pc EXCEPT ![s] = "dup"]
    /\ UNCHANGED <<areaWrite, present, cow, slot, writable, lock, pending, readOnly, filled,
                   cache, fslot, fwrite, nvp, faults>>

(***************************************************************************)
(* GetDEntryBackedPage.  LookupOrCreateINodePage (spec 4.6) takes a        *)
(* reference on a cached page and returns it locked, waiting for its lock; *)
(* a missing page is created Pending with the flags of this area, one      *)
(* reference for the cache and one for the caller, locked, and read while  *)
(* the lock is held.  va_doffset is page aligned (the KASSERT at line      *)
(* 217), so the file page index is the slot index.                         *)
(***************************************************************************)
InodeLookupHit(s) ==
    LET q == cache[fslot[s]] IN
    /\ pc[s] = "inode" /\ q # NoPage
    /\ refcount' = [refcount EXCEPT ![q] = @ + 1]
    /\ vp' = [vp EXCEPT ![s] = q]
    /\ pc' = [pc EXCEPT ![s] = "inodelock"]
    /\ UNCHANGED <<areaWrite, present, cow, slot, writable, lock, pending, readOnly, filled,
                   cache, fslot, fwrite, nvp, faults>>

InodeLookupMiss(s) ==
    LET n == NewPage IN
    /\ pc[s] = "inode" /\ cache[fslot[s]] = NoPage /\ FreePages # {}
    /\ refcount' = [refcount EXCEPT ![n] = 2]
    /\ lock' = [lock EXCEPT ![n] = s]
    /\ Fresh(n, AreaReadOnly, FALSE, TRUE)
    /\ cache' = [cache EXCEPT ![fslot[s]] = n]
    /\ vp' = [vp EXCEPT ![s] = n]
    /\ pc' = [pc EXCEPT ![s] = "read"]
    /\ UNCHANGED <<areaWrite, present, cow, slot, writable, fslot, fwrite, nvp, faults>>

\* The page lock of a cached page; still Pending means "read it".
InodeLock(s) ==
    LET q == vp[s] IN
    /\ pc[s] = "inodelock" /\ lock[q] = NoSpace
    /\ lock' = [lock EXCEPT ![q] = s]
    /\ pc' = [pc EXCEPT ![s] = IF pending[q] THEN "read" ELSE "dup"]
    /\ UNCHANGED <<areaWrite, present, cow, slot, writable, refcount, pending, readOnly,
                   filled, cache, fslot, fwrite, vp, nvp, faults>>

\* read_data into a fresh frame, then vp_page = p and Pending cleared; the
\* read and the allocation are asserted to succeed.
Read(s) ==
    LET q == vp[s] IN
    /\ pc[s] = "read"
    /\ filled' = [filled EXCEPT ![q] = TRUE]
    /\ pending' = [pending EXCEPT ![q] = FALSE]
    /\ pc' = [pc EXCEPT ![s] = "dup"]
    /\ UNCHANGED <<areaWrite, present, cow, slot, writable, refcount, lock, readOnly, cache,
                   fslot, fwrite, vp, nvp, faults>>

\* HandleDEntryBackedFault after the lookup: a page wholly inside
\* va_dlength is Duplicate()d; a page straddling its end is copied into
\* AllocatePrivatePage(Private | flags) by CopyExtended.  Then
\* vmpage.Unlock(): the inode page is unlocked, its reference kept.
\* VMPage::Duplicate is not under src/; by the comment at its call it
\* shares the cached page's frame in a new VMPage.  The model gives the
\* duplicate a page object of its own and does not represent frames, so
\* it says nothing about writes reaching the file cache through a shared
\* frame.
CanReusePageAsIs(i) == i * PAGE + PAGE <= DLength

Dup(s) ==
    LET q == vp[s]
        n == NewPage
    IN  /\ pc[s] = "dup" /\ FreePages # {}
        /\ refcount' = [refcount EXCEPT ![n] = 1]
        /\ lock' = [lock EXCEPT ![n] = s, ![q] = NoSpace]
        /\ Fresh(n, IF CanReusePageAsIs(fslot[s]) THEN readOnly[q] ELSE AreaReadOnly,
                 filled[q], FALSE)
        /\ nvp' = [nvp EXCEPT ![s] = n]
        /\ pc' = [pc EXCEPT ![s] = "assign"]
        /\ UNCHANGED <<areaWrite, present, cow, slot, writable, cache, fslot, fwrite, vp,
                       faults>>

\* Map (spec 4.5 step 5, step 3): a mapping is writable when the area is
\* and the page is not ReadOnly; in a COW area only the page just promoted
\* is mapped writable.
MapWritable(s, n, promoted) ==
    areaWrite /\ ~readOnly[n] /\ (~cow[s] \/ promoted)

Assign(s) ==
    LET i   == fslot[s]
        old == slot[s][i]
        n   == nvp[s]
        replace == old # NoPage /\ old # n
    IN  /\ pc[s] = "assign"
        /\ replace => lock[old] = NoSpace
        /\ refcount' = IF replace THEN [refcount EXCEPT ![old] = @ - 1] ELSE refcount
        /\ lock' = [lock EXCEPT ![n] = NoSpace]
        /\ slot' = [slot EXCEPT ![s][i] = n]
        /\ writable' = [writable EXCEPT ![s][i] = MapWritable(s, n, old # NoPage)]
        /\ pc' = [pc EXCEPT ![s] = "idle"]
        /\ UNCHANGED <<areaWrite, present, cow, pending, readOnly, filled, cache, fslot,
                       fwrite, vp, nvp, faults>>

\* Fault variant: the child shares the parent's pages without taking
\* references.
CloneNoRef(c) ==
    /\ c \notin present /\ pc[Parent] = "idle" /\ Parent \in present
    /\ present' = present \cup {c}
    /\ slot' = [slot EXCEPT ![c] = slot[Parent]]
    /\ cow' = IF areaWrite THEN [cow EXCEPT ![Parent] = TRUE, ![c] = TRUE] ELSE cow
    /\ writable' = [writable EXCEPT ![Parent] = [i \in Slot |-> FALSE],
                                    ![c] = [i \in Slot |-> FALSE]]
    /\ UNCHANGED <<areaWrite, refcount, lock, pending, readOnly, filled, cache, pc, fslot,
                   fwrite, vp, nvp, faults>>

(***************************************************************************)
(* vmspace_clone (spec 4.7), called from process_clone while the parent's  *)
(* thread is in the clone system call: the child maps every page of the    *)
(* parent, one more reference each; a writable private area becomes COW in *)
(* both, with every mapping of both read-only.                             *)
(***************************************************************************)
MappedIn(s, q) == Cardinality({i \in Slot : slot[s][i] = q})

Clone(c) ==
    /\ c \notin present /\ pc[Parent] = "idle" /\ Parent \in present
    /\ present' = present \cup {c}
    /\ slot' = [slot EXCEPT ![c] = slot[Parent]]
    /\ refcount' = [q \in PageObj |-> refcount[q] + MappedIn(Parent, q)]
    /\ cow' = IF areaWrite THEN [cow EXCEPT ![Parent] = TRUE, ![c] = TRUE] ELSE cow
    /\ writable' = [writable EXCEPT ![Parent] = [i \in Slot |-> FALSE],
                                    ![c] = [i \in Slot |-> FALSE]]
    /\ UNCHANGED <<areaWrite, lock, pending, readOnly, filled, cache, pc, fslot, fwrite, vp,
                   nvp, faults>>

Init ==
    /\ areaWrite \in AreaWriteFlags
    /\ present = {Parent}
    /\ cow = [s \in Space |-> FALSE]
    /\ slot = [s \in Space |-> [i \in Slot |-> NoPage]]
    /\ writable = [s \in Space |-> [i \in Slot |-> FALSE]]
    /\ refcount = [q \in PageObj |-> 0]
    /\ lock = [q \in PageObj |-> NoSpace]
    /\ pending = [q \in PageObj |-> FALSE]
    /\ readOnly = [q \in PageObj |-> FALSE]
    /\ filled = [q \in PageObj |-> FALSE]
    /\ cache = [i \in Slot |-> NoPage]
    /\ pc = [s \in Space |-> "idle"]
    /\ fslot = [s \in Space |-> CHOOSE i \in Slot : TRUE]
    /\ fwrite = [s \in Space |-> FALSE]
    /\ vp = [s \in Space |-> NoPage]
    /\ nvp = [s \in Space |-> NoPage]
    /\ faults = 0

\* The steps of a fault in progress.
Step(s) ==
    \/ LookupMapped(s) \/ LookupEmpty(s) \/ Reject(s) \/ Promote(s) \/ Anon(s)
    \/ InodeLookupHit(s) \/ InodeLookupMiss(s) \/ InodeLock(s) \/ Read(s)
    \/ Dup(s) \/ Assign(s)

Next ==
    \E s \in Space :
        \/ Step(s)
        \/ Clone(s)
        \/ \E i \in Slot, w \in BOOLEAN : Fault(s, i, w)

\* A faulting thread is scheduled, and a page lock is a Mutex whose Unlock
\* wakes its sleepers, so a waiter that is woken infinitely often gets it.
\* At each pc one step of Step(s) is possible, so strong fairness on
\* Step(s) says exactly this: a step continuously enabled, or a lock free
\* infinitely often, is eventually taken.
Spec == Init /\ [][Next]_vars /\ \A s \in Space : SF_vars(Step(s))

-----------------------------------------------------------------------------
TypeOK ==
    /\ areaWrite \in BOOLEAN
    /\ present \subseteq Space /\ Parent \in present
    /\ cow \in [Space -> BOOLEAN]
    /\ slot \in [Space -> [Slot -> PageObj \cup {NoPage}]]
    /\ writable \in [Space -> [Slot -> BOOLEAN]]
    /\ refcount \in [PageObj -> Nat]
    /\ lock \in [PageObj -> Space \cup {NoSpace}]
    /\ pending \in [PageObj -> BOOLEAN]
    /\ readOnly \in [PageObj -> BOOLEAN]
    /\ filled \in [PageObj -> BOOLEAN]
    /\ cache \in [Slot -> PageObj \cup {NoPage}]
    /\ pc \in [Space -> Phase]
    /\ fslot \in [Space -> Slot]
    /\ fwrite \in [Space -> BOOLEAN]
    /\ vp \in [Space -> PageObj \cup {NoPage}]
    /\ nvp \in [Space -> PageObj \cup {NoPage}]
    /\ faults \in 0..MaxFaults

\* The references a page has: the slots mapping it, the inode cache entry,
\* and the faults in progress that hold one (the lookup's, when it takes
\* one; an inode lookup's; a new page not yet in its slot).
InFlight(s, q) ==
    \/ pc[s] \in {"promote", "reject"} /\ vp[s] = q /\ LookupTakesRef
    \/ pc[s] \in {"inodelock", "read", "dup"} /\ vp[s] = q
    \/ pc[s] = "assign" /\ nvp[s] = q

Holders(q) ==
    Cardinality({si \in Space \X Slot : slot[si[1]][si[2]] = q})
    + (IF \E i \in Slot : cache[i] = q THEN 1 ELSE 0)
    + Cardinality({s \in Space : InFlight(s, q)})

(* Spec invariant 6: the reference count of every VM page equals its       *)
(* holders.  It depends on LookupVAddrAndLock, PromotePage,                *)
(* AssignPageToVirtualAddress, the reject path and the dentry-backed path  *)
(* of HandleFault agreeing on who drops which reference.                   *)
RefcountMatchesHolders == \A q \in PageObj : refcount[q] = Holders(q)

(* No page is freed while something still refers to it: a page's count    *)
(* never falls below its holders, across concurrent faults of a parent and *)
(* its clone on the pages they share (PromotePage's Deref, then            *)
(* AssignPageToVirtualAddress's Lock and Deref of the page it replaces).   *)
RefcountCoversHolders == \A q \in PageObj : refcount[q] >= Holders(q)

(* A mapped page has its content: no fault maps a dentry-backed page       *)
(* whose read another fault is still doing (GetDEntryBackedPage holds the  *)
(* page lock while reading, and a second fault waits for the lock and      *)
(* then finds Pending clear).                                              *)
MappedPagesFilled ==
    \A s \in Space, i \in Slot :
        slot[s][i] # NoPage => filled[slot[s][i]] /\ ~pending[slot[s][i]]

(* Copy-on-write isolation (spec 4.7, spec 8): a page mapped writable is  *)
(* mapped by that slot alone, so a write through one space never shows in  *)
(* the other.  It takes clone's read-only remapping of both spaces and     *)
(* PromotePage handing the writer a copy, across a clone and faults of     *)
(* both spaces in any order.                                               *)
WritableNotShared ==
    \A s \in Space, i \in Slot :
        writable[s][i] =>
            \A t \in Space, j \in Slot : slot[t][j] = slot[s][i] => <<t, j>> = <<s, i>>

==============================================================================
