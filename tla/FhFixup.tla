------------------------------- MODULE FhFixup -------------------------------
(***************************************************************************)
(* fh_fixup_mod.c, the kernel module that puts pages of its caller into    *)
(* the address space of another process, and fh_fixup.c, the library       *)
(* before it.  MAP works page by page: look the page up, have a worker     *)
(* change the protection, look it up again, find its page table entry and  *)
(* that of the source, keep the entry, clear it and map the caller's frame.*)
(* The vma and the entry are used after the lock is given back, so every   *)
(* one of these is a step and the target's threads run in between.  UNMAP  *)
(* walks the kept entries.  The locks taken, and those a return leaves     *)
(* behind, are those of the target.                                        *)
(*                                                                         *)
(* External: the memory management of the kernel; the target, which may    *)
(* fault pages in and unmap them, but maps none anew.  The caller has      *)
(* touched its source pages: resolve_vm does not ask whether they are      *)
(* present.                                                                *)
(***************************************************************************)
EXTENDS Integers, Sequences, FiniteSets, SequencesExt

CONSTANTS
  Callers,       \* mappings asked for, each with its own file and handle;
                 \* a process with two mappings is two callers
  SelfCallers,   \* those whose target is their own process
  TargetPages,   \* page numbers of the target
  Untouched,     \* those that have no page table yet
  Loose,         \* those the target may unmap
  Requests,      \* [Callers -> set of lists of target pages]
  Threads,       \* users of the target's address space
  MaxMaps,       \* bound on MAP calls
  FixFaults      \* what may go wrong: "memory", "source", "remap", "load"

ASSUME FixConstants ==
  /\ SelfCallers \subseteq Callers /\ TargetPages \subseteq Nat
  /\ Untouched \cup Loose \subseteq TargetPages /\ Threads \in Nat \ {0} /\ MaxMaps \in Nat
  /\ \A c \in Callers : \A list \in Requests[c] :
       list # <<>> /\ IsInjective(list) /\ list \in Seq(TargetPages)
  /\ {"own", "none"} \cap Callers = {}   \* the tags of frames that are no caller's

VARIABLES
  fixMod,   \* the module: "out", "in", "dead": not loaded, its device registered
  busy,     \* device_busy
  tvma,     \* pages of the target that lie in a vma
  pte,      \* page table of the target
  users,    \* mm_users of the target
  tlock,    \* mmap_lock of the target: read locks that nobody gives back, write lock
  fix,      \* the callers
  maps,     \* MAP calls so far
  wild      \* memory has been used that was given back: a vma or a page table

fixVars == <<fixMod, busy, tvma, pte, users, tlock, fix, maps, wild>>

\* Frames: the target's own, the callers' sources, none.
Own(p)    == <<"own", p>>
Source(c, i) == <<c, i>>
Cleared   == <<"none", 0>>
NoTable   == <<"none", 1>>   \* not even a page table

\* target_entries: what MAP keeps of every page it has replaced, and of the
\* page at hand; stale: the vma that MAP has found is not that of the page any
\* more.
Fixed == [pc |-> "closed", list |-> <<>>, i |-> 0, split |-> FALSE, entries |-> <<>>,
          kept |-> Cleared, stale |-> FALSE]

FixInit ==
  /\ fixMod = "out" /\ busy = FALSE
  /\ tvma = TargetPages
  /\ pte = [p \in TargetPages |-> IF p \in Untouched THEN NoTable ELSE Own(p)]
  /\ users = Threads
  /\ tlock = [readers |-> 0, writer |-> FALSE]
  /\ fix = [c \in Callers |-> Fixed]
  /\ maps = 0 /\ wild = FALSE

FaultOf(kind) == kind \in FixFaults

--------------------------------------------------------------------------------
(* The module and its files                                                *)

\* fh_fixup_init.  A symbol that is not found fails it after misc_register,
\* which is not undone.
FixLoad ==
  /\ fixMod = "out"
  /\ fixMod' \in {"in"} \cup (IF FaultOf("load") THEN {"out", "dead"} ELSE {})
  /\ UNCHANGED <<busy, tvma, pte, users, tlock, fix, maps, wild>>

FixExit ==
  /\ fixMod = "in" /\ \A c \in Callers : fix[c].pc = "closed"
  /\ fixMod' = "out"
  /\ UNCHANGED <<busy, tvma, pte, users, tlock, fix, maps, wild>>

\* fops_open refuses nobody: the test of device_busy is compiled out.
FixOpen(c) ==
  /\ fixMod = "in" /\ fix[c].pc = "closed"
  /\ busy' = TRUE /\ fix' = [fix EXCEPT ![c].pc = "idle"]
  /\ UNCHANGED <<fixMod, tvma, pte, users, tlock, maps, wild>>

FixRelease(c) ==
  /\ fix[c].pc = "idle"
  /\ busy' = FALSE /\ fix' = [fix EXCEPT ![c] = Fixed]
  /\ UNCHANGED <<fixMod, tvma, pte, users, tlock, maps, wild>>

--------------------------------------------------------------------------------
(* FH_FIXUP_IOCTL_MAP                                                      *)

\* The list is copied, the room for the entries allocated, the target and the
\* vma of the source looked up.  (What the early returns leave allocated is not
\* part of the state.)  A missing vma returns with the lock of the caller's own
\* address space held, which is the target's for a caller that is its target.
MapBegin(c, list) ==
  /\ fix[c].pc = "idle" /\ fix[c].entries = <<>> /\ maps < MaxMaps
  /\ c \in SelfCallers => ~tlock.writer
  /\ maps' = maps + 1
  /\ \/ /\ fix' = [fix EXCEPT ![c] = [Fixed EXCEPT !.pc = "lookup", !.list = list]]
        /\ UNCHANGED tlock
     \/ FaultOf("memory") /\ UNCHANGED <<fix, tlock>>
     \/ /\ FaultOf("source")
        /\ tlock' = [tlock EXCEPT !.readers = IF c \in SelfCallers THEN @ + 1 ELSE @]
        /\ UNCHANGED fix
  /\ UNCHANGED <<fixMod, busy, tvma, pte, users, wild>>

\* pages_continuous
Continuous(list) == \A i \in 1..Len(list) - 1 : list[i] + 1 = list[i + 1]

Page(c) == fix[c].list[fix[c].i + 1]

\* A return of MAP that says the call failed: the library forgets the request,
\* and with it the entries.
Forgotten(c) == [fix[c] EXCEPT !.pc = "idle", !.entries = <<>>, !.kept = Cleared, !.stale = FALSE]

Failed(c) == fix' = [fix EXCEPT ![c] = Forgotten(c)]

\* The vma of the page is looked up under the read lock, which is kept when
\* there is none.
Lookup(c) ==
  /\ fix[c].pc = "lookup" /\ ~tlock.writer
  /\ IF Page(c) \in tvma
     THEN /\ fix' = [fix EXCEPT ![c].pc =
                       IF Continuous(fix[c].list) /\ fix[c].split THEN "again" ELSE "protect"]
          /\ UNCHANGED tlock
     ELSE Failed(c) /\ tlock' = [tlock EXCEPT !.readers = @ + 1]
  /\ UNCHANGED <<fixMod, busy, tvma, pte, users, maps, wild>>

\* Callers that hold a vma of the target behind the unlock.
Holders == {d \in Callers : fix[d].pc \in {"resolve", "source", "save", "clear", "remap"}}

\* The callers f, with the vmas of gone split, merged or freed.
Without(f, gone) == [d \in Callers |-> IF d \in gone THEN [f[d] EXCEPT !.stale = TRUE] ELSE f[d]]

\* protect_pid: for another process, a worker that borrows its address space
\* calls mprotect, which takes the write lock and may split and merge vmas
\* others hold.  mmput gives back a reference that get_mm has not taken; the
\* last one ends the address space.
Protect(c) ==
  LET range == Page(c)..Page(c) + Len(fix[c].list) - 1
      left  == IF c \in SelfCallers THEN users ELSE users - 1
      mine  == IF range \subseteq tvma THEN [fix[c] EXCEPT !.pc = "again", !.split = TRUE]
                                       ELSE Forgotten(c)
  IN /\ fix[c].pc = "protect" /\ tlock.readers = 0 /\ ~tlock.writer
     /\ users' = left
     /\ IF left = 0
        THEN /\ tvma' = {} /\ pte' = [p \in TargetPages |-> NoTable]
             /\ fix' = Without([fix EXCEPT ![c] = mine], Holders)
        ELSE /\ UNCHANGED <<tvma, pte>>
             /\ \E gone \in SUBSET Holders : fix' = Without([fix EXCEPT ![c] = mine], gone)
     /\ UNCHANGED <<fixMod, busy, tlock, maps, wild>>

\* The second lookup, as the first.
LookupAgain(c) ==
  /\ fix[c].pc = "again" /\ ~tlock.writer
  /\ IF Page(c) \in tvma
     THEN fix' = [fix EXCEPT ![c].pc = "resolve"] /\ UNCHANGED tlock
     ELSE Failed(c) /\ tlock' = [tlock EXCEPT !.readers = @ + 1]
  /\ UNCHANGED <<fixMod, busy, tvma, pte, users, maps, wild>>

\* resolve_vm finds the entry of the page.
Resolves(p) == pte[p] # NoTable

\* resolve_vm of the target and of the source, each under the read lock of its
\* own address space.
ResolveTarget(c) ==
  /\ fix[c].pc = "resolve" /\ ~tlock.writer
  /\ IF Resolves(Page(c)) THEN fix' = [fix EXCEPT ![c].pc = "source"] ELSE Failed(c)
  /\ UNCHANGED <<fixMod, busy, tvma, pte, users, tlock, maps, wild>>

ResolveSource(c) ==
  /\ fix[c].pc = "source" /\ (c \in SelfCallers => ~tlock.writer)
  /\ fix' = [fix EXCEPT ![c].pc = "save"] \/ (FaultOf("source") /\ Failed(c))
  /\ UNCHANGED <<fixMod, busy, tvma, pte, users, tlock, maps, wild>>

\* The entry is read and cleared through the pointer that resolve_vm has left,
\* under no lock.  A page table that is gone meanwhile is somebody else's
\* memory.
SaveEntry(c) ==
  /\ fix[c].pc = "save"
  /\ fix' = [fix EXCEPT ![c].pc = "clear", ![c].kept = pte[Page(c)]]
  /\ wild' = (wild \/ ~Resolves(Page(c)))
  /\ UNCHANGED <<fixMod, busy, tvma, pte, users, tlock, maps>>

ClearEntry(c) ==
  LET p == Page(c)
  IN /\ fix[c].pc = "clear"
     /\ fix' = [fix EXCEPT ![c].pc = "remap"]
     /\ pte' = IF Resolves(p) THEN [pte EXCEPT ![p] = Cleared] ELSE pte
     /\ wild' = (wild \/ ~Resolves(p))
     /\ UNCHANGED <<fixMod, busy, tvma, users, tlock, maps>>

\* Faulty variant: the source address does not advance.
SourcePageFirst(c) == Source(c, 1)

\* The source page that belongs to the page at hand.
SourcePage(c) == Source(c, fix[c].i + 1)

\* The page is done; behind the last one the entries become the handle of the
\* mapping.
PageDone(c) ==
  fix' = [fix EXCEPT ![c] =
            [fix[c] EXCEPT !.entries = Append(fix[c].entries, fix[c].kept), !.i = fix[c].i + 1,
                           !.pc = IF fix[c].i + 1 = Len(fix[c].list) THEN "idle" ELSE "lookup",
                           !.kept = Cleared, !.stale = FALSE]]

Oops(c) == fix' = [fix EXCEPT ![c].pc = "oops"]

\* The flags of the vma are written and remap_pfn_range puts the frame of the
\* source into the entry.  It dies on an entry that is not empty: the target
\* has faulted the page in, or another caller has mapped his.  With a vma that
\* is gone anything may come of it.
Remap(c) ==
  LET p == Page(c)
      there == [pte EXCEPT ![p] = SourcePage(c)]
  IN /\ fix[c].pc = "remap"
     /\ \/ ~fix[c].stale /\ pte[p] = Cleared /\ pte' = there /\ PageDone(c)
        \/ ~fix[c].stale /\ FaultOf("remap") /\ UNCHANGED pte /\ Failed(c)
        \/ ~fix[c].stale /\ pte[p] # Cleared /\ UNCHANGED pte /\ Oops(c)
        \/ fix[c].stale /\ pte' \in {pte, there} /\ (PageDone(c) \/ Failed(c) \/ Oops(c))
     /\ wild' = (wild \/ fix[c].stale)
     /\ UNCHANGED <<fixMod, busy, tvma, users, tlock, maps>>

--------------------------------------------------------------------------------
(* FH_FIXUP_IOCTL_UNMAP                                                    *)

UnmapBegin(c) ==
  /\ fix[c].pc = "idle" /\ fix[c].entries # <<>>
  /\ fix' = [fix EXCEPT ![c].pc = "unmap", ![c].i = 0]
  /\ UNCHANGED <<fixMod, busy, tvma, pte, users, tlock, maps, wild>>

\* Faulty variant: the write lock is not released.
UnmapPageKeepsLock(c) ==
  LET last == fix[c].i + 1 = Len(fix[c].list)
  IN /\ fix[c].pc = "unmap" /\ tlock.readers = 0 /\ ~tlock.writer
     /\ tlock' = [tlock EXCEPT !.writer = TRUE]
     /\ fix' = [fix EXCEPT ![c] = IF last THEN [Fixed EXCEPT !.pc = "idle"]
                                          ELSE [fix[c] EXCEPT !.i = @ + 1]]
     /\ UNCHANGED <<fixMod, busy, tvma, pte, users, maps, wild>>

\* Under the write lock the entry is looked up and the TLB flushed: the kept
\* entry is not written back.  Behind the last page the entries are freed.  The
\* lookup reports a missing table by 1, which is not < 0: the entry is read
\* through a null pointer.
UnmapPage(c) ==
  LET last == fix[c].i + 1 = Len(fix[c].list)
  IN /\ fix[c].pc = "unmap" /\ tlock.readers = 0 /\ ~tlock.writer
     /\ IF ~Resolves(Page(c))
        THEN /\ Oops(c)
             /\ tlock' = [tlock EXCEPT !.writer = TRUE]
        ELSE /\ fix' = [fix EXCEPT ![c] = IF last THEN [Fixed EXCEPT !.pc = "idle"]
                                                 ELSE [fix[c] EXCEPT !.i = @ + 1]]
             /\ UNCHANGED tlock
     /\ UNCHANGED <<fixMod, busy, tvma, pte, users, maps, wild>>

\* The target unmaps a page, which may free its page table and split the vma
\* of others, or touches one that is not present.
TargetUnmaps(p) ==
  LET there == {d \in Holders : Page(d) = p}
  IN /\ users > 0 /\ p \in Loose \cap tvma /\ tlock.readers = 0 /\ ~tlock.writer
     /\ tvma' = tvma \ {p}
     /\ \E left \in {Cleared, NoTable} : pte' = [pte EXCEPT ![p] = left]
     /\ \E others \in SUBSET Holders : fix' = Without(fix, there \cup others)
     /\ UNCHANGED <<fixMod, busy, users, tlock, maps, wild>>

TargetTouches(p) ==
  /\ users > 0 /\ p \in tvma /\ pte[p] \in {Cleared, NoTable} /\ ~tlock.writer
  /\ pte' = [pte EXCEPT ![p] = Own(p)]
  /\ UNCHANGED <<fixMod, busy, tvma, users, tlock, fix, maps, wild>>

Works(c) ==
  \/ Lookup(c) \/ Protect(c) \/ LookupAgain(c) \/ ResolveTarget(c) \/ ResolveSource(c)
  \/ SaveEntry(c) \/ ClearEntry(c) \/ Remap(c) \/ UnmapPage(c)

FixNext ==
  \/ FixLoad \/ FixExit
  \/ \E c \in Callers :
       \/ FixOpen(c) \/ FixRelease(c) \/ UnmapBegin(c) \/ Works(c)
       \/ \E list \in Requests[c] : MapBegin(c, list)
  \/ \E p \in TargetPages : TargetUnmaps(p) \/ TargetTouches(p)

FixSpec == FixInit /\ [][FixNext]_fixVars

--------------------------------------------------------------------------------
(* Properties                                                              *)

\* What may stand in the entry of a page.
Possible(p) ==
  {Own(p), Cleared, NoTable}
    \cup UNION {UNION {{Source(c, i) : i \in {j \in DOMAIN list : list[j] = p}} :
                         list \in Requests[c]} : c \in Callers}

\* Another caller may ask for the page.
Contested(c, p) == \E d \in Callers \ {c} : \E list \in Requests[d] : p \in Range(list)

\* A page of the target shows its own frame or the source page that stands at
\* its position in somebody's list, and MAP keeps only such entries.  A page
\* that MAP has replaced shows that caller's source page until UNMAP and longer,
\* unless the target unmaps it or another caller asks for it.  As long as the
\* address space of the target lives and no step of MAP has worked on a vma or
\* a page table that was given back behind its unlock (fh_fixup_mod.c:583, 623).
FixupExact ==
  users > 0 /\ ~wild =>
    /\ \A p \in TargetPages : pte[p] \in Possible(p)
    /\ \A c \in Callers : \A i \in DOMAIN fix[c].entries :
         LET p == fix[c].list[i]
         IN /\ fix[c].entries[i] \in Possible(p) \ {NoTable}
            /\ p \in tvma /\ ~Contested(c, p) => pte[p] = Source(c, i)

InCall == {"lookup", "protect", "again", "resolve", "source", "save", "clear", "remap", "unmap"}

\* Every MAP and UNMAP returns, unless an earlier one has left the target's lock
\* taken (fh_fixup_mod.c:529, 549, 580) or ended its address space (402), or
\* one has died in the kernel: MAP over a page faulted in between 647 and 666,
\* UNMAP over a page whose table the target has given back (758, with the
\* write lock).
FixupReturns ==
  \A c \in Callers :
    fix[c].pc \in InCall
      ~> (\/ fix[c].pc = "idle" \/ tlock.readers > 0 \/ users = 0
          \/ \E d \in Callers : fix[d].pc = "oops")

================================================================================
