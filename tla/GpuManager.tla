------------------------------ MODULE GpuManager ------------------------------
(***************************************************************************)
(* gpu_comm.c: the part of the manager that serves the GPU.  The guest     *)
(* asks for one action at a time over the escape page and stands still     *)
(* meanwhile, so an action is one step.  The manager keeps a table of gdev *)
(* handles, indexed by the descriptors it gives to the guest, and copies   *)
(* between guest pages and the device through buffers of its own.          *)
(*                                                                         *)
(* External: the gdev driver in the guest, which asks for what its open    *)
(* files allow, with page lists that cover the size it asks for; gdev on   *)
(* the host, which may refuse.                                             *)
(***************************************************************************)
EXTENDS Integers, Sequences, FiniteSets, SequencesExt

CONSTANTS
  HandlesMax,    \* gdev_handles_max
  MaxOpens,      \* bound on calls of gopen
  MaxWork,       \* bound on copies, kernels and writes of the guest
  PageBytes,     \* bytes of a page
  GpuPages,      \* guest pages a buffer may consist of
  KnownPages,    \* those the manager has a mapping for
  DevSize,       \* bytes of device memory of a handle
  GpuFaults,     \* what may go wrong: "gdev", "copy", "reboot"
  GpuCopies,     \* the copies the guest asks for: [at, size, pages]
  NoHandle

ASSUME GpuConstants ==
  /\ {HandlesMax, MaxOpens, MaxWork, DevSize} \subseteq Nat /\ PageBytes \in Nat \ {0}
  /\ KnownPages \subseteq GpuPages /\ NoHandle \notin Nat
  /\ \A c \in GpuCopies :
       /\ IsInjective(c.pages) /\ c.pages \in Seq(GpuPages)
       /\ c.at \in Nat /\ c.size \in 1..Len(c.pages) * PageBytes
       /\ c.at + c.size <= DevSize

VARIABLES
  handles,    \* gdev_handles, with one entry behind its end
  handleI,    \* gdev_handle_i
  opened,     \* handles gopen has returned so far; a handle is its number
  live,       \* handles open in gdev
  alloc,      \* handles whose device memory is allocated
  files,      \* the guest's open files: [fd, h], h the handle of its gopen
  memory,     \* the guest's pages, a sequence of bytes each
  device,     \* the device memory of every handle
  meant,      \* history: guest and device memory as the guest's calls mean them
  heap,       \* whether the manager has lost a buffer, freed one twice
  work,       \* copies, kernels and writes of the guest so far
  torn        \* history: handles given up while open, table overrun

gpuVars == <<handles, handleI, opened, live, alloc, files, memory, device, meant, heap, work, torn>>

Table == 0..HandlesMax - 1

GpuInit ==
  /\ handles = [i \in 0..HandlesMax |-> NoHandle] /\ handleI = 0
  /\ opened = 0 /\ live = {} /\ alloc = {} /\ files = {}
  /\ memory = [p \in GpuPages |-> [b \in 1..PageBytes |-> 0]]
  /\ device = [h \in 1..MaxOpens |-> [b \in 1..DevSize |-> 0]]
  /\ meant = [memory |-> memory, device |-> device]
  /\ heap = [lost |-> FALSE, twice |-> FALSE]
  /\ work = 0
  /\ torn = [handles |-> {}, table |-> FALSE]

Strikes(fault) == fault \in GpuFaults

Work == work < MaxWork /\ work' = work + 1

--------------------------------------------------------------------------------
(* The table of handles                                                    *)

\* FH_ACTION_SETUP: the driver of a guest is loaded.  Handles of a guest that
\* went away without a teardown are forgotten and stay open.
Setup ==
  /\ files = {}
  /\ torn' = [torn EXCEPT !.handles = @ \cup ({handles[i] : i \in Table} \ {NoHandle})]
  /\ handles' = [i \in 0..HandlesMax |-> IF i \in Table THEN NoHandle ELSE handles[i]]
  /\ handleI' = 0
  /\ UNCHANGED <<opened, live, alloc, files, memory, device, meant, heap, work>>

\* FH_ACTION_TEARDOWN: the driver is unloaded.  A gclose that fails is not
\* noticed: the entry is given up.
Teardown ==
  LET held == {handles[i] : i \in Table} \ {NoHandle}
  IN /\ files = {}
     /\ \E failed \in SUBSET (IF Strikes("gdev") THEN held ELSE {}) :
          /\ live' = live \ (held \ failed) /\ alloc' = alloc \ (held \ failed)
          /\ torn' = [torn EXCEPT !.handles = @ \cup failed]
     /\ handles' = [i \in 0..HandlesMax |-> IF i \in Table THEN NoHandle ELSE handles[i]]
     /\ handleI' = 0
     /\ UNCHANGED <<opened, files, memory, device, meant, heap, work>>

\* The guest goes down with its files and comes back.
Reboot ==
  /\ Strikes("reboot")
  /\ files' = {}
  /\ UNCHANGED <<handles, handleI, opened, live, alloc, memory, device, meant, heap, work, torn>>

\* FH_ACTION_OPEN_DEVICE.  The index only grows, to the end of the table and
\* past it.  A gopen that fails leaves everything as it was.
OpenDev ==
  /\ opened < MaxOpens /\ handleI <= HandlesMax
  /\ LET h == opened + 1
     IN /\ opened' = h /\ live' = live \cup {h}
        /\ handles' = [handles EXCEPT ![handleI] = h]
        /\ files' = files \cup {[fd |-> handleI, h |-> h]}
  /\ handleI' = handleI + 1
  /\ torn' = [torn EXCEPT !.table = @ \/ handleI >= HandlesMax]
  /\ UNCHANGED <<alloc, memory, device, meant, heap, work>>

\* util__get_gdev_handle
Get(fd) == IF fd \in 0..handleI - 1 THEN handles[fd] ELSE NoHandle

\* Faulty variant: the table shrinks with every close.
CloseDevShrinks(f) ==
  LET h == Get(f.fd)
  IN /\ h # NoHandle
     /\ files' = files \ {f}
     /\ handles' = [handles EXCEPT ![f.fd] = NoHandle]
     /\ handleI' = handleI - 1
     /\ live' = live \ {h} /\ alloc' = alloc \ {h}
     /\ UNCHANGED <<opened, memory, device, meant, heap, work, torn>>

\* FH_ACTION_CLOSE_DEVICE.  The entry is given up even when gclose fails.
CloseDev(f) ==
  LET h == Get(f.fd)
  IN /\ h # NoHandle
     /\ files' = files \ {f}
     /\ handles' = [handles EXCEPT ![f.fd] = NoHandle]
     /\ \/ /\ live' = live \ {h} /\ alloc' = alloc \ {h}
           /\ UNCHANGED torn
        \/ /\ Strikes("gdev")
           /\ torn' = [torn EXCEPT !.handles = @ \cup {h}]
           /\ UNCHANGED <<live, alloc>>
     /\ UNCHANGED <<handleI, opened, memory, device, meant, heap, work>>

--------------------------------------------------------------------------------
(* FH_ACTION_IOCTL                                                         *)

\* GTUNE, GQUERY, GVIRTGET, GSYNC and GBARRIER pass their arguments to gdev and
\* its answer back; an unknown command, or a closed descriptor, is refused.
Asks(f) == UNCHANGED gpuVars

\* GMALLOC, GFREE.  What gdev refuses is reported as success, with an address
\* (a size) of 0.
Gmalloc(f) ==
  /\ Get(f.fd) # NoHandle
  /\ alloc' \in {alloc \cup {Get(f.fd)}} \cup (IF Strikes("gdev") THEN {alloc} ELSE {})
  /\ UNCHANGED <<handles, handleI, opened, live, files, memory, device, meant, heap, work, torn>>

Gfree(f) ==
  /\ Get(f.fd) # NoHandle
  /\ alloc' = alloc \ {Get(f.fd)}
  /\ UNCHANGED <<handles, handleI, opened, live, files, memory, device, meant, heap, work, torn>>

\* GLAUNCH: a kernel works on the device memory of its handle.
Launch(f) ==
  LET step(m) == [b \in 1..DevSize |-> (m[b] + 1) % 3]
  IN /\ Get(f.fd) \in alloc
     /\ Work
     /\ device' = [device EXCEPT ![Get(f.fd)] = step(@)]
     /\ meant' = [meant EXCEPT !.device[f.h] = step(@)]
     /\ UNCHANGED <<handles, handleI, opened, live, alloc, files, memory, heap, torn>>

\* The bytes of a copy that stand for page i of its list.
Part(c, i) == {k \in 1..c.size : (i - 1) * PageBytes < k /\ k <= i * PageBytes}

\* Where byte k of a copy lies in its page.
InPage(k) == ((k - 1) % PageBytes) + 1

\* How many pages of a list are copied: all of them or, if the manager does
\* not know a page or the copy of one fails, those before it.
Copied(c) ==
  {n \in 0..Len(c.pages) :
     /\ \A i \in 1..n : c.pages[i] \in KnownPages
     /\ n = Len(c.pages) \/ c.pages[n + 1] \notin KnownPages \/ Strikes("copy")}

\* util__copy_from_target: the buffer, page by page.
FromTarget(c) ==
  [k \in 1..c.size |->
     LET i == CHOOSE j \in DOMAIN c.pages : k \in Part(c, j)
     IN memory[c.pages[i]][InPage(k)]]

\* Faulty variant: every page is filled from the start of the buffer.
ToTargetFromStart(c, buf, n) ==
  [p \in GpuPages |->
     [b \in 1..PageBytes |->
        IF b <= c.size /\ \E i \in 1..n : c.pages[i] = p THEN buf[b] ELSE memory[p][b]]]

\* util__copy_to_target: guest memory once n pages are copied.
ToTarget(c, buf, n) ==
  [p \in GpuPages |->
     [b \in 1..PageBytes |->
        LET at == {k \in 1..c.size : InPage(k) = b /\ \E i \in 1..n : c.pages[i] = p /\ k \in Part(c, i)}
        IN IF at = {} THEN memory[p][b] ELSE buf[Max(at)]]]

\* What the guest means by its buffer, and by assigning to it: the bytes of
\* its pages one after the other, byte k at offset k - 1.
GuestBuffer(mem, c) ==
  [k \in 1..c.size |-> mem[c.pages[(k - 1) \div PageBytes + 1]][InPage(k)]]

Assigned(mem, c, buf) ==
  [p \in GpuPages |->
     [b \in 1..PageBytes |->
        IF \E i \in DOMAIN c.pages : c.pages[i] = p /\ (i - 1) * PageBytes + b <= c.size
        THEN buf[((CHOOSE i \in DOMAIN c.pages : c.pages[i] = p) - 1) * PageBytes + b]
        ELSE mem[p][b]]]

DeviceRange(dev, c) == SubSeq(dev, c.at + 1, c.at + c.size)

ReplaceRange(dev, c, buf) ==
  [b \in 1..DevSize |-> IF b - c.at \in 1..c.size THEN buf[b - c.at] ELSE dev[b]]

\* GMEMCPY_TO_DEVICE.  When the copy from the guest fails the buffer is lost;
\* gdev refuses an address it has not allocated.
MemcpyToDev(f, c) ==
  LET h == Get(f.fd)
  IN /\ h # NoHandle
     /\ Work
     /\ \E n \in Copied(c) :
          IF n < Len(c.pages)
          THEN heap' = [heap EXCEPT !.lost = TRUE] /\ UNCHANGED <<device, meant>>
          ELSE /\ h \in alloc
               /\ device' = [device EXCEPT ![h] = ReplaceRange(@, c, FromTarget(c))]
               /\ meant' = [meant EXCEPT !.device[f.h] =
                              ReplaceRange(@, c, GuestBuffer(meant.memory, c))]
               /\ UNCHANGED heap
     /\ UNCHANGED <<handles, handleI, opened, live, alloc, files, memory, torn>>

\* GMEMCPY_FROM_DEVICE.  The helper allocates a buffer it does not use and
\* loses it; when it fails it frees the caller's buffer, and so does the caller.
\* What a failed call leaves in the guest's buffer is not promised.
MemcpyFromDev(f, c) ==
  LET h == Get(f.fd)
  IN /\ h \in alloc
     /\ Work
     /\ \E n \in Copied(c) :
          /\ memory' = ToTarget(c, DeviceRange(device[h], c), n)
          /\ meant' = [meant EXCEPT !.memory =
               IF n < Len(c.pages) THEN memory'
               ELSE Assigned(@, c, DeviceRange(meant.device[f.h], c))]
          /\ heap' = [lost |-> TRUE, twice |-> heap.twice \/ n < Len(c.pages)]
     /\ UNCHANGED <<handles, handleI, opened, live, alloc, files, device, torn>>

\* A program of the guest fills a page.
GuestWrites(p) ==
  /\ Work
  /\ memory' = [memory EXCEPT ![p] = [b \in 1..PageBytes |-> b % 3]]
  /\ meant' = [meant EXCEPT !.memory[p] = memory'[p]]
  /\ UNCHANGED <<handles, handleI, opened, live, alloc, files, device, heap, torn>>

GpuNext ==
  \/ Setup \/ Teardown \/ Reboot \/ OpenDev
  \/ \E f \in files :
       \/ CloseDev(f) \/ Gmalloc(f) \/ Gfree(f) \/ Launch(f) \/ Asks(f)
       \/ \E c \in GpuCopies : MemcpyToDev(f, c) \/ MemcpyFromDev(f, c)
  \/ \E p \in GpuPages : GuestWrites(p)

GpuSpec == GpuInit /\ [][GpuNext]_gpuVars

--------------------------------------------------------------------------------
(* Properties                                                              *)

\* Every file of the guest leads to the handle of its own gopen, and that
\* handle is open; every other handle gdev holds for the manager is one that a
\* guest without teardown, or a gclose that failed, left behind.  As long as no
\* open has run over the table (gpu_comm.c:623).
HandleOwn ==
  ~torn.table =>
    /\ \A f \in files : Get(f.fd) = f.h /\ f.h \in live
    /\ \A h \in live : h \in torn.handles \/ \E i \in 0..handleI - 1 : handles[i] = h

\* Whatever the order of opens, copies and kernels, the device memory of every
\* handle and the guest's pages hold what the calls of the guest mean: every
\* byte of a buffer lands at its place, no byte of another page or of another
\* handle changes.  As long as no open has run over the table.
CopyExact == ~torn.table => memory = meant.memory /\ device = meant.device

================================================================================
