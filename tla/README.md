# Verification of the ACAI accelerator path

ACAI runs confidential VMs with accelerators on a simulated Arm CCA machine (the
FVP). The simulated machine has no PCIe device. Its driver (`xdma_stub`)
therefore *escapes*: it writes a request into a shared *escape page*, and a write
of the page's nonce word faults into the host, where a user space manager
carries out the request on the real device while the simulated machine stands
still. This directory models that path in TLA+, from the guest's file operations
over the manager down to the engines of the host's driver, and model-checks it with
TLC. The safety properties that the runs check, and the refinement of the abstract
specification, are also proved with TLAPS, for all values of the constants that the
named assumptions admit. A property names the circumstances in which the code does
not keep it; section 3 lists them all. All paths below are relative to `src/src/` of
the repository.

## 1. Inventory

| Part | Source | State | Operations |
|---|---|---|---|
| Escape protocol | `fpga_driver/fpga_escape_libhook/fpga_usr_manager.h` | header words `turn`, `action`, `nonce`; a union of request structures in `data` | - |
| Guest stub driver | `fpga_driver/xdma_stub/linux-kernel/xdma/{fvp_escape,cdev_sgdma}.c` | `faultdata_lock`, descriptor of each open file, pinned pages, progress of a transfer | open, close, DMA read/write, control read/write/ioctl, mmap; start-up (lookup of unmapped pages, verification) |
| Guest stub life cycle | `xdma_stub/.../{xdma_mod,xdma_cdev,cdev_ctrl}.c` | devices, character devices | probe, remove, creation of the device files |
| Manager, requests | `fpga_driver/fpga_escape_libhook/fpga_comm.c` | static transfer buffer, open descriptors | `on_fault` and its cases, `do_dma`, `do_action_transfer_escape_data` |
| Manager, listener | `fpga_driver/fh_host/fh_host.c` | trace enabled, mapped region, listener thread | poll loop, crash handler, map/unmap of regions, enable/disable |
| Manager, life | `fpga_driver/fpga_escape_libhook/usr_manager.c` | map from guest page to host address, two files | scan, save, restore, handshake with the booting guest, clean-up |
| Host XDMA driver, engines | `fpga_driver/xdma/linux-kernel/xdma/{libxdma,xdma_thread}.c` | transfer queue, descriptor ring, engine state, polling threads | submit, wait, abort, interrupt, work item, polling |
| Host XDMA driver, files | `.../{cdev_sgdma,cdev_ctrl,cdev_events,fvp_escape}.c` | pinned pages, open files, asynchronous calls | the manager's DMA and mmap ioctls, read, write, asynchronous I/O, tuning ioctls |
| Host XDMA driver, life | `.../{xdma_mod,xdma_cdev,libxdma}.c` | list of cards, what probing has acquired, device files | load, probe, remove, offline, online, error recovery |
| Device memory interception | `fpga_driver/devmem_intercept/*.c` | delegated pages | delegation of scatter lists, undelegation of all memory |
| Allocation hook | `fpga_driver/libhook/hook.c` | bump allocator | malloc replacement inside the FVP |
| GPU manager | `gpu_driver/gpu_gdev_usr_manager/gpu_comm.c` | table of gdev handles, copy buffers | setup, open, close, allocation, copies, kernels |
| GPU fix-up module | `gpu_driver/fh_fixup/**` | replaced page table entries of the target | MAP and UNMAP of pages into another process |
| Kernels, firmware, gdev, kvmtool | submodules, not in the repository | - | modelled only through what this code expects |

How the parts interact: a guest thread calls a file operation of the stub; the
stub fills the page, sets `turn = FH_TURN_HOST` and the action, and writes the
nonce. The faulthook kernel stops the FVP process and wakes the manager's
listener out of `poll()`. `on_fault` reads the request, calls the host XDMA
driver, writes the answer, sets `turn = FH_TURN_GUEST`; the listener's
`HOOK_COMPLETED` ioctl lets the FVP continue. Before all this the manager has
found the page by scanning the FVP's memory for tagged pages while the guest
kernel waits in its boot handshake.

The manager's DMA ioctl makes the host driver pin the FVP's pages behind the
page list, cut them into descriptors and queue transfers on an engine, whose
interrupt (or polling thread) completes them. Before the escape the guest's
mapping of the scatter list is intercepted and the pages are delegated to the
device. The GPU's manager follows the same scheme with gdev instead of XDMA.

What is hard: several guest threads share one page and one static buffer; a DMA
takes at least three escapes; the structures in the page overlay each other; the
manager can fail, be signalled or be restarted between any two steps; it edits
page tables that outlive a mistake; its two files are written one after the
other; the tags it learned from are gone once the guest runs. In the host driver
callers that time out, a device that still works, interrupts that are late, work
items and polling threads meet on one queue and one ring, and cards are removed
or reset under all of them. A buffer is rewritten as four lists in a row, each
with its own rounding and splitting.

What makes each part correct: *stub and request handler* - a DMA works on the
pages, file and direction of the call that asked for it, nothing is carried out
twice, success is reported only for what was done, every call returns.
*Manager life* - it never uses addresses of another FVP, knows all pages of the
guest it serves, can be restored once the guest runs, restores the page tables.
*Engines* - a transfer that is reported complete is complete, and the queue, the
ring and the buffers belong to requests that exist. *Life cycle* - what was
acquired is given back once, and nothing is used that is gone. *DMA path* - each
byte of the buffer meets its byte of the card. *Interception* - exactly the pages
of a list are delegated, and all of them are given back. *GPU manager* - handles
name live objects, copies stay in bounds.

`PROJECT.json` lists every component, the hazards at their lines and, for every
definition, the lines it models.

## 2. Modules

| Module | Models | State and actions |
|---|---|---|
| `EscapePage` | the page and the trap | `turn`, `action`, `area` (the data area, by the words that structures share), `fault` (whose nonce write is outstanding), `traced`; history `done`, `hit` |
| `XdmaStub` | guest file operations | per thread `pc`, `op`, `call`, `res`, `file`, `arg`, `tsize`, `remain`, `pinned`; `lock`. One action per stage of an operation: `Enter*`, `FdDataLock`, `Fill*`, `Arm`, `WriteNonce`, `Check*`, `Reply*`, `FdDataUnlock` |
| `FpgaComm` | `on_fault`, listener, end and start of a manager | `mgr`, `sig`, `xfer` (the static variables and the buffer's contents), `fdtab`, `starts`. One action per case and outcome |
| `EscapeChannel` | both sides composed | `Next`, `FairSpec`, the properties and the inductive invariants |
| `ManagerBoot` | `main`, scan, save, restore, page table editing | `mgr`, `map`, `alias`, `rec`, the two files; the guest's handshake; FVP restarts |
| `XdmaEngine` | one engine of the host driver: `libxdma.c`'s queue and interrupt service, `xdma_thread.c` | `eng`, `queue`, `xf`, `ring`; the device `hw`; `irq`, `poll`. `ChannelIrq`, `PollPick`, `PollRead`, `PollTimeout`, `HwNext`; the regions under `engine->lock` are operators named for their functions (`ServiceFinalTransfer`, `ServiceResume`, `EngineStart`) |
| `SgdmaFile` | its callers: waiting, asynchronous and cyclic transfers, offline and online | `call`, `desc_lock`, `caio`, `perf`. `Enter`, `LockDesc`, `Build`, `Submit`, `WakeThread`, `Wake`, `GiveUp`, `Check`, `Return`; `Aio*`; `Perf*`; `Offline`, `Online`; `ServiceWork`, `ServicePoll` |
| `TransferService` | abstract: what a caller of an engine is promised | `status`, `answer`, `work` |
| `XdmaTransfers` | both composed, their properties and the refinement mapping | `Next`, `FairSpec`, `Promise` |
| `XdmaNodes` | creation and destruction of a card's device files | operators on a record, used by both drivers |
| `XdmaDevice` | life of the host's module and cards, and who uses them meanwhile | `dev`, `list`, `threads`, `mod`, `files`. One action per step of probing, removal, offline and online, per interrupt and file operation |
| `StubLife` | life of the guest's stub driver | `stub` |
| `XdmaLife` | both drivers and their properties | `LifeNext` |
| `PageLists` | page chunks, ranges to delegate, scatter list, descriptors: the loops of the code as recursive functions of the number of rounds | operators |
| `DmaPath` | the way of one read or write from the user buffer to the card | `call`, `guestPins`, `hostPins`, `delegated`, `sweep` (an undelegation in progress), `escLock`, `descLock`, `descIdx`, `fixed`. One action per stage: `PinPages`, `Delegate`, `TakeEscape`, `MapRemote`, `MakeRequest`, `Build`, `CarryOut`, `Unmap`, `Leave`, and one per way to fail; `UndelegateStart`, `UndelegateSome`, `UndelegateEnd` at any time beside them |
| `GpuManager` | the GPU's manager | `handles`, `handleI`, `live`, `alloc`; guest and device memory. One action per request |
| `FhFixup` | the fix-up module and its library | `pte`, `tvma`, `users`, `tlock`, `fix`; history `wild`. `MapBegin`, `Lookup`, `Protect`, `LookupAgain`, `ResolveTarget`, `ResolveSource`, `SaveEntry`, `ClearEntry`, `Remap`; `UnmapBegin`, `UnmapPage`; `TargetTouches`, `TargetUnmaps` |
| `MCEscape`, `MCBoot`, `MCTransfers`, `MCLife`, `MCDma`, `MCGpu` | instances for TLC | - |
| `EscapeChannelProofs`, `ManagerBootProofs`, `GpuProofs`, `XdmaLifeProofs`, `XdmaTransfersProofs` | proofs about the module of that name (`GpuProofs`: `GpuManager` and `FhFixup`) | - |
| `PageListProofs`, `DmaPathProofs`, `DmaExactProofs` | proofs about `PageLists` and `DmaPath`, each on top of the one before | - |

Granularity: each write of the page that another thread or the host could see
in between is a step of its own (fill, arm, nonce; the memset of mmap). The
guest's steps require that no fault is outstanding, because the FVP simulates
all its cores in the process that is stopped. `on_fault` is one step except for
a DMA, which is two (`StartDma`, `FinishDma`/`FailDma`), so that things can
happen while the device works.

Abstractions: bytes of a page list are pairs of owner and offset, so that the
buffer's contents can be compared with what was meant; page frame numbers, user
addresses and device offsets are left out. The nonce's value is never read by
the host and is left out. `AllOnes` stands for the low half of a negative
`common.ret` read as a length. The trace file and time measurements are left out.
A control write copies its four bytes in one step. A fault whose trace is
disabled is released (external, as the code expects).

`ManagerBoot` treats a file by what reading it back yields: nothing, settings
whose last line is missing, complete settings, and any number of mappings. A
signal may hit `main` between any two steps. It excludes that an FVP is replaced
while a manager is attached to it and that a pid is reused. The guest side of the
handshake is external: a guest that no host has told to wait gives up and boots
`native`, a guest that waits does so until it is told to go on.

`XdmaEngine` takes every region under `engine->lock` as one step, because that
is what other actors can see; between regions everything interleaves. So
`transfer_queue` (`Submit`) and the wakeup of the polling thread behind its unlock
(`WakeThread`) are two steps, and so are the thread's look at the list (`PollCheck`)
and what it takes from it (`PollPick`). The exception is `Check`, which ends with
`transfer_destroy`, run by the code just after the unlock: it frees what only its
caller still knows. The device
is external: it walks the ring, may stop with an error and finishes the descriptor
it has when it is told to stop. `SgdmaFile`'s `load`, chosen at the start, says
which calls are made and what may go wrong, so that each guarantee can be stated
for the circumstances in which the code gives it; the same holds for the
situations of `XdmaDevice` and `DmaPath`. Streaming engines are left out.

`XdmaDevice` follows the thread that probes or removes a card through one program
counter. Removal and all error paths of `xdma_device_open` run through the same
releases from different points on, as in the code. `misuse` records accesses to
what is gone; what the kernel would do with them is left open. Going online may
find that interrupt lines cannot be had (`OnlinePartly`), which the code does not
look at; `partly` remembers it. `threads.lost` remembers polling threads that were
started before one could not be, and that nobody stops.

`DmaPath` composes what the other modules detail: an exchange over the escape
page (`EscapeChannel`) is one step, the engine (`XdmaEngine`) carries out a
transfer or fails. Addresses are numbers of bytes, so the lists are computed by
the code's own arithmetic. The undelegation of `devmem_undelegate.c` walks the
memory in chunks and asks nobody whether a DMA is in progress; a chunk whose
monitor call fails is reported and passed over. `blind` marks the calls that lost
their delegation.

In `GpuManager` a request is one step, because the guest stands still. `FhFixup`
follows MAP through every region under a lock and every access outside of one: the
two lookups of the vma, `mprotect` in a worker, the two page table walks, and then,
with no lock held, reading the entry, clearing it and `remap_pfn_range`. The target
faults pages in and unmaps them in between, which may free the page table (`NoTable`)
and make a vma that MAP holds `stale`; `wild` notes that MAP has used either after
that, from where on nothing is claimed. A call that dies in the kernel is `oops`. A
process with two mappings is two callers. The source pages are taken to be present
when MAP asks for them, and the page table lock that a kernel thread holds as it
dies is left out.

## 3. Runs

| Run | Question | Result |
|---|---|---|
| `escape_safety` | open, close and DMA from two threads, failures and one restart of the manager | `DmaIntegrity`, `ExactlyOnce`, `NoProtocolError`, `NoRequestDismissed`, `DmaOnOwnFile` hold (495,083 states) |
| `escape_live` | does every call return | `CallReturns` holds (114,841 states) |
| `escape_mixed` | mmap, ioctl and control write next to a DMA, signals at any moment | `TypeOK`, `LockedExclusive`, `TransferBounded` hold (3,171,454 states) |
| `boot_safety` | two FVPs, three starts of the manager, all failures and signals | `TypeOK`, `MapFaithful`, `MapCompleteBelowMax`, `Recoverable`, `StartServes` hold (324,512 states) |
| `transfers` | one engine, 18 situations: two waiting calls, asynchronous calls of one and two segments, one that is split again and again, the cyclic test, poll mode, errors, timeouts, a reset | `TypeOK`, `SuccessIsReal`, `QueueLive`, `DescriptorsIntact`, `NoFalseFailure`, `DeviceInBuffer`, `CompletionsLive`, the refinement `Promise`, `CallReturns`, `AioNotified` hold (96,635 states) |
| `device_life` | two cards or one, in 9 situations with a failure at every step, resets, unplugging, interrupts and an open file; the stub driver in 4 | `LifeTypeOK`, `Released`, `MemorySafe`, `NamesUnique`, `Serviceable` hold (532,747 states) |
| `dma_path` | reads and writes of two guest processes and a host process, good and bad requests, both addressing modes, failures, an undelegation at any moment (11 situations) | `DmaTypeOK`, `DmaExact`, `DescriptorsSound`, `PinsBalanced`, `AccessGranted`, `DelegatedExactly` hold (338,545 states) |
| `gpu` | a guest of the GPU manager that opens, copies, computes and reboots; two callers of the fix-up module and a target that faults and unmaps | `HandleOwn`, `CopyExact`, `FixupExact`, `FixupReturns` hold (582,023 states) |
| `escape_dismissed`, `escape_restart`, `boot_map_lost`, `boot_pte_leak` | statements of comments in the code | violated, see section 5 |

Bounds. Two threads are enough for every interference of a pair; the proofs
cover any number. A page list of three bytes with chunks of two needs two chunks,
the last one shorter (`escape_safety`, `escape_live`). Two descriptors let files
of both threads be open at once; in `escape_live` one descriptor makes an open
fail. Two starts of the manager give one restart at any point. `escape_mixed` runs
one manager, because a control write ends all progress. In `boot_safety` the
second FVP has a hole in its memory, `EntriesPerPage = 3` puts the last entry of
the second one's map behind the array's end, its first page lies outside the first
FVP, so that a map that is saved half-way is taken up by the other, and three starts allow a crash, a
restart in the same FVP and one in the next. `EscapePages = 1` keeps it small;
the two violation runs use 2, so that a region can be mapped half.

`transfers` has a ring of four descriptors and requests of one to three, so that
the second of two calls is split at the end of the ring, two requests together
can exceed it, and an asynchronous one between two others is split in three
(`AioOverrun`, which writes behind `tfer[2]`); one reset; counters modulo 16 for
the 32 bits. `device_life` probes
each function twice, so that a card comes back under the number and memory of an
earlier one. `dma_path` has pages of 4 bytes and descriptors of at most 5, so that
merged pages are cut across page borders, a ring of 4 fetched in blocks of 2, guest
pages out of order, shared, twice in a buffer, missing, and unknown to the manager,
and apertures of 4, 2 and 3 bytes; three calls in a row move the ring's index to every slot. The undelegation takes
the six pages in chunks of 4 and 2. `gpu` has a table of two
handles and three opens, so that the table overruns once, copies that end inside a
page, and for the fix-up lists in order, in reverse, across a page without a table
and at the end of the vma; two MAP calls (`MaxMaps`) let both callers be inside the
module at once, or one of them map again after an unmap. One page can be unmapped by
the target (`Loose`), which is enough for a vma and a table to vanish under each step.

Symmetry of the threads is used in `escape_safety` only, where both threads use
the same operations and no liveness is checked. Deadlock is checked in
`escape_safety` and `escape_live`. It is off in `escape_mixed`, where a control
write really stops the machine, and for `ManagerBoot`, which ends when no start
is left. It is off in the four runs of the host driver and the GPU, which end when
the calls, probes or opens are used up or the code is stuck as described below.

Fairness. `escape_live` assumes weak fairness for each step of a call that has
begun and for the listener, as threads that the kernel schedules, and strong
fairness for taking `faultdata_lock`, which on this kernel is a queued spinlock.
Nothing is assumed about calls, signals, failures or restarts. `boot_safety`
assumes that `main` runs and that a booting guest reaches the handshake.
`transfers` assumes that the driver's threads, work items and enabled interrupts
go on, that the device works, and that a wait with a timeout ends; `gpu` that a
caller inside the fix-up module is scheduled. Neither assumes that calls are made
or that nothing fails.

What the properties do not claim. The code has ways to go wrong that are part
of the models; a property then names the condition under which it is claimed. But
for resets in poll mode and layouts with the same checksum, the runs contain
behaviours outside of it:

- `escape_safety`, `escape_live`: `DmaOnOwnFile` is about the first manager process;
  after a restart it is false (`escape_restart`). `CallReturns` leaves out the control
  write, which spins on its own lock (`fvp_escape.c:368`). Signals meet the manager in
  `poll()`; those that do not are part of `escape_mixed`.
- `boot_safety`: the entry of the last page, when it is the one behind the array's
  end or the only one of its map: the checksum leaves that page out (`MapFaithful`).
  Two layouts with the same sum (`BootAssumption`), which the code would take for
  the same. `Recoverable` and `MapCompleteBelowMax`: lives of an FVP in which a map,
  file or trace failed; the result of `save_settings` is ignored.
- `transfers`: asynchronous requests that together exceed the ring
  (`RingSuffices`), a poll mode engine after a timeout or error
  (`PollUndisturbed`), the cyclic test, and timeouts next to an asynchronous call,
  where what is given up may not be at the head of the queue (`HeadGivesUp`), a
  reset under transfers; `Reliable` is all four. Also the buffer of a request that
  was given up, an asynchronous call with a bad segment, one that is refused between
  its two parts (`HalfRefused`) and one that is split in three (`AioOverrun`).
  A thread woken up after its transfer was served (`libxdma.c:3570`, behind the unlock)
  waits for a wild number of descriptors and throws the next count away (`poll.lost`):
  the next call hangs unless it has a timeout, and `CallReturns` and `AioNotified`
  say so. A segment that `xdma_xfer_submit_nowait` refuses is ignored by
  `cdev_aio_write` and `cdev_aio_read`, which return `-EIOCBQUEUED`; the completion
  never comes (`AioSegmentLost`, exempted from `AioNotified`). A cyclic test that is
  refused takes a transfer off a list it is not on (`PerfStartRefused`).
- `device_life`: offline and online that do not alternate or fall into a removal
  (`paired`; `Serviceable` claims its part all the same), or happen in poll mode; a
  failure among the interrupt handlers or the device files (the files that stay keep
  a name that may be given again); the work item, for which no removal waits; open
  files of a card that is pulled. A card whose `irq_setup` fails on the way back
  online is online all the same (`libxdma.c:4632`): it may lack handlers, and the
  lines it did not get are freed with the others (`partly`). Polling threads that
  were started before one could not be are never stopped.
- `dma_path`: a switch of the addressing mode under a request, and an aperture
  request that loses its way (`strayed`, see `Strays`): a pass that begins at the
  head of the scatter list again, or in a window that is no power of two, where
  `offset & (aperture - 1)` is not the offset into the window. The references that
  three failing ways never give back (`PinsBalanced`, while one of them happened).
  The undelegation waits for no DMA, so a call may lose its pages while the device
  works on them (`blind`); the pages of its monitor calls that fail stay delegated.
- `gpu`: an open beyond the handle table. Of the fix-up: a call after one that left
  the target's lock taken (`fh_fixup_mod.c:529`, `549`, `580`), or after `mmput`
  without a matching get has ended its address space; MAP over a page that the target
  has faulted in between the clearing and the remapping, where `remap_pfn_range`
  stops with a BUG; UNMAP of a page whose table is gone, which reads a null pointer
  with the write lock held (`758`); whatever follows MAP's use of a vma or page table
  that was given back behind its unlock (`wild`).

Left out of the models, and so neither claimed nor shown: `async_io_handler` frees
`&caio->cb[i]`, the inside of an array (host `cdev_sgdma.c:116`). Buffers that
the GPU manager loses or frees twice are in the model (`heap`), but the subject of no
property.

Each property has a mutant: a variant of one mapped definition with a plausible
mistake (the operators marked "Faulty variant") under which TLC reports it
violated.

## 4. Proofs

A theorem `Spec => []P` is proved from an inductive invariant that implies `P`; TLC
checked each of these invariants on the instance of the run before it was proved.
The theorems assume the named assumptions on constants only, which TLC evaluates
on every run, and where they say so a discipline of the callers. Conditions under
which a property is claimed are part of the property (section 3), so the theorems
cover the troubled situations too.

**`EscapeChannelProofs`**, for any threads, page lists and number of starts.
`TypeOK` is not inductive: an answered request must find its file open, a thread
inside a locked operation must hold the lock, and a DMA in progress must have a
buffer. `BaseInv` adds these (`FileInv`, `LockInv`, `BufferInv`). From it follow
`TypeCorrect`, `LockedOperationsExclude` and `TransferStaysInBuffer`, for every mix
of operations, signals included. The others need conditions, which the runs
`escape_mixed`, `escape_dismissed` and `escape_restart` leave:

- `DmaHasItsOwnPages`, `NoFaultIsDismissed`, `CallsAreCarriedOutOnce`,
  `TransfersFollowTheProtocol` and `DmaUsesItsOwnFile` assume `Disciplined`: the
  threads use open, close and DMA, and signals meet the manager in `poll()`.
  `FreezeInv` says that an outstanding fault belongs to a thread at its check, that
  the manager works on a request only while one is outstanding, and that without a
  trace there is no fault. `ChannelInv` adds to it what is on the page while a request is posted
  (`RequestInv`), which part of which page list is in the manager's buffer at each
  stage of a transfer - or that a new manager has none (`TransferInv`) -, and what
  the turn says (`HostInv`). At most one thread is inside the lock, so every other
  one satisfies its part trivially; the host acts only for the thread of the fault;
  a failure or restart loses the buffer as a whole. `DoneInv` counts on top of it,
  `ProtocolInv` says whose page list the manager keeps, `FilesInv` that, until the
  first restart, the descriptor of a file is the one the manager opened for it.

**`ManagerBootProofs`**, for any layouts of the FVPs whose checksums do not collide
(`BootAssumption`; a collision is the one thing the code cannot see): `BootTypes`,
`AddressesAreFaithful`, `MapsAreComplete`, `ManagerCanRestart`. `BootInv` says for
each step of `main` how far the map and the two files agree with the FVP (`MapInv`,
`FilesInv`) and that a guest that was let go finds everything saved
(`HandshakeInv`). It holds because a restored map is compared with a sum that was
written for the same range of pages. The assumption is stronger than the code: its
checksum is a plain sum of addresses.

**`GpuProofs`**: `HandlesAreOwn` from `TableInv` (no handle twice, none behind the
end), claimed until the table is overrun; `CopiesAreExact` from `CopyInv`;
`FixupsAreExact` from `FixInv`: MAP has one entry for every page before the one at
hand (`EntriesInv`), and what it has read of that one and not yet put away could stand
there (`KeptInv`), through every step that the target or another caller takes between
reading, clearing and remapping. UNMAP writes nothing back, so a replaced page stays
replaced.

**`PageListProofs`, `DmaPathProofs`, `DmaExactProofs`**, for every page size, length
of a descriptor, ring, memory, number of processes and list of calls (`ListBounds`,
`DmaConstants`, `DmaMemory`). `PageListProofs` shows what the loops compute for
every input: chunks that tile the buffer, ranges that hold the pages of the list,
segments with the bytes of the list, descriptors that cut them, passes of the
aperture loop. The library's induction theorems take the property as an operator, so
the induction is over sets: the least number at which a loop breaks its claim cannot
exist (`LeastNumber`, from well-foundedness of `<`). On top of it are `PathTypes`,
`Lists` (a call's lists are those of its buffer), `Locks`, `Grants`, `Modes`, and
`Progress`: a call has moved exactly the bytes in front of its next descriptor. From
these follow `DelegationIsExact`, `TransfersAreExact`, `ChainsAreSound`,
`PathTypesHold` and `AccessIsGranted`. `ReferencesBalance` needs `Pins`: the bags of
references cover the lists of all calls and, unless some were lost, hold nothing else.

**`XdmaLifeProofs`**, for any cards, processes, layouts of a card in the order that
`identify_bars` knows, failures, resets and removals (`DeviceAssumption`,
`StubAssumption`): `LifeTypeCorrect`, `ReleasedHolds`, `MemorySafeHolds`,
`NamesUniqueHolds`, `ServiceableHolds`. `LifeInv` says of each card, by its stage,
what it holds (`HeldInv`), how often it is enabled (`PowerInv`), its handlers
(`IrqInv`), masks (`MaskInv`), device files (`NodeInv`), BARs (`BarInv`) and users
(`UseInv`), and of the rest that the list is ordered by number (`ListInv`), that each
engine is on one thread (`ThreadInv`), and the like (`ModInv`, `FileInv`, `StubInv`).
Most steps change one card and nothing the others see of it; `SteadyStep` deals with
these once. Handlers are claimed of a card that is not `partly`; of one that is, only
that what it has installed is among what it has recorded.

**`XdmaTransfersProofs`**, for any number of requests, sizes of buffers and of the
ring, and any situation (`EngineAssumption`, `FileAssumption`). Four layers, each of
which needs the ones before it:

- `Types` with the operators of the engine: `engine_service` on any state completes
  a prefix of the queue (`Served`), by the same induction as above. -> `TypeCorrect`.
- `Linked`: which transfers of a request exist and are queued at each stage of its
  call, who owns `desc_lock`, that the queue holds nothing twice, that the segments
  counted have been completed. -> `QueueLiveHolds`, `CompletionsLiveHold`.
- `Owned`: who owns a descriptor of the ring. Waiting calls are kept apart by
  `desc_lock`; next to an asynchronous one the descriptors handed out so far fill the
  ring from its start (`Allocated`), so `RingSuffices` keeps them apart.
  -> `DescriptorsAreIntact`.
- `Driven`: while the engine runs, the device walks the head of the queue and has
  carried out what it counts (`Walks`); an interrupt or count in memory is that of
  the run that is over (`Steady`), or, when calls may give up, what the device has in
  its hands beside the head belongs to a request that was given up or failed
  (`Unsteady`); what a call has counted was moved (`Account`), and its answer fits
  (`Result`). The argument needs all of it at once: a late interrupt is harmless
  because a count that falls short fails the head, and never completes it.
  -> `SuccessIsRealHolds`, `NoFalseFailureHolds`, `DeviceInBufferHolds`.

`PromiseHolds` is the refinement `Spec => Promise`: outside `Reliable` nothing
happens in `TransferService`; inside, every step of a call is a stutter, an `Accept`
or an `Answer` (`PromiseCall`), a step of the device is `Work` on a request that is
pending or was answered otherwise than done (`PromiseWork`), and one pass of
`engine_service` answers at most one asynchronous request (`OneTold`).

Only model-checked: the liveness properties (`CallReturns` of both runs,
`StartServes`, `AioNotified`, `FixupReturns`), because neither fairness nor `ENABLED`
is within reach of the prover. That the mask `offset & (aperture - 1)` is the offset
into a window of a power of two is evaluated by TLC for small windows
(`MaskIsOffset` in `MCDma`); the proofs exempt a pass for which it is not.

## 5. Where code and comments disagree

- `escape_dismissed`: `fh_bridge_mmap` escapes without `faultdata_lock`. Its
  answer sets the turn back between another thread's arming and nonce write;
  `on_fault` drops that thread's request as "caused unintentionally", and the
  thread takes the turn for an answer.
- `escape_restart`: a guest file keeps the descriptor number of the old manager.
  After the restart the number belongs to whichever file was opened first.
- `boot_map_lost`: `save_settings` leaves out the mapping of the highest page.
- `boot_pte_leak`: three ways to end with page table entries that are not
  restored: the clean-up loop `for (j = 0; i < i; ...)`, a signal in the middle of
  `fh_mmap_region`, and `main` clearing its context after a failed restore.

Two more facts the models contain without a run of their own. With
`SignalWhileServing` a signal during a DMA releases the guest while the device
still works on its memory (`fh_host.c:24-33`); nothing is claimed of such a DMA but
the bounds of the manager's buffer, and whether the guest runs on depends on the
kernel. And a manager
that ends between saving and telling the guest to go on is restored into serving
a guest that waits for ever.

## 6. Not modelled

Not modelled:

- The stub's start-up exchanges (`setup_lookup` with
  `FH_ACTION_GET_EMPTY_MAPPINGS`, `fh_verify_mapping`): they fill a table once,
  before the device files exist.
- The host driver's mmap ioctl, which has a worker map pages into the FVP, and
  its register access; streaming engines; the probe of `remap_pfn_range` and the
  registration of the probes.
- The allocation hook: a bump allocator under a lock, whose blocks are laid out
  for a closed program.
- Benchmarks, markers, the test engine, command line tools, build and start
  scripts (no state of the system); PTEditor's header, gdev's and CUDA's headers
  (third party); the submodules.

The components that section 2 lists are modelled and checked within their bounds, and
their safety properties proved, under the exemptions of section 3 and the assumptions
of section 4; liveness is only model-checked, and the hazards that no property covers
carry a note in `PROJECT.json`. What could be added next, in order of worth: the mmap ioctl of the host driver with
its worker; the start-up exchanges of the stub; streaming engines with their credits.
