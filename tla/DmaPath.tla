-------------------------------- MODULE DmaPath --------------------------------
(***************************************************************************)
(* The way of one read or write of a DMA node, from the user buffer to the *)
(* card and back.                                                          *)
(*                                                                         *)
(* A process of the guest pins its buffer (fh_pin_pages), has its pages    *)
(* delegated to the device (simulate_pci_dma and the probe of              *)
(* devmem_intercept.c), takes the escape page and passes the page list to  *)
(* the manager, which translates it (do_dma); the host driver pins the     *)
(* pages of the FVP behind the list (map_remote_pages_to_sgl) and runs it  *)
(* on the engine (xdma_xfer_submit).  A process of the host enters with a  *)
(* buffer of its own, by read and write or by the aperture ioctl.  All     *)
(* meet at the ring of descriptors of one engine.                          *)
(*                                                                         *)
(* The exchanges over the escape page are those of EscapeChannel, the      *)
(* engine's interrupts, timeouts and aborts those of XdmaEngine; here the  *)
(* one is a step and the other carries out a transfer or fails.            *)
(***************************************************************************)
EXTENDS PageLists, FiniteSets, Bags

CONSTANTS
  GuestProcs, HostProcs,   \* processes that use the node
  NoProc,
  UserPage,      \* the page under each page of a process's buffer area, or Hole
  Hole,
  HostPage,      \* the page of the FVP behind each guest page the manager knows
  GuestPages,    \* the guest's memory: pages 1..GuestPages
  EscapeChunks,  \* chunks that fit the escape page beside struct action_dma
  AddrAlign, LenGranularity,   \* engine->addr_align, len_granularity
  UndelegateChunk,   \* pages undelegated by one call
  Situations,    \* see MCDma
  MaxCalls       \* bound on the calls made

Procs == GuestProcs \cup HostProcs

\* What a process may ask for.  No call moves 2^32 bytes or more (external:
\* MAX_RW_COUNT of the kernel).
DmaRequests == [kind : {"plain", "aperture"}, write : BOOLEAN, buf : Nat, len : 0..U32 - 1,
                ep : Nat, aperture : Nat \ {0}]

ASSUME DmaConstants ==
  /\ IsFiniteSet(Procs) /\ GuestProcs \cap HostProcs = {} /\ NoProc \notin Procs
  /\ {GuestPages, EscapeChunks, MaxCalls} \subseteq Nat
  /\ {AddrAlign, LenGranularity, UndelegateChunk} \subseteq Nat \ {0}
  /\ PageSize % AddrAlign = 0

\* The buffers lie in the area of their process.
ASSUME DmaMemory ==
  /\ Hole \notin Nat
  /\ UserPage \in [Procs -> Seq(Nat \cup {Hole})]
  /\ \A p \in GuestProcs : Range(UserPage[p]) \subseteq (1..GuestPages) \cup {Hole}
  /\ HostPage \in [DOMAIN HostPage -> Nat]
  /\ \A s \in Situations :
       /\ {s.write, s.fixed, s.merge, s.retune, s.sweep} \subseteq BOOLEAN
       /\ s.calls \in [Procs -> SUBSET DmaRequests]
       /\ \A p \in Procs : \A r \in s.calls[p] :
            (r.buf + r.len + PageSize - 1) \div PageSize <= Len(UserPage[p])

VARIABLES
  sit,         \* the situation, fixed at the start: the calls each process may make,
               \* the engine's direction and mode, what may go wrong
  call,        \* the call each process is in, or its last one
  guestPins,   \* references on guest pages, a bag
  hostPins,    \* references on host pages, a bag
  delegated,   \* guest pages the device may access
  listed,      \* history: pages on the scatter lists since the last undelegation,
               \* and those it failed to take back
  sweep,       \* the undelegation under way: its next page, 0 for none
  escLock,     \* who holds fd_data_lock
  descLock,    \* who holds engine->desc_lock
  descIdx,     \* engine->desc_idx
  fixed,       \* engine->non_incr_addr
  ways,        \* history: how calls have ended so far
  calls        \* calls made so far

pathVars == <<sit, call, guestPins, hostPins, delegated, listed, sweep, escLock,
              descLock, descIdx, fixed, ways, calls>>

\* fresh and kept are history: the pages on scatter lists since it began, and
\* those of its calls that failed.
NoSweep == [next |-> 0, fresh |-> {}, kept |-> {}]

NoReq == [kind |-> "plain", write |-> FALSE, buf |-> 0, len |-> 0, ep |-> 0, aperture |-> 1]

\* A call that has just begun: struct pin_pages_struct and struct xdma_io_cb,
\* struct xdma_request_cb; done is what it has to report.  mode, blind and
\* strayed are history: the addressing mode it began in, that its delegation
\* failed or was taken back, that it has lost its way (see BuildAperture and
\* AddrmodeSet).
NewCall(r) ==
  [pc |-> "idle", req |-> r, chunks |-> <<>>, frames |-> <<>>, segs |-> <<>>,
   sdescs |-> <<>>, at |-> 0, ep |-> r.ep, offset |-> 0, sgIdx |-> 0, sgOff |-> 0,
   xfer |-> <<>>, done |-> 0, ret |-> 0, way |-> "none",
   moved |-> {}, mode |-> fixed, blind |-> FALSE, strayed |-> FALSE]

PathInit ==
  /\ sit \in Situations
  /\ fixed = sit.fixed
  /\ call = [p \in Procs |-> NewCall(NoReq)]
  /\ guestPins = EmptyBag /\ hostPins = EmptyBag
  /\ delegated = {} /\ listed = {} /\ sweep = NoSweep
  /\ escLock = NoProc /\ descLock = NoProc
  /\ descIdx = 0
  /\ ways = {} /\ calls = 0

At(p, pc) == call[p].pc = pc
May(fault) == fault \in sit.faults

\* The pages of a list that a get_user_pages call gets: those before a hole.
Got(pages) ==
  LET holes == {i \in DOMAIN pages : pages[i] = Hole}
  IN IF holes = {} THEN pages ELSE SubSeq(pages, 1, Min(holes) - 1)

BufferPages(p, r) ==
  [i \in 1..PageCount(r.buf, r.len) |-> UserPage[p][(r.buf \div PageSize) + i]]

PagesOf(list) == [i \in DOMAIN list |-> list[i].page]

Ended(c, ret, way) ==
  [c EXCEPT !.pc = "idle", !.ret = ret, !.way = way, !.chunks = <<>>, !.frames = <<>>,
            !.segs = <<>>, !.sdescs = <<>>]
End(p, ret, way) ==
  /\ call' = [call EXCEPT ![p] = Ended(@, ret, way)]
  /\ ways' = ways \cup {way}

--------------------------------------------------------------------------------
(* The guest: pin, delegate, escape                                        *)

\* char_sgdma_read and char_sgdma_write of the stub.  Its aperture ioctl enters
\* with a count of 0, whatever its length.
Entered(p, r) == IF p \in GuestProcs /\ r.kind = "aperture" THEN [r EXCEPT !.len = 0] ELSE r

Call(p) ==
  /\ At(p, "idle") /\ calls < MaxCalls
  /\ \E r \in sit.calls[p] :
       call' = [call EXCEPT ![p] = [NewCall(Entered(p, r)) EXCEPT
                  !.pc = IF p \in GuestProcs THEN "pin" ELSE "local"]]
  /\ calls' = calls + 1
  /\ UNCHANGED <<sit, guestPins, hostPins, delegated, listed, sweep, escLock, descLock,
                 descIdx, fixed, ways>>

\* fh_pin_pages: no page, no memory, no page present.
PinRefused(p) ==
  LET r == call[p].req
      pages == BufferPages(p, r)
  IN /\ At(p, "pin")
     /\ pages = <<>> \/ May("memory") \/ Got(pages) = <<>>
     /\ End(p, -1, "refused")
     /\ UNCHANGED <<sit, guestPins, hostPins, delegated, listed, sweep, escLock,
                    descLock, descIdx, fixed, calls>>

\* Fewer pages than asked for, or a page twice in a row: the error path does
\* not know the pages yet and leaves them pinned.
PinLost(p) ==
  LET r == call[p].req
      got == Got(BufferPages(p, r))
  IN /\ At(p, "pin") /\ got # <<>>
     /\ Len(got) < PageCount(r.buf, r.len) \/ Duplicates(got)
     /\ guestPins' = guestPins (+) ToBag(got)
     /\ End(p, -1, "pins lost")
     /\ UNCHANGED <<sit, hostPins, delegated, listed, sweep, escLock, descLock, descIdx,
                    fixed, calls>>

PinPages(p) ==
  LET r == call[p].req
      pages == BufferPages(p, r)
  IN /\ At(p, "pin") /\ pages # <<>>
     /\ Got(pages) = pages /\ ~Duplicates(pages)
     /\ guestPins' = guestPins (+) ToBag(pages)
     /\ call' = [call EXCEPT ![p].pc = "pinned",
                             ![p].chunks = Chunks(pages, r.buf, r.len)]
     /\ UNCHANGED <<sit, hostPins, delegated, listed, sweep, escLock, descLock, descIdx,
                    fixed, ways, calls>>

\* simulate_pci_dma: the probe on dma_map_sg_attrs delegates the pages.  A
\* failure is reported and the DMA goes on; so does one of the monitor.
Delegate(p) ==
  /\ At(p, "pinned")
  /\ \E ok \in {TRUE} \cup (IF May("delegation") THEN {FALSE} ELSE {}) :
       /\ delegated' = IF ok THEN delegated \cup Granted(DelegateRanges(call[p].chunks))
                             ELSE delegated
       /\ call' = [call EXCEPT ![p].pc = "delegated", ![p].blind = ~ok]
  /\ listed' = listed \cup Range(PagesOf(call[p].chunks))
  /\ sweep' = IF sweep.next = 0 THEN sweep
              ELSE [sweep EXCEPT !.fresh = @ \cup Range(PagesOf(call[p].chunks))]
  /\ UNCHANGED <<sit, guestPins, hostPins, escLock, descLock, descIdx, fixed, ways,
                 calls>>

\* The list does not fit the escape page: the call returns, the pages stay.
TooSmall(p) ==
  /\ At(p, "delegated") /\ Len(call[p].chunks) > EscapeChunks
  /\ End(p, -1, "too small")
  /\ UNCHANGED <<sit, guestPins, hostPins, delegated, listed, sweep, escLock, descLock,
                 descIdx, fixed, calls>>

\* fd_data_lock; transfer_chunk_to_host.
TakeEscape(p) ==
  /\ At(p, "delegated") /\ Len(call[p].chunks) <= EscapeChunks
  /\ escLock = NoProc
  /\ escLock' = p
  /\ call' = [call EXCEPT ![p].pc = "manager"]
  /\ UNCHANGED <<sit, guestPins, hostPins, delegated, listed, sweep, descLock, descIdx,
                 fixed, ways, calls>>

\* The node is for the other direction, or the alignment does not suit.
Aligned(r) ==
  IF fixed THEN /\ r.buf % AddrAlign = 0 /\ r.ep % AddrAlign = 0
                /\ r.len % LenGranularity = 0
           ELSE r.buf % AddrAlign = r.ep % AddrAlign

Suits(r) == r.write = sit.write /\ Aligned(r)

Mapped(p) == Range(PagesOf(call[p].chunks)) \subseteq DOMAIN HostPage

EscapeFails(p) ==
  /\ At(p, "manager") /\ May("escape")
  /\ call' = [call EXCEPT ![p].pc = "leave", ![p].ret = -1, ![p].way = "unanswered"]
  /\ UNCHANGED <<sit, guestPins, hostPins, delegated, listed, sweep, escLock, descLock,
                 descIdx, fixed, ways, calls>>

\* do_dma knows no mapping for a page, fh_handle_dma has no memory or finds that
\* the node does not suit.
Denied(p) ==
  /\ At(p, "manager")
  /\ ~Mapped(p) \/ May("memory") \/ ~Suits(call[p].req)
  /\ call' = [call EXCEPT ![p].pc = "leave", ![p].ret = -1, ![p].way = "refused"]
  /\ UNCHANGED <<sit, guestPins, hostPins, delegated, listed, sweep, escLock, descLock,
                 descIdx, fixed, ways, calls>>

\* map_remote_pages_to_sgl: the pages of the FVP, one at a time; distinct guest
\* pages lie on distinct host pages, so its test for duplicates cannot fire.
RemoteSgl(p) ==
  [i \in DOMAIN call[p].chunks |->
     [call[p].chunks[i] EXCEPT !.page = HostPage[call[p].chunks[i].page]]]

MapRemote(p) ==
  /\ At(p, "manager") /\ Mapped(p)
  /\ Suits(call[p].req)
  /\ hostPins' = hostPins (+) ToBag(PagesOf(RemoteSgl(p)))
  /\ call' = [call EXCEPT ![p].pc = "mapped", ![p].frames = RemoteSgl(p)]
  /\ UNCHANGED <<sit, guestPins, delegated, listed, sweep, escLock, descLock, descIdx,
                 fixed, ways, calls>>

\* The FVP is gone or a page of it is not to be had: the pages got so far stay
\* pinned.
MapRemoteFails(p) ==
  /\ At(p, "manager") /\ Mapped(p) /\ May("fvp")
  /\ Suits(call[p].req)
  /\ \E k \in 0..Len(call[p].chunks) - 1 :
       hostPins' = hostPins (+) ToBag(SubSeq(PagesOf(RemoteSgl(p)), 1, k))
  /\ call' = [call EXCEPT ![p].pc = "leave", ![p].ret = -1, ![p].way = "frames lost"]
  /\ UNCHANGED <<sit, guestPins, delegated, listed, sweep, escLock, descLock, descIdx,
                 fixed, ways, calls>>

\* Faulty variant: only the first page is unpinned.
LeaveFirst(p) ==
  /\ At(p, "leave")
  /\ escLock' = NoProc
  /\ guestPins' = guestPins (-) ToBag(SubSeq(PagesOf(call[p].chunks), 1, 1))
  /\ End(p, call[p].ret, call[p].way)
  /\ UNCHANGED <<sit, hostPins, delegated, listed, sweep, descLock, descIdx, fixed,
                 calls>>

\* do_dma answers and the guest cleans up; of a DMA that failed it hears nothing
\* and gives up waiting, with an error (fh_do_escape).  The pages stay delegated.
Leave(p) ==
  /\ At(p, "leave")
  /\ escLock' = NoProc
  /\ guestPins' = guestPins (-) ToBag(PagesOf(call[p].chunks))
  /\ End(p, call[p].ret, call[p].way)
  /\ UNCHANGED <<sit, hostPins, delegated, listed, sweep, descLock, descIdx, fixed,
                 calls>>


--------------------------------------------------------------------------------
(* A process of the host: char_sgdma_map_user_buf_to_sgl                   *)

\* Whatever it has pinned when it fails is unpinned again.
LocalRefused(p) ==
  LET r == call[p].req
      pages == BufferPages(p, r)
  IN /\ At(p, "local")
     /\ \/ pages = <<>> \/ May("memory") \/ ~Suits(r)
        \/ Got(pages) # pages \/ Duplicates(pages)
     /\ End(p, -1, "refused")
     /\ UNCHANGED <<sit, guestPins, hostPins, delegated, listed, sweep, escLock,
                    descLock, descIdx, fixed, calls>>

MapLocal(p) ==
  LET r == call[p].req
      pages == BufferPages(p, r)
  IN /\ At(p, "local") /\ Suits(r) /\ pages # <<>>
     /\ Got(pages) = pages /\ ~Duplicates(pages)
     /\ hostPins' = hostPins (+) ToBag(pages)
     /\ call' = [call EXCEPT ![p].pc = "mapped",
                             ![p].frames = Chunks(pages, r.buf, r.len)]
     /\ UNCHANGED <<sit, guestPins, delegated, listed, sweep, escLock, descLock,
                    descIdx, fixed, ways, calls>>

--------------------------------------------------------------------------------
(* xdma_xfer_submit and xdma_xfer_aperture                                 *)

Aperture(p) == p \in HostProcs /\ call[p].req.kind = "aperture"

\* pci_map_sg finds no room, xdma_init_request no memory.
RequestFails(p) ==
  /\ At(p, "mapped") /\ May("memory")
  /\ call' = [call EXCEPT ![p].pc = "unmap", ![p].ret = -1, ![p].way = "refused"]
  /\ UNCHANGED <<sit, guestPins, hostPins, delegated, listed, sweep, escLock, descLock,
                 descIdx, fixed, ways, calls>>

MakeRequest(p) ==
  LET segs == MapSg(call[p].frames, sit.merge)
  IN /\ At(p, "mapped")
     /\ Aperture(p) \/ Len(InitRequest(segs)) <= RequestRoom(segs)
     /\ call' = [call EXCEPT ![p].pc = "queue", ![p].segs = segs,
                             ![p].sdescs = IF Aperture(p) THEN <<>> ELSE InitRequest(segs)]
     /\ UNCHANGED <<sit, guestPins, hostPins, delegated, listed, sweep, escLock,
                    descLock, descIdx, fixed, ways, calls>>

TakeDesc(p) ==
  /\ At(p, "queue") /\ descLock = NoProc
  /\ descLock' = p
  /\ call' = [call EXCEPT ![p].pc = "build"]
  /\ UNCHANGED <<sit, guestPins, hostPins, delegated, listed, sweep, escLock, descIdx,
                 fixed, ways, calls>>

\* transfer_init
Build(p) ==
  LET c == call[p]
      n == TransferSize(Len(c.sdescs) - c.at, descIdx)
      sdescs == SubSeq(c.sdescs, c.at + 1, c.at + n)
  IN /\ At(p, "build") /\ ~Aperture(p) /\ c.at < Len(c.sdescs)
     /\ call' = [call EXCEPT ![p].pc = "run", ![p].at = @ + n,
                             ![p].ep = IF fixed THEN @ ELSE @ + Total(sdescs),
                             ![p].xfer = Linked(TransferBuild(sdescs, c.ep, fixed), descIdx)]
     /\ descIdx' = (descIdx + n) % RingSize
     /\ UNCHANGED <<sit, guestPins, hostPins, delegated, listed, sweep, escLock,
                    descLock, fixed, ways, calls>>

\* A pass of the aperture loop.
PassReq(c, start) ==
  [ep |-> c.req.ep, aperture |-> c.req.aperture, offset |-> c.offset, start |-> start,
   sgIdx |-> c.sgIdx, sgOff |-> c.sgOff]

\* What strayed notes: the pass begins at the head of the scatter list although
\* it should go on further down, or elsewhere in a window whose size is no power
\* of two.
Strays(c, start) == c.sgIdx > 0 \/ start # c.offset % c.req.aperture

BuildAperture(p) ==
  LET c == call[p]
  IN /\ At(p, "build") /\ Aperture(p) /\ c.offset < Total(c.segs)
     /\ \E start \in Masked(c.offset, c.req.aperture) :
          LET pass == AperturePass(c.segs, PassReq(c, start), descIdx)
          IN /\ pass.list # <<>>
             /\ call' = [call EXCEPT ![p].pc = "run", ![p].xfer = Linked(pass.list, descIdx),
                            ![p].offset = @ + Total(pass.list), ![p].sgIdx = pass.i,
                            ![p].sgOff = pass.off, ![p].strayed = @ \/ Strays(c, start)]
             /\ descIdx' = (descIdx + Len(pass.list)) % RingSize
     /\ UNCHANGED <<sit, guestPins, hostPins, delegated, listed, sweep, escLock,
                    descLock, fixed, ways, calls>>

\* A pass without an entry left: the loop over desc_cnt - 1 descriptors runs
\* through the memory of the host.
RunAway(p) ==
  LET c == call[p]
  IN /\ At(p, "build") /\ Aperture(p)
     /\ c.offset < Total(c.segs)
     /\ \E start \in Masked(c.offset, c.req.aperture) :
          AperturePass(c.segs, PassReq(c, start), descIdx).list = <<>>
     /\ call' = [call EXCEPT ![p].pc = "crashed"]
     /\ ways' = ways \cup {"crashed"}
     /\ UNCHANGED <<sit, guestPins, hostPins, delegated, listed, sweep, escLock,
                    descLock, descIdx, fixed, calls>>

Through(p) == LET c == call[p] IN
  IF Aperture(p) THEN c.offset >= Total(c.segs) ELSE c.at = Len(c.sdescs)

\* The loop is over.
Done(p) ==
  /\ At(p, "build") /\ Through(p)
  /\ descLock' = NoProc
  /\ call' = [call EXCEPT ![p].pc = "unmap", ![p].ret = call[p].done, ![p].way = "done"]
  /\ UNCHANGED <<sit, guestPins, hostPins, delegated, listed, sweep, escLock, descIdx,
                 fixed, ways, calls>>

\* The bytes descriptors move: pairs of a host byte and a byte of the card.
Bytes(descs) ==
  UNION {{<<descs[i].addr + b, IF fixed THEN descs[i].ep ELSE descs[i].ep + b>> :
            b \in 0..descs[i].len - 1} : i \in DOMAIN descs}

CarryOut(p) ==
  /\ At(p, "run")
  /\ call' = [call EXCEPT ![p].pc = "build", ![p].xfer = <<>>,
                          ![p].done = @ + Total(call[p].xfer),
                          ![p].moved = @ \cup Bytes(call[p].xfer)]
  /\ UNCHANGED <<sit, guestPins, hostPins, delegated, listed, sweep, escLock, descLock,
                 descIdx, fixed, ways, calls>>

\* The engine fails or the caller gives up after some descriptors.  What
\* earlier transfers have moved is still reported.
CarryFails(p) ==
  LET c == call[p]
  IN /\ At(p, "run") /\ May("engine")
     /\ \E k \in 0..Len(c.xfer) - 1 :
          call' = [call EXCEPT ![p].pc = "unmap", ![p].xfer = <<>>,
                     ![p].ret = IF c.done > 0 THEN c.done ELSE -1, ![p].way = "failed",
                     ![p].moved = @ \cup Bytes(SubSeq(c.xfer, 1, k))]
     /\ descLock' = NoProc
     /\ UNCHANGED <<sit, guestPins, hostPins, delegated, listed, sweep, escLock,
                    descIdx, fixed, ways, calls>>

\* pci_unmap_sg, char_sgdma_unmap_user_buf
Unmap(p) ==
  /\ At(p, "unmap")
  /\ hostPins' = hostPins (-) ToBag(PagesOf(call[p].frames))
  /\ IF p \in GuestProcs
     THEN call' = [call EXCEPT ![p].pc = "leave", ![p].frames = <<>>] /\ UNCHANGED ways
     ELSE /\ call' = [call EXCEPT ![p] = Ended(@, @.ret, @.way)]
          /\ ways' = ways \cup {call[p].way}
  /\ UNCHANGED <<sit, guestPins, delegated, listed, sweep, escLock, descLock, descIdx,
                 fixed, calls>>

--------------------------------------------------------------------------------
(* Around the calls                                                        *)

\* IOCTL_XDMA_ADDRMODE_SET, at any time: a call it meets has been checked in
\* one mode and may be built and run in the other.
AddrmodeSet ==
  /\ sit.retune
  /\ fixed' = ~fixed
  /\ call' = [p \in Procs |-> [call[p] EXCEPT !.strayed = @ \/ call[p].pc # "idle"]]
  /\ UNCHANGED <<sit, guestPins, hostPins, delegated, listed, sweep, escLock, descLock,
                 descIdx, ways, calls>>

\* undelegate, run when the module devmem_undelegate is loaded: chunk after chunk
\* of the memory.  Nothing in it or in the drivers waits for a DMA in progress,
\* and it may be loaded at any time.
UndelegateStart ==
  /\ sit.sweep /\ sweep.next = 0
  /\ sweep' = [NoSweep EXCEPT !.next = 1]
  /\ UNCHANGED <<sit, call, guestPins, hostPins, delegated, listed, escLock, descLock,
                 descIdx, fixed, ways, calls>>

SweepLeft == GuestPages + 1 - sweep.next
SweepRange == Least(UndelegateChunk, SweepLeft)

\* devmem_delegate_mem_range: one call of the monitor, which may fail after some
\* of the pages.  The loop goes on to the next chunk all the same.
Taken ==
  {sweep.next .. sweep.next + n - 1 :
     n \in IF May("delegation") THEN 0..SweepRange ELSE {SweepRange}}

UndelegateSome ==
  /\ sweep.next > 0 /\ SweepLeft > 0
  /\ \E gone \in Taken :
       /\ delegated' = delegated \ gone
       /\ sweep' = [sweep EXCEPT !.next = @ + SweepRange,
                      !.kept = @ \cup ((sweep.next .. sweep.next + SweepRange - 1) \ gone)]
       /\ call' = [p \in Procs |-> [call[p] EXCEPT
                    !.blind = @ \/ Range(PagesOf(call[p].chunks)) \cap gone # {}]]
  /\ UNCHANGED <<sit, guestPins, hostPins, listed, escLock, descLock, descIdx, fixed,
                 ways, calls>>

UndelegateEnd ==
  /\ sweep.next > 0 /\ SweepLeft <= 0
  /\ listed' = sweep.fresh \cup sweep.kept
  /\ sweep' = NoSweep
  /\ UNCHANGED <<sit, call, guestPins, hostPins, delegated, escLock, descLock, descIdx,
                 fixed, ways, calls>>

GuestStep(p) ==
  \/ PinRefused(p) \/ PinLost(p) \/ PinPages(p) \/ Delegate(p) \/ TooSmall(p)
  \/ TakeEscape(p) \/ EscapeFails(p) \/ Denied(p) \/ MapRemote(p) \/ MapRemoteFails(p) \/ Leave(p)

HostStep(p) ==
  \/ RequestFails(p) \/ MakeRequest(p) \/ TakeDesc(p) \/ Build(p) \/ BuildAperture(p)
  \/ RunAway(p) \/ Done(p) \/ CarryOut(p) \/ CarryFails(p) \/ Unmap(p)

PathNext ==
  \/ \E p \in Procs : Call(p) \/ HostStep(p)
  \/ \E p \in GuestProcs : GuestStep(p)
  \/ \E p \in HostProcs : LocalRefused(p) \/ MapLocal(p)
  \/ AddrmodeSet
  \/ UndelegateStart \/ UndelegateSome \/ UndelegateEnd

PathSpec == PathInit /\ [][PathNext]_pathVars

--------------------------------------------------------------------------------
(* Properties                                                              *)

\* The page of the FVP (or of the host process) under byte k of the buffer, and
\* the byte of the card it belongs to.
Frame(p, page) == IF p \in GuestProcs THEN HostPage[page] ELSE page
BufferByte(p, k) ==
  LET r == call[p].req
  IN Frame(p, UserPage[p][((r.buf + k) \div PageSize) + 1]) * PageSize
       + ((r.buf + k) % PageSize)
CardByte(p, k) ==
  LET r == call[p].req
  IN IF call[p].mode THEN r.ep
     ELSE IF Aperture(p) THEN r.ep + (k % r.aperture) ELSE r.ep + k

Meant(p, n) == {<<BufferByte(p, k), CardByte(p, k)>> : k \in 0..n - 1}

\* Descriptors fit the ring, a process that has some holds the lock and locks
\* are held by processes that are between taking and releasing them.
DmaTypeOK ==
  /\ descIdx \in 0..RingSize - 1
  /\ delegated \subseteq 1..GuestPages
  /\ IsABag(guestPins) /\ IsABag(hostPins)
  /\ \A p \in Procs :
       /\ call[p].xfer # <<>> <=> At(p, "run")
       /\ descLock = p <=> call[p].pc \in {"build", "run", "crashed"}
       /\ \A i \in DOMAIN call[p].xfer : call[p].xfer[i].slot \in 0..RingSize - 1
       /\ escLock = p => p \in GuestProcs

\* Between the buffer of the user and the card every byte goes where it belongs:
\* through the chunks of the guest, the translation of the manager, the scatter
\* list, the cut into descriptors and the transfers of a request that the end of
\* the ring divides.  A call that reports n bytes has moved the first n bytes, a
\* call that nothing disturbed all of them, and none moves any other.  (Left
\* out are calls that lost their way: a second pass over a window, a window whose
\* size is no power of two, a mode switched under the call; and the aperture of
\* an engine that does not increment addresses, which has no such meaning.)
DmaExact ==
  \A p \in Procs : ~call[p].strayed /\ ~(Aperture(p) /\ call[p].mode) =>
    LET c == call[p]
    IN /\ c.moved \subseteq (IF c.moved = {} THEN {} ELSE Meant(p, c.req.len))
       /\ At(p, "idle") /\ c.ret > 0 => Meant(p, c.ret) \subseteq c.moved
       /\ At(p, "idle") /\ c.way = "done" => c.ret = c.req.len

\* What the engine is started on is a chain it can walk: consecutive slots, no
\* descriptor longer than the engine takes, and blocks of descriptors fetched
\* together that stay inside the transfer and inside an aligned block.
FetchedInside(first, adj, end) ==
  /\ first + adj < end
  /\ first \div AdjBlock = (first + adj) \div AdjBlock

DescriptorsSound ==
  \A p \in Procs : At(p, "run") =>
    LET x == call[p].xfer
        first == x[1].slot
        end == first + Len(x)
    IN /\ end <= RingSize
       /\ FetchedInside(first, GetNextAdj(Len(x), first), end)
       /\ \A i \in DOMAIN x :
            /\ x[i].slot = first + i - 1
            /\ x[i].len \in 1..DescBlenMax
            /\ i < Len(x) => /\ x[i].next = x[i + 1].slot /\ ~x[i].stop
                             /\ FetchedInside(x[i].next, x[i].adj, end)
            /\ i = Len(x) => x[i].stop /\ x[i].adj = 0
            /\ /\ ~call[p].strayed /\ ~fixed
               /\ Aperture(p) => call[p].req.aperture % AddrAlign = 0
               => x[i].addr % AddrAlign = x[i].ep % AddrAlign

\* Every reference a call takes on a page it gives back, however it ends, but
\* for the ways that lose them: a failure of fh_pin_pages after pinning and a
\* list too long for the escape page (guest), and a page of the FVP not to be
\* had (host).  Calls that share pages do not give back each other's.
Entries(lists) == UNION {{p} \X DOMAIN lists[p] : p \in DOMAIN lists}

Times(page, lists) ==
  Cardinality({x \in Entries(lists) : lists[x[1]][x[2]].page = page})

PageBag(lists) ==
  [page \in {lists[x[1]][x[2]].page : x \in Entries(lists)} |-> Times(page, lists)]

ChunkLists == [p \in GuestProcs |-> call[p].chunks]
FrameLists == [p \in Procs |-> call[p].frames]

PinsBalanced ==
  /\ ways \cap {"pins lost", "too small"} = {} => guestPins = PageBag(ChunkLists)
  /\ "frames lost" \notin ways \cup {call[p].way : p \in Procs} =>
       hostPins = PageBag(FrameLists)

\* The pages the card is at work on are pinned on both sides, and delegated to it
\* unless their delegation failed or the module devmem_undelegate, which waits for
\* no DMA, has since taken a page of the call: nothing else revokes them, not the
\* end of a call that shares them.
AccessGranted ==
  \A p \in Procs : At(p, "run") =>
    /\ ~call[p].strayed =>
         \A i \in DOMAIN call[p].xfer : LET d == call[p].xfer[i] IN
           \A a \in d.addr .. d.addr + d.len - 1 : BagIn(a \div PageSize, hostPins)
    /\ \A i \in DOMAIN call[p].chunks : LET ch == call[p].chunks[i] IN
         /\ BagIn(ch.page, guestPins)
         /\ ~call[p].blind /\ ch.nbytes > 0 => ch.page \in delegated

\* No page of the guest is opened to the device that was not on a scatter list,
\* however the entries of the lists are merged into ranges; after the
\* undelegation of the memory none is, but for the pages that were put on a list
\* meanwhile and those of calls to the monitor that failed, which the module
\* only reports.
DelegatedExactly ==
  /\ delegated \subseteq listed
  /\ sweep.next > 0 => delegated \cap (1..sweep.next - 1) \subseteq sweep.fresh \cup sweep.kept
=============================================================================
