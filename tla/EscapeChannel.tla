----------------------------- MODULE EscapeChannel -----------------------------
(***************************************************************************)
(* The escape channel of the FPGA driver: the threads of the guest stub    *)
(* (XdmaStub) and the host's manager (FpgaComm) on the shared page         *)
(* (EscapePage).                                                           *)
(***************************************************************************)
EXTENDS XdmaStub, FpgaComm

ASSUME ChannelAssumption == NoFd \notin Fds

vars == <<pageVars, stubVars, commVars>>

Init == PageInit /\ StubInit /\ CommInit

GuestStep(t) == (Step(t) \/ StartCall(t)) /\ UNCHANGED commVars

GuestLock(t) == FdDataLock(t) /\ UNCHANGED commVars

HostStep == Listener /\ UNCHANGED stubVars

HostEvent == (Signal \/ ListenerFails \/ ManagerStart) /\ UNCHANGED stubVars

Next ==
  \/ \E t \in Threads : GuestStep(t)
  \/ \E t \in Threads : GuestLock(t)
  \/ HostStep
  \/ HostEvent

Spec == Init /\ [][Next]_vars

(* A call that has started goes on, and the listener serves what it polls. *)
(* The spinlock is a queued lock: a thread that waits while the lock is    *)
(* released again and again gets it.  Nothing says that the manager is     *)
(* started again, that it is signalled or fails, or that a thread calls.   *)
Fairness ==
  /\ \A t \in Threads : WF_vars(Step(t) /\ UNCHANGED commVars)
  /\ \A t \in Threads : SF_vars(GuestLock(t))
  /\ WF_vars(HostStep)

FairSpec == Spec /\ Fairness

TypeOK == PageTypeOK /\ StubTypeOK /\ CommTypeOK

-----------------------------------------------------------------------------
(* Properties of the operations that take faultdata_lock.                  *)

(* The thread is between fd_data_lock() and fd_data_unlock().              *)
InLocked(t) ==
  /\ pc[t] \in {"fill", "arm", "nonce", "check", "reply", "unlock", "relock"}
  /\ op[t] \in LockedOps

(* The locked operations exclude each other: who fills the page, escapes   *)
(* or reads the reply inside one of them holds faultdata_lock.  That is    *)
(* what transfer_chunk_to_host asks of its caller ("Caller has to hold     *)
(* escape lock").  It holds for all operations, the unlocked ones and the  *)
(* self-deadlock of fh_char_ctrl_write included.                           *)
LockedExclusive == \A t \in Threads : InLocked(t) => lock = t

(* When the manager starts the DMA of a thread, the buffer it hands to the *)
(* driver is exactly the page list of that thread's current call (no byte  *)
(* of another call, none missing, none twice), the number of pages and the *)
(* direction, which the later DMA request brings, belong to it, and the    *)
(* thread's pages are pinned while the device moves data                   *)
(* (char_sgdma_read_write, transfer_chunk_to_host, do_dma).                *)
DmaIntegrity ==
  mgr = "dma" =>
    /\ fault \in Threads
    /\ op[fault] = "dma"
    /\ pinned[fault]
    /\ area.body.by = fault
    /\ area.body.write = arg[fault].write
    /\ area.body.n = arg[fault].n
    /\ xfer.size = arg[fault].n
    /\ xfer.buf = [i \in 0..(arg[fault].n - 1) |-> <<fault, i>>]

(* The host carries out a call at most once, and a call that reports       *)
(* success to the user has been carried out (fh_do_faulthook's check of    *)
(* turn), whatever happens to the manager in between.  Success is what the *)
(* driver takes for it; that a failed DMA is passed on as a positive error *)
(* number is the subject of DmaPath.                                       *)
ExactlyOnce ==
  \A t \in Threads :
    /\ done[t] <= 1
    /\ (pc[t] = "idle" /\ res[t] = "ok") => done[t] = 1

(* None of the manager's own complaints about the protocol can be reached: *)
(* a handshake while a buffer is allocated ("without a free. memory leak"),*)
(* a chunk past the end ("out of bounds memory transfer"), an unknown      *)
(* status, and a DMA without a transfer ("No action_transfer_data done     *)
(* beforehand").  The one exception is a call during which the manager     *)
(* ended and was started again: the new manager knows nothing of the       *)
(* transfer, and the rest of it ends the new manager as well.              *)
NoProtocolError ==
  fault \notin hit =>
  /\ Serving(FH_ACTION_TRANSFER_ESCAPE_DATA) =>
       \/ area.w0 = StatusTransferSize /\ ~xfer.ptr
       \/ area.w0 = StatusTransferData /\ xfer.chunk + Transfer <= xfer.size
  /\ Serving(FH_ACTION_DMA) => xfer.info = FH_ACTION_DMA

(* on_fault treats a fault with turn # FH_TURN_HOST as "caused             *)
(* unintentionally" and drops it.  No fault of fh_do_faulthook may be      *)
(* dropped that way: every nonce write of the model is a request.          *)
NoRequestDismissed == ~dismissed

(* As long as the manager has not been restarted, a DMA uses the           *)
(* descriptor that was opened for the thread's own file.                   *)
DmaOnOwnFile == (mgr = "dma" /\ starts = 1) => fdtab[area.w0] = fault

(* The same across a restart of the manager ("We store settings such that  *)
(* we can restart manager without rebooting fvp", usr_manager.c): the      *)
(* descriptors of the guest's files outlive the process that opened them.  *)
DmaOnOwnFileAcrossRestart == mgr = "dma" => fdtab[area.w0] = fault

(* Every call of a locked operation returns (liveness): the lock is        *)
(* released on every path, and a manager that fails, is killed or is gone  *)
(* releases the guest.                                                     *)
CallReturns == \A t \in Threads : (pc[t] # "idle") ~> (pc[t] = "idle")

-----------------------------------------------------------------------------
(* Properties of all operations together.                                  *)

(* The manager's buffer: what it has copied never exceeds what the         *)
(* handshake allocated, and a DMA always has a buffer that a handshake for *)
(* a DMA allocated, whatever the unlocked operations write over a request  *)
(* (the bounds check of do_action_transfer_escape_data and the test of     *)
(* info_ctx in do_dma).                                                    *)
TransferBounded ==
  /\ xfer.chunk <= xfer.size
  /\ DOMAIN xfer.buf = 0..(xfer.chunk - 1)
  /\ mgr = "dma" => xfer.ptr

-----------------------------------------------------------------------------
(* The inductive invariant behind TypeOK, LockedExclusive and              *)
(* TransferBounded, which hold for every mix of operations.                *)

(* A request about an open file finds it open.                             *)
FileInv(t) == call[t] \notin {"none", "open"} => file[t] # NoFd

LockInv(t) ==
  /\ pc[t] # "idle" => op[t] \in LockedOps \cup {"mmap"}
  /\ pc[t] \in {"lock", "unlock"} => op[t] \in LockedOps
  /\ pc[t] = "memset" => op[t] = "mmap"
  /\ InLocked(t) => lock = t

(* The state of the manager's buffer between requests.                     *)
BufferInv ==
  /\ xfer.chunk <= xfer.size
  /\ xfer.info = FH_ACTION_DMA /\ mgr # "exiting" => xfer.ptr
  /\ mgr = "dma" => xfer.info = FH_ACTION_DMA

BaseInv ==
  /\ TypeOK
  /\ BufferInv
  /\ \A t \in Threads : FileInv(t) /\ LockInv(t)

-----------------------------------------------------------------------------
(* The inductive invariant behind DmaIntegrity and ExactlyOnce.  It speaks *)
(* of runs in which every thread uses the locked operations that the host  *)
(* answers, and in which signals reach the manager in poll() only.         *)

ServedOps == {"open", "close", "dma"}

Disciplined ==
  /\ \A t \in Threads : Ops[t] \subseteq ServedOps
  /\ ~SignalWhileServing

(* The fault and the life of the manager.  This part only needs that       *)
(* signals reach the manager in poll().                                    *)
FreezeInv ==
  /\ fault \in Threads => pc[fault] = "check" /\ traced
  /\ mgr \in {"dma", "complete"} => fault \in Threads
  /\ mgr = "down" \/ sig => ~traced
  /\ sig => mgr \in {"idle", "exiting"}

(* Which requests belong to which operation, and what pc values they have. *)
CallInv(t) ==
  /\ pc[t] \notin {"relock", "memset"}
  /\ pc[t] = "idle" <=> op[t] = "none"
  /\ op[t] \in ServedOps \cup {"none"}
  /\ call[t] \in IF op[t] = "dma" THEN {"handshake", "chunk", "dma"} ELSE {op[t]}
  /\ pc[t] = "lock" => call[t] \in {"handshake", "open", "close"}
  /\ op[t] = "dma" => pinned[t]

(* While a thread waits for the host, the turn says whether the host has   *)
(* answered, and a DMA in progress is the request of that thread.          *)
HostInv ==
  /\ fault \in Threads /\ mgr = "complete" => turn = FH_TURN_GUEST
  /\ fault \in Threads /\ mgr \in {"idle", "dma"} => turn # FH_TURN_GUEST
  /\ mgr = "dma" => call[fault] = "dma"

(* The request of t is on the page and not yet answered.                   *)
Posted(t) ==
  \/ pc[t] \in {"arm", "nonce"}
  \/ pc[t] = "check" /\ fault = t /\ mgr \in {"idle", "dma"}

(* The request of t has been answered.                                     *)
Answered(t) ==
  \/ pc[t] = "reply"
  \/ pc[t] = "check" /\ turn = FH_TURN_GUEST

(* What is on the page is the request of t.                                *)
Requested(t) ==
  /\ call[t] = "open" => area.body.view = "open" /\ area.body.by = t
  /\ call[t] = "close" => area.w0 = file[t]
  /\ call[t] = "handshake" => /\ area.w0 = StatusTransferSize
                              /\ area.w1 = arg[t].n
                              /\ area.w3 = FH_ACTION_DMA
  /\ call[t] = "chunk" => /\ area.w0 = StatusTransferData
                          /\ area.body.view = "chunk"
                          /\ area.body.by = t
                          /\ area.body.from + area.w1 = arg[t].n - remain[t]
                          /\ area.w1 <= TransferMax
  /\ call[t] = "dma" => /\ area.body.view = "dma"
                        /\ area.body.by = t
                        /\ area.body.write = arg[t].write
                        /\ area.body.n = arg[t].n

RequestInv(t) ==
  /\ Posted(t) => Requested(t)
  /\ pc[t] = "nonce" => turn = FH_TURN_HOST
  /\ pc[t] \in {"nonce", "check"} => action = ActionOf(call[t])

(* The manager's buffer holds the first k bytes of the page list of t.     *)
Copied(t, k) ==
  /\ xfer.size = arg[t].n
  /\ xfer.chunk = k
  /\ xfer.buf = [i \in 0..(k - 1) |-> <<t, i>>]

(* ... unless a manager without a transfer has taken over.                 *)
CopiedOrLost(t, k) == xfer.info = FH_ACTION_DMA => Copied(t, k)

TransferInv(t) ==
  /\ call[t] = "handshake" /\ Answered(t) =>
       area.w2 = TransferMax /\ CopiedOrLost(t, 0)
  /\ call[t] = "chunk" => tsize[t] = TransferMax /\ remain[t] <= arg[t].n
  /\ call[t] = "chunk" /\ (pc[t] = "fill" \/ Answered(t)) =>
       CopiedOrLost(t, arg[t].n - remain[t])
  /\ call[t] = "chunk" /\ Posted(t) => CopiedOrLost(t, area.body.from)
  /\ call[t] = "dma" /\ (pc[t] = "fill" \/ Posted(t)) =>
       CopiedOrLost(t, arg[t].n)

ChannelInv ==
  /\ FreezeInv
  /\ HostInv
  /\ \A t \in Threads : CallInv(t) /\ RequestInv(t) /\ TransferInv(t)

(* How often the host has carried out the call of t.                       *)
DoneInv(t) ==
  /\ done[t] <= 1
  /\ (pc[t] \in {"lock", "fill"} \/ Posted(t)) => done[t] = 0
  /\ op[t] = "dma" /\ call[t] # "dma" => done[t] = 0
  /\ Answered(t) /\ ~CommonRetNegative(area) /\ call[t] \in ServedOps =>
       done[t] = 1
  /\ pc[t] \in {"idle", "unlock"} /\ res[t] = "ok" => done[t] = 1
  /\ pc[t] \notin {"idle", "unlock"} => res[t] = "none"

-----------------------------------------------------------------------------
(* The inductive invariant behind NoProtocolError: who owns the manager's  *)
(* buffer.                                                                 *)

(* The call of t owns the buffer: its handshake is answered and its DMA is *)
(* not.                                                                    *)
Holding(t) ==
  \/ call[t] = "handshake" /\ Answered(t)
  \/ call[t] = "chunk" /\ pc[t] # "unlock"
  \/ call[t] = "dma" /\ (pc[t] = "fill" \/ Posted(t))

(* The manager still serves the guest.                                     *)
Served == ~sig /\ mgr \notin {"exiting", "down"}

HoldingInv(t) ==
  /\ Holding(t) /\ t \notin hit => xfer.info = FH_ACTION_DMA
  /\ call[t] = "chunk" /\ Answered(t) => area.w0 = StatusOk
  /\ pc[t] = "check" /\ turn # FH_TURN_GUEST /\ fault # t =>
       ~Served \/ ~xfer.ptr

OwnerInv ==
  /\ ~traced => ~Served
  /\ mgr = "down" => ~xfer.ptr
  /\ xfer.ptr /\ Served => \E t \in Threads : Holding(t)

ProtocolInv == OwnerInv /\ \A t \in Threads : HoldingInv(t)

-----------------------------------------------------------------------------
(* The inductive invariant behind DmaOnOwnFile: the descriptors of the     *)
(* first manager.                                                          *)

(* The host has answered the close of t, or never will.                    *)
Closed(t) == op[t] = "close" /\ (Answered(t) \/ pc[t] = "unlock")

OpenFor(fd, t) == fd \in Fds /\ fdtab[fd] = t

DescriptorInv(t) ==
  /\ call[t] = "dma" /\ Posted(t) => area.w0 = file[t]
  /\ starts = 1 /\ mgr # "down" =>
       /\ file[t] # NoFd /\ ~Closed(t) => OpenFor(file[t], t)
       /\ call[t] = "open" /\ Answered(t) /\ ~CommonRetNegative(area) =>
            OpenFor(area.w0, t)

FilesInv == starts >= 1 /\ \A t \in Threads : DescriptorInv(t)
=============================================================================
