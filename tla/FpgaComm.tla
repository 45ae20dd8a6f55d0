------------------------------- MODULE FpgaComm -------------------------------
(***************************************************************************)
(* The host side of the escape: the listener thread of the user space      *)
(* manager (fh_host.c, _fh_fault_handler), its handler on_fault            *)
(* (fpga_comm.c) with the static buffer of the data transfer, and the ends *)
(* of the manager's life: a handler that fails ends the listener and with  *)
(* it the manager, a signal runs the crash handler in another thread, and  *)
(* an operator may start the manager again.                                *)
(*                                                                         *)
(* The listener is                                                         *)
(*   idle      in poll()                                                   *)
(*   dma       inside ioctl(FH_HOST_IOCTL_DMA): the device moves data      *)
(*   complete  past on_fault, before FAULTHOOK_IOCTL_CMD_HOOK_COMPLETED    *)
(*   exiting   on_fault or a call of the hook failed: the thread has left  *)
(*             its loop                                                    *)
(*   down      there is no manager process                                 *)
(***************************************************************************)
EXTENDS EscapePage

CONSTANTS
  TransferMax,        \* transfer_max: what fits behind the structures
  Fds,                \* descriptors that open() can return
  MaxStarts,          \* bound: how often the manager is started
  SignalWhileServing  \* signals may arrive while on_fault runs

ASSUME CommAssumption ==
  /\ TransferMax \in Nat \ {0}
  /\ TransferMax < AllOnes
  /\ Fds \subseteq Nat
  /\ MaxStarts \in Nat \ {0}
  /\ SignalWhileServing \in BOOLEAN

VARIABLES
  mgr,          \* what the listener does, see above
  sig,          \* the crash handler has run fh_disable_trace
  xfer,         \* the static action_transfer_data_* variables
  fdtab,        \* open descriptors of the manager: for which thread's file
  starts,       \* how often the manager has been started
  dismissed     \* history: a fault was treated as unintentional

commVars == <<mgr, sig, xfer, fdtab, starts, dismissed>>

Byte == (Threads \cup {NoThread}) \X Int

EmptyBuf == [i \in {} |-> <<NoThread, 0>>]

(* do_action_transfer_escape_data_free, and the state of a new process     *)
NoXfer == [ptr |-> FALSE, size |-> 0, chunk |-> 0, info |-> 0,
           buf |-> EmptyBuf]

NoFds == [fd \in Fds |-> NoThread]

CommInit ==
  /\ mgr = "idle"
  /\ sig = FALSE
  /\ xfer = NoXfer
  /\ fdtab = NoFds
  /\ starts = 1
  /\ dismissed = FALSE

-----------------------------------------------------------------------------
(* Building blocks of on_fault.                                            *)

(* poll() has returned and the fault is a request.                         *)
Serving(a) ==
  /\ mgr = "idle"
  /\ fault # NoThread
  /\ turn = FH_TURN_HOST
  /\ action = a

(* on_fault returns 0 after turn = FH_TURN_GUEST.                          *)
Answer(a) ==
  /\ area' = a
  /\ turn' = FH_TURN_GUEST
  /\ mgr' = "complete"
  /\ UNCHANGED <<action, fault, traced, hit, sig, starts, dismissed>>

(* on_fault returns a negative value: turn stays FH_TURN_HOST.             *)
Refuse(a) ==
  /\ area' = a
  /\ mgr' = "exiting"
  /\ UNCHANGED <<turn, action, fault, traced, done, hit, sig, fdtab, starts,
                 dismissed>>

(* History: the host carried out a call for thread t.                      *)
Carried(t) ==
  done' = IF t \in Threads
          THEN [done EXCEPT ![t] = IF @ < 2 THEN @ + 1 ELSE 2] ELSE done

-----------------------------------------------------------------------------
(* on_fault                                                                *)

(* turn # FH_TURN_HOST: "fault was caused unintentionally".                *)
Dismiss ==
  /\ mgr = "idle"
  /\ fault # NoThread
  /\ turn # FH_TURN_HOST
  /\ mgr' = "complete"
  /\ dismissed' = TRUE
  /\ UNCHANGED <<pageVars, sig, xfer, fdtab, starts>>

(* FH_ACTION_OPEN_DEVICE; a request that was not written as one names no   *)
(* device.                                                                 *)
ServeOpen ==
  /\ Serving(FH_ACTION_OPEN_DEVICE)
  /\ \/ \E fd \in Fds :
          /\ area.body.view = "open"
          /\ fdtab[fd] = NoThread
          /\ \A g \in Fds : g < fd => fdtab[g] # NoThread
          /\ fdtab' = [fdtab EXCEPT ![fd] = area.body.by]
          /\ Answer(SetRetAndErrNo(area, fd))
          /\ Carried(area.body.by)
     \/ /\ Answer(SetRetAndErrNo(area, -1))
        /\ UNCHANGED <<fdtab, done>>
  /\ UNCHANGED xfer

(* FH_ACTION_CLOSE_DEVICE                                                  *)
ServeClose ==
  /\ Serving(FH_ACTION_CLOSE_DEVICE)
  /\ \/ /\ area.w0 \in Fds
        /\ fdtab[area.w0] # NoThread
        /\ fdtab' = [fdtab EXCEPT ![area.w0] = NoThread]
        /\ Answer(SetRetAndErrNo(area, 0))
        /\ Carried(fault)
     \/ /\ ~(area.w0 \in Fds /\ fdtab[area.w0] # NoThread)
        /\ Answer(SetRetAndErrNo(area, -1))
        /\ UNCHANGED <<fdtab, done>>
  /\ UNCHANGED xfer

(* FH_ACTION_MMAP: translate the page frame numbers and pass them to the   *)
(* driver; without memory for the addresses on_fault gives up.             *)
ServeMmap ==
  /\ Serving(FH_ACTION_MMAP)
  /\ \/ /\ area.w0 \in Fds
        /\ fdtab[area.w0] # NoThread
        /\ Answer(SetRetAndErrNo(area, 0))
        /\ Carried(fault)
        /\ UNCHANGED fdtab
     \/ Answer(SetRetAndErrNo(area, -1)) /\ UNCHANGED <<fdtab, done>>
     \/ Refuse(area)
  /\ UNCHANGED xfer

(* do_action_transfer_escape_data, the handshake                           *)
ServeHandshake ==
  /\ Serving(FH_ACTION_TRANSFER_ESCAPE_DATA)
  /\ area.w0 = StatusTransferSize
  /\ xfer' = [ptr |-> TRUE, size |-> area.w1, chunk |-> 0, info |-> area.w3,
              buf |-> EmptyBuf]
  /\ Answer(Data(StatusOk, area.w1, TransferMax, area.w3, area.body))
  /\ UNCHANGED <<fdtab, done>>

(* The handshake without memory for the buffer.                            *)
RefuseHandshake ==
  /\ Serving(FH_ACTION_TRANSFER_ESCAPE_DATA)
  /\ area.w0 = StatusTransferSize
  /\ xfer' = [ptr |-> FALSE, size |-> area.w1, chunk |-> 0, info |-> area.w3,
              buf |-> EmptyBuf]
  /\ Refuse(Data(StatusError, area.w1, TransferMax, area.w3, area.body))

Transfer == IF area.w1 < TransferMax THEN area.w1 ELSE TransferMax

ByteAt(i) == IF area.body.view = "chunk"
             THEN <<area.body.by, area.body.from + i>> ELSE <<NoThread, 0>>

(* memcpy(action_transfer_data_ptr + action_transfer_data_chunk, ...)      *)
CopiedBuf ==
  [i \in 0..(xfer.chunk + Transfer - 1) |->
     IF i < xfer.chunk THEN xfer.buf[i] ELSE ByteAt(i - xfer.chunk)]

CopyChunk ==
  [ptr |-> xfer.ptr, size |-> xfer.size, chunk |-> xfer.chunk + Transfer,
   info |-> xfer.info, buf |-> CopiedBuf]

(* Faulty variant: no bounds check.                                        *)
ServeChunkUnbounded ==
  /\ Serving(FH_ACTION_TRANSFER_ESCAPE_DATA)
  /\ area.w0 = StatusTransferData
  /\ xfer' = CopyChunk
  /\ Answer(Data(StatusOk, area.w1, area.w2, area.w3, area.body))
  /\ UNCHANGED <<fdtab, done>>

(* do_action_transfer_escape_data, a chunk                                 *)
ServeChunk ==
  /\ Serving(FH_ACTION_TRANSFER_ESCAPE_DATA)
  /\ area.w0 = StatusTransferData
  /\ xfer.chunk + Transfer <= xfer.size
  /\ xfer' = CopyChunk
  /\ Answer(Data(StatusOk, area.w1, area.w2, area.w3, area.body))
  /\ UNCHANGED <<fdtab, done>>

RefuseChunk ==
  /\ Serving(FH_ACTION_TRANSFER_ESCAPE_DATA)
  /\ area.w0 = StatusTransferData
  /\ xfer.chunk + Transfer > xfer.size
  /\ Refuse(area)
  /\ UNCHANGED xfer

(* do_action_transfer_escape_data with any other status: a message, and    *)
(* the unchanged page goes back.                                           *)
ServeUnknownStatus ==
  /\ Serving(FH_ACTION_TRANSFER_ESCAPE_DATA)
  /\ area.w0 \notin {StatusTransferSize, StatusTransferData}
  /\ Answer(area)
  /\ UNCHANGED <<xfer, fdtab, done>>

(* do_dma: every page frame number has a mapping, the ioctl starts.        *)
StartDma ==
  /\ Serving(FH_ACTION_DMA)
  /\ xfer.info = FH_ACTION_DMA
  /\ area.w0 \in Fds
  /\ fdtab[area.w0] # NoThread
  /\ mgr' = "dma"
  /\ UNCHANGED <<pageVars, sig, xfer, fdtab, starts, dismissed>>

(* Faulty variant: the buffer of the transfer is not freed.                *)
FinishDmaKeepsBuffer ==
  /\ mgr = "dma"
  /\ Carried(area.body.by)
  /\ Answer(SetRetAndErrNo(area, 0))
  /\ UNCHANGED <<xfer, fdtab>>

(* do_dma after the ioctl: answer and free the buffer.                     *)
FinishDma ==
  /\ mgr = "dma"
  /\ Carried(area.body.by)
  /\ Answer(SetRetAndErrNo(area, 0))
  /\ xfer' = NoXfer
  /\ UNCHANGED fdtab

(* do_dma without a transfer beforehand: the buffer stays.                 *)
RefuseDma ==
  /\ Serving(FH_ACTION_DMA)
  /\ xfer.info # FH_ACTION_DMA
  /\ Refuse(SetRetAndErrNo(area, -1))
  /\ UNCHANGED xfer

(* do_dma when a page has no mapping, the descriptor is not open or the    *)
(* driver reports an error: the buffer is freed, on_fault fails.           *)
FailDma ==
  /\ \/ Serving(FH_ACTION_DMA) /\ xfer.info = FH_ACTION_DMA
     \/ mgr = "dma"
  /\ Refuse(SetRetAndErrNo(area, -1))
  /\ xfer' = NoXfer

(* Actions without a case: a message, then the turn goes back.             *)
ServeUnknownAction ==
  /\ \E a \in {FH_ACTION_READ, FH_ACTION_WRITE} : Serving(a)
  /\ Answer(area)
  /\ UNCHANGED <<xfer, fdtab, done>>

OnFault ==
  \/ Dismiss \/ ServeOpen \/ ServeClose \/ ServeMmap \/ ServeHandshake
  \/ RefuseHandshake \/ ServeChunk \/ RefuseChunk \/ ServeUnknownStatus
  \/ StartDma \/ FinishDma \/ RefuseDma \/ FailDma \/ ServeUnknownAction

-----------------------------------------------------------------------------
(* The listener and the manager's life.                                    *)

(* FAULTHOOK_IOCTL_CMD_HOOK_COMPLETED: the guest continues.                *)
HookCompleted ==
  /\ mgr = "complete"
  /\ mgr' = "idle"
  /\ fault' = NoThread
  /\ UNCHANGED <<turn, action, area, traced, done, hit, sig, xfer, fdtab, starts,
                 dismissed>>

(* poll() or FAULTHOOK_IOCTL_CMD_HOOK_COMPLETED fails: the listener leaves *)
(* its loop.                                                               *)
ListenerFails ==
  /\ mgr \in {"idle", "complete"}
  /\ mgr' = "exiting"
  /\ UNCHANGED <<pageVars, sig, xfer, fdtab, starts, dismissed>>

(* The process ends: after the listener has left its loop main unmaps the  *)
(* page and disables the trace; the crash handler ends in exit().          *)
ManagerExit ==
  /\ mgr = "exiting" \/ (sig /\ mgr # "down")
  /\ mgr' = "down"
  /\ sig' = FALSE
  /\ traced' = FALSE
  /\ fault' = NoThread
  /\ xfer' = NoXfer
  /\ fdtab' = NoFds
  /\ hit' = Threads
  /\ UNCHANGED <<turn, action, area, done, starts, dismissed>>

(* _fh_crash_handler: its first act is fh_disable_trace, which releases    *)
(* the guest; the listener thread lives on until exit().                   *)
Signal ==
  /\ mgr \in (IF SignalWhileServing THEN {"idle", "dma", "complete"}
              ELSE {"idle"})
  /\ ~sig
  /\ sig' = TRUE
  /\ traced' = FALSE
  /\ fault' = NoThread
  /\ UNCHANGED <<turn, action, area, done, hit, mgr, xfer, fdtab, starts, dismissed>>

(* main of a new manager: the static variables are zero, no descriptor is  *)
(* open, and the trace is enabled again.                                   *)
ManagerStart ==
  /\ mgr = "down"
  /\ starts < MaxStarts
  /\ mgr' = "idle"
  /\ traced' = TRUE
  /\ starts' = starts + 1
  /\ UNCHANGED <<turn, action, area, fault, done, hit, sig, xfer, fdtab, dismissed>>

Listener == OnFault \/ HookCompleted \/ ManagerExit

CommTypeOK ==
  /\ mgr \in {"idle", "dma", "complete", "exiting", "down"}
  /\ sig \in BOOLEAN
  /\ xfer.ptr \in BOOLEAN
  /\ xfer.size \in Nat
  /\ xfer.chunk \in Nat
  /\ xfer.info \in Nat
  /\ xfer.buf \in [0..(xfer.chunk - 1) -> Byte]
  /\ fdtab \in [Fds -> Threads \cup {NoThread}]
  /\ starts \in Nat
  /\ dismissed \in BOOLEAN
=============================================================================
