------------------------------- MODULE XdmaStub -------------------------------
(***************************************************************************)
(* The guest side of the escape: the file operations of the aarch64 stub   *)
(* driver (xdma_stub/linux-kernel/xdma: fvp_escape.c and cdev_sgdma.c).    *)
(* Every guest thread works on a file of its own and runs one operation at *)
(* a time.  open, close, DMA, ctrl read and ctrl write take the spinlock   *)
(* faultdata_lock; mmap and ctrl ioctl write to the page without it.       *)
(*                                                                         *)
(* An operation escapes one or more times.  An escape is the function      *)
(* fh_do_faulthook and the code around it:                                 *)
(*   fill   write the request structure into the data area                 *)
(*   arm    turn = FH_TURN_HOST, action = the request                      *)
(*   nonce  write the nonce, which traps into the host                     *)
(*   check  turn # FH_TURN_GUEST: the host did not reply, -ENXIO           *)
(*   reply  read the answer from the data area and continue                *)
(***************************************************************************)
EXTENDS EscapePage

CONSTANTS
  Ops,          \* the file operations that each thread uses
  ChunkSizes,   \* sizes in bytes of the page lists a DMA call may pass
  Directions,   \* do_write values of the DMA calls: TRUE to the device
  EscapeSize,   \* fvp_escape_size
  ActionDmaSize,\* sizeof(struct action_dma)
  NoFd          \* the file is not open

LockedOps   == {"open", "close", "dma", "read", "write"}
UnlockedOps == {"mmap", "ioctl"}

ASSUME StubAssumption ==
  /\ Ops \in [Threads -> SUBSET (LockedOps \cup UnlockedOps)]
  /\ ChunkSizes \subseteq Nat \ {0}
  /\ Directions \subseteq BOOLEAN
  /\ EscapeSize \in Nat
  /\ ActionDmaSize \in Nat
  /\ NoFd \notin Int

VARIABLES
  lock,         \* faultdata_lock: its holder or NoThread
  pc,           \* where each thread is
  op,           \* the file operation of the current call, or "none"
  call,         \* the request that the thread escapes with
  res,          \* result of the call: "none" while it runs, "ok" or "err"
  file,         \* faulthook_priv_data.fd of the thread's file, or NoFd
  arg,          \* page_chunk_size and do_write of a DMA call
  tsize,        \* transfer_size of transfer_chunk_to_host
  remain,       \* size_remain of transfer_chunk_to_host
  pinned        \* the user pages of the call are pinned

stubVars == <<lock, pc, op, call, res, file, arg, tsize, remain, pinned>>

Calls == {"none", "open", "close", "handshake", "chunk", "dma", "read", "write",
          "mmap"}

NoArg == [n |-> 0, write |-> FALSE]

PCs == {"idle", "lock", "fill", "arm", "nonce", "check", "reply", "unlock",
        "relock", "memset"}

ActionOf(c) ==
  CASE c = "open"  -> FH_ACTION_OPEN_DEVICE
    [] c = "close" -> FH_ACTION_CLOSE_DEVICE
    [] c = "dma"   -> FH_ACTION_DMA
    [] c = "read"  -> FH_ACTION_READ
    [] c = "write" -> FH_ACTION_WRITE
    [] c = "mmap"  -> FH_ACTION_MMAP
    [] OTHER       -> FH_ACTION_TRANSFER_ESCAPE_DATA

StubInit ==
  /\ lock = NoThread
  /\ pc = [t \in Threads |-> "idle"]
  /\ op = [t \in Threads |-> "none"]
  /\ call = [t \in Threads |-> "none"]
  /\ res = [t \in Threads |-> "none"]
  /\ file = [t \in Threads |-> NoFd]
  /\ arg = [t \in Threads |-> NoArg]
  /\ tsize = [t \in Threads |-> 0]
  /\ remain = [t \in Threads |-> 0]
  /\ pinned = [t \in Threads |-> FALSE]

-----------------------------------------------------------------------------
(* Entry of a file operation.                                              *)

Goto(t, from, to) ==
  /\ GuestRuns
  /\ pc[t] = from
  /\ pc' = [pc EXCEPT ![t] = to]

Enter(t, o, to) ==
  /\ o \in Ops[t]
  /\ Goto(t, "idle", to)
  /\ op' = [op EXCEPT ![t] = o]
  /\ call' = [call EXCEPT ![t] = IF o = "dma" THEN "handshake" ELSE o]
  /\ res' = [res EXCEPT ![t] = "none"]
  /\ done' = [done EXCEPT ![t] = 0]
  /\ hit' = hit \ {t}
  /\ UNCHANGED <<turn, action, area, fault, traced, lock, file, tsize, remain>>

(* fh_char_open, fh_char_close, fh_char_ctrl_read, fh_char_ctrl_write      *)
EnterLocked(t) ==
  /\ \E o \in {"open", "close", "read", "write"} :
       /\ (o = "open") <=> (file[t] = NoFd)
       /\ Enter(t, o, "lock")
  /\ UNCHANGED <<arg, pinned>>

(* char_sgdma_read_write up to the lock: pin the user pages, set up the    *)
(* scatter list and compare the size of the page list with the page.       *)
EnterDma(t) ==
  /\ file[t] # NoFd
  /\ Enter(t, "dma", "lock")
  /\ \E n \in ChunkSizes, write \in Directions :
       /\ ActionDmaSize + n <= EscapeSize
       /\ arg' = [arg EXCEPT ![t] = [n |-> n, write |-> write]]
  /\ pinned' = [pinned EXCEPT ![t] = TRUE]

(* A call that returns before it reaches the page: no memory for the       *)
(* private data of open or for the mapping of mmap, or a DMA buffer that   *)
(* cannot be pinned or whose page list does not fit the escape page.       *)
(* Pages that such a DMA call leaves pinned are not counted.               *)
EnterEarlyReturn(t) ==
  /\ GuestRuns
  /\ pc[t] = "idle"
  /\ \E o \in Ops[t] \cap {"open", "dma", "mmap"} :
       (o = "open") <=> (file[t] = NoFd)
  /\ res' = [res EXCEPT ![t] = "err"]
  /\ done' = [done EXCEPT ![t] = 0]
  /\ hit' = hit \ {t}
  /\ UNCHANGED <<turn, action, area, fault, traced, lock, pc, op, call, file,
                 arg, tsize, remain, pinned>>

(* fh_bridge_mmap up to the request: it takes no lock.                     *)
EnterMmap(t) ==
  /\ file[t] # NoFd
  /\ Enter(t, "mmap", "memset")
  /\ UNCHANGED <<arg, pinned>>

(* A request structure over the common header: common.fd, then its fields. *)
Request(fd, body) == Data(fd, area.w1, area.w2, area.w3, body)

(* fh_char_ctrl_ioctl: writes fd, cmd and arg into the data area without   *)
(* the lock and returns 0 without an escape.                               *)
CtrlIoctl(t) ==
  /\ GuestRuns
  /\ "ioctl" \in Ops[t]
  /\ pc[t] = "idle"
  /\ file[t] # NoFd
  /\ area' = Request(file[t], Written("ioctl", t))
  /\ res' = [res EXCEPT ![t] = "ok"]
  /\ done' = [done EXCEPT ![t] = 0]
  /\ hit' = hit \ {t}
  /\ UNCHANGED <<turn, action, fault, traced, lock, pc, op, call, file, arg,
                 tsize, remain, pinned>>

(* Faulty variant: the lock is not waited for.                             *)
FdDataLockNoWait(t) ==
  /\ Goto(t, "lock", "fill")
  /\ lock' = t
  /\ UNCHANGED <<pageVars, op, call, res, file, arg, tsize, remain, pinned>>

(* fd_data_lock()                                                          *)
FdDataLock(t) ==
  /\ Goto(t, "lock", "fill")
  /\ lock = NoThread
  /\ lock' = t
  /\ UNCHANGED <<pageVars, op, call, res, file, arg, tsize, remain, pinned>>

-----------------------------------------------------------------------------
(* Filling the data area with the request.                                 *)

Filled(t, a) ==
  /\ Goto(t, "fill", "arm")
  /\ area' = a
  /\ UNCHANGED <<turn, action, fault, traced, done, hit, lock, op, call, res, file,
                 arg, tsize, pinned>>

(* fh_char_open writes device and flags, fh_char_close the descriptor.     *)
FillOpenClose(t) ==
  /\ \/ /\ call[t] = "open"
        /\ Filled(t, Request(area.w0, Written("open", t)))
     \/ /\ call[t] = "close"
        /\ Filled(t, Request(file[t], area.body))
  /\ UNCHANGED remain

(* fh_char_ctrl_read and fh_char_ctrl_write: fd, offset and count.         *)
FillReadWrite(t) ==
  /\ call[t] \in {"read", "write"}
  /\ Filled(t, Request(file[t], Written("rw", t)))
  /\ UNCHANGED remain

(* fh_char_ctrl_write without an escape: the user buffer cannot be copied; *)
(* clean_up takes the lock that the thread already holds.                  *)
FillWriteFault(t) ==
  /\ call[t] = "write"
  /\ Goto(t, "fill", "relock")
  /\ area' = Request(file[t], Written("rw", t))
  /\ UNCHANGED <<turn, action, fault, traced, done, hit, lock, op, call, res, file,
                 arg, tsize, remain, pinned>>

(* transfer_chunk_to_host: announce the size of the page list.             *)
FillHandshake(t) ==
  /\ call[t] = "handshake"
  /\ Filled(t, Data(StatusTransferSize, arg[t].n, 0, FH_ACTION_DMA, area.body))
  /\ UNCHANGED remain

MinOf(a, b) == IF a < b THEN a ELSE b

(* Faulty variant: every chunk is copied from the start of the page list.  *)
FillChunkFromStart(t) ==
  LET transfer == MinOf(tsize[t], remain[t]) IN
  /\ call[t] = "chunk"
  /\ Filled(t, Data(StatusTransferData, transfer, 0, 0,
                    [view |-> "chunk", by |-> t, from |-> 0, n |-> transfer,
                     write |-> FALSE]))
  /\ remain' = [remain EXCEPT ![t] = @ - transfer]

(* Faulty variant: a full chunk is subtracted for the last one, too.       *)
FillChunkNoMin(t) ==
  LET transfer == MinOf(tsize[t], remain[t]) IN
  /\ call[t] = "chunk"
  /\ Filled(t, Data(StatusTransferData, transfer, 0, 0,
                    [view |-> "chunk", by |-> t, from |-> arg[t].n - remain[t],
                     n |-> transfer, write |-> FALSE]))
  /\ remain' = [remain EXCEPT ![t] = @ - tsize[t]]

(* transfer_chunk_to_host: copy the next chunk.  Its first words overlay   *)
(* w2 and w3; they are parts of page frame numbers and lengths, of which   *)
(* nothing but the sign is ever read again.                                *)
FillChunk(t) ==
  LET transfer == MinOf(tsize[t], remain[t]) IN
  /\ call[t] = "chunk"
  /\ Filled(t, Data(StatusTransferData, transfer, 0, 0,
                    [view |-> "chunk", by |-> t, from |-> arg[t].n - remain[t],
                     n |-> transfer, write |-> FALSE]))
  /\ remain' = [remain EXCEPT ![t] = @ - transfer]

(* char_sgdma_read_write: the DMA request that follows the transfer.       *)
FillDma(t) ==
  /\ call[t] = "dma"
  /\ Filled(t, Request(file[t], [view |-> "dma", by |-> t, from |-> 0,
                                 n |-> arg[t].n, write |-> arg[t].write]))
  /\ UNCHANGED remain

(* fh_bridge_mmap: memset of the request structure, then its fields.       *)
MemsetMmap(t) ==
  /\ Goto(t, "memset", "fill")
  /\ area' = ZeroArea
  /\ UNCHANGED <<turn, action, fault, traced, done, hit, lock, op, call, res, file,
                 arg, tsize, remain, pinned>>

FillMmap(t) ==
  /\ call[t] = "mmap"
  /\ Filled(t, Request(file[t], Written("mmap", t)))
  /\ UNCHANGED remain

-----------------------------------------------------------------------------
(* fh_do_faulthook                                                         *)

Arm(t) ==
  /\ Goto(t, "arm", "nonce")
  /\ turn' = FH_TURN_HOST
  /\ action' = ActionOf(call[t])
  /\ UNCHANGED <<area, fault, traced, done, hit, lock, op, call, res, file, arg,
                 tsize, remain, pinned>>

WriteNonce(t) ==
  /\ Goto(t, "nonce", "check")
  /\ fault' = IF traced THEN t ELSE NoThread
  /\ UNCHANGED <<turn, action, area, traced, done, hit, lock, op, call, res, file,
                 arg, tsize, remain, pinned>>

(* A call returns: its local variables are gone.                           *)
Return(t, from, r) ==
  /\ Goto(t, from, "idle")
  /\ op' = [op EXCEPT ![t] = "none"]
  /\ call' = [call EXCEPT ![t] = "none"]
  /\ res' = [res EXCEPT ![t] = r]
  /\ arg' = [arg EXCEPT ![t] = NoArg]
  /\ tsize' = [tsize EXCEPT ![t] = 0]
  /\ remain' = [remain EXCEPT ![t] = 0]
  /\ pinned' = [pinned EXCEPT ![t] = FALSE]
  /\ UNCHANGED pageVars

ToUnlock(t, from, r) ==
  /\ Goto(t, from, "unlock")
  /\ res' = [res EXCEPT ![t] = r]
  /\ UNCHANGED <<pageVars, lock, op, call, arg, tsize, remain, pinned>>

(* The call is over: the locked ones go on to unlock.                      *)
Leave(t, from, r) ==
  \/ op[t] = "mmap" /\ Return(t, from, r) /\ UNCHANGED lock
  \/ op[t] # "mmap" /\ ToUnlock(t, from, r)

(* Faulty variant: the error path returns with the lock held.              *)
CheckNoReplyKeepsLock(t) ==
  /\ turn # FH_TURN_GUEST
  /\ call[t] \notin {"read", "write"}
  /\ Return(t, "check", "err")
  /\ UNCHANGED <<lock, file>>

(* turn # FH_TURN_GUEST: -ENXIO, which ctrl read and ctrl write ignore.    *)
CheckNoReply(t) ==
  /\ turn # FH_TURN_GUEST
  /\ call[t] \notin {"read", "write"}
  /\ Leave(t, "check", "err")
  /\ UNCHANGED file

(* Faulty variant: the turn is not checked.                                *)
CheckReplyAlways(t) ==
  /\ Goto(t, "check", "reply")
  /\ UNCHANGED <<pageVars, lock, op, call, res, file, arg, tsize, remain,
                 pinned>>

CheckReply(t) ==
  /\ turn = FH_TURN_GUEST \/ call[t] \in {"read", "write"}
  /\ Goto(t, "check", "reply")
  /\ UNCHANGED <<pageVars, lock, op, call, res, file, arg, tsize, remain,
                 pinned>>

-----------------------------------------------------------------------------
(* Reading the reply.                                                      *)

(* fh_char_open: common.ret < 0 fails, otherwise common.fd is the key of   *)
(* the device on the host.                                                 *)
ReplyOpen(t) ==
  /\ call[t] = "open"
  /\ IF CommonRetNegative(area)
     THEN Leave(t, "reply", "err") /\ UNCHANGED file
     ELSE Leave(t, "reply", "ok") /\ file' = [file EXCEPT ![t] = area.w0]

(* fh_char_close, the end of char_sgdma_read_write, fh_char_ctrl_read and  *)
(* fh_bridge_mmap look at common.ret only; the latter can still fail in    *)
(* remap_pfn_range.                                                        *)
ReplyRet(t) ==
  /\ call[t] \in {"close", "dma", "read", "mmap"}
  /\ \/ ~CommonRetNegative(area) /\ Leave(t, "reply", "ok")
     \/ /\ CommonRetNegative(area) \/ call[t] = "mmap"
        /\ Leave(t, "reply", "err")
  /\ UNCHANGED file

(* transfer_chunk_to_host after the handshake: it trusts chunk_size.       *)
ReplyHandshake(t) ==
  /\ call[t] = "handshake"
  /\ Goto(t, "reply", "fill")
  /\ call' = [call EXCEPT ![t] = "chunk"]
  /\ tsize' = [tsize EXCEPT ![t] = IF area.w2 < 0 THEN AllOnes ELSE area.w2]
  /\ remain' = [remain EXCEPT ![t] = arg[t].n]
  /\ UNCHANGED <<pageVars, lock, op, res, file, arg, pinned>>

(* transfer_chunk_to_host after a chunk: repeat while the status is ok and *)
(* something remains; the DMA request follows the last chunk.              *)
ReplyChunk(t) ==
  /\ call[t] = "chunk"
  /\ area.w0 = StatusOk
  /\ Goto(t, "reply", "fill")
  /\ call' = [call EXCEPT ![t] = IF remain[t] > 0 THEN "chunk" ELSE "dma"]
  /\ UNCHANGED <<pageVars, lock, op, res, file, arg, tsize, remain, pinned>>

ReplyChunkFailed(t) ==
  /\ call[t] = "chunk"
  /\ area.w0 # StatusOk
  /\ Leave(t, "reply", "err")
  /\ UNCHANGED file

(* fh_char_ctrl_write: its clean_up takes the lock it already holds and    *)
(* spins on it for ever; there is no step out of "relock".                 *)
ReplyWrite(t) ==
  /\ call[t] = "write"
  /\ Goto(t, "reply", "relock")
  /\ UNCHANGED <<pageVars, lock, op, call, res, file, arg, tsize, remain,
                 pinned>>

(* fd_data_unlock() and what follows it: kfree(private_data) after close,  *)
(* unpin after a DMA.                                                      *)
FdDataUnlock(t) ==
  /\ Return(t, "unlock", res[t])
  /\ lock' = NoThread
  /\ file' = [file EXCEPT ![t] = IF op[t] = "close" THEN NoFd ELSE @]

-----------------------------------------------------------------------------
Fill(t) ==
  \/ FillOpenClose(t) \/ FillReadWrite(t) \/ FillWriteFault(t)
  \/ FillHandshake(t) \/ FillChunk(t) \/ FillDma(t) \/ MemsetMmap(t)
  \/ FillMmap(t)

Reply(t) ==
  \/ ReplyOpen(t) \/ ReplyRet(t) \/ ReplyHandshake(t) \/ ReplyChunk(t)
  \/ ReplyChunkFailed(t) \/ ReplyWrite(t)

(* The steps of a call that has started and owns the lock it needs.        *)
Step(t) ==
  \/ Fill(t) \/ Arm(t) \/ WriteNonce(t) \/ CheckNoReply(t) \/ CheckReply(t)
  \/ Reply(t) \/ FdDataUnlock(t)

StartCall(t) ==
  \/ EnterLocked(t) \/ EnterDma(t) \/ EnterEarlyReturn(t) \/ EnterMmap(t)
  \/ CtrlIoctl(t)

StubTypeOK ==
  /\ lock \in Threads \cup {NoThread}
  /\ pc \in [Threads -> PCs]
  /\ op \in [Threads -> LockedOps \cup UnlockedOps \cup {"none"}]
  /\ call \in [Threads -> Calls]
  /\ res \in [Threads -> {"none", "ok", "err"}]
  /\ file \in [Threads -> Int \cup {NoFd}]
  /\ arg \in [Threads -> [n: Nat, write: BOOLEAN]]
  /\ tsize \in [Threads -> Nat]
  /\ remain \in [Threads -> Nat]
  /\ pinned \in [Threads -> BOOLEAN]
=============================================================================
