------------------------- MODULE EscapeChannelProofs -------------------------
(***************************************************************************)
(* Machine-checked properties of the escape channel, for any set of        *)
(* threads, any page lists and any number of manager starts.               *)
(***************************************************************************)
EXTENDS EscapeChannel, TLAPS

USE DEF FH_TURN_HOST, FH_TURN_GUEST, StatusOk, StatusTransferSize,
        StatusTransferData, FH_ACTION_NOACTION, FH_ACTION_OPEN_DEVICE,
        FH_ACTION_CLOSE_DEVICE, FH_ACTION_MMAP, FH_ACTION_READ,
        FH_ACTION_WRITE, FH_ACTION_SETUP, FH_ACTION_DMA,
        FH_ACTION_TRANSFER_ESCAPE_DATA

-----------------------------------------------------------------------------
(* Helpers: the values that go into the page are values of the data area.  *)

LEMMA NoBodyType == NoBody \in Body
BY DEF NoBody, Written, Body, Views

LEMMA SetRetType ==
  ASSUME NEW a \in Area, NEW r \in Int
  PROVE  SetRetAndErrNo(a, r) \in Area
BY PageAssumption DEF SetRetAndErrNo, Area, Data, EIO

LEMMA ActionOfType ==
  ASSUME NEW c \in Calls PROVE ActionOf(c) \in Actions
BY DEF ActionOf, Actions, Calls

LEMMA NoXferType ==
  /\ NoXfer.ptr \in BOOLEAN
  /\ NoXfer.size \in Nat
  /\ NoXfer.chunk \in Nat
  /\ NoXfer.info \in Nat
  /\ NoXfer.buf \in [0..(NoXfer.chunk - 1) -> Byte]
BY DEF NoXfer, EmptyBuf, Byte

(* Type correctness of the initial state.                                  *)
LEMMA InitType == Init => TypeOK
<1> SUFFICES ASSUME Init PROVE TypeOK
  OBVIOUS
<1>1. PageTypeOK
  BY NoBodyType DEF Init, PageInit, PageTypeOK, ZeroArea, Data, Area, Actions
<1>2. StubTypeOK
  BY DEF Init, StubInit, StubTypeOK, PCs, Calls, NoArg
<1>3. CommTypeOK
  BY NoXferType DEF Init, CommInit, CommTypeOK, NoFds
<1> QED BY <1>1, <1>2, <1>3 DEF TypeOK

LEMMA WrittenType ==
  ASSUME NEW v \in Views, NEW t \in Threads PROVE Written(v, t) \in Body
BY DEF Written, Body

LEMMA DataType ==
  ASSUME NEW w0 \in Int, NEW w1 \in Nat, NEW w2 \in Int, NEW w3 \in Nat,
         NEW b \in Body
  PROVE  Data(w0, w1, w2, w3, b) \in Area
BY DEF Data, Area

LEMMA RequestType ==
  ASSUME TypeOK, NEW fd \in Int, NEW b \in Body
  PROVE  Request(fd, b) \in Area
<1>1. area.w1 \in Nat /\ area.w2 \in Int /\ area.w3 \in Nat
  BY DEF TypeOK, PageTypeOK, Area
<1> QED BY <1>1, DataType DEF Request

-----------------------------------------------------------------------------
(* Type correctness of the steps of the guest.                             *)

(* The entry of a file operation.                                          *)
LEMMA StartCallType ==
  ASSUME BaseInv, NEW t \in Threads, StartCall(t), UNCHANGED commVars
  PROVE  TypeOK'
<1> USE DEF BaseInv, TypeOK, PageTypeOK, StubTypeOK, PCs, Calls, LockedOps,
            UnlockedOps, Goto, Enter
<1>0. CommTypeOK'
  BY DEF CommTypeOK, commVars
<1>1. CASE EnterLocked(t)
  BY <1>0, <1>1 DEF EnterLocked
<1>2. CASE EnterDma(t)
  BY <1>0, <1>2, StubAssumption DEF EnterDma
<1>3. CASE EnterEarlyReturn(t)
  BY <1>0, <1>3 DEF EnterEarlyReturn
<1>4. CASE EnterMmap(t)
  BY <1>0, <1>4 DEF EnterMmap
<1>5. CASE CtrlIoctl(t)
  <2>1. file[t] \in Int
    BY <1>5 DEF CtrlIoctl
  <2>2. area' \in Area
    BY <1>5, <2>1, RequestType, WrittenType DEF CtrlIoctl, Views
  <2> QED BY <1>0, <1>5, <2>2 DEF CtrlIoctl
<1> QED BY <1>1, <1>2, <1>3, <1>4, <1>5 DEF StartCall

(* The steps that fill the data area, and MemsetMmap.                      *)
LEMMA FillType ==
  ASSUME BaseInv, NEW t \in Threads, Fill(t), UNCHANGED commVars
  PROVE  TypeOK'
<1> USE DEF BaseInv, TypeOK
<1>0. CommTypeOK'
  BY DEF CommTypeOK, commVars
<1>1. /\ file[t] \in Int \cup {NoFd}
      /\ call[t] \notin {"none", "open"} => file[t] \in Int
      /\ arg[t] \in [n: Nat, write: BOOLEAN]
      /\ arg[t].n \in Nat
      /\ arg[t].write \in BOOLEAN
      /\ tsize[t] \in Nat
      /\ remain[t] \in Nat
      /\ area.w0 \in Int
      /\ area.body \in Body
  BY DEF StubTypeOK, PageTypeOK, Area, FileInv
<1>2. ASSUME NEW a \in Area, Filled(t, a), remain' \in [Threads -> Nat]
      PROVE  TypeOK'
  BY <1>0, <1>2 DEF Filled, Goto, PageTypeOK, StubTypeOK, PCs
<1>3. ASSUME UNCHANGED remain PROVE remain' \in [Threads -> Nat]
  BY <1>3 DEF StubTypeOK
<1>4. CASE FillOpenClose(t)
  <2>1. Request(area.w0, Written("open", t)) \in Area
    BY <1>1, RequestType, WrittenType DEF Views
  <2>2. call[t] = "close" => Request(file[t], area.body) \in Area
    BY <1>1, RequestType
  <2> QED BY <1>2, <1>3, <1>4, <2>1, <2>2 DEF FillOpenClose
<1>5. CASE FillReadWrite(t)
  <2>1. Request(file[t], Written("rw", t)) \in Area
    BY <1>1, <1>5, RequestType, WrittenType DEF Views, FillReadWrite
  <2> QED BY <1>2, <1>3, <1>5, <2>1 DEF FillReadWrite
<1>6. CASE FillHandshake(t)
  <2>1. Data(StatusTransferSize, arg[t].n, 0, FH_ACTION_DMA, area.body) \in Area
    BY <1>1, DataType
  <2> QED BY <1>2, <1>3, <1>6, <2>1 DEF FillHandshake
<1>7. CASE FillChunk(t)
  <2> DEFINE transfer == MinOf(tsize[t], remain[t])
             b == [view |-> "chunk", by |-> t, from |-> arg[t].n - remain[t],
                   n |-> transfer, write |-> FALSE]
  <2>1. transfer \in Nat /\ remain[t] - transfer \in Nat
    BY <1>1 DEF MinOf
  <2>2. b \in Body
    BY <1>1, <2>1 DEF Body, Views
  <2>3. Filled(t, Data(StatusTransferData, transfer, 0, 0, b))
    BY <1>7 DEF FillChunk
  <2>4. remain' \in [Threads -> Nat]
    BY <1>7, <2>1 DEF FillChunk, StubTypeOK
  <2> HIDE DEF b, transfer
  <2>5. Data(StatusTransferData, transfer, 0, 0, b) \in Area
    BY <2>1, <2>2, DataType
  <2> QED BY <1>2, <2>3, <2>4, <2>5
<1>8. CASE FillDma(t)
  <2> DEFINE b == [view |-> "dma", by |-> t, from |-> 0, n |-> arg[t].n,
                   write |-> arg[t].write]
  <2>1. b \in Body
    BY <1>1 DEF Body, Views
  <2>2. Request(file[t], b) \in Area
    BY <1>1, <1>8, <2>1, RequestType DEF FillDma
  <2> QED BY <1>2, <1>3, <1>8, <2>2 DEF FillDma
<1>9. CASE MemsetMmap(t)
  <2>1. ZeroArea \in Area
    BY NoBodyType, DataType DEF ZeroArea
  <2> QED BY <1>0, <1>9, <2>1 DEF MemsetMmap, Goto, PageTypeOK, StubTypeOK, PCs
<1>10. CASE FillMmap(t)
  <2>1. Request(file[t], Written("mmap", t)) \in Area
    BY <1>1, <1>10, RequestType, WrittenType DEF Views, FillMmap
  <2> QED BY <1>2, <1>3, <1>10, <2>1 DEF FillMmap
<1>11. CASE FillWriteFault(t)
  <2>1. Request(file[t], Written("rw", t)) \in Area
    BY <1>1, <1>11, RequestType, WrittenType DEF Views, FillWriteFault
  <2> QED BY <1>0, <1>11, <2>1 DEF FillWriteFault, Goto, PageTypeOK, StubTypeOK,
                                 PCs
<1> QED BY <1>4, <1>5, <1>6, <1>7, <1>8, <1>9, <1>10, <1>11 DEF Fill

(* The other steps of a call.                                              *)
LEMMA StepType ==
  ASSUME BaseInv, NEW t \in Threads, Step(t), UNCHANGED commVars
  PROVE  TypeOK'
<1> USE DEF BaseInv, TypeOK, PageTypeOK, StubTypeOK, PCs, Goto, pageVars
<1>0. CommTypeOK'
  BY DEF CommTypeOK, commVars
<1>1. /\ NoArg \in [n: Nat, write: BOOLEAN]
      /\ area.w0 \in Int
      /\ area.w2 \in Int
  BY DEF NoArg, Area
<1>2. ASSUME NEW f \in PCs, NEW r \in {"none", "ok", "err"}, Leave(t, f, r),
             file' \in [Threads -> Int \cup {NoFd}]
      PROVE  TypeOK'
  <2>1. CASE op[t] = "mmap" /\ Return(t, f, r) /\ UNCHANGED lock
    BY <1>0, <1>1, <1>2, <2>1 DEF Return, Calls
  <2>2. CASE op[t] # "mmap" /\ ToUnlock(t, f, r)
    BY <1>0, <1>2, <2>2 DEF ToUnlock
  <2> QED BY <1>2, <2>1, <2>2 DEF Leave
<1>3. ASSUME UNCHANGED file PROVE file' \in [Threads -> Int \cup {NoFd}]
  BY <1>3
<1>4. CASE Fill(t)
  BY <1>4, FillType
<1>5. CASE Arm(t)
  BY <1>0, <1>5, ActionOfType DEF Arm
<1>6. CASE WriteNonce(t)
  BY <1>0, <1>6 DEF WriteNonce
<1>7. CASE CheckNoReply(t)
  BY <1>2, <1>3, <1>7 DEF CheckNoReply
<1>8. CASE CheckReply(t)
  BY <1>0, <1>8 DEF CheckReply
<1>9. CASE ReplyOpen(t)
  <2>1. file' \in [Threads -> Int \cup {NoFd}]
    BY <1>1, <1>9 DEF ReplyOpen
  <2> QED BY <1>2, <1>9, <2>1 DEF ReplyOpen
<1>10. CASE ReplyRet(t)
  BY <1>2, <1>3, <1>10 DEF ReplyRet
<1>11. CASE ReplyHandshake(t)
  BY <1>0, <1>1, <1>11, PageAssumption DEF ReplyHandshake, Calls
<1>12. CASE ReplyChunk(t)
  BY <1>0, <1>12 DEF ReplyChunk, Calls
<1>13. CASE ReplyChunkFailed(t)
  BY <1>2, <1>3, <1>13 DEF ReplyChunkFailed
<1>14. CASE ReplyWrite(t)
  BY <1>0, <1>14 DEF ReplyWrite
<1>15. CASE FdDataUnlock(t)
  BY <1>0, <1>1, <1>15 DEF FdDataUnlock, Return, Calls
<1> QED BY <1>4, <1>5, <1>6, <1>7, <1>8, <1>9, <1>10, <1>11, <1>12, <1>13,
           <1>14, <1>15 DEF Step, Reply

LEMMA LockType ==
  ASSUME BaseInv, NEW t \in Threads, GuestLock(t) PROVE TypeOK'
<1>1. CommTypeOK'
  BY DEF GuestLock, BaseInv, TypeOK, CommTypeOK, commVars
<1> QED BY <1>1 DEF GuestLock, FdDataLock, Goto, BaseInv, TypeOK, PageTypeOK,
                    StubTypeOK, PCs, pageVars

-----------------------------------------------------------------------------
(* Type correctness of the steps of the host, and the manager's buffer.    *)

(* What a step of the manager may do to the buffer.                        *)
XferOK(x) ==
  /\ x.ptr \in BOOLEAN
  /\ x.size \in Nat
  /\ x.chunk \in Nat
  /\ x.info \in Nat
  /\ x.buf \in [0..(x.chunk - 1) -> Byte]
  /\ x.chunk <= x.size

LEMMA NoXferOK == XferOK(NoXfer) /\ NoXfer.info # FH_ACTION_DMA
BY NoXferType DEF XferOK, NoXfer

LEMMA FreshXferOK ==
  ASSUME NEW p \in BOOLEAN, NEW n \in Nat, NEW i \in Nat
  PROVE  XferOK([ptr |-> p, size |-> n, chunk |-> 0, info |-> i,
                 buf |-> EmptyBuf])
BY DEF XferOK, EmptyBuf, Byte

(* A chunk that passes the bounds check leaves a well-formed buffer.       *)
LEMMA CopyChunkOK ==
  ASSUME BaseInv, xfer.chunk + Transfer <= xfer.size
  PROVE  /\ XferOK(CopyChunk)
         /\ CopyChunk.info = xfer.info
         /\ CopyChunk.ptr = xfer.ptr
<1>1. area.w1 \in Nat /\ area.body \in Body
  BY DEF BaseInv, TypeOK, PageTypeOK, Area
<1>2. Transfer \in Nat
  BY <1>1, CommAssumption DEF Transfer
<1>3. ASSUME NEW i \in Int PROVE ByteAt(i) \in Byte
  BY <1>1 DEF ByteAt, Byte, Body
<1>4. /\ xfer.chunk \in Nat
      /\ xfer.buf \in [0..(xfer.chunk - 1) -> Byte]
  BY DEF BaseInv, TypeOK, CommTypeOK
<1>5. CopiedBuf \in [0..(xfer.chunk + Transfer - 1) -> Byte]
  <2> SUFFICES ASSUME NEW i \in 0..(xfer.chunk + Transfer - 1)
               PROVE  (IF i < xfer.chunk THEN xfer.buf[i]
                       ELSE ByteAt(i - xfer.chunk)) \in Byte
    BY DEF CopiedBuf
  <2>1. CASE i < xfer.chunk
    <3>1. i \in 0..(xfer.chunk - 1)
      BY <1>2, <1>4, <2>1
    <3> QED BY <1>4, <2>1, <3>1
  <2>2. CASE ~(i < xfer.chunk)
    <3>1. i - xfer.chunk \in Int
      BY <1>2, <1>4
    <3> QED BY <1>3, <2>2, <3>1
  <2> QED BY <2>1, <2>2
<1>6. /\ CopyChunk.ptr = xfer.ptr
      /\ CopyChunk.size = xfer.size
      /\ CopyChunk.chunk = xfer.chunk + Transfer
      /\ CopyChunk.info = xfer.info
      /\ CopyChunk.buf = CopiedBuf
  BY DEF CopyChunk
<1>7. CopyChunk.ptr \in BOOLEAN
  BY <1>6 DEF BaseInv, TypeOK, CommTypeOK
<1>8. CopyChunk.size \in Nat /\ CopyChunk.chunk \in Nat /\ CopyChunk.info \in Nat
  BY <1>2, <1>4, <1>6 DEF BaseInv, TypeOK, CommTypeOK
<1>9. CopyChunk.buf \in [0..(CopyChunk.chunk - 1) -> Byte]
  <2>1. 0..(CopyChunk.chunk - 1) = 0..(xfer.chunk + Transfer - 1)
    BY <1>2, <1>4, <1>6, <1>8
  <2> QED BY <1>5, <1>6, <2>1, Zenon
<1>10. CopyChunk.chunk <= CopyChunk.size
  BY <1>6
<1> QED BY <1>6, <1>7, <1>8, <1>9, <1>10 DEF XferOK

(* TypeOK and BufferInv across a step of the listener.                     *)
LEMMA ListenerType ==
  ASSUME BaseInv, Listener, UNCHANGED stubVars
  PROVE  TypeOK' /\ BufferInv'
<1> USE DEF BaseInv, TypeOK, BufferInv
<1>0. StubTypeOK'
  BY DEF StubTypeOK, stubVars
<1>1. /\ area \in Area
      /\ area.w0 \in Int
      /\ area.w1 \in Nat
      /\ area.w2 \in Int
      /\ area.w3 \in Nat
      /\ area.body \in Body
      /\ area.body.by \in Threads \cup {NoThread}
  BY DEF PageTypeOK, Area, Body
<1>2. XferOK(xfer)
  BY DEF CommTypeOK, XferOK
<1>3. ASSUME NEW a \in Area, Answer(a), XferOK(xfer'),
             xfer'.info = FH_ACTION_DMA => xfer'.ptr,
             fdtab' \in [Fds -> Threads \cup {NoThread}],
             done' \in [Threads -> 0..2]
      PROVE  TypeOK' /\ BufferInv'
  BY <1>0, <1>3 DEF Answer, PageTypeOK, CommTypeOK, XferOK
<1>4. ASSUME NEW a \in Area, Refuse(a), XferOK(xfer')
      PROVE  TypeOK' /\ BufferInv'
  BY <1>0, <1>4 DEF Refuse, PageTypeOK, CommTypeOK, XferOK
<1>5. ASSUME NEW t \in Threads \cup {NoThread}, Carried(t)
      PROVE  done' \in [Threads -> 0..2]
  BY <1>5 DEF Carried, PageTypeOK
<1>6. /\ done \in [Threads -> 0..2]
      /\ fdtab \in [Fds -> Threads \cup {NoThread}]
      /\ fault \in Threads \cup {NoThread}
  BY DEF PageTypeOK, CommTypeOK
<1>7. \A r \in Int : SetRetAndErrNo(area, r) \in Area
  BY <1>1, SetRetType
<1>8. Fds \subseteq Int /\ TransferMax \in Nat
  BY CommAssumption
<1>9. CASE Dismiss
  BY <1>0, <1>9 DEF Dismiss, pageVars, PageTypeOK, CommTypeOK
<1>10. CASE ServeOpen
  BY <1>1, <1>2, <1>3, <1>5, <1>6, <1>7, <1>8, <1>10 DEF ServeOpen, Serving
<1>11. CASE ServeClose
  BY <1>1, <1>2, <1>3, <1>5, <1>6, <1>7, <1>11 DEF ServeClose, Serving
<1>12. CASE ServeMmap
  BY <1>1, <1>2, <1>3, <1>4, <1>5, <1>6, <1>7, <1>12 DEF ServeMmap, Serving
<1>13. CASE ServeHandshake
  <2>1. Data(StatusOk, area.w1, TransferMax, area.w3, area.body) \in Area
    BY <1>1, <1>8, DataType
  <2>2. XferOK(xfer') /\ xfer'.ptr
    BY <1>1, <1>13, FreshXferOK DEF ServeHandshake
  <2> QED BY <1>3, <1>6, <1>13, <2>1, <2>2 DEF ServeHandshake
<1>14. CASE RefuseHandshake
  <2>1. Data(StatusError, area.w1, TransferMax, area.w3, area.body) \in Area
    BY <1>1, <1>8, DataType DEF StatusError
  <2>2. XferOK(xfer')
    BY <1>1, <1>14, FreshXferOK DEF RefuseHandshake
  <2> QED BY <1>4, <1>14, <2>1, <2>2 DEF RefuseHandshake
<1>15. CASE ServeChunk
  <2>1. Data(StatusOk, area.w1, area.w2, area.w3, area.body) \in Area
    BY <1>1, DataType
  <2>2. XferOK(xfer') /\ xfer'.info = xfer.info /\ xfer'.ptr = xfer.ptr
    BY <1>15, CopyChunkOK DEF ServeChunk
  <2> QED BY <1>3, <1>6, <1>15, <2>1, <2>2 DEF ServeChunk, Serving
<1>16. CASE RefuseChunk
  BY <1>1, <1>2, <1>4, <1>16 DEF RefuseChunk
<1>17. CASE ServeUnknownStatus
  BY <1>1, <1>2, <1>3, <1>6, <1>17 DEF ServeUnknownStatus, Serving
<1>18. CASE StartDma
  BY <1>0, <1>18 DEF StartDma, Serving, pageVars, PageTypeOK, CommTypeOK
<1>19. CASE FinishDma
  BY <1>1, <1>3, <1>5, <1>6, <1>7, <1>19, NoXferOK DEF FinishDma
<1>20. CASE RefuseDma
  BY <1>2, <1>4, <1>7, <1>20 DEF RefuseDma
<1>21. CASE FailDma
  BY <1>4, <1>7, <1>21, NoXferOK DEF FailDma
<1>22. CASE ServeUnknownAction
  BY <1>1, <1>2, <1>3, <1>6, <1>22 DEF ServeUnknownAction, Serving
<1>23. CASE HookCompleted
  BY <1>0, <1>23 DEF HookCompleted, PageTypeOK, CommTypeOK
<1>24. CASE ManagerExit
  BY <1>0, <1>24, NoXferOK DEF ManagerExit, NoFds, PageTypeOK, CommTypeOK, XferOK
<1> QED BY <1>9, <1>10, <1>11, <1>12, <1>13, <1>14, <1>15, <1>16, <1>17, <1>18,
           <1>19, <1>20, <1>21, <1>22, <1>23, <1>24 DEF Listener, OnFault

(* TypeOK and BufferInv across a signal and a start of the manager.        *)
LEMMA HostEventType ==
  ASSUME BaseInv, HostEvent PROVE TypeOK' /\ BufferInv'
<1> USE DEF BaseInv, TypeOK, BufferInv
<1>1. StubTypeOK'
  BY DEF HostEvent, StubTypeOK, stubVars
<1>2. CASE Signal
  BY <1>1, <1>2 DEF Signal, PageTypeOK, CommTypeOK
<1>3. CASE ManagerStart
  BY <1>1, <1>3 DEF ManagerStart, PageTypeOK, CommTypeOK
<1>4. CASE ListenerFails
  BY <1>1, <1>4 DEF ListenerFails, PageTypeOK, CommTypeOK, pageVars
<1> QED BY <1>2, <1>3, <1>4 DEF HostEvent

-----------------------------------------------------------------------------
(* The lock and the open files.                                            *)

(* A step of t leaves the invariants of every thread u alone.  For u # t   *)
(* the step matters only where it takes or releases the lock: then no      *)
(* other thread is inside a locked operation.                              *)
LEMMA GuestLockInv ==
  ASSUME BaseInv, NEW t \in Threads, NEW u \in Threads,
         Step(t) \/ StartCall(t) \/ FdDataLock(t)
  PROVE  FileInv(u)' /\ LockInv(u)'
<1> USE DEF FileInv, LockInv, InLocked, LockedOps, Goto
<1>0. /\ FileInv(t) /\ LockInv(t) /\ FileInv(u) /\ LockInv(u)
      /\ t # NoThread /\ u # NoThread
      /\ pc \in [Threads -> PCs]
      /\ op \in [Threads -> LockedOps \cup UnlockedOps \cup {"none"}]
      /\ call \in [Threads -> Calls]
      /\ file \in [Threads -> Int \cup {NoFd}]
      /\ NoFd \notin Int
      /\ area.w0 \in Int
  BY PageAssumption, StubAssumption
     DEF BaseInv, TypeOK, StubTypeOK, PageTypeOK, Area
<1>1. ASSUME NEW f \in {"check", "reply"}, NEW r, Leave(t, f, r),
             file' = file \/ (call[t] = "open"
                             /\ file' = [file EXCEPT ![t] = area.w0])
      PROVE  FileInv(u)' /\ LockInv(u)'
  <2>1. CASE op[t] = "mmap" /\ Return(t, f, r) /\ UNCHANGED lock
    BY <1>0, <1>1, <2>1 DEF Return
  <2>2. CASE op[t] # "mmap" /\ ToUnlock(t, f, r)
    BY <1>0, <1>1, <2>2 DEF ToUnlock
  <2> QED BY <1>1, <2>1, <2>2 DEF Leave
<1>2. ASSUME NEW a, Filled(t, a) PROVE FileInv(u)' /\ LockInv(u)'
  BY <1>0, <1>2 DEF Filled
<1>3. CASE Fill(t)
  <2>1. CASE MemsetMmap(t)
    BY <1>0, <2>1 DEF MemsetMmap
  <2>2. CASE FillWriteFault(t)
    BY <1>0, <2>2 DEF FillWriteFault
  <2>3. CASE ~MemsetMmap(t) /\ ~FillWriteFault(t)
    BY <1>2, <1>3, <2>3 DEF Fill, FillOpenClose, FillReadWrite,
                FillHandshake,
                            FillChunk, FillDma, FillMmap
  <2> QED BY <2>1, <2>2, <2>3
<1>4. CASE Arm(t)
  BY <1>0, <1>4 DEF Arm
<1>5. CASE WriteNonce(t)
  BY <1>0, <1>5 DEF WriteNonce
<1>6. CASE CheckNoReply(t)
  BY <1>1, <1>6 DEF CheckNoReply
<1>7. CASE CheckReply(t)
  BY <1>0, <1>7 DEF CheckReply
<1>8. CASE ReplyOpen(t)
  BY <1>1, <1>8 DEF ReplyOpen
<1>9. CASE ReplyRet(t)
  BY <1>1, <1>9 DEF ReplyRet
<1>10. CASE ReplyHandshake(t)
  BY <1>0, <1>10 DEF ReplyHandshake
<1>11. CASE ReplyChunk(t)
  BY <1>0, <1>11 DEF ReplyChunk
<1>12. CASE ReplyChunkFailed(t)
  BY <1>1, <1>12 DEF ReplyChunkFailed
<1>13. CASE ReplyWrite(t)
  BY <1>0, <1>13 DEF ReplyWrite
<1>14. CASE FdDataUnlock(t)
  BY <1>0, <1>14 DEF FdDataUnlock, Return
<1>15. CASE EnterLocked(t)
  BY <1>0, <1>15 DEF EnterLocked, Enter
<1>16. CASE EnterDma(t)
  BY <1>0, <1>16 DEF EnterDma, Enter
<1>17. CASE EnterEarlyReturn(t)
  BY <1>0, <1>17 DEF EnterEarlyReturn
<1>18. CASE EnterMmap(t)
  BY <1>0, <1>18 DEF EnterMmap, Enter
<1>19. CASE CtrlIoctl(t)
  BY <1>0, <1>19 DEF CtrlIoctl
<1>20. CASE FdDataLock(t)
  BY <1>0, <1>20 DEF FdDataLock
<1> QED BY <1>3, <1>4, <1>5, <1>6, <1>7, <1>8, <1>9, <1>10, <1>11, <1>12, <1>13,
           <1>14, <1>15, <1>16, <1>17, <1>18, <1>19, <1>20
        DEF Step, Reply, StartCall

LEMMA HostLockInv ==
  ASSUME BaseInv, UNCHANGED stubVars, NEW u \in Threads
  PROVE  FileInv(u)' /\ LockInv(u)'
BY DEF BaseInv, stubVars, FileInv, LockInv, InLocked

LEMMA GuestBufferInv == ASSUME BufferInv, UNCHANGED commVars PROVE BufferInv'
BY DEF BufferInv, commVars

-----------------------------------------------------------------------------
LEMMA BaseInit == Init => BaseInv
<1> SUFFICES ASSUME Init PROVE BaseInv
  OBVIOUS
<1>1. TypeOK
  BY InitType
<1>2. BufferInv
  BY DEF Init, CommInit, NoXfer, BufferInv
<1>3. ASSUME NEW t \in Threads PROVE FileInv(t) /\ LockInv(t)
  BY DEF Init, StubInit, FileInv, LockInv, InLocked
<1> QED BY <1>1, <1>2, <1>3 DEF BaseInv

LEMMA BaseStep == BaseInv /\ [Next]_vars => BaseInv'
<1> SUFFICES ASSUME BaseInv, [Next]_vars PROVE BaseInv'
  OBVIOUS
<1>1. ASSUME NEW t \in Threads, GuestStep(t) PROVE BaseInv'
  <2>1. TypeOK'
    BY <1>1, StepType, StartCallType DEF GuestStep
  <2>2. \A u \in Threads : FileInv(u)' /\ LockInv(u)'
    BY <1>1, GuestLockInv DEF GuestStep
  <2>3. BufferInv'
    BY <1>1, GuestBufferInv DEF GuestStep, BaseInv
  <2> QED BY <2>1, <2>2, <2>3 DEF BaseInv
<1>2. ASSUME NEW t \in Threads, GuestLock(t) PROVE BaseInv'
  <2>1. TypeOK'
    BY <1>2, LockType
  <2>2. \A u \in Threads : FileInv(u)' /\ LockInv(u)'
    BY <1>2, GuestLockInv DEF GuestLock
  <2>3. BufferInv'
    BY <1>2, GuestBufferInv DEF GuestLock, BaseInv
  <2> QED BY <2>1, <2>2, <2>3 DEF BaseInv
<1>3. CASE HostStep
  BY <1>3, ListenerType, HostLockInv DEF HostStep, BaseInv
<1>4. CASE HostEvent
  BY <1>4, HostEventType, HostLockInv DEF HostEvent, BaseInv
<1>5. CASE UNCHANGED vars
  <2>1. PageTypeOK' /\ StubTypeOK' /\ CommTypeOK'
    BY <1>5 DEF vars, pageVars, stubVars, commVars, BaseInv, TypeOK, PageTypeOK,
                StubTypeOK, CommTypeOK
  <2>2. BufferInv' /\ \A u \in Threads : FileInv(u)' /\ LockInv(u)'
    BY <1>5, HostLockInv, GuestBufferInv DEF vars, BaseInv
  <2> QED BY <2>1, <2>2 DEF BaseInv, TypeOK
<1> QED BY <1>1, <1>2, <1>3, <1>4, <1>5 DEF Next

(* The conjunction of type correctness, the lock discipline, the open      *)
(* files and the manager's buffer is an invariant of the escape channel.   *)
THEOREM BaseInvariant == Spec => []BaseInv
<1> QED BY BaseInit, BaseStep, PTL DEF Spec

(* Every variable of the guest driver, the page and the manager keeps its  *)
(* type, whatever operations the threads use.                              *)
THEOREM TypeCorrect == Spec => []TypeOK
<1>1. BaseInv => TypeOK
  BY DEF BaseInv
<1> QED BY <1>1, BaseInvariant, PTL

(* The locked operations exclude each other (fd_data_lock, fd_data_unlock) *)
(* for any number of threads and in every mix with the operations that do  *)
(* not take the lock.                                                      *)
THEOREM LockedOperationsExclude == Spec => []LockedExclusive
<1>1. BaseInv => LockedExclusive
  BY DEF BaseInv, LockInv, LockedExclusive
<1> QED BY <1>1, BaseInvariant, PTL

(* do_action_transfer_escape_data never writes past the buffer that the    *)
(* handshake allocated, and do_dma never reads a buffer that was not       *)
(* allocated, whatever the unlocked operations do to the page.             *)
THEOREM TransferStaysInBuffer == Spec => []TransferBounded
<1>1. BaseInv => TransferBounded
  BY DEF BaseInv, BufferInv, TypeOK, CommTypeOK, TransferBounded
<1> QED BY <1>1, BaseInvariant, PTL

-----------------------------------------------------------------------------
(* Properties that need the manager to be signalled in poll() only, and    *)
(* the use of the channel by the locked operations open, close and DMA     *)
(* alone.                                                                  *)

-----------------------------------------------------------------------------
(* What the steps of one thread leave alone.                               *)

(* The state of the calls of thread u.                                     *)
SameThread(u) ==
  /\ pc'[u] = pc[u]
  /\ op'[u] = op[u]
  /\ call'[u] = call[u]
  /\ res'[u] = res[u]
  /\ file'[u] = file[u]
  /\ arg'[u] = arg[u]
  /\ tsize'[u] = tsize[u]
  /\ remain'[u] = remain[u]
  /\ pinned'[u] = pinned[u]

LEMMA OtherThread ==
  ASSUME BaseInv, NEW t \in Threads, NEW u \in Threads, u # t,
         Step(t) \/ StartCall(t) \/ FdDataLock(t)
  PROVE  SameThread(u) /\ done'[u] = done[u]
<1> USE DEF SameThread, Goto, pageVars
<1>0. /\ pc \in [Threads -> PCs]
      /\ op \in [Threads -> LockedOps \cup UnlockedOps \cup {"none"}]
      /\ call \in [Threads -> Calls]
      /\ res \in [Threads -> {"none", "ok", "err"}]
      /\ file \in [Threads -> Int \cup {NoFd}]
      /\ arg \in [Threads -> [n: Nat, write: BOOLEAN]]
      /\ tsize \in [Threads -> Nat]
      /\ remain \in [Threads -> Nat]
      /\ pinned \in [Threads -> BOOLEAN]
      /\ done \in [Threads -> 0..2]
  BY DEF BaseInv, TypeOK, StubTypeOK, PageTypeOK
<1>1. ASSUME NEW f, NEW r, Leave(t, f, r), file'[u] = file[u]
      PROVE  SameThread(u) /\ done'[u] = done[u]
  BY <1>0, <1>1 DEF Leave, Return, ToUnlock
<1>2. ASSUME NEW a, Filled(t, a), remain'[u] = remain[u]
      PROVE  SameThread(u) /\ done'[u] = done[u]
  BY <1>0, <1>2 DEF Filled
<1>3. CASE Fill(t)
  BY <1>0, <1>2, <1>3 DEF Fill, MemsetMmap, FillOpenClose, FillReadWrite,
                          FillWriteFault, FillHandshake, FillChunk, FillDma, FillMmap
<1>4. CASE Arm(t) \/ WriteNonce(t) \/ CheckReply(t)
  BY <1>0, <1>4 DEF Arm, WriteNonce, CheckReply
<1>5. CASE CheckNoReply(t)
  BY <1>1, <1>5 DEF CheckNoReply
<1>6. CASE Reply(t)
  <2>1. CASE ReplyOpen(t)
    BY <1>0, <1>1, <2>1 DEF ReplyOpen
  <2>2. CASE ReplyRet(t) \/ ReplyChunkFailed(t)
    BY <1>1, <2>2 DEF ReplyRet, ReplyChunkFailed
  <2>3. CASE ReplyHandshake(t) \/ ReplyChunk(t) \/ ReplyWrite(t)
    BY <1>0, <2>3 DEF ReplyHandshake, ReplyChunk, ReplyWrite
  <2> QED BY <1>6, <2>1, <2>2, <2>3 DEF Reply
<1>7. CASE FdDataUnlock(t)
  BY <1>0, <1>7 DEF FdDataUnlock, Return
<1>8. CASE StartCall(t)
  BY <1>0, <1>8 DEF StartCall, EnterLocked, EnterDma, EnterEarlyReturn,
                    EnterMmap, CtrlIoctl, Enter
<1>9. CASE FdDataLock(t)
  BY <1>0, <1>9 DEF FdDataLock
<1> QED BY <1>3, <1>4, <1>5, <1>6, <1>7, <1>8, <1>9 DEF Step

-----------------------------------------------------------------------------
(* The guest stands still while the manager serves it.                     *)

LEMMA FreezeInit == Init => FreezeInv
BY PageAssumption DEF Init, PageInit, StubInit, CommInit, FreezeInv

(* A thread takes a step only while no fault is outstanding, and only the  *)
(* write of the nonce raises one.                                          *)
LEMMA GuestFault ==
  ASSUME NEW t \in Threads, Step(t) \/ StartCall(t) \/ FdDataLock(t)
  PROVE  /\ fault = NoThread
         /\ UNCHANGED traced
         /\ \/ UNCHANGED fault
            \/ WriteNonce(t)
<1> USE DEF Goto, GuestRuns, pageVars
<1>1. ASSUME NEW f, NEW r, Leave(t, f, r)
      PROVE  fault = NoThread /\ UNCHANGED <<fault, traced>>
  BY <1>1 DEF Leave, Return, ToUnlock
<1>2. ASSUME NEW a, Filled(t, a)
      PROVE  fault = NoThread /\ UNCHANGED <<fault, traced>>
  BY <1>2 DEF Filled
<1>3. CASE Fill(t)
  BY <1>2, <1>3 DEF Fill, MemsetMmap, FillOpenClose, FillReadWrite,
                    FillWriteFault, FillHandshake, FillChunk, FillDma, FillMmap
<1>4. CASE Arm(t) \/ WriteNonce(t) \/ CheckReply(t)
  BY <1>4 DEF Arm, WriteNonce, CheckReply
<1>5. CASE CheckNoReply(t)
  BY <1>1, <1>5 DEF CheckNoReply
<1>6. CASE Reply(t)
  BY <1>1, <1>6 DEF Reply, ReplyOpen, ReplyRet, ReplyHandshake, ReplyChunk,
                    ReplyChunkFailed, ReplyWrite
<1>7. CASE FdDataUnlock(t) \/ StartCall(t) \/ FdDataLock(t)
  BY <1>7 DEF FdDataUnlock, Return, StartCall, EnterLocked, EnterDma,
              EnterEarlyReturn, EnterMmap, CtrlIoctl, Enter, FdDataLock
<1> QED BY <1>3, <1>4, <1>5, <1>6, <1>7 DEF Step

LEMMA GuestFreeze ==
  ASSUME BaseInv, FreezeInv, NEW t \in Threads, UNCHANGED commVars,
         Step(t) \/ StartCall(t) \/ FdDataLock(t)
  PROVE  FreezeInv'
<1>1. fault = NoThread /\ mgr \notin {"dma", "complete"}
  BY GuestFault, PageAssumption DEF FreezeInv
<1>2. CASE UNCHANGED fault
  BY <1>1, <1>2, GuestFault, PageAssumption DEF FreezeInv, commVars
<1>3. CASE WriteNonce(t)
  BY <1>1, <1>3, GuestFault, PageAssumption
     DEF FreezeInv, commVars, WriteNonce, Goto, BaseInv, TypeOK, StubTypeOK
<1> QED BY <1>2, <1>3, GuestFault

LEMMA HostFreeze ==
  ASSUME BaseInv, FreezeInv, ~SignalWhileServing, HostStep \/ HostEvent
  PROVE  FreezeInv'
<1> USE DEF FreezeInv
<1>0. UNCHANGED pc /\ fault \in Threads \cup {NoThread}
  BY DEF HostStep, HostEvent, stubVars, BaseInv, TypeOK, PageTypeOK
<1>1. ASSUME NEW a, Answer(a), fault \in Threads, ~sig PROVE FreezeInv'
  BY <1>0, <1>1 DEF Answer
<1>2. ASSUME NEW a, Refuse(a), fault \in Threads, ~sig PROVE FreezeInv'
  BY <1>0, <1>2 DEF Refuse
<1>3. fault \in Threads => ~sig
  OBVIOUS
<1>4. CASE Dismiss \/ StartDma
  BY <1>0, <1>3, <1>4 DEF Dismiss, StartDma, Serving, pageVars
<1>5. CASE ServeOpen \/ ServeClose \/ ServeHandshake \/ ServeChunk
           \/ ServeUnknownStatus \/ ServeUnknownAction
  BY <1>0, <1>1, <1>3, <1>5 DEF ServeOpen, ServeClose, ServeHandshake, ServeChunk,
                          ServeUnknownStatus, ServeUnknownAction, Serving
<1>6. CASE ServeMmap
  BY <1>0, <1>1, <1>2, <1>3, <1>6 DEF ServeMmap, Serving
<1>7. CASE RefuseHandshake \/ RefuseChunk \/ RefuseDma
  BY <1>0, <1>2, <1>3, <1>7 DEF RefuseHandshake, RefuseChunk, RefuseDma, Serving
<1>8. CASE FinishDma
  BY <1>1, <1>3, <1>8 DEF FinishDma
<1>9. CASE FailDma
  BY <1>0, <1>2, <1>3, <1>9 DEF FailDma, Serving
<1>10. CASE HookCompleted \/ ManagerExit
  BY <1>0, <1>3, <1>10, PageAssumption DEF HookCompleted, ManagerExit
<1>11. CASE Signal \/ ManagerStart \/ ListenerFails
  BY <1>0, <1>3, <1>11, PageAssumption
     DEF Signal, ManagerStart, ListenerFails, pageVars
<1> QED BY <1>4, <1>5, <1>6, <1>7, <1>8, <1>9, <1>10, <1>11
        DEF HostStep, HostEvent, Listener, OnFault

LEMMA FreezeStep ==
  ASSUME ~SignalWhileServing
  PROVE  BaseInv /\ FreezeInv /\ [Next]_vars => FreezeInv'
<1>1. CASE UNCHANGED vars
  BY <1>1 DEF FreezeInv, vars, pageVars, stubVars, commVars
<1>2. ASSUME BaseInv, FreezeInv, NEW t \in Threads, GuestStep(t) \/ GuestLock(t)
      PROVE  FreezeInv'
  BY <1>2, GuestFreeze DEF GuestStep, GuestLock
<1> QED BY <1>1, <1>2, HostFreeze DEF Next

-----------------------------------------------------------------------------
(* The transfers of disciplined threads: those that do not act.            *)

LEMMA ActionOfValue ==
  /\ ActionOf("open") = FH_ACTION_OPEN_DEVICE
  /\ ActionOf("close") = FH_ACTION_CLOSE_DEVICE
  /\ ActionOf("handshake") = FH_ACTION_TRANSFER_ESCAPE_DATA
  /\ ActionOf("chunk") = FH_ACTION_TRANSFER_ESCAPE_DATA
  /\ ActionOf("dma") = FH_ACTION_DMA
BY DEF ActionOf

(* The requests that the host can tell by their action.                    *)
LEMMA CallOfAction ==
  ASSUME NEW c \in {"open", "close", "handshake", "chunk", "dma"}
  PROVE  /\ ActionOf(c) = FH_ACTION_DMA => c = "dma"
         /\ ActionOf(c) = FH_ACTION_TRANSFER_ESCAPE_DATA =>
              c \in {"handshake", "chunk"}
         /\ ActionOf(c) # FH_ACTION_MMAP
         /\ ActionOf(c) \notin {FH_ACTION_READ, FH_ACTION_WRITE}
         /\ ActionOf(c) = FH_ACTION_OPEN_DEVICE => c = "open"
         /\ ActionOf(c) = FH_ACTION_CLOSE_DEVICE => c = "close"
<1>1. CASE c = "open"
  BY <1>1, ActionOfValue
<1>2. CASE c = "close"
  BY <1>2, ActionOfValue
<1>3. CASE c \in {"handshake", "chunk"}
  <2>1. ActionOf(c) = FH_ACTION_TRANSFER_ESCAPE_DATA
    BY <1>3, ActionOfValue, Zenon
  <2> QED BY <1>3, <2>1
<1>4. CASE c = "dma"
  BY <1>4, ActionOfValue
<1> QED BY <1>1, <1>2, <1>3, <1>4

(* While t is inside a locked operation, every other thread is outside.    *)
LEMMA Outside ==
  ASSUME BaseInv, NEW t \in Threads, NEW u \in Threads, u # t,
         InLocked(t), CallInv(u)
  PROVE  pc[u] \in {"idle", "lock"}
<1>1. lock = t
  BY DEF BaseInv, LockInv
<1>2. ~InLocked(u)
  BY <1>1 DEF BaseInv, LockInv
<1>3. pc[u] \in PCs
  BY DEF BaseInv, TypeOK, StubTypeOK
<1> QED BY <1>2, <1>3 DEF InLocked, CallInv, PCs, ServedOps, LockedOps

(* Nothing that happens to the page or the manager concerns a thread that  *)
(* is outside of the lock.                                                 *)
LEMMA OutsideInv ==
  ASSUME NEW u \in Threads, pc[u] \in {"idle", "lock"}, CallInv(u),
         SameThread(u)
  PROVE  CallInv(u)' /\ RequestInv(u)' /\ TransferInv(u)'
<1>1. CallInv(u)'
  BY DEF CallInv, SameThread
<1>2. ~Posted(u)' /\ ~Answered(u)' /\ pc'[u] \in {"idle", "lock"}
  BY DEF Posted, Answered, SameThread
<1>3. call'[u] \notin {"chunk", "dma"}
  BY DEF CallInv, SameThread, ServedOps
<1> QED BY <1>1, <1>2, <1>3 DEF RequestInv, TransferInv

(* A step that changes neither the page nor the manager nor u.             *)
LEMMA SamePage ==
  ASSUME NEW u \in Threads, SameThread(u), CallInv(u), RequestInv(u),
         TransferInv(u), UNCHANGED <<turn, action, area, fault, mgr, xfer>>
  PROVE  CallInv(u)' /\ RequestInv(u)' /\ TransferInv(u)'
<1>1. CallInv(u)'
  BY DEF CallInv, SameThread
<1>2. /\ Posted(u)' = Posted(u)
      /\ Answered(u)' = Answered(u)
      /\ Requested(u)' = Requested(u)
  BY DEF Posted, Answered, Requested, SameThread
<1>3. RequestInv(u)'
  BY <1>2 DEF RequestInv, SameThread
<1>4. ASSUME NEW k PROVE CopiedOrLost(u, k)' = CopiedOrLost(u, k)
  BY DEF CopiedOrLost, Copied, SameThread
<1>5. TransferInv(u)'
  BY <1>2, <1>4 DEF TransferInv, SameThread
<1> QED BY <1>1, <1>3, <1>5

LEMMA GuestOther ==
  ASSUME Disciplined, BaseInv, ChannelInv, NEW t \in Threads,
         NEW u \in Threads, u # t, UNCHANGED commVars,
         Step(t) \/ StartCall(t) \/ FdDataLock(t)
  PROVE  CallInv(u)' /\ RequestInv(u)' /\ TransferInv(u)'
<1>1. SameThread(u)
  BY OtherThread
<1>2. CallInv(t) /\ CallInv(u) /\ RequestInv(u) /\ TransferInv(u)
  BY DEF ChannelInv
<1>3. CASE Step(t)
  <2>1. pc[t] \in {"fill", "arm", "nonce", "check", "reply", "unlock", "memset"}
    BY <1>3 DEF Step, Fill, FillOpenClose, FillReadWrite,
                FillWriteFault, FillHandshake,
                FillChunk, FillDma, MemsetMmap, FillMmap, Filled, Arm, WriteNonce,
                CheckNoReply, CheckReply, Reply, ReplyOpen, ReplyRet,
                ReplyHandshake, ReplyChunk, ReplyChunkFailed, ReplyWrite,
                FdDataUnlock, Leave, Return, ToUnlock, Goto
  <2>2. InLocked(t)
    BY <1>2, <2>1 DEF InLocked, CallInv, ServedOps, LockedOps
  <2> QED BY <1>1, <1>2, <2>2, Outside, OutsideInv
<1>4. CASE StartCall(t) \/ FdDataLock(t)
  <2>1. "ioctl" \notin Ops[t]
    BY DEF Disciplined, ServedOps
  <2>2. UNCHANGED <<turn, action, area, fault, mgr, xfer>>
    BY <1>4, <2>1 DEF StartCall, EnterLocked, EnterDma, EnterEarlyReturn,
                      EnterMmap, CtrlIoctl, Enter, FdDataLock, pageVars, commVars
  <2> QED BY <1>1, <1>2, <2>2, SamePage
<1> QED BY <1>3, <1>4

-----------------------------------------------------------------------------
(* ... and the thread that acts.                                           *)

LEMMA GuestSelf ==
  ASSUME Disciplined, BaseInv, ChannelInv, NEW t \in Threads,
         UNCHANGED commVars, Step(t) \/ StartCall(t) \/ FdDataLock(t)
  PROVE  CallInv(t)' /\ RequestInv(t)' /\ TransferInv(t)'
<1> DEFINE Goal == CallInv(t)' /\ RequestInv(t)' /\ TransferInv(t)'
<1> USE DEF Goto, ServedOps
<1>0. /\ pc \in [Threads -> PCs]
      /\ op \in [Threads -> LockedOps \cup UnlockedOps \cup {"none"}]
      /\ call \in [Threads -> Calls]
      /\ arg \in [Threads -> [n: Nat, write: BOOLEAN]]
      /\ arg[t].n \in Nat
      /\ tsize \in [Threads -> Nat]
      /\ remain \in [Threads -> Nat]
      /\ pinned \in [Threads -> BOOLEAN]
      /\ TransferMax \in Nat \ {0}
  BY CommAssumption DEF BaseInv, TypeOK, StubTypeOK
<1>1. CallInv(t) /\ RequestInv(t) /\ TransferInv(t)
  BY DEF ChannelInv
<1>2. /\ fault = NoThread
      /\ fault # t
      /\ mgr \notin {"dma", "complete"}
      /\ UNCHANGED <<mgr, xfer>>
  <2>1. mgr \in {"idle", "dma", "complete", "exiting", "down"}
    BY DEF BaseInv, TypeOK, CommTypeOK
  <2> QED BY <2>1, GuestFault, PageAssumption
          DEF ChannelInv, FreezeInv, commVars
(* The thread is outside of the lock after the step.                       *)
<1>4. ASSUME CallInv(t)', pc'[t] \in {"idle", "lock"} PROVE Goal
  <2>1. ~Posted(t)' /\ ~Answered(t)'
    BY <1>4 DEF Posted, Answered
  <2>2. call'[t] \notin {"chunk", "dma"}
    BY <1>4 DEF CallInv
  <2> QED BY <1>4, <2>1, <2>2 DEF RequestInv, TransferInv
<1>5. CASE StartCall(t)
  <2>1. Ops[t] \subseteq ServedOps
    BY DEF Disciplined
  <2>2. CallInv(t)' /\ pc'[t] \in {"idle", "lock"}
    BY <1>0, <1>1, <1>5, <2>1
       DEF StartCall, EnterLocked, EnterDma, EnterEarlyReturn, EnterMmap,
           CtrlIoctl, Enter, CallInv
  <2> QED BY <1>4, <2>2
<1>6. CASE FdDataLock(t)
  <2>1. CallInv(t)' /\ pc'[t] = "fill" /\ call'[t] \in {"handshake", "open", "close"}
    BY <1>0, <1>1, <1>6 DEF FdDataLock, CallInv
  <2>2. ~Posted(t)' /\ ~Answered(t)'
    BY <2>1 DEF Posted, Answered
  <2> QED BY <2>1, <2>2 DEF RequestInv, TransferInv
<1>7. CASE Fill(t)
  <2>1. /\ pc[t] = "fill" /\ pc'[t] = "arm"
        /\ UNCHANGED <<op, call, arg, tsize, pinned, fault>>
    BY <1>0, <1>1, <1>7 DEF Fill, FillOpenClose, FillReadWrite,
       FillWriteFault, FillHandshake, FillChunk, FillDma, MemsetMmap, FillMmap,
       Filled, CallInv
  <2>2. CallInv(t)'
    BY <1>1, <1>7, <2>1 DEF CallInv
  <2>3. Posted(t)' /\ ~Answered(t)'
    BY <2>1 DEF Posted, Answered
  <2>4. CASE FillOpenClose(t)
    BY <2>1, <2>2, <2>3, <2>4 DEF FillOpenClose, Filled, Request, Data,
       Written, RequestInv, TransferInv, Requested
  <2>5. CASE FillHandshake(t)
    BY <2>1, <2>2, <2>3, <2>5 DEF FillHandshake, Filled, Data, RequestInv,
       TransferInv, Requested
  <2>6. CASE FillChunk(t)
    <3> DEFINE transfer == MinOf(tsize[t], remain[t])
    <3>1. /\ tsize[t] = TransferMax
          /\ remain[t] <= arg[t].n
          /\ CopiedOrLost(t, arg[t].n - remain[t])
      BY <1>1, <2>6 DEF TransferInv, FillChunk, Filled
    <3>2. /\ transfer \in Nat
          /\ transfer <= TransferMax
          /\ transfer <= remain[t]
          /\ remain'[t] = remain[t] - transfer
      BY <1>0, <2>6, <3>1 DEF FillChunk, MinOf
    <3>3. /\ area'.w0 = StatusTransferData
          /\ area'.w1 = transfer
          /\ area'.body.view = "chunk"
          /\ area'.body.by = t
          /\ area'.body.from = arg[t].n - remain[t]
          /\ call[t] = "chunk"
      BY <2>6 DEF FillChunk, Filled, Data
    <3> HIDE DEF transfer
    <3>4. Requested(t)'
      BY <1>0, <2>1, <3>1, <3>2, <3>3 DEF Requested
    <3>5. TransferInv(t)'
      BY <1>0, <1>2, <2>1, <2>3, <3>1, <3>2, <3>3
         DEF TransferInv, CopiedOrLost, Copied
    <3> QED BY <2>1, <2>2, <3>4, <3>5 DEF RequestInv
  <2>7. CASE FillDma(t)
    <3>1. Requested(t)'
      BY <2>1, <2>7 DEF FillDma, Filled, Request, Data, Requested
    <3>2. CopiedOrLost(t, arg[t].n)'
      BY <1>1, <1>2, <2>1, <2>7 DEF TransferInv, FillDma, Filled, CopiedOrLost, Copied
    <3>3. TransferInv(t)'
      BY <2>1, <2>3, <2>7, <3>2 DEF TransferInv, FillDma
    <3> QED BY <2>1, <2>2, <3>1, <3>3 DEF RequestInv
  <2> QED BY <1>1, <1>7, <2>4, <2>5, <2>6, <2>7
          DEF Fill, FillReadWrite, FillWriteFault, MemsetMmap, FillMmap, CallInv
<1>8. CASE Arm(t)
  <2>1. /\ pc[t] = "arm" /\ pc'[t] = "nonce"
        /\ turn' = FH_TURN_HOST
        /\ action' = ActionOf(call[t])
        /\ UNCHANGED <<op, call, arg, tsize, remain, pinned, file, area, fault>>
    BY <1>0, <1>8 DEF Arm
  <2>2. CallInv(t)'
    BY <1>1, <2>1 DEF CallInv
  <2>3. Posted(t) /\ Posted(t)' /\ ~Answered(t)'
    BY <2>1 DEF Posted, Answered
  <2>4. Requested(t)'
    BY <1>1, <2>1, <2>3 DEF RequestInv, Requested
  <2>5. TransferInv(t)'
    BY <1>1, <1>2, <2>1, <2>3 DEF TransferInv, CopiedOrLost, Copied
  <2> QED BY <2>1, <2>2, <2>3, <2>4, <2>5 DEF RequestInv
<1>9. CASE WriteNonce(t)
  <2>1. /\ pc[t] = "nonce" /\ pc'[t] = "check"
        /\ UNCHANGED <<op, call, arg, tsize, remain, pinned, file, area, turn,
                       action>>
    BY <1>0, <1>9 DEF WriteNonce
  <2>2. CallInv(t)'
    BY <1>1, <2>1 DEF CallInv
  <2>3. Posted(t) /\ ~Answered(t)'
    BY <1>1, <2>1 DEF Posted, Answered, RequestInv
  <2>4. Requested(t)' /\ action' = ActionOf(call'[t])
    BY <1>1, <2>1, <2>3 DEF RequestInv, Requested
  <2>5. TransferInv(t)'
    BY <1>1, <1>2, <2>1, <2>3 DEF TransferInv, CopiedOrLost, Copied
  <2> QED BY <2>1, <2>2, <2>4, <2>5 DEF RequestInv
(* Leaving: only the result and the program counter change.                *)
<1>10. ASSUME NEW f \in {"check", "reply"}, NEW r, Leave(t, f, r) PROVE Goal
  <2>1. op[t] # "mmap"
    BY <1>1 DEF CallInv
  <2>2. /\ pc[t] = f
        /\ pc'[t] = "unlock"
        /\ UNCHANGED <<op, call, arg, tsize, remain, pinned>>
    BY <1>0, <1>10, <2>1 DEF Leave, ToUnlock
  <2>3. CallInv(t)'
    BY <1>1, <2>2 DEF CallInv
  <2>4. ~Posted(t)' /\ ~Answered(t)'
    BY <2>2 DEF Posted, Answered
  <2> QED BY <1>1, <2>2, <2>3, <2>4 DEF RequestInv, TransferInv
<1>11. CASE CheckNoReply(t)
  BY <1>10, <1>11 DEF CheckNoReply
<1>12. CASE CheckReply(t)
  <2>1. /\ pc[t] = "check" /\ pc'[t] = "reply"
        /\ turn = FH_TURN_GUEST
        /\ UNCHANGED <<op, call, arg, tsize, remain, pinned, area>>
    BY <1>0, <1>1, <1>12 DEF CheckReply, CallInv, pageVars
  <2>2. CallInv(t)'
    BY <1>1, <2>1 DEF CallInv
  <2>3. Answered(t) /\ ~Posted(t)'
    BY <2>1 DEF Posted, Answered
  <2>4. TransferInv(t)'
    BY <1>1, <1>2, <2>1, <2>3 DEF TransferInv, CopiedOrLost, Copied
  <2> QED BY <2>1, <2>2, <2>3, <2>4 DEF RequestInv
<1>13. CASE ReplyOpen(t)
  BY <1>10, <1>13 DEF ReplyOpen
<1>14. CASE ReplyRet(t)
  BY <1>10, <1>14 DEF ReplyRet
<1>15. CASE ReplyChunkFailed(t)
  BY <1>10, <1>15 DEF ReplyChunkFailed
<1>16. CASE ReplyHandshake(t)
  <2>1. /\ pc[t] = "reply" /\ pc'[t] = "fill"
        /\ call[t] = "handshake" /\ call'[t] = "chunk"
        /\ remain'[t] = arg[t].n
        /\ UNCHANGED <<op, arg, pinned>>
    BY <1>0, <1>16 DEF ReplyHandshake
  <2>2. CallInv(t)'
    BY <1>1, <2>1 DEF CallInv
  <2>3. area.w2 = TransferMax /\ CopiedOrLost(t, 0)
    BY <1>1, <2>1 DEF TransferInv, Answered
  <2>4. tsize'[t] = TransferMax
    BY <1>0, <1>16, <2>3 DEF ReplyHandshake
  <2>5. ~Posted(t)' /\ ~Answered(t)'
    BY <2>1 DEF Posted, Answered
  <2>6. CopiedOrLost(t, 0)' /\ arg'[t].n - remain'[t] = 0
    BY <1>0, <1>2, <2>1, <2>3 DEF CopiedOrLost, Copied
  <2>7. TransferInv(t)'
    BY <1>0, <2>1, <2>4, <2>5, <2>6 DEF TransferInv
  <2> QED BY <2>1, <2>2, <2>5, <2>7 DEF RequestInv
<1>17. CASE ReplyChunk(t)
  <2>1. /\ pc[t] = "reply" /\ pc'[t] = "fill"
        /\ call[t] = "chunk"
        /\ call'[t] = IF remain[t] > 0 THEN "chunk" ELSE "dma"
        /\ UNCHANGED <<op, arg, tsize, remain, pinned>>
    BY <1>0, <1>17 DEF ReplyChunk
  <2>2. CallInv(t)'
    BY <1>1, <2>1 DEF CallInv
  <2>3. CopiedOrLost(t, arg[t].n - remain[t])
    BY <1>1, <2>1 DEF TransferInv, Answered
  <2>4. ~Posted(t)' /\ ~Answered(t)'
    BY <2>1 DEF Posted, Answered
  <2>5. CopiedOrLost(t, arg[t].n - remain[t])'
    BY <1>2, <2>1, <2>3 DEF CopiedOrLost, Copied
  <2>6. call'[t] = "dma" => arg'[t].n - remain'[t] = arg'[t].n
    BY <1>0, <2>1
  <2>7. TransferInv(t)'
    BY <1>1, <2>1, <2>4, <2>5, <2>6 DEF TransferInv
  <2> QED BY <2>1, <2>2, <2>4, <2>7 DEF RequestInv
<1>18. CASE FdDataUnlock(t)
  <2>1. CallInv(t)' /\ pc'[t] \in {"idle", "lock"}
    BY <1>0, <1>18 DEF FdDataUnlock, Return, CallInv
  <2> QED BY <1>4, <2>1
<1> QED BY <1>1, <1>5, <1>6, <1>7, <1>8, <1>9, <1>11, <1>12, <1>13, <1>14, <1>15,
           <1>16, <1>17, <1>18 DEF Step, Reply, ReplyWrite, CallInv

LEMMA GuestChannel ==
  ASSUME Disciplined, BaseInv, ChannelInv, NEW t \in Threads,
         UNCHANGED commVars, Step(t) \/ StartCall(t) \/ FdDataLock(t)
  PROVE  ChannelInv'
<1>1. FreezeInv'
  BY GuestFreeze DEF ChannelInv
<1>2. \A u \in Threads : CallInv(u)' /\ RequestInv(u)' /\ TransferInv(u)'
  BY GuestSelf, GuestOther
<1>3. fault = NoThread /\ mgr \notin {"dma", "complete"}
  BY GuestFault, PageAssumption DEF ChannelInv, FreezeInv
<1>4. HostInv'
  <2>1. CASE UNCHANGED fault
    BY <1>3, <2>1, PageAssumption DEF HostInv, commVars
  <2>2. CASE WriteNonce(t)
    <3>1. turn' = FH_TURN_HOST
      BY <2>2 DEF WriteNonce, Goto, ChannelInv, RequestInv
    <3> QED BY <1>3, <3>1 DEF HostInv, commVars
  <2> QED BY <2>1, <2>2, GuestFault
<1> QED BY <1>1, <1>2, <1>4 DEF ChannelInv

-----------------------------------------------------------------------------
(* The host.                                                               *)

(* What the host may rely on when it looks at an outstanding fault.        *)
LEMMA Outstanding ==
  ASSUME Disciplined, BaseInv, ChannelInv, fault # NoThread
  PROVE  /\ fault \in Threads
         /\ pc[fault] = "check"
         /\ InLocked(fault)
         /\ ~sig
         /\ call[fault] \in {"open", "close", "handshake", "chunk", "dma"}
         /\ action = ActionOf(call[fault])
         /\ mgr \in {"idle", "dma"} => Requested(fault)
         /\ mgr \in {"idle", "dma"} => turn = FH_TURN_HOST
<1>1. fault \in Threads
  BY DEF BaseInv, TypeOK, PageTypeOK
<1>2. pc[fault] = "check" /\ ~sig
  BY <1>1 DEF ChannelInv, FreezeInv
<1>3. CallInv(fault) /\ RequestInv(fault)
  BY <1>1 DEF ChannelInv
<1>4. op[fault] \in ServedOps /\ op[fault] # "none"
  BY <1>2, <1>3 DEF CallInv
<1>5. call[fault] \in {"open", "close", "handshake", "chunk", "dma"}
  BY <1>3, <1>4 DEF CallInv, ServedOps
<1> QED BY <1>1, <1>2, <1>3, <1>4, <1>5
        DEF InLocked, ServedOps, LockedOps, RequestInv, Posted, ChannelInv, HostInv,
            BaseInv, TypeOK, PageTypeOK

(* The host acts for the thread of the fault only: every other thread is   *)
(* outside of the lock.                                                    *)
LEMMA HostOther ==
  ASSUME Disciplined, BaseInv, ChannelInv, fault # NoThread,
         NEW u \in Threads, u # fault, UNCHANGED stubVars
  PROVE  CallInv(u)' /\ RequestInv(u)' /\ TransferInv(u)'
<1>1. fault \in Threads /\ InLocked(fault)
  BY Outstanding
<1>2. CallInv(u)
  BY DEF ChannelInv
<1>3. pc[u] \in {"idle", "lock"}
  BY <1>1, <1>2, Outside
<1>4. SameThread(u)
  BY DEF SameThread, stubVars
<1> QED BY <1>2, <1>3, <1>4, OutsideInv

(* An answer concerns the thread of the fault; it is what the thread's     *)
(* request asked for.                                                      *)
LEMMA HostAnswer ==
  ASSUME Disciplined, BaseInv, ChannelInv, NEW f \in Threads, fault = f,
         UNCHANGED stubVars,
         NEW a, Answer(a),
         call[f] = "handshake" =>
           area'.w2 = TransferMax /\ CopiedOrLost(f, 0)',
         call[f] = "chunk" =>
           CopiedOrLost(f, arg[f].n - remain[f])'
  PROVE  HostInv' /\ \A u \in Threads : CallInv(u)' /\ RequestInv(u)' /\ TransferInv(u)'
<1>0. /\ UNCHANGED <<pc, op, call, arg, tsize, remain, pinned, file, fault, action>>
      /\ turn' = FH_TURN_GUEST
      /\ mgr' = "complete"
  BY DEF stubVars, Answer
<1>1. /\ pc[f] = "check"
      /\ CallInv(f) /\ RequestInv(f) /\ TransferInv(f)
  BY Outstanding, PageAssumption DEF ChannelInv
<1>2. CallInv(f)'
  BY <1>0, <1>1 DEF CallInv
<1>3. ~Posted(f)' /\ RequestInv(f)'
  BY <1>0, <1>1 DEF Posted, RequestInv
<1>4. TransferInv(f)'
  BY <1>0, <1>1, <1>3 DEF TransferInv
<1>5. HostInv'
  BY <1>0 DEF HostInv
<1>6. ASSUME NEW u \in Threads, u # f
      PROVE  CallInv(u)' /\ RequestInv(u)' /\ TransferInv(u)'
  BY <1>6, HostOther, PageAssumption
<1> QED BY <1>2, <1>3, <1>4, <1>5, <1>6

(* A request that the host refuses is no longer posted and not answered.   *)
LEMMA HostRefuse ==
  ASSUME Disciplined, BaseInv, ChannelInv, NEW f \in Threads, fault = f,
         UNCHANGED stubVars,
         mgr \in {"idle", "dma"}, NEW a, Refuse(a)
  PROVE  HostInv' /\ \A u \in Threads : CallInv(u)' /\ RequestInv(u)' /\ TransferInv(u)'
<1>0. /\ UNCHANGED <<pc, op, call, arg, tsize, remain, pinned, file, fault, action,
                     turn>>
      /\ mgr' = "exiting"
  BY DEF stubVars, Refuse
<1>1. /\ pc[f] = "check" /\ turn # FH_TURN_GUEST
      /\ CallInv(f) /\ RequestInv(f) /\ TransferInv(f)
  BY Outstanding, PageAssumption DEF ChannelInv
<1>2. CallInv(f)'
  BY <1>0, <1>1 DEF CallInv
<1>3. ~Posted(f)' /\ ~Answered(f)' /\ RequestInv(f)'
  BY <1>0, <1>1 DEF Posted, Answered, RequestInv
<1>4. TransferInv(f)'
  BY <1>0, <1>1, <1>3 DEF TransferInv
<1>5. HostInv'
  BY <1>0, <1>1 DEF HostInv
<1>6. ASSUME NEW u \in Threads, u # f
      PROVE  CallInv(u)' /\ RequestInv(u)' /\ TransferInv(u)'
  BY <1>6, HostOther, PageAssumption
<1> QED BY <1>2, <1>3, <1>4, <1>5, <1>6

(* The handshake of t leaves an empty buffer of the announced size.        *)
LEMMA HandshakeCopies ==
  ASSUME BaseInv, NEW t \in Threads, Requested(t), call[t] = "handshake",
         ServeHandshake, UNCHANGED arg
  PROVE  area'.w2 = TransferMax /\ CopiedOrLost(t, 0)'
<1>1. xfer'.size = arg[t].n /\ xfer'.chunk = 0 /\ xfer'.buf = EmptyBuf
  BY DEF ServeHandshake, Requested
<1>2. EmptyBuf = [i \in 0..(0 - 1) |-> <<t, i>>]
  BY DEF EmptyBuf
<1>3. area'.w2 = TransferMax
  BY DEF ServeHandshake, Answer, Data
<1> QED BY <1>1, <1>2, <1>3 DEF CopiedOrLost, Copied

(* A chunk of t extends the copy by the bytes of the chunk.                *)
LEMMA ChunkCopies ==
  ASSUME BaseInv, ChannelInv, NEW t \in Threads, Requested(t), Posted(t),
         call[t] = "chunk", ServeChunk, UNCHANGED <<arg, remain>>
  PROVE  CopiedOrLost(t, arg[t].n - remain[t])'
<1> DEFINE from == area.body.from
           k == arg[t].n - remain[t]
<1>1. /\ area.w1 \in Nat /\ area.w1 <= TransferMax /\ from \in Int
      /\ area.body.view = "chunk" /\ area.body.by = t
      /\ from + area.w1 = k
      /\ TransferMax \in Nat
  BY CommAssumption DEF Requested, BaseInv, TypeOK, PageTypeOK, Area, Body
<1>2. Transfer = area.w1
  BY <1>1 DEF Transfer
<1>3. CopiedOrLost(t, from)
  BY DEF ChannelInv, TransferInv
<1>4. xfer' = CopyChunk
  BY DEF ServeChunk
<1>5. SUFFICES ASSUME xfer'.info = FH_ACTION_DMA PROVE Copied(t, k)'
  BY DEF CopiedOrLost
<1>6. xfer.info = FH_ACTION_DMA
  BY <1>4, <1>5 DEF CopyChunk
<1>7. /\ xfer.size = arg[t].n
      /\ xfer.chunk = from
      /\ xfer.buf = [i \in 0..(from - 1) |-> <<t, i>>]
  BY <1>3, <1>6 DEF CopiedOrLost, Copied
<1>8. CopiedBuf = [i \in 0..(k - 1) |-> <<t, i>>]
  <2>1. ASSUME NEW i \in 0..(k - 1)
        PROVE  (IF i < xfer.chunk THEN xfer.buf[i] ELSE ByteAt(i - xfer.chunk))
               = <<t, i>>
    <3>1. CASE i < from
      <4>1. i \in 0..(from - 1)
        BY <1>1, <3>1
      <4> QED BY <1>7, <3>1, <4>1
    <3>2. CASE ~(i < from)
      <4>1. ByteAt(i - from) = <<t, from + (i - from)>>
        BY <1>1 DEF ByteAt
      <4>2. from + (i - from) = i
        BY <1>1
      <4> QED BY <1>7, <3>2, <4>1, <4>2
    <3> QED BY <3>1, <3>2
  <2>2. xfer.chunk + Transfer = k
    BY <1>1, <1>2, <1>7
  <2> HIDE DEF k, from
  <2>3. 0..(xfer.chunk + Transfer - 1) = 0..(k - 1)
    <3>1. k \in Int /\ xfer.chunk \in Int /\ Transfer \in Int
      BY <1>1, <1>2, <1>7
    <3> QED BY <2>2, <3>1
  <2>4. CopiedBuf = [i \in 0..(k - 1) |->
            IF i < xfer.chunk THEN xfer.buf[i] ELSE ByteAt(i - xfer.chunk)]
    BY <2>3, Zenon DEF CopiedBuf
  <2> QED BY <2>1, <2>4
<1>9. /\ xfer'.size = arg[t].n
      /\ xfer'.chunk = k
      /\ xfer'.buf = CopiedBuf
  BY <1>1, <1>2, <1>4, <1>7 DEF CopyChunk
<1> QED BY <1>8, <1>9 DEF Copied

(* The listener between two requests, the end and the start of a manager:  *)
(* the requests on the page stay, an outstanding one is given up, and the  *)
(* buffer is kept or lost as a whole.                                      *)
LEMMA HostRelease ==
  ASSUME Disciplined, BaseInv, ChannelInv, UNCHANGED stubVars,
         UNCHANGED <<turn, action, area>>,
         fault' = NoThread \/ (fault' = fault /\ mgr' = "exiting"),
         mgr' # "dma", xfer' = xfer \/ xfer' = NoXfer
  PROVE  HostInv' /\ \A u \in Threads : CallInv(u)' /\ RequestInv(u)' /\ TransferInv(u)'
<1>0. UNCHANGED <<pc, op, call, arg, tsize, remain, pinned, file>>
  BY DEF stubVars
<1>1. HostInv'
  BY PageAssumption DEF HostInv
<1>2. ASSUME NEW u \in Threads
      PROVE  CallInv(u)' /\ RequestInv(u)' /\ TransferInv(u)'
  <2>1. CallInv(u) /\ RequestInv(u) /\ TransferInv(u)
    BY DEF ChannelInv
  <2>2. CallInv(u)'
    BY <1>0, <2>1 DEF CallInv
  <2>3. (Posted(u)' => Posted(u)) /\ (Answered(u)' => Answered(u))
    BY <1>0, PageAssumption DEF Posted, Answered
  <2>4. RequestInv(u)'
    BY <1>0, <2>1, <2>3 DEF RequestInv, Requested
  <2>5. ASSUME NEW k, CopiedOrLost(u, k) PROVE CopiedOrLost(u, k)'
    BY <1>0, <2>5, NoXferOK DEF CopiedOrLost, Copied
  <2>6. TransferInv(u)'
    BY <1>0, <2>1, <2>3, <2>5 DEF TransferInv
  <2> QED BY <2>2, <2>4, <2>6
<1> QED BY <1>1, <1>2

LEMMA ListenerChannel ==
  ASSUME Disciplined, BaseInv, ChannelInv, Listener, UNCHANGED stubVars
  PROVE  HostInv' /\ \A u \in Threads : CallInv(u)' /\ RequestInv(u)' /\ TransferInv(u)'
<1> DEFINE Goal == HostInv' /\ \A u \in Threads :
                     CallInv(u)' /\ RequestInv(u)' /\ TransferInv(u)'
<1>0. CASE HookCompleted \/ ManagerExit
  BY <1>0, HostRelease DEF HookCompleted, ManagerExit
<1>1. CASE OnFault
  <2>1. fault # NoThread /\ mgr \in {"idle", "dma"}
    <3>1. mgr = "dma" => fault # NoThread
      BY PageAssumption DEF ChannelInv, FreezeInv
    <3> QED BY <1>1, <3>1
        DEF OnFault, Dismiss, ServeOpen, ServeClose, ServeMmap, ServeHandshake,
            RefuseHandshake, ServeChunk, RefuseChunk, ServeUnknownStatus,
            StartDma, FinishDma, RefuseDma, FailDma, ServeUnknownAction, Serving
  <2>2. PICK f \in Threads : fault = f
    BY <2>1, Outstanding
  <2>3. /\ pc[f] = "check"
        /\ call[f] \in {"open", "close", "handshake", "chunk", "dma"}
        /\ action = ActionOf(call[f])
        /\ Requested(f)
        /\ Posted(f)
        /\ turn = FH_TURN_HOST
        /\ CallInv(f) /\ RequestInv(f) /\ TransferInv(f)
    <3>1. turn \in {FH_TURN_HOST, FH_TURN_GUEST}
      BY DEF BaseInv, TypeOK, PageTypeOK
    <3> QED BY <2>1, <2>2, <3>1, Outstanding DEF ChannelInv, Posted
  <2>4. UNCHANGED <<pc, op, call, arg, tsize, remain, pinned, file>>
    BY DEF stubVars
  <2>16. /\ Serving(FH_ACTION_DMA) => call[f] = "dma"
         /\ Serving(FH_ACTION_TRANSFER_ESCAPE_DATA) =>
              \/ call[f] = "handshake" /\ area.w0 = StatusTransferSize
              \/ call[f] = "chunk" /\ area.w0 = StatusTransferData
    <3>1. action = FH_ACTION_DMA => call[f] = "dma"
      BY <2>3, CallOfAction
    <3>2. action = FH_ACTION_TRANSFER_ESCAPE_DATA => call[f] \in {"handshake", "chunk"}
      BY <2>3, CallOfAction
    <3>3. /\ call[f] = "handshake" => area.w0 = StatusTransferSize
          /\ call[f] = "chunk" => area.w0 = StatusTransferData
      BY <2>3 DEF Requested
    <3> QED BY <3>1, <3>2, <3>3 DEF Serving
  <2>5. ASSUME NEW a, Answer(a), call[f] \notin {"handshake", "chunk"} PROVE Goal
    BY <2>2, <2>5, HostAnswer
  <2>6. ASSUME NEW a, Refuse(a) PROVE Goal
    BY <2>1, <2>2, <2>6, HostRefuse
  <2>7. ~Dismiss
    BY <2>3 DEF Dismiss
  <2>8. CASE ServeOpen \/ ServeClose
    BY <2>3, <2>5, <2>8, CallOfAction DEF ServeOpen, ServeClose, Serving
  <2>9. ~ServeMmap /\ ~ServeUnknownAction
    BY <2>3, CallOfAction DEF ServeMmap, ServeUnknownAction, Serving
  <2>10. CASE ServeHandshake
    <3>1. call[f] = "handshake"
      BY <2>16, <2>10 DEF ServeHandshake
    <3>2. area'.w2 = TransferMax /\ CopiedOrLost(f, 0)'
      BY <2>3, <2>4, <2>10, <3>1, HandshakeCopies
    <3>3. PICK a : Answer(a)
      BY <2>10 DEF ServeHandshake
    <3> QED BY <2>2, <3>1, <3>2, <3>3, HostAnswer
  <2>11. CASE ServeChunk
    <3>1. call[f] = "chunk"
      BY <2>16, <2>11 DEF ServeChunk
    <3>2. CopiedOrLost(f, arg[f].n - remain[f])'
      BY <2>3, <2>4, <2>11, <3>1, ChunkCopies
    <3>3. PICK a : Answer(a)
      BY <2>11 DEF ServeChunk
    <3> QED BY <2>2, <3>1, <3>2, <3>3, HostAnswer
  <2>12. ~ServeUnknownStatus
    BY <2>16 DEF ServeUnknownStatus
  <2>13. CASE RefuseHandshake \/ RefuseChunk \/ RefuseDma \/ FailDma
    BY <2>6, <2>13 DEF RefuseHandshake, RefuseChunk, RefuseDma, FailDma
  <2>14. CASE StartDma
    <3>1. /\ mgr = "idle" /\ mgr' = "dma"
          /\ call[f] = "dma"
          /\ UNCHANGED <<turn, action, area, fault, xfer>>
      BY <2>16, <2>14 DEF StartDma, Serving, pageVars
    <3>2. HostInv'
      BY <2>2, <2>3, <2>4, <3>1 DEF HostInv
    <3>3. CallInv(f)'
      BY <2>3, <2>4 DEF CallInv
    <3>4. RequestInv(f)' /\ ~Answered(f)'
      BY <2>3, <2>4, <3>1 DEF RequestInv, Requested, Answered
    <3>5. TransferInv(f)'
      BY <2>3, <2>4, <3>1, <3>4 DEF TransferInv, CopiedOrLost, Copied
    <3>6. ASSUME NEW u \in Threads, u # f
          PROVE  CallInv(u)' /\ RequestInv(u)' /\ TransferInv(u)'
      BY <2>1, <2>2, <3>6, HostOther
    <3> QED BY <3>2, <3>3, <3>4, <3>5, <3>6
  <2>15. CASE FinishDma
    <3>1. call[f] = "dma"
      BY <2>2, <2>15 DEF FinishDma, ChannelInv, HostInv
    <3> QED BY <2>5, <2>15, <3>1 DEF FinishDma
  <2> QED BY <1>1, <2>7, <2>8, <2>9, <2>10, <2>11, <2>12, <2>13, <2>14, <2>15
          DEF OnFault
<1> QED BY <1>0, <1>1 DEF Listener

LEMMA HostEventChannel ==
  ASSUME Disciplined, BaseInv, ChannelInv, HostEvent
  PROVE  HostInv' /\ \A u \in Threads : CallInv(u)' /\ RequestInv(u)' /\ TransferInv(u)'
<1>1. CASE Signal
  BY <1>1, HostRelease DEF Signal, HostEvent, Disciplined
<1>2. CASE ManagerStart
  <2>1. fault = NoThread
    <3>1. fault \in Threads \cup {NoThread}
      BY DEF BaseInv, TypeOK, PageTypeOK
    <3> QED BY <1>2, <3>1 DEF ManagerStart, ChannelInv, FreezeInv
  <2> QED BY <1>2, <2>1, HostRelease DEF ManagerStart, HostEvent
<1>3. CASE ListenerFails
  BY <1>3, HostRelease DEF ListenerFails, HostEvent, pageVars
<1> QED BY <1>1, <1>2, <1>3 DEF HostEvent

LEMMA ChannelInit == Init => ChannelInv
<1> SUFFICES ASSUME Init PROVE ChannelInv
  OBVIOUS
<1>1. FreezeInv
  BY FreezeInit
<1>2. HostInv
  BY PageAssumption DEF Init, PageInit, CommInit, HostInv
<1>3. ASSUME NEW u \in Threads PROVE CallInv(u) /\ RequestInv(u) /\ TransferInv(u)
  BY DEF Init, StubInit, CallInv, ServedOps, RequestInv, TransferInv, Posted,
         Answered
<1> QED BY <1>1, <1>2, <1>3 DEF ChannelInv

LEMMA ChannelStep ==
  ASSUME Disciplined PROVE BaseInv /\ ChannelInv /\ [Next]_vars => ChannelInv'
<1> SUFFICES ASSUME BaseInv, ChannelInv, [Next]_vars PROVE ChannelInv'
  OBVIOUS
<1>1. FreezeInv'
  BY FreezeStep DEF Disciplined, ChannelInv
<1>2. ASSUME NEW t \in Threads, GuestStep(t) \/ GuestLock(t) PROVE ChannelInv'
  BY <1>2, GuestChannel DEF GuestStep, GuestLock
<1>3. CASE HostStep
  BY <1>1, <1>3, ListenerChannel DEF HostStep, ChannelInv
<1>4. CASE HostEvent
  BY <1>1, <1>4, HostEventChannel DEF ChannelInv
<1>5. CASE UNCHANGED vars
  <2>1. HostInv'
    BY <1>5 DEF vars, pageVars, stubVars, commVars, ChannelInv, HostInv
  <2>2. ASSUME NEW u \in Threads
        PROVE  CallInv(u)' /\ RequestInv(u)' /\ TransferInv(u)'
    <3>1. SameThread(u) /\ UNCHANGED <<turn, action, area, fault, mgr, xfer>>
      BY <1>5 DEF vars, pageVars, stubVars, commVars, SameThread
    <3> QED BY <3>1, SamePage DEF ChannelInv
  <2> QED BY <1>1, <2>1, <2>2 DEF ChannelInv
<1> QED BY <1>2, <1>3, <1>4, <1>5 DEF Next

(* If the threads use open, close and DMA only and signals reach the       *)
(* manager in poll(), then every DMA that the manager starts works on      *)
(* exactly the page list of the call that asked for it, for any number of  *)
(* threads, any sizes, any size of the escape page and any number of       *)
(* failures and restarts of the manager.                                   *)
THEOREM DmaHasItsOwnPages == ASSUME Disciplined PROVE Spec => []DmaIntegrity
<1>1. BaseInv /\ ChannelInv => DmaIntegrity
  <2> SUFFICES ASSUME BaseInv, ChannelInv, mgr = "dma" PROVE DmaIntegrity
    BY DEF DmaIntegrity
  <2>1. PICK f \in Threads : fault = f
    BY DEF ChannelInv, FreezeInv
  <2>2. call[f] = "dma" /\ pc[f] = "check" /\ xfer.info = FH_ACTION_DMA
    BY <2>1 DEF ChannelInv, FreezeInv, HostInv, BaseInv, BufferInv
  <2>3. CallInv(f) /\ RequestInv(f) /\ TransferInv(f) /\ Posted(f)
    BY <2>1, <2>2 DEF ChannelInv, Posted
  <2>4. op[f] = "dma" /\ pinned[f]
    BY <2>2, <2>3 DEF CallInv, ServedOps
  <2>5. /\ area.body.by = f /\ area.body.write = arg[f].write
        /\ area.body.n = arg[f].n
    BY <2>2, <2>3 DEF RequestInv, Requested
  <2>6. Copied(f, arg[f].n)
    BY <2>2, <2>3 DEF TransferInv, CopiedOrLost
  <2> QED BY <2>1, <2>4, <2>5, <2>6 DEF DmaIntegrity, Copied
<1> QED BY <1>1, ChannelInit, ChannelStep, BaseInvariant, PTL DEF Spec

(* Under the same conditions no fault of a guest driver is taken for an    *)
(* unintentional one (on_fault's test of turn).                            *)
THEOREM NoFaultIsDismissed ==
  ASSUME Disciplined PROVE Spec => []NoRequestDismissed
<1>1. Init => NoRequestDismissed
  BY DEF Init, CommInit, NoRequestDismissed
<1>2. BaseInv /\ ChannelInv /\ NoRequestDismissed /\ [Next]_vars
      => NoRequestDismissed'
  <2> SUFFICES ASSUME BaseInv, ChannelInv, ~dismissed, [Next]_vars
               PROVE  ~dismissed'
    BY DEF NoRequestDismissed
  <2>1. ~Dismiss
    BY Outstanding DEF Dismiss, BaseInv, TypeOK, PageTypeOK
  <2> QED BY <2>1 DEF Next, GuestStep, GuestLock, HostStep, HostEvent, Listener,
        OnFault, ServeOpen, ServeClose, ServeMmap, ServeHandshake,
        RefuseHandshake, ServeChunk, RefuseChunk, ServeUnknownStatus, StartDma,
        FinishDma, RefuseDma, FailDma, ServeUnknownAction, Answer, Refuse,
        HookCompleted, ManagerExit, Signal, ListenerFails, ManagerStart, commVars,
        vars
<1> QED BY <1>1, <1>2, ChannelInit, ChannelStep, BaseInvariant, PTL DEF Spec

-----------------------------------------------------------------------------
(* How often a call is carried out.                                        *)

DoneAll == \A t \in Threads : DoneInv(t)

(* A thread that takes no part in a step: it is outside of the lock, or    *)
(* the step changes neither the page nor the manager.                      *)
LEMMA DoneOther ==
  ASSUME NEW u \in Threads, CallInv(u), DoneInv(u), SameThread(u),
         done'[u] = done[u],
         pc[u] \in {"idle", "lock"} \/ UNCHANGED <<turn, area, fault, mgr>>
  PROVE  DoneInv(u)'
<1>1. CASE pc[u] \in {"idle", "lock"}
  <2>1. ~Posted(u)' /\ ~Answered(u)'
    BY <1>1 DEF Posted, Answered, SameThread
  <2> QED BY <2>1 DEF DoneInv, SameThread
<1>2. CASE UNCHANGED <<turn, area, fault, mgr>>
  <2>1. Posted(u)' = Posted(u) /\ Answered(u)' = Answered(u)
    BY <1>2 DEF Posted, Answered, SameThread
  <2> QED BY <1>2, <2>1 DEF DoneInv, SameThread, CommonRetNegative
<1> QED BY <1>1, <1>2

LEMMA GuestDoneOther ==
  ASSUME Disciplined, BaseInv, ChannelInv, DoneAll, NEW t \in Threads,
         NEW u \in Threads, u # t, UNCHANGED commVars,
         Step(t) \/ StartCall(t) \/ FdDataLock(t)
  PROVE  DoneInv(u)'
<1>1. SameThread(u) /\ done'[u] = done[u]
  BY OtherThread
<1>2. CallInv(t) /\ CallInv(u) /\ DoneInv(u)
  BY DEF ChannelInv, DoneAll
<1>3. CASE Step(t)
  <2>1. pc[t] \in {"fill", "arm", "nonce", "check", "reply", "unlock", "memset"}
    BY <1>3 DEF Step, Fill, FillOpenClose, FillReadWrite,
                FillWriteFault, FillHandshake,
                FillChunk, FillDma, MemsetMmap, FillMmap, Filled, Arm, WriteNonce,
                CheckNoReply, CheckReply, Reply, ReplyOpen, ReplyRet,
                ReplyHandshake, ReplyChunk, ReplyChunkFailed, ReplyWrite,
                FdDataUnlock, Leave, Return, ToUnlock, Goto
  <2>2. InLocked(t)
    BY <1>2, <2>1 DEF InLocked, CallInv, ServedOps, LockedOps
  <2> QED BY <1>1, <1>2, <2>2, Outside, DoneOther
<1>4. CASE StartCall(t) \/ FdDataLock(t)
  <2>1. "ioctl" \notin Ops[t]
    BY DEF Disciplined, ServedOps
  <2>2. UNCHANGED <<turn, area, fault, mgr>>
    BY <1>4, <2>1 DEF StartCall, EnterLocked, EnterDma, EnterEarlyReturn,
                      EnterMmap, CtrlIoctl, Enter, FdDataLock, pageVars, commVars
  <2> QED BY <1>1, <1>2, <2>2, DoneOther
<1> QED BY <1>3, <1>4

LEMMA GuestDoneSelf ==
  ASSUME Disciplined, BaseInv, ChannelInv, DoneAll, NEW t \in Threads,
         UNCHANGED commVars, Step(t) \/ StartCall(t) \/ FdDataLock(t)
  PROVE  DoneInv(t)'
<1> USE DEF Goto
<1>0. /\ pc \in [Threads -> PCs]
      /\ op \in [Threads -> LockedOps \cup UnlockedOps \cup {"none"}]
      /\ call \in [Threads -> Calls]
      /\ res \in [Threads -> {"none", "ok", "err"}]
      /\ done \in [Threads -> 0..2]
  BY DEF BaseInv, TypeOK, StubTypeOK, PageTypeOK
<1>1. CallInv(t) /\ RequestInv(t) /\ DoneInv(t)
  BY DEF ChannelInv, DoneAll
<1>2. fault # t
  BY GuestFault, PageAssumption
<1>3. CASE StartCall(t)
  <2>1. Ops[t] \subseteq ServedOps
    BY DEF Disciplined
  <2>2. /\ done'[t] = 0
        /\ \/ pc'[t] = "lock" /\ res'[t] = "none"
           \/ pc'[t] = "idle" /\ res'[t] = "err"
    BY <1>0, <1>3, <2>1 DEF StartCall, EnterLocked, EnterDma, EnterEarlyReturn,
                            EnterMmap, CtrlIoctl, Enter, ServedOps
  <2>3. ~Posted(t)' /\ ~Answered(t)'
    BY <2>2 DEF Posted, Answered
  <2> QED BY <2>2, <2>3 DEF DoneInv
<1>4. CASE FdDataLock(t)
  <2>1. /\ pc[t] = "lock" /\ pc'[t] = "fill"
        /\ UNCHANGED <<op, call, res, done>>
    BY <1>0, <1>4 DEF FdDataLock, pageVars
  <2>2. ~Posted(t)' /\ ~Answered(t)'
    BY <2>1 DEF Posted, Answered
  <2> QED BY <1>1, <2>1, <2>2 DEF DoneInv
<1>5. CASE Fill(t)
  <2>1. /\ pc[t] = "fill" /\ pc'[t] = "arm"
        /\ UNCHANGED <<op, call, res, done>>
    BY <1>0, <1>1, <1>5 DEF Fill, FillOpenClose, FillReadWrite,
       FillWriteFault, FillHandshake, FillChunk, FillDma, MemsetMmap, FillMmap,
       Filled, CallInv, ServedOps
  <2>2. ~Answered(t)'
    BY <2>1 DEF Answered
  <2> QED BY <1>1, <2>1, <2>2 DEF DoneInv
<1>6. CASE Arm(t)
  <2>1. /\ pc[t] = "arm" /\ pc'[t] = "nonce"
        /\ UNCHANGED <<op, call, res, done>>
    BY <1>0, <1>6 DEF Arm
  <2>2. Posted(t) /\ ~Answered(t)'
    BY <2>1 DEF Posted, Answered
  <2> QED BY <1>1, <2>1, <2>2 DEF DoneInv
<1>7. CASE WriteNonce(t)
  <2>1. /\ pc[t] = "nonce" /\ pc'[t] = "check"
        /\ UNCHANGED <<op, call, res, done, turn>>
    BY <1>0, <1>7 DEF WriteNonce
  <2>2. Posted(t) /\ ~Answered(t)'
    BY <1>1, <2>1 DEF Posted, Answered, RequestInv
  <2> QED BY <1>1, <2>1, <2>2 DEF DoneInv
<1>8. ASSUME NEW f \in {"check", "reply"}, NEW r \in {"ok", "err"}, Leave(t, f, r),
             r = "ok" => done[t] = 1
      PROVE  DoneInv(t)'
  <2>1. op[t] # "mmap"
    BY <1>1 DEF CallInv, ServedOps
  <2>2. /\ pc[t] = f /\ pc'[t] = "unlock" /\ res'[t] = r
        /\ UNCHANGED <<op, call, done>>
    BY <1>0, <1>8, <2>1 DEF Leave, ToUnlock, pageVars
  <2>3. ~Posted(t)' /\ ~Answered(t)'
    BY <2>2 DEF Posted, Answered
  <2> QED BY <1>1, <1>8, <2>2, <2>3 DEF DoneInv
<1>9. CASE CheckNoReply(t)
  BY <1>8, <1>9 DEF CheckNoReply
<1>10. CASE CheckReply(t)
  <2>1. /\ pc[t] = "check" /\ pc'[t] = "reply"
        /\ turn = FH_TURN_GUEST
        /\ UNCHANGED <<op, call, res, done, area>>
    BY <1>0, <1>1, <1>10 DEF CheckReply, CallInv, ServedOps, pageVars
  <2>2. Answered(t) /\ ~Posted(t)'
    BY <2>1 DEF Posted, Answered
  <2> QED BY <1>1, <2>1, <2>2 DEF DoneInv, CommonRetNegative
<1>11. ASSUME pc[t] = "reply", call[t] \in ServedOps, ~CommonRetNegative(area)
       PROVE  done[t] = 1
  BY <1>1, <1>11 DEF DoneInv, Answered
<1>12. CASE ReplyOpen(t)
  BY <1>8, <1>11, <1>12 DEF ReplyOpen, ServedOps, Leave, Return, ToUnlock
<1>13. CASE ReplyRet(t)
  <2>1. call[t] \in ServedOps
    BY <1>1, <1>13 DEF ReplyRet, CallInv, ServedOps
  <2> QED BY <1>8, <1>11, <1>13, <2>1 DEF ReplyRet, Leave, Return, ToUnlock
<1>14. CASE ReplyChunkFailed(t)
  BY <1>8, <1>14 DEF ReplyChunkFailed
<1>15. CASE ReplyHandshake(t) \/ ReplyChunk(t)
  <2>1. /\ pc[t] = "reply" /\ pc'[t] = "fill"
        /\ call[t] \in {"handshake", "chunk"}
        /\ UNCHANGED <<op, res, done>>
    BY <1>0, <1>15 DEF ReplyHandshake, ReplyChunk, pageVars
  <2>2. done[t] = 0
    BY <1>1, <2>1 DEF DoneInv, CallInv, ServedOps
  <2>3. ~Posted(t)' /\ ~Answered(t)'
    BY <2>1 DEF Posted, Answered
  <2> QED BY <1>1, <2>1, <2>2, <2>3 DEF DoneInv
<1>16. CASE FdDataUnlock(t)
  <2>1. /\ pc[t] = "unlock" /\ pc'[t] = "idle" /\ op'[t] = "none"
        /\ res'[t] = res[t]
        /\ UNCHANGED done
    BY <1>0, <1>16 DEF FdDataUnlock, Return, pageVars
  <2>2. ~Posted(t)' /\ ~Answered(t)'
    BY <2>1 DEF Posted, Answered
  <2> QED BY <1>1, <2>1, <2>2 DEF DoneInv
<1> QED BY <1>1, <1>3, <1>4, <1>5, <1>6, <1>7, <1>9, <1>10, <1>12, <1>13, <1>14,
           <1>15, <1>16 DEF Step, Reply, ReplyWrite, CallInv, ServedOps

(* A step of the host for the thread f of the fault: the others are        *)
(* outside of the lock, so that only the count of f can be wrong.          *)
LEMMA HostDone ==
  ASSUME Disciplined, BaseInv, ChannelInv, DoneAll, UNCHANGED stubVars,
         NEW f \in Threads, fault = f, DoneInv(f)',
         \A u \in Threads : u # f => done'[u] = done[u]
  PROVE  DoneAll'
<1> SUFFICES ASSUME NEW u \in Threads, u # f PROVE DoneInv(u)'
  BY DEF DoneAll
<1>1. CallInv(u) /\ DoneInv(u) /\ SameThread(u)
  BY DEF ChannelInv, DoneAll, SameThread, stubVars
<1>2. InLocked(f)
  BY Outstanding, PageAssumption
<1> QED BY <1>1, <1>2, Outside, DoneOther

LEMMA ListenerDone ==
  ASSUME Disciplined, BaseInv, ChannelInv, DoneAll, OnFault, UNCHANGED stubVars
  PROVE  DoneAll'
<1>1. fault # NoThread /\ mgr \in {"idle", "dma"}
  <2>1. mgr = "dma" => fault # NoThread
    BY PageAssumption DEF ChannelInv, FreezeInv
  <2> QED BY <2>1
      DEF OnFault, Dismiss, ServeOpen, ServeClose, ServeMmap, ServeHandshake,
          RefuseHandshake, ServeChunk, RefuseChunk, ServeUnknownStatus,
          StartDma, FinishDma, RefuseDma, FailDma, ServeUnknownAction, Serving
<1>2. PICK f \in Threads : fault = f
  BY <1>1, Outstanding
<1>3. /\ pc[f] = "check"
      /\ call[f] \in {"open", "close", "handshake", "chunk", "dma"}
      /\ action = ActionOf(call[f])
      /\ Requested(f)
      /\ turn = FH_TURN_HOST
      /\ CallInv(f)
      /\ DoneInv(f)
      /\ done[f] = 0
      /\ done \in [Threads -> 0..2]
  <2>1. turn \in {FH_TURN_HOST, FH_TURN_GUEST} /\ done \in [Threads -> 0..2]
    BY DEF BaseInv, TypeOK, PageTypeOK
  <2> QED BY <1>1, <1>2, <2>1, Outstanding
          DEF ChannelInv, DoneAll, Posted, DoneInv
<1>4. UNCHANGED <<pc, op, call, res>>
  BY DEF stubVars
<1>5. ASSUME NEW a, Answer(a),
             \A u \in Threads : u # f => done'[u] = done[u],
             done'[f] \in {0, 1},
             call[f] \in {"handshake", "chunk"} => done'[f] = 0,
             call[f] \in ServedOps /\ ~CommonRetNegative(a) => done'[f] = 1
      PROVE  DoneAll'
  <2>1. area' = a /\ mgr' = "complete" /\ UNCHANGED fault
    BY <1>5 DEF Answer
  <2>2. ~Posted(f)'
    BY <1>2, <1>3, <1>4, <2>1 DEF Posted
  <2>3. call[f] # "dma" /\ op[f] = "dma" => done'[f] = 0
    BY <1>3, <1>5 DEF CallInv, ServedOps
  <2>4. DoneInv(f)'
    BY <1>3, <1>4, <1>5, <2>1, <2>2, <2>3 DEF DoneInv, CommonRetNegative
  <2> QED BY <1>2, <1>5, <2>4, HostDone
<1>6. ASSUME NEW a, Refuse(a) PROVE DoneAll'
  <2>1. mgr' = "exiting" /\ UNCHANGED <<turn, done>>
    BY <1>6 DEF Refuse
  <2>2. ~Posted(f)' /\ ~Answered(f)'
    BY <1>2, <1>3, <1>4, <2>1 DEF Posted, Answered
  <2>3. DoneInv(f)'
    BY <1>3, <1>4, <2>1, <2>2 DEF DoneInv
  <2> QED BY <1>2, <2>1, <2>3, HostDone
<1>7. ASSUME Carried(f)
      PROVE  done'[f] = 1 /\ \A u \in Threads : u # f => done'[u] = done[u]
  BY <1>3, <1>7 DEF Carried
<1>8. ~CommonRetNegative(SetRetAndErrNo(area, 0))
      /\ CommonRetNegative(SetRetAndErrNo(area, -1))
      /\ \A fd \in Fds : ~CommonRetNegative(SetRetAndErrNo(area, fd))
  <2>1. ASSUME NEW r \in Nat PROVE SetRetAndErrNo(area, r).w2 = 0
    <3>1. ~(r < 0)
      OBVIOUS
    <3> QED BY <3>1 DEF SetRetAndErrNo, Data
  <2>2. SetRetAndErrNo(area, -1).w2 = -1
    <3>1. -1 < 0
      OBVIOUS
    <3> QED BY <3>1 DEF SetRetAndErrNo, Data
  <2> QED BY <2>1, <2>2, CommAssumption DEF CommonRetNegative
<1>9. CASE ServeOpen
  <2>1. call[f] = "open"
    BY <1>3, <1>9, CallOfAction DEF ServeOpen, Serving
  <2>2. area.body.by = f
    BY <1>3, <2>1 DEF Requested
  <2> QED BY <1>3, <1>5, <1>7, <1>8, <1>9, <2>1, <2>2 DEF ServeOpen
<1>10. CASE ServeClose
  <2>1. call[f] = "close"
    BY <1>3, <1>10, CallOfAction DEF ServeClose, Serving
  <2> QED BY <1>2, <1>3, <1>5, <1>7, <1>8, <1>10, <2>1 DEF ServeClose
<1>11. CASE ServeHandshake \/ ServeChunk \/ ServeUnknownStatus
  <2>1. call[f] \in {"handshake", "chunk"}
    BY <1>3, <1>11, CallOfAction
       DEF ServeHandshake, ServeChunk, ServeUnknownStatus, Serving
  <2>2. UNCHANGED done /\ \E a : Answer(a)
    BY <1>11 DEF ServeHandshake, ServeChunk, ServeUnknownStatus
  <2> QED BY <1>3, <1>5, <2>1, <2>2 DEF ServedOps
<1>12. CASE RefuseHandshake \/ RefuseChunk \/ RefuseDma \/ FailDma
  BY <1>6, <1>12 DEF RefuseHandshake, RefuseChunk, RefuseDma, FailDma
<1>13. CASE StartDma
  <2>1. mgr' = "dma" /\ mgr = "idle" /\ UNCHANGED <<turn, area, fault, done>>
    BY <1>13 DEF StartDma, Serving, pageVars
  <2>2. ~Answered(f)'
    BY <1>3, <1>4, <2>1 DEF Answered
  <2>3. DoneInv(f)'
    BY <1>3, <1>4, <2>1, <2>2 DEF DoneInv
  <2> QED BY <1>2, <2>1, <2>3, HostDone
<1>14. CASE FinishDma
  <2>1. call[f] = "dma"
    BY <1>2, <1>14 DEF FinishDma, ChannelInv, HostInv
  <2>2. area.body.by = f
    BY <1>3, <2>1 DEF Requested
  <2> QED BY <1>5, <1>7, <1>8, <1>14, <2>1, <2>2 DEF FinishDma
<1>15. ~Dismiss /\ ~ServeMmap /\ ~ServeUnknownAction
  BY <1>3, CallOfAction DEF Dismiss, ServeMmap, ServeUnknownAction, Serving
<1> QED BY <1>9, <1>10, <1>11, <1>12, <1>13, <1>14, <1>15 DEF OnFault

(* The listener between two requests, the end and the start of a manager.  *)
LEMMA ReleaseDone ==
  ASSUME DoneAll, UNCHANGED stubVars, UNCHANGED <<turn, area, done>>,
         fault' = NoThread \/ (fault' = fault /\ mgr' = "exiting")
  PROVE  DoneAll'
<1> SUFFICES ASSUME NEW u \in Threads PROVE DoneInv(u)'
  BY DEF DoneAll
<1>1. UNCHANGED <<pc, op, call, res>>
  BY DEF stubVars
<1>2. (Posted(u)' => Posted(u)) /\ (Answered(u)' => Answered(u))
  BY <1>1, PageAssumption DEF Posted, Answered
<1> QED BY <1>1, <1>2 DEF DoneAll, DoneInv, CommonRetNegative

LEMMA DoneInit == Init => DoneAll
<1> SUFFICES ASSUME Init, NEW t \in Threads PROVE DoneInv(t)
  BY DEF DoneAll
<1>1. pc[t] = "idle" /\ op[t] = "none" /\ res[t] = "none" /\ done[t] = 0
  BY DEF Init, PageInit, StubInit
<1>2. ~Posted(t) /\ ~Answered(t)
  BY <1>1 DEF Posted, Answered
<1> QED BY <1>1, <1>2 DEF DoneInv

LEMMA DoneStep ==
  ASSUME Disciplined
  PROVE  BaseInv /\ ChannelInv /\ DoneAll /\ [Next]_vars => DoneAll'
<1> SUFFICES ASSUME BaseInv, ChannelInv, DoneAll, [Next]_vars PROVE DoneAll'
  OBVIOUS
<1>1. ASSUME NEW t \in Threads, GuestStep(t) \/ GuestLock(t) PROVE DoneAll'
  BY <1>1, GuestDoneSelf, GuestDoneOther DEF GuestStep, GuestLock, DoneAll
<1>2. CASE HostStep
  <2>1. CASE HookCompleted \/ ManagerExit
    BY <1>2, <2>1, ReleaseDone DEF HostStep, HookCompleted, ManagerExit
  <2> QED BY <1>2, <2>1, ListenerDone DEF HostStep, Listener
<1>3. CASE HostEvent
  <2>1. CASE Signal
    BY <1>3, <2>1, ReleaseDone DEF HostEvent, Signal
  <2>2. CASE ManagerStart
    <3>1. fault = NoThread
      <4>1. fault \in Threads \cup {NoThread}
        BY DEF BaseInv, TypeOK, PageTypeOK
      <4> QED BY <2>2, <4>1 DEF ManagerStart, ChannelInv, FreezeInv
    <3> QED BY <1>3, <2>2, <3>1, ReleaseDone DEF HostEvent, ManagerStart
  <2>3. CASE ListenerFails
    BY <1>3, <2>3, ReleaseDone DEF HostEvent, ListenerFails, pageVars
  <2> QED BY <1>3, <2>1, <2>2, <2>3 DEF HostEvent
<1>4. CASE UNCHANGED vars
  BY <1>4 DEF vars, pageVars, stubVars, commVars, DoneAll, DoneInv, Posted,
              Answered, CommonRetNegative
<1> QED BY <1>1, <1>2, <1>3, <1>4 DEF Next

(* Under the same conditions the host carries out every call at most once, *)
(* and a call that returns success has been carried out, whatever happens  *)
(* to the manager in between.                                              *)
THEOREM CallsAreCarriedOutOnce ==
  ASSUME Disciplined PROVE Spec => []ExactlyOnce
<1>1. DoneAll => ExactlyOnce
  BY DEF DoneAll, DoneInv, ExactlyOnce
<1> QED BY <1>1, DoneInit, DoneStep, ChannelInit, ChannelStep, BaseInvariant, PTL
        DEF Spec

-----------------------------------------------------------------------------
(* Properties that relate a request to the manager's memory of earlier     *)
(* ones: the buffer of the transfer and the table of open descriptors.     *)

-----------------------------------------------------------------------------
(* A thread that takes no part in a step.                                  *)

LEMMA HoldingOutside ==
  ASSUME NEW u \in Threads, CallInv(u), pc[u] \in {"idle", "lock"}
  PROVE  ~Holding(u) /\ ~Posted(u) /\ ~Answered(u)
<1>1. call[u] \notin {"chunk", "dma"}
  BY DEF CallInv, ServedOps
<1>2. ~Posted(u) /\ ~Answered(u)
  BY DEF Posted, Answered
<1> QED BY <1>1, <1>2 DEF Holding

(* The thread is outside of the lock: nothing that happens concerns it,    *)
(* and it owns no buffer.                                                  *)
LEMMA OutsideProtocol ==
  ASSUME NEW u \in Threads, CallInv(u), pc[u] \in {"idle", "lock"}, SameThread(u)
  PROVE  HoldingInv(u)' /\ ~Holding(u)'
<1>1. CallInv(u)' /\ pc'[u] \in {"idle", "lock"}
  BY OutsideInv DEF SameThread
<1>2. call'[u] \notin {"chunk", "dma"}
  BY <1>1 DEF CallInv, ServedOps
<1>3. ~Posted(u)' /\ ~Answered(u)'
  BY <1>1 DEF Posted, Answered
<1> QED BY <1>1, <1>2, <1>3 DEF Holding, HoldingInv

(* The step changes nothing that the invariant of u reads.                 *)
LEMMA SameProtocol ==
  ASSUME NEW u \in Threads, SameThread(u), HoldingInv(u),
         (u \in hit') = (u \in hit),
         UNCHANGED <<turn, area, fault, mgr, xfer, sig>>
  PROVE  Holding(u)' = Holding(u) /\ HoldingInv(u)'
<1>1. Posted(u)' = Posted(u) /\ Answered(u)' = Answered(u)
  BY DEF Posted, Answered, SameThread
<1>2. Holding(u)' = Holding(u)
  BY <1>1 DEF Holding, SameThread
<1>3. HoldingInv(u)'
  BY <1>1, <1>2 DEF HoldingInv, SameThread, Served
<1> QED BY <1>2, <1>3

(* Only the start of a call of t changes the history of t, and of no other *)
(* thread.                                                                 *)
LEMMA GuestHit ==
  ASSUME NEW t \in Threads
  PROVE  /\ Step(t) \/ FdDataLock(t) => UNCHANGED hit
         /\ StartCall(t) => hit' = hit \ {t}
<1> USE DEF Goto, pageVars
<1>1. ASSUME NEW f, NEW r, Leave(t, f, r) PROVE UNCHANGED hit
  BY <1>1 DEF Leave, Return, ToUnlock
<1>2. ASSUME Step(t) PROVE UNCHANGED hit
  <2>1. CASE Fill(t)
    BY <2>1 DEF Fill, MemsetMmap, FillOpenClose, FillReadWrite, FillWriteFault,
                FillHandshake, FillChunk, FillDma, FillMmap, Filled
  <2>2. CASE Arm(t) \/ WriteNonce(t) \/ CheckReply(t) \/ FdDataUnlock(t)
    BY <2>2 DEF Arm, WriteNonce, CheckReply, FdDataUnlock, Return
  <2>3. CASE CheckNoReply(t)
    BY <1>1, <2>3 DEF CheckNoReply
  <2>4. CASE Reply(t)
    BY <1>1, <2>4 DEF Reply, ReplyOpen, ReplyRet, ReplyHandshake, ReplyChunk,
                      ReplyChunkFailed, ReplyWrite
  <2> QED BY <1>2, <2>1, <2>2, <2>3, <2>4 DEF Step
<1>3. FdDataLock(t) => UNCHANGED hit
  BY DEF FdDataLock
<1>4. StartCall(t) => hit' = hit \ {t}
  BY DEF StartCall, EnterLocked, EnterDma, EnterEarlyReturn, EnterMmap, CtrlIoctl,
         Enter
<1> QED BY <1>2, <1>3, <1>4

(* The steps of a call are taken inside of the lock.                       *)
LEMMA StepLocked ==
  ASSUME NEW t \in Threads, CallInv(t), Step(t)
  PROVE  InLocked(t)
<1>1. pc[t] \in {"fill", "arm", "nonce", "check", "reply", "unlock", "memset"}
  BY DEF Step, Fill, FillOpenClose, FillReadWrite, FillWriteFault, FillHandshake,
         FillChunk, FillDma, MemsetMmap, FillMmap, Filled, Arm, WriteNonce,
         CheckNoReply, CheckReply, Reply, ReplyOpen, ReplyRet, ReplyHandshake,
         ReplyChunk, ReplyChunkFailed, ReplyWrite, FdDataUnlock, Leave, Return,
         ToUnlock, Goto
<1> QED BY <1>1 DEF InLocked, CallInv, ServedOps, LockedOps

(* The start of a call and the lock leave the page and the manager alone.  *)
LEMMA StartPage ==
  ASSUME Disciplined, NEW t \in Threads, StartCall(t) \/ FdDataLock(t)
  PROVE  UNCHANGED <<turn, action, area, fault, traced, file>>
<1>1. "ioctl" \notin Ops[t]
  BY DEF Disciplined, ServedOps
<1> QED BY <1>1 DEF StartCall, EnterLocked, EnterDma, EnterEarlyReturn, EnterMmap,
                    CtrlIoctl, Enter, FdDataLock, pageVars

-----------------------------------------------------------------------------
(* The owner of the buffer: steps of the guest.                            *)

LEMMA GuestHolding ==
  ASSUME Disciplined, BaseInv, ChannelInv, ProtocolInv, NEW t \in Threads,
         UNCHANGED commVars, Step(t) \/ StartCall(t) \/ FdDataLock(t)
  PROVE  /\ HoldingInv(t)'
         /\ Holding(t) /\ xfer.ptr /\ Served => Holding(t)'
<1> DEFINE Goal == /\ HoldingInv(t)'
                   /\ Holding(t) /\ xfer.ptr /\ Served => Holding(t)'
<1> USE DEF Goto
<1>0. /\ pc \in [Threads -> PCs]
      /\ call \in [Threads -> Calls]
  BY DEF BaseInv, TypeOK, StubTypeOK
<1>1. CallInv(t) /\ RequestInv(t) /\ HoldingInv(t) /\ CallInv(t)'
  BY GuestSelf DEF ChannelInv, ProtocolInv
<1>2. /\ fault = NoThread /\ fault # t
      /\ mgr \notin {"dma", "complete"}
      /\ UNCHANGED <<mgr, sig, xfer>>
  BY GuestFault, PageAssumption DEF ChannelInv, FreezeInv, commVars
<1>3. Served' = Served
  BY <1>2 DEF Served
(* Before and after the step the thread owns no buffer.                    *)
<1>4. ASSUME pc[t] \in {"idle", "lock", "unlock"} \/
               (pc[t] = "reply" /\ call[t] \notin {"handshake", "chunk"}),
             pc'[t] \in {"idle", "lock", "unlock"} \/
               (pc'[t] = "fill" /\ call'[t] \notin {"chunk", "dma"})
      PROVE  Goal
  <2>1. pc[t] \in {"idle", "lock"} => call[t] \notin {"chunk", "dma"}
    BY <1>1 DEF CallInv, ServedOps
  <2>2. ~Holding(t)
    BY <1>2, <1>4, <2>1 DEF Holding, Posted, Answered
  <2>3. pc'[t] \in {"idle", "lock"} => call'[t] \notin {"chunk", "dma"}
    BY <1>1 DEF CallInv, ServedOps
  <2>4. ~Answered(t)' /\ ~Posted(t)'
    BY <1>4 DEF Posted, Answered
  <2>5. ~Holding(t)'
    BY <1>4, <2>3, <2>4 DEF Holding
  <2> QED BY <1>4, <2>2, <2>4, <2>5 DEF HoldingInv
<1>5. CASE StartCall(t)
  <2>1. pc[t] = "idle" /\ pc'[t] \in {"idle", "lock"}
    <3>1. Ops[t] \subseteq ServedOps
      BY DEF Disciplined
    <3> QED BY <1>0, <1>5, <3>1 DEF StartCall, EnterLocked, EnterDma,
               EnterEarlyReturn, EnterMmap, CtrlIoctl, Enter, ServedOps
  <2> QED BY <1>4, <2>1
<1>6. CASE FdDataLock(t)
  <2>1. pc[t] = "lock" /\ pc'[t] = "fill" /\ UNCHANGED call
    BY <1>0, <1>6 DEF FdDataLock
  <2>2. call[t] \notin {"chunk", "dma"}
    BY <1>1, <2>1 DEF CallInv, ServedOps
  <2> QED BY <1>4, <2>1, <2>2
(* The request goes on to the page and to the host.                        *)
<1>7. CASE Fill(t) \/ Arm(t)
  <2>1. /\ \/ pc[t] = "fill" /\ pc'[t] = "arm"
           \/ pc[t] = "arm" /\ pc'[t] = "nonce"
        /\ UNCHANGED call
    BY <1>0, <1>1, <1>7 DEF Fill, FillOpenClose, FillReadWrite, FillWriteFault,
       FillHandshake, FillChunk, FillDma, MemsetMmap, FillMmap, Filled, Arm,
       CallInv, ServedOps
  <2>2. Posted(t)' /\ ~Answered(t)' /\ ~Answered(t) /\ (pc[t] = "fill" \/ Posted(t))
    BY <2>1 DEF Posted, Answered
  <2>3. Holding(t)' = Holding(t)
    BY <2>1, <2>2 DEF Holding
  <2>4. UNCHANGED hit
    BY <1>7, GuestHit DEF Step
  <2> QED BY <1>1, <1>2, <2>1, <2>2, <2>3, <2>4 DEF HoldingInv
<1>8. CASE WriteNonce(t)
  <2>1. /\ pc[t] = "nonce" /\ pc'[t] = "check"
        /\ fault' = IF traced THEN t ELSE NoThread
        /\ UNCHANGED <<call, turn, area, hit>>
    BY <1>0, <1>8 DEF WriteNonce
  <2>2. turn = FH_TURN_HOST /\ Posted(t) /\ ~Answered(t) /\ ~Answered(t)'
    BY <1>1, <2>1 DEF RequestInv, Posted, Answered
  <2>3. Holding(t)' => Holding(t)
    BY <2>1, <2>2 DEF Holding
  <2>4. fault' # t => ~Served
    BY <2>1 DEF ProtocolInv, OwnerInv
  <2>5. Served /\ Holding(t) => Holding(t)'
    <3>1. mgr \in {"idle", "dma", "complete", "exiting", "down"}
      BY DEF BaseInv, TypeOK, CommTypeOK
    <3>2. Served => Posted(t)'
      BY <1>2, <2>1, <2>4, <3>1 DEF Served, Posted
    <3> QED BY <2>1, <2>2, <3>2 DEF Holding
  <2> QED BY <1>1, <1>2, <1>3, <2>1, <2>2, <2>3, <2>4, <2>5 DEF HoldingInv
(* The call fails or is over.                                              *)
<1>9. ASSUME NEW f, NEW r, Leave(t, f, r)
      PROVE  /\ pc[t] = f /\ pc'[t] = "unlock"
             /\ UNCHANGED <<call, turn, area, hit>>
  BY <1>0, <1>1, <1>9 DEF Leave, Return, ToUnlock, CallInv, ServedOps, pageVars
<1>10. CASE CheckNoReply(t)
  <2>1. pc[t] = "check" /\ pc'[t] = "unlock" /\ turn # FH_TURN_GUEST
    BY <1>9, <1>10 DEF CheckNoReply
  <2>2. ~Served \/ ~xfer.ptr
    BY <1>1, <1>2, <2>1 DEF HoldingInv
  <2>3. ~Holding(t)' /\ ~Answered(t)'
    BY <2>1, <1>9, <1>10 DEF CheckNoReply, Holding, Posted, Answered
  <2> QED BY <2>1, <2>2, <2>3 DEF HoldingInv
<1>11. CASE CheckReply(t)
  <2>1. /\ pc[t] = "check" /\ pc'[t] = "reply"
        /\ turn = FH_TURN_GUEST
        /\ UNCHANGED <<call, turn, area, hit>>
    BY <1>0, <1>1, <1>11 DEF CheckReply, CallInv, ServedOps, pageVars
  <2>2. Answered(t) /\ Answered(t)' /\ ~Posted(t) /\ ~Posted(t)'
    BY <1>2, <2>1 DEF Posted, Answered
  <2>3. Holding(t)' = Holding(t)
    BY <2>1, <2>2 DEF Holding
  <2> QED BY <1>1, <1>2, <2>1, <2>2, <2>3 DEF HoldingInv
<1>12. CASE ReplyOpen(t) \/ ReplyRet(t)
  <2>1. pc[t] = "reply" /\ pc'[t] = "unlock" /\ call[t] \notin {"handshake", "chunk"}
    BY <1>9, <1>12 DEF ReplyOpen, ReplyRet
  <2> QED BY <1>4, <2>1
<1>13. CASE ReplyHandshake(t) \/ ReplyChunk(t)
  <2>1. /\ pc[t] = "reply" /\ pc'[t] = "fill"
        /\ call[t] \in {"handshake", "chunk"}
        /\ call'[t] \in {"chunk", "dma"}
        /\ UNCHANGED hit
    BY <1>0, <1>13 DEF ReplyHandshake, ReplyChunk, pageVars
  <2>2. Holding(t) /\ Holding(t)' /\ ~Answered(t)'
    BY <2>1 DEF Holding, Answered
  <2> QED BY <1>1, <1>2, <2>1, <2>2 DEF HoldingInv
<1>14. ~ReplyChunkFailed(t)
  <2> SUFFICES ASSUME ReplyChunkFailed(t) PROVE FALSE
    OBVIOUS
  <2>1. pc[t] = "reply" /\ call[t] = "chunk" /\ area.w0 # StatusOk
    BY <1>9 DEF ReplyChunkFailed
  <2> QED BY <1>1, <2>1 DEF HoldingInv, Answered
<1>15. CASE FdDataUnlock(t)
  <2>1. pc[t] = "unlock" /\ pc'[t] = "idle"
    BY <1>0, <1>15 DEF FdDataUnlock, Return
  <2> QED BY <1>4, <2>1
<1> QED BY <1>1, <1>5, <1>6, <1>7, <1>8, <1>10, <1>11, <1>12, <1>13, <1>14, <1>15
        DEF Step, Reply, ReplyWrite, CallInv, ServedOps

LEMMA GuestProtocol ==
  ASSUME Disciplined, BaseInv, ChannelInv, ProtocolInv, NEW t \in Threads,
         UNCHANGED commVars, Step(t) \/ StartCall(t) \/ FdDataLock(t)
  PROVE  ProtocolInv'
<1>0. UNCHANGED <<traced, mgr, sig, xfer>> /\ Served' = Served
  BY GuestFault DEF commVars, Served
<1>1. ASSUME NEW u \in Threads, u # t
      PROVE  HoldingInv(u)' /\ (Holding(u) => Holding(u)')
  <2>1. SameThread(u) /\ CallInv(u) /\ HoldingInv(u) /\ CallInv(t)
    BY <1>1, OtherThread DEF ChannelInv, ProtocolInv
  <2>2. CASE Step(t)
    <3>1. pc[u] \in {"idle", "lock"}
      BY <1>1, <2>1, <2>2, StepLocked, Outside
    <3> QED BY <2>1, <3>1, OutsideProtocol, HoldingOutside
  <2>3. CASE StartCall(t) \/ FdDataLock(t)
    <3>1. (u \in hit') = (u \in hit)
      BY <1>1, <2>3, GuestHit
    <3> QED BY <1>0, <2>1, <2>3, <3>1, StartPage, SameProtocol
  <2> QED BY <2>2, <2>3
<1>2. \A u \in Threads : HoldingInv(u)'
  BY <1>1, GuestHolding
<1>3. OwnerInv'
  <2>1. SUFFICES ASSUME xfer.ptr, Served PROVE \E u \in Threads : Holding(u)'
    BY <1>0 DEF ProtocolInv, OwnerInv
  <2>2. PICK u \in Threads : Holding(u)
    BY <2>1 DEF ProtocolInv, OwnerInv
  <2> QED BY <1>1, <2>1, <2>2, GuestHolding
<1> QED BY <1>2, <1>3 DEF ProtocolInv

-----------------------------------------------------------------------------
(* The owner of the buffer: steps of the host.                             *)

(* What on_fault finds: the request of a thread f of which nothing has     *)
(* been answered yet; all other threads are outside of the lock.           *)
LEMMA FaultOf ==
  ASSUME Disciplined, BaseInv, ChannelInv, OnFault
  PROVE  /\ ~sig
         /\ \E f \in Threads :
              /\ fault = f
              /\ pc[f] = "check"
              /\ call[f] \in {"open", "close", "handshake", "chunk", "dma"}
              /\ action = ActionOf(call[f])
              /\ Requested(f) /\ Posted(f) /\ ~Answered(f)
              /\ turn = FH_TURN_HOST
              /\ mgr \in {"idle", "dma"}
              /\ CallInv(f) /\ RequestInv(f) /\ TransferInv(f)
              /\ \A u \in Threads : u # f => CallInv(u) /\ pc[u] \in {"idle", "lock"}
<1>1. fault # NoThread /\ mgr \in {"idle", "dma"}
  <2>1. mgr = "dma" => fault # NoThread
    BY PageAssumption DEF ChannelInv, FreezeInv
  <2> QED BY <2>1
      DEF OnFault, Dismiss, ServeOpen, ServeClose, ServeMmap, ServeHandshake,
          RefuseHandshake, ServeChunk, RefuseChunk, ServeUnknownStatus,
          StartDma, FinishDma, RefuseDma, FailDma, ServeUnknownAction, Serving
<1>2. PICK f \in Threads : fault = f
  BY <1>1, Outstanding
<1>3. /\ pc[f] = "check" /\ turn = FH_TURN_HOST /\ Requested(f) /\ InLocked(f) /\ ~sig
      /\ call[f] \in {"open", "close", "handshake", "chunk", "dma"}
      /\ action = ActionOf(call[f])
  BY <1>1, <1>2, Outstanding
<1>4. Posted(f) /\ ~Answered(f)
  BY <1>1, <1>2, <1>3 DEF Posted, Answered
<1>5. ASSUME NEW u \in Threads, u # f PROVE CallInv(u) /\ pc[u] \in {"idle", "lock"}
  BY <1>3, <1>5, Outside DEF ChannelInv
<1> QED BY <1>1, <1>2, <1>3, <1>4, <1>5 DEF ChannelInv

(* The requests of the disciplined threads have a case of their own.       *)
LEMMA ServedCall ==
  ASSUME Disciplined, BaseInv, ChannelInv, NEW f \in Threads, fault = f,
         mgr \in {"idle", "dma"}
  PROVE  /\ ServeOpen => call[f] = "open"
         /\ ServeClose => call[f] = "close"
         /\ ServeHandshake \/ RefuseHandshake => call[f] = "handshake"
         /\ ServeChunk \/ RefuseChunk => call[f] = "chunk"
         /\ StartDma \/ FinishDma \/ RefuseDma \/ FailDma => call[f] = "dma"
         /\ ~Dismiss /\ ~ServeMmap /\ ~ServeUnknownAction /\ ~ServeUnknownStatus
<1>1. /\ action = ActionOf(call[f])
      /\ call[f] \in {"open", "close", "handshake", "chunk", "dma"}
      /\ Requested(f) /\ turn = FH_TURN_HOST
      /\ mgr = "dma" => call[f] = "dma"
  BY Outstanding, PageAssumption DEF ChannelInv, HostInv
<1>2. /\ action = FH_ACTION_DMA => call[f] = "dma"
      /\ action = FH_ACTION_TRANSFER_ESCAPE_DATA => call[f] \in {"handshake", "chunk"}
      /\ action = FH_ACTION_OPEN_DEVICE => call[f] = "open"
      /\ action = FH_ACTION_CLOSE_DEVICE => call[f] = "close"
      /\ action \notin {FH_ACTION_MMAP, FH_ACTION_READ, FH_ACTION_WRITE}
  BY <1>1, CallOfAction
<1>3. /\ call[f] = "handshake" => area.w0 = StatusTransferSize
      /\ call[f] = "chunk" => area.w0 = StatusTransferData
  BY <1>1 DEF Requested
<1>4. /\ ServeHandshake \/ RefuseHandshake => call[f] = "handshake"
      /\ ServeChunk \/ RefuseChunk => call[f] = "chunk"
      /\ ~ServeUnknownStatus
  BY <1>2, <1>3 DEF ServeHandshake, RefuseHandshake, ServeChunk, RefuseChunk,
                    ServeUnknownStatus, Serving
<1>5. /\ ServeOpen => call[f] = "open"
      /\ ServeClose => call[f] = "close"
      /\ StartDma \/ FinishDma \/ RefuseDma \/ FailDma => call[f] = "dma"
      /\ ~ServeMmap /\ ~ServeUnknownAction
  BY <1>1, <1>2 DEF ServeOpen, ServeClose, StartDma, FinishDma, RefuseDma, FailDma,
                    ServeMmap, ServeUnknownAction, Serving
<1>6. ~Dismiss
  BY <1>1 DEF Dismiss
<1> QED BY <1>4, <1>5, <1>6

LEMMA OnFaultProtocol ==
  ASSUME Disciplined, BaseInv, ChannelInv, ProtocolInv, OnFault, UNCHANGED stubVars
  PROVE  ProtocolInv'
<1>1. PICK f \in Threads :
        /\ fault = f
        /\ pc[f] = "check"
        /\ Requested(f) /\ Posted(f) /\ ~Answered(f)
        /\ turn = FH_TURN_HOST
        /\ mgr \in {"idle", "dma"}
        /\ \A u \in Threads : u # f => CallInv(u) /\ pc[u] \in {"idle", "lock"}
  BY FaultOf
<1>2. ~sig /\ Served /\ HoldingInv(f)
  BY <1>1, FaultOf DEF Served, ProtocolInv
<1>3. UNCHANGED <<pc, call>>
  BY DEF stubVars
<1>4. ASSUME NEW u \in Threads, u # f PROVE HoldingInv(u)' /\ ~Holding(u)
  <2>1. SameThread(u)
    BY DEF SameThread, stubVars
  <2> QED BY <1>1, <1>4, <2>1, OutsideProtocol, HoldingOutside
<1>5. xfer.ptr => Holding(f)
  BY <1>2, <1>4 DEF ProtocolInv, OwnerInv
<1>6. traced /\ mgr # "down"
  BY <1>1 DEF ChannelInv, FreezeInv
<1>7. SUFFICES /\ HoldingInv(f)'
               /\ UNCHANGED traced
               /\ mgr' # "down"
               /\ xfer'.ptr /\ Served' => Holding(f)'
  BY <1>4, <1>6 DEF ProtocolInv, OwnerInv
<1>8. ASSUME NEW a, Answer(a)
      PROVE  /\ turn' = FH_TURN_GUEST /\ mgr' = "complete"
             /\ area' = a
             /\ UNCHANGED <<fault, traced, hit>>
             /\ Answered(f)' /\ ~Posted(f)'
  <2>1. turn' = FH_TURN_GUEST /\ mgr' = "complete" /\ area' = a
        /\ UNCHANGED <<fault, traced, hit>>
    BY <1>8 DEF Answer
  <2> QED BY <1>1, <1>3, <2>1 DEF Answered, Posted
<1>9. ASSUME NEW a, Refuse(a)
      PROVE  /\ mgr' = "exiting"
             /\ UNCHANGED <<turn, fault, traced, hit>>
             /\ ~Answered(f)' /\ ~Posted(f)' /\ ~Served'
  <2>1. mgr' = "exiting" /\ UNCHANGED <<turn, fault, traced, hit>>
    BY <1>9 DEF Refuse
  <2> QED BY <1>1, <1>3, <2>1 DEF Answered, Posted, Served
<1>10. CASE ServeOpen \/ ServeClose
  <2>1. call[f] \in {"open", "close"}
    BY <1>1, <1>10, ServedCall
  <2>2. UNCHANGED xfer /\ \E a : Answer(a)
    BY <1>10 DEF ServeOpen, ServeClose
  <2>3. ~Holding(f) /\ ~Holding(f)' /\ ~xfer.ptr
    BY <1>3, <1>5, <2>1 DEF Holding
  <2> QED BY <1>3, <1>8, <2>1, <2>2, <2>3 DEF HoldingInv
<1>11. CASE ServeHandshake
  <2>1. call[f] = "handshake"
    BY <1>1, <1>11, ServedCall
  <2>2. xfer'.info = FH_ACTION_DMA
    BY <1>1, <1>11, <2>1 DEF ServeHandshake, Requested
  <2>3. \E a : Answer(a)
    BY <1>11 DEF ServeHandshake
  <2>4. Holding(f)'
    BY <1>3, <1>8, <2>1, <2>3 DEF Holding
  <2> QED BY <1>3, <1>8, <2>1, <2>2, <2>3, <2>4 DEF HoldingInv
<1>12. CASE ServeChunk
  <2>1. call[f] = "chunk"
    BY <1>1, <1>12, ServedCall
  <2>2. Holding(f) /\ Holding(f)'
    BY <1>1, <1>3, <2>1 DEF Holding
  <2>3. xfer'.info = xfer.info
    BY <1>12 DEF ServeChunk, CopyChunk
  <2>4. area'.w0 = StatusOk /\ \E a : Answer(a)
    BY <1>12 DEF ServeChunk, Answer, Data
  <2> QED BY <1>2, <1>3, <1>8, <2>1, <2>2, <2>3, <2>4 DEF HoldingInv
<1>13. CASE RefuseHandshake
  <2>1. call[f] = "handshake"
    BY <1>1, <1>13, ServedCall
  <2>2. \E a : Refuse(a)
    BY <1>13 DEF RefuseHandshake
  <2> QED BY <1>3, <1>9, <2>1, <2>2 DEF HoldingInv, Holding
<1>14. CASE RefuseChunk
  <2>1. call[f] = "chunk"
    BY <1>1, <1>14, ServedCall
  <2>2. UNCHANGED xfer /\ \E a : Refuse(a)
    BY <1>14 DEF RefuseChunk
  <2>3. Holding(f)
    BY <1>1, <2>1 DEF Holding
  <2> QED BY <1>2, <1>3, <1>9, <2>1, <2>2, <2>3 DEF HoldingInv
<1>15. CASE StartDma
  <2>1. /\ mgr' = "dma" /\ mgr = "idle"
        /\ UNCHANGED <<turn, area, fault, traced, hit, sig, xfer>>
    BY <1>15 DEF StartDma, Serving, pageVars
  <2>2. Posted(f)' /\ ~Answered(f)'
    BY <1>1, <1>3, <2>1 DEF Posted, Answered
  <2>3. Holding(f)' = Holding(f)
    BY <1>1, <1>3, <2>2 DEF Holding
  <2> QED BY <1>1, <1>2, <1>3, <1>5, <2>1, <2>2, <2>3 DEF HoldingInv
<1>16. CASE FinishDma
  <2>1. call[f] = "dma"
    BY <1>1, <1>16, ServedCall
  <2>2. xfer' = NoXfer /\ \E a : Answer(a)
    BY <1>16 DEF FinishDma
  <2>3. ~xfer'.ptr
    BY <2>2 DEF NoXfer
  <2>4. ~Holding(f)'
    BY <1>1, <1>3, <1>8, <2>1, <2>2 DEF Holding
  <2> QED BY <1>3, <1>8, <2>1, <2>2, <2>3, <2>4 DEF HoldingInv
<1>17. CASE RefuseDma \/ FailDma
  <2>1. call[f] = "dma"
    BY <1>1, <1>17, ServedCall
  <2>2. \E a : Refuse(a)
    BY <1>17 DEF RefuseDma, FailDma
  <2>3. ~Holding(f)'
    BY <1>1, <1>3, <1>9, <2>1, <2>2 DEF Holding
  <2> QED BY <1>3, <1>9, <2>1, <2>2, <2>3 DEF HoldingInv
<1> QED BY <1>1, <1>10, <1>11, <1>12, <1>13, <1>14, <1>15, <1>16, <1>17, ServedCall
        DEF OnFault

(* The end of a request, of the listener or of a manager: what is on the   *)
(* page stays; who leaves the manager's service leaves a buffer behind.    *)
LEMMA ReleaseHolding ==
  ASSUME ProtocolInv, UNCHANGED stubVars, UNCHANGED <<turn, area>>,
         fault' = NoThread \/ (fault' = fault /\ mgr' = "exiting"),
         (hit' = hit /\ xfer' = xfer) \/ hit' = Threads,
         ~Served' \/ ~xfer'.ptr, NEW u \in Threads
  PROVE  HoldingInv(u)'
<1>1. UNCHANGED <<pc, call>>
  BY DEF stubVars
<1>2. (Posted(u)' => Posted(u)) /\ Answered(u)' = Answered(u)
  BY <1>1, PageAssumption DEF Posted, Answered
<1>3. Holding(u)' => Holding(u)
  BY <1>1, <1>2 DEF Holding
<1> QED BY <1>1, <1>2, <1>3 DEF ProtocolInv, HoldingInv

LEMMA HookCompletedProtocol ==
  ASSUME Disciplined, BaseInv, ChannelInv, ProtocolInv, HookCompleted,
         UNCHANGED stubVars
  PROVE  ProtocolInv'
<1>1. PICK f \in Threads : fault = f
  BY DEF HookCompleted, ChannelInv, FreezeInv
<1>2. pc[f] = "check" /\ turn = FH_TURN_GUEST /\ InLocked(f)
  BY <1>1, Outstanding, PageAssumption DEF HookCompleted, ChannelInv, HostInv
<1>3. /\ mgr = "complete" /\ mgr' = "idle" /\ fault' = NoThread
      /\ UNCHANGED <<turn, area, traced, hit, sig, xfer, pc, call>>
  BY DEF HookCompleted, stubVars
<1>4. Served' = Served
  BY <1>3 DEF Served
<1>5. ASSUME NEW u \in Threads PROVE HoldingInv(u)' /\ (Holding(u) => Holding(u)')
  <2>1. CASE u = f
    <3>1. ~Posted(f) /\ ~Posted(f)' /\ Answered(f) /\ Answered(f)'
      BY <1>1, <1>2, <1>3, PageAssumption DEF Posted, Answered
    <3>2. Holding(f)' = Holding(f)
      BY <1>2, <1>3, <3>1 DEF Holding
    <3> QED BY <1>2, <1>3, <2>1, <3>1, <3>2 DEF HoldingInv, ProtocolInv
  <2>2. CASE u # f
    <3>1. SameThread(u) /\ CallInv(u)
      BY DEF SameThread, stubVars, ChannelInv
    <3>2. pc[u] \in {"idle", "lock"}
      BY <1>2, <2>2, <3>1, Outside
    <3> QED BY <3>1, <3>2, OutsideProtocol, HoldingOutside
  <2> QED BY <2>1, <2>2
<1> QED BY <1>3, <1>4, <1>5 DEF ProtocolInv, OwnerInv

LEMMA HostProtocol ==
  ASSUME Disciplined, BaseInv, ChannelInv, ProtocolInv, HostStep \/ HostEvent
  PROVE  ProtocolInv'
<1>1. CASE HostStep /\ ManagerExit
  <2>1. ~Served' /\ ~xfer'.ptr
    BY <1>1 DEF ManagerExit, Served, NoXfer
  <2>2. \A u \in Threads : HoldingInv(u)'
    BY <1>1, <2>1, ReleaseHolding DEF ManagerExit, HostStep
  <2> QED BY <2>1, <2>2 DEF ProtocolInv, OwnerInv
<1>2. CASE HostEvent /\ (Signal \/ ListenerFails)
  <2>1. ~Served' /\ mgr' # "down"
    BY <1>2 DEF Signal, ListenerFails, Served, Disciplined
  <2>2. \A u \in Threads : HoldingInv(u)'
    BY <1>2, <2>1, ReleaseHolding DEF Signal, ListenerFails, HostEvent, pageVars
  <2> QED BY <2>1, <2>2 DEF ProtocolInv, OwnerInv
<1>3. CASE HostEvent /\ ManagerStart
  <2>1. fault = NoThread
    <3>1. fault \in Threads \cup {NoThread}
      BY DEF BaseInv, TypeOK, PageTypeOK
    <3> QED BY <1>3, <3>1 DEF ManagerStart, ChannelInv, FreezeInv
  <2>2. ~xfer.ptr /\ UNCHANGED xfer /\ traced' /\ mgr' = "idle"
    BY <1>3 DEF ManagerStart, ProtocolInv, OwnerInv
  <2>3. \A u \in Threads : HoldingInv(u)'
    BY <1>3, <2>1, <2>2, ReleaseHolding DEF ManagerStart, HostEvent
  <2> QED BY <2>2, <2>3 DEF ProtocolInv, OwnerInv
<1> QED BY <1>1, <1>2, <1>3, OnFaultProtocol, HookCompletedProtocol
        DEF HostStep, HostEvent, Listener

-----------------------------------------------------------------------------
(* The protocol is followed.                                               *)

LEMMA ProtocolInit == Init => ProtocolInv
<1> SUFFICES ASSUME Init PROVE ProtocolInv
  OBVIOUS
<1>1. OwnerInv
  BY DEF Init, PageInit, CommInit, OwnerInv, NoXfer
<1>2. ASSUME NEW u \in Threads PROVE HoldingInv(u)
  <2>1. pc[u] = "idle" /\ call[u] = "none"
    BY DEF Init, StubInit
  <2> QED BY <2>1 DEF HoldingInv, Holding, Answered
<1> QED BY <1>1, <1>2 DEF ProtocolInv

LEMMA ProtocolStep ==
  ASSUME Disciplined
  PROVE  BaseInv /\ ChannelInv /\ ProtocolInv /\ [Next]_vars => ProtocolInv'
<1> SUFFICES ASSUME BaseInv, ChannelInv, ProtocolInv, [Next]_vars PROVE ProtocolInv'
  OBVIOUS
<1>1. ASSUME NEW t \in Threads, GuestStep(t) \/ GuestLock(t) PROVE ProtocolInv'
  BY <1>1, GuestProtocol DEF GuestStep, GuestLock
<1>2. CASE UNCHANGED vars
  BY <1>2 DEF vars, pageVars, stubVars, commVars, ProtocolInv, OwnerInv, HoldingInv,
              Holding, Served, Posted, Answered
<1> QED BY <1>1, <1>2, HostProtocol DEF Next

LEMMA ProtocolFollowed ==
  ASSUME Disciplined, BaseInv, ChannelInv, ProtocolInv
  PROVE  NoProtocolError
<1> SUFFICES ASSUME fault \notin hit, mgr = "idle", fault # NoThread
             PROVE  NoProtocolError
  BY DEF NoProtocolError, Serving
<1>1. PICK f \in Threads : fault = f
  BY Outstanding
<1>2. /\ pc[f] = "check" /\ turn = FH_TURN_HOST /\ Requested(f) /\ InLocked(f) /\ ~sig
      /\ call[f] \in {"open", "close", "handshake", "chunk", "dma"}
      /\ action = ActionOf(call[f])
  BY <1>1, Outstanding, PageAssumption
<1>3. Posted(f) /\ ~Answered(f) /\ Served /\ HoldingInv(f)
  BY <1>1, <1>2 DEF Posted, Answered, Served, ProtocolInv
<1>4. CASE call[f] = "handshake"
  <2>1. ASSUME NEW u \in Threads PROVE ~Holding(u)
    <3>1. CASE u = f
      BY <1>3, <1>4, <3>1 DEF Holding
    <3>2. CASE u # f
      BY <1>2, <3>2, Outside, HoldingOutside DEF ChannelInv
    <3> QED BY <3>1, <3>2
  <2>2. ~xfer.ptr /\ area.w0 = StatusTransferSize
    BY <1>2, <1>3, <1>4, <2>1 DEF ProtocolInv, OwnerInv, Requested
  <2>3. action = FH_ACTION_TRANSFER_ESCAPE_DATA
    BY <1>2, <1>4, ActionOfValue
  <2> QED BY <2>2, <2>3 DEF NoProtocolError, Serving
<1>5. CASE call[f] = "chunk"
  <2>1. xfer.info = FH_ACTION_DMA
    BY <1>1, <1>2, <1>3, <1>5 DEF HoldingInv, Holding
  <2>2. /\ xfer.size = arg[f].n /\ xfer.chunk = area.body.from
        /\ remain[f] <= arg[f].n
    BY <1>3, <1>5, <2>1 DEF ChannelInv, TransferInv, CopiedOrLost, Copied
  <2>3. /\ area.w0 = StatusTransferData
        /\ area.body.from + area.w1 = arg[f].n - remain[f]
        /\ area.w1 <= TransferMax
    BY <1>2, <1>5 DEF Requested
  <2>4. /\ area.w1 \in Nat /\ area.body.from \in Int /\ arg[f].n \in Nat
        /\ remain[f] \in Nat /\ TransferMax \in Nat
    BY CommAssumption DEF BaseInv, TypeOK, PageTypeOK, StubTypeOK, Area, Body
  <2>5. xfer.chunk + Transfer <= xfer.size
    BY <2>2, <2>3, <2>4 DEF Transfer
  <2>6. action = FH_ACTION_TRANSFER_ESCAPE_DATA
    BY <1>2, <1>5, ActionOfValue
  <2> QED BY <2>3, <2>5, <2>6 DEF NoProtocolError, Serving
<1>6. CASE call[f] = "dma"
  <2>1. xfer.info = FH_ACTION_DMA
    BY <1>1, <1>3, <1>6 DEF HoldingInv, Holding
  <2>2. action = FH_ACTION_DMA
    BY <1>2, <1>6, ActionOfValue
  <2> QED BY <2>1, <2>2 DEF NoProtocolError, Serving
<1>7. CASE call[f] \in {"open", "close"}
  <2>1. action \in {FH_ACTION_OPEN_DEVICE, FH_ACTION_CLOSE_DEVICE}
    BY <1>2, <1>7, ActionOfValue
  <2> QED BY <2>1 DEF NoProtocolError, Serving
<1> QED BY <1>2, <1>4, <1>5, <1>6, <1>7

(* If the threads use open, close and DMA only and signals reach the       *)
(* manager in poll(), then no request of a call during which the manager   *)
(* did not end meets one of the manager's complaints: no handshake finds a *)
(* buffer that an earlier call left behind, no chunk exceeds the announced *)
(* size, no DMA comes without its transfer (do_action_transfer_escape_data *)
(* and do_dma of fpga_comm.c), for any number of threads, sizes and        *)
(* restarts.                                                               *)
THEOREM TransfersFollowTheProtocol ==
  ASSUME Disciplined PROVE Spec => []NoProtocolError
<1> QED BY ProtocolInit, ProtocolStep, ProtocolFollowed, ChannelInit, ChannelStep,
           BaseInvariant, PTL DEF Spec

-----------------------------------------------------------------------------
(* The descriptors of the first manager.                                   *)

(* A thread outside of the lock keeps its file, unless the table changes.  *)
LEMMA OutsideFiles ==
  ASSUME NEW u \in Threads, CallInv(u), pc[u] \in {"idle", "lock"}, SameThread(u),
         DescriptorInv(u), starts' = 1 /\ mgr' # "down" => starts = 1 /\ mgr # "down",
         starts = 1 /\ OpenFor(file[u], u) => OpenFor(file[u], u)'
  PROVE  DescriptorInv(u)'
<1>1. /\ ~Posted(u)' /\ ~Answered(u)' /\ ~Answered(u)
      /\ pc[u] # "unlock" /\ pc'[u] # "unlock"
  BY DEF Posted, Answered, SameThread
<1>2. ~Closed(u) /\ ~Closed(u)' /\ file'[u] = file[u]
  BY <1>1 DEF Closed, SameThread
<1> QED BY <1>1, <1>2 DEF DescriptorInv, OpenFor

LEMMA GuestFilesOther ==
  ASSUME Disciplined, BaseInv, ChannelInv, FilesInv, NEW t \in Threads,
         NEW u \in Threads, u # t, UNCHANGED commVars,
         Step(t) \/ StartCall(t) \/ FdDataLock(t)
  PROVE  DescriptorInv(u)'
<1>0. UNCHANGED <<mgr, fdtab, starts>>
  BY DEF commVars
<1>1. SameThread(u) /\ CallInv(u) /\ DescriptorInv(u) /\ CallInv(t)
  BY OtherThread DEF ChannelInv, FilesInv
<1>2. CASE Step(t)
  <2>1. pc[u] \in {"idle", "lock"}
    BY <1>1, <1>2, StepLocked, Outside
  <2> QED BY <1>0, <1>1, <2>1, OutsideFiles DEF OpenFor, SameThread
<1>3. CASE StartCall(t) \/ FdDataLock(t)
  <2>1. UNCHANGED <<turn, area, fault>>
    BY <1>3, StartPage
  <2>2. Posted(u)' = Posted(u) /\ Answered(u)' = Answered(u)
    BY <1>0, <1>1, <2>1 DEF Posted, Answered, SameThread
  <2> QED BY <1>0, <1>1, <2>1, <2>2
          DEF DescriptorInv, OpenFor, Closed, SameThread, CommonRetNegative
<1> QED BY <1>2, <1>3

LEMMA GuestFilesSelf ==
  ASSUME Disciplined, BaseInv, ChannelInv, FilesInv, NEW t \in Threads,
         UNCHANGED commVars, Step(t) \/ StartCall(t) \/ FdDataLock(t)
  PROVE  DescriptorInv(t)'
<1> USE DEF Goto
<1>0. /\ pc \in [Threads -> PCs]
      /\ op \in [Threads -> LockedOps \cup UnlockedOps \cup {"none"}]
      /\ call \in [Threads -> Calls]
      /\ file \in [Threads -> Int \cup {NoFd}]
  BY DEF BaseInv, TypeOK, StubTypeOK
<1>1. CallInv(t) /\ RequestInv(t) /\ DescriptorInv(t)
  BY DEF ChannelInv, FilesInv
<1>2. UNCHANGED <<mgr, fdtab, starts>> /\ fault # t
  BY GuestFault, PageAssumption DEF commVars
(* The thread keeps its file and does not read an answer.                  *)
<1>3. ASSUME file'[t] = file[t],
             Closed(t) => Closed(t)',
             Posted(t)' /\ call'[t] = "dma" => area'.w0 = file[t],
             Answered(t)' => Answered(t) /\ area' = area /\ call' = call
      PROVE  DescriptorInv(t)'
  BY <1>1, <1>2, <1>3 DEF DescriptorInv, OpenFor, CommonRetNegative
<1>4. CASE StartCall(t) \/ FdDataLock(t)
  <2>1. /\ pc[t] \in {"idle", "lock"} /\ pc'[t] \in {"idle", "lock", "fill"}
        /\ UNCHANGED file
    <3>1. Ops[t] \subseteq ServedOps
      BY DEF Disciplined
    <3> QED BY <1>0, <1>4, <3>1 DEF StartCall, EnterLocked, EnterDma,
               EnterEarlyReturn, EnterMmap, CtrlIoctl, Enter, FdDataLock, ServedOps
  <2>2. ~Closed(t) /\ ~Posted(t)' /\ ~Answered(t)'
    BY <2>1 DEF Closed, Posted, Answered
  <2> QED BY <1>3, <2>1, <2>2
<1>5. CASE Fill(t)
  <2>1. /\ pc[t] = "fill" /\ pc'[t] = "arm"
        /\ call[t] = "dma" => area'.w0 = file[t]
        /\ UNCHANGED <<call, file>>
    BY <1>0, <1>1, <1>5 DEF Fill, FillOpenClose, FillReadWrite, FillWriteFault,
       FillHandshake, FillChunk, FillDma, MemsetMmap, FillMmap, Filled, Request,
       Data, CallInv, ServedOps
  <2>2. ~Closed(t) /\ ~Answered(t)'
    BY <2>1 DEF Closed, Answered
  <2> QED BY <1>3, <2>1, <2>2
<1>6. CASE Arm(t) \/ WriteNonce(t)
  <2>1. /\ \/ pc[t] = "arm" /\ pc'[t] = "nonce"
           \/ pc[t] = "nonce" /\ pc'[t] = "check" /\ UNCHANGED turn
        /\ UNCHANGED <<area, call, file>>
    BY <1>0, <1>6 DEF Arm, WriteNonce
  <2>2. Posted(t) /\ ~Closed(t) /\ ~Answered(t)'
    BY <1>1, <2>1 DEF Closed, Posted, Answered, RequestInv
  <2>3. call[t] = "dma" => area.w0 = file[t]
    BY <1>1, <2>2 DEF DescriptorInv
  <2> QED BY <1>3, <2>1, <2>2, <2>3
<1>7. ASSUME NEW f, NEW r, Leave(t, f, r)
      PROVE  /\ pc[t] = f /\ pc'[t] = "unlock"
             /\ ~Posted(t)' /\ ~Answered(t)'
             /\ op[t] = "close" => Closed(t)'
             /\ UNCHANGED <<op, call, area>>
  <2>1. /\ pc[t] = f /\ pc'[t] = "unlock"
        /\ UNCHANGED <<op, call, area>>
    BY <1>0, <1>1, <1>7 DEF Leave, Return, ToUnlock, CallInv, ServedOps, pageVars
  <2> QED BY <2>1 DEF Posted, Answered, Closed
<1>8. CASE CheckNoReply(t) \/ ReplyRet(t) \/ ReplyChunkFailed(t)
  <2>1. UNCHANGED file /\ \E f, r : Leave(t, f, r)
    BY <1>8 DEF CheckNoReply, ReplyRet, ReplyChunkFailed
  <2> QED BY <1>3, <1>7, <2>1 DEF Closed
<1>9. CASE CheckReply(t)
  <2>1. /\ pc[t] = "check" /\ pc'[t] = "reply"
        /\ turn = FH_TURN_GUEST
        /\ UNCHANGED <<op, call, area, turn, file>>
    BY <1>0, <1>1, <1>9 DEF CheckReply, CallInv, ServedOps, pageVars
  <2>2. Answered(t) /\ Answered(t)' /\ ~Posted(t)'
    BY <2>1 DEF Posted, Answered
  <2> QED BY <1>3, <2>1, <2>2 DEF Closed
<1>10. CASE ReplyOpen(t)
  <2>1. call[t] = "open" /\ \E f, r : Leave(t, f, r)
    BY <1>10 DEF ReplyOpen
  <2>2. op[t] # "close"
    BY <1>1, <2>1 DEF CallInv, ServedOps
  <2>3. CASE UNCHANGED file
    BY <1>3, <1>7, <2>1, <2>2, <2>3 DEF Closed
  <2>4. CASE ~UNCHANGED file
    <3>1. /\ pc[t] = "reply" /\ ~CommonRetNegative(area)
          /\ file'[t] = area.w0
      BY <1>0, <1>7, <1>10, <2>4 DEF ReplyOpen
    <3>2. starts = 1 /\ mgr # "down" => OpenFor(area.w0, t)
      BY <1>1, <2>1, <3>1 DEF DescriptorInv, Answered
    <3> QED BY <1>2, <1>7, <2>1, <3>1, <3>2 DEF DescriptorInv, OpenFor
  <2> QED BY <2>3, <2>4
<1>11. CASE ReplyHandshake(t) \/ ReplyChunk(t)
  <2>1. /\ call[t] \in {"handshake", "chunk"} /\ pc'[t] = "fill" /\ UNCHANGED file
    BY <1>0, <1>11 DEF ReplyHandshake, ReplyChunk
  <2>2. op[t] # "close" /\ ~Posted(t)' /\ ~Answered(t)'
    BY <1>1, <2>1 DEF CallInv, ServedOps, Posted, Answered
  <2> QED BY <1>3, <2>1, <2>2 DEF Closed
<1>12. CASE FdDataUnlock(t)
  <2>1. /\ pc[t] = "unlock" /\ pc'[t] = "idle"
        /\ file'[t] = IF op[t] = "close" THEN NoFd ELSE file[t]
    BY <1>0, <1>12 DEF FdDataUnlock, Return
  <2>2. ~Posted(t)' /\ ~Answered(t)'
    BY <2>1 DEF Posted, Answered
  <2>3. CASE op[t] = "close"
    BY <2>1, <2>2, <2>3 DEF DescriptorInv
  <2>4. CASE op[t] # "close"
    BY <1>3, <2>1, <2>2, <2>4 DEF Closed
  <2> QED BY <2>3, <2>4
<1> QED BY <1>1, <1>4, <1>5, <1>6, <1>8, <1>9, <1>10, <1>11, <1>12
        DEF Step, Reply, ReplyWrite, CallInv, ServedOps

LEMMA OnFaultFiles ==
  ASSUME Disciplined, BaseInv, ChannelInv, FilesInv, OnFault, UNCHANGED stubVars
  PROVE  FilesInv'
<1>1. PICK f \in Threads :
        /\ fault = f
        /\ pc[f] = "check"
        /\ Requested(f) /\ Posted(f) /\ ~Answered(f)
        /\ turn = FH_TURN_HOST
        /\ mgr \in {"idle", "dma"}
        /\ \A u \in Threads : u # f => CallInv(u) /\ pc[u] \in {"idle", "lock"}
  BY FaultOf
<1>2. /\ DescriptorInv(f) /\ CallInv(f) /\ ~Closed(f)
      /\ starts >= 1
      /\ fdtab \in [Fds -> Threads \cup {NoThread}]
      /\ NoThread \notin Threads
  BY <1>1, PageAssumption DEF FilesInv, ChannelInv, Closed, BaseInv, TypeOK, CommTypeOK
<1>3. UNCHANGED <<pc, op, call, file>>
  BY DEF stubVars
<1>4. UNCHANGED starts
  BY DEF OnFault, Dismiss, ServeOpen, ServeClose, ServeMmap, ServeHandshake,
         RefuseHandshake, ServeChunk, RefuseChunk, ServeUnknownStatus, StartDma,
         FinishDma, RefuseDma, FailDma, ServeUnknownAction, Answer, Refuse
<1>5. ASSUME DescriptorInv(f)',
             \A u \in Threads :
                u # f /\ starts = 1 /\ OpenFor(file[u], u) => OpenFor(file[u], u)'
      PROVE  FilesInv'
  <2>1. ASSUME NEW u \in Threads, u # f PROVE DescriptorInv(u)'
    <3>1. SameThread(u) /\ DescriptorInv(u) /\ mgr # "down"
      BY <1>1 DEF SameThread, stubVars, FilesInv
    <3> QED BY <1>1, <1>4, <1>5, <2>1, <3>1, OutsideFiles
  <2> QED BY <1>2, <1>4, <1>5, <2>1 DEF FilesInv
(* The table does not change and the answer is not that of an open.        *)
<1>6. ASSUME UNCHANGED fdtab, call[f] # "open",
             Posted(f)' => area' = area
      PROVE  FilesInv'
  <2>1. DescriptorInv(f)'
    BY <1>1, <1>2, <1>3, <1>4, <1>6 DEF DescriptorInv, OpenFor
  <2> QED BY <1>3, <1>5, <1>6, <2>1 DEF OpenFor
<1>7. ASSUME NEW a, Answer(a) PROVE ~Posted(f)' /\ Answered(f)' /\ area' = a
  BY <1>1, <1>3, <1>7 DEF Answer, Posted, Answered
<1>8. ASSUME NEW a, Refuse(a) PROVE ~Posted(f)' /\ UNCHANGED fdtab
  BY <1>1, <1>3, <1>8 DEF Refuse, Posted
<1>9. CASE ServeOpen
  <2>1. call[f] = "open" /\ area.body.by = f
    BY <1>1, <1>9, ServedCall DEF Requested
  <2>2. op[f] # "close"
    BY <1>2, <2>1 DEF CallInv, ServedOps
  <2>3. CASE UNCHANGED fdtab /\ Answer(SetRetAndErrNo(area, -1))
    <3>1. CommonRetNegative(area')
      <4>1. -1 < 0
        OBVIOUS
      <4> QED BY <1>7, <2>3, <4>1 DEF SetRetAndErrNo, Data, CommonRetNegative
    <3>2. DescriptorInv(f)'
      BY <1>1, <1>2, <1>3, <1>4, <1>7, <2>2, <2>3, <3>1
         DEF DescriptorInv, OpenFor, Closed, CommonRetNegative
    <3> QED BY <1>3, <1>5, <2>3, <3>2 DEF OpenFor
  <2>4. ASSUME NEW fd \in Fds, fdtab[fd] = NoThread,
               fdtab' = [fdtab EXCEPT ![fd] = f], Answer(SetRetAndErrNo(area, fd))
        PROVE  FilesInv'
    <3>1. area'.w0 = fd /\ OpenFor(fd, f)'
      <4>1. fd \in Nat /\ ~(fd < 0)
        BY CommAssumption
      <4> QED BY <1>2, <1>7, <2>4, <4>1 DEF SetRetAndErrNo, Data, OpenFor
    <3>2. ASSUME NEW u \in Threads, OpenFor(file[u], u) PROVE OpenFor(file[u], u)'
      BY <1>2, <1>3, <2>4, <3>2 DEF OpenFor
    <3>3. DescriptorInv(f)'
      BY <1>1, <1>2, <1>3, <1>4, <1>7, <2>4, <3>1, <3>2 DEF DescriptorInv, OpenFor
    <3> QED BY <1>5, <3>2, <3>3
  <2> QED BY <1>9, <2>1, <2>3, <2>4 DEF ServeOpen
<1>10. CASE ServeClose
  <2>1. call[f] = "close" /\ area.w0 = file[f] /\ op[f] = "close"
    BY <1>1, <1>2, <1>10, ServedCall DEF Requested, CallInv, ServedOps
  <2>2. \E a : Answer(a)
    BY <1>10 DEF ServeClose
  <2>3. Closed(f)'
    BY <1>3, <1>7, <2>1, <2>2 DEF Closed
  <2>4. DescriptorInv(f)'
    BY <1>3, <2>1, <2>3 DEF DescriptorInv
  <2>5. CASE UNCHANGED fdtab
    BY <1>3, <1>5, <2>4, <2>5 DEF OpenFor
  <2>6. CASE area.w0 \in Fds /\ fdtab' = [fdtab EXCEPT ![area.w0] = NoThread]
    <3>1. starts = 1 => OpenFor(file[f], f)
      BY <1>1, <1>2, <2>1 DEF DescriptorInv, BaseInv, FileInv
    <3>2. ASSUME NEW u \in Threads, u # f, starts = 1, OpenFor(file[u], u)
          PROVE  OpenFor(file[u], u)'
      BY <1>2, <1>3, <2>1, <2>6, <3>1, <3>2 DEF OpenFor
    <3> QED BY <1>5, <2>4, <3>2
  <2> QED BY <1>10, <2>5, <2>6 DEF ServeClose
<1>11. CASE ServeHandshake \/ ServeChunk \/ FinishDma
  <2>1. call[f] # "open"
    BY <1>1, <1>11, ServedCall
  <2>2. UNCHANGED fdtab /\ \E a : Answer(a)
    BY <1>11 DEF ServeHandshake, ServeChunk, FinishDma
  <2> QED BY <1>6, <1>7, <2>1, <2>2
<1>12. CASE RefuseHandshake \/ RefuseChunk \/ RefuseDma \/ FailDma
  <2>1. call[f] # "open"
    BY <1>1, <1>12, ServedCall
  <2>2. \E a : Refuse(a)
    BY <1>12 DEF RefuseHandshake, RefuseChunk, RefuseDma, FailDma
  <2> QED BY <1>6, <1>8, <2>1, <2>2
<1>13. CASE StartDma
  <2>1. call[f] # "open"
    BY <1>1, <1>13, ServedCall
  <2> QED BY <1>6, <1>13, <2>1 DEF StartDma, pageVars
<1> QED BY <1>1, <1>9, <1>10, <1>11, <1>12, <1>13, ServedCall DEF OnFault

(* The end of a request keeps the table, the end of a manager clears it    *)
(* but is the end of the first manager.                                    *)
LEMMA ReleaseFiles ==
  ASSUME FilesInv, UNCHANGED stubVars, UNCHANGED <<turn, area>>,
         fault' = NoThread \/ (fault' = fault /\ mgr' = "exiting"),
         starts \in Nat, starts' \in {starts, starts + 1},
         starts' = 1 /\ mgr' # "down" =>
           starts = 1 /\ mgr # "down" /\ UNCHANGED fdtab
  PROVE  FilesInv'
<1>1. UNCHANGED <<pc, op, call, file>>
  BY DEF stubVars
<1>2. ASSUME NEW u \in Threads PROVE DescriptorInv(u)'
  <2>1. (Posted(u)' => Posted(u)) /\ Answered(u)' = Answered(u)
    BY <1>1, PageAssumption DEF Posted, Answered
  <2>2. Closed(u)' = Closed(u)
    BY <1>1, <2>1 DEF Closed
  <2> QED BY <1>1, <2>1, <2>2 DEF FilesInv, DescriptorInv, OpenFor, CommonRetNegative
<1>3. starts' >= 1
  BY DEF FilesInv
<1> QED BY <1>2, <1>3 DEF FilesInv

LEMMA HostFiles ==
  ASSUME Disciplined, BaseInv, ChannelInv, FilesInv, HostStep \/ HostEvent
  PROVE  FilesInv'
<1>0. starts \in Nat /\ starts >= 1
  BY DEF BaseInv, TypeOK, CommTypeOK, FilesInv
<1>1. CASE HostStep /\ (ManagerExit \/ HookCompleted)
  BY <1>0, <1>1, ReleaseFiles DEF HostStep, ManagerExit, HookCompleted
<1>2. CASE HostEvent /\ (Signal \/ ListenerFails)
  BY <1>0, <1>2, ReleaseFiles DEF HostEvent, Signal, ListenerFails, pageVars
<1>3. CASE HostEvent /\ ManagerStart
  <2>1. fault = NoThread
    <3>1. fault \in Threads \cup {NoThread}
      BY DEF BaseInv, TypeOK, PageTypeOK
    <3> QED BY <1>3, <3>1 DEF ManagerStart, ChannelInv, FreezeInv
  <2>2. starts' = starts + 1 /\ starts' # 1
    BY <1>0, <1>3 DEF ManagerStart
  <2> QED BY <1>0, <1>3, <2>1, <2>2, ReleaseFiles DEF HostEvent, ManagerStart
<1> QED BY <1>1, <1>2, <1>3, OnFaultFiles DEF HostStep, HostEvent, Listener

LEMMA FilesInit == Init => FilesInv
<1> SUFFICES ASSUME Init PROVE FilesInv
  OBVIOUS
<1>1. ASSUME NEW u \in Threads PROVE DescriptorInv(u)
  <2>1. pc[u] = "idle" /\ call[u] = "none" /\ file[u] = NoFd
    BY DEF Init, StubInit
  <2> QED BY <2>1 DEF DescriptorInv
<1> QED BY <1>1 DEF Init, CommInit, FilesInv

LEMMA FilesStep ==
  ASSUME Disciplined
  PROVE  BaseInv /\ ChannelInv /\ FilesInv /\ [Next]_vars => FilesInv'
<1> SUFFICES ASSUME BaseInv, ChannelInv, FilesInv, [Next]_vars PROVE FilesInv'
  OBVIOUS
<1>1. ASSUME NEW t \in Threads, GuestStep(t) \/ GuestLock(t) PROVE FilesInv'
  BY <1>1, GuestFilesSelf, GuestFilesOther DEF GuestStep, GuestLock, FilesInv, commVars
<1>2. CASE UNCHANGED vars
  BY <1>2 DEF vars, pageVars, stubVars, commVars, FilesInv, DescriptorInv, OpenFor,
              Closed, Posted, Answered, CommonRetNegative
<1> QED BY <1>1, <1>2, HostFiles DEF Next

(* Under the same conditions, and as long as the first manager runs, every *)
(* DMA uses the descriptor that the host opened for the very file of the   *)
(* thread: no descriptor is handed to two files, none is closed under a    *)
(* file in use (FH_ACTION_OPEN_DEVICE, FH_ACTION_CLOSE_DEVICE and do_dma). *)
THEOREM DmaUsesItsOwnFile ==
  ASSUME Disciplined PROVE Spec => []DmaOnOwnFile
<1>1. BaseInv /\ ChannelInv /\ FilesInv => DmaOnOwnFile
  <2> SUFFICES ASSUME BaseInv, ChannelInv, FilesInv, mgr = "dma", starts = 1
               PROVE  fdtab[area.w0] = fault
    BY DEF DmaOnOwnFile
  <2>1. PICK f \in Threads : fault = f
    BY DEF ChannelInv, FreezeInv
  <2>2. call[f] = "dma" /\ pc[f] = "check"
    BY <2>1 DEF ChannelInv, FreezeInv, HostInv
  <2>3. Posted(f) /\ DescriptorInv(f) /\ CallInv(f)
    BY <2>1, <2>2 DEF Posted, FilesInv, ChannelInv
  <2>4. op[f] # "close" /\ file[f] # NoFd
    BY <2>2, <2>3 DEF CallInv, ServedOps, BaseInv, FileInv
  <2> QED BY <2>1, <2>2, <2>3, <2>4 DEF DescriptorInv, OpenFor, Closed
<1> QED BY <1>1, FilesInit, FilesStep, ChannelInit, ChannelStep, BaseInvariant, PTL
        DEF Spec
=============================================================================
