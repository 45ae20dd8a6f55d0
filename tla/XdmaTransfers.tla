----------------------------- MODULE XdmaTransfers -----------------------------
(***************************************************************************)
(* The engine and its callers together, and what they guarantee.           *)
(***************************************************************************)
EXTENDS SgdmaFile

Init == FileInit /\ EngineInit

CallStep(r) ==
  \/ LockDesc(r) \/ Build(r) \/ Submit(r) \/ WakeThread(r) \/ SubmitRefused(r)
  \/ Wake(r) \/ Check(r) \/ Return(r)

AioStep == \/ AioSegment \/ AioSegmentBad \/ AioSegmentLost \/ AioReturn
           \/ \E r \in Reqs : \/ AioBuild(r) \/ AioOverrun(r)
                             \/ AioSubmit(r) \/ AioRefused(r)

Next ==
  \/ \E r \in Reqs : \/ Enter(r) \/ EnterFails(r) \/ CallStep(r) \/ GiveUp(r)
                     \/ PerfStart(r) \/ PerfStartRefused(r) \/ PerfStartFails(r) \/ PerfStop(r)
  \/ AioEnter \/ AioStep
  \/ ServiceWork \/ ServicePoll
  \/ (ChannelIrq \/ PollCheck \/ PollPick \/ PollRead \/ PollTimeout \/ HwNext)
     /\ UNCHANGED fileVars
  \/ Offline \/ Online

Spec == Init /\ [][Next]_vars

(* Something goes on in the driver as long as anything can: a caller, the  *)
(* work item, the polling thread at a writeback, an enabled interrupt.     *)
Progress ==
  \/ (ChannelIrq \/ PollRead) /\ UNCHANGED fileVars
  \/ \E r \in Reqs : CallStep(r)
  \/ AioStep \/ ServiceWork \/ ServicePoll

(* The device works, the thread is scheduled, the time of a wait passes.   *)
Fairness ==
  /\ WF_vars(Progress)
  /\ WF_vars(HwNext /\ UNCHANGED fileVars)
  /\ WF_vars((PollCheck \/ PollPick \/ PollTimeout) /\ UNCHANGED fileVars)
  /\ WF_vars(\E r \in Reqs : GiveUp(r))

FairSpec == Spec /\ Fairness

-----------------------------------------------------------------------------
(* Conditions under which the guarantees hold                              *)

(* No slot of the ring is handed out twice while it is in use: transfers   *)
(* one after the other, or few enough descriptors.  transfer_init does not *)
(* check it.                                                               *)
Descriptors(l) ==
  UNION {{r} \X (1..DescsOf[r]) : r \in l.sync \cup {l.aio[i] : i \in DOMAIN l.aio}}

Sufficient ==
  {l \in Loads :
     \/ l.aio = <<>>
     \/ IsFiniteSet(Descriptors(l)) /\ Cardinality(Descriptors(l)) <= DescMax}

RingSuffices == load \in Sufficient

(* A writeback is never left over for the next transfer.                   *)
PollUndisturbed == load.poll => ~load.giveup /\ ~load.errors

(* What gives up is at the head of the queue, as transfer_abort expects.   *)
HeadGivesUp == load.perf = {} /\ (load.giveup => load.aio = <<>>)

(* The engine is used within its limits, and stays online.                 *)
Reliable == RingSuffices /\ HeadGivesUp /\ PollUndisturbed /\ ~load.offline

(* The device went offline between the two parts of an asynchronous        *)
(* request: xdma_xfer_submit_nowait frees it while the first is queued.    *)
HalfRefused(r) == call[r].pc = "lost" /\ xf[<<r, 2>>].num > 0

-----------------------------------------------------------------------------
(* Types of the engine's and the callers' state.                           *)
TypeOK ==
  /\ load \in Loads
  /\ eng \in [running : BOOLEAN, shutdown : BOOLEAN, offline : BOOLEAN,
              resets : 0..MaxResets, dequeued : Nat, idx : Slots,
              status : [bits : SUBSET {"stopped", "err"}, busy : BOOLEAN]]
  /\ queue \in Seq(Xfers)
  /\ \A t \in Xfers :
       /\ xf[t].state \in {"NEW", "SUBMITTED", "COMPLETED", "FAILED", "ABORTED"}
       /\ xf[t].num \in 0..DescMax /\ xf[t].at \in Slots
  /\ \A s \in Slots : ring[s].xfer \in Xfers \cup {<<>>} /\ ring[s].next \in Slots
  /\ hw.pos \in Slots /\ hw.late \subseteq Xfers
  /\ moved \in [Reqs -> SUBSET Nat]
  /\ desc_lock \in Reqs \cup {NoReq}
  /\ caio.cmpl \in 0..Len(load.aio)

(* A caller that is told that everything was transferred can rely on it:   *)
(* the device has carried out every descriptor of the request.  A late     *)
(* interrupt of a transfer that was given up or failed, taken for the one  *)
(* that runs (engine_service), would break this.                           *)
SuccessIsReal ==
  Reliable =>
    \A r \in Reqs : call[r].res = "all" => moved[r] = 1..DescsOf[r]

(* The queue never holds a transfer of a request that was freed, nor one   *)
(* twice, whoever gives up or fails (transfer_abort, engine_service); the  *)
(* first part of a request that was refused half-way is the exception.     *)
QueueLive ==
  HeadGivesUp =>
    /\ \A i \in DOMAIN queue : xf[queue[i]].live \/ HalfRefused(queue[i][1])
    /\ \A i, j \in DOMAIN queue : i # j => queue[i] # queue[j]

(* What is queued finds its own descriptors in the ring when its turn      *)
(* comes, in order: neither transfer_init nor transfer_destroy of another  *)
(* one has touched them.                                                   *)
DescriptorsIntact ==
  RingSuffices /\ HeadGivesUp =>
    \A i \in DOMAIN queue :
      LET t == queue[i]
      IN  \A s \in xf[t].at..(xf[t].at + xf[t].num - 1) :
            /\ s \in Slots /\ ring[s].xfer = t
            /\ ring[s].last <=> s = xf[t].at + xf[t].num - 1

(* Without faults, timeouts and resets no transfer fails: engine_service   *)
(* counts the descriptors of every run and every transfer exactly.         *)
NoFalseFailure ==
  /\ RingSuffices /\ ~load.errors /\ ~load.giveup /\ ~load.offline
  /\ load.perf = {}
  => \A r \in Reqs \ load.bad : call[r].pc = "returned" => call[r].res = "all"

(* The device reads and writes only pages that are still pinned, except    *)
(* those of a request that was given up (xdma_xfer_submit releases them    *)
(* while the transfer "can still be in-flight") or that failed because of  *)
(* what another one left behind when it was given up.                      *)
DeviceInBuffer ==
  Reliable =>
    \A t \in hw.late \cup {hw.cur.xfer} :
      t # <<>> => \/ call[t[1]].pinned
                  \/ load.giveup /\ call[t[1]].failed

(* A completion never reaches memory that was freed: neither a transfer of *)
(* a freed request nor the cdev_async_io of a call that is over.  A bad    *)
(* segment, a request refused half-way and one split in three break it.    *)
CompletionsLive ==
  /\ HeadGivesUp
  /\ \A i \in DOMAIN load.aio :
       /\ load.aio[i] \notin load.bad
       /\ ~HalfRefused(load.aio[i]) /\ call[load.aio[i]].pc # "overrun"
  => ~misuse

(* Every call that waits returns: when the wait has a timeout whatever     *)
(* happens, otherwise because its transfer is served.  In poll mode a      *)
(* thread that was woken up too late (xdma_kthread_wakeup after            *)
(* transfer_queue) waits for a wild number of descriptors, throws away the *)
(* count of the next transfer, and that call waits for ever.               *)
CallReturns ==
  load.giveup \/ (~load.errors /\ ~load.offline /\ RingSuffices /\ load.perf = {}) =>
    \A r \in Reqs :
      call[r].pc = "mapped"
        ~> (call[r].pc = "returned" \/ (poll.lost /\ ~load.giveup))

(* An asynchronous call all of whose segments were accepted is completed,  *)
(* once (kiocb completion by async_io_handler after the last segment).     *)
(* One segment that is lost, which the call does not report, and the       *)
(* completion never comes; for a thrown away count see CallReturns.        *)
AioNotified ==
  ~load.giveup /\ ~load.errors /\ ~load.offline /\ RingSuffices =>
    (caio.ret = "queued" /\ \A i \in DOMAIN load.aio : call[load.aio[i]].pc # "lost")
      ~> (caio.notified = 1 \/ poll.lost)

-----------------------------------------------------------------------------
(* The engine as its callers see it; a situation for which the driver      *)
(* keeps no promise is mapped to a service nobody uses.                    *)
Promised == INSTANCE TransferService WITH
  status <- IF Reliable
            THEN [r \in Reqs |-> CASE call[r].pc = "idle"     -> "idle"
                                   [] call[r].pc = "returned" -> "answered"
                                   [] OTHER                   -> "pending"]
            ELSE [r \in Reqs |-> "idle"],
  answer <- [r \in Reqs |-> IF Reliable THEN call[r].res ELSE "none"],
  work   <- [r \in Reqs |-> IF Reliable THEN moved[r] ELSE {}]

(* The driver keeps the promise of TransferService: libxdma.c's engine and *)
(* the file operations of cdev_sgdma.c implement it.                       *)
Promise == Promised!ServiceSpec
=============================================================================
