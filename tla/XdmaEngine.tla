------------------------------ MODULE XdmaEngine ------------------------------
(***************************************************************************)
(* One scatter-gather engine of the host XDMA driver (libxdma.c): the      *)
(* queue of transfers, the ring of descriptors, the hardware that walks    *)
(* them, the interrupt with its work item, and the polling thread          *)
(* (xdma_thread.c) that replaces it in poll mode.                          *)
(*                                                                         *)
(* Every region under engine->lock is one step.  Such a region is written  *)
(* as an operator from states to states, S being a record of the variables *)
(* it works on; S.done collects the transfers it completes, in order, and  *)
(* S.left is *pdesc_completed.                                             *)
(*                                                                         *)
(* The hardware is external.  A descriptor whose memory was cleared has no *)
(* magic number and stops it with an error.  Clearing RUN lets it finish   *)
(* the descriptor in its hands.  A transfer is a pair of a request and 1   *)
(* or 2, an element of tfer[2].  Streaming engines (eop_flush, and the     *)
(* credits for which desc_used is kept) are not modelled: the device is    *)
(* memory mapped.                                                          *)
(***************************************************************************)
EXTENDS Integers, Sequences, FiniteSets

CONSTANTS
  Reqs,        \* requests, each of which is made at most once
  Loads,       \* situations to run the engine in, see SgdmaFile
  DescMax,     \* engine->desc_max: descriptors in the ring
  MaxResets,   \* bound: how often the device goes offline
  CountRange,  \* 2^32: completed descriptors are counted in a u32
  WildCounts   \* what xdma_thread_cmpl_status_proc reads past an empty list

ASSUME EngineAssumption ==
  /\ DescMax \in Nat \ {0} /\ MaxResets \in Nat
  /\ CountRange \in Nat /\ CountRange > 2 * DescMax
  /\ WildCounts \subseteq Nat

VARIABLES
  load,    \* the situation, fixed at the start
  eng,     \* struct xdma_engine: running, shutdown (REQUEST), desc_dequeued,
           \* desc_idx, the status last read; XDEV_FLAG_OFFLINE and, as a
           \* history, how often it was set
  queue,   \* engine->transfer_list
  xf,      \* the struct xdma_transfer of each pair
  ring,    \* engine->desc: descriptor memory
  hw,      \* the device
  irq,     \* interrupt enabled, work scheduled, handler installed
  poll,    \* the polling thread; as a history, whether it has thrown away a
           \* count that was enough for the head of the queue
  moved    \* history: which descriptors of a request the device has carried out

engineVars == <<eng, queue, xf, ring, hw, irq, poll, moved>>

Xfers == Reqs \X {1, 2}
Slots == 0..(DescMax - 1)

NoDesc  == [xfer |-> <<>>, no |-> 0, last |-> FALSE, next |-> 0]
NewXfer == [state |-> "NEW", num |-> 0, at |-> 0, last |-> FALSE,
            cyclic |-> FALSE, live |-> FALSE]
NoBits  == [bits |-> {}, busy |-> FALSE]
NoWb    == [count |-> 0, err |-> FALSE]

EngineInit ==
  /\ eng = [running |-> FALSE, shutdown |-> FALSE, offline |-> FALSE,
            resets |-> 0, dequeued |-> 0, idx |-> 0, status |-> NoBits]
  /\ queue = <<>>
  /\ xf = [t \in Xfers |-> NewXfer]
  /\ ring = [s \in Slots |-> NoDesc]
  /\ hw = [run |-> FALSE, busy |-> FALSE, pos |-> 0, cur |-> NoDesc, count |-> 0,
           bits |-> {}, wb |-> NoWb, late |-> {}]
  /\ irq = [on |-> TRUE, work |-> FALSE]
  /\ poll = [pc |-> "idle", schedule |-> FALSE, expect |-> 0, wb |-> NoWb,
             lost |-> FALSE]
  /\ moved = [r \in Reqs |-> {}]

E == [eng |-> eng, queue |-> queue, xf |-> xf, hw |-> hw, done |-> <<>>, left |-> 0]

(* Op applied to S, which is evaluated once                                *)
Then(S, Op(_)) == CHOOSE T \in {Op(R) : R \in {S}} : TRUE

Becomes(S) ==
  /\ eng' = S.eng /\ queue' = S.queue /\ xf' = S.xf /\ hw' = S.hw

-----------------------------------------------------------------------------
(* Starting and stopping                                                   *)

(* engine_status_read; clear selects the register that is reset by reading *)
StatusRead(S, clear) ==
  [S EXCEPT !.eng.status = [bits |-> S.hw.bits, busy |-> S.hw.busy],
            !.hw.bits = IF clear THEN {} ELSE @]

EngineStop(S) == [S EXCEPT !.eng.running = FALSE, !.hw.run = FALSE]

(* The device drops what it walks and takes the new chain; the descriptor  *)
(* in its hands is finished all the same.                                  *)
DeviceStart(h, at) ==
  [h EXCEPT !.run = TRUE, !.busy = TRUE, !.pos = at, !.count = 0, !.cur = NoDesc,
            !.late = IF h.cur # NoDesc THEN @ \cup {h.cur.xfer} ELSE @]

(* Faulty variant: the count of an earlier run is not forgotten.           *)
EngineStartKeepsCount(S) ==
  IF S.eng.running \/ S.queue = <<>> THEN S
  ELSE StatusRead([S EXCEPT !.eng.running = TRUE, !.eng.shutdown = FALSE,
                            !.hw = DeviceStart(@, S.xf[Head(S.queue)].at)],
                  FALSE)

EngineStart(S) ==
  IF S.eng.running \/ S.queue = <<>> THEN S
  ELSE StatusRead([S EXCEPT !.eng.running = TRUE, !.eng.shutdown = FALSE,
                            !.eng.dequeued = 0,
                            !.hw = DeviceStart(@, S.xf[Head(S.queue)].at)],
                  FALSE)

-----------------------------------------------------------------------------
(* engine_service                                                          *)

(* engine_transfer_completion for the head of the queue                    *)
Complete(S, state) ==
  [S EXCEPT !.queue = Tail(@), !.xf[Head(S.queue)].state = state,
            !.done = Append(@, Head(S.queue))]

(* The descriptors of the first k transfers of the queue                   *)
DescsUpto(S) ==
  LET upto[k \in 0..Len(S.queue)] ==
        IF k = 0 THEN 0 ELSE upto[k - 1] + S.xf[S.queue[k]].num
  IN  upto

(* How many transfers engine_service_transfer_list completes: the longest  *)
(* prefix of the queue whose descriptors are exceeded by the count         *)
Whole(S) ==
  LET whole == {k \in 0..Len(S.queue) :
                  \A j \in 1..k : /\ ~S.xf[S.queue[j]].cyclic
                                  /\ S.left > DescsUpto(S)[j]}
  IN  CHOOSE m \in whole : \A j \in whole : j <= m

(* engine_service_transfer_list                                            *)
ServiceTransferList(S) ==
  LET k     == Whole(S)
      front == {S.queue[j] : j \in 1..k}
  IN  [S EXCEPT !.queue = SubSeq(@, k + 1, Len(@)),
                !.eng.dequeued = @ + DescsUpto(S)[k],
                !.left = @ - DescsUpto(S)[k],
                !.done = @ \o SubSeq(S.queue, 1, k),
                !.xf = [t \in Xfers |->
                          IF t \in front THEN [@[t] EXCEPT !.state = "COMPLETED"]
                          ELSE @[t]]]

(* Faulty variant: a transfer that stopped half-way counts as completed.   *)
ServiceFinalTransferHalf(S) ==
  IF S.queue = <<>> THEN S
  ELSE IF "err" \in S.eng.status.bits THEN Complete(EngineStop(S), "FAILED")
  ELSE Complete([S EXCEPT !.eng.dequeued = @ + S.xf[Head(S.queue)].num],
                "COMPLETED")

(* engine_service_final_transfer                                           *)
ServiceFinalTransfer(S) ==
  IF S.queue = <<>> THEN S
  ELSE IF "err" \in S.eng.status.bits THEN Complete(EngineStop(S), "FAILED")
  ELSE LET num == S.xf[Head(S.queue)].num
       IN  Complete([S EXCEPT !.eng.dequeued = @ + num],
                    IF S.left < num THEN "FAILED" ELSE "COMPLETED")

(* Faulty variant: what is queued behind a completed transfer is not       *)
(* started.                                                                *)
ServiceResumeNever(S) ==
  IF S.eng.running /\ S.queue = <<>> THEN EngineStop(S) ELSE S

(* engine_service_resume                                                   *)
ServiceResume(S) ==
  CASE ~S.eng.running /\ S.queue # <<>> -> EngineStart(S)
    [] S.eng.running /\ S.queue = <<>>  -> EngineStop(S)
    [] OTHER                            -> S

(* The status is read when no count is given, or an error.                 *)
ServiceRead(S, wb) ==
  IF wb.count = 0 \/ wb.err THEN StatusRead(S, TRUE) ELSE S

(* An engine that is idle, or has written back a count, is stopped.        *)
ServiceIdle(S, wb) ==
  IF ~S.eng.status.busy \/ wb.count # 0 THEN EngineStop(S) ELSE S

(* The transfers that the count n covers; the subtraction is that of a u32 *)
ServiceCount(S, n) ==
  Then(Then(Then([S EXCEPT !.left = (n - S.eng.dequeued) % CountRange],
                 ServiceTransferList), ServiceFinalTransfer), ServiceResume)

(* engine_service; wb is what the polling thread saw, NoWb for the work    *)
(* item.  The count is read from the device when wb has none.              *)
Service(S, wb) ==
  LET n        == IF wb.count = 0 THEN S.hw.count ELSE wb.count
      Idle(R)  == ServiceIdle(R, wb)
      Count(R) == IF n = 0 THEN R ELSE ServiceCount(R, n)
  IN  IF S.eng.running THEN Then(Then(ServiceRead(S, wb), Idle), Count)
      ELSE StatusRead(S, TRUE)

-----------------------------------------------------------------------------
(* The device (external)                                                   *)

(* It fetches the descriptor at pos; one without a magic number, or the    *)
(* bus, gives an error.  Without RUN it comes to rest.                     *)
HwFetch ==
  /\ hw.busy /\ hw.run /\ hw.cur = NoDesc /\ ring[hw.pos] # NoDesc
  /\ hw' = [hw EXCEPT !.cur = ring[hw.pos]]
  /\ UNCHANGED <<load, eng, queue, xf, ring, irq, poll, moved>>

HwError ==
  /\ hw.busy
  /\ load.errors \/ (hw.run /\ hw.cur = NoDesc /\ ring[hw.pos] = NoDesc)
  /\ hw' = [hw EXCEPT !.busy = FALSE, !.cur = NoDesc, !.bits = @ \cup {"err"},
                      !.wb = IF load.poll
                             THEN [count |-> hw.count, err |-> TRUE] ELSE @]
  /\ UNCHANGED <<load, eng, queue, xf, ring, irq, poll, moved>>

HwRest ==
  /\ hw.busy /\ ~hw.run /\ hw.cur = NoDesc
  /\ hw' = [hw EXCEPT !.busy = FALSE]
  /\ UNCHANGED <<load, eng, queue, xf, ring, irq, poll, moved>>

(* It carries out the descriptor.  The last one of a chain stops it and    *)
(* asks for an interrupt, or in poll mode writes the count to memory.  The *)
(* count of a cyclic transfer saturates in the model.                      *)
HwStep ==
  LET d == hw.cur
      n == IF xf[d.xfer].cyclic /\ hw.count = DescMax
           THEN hw.count ELSE hw.count + 1
  IN  /\ hw.busy /\ d # NoDesc
      /\ hw' = [hw EXCEPT !.pos = d.next, !.cur = NoDesc, !.count = n,
                          !.busy = hw.run /\ ~d.last,
                          !.bits = IF d.last THEN @ \cup {"stopped"} ELSE @,
                          !.wb = IF d.last /\ load.poll
                                 THEN [count |-> n, err |-> FALSE] ELSE @]
      /\ moved' = IF xf[d.xfer].cyclic THEN moved
                  ELSE [moved EXCEPT ![d.xfer[1]] = @ \cup {d.no}]
      /\ UNCHANGED <<load, eng, queue, xf, ring, irq, poll>>

(* The descriptor that was in its hands at a restart is finished.          *)
HwLate ==
  \E t \in hw.late :
    /\ hw' = [hw EXCEPT !.late = @ \ {t}]
    /\ UNCHANGED <<load, eng, queue, xf, ring, irq, poll, moved>>

HwNext == HwFetch \/ HwRest \/ HwStep \/ HwError \/ HwLate

-----------------------------------------------------------------------------
(* Interrupt and polling thread                                            *)

(* In poll mode only errors are enabled.                                   *)
Requested == IF load.poll THEN hw.bits \cap {"err"} ELSE hw.bits

(* xdma_channel_irq, or xdma_isr without MSI-X: disables the interrupt and *)
(* schedules the work                                                      *)
ChannelIrq ==
  /\ irq.on /\ Requested # {}
  /\ irq' = [on |-> FALSE, work |-> TRUE]
  /\ UNCHANGED <<load, eng, queue, xf, ring, hw, poll, moved>>

(* xthread_main looks for work and goes to sleep when there is none.       *)
PollCheck ==
  /\ load.poll /\ poll.pc = "idle"
  /\ poll' = [poll EXCEPT !.pc = IF queue = <<>> THEN "asleep" ELSE "pick"]
  /\ UNCHANGED <<load, eng, queue, xf, ring, hw, irq, moved>>

(* Awake, it takes in xdma_thread_cmpl_status_proc, without a lock, the    *)
(* threshold of the head, or a wild value when the queue is empty: because *)
(* it has become so, or because the wakeup came after the transfer.        *)
PollPick ==
  /\ poll.pc = "pick" \/ (poll.pc = "asleep" /\ poll.schedule)
  /\ \E n \in IF queue = <<>> THEN WildCounts ELSE {xf[Head(queue)].num} :
       poll' = [poll EXCEPT !.schedule = FALSE, !.expect = n,
                            !.pc = IF n = 0 THEN "idle" ELSE "monitor"]
  /\ UNCHANGED <<load, eng, queue, xf, ring, hw, irq, moved>>

EnoughForHead == queue # <<>> /\ hw.wb.count >= xf[Head(queue)].num

(* engine_service_wb_monitor: what is read is also cleared, be it enough   *)
(* or not.  What is too little is served only if the time is up.           *)
PollRead ==
  /\ poll.pc = "monitor" /\ hw.wb # NoWb
  /\ hw' = [hw EXCEPT !.wb = NoWb]
  /\ \E pc \in IF hw.wb.err \/ hw.wb.count >= poll.expect
               THEN {"service"} ELSE {"monitor", "service"} :
       poll' = [poll EXCEPT !.wb = hw.wb, !.pc = pc,
                            !.lost = @ \/ (pc = "monitor" /\ EnoughForHead)]
  /\ UNCHANGED <<load, eng, queue, xf, ring, irq, moved>>

(* POLL_TIMEOUT_SECONDS have passed.                                       *)
PollTimeout ==
  /\ poll.pc = "monitor" /\ hw.wb = NoWb
  /\ poll' = [poll EXCEPT !.pc = "idle"]
  /\ UNCHANGED <<load, eng, queue, xf, ring, hw, irq, moved>>

(* xdma_kthread_wakeup                                                     *)
Wakeup(p) == IF load.poll THEN [p EXCEPT !.schedule = TRUE] ELSE p
=============================================================================
