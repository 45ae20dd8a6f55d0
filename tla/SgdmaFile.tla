------------------------------- MODULE SgdmaFile -------------------------------
(***************************************************************************)
(* The callers of an engine: read, write and the DMA ioctls of the         *)
(* manager, which wait for their transfers (xdma_xfer_submit,              *)
(* xdma_xfer_aperture), asynchronous I/O, which does not                   *)
(* (xdma_xfer_submit_nowait, async_io_handler), the performance test with  *)
(* its cyclic transfer, and the device going offline and online.           *)
(*                                                                         *)
(* A request is one buffer of DescsOf[r] descriptors.  Calls of load.sync  *)
(* wait; the requests of the sequence load.aio are the segments of one     *)
(* asynchronous call; load.perf is the test's transfer.  A waiting call is *)
(*   idle      not made yet                                                *)
(*   mapped    pages pinned and mapped, waiting for engine->desc_lock      *)
(*   build     owns desc_lock, before transfer_init                        *)
(*   submit    transfer built, before transfer_queue                       *)
(*   queued    transfer queued, before the polling thread is woken up      *)
(*   wait      in wait_event_interruptible_timeout                         *)
(*   check     awake, before it looks at the transfer                      *)
(*   unmap     at unmap_sgl                                                *)
(*   returned                                                              *)
(* and a segment goes idle, build, submit, flying, returned, or ends in    *)
(* lost (refused, never completed) or overrun (past its two transfers).    *)
(* Destroying a transfer is part of the step that looks at its state.      *)
(***************************************************************************)
EXTENDS XdmaEngine

CONSTANTS
  DescsOf,  \* number of descriptors of a request's buffer (sw_desc_cnt)
  NoReq

ASSUME FileAssumption ==
  /\ DescsOf \in [Reqs -> Nat \ {0}]
  /\ NoReq \notin Reqs
  /\ \A l \in Loads :
       /\ l.sync \subseteq Reqs /\ l.perf \subseteq Reqs
       /\ l.aio \in Seq(Reqs) /\ l.bad \subseteq Reqs
       /\ {l.poll, l.errors, l.giveup, l.offline} \subseteq BOOLEAN
       \* a request is made by one call, and once
       /\ l.sync \cap l.perf = {}
       /\ \A i \in DOMAIN l.aio :
            /\ l.aio[i] \notin l.sync \cup l.perf
            /\ \A j \in DOMAIN l.aio : l.aio[i] = l.aio[j] => i = j
       /\ l.perf # {} => DescMax > 1

VARIABLES
  call,       \* a request's stage, the descriptors left and done, its result
  desc_lock,  \* owner of engine->desc_lock
  caio,       \* struct cdev_async_io of the asynchronous call
  perf,       \* engine->xdma_perf is set; the test's start failed
  misuse      \* history: memory was used that was freed, or is behind tfer[2]

fileVars == <<call, desc_lock, caio, perf, misuse>>
vars     == <<load, engineVars, fileVars>>

FileInit ==
  /\ load \in Loads
  /\ call = [r \in Reqs |->
               [pc |-> "idle", left |-> DescsOf[r], done |-> 0, failed |-> FALSE,
                pinned |-> FALSE, res |-> "none"]]
  /\ desc_lock = NoReq
  /\ caio = [st |-> "none", next |-> 1, cmpl |-> 0, ret |-> "none", notified |-> 0]
  /\ perf = [set |-> FALSE, failed |-> FALSE]
  /\ misuse = FALSE

IsAio(r) == \E i \in DOMAIN load.aio : load.aio[i] = r

Move(r, from, to) ==
  /\ call[r].pc = from
  /\ call' = [call EXCEPT ![r].pc = to]

(* The request's transfer in hand: tfer[0], or the one behind the first of *)
(* an asynchronous request                                                 *)
Current(r) == IF IsAio(r) /\ xf[<<r, 1>>].state # "NEW" THEN <<r, 2>> ELSE <<r, 1>>

-----------------------------------------------------------------------------
(* Building and queueing a transfer                                        *)

(* Faulty variant: the end of the ring is not looked at.                   *)
FittingAll(n) == n

(* transfer_init: as many of the descriptors that are left as fit between  *)
(* desc_idx and the end of the ring.  Whether they are in use is not asked.*)
Fitting(n) == IF eng.idx + n >= DescMax THEN DescMax - eng.idx ELSE n

(* Faulty variant: desc_idx is not wrapped.                                *)
NotWrapped(n) == n

Wrapped(n) == n % DescMax

TransferInit(r, t) ==
  LET n  == Fitting(IF call[r].left < DescMax THEN call[r].left ELSE DescMax)
      at == eng.idx
  IN  /\ xf' = [xf EXCEPT ![t] =
                  [state |-> "NEW", num |-> n, at |-> at, last |-> (n = call[r].left),
                   cyclic |-> FALSE, live |-> TRUE]]
      /\ ring' = [s \in Slots |->
                    IF s \in at..(at + n - 1)
                    THEN [xfer |-> t, no |-> DescsOf[r] - call[r].left + s - at + 1,
                          last |-> (s = at + n - 1), next |-> (s + 1) % DescMax]
                    ELSE ring[s]]
      /\ eng' = [eng EXCEPT !.idx = Wrapped(at + n)]
      /\ call' = [call EXCEPT ![r].pc = "submit", ![r].left = @ - n]
      /\ UNCHANGED <<load, queue, hw, irq, poll, moved, desc_lock, caio, perf, misuse>>

(* transfer_queue refuses when the device is offline or shutting down.     *)
Refused == eng.offline \/ eng.shutdown

QueueXfer(S, t) ==
  LET Q == [S EXCEPT !.xf[t].state = "SUBMITTED", !.queue = Append(@, t)]
  IN  IF Q.eng.running THEN Q ELSE EngineStart(Q)

(* Faulty variant: an aborted transfer stays queued.                       *)
TransferAbortKeeps(S, t) ==
  [S EXCEPT !.xf[t].state = IF @ = "SUBMITTED" THEN "ABORTED" ELSE @]

(* transfer_abort: only the head is taken off the queue.                   *)
TransferAbort(S, t) ==
  [S EXCEPT !.queue = IF @ # <<>> /\ Head(@) = t THEN Tail(@) ELSE @,
            !.xf[t].state = IF @ = "SUBMITTED" THEN "ABORTED" ELSE @]

(* transfer_destroy clears the descriptors.                                *)
Cleared(g, ts) ==
  [s \in Slots |-> IF \E t \in ts : s \in xf[t].at..(xf[t].at + xf[t].num - 1)
                   THEN NoDesc ELSE g[s]]

-----------------------------------------------------------------------------
(* Calls that wait                                                         *)

(* char_sgdma_read_write(_remote), ioctl_do_aperture_dma up to the mapping *)
Enter(r) ==
  /\ r \in load.sync
  /\ ~eng.offline
  /\ call[r].pc = "idle"
  /\ call' = [call EXCEPT ![r].pc = "mapped", ![r].pinned = TRUE]
  /\ UNCHANGED <<load, engineVars, desc_lock, caio, perf, misuse>>

(* The alignment or direction is wrong, pages cannot be pinned, the device *)
(* is offline: an error.  Pages that were pinned before a remote one       *)
(* failed stay so.                                                         *)
EnterFails(r) ==
  /\ r \in load.sync
  /\ r \in load.bad \/ eng.offline
  /\ call[r].pc = "idle"
  /\ \E leak \in BOOLEAN :
       call' = [call EXCEPT ![r].pc = "returned", ![r].res = "error",
                            ![r].failed = TRUE,
                            ![r].pinned = leak /\ r \in load.bad]
  /\ UNCHANGED <<load, engineVars, desc_lock, caio, perf, misuse>>

LockDesc(r) ==
  /\ desc_lock = NoReq
  /\ Move(r, "mapped", "build")
  /\ desc_lock' = r
  /\ UNCHANGED <<load, engineVars, caio, perf, misuse>>

Build(r) ==
  /\ call[r].pc = "build" /\ r \in load.sync
  /\ TransferInit(r, <<r, 1>>)

Submit(r) ==
  /\ call[r].pc = "submit" /\ r \in load.sync
  /\ ~Refused
  /\ \E S \in {QueueXfer(E, <<r, 1>>)} : Becomes(S)
  /\ call' = [call EXCEPT ![r].pc = IF load.poll THEN "queued" ELSE "wait"]
  /\ UNCHANGED <<load, ring, irq, poll, moved, desc_lock, caio, perf, misuse>>

(* The engine's lock is free by now: a thread that was awake may already   *)
(* have served the transfer.                                               *)
WakeThread(r) ==
  /\ Move(r, "queued", "wait")
  /\ poll' = Wakeup(poll)
  /\ UNCHANGED <<load, eng, queue, xf, ring, hw, irq, moved, desc_lock, caio, perf,
                 misuse>>

SubmitRefused(r) ==
  /\ r \in load.sync
  /\ Refused
  /\ call[r].pc = "submit"
  /\ call' = [call EXCEPT ![r].pc = "unmap", ![r].failed = TRUE]
  /\ desc_lock' = NoReq
  /\ UNCHANGED <<load, engineVars, caio, perf, misuse>>

Wake(r) ==
  /\ xf[<<r, 1>>].state # "SUBMITTED"
  /\ Move(r, "wait", "check")
  /\ UNCHANGED <<load, engineVars, desc_lock, caio, perf, misuse>>

(* The timeout passes or a signal arrives.                                 *)
GiveUp(r) ==
  /\ load.giveup
  /\ xf[<<r, 1>>].state = "SUBMITTED"
  /\ Move(r, "wait", "check")
  /\ UNCHANGED <<load, engineVars, desc_lock, caio, perf, misuse>>

(* The state of the transfer under the lock: done, failed or still in      *)
(* flight.  The last of these aborts it and stops the engine.              *)
Check(r) ==
  LET t     == <<r, 1>>
      state == xf[t].state
      S     == IF state = "SUBMITTED"
               THEN EngineStop(TransferAbort(StatusRead(E, FALSE), t)) ELSE E
      more  == state = "COMPLETED" /\ call[r].left > 0
  IN  /\ call[r].pc = "check"
      /\ Becomes(S)
      /\ ring' = Cleared(ring, {t})
      /\ call' = [call EXCEPT
                    ![r].pc = IF more THEN "build" ELSE "unmap",
                    ![r].done = IF state = "COMPLETED" THEN @ + xf[t].num ELSE @,
                    ![r].failed = state # "COMPLETED"]
      /\ desc_lock' = IF more THEN r ELSE NoReq
      /\ UNCHANGED <<load, irq, poll, moved, caio, perf, misuse>>

(* unmap_sgl, the request is freed, the pages are released; any progress   *)
(* is a success.                                                           *)
Return(r) ==
  /\ call[r].pc = "unmap"
  /\ call' = [call EXCEPT
                ![r].pc = "returned", ![r].pinned = FALSE,
                ![r].res = IF call[r].done = DescsOf[r] THEN "all"
                           ELSE IF call[r].done > 0 THEN "some" ELSE "error"]
  /\ xf' = [xf EXCEPT ![<<r, 1>>].live = FALSE]
  /\ UNCHANGED <<load, eng, queue, ring, hw, irq, poll, moved, desc_lock, caio,
                 perf, misuse>>

-----------------------------------------------------------------------------
(* Asynchronous calls                                                      *)

Segments == Len(load.aio)

(* cdev_aio_write, cdev_aio_read: the structure of the call                *)
AioEnter ==
  /\ load.aio # <<>> /\ caio.st = "none"
  /\ caio' = [caio EXCEPT !.st = "alive"]
  /\ UNCHANGED <<load, engineVars, call, desc_lock, perf, misuse>>

AioOpen == caio.st = "alive" /\ caio.ret = "none" /\ caio.next <= Segments

(* The next segment is aligned, its pages are pinned and mapped, and       *)
(* xdma_xfer_submit_nowait makes a request of it.                          *)
AioSegment ==
  LET r == load.aio[caio.next]
  IN  /\ AioOpen /\ call[r].pc = "idle" /\ r \notin load.bad /\ ~eng.offline
      /\ call' = [call EXCEPT ![r].pc = "build", ![r].pinned = TRUE]
      /\ UNCHANGED <<load, engineVars, desc_lock, caio, perf, misuse>>

(* A misaligned segment frees the structure, one that cannot be pinned     *)
(* leaves it; either way the call fails.                                   *)
AioSegmentBad ==
  LET r == load.aio[caio.next]
  IN  /\ AioOpen /\ call[r].pc = "idle" /\ r \in load.bad
      /\ \E st \in {"alive", "freed"} :
           caio' = [caio EXCEPT !.ret = "error", !.st = st]
      /\ UNCHANGED <<load, engineVars, call, desc_lock, perf, misuse>>

(* Its pages are pinned, but the device is offline, they cannot be mapped, *)
(* or there is no memory for the request: the result of                    *)
(* xdma_xfer_submit_nowait is not looked at, the pages stay pinned, and    *)
(* the loop goes on with the next segment.                                 *)
AioSegmentLost ==
  LET r == load.aio[caio.next]
  IN  /\ AioOpen /\ call[r].pc = "idle" /\ (r \in load.bad \/ eng.offline)
      /\ call' = [call EXCEPT ![r].pc = "lost", ![r].pinned = TRUE]
      /\ caio' = [caio EXCEPT !.next = @ + 1]
      /\ UNCHANGED <<load, engineVars, desc_lock, perf, misuse>>

AioBuild(r) ==
  /\ call[r].pc = "build" /\ IsAio(r)
  /\ xf[Current(r)].state = "NEW"
  /\ TransferInit(r, Current(r))

(* The end of the ring splits a request; other calls may move desc_idx     *)
(* meanwhile, so that it is split again: transfer_init then works on an    *)
(* element behind tfer[2].  What that destroys is not followed.            *)
AioOverrun(r) ==
  /\ IsAio(r)
  /\ xf[Current(r)].state # "NEW"
  /\ Move(r, "build", "overrun")
  /\ misuse' = TRUE
  /\ UNCHANGED <<load, engineVars, desc_lock, caio, perf>>

(* Queued; the next part of the request, or the next segment               *)
AioSubmit(r) ==
  /\ call[r].pc = "submit" /\ IsAio(r)
  /\ ~Refused
  /\ \E S \in {QueueXfer(E, Current(r))} : Becomes(S)
  /\ call' = [call EXCEPT ![r].pc = IF call[r].left > 0 THEN "build" ELSE "flying"]
  /\ caio' = [caio EXCEPT !.next = IF call[r].left > 0 THEN @ ELSE @ + 1]
  /\ UNCHANGED <<load, ring, irq, poll, moved, desc_lock, perf, misuse>>

(* transfer_queue refuses: the request is freed but its pages stay pinned, *)
(* and the loop goes on with the next segment.                             *)
AioRefused(r) ==
  /\ call[r].pc = "submit" /\ IsAio(r)
  /\ Refused
  /\ call' = [call EXCEPT ![r].pc = "lost"]
  /\ xf' = [xf EXCEPT ![<<r, 1>>].live = FALSE, ![<<r, 2>>].live = FALSE]
  /\ caio' = [caio EXCEPT !.next = @ + 1]
  /\ UNCHANGED <<load, eng, queue, ring, hw, irq, poll, moved, desc_lock, perf,
                 misuse>>

(* -EIOCBQUEUED                                                            *)
AioReturn ==
  /\ caio.st # "none" /\ caio.ret = "none" /\ caio.next > Segments
  /\ caio' = [caio EXCEPT !.ret = "queued"]
  /\ poll' = Wakeup(poll)
  /\ UNCHANGED <<load, eng, queue, xf, ring, hw, irq, moved, call, desc_lock,
                 perf, misuse>>

(* xdma_xfer_completion: the transfers up to the first one that is not     *)
(* completed are counted and destroyed.                                    *)
Reaped(S, r) ==
  {t \in {r} \X {1, 2} :
     S.xf[t].num > 0 /\ (t[2] = 2 => S.xf[<<r, 1>>].state = "COMPLETED")}

Counted(S, r) ==
  LET n(i) == IF <<r, i>> \in Reaped(S, r) /\ S.xf[<<r, i>>].state = "COMPLETED"
              THEN S.xf[<<r, i>>].num ELSE 0
  IN  n(1) + n(2)

(* async_io_handler for the requests whose last transfer S has completed   *)
Notified(S) ==
  {t[1] : t \in {S.done[i] : i \in {j \in DOMAIN S.done :
                   S.xf[S.done[j]].last /\ IsAio(S.done[j][1])}}}

(* Faulty variant: the first segment completes the call.                   *)
FirstComplete(cmpl) == cmpl > 0

CallComplete(cmpl) == cmpl = Segments

(* (The last completion also frees the array of segments, by the address   *)
(* of its own one, which is the array's only if it is the first.)          *)
Handled(S) ==
  LET R    == Notified(S)
      gone == UNION {Reaped(S, r) : r \in R}
      cmpl == caio.cmpl + Cardinality(R)
  IN  /\ eng' = S.eng /\ queue' = S.queue /\ hw' = S.hw
      /\ xf' = [t \in Xfers |-> IF t[1] \in R THEN [S.xf[t] EXCEPT !.live = FALSE]
                                ELSE S.xf[t]]
      /\ ring' = Cleared(ring, gone)
      /\ call' = [r \in Reqs |->
                    IF r \in R
                    THEN [call[r] EXCEPT
                            !.pc = "returned", !.pinned = FALSE,
                            !.done = Counted(S, r),
                            !.failed = Counted(S, r) # DescsOf[r],
                            !.res = IF Counted(S, r) = DescsOf[r] THEN "all"
                                    ELSE IF Counted(S, r) > 0 THEN "some"
                                    ELSE "error"]
                    ELSE call[r]]
      /\ misuse' = (misuse \/ (R # {} /\ caio.st = "freed")
                           \/ \E i \in DOMAIN S.done : ~xf[S.done[i]].live)
      /\ caio' = IF R = {} \/ caio.st = "freed" THEN caio
                 ELSE IF CallComplete(cmpl)
                      THEN [caio EXCEPT !.cmpl = cmpl, !.st = "freed",
                                        !.notified = @ + 1]
                      ELSE [caio EXCEPT !.cmpl = cmpl]

-----------------------------------------------------------------------------
(* Service by the work item or the polling thread                          *)

(* engine_service_work                                                     *)
ServiceWork ==
  /\ irq.work
  /\ \E S \in {Service(E, NoWb)} : Handled(S)
  /\ irq' = [on |-> ~eng.offline, work |-> FALSE]
  /\ UNCHANGED <<load, poll, moved, desc_lock, perf>>

(* engine_service_poll after the monitor                                   *)
ServicePoll ==
  /\ poll.pc = "service"
  /\ \E S \in {Service(E, poll.wb)} : Handled(S)
  /\ poll' = [poll EXCEPT !.pc = "idle", !.wb = NoWb]
  /\ UNCHANGED <<load, irq, moved, desc_lock, perf>>

-----------------------------------------------------------------------------
(* Performance test                                                        *)

PerfDescs == DescMax - 1

(* ioctl_do_perf_start, xdma_performance_submit: a loop of descriptors at  *)
(* the start of the ring, whoever uses them                                *)
PerfRing(r) ==
  [s \in Slots |->
     IF s < PerfDescs THEN [xfer |-> <<r, 1>>, no |-> 0, last |-> FALSE,
                            next |-> (s + 1) % PerfDescs]
     ELSE ring[s]]

PerfStart(r) ==
  /\ r \in load.perf /\ ~perf.set /\ call[r].pc = "idle" /\ ~Refused
  /\ perf' = [perf EXCEPT !.set = TRUE]
  /\ ring' = PerfRing(r)
  /\ LET T == [state |-> "NEW", num |-> PerfDescs, at |-> 0, last |-> FALSE,
               cyclic |-> TRUE, live |-> TRUE]
     IN  Becomes(QueueXfer([E EXCEPT !.xf[<<r, 1>>] = T], <<r, 1>>))
  /\ call' = [call EXCEPT ![r].pc = "flying", ![r].pinned = TRUE]
  /\ UNCHANGED <<load, irq, poll, moved, desc_lock, caio, misuse>>

(* transfer_queue refuses: the ring is overwritten and forgotten, and a    *)
(* transfer that was never queued is taken off a list through null         *)
(* pointers.  What that destroys is not followed.                          *)
PerfStartRefused(r) ==
  /\ r \in load.perf /\ ~perf.set /\ call[r].pc = "idle" /\ Refused
  /\ perf' = [set |-> TRUE, failed |-> TRUE]
  /\ ring' = PerfRing(r)
  /\ call' = [call EXCEPT ![r].pc = "lost"]
  /\ misuse' = TRUE
  /\ UNCHANGED <<load, eng, queue, xf, hw, irq, poll, moved, desc_lock, caio>>

(* A wrong version or no memory: engine->xdma_perf stays set.              *)
PerfStartFails(r) ==
  /\ r \in load.perf /\ r \in load.bad /\ ~perf.set /\ call[r].pc = "idle"
  /\ perf' = [set |-> TRUE, failed |-> TRUE]
  /\ UNCHANGED <<load, engineVars, call, desc_lock, caio, misuse>>

(* ioctl_do_perf_stop, engine_cyclic_stop, without the lock: the transfer  *)
(* at the head is freed, and taken off the queue only if it is cyclic.     *)
PerfStop(r) ==
  /\ r \in load.perf /\ perf.set /\ queue # <<>>
  /\ LET t == Head(queue)
         S == EngineStop(E)
     IN  /\ eng' = S.eng /\ hw' = S.hw
         /\ queue' = IF xf[t].cyclic THEN Tail(queue) ELSE queue
         /\ xf' = [xf EXCEPT ![t].live = FALSE]
         /\ call' = [call EXCEPT ![r].pc = IF xf[t].cyclic THEN "stopped" ELSE @,
                                 ![r].pinned = @ /\ ~xf[t].cyclic]
  /\ perf' = [perf EXCEPT !.set = FALSE]
  /\ UNCHANGED <<load, ring, irq, poll, moved, desc_lock, caio, misuse>>

-----------------------------------------------------------------------------
(* xdma_device_offline and xdma_device_online                              *)

Offline ==
  /\ load.offline /\ ~eng.offline /\ eng.resets < MaxResets
  /\ eng' = [EngineStop(E).eng EXCEPT !.offline = TRUE, !.shutdown = TRUE,
                                !.resets = @ + 1]
  /\ hw' = EngineStop(E).hw
  /\ irq' = [irq EXCEPT !.on = FALSE]
  /\ UNCHANGED <<load, queue, xf, ring, poll, moved, fileVars>>

Online ==
  /\ eng.offline
  /\ eng' = [eng EXCEPT !.offline = FALSE, !.shutdown = FALSE]
  /\ irq' = [irq EXCEPT !.on = ~load.poll]
  /\ hw' = IF load.poll THEN [hw EXCEPT !.wb = NoWb] ELSE hw
  /\ UNCHANGED <<load, queue, xf, ring, poll, moved, fileVars>>
=============================================================================
