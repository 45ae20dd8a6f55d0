-------------------------- MODULE XdmaTransfersProofs --------------------------
(***************************************************************************)
(* Machine-checked properties of the engine and its callers                *)
(* (XdmaTransfers), for any number of requests, sizes of buffers and of    *)
(* the ring, and any situation.                                            *)
(*                                                                         *)
(* The invariants come in layers, each of which uses those before it: the  *)
(* types; what a request, its two transfers and the queue have to do with  *)
(* each other (Linked); who owns a descriptor of the ring (Owned); what    *)
(* the device has in its hands (Driven).                                   *)
(***************************************************************************)
EXTENDS XdmaTransfers, FiniteSetTheorems, SequenceTheorems,
        WellFoundedInduction, TLAPS

-----------------------------------------------------------------------------
(* Types                                                                   *)

XStates  == {"NEW", "SUBMITTED", "COMPLETED", "FAILED", "ABORTED"}
Bits     == {"stopped", "err"}
Stages   == {"idle", "mapped", "build", "submit", "queued", "wait", "check", "unmap", "returned",
             "flying", "lost", "overrun", "stopped"}
EngRecs  == [running : BOOLEAN, shutdown : BOOLEAN, offline : BOOLEAN,
             resets : 0..MaxResets, dequeued : Nat, idx : Slots,
             status : [bits : SUBSET Bits, busy : BOOLEAN]]
XferRecs == [state : XStates, num : 0..DescMax, at : Slots, last : BOOLEAN,
             cyclic : BOOLEAN, live : BOOLEAN]
DescRecs == {NoDesc} \cup [xfer : Xfers, no : Nat, last : BOOLEAN, next : Slots]
WbRecs   == [count : Nat, err : BOOLEAN]
HwRecs   == [run : BOOLEAN, busy : BOOLEAN, pos : Slots, cur : DescRecs, count : Nat,
             bits : SUBSET Bits, wb : WbRecs, late : SUBSET Xfers]
PollRecs == [pc : {"idle", "asleep", "pick", "monitor", "service"}, schedule : BOOLEAN,
             expect : Nat, wb : WbRecs, lost : BOOLEAN]
CallRecs == [pc : Stages, left : Nat, done : Nat, failed : BOOLEAN, pinned : BOOLEAN,
             res : {"none", "all", "some", "error"}]
CaioRecs == [st : {"none", "alive", "freed"}, next : Nat \ {0}, cmpl : Nat,
             ret : {"none", "queued", "error"}, notified : Nat]
States   == [eng : EngRecs, queue : Seq(Xfers), xf : [Xfers -> XferRecs], hw : HwRecs,
             done : Seq(Xfers), left : Nat]

Types ==
  /\ load \in Loads
  /\ eng \in EngRecs
  /\ queue \in Seq(Xfers)
  /\ xf \in [Xfers -> XferRecs]
  /\ ring \in [Slots -> DescRecs]
  /\ hw \in HwRecs
  /\ irq \in [on : BOOLEAN, work : BOOLEAN]
  /\ poll \in PollRecs
  /\ moved \in [Reqs -> SUBSET Nat]
  /\ call \in [Reqs -> CallRecs]
  /\ \A r \in Reqs : call[r].left <= DescsOf[r]
  /\ desc_lock \in Reqs \cup {NoReq}
  /\ caio \in CaioRecs
  /\ perf \in [set : BOOLEAN, failed : BOOLEAN]
  /\ misuse \in BOOLEAN

-----------------------------------------------------------------------------
(* The operators of the engine                                             *)

LEMMA Ring ==
  /\ DescMax \in Nat /\ DescMax > 0 /\ MaxResets \in Nat
  /\ CountRange \in Nat /\ CountRange > 2 * DescMax
  /\ Slots = 0..(DescMax - 1) /\ 0 \in Slots
  /\ WildCounts \subseteq Nat
BY EngineAssumption DEF EngineAssumption, Slots

LEMMA Requests ==
  /\ \A r \in Reqs : DescsOf[r] \in Nat /\ DescsOf[r] > 0
  /\ NoReq \notin Reqs
BY FileAssumption DEF FileAssumption

LEMMA SomeLoad ==
  ASSUME NEW l \in Loads
  PROVE  /\ l.sync \subseteq Reqs /\ l.perf \subseteq Reqs
         /\ l.aio \in Seq(Reqs) /\ l.bad \subseteq Reqs
         /\ l.poll \in BOOLEAN /\ l.errors \in BOOLEAN
         /\ l.giveup \in BOOLEAN /\ l.offline \in BOOLEAN
         /\ l.sync \cap l.perf = {}
         /\ \A i \in DOMAIN l.aio : l.aio[i] \notin l.sync \cup l.perf
         /\ \A i, j \in DOMAIN l.aio : l.aio[i] = l.aio[j] => i = j
         /\ l.perf # {} => DescMax > 1
BY FileAssumption DEF FileAssumption

LEMMA Remainder ==
  ASSUME NEW m \in Nat, m > 0
  PROVE  /\ \A n \in Int : n % m \in 0..(m - 1)
         /\ \A n \in 0..(m - 1) : n % m = n
         /\ m % m = 0
OBVIOUS

LEMMA PairOf ==
  ASSUME NEW t \in Xfers
  PROVE  /\ t = <<t[1], t[2]>> /\ t[1] \in Reqs /\ t[2] \in {1, 2}
         /\ t # <<>>
BY DEF Xfers

LEMMA Pairs ==
  \A r \in Reqs : <<r, 1>> \in Xfers /\ <<r, 2>> \in Xfers
BY DEF Xfers

LEMMA Records ==
  /\ NoDesc \in DescRecs
  /\ \A d \in DescRecs : d # NoDesc =>
       d.xfer \in Xfers /\ d.no \in Nat /\ d.last \in BOOLEAN /\ d.next \in Slots
  /\ NewXfer \in XferRecs
  /\ NoBits \in [bits : SUBSET Bits, busy : BOOLEAN]
  /\ NoWb \in WbRecs
BY Ring DEF DescRecs, XferRecs, NewXfer, NoBits, NoWb, WbRecs, XStates, Bits

LEMMA StateOfE == Types => E \in States
BY EmptySeq DEF Types, E, States

LEMMA StatusReadIs ==
  ASSUME NEW S \in States, NEW clear \in BOOLEAN
  PROVE  /\ StatusRead(S, clear) \in States
         /\ StatusRead(S, clear).queue = S.queue /\ StatusRead(S, clear).xf = S.xf
         /\ StatusRead(S, clear).done = S.done /\ StatusRead(S, clear).left = S.left
         /\ StatusRead(S, clear).eng =
              [S.eng EXCEPT !.status = [bits |-> S.hw.bits, busy |-> S.hw.busy]]
         /\ StatusRead(S, clear).hw = [S.hw EXCEPT !.bits = IF clear THEN {} ELSE @]
<1>1. /\ S.eng \in EngRecs /\ S.hw \in HwRecs
      /\ S = [eng |-> S.eng, queue |-> S.queue, xf |-> S.xf, hw |-> S.hw,
              done |-> S.done, left |-> S.left]
  BY DEF States
<1> DEFINE e == [S.eng EXCEPT !.status = [bits |-> S.hw.bits, busy |-> S.hw.busy]]
           h == [S.hw EXCEPT !.bits = IF clear THEN {} ELSE @]
<1>2. e \in EngRecs
  BY <1>1 DEF EngRecs, HwRecs
<1>3. h \in HwRecs
  BY <1>1 DEF HwRecs
<1>4. StatusRead(S, clear) = [S EXCEPT !.eng = e, !.hw = h]
  BY <1>1 DEF StatusRead
<1> HIDE DEF e, h
<1>5. StatusRead(S, clear) \in States
  BY <1>2, <1>3, <1>4 DEF States
<1>6. /\ StatusRead(S, clear).queue = S.queue /\ StatusRead(S, clear).xf = S.xf
      /\ StatusRead(S, clear).done = S.done /\ StatusRead(S, clear).left = S.left
      /\ StatusRead(S, clear).eng = e /\ StatusRead(S, clear).hw = h
  BY <1>1, <1>4
<1> QED BY <1>5, <1>6 DEF e, h

LEMMA EngineStopIs ==
  ASSUME NEW S \in States
  PROVE  /\ EngineStop(S) \in States
         /\ EngineStop(S).queue = S.queue /\ EngineStop(S).xf = S.xf
         /\ EngineStop(S).done = S.done /\ EngineStop(S).left = S.left
         /\ EngineStop(S).eng = [S.eng EXCEPT !.running = FALSE]
         /\ EngineStop(S).hw = [S.hw EXCEPT !.run = FALSE]
<1>1. /\ S.eng \in EngRecs /\ S.hw \in HwRecs
      /\ S = [eng |-> S.eng, queue |-> S.queue, xf |-> S.xf, hw |-> S.hw,
              done |-> S.done, left |-> S.left]
  BY DEF States
<1> DEFINE e == [S.eng EXCEPT !.running = FALSE]
           h == [S.hw EXCEPT !.run = FALSE]
<1>2. e \in EngRecs
  BY <1>1 DEF EngRecs
<1>3. h \in HwRecs
  BY <1>1 DEF HwRecs
<1>4. EngineStop(S) = [S EXCEPT !.eng = e, !.hw = h]
  BY <1>1 DEF EngineStop
<1> HIDE DEF e, h
<1>5. EngineStop(S) \in States
  BY <1>2, <1>3, <1>4 DEF States
<1>6. /\ EngineStop(S).queue = S.queue /\ EngineStop(S).xf = S.xf
      /\ EngineStop(S).done = S.done /\ EngineStop(S).left = S.left
      /\ EngineStop(S).eng = e /\ EngineStop(S).hw = h
  BY <1>1, <1>4
<1> QED BY <1>5, <1>6 DEF e, h

LEMMA DeviceStartIs ==
  ASSUME NEW h \in HwRecs, NEW at \in Slots
  PROVE  /\ DeviceStart(h, at) \in HwRecs
         /\ DeviceStart(h, at).run /\ DeviceStart(h, at).busy
         /\ DeviceStart(h, at).pos = at /\ DeviceStart(h, at).count = 0
         /\ DeviceStart(h, at).cur = NoDesc
         /\ DeviceStart(h, at).bits = h.bits /\ DeviceStart(h, at).wb = h.wb
         /\ DeviceStart(h, at).late =
              IF h.cur # NoDesc THEN h.late \cup {h.cur.xfer} ELSE h.late
<1>1. h.cur \in DescRecs /\ h.late \subseteq Xfers
  BY DEF HwRecs
<1>2. h.cur # NoDesc => h.cur.xfer \in Xfers
  BY <1>1, Records
<1> DEFINE l == IF h.cur # NoDesc THEN h.late \cup {h.cur.xfer} ELSE h.late
<1>3. l \subseteq Xfers
  BY <1>1, <1>2
<1>4. DeviceStart(h, at) =
        [run |-> TRUE, busy |-> TRUE, pos |-> at, cur |-> NoDesc, count |-> 0,
         bits |-> h.bits, wb |-> h.wb, late |-> l]
  <2>1. h = [run |-> h.run, busy |-> h.busy, pos |-> h.pos, cur |-> h.cur,
             count |-> h.count, bits |-> h.bits, wb |-> h.wb, late |-> h.late]
    BY DEF HwRecs
  <2>2. DeviceStart(h, at) =
          [h EXCEPT !.run = TRUE, !.busy = TRUE, !.pos = at, !.count = 0, !.cur = NoDesc,
                    !.late = l]
    BY DEF DeviceStart, HwRecs
  <2> HIDE DEF l
  <2> QED BY <2>1, <2>2
<1> HIDE DEF l
<1>5. DeviceStart(h, at) \in HwRecs
  <2>1. NoDesc \in DescRecs
    BY Records
  <2>2. h.bits \in SUBSET Bits /\ h.wb \in WbRecs
    BY DEF HwRecs
  <2> QED BY <1>3, <1>4, <2>1, <2>2 DEF HwRecs
<1>6. /\ DeviceStart(h, at).run = TRUE /\ DeviceStart(h, at).busy = TRUE
      /\ DeviceStart(h, at).pos = at /\ DeviceStart(h, at).count = 0
      /\ DeviceStart(h, at).cur = NoDesc
      /\ DeviceStart(h, at).bits = h.bits /\ DeviceStart(h, at).wb = h.wb
      /\ DeviceStart(h, at).late = l
  BY <1>4 DEF HwRecs
<1> QED BY <1>5, <1>6 DEF l

(* An engine that runs, or has nothing to do, is left alone.               *)
LEMMA EngineStartIs ==
  ASSUME NEW S \in States
  PROVE  /\ EngineStart(S) \in States
         /\ EngineStart(S).queue = S.queue /\ EngineStart(S).xf = S.xf
         /\ EngineStart(S).done = S.done /\ EngineStart(S).left = S.left
         /\ S.eng.running \/ S.queue = <<>> => EngineStart(S) = S
         /\ ~S.eng.running /\ S.queue # <<>> =>
              /\ EngineStart(S).eng =
                   [S.eng EXCEPT !.running = TRUE, !.shutdown = FALSE, !.dequeued = 0,
                                 !.status = [bits |-> S.hw.bits, busy |-> TRUE]]
              /\ EngineStart(S).hw = DeviceStart(S.hw, S.xf[Head(S.queue)].at)
<1>1. /\ S.eng \in EngRecs /\ S.hw \in HwRecs /\ S.queue \in Seq(Xfers)
      /\ S.xf \in [Xfers -> XferRecs]
      /\ S = [eng |-> S.eng, queue |-> S.queue, xf |-> S.xf, hw |-> S.hw,
              done |-> S.done, left |-> S.left]
  BY DEF States
<1>2. CASE S.eng.running \/ S.queue = <<>>
  BY <1>2 DEF EngineStart
<1>3. CASE ~S.eng.running /\ S.queue # <<>>
  <2> DEFINE e == [S.eng EXCEPT !.running = TRUE, !.shutdown = FALSE, !.dequeued = 0]
             h == DeviceStart(S.hw, S.xf[Head(S.queue)].at)
             T == [S EXCEPT !.eng = e, !.hw = h]
  <2>1. Head(S.queue) \in Xfers
    BY <1>1, <1>3, HeadTailProperties
  <2>2. S.xf[Head(S.queue)].at \in Slots
    BY <1>1, <2>1 DEF XferRecs
  <2>3. h \in HwRecs /\ h.busy /\ h.bits = S.hw.bits
    BY <1>1, <2>2, DeviceStartIs
  <2>4. e \in EngRecs
    BY <1>1 DEF EngRecs
  <2>5. EngineStart(S) = StatusRead(T, FALSE)
    BY <1>1, <1>3 DEF EngineStart
  <2> HIDE DEF e, h
  <2>6. T \in States
    BY <2>3, <2>4 DEF States
  <2>7. /\ T.queue = S.queue /\ T.xf = S.xf /\ T.done = S.done /\ T.left = S.left
        /\ T.eng = e /\ T.hw = h
    BY <1>1
  <2> HIDE DEF T
  <2>8. /\ EngineStart(S) \in States
        /\ EngineStart(S).queue = S.queue /\ EngineStart(S).xf = S.xf
        /\ EngineStart(S).done = S.done /\ EngineStart(S).left = S.left
        /\ EngineStart(S).eng = [e EXCEPT !.status = [bits |-> h.bits, busy |-> h.busy]]
        /\ EngineStart(S).hw = [h EXCEPT !.bits = @]
    BY <2>5, <2>6, <2>7, StatusReadIs, ZenonT(40)
  <2>9. [h EXCEPT !.bits = @] = h
    BY <2>3 DEF HwRecs
  <2>10. h.busy = TRUE
    BY <2>3 DEF HwRecs
  <2>11. EngineStart(S).eng =
           [S.eng EXCEPT !.running = TRUE, !.shutdown = FALSE, !.dequeued = 0,
                         !.status = [bits |-> S.hw.bits, busy |-> TRUE]]
    BY <2>8, <2>3, <2>10, <1>1 DEF e, EngRecs
  <2> QED BY <1>3, <2>8, <2>9, <2>11 DEF h
<1> QED BY <1>2, <1>3

LEMMA CompleteIs ==
  ASSUME NEW S \in States, S.queue # <<>>, NEW st \in XStates
  PROVE  /\ Complete(S, st) \in States
         /\ Complete(S, st).queue = Tail(S.queue)
         /\ Complete(S, st).xf = [S.xf EXCEPT ![Head(S.queue)].state = st]
         /\ Complete(S, st).done = Append(S.done, Head(S.queue))
         /\ Complete(S, st).left = S.left
         /\ Complete(S, st).eng = S.eng /\ Complete(S, st).hw = S.hw
<1>1. /\ S.xf \in [Xfers -> XferRecs] /\ S.queue \in Seq(Xfers) /\ S.done \in Seq(Xfers)
      /\ S = [eng |-> S.eng, queue |-> S.queue, xf |-> S.xf, hw |-> S.hw,
              done |-> S.done, left |-> S.left]
  BY DEF States
<1>2. Head(S.queue) \in Xfers /\ Tail(S.queue) \in Seq(Xfers)
  BY <1>1, HeadTailProperties
<1>3. Append(S.done, Head(S.queue)) \in Seq(Xfers)
  BY <1>1, <1>2, AppendProperties
<1> DEFINE x == [S.xf EXCEPT ![Head(S.queue)].state = st]
<1>4. x \in [Xfers -> XferRecs]
  BY <1>1, <1>2 DEF XferRecs
<1>5. Complete(S, st) =
        [S EXCEPT !.queue = Tail(S.queue), !.xf = x, !.done = Append(S.done, Head(S.queue))]
  BY <1>1 DEF Complete
<1> HIDE DEF x
<1>6. Complete(S, st) \in States
  BY <1>2, <1>3, <1>4, <1>5 DEF States
<1>7. /\ Complete(S, st).queue = Tail(S.queue)
      /\ Complete(S, st).xf = x
      /\ Complete(S, st).done = Append(S.done, Head(S.queue))
      /\ Complete(S, st).left = S.left
      /\ Complete(S, st).eng = S.eng /\ Complete(S, st).hw = S.hw
  BY <1>1, <1>5
<1> QED BY <1>6, <1>7 DEF x

-----------------------------------------------------------------------------
(* Induction over numbers                                                  *)

LEMMA LeastNumber ==
  ASSUME NEW T, T \in SUBSET Nat, T # {}
  PROVE  \E x \in T : \A y \in T : x <= y
<1> DEFINE R == OpToRel(<, Nat)
<1>1. IsWellFoundedOn(R, Nat)
  BY NatLessThanWellFounded
<1>2. \A x, y \in Nat : <<y, x>> \in R <=> y < x
  BY DEF OpToRel
<1> HIDE DEF R
<1>3. PICK x \in T : \A y \in T : ~(<<y, x>> \in R)
  BY <1>1, WFMin
<1>4. ASSUME NEW y \in T PROVE x <= y
  <2>1. y \in Nat /\ x \in Nat
    OBVIOUS
  <2>2. <<y, x>> \notin R
    BY <1>3, Zenon
  <2>3. ~(y < x)
    BY <2>1, <2>2, <1>2, Zenon
  <2> QED BY <2>1, <2>3
<1> QED BY <1>4

LEMMA GreatestNumber ==
  ASSUME NEW n \in Nat, NEW T, T \subseteq 0..n, T # {}
  PROVE  \E x \in T : \A y \in T : y <= x
<1> DEFINE U == {n - y : y \in T}
<1>1. U \in SUBSET Nat /\ U # {}
  OBVIOUS
<1>2. PICK u \in U : \A v \in U : u <= v
  <2> HIDE DEF U
  <2> QED BY <1>1, LeastNumber
<1>3. PICK x \in T : u = n - x
  OBVIOUS
<1>4. ASSUME NEW y \in T PROVE y <= x
  <2>1. n - y \in U
    OBVIOUS
  <2> QED BY <1>2, <1>3, <2>1
<1> QED BY <1>4

(* A set that holds 0 and with every number below n its successor          *)
LEMMA Induction ==
  ASSUME NEW n \in Nat, NEW T, 0 \in T,
         \A k \in 0..n - 1 : k \in T => k + 1 \in T
  PROVE  \A k \in 0..n : k \in T
<1> DEFINE U == {k \in 0..n : k \notin T}
<1>1. ASSUME U # {} PROVE FALSE
  <2>1. U \in SUBSET Nat
    OBVIOUS
  <2> HIDE DEF U
  <2>2. PICK x \in U : \A y \in U : x <= y
    BY <1>1, <2>1, LeastNumber
  <2>3. x \in 0..n /\ x \notin T
    BY <2>2 DEF U
  <2>4. x # 0 /\ x - 1 \in 0..n - 1
    BY <2>3
  <2>5. x - 1 \in T
    BY <2>2, <2>4 DEF U
  <2>6. x - 1 + 1 \in T
    BY <2>4, <2>5
  <2> QED BY <2>3, <2>6
<1> QED BY <1>1

-----------------------------------------------------------------------------
(* The service of the engine                                               *)

LEMMA DescsUptoLoop ==
  ASSUME NEW S, NEW n \in Nat, n = Len(S.queue)
  PROVE  DescsUpto(S) =
           [k \in 0..n |-> IF k = 0 THEN 0
                           ELSE DescsUpto(S)[k - 1] + S.xf[S.queue[k]].num]
<1> DEFINE Step(x, k) == x + S.xf[S.queue[k]].num
           base == 0
           Is(f, m) == f = [k \in 0..m |-> IF k = 0 THEN base ELSE Step(f[k - 1], k)]
<1>1. \A m \in 0..n : \E f : Is(f, m)
  <2> DEFINE T == {m \in 0..n : \E f : Is(f, m)}
  <2> HIDE DEF Step, base
  <2>1. 0 \in T
    <3>1. Is([k \in 0..0 |-> base], 0)
      OBVIOUS
    <3>2. \E f : Is(f, 0)
      <4> HIDE DEF Is
      <4> QED BY <3>1
    <3> QED BY <3>2
  <2>2. ASSUME NEW m \in 0..n - 1, m \in T PROVE m + 1 \in T
    <3>1. PICK f : Is(f, m)
      BY <2>2
    <3> DEFINE g == [k \in 0..m + 1 |-> IF k = m + 1 THEN Step(f[m], m + 1) ELSE f[k]]
    <3>2. \A k \in 0..m + 1 : g[k] = IF k = 0 THEN base ELSE Step(g[k - 1], k)
      <4> TAKE k \in 0..m + 1
      <4>1. k # 0 => k - 1 \in 0..m /\ g[k - 1] = f[k - 1]
        OBVIOUS
      <4>2. CASE k = m + 1
        BY <4>1, <4>2
      <4>3. CASE k # m + 1
        <5>1. k \in 0..m
          BY <4>3
        <5> QED BY <3>1, <4>1, <5>1
      <4> QED BY <4>2, <4>3
    <3>3. Is(g, m + 1)
      BY <3>2
    <3>4. \E h : Is(h, m + 1)
      <4> HIDE DEF Is, g
      <4> QED BY <3>3
    <3>5. m + 1 \in 0..n
      OBVIOUS
    <3> HIDE DEF Is
    <3> QED BY <3>4, <3>5
  <2>3. \A k \in 0..n : k \in T
    <3> HIDE DEF T
    <3> QED BY <2>1, <2>2, Induction
  <2> QED BY <2>3
<1>2. \E f : Is(f, n)
  <2> HIDE DEF Is
  <2> QED BY <1>1
<1>3. DescsUpto(S) = CHOOSE f : Is(f, n)
  BY Zenon DEF DescsUpto
<1> HIDE DEF Is
<1>4. Is(DescsUpto(S), n)
  BY <1>2, <1>3, Zenon
<1> QED BY <1>4 DEF Is

LEMMA DescsUptoIs ==
  ASSUME NEW S \in States
  PROVE  /\ DescsUpto(S)[0] = 0
         /\ \A k \in 1..Len(S.queue) :
              DescsUpto(S)[k] = DescsUpto(S)[k - 1] + S.xf[S.queue[k]].num
         /\ \A k \in 0..Len(S.queue) : DescsUpto(S)[k] \in Nat
<1> DEFINE n == Len(S.queue)
           f == DescsUpto(S)
<1>1. S.queue \in Seq(Xfers) /\ S.xf \in [Xfers -> XferRecs]
  BY DEF States
<1>2. n \in Nat
  BY <1>1, LenProperties
<1>3. f = [k \in 0..n |-> IF k = 0 THEN 0 ELSE f[k - 1] + S.xf[S.queue[k]].num]
  BY <1>2, DescsUptoLoop
<1> HIDE DEF f
<1>4. f[0] = 0 /\ \A k \in 1..n : f[k] = f[k - 1] + S.xf[S.queue[k]].num
  BY <1>2, <1>3, SMTT(30)
<1>5. \A k \in 1..n : S.xf[S.queue[k]].num \in Nat
  <2> TAKE k \in 1..n
  <2>1. S.queue[k] \in Xfers
    BY <1>1, ElementOfSeq
  <2> QED BY <1>1, <2>1, Ring DEF XferRecs
<1>6. \A k \in 0..n : f[k] \in Nat
  <2> DEFINE T == {k \in 0..n : f[k] \in Nat}
  <2>1. 0 \in T
    BY <1>2, <1>4
  <2>2. ASSUME NEW k \in 0..n - 1, k \in T PROVE k + 1 \in T
    <3>1. k + 1 \in 1..n /\ k + 1 \in 0..n /\ (k + 1) - 1 = k
      BY <1>2
    <3>2. f[k + 1] = f[k] + S.xf[S.queue[k + 1]].num
      BY <1>4, <3>1
    <3> QED BY <1>5, <2>2, <3>1, <3>2
  <2>3. \A k \in 0..n : k \in T
    <3> HIDE DEF T, n
    <3> QED BY <1>2, <2>1, <2>2, Induction
  <2> QED BY <2>3
<1> QED BY <1>4, <1>6 DEF f

(* A count that does not exceed the descriptors of the head completes      *)
(* nothing ahead of the last transfer.                                     *)
LEMMA WholeIs ==
  ASSUME NEW S \in States
  PROVE  /\ Whole(S) \in 0..Len(S.queue)
         /\ DescsUpto(S)[Whole(S)] \in Nat
         /\ DescsUpto(S)[Whole(S)] <= S.left
         /\ S.queue = <<>> => Whole(S) = 0
         /\ S.queue # <<>> /\ S.left <= S.xf[Head(S.queue)].num => Whole(S) = 0
<1> DEFINE n == Len(S.queue)
           whole == {k \in 0..n :
                       \A j \in 1..k : /\ ~S.xf[S.queue[j]].cyclic
                                       /\ S.left > DescsUpto(S)[j]}
           w == Whole(S)
<1>1. S.queue \in Seq(Xfers) /\ S.left \in Nat /\ S.xf \in [Xfers -> XferRecs]
  BY DEF States
<1>2. n \in Nat
  BY <1>1, LenProperties
<1>3. 0 \in whole /\ whole \subseteq 0..n
  BY <1>2
<1>4. \E m \in whole : \A j \in whole : j <= m
  <2> HIDE DEF whole, n
  <2> QED BY <1>2, <1>3, GreatestNumber
<1>5. w = CHOOSE m \in whole : \A j \in whole : j <= m
  BY DEF Whole
<1>6. w \in whole
  <2> HIDE DEF whole, w
  <2> QED BY <1>4, <1>5
<1> HIDE DEF w
<1>7. /\ w \in 0..n
      /\ \A j \in 1..w : S.left > DescsUpto(S)[j]
  BY <1>6
<1>8. DescsUpto(S)[w] \in Nat /\ DescsUpto(S)[w] <= S.left
  BY <1>1, <1>2, <1>7, DescsUptoIs
<1>9. ASSUME S.queue # <<>>, S.left <= S.xf[Head(S.queue)].num PROVE w = 0
  <2>1. n >= 1 /\ Head(S.queue) = S.queue[1]
    BY <1>1, <1>9, EmptySeq
  <2>2. DescsUpto(S)[1] = DescsUpto(S)[0] + S.xf[S.queue[1]].num /\ DescsUpto(S)[0] = 0
    BY <1>2, <2>1, DescsUptoIs
  <2>3. S.queue[1] \in Xfers
    BY <1>1, <1>2, <2>1, ElementOfSeq
  <2>4. S.xf[S.queue[1]].num \in Nat
    BY <1>1, <2>3, Ring DEF XferRecs
  <2>5. ~(S.left > DescsUpto(S)[1])
    BY <1>1, <1>9, <2>1, <2>2, <2>4
  <2> QED BY <1>2, <1>7, <2>5
<1>10. S.queue = <<>> => w = 0
  BY <1>1, <1>7, EmptySeq
<1> QED BY <1>7, <1>8, <1>9, <1>10 DEF w

LEMMA ServiceTransferListIs ==
  ASSUME NEW S \in States, S.done = <<>>
  PROVE  LET T == ServiceTransferList(S)
             k == Whole(S)
         IN  /\ T \in States
             /\ T.queue = SubSeq(S.queue, k + 1, Len(S.queue))
             /\ T.done = SubSeq(S.queue, 1, k)
             /\ T.xf = [t \in Xfers |->
                          IF \E j \in 1..k : S.queue[j] = t
                          THEN [S.xf[t] EXCEPT !.state = "COMPLETED"] ELSE S.xf[t]]
             /\ T.eng = [S.eng EXCEPT !.dequeued = @ + DescsUpto(S)[k]]
             /\ T.hw = S.hw
             /\ T.left = S.left - DescsUpto(S)[k]
<1> DEFINE k == Whole(S)
           u == DescsUpto(S)[k]
           q == SubSeq(S.queue, k + 1, Len(S.queue))
           d == SubSeq(S.queue, 1, k)
           x == [t \in Xfers |->
                   IF \E j \in 1..k : S.queue[j] = t
                   THEN [S.xf[t] EXCEPT !.state = "COMPLETED"] ELSE S.xf[t]]
           e == [S.eng EXCEPT !.dequeued = @ + u]
<1>1. /\ S.eng \in EngRecs /\ S.queue \in Seq(Xfers) /\ S.xf \in [Xfers -> XferRecs]
      /\ S.left \in Nat /\ S.hw \in HwRecs
      /\ S = [eng |-> S.eng, queue |-> S.queue, xf |-> S.xf, hw |-> S.hw,
              done |-> S.done, left |-> S.left]
  BY DEF States
<1>2. k \in 0..Len(S.queue) /\ u \in Nat /\ u <= S.left /\ Len(S.queue) \in Nat
  BY <1>1, WholeIs, LenProperties
<1>3. q \in Seq(Xfers) /\ d \in Seq(Xfers)
  <2>1. \A i \in k + 1..Len(S.queue) : S.queue[i] \in Xfers
    BY <1>1, <1>2, ElementOfSeq
  <2>2. \A i \in 1..k : S.queue[i] \in Xfers
    BY <1>1, <1>2, ElementOfSeq
  <2> HIDE DEF k
  <2>3. q \in Seq(Xfers)
    BY <1>2, <2>1, SubSeqProperties
  <2>4. d \in Seq(Xfers)
    BY <1>2, <2>2, SubSeqProperties
  <2> QED BY <2>3, <2>4
<1>4. <<>> \o d = d
  BY <1>3, ConcatEmptySeq
<1>5. x \in [Xfers -> XferRecs]
  <2> HIDE DEF k
  <2>1. ASSUME NEW t \in Xfers PROVE [S.xf[t] EXCEPT !.state = "COMPLETED"] \in XferRecs
    BY <1>1 DEF XferRecs, XStates
  <2> QED BY <1>1, <2>1
<1>6. e \in EngRecs
  <2>1. S.eng \in EngRecs /\ u \in Nat
    BY <1>1, <1>2
  <2> HIDE DEF u
  <2> QED BY <2>1 DEF EngRecs
<1>7. ServiceTransferList(S) =
        [S EXCEPT !.queue = q, !.eng = e, !.left = S.left - u, !.done = <<>> \o d, !.xf = x]
  <2>1. x = [t \in Xfers |->
               IF t \in {S.queue[j] : j \in 1..k}
               THEN [S.xf[t] EXCEPT !.state = "COMPLETED"] ELSE S.xf[t]]
    <3> HIDE DEF k
    <3> QED OBVIOUS
  <2> HIDE DEF x
  <2> QED BY <1>1, <2>1 DEF ServiceTransferList
<1> HIDE DEF q, d, x, e, u, k
<1>8. ServiceTransferList(S) =
        [eng |-> e, queue |-> q, xf |-> x, hw |-> S.hw, done |-> d, left |-> S.left - u]
  BY <1>1, <1>4, <1>7
<1>9. S.left - u \in Nat
  BY <1>1, <1>2
<1>10. ServiceTransferList(S) \in States
  BY <1>1, <1>3, <1>5, <1>6, <1>8, <1>9 DEF States
<1>11. /\ ServiceTransferList(S).queue = q /\ ServiceTransferList(S).done = d
       /\ ServiceTransferList(S).xf = x /\ ServiceTransferList(S).eng = e
       /\ ServiceTransferList(S).hw = S.hw /\ ServiceTransferList(S).left = S.left - u
  BY <1>8
<1> QED BY <1>10, <1>11 DEF q, d, x, e, u, k

(* What a region that serves the engine may do: it takes the first k       *)
(* transfers off the queue and gives them a final state.                   *)
Served(S, T, k) ==
  /\ T.queue = SubSeq(S.queue, k + 1, Len(S.queue))
  /\ T.done = SubSeq(S.queue, 1, k)
  /\ \A t \in Xfers :
       IF \E j \in 1..k : S.queue[j] = t
       THEN \E st \in {"COMPLETED", "FAILED"} : T.xf[t] = [S.xf[t] EXCEPT !.state = st]
       ELSE T.xf[t] = S.xf[t]
  /\ T.eng.idx = S.eng.idx /\ T.eng.offline = S.eng.offline
  /\ T.eng.resets = S.eng.resets /\ (T.eng.shutdown => S.eng.shutdown)

LEMMA ServedByList ==
  ASSUME NEW S \in States, S.done = <<>>
  PROVE  Served(S, ServiceTransferList(S), Whole(S))
<1> DEFINE T == ServiceTransferList(S)
           k == Whole(S)
<1>1. /\ T.queue = SubSeq(S.queue, k + 1, Len(S.queue))
      /\ T.done = SubSeq(S.queue, 1, k)
      /\ T.xf = [t \in Xfers |->
                   IF \E j \in 1..k : S.queue[j] = t
                   THEN [S.xf[t] EXCEPT !.state = "COMPLETED"] ELSE S.xf[t]]
      /\ T.eng = [S.eng EXCEPT !.dequeued = @ + DescsUpto(S)[k]]
  BY ServiceTransferListIs
<1>2. S.eng \in EngRecs
  BY DEF States
<1> HIDE DEF T, k
<1>3. /\ T.eng.idx = S.eng.idx /\ T.eng.offline = S.eng.offline
      /\ T.eng.resets = S.eng.resets /\ (T.eng.shutdown => S.eng.shutdown)
  BY <1>1, <1>2 DEF EngRecs
<1>4. \A t \in Xfers :
       IF \E j \in 1..k : S.queue[j] = t
       THEN \E st \in {"COMPLETED", "FAILED"} : T.xf[t] = [S.xf[t] EXCEPT !.state = st]
       ELSE T.xf[t] = S.xf[t]
  BY <1>1
<1> QED BY <1>1, <1>3, <1>4 DEF Served, T, k

LEMMA ServiceFinalTransferIs ==
  ASSUME NEW S \in States
  PROVE  LET T == ServiceFinalTransfer(S)
             num == S.xf[Head(S.queue)].num
             err == "err" \in S.eng.status.bits
         IN  /\ T \in States
             /\ S.queue = <<>> => T = S
             /\ S.queue # <<>> =>
                  /\ T.queue = Tail(S.queue) /\ T.done = Append(S.done, Head(S.queue))
                  /\ T.left = S.left
                  /\ T.xf = [S.xf EXCEPT ![Head(S.queue)].state =
                               IF err \/ S.left < num THEN "FAILED" ELSE "COMPLETED"]
                  /\ T.eng = IF err THEN [S.eng EXCEPT !.running = FALSE]
                             ELSE [S.eng EXCEPT !.dequeued = @ + num]
                  /\ T.hw = IF err THEN [S.hw EXCEPT !.run = FALSE] ELSE S.hw
<1> DEFINE num == S.xf[Head(S.queue)].num
           err == "err" \in S.eng.status.bits
<1>1. /\ S.eng \in EngRecs /\ S.queue \in Seq(Xfers) /\ S.xf \in [Xfers -> XferRecs]
      /\ S = [eng |-> S.eng, queue |-> S.queue, xf |-> S.xf, hw |-> S.hw,
              done |-> S.done, left |-> S.left]
  BY DEF States
<1>2. CASE S.queue = <<>>
  BY <1>2 DEF ServiceFinalTransfer
<1>3. CASE S.queue # <<>> /\ err
  <2>1. ServiceFinalTransfer(S) = Complete(EngineStop(S), "FAILED")
    BY <1>3 DEF ServiceFinalTransfer
  <2> DEFINE U == EngineStop(S)
  <2>2. /\ U \in States /\ U.queue = S.queue /\ U.xf = S.xf /\ U.done = S.done
        /\ U.left = S.left /\ U.eng = [S.eng EXCEPT !.running = FALSE]
        /\ U.hw = [S.hw EXCEPT !.run = FALSE]
    BY EngineStopIs
  <2> HIDE DEF U
  <2>3. "FAILED" \in XStates
    BY DEF XStates
  <2>4. LET T == Complete(U, "FAILED")
        IN  /\ T \in States /\ T.queue = Tail(U.queue)
            /\ T.xf = [U.xf EXCEPT ![Head(U.queue)].state = "FAILED"]
            /\ T.done = Append(U.done, Head(U.queue)) /\ T.left = U.left
            /\ T.eng = U.eng /\ T.hw = U.hw
    BY <1>3, <2>2, <2>3, CompleteIs
  <2> QED BY <1>3, <2>1, <2>2, <2>4 DEF U
<1>4. CASE S.queue # <<>> /\ ~err
  <2> DEFINE U == [S EXCEPT !.eng.dequeued = @ + num]
             e == [S.eng EXCEPT !.dequeued = @ + num]
             st == IF S.left < num THEN "FAILED" ELSE "COMPLETED"
  <2>1. ServiceFinalTransfer(S) = Complete(U, st)
    BY <1>4 DEF ServiceFinalTransfer
  <2>2. num \in Nat
    <3>1. Head(S.queue) \in Xfers
      BY <1>1, <1>4, HeadTailProperties
    <3> QED BY <1>1, <3>1, Ring DEF XferRecs
  <2>3. e \in EngRecs
    <3> HIDE DEF num
    <3> QED BY <1>1, <2>2 DEF EngRecs
  <2>4. U = [S EXCEPT !.eng = e]
    BY <1>1
  <2> HIDE DEF e, U
  <2>5. /\ U \in States /\ U.queue = S.queue /\ U.xf = S.xf /\ U.done = S.done
        /\ U.left = S.left /\ U.eng = e /\ U.hw = S.hw
    <3>1. U \in States
      BY <2>3, <2>4 DEF States
    <3> QED BY <1>1, <2>4, <3>1
  <2>6. st \in XStates
    BY DEF XStates
  <2> HIDE DEF st
  <2>7. LET T == Complete(U, st)
        IN  /\ T \in States /\ T.queue = Tail(U.queue)
            /\ T.xf = [U.xf EXCEPT ![Head(U.queue)].state = st]
            /\ T.done = Append(U.done, Head(U.queue)) /\ T.left = U.left
            /\ T.eng = U.eng /\ T.hw = U.hw
    BY <1>4, <2>5, <2>6, CompleteIs
  <2>8. st = IF err \/ S.left < num THEN "FAILED" ELSE "COMPLETED"
    BY <1>4 DEF st
  <2>9. e = IF err THEN [S.eng EXCEPT !.running = FALSE]
            ELSE [S.eng EXCEPT !.dequeued = @ + num]
    BY <1>4 DEF e
  <2> HIDE DEF num, err
  <2>10. LET T == ServiceFinalTransfer(S)
         IN  /\ T \in States /\ T.queue = Tail(S.queue)
             /\ T.xf = [S.xf EXCEPT ![Head(S.queue)].state = st]
             /\ T.done = Append(S.done, Head(S.queue)) /\ T.left = S.left
             /\ T.eng = e /\ T.hw = S.hw
    BY <2>1, <2>5, <2>7
  <2> QED BY <1>4, <2>8, <2>9, <2>10 DEF num, err
<1> QED BY <1>2, <1>3, <1>4

LEMMA ServiceResumeIs ==
  ASSUME NEW S \in States
  PROVE  LET T == ServiceResume(S)
         IN  /\ T \in States
             /\ T.queue = S.queue /\ T.xf = S.xf /\ T.done = S.done /\ T.left = S.left
             /\ ~S.eng.running /\ S.queue # <<>> =>
                  /\ T.eng = [S.eng EXCEPT !.running = TRUE, !.shutdown = FALSE,
                                           !.dequeued = 0,
                                           !.status = [bits |-> S.hw.bits, busy |-> TRUE]]
                  /\ T.hw = DeviceStart(S.hw, S.xf[Head(S.queue)].at)
             /\ S.eng.running /\ S.queue = <<>> =>
                  /\ T.eng = [S.eng EXCEPT !.running = FALSE]
                  /\ T.hw = [S.hw EXCEPT !.run = FALSE]
             /\ (S.eng.running <=> S.queue # <<>>) => T = S
<1>1. CASE ~S.eng.running /\ S.queue # <<>>
  <2>1. ServiceResume(S) = EngineStart(S)
    BY <1>1 DEF ServiceResume
  <2> QED BY <1>1, <2>1, EngineStartIs
<1>2. CASE S.eng.running /\ S.queue = <<>>
  <2>1. ServiceResume(S) = EngineStop(S)
    BY <1>2 DEF ServiceResume
  <2> QED BY <1>2, <2>1, EngineStopIs
<1>3. CASE S.eng.running <=> S.queue # <<>>
  <2>1. ServiceResume(S) = S
    BY <1>3 DEF ServiceResume
  <2> QED BY <1>3, <2>1
<1> QED BY <1>1, <1>2, <1>3

LEMMA ServiceCountIs ==
  ASSUME NEW S, NEW n
  PROVE  ServiceCount(S, n) =
           ServiceResume(ServiceFinalTransfer(ServiceTransferList(
             [S EXCEPT !.left = (n - S.eng.dequeued) % CountRange])))
BY DEF ServiceCount, Then

LEMMA ServiceReadIs ==
  ASSUME NEW S \in States, NEW wb \in WbRecs
  PROVE  LET T == ServiceRead(S, wb)
             read == wb.count = 0 \/ wb.err
         IN  /\ T \in States
             /\ T.queue = S.queue /\ T.xf = S.xf /\ T.done = S.done /\ T.left = S.left
             /\ T.eng = IF read THEN [S.eng EXCEPT !.status = [bits |-> S.hw.bits,
                                                              busy |-> S.hw.busy]]
                        ELSE S.eng
             /\ T.hw = IF read THEN [S.hw EXCEPT !.bits = {}] ELSE S.hw
<1>1. CASE wb.count = 0 \/ wb.err
  <2>1. ServiceRead(S, wb) = StatusRead(S, TRUE)
    BY <1>1 DEF ServiceRead
  <2> QED BY <1>1, <2>1, StatusReadIs
<1>2. CASE ~(wb.count = 0 \/ wb.err)
  BY <1>2 DEF ServiceRead
<1> QED BY <1>1, <1>2

LEMMA ServiceIdleIs ==
  ASSUME NEW S \in States, NEW wb \in WbRecs
  PROVE  LET T == ServiceIdle(S, wb)
             idle == ~S.eng.status.busy \/ wb.count # 0
         IN  /\ T \in States
             /\ T.queue = S.queue /\ T.xf = S.xf /\ T.done = S.done /\ T.left = S.left
             /\ T.eng = IF idle THEN [S.eng EXCEPT !.running = FALSE] ELSE S.eng
             /\ T.hw = IF idle THEN [S.hw EXCEPT !.run = FALSE] ELSE S.hw
<1>1. CASE ~S.eng.status.busy \/ wb.count # 0
  <2>1. ServiceIdle(S, wb) = EngineStop(S)
    BY <1>1 DEF ServiceIdle
  <2> QED BY <1>1, <2>1, EngineStopIs
<1>2. CASE ~(~S.eng.status.busy \/ wb.count # 0)
  BY <1>2 DEF ServiceIdle
<1> QED BY <1>1, <1>2

LEMMA ServiceIs ==
  ASSUME NEW S, NEW wb
  PROVE  LET n == IF wb.count = 0 THEN S.hw.count ELSE wb.count
             R == ServiceIdle(ServiceRead(S, wb), wb)
         IN  Service(S, wb) = IF S.eng.running
                              THEN IF n = 0 THEN R ELSE ServiceCount(R, n)
                              ELSE StatusRead(S, TRUE)
<1> DEFINE n == IF wb.count = 0 THEN S.hw.count ELSE wb.count
           A == ServiceRead(S, wb)
           I == Then(A, LAMBDA X : ServiceIdle(X, wb))
           Count(X) == IF n = 0 THEN X ELSE ServiceCount(X, n)
           C == Then(I, LAMBDA X : Count(X))
<1>1. Service(S, wb) = IF S.eng.running THEN C ELSE StatusRead(S, TRUE)
  BY Zenon DEF Service, Then
<1>2. I = ServiceIdle(A, wb)
  <2> HIDE DEF A
  <2> QED BY Zenon DEF Then
<1>3. C = Count(I)
  <2> HIDE DEF I, Count
  <2> QED BY Zenon DEF Then
<1> HIDE DEF I, C
<1> QED BY <1>1, <1>2, <1>3

LEMMA CountedState ==
  ASSUME NEW S \in States, NEW n \in Nat
  PROVE  LET C == [S EXCEPT !.left = (n - S.eng.dequeued) % CountRange]
         IN  /\ C \in States
             /\ C.queue = S.queue /\ C.xf = S.xf /\ C.done = S.done
             /\ C.eng = S.eng /\ C.hw = S.hw
             /\ C.left = (n - S.eng.dequeued) % CountRange
<1>1. S.eng \in EngRecs
      /\ S = [eng |-> S.eng, queue |-> S.queue, xf |-> S.xf, hw |-> S.hw,
              done |-> S.done, left |-> S.left]
  BY DEF States
<1>2. n - S.eng.dequeued \in Int
  BY <1>1 DEF EngRecs
<1>3. (n - S.eng.dequeued) % CountRange \in Nat
  <2>1. CountRange \in Nat /\ CountRange > 0
    BY Ring
  <2> QED BY <1>2, <2>1, Remainder
<1> DEFINE m == (n - S.eng.dequeued) % CountRange
<1>4. m \in Nat
  BY <1>3
<1> HIDE DEF m
<1>5. [S EXCEPT !.left = m] \in States
  BY <1>4 DEF States
<1>6. LET C == [S EXCEPT !.left = m]
      IN  /\ C.queue = S.queue /\ C.xf = S.xf /\ C.done = S.done
          /\ C.eng = S.eng /\ C.hw = S.hw /\ C.left = m
  BY <1>1
<1> QED BY <1>5, <1>6 DEF m

LEMMA ServiceServes ==
  ASSUME NEW S \in States, S.done = <<>>, NEW wb \in WbRecs
  PROVE  /\ Service(S, wb) \in States
         /\ \E k \in 0..Len(S.queue) : Served(S, Service(S, wb), k)
<1> DEFINE n == IF wb.count = 0 THEN S.hw.count ELSE wb.count
           A == ServiceRead(S, wb)
           R == ServiceIdle(A, wb)
           len == Len(S.queue)
<1>1. /\ S.queue \in Seq(Xfers) /\ len \in Nat /\ S.eng \in EngRecs
      /\ n \in Nat /\ S.xf \in [Xfers -> XferRecs]
      /\ \A j \in 1..len : S.queue[j] \in Xfers
  BY LenProperties, ElementOfSeq DEF States, HwRecs, WbRecs
<1>2. ASSUME NEW T \in States, T.queue = S.queue, T.xf = S.xf, T.done = S.done,
             T.eng.idx = S.eng.idx, T.eng.offline = S.eng.offline,
             T.eng.resets = S.eng.resets, T.eng.shutdown => S.eng.shutdown
      PROVE  Served(S, T, 0)
  <2>1. SubSeq(S.queue, 0 + 1, len) = S.queue
    BY <1>1, SubSeqFull
  <2>2. SubSeq(S.queue, 1, 0) = <<>>
    BY SubSeqEmpty
  <2>3. ~\E j \in 1..0 : TRUE
    OBVIOUS
  <2> QED BY <1>2, <2>1, <2>2, <2>3 DEF Served
<1>3. CASE ~S.eng.running
  <2>1. Service(S, wb) = StatusRead(S, TRUE)
    BY <1>3, ServiceIs
  <2> DEFINE T == StatusRead(S, TRUE)
  <2>2. /\ T \in States /\ T.queue = S.queue /\ T.xf = S.xf /\ T.done = S.done
        /\ T.eng = [S.eng EXCEPT !.status = [bits |-> S.hw.bits, busy |-> S.hw.busy]]
    BY StatusReadIs
  <2> HIDE DEF T
  <2>3. /\ T.eng.idx = S.eng.idx /\ T.eng.offline = S.eng.offline
        /\ T.eng.resets = S.eng.resets /\ T.eng.shutdown = S.eng.shutdown
    BY <1>1, <2>2 DEF EngRecs
  <2>4. Served(S, T, 0)
    BY <1>2, <2>2, <2>3
  <2>5. 0 \in 0..len
    BY <1>1
  <2> QED BY <2>1, <2>2, <2>4, <2>5 DEF T
<1>4. /\ A \in States /\ A.queue = S.queue /\ A.xf = S.xf /\ A.done = S.done
      /\ A.eng.idx = S.eng.idx /\ A.eng.offline = S.eng.offline
      /\ A.eng.resets = S.eng.resets /\ A.eng.shutdown = S.eng.shutdown
  <2>1. /\ A \in States /\ A.queue = S.queue /\ A.xf = S.xf /\ A.done = S.done
        /\ \/ A.eng = [S.eng EXCEPT !.status = [bits |-> S.hw.bits, busy |-> S.hw.busy]]
           \/ A.eng = S.eng
    BY ServiceReadIs
  <2> HIDE DEF A
  <2> QED BY <1>1, <2>1 DEF EngRecs
<1>5. /\ R \in States /\ R.queue = S.queue /\ R.xf = S.xf /\ R.done = S.done
      /\ R.eng.idx = S.eng.idx /\ R.eng.offline = S.eng.offline
      /\ R.eng.resets = S.eng.resets /\ R.eng.shutdown = S.eng.shutdown
  <2> HIDE DEF A
  <2>1. /\ R \in States /\ R.queue = A.queue /\ R.xf = A.xf /\ R.done = A.done
        /\ \/ R.eng = [A.eng EXCEPT !.running = FALSE]
           \/ R.eng = A.eng
    BY <1>4, ServiceIdleIs
  <2>2. A.eng \in EngRecs
    BY <1>4 DEF States
  <2> HIDE DEF R
  <2> QED BY <1>4, <2>1, <2>2 DEF EngRecs
<1>6. CASE S.eng.running /\ n = 0
  <2>1. Service(S, wb) = R
    BY <1>6, ServiceIs
  <2> HIDE DEF R
  <2>2. Served(S, R, 0)
    BY <1>2, <1>5
  <2> QED BY <1>1, <1>5, <2>1, <2>2
<1>7. CASE S.eng.running /\ n # 0
  <2>1. Service(S, wb) = ServiceCount(R, n)
    BY <1>7, ServiceIs
  <2> HIDE DEF R
  <2> DEFINE C == [R EXCEPT !.left = (n - R.eng.dequeued) % CountRange]
             B == ServiceTransferList(C)
             F == ServiceFinalTransfer(B)
             T == ServiceResume(F)
             k == Whole(C)
  <2>2. /\ C \in States /\ C.queue = S.queue /\ C.xf = S.xf /\ C.done = <<>>
        /\ C.eng = R.eng
    BY <1>1, <1>5, CountedState
  <2>3. ServiceCount(R, n) = T
    BY ServiceCountIs
  <2> HIDE DEF C, n
  <2>4. /\ k \in 0..len /\ B \in States /\ Served(C, B, k)
    BY <2>2, WholeIs, ServiceTransferListIs, ServedByList
  <2>5. /\ B.queue = SubSeq(S.queue, k + 1, len) /\ B.done = SubSeq(S.queue, 1, k)
        /\ \A t \in Xfers :
             IF \E j \in 1..k : S.queue[j] = t
             THEN \E st \in {"COMPLETED", "FAILED"} : B.xf[t] = [S.xf[t] EXCEPT !.state = st]
             ELSE B.xf[t] = S.xf[t]
        /\ B.eng.idx = S.eng.idx /\ B.eng.offline = S.eng.offline
        /\ B.eng.resets = S.eng.resets /\ (B.eng.shutdown => S.eng.shutdown)
    BY <1>5, <2>2, <2>4 DEF Served
  <2> HIDE DEF B, k
  <2>6. F \in States
    BY <2>4, ServiceFinalTransferIs
  <2>7. B.eng \in EngRecs /\ B.xf \in [Xfers -> XferRecs] /\ B.queue \in Seq(Xfers)
    BY <2>4 DEF States
  <2>8. \E i \in 0..len : Served(S, F, i)
    <3>1. CASE B.queue = <<>>
      <4>1. F = B
        BY <2>4, <3>1, ServiceFinalTransferIs
      <4>2. Served(S, B, k)
        BY <2>5 DEF Served
      <4> QED BY <2>4, <4>1, <4>2
    <3>2. CASE B.queue # <<>>
      <4> DEFINE hd == Head(B.queue)
      <4>1. k < len
        <5>1. k = len => B.queue = <<>>
          BY <1>1, <2>4, <2>5, SubSeqEmpty
        <5> QED BY <1>1, <2>4, <3>2, <5>1
      <4>2. hd = S.queue[k + 1] /\ Tail(B.queue) = SubSeq(S.queue, (k + 1) + 1, len)
        <5>1. k + 1 \in 1..len /\ len \in k + 1..len
          BY <1>1, <2>4, <4>1
        <5>2. /\ Head(SubSeq(S.queue, k + 1, len)) = S.queue[k + 1]
              /\ Tail(SubSeq(S.queue, k + 1, len)) = SubSeq(S.queue, (k + 1) + 1, len)
          <6> DEFINE m == k + 1
          <6>1. m \in 1..len /\ len \in m..len
            BY <5>1
          <6> HIDE DEF m, len
          <6>2. /\ Head(SubSeq(S.queue, m, len)) = S.queue[m]
                /\ Tail(SubSeq(S.queue, m, len)) = SubSeq(S.queue, m + 1, len)
            <7>1. len = Len(S.queue)
              BY DEF len
            <7> QED BY <1>1, <6>1, <7>1, HeadTailOfSubSeq
          <6> QED BY <6>2 DEF m
        <5> QED BY <2>5, <5>2
      <4>3. Append(B.done, hd) = SubSeq(S.queue, 1, k + 1)
        <5>1. k + 1 \in 1..len /\ 1 \in 1..len /\ (k + 1) - 1 = k
          BY <1>1, <2>4, <4>1
        <5>2. SubSeq(S.queue, 1, k + 1) = SubSeq(S.queue, 1, k) \o <<S.queue[k + 1]>>
          BY <1>1, <5>1, SubSeqRecursiveSecond
        <5>3. B.done \in Seq(Xfers) /\ S.queue[k + 1] \in Xfers
          BY <1>1, <2>4, <5>1 DEF States
        <5>4. Append(B.done, S.queue[k + 1]) = B.done \o <<S.queue[k + 1]>>
          BY <5>3, AppendIsConcat
        <5> QED BY <2>5, <4>2, <5>2, <5>4
      <4>4. PICK st \in {"COMPLETED", "FAILED"} : F.xf = [B.xf EXCEPT ![hd].state = st]
        <5>1. F.xf = [B.xf EXCEPT ![hd].state =
                 IF "err" \in B.eng.status.bits \/ B.left < B.xf[hd].num
                 THEN "FAILED" ELSE "COMPLETED"]
          BY <2>4, <3>2, ServiceFinalTransferIs
        <5>2. CASE "err" \in B.eng.status.bits \/ B.left < B.xf[hd].num
          BY <5>1, <5>2
        <5>3. CASE ~("err" \in B.eng.status.bits \/ B.left < B.xf[hd].num)
          BY <5>1, <5>3
        <5> QED BY <5>2, <5>3
      <4>5. /\ F.queue = Tail(B.queue) /\ F.done = Append(B.done, hd)
            /\ \/ F.eng = [B.eng EXCEPT !.running = FALSE]
               \/ F.eng = [B.eng EXCEPT !.dequeued = @ + B.xf[hd].num]
        BY <2>4, <3>2, ServiceFinalTransferIs
      <4> HIDE DEF F, hd
      <4>6. /\ F.eng.idx = S.eng.idx /\ F.eng.offline = S.eng.offline
            /\ F.eng.resets = S.eng.resets /\ (F.eng.shutdown => S.eng.shutdown)
        BY <2>5, <2>7, <4>5 DEF EngRecs
      <4>7. ASSUME NEW t \in Xfers
            PROVE  IF \E j \in 1..k + 1 : S.queue[j] = t
                   THEN \E s \in {"COMPLETED", "FAILED"} :
                          F.xf[t] = [S.xf[t] EXCEPT !.state = s]
                   ELSE F.xf[t] = S.xf[t]
        <5>1. F.xf[t] = IF t = hd THEN [B.xf[t] EXCEPT !.state = st] ELSE B.xf[t]
          BY <2>7, <4>4
        <5>2. (\E j \in 1..k + 1 : S.queue[j] = t) <=>
                (\E j \in 1..k : S.queue[j] = t) \/ t = hd
          BY <1>1, <2>4, <4>2
        <5>3. CASE t = hd
          <6>1. \E s : B.xf[t] = [S.xf[t] EXCEPT !.state = s]
            <7>1. S.xf[t] = [S.xf[t] EXCEPT !.state = S.xf[t].state]
              BY <1>1 DEF XferRecs
            <7> QED BY <2>5, <7>1
          <6>2. [B.xf[t] EXCEPT !.state = st] = [S.xf[t] EXCEPT !.state = st]
            BY <1>1, <6>1 DEF XferRecs
          <6> QED BY <5>1, <5>2, <5>3, <6>2
        <5>4. CASE t # hd
          BY <2>5, <5>1, <5>2, <5>4
        <5> QED BY <5>3, <5>4
      <4>8. Served(S, F, k + 1)
        BY <4>2, <4>3, <4>5, <4>6, <4>7 DEF Served
      <4>9. k + 1 \in 0..len
        BY <1>1, <2>4, <4>1
      <4> QED BY <4>8, <4>9
    <3> QED BY <3>1, <3>2
  <2> HIDE DEF F
  <2>9. T \in States /\ T.queue = F.queue /\ T.xf = F.xf /\ T.done = F.done
    BY <2>6, ServiceResumeIs
  <2>10. /\ T.eng.idx = F.eng.idx /\ T.eng.offline = F.eng.offline
         /\ T.eng.resets = F.eng.resets /\ (T.eng.shutdown => F.eng.shutdown)
    <3>1. \/ T.eng = [F.eng EXCEPT !.running = TRUE, !.shutdown = FALSE, !.dequeued = 0,
                                   !.status = [bits |-> F.hw.bits, busy |-> TRUE]]
          \/ T.eng = [F.eng EXCEPT !.running = FALSE]
          \/ T = F
      BY <2>6, ServiceResumeIs
    <3>2. F.eng \in EngRecs
      BY <2>6 DEF States
    <3> HIDE DEF T
    <3> QED BY <3>1, <3>2 DEF EngRecs
  <2> HIDE DEF T
  <2>11. \E i \in 0..len : Served(S, T, i)
    <3>1. PICK i \in 0..len : Served(S, F, i)
      BY <2>8
    <3>2. Served(S, T, i)
      BY <2>9, <2>10, <3>1 DEF Served
    <3> QED BY <3>2
  <2> QED BY <2>1, <2>3, <2>9, <2>11
<1> QED BY <1>3, <1>6, <1>7

-----------------------------------------------------------------------------
(* Types are kept                                                          *)

LEMMA LoadTypes ==
  ASSUME Types
  PROVE  /\ load.sync \subseteq Reqs /\ load.perf \subseteq Reqs
         /\ load.aio \in Seq(Reqs) /\ load.bad \subseteq Reqs
         /\ load.poll \in BOOLEAN /\ load.errors \in BOOLEAN
         /\ load.giveup \in BOOLEAN /\ load.offline \in BOOLEAN
         /\ load.sync \cap load.perf = {}
         /\ \A i \in DOMAIN load.aio : load.aio[i] \notin load.sync \cup load.perf
         /\ \A i, j \in DOMAIN load.aio : load.aio[i] = load.aio[j] => i = j
         /\ load.perf # {} => DescMax > 1
         /\ Segments \in Nat /\ DOMAIN load.aio = 1..Segments
<1>1. load \in Loads
  BY DEF Types
<1>2. load.aio \in Seq(Reqs)
  BY <1>1, SomeLoad
<1>3. Segments \in Nat /\ DOMAIN load.aio = 1..Segments
  BY <1>2, LenProperties DEF Segments
<1> QED BY <1>1, <1>3, SomeLoad

LEMMA InitTypes == Init => Types
<1> SUFFICES ASSUME Init PROVE Types
  OBVIOUS
<1> USE DEF Init, FileInit, EngineInit
<1>1. load \in Loads /\ queue \in Seq(Xfers) /\ desc_lock \in Reqs \cup {NoReq}
      /\ misuse \in BOOLEAN /\ moved \in [Reqs -> SUBSET Nat]
  BY EmptySeq
<1>2. eng \in EngRecs
  BY Ring, Records DEF EngRecs
<1>3. xf \in [Xfers -> XferRecs] /\ ring \in [Slots -> DescRecs]
  BY Records
<1>4. hw \in HwRecs
  BY Ring, Records DEF HwRecs
<1>5. poll \in PollRecs /\ irq \in [on : BOOLEAN, work : BOOLEAN]
  BY Records DEF PollRecs
<1>6. call \in [Reqs -> CallRecs] /\ \A r \in Reqs : call[r].left <= DescsOf[r]
  BY Requests DEF CallRecs, Stages
<1>7. caio \in CaioRecs /\ perf \in [set : BOOLEAN, failed : BOOLEAN]
  BY DEF CaioRecs
<1> QED BY <1>1, <1>2, <1>3, <1>4, <1>5, <1>6, <1>7 DEF Types

(* The size of the transfer that transfer_init builds next                 *)
PartSize(r) == Fitting(IF call[r].left < DescMax THEN call[r].left ELSE DescMax)

LEMMA PartFits ==
  ASSUME Types, NEW r \in Reqs
  PROVE  /\ PartSize(r) \in 0..DescMax /\ PartSize(r) <= call[r].left
         /\ eng.idx \in Slots /\ eng.idx + PartSize(r) <= DescMax
         /\ call[r].left > 0 => PartSize(r) > 0
         /\ call[r].left \in Nat /\ DescsOf[r] \in Nat /\ call[r].left <= DescsOf[r]
         /\ call[r].left - PartSize(r) \in Nat
<1>1. /\ call[r].left \in Nat /\ call[r].left <= DescsOf[r] /\ DescsOf[r] \in Nat
      /\ eng.idx \in 0..(DescMax - 1) /\ DescMax \in Nat /\ DescMax > 0
  BY Ring, Requests DEF Types, CallRecs, EngRecs
<1> DEFINE left == call[r].left
           idx  == eng.idx
           m    == IF left < DescMax THEN left ELSE DescMax
           n    == PartSize(r)
<1>2. n = IF idx + m >= DescMax THEN DescMax - idx ELSE m
  BY DEF PartSize, Fitting
<1>3. left \in Nat /\ idx \in 0..(DescMax - 1) /\ idx \in Slots
  BY <1>1, Ring
<1> HIDE DEF left, idx, n
<1>4. /\ n \in 0..DescMax /\ n <= left /\ idx + n <= DescMax /\ (left > 0 => n > 0)
      /\ left - n \in Nat
  BY <1>1, <1>2, <1>3
<1> QED BY <1>1, <1>3, <1>4 DEF left, idx, n

LEMMA TransferInitIs ==
  ASSUME Types, NEW r \in Reqs, NEW t \in Xfers, TransferInit(r, t)
  PROVE  LET n == PartSize(r)
         IN  /\ xf' = [xf EXCEPT ![t] =
                         [state |-> "NEW", num |-> n, at |-> eng.idx,
                          last |-> (n = call[r].left), cyclic |-> FALSE, live |-> TRUE]]
             /\ ring' = [s \in Slots |->
                           IF s \in eng.idx..(eng.idx + n - 1)
                           THEN [xfer |-> t,
                                 no |-> DescsOf[r] - call[r].left + s - eng.idx + 1,
                                 last |-> (s = eng.idx + n - 1),
                                 next |-> (s + 1) % DescMax]
                           ELSE ring[s]]
             /\ eng' = [eng EXCEPT !.idx = (eng.idx + n) % DescMax]
             /\ call' = [call EXCEPT ![r].pc = "submit", ![r].left = @ - n]
             /\ UNCHANGED <<load, queue, hw, irq, poll, moved, desc_lock, caio, perf, misuse>>
BY DEF TransferInit, PartSize, Wrapped

LEMMA TransferInitTypes ==
  ASSUME Types, NEW r \in Reqs, NEW t \in Xfers, TransferInit(r, t)
  PROVE  Types'
<1> DEFINE n == PartSize(r)
<1>1. /\ xf' = [xf EXCEPT ![t] =
                  [state |-> "NEW", num |-> n, at |-> eng.idx,
                   last |-> (n = call[r].left), cyclic |-> FALSE, live |-> TRUE]]
      /\ ring' = [s \in Slots |->
                    IF s \in eng.idx..(eng.idx + n - 1)
                    THEN [xfer |-> t,
                          no |-> DescsOf[r] - call[r].left + s - eng.idx + 1,
                          last |-> (s = eng.idx + n - 1),
                          next |-> (s + 1) % DescMax]
                    ELSE ring[s]]
      /\ eng' = [eng EXCEPT !.idx = (eng.idx + n) % DescMax]
      /\ call' = [call EXCEPT ![r].pc = "submit", ![r].left = @ - n]
      /\ UNCHANGED <<load, queue, hw, irq, poll, moved, desc_lock, caio, perf, misuse>>
  BY TransferInitIs
<1>2. /\ n \in 0..DescMax /\ n <= call[r].left /\ eng.idx \in Slots
      /\ eng.idx + n <= DescMax /\ call[r].left \in Nat /\ DescsOf[r] \in Nat
      /\ call[r].left <= DescsOf[r] /\ call[r].left - n \in Nat
  BY PartFits
<1> HIDE DEF n
<1>3. xf' \in [Xfers -> XferRecs]
  <2>1. [state |-> "NEW", num |-> n, at |-> eng.idx, last |-> (n = call[r].left),
         cyclic |-> FALSE, live |-> TRUE] \in XferRecs
    BY <1>2 DEF XferRecs, XStates
  <2> QED BY <1>1, <2>1 DEF Types
<1>4. ring' \in [Slots -> DescRecs]
  <2>1. ASSUME NEW s \in Slots, s \in eng.idx..(eng.idx + n - 1)
        PROVE  [xfer |-> t, no |-> DescsOf[r] - call[r].left + s - eng.idx + 1,
                last |-> (s = eng.idx + n - 1), next |-> (s + 1) % DescMax] \in DescRecs
    <3>1. (s + 1) % DescMax \in Slots
      BY <2>1, Ring, Remainder
    <3>2. DescsOf[r] - call[r].left + s - eng.idx + 1 \in Nat
      <4>1. PICK a \in Nat, b \in Nat : a = DescsOf[r] /\ b = call[r].left /\ b <= a
        BY <1>2
      <4>2. PICK i \in Nat, k \in Nat : i = eng.idx /\ k = s /\ i <= k
        BY <1>2, <2>1, Ring
      <4>3. a - b + k - i + 1 \in Nat
        BY <4>1, <4>2
      <4> QED BY <4>1, <4>2, <4>3
    <3> QED BY <3>1, <3>2 DEF DescRecs
  <2>2. ring \in [Slots -> DescRecs]
    BY DEF Types
  <2> QED BY <1>1, <2>1, <2>2
<1>5. eng' \in EngRecs
  <2>1. (eng.idx + n) % DescMax \in Slots
    BY <1>2, Ring, Remainder
  <2>2. eng \in EngRecs
    BY DEF Types
  <2> QED BY <1>1, <2>1, <2>2 DEF EngRecs
<1>6. call' \in [Reqs -> CallRecs]
  <2>1. call \in [Reqs -> CallRecs]
    BY DEF Types
  <2> QED BY <1>1, <1>2, <2>1, ZenonT(40) DEF CallRecs, Stages
<1>7. \A q \in Reqs : call'[q].left <= DescsOf[q]
  <2>1. call \in [Reqs -> CallRecs] /\ \A q \in Reqs : call[q].left <= DescsOf[q]
    BY DEF Types
  <2>2. call'[r].left = call[r].left - n /\ \A q \in Reqs \ {r} : call'[q] = call[q]
    BY <1>1, <2>1 DEF CallRecs
  <2> TAKE q \in Reqs
  <2>3. CASE q = r
    BY <1>2, <2>2, <2>3, Ring
  <2>4. CASE q # r
    BY <2>1, <2>2, <2>4
  <2> QED BY <2>3, <2>4
<1> QED BY <1>1, <1>3, <1>4, <1>5, <1>6, <1>7 DEF Types

LEMMA QueueXferIs ==
  ASSUME NEW S \in States, NEW t \in Xfers
  PROVE  LET T == QueueXfer(S, t)
         IN  /\ T \in States
             /\ T.queue = Append(S.queue, t)
             /\ T.xf = [S.xf EXCEPT ![t].state = "SUBMITTED"]
             /\ T.done = S.done /\ T.left = S.left
             /\ S.eng.running => T.eng = S.eng /\ T.hw = S.hw
             /\ ~S.eng.running =>
                  /\ T.eng = [S.eng EXCEPT !.running = TRUE, !.shutdown = FALSE,
                                           !.dequeued = 0,
                                           !.status = [bits |-> S.hw.bits, busy |-> TRUE]]
                  /\ T.hw = DeviceStart(S.hw, T.xf[Head(T.queue)].at)
<1> DEFINE x == [S.xf EXCEPT ![t].state = "SUBMITTED"]
           q == Append(S.queue, t)
           Q == [S EXCEPT !.xf[t].state = "SUBMITTED", !.queue = Append(@, t)]
           T == QueueXfer(S, t)
<1>1. /\ S.xf \in [Xfers -> XferRecs] /\ S.queue \in Seq(Xfers)
      /\ S = [eng |-> S.eng, queue |-> S.queue, xf |-> S.xf, hw |-> S.hw,
              done |-> S.done, left |-> S.left]
  BY DEF States
<1>2. x \in [Xfers -> XferRecs]
  BY <1>1 DEF XferRecs, XStates
<1>3. q \in Seq(Xfers) /\ q # <<>>
  BY <1>1, AppendProperties
<1>4. Q = [S EXCEPT !.xf = x, !.queue = q]
  BY <1>1
<1>5. T = IF Q.eng.running THEN Q ELSE EngineStart(Q)
  BY DEF QueueXfer
<1> HIDE DEF x, q, Q, T
<1>6. /\ Q \in States /\ Q.queue = q /\ Q.xf = x /\ Q.eng = S.eng /\ Q.hw = S.hw
      /\ Q.done = S.done /\ Q.left = S.left
  <2>1. Q \in States
    BY <1>2, <1>3, <1>4 DEF States
  <2> QED BY <1>1, <1>4, <2>1
<1>7. CASE S.eng.running
  BY <1>5, <1>6, <1>7 DEF x, q, T
<1>8. CASE ~S.eng.running
  <2>1. T = EngineStart(Q)
    BY <1>5, <1>6, <1>8
  <2>2. /\ T \in States /\ T.queue = q /\ T.xf = x /\ T.done = S.done /\ T.left = S.left
        /\ T.eng = [S.eng EXCEPT !.running = TRUE, !.shutdown = FALSE, !.dequeued = 0,
                                 !.status = [bits |-> S.hw.bits, busy |-> TRUE]]
        /\ T.hw = DeviceStart(S.hw, x[Head(q)].at)
    BY <1>3, <1>6, <1>8, <2>1, EngineStartIs
  <2> QED BY <1>8, <2>2 DEF x, q, T
<1> QED BY <1>7, <1>8

LEMMA TransferAbortIs ==
  ASSUME NEW S \in States, NEW t \in Xfers
  PROVE  LET T == TransferAbort(S, t)
         IN  /\ T \in States
             /\ T.queue = IF S.queue # <<>> /\ Head(S.queue) = t
                          THEN Tail(S.queue) ELSE S.queue
             /\ T.xf = [S.xf EXCEPT ![t].state = IF @ = "SUBMITTED" THEN "ABORTED" ELSE @]
             /\ T.done = S.done /\ T.left = S.left /\ T.eng = S.eng /\ T.hw = S.hw
<1> DEFINE x == [S.xf EXCEPT ![t].state = IF @ = "SUBMITTED" THEN "ABORTED" ELSE @]
           q == IF S.queue # <<>> /\ Head(S.queue) = t THEN Tail(S.queue) ELSE S.queue
           T == TransferAbort(S, t)
<1>1. /\ S.xf \in [Xfers -> XferRecs] /\ S.queue \in Seq(Xfers)
      /\ S = [eng |-> S.eng, queue |-> S.queue, xf |-> S.xf, hw |-> S.hw,
              done |-> S.done, left |-> S.left]
  BY DEF States
<1>2. x \in [Xfers -> XferRecs]
  <2>1. S.xf[t] \in XferRecs
    BY <1>1
  <2>2. (IF S.xf[t].state = "SUBMITTED" THEN "ABORTED" ELSE S.xf[t].state) \in XStates
    BY <2>1 DEF XferRecs, XStates
  <2> QED BY <1>1, <2>1, <2>2 DEF XferRecs
<1>3. q \in Seq(Xfers)
  BY <1>1, HeadTailProperties
<1>4. T = [S EXCEPT !.xf = x, !.queue = q]
  BY <1>1 DEF TransferAbort
<1> HIDE DEF x, q, T
<1>5. T \in States
  BY <1>2, <1>3, <1>4 DEF States
<1>6. /\ T.queue = q /\ T.xf = x /\ T.eng = S.eng /\ T.hw = S.hw
      /\ T.done = S.done /\ T.left = S.left
  BY <1>1, <1>4
<1> QED BY <1>5, <1>6 DEF x, q, T

(* What a caller that gives up leaves behind                               *)
LEMMA AbortedIs ==
  ASSUME Types, NEW t \in Xfers
  PROVE  LET T == EngineStop(TransferAbort(StatusRead(E, FALSE), t))
         IN  /\ T \in States
             /\ T.queue = IF queue # <<>> /\ Head(queue) = t THEN Tail(queue) ELSE queue
             /\ T.xf = [xf EXCEPT ![t].state = IF @ = "SUBMITTED" THEN "ABORTED" ELSE @]
             /\ T.eng = [eng EXCEPT !.status = [bits |-> hw.bits, busy |-> hw.busy],
                                    !.running = FALSE]
             /\ T.hw = [hw EXCEPT !.run = FALSE]
<1> DEFINE A == StatusRead(E, FALSE)
           B == TransferAbort(A, t)
           T == EngineStop(B)
<1>1. E \in States /\ E.queue = queue /\ E.xf = xf /\ E.eng = eng /\ E.hw = hw
  BY StateOfE DEF E
<1>2. /\ A \in States /\ A.queue = queue /\ A.xf = xf
      /\ A.eng = [eng EXCEPT !.status = [bits |-> hw.bits, busy |-> hw.busy]]
      /\ A.hw = [hw EXCEPT !.bits = @]
  BY <1>1, StatusReadIs
<1>3. A.hw = hw
  <2>1. hw \in HwRecs
    BY DEF Types
  <2> QED BY <1>2, <2>1 DEF HwRecs
<1> HIDE DEF A
<1>4. /\ B \in States
      /\ B.queue = IF queue # <<>> /\ Head(queue) = t THEN Tail(queue) ELSE queue
      /\ B.xf = [xf EXCEPT ![t].state = IF @ = "SUBMITTED" THEN "ABORTED" ELSE @]
      /\ B.eng = A.eng /\ B.hw = hw
  BY <1>2, <1>3, TransferAbortIs
<1> HIDE DEF B
<1>5. /\ T \in States /\ T.queue = B.queue /\ T.xf = B.xf
      /\ T.eng = [A.eng EXCEPT !.running = FALSE] /\ T.hw = [hw EXCEPT !.run = FALSE]
  BY <1>4, EngineStopIs
<1>6. [A.eng EXCEPT !.running = FALSE] =
        [eng EXCEPT !.status = [bits |-> hw.bits, busy |-> hw.busy], !.running = FALSE]
  <2>1. eng \in EngRecs
    BY DEF Types
  <2> QED BY <1>2, <2>1 DEF EngRecs
<1> QED BY <1>4, <1>5, <1>6 DEF A, B, T

LEMMA ClearedIs ==
  ASSUME Types, NEW ts \in SUBSET Xfers
  PROVE  Cleared(ring, ts) \in [Slots -> DescRecs]
<1>1. ring \in [Slots -> DescRecs] /\ NoDesc \in DescRecs
  BY Records DEF Types
<1> QED BY <1>1 DEF Cleared

LEMMA CountedIs ==
  ASSUME NEW S \in States, NEW r \in Reqs
  PROVE  Counted(S, r) \in Nat
<1>1. S.xf[<<r, 1>>] \in XferRecs /\ S.xf[<<r, 2>>] \in XferRecs
  BY Pairs DEF States
<1>2. S.xf[<<r, 1>>].num \in Nat /\ S.xf[<<r, 2>>].num \in Nat
  BY <1>1, Ring DEF XferRecs
<1> QED BY <1>2 DEF Counted

LEMMA ReapedIs ==
  ASSUME NEW S, NEW R \in SUBSET Reqs
  PROVE  UNION {Reaped(S, r) : r \in R} \subseteq Xfers
<1>1. \A r \in Reqs : Reaped(S, r) \subseteq Xfers
  BY DEF Reaped, Xfers
<1> QED BY <1>1, Zenon

LEMMA NotifiedIs ==
  ASSUME Types, NEW S \in States
  PROVE  Notified(S) \subseteq Reqs
<1>1. \A j \in DOMAIN S.done : S.done[j] \in Xfers
  <2>1. S.done \in Seq(Xfers)
    BY DEF States
  <2> QED BY <2>1, LenProperties, ElementOfSeq
<1>2. \A t \in Xfers : t[1] \in Reqs
  BY PairOf
<1> QED BY <1>1, <1>2 DEF Notified

LEMMA HandledTypes ==
  ASSUME Types, NEW S \in States, Handled(S), load' = load,
         irq' \in [on : BOOLEAN, work : BOOLEAN], poll' \in PollRecs,
         UNCHANGED <<moved, desc_lock, perf>>
  PROVE  Types'
<1> DEFINE R == Notified(S)
           gone == UNION {Reaped(S, r) : r \in R}
<1>1. R \subseteq Reqs /\ gone \subseteq Xfers
  BY NotifiedIs, ReapedIs
<1>2. /\ S.eng \in EngRecs /\ S.queue \in Seq(Xfers) /\ S.hw \in HwRecs
      /\ S.xf \in [Xfers -> XferRecs]
  BY DEF States
<1>3. /\ eng' = S.eng /\ queue' = S.queue /\ hw' = S.hw
      /\ xf' = [t \in Xfers |-> IF t[1] \in R THEN [S.xf[t] EXCEPT !.live = FALSE]
                                ELSE S.xf[t]]
      /\ ring' = Cleared(ring, gone)
  BY DEF Handled
<1>4. ring' \in [Slots -> DescRecs]
  BY <1>1, <1>3, ClearedIs
<1>5. xf' \in [Xfers -> XferRecs]
  <2> HIDE DEF R
  <2>1. ASSUME NEW t \in Xfers PROVE [S.xf[t] EXCEPT !.live = FALSE] \in XferRecs
    BY <1>2 DEF XferRecs
  <2> QED BY <1>2, <1>3, <2>1
<1>6. call' \in [Reqs -> CallRecs] /\ \A r \in Reqs : call'[r].left = call[r].left
  <2>1. call' = [r \in Reqs |->
                    IF r \in R
                    THEN [call[r] EXCEPT
                            !.pc = "returned", !.pinned = FALSE,
                            !.done = Counted(S, r),
                            !.failed = Counted(S, r) # DescsOf[r],
                            !.res = IF Counted(S, r) = DescsOf[r] THEN "all"
                                    ELSE IF Counted(S, r) > 0 THEN "some"
                                    ELSE "error"]
                    ELSE call[r]]
    BY DEF Handled
  <2> HIDE DEF R
  <2>2. ASSUME NEW r \in Reqs
        PROVE  /\ call'[r] \in CallRecs
               /\ call'[r].left = call[r].left
    <3>1. call[r] \in CallRecs
      BY DEF Types
    <3>2. Counted(S, r) \in Nat
      BY CountedIs
    <3> DEFINE b == Counted(S, r) # DescsOf[r]
               a == IF Counted(S, r) = DescsOf[r] THEN "all"
                    ELSE IF Counted(S, r) > 0 THEN "some" ELSE "error"
    <3>3. b \in BOOLEAN /\ a \in {"none", "all", "some", "error"}
      OBVIOUS
    <3>4. call'[r] = IF r \in R
                     THEN [call[r] EXCEPT !.pc = "returned", !.pinned = FALSE,
                             !.done = Counted(S, r), !.failed = b, !.res = a]
                     ELSE call[r]
      BY <2>1
    <3> HIDE DEF a, b
    <3> QED BY <3>1, <3>2, <3>3, <3>4, ZenonT(40) DEF CallRecs, Stages
  <2> QED BY <2>1, <2>2
<1>7. caio' \in CaioRecs
  <2>1. \E n \in Nat :
          caio' = caio \/ caio' = [caio EXCEPT !.cmpl = n, !.st = "freed", !.notified = @ + 1]
                       \/ caio' = [caio EXCEPT !.cmpl = n]
    <3>1. CASE R = {} \/ caio.st = "freed"
      BY <3>1 DEF Handled
    <3>2. CASE ~(R = {} \/ caio.st = "freed")
      <4>1. caio' = IF CallComplete(caio.cmpl + Cardinality(R))
                    THEN [caio EXCEPT !.cmpl = caio.cmpl + Cardinality(R), !.st = "freed",
                                      !.notified = @ + 1]
                    ELSE [caio EXCEPT !.cmpl = caio.cmpl + Cardinality(R)]
        BY <3>2 DEF Handled
      <4>2. caio.cmpl + Cardinality(R) \in Nat
        <5>1. IsFiniteSet(R)
          <6>1. S.done \in Seq(Xfers)
            BY DEF States
          <6>2. Len(S.done) \in Nat /\ DOMAIN S.done = 1..Len(S.done)
            BY <6>1, LenProperties
          <6>3. IsFiniteSet(1..Len(S.done))
            BY <6>2, FS_Interval
          <6> DEFINE J == {j \in DOMAIN S.done : S.xf[S.done[j]].last /\ IsAio(S.done[j][1])}
                     f == [j \in J |-> S.done[j][1]]
          <6>4. IsFiniteSet(J)
            BY <6>2, <6>3, FS_Subset
          <6>5. f \in Surjection(J, R)
            <7>1. R = {S.done[j][1] : j \in J}
              BY DEF Notified
            <7> HIDE DEF R
            <7> QED BY <7>1 DEF Surjection
          <6> QED BY <6>4, <6>5, FS_Surjection
        <5>2. Cardinality(R) \in Nat
          BY <5>1, FS_CardinalityType
        <5>3. caio.cmpl \in Nat
          BY DEF Types, CaioRecs
        <5> QED BY <5>2, <5>3
      <4> QED BY <4>1, <4>2
    <3> QED BY <3>1, <3>2
  <2>2. PICK n \in Nat :
          caio' = caio \/ caio' = [caio EXCEPT !.cmpl = n, !.st = "freed", !.notified = @ + 1]
                       \/ caio' = [caio EXCEPT !.cmpl = n]
    BY <2>1
  <2>3. caio \in CaioRecs
    BY DEF Types
  <2>4. caio.notified + 1 \in Nat
    BY <2>3 DEF CaioRecs
  <2> QED BY <2>2, <2>3, <2>4 DEF CaioRecs
<1>8. misuse' \in BOOLEAN
  BY DEF Handled, Types
<1>9. \A r \in Reqs : call'[r].left <= DescsOf[r]
  BY <1>6 DEF Types
<1> QED BY <1>2, <1>3, <1>4, <1>5, <1>6, <1>7, <1>8, <1>9 DEF Types

LEMMA BecomesTypes ==
  ASSUME NEW S \in States, Becomes(S)
  PROVE  /\ eng' \in EngRecs /\ queue' \in Seq(Xfers) /\ hw' \in HwRecs
         /\ xf' \in [Xfers -> XferRecs]
BY DEF Becomes, States

(* A step of a caller that changes its own record only                     *)
LEMMA CallTypes ==
  ASSUME Types, NEW r \in Reqs, NEW c \in CallRecs, c.left <= DescsOf[r],
         call' = [call EXCEPT ![r] = c]
  PROVE  /\ call' \in [Reqs -> CallRecs]
         /\ \A q \in Reqs : call'[q].left <= DescsOf[q]
<1>1. call \in [Reqs -> CallRecs] /\ \A q \in Reqs : call[q].left <= DescsOf[q]
  BY DEF Types
<1> QED BY <1>1

LEMMA MoveTypes ==
  ASSUME Types, NEW r \in Reqs, NEW pc \in Stages, call' = [call EXCEPT ![r].pc = pc]
  PROVE  /\ call' \in [Reqs -> CallRecs]
         /\ \A q \in Reqs : call'[q].left <= DescsOf[q]
<1>1. call \in [Reqs -> CallRecs] /\ \A q \in Reqs : call[q].left <= DescsOf[q]
  BY DEF Types
<1>2. call' \in [Reqs -> CallRecs]
  BY <1>1 DEF CallRecs
<1>3. \A q \in Reqs : call'[q].left = call[q].left
  BY <1>1 DEF CallRecs
<1> QED BY <1>1, <1>2, <1>3

LEMMA CallerTypes ==
  ASSUME Types, NEW r \in Reqs,
         \/ Enter(r) \/ EnterFails(r) \/ CallStep(r) \/ GiveUp(r)
  PROVE  Types'
<1>1. call[r] \in CallRecs /\ call[r].left <= DescsOf[r] /\ call \in [Reqs -> CallRecs]
      /\ \A q \in Reqs : call[q].left <= DescsOf[q]
  BY DEF Types
<1>2. <<r, 1>> \in Xfers
  BY Pairs
<1>3. E \in States
  BY StateOfE
<1>4. CASE Enter(r)
  <2>1. call' \in [Reqs -> CallRecs]
    BY <1>1, <1>4 DEF Enter, CallRecs, Stages
  <2>2. \A q \in Reqs : call'[q].left = call[q].left
    BY <1>1, <1>4 DEF Enter, CallRecs
  <2> QED BY <1>1, <1>4, <2>1, <2>2 DEF Enter, engineVars, Types
<1>5. CASE EnterFails(r)
  <2>1. PICK leak \in BOOLEAN :
          call' = [call EXCEPT ![r].pc = "returned", ![r].res = "error",
                               ![r].failed = TRUE, ![r].pinned = leak /\ r \in load.bad]
    BY <1>5 DEF EnterFails
  <2> DEFINE b == leak /\ r \in load.bad
  <2>2. b \in BOOLEAN
    OBVIOUS
  <2>3. call' = [call EXCEPT ![r].pc = "returned", ![r].res = "error",
                             ![r].failed = TRUE, ![r].pinned = b]
    BY <2>1
  <2> HIDE DEF b
  <2>4. call' \in [Reqs -> CallRecs]
    BY <1>1, <2>2, <2>3 DEF CallRecs, Stages
  <2>5. \A q \in Reqs : call'[q].left = call[q].left
    BY <1>1, <2>3 DEF CallRecs
  <2> QED BY <1>1, <1>5, <2>4, <2>5 DEF EnterFails, engineVars, Types
<1>6. CASE LockDesc(r)
  <2>1. call' = [call EXCEPT ![r].pc = "build"]
    BY <1>6 DEF LockDesc, Move
  <2>2. "build" \in Stages
    BY DEF Stages
  <2>3. /\ call' \in [Reqs -> CallRecs] /\ \A q \in Reqs : call'[q].left <= DescsOf[q]
    BY <2>1, <2>2, MoveTypes
  <2> QED BY <1>6, <2>3 DEF LockDesc, engineVars, Types
<1>7. CASE Build(r)
  BY <1>2, <1>7, TransferInitTypes DEF Build
<1>8. CASE Submit(r)
  <2>1. Becomes(QueueXfer(E, <<r, 1>>))
    BY <1>8 DEF Submit
  <2>2. QueueXfer(E, <<r, 1>>) \in States
    BY <1>2, <1>3, QueueXferIs
  <2>3. /\ eng' \in EngRecs /\ queue' \in Seq(Xfers) /\ hw' \in HwRecs
        /\ xf' \in [Xfers -> XferRecs]
    BY <2>1, <2>2, BecomesTypes
  <2>4. (IF load.poll THEN "queued" ELSE "wait") \in Stages
    BY DEF Stages
  <2>5. /\ call' \in [Reqs -> CallRecs] /\ \A q \in Reqs : call'[q].left <= DescsOf[q]
    BY <1>8, <2>4, MoveTypes DEF Submit
  <2> QED BY <1>8, <2>3, <2>5 DEF Submit, Types
<1>9. CASE SubmitRefused(r)
  <2>1. call' \in [Reqs -> CallRecs]
    BY <1>1, <1>9 DEF SubmitRefused, CallRecs, Stages
  <2>2. \A q \in Reqs : call'[q].left = call[q].left
    BY <1>1, <1>9 DEF SubmitRefused, CallRecs
  <2> QED BY <1>1, <1>9, <2>1, <2>2 DEF SubmitRefused, engineVars, Types
<1>10. CASE Wake(r) \/ GiveUp(r)
  <2>1. call' = [call EXCEPT ![r].pc = "check"]
    BY <1>10 DEF Wake, GiveUp, Move
  <2>2. "check" \in Stages
    BY DEF Stages
  <2>3. /\ call' \in [Reqs -> CallRecs] /\ \A q \in Reqs : call'[q].left <= DescsOf[q]
    BY <2>1, <2>2, MoveTypes
  <2> QED BY <1>10, <2>3 DEF Wake, GiveUp, engineVars, Types
<1>11. CASE Check(r)
  <2> DEFINE t == <<r, 1>>
             state == xf[t].state
             S == IF state = "SUBMITTED"
                  THEN EngineStop(TransferAbort(StatusRead(E, FALSE), t)) ELSE E
             more == state = "COMPLETED" /\ call[r].left > 0
             p == IF more THEN "build" ELSE "unmap"
             d == IF state = "COMPLETED" THEN call[r].done + xf[t].num ELSE call[r].done
             b == state # "COMPLETED"
  <2>1. S \in States
    BY <1>2, <1>3, AbortedIs
  <2>2. Becomes(S) /\ ring' = Cleared(ring, {t})
    BY <1>11 DEF Check
  <2>3. /\ eng' \in EngRecs /\ queue' \in Seq(Xfers) /\ hw' \in HwRecs
        /\ xf' \in [Xfers -> XferRecs]
    <3> HIDE DEF S
    <3> QED BY <2>1, <2>2, BecomesTypes
  <2>4. ring' \in [Slots -> DescRecs]
    BY <1>2, <2>2, ClearedIs
  <2>5. call' = [call EXCEPT ![r].pc = p, ![r].done = d, ![r].failed = b]
    BY <1>1, <1>11 DEF Check
  <2>6. p \in Stages /\ d \in Nat /\ b \in BOOLEAN
    <3>1. xf[t].num \in Nat /\ call[r].done \in Nat
      BY <1>1, <1>2, Ring DEF Types, XferRecs, CallRecs
    <3> QED BY <3>1 DEF Stages
  <2> HIDE DEF p, d, b
  <2>7. call' \in [Reqs -> CallRecs]
    BY <1>1, <2>5, <2>6 DEF CallRecs
  <2>8. \A q \in Reqs : call'[q].left = call[q].left
    BY <1>1, <2>5 DEF CallRecs
  <2>9. desc_lock' \in Reqs \cup {NoReq}
    BY <1>11 DEF Check
  <2>10. UNCHANGED <<load, irq, poll, moved, caio, perf, misuse>>
    BY <1>11 DEF Check
  <2> QED BY <1>1, <2>3, <2>4, <2>7, <2>8, <2>9, <2>10 DEF Types
<1>12. CASE Return(r)
  <2> DEFINE a == IF call[r].done = DescsOf[r] THEN "all"
                  ELSE IF call[r].done > 0 THEN "some" ELSE "error"
  <2>1. a \in {"none", "all", "some", "error"}
    OBVIOUS
  <2>2. call' = [call EXCEPT ![r].pc = "returned", ![r].pinned = FALSE, ![r].res = a]
    BY <1>12 DEF Return
  <2> HIDE DEF a
  <2>3. call' \in [Reqs -> CallRecs]
    BY <1>1, <2>1, <2>2 DEF CallRecs, Stages
  <2>4. \A q \in Reqs : call'[q].left = call[q].left
    BY <1>1, <2>2 DEF CallRecs
  <2>5. xf' \in [Xfers -> XferRecs]
    <3>1. xf \in [Xfers -> XferRecs] /\ xf' = [xf EXCEPT ![<<r, 1>>].live = FALSE]
      BY <1>12 DEF Return, Types
    <3> QED BY <1>2, <3>1 DEF XferRecs
  <2> QED BY <1>1, <1>12, <2>3, <2>4, <2>5 DEF Return, Types
<1>13. CASE WakeThread(r)
  <2>1. call' = [call EXCEPT ![r].pc = "wait"]
    BY <1>13 DEF WakeThread, Move
  <2>2. "wait" \in Stages
    BY DEF Stages
  <2>3. /\ call' \in [Reqs -> CallRecs] /\ \A q \in Reqs : call'[q].left <= DescsOf[q]
    BY <2>1, <2>2, MoveTypes
  <2>4. poll' \in PollRecs
    BY <1>13 DEF WakeThread, Wakeup, Types, PollRecs
  <2> QED BY <1>13, <2>3, <2>4 DEF WakeThread, Types
<1> QED BY <1>4, <1>5, <1>6, <1>7, <1>8, <1>9, <1>10, <1>11, <1>12, <1>13 DEF CallStep

LEMMA CurrentIs ==
  ASSUME NEW r \in Reqs
  PROVE  Current(r) \in {<<r, 1>>, <<r, 2>>} /\ Current(r) \in Xfers
BY Pairs DEF Current

LEMMA SegmentIs ==
  ASSUME Types, AioOpen
  PROVE  load.aio[caio.next] \in Reqs /\ IsAio(load.aio[caio.next])
         /\ caio.next \in DOMAIN load.aio
<1>1. caio.next \in 1..Segments
  BY LoadTypes DEF AioOpen, Types, CaioRecs
<1>2. load.aio \in Seq(Reqs) /\ DOMAIN load.aio = 1..Segments
  BY LoadTypes
<1>3. load.aio[caio.next] \in Reqs
  BY <1>1, <1>2, ElementOfSeq DEF Segments
<1> QED BY <1>1, <1>2, <1>3 DEF IsAio

(* Freeing the transfer of a file operation keeps the table's type.             *)
LEMMA DeadTypes ==
  ASSUME NEW f \in [Xfers -> XferRecs], NEW t \in Xfers
  PROVE  [f EXCEPT ![t].live = FALSE] \in [Xfers -> XferRecs]
<1>1. [f[t] EXCEPT !.live = FALSE] \in XferRecs
  BY DEF XferRecs
<1> QED BY <1>1

LEMMA AioTypes ==
  ASSUME Types, AioEnter \/ AioStep
  PROVE  Types'
<1>1. /\ call \in [Reqs -> CallRecs] /\ \A q \in Reqs : call[q].left <= DescsOf[q]
      /\ caio \in CaioRecs /\ xf \in [Xfers -> XferRecs] /\ poll \in PollRecs
  BY DEF Types
<1>2. CASE AioEnter
  <2>1. caio' \in CaioRecs
    BY <1>1, <1>2 DEF AioEnter, CaioRecs
  <2> QED BY <1>2, <2>1 DEF AioEnter, engineVars, Types
<1>3. CASE AioSegment
  <2> DEFINE r == load.aio[caio.next]
  <2>1. r \in Reqs /\ call' = [call EXCEPT ![r].pc = "build", ![r].pinned = TRUE]
    BY <1>3, SegmentIs DEF AioSegment
  <2> HIDE DEF r
  <2>2. call' \in [Reqs -> CallRecs]
    BY <1>1, <2>1, ZenonT(40) DEF CallRecs, Stages
  <2>3. \A q \in Reqs : call'[q].left = call[q].left
    BY <1>1, <2>1 DEF CallRecs
  <2> QED BY <1>1, <1>3, <2>2, <2>3 DEF AioSegment, engineVars, Types
<1>4. CASE AioSegmentBad
  <2>1. PICK st \in {"alive", "freed"} : caio' = [caio EXCEPT !.ret = "error", !.st = st]
    BY <1>4 DEF AioSegmentBad
  <2>2. caio' \in CaioRecs
    BY <1>1, <2>1 DEF CaioRecs
  <2> QED BY <1>4, <2>2 DEF AioSegmentBad, engineVars, Types
<1>5. CASE AioReturn
  <2>1. caio' \in CaioRecs
    BY <1>1, <1>5 DEF AioReturn, CaioRecs
  <2>2. poll' \in PollRecs
    BY <1>1, <1>5 DEF AioReturn, Wakeup, PollRecs
  <2> QED BY <1>5, <2>1, <2>2 DEF AioReturn, Types
<1>6. ASSUME NEW r \in Reqs, AioBuild(r) PROVE Types'
  BY <1>6, CurrentIs, TransferInitTypes DEF AioBuild
<1>7. ASSUME NEW r \in Reqs, AioOverrun(r) PROVE Types'
  <2>1. call' = [call EXCEPT ![r].pc = "overrun"] /\ "overrun" \in Stages
    BY <1>7 DEF AioOverrun, Move, Stages
  <2>2. /\ call' \in [Reqs -> CallRecs] /\ \A q \in Reqs : call'[q].left <= DescsOf[q]
    BY <2>1, MoveTypes
  <2> QED BY <1>7, <2>2 DEF AioOverrun, engineVars, Types
<1>8. ASSUME NEW r \in Reqs, AioSubmit(r) PROVE Types'
  <2> DEFINE p == IF call[r].left > 0 THEN "build" ELSE "flying"
             m == IF call[r].left > 0 THEN caio.next ELSE caio.next + 1
             t == Current(r)
  <2>1. t \in Xfers /\ E \in States
    BY CurrentIs, StateOfE
  <2>2. Becomes(QueueXfer(E, t))
    BY <1>8 DEF AioSubmit
  <2> HIDE DEF t
  <2>3. QueueXfer(E, t) \in States
    BY <2>1, QueueXferIs
  <2>4. /\ eng' \in EngRecs /\ queue' \in Seq(Xfers) /\ hw' \in HwRecs
        /\ xf' \in [Xfers -> XferRecs]
    BY <2>2, <2>3, BecomesTypes
  <2>5. call' = [call EXCEPT ![r].pc = p] /\ p \in Stages
    BY <1>8 DEF AioSubmit, Stages
  <2>6. /\ call' \in [Reqs -> CallRecs] /\ \A q \in Reqs : call'[q].left <= DescsOf[q]
    BY <2>5, MoveTypes
  <2>7. caio' = [caio EXCEPT !.next = m]
    BY <1>8 DEF AioSubmit
  <2>8. m \in Nat \ {0}
    BY <1>1 DEF CaioRecs
  <2> HIDE DEF m
  <2>9. caio' \in CaioRecs
    BY <1>1, <2>7, <2>8 DEF CaioRecs
  <2> QED BY <1>8, <2>4, <2>6, <2>9 DEF AioSubmit, Types
<1>9. ASSUME NEW r \in Reqs, AioRefused(r) PROVE Types'
  <2>1. call' = [call EXCEPT ![r].pc = "lost"] /\ "lost" \in Stages
    BY <1>9 DEF AioRefused, Stages
  <2>2. /\ call' \in [Reqs -> CallRecs] /\ \A q \in Reqs : call'[q].left <= DescsOf[q]
    BY <2>1, MoveTypes
  <2>3. xf' = [xf EXCEPT ![<<r, 1>>].live = FALSE, ![<<r, 2>>].live = FALSE]
    BY <1>9 DEF AioRefused
  <2> DEFINE half == [xf EXCEPT ![<<r, 1>>].live = FALSE]
  <2>4. xf' \in [Xfers -> XferRecs]
    <3>1. xf' = [half EXCEPT ![<<r, 2>>].live = FALSE]
      BY <2>3
    <3>2. half \in [Xfers -> XferRecs]
      BY <1>1, Pairs, DeadTypes
    <3> HIDE DEF half
    <3> QED BY <3>1, <3>2, Pairs, DeadTypes
  <2>5. caio' \in CaioRecs
    BY <1>1, <1>9 DEF AioRefused, CaioRecs
  <2> QED BY <1>9, <2>2, <2>4, <2>5 DEF AioRefused, Types
<1>10. CASE AioSegmentLost
  <2> DEFINE r == load.aio[caio.next]
  <2>1. r \in Reqs /\ call' = [call EXCEPT ![r].pc = "lost", ![r].pinned = TRUE]
    BY <1>10, SegmentIs DEF AioSegmentLost
  <2> HIDE DEF r
  <2>2. call' \in [Reqs -> CallRecs]
    BY <1>1, <2>1, ZenonT(40) DEF CallRecs, Stages
  <2>3. \A q \in Reqs : call'[q].left = call[q].left
    BY <1>1, <2>1 DEF CallRecs
  <2>4. caio' \in CaioRecs
    BY <1>1, <1>10 DEF AioSegmentLost, CaioRecs
  <2> QED BY <1>1, <1>10, <2>2, <2>3, <2>4 DEF AioSegmentLost, engineVars, Types
<1> QED BY <1>2, <1>3, <1>4, <1>5, <1>6, <1>7, <1>8, <1>9, <1>10 DEF AioStep

LEMMA ServiceTypes ==
  ASSUME Types, ServiceWork \/ ServicePoll
  PROVE  Types'
<1>1. E \in States /\ E.done = <<>> /\ poll.wb \in WbRecs /\ NoWb \in WbRecs
  BY StateOfE, Records DEF E, Types, PollRecs
<1>2. CASE ServiceWork
  <2>1. Service(E, NoWb) \in States
    BY <1>1, ServiceServes
  <2>2. irq' \in [on : BOOLEAN, work : BOOLEAN]
    <3>1. eng.offline \in BOOLEAN
      BY DEF Types, EngRecs
    <3> QED BY <1>2, <3>1 DEF ServiceWork
  <2> QED BY <1>2, <2>1, <2>2, HandledTypes DEF ServiceWork, Types
<1>3. CASE ServicePoll
  <2>1. Service(E, poll.wb) \in States
    BY <1>1, ServiceServes
  <2>2. poll' \in PollRecs
    <3>1. poll \in PollRecs /\ NoWb \in WbRecs
      BY <1>1 DEF Types
    <3> QED BY <1>3, <3>1 DEF ServicePoll, PollRecs
  <2> QED BY <1>3, <2>1, <2>2, HandledTypes DEF ServicePoll, Types
<1> QED BY <1>2, <1>3

LEMMA PerfDescsIs ==
  ASSUME Types, load.perf # {}
  PROVE  DescMax > 1 /\ PerfDescs \in Nat /\ PerfDescs > 0 /\ PerfDescs <= DescMax
<1>1. DescMax > 1
  BY LoadTypes
<1> QED BY <1>1, Ring DEF PerfDescs

LEMMA PerfRingIs ==
  ASSUME Types, NEW r \in Reqs, load.perf # {}
  PROVE  PerfRing(r) \in [Slots -> DescRecs]
<1>1. <<r, 1>> \in Xfers /\ ring \in [Slots -> DescRecs]
  BY Pairs DEF Types
<1>2. PerfDescs \in Nat /\ PerfDescs > 0 /\ PerfDescs <= DescMax
  BY PerfDescsIs
<1>3. ASSUME NEW s \in Slots
      PROVE  [xfer |-> <<r, 1>>, no |-> 0, last |-> FALSE,
              next |-> (s + 1) % PerfDescs] \in DescRecs
  <2>1. s + 1 \in Int
    BY Ring
  <2>2. (s + 1) % PerfDescs \in 0..(PerfDescs - 1)
    BY <1>2, <2>1, Remainder
  <2>3. (s + 1) % PerfDescs \in Slots
    BY <1>2, <2>2, Ring
  <2> QED BY <1>1, <2>3 DEF DescRecs
<1>4. \A s \in Slots : PerfRing(r)[s] \in DescRecs
  BY <1>1, <1>3 DEF PerfRing
<1>5. DOMAIN PerfRing(r) = Slots /\ PerfRing(r) = [s \in DOMAIN PerfRing(r) |-> PerfRing(r)[s]]
  BY DEF PerfRing
<1> QED BY <1>4, <1>5

LEMMA PerfTypes ==
  ASSUME Types, NEW r \in Reqs,
         PerfStart(r) \/ PerfStartRefused(r) \/ PerfStartFails(r) \/ PerfStop(r)
  PROVE  Types'
<1>1. /\ call \in [Reqs -> CallRecs] /\ \A q \in Reqs : call[q].left <= DescsOf[q]
      /\ perf \in [set : BOOLEAN, failed : BOOLEAN] /\ xf \in [Xfers -> XferRecs]
      /\ ring \in [Slots -> DescRecs] /\ queue \in Seq(Xfers)
      /\ eng \in EngRecs /\ hw \in HwRecs
  BY DEF Types
<1>2. <<r, 1>> \in Xfers /\ E \in States
  BY Pairs, StateOfE
<1>3. CASE PerfStart(r)
  <2>1. DescMax > 1 /\ PerfDescs \in Nat /\ PerfDescs > 0 /\ PerfDescs <= DescMax
    <3>1. load.perf # {}
      BY <1>3, Zenon DEF PerfStart
    <3> QED BY <3>1, PerfDescsIs
  <2> DEFINE T == [state |-> "NEW", num |-> PerfDescs, at |-> 0, last |-> FALSE,
                   cyclic |-> TRUE, live |-> TRUE]
             F == [E EXCEPT !.xf[<<r, 1>>] = T]
             x == [xf EXCEPT ![<<r, 1>>] = T]
  <2>2. T \in XferRecs
    BY <2>1, Ring DEF XferRecs, XStates
  <2> HIDE DEF T
  <2>3. F = [E EXCEPT !.xf = x] /\ x \in [Xfers -> XferRecs]
    BY <1>1, <1>2, <2>2 DEF E
  <2> HIDE DEF F, x
  <2>4. F \in States
    BY <1>2, <2>3 DEF States
  <2>5. Becomes(QueueXfer(F, <<r, 1>>))
    BY <1>3 DEF PerfStart, F, T
  <2>6. QueueXfer(F, <<r, 1>>) \in States
    BY <1>2, <2>4, QueueXferIs
  <2>7. /\ eng' \in EngRecs /\ queue' \in Seq(Xfers) /\ hw' \in HwRecs
        /\ xf' \in [Xfers -> XferRecs]
    BY <2>5, <2>6, BecomesTypes
  <2>8. ring' \in [Slots -> DescRecs]
    <3>1. ring' = PerfRing(r) /\ load.perf # {}
      BY <1>3, Zenon DEF PerfStart
    <3> QED BY <3>1, PerfRingIs
  <2>9. call' = [call EXCEPT ![r].pc = "flying", ![r].pinned = TRUE]
    BY <1>3, Zenon DEF PerfStart
  <2>10. /\ call' \in [Reqs -> CallRecs]
         /\ \A q \in Reqs : call'[q].left = call[q].left
    <3>1. call \in [Reqs -> CallRecs]
      BY <1>1
    <3> QED BY <2>9, <3>1, ZenonT(40) DEF CallRecs, Stages
  <2>11. perf' \in [set : BOOLEAN, failed : BOOLEAN]
    BY <1>1, <1>3 DEF PerfStart
  <2>12. UNCHANGED <<load, irq, poll, moved, desc_lock, caio, misuse>>
    BY <1>3 DEF PerfStart
  <2> QED BY <1>1, <2>7, <2>8, <2>9, <2>10, <2>11, <2>12 DEF Types
<1>4. CASE PerfStartFails(r)
  BY <1>1, <1>4 DEF PerfStartFails, engineVars, Types
<1>5. CASE PerfStop(r)
  <2> DEFINE t == Head(queue)
             c == xf[t].cyclic
             p == IF c THEN "stopped" ELSE call[r].pc
             b == call[r].pinned /\ ~c
  <2>1. queue # <<>> /\ t \in Xfers /\ Tail(queue) \in Seq(Xfers)
    BY <1>1, <1>5, HeadTailProperties DEF PerfStop
  <2>2. /\ eng' = EngineStop(E).eng /\ hw' = EngineStop(E).hw
        /\ queue' = IF c THEN Tail(queue) ELSE queue
        /\ xf' = [xf EXCEPT ![t].live = FALSE]
        /\ call' = [call EXCEPT ![r].pc = p, ![r].pinned = b]
        /\ perf' = [perf EXCEPT !.set = FALSE]
        /\ UNCHANGED <<load, ring, irq, poll, moved, desc_lock, caio, misuse>>
    BY <1>1, <1>5 DEF PerfStop
  <2>3. p \in Stages /\ b \in BOOLEAN
    BY <1>1 DEF CallRecs, Stages
  <2> HIDE DEF t, c, p, b
  <2>4. eng' \in EngRecs /\ hw' \in HwRecs
    BY <1>2, <2>2, EngineStopIs DEF States
  <2>5. xf' \in [Xfers -> XferRecs]
    BY <1>1, <2>1, <2>2 DEF XferRecs
  <2>6. call' \in [Reqs -> CallRecs]
    BY <1>1, <2>2, <2>3, ZenonT(40) DEF CallRecs
  <2>7. \A q \in Reqs : call'[q].left = call[q].left
    BY <1>1, <2>2 DEF CallRecs
  <2>8. queue' \in Seq(Xfers) /\ perf' \in [set : BOOLEAN, failed : BOOLEAN]
    BY <1>1, <2>1, <2>2
  <2> QED BY <1>1, <2>2, <2>4, <2>5, <2>6, <2>7, <2>8 DEF Types
<1>6. CASE PerfStartRefused(r)
  <2>1. call' = [call EXCEPT ![r].pc = "lost"] /\ "lost" \in Stages
    BY <1>6 DEF PerfStartRefused, Stages
  <2>2. /\ call' \in [Reqs -> CallRecs] /\ \A q \in Reqs : call'[q].left <= DescsOf[q]
    BY <2>1, MoveTypes
  <2>3. ring' \in [Slots -> DescRecs]
    <3>1. ring' = PerfRing(r) /\ load.perf # {}
      BY <1>6, Zenon DEF PerfStartRefused
    <3> QED BY <3>1, PerfRingIs
  <2>4. perf' \in [set : BOOLEAN, failed : BOOLEAN] /\ misuse' \in BOOLEAN
    BY <1>6 DEF PerfStartRefused
  <2>5. UNCHANGED <<load, eng, queue, xf, hw, irq, poll, moved, desc_lock, caio>>
    BY <1>6 DEF PerfStartRefused
  <2> QED BY <2>2, <2>3, <2>4, <2>5 DEF Types
<1> QED BY <1>3, <1>4, <1>5, <1>6

LEMMA PollTypes ==
  ASSUME Types, ChannelIrq \/ PollCheck \/ PollPick \/ PollRead \/ PollTimeout,
         UNCHANGED fileVars
  PROVE  Types'
<1>1. poll \in PollRecs /\ hw \in HwRecs /\ NoWb \in WbRecs
  BY Records DEF Types
<1>2. CASE ChannelIrq
  BY <1>2 DEF ChannelIrq, Types, fileVars
<1>3. CASE PollPick
  <2>1. PICK n \in IF queue = <<>> THEN WildCounts ELSE {xf[Head(queue)].num} :
          poll' = [poll EXCEPT !.schedule = FALSE, !.expect = n,
                               !.pc = IF n = 0 THEN "idle" ELSE "monitor"]
    BY <1>3 DEF PollPick
  <2>2. n \in Nat
    <3>1. CASE queue = <<>>
      BY <2>1, <3>1, Ring
    <3>2. CASE queue # <<>>
      <4>1. Head(queue) \in Xfers
        BY <3>2, HeadTailProperties DEF Types
      <4>2. xf[Head(queue)].num \in Nat
        BY <4>1, Ring DEF Types, XferRecs
      <4> QED BY <2>1, <3>2, <4>2
    <3> QED BY <3>1, <3>2
  <2>3. poll' \in PollRecs
    BY <1>1, <2>1, <2>2 DEF PollRecs
  <2> QED BY <1>3, <2>3 DEF PollPick, Types, fileVars
<1>4. CASE PollRead
  <2>1. hw' = [hw EXCEPT !.wb = NoWb]
    BY <1>4 DEF PollRead
  <2>2. hw' \in HwRecs
    BY <1>1, <2>1 DEF HwRecs
  <2>3. PICK pc \in {"monitor", "service"}, b \in BOOLEAN :
          poll' = [poll EXCEPT !.wb = hw.wb, !.pc = pc, !.lost = b]
    <3>1. PICK pc \in {"monitor", "service"} :
            poll' = [poll EXCEPT !.wb = hw.wb, !.pc = pc,
                                 !.lost = @ \/ (pc = "monitor" /\ EnoughForHead)]
      BY <1>4 DEF PollRead
    <3>2. (poll.lost \/ (pc = "monitor" /\ EnoughForHead)) \in BOOLEAN
      OBVIOUS
    <3> QED BY <3>1, <3>2
  <2>4. hw.wb \in WbRecs
    BY <1>1 DEF HwRecs
  <2>5. poll' \in PollRecs
    BY <1>1, <2>3, <2>4 DEF PollRecs
  <2> QED BY <1>4, <2>2, <2>5 DEF PollRead, Types, fileVars
<1>5. CASE PollTimeout
  <2>1. poll' \in PollRecs
    BY <1>1, <1>5 DEF PollTimeout, PollRecs
  <2> QED BY <1>5, <2>1 DEF PollTimeout, Types, fileVars
<1>6. CASE PollCheck
  <2>1. poll' \in PollRecs
    BY <1>1, <1>6 DEF PollCheck, PollRecs
  <2> QED BY <1>6, <2>1 DEF PollCheck, Types, fileVars
<1> QED BY <1>2, <1>3, <1>4, <1>5, <1>6

LEMMA HwTypes ==
  ASSUME Types, HwNext, UNCHANGED fileVars
  PROVE  Types'
<1>1. /\ hw \in HwRecs /\ ring \in [Slots -> DescRecs] /\ hw.pos \in Slots
      /\ NoDesc \in DescRecs /\ hw.cur \in DescRecs /\ hw.count \in Nat
      /\ hw.bits \subseteq Bits
  BY Records DEF Types, HwRecs
<1>2. CASE HwFetch
  <2>1. hw' = [hw EXCEPT !.cur = ring[hw.pos]] /\ ring[hw.pos] \in DescRecs
    BY <1>1, <1>2 DEF HwFetch
  <2>2. hw' \in HwRecs
    BY <1>1, <2>1 DEF HwRecs
  <2> QED BY <1>2, <2>2 DEF HwFetch, Types, fileVars
<1>3. CASE HwError
  <2> DEFINE w == IF load.poll THEN [count |-> hw.count, err |-> TRUE] ELSE hw.wb
             b == hw.bits \cup {"err"}
  <2>1. w \in WbRecs
    BY <1>1 DEF WbRecs, HwRecs
  <2>2. hw' = [hw EXCEPT !.busy = FALSE, !.cur = NoDesc, !.bits = b, !.wb = w]
    BY <1>3 DEF HwError
  <2>3. b \subseteq Bits
    BY <1>1 DEF Bits
  <2> HIDE DEF w, b
  <2>4. hw' \in HwRecs
    BY <1>1, <2>1, <2>2, <2>3 DEF HwRecs
  <2> QED BY <1>3, <2>4 DEF HwError, Types, fileVars
<1>4. CASE HwRest
  <2>1. hw' \in HwRecs
    BY <1>1, <1>4 DEF HwRest, HwRecs
  <2> QED BY <1>4, <2>1 DEF HwRest, Types, fileVars
<1>5. CASE HwStep
  <2> DEFINE d == hw.cur
             n == IF xf[d.xfer].cyclic /\ hw.count = DescMax THEN hw.count ELSE hw.count + 1
             b == IF d.last THEN hw.bits \cup {"stopped"} ELSE hw.bits
             w == IF d.last /\ load.poll THEN [count |-> n, err |-> FALSE] ELSE hw.wb
             y == hw.run /\ ~d.last
  <2>1. d # NoDesc
    BY <1>5 DEF HwStep
  <2>2. d.xfer \in Xfers /\ d.no \in Nat /\ d.last \in BOOLEAN /\ d.next \in Slots
    BY <1>1, <2>1, Records
  <2>3. n \in Nat
    BY <1>1
  <2>4. /\ hw' = [hw EXCEPT !.pos = d.next, !.cur = NoDesc, !.count = n, !.busy = y,
                            !.bits = b, !.wb = w]
        /\ moved' = IF xf[d.xfer].cyclic THEN moved
                    ELSE [moved EXCEPT ![d.xfer[1]] = @ \cup {d.no}]
        /\ UNCHANGED <<load, eng, queue, xf, ring, irq, poll>>
    BY <1>5 DEF HwStep
  <2>5. b \subseteq Bits /\ y \in BOOLEAN
    BY <1>1, <2>2 DEF Bits, HwRecs
  <2>6. w \in WbRecs
    <3> HIDE DEF n
    <3> QED BY <1>1, <2>3 DEF WbRecs, HwRecs
  <2>7. d.xfer[1] \in Reqs
    BY <2>2, PairOf
  <2> HIDE DEF d, n, b, w, y
  <2>8. hw' \in HwRecs
    <3>1. hw = [run |-> hw.run, busy |-> hw.busy, pos |-> hw.pos, cur |-> hw.cur,
                count |-> hw.count, bits |-> hw.bits, wb |-> hw.wb, late |-> hw.late]
      BY <1>1 DEF HwRecs
    <3>2. hw' = [run |-> hw.run, busy |-> y, pos |-> d.next, cur |-> NoDesc,
                 count |-> n, bits |-> b, wb |-> w, late |-> hw.late]
      BY <2>4, <3>1
    <3>3. hw.run \in BOOLEAN /\ hw.late \in SUBSET Xfers
      BY <1>1 DEF HwRecs
    <3> QED BY <1>1, <2>2, <2>3, <2>5, <2>6, <3>2, <3>3 DEF HwRecs
  <2>9. moved' \in [Reqs -> SUBSET Nat]
    <3>1. moved \in [Reqs -> SUBSET Nat]
      BY DEF Types
    <3> QED BY <2>2, <2>4, <2>7, <3>1
  <2> QED BY <2>4, <2>8, <2>9 DEF Types, fileVars
<1>6. CASE HwLate
  <2>1. PICK t \in hw.late : hw' = [hw EXCEPT !.late = @ \ {t}]
    BY <1>6 DEF HwLate
  <2>2. hw.late \ {t} \in SUBSET Xfers
    BY <1>1 DEF HwRecs
  <2>3. hw' \in HwRecs
    BY <1>1, <2>1, <2>2 DEF HwRecs
  <2> QED BY <1>6, <2>3 DEF HwLate, Types, fileVars
<1> QED BY <1>2, <1>3, <1>4, <1>5, <1>6 DEF HwNext

LEMMA ResetTypes ==
  ASSUME Types, Offline \/ Online
  PROVE  Types'
<1>1. eng \in EngRecs /\ hw \in HwRecs /\ irq \in [on : BOOLEAN, work : BOOLEAN]
      /\ E \in States /\ load.poll \in BOOLEAN /\ NoWb \in WbRecs /\ E.eng = eng /\ E.hw = hw
  BY StateOfE, LoadTypes, Records DEF Types, E
<1>2. CASE Offline
  <2>1. /\ EngineStop(E).eng = [eng EXCEPT !.running = FALSE]
        /\ EngineStop(E).hw = [hw EXCEPT !.run = FALSE]
    BY <1>1, EngineStopIs
  <2>2. eng' = [[eng EXCEPT !.running = FALSE] EXCEPT !.offline = TRUE, !.shutdown = TRUE,
                                                      !.resets = @ + 1]
    BY <1>2, <2>1 DEF Offline
  <2>3. eng.resets + 1 \in 0..MaxResets
    BY <1>1, <1>2, Ring DEF Offline, EngRecs
  <2>4. eng' \in EngRecs
    BY <1>1, <2>2, <2>3 DEF EngRecs
  <2>5. hw' \in HwRecs
    BY <1>1, <1>2, <2>1 DEF Offline, HwRecs
  <2> QED BY <1>1, <1>2, <2>4, <2>5 DEF Offline, Types, fileVars
<1>3. CASE Online
  <2>1. eng' \in EngRecs
    BY <1>1, <1>3 DEF Online, EngRecs
  <2>2. hw' \in HwRecs
    BY <1>1, <1>3 DEF Online, HwRecs
  <2> QED BY <1>1, <1>3, <2>1, <2>2 DEF Online, Types, fileVars
<1> QED BY <1>2, <1>3

LEMMA TypesKept == Types /\ [Next]_vars => Types'
<1> SUFFICES ASSUME Types, [Next]_vars PROVE Types'
  OBVIOUS
<1>1. CASE UNCHANGED vars
  BY <1>1 DEF vars, engineVars, fileVars, Types
<1>2. CASE Next
  BY <1>2, CallerTypes, AioTypes, ServiceTypes, PerfTypes, PollTypes, HwTypes, ResetTypes
     DEF Next
<1> QED BY <1>1, <1>2

LEMMA TypesHold == Spec => []Types
BY InitTypes, TypesKept, PTL DEF Spec

-----------------------------------------------------------------------------
(* Linked: a request, its two transfers and the queue                      *)

Queued == {queue[i] : i \in DOMAIN queue}
Aios   == {load.aio[i] : i \in DOMAIN load.aio}
Back   == {r \in Aios : call[r].pc = "returned"}

(* A call that waits has one transfer, and owns desc_lock from building it *)
(* to looking at it.  Only what waits is queued, unless it gave up behind  *)
(* another one.                                                            *)
SyncLink(r) ==
  LET a  == xf[<<r, 1>>]
      pc == call[r].pc
  IN  /\ xf[<<r, 2>>].state = "NEW"
      /\ pc \in {"idle", "mapped", "build", "submit", "queued", "wait", "check", "unmap", "returned"}
      /\ pc \in {"idle", "mapped"} => a.state = "NEW"
      /\ pc \in {"idle", "mapped", "build"} => call[r].left > 0
      /\ pc = "build" => a.state \in {"NEW", "COMPLETED"}
      /\ pc = "submit" => a.state = "NEW" /\ a.num > 0
      /\ pc \in {"queued", "wait", "check"} => a.state \in {"SUBMITTED", "COMPLETED", "FAILED"} /\ a.num > 0
      /\ pc = "check" /\ ~load.giveup => a.state # "SUBMITTED"
      /\ pc \in {"unmap", "returned"} => a.state # "SUBMITTED"
      /\ desc_lock = r <=> pc \in {"build", "submit", "queued", "wait", "check"}
      /\ HeadGivesUp =>
           /\ a.state = "SUBMITTED" <=> <<r, 1>> \in Queued
           /\ pc \in {"submit", "queued", "wait", "check"} => a.live

(* A segment has up to two transfers, the second of which is used when the *)
(* first does not hold all of it.                                          *)
AioLink(r) ==
  LET a  == xf[<<r, 1>>]
      b  == xf[<<r, 2>>]
      pc == call[r].pc
  IN  /\ desc_lock # r
      /\ pc \in {"idle", "build", "submit", "flying", "lost", "overrun", "returned"}
      /\ b.num = 0 => b.state = "NEW" /\ ~b.last
      /\ b.num > 0 => a.state # "NEW" /\ ~a.last
      /\ pc = "idle" => a.state = "NEW"
      /\ pc \in {"idle", "build"} => call[r].left > 0
      /\ pc \in {"idle", "build", "overrun"} => ~a.last /\ ~b.last
      /\ pc = "submit" /\ a.state = "NEW" =>
           a.num > 0 /\ (a.last <=> call[r].left = 0) /\ (HeadGivesUp => a.live)
      /\ pc = "submit" /\ a.state # "NEW" =>
           /\ b.state = "NEW" /\ b.num > 0 /\ (b.last <=> call[r].left = 0)
           /\ HeadGivesUp => b.live
      /\ a.state # "NEW" => a.num > 0
      /\ pc = "flying" => call[r].left = 0 /\ a.state # "NEW"
      /\ pc = "lost" => a.state = "NEW" \/ (b.state = "NEW" /\ b.num > 0)
      /\ pc = "returned" => <<r, 1>> \notin Queued /\ <<r, 2>> \notin Queued
      /\ HeadGivesUp /\ pc # "lost" =>
           /\ <<r, 1>> \in Queued => a.live
           /\ <<r, 2>> \in Queued => b.live

(* What remains is the performance test, or a request nobody makes.        *)
OtherLink(r) ==
  /\ desc_lock # r
  /\ xf[<<r, 2>>].state = "NEW"
  /\ call[r].pc \in {"idle", "flying", "stopped", "lost"}
  /\ call[r].pc = "idle" => xf[<<r, 1>>].state = "NEW"
  /\ r \notin load.perf => call[r].pc = "idle"

Link(r) ==
  /\ r \in load.sync => SyncLink(r)
  /\ IsAio(r) => AioLink(r)
  /\ r \notin load.sync /\ ~IsAio(r) => OtherLink(r)

(* The queue holds no transfer twice, and a second part behind the first.  *)
Lined ==
  \A i, j \in DOMAIN queue :
    i < j /\ queue[i][1] = queue[j][1] => queue[i][2] = 1 /\ queue[j][2] = 2

InFlight == \A t \in Queued : xf[t].state \in {"SUBMITTED", "ABORTED"}

(* The segments that are counted have been completed.                      *)
CaioLink ==
  /\ caio.cmpl <= Cardinality(Back)
  /\ caio.st = "freed" /\ Aios \cap load.bad = {} => caio.cmpl = Len(load.aio)

Linked == (\A r \in Reqs : Link(r)) /\ Lined /\ InFlight /\ CaioLink

LEMMA KindKept ==
  ASSUME load' = load
  PROVE  /\ \A r : IsAio(r)' <=> IsAio(r)
         /\ HeadGivesUp' <=> HeadGivesUp
         /\ Aios' = Aios
BY DEF IsAio, HeadGivesUp, Aios

LEMMA Kinds ==
  ASSUME Types
  PROVE  /\ load.sync \subseteq Reqs /\ load.perf \subseteq Reqs /\ Aios \subseteq Reqs
         /\ \A r : r \in Aios <=> IsAio(r)
         /\ \A r \in load.sync : r \notin load.perf /\ ~IsAio(r)
         /\ \A r \in load.perf : ~IsAio(r)
         /\ load.giveup \in BOOLEAN
<1>1. load \in Loads
  BY DEF Types
<1>2. /\ load.sync \subseteq Reqs /\ load.perf \subseteq Reqs
      /\ load.aio \in Seq(Reqs) /\ load.sync \cap load.perf = {}
      /\ \A i \in DOMAIN load.aio : load.aio[i] \notin load.sync \cup load.perf
      /\ load.giveup \in BOOLEAN
  BY <1>1, SomeLoad
<1>3. \A i \in DOMAIN load.aio : load.aio[i] \in Reqs
  BY <1>2, LenProperties, ElementOfSeq
<1>4. \A r : r \in Aios <=> IsAio(r)
  BY DEF Aios, IsAio
<1>5. Aios \subseteq Reqs
  BY <1>3 DEF Aios
<1>6. \A r : IsAio(r) => r \notin load.sync \cup load.perf
  BY <1>2 DEF IsAio
<1> QED BY <1>2, <1>4, <1>5, <1>6

LEMMA QueuedXfers ==
  ASSUME Types
  PROVE  /\ Queued \subseteq Xfers
         /\ Len(queue) \in Nat /\ DOMAIN queue = 1..Len(queue)
         /\ queue # <<>> <=> Len(queue) > 0
         /\ queue # <<>> => Head(queue) = queue[1] /\ Head(queue) \in Queued
<1>1. queue \in Seq(Xfers)
  BY DEF Types
<1>2. Len(queue) \in Nat /\ DOMAIN queue = 1..Len(queue)
  BY <1>1, LenProperties
<1>3. \A i \in DOMAIN queue : queue[i] \in Xfers
  BY <1>1, <1>2, ElementOfSeq
<1>4. queue # <<>> <=> Len(queue) > 0
  BY <1>1, <1>2, EmptySeq
<1>5. queue # <<>> => Head(queue) = queue[1]
  BY <1>1, HeadTailProperties
<1>6. queue # <<>> => queue[1] \in Queued
  BY <1>2, <1>4 DEF Queued
<1> QED BY <1>2, <1>3, <1>4, <1>5, <1>6 DEF Queued

(* The first k transfers leave the queue.                                  *)
Dropped(k) ==
  /\ Len(queue') = Len(queue) - k
  /\ \A i \in 1..(Len(queue) - k) : queue'[i] = queue[i + k]

Front(k) == {queue[i] : i \in 1..k}

LEMMA DroppedIs ==
  ASSUME Types, Types', NEW k \in 0..Len(queue), Dropped(k), Lined
  PROVE  /\ Lined'
         /\ Queued' = Queued \ Front(k) /\ Front(k) \subseteq Queued
         /\ \A r : <<r, 2>> \in Front(k) => <<r, 1>> \notin Queued'
<1> DEFINE n == Len(queue)
<1>1. n \in Nat /\ DOMAIN queue = 1..n /\ DOMAIN queue' = 1..(n - k)
  <2>1. queue' \in Seq(Xfers)
    BY DEF Types
  <2>2. Len(queue') \in Nat /\ DOMAIN queue' = 1..Len(queue')
    BY <2>1, LenProperties
  <2> QED BY <2>2, QueuedXfers DEF Dropped
<1>2. \A i \in 1..(n - k) : i + k \in 1..n /\ i + k > k /\ queue'[i] = queue[i + k]
  BY <1>1 DEF Dropped
<1>3. \A j \in 1..n : j > k => j - k \in 1..(n - k) /\ queue'[j - k] = queue[j]
  <2> TAKE j \in 1..n
  <2> HAVE j > k
  <2>1. j - k \in 1..(n - k) /\ (j - k) + k = j
    BY <1>1
  <2> QED BY <1>2, <2>1
<1>4. \A i \in 1..n : queue[i] \in Xfers
  BY <1>1, QueuedXfers DEF Queued
<1>5. \A i, j \in 1..n : i < j => queue[i] # queue[j]
  <2> TAKE i, j \in 1..n
  <2> HAVE i < j
  <2> SUFFICES ASSUME queue[i] = queue[j] PROVE FALSE
    OBVIOUS
  <2>1. queue[i][2] = 1 /\ queue[j][2] = 2
    BY <1>1 DEF Lined
  <2> QED BY <2>1
<1>6. Lined'
  <2> SUFFICES ASSUME NEW i \in 1..(n - k), NEW j \in 1..(n - k), i < j,
                      queue'[i][1] = queue'[j][1]
               PROVE  queue'[i][2] = 1 /\ queue'[j][2] = 2
    BY <1>1 DEF Lined
  <2>1. i + k \in 1..n /\ j + k \in 1..n /\ i + k < j + k
    BY <1>1, <1>2
  <2> QED BY <1>1, <1>2, <2>1 DEF Lined
<1>7. Front(k) \subseteq Queued
  BY <1>1 DEF Front, Queued
<1>8. ASSUME NEW t \in Queued' PROVE t \in Queued /\ t \notin Front(k)
  <2>1. PICK i \in 1..(n - k) : t = queue'[i]
    BY <1>1 DEF Queued
  <2>2. t = queue[i + k] /\ i + k \in 1..n /\ i + k > k
    BY <1>2, <2>1
  <2>3. ASSUME NEW j \in 1..k, t = queue[j] PROVE FALSE
    <3>1. j \in 1..n /\ j < i + k
      BY <1>1, <2>2
    <3> QED BY <1>5, <2>2, <2>3, <3>1
  <2> QED BY <1>1, <2>2, <2>3 DEF Queued, Front
<1>9. ASSUME NEW t \in Queued, t \notin Front(k) PROVE t \in Queued'
  <2>1. PICK j \in 1..n : t = queue[j]
    BY <1>1 DEF Queued
  <2>2. j > k
    BY <1>1, <1>9, <2>1 DEF Front
  <2> QED BY <1>1, <1>3, <2>1, <2>2 DEF Queued
<1>10. ASSUME NEW r, <<r, 2>> \in Front(k) PROVE <<r, 1>> \notin Queued'
  <2> SUFFICES ASSUME <<r, 1>> \in Queued' PROVE FALSE
    OBVIOUS
  <2>1. PICK i \in 1..(n - k) : <<r, 1>> = queue'[i]
    BY <1>1 DEF Queued
  <2>2. PICK j \in 1..k : <<r, 2>> = queue[j]
    BY <1>10 DEF Front
  <2>3. queue[i + k] = <<r, 1>> /\ i + k \in 1..n /\ j \in 1..n /\ j < i + k
    BY <1>1, <1>2, <2>1, <2>2
  <2>4. queue[j][1] = queue[i + k][1] /\ queue[j][2] = 2
    BY <2>2, <2>3
  <2> QED BY <1>1, <2>3, <2>4 DEF Lined
<1> QED BY <1>6, <1>7, <1>8, <1>9, <1>10

LEMMA TailDrops ==
  ASSUME Types, queue # <<>>, queue' = Tail(queue)
  PROVE  1 \in 0..Len(queue) /\ Dropped(1) /\ Front(1) = {Head(queue)}
<1>1. queue \in Seq(Xfers)
  BY DEF Types
<1>2. /\ Tail(queue) \in Seq(Xfers) /\ Len(Tail(queue)) = Len(queue) - 1
      /\ \A i \in 1..Len(Tail(queue)) : Tail(queue)[i] = queue[i + 1]
      /\ Head(queue) = queue[1]
  BY <1>1, HeadTailProperties
<1>3. Len(queue) \in Nat /\ Len(queue) > 0
  BY QueuedXfers
<1>4. Dropped(1)
  BY <1>2, <1>3 DEF Dropped
<1>5. Front(1) = {Head(queue)}
  BY <1>2 DEF Front
<1> QED BY <1>3, <1>4, <1>5

LEMMA Appended ==
  ASSUME Types, NEW t \in Xfers, queue' = Append(queue, t), Lined,
         \A k \in {1, 2} : <<t[1], k>> \in Queued => k = 1 /\ t[2] = 2
  PROVE  /\ Lined' /\ Queued' = Queued \cup {t}
         /\ queue # <<>> => Head(queue') = Head(queue)
         /\ queue = <<>> => Head(queue') = t
         /\ queue' # <<>>
<1> DEFINE n == Len(queue)
<1>1. n \in Nat /\ DOMAIN queue = 1..n /\ queue \in Seq(Xfers)
  BY QueuedXfers DEF Types
<1>2. /\ queue' \in Seq(Xfers) /\ Len(queue') = n + 1 /\ queue' # <<>>
      /\ \A i \in 1..n : queue'[i] = queue[i]
      /\ queue'[n + 1] = t
  BY <1>1, AppendProperties
<1>3. DOMAIN queue' = 1..(n + 1)
  BY <1>2, LenProperties
<1>4. Queued' = Queued \cup {t}
  <2>1. Queued' = {queue'[i] : i \in 1..(n + 1)}
    BY <1>3 DEF Queued
  <2>2. Queued = {queue[i] : i \in 1..n}
    BY <1>1 DEF Queued
  <2>3. ASSUME NEW u \in Queued' PROVE u \in Queued \cup {t}
    <3>1. PICK i \in 1..(n + 1) : u = queue'[i]
      BY <2>1
    <3>2. i \in 1..n \/ i = n + 1
      BY <1>1
    <3> QED BY <1>2, <2>2, <3>1, <3>2
  <2>4. ASSUME NEW u \in Queued \cup {t} PROVE u \in Queued'
    <3>1. CASE u = t
      <4>1. n + 1 \in 1..(n + 1)
        BY <1>1
      <4> QED BY <1>2, <2>1, <3>1, <4>1
    <3>2. CASE u \in Queued
      <4>1. PICK i \in 1..n : u = queue[i]
        BY <2>2, <3>2
      <4>2. i \in 1..(n + 1)
        BY <1>1
      <4> QED BY <1>2, <2>1, <4>1, <4>2
    <3> QED BY <2>4, <3>1, <3>2
  <2> QED BY <2>3, <2>4
<1>5. Lined'
  <2> SUFFICES ASSUME NEW i \in 1..(n + 1), NEW j \in 1..(n + 1), i < j,
                      queue'[i][1] = queue'[j][1]
               PROVE  queue'[i][2] = 1 /\ queue'[j][2] = 2
    BY <1>3 DEF Lined
  <2>1. i \in 1..n
    BY <1>1
  <2>2. CASE j \in 1..n
    BY <1>1, <1>2, <2>1, <2>2 DEF Lined
  <2>3. CASE j = n + 1
    <3>1. queue[i] \in Xfers /\ queue[i] \in Queued
      BY <1>1, <2>1, QueuedXfers DEF Queued
    <3>2. queue[i] = <<queue[i][1], queue[i][2]>> /\ queue[i][2] \in {1, 2}
      BY <3>1, PairOf
    <3>3. queue[i][1] = t[1]
      BY <1>2, <2>1, <2>3
    <3> QED BY <1>2, <2>1, <2>3, <3>1, <3>2, <3>3
  <2> QED BY <1>1, <2>2, <2>3
<1>6. (queue # <<>> => Head(queue') = Head(queue)) /\ (queue = <<>> => Head(queue') = t)
  <2>1. Head(queue') = queue'[1]
    BY <1>2, HeadTailProperties
  <2>2. CASE queue # <<>>
    <3>1. Head(queue) = queue[1] /\ 1 \in 1..n
      BY <1>1, <2>2, QueuedXfers
    <3> QED BY <1>2, <2>1, <2>2, <3>1
  <2>3. CASE queue = <<>>
    <3>1. n = 0
      BY <2>3, EmptySeq
    <3> QED BY <1>2, <2>1, <2>3, <3>1
  <2> QED BY <2>2, <2>3
<1> QED BY <1>2, <1>4, <1>5, <1>6

-----------------------------------------------------------------------------
(* Steps that concern one request                                          *)

LEMMA LinkFrame ==
  ASSUME NEW r \in Reqs, Link(r), load' = load,
         call'[r].pc = call[r].pc, call'[r].left = call[r].left,
         xf'[<<r, 1>>] = xf[<<r, 1>>], xf'[<<r, 2>>] = xf[<<r, 2>>],
         <<r, 1>> \in Queued' <=> <<r, 1>> \in Queued,
         <<r, 2>> \in Queued' <=> <<r, 2>> \in Queued,
         desc_lock' = r <=> desc_lock = r
  PROVE  Link(r)'
<1>1. (IsAio(r)' <=> IsAio(r)) /\ (HeadGivesUp' <=> HeadGivesUp)
  BY KindKept
<1>2. SyncLink(r) => SyncLink(r)'
  BY <1>1 DEF SyncLink
<1>3. AioLink(r) => AioLink(r)'
  BY <1>1 DEF AioLink
<1>4. OtherLink(r) => OtherLink(r)'
  BY DEF OtherLink
<1> QED BY <1>1, <1>2, <1>3, <1>4 DEF Link

OnlyOf(r) ==
  \A q \in Reqs \ {r} :
    /\ call'[q] = call[q]
    /\ xf'[<<q, 1>>] = xf[<<q, 1>>] /\ xf'[<<q, 2>>] = xf[<<q, 2>>]
    /\ <<q, 1>> \in Queued' <=> <<q, 1>> \in Queued
    /\ <<q, 2>> \in Queued' <=> <<q, 2>> \in Queued
    /\ desc_lock' = q <=> desc_lock = q

LEMMA LinksKept ==
  ASSUME \A q \in Reqs : Link(q), load' = load, NEW r \in Reqs, OnlyOf(r), Link(r)'
  PROVE  \A q \in Reqs : Link(q)'
<1> SUFFICES ASSUME NEW q \in Reqs, q # r PROVE Link(q)'
  OBVIOUS
<1> QED BY LinkFrame DEF OnlyOf

LEMMA CaioKept ==
  ASSUME CaioLink, load' = load, caio'.cmpl = caio.cmpl,
         caio'.st = "freed" => caio.st = "freed" \/ Aios \cap load.bad # {},
         \A r \in Aios : call'[r].pc = "returned" <=> call[r].pc = "returned"
  PROVE  CaioLink'
<1>1. Aios' = Aios
  BY KindKept
<1>2. Back' = Back
  BY <1>1 DEF Back
<1> QED BY <1>1, <1>2 DEF CaioLink

LEMMA AiosFinite ==
  ASSUME Types
  PROVE  /\ IsFiniteSet(Aios) /\ Cardinality(Aios) \in Nat
         /\ Cardinality(Aios) <= Len(load.aio) /\ Len(load.aio) \in Nat
<1>1. load.aio \in Seq(Reqs) /\ Len(load.aio) \in Nat /\ DOMAIN load.aio = 1..Len(load.aio)
  BY LoadTypes, LenProperties
<1> DEFINE n == Len(load.aio)
           f == [i \in 1..n |-> load.aio[i]]
<1>2. IsFiniteSet(1..n) /\ Cardinality(1..n) = n
  <2>1. IsFiniteSet(1..n) /\ Cardinality(1..n) = IF 1 > n THEN 0 ELSE n - 1 + 1
    BY <1>1, FS_Interval, SMTT(30)
  <2> QED BY <1>1, <2>1
<1>3. f \in Surjection(1..n, Aios)
  BY <1>1 DEF Surjection, Aios
<1>4. IsFiniteSet(Aios) /\ Cardinality(Aios) <= Cardinality(1..n)
  <2> HIDE DEF f
  <2> QED BY <1>2, <1>3, FS_Surjection
<1> QED BY <1>1, <1>2, <1>4, FS_CardinalityType

LEMMA LoadFixed == [Next]_vars => load' = load
<1>1. ASSUME NEW r \in Reqs
      PROVE  /\ Enter(r) \/ EnterFails(r) \/ CallStep(r) \/ GiveUp(r) \/ AioBuild(r) => load' = load
             /\ AioOverrun(r) \/ AioSubmit(r) \/ AioRefused(r) => load' = load
             /\ PerfStart(r) \/ PerfStartFails(r) \/ PerfStop(r) => load' = load
             /\ PerfStartRefused(r) => load' = load
  <2>1. Enter(r) \/ EnterFails(r) \/ LockDesc(r) \/ Wake(r) \/ GiveUp(r) => load' = load
    BY Zenon DEF Enter, EnterFails, LockDesc, Wake, GiveUp
  <2>2. Build(r) \/ AioBuild(r) => load' = load
    BY Zenon DEF Build, AioBuild, TransferInit
  <2>3. Submit(r) \/ WakeThread(r) => load' = load
    BY Zenon DEF Submit, WakeThread
  <2>4. SubmitRefused(r) \/ Return(r) => load' = load
    BY Zenon DEF SubmitRefused, Return
  <2>5. Check(r) => load' = load
    BY Zenon DEF Check
  <2>6. AioOverrun(r) \/ AioSubmit(r) \/ AioRefused(r) => load' = load
    BY Zenon DEF AioOverrun, AioSubmit, AioRefused
  <2>7. PerfStart(r) => load' = load
    BY Zenon DEF PerfStart
  <2>8. PerfStartFails(r) \/ PerfStartRefused(r) \/ PerfStop(r) => load' = load
    BY Zenon DEF PerfStartFails, PerfStartRefused, PerfStop
  <2> QED BY <2>1, <2>2, <2>3, <2>4, <2>5, <2>6, <2>7, <2>8 DEF CallStep
<1>2. /\ AioEnter \/ AioSegment \/ AioSegmentBad \/ AioSegmentLost \/ AioReturn => load' = load
      /\ Offline \/ Online \/ ServiceWork \/ ServicePoll \/ UNCHANGED vars => load' = load
  BY DEF AioEnter, AioSegment, AioSegmentBad, AioSegmentLost, AioReturn, Offline, Online,
         ServiceWork, ServicePoll, vars
<1>3. ChannelIrq \/ PollCheck \/ PollPick \/ PollRead \/ PollTimeout \/ HwNext => load' = load
  BY DEF ChannelIrq, PollCheck, PollPick, PollRead, PollTimeout, HwNext, HwFetch, HwRest, HwStep,
         HwError, HwLate
<1> QED BY <1>1, <1>2, <1>3 DEF Next, AioStep

LEMMA LinkedApart ==
  ASSUME Linked, UNCHANGED <<load, call, xf, queue, desc_lock>>, caio'.cmpl = caio.cmpl,
         caio'.st = "freed" => caio.st = "freed" \/ Aios \cap load.bad # {}
  PROVE  Linked'
<1>1. Queued' = Queued
  BY DEF Queued
<1>2. \A r \in Reqs : Link(r)'
  BY <1>1, LinkFrame DEF Linked
<1>3. Lined' /\ InFlight'
  BY <1>1 DEF Linked, Lined, InFlight
<1>4. CaioLink'
  BY CaioKept DEF Linked
<1> QED BY <1>2, <1>3, <1>4 DEF Linked

(* A step of one request that leaves the queue alone                       *)
LEMMA StageStep ==
  ASSUME Types, Linked, NEW r \in Reqs, load' = load, queue' = queue,
         \A q \in Reqs \ {r} :
           /\ call'[q] = call[q] /\ (desc_lock' = q <=> desc_lock = q)
           /\ xf'[<<q, 1>>] = xf[<<q, 1>>] /\ xf'[<<q, 2>>] = xf[<<q, 2>>],
         \A k \in {1, 2} : \/ xf'[<<r, k>>].state = xf[<<r, k>>].state
                           \/ <<r, k>> \notin Queued,
         Link(r)', caio'.cmpl = caio.cmpl, caio'.st = caio.st,
         r \in load.sync \/ (call'[r].pc = "returned" <=> call[r].pc = "returned")
  PROVE  Linked'
<1>1. Queued' = Queued
  BY DEF Queued
<1>2. OnlyOf(r)
  BY <1>1 DEF OnlyOf
<1>3. \A q \in Reqs : Link(q)'
  BY <1>2, LinksKept DEF Linked
<1>4. Lined'
  BY DEF Linked, Lined
<1>5. InFlight'
  <2> SUFFICES ASSUME NEW t \in Queued PROVE xf'[t].state = xf[t].state
    BY <1>1 DEF Linked, InFlight
  <2>1. t \in Xfers
    BY QueuedXfers
  <2>2. t = <<t[1], t[2]>> /\ t[1] \in Reqs /\ t[2] \in {1, 2}
    BY <2>1, PairOf
  <2>3. CASE t[1] = r
    BY <2>2, <2>3
  <2>4. CASE t[1] # r
    <3>1. xf'[<<t[1], 1>>] = xf[<<t[1], 1>>] /\ xf'[<<t[1], 2>>] = xf[<<t[1], 2>>]
      BY <2>2, <2>4
    <3>2. t = <<t[1], 1>> \/ t = <<t[1], 2>>
      BY <2>2
    <3> QED BY <3>1, <3>2
  <2> QED BY <2>3, <2>4
<1>6. CaioLink'
  <2>1. \A q \in Aios : q \in Reqs /\ q \notin load.sync
    BY Kinds
  <2>2. \A q \in Aios : call'[q].pc = "returned" <=> call[q].pc = "returned"
    BY <2>1
  <2> QED BY <2>2, CaioKept DEF Linked
<1> QED BY <1>3, <1>4, <1>5, <1>6 DEF Linked

(* Which links hold is a matter of the load                                *)
LEMMA SyncOnly ==
  ASSUME Types, load' = load, NEW r \in load.sync
  PROVE  r \in Reqs /\ (Link(r) <=> SyncLink(r)) /\ (Link(r)' <=> SyncLink(r)')
<1>1. r \in Reqs /\ ~IsAio(r) /\ (IsAio(r)' <=> IsAio(r))
  BY Kinds, KindKept
<1> QED BY <1>1 DEF Link

LEMMA AioOnly ==
  ASSUME Types, load' = load, NEW r, IsAio(r)
  PROVE  r \in Reqs /\ r \notin load.sync
         /\ (Link(r) <=> AioLink(r)) /\ (Link(r)' <=> AioLink(r)')
<1>1. r \in Reqs /\ r \notin load.sync /\ (IsAio(r)' <=> IsAio(r))
  BY Kinds, KindKept
<1> QED BY <1>1 DEF Link

LEMMA WaitersAreSync ==
  ASSUME NEW r \in Reqs, Link(r), call[r].pc \in {"mapped", "queued", "wait", "check", "unmap"}
  PROVE  r \in load.sync
BY DEF Link, AioLink, OtherLink

LEMMA WaiterMoves ==
  ASSUME Types, Linked, NEW r \in Reqs,
         Enter(r) \/ EnterFails(r) \/ LockDesc(r) \/ WakeThread(r) \/ SubmitRefused(r)
           \/ Wake(r) \/ GiveUp(r) \/ Return(r)
  PROVE  Linked'
<1>1. /\ load' = load /\ queue' = queue /\ caio' = caio /\ call \in [Reqs -> CallRecs]
      /\ xf \in [Xfers -> XferRecs] /\ Queued' = Queued
  BY DEF Enter, EnterFails, LockDesc, WakeThread, SubmitRefused, Wake, GiveUp, Return,
         engineVars, Types, Queued
<1>2. r \in load.sync
  BY WaitersAreSync DEF Enter, EnterFails, LockDesc, WakeThread, SubmitRefused, Wake, GiveUp,
     Return, Linked, Move
<1>3. (HeadGivesUp' <=> HeadGivesUp) /\ NoReq \notin Reqs
  BY <1>1, KindKept, Requests
<1>4. SyncLink(r) /\ (Link(r)' <=> SyncLink(r)')
  BY <1>1, <1>2, SyncOnly DEF Linked
<1>5. ASSUME UNCHANGED <<xf, desc_lock>>,
             \A q \in Reqs \ {r} : call'[q] = call[q], SyncLink(r)'
      PROVE  Linked'
  BY <1>1, <1>2, <1>4, <1>5, StageStep
<1>6. CASE Enter(r)
  <2>1. /\ call[r].pc = "idle" /\ call'[r].pc = "mapped" /\ call'[r].left = call[r].left
        /\ UNCHANGED <<xf, desc_lock>> /\ \A q \in Reqs \ {r} : call'[q] = call[q]
    BY <1>1, <1>6 DEF Enter, CallRecs, engineVars
  <2>2. SyncLink(r)'
    BY <1>1, <1>3, <1>4, <2>1 DEF SyncLink
  <2> QED BY <1>5, <2>1, <2>2
<1>7. CASE EnterFails(r)
  <2>1. /\ call[r].pc = "idle" /\ call'[r].pc = "returned" /\ call'[r].left = call[r].left
        /\ UNCHANGED <<xf, desc_lock>> /\ \A q \in Reqs \ {r} : call'[q] = call[q]
    <3>1. PICK b :
            call' = [call EXCEPT ![r].pc = "returned", ![r].res = "error",
                                 ![r].failed = TRUE, ![r].pinned = b]
      BY <1>7 DEF EnterFails
    <3>2. call[r].pc = "idle" /\ UNCHANGED <<xf, desc_lock>>
      BY <1>7 DEF EnterFails, engineVars
    <3> QED BY <1>1, <3>1, <3>2 DEF CallRecs
  <2>2. SyncLink(r)'
    BY <1>1, <1>3, <1>4, <2>1 DEF SyncLink
  <2> QED BY <1>5, <2>1, <2>2
<1>8. CASE Wake(r) \/ GiveUp(r)
  <2>1. /\ call[r].pc = "wait" /\ call'[r].pc = "check" /\ call'[r].left = call[r].left
        /\ UNCHANGED <<xf, desc_lock>> /\ \A q \in Reqs \ {r} : call'[q] = call[q]
        /\ xf[<<r, 1>>].state # "SUBMITTED" \/ load.giveup
    BY <1>1, <1>8 DEF Wake, GiveUp, Move, CallRecs, engineVars
  <2>2. SyncLink(r)'
    BY <1>1, <1>3, <1>4, <2>1 DEF SyncLink
  <2> QED BY <1>5, <2>1, <2>2
<1>9. CASE LockDesc(r)
  <2>1. /\ call[r].pc = "mapped" /\ call'[r].pc = "build" /\ call'[r].left = call[r].left
        /\ xf' = xf /\ desc_lock = NoReq /\ desc_lock' = r
        /\ \A q \in Reqs \ {r} : call'[q] = call[q]
    BY <1>1, <1>9 DEF LockDesc, Move, CallRecs, engineVars
  <2>2. SyncLink(r)'
    BY <1>1, <1>3, <1>4, <2>1 DEF SyncLink
  <2>3. \A q \in Reqs \ {r} : desc_lock' = q <=> desc_lock = q
    BY <1>3, <2>1
  <2> QED BY <1>1, <1>2, <1>4, <2>1, <2>2, <2>3, StageStep
<1>10. CASE SubmitRefused(r)
  <2>1. /\ call[r].pc = "submit" /\ call'[r].pc = "unmap" /\ call'[r].left = call[r].left
        /\ xf' = xf /\ desc_lock' = NoReq
        /\ \A q \in Reqs \ {r} : call'[q] = call[q]
    BY <1>1, <1>10 DEF SubmitRefused, CallRecs, engineVars
  <2>2. desc_lock = r
    BY <1>4, <2>1 DEF SyncLink
  <2>3. SyncLink(r)'
    BY <1>1, <1>3, <1>4, <2>1, <2>2 DEF SyncLink
  <2>4. \A q \in Reqs \ {r} : desc_lock' = q <=> desc_lock = q
    BY <1>3, <2>1, <2>2
  <2> QED BY <1>1, <1>2, <1>4, <2>1, <2>3, <2>4, StageStep
<1>11. CASE Return(r)
  <2>1. /\ call[r].pc = "unmap" /\ call'[r].pc = "returned" /\ call'[r].left = call[r].left
        /\ desc_lock' = desc_lock /\ xf' = [xf EXCEPT ![<<r, 1>>].live = FALSE]
        /\ \A q \in Reqs \ {r} : call'[q] = call[q]
    BY <1>1, <1>11 DEF Return, CallRecs
  <2>2. <<r, 1>> \in Xfers /\ <<r, 2>> \in Xfers
    BY Pairs
  <2>3. /\ xf'[<<r, 1>>].state = xf[<<r, 1>>].state /\ xf'[<<r, 2>>] = xf[<<r, 2>>]
        /\ xf'[<<r, 1>>].num = xf[<<r, 1>>].num
    BY <1>1, <2>1, <2>2 DEF XferRecs
  <2>4. \A q \in Reqs \ {r} : xf'[<<q, 1>>] = xf[<<q, 1>>] /\ xf'[<<q, 2>>] = xf[<<q, 2>>]
    BY <1>1, <2>1, Pairs
  <2>5. SyncLink(r)'
    BY <1>1, <1>3, <1>4, <2>1, <2>3 DEF SyncLink
  <2> QED BY <1>1, <1>2, <1>4, <2>1, <2>3, <2>4, <2>5, StageStep
<1>12. CASE WakeThread(r)
  <2>1. /\ call[r].pc = "queued" /\ call'[r].pc = "wait" /\ call'[r].left = call[r].left
        /\ UNCHANGED <<xf, desc_lock>> /\ \A q \in Reqs \ {r} : call'[q] = call[q]
    BY <1>1, <1>12 DEF WakeThread, Move, CallRecs
  <2>2. SyncLink(r)'
    BY <1>1, <1>3, <1>4, <2>1 DEF SyncLink
  <2> QED BY <1>5, <2>1, <2>2
<1> QED BY <1>6, <1>7, <1>8, <1>9, <1>10, <1>11, <1>12

LEMMA BuiltIs ==
  ASSUME Types, NEW r \in Reqs, NEW t \in {<<r, 1>>, <<r, 2>>}, TransferInit(r, t),
         call[r].left > 0
  PROVE  /\ xf'[t].state = "NEW" /\ xf'[t].num = PartSize(r) /\ xf'[t].num > 0
         /\ xf'[t].at = eng.idx /\ xf'[t].live /\ ~xf'[t].cyclic
         /\ (xf'[t].last <=> call'[r].left = 0)
         /\ \A u \in Xfers \ {t} : xf'[u] = xf[u]
         /\ call'[r].pc = "submit" /\ call'[r].left = call[r].left - PartSize(r)
         /\ call'[r].done = call[r].done /\ call'[r].failed = call[r].failed
         /\ call'[r].pinned = call[r].pinned /\ call'[r].res = call[r].res
         /\ \A q \in Reqs \ {r} : call'[q] = call[q]
         /\ UNCHANGED <<load, queue, desc_lock, caio>>
<1> DEFINE n == PartSize(r)
<1>1. /\ n \in Nat /\ n > 0 /\ call[r].left \in Nat /\ n <= call[r].left
      /\ t \in Xfers /\ xf \in [Xfers -> XferRecs] /\ call \in [Reqs -> CallRecs]
  <2>1. xf \in [Xfers -> XferRecs] /\ call \in [Reqs -> CallRecs]
    BY DEF Types
  <2>2. n \in 0..DescMax /\ n > 0 /\ call[r].left \in Nat /\ n <= call[r].left
    BY PartFits
  <2>3. n \in Nat
    BY <2>2, Ring
  <2>4. t \in Xfers
    BY Pairs
  <2> QED BY <2>1, <2>2, <2>3, <2>4
<1>2. /\ xf' = [xf EXCEPT ![t] =
                         [state |-> "NEW", num |-> n, at |-> eng.idx,
                          last |-> (n = call[r].left), cyclic |-> FALSE, live |-> TRUE]]
      /\ call' = [call EXCEPT ![r].pc = "submit", ![r].left = @ - n]
      /\ UNCHANGED <<load, queue, desc_lock, caio>>
  BY <1>1, TransferInitIs
<1> HIDE DEF n
<1>3. /\ call'[r].pc = "submit" /\ call'[r].left = call[r].left - n
      /\ call'[r].done = call[r].done /\ call'[r].failed = call[r].failed
      /\ call'[r].pinned = call[r].pinned /\ call'[r].res = call[r].res
      /\ \A q \in Reqs \ {r} : call'[q] = call[q]
  BY <1>1, <1>2 DEF CallRecs
<1>4. n = call[r].left <=> call'[r].left = 0
  BY <1>1, <1>3
<1>5. /\ xf'[t].state = "NEW" /\ xf'[t].num = n
      /\ xf'[t].at = eng.idx /\ xf'[t].live /\ ~xf'[t].cyclic
      /\ xf'[t].last = (n = call[r].left)
      /\ \A u \in Xfers \ {t} : xf'[u] = xf[u]
  BY <1>1, <1>2
<1> QED BY <1>1, <1>2, <1>3, <1>4, <1>5 DEF n

LEMMA OtherPairs ==
  ASSUME NEW r \in Reqs, NEW q \in Reqs \ {r}, NEW k, NEW t \in {<<r, 1>>, <<r, 2>>}
  PROVE  <<q, k>> # t
OBVIOUS

LEMMA BuildLinked ==
  ASSUME Types, Linked, NEW r \in Reqs, Build(r) \/ AioBuild(r)
  PROVE  Linked'
<1>1. load' = load /\ queue' = queue /\ desc_lock' = desc_lock /\ caio' = caio
  BY DEF Build, AioBuild, TransferInit
<1>2. /\ <<r, 1>> \in Xfers /\ <<r, 2>> \in Xfers /\ <<r, 1>> # <<r, 2>>
      /\ (HeadGivesUp' <=> HeadGivesUp) /\ Queued' = Queued
  BY <1>1, Pairs, KindKept DEF Queued
<1>3. ASSUME NEW t \in {<<r, 1>>, <<r, 2>>}, TransferInit(r, t), call[r].left > 0,
             xf[t].state \in {"NEW", "COMPLETED"}, Link(r)', call[r].pc = "build"
      PROVE  Linked'
  <2>1. /\ \A u \in Xfers \ {t} : xf'[u] = xf[u]
        /\ \A q \in Reqs \ {r} : call'[q] = call[q]
        /\ call'[r].pc = "submit"
    BY <1>3, BuiltIs
  <2>2. \A q \in Reqs \ {r} : xf'[<<q, 1>>] = xf[<<q, 1>>] /\ xf'[<<q, 2>>] = xf[<<q, 2>>]
    <3> TAKE q \in Reqs \ {r}
    <3>1. <<q, 1>> # t /\ <<q, 2>> # t /\ <<q, 1>> \in Xfers /\ <<q, 2>> \in Xfers
      BY Pairs, OtherPairs
    <3> QED BY <2>1, <3>1
  <2>3. t \notin Queued
    BY <1>3 DEF Linked, InFlight
  <2>4. \A k \in {1, 2} : xf'[<<r, k>>].state = xf[<<r, k>>].state \/ <<r, k>> \notin Queued
    BY <1>2, <2>1, <2>3
  <2> QED BY <1>1, <1>3, <2>1, <2>2, <2>4, StageStep
<1>4. CASE Build(r)
  <2>1. r \in load.sync /\ call[r].pc = "build" /\ TransferInit(r, <<r, 1>>)
    BY <1>4 DEF Build
  <2>2. SyncLink(r) /\ (Link(r)' <=> SyncLink(r)')
    BY <1>1, <2>1, SyncOnly DEF Linked
  <2>3. call[r].left > 0 /\ xf[<<r, 1>>].state \in {"NEW", "COMPLETED"} /\ desc_lock = r
    BY <2>1, <2>2 DEF SyncLink
  <2>4. /\ xf'[<<r, 1>>].state = "NEW" /\ xf'[<<r, 1>>].num > 0 /\ xf'[<<r, 1>>].live
        /\ xf'[<<r, 2>>] = xf[<<r, 2>>] /\ call'[r].pc = "submit"
    BY <1>2, <2>1, <2>3, BuiltIs
  <2>5. <<r, 1>> \notin Queued
    BY <2>3 DEF Linked, InFlight
  <2>6. SyncLink(r)'
    BY <1>1, <1>2, <2>2, <2>3, <2>4, <2>5 DEF SyncLink
  <2> QED BY <1>3, <2>1, <2>2, <2>3, <2>6
<1>5. CASE AioBuild(r)
  <2>1. IsAio(r) /\ call[r].pc = "build" /\ TransferInit(r, Current(r))
        /\ xf[Current(r)].state = "NEW"
    BY <1>5 DEF AioBuild
  <2>2. AioLink(r) /\ (Link(r)' <=> AioLink(r)')
    BY <1>1, <2>1, AioOnly DEF Linked
  <2>3. call[r].left > 0 /\ ~xf[<<r, 1>>].last /\ ~xf[<<r, 2>>].last
    BY <2>1, <2>2 DEF AioLink
  <2>4. CASE xf[<<r, 1>>].state = "NEW"
    <3>1. Current(r) = <<r, 1>>
      BY <2>4 DEF Current
    <3>2. /\ xf'[<<r, 1>>].state = "NEW" /\ xf'[<<r, 1>>].num > 0 /\ xf'[<<r, 1>>].live
          /\ xf'[<<r, 1>>].last <=> call'[r].left = 0
          /\ xf'[<<r, 2>>] = xf[<<r, 2>>] /\ call'[r].pc = "submit"
      BY <1>2, <2>1, <2>3, <3>1, BuiltIs
    <3>3. <<r, 1>> \notin Queued
      BY <2>4 DEF Linked, InFlight
    <3>4. xf[<<r, 2>>].num = 0
      <4>1. xf[<<r, 2>>].num \in Nat /\ ~(xf[<<r, 2>>].num > 0)
        BY <1>2, <2>2, <2>4, Ring DEF AioLink, Types, XferRecs
      <4> QED BY <4>1
    <3>5. AioLink(r)'
      BY <1>1, <1>2, <2>1, <2>2, <2>3, <2>4, <3>2, <3>3, <3>4 DEF AioLink
    <3> QED BY <1>3, <2>1, <2>2, <2>3, <2>4, <3>1, <3>5
  <2>5. CASE xf[<<r, 1>>].state # "NEW"
    <3>1. Current(r) = <<r, 2>>
      BY <2>1, <2>5 DEF Current
    <3>2. /\ xf'[<<r, 2>>].state = "NEW" /\ xf'[<<r, 2>>].num > 0 /\ xf'[<<r, 2>>].live
          /\ xf'[<<r, 2>>].last <=> call'[r].left = 0
          /\ xf'[<<r, 1>>] = xf[<<r, 1>>] /\ call'[r].pc = "submit"
      BY <1>2, <2>1, <2>3, <3>1, BuiltIs
    <3>3. <<r, 2>> \notin Queued /\ xf'[<<r, 2>>].num # 0
      BY <2>1, <3>1, <3>2 DEF Linked, InFlight
    <3>4. AioLink(r)'
      BY <1>1, <1>2, <2>1, <2>2, <2>3, <2>5, <3>2, <3>3 DEF AioLink
    <3> QED BY <1>3, <2>1, <2>2, <2>3, <3>1, <3>4
  <2> QED BY <2>4, <2>5
<1> QED BY <1>4, <1>5

LEMMA AppendStep ==
  ASSUME Types, Linked, NEW r \in Reqs, NEW t \in {<<r, 1>>, <<r, 2>>},
         queue' = Append(queue, t), xf[t].state = "NEW", xf'[t].state = "SUBMITTED",
         xf[<<r, 2>>].state = "NEW", \A u \in Xfers \ {t} : xf'[u] = xf[u],
         load' = load, desc_lock' = desc_lock, \A q \in Reqs \ {r} : call'[q] = call[q]
  PROVE  /\ Queued' = Queued \cup {t} /\ t \notin Queued /\ <<r, 2>> \notin Queued
         /\ Link(r)' /\ CaioLink' => Linked'
<1>1. /\ t \in Xfers /\ t \notin Queued /\ <<r, 2>> \notin Queued /\ t[1] = r
      /\ t = <<r, t[2]>> /\ t[2] \in {1, 2}
  <2>1. t \in Xfers
    BY Pairs
  <2>2. CASE t = <<r, 1>>
    BY <2>1, <2>2 DEF Linked, InFlight
  <2>3. CASE t = <<r, 2>>
    BY <2>1, <2>3 DEF Linked, InFlight
  <2> QED BY <2>2, <2>3
<1>2. \A k \in {1, 2} : <<t[1], k>> \in Queued => k = 1 /\ t[2] = 2
  BY <1>1
<1>3. Lined' /\ Queued' = Queued \cup {t}
  BY <1>1, <1>2, Appended DEF Linked
<1>4. InFlight'
  BY <1>1, <1>3, QueuedXfers DEF Linked, InFlight
<1>5. OnlyOf(r)
  <2> SUFFICES ASSUME NEW q \in Reqs \ {r}
               PROVE  /\ xf'[<<q, 1>>] = xf[<<q, 1>>] /\ xf'[<<q, 2>>] = xf[<<q, 2>>]
                      /\ <<q, 1>> \in Queued' <=> <<q, 1>> \in Queued
                      /\ <<q, 2>> \in Queued' <=> <<q, 2>> \in Queued
    BY DEF OnlyOf
  <2>1. <<q, 1>> # t /\ <<q, 2>> # t /\ <<q, 1>> \in Xfers /\ <<q, 2>> \in Xfers
    BY Pairs, OtherPairs
  <2> QED BY <1>3, <2>1
<1>6. ASSUME Link(r)' PROVE \A q \in Reqs : Link(q)'
  BY <1>5, <1>6, LinksKept DEF Linked
<1> QED BY <1>1, <1>3, <1>4, <1>6 DEF Linked

LEMMA StateSet ==
  ASSUME Types, NEW t \in Xfers, NEW st, xf' = [xf EXCEPT ![t].state = st]
  PROVE  /\ xf'[t].state = st /\ xf'[t].num = xf[t].num /\ xf'[t].at = xf[t].at
         /\ xf'[t].last = xf[t].last /\ xf'[t].live = xf[t].live
         /\ xf'[t].cyclic = xf[t].cyclic
         /\ \A u \in Xfers \ {t} : xf'[u] = xf[u]
<1>1. xf \in [Xfers -> XferRecs]
  BY DEF Types
<1> QED BY <1>1 DEF XferRecs

LEMMA SubmitLinked ==
  ASSUME Types, Linked, NEW r \in Reqs, Submit(r) \/ AioSubmit(r)
  PROVE  Linked'
<1>1. /\ load' = load /\ desc_lock' = desc_lock
      /\ call \in [Reqs -> CallRecs] /\ caio \in CaioRecs
  BY DEF Submit, AioSubmit, Types
<1>2. /\ <<r, 1>> \in Xfers /\ <<r, 2>> \in Xfers /\ <<r, 1>> # <<r, 2>>
      /\ (HeadGivesUp' <=> HeadGivesUp) /\ (IsAio(r)' <=> IsAio(r))
  BY <1>1, Pairs, KindKept
<1>3. ASSUME NEW t \in Xfers, Becomes(QueueXfer(E, t))
      PROVE  queue' = Append(queue, t) /\ xf' = [xf EXCEPT ![t].state = "SUBMITTED"]
  <2>1. E \in States /\ E.queue = queue /\ E.xf = xf
    BY StateOfE DEF E
  <2>2. QueueXfer(E, t).queue = Append(queue, t)
        /\ QueueXfer(E, t).xf = [xf EXCEPT ![t].state = "SUBMITTED"]
    BY <2>1, QueueXferIs
  <2> QED BY <1>3, <2>2 DEF Becomes
<1>4. CASE Submit(r)
  <2> DEFINE t == <<r, 1>>
  <2>1. r \in load.sync /\ call[r].pc = "submit" /\ caio' = caio
    BY <1>4 DEF Submit
  <2>2. queue' = Append(queue, t) /\ xf' = [xf EXCEPT ![t].state = "SUBMITTED"]
    BY <1>2, <1>3, <1>4 DEF Submit
  <2>3. SyncLink(r) /\ (Link(r)' <=> SyncLink(r)')
    BY <1>1, <2>1, SyncOnly DEF Linked
  <2>4. xf[t].state = "NEW" /\ xf[<<r, 2>>].state = "NEW" /\ desc_lock = r
    BY <2>1, <2>3 DEF SyncLink
  <2>5. /\ call'[r].pc \in {"queued", "wait"} /\ call'[r].left = call[r].left
        /\ \A q \in Reqs \ {r} : call'[q] = call[q]
    BY <1>1, <1>4 DEF Submit, CallRecs
  <2>6. /\ xf'[t].state = "SUBMITTED" /\ xf'[t].num = xf[t].num /\ xf'[t].live = xf[t].live
        /\ \A u \in Xfers \ {t} : xf'[u] = xf[u]
    BY <1>2, <2>2, StateSet
  <2>7. /\ Queued' = Queued \cup {t}
        /\ Link(r)' /\ CaioLink' => Linked'
    BY <1>1, <2>2, <2>4, <2>5, <2>6, AppendStep
  <2>8. SyncLink(r)'
    <3>1. xf'[<<r, 2>>] = xf[<<r, 2>>] /\ t \in Queued'
      BY <1>2, <2>6, <2>7
    <3> QED BY <1>1, <1>2, <2>1, <2>3, <2>4, <2>5, <2>6, <3>1 DEF SyncLink
  <2>9. CaioLink'
    <3>1. \A q \in Aios : q \in Reqs /\ q # r
      BY <2>1, Kinds
    <3> QED BY <1>1, <2>1, <2>5, <3>1, CaioKept DEF Linked
  <2> QED BY <2>3, <2>7, <2>8, <2>9
<1>5. CASE AioSubmit(r)
  <2> DEFINE t == Current(r)
             p == IF call[r].left > 0 THEN "build" ELSE "flying"
  <2>1. IsAio(r) /\ call[r].pc = "submit" /\ Becomes(QueueXfer(E, t))
        /\ call' = [call EXCEPT ![r].pc = p]
    BY <1>5 DEF AioSubmit
  <2>2. t \in {<<r, 1>>, <<r, 2>>} /\ t \in Xfers
    BY CurrentIs
  <2>3. AioLink(r) /\ (Link(r)' <=> AioLink(r)')
    BY <1>1, <2>1, AioOnly DEF Linked
  <2>4. /\ xf[<<r, 2>>].num \in Nat /\ xf[<<r, 1>>].num \in Nat /\ call[r].left \in Nat
    BY <1>1, <1>2, Ring DEF Types, XferRecs, CallRecs
  <2>5. /\ t = IF xf[<<r, 1>>].state # "NEW" THEN <<r, 2>> ELSE <<r, 1>>
        /\ xf[t].state = "NEW" /\ xf[<<r, 2>>].state = "NEW" /\ xf[t].num > 0
        /\ xf[t].last <=> call[r].left = 0
        /\ HeadGivesUp => xf[t].live
    <3>1. CASE xf[<<r, 1>>].state = "NEW"
      <4>1. xf[<<r, 2>>].num = 0
        BY <2>3, <2>4, <3>1 DEF AioLink
      <4> QED BY <2>1, <2>3, <3>1, <4>1 DEF AioLink, Current
    <3>2. CASE xf[<<r, 1>>].state # "NEW"
      BY <2>1, <2>3, <3>2 DEF AioLink, Current
    <3> QED BY <3>1, <3>2
  <2>6. queue' = Append(queue, t) /\ xf' = [xf EXCEPT ![t].state = "SUBMITTED"]
    BY <1>3, <2>1, <2>2
  <2>7. /\ call'[r].pc = p /\ call'[r].left = call[r].left
        /\ \A q \in Reqs \ {r} : call'[q] = call[q]
    <3> HIDE DEF p
    <3> QED BY <1>1, <2>1 DEF CallRecs
  <2> HIDE DEF t
  <2>8. /\ xf'[t].state = "SUBMITTED" /\ xf'[t].num = xf[t].num /\ xf'[t].live = xf[t].live
        /\ xf'[t].last = xf[t].last
        /\ \A u \in Xfers \ {t} : xf'[u] = xf[u]
    BY <2>2, <2>6, StateSet
  <2>9. /\ Queued' = Queued \cup {t} /\ t \notin Queued /\ <<r, 2>> \notin Queued
        /\ Link(r)' /\ CaioLink' => Linked'
    BY <1>1, <2>2, <2>5, <2>6, <2>7, <2>8, AppendStep
  <2>10. AioLink(r)'
    <3>1. CASE t = <<r, 1>>
      <4>1. xf[<<r, 2>>].num = 0 /\ xf'[<<r, 2>>] = xf[<<r, 2>>]
            /\ <<r, 2>> \notin Queued'
        BY <1>2, <2>3, <2>4, <2>5, <2>8, <2>9, <3>1 DEF AioLink
      <4> QED BY <1>1, <1>2, <2>1, <2>3, <2>4, <2>5, <2>7, <2>8, <2>9, <3>1, <4>1 DEF AioLink
    <3>2. CASE t = <<r, 2>>
      <4>1. xf'[<<r, 1>>] = xf[<<r, 1>>] /\ xf[<<r, 1>>].state # "NEW" /\ ~xf[<<r, 1>>].last
            /\ (<<r, 1>> \in Queued' <=> <<r, 1>> \in Queued)
        BY <1>2, <2>3, <2>4, <2>5, <2>8, <2>9, <3>2 DEF AioLink
      <4> QED BY <1>1, <1>2, <2>1, <2>3, <2>4, <2>5, <2>7, <2>8, <2>9, <3>2, <4>1 DEF AioLink
    <3> QED BY <2>2, <3>1, <3>2
  <2>11. CaioLink'
    <3>1. caio'.cmpl = caio.cmpl /\ caio'.st = caio.st
      BY <1>1, <1>5 DEF AioSubmit, CaioRecs
    <3>2. \A q \in Aios : q \in Reqs
      BY Kinds
    <3> QED BY <1>1, <2>1, <2>7, <3>1, <3>2, CaioKept DEF Linked
  <2> QED BY <2>3, <2>9, <2>10, <2>11
<1> QED BY <1>4, <1>5

(* What gives up is alone in the queue.                                    *)
LEMMA SoleQueued ==
  ASSUME Types, Linked, HeadGivesUp, load.aio = <<>>, NEW t \in Queued
  PROVE  /\ t = <<desc_lock, 1>> /\ desc_lock \in load.sync /\ xf[t].state = "SUBMITTED"
         /\ call[desc_lock].pc \in {"queued", "wait", "check"}
<1>1. t \in Xfers /\ t = <<t[1], t[2]>> /\ t[1] \in Reqs /\ t[2] \in {1, 2}
  BY QueuedXfers, PairOf
<1> DEFINE r == t[1]
<1>2. xf[t].state \in {"SUBMITTED", "ABORTED"} /\ Link(r)
  BY <1>1 DEF Linked, InFlight
<1>3. ~IsAio(r) /\ r \notin load.perf
  <2>1. DOMAIN load.aio = {}
    OBVIOUS
  <2> QED BY <2>1 DEF IsAio, HeadGivesUp
<1>4. r \in load.sync
  <2> SUFFICES ASSUME r \notin load.sync PROVE FALSE
    OBVIOUS
  <2>1. OtherLink(r)
    BY <1>2, <1>3 DEF Link
  <2> QED BY <1>1, <1>2, <1>3, <2>1 DEF OtherLink
<1>5. SyncLink(r)
  BY <1>2, <1>4 DEF Link
<1>6. t = <<r, 1>>
  BY <1>1, <1>2, <1>5 DEF SyncLink
<1>7. xf[t].state = "SUBMITTED"
  BY <1>5, <1>6 DEF SyncLink
<1>8. call[r].pc \in {"queued", "wait", "check"} /\ desc_lock = r
  BY <1>5, <1>6, <1>7 DEF SyncLink
<1> QED BY <1>4, <1>6, <1>7, <1>8

LEMMA CheckLinked ==
  ASSUME Types, Types', Linked, NEW r \in Reqs, Check(r)
  PROVE  Linked'
<1> DEFINE t == <<r, 1>>
           state == xf[t].state
           more == state = "COMPLETED" /\ call[r].left > 0
<1>1. /\ load' = load /\ caio' = caio /\ call[r].pc = "check"
      /\ desc_lock' = IF more THEN r ELSE NoReq
      /\ call \in [Reqs -> CallRecs]
  BY DEF Check, Types
<1>2. /\ t \in Xfers /\ <<r, 2>> \in Xfers /\ t # <<r, 2>>
      /\ (HeadGivesUp' <=> HeadGivesUp) /\ NoReq \notin Reqs
  BY <1>1, Pairs, KindKept, Requests
<1>3. r \in load.sync
  BY <1>1, WaitersAreSync DEF Linked
<1>4. SyncLink(r) /\ (Link(r)' <=> SyncLink(r)')
  BY <1>1, <1>3, SyncOnly DEF Linked
<1>5. /\ state \in {"SUBMITTED", "COMPLETED", "FAILED"} /\ desc_lock = r
      /\ state = "SUBMITTED" => load.giveup
  BY <1>1, <1>4 DEF SyncLink
<1>6. /\ call'[r].pc = (IF more THEN "build" ELSE "unmap") /\ call'[r].left = call[r].left
      /\ \A q \in Reqs \ {r} : call'[q] = call[q]
  <2>1. PICK p, d, b : /\ call' = [call EXCEPT ![r].pc = p, ![r].done = d, ![r].failed = b]
                       /\ p = IF more THEN "build" ELSE "unmap"
    BY <1>1 DEF Check
  <2> HIDE DEF more
  <2> QED BY <1>1, <2>1 DEF CallRecs
<1>7. \A q \in Reqs \ {r} : desc_lock' = q <=> desc_lock = q
  BY <1>1, <1>2, <1>5
<1>8. CASE state # "SUBMITTED"
  <2>1. queue' = queue /\ xf' = xf
    BY <1>8 DEF Check, Becomes, E
  <2>2. SyncLink(r)'
    <3>1. Queued' = Queued
      BY <2>1 DEF Queued
    <3> QED BY <1>1, <1>2, <1>4, <1>5, <1>6, <1>8, <2>1, <3>1 DEF SyncLink
  <2> QED BY <1>1, <1>3, <1>4, <1>6, <1>7, <2>1, <2>2, StageStep
<1>9. CASE state = "SUBMITTED"
  <2>1. /\ queue' = IF queue # <<>> /\ Head(queue) = t THEN Tail(queue) ELSE queue
        /\ xf' = [xf EXCEPT ![t].state = IF @ = "SUBMITTED" THEN "ABORTED" ELSE @]
    <3> DEFINE S == EngineStop(TransferAbort(StatusRead(E, FALSE), t))
    <3>1. Becomes(S)
      BY <1>9 DEF Check
    <3>2. /\ S.queue = IF queue # <<>> /\ Head(queue) = t THEN Tail(queue) ELSE queue
          /\ S.xf = [xf EXCEPT ![t].state = IF @ = "SUBMITTED" THEN "ABORTED" ELSE @]
      BY <1>2, AbortedIs
    <3> HIDE DEF S
    <3> QED BY <3>1, <3>2 DEF Becomes
  <2>2. xf' = [xf EXCEPT ![t].state = "ABORTED"]
    BY <1>9, <2>1
  <2>3. /\ xf'[t].state = "ABORTED" /\ xf'[t].num = xf[t].num /\ xf'[t].live = xf[t].live
        /\ \A u \in Xfers \ {t} : xf'[u] = xf[u]
    BY <1>2, <2>2, StateSet
  <2>4. Lined' /\ (Queued' = Queued \/ Queued' = Queued \ {t})
    <3>1. CASE queue # <<>> /\ Head(queue) = t
      <4>1. queue' = Tail(queue)
        BY <2>1, <3>1
      <4>2. 1 \in 0..Len(queue) /\ Dropped(1) /\ Front(1) = {t}
        BY <3>1, <4>1, TailDrops
      <4> QED BY <4>2, DroppedIs DEF Linked
    <3>2. CASE ~(queue # <<>> /\ Head(queue) = t)
      BY <2>1, <3>2 DEF Linked, Lined, Queued
    <3> QED BY <3>1, <3>2
  <2>5. HeadGivesUp => Queued' = Queued \ {t}
    <3> SUFFICES ASSUME HeadGivesUp PROVE Queued' = Queued \ {t}
      OBVIOUS
    <3>1. t \in Queued
      BY <1>4, <1>9 DEF SyncLink
    <3>2. queue # <<>>
      BY <3>1 DEF Queued
    <3>3. Head(queue) \in Queued
      BY <3>2, QueuedXfers
    <3>4. load.aio = <<>>
      BY <1>5, <1>9 DEF HeadGivesUp
    <3>5. Head(queue) = t
      BY <1>5, <3>3, <3>4, SoleQueued
    <3>6. queue' = Tail(queue)
      BY <2>1, <3>2, <3>5
    <3>7. 1 \in 0..Len(queue) /\ Dropped(1) /\ Front(1) = {t}
      BY <3>2, <3>5, <3>6, TailDrops
    <3> QED BY <3>7, DroppedIs DEF Linked
  <2>6. InFlight'
    BY <1>2, <2>3, <2>4, QueuedXfers DEF Linked, InFlight
  <2>7. SyncLink(r)'
    <3>1. ~more /\ xf'[<<r, 2>>] = xf[<<r, 2>>]
      BY <1>2, <1>9, <2>3
    <3> QED BY <1>1, <1>2, <1>4, <1>6, <2>3, <2>5, <3>1 DEF SyncLink
  <2>8. OnlyOf(r)
    <3> SUFFICES ASSUME NEW q \in Reqs \ {r}
                 PROVE  /\ xf'[<<q, 1>>] = xf[<<q, 1>>] /\ xf'[<<q, 2>>] = xf[<<q, 2>>]
                        /\ <<q, 1>> \in Queued' <=> <<q, 1>> \in Queued
                        /\ <<q, 2>> \in Queued' <=> <<q, 2>> \in Queued
      BY <1>6, <1>7 DEF OnlyOf
    <3>1. <<q, 1>> # t /\ <<q, 2>> # t /\ <<q, 1>> \in Xfers /\ <<q, 2>> \in Xfers
      BY Pairs
    <3> QED BY <2>3, <2>4, <3>1
  <2>9. \A q \in Reqs : Link(q)'
    BY <1>1, <1>4, <2>7, <2>8, LinksKept DEF Linked
  <2>10. CaioLink'
    <3>1. \A q \in Aios : q \in Reqs /\ q # r
      BY <1>3, Kinds
    <3> QED BY <1>1, <1>6, <3>1, CaioKept DEF Linked
  <2> QED BY <2>4, <2>6, <2>9, <2>10 DEF Linked
<1> QED BY <1>8, <1>9

LEMMA SegmentMoves ==
  ASSUME Types, Linked,
         AioSegment \/ AioSegmentLost \/ \E r \in Reqs : AioOverrun(r) \/ AioRefused(r)
  PROVE  Linked'
<1>1. /\ load' = load /\ queue' = queue /\ desc_lock' = desc_lock
      /\ call \in [Reqs -> CallRecs] /\ xf \in [Xfers -> XferRecs] /\ caio \in CaioRecs
      /\ Queued' = Queued
  <2>1. load' = load /\ queue' = queue /\ desc_lock' = desc_lock
    BY DEF AioSegment, AioSegmentLost, AioOverrun, AioRefused, engineVars
  <2>2. Queued' = Queued
    BY <2>1 DEF Queued
  <2> QED BY <2>1, <2>2 DEF Types
<1>2. HeadGivesUp' <=> HeadGivesUp
  BY <1>1, KindKept
<1>3. CASE AioSegment
  <2>1. PICK r \in Reqs : r = load.aio[caio.next] /\ IsAio(r)
    BY <1>3, SegmentIs DEF AioSegment
  <2>2. /\ call[r].pc = "idle" /\ call' = [call EXCEPT ![r].pc = "build", ![r].pinned = TRUE]
        /\ xf' = xf /\ caio' = caio
    BY <1>3, <2>1 DEF AioSegment, engineVars
  <2>3. /\ call'[r].pc = "build" /\ call'[r].left = call[r].left
        /\ \A q \in Reqs \ {r} : call'[q] = call[q]
    BY <1>1, <2>1, <2>2 DEF CallRecs
  <2>4. AioLink(r) /\ (Link(r)' <=> AioLink(r)')
    BY <1>1, <2>1, AioOnly DEF Linked
  <2>5. AioLink(r)'
    BY <1>1, <1>2, <2>2, <2>3, <2>4 DEF AioLink
  <2> QED BY <1>1, <2>1, <2>2, <2>3, <2>4, <2>5, StageStep
<1>4. ASSUME NEW r \in Reqs, AioOverrun(r) PROVE Linked'
  <2>1. /\ IsAio(r) /\ call[r].pc = "build" /\ call' = [call EXCEPT ![r].pc = "overrun"]
        /\ xf' = xf /\ caio' = caio
    BY <1>4 DEF AioOverrun, Move, engineVars
  <2>2. /\ call'[r].pc = "overrun" /\ call'[r].left = call[r].left
        /\ \A q \in Reqs \ {r} : call'[q] = call[q]
    BY <1>1, <2>1 DEF CallRecs
  <2>3. AioLink(r) /\ (Link(r)' <=> AioLink(r)')
    BY <1>1, <2>1, AioOnly DEF Linked
  <2>4. AioLink(r)'
    BY <1>1, <1>2, <2>1, <2>2, <2>3 DEF AioLink
  <2> QED BY <1>1, <2>1, <2>2, <2>3, <2>4, StageStep
<1>5. ASSUME NEW r \in Reqs, AioRefused(r) PROVE Linked'
  <2> DEFINE a == <<r, 1>>
             b == <<r, 2>>
  <2>1. /\ IsAio(r) /\ call[r].pc = "submit" /\ call' = [call EXCEPT ![r].pc = "lost"]
        /\ xf' = [xf EXCEPT ![a].live = FALSE, ![b].live = FALSE]
        /\ caio' = [caio EXCEPT !.next = @ + 1]
    BY <1>5 DEF AioRefused
  <2>2. /\ call'[r].pc = "lost" /\ call'[r].left = call[r].left
        /\ \A q \in Reqs \ {r} : call'[q] = call[q]
    BY <1>1, <2>1 DEF CallRecs
  <2>3. a \in Xfers /\ b \in Xfers /\ a # b
    BY Pairs
  <2>4. /\ xf'[a].state = xf[a].state /\ xf'[a].num = xf[a].num /\ xf'[a].last = xf[a].last
        /\ xf'[b].state = xf[b].state /\ xf'[b].num = xf[b].num /\ xf'[b].last = xf[b].last
        /\ \A u \in Xfers \ {a, b} : xf'[u] = xf[u]
    <3> HIDE DEF a, b
    <3> QED BY <1>1, <2>1, <2>3 DEF XferRecs
  <2>5. AioLink(r) /\ (Link(r)' <=> AioLink(r)')
    BY <1>1, <2>1, AioOnly DEF Linked
  <2>6. AioLink(r)'
    BY <1>1, <1>2, <2>1, <2>2, <2>4, <2>5 DEF AioLink
  <2>7. \A q \in Reqs \ {r} : xf'[<<q, 1>>] = xf[<<q, 1>>] /\ xf'[<<q, 2>>] = xf[<<q, 2>>]
    <3> TAKE q \in Reqs \ {r}
    <3>1. <<q, 1>> \in Xfers \ {a, b} /\ <<q, 2>> \in Xfers \ {a, b}
      BY Pairs
    <3> QED BY <2>4, <3>1
  <2>8. caio'.cmpl = caio.cmpl /\ caio'.st = caio.st
    BY <1>1, <2>1 DEF CaioRecs
  <2> QED BY <1>1, <2>1, <2>2, <2>4, <2>5, <2>6, <2>7, <2>8, StageStep
<1>6. CASE AioSegmentLost
  <2>1. PICK r \in Reqs : r = load.aio[caio.next] /\ IsAio(r)
    BY <1>6, SegmentIs DEF AioSegmentLost
  <2>2. /\ call[r].pc = "idle" /\ call' = [call EXCEPT ![r].pc = "lost", ![r].pinned = TRUE]
        /\ xf' = xf /\ caio' = [caio EXCEPT !.next = @ + 1]
    BY <1>6, <2>1 DEF AioSegmentLost, engineVars
  <2>3. /\ call'[r].pc = "lost" /\ call'[r].left = call[r].left
        /\ \A q \in Reqs \ {r} : call'[q] = call[q]
    BY <1>1, <2>1, <2>2 DEF CallRecs
  <2>4. AioLink(r) /\ (Link(r)' <=> AioLink(r)')
    BY <1>1, <2>1, AioOnly DEF Linked
  <2>5. AioLink(r)'
    BY <1>1, <1>2, <2>2, <2>3, <2>4 DEF AioLink
  <2>6. caio'.cmpl = caio.cmpl /\ caio'.st = caio.st
    BY <1>1, <2>2 DEF CaioRecs
  <2> QED BY <1>1, <2>1, <2>2, <2>3, <2>4, <2>5, <2>6, StageStep
<1> QED BY <1>3, <1>4, <1>5, <1>6

-----------------------------------------------------------------------------
(* The performance test                                                    *)

LEMMA PerfLinked ==
  ASSUME Types, Types', Linked, NEW r \in Reqs,
         PerfStart(r) \/ PerfStartRefused(r) \/ PerfStop(r)
  PROVE  Linked'
<1>1. /\ load' = load /\ desc_lock' = desc_lock /\ caio' = caio /\ r \in load.perf
      /\ call \in [Reqs -> CallRecs] /\ xf \in [Xfers -> XferRecs]
  <2>1. /\ load' = load /\ desc_lock' = desc_lock /\ caio' = caio /\ r \in load.perf
    BY Zenon DEF PerfStart, PerfStartRefused, PerfStop
  <2> QED BY <2>1 DEF Types
<1>2. /\ r \notin load.sync /\ ~IsAio(r) /\ ~HeadGivesUp
      /\ (IsAio(r)' <=> IsAio(r)) /\ (HeadGivesUp' <=> HeadGivesUp)
  BY <1>1, Kinds, KindKept DEF HeadGivesUp
<1>3. OtherLink(r) /\ (Link(r)' <=> OtherLink(r)')
  BY <1>1, <1>2 DEF Linked, Link
<1>4. \A q \in Aios : q \in Reqs /\ q # r
  BY <1>2, Kinds
<1>5. CASE PerfStart(r)
  <2> DEFINE t == <<r, 1>>
             T == [state |-> "NEW", num |-> PerfDescs, at |-> 0, last |-> FALSE,
                   cyclic |-> TRUE, live |-> TRUE]
             x == [xf EXCEPT ![t] = T]
             F == [E EXCEPT !.xf[t] = T]
  <2>1. /\ Becomes(QueueXfer(F, t)) /\ call[r].pc = "idle"
        /\ call' = [call EXCEPT ![r].pc = "flying", ![r].pinned = TRUE]
    BY <1>5, Zenon DEF PerfStart
  <2>2. T \in XferRecs
    <3>1. DescMax > 1
      BY <1>1, LoadTypes
    <3> QED BY <3>1, Ring DEF XferRecs, XStates, PerfDescs
  <2>3. t \in Xfers /\ <<r, 2>> \in Xfers /\ t # <<r, 2>>
    BY Pairs
  <2> HIDE DEF T
  <2>4. F = [E EXCEPT !.xf = x] /\ x \in [Xfers -> XferRecs]
    BY <1>1, <2>2, <2>3 DEF E
  <2>5. E \in States
    BY StateOfE
  <2> HIDE DEF F, x
  <2>6. F \in States /\ F.queue = queue /\ F.xf = x
    <3>1. F \in States
      BY <2>4, <2>5 DEF States
    <3> QED BY <2>4, <3>1 DEF E
  <2>7. queue' = Append(queue, t) /\ xf' = [x EXCEPT ![t].state = "SUBMITTED"]
    <3>1. /\ QueueXfer(F, t).queue = Append(queue, t)
          /\ QueueXfer(F, t).xf = [x EXCEPT ![t].state = "SUBMITTED"]
      BY <2>3, <2>6, QueueXferIs
    <3> QED BY <2>1, <3>1 DEF Becomes
  <2>8. xf'[t].state = "SUBMITTED" /\ \A u \in Xfers \ {t} : xf'[u] = xf[u]
    <3>1. xf'[t].state = "SUBMITTED" /\ \A u \in Xfers \ {t} : xf'[u] = x[u]
      BY <2>3, <2>4, <2>7 DEF XferRecs
    <3>2. \A u \in Xfers \ {t} : x[u] = xf[u]
      BY <1>1 DEF x
    <3> QED BY <3>1, <3>2
  <2>9. /\ call'[r].pc = "flying" /\ \A q \in Reqs \ {r} : call'[q] = call[q]
    BY <1>1, <2>1 DEF CallRecs
  <2>10. xf[t].state = "NEW" /\ xf[<<r, 2>>].state = "NEW"
    BY <1>3, <2>1 DEF OtherLink
  <2>11. Link(r)' /\ CaioLink' => Linked'
    BY <1>1, <2>7, <2>8, <2>9, <2>10, AppendStep
  <2>12. OtherLink(r)'
    <3>1. xf'[<<r, 2>>] = xf[<<r, 2>>]
      BY <2>3, <2>8
    <3> QED BY <1>1, <1>3, <2>9, <3>1 DEF OtherLink
  <2>13. CaioLink'
    BY <1>1, <1>4, <2>9, CaioKept DEF Linked
  <2> QED BY <1>3, <2>11, <2>12, <2>13
<1>6. CASE PerfStop(r)
  <2> DEFINE t == Head(queue)
             c == xf[t].cyclic
             p == IF c THEN "stopped" ELSE call[r].pc
             b == call[r].pinned /\ ~c
  <2>1. /\ queue # <<>> /\ t = Head(queue)
        /\ queue' = IF c THEN Tail(queue) ELSE queue
        /\ xf' = [xf EXCEPT ![t].live = FALSE]
        /\ call' = [call EXCEPT ![r].pc = p, ![r].pinned = b]
        /\ p = call[r].pc \/ p = "stopped"
    BY <1>1, <1>6 DEF PerfStop
  <2> HIDE DEF t, c, p, b
  <2>2. t \in Xfers /\ t \in Queued
    BY <2>1, QueuedXfers
  <2>3. /\ \A u \in Xfers : /\ xf'[u].state = xf[u].state /\ xf'[u].num = xf[u].num
                            /\ xf'[u].last = xf[u].last
    BY <1>1, <2>1, <2>2 DEF XferRecs
  <2>4. /\ call'[r].pc = p /\ \A q \in Reqs \ {r} : call'[q] = call[q]
        /\ \A q \in Reqs : call'[q].left = call[q].left
    BY <1>1, <2>1 DEF CallRecs
  <2>5. Lined' /\ Queued' \subseteq Queued
    <3>1. CASE c
      <4>1. queue' = Tail(queue)
        BY <2>1, <3>1
      <4>2. 1 \in 0..Len(queue) /\ Dropped(1)
        BY <2>1, <4>1, TailDrops
      <4> QED BY <4>2, DroppedIs DEF Linked
    <3>2. CASE ~c
      BY <2>1, <3>2 DEF Linked, Lined, Queued
    <3> QED BY <3>1, <3>2
  <2>6. InFlight'
    BY <2>3, <2>5, QueuedXfers DEF Linked, InFlight
  <2>7. ASSUME NEW q \in Reqs, q # r PROVE Link(q)'
    <3>1. /\ Link(q) /\ call'[q] = call[q] /\ (IsAio(q)' <=> IsAio(q))
          /\ <<q, 1>> \in Xfers /\ <<q, 2>> \in Xfers
      BY <1>1, <2>4, <2>7, Pairs, KindKept DEF Linked
    <3>2. \A k \in {1, 2} : /\ xf'[<<q, k>>].state = xf[<<q, k>>].state
                            /\ xf'[<<q, k>>].num = xf[<<q, k>>].num
                            /\ xf'[<<q, k>>].last = xf[<<q, k>>].last
      BY <2>3, <3>1
    <3>3. SyncLink(q) => SyncLink(q)'
      BY <1>1, <1>2, <3>1, <3>2 DEF SyncLink
    <3>4. AioLink(q) => AioLink(q)'
      BY <1>1, <1>2, <2>5, <3>1, <3>2 DEF AioLink
    <3>5. OtherLink(q) => OtherLink(q)'
      BY <1>1, <3>1, <3>2 DEF OtherLink
    <3> QED BY <1>1, <3>1, <3>3, <3>4, <3>5 DEF Link
  <2>8. Link(r)'
    <3>1. <<r, 1>> \in Xfers /\ <<r, 2>> \in Xfers
      BY Pairs
    <3> QED BY <1>1, <1>3, <2>1, <2>3, <2>4, <3>1 DEF OtherLink
  <2>9. CaioLink'
    BY <1>1, <1>4, <2>4, CaioKept DEF Linked
  <2> QED BY <2>5, <2>6, <2>7, <2>8, <2>9 DEF Linked
<1>7. CASE PerfStartRefused(r)
  <2>1. /\ call' = [call EXCEPT ![r].pc = "lost"] /\ xf' = xf /\ queue' = queue
        /\ call[r].pc = "idle"
    BY <1>7, Zenon DEF PerfStartRefused
  <2>2. /\ call'[r].pc = "lost" /\ \A q \in Reqs \ {r} : call'[q] = call[q]
        /\ \A q \in Reqs : call'[q].left = call[q].left
    BY <1>1, <2>1 DEF CallRecs
  <2>3. OtherLink(r)'
    BY <1>1, <1>3, <2>1, <2>2 DEF OtherLink
  <2> QED BY <1>1, <1>2, <1>3, <1>4, <2>1, <2>2, <2>3, StageStep
<1> QED BY <1>5, <1>6, <1>7

-----------------------------------------------------------------------------
(* Service                                                                 *)

(* The transfers of T, and those who are told, after k of the queue were   *)
(* served                                                                  *)
LEMMA ServedFields ==
  ASSUME Types, NEW S \in States, NEW k \in 0..Len(queue), Served(E, S, k)
  PROVE  /\ \A t \in Xfers :
              /\ S.xf[t].num = xf[t].num /\ S.xf[t].at = xf[t].at
              /\ S.xf[t].last = xf[t].last /\ S.xf[t].cyclic = xf[t].cyclic
              /\ S.xf[t].live = xf[t].live
              /\ t \in Front(k) => S.xf[t].state \in {"COMPLETED", "FAILED"}
              /\ t \notin Front(k) => S.xf[t] = xf[t]
         /\ S.queue = SubSeq(queue, k + 1, Len(queue))
         /\ S.done \in Seq(Xfers) /\ DOMAIN S.done = 1..k
         /\ \A i \in 1..k : S.done[i] = queue[i] /\ S.done[i] \in Front(k)
         /\ Front(k) \subseteq Xfers
<1>1. /\ queue \in Seq(Xfers) /\ xf \in [Xfers -> XferRecs] /\ Len(queue) \in Nat
      /\ Front(k) \subseteq Xfers /\ k \in Nat
  <2>1. Len(queue) \in Nat /\ DOMAIN queue = 1..Len(queue) /\ Queued \subseteq Xfers
    BY QueuedXfers
  <2>2. Front(k) \subseteq Queued
    BY <2>1 DEF Front, Queued
  <2> QED BY <2>1, <2>2 DEF Types
<1>2. /\ S.queue = SubSeq(queue, k + 1, Len(queue)) /\ S.done = SubSeq(queue, 1, k)
      /\ \A t \in Xfers :
           IF t \in Front(k)
           THEN \E st \in {"COMPLETED", "FAILED"} : S.xf[t] = [xf[t] EXCEPT !.state = st]
           ELSE S.xf[t] = xf[t]
  <2>1. E.queue = queue /\ E.xf = xf
    BY DEF E
  <2>2. \A t : (\E j \in 1..k : queue[j] = t) <=> t \in Front(k)
    BY DEF Front
  <2>3. /\ S.queue = SubSeq(queue, k + 1, Len(queue)) /\ S.done = SubSeq(queue, 1, k)
        /\ \A t \in Xfers :
             IF \E j \in 1..k : queue[j] = t
             THEN \E st \in {"COMPLETED", "FAILED"} : S.xf[t] = [xf[t] EXCEPT !.state = st]
             ELSE S.xf[t] = xf[t]
    BY <2>1, ZenonT(40) DEF Served
  <2> QED BY <2>2, <2>3
<1>3. /\ S.done \in Seq(Xfers) /\ Len(S.done) = k /\ DOMAIN S.done = 1..k
      /\ \A i \in 1..k : S.done[i] = queue[i]
  <2>1. S.done \in Seq(Xfers)
    BY DEF States
  <2>2. Len(S.done) = k /\ \A i \in 1..k : S.done[i] = queue[i]
    BY <1>1, <1>2, SubSeqProperties
  <2> QED BY <2>1, <2>2, LenProperties
<1>4. \A i \in 1..k : S.done[i] \in Front(k)
  BY <1>3 DEF Front
<1>5. ASSUME NEW t \in Xfers
      PROVE  /\ S.xf[t].num = xf[t].num /\ S.xf[t].at = xf[t].at
             /\ S.xf[t].last = xf[t].last /\ S.xf[t].cyclic = xf[t].cyclic
             /\ S.xf[t].live = xf[t].live
             /\ t \in Front(k) => S.xf[t].state \in {"COMPLETED", "FAILED"}
             /\ t \notin Front(k) => S.xf[t] = xf[t]
  <2>1. xf[t] \in XferRecs
    BY <1>1
  <2>2. CASE t \in Front(k)
    <3>1. PICK st \in {"COMPLETED", "FAILED"} : S.xf[t] = [xf[t] EXCEPT !.state = st]
      BY <1>2, <2>2
    <3> QED BY <2>1, <2>2, <3>1 DEF XferRecs
  <2>3. CASE t \notin Front(k)
    BY <1>2, <2>3
  <2> QED BY <2>2, <2>3
<1> QED BY <1>1, <1>2, <1>3, <1>4, <1>5

LEMMA SubSeqDrops ==
  ASSUME Types, NEW k \in 0..Len(queue), queue' = SubSeq(queue, k + 1, Len(queue))
  PROVE  Dropped(k)
<1>1. queue \in Seq(Xfers) /\ Len(queue) \in Nat /\ k \in Nat
  BY QueuedXfers DEF Types
<1>2. /\ Len(SubSeq(queue, k + 1, Len(queue))) = Len(queue) - k
      /\ \A i \in 1..(Len(queue) - k) : SubSeq(queue, k + 1, Len(queue))[i] = queue[i + k]
  <2>1. CASE k = Len(queue)
    BY <1>1, <2>1, SubSeqProperties
  <2>2. CASE k # Len(queue)
    BY <1>1, <2>2, SubSeqProperties
  <2> QED BY <2>1, <2>2
<1> QED BY <1>2 DEF Dropped

LEMMA ToldAre ==
  ASSUME Types, NEW S \in States, NEW k \in 0..Len(queue), Served(E, S, k), NEW r
  PROVE  r \in Notified(S) <=>
           /\ IsAio(r)
           /\ \/ <<r, 1>> \in Front(k) /\ xf[<<r, 1>>].last
              \/ <<r, 2>> \in Front(k) /\ xf[<<r, 2>>].last
<1>1. /\ DOMAIN S.done = 1..k /\ Front(k) \subseteq Xfers
      /\ \A i \in 1..k : S.done[i] = queue[i] /\ S.done[i] \in Front(k)
      /\ \A t \in Xfers : S.xf[t].last = xf[t].last
  BY ServedFields
<1>2. Notified(S) = {t[1] : t \in {S.done[i] : i \in {j \in 1..k :
                   S.xf[S.done[j]].last /\ IsAio(S.done[j][1])}}}
  BY <1>1 DEF Notified
<1>3. ASSUME r \in Notified(S)
      PROVE  /\ IsAio(r)
             /\ \/ <<r, 1>> \in Front(k) /\ xf[<<r, 1>>].last
                \/ <<r, 2>> \in Front(k) /\ xf[<<r, 2>>].last
  <2>1. PICK i \in 1..k : S.xf[S.done[i]].last /\ IsAio(S.done[i][1]) /\ r = S.done[i][1]
    BY <1>2, <1>3
  <2> DEFINE t == S.done[i]
  <2>2. t \in Front(k) /\ t \in Xfers /\ xf[t].last
    BY <1>1, <2>1
  <2>3. t = <<r, t[2]>> /\ t[2] \in {1, 2}
    BY <2>1, <2>2, PairOf
  <2> QED BY <2>1, <2>2, <2>3
<1>4. ASSUME IsAio(r), NEW t \in Front(k), t = <<r, 1>> \/ t = <<r, 2>>, xf[t].last
      PROVE  r \in Notified(S)
  <2>1. PICK i \in 1..k : t = queue[i]
    BY DEF Front
  <2>2. S.done[i] = t /\ S.xf[t].last /\ t[1] = r
    BY <1>1, <1>4, <2>1
  <2> QED BY <1>2, <1>4, <2>2
<1> QED BY <1>3, <1>4

LEMMA HandledFields ==
  ASSUME Types, NEW S \in States, NEW k \in 0..Len(queue), Served(E, S, k), Handled(S)
  PROVE  /\ \A t \in Xfers :
              /\ xf'[t].num = xf[t].num /\ xf'[t].at = xf[t].at
              /\ xf'[t].last = xf[t].last /\ xf'[t].cyclic = xf[t].cyclic
              /\ xf'[t].state = S.xf[t].state
              /\ t \in Front(k) => xf'[t].state \in {"COMPLETED", "FAILED"}
              /\ t \notin Front(k) => xf'[t].state = xf[t].state
              /\ t[1] \notin Notified(S) => xf'[t].live = xf[t].live
              /\ t \notin Front(k) /\ t[1] \notin Notified(S) => xf'[t] = xf[t]
         /\ Dropped(k)
         /\ \A r \in Reqs : r \notin Notified(S) => call'[r] = call[r]
         /\ \A r \in Notified(S) :
              /\ r \in Reqs /\ call'[r].pc = "returned" /\ call'[r].left = call[r].left
              /\ call'[r].done = Counted(S, r) /\ ~call'[r].pinned
              /\ call'[r].failed = (Counted(S, r) # DescsOf[r])
              /\ call'[r].res = IF Counted(S, r) = DescsOf[r] THEN "all"
                                ELSE IF Counted(S, r) > 0 THEN "some" ELSE "error"
<1> DEFINE R == Notified(S)
<1>1. /\ \A t \in Xfers :
           /\ S.xf[t].num = xf[t].num /\ S.xf[t].at = xf[t].at
           /\ S.xf[t].last = xf[t].last /\ S.xf[t].cyclic = xf[t].cyclic
           /\ S.xf[t].live = xf[t].live
           /\ t \in Front(k) => S.xf[t].state \in {"COMPLETED", "FAILED"}
           /\ t \notin Front(k) => S.xf[t] = xf[t]
      /\ S.queue = SubSeq(queue, k + 1, Len(queue))
  BY ServedFields
<1>2. /\ queue' = S.queue
      /\ xf' = [t \in Xfers |-> IF t[1] \in R THEN [S.xf[t] EXCEPT !.live = FALSE]
                                ELSE S.xf[t]]
      /\ call' = [r \in Reqs |->
                    IF r \in R
                    THEN [call[r] EXCEPT
                            !.pc = "returned", !.pinned = FALSE,
                            !.done = Counted(S, r),
                            !.failed = Counted(S, r) # DescsOf[r],
                            !.res = IF Counted(S, r) = DescsOf[r] THEN "all"
                                    ELSE IF Counted(S, r) > 0 THEN "some"
                                    ELSE "error"]
                    ELSE call[r]]
  BY DEF Handled
<1>3. R \subseteq Reqs
  BY NotifiedIs
<1> HIDE DEF R
<1>4. ASSUME NEW t \in Xfers
      PROVE  /\ xf'[t].num = S.xf[t].num /\ xf'[t].at = S.xf[t].at
             /\ xf'[t].last = S.xf[t].last /\ xf'[t].cyclic = S.xf[t].cyclic
             /\ xf'[t].state = S.xf[t].state
             /\ t[1] \notin R => xf'[t] = S.xf[t]
  <2>1. S.xf[t] \in XferRecs
    BY DEF States
  <2>2. xf'[t] = IF t[1] \in R THEN [S.xf[t] EXCEPT !.live = FALSE] ELSE S.xf[t]
    BY <1>2
  <2> QED BY <2>1, <2>2 DEF XferRecs
<1>5. Dropped(k)
  BY <1>1, <1>2, SubSeqDrops
<1>6. ASSUME NEW r \in R
      PROVE  /\ r \in Reqs /\ call'[r].pc = "returned" /\ call'[r].left = call[r].left
             /\ call'[r].done = Counted(S, r) /\ call'[r].pinned = FALSE
             /\ call'[r].failed = (Counted(S, r) # DescsOf[r])
             /\ call'[r].res = IF Counted(S, r) = DescsOf[r] THEN "all"
                               ELSE IF Counted(S, r) > 0 THEN "some" ELSE "error"
  <2> DEFINE f == Counted(S, r) # DescsOf[r]
             a == IF Counted(S, r) = DescsOf[r] THEN "all"
                  ELSE IF Counted(S, r) > 0 THEN "some" ELSE "error"
             d == Counted(S, r)
  <2>1. call[r] \in CallRecs /\ r \in Reqs
    BY <1>3 DEF Types
  <2>2. call'[r] = [call[r] EXCEPT !.pc = "returned", !.pinned = FALSE, !.done = d,
                                   !.failed = f, !.res = a]
    BY <1>2, <2>1
  <2> HIDE DEF f, a, d
  <2>3. /\ call'[r].pc = "returned" /\ call'[r].left = call[r].left /\ call'[r].done = d
        /\ call'[r].pinned = FALSE /\ call'[r].failed = f /\ call'[r].res = a
    BY <2>1, <2>2 DEF CallRecs
  <2> QED BY <2>1, <2>3 DEF f, a, d
<1>7. \A r \in Reqs : r \notin R => call'[r] = call[r]
  BY <1>2
<1>8. ASSUME NEW t \in Xfers
      PROVE  /\ xf'[t].num = xf[t].num /\ xf'[t].at = xf[t].at
             /\ xf'[t].last = xf[t].last /\ xf'[t].cyclic = xf[t].cyclic
             /\ xf'[t].state = S.xf[t].state
             /\ t \in Front(k) => xf'[t].state \in {"COMPLETED", "FAILED"}
             /\ t \notin Front(k) => xf'[t].state = xf[t].state
             /\ t[1] \notin R => xf'[t].live = xf[t].live
             /\ t \notin Front(k) /\ t[1] \notin R => xf'[t] = xf[t]
  BY <1>1, <1>4
<1>9. \A r \in R : ~call'[r].pinned
  BY <1>6
<1> USE DEF R
<1> QED BY <1>5, <1>6, <1>7, <1>8, <1>9

LEMMA HandledLinked ==
  ASSUME Types, Types', Linked, NEW S \in States, NEW k \in 0..Len(queue), Served(E, S, k),
         Handled(S), load' = load, desc_lock' = desc_lock
  PROVE  /\ Linked'
         /\ \A r \in Notified(S) : IsAio(r) /\ call[r].pc = "flying"
<1> DEFINE R == Notified(S)
<1>1. /\ \A t \in Xfers :
           /\ xf'[t].num = xf[t].num /\ xf'[t].last = xf[t].last
           /\ t \in Front(k) => xf'[t].state \in {"COMPLETED", "FAILED"}
           /\ t \notin Front(k) => xf'[t].state = xf[t].state
           /\ t[1] \notin R => xf'[t].live = xf[t].live
           /\ t \notin Front(k) /\ t[1] \notin R => xf'[t] = xf[t]
      /\ Dropped(k)
      /\ \A r \in Reqs : r \notin R => call'[r] = call[r]
      /\ \A r \in R : r \in Reqs /\ call'[r].pc = "returned" /\ call'[r].left = call[r].left
  BY HandledFields
<1>2. \A r : r \in R <=> /\ IsAio(r)
                         /\ \/ <<r, 1>> \in Front(k) /\ xf[<<r, 1>>].last
                            \/ <<r, 2>> \in Front(k) /\ xf[<<r, 2>>].last
  BY ToldAre
<1> HIDE DEF R
<1>3. /\ Lined' /\ Queued' = Queued \ Front(k) /\ Front(k) \subseteq Queued
      /\ \A r : <<r, 2>> \in Front(k) => <<r, 1>> \notin Queued'
  BY <1>1, DroppedIs DEF Linked
<1>4. \A t \in Front(k) : xf[t].state # "NEW" /\ t \in Xfers
  BY <1>3, QueuedXfers DEF Linked, InFlight
<1>5. InFlight'
  BY <1>1, <1>3, QueuedXfers DEF Linked, InFlight
<1>6. HeadGivesUp' <=> HeadGivesUp
  BY KindKept
<1>7. ASSUME NEW r \in R
      PROVE  /\ IsAio(r) /\ call[r].pc = "flying" /\ AioLink(r) /\ r \in Reqs
             /\ <<r, 1>> \notin Queued' /\ <<r, 2>> \notin Queued'
  <2>1. IsAio(r) /\ r \in Reqs
    BY <1>1, <1>2
  <2>2. AioLink(r)
    BY <2>1, AioOnly DEF Linked
  <2>3. <<r, 1>> \in Xfers /\ <<r, 2>> \in Xfers
    BY <2>1, Pairs
  <2>4. xf[<<r, 2>>].num = 0 \/ xf[<<r, 2>>].num > 0
    <3>1. xf[<<r, 2>>].num \in 0..DescMax
      BY <2>3 DEF Types, XferRecs
    <3> QED BY <3>1, Ring
  <2>5. CASE <<r, 1>> \in Front(k) /\ xf[<<r, 1>>].last
    <3>1. xf[<<r, 1>>].state # "NEW" /\ <<r, 1>> \in Queued
      BY <1>3, <1>4, <2>5
    <3>2. xf[<<r, 2>>].num = 0 /\ xf[<<r, 2>>].state = "NEW"
      BY <2>2, <2>4, <2>5 DEF AioLink
    <3>3. <<r, 2>> \notin Queued
      BY <3>2 DEF Linked, InFlight
    <3>4. call[r].pc = "flying"
      BY <2>2, <2>5, <3>1, <3>2 DEF AioLink
    <3> QED BY <1>3, <2>1, <2>2, <2>5, <3>3, <3>4
  <2>6. CASE <<r, 2>> \in Front(k) /\ xf[<<r, 2>>].last
    <3>1. xf[<<r, 2>>].state # "NEW" /\ <<r, 2>> \in Queued
      BY <1>3, <1>4, <2>6
    <3>2. call[r].pc = "flying"
      BY <2>2, <2>4, <2>6, <3>1 DEF AioLink
    <3> QED BY <1>3, <2>1, <2>2, <2>6, <3>2
  <2> QED BY <1>2, <2>5, <2>6
<1>8. ASSUME NEW r \in Reqs PROVE Link(r)'
  <2>1. /\ Link(r) /\ (IsAio(r)' <=> IsAio(r))
        /\ <<r, 1>> \in Xfers /\ <<r, 2>> \in Xfers
    BY Pairs, KindKept DEF Linked
  <2>2. \A i \in {1, 2} :
          /\ xf'[<<r, i>>].num = xf[<<r, i>>].num /\ xf'[<<r, i>>].last = xf[<<r, i>>].last
          /\ xf'[<<r, i>>].state = "NEW" <=> xf[<<r, i>>].state = "NEW"
          /\ xf'[<<r, i>>].state = xf[<<r, i>>].state
               \/ /\ <<r, i>> \in Front(k) /\ <<r, i>> \notin Queued'
                  /\ xf'[<<r, i>>].state \in {"COMPLETED", "FAILED"}
          /\ <<r, i>> \in Queued' => <<r, i>> \in Queued
          /\ <<r, i>> \in Queued /\ <<r, i>> \notin Queued' => <<r, i>> \in Front(k)
          /\ r \notin R => xf'[<<r, i>>].live = xf[<<r, i>>].live
    <3> TAKE i \in {1, 2}
    <3> DEFINE t == <<r, i>>
    <3>1. t \in Xfers /\ t[1] = r
      BY <2>1
    <3>2. CASE t \in Front(k)
      BY <1>1, <1>3, <1>4, <3>1, <3>2
    <3>3. CASE t \notin Front(k)
      BY <1>1, <1>3, <1>4, <3>1, <3>3
    <3> QED BY <3>2, <3>3
  <2>3. CASE r \in R
    <3>1. AioLink(r)'
      BY <1>1, <1>7, <2>2, <2>3 DEF AioLink
    <3> QED BY <1>7, <2>1, <2>3, <3>1, AioOnly
  <2>4. CASE r \notin R
    <3>1. call'[r] = call[r]
      BY <1>1, <2>4
    <3>2. ASSUME SyncLink(r) PROVE SyncLink(r)'
      <4>1. CASE <<r, 1>> \in Front(k)
        <5>1. xf[<<r, 1>>].state \in {"SUBMITTED", "ABORTED"} /\ <<r, 1>> \notin Queued'
          BY <1>3, <4>1 DEF Linked, InFlight
        <5>2. xf'[<<r, 1>>].state \in {"COMPLETED", "FAILED"}
          BY <1>1, <2>1, <4>1
        <5> QED BY <1>6, <2>2, <2>4, <3>1, <3>2, <5>1, <5>2 DEF SyncLink
      <4>2. CASE <<r, 1>> \notin Front(k)
        <5>1. xf'[<<r, 1>>] = xf[<<r, 1>>] /\ (<<r, 1>> \in Queued' <=> <<r, 1>> \in Queued)
          <6>1. <<r, 1>>[1] = r
            OBVIOUS
          <6> QED BY <1>1, <1>3, <2>1, <2>4, <4>2, <6>1
        <5> QED BY <1>6, <2>2, <3>1, <3>2, <5>1 DEF SyncLink
      <4> QED BY <4>1, <4>2
    <3>3. ASSUME AioLink(r) PROVE AioLink(r)'
      BY <1>6, <2>2, <2>4, <3>1, <3>3 DEF AioLink
    <3>4. ASSUME OtherLink(r) PROVE OtherLink(r)'
      BY <2>2, <3>1, <3>4 DEF OtherLink
    <3> QED BY <2>1, <3>2, <3>3, <3>4 DEF Link
  <2> QED BY <2>3, <2>4
<1>9. CaioLink'
  <2>1. Aios' = Aios /\ Aios \subseteq Reqs /\ \A r : r \in Aios <=> IsAio(r)
    BY Kinds, KindKept
  <2>2. R \subseteq Aios /\ R \cap Back = {}
    BY <1>7, <2>1 DEF Back
  <2>3. Back' = Back \cup R
    <3>1. Back' = {r \in Aios : call'[r].pc = "returned"}
      BY <2>1 DEF Back
    <3> QED BY <1>1, <2>1, <2>2, <3>1 DEF Back
  <2>4. IsFiniteSet(Aios)
    BY AiosFinite
  <2>5. IsFiniteSet(R) /\ IsFiniteSet(Back)
    BY <2>2, <2>4, FS_Subset DEF Back
  <2>6. /\ Cardinality(R) \in Nat /\ Cardinality(Back) \in Nat
        /\ Cardinality(Back') = Cardinality(Back) + Cardinality(R)
    <3>1. R \cap Back = {} /\ Cardinality(R) \in Nat /\ Cardinality(Back) \in Nat
      BY <2>2, <2>5, FS_CardinalityType
    <3>2. Cardinality(Back \cup R) =
            Cardinality(Back) + Cardinality(R) - Cardinality(Back \cap R)
      BY <2>5, FS_Union
    <3>3. Back \cap R = {} /\ Cardinality({}) = 0
      BY <3>1, FS_EmptySet
    <3>4. Cardinality(Back \cap R) = 0
      BY <3>3, Zenon
    <3>5. Cardinality(Back') = Cardinality(Back \cup R)
      BY <2>3, Zenon
    <3> HIDE DEF Back
    <3> QED BY <3>1, <3>2, <3>4, <3>5
  <2>7. /\ caio \in CaioRecs /\ Segments = Len(load.aio)
    BY DEF Types, Segments
  <2>8. CASE R = {} \/ caio.st = "freed"
    <3>1. caio' = caio
      BY <2>8 DEF Handled, R
    <3>2. caio.cmpl <= Cardinality(Back')
      BY <2>6, <2>7 DEF Linked, CaioLink, CaioRecs
    <3> QED BY <2>1, <3>1, <3>2 DEF Linked, CaioLink
  <2>9. CASE ~(R = {} \/ caio.st = "freed")
    <3> DEFINE n == caio.cmpl + Cardinality(R)
    <3>1. caio' = IF n = Segments
                  THEN [caio EXCEPT !.cmpl = n, !.st = "freed", !.notified = @ + 1]
                  ELSE [caio EXCEPT !.cmpl = n]
      BY <2>9 DEF Handled, R, CallComplete
    <3>2. caio'.cmpl = n /\ (caio'.st = "freed" => n = Segments)
      <4> HIDE DEF n
      <4> QED BY <2>7, <2>9, <3>1 DEF CaioRecs
    <3>3. n <= Cardinality(Back')
      BY <2>6, <2>7 DEF Linked, CaioLink, CaioRecs
    <3> QED BY <2>7, <3>2, <3>3 DEF CaioLink
  <2> QED BY <2>8, <2>9
<1> QED BY <1>3, <1>5, <1>7, <1>8, <1>9 DEF Linked, R

(* Every situation keeps the links.                                        *)
LEMMA LinkedStart == Types /\ Init => Linked
<1> SUFFICES ASSUME Types, Init PROVE Linked
  OBVIOUS
<1>1. /\ \A t \in Xfers : xf[t] = NewXfer
      /\ \A r \in Reqs : call[r].pc = "idle" /\ call[r].left = DescsOf[r]
      /\ desc_lock = NoReq /\ queue = <<>> /\ caio.cmpl = 0 /\ caio.st = "none"
  BY DEF Init, FileInit, EngineInit
<1>2. Queued = {} /\ DOMAIN queue = {}
  BY <1>1 DEF Queued
<1>3. Lined /\ InFlight
  BY <1>2 DEF Lined, InFlight
<1>4. ASSUME NEW r \in Reqs PROVE Link(r)
  <2>1. /\ xf[<<r, 1>>] = NewXfer /\ xf[<<r, 2>>] = NewXfer /\ call[r].left > 0
        /\ desc_lock # r /\ call[r].pc = "idle"
    BY <1>1, Pairs, Requests
  <2>2. SyncLink(r)
    BY <1>2, <2>1 DEF SyncLink, NewXfer
  <2>3. AioLink(r)
    BY <1>2, <2>1 DEF AioLink, NewXfer
  <2>4. OtherLink(r)
    BY <2>1 DEF OtherLink, NewXfer
  <2> QED BY <2>2, <2>3, <2>4 DEF Link
<1>5. CaioLink
  <2>1. Back \subseteq Aios
    BY DEF Back
  <2>2. Cardinality(Back) \in Nat
    BY <2>1, AiosFinite, FS_Subset, FS_CardinalityType
  <2> QED BY <1>1, <2>2 DEF CaioLink
<1> QED BY <1>3, <1>4, <1>5 DEF Linked

LEMMA ServiceIsServed ==
  ASSUME Types, ServiceWork \/ ServicePoll
  PROVE  \E S \in States : \E k \in 0..Len(queue) : Served(E, S, k) /\ Handled(S)
<1>1. E \in States /\ E.done = <<>> /\ E.queue = queue
  BY StateOfE DEF E
<1>2. PICK wb \in WbRecs : Handled(Service(E, wb))
  <2>1. CASE ServiceWork
    BY <2>1, Records DEF ServiceWork
  <2>2. CASE ServicePoll
    BY <2>2 DEF ServicePoll, Types, PollRecs
  <2> QED BY <2>1, <2>2
<1>3. /\ Service(E, wb) \in States
      /\ \E k \in 0..Len(queue) : Served(E, Service(E, wb), k)
  BY <1>1, ServiceServes
<1> QED BY <1>2, <1>3

LEMMA LinkedKept ==
  ASSUME Types, Types', Linked, [Next]_vars
  PROVE  Linked'
<1>1. CASE UNCHANGED vars
  BY <1>1, LinkedApart DEF vars, engineVars, fileVars
<1>2. CASE \E r \in Reqs : \/ Enter(r) \/ EnterFails(r) \/ CallStep(r) \/ GiveUp(r)
                           \/ PerfStart(r) \/ PerfStartRefused(r) \/ PerfStartFails(r) \/ PerfStop(r)
  <2>1. PICK r \in Reqs : \/ Enter(r) \/ EnterFails(r) \/ CallStep(r) \/ GiveUp(r)
                          \/ PerfStart(r) \/ PerfStartRefused(r) \/ PerfStartFails(r) \/ PerfStop(r)
    BY <1>2
  <2>2. CASE PerfStartFails(r)
    BY <2>2, LinkedApart DEF PerfStartFails, engineVars
  <2> QED BY <2>1, <2>2, WaiterMoves, BuildLinked, SubmitLinked, CheckLinked, PerfLinked
          DEF CallStep
<1>3. CASE AioEnter \/ AioSegmentBad \/ AioReturn
  <2>1. caio \in CaioRecs
    BY DEF Types
  <2>2. CASE AioEnter
    <3>1. caio'.cmpl = caio.cmpl /\ caio'.st # "freed"
      BY <2>1, <2>2 DEF AioEnter, CaioRecs
    <3> QED BY <2>2, <3>1, LinkedApart DEF AioEnter, engineVars
  <2>3. CASE AioSegmentBad
    <3>1. caio'.cmpl = caio.cmpl
      BY <2>1, <2>3 DEF AioSegmentBad, CaioRecs
    <3>2. load.aio[caio.next] \in Aios \cap load.bad
      BY <2>3, SegmentIs DEF AioSegmentBad, Aios
    <3>3. Aios \cap load.bad # {}
      BY <3>2
    <3> QED BY <2>3, <3>1, <3>3, LinkedApart DEF AioSegmentBad, engineVars
  <2>4. CASE AioReturn
    <3>1. caio'.cmpl = caio.cmpl /\ caio'.st = caio.st
      BY <2>1, <2>4 DEF AioReturn, CaioRecs
    <3> QED BY <2>4, <3>1, LinkedApart DEF AioReturn
  <2> QED BY <1>3, <2>2, <2>3, <2>4
<1>4. CASE AioSegment \/ AioSegmentLost \/ \E r \in Reqs : \/ AioBuild(r) \/ AioOverrun(r)
                                         \/ AioSubmit(r) \/ AioRefused(r)
  BY <1>4, SegmentMoves, BuildLinked, SubmitLinked
<1>5. CASE ServiceWork \/ ServicePoll
  <2>1. PICK S \in States : \E k \in 0..Len(queue) : Served(E, S, k) /\ Handled(S)
    BY <1>5, ServiceIsServed
  <2>2. PICK k \in 0..Len(queue) : Served(E, S, k) /\ Handled(S)
    BY <2>1
  <2>3. load' = load /\ desc_lock' = desc_lock
    BY <1>5 DEF ServiceWork, ServicePoll
  <2> QED BY <2>2, <2>3, HandledLinked
<1>6. CASE /\ ChannelIrq \/ PollCheck \/ PollPick \/ PollRead \/ PollTimeout \/ HwNext
           /\ UNCHANGED fileVars
  <2>1. UNCHANGED <<load, call, xf, queue, desc_lock, caio>>
    BY <1>6 DEF ChannelIrq, PollCheck, PollPick, PollRead, PollTimeout, HwNext, HwFetch, HwRest,
                HwStep, HwError, HwLate, fileVars
  <2> QED BY <2>1, LinkedApart
<1>7. CASE Offline \/ Online
  <2>1. UNCHANGED <<load, call, xf, queue, desc_lock, caio>>
    BY <1>7 DEF Offline, Online, fileVars
  <2> QED BY <2>1, LinkedApart
<1> QED BY <1>1, <1>2, <1>3, <1>4, <1>5, <1>6, <1>7 DEF Next, AioStep

LEMMA LinkedHolds == Spec => [](Types /\ Linked)
<1>1. Init => Types /\ Linked
  BY InitTypes, LinkedStart
<1>2. Types /\ Linked /\ [Next]_vars => (Types /\ Linked)'
  BY TypesKept, LinkedKept
<1> QED BY <1>1, <1>2, PTL DEF Spec

(* The counters and indices of the engine stay in their ranges in every    *)
(* situation, also when calls give up, fail or go offline: no more         *)
(* segments are counted than the call has (async_io_handler), no           *)
(* descriptor is taken outside the ring (transfer_init).                   *)
THEOREM TypeCorrect == Spec => []TypeOK
<1>1. Types /\ Linked => TypeOK
  <2> SUFFICES ASSUME Types, Linked PROVE TypeOK
    OBVIOUS
  <2>1. caio.cmpl \in 0..Len(load.aio)
    <3>1. Back \subseteq Aios
      BY DEF Back
    <3>2. Cardinality(Back) \in Nat /\ Cardinality(Back) <= Cardinality(Aios)
      BY <3>1, AiosFinite, FS_Subset, FS_CardinalityType
    <3>3. caio.cmpl \in Nat /\ caio.cmpl <= Cardinality(Back)
      BY DEF Types, CaioRecs, Linked, CaioLink
    <3> QED BY <3>2, <3>3, AiosFinite
  <2>2. \A t \in Xfers :
          /\ xf[t].state \in {"NEW", "SUBMITTED", "COMPLETED", "FAILED", "ABORTED"}
          /\ xf[t].num \in 0..DescMax /\ xf[t].at \in Slots
    BY DEF Types, XferRecs, XStates
  <2>3. \A s \in Slots : ring[s].xfer \in Xfers \cup {<<>>} /\ ring[s].next \in Slots
    <3> TAKE s \in Slots
    <3>1. ring[s] \in DescRecs
      BY DEF Types
    <3>2. CASE ring[s] = NoDesc
      BY <3>2, Ring DEF NoDesc
    <3> QED BY <3>1, <3>2, Records
  <2>4. hw.pos \in Slots /\ hw.late \subseteq Xfers
    BY DEF Types, HwRecs
  <2>5. eng \in [running : BOOLEAN, shutdown : BOOLEAN, offline : BOOLEAN,
              resets : 0..MaxResets, dequeued : Nat, idx : Slots,
              status : [bits : SUBSET {"stopped", "err"}, busy : BOOLEAN]]
    BY DEF Types, EngRecs, Bits
  <2> QED BY <2>1, <2>2, <2>3, <2>4, <2>5 DEF TypeOK, Types
<1> QED BY <1>1, LinkedHolds, PTL

-----------------------------------------------------------------------------
(* What Linked gives                                                       *)

LEMMA QueuedLive ==
  ASSUME Types, Linked, HeadGivesUp, NEW t \in Queued
  PROVE  xf[t].live \/ HalfRefused(t[1])
<1>1. t \in Xfers /\ t = <<t[1], t[2]>> /\ t[1] \in Reqs /\ t[2] \in {1, 2}
  BY QueuedXfers, PairOf
<1> DEFINE r == t[1]
<1>2. xf[t].state \in {"SUBMITTED", "ABORTED"} /\ Link(r)
  BY <1>1 DEF Linked, InFlight
<1>3. CASE r \in load.sync
  <2>1. SyncLink(r)
    BY <1>2, <1>3 DEF Link
  <2>2. t = <<r, 1>>
    BY <1>1, <1>2, <2>1 DEF SyncLink
  <2>3. xf[t].state = "SUBMITTED"
    BY <2>1, <2>2 DEF SyncLink
  <2> QED BY <2>1, <2>2, <2>3 DEF SyncLink
<1>4. CASE IsAio(r)
  <2>1. AioLink(r)
    BY <1>2, <1>4 DEF Link
  <2>2. CASE call[r].pc # "lost"
    BY <1>1, <2>1, <2>2 DEF AioLink
  <2>3. CASE call[r].pc = "lost"
    <3>1. xf[<<r, 1>>].state = "NEW" \/ (xf[<<r, 2>>].state = "NEW" /\ xf[<<r, 2>>].num > 0)
      BY <2>1, <2>3 DEF AioLink
    <3>2. CASE xf[<<r, 1>>].state = "NEW"
      <4>1. t = <<r, 2>> /\ xf[<<r, 2>>].state # "NEW"
        BY <1>1, <1>2, <3>2
      <4>2. xf[<<r, 2>>].num \in Nat /\ xf[<<r, 2>>].num # 0
        <5>1. xf[<<r, 2>>].num \in 0..DescMax
          BY <1>1, <4>1 DEF Types, XferRecs
        <5> QED BY <2>1, <4>1, <5>1, Ring DEF AioLink
      <4> QED BY <2>1, <3>2, <4>2 DEF AioLink
    <3>3. CASE xf[<<r, 2>>].num > 0
      BY <2>3, <3>3 DEF HalfRefused
    <3> QED BY <3>1, <3>2, <3>3
  <2> QED BY <2>2, <2>3
<1>5. CASE r \notin load.sync /\ ~IsAio(r)
  <2>1. OtherLink(r)
    BY <1>2, <1>5 DEF Link
  <2> QED BY <1>1, <1>2, <2>1 DEF OtherLink, HeadGivesUp
<1> QED BY <1>3, <1>4, <1>5

(* The queue never holds a transfer of a request that was freed, nor one   *)
(* twice, for any number of calls that give up, fail or complete           *)
(* (transfer_abort, engine_service, xdma_xfer_submit); the first part of a *)
(* request that was refused half-way is the only exception.                *)
THEOREM QueueLiveHolds == Spec => []QueueLive
<1>1. Types /\ Linked => QueueLive
  <2> SUFFICES ASSUME Types, Linked, HeadGivesUp
               PROVE  /\ \A i \in DOMAIN queue :
                           xf[queue[i]].live \/ HalfRefused(queue[i][1])
                      /\ \A i, j \in DOMAIN queue : i # j => queue[i] # queue[j]
    BY DEF QueueLive
  <2>1. \A i \in DOMAIN queue : xf[queue[i]].live \/ HalfRefused(queue[i][1])
    <3> TAKE i \in DOMAIN queue
    <3>1. queue[i] \in Queued
      BY DEF Queued
    <3> QED BY <3>1, QueuedLive
  <2>2. \A i, j \in DOMAIN queue : i < j => queue[i] # queue[j]
    BY DEF Linked, Lined
  <2>3. \A i, j \in DOMAIN queue : i # j => i < j \/ j < i
    <3>1. DOMAIN queue = 1..Len(queue) /\ Len(queue) \in Nat
      BY QueuedXfers
    <3> QED BY <3>1
  <2> QED BY <2>1, <2>2, <2>3
<1> QED BY <1>1, LinkedHolds, PTL

-----------------------------------------------------------------------------
(* Completions                                                             *)

LEMMA QueuedState ==
  ASSUME Types, NEW t \in Xfers, Becomes(QueueXfer(E, t))
  PROVE  /\ queue' = Append(queue, t) /\ xf' = [xf EXCEPT ![t].state = "SUBMITTED"]
         /\ eng.running => eng' = eng /\ hw' = hw
         /\ ~eng.running =>
              /\ eng' = [eng EXCEPT !.running = TRUE, !.shutdown = FALSE, !.dequeued = 0,
                                    !.status = [bits |-> hw.bits, busy |-> TRUE]]
              /\ hw' = DeviceStart(hw, xf'[Head(queue')].at)
<1> DEFINE T == QueueXfer(E, t)
<1>1. E \in States /\ E.queue = queue /\ E.xf = xf /\ E.eng = eng /\ E.hw = hw
  BY StateOfE DEF E
<1>2. /\ T.queue = Append(queue, t) /\ T.xf = [xf EXCEPT ![t].state = "SUBMITTED"]
      /\ eng.running => T.eng = eng /\ T.hw = hw
      /\ ~eng.running =>
           /\ T.eng = [eng EXCEPT !.running = TRUE, !.shutdown = FALSE, !.dequeued = 0,
                                  !.status = [bits |-> hw.bits, busy |-> TRUE]]
           /\ T.hw = DeviceStart(hw, T.xf[Head(T.queue)].at)
  BY <1>1, QueueXferIs
<1>3. queue' = T.queue /\ xf' = T.xf /\ eng' = T.eng /\ hw' = T.hw
  BY DEF Becomes
<1> HIDE DEF T
<1> QED BY <1>2, <1>3

(* A segment that was refused or overran stays so.                         *)
LEMMA Stuck ==
  ASSUME Types, Types', Linked, HeadGivesUp, [Next]_vars, NEW r \in Aios,
         call[r].pc \in {"lost", "overrun"}
  PROVE  call'[r].pc = call[r].pc /\ xf'[<<r, 2>>].num = xf[<<r, 2>>].num
<1>1. /\ r \in Reqs /\ r \notin load.sync /\ <<r, 2>> \in Xfers /\ load.perf = {}
      /\ call \in [Reqs -> CallRecs] /\ xf \in [Xfers -> XferRecs]
  BY Kinds, Pairs DEF HeadGivesUp, Types
<1>2. CASE UNCHANGED <<call, xf>>
  BY <1>2
<1>3. CASE \E q \in Reqs : \/ Enter(q) \/ EnterFails(q) \/ LockDesc(q) \/ SubmitRefused(q)
                           \/ WakeThread(q) \/ Wake(q) \/ GiveUp(q)
  BY <1>1, <1>3 DEF Enter, EnterFails, LockDesc, SubmitRefused, WakeThread, Wake, GiveUp, Move,
     engineVars
<1>4. CASE \E q \in Reqs : Build(q) \/ AioBuild(q)
  <2>1. PICK q \in Reqs : Build(q) \/ AioBuild(q)
    BY <1>4
  <2>2. PICK t \in {<<q, 1>>, <<q, 2>>} : TransferInit(q, t) /\ call[q].pc = "build"
    BY <2>1, CurrentIs DEF Build, AioBuild
  <2>3. q # r /\ t \in Xfers /\ t # <<r, 2>>
    <3>1. q # r /\ t \in Xfers
      BY <2>2, Pairs
    <3> QED BY <1>1, <2>2, <3>1, OtherPairs
  <2>4. call'[r] = call[r] /\ xf'[<<r, 2>>] = xf[<<r, 2>>]
    BY <1>1, <2>2, <2>3 DEF TransferInit
  <2> QED BY <2>4
<1>5. CASE \E q \in Reqs : Submit(q) \/ AioSubmit(q)
  <2>1. PICK q \in Reqs : Submit(q) \/ AioSubmit(q)
    BY <1>5
  <2>2. PICK t \in Xfers : Becomes(QueueXfer(E, t))
    BY <2>1, CurrentIs, Pairs DEF Submit, AioSubmit
  <2>3. xf'[<<r, 2>>].num = xf[<<r, 2>>].num
    <3>1. xf' = [xf EXCEPT ![t].state = "SUBMITTED"]
      BY <2>2, QueuedState
    <3>2. /\ xf'[t].num = xf[t].num
          /\ \A u \in Xfers \ {t} : xf'[u] = xf[u]
      BY <3>1, StateSet
    <3> QED BY <1>1, <3>2
  <2>4. call'[r] = call[r]
    BY <1>1, <2>1 DEF Submit, AioSubmit
  <2> QED BY <2>3, <2>4
<1>6. CASE \E q \in Reqs : Check(q) \/ Return(q)
  <2>1. PICK q \in Reqs : Check(q) \/ Return(q)
    BY <1>6
  <2>2. call'[r] = call[r]
    BY <1>1, <2>1 DEF Check, Return
  <2>3. CASE Return(q)
    BY <1>1, <2>2, <2>3 DEF Return, XferRecs
  <2>4. CASE Check(q)
    <3>1. <<q, 1>> \in Xfers /\ <<q, 1>> # <<r, 2>>
      <4>1. <<q, 1>> \in Xfers
        BY Pairs
      <4>2. <<q, 1>> # <<r, 2>>
        OBVIOUS
      <4> QED BY <4>1, <4>2
    <3>2. CASE xf[<<q, 1>>].state = "SUBMITTED"
      <4> DEFINE T == EngineStop(TransferAbort(StatusRead(E, FALSE), <<q, 1>>))
      <4>1. T.xf = [xf EXCEPT ![<<q, 1>>].state = IF @ = "SUBMITTED" THEN "ABORTED" ELSE @]
        BY <3>1, AbortedIs
      <4>2. Becomes(T)
        BY <2>4, <3>2 DEF Check
      <4> HIDE DEF T
      <4>3. xf' = [xf EXCEPT ![<<q, 1>>].state = IF @ = "SUBMITTED" THEN "ABORTED" ELSE @]
        BY <4>1, <4>2 DEF Becomes
      <4> QED BY <1>1, <2>2, <3>1, <4>3
    <3>3. CASE xf[<<q, 1>>].state # "SUBMITTED"
      <4>1. Becomes(E)
        BY <2>4, <3>3 DEF Check
      <4> QED BY <2>2, <4>1 DEF Becomes, E
    <3> QED BY <3>2, <3>3
  <2> QED BY <2>1, <2>3, <2>4
<1>7. CASE AioSegment \/ AioSegmentLost \/ \E q \in Reqs : AioOverrun(q) \/ AioRefused(q)
  <2>1. CASE AioSegment
    <3>1. PICK q \in Reqs : q = load.aio[caio.next]
      BY <2>1, SegmentIs DEF AioSegment
    <3>2. call[q].pc = "idle" /\ call' = [call EXCEPT ![q].pc = "build", ![q].pinned = TRUE]
          /\ xf' = xf
      BY <2>1, <3>1 DEF AioSegment, engineVars
    <3> QED BY <1>1, <3>2
  <2>2. CASE \E q \in Reqs : AioOverrun(q)
    BY <1>1, <2>2 DEF AioOverrun, Move, engineVars
  <2>3. CASE \E q \in Reqs : AioRefused(q)
    <3>1. PICK q \in Reqs : AioRefused(q)
      BY <2>3
    <3>2. q # r /\ <<q, 1>> # <<r, 2>> /\ <<q, 2>> # <<r, 2>>
      BY <3>1 DEF AioRefused
    <3> QED BY <1>1, <3>1, <3>2 DEF AioRefused
  <2>4. CASE AioSegmentLost
    <3>1. PICK q \in Reqs : q = load.aio[caio.next]
      BY <2>4, SegmentIs DEF AioSegmentLost
    <3>2. call[q].pc = "idle" /\ call' = [call EXCEPT ![q].pc = "lost", ![q].pinned = TRUE]
          /\ xf' = xf
      BY <2>4, <3>1 DEF AioSegmentLost, engineVars
    <3> QED BY <1>1, <3>2
  <2> QED BY <1>7, <2>1, <2>2, <2>3, <2>4
<1>8. CASE ServiceWork \/ ServicePoll
  <2>1. PICK S \in States : \E k \in 0..Len(queue) : Served(E, S, k) /\ Handled(S)
    BY <1>8, ServiceIsServed
  <2>2. PICK k \in 0..Len(queue) : Served(E, S, k) /\ Handled(S)
    BY <2>1
  <2>3. load' = load /\ desc_lock' = desc_lock
    BY <1>8 DEF ServiceWork, ServicePoll
  <2>4. r \notin Notified(S)
    BY <2>2, <2>3, HandledLinked
  <2> QED BY <1>1, <2>2, <2>4, HandledFields
<1>9. AioEnter \/ AioSegmentBad \/ AioReturn \/ Offline \/ Online \/ UNCHANGED vars
      \/ ((ChannelIrq \/ PollCheck \/ PollPick \/ PollRead \/ PollTimeout \/ HwNext)
          /\ UNCHANGED fileVars)
      => UNCHANGED <<call, xf>>
  BY DEF AioEnter, AioSegmentBad, AioReturn, Offline, Online, ChannelIrq, PollCheck, PollPick,
         PollRead, PollTimeout, HwNext, HwFetch, HwRest, HwStep, HwError, HwLate, fileVars, vars,
         engineVars
<1>10. \A q \in Reqs : ~PerfStart(q) /\ ~PerfStartRefused(q) /\ ~PerfStartFails(q) /\ ~PerfStop(q)
  BY <1>1, Zenon DEF PerfStart, PerfStartRefused, PerfStartFails, PerfStop
<1> QED BY <1>2, <1>3, <1>4, <1>5, <1>6, <1>7, <1>8, <1>9, <1>10 DEF Next, CallStep, AioStep

(* engine_service completes a transfer of a live request, and the handler   *)
(* finds the structure of its call.                                        *)
LEMMA HandledLive ==
  ASSUME Types, Types', Linked, NEW S \in States, NEW k \in 0..Len(queue), Served(E, S, k),
         Handled(S), load' = load, desc_lock' = desc_lock, HeadGivesUp,
         \A r \in Aios : r \notin load.bad /\ ~HalfRefused(r), ~misuse
  PROVE  ~misuse'
<1>1. /\ DOMAIN S.done = 1..k
      /\ \A i \in 1..k : S.done[i] = queue[i] /\ S.done[i] \in Front(k)
  BY ServedFields
<1>2. ASSUME NEW i \in DOMAIN S.done PROVE xf[S.done[i]].live
  <2>1. PICK t \in Queued : t = S.done[i]
    <3>1. Front(k) \subseteq Queued
      BY QueuedXfers DEF Front, Queued
    <3> QED BY <1>1, <3>1
  <2>2. HalfRefused(t[1]) => call[t[1]].pc = "lost"
    BY DEF HalfRefused
  <2>3. t[1] \in Reqs
    BY <2>1, QueuedXfers, PairOf
  <2>4. HalfRefused(t[1]) => t[1] \in Aios
    <3>1. call[t[1]].pc = "lost" => IsAio(t[1])
      BY <2>3 DEF Linked, Link, SyncLink, OtherLink, HeadGivesUp
    <3> QED BY <2>2, <3>1, Kinds
  <2> QED BY <2>1, <2>4, QueuedLive
<1>3. Notified(S) = {} \/ caio.st # "freed"
  <2> SUFFICES ASSUME NEW r \in Notified(S), caio.st = "freed" PROVE FALSE
    OBVIOUS
  <2>1. r \in Aios /\ call[r].pc = "flying"
    BY HandledLinked, Kinds
  <2>2. caio.cmpl = Len(load.aio) /\ caio.cmpl <= Cardinality(Back)
    <3>1. Aios \cap load.bad = {}
      OBVIOUS
    <3> QED BY <3>1 DEF Linked, CaioLink
  <2>3. Back \subseteq Aios \ {r} /\ Aios \ {r} \subseteq Aios
    BY <2>1 DEF Back
  <2>4. /\ IsFiniteSet(Aios \ {r})
        /\ Cardinality(Aios \ {r}) = Cardinality(Aios) - 1
        /\ IsFiniteSet(Back) /\ Cardinality(Back) <= Cardinality(Aios \ {r})
        /\ Cardinality(Back) \in Nat /\ Cardinality(Aios) \in Nat
    BY <2>1, <2>3, AiosFinite, FS_RemoveElement, FS_Subset, FS_CardinalityType
  <2> QED BY <2>2, <2>4, AiosFinite
<1>4. misuse' = (misuse \/ (Notified(S) # {} /\ caio.st = "freed")
                        \/ \E i \in DOMAIN S.done : ~xf[S.done[i]].live)
  BY DEF Handled
<1> QED BY <1>2, <1>3, <1>4

(* A completion never reaches memory that was freed: engine_service takes  *)
(* no transfer of a freed request, and async_io_handler never finds the    *)
(* cdev_async_io of a call that is over.  The exceptions that              *)
(* CompletionsLive names are all there are: a bad segment, a request that  *)
(* is refused half-way, one that is split in three.                        *)
THEOREM CompletionsLiveHold == Spec => []CompletionsLive
<1>1. Init => CompletionsLive
  BY DEF Init, FileInit, CompletionsLive
<1>2. ASSUME Types, Linked, CompletionsLive, [Next]_vars
      PROVE  CompletionsLive'
  <2>1. Types' /\ Linked' /\ load' = load
    <3>1. Types' /\ Linked'
      BY <1>2, TypesKept, LinkedKept
    <3>2. load' = load
      BY <1>2, LoadFixed
    <3> QED BY <3>1, <3>2
  <2>2. (HeadGivesUp' <=> HeadGivesUp) /\ Aios' = Aios
    BY <2>1, KindKept
  <2> SUFFICES ASSUME HeadGivesUp,
                      \A r \in Aios : r \notin load.bad /\ ~HalfRefused(r)' /\ call'[r].pc # "overrun"
               PROVE  ~misuse'
    BY <2>1, <2>2 DEF CompletionsLive, Aios
  <2>3. \A r \in Aios : r \notin load.bad /\ ~HalfRefused(r) /\ call[r].pc # "overrun"
    <3> TAKE r \in Aios
    <3>1. HalfRefused(r)' <=> call'[r].pc = "lost" /\ xf'[<<r, 2>>].num > 0
      BY DEF HalfRefused
    <3> QED BY <1>2, <2>1, <3>1, Stuck DEF HalfRefused
  <2>4. ~misuse
    BY <1>2, <2>3 DEF CompletionsLive, Aios
  <2>5. CASE ServiceWork \/ ServicePoll
    <3>1. PICK S \in States : \E k \in 0..Len(queue) : Served(E, S, k) /\ Handled(S)
      BY <1>2, <2>5, ServiceIsServed
    <3>2. PICK k \in 0..Len(queue) : Served(E, S, k) /\ Handled(S)
      BY <3>1
    <3>3. desc_lock' = desc_lock
      BY <2>5 DEF ServiceWork, ServicePoll
    <3> QED BY <1>2, <2>1, <2>3, <2>4, <3>2, <3>3, HandledLive
  <2>6. CASE \E r \in Reqs : AioOverrun(r)
    <3>1. PICK r \in Reqs : AioOverrun(r)
      BY <2>6
    <3>2. r \in Aios /\ call'[r].pc = "overrun"
      <4>1. call \in [Reqs -> CallRecs]
        BY <1>2 DEF Types
      <4> QED BY <1>2, <3>1, <4>1, Kinds DEF AioOverrun, Move, CallRecs
    <3> QED BY <3>2
  <2>7. CASE UNCHANGED misuse
    BY <2>4, <2>7
  <2>8. \A r \in Reqs :
          /\ Enter(r) \/ EnterFails(r) \/ CallStep(r) \/ GiveUp(r) \/ AioBuild(r) => UNCHANGED misuse
          /\ AioSubmit(r) \/ AioRefused(r) => UNCHANGED misuse
          /\ ~PerfStart(r) /\ ~PerfStartRefused(r) /\ ~PerfStartFails(r) /\ ~PerfStop(r)
    <3> TAKE r \in Reqs
    <3>1. Enter(r) \/ EnterFails(r) \/ LockDesc(r) \/ SubmitRefused(r) \/ WakeThread(r) \/ Wake(r)
            \/ GiveUp(r) => UNCHANGED misuse
      BY DEF Enter, EnterFails, LockDesc, SubmitRefused, WakeThread, Wake, GiveUp
    <3>2. Build(r) \/ AioBuild(r) \/ Submit(r) \/ Return(r) \/ AioSubmit(r) \/ AioRefused(r)
          => UNCHANGED misuse
      BY DEF Build, AioBuild, TransferInit, Submit, Return, AioSubmit, AioRefused
    <3>3. Check(r) => UNCHANGED misuse
      BY DEF Check
    <3>4. ~PerfStart(r) /\ ~PerfStartRefused(r) /\ ~PerfStartFails(r) /\ ~PerfStop(r)
      BY Zenon DEF PerfStart, PerfStartRefused, PerfStartFails, PerfStop, HeadGivesUp
    <3> QED BY <3>1, <3>2, <3>3, <3>4 DEF CallStep
  <2>9. /\ AioEnter \/ AioSegment \/ AioSegmentBad \/ AioSegmentLost \/ AioReturn
             => UNCHANGED misuse
        /\ Offline \/ Online \/ UNCHANGED fileVars \/ UNCHANGED vars => UNCHANGED misuse
    BY DEF AioEnter, AioSegment, AioSegmentBad, AioSegmentLost, AioReturn, Offline, Online, fileVars, vars
  <2> QED BY <1>2, <2>5, <2>6, <2>7, <2>8, <2>9 DEF Next, AioStep
<1> QED BY <1>1, <1>2, LinkedHolds, PTL DEF Spec

-----------------------------------------------------------------------------
(* Owned: the descriptors of what is built and not yet done                *)

Pending(r) == call[r].pc \in {"submit", "queued", "wait", "check", "flying"}

(* The descriptors of r before the transfer in hand                        *)
First(r) == DescsOf[r] - call[r].left - xf[<<r, 1>>].num

Place(r) == xf[<<r, 1>>].at..(xf[<<r, 1>>].at + xf[<<r, 1>>].num - 1)

(* What transfer_init wrote for it to slot s                               *)
Desc(r, s) ==
  LET a == xf[<<r, 1>>]
  IN  [xfer |-> <<r, 1>>, no |-> First(r) + (s - a.at) + 1,
       last |-> (s = a.at + a.num - 1), next |-> (s + 1) % DescMax]

Intact(r) ==
  /\ xf[<<r, 1>>].at + xf[<<r, 1>>].num <= DescMax
  /\ \A s \in Place(r) : ring[s] = Desc(r, s)

(* With asynchronous calls the ring never wraps round: every request is    *)
(* built once and as a whole, behind those built before it.                *)
Makers == load.sync \cup Aios

Handed == UNION {{r} \X (1..DescsOf[r]) : r \in {q \in Makers : call[q].left = 0}}

Alloc(r) ==
  LET a == xf[<<r, 1>>]
  IN  /\ call[r].left \in {0, DescsOf[r]} /\ call[r].pc # "overrun"
      /\ xf[<<r, 2>>].num = 0
      /\ call[r].left = 0 => a.num = DescsOf[r] /\ a.at + a.num <= Cardinality(Handed)
      /\ call[r].left # 0 => a.state = "NEW" /\ ~Pending(r)

Apart(r, q) ==
  LET a == xf[<<r, 1>>]
      b == xf[<<q, 1>>]
  IN  a.at + a.num <= b.at \/ b.at + b.num <= a.at

Allocated ==
  load.aio # <<>> =>
    /\ \A r \in Makers : Alloc(r)
    /\ \A r, q \in Makers :
         r # q /\ call[r].left = 0 /\ call[q].left = 0 => Apart(r, q)
    /\ eng.idx = IF Cardinality(Handed) = DescMax THEN 0 ELSE Cardinality(Handed)

Owned ==
  RingSuffices /\ HeadGivesUp =>
    /\ Allocated
    /\ \A r \in Reqs : Pending(r) => Intact(r)

LEMMA AllocIs ==
  ASSUME Allocated, load.aio # <<>>, NEW r \in Makers
  PROVE  /\ call[r].left \in {0, DescsOf[r]} /\ call[r].pc # "overrun"
         /\ xf[<<r, 2>>].num = 0
         /\ call[r].left = 0 => xf[<<r, 1>>].num = DescsOf[r]
         /\ call[r].left = 0 => xf[<<r, 1>>].at + xf[<<r, 1>>].num <= Cardinality(Handed)
         /\ call[r].left # 0 => xf[<<r, 1>>].state = "NEW"
         /\ call[r].left # 0 => ~Pending(r)
<1>1. Alloc(r)
  BY DEF Allocated
<1> QED BY <1>1 DEF Alloc

LEMMA PlaceIs ==
  ASSUME Types, NEW r \in Reqs
  PROVE  /\ xf[<<r, 1>>].at \in Nat /\ xf[<<r, 1>>].num \in Nat
         /\ xf[<<r, 1>>].at \in Slots /\ xf[<<r, 1>>].num <= DescMax
         /\ Place(r) = xf[<<r, 1>>].at..(xf[<<r, 1>>].at + xf[<<r, 1>>].num - 1)
<1>1. <<r, 1>> \in Xfers
  BY Pairs
<1>2. xf[<<r, 1>>].at \in Slots /\ xf[<<r, 1>>].num \in 0..DescMax
  BY <1>1 DEF Types, XferRecs
<1> QED BY <1>2, Ring DEF Place

(* A step that builds nothing                                              *)
Undisturbed(r) ==
  /\ call'[r].left = call[r].left
  /\ xf'[<<r, 1>>].num = xf[<<r, 1>>].num /\ xf'[<<r, 1>>].at = xf[<<r, 1>>].at
  /\ xf'[<<r, 2>>].num = xf[<<r, 2>>].num
  /\ Pending(r)' => Pending(r) /\ \A s \in Place(r) : ring'[s] = ring[s]
  /\ call'[r].pc = "overrun" => call[r].pc = "overrun"
  /\ Pending(r) \/ xf[<<r, 1>>].state # "NEW" \/ xf'[<<r, 1>>].state = "NEW"

LEMMA OwnedFrame ==
  ASSUME Types, Owned, load' = load, eng'.idx = eng.idx, \A r \in Reqs : Undisturbed(r)
  PROVE  Owned'
<1>1. /\ (HeadGivesUp' <=> HeadGivesUp) /\ (RingSuffices' <=> RingSuffices) /\ Aios' = Aios
      /\ Makers' = Makers /\ Makers \subseteq Reqs
  <2>1. (HeadGivesUp' <=> HeadGivesUp) /\ Aios' = Aios /\ Aios \subseteq Reqs
        /\ load.sync \subseteq Reqs
    BY KindKept, Kinds
  <2> QED BY <2>1 DEF Makers, RingSuffices
<1> SUFFICES ASSUME RingSuffices, HeadGivesUp
             PROVE  Allocated' /\ \A r \in Reqs : Pending(r)' => Intact(r)'
  BY <1>1 DEF Owned
<1>2. Allocated /\ \A r \in Reqs : Pending(r) => Intact(r)
  BY DEF Owned
<1>3. ASSUME NEW r \in Reqs, Pending(r)' PROVE Intact(r)'
  <2>1. Undisturbed(r) /\ Intact(r) /\ First(r)' = First(r) /\ Place(r)' = Place(r)
    BY <1>2, <1>3 DEF Undisturbed, First, Place
  <2>2. \A s \in Place(r) : ring'[s] = ring[s]
    BY <1>3, <2>1 DEF Undisturbed
  <2> QED BY <2>1, <2>2 DEF Intact, Desc, Undisturbed
<1>4. ASSUME load.aio # <<>> PROVE Allocated'
  <2>1. Handed' = Handed
    <3>1. {q \in Makers : call'[q].left = 0} = {q \in Makers : call[q].left = 0}
      BY <1>1 DEF Undisturbed
    <3> QED BY <1>1, <3>1 DEF Handed
  <2>2. \A r \in Makers : Alloc(r)'
    <3> TAKE r \in Makers
    <3>1. Alloc(r) /\ Undisturbed(r)
      BY <1>1, <1>2, <1>4 DEF Allocated
    <3> QED BY <2>1, <3>1 DEF Alloc, Undisturbed
  <2>3. \A r, q \in Makers :
          r # q /\ call'[r].left = 0 /\ call'[q].left = 0 => Apart(r, q)'
    <3> TAKE r, q \in Makers
    <3> HAVE r # q /\ call'[r].left = 0 /\ call'[q].left = 0
    <3>1. Undisturbed(r) /\ Undisturbed(q)
      BY <1>1
    <3>2. Apart(r, q)
      BY <1>2, <1>4, <3>1 DEF Allocated, Undisturbed
    <3> QED BY <3>1, <3>2 DEF Apart, Undisturbed
  <2> QED BY <1>1, <1>2, <1>4, <2>1, <2>2, <2>3 DEF Allocated
<1>5. CASE load.aio = <<>>
  <2>1. load'.aio = <<>>
    BY <1>5
  <2> QED BY <1>3, <2>1 DEF Allocated
<1> QED BY <1>3, <1>4, <1>5

(* A step that leaves the ring and the transfers' places alone             *)
LEMMA OwnedQuiet ==
  ASSUME Types, Owned, load' = load, eng'.idx = eng.idx, ring' = ring,
         \A r \in Reqs :
           /\ call'[r].left = call[r].left
           /\ xf'[<<r, 1>>].num = xf[<<r, 1>>].num /\ xf'[<<r, 1>>].at = xf[<<r, 1>>].at
           /\ xf'[<<r, 2>>].num = xf[<<r, 2>>].num
           /\ call'[r].pc \in {"submit", "queued", "wait", "check", "flying", "overrun"} =>
                \/ call'[r].pc = call[r].pc
                \/ call'[r].pc # "overrun" /\ Pending(r)
           /\ Pending(r) \/ xf'[<<r, 1>>].state = xf[<<r, 1>>].state
  PROVE  Owned'
<1>1. \A r \in Reqs : Undisturbed(r)
  BY DEF Undisturbed, Pending
<1> QED BY <1>1, OwnedFrame

(* Who has descriptors in the ring while nobody waits in another way owns  *)
(* desc_lock.                                                              *)
LEMMA SolePending ==
  ASSUME Types, Linked, HeadGivesUp, load.aio = <<>>, NEW r \in Reqs,
         Pending(r) \/ call[r].pc = "build"
  PROVE  desc_lock = r
<1>1. ~IsAio(r) /\ load.perf = {}
  BY DEF IsAio, HeadGivesUp
<1>2. Link(r)
  BY DEF Linked
<1>3. CASE r \in load.sync
  BY <1>2, <1>3 DEF Link, SyncLink, Pending
<1>4. CASE r \notin load.sync
  BY <1>1, <1>2, <1>4 DEF Link, OtherLink, Pending
<1> QED BY <1>3, <1>4

LEMMA PendingMakes ==
  ASSUME Types, Linked, HeadGivesUp, NEW r \in Reqs, call[r].pc # "idle"
  PROVE  r \in Makers
<1>1. Link(r) /\ load.perf = {}
  BY DEF Linked, HeadGivesUp
<1> QED BY <1>1, Kinds DEF Link, OtherLink, Makers

(* transfer_init for a request of an asynchronous situation takes all of   *)
(* it, from slots nobody has had.                                          *)
LEMMA Room ==
  ASSUME Types, Linked, Owned, RingSuffices, HeadGivesUp, load.aio # <<>>,
         NEW r \in Makers, call[r].left # 0
  PROVE  /\ eng.idx = Cardinality(Handed) /\ PartSize(r) = call[r].left
         /\ call[r].left = DescsOf[r]
         /\ eng.idx + DescsOf[r] <= DescMax
         /\ \A U : U = Handed \cup ({r} \X (1..DescsOf[r])) =>
                     Cardinality(U) = Cardinality(Handed) + DescsOf[r]
<1> DEFINE D == Descriptors(load)
           H == {r} \X (1..DescsOf[r])
<1>1. /\ r \in Reqs /\ DescsOf[r] \in Nat /\ DescsOf[r] > 0 /\ call[r].left = DescsOf[r]
      /\ Makers \subseteq Reqs
  BY Kinds, Requests DEF Makers, Owned, Allocated, Alloc
<1>2. D = UNION {{q} \X (1..DescsOf[q]) : q \in Makers}
  BY DEF Descriptors, Makers, Aios
<1>3. IsFiniteSet(D) /\ Cardinality(D) <= DescMax
  BY DEF RingSuffices, Sufficient
<1>4. Handed \subseteq D /\ H \subseteq D
  <2>1. H \in {{q} \X (1..DescsOf[q]) : q \in Makers}
    OBVIOUS
  <2> HIDE DEF H
  <2> QED BY <1>2, <2>1 DEF Handed
<1>5. Handed \cap H = {}
  <2> SUFFICES ASSUME NEW e \in Handed, e \in H PROVE FALSE
    OBVIOUS
  <2>1. PICK q \in Makers : call[q].left = 0 /\ e \in {q} \X (1..DescsOf[q])
    BY DEF Handed
  <2> QED BY <2>1
<1>6. IsFiniteSet(H) /\ Cardinality(H) = DescsOf[r]
  <2>1. IsFiniteSet({r}) /\ Cardinality({r}) = 1
    BY FS_Singleton
  <2>2. IsFiniteSet(1..DescsOf[r]) /\ Cardinality(1..DescsOf[r]) = DescsOf[r]
    BY <1>1, FS_Interval
  <2>3. IsFiniteSet(H) /\ Cardinality(H) = 1 * DescsOf[r]
    BY <2>1, <2>2, FS_Product, ZenonT(40)
  <2> QED BY <1>1, <2>3
<1> HIDE DEF H, D
<1>7. IsFiniteSet(Handed) /\ Cardinality(Handed) \in Nat /\ Cardinality(D) \in Nat
  BY <1>3, <1>4, FS_Subset, FS_CardinalityType
<1>8. Cardinality(Handed \cup H) = Cardinality(Handed) + DescsOf[r]
  <2>1. Cardinality(Handed \cup H) = Cardinality(Handed) + Cardinality(H) - Cardinality({})
    BY <1>5, <1>6, <1>7, FS_Union
  <2>2. Cardinality({}) = 0
    BY FS_EmptySet
  <2> QED BY <1>1, <1>6, <1>7, <2>1, <2>2
<1>9. Cardinality(Handed \cup H) <= Cardinality(D) /\ Cardinality(Handed \cup H) \in Nat
  <2>1. Handed \cup H \subseteq D
    BY <1>4
  <2> QED BY <1>3, <2>1, FS_Subset, FS_CardinalityType
<1>10. Cardinality(Handed) + DescsOf[r] <= DescMax /\ Cardinality(Handed) < DescMax
  BY <1>1, <1>3, <1>7, <1>8, <1>9, Ring
<1>11. eng.idx = Cardinality(Handed)
  <2>1. eng.idx = IF Cardinality(Handed) = DescMax THEN 0 ELSE Cardinality(Handed)
    BY DEF Owned, Allocated
  <2> QED BY <1>7, <1>10, <2>1, Ring
<1>12. PartSize(r) = call[r].left
  <2> DEFINE left == call[r].left
             idx  == eng.idx
  <2>1. left \in Nat /\ idx \in Nat /\ idx + left <= DescMax /\ left <= DescMax /\ DescMax \in Nat
    BY <1>1, <1>7, <1>10, <1>11, Ring
  <2>2. PartSize(r) = LET m == IF left < DescMax THEN left ELSE DescMax
                      IN  IF idx + m >= DescMax THEN DescMax - idx ELSE m
    BY DEF PartSize, Fitting
  <2> HIDE DEF left, idx
  <2>3. (IF left < DescMax THEN left ELSE DescMax) = left
    BY <2>1
  <2>4. PartSize(r) = IF idx + left >= DescMax THEN DescMax - idx ELSE left
    BY <2>2, <2>3
  <2>5. PartSize(r) = left
    BY <2>1, <2>4
  <2> QED BY <2>5 DEF left
<1> QED BY <1>1, <1>8, <1>10, <1>11, <1>12 DEF H

LEMMA BuildOwned ==
  ASSUME Types, Linked, Owned, NEW r \in Reqs, Build(r) \/ AioBuild(r)
  PROVE  Owned'
<1>1. /\ load' = load /\ call[r].pc = "build" /\ r \in Makers
      /\ r \in load.sync \/ IsAio(r)
  BY Kinds DEF Build, AioBuild, TransferInit, Makers
<1>2. /\ (HeadGivesUp' <=> HeadGivesUp) /\ (RingSuffices' <=> RingSuffices) /\ Aios' = Aios
      /\ Makers' = Makers /\ Makers \subseteq Reqs
  <2>1. (HeadGivesUp' <=> HeadGivesUp) /\ Aios' = Aios /\ Aios \subseteq Reqs
        /\ load.sync \subseteq Reqs
    BY <1>1, KindKept, Kinds
  <2> QED BY <1>1, <2>1 DEF Makers, RingSuffices
<1> SUFFICES ASSUME RingSuffices, HeadGivesUp
             PROVE  Allocated' /\ \A q \in Reqs : Pending(q)' => Intact(q)'
  BY <1>2 DEF Owned
<1>3. Allocated /\ \A q \in Reqs : Pending(q) => Intact(q)
  BY DEF Owned
<1>4. call[r].left \in Nat /\ call[r].left > 0
  <2>1. Link(r) /\ call[r].left \in Nat
    BY DEF Linked, Types, CallRecs
  <2> QED BY <1>1, <2>1, Kinds DEF Link, SyncLink, AioLink
<1> DEFINE t == <<r, 1>>
           n == PartSize(r)
<1>5. TransferInit(r, t)
  <2>1. CASE Build(r)
    BY <2>1 DEF Build
  <2>2. CASE AioBuild(r)
    <3>1. load.aio # <<>>
      BY <2>2 DEF AioBuild, IsAio
    <3>2. call[r].left # 0
      BY <1>4
    <3>3. xf[t].state = "NEW"
      BY <1>1, <1>3, <3>1, <3>2, AllocIs
    <3> QED BY <2>2, <3>3 DEF AioBuild, Current
  <2> QED BY <2>1, <2>2
<1>6. /\ xf'[t].num = n /\ xf'[t].at = eng.idx /\ xf'[t].num > 0
      /\ \A u \in Xfers \ {t} : xf'[u] = xf[u]
      /\ call'[r].pc = "submit" /\ call'[r].left = call[r].left - n
      /\ \A q \in Reqs \ {r} : call'[q] = call[q]
  BY <1>4, <1>5, BuiltIs
<1>7. /\ ring' = [s \in Slots |->
                    IF s \in eng.idx..(eng.idx + n - 1)
                    THEN [xfer |-> t, no |-> DescsOf[r] - call[r].left + s - eng.idx + 1,
                          last |-> (s = eng.idx + n - 1), next |-> (s + 1) % DescMax]
                    ELSE ring[s]]
      /\ eng' = [eng EXCEPT !.idx = (eng.idx + n) % DescMax]
      /\ t \in Xfers
  <2>1. t \in Xfers
    BY Pairs
  <2> QED BY <1>5, <2>1, TransferInitIs
<1>8. /\ n \in 0..DescMax /\ n <= call[r].left
      /\ eng.idx \in Slots /\ eng.idx + n <= DescMax
      /\ DescsOf[r] \in Nat /\ call[r].left <= DescsOf[r]
      /\ DescMax \in Nat /\ DescMax > 0 /\ Slots = 0..(DescMax - 1)
  BY PartFits, Ring
<1> HIDE DEF n
<1>9. Intact(r)'
  <2>1. First(r)' = DescsOf[r] - call[r].left
    BY <1>4, <1>6, <1>8 DEF First
  <2>2. Place(r)' = eng.idx..(eng.idx + n - 1)
    BY <1>6 DEF Place
  <2>3. ASSUME NEW s \in eng.idx..(eng.idx + n - 1)
        PROVE  ring'[s] = [xfer |-> t, no |-> (DescsOf[r] - call[r].left) + (s - eng.idx) + 1,
                           last |-> (s = eng.idx + n - 1), next |-> (s + 1) % DescMax]
    <3>1. s \in Slots /\ s \in Int
      BY <1>8
    <3>2. ring'[s] = [xfer |-> t, no |-> DescsOf[r] - call[r].left + s - eng.idx + 1,
                      last |-> (s = eng.idx + n - 1), next |-> (s + 1) % DescMax]
      BY <1>7, <3>1
    <3>3. DescsOf[r] - call[r].left + s - eng.idx + 1
            = (DescsOf[r] - call[r].left) + (s - eng.idx) + 1
      BY <1>4, <1>8, <3>1
    <3> QED BY <3>2, <3>3
  <2>4. xf'[t].at + xf'[t].num <= DescMax
    BY <1>6, <1>8
  <2> QED BY <1>6, <2>1, <2>2, <2>3, <2>4 DEF Intact, Desc
<1>10. ASSUME NEW q \in Reqs, q # r
       PROVE  /\ xf'[<<q, 1>>] = xf[<<q, 1>>] /\ xf'[<<q, 2>>] = xf[<<q, 2>>]
              /\ call'[q] = call[q]
  <2>1. <<q, 1>> \in Xfers \ {t} /\ <<q, 2>> \in Xfers \ {t}
    BY <1>10, Pairs
  <2> QED BY <1>6, <1>10, <2>1
<1>11. ASSUME NEW q \in Reqs, q # r, Pending(q)' PROVE Intact(q)'
  <2>1. Pending(q) /\ Intact(q) /\ First(q)' = First(q) /\ Place(q)' = Place(q)
    BY <1>3, <1>10, <1>11 DEF Pending, First, Place
  <2>2. load.aio # <<>>
    BY <1>1, <1>11, <2>1, SolePending
  <2>3. q \in Makers /\ call[q].left = 0
    <3>1. q \in Makers
      BY <2>1, PendingMakes DEF Pending
    <3> QED BY <1>3, <2>1, <2>2, <3>1, AllocIs
  <2>4. xf[<<q, 1>>].at + xf[<<q, 1>>].num <= eng.idx
    <3>1. eng.idx = Cardinality(Handed)
      BY <1>1, <1>4, <2>2, Room
    <3> QED BY <1>3, <2>2, <2>3, <3>1, AllocIs
  <2>5. \A s \in Place(q) : s \in Slots /\ s \notin eng.idx..(eng.idx + n - 1)
    <3> TAKE s \in Place(q)
    <3> DEFINE at  == xf[<<q, 1>>].at
               num == xf[<<q, 1>>].num
    <3>1. at \in Nat /\ num \in Nat /\ s \in at..(at + num - 1) /\ at + num <= eng.idx
      BY <2>4, PlaceIs
    <3> HIDE DEF at, num
    <3> QED BY <1>8, <3>1
  <2>6. \A s \in Place(q) : ring'[s] = ring[s]
    BY <1>7, <2>5
  <2> QED BY <1>10, <1>11, <2>1, <2>6 DEF Intact, Desc
<1>12. ASSUME load.aio # <<>> PROVE Allocated'
  <2>1. /\ eng.idx = Cardinality(Handed) /\ n = call[r].left /\ call[r].left = DescsOf[r]
        /\ eng.idx + DescsOf[r] <= DescMax
        /\ \A U : U = Handed \cup ({r} \X (1..DescsOf[r])) =>
                    Cardinality(U) = Cardinality(Handed) + DescsOf[r]
    BY <1>1, <1>4, <1>12, Room DEF n
  <2>2. call'[r].left = 0
    BY <1>4, <1>6, <2>1
  <2>3. Handed' = Handed \cup ({r} \X (1..DescsOf[r]))
    <3>1. {q \in Makers : call'[q].left = 0} = {q \in Makers : call[q].left = 0} \cup {r}
      BY <1>1, <1>2, <1>10, <2>2
    <3> QED BY <1>2, <3>1 DEF Handed
  <2>4. Cardinality(Handed)' = Cardinality(Handed) + DescsOf[r]
    BY <2>1, <2>3
  <2>5. \A q \in Makers : Alloc(q)'
    <3> TAKE q \in Makers
    <3>1. CASE q = r
      <4>1. xf[<<r, 2>>].num = 0 /\ xf'[<<r, 2>>] = xf[<<r, 2>>]
        <5>1. <<r, 2>> \in Xfers
          BY Pairs
        <5>2. <<r, 2>> # t
          OBVIOUS
        <5> QED BY <1>1, <1>3, <1>6, <1>12, <5>1, <5>2, AllocIs
      <4>2. call'[r].pc # "overrun"
        BY <1>6
      <4>3. xf'[t].num = DescsOf[r] /\ xf'[t].at + xf'[t].num <= Cardinality(Handed)'
        <5>1. Cardinality(Handed)' = eng.idx + DescsOf[r] /\ eng.idx + DescsOf[r] \in Nat
          BY <1>8, <2>1, <2>4, Ring
        <5> QED BY <1>6, <2>1, <5>1
      <4> QED BY <2>2, <3>1, <4>1, <4>2, <4>3 DEF Alloc
    <3>2. CASE q # r
      <4>1. Alloc(q) /\ q \in Reqs
        BY <1>2, <1>3, <1>12 DEF Allocated
      <4>2. /\ xf'[<<q, 1>>] = xf[<<q, 1>>] /\ xf'[<<q, 2>>] = xf[<<q, 2>>]
            /\ call'[q] = call[q]
        BY <1>10, <3>2, <4>1
      <4>3. xf[<<q, 1>>].at \in Nat /\ xf[<<q, 1>>].num \in Nat
        BY <4>1, PlaceIs
      <4>4. Pending(q)' <=> Pending(q)
        BY <4>2 DEF Pending
      <4>5. call[q].left = 0 => xf[<<q, 1>>].at + xf[<<q, 1>>].num <= Cardinality(Handed)'
        <5>1. call[q].left = 0 => xf[<<q, 1>>].at + xf[<<q, 1>>].num <= eng.idx
          BY <1>3, <1>12, <2>1, AllocIs
        <5>2. Cardinality(Handed)' = eng.idx + DescsOf[r] /\ eng.idx \in Nat
          BY <1>8, <2>1, <2>4, Ring
        <5> QED BY <1>8, <4>3, <5>1, <5>2
      <4> QED BY <4>1, <4>2, <4>4, <4>5 DEF Alloc
    <3> QED BY <3>1, <3>2
  <2>6. ASSUME NEW q \in Makers, q # r, call[q].left = 0
        PROVE  Apart(r, q)' /\ Apart(q, r)'
    <3>1. xf[<<q, 1>>].at + xf[<<q, 1>>].num <= eng.idx
      BY <1>3, <1>12, <2>1, <2>6, AllocIs
    <3>2. xf'[<<q, 1>>] = xf[<<q, 1>>]
      BY <1>2, <1>10, <2>6
    <3> QED BY <1>6, <3>1, <3>2 DEF Apart
  <2>7. \A p, q \in Makers : p # q /\ call'[p].left = 0 /\ call'[q].left = 0 => Apart(p, q)'
    <3> TAKE p, q \in Makers
    <3> HAVE p # q /\ call'[p].left = 0 /\ call'[q].left = 0
    <3>1. CASE p = r
      BY <1>2, <1>10, <2>6, <3>1
    <3>2. CASE q = r
      BY <1>2, <1>10, <2>6, <3>2
    <3>3. CASE p # r /\ q # r
      <4>1. /\ xf'[<<p, 1>>] = xf[<<p, 1>>] /\ xf'[<<q, 1>>] = xf[<<q, 1>>]
            /\ call'[p] = call[p] /\ call'[q] = call[q]
        BY <1>2, <1>10, <3>3
      <4>2. Apart(p, q)
        BY <1>3, <1>12, <4>1 DEF Allocated
      <4> QED BY <4>1, <4>2 DEF Apart
    <3> QED BY <3>1, <3>2, <3>3
  <2>8. eng'.idx = IF Cardinality(Handed)' = DescMax THEN 0 ELSE Cardinality(Handed)'
    <3>1. eng'.idx = (eng.idx + DescsOf[r]) % DescMax
      BY <1>7, <2>1 DEF Types, EngRecs
    <3>2. Cardinality(Handed)' = eng.idx + DescsOf[r] /\ eng.idx + DescsOf[r] \in 0..DescMax
      BY <1>8, <2>1, <2>4, Ring
    <3>3. CASE eng.idx + DescsOf[r] = DescMax
      BY <1>8, <3>1, <3>2, <3>3, Remainder
    <3>4. CASE eng.idx + DescsOf[r] # DescMax
      <4>1. eng.idx + DescsOf[r] \in 0..(DescMax - 1)
        BY <1>8, <3>2, <3>4
      <4> QED BY <1>8, <3>1, <3>2, <3>4, <4>1, Remainder
    <3> QED BY <3>3, <3>4
  <2> QED BY <1>1, <1>2, <2>5, <2>7, <2>8 DEF Allocated
<1>13. CASE load.aio = <<>>
  <2>1. load'.aio = <<>>
    BY <1>1, <1>13
  <2> QED BY <1>9, <1>11, <2>1 DEF Allocated
<1> QED BY <1>9, <1>11, <1>12, <1>13

LEMMA OwnedStart == Types /\ Init => Owned
<1> SUFFICES ASSUME Types, Init PROVE Owned
  OBVIOUS
<1>1. /\ \A t \in Xfers : xf[t] = NewXfer
      /\ \A r \in Reqs : call[r].pc = "idle" /\ call[r].left = DescsOf[r]
      /\ eng.idx = 0
  BY DEF Init, FileInit, EngineInit
<1>2. \A r \in Reqs : ~Pending(r)
  BY <1>1 DEF Pending
<1>3. Makers \subseteq Reqs
  BY Kinds DEF Makers
<1>4. Handed = {}
  <2>1. {q \in Makers : call[q].left = 0} = {}
    BY <1>1, <1>3, Requests
  <2> QED BY <2>1 DEF Handed
<1>5. \A r \in Makers : Alloc(r) /\ call[r].left # 0
  <2> TAKE r \in Makers
  <2>1. /\ xf[<<r, 1>>] = NewXfer /\ xf[<<r, 2>>] = NewXfer
        /\ call[r].left = DescsOf[r] /\ call[r].pc = "idle"
    BY <1>1, <1>3, Pairs
  <2>2. DescsOf[r] # 0
    BY <1>3, Requests
  <2> QED BY <1>2, <1>3, <2>1, <2>2 DEF Alloc, NewXfer
<1>6. Cardinality(Handed) = 0
  BY <1>4, FS_EmptySet
<1> QED BY <1>1, <1>2, <1>5, <1>6, Ring DEF Owned, Allocated

(* transfer_destroy of one transfer leaves the others' descriptors alone.  *)
LEMMA ClearedApart ==
  ASSUME Types, Linked, Owned, RingSuffices, HeadGivesUp,
         NEW R \in SUBSET Reqs, NEW ts \in SUBSET Xfers,
         \A t \in ts : t[1] \in R /\ Pending(t[1]) /\ (t[2] = 2 => xf[t].num > 0 /\ IsAio(t[1])),
         NEW q \in Reqs, q \notin R, Pending(q), NEW s \in Place(q)
  PROVE  s \in Slots /\ Cleared(ring, ts)[s] = ring[s]
<1>1. /\ s \in Int /\ xf[<<q, 1>>].at <= s /\ s < xf[<<q, 1>>].at + xf[<<q, 1>>].num
      /\ s \in Slots
  <2> DEFINE at  == xf[<<q, 1>>].at
             num == xf[<<q, 1>>].num
  <2>1. at \in Nat /\ num \in Nat /\ s \in at..(at + num - 1) /\ at + num <= DescMax
    BY PlaceIs DEF Owned, Intact, Desc
  <2> HIDE DEF at, num
  <2>2. s \in Int /\ at <= s /\ s < at + num /\ s \in Slots
    BY <2>1, Ring
  <2> QED BY <2>2 DEF at, num
<1>2. ASSUME NEW t \in ts, s \in xf[t].at..(xf[t].at + xf[t].num - 1) PROVE FALSE
  <2>1. /\ t \in Xfers /\ t = <<t[1], t[2]>> /\ t[1] \in Reqs /\ t[2] \in {1, 2}
        /\ Pending(t[1]) /\ t[1] # q
    BY PairOf
  <2>2. load.aio # <<>>
    BY <2>1, SolePending
  <2>3. t[1] \in Makers /\ q \in Makers
    BY <2>1, PendingMakes DEF Pending
  <2>4. call[t[1]].left = 0 /\ call[q].left = 0 /\ xf[<<t[1], 2>>].num = 0
    BY <2>1, <2>2, <2>3, AllocIs DEF Owned
  <2>5. t = <<t[1], 1>>
    <3>1. t[2] = 2 => xf[<<t[1], 2>>].num > 0
      BY <2>1
    <3> QED BY <2>1, <2>4, <3>1
  <2>6. Apart(t[1], q)
    BY <2>1, <2>2, <2>3, <2>4 DEF Owned, Allocated
  <2> DEFINE a == xf[<<t[1], 1>>].at
             m == xf[<<t[1], 1>>].num
             b == xf[<<q, 1>>].at
             n == xf[<<q, 1>>].num
  <2>7. /\ a \in Nat /\ m \in Nat /\ b \in Nat /\ n \in Nat
        /\ a + m <= b \/ b + n <= a
        /\ s \in a..(a + m - 1) /\ b <= s /\ s < b + n
    BY <1>1, <1>2, <2>1, <2>5, <2>6, PlaceIs DEF Apart
  <2> HIDE DEF a, m, b, n
  <2> QED BY <2>7
<1> QED BY <1>1, <1>2 DEF Cleared

LEMMA CheckIs ==
  ASSUME Types, Linked, NEW r \in Reqs, Check(r)
  PROVE  LET t     == <<r, 1>>
             state == xf[t].state
             more  == state = "COMPLETED" /\ call[r].left > 0
         IN  /\ call[r].pc = "check" /\ r \in load.sync /\ load' = load
             /\ ring' = Cleared(ring, {t})
             /\ call'[r].pc = (IF more THEN "build" ELSE "unmap")
             /\ call'[r].left = call[r].left
             /\ call'[r].done = (IF state = "COMPLETED" THEN call[r].done + xf[t].num
                                 ELSE call[r].done)
             /\ call'[r].failed = (state # "COMPLETED")
             /\ call'[r].pinned = call[r].pinned /\ call'[r].res = call[r].res
             /\ \A q \in Reqs \ {r} : call'[q] = call[q]
             /\ xf'[t].state = (IF state = "SUBMITTED" THEN "ABORTED" ELSE state)
             /\ xf'[t].num = xf[t].num /\ xf'[t].at = xf[t].at /\ xf'[t].live = xf[t].live
             /\ xf'[t].last = xf[t].last /\ xf'[t].cyclic = xf[t].cyclic
             /\ \A u \in Xfers \ {t} : xf'[u] = xf[u]
             /\ state # "SUBMITTED" => UNCHANGED <<eng, hw, queue>>
             /\ state = "SUBMITTED" =>
                  /\ queue' = IF queue # <<>> /\ Head(queue) = t THEN Tail(queue) ELSE queue
                  /\ eng' = [eng EXCEPT !.status = [bits |-> hw.bits, busy |-> hw.busy],
                                        !.running = FALSE]
                  /\ hw' = [hw EXCEPT !.run = FALSE]
             /\ UNCHANGED <<irq, poll, moved, caio>>
<1> DEFINE t     == <<r, 1>>
           state == xf[t].state
           more  == state = "COMPLETED" /\ call[r].left > 0
           pc1   == IF more THEN "build" ELSE "unmap"
           done1 == IF state = "COMPLETED" THEN call[r].done + xf[t].num ELSE call[r].done
           fail1 == state # "COMPLETED"
           T     == EngineStop(TransferAbort(StatusRead(E, FALSE), t))
           st1   == IF state = "SUBMITTED" THEN "ABORTED" ELSE state
<1>1. /\ t \in Xfers /\ call \in [Reqs -> CallRecs] /\ xf \in [Xfers -> XferRecs]
  BY Pairs DEF Types
<1>2. /\ call[r].pc = "check" /\ load' = load /\ ring' = Cleared(ring, {t})
      /\ UNCHANGED <<irq, poll, moved, caio>>
      /\ Becomes(IF state = "SUBMITTED" THEN T ELSE E)
      /\ call' = [call EXCEPT ![r].pc = pc1, ![r].done = done1, ![r].failed = fail1]
  BY DEF Check
<1>3. r \in load.sync
  BY <1>2, WaitersAreSync DEF Linked
<1>4. /\ \A q \in Reqs \ {r} : call'[q] = call[q]
      /\ call'[r].pc = pc1 /\ call'[r].done = done1 /\ call'[r].failed = fail1
      /\ call'[r].left = call[r].left /\ call'[r].pinned = call[r].pinned
      /\ call'[r].res = call[r].res
  <2> HIDE DEF pc1, done1, fail1
  <2> QED BY <1>1, <1>2 DEF CallRecs
<1>5. CASE state = "SUBMITTED"
  <2>1. /\ T.queue = IF queue # <<>> /\ Head(queue) = t THEN Tail(queue) ELSE queue
        /\ T.xf = [xf EXCEPT ![t].state = IF @ = "SUBMITTED" THEN "ABORTED" ELSE @]
        /\ T.eng = [eng EXCEPT !.status = [bits |-> hw.bits, busy |-> hw.busy],
                               !.running = FALSE]
        /\ T.hw = [hw EXCEPT !.run = FALSE]
    BY <1>1, AbortedIs
  <2>2. eng' = T.eng /\ queue' = T.queue /\ xf' = T.xf /\ hw' = T.hw
    BY <1>2, <1>5 DEF Becomes
  <2> HIDE DEF T
  <2>3. xf' = [xf EXCEPT ![t].state = st1]
    BY <2>1, <2>2
  <2> HIDE DEF st1
  <2>4. /\ xf'[t].state = st1 /\ xf'[t].num = xf[t].num /\ xf'[t].at = xf[t].at
        /\ xf'[t].last = xf[t].last /\ xf'[t].live = xf[t].live
        /\ xf'[t].cyclic = xf[t].cyclic
        /\ \A u \in Xfers \ {t} : xf'[u] = xf[u]
    BY <1>1, <2>3, StateSet
  <2> QED BY <1>2, <1>3, <1>4, <1>5, <2>1, <2>2, <2>4 DEF st1
<1>6. CASE state # "SUBMITTED"
  <2>1. eng' = eng /\ queue' = queue /\ xf' = xf /\ hw' = hw
    BY <1>2, <1>6 DEF Becomes, E
  <2> QED BY <1>2, <1>3, <1>4, <1>6, <2>1
<1> QED BY <1>5, <1>6

LEMMA CheckOwned ==
  ASSUME Types, Linked, Owned, NEW r \in Reqs, Check(r)
  PROVE  Owned'
<1> DEFINE t == <<r, 1>>
<1>1. /\ call[r].pc = "check" /\ load' = load /\ ring' = Cleared(ring, {t})
      /\ call'[r].pc \in {"build", "unmap"} /\ call'[r].left = call[r].left
      /\ \A q \in Reqs \ {r} : call'[q] = call[q]
      /\ xf'[t].num = xf[t].num /\ xf'[t].at = xf[t].at
      /\ \A u \in Xfers \ {t} : xf'[u] = xf[u]
      /\ eng'.idx = eng.idx
  <2>1. eng \in EngRecs
    BY DEF Types
  <2>2. /\ call[r].pc = "check" /\ load' = load /\ ring' = Cleared(ring, {t})
        /\ call'[r].pc \in {"build", "unmap"} /\ call'[r].left = call[r].left
        /\ \A q \in Reqs \ {r} : call'[q] = call[q]
        /\ xf'[t].num = xf[t].num /\ xf'[t].at = xf[t].at
        /\ \A u \in Xfers \ {t} : xf'[u] = xf[u]
        /\ \/ eng' = eng
           \/ eng' = [eng EXCEPT !.status = [bits |-> hw.bits, busy |-> hw.busy],
                                 !.running = FALSE]
    BY CheckIs
  <2>3. eng'.idx = eng.idx
    BY <2>1, <2>2 DEF EngRecs
  <2> QED BY <2>2, <2>3
<1>2. (HeadGivesUp' <=> HeadGivesUp) /\ (RingSuffices' <=> RingSuffices)
  BY <1>1, KindKept DEF RingSuffices
<1> SUFFICES ASSUME RingSuffices, HeadGivesUp PROVE Owned'
  BY <1>2 DEF Owned
<1>3. t \in Xfers /\ t[1] = r /\ t[2] = 1 /\ Pending(r)
  BY <1>1, Pairs DEF Pending
<1>4. ASSUME NEW q \in Reqs PROVE Undisturbed(q)
  <2>1. CASE q = r
    <3>1. <<r, 2>> \in Xfers
      BY Pairs
    <3>2. <<r, 2>> # t
      OBVIOUS
    <3> QED BY <1>1, <1>3, <2>1, <3>1, <3>2 DEF Undisturbed, Pending
  <2>2. CASE q # r
    <3>1. <<q, 1>> \in Xfers /\ <<q, 2>> \in Xfers
      BY Pairs
    <3>2. <<q, 1>> # t /\ <<q, 2>> # t
      BY <2>2
    <3>3. xf'[<<q, 1>>] = xf[<<q, 1>>] /\ xf'[<<q, 2>>] = xf[<<q, 2>>] /\ call'[q] = call[q]
      BY <1>1, <2>2, <3>1, <3>2
    <3>4. Pending(q) => \A s \in Place(q) : ring'[s] = ring[s]
      <4> SUFFICES ASSUME Pending(q), NEW s \in Place(q) PROVE ring'[s] = ring[s]
        OBVIOUS
      <4>1. {t} \in SUBSET Xfers /\ {r} \in SUBSET Reqs
        BY <1>3
      <4>2. \A u \in {t} : u[1] \in {r} /\ Pending(u[1])
                           /\ (u[2] = 2 => xf[u].num > 0 /\ IsAio(u[1]))
        BY <1>3
      <4>3. q \notin {r}
        BY <2>2
      <4>4. Cleared(ring, {t})[s] = ring[s]
        BY <4>1, <4>2, <4>3, ClearedApart
      <4> QED BY <1>1, <4>4
    <3> QED BY <3>3, <3>4 DEF Undisturbed, Pending
  <2> QED BY <2>1, <2>2
<1> QED BY <1>1, <1>4, OwnedFrame

LEMMA HandledOwned ==
  ASSUME Types, Types', Linked, Owned, NEW S \in States, NEW k \in 0..Len(queue),
         Served(E, S, k), Handled(S), load' = load, desc_lock' = desc_lock
  PROVE  Owned'
<1> DEFINE R    == Notified(S)
           gone == UNION {Reaped(S, r) : r \in R}
<1>1. /\ \A t \in Xfers :
           /\ xf'[t].num = xf[t].num /\ xf'[t].at = xf[t].at
           /\ t \notin Front(k) => xf'[t].state = xf[t].state
      /\ \A r \in Reqs : r \notin R => call'[r] = call[r]
      /\ \A r \in R :
           r \in Reqs /\ call'[r].pc = "returned" /\ call'[r].left = call[r].left
  BY HandledFields
<1>2. ring' = Cleared(ring, gone) /\ eng' = S.eng
  BY DEF Handled
<1>3. eng'.idx = eng.idx
  BY <1>2 DEF Served, E
<1>4. (HeadGivesUp' <=> HeadGivesUp) /\ (RingSuffices' <=> RingSuffices)
  BY KindKept DEF RingSuffices
<1> SUFFICES ASSUME RingSuffices, HeadGivesUp PROVE Owned'
  BY <1>4 DEF Owned
<1>5. \A r \in R : IsAio(r) /\ call[r].pc = "flying"
  BY HandledLinked
<1>6. R \in SUBSET Reqs
  BY <1>1
<1>7. /\ gone \in SUBSET Xfers
      /\ \A t \in gone : t[1] \in R /\ Pending(t[1]) /\ (t[2] = 2 => xf[t].num > 0 /\ IsAio(t[1]))
  <2>1. \A t \in Xfers : S.xf[t].num = xf[t].num
    BY ServedFields
  <2>2. ASSUME NEW t \in gone
        PROVE  t \in Xfers /\ t[1] \in R /\ Pending(t[1]) /\ (t[2] = 2 => xf[t].num > 0 /\ IsAio(t[1]))
    <3>1. PICK r \in R : t \in Reaped(S, r)
      OBVIOUS
    <3>2. t \in {r} \X {1, 2} /\ S.xf[t].num > 0
      BY <3>1 DEF Reaped
    <3>3. t \in Xfers /\ t[1] = r
      BY <1>6, <3>2 DEF Xfers
    <3> QED BY <1>5, <2>1, <3>2, <3>3 DEF Pending
  <2> HIDE DEF gone
  <2> QED BY <2>2
<1>8. \A t \in Front(k) : xf[t].state # "NEW"
  <2>1. Front(k) \subseteq Queued
    BY QueuedXfers DEF Front, Queued
  <2> QED BY <2>1 DEF Linked, InFlight
<1> HIDE DEF R, gone
<1>9. ASSUME NEW q \in Reqs PROVE Undisturbed(q)
  <2>1. <<q, 1>> \in Xfers /\ <<q, 2>> \in Xfers
    BY Pairs
  <2>2. /\ xf'[<<q, 1>>].num = xf[<<q, 1>>].num /\ xf'[<<q, 1>>].at = xf[<<q, 1>>].at
        /\ xf'[<<q, 2>>].num = xf[<<q, 2>>].num /\ call'[q].left = call[q].left
        /\ xf[<<q, 1>>].state # "NEW" \/ xf'[<<q, 1>>].state = xf[<<q, 1>>].state
    BY <1>1, <1>8, <2>1
  <2>3. CASE q \in R
    BY <1>1, <2>2, <2>3 DEF Undisturbed, Pending
  <2>4. CASE q \notin R
    <3>1. call'[q] = call[q]
      BY <1>1, <2>4
    <3>2. Pending(q) => \A s \in Place(q) : ring'[s] = ring[s]
      BY <1>2, <1>6, <1>7, <2>4, ClearedApart
    <3> QED BY <2>2, <3>1, <3>2 DEF Undisturbed, Pending
  <2> QED BY <2>3, <2>4
<1> QED BY <1>3, <1>9, OwnedFrame

(* transfer_queue leaves the ring alone.                                   *)
LEMMA SubmitIs ==
  ASSUME Types, NEW r \in Reqs, Submit(r) \/ AioSubmit(r)
  PROVE  LET t == IF Submit(r) THEN <<r, 1>> ELSE Current(r)
         IN  /\ t \in {<<r, 1>>, <<r, 2>>} /\ t \in Xfers /\ Becomes(QueueXfer(E, t))
             /\ call[r].pc = "submit" /\ load' = load /\ ring' = ring /\ ~Refused
             /\ UNCHANGED <<irq, moved, desc_lock>>
             /\ poll' = poll
             /\ \A q \in Reqs \ {r} : call'[q] = call[q]
             /\ \A q \in Reqs : /\ call'[q].left = call[q].left /\ call'[q].done = call[q].done
                                /\ call'[q].failed = call[q].failed
                                /\ call'[q].pinned = call[q].pinned
                                /\ call'[q].res = call[q].res
             /\ Submit(r) => r \in load.sync /\ call'[r].pc \in {"queued", "wait"}
             /\ ~Submit(r) => IsAio(r) /\ call'[r].pc = IF call[r].left > 0 THEN "build" ELSE "flying"
             /\ xf'[t].state = "SUBMITTED" /\ xf'[t].num = xf[t].num /\ xf'[t].at = xf[t].at
             /\ xf'[t].last = xf[t].last /\ xf'[t].live = xf[t].live
             /\ xf'[t].cyclic = xf[t].cyclic
             /\ \A u \in Xfers \ {t} : xf'[u] = xf[u]
             /\ eng'.idx = eng.idx
<1>1. call \in [Reqs -> CallRecs] /\ eng \in EngRecs
  BY DEF Types
<1>2. ASSUME NEW t \in {<<r, 1>>, <<r, 2>>}, Becomes(QueueXfer(E, t)), NEW p, p \in Stages,
             call' = [call EXCEPT ![r].pc = p]
      PROVE  /\ t \in Xfers
             /\ \A q \in Reqs \ {r} : call'[q] = call[q]
             /\ \A q \in Reqs : /\ call'[q].left = call[q].left /\ call'[q].done = call[q].done
                                /\ call'[q].failed = call[q].failed
                                /\ call'[q].pinned = call[q].pinned
                                /\ call'[q].res = call[q].res
             /\ call'[r].pc = p
             /\ xf'[t].state = "SUBMITTED" /\ xf'[t].num = xf[t].num /\ xf'[t].at = xf[t].at
             /\ xf'[t].last = xf[t].last /\ xf'[t].live = xf[t].live
             /\ xf'[t].cyclic = xf[t].cyclic
             /\ \A u \in Xfers \ {t} : xf'[u] = xf[u]
             /\ eng'.idx = eng.idx
  <2>1. t \in Xfers
    BY Pairs
  <2>2. xf' = [xf EXCEPT ![t].state = "SUBMITTED"]
    BY <1>2, <2>1, QueuedState
  <2>3. eng'.idx = eng.idx
    <3>1. \/ eng' = eng
          \/ eng' = [eng EXCEPT !.running = TRUE, !.shutdown = FALSE, !.dequeued = 0,
                                !.status = [bits |-> hw.bits, busy |-> TRUE]]
      BY <1>2, <2>1, QueuedState
    <3> QED BY <1>1, <3>1 DEF EngRecs
  <2>4. /\ \A q \in Reqs \ {r} : call'[q] = call[q]
        /\ \A q \in Reqs : /\ call'[q].left = call[q].left /\ call'[q].done = call[q].done
                           /\ call'[q].failed = call[q].failed
                           /\ call'[q].pinned = call[q].pinned
                           /\ call'[q].res = call[q].res
        /\ call'[r].pc = p
    BY <1>1, <1>2 DEF CallRecs
  <2> QED BY <2>1, <2>2, <2>3, <2>4, StateSet
<1>3. CASE Submit(r)
  <2> DEFINE p == IF load.poll THEN "queued" ELSE "wait"
  <2>1. /\ Becomes(QueueXfer(E, <<r, 1>>)) /\ call' = [call EXCEPT ![r].pc = p]
        /\ call[r].pc = "submit" /\ load' = load /\ ring' = ring /\ ~Refused
        /\ UNCHANGED <<irq, moved, desc_lock>> /\ poll' = poll /\ r \in load.sync
    BY <1>3 DEF Submit
  <2>2. p \in Stages /\ p \in {"queued", "wait"}
    BY DEF Stages
  <2> HIDE DEF p
  <2> QED BY <1>2, <1>3, <2>1, <2>2
<1>4. CASE AioSubmit(r) /\ ~Submit(r)
  <2> DEFINE p == IF call[r].left > 0 THEN "build" ELSE "flying"
  <2>1. /\ Becomes(QueueXfer(E, Current(r))) /\ call' = [call EXCEPT ![r].pc = p]
        /\ call[r].pc = "submit" /\ load' = load /\ ring' = ring /\ ~Refused
        /\ UNCHANGED <<irq, moved, desc_lock>> /\ poll' = poll /\ IsAio(r)
    BY <1>4 DEF AioSubmit
  <2>2. p \in Stages
    BY DEF Stages
  <2>3. PICK t \in {<<r, 1>>, <<r, 2>>} : t = Current(r)
    BY CurrentIs
  <2> HIDE DEF p
  <2>4. Becomes(QueueXfer(E, t))
    BY <2>1, <2>3
  <2>5. /\ t \in Xfers
        /\ \A q \in Reqs \ {r} : call'[q] = call[q]
        /\ \A q \in Reqs : /\ call'[q].left = call[q].left /\ call'[q].done = call[q].done
                           /\ call'[q].failed = call[q].failed
                           /\ call'[q].pinned = call[q].pinned
                           /\ call'[q].res = call[q].res
        /\ call'[r].pc = p
        /\ xf'[t].state = "SUBMITTED" /\ xf'[t].num = xf[t].num /\ xf'[t].at = xf[t].at
        /\ xf'[t].last = xf[t].last /\ xf'[t].live = xf[t].live
        /\ xf'[t].cyclic = xf[t].cyclic
        /\ \A u \in Xfers \ {t} : xf'[u] = xf[u]
        /\ eng'.idx = eng.idx
    BY <1>2, <2>1, <2>2, <2>4
  <2>6. call'[r].pc = IF call[r].left > 0 THEN "build" ELSE "flying"
    BY <2>5 DEF p
  <2>7. (IF Submit(r) THEN <<r, 1>> ELSE Current(r)) = t
    BY <1>4, <2>3
  <2> QED BY <1>4, <2>1, <2>4, <2>5, <2>6, <2>7
<1> QED BY <1>3, <1>4

LEMMA SubmitOwned ==
  ASSUME Types, Linked, Owned, NEW r \in Reqs, Submit(r) \/ AioSubmit(r)
  PROVE  Owned'
<1>1. PICK t \in {<<r, 1>>, <<r, 2>>} :
        /\ call[r].pc = "submit" /\ load' = load /\ ring' = ring
        /\ \A q \in Reqs \ {r} : call'[q] = call[q]
        /\ \A q \in Reqs : call'[q].left = call[q].left
        /\ call'[r].pc # "overrun"
        /\ xf'[t].num = xf[t].num /\ xf'[t].at = xf[t].at
        /\ \A u \in Xfers \ {t} : xf'[u] = xf[u]
        /\ eng'.idx = eng.idx
  BY SubmitIs
<1>2. ASSUME NEW q \in Reqs
      PROVE  /\ xf'[<<q, 1>>].num = xf[<<q, 1>>].num /\ xf'[<<q, 1>>].at = xf[<<q, 1>>].at
             /\ xf'[<<q, 2>>].num = xf[<<q, 2>>].num
             /\ q = r \/ xf'[<<q, 1>>].state = xf[<<q, 1>>].state
  <2>1. <<q, 1>> \in Xfers /\ <<q, 2>> \in Xfers
    BY Pairs
  <2>2. q # r => <<q, 1>> # t /\ <<q, 2>> # t
    OBVIOUS
  <2> QED BY <1>1, <2>1, <2>2
<1>3. Pending(r)
  BY <1>1 DEF Pending
<1> QED BY <1>1, <1>2, <1>3, OwnedQuiet

LEMMA OwnedKept ==
  ASSUME Types, Types', Linked, Owned, [Next]_vars
  PROVE  Owned'
<1>1. load' = load /\ (HeadGivesUp' <=> HeadGivesUp)
  BY LoadFixed, KindKept
<1>2. call \in [Reqs -> CallRecs] /\ xf \in [Xfers -> XferRecs] /\ eng \in EngRecs
  BY DEF Types
<1>3. \A r \in Reqs : <<r, 1>> \in Xfers /\ <<r, 2>> \in Xfers
  BY Pairs
<1>4. ASSUME UNCHANGED <<call, ring>>, eng'.idx = eng.idx,
             \A t \in Xfers : /\ xf'[t].num = xf[t].num /\ xf'[t].at = xf[t].at
                              /\ xf'[t].state = xf[t].state
      PROVE  Owned'
  BY <1>1, <1>3, <1>4, OwnedQuiet
<1>5. ASSUME NEW r \in Reqs, NEW p, p \notin {"submit", "flying", "overrun"},
             p \in {"queued", "wait", "check"} => Pending(r),
             call'[r].pc = p, call'[r].left = call[r].left,
             \A q \in Reqs \ {r} : call'[q] = call[q], ring' = ring, eng' = eng,
             \A t \in Xfers : /\ xf'[t].num = xf[t].num /\ xf'[t].at = xf[t].at
                              /\ xf'[t].state = xf[t].state
      PROVE  Owned'
  <2>1. \A q \in Reqs :
           /\ call'[q].left = call[q].left
           /\ xf'[<<q, 1>>].num = xf[<<q, 1>>].num /\ xf'[<<q, 1>>].at = xf[<<q, 1>>].at
           /\ xf'[<<q, 2>>].num = xf[<<q, 2>>].num
           /\ call'[q].pc \in {"submit", "queued", "wait", "check", "flying", "overrun"} =>
                \/ call'[q].pc = call[q].pc
                \/ call'[q].pc # "overrun" /\ Pending(q)
           /\ Pending(q) \/ xf'[<<q, 1>>].state = xf[<<q, 1>>].state
    BY <1>3, <1>5
  <2> QED BY <1>1, <1>5, <2>1, OwnedQuiet
<1>6. CASE \E r \in Reqs : \/ Enter(r) \/ EnterFails(r) \/ LockDesc(r) \/ SubmitRefused(r)
                           \/ WakeThread(r) \/ Wake(r) \/ GiveUp(r) \/ Return(r)
  <2>1. PICK r \in Reqs : \/ Enter(r) \/ EnterFails(r) \/ LockDesc(r) \/ SubmitRefused(r)
                          \/ WakeThread(r) \/ Wake(r) \/ GiveUp(r) \/ Return(r)
    BY <1>6
  <2>2. CASE Enter(r) \/ EnterFails(r) \/ LockDesc(r) \/ SubmitRefused(r)
    <3>1. /\ call'[r].pc \in {"mapped", "returned", "build", "unmap"}
          /\ call'[r].left = call[r].left
          /\ \A q \in Reqs \ {r} : call'[q] = call[q]
          /\ UNCHANGED <<ring, eng, xf>>
      BY <1>2, <2>2 DEF Enter, EnterFails, LockDesc, SubmitRefused, Move, engineVars, CallRecs
    <3> QED BY <1>5, <3>1
  <2>3. CASE WakeThread(r) \/ Wake(r) \/ GiveUp(r)
    <3>1. /\ call'[r].pc \in {"wait", "check"} /\ call'[r].left = call[r].left /\ Pending(r)
          /\ \A q \in Reqs \ {r} : call'[q] = call[q]
          /\ UNCHANGED <<ring, eng, xf>>
      BY <1>2, <2>3 DEF WakeThread, Wake, GiveUp, Move, engineVars, CallRecs, Pending
    <3> QED BY <1>5, <3>1
  <2>4. CASE Return(r)
    <3>1. /\ call'[r].pc = "returned" /\ call'[r].left = call[r].left
          /\ \A q \in Reqs \ {r} : call'[q] = call[q]
          /\ UNCHANGED <<ring, eng>>
      BY <1>2, <2>4 DEF Return, CallRecs
    <3>2. \A t \in Xfers : /\ xf'[t].num = xf[t].num /\ xf'[t].at = xf[t].at
                           /\ xf'[t].state = xf[t].state
      BY <1>2, <1>3, <2>4 DEF Return, XferRecs
    <3> QED BY <1>5, <3>1, <3>2
  <2> QED BY <2>1, <2>2, <2>3, <2>4
<1>7. CASE AioSegment \/ AioSegmentLost \/ \E r \in Reqs : AioRefused(r)
  <2>1. CASE AioSegment
    <3>1. PICK q \in Reqs : q = load.aio[caio.next]
      BY <2>1, SegmentIs DEF AioSegment
    <3>2. /\ call' = [call EXCEPT ![q].pc = "build", ![q].pinned = TRUE]
          /\ UNCHANGED <<ring, eng, xf>>
      BY <2>1, <3>1 DEF AioSegment, engineVars
    <3>3. /\ call'[q].pc = "build" /\ call'[q].left = call[q].left
          /\ \A p \in Reqs \ {q} : call'[p] = call[p]
      BY <1>2, <3>2 DEF CallRecs
    <3> QED BY <1>5, <3>2, <3>3
  <2>2. CASE \E r \in Reqs : AioRefused(r)
    <3>1. PICK q \in Reqs : AioRefused(q)
      BY <2>2
    <3>2. /\ call'[q].pc = "lost" /\ call'[q].left = call[q].left
          /\ \A p \in Reqs \ {q} : call'[p] = call[p]
          /\ UNCHANGED <<ring, eng>>
      BY <1>2, <3>1 DEF AioRefused, CallRecs
    <3>3. \A t \in Xfers : /\ xf'[t].num = xf[t].num /\ xf'[t].at = xf[t].at
                           /\ xf'[t].state = xf[t].state
      BY <1>2, <1>3, <3>1 DEF AioRefused, XferRecs
    <3> QED BY <1>5, <3>2, <3>3
  <2>3. CASE AioSegmentLost
    <3>1. PICK q \in Reqs : q = load.aio[caio.next]
      BY <2>3, SegmentIs DEF AioSegmentLost
    <3>2. /\ call' = [call EXCEPT ![q].pc = "lost", ![q].pinned = TRUE]
          /\ UNCHANGED <<ring, eng, xf>>
      BY <2>3, <3>1 DEF AioSegmentLost, engineVars
    <3>3. /\ call'[q].pc = "lost" /\ call'[q].left = call[q].left
          /\ \A p \in Reqs \ {q} : call'[p] = call[p]
      BY <1>2, <3>2 DEF CallRecs
    <3> QED BY <1>5, <3>2, <3>3
  <2> QED BY <1>7, <2>1, <2>2, <2>3
<1>8. CASE \E r \in Reqs : AioOverrun(r)
  <2>1. PICK r \in Reqs : AioOverrun(r)
    BY <1>8
  <2>2. /\ IsAio(r) /\ call[r].pc = "build" /\ xf[Current(r)].state # "NEW"
        /\ load.aio # <<>> /\ r \in Makers
    BY <2>1, Kinds DEF AioOverrun, Move, IsAio, Makers
  <2>3. call[r].left # 0
    <3>1. AioLink(r)
      BY <1>1, <2>2, AioOnly DEF Linked
    <3>2. call[r].left \in Nat
      BY <1>2 DEF CallRecs
    <3> QED BY <2>2, <3>1, <3>2 DEF AioLink
  <2>4. ~(RingSuffices /\ HeadGivesUp)
    <3> SUFFICES ASSUME RingSuffices, HeadGivesUp PROVE FALSE
      OBVIOUS
    <3>1. xf[<<r, 1>>].state = "NEW"
      BY <2>2, <2>3, AllocIs DEF Owned
    <3> QED BY <2>2, <3>1 DEF Current
  <2>5. RingSuffices' <=> RingSuffices
    BY <1>1 DEF RingSuffices
  <2> QED BY <1>1, <2>4, <2>5 DEF Owned
<1>9. CASE ServiceWork \/ ServicePoll
  <2>1. PICK S \in States : \E k \in 0..Len(queue) : Served(E, S, k) /\ Handled(S)
    BY <1>9, ServiceIsServed
  <2>2. PICK k \in 0..Len(queue) : Served(E, S, k) /\ Handled(S)
    BY <2>1
  <2>3. desc_lock' = desc_lock
    BY <1>9 DEF ServiceWork, ServicePoll
  <2> QED BY <1>1, <2>2, <2>3, HandledOwned
<1>10. CASE \/ AioEnter \/ AioSegmentBad \/ AioReturn \/ UNCHANGED vars
            \/ /\ ChannelIrq \/ PollCheck \/ PollPick \/ PollRead \/ PollTimeout \/ HwNext
               /\ UNCHANGED fileVars
  <2>1. UNCHANGED <<call, ring, eng, xf>>
    BY <1>10 DEF AioEnter, AioSegmentBad, AioReturn, ChannelIrq, PollCheck, PollPick, PollRead,
           PollTimeout, HwNext, HwFetch, HwRest, HwStep, HwError, HwLate, fileVars, vars, engineVars
  <2> QED BY <1>4, <2>1
<1>11. CASE Offline \/ Online
  <2>1. UNCHANGED <<call, ring, xf>>
    BY <1>11 DEF Offline, Online, fileVars
  <2>2. eng'.idx = eng.idx
    <3>1. EngineStop(E).eng = [eng EXCEPT !.running = FALSE]
      BY StateOfE, EngineStopIs DEF E
    <3> QED BY <1>2, <1>11, <3>1 DEF Offline, Online, EngRecs
  <2> QED BY <1>4, <2>1, <2>2
<1>12. CASE \E r \in Reqs :
              PerfStart(r) \/ PerfStartRefused(r) \/ PerfStartFails(r) \/ PerfStop(r)
  <2>1. load.perf # {}
    BY <1>12, Zenon DEF PerfStart, PerfStartRefused, PerfStartFails, PerfStop
  <2> QED BY <1>1, <2>1 DEF Owned, HeadGivesUp
<1> QED BY <1>6, <1>7, <1>8, <1>9, <1>10, <1>11, <1>12, BuildOwned, SubmitOwned, CheckOwned
        DEF Next, CallStep, AioStep

LEMMA OwnedHolds == Spec => [](Types /\ Linked /\ Owned)
<1>1. Init => Types /\ Linked /\ Owned
  BY InitTypes, LinkedStart, OwnedStart
<1>2. Types /\ Linked /\ Owned /\ [Next]_vars => (Types /\ Linked /\ Owned)'
  BY TypesKept, LinkedKept, OwnedKept
<1> QED BY <1>1, <1>2, PTL DEF Spec

(* What is queued is the first part of a request that waits for it.        *)
LEMMA QueuedPending ==
  ASSUME Types, Linked, Owned, RingSuffices, HeadGivesUp, NEW t \in Queued
  PROVE  /\ t = <<t[1], 1>> /\ t[1] \in Reqs /\ Pending(t[1]) /\ t[1] \in Makers
         /\ t[1] \in load.sync => call[t[1]].pc \in {"queued", "wait", "check"}
         /\ IsAio(t[1]) => call[t[1]].pc = "flying"
         /\ xf[t].state \in {"SUBMITTED", "ABORTED"}
<1>1. /\ t = <<t[1], t[2]>> /\ t[1] \in Reqs /\ t[2] \in {1, 2}
      /\ xf[t].state \in {"SUBMITTED", "ABORTED"}
  BY QueuedXfers, PairOf DEF Linked, InFlight
<1>2. PICK r \in Reqs : r = t[1]
  BY <1>1
<1>3. Link(r) /\ load.perf = {}
  BY DEF Linked, HeadGivesUp
<1>4. CASE r \in load.sync
  <2>1. SyncLink(r)
    BY <1>3, <1>4 DEF Link
  <2>2. t = <<r, 1>> /\ ~IsAio(r)
    BY <1>1, <1>2, <1>4, <2>1, Kinds DEF SyncLink
  <2>3. call[r].pc \in {"queued", "wait", "check"}
    BY <1>1, <2>1, <2>2 DEF SyncLink
  <2> QED BY <1>1, <1>2, <1>4, <2>2, <2>3 DEF Makers, Pending
<1>5. CASE IsAio(r)
  <2>1. AioLink(r) /\ r \in Makers /\ r \notin load.sync /\ load.aio # <<>>
    BY <1>3, <1>5, Kinds DEF Link, Makers, IsAio
  <2>2. /\ xf[<<r, 2>>].num = 0 /\ call[r].pc # "overrun"
        /\ call[r].left # 0 => xf[<<r, 1>>].state = "NEW"
    BY <2>1, AllocIs DEF Owned
  <2>3. t = <<r, 1>>
    BY <1>1, <1>2, <2>1, <2>2 DEF AioLink
  <2>4. xf[<<r, 1>>].state # "NEW" /\ call[r].left = 0
    BY <1>1, <2>2, <2>3
  <2>5. call[r].pc = "flying"
    BY <2>1, <2>2, <2>3, <2>4 DEF AioLink
  <2> QED BY <1>1, <1>2, <2>1, <2>3, <2>5 DEF Pending
<1>6. CASE r \notin load.sync /\ ~IsAio(r)
  BY <1>1, <1>2, <1>3, <1>6 DEF Link, OtherLink
<1> QED BY <1>4, <1>5, <1>6

(* What is queued finds its own descriptors in the ring when its turn      *)
(* comes, for any size of the ring and any mix of waiting and asynchronous *)
(* calls that fits into it: neither transfer_init nor transfer_destroy of  *)
(* another request has touched them, and their order is kept.              *)
THEOREM DescriptorsAreIntact == Spec => []DescriptorsIntact
<1>1. Types /\ Linked /\ Owned => DescriptorsIntact
  <2> SUFFICES ASSUME Types, Linked, Owned, RingSuffices, HeadGivesUp, NEW i \in DOMAIN queue
               PROVE  LET t == queue[i]
                      IN  \A s \in xf[t].at..(xf[t].at + xf[t].num - 1) :
                            /\ s \in Slots /\ ring[s].xfer = t
                            /\ ring[s].last <=> s = xf[t].at + xf[t].num - 1
    BY DEF DescriptorsIntact
  <2>1. PICK r \in Reqs : queue[i] = <<r, 1>> /\ Pending(r)
    <3>1. queue[i] \in Queued
      BY DEF Queued
    <3> QED BY <3>1, QueuedPending
  <2>2. Intact(r)
    BY <2>1 DEF Owned
  <2> DEFINE at  == xf[<<r, 1>>].at
             num == xf[<<r, 1>>].num
  <2>3. at \in Nat /\ num \in Nat /\ Place(r) = at..(at + num - 1) /\ at + num <= DescMax
    BY <2>2, PlaceIs DEF Intact, Desc
  <2>4. \A s \in at..(at + num - 1) : s \in Slots
    <3> HIDE DEF at, num
    <3> QED BY <2>3, Ring
  <2>5. \A s \in at..(at + num - 1) : /\ ring[s].xfer = <<r, 1>>
                                      /\ ring[s].last <=> s = at + num - 1
    <3> TAKE s \in at..(at + num - 1)
    <3>1. ring[s] = [xfer |-> <<r, 1>>, no |-> First(r) + (s - at) + 1,
                     last |-> (s = at + num - 1), next |-> (s + 1) % DescMax]
      BY <2>2, <2>3 DEF Intact, Desc
    <3> DEFINE b == s = at + num - 1
               n == First(r) + (s - at) + 1
               x == (s + 1) % DescMax
    <3>2. ring[s] = [xfer |-> <<r, 1>>, no |-> n, last |-> b, next |-> x]
      BY <3>1
    <3> HIDE DEF b, n, x
    <3>3. ring[s].xfer = <<r, 1>> /\ ring[s].last = b
      BY <3>2
    <3> QED BY <3>3 DEF b
  <2> QED BY <2>1, <2>4, <2>5
<1> QED BY <1>1, OwnedHolds, PTL

-----------------------------------------------------------------------------
(* Driven: what the device has done and has in its hands, while the engine *)
(* is used within its limits                                               *)

Span(a, n) == (a + 1)..(a + n)

(* A request that was given up, or failed                                  *)
Abandoned(r) ==
  \/ call[r].failed
  \/ xf[<<r, 1>>].state = "FAILED" /\ call[r].pc \in {"queued", "wait", "check"}

Sane ==
  /\ ~eng.offline /\ ~eng.shutdown /\ (hw.run <=> eng.running)
  /\ \A t \in Xfers : ~xf[t].cyclic
  /\ hw.cur # NoDesc => hw.busy /\ hw.cur.no \in 1..DescsOf[hw.cur.xfer[1]]
  /\ \A r \in Reqs : moved[r] \subseteq 1..DescsOf[r]
  /\ ~load.errors => "err" \notin hw.bits /\ "err" \notin eng.status.bits

(* The device walks the descriptors of r.                                  *)
Walks(r) ==
  /\ hw.count <= xf[<<r, 1>>].num
  /\ Span(First(r), hw.count) \subseteq moved[r]
  /\ hw.busy => /\ hw.count < xf[<<r, 1>>].num
                /\ hw.pos = xf[<<r, 1>>].at + hw.count
                /\ hw.cur \in {NoDesc, Desc(r, hw.pos)}

Heads(r) == queue # <<>> /\ Head(queue) = <<r, 1>>

Running ==
  eng.running => eng.dequeued = 0 /\ \E r \in Reqs : Heads(r) /\ Walks(r)

(* The run is over, and all descriptors of the head are carried out.       *)
Over ==
  /\ eng.running /\ ~hw.busy
  /\ \E r \in Reqs : Heads(r) /\ hw.count = xf[<<r, 1>>].num

(* Nobody gives up: an interrupt, or a written back count, is that of the  *)
(* run that is over.                                                       *)
Steady ==
  ~load.giveup =>
    /\ hw.late = {}
    /\ hw.busy => eng.running
    /\ ~load.poll => /\ irq.work => hw.bits # {}
                     /\ hw.bits # {} => eng.running /\ ~hw.busy
                     /\ hw.bits # {} /\ "err" \notin hw.bits => Over
                     /\ poll.pc = "idle"
    /\ load.poll => /\ ~irq.work
                    /\ hw.wb # NoWb =>
                         /\ hw.wb = [count |-> hw.count, err |-> FALSE]
                         /\ Over
                    /\ poll.pc = "service" =>
                         /\ hw.wb = NoWb
                         /\ poll.wb = [count |-> hw.count, err |-> FALSE]
                         /\ Over

(* Somebody may give up: what the device has in its hands and does not     *)
(* walk belongs to such a request.                                         *)
Unsteady ==
  load.giveup =>
    /\ poll.pc = "idle"
    /\ \A t \in hw.late : Abandoned(t[1])
    /\ hw.cur # NoDesc /\ ~eng.running => Abandoned(hw.cur.xfer[1])

(* The descriptors that a waiting call counts                              *)
Account(r) ==
  LET c == call[r]
      a == xf[<<r, 1>>]
  IN  /\ 1..c.done \subseteq moved[r]
      /\ c.pc \in {"idle", "mapped", "build"} => c.done = DescsOf[r] - c.left
      /\ c.pc \in {"submit", "queued", "wait", "check"} => c.done = First(r)
      /\ c.pc \in {"queued", "wait", "check"} /\ a.state = "COMPLETED" =>
           Span(First(r), a.num) \subseteq moved[r]
      /\ c.pc = "unmap" => IF c.failed THEN c.done < DescsOf[r] ELSE c.done = DescsOf[r]

Result(r) ==
  LET c == call[r]
  IN  /\ c.res # "none" <=> c.pc = "returned"
      /\ c.failed => c.pc \in {"unmap", "returned"}
      /\ c.res = "all" => moved[r] = 1..DescsOf[r] /\ ~c.failed
      /\ c.pc \in {"mapped", "build", "submit", "queued", "wait", "check", "flying", "unmap"} => c.pinned

Faultless(r) ==
  ~load.errors /\ ~load.giveup =>
    /\ xf[<<r, 1>>].state # "FAILED"
    /\ call[r].pc = "unmap" => ~call[r].failed
    /\ call[r].pc = "returned" /\ r \notin load.bad => call[r].res = "all"

CallOk(r) == (r \in load.sync => Account(r)) /\ Result(r) /\ Faultless(r)

Driven ==
  Reliable => Sane /\ Running /\ Steady /\ Unsteady /\ \A r \in Reqs : CallOk(r)

(* The head of the queue is the transfer of a request that waits for it.   *)
LEMMA HeadIs ==
  ASSUME Types, Linked, Owned, Reliable, \A q \in Reqs : CallOk(q), queue # <<>>
  PROVE  \E r \in Reqs :
           /\ Heads(r) /\ <<r, 1>> \in Queued
           /\ Pending(r) /\ Intact(r) /\ r \in Makers
           /\ xf[<<r, 1>>].num \in Nat /\ xf[<<r, 1>>].num > 0 /\ xf[<<r, 1>>].num <= DescMax
           /\ xf[<<r, 1>>].at \in Nat /\ xf[<<r, 1>>].at + xf[<<r, 1>>].num <= DescMax
           /\ First(r) \in Nat /\ First(r) + xf[<<r, 1>>].num <= DescsOf[r]
           /\ r \in load.sync => call[r].pc \in {"queued", "wait", "check"} /\ call[r].done = First(r)
           /\ IsAio(r) => call[r].pc = "flying" /\ call[r].left = 0 /\ First(r) = 0
                          /\ xf[<<r, 1>>].num = DescsOf[r] /\ xf[<<r, 2>>].num = 0
           /\ r \in load.sync \/ IsAio(r)
           /\ xf[<<r, 1>>].state \in {"SUBMITTED", "ABORTED"}
<1>1. RingSuffices /\ HeadGivesUp /\ Head(queue) \in Queued
  BY QueuedXfers DEF Reliable
<1>2. PICK r \in Reqs :
        /\ Head(queue) = <<r, 1>> /\ <<r, 1>> \in Queued /\ Pending(r) /\ r \in Makers
        /\ r \in load.sync => call[r].pc \in {"queued", "wait", "check"}
        /\ IsAio(r) => call[r].pc = "flying"
        /\ xf[<<r, 1>>].state \in {"SUBMITTED", "ABORTED"}
  BY <1>1, QueuedPending
<1>3. Intact(r)
  BY <1>1, <1>2 DEF Owned
<1> DEFINE at  == xf[<<r, 1>>].at
           num == xf[<<r, 1>>].num
           left == call[r].left
<1>4. /\ at \in Nat /\ num \in Nat /\ num <= DescMax /\ at + num <= DescMax
      /\ left \in Nat /\ DescsOf[r] \in Nat /\ First(r) = DescsOf[r] - left - num
  BY <1>3, PlaceIs, Requests DEF Intact, Types, CallRecs, First
<1>5. Link(r) /\ (r \in load.sync \/ IsAio(r))
  BY <1>2, Kinds DEF Linked, Makers
<1>6. CASE r \in load.sync
  <2>1. SyncLink(r) /\ Account(r) /\ ~IsAio(r)
    BY <1>5, <1>6, Kinds DEF Link, CallOk
  <2>2. num > 0 /\ call[r].done = First(r)
    BY <1>2, <1>6, <2>1 DEF SyncLink, Account
  <2>3. call[r].done \in Nat
    BY DEF Types, CallRecs
  <2>4. First(r) \in Nat /\ First(r) + num <= DescsOf[r]
    <3> HIDE DEF at, num, left
    <3> QED BY <1>4, <2>2, <2>3
  <2> QED BY <1>2, <1>3, <1>4, <1>6, <2>1, <2>2, <2>4 DEF Heads
<1>7. CASE IsAio(r)
  <2>1. AioLink(r) /\ r \notin load.sync /\ load.aio # <<>>
    BY <1>5, <1>7, Kinds DEF Link, IsAio
  <2>2. call[r].left = 0 /\ num > 0
    BY <1>2, <1>7, <2>1 DEF AioLink
  <2>3. num = DescsOf[r] /\ xf[<<r, 2>>].num = 0
    BY <1>1, <1>2, <2>1, <2>2, AllocIs DEF Owned
  <2>4. First(r) = 0 /\ First(r) + num <= DescsOf[r]
    <3>1. left = 0
      BY <2>2
    <3> HIDE DEF at, num, left
    <3> QED BY <1>4, <2>3, <3>1
  <2> QED BY <1>2, <1>3, <1>4, <1>7, <2>1, <2>2, <2>3, <2>4 DEF Heads
<1> QED BY <1>5, <1>6, <1>7

LEMMA CallOkFrame ==
  ASSUME NEW q \in Reqs, CallOk(q), load' = load, call'[q] = call[q],
         xf'[<<q, 1>>].state = xf[<<q, 1>>].state, xf'[<<q, 1>>].num = xf[<<q, 1>>].num,
         moved[q] \subseteq moved'[q], moved'[q] \subseteq 1..DescsOf[q]
  PROVE  CallOk(q)' /\ (Abandoned(q) <=> Abandoned(q)')
<1>1. First(q)' = First(q)
  BY DEF First
<1>2. Account(q) => Account(q)'
  BY <1>1 DEF Account
<1>3. Result(q)'
  BY DEF CallOk, Result
<1>4. Faultless(q)'
  BY DEF CallOk, Faultless
<1> QED BY <1>2, <1>3, <1>4 DEF CallOk, Abandoned

LEMMA ReliableKept ==
  ASSUME load' = load
  PROVE  Reliable' <=> Reliable
BY KindKept DEF Reliable, RingSuffices, PollUndisturbed

(* A step of a caller that leaves the engine and what is queued alone      *)
LEMMA EngineFrame ==
  ASSUME Types, Linked, Owned, Reliable, \A q \in Reqs : CallOk(q), Sane, Running, Steady,
         load' = load, UNCHANGED <<hw, irq, moved>>,
         queue' = queue \/ (queue # <<>> /\ queue' # <<>> /\ Head(queue') = Head(queue)),
         eng'.running = eng.running, eng'.dequeued = eng.dequeued, eng'.offline = eng.offline,
         eng'.shutdown = eng.shutdown, eng'.status = eng.status,
         poll'.pc = poll.pc, poll'.wb = poll.wb,
         \A q \in Reqs : <<q, 1>> \in Queued =>
           /\ xf'[<<q, 1>>].num = xf[<<q, 1>>].num /\ xf'[<<q, 1>>].at = xf[<<q, 1>>].at
           /\ call'[q].left = call[q].left,
         \A t \in Xfers : ~xf'[t].cyclic
  PROVE  Sane' /\ Running' /\ Steady'
<1>1. Sane'
  BY DEF Sane
<1>2. \A r \in Reqs : Heads(r)' <=> Heads(r)
  BY DEF Heads
<1>3. ASSUME NEW r \in Reqs, Heads(r)
      PROVE  (Walks(r) => Walks(r)') /\ xf'[<<r, 1>>].num = xf[<<r, 1>>].num
  <2>1. <<r, 1>> \in Queued
    BY <1>3, QueuedXfers DEF Heads
  <2>2. /\ xf'[<<r, 1>>].num = xf[<<r, 1>>].num /\ xf'[<<r, 1>>].at = xf[<<r, 1>>].at
        /\ First(r)' = First(r)
    BY <2>1 DEF First
  <2>3. \A s : Desc(r, s)' = Desc(r, s)
    BY <2>2 DEF Desc
  <2> QED BY <2>2, <2>3 DEF Walks
<1>4. Running'
  BY <1>2, <1>3 DEF Running
<1>5. Over => Over'
  BY <1>2, <1>3 DEF Over
<1>6. Steady'
  BY <1>5 DEF Steady
<1> QED BY <1>1, <1>4, <1>6

(* What the device finds at the place it walks                             *)
LEMMA WalkedIs ==
  ASSUME Types, Linked, Owned, Reliable, \A q \in Reqs : CallOk(q), Running, eng.running,
         hw.busy
  PROVE  \E r \in Reqs :
           /\ Heads(r) /\ Walks(r) /\ hw.count < xf[<<r, 1>>].num
           /\ hw.pos = xf[<<r, 1>>].at + hw.count /\ hw.cur \in {NoDesc, Desc(r, hw.pos)}
           /\ ring[hw.pos] = Desc(r, hw.pos) /\ Desc(r, hw.pos) # NoDesc
           /\ Desc(r, hw.pos).xfer = <<r, 1>>
           /\ Desc(r, hw.pos).no = First(r) + hw.count + 1
           /\ First(r) + hw.count + 1 \in 1..DescsOf[r]
           /\ Desc(r, hw.pos).last <=> hw.count + 1 = xf[<<r, 1>>].num
           /\ hw.count + 1 < xf[<<r, 1>>].num => Desc(r, hw.pos).next = hw.pos + 1
<1>1. PICK r \in Reqs : Heads(r) /\ Walks(r)
  BY DEF Running
<1>2. PICK h \in Reqs :
           /\ Heads(h) /\ Intact(h)
           /\ xf[<<h, 1>>].num \in Nat /\ xf[<<h, 1>>].num > 0
           /\ xf[<<h, 1>>].at \in Nat /\ xf[<<h, 1>>].at + xf[<<h, 1>>].num <= DescMax
           /\ First(h) \in Nat /\ First(h) + xf[<<h, 1>>].num <= DescsOf[h]
  BY <1>1, HeadIs DEF Heads
<1>3. h = r
  BY <1>1, <1>2 DEF Heads
<1> DEFINE at    == xf[<<r, 1>>].at
           num   == xf[<<r, 1>>].num
           count == hw.count
           pos   == hw.pos
           first == First(r)
           no    == first + (pos - at) + 1
           last  == pos = at + num - 1
           next  == (pos + 1) % DescMax
<1>4. /\ count \in Nat /\ count < num /\ pos = at + count /\ hw.cur \in {NoDesc, Desc(r, pos)}
      /\ at \in Nat /\ num \in Nat /\ at + num <= DescMax /\ DescMax \in Nat
      /\ first \in Nat /\ first + num <= DescsOf[r] /\ DescsOf[r] \in Nat
  BY <1>1, <1>2, <1>3, Ring, Requests DEF Walks, Types, HwRecs
<1>5. Desc(r, pos) = [xfer |-> <<r, 1>>, no |-> no, last |-> last, next |-> next]
  BY DEF Desc
<1>6. pos \in Place(r)
  <2>1. Place(r) = at..(at + num - 1)
    BY PlaceIs
  <2> HIDE DEF at, num, count, pos
  <2> QED BY <1>4, <2>1
<1>7. ring[pos] = Desc(r, pos)
  BY <1>2, <1>3, <1>6 DEF Intact
<1> HIDE DEF at, num, count, pos, first
<1>8. /\ no = first + count + 1 /\ no \in 1..DescsOf[r] /\ (last <=> count + 1 = num)
      /\ count + 1 < num => next = pos + 1
  BY <1>4
<1> HIDE DEF no, last, next
<1>9. /\ Desc(r, pos).xfer = <<r, 1>> /\ Desc(r, pos).no = no /\ Desc(r, pos).last = last
      /\ Desc(r, pos).next = next /\ Desc(r, pos) # NoDesc
  <2>1. /\ Desc(r, pos).xfer = <<r, 1>> /\ Desc(r, pos).no = no /\ Desc(r, pos).last = last
        /\ Desc(r, pos).next = next
    BY <1>5
  <2>2. NoDesc.xfer = <<>> /\ <<r, 1>> # <<>>
    BY DEF NoDesc
  <2> QED BY <2>1, <2>2
<1>10. /\ Desc(r, pos).no = first + count + 1 /\ first + count + 1 \in 1..DescsOf[r]
       /\ Desc(r, pos).last <=> count + 1 = num
       /\ count + 1 < num => Desc(r, pos).next = pos + 1
  BY <1>8, <1>9
<1> QED BY <1>1, <1>4, <1>7, <1>9, <1>10 DEF at, num, count, pos, first

(* A step of the device                                                    *)
LEMMA DeviceFrame ==
  ASSUME Types, Driven, Reliable, UNCHANGED <<load, eng, queue, xf, call, poll>>,
         \A r \in Reqs : moved[r] \subseteq moved'[r] /\ moved'[r] \subseteq 1..DescsOf[r],
         hw'.run = hw.run, hw'.late \subseteq hw.late,
         hw'.cur # NoDesc => hw'.busy /\ eng.running /\ hw'.cur.no \in 1..DescsOf[hw'.cur.xfer[1]],
         ~load.errors => "err" \notin hw'.bits,
         Running', Steady'
  PROVE  Driven'
<1>1. Sane /\ Unsteady /\ \A r \in Reqs : CallOk(r)
  BY DEF Driven
<1>2. ASSUME NEW r \in Reqs PROVE CallOk(r)' /\ (Abandoned(r) <=> Abandoned(r)')
  BY <1>1, CallOkFrame
<1>3. Sane'
  BY <1>1 DEF Sane
<1>4. Unsteady'
  <2> SUFFICES ASSUME load.giveup
               PROVE  /\ poll'.pc = "idle" /\ \A t \in hw'.late : Abandoned(t[1])'
                      /\ ~(hw'.cur # NoDesc /\ ~eng'.running)
    BY DEF Unsteady
  <2>1. \A t \in hw'.late : t[1] \in Reqs /\ Abandoned(t[1])
    <3>1. hw.late \subseteq Xfers
      BY DEF Types, HwRecs
    <3> QED BY <1>1, <3>1, PairOf DEF Unsteady
  <2>2. \A t \in hw'.late : Abandoned(t[1])'
    BY <1>2, <2>1
  <2> QED BY <1>1, <2>2 DEF Unsteady
<1> QED BY <1>2, <1>3, <1>4 DEF Driven

LEMMA FetchDriven ==
  ASSUME Types, Linked, Owned, Driven, Reliable, HwFetch, UNCHANGED fileVars
  PROVE  Driven'
<1>1. Sane /\ Running /\ Steady /\ Unsteady /\ \A r \in Reqs : CallOk(r)
  BY DEF Driven
<1>2. /\ hw.busy /\ hw.run /\ hw.cur = NoDesc /\ ring[hw.pos] # NoDesc
      /\ hw' = [hw EXCEPT !.cur = ring[hw.pos]]
      /\ UNCHANGED <<load, eng, queue, xf, call, poll, irq, moved>>
  BY DEF HwFetch, fileVars
<1>3. /\ hw'.cur = ring[hw.pos] /\ hw'.run = hw.run /\ hw'.busy = hw.busy /\ hw'.pos = hw.pos
      /\ hw'.count = hw.count /\ hw'.bits = hw.bits /\ hw'.wb = hw.wb /\ hw'.late = hw.late
  BY <1>2 DEF Types, HwRecs
<1>4. eng.running
  BY <1>1, <1>2 DEF Sane
<1>5. PICK r \in Reqs :
        /\ Heads(r) /\ Walks(r) /\ ring[hw.pos] = Desc(r, hw.pos)
        /\ Desc(r, hw.pos).xfer = <<r, 1>>
        /\ Desc(r, hw.pos).no \in 1..DescsOf[r]
  BY <1>1, <1>2, <1>4, WalkedIs
<1>6. Running'
  <2>1. First(r)' = First(r) /\ Heads(r)' /\ Desc(r, hw.pos)' = Desc(r, hw.pos)'
    BY <1>2, <1>5 DEF First, Heads
  <2>2. Desc(r, hw.pos)' = Desc(r, hw.pos)
    BY <1>2, <1>3, <2>1 DEF Desc
  <2>3. Walks(r)'
    BY <1>2, <1>3, <1>5, <2>1, <2>2 DEF Walks
  <2> QED BY <1>1, <1>2, <2>1, <2>3 DEF Running
<1>7. Steady'
  <2>1. \A q \in Reqs : Heads(q)' <=> Heads(q)
    BY <1>2 DEF Heads
  <2>2. Over => Over'
    BY <1>2, <1>3, <2>1 DEF Over
  <2> QED BY <1>1, <1>2, <1>3, <2>2 DEF Steady
<1>8. \A q \in Reqs : moved[q] \subseteq moved'[q] /\ moved'[q] \subseteq 1..DescsOf[q]
  BY <1>1, <1>2 DEF Sane
<1>9. ~load.errors => "err" \notin hw'.bits
  BY <1>1, <1>3 DEF Sane
<1>10. hw'.cur # NoDesc => hw'.busy /\ eng.running /\ hw'.cur.no \in 1..DescsOf[hw'.cur.xfer[1]]
  BY <1>2, <1>3, <1>4, <1>5
<1> QED BY <1>2, <1>3, <1>6, <1>7, <1>8, <1>9, <1>10, DeviceFrame

LEMMA StopDriven ==
  ASSUME Types, Linked, Owned, Driven, Reliable, HwError \/ HwRest \/ HwLate, UNCHANGED fileVars
  PROVE  Driven'
<1>1. Sane /\ Running /\ Steady /\ Unsteady /\ \A r \in Reqs : CallOk(r)
  BY DEF Driven
<1>2. /\ UNCHANGED <<load, eng, queue, xf, call, poll, irq, moved>> /\ hw \in HwRecs
      /\ hw.late \subseteq Xfers /\ load.giveup \in BOOLEAN
  BY LoadTypes DEF HwError, HwRest, HwLate, fileVars, Types, HwRecs
<1>3. \A q \in Reqs : moved[q] \subseteq moved'[q] /\ moved'[q] \subseteq 1..DescsOf[q]
  BY <1>1, <1>2 DEF Sane
<1>4. \A q \in Reqs : Heads(q)' <=> Heads(q)
  BY <1>2 DEF Heads
<1>5. ASSUME NEW r \in Reqs, Heads(r), Walks(r), hw'.count = hw.count,
             hw'.busy => hw.busy /\ hw'.pos = hw.pos /\ hw'.cur = hw.cur
      PROVE  Walks(r)'
  <2>1. First(r)' = First(r)
    BY <1>2 DEF First
  <2>2. \A s : Desc(r, s)' = Desc(r, s)
    BY <1>2, <2>1 DEF Desc
  <2> QED BY <1>2, <1>5, <2>1, <2>2 DEF Walks
<1>6. CASE HwError
  <2>1. hw.busy /\ load.errors
    <3> SUFFICES ASSUME ~load.errors PROVE FALSE
      BY <1>6, LoadTypes DEF HwError
    <3>1. hw.busy /\ hw.run /\ ring[hw.pos] = NoDesc
      BY <1>6 DEF HwError
    <3>2. eng.running
      BY <1>1, <3>1 DEF Sane
    <3> QED BY <1>1, <3>1, <3>2, WalkedIs
  <2>2. ~load.poll
    BY <2>1 DEF Reliable, PollUndisturbed
  <2>3. hw' = [hw EXCEPT !.busy = FALSE, !.cur = NoDesc, !.bits = @ \cup {"err"}, !.wb = hw.wb]
    BY <1>2, <1>6, <2>2 DEF HwError, HwRecs
  <2>4. /\ ~hw'.busy /\ hw'.cur = NoDesc /\ hw'.bits = hw.bits \cup {"err"} /\ hw'.run = hw.run
        /\ hw'.count = hw.count /\ hw'.late = hw.late
    BY <1>2, <2>3 DEF HwRecs
  <2>5. Running'
    BY <1>1, <1>2, <1>4, <1>5, <2>4 DEF Running
  <2>6. Steady'
    BY <1>1, <1>2, <2>1, <2>2, <2>4 DEF Steady
  <2> QED BY <1>2, <1>3, <2>1, <2>4, <2>5, <2>6, DeviceFrame
<1>7. CASE HwRest
  <2>1. hw.busy /\ ~hw.run /\ hw.cur = NoDesc /\ hw' = [hw EXCEPT !.busy = FALSE]
    BY <1>7 DEF HwRest
  <2>2. /\ ~hw'.busy /\ hw'.cur = NoDesc /\ hw'.bits = hw.bits /\ hw'.run = hw.run
        /\ hw'.count = hw.count /\ hw'.late = hw.late
    BY <1>2, <2>1 DEF HwRecs
  <2>3. ~eng.running
    BY <1>1, <2>1 DEF Sane
  <2>4. Running'
    BY <1>2, <2>3 DEF Running
  <2>5. Steady'
    BY <1>1, <1>2, <2>1, <2>3 DEF Steady
  <2>6. ~load.errors => "err" \notin hw'.bits
    BY <1>1, <2>2 DEF Sane
  <2> QED BY <1>2, <1>3, <2>2, <2>4, <2>5, <2>6, DeviceFrame
<1>8. CASE HwLate
  <2>1. PICK t \in hw.late : hw' = [hw EXCEPT !.late = @ \ {t}]
    BY <1>8 DEF HwLate
  <2>2. /\ hw'.busy = hw.busy /\ hw'.cur = hw.cur /\ hw'.bits = hw.bits /\ hw'.run = hw.run
        /\ hw'.count = hw.count /\ hw'.late \subseteq hw.late /\ hw'.pos = hw.pos
    BY <1>2, <2>1 DEF HwRecs
  <2>3. load.giveup
    BY <1>1, <1>2, <2>1 DEF Steady
  <2>4. Steady'
    BY <1>2, <2>3 DEF Steady
  <2>5. Running'
    BY <1>1, <1>2, <1>4, <1>5, <2>2 DEF Running
  <2>6. Sane'
    BY <1>1, <1>2, <2>2 DEF Sane
  <2>7. ASSUME NEW r \in Reqs PROVE CallOk(r)' /\ (Abandoned(r) <=> Abandoned(r)')
    BY <1>1, <1>2, <1>3, CallOkFrame
  <2>8. Unsteady'
    <3>1. \A u \in hw'.late : u[1] \in Reqs /\ Abandoned(u[1])
      BY <1>1, <1>2, <2>2, <2>3, PairOf DEF Unsteady
    <3>2. hw.cur # NoDesc => hw.cur.xfer[1] \in Reqs
      BY <1>2, Records, PairOf DEF HwRecs
    <3>3. \A u \in hw'.late : Abandoned(u[1])'
      BY <2>7, <3>1
    <3>4. hw'.cur # NoDesc /\ ~eng'.running => Abandoned(hw.cur.xfer[1])
      BY <1>1, <1>2, <2>2, <2>3 DEF Unsteady
    <3>5. hw'.cur # NoDesc /\ ~eng'.running =>
            call'[hw'.cur.xfer[1]].failed
            \/ (xf'[<<hw'.cur.xfer[1], 1>>].state = "FAILED" /\ call'[hw'.cur.xfer[1]].pc \in {"queued", "wait", "check"})
      BY <1>2, <2>2, <3>4 DEF Abandoned
    <3> QED BY <1>1, <1>2, <2>3, <3>3, <3>5 DEF Unsteady, Abandoned
  <2> QED BY <2>5, <2>4, <2>6, <2>7, <2>8 DEF Driven
<1> QED BY <1>6, <1>7, <1>8

LEMMA DrivenStart == Types /\ Init => Driven
<1> SUFFICES ASSUME Types, Init PROVE Driven
  OBVIOUS
<1> USE DEF Init, FileInit, EngineInit
<1>1. Sane
  BY DEF Sane, NewXfer, NoBits, NoDesc
<1>2. Running /\ Unsteady
  BY DEF Running, Unsteady
<1>3. Steady
  BY DEF Steady
<1>4. ASSUME NEW r \in Reqs PROVE CallOk(r)
  <2>1. /\ call[r].pc = "idle" /\ call[r].left = DescsOf[r] /\ call[r].done = 0 /\ ~call[r].failed
        /\ call[r].res = "none" /\ xf[<<r, 1>>].state = "NEW"
    BY Pairs DEF NewXfer
  <2>2. DescsOf[r] \in Nat
    BY Requests
  <2>3. DescsOf[r] - DescsOf[r] = 0 /\ 1..0 = {}
    BY <2>2
  <2>4. Account(r)
    BY <2>1, <2>3 DEF Account
  <2> QED BY <2>1, <2>4 DEF CallOk, Result, Faultless
<1> QED BY <1>1, <1>2, <1>3, <1>4 DEF Driven

LEMMA StepDriven ==
  ASSUME Types, Linked, Owned, Driven, Reliable, HwStep, UNCHANGED fileVars
  PROVE  Driven'
<1>1. Sane /\ Running /\ Steady /\ Unsteady /\ \A r \in Reqs : CallOk(r)
  BY DEF Driven
<1> DEFINE d == hw.cur
           b == hw.run /\ ~d.last
           g == IF d.last THEN hw.bits \cup {"stopped"} ELSE hw.bits
           n == hw.count + 1
           w == IF d.last /\ load.poll THEN [count |-> n, err |-> FALSE] ELSE hw.wb
<1>2. /\ hw \in HwRecs /\ hw.count \in Nat /\ load.giveup \in BOOLEAN /\ load.poll \in BOOLEAN
      /\ hw.run \in BOOLEAN
  BY LoadTypes DEF Types, HwRecs
<1>3. hw.busy /\ d # NoDesc
  BY DEF HwStep
<1>4. d.xfer \in Xfers /\ d.no \in 1..DescsOf[d.xfer[1]] /\ d.last \in BOOLEAN /\ d.next \in Slots
  BY <1>1, <1>2, <1>3, Records DEF Sane, HwRecs
<1>5. ~xf[d.xfer].cyclic /\ d.xfer[1] \in Reqs
  BY <1>1, <1>4, PairOf DEF Sane
<1>6. /\ hw' = [hw EXCEPT !.pos = d.next, !.cur = NoDesc, !.count = n, !.busy = b,
                          !.bits = g, !.wb = w]
      /\ moved' = [moved EXCEPT ![d.xfer[1]] = @ \cup {d.no}]
      /\ UNCHANGED <<load, eng, queue, xf, call, poll, irq>>
  BY <1>5 DEF HwStep, fileVars
<1> HIDE DEF b, g, n, w
<1>7. /\ hw'.pos = d.next /\ hw'.cur = NoDesc /\ hw'.count = n /\ hw'.busy = b
      /\ hw'.bits = g /\ hw'.wb = w /\ hw'.run = hw.run /\ hw'.late = hw.late
  <2> HIDE DEF d
  <2> QED BY <1>2, <1>6 DEF HwRecs
<1>8. \A q \in Reqs : moved[q] \subseteq moved'[q] /\ moved'[q] \subseteq 1..DescsOf[q]
  <2>1. \A q \in Reqs : moved[q] \subseteq 1..DescsOf[q]
    BY <1>1 DEF Sane
  <2>2. moved \in [Reqs -> SUBSET Nat]
    BY DEF Types
  <2> HIDE DEF d
  <2> QED BY <1>4, <1>5, <1>6, <2>1, <2>2
<1>9. ~load.errors => "err" \notin hw'.bits
  BY <1>1, <1>7 DEF Sane, g
<1>10. CASE eng.running
  <2>1. PICK r \in Reqs :
           /\ Heads(r) /\ Walks(r) /\ hw.count < xf[<<r, 1>>].num
           /\ hw.pos = xf[<<r, 1>>].at + hw.count
           /\ d.xfer = <<r, 1>> /\ d.no = First(r) + hw.count + 1
           /\ d.last <=> hw.count + 1 = xf[<<r, 1>>].num
           /\ hw.count + 1 < xf[<<r, 1>>].num => d.next = hw.pos + 1
    BY <1>1, <1>3, <1>10, WalkedIs
  <2> DEFINE num   == xf[<<r, 1>>].num
             at    == xf[<<r, 1>>].at
             first == First(r)
             count == hw.count
  <2>2. num \in Nat /\ at \in Nat /\ first \in Int /\ count \in Nat /\ n = count + 1
        /\ count < num /\ hw.pos = at + count
    <3>1. DescsOf[r] \in Nat /\ call[r].left \in Nat
      BY Requests DEF Types, CallRecs
    <3> QED BY <1>2, <2>1, <3>1, PlaceIs DEF First, n
  <2>3. b <=> ~d.last
    BY <1>1, <1>10 DEF Sane, b
  <2>4. moved'[r] = moved[r] \cup {first + n}
    <3>1. moved'[r] = moved[r] \cup {d.no}
      BY <1>6, <2>1 DEF Types
    <3>2. d.no = first + count + 1
      BY <2>1
    <3> HIDE DEF num, at, first, count, d
    <3>3. d.no = first + n
      BY <2>2, <3>2
    <3> QED BY <3>1, <3>3
  <2>5. Span(first, n) \subseteq moved'[r]
    <3>1. Span(first, count) \subseteq moved[r]
      BY <2>1 DEF Walks
    <3> HIDE DEF num, at, first, count
    <3> QED BY <2>2, <2>4, <3>1 DEF Span
  <2>6. /\ n <= num /\ (~d.last => n < num /\ d.next = at + n)
        /\ d.last => n = num
    <3>1. /\ d.last <=> count + 1 = num
          /\ count + 1 < num => d.next = hw.pos + 1
      BY <2>1
    <3> HIDE DEF num, at, first, count, d
    <3> QED BY <2>2, <3>1
  <2>7. First(r)' = first /\ Heads(r)'
    BY <1>6, <2>1 DEF First, Heads
  <2>8. Walks(r)'
    BY <1>6, <1>7, <2>3, <2>5, <2>6, <2>7 DEF Walks
  <2>9. Running'
    BY <1>1, <1>6, <2>7, <2>8 DEF Running
  <2>10. d.last => Over'
    BY <1>6, <1>7, <1>10, <2>3, <2>6, <2>7 DEF Over
  <2>11. Steady'
    <3> SUFFICES ASSUME ~load.giveup PROVE Steady'
      BY <1>2, <1>6 DEF Steady
    <3>1. /\ hw.late = {} /\ (~load.poll => ~irq.work /\ hw.bits = {} /\ poll.pc = "idle")
          /\ load.poll => ~irq.work /\ hw.wb = NoWb /\ poll.pc # "service"
      BY <1>1, <1>2, <1>3 DEF Steady, Over
    <3>2. ~load.poll /\ g # {} => d.last
      BY <3>1 DEF g
    <3>3. load.poll /\ w # NoWb => d.last /\ w = [count |-> n, err |-> FALSE]
      BY <3>1 DEF w
    <3> QED BY <1>6, <1>7, <1>10, <2>3, <2>10, <3>1, <3>2, <3>3 DEF Steady
  <2> QED BY <1>6, <1>7, <1>8, <1>9, <2>9, <2>11, DeviceFrame
<1>11. CASE ~eng.running
  <2>1. load.giveup
    BY <1>1, <1>2, <1>3, <1>11 DEF Steady
  <2>2. Running' /\ Steady'
    BY <1>6, <1>11, <2>1 DEF Running, Steady
  <2> QED BY <1>6, <1>7, <1>8, <1>9, <2>2, DeviceFrame
<1> QED BY <1>10, <1>11

(* The interrupt and the polling thread                                    *)
LEMMA NoticeDriven ==
  ASSUME Types, Linked, Owned, Driven, Reliable,
         ChannelIrq \/ PollCheck \/ PollPick \/ PollRead \/ PollTimeout, UNCHANGED fileVars
  PROVE  Driven'
<1>1. Sane /\ Running /\ Steady /\ Unsteady /\ \A r \in Reqs : CallOk(r)
  BY DEF Driven
<1>2. UNCHANGED <<load, eng, queue, xf, call, moved>> /\ hw \in HwRecs /\ poll \in PollRecs
      /\ load.giveup \in BOOLEAN /\ load.poll \in BOOLEAN /\ load.errors \in BOOLEAN
  BY LoadTypes DEF ChannelIrq, PollCheck, PollPick, PollRead, PollTimeout, fileVars, Types
<1>3. /\ hw'.busy = hw.busy /\ hw'.cur = hw.cur /\ hw'.bits = hw.bits /\ hw'.run = hw.run
      /\ hw'.count = hw.count /\ hw'.late = hw.late /\ hw'.pos = hw.pos
  BY <1>2 DEF ChannelIrq, PollCheck, PollPick, PollRead, PollTimeout, HwRecs
<1>4. load.giveup \/ load.errors => ~load.poll
  BY DEF Reliable, PollUndisturbed
<1>5. \A q \in Reqs : (Heads(q)' <=> Heads(q)) /\ (Walks(q)' <=> Walks(q))
  <2> TAKE q \in Reqs
  <2>1. First(q)' = First(q)
    BY <1>2 DEF First
  <2>2. \A s : Desc(q, s)' = Desc(q, s)
    BY <1>2, <2>1 DEF Desc
  <2> QED BY <1>2, <1>3, <2>1, <2>2 DEF Walks, Heads
<1>6. Over' <=> Over
  BY <1>2, <1>3, <1>5 DEF Over
<1>7. Sane' /\ Running'
  BY <1>1, <1>2, <1>3, <1>5 DEF Sane, Running
<1>8. \A r \in Reqs : CallOk(r)' /\ (Abandoned(r) <=> Abandoned(r)')
  BY <1>1, <1>2, CallOkFrame DEF Sane
<1>9. Unsteady'
  <2> SUFFICES ASSUME load.giveup PROVE Unsteady'
    BY <1>2 DEF Unsteady
  <2>1. poll.pc = "idle" /\ ~load.poll
    BY <1>1, <1>4 DEF Unsteady
  <2>2. poll' = poll
    BY <2>1 DEF ChannelIrq, PollCheck, PollPick, PollRead, PollTimeout
  <2>3. \A r : Abandoned(r)' <=> Abandoned(r)
    BY <1>2 DEF Abandoned
  <2> QED BY <1>1, <1>2, <1>3, <2>2 DEF Unsteady, Abandoned
<1>10. Steady'
  <2> SUFFICES ASSUME ~load.giveup PROVE Steady'
    BY <1>2 DEF Steady
  <2>1. CASE ChannelIrq
    <3>1. irq'.work /\ Requested # {} /\ UNCHANGED <<hw, poll>>
      BY <2>1 DEF ChannelIrq
    <3>2. ~load.poll /\ hw.bits # {}
      BY <1>1, <1>2, <1>4, <3>1 DEF Requested, Sane
    <3> QED BY <1>1, <1>2, <1>6, <3>1, <3>2 DEF Steady
  <2>2. CASE PollCheck \/ PollPick \/ PollTimeout
    <3>1. load.poll /\ poll'.pc # "service" /\ UNCHANGED <<hw, irq>>
      BY <1>1, <1>2, <2>2 DEF PollCheck, PollPick, PollTimeout, Steady, PollRecs
    <3> QED BY <1>1, <1>2, <1>6, <3>1 DEF Steady
  <2>3. CASE PollRead
    <3>1. poll.pc = "monitor" /\ hw.wb # NoWb /\ hw'.wb = NoWb /\ poll'.wb = hw.wb /\ irq' = irq
      BY <1>2, <2>3 DEF PollRead, EnoughForHead, HwRecs, PollRecs
    <3>2. load.poll
      BY <1>1, <1>2, <3>1 DEF Steady
    <3> QED BY <1>1, <1>2, <1>3, <1>6, <3>1, <3>2 DEF Steady
  <2> QED BY <2>1, <2>2, <2>3
<1> QED BY <1>7, <1>8, <1>9, <1>10 DEF Driven

LEMMA CallerFrame ==
  ASSUME Types, Linked, Owned, Driven, Reliable,
         load' = load, UNCHANGED <<hw, irq, moved>>,
         queue' = queue \/ (queue # <<>> /\ queue' # <<>> /\ Head(queue') = Head(queue)),
         eng'.running = eng.running, eng'.dequeued = eng.dequeued, eng'.offline = eng.offline,
         eng'.shutdown = eng.shutdown, eng'.status = eng.status,
         poll'.pc = poll.pc, poll'.wb = poll.wb,
         \A q \in Reqs : <<q, 1>> \in Queued =>
           /\ xf'[<<q, 1>>].num = xf[<<q, 1>>].num /\ xf'[<<q, 1>>].at = xf[<<q, 1>>].at
           /\ call'[q].left = call[q].left,
         \A t \in Xfers : ~xf'[t].cyclic,
         \A q \in Reqs : CallOk(q)' /\ (Abandoned(q) => Abandoned(q)')
  PROVE  Driven'
<1>1. Sane /\ Running /\ Steady /\ Unsteady /\ \A r \in Reqs : CallOk(r)
  BY DEF Driven
<1>2. Sane' /\ Running' /\ Steady'
  BY <1>1, EngineFrame
<1>3. Unsteady'
  <2> SUFFICES ASSUME load.giveup PROVE Unsteady'
    BY DEF Unsteady
  <2>1. hw.late \subseteq Xfers /\ hw.cur \in DescRecs
    BY DEF Types, HwRecs
  <2>2. \A u \in hw.late : Abandoned(u[1])'
    <3> TAKE u \in hw.late
    <3>1. PICK q \in Reqs : q = u[1]
      BY <2>1, PairOf
    <3>2. Abandoned(q)'
      BY <1>1, <3>1 DEF Unsteady
    <3> QED BY <3>1, <3>2
  <2>3. ASSUME hw.cur # NoDesc, ~eng.running PROVE Abandoned(hw.cur.xfer[1])'
    <3>1. PICK q \in Reqs : q = hw.cur.xfer[1]
      BY <2>1, <2>3, Records, PairOf
    <3>2. Abandoned(q)'
      BY <1>1, <2>3, <3>1 DEF Unsteady
    <3>3. hw'.cur.xfer[1] = q
      BY <3>1
    <3> QED BY <3>2, <3>3 DEF Abandoned
  <2> QED BY <1>1, <2>2, <2>3 DEF Unsteady
<1> QED BY <1>2, <1>3 DEF Driven

(* The step concerns r only.                                               *)
LEMMA CallerStep ==
  ASSUME Types, Linked, Owned, Driven, Reliable, NEW r \in Reqs,
         load' = load, UNCHANGED <<hw, irq, moved>>,
         queue' = queue \/ (queue # <<>> /\ queue' # <<>> /\ Head(queue') = Head(queue)),
         eng'.running = eng.running, eng'.dequeued = eng.dequeued, eng'.offline = eng.offline,
         eng'.shutdown = eng.shutdown, eng'.status = eng.status,
         poll'.pc = poll.pc, poll'.wb = poll.wb,
         \A q \in Reqs \ {r} : call'[q] = call[q],
         \A q \in Reqs \ {r} : xf'[<<q, 1>>] = xf[<<q, 1>>],
         <<r, 1>> \in Queued =>
           /\ xf'[<<r, 1>>].num = xf[<<r, 1>>].num /\ xf'[<<r, 1>>].at = xf[<<r, 1>>].at
           /\ call'[r].left = call[r].left,
         \A t \in Xfers : ~xf'[t].cyclic,
         CallOk(r)', Abandoned(r) => Abandoned(r)'
  PROVE  Driven'
<1>1. \A q \in Reqs : CallOk(q) /\ moved[q] \subseteq 1..DescsOf[q]
  BY DEF Driven, Sane
<1>2. \A q \in Reqs : CallOk(q)' /\ (Abandoned(q) => Abandoned(q)')
  <2> SUFFICES ASSUME NEW q \in Reqs, q # r PROVE CallOk(q)' /\ (Abandoned(q) => Abandoned(q)')
    OBVIOUS
  <2>1. /\ xf'[<<q, 1>>].state = xf[<<q, 1>>].state /\ xf'[<<q, 1>>].num = xf[<<q, 1>>].num
        /\ call'[q] = call[q] /\ CallOk(q)
        /\ moved[q] \subseteq moved'[q] /\ moved'[q] \subseteq 1..DescsOf[q]
    BY <1>1
  <2> QED BY <2>1, CallOkFrame
<1>3. \A q \in Reqs : <<q, 1>> \in Queued =>
         /\ xf'[<<q, 1>>].num = xf[<<q, 1>>].num /\ xf'[<<q, 1>>].at = xf[<<q, 1>>].at
         /\ call'[q].left = call[q].left
  OBVIOUS
<1> QED BY <1>2, <1>3, CallerFrame

(* A call before or between its transfers, or at its end                   *)
LEMMA CallDriven ==
  ASSUME Types, Linked, Owned, Driven, Reliable, NEW r \in Reqs,
         Enter(r) \/ EnterFails(r) \/ LockDesc(r) \/ WakeThread(r) \/ Wake(r) \/ GiveUp(r)
           \/ Return(r)
  PROVE  Driven'
<1>1. Sane /\ CallOk(r)
  BY DEF Driven
<1>2. call \in [Reqs -> CallRecs] /\ xf \in [Xfers -> XferRecs] /\ Link(r) /\ <<r, 1>> \in Xfers
  BY Pairs DEF Types, Linked
<1>3. r \in load.sync
  BY <1>2, WaitersAreSync DEF Enter, EnterFails, LockDesc, WakeThread, Wake, GiveUp, Return, Move
<1>4. Account(r) /\ Result(r) /\ Faultless(r)
  BY <1>1, <1>3 DEF CallOk
<1>5. /\ load' = load /\ UNCHANGED <<eng, queue, hw, irq, moved>>
      /\ poll'.pc = poll.pc /\ poll'.wb = poll.wb
      /\ call'[r].left = call[r].left /\ call'[r].done = call[r].done
      /\ \A q \in Reqs \ {r} : call'[q] = call[q]
  <2>1. poll \in PollRecs
    BY DEF Types
  <2>2. CASE WakeThread(r)
    BY <1>2, <2>1, <2>2 DEF WakeThread, Wakeup, Move, CallRecs, PollRecs
  <2>3. CASE ~WakeThread(r)
    BY <1>2, <2>3 DEF Enter, EnterFails, LockDesc, Wake, GiveUp, Return, Move, engineVars, CallRecs
  <2> QED BY <2>2, <2>3
<1>6. /\ \A q \in Reqs : /\ xf'[<<q, 1>>].num = xf[<<q, 1>>].num
                         /\ xf'[<<q, 1>>].at = xf[<<q, 1>>].at
                         /\ xf'[<<q, 1>>].state = xf[<<q, 1>>].state
      /\ \A q \in Reqs \ {r} : xf'[<<q, 1>>] = xf[<<q, 1>>]
      /\ \A t \in Xfers : ~xf'[t].cyclic
  <2>1. xf' = xf \/ xf' = [xf EXCEPT ![<<r, 1>>].live = FALSE]
    BY DEF Enter, EnterFails, LockDesc, WakeThread, Wake, GiveUp, Return, Move, engineVars
  <2>2. \A t \in Xfers : /\ xf'[t].num = xf[t].num /\ xf'[t].at = xf[t].at
                         /\ xf'[t].state = xf[t].state /\ xf'[t].cyclic = xf[t].cyclic
    <3> TAKE t \in Xfers
    <3>1. CASE xf' = xf
      BY <3>1
    <3>2. CASE xf' = [xf EXCEPT ![<<r, 1>>].live = FALSE]
      <4>1. xf \in [Xfers -> XferRecs] /\ xf[t] \in XferRecs
        BY <1>2
      <4>2. CASE t = <<r, 1>>
        BY <3>2, <4>1, <4>2 DEF XferRecs
      <4>3. CASE t # <<r, 1>>
        BY <3>2, <4>1, <4>3
      <4> QED BY <4>2, <4>3
    <3> QED BY <2>1, <3>1, <3>2
  <2>3. \A q \in Reqs \ {r} : xf'[<<q, 1>>] = xf[<<q, 1>>]
    <3> TAKE q \in Reqs \ {r}
    <3>1. <<q, 1>> # <<r, 1>>
      OBVIOUS
    <3> QED BY <1>2, <2>1, <3>1, Pairs
  <2> QED BY <1>1, <2>2, <2>3, Pairs DEF Sane
<1>7. First(r)' = First(r)
  BY <1>5, <1>6 DEF First
<1>8. ASSUME CallOk(r)', Abandoned(r) => Abandoned(r)' PROVE Driven'
  BY <1>5, <1>6, <1>8, CallerStep
<1>9. CASE Enter(r)
  <2>1. /\ call[r].pc = "idle" /\ call'[r].pc = "mapped" /\ call'[r].pinned
        /\ call'[r].failed = call[r].failed /\ call'[r].res = call[r].res
    BY <1>2, <1>9 DEF Enter, CallRecs
  <2>2. ~Abandoned(r)
    BY <1>4, <2>1 DEF Abandoned, Account, Result
  <2>3. Account(r)' /\ Result(r)' /\ Faultless(r)'
    BY <1>4, <1>5, <1>6, <1>7, <2>1 DEF Account, Result, Faultless
  <2> QED BY <1>8, <2>2, <2>3 DEF CallOk
<1>10. CASE EnterFails(r)
  <2>1. /\ r \in load.bad /\ call[r].pc = "idle" /\ call'[r].pc = "returned"
        /\ call'[r].failed /\ call'[r].res = "error"
    <3>1. ~eng.offline
      BY <1>1 DEF Sane
    <3>2. PICK leak \in BOOLEAN :
           call' = [call EXCEPT ![r].pc = "returned", ![r].res = "error",
                                ![r].failed = TRUE,
                                ![r].pinned = leak /\ r \in load.bad]
      BY <1>10 DEF EnterFails
    <3> DEFINE b == leak /\ r \in load.bad
    <3> HIDE DEF b
    <3>3. call' = [call EXCEPT ![r].pc = "returned", ![r].res = "error",
                               ![r].failed = TRUE, ![r].pinned = b]
      BY <3>2 DEF b
    <3>4. call'[r].pc = "returned" /\ call'[r].failed /\ call'[r].res = "error"
      BY <1>2, <3>3 DEF CallRecs
    <3> QED BY <1>10, <3>1, <3>4 DEF EnterFails
  <2>2. Abandoned(r)'
    BY <2>1 DEF Abandoned
  <2>3. Account(r)' /\ Result(r)' /\ Faultless(r)'
    BY <1>4, <1>5, <1>6, <1>7, <2>1 DEF Account, Result, Faultless
  <2> QED BY <1>8, <2>2, <2>3 DEF CallOk
<1>11. CASE LockDesc(r) \/ WakeThread(r) \/ Wake(r) \/ GiveUp(r)
  <2>1. /\ \/ call[r].pc = "mapped" /\ call'[r].pc = "build"
           \/ call[r].pc = "queued" /\ call'[r].pc = "wait"
           \/ call[r].pc = "wait" /\ call'[r].pc = "check"
        /\ call'[r].pinned = call[r].pinned
        /\ call'[r].failed = call[r].failed /\ call'[r].res = call[r].res
    BY <1>2, <1>11 DEF LockDesc, WakeThread, Wake, GiveUp, Move, CallRecs
  <2>2. Abandoned(r) => Abandoned(r)'
    BY <1>6, <2>1 DEF Abandoned
  <2>3. Account(r)' /\ Result(r)' /\ Faultless(r)'
    BY <1>4, <1>5, <1>6, <1>7, <2>1 DEF Account, Result, Faultless
  <2> QED BY <1>8, <2>2, <2>3 DEF CallOk
<1>12. CASE Return(r)
  <2> DEFINE done == call[r].done
             res  == IF done = DescsOf[r] THEN "all" ELSE IF done > 0 THEN "some" ELSE "error"
  <2>1. /\ call[r].pc = "unmap"
        /\ call' = [call EXCEPT ![r].pc = "returned", ![r].pinned = FALSE, ![r].res = res]
    BY <1>12 DEF Return
  <2>2. res # "none" /\ (res = "all" <=> done = DescsOf[r])
    OBVIOUS
  <2> HIDE DEF res
  <2>3. /\ call'[r].pc = "returned" /\ call'[r].res = res /\ call'[r].failed = call[r].failed
    BY <1>2, <2>1 DEF CallRecs
  <2>4. Abandoned(r) => Abandoned(r)'
    BY <2>1, <2>3 DEF Abandoned
  <2>5. done \in Nat /\ DescsOf[r] \in Nat
    BY <1>2, Requests DEF CallRecs
  <2>6. IF call[r].failed THEN done < DescsOf[r] ELSE done = DescsOf[r]
    BY <1>4, <2>1 DEF Account
  <2>7. 1..done \subseteq moved[r] /\ moved[r] \subseteq 1..DescsOf[r]
    BY <1>1, <1>4 DEF Account, Sane
  <2>8. res = "all" => moved[r] = 1..DescsOf[r] /\ ~call[r].failed
    <3>1. res = "all" => done = DescsOf[r]
      BY <2>2
    <3>2. done = DescsOf[r] => moved[r] = 1..DescsOf[r]
      BY <2>7
    <3>3. ASSUME call[r].failed, done = DescsOf[r] PROVE FALSE
      <4>1. done < DescsOf[r]
        BY <2>6, <3>3
      <4> HIDE DEF done
      <4> QED BY <2>5, <3>3, <4>1
    <3> QED BY <3>1, <3>2, <3>3
  <2>9. ~call[r].failed => res = "all"
    BY <2>2, <2>6
  <2>10. Account(r)'
    BY <1>4, <1>5, <1>6, <1>7, <2>3 DEF Account
  <2>11. Result(r)'
    BY <1>5, <2>2, <2>3, <2>8 DEF Result
  <2>12. Faultless(r)'
    BY <1>4, <1>5, <1>6, <2>1, <2>3, <2>9 DEF Faultless
  <2> QED BY <1>8, <2>4, <2>10, <2>11, <2>12 DEF CallOk
<1> QED BY <1>9, <1>10, <1>11, <1>12

(* transfer_init: nothing of r is queued meanwhile.                        *)
LEMMA BuildDriven ==
  ASSUME Types, Linked, Owned, Driven, Reliable, NEW r \in Reqs, Build(r) \/ AioBuild(r)
  PROVE  Driven'
<1>1. Sane /\ CallOk(r) /\ RingSuffices /\ HeadGivesUp
  BY DEF Driven, Reliable
<1>2. /\ call \in [Reqs -> CallRecs] /\ xf \in [Xfers -> XferRecs] /\ Link(r) /\ eng \in EngRecs
      /\ <<r, 1>> \in Xfers
  BY Pairs DEF Types, Linked
<1>3. call[r].pc = "build" /\ call[r].left > 0 /\ (r \in load.sync \/ IsAio(r))
  BY <1>2 DEF Build, AioBuild, Link, SyncLink, AioLink
<1>4. PICK t \in {<<r, 1>>, <<r, 2>>} :
        TransferInit(r, t) /\ (r \in load.sync => t = <<r, 1>>) /\ t \in Xfers
  <2>1. CASE Build(r)
    BY <1>2, <2>1 DEF Build
  <2>2. CASE AioBuild(r)
    <3>1. r \notin load.sync
      BY <2>2, Kinds DEF AioBuild
    <3> QED BY <2>2, <3>1, CurrentIs DEF AioBuild
  <2> QED BY <2>1, <2>2
<1>5. /\ xf'[t].state = "NEW" /\ xf'[t].num = PartSize(r) /\ ~xf'[t].cyclic
      /\ \A u \in Xfers \ {t} : xf'[u] = xf[u]
      /\ call'[r].pc = "submit" /\ call'[r].left = call[r].left - PartSize(r)
      /\ call'[r].done = call[r].done /\ call'[r].failed = call[r].failed
      /\ call'[r].pinned = call[r].pinned /\ call'[r].res = call[r].res
      /\ \A q \in Reqs \ {r} : call'[q] = call[q]
  BY <1>3, <1>4, BuiltIs
<1>6. /\ UNCHANGED <<load, queue, hw, irq, poll, moved>>
      /\ eng' = [eng EXCEPT !.idx = (eng.idx + PartSize(r)) % DescMax]
  BY <1>4, TransferInitIs
<1>7. /\ eng'.running = eng.running /\ eng'.dequeued = eng.dequeued /\ eng'.offline = eng.offline
      /\ eng'.shutdown = eng.shutdown /\ eng'.status = eng.status
  <2> DEFINE i == (eng.idx + PartSize(r)) % DescMax
  <2>1. eng' = [eng EXCEPT !.idx = i]
    BY <1>6
  <2> HIDE DEF i
  <2> QED BY <1>2, <2>1 DEF EngRecs
<1>8. <<r, 1>> \notin Queued
  <2> SUFFICES ASSUME <<r, 1>> \in Queued PROVE FALSE
    OBVIOUS
  <2>1. (r \in load.sync => call[r].pc \in {"queued", "wait", "check"}) /\ (IsAio(r) => call[r].pc = "flying")
    BY <1>1, QueuedPending
  <2> QED BY <1>3, <2>1
<1>9. \A q \in Reqs \ {r} : xf'[<<q, 1>>] = xf[<<q, 1>>]
  <2> TAKE q \in Reqs \ {r}
  <2>1. <<q, 1>> # t
    BY OtherPairs
  <2> QED BY <1>5, <2>1, Pairs
<1>10. \A u \in Xfers : ~xf'[u].cyclic
  BY <1>1, <1>5 DEF Sane
<1>11. xf'[<<r, 1>>].state \in {"NEW", xf[<<r, 1>>].state}
  BY <1>2, <1>5
<1>12. Result(r)' /\ Faultless(r)'
  BY <1>1, <1>3, <1>5, <1>6, <1>11 DEF CallOk, Result, Faultless
<1>13. r \in load.sync => Account(r)'
  <2> SUFFICES ASSUME r \in load.sync PROVE Account(r)'
    OBVIOUS
  <2>1. Account(r) /\ Result(r)
    BY <1>1 DEF CallOk
  <2> DEFINE left == call[r].left
             n    == PartSize(r)
  <2>2. First(r)' = DescsOf[r] - (left - n) - n
    BY <1>4, <1>5 DEF First
  <2>3. call[r].done = DescsOf[r] - left /\ ~call[r].failed
    BY <1>3, <2>1 DEF Account, Result
  <2>4. left \in Nat /\ n \in Nat /\ DescsOf[r] \in Nat
    BY PartFits, Ring
  <2>5. First(r)' = call[r].done
    <3> HIDE DEF left, n
    <3> QED BY <2>2, <2>3, <2>4
  <2> QED BY <1>5, <1>6, <2>1, <2>3, <2>5 DEF Account
<1>14. ~Abandoned(r) \/ Abandoned(r)'
  BY <1>3, <1>5 DEF Abandoned
<1>15. CallOk(r)'
  BY <1>6, <1>12, <1>13 DEF CallOk
<1> QED BY <1>5, <1>6, <1>7, <1>8, <1>9, <1>10, <1>14, <1>15, CallerStep

(* A call looks at a transfer that is over.                                *)
LEMMA CheckOverDriven ==
  ASSUME Types, Linked, Owned, Driven, Reliable, NEW r \in Reqs, Check(r),
         xf[<<r, 1>>].state # "SUBMITTED"
  PROVE  Driven'
<1> DEFINE t     == <<r, 1>>
           state == xf[t].state
           num   == xf[t].num
           done  == call[r].done
           left  == call[r].left
           more  == state = "COMPLETED" /\ left > 0
<1>1. /\ call[r].pc = "check" /\ r \in load.sync /\ load' = load
      /\ call'[r].pc = (IF more THEN "build" ELSE "unmap")
      /\ call'[r].left = left
      /\ call'[r].done = (IF state = "COMPLETED" THEN done + num ELSE done)
      /\ call'[r].failed = (state # "COMPLETED")
      /\ call'[r].pinned = call[r].pinned /\ call'[r].res = call[r].res
      /\ \A q \in Reqs \ {r} : call'[q] = call[q]
      /\ xf'[t].state = state
      /\ xf'[t].num = num /\ xf'[t].at = xf[t].at /\ xf'[t].cyclic = xf[t].cyclic
      /\ \A u \in Xfers \ {t} : xf'[u] = xf[u]
      /\ UNCHANGED <<eng, hw, queue, irq, poll, moved>>
  BY CheckIs
<1>2. Sane /\ CallOk(r) /\ Link(r) /\ t \in Xfers
  BY Pairs DEF Driven, Linked
<1>3. Account(r) /\ Result(r) /\ Faultless(r) /\ SyncLink(r)
  BY <1>1, <1>2 DEF CallOk, Link
<1>4. state \in {"COMPLETED", "FAILED"} /\ num > 0 /\ done = First(r) /\ ~call[r].failed
  BY <1>1, <1>3 DEF SyncLink, Account, Result
<1>5. /\ num \in Nat /\ done \in Nat /\ left \in Nat /\ DescsOf[r] \in Nat
      /\ done = DescsOf[r] - left - num
  <2>1. num \in Nat
    BY PlaceIs
  <2> QED BY <1>4, <2>1, Requests DEF Types, CallRecs, First
<1>6. \A q \in Reqs \ {r} : xf'[<<q, 1>>] = xf[<<q, 1>>]
  <2> TAKE q \in Reqs \ {r}
  <2>1. <<q, 1>> # t
    OBVIOUS
  <2> QED BY <1>1, <2>1, Pairs
<1>7. \A u \in Xfers : ~xf'[u].cyclic
  BY <1>1, <1>2 DEF Sane
<1>8. Abandoned(r) => Abandoned(r)'
  BY <1>1, <1>4 DEF Abandoned
<1>9. First(r)' = First(r)
  BY <1>1 DEF First
<1>10. Result(r)'
  BY <1>1, <1>3 DEF Result
<1>11. Account(r)' /\ Faultless(r)'
  <2>1. CASE state = "FAILED"
    <3>1. call'[r].pc = "unmap" /\ call'[r].done = done /\ call'[r].failed
      BY <1>1, <2>1
    <3>2. done < DescsOf[r] /\ 1..done \subseteq moved[r]
      <4>1. 1..done \subseteq moved[r]
        BY <1>3 DEF Account
      <4> HIDE DEF num, done, left
      <4> QED BY <1>4, <1>5, <4>1
    <3>3. load.errors \/ load.giveup
      BY <1>3, <2>1 DEF Faultless
    <3> QED BY <1>1, <3>1, <3>2, <3>3 DEF Account, Faultless
  <2>2. CASE state = "COMPLETED"
    <3>1. call'[r].done = done + num /\ ~call'[r].failed
      BY <1>1, <2>2
    <3>2. 1..(done + num) \subseteq moved[r]
      <4>1. 1..done \subseteq moved[r] /\ Span(done, num) \subseteq moved[r]
        BY <1>1, <1>3, <1>4, <2>2 DEF Account
      <4> HIDE DEF num, done
      <4> QED BY <1>5, <4>1 DEF Span
    <3>3. done + num = DescsOf[r] - left
      <4> HIDE DEF num, done, left
      <4> QED BY <1>5
    <3>4. call'[r].pc \in {"build", "unmap"} /\ (call'[r].pc = "unmap" => left = 0)
      <4> HIDE DEF left
      <4> QED BY <1>1, <1>5, <2>2
    <3>5. left = 0 => done + num = DescsOf[r]
      <4> HIDE DEF num, done, left
      <4> QED BY <1>5, <3>3
    <3> QED BY <1>1, <1>3, <2>2, <3>1, <3>2, <3>3, <3>4, <3>5 DEF Account, Faultless
  <2> QED BY <1>4, <2>1, <2>2
<1>12. CallOk(r)'
  BY <1>10, <1>11 DEF CallOk
<1> QED BY <1>1, <1>6, <1>7, <1>8, <1>12, CallerStep

(* Steps of the asynchronous call that queue nothing                       *)
LEMMA AioDriven ==
  ASSUME Types, Linked, Owned, Driven, Reliable,
         AioEnter \/ AioSegment \/ AioSegmentBad \/ AioSegmentLost \/ AioReturn
           \/ UNCHANGED vars
  PROVE  Driven'
<1>1. Sane /\ \A q \in Reqs : CallOk(q)
  BY DEF Driven
<1>2. call \in [Reqs -> CallRecs] /\ poll \in PollRecs
  BY DEF Types
<1>3. /\ UNCHANGED <<load, eng, queue, xf, hw, irq, moved>>
      /\ poll'.pc = poll.pc /\ poll'.wb = poll.wb
  BY <1>2 DEF AioEnter, AioSegment, AioSegmentBad, AioSegmentLost, AioReturn, engineVars, vars,
     Wakeup, PollRecs
<1>4. \A t \in Xfers : ~xf'[t].cyclic
  BY <1>1, <1>3 DEF Sane
<1>5. CASE AioSegment
  <2>1. PICK r \in Reqs : r = load.aio[caio.next] /\ IsAio(r)
    BY <1>5, SegmentIs DEF AioSegment
  <2>2. call[r].pc = "idle" /\ call' = [call EXCEPT ![r].pc = "build", ![r].pinned = TRUE]
    BY <1>5, <2>1 DEF AioSegment
  <2>3. /\ call'[r].pc = "build" /\ call'[r].pinned /\ call'[r].left = call[r].left
        /\ call'[r].failed = call[r].failed /\ call'[r].res = call[r].res
        /\ \A q \in Reqs \ {r} : call'[q] = call[q]
    BY <1>2, <2>2 DEF CallRecs
  <2>4. r \notin load.sync /\ CallOk(r)
    BY <1>1, <2>1, Kinds
  <2>5. CallOk(r)'
    BY <1>3, <2>2, <2>3, <2>4 DEF CallOk, Result, Faultless
  <2>6. Abandoned(r) => Abandoned(r)'
    BY <2>2, <2>3 DEF Abandoned
  <2> QED BY <1>3, <1>4, <2>3, <2>5, <2>6, CallerStep
<1>6. CASE ~AioSegment /\ ~AioSegmentLost
  <2>1. call' = call
    BY <1>6 DEF AioEnter, AioSegmentBad, AioReturn, vars, fileVars
  <2>2. \A q \in Reqs : CallOk(q)' /\ (Abandoned(q) => Abandoned(q)')
    BY <1>1, <1>3, <2>1, CallOkFrame DEF Sane
  <2> QED BY <1>3, <1>4, <2>1, <2>2, CallerFrame
<1>7. CASE AioSegmentLost
  <2>1. PICK r \in Reqs : r = load.aio[caio.next] /\ IsAio(r)
    BY <1>7, SegmentIs DEF AioSegmentLost
  <2>2. call[r].pc = "idle" /\ call' = [call EXCEPT ![r].pc = "lost", ![r].pinned = TRUE]
    BY <1>7, <2>1 DEF AioSegmentLost
  <2>3. /\ call'[r].pc = "lost" /\ call'[r].pinned /\ call'[r].left = call[r].left
        /\ call'[r].failed = call[r].failed /\ call'[r].res = call[r].res
        /\ \A q \in Reqs \ {r} : call'[q] = call[q]
    BY <1>2, <2>2 DEF CallRecs
  <2>4. r \notin load.sync /\ CallOk(r)
    BY <1>1, <2>1, Kinds
  <2>5. CallOk(r)'
    BY <1>3, <2>2, <2>3, <2>4 DEF CallOk, Result, Faultless
  <2>6. Abandoned(r) => Abandoned(r)'
    BY <2>2, <2>3 DEF Abandoned
  <2> QED BY <1>3, <1>4, <2>3, <2>5, <2>6, CallerStep
<1> QED BY <1>5, <1>6, <1>7

(* What is queued has descriptors.                                         *)
LEMMA QueuedSize ==
  ASSUME Types, Linked, Owned, Reliable, NEW t \in Queued
  PROVE  \E r \in Reqs : t = <<r, 1>> /\ xf[<<r, 1>>].num > 0 /\ Pending(r)
                         /\ call[r].pc # "submit"
<1>1. RingSuffices /\ HeadGivesUp
  BY DEF Reliable
<1>2. PICK r \in Reqs :
        /\ t = <<r, 1>> /\ Pending(r) /\ r \in Makers
        /\ r \in load.sync => call[r].pc \in {"queued", "wait", "check"}
        /\ IsAio(r) => call[r].pc = "flying"
        /\ xf[<<r, 1>>].state \in {"SUBMITTED", "ABORTED"}
  BY <1>1, QueuedPending
<1>3. Link(r) /\ (r \in load.sync \/ IsAio(r))
  BY <1>2, Kinds DEF Linked, Makers
<1> QED BY <1>2, <1>3 DEF Link, SyncLink, AioLink

(* The engine starts with the head of the queue.                           *)
LEMMA StartFrame ==
  ASSUME Types, Types', Reliable, Sane, load' = load, moved' = moved,
         NEW h \in HwRecs, NEW r \in Reqs, Heads(r)', xf'[<<r, 1>>].num > 0,
         hw' = DeviceStart(h, xf'[<<r, 1>>].at),
         eng'.running, eng'.dequeued = 0, ~eng'.offline, ~eng'.shutdown,
         \A t \in Xfers : ~xf'[t].cyclic,
         ~load.errors => "err" \notin h.bits /\ "err" \notin eng'.status.bits,
         load.giveup => /\ poll'.pc = "idle" /\ \A t \in h.late : Abandoned(t[1])'
                        /\ h.cur # NoDesc => Abandoned(h.cur.xfer[1])',
         ~load.giveup =>
           /\ h.late = {} /\ h.cur = NoDesc /\ ~irq'.work
           /\ ~load.poll => h.bits = {} /\ poll'.pc = "idle"
           /\ load.poll => h.wb = NoWb /\ poll'.pc # "service",
         \A q \in Reqs : CallOk(q)'
  PROVE  Driven'
<1>1. xf'[<<r, 1>>].at \in Slots /\ xf'[<<r, 1>>].at \in Nat /\ xf'[<<r, 1>>].num \in Nat
  <2>1. xf'[<<r, 1>>] \in XferRecs
    BY Pairs DEF Types
  <2> QED BY <2>1, Ring DEF XferRecs
<1>2. /\ hw'.run /\ hw'.busy /\ hw'.pos = xf'[<<r, 1>>].at /\ hw'.count = 0 /\ hw'.cur = NoDesc
      /\ hw'.bits = h.bits /\ hw'.wb = h.wb
      /\ hw'.late = IF h.cur # NoDesc THEN h.late \cup {h.cur.xfer} ELSE h.late
  BY <1>1, DeviceStartIs
<1>3. Sane'
  BY <1>2 DEF Sane
<1>4. Walks(r)'
  <2>1. First(r)' \in Int
    <3>1. DescsOf[r] \in Nat /\ call'[r].left \in Nat
      BY Requests DEF Types, CallRecs
    <3> QED BY <1>1, <3>1 DEF First
  <2>2. Span(First(r)', 0) = {}
    BY <2>1 DEF Span
  <2>3. xf'[<<r, 1>>].at + 0 = xf'[<<r, 1>>].at /\ 0 < xf'[<<r, 1>>].num /\ 0 <= xf'[<<r, 1>>].num
    BY <1>1
  <2> QED BY <1>2, <2>2, <2>3 DEF Walks
<1>5. Running'
  BY <1>4 DEF Running
<1>6. Steady'
  BY <1>2 DEF Steady
<1>7. Unsteady'
  <2> SUFFICES ASSUME load.giveup PROVE \A t \in hw'.late : Abandoned(t[1])'
    BY <1>2 DEF Unsteady
  <2> TAKE t \in hw'.late
  <2>1. CASE t \in h.late
    BY <2>1
  <2>2. CASE t \notin h.late
    <3>1. h.cur # NoDesc /\ t = h.cur.xfer
      BY <1>2, <2>2
    <3> QED BY <3>1
  <2> QED BY <2>1, <2>2
<1> QED BY <1>3, <1>5, <1>6, <1>7 DEF Driven

LEMMA SubmitDriven ==
  ASSUME Types, Types', Linked, Owned, Driven, Reliable, NEW r \in Reqs,
         Submit(r) \/ AioSubmit(r)
  PROVE  Driven'
<1>1. Sane /\ Running /\ Steady /\ Unsteady /\ \A q \in Reqs : CallOk(q)
  BY DEF Driven
<1>2. RingSuffices /\ HeadGivesUp /\ Link(r) /\ <<r, 1>> \in Xfers /\ <<r, 2>> \in Xfers
  BY Pairs DEF Reliable, Linked
<1>3. call[r].pc = "submit" /\ (Submit(r) => r \in load.sync) /\ (~Submit(r) => IsAio(r))
  BY DEF Submit, AioSubmit
<1>4. /\ xf[<<r, 1>>].state = "NEW" /\ xf[<<r, 1>>].num > 0 /\ xf[<<r, 2>>].state = "NEW"
      /\ ~Submit(r) => Current(r) = <<r, 1>> /\ call[r].left = 0
  <2>1. CASE Submit(r)
    BY <1>2, <1>3, <2>1 DEF Link, SyncLink
  <2>2. CASE ~Submit(r)
    <3>1. AioLink(r) /\ r \in Makers /\ load.aio # <<>>
      BY <1>2, <1>3, <2>2, Kinds DEF Link, Makers, IsAio
    <3>2. xf[<<r, 2>>].num = 0 /\ (call[r].left # 0 => ~Pending(r))
      BY <1>2, <3>1, AllocIs DEF Owned
    <3>3. call[r].left = 0
      BY <1>3, <3>2 DEF Pending
    <3>4. xf[<<r, 1>>].state = "NEW" /\ xf[<<r, 1>>].num > 0 /\ xf[<<r, 2>>].state = "NEW"
      BY <1>3, <3>1, <3>2 DEF AioLink
    <3> QED BY <2>2, <3>3, <3>4 DEF Current
  <2> QED BY <2>1, <2>2
<1>5. /\ Becomes(QueueXfer(E, <<r, 1>>)) /\ load' = load
      /\ UNCHANGED <<irq, moved, desc_lock>>
      /\ poll' = poll
      /\ \A q \in Reqs \ {r} : call'[q] = call[q]
      /\ \A q \in Reqs : /\ call'[q].left = call[q].left /\ call'[q].done = call[q].done
                         /\ call'[q].failed = call[q].failed
                         /\ call'[q].pinned = call[q].pinned
                         /\ call'[q].res = call[q].res
      /\ call'[r].pc \in {"queued", "wait", "flying"}
      /\ r \in load.sync => call'[r].pc \in {"queued", "wait"}
      /\ xf'[<<r, 1>>].state = "SUBMITTED" /\ xf'[<<r, 1>>].num = xf[<<r, 1>>].num
      /\ xf'[<<r, 1>>].at = xf[<<r, 1>>].at /\ xf'[<<r, 1>>].cyclic = xf[<<r, 1>>].cyclic
      /\ \A u \in Xfers \ {<<r, 1>>} : xf'[u] = xf[u]
  <2>1. ~Submit(r) => r \notin load.sync /\ ~(call[r].left > 0)
    BY <1>3, <1>4, Kinds
  <2> QED BY <1>4, <2>1, SubmitIs
<1>6. poll'.pc = poll.pc /\ poll'.wb = poll.wb
  BY <1>5
<1>7. /\ queue' = Append(queue, <<r, 1>>)
      /\ eng.running => eng' = eng /\ hw' = hw
      /\ ~eng.running =>
              /\ eng' = [eng EXCEPT !.running = TRUE, !.shutdown = FALSE, !.dequeued = 0,
                                    !.status = [bits |-> hw.bits, busy |-> TRUE]]
              /\ hw' = DeviceStart(hw, xf'[Head(queue')].at)
  BY <1>2, <1>5, QueuedState
<1>8. <<r, 1>> \notin Queued /\ <<r, 2>> \notin Queued
  BY <1>4, <1>5, <1>7, AppendStep
<1>9. /\ queue # <<>> => Head(queue') = Head(queue)
      /\ queue = <<>> => Head(queue') = <<r, 1>>
      /\ queue' # <<>>
  <2>1. \A k \in {1, 2} : <<r, k>> \notin Queued
    BY <1>8
  <2>2. <<r, 1>>[1] = r /\ Lined
    BY DEF Linked
  <2> QED BY <1>2, <1>7, <2>1, <2>2, Appended
<1>10. \A q \in Reqs \ {r} : xf'[<<q, 1>>] = xf[<<q, 1>>]
  <2> TAKE q \in Reqs \ {r}
  <2>1. <<q, 1>> # <<r, 1>>
    OBVIOUS
  <2> QED BY <1>5, <2>1, Pairs
<1>11. \A u \in Xfers : ~xf'[u].cyclic
  BY <1>1, <1>2, <1>5 DEF Sane
<1>12. CallOk(r)'
  <2>1. CallOk(r) /\ First(r)' = First(r)
    BY <1>1, <1>5 DEF First
  <2>2. Result(r)' /\ Faultless(r)'
    BY <1>3, <1>5, <2>1 DEF CallOk, Result, Faultless
  <2>3. r \in load.sync => Account(r)'
    BY <1>3, <1>5, <2>1 DEF CallOk, Account
  <2> QED BY <1>5, <2>2, <2>3 DEF CallOk
<1>13. Abandoned(r) => Abandoned(r)'
  BY <1>3, <1>5 DEF Abandoned
<1>14. CASE eng.running
  <2>1. queue # <<>>
    BY <1>1, <1>14 DEF Running, Heads
  <2> QED BY <1>5, <1>6, <1>7, <1>9, <1>10, <1>11, <1>12, <1>13, <1>14, <2>1, CallerStep
<1>15. CASE ~eng.running
  <2>1. \A q \in Reqs : CallOk(q)' /\ (Abandoned(q) => Abandoned(q)')
    <3> SUFFICES ASSUME NEW q \in Reqs, q # r PROVE CallOk(q)' /\ (Abandoned(q) => Abandoned(q)')
      BY <1>12, <1>13
    <3>1. /\ xf'[<<q, 1>>].state = xf[<<q, 1>>].state /\ xf'[<<q, 1>>].num = xf[<<q, 1>>].num
          /\ call'[q] = call[q] /\ CallOk(q)
          /\ moved[q] \subseteq moved'[q] /\ moved'[q] \subseteq 1..DescsOf[q]
      BY <1>1, <1>5, <1>10 DEF Sane
    <3> QED BY <1>5, <3>1, CallOkFrame
  <2>2. PICK q \in Reqs : Head(queue') = <<q, 1>> /\ xf[<<q, 1>>].num > 0
    <3>1. CASE queue = <<>>
      BY <1>4, <1>9, <3>1
    <3>2. CASE queue # <<>>
      <4>1. Head(queue) \in Queued
        BY <3>2, QueuedXfers
      <4> QED BY <1>9, <3>2, <4>1, QueuedSize
    <3> QED BY <3>1, <3>2
  <2>3. xf'[<<q, 1>>].num = xf[<<q, 1>>].num /\ Heads(q)'
    BY <1>5, <1>9, <1>10, <2>2 DEF Heads
  <2>4. hw \in HwRecs /\ eng \in EngRecs /\ load.giveup \in BOOLEAN /\ load.poll \in BOOLEAN
        /\ load.errors \in BOOLEAN
    BY LoadTypes DEF Types
  <2>5. /\ eng'.running /\ eng'.dequeued = 0 /\ eng'.offline = eng.offline /\ ~eng'.shutdown
        /\ eng'.status.bits = hw.bits
    <3> DEFINE st == [bits |-> hw.bits, busy |-> TRUE]
    <3>1. eng' = [eng EXCEPT !.running = TRUE, !.shutdown = FALSE, !.dequeued = 0, !.status = st]
      BY <1>7, <1>15
    <3>2. st.bits = hw.bits
      OBVIOUS
    <3> HIDE DEF st
    <3> QED BY <2>4, <3>1, <3>2 DEF EngRecs
  <2>6. PICK h \in HwRecs : h = hw
    BY <2>4
  <2>7. hw' = DeviceStart(h, xf'[<<q, 1>>].at)
    BY <1>7, <1>15, <2>2, <2>6
  <2>8. ~load.giveup =>
           /\ h.late = {} /\ h.cur = NoDesc /\ ~irq'.work
           /\ ~load.poll => h.bits = {} /\ poll'.pc = "idle"
           /\ load.poll => h.wb = NoWb /\ poll'.pc # "service"
    <3> SUFFICES ASSUME ~load.giveup
                 PROVE  /\ h.late = {} /\ h.cur = NoDesc /\ ~irq'.work
                        /\ ~load.poll => h.bits = {} /\ poll'.pc = "idle"
                        /\ load.poll => h.wb = NoWb /\ poll'.pc # "service"
      OBVIOUS
    <3>1. ~hw.busy /\ hw.late = {} /\ ~Over
      BY <1>1, <1>15 DEF Steady, Over
    <3>2. hw.cur = NoDesc
      BY <1>1, <3>1 DEF Sane
    <3>3. /\ ~irq.work /\ (~load.poll => hw.bits = {} /\ poll.pc = "idle")
          /\ load.poll => hw.wb = NoWb /\ poll.pc # "service"
      BY <1>1, <1>15, <2>4, <3>1 DEF Steady
    <3> QED BY <1>5, <1>6, <2>6, <3>1, <3>2, <3>3
  <2>9. load.giveup => /\ poll'.pc = "idle" /\ \A t \in h.late : Abandoned(t[1])'
                       /\ h.cur # NoDesc => Abandoned(h.cur.xfer[1])'
    <3> SUFFICES ASSUME load.giveup
                 PROVE  /\ poll'.pc = "idle" /\ \A t \in h.late : Abandoned(t[1])'
                        /\ h.cur # NoDesc => Abandoned(h.cur.xfer[1])'
      OBVIOUS
    <3>1. h.late \subseteq Xfers /\ h.cur \in DescRecs
      BY DEF HwRecs
    <3>2. ASSUME NEW t \in h.late PROVE Abandoned(t[1])'
      <4>1. t[1] \in Reqs /\ Abandoned(t[1])
        BY <1>1, <2>6, <3>1, PairOf DEF Unsteady
      <4> QED BY <2>1, <4>1
    <3>3. ASSUME h.cur # NoDesc PROVE Abandoned(h.cur.xfer[1])'
      <4>1. h.cur.xfer[1] \in Reqs
        BY <3>1, <3>3, Records, PairOf
      <4>2. Abandoned(h.cur.xfer[1])
        BY <1>1, <1>15, <2>6, <3>3 DEF Unsteady
      <4> QED BY <2>1, <4>1, <4>2
    <3> QED BY <1>1, <1>6, <3>2, <3>3 DEF Unsteady
  <2>10. ~load.errors => "err" \notin h.bits /\ "err" \notin eng'.status.bits
    BY <1>1, <2>5, <2>6 DEF Sane
  <2>11. ~eng'.offline
    BY <1>1, <2>5 DEF Sane
  <2> QED BY <1>1, <1>5, <1>11, <2>1, <2>2, <2>3, <2>5, <2>7, <2>8, <2>9, <2>10, <2>11, StartFrame
<1> QED BY <1>14, <1>15

(* A call gives up: its transfer is at the head of the queue, and what the *)
(* device has in its hands is of that transfer, or of one given up before. *)
LEMMA CheckAbortDriven ==
  ASSUME Types, Linked, Owned, Driven, Reliable, NEW r \in Reqs, Check(r),
         xf[<<r, 1>>].state = "SUBMITTED"
  PROVE  Driven'
<1> DEFINE t == <<r, 1>>
<1>1. /\ call[r].pc = "check" /\ r \in load.sync /\ load' = load
      /\ call'[r].pc = "unmap"
      /\ call'[r].left = call[r].left /\ call'[r].done = call[r].done
      /\ call'[r].failed
      /\ call'[r].pinned = call[r].pinned /\ call'[r].res = call[r].res
      /\ \A q \in Reqs \ {r} : call'[q] = call[q]
      /\ xf'[t].num = xf[t].num /\ xf'[t].cyclic = xf[t].cyclic
      /\ \A u \in Xfers \ {t} : xf'[u] = xf[u]
      /\ eng' = [eng EXCEPT !.status = [bits |-> hw.bits, busy |-> hw.busy], !.running = FALSE]
      /\ hw' = [hw EXCEPT !.run = FALSE]
      /\ UNCHANGED <<irq, poll, moved>>
  BY CheckIs
<1>2. /\ Sane /\ Running /\ Steady /\ Unsteady /\ (\A q \in Reqs : CallOk(q))
      /\ Link(r) /\ t \in Xfers /\ HeadGivesUp
  BY Pairs DEF Driven, Linked, Reliable
<1>3. Account(r) /\ Result(r) /\ SyncLink(r)
  BY <1>1, <1>2 DEF CallOk, Link
<1>4. load.giveup /\ load.aio = <<>> /\ t \in Queued /\ desc_lock = r
  BY <1>1, <1>2, <1>3, LoadTypes DEF SyncLink, HeadGivesUp
<1>5. hw \in HwRecs /\ eng \in EngRecs
  BY DEF Types
<1>6. /\ ~eng'.running /\ eng'.offline = eng.offline /\ eng'.shutdown = eng.shutdown
      /\ eng'.status.bits = hw.bits
  <2> DEFINE st == [bits |-> hw.bits, busy |-> hw.busy]
  <2>1. eng' = [eng EXCEPT !.status = st, !.running = FALSE]
    BY <1>1
  <2>2. st.bits = hw.bits
    OBVIOUS
  <2> HIDE DEF st
  <2> QED BY <1>5, <2>1, <2>2 DEF EngRecs
<1>7. /\ ~hw'.run /\ hw'.busy = hw.busy /\ hw'.cur = hw.cur /\ hw'.bits = hw.bits
      /\ hw'.late = hw.late
  BY <1>1, <1>5 DEF HwRecs
<1>8. \A u \in Xfers : ~xf'[u].cyclic
  BY <1>1, <1>2 DEF Sane
<1>9. CallOk(r)' /\ Abandoned(r)'
  <2> DEFINE num  == xf[t].num
             left == call[r].left
             done == call[r].done
  <2>1. First(r)' = First(r) /\ done = First(r) /\ num > 0
    BY <1>1, <1>3 DEF First, Account, SyncLink
  <2>2. num \in Nat /\ left \in Nat /\ DescsOf[r] \in Nat /\ done = DescsOf[r] - left - num
    <3>1. num \in Nat
      BY PlaceIs
    <3> QED BY <2>1, <3>1, Requests DEF Types, CallRecs, First
  <2>3. done < DescsOf[r]
    <3> HIDE DEF num, left, done
    <3> QED BY <2>1, <2>2
  <2>4. Account(r)'
    BY <1>1, <1>3, <2>1, <2>3 DEF Account
  <2>5. Result(r)' /\ Faultless(r)'
    BY <1>1, <1>3, <1>4 DEF Result, Faultless
  <2> QED BY <1>1, <2>4, <2>5 DEF CallOk, Abandoned
<1>10. \A q \in Reqs : CallOk(q)' /\ (Abandoned(q) => Abandoned(q)')
  <2> SUFFICES ASSUME NEW q \in Reqs, q # r PROVE CallOk(q)' /\ (Abandoned(q) => Abandoned(q)')
    BY <1>9
  <2>1. <<q, 1>> # t
    OBVIOUS
  <2>2. /\ xf'[<<q, 1>>].state = xf[<<q, 1>>].state /\ xf'[<<q, 1>>].num = xf[<<q, 1>>].num
        /\ call'[q] = call[q] /\ CallOk(q)
        /\ moved[q] \subseteq moved'[q] /\ moved'[q] \subseteq 1..DescsOf[q]
    BY <1>1, <1>2, <2>1, Pairs DEF Sane
  <2> QED BY <1>1, <2>2, CallOkFrame
<1>11. Sane' /\ Running' /\ Steady'
  BY <1>1, <1>2, <1>4, <1>6, <1>7, <1>8 DEF Sane, Running, Steady
<1>12. Unsteady'
  <2>1. hw.late \subseteq Xfers /\ hw.cur \in DescRecs
    BY <1>5 DEF HwRecs
  <2>2. \A u \in hw.late : Abandoned(u[1])'
    <3> TAKE u \in hw.late
    <3>1. PICK q \in Reqs : q = u[1]
      BY <2>1, PairOf
    <3>2. Abandoned(q)'
      BY <1>2, <1>4, <1>10, <3>1 DEF Unsteady
    <3> QED BY <3>1, <3>2
  <2>3. ASSUME hw.cur # NoDesc PROVE Abandoned(hw.cur.xfer[1])'
    <3>1. PICK q \in Reqs : q = hw.cur.xfer[1] /\ hw.busy
      BY <1>2, <2>1, <2>3, Records, PairOf DEF Sane
    <3>2. CASE eng.running
      <4>1. PICK h \in Reqs : Heads(h) /\ hw.cur.xfer = <<h, 1>>
        BY <1>2, <2>3, <3>1, <3>2, WalkedIs
      <4>2. <<h, 1>> \in Queued
        BY <4>1, QueuedXfers DEF Heads
      <4>3. <<h, 1>> = <<r, 1>>
        BY <1>2, <1>4, <4>2, SoleQueued
      <4>4. q = r
        BY <3>1, <4>1, <4>3
      <4> QED BY <1>7, <1>9, <3>1, <4>4 DEF Abandoned
    <3>3. CASE ~eng.running
      <4>1. Abandoned(q)'
        BY <1>2, <1>4, <1>10, <2>3, <3>1, <3>3 DEF Unsteady
      <4>2. hw'.cur.xfer[1] = q
        BY <1>7, <3>1
      <4> QED BY <4>1, <4>2 DEF Abandoned
    <3> QED BY <3>2, <3>3
  <2> QED BY <1>1, <1>2, <1>4, <1>7, <2>2, <2>3 DEF Unsteady
<1> QED BY <1>10, <1>11, <1>12 DEF Driven

(* engine_service when a run has not carried out more than the head of the *)
(* queue: it ends, and the next one is started.                            *)
SameHands(h, g) == h.busy = g.busy /\ h.cur = g.cur /\ h.late = g.late /\ h.wb = g.wb

LEMMA ServiceOne ==
  ASSUME NEW S \in States, S.done = <<>>, S.eng.running, S.eng.dequeued = 0, S.queue # <<>>,
         NEW wb \in WbRecs, NEW n \in Nat, n = (IF wb.count = 0 THEN S.hw.count ELSE wb.count),
         n # 0, n <= S.xf[Head(S.queue)].num, S.xf[Head(S.queue)].num <= DescMax
  PROVE  LET T    == Service(S, wb)
             head == Head(S.queue)
             read == wb.count = 0 \/ wb.err
             seen == IF read THEN S.hw.bits ELSE S.eng.status.bits
             kept == IF read THEN {} ELSE S.hw.bits
             idle == (IF read THEN ~S.hw.busy ELSE ~S.eng.status.busy) \/ wb.count # 0
         IN  /\ T \in States
             /\ T.queue = Tail(S.queue) /\ T.done = Append(<<>>, head)
             /\ T.xf = [S.xf EXCEPT ![head].state =
                          IF "err" \in seen \/ n < S.xf[head].num THEN "FAILED"
                          ELSE "COMPLETED"]
             /\ T.eng.offline = S.eng.offline
             /\ Tail(S.queue) = <<>> =>
                  /\ ~T.eng.running /\ ~T.hw.run /\ T.eng.shutdown = S.eng.shutdown
                  /\ T.eng.status.bits = seen
                  /\ SameHands(T.hw, S.hw) /\ T.hw.bits = kept
             /\ Tail(S.queue) # <<>> /\ idle =>
                  /\ T.eng.running /\ T.eng.dequeued = 0 /\ ~T.eng.shutdown
                  /\ T.eng.status.bits = kept
                  /\ \E h \in HwRecs : /\ SameHands(h, S.hw) /\ h.bits = kept
                                       /\ T.hw = DeviceStart(h, T.xf[Head(T.queue)].at)
<1> DEFINE T    == Service(S, wb)
           head == Head(S.queue)
           num  == S.xf[head].num
           read == wb.count = 0 \/ wb.err
           seen == IF read THEN S.hw.bits ELSE S.eng.status.bits
           kept == IF read THEN {} ELSE S.hw.bits
           idle == (IF read THEN ~S.hw.busy ELSE ~S.eng.status.busy) \/ wb.count # 0
           err  == "err" \in seen
           A    == ServiceRead(S, wb)
           B    == ServiceIdle(A, wb)
           C    == [B EXCEPT !.left = (n - B.eng.dequeued) % CountRange]
           D    == ServiceTransferList(C)
           F    == ServiceFinalTransfer(D)
<1>1. /\ A \in States /\ A.queue = S.queue /\ A.xf = S.xf /\ A.done = <<>>
      /\ A.eng = IF read THEN [S.eng EXCEPT !.status = [bits |-> S.hw.bits, busy |-> S.hw.busy]]
                 ELSE S.eng
      /\ A.hw = IF read THEN [S.hw EXCEPT !.bits = {}] ELSE S.hw
  BY ServiceReadIs
<1>2. /\ B \in States /\ B.queue = S.queue /\ B.xf = S.xf /\ B.done = <<>>
      /\ B.eng = IF ~A.eng.status.busy \/ wb.count # 0 THEN [A.eng EXCEPT !.running = FALSE]
                 ELSE A.eng
      /\ B.hw = IF ~A.eng.status.busy \/ wb.count # 0 THEN [A.hw EXCEPT !.run = FALSE] ELSE A.hw
  <2> HIDE DEF A
  <2> QED BY <1>1, ServiceIdleIs
<1>3. S.eng \in EngRecs /\ S.hw \in HwRecs /\ head \in Xfers /\ S.xf \in [Xfers -> XferRecs]
      /\ S.queue \in Seq(Xfers)
  <2>1. S.queue \in Seq(Xfers)
    BY DEF States
  <2> QED BY <2>1, HeadTailProperties DEF States
<1>4. /\ A.eng.running /\ A.eng.dequeued = 0 /\ A.eng.offline = S.eng.offline
      /\ A.eng.shutdown = S.eng.shutdown /\ A.eng.status.bits = seen
      /\ A.eng.status.busy = (IF read THEN S.hw.busy ELSE S.eng.status.busy)
      /\ A.eng \in EngRecs
  <2> DEFINE st == [bits |-> S.hw.bits, busy |-> S.hw.busy]
  <2>1. st.bits = S.hw.bits /\ st.busy = S.hw.busy
    OBVIOUS
  <2>2. A.eng = IF read THEN [S.eng EXCEPT !.status = st] ELSE S.eng
    BY <1>1
  <2>3. A.eng \in EngRecs
    BY <1>1 DEF States
  <2> HIDE DEF st, A, read
  <2>4. CASE read
    BY <1>3, <2>1, <2>2, <2>3, <2>4 DEF EngRecs
  <2>5. CASE ~read
    BY <2>2, <2>3, <2>5
  <2> QED BY <2>4, <2>5
<1>5. A.hw.bits = kept /\ SameHands(A.hw, S.hw) /\ A.hw \in HwRecs
  <2>1. A.hw \in HwRecs
    BY <1>1 DEF States
  <2> HIDE DEF A, read
  <2>2. CASE read
    BY <1>1, <1>3, <2>1, <2>2 DEF HwRecs, SameHands
  <2>3. CASE ~read
    BY <1>1, <2>1, <2>3 DEF SameHands
  <2> QED BY <2>2, <2>3
<1>6. idle <=> ~A.eng.status.busy \/ wb.count # 0
  BY <1>4
<1> HIDE DEF A, read, idle
<1>7. /\ (idle => ~B.eng.running /\ ~B.hw.run) /\ (~idle => B.eng.running)
      /\ B.eng.dequeued = 0 /\ B.eng.offline = S.eng.offline
      /\ B.eng.shutdown = S.eng.shutdown /\ B.eng.status.bits = seen
      /\ B.hw.bits = kept /\ SameHands(B.hw, S.hw)
  <2> HIDE DEF B, seen, kept
  <2>1. CASE idle
    BY <1>2, <1>4, <1>5, <1>6, <2>1 DEF EngRecs, HwRecs, SameHands
  <2>2. CASE ~idle
    BY <1>2, <1>4, <1>5, <1>6, <2>2
  <2> QED BY <2>1, <2>2
<1> HIDE DEF B, seen, kept
<1>8. (n - B.eng.dequeued) % CountRange = n
  <2>1. n \in 0..(CountRange - 1)
    <3>1. num \in Nat
      BY <1>3 DEF XferRecs
    <3> HIDE DEF num, head
    <3>2. n <= DescMax
      BY <3>1, Ring DEF num, head
    <3> QED BY <3>2, Ring
  <2>2. n - B.eng.dequeued = n
    BY <1>7
  <2>3. n % CountRange = n
    BY <2>1, Remainder, Ring
  <2> QED BY <2>2, <2>3
<1>9. /\ C \in States /\ C.queue = S.queue /\ C.xf = S.xf /\ C.done = <<>>
      /\ C.eng = B.eng /\ C.hw = B.hw /\ C.left = n
  BY <1>2, <1>8, CountedState
<1> HIDE DEF C
<1>10. Whole(C) = 0 /\ DescsUpto(C)[0] = 0
  BY <1>9, WholeIs, DescsUptoIs
<1>11. /\ D \in States /\ D.queue = S.queue /\ D.xf = S.xf /\ D.done = <<>>
       /\ D.eng = B.eng /\ D.hw = B.hw /\ D.left = n
  <2>1. /\ D \in States /\ D.queue = SubSeq(C.queue, 1, Len(C.queue))
        /\ D.done = SubSeq(C.queue, 1, 0)
        /\ D.xf = [t \in Xfers |->
                     IF \E j \in 1..0 : C.queue[j] = t
                     THEN [C.xf[t] EXCEPT !.state = "COMPLETED"] ELSE C.xf[t]]
        /\ D.eng = [C.eng EXCEPT !.dequeued = @ + 0] /\ D.hw = C.hw /\ D.left = C.left - 0
    <3> DEFINE k == Whole(C)
               m == DescsUpto(C)[k]
    <3>1. /\ D \in States /\ D.queue = SubSeq(C.queue, k + 1, Len(C.queue))
          /\ D.done = SubSeq(C.queue, 1, k)
          /\ D.xf = [t \in Xfers |->
                       IF \E j \in 1..k : C.queue[j] = t
                       THEN [C.xf[t] EXCEPT !.state = "COMPLETED"] ELSE C.xf[t]]
          /\ D.eng = [C.eng EXCEPT !.dequeued = @ + m] /\ D.hw = C.hw /\ D.left = C.left - m
      BY <1>9, ServiceTransferListIs
    <3>2. k = 0 /\ m = 0 /\ k + 1 = 1
      BY <1>10
    <3> HIDE DEF k, m
    <3> QED BY <3>1, <3>2
  <2> HIDE DEF D
  <2>2. SubSeq(C.queue, 1, Len(C.queue)) = S.queue /\ SubSeq(C.queue, 1, 0) = <<>>
    BY <1>3, <1>9
  <2>3. D.xf = S.xf
    BY <1>3, <1>9, <2>1
  <2>4. D.eng = B.eng
    <3>1. B.eng \in EngRecs
      BY <1>2 DEF States
    <3> QED BY <1>7, <1>9, <2>1, <3>1 DEF EngRecs
  <2> QED BY <1>9, <2>1, <2>2, <2>3, <2>4
<1> HIDE DEF D
<1>12. /\ F \in States /\ F.queue = Tail(S.queue) /\ F.done = Append(<<>>, head)
       /\ F.xf = [S.xf EXCEPT ![head].state = IF err \/ n < num THEN "FAILED" ELSE "COMPLETED"]
       /\ F.eng = IF err THEN [B.eng EXCEPT !.running = FALSE]
                  ELSE [B.eng EXCEPT !.dequeued = @ + num]
       /\ F.hw = IF err THEN [B.hw EXCEPT !.run = FALSE] ELSE B.hw
  <2>1. "err" \in D.eng.status.bits <=> err
    BY <1>7, <1>11
  <2> QED BY <1>11, <2>1, ServiceFinalTransferIs, SMTT(30)
<1> HIDE DEF F, err, num
<1>13. /\ (idle \/ err => ~F.eng.running /\ ~F.hw.run) /\ (~F.eng.running => ~F.hw.run)
       /\ F.eng.offline = S.eng.offline
       /\ F.eng.shutdown = S.eng.shutdown /\ F.eng.status.bits = seen
       /\ F.hw.bits = kept /\ SameHands(F.hw, S.hw)
  <2>1. B.eng \in EngRecs /\ B.hw \in HwRecs
    BY <1>2 DEF States
  <2>2. CASE err
    BY <1>7, <1>12, <2>1, <2>2 DEF EngRecs, HwRecs, SameHands
  <2>3. CASE ~err
    <3> DEFINE m == B.eng.dequeued + num
    <3>1. F.eng = [B.eng EXCEPT !.dequeued = m] /\ F.hw = B.hw
      BY <1>12, <2>3
    <3> HIDE DEF m
    <3>2. /\ F.eng.running = B.eng.running /\ F.eng.offline = B.eng.offline
          /\ F.eng.shutdown = B.eng.shutdown /\ F.eng.status = B.eng.status
      BY <2>1, <3>1 DEF EngRecs
    <3> QED BY <1>7, <2>3, <3>1, <3>2
  <2> QED BY <2>2, <2>3
<1>14. T = ServiceResume(F)
  <2>1. T = ServiceCount(B, n)
    BY ServiceIs DEF A, B
  <2>2. T = ServiceResume(ServiceFinalTransfer(ServiceTransferList(
             [B EXCEPT !.left = (n - B.eng.dequeued) % CountRange])))
    BY <2>1, ServiceCountIs
  <2> QED BY <2>2 DEF C, D, F
<1> HIDE DEF T
<1>15. F.eng \in EngRecs /\ F.hw \in HwRecs
  BY <1>12 DEF States
<1>16. /\ T \in States /\ T.queue = F.queue /\ T.xf = F.xf /\ T.done = F.done
       /\ ~F.eng.running /\ F.queue # <<>> =>
            /\ T.eng = [F.eng EXCEPT !.running = TRUE, !.shutdown = FALSE, !.dequeued = 0,
                                     !.status = [bits |-> F.hw.bits, busy |-> TRUE]]
            /\ T.hw = DeviceStart(F.hw, F.xf[Head(F.queue)].at)
       /\ F.eng.running /\ F.queue = <<>> =>
            /\ T.eng = [F.eng EXCEPT !.running = FALSE] /\ T.hw = [F.hw EXCEPT !.run = FALSE]
       /\ (F.eng.running <=> F.queue # <<>>) => T = F
  BY <1>12, <1>14, ServiceResumeIs
<1>17. ASSUME Tail(S.queue) = <<>>
       PROVE  /\ ~T.eng.running /\ ~T.hw.run /\ T.eng.shutdown = S.eng.shutdown
              /\ T.eng.status.bits = seen /\ T.eng.offline = S.eng.offline
              /\ SameHands(T.hw, S.hw) /\ T.hw.bits = kept
  <2>1. CASE F.eng.running
    BY <1>12, <1>13, <1>15, <1>16, <1>17, <2>1 DEF EngRecs, HwRecs, SameHands
  <2>2. CASE ~F.eng.running
    <3>1. T = F
      BY <1>12, <1>16, <1>17, <2>2
    <3> QED BY <1>13, <2>2, <3>1
  <2> QED BY <2>1, <2>2
<1>18. ASSUME Tail(S.queue) # <<>>
       PROVE  /\ T.eng.offline = S.eng.offline
              /\ idle =>
                  /\ T.eng.running /\ T.eng.dequeued = 0 /\ ~T.eng.shutdown
                  /\ T.eng.status.bits = kept
                  /\ \E h \in HwRecs : /\ SameHands(h, S.hw) /\ h.bits = kept
                                       /\ T.hw = DeviceStart(h, T.xf[Head(T.queue)].at)
  <2>1. CASE F.eng.running
    <3>1. T = F
      BY <1>12, <1>16, <1>18, <2>1
    <3> QED BY <1>13, <2>1, <3>1
  <2>2. CASE ~F.eng.running
    <3> DEFINE st == [bits |-> F.hw.bits, busy |-> TRUE]
    <3>1. st.bits = F.hw.bits
      OBVIOUS
    <3>2. T.eng = [F.eng EXCEPT !.running = TRUE, !.shutdown = FALSE, !.dequeued = 0, !.status = st]
          /\ T.hw = DeviceStart(F.hw, T.xf[Head(T.queue)].at)
      BY <1>12, <1>16, <1>18, <2>2
    <3> HIDE DEF st
    <3>3. /\ T.eng.running /\ T.eng.dequeued = 0 /\ ~T.eng.shutdown /\ T.eng.status.bits = kept
          /\ T.eng.offline = S.eng.offline
      BY <1>13, <1>15, <3>1, <3>2 DEF EngRecs
    <3> QED BY <1>13, <1>15, <3>2, <3>3
  <2> QED BY <2>1, <2>2
<1>19. /\ T.queue = Tail(S.queue) /\ T.done = Append(<<>>, head)
       /\ T.xf = [S.xf EXCEPT ![head].state = IF err \/ n < num THEN "FAILED" ELSE "COMPLETED"]
  BY <1>12, <1>16
<1> QED BY <1>16, <1>17, <1>18, <1>19 DEF T, seen, kept, idle, read, err, num

LEMMA HandledNothing ==
  ASSUME Types, NEW S \in States, S.done = <<>>, S.xf = xf, Handled(S)
  PROVE  /\ \A r \in Reqs : call'[r] = call[r]
         /\ \A t \in Xfers : xf'[t] = xf[t]
         /\ eng' = S.eng /\ queue' = S.queue /\ hw' = S.hw
<1>1. Notified(S) = {}
  <2>1. DOMAIN S.done = {}
    <3>1. DOMAIN <<>> = 1..0
      BY EmptySeq, LenProperties
    <3> QED BY <3>1
  <2> QED BY <2>1 DEF Notified
<1> QED BY <1>1 DEF Handled

(* The head of the queue is completed: what that means to its caller       *)
LEMMA HeadDone ==
  ASSUME Types, Linked, Owned, Driven, Reliable, NEW r \in Reqs, Heads(r), Walks(r),
         NEW S \in States, NEW k \in 0..Len(queue), Served(E, S, k), Handled(S),
         S.done = Append(<<>>, <<r, 1>>), load' = load, moved' = moved,
         S.xf[<<r, 1>>].state = "COMPLETED" => hw.count = xf[<<r, 1>>].num,
         ~load.errors /\ ~load.giveup => S.xf[<<r, 1>>].state = "COMPLETED"
  PROVE  /\ \A q \in Reqs : CallOk(q)'
         /\ \A t \in Xfers : /\ xf'[t].num = xf[t].num /\ xf'[t].at = xf[t].at
                             /\ xf'[t].cyclic = xf[t].cyclic
         /\ load.giveup => \A q \in Reqs : Abandoned(q) => Abandoned(q)'
         /\ load.giveup /\ S.xf[<<r, 1>>].state = "FAILED" => Abandoned(r)'
<1> DEFINE t     == <<r, 1>>
           state == S.xf[t].state
<1>1. /\ Sane /\ (\A q \in Reqs : CallOk(q)) /\ RingSuffices /\ HeadGivesUp
      /\ queue # <<>> /\ Head(queue) = t
  BY DEF Driven, Reliable, Heads
<1>2. /\ xf[t].num \in Nat /\ xf[t].num > 0
      /\ r \in load.sync => call[r].pc \in {"queued", "wait", "check"} /\ call[r].done = First(r)
      /\ IsAio(r) => /\ call[r].pc = "flying" /\ First(r) = 0
                     /\ xf[t].num = DescsOf[r] /\ xf[<<r, 2>>].num = 0
      /\ r \in load.sync \/ IsAio(r)
      /\ xf[t].state \in {"SUBMITTED", "ABORTED"}
  <2>1. PICK h \in Reqs :
           /\ Heads(h)
           /\ xf[<<h, 1>>].num \in Nat /\ xf[<<h, 1>>].num > 0
           /\ h \in load.sync => call[h].pc \in {"queued", "wait", "check"} /\ call[h].done = First(h)
           /\ IsAio(h) => call[h].pc = "flying" /\ First(h) = 0
                          /\ xf[<<h, 1>>].num = DescsOf[h] /\ xf[<<h, 2>>].num = 0
           /\ h \in load.sync \/ IsAio(h)
           /\ xf[<<h, 1>>].state \in {"SUBMITTED", "ABORTED"}
    BY <1>1, HeadIs
  <2>2. h = r
    BY <2>1 DEF Heads
  <2> QED BY <2>1, <2>2
<1>3. k = 1 /\ Front(k) = {t}
  <2>1. DOMAIN S.done = 1..k /\ \A i \in 1..k : S.done[i] = queue[i]
    BY ServedFields
  <2>2. DOMAIN S.done = 1..1
    <3>1. <<>> \in Seq(Xfers) /\ t \in Xfers /\ Len(<<>>) = 0
      BY EmptySeq, Pairs
    <3>2. S.done \in Seq(Xfers) /\ Len(S.done) = 1
      BY <3>1, AppendProperties
    <3> QED BY <3>2, LenProperties
  <2>3. k \in Nat
    BY QueuedXfers
  <2>4. k = 1
    BY <2>1, <2>2, <2>3
  <2>5. queue[1] = t
    BY <1>1, QueuedXfers
  <2> QED BY <2>4, <2>5 DEF Front
<1>4. /\ \A u \in Xfers :
           /\ xf'[u].num = xf[u].num /\ xf'[u].at = xf[u].at
           /\ xf'[u].cyclic = xf[u].cyclic
           /\ xf'[u].state = S.xf[u].state
           /\ u \in Front(k) => xf'[u].state \in {"COMPLETED", "FAILED"}
           /\ u \notin Front(k) => xf'[u].state = xf[u].state
      /\ \A q \in Reqs : q \notin Notified(S) => call'[q] = call[q]
      /\ \A q \in Notified(S) :
           /\ q \in Reqs /\ call'[q].pc = "returned" /\ call'[q].left = call[q].left
           /\ call'[q].failed = (Counted(S, q) # DescsOf[q])
           /\ call'[q].res = IF Counted(S, q) = DescsOf[q] THEN "all"
                             ELSE IF Counted(S, q) > 0 THEN "some" ELSE "error"
  BY HandledFields
<1>5. t \in Xfers /\ <<r, 2>> \in Xfers /\ state \in {"COMPLETED", "FAILED"} /\ xf'[t].state = state
      /\ xf'[t].num = xf[t].num
  BY <1>3, <1>4, Pairs
<1>6. \A q : q \in Notified(S) => q = r /\ IsAio(r)
  <2> TAKE q
  <2> HAVE q \in Notified(S)
  <2>1. IsAio(q) /\ (<<q, 1>> \in Front(k) \/ <<q, 2>> \in Front(k))
    BY ToldAre
  <2>2. <<q, 1>> = t \/ <<q, 2>> = t
    BY <1>3, <2>1
  <2>3. q = r
    BY <2>2
  <2> QED BY <2>1, <2>3
<1>7. state = "COMPLETED" => Span(First(r), xf[t].num) \subseteq moved[r]
  BY DEF Walks
<1>8. \A q \in Reqs : q # r => CallOk(q)' /\ (Abandoned(q) => Abandoned(q)')
  <2> TAKE q \in Reqs
  <2> HAVE q # r
  <2>1. <<q, 1>> # t
    OBVIOUS
  <2>2. <<q, 1>> \in Xfers /\ <<q, 1>> \notin Front(k) /\ q \notin Notified(S)
    BY <1>3, <1>6, <2>1, Pairs
  <2>3. /\ xf'[<<q, 1>>].state = xf[<<q, 1>>].state /\ xf'[<<q, 1>>].num = xf[<<q, 1>>].num
        /\ call'[q] = call[q] /\ CallOk(q)
        /\ moved[q] \subseteq moved'[q] /\ moved'[q] \subseteq 1..DescsOf[q]
    BY <1>1, <1>4, <2>2 DEF Sane
  <2> QED BY <2>3, CallOkFrame
<1>9. CASE r \notin Notified(S)
  <2>1. call'[r] = call[r] /\ First(r)' = First(r)
    BY <1>4, <1>5, <1>9 DEF First
  <2>2. r \in load.sync => Account(r)'
    <3> SUFFICES ASSUME r \in load.sync PROVE Account(r)'
      OBVIOUS
    <3>1. Account(r) /\ call[r].pc \in {"queued", "wait", "check"}
      BY <1>1, <1>2 DEF CallOk
    <3> QED BY <1>5, <1>7, <2>1, <3>1 DEF Account
  <2>3. Result(r)'
    BY <1>1, <2>1 DEF CallOk, Result
  <2>4. Faultless(r)'
    BY <1>1, <1>5, <2>1 DEF CallOk, Faultless
  <2>5. CallOk(r)'
    BY <2>2, <2>3, <2>4 DEF CallOk
  <2>6. Abandoned(r) => Abandoned(r)'
    BY <1>2, <2>1 DEF Abandoned
  <2>7. load.giveup /\ state = "FAILED" => Abandoned(r)'
    <3> SUFFICES ASSUME load.giveup, state = "FAILED" PROVE Abandoned(r)'
      OBVIOUS
    <3>1. ~IsAio(r)
      BY <1>1 DEF HeadGivesUp, IsAio
    <3>2. call[r].pc \in {"queued", "wait", "check"}
      BY <1>2, <3>1
    <3> QED BY <1>5, <2>1, <3>2 DEF Abandoned
  <2> QED BY <1>4, <1>8, <2>5, <2>6, <2>7
<1>10. CASE r \in Notified(S)
  <2>1. IsAio(r) /\ r \notin load.sync /\ ~load.giveup
    BY <1>1, <1>6, <1>10, Kinds DEF HeadGivesUp, IsAio
  <2>2. Counted(S, r) = IF state = "COMPLETED" THEN DescsOf[r] ELSE 0
    <3>1. S.xf[t].num = xf[t].num /\ S.xf[<<r, 2>>].num = xf[<<r, 2>>].num
      BY <1>5, ServedFields
    <3>2. S.xf[t].num = DescsOf[r] /\ S.xf[<<r, 2>>].num = 0 /\ DescsOf[r] \in Nat /\ DescsOf[r] > 0
      BY <1>2, <2>1, <3>1, Requests
    <3>3. t \in Reaped(S, r) /\ <<r, 2>> \notin Reaped(S, r)
      <4>1. t[2] # 2 /\ t \in {r} \X {1, 2}
        OBVIOUS
      <4> QED BY <3>2, <4>1 DEF Reaped
    <3>4. Counted(S, r) = (IF t \in Reaped(S, r) /\ state = "COMPLETED" THEN S.xf[t].num ELSE 0)
                          + (IF <<r, 2>> \in Reaped(S, r) /\ S.xf[<<r, 2>>].state = "COMPLETED"
                             THEN S.xf[<<r, 2>>].num ELSE 0)
      BY DEF Counted
    <3>5. Counted(S, r) = (IF state = "COMPLETED" THEN DescsOf[r] ELSE 0) + 0
      BY <3>2, <3>3, <3>4
    <3> QED BY <3>2, <3>5
  <2>3. DescsOf[r] \in Nat /\ DescsOf[r] > 0
    BY Requests
  <2>4. /\ state = "COMPLETED" => call'[r].res = "all" /\ ~call'[r].failed
        /\ state # "COMPLETED" => call'[r].res = "error"
        /\ call'[r].pc = "returned"
    <3>1. CASE state = "COMPLETED"
      <4>1. Counted(S, r) = DescsOf[r]
        BY <2>2, <3>1
      <4> QED BY <1>4, <1>10, <3>1, <4>1
    <3>2. CASE state # "COMPLETED"
      <4>1. Counted(S, r) = 0 /\ 0 # DescsOf[r]
        BY <2>2, <2>3, <3>2
      <4> QED BY <1>4, <1>10, <3>2, <4>1
    <3> QED BY <3>1, <3>2
  <2>5. state = "COMPLETED" => moved[r] = 1..DescsOf[r]
    <3>1. Span(0, DescsOf[r]) = 1..DescsOf[r]
      BY <2>3 DEF Span
    <3>2. moved[r] \subseteq 1..DescsOf[r]
      BY <1>1 DEF Sane
    <3> QED BY <1>2, <1>7, <2>1, <3>1, <3>2
  <2>6. Result(r)'
    <3>1. call'[r].res # "none" /\ (call'[r].res = "all" => state = "COMPLETED")
      BY <2>4
    <3> QED BY <2>4, <2>5, <3>1 DEF Result
  <2>7. Faultless(r)'
    BY <1>5, <2>4 DEF Faultless
  <2>8. CallOk(r)'
    BY <2>1, <2>6, <2>7 DEF CallOk
  <2> QED BY <1>4, <1>8, <2>1, <2>8
<1> QED BY <1>9, <1>10

(* engine_service finds nothing that was carried out.                      *)
LEMMA ServiceQuiet ==
  ASSUME Types, Driven, Reliable, load' = load, moved' = moved, queue' = queue,
         \A r \in Reqs : call'[r] = call[r], \A t \in Xfers : xf'[t] = xf[t],
         eng'.offline = eng.offline, eng'.shutdown = eng.shutdown,
         eng'.status.bits = hw.bits, hw'.run <=> eng'.running,
         eng'.running => eng.running /\ eng'.dequeued = eng.dequeued,
         hw'.busy = hw.busy, hw'.cur = hw.cur, hw'.pos = hw.pos, hw'.count = hw.count,
         hw'.late = hw.late, hw'.bits = {},
         poll' = poll, ~irq'.work,
         hw.cur # NoDesc => eng'.running \/ ~eng.running,
         ~load.giveup => ~hw.busy /\ ~load.poll
  PROVE  Driven'
<1>1. Sane /\ Running /\ Steady /\ Unsteady /\ \A r \in Reqs : CallOk(r)
  BY DEF Driven
<1>2. \A q \in Reqs : <<q, 1>> \in Xfers /\ xf'[<<q, 1>>] = xf[<<q, 1>>]
  BY Pairs
<1>3. \A q \in Reqs : CallOk(q)' /\ (Abandoned(q) <=> Abandoned(q)')
  BY <1>1, <1>2, CallOkFrame DEF Sane
<1>4. Sane'
  BY <1>1 DEF Sane
<1>5. ASSUME NEW r \in Reqs, Heads(r), Walks(r) PROVE Heads(r)' /\ Walks(r)'
  <2>1. First(r)' = First(r)
    BY <1>2 DEF First
  <2>2. \A s : Desc(r, s)' = Desc(r, s)
    BY <1>2, <2>1 DEF Desc
  <2> QED BY <1>2, <1>5, <2>1, <2>2 DEF Heads, Walks
<1>6. Running'
  BY <1>1, <1>5 DEF Running
<1>7. Steady'
  BY <1>1 DEF Steady
<1>8. Unsteady'
  <2> SUFFICES ASSUME load.giveup PROVE Unsteady'
    BY DEF Unsteady
  <2>1. hw.late \subseteq Xfers /\ hw.cur \in DescRecs
    BY DEF Types, HwRecs
  <2>2. \A u \in hw.late : Abandoned(u[1])'
    <3> TAKE u \in hw.late
    <3>1. PICK q \in Reqs : q = u[1]
      BY <2>1, PairOf
    <3>2. Abandoned(q)'
      BY <1>1, <1>3, <3>1 DEF Unsteady
    <3> QED BY <3>1, <3>2
  <2>3. ASSUME hw.cur # NoDesc, ~eng'.running PROVE Abandoned(hw.cur.xfer[1])'
    <3>1. PICK q \in Reqs : q = hw.cur.xfer[1]
      BY <2>1, <2>3, Records, PairOf
    <3>2. Abandoned(q)'
      BY <1>1, <1>3, <2>3, <3>1 DEF Unsteady
    <3>3. hw'.cur.xfer[1] = q
      BY <3>1
    <3> QED BY <3>2, <3>3 DEF Abandoned
  <2> QED BY <1>1, <2>2, <2>3 DEF Unsteady
<1> QED BY <1>3, <1>4, <1>6, <1>7, <1>8 DEF Driven

(* What the work item or the polling thread knows when it serves           *)
LEMMA AtService ==
  ASSUME Types, Driven, Reliable, ServiceWork \/ ServicePoll
  PROVE  \E wb \in WbRecs :
           /\ Handled(Service(E, wb)) /\ UNCHANGED <<load, moved, desc_lock>>
           /\ load.giveup => poll'.pc = "idle"
           /\ ~load.giveup => /\ eng.running /\ ~hw.busy /\ hw.late = {} /\ hw.cur = NoDesc
                              /\ ~irq'.work /\ (load.poll => hw.wb = NoWb)
           /\ \/ /\ wb = NoWb /\ wb.count = 0 /\ ~irq'.work /\ poll' = poll
                 /\ ~load.giveup => ~load.poll /\ poll.pc = "idle" /\ ("err" \notin hw.bits => Over)
              \/ /\ wb.count = hw.count /\ ~wb.err /\ Over
                 /\ load.poll /\ ~load.giveup /\ poll'.pc = "idle"
<1>1. Sane /\ Steady /\ Unsteady
  BY DEF Driven
<1>2. load.giveup \in BOOLEAN /\ load.poll \in BOOLEAN /\ poll \in PollRecs
  BY LoadTypes DEF Types
<1>3. NoWb \in WbRecs /\ NoWb.count = 0
  BY Records DEF NoWb
<1>4. CASE ServiceWork
  <2>1. /\ irq.work /\ Handled(Service(E, NoWb)) /\ ~irq'.work /\ poll' = poll
        /\ UNCHANGED <<load, moved, desc_lock>>
    BY <1>4 DEF ServiceWork
  <2>2. ~load.giveup => /\ ~load.poll /\ hw.bits # {} /\ eng.running /\ ~hw.busy /\ hw.late = {}
                        /\ poll.pc = "idle" /\ ("err" \notin hw.bits => Over)
    BY <1>1, <1>2, <2>1 DEF Steady
  <2>3. ~hw.busy => hw.cur = NoDesc
    BY <1>1 DEF Sane
  <2>4. load.giveup => poll'.pc = "idle"
    BY <1>1, <2>1 DEF Unsteady
  <2> QED BY <1>3, <2>1, <2>2, <2>3, <2>4
<1>5. CASE ServicePoll
  <2>1. /\ poll.pc = "service" /\ Handled(Service(E, poll.wb)) /\ irq' = irq
        /\ UNCHANGED <<load, moved, desc_lock>> /\ poll'.pc = "idle"
    BY <1>2, <1>5 DEF ServicePoll, PollRecs
  <2>2. ~load.giveup /\ load.poll
    BY <1>1, <1>2, <2>1 DEF Unsteady, Steady
  <2>3. /\ poll.wb = [count |-> hw.count, err |-> FALSE] /\ Over /\ hw.wb = NoWb /\ ~irq.work
        /\ hw.late = {}
    BY <1>1, <2>1, <2>2 DEF Steady
  <2>4. PICK wb \in WbRecs : wb = poll.wb
    BY <1>2 DEF PollRecs
  <2>5. wb.count = hw.count /\ ~wb.err
    BY <2>3, <2>4
  <2>6. eng.running /\ ~hw.busy /\ hw.cur = NoDesc
    BY <1>1, <2>3 DEF Over, Sane
  <2> QED BY <2>1, <2>2, <2>3, <2>4, <2>5, <2>6
<1> QED BY <1>4, <1>5

LEMMA ServiceDriven ==
  ASSUME Types, Types', Linked, Owned, Driven, Reliable, ServiceWork \/ ServicePoll
  PROVE  Driven'
<1>1. Sane /\ Running /\ Steady /\ Unsteady /\ \A r \in Reqs : CallOk(r)
  BY DEF Driven
<1>2. PICK wb \in WbRecs :
        /\ Handled(Service(E, wb)) /\ UNCHANGED <<load, moved, desc_lock>>
        /\ load.giveup => poll'.pc = "idle"
        /\ ~load.giveup => /\ eng.running /\ ~hw.busy /\ hw.late = {} /\ hw.cur = NoDesc
                           /\ ~irq'.work /\ (load.poll => hw.wb = NoWb)
        /\ \/ /\ wb = NoWb /\ wb.count = 0 /\ ~irq'.work /\ poll' = poll
              /\ ~load.giveup => ~load.poll /\ poll.pc = "idle" /\ ("err" \notin hw.bits => Over)
           \/ /\ wb.count = hw.count /\ ~wb.err /\ Over
              /\ load.poll /\ ~load.giveup /\ poll'.pc = "idle"
  BY AtService
<1>3. E \in States /\ hw \in HwRecs /\ eng \in EngRecs /\ hw.count \in Nat
      /\ load.giveup \in BOOLEAN /\ load.poll \in BOOLEAN /\ load.errors \in BOOLEAN
  BY StateOfE, LoadTypes DEF Types, HwRecs
<1>4. /\ E.eng = eng /\ E.hw = hw /\ E.queue = queue /\ E.xf = xf /\ E.done = <<>>
  BY DEF E
<1>5. PICK S \in States : S = Service(E, wb)
  BY <1>3, <1>4, ServiceServes
<1>6. ASSUME S.done = <<>>, S.xf = xf, S.queue = queue, ~eng.running \/ hw.count = 0,
             wb.count = 0, S.hw.run <=> S.eng.running,
             S.eng.running => eng.running /\ S.eng.dequeued = eng.dequeued,
             S.eng.offline = eng.offline, S.eng.shutdown = eng.shutdown,
             S.eng.status.bits = hw.bits,
             S.hw.busy = hw.busy, S.hw.cur = hw.cur, S.hw.pos = hw.pos, S.hw.count = hw.count,
             S.hw.late = hw.late, S.hw.bits = {},
             hw.busy => S.eng.running \/ ~eng.running
      PROVE  Driven'
  <2>1. ~irq'.work /\ poll' = poll /\ (~load.giveup => ~hw.busy /\ ~load.poll)
    <3>1. ASSUME wb.count = hw.count, Over PROVE FALSE
      <4>1. PICK r \in Reqs : Heads(r) /\ hw.count = xf[<<r, 1>>].num
        BY <3>1 DEF Over
      <4>2. <<r, 1>> \in Queued
        BY <4>1, QueuedXfers DEF Heads
      <4>3. PICK q \in Reqs : <<r, 1>> = <<q, 1>> /\ xf[<<q, 1>>].num > 0
        BY <4>2, QueuedSize
      <4> QED BY <1>6, <3>1, <4>1, <4>3
    <3> QED BY <1>2, <3>1
  <2>2. hw.cur # NoDesc => hw.busy
    BY <1>1 DEF Sane
  <2>3. /\ \A r \in Reqs : call'[r] = call[r]
        /\ \A t \in Xfers : xf'[t] = xf[t]
        /\ eng' = S.eng /\ queue' = queue /\ hw' = S.hw
    BY <1>2, <1>5, <1>6, HandledNothing
  <2> QED BY <1>2, <1>6, <2>1, <2>2, <2>3, ServiceQuiet
<1>7. CASE ~eng.running
  <2>1. S = StatusRead(E, TRUE)
    BY <1>4, <1>5, <1>7, ServiceIs
  <2> DEFINE st == [bits |-> hw.bits, busy |-> hw.busy]
  <2>2. /\ S.queue = queue /\ S.xf = xf /\ S.done = <<>>
        /\ S.eng = [eng EXCEPT !.status = st]
        /\ S.hw = [hw EXCEPT !.bits = {}]
    BY <1>3, <1>4, <2>1, StatusReadIs
  <2>3. st.bits = hw.bits
    OBVIOUS
  <2> HIDE DEF st
  <2>4. /\ S.eng.running = eng.running /\ S.eng.offline = eng.offline
        /\ S.eng.shutdown = eng.shutdown /\ S.eng.status.bits = hw.bits
        /\ S.hw.busy = hw.busy /\ S.hw.cur = hw.cur /\ S.hw.pos = hw.pos
        /\ S.hw.count = hw.count /\ S.hw.run = hw.run
        /\ S.hw.late = hw.late /\ S.hw.bits = {}
    BY <1>3, <2>2, <2>3 DEF EngRecs, HwRecs
  <2>5. ~hw.run /\ wb.count = 0
    BY <1>1, <1>2, <1>7 DEF Sane, Over
  <2> QED BY <1>6, <1>7, <2>2, <2>4, <2>5
<1>8. CASE eng.running /\ hw.count = 0
  <2>1. wb.count = 0
    BY <1>2, <1>8
  <2> DEFINE A  == ServiceRead(E, wb)
             st == [bits |-> hw.bits, busy |-> hw.busy]
  <2>2. S = ServiceIdle(A, wb)
    BY <1>4, <1>5, <1>8, <2>1, ServiceIs
  <2>3. /\ A \in States /\ A.queue = queue /\ A.xf = xf /\ A.done = <<>>
        /\ A.eng = [eng EXCEPT !.status = st]
        /\ A.hw = [hw EXCEPT !.bits = {}]
    BY <1>3, <1>4, <2>1, ServiceReadIs
  <2>4. st.bits = hw.bits /\ st.busy = hw.busy
    OBVIOUS
  <2> HIDE DEF A, st
  <2>5. /\ A.eng.running = eng.running /\ A.eng.offline = eng.offline
        /\ A.eng.dequeued = eng.dequeued
        /\ A.eng.shutdown = eng.shutdown /\ A.eng.status = st
        /\ A.hw.busy = hw.busy /\ A.hw.cur = hw.cur /\ A.hw.pos = hw.pos
        /\ A.hw.count = hw.count /\ A.hw.run = hw.run
        /\ A.hw.late = hw.late /\ A.hw.bits = {}
    BY <1>3, <2>3 DEF EngRecs, HwRecs
  <2>6. A.eng \in EngRecs /\ A.hw \in HwRecs
    BY <2>3 DEF States
  <2>7. /\ S.queue = queue /\ S.xf = xf /\ S.done = <<>>
        /\ S.eng = IF ~hw.busy THEN [A.eng EXCEPT !.running = FALSE] ELSE A.eng
        /\ S.hw = IF ~hw.busy THEN [A.hw EXCEPT !.run = FALSE] ELSE A.hw
    <3>1. (~A.eng.status.busy \/ wb.count # 0) <=> ~hw.busy
      BY <2>1, <2>4, <2>5
    <3>2. /\ S.queue = A.queue /\ S.xf = A.xf /\ S.done = A.done
          /\ S.eng = IF ~A.eng.status.busy \/ wb.count # 0 THEN [A.eng EXCEPT !.running = FALSE]
                     ELSE A.eng
          /\ S.hw = IF ~A.eng.status.busy \/ wb.count # 0 THEN [A.hw EXCEPT !.run = FALSE]
                    ELSE A.hw
      BY <2>2, <2>3, ServiceIdleIs
    <3> QED BY <2>3, <3>1, <3>2
  <2>8. hw.run
    BY <1>1, <1>8 DEF Sane
  <2>9. /\ S.eng.offline = eng.offline /\ S.eng.dequeued = eng.dequeued
        /\ S.eng.shutdown = eng.shutdown /\ S.eng.status.bits = hw.bits
        /\ S.hw.busy = hw.busy /\ S.hw.cur = hw.cur /\ S.hw.pos = hw.pos
        /\ S.hw.count = hw.count /\ (S.hw.run <=> S.eng.running)
        /\ S.hw.late = hw.late /\ S.hw.bits = {}
        /\ hw.busy => S.eng.running
    <3>1. CASE hw.busy
      BY <1>8, <2>4, <2>5, <2>7, <2>8, <3>1
    <3>2. CASE ~hw.busy
      BY <2>4, <2>5, <2>6, <2>7, <3>2 DEF EngRecs, HwRecs
    <3> QED BY <3>1, <3>2
  <2> QED BY <1>6, <1>8, <2>1, <2>7, <2>9
<1>9. CASE eng.running /\ hw.count # 0
  <2>1. PICK r \in Reqs : Heads(r) /\ Walks(r) /\ eng.dequeued = 0
    BY <1>1, <1>9 DEF Running
  <2>2. queue # <<>> /\ Head(queue) = <<r, 1>> /\ <<r, 1>> \in Xfers
    BY <2>1, Pairs DEF Heads
  <2> DEFINE read  == wb.count = 0 \/ wb.err
             seen  == IF read THEN hw.bits ELSE eng.status.bits
             kept  == IF read THEN {} ELSE hw.bits
             idle  == (IF read THEN ~hw.busy ELSE ~eng.status.busy) \/ wb.count # 0
             num   == xf[<<r, 1>>].num
             state == IF "err" \in seen \/ hw.count < num THEN "FAILED" ELSE "COMPLETED"
  <2>3. hw.count <= num /\ num \in Nat /\ num <= DescMax
    BY <2>1, PlaceIs DEF Walks
  <2>4. /\ S.queue = Tail(queue) /\ S.done = Append(<<>>, <<r, 1>>)
        /\ S.xf = [xf EXCEPT ![<<r, 1>>].state = state]
        /\ S.eng.offline = eng.offline
        /\ Tail(queue) = <<>> =>
                  /\ ~S.eng.running /\ ~S.hw.run /\ S.eng.shutdown = eng.shutdown
                  /\ S.eng.status.bits = seen
                  /\ SameHands(S.hw, hw) /\ S.hw.bits = kept
        /\ Tail(queue) # <<>> /\ idle =>
                  /\ S.eng.running /\ S.eng.dequeued = 0 /\ ~S.eng.shutdown
                  /\ S.eng.status.bits = kept
                  /\ \E h \in HwRecs : /\ SameHands(h, hw) /\ h.bits = kept
                                       /\ S.hw = DeviceStart(h, S.xf[Head(S.queue)].at)
    <3>1. /\ E.eng.running /\ E.eng.dequeued = 0 /\ E.queue # <<>>
          /\ hw.count = (IF wb.count = 0 THEN E.hw.count ELSE wb.count)
          /\ hw.count <= E.xf[Head(E.queue)].num /\ E.xf[Head(E.queue)].num <= DescMax
      BY <1>2, <1>4, <1>9, <2>1, <2>2, <2>3
    <3>2. PICK R \in States : R = E
      BY <1>3
    <3>3. PICK n \in Nat : n = hw.count /\ n # 0
      BY <1>3, <1>9
    <3>4. /\ R.eng = eng /\ R.hw = hw /\ R.queue = queue /\ R.xf = xf /\ R.done = <<>>
          /\ S = Service(R, wb)
      BY <1>4, <1>5, <3>2
    <3>5. /\ R.done = <<>> /\ R.eng.running /\ R.eng.dequeued = 0 /\ R.queue # <<>>
          /\ n = (IF wb.count = 0 THEN R.hw.count ELSE wb.count)
          /\ n <= R.xf[Head(R.queue)].num /\ R.xf[Head(R.queue)].num <= DescMax
      BY <3>1, <3>2, <3>3, <3>4
    <3>6. LET T  == Service(R, wb)
              rd == wb.count = 0 \/ wb.err
              sn == IF rd THEN R.hw.bits ELSE R.eng.status.bits
              kp == IF rd THEN {} ELSE R.hw.bits
              id == (IF rd THEN ~R.hw.busy ELSE ~R.eng.status.busy) \/ wb.count # 0
          IN  /\ T.queue = Tail(R.queue) /\ T.done = Append(<<>>, Head(R.queue))
              /\ T.xf = [R.xf EXCEPT ![Head(R.queue)].state =
                           IF "err" \in sn \/ n < R.xf[Head(R.queue)].num THEN "FAILED"
                           ELSE "COMPLETED"]
              /\ T.eng.offline = R.eng.offline
              /\ Tail(R.queue) = <<>> =>
                   /\ ~T.eng.running /\ ~T.hw.run /\ T.eng.shutdown = R.eng.shutdown
                   /\ T.eng.status.bits = sn
                   /\ SameHands(T.hw, R.hw) /\ T.hw.bits = kp
              /\ Tail(R.queue) # <<>> /\ id =>
                   /\ T.eng.running /\ T.eng.dequeued = 0 /\ ~T.eng.shutdown
                   /\ T.eng.status.bits = kp
                   /\ \E h \in HwRecs : /\ SameHands(h, R.hw) /\ h.bits = kp
                                        /\ T.hw = DeviceStart(h, T.xf[Head(T.queue)].at)
      BY <3>3, <3>5, ServiceOne
    <3> QED BY <2>2, <3>3, <3>4, <3>6
  <2>5. S.xf[<<r, 1>>].state = state
    <3>1. xf \in [Xfers -> XferRecs]
      BY DEF Types
    <3> HIDE DEF state
    <3> QED BY <2>2, <2>4, <3>1 DEF XferRecs
  <2>6. PICK k \in 0..Len(queue) : Served(E, S, k)
    BY <1>3, <1>4, <1>5, ServiceServes
  <2>7. state = "COMPLETED" => hw.count = num
    <3> HIDE DEF num
    <3> QED BY <1>3, <2>3
  <2>8. ~load.errors /\ ~load.giveup => state = "COMPLETED"
    <3> SUFFICES ASSUME ~load.errors, ~load.giveup PROVE state = "COMPLETED"
      OBVIOUS
    <3>1. "err" \notin hw.bits /\ "err" \notin eng.status.bits
      BY <1>1 DEF Sane
    <3>2. "err" \notin seen
      BY <3>1
    <3>3. Over
      BY <1>2, <3>1
    <3>4. hw.count = num
      <4>1. PICK q \in Reqs : Heads(q) /\ hw.count = xf[<<q, 1>>].num
        BY <3>3 DEF Over
      <4>2. q = r
        BY <2>1, <4>1 DEF Heads
      <4> QED BY <4>1, <4>2
    <3>5. ~(hw.count < num)
      <4> HIDE DEF num
      <4> QED BY <2>3, <3>4
    <3> QED BY <3>2, <3>5
  <2> HIDE DEF state, read, idle, kept, seen
  <2>9. Handled(S)
    BY <1>2, <1>5
  <2>10. /\ \A q \in Reqs : CallOk(q)'
         /\ \A t \in Xfers : /\ xf'[t].num = xf[t].num /\ xf'[t].at = xf[t].at
                             /\ xf'[t].cyclic = xf[t].cyclic
         /\ load.giveup => \A q \in Reqs : Abandoned(q) => Abandoned(q)'
         /\ load.giveup /\ state = "FAILED" => Abandoned(r)'
    <3>1. /\ S.xf[<<r, 1>>].state = "COMPLETED" => hw.count = xf[<<r, 1>>].num
          /\ ~load.errors /\ ~load.giveup => S.xf[<<r, 1>>].state = "COMPLETED"
          /\ S.done = Append(<<>>, <<r, 1>>) /\ load' = load /\ moved' = moved
      BY <1>2, <2>4, <2>5, <2>7, <2>8
    <3>2. load.giveup /\ S.xf[<<r, 1>>].state = "FAILED" => Abandoned(r)'
      BY <2>1, <2>6, <2>9, <3>1, HeadDone
    <3>3. /\ \A q \in Reqs : CallOk(q)'
          /\ \A t \in Xfers : /\ xf'[t].num = xf[t].num /\ xf'[t].at = xf[t].at
                              /\ xf'[t].cyclic = xf[t].cyclic
          /\ load.giveup => \A q \in Reqs : Abandoned(q) => Abandoned(q)'
      BY <2>1, <2>6, <2>9, <3>1, HeadDone
    <3> QED BY <2>5, <3>2, <3>3
  <2>11. eng' = S.eng /\ hw' = S.hw /\ queue' = S.queue
    BY <2>9 DEF Handled
  <2>12. \A t \in Xfers : ~xf'[t].cyclic
    BY <1>1, <2>10 DEF Sane
  <2>13. /\ ~load.errors => "err" \notin kept /\ "err" \notin seen
         /\ ~load.giveup /\ ~load.poll => kept = {}
    BY <1>1, <1>2, <1>3 DEF Sane, kept, seen, read
  <2>14. CASE Tail(queue) = <<>>
    <3>1. /\ ~eng'.running /\ ~hw'.run /\ eng'.shutdown = eng.shutdown /\ eng'.offline = eng.offline
          /\ eng'.status.bits = seen /\ hw'.bits = kept
          /\ hw'.busy = hw.busy /\ hw'.cur = hw.cur /\ hw'.late = hw.late /\ hw'.wb = hw.wb
      BY <2>4, <2>11, <2>14 DEF SameHands
    <3>2. Sane' /\ Running'
      BY <1>1, <1>2, <2>12, <2>13, <3>1 DEF Sane, Running
    <3>3. Steady'
      <4> SUFFICES ASSUME ~load.giveup PROVE Steady'
        BY <1>2, <1>3 DEF Steady
      <4>1. /\ ~hw'.busy /\ hw'.late = {} /\ ~irq'.work /\ (load.poll => hw'.wb = NoWb)
            /\ (~load.poll => hw'.bits = {}) /\ poll'.pc = "idle" /\ load' = load
        BY <1>2, <1>3, <2>13, <3>1
      <4> QED BY <1>3, <4>1 DEF Steady
    <3>4. Unsteady'
      <4> SUFFICES ASSUME load.giveup PROVE Unsteady'
        BY <1>2 DEF Unsteady
      <4>1. hw.late \subseteq Xfers /\ hw.cur \in DescRecs
        BY <1>3 DEF HwRecs
      <4>2. \A u \in hw.late : Abandoned(u[1])'
        <5> TAKE u \in hw.late
        <5>1. PICK q \in Reqs : q = u[1]
          BY <4>1, PairOf
        <5>2. Abandoned(q)'
          BY <1>1, <2>10, <5>1 DEF Unsteady
        <5> QED BY <5>1, <5>2
      <4>3. ASSUME hw.cur # NoDesc PROVE Abandoned(hw.cur.xfer[1])'
        <5>1. hw.busy
          BY <1>1, <4>3 DEF Sane
        <5>2. PICK q \in Reqs : Heads(q) /\ hw.count < xf[<<q, 1>>].num /\ hw.cur.xfer = <<q, 1>>
          BY <1>1, <1>9, <4>3, <5>1, WalkedIs
        <5>3. q = r
          BY <2>1, <5>2 DEF Heads
        <5>4. state = "FAILED"
          BY <5>2, <5>3 DEF state
        <5>5. Abandoned(r)' /\ hw'.cur.xfer[1] = r
          BY <2>10, <3>1, <5>2, <5>3, <5>4
        <5> QED BY <5>5 DEF Abandoned
      <4> QED BY <1>2, <3>1, <4>2, <4>3 DEF Unsteady, Abandoned
    <3> QED BY <2>10, <3>2, <3>3, <3>4 DEF Driven
  <2>15. CASE Tail(queue) # <<>>
    <3>1. queue' # <<>> /\ Head(queue') \in Queued
      <4>1. queue \in Seq(Xfers)
        BY DEF Types
      <4>2. /\ Tail(queue) \in Seq(Xfers) /\ Len(Tail(queue)) = Len(queue) - 1
            /\ \A i \in 1..Len(Tail(queue)) : Tail(queue)[i] = queue[i + 1]
        BY <2>2, <4>1, HeadTailProperties
      <4>3. Len(Tail(queue)) \in Nat /\ Len(Tail(queue)) # 0
        BY <2>15, <4>2, EmptySeq, LenProperties
      <4>4. Head(Tail(queue)) = Tail(queue)[1]
        BY <2>15, <4>2, HeadTailProperties
      <4>5. Head(Tail(queue)) = queue[2] /\ 2 \in DOMAIN queue
        BY <4>2, <4>3, <4>4, QueuedXfers
      <4> QED BY <2>4, <2>11, <2>15, <4>5 DEF Queued
    <3>2. PICK q \in Reqs : Head(queue') = <<q, 1>> /\ xf[<<q, 1>>].num > 0
      BY <3>1, QueuedSize
    <3>3. ~load.giveup
      <4> SUFFICES ASSUME load.giveup PROVE FALSE
        OBVIOUS
      <4>1. HeadGivesUp /\ load.aio = <<>>
        BY DEF Reliable, HeadGivesUp
      <4>2. Head(queue) \in Queued
        BY <2>2, QueuedXfers
      <4>3. Head(queue) = Head(queue')
        BY <3>1, <4>1, <4>2, SoleQueued
      <4>4. queue[1] = queue[2] /\ 1 \in DOMAIN queue /\ 2 \in DOMAIN queue
        <5>1. queue \in Seq(Xfers)
          BY DEF Types
        <5>2. /\ Tail(queue) \in Seq(Xfers) /\ Len(Tail(queue)) = Len(queue) - 1
              /\ \A i \in 1..Len(Tail(queue)) : Tail(queue)[i] = queue[i + 1]
          BY <2>2, <5>1, HeadTailProperties
        <5>3. Len(Tail(queue)) \in Nat /\ Len(Tail(queue)) # 0
          BY <2>15, <5>2, EmptySeq, LenProperties
        <5>4. Head(Tail(queue)) = Tail(queue)[1]
          BY <2>15, <5>2, HeadTailProperties
        <5>5. Head(Tail(queue)) = queue[2] /\ 2 \in DOMAIN queue /\ 1 \in DOMAIN queue
          BY <5>2, <5>3, <5>4, QueuedXfers
        <5> QED BY <2>2, <2>4, <2>11, <4>3, <5>5, QueuedXfers
      <4>5. queue[1][2] = 1 /\ queue[2][2] = 2
        BY <4>4 DEF Linked, Lined
      <4> QED BY <4>4, <4>5
    <3>4. idle
      BY <1>2, <3>3 DEF idle, read
    <3>5. PICK h \in HwRecs : /\ SameHands(h, hw) /\ h.bits = kept
                              /\ S.hw = DeviceStart(h, S.xf[Head(S.queue)].at)
      BY <2>4, <2>15, <3>4
    <3>6. <<q, 1>> \in Xfers /\ xf'[<<q, 1>>].num > 0 /\ xf'[<<q, 1>>].at = xf[<<q, 1>>].at
      BY <2>10, <3>2, Pairs
    <3>7. S.xf[<<q, 1>>].at = xf[<<q, 1>>].at
      BY <1>5, <2>6, <3>6, ServedFields
    <3>8. hw' = DeviceStart(h, xf'[<<q, 1>>].at) /\ Heads(q)'
      BY <2>11, <3>1, <3>2, <3>5, <3>6, <3>7 DEF Heads
    <3>9. /\ eng'.running /\ eng'.dequeued = 0 /\ ~eng'.shutdown /\ eng'.status.bits = kept
          /\ ~eng'.offline
      BY <1>1, <2>4, <2>11, <2>15, <3>4 DEF Sane
    <3>10. /\ h.late = {} /\ h.cur = NoDesc /\ ~irq'.work
           /\ ~load.poll => h.bits = {} /\ poll'.pc = "idle"
           /\ load.poll => h.wb = NoWb /\ poll'.pc # "service"
      BY <1>2, <2>13, <3>3, <3>5 DEF SameHands
    <3>11. ~load.errors => "err" \notin h.bits /\ "err" \notin eng'.status.bits
      BY <2>13, <3>5, <3>9
    <3> QED BY <1>1, <1>2, <2>10, <2>12, <3>3, <3>6, <3>8, <3>9, <3>10, <3>11, StartFrame
  <2> QED BY <2>14, <2>15
<1> QED BY <1>7, <1>8, <1>9

(* The steps of the model, while the engine is used within its limits      *)
LEMMA WithinLimits ==
  ASSUME Types, Linked, Owned, Driven, Reliable, [Next]_vars
  PROVE  \/ \E r \in Reqs :
              \/ Enter(r) \/ EnterFails(r) \/ LockDesc(r) \/ Wake(r) \/ GiveUp(r) \/ Return(r)
              \/ WakeThread(r)
              \/ Build(r) \/ AioBuild(r) \/ Submit(r) \/ AioSubmit(r) \/ Check(r)
         \/ AioEnter \/ AioSegment \/ AioSegmentBad \/ AioSegmentLost \/ AioReturn
         \/ UNCHANGED vars
         \/ ServiceWork \/ ServicePoll
         \/ /\ ChannelIrq \/ PollCheck \/ PollPick \/ PollRead \/ PollTimeout \/ HwNext
            /\ UNCHANGED fileVars
<1>1. ~eng.offline /\ ~eng.shutdown /\ load.perf = {} /\ ~load.offline
  BY DEF Driven, Sane, Reliable, HeadGivesUp
<1>2. \A r \in Reqs : ~SubmitRefused(r) /\ ~AioRefused(r)
  BY <1>1 DEF SubmitRefused, AioRefused, Refused
<1>3. ~Offline /\ ~Online
  BY <1>1 DEF Offline, Online
<1>4. \A r \in Reqs :
        ~PerfStart(r) /\ ~PerfStartRefused(r) /\ ~PerfStartFails(r) /\ ~PerfStop(r)
  BY <1>1, Zenon DEF PerfStart, PerfStartRefused, PerfStartFails, PerfStop
<1>5. ASSUME NEW r \in Reqs, AioOverrun(r)
      PROVE  FALSE
  <2>1. /\ IsAio(r) /\ call[r].pc = "build" /\ xf[Current(r)].state # "NEW"
        /\ load.aio # <<>> /\ r \in Makers
    BY <1>5, Kinds DEF AioOverrun, Move, IsAio, Makers
  <2>2. AioLink(r)
    BY <2>1 DEF Linked, Link
  <2>3. call[r].left \in Nat
    BY DEF Types, CallRecs
  <2>4. call[r].left # 0
    BY <2>1, <2>2, <2>3 DEF AioLink
  <2>5. xf[<<r, 1>>].state = "NEW"
    BY <2>1, <2>4, AllocIs DEF Owned, Reliable
  <2> QED BY <2>1, <2>5 DEF Current
<1> QED BY <1>2, <1>3, <1>4, <1>5 DEF Next, CallStep, AioStep

LEMMA DrivenKept ==
  ASSUME Types, Types', Linked, Owned, Driven, [Next]_vars
  PROVE  Driven'
<1>1. load' = load
  BY LoadFixed
<1> SUFFICES ASSUME Reliable PROVE Driven'
  BY <1>1, ReliableKept DEF Driven
<1>2. CASE \E r \in Reqs :
             \/ Enter(r) \/ EnterFails(r) \/ LockDesc(r) \/ Wake(r) \/ GiveUp(r) \/ Return(r)
             \/ WakeThread(r)
             \/ Build(r) \/ AioBuild(r) \/ Submit(r) \/ AioSubmit(r) \/ Check(r)
  <2>1. PICK r \in Reqs :
          \/ Enter(r) \/ EnterFails(r) \/ LockDesc(r) \/ Wake(r) \/ GiveUp(r) \/ Return(r)
          \/ WakeThread(r)
          \/ Build(r) \/ AioBuild(r) \/ Submit(r) \/ AioSubmit(r) \/ Check(r)
    BY <1>2
  <2>2. CASE Check(r)
    BY <2>2, CheckOverDriven, CheckAbortDriven
  <2> QED BY <2>1, <2>2, CallDriven, BuildDriven, SubmitDriven
<1>3. CASE \/ AioEnter \/ AioSegment \/ AioSegmentBad \/ AioSegmentLost \/ AioReturn
           \/ UNCHANGED vars
  BY <1>3, AioDriven
<1>4. CASE ServiceWork \/ ServicePoll
  BY <1>4, ServiceDriven
<1>5. CASE /\ ChannelIrq \/ PollCheck \/ PollPick \/ PollRead \/ PollTimeout \/ HwNext
           /\ UNCHANGED fileVars
  BY <1>5, NoticeDriven, FetchDriven, StopDriven, StepDriven DEF HwNext
<1> QED BY <1>2, <1>3, <1>4, <1>5, WithinLimits

LEMMA DrivenHolds == Spec => [](Types /\ Linked /\ Owned /\ Driven)
<1>1. Init => Types /\ Linked /\ Owned /\ Driven
  BY InitTypes, LinkedStart, OwnedStart, DrivenStart
<1>2. Types /\ Linked /\ Owned /\ Driven /\ [Next]_vars => (Types /\ Linked /\ Owned /\ Driven)'
  BY TypesKept, LinkedKept, OwnedKept, DrivenKept
<1> QED BY <1>1, <1>2, PTL DEF Spec

(* A caller is told that everything was transferred only when the device   *)
(* has carried out every descriptor of its request (engine_service,        *)
(* xdma_xfer_submit, xdma_xfer_completion), however late interrupts come.  *)
THEOREM SuccessIsRealHolds == Spec => []SuccessIsReal
<1>1. Driven => SuccessIsReal
  BY DEF Driven, CallOk, Result, SuccessIsReal
<1> QED BY <1>1, DrivenHolds, PTL

(* Without faults, timeouts and resets no transfer fails, in interrupt and *)
(* in poll mode: engine_service counts every run exactly.                  *)
THEOREM NoFalseFailureHolds == Spec => []NoFalseFailure
<1>1. Driven => NoFalseFailure
  <2> SUFFICES ASSUME Driven, RingSuffices, ~load.errors, ~load.giveup, ~load.offline,
                      load.perf = {}, NEW r \in Reqs \ load.bad, call[r].pc = "returned"
               PROVE  call[r].res = "all"
    BY DEF NoFalseFailure
  <2>1. Reliable
    BY DEF Reliable, HeadGivesUp, PollUndisturbed
  <2> QED BY <2>1 DEF Driven, CallOk, Faultless
<1> QED BY <1>1, DrivenHolds, PTL

(* A request that was given up, or still has its pages                     *)
LEMMA AbandonedIs ==
  ASSUME NEW r \in Reqs, Result(r), Abandoned(r)
  PROVE  call[r].pinned \/ call[r].failed
BY DEF Result, Abandoned

(* The device works only in the pages of a call that has not released them *)
(* yet, unless the call was given up or failed because another one was     *)
(* (xdma_xfer_submit releases them at once).                               *)
THEOREM DeviceInBufferHolds == Spec => []DeviceInBuffer
<1>1. Types /\ Linked /\ Owned /\ Driven => DeviceInBuffer
  <2> SUFFICES ASSUME Types, Linked, Owned, Driven, Reliable,
                      NEW t \in hw.late \cup {hw.cur.xfer}, t # <<>>
               PROVE  call[t[1]].pinned \/ (load.giveup /\ call[t[1]].failed)
    BY DEF DeviceInBuffer
  <2>1. /\ hw.late \subseteq Xfers /\ hw.cur \in DescRecs /\ load.giveup \in BOOLEAN
        /\ hw.busy \in BOOLEAN /\ eng.running \in BOOLEAN
    BY LoadTypes DEF Types, HwRecs, EngRecs
  <2>2. Sane /\ Running /\ Steady /\ Unsteady /\ \A r \in Reqs : CallOk(r)
    BY DEF Driven
  <2>3. \A r \in Reqs : Result(r)
    BY <2>2 DEF CallOk
  <2>4. CASE t \in hw.late
    <3>1. t[1] \in Reqs
      BY <2>1, <2>4, PairOf
    <3>2. load.giveup
      BY <2>1, <2>2, <2>4 DEF Steady
    <3>3. Abandoned(t[1])
      BY <2>2, <2>4, <3>2 DEF Unsteady
    <3> QED BY <2>3, <3>1, <3>2, <3>3, AbandonedIs
  <2>5. CASE t = hw.cur.xfer
    <3>1. hw.cur # NoDesc
      BY <2>5 DEF NoDesc
    <3>2. hw.busy /\ t \in Xfers
      BY <2>1, <2>2, <2>5, <3>1, Records DEF Sane
    <3>3. t[1] \in Reqs
      BY <3>2, PairOf
    <3>4. CASE eng.running
      <4>1. PICK r \in Reqs : Heads(r) /\ hw.cur = Desc(r, hw.pos) /\ Desc(r, hw.pos).xfer = <<r, 1>>
        BY <2>2, <3>1, <3>2, <3>4, WalkedIs
      <4>2. t = <<r, 1>> /\ t[1] = r
        BY <2>5, <4>1
      <4>3. PICK q \in Reqs :
              /\ Heads(q) /\ <<q, 1>> \in Queued /\ Pending(q) /\ q \in Makers
              /\ q \in load.sync => call[q].pc \in {"queued", "wait", "check"}
        BY <2>2, <4>1, HeadIs DEF Heads
      <4>4. q = r
        BY <4>1, <4>3 DEF Heads
      <4>5. call[r].pinned
        BY <2>3, <4>3, <4>4 DEF Result, Pending
      <4> QED BY <4>2, <4>5
    <3>5. CASE ~eng.running
      <4>1. load.giveup
        BY <2>1, <2>2, <3>2, <3>5 DEF Steady
      <4>2. Abandoned(t[1])
        BY <2>2, <2>5, <3>1, <3>5, <4>1 DEF Unsteady
      <4> QED BY <2>3, <3>3, <4>1, <4>2, AbandonedIs
    <3> QED BY <2>1, <3>4, <3>5
  <2> QED BY <2>4, <2>5
<1> QED BY <1>1, DrivenHolds, PTL

-----------------------------------------------------------------------------
(* The promise of TransferService                                          *)

(* Its variables, as XdmaTransfers maps them                               *)
Stage(r) == CASE call[r].pc = "idle"     -> "idle"
              [] call[r].pc = "returned" -> "answered"
              [] OTHER                   -> "pending"

Status  == IF Reliable THEN [r \in Reqs |-> Stage(r)] ELSE [r \in Reqs |-> "idle"]
Answers == [r \in Reqs |-> IF Reliable THEN call[r].res ELSE "none"]
Works   == [r \in Reqs |-> IF Reliable THEN moved[r] ELSE {}]

(* A step that leaves every call and what was moved alone, or outside the  *)
(* limits                                                                  *)
LEMMA PromiseStutters ==
  ASSUME load' = load,
         Reliable => \A q \in Reqs : /\ Stage(q)' = Stage(q)
                                     /\ call'[q].res = call[q].res /\ moved'[q] = moved[q]
  PROVE  UNCHANGED Promised!serviceVars
<1>1. Reliable' <=> Reliable
  BY ReliableKept
<1>2. Status' = Status /\ Answers' = Answers /\ Works' = Works
  BY <1>1 DEF Status, Answers, Works
<1> QED BY <1>2 DEF Promised!serviceVars, Status, Answers, Works, Stage

(* A step of one call                                                      *)
LEMMA PromiseCall ==
  ASSUME Types, Types', Reliable, load' = load, \A q \in Reqs : Result(q) /\ Result(q)',
         moved' = moved, NEW r \in Reqs, \A q \in Reqs \ {r} : call'[q] = call[q],
         call[r].pc # "returned", call'[r].pc = "idle" => call[r].pc = "idle"
  PROVE  Promised!ServiceNext \/ UNCHANGED Promised!serviceVars
<1>1. Reliable'
  BY ReliableKept
<1>2. /\ Status = [q \in Reqs |-> Stage(q)] /\ Status' = [q \in Reqs |-> Stage(q)']
      /\ Answers = [q \in Reqs |-> call[q].res] /\ Answers' = [q \in Reqs |-> call'[q].res]
      /\ Works = [q \in Reqs |-> moved[q]] /\ Works' = [q \in Reqs |-> moved'[q]]
  BY <1>1 DEF Status, Answers, Works
<1>3. \A q \in Reqs \ {r} : Stage(q)' = Stage(q) /\ call'[q].res = call[q].res
  BY DEF Stage
<1>4. Works' = Works
  BY <1>2
<1>5. call[r].res = "none" /\ Stage(r) # "answered"
  BY DEF Result, Stage
<1>6. CASE call'[r].pc = "returned"
  <2>1. PICK a \in {"all", "some", "error"} : a = call'[r].res
    <3>1. call'[r].res \in {"none", "all", "some", "error"}
      BY DEF Types, CallRecs
    <3> QED BY <1>6, <3>1 DEF Result
  <2>2. a = "all" => Works[r] = 1..DescsOf[r]
    <3>1. a = "all" => moved'[r] = 1..DescsOf[r]
      BY <2>1 DEF Result
    <3> QED BY <1>2, <3>1
  <2>3. Stage(r)' = "answered"
    BY <1>6 DEF Stage
  <2>4. Status' = [Status EXCEPT ![r] = "answered"]
    BY <1>2, <1>3, <2>3
  <2>5. Answers' = [Answers EXCEPT ![r] = a]
    BY <1>2, <1>3, <2>1
  <2>6. Status[r] # "answered"
    BY <1>2, <1>5
  <2>7. Promised!Answer(r, a)
    BY <1>4, <2>2, <2>4, <2>5, <2>6 DEF Promised!Answer, Status, Answers, Works, Stage
  <2> QED BY <2>7 DEF Promised!ServiceNext
<1>7. CASE call'[r].pc # "returned"
  <2>1. call'[r].res = "none"
    BY <1>7 DEF Result
  <2>2. Answers' = Answers
    BY <1>2, <1>3, <1>5, <2>1
  <2>3. CASE Stage(r)' = Stage(r)
    <3>1. \A q \in Reqs : Stage(q)' = Stage(q) /\ call'[q].res = call[q].res
      BY <1>3, <1>5, <2>1, <2>3
    <3> QED BY <3>1, PromiseStutters
  <2>4. CASE Stage(r)' # Stage(r)
    <3>1. Stage(r) = "idle" /\ Stage(r)' = "pending"
      BY <1>7, <2>4 DEF Stage
    <3>2. Status[r] = "idle" /\ Status' = [Status EXCEPT ![r] = "pending"]
      BY <1>2, <1>3, <3>1
    <3>3. Promised!Accept(r)
      BY <1>4, <2>2, <3>2 DEF Promised!Accept, Status, Answers, Works, Stage
    <3> QED BY <3>3 DEF Promised!ServiceNext
  <2> QED BY <2>3, <2>4
<1> QED BY <1>6, <1>7

(* A step of the device                                                    *)
LEMMA PromiseWork ==
  ASSUME Types, Linked, Owned, Driven, Reliable, HwStep, UNCHANGED fileVars
  PROVE  Promised!ServiceNext
<1>1. /\ Sane /\ Running /\ Steady /\ Unsteady /\ \A q \in Reqs : CallOk(q)
      /\ hw.cur \in DescRecs /\ hw.cur # NoDesc /\ hw.busy /\ load.giveup \in BOOLEAN
      /\ eng.running \in BOOLEAN
  BY LoadTypes DEF Driven, HwStep, Types, HwRecs, EngRecs
<1>2. PICK d \in DescRecs : d = hw.cur
  BY <1>1
<1>3. d.xfer \in Xfers /\ d.no \in 1..DescsOf[d.xfer[1]] /\ ~xf[d.xfer].cyclic
  BY <1>1, <1>2, Records DEF Sane
<1>4. PICK r \in Reqs : r = d.xfer[1]
  BY <1>3, PairOf
<1>5. /\ moved' = [moved EXCEPT ![r] = @ \cup {d.no}] /\ UNCHANGED <<load, call>>
  BY <1>2, <1>3, <1>4 DEF HwStep, fileVars
<1>6. Reliable'
  BY <1>5, ReliableKept
<1>7. Stage(r) = "pending" \/ call[r].res \in {"some", "error"}
  <2>1. Result(r) /\ call[r] \in CallRecs
    BY <1>1 DEF CallOk, Types
  <2>2. CASE eng.running
    <3>1. PICK q \in Reqs : Heads(q) /\ hw.cur = Desc(q, hw.pos) /\ Desc(q, hw.pos).xfer = <<q, 1>>
      BY <1>1, <2>2, WalkedIs
    <3>2. q = r
      BY <1>2, <1>4, <3>1
    <3>3. PICK h \in Reqs : Heads(h) /\ Pending(h)
      BY <1>1, <3>1, HeadIs DEF Heads
    <3>4. h = r
      BY <3>1, <3>2, <3>3 DEF Heads
    <3> QED BY <3>3, <3>4 DEF Pending, Stage
  <2>3. CASE ~eng.running
    <3>1. load.giveup
      BY <1>1, <2>3 DEF Steady
    <3>2. Abandoned(hw.cur.xfer[1])
      BY <1>1, <2>3, <3>1 DEF Unsteady
    <3>3. Abandoned(r)
      BY <1>2, <1>4, <3>2
    <3>4. CASE call[r].pc = "returned"
      <4>1. call[r].failed
        BY <3>3, <3>4 DEF Abandoned
      <4> QED BY <2>1, <3>4, <4>1 DEF Result, CallRecs
    <3>5. CASE call[r].pc # "returned"
      BY <2>1, <3>3, <3>5 DEF Abandoned, Result, Stage
    <3> QED BY <3>4, <3>5
  <2> QED BY <1>1, <2>2, <2>3
<1>8. /\ Status' = Status /\ Answers' = Answers
      /\ Status[r] = Stage(r) /\ Answers[r] = call[r].res
  BY <1>5, <1>6 DEF Status, Answers, Stage
<1>9. Works' = [Works EXCEPT ![r] = @ \cup {d.no}]
  <2>1. moved \in [Reqs -> SUBSET Nat]
    BY DEF Types
  <2>2. Works = [q \in Reqs |-> moved[q]] /\ Works' = [q \in Reqs |-> moved'[q]]
    BY <1>6 DEF Works
  <2>3. Works = moved /\ Works' = moved'
    BY <1>5, <2>1, <2>2
  <2> QED BY <1>5, <2>3
<1>10. d.no \in 1..DescsOf[r]
  BY <1>3, <1>4
<1>11. Promised!Work(r)
  BY <1>7, <1>8, <1>9, <1>10 DEF Promised!Work, Status, Answers, Works, Stage
<1> QED BY <1>11 DEF Promised!ServiceNext

(* engine_service tells at most one request, that of the head of the queue *)
LEMMA OneTold ==
  ASSUME Types, Types', Linked, Owned, Driven, Reliable, ServiceWork \/ ServicePoll
  PROVE  /\ moved' = moved
         /\ \/ \A q \in Reqs : call'[q] = call[q]
            \/ \E r \in Reqs : /\ call[r].pc = "flying" /\ call'[r].pc = "returned"
                               /\ \A q \in Reqs \ {r} : call'[q] = call[q]
<1>1. Running /\ load' = load
  BY DEF Driven, ServiceWork, ServicePoll
<1>2. PICK wb \in WbRecs :
        /\ Handled(Service(E, wb)) /\ UNCHANGED <<load, moved, desc_lock>>
        /\ wb.count = 0 \/ (wb.count = hw.count /\ eng.running)
  BY AtService DEF Over
<1>3. E \in States /\ hw.count \in Nat
  BY StateOfE DEF Types, HwRecs
<1>4. /\ E.eng = eng /\ E.hw = hw /\ E.queue = queue /\ E.xf = xf /\ E.done = <<>>
  BY DEF E
<1>5. PICK S \in States : S = Service(E, wb)
  BY <1>3, <1>4, ServiceServes
<1>6. ASSUME S.done = <<>>, S.xf = xf
      PROVE  \A q \in Reqs : call'[q] = call[q]
  BY <1>2, <1>5, <1>6, HandledNothing
<1>7. CASE ~eng.running
  <2>1. S = StatusRead(E, TRUE)
    BY <1>4, <1>5, <1>7, ServiceIs
  <2>2. S.xf = xf /\ S.done = <<>>
    BY <1>3, <1>4, <2>1, StatusReadIs
  <2> QED BY <1>2, <1>6, <2>2
<1>8. CASE eng.running /\ hw.count = 0
  <2> DEFINE A == ServiceRead(E, wb)
  <2>1. S = ServiceIdle(A, wb)
    BY <1>2, <1>4, <1>5, <1>8, ServiceIs
  <2>2. A \in States /\ A.xf = xf /\ A.done = <<>>
    BY <1>3, <1>4, ServiceReadIs
  <2> HIDE DEF A
  <2>3. S.xf = xf /\ S.done = <<>>
    BY <2>1, <2>2, ServiceIdleIs
  <2> QED BY <1>2, <1>6, <2>3
<1>9. CASE eng.running /\ hw.count # 0
  <2>1. PICK r \in Reqs : Heads(r) /\ Walks(r) /\ eng.dequeued = 0
    BY <1>1, <1>9 DEF Running
  <2>2. queue # <<>> /\ Head(queue) = <<r, 1>> /\ <<r, 1>> \in Xfers
    BY <2>1, Pairs DEF Heads
  <2>3. hw.count <= xf[<<r, 1>>].num /\ xf[<<r, 1>>].num \in Nat /\ xf[<<r, 1>>].num <= DescMax
    BY <2>1, PlaceIs DEF Walks
  <2>4. S.done = Append(<<>>, <<r, 1>>)
    <3>1. PICK n \in Nat : n = hw.count /\ n # 0
      BY <1>3, <1>9
    <3>2. PICK R \in States : R = E
      BY <1>3
    <3>3. /\ R.done = <<>> /\ R.eng.running /\ R.eng.dequeued = 0 /\ R.queue # <<>>
          /\ n = (IF wb.count = 0 THEN R.hw.count ELSE wb.count)
          /\ n <= R.xf[Head(R.queue)].num /\ R.xf[Head(R.queue)].num <= DescMax
      BY <1>2, <1>4, <1>9, <2>1, <2>2, <2>3, <3>1, <3>2
    <3>4. Service(R, wb).done = Append(<<>>, Head(R.queue))
      BY <3>1, <3>3, ServiceOne
    <3> QED BY <1>4, <1>5, <2>2, <3>2, <3>4
  <2>5. PICK k \in 0..Len(queue) : Served(E, S, k)
    BY <1>3, <1>4, <1>5, ServiceServes
  <2>6. Notified(S) \subseteq {r}
    <3>1. <<>> \in Seq(Xfers) /\ Len(<<>>) = 0
      BY EmptySeq
    <3>2. S.done \in Seq(Xfers) /\ Len(S.done) = 1 /\ S.done[1] = <<r, 1>>
      BY <2>2, <2>4, <3>1, AppendProperties
    <3>3. DOMAIN S.done = {1}
      BY <3>2, LenProperties
    <3>4. \A i \in DOMAIN S.done : S.done[i][1] = r
      BY <3>2, <3>3
    <3> QED BY <3>4 DEF Notified
  <2>7. /\ \A q \in Reqs : q \notin Notified(S) => call'[q] = call[q]
        /\ \A q \in Notified(S) : call'[q].pc = "returned"
    BY <1>2, <1>5, <2>5, HandledFields
  <2>8. \A q \in Notified(S) : call[q].pc = "flying"
    BY <1>1, <1>2, <1>5, <2>5, HandledLinked
  <2> QED BY <1>2, <2>6, <2>7, <2>8
<1> QED BY <1>7, <1>8, <1>9

LEMMA PromiseKept ==
  ASSUME Types, Types', Linked, Owned, Driven, Driven', [Next]_vars
  PROVE  Promised!ServiceNext \/ UNCHANGED Promised!serviceVars
<1>1. load' = load
  BY LoadFixed
<1>2. CASE ~Reliable
  BY <1>1, <1>2, PromiseStutters
<1>3. CASE Reliable
  <2>1. Reliable' /\ \A q \in Reqs : Result(q) /\ Result(q)'
    BY <1>1, <1>3, ReliableKept DEF Driven, CallOk
  <2>2. call \in [Reqs -> CallRecs]
    BY DEF Types
  <2>3. ASSUME UNCHANGED <<call, moved>>
        PROVE  UNCHANGED Promised!serviceVars
    <3>1. \A q \in Reqs : Stage(q)' = Stage(q) /\ call'[q].res = call[q].res
      BY <2>3 DEF Stage
    <3> QED BY <1>1, <2>3, <3>1, PromiseStutters
  <2>4. CASE \E r \in Reqs :
               \/ Enter(r) \/ EnterFails(r) \/ LockDesc(r) \/ Wake(r) \/ GiveUp(r) \/ Return(r)
               \/ WakeThread(r)
               \/ Build(r) \/ AioBuild(r) \/ Submit(r) \/ AioSubmit(r) \/ Check(r)
    <3>1. PICK r \in Reqs :
            \/ Enter(r) \/ EnterFails(r) \/ LockDesc(r) \/ Wake(r) \/ GiveUp(r) \/ Return(r)
            \/ WakeThread(r)
            \/ Build(r) \/ AioBuild(r) \/ Submit(r) \/ AioSubmit(r) \/ Check(r)
      BY <2>4
    <3>2. /\ moved' = moved /\ \A q \in Reqs \ {r} : call'[q] = call[q]
          /\ call[r].pc # "returned" /\ call'[r].pc # "idle"
      <4>1. CASE Enter(r) \/ EnterFails(r) \/ LockDesc(r) \/ WakeThread(r) \/ Wake(r) \/ GiveUp(r)
        BY <2>2, <4>1 DEF Enter, EnterFails, LockDesc, WakeThread, Wake, GiveUp, Move, engineVars,
           CallRecs
      <4>2. CASE Return(r)
        BY <2>2, <4>2 DEF Return, CallRecs
      <4>3. CASE Build(r) \/ AioBuild(r)
        BY <2>2, <4>3 DEF Build, AioBuild, TransferInit, CallRecs
      <4>4. CASE Submit(r) \/ AioSubmit(r)
        BY <2>2, <4>4 DEF Submit, AioSubmit, CallRecs
      <4>5. CASE Check(r)
        BY <2>2, <4>5 DEF Check, CallRecs
      <4> QED BY <3>1, <4>1, <4>2, <4>3, <4>4, <4>5
    <3> QED BY <1>1, <1>3, <2>1, <3>2, PromiseCall
  <2>5. CASE AioSegment
    <3>1. PICK r \in Reqs : r = load.aio[caio.next]
      BY <2>5, SegmentIs DEF AioSegment
    <3>2. /\ call[r].pc = "idle" /\ moved' = moved
          /\ call' = [call EXCEPT ![r].pc = "build", ![r].pinned = TRUE]
      BY <2>5, <3>1 DEF AioSegment, engineVars
    <3>3. \A q \in Reqs \ {r} : call'[q] = call[q]
      BY <2>2, <3>2
    <3> QED BY <1>1, <1>3, <2>1, <3>2, <3>3, PromiseCall
  <2>9. CASE AioSegmentLost
    <3>1. PICK r \in Reqs : r = load.aio[caio.next]
      BY <2>9, SegmentIs DEF AioSegmentLost
    <3>2. /\ call[r].pc = "idle" /\ moved' = moved
          /\ call' = [call EXCEPT ![r].pc = "lost", ![r].pinned = TRUE]
      BY <2>9, <3>1 DEF AioSegmentLost, engineVars
    <3>3. \A q \in Reqs \ {r} : call'[q] = call[q]
      BY <2>2, <3>2
    <3> QED BY <1>1, <1>3, <2>1, <3>2, <3>3, PromiseCall
  <2>6. CASE ServiceWork \/ ServicePoll
    <3>1. /\ moved' = moved
          /\ \/ \A q \in Reqs : call'[q] = call[q]
             \/ \E r \in Reqs : /\ call[r].pc = "flying" /\ call'[r].pc = "returned"
                                /\ \A q \in Reqs \ {r} : call'[q] = call[q]
      BY <1>3, <2>6, OneTold
    <3>2. CASE \A q \in Reqs : call'[q] = call[q]
      <4>1. \A q \in Reqs : Stage(q)' = Stage(q) /\ call'[q].res = call[q].res
        BY <3>2 DEF Stage
      <4> QED BY <1>1, <3>1, <4>1, PromiseStutters
    <3>3. CASE \E r \in Reqs : /\ call[r].pc = "flying" /\ call'[r].pc = "returned"
                               /\ \A q \in Reqs \ {r} : call'[q] = call[q]
      <4>1. PICK r \in Reqs : /\ call[r].pc = "flying" /\ call'[r].pc = "returned"
                              /\ \A q \in Reqs \ {r} : call'[q] = call[q]
        BY <3>3
      <4>2. call[r].pc # "returned" /\ call'[r].pc # "idle"
        BY <4>1
      <4> QED BY <1>1, <1>3, <2>1, <3>1, <4>1, <4>2, PromiseCall
    <3> QED BY <3>1, <3>2, <3>3
  <2>7. CASE HwStep /\ UNCHANGED fileVars
    BY <1>3, <2>7, PromiseWork
  <2>8. CASE \/ AioEnter \/ AioSegmentBad \/ AioReturn \/ UNCHANGED vars
             \/ /\ \/ ChannelIrq \/ PollCheck \/ PollPick \/ PollRead \/ PollTimeout
                   \/ HwFetch \/ HwRest \/ HwError \/ HwLate
                /\ UNCHANGED fileVars
    <3>1. UNCHANGED <<call, moved>>
      BY <2>8 DEF AioEnter, AioSegmentBad, AioReturn, ChannelIrq, PollCheck, PollPick, PollRead,
             PollTimeout, HwFetch, HwRest, HwError, HwLate, fileVars, vars, engineVars
    <3> QED BY <2>3, <3>1
  <2> QED BY <1>3, <2>4, <2>5, <2>6, <2>7, <2>8, <2>9, WithinLimits DEF HwNext
<1> QED BY <1>2, <1>3

(* The engine and its callers (libxdma.c, cdev_sgdma.c) keep the promise   *)
(* of TransferService: a request is answered once, with success only when  *)
(* the device has carried out all of it, and the device works on nothing   *)
(* that was not accepted or was answered as done.                          *)
THEOREM PromiseHolds == Spec => Promise
<1>1. Init => Promised!ServiceInit
  <2> SUFFICES ASSUME Init PROVE Promised!ServiceInit
    OBVIOUS
  <2>1. \A r \in Reqs : Stage(r) = "idle" /\ call[r].res = "none" /\ moved[r] = {}
    BY DEF Init, FileInit, EngineInit, Stage
  <2>2. /\ Status = [r \in Reqs |-> "idle"] /\ Answers = [r \in Reqs |-> "none"]
        /\ Works = [r \in Reqs |-> {}]
    BY <2>1 DEF Status, Answers, Works
  <2> QED BY <2>2 DEF Promised!ServiceInit, Status, Answers, Works, Stage
<1>2. /\ Types /\ Types' /\ Linked /\ Owned /\ Driven /\ Driven' /\ [Next]_vars
      => [Promised!ServiceNext]_(Promised!serviceVars)
  BY PromiseKept
<1> QED BY <1>1, <1>2, DrivenHolds, PTL DEF Spec, Promise, Promised!ServiceSpec
=============================================================================
