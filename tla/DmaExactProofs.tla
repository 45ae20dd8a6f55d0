---------------------------- MODULE DmaExactProofs ----------------------------
(***************************************************************************)
(* What a call of the way of a DMA moves: every byte goes where it         *)
(* belongs, for every buffer, memory and size of the ring.  The invariant  *)
(* is Progress (DmaPathProofs): while the descriptors of a call are built  *)
(* and run it has moved exactly the bytes in front of the next descriptor. *)
(*                                                                         *)
(* And the references a call holds while it does: the invariant is Pins,   *)
(* that the bags of references cover the lists of the calls in progress    *)
(* and, unless some were lost, hold nothing else.                          *)
(***************************************************************************)
EXTENDS DmaPathProofs

-----------------------------------------------------------------------------
(* The lists of a call in the queue                                        *)

ProgInv(p, c) == FreshInv(c) /\ BuildInv(p, c) /\ EndInv(p, c)

LEMMA SameCard ==
  ASSUME NEW p, NEW c, NEW d, d.req = c.req, d.mode = c.mode
  PROVE  /\ IsAperture(p, d) <=> IsAperture(p, c)
         /\ IsFix(p, d) = IsFix(p, c) /\ CardOf(p, d) = CardOf(p, c)
         /\ Meaningful(p, d) <=> Meaningful(p, c)
         /\ \A n : MovedBy(p, d, n) = MovedBy(p, c, n)
         /\ ByteOf(p, d.req) = ByteOf(p, c.req)
<1>1. IsAperture(p, d) = IsAperture(p, c)
  BY Zenon DEF IsAperture
<1>2. IsFix(p, d) = IsFix(p, c) /\ (Meaningful(p, d) <=> Meaningful(p, c))
  BY <1>1, Zenon DEF IsFix, Meaningful
<1>3. CardOf(p, d) = CardOf(p, c)
  BY <1>1, <1>2, Zenon DEF CardOf
<1>4. \A n : MovedBy(p, d, n) = MovedBy(p, c, n)
  BY <1>3, Zenon DEF MovedBy
<1> QED BY <1>1, <1>2, <1>3, <1>4, Zenon

LEMMA ProgressOne ==
  ASSUME Progress, NEW p \in Procs, Alone(p), ProgInv(p, call'[p])
  PROVE  Progress'
<1>1. ASSUME NEW q \in Procs
      PROVE  FreshInv(call'[q]) /\ BuildInv(q, call'[q]) /\ EndInv(q, call'[q])
  <2>1. CASE q = p
    BY <2>1, Zenon DEF ProgInv
  <2>2. CASE q # p
    <3>1. call'[q] = call[q]
      BY <2>2, Zenon DEF Alone
    <3> QED BY <3>1, Zenon DEF Progress
  <2> QED BY <2>1, <2>2
<1> QED BY <1>1, Zenon DEF Progress

LEMMA NoBytes == Total(<<>>) = 0 /\ Upto(<<>>)[0] = 0
<1> DEFINE none == <<>>
<1>1. none \in Seq(CardDescs) /\ Len(none) = 0
  OBVIOUS
<1> HIDE DEF none
<1>2. Measured(none) /\ Upto(none)[0] = Total(none) /\ Counts(none, Upto(none))
  BY <1>1, DescsMeasured, UptoFacts
<1>3. Total(none) = 0 /\ Upto(none)[0] = 0
  BY <1>2, Zenon DEF Counts
<1> QED BY <1>3 DEF none

LEMMA QueueLaid ==
  ASSUME PathTypes, Lists, NEW p \in Procs, call[p].pc \in Queued
  PROVE  /\ call[p].segs \in Seq(Spans)
         /\ LaidExactly(call[p].segs, call[p].req, ByteOf(p, call[p].req))
         /\ ~IsAperture(p, call[p]) =>
              /\ call[p].sdescs \in Seq(DescSpans)
              /\ LaidExactly(call[p].sdescs, call[p].req, ByteOf(p, call[p].req))
<1> DEFINE c == call[p]
           r == c.req
           segs == MapSg(BufferFrames(p, r), sit.merge)
<1>1. RequestOK(p, r)
  BY CallTyped
<1>2. ListInv(p, c, sit.merge)
  BY DEF Lists
<1>3. c.pc \in Framed
  BY DEF Queued, Framed
<1>4. c.frames = BufferFrames(p, r) /\ Present(p, r) /\ Known(p, r)
  BY <1>2, <1>3, Zenon DEF ListInv, FramesInv
<1>5. c.segs = segs /\ c.sdescs = IF IsAperture(p, c) THEN <<>> ELSE InitRequest(c.segs)
  BY <1>2, <1>4, Zenon DEF ListInv, QueueInv
<1>6. /\ segs \in Seq(Spans) /\ LaidExactly(segs, r, ByteOf(p, r))
      /\ InitRequest(segs) \in Seq(DescSpans)
      /\ LaidExactly(InitRequest(segs), r, ByteOf(p, r))
  BY <1>1, <1>4, BufferLaid
<1> HIDE DEF segs
<1> QED BY <1>5, <1>6, Zenon

\* What has been built never exceeds the request.
LEMMA SoFarInside ==
  ASSUME PathTypes, Lists, NEW p \in Procs, call[p].pc \in Busy, ~call[p].strayed,
         BuildInv(p, call[p])
  PROVE  /\ SoFar(p, call[p]) \in Nat /\ SoFar(p, call[p]) <= call[p].req.len
         /\ call[p].done \in Nat /\ Total(call[p].xfer) \in Nat /\ call[p].req.len \in Nat
         /\ call[p].done + Total(call[p].xfer) = SoFar(p, call[p])
<1> DEFINE c == call[p]
           len == c.req.len
<1>1. c \in Calls /\ len \in Nat
  BY CallTyped, RequestFields
<1>2. c.done \in Nat /\ Total(c.xfer) \in Nat
  <2>1. c.done \in Nat /\ c.xfer \in Seq(RingDescs)
    BY <1>1 DEF Calls
  <2> QED BY <2>1, RingMeasured
<1>3. c.done + Total(c.xfer) = SoFar(p, c)
  BY Zenon DEF BuildInv
<1>4. c.pc \in Queued
  BY DEF Busy, Queued
<1>5. CASE IsAperture(p, c)
  <2>1. Total(c.segs) = len
    BY <1>4, QueueLaid, Zenon DEF LaidExactly
  <2>2. SoFar(p, c) = c.offset /\ c.offset <= Total(c.segs)
    BY <1>5, Zenon DEF BuildInv, SoFar
  <2>3. c.offset \in Nat
    BY <1>1 DEF Calls
  <2> QED BY <1>1, <1>2, <1>3, <2>1, <2>2, <2>3
<1>6. CASE ~IsAperture(p, c)
  <2> DEFINE s == c.sdescs
             a == c.at
  <2>1. s \in Seq(DescSpans) /\ Total(s) = len
    BY <1>4, <1>6, QueueLaid, Zenon DEF LaidExactly
  <2>2. SoFar(p, c) = Upto(s)[a] /\ a <= Len(s)
    BY <1>6, Zenon DEF BuildInv, SoFar
  <2>3. a \in Nat
    BY <1>1 DEF Calls
  <2> HIDE DEF s, a
  <2>4. a \in 0..Len(s)
    BY <2>1, <2>2, <2>3
  <2>5. Upto(s)[a] \in Nat /\ Upto(s)[a] <= Total(s)
    BY <2>1, <2>4, DescsMeasured, UptoFacts
  <2> QED BY <1>1, <1>2, <1>3, <2>1, <2>2, <2>5
<1> QED BY <1>5, <1>6

\* Descriptors in the ring carry what they were built to carry.
LEMMA LinkedCarries ==
  ASSUME NEW descs \in Seq(CardDescs), NEW first, NEW x, IsLinked(x, descs, first)
  PROVE  /\ Total(x) = Total(descs)
         /\ \A d, fix, byte, card :
              Carries(descs, d, fix, byte, card) => Carries(x, d, fix, byte, card)
<1>1. /\ Len(x) = Len(descs)
      /\ \A i \in 1..Len(descs) : /\ x[i].addr = descs[i].addr /\ x[i].ep = descs[i].ep
                                  /\ x[i].len = descs[i].len
  BY Zenon DEF IsLinked
<1>2. Upto(x) = Upto(descs) /\ Total(x) = Total(descs)
  BY <1>1, DescsMeasured, SameLengths
<1>3. ASSUME NEW d, NEW fix, NEW byte, NEW card, Carries(descs, d, fix, byte, card)
      PROVE  Carries(x, d, fix, byte, card)
  <2>1. ASSUME NEW i \in 1..Len(x), NEW b \in 0..x[i].len - 1
        PROVE  /\ x[i].addr + b = byte[d + Upto(x)[i - 1] + b]
               /\ OnCard(x[i], b, fix) = card[d + Upto(x)[i - 1] + b]
    <3>1. i \in 1..Len(descs) /\ b \in 0..descs[i].len - 1
      BY <1>1, Zenon
    <3>2. /\ descs[i].addr + b = byte[d + Upto(descs)[i - 1] + b]
          /\ OnCard(descs[i], b, fix) = card[d + Upto(descs)[i - 1] + b]
      BY <1>3, <3>1, Zenon DEF Carries
    <3>3. OnCard(x[i], b, fix) = OnCard(descs[i], b, fix)
      BY <1>1, <3>1, Zenon DEF OnCard
    <3> QED BY <1>1, <1>2, <3>1, <3>2, <3>3, Zenon
  <2> QED BY <2>1, Zenon DEF Carries
<1> QED BY <1>2, <1>3, Zenon

-----------------------------------------------------------------------------
(* Steps before the descriptors and after them                             *)

LEMMA StagesApart ==
  /\ Fresh \cap Busy = {} /\ Fresh \cap Ending = {} /\ Busy \cap Ending = {}
BY DEF Fresh, Busy, Ending

LEMMA MovedNone ==
  ASSUME NEW p, NEW c
  PROVE  MovedBy(p, c, 0) = {}
<1>1. 0..0 - 1 = {}
  OBVIOUS
<1> QED BY <1>1, Zenon DEF MovedBy

LEMMA FreshOn ==
  ASSUME NEW p, NEW c, NEW d, FreshInv(c), c.pc \in Fresh, d.pc \in Fresh, d.req = c.req,
         SamePlace(c, d), SameMoved(c, d)
  PROVE  ProgInv(p, d)
<1>1. FreshInv(d)
  BY Zenon DEF FreshInv, SamePlace, SameMoved
<1>2. d.pc \notin Busy /\ d.pc \notin Ending
  BY StagesApart
<1> QED BY <1>1, <1>2, Zenon DEF ProgInv, BuildInv, EndInv

LEMMA FreshEnds ==
  ASSUME NEW p, NEW c, NEW d, FreshInv(c), c.pc \in Fresh, d.pc \in Ending, d.req = c.req,
         RequestOK(p, c.req), SameMoved(c, d), d.ret = -1, d.way # "done"
  PROVE  ProgInv(p, d)
<1>1. d.done = 0 /\ d.moved = {}
  BY Zenon DEF FreshInv, SameMoved
<1>2. d.pc \notin Busy /\ d.pc \notin Fresh
  BY StagesApart
<1>3. d.req.len \in Nat
  BY RequestFields
<1>4. 0 <= d.req.len /\ ~(d.ret > 0)
  BY <1>3
<1>5. EndInv(p, d)
  BY <1>1, <1>4, MovedNone, Zenon DEF EndInv
<1> QED BY <1>2, <1>5, Zenon DEF ProgInv, BuildInv, FreshInv

\* The cleaning up
LEMMA EndsOn ==
  ASSUME NEW p, NEW c, NEW d, EndInv(p, c), c.pc \in Ending, c.pc # "idle", d.pc \in Ending,
         d.req = c.req, d.mode = c.mode, c.strayed => d.strayed, SameMoved(c, d), d.way = c.way,
         d.ret = c.ret
  PROVE  ProgInv(p, d)
<1>1. d.pc \notin Busy /\ d.pc \notin Fresh
  BY StagesApart
<1>2. SUFFICES ASSUME ~d.strayed PROVE EndInv(p, d)
  BY <1>1, Zenon DEF ProgInv, BuildInv, FreshInv, EndInv
<1>3. /\ c.done <= c.req.len
      /\ Meaningful(p, c) => /\ MovedBy(p, c, c.done) \subseteq c.moved
                             /\ c.moved \subseteq MovedBy(p, c, c.req.len)
      /\ \/ c.ret = c.done
         \/ c.done = 0 /\ c.way # "done" /\ ~(c.ret > 0)
      /\ c.way = "done" => c.done = c.req.len
  BY <1>2, Zenon DEF EndInv
<1>4. d.done = c.done /\ d.moved = c.moved
  BY Zenon DEF SameMoved
<1>5. \/ d.ret = d.done
      \/ d.done = 0 /\ d.way # "done" /\ ~(d.ret > 0)
  BY <1>3, <1>4
<1>6. Meaningful(p, d) => /\ MovedBy(p, d, d.done) \subseteq d.moved
                          /\ d.moved \subseteq MovedBy(p, d, d.req.len)
  <2>1. /\ Meaningful(p, d) <=> Meaningful(p, c)
        /\ \A n : MovedBy(p, d, n) = MovedBy(p, c, n)
    BY SameCard
  <2> QED BY <1>3, <1>4, <2>1, Zenon
<1>7. d.done <= d.req.len /\ (d.way = "done" => d.done = d.req.len)
  BY <1>3, <1>4, Zenon
<1> QED BY <1>5, <1>6, <1>7, Zenon DEF EndInv

-----------------------------------------------------------------------------
(* Steps of the engine                                                     *)

LEMMA TakeDescMoves ==
  ASSUME PathTypes, Lists, Progress, NEW p \in Procs, TakeDesc(p)
  PROVE  Progress'
<1> DEFINE c == call[p]
           d == call'[p]
<1>1. Alone(p) /\ SetsPc(c, d, "build")
  BY TakeDescStep
<1>2. c.pc = "queue"
  BY DEF TakeDesc, At
<1>3. FreshInv(c) /\ ListInv(p, c, sit.merge)
  BY DEF Progress, Lists
<1>4. /\ d.pc = "build" /\ d.req = c.req /\ d.segs = c.segs /\ d.sdescs = c.sdescs
      /\ SamePlace(c, d) /\ SameMoved(c, d) /\ d.xfer = c.xfer /\ d.mode = c.mode
  BY <1>1, Zenon DEF SetsPc, SameBuffer, SameRequest, SameHistory
<1>5. /\ c.at = 0 /\ c.ep = c.req.ep /\ c.offset = 0 /\ c.sgIdx = 0 /\ c.sgOff = 0
      /\ c.done = 0 /\ c.moved = {}
  BY <1>2, <1>3 DEF FreshInv, Fresh
<1>6. /\ d.at = 0 /\ d.ep = d.req.ep /\ d.offset = 0 /\ d.sgIdx = 0 /\ d.sgOff = 0
      /\ d.done = 0 /\ d.moved = {}
  BY <1>4, <1>5, Zenon DEF SamePlace, SameMoved
<1>7. d.xfer = <<>>
  <2>1. c.pc # "run"
    BY <1>2
  <2> QED BY <1>3, <1>4, <2>1, Zenon DEF ListInv, RunInv
<1>8. d \in Calls /\ d.req.ep \in Nat
  BY <1>1, <1>4, CallTyped, RequestFields DEF SetsPc
<1>9. d.segs \in Seq(Spans) /\ d.sdescs \in Seq(DescSpans)
  BY <1>8 DEF Calls
<1>10. d.done + Total(d.xfer) = SoFar(p, d)
  <2>1. d.done + Total(d.xfer) = 0
    BY <1>6, <1>7, NoBytes
  <2>2. Upto(d.sdescs)[0] = 0
    <3>1. Counts(d.sdescs, Upto(d.sdescs))
      BY <1>9, DescsMeasured, UptoFacts
    <3> QED BY <3>1, Zenon DEF Counts
  <2> QED BY <1>6, <2>1, <2>2, Zenon DEF SoFar
<1>11. Carries(d.xfer, d.done, IsFix(p, d), ByteOf(p, d.req), CardOf(p, d))
  <2>1. Len(d.xfer) = 0
    BY <1>7
  <2>2. 1..Len(d.xfer) = {}
    BY <2>1
  <2> QED BY <2>2, Zenon DEF Carries
<1>12. /\ d.offset <= Total(d.segs)
       /\ Len(d.segs) # 0 => d.offset <= d.segs[1].len
  <2>1. Total(d.segs) \in Nat
    BY <1>9, DescsMeasured, UptoFacts
  <2>2. Len(d.segs) # 0 => d.segs[1].len \in Nat
    <3>1. Len(d.segs) # 0 => 1 \in 1..Len(d.segs)
      BY <1>9
    <3>2. Measured(d.segs)
      BY <1>9, DescsMeasured
    <3> QED BY <3>1, <3>2, Zenon DEF Measured
  <2> QED BY <1>6, <2>1, <2>2
<1>13. /\ d.at <= Len(d.sdescs)
       /\ d.ep = IF d.mode THEN d.req.ep ELSE d.req.ep + Upto(d.sdescs)[d.at]
  <2>1. Upto(d.sdescs)[0] = 0
    <3>1. Counts(d.sdescs, Upto(d.sdescs))
      BY <1>9, DescsMeasured, UptoFacts
    <3> QED BY <3>1, Zenon DEF Counts
  <2>2. d.req.ep + 0 = d.req.ep /\ 0 <= Len(d.sdescs)
    BY <1>8, <1>9
  <2> QED BY <1>6, <2>1, <2>2, Zenon
<1>14. BuildInv(p, d)
  BY <1>6, <1>10, <1>11, <1>12, <1>13, MovedNone, Zenon DEF BuildInv
<1>15. d.pc \notin Fresh /\ d.pc \notin Ending
  BY <1>4 DEF Fresh, Ending
<1>16. ProgInv(p, d)
  BY <1>14, <1>15, Zenon DEF ProgInv, FreshInv, EndInv
<1> QED BY <1>1, <1>16, ProgressOne

\* A call in step with the mode of the engine is on its way.
LEMMA ModeOf ==
  ASSUME Modes, NEW p \in Procs, ~call[p].strayed, call[p].pc # "idle"
  PROVE  /\ call[p].mode = fixed
         /\ ~call[p].mode /\ call[p].pc \in Framed =>
              call[p].req.buf % AddrAlign = call[p].req.ep % AddrAlign
BY Zenon DEF Modes, ModeInv

LEMMA BuildMoves ==
  ASSUME PathTypes, Lists, Modes, Progress, NEW p \in Procs, Build(p)
  PROVE  Progress'
<1> DEFINE c == call[p]
           d == call'[p]
           s == c.sdescs
           a == c.at
           byte == ByteOf(p, c.req)
           card == CardOf(p, c)
           f == fixed
           base == c.req.ep
<1>1. PICK n, sub : BuildsFrom(p, n, sub)
  BY BuildStep, Zenon
<1>2. Alone(p)
  BY BuildStep
<1> DEFINE list == TransferBuild(sub, c.ep, f)
           x == Linked(list, descIdx)
           epN == IF f THEN c.ep ELSE c.ep + Total(sub)
<1>3. /\ n \in Nat \ {0} /\ sub \in Seq(DescSpans) /\ Part(sub, s, a, n)
      /\ list \in Seq(CardDescs) /\ Total(list) = Total(sub) /\ IsLinked(x, list, descIdx)
      /\ SetsPlain(c, d, "run", a + n, epN, x)
  BY <1>1, Zenon DEF BuildsFrom
<1>4. c.pc = "build" /\ ~IsAperture(p, c)
  BY DEF Build, At, Aperture, IsAperture
<1>5. /\ d.pc = "run" /\ d.at = a + n /\ d.ep = epN /\ d.xfer = x /\ d.req = c.req
      /\ d.sdescs = s /\ SameMoved(c, d) /\ d.mode = c.mode /\ d.strayed = c.strayed
  BY <1>3, Zenon DEF SetsPlain, SameBuffer, SameRequest, SameHistory
<1>6. /\ IsAperture(p, d) <=> IsAperture(p, c)
      /\ IsFix(p, d) = IsFix(p, c) /\ CardOf(p, d) = card
      /\ Meaningful(p, d) <=> Meaningful(p, c)
      /\ \A m : MovedBy(p, d, m) = MovedBy(p, c, m)
      /\ ByteOf(p, d.req) = byte
  BY <1>5, SameCard
<1> HIDE DEF epN, list, x
<1>7. c \in Calls /\ base \in Nat /\ f \in BOOLEAN
  BY CallTyped, RequestFields DEF PathTypes
<1>8. a \in Nat /\ c.ep \in Nat /\ s \in Seq(DescSpans) /\ c.done \in Nat /\ c.mode \in BOOLEAN
  BY <1>7 DEF Calls
<1>9. ASSUME ~c.strayed PROVE BuildInv(p, d)
  <2>1. c.mode = f
    BY <1>4, <1>9, ModeOf
  <2>2. c.pc \in Busy /\ c.pc \in Queued
    BY <1>4 DEF Busy, Queued
  <2>3. BuildInv(p, c)
    BY DEF Progress
  <2>4. /\ c.done + Total(c.xfer) = Upto(s)[a]
        /\ Meaningful(p, c) => c.moved = MovedBy(p, c, c.done)
        /\ a <= Len(s)
        /\ c.ep = IF c.mode THEN base ELSE base + Upto(s)[a]
    BY <1>4, <1>9, <2>2, <2>3, Zenon DEF BuildInv, SoFar
  <2>5. c.xfer = <<>>
    <3>1. ListInv(p, c, sit.merge) /\ c.pc # "run"
      BY <1>4 DEF Lists
    <3> QED BY <3>1, Zenon DEF ListInv, RunInv
  <2> DEFINE pos == Upto(s)
  <2>6. Lays(s, pos, byte)
    BY <1>4, <2>2, QueueLaid, Zenon DEF LaidExactly
  <2>7. IsFix(p, c) = f
    BY <1>4, <1>8, <2>1 DEF IsFix
  <2>8. \A k \in Nat : card[k] = IF f THEN base ELSE base + k
    <3>1. card = [k \in Nat |-> IF f THEN base ELSE base + k]
      BY <1>4, <2>7, Zenon DEF CardOf
    <3> HIDE DEF card, f, base
    <3> QED BY <3>1
  <2>9. (f => c.ep = base) /\ (~f => c.ep = base + pos[a])
    BY <2>1, <2>4, Zenon
  <2> HIDE DEF f, base, card, byte, s, a
  <2>10. n \in Nat
    BY <1>3
  <2>11. /\ Total(list) = pos[a + n] - pos[a]
         /\ Carries(list, pos[a], f, byte, card)
    <3>1. CardFrom(card, base, f)
      BY <2>8, Zenon DEF CardFrom
    <3>2. sub \in Seq(DescSpans) /\ Part(sub, s, a, n) /\ s \in Seq(DescSpans)
      BY <1>3, <1>8, Zenon
    <3>3. StartsAt(c.ep, base, f, Upto(s)[a])
      BY <2>9, Zenon DEF StartsAt
    <3> DEFINE e == c.ep
    <3>4. e \in Nat /\ StartsAt(e, base, f, Upto(s)[a])
      BY <1>8, <3>3, Zenon
    <3>5. /\ Lays(s, Upto(s), byte) /\ a \in Nat /\ n \in Nat
          /\ base \in Nat /\ f \in BOOLEAN
      BY <1>7, <1>8, <2>6, <2>10, Zenon
    <3> HIDE DEF e
    <3>6. /\ Total(TransferBuild(sub, e, f)) = Upto(s)[a + n] - Upto(s)[a]
          /\ Carries(TransferBuild(sub, e, f), Upto(s)[a], f, byte, card)
      BY <3>1, <3>2, <3>4, <3>5, Built
    <3> QED BY <3>6, Zenon DEF list, e
  <2>12. /\ Total(x) = Total(list) /\ Carries(x, pos[a], f, byte, card)
    BY <1>3, <2>11, LinkedCarries
  <2>13. a + n <= Len(s) /\ a + n \in 0..Len(s) /\ a \in 0..Len(s)
    <3>1. a + n <= Len(s) /\ Len(s) \in Nat
      BY <1>3, <1>8 DEF Part
    <3> QED BY <1>8, <2>10, <3>1
  <2>14. pos[a] \in Nat /\ pos[a + n] \in Nat
    BY <1>8, <2>13, DescsMeasured, UptoFacts
  <2>15. c.done = pos[a]
    <3>1. c.done + 0 = pos[a]
      BY <2>4, <2>5, NoBytes, Zenon
    <3> QED BY <1>8, <3>1
  <2>16. d.done = c.done /\ d.moved = c.moved
    BY <1>5, Zenon DEF SameMoved
  <2>17. d.done + Total(d.xfer) = SoFar(p, d)
    <3>1. pos[a] + (pos[a + n] - pos[a]) = pos[a + n]
      BY <2>14
    <3>2. SoFar(p, d) = pos[a + n]
      BY <1>4, <1>5, <1>6, Zenon DEF SoFar, s
    <3> QED BY <1>5, <2>11, <2>12, <2>15, <2>16, <3>1, <3>2, Zenon
  <2>18. d.ep = IF d.mode THEN base ELSE base + pos[a + n]
    <3>1. epN = IF f THEN c.ep ELSE c.ep + Total(list)
      BY <1>3, Zenon DEF epN
    <3>2. epN = IF f THEN base ELSE base + pos[a + n]
      BY <1>7, <2>9, <2>11, <2>14, <3>1
    <3> QED BY <1>5, <2>1, <3>2, Zenon
  <2>19. Carries(d.xfer, d.done, IsFix(p, d), ByteOf(p, d.req), CardOf(p, d))
    BY <1>5, <1>6, <2>7, <2>12, <2>15, <2>16, Zenon
  <2>20. Meaningful(p, d) => d.moved = MovedBy(p, d, d.done)
    BY <1>6, <2>4, <2>16, Zenon
  <2>21. d.at <= Len(d.sdescs) /\ d.ep = IF d.mode THEN d.req.ep ELSE d.req.ep + Upto(d.sdescs)[d.at]
    BY <1>5, <2>13, <2>18, Zenon DEF base, s
  <2> QED BY <1>4, <1>6, <2>17, <2>19, <2>20, <2>21, Zenon DEF BuildInv
<1>10. BuildInv(p, d)
  BY <1>5, <1>9, Zenon DEF BuildInv
<1>11. d.pc \notin Fresh /\ d.pc \notin Ending
  BY <1>5 DEF Fresh, Ending
<1>12. ProgInv(p, d)
  BY <1>10, <1>11, Zenon DEF ProgInv, FreshInv, EndInv
<1> QED BY <1>2, <1>12, ProgressOne

LEMMA BuildApertureMoves ==
  ASSUME PathTypes, Lists, Progress, NEW p \in Procs, BuildAperture(p)
  PROVE  Progress'
<1> DEFINE c == call[p]
           d == call'[p]
           segs == c.segs
           byte == ByteOf(p, c.req)
           card == CardOf(p, c)
<1>1. PICK s, start : PassesTo(p, s, start)
  BY BuildApertureStep, Zenon
<1> DEFINE r == PassReq(c, start)
<1>2. Alone(p)
  BY BuildApertureStep
<1> DEFINE x == Linked(s.list, descIdx)
           q == c.offset + Total(s.list)
           strayedN == c.strayed \/ Strays(c, start)
<1>3. /\ start \in 0..c.req.aperture - 1
      /\ s = AperturePass(segs, r, descIdx) /\ s \in PassStates /\ IsLinked(x, s.list, descIdx)
      /\ SetsPass(c, d, "run", x, q, s.i, s.off, strayedN)
  BY <1>1, Zenon DEF PassesTo
<1>4. c.pc = "build" /\ IsAperture(p, c) /\ c.offset < Total(segs)
  BY DEF BuildAperture, At, Aperture, IsAperture
<1>5. /\ d.pc = "run" /\ d.xfer = x /\ d.offset = q /\ d.sgIdx = s.i /\ d.sgOff = s.off
      /\ d.strayed = strayedN
      /\ d.req = c.req /\ d.segs = segs /\ SameMoved(c, d) /\ d.mode = c.mode
  BY <1>3, Zenon DEF SetsPass, SameBuffer, SameRequest
<1>6. /\ IsAperture(p, d) <=> IsAperture(p, c)
      /\ IsFix(p, d) = IsFix(p, c) /\ CardOf(p, d) = card
      /\ Meaningful(p, d) <=> Meaningful(p, c)
      /\ \A m : MovedBy(p, d, m) = MovedBy(p, c, m)
      /\ ByteOf(p, d.req) = byte
  BY <1>5, SameCard
<1>7. c \in Calls /\ c.req.aperture \in Nat \ {0} /\ c.req.ep \in Nat /\ c.req.len < U32
      /\ descIdx \in 0..RingSize - 1
  BY CallTyped, RequestFields DEF PathTypes
<1>8. c.offset \in Nat /\ c.sgIdx \in Nat /\ c.done \in Nat /\ c.strayed \in BOOLEAN
  BY <1>7 DEF Calls
<1> HIDE DEF x, q, strayedN
<1>9. ASSUME ~d.strayed PROVE BuildInv(p, d)
  <2>1. ~c.strayed /\ c.sgIdx = 0 /\ start = c.offset % c.req.aperture
    <3>1. ~c.strayed /\ ~(c.sgIdx > 0) /\ start = c.offset % c.req.aperture
      BY <1>5, <1>9, Zenon DEF strayedN, Strays
    <3> QED BY <1>8, <3>1
  <2>2. c.pc \in Busy /\ c.pc \in Queued
    BY <1>4 DEF Busy, Queued
  <2>3. BuildInv(p, c)
    BY DEF Progress
  <2>4. /\ c.done + Total(c.xfer) = c.offset
        /\ Meaningful(p, c) => c.moved = MovedBy(p, c, c.done)
        /\ Len(segs) # 0 => c.sgOff = c.offset /\ c.offset <= segs[1].len
    BY <1>4, <2>1, <2>2, <2>3, Zenon DEF BuildInv, SoFar
  <2>5. c.xfer = <<>>
    <3>1. ListInv(p, c, sit.merge) /\ c.pc # "run"
      BY <1>4 DEF Lists
    <3> QED BY <3>1, Zenon DEF ListInv, RunInv
  <2>6. c.done = c.offset
    <3>1. c.done + 0 = c.offset
      BY <2>4, <2>5, NoBytes, Zenon
    <3> QED BY <1>8, <3>1
  <2>7. segs \in Seq(Spans) /\ Lays(segs, Upto(segs), byte) /\ Total(segs) = c.req.len
    BY <2>2, QueueLaid, Zenon DEF LaidExactly
  <2>8. Len(segs) # 0
    <3>1. Len(segs) \in Nat /\ Total(segs) \in Nat /\ Counts(segs, Upto(segs))
          /\ Upto(segs)[Len(segs)] = Total(segs)
      BY <2>7, DescsMeasured, UptoFacts
    <3>2. Len(segs) = 0 => Total(segs) = 0
      BY <3>1, Zenon DEF Counts
    <3> QED BY <1>4, <1>8, <3>2
  <2>9. /\ r \in PassReqs /\ r.sgIdx = 0 /\ r.sgOff = r.offset /\ r.offset = c.offset
        /\ r.ep = c.req.ep /\ r.aperture = c.req.aperture /\ r.start = r.offset % r.aperture
    <3>1. /\ r.offset = c.offset /\ r.sgIdx = c.sgIdx /\ r.sgOff = c.sgOff
          /\ r.ep = c.req.ep /\ r.aperture = c.req.aperture /\ r.start = start
      BY DEF PassReq
    <3> QED BY <1>3, <1>7, <2>1, <2>4, <2>8, <3>1, PassReqTyped, Zenon
  <2>10. IsFix(p, c) = FALSE
    BY <1>4, Zenon DEF IsFix
  <2>11. Window(r, card)
    <3>1. card = [k \in Nat |-> c.req.ep + (k % c.req.aperture)]
      BY <1>4, <2>10, Zenon DEF CardOf
    <3>2. ASSUME NEW k \in Nat PROVE card[k] = r.ep + (k % r.aperture)
      <4> HIDE DEF card
      <4>1. card[k] = c.req.ep + (k % c.req.aperture)
        BY <3>1, Zenon
      <4> QED BY <2>9, <4>1, Zenon
    <3> QED BY <3>2, Zenon DEF Window
  <2>12. PassExact(segs, r, s, byte, card)
    <3>1. Total(segs) < U32 /\ r.offset <= segs[1].len
      BY <1>7, <2>4, <2>7, <2>8, <2>9, Zenon
    <3> HIDE DEF segs, byte, card, r
    <3>2. PassExact(segs, r, AperturePass(segs, r, descIdx), byte, card)
      BY <1>7, <2>7, <2>8, <2>9, <2>11, <3>1, PassCarries
    <3> QED BY <1>3, <3>2, Zenon
  <2>13. PassAt(segs, r, s, q) /\ Carries(s.list, c.offset, FALSE, byte, card)
    BY <2>9, <2>12, Zenon DEF PassExact, q
  <2>14. s.list \in Seq(CardDescs) /\ s.i \in Nat /\ s.off \in Nat
    BY <1>3 DEF PassStates
  <2>15. Total(x) = Total(s.list) /\ Carries(x, c.offset, FALSE, byte, card)
    BY <1>3, <2>13, <2>14, LinkedCarries
  <2>16. Total(s.list) \in Nat
    BY <2>14, DescsMeasured, UptoFacts
  <2>17. d.done = c.done /\ d.moved = c.moved
    BY <1>5, Zenon DEF SameMoved
  <2>18. d.done + Total(d.xfer) = SoFar(p, d)
    <3>1. SoFar(p, d) = q /\ q = c.offset + Total(s.list)
      BY <1>4, <1>5, <1>6, Zenon DEF SoFar, q
    <3> QED BY <1>5, <2>6, <2>15, <2>17, <3>1, Zenon
  <2>19. Carries(d.xfer, d.done, IsFix(p, d), ByteOf(p, d.req), CardOf(p, d))
    BY <1>5, <1>6, <2>6, <2>10, <2>15, <2>17, Zenon
  <2>20. Meaningful(p, d) => d.moved = MovedBy(p, d, d.done)
    BY <1>6, <2>4, <2>17, Zenon
  <2> DEFINE n == Len(segs)
             pos == Upto(segs)
             i == s.i
             o == s.off
  <2>21. /\ i <= n /\ q = pos[i] + o /\ (IF i = n THEN o = 0 ELSE o <= segs[i + 1].len)
    BY <2>13, Zenon DEF PassAt
  <2>22. /\ n \in Nat /\ pos[n] = Total(segs) /\ Counts(segs, pos) /\ Total(segs) \in Nat
         /\ \A j \in 0..n : pos[j] \in Nat /\ pos[j] <= Total(segs)
    BY <2>7, DescsMeasured, UptoFacts
  <2>23. pos[0] = 0 /\ \A j \in 1..n : pos[j] = pos[j - 1] + segs[j].len
    BY <2>22, Zenon DEF Counts
  <2>24. \A j \in 1..n : segs[j].len \in Nat
    <3>1. Measured(segs)
      BY <2>7, DescsMeasured
    <3> QED BY <3>1, Zenon DEF Measured
  <2>25. i \in Nat /\ o \in Nat
    BY <2>14
  <2> HIDE DEF segs, n, pos, i, o
  <2>26. d.offset <= Total(d.segs)
    <3>1. q <= Total(segs)
      <4>1. CASE i = n
        BY <2>21, <2>22, <4>1
      <4>2. CASE i # n
        <5>1. i \in 0..n /\ i + 1 \in 1..n /\ i + 1 \in 0..n /\ (i + 1) - 1 = i
          BY <2>21, <2>22, <2>25, <4>2
        <5>2. pos[i + 1] = pos[i] + segs[i + 1].len
          BY <2>23, <5>1
        <5> DEFINE u == pos[i]
                   v == pos[i + 1]
                   w == segs[i + 1].len
                   t == Total(segs)
        <5>3. u \in Nat /\ w \in Nat /\ v = u + w /\ v <= t /\ t \in Nat /\ q = u + o /\ o <= w
          BY <2>21, <2>22, <2>24, <4>2, <5>1, <5>2, Zenon
        <5> HIDE DEF u, v, w, t
        <5>4. q <= t
          BY <2>25, <5>3
        <5> QED BY <5>4 DEF t
      <4> QED BY <4>1, <4>2
    <3> QED BY <1>5, <3>1, Zenon
  <2>27. d.sgIdx = 0 /\ Len(d.segs) # 0 => d.sgOff = d.offset /\ d.offset <= d.segs[1].len
    <3>1. ASSUME i = 0, n # 0 PROVE q = o /\ o <= segs[1].len
      <4>1. q = 0 + o /\ o <= segs[0 + 1].len
        BY <2>21, <2>23, <3>1, Zenon
      <4> QED BY <2>25, <4>1
    <3>2. d.sgOff = o /\ d.offset = q /\ d.segs = segs /\ d.sgIdx = i /\ Len(d.segs) = n
      BY <1>5, Zenon DEF i, o, n
    <3> QED BY <3>1, <3>2, Zenon
  <2> QED BY <1>4, <1>6, <2>18, <2>19, <2>20, <2>26, <2>27, Zenon DEF BuildInv
<1>10. BuildInv(p, d)
  BY <1>9, Zenon DEF BuildInv
<1>11. d.pc \notin Fresh /\ d.pc \notin Ending
  BY <1>5 DEF Fresh, Ending
<1>12. ProgInv(p, d)
  BY <1>10, <1>11, Zenon DEF ProgInv, FreshInv, EndInv
<1> QED BY <1>2, <1>12, ProgressOne

LEMMA RunAwayMoves ==
  ASSUME PathTypes, Lists, Progress, NEW p \in Procs, RunAway(p)
  PROVE  Progress'
<1> DEFINE c == call[p]
           d == call'[p]
<1>1. Alone(p) /\ SetsPc(c, d, "crashed")
  BY RunAwayStep
<1>2. c.pc = "build" /\ BuildInv(p, c)
  BY DEF RunAway, At, Progress
<1>3. /\ d.pc = "crashed" /\ SameBuffer(c, d) /\ SameRequest(c, d) /\ SamePlace(c, d)
      /\ d.xfer = c.xfer /\ SameMoved(c, d) /\ SameHistory(c, d)
  BY <1>1, Zenon DEF SetsPc
<1>4. /\ d.req = c.req /\ d.segs = c.segs /\ d.sdescs = c.sdescs /\ d.mode = c.mode
      /\ d.strayed = c.strayed /\ d.done = c.done /\ d.moved = c.moved
      /\ d.at = c.at /\ d.ep = c.ep /\ d.offset = c.offset
      /\ d.sgIdx = c.sgIdx /\ d.sgOff = c.sgOff
  BY <1>3, Zenon DEF SameBuffer, SameRequest, SamePlace, SameMoved, SameHistory
<1>5. /\ IsAperture(p, d) <=> IsAperture(p, c)
      /\ IsFix(p, d) = IsFix(p, c) /\ CardOf(p, d) = CardOf(p, c)
      /\ Meaningful(p, d) <=> Meaningful(p, c)
      /\ \A m : MovedBy(p, d, m) = MovedBy(p, c, m)
      /\ ByteOf(p, d.req) = ByteOf(p, c.req)
  BY <1>4, SameCard
<1>6. c.pc \in Busy /\ d.pc \notin Fresh /\ d.pc \notin Ending
  BY <1>2, <1>3 DEF Busy, Fresh, Ending
<1>7. SoFar(p, d) = SoFar(p, c)
  BY <1>4, <1>5, Zenon DEF SoFar
<1>8. BuildInv(p, d)
  BY <1>2, <1>3, <1>4, <1>5, <1>6, <1>7, Zenon DEF BuildInv
<1>9. ProgInv(p, d)
  BY <1>6, <1>8, Zenon DEF ProgInv, FreshInv, EndInv
<1> QED BY <1>1, <1>9, ProgressOne

\* All descriptors of a request are all of its bytes.
LEMMA DoneMoves ==
  ASSUME PathTypes, Lists, Progress, NEW p \in Procs, Done(p)
  PROVE  Progress'
<1> DEFINE c == call[p]
           d == call'[p]
<1>1. Alone(p) /\ SetsEnd(c, d, "unmap", c.done, "done")
  BY DoneStep
<1>2. c.pc = "build" /\ Through(p)
  BY DEF Done, At
<1>3. /\ d.pc = "unmap" /\ d.ret = c.done /\ d.way = "done" /\ d.req = c.req /\ d.mode = c.mode
      /\ d.strayed = c.strayed /\ d.done = c.done /\ d.moved = c.moved
  BY <1>1, Zenon DEF SetsEnd, SameBuffer, SameMoved, SameHistory
<1>4. /\ Meaningful(p, d) <=> Meaningful(p, c)
      /\ \A m : MovedBy(p, d, m) = MovedBy(p, c, m)
  BY <1>3, SameCard
<1>5. ASSUME ~d.strayed PROVE EndInv(p, d)
  <2>1. c.pc \in Busy /\ c.pc \in Queued
    BY <1>2 DEF Busy, Queued
  <2>2. BuildInv(p, c) /\ ~c.strayed
    BY <1>3, <1>5 DEF Progress
  <2>3. /\ SoFar(p, c) \in Nat /\ SoFar(p, c) <= c.req.len
        /\ c.done \in Nat /\ c.req.len \in Nat
        /\ c.done + Total(c.xfer) = SoFar(p, c)
    BY <2>1, <2>2, SoFarInside
  <2>4. c.xfer = <<>>
    <3>1. ListInv(p, c, sit.merge) /\ c.pc # "run"
      BY <1>2 DEF Lists
    <3> QED BY <3>1, Zenon DEF ListInv, RunInv
  <2>5. c.done = SoFar(p, c)
    <3>1. c.done + 0 = SoFar(p, c)
      BY <2>3, <2>4, NoBytes, Zenon
    <3> QED BY <2>3, <3>1
  <2>6. SoFar(p, c) = c.req.len
    <3>1. CASE IsAperture(p, c)
      <4>1. Total(c.segs) = c.req.len
        BY <2>1, QueueLaid, Zenon DEF LaidExactly
      <4>2. c.offset >= Total(c.segs) /\ SoFar(p, c) = c.offset
        BY <1>2, <3>1 DEF Through, Aperture, IsAperture, SoFar
      <4> QED BY <2>3, <4>1, <4>2
    <3>2. CASE ~IsAperture(p, c)
      <4>1. Total(c.sdescs) = c.req.len
        BY <2>1, <3>2, QueueLaid, Zenon DEF LaidExactly
      <4>2. c.at = Len(c.sdescs) /\ SoFar(p, c) = Upto(c.sdescs)[c.at]
        BY <1>2, <3>2, Zenon DEF Through, Aperture, IsAperture, SoFar
      <4> QED BY <4>1, <4>2, Zenon DEF Total
    <3> QED BY <3>1, <3>2
  <2>7. d.done = d.req.len /\ d.done <= d.req.len
    BY <1>3, <2>3, <2>5, <2>6
  <2>8. Meaningful(p, c) => c.moved = MovedBy(p, c, c.done)
    BY <2>1, <2>2, Zenon DEF BuildInv
  <2>9. Meaningful(p, d) => d.moved = MovedBy(p, d, d.done) /\ d.moved = MovedBy(p, d, d.req.len)
    BY <1>3, <1>4, <2>7, <2>8, Zenon
  <2> QED BY <1>3, <2>7, <2>9, Zenon DEF EndInv
<1>6. EndInv(p, d)
  BY <1>5, Zenon DEF EndInv
<1>7. d.pc \notin Fresh /\ d.pc \notin Busy
  BY <1>3 DEF Fresh, Busy
<1>8. ProgInv(p, d)
  BY <1>6, <1>7, Zenon DEF ProgInv, FreshInv, BuildInv
<1> QED BY <1>1, <1>8, ProgressOne

\* The bytes of a call up to n, and those of a further list
Continues(p, c, n, x, fix) == Carries(x, n, fix, ByteOf(p, c.req), CardOf(p, c))
MovesOn(p, c, n, x, fix) == MovedBy(p, c, n) \cup Pairs(x, fix) = MovedBy(p, c, n + Total(x))

LEMMA MovedFurther ==
  ASSUME NEW p, NEW c, NEW n \in Nat, NEW x \in Seq(RingDescs), NEW fix,
         Continues(p, c, n, x, fix)
  PROVE  MovesOn(p, c, n, x, fix)
<1> DEFINE byte == ByteOf(p, c.req)
           card == CardOf(p, c)
           t == Total(x)
           Pair(k) == <<byte[k], card[k]>>
<1>1. Measured(x) /\ DOMAIN x = 1..Len(x) /\ t \in Nat
  BY RingMeasured
<1>2. \A y : y \in Pairs(x, fix) <=> \E k \in n..n + t - 1 : y = Pair(k)
  <2>1. Carries(x, n, fix, byte, card)
    BY Zenon DEF Continues
  <2> HIDE DEF byte, card, t
  <2>2. \A y : y \in Pairs(x, fix) <=> \E k \in n..n + Total(x) - 1 : y = <<byte[k], card[k]>>
    BY <1>1, <2>1, PairsOf
  <2> QED BY <2>2, Zenon DEF t
<1>3. \A m : MovedBy(p, c, m) = {Pair(k) : k \in 0..m - 1}
  BY Zenon DEF MovedBy
<1> HIDE DEF Pair, t
<1>4. \A y, m : y \in MovedBy(p, c, m) <=> \E k \in 0..m - 1 : y = Pair(k)
  BY <1>3, Zenon
<1> DEFINE m == n + t
<1>5. \A k : k \in 0..m - 1 <=> k \in 0..n - 1 \/ k \in n..n + t - 1
  BY <1>1
<1> HIDE DEF m
<1>6. \A y : y \in MovedBy(p, c, m) <=> y \in MovedBy(p, c, n) \/ y \in Pairs(x, fix)
  <2>1. ASSUME NEW y, y \in MovedBy(p, c, m)
        PROVE  y \in MovedBy(p, c, n) \/ y \in Pairs(x, fix)
    <3>1. PICK k \in 0..m - 1 : y = Pair(k)
      BY <1>4, <2>1, Zenon
    <3>2. k \in 0..n - 1 \/ k \in n..n + t - 1
      BY <1>5, Zenon
    <3> QED BY <1>2, <1>4, <3>1, <3>2, Zenon
  <2>2. ASSUME NEW y, y \in MovedBy(p, c, n) PROVE y \in MovedBy(p, c, m)
    <3>1. PICK k \in 0..n - 1 : y = Pair(k)
      BY <1>4, <2>2, Zenon
    <3>2. k \in 0..m - 1
      BY <1>5, Zenon
    <3> QED BY <1>4, <3>1, <3>2, Zenon
  <2>3. ASSUME NEW y, y \in Pairs(x, fix) PROVE y \in MovedBy(p, c, m)
    <3>1. PICK k \in n..n + t - 1 : y = Pair(k)
      BY <1>2, <2>3, Zenon
    <3>2. k \in 0..m - 1
      BY <1>5, Zenon
    <3> QED BY <1>4, <3>1, <3>2, Zenon
  <2> QED BY <2>1, <2>2, <2>3, Zenon
<1>7. MovedBy(p, c, n) \cup Pairs(x, fix) = MovedBy(p, c, m)
  BY <1>6, Zenon
<1> QED BY <1>7, Zenon DEF m, t, MovesOn

LEMMA MovedMonotone ==
  ASSUME NEW p, NEW c, NEW n \in Nat, NEW m \in Nat, n <= m
  PROVE  MovedBy(p, c, n) \subseteq MovedBy(p, c, m)
<1>1. 0..n - 1 \subseteq 0..m - 1
  OBVIOUS
<1> QED BY <1>1, Zenon DEF MovedBy

LEMMA CarryOutMoves ==
  ASSUME PathTypes, Lists, Modes, Progress, NEW p \in Procs, CarryOut(p)
  PROVE  Progress'
<1> DEFINE c == call[p]
           d == call'[p]
           x == c.xfer
           movedN == c.moved \cup Bytes(x)
           doneN == c.done + Total(x)
<1>1. Alone(p) /\ SetsMoved(c, d, "build", <<>>, doneN, movedN)
  BY CarryOutStep
<1>2. c.pc = "run"
  BY DEF CarryOut, At
<1>3. /\ d.pc = "build" /\ d.xfer = <<>> /\ d.done = doneN /\ d.moved = movedN /\ d.req = c.req
      /\ d.segs = c.segs /\ d.sdescs = c.sdescs /\ SamePlace(c, d) /\ d.mode = c.mode
      /\ d.strayed = c.strayed
  BY <1>1, Zenon DEF SetsMoved, SameBuffer, SameRequest, SameHistory
<1>4. /\ IsAperture(p, d) <=> IsAperture(p, c)
      /\ IsFix(p, d) = IsFix(p, c)
      /\ Meaningful(p, d) <=> Meaningful(p, c)
      /\ \A m : MovedBy(p, d, m) = MovedBy(p, c, m)
  BY <1>3, SameCard
<1>5. c \in Calls
  BY CallTyped
<1>6. x \in Seq(RingDescs) /\ c.mode \in BOOLEAN
  BY <1>5 DEF Calls
<1> HIDE DEF movedN, doneN
<1>7. ASSUME ~d.strayed PROVE BuildInv(p, d)
  <2>1. c.pc \in Busy /\ c.pc # "idle"
    BY <1>2 DEF Busy
  <2>2. BuildInv(p, c) /\ ~c.strayed
    BY <1>3, <1>7 DEF Progress
  <2>3. c.mode = fixed
    BY <2>1, <2>2, ModeOf
  <2>4. /\ c.done \in Nat /\ Total(x) \in Nat /\ c.done + Total(x) = SoFar(p, c)
    BY <2>1, <2>2, SoFarInside
  <2>5. SoFar(p, d) = SoFar(p, c)
    BY <1>3, <1>4, Zenon DEF SoFar, SamePlace
  <2>6. d.done + Total(d.xfer) = SoFar(p, d)
    <3>1. doneN \in Nat /\ doneN = SoFar(p, c)
      BY <2>4 DEF doneN
    <3>2. doneN + 0 = doneN
      BY <3>1
    <3> QED BY <1>3, <2>5, <3>1, <3>2, NoBytes, Zenon
  <2>7. Carries(x, c.done, IsFix(p, c), ByteOf(p, c.req), CardOf(p, c))
    BY <2>1, <2>2, Zenon DEF BuildInv
  <2>8. Meaningful(p, d) => d.moved = MovedBy(p, d, d.done)
    <3>1. SUFFICES ASSUME Meaningful(p, c) PROVE movedN = MovedBy(p, c, doneN)
      BY <1>3, <1>4, Zenon
    <3>2. c.moved = MovedBy(p, c, c.done)
      BY <2>1, <2>2, <3>1, Zenon DEF BuildInv
    <3>3. IsFix(p, c) = fixed
      BY <1>6, <2>3, <3>1 DEF IsFix, Meaningful
    <3>4. Bytes(x) = Pairs(x, IsFix(p, c))
      BY <1>6, <3>3, BytesTyped, Zenon
    <3>5. MovedBy(p, c, c.done) \cup Pairs(x, IsFix(p, c)) = MovedBy(p, c, c.done + Total(x))
      <4> DEFINE n == c.done
                 f == IsFix(p, c)
      <4>1. n \in Nat /\ x \in Seq(RingDescs) /\ Continues(p, c, n, x, f)
        BY <1>6, <2>4, <2>7, Zenon DEF Continues
      <4> HIDE DEF n, f, c, x
      <4>2. MovesOn(p, c, n, x, f)
        BY <4>1, MovedFurther
      <4> QED BY <4>2, Zenon DEF n, f, MovesOn
    <3> QED BY <3>2, <3>4, <3>5, Zenon DEF movedN, doneN
  <2>9. Carries(d.xfer, d.done, IsFix(p, d), ByteOf(p, d.req), CardOf(p, d))
    <3>1. 1..Len(d.xfer) = {}
      BY <1>3
    <3> QED BY <3>1, Zenon DEF Carries
  <2>10. /\ d.at = c.at /\ d.ep = c.ep /\ d.offset = c.offset /\ d.sgIdx = c.sgIdx
         /\ d.sgOff = c.sgOff
    BY <1>3, Zenon DEF SamePlace
  <2>11. IF IsAperture(p, c)
         THEN /\ c.offset <= Total(c.segs)
              /\ c.sgIdx = 0 /\ Len(c.segs) # 0 =>
                   c.sgOff = c.offset /\ c.offset <= c.segs[1].len
         ELSE /\ c.at <= Len(c.sdescs)
              /\ c.ep = IF c.mode THEN c.req.ep ELSE c.req.ep + Upto(c.sdescs)[c.at]
    BY <2>1, <2>2, Zenon DEF BuildInv
  <2> QED BY <1>3, <1>4, <2>6, <2>8, <2>9, <2>10, <2>11, Zenon DEF BuildInv
<1>8. BuildInv(p, d)
  BY <1>7, Zenon DEF BuildInv
<1>9. d.pc \notin Fresh /\ d.pc \notin Ending
  BY <1>3 DEF Fresh, Ending
<1>10. ProgInv(p, d)
  BY <1>8, <1>9, Zenon DEF ProgInv, FreshInv, EndInv
<1> QED BY <1>1, <1>10, ProgressOne

LEMMA CarryFailsMoves ==
  ASSUME PathTypes, Lists, Modes, Progress, NEW p \in Procs, CarryFails(p)
  PROVE  Progress'
<1> DEFINE c == call[p]
           d == call'[p]
           x == c.xfer
           retN == IF c.done > 0 THEN c.done ELSE -1
<1>1. PICK k \in 0..Len(x) - 1 :
        SetsFailed(c, d, "unmap", <<>>, retN, "failed", c.moved \cup Bytes(SubSeq(x, 1, k)))
  BY CarryFailsStep, Zenon
<1>2. Alone(p) /\ c.pc = "run"
  BY CarryFailsStep DEF CarryFails, At
<1> DEFINE y == SubSeq(x, 1, k)
           movedN == c.moved \cup Bytes(y)
<1>3. /\ d.pc = "unmap" /\ d.ret = retN /\ d.way = "failed" /\ d.moved = movedN
      /\ d.done = c.done /\ d.req = c.req /\ d.mode = c.mode /\ d.strayed = c.strayed
  BY <1>1, Zenon DEF SetsFailed, SameBuffer, SameHistory
<1>4. /\ Meaningful(p, d) <=> Meaningful(p, c)
      /\ \A m : MovedBy(p, d, m) = MovedBy(p, c, m)
  BY <1>3, SameCard
<1>5. c \in Calls
  BY CallTyped
<1>6. x \in Seq(RingDescs) /\ c.mode \in BOOLEAN /\ c.done \in Nat
  BY <1>5 DEF Calls
<1>7. /\ y \in Seq(RingDescs) /\ Bytes(y) \subseteq Bytes(x)
  <2>1. k \in Nat /\ k <= Len(x)
    BY <1>6
  <2>2. y \in Seq(RingDescs) /\ Len(y) = k /\ \A i \in 1..k : y[i] = x[i]
    BY <1>6, <2>1
  <2> HIDE DEF y
  <2>3. DOMAIN y = 1..k /\ 1..k \subseteq DOMAIN x
    BY <1>6, <2>1, <2>2
  <2>4. \A i \in DOMAIN y : i \in DOMAIN x /\ y[i] = x[i]
    BY <2>2, <2>3, Zenon
  <2>5. Bytes(y) \subseteq Bytes(x)
    <3> DEFINE Of(e) == {<<e.addr + b, IF fixed THEN e.ep ELSE e.ep + b>> : b \in 0..e.len - 1}
    <3>1. \A l : Bytes(l) = UNION {Of(l[i]) : i \in DOMAIN l}
      BY Zenon DEF Bytes
    <3> HIDE DEF Of
    <3> QED BY <2>4, <3>1, Zenon
  <2> QED BY <2>2, <2>5
<1> HIDE DEF y, movedN, retN
<1>8. ASSUME ~d.strayed PROVE EndInv(p, d)
  <2>1. c.pc \in Busy /\ c.pc # "idle"
    BY <1>2 DEF Busy
  <2>2. BuildInv(p, c) /\ ~c.strayed
    BY <1>3, <1>8 DEF Progress
  <2>3. c.mode = fixed
    BY <2>1, <2>2, ModeOf
  <2>4. /\ Total(x) \in Nat /\ c.done + Total(x) = SoFar(p, c) /\ SoFar(p, c) \in Nat
        /\ SoFar(p, c) <= c.req.len /\ c.req.len \in Nat
    BY <2>1, <2>2, SoFarInside
  <2>5. c.done <= c.req.len
    BY <1>6, <2>4
  <2>6. Carries(x, c.done, IsFix(p, c), ByteOf(p, c.req), CardOf(p, c))
    BY <2>1, <2>2, Zenon DEF BuildInv
  <2>7. Meaningful(p, d) => /\ MovedBy(p, d, d.done) \subseteq d.moved
                            /\ d.moved \subseteq MovedBy(p, d, d.req.len)
    <3>1. SUFFICES ASSUME Meaningful(p, c)
                   PROVE  /\ MovedBy(p, c, c.done) \subseteq movedN
                          /\ movedN \subseteq MovedBy(p, c, c.req.len)
      BY <1>3, <1>4, Zenon
    <3>2. c.moved = MovedBy(p, c, c.done)
      BY <2>1, <2>2, <3>1, Zenon DEF BuildInv
    <3>3. IsFix(p, c) = fixed
      BY <1>6, <2>3, <3>1 DEF IsFix, Meaningful
    <3>4. Bytes(x) = Pairs(x, IsFix(p, c))
      BY <1>6, <3>3, BytesTyped, Zenon
    <3>5. MovedBy(p, c, c.done) \cup Pairs(x, IsFix(p, c)) = MovedBy(p, c, SoFar(p, c))
      <4>1. MovedBy(p, c, c.done) \cup Pairs(x, IsFix(p, c)) = MovedBy(p, c, c.done + Total(x))
        <5> DEFINE n == c.done
                   f == IsFix(p, c)
        <5>1. n \in Nat /\ x \in Seq(RingDescs) /\ Continues(p, c, n, x, f)
          BY <1>6, <2>6, Zenon DEF Continues
        <5> HIDE DEF n, f, c, x
        <5>2. MovesOn(p, c, n, x, f)
          BY <5>1, MovedFurther
        <5> QED BY <5>2, Zenon DEF n, f, MovesOn
      <4> QED BY <2>4, <4>1, Zenon
    <3>6. MovedBy(p, c, SoFar(p, c)) \subseteq MovedBy(p, c, c.req.len)
      BY <2>4, MovedMonotone
    <3> QED BY <1>7, <3>2, <3>4, <3>5, <3>6, Zenon DEF movedN
  <2>8. d.ret = d.done \/ (d.done = 0 /\ d.way # "done" /\ ~(d.ret > 0))
    BY <1>3, <1>6 DEF retN
  <2>9. d.way # "done" /\ d.done <= d.req.len
    BY <1>3, <2>5
  <2> QED BY <2>7, <2>8, <2>9, Zenon DEF EndInv
<1>9. EndInv(p, d)
  BY <1>8, Zenon DEF EndInv
<1>10. d.pc \notin Fresh /\ d.pc \notin Busy
  BY <1>3 DEF Fresh, Busy
<1>11. ProgInv(p, d)
  BY <1>9, <1>10, Zenon DEF ProgInv, FreshInv, BuildInv
<1> QED BY <1>2, <1>11, ProgressOne

-----------------------------------------------------------------------------
(* Progress is an invariant.                                               *)

LEMMA ProgressInit == PathInit => Progress
<1>1. SUFFICES ASSUME PathInit, NEW p \in Procs PROVE ProgInv(p, call[p])
  BY Zenon DEF Progress, ProgInv
<1>2. RequestOK(p, NoReq) /\ PathTypes
  <2>1. PathTypes
    BY <1>1, TypesInit
  <2>2. call[p] = NewCall(NoReq)
    BY <1>1, Zenon DEF PathInit
  <2>3. NewCall(NoReq).req = NoReq
    BY DEF NewCall
  <2> QED BY <2>1, <2>2, <2>3, CallTyped, Zenon
<1>3. NoReq \in DmaRequests /\ fixed \in BOOLEAN
  BY <1>2 DEF RequestOK, PathTypes
<1>4. Begun(call[p], "idle", NoReq, fixed)
  <2>1. call[p] = NewCall(NoReq)
    BY <1>1, Zenon DEF PathInit
  <2> QED BY <1>3, <2>1, NewCallBegun
<1> DEFINE d == call[p]
<1>5. d.pc = "idle" /\ d.done = 0 /\ d.ret = 0 /\ d.moved = {} /\ d.way = "none" /\ d.req = NoReq
  BY <1>4, Zenon DEF Begun
<1>6. d.req.len \in Nat /\ 0 <= d.req.len
  BY <1>2, <1>5, RequestFields
<1>7. EndInv(p, d)
  <2>1. d.way # "done"
    BY <1>5
  <2> QED BY <1>5, <1>6, <2>1, MovedNone, Zenon DEF EndInv
<1>8. d.pc \notin Fresh /\ d.pc \notin Busy
  BY <1>5 DEF Fresh, Busy
<1> QED BY <1>7, <1>8, Zenon DEF ProgInv, FreshInv, BuildInv

LEMMA BeginMoves ==
  ASSUME PathTypes, Progress, NEW p \in Procs, Call(p)
  PROVE  Progress'
<1> DEFINE d == call'[p]
<1>1. PICK r : Begun(d, IF p \in GuestProcs THEN "pin" ELSE "local", r, fixed)
  BY CallStep, Zenon
<1>2. Alone(p)
  BY CallStep
<1>3. /\ d.pc = (IF p \in GuestProcs THEN "pin" ELSE "local") /\ d.req = r
      /\ d.at = 0 /\ d.ep = r.ep /\ d.offset = 0 /\ d.sgIdx = 0 /\ d.sgOff = 0
      /\ d.done = 0 /\ d.moved = {}
  BY <1>1, Zenon DEF Begun
<1>4. FreshInv(d)
  BY <1>3, Zenon DEF FreshInv
<1>5. d.pc \notin Busy /\ d.pc \notin Ending
  BY <1>3 DEF Busy, Ending
<1>6. ProgInv(p, d)
  BY <1>4, <1>5, Zenon DEF ProgInv, BuildInv, EndInv
<1> QED BY <1>2, <1>6, ProgressOne

LEMMA FreshMoves ==
  ASSUME PathTypes, Lists, Progress, NEW p \in Procs,
         \/ p \in GuestProcs /\ (PinPages(p) \/ Delegate(p) \/ TakeEscape(p) \/ MapRemote(p))
         \/ p \in HostProcs /\ MapLocal(p)
         \/ MakeRequest(p)
  PROVE  Progress'
<1> DEFINE c == call[p]
           d == call'[p]
           Goes == /\ Alone(p) /\ c.pc \in Fresh /\ d.pc \in Fresh /\ d.req = c.req
                   /\ SamePlace(c, d) /\ SameMoved(c, d)
<1>1. FreshInv(c)
  BY DEF Progress
<1>2. ASSUME PinPages(p) PROVE Goes
  <2>1. PICK l : Alone(p) /\ SetsChunks(c, d, "pinned", l)
    BY <1>2, PinPagesStep, Zenon
  <2>2. c.pc = "pin"
    BY <1>2 DEF PinPages, At
  <2> QED BY <2>1, <2>2 DEF SetsChunks, Fresh
<1>3. ASSUME Delegate(p) PROVE Goes
  <2>1. PICK b : Alone(p) /\ SetsBlind(c, d, "delegated", b)
    BY <1>3, DelegateStep, Zenon
  <2>2. c.pc = "pinned"
    BY <1>3 DEF Delegate, At
  <2> QED BY <2>1, <2>2 DEF SetsBlind, Fresh, SameBuffer
<1>4. ASSUME TakeEscape(p) PROVE Goes
  <2>1. Alone(p) /\ SetsPc(c, d, "manager")
    BY <1>4, TakeEscapeStep
  <2>2. c.pc = "delegated"
    BY <1>4 DEF TakeEscape, At
  <2> QED BY <2>1, <2>2 DEF SetsPc, Fresh, SameBuffer
<1>5. ASSUME \/ p \in GuestProcs /\ MapRemote(p)
             \/ p \in HostProcs /\ MapLocal(p)
      PROVE  Goes
  <2>1. p \in HostProcs => p \notin GuestProcs
    BY DmaConstants
  <2>2. PICK l : Alone(p) /\ SetsFrames(c, d, "mapped", l)
    BY <1>5, <2>1, MapRemoteStep, MapLocalStep, Zenon
  <2>3. c.pc \in {"manager", "local"}
    BY <1>5 DEF MapRemote, MapLocal, At
  <2> QED BY <2>2, <2>3 DEF SetsFrames, Fresh
<1>6. ASSUME MakeRequest(p) PROVE Goes
  <2>1. PICK s, t : Alone(p) /\ SetsRequest(c, d, "queue", s, t)
    BY <1>6, MakeRequestStep, Zenon
  <2>2. c.pc = "mapped"
    BY <1>6 DEF MakeRequest, At
  <2> QED BY <2>1, <2>2 DEF SetsRequest, Fresh, SameBuffer
<1>7. Goes
  BY <1>2, <1>3, <1>4, <1>5, <1>6, Zenon
<1>8. ProgInv(p, d)
  BY <1>1, <1>7, FreshOn
<1> QED BY <1>7, <1>8, ProgressOne

LEMMA FailMoves ==
  ASSUME PathTypes, Lists, Progress, NEW p \in Procs,
         \/ PinRefused(p) \/ PinLost(p) \/ TooSmall(p) \/ LocalRefused(p)
         \/ EscapeFails(p) \/ Denied(p) \/ MapRemoteFails(p) \/ RequestFails(p)
  PROVE  Progress'
<1> DEFINE c == call[p]
           d == call'[p]
           Fails == /\ Alone(p) /\ c.pc \in Fresh /\ d.pc \in Ending /\ d.req = c.req
                    /\ SameMoved(c, d) /\ d.ret = -1 /\ d.way # "done"
<1>1. FreshInv(c) /\ RequestOK(p, c.req)
  BY CallTyped DEF Progress
<1>2. ASSUME PinRefused(p) \/ PinLost(p) \/ TooSmall(p) \/ LocalRefused(p) PROVE Fails
  <2>1. PICK way \in {"refused", "pins lost", "too small"} : Alone(p) /\ EndsAs(c, d, -1, way)
    BY <1>2, PinRefusedStep, PinLostStep, TooSmallStep, LocalRefusedStep
  <2>2. c.pc \in {"pin", "delegated", "local"}
    BY <1>2 DEF PinRefused, PinLost, TooSmall, LocalRefused, At
  <2>3. way # "done"
    OBVIOUS
  <2> QED BY <2>1, <2>2, <2>3 DEF EndsAs, SetsEnded, Fresh, Ending
<1>3. ASSUME EscapeFails(p) \/ Denied(p) \/ MapRemoteFails(p) \/ RequestFails(p) PROVE Fails
  <2>1. PICK pc \in {"leave", "unmap"} :
          \E way \in {"unanswered", "refused", "frames lost"} :
            Alone(p) /\ SetsEnd(c, d, pc, -1, way)
    BY <1>3, EscapeFailsStep, DeniedStep, MapRemoteFailsStep, RequestFailsStep
  <2>2. PICK way \in {"unanswered", "refused", "frames lost"} :
          Alone(p) /\ SetsEnd(c, d, pc, -1, way)
    BY <2>1
  <2>3. c.pc \in {"manager", "mapped"}
    BY <1>3 DEF EscapeFails, Denied, MapRemoteFails, RequestFails, At
  <2>4. way # "done"
    OBVIOUS
  <2> QED BY <2>2, <2>3, <2>4 DEF SetsEnd, Fresh, Ending, SameBuffer
<1>4. Fails
  BY <1>2, <1>3, Zenon
<1>5. ProgInv(p, d)
  BY <1>1, <1>4, FreshEnds
<1> QED BY <1>4, <1>5, ProgressOne

LEMMA CleanMoves ==
  ASSUME PathTypes, Lists, Progress, NEW p \in Procs,
         Unmap(p) \/ (p \in GuestProcs /\ Leave(p))
  PROVE  Progress'
<1> DEFINE c == call[p]
           d == call'[p]
           Cleans == /\ Alone(p) /\ c.pc \in Ending /\ c.pc # "idle" /\ d.pc \in Ending
                     /\ d.req = c.req /\ d.mode = c.mode /\ d.strayed = c.strayed
                     /\ SameMoved(c, d) /\ d.way = c.way /\ d.ret = c.ret
<1>1. EndInv(p, c)
  BY DEF Progress
<1>2. c \in Calls
  BY CallTyped
<1>3. ASSUME Unmap(p) PROVE Cleans
  <2>1. c.pc = "unmap"
    BY <1>3 DEF Unmap, At
  <2>2. CASE p \in GuestProcs
    <3>1. Alone(p) /\ SetsFrames(c, d, "leave", <<>>)
      BY <1>3, <2>2, UnmapStep
    <3> QED BY <2>1, <3>1 DEF SetsFrames, Ending, SameEnd, SameHistory
  <2>3. CASE p \notin GuestProcs
    <3>1. Alone(p) /\ EndsAs(c, d, c.ret, c.way)
      BY <1>3, <2>3, UnmapStep
    <3> QED BY <2>1, <3>1 DEF EndsAs, SetsEnded, Ending, SameHistory
  <2> QED BY <2>2, <2>3
<1>4. ASSUME p \in GuestProcs, Leave(p) PROVE Cleans
  <2>1. c.pc = "leave"
    BY <1>4 DEF Leave, At
  <2>2. Alone(p) /\ EndsAs(c, d, c.ret, c.way)
    BY <1>4, LeaveStep
  <2> QED BY <2>1, <2>2 DEF EndsAs, SetsEnded, Ending, SameHistory
<1>5. Cleans
  BY <1>3, <1>4, Zenon
<1>6. ProgInv(p, d)
  BY <1>1, <1>5, EndsOn
<1> QED BY <1>5, <1>6, ProgressOne

LEMMA AddrmodeMoves ==
  ASSUME PathTypes, Progress, AddrmodeSet
  PROVE  Progress'
<1>1. ASSUME NEW p \in Procs PROVE ProgInv(p, call'[p])
  <2> DEFINE c == call[p]
             d == call'[p]
  <2>1. SetsStrayed(c, d, c.strayed \/ c.pc # "idle")
    BY AddrmodeSetStep
  <2>2. /\ d.pc = c.pc /\ d.req = c.req /\ SamePlace(c, d) /\ SameMoved(c, d) /\ SameEnd(c, d)
        /\ d.mode = c.mode /\ (d.strayed <=> (c.strayed \/ c.pc # "idle"))
    BY <2>1, Zenon DEF SetsStrayed, SameBuffer
  <2>3. FreshInv(c) /\ EndInv(p, c)
    BY DEF Progress
  <2>4. FreshInv(d)
    BY <2>2, <2>3, Zenon DEF FreshInv, SamePlace, SameMoved
  <2>5. BuildInv(p, d)
    <3>1. c.pc = "idle" => c.pc \notin Busy
      BY DEF Busy
    <3> QED BY <2>2, <3>1, Zenon DEF BuildInv
  <2>6. EndInv(p, d)
    <3>1. d.done = c.done /\ d.moved = c.moved /\ d.ret = c.ret /\ d.way = c.way
      BY <2>2, Zenon DEF SameMoved, SameEnd
    <3>2. (Meaningful(p, d) <=> Meaningful(p, c)) /\ \A n : MovedBy(p, d, n) = MovedBy(p, c, n)
      BY <2>2, SameCard
    <3> QED BY <2>2, <2>3, <3>1, <3>2, Zenon DEF EndInv
  <2> QED BY <2>4, <2>5, <2>6, Zenon DEF ProgInv
<1> QED BY <1>1, Zenon DEF Progress, ProgInv

LEMMA SweepMoves ==
  ASSUME PathTypes, Progress, Sweeps
  PROVE  Progress'
<1>1. ASSUME NEW p \in Procs PROVE ProgInv(p, call'[p])
  <2> DEFINE c == call[p]
             d == call'[p]
  <2>1. Unswept(p)
    BY SweepStep
  <2>2. /\ d.req = c.req /\ d.segs = c.segs /\ d.sdescs = c.sdescs /\ d.mode = c.mode
        /\ d.strayed = c.strayed /\ d.done = c.done /\ d.moved = c.moved
        /\ d.at = c.at /\ d.ep = c.ep /\ d.offset = c.offset /\ d.sgIdx = c.sgIdx
        /\ d.sgOff = c.sgOff /\ d.pc = c.pc /\ d.xfer = c.xfer
        /\ d.ret = c.ret /\ d.way = c.way
    BY <2>1, Zenon DEF Unswept, SameBuffer, SameRequest, SamePlace, SameMoved, SameEnd
  <2>3. /\ IsAperture(p, d) <=> IsAperture(p, c)
        /\ IsFix(p, d) = IsFix(p, c) /\ CardOf(p, d) = CardOf(p, c)
        /\ Meaningful(p, d) <=> Meaningful(p, c)
        /\ \A m : MovedBy(p, d, m) = MovedBy(p, c, m)
        /\ ByteOf(p, d.req) = ByteOf(p, c.req)
    BY <2>2, SameCard
  <2>4. FreshInv(c) /\ BuildInv(p, c) /\ EndInv(p, c)
    BY DEF Progress
  <2>5. SoFar(p, d) = SoFar(p, c)
    BY <2>2, <2>3, Zenon DEF SoFar
  <2>6. FreshInv(d)
    BY <2>2, <2>4, Zenon DEF FreshInv
  <2>7. BuildInv(p, d)
    BY <2>2, <2>3, <2>4, <2>5, Zenon DEF BuildInv
  <2>8. EndInv(p, d)
    BY <2>2, <2>3, <2>4, Zenon DEF EndInv
  <2> QED BY <2>6, <2>7, <2>8, Zenon DEF ProgInv
<1> QED BY <1>1, Zenon DEF Progress, ProgInv

LEMMA ProgressNext ==
  ASSUME PathTypes, Lists, Modes, Progress, [PathNext]_pathVars
  PROVE  Progress'
<1>1. ASSUME NEW p \in Procs, Call(p) PROVE Progress'
  BY <1>1, BeginMoves
<1>2. ASSUME NEW p \in Procs, HostStep(p) PROVE Progress'
  BY <1>2, FailMoves, FreshMoves, TakeDescMoves, BuildMoves, BuildApertureMoves, RunAwayMoves,
     DoneMoves, CarryOutMoves, CarryFailsMoves, CleanMoves, Zenon DEF HostStep
<1>3. ASSUME NEW p \in GuestProcs, GuestStep(p) PROVE Progress'
  <2>1. p \in Procs
    BY DEF Procs
  <2> QED BY <1>3, <2>1, FailMoves, FreshMoves, CleanMoves, Zenon DEF GuestStep
<1>4. ASSUME NEW p \in HostProcs, LocalRefused(p) \/ MapLocal(p) PROVE Progress'
  <2>1. p \in Procs
    BY DEF Procs
  <2> QED BY <1>4, <2>1, FailMoves, FreshMoves, Zenon
<1>5. ASSUME UNCHANGED pathVars PROVE Progress'
  BY <1>5 DEF pathVars, Progress
<1> QED BY <1>1, <1>2, <1>3, <1>4, <1>5, AddrmodeMoves, SweepMoves DEF PathNext, Sweeps

LEMMA PathProgress == PathSpec => [](Modes /\ Progress)
<1>1. PathInit => Modes /\ Progress
  BY ModesInit, ProgressInit
<1>2. PathTypes /\ Lists /\ Modes /\ Progress /\ [PathNext]_pathVars => Modes' /\ Progress'
  BY ModesNext, ProgressNext
<1> QED BY <1>1, <1>2, PathTyped, PTL DEF PathSpec

-----------------------------------------------------------------------------
(* Every byte goes where it belongs.                                       *)

LEMMA MeantIs ==
  ASSUME NEW p \in Procs, Meaningful(p, call[p]), NEW n \in Int
  PROVE  Meant(p, n) = MovedBy(p, call[p], n)
<1> DEFINE c == call[p]
<1>1. ASSUME NEW k \in 0..n - 1
      PROVE  <<BufferByte(p, k), CardByte(p, k)>> = <<ByteOf(p, c.req)[k], CardOf(p, c)[k]>>
  <2>1. k \in Nat
    OBVIOUS
  <2>2. ByteOf(p, c.req)[k] = BufferByte(p, k)
    BY <2>1, Zenon DEF ByteOf, BufferByte
  <2>3. CardOf(p, c)[k] = IF IsFix(p, c) THEN c.req.ep
                          ELSE IF IsAperture(p, c) THEN c.req.ep + (k % c.req.aperture)
                          ELSE c.req.ep + k
    BY <2>1, Zenon DEF CardOf
  <2>4. CardByte(p, k) = IF c.mode THEN c.req.ep
                         ELSE IF IsAperture(p, c) THEN c.req.ep + (k % c.req.aperture)
                         ELSE c.req.ep + k
    BY Zenon DEF CardByte, Aperture, IsAperture
  <2>5. IsFix(p, c) <=> c.mode
    BY Zenon DEF IsFix, Meaningful
  <2> QED BY <2>2, <2>3, <2>4, <2>5, Zenon
<1> QED BY <1>1, Zenon DEF Meant, MovedBy

LEMMA ProgressExact ==
  ASSUME PathTypes, Lists, Progress
  PROVE  DmaExact
<1>1. SUFFICES ASSUME NEW p \in Procs, ~call[p].strayed, ~(Aperture(p) /\ call[p].mode)
      PROVE  /\ call[p].moved \subseteq (IF call[p].moved = {} THEN {}
                                         ELSE Meant(p, call[p].req.len))
             /\ At(p, "idle") /\ call[p].ret > 0 => Meant(p, call[p].ret) \subseteq call[p].moved
             /\ At(p, "idle") /\ call[p].way = "done" => call[p].ret = call[p].req.len
  BY Zenon DEF DmaExact
<1> DEFINE c == call[p]
<1>2. Meaningful(p, c)
  BY <1>1, Zenon DEF Meaningful, Aperture, IsAperture
<1>3. c \in Calls /\ c.req.len \in Nat
  BY CallTyped, RequestFields
<1>4. c.pc \in Fresh \/ c.pc \in Busy \/ c.pc \in Ending
  BY <1>3 DEF Calls, Pcs, Fresh, Busy, Ending
<1>5. c.done \in Nat /\ c.ret \in Int /\ c.req.len \in Int
  BY <1>3 DEF Calls
<1>6. FreshInv(c) /\ BuildInv(p, c) /\ EndInv(p, c)
  BY DEF Progress
<1>7. /\ Meant(p, c.req.len) = MovedBy(p, c, c.req.len)
      /\ Meant(p, c.ret) = MovedBy(p, c, c.ret)
  BY <1>2, <1>5, MeantIs
<1>8. c.moved # {} => c.moved \subseteq MovedBy(p, c, c.req.len)
  <2>1. CASE c.pc \in Fresh
    BY <1>6, <2>1, Zenon DEF FreshInv
  <2>2. CASE c.pc \in Busy
    <3>1. c.moved = MovedBy(p, c, c.done)
      BY <1>1, <1>2, <1>6, <2>2, Zenon DEF BuildInv
    <3>2. c.done <= c.req.len
      <4>1. /\ SoFar(p, c) \in Nat /\ SoFar(p, c) <= c.req.len
            /\ Total(c.xfer) \in Nat /\ c.done + Total(c.xfer) = SoFar(p, c)
        BY <1>1, <1>6, <2>2, SoFarInside
      <4> QED BY <1>3, <1>5, <4>1
    <3>3. MovedBy(p, c, c.done) \subseteq MovedBy(p, c, c.req.len)
      BY <1>3, <1>5, <3>2, MovedMonotone
    <3> QED BY <3>1, <3>3, Zenon
  <2>3. CASE c.pc \in Ending
    BY <1>1, <1>2, <1>6, <2>3, Zenon DEF EndInv
  <2> QED BY <1>4, <2>1, <2>2, <2>3
<1>9. ASSUME At(p, "idle")
      PROVE  /\ MovedBy(p, c, c.done) \subseteq c.moved
             /\ c.ret = c.done \/ (c.done = 0 /\ c.way # "done" /\ ~(c.ret > 0))
             /\ c.way = "done" => c.done = c.req.len
  <2>1. c.pc \in Ending
    BY <1>9 DEF At, Ending
  <2> QED BY <1>1, <1>2, <1>6, <2>1, Zenon DEF EndInv
<1> QED BY <1>7, <1>8, <1>9, Zenon

(* Between the buffer of the user and the card every byte goes where it    *)
(* belongs (fh_pin_pages, do_dma, map_remote_pages_to_sgl,                 *)
(* xdma_init_request, transfer_init, xdma_xfer_submit and the first entry  *)
(* of xdma_xfer_aperture): a call that reports n bytes has moved the first *)
(* n bytes, one that is done all of them, and none moves any other, for    *)
(* every buffer, memory, page size and ring.  Calls that have lost their   *)
(* way are left out: a pass over a window beyond its first entry or in one *)
(* whose size is no power of two, an addressing mode switched under the    *)
(* call; and the window of an engine that does not increment addresses.    *)
THEOREM TransfersAreExact == PathSpec => []DmaExact
<1>1. PathTypes /\ Lists /\ Progress => DmaExact
  BY ProgressExact
<1> QED BY <1>1, PathTyped, PathProgress, PTL

-----------------------------------------------------------------------------
(* The chain the engine is started on                                      *)

LEMMA ModShift ==
  ASSUME NEW A \in Nat \ {0}, NEW m \in Nat, NEW n \in Nat
  PROVE  (A * m + n) % A = n % A
<1> DEFINE q == n \div A
           r == n % A
           x == A * m + n
<1>1. q \in Nat /\ r \in 0..A - 1 /\ n = A * q + r
  BY Division
<1> HIDE DEF q, r
<1>2. A * (m + q) = A * m + A * q /\ A * m \in Nat /\ A * q \in Nat
  BY <1>1
<1>3. x \in Nat /\ x = A * (m + q) + r /\ m + q \in Int
  BY <1>1, <1>2
<1> HIDE DEF x
<1>4. x % A = r
  BY <1>1, <1>3, DivisionUnique
<1> QED BY <1>4 DEF x, r

LEMMA ModOfMod ==
  ASSUME NEW A \in Nat \ {0}, NEW P \in Nat \ {0}, P % A = 0, NEW n \in Nat
  PROVE  (n % P) % A = n % A
<1> DEFINE q == n \div P
           t == n % P
           u == P \div A
<1>1. q \in Nat /\ t \in 0..P - 1 /\ n = P * q + t
  BY Division
<1>2. u \in Nat /\ P = A * u
  <2>1. u \in Nat /\ P = A * u + (P % A)
    BY Division
  <2> HIDE DEF u
  <2>2. A * u \in Nat
    BY <2>1
  <2> QED BY <2>1, <2>2
<1> HIDE DEF q, t, u
<1>3. u * q \in Nat /\ P * q = A * (u * q)
  BY <1>1, <1>2
<1>4. n = A * (u * q) + t /\ t \in Nat
  BY <1>1, <1>3
<1>5. (A * (u * q) + t) % A = t % A
  BY <1>3, <1>4, ModShift
<1> QED BY <1>4, <1>5 DEF t

SameMod(a, b, A) == a % A = b % A

LEMMA ModSum ==
  ASSUME NEW A \in Nat \ {0}, NEW a \in Nat, NEW b \in Nat, SameMod(a, b, A), NEW k \in Nat
  PROVE  SameMod(a + k, b + k, A)
<1> DEFINE u == a \div A
           v == b \div A
           r == a % A
           s == b % A
<1>1. /\ u \in Nat /\ r \in 0..A - 1 /\ a = A * u + r
      /\ v \in Nat /\ s \in 0..A - 1 /\ b = A * v + s
  BY Division
<1>2. r = s
  BY Zenon DEF SameMod
<1> HIDE DEF u, v, r, s
<1>3. A * u \in Nat /\ A * v \in Nat /\ r + k \in Nat
  BY <1>1
<1>4. a + k = A * u + (r + k) /\ b + k = A * v + (r + k)
  BY <1>1, <1>2, <1>3
<1>5. (A * u + (r + k)) % A = (r + k) % A /\ (A * v + (r + k)) % A = (r + k) % A
  BY <1>1, <1>3, ModShift
<1>6. (a + k) % A = (b + k) % A
  BY <1>4, <1>5
<1> QED BY <1>6, Zenon DEF SameMod

\* A byte of the buffer lies in one of its frames.
InFrame(p, r, k) ==
  \E j \in 1..Len(BufferFrames(p, r)) :
    LET page == BufferFrames(p, r)[j].page
    IN /\ page \in Nat
       /\ ByteOf(p, r)[k] = page * PageSize + ((r.buf + k) % PageSize)
       /\ ByteOf(p, r)[k] \in Nat
       /\ ByteOf(p, r)[k] \div PageSize = page

LEMMA ByteInFrame ==
  ASSUME NEW p \in Procs, NEW r, RequestOK(p, r), Present(p, r), Known(p, r),
         NEW k \in 0..r.len - 1
  PROVE  InFrame(p, r, k)
<1> DEFINE P == PageSize
           buf == r.buf
           len == r.len
           n == PageCount(buf, len)
           q == buf \div P
           m == (buf + k) \div P
           t == (buf + k) % P
           j == m - q + 1
           frames == BufferFrames(p, r)
           pages == BufferPages(p, r)
<1>0. P \in Nat \ {0} /\ buf \in Nat /\ len \in Nat /\ k \in Nat /\ k < len
  BY ListBounds, RequestFields
<1>1. n \in Nat /\ P * (q + n) >= buf + len
  BY <1>0, PagesReach
<1>2. q \in Nat /\ buf % P \in 0..P - 1 /\ buf = P * q + (buf % P)
  <2> HIDE DEF P, buf
  <2> QED BY <1>0, Division
<1>3. m \in Nat /\ t \in 0..P - 1 /\ buf + k = P * m + t
  <2> DEFINE x == buf + k
  <2>1. x \in Nat
    BY <1>0
  <2> HIDE DEF x, P
  <2>2. x \div P \in Nat /\ x % P \in 0..P - 1 /\ x = P * (x \div P) + (x % P)
    BY <1>0, <2>1, Division
  <2> QED BY <2>2 DEF x
<1>4. /\ frames \in Seq(PageChunks) /\ Len(frames) = n
      /\ \A i \in 1..n : frames[i].page = Frame(p, pages[i])
  BY FramesAre, Zenon
<1>5. \A i \in 1..n : pages[i] = UserPage[p][q + i]
  BY PagesTyped, Zenon
<1>6. ByteOf(p, r)[k] = Frame(p, UserPage[p][m + 1]) * P + t
  BY <1>0, Zenon DEF ByteOf
<1> DEFINE w == buf % P
<1> HIDE DEF P, buf, len, n, q, m, t, frames, pages, w
<1>7. P * q \in Nat /\ P * m \in Nat /\ P * (q + n) \in Nat
  BY <1>0, <1>1, <1>2, <1>3
<1>8. q <= m
  <2>1. SUFFICES ASSUME m < q PROVE FALSE
    BY <1>2, <1>3
  <2>2. P * m + P <= P * q
    BY <1>0, <1>2, <1>3, <2>1, Products
  <2>3. w \in 0..P - 1 /\ buf = P * q + w
    BY <1>2 DEF w
  <2> QED BY <1>0, <1>3, <1>7, <2>2, <2>3
<1>9. m < q + n
  <2>1. SUFFICES ASSUME q + n <= m PROVE FALSE
    BY <1>1, <1>2, <1>3
  <2>2. q + n = m \/ q + n < m
    BY <1>1, <1>2, <1>3, <2>1
  <2>3. P * (q + n) <= P * m
    <3>1. CASE q + n = m
      BY <1>7, <3>1
    <3>2. CASE q + n < m
      <4>1. P * (q + n) + P <= P * m
        BY <1>0, <1>1, <1>2, <1>3, <3>2, Products
      <4> QED BY <1>0, <1>7, <4>1
    <3> QED BY <2>2, <3>1, <3>2
  <2> QED BY <1>0, <1>1, <1>3, <1>7, <2>3
<1>10. j \in 1..n /\ q + j = m + 1
  BY <1>1, <1>2, <1>3, <1>8, <1>9
<1> DEFINE page == frames[j].page
<1>11. page = Frame(p, UserPage[p][m + 1])
  <2>1. page = Frame(p, pages[j]) /\ pages[j] = UserPage[p][q + j]
    BY <1>4, <1>5, <1>10, Zenon
  <2> QED BY <1>10, <2>1, Zenon
<1>12. page \in Nat
  <2>1. frames[j] \in PageChunks
    BY <1>4, <1>10
  <2> QED BY <2>1 DEF PageChunks
<1>13. ByteOf(p, r)[k] = page * P + t
  BY <1>6, <1>11, Zenon
<1> DEFINE a == ByteOf(p, r)[k]
<1>14. j \in 1..Len(frames)
  BY <1>4, <1>10, Zenon
<1> HIDE DEF page, j
<1>15. a \in Nat /\ a = P * page + t
  <2>1. page * P = P * page /\ P * page \in Nat
    BY <1>0, <1>12
  <2> HIDE DEF a
  <2>2. a = page * P + t
    BY <1>13 DEF a
  <2> QED BY <1>3, <2>1, <2>2
<1>16. a \div P = page
  <2> HIDE DEF a
  <2> QED BY <1>0, <1>3, <1>12, <1>15, DivisionUnique
<1> QED BY <1>12, <1>13, <1>14, <1>15, <1>16, Zenon DEF InFrame, page, a, P, t, frames, buf

\* The byte of the buffer that byte b of descriptor i is
ByteIndex(c, i, b) == c.done + Upto(c.xfer)[i - 1] + b

Serves(p, c, i, b, k) ==
  /\ k = ByteIndex(c, i, b) /\ k \in 0..c.req.len - 1
  /\ c.xfer[i].addr + b = ByteOf(p, c.req)[k]
  /\ OnCard(c.xfer[i], b, IsFix(p, c)) = CardOf(p, c)[k]
  /\ InFrame(p, c.req, k)

LEMMA RunByte ==
  ASSUME PathTypes, Lists, Progress, NEW p \in Procs, call[p].pc = "run", ~call[p].strayed,
         NEW i \in DOMAIN call[p].xfer, NEW b \in 0..call[p].xfer[i].len - 1
  PROVE  Serves(p, call[p], i, b, ByteIndex(call[p], i, b))
<1> DEFINE c == call[p]
           x == c.xfer
           u == Upto(x)[i - 1]
           v == Upto(x)[i]
           e == x[i].len
           k == c.done + u + b
           t == Total(x)
           n == c.done
           len == c.req.len
<1>1. c.pc \in Busy /\ c.pc \in Framed
  BY DEF Busy, Framed
<1>2. BuildInv(p, c) /\ ListInv(p, c, sit.merge)
  BY DEF Progress, Lists
<1>3. /\ SoFar(p, c) \in Nat /\ SoFar(p, c) <= len /\ n \in Nat /\ t \in Nat /\ len \in Nat
      /\ n + t = SoFar(p, c)
  BY <1>1, <1>2, SoFarInside
<1>4. Carries(x, n, IsFix(p, c), ByteOf(p, c.req), CardOf(p, c))
  BY <1>1, <1>2, Zenon DEF BuildInv
<1>5. c \in Calls /\ RequestOK(p, c.req)
  BY CallTyped
<1>6. x \in Seq(RingDescs)
  BY <1>5 DEF Calls
<1>7. Measured(x) /\ DOMAIN x = 1..Len(x)
  BY <1>6, RingMeasured
<1>8. i \in 1..Len(x) /\ Len(x) \in Nat /\ e \in Nat
  <2>1. i \in 1..Len(x)
    BY <1>7, Zenon
  <2> QED BY <1>7, <2>1, Zenon DEF Measured
<1>9. u \in Nat /\ v <= t /\ v = u + e
  <2>1. /\ Counts(x, Upto(x))
        /\ \A j \in 0..Len(x) : Upto(x)[j] \in Nat /\ Upto(x)[j] <= Total(x)
    BY <1>7, UptoFacts
  <2>2. i - 1 \in 0..Len(x) /\ i \in 0..Len(x)
    BY <1>8
  <2>3. v = u + e
    BY <1>8, <2>1, Zenon DEF Counts
  <2> QED BY <2>1, <2>2, <2>3, Zenon
<1>10. b \in 0..e - 1
  OBVIOUS
<1>11. /\ x[i].addr + b = ByteOf(p, c.req)[k]
       /\ OnCard(x[i], b, IsFix(p, c)) = CardOf(p, c)[k]
  BY <1>4, <1>8, <1>10, Zenon DEF Carries
<1>12. Present(p, c.req) /\ Known(p, c.req)
  BY <1>1, <1>2, Zenon DEF ListInv, FramesInv
<1>13. k = ByteIndex(c, i, b)
  BY Zenon DEF ByteIndex
<1> HIDE DEF u, v, e, t, n, len
<1>14. k \in 0..c.req.len - 1
  <2>1. b \in Nat /\ b < e
    BY <1>8, <1>10
  <2>2. n + u + b \in 0..len - 1
    BY <1>3, <1>8, <1>9, <2>1
  <2> QED BY <2>2 DEF n, len
<1> HIDE DEF k
<1>15. InFrame(p, c.req, k)
  BY <1>5, <1>12, <1>14, ByteInFrame
<1> QED BY <1>11, <1>13, <1>14, <1>15, Zenon DEF Serves

\* The addresses of a descriptor agree modulo the alignment of the engine.
LEMMA DescAligned ==
  ASSUME PathTypes, Lists, Modes, Progress, NEW p \in Procs, call[p].pc = "run",
         ~call[p].strayed, ~fixed, Aperture(p) => call[p].req.aperture % AddrAlign = 0,
         NEW i \in DOMAIN call[p].xfer
  PROVE  call[p].xfer[i].addr % AddrAlign = call[p].xfer[i].ep % AddrAlign
<1> DEFINE c == call[p]
           d == c.xfer[i]
           k == ByteIndex(c, i, 0)
           A == AddrAlign
           ep == c.req.ep
           buf == c.req.buf
           ap == c.req.aperture
<1>1. c \in Calls /\ RequestOK(p, c.req)
  BY CallTyped
<1>2. ep \in Nat /\ buf \in Nat /\ ap \in Nat \ {0} /\ A \in Nat \ {0} /\ PageSize \in Nat \ {0}
      /\ PageSize % A = 0
  BY <1>1, RequestFields, DmaConstants, ListBounds
<1>3. d \in RingDescs
  <2>1. c.xfer \in Seq(RingDescs)
    BY <1>1 DEF Calls
  <2>2. DOMAIN c.xfer = 1..Len(c.xfer) /\ \A j \in 1..Len(c.xfer) : c.xfer[j] \in RingDescs
    BY <2>1, RingMeasured
  <2> QED BY <2>2, Zenon
<1>4. d.addr \in Nat /\ d.ep \in Nat /\ d.len \in 1..DescBlenMax
  BY <1>3 DEF RingDescs
<1>5. 0 \in 0..d.len - 1
  BY <1>4, ListBounds
<1>6. Serves(p, c, i, 0, k)
  BY <1>5, RunByte
<1>7. /\ k \in 0..c.req.len - 1 /\ d.addr + 0 = ByteOf(p, c.req)[k]
      /\ OnCard(d, 0, IsFix(p, c)) = CardOf(p, c)[k] /\ InFrame(p, c.req, k)
  BY <1>6, Zenon DEF Serves
<1>8. c.mode = fixed /\ buf % A = ep % A
  <2>1. c.pc # "idle" /\ c.pc \in Framed
    BY DEF Framed
  <2>2. c.mode = fixed
    BY <2>1, ModeOf
  <2> QED BY <2>1, <2>2, ModeOf
<1>9. ~IsFix(p, c)
  BY <1>8, Zenon DEF IsFix
<1>10. k \in Nat
  BY <1>7
<1>11. PICK page \in Nat : d.addr = page * PageSize + ((buf + k) % PageSize)
  <2>1. d.addr + 0 = d.addr
    BY <1>4
  <2>2. PICK j \in 1..Len(BufferFrames(p, c.req)) :
          /\ BufferFrames(p, c.req)[j].page \in Nat
          /\ ByteOf(p, c.req)[k] = BufferFrames(p, c.req)[j].page * PageSize
                                     + ((buf + k) % PageSize)
    BY <1>7, Zenon DEF InFrame
  <2> QED BY <1>7, <2>1, <2>2, Zenon
<1>12. d.ep = IF IsAperture(p, c) THEN ep + (k % ap) ELSE ep + k
  <2>1. CardOf(p, c)[k] = IF IsAperture(p, c) THEN ep + (k % ap) ELSE ep + k
    BY <1>9, <1>10, Zenon DEF CardOf
  <2>2. OnCard(d, 0, IsFix(p, c)) = d.ep + 0
    BY <1>9, Zenon DEF OnCard
  <2>3. d.ep + 0 = d.ep
    BY <1>4
  <2> QED BY <1>7, <2>1, <2>2, <2>3, Zenon
<1> DEFINE x == d.addr
           y == d.ep
           s == buf + k
           h == s % PageSize
<1>13. IsAperture(p, c) => ap % A = 0
  BY Zenon DEF Aperture, IsAperture
<1>14. s \in Nat /\ x = page * PageSize + h
  BY <1>2, <1>10, <1>11
<1>15. y = IF IsAperture(p, c) THEN ep + (k % ap) ELSE ep + k
  BY <1>12
<1> HIDE DEF x, y, k, A, ep, buf, ap
<1>16. x % A = s % A
  <2> HIDE DEF s
  <2>1. h \in Nat
    <3>1. h \in 0..PageSize - 1
      BY <1>2, <1>14, Division
    <3> QED BY <1>2, <3>1
  <2>2. h % A = s % A
    BY <1>2, <1>14, ModOfMod
  <2> DEFINE z == PageSize \div A
  <2>3. z \in Nat /\ PageSize = A * z + (PageSize % A)
    BY <1>2, Division
  <2> HIDE DEF h, z
  <2>4. PageSize = A * z
    <3>1. A * z \in Nat
      BY <1>2, <2>3
    <3> QED BY <1>2, <2>3, <3>1
  <2>5. z * page \in Nat /\ page * PageSize = A * (z * page)
    BY <1>2, <2>3, <2>4
  <2>6. (A * (z * page) + h) % A = h % A
    BY <1>2, <2>1, <2>5, ModShift
  <2> QED BY <1>14, <2>2, <2>5, <2>6
<1>17. s % A = (ep + k) % A
  <2>1. SameMod(buf, ep, A)
    BY <1>8, Zenon DEF SameMod
  <2>2. SameMod(buf + k, ep + k, A)
    BY <1>2, <1>10, <2>1, ModSum
  <2> QED BY <2>2, Zenon DEF SameMod
<1>18. y % A = (ep + k) % A
  <2>1. CASE ~IsAperture(p, c)
    BY <1>15, <2>1
  <2>2. CASE IsAperture(p, c)
    <3> DEFINE g == k % ap
    <3>1. g \in Nat
      <4>1. g \in 0..ap - 1
        BY <1>2, <1>10, Division
      <4> QED BY <1>2, <4>1
    <3>2. g % A = k % A
      BY <1>2, <1>10, <1>13, <2>2, ModOfMod
    <3>3. y = ep + g
      BY <1>15, <2>2
    <3> HIDE DEF g
    <3>4. (g + ep) % A = (k + ep) % A
      <4>1. SameMod(g, k, A)
        BY <3>2, Zenon DEF SameMod
      <4>2. SameMod(g + ep, k + ep, A)
        BY <1>2, <1>10, <3>1, <4>1, ModSum
      <4> QED BY <4>2, Zenon DEF SameMod
    <3>5. g + ep = ep + g /\ k + ep = ep + k
      BY <1>2, <1>10, <3>1
    <3> QED BY <3>3, <3>4, <3>5
  <2> QED BY <2>1, <2>2
<1> QED BY <1>16, <1>17, <1>18 DEF x, y, A

LEMMA ChainSound ==
  ASSUME NEW x, x # <<>>, Chain(x)
  PROVE  LET first == x[1].slot
             end == first + Len(x)
         IN /\ end <= RingSize
            /\ FetchedInside(first, GetNextAdj(Len(x), first), end)
            /\ \A i \in DOMAIN x :
                 /\ x[i].slot = first + i - 1
                 /\ x[i].len \in 1..DescBlenMax
                 /\ i < Len(x) => /\ x[i].next = x[i + 1].slot /\ ~x[i].stop
                                  /\ FetchedInside(x[i].next, x[i].adj, end)
                 /\ i = Len(x) => x[i].stop /\ x[i].adj = 0
<1>1. PICK descs \in Seq(CardDescs), first \in Nat : IsLinked(x, descs, first)
  BY Zenon DEF Chain
<1> DEFINE n == Len(x)
           end == first + n
<1>2. /\ x \in Seq(RingDescs) /\ n = Len(descs) /\ first + n <= RingSize
      /\ \A i \in 1..n :
           /\ x[i].slot = first + i - 1
           /\ x[i].next = IF i = n THEN RingSize ELSE first + i
           /\ x[i].adj = GetNextAdj(n - i, first + i)
           /\ x[i].stop = (i = n)
  BY <1>1, Zenon DEF IsLinked
<1>3. n \in Nat \ {0} /\ DOMAIN x = 1..n /\ \A i \in 1..n : x[i] \in RingDescs
  BY <1>2
<1>4. \A left \in Nat \ {0}, next \in Nat : left + next = end =>
        FetchedInside(next, GetNextAdj(left, next), end)
  <2>1. SUFFICES ASSUME NEW left \in Nat \ {0}, NEW next \in Nat, left + next = end
                 PROVE  FetchedInside(next, GetNextAdj(left, next), end)
    OBVIOUS
  <2> DEFINE adj == GetNextAdj(left, next)
  <2>2. adj \in 0..left - 1 /\ next \div AdjBlock = (next + adj) \div AdjBlock
    BY AdjInside
  <2> HIDE DEF adj, n
  <2>3. next + adj < end
    BY <2>1, <2>2
  <2> QED BY <2>2, <2>3 DEF FetchedInside, adj
<1> HIDE DEF n
<1>5. x[1].slot = first
  <2>1. 1 \in 1..n
    BY <1>3
  <2>2. x[1].slot = first + 1 - 1
    BY <1>2, <2>1, Zenon
  <2> QED BY <2>2
<1>6. FetchedInside(first, GetNextAdj(n, first), end)
  BY <1>3, <1>4
<1>7. ASSUME NEW i \in 1..n
      PROVE  /\ x[i].len \in 1..DescBlenMax
             /\ i < n => /\ x[i].next = x[i + 1].slot /\ ~x[i].stop
                         /\ FetchedInside(x[i].next, x[i].adj, end)
             /\ i = n => x[i].stop /\ x[i].adj = 0
  <2>1. x[i].len \in 1..DescBlenMax
    BY <1>3 DEF RingDescs
  <2>2. ASSUME i < n
        PROVE  /\ x[i].next = x[i + 1].slot /\ ~x[i].stop
               /\ FetchedInside(x[i].next, x[i].adj, end)
    <3>1. i # n /\ i + 1 \in 1..n /\ n - i \in Nat \ {0} /\ first + i \in Nat
          /\ (n - i) + (first + i) = end /\ first + (i + 1) - 1 = first + i
      BY <1>3, <2>2
    <3>2. x[i].next = first + i /\ x[i].adj = GetNextAdj(n - i, first + i) /\ ~x[i].stop
      BY <1>2, <3>1, Zenon
    <3>3. x[i + 1].slot = first + (i + 1) - 1
      BY <1>2, <3>1, Zenon
    <3>4. FetchedInside(first + i, GetNextAdj(n - i, first + i), end)
      BY <1>4, <3>1
    <3> QED BY <3>1, <3>2, <3>3, <3>4, Zenon
  <2>3. ASSUME i = n PROVE x[i].stop /\ x[i].adj = 0
    <3>1. x[i].stop /\ x[i].adj = GetNextAdj(n - i, first + i)
      BY <1>2, <2>3, Zenon
    <3>2. GetNextAdj(n - i, first + i) = 0
      BY <1>3, <2>3 DEF GetNextAdj
    <3> QED BY <3>1, <3>2, Zenon
  <2> QED BY <2>1, <2>2, <2>3
<1> QED BY <1>2, <1>3, <1>5, <1>6, <1>7, Zenon DEF n

LEMMA ChainsSound ==
  ASSUME PathTypes, Lists, Modes, Progress
  PROVE  DescriptorsSound
<1>1. ASSUME NEW p \in Procs, At(p, "run") PROVE call[p].xfer # <<>> /\ Chain(call[p].xfer)
  BY <1>1, Zenon DEF At, Lists, ListInv, RunInv
<1>2. ASSUME NEW p \in Procs, At(p, "run"), NEW i \in DOMAIN call[p].xfer,
             ~call[p].strayed /\ ~fixed,
             Aperture(p) => call[p].req.aperture % AddrAlign = 0
      PROVE  call[p].xfer[i].addr % AddrAlign = call[p].xfer[i].ep % AddrAlign
  BY <1>2, DescAligned DEF At
<1> QED BY <1>1, <1>2, ChainSound, Zenon DEF DescriptorsSound

(* What the engine is started on (transfer_init, transfer_build,           *)
(* xdma_get_next_adj and the passes of xdma_xfer_aperture) is a chain it   *)
(* can walk, for every size of ring, block and descriptor; and aligned,    *)
(* unless the call has lost its way or the engine increments no addresses. *)
THEOREM ChainsAreSound == PathSpec => []DescriptorsSound
<1>1. PathTypes /\ Lists /\ Modes /\ Progress => DescriptorsSound
  BY ChainsSound
<1> QED BY <1>1, PathTyped, PathProgress, PTL

-----------------------------------------------------------------------------
(* Bags of pages                                                           *)

\* The references a bag holds on a page, and the occurrences of a page in a list.
Copies(B, x) == IF x \in DOMAIN B THEN B[x] ELSE 0
Count(s, x)  == Cardinality({i \in DOMAIN s : s[i] = x})

LEMMA CopiesTyped ==
  ASSUME NEW B, IsABag(B), NEW x
  PROVE  Copies(B, x) \in Nat /\ (Copies(B, x) > 0 <=> BagIn(x, B))
<1>1. x \in DOMAIN B => B[x] \in Nat /\ B[x] > 0
  BY DEF IsABag
<1> QED BY <1>1 DEF Copies, BagIn, BagToSet

LEMMA SameBag ==
  ASSUME NEW A, IsABag(A), NEW B, IsABag(B), \A x : Copies(A, x) = Copies(B, x)
  PROVE  A = B
<1>1. ASSUME NEW x PROVE x \in DOMAIN A <=> x \in DOMAIN B
  <2>1. Copies(A, x) > 0 <=> x \in DOMAIN A
    BY CopiesTyped DEF BagIn, BagToSet
  <2>2. Copies(B, x) > 0 <=> x \in DOMAIN B
    BY CopiesTyped DEF BagIn, BagToSet
  <2> QED BY <2>1, <2>2
<1>2. DOMAIN A = DOMAIN B
  BY <1>1
<1>3. \A x \in DOMAIN A : A[x] = B[x]
  BY <1>2 DEF Copies
<1>4. A = [x \in DOMAIN A |-> A[x]] /\ B = [x \in DOMAIN B |-> B[x]]
  BY DEF IsABag
<1> QED BY <1>2, <1>3, <1>4

LEMMA BagAdded ==
  ASSUME NEW A, IsABag(A), NEW B, IsABag(B)
  PROVE  /\ IsABag(A (+) B)
         /\ \A x : Copies(A (+) B, x) = Copies(A, x) + Copies(B, x)
<1> DEFINE D == DOMAIN A \cup DOMAIN B
           f == [e \in D |-> Copies(A, e) + Copies(B, e)]
<1>1. A (+) B = f
  BY DEF (+), Copies
<1> HIDE DEF f
<1>2. DOMAIN f = D /\ \A e \in D : f[e] = Copies(A, e) + Copies(B, e)
  BY DEF f
<1>3. f = [e \in D |-> f[e]]
  BY DEF f
<1>4. ASSUME NEW e \in D PROVE f[e] \in Nat /\ f[e] > 0
  <2>1. Copies(A, e) \in Nat /\ (Copies(A, e) > 0 <=> e \in DOMAIN A)
    BY CopiesTyped DEF BagIn, BagToSet
  <2>2. Copies(B, e) \in Nat /\ (Copies(B, e) > 0 <=> e \in DOMAIN B)
    BY CopiesTyped DEF BagIn, BagToSet
  <2> QED BY <1>2, <2>1, <2>2
<1>5. IsABag(f)
  BY <1>2, <1>3, <1>4 DEF IsABag
<1>6. ASSUME NEW x PROVE Copies(f, x) = Copies(A, x) + Copies(B, x)
  <2>1. CASE x \in D
    BY <1>2, <2>1 DEF Copies
  <2>2. CASE x \notin D
    BY <1>2, <2>2 DEF Copies
  <2> QED BY <2>1, <2>2
<1> QED BY <1>1, <1>5, <1>6

LEMMA BagTaken ==
  ASSUME NEW A, IsABag(A), NEW B, IsABag(B)
  PROVE  /\ IsABag(A (-) B)
         /\ \A x : Copies(B, x) <= Copies(A, x) =>
                     Copies(A (-) B, x) = Copies(A, x) - Copies(B, x)
<1> DEFINE g == [e \in DOMAIN A |-> IF e \in DOMAIN B THEN A[e] - B[e] ELSE A[e]]
           D == {d \in DOMAIN g : g[d] > 0}
           f == [e \in D |-> g[e]]
<1>1. A (-) B = f
  BY DEF (-)
<1>2. \A e \in DOMAIN A : A[e] \in Nat /\ A[e] > 0
  BY DEF IsABag
<1>3. \A e \in DOMAIN B : B[e] \in Nat /\ B[e] > 0
  BY DEF IsABag
<1>4. DOMAIN g = DOMAIN A /\ \A e \in DOMAIN A : g[e] = A[e] - Copies(B, e) /\ g[e] \in Int
  BY <1>2, <1>3 DEF Copies
<1> HIDE DEF g
<1>5. DOMAIN f = D /\ \A e \in D : f[e] = g[e]
  OBVIOUS
<1>6. f = [e \in D |-> f[e]]
  OBVIOUS
<1>7. \A e \in D : g[e] \in Nat /\ g[e] > 0
  BY <1>4
<1> HIDE DEF f
<1>8. IsABag(f)
  BY <1>5, <1>6, <1>7 DEF IsABag
<1>9. ASSUME NEW x, Copies(B, x) <= Copies(A, x)
      PROVE  Copies(f, x) = Copies(A, x) - Copies(B, x)
  <2>1. Copies(B, x) \in Nat /\ Copies(A, x) \in Nat
    BY CopiesTyped
  <2>2. CASE x \in D
    <3>1. Copies(f, x) = g[x] /\ x \in DOMAIN A
      BY <1>4, <1>5, <2>2 DEF Copies
    <3> QED BY <1>4, <3>1 DEF Copies
  <2>3. CASE x \notin D /\ x \in DOMAIN A
    <3>1. Copies(f, x) = 0 /\ ~(g[x] > 0)
      BY <1>4, <1>5, <2>3 DEF Copies
    <3>2. g[x] = Copies(A, x) - Copies(B, x)
      BY <1>4, <2>3 DEF Copies
    <3> QED BY <1>9, <2>1, <3>1, <3>2
  <2>4. CASE x \notin DOMAIN A
    <3>1. Copies(f, x) = 0 /\ Copies(A, x) = 0
      BY <1>4, <1>5, <2>4 DEF Copies
    <3> QED BY <1>9, <2>1, <3>1
  <2> QED BY <2>2, <2>3, <2>4
<1> QED BY <1>1, <1>8, <1>9

LEMMA CountTyped ==
  ASSUME NEW S, NEW s \in Seq(S), NEW x
  PROVE  /\ Count(s, x) \in Nat
         /\ Count(s, x) > 0 <=> \E i \in DOMAIN s : s[i] = x
<1> DEFINE I == {i \in DOMAIN s : s[i] = x}
<1>1. DOMAIN s = 1..Len(s) /\ Len(s) \in Nat
  OBVIOUS
<1>2. IsFiniteSet(1..Len(s))
  BY <1>1, FS_Interval
<1>3. I \in SUBSET (1..Len(s))
  BY <1>1
<1>4. (I # {}) <=> \E i \in DOMAIN s : s[i] = x
  OBVIOUS
<1> HIDE DEF I
<1>5. IsFiniteSet(I)
  BY <1>2, <1>3, FS_Subset
<1>6. Cardinality(I) \in Nat /\ (Cardinality(I) = 0 <=> I = {})
  BY <1>5, FS_CardinalityType, FS_EmptySet
<1>7. Count(s, x) = Cardinality(I)
  BY DEF Count, I
<1> QED BY <1>4, <1>6, <1>7

LEMMA ToBagCounts ==
  ASSUME NEW S, NEW s \in Seq(S)
  PROVE  IsABag(ToBag(s)) /\ \A x : Copies(ToBag(s), x) = Count(s, x)
<1> DEFINE R == {s[i] : i \in DOMAIN s}
           f == [x \in R |-> Count(s, x)]
<1>1. ToBag(s) = f
  BY Zenon DEF ToBag, Range, Count
<1> HIDE DEF f
<1>2. DOMAIN f = R /\ (\A x \in R : f[x] = Count(s, x)) /\ f = [x \in R |-> f[x]]
  BY DEF f
<1>3. ASSUME NEW x PROVE Count(s, x) \in Nat /\ (Count(s, x) > 0 <=> x \in R)
  BY CountTyped
<1> HIDE DEF R
<1>4. IsABag(f)
  BY <1>2, <1>3 DEF IsABag
<1>5. ASSUME NEW x PROVE Copies(f, x) = Count(s, x)
  <2>1. CASE x \in R
    BY <1>2, <2>1 DEF Copies
  <2>2. CASE x \notin R
    BY <1>2, <1>3, <2>2 DEF Copies
  <2> QED BY <2>1, <2>2
<1> QED BY <1>1, <1>4, <1>5

\* Occurrences of a page on the lists of others than p
Others(L, p, x) == {e \in Entries(L) : e[1] # p /\ L[e[1]][e[2]].page = x}

\* One list of pages for each process of a finite set.
PerProc(P, L) == IsFiniteSet(P) /\ L \in [P -> Seq(PageChunks)]

\* They differ in the list of p at most.
ButFor(P, p, L, M) == \A q \in P \ {p} : M[q] = L[q]

EntryOf(P, L, e) == \E p \in P : \E i \in DOMAIN L[p] : e = <<p, i>>

LEMMA EntriesAre ==
  ASSUME NEW P, NEW L, PerProc(P, L)
  PROVE  /\ \A e : e \in Entries(L) <=> EntryOf(P, L, e)
         /\ IsFiniteSet(Entries(L))
<1> DEFINE f == [p \in P |-> {p} \X DOMAIN L[p]]
           T == {f[p] : p \in P}
<1> USE DEF PerProc
<1>1. Entries(L) = UNION T
  BY DEF Entries
<1>2. ASSUME NEW e PROVE e \in UNION T <=> \E p \in P : \E i \in DOMAIN L[p] : e = <<p, i>>
  <2>1. ASSUME NEW p \in P PROVE e \in f[p] <=> \E i \in DOMAIN L[p] : e = <<p, i>>
    OBVIOUS
  <2> HIDE DEF f
  <2>2. e \in UNION T <=> \E p \in P : e \in f[p]
    OBVIOUS
  <2> HIDE DEF T
  <2> QED BY <2>1, <2>2, Zenon
<1>3. ASSUME NEW p \in P PROVE IsFiniteSet(f[p])
  <2> DEFINE D == DOMAIN L[p]
             Q == {p}
  <2>1. D = 1..Len(L[p]) /\ Len(L[p]) \in Nat
    OBVIOUS
  <2>2. IsFiniteSet(D)
    BY <2>1, FS_Interval
  <2>3. IsFiniteSet(Q)
    BY FS_Singleton
  <2>4. f[p] = Q \X D
    OBVIOUS
  <2> HIDE DEF D, Q, f
  <2> QED BY <2>2, <2>3, <2>4, FS_Product
<1>4. f \in Surjection(P, T)
  BY Zenon DEF Surjection
<1> HIDE DEF f
<1>5. \A t \in T : IsFiniteSet(t)
  BY <1>3
<1> HIDE DEF T
<1>6. IsFiniteSet(T)
  BY <1>4, FS_Surjection
<1>7. IsFiniteSet(UNION T)
  BY <1>5, <1>6, FS_UNION
<1> QED BY <1>1, <1>2, <1>7, Zenon DEF EntryOf

LEMMA TimesSplit ==
  ASSUME NEW P, NEW L, PerProc(P, L), NEW p \in P, NEW x
  PROVE  /\ Cardinality(Others(L, p, x)) \in Nat /\ Count(PagesOf(L[p]), x) \in Nat
         /\ Times(x, L) = Cardinality(Others(L, p, x)) + Count(PagesOf(L[p]), x)
<1> DEFINE A == {e \in Entries(L) : L[e[1]][e[2]].page = x}
           O == Others(L, p, x)
           l == L[p]
           I == {i \in DOMAIN l : l[i].page = x}
           Q == {p}
           B == Q \X I
<1>1. IsFiniteSet(Entries(L))
  BY EntriesAre, Zenon
<1>2. ASSUME NEW e PROVE e \in Entries(L) <=> EntryOf(P, L, e)
  BY EntriesAre, Zenon
<1>3. A \in SUBSET Entries(L) /\ O \in SUBSET Entries(L)
  BY DEF Others
<1>4. l \in Seq(PageChunks) /\ DOMAIN l = 1..Len(l) /\ Len(l) \in Nat
  BY DEF PerProc
<1>5. I \in SUBSET (1..Len(l))
  BY <1>4
<1>6. A = O \cup B
  <2>1. ASSUME NEW e \in A PROVE e \in O \/ e \in B
    <3>0. PICK q \in P : \E i \in DOMAIN L[q] : e = <<q, i>>
      BY <1>2 DEF EntryOf
    <3>1. PICK i \in DOMAIN L[q] : e = <<q, i>>
      BY <3>0
    <3>2. e[1] = q /\ e[2] = i /\ L[q][i].page = x
      BY <3>1
    <3>3. CASE q = p
      BY <3>1, <3>2, <3>3
    <3>4. CASE q # p
      BY <3>2, <3>4 DEF Others
    <3> QED BY <3>3, <3>4
  <2>2. ASSUME NEW e \in B PROVE e \in A
    <3>1. PICK i \in I : e = <<p, i>>
      OBVIOUS
    <3>2. e \in Entries(L)
      BY <1>2, <3>1 DEF EntryOf
    <3>3. L[e[1]][e[2]].page = x
      BY <3>1
    <3> QED BY <3>2, <3>3
  <2>3. O \subseteq A
    BY DEF Others
  <2> QED BY <2>1, <2>2, <2>3
<1>7. O \cap B = {}
  BY DEF Others
<1>8. Count(PagesOf(l), x) = Cardinality(I)
  <2>1. {i \in DOMAIN PagesOf(l) : PagesOf(l)[i] = x} = I
    BY DEF PagesOf
  <2> QED BY <2>1, Zenon DEF Count
<1>9. Times(x, L) = Cardinality(A)
  BY Zenon DEF Times
<1> HIDE DEF A, O, I, Q
<1>10. IsFiniteSet(O)
  BY <1>1, <1>3, FS_Subset
<1>11. IsFiniteSet(1..Len(l))
  BY <1>4, FS_Interval
<1>12. IsFiniteSet(I)
  BY <1>5, <1>11, FS_Subset
<1>13. IsFiniteSet(Q) /\ Cardinality(Q) = 1
  BY FS_Singleton DEF Q
<1>14. IsFiniteSet(B) /\ Cardinality(B) = Cardinality(Q) * Cardinality(I)
  BY <1>12, <1>13, FS_Product
<1>15. Cardinality(I) \in Nat /\ Cardinality(O) \in Nat
  BY <1>10, <1>12, FS_CardinalityType
<1>16. Cardinality(B) = Cardinality(I)
  BY <1>13, <1>14, <1>15
<1> HIDE DEF B
<1>17. Cardinality(O \cup B) = Cardinality(O) + Cardinality(B) - Cardinality(O \cap B)
  BY <1>10, <1>14, FS_Union
<1>18. Cardinality(O \cap B) = 0
  BY <1>7, FS_EmptySet
<1>19. Cardinality(A) = Cardinality(O) + Cardinality(I)
  BY <1>6, <1>15, <1>16, <1>17, <1>18
<1> QED BY <1>8, <1>9, <1>15, <1>19 DEF O

LEMMA TimesTyped ==
  ASSUME NEW P, NEW L, PerProc(P, L)
  PROVE  /\ \A x : Times(x, L) \in Nat
         /\ \A p \in P : \A i \in DOMAIN L[p] : Times(L[p][i].page, L) > 0
         /\ IsABag(PageBag(L)) /\ \A x : Copies(PageBag(L), x) = Times(x, L)
<1> DEFINE Page(e) == L[e[1]][e[2]].page
           A(x) == {e \in Entries(L) : Page(e) = x}
           D == {Page(e) : e \in Entries(L)}
           f == [x \in D |-> Times(x, L)]
<1>1. IsFiniteSet(Entries(L))
  BY EntriesAre, Zenon
<1>2. ASSUME NEW x PROVE Times(x, L) \in Nat /\ (Times(x, L) > 0 <=> x \in D)
  <2> DEFINE B == A(x)
  <2>1. B \in SUBSET Entries(L) /\ (B # {} <=> x \in D)
    OBVIOUS
  <2>2. Times(x, L) = Cardinality(B)
    BY Zenon DEF Times
  <2> HIDE DEF B, D
  <2>3. IsFiniteSet(B)
    BY <1>1, <2>1, FS_Subset
  <2>4. Cardinality(B) \in Nat /\ (Cardinality(B) = 0 <=> B = {})
    BY <2>3, FS_CardinalityType, FS_EmptySet
  <2> QED BY <2>1, <2>2, <2>4
<1>3. ASSUME NEW p \in P, NEW i \in DOMAIN L[p] PROVE L[p][i].page \in D
  <2>1. <<p, i>> \in Entries(L)
    BY EntriesAre, Zenon DEF EntryOf
  <2>2. Page(<<p, i>>) = L[p][i].page
    OBVIOUS
  <2> QED BY <2>1, <2>2, Zenon
<1>4. PageBag(L) = f
  BY Zenon DEF PageBag
<1> HIDE DEF D
<1>5. DOMAIN f = D /\ (\A x \in D : f[x] = Times(x, L)) /\ f = [x \in D |-> f[x]]
  OBVIOUS
<1> HIDE DEF f
<1>6. IsABag(f)
  BY <1>2, <1>5 DEF IsABag
<1>7. ASSUME NEW x PROVE Copies(f, x) = Times(x, L)
  <2>1. CASE x \in D
    BY <1>5, <2>1 DEF Copies
  <2>2. CASE x \notin D
    BY <1>2, <1>5, <2>2 DEF Copies
  <2> QED BY <2>1, <2>2
<1>8. \A p \in P : \A i \in DOMAIN L[p] : Times(L[p][i].page, L) > 0
  BY <1>2, <1>3
<1> QED BY <1>2, <1>4, <1>6, <1>7, <1>8

\* The occurrences of a page after the list of p is replaced.
Exchanged(p, L, M, x) ==
  /\ Times(x, L) \in Nat /\ Times(x, M) \in Nat
  /\ Count(PagesOf(L[p]), x) \in Nat /\ Count(PagesOf(M[p]), x) \in Nat
  /\ Count(PagesOf(L[p]), x) <= Times(x, L)
  /\ Times(x, M) = (Times(x, L) - Count(PagesOf(L[p]), x)) + Count(PagesOf(M[p]), x)

LEMMA TimesChanged ==
  ASSUME NEW P, NEW L, PerProc(P, L), NEW p \in P, NEW M, PerProc(P, M), ButFor(P, p, L, M),
         NEW x
  PROVE  Exchanged(p, L, M, x)
<1>1. Others(L, p, x) = Others(M, p, x)
  <2>1. ASSUME NEW e PROVE e \in Entries(L) <=> EntryOf(P, L, e)
    BY EntriesAre, Zenon
  <2>2. ASSUME NEW e PROVE e \in Entries(M) <=> EntryOf(P, M, e)
    BY EntriesAre, Zenon
  <2>3. ASSUME NEW e, e[1] # p PROVE e \in Others(L, p, x) <=> e \in Others(M, p, x)
    <3>1. ASSUME NEW q \in P, NEW i \in DOMAIN L[q], e = <<q, i>> PROVE M[q] = L[q]
      BY <2>3, <3>1 DEF ButFor
    <3>2. ASSUME NEW q \in P, NEW i \in DOMAIN M[q], e = <<q, i>> PROVE M[q] = L[q]
      BY <2>3, <3>2 DEF ButFor
    <3>3. e \in Entries(L) => e \in Entries(M) /\ M[e[1]] = L[e[1]]
      <4>1. HAVE e \in Entries(L)
      <4>0. PICK q \in P : \E i \in DOMAIN L[q] : e = <<q, i>>
        BY <2>1, <4>1 DEF EntryOf
      <4>2. PICK i \in DOMAIN L[q] : e = <<q, i>>
        BY <4>0
      <4>3. M[q] = L[q]
        BY <3>1, <4>2
      <4>4. e \in Entries(M)
        BY <2>2, <4>2, <4>3 DEF EntryOf
      <4> QED BY <4>2, <4>3, <4>4
    <3>4. e \in Entries(M) => e \in Entries(L) /\ M[e[1]] = L[e[1]]
      <4>1. HAVE e \in Entries(M)
      <4>0. PICK q \in P : \E i \in DOMAIN M[q] : e = <<q, i>>
        BY <2>2, <4>1 DEF EntryOf
      <4>2. PICK i \in DOMAIN M[q] : e = <<q, i>>
        BY <4>0
      <4>3. M[q] = L[q]
        BY <3>2, <4>2
      <4>4. e \in Entries(L)
        BY <2>1, <4>2, <4>3 DEF EntryOf
      <4> QED BY <4>2, <4>3, <4>4
    <3> QED BY <3>3, <3>4 DEF Others
  <2>4. ASSUME NEW e PROVE e \in Others(L, p, x) <=> e \in Others(M, p, x)
    <3>1. CASE e[1] = p
      BY <3>1 DEF Others
    <3>2. CASE e[1] # p
      BY <2>3, <3>2
    <3> QED BY <3>1, <3>2
  <2> QED BY <2>4
<1> DEFINE o == Cardinality(Others(L, p, x))
           a == Count(PagesOf(L[p]), x)
           b == Count(PagesOf(M[p]), x)
<1>2. o \in Nat /\ a \in Nat /\ Times(x, L) = o + a
  BY TimesSplit, Zenon
<1>3. o \in Nat /\ b \in Nat /\ Times(x, M) = o + b
  <2>1. /\ Cardinality(Others(M, p, x)) \in Nat /\ b \in Nat
        /\ Times(x, M) = Cardinality(Others(M, p, x)) + b
    BY TimesSplit, Zenon
  <2> QED BY <1>1, <2>1
<1> HIDE DEF o, a, b
<1>4. /\ o + a \in Nat /\ o + b \in Nat /\ a <= o + a /\ o + b = ((o + a) - a) + b
  BY <1>2, <1>3
<1> QED BY <1>2, <1>3, <1>4 DEF a, b, Exchanged

-----------------------------------------------------------------------------
(* References and lists                                                    *)

\* The references in the bag cover the entries of the lists and, if none was
\* lost, are nothing else.
Held(pins, L, lost) ==
  /\ IsABag(pins)
  /\ \A x : /\ Times(x, L) <= Copies(pins, x)
            /\ ~lost => Copies(pins, x) = Times(x, L)

LEMMA PagesAreNumbers ==
  ASSUME NEW l \in Seq(PageChunks)
  PROVE  PagesOf(l) \in Seq(Nat)
<1>1. Len(l) \in Nat /\ DOMAIN l = 1..Len(l) /\ \A i \in 1..Len(l) : l[i] \in PageChunks
  OBVIOUS
<1>2. \A i \in 1..Len(l) : l[i].page \in Nat
  BY <1>1 DEF PageChunks
<1> DEFINE f == [i \in 1..Len(l) |-> l[i].page]
<1>3. f \in [1..Len(l) -> Nat]
  BY <1>2
<1>4. f \in Seq(Nat)
  BY <1>1, <1>3
<1> QED BY <1>1, <1>4 DEF PagesOf

LEMMA HeldAdd ==
  ASSUME NEW P, NEW L, PerProc(P, L), NEW p \in P, NEW M, PerProc(P, M), ButFor(P, p, L, M),
         L[p] = <<>>, NEW pins, NEW lost, Held(pins, L, lost)
  PROVE  Held(pins (+) ToBag(PagesOf(M[p])), M, lost)
<1> DEFINE s == PagesOf(M[p])
<1>1. s \in Seq(Nat)
  BY PagesAreNumbers DEF PerProc
<1>2. PagesOf(L[p]) = <<>>
  BY DEF PagesOf
<1> HIDE DEF s
<1>3. IsABag(ToBag(s)) /\ \A x : Copies(ToBag(s), x) = Count(s, x)
  BY <1>1, ToBagCounts
<1>4. IsABag(pins)
  BY DEF Held
<1>5. /\ IsABag(pins (+) ToBag(s))
      /\ \A x : Copies(pins (+) ToBag(s), x) = Copies(pins, x) + Copies(ToBag(s), x)
  BY <1>3, <1>4, BagAdded
<1>6. ASSUME NEW x PROVE Count(PagesOf(L[p]), x) = 0
  <2>1. <<>> \in Seq(Nat) /\ DOMAIN <<>> = {}
    OBVIOUS
  <2>2. Count(<<>>, x) \in Nat /\ ~(Count(<<>>, x) > 0)
    BY <2>1, CountTyped
  <2> QED BY <1>2, <2>2
<1>7. ASSUME NEW x
      PROVE  /\ Times(x, M) <= Copies(pins (+) ToBag(s), x)
             /\ ~lost => Copies(pins (+) ToBag(s), x) = Times(x, M)
  <2> DEFINE t == Times(x, L)
             u == Times(x, M)
             a == Count(PagesOf(L[p]), x)
             n == Count(s, x)
             c == Copies(pins, x)
             d == Copies(pins (+) ToBag(s), x)
  <2>0. Exchanged(p, L, M, x)
    BY TimesChanged, Zenon
  <2>1. t \in Nat /\ u \in Nat /\ n \in Nat /\ u = (t - a) + n
    BY <2>0 DEF s, Exchanged
  <2>2. a = 0
    BY <1>6
  <2>3. c \in Nat
    BY <1>4, CopiesTyped
  <2>4. d = c + n
    BY <1>3, <1>5
  <2>5. t <= c /\ (~lost => c = t)
    BY DEF Held
  <2> HIDE DEF t, u, a, n, c, d
  <2>6. u <= d /\ (~lost => d = u)
    BY <2>1, <2>2, <2>3, <2>4, <2>5
  <2> QED BY <2>6 DEF u, d
<1> QED BY <1>5, <1>7 DEF Held, s

LEMMA HeldTake ==
  ASSUME NEW P, NEW L, PerProc(P, L), NEW p \in P, NEW M, PerProc(P, M), ButFor(P, p, L, M),
         M[p] = <<>>, NEW pins, NEW lost, Held(pins, L, lost)
  PROVE  /\ Held(pins (-) ToBag(PagesOf(L[p])), M, lost)
         /\ Held(pins, M, TRUE)
<1> DEFINE s == PagesOf(L[p])
<1>1. s \in Seq(Nat)
  BY PagesAreNumbers DEF PerProc
<1>2. PagesOf(M[p]) = <<>>
  BY DEF PagesOf
<1> HIDE DEF s
<1>3. IsABag(ToBag(s)) /\ \A x : Copies(ToBag(s), x) = Count(s, x)
  BY <1>1, ToBagCounts
<1>4. IsABag(pins)
  BY DEF Held
<1>5. /\ IsABag(pins (-) ToBag(s))
      /\ \A x : Copies(ToBag(s), x) <= Copies(pins, x) =>
                  Copies(pins (-) ToBag(s), x) = Copies(pins, x) - Copies(ToBag(s), x)
  BY <1>3, <1>4, BagTaken
<1>6. ASSUME NEW x PROVE Count(PagesOf(M[p]), x) = 0
  <2>1. <<>> \in Seq(Nat) /\ DOMAIN <<>> = {}
    OBVIOUS
  <2>2. Count(<<>>, x) \in Nat /\ ~(Count(<<>>, x) > 0)
    BY <2>1, CountTyped
  <2> QED BY <1>2, <2>2
<1>7. ASSUME NEW x
      PROVE  /\ Times(x, M) <= Copies(pins (-) ToBag(s), x)
             /\ ~lost => Copies(pins (-) ToBag(s), x) = Times(x, M)
             /\ Times(x, M) <= Copies(pins, x)
  <2> DEFINE t == Times(x, L)
             u == Times(x, M)
             a == Count(PagesOf(M[p]), x)
             n == Count(s, x)
             c == Copies(pins, x)
             d == Copies(pins (-) ToBag(s), x)
  <2>0. Exchanged(p, L, M, x)
    BY TimesChanged, Zenon
  <2>1. t \in Nat /\ u \in Nat /\ n \in Nat /\ n <= t /\ u = (t - n) + a
    BY <2>0 DEF s, Exchanged
  <2>2. a = 0
    BY <1>6
  <2>3. c \in Nat
    BY <1>4, CopiesTyped
  <2>4. n <= c => d = c - n
    BY <1>3, <1>5
  <2>5. t <= c /\ (~lost => c = t)
    BY DEF Held
  <2> HIDE DEF t, u, a, n, c, d
  <2>6. u <= d /\ (~lost => d = u) /\ u <= c
    BY <2>1, <2>2, <2>3, <2>4, <2>5
  <2> QED BY <2>6 DEF u, d, c
<1> QED BY <1>4, <1>5, <1>7 DEF Held, s

LEMMA HeldLeak ==
  ASSUME NEW P, NEW L, PerProc(P, L),
         NEW pins, NEW lost, Held(pins, L, lost), NEW S, NEW s \in Seq(S)
  PROVE  Held(pins (+) ToBag(s), L, TRUE)
<1>1. IsABag(ToBag(s)) /\ \A x : Copies(ToBag(s), x) = Count(s, x)
  BY ToBagCounts
<1>2. IsABag(pins)
  BY DEF Held
<1>3. /\ IsABag(pins (+) ToBag(s))
      /\ \A x : Copies(pins (+) ToBag(s), x) = Copies(pins, x) + Copies(ToBag(s), x)
  BY <1>1, <1>2, BagAdded
<1>4. ASSUME NEW x PROVE Times(x, L) <= Copies(pins (+) ToBag(s), x)
  <2> DEFINE t == Times(x, L)
             n == Count(s, x)
             c == Copies(pins, x)
             d == Copies(pins (+) ToBag(s), x)
  <2>1. t \in Nat /\ n \in Nat /\ c \in Nat
    BY <1>2, TimesTyped, CountTyped, CopiesTyped
  <2>2. t <= c /\ d = c + n
    BY <1>1, <1>3 DEF Held
  <2> HIDE DEF t, n, c, d
  <2>3. t <= d
    BY <2>1, <2>2
  <2> QED BY <2>3 DEF t, d
<1> QED BY <1>3, <1>4 DEF Held

LEMMA HeldWeaker ==
  ASSUME NEW pins, NEW L, NEW lost, Held(pins, L, lost), NEW lostN, lost => lostN
  PROVE  Held(pins, L, lostN)
BY Zenon DEF Held

LEMMA GotTyped ==
  ASSUME NEW pages \in Seq(Nat \cup {Hole})
  PROVE  Got(pages) \in Seq(Nat \cup {Hole})
<1> DEFINE holes == {i \in DOMAIN pages : pages[i] = Hole}
           m == Min(holes)
<1>1. Len(pages) \in Nat /\ DOMAIN pages = 1..Len(pages)
  OBVIOUS
<1>2. CASE holes = {}
  BY <1>2 DEF Got
<1>3. CASE holes # {}
  <2>1. Got(pages) = SubSeq(pages, 1, m - 1)
    BY <1>3, Zenon DEF Got
  <2>2. holes \in SUBSET Nat
    BY <1>1
  <2>3. \E x \in holes : \A y \in holes : x <= y
    <3> HIDE DEF holes
    <3> QED BY <1>3, <2>2, LeastNumber
  <2>4. m \in holes
    BY <2>3, Zenon DEF Min
  <2>5. m \in 1..Len(pages)
    BY <1>1, <2>4
  <2> HIDE DEF m, holes
  <2>6. SubSeq(pages, 1, m - 1) \in Seq(Nat \cup {Hole})
    BY <1>1, <2>5
  <2> QED BY <2>1, <2>6
<1> QED BY <1>2, <1>3

-----------------------------------------------------------------------------
(* The references held by calls                                            *)

GuestLost == ways \cap {"pins lost", "too small"} # {}
HostLost  == "frames lost" \in ways \cup {call[p].way : p \in Procs}

\* A call whose frames are lost is on its way out, or its end is on record.
WaysInv == \A p \in Procs : call[p].way = "frames lost" =>
                              call[p].pc = "leave" \/ "frames lost" \in ways

Pins == /\ Held(guestPins, ChunkLists, GuestLost)
        /\ Held(hostPins, FrameLists, HostLost)
        /\ WaysInv

LEMMA ListsTyped ==
  ASSUME PathTypes
  PROVE  PerProc(GuestProcs, ChunkLists) /\ PerProc(Procs, FrameLists)
<1>1. IsFiniteSet(Procs)
  BY DmaConstants
<1>2. GuestProcs \in SUBSET Procs
  BY DEF Procs
<1>3. IsFiniteSet(GuestProcs)
  BY <1>1, <1>2, FS_Subset
<1>4. \A p \in Procs : call[p].chunks \in Seq(PageChunks) /\ call[p].frames \in Seq(PageChunks)
  BY DEF PathTypes, Calls
<1>5. ChunkLists \in [GuestProcs -> Seq(PageChunks)]
  BY <1>2, <1>4 DEF ChunkLists
<1>6. FrameLists \in [Procs -> Seq(PageChunks)]
  BY <1>4 DEF FrameLists
<1> QED BY <1>1, <1>3, <1>5, <1>6 DEF PerProc

\* How a step of p leaves the record of ends.
WayKept(p) ==
  /\ ways \subseteq ways'
  /\ call[p].pc = "leave" => call[p].way \in ways'
  /\ \/ call'[p].way # "frames lost" \/ call'[p].pc = "leave" \/ "frames lost" \in ways'
     \/ call'[p].way = call[p].way /\ call[p].pc # "leave"

LEMMA WaysKept ==
  ASSUME WaysInv, NEW p \in Procs, Alone(p), WayKept(p)
  PROVE  WaysInv' /\ (GuestLost => GuestLost') /\ (HostLost => HostLost')
<1>1. ASSUME NEW q \in Procs, call'[q].way = "frames lost"
      PROVE  call'[q].pc = "leave" \/ "frames lost" \in ways'
  <2>1. CASE q = p
    BY <1>1, <2>1 DEF WayKept, WaysInv
  <2>2. CASE q # p
    <3>1. call'[q] = call[q]
      BY <2>2, Zenon DEF Alone
    <3> QED BY <1>1, <3>1 DEF WayKept, WaysInv
  <2> QED BY <2>1, <2>2
<1>2. GuestLost => GuestLost'
  BY DEF GuestLost, WayKept
<1>3. ASSUME HostLost PROVE HostLost'
  <2>1. CASE "frames lost" \in ways
    BY <2>1 DEF HostLost, WayKept
  <2>2. CASE "frames lost" \notin ways
    <3>1. PICK q \in Procs : call[q].way = "frames lost"
      BY <1>3, <2>2 DEF HostLost
    <3>2. call[q].pc = "leave"
      BY <2>2, <3>1 DEF WaysInv
    <3>3. CASE q = p
      BY <3>1, <3>2, <3>3 DEF WayKept, HostLost
    <3>4. CASE q # p
      <4>1. call'[q] = call[q]
        BY <3>4, Zenon DEF Alone
      <4> QED BY <3>1, <4>1 DEF HostLost
    <3> QED BY <3>3, <3>4
  <2> QED BY <2>1, <2>2
<1> QED BY <1>1, <1>2, <1>3 DEF WaysInv

LEMMA ChunksButFor ==
  ASSUME NEW p \in Procs, Alone(p)
  PROVE  /\ ButFor(GuestProcs, p, ChunkLists, ChunkLists')
         /\ ButFor(Procs, p, FrameLists, FrameLists')
         /\ call'[p].chunks = call[p].chunks => ChunkLists' = ChunkLists
         /\ call'[p].frames = call[p].frames => FrameLists' = FrameLists
<1>1. GuestProcs \in SUBSET Procs
  BY DEF Procs
<1>2. \A q \in Procs : q # p => call'[q] = call[q]
  BY Zenon DEF Alone
<1>3. ButFor(GuestProcs, p, ChunkLists, ChunkLists')
  BY <1>1, <1>2 DEF ButFor, ChunkLists
<1>4. ButFor(Procs, p, FrameLists, FrameLists')
  BY <1>2 DEF ButFor, FrameLists
<1>5. ASSUME call'[p].chunks = call[p].chunks PROVE ChunkLists' = ChunkLists
  <2>1. \A q \in GuestProcs : call'[q].chunks = call[q].chunks
    BY <1>1, <1>2, <1>5
  <2> QED BY <2>1 DEF ChunkLists
<1>6. ASSUME call'[p].frames = call[p].frames PROVE FrameLists' = FrameLists
  <2>1. \A q \in Procs : call'[q].frames = call[q].frames
    BY <1>2, <1>6
  <2> QED BY <2>1 DEF FrameLists
<1> QED BY <1>3, <1>4, <1>5, <1>6

\* What a step of p does to the lists and references of one side
GuestKept(p) == guestPins' = guestPins /\ call'[p].chunks = call[p].chunks
HostKept(p)  == hostPins' = hostPins /\ call'[p].frames = call[p].frames

LEMMA KeptHeld ==
  ASSUME Pins, NEW p \in Procs, Alone(p), WayKept(p)
  PROVE  /\ GuestKept(p) => Held(guestPins', ChunkLists', GuestLost')
         /\ HostKept(p) => Held(hostPins', FrameLists', HostLost')
         /\ WaysInv'
<1>1. WaysInv' /\ (GuestLost => GuestLost') /\ (HostLost => HostLost')
  BY WaysKept DEF Pins
<1>2. ASSUME GuestKept(p) PROVE Held(guestPins', ChunkLists', GuestLost')
  <2>1. ChunkLists' = ChunkLists /\ guestPins' = guestPins
    BY <1>2, ChunksButFor DEF GuestKept
  <2>2. Held(guestPins, ChunkLists, GuestLost')
    BY <1>1, HeldWeaker, Zenon DEF Pins
  <2> QED BY <2>1, <2>2, Zenon
<1>3. ASSUME HostKept(p) PROVE Held(hostPins', FrameLists', HostLost')
  <2>1. FrameLists' = FrameLists /\ hostPins' = hostPins
    BY <1>3, ChunksButFor DEF HostKept
  <2>2. Held(hostPins, FrameLists, HostLost')
    BY <1>1, HeldWeaker, Zenon DEF Pins
  <2> QED BY <2>1, <2>2, Zenon
<1> QED BY <1>1, <1>2, <1>3

LEMMA QuietPins ==
  ASSUME Pins, NEW p \in Procs, Alone(p), WayKept(p), GuestKept(p), HostKept(p)
  PROVE  Pins'
BY KeptHeld DEF Pins

\* The pages of the lists of a buffer are those of the buffer.
LEMMA BufferPaged ==
  ASSUME NEW p \in Procs, NEW r, RequestOK(p, r), Present(p, r)
  PROVE  PagesOf(BufferChunks(p, r)) = BufferPages(p, r)
<1> DEFINE pages == BufferPages(p, r)
           chunks == BufferChunks(p, r)
<1>1. /\ chunks \in Seq(PageChunks) /\ Len(chunks) = Len(pages)
      /\ \A i \in 1..Len(pages) : chunks[i].page = pages[i]
  BY BufferTyped
<1>2. pages \in Seq(Nat)
  BY DEF Present
<1> HIDE DEF pages, chunks
<1>3. DOMAIN chunks = 1..Len(pages) /\ pages = [i \in 1..Len(pages) |-> pages[i]]
  BY <1>1, <1>2
<1>4. PagesOf(chunks) = [i \in 1..Len(pages) |-> pages[i]]
  BY <1>1, <1>3 DEF PagesOf
<1> QED BY <1>3, <1>4 DEF pages, chunks

\* A call without pages of the guest, one without frames
LEMMA NoChunksHere ==
  ASSUME Lists, NEW p \in Procs
  PROVE  /\ call[p].pc \in {"idle", "pin", "local"} => call[p].chunks = <<>>
         /\ call[p].pc \notin Framed => call[p].frames = <<>>
         /\ p \notin GuestProcs => call[p].chunks = <<>>
<1>1. ChunksInv(p, call[p]) /\ FramesInv(p, call[p])
  BY DEF Lists, ListInv
<1>2. call[p].pc \in {"idle", "pin", "local"} => call[p].pc \notin Pinned
  BY DEF Pinned
<1> QED BY <1>1, <1>2, Zenon DEF ChunksInv, FramesInv

LEMMA AloneTyped ==
  ASSUME PathTypes, NEW p \in Procs, Alone(p)
  PROVE  PerProc(GuestProcs, ChunkLists') /\ PerProc(Procs, FrameLists')
<1>1. IsFiniteSet(Procs)
  BY DmaConstants
<1>2. GuestProcs \in SUBSET Procs
  BY DEF Procs
<1>3. IsFiniteSet(GuestProcs)
  BY <1>1, <1>2, FS_Subset
<1>4. \A q \in Procs : call'[q].chunks \in Seq(PageChunks) /\ call'[q].frames \in Seq(PageChunks)
  BY DEF Alone, Calls
<1>5. ChunkLists' \in [GuestProcs -> Seq(PageChunks)]
  BY <1>2, <1>4 DEF ChunkLists
<1>6. FrameLists' \in [Procs -> Seq(PageChunks)]
  BY <1>4 DEF FrameLists
<1> QED BY <1>1, <1>3, <1>5, <1>6 DEF PerProc

\* The references of p on guest pages are taken and given back with its list, or stay
\* when the list is dropped.
LEMMA GuestHeld ==
  ASSUME PathTypes, Pins, NEW p \in GuestProcs, Alone(p), WayKept(p)
  PROVE  /\ /\ call[p].chunks = <<>>
            /\ guestPins' = guestPins (+) ToBag(PagesOf(call'[p].chunks))
            => Held(guestPins', ChunkLists', GuestLost')
         /\ /\ call'[p].chunks = <<>>
            /\ guestPins' = guestPins (-) ToBag(PagesOf(call[p].chunks))
            => Held(guestPins', ChunkLists', GuestLost')
         /\ /\ call'[p].chunks = <<>> /\ guestPins' = guestPins /\ GuestLost'
            => Held(guestPins', ChunkLists', GuestLost')
<1> DEFINE L == ChunkLists
           M == ChunkLists'
<1>1. PerProc(GuestProcs, L) /\ PerProc(GuestProcs, M)
  BY AloneTyped, ListsTyped DEF Procs
<1>2. ButFor(GuestProcs, p, L, M)
  BY ChunksButFor DEF Procs
<1>3. L[p] = call[p].chunks /\ M[p] = call'[p].chunks
  BY DEF ChunkLists
<1>4. Held(guestPins, L, GuestLost) /\ (GuestLost => GuestLost')
  BY WaysKept DEF Pins, Procs
<1> HIDE DEF L, M
<1>5. ASSUME L[p] = <<>>, guestPins' = guestPins (+) ToBag(PagesOf(M[p]))
      PROVE  Held(guestPins', M, GuestLost')
  <2>1. Held(guestPins (+) ToBag(PagesOf(M[p])), M, GuestLost)
    BY <1>1, <1>2, <1>4, <1>5, HeldAdd, Zenon
  <2>2. Held(guestPins (+) ToBag(PagesOf(M[p])), M, GuestLost')
    BY <1>4, <2>1, HeldWeaker
  <2> QED BY <1>5, <2>2, Zenon
<1>6. ASSUME M[p] = <<>> PROVE /\ Held(guestPins (-) ToBag(PagesOf(L[p])), M, GuestLost)
                              /\ Held(guestPins, M, TRUE)
  BY <1>1, <1>2, <1>4, <1>6, HeldTake, Zenon
<1>7. ASSUME M[p] = <<>>, guestPins' = guestPins (-) ToBag(PagesOf(L[p]))
      PROVE  Held(guestPins', M, GuestLost')
  <2>1. Held(guestPins (-) ToBag(PagesOf(L[p])), M, GuestLost')
    BY <1>4, <1>6, <1>7, HeldWeaker
  <2> QED BY <1>7, <2>1, Zenon
<1>8. ASSUME M[p] = <<>>, guestPins' = guestPins, GuestLost'
      PROVE  Held(guestPins', M, GuestLost')
  BY <1>6, <1>8, HeldWeaker, Zenon
<1> QED BY <1>3, <1>5, <1>7, <1>8, Zenon DEF M

LEMMA HostHeld ==
  ASSUME PathTypes, Pins, NEW p \in Procs, Alone(p), WayKept(p)
  PROVE  /\ /\ call[p].frames = <<>>
            /\ hostPins' = hostPins (+) ToBag(PagesOf(call'[p].frames))
            => Held(hostPins', FrameLists', HostLost')
         /\ /\ call'[p].frames = <<>>
            /\ hostPins' = hostPins (-) ToBag(PagesOf(call[p].frames))
            => Held(hostPins', FrameLists', HostLost')
<1> DEFINE L == FrameLists
           M == FrameLists'
<1>1. PerProc(Procs, L) /\ PerProc(Procs, M)
  BY AloneTyped, ListsTyped
<1>2. ButFor(Procs, p, L, M)
  BY ChunksButFor
<1>3. L[p] = call[p].frames /\ M[p] = call'[p].frames
  BY DEF FrameLists
<1>4. Held(hostPins, L, HostLost) /\ (HostLost => HostLost')
  BY WaysKept DEF Pins
<1> HIDE DEF L, M
<1>5. ASSUME L[p] = <<>>, hostPins' = hostPins (+) ToBag(PagesOf(M[p]))
      PROVE  Held(hostPins', M, HostLost')
  <2>1. Held(hostPins (+) ToBag(PagesOf(M[p])), M, HostLost)
    BY <1>1, <1>2, <1>4, <1>5, HeldAdd, Zenon
  <2>2. Held(hostPins (+) ToBag(PagesOf(M[p])), M, HostLost')
    BY <1>4, <2>1, HeldWeaker
  <2> QED BY <1>5, <2>2, Zenon
<1>6. ASSUME M[p] = <<>>, hostPins' = hostPins (-) ToBag(PagesOf(L[p]))
      PROVE  Held(hostPins', M, HostLost')
  <2>1. Held(hostPins (-) ToBag(PagesOf(L[p])), M, HostLost)
    BY <1>1, <1>2, <1>4, <1>6, HeldTake, Zenon
  <2>2. Held(hostPins (-) ToBag(PagesOf(L[p])), M, HostLost')
    BY <1>4, <2>1, HeldWeaker
  <2> QED BY <1>6, <2>2, Zenon
<1> QED BY <1>3, <1>5, <1>6, Zenon DEF M

Quiet(p) ==
  \/ TakeDesc(p) \/ RunAway(p) \/ TakeEscape(p) \/ RequestFails(p) \/ Done(p) \/ EscapeFails(p)
  \/ Denied(p) \/ MakeRequest(p) \/ Build(p) \/ BuildAperture(p) \/ CarryOut(p) \/ CarryFails(p)
  \/ Delegate(p) \/ Call(p) \/ PinRefused(p) \/ LocalRefused(p)

LEMMA QuietSteps ==
  ASSUME PathTypes, Lists, NEW p \in Procs, Quiet(p)
  PROVE  Alone(p) /\ WayKept(p) /\ GuestKept(p) /\ HostKept(p)
<1>0. guestPins' = guestPins /\ hostPins' = hostPins
  BY DEF Quiet, TakeDesc, RunAway, TakeEscape, RequestFails, Done, EscapeFails, Denied,
         MakeRequest, Build, BuildAperture, CarryOut, CarryFails, Delegate, Call, PinRefused,
         LocalRefused
<1> DEFINE Keeps(c, d) == d.chunks = c.chunks /\ d.frames = c.frames
<1> SUFFICES Alone(p) /\ WayKept(p) /\ Keeps(call[p], call'[p])
  BY <1>0 DEF GuestKept, HostKept
<1>1. CASE TakeDesc(p) \/ RunAway(p) \/ TakeEscape(p)
  <2>1. PICK pc : SetsPc(call[p], call'[p], pc)
    BY <1>1, TakeDescStep, RunAwayStep, TakeEscapeStep, Zenon
  <2>2. Alone(p)
    BY <1>1, TakeDescStep, RunAwayStep, TakeEscapeStep
  <2>3. ways \subseteq ways' /\ call[p].pc # "leave"
    BY <1>1 DEF TakeDesc, RunAway, TakeEscape, At
  <2> QED BY <2>1, <2>2, <2>3 DEF SetsPc, SameBuffer, SameEnd, WayKept
<1>2. CASE RequestFails(p) \/ Done(p) \/ EscapeFails(p) \/ Denied(p)
  <2>1. PICK pc, ret, way : /\ SetsEnd(call[p], call'[p], pc, ret, way)
                            /\ way \in {"refused", "done", "unanswered"}
    BY <1>2, RequestFailsStep, DoneStep, EscapeFailsStep, DeniedStep, Zenon
  <2>2. Alone(p)
    BY <1>2, RequestFailsStep, DoneStep, EscapeFailsStep, DeniedStep, Zenon
  <2>3. ways' = ways /\ call[p].pc # "leave"
    BY <1>2 DEF RequestFails, Done, EscapeFails, Denied, At
  <2> QED BY <2>1, <2>2, <2>3 DEF SetsEnd, SameBuffer, WayKept
<1>3. CASE MakeRequest(p)
  <2>1. PICK s, d : SetsRequest(call[p], call'[p], "queue", s, d)
    BY <1>3, MakeRequestStep, Zenon
  <2>2. Alone(p)
    BY <1>3, MakeRequestStep
  <2>3. ways' = ways /\ call[p].pc # "leave"
    BY <1>3 DEF MakeRequest, At
  <2> QED BY <2>1, <2>2, <2>3 DEF SetsRequest, SameBuffer, SameEnd, WayKept
<1>4. CASE Build(p)
  <2>1. PICK n, sub : BuildsFrom(p, n, sub)
    BY <1>4, BuildStep
  <2>2. Alone(p)
    BY <1>4, BuildStep
  <2>3. SameBuffer(call[p], call'[p]) /\ SameEnd(call[p], call'[p])
    BY <2>1, Zenon DEF BuildsFrom, SetsPlain
  <2>4. ways' = ways /\ call[p].pc # "leave"
    BY <1>4 DEF Build, At
  <2> QED BY <2>2, <2>3, <2>4 DEF SameBuffer, SameEnd, WayKept
<1>5. CASE BuildAperture(p)
  <2>1. PICK s, start : PassesTo(p, s, start)
    BY <1>5, BuildApertureStep
  <2>2. Alone(p)
    BY <1>5, BuildApertureStep
  <2>3. SameBuffer(call[p], call'[p]) /\ SameEnd(call[p], call'[p])
    BY <2>1, Zenon DEF PassesTo, SetsPass
  <2>4. ways' = ways /\ call[p].pc # "leave"
    BY <1>5 DEF BuildAperture, At
  <2> QED BY <2>2, <2>3, <2>4 DEF SameBuffer, SameEnd, WayKept
<1>6. CASE CarryOut(p)
  <2>1. Alone(p)
    BY <1>6, CarryOutStep
  <2>2. SameBuffer(call[p], call'[p]) /\ SameEnd(call[p], call'[p])
    BY <1>6, CarryOutStep, Zenon DEF SetsMoved
  <2>3. ways' = ways /\ call[p].pc # "leave"
    BY <1>6 DEF CarryOut, At
  <2> QED BY <2>1, <2>2, <2>3 DEF SameBuffer, SameEnd, WayKept
<1>7. CASE CarryFails(p)
  <2>1. Alone(p)
    BY <1>7, CarryFailsStep
  <2>2. SameBuffer(call[p], call'[p]) /\ call'[p].way = "failed"
    BY <1>7, CarryFailsStep, Zenon DEF SetsFailed
  <2>3. ways' = ways /\ call[p].pc # "leave"
    BY <1>7 DEF CarryFails, At
  <2> QED BY <2>1, <2>2, <2>3 DEF SameBuffer, WayKept
<1>8. CASE Delegate(p)
  <2>1. PICK b : SetsBlind(call[p], call'[p], "delegated", b)
    BY <1>8, DelegateStep, Zenon
  <2>2. Alone(p)
    BY <1>8, DelegateStep
  <2>3. ways' = ways /\ call[p].pc # "leave"
    BY <1>8 DEF Delegate, At
  <2> QED BY <2>1, <2>2, <2>3 DEF SetsBlind, SameBuffer, SameEnd, WayKept
<1>9. CASE Call(p)
  <2>1. PICK r : Begun(call'[p], IF p \in GuestProcs THEN "pin" ELSE "local", r, fixed)
    BY <1>9, CallStep, Zenon
  <2>2. call'[p].chunks = <<>> /\ call'[p].frames = <<>> /\ call'[p].way = "none"
    BY <2>1, Zenon DEF Begun
  <2>3. Alone(p)
    BY <1>9, CallStep
  <2>4. ways' = ways /\ call[p].pc = "idle"
    BY <1>9 DEF Call, At
  <2>5. call[p].chunks = <<>> /\ call[p].frames = <<>>
    BY <2>4, NoChunksHere DEF Framed
  <2> QED BY <2>2, <2>3, <2>4, <2>5 DEF WayKept
<1>10. CASE PinRefused(p) \/ LocalRefused(p)
  <2>1. PICK ret : EndsAs(call[p], call'[p], ret, "refused")
    BY <1>10, PinRefusedStep, LocalRefusedStep, Zenon
  <2>2. Alone(p)
    BY <1>10, PinRefusedStep, LocalRefusedStep, Zenon
  <2>3. call[p].pc \in {"pin", "local"} /\ ways \subseteq ways'
    BY <1>10 DEF PinRefused, LocalRefused, At, End
  <2>4. call'[p].chunks = <<>> /\ call'[p].frames = <<>> /\ call'[p].way = "refused"
    BY <2>1, Zenon DEF EndsAs, SetsEnded
  <2>5. call[p].chunks = <<>> /\ call[p].frames = <<>>
    BY <2>3, NoChunksHere DEF Framed
  <2> QED BY <2>2, <2>3, <2>4, <2>5 DEF WayKept
<1> QED BY <1>1, <1>2, <1>3, <1>4, <1>5, <1>6, <1>7, <1>8, <1>9, <1>10 DEF Quiet

\* The steps that take references and those that give them back
LEMMA PinPagesPins ==
  ASSUME PathTypes, Lists, Pins, NEW p \in GuestProcs, PinPages(p)
  PROVE  Pins'
<1> DEFINE r == call[p].req
<1>0. p \in Procs
  BY DEF Procs
<1>1. Alone(p) /\ Present(p, r)
  BY <1>0, PinPagesStep
<1>2. SetsChunks(call[p], call'[p], "pinned", BufferChunks(p, r))
  BY <1>0, PinPagesStep
<1>3. RequestOK(p, r)
  BY <1>0, CallTyped
<1>4. call'[p].chunks = BufferChunks(p, r) /\ call'[p].frames = call[p].frames
  BY <1>2, Zenon DEF SetsChunks
<1>5. call'[p].way = call[p].way
  BY <1>2, Zenon DEF SetsChunks, SameEnd
<1>6. call[p].pc = "pin" /\ ways' = ways /\ hostPins' = hostPins
  BY DEF PinPages, At
<1>7. guestPins' = guestPins (+) ToBag(BufferPages(p, r))
  BY Zenon DEF PinPages
<1>8. WayKept(p) /\ HostKept(p)
  BY <1>4, <1>5, <1>6 DEF WayKept, HostKept
<1>9. call[p].chunks = <<>>
  BY <1>0, <1>6, NoChunksHere
<1>10. PagesOf(call'[p].chunks) = BufferPages(p, r)
  BY <1>0, <1>1, <1>3, <1>4, BufferPaged
<1> HIDE DEF r
<1>11. Held(guestPins', ChunkLists', GuestLost')
  BY <1>1, <1>7, <1>8, <1>9, <1>10, GuestHeld, Zenon
<1> QED BY <1>0, <1>1, <1>8, <1>11, KeptHeld DEF Pins

LEMMA MapLocalPins ==
  ASSUME PathTypes, Lists, Pins, NEW p \in HostProcs, MapLocal(p)
  PROVE  Pins'
<1> DEFINE r == call[p].req
<1>0. p \in Procs /\ p \notin GuestProcs
  BY DmaConstants DEF Procs
<1>1. Alone(p) /\ Present(p, r)
  BY <1>0, MapLocalStep
<1>2. SetsFrames(call[p], call'[p], "mapped", BufferFrames(p, r))
  BY <1>0, MapLocalStep
<1>3. RequestOK(p, r)
  BY <1>0, CallTyped
<1>4. call'[p].frames = BufferFrames(p, r) /\ call'[p].chunks = call[p].chunks
  BY <1>2, Zenon DEF SetsFrames
<1>5. call'[p].way = call[p].way
  BY <1>2, Zenon DEF SetsFrames, SameEnd
<1>6. call[p].pc = "local" /\ ways' = ways /\ guestPins' = guestPins
  BY DEF MapLocal, At
<1>7. hostPins' = hostPins (+) ToBag(BufferPages(p, r))
  BY Zenon DEF MapLocal
<1>8. WayKept(p) /\ GuestKept(p)
  BY <1>4, <1>5, <1>6 DEF WayKept, GuestKept
<1>9. call[p].frames = <<>>
  BY <1>0, <1>6, NoChunksHere DEF Framed
<1>10. BufferFrames(p, r) = BufferChunks(p, r)
  BY <1>0, Zenon DEF BufferFrames
<1>11. PagesOf(call'[p].frames) = BufferPages(p, r)
  BY <1>0, <1>1, <1>3, <1>4, <1>10, BufferPaged
<1> HIDE DEF r
<1>12. Held(hostPins', FrameLists', HostLost')
  BY <1>0, <1>1, <1>7, <1>8, <1>9, <1>11, HostHeld, Zenon
<1> QED BY <1>0, <1>1, <1>8, <1>12, KeptHeld DEF Pins

\* The frames of a request are the pages of the FVP behind its chunks.
LEMMA RemoteFrames ==
  ASSUME Lists, NEW p \in GuestProcs, At(p, "manager")
  PROVE  RemoteSgl(p) = BufferFrames(p, call[p].req) /\ Present(p, call[p].req)
<1>1. ChunksInv(p, call[p])
  BY DEF Lists, ListInv, Procs
<1>2. call[p].pc \in Pinned
  BY DEF At, Pinned
<1>3. call[p].chunks = BufferChunks(p, call[p].req) /\ Present(p, call[p].req)
  BY <1>1, <1>2, Zenon DEF ChunksInv
<1> QED BY <1>3, Zenon DEF RemoteSgl, BufferFrames

LEMMA MapRemotePins ==
  ASSUME PathTypes, Lists, Pins, NEW p \in GuestProcs, MapRemote(p)
  PROVE  Pins'
<1> DEFINE r == call[p].req
<1>0. p \in Procs
  BY DEF Procs
<1>1. Alone(p) /\ SetsFrames(call[p], call'[p], "mapped", BufferFrames(p, r))
  BY MapRemoteStep
<1>2. call'[p].frames = BufferFrames(p, r) /\ call'[p].chunks = call[p].chunks
  BY <1>1, Zenon DEF SetsFrames
<1>3. call'[p].way = call[p].way
  BY <1>1, Zenon DEF SetsFrames, SameEnd
<1>4. call[p].pc = "manager" /\ ways' = ways /\ guestPins' = guestPins
  BY DEF MapRemote, At
<1>5. hostPins' = hostPins (+) ToBag(PagesOf(RemoteSgl(p)))
  BY Zenon DEF MapRemote
<1>6. WayKept(p) /\ GuestKept(p)
  BY <1>2, <1>3, <1>4 DEF WayKept, GuestKept
<1>7. call[p].frames = <<>>
  BY <1>0, <1>4, NoChunksHere DEF Framed
<1>8. RemoteSgl(p) = call'[p].frames
  BY <1>2, <1>4, RemoteFrames DEF At
<1> HIDE DEF r
<1>9. Held(hostPins', FrameLists', HostLost')
  BY <1>0, <1>1, <1>5, <1>6, <1>7, <1>8, HostHeld, Zenon
<1> QED BY <1>0, <1>1, <1>6, <1>9, KeptHeld DEF Pins

LEMMA EndsPins ==
  ASSUME PathTypes, Lists, Pins, NEW p \in GuestProcs,
         PinLost(p) \/ TooSmall(p) \/ Leave(p)
  PROVE  Pins'
<1>0. p \in Procs
  BY DEF Procs
<1>1. Alone(p)
  BY <1>0, PinLostStep, TooSmallStep, LeaveStep, Zenon
<1>2. PICK ret, way : /\ EndsAs(call[p], call'[p], ret, way)
                      /\ way \in {"pins lost", "too small", call[p].way}
                      /\ Leave(p) => way = call[p].way
  <2>1. CASE PinLost(p) /\ ~Leave(p)
    BY <1>0, <2>1, PinLostStep
  <2>2. CASE TooSmall(p) /\ ~Leave(p)
    BY <1>0, <2>2, TooSmallStep
  <2>3. CASE Leave(p)
    BY <1>0, <2>3, LeaveStep
  <2> QED BY <2>1, <2>2, <2>3
<1>3. call'[p].chunks = <<>> /\ call'[p].frames = <<>> /\ call'[p].way = way
  BY <1>2, Zenon DEF EndsAs, SetsEnded
<1>4. call[p].pc \in {"pin", "delegated", "leave"} /\ hostPins' = hostPins
  BY DEF PinLost, TooSmall, Leave, At
<1>5. call[p].frames = <<>>
  BY <1>0, <1>4, NoChunksHere DEF Framed
<1>6. HostKept(p)
  BY <1>3, <1>4, <1>5 DEF HostKept
<1>7. CASE PinLost(p)
  <2>1. call[p].pc = "pin" /\ ways' = ways \cup {"pins lost"}
    BY <1>7 DEF PinLost, At, End
  <2>2. call'[p].way = "pins lost"
    BY <1>0, <1>7, PinLostStep DEF EndsAs, SetsEnded
  <2>3. WayKept(p) /\ GuestLost'
    BY <2>1, <2>2 DEF WayKept, GuestLost
  <2>4. call[p].chunks = <<>>
    BY <1>0, <2>1, NoChunksHere
  <2> DEFINE got == Got(BufferPages(p, call[p].req))
  <2>5. got \in Seq(Nat \cup {Hole})
    <3>1. RequestOK(p, call[p].req)
      BY <1>0, CallTyped
    <3>2. BufferPages(p, call[p].req) \in Seq(Nat \cup {Hole})
      BY <1>0, <3>1, PagesTyped
    <3> QED BY <3>2, GotTyped
  <2>6. guestPins' = guestPins (+) ToBag(got)
    BY <1>7, Zenon DEF PinLost
  <2> HIDE DEF got
  <2>7. PerProc(GuestProcs, ChunkLists) /\ Held(guestPins, ChunkLists, GuestLost)
    BY ListsTyped DEF Pins
  <2>8. Held(guestPins (+) ToBag(got), ChunkLists, TRUE)
    BY <2>5, <2>7, HeldLeak
  <2>9. ChunkLists' = ChunkLists
    BY <1>0, <1>1, <1>3, <2>4, ChunksButFor
  <2>10. Held(guestPins', ChunkLists', TRUE)
    BY <2>6, <2>8, <2>9, Zenon
  <2>11. Held(guestPins', ChunkLists', GuestLost')
    BY <2>3, <2>10, HeldWeaker
  <2> QED BY <1>0, <1>1, <1>6, <2>3, <2>11, KeptHeld DEF Pins
<1>8. CASE TooSmall(p)
  <2>1. /\ call[p].pc = "delegated" /\ ways' = ways \cup {"too small"}
        /\ guestPins' = guestPins
    BY <1>8 DEF TooSmall, At, End
  <2>2. call'[p].way = "too small"
    BY <1>0, <1>8, TooSmallStep DEF EndsAs, SetsEnded
  <2>3. WayKept(p) /\ GuestLost'
    BY <2>1, <2>2 DEF WayKept, GuestLost
  <2>4. Held(guestPins', ChunkLists', GuestLost')
    BY <1>1, <1>3, <2>1, <2>3, GuestHeld, Zenon
  <2> QED BY <1>0, <1>1, <1>6, <2>3, <2>4, KeptHeld DEF Pins
<1>9. CASE Leave(p)
  <2>1. /\ guestPins' = guestPins (-) ToBag(PagesOf(call[p].chunks))
        /\ ways' = ways \cup {call[p].way}
    BY <1>9, Zenon DEF Leave, End
  <2>2. WayKept(p)
    BY <1>2, <1>3, <1>9, <2>1 DEF WayKept
  <2>3. Held(guestPins', ChunkLists', GuestLost')
    BY <1>1, <1>3, <2>1, <2>2, GuestHeld, Zenon
  <2> QED BY <1>0, <1>1, <1>6, <2>2, <2>3, KeptHeld DEF Pins
<1> QED BY <1>7, <1>8, <1>9

LEMMA MapRemoteFailsPins ==
  ASSUME PathTypes, Lists, Pins, NEW p \in GuestProcs, MapRemoteFails(p)
  PROVE  Pins'
<1>0. p \in Procs
  BY DEF Procs
<1>1. Alone(p) /\ SetsEnd(call[p], call'[p], "leave", -1, "frames lost")
  BY <1>0, MapRemoteFailsStep
<1>2. /\ call'[p].chunks = call[p].chunks /\ call'[p].frames = call[p].frames
      /\ call'[p].way = "frames lost" /\ call'[p].pc = "leave"
  BY <1>1, Zenon DEF SetsEnd, SameBuffer
<1>3. call[p].pc = "manager" /\ ways' = ways /\ guestPins' = guestPins
  BY DEF MapRemoteFails, At
<1>4. WayKept(p) /\ GuestKept(p)
  BY <1>2, <1>3 DEF WayKept, GuestKept
<1>5. HostLost'
  BY <1>0, <1>2 DEF HostLost
<1> DEFINE pages == PagesOf(RemoteSgl(p))
           n == Len(call[p].chunks)
<1>6. PICK k \in 0..n - 1 : hostPins' = hostPins (+) ToBag(SubSeq(pages, 1, k))
  BY Zenon DEF MapRemoteFails
<1>7. pages \in Seq(Nat) /\ Len(pages) = n /\ n \in Nat
  <2> DEFINE r == call[p].req
  <2>1. RemoteSgl(p) = BufferFrames(p, r) /\ Present(p, r)
    BY <1>3, RemoteFrames DEF At
  <2>2. call[p].chunks = BufferChunks(p, r)
    <3>1. ChunksInv(p, call[p])
      BY <1>0 DEF Lists, ListInv
    <3>2. call[p].pc \in Pinned
      BY <1>3 DEF Pinned
    <3> QED BY <3>1, <3>2, Zenon DEF ChunksInv
  <2>3. RequestOK(p, r)
    BY <1>0, CallTyped
  <2>4. Known(p, r)
    <3>1. Range(PagesOf(BufferChunks(p, r))) \subseteq DOMAIN HostPage
      BY <2>2 DEF MapRemoteFails, Mapped
    <3>2. PagesOf(BufferChunks(p, r)) = BufferPages(p, r)
      BY <1>0, <2>1, <2>3, BufferPaged
    <3>3. BufferPages(p, r) \in Seq(Nat)
      BY <2>1 DEF Present
    <3> DEFINE b == BufferPages(p, r)
    <3>4. Range(b) \subseteq DOMAIN HostPage
      BY <3>1, <3>2
    <3> HIDE DEF b
    <3>5. \A i \in 1..Len(b) : b[i] \in DOMAIN HostPage
      BY <3>3, <3>4 DEF Range, b
    <3> QED BY <3>5, Zenon DEF Known, b
  <2>5. /\ BufferFrames(p, r) \in Seq(PageChunks) /\ BufferChunks(p, r) \in Seq(PageChunks)
        /\ Len(BufferFrames(p, r)) = Len(BufferChunks(p, r))
    BY <1>0, <2>1, <2>3, <2>4, FramesAre
  <2> DEFINE f == BufferFrames(p, r)
  <2>6. f \in Seq(PageChunks) /\ n = Len(f)
    BY <2>2, <2>5
  <2> HIDE DEF f, n
  <2>7. PagesOf(f) \in Seq(Nat)
    BY <2>6, PagesAreNumbers
  <2>8. Len(PagesOf(f)) = n
    BY <2>6, <2>7 DEF PagesOf
  <2> QED BY <2>1, <2>6, <2>7, <2>8 DEF f
<1> HIDE DEF pages, n
<1>8. SubSeq(pages, 1, k) \in Seq(Nat)
  BY <1>7
<1>9. PerProc(Procs, FrameLists) /\ Held(hostPins, FrameLists, HostLost)
  BY ListsTyped DEF Pins
<1>10. Held(hostPins (+) ToBag(SubSeq(pages, 1, k)), FrameLists, TRUE)
  BY <1>8, <1>9, HeldLeak
<1>11. FrameLists' = FrameLists
  BY <1>0, <1>1, <1>2, ChunksButFor
<1>12. Held(hostPins', FrameLists', TRUE)
  BY <1>6, <1>10, <1>11, Zenon
<1>13. Held(hostPins', FrameLists', HostLost')
  BY <1>5, <1>12, HeldWeaker
<1> QED BY <1>0, <1>1, <1>4, <1>13, KeptHeld DEF Pins

LEMMA UnmapPins ==
  ASSUME PathTypes, Lists, Pins, NEW p \in Procs, Unmap(p)
  PROVE  Pins'
<1>1. Alone(p)
  BY UnmapStep
<1>2. call[p].pc = "unmap" /\ guestPins' = guestPins
  BY DEF Unmap, At
<1>3. hostPins' = hostPins (-) ToBag(PagesOf(call[p].frames))
  BY Zenon DEF Unmap
<1>4. call'[p].frames = <<>> /\ call'[p].chunks = call[p].chunks /\ WayKept(p)
  <2>1. CASE p \in GuestProcs
    <3>1. SetsFrames(call[p], call'[p], "leave", <<>>)
      BY <2>1, UnmapStep
    <3>2. /\ call'[p].frames = <<>> /\ call'[p].chunks = call[p].chunks
          /\ call'[p].pc = "leave"
      BY <3>1, Zenon DEF SetsFrames
    <3>3. ways' = ways
      BY <2>1 DEF Unmap
    <3> QED BY <1>2, <3>2, <3>3 DEF WayKept
  <2>2. CASE p \notin GuestProcs
    <3>1. EndsAs(call[p], call'[p], call[p].ret, call[p].way)
      BY <2>2, UnmapStep
    <3>2. /\ call'[p].frames = <<>> /\ call'[p].chunks = <<>>
          /\ call'[p].way = call[p].way
      BY <3>1, Zenon DEF EndsAs, SetsEnded
    <3>3. ways' = ways \cup {call[p].way}
      BY <2>2 DEF Unmap
    <3>4. call[p].chunks = <<>>
      BY <2>2, NoChunksHere
    <3> QED BY <1>2, <3>2, <3>3, <3>4 DEF WayKept
  <2> QED BY <2>1, <2>2
<1>5. GuestKept(p)
  BY <1>2, <1>4 DEF GuestKept
<1>6. Held(hostPins', FrameLists', HostLost')
  BY <1>1, <1>3, <1>4, HostHeld, Zenon
<1> QED BY <1>1, <1>4, <1>5, <1>6, KeptHeld DEF Pins

LEMMA NothingHeld ==
  ASSUME NEW P, NEW L, PerProc(P, L), \A p \in P : L[p] = <<>>, NEW lost
  PROVE  Held(EmptyBag, L, lost)
<1>1. ASSUME NEW e PROVE e \notin Entries(L)
  <2>1. e \in Entries(L) <=> EntryOf(P, L, e)
    BY EntriesAre, Zenon
  <2>2. ~EntryOf(P, L, e)
    BY DEF EntryOf
  <2> QED BY <2>1, <2>2
<1>2. ASSUME NEW x PROVE Times(x, L) = 0
  <2>1. {e \in Entries(L) : L[e[1]][e[2]].page = x} = {}
    BY <1>1
  <2>2. Times(x, L) = Cardinality({})
    BY <2>1, Zenon DEF Times
  <2> QED BY <2>2, FS_EmptySet
<1>3. DOMAIN EmptyBag = {} /\ EmptyBag = [e \in {} |-> 1]
  BY DEF EmptyBag, SetToBag
<1>4. IsABag(EmptyBag)
  BY <1>3 DEF IsABag
<1>5. \A x : Copies(EmptyBag, x) = 0
  BY <1>3 DEF Copies
<1> QED BY <1>2, <1>4, <1>5 DEF Held

LEMMA PinsInit == PathInit => Pins
<1> SUFFICES ASSUME PathInit PROVE Pins
  OBVIOUS
<1>1. PathTypes /\ Lists
  BY TypesInit
<1>2. PerProc(GuestProcs, ChunkLists) /\ PerProc(Procs, FrameLists)
  BY <1>1, ListsTyped
<1>3. \A p \in Procs : call[p].chunks = <<>> /\ call[p].frames = <<>> /\ call[p].way = "none"
  BY DEF PathInit, NewCall
<1>4. GuestProcs \in SUBSET Procs
  BY DEF Procs
<1>5. \A p \in GuestProcs : ChunkLists[p] = <<>>
  BY <1>3, <1>4 DEF ChunkLists
<1>6. \A p \in Procs : FrameLists[p] = <<>>
  BY <1>3 DEF FrameLists
<1>7. WaysInv
  BY <1>3 DEF WaysInv
<1>8. guestPins = EmptyBag /\ hostPins = EmptyBag
  BY DEF PathInit
<1>9. Held(EmptyBag, ChunkLists, GuestLost)
  BY <1>2, <1>5, NothingHeld, Zenon
<1>10. Held(EmptyBag, FrameLists, HostLost)
  BY <1>2, <1>6, NothingHeld, Zenon
<1> QED BY <1>7, <1>8, <1>9, <1>10, Zenon DEF Pins

LEMMA PinsNext ==
  ASSUME PathTypes, Lists, Pins, [PathNext]_pathVars
  PROVE  Pins'
<1>1. ASSUME NEW p \in Procs, Quiet(p) PROVE Pins'
  <2>1. Alone(p) /\ WayKept(p) /\ GuestKept(p) /\ HostKept(p)
    BY <1>1, QuietSteps
  <2> QED BY <2>1, QuietPins
<1>2. ASSUME NEW p \in Procs, Call(p) \/ HostStep(p) PROVE Pins'
  <2>1. CASE Unmap(p)
    BY <2>1, UnmapPins
  <2>2. CASE ~Unmap(p)
    <3>1. Quiet(p)
      BY <1>2, <2>2, Zenon DEF HostStep, Quiet
    <3> QED BY <1>1, <3>1
  <2> QED BY <2>1, <2>2
<1>3. ASSUME NEW p \in GuestProcs, GuestStep(p) PROVE Pins'
  <2>0. p \in Procs
    BY DEF Procs
  <2>1. CASE Quiet(p)
    BY <1>1, <2>0, <2>1
  <2>2. CASE PinPages(p)
    BY <2>2, PinPagesPins
  <2>3. CASE PinLost(p) \/ TooSmall(p) \/ Leave(p)
    BY <2>3, EndsPins
  <2>4. CASE MapRemote(p)
    BY <2>4, MapRemotePins
  <2>5. CASE MapRemoteFails(p)
    BY <2>5, MapRemoteFailsPins
  <2> QED BY <1>3, <2>1, <2>2, <2>3, <2>4, <2>5, Zenon DEF GuestStep, Quiet
<1>4. ASSUME NEW p \in HostProcs, LocalRefused(p) \/ MapLocal(p) PROVE Pins'
  <2>0. p \in Procs
    BY DEF Procs
  <2>1. CASE LocalRefused(p)
    <3>1. Quiet(p)
      BY <2>1, Zenon DEF Quiet
    <3> QED BY <1>1, <2>0, <3>1
  <2>2. CASE MapLocal(p)
    BY <2>2, MapLocalPins
  <2> QED BY <1>4, <2>1, <2>2
<1>5. ASSUME AddrmodeSet \/ Sweeps PROVE Pins'
  <2>1. \A p \in Procs : /\ call'[p].chunks = call[p].chunks /\ call'[p].frames = call[p].frames
                         /\ call'[p].way = call[p].way /\ call'[p].pc = call[p].pc
    <3>1. CASE AddrmodeSet
      BY <3>1, AddrmodeSetStep, Zenon DEF SetsStrayed, SameBuffer, SameEnd
    <3>2. CASE Sweeps
      BY <3>2, SweepStep, Zenon DEF Unswept, SameBuffer, SameEnd
    <3> QED BY <1>5, <3>1, <3>2
  <2>2. guestPins' = guestPins /\ hostPins' = hostPins /\ ways' = ways
    BY <1>5, SweepStep DEF AddrmodeSet
  <2>3. ChunkLists' = ChunkLists
    BY <2>1 DEF ChunkLists, Procs
  <2>4. FrameLists' = FrameLists
    BY <2>1 DEF FrameLists
  <2>5. WaysInv'
    BY <2>1, <2>2 DEF WaysInv, Pins
  <2>6. GuestLost => GuestLost'
    BY <2>2 DEF GuestLost
  <2>7. HostLost => HostLost'
    BY <2>1, <2>2 DEF HostLost
  <2>8. Held(guestPins, ChunkLists, GuestLost')
    BY <2>6, HeldWeaker, Zenon DEF Pins
  <2>9. Held(hostPins, FrameLists, HostLost')
    BY <2>7, HeldWeaker, Zenon DEF Pins
  <2>10. Held(guestPins', ChunkLists', GuestLost')
    BY <2>2, <2>3, <2>8, Zenon
  <2>11. Held(hostPins', FrameLists', HostLost')
    BY <2>2, <2>4, <2>9, Zenon
  <2> QED BY <2>5, <2>10, <2>11 DEF Pins
<1>6. ASSUME guestPins' = guestPins, hostPins' = hostPins, ways' = ways, call' = call PROVE Pins'
  BY <1>6, Zenon DEF Pins, WaysInv, GuestLost, HostLost, ChunkLists, FrameLists
<1>7. ASSUME UNCHANGED pathVars PROVE Pins'
  BY <1>6, <1>7 DEF pathVars
<1> QED BY <1>2, <1>3, <1>4, <1>5, <1>7 DEF PathNext, Sweeps

LEMMA PathPins == PathSpec => []Pins
<1>1. PathTypes /\ Lists /\ Pins /\ [PathNext]_pathVars => Pins'
  BY PinsNext
<1> QED BY <1>1, PinsInit, PathTyped, PTL DEF PathSpec

LEMMA PathLocks == PathSpec => []Locks
<1>1. PathTypes /\ Lists /\ Locks /\ [PathNext]_pathVars => Locks'
  BY LocksNext
<1> QED BY <1>1, LocksInit, PathTyped, PTL DEF PathSpec

LEMMA HeldExactly ==
  ASSUME NEW P, NEW L, PerProc(P, L), NEW pins, NEW lost, Held(pins, L, lost)
  PROVE  /\ ~lost => pins = PageBag(L)
         /\ \A p \in P : \A i \in DOMAIN L[p] : BagIn(L[p][i].page, pins)
<1>1. IsABag(PageBag(L)) /\ \A x : Copies(PageBag(L), x) = Times(x, L)
  BY TimesTyped, Zenon
<1>2. IsABag(pins)
  BY DEF Held
<1>3. ASSUME ~lost PROVE pins = PageBag(L)
  <2>1. \A x : Copies(pins, x) = Copies(PageBag(L), x)
    BY <1>1, <1>3, Zenon DEF Held
  <2> QED BY <1>1, <1>2, <2>1, SameBag
<1>4. ASSUME NEW p \in P, NEW i \in DOMAIN L[p] PROVE BagIn(L[p][i].page, pins)
  <2> DEFINE x == L[p][i].page
             t == Times(x, L)
             n == Copies(pins, x)
  <2>1. t \in Nat /\ t > 0
    BY TimesTyped, Zenon
  <2>2. t <= n
    BY Zenon DEF Held
  <2>3. n \in Nat /\ (n > 0 <=> BagIn(x, pins))
    BY <1>2, CopiesTyped
  <2> HIDE DEF x, t, n
  <2>4. n > 0
    BY <2>1, <2>2, <2>3
  <2> QED BY <2>3, <2>4 DEF x
<1> QED BY <1>3, <1>4

(* Every reference a call takes on a page (fh_pin_pages, map_remote_pages_ *)
(* to_sgl, char_sgdma_map_user_buf_to_sgl) it gives back, however it ends  *)
(* but for the ways that lose them; calls that share pages do not give     *)
(* back each other's.                                                      *)
THEOREM ReferencesBalance == PathSpec => []PinsBalanced
<1>1. PathTypes /\ Pins => PinsBalanced
  <2> SUFFICES ASSUME PathTypes, Pins PROVE PinsBalanced
    OBVIOUS
  <2>1. PerProc(GuestProcs, ChunkLists) /\ PerProc(Procs, FrameLists)
    BY ListsTyped
  <2>2. ~GuestLost => guestPins = PageBag(ChunkLists)
    BY <2>1, HeldExactly DEF Pins
  <2>3. ~HostLost => hostPins = PageBag(FrameLists)
    BY <2>1, HeldExactly DEF Pins
  <2> QED BY <2>2, <2>3, Zenon DEF PinsBalanced, GuestLost, HostLost
<1> QED BY <1>1, PathTyped, PathPins, PTL

(* The ring is never overrun, the descriptors of a transfer belong to the  *)
(* call that holds desc_lock, and what is delegated is memory of the guest. *)
THEOREM PathTypesHold == PathSpec => []DmaTypeOK
<1>1. PathTypes /\ Lists /\ Locks /\ Grants /\ Pins => DmaTypeOK
  <2> SUFFICES ASSUME PathTypes, Lists, Locks, Grants, Pins PROVE DmaTypeOK
    OBVIOUS
  <2>1. descIdx \in 0..RingSize - 1 /\ delegated \subseteq 1..GuestPages
    BY DEF PathTypes, Grants
  <2>2. IsABag(guestPins) /\ IsABag(hostPins)
    BY DEF Pins, Held
  <2>3. ASSUME NEW p \in Procs
        PROVE  /\ call[p].xfer # <<>> <=> At(p, "run")
               /\ descLock = p <=> call[p].pc \in {"build", "run", "crashed"}
               /\ \A i \in DOMAIN call[p].xfer : call[p].xfer[i].slot \in 0..RingSize - 1
               /\ escLock = p => p \in GuestProcs
    <3>1. RunInv(p, call[p])
      BY DEF Lists, ListInv
    <3>2. call[p].xfer # <<>> <=> At(p, "run")
      BY <3>1, Zenon DEF RunInv, At
    <3>3. /\ descLock = p <=> call[p].pc \in {"build", "run", "crashed"}
          /\ escLock = p => p \in GuestProcs
      BY DEF Locks, Busy
    <3>4. call[p].xfer \in Seq(RingDescs)
      BY DEF PathTypes, Calls
    <3>5. \A i \in DOMAIN call[p].xfer : call[p].xfer[i] \in RingDescs
      BY <3>4, RingMeasured
    <3>6. \A i \in DOMAIN call[p].xfer : call[p].xfer[i].slot \in 0..RingSize - 1
      BY <3>5 DEF RingDescs
    <3> QED BY <3>2, <3>3, <3>6
  <2> QED BY <2>1, <2>2, <2>3 DEF DmaTypeOK
<1> QED BY <1>1, PathTyped, PathLocks, PathGrants, PathPins, PTL

LEMMA RunsOnPinned ==
  ASSUME PathTypes, Lists, Progress, Pins, NEW p \in Procs, call[p].pc = "run",
         ~call[p].strayed, NEW i \in DOMAIN call[p].xfer,
         NEW a \in call[p].xfer[i].addr .. call[p].xfer[i].addr + call[p].xfer[i].len - 1
  PROVE  BagIn(a \div PageSize, hostPins)
<1> DEFINE c == call[p]
           d == c.xfer[i]
           addr == d.addr
           b == a - addr
           k == ByteIndex(c, i, b)
<1>1. d \in RingDescs
  <2>1. c.xfer \in Seq(RingDescs)
    BY DEF PathTypes, Calls
  <2> QED BY <2>1, RingMeasured
<1>2. addr \in Nat /\ d.len \in Nat
  BY <1>1, ListBounds DEF RingDescs
<1>3. b \in 0..d.len - 1 /\ addr + b = a
  BY <1>2
<1>4. Serves(p, c, i, b, k)
  BY <1>3, RunByte
<1>5. a = ByteOf(p, c.req)[k] /\ InFrame(p, c.req, k)
  BY <1>3, <1>4, Zenon DEF Serves
<1>6. PICK j \in 1..Len(BufferFrames(p, c.req)) :
        ByteOf(p, c.req)[k] \div PageSize = BufferFrames(p, c.req)[j].page
  BY <1>5, Zenon DEF InFrame
<1>7. c.frames = BufferFrames(p, c.req)
  <2>1. FramesInv(p, c)
    BY DEF Lists, ListInv
  <2>2. c.pc \in Framed
    BY DEF Framed
  <2> QED BY <2>1, <2>2, Zenon DEF FramesInv
<1>8. c.frames \in Seq(PageChunks) /\ FrameLists[p] = c.frames
  BY DEF PathTypes, Calls, FrameLists
<1>9. j \in DOMAIN FrameLists[p]
  BY <1>6, <1>7, <1>8
<1>10. PerProc(Procs, FrameLists) /\ Held(hostPins, FrameLists, HostLost)
  BY ListsTyped DEF Pins
<1>11. BagIn(FrameLists[p][j].page, hostPins)
  BY <1>9, <1>10, HeldExactly, Zenon
<1> QED BY <1>5, <1>6, <1>7, <1>8, <1>11, Zenon

(* The pages the card is at work on are pinned on both sides, and the ones *)
(* of the guest are delegated to it, unless their delegation failed or an  *)
(* undelegation, which waits for no DMA (devmem_undelegate.c), took one of *)
(* them since: no other call, and no end of one that shares the pages,     *)
(* gives up a page of a transfer that is under way.                        *)
THEOREM AccessIsGranted == PathSpec => []AccessGranted
<1>1. PathTypes /\ Lists /\ Progress /\ Grants /\ Pins => AccessGranted
  <2> SUFFICES ASSUME PathTypes, Lists, Progress, Grants, Pins, NEW p \in Procs, At(p, "run")
               PROVE  /\ ~call[p].strayed =>
                           \A i \in DOMAIN call[p].xfer :
                             \A a \in call[p].xfer[i].addr ..
                                      call[p].xfer[i].addr + call[p].xfer[i].len - 1 :
                               BagIn(a \div PageSize, hostPins)
                      /\ \A i \in DOMAIN call[p].chunks :
                           /\ BagIn(call[p].chunks[i].page, guestPins)
                           /\ ~call[p].blind /\ call[p].chunks[i].nbytes > 0 =>
                                call[p].chunks[i].page \in delegated
    BY Zenon DEF AccessGranted
  <2>0. call[p].pc = "run"
    BY DEF At
  <2>1. ASSUME ~call[p].strayed, NEW i \in DOMAIN call[p].xfer,
               NEW a \in call[p].xfer[i].addr ..
                         call[p].xfer[i].addr + call[p].xfer[i].len - 1
        PROVE  BagIn(a \div PageSize, hostPins)
    BY <2>0, <2>1, RunsOnPinned
  <2>2. ASSUME NEW i \in DOMAIN call[p].chunks PROVE BagIn(call[p].chunks[i].page, guestPins)
    <3>1. p \in GuestProcs
      <4>1. CASE p \notin GuestProcs
        <5>1. call[p].chunks = <<>>
          BY <4>1, NoChunksHere
        <5> QED BY <5>1
      <4> QED BY <4>1
    <3>2. ChunkLists[p] = call[p].chunks
      BY <3>1 DEF ChunkLists
    <3>3. PerProc(GuestProcs, ChunkLists) /\ Held(guestPins, ChunkLists, GuestLost)
      BY ListsTyped DEF Pins
    <3>4. \A j \in DOMAIN ChunkLists[p] : BagIn(ChunkLists[p][j].page, guestPins)
      BY <3>1, <3>3, HeldExactly, Zenon
    <3> QED BY <3>2, <3>4, Zenon
  <2>3. ASSUME NEW i \in DOMAIN call[p].chunks, ~call[p].blind, call[p].chunks[i].nbytes > 0
        PROVE  call[p].chunks[i].page \in delegated
    <3>1. GrantInv(call[p], delegated)
      BY DEF Grants
    <3>2. call[p].pc \in Pinned \ {"pinned"}
      BY <2>0 DEF Pinned
    <3> QED BY <2>3, <3>1, <3>2, Zenon DEF GrantInv
  <2> QED BY <2>1, <2>2, <2>3, Zenon
<1> QED BY <1>1, PathTyped, PathProgress, PathGrants, PathPins, PTL
=============================================================================
