------------------------------- MODULE PageLists -------------------------------
(***************************************************************************)
(* The lists a buffer is turned into on its way to the card: the page      *)
(* chunks of the guest, the scatter list of the host, the software         *)
(* descriptors of a request and the descriptors in the engine's ring.      *)
(* Every list is computed by the loop of the code, as a recursive          *)
(* function of the number of rounds.                                       *)
(*                                                                         *)
(* An address is a number of bytes; page p holds the bytes from            *)
(* p * PageSize on.                                                        *)
(***************************************************************************)
EXTENDS Integers, Sequences, SequencesExt

CONSTANTS
  PageSize,      \* PAGE_SIZE
  DescBlenMax,   \* desc_blen_max: bytes of one descriptor
  RingSize,      \* engine->desc_max
  AdjBlock       \* XDMA_MAX_ADJ_BLOCK_SIZE: descriptors fetched together

ASSUME ListBounds == {PageSize, DescBlenMax, RingSize, AdjBlock} \subseteq Nat \ {0}

Least(a, b) == IF a <= b THEN a ELSE b

\* The pages a buffer touches; none for an empty buffer at the start of a page.
PageCount(buf, len) ==
  ((buf + len + PageSize - 1) - (buf - (buf % PageSize))) \div PageSize

\* Two neighbours of the list are the same page.
Duplicates(pages) == \E i \in 2..Len(pages) : pages[i - 1] = pages[i]

\* Where the chunk ends that begins d bytes into the buffer: at the end of its
\* page or of the buffer.
ChunkEnd(buf, len, d) == d + Least(PageSize - ((buf + d) % PageSize), len - d)

\* The bytes in the first k of n chunks, each from where the one before it ended
Covered(buf, len, n) ==
  LET done[k \in 0..n] == IF k = 0 THEN 0 ELSE ChunkEnd(buf, len, done[k - 1])
  IN done

\* One chunk per page.
Chunks(pages, buf, len) ==
  LET done == Covered(buf, len, Len(pages))
  IN [i \in 1..Len(pages) |-> [page   |-> pages[i],
                               offset |-> (buf + done[i - 1]) % PageSize,
                               nbytes |-> done[i] - done[i - 1]]]

--------------------------------------------------------------------------------
(* Delegation of the pages of a scatter list                               *)

\* Faulty variant: the length is rounded down to pages.
GranulesDown(nbytes) == nbytes \div PageSize

Granules(nbytes) == (nbytes + PageSize - 1) \div PageSize

NewRange(sg) == [base |-> sg.page, num |-> Granules(sg.nbytes)]

\* Faulty variant: any later page extends the range.
AddRangeFromAny(ranges, sg) ==
  IF ranges # <<>> /\ Last(ranges).base < sg.page
  THEN [ranges EXCEPT ![Len(ranges)].num = @ + Granules(sg.nbytes)]
  ELSE Append(ranges, NewRange(sg))

\* An entry whose page follows the range collected so far extends the range.
AddRange(ranges, sg) ==
  IF ranges # <<>> /\ Last(ranges).base + Last(ranges).num = sg.page
  THEN [ranges EXCEPT ![Len(ranges)].num = @ + Granules(sg.nbytes)]
  ELSE Append(ranges, NewRange(sg))

\* The ranges after each entry of the list
RangeLoop(sgl) ==
  LET made[k \in 0..Len(sgl)] ==
        IF k = 0 THEN <<>> ELSE AddRange(made[k - 1], sgl[k])
  IN made

DelegateRanges(sgl) == RangeLoop(sgl)[Len(sgl)]

Granted(ranges) ==
  UNION {ranges[i].base .. ranges[i].base + ranges[i].num - 1 : i \in DOMAIN ranges}

--------------------------------------------------------------------------------
(* The request of a scatter list                                           *)

\* What pci_map_sg makes of the scatter list: one bus segment per entry, or,
\* behind an IOMMU that merges, one per run of adjoining entries.
AddSg(segs, sg, merge) ==
  LET addr == sg.page * PageSize + sg.offset
  IN IF merge /\ segs # <<>> /\ Last(segs).addr + Last(segs).len = addr
     THEN [segs EXCEPT ![Len(segs)].len = @ + sg.nbytes]
     ELSE Append(segs, [addr |-> addr, len |-> sg.nbytes])

SgLoop(sgl, merge) ==
  LET segs[k \in 0..Len(sgl)] ==
        IF k = 0 THEN <<>> ELSE AddSg(segs[k - 1], sgl[k], merge)
  IN segs

MapSg(sgl, merge) == SgLoop(sgl, merge)[Len(sgl)]

\* Faulty variant: the pieces are a page apart.
CutPage(seg) ==
  [k \in 1..(seg.len + DescBlenMax - 1) \div DescBlenMax |->
     [addr |-> seg.addr + (k - 1) * PageSize,
      len  |-> Least(DescBlenMax, seg.len - (k - 1) * DescBlenMax)]]

\* A segment longer than a descriptor may be is cut.
Cut(seg) ==
  [k \in 1..(seg.len + DescBlenMax - 1) \div DescBlenMax |->
     [addr |-> seg.addr + (k - 1) * DescBlenMax,
      len  |-> Least(DescBlenMax, seg.len - (k - 1) * DescBlenMax)]]

CutLoop(segs) ==
  LET descs[k \in 0..Len(segs)] ==
        IF k = 0 THEN <<>> ELSE descs[k - 1] \o Cut(segs[k])
  IN descs

InitRequest(segs) == CutLoop(segs)[Len(segs)]

\* The room xdma_init_request counts for them beforehand.
RequestRoom(segs) ==
  LET room[k \in 0..Len(segs)] ==
        IF k = 0 THEN 0
        ELSE room[k - 1] + 1 + IF segs[k].len > DescBlenMax
                               THEN (segs[k].len + DescBlenMax - 1) \div DescBlenMax ELSE 0
  IN room[Len(segs)]

\* The bytes of the first k entries of a list.
Upto(list) ==
  LET sum[k \in 0..Len(list)] == IF k = 0 THEN 0 ELSE sum[k - 1] + list[k].len
  IN sum

Total(list) == Upto(list)[Len(list)]

--------------------------------------------------------------------------------
(* The descriptors of a transfer                                           *)

\* Faulty variant: the alignment of the block is not looked at.
GetNextAdjUnaligned(remaining, next) ==
  IF remaining <= 1 THEN 0 ELSE Least(AdjBlock - 1, remaining - 1)

\* How many descriptors behind the next one the engine may fetch with it.
GetNextAdj(remaining, next) ==
  IF remaining <= 1 THEN 0 ELSE Least(AdjBlock - (next % AdjBlock) - 1, remaining - 1)

\* The descriptors chained from slot first on, the last one stopping the engine.
Linked(descs, first) ==
  [i \in DOMAIN descs |->
     [addr |-> descs[i].addr, ep |-> descs[i].ep, len |-> descs[i].len,
      slot |-> first + i - 1,
      next |-> IF i = Len(descs) THEN RingSize ELSE first + i,
      adj  |-> GetNextAdj(Len(descs) - i, first + i),
      stop |-> i = Len(descs)]]

\* Faulty variant: the end of the ring is not looked at.
TransferSizeWhole(left, idx) == Least(left, RingSize)

\* How many of the remaining descriptors go into the next transfer: it never
\* runs past the end of the ring.
TransferSize(left, idx) ==
  LET n == Least(left, RingSize)
  IN IF idx + n >= RingSize THEN RingSize - idx ELSE n

\* The descriptors for a transfer that begins at byte ep of the card; every one
\* starts where the one before it ended, or in fixed mode at ep.
TransferBuild(sdescs, ep, fixed) ==
  [i \in 1..Len(sdescs) |-> [addr |-> sdescs[i].addr, len |-> sdescs[i].len,
                             ep   |-> IF fixed THEN ep ELSE ep + Upto(sdescs)[i - 1]]]

\* Stands for 2^32, where the unsigned lengths wrap round.
U32 == 65536

\* offset & (aperture - 1), in a set of its own: the offset into the window, if
\* the aperture is a power of two.
Bit(n, i) == (n \div 2^i) % 2
Masked(offset, aperture) ==
  {m \in 0..aperture - 1 :
     \A i \in 0..aperture - 1 : Bit(m, i) = Bit(offset, i) * Bit(aperture - 1, i)}

\* One pass of the loop of xdma_xfer_aperture, from a request that has advanced
\* to entry sgIdx, offset sgOff, after offset bytes; it begins start bytes into
\* the window.  The scatter list is walked from its head again in every pass
\* (req->sg is never advanced), while the count of entries goes on from sgIdx.
ApertureStart(r) ==
  [list |-> <<>>, i |-> r.sgIdx, sg |-> 1, off |-> r.sgOff,
   ep |-> r.ep + r.start]

NextSg(s) == [s EXCEPT !.i = @ + 1, !.sg = @ + 1, !.off = 0]

\* A step makes a descriptor or skips an entry of which nothing is left.
ApertureStep(segs, r, room, s) ==
  LET epMax == r.ep + r.aperture - 1
      seg   == segs[s.sg]
      left  == (seg.len - s.off) % U32
      ep    == IF s.ep > epMax THEN r.ep ELSE s.ep
      want  == Least(left, Least(r.aperture, DescBlenMax))
      len   == IF ep + want > epMax THEN epMax - ep + 1 ELSE want
      made  == [s EXCEPT !.off = @ + len, !.ep = ep + len,
                         !.list = Append(@, [addr |-> seg.addr + s.off, ep |-> ep,
                                             len |-> len])]
  IN IF s.i >= Len(segs) \/ Len(s.list) = room THEN s
     ELSE IF left = 0 THEN NextSg(s)
     ELSE IF len = left THEN NextSg(made) ELSE made

ApertureLoop(segs, r, room) ==
  LET s[k \in 0..RingSize + Len(segs)] ==
        IF k = 0 THEN ApertureStart(r) ELSE ApertureStep(segs, r, room, s[k - 1])
  IN s

AperturePass(segs, r, idx) ==
  ApertureLoop(segs, r, RingSize - idx)[RingSize + Len(segs)]
=============================================================================
