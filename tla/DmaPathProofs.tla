----------------------------- MODULE DmaPathProofs -----------------------------
(***************************************************************************)
(* Machine-checked properties of the way of a DMA (DmaPath), for every     *)
(* page size, length of a descriptor, size of the ring, memory and number  *)
(* of processes.                                                           *)
(***************************************************************************)
EXTENDS DmaPath, PageListProofs

-----------------------------------------------------------------------------
(* The buffer of a request                                                 *)

RequestOK(p, r) ==
  r \in DmaRequests /\ (r.buf + r.len + PageSize - 1) \div PageSize <= Len(UserPage[p])

\* Every page of the buffer is there.
Present(p, r) == BufferPages(p, r) \in Seq(Nat)

BufferChunks(p, r) == Chunks(BufferPages(p, r), r.buf, r.len)

\* The manager knows its pages.
Known(p, r) ==
  p \in GuestProcs => \A i \in 1..Len(BufferPages(p, r)) : BufferPages(p, r)[i] \in DOMAIN HostPage

\* The scatter list of the buffer
BufferFrames(p, r) ==
  IF p \in GuestProcs
  THEN [i \in DOMAIN BufferChunks(p, r) |->
          [BufferChunks(p, r)[i] EXCEPT !.page = HostPage[BufferChunks(p, r)[i].page]]]
  ELSE BufferChunks(p, r)

\* Where byte k of the buffer is
ByteOf(p, r) ==
  [k \in Nat |-> Frame(p, UserPage[p][((r.buf + k) \div PageSize) + 1]) * PageSize
                   + ((r.buf + k) % PageSize)]

LEMMA RequestFields ==
  ASSUME NEW p, NEW r, RequestOK(p, r)
  PROVE  /\ r.buf \in Nat /\ r.len \in Nat /\ r.len < U32 /\ r.ep \in Nat
         /\ r.aperture \in Nat \ {0} /\ r.write \in BOOLEAN
         /\ r \in DmaRequests
BY Wraps DEF RequestOK, DmaRequests

LEMMA PagesTyped ==
  ASSUME NEW p \in Procs, NEW r, RequestOK(p, r)
  PROVE  /\ PageCount(r.buf, r.len) \in Nat
         /\ BufferPages(p, r) \in Seq(Nat \cup {Hole})
         /\ Len(BufferPages(p, r)) = PageCount(r.buf, r.len)
         /\ \A i \in 1..PageCount(r.buf, r.len) :
              /\ (r.buf \div PageSize) + i \in DOMAIN UserPage[p]
              /\ BufferPages(p, r)[i] = UserPage[p][(r.buf \div PageSize) + i]
<1> DEFINE n == PageCount(r.buf, r.len)
           q == r.buf \div PageSize
           buf == r.buf
           len == r.len
           up == UserPage[p]
           pages == BufferPages(p, r)
<1>1. buf \in Nat /\ len \in Nat
  BY RequestFields
<1>2. n \in Nat /\ q + n = (buf + len + PageSize - 1) \div PageSize
  <2> HIDE DEF buf, len
  <2>1. PageCount(buf, len) \in Nat
        /\ (buf \div PageSize) + PageCount(buf, len) = (buf + len + PageSize - 1) \div PageSize
    BY <1>1, PagesReach
  <2> QED BY <2>1, Zenon DEF buf, len
<1>3. q + n <= Len(up)
  BY <1>2, Zenon DEF RequestOK
<1>4. up \in Seq(Nat \cup {Hole})
  BY DmaMemory
<1>5. q \in Nat
  <2> HIDE DEF buf
  <2>1. buf \div PageSize \in Nat
    BY <1>1, ListBounds, Division
  <2> QED BY <2>1 DEF buf
<1>6. pages = [i \in 1..n |-> up[q + i]]
  BY Zenon DEF BufferPages
<1> HIDE DEF n, q, up, pages
<1>7. ASSUME NEW i \in 1..n PROVE q + i \in 1..Len(up) /\ up[q + i] \in Nat \cup {Hole}
  <2>1. q + i \in 1..Len(up)
    BY <1>2, <1>3, <1>4, <1>5
  <2> QED BY <1>4, <2>1
<1>8. DOMAIN up = 1..Len(up)
  BY <1>4
<1>9. pages \in Seq(Nat \cup {Hole}) /\ Len(pages) = n /\ \A i \in 1..n : pages[i] = up[q + i]
  BY <1>2, <1>6, <1>7
<1> QED BY <1>2, <1>7, <1>8, <1>9 DEF n, q, up, pages

(* get_user_pages gets all pages only if none is missing.                  *)
LEMMA GotAll ==
  ASSUME NEW pages \in Seq(Nat \cup {Hole}), Got(pages) = pages
  PROVE  pages \in Seq(Nat)
<1> DEFINE holes == {i \in DOMAIN pages : pages[i] = Hole}
           m == Min(holes)
<1>1. Len(pages) \in Nat /\ DOMAIN pages = 1..Len(pages)
  OBVIOUS
<1>2. holes = {}
  <2> SUFFICES ASSUME holes # {} PROVE FALSE
    OBVIOUS
  <2>1. Got(pages) = SubSeq(pages, 1, m - 1)
    BY Zenon DEF Got
  <2>2. holes \in SUBSET Nat
    BY <1>1
  <2>3. \E x \in holes : \A y \in holes : x <= y
    <3> HIDE DEF holes
    <3> QED BY <2>2, LeastNumber
  <2>4. m \in holes
    BY <2>3, Zenon DEF Min
  <2>5. m \in 1..Len(pages)
    BY <1>1, <2>4
  <2> HIDE DEF m, holes
  <2>6. Len(SubSeq(pages, 1, m - 1)) = m - 1
    BY <1>1, <2>5
  <2>7. Len(pages) = m - 1
    BY <2>1, <2>6
  <2> QED BY <1>1, <2>5, <2>7
<1>3. \A i \in 1..Len(pages) : pages[i] \in Nat
  BY <1>1, <1>2
<1> QED BY <1>1, <1>3

LEMMA ChunksAre ==
  ASSUME NEW buf \in Nat, NEW len \in Nat, NEW pages \in Seq(Nat),
         Len(pages) = PageCount(buf, len)
  PROVE  /\ Chunks(pages, buf, len) \in Seq(PageChunks)
         /\ Len(Chunks(pages, buf, len)) = Len(pages)
         /\ \A i \in 1..Len(pages) : Chunks(pages, buf, len)[i].page = pages[i]
         /\ LET done == Covered(buf, len, Len(pages))
            IN \A i \in 1..Len(pages) :
                 /\ Chunks(pages, buf, len)[i].offset = (buf + done[i - 1]) % PageSize
                 /\ Chunks(pages, buf, len)[i].nbytes = done[i] - done[i - 1]
<1> DEFINE n == Len(pages)
           done == Covered(buf, len, n)
           Chunk(i) == [page |-> pages[i], offset |-> (buf + done[i - 1]) % PageSize,
                        nbytes |-> done[i] - done[i - 1]]
           chunks == [i \in 1..n |-> Chunk(i)]
<1>1. Chunks(pages, buf, len) = chunks
  BY Zenon DEF Chunks
<1>2. n \in Nat /\ \A i \in 1..n : pages[i] \in Nat
  OBVIOUS
<1>3. /\ done \in [0..n -> 0..len]
      /\ \A i \in 1..n : done[i] - done[i - 1] \in 0..PageSize
  BY <1>2, Chunking DEF Chunked
<1> HIDE DEF n, done
<1>4. ASSUME NEW i \in 1..n PROVE Chunk(i) \in PageChunks
  <2>1. i - 1 \in 0..n
    BY <1>2
  <2>2. done[i - 1] \in Nat
    BY <1>3, <2>1
  <2>3. (buf + done[i - 1]) % PageSize \in Nat
    BY <2>2, ListBounds
  <2>4. done[i] - done[i - 1] \in 0..PageSize /\ pages[i] \in Nat
    BY <1>2, <1>3
  <2> DEFINE o == (buf + done[i - 1]) % PageSize
             l == done[i] - done[i - 1]
             g == pages[i]
  <2>5. o \in Nat /\ l \in 0..PageSize /\ g \in Nat
    BY <2>3, <2>4
  <2> HIDE DEF o, l, g
  <2>6. [page |-> g, offset |-> o, nbytes |-> l] \in PageChunks
    BY <2>5 DEF PageChunks
  <2> QED BY <2>6 DEF o, l, g
<1>5. \A i \in 1..n : /\ Chunk(i).page = pages[i]
                      /\ Chunk(i).offset = (buf + done[i - 1]) % PageSize
                      /\ Chunk(i).nbytes = done[i] - done[i - 1]
  OBVIOUS
<1> HIDE DEF Chunk
<1>6. chunks \in Seq(PageChunks) /\ Len(chunks) = n /\ \A i \in 1..n : chunks[i] = Chunk(i)
  BY <1>2, <1>4
<1> HIDE DEF chunks
<1>7. \A i \in 1..n : /\ chunks[i].page = pages[i]
                      /\ chunks[i].offset = (buf + done[i - 1]) % PageSize
                      /\ chunks[i].nbytes = done[i] - done[i - 1]
  BY <1>5, <1>6, Zenon
<1> QED BY <1>1, <1>6, <1>7, Zenon DEF n, done

LEMMA BufferTyped ==
  ASSUME NEW p \in Procs, NEW r, RequestOK(p, r), Present(p, r)
  PROVE  /\ BufferChunks(p, r) \in Seq(PageChunks)
         /\ Len(BufferChunks(p, r)) = Len(BufferPages(p, r))
         /\ \A i \in 1..Len(BufferPages(p, r)) :
              BufferChunks(p, r)[i].page = BufferPages(p, r)[i]
<1> DEFINE buf == r.buf
           len == r.len
           pages == BufferPages(p, r)
<1>1. buf \in Nat /\ len \in Nat
  BY RequestFields
<1>2. Len(pages) = PageCount(buf, len) /\ pages \in Seq(Nat)
  BY PagesTyped DEF Present
<1>3. BufferChunks(p, r) = Chunks(pages, buf, len)
  BY Zenon DEF BufferChunks
<1> HIDE DEF buf, len, pages
<1>4. /\ Chunks(pages, buf, len) \in Seq(PageChunks)
      /\ Len(Chunks(pages, buf, len)) = Len(pages)
      /\ \A i \in 1..Len(pages) : Chunks(pages, buf, len)[i].page = pages[i]
  BY <1>1, <1>2, ChunksAre
<1> QED BY <1>3, <1>4, Zenon DEF pages

LEMMA FramesAre ==
  ASSUME NEW p \in Procs, NEW r, RequestOK(p, r), Present(p, r), Known(p, r)
  PROVE  /\ BufferChunks(p, r) \in Seq(PageChunks)
         /\ BufferFrames(p, r) \in Seq(PageChunks)
         /\ Len(BufferChunks(p, r)) = PageCount(r.buf, r.len)
         /\ Len(BufferFrames(p, r)) = PageCount(r.buf, r.len)
         /\ \A i \in 1..PageCount(r.buf, r.len) :
              /\ BufferChunks(p, r)[i].page = BufferPages(p, r)[i]
              /\ BufferFrames(p, r)[i].page = Frame(p, BufferPages(p, r)[i])
         /\ LET done == Covered(r.buf, r.len, PageCount(r.buf, r.len))
            IN \A i \in 1..PageCount(r.buf, r.len) :
                 /\ BufferFrames(p, r)[i].offset = (r.buf + done[i - 1]) % PageSize
                 /\ BufferFrames(p, r)[i].nbytes = done[i] - done[i - 1]
<1> DEFINE buf == r.buf
           len == r.len
           n == PageCount(buf, len)
           pages == BufferPages(p, r)
           done == Covered(buf, len, n)
           chunks == BufferChunks(p, r)
           frames == BufferFrames(p, r)
<1>1. buf \in Nat /\ len \in Nat
  BY RequestFields
<1>2. n \in Nat /\ Len(pages) = n /\ pages \in Seq(Nat)
  BY PagesTyped DEF Present
<1>3. /\ chunks \in Seq(PageChunks) /\ Len(chunks) = n
      /\ \A i \in 1..n : chunks[i].page = pages[i]
      /\ \A i \in 1..n : /\ chunks[i].offset = (buf + done[i - 1]) % PageSize
                         /\ chunks[i].nbytes = done[i] - done[i - 1]
  <2>1. chunks = Chunks(pages, buf, len)
    BY Zenon DEF BufferChunks
  <2> HIDE DEF buf, len, pages, chunks
  <2> QED BY <1>1, <1>2, <2>1, ChunksAre
<1>4. \A i \in 1..n : pages[i] \in Nat /\ (p \in GuestProcs => pages[i] \in DOMAIN HostPage)
  BY <1>2 DEF Known
<1>5. /\ p \in GuestProcs => frames = [i \in DOMAIN chunks |->
                                         [chunks[i] EXCEPT !.page = HostPage[chunks[i].page]]]
      /\ p \notin GuestProcs => frames = chunks
  BY Zenon DEF BufferFrames
<1> HIDE DEF n, pages, done, chunks, frames, buf, len
<1>6. /\ frames \in Seq(PageChunks) /\ Len(frames) = n
      /\ \A i \in 1..n : /\ frames[i].page = Frame(p, pages[i])
                         /\ frames[i].offset = chunks[i].offset
                         /\ frames[i].nbytes = chunks[i].nbytes
  <2>1. CASE p \notin GuestProcs
    BY <1>3, <1>5, <2>1 DEF Frame
  <2>2. CASE p \in GuestProcs
    <3> DEFINE New(i) == [chunks[i] EXCEPT !.page = HostPage[chunks[i].page]]
    <3>1. DOMAIN chunks = 1..n /\ \A i \in 1..n : chunks[i] \in PageChunks
      BY <1>2, <1>3
    <3>2. ASSUME NEW i \in 1..n
          PROVE  /\ New(i) \in PageChunks /\ New(i).page = Frame(p, pages[i])
                 /\ New(i).offset = chunks[i].offset /\ New(i).nbytes = chunks[i].nbytes
      <4> DEFINE c == chunks[i]
                 g == HostPage[c.page]
      <4>1. c \in PageChunks /\ c.page = pages[i]
        BY <1>3, <3>1
      <4>2. g \in Nat /\ g = Frame(p, pages[i])
        <5>1. HostPage \in [DOMAIN HostPage -> Nat]
          BY DmaMemory
        <5>2. pages[i] \in DOMAIN HostPage
          BY <1>4, <2>2
        <5>3. HostPage[pages[i]] \in Nat
          BY <5>1, <5>2
        <5> QED BY <2>2, <4>1, <5>3, Zenon DEF Frame
      <4> HIDE DEF c, g
      <4>3. /\ [c EXCEPT !.page = g] \in PageChunks /\ [c EXCEPT !.page = g].page = g
            /\ [c EXCEPT !.page = g].offset = c.offset /\ [c EXCEPT !.page = g].nbytes = c.nbytes
        BY <4>1, <4>2 DEF PageChunks
      <4> QED BY <4>2, <4>3, Zenon DEF c, g
    <3>3. frames = [i \in 1..n |-> New(i)]
      BY <1>5, <2>2, <3>1, Zenon
    <3> HIDE DEF New
    <3>4. frames \in Seq(PageChunks) /\ Len(frames) = n /\ \A i \in 1..n : frames[i] = New(i)
      BY <1>2, <3>2, <3>3
    <3> QED BY <3>2, <3>4, Zenon
  <2> QED BY <2>1, <2>2, Zenon
<1>7. \A i \in 1..n : /\ frames[i].offset = (buf + done[i - 1]) % PageSize
                      /\ frames[i].nbytes = done[i] - done[i - 1]
  BY <1>3, <1>6, Zenon
<1> QED BY <1>3, <1>6, <1>7, Zenon DEF n, pages, done, chunks, frames, buf, len

(* From the buffer to the segments and the software descriptors: every     *)
(* byte keeps its place.                                                   *)
LaidExactly(list, r, byte) == Lays(list, Upto(list), byte) /\ Total(list) = r.len

LEMMA BufferLaid ==
  ASSUME NEW p \in Procs, NEW r, RequestOK(p, r), Present(p, r), Known(p, r), NEW merge
  PROVE  LET segs == MapSg(BufferFrames(p, r), merge)
         IN /\ segs \in Seq(Spans) /\ LaidExactly(segs, r, ByteOf(p, r))
            /\ InitRequest(segs) \in Seq(DescSpans)
            /\ LaidExactly(InitRequest(segs), r, ByteOf(p, r))
<1> DEFINE buf == r.buf
           len == r.len
           n == PageCount(buf, len)
           pages == BufferPages(p, r)
           done == Covered(buf, len, n)
           frames == BufferFrames(p, r)
           q == buf \div PageSize
           byte == ByteOf(p, r)
           segs == MapSg(frames, merge)
           descs == InitRequest(segs)
<1>0. PageSize \in Nat \ {0}
  BY ListBounds
<1>1. buf \in Nat /\ len \in Nat
  BY RequestFields
<1>2. n \in Nat /\ \A i \in 1..n : pages[i] = UserPage[p][q + i]
  BY PagesTyped, Zenon
<1>3. /\ frames \in Seq(PageChunks) /\ Len(frames) = n
      /\ \A i \in 1..n : /\ frames[i].page = Frame(p, pages[i])
                         /\ frames[i].offset = (buf + done[i - 1]) % PageSize
                         /\ frames[i].nbytes = done[i] - done[i - 1]
  BY FramesAre, Zenon
<1>4. /\ done \in [0..n -> 0..len] /\ done[0] = 0 /\ done[n] = len
      /\ \A i \in 1..n :
           /\ done[i] - done[i - 1] \in 0..PageSize
           /\ \A b \in 0..done[i] - done[i - 1] - 1 :
                /\ (buf + done[i - 1] + b) \div PageSize = q + i - 1
                /\ (buf + done[i - 1] + b) % PageSize = ((buf + done[i - 1]) % PageSize) + b
  <2>1. n = PageCount(buf, len) /\ done = Covered(buf, len, n)
    OBVIOUS
  <2> HIDE DEF buf, len, n, done
  <2>2. n \in Nat
    BY <1>2
  <2>3. Chunked(buf, len, n, done)
    BY <1>1, <2>1, <2>2, Chunking
  <2> QED BY <2>3, Zenon DEF q, Chunked
<1>5. byte = [k \in Nat |-> Frame(p, UserPage[p][((buf + k) \div PageSize) + 1]) * PageSize
                              + ((buf + k) % PageSize)]
  BY Zenon DEF ByteOf
<1>6. q \in Nat
  <2> HIDE DEF buf
  <2> QED BY <1>0, <1>1, Division
<1> HIDE DEF buf, len, n, pages, done, frames, q, byte
<1>7. ASSUME NEW i \in 1..n PROVE done[i] = done[i - 1] + frames[i].nbytes
  <2>1. i - 1 \in 0..n /\ i \in 0..n
    BY <1>2
  <2> DEFINE x == done[i]
             y == done[i - 1]
  <2>2. x \in Nat /\ y \in Nat /\ frames[i].nbytes = x - y
    <3>1. x \in 0..len /\ y \in 0..len
      BY <1>4, <2>1, Zenon
    <3>2. frames[i].nbytes = x - y
      BY <1>3, Zenon
    <3> HIDE DEF x, y
    <3> QED BY <1>1, <3>1, <3>2
  <2> HIDE DEF x, y
  <2>3. x = y + frames[i].nbytes
    BY <2>2
  <2> QED BY <2>3 DEF x, y
<1>8. ASSUME NEW i \in 1..n PROVE HoldsFrom(frames[i], done[i - 1], byte)
  <2> DEFINE y == done[i - 1]
             l == done[i] - y
             f == frames[i]
  <2>1. i - 1 \in 0..n
    BY <1>2
  <2>2. y \in Nat /\ l \in 0..PageSize
    BY <1>1, <1>4, <2>1
  <2>3. f.nbytes = l /\ f.offset = (buf + y) % PageSize /\ f.page = Frame(p, UserPage[p][q + i])
    BY <1>2, <1>3, Zenon
  <2>4. \A b \in 0..l - 1 : /\ (buf + y + b) \div PageSize = q + i - 1
                            /\ (buf + y + b) % PageSize = ((buf + y) % PageSize) + b
    BY <1>4, Zenon
  <2> HIDE DEF y, l, f
  <2>5. ASSUME NEW b \in 0..l - 1 PROVE byte[y + b] = f.page * PageSize + f.offset + b
    <3> DEFINE k == y + b
               g == buf + k
    <3>1. b \in Nat /\ k \in Nat /\ g = buf + y + b
      BY <1>0, <1>1, <2>2
    <3>2. byte[k] = Frame(p, UserPage[p][(g \div PageSize) + 1]) * PageSize + (g % PageSize)
      BY <1>5, <3>1, Zenon
    <3>3. g \div PageSize = q + i - 1 /\ g % PageSize = f.offset + b
      BY <2>3, <2>4, <3>1, Zenon
    <3> HIDE DEF k, g
    <3> DEFINE h == g \div PageSize
    <3>4. h + 1 = q + i
      BY <1>6, <3>3
    <3> HIDE DEF h
    <3>5. byte[k] = f.page * PageSize + (f.offset + b)
      BY <2>3, <3>2, <3>3, <3>4, Zenon DEF h
    <3>6. f.page * PageSize + (f.offset + b) = f.page * PageSize + f.offset + b
      <4> DEFINE u == f.page * PageSize
                 o == f.offset
      <4>1. f \in PageChunks
        BY <1>2, <1>3 DEF f
      <4>2. f.page \in Nat /\ o \in Nat
        BY <4>1 DEF PageChunks
      <4>3. u \in Nat
        BY <1>0, <4>2
      <4> HIDE DEF u, o
      <4>4. u + (o + b) = u + o + b
        BY <3>1, <4>2, <4>3
      <4> QED BY <4>4 DEF u, o
    <3> QED BY <3>5, <3>6, Zenon DEF k
  <2> QED BY <2>3, <2>5, Zenon DEF HoldsFrom, y, f
<1>9. segs \in Seq(Spans) /\ LaidOut(segs, len, byte)
  <2>1. done \in [0..n -> Nat]
    BY <1>1, <1>2, <1>4
  <2>2. /\ frames \in Seq(PageChunks) /\ done \in [0..Len(frames) -> Nat] /\ done[0] = 0
        /\ \A i \in 1..Len(frames) : /\ done[i] = done[i - 1] + frames[i].nbytes
                                     /\ HoldsFrom(frames[i], done[i - 1], byte)
    BY <1>3, <1>4, <1>7, <1>8, <2>1, Zenon
  <2>3. segs \in Seq(Spans) /\ LaidOut(segs, done[Len(frames)], byte)
    BY <2>2, SegsLaid
  <2> QED BY <1>3, <1>4, <2>3, Zenon
<1> HIDE DEF segs
<1>10. Lays(segs, Upto(segs), byte) /\ Total(segs) = len
  <2>1. PICK pos : Lays(segs, pos, byte) /\ pos[Len(segs)] = len
    BY <1>9, Zenon DEF LaidOut
  <2>2. Measured(segs)
    BY <1>9, DescsMeasured
  <2>3. Counts(segs, pos)
    BY <2>1, Zenon DEF Lays
  <2>4. pos = Upto(segs) /\ pos[Len(segs)] = Total(segs)
    BY <2>2, <2>3, CountsAre
  <2> QED BY <2>1, <2>4, Zenon
<1>11. descs \in Seq(DescSpans) /\ LaidOut(descs, len, byte)
  <2>1. descs \in Seq(DescSpans) /\ LaidOut(descs, Upto(segs)[Len(segs)], byte)
    BY <1>9, <1>10, DescsLaid
  <2> QED BY <1>10, <2>1, Zenon DEF Total
<1> HIDE DEF descs
<1>12. Lays(descs, Upto(descs), byte) /\ Total(descs) = len
  <2>1. PICK pos : Lays(descs, pos, byte) /\ pos[Len(descs)] = len
    BY <1>11, Zenon DEF LaidOut
  <2>2. Measured(descs)
    BY <1>11, DescsMeasured
  <2>3. Counts(descs, pos)
    BY <2>1, Zenon DEF Lays
  <2>4. pos = Upto(descs) /\ pos[Len(descs)] = Total(descs)
    BY <2>2, <2>3, CountsAre
  <2> QED BY <2>1, <2>4, Zenon
<1> QED BY <1>9, <1>10, <1>11, <1>12, Zenon DEF descs, segs, frames, len, byte, LaidExactly

-----------------------------------------------------------------------------
(* The inductive invariant                                                 *)

\* A call of the guest that has its pages, one that has the pages of the host,
\* one that has a request, one at work on the engine, one that has not begun to
\* move anything and one that has ended but for its cleaning up
Pinned == {"pinned", "delegated", "manager", "mapped", "queue", "build", "run", "crashed",
           "unmap", "leave"}
Framed == {"mapped", "queue", "build", "run", "crashed", "unmap"}
Queued == {"queue", "build", "run", "crashed"}
Busy   == {"build", "run", "crashed"}
Fresh  == {"pin", "local", "pinned", "delegated", "manager", "mapped", "queue"}
Ending == {"idle", "unmap", "leave"}
Pcs == {"idle", "pin", "local", "pinned", "delegated", "manager", "mapped", "queue", "build",
        "run", "crashed", "unmap", "leave"}
Ways == {"none", "refused", "pins lost", "too small", "unanswered", "frames lost", "done",
         "failed"}

Calls == [pc : Pcs, req : DmaRequests, chunks : Seq(PageChunks), frames : Seq(PageChunks),
          segs : Seq(Spans), sdescs : Seq(DescSpans), at : Nat, ep : Nat, offset : Nat,
          sgIdx : Nat, sgOff : Nat, xfer : Seq(RingDescs), done : Nat, ret : Int, way : Ways,
          moved : SUBSET (Nat \X Nat), mode : BOOLEAN, blind : BOOLEAN, strayed : BOOLEAN]

PathTypes ==
  /\ call \in [Procs -> Calls]
  /\ sit \in Situations /\ fixed \in BOOLEAN /\ descIdx \in 0..RingSize - 1
  /\ \A p \in Procs : RequestOK(p, call[p].req)

\* The lists of a call are those of its buffer.
ChunksInv(p, c) ==
  /\ c.chunks = IF p \in GuestProcs /\ c.pc \in Pinned THEN BufferChunks(p, c.req) ELSE <<>>
  /\ p \in GuestProcs /\ c.pc \in Pinned => Present(p, c.req)
  /\ c.pc \in {"pin", "pinned", "delegated", "manager", "leave"} => p \in GuestProcs
  /\ c.pc = "local" => p \notin GuestProcs

FramesInv(p, c) ==
  /\ c.frames = IF c.pc \in Framed THEN BufferFrames(p, c.req) ELSE <<>>
  /\ c.pc \in Framed => Present(p, c.req) /\ Known(p, c.req)

IsAperture(p, c) == p \in HostProcs /\ c.req.kind = "aperture"

QueueInv(p, c, merge) ==
  c.pc \in Queued => /\ c.segs = MapSg(c.frames, merge)
                     /\ c.sdescs = IF IsAperture(p, c) THEN <<>> ELSE InitRequest(c.segs)

\* What the engine runs lies in the ring as a chain.
Chain(x) == \E descs \in Seq(CardDescs), first \in Nat : IsLinked(x, descs, first)

RunInv(p, c) ==
  /\ c.pc # "run" => c.xfer = <<>>
  /\ c.pc = "run" => c.xfer # <<>> /\ Chain(c.xfer)

ListInv(p, c, merge) ==
  ChunksInv(p, c) /\ FramesInv(p, c) /\ QueueInv(p, c, merge) /\ RunInv(p, c)

Lists == \A p \in Procs : ListInv(p, call[p], sit.merge)

\* The locks
Locks == \A p \in Procs : /\ descLock = p <=> call[p].pc \in Busy
                          /\ escLock = p => p \in GuestProcs

\* The pages a call of the guest has had delegated
GrantInv(c, pages) ==
  c.pc \in Pinned \ {"pinned"} /\ ~c.blind =>
    \A i \in DOMAIN c.chunks : c.chunks[i].nbytes > 0 => c.chunks[i].page \in pages

\* What the undelegation under way has passed is closed, but for what was put on a
\* list since it began and what it failed to take back.
SweepInv ==
  /\ sweep.next \in Nat
  /\ sweep = [next |-> sweep.next, fresh |-> sweep.fresh, kept |-> sweep.kept]
  /\ sweep.next > 0 => \A g \in delegated : g < sweep.next => g \in sweep.fresh \cup sweep.kept

Grants ==
  /\ delegated \subseteq listed /\ delegated \subseteq 1..GuestPages
  /\ SweepInv
  /\ \A p \in Procs : GrantInv(call[p], delegated)

\* A call that nothing has disturbed is carried out in the mode it began in, and
\* the buffer suits the place on the card.
ModeInv(p, c, fix) ==
  ~c.strayed => /\ c.pc # "idle" => c.mode = fix
                /\ ~c.mode /\ c.pc \in Framed => c.req.buf % AddrAlign = c.req.ep % AddrAlign

Modes == \A p \in Procs : ModeInv(p, call[p], fixed)

\* How far such a call has come.
IsFix(p, c) == c.mode /\ ~IsAperture(p, c)

CardOf(p, c) ==
  [k \in Nat |-> IF IsFix(p, c) THEN c.req.ep
                 ELSE IF IsAperture(p, c) THEN c.req.ep + (k % c.req.aperture)
                 ELSE c.req.ep + k]

\* The aperture of an engine that does not increment addresses means nothing.
Meaningful(p, c) == ~(IsAperture(p, c) /\ c.mode)

MovedBy(p, c, n) == {<<ByteOf(p, c.req)[k], CardOf(p, c)[k]>> : k \in 0..n - 1}

FreshInv(c) ==
  c.pc \in Fresh =>
    /\ c.at = 0 /\ c.ep = c.req.ep /\ c.offset = 0 /\ c.sgIdx = 0 /\ c.sgOff = 0
    /\ c.done = 0 /\ c.moved = {}

SoFar(p, c) == IF IsAperture(p, c) THEN c.offset ELSE Upto(c.sdescs)[c.at]

BuildInv(p, c) ==
  ~c.strayed /\ c.pc \in Busy =>
    /\ c.done + Total(c.xfer) = SoFar(p, c)
    /\ Meaningful(p, c) => c.moved = MovedBy(p, c, c.done)
    /\ Carries(c.xfer, c.done, IsFix(p, c), ByteOf(p, c.req), CardOf(p, c))
    /\ IF IsAperture(p, c)
       THEN /\ c.offset <= Total(c.segs)
            /\ c.sgIdx = 0 /\ Len(c.segs) # 0 =>
                 c.sgOff = c.offset /\ c.offset <= c.segs[1].len
       ELSE /\ c.at <= Len(c.sdescs)
            /\ c.ep = IF c.mode THEN c.req.ep ELSE c.req.ep + Upto(c.sdescs)[c.at]

EndInv(p, c) ==
  ~c.strayed /\ c.pc \in Ending =>
    /\ c.done <= c.req.len
    /\ Meaningful(p, c) => /\ MovedBy(p, c, c.done) \subseteq c.moved
                           /\ c.moved \subseteq MovedBy(p, c, c.req.len)
    /\ \/ c.ret = c.done
       \/ c.done = 0 /\ c.way # "done" /\ ~(c.ret > 0)
    /\ c.way = "done" => c.done = c.req.len

Progress == \A p \in Procs : /\ FreshInv(call[p]) /\ BuildInv(p, call[p])
                             /\ EndInv(p, call[p])

-----------------------------------------------------------------------------
(* What a step changes in the record of a call                             *)

SameBuffer(c, d)  == d.req = c.req /\ d.chunks = c.chunks /\ d.frames = c.frames
SameRequest(c, d) == d.segs = c.segs /\ d.sdescs = c.sdescs
SamePlace(c, d)   == /\ d.at = c.at /\ d.ep = c.ep /\ d.offset = c.offset
                     /\ d.sgIdx = c.sgIdx /\ d.sgOff = c.sgOff
SameMoved(c, d)   == d.done = c.done /\ d.moved = c.moved
SameEnd(c, d)     == d.ret = c.ret /\ d.way = c.way
SameHistory(c, d) == d.mode = c.mode /\ d.blind = c.blind /\ d.strayed = c.strayed


SetsPc(c, d, pcN) ==
  /\ d \in Calls /\ d.pc = pcN /\ SameBuffer(c, d) /\ SameRequest(c, d) /\ SamePlace(c, d)
  /\ d.xfer = c.xfer /\ SameMoved(c, d) /\ SameEnd(c, d) /\ SameHistory(c, d)

LEMMA SetPc ==
  ASSUME NEW c \in Calls, NEW pcN \in Pcs, NEW d,
         d = [c EXCEPT !.pc = pcN]
  PROVE  SetsPc(c, d, pcN)
BY DEF SetsPc, Calls, SameBuffer, SameRequest, SamePlace, SameMoved, SameEnd, SameHistory

SetsChunks(c, d, pcN, chunksN) ==
  /\ d \in Calls /\ d.pc = pcN /\ d.chunks = chunksN /\ d.req = c.req
  /\ d.frames = c.frames /\ SameRequest(c, d) /\ SamePlace(c, d) /\ d.xfer = c.xfer
  /\ SameMoved(c, d) /\ SameEnd(c, d) /\ SameHistory(c, d)

LEMMA SetChunks ==
  ASSUME NEW c \in Calls, NEW pcN \in Pcs, NEW chunksN \in Seq(PageChunks), NEW d,
         d = [c EXCEPT !.pc = pcN, !.chunks = chunksN]
  PROVE  SetsChunks(c, d, pcN, chunksN)
BY DEF SetsChunks, Calls, SameRequest, SamePlace, SameMoved, SameEnd, SameHistory

SetsBlind(c, d, pcN, blindN) ==
  /\ d \in Calls /\ d.pc = pcN /\ d.blind = blindN /\ SameBuffer(c, d)
  /\ SameRequest(c, d) /\ SamePlace(c, d) /\ d.xfer = c.xfer /\ SameMoved(c, d)
  /\ SameEnd(c, d) /\ d.mode = c.mode /\ d.strayed = c.strayed

LEMMA SetBlind ==
  ASSUME NEW c \in Calls, NEW pcN \in Pcs, NEW blindN \in BOOLEAN, NEW d,
         d = [c EXCEPT !.pc = pcN, !.blind = blindN]
  PROVE  SetsBlind(c, d, pcN, blindN)
BY DEF SetsBlind, Calls, SameBuffer, SameRequest, SamePlace, SameMoved, SameEnd

SetsEnd(c, d, pcN, retN, wayN) ==
  /\ d \in Calls /\ d.pc = pcN /\ d.ret = retN /\ d.way = wayN /\ SameBuffer(c, d)
  /\ SameRequest(c, d) /\ SamePlace(c, d) /\ d.xfer = c.xfer /\ SameMoved(c, d)
  /\ SameHistory(c, d)

LEMMA SetEnd ==
  ASSUME NEW c \in Calls, NEW pcN \in Pcs, NEW retN \in Int, NEW wayN \in Ways, NEW d,
         d = [c EXCEPT !.pc = pcN, !.ret = retN, !.way = wayN]
  PROVE  SetsEnd(c, d, pcN, retN, wayN)
BY DEF SetsEnd, Calls, SameBuffer, SameRequest, SamePlace, SameMoved, SameHistory

SetsFrames(c, d, pcN, framesN) ==
  /\ d \in Calls /\ d.pc = pcN /\ d.frames = framesN /\ d.req = c.req
  /\ d.chunks = c.chunks /\ SameRequest(c, d) /\ SamePlace(c, d) /\ d.xfer = c.xfer
  /\ SameMoved(c, d) /\ SameEnd(c, d) /\ SameHistory(c, d)

LEMMA SetFrames ==
  ASSUME NEW c \in Calls, NEW pcN \in Pcs, NEW framesN \in Seq(PageChunks), NEW d,
         d = [c EXCEPT !.pc = pcN, !.frames = framesN]
  PROVE  SetsFrames(c, d, pcN, framesN)
BY DEF SetsFrames, Calls, SameRequest, SamePlace, SameMoved, SameEnd, SameHistory

SetsRequest(c, d, pcN, segsN, sdescsN) ==
  /\ d \in Calls /\ d.pc = pcN /\ d.segs = segsN /\ d.sdescs = sdescsN /\ SameBuffer(c, d)
  /\ SamePlace(c, d) /\ d.xfer = c.xfer /\ SameMoved(c, d) /\ SameEnd(c, d)
  /\ SameHistory(c, d)

LEMMA SetRequest ==
  ASSUME NEW c \in Calls, NEW pcN \in Pcs, NEW segsN \in Seq(Spans),
         NEW sdescsN \in Seq(DescSpans), NEW d,
         d = [c EXCEPT !.pc = pcN, !.segs = segsN, !.sdescs = sdescsN]
  PROVE  SetsRequest(c, d, pcN, segsN, sdescsN)
BY DEF SetsRequest, Calls, SameBuffer, SamePlace, SameMoved, SameEnd, SameHistory

SetsPlain(c, d, pcN, atN, epN, xferN) ==
  /\ d \in Calls /\ d.pc = pcN /\ d.at = atN /\ d.ep = epN /\ d.xfer = xferN
  /\ SameBuffer(c, d) /\ SameRequest(c, d) /\ d.offset = c.offset /\ d.sgIdx = c.sgIdx
  /\ d.sgOff = c.sgOff /\ SameMoved(c, d) /\ SameEnd(c, d) /\ SameHistory(c, d)

LEMMA SetPlain ==
  ASSUME NEW c \in Calls, NEW pcN \in Pcs, NEW atN \in Nat, NEW epN \in Nat,
         NEW xferN \in Seq(RingDescs), NEW d,
         d = [c EXCEPT !.pc = pcN, !.at = atN, !.ep = epN, !.xfer = xferN]
  PROVE  SetsPlain(c, d, pcN, atN, epN, xferN)
BY DEF SetsPlain, Calls, SameBuffer, SameRequest, SameMoved, SameEnd, SameHistory

SetsPass(c, d, pcN, xferN, offsetN, sgIdxN, sgOffN, strayedN) ==
  /\ d \in Calls /\ d.pc = pcN /\ d.xfer = xferN /\ d.offset = offsetN /\ d.sgIdx = sgIdxN
  /\ d.sgOff = sgOffN /\ d.strayed = strayedN /\ SameBuffer(c, d) /\ SameRequest(c, d)
  /\ d.at = c.at /\ d.ep = c.ep /\ SameMoved(c, d) /\ SameEnd(c, d) /\ d.mode = c.mode
  /\ d.blind = c.blind

LEMMA SetPass ==
  ASSUME NEW c \in Calls, NEW pcN \in Pcs, NEW xferN \in Seq(RingDescs),
         NEW offsetN \in Nat, NEW sgIdxN \in Nat, NEW sgOffN \in Nat,
         NEW strayedN \in BOOLEAN, NEW d,
         d = [c EXCEPT !.pc = pcN, !.xfer = xferN, !.offset = offsetN,
                       !.sgIdx = sgIdxN, !.sgOff = sgOffN, !.strayed = strayedN]
  PROVE  SetsPass(c, d, pcN, xferN, offsetN, sgIdxN, sgOffN, strayedN)
BY DEF SetsPass, Calls, SameBuffer, SameRequest, SameMoved, SameEnd

SetsMoved(c, d, pcN, xferN, doneN, movedN) ==
  /\ d \in Calls /\ d.pc = pcN /\ d.xfer = xferN /\ d.done = doneN /\ d.moved = movedN
  /\ SameBuffer(c, d) /\ SameRequest(c, d) /\ SamePlace(c, d) /\ SameEnd(c, d)
  /\ SameHistory(c, d)

LEMMA SetMoved ==
  ASSUME NEW c \in Calls, NEW pcN \in Pcs, NEW xferN \in Seq(RingDescs),
         NEW doneN \in Nat, NEW movedN \in SUBSET (Nat \X Nat), NEW d,
         d = [c EXCEPT !.pc = pcN, !.xfer = xferN, !.done = doneN, !.moved = movedN]
  PROVE  SetsMoved(c, d, pcN, xferN, doneN, movedN)
BY DEF SetsMoved, Calls, SameBuffer, SameRequest, SamePlace, SameEnd, SameHistory

SetsFailed(c, d, pcN, xferN, retN, wayN, movedN) ==
  /\ d \in Calls /\ d.pc = pcN /\ d.xfer = xferN /\ d.ret = retN /\ d.way = wayN
  /\ d.moved = movedN /\ SameBuffer(c, d) /\ SameRequest(c, d) /\ SamePlace(c, d)
  /\ d.done = c.done /\ SameHistory(c, d)

LEMMA SetFailed ==
  ASSUME NEW c \in Calls, NEW pcN \in Pcs, NEW xferN \in Seq(RingDescs), NEW retN \in Int,
         NEW wayN \in Ways, NEW movedN \in SUBSET (Nat \X Nat), NEW d,
         d = [c EXCEPT !.pc = pcN, !.xfer = xferN,
                       !.ret = retN, !.way = wayN, !.moved = movedN]
  PROVE  SetsFailed(c, d, pcN, xferN, retN, wayN, movedN)
BY DEF SetsFailed, Calls, SameBuffer, SameRequest, SamePlace, SameHistory

SetsEnded(c, d, pcN, retN, wayN, chunksN, framesN, segsN, sdescsN) ==
  /\ d \in Calls /\ d.pc = pcN /\ d.ret = retN /\ d.way = wayN /\ d.chunks = chunksN
  /\ d.frames = framesN /\ d.segs = segsN /\ d.sdescs = sdescsN /\ d.req = c.req
  /\ SamePlace(c, d) /\ d.xfer = c.xfer /\ SameMoved(c, d) /\ SameHistory(c, d)

LEMMA SetEnded ==
  ASSUME NEW c \in Calls, NEW pcN \in Pcs, NEW retN \in Int, NEW wayN \in Ways,
         NEW chunksN \in Seq(PageChunks), NEW framesN \in Seq(PageChunks),
         NEW segsN \in Seq(Spans), NEW sdescsN \in Seq(DescSpans), NEW d,
         d = [c EXCEPT !.pc = pcN, !.ret = retN, !.way = wayN,
                       !.chunks = chunksN, !.frames = framesN, !.segs = segsN, !.sdescs = sdescsN]
  PROVE  SetsEnded(c, d, pcN, retN, wayN, chunksN, framesN, segsN, sdescsN)
BY DEF SetsEnded, Calls, SamePlace, SameMoved, SameHistory

SetsStrayed(c, d, strayedN) ==
  /\ d \in Calls /\ d.strayed = strayedN /\ SameBuffer(c, d) /\ SameRequest(c, d)
  /\ SamePlace(c, d) /\ d.xfer = c.xfer /\ SameMoved(c, d) /\ SameEnd(c, d)
  /\ d.mode = c.mode /\ d.blind = c.blind /\ d.pc = c.pc

LEMMA SetStrayed ==
  ASSUME NEW c \in Calls, NEW strayedN \in BOOLEAN, NEW d,
         d = [c EXCEPT !.strayed = strayedN]
  PROVE  SetsStrayed(c, d, strayedN)
BY DEF SetsStrayed, Calls, SameBuffer, SameRequest, SamePlace, SameMoved, SameEnd

SetsSeen(c, d, blindN) ==
  /\ d \in Calls /\ d.blind = blindN /\ SameBuffer(c, d) /\ SameRequest(c, d)
  /\ SamePlace(c, d) /\ d.xfer = c.xfer /\ SameMoved(c, d) /\ SameEnd(c, d)
  /\ d.mode = c.mode /\ d.strayed = c.strayed /\ d.pc = c.pc

LEMMA SetSeen ==
  ASSUME NEW c \in Calls, NEW blindN \in BOOLEAN, NEW d, d = [c EXCEPT !.blind = blindN]
  PROVE  SetsSeen(c, d, blindN)
BY DEF SetsSeen, Calls, SameBuffer, SameRequest, SamePlace, SameMoved, SameEnd

\* Only process p takes a step.
Alone(p) == call' \in [Procs -> Calls] /\ \A q \in Procs \ {p} : call'[q] = call[q]

LEMMA StepsTo ==
  ASSUME NEW p \in Procs, call \in [Procs -> Calls], NEW d \in Calls,
         call' = [call EXCEPT ![p] = d]
  PROVE  Alone(p) /\ call'[p] = d
BY DEF Alone

LEMMA CallTyped ==
  ASSUME PathTypes, NEW p \in Procs
  PROVE  call \in [Procs -> Calls] /\ call[p] \in Calls /\ RequestOK(p, call[p].req)
BY DEF PathTypes

LEMMA PcNames ==
  /\ {"idle", "pin", "local", "pinned", "delegated", "manager", "mapped", "queue", "build",
      "run", "crashed", "unmap", "leave"} \subseteq Pcs
  /\ {"none", "refused", "pins lost", "too small", "unanswered", "frames lost", "done",
      "failed"} \subseteq Ways
BY DEF Pcs, Ways

LEMMA StepPc ==
  ASSUME PathTypes, NEW p \in Procs, NEW pcN \in Pcs,
         call' = [call EXCEPT ![p] = [call[p] EXCEPT !.pc = pcN]]
  PROVE  Alone(p) /\ SetsPc(call[p], call'[p], pcN)
<1> DEFINE c == call[p]
           d == [c EXCEPT !.pc = pcN]
<1>1. call \in [Procs -> Calls] /\ c \in Calls
  BY CallTyped
<1>2. call' = [call EXCEPT ![p] = d]
  BY Zenon
<1> HIDE DEF c
<1>3. SetsPc(c, d, pcN)
  BY <1>1, SetPc
<1> HIDE DEF d
<1>4. d \in Calls
  BY <1>3 DEF SetsPc
<1> QED BY <1>1, <1>2, <1>3, <1>4, StepsTo DEF c

LEMMA StepChunks ==
  ASSUME PathTypes, NEW p \in Procs, NEW pcN \in Pcs, NEW chunksN \in Seq(PageChunks),
         call' = [call EXCEPT ![p] = [call[p] EXCEPT !.pc = pcN, !.chunks = chunksN]]
  PROVE  Alone(p) /\ SetsChunks(call[p], call'[p], pcN, chunksN)
<1> DEFINE c == call[p]
           d == [c EXCEPT !.pc = pcN, !.chunks = chunksN]
<1>1. call \in [Procs -> Calls] /\ c \in Calls
  BY CallTyped
<1>2. call' = [call EXCEPT ![p] = d]
  BY Zenon
<1> HIDE DEF c
<1>3. SetsChunks(c, d, pcN, chunksN)
  BY <1>1, SetChunks
<1> HIDE DEF d
<1>4. d \in Calls
  BY <1>3 DEF SetsChunks
<1> QED BY <1>1, <1>2, <1>3, <1>4, StepsTo DEF c

LEMMA StepBlind ==
  ASSUME PathTypes, NEW p \in Procs, NEW pcN \in Pcs, NEW blindN \in BOOLEAN,
         call' = [call EXCEPT ![p] = [call[p] EXCEPT !.pc = pcN, !.blind = blindN]]
  PROVE  Alone(p) /\ SetsBlind(call[p], call'[p], pcN, blindN)
<1> DEFINE c == call[p]
           d == [c EXCEPT !.pc = pcN, !.blind = blindN]
<1>1. call \in [Procs -> Calls] /\ c \in Calls
  BY CallTyped
<1>2. call' = [call EXCEPT ![p] = d]
  BY Zenon
<1> HIDE DEF c
<1>3. SetsBlind(c, d, pcN, blindN)
  BY <1>1, SetBlind
<1> HIDE DEF d
<1>4. d \in Calls
  BY <1>3 DEF SetsBlind
<1> QED BY <1>1, <1>2, <1>3, <1>4, StepsTo DEF c

LEMMA StepEnd ==
  ASSUME PathTypes, NEW p \in Procs, NEW pcN \in Pcs, NEW retN \in Int, NEW wayN \in Ways,
         call' = [call EXCEPT ![p] = [call[p] EXCEPT !.pc = pcN, !.ret = retN,
                    !.way = wayN]]
  PROVE  Alone(p) /\ SetsEnd(call[p], call'[p], pcN, retN, wayN)
<1> DEFINE c == call[p]
           d == [c EXCEPT !.pc = pcN, !.ret = retN, !.way = wayN]
<1>1. call \in [Procs -> Calls] /\ c \in Calls
  BY CallTyped
<1>2. call' = [call EXCEPT ![p] = d]
  BY Zenon
<1> HIDE DEF c
<1>3. SetsEnd(c, d, pcN, retN, wayN)
  BY <1>1, SetEnd
<1> HIDE DEF d
<1>4. d \in Calls
  BY <1>3 DEF SetsEnd
<1> QED BY <1>1, <1>2, <1>3, <1>4, StepsTo DEF c

LEMMA StepFrames ==
  ASSUME PathTypes, NEW p \in Procs, NEW pcN \in Pcs, NEW framesN \in Seq(PageChunks),
         call' = [call EXCEPT ![p] = [call[p] EXCEPT !.pc = pcN, !.frames = framesN]]
  PROVE  Alone(p) /\ SetsFrames(call[p], call'[p], pcN, framesN)
<1> DEFINE c == call[p]
           d == [c EXCEPT !.pc = pcN, !.frames = framesN]
<1>1. call \in [Procs -> Calls] /\ c \in Calls
  BY CallTyped
<1>2. call' = [call EXCEPT ![p] = d]
  BY Zenon
<1> HIDE DEF c
<1>3. SetsFrames(c, d, pcN, framesN)
  BY <1>1, SetFrames
<1> HIDE DEF d
<1>4. d \in Calls
  BY <1>3 DEF SetsFrames
<1> QED BY <1>1, <1>2, <1>3, <1>4, StepsTo DEF c

LEMMA StepRequest ==
  ASSUME PathTypes, NEW p \in Procs, NEW pcN \in Pcs, NEW segsN \in Seq(Spans),
         NEW sdescsN \in Seq(DescSpans),
         call' = [call EXCEPT ![p] = [call[p] EXCEPT !.pc = pcN, !.segs = segsN,
                    !.sdescs = sdescsN]]
  PROVE  Alone(p) /\ SetsRequest(call[p], call'[p], pcN, segsN, sdescsN)
<1> DEFINE c == call[p]
           d == [c EXCEPT !.pc = pcN, !.segs = segsN, !.sdescs = sdescsN]
<1>1. call \in [Procs -> Calls] /\ c \in Calls
  BY CallTyped
<1>2. call' = [call EXCEPT ![p] = d]
  BY Zenon
<1> HIDE DEF c
<1>3. SetsRequest(c, d, pcN, segsN, sdescsN)
  BY <1>1, SetRequest
<1> HIDE DEF d
<1>4. d \in Calls
  BY <1>3 DEF SetsRequest
<1> QED BY <1>1, <1>2, <1>3, <1>4, StepsTo DEF c

LEMMA StepPlain ==
  ASSUME PathTypes, NEW p \in Procs, NEW pcN \in Pcs, NEW atN \in Nat, NEW epN \in Nat,
         NEW xferN \in Seq(RingDescs),
         call' = [call EXCEPT ![p] = [call[p] EXCEPT !.pc = pcN, !.at = atN, !.ep = epN,
                    !.xfer = xferN]]
  PROVE  Alone(p) /\ SetsPlain(call[p], call'[p], pcN, atN, epN, xferN)
<1> DEFINE c == call[p]
           d == [c EXCEPT !.pc = pcN, !.at = atN, !.ep = epN, !.xfer = xferN]
<1>1. call \in [Procs -> Calls] /\ c \in Calls
  BY CallTyped
<1>2. call' = [call EXCEPT ![p] = d]
  BY Zenon
<1> HIDE DEF c
<1>3. SetsPlain(c, d, pcN, atN, epN, xferN)
  BY <1>1, SetPlain
<1> HIDE DEF d
<1>4. d \in Calls
  BY <1>3 DEF SetsPlain
<1> QED BY <1>1, <1>2, <1>3, <1>4, StepsTo DEF c

LEMMA StepPass ==
  ASSUME PathTypes, NEW p \in Procs, NEW pcN \in Pcs, NEW xferN \in Seq(RingDescs),
         NEW offsetN \in Nat, NEW sgIdxN \in Nat, NEW sgOffN \in Nat,
         NEW strayedN \in BOOLEAN,
         call' = [call EXCEPT ![p] = [call[p] EXCEPT !.pc = pcN, !.xfer = xferN,
                    !.offset = offsetN, !.sgIdx = sgIdxN, !.sgOff = sgOffN,
                    !.strayed = strayedN]]
  PROVE  Alone(p) /\ SetsPass(call[p], call'[p], pcN, xferN, offsetN, sgIdxN, sgOffN, strayedN)
<1> DEFINE c == call[p]
           d == [c EXCEPT !.pc = pcN, !.xfer = xferN, !.offset = offsetN, !.sgIdx = sgIdxN,
                          !.sgOff = sgOffN, !.strayed = strayedN]
<1>1. call \in [Procs -> Calls] /\ c \in Calls
  BY CallTyped
<1>2. call' = [call EXCEPT ![p] = d]
  BY Zenon
<1> HIDE DEF c
<1>3. SetsPass(c, d, pcN, xferN, offsetN, sgIdxN, sgOffN, strayedN)
  BY <1>1, SetPass
<1> HIDE DEF d
<1>4. d \in Calls
  BY <1>3 DEF SetsPass
<1> QED BY <1>1, <1>2, <1>3, <1>4, StepsTo DEF c

LEMMA StepMoved ==
  ASSUME PathTypes, NEW p \in Procs, NEW pcN \in Pcs, NEW xferN \in Seq(RingDescs),
         NEW doneN \in Nat, NEW movedN \in SUBSET (Nat \X Nat),
         call' = [call EXCEPT ![p] = [call[p] EXCEPT !.pc = pcN, !.xfer = xferN,
                    !.done = doneN, !.moved = movedN]]
  PROVE  Alone(p) /\ SetsMoved(call[p], call'[p], pcN, xferN, doneN, movedN)
<1> DEFINE c == call[p]
           d == [c EXCEPT !.pc = pcN, !.xfer = xferN, !.done = doneN, !.moved = movedN]
<1>1. call \in [Procs -> Calls] /\ c \in Calls
  BY CallTyped
<1>2. call' = [call EXCEPT ![p] = d]
  BY Zenon
<1> HIDE DEF c
<1>3. SetsMoved(c, d, pcN, xferN, doneN, movedN)
  BY <1>1, SetMoved
<1> HIDE DEF d
<1>4. d \in Calls
  BY <1>3 DEF SetsMoved
<1> QED BY <1>1, <1>2, <1>3, <1>4, StepsTo DEF c

LEMMA StepFailed ==
  ASSUME PathTypes, NEW p \in Procs, NEW pcN \in Pcs, NEW xferN \in Seq(RingDescs),
         NEW retN \in Int, NEW wayN \in Ways, NEW movedN \in SUBSET (Nat \X Nat),
         call' = [call EXCEPT ![p] = [call[p] EXCEPT !.pc = pcN, !.xfer = xferN,
                    !.ret = retN, !.way = wayN, !.moved = movedN]]
  PROVE  Alone(p) /\ SetsFailed(call[p], call'[p], pcN, xferN, retN, wayN, movedN)
<1> DEFINE c == call[p]
           d == [c EXCEPT !.pc = pcN, !.xfer = xferN, !.ret = retN, !.way = wayN,
                          !.moved = movedN]
<1>1. call \in [Procs -> Calls] /\ c \in Calls
  BY CallTyped
<1>2. call' = [call EXCEPT ![p] = d]
  BY Zenon
<1> HIDE DEF c
<1>3. SetsFailed(c, d, pcN, xferN, retN, wayN, movedN)
  BY <1>1, SetFailed
<1> HIDE DEF d
<1>4. d \in Calls
  BY <1>3 DEF SetsFailed
<1> QED BY <1>1, <1>2, <1>3, <1>4, StepsTo DEF c

LEMMA StepEnded ==
  ASSUME PathTypes, NEW p \in Procs, NEW pcN \in Pcs, NEW retN \in Int, NEW wayN \in Ways,
         NEW chunksN \in Seq(PageChunks), NEW framesN \in Seq(PageChunks),
         NEW segsN \in Seq(Spans), NEW sdescsN \in Seq(DescSpans),
         call' = [call EXCEPT ![p] = [call[p] EXCEPT !.pc = pcN, !.ret = retN,
                    !.way = wayN, !.chunks = chunksN, !.frames = framesN, !.segs = segsN,
                    !.sdescs = sdescsN]]
  PROVE  Alone(p) /\ SetsEnded(call[p], call'[p], pcN, retN, wayN, chunksN, framesN, segsN, sdescsN)
<1> DEFINE c == call[p]
           d == [c EXCEPT !.pc = pcN, !.ret = retN, !.way = wayN, !.chunks = chunksN,
                          !.frames = framesN, !.segs = segsN, !.sdescs = sdescsN]
<1>1. call \in [Procs -> Calls] /\ c \in Calls
  BY CallTyped
<1>2. call' = [call EXCEPT ![p] = d]
  BY Zenon
<1> HIDE DEF c
<1>3. SetsEnded(c, d, pcN, retN, wayN, chunksN, framesN, segsN, sdescsN)
  BY <1>1, SetEnded
<1> HIDE DEF d
<1>4. d \in Calls
  BY <1>3 DEF SetsEnded
<1> QED BY <1>1, <1>2, <1>3, <1>4, StepsTo DEF c

\* A call ends.
EndsAs(c, d, retN, wayN) == SetsEnded(c, d, "idle", retN, wayN, <<>>, <<>>, <<>>, <<>>)

LEMMA NoList ==
  /\ <<>> \in Seq(PageChunks) /\ <<>> \in Seq(Spans) /\ <<>> \in Seq(DescSpans)
  /\ <<>> \in Seq(RingDescs)
OBVIOUS

LEMMA EndedStep ==
  ASSUME PathTypes, NEW p \in Procs, NEW ret \in Int, NEW way \in Ways,
         call' = [call EXCEPT ![p] = Ended(call[p], ret, way)]
  PROVE  Alone(p) /\ EndsAs(call[p], call'[p], ret, way)
<1> DEFINE none == <<>>
           pc == "idle"
<1>1. pc \in Pcs
  BY PcNames
<1>2. /\ none \in Seq(PageChunks) /\ none \in Seq(Spans) /\ none \in Seq(DescSpans)
  BY NoList
<1>3. call' = [call EXCEPT ![p] = [call[p] EXCEPT !.pc = pc, !.ret = ret, !.way = way,
                 !.chunks = none, !.frames = none, !.segs = none, !.sdescs = none]]
  BY Zenon DEF Ended
<1> SUFFICES Alone(p) /\ SetsEnded(call[p], call'[p], pc, ret, way, none, none, none, none)
  BY Zenon DEF EndsAs
<1> HIDE DEF none, pc
<1> QED BY <1>1, <1>2, <1>3, StepEnded

LEMMA EndStep ==
  ASSUME PathTypes, NEW p \in Procs, NEW ret \in Int, NEW way \in Ways, End(p, ret, way)
  PROVE  Alone(p) /\ EndsAs(call[p], call'[p], ret, way)
<1>1. call' = [call EXCEPT ![p] = Ended(call[p], ret, way)]
  BY Zenon DEF End
<1> QED BY <1>1, EndedStep

LEMMA PinRefusedStep ==
  ASSUME PathTypes, NEW p \in Procs, PinRefused(p)
  PROVE  Alone(p) /\ EndsAs(call[p], call'[p], -1, "refused")
<1>1. End(p, -1, "refused")
  BY Zenon DEF PinRefused
<1>2. "refused" \in Ways
  BY PcNames
<1>3. -1 \in Int
  OBVIOUS
<1> QED BY <1>1, <1>2, <1>3, EndStep

LEMMA PinLostStep ==
  ASSUME PathTypes, NEW p \in Procs, PinLost(p)
  PROVE  Alone(p) /\ EndsAs(call[p], call'[p], -1, "pins lost")
<1>1. End(p, -1, "pins lost")
  BY Zenon DEF PinLost
<1>2. "pins lost" \in Ways
  BY PcNames
<1>3. -1 \in Int
  OBVIOUS
<1> QED BY <1>1, <1>2, <1>3, EndStep

LEMMA TooSmallStep ==
  ASSUME PathTypes, NEW p \in Procs, TooSmall(p)
  PROVE  Alone(p) /\ EndsAs(call[p], call'[p], -1, "too small")
<1>1. End(p, -1, "too small")
  BY Zenon DEF TooSmall
<1>2. "too small" \in Ways
  BY PcNames
<1>3. -1 \in Int
  OBVIOUS
<1> QED BY <1>1, <1>2, <1>3, EndStep

LEMMA LocalRefusedStep ==
  ASSUME PathTypes, NEW p \in Procs, LocalRefused(p)
  PROVE  Alone(p) /\ EndsAs(call[p], call'[p], -1, "refused")
<1>1. End(p, -1, "refused")
  BY Zenon DEF LocalRefused
<1>2. "refused" \in Ways
  BY PcNames
<1>3. -1 \in Int
  OBVIOUS
<1> QED BY <1>1, <1>2, <1>3, EndStep

LEMMA TakeEscapeStep ==
  ASSUME PathTypes, NEW p \in Procs, TakeEscape(p)
  PROVE  Alone(p) /\ SetsPc(call[p], call'[p], "manager")
<1>1. call' = [call EXCEPT ![p] = [call[p] EXCEPT !.pc = "manager"]]
  BY CallTyped DEF TakeEscape
<1>2. "manager" \in Pcs
  BY PcNames
<1> QED BY <1>1, <1>2, StepPc

LEMMA TakeDescStep ==
  ASSUME PathTypes, NEW p \in Procs, TakeDesc(p)
  PROVE  Alone(p) /\ SetsPc(call[p], call'[p], "build")
<1>1. call' = [call EXCEPT ![p] = [call[p] EXCEPT !.pc = "build"]]
  BY CallTyped DEF TakeDesc
<1>2. "build" \in Pcs
  BY PcNames
<1> QED BY <1>1, <1>2, StepPc

LEMMA RunAwayStep ==
  ASSUME PathTypes, NEW p \in Procs, RunAway(p)
  PROVE  Alone(p) /\ SetsPc(call[p], call'[p], "crashed")
<1>1. call' = [call EXCEPT ![p] = [call[p] EXCEPT !.pc = "crashed"]]
  BY CallTyped DEF RunAway
<1>2. "crashed" \in Pcs
  BY PcNames
<1> QED BY <1>1, <1>2, StepPc

LEMMA EscapeFailsStep ==
  ASSUME PathTypes, NEW p \in Procs, EscapeFails(p)
  PROVE  Alone(p) /\ SetsEnd(call[p], call'[p], "leave", -1, "unanswered")
<1>1. call' = [call EXCEPT ![p] =
                [call[p] EXCEPT !.pc = "leave", !.ret = -1, !.way = "unanswered"]]
  BY CallTyped DEF EscapeFails
<1>2. "leave" \in Pcs /\ "unanswered" \in Ways
  BY PcNames
<1>3. -1 \in Int
  OBVIOUS
<1> QED BY <1>1, <1>2, <1>3, StepEnd

LEMMA DeniedStep ==
  ASSUME PathTypes, NEW p \in Procs, Denied(p)
  PROVE  Alone(p) /\ SetsEnd(call[p], call'[p], "leave", -1, "refused")
<1>1. call' = [call EXCEPT ![p] =
                [call[p] EXCEPT !.pc = "leave", !.ret = -1, !.way = "refused"]]
  BY CallTyped DEF Denied
<1>2. "leave" \in Pcs /\ "refused" \in Ways
  BY PcNames
<1>3. -1 \in Int
  OBVIOUS
<1> QED BY <1>1, <1>2, <1>3, StepEnd

LEMMA MapRemoteFailsStep ==
  ASSUME PathTypes, NEW p \in Procs, MapRemoteFails(p)
  PROVE  Alone(p) /\ SetsEnd(call[p], call'[p], "leave", -1, "frames lost")
<1>1. call' = [call EXCEPT ![p] =
                [call[p] EXCEPT !.pc = "leave", !.ret = -1, !.way = "frames lost"]]
  BY CallTyped DEF MapRemoteFails
<1>2. "leave" \in Pcs /\ "frames lost" \in Ways
  BY PcNames
<1>3. -1 \in Int
  OBVIOUS
<1> QED BY <1>1, <1>2, <1>3, StepEnd

LEMMA RequestFailsStep ==
  ASSUME PathTypes, NEW p \in Procs, RequestFails(p)
  PROVE  Alone(p) /\ SetsEnd(call[p], call'[p], "unmap", -1, "refused")
<1>1. call' = [call EXCEPT ![p] =
                [call[p] EXCEPT !.pc = "unmap", !.ret = -1, !.way = "refused"]]
  BY CallTyped DEF RequestFails
<1>2. "unmap" \in Pcs /\ "refused" \in Ways
  BY PcNames
<1>3. -1 \in Int
  OBVIOUS
<1> QED BY <1>1, <1>2, <1>3, StepEnd
LEMMA DelegateStep ==
  ASSUME PathTypes, NEW p \in Procs, Delegate(p)
  PROVE  /\ Alone(p)
         /\ \E ok \in BOOLEAN :
              /\ SetsBlind(call[p], call'[p], "delegated", ~ok)
              /\ delegated' = IF ok THEN delegated \cup Granted(DelegateRanges(call[p].chunks))
                                    ELSE delegated
<1>1. PICK ok \in BOOLEAN :
        /\ delegated' = IF ok THEN delegated \cup Granted(DelegateRanges(call[p].chunks))
                              ELSE delegated
        /\ call' = [call EXCEPT ![p].pc = "delegated", ![p].blind = ~ok]
  BY Zenon DEF Delegate
<1> DEFINE b == ~ok
<1>2. call' = [call EXCEPT ![p] = [call[p] EXCEPT !.pc = "delegated", !.blind = b]]
  <2> HIDE DEF b
  <2>1. call' = [call EXCEPT ![p].pc = "delegated", ![p].blind = b]
    BY <1>1, Zenon DEF b
  <2> QED BY <2>1, CallTyped
<1>3. "delegated" \in Pcs
  BY PcNames
<1>4. b \in BOOLEAN
  OBVIOUS
<1> HIDE DEF b
<1>5. Alone(p) /\ SetsBlind(call[p], call'[p], "delegated", b)
  BY <1>2, <1>3, <1>4, StepBlind
<1> QED BY <1>1, <1>5, Zenon DEF b

LEMMA LeaveStep ==
  ASSUME PathTypes, NEW p \in Procs, Leave(p)
  PROVE  Alone(p) /\ EndsAs(call[p], call'[p], call[p].ret, call[p].way)
<1>1. End(p, call[p].ret, call[p].way)
  BY Zenon DEF Leave
<1>2. call[p].ret \in Int /\ call[p].way \in Ways
  BY CallTyped DEF Calls
<1> QED BY <1>1, <1>2, EndStep

LEMMA DoneStep ==
  ASSUME PathTypes, NEW p \in Procs, Done(p)
  PROVE  Alone(p) /\ SetsEnd(call[p], call'[p], "unmap", call[p].done, "done")
<1>1. call' = [call EXCEPT ![p] =
                [call[p] EXCEPT !.pc = "unmap", !.ret = call[p].done, !.way = "done"]]
  BY CallTyped DEF Done
<1>2. "unmap" \in Pcs /\ "done" \in Ways
  BY PcNames
<1>3. call[p].done \in Int
  BY CallTyped DEF Calls
<1> QED BY <1>1, <1>2, <1>3, StepEnd

LEMMA UnmapStep ==
  ASSUME PathTypes, NEW p \in Procs, Unmap(p)
  PROVE  /\ Alone(p)
         /\ p \in GuestProcs => SetsFrames(call[p], call'[p], "leave", <<>>)
         /\ p \notin GuestProcs => EndsAs(call[p], call'[p], call[p].ret, call[p].way)
<1>1. CASE p \in GuestProcs
  <2> DEFINE none == <<>>
  <2>1. call' = [call EXCEPT ![p] = [call[p] EXCEPT !.pc = "leave", !.frames = none]]
    BY <1>1, CallTyped DEF Unmap
  <2>2. "leave" \in Pcs
    BY PcNames
  <2>3. none \in Seq(PageChunks)
    BY NoList
  <2> HIDE DEF none
  <2>4. Alone(p) /\ SetsFrames(call[p], call'[p], "leave", none)
    BY <2>1, <2>2, <2>3, StepFrames
  <2> QED BY <1>1, <2>4, Zenon DEF none
<1>2. CASE p \notin GuestProcs
  <2>1. call' = [call EXCEPT ![p] = Ended(call[p], call[p].ret, call[p].way)]
    BY <1>2, Zenon DEF Unmap
  <2>2. call[p].ret \in Int /\ call[p].way \in Ways
    BY CallTyped DEF Calls
  <2> QED BY <1>2, <2>1, <2>2, EndedStep
<1> QED BY <1>1, <1>2, Zenon

LEMMA PinPagesStep ==
  ASSUME PathTypes, NEW p \in Procs, PinPages(p)
  PROVE  /\ Alone(p) /\ Present(p, call[p].req)
         /\ SetsChunks(call[p], call'[p], "pinned", BufferChunks(p, call[p].req))
<1> DEFINE r == call[p].req
           pages == BufferPages(p, r)
           chunks == BufferChunks(p, r)
<1>1. RequestOK(p, r)
  BY CallTyped
<1>2. pages \in Seq(Nat)
  <2>1. Got(pages) = pages
    BY Zenon DEF PinPages
  <2>2. pages \in Seq(Nat \cup {Hole})
    BY <1>1, PagesTyped
  <2> HIDE DEF pages
  <2> QED BY <2>1, <2>2, GotAll
<1>3. chunks \in Seq(PageChunks)
  BY <1>1, <1>2, BufferTyped DEF Present
<1>4. call' = [call EXCEPT ![p] = [call[p] EXCEPT !.pc = "pinned", !.chunks = chunks]]
  <2>1. call' = [call EXCEPT ![p].pc = "pinned", ![p].chunks = chunks]
    BY Zenon DEF PinPages, BufferChunks
  <2> HIDE DEF chunks
  <2> QED BY <2>1, CallTyped
<1>5. "pinned" \in Pcs
  BY PcNames
<1> HIDE DEF chunks
<1>6. Alone(p) /\ SetsChunks(call[p], call'[p], "pinned", chunks)
  BY <1>3, <1>4, <1>5, StepChunks
<1> QED BY <1>2, <1>6 DEF chunks, Present

LEMMA MapLocalStep ==
  ASSUME PathTypes, NEW p \in Procs, p \notin GuestProcs, MapLocal(p)
  PROVE  /\ Alone(p) /\ Present(p, call[p].req)
         /\ SetsFrames(call[p], call'[p], "mapped", BufferFrames(p, call[p].req))
<1> DEFINE r == call[p].req
           pages == BufferPages(p, r)
           chunks == BufferChunks(p, r)
<1>1. RequestOK(p, r)
  BY CallTyped
<1>2. pages \in Seq(Nat)
  <2>1. Got(pages) = pages
    BY Zenon DEF MapLocal
  <2>2. pages \in Seq(Nat \cup {Hole})
    BY <1>1, PagesTyped
  <2> HIDE DEF pages
  <2> QED BY <2>1, <2>2, GotAll
<1>3. chunks \in Seq(PageChunks)
  BY <1>1, <1>2, BufferTyped DEF Present
<1>4. call' = [call EXCEPT ![p] = [call[p] EXCEPT !.pc = "mapped", !.frames = chunks]]
  <2>1. call' = [call EXCEPT ![p].pc = "mapped", ![p].frames = chunks]
    BY Zenon DEF MapLocal, BufferChunks
  <2> HIDE DEF chunks
  <2> QED BY <2>1, CallTyped
<1>5. "mapped" \in Pcs
  BY PcNames
<1> HIDE DEF chunks
<1>6. Alone(p) /\ SetsFrames(call[p], call'[p], "mapped", chunks)
  BY <1>3, <1>4, <1>5, StepFrames
<1> QED BY <1>2, <1>6, Zenon DEF chunks, Present, BufferFrames

LEMMA MapRemoteStep ==
  ASSUME PathTypes, Lists, NEW p \in GuestProcs, MapRemote(p)
  PROVE  /\ Alone(p) /\ Present(p, call[p].req) /\ Known(p, call[p].req)
         /\ SetsFrames(call[p], call'[p], "mapped", BufferFrames(p, call[p].req))
<1> DEFINE r == call[p].req
           pages == BufferPages(p, r)
           chunks == BufferChunks(p, r)
           frames == BufferFrames(p, r)
<1>0. p \in Procs
  BY DEF Procs
<1>1. RequestOK(p, r)
  BY <1>0, CallTyped
<1>2. call[p].chunks = chunks /\ Present(p, r)
  <2>1. ChunksInv(p, call[p])
    BY <1>0 DEF Lists, ListInv
  <2>2. call[p].pc \in Pinned
    BY DEF MapRemote, At, Pinned
  <2> QED BY <2>1, <2>2, Zenon DEF ChunksInv
<1>3. /\ chunks \in Seq(PageChunks) /\ Len(chunks) = Len(pages)
      /\ \A i \in 1..Len(pages) : chunks[i].page = pages[i]
  BY <1>0, <1>1, <1>2, BufferTyped
<1>4. Known(p, r)
  <2>1. Range(PagesOf(chunks)) \subseteq DOMAIN HostPage
    BY <1>2 DEF MapRemote, Mapped
  <2> HIDE DEF chunks, pages
  <2>2. DOMAIN chunks = 1..Len(pages)
    BY <1>3
  <2>3. ASSUME NEW i \in 1..Len(pages) PROVE pages[i] \in DOMAIN HostPage
    <3>1. PagesOf(chunks)[i] = pages[i] /\ i \in DOMAIN PagesOf(chunks)
      BY <1>3, <2>2 DEF PagesOf
    <3>2. pages[i] \in Range(PagesOf(chunks))
      BY <3>1, Zenon DEF Range
    <3> QED BY <2>1, <3>2
  <2> QED BY <2>3, Zenon DEF Known, pages
<1>5. frames \in Seq(PageChunks)
  BY <1>0, <1>1, <1>2, <1>4, FramesAre
<1>6. RemoteSgl(p) = frames
  BY <1>2, Zenon DEF RemoteSgl, BufferFrames
<1>7. call' = [call EXCEPT ![p] = [call[p] EXCEPT !.pc = "mapped", !.frames = frames]]
  <2>1. call' = [call EXCEPT ![p].pc = "mapped", ![p].frames = frames]
    BY <1>6, Zenon DEF MapRemote
  <2> HIDE DEF frames
  <2> QED BY <1>0, <2>1, CallTyped
<1>8. "mapped" \in Pcs
  BY PcNames
<1> HIDE DEF frames
<1>9. Alone(p) /\ SetsFrames(call[p], call'[p], "mapped", frames)
  BY <1>0, <1>5, <1>7, <1>8, StepFrames
<1> QED BY <1>2, <1>4, <1>9 DEF frames

LEMMA MakeRequestStep ==
  ASSUME PathTypes, Lists, NEW p \in Procs, MakeRequest(p)
  PROVE  /\ Alone(p)
         /\ LET segs == MapSg(call[p].frames, sit.merge)
            IN SetsRequest(call[p], call'[p], "queue", segs,
                           IF IsAperture(p, call[p]) THEN <<>> ELSE InitRequest(segs))
<1> DEFINE r == call[p].req
           segs == MapSg(call[p].frames, sit.merge)
           descs == IF IsAperture(p, call[p]) THEN <<>> ELSE InitRequest(segs)
<1>1. RequestOK(p, r)
  BY CallTyped
<1>2. call[p].frames = BufferFrames(p, r) /\ Present(p, r) /\ Known(p, r)
  <2>1. FramesInv(p, call[p])
    BY DEF Lists, ListInv
  <2>2. call[p].pc \in Framed
    BY DEF MakeRequest, At, Framed
  <2> QED BY <2>1, <2>2, Zenon DEF FramesInv
<1>3. segs \in Seq(Spans) /\ InitRequest(segs) \in Seq(DescSpans)
  <2>1. MapSg(BufferFrames(p, r), sit.merge) \in Seq(Spans)
        /\ InitRequest(MapSg(BufferFrames(p, r), sit.merge)) \in Seq(DescSpans)
    BY <1>1, <1>2, BufferLaid, Zenon
  <2> QED BY <1>2, <2>1, Zenon
<1>4. descs \in Seq(DescSpans)
  BY <1>3, NoList, Zenon
<1>5. call' = [call EXCEPT ![p] =
                [call[p] EXCEPT !.pc = "queue", !.segs = segs, !.sdescs = descs]]
  <2>1. call' = [call EXCEPT ![p].pc = "queue", ![p].segs = segs, ![p].sdescs = descs]
    BY Zenon DEF MakeRequest, IsAperture, Aperture
  <2> HIDE DEF segs, descs
  <2> QED BY <2>1, CallTyped
<1>6. "queue" \in Pcs
  BY PcNames
<1> HIDE DEF segs, descs
<1>7. Alone(p) /\ SetsRequest(call[p], call'[p], "queue", segs, descs)
  BY <1>3, <1>4, <1>5, <1>6, StepRequest
<1> QED BY <1>7, Zenon DEF segs, descs

\* Process p builds a transfer of n descriptors from the software descriptors sub.
BuildsFrom(p, n, sub) ==
  LET c == call[p]
      list == TransferBuild(sub, c.ep, fixed)
      x == Linked(list, descIdx)
  IN /\ n \in Nat \ {0} /\ sub \in Seq(DescSpans) /\ Part(sub, c.sdescs, c.at, n)
     /\ list \in Seq(CardDescs) /\ Len(list) = n /\ Total(list) = Total(sub)
     /\ IsLinked(x, list, descIdx)
     /\ descIdx' = (descIdx + n) % RingSize
     /\ SetsPlain(c, call'[p], "run", c.at + n, IF fixed THEN c.ep ELSE c.ep + Total(sub), x)

LEMMA BuildStep ==
  ASSUME PathTypes, NEW p \in Procs, Build(p)
  PROVE  Alone(p) /\ \E n, sub : BuildsFrom(p, n, sub)
<1> DEFINE c == call[p]
           descs == c.sdescs
           at == c.at
           ep == c.ep
           n == TransferSize(Len(descs) - at, descIdx)
           sub == SubSeq(descs, at + 1, at + n)
           list == TransferBuild(sub, ep, fixed)
           x == Linked(list, descIdx)
           newAt == at + n
           newEp == IF fixed THEN ep ELSE ep + Total(sub)
<1>0. RingSize \in Nat \ {0}
  BY ListBounds
<1>1. /\ c \in Calls /\ call \in [Procs -> Calls] /\ fixed \in BOOLEAN
      /\ descIdx \in 0..RingSize - 1
  BY CallTyped DEF PathTypes
<1>2. descs \in Seq(DescSpans) /\ at \in Nat /\ ep \in Nat
  BY <1>1 DEF Calls
<1>3. at < Len(descs)
  BY Zenon DEF Build
<1>4. call' = [call EXCEPT ![p].pc = "run", ![p].at = newAt, ![p].ep = newEp, ![p].xfer = x]
  <2>1. call' = [call EXCEPT ![p].pc = "run", ![p].at = @ + n,
                             ![p].ep = IF fixed THEN @ ELSE @ + Total(sub), ![p].xfer = x]
    BY Zenon DEF Build
  <2> QED BY <1>1, <2>1, Zenon
<1>5. descIdx' = (descIdx + n) % RingSize
  BY Zenon DEF Build
<1> HIDE DEF descs, at, ep
<1>6. Len(descs) - at \in Nat \ {0}
  BY <1>2, <1>3
<1>7. n \in 1..Len(descs) - at /\ descIdx + n <= RingSize
  <2> DEFINE left == Len(descs) - at
  <2> HIDE DEF left
  <2>1. left \in Nat \ {0}
    BY <1>6 DEF left
  <2>2. TransferSize(left, descIdx) \in 1..left /\ descIdx + TransferSize(left, descIdx) <= RingSize
    BY <1>1, <2>1, SizeInRing
  <2> QED BY <2>2 DEF left
<1> HIDE DEF n
<1>8. n \in Nat \ {0} /\ at + n \in 1..Len(descs)
  BY <1>2, <1>6, <1>7
<1>9. sub \in Seq(DescSpans) /\ Part(sub, descs, at, n)
  BY <1>2, <1>8 DEF Part
<1> HIDE DEF sub
<1>10. /\ list \in Seq(CardDescs) /\ Len(list) = n /\ Total(list) = Total(sub)
       /\ Total(sub) \in Nat
  <2>1. IsBuilt(list, sub, ep, fixed)
    BY <1>1, <1>2, <1>9, BuiltTyped
  <2>2. Len(sub) = n
    BY <1>9 DEF Part
  <2> HIDE DEF list
  <2>3. list \in Seq(CardDescs) /\ Len(list) = Len(sub) /\ \A i \in 1..Len(sub) : list[i].len = sub[i].len
    BY <2>1, Zenon DEF IsBuilt
  <2>4. Measured(sub) /\ Measured(list)
    BY <1>9, <2>3, DescsMeasured
  <2>5. Upto(list) = Upto(sub)
    BY <2>3, <2>4, SameLengths
  <2>6. Total(list) = Total(sub)
    BY <2>3, <2>5, Zenon DEF Total
  <2>7. Total(sub) \in Nat
    BY <2>4, UptoFacts
  <2> QED BY <2>2, <2>3, <2>6, <2>7
<1> HIDE DEF list
<1>11. IsLinked(x, list, descIdx)
  <2>1. descIdx \in Nat /\ descIdx + Len(list) <= RingSize
    BY <1>0, <1>1, <1>7, <1>10
  <2> QED BY <1>10, <2>1, LinkedTyped
<1> HIDE DEF x
<1>12. x \in Seq(RingDescs) /\ newAt \in Nat /\ newEp \in Nat
  <2>1. x \in Seq(RingDescs)
    BY <1>11 DEF IsLinked
  <2>2. newAt \in Nat
    BY <1>2, <1>8
  <2>3. newEp \in Nat
    BY <1>1, <1>2, <1>10
  <2> QED BY <2>1, <2>2, <2>3
<1>13. "run" \in Pcs
  BY PcNames
<1> SUFFICES Alone(p) /\ SetsPlain(c, call'[p], "run", newAt, newEp, x)
  <2>1. BuildsFrom(p, n, sub) <=>
          /\ n \in Nat \ {0} /\ sub \in Seq(DescSpans) /\ Part(sub, descs, at, n)
          /\ list \in Seq(CardDescs) /\ Len(list) = n /\ Total(list) = Total(sub)
          /\ IsLinked(x, list, descIdx)
          /\ descIdx' = (descIdx + n) % RingSize
          /\ SetsPlain(c, call'[p], "run", newAt, newEp, x)
    BY Zenon DEF BuildsFrom, descs, at, ep, list, x
  <2> HIDE DEF newAt, newEp
  <2> QED BY <1>5, <1>8, <1>9, <1>10, <1>11, <2>1, Zenon
<1> HIDE DEF newAt, newEp
<1>14. call' = [call EXCEPT ![p] =
                 [call[p] EXCEPT !.pc = "run", !.at = newAt, !.ep = newEp, !.xfer = x]]
  BY <1>1, <1>4
<1> QED BY <1>12, <1>13, <1>14, StepPlain DEF c

\* Process p builds a transfer by pass s of the aperture loop.
PassesTo(p, s, start) ==
  LET c == call[p]
      x == Linked(s.list, descIdx)
  IN /\ start \in 0..c.req.aperture - 1
     /\ s = AperturePass(c.segs, PassReq(c, start), descIdx)
     /\ s \in PassStates /\ Len(s.list) # 0 /\ IsLinked(x, s.list, descIdx)
     /\ descIdx' = (descIdx + Len(s.list)) % RingSize
     /\ SetsPass(c, call'[p], "run", x, c.offset + Total(s.list), s.i, s.off,
                 c.strayed \/ Strays(c, start))

LEMMA PassReqTyped ==
  ASSUME NEW c \in Calls, NEW start \in 0..c.req.aperture - 1
  PROVE  PassReq(c, start) \in PassReqs
<1>1. c.req \in DmaRequests /\ c.offset \in Nat /\ c.sgIdx \in Nat /\ c.sgOff \in Nat
  BY DEF Calls
<1>2. c.req.ep \in Nat /\ c.req.aperture \in Nat \ {0}
  BY <1>1 DEF DmaRequests
<1> QED BY <1>1, <1>2 DEF PassReq, PassReqs

LEMMA BuildApertureStep ==
  ASSUME PathTypes, NEW p \in Procs, BuildAperture(p)
  PROVE  Alone(p) /\ \E s, start : PassesTo(p, s, start)
<1> DEFINE c == call[p]
<1>a. /\ \E start \in Masked(c.offset, c.req.aperture) :
           LET pass == AperturePass(c.segs, PassReq(c, start), descIdx)
           IN /\ pass.list # <<>>
              /\ call' = [call EXCEPT ![p].pc = "run", ![p].xfer = Linked(pass.list, descIdx),
                             ![p].offset = @ + Total(pass.list), ![p].sgIdx = pass.i,
                             ![p].sgOff = pass.off, ![p].strayed = @ \/ Strays(c, start)]
              /\ descIdx' = (descIdx + Len(pass.list)) % RingSize
  BY Zenon DEF BuildAperture
<1>b. PICK start \in Masked(c.offset, c.req.aperture) :
           LET pass == AperturePass(c.segs, PassReq(c, start), descIdx)
           IN /\ pass.list # <<>>
              /\ call' = [call EXCEPT ![p].pc = "run", ![p].xfer = Linked(pass.list, descIdx),
                             ![p].offset = @ + Total(pass.list), ![p].sgIdx = pass.i,
                             ![p].sgOff = pass.off, ![p].strayed = @ \/ Strays(c, start)]
              /\ descIdx' = (descIdx + Len(pass.list)) % RingSize
  BY <1>a, Zenon
<1> DEFINE segs == c.segs
           r == PassReq(c, start)
           s == AperturePass(segs, r, descIdx)
           x == Linked(s.list, descIdx)
           newOffset == c.offset + Total(s.list)
           stray == c.strayed \/ Strays(c, start)
           newIdx == s.i
           newOff == s.off
<1>0. RingSize \in Nat \ {0}
  BY ListBounds
<1>1. /\ c \in Calls /\ call \in [Procs -> Calls] /\ descIdx \in 0..RingSize - 1
  BY CallTyped DEF PathTypes
<1>2. segs \in Seq(Spans) /\ c.offset \in Nat /\ c.strayed \in BOOLEAN
  BY <1>1 DEF Calls
<1>3. s.list # <<>>
  BY <1>b, Zenon
<1>4. call' = [call EXCEPT ![p].pc = "run", ![p].xfer = x, ![p].offset = newOffset,
                 ![p].sgIdx = newIdx, ![p].sgOff = newOff, ![p].strayed = stray]
  <2>1. call' = [call EXCEPT ![p].pc = "run", ![p].xfer = x, ![p].offset = @ + Total(s.list),
                   ![p].sgIdx = newIdx, ![p].sgOff = newOff, ![p].strayed = @ \/ Strays(c, start)]
    BY <1>b, Zenon
  <2> QED BY <1>1, <2>1, Zenon
<1>5. descIdx' = (descIdx + Len(s.list)) % RingSize
  BY <1>b, Zenon
<1>c. start \in 0..c.req.aperture - 1
  BY <1>b, Zenon DEF Masked
<1>6. r \in PassReqs
  <2> HIDE DEF c
  <2> QED BY <1>1, <1>c, PassReqTyped
<1> HIDE DEF segs, r
<1>7. PassOK(s, r, RingSize - descIdx)
  BY <1>1, <1>2, <1>6, PassTyped
<1> HIDE DEF s
<1>8. /\ s \in PassStates /\ s.list \in Seq(CardDescs) /\ s.i \in Nat /\ s.off \in Nat
      /\ Len(s.list) <= RingSize - descIdx
  BY <1>7 DEF PassOK, PassStates
<1>9. Len(s.list) # 0 /\ Total(s.list) \in Nat
  <2> DEFINE l == s.list
  <2>1. l \in Seq(CardDescs) /\ l # <<>>
    BY <1>3, <1>8
  <2> HIDE DEF l
  <2>2. Len(l) # 0
    BY <2>1
  <2>3. Measured(l)
    BY <2>1, DescsMeasured
  <2>4. Total(l) \in Nat
    BY <2>3, UptoFacts
  <2> QED BY <2>2, <2>4 DEF l
<1>10. IsLinked(x, s.list, descIdx)
  <2> DEFINE l == s.list
  <2> HIDE DEF l
  <2>1. l \in Seq(CardDescs) /\ Len(l) <= RingSize - descIdx
    BY <1>8 DEF l
  <2>2. Len(l) \in Nat
    BY <2>1
  <2>3. descIdx \in Nat /\ descIdx + Len(l) <= RingSize
    BY <1>0, <1>1, <2>1, <2>2
  <2>4. IsLinked(Linked(l, descIdx), l, descIdx)
    BY <2>1, <2>3, LinkedTyped
  <2> QED BY <2>4 DEF l
<1> HIDE DEF x
<1>11. x \in Seq(RingDescs)
  BY <1>10 DEF IsLinked
<1>12. newOffset \in Nat /\ stray \in BOOLEAN /\ newIdx \in Nat /\ newOff \in Nat
  BY <1>2, <1>8, <1>9 DEF Strays
<1>13. "run" \in Pcs
  BY PcNames
<1> SUFFICES Alone(p) /\ SetsPass(c, call'[p], "run", x, newOffset, newIdx, newOff, stray)
  <2>1. PassesTo(p, s, start) <=>
          /\ start \in 0..c.req.aperture - 1
          /\ s \in PassStates /\ Len(s.list) # 0 /\ IsLinked(x, s.list, descIdx)
          /\ descIdx' = (descIdx + Len(s.list)) % RingSize
          /\ SetsPass(c, call'[p], "run", x, newOffset, newIdx, newOff, stray)
    BY Zenon DEF PassesTo, segs, r, s, x
  <2> HIDE DEF newOffset, newIdx, newOff, stray
  <2> QED BY <1>c, <1>5, <1>8, <1>9, <1>10, <2>1, Zenon
<1> HIDE DEF newOffset, newIdx, newOff, stray
<1>14. call' = [call EXCEPT ![p] =
                 [call[p] EXCEPT !.pc = "run", !.xfer = x, !.offset = newOffset,
                    !.sgIdx = newIdx, !.sgOff = newOff, !.strayed = stray]]
  BY <1>1, <1>4
<1> QED BY <1>11, <1>12, <1>13, <1>14, StepPass DEF c

LEMMA RingMeasured ==
  ASSUME NEW x \in Seq(RingDescs)
  PROVE  /\ Measured(x) /\ DOMAIN x = 1..Len(x) /\ Total(x) \in Nat
         /\ \A i \in 1..Len(x) : x[i] \in RingDescs
<1>1. DescBlenMax \in Nat
  BY ListBounds
<1>2. Len(x) \in Nat /\ DOMAIN x = 1..Len(x) /\ \A i \in 1..Len(x) : x[i] \in RingDescs
  OBVIOUS
<1>3. \A i \in 1..Len(x) : x[i].len \in Nat
  BY <1>1, <1>2 DEF RingDescs
<1>4. Measured(x)
  BY <1>2, <1>3 DEF Measured
<1> QED BY <1>2, <1>4, UptoFacts

LEMMA BytesTyped ==
  ASSUME NEW x \in Seq(RingDescs)
  PROVE  Bytes(x) = Pairs(x, fixed) /\ Bytes(x) \in SUBSET (Nat \X Nat)
<1>1. Bytes(x) = Pairs(x, fixed)
  BY Zenon DEF Bytes, Pairs, OnCard
<1>2. \A i \in DOMAIN x : x[i].addr \in Nat /\ x[i].ep \in Nat
  BY RingMeasured DEF RingDescs
<1>3. ASSUME NEW i \in DOMAIN x, NEW b \in 0..x[i].len - 1
      PROVE  <<x[i].addr + b, IF fixed THEN x[i].ep ELSE x[i].ep + b>> \in Nat \X Nat
  <2> DEFINE a == x[i].addr
             e == x[i].ep
             l == x[i].len
  <2>1. a \in Nat /\ e \in Nat
    BY <1>2
  <2>2. l \in Nat
    BY RingMeasured DEF Measured
  <2> HIDE DEF a, e
  <2>3. b \in Nat
    BY <2>2
  <2>4. a + b \in Nat /\ (IF fixed THEN e ELSE e + b) \in Nat
    BY <2>1, <2>3
  <2> QED BY <2>4 DEF a, e
<1>4. ASSUME NEW y \in Bytes(x) PROVE y \in Nat \X Nat
  <2>1. PICK i \in DOMAIN x : \E b \in 0..x[i].len - 1 :
               y = <<x[i].addr + b, IF fixed THEN x[i].ep ELSE x[i].ep + b>>
    BY Zenon DEF Bytes
  <2>2. PICK b \in 0..x[i].len - 1 :
               y = <<x[i].addr + b, IF fixed THEN x[i].ep ELSE x[i].ep + b>>
    BY <2>1
  <2> QED BY <1>3, <2>2, Zenon
<1> QED BY <1>1, <1>4

LEMMA CarryOutStep ==
  ASSUME PathTypes, NEW p \in Procs, CarryOut(p)
  PROVE  Alone(p) /\ SetsMoved(call[p], call'[p], "build", <<>>,
                               call[p].done + Total(call[p].xfer),
                               call[p].moved \cup Bytes(call[p].xfer))
<1> DEFINE c == call[p]
           none == <<>>
           x == c.xfer
           newDone == c.done + Total(x)
           newMoved == c.moved \cup Bytes(x)
<1>1. /\ c \in Calls /\ call \in [Procs -> Calls]
  BY CallTyped
<1>2. x \in Seq(RingDescs) /\ c.done \in Nat /\ c.moved \in SUBSET (Nat \X Nat)
  BY <1>1 DEF Calls
<1>3. call' = [call EXCEPT ![p].pc = "build", ![p].xfer = none, ![p].done = newDone,
                           ![p].moved = newMoved]
  BY <1>1, Zenon DEF CarryOut
<1> HIDE DEF x
<1>4. newDone \in Nat
  BY <1>2, RingMeasured
<1>5. newMoved \in SUBSET (Nat \X Nat)
  BY <1>2, BytesTyped
<1>6. none \in Seq(RingDescs) /\ "build" \in Pcs
  BY NoList, PcNames
<1> SUFFICES Alone(p) /\ SetsMoved(c, call'[p], "build", none, newDone, newMoved)
  BY Zenon DEF x
<1> HIDE DEF none, newDone, newMoved
<1>7. call' = [call EXCEPT ![p] =
                [call[p] EXCEPT !.pc = "build", !.xfer = none, !.done = newDone,
                                !.moved = newMoved]]
  BY <1>1, <1>3
<1> QED BY <1>4, <1>5, <1>6, <1>7, StepMoved DEF c

LEMMA CarryFailsStep ==
  ASSUME PathTypes, NEW p \in Procs, CarryFails(p)
  PROVE  /\ Alone(p)
         /\ \E k \in 0..Len(call[p].xfer) - 1 :
              SetsFailed(call[p], call'[p], "unmap", <<>>,
                         IF call[p].done > 0 THEN call[p].done ELSE -1, "failed",
                         call[p].moved \cup Bytes(SubSeq(call[p].xfer, 1, k)))
<1> DEFINE c == call[p]
           none == <<>>
           x == c.xfer
           newRet == IF c.done > 0 THEN c.done ELSE -1
<1>1. /\ c \in Calls /\ call \in [Procs -> Calls]
  BY CallTyped
<1>2. x \in Seq(RingDescs) /\ c.done \in Nat /\ c.moved \in SUBSET (Nat \X Nat)
  BY <1>1 DEF Calls
<1>3. PICK k \in 0..Len(x) - 1 :
        call' = [call EXCEPT ![p].pc = "unmap", ![p].xfer = none, ![p].ret = newRet,
                             ![p].way = "failed", ![p].moved = @ \cup Bytes(SubSeq(x, 1, k))]
  BY Zenon DEF CarryFails
<1> DEFINE y == SubSeq(x, 1, k)
           newMoved == c.moved \cup Bytes(y)
<1>4. call' = [call EXCEPT ![p].pc = "unmap", ![p].xfer = none, ![p].ret = newRet,
                           ![p].way = "failed", ![p].moved = newMoved]
  BY <1>1, <1>3, Zenon
<1>5. newRet \in Int
  BY <1>2
<1> HIDE DEF x
<1>6. y \in Seq(RingDescs)
  <2>1. Len(x) \in Nat /\ k \in 0..Len(x)
    BY <1>2
  <2> QED BY <1>2, <2>1
<1> HIDE DEF y
<1>7. newMoved \in SUBSET (Nat \X Nat)
  BY <1>2, <1>6, BytesTyped
<1>8. none \in Seq(RingDescs) /\ "unmap" \in Pcs /\ "failed" \in Ways
  BY NoList, PcNames
<1> SUFFICES Alone(p) /\ SetsFailed(c, call'[p], "unmap", none, newRet, "failed", newMoved)
  BY Zenon DEF x, y
<1> HIDE DEF none, newRet, newMoved
<1>9. call' = [call EXCEPT ![p] =
                [call[p] EXCEPT !.pc = "unmap", !.xfer = none, !.ret = newRet,
                                !.way = "failed", !.moved = newMoved]]
  BY <1>1, <1>4
<1> QED BY <1>5, <1>7, <1>8, <1>9, StepFailed DEF c

LEMMA AddrmodeSetStep ==
  ASSUME PathTypes, AddrmodeSet
  PROVE  /\ call' \in [Procs -> Calls]
         /\ \A p \in Procs :
              SetsStrayed(call[p], call'[p], call[p].strayed \/ call[p].pc # "idle")
<1>1. call \in [Procs -> Calls]
  BY DEF PathTypes
<1> DEFINE New(p) == [call[p] EXCEPT !.strayed = call[p].strayed \/ call[p].pc # "idle"]
<1>2. call' = [p \in Procs |-> New(p)]
  BY <1>1, Zenon DEF AddrmodeSet
<1>3. ASSUME NEW p \in Procs
      PROVE  SetsStrayed(call[p], New(p), call[p].strayed \/ call[p].pc # "idle")
  <2> DEFINE c == call[p]
             stray == c.strayed \/ c.pc # "idle"
             d == [c EXCEPT !.strayed = stray]
  <2>1. c \in Calls
    BY <1>1
  <2>2. stray \in BOOLEAN
    BY <2>1 DEF Calls
  <2> SUFFICES SetsStrayed(c, d, stray)
    BY Zenon
  <2> HIDE DEF c, stray
  <2> QED BY <2>1, <2>2, SetStrayed
<1> HIDE DEF New
<1>4. \A p \in Procs : New(p) \in Calls
  BY <1>3 DEF SetsStrayed
<1> QED BY <1>2, <1>3, <1>4

\* The steps of an undelegation and what they leave alone
Sweeps == UndelegateStart \/ UndelegateSome \/ UndelegateEnd

Marked(p, gone) == call[p].blind \/ Range(PagesOf(call[p].chunks)) \cap gone # {}

LEMMA UndelegateSomeStep ==
  ASSUME PathTypes, NEW gone,
         call' = [p \in Procs |-> [call[p] EXCEPT
                    !.blind = @ \/ Range(PagesOf(call[p].chunks)) \cap gone # {}]]
  PROVE  /\ call' \in [Procs -> Calls]
         /\ \A p \in Procs : SetsSeen(call[p], call'[p], Marked(p, gone))
<1>1. call \in [Procs -> Calls]
  BY DEF PathTypes
<1> DEFINE New(p) == [call[p] EXCEPT !.blind = Marked(p, gone)]
<1>2. call' = [p \in Procs |-> New(p)]
  BY <1>1, Zenon DEF Marked
<1>3. ASSUME NEW p \in Procs PROVE SetsSeen(call[p], New(p), Marked(p, gone))
  <2> DEFINE c == call[p]
             b == Marked(p, gone)
             d == [c EXCEPT !.blind = b]
  <2>1. c \in Calls
    BY <1>1
  <2>2. b \in BOOLEAN
    BY <2>1 DEF Calls, Marked
  <2> SUFFICES SetsSeen(c, d, b)
    BY Zenon
  <2> HIDE DEF c, b
  <2> QED BY <2>1, <2>2, SetSeen
<1> HIDE DEF New
<1>4. \A p \in Procs : New(p) \in Calls
  BY <1>3 DEF SetsSeen
<1> QED BY <1>2, <1>3, <1>4

Unswept(p) ==
  LET c == call[p]
      d == call'[p]
  IN /\ SameBuffer(c, d) /\ SameRequest(c, d) /\ SamePlace(c, d) /\ d.xfer = c.xfer
     /\ SameMoved(c, d) /\ SameEnd(c, d) /\ d.mode = c.mode /\ d.strayed = c.strayed
     /\ d.pc = c.pc

LEMMA SweepStep ==
  ASSUME PathTypes, Sweeps
  PROVE  /\ call' \in [Procs -> Calls] /\ \A p \in Procs : Unswept(p)
         /\ UNCHANGED <<sit, guestPins, hostPins, escLock, descLock, descIdx, fixed, ways>>
<1>1. UNCHANGED <<sit, guestPins, hostPins, escLock, descLock, descIdx, fixed, ways>>
  BY DEF Sweeps, UndelegateStart, UndelegateSome, UndelegateEnd
<1>2. CASE call' = call
  BY <1>1, <1>2 DEF PathTypes, Unswept, SameBuffer, SameRequest, SamePlace, SameMoved, SameEnd
<1>3. CASE UndelegateSome
  <2>1. PICK gone \in Taken :
          call' = [p \in Procs |-> [call[p] EXCEPT
                     !.blind = @ \/ Range(PagesOf(call[p].chunks)) \cap gone # {}]]
    BY <1>3, Zenon DEF UndelegateSome
  <2>2. /\ call' \in [Procs -> Calls]
        /\ \A p \in Procs : SetsSeen(call[p], call'[p], Marked(p, gone))
    BY <2>1, UndelegateSomeStep
  <2>3. \A p \in Procs : Unswept(p)
    BY <2>2, Zenon DEF SetsSeen, Unswept
  <2> QED BY <1>1, <2>2, <2>3
<1> QED BY <1>2, <1>3 DEF Sweeps, UndelegateStart, UndelegateEnd

\* The record of a call that has not begun its work
Begun(d, pcN, reqN, modeN) ==
  /\ d \in Calls /\ d.pc = pcN /\ d.req = reqN
  /\ d.chunks = <<>> /\ d.frames = <<>> /\ d.segs = <<>> /\ d.sdescs = <<>> /\ d.xfer = <<>>
  /\ d.at = 0 /\ d.ep = reqN.ep /\ d.offset = 0 /\ d.sgIdx = 0 /\ d.sgOff = 0
  /\ d.done = 0 /\ d.ret = 0 /\ d.way = "none" /\ d.moved = {}
  /\ d.mode = modeN /\ d.blind = FALSE /\ d.strayed = FALSE

LEMMA NewCallBegun ==
  ASSUME NEW r \in DmaRequests, fixed \in BOOLEAN
  PROVE  Begun(NewCall(r), "idle", r, fixed)
<1> DEFINE none == <<>>
           nothing == {}
           no == "none"
           idle == "idle"
           ep == r.ep
           c == [pc |-> idle, req |-> r, chunks |-> none, frames |-> none, segs |-> none,
                 sdescs |-> none, at |-> 0, ep |-> ep, offset |-> 0, sgIdx |-> 0, sgOff |-> 0,
                 xfer |-> none, done |-> 0, ret |-> 0, way |-> no, moved |-> nothing,
                 mode |-> fixed, blind |-> FALSE, strayed |-> FALSE]
<1>1. NewCall(r) = c
  BY Zenon DEF NewCall
<1>2. /\ none \in Seq(PageChunks) /\ none \in Seq(Spans) /\ none \in Seq(DescSpans)
      /\ none \in Seq(RingDescs)
  BY NoList
<1>3. nothing \in SUBSET (Nat \X Nat)
  OBVIOUS
<1>4. ep \in Nat
  BY DEF DmaRequests
<1>5. no \in Ways /\ idle \in Pcs
  BY PcNames
<1> SUFFICES /\ c \in Calls /\ c.pc = idle /\ c.req = r
             /\ c.chunks = none /\ c.frames = none /\ c.segs = none /\ c.sdescs = none
             /\ c.xfer = none
             /\ c.at = 0 /\ c.ep = ep /\ c.offset = 0 /\ c.sgIdx = 0 /\ c.sgOff = 0
             /\ c.done = 0 /\ c.ret = 0 /\ c.way = no /\ c.moved = nothing
             /\ c.mode = fixed /\ c.blind = FALSE /\ c.strayed = FALSE
  BY <1>1, Zenon DEF Begun
<1> HIDE DEF none, nothing, no, ep, idle
<1>6. c \in Calls
  BY <1>2, <1>3, <1>4, <1>5 DEF Calls
<1> QED BY <1>6

LEMMA NewCallIs ==
  ASSUME NEW r \in DmaRequests, fixed \in BOOLEAN, NEW pcN \in Pcs
  PROVE  Begun([NewCall(r) EXCEPT !.pc = pcN], pcN, r, fixed)
<1> DEFINE c == NewCall(r)
           d == [c EXCEPT !.pc = pcN]
<1>1. Begun(c, "idle", r, fixed)
  BY NewCallBegun
<1> HIDE DEF c
<1>2. SetsPc(c, d, pcN)
  BY <1>1, SetPc DEF Begun
<1> HIDE DEF d
<1>3. Begun(d, pcN, r, fixed)
  BY <1>1, <1>2 DEF Begun, SetsPc, SameBuffer, SameRequest, SamePlace, SameMoved, SameEnd,
                    SameHistory
<1> QED BY <1>3 DEF c, d

(* The call that enters lies in the area of its process as well.           *)
LEMMA EnteredOK ==
  ASSUME NEW p \in Procs, NEW r, RequestOK(p, r)
  PROVE  RequestOK(p, Entered(p, r))
<1>1. CASE ~(p \in GuestProcs /\ r.kind = "aperture")
  BY <1>1, Zenon DEF Entered
<1>2. CASE p \in GuestProcs /\ r.kind = "aperture"
  <2> DEFINE zero == 0
             e == [r EXCEPT !.len = zero]
             buf == r.buf
             len == r.len
             P == PageSize
             n == Len(UserPage[p])
  <2>1. Entered(p, r) = e
    BY <1>2, Zenon DEF Entered
  <2>2. r \in DmaRequests /\ buf \in Nat /\ len \in Nat
    BY RequestFields
  <2>3. e \in DmaRequests /\ e.buf = buf /\ e.len = 0
    <3>1. zero \in 0..U32 - 1
      BY Wraps
    <3> HIDE DEF zero
    <3>2. e \in DmaRequests /\ e.buf = r.buf /\ e.len = zero
      BY <2>2, <3>1 DEF DmaRequests
    <3> QED BY <3>2 DEF zero
  <2>4. P \in Nat \ {0} /\ n \in Nat
    <3>1. UserPage[p] \in Seq(Nat \cup {Hole})
      BY DmaMemory
    <3> QED BY <3>1, ListBounds
  <2>5. (buf + len + P - 1) \div P <= n
    BY Zenon DEF RequestOK
  <2> HIDE DEF buf, len, P, n, e
  <2>6. (buf + 0 + P - 1) \div P <= n
    <3> DEFINE a == (buf + len + P - 1) \div P
               b == (buf + 0 + P - 1) \div P
               s == (buf + len + P - 1) % P
               t == (buf + 0 + P - 1) % P
    <3>1. /\ a \in Nat /\ s \in 0..P - 1 /\ buf + len + P - 1 = P * a + s
          /\ b \in Nat /\ t \in 0..P - 1 /\ buf + 0 + P - 1 = P * b + t
      <4>1. buf + len + P - 1 \in Nat /\ buf + 0 + P - 1 \in Nat
        BY <2>2, <2>4
      <4> QED BY <2>4, <4>1, Division
    <3>2. a <= n
      BY <2>5
    <3> HIDE DEF a, b, s, t
    <3>3. b <= a
      <4> SUFFICES ASSUME b >= a + 1 PROVE FALSE
        BY <3>1
      <4>1. P * b >= P * (a + 1)
        BY <2>4, <3>1
      <4>2. P * (a + 1) = P * a + P
        BY <2>4, <3>1
      <4> DEFINE u == P * a
                 v == P * b
      <4>3. u \in Nat /\ v \in Nat
        BY <2>4, <3>1
      <4>4. v >= u + P /\ buf + len + P - 1 = u + s /\ buf + 0 + P - 1 = v + t
        BY <3>1, <4>1, <4>2
      <4> HIDE DEF u, v
      <4> QED BY <2>2, <2>4, <3>1, <4>3, <4>4
    <3>4. b <= n
      BY <2>4, <3>1, <3>2, <3>3
    <3> QED BY <3>4 DEF b
  <2> QED BY <2>1, <2>3, <2>6 DEF RequestOK, P, n
<1> QED BY <1>1, <1>2

LEMMA CallStep ==
  ASSUME PathTypes, NEW p \in Procs, Call(p)
  PROVE  /\ Alone(p)
         /\ \E r : /\ RequestOK(p, r)
                   /\ Begun(call'[p], IF p \in GuestProcs THEN "pin" ELSE "local", r, fixed)
<1> DEFINE pcN == IF p \in GuestProcs THEN "pin" ELSE "local"
<1>1. call \in [Procs -> Calls] /\ fixed \in BOOLEAN /\ sit \in Situations
  BY DEF PathTypes
<1>2. PICK r0 \in sit.calls[p] :
        call' = [call EXCEPT ![p] = [NewCall(Entered(p, r0)) EXCEPT !.pc = pcN]]
  BY Zenon DEF Call
<1> DEFINE r == Entered(p, r0)
<1>3. RequestOK(p, r)
  <2>1. /\ sit.calls \in [Procs -> SUBSET DmaRequests]
        /\ \A q \in Procs : \A x \in sit.calls[q] :
             (x.buf + x.len + PageSize - 1) \div PageSize <= Len(UserPage[q])
    BY <1>1, DmaMemory, Zenon
  <2>2. r0 \in DmaRequests
    BY <2>1
  <2>3. RequestOK(p, r0)
    BY <2>1, <2>2, Zenon DEF RequestOK
  <2> QED BY <2>3, EnteredOK
<1>4. r \in DmaRequests
  BY <1>3 DEF RequestOK
<1>5. pcN \in Pcs
  BY PcNames
<1> DEFINE d == [NewCall(r) EXCEPT !.pc = pcN]
<1> HIDE DEF r, pcN
<1>6. Begun(d, pcN, r, fixed)
  BY <1>1, <1>4, <1>5, NewCallIs
<1>7. call' = [call EXCEPT ![p] = d]
  BY <1>2 DEF r
<1> HIDE DEF d
<1>8. d \in Calls
  BY <1>6 DEF Begun
<1>9. Alone(p) /\ call'[p] = d
  BY <1>1, <1>7, <1>8, StepsTo
<1> QED BY <1>3, <1>6, <1>9, Zenon DEF pcN

-----------------------------------------------------------------------------
(* The lists of every call are those of its buffer.                        *)

LEMMA NothingPinned ==
  ASSUME NEW p \in Procs, NEW c \in Calls, c.pc \in {"idle", "pin", "local"},
         c.pc = "pin" => p \in GuestProcs, c.pc = "local" => p \notin GuestProcs,
         c.chunks = <<>>, c.frames = <<>>, c.xfer = <<>>, NEW merge
  PROVE  ListInv(p, c, merge)
<1>1. c.pc \notin Pinned /\ c.pc \notin Framed /\ c.pc \notin Queued /\ c.pc # "run"
  BY DEF Pinned, Framed, Queued
<1>2. ChunksInv(p, c)
  BY <1>1 DEF ChunksInv
<1>3. FramesInv(p, c) /\ QueueInv(p, c, merge) /\ RunInv(p, c)
  BY <1>1 DEF FramesInv, QueueInv, RunInv
<1> QED BY <1>2, <1>3 DEF ListInv

\* The step from c to d leaves the lists as they are.
SameLists(c, d) ==
  /\ d.req = c.req /\ d.chunks = c.chunks /\ d.frames = c.frames
  /\ d.segs = c.segs /\ d.sdescs = c.sdescs

LEMMA ListsKept ==
  ASSUME NEW p \in Procs, NEW c \in Calls, NEW d \in Calls, NEW merge, ListInv(p, c, merge),
         SameLists(c, d), d.pc \in Pinned <=> c.pc \in Pinned,
         d.pc \in Framed <=> c.pc \in Framed, d.pc \in Queued => c.pc \in Queued,
         d.pc \in {"pin", "pinned", "delegated", "manager", "leave"} => p \in GuestProcs,
         d.pc = "local" => p \notin GuestProcs, RunInv(p, d)
  PROVE  ListInv(p, d, merge)
<1>1. ChunksInv(p, d)
  BY DEF ListInv, ChunksInv, SameLists
<1>2. FramesInv(p, d)
  BY DEF ListInv, FramesInv, SameLists
<1>3. QueueInv(p, d, merge)
  BY DEF ListInv, QueueInv, SameLists, IsAperture
<1> QED BY <1>1, <1>2, <1>3 DEF ListInv

LEMMA OneStep ==
  ASSUME PathTypes, Lists, NEW p \in Procs, Alone(p), sit' = sit, fixed' = fixed,
         descIdx' \in 0..RingSize - 1, RequestOK(p, call'[p].req),
         ListInv(p, call'[p], sit.merge)
  PROVE  PathTypes' /\ Lists'
<1>1. PathTypes'
  BY DEF PathTypes, Alone
<1>2. Lists'
  BY DEF Lists, Alone
<1> QED BY <1>1, <1>2

LEMMA TypesInit == PathInit => PathTypes /\ Lists
<1> SUFFICES ASSUME PathInit PROVE PathTypes /\ Lists
  OBVIOUS
<1>1. RingSize \in Nat \ {0} /\ PageSize \in Nat \ {0}
  BY ListBounds
<1>2. sit \in Situations /\ fixed \in BOOLEAN /\ descIdx \in 0..RingSize - 1
  BY <1>1, DmaMemory DEF PathInit
<1>3. NoReq \in DmaRequests /\ NoReq.buf = 0 /\ NoReq.len = 0
  <2>1. 0 \in 0..U32 - 1
    BY Wraps
  <2> HIDE DEF U32
  <2> QED BY <2>1 DEF NoReq, DmaRequests
<1>4. Begun(NewCall(NoReq), "idle", NoReq, fixed)
  BY <1>2, <1>3, NewCallBegun
<1> DEFINE c == NewCall(NoReq)
<1>5. call = [p \in Procs |-> c]
  BY DEF PathInit
<1> HIDE DEF c
<1>6. /\ c \in Calls /\ c.pc = "idle" /\ c.req = NoReq /\ c.chunks = <<>> /\ c.frames = <<>>
      /\ c.xfer = <<>>
  BY <1>4 DEF Begun, c
<1>7. ASSUME NEW p \in Procs PROVE RequestOK(p, c.req)
  <2> DEFINE n == Len(UserPage[p])
             P == PageSize
  <2>1. n \in Nat
    <3>1. UserPage[p] \in Seq(Nat \cup {Hole})
      BY DmaMemory
    <3> QED BY <3>1
  <2>2. (0 + 0 + P - 1) \div P = 0
    <3> HIDE DEF P
    <3>1. P \in Nat \ {0}
      BY <1>1 DEF P
    <3>2. 0 + 0 + P - 1 \in Nat /\ 0 + 0 + P - 1 = P * 0 + (P - 1) /\ P - 1 \in 0..P - 1
      BY <3>1
    <3> QED BY <3>1, <3>2, DivisionUnique
  <2> HIDE DEF n, P
  <2>3. (0 + 0 + P - 1) \div P <= n
    BY <2>1, <2>2
  <2> QED BY <1>3, <1>6, <2>3 DEF RequestOK, n, P
<1>8. ASSUME NEW p \in Procs PROVE ListInv(p, c, sit.merge)
  BY <1>6, NothingPinned
<1>9. call \in [Procs -> Calls] /\ \A p \in Procs : call[p] = c
  BY <1>5, <1>6
<1> QED BY <1>2, <1>7, <1>8, <1>9 DEF PathTypes, Lists

\* Steps that leave the lists alone
Onwards == {<<"pinned", "delegated">>, <<"delegated", "manager">>, <<"manager", "leave">>,
            <<"mapped", "unmap">>, <<"queue", "build">>, <<"build", "crashed">>,
            <<"build", "unmap">>}

LEMMA OnwardsPcs ==
  ASSUME NEW from, NEW to, <<from, to>> \in Onwards
  PROVE  /\ to \in Pinned <=> from \in Pinned
         /\ to \in Framed <=> from \in Framed
         /\ to \in Queued => from \in Queued
         /\ to \in {"pin", "pinned", "delegated", "manager", "leave"} =>
              from \in {"pin", "pinned", "delegated", "manager", "leave"}
         /\ to # "local" /\ from # "run" /\ to # "run"
BY DEF Onwards, Pinned, Framed, Queued

LEMMA OnwardsKept ==
  ASSUME PathTypes, Lists, NEW p \in Procs, Alone(p), sit' = sit, fixed' = fixed,
         descIdx' = descIdx, SameLists(call[p], call'[p]), call'[p].xfer = call[p].xfer,
         NEW from, NEW to, <<from, to>> \in Onwards, call[p].pc = from, call'[p].pc = to
  PROVE  PathTypes' /\ Lists'
<1> DEFINE c == call[p]
           d == call'[p]
<1>1. c \in Calls /\ d \in Calls /\ RequestOK(p, c.req) /\ ListInv(p, c, sit.merge)
  BY CallTyped DEF Alone, Lists
<1> HIDE DEF c, d
<1>2. c.pc = from /\ d.pc = to /\ SameLists(c, d) /\ d.xfer = c.xfer
  BY DEF c, d
<1>3. RunInv(p, d)
  BY <1>1, <1>2, OnwardsPcs DEF ListInv, RunInv
<1>4. d.pc \in {"pin", "pinned", "delegated", "manager", "leave"} => p \in GuestProcs
  BY <1>1, <1>2, OnwardsPcs DEF ListInv, ChunksInv
<1>5. ListInv(p, d, sit.merge)
  BY <1>1, <1>2, <1>3, <1>4, OnwardsPcs, ListsKept
<1>6. RequestOK(p, d.req)
  BY <1>1, <1>2 DEF SameLists
<1>7. descIdx' \in 0..RingSize - 1
  BY DEF PathTypes
<1> QED BY <1>5, <1>6, <1>7, OneStep DEF d

LEMMA EndKept ==
  ASSUME PathTypes, Lists, NEW p \in Procs, Alone(p), sit' = sit, fixed' = fixed,
         descIdx' = descIdx, NEW ret, NEW way, EndsAs(call[p], call'[p], ret, way),
         call[p].pc # "run"
  PROVE  PathTypes' /\ Lists'
<1> DEFINE c == call[p]
           d == call'[p]
<1>1. d \in Calls /\ RequestOK(p, c.req) /\ ListInv(p, c, sit.merge)
  BY CallTyped DEF Alone, Lists
<1>2. /\ d.pc = "idle" /\ d.req = c.req /\ d.chunks = <<>> /\ d.frames = <<>>
      /\ d.xfer = c.xfer
  BY DEF EndsAs, SetsEnded
<1>3. c.xfer = <<>>
  BY <1>1 DEF ListInv, RunInv
<1> HIDE DEF c, d
<1>4. ListInv(p, d, sit.merge)
  BY <1>1, <1>2, <1>3, NothingPinned
<1>5. RequestOK(p, d.req)
  BY <1>1, <1>2
<1>6. descIdx' \in 0..RingSize - 1
  BY DEF PathTypes
<1> QED BY <1>4, <1>5, <1>6, OneStep DEF d

\* What the other steps make of the lists
LEMMA BeginKept ==
  ASSUME PathTypes, Lists, NEW p \in Procs, Call(p)
  PROVE  PathTypes' /\ Lists'
<1> DEFINE d == call'[p]
           pcN == IF p \in GuestProcs THEN "pin" ELSE "local"
<1>1. Alone(p)
  BY CallStep
<1>2. PICK r : RequestOK(p, r) /\ Begun(d, pcN, r, fixed)
  BY CallStep
<1>3. /\ d \in Calls /\ d.pc = pcN /\ d.req = r /\ d.chunks = <<>> /\ d.frames = <<>>
      /\ d.xfer = <<>>
  BY <1>2 DEF Begun
<1> HIDE DEF d
<1>4. ListInv(p, d, sit.merge)
  BY <1>3, NothingPinned
<1>5. sit' = sit /\ fixed' = fixed /\ descIdx' \in 0..RingSize - 1
  BY DEF Call, PathTypes
<1>6. RequestOK(p, d.req)
  BY <1>2, <1>3
<1> QED BY <1>1, <1>4, <1>5, <1>6, OneStep DEF d

LEMMA PinKept ==
  ASSUME PathTypes, Lists, NEW p \in GuestProcs, PinPages(p)
  PROVE  PathTypes' /\ Lists'
<1> DEFINE c == call[p]
           d == call'[p]
<1>0. p \in Procs
  BY DEF Procs
<1>1. RequestOK(p, c.req) /\ ListInv(p, c, sit.merge) /\ c.pc = "pin"
  BY <1>0, CallTyped DEF Lists, PinPages, At
<1>2. Alone(p) /\ Present(p, c.req) /\ SetsChunks(c, d, "pinned", BufferChunks(p, c.req))
  BY <1>0, PinPagesStep
<1>3. sit' = sit /\ fixed' = fixed /\ descIdx' \in 0..RingSize - 1
  BY DEF PinPages, PathTypes
<1> HIDE DEF c, d
<1>4. /\ d \in Calls /\ d.pc = "pinned" /\ d.req = c.req /\ d.frames = c.frames
      /\ d.xfer = c.xfer /\ d.chunks = BufferChunks(p, c.req)
  BY <1>2 DEF SetsChunks
<1>5. c.frames = <<>> /\ c.xfer = <<>>
  BY <1>1 DEF ListInv, FramesInv, RunInv, Framed
<1>6. d.pc \in Pinned /\ d.pc \notin Framed /\ d.pc \notin Queued
  BY <1>4 DEF Pinned, Framed, Queued
<1>7. ChunksInv(p, d)
  BY <1>2, <1>4, <1>6 DEF ChunksInv
<1>8. FramesInv(p, d) /\ QueueInv(p, d, sit.merge) /\ RunInv(p, d)
  BY <1>4, <1>5, <1>6 DEF FramesInv, QueueInv, RunInv
<1>9. ListInv(p, d, sit.merge) /\ RequestOK(p, d.req)
  BY <1>1, <1>4, <1>7, <1>8 DEF ListInv
<1> QED BY <1>0, <1>2, <1>3, <1>9, OneStep DEF d

LEMMA MapKept ==
  ASSUME PathTypes, Lists, NEW p \in Procs, Alone(p), sit' = sit, fixed' = fixed,
         descIdx' = descIdx, call[p].pc \in {"local", "manager"},
         Present(p, call[p].req), Known(p, call[p].req),
         SetsFrames(call[p], call'[p], "mapped", BufferFrames(p, call[p].req))
  PROVE  PathTypes' /\ Lists'
<1> DEFINE c == call[p]
           d == call'[p]
<1>1. RequestOK(p, c.req) /\ ListInv(p, c, sit.merge) /\ c.pc \in {"local", "manager"}
  BY CallTyped DEF Lists
<1>2. Present(p, c.req) /\ Known(p, c.req) /\ SetsFrames(c, d, "mapped", BufferFrames(p, c.req))
  OBVIOUS
<1>3. descIdx' \in 0..RingSize - 1
  BY DEF PathTypes
<1> HIDE DEF c, d
<1>4. /\ d \in Calls /\ d.pc = "mapped" /\ d.req = c.req /\ d.chunks = c.chunks
      /\ d.xfer = c.xfer /\ d.frames = BufferFrames(p, c.req)
  BY <1>2 DEF SetsFrames
<1>5. c.xfer = <<>>
  BY <1>1 DEF ListInv, RunInv
<1>6. d.pc \in Pinned /\ d.pc \in Framed /\ d.pc \notin Queued
  BY <1>4 DEF Pinned, Framed, Queued
<1>7. ChunksInv(p, d)
  <2>1. ChunksInv(p, c)
    BY <1>1 DEF ListInv
  <2>2. p \in GuestProcs <=> c.pc \in Pinned
    BY <1>1, <2>1 DEF ChunksInv, Pinned
  <2>3. c.chunks = IF p \in GuestProcs THEN BufferChunks(p, c.req) ELSE <<>>
    BY <2>1, <2>2 DEF ChunksInv
  <2> QED BY <1>2, <1>4, <1>6, <2>3 DEF ChunksInv
<1>8. FramesInv(p, d) /\ QueueInv(p, d, sit.merge) /\ RunInv(p, d)
  BY <1>2, <1>4, <1>5, <1>6 DEF FramesInv, QueueInv, RunInv
<1>9. ListInv(p, d, sit.merge) /\ RequestOK(p, d.req)
  BY <1>1, <1>4, <1>7, <1>8 DEF ListInv
<1> QED BY <1>3, <1>9, OneStep DEF d

LEMMA RequestKept ==
  ASSUME PathTypes, Lists, NEW p \in Procs, MakeRequest(p)
  PROVE  PathTypes' /\ Lists'
<1> DEFINE c == call[p]
           d == call'[p]
           segs == MapSg(c.frames, sit.merge)
           descs == IF IsAperture(p, c) THEN <<>> ELSE InitRequest(segs)
<1>1. RequestOK(p, c.req) /\ ListInv(p, c, sit.merge) /\ c.pc = "mapped"
  BY CallTyped DEF Lists, MakeRequest, At
<1>2. Alone(p) /\ SetsRequest(c, d, "queue", segs, descs)
  BY MakeRequestStep, Zenon
<1>3. sit' = sit /\ fixed' = fixed /\ descIdx' \in 0..RingSize - 1
  BY DEF MakeRequest, PathTypes
<1>4. /\ d \in Calls /\ d.pc = "queue" /\ SameBuffer(c, d) /\ d.segs = segs
      /\ d.sdescs = descs /\ d.xfer = c.xfer
  BY <1>2, Zenon DEF SetsRequest
<1>5. d.req = c.req /\ d.chunks = c.chunks /\ d.frames = c.frames
  BY <1>4, Zenon DEF SameBuffer
<1> HIDE DEF c, d
<1>6. QueueInv(p, d, sit.merge)
  BY <1>4, <1>5, Zenon DEF QueueInv, IsAperture
<1> HIDE DEF segs, descs
<1>7. c.pc \in Pinned /\ c.pc \in Framed /\ d.pc \in Pinned /\ d.pc \in Framed
  BY <1>1, <1>4 DEF Pinned, Framed
<1>8. ChunksInv(p, d)
  BY <1>1, <1>4, <1>5, <1>7 DEF ListInv, ChunksInv
<1>9. FramesInv(p, d) /\ RunInv(p, d)
  BY <1>1, <1>4, <1>5, <1>7 DEF ListInv, FramesInv, RunInv
<1>10. ListInv(p, d, sit.merge) /\ RequestOK(p, d.req)
  BY <1>1, <1>5, <1>6, <1>8, <1>9 DEF ListInv
<1> QED BY <1>2, <1>3, <1>10, OneStep DEF d

LEMMA RunKept ==
  ASSUME PathTypes, Lists, NEW p \in Procs, Alone(p), sit' = sit, fixed' = fixed,
         call[p].pc = "build", call'[p].pc = "run", SameLists(call[p], call'[p]),
         NEW descs \in Seq(CardDescs), Len(descs) # 0, IsLinked(call'[p].xfer, descs, descIdx),
         descIdx' = (descIdx + Len(descs)) % RingSize
  PROVE  PathTypes' /\ Lists'
<1> DEFINE c == call[p]
           d == call'[p]
<1>0. RingSize \in Nat \ {0} /\ descIdx \in Nat /\ Len(descs) \in Nat
  BY ListBounds DEF PathTypes
<1>1. c \in Calls /\ d \in Calls /\ RequestOK(p, c.req) /\ ListInv(p, c, sit.merge)
  BY CallTyped DEF Alone, Lists
<1>2. /\ c.pc = "build" /\ d.pc = "run" /\ SameLists(c, d) /\ IsLinked(d.xfer, descs, descIdx)
  OBVIOUS
<1> HIDE DEF c, d
<1>3. descIdx' \in 0..RingSize - 1
  <2> DEFINE n == descIdx + Len(descs)
  <2>1. n \in Nat
    BY <1>0
  <2> HIDE DEF n
  <2>2. n % RingSize \in 0..RingSize - 1
    BY <1>0, <2>1, Division
  <2> QED BY <2>2 DEF n
<1>4. RunInv(p, d)
  <2>1. Chain(d.xfer)
    BY <1>0, <1>2, Zenon DEF Chain
  <2>2. Len(d.xfer) # 0
    BY <1>2 DEF IsLinked
  <2>3. d.xfer # <<>>
    BY <2>2
  <2> QED BY <1>2, <2>1, <2>3 DEF RunInv
<1>5. /\ d.pc \in Pinned /\ c.pc \in Pinned /\ d.pc \in Framed /\ c.pc \in Framed
      /\ d.pc \in Queued /\ c.pc \in Queued
      /\ d.pc \notin {"pin", "pinned", "delegated", "manager", "leave"} /\ d.pc # "local"
  BY <1>2 DEF Pinned, Framed, Queued
<1>6. ListInv(p, d, sit.merge)
  BY <1>1, <1>2, <1>4, <1>5, ListsKept
<1>7. RequestOK(p, d.req)
  BY <1>1, <1>2 DEF SameLists
<1> QED BY <1>3, <1>6, <1>7, OneStep DEF d

LEMMA CarryKept ==
  ASSUME PathTypes, Lists, NEW p \in Procs, Alone(p), sit' = sit, fixed' = fixed,
         descIdx' = descIdx, call[p].pc = "run", call'[p].pc \in {"build", "unmap"},
         SameLists(call[p], call'[p]), call'[p].xfer = <<>>
  PROVE  PathTypes' /\ Lists'
<1> DEFINE c == call[p]
           d == call'[p]
<1>1. c \in Calls /\ d \in Calls /\ RequestOK(p, c.req) /\ ListInv(p, c, sit.merge)
  BY CallTyped DEF Alone, Lists
<1>2. /\ c.pc = "run" /\ d.pc \in {"build", "unmap"} /\ SameLists(c, d) /\ d.xfer = <<>>
  OBVIOUS
<1>3. descIdx' \in 0..RingSize - 1
  BY DEF PathTypes
<1> HIDE DEF c, d
<1>4. RunInv(p, d)
  BY <1>2 DEF RunInv
<1>5. /\ d.pc \in Pinned /\ c.pc \in Pinned /\ d.pc \in Framed /\ c.pc \in Framed
      /\ c.pc \in Queued
      /\ d.pc \notin {"pin", "pinned", "delegated", "manager", "leave"} /\ d.pc # "local"
  BY <1>2 DEF Pinned, Framed, Queued
<1>6. ListInv(p, d, sit.merge)
  BY <1>1, <1>2, <1>4, <1>5, ListsKept
<1>7. RequestOK(p, d.req)
  BY <1>1, <1>2 DEF SameLists
<1> QED BY <1>3, <1>6, <1>7, OneStep DEF d

LEMMA UnmapKept ==
  ASSUME PathTypes, Lists, NEW p \in GuestProcs, p \in Procs, Unmap(p)
  PROVE  PathTypes' /\ Lists'
<1> DEFINE c == call[p]
           d == call'[p]
<1>1. RequestOK(p, c.req) /\ ListInv(p, c, sit.merge) /\ c.pc = "unmap"
  BY CallTyped DEF Lists, Unmap, At
<1>2. Alone(p) /\ SetsFrames(c, d, "leave", <<>>)
  BY UnmapStep
<1>3. sit' = sit /\ fixed' = fixed /\ descIdx' \in 0..RingSize - 1
  BY DEF Unmap, PathTypes
<1> HIDE DEF c, d
<1>4. /\ d \in Calls /\ d.pc = "leave" /\ d.req = c.req /\ d.chunks = c.chunks
      /\ d.frames = <<>> /\ d.xfer = c.xfer
  BY <1>2 DEF SetsFrames
<1>5. c.pc \in Pinned /\ d.pc \in Pinned /\ d.pc \notin Framed /\ d.pc \notin Queued
  BY <1>1, <1>4 DEF Pinned, Framed, Queued
<1>6. ChunksInv(p, d)
  BY <1>1, <1>4, <1>5 DEF ListInv, ChunksInv
<1>7. FramesInv(p, d) /\ QueueInv(p, d, sit.merge) /\ RunInv(p, d)
  BY <1>1, <1>4, <1>5 DEF ListInv, FramesInv, QueueInv, RunInv
<1>8. ListInv(p, d, sit.merge) /\ RequestOK(p, d.req)
  BY <1>1, <1>4, <1>6, <1>7 DEF ListInv
<1> QED BY <1>2, <1>3, <1>8, OneStep DEF d

LEMMA AddrmodeKept ==
  ASSUME PathTypes, Lists, AddrmodeSet
  PROVE  PathTypes' /\ Lists'
<1>1. /\ call' \in [Procs -> Calls]
      /\ \A p \in Procs :
           SetsStrayed(call[p], call'[p], call[p].strayed \/ call[p].pc # "idle")
  BY AddrmodeSetStep
<1>2. sit' = sit /\ fixed' \in BOOLEAN /\ descIdx' = descIdx
  BY DEF AddrmodeSet, PathTypes
<1>3. ASSUME NEW p \in Procs
      PROVE  RequestOK(p, call'[p].req) /\ ListInv(p, call'[p], sit.merge)
  <2> DEFINE c == call[p]
             d == call'[p]
  <2>1. c \in Calls /\ RequestOK(p, c.req) /\ ListInv(p, c, sit.merge)
    BY CallTyped DEF Lists
  <2>2. d \in Calls /\ SameBuffer(c, d) /\ SameRequest(c, d) /\ d.pc = c.pc /\ d.xfer = c.xfer
    <3> DEFINE s == call[p].strayed \/ call[p].pc # "idle"
    <3>1. SetsStrayed(c, d, s)
      BY <1>1
    <3> HIDE DEF s, c, d
    <3> QED BY <3>1 DEF SetsStrayed
  <2> HIDE DEF c, d
  <2>3. SameLists(c, d)
    BY <2>2 DEF SameLists, SameBuffer, SameRequest
  <2>4. RunInv(p, d)
    BY <2>1, <2>2 DEF ListInv, RunInv
  <2>5. /\ d.pc \in {"pin", "pinned", "delegated", "manager", "leave"} => p \in GuestProcs
        /\ d.pc = "local" => p \notin GuestProcs
    BY <2>1, <2>2 DEF ListInv, ChunksInv
  <2>6. ListInv(p, d, sit.merge)
    BY <2>1, <2>2, <2>3, <2>4, <2>5, ListsKept
  <2>7. RequestOK(p, d.req)
    BY <2>1, <2>3 DEF SameLists
  <2> QED BY <2>6, <2>7 DEF d
<1> QED BY <1>1, <1>2, <1>3 DEF PathTypes, Lists

LEMMA SweepKept ==
  ASSUME PathTypes, Lists, Sweeps
  PROVE  PathTypes' /\ Lists'
<1>1. /\ call' \in [Procs -> Calls] /\ \A p \in Procs : Unswept(p)
      /\ sit' = sit /\ fixed' = fixed /\ descIdx' = descIdx
  BY SweepStep
<1>2. ASSUME NEW p \in Procs
      PROVE  RequestOK(p, call'[p].req) /\ ListInv(p, call'[p], sit.merge)
  <2> DEFINE c == call[p]
             d == call'[p]
  <2>1. c \in Calls /\ RequestOK(p, c.req) /\ ListInv(p, c, sit.merge)
    BY CallTyped DEF Lists
  <2>2. d \in Calls /\ SameBuffer(c, d) /\ SameRequest(c, d) /\ d.pc = c.pc /\ d.xfer = c.xfer
    BY <1>1, Zenon DEF Unswept
  <2> HIDE DEF c, d
  <2>3. SameLists(c, d)
    BY <2>2 DEF SameLists, SameBuffer, SameRequest
  <2>4. RunInv(p, d)
    BY <2>1, <2>2 DEF ListInv, RunInv
  <2>5. /\ d.pc \in {"pin", "pinned", "delegated", "manager", "leave"} => p \in GuestProcs
        /\ d.pc = "local" => p \notin GuestProcs
    BY <2>1, <2>2 DEF ListInv, ChunksInv
  <2>6. ListInv(p, d, sit.merge)
    BY <2>1, <2>2, <2>3, <2>4, <2>5, ListsKept
  <2>7. RequestOK(p, d.req)
    BY <2>1, <2>3 DEF SameLists
  <2> QED BY <2>6, <2>7 DEF d
<1> QED BY <1>1, <1>2 DEF PathTypes, Lists

LEMMA TypesNext ==
  ASSUME PathTypes, Lists, [PathNext]_pathVars
  PROVE  PathTypes' /\ Lists'
<1>1. ASSUME NEW p \in Procs, Call(p) PROVE PathTypes' /\ Lists'
  BY <1>1, BeginKept
<1>2. ASSUME NEW p \in Procs, HostStep(p) PROVE PathTypes' /\ Lists'
  <2> USE <1>2
  <2>1. CASE RequestFails(p)
    <3>1. Alone(p) /\ SetsEnd(call[p], call'[p], "unmap", -1, "refused")
      BY <2>1, RequestFailsStep
    <3>2. call[p].pc = "mapped" /\ call'[p].pc = "unmap" /\ SameLists(call[p], call'[p])
          /\ call'[p].xfer = call[p].xfer
      BY <2>1, <3>1 DEF RequestFails, At, SetsEnd, SameLists, SameBuffer, SameRequest
    <3>3. sit' = sit /\ fixed' = fixed /\ descIdx' = descIdx
      BY <2>1 DEF RequestFails
    <3>4. <<"mapped", "unmap">> \in Onwards
      BY DEF Onwards
    <3> QED BY <3>1, <3>2, <3>3, <3>4, OnwardsKept
  <2>2. CASE MakeRequest(p)
    BY <2>2, RequestKept
  <2>3. CASE TakeDesc(p)
    <3>1. Alone(p) /\ SetsPc(call[p], call'[p], "build")
      BY <2>3, TakeDescStep
    <3>2. call[p].pc = "queue" /\ call'[p].pc = "build" /\ SameLists(call[p], call'[p])
          /\ call'[p].xfer = call[p].xfer
      BY <2>3, <3>1 DEF TakeDesc, At, SetsPc, SameLists, SameBuffer, SameRequest
    <3>3. sit' = sit /\ fixed' = fixed /\ descIdx' = descIdx
      BY <2>3 DEF TakeDesc
    <3>4. <<"queue", "build">> \in Onwards
      BY DEF Onwards
    <3> QED BY <3>1, <3>2, <3>3, <3>4, OnwardsKept
  <2>4. CASE Build(p)
    <3>1. PICK n, sub : BuildsFrom(p, n, sub)
      BY <2>4, BuildStep
    <3> DEFINE list == TransferBuild(sub, call[p].ep, fixed)
               x == Linked(list, descIdx)
               ep == IF fixed THEN call[p].ep ELSE call[p].ep + Total(sub)
    <3>2. /\ n # 0 /\ list \in Seq(CardDescs) /\ Len(list) = n /\ IsLinked(x, list, descIdx)
          /\ descIdx' = (descIdx + n) % RingSize
          /\ SetsPlain(call[p], call'[p], "run", call[p].at + n, ep, x)
      BY <3>1, Zenon DEF BuildsFrom
    <3>3. Alone(p) /\ sit' = sit /\ fixed' = fixed /\ call[p].pc = "build"
      BY <2>4, BuildStep DEF Build, At
    <3> HIDE DEF list, x, ep
    <3>4. call'[p].pc = "run" /\ SameLists(call[p], call'[p]) /\ call'[p].xfer = x
      BY <3>2 DEF SetsPlain, SameLists, SameBuffer, SameRequest
    <3> QED BY <3>2, <3>3, <3>4, RunKept
  <2>5. CASE BuildAperture(p)
    <3>1. PICK s, start : PassesTo(p, s, start)
      BY <2>5, BuildApertureStep
    <3> DEFINE list == s.list
               x == Linked(list, descIdx)
               off == call[p].offset + Total(list)
               stray == call[p].strayed \/ Strays(call[p], start)
    <3>2. /\ Len(list) # 0 /\ IsLinked(x, list, descIdx)
          /\ descIdx' = (descIdx + Len(list)) % RingSize
          /\ SetsPass(call[p], call'[p], "run", x, off, s.i, s.off, stray)
      BY <3>1, Zenon DEF PassesTo
    <3>3. Alone(p) /\ sit' = sit /\ fixed' = fixed /\ call[p].pc = "build"
      BY <2>5, BuildApertureStep DEF BuildAperture, At
    <3>4. list \in Seq(CardDescs)
      BY <3>1 DEF PassesTo, PassStates
    <3> HIDE DEF list, x, off, stray
    <3>5. call'[p].pc = "run" /\ SameLists(call[p], call'[p]) /\ call'[p].xfer = x
      BY <3>2 DEF SetsPass, SameLists, SameBuffer, SameRequest
    <3> QED BY <3>2, <3>3, <3>4, <3>5, RunKept
  <2>6. CASE RunAway(p)
    <3>1. Alone(p) /\ SetsPc(call[p], call'[p], "crashed")
      BY <2>6, RunAwayStep
    <3>2. call[p].pc = "build" /\ call'[p].pc = "crashed" /\ SameLists(call[p], call'[p])
          /\ call'[p].xfer = call[p].xfer
      BY <2>6, <3>1 DEF RunAway, At, SetsPc, SameLists, SameBuffer, SameRequest
    <3>3. sit' = sit /\ fixed' = fixed /\ descIdx' = descIdx
      BY <2>6 DEF RunAway
    <3>4. <<"build", "crashed">> \in Onwards
      BY DEF Onwards
    <3> QED BY <3>1, <3>2, <3>3, <3>4, OnwardsKept
  <2>7. CASE Done(p)
    <3>1. Alone(p) /\ SetsEnd(call[p], call'[p], "unmap", call[p].done, "done")
      BY <2>7, DoneStep
    <3>2. call[p].pc = "build" /\ call'[p].pc = "unmap" /\ SameLists(call[p], call'[p])
          /\ call'[p].xfer = call[p].xfer
      BY <2>7, <3>1 DEF Done, At, SetsEnd, SameLists, SameBuffer, SameRequest
    <3>3. sit' = sit /\ fixed' = fixed /\ descIdx' = descIdx
      BY <2>7 DEF Done
    <3>4. <<"build", "unmap">> \in Onwards
      BY DEF Onwards
    <3> QED BY <3>1, <3>2, <3>3, <3>4, OnwardsKept
  <2>8. CASE CarryOut(p)
    <3> DEFINE n == call[p].done + Total(call[p].xfer)
               bytes == call[p].moved \cup Bytes(call[p].xfer)
    <3>1. Alone(p) /\ SetsMoved(call[p], call'[p], "build", <<>>, n, bytes)
      BY <2>8, CarryOutStep
    <3> HIDE DEF n, bytes
    <3>2. call[p].pc = "run" /\ call'[p].pc = "build" /\ SameLists(call[p], call'[p])
          /\ call'[p].xfer = <<>>
      BY <2>8, <3>1 DEF CarryOut, At, SetsMoved, SameLists, SameBuffer, SameRequest
    <3>3. sit' = sit /\ fixed' = fixed /\ descIdx' = descIdx
      BY <2>8 DEF CarryOut
    <3> QED BY <3>1, <3>2, <3>3, CarryKept
  <2>9. CASE CarryFails(p)
    <3>1. Alone(p) /\ \E k \in 0..Len(call[p].xfer) - 1 :
            SetsFailed(call[p], call'[p], "unmap", <<>>,
                       IF call[p].done > 0 THEN call[p].done ELSE -1, "failed",
                       call[p].moved \cup Bytes(SubSeq(call[p].xfer, 1, k)))
      BY <2>9, CarryFailsStep
    <3>2. PICK ret, bytes : SetsFailed(call[p], call'[p], "unmap", <<>>, ret, "failed", bytes)
      BY <3>1, Zenon
    <3>3. call[p].pc = "run" /\ call'[p].pc = "unmap" /\ SameLists(call[p], call'[p])
          /\ call'[p].xfer = <<>>
      BY <2>9, <3>2 DEF CarryFails, At, SetsFailed, SameLists, SameBuffer, SameRequest
    <3>4. sit' = sit /\ fixed' = fixed /\ descIdx' = descIdx
      BY <2>9 DEF CarryFails
    <3> QED BY <3>1, <3>3, <3>4, CarryKept
  <2>10. CASE Unmap(p)
    <3>1. CASE p \in GuestProcs
      BY <2>10, <3>1, UnmapKept
    <3>2. CASE p \notin GuestProcs
      <4>1. Alone(p) /\ EndsAs(call[p], call'[p], call[p].ret, call[p].way)
        BY <2>10, <3>2, UnmapStep
      <4>2. sit' = sit /\ fixed' = fixed /\ descIdx' = descIdx /\ call[p].pc # "run"
        BY <2>10 DEF Unmap, At
      <4> QED BY <4>1, <4>2, EndKept
    <3> QED BY <3>1, <3>2
  <2> QED BY <2>1, <2>2, <2>3, <2>4, <2>5, <2>6, <2>7, <2>8, <2>9, <2>10 DEF HostStep
<1>3. ASSUME NEW p \in GuestProcs, GuestStep(p) PROVE PathTypes' /\ Lists'
  <2>0. p \in Procs
    BY DEF Procs
  <2>1. CASE PinRefused(p) \/ PinLost(p) \/ TooSmall(p) \/ Leave(p)
    <3>1. PICK ret, way : EndsAs(call[p], call'[p], ret, way)
      BY <2>0, <2>1, PinRefusedStep, PinLostStep, TooSmallStep, LeaveStep, Zenon
    <3>2. Alone(p)
      BY <2>0, <2>1, PinRefusedStep, PinLostStep, TooSmallStep, LeaveStep, Zenon
    <3>3. sit' = sit /\ fixed' = fixed /\ descIdx' = descIdx /\ call[p].pc # "run"
      BY <2>1 DEF PinRefused, PinLost, TooSmall, Leave, At
    <3> QED BY <2>0, <3>1, <3>2, <3>3, EndKept
  <2>2. CASE PinPages(p)
    BY <2>2, PinKept
  <2>3. CASE Delegate(p)
    <3>1. PICK b : SetsBlind(call[p], call'[p], "delegated", b)
      BY <2>0, <2>3, DelegateStep, Zenon
    <3>2. Alone(p) /\ sit' = sit /\ fixed' = fixed /\ descIdx' = descIdx
      BY <2>0, <2>3, DelegateStep DEF Delegate
    <3>3. call[p].pc = "pinned" /\ call'[p].pc = "delegated" /\ SameLists(call[p], call'[p])
          /\ call'[p].xfer = call[p].xfer
      BY <2>3, <3>1 DEF Delegate, At, SetsBlind, SameLists, SameBuffer, SameRequest
    <3>4. <<"pinned", "delegated">> \in Onwards
      BY DEF Onwards
    <3> QED BY <2>0, <3>2, <3>3, <3>4, OnwardsKept
  <2>4. CASE TakeEscape(p)
    <3>1. Alone(p) /\ SetsPc(call[p], call'[p], "manager")
      BY <2>0, <2>4, TakeEscapeStep
    <3>2. call[p].pc = "delegated" /\ call'[p].pc = "manager" /\ SameLists(call[p], call'[p])
          /\ call'[p].xfer = call[p].xfer
      BY <2>4, <3>1 DEF TakeEscape, At, SetsPc, SameLists, SameBuffer, SameRequest
    <3>3. sit' = sit /\ fixed' = fixed /\ descIdx' = descIdx
      BY <2>4 DEF TakeEscape
    <3>4. <<"delegated", "manager">> \in Onwards
      BY DEF Onwards
    <3> QED BY <2>0, <3>1, <3>2, <3>3, <3>4, OnwardsKept
  <2>5. CASE EscapeFails(p) \/ Denied(p) \/ MapRemoteFails(p)
    <3>1. PICK way : SetsEnd(call[p], call'[p], "leave", -1, way)
      BY <2>0, <2>5, EscapeFailsStep, DeniedStep, MapRemoteFailsStep, Zenon
    <3>2. Alone(p)
      BY <2>0, <2>5, EscapeFailsStep, DeniedStep, MapRemoteFailsStep, Zenon
    <3>3. call[p].pc = "manager" /\ sit' = sit /\ fixed' = fixed /\ descIdx' = descIdx
      BY <2>5 DEF EscapeFails, Denied, MapRemoteFails, At
    <3>4. call'[p].pc = "leave" /\ SameLists(call[p], call'[p])
          /\ call'[p].xfer = call[p].xfer
      BY <3>1 DEF SetsEnd, SameLists, SameBuffer, SameRequest
    <3>5. <<"manager", "leave">> \in Onwards
      BY DEF Onwards
    <3> QED BY <2>0, <3>2, <3>3, <3>4, <3>5, OnwardsKept
  <2>6. CASE MapRemote(p)
    <3>1. /\ Alone(p) /\ Present(p, call[p].req) /\ Known(p, call[p].req)
          /\ SetsFrames(call[p], call'[p], "mapped", BufferFrames(p, call[p].req))
      BY <2>6, MapRemoteStep
    <3>2. sit' = sit /\ fixed' = fixed /\ descIdx' = descIdx /\ call[p].pc = "manager"
      BY <2>6 DEF MapRemote, At
    <3> QED BY <2>0, <3>1, <3>2, MapKept
  <2> QED BY <1>3, <2>1, <2>2, <2>3, <2>4, <2>5, <2>6 DEF GuestStep
<1>4. ASSUME NEW p \in HostProcs, LocalRefused(p) \/ MapLocal(p) PROVE PathTypes' /\ Lists'
  <2>0. p \in Procs /\ p \notin GuestProcs
    BY DmaConstants DEF Procs
  <2>1. CASE LocalRefused(p)
    <3>1. Alone(p) /\ EndsAs(call[p], call'[p], -1, "refused")
      BY <2>0, <2>1, LocalRefusedStep
    <3>2. sit' = sit /\ fixed' = fixed /\ descIdx' = descIdx /\ call[p].pc # "run"
      BY <2>1 DEF LocalRefused, At
    <3> QED BY <2>0, <3>1, <3>2, EndKept
  <2>2. CASE MapLocal(p)
    <3>1. /\ Alone(p) /\ Present(p, call[p].req)
          /\ SetsFrames(call[p], call'[p], "mapped", BufferFrames(p, call[p].req))
      BY <2>0, <2>2, MapLocalStep
    <3>2. Known(p, call[p].req)
      BY <2>0 DEF Known
    <3>3. sit' = sit /\ fixed' = fixed /\ descIdx' = descIdx /\ call[p].pc = "local"
      BY <2>2 DEF MapLocal, At
    <3> QED BY <2>0, <3>1, <3>2, <3>3, MapKept
  <2> QED BY <1>4, <2>1, <2>2
<1>5. ASSUME AddrmodeSet PROVE PathTypes' /\ Lists'
  BY <1>5, AddrmodeKept
<1>6. ASSUME Sweeps PROVE PathTypes' /\ Lists'
  BY <1>6, SweepKept
<1>7. ASSUME UNCHANGED pathVars PROVE PathTypes' /\ Lists'
  BY <1>7 DEF pathVars, PathTypes, Lists
<1> QED BY <1>1, <1>2, <1>3, <1>4, <1>5, <1>6, <1>7 DEF PathNext, Sweeps

LEMMA PathTyped == PathSpec => [](PathTypes /\ Lists)
<1>1. PathInit => PathTypes /\ Lists
  BY TypesInit
<1>2. PathTypes /\ Lists /\ [PathNext]_pathVars => PathTypes' /\ Lists'
  BY TypesNext
<1> QED BY <1>1, <1>2, PTL DEF PathSpec

-----------------------------------------------------------------------------
(* The locks                                                               *)

LEMMA LocksKept ==
  ASSUME Locks, NEW p \in Procs, Alone(p), descLock' = descLock,
         escLock' \in {escLock, NoProc} \/ (p \in GuestProcs /\ escLock' = p),
         call'[p].pc \in Busy <=> call[p].pc \in Busy
  PROVE  Locks'
<1>1. NoProc \notin Procs
  BY DmaConstants
<1>2. \A q \in Procs : descLock' = q <=> call'[q].pc \in Busy
  BY DEF Locks, Alone
<1>3. \A q \in Procs : escLock' = q => q \in GuestProcs
  BY <1>1 DEF Locks
<1> QED BY <1>2, <1>3 DEF Locks

LEMMA LocksMove ==
  ASSUME Locks, NEW p \in Procs, Alone(p), escLock' = escLock,
         \/ descLock = NoProc /\ descLock' = p /\ call'[p].pc \in Busy
         \/ call[p].pc \in Busy /\ descLock' = NoProc /\ call'[p].pc \notin Busy
  PROVE  Locks'
<1>1. NoProc \notin Procs
  BY DmaConstants
<1>2. \A q \in Procs : descLock' = q <=> call'[q].pc \in Busy
  BY <1>1 DEF Locks, Alone
<1>3. \A q \in Procs : escLock' = q => q \in GuestProcs
  BY DEF Locks
<1> QED BY <1>2, <1>3 DEF Locks

LEMMA LocksInit == PathInit => Locks
<1> SUFFICES ASSUME PathInit PROVE Locks
  OBVIOUS
<1>1. NoProc \notin Procs
  BY DmaConstants
<1>2. \A p \in Procs : call[p].pc = "idle"
  BY DEF PathInit, NewCall
<1> QED BY <1>1, <1>2 DEF PathInit, Locks, Busy

LEMMA LocksNext ==
  ASSUME PathTypes, Lists, Locks, [PathNext]_pathVars
  PROVE  Locks'
<1>1. ASSUME NEW p \in Procs, Call(p) PROVE Locks'
  <2>1. PICK r : Begun(call'[p], IF p \in GuestProcs THEN "pin" ELSE "local", r, fixed)
    BY <1>1, CallStep, Zenon
  <2>2. call'[p].pc \in {"pin", "local"}
    BY <2>1 DEF Begun
  <2>3. Alone(p)
    BY <1>1, CallStep
  <2> QED BY <1>1, <2>2, <2>3, LocksKept DEF Call, At, Busy
<1>2. ASSUME NEW p \in Procs, HostStep(p) PROVE Locks'
  <2>1. CASE RequestFails(p)
    BY <2>1, RequestFailsStep, LocksKept DEF RequestFails, At, SetsEnd, Busy
  <2>2. CASE MakeRequest(p)
    <3>1. PICK s, d : SetsRequest(call[p], call'[p], "queue", s, d)
      BY <2>2, MakeRequestStep, Zenon
    <3>2. Alone(p)
      BY <2>2, MakeRequestStep
    <3> QED BY <2>2, <3>1, <3>2, LocksKept DEF MakeRequest, At, SetsRequest, Busy
  <2>3. CASE TakeDesc(p)
    BY <2>3, TakeDescStep, LocksMove DEF TakeDesc, At, SetsPc, Busy
  <2>4. CASE Build(p)
    <3>1. PICK n, sub : BuildsFrom(p, n, sub)
      BY <2>4, BuildStep
    <3>2. call'[p].pc = "run"
      BY <3>1, Zenon DEF BuildsFrom, SetsPlain
    <3>3. Alone(p)
      BY <2>4, BuildStep
    <3> QED BY <2>4, <3>2, <3>3, LocksKept DEF Build, At, Busy
  <2>5. CASE BuildAperture(p)
    <3>1. PICK s, start : PassesTo(p, s, start)
      BY <2>5, BuildApertureStep
    <3>2. call'[p].pc = "run"
      BY <3>1, Zenon DEF PassesTo, SetsPass
    <3>3. Alone(p)
      BY <2>5, BuildApertureStep
    <3> QED BY <2>5, <3>2, <3>3, LocksKept DEF BuildAperture, At, Busy
  <2>6. CASE RunAway(p)
    BY <2>6, RunAwayStep, LocksKept DEF RunAway, At, SetsPc, Busy
  <2>7. CASE Done(p)
    BY <2>7, DoneStep, LocksMove DEF Done, At, SetsEnd, Busy
  <2>8. CASE CarryOut(p)
    <3>1. call'[p].pc = "build"
      BY <2>8, CarryOutStep, Zenon DEF SetsMoved
    <3>2. Alone(p)
      BY <2>8, CarryOutStep
    <3> QED BY <2>8, <3>1, <3>2, LocksKept DEF CarryOut, At, Busy
  <2>9. CASE CarryFails(p)
    <3>1. call'[p].pc = "unmap"
      BY <2>9, CarryFailsStep, Zenon DEF SetsFailed
    <3>2. Alone(p)
      BY <2>9, CarryFailsStep
    <3> QED BY <2>9, <3>1, <3>2, LocksMove DEF CarryFails, At, Busy
  <2>10. CASE Unmap(p)
    <3>1. call'[p].pc \in {"leave", "idle"}
      BY <2>10, UnmapStep DEF SetsFrames, EndsAs, SetsEnded
    <3>2. Alone(p)
      BY <2>10, UnmapStep
    <3> QED BY <2>10, <3>1, <3>2, LocksKept DEF Unmap, At, Busy
  <2> QED BY <1>2, <2>1, <2>2, <2>3, <2>4, <2>5, <2>6, <2>7, <2>8, <2>9, <2>10 DEF HostStep
<1>3. ASSUME NEW p \in GuestProcs, GuestStep(p) PROVE Locks'
  <2>0. p \in Procs
    BY DEF Procs
  <2>1. CASE PinRefused(p) \/ PinLost(p) \/ TooSmall(p) \/ Leave(p)
    <3>1. PICK ret, way : EndsAs(call[p], call'[p], ret, way)
      BY <2>0, <2>1, PinRefusedStep, PinLostStep, TooSmallStep, LeaveStep, Zenon
    <3>2. Alone(p)
      BY <2>0, <2>1, PinRefusedStep, PinLostStep, TooSmallStep, LeaveStep, Zenon
    <3>3. call'[p].pc = "idle"
      BY <3>1 DEF EndsAs, SetsEnded
    <3>4. descLock' = descLock /\ escLock' \in {escLock, NoProc}
      BY <2>1 DEF PinRefused, PinLost, TooSmall, Leave
    <3>5. call[p].pc \in {"pin", "delegated", "leave"}
      BY <2>1 DEF PinRefused, PinLost, TooSmall, Leave, At
    <3> QED BY <2>0, <3>2, <3>3, <3>4, <3>5, LocksKept DEF Busy
  <2>2. CASE PinPages(p)
    BY <2>0, <2>2, PinPagesStep, LocksKept DEF PinPages, At, SetsChunks, Busy
  <2>3. CASE Delegate(p)
    <3>1. PICK b : SetsBlind(call[p], call'[p], "delegated", b)
      BY <2>0, <2>3, DelegateStep, Zenon
    <3>2. Alone(p)
      BY <2>0, <2>3, DelegateStep
    <3> QED BY <2>0, <2>3, <3>1, <3>2, LocksKept DEF Delegate, At, SetsBlind, Busy
  <2>4. CASE TakeEscape(p)
    BY <2>0, <2>4, TakeEscapeStep, LocksKept DEF TakeEscape, At, SetsPc, Busy
  <2>5. CASE EscapeFails(p) \/ Denied(p) \/ MapRemoteFails(p)
    <3>1. PICK way : SetsEnd(call[p], call'[p], "leave", -1, way)
      BY <2>0, <2>5, EscapeFailsStep, DeniedStep, MapRemoteFailsStep, Zenon
    <3>2. Alone(p)
      BY <2>0, <2>5, EscapeFailsStep, DeniedStep, MapRemoteFailsStep, Zenon
    <3>3. call[p].pc = "manager" /\ descLock' = descLock /\ escLock' = escLock
      BY <2>5 DEF EscapeFails, Denied, MapRemoteFails, At
    <3>4. call'[p].pc = "leave"
      BY <3>1 DEF SetsEnd
    <3> QED BY <2>0, <3>2, <3>3, <3>4, LocksKept DEF Busy
  <2>6. CASE MapRemote(p)
    BY <2>0, <2>6, MapRemoteStep, LocksKept DEF MapRemote, At, SetsFrames, Busy
  <2> QED BY <1>3, <2>1, <2>2, <2>3, <2>4, <2>5, <2>6 DEF GuestStep
<1>4. ASSUME NEW p \in HostProcs, LocalRefused(p) \/ MapLocal(p) PROVE Locks'
  <2>0. p \in Procs /\ p \notin GuestProcs
    BY DmaConstants DEF Procs
  <2>1. CASE LocalRefused(p)
    BY <2>0, <2>1, LocalRefusedStep, LocksKept DEF LocalRefused, At, EndsAs, SetsEnded, Busy
  <2>2. CASE MapLocal(p)
    BY <2>0, <2>2, MapLocalStep, LocksKept DEF MapLocal, At, SetsFrames, Busy
  <2> QED BY <1>4, <2>1, <2>2
<1>5. ASSUME AddrmodeSet PROVE Locks'
  <2>1. \A p \in Procs : call'[p].pc = call[p].pc
    BY <1>5, AddrmodeSetStep, Zenon DEF SetsStrayed
  <2> QED BY <1>5, <2>1 DEF AddrmodeSet, Locks
<1>6. ASSUME Sweeps PROVE Locks'
  <2>1. (\A p \in Procs : call'[p].pc = call[p].pc) /\ descLock' = descLock /\ escLock' = escLock
    BY <1>6, SweepStep, Zenon DEF Unswept
  <2> QED BY <2>1 DEF Locks
<1>7. ASSUME UNCHANGED pathVars PROVE Locks'
  BY <1>7 DEF pathVars, Locks
<1> QED BY <1>1, <1>2, <1>3, <1>4, <1>5, <1>6, <1>7 DEF PathNext, Sweeps

-----------------------------------------------------------------------------
(* Delegation                                                              *)

LEMMA GrantsKept ==
  ASSUME Grants, NEW p \in Procs, Alone(p), delegated' = delegated, listed' = listed /\ sweep' = sweep,
         \/ call'[p].pc \in Pinned \ {"pinned"} =>
              /\ call[p].pc \in Pinned \ {"pinned"}
              /\ call'[p].blind = call[p].blind /\ call'[p].chunks = call[p].chunks
         \/ call'[p].chunks = <<>>
  PROVE  Grants'
<1>1. GrantInv(call'[p], delegated)
  <2>1. CASE call'[p].chunks = <<>>
    BY <2>1 DEF GrantInv
  <2>2. CASE call'[p].pc \in Pinned \ {"pinned"} =>
               /\ call[p].pc \in Pinned \ {"pinned"}
               /\ call'[p].blind = call[p].blind /\ call'[p].chunks = call[p].chunks
    <3>1. GrantInv(call[p], delegated)
      BY DEF Grants
    <3> QED BY <2>2, <3>1, Zenon DEF GrantInv
  <2> QED BY <2>1, <2>2
<1>2. \A q \in Procs : GrantInv(call'[q], delegated)
  <2>1. ASSUME NEW q \in Procs PROVE GrantInv(call'[q], delegated)
    <3>1. CASE q = p
      BY <1>1, <3>1
    <3>2. CASE q # p
      <4>1. call'[q] = call[q]
        BY <3>2 DEF Alone
      <4> QED BY <4>1 DEF Grants
    <3> QED BY <3>1, <3>2
  <2> QED BY <2>1
<1> QED BY <1>2 DEF Grants, SweepInv

(* The pages of a buffer are pages of the guest.                           *)
LEMMA PagesOfGuest ==
  ASSUME NEW p \in GuestProcs, NEW r, RequestOK(p, r), Present(p, r),
         NEW i \in 1..Len(BufferChunks(p, r))
  PROVE  BufferChunks(p, r)[i].page \in 1..GuestPages
<1> DEFINE pages == BufferPages(p, r)
           j == (r.buf \div PageSize) + i
           up == UserPage[p]
<1>0. p \in Procs
  BY DEF Procs
<1>1. /\ Len(BufferChunks(p, r)) = Len(pages) /\ Len(pages) = PageCount(r.buf, r.len)
      /\ \A k \in 1..Len(pages) : BufferChunks(p, r)[k].page = pages[k]
  BY <1>0, BufferTyped, PagesTyped
<1>2. j \in DOMAIN up /\ pages[i] = up[j]
  <2>1. i \in 1..PageCount(r.buf, r.len)
    BY <1>1
  <2> QED BY <1>0, <2>1, PagesTyped
<1>3. BufferChunks(p, r)[i].page = up[j]
  BY <1>1, <1>2
<1>4. pages[i] \in Nat
  BY <1>1 DEF Present
<1>5. Range(up) \subseteq (1..GuestPages) \cup {Hole} /\ Hole \notin Nat
  BY DmaMemory
<1> HIDE DEF j, up, pages
<1>6. up[j] \in Range(up)
  BY <1>2, Zenon DEF Range
<1> QED BY <1>2, <1>3, <1>4, <1>5, <1>6

LEMMA DelegateGrants ==
  ASSUME PathTypes, Lists, Grants, NEW p \in GuestProcs, Delegate(p)
  PROVE  Grants'
<1> DEFINE c == call[p]
           d == call'[p]
           chunks == c.chunks
           given == Granted(DelegateRanges(chunks))
<1>0. p \in Procs
  BY DEF Procs
<1>1. c \in Calls /\ RequestOK(p, c.req)
  BY <1>0, CallTyped
<1>2. chunks \in Seq(PageChunks)
  BY <1>1 DEF Calls
<1>3. chunks = BufferChunks(p, c.req) /\ Present(p, c.req)
  <2>1. ChunksInv(p, c)
    BY <1>0 DEF Lists, ListInv
  <2>2. c.pc \in Pinned
    BY DEF Delegate, At, Pinned
  <2> QED BY <2>1, <2>2, Zenon DEF ChunksInv
<1>4. PICK ok \in BOOLEAN : /\ SetsBlind(c, d, "delegated", ~ok)
                            /\ delegated' = IF ok THEN delegated \cup given ELSE delegated
  BY <1>0, DelegateStep, Zenon
<1>5. Alone(p)
  BY <1>0, DelegateStep
<1>6. listed' = listed \cup Range(PagesOf(chunks))
  BY Zenon DEF Delegate
<1>7. d.chunks = chunks /\ d.blind = ~ok
  BY <1>4, Zenon DEF SetsBlind, SameBuffer
<1>8. \A i \in 1..Len(chunks) : chunks[i].page \in 1..GuestPages
  <2> HIDE DEF c
  <2>1. \A i \in 1..Len(BufferChunks(p, c.req)) :
          BufferChunks(p, c.req)[i].page \in 1..GuestPages
    BY <1>1, <1>3, PagesOfGuest
  <2> QED BY <1>3, <2>1, Zenon
<1> HIDE DEF chunks, c, d
<1>9. \A g : g \in given <=> \E i \in 1..Len(chunks) : chunks[i].nbytes # 0 /\ chunks[i].page = g
  BY <1>2, RangesExact
<1>10. DOMAIN chunks = 1..Len(chunks)
  BY <1>2
<1> HIDE DEF given
<1>11. given \subseteq Range(PagesOf(chunks))
  <2>1. ASSUME NEW i \in 1..Len(chunks) PROVE chunks[i].page \in Range(PagesOf(chunks))
    <3>1. PagesOf(chunks)[i] = chunks[i].page /\ i \in DOMAIN PagesOf(chunks)
      BY <1>10 DEF PagesOf
    <3> QED BY <3>1, Zenon DEF Range
  <2> QED BY <1>9, <2>1
<1>12. given \subseteq 1..GuestPages
  BY <1>8, <1>9
<1>13. delegated' \subseteq listed' /\ delegated' \subseteq 1..GuestPages
       /\ delegated \subseteq delegated'
  BY <1>4, <1>6, <1>11, <1>12 DEF Grants
<1>14. GrantInv(d, delegated')
  <2>1. CASE ok
    <3>1. given \subseteq delegated'
      BY <1>4, <2>1
    <3>2. ASSUME NEW i \in 1..Len(chunks), chunks[i].nbytes > 0
          PROVE  chunks[i].page \in delegated'
      <4>1. chunks[i].nbytes # 0
        BY <3>2
      <4>2. chunks[i].page \in given
        BY <1>9, <4>1
      <4> QED BY <3>1, <4>2
    <3> QED BY <1>7, <1>10, <3>2 DEF GrantInv
  <2>2. CASE ~ok
    BY <1>7, <2>2 DEF GrantInv
  <2> QED BY <2>1, <2>2
<1>15. ASSUME NEW q \in Procs PROVE GrantInv(call'[q], delegated')
  <2>1. CASE q = p
    BY <1>14, <2>1 DEF d
  <2>2. CASE q # p
    <3>1. call'[q] = call[q] /\ GrantInv(call[q], delegated)
      BY <1>5, <2>2 DEF Alone, Grants
    <3> QED BY <1>13, <3>1, Zenon DEF GrantInv
  <2> QED BY <2>1, <2>2
<1>16. SweepInv'
  <2> DEFINE fresh == sweep.fresh \cup Range(PagesOf(chunks))
  <2>1. sweep' = IF sweep.next = 0 THEN sweep ELSE [sweep EXCEPT !.fresh = fresh]
    BY Zenon DEF Delegate, chunks, c
  <2>2. SweepInv
    BY DEF Grants
  <2>3. CASE sweep.next = 0
    BY <2>1, <2>2, <2>3 DEF SweepInv
  <2>4. CASE sweep.next # 0
    <3>1. given \subseteq fresh /\ sweep.fresh \subseteq fresh
      BY <1>11
    <3> HIDE DEF fresh
    <3>2. /\ sweep'.next = sweep.next /\ sweep'.fresh = fresh /\ sweep'.kept = sweep.kept
          /\ sweep' = [next |-> sweep'.next, fresh |-> sweep'.fresh, kept |-> sweep'.kept]
      BY <2>1, <2>2, <2>4 DEF SweepInv
    <3>3. \A g \in delegated' : g \in delegated \/ g \in given
      BY <1>4
    <3> QED BY <2>2, <2>4, <3>1, <3>2, <3>3 DEF SweepInv
  <2> QED BY <2>3, <2>4
<1> QED BY <1>13, <1>15, <1>16 DEF Grants

(* Chunk after chunk the memory is taken back: what the loop has passed is *)
(* closed.                                                                 *)
LEMMA SweepMeasured ==
  ASSUME Grants, SweepLeft > 0, sweep.next > 0
  PROVE  SweepRange \in Nat /\ SweepRange > 0
<1>1. GuestPages \in Nat /\ UndelegateChunk \in Nat \ {0}
  BY DmaConstants
<1>2. SweepLeft \in Int
  BY <1>1 DEF SweepLeft, Grants, SweepInv
<1> QED BY <1>1, <1>2 DEF SweepRange, Least

LEMMA UndelegateGrants ==
  ASSUME PathTypes, Lists, Grants, UndelegateSome
  PROVE  Grants'
<1> DEFINE n == sweep.next
           r == SweepRange
<1>1. PICK gone \in Taken :
        /\ delegated' = delegated \ gone
        /\ sweep' = [sweep EXCEPT !.next = @ + r, !.kept = @ \cup ((n .. n + r - 1) \ gone)]
        /\ call' = [p \in Procs |-> [call[p] EXCEPT
                      !.blind = @ \/ Range(PagesOf(call[p].chunks)) \cap gone # {}]]
  BY Zenon DEF UndelegateSome
<1>2. SweepLeft > 0 /\ n > 0 /\ listed' = listed
  BY DEF UndelegateSome
<1>3. r \in Nat /\ n \in Nat
  BY <1>2, SweepMeasured DEF Grants, SweepInv
<1> HIDE DEF r
<1>4. /\ sweep'.next = n + r /\ sweep'.fresh = sweep.fresh
      /\ sweep'.kept = sweep.kept \cup ((n .. n + r - 1) \ gone)
      /\ sweep' = [next |-> sweep'.next, fresh |-> sweep'.fresh, kept |-> sweep'.kept]
  BY <1>1 DEF Grants, SweepInv
<1>5. ASSUME NEW g \in delegated', g < n + r
      PROVE  g \in sweep'.fresh \cup sweep'.kept
  <2>1. g \in delegated /\ g \notin gone /\ g \in Nat
    BY <1>1 DEF Grants
  <2>2. CASE g < n
    BY <1>2, <1>4, <2>1, <2>2 DEF Grants, SweepInv
  <2>3. CASE ~(g < n)
    <3>1. g \in n .. n + r - 1
      BY <1>3, <1>5, <2>1, <2>3
    <3> QED BY <1>4, <2>1, <3>1
  <2> QED BY <2>2, <2>3
<1>6. SweepInv'
  BY <1>3, <1>4, <1>5 DEF SweepInv
<1>7. ASSUME NEW p \in Procs PROVE GrantInv(call'[p], delegated')
  <2> DEFINE c == call[p]
             d == call'[p]
  <2>1. SetsSeen(c, d, Marked(p, gone))
    BY <1>1, UndelegateSomeStep
  <2>2. d.pc = c.pc /\ d.chunks = c.chunks /\ d.blind = Marked(p, gone)
    BY <2>1, Zenon DEF SetsSeen, SameBuffer
  <2>3. GrantInv(c, delegated)
    BY DEF Grants
  <2>4. SUFFICES ASSUME d.pc \in Pinned \ {"pinned"}, ~d.blind, NEW i \in DOMAIN c.chunks,
                        c.chunks[i].nbytes > 0
                 PROVE  c.chunks[i].page \in delegated'
    BY <2>2, Zenon DEF GrantInv
  <2>5. ~c.blind /\ Range(PagesOf(c.chunks)) \cap gone = {}
    BY <2>2, <2>4, Zenon DEF Marked
  <2>6. c.chunks[i].page \in delegated
    BY <2>2, <2>3, <2>4, <2>5, Zenon DEF GrantInv
  <2>7. c.chunks[i].page \in Range(PagesOf(c.chunks))
    <3>1. PagesOf(c.chunks)[i] = c.chunks[i].page /\ i \in DOMAIN PagesOf(c.chunks)
      BY <2>4 DEF PagesOf
    <3> QED BY <3>1, Zenon DEF Range
  <2> QED BY <1>1, <2>5, <2>6, <2>7, Zenon
<1>8. delegated' \subseteq listed' /\ delegated' \subseteq 1..GuestPages
  BY <1>1, <1>2 DEF Grants
<1> QED BY <1>6, <1>7, <1>8 DEF Grants

LEMMA SweepGrants ==
  ASSUME PathTypes, Lists, Grants, Sweeps
  PROVE  Grants'
<1>1. CASE UndelegateStart
  <2>1. /\ delegated' = delegated /\ listed' = listed /\ call' = call
        /\ sweep' = [next |-> 1, fresh |-> {}, kept |-> {}]
    BY <1>1 DEF UndelegateStart, NoSweep
  <2>2. SweepInv'
    BY <2>1 DEF SweepInv, Grants
  <2> QED BY <2>1, <2>2 DEF Grants
<1>2. CASE UndelegateEnd
  <2>1. /\ delegated' = delegated /\ call' = call /\ listed' = sweep.fresh \cup sweep.kept
        /\ sweep' = [next |-> 0, fresh |-> {}, kept |-> {}]
        /\ sweep.next > 0 /\ SweepLeft <= 0
    BY <1>2 DEF UndelegateEnd, NoSweep
  <2>2. \A g \in delegated : g < sweep.next
    BY <2>1, DmaConstants DEF SweepLeft, Grants, SweepInv
  <2>3. delegated \subseteq listed'
    BY <2>1, <2>2 DEF Grants, SweepInv
  <2>4. SweepInv'
    BY <2>1 DEF SweepInv
  <2> QED BY <2>1, <2>3, <2>4 DEF Grants
<1> QED BY <1>1, <1>2, UndelegateGrants DEF Sweeps

LEMMA GrantsInit == PathInit => Grants
<1> SUFFICES ASSUME PathInit PROVE Grants
  OBVIOUS
<1>1. \A p \in Procs : call[p].pc = "idle"
  BY DEF PathInit, NewCall
<1>2. delegated = {} /\ listed = {} /\ sweep = [next |-> 0, fresh |-> {}, kept |-> {}]
  BY DEF PathInit, NoSweep
<1>3. SweepInv
  BY <1>2 DEF SweepInv
<1> QED BY <1>1, <1>2, <1>3 DEF Grants, GrantInv, Pinned

LEMMA GrantsNext ==
  ASSUME PathTypes, Lists, Grants, [PathNext]_pathVars
  PROVE  Grants'
<1> DEFINE Given == Pinned \ {"pinned"}
<1>0. /\ {"delegated", "manager", "mapped", "queue", "build", "run", "unmap"} \subseteq Given
      /\ "idle" \notin Given /\ "pinned" \notin Given
  BY DEF Pinned
<1> HIDE DEF Given
<1>k. ASSUME NEW p \in Procs, Alone(p), delegated' = delegated, listed' = listed /\ sweep' = sweep,
             call[p].pc \in Given, call'[p].blind = call[p].blind,
             call'[p].chunks = call[p].chunks
      PROVE  Grants'
  BY <1>k, GrantsKept DEF Given
<1>l. ASSUME NEW p \in Procs, Alone(p), delegated' = delegated, listed' = listed /\ sweep' = sweep,
             call'[p].chunks = <<>>
      PROVE  Grants'
  BY <1>l, GrantsKept
<1>1. ASSUME NEW p \in Procs, Call(p) PROVE Grants'
  <2>1. PICK r : Begun(call'[p], IF p \in GuestProcs THEN "pin" ELSE "local", r, fixed)
    BY <1>1, CallStep, Zenon
  <2>2. call'[p].chunks = <<>>
    BY <2>1 DEF Begun
  <2>3. Alone(p) /\ delegated' = delegated /\ listed' = listed /\ sweep' = sweep
    BY <1>1, CallStep DEF Call
  <2> QED BY <2>2, <2>3, <1>l
<1>2. ASSUME NEW p \in Procs, HostStep(p) PROVE Grants'
  <2>0. delegated' = delegated /\ listed' = listed /\ sweep' = sweep /\ call[p].pc \in Given
    BY <1>0, <1>2 DEF HostStep, RequestFails, MakeRequest, TakeDesc, Build, BuildAperture, RunAway,
                      Done, CarryOut, CarryFails, Unmap, At
  <2>1. CASE RequestFails(p) \/ Done(p)
    <3>1. PICK ret, way : SetsEnd(call[p], call'[p], "unmap", ret, way)
      BY <2>1, RequestFailsStep, DoneStep, Zenon
    <3>2. Alone(p)
      BY <2>1, RequestFailsStep, DoneStep
    <3>3. call'[p].blind = call[p].blind /\ call'[p].chunks = call[p].chunks
      BY <3>1 DEF SetsEnd, SameBuffer, SameHistory
    <3> QED BY <1>k, <2>0, <3>2, <3>3
  <2>2. CASE MakeRequest(p)
    <3>1. PICK s, d : SetsRequest(call[p], call'[p], "queue", s, d)
      BY <2>2, MakeRequestStep, Zenon
    <3>2. Alone(p)
      BY <2>2, MakeRequestStep
    <3>3. call'[p].blind = call[p].blind /\ call'[p].chunks = call[p].chunks
      BY <3>1 DEF SetsRequest, SameBuffer, SameHistory
    <3> QED BY <1>k, <2>0, <3>2, <3>3
  <2>3. CASE TakeDesc(p) \/ RunAway(p)
    <3>1. PICK pc : SetsPc(call[p], call'[p], pc)
      BY <2>3, TakeDescStep, RunAwayStep, Zenon
    <3>2. Alone(p)
      BY <2>3, TakeDescStep, RunAwayStep
    <3>3. call'[p].blind = call[p].blind /\ call'[p].chunks = call[p].chunks
      BY <3>1 DEF SetsPc, SameBuffer, SameHistory
    <3> QED BY <1>k, <2>0, <3>2, <3>3
  <2>4. CASE Build(p)
    <3>1. PICK n, sub : BuildsFrom(p, n, sub)
      BY <2>4, BuildStep
    <3>2. Alone(p)
      BY <2>4, BuildStep
    <3>3. call'[p].blind = call[p].blind /\ call'[p].chunks = call[p].chunks
      BY <3>1, Zenon DEF BuildsFrom, SetsPlain, SameBuffer, SameHistory
    <3> QED BY <1>k, <2>0, <3>2, <3>3
  <2>5. CASE BuildAperture(p)
    <3>1. PICK s, start : PassesTo(p, s, start)
      BY <2>5, BuildApertureStep
    <3>2. Alone(p)
      BY <2>5, BuildApertureStep
    <3>3. call'[p].blind = call[p].blind /\ call'[p].chunks = call[p].chunks
      BY <3>1, Zenon DEF PassesTo, SetsPass, SameBuffer
    <3> QED BY <1>k, <2>0, <3>2, <3>3
  <2>6. CASE CarryOut(p)
    <3>1. Alone(p)
      BY <2>6, CarryOutStep
    <3>2. call'[p].blind = call[p].blind /\ call'[p].chunks = call[p].chunks
      BY <2>6, CarryOutStep, Zenon DEF SetsMoved, SameBuffer, SameHistory
    <3> QED BY <1>k, <2>0, <3>1, <3>2
  <2>7. CASE CarryFails(p)
    <3>1. Alone(p)
      BY <2>7, CarryFailsStep
    <3>2. call'[p].blind = call[p].blind /\ call'[p].chunks = call[p].chunks
      BY <2>7, CarryFailsStep, Zenon DEF SetsFailed, SameBuffer, SameHistory
    <3> QED BY <1>k, <2>0, <3>1, <3>2
  <2>8. CASE Unmap(p)
    <3>1. Alone(p)
      BY <2>8, UnmapStep
    <3>2. \/ call'[p].blind = call[p].blind /\ call'[p].chunks = call[p].chunks
          \/ call'[p].chunks = <<>>
      BY <2>8, UnmapStep DEF SetsFrames, EndsAs, SetsEnded, SameHistory
    <3> QED BY <1>k, <1>l, <2>0, <3>1, <3>2
  <2> QED BY <1>2, <2>1, <2>2, <2>3, <2>4, <2>5, <2>6, <2>7, <2>8 DEF HostStep
<1>3. ASSUME NEW p \in GuestProcs, GuestStep(p) PROVE Grants'
  <2>0. p \in Procs
    BY DEF Procs
  <2>1. CASE PinRefused(p) \/ PinLost(p) \/ TooSmall(p) \/ Leave(p)
    <3>1. PICK ret, way : EndsAs(call[p], call'[p], ret, way)
      BY <2>0, <2>1, PinRefusedStep, PinLostStep, TooSmallStep, LeaveStep, Zenon
    <3>2. Alone(p)
      BY <2>0, <2>1, PinRefusedStep, PinLostStep, TooSmallStep, LeaveStep, Zenon
    <3>3. call'[p].chunks = <<>>
      BY <3>1 DEF EndsAs, SetsEnded
    <3>4. delegated' = delegated /\ listed' = listed /\ sweep' = sweep
      BY <2>1 DEF PinRefused, PinLost, TooSmall, Leave
    <3> QED BY <1>l, <2>0, <3>2, <3>3, <3>4
  <2>2. CASE PinPages(p)
    <3>1. Alone(p) /\ call'[p].pc = "pinned" /\ delegated' = delegated /\ listed' = listed /\ sweep' = sweep
      BY <2>0, <2>2, PinPagesStep DEF PinPages, SetsChunks
    <3> QED BY <1>0, <2>0, <3>1, GrantsKept DEF Given
  <2>3. CASE Delegate(p)
    BY <2>3, DelegateGrants
  <2>4. CASE TakeEscape(p)
    <3>1. /\ Alone(p) /\ delegated' = delegated /\ listed' = listed /\ sweep' = sweep /\ call[p].pc \in Given
          /\ call'[p].blind = call[p].blind /\ call'[p].chunks = call[p].chunks
      BY <1>0, <2>0, <2>4, TakeEscapeStep DEF TakeEscape, At, SetsPc, SameBuffer, SameHistory
    <3> QED BY <1>k, <2>0, <3>1
  <2>5. CASE EscapeFails(p) \/ Denied(p) \/ MapRemoteFails(p)
    <3>1. PICK way : SetsEnd(call[p], call'[p], "leave", -1, way)
      BY <2>0, <2>5, EscapeFailsStep, DeniedStep, MapRemoteFailsStep, Zenon
    <3>2. Alone(p)
      BY <2>0, <2>5, EscapeFailsStep, DeniedStep, MapRemoteFailsStep, Zenon
    <3>3. call[p].pc \in Given /\ delegated' = delegated /\ listed' = listed /\ sweep' = sweep
      BY <1>0, <2>5 DEF EscapeFails, Denied, MapRemoteFails, At
    <3>4. call'[p].blind = call[p].blind /\ call'[p].chunks = call[p].chunks
      BY <3>1 DEF SetsEnd, SameBuffer, SameHistory
    <3> QED BY <1>k, <2>0, <3>2, <3>3, <3>4
  <2>6. CASE MapRemote(p)
    <3>1. /\ Alone(p) /\ delegated' = delegated /\ listed' = listed /\ sweep' = sweep /\ call[p].pc \in Given
          /\ call'[p].blind = call[p].blind /\ call'[p].chunks = call[p].chunks
      BY <1>0, <2>0, <2>6, MapRemoteStep DEF MapRemote, At, SetsFrames, SameHistory
    <3> QED BY <1>k, <2>0, <3>1
  <2> QED BY <1>3, <2>1, <2>2, <2>3, <2>4, <2>5, <2>6 DEF GuestStep
<1>4. ASSUME NEW p \in HostProcs, LocalRefused(p) \/ MapLocal(p) PROVE Grants'
  <2>0. p \in Procs /\ p \notin GuestProcs
    BY DmaConstants DEF Procs
  <2>1. CASE LocalRefused(p)
    <3>1. Alone(p) /\ call'[p].chunks = <<>> /\ delegated' = delegated /\ listed' = listed /\ sweep' = sweep
      BY <2>0, <2>1, LocalRefusedStep DEF LocalRefused, EndsAs, SetsEnded
    <3> QED BY <1>l, <2>0, <3>1
  <2>2. CASE MapLocal(p)
    <3>1. /\ Alone(p) /\ call'[p].chunks = call[p].chunks /\ delegated' = delegated
          /\ listed' = listed /\ sweep' = sweep
      BY <2>0, <2>2, MapLocalStep DEF MapLocal, SetsFrames
    <3>2. call[p].chunks = <<>>
      BY <2>0 DEF Lists, ListInv, ChunksInv
    <3> QED BY <1>l, <2>0, <3>1, <3>2
  <2> QED BY <1>4, <2>1, <2>2
<1>5. ASSUME AddrmodeSet PROVE Grants'
  <2>1. \A p \in Procs : /\ call'[p].pc = call[p].pc /\ call'[p].blind = call[p].blind
                         /\ call'[p].chunks = call[p].chunks
    BY <1>5, AddrmodeSetStep, Zenon DEF SetsStrayed, SameBuffer
  <2>2. delegated' = delegated /\ listed' = listed /\ sweep' = sweep
    BY <1>5 DEF AddrmodeSet
  <2>3. ASSUME NEW p \in Procs PROVE GrantInv(call'[p], delegated)
    <3>1. GrantInv(call[p], delegated)
      BY DEF Grants
    <3> QED BY <2>1, <3>1, Zenon DEF GrantInv
  <2> QED BY <2>2, <2>3 DEF Grants, SweepInv
<1>6. ASSUME Sweeps PROVE Grants'
  BY <1>6, SweepGrants
<1>7. ASSUME UNCHANGED pathVars PROVE Grants'
  BY <1>7 DEF pathVars, Grants, SweepInv
<1> QED BY <1>1, <1>2, <1>3, <1>4, <1>5, <1>6, <1>7 DEF PathNext, Sweeps

LEMMA PathGrants == PathSpec => []Grants
<1>1. PathInit => Grants
  BY GrantsInit
<1>2. PathTypes /\ Lists /\ Grants /\ [PathNext]_pathVars => Grants'
  BY GrantsNext
<1> QED BY <1>1, <1>2, PathTyped, PTL DEF PathSpec

(* No page of the guest is opened to the device that was not on a scatter  *)
(* list (delegate of devmem_intercept.c), whatever the lists look like;    *)
(* and what the loop of devmem_undelegate.c has passed is closed, but for  *)
(* pages put on a list since it began and those of calls to the monitor    *)
(* that failed, for every size of the memory and of its chunks.            *)
THEOREM DelegationIsExact == PathSpec => []DelegatedExactly
<1>1. Grants => DelegatedExactly
  <2> SUFFICES ASSUME Grants PROVE DelegatedExactly
    OBVIOUS
  <2>1. ASSUME sweep.next > 0, NEW g \in delegated \cap (1..sweep.next - 1)
        PROVE  g \in sweep.fresh \cup sweep.kept
    BY <2>1 DEF Grants, SweepInv
  <2> QED BY <2>1 DEF Grants, DelegatedExactly
<1> QED BY <1>1, PathGrants, PTL

-----------------------------------------------------------------------------
(* What a call that nothing disturbs moves                                 *)

\* A step of a process that goes on with its call
Proceeds(p) ==
  /\ Alone(p) /\ call[p].pc # "idle" /\ sit' = sit /\ fixed' = fixed
  /\ call'[p].req = call[p].req /\ call'[p].mode = call[p].mode
  /\ call[p].strayed => call'[p].strayed

Works(p) == \/ HostStep(p)
            \/ p \in GuestProcs /\ GuestStep(p)
            \/ p \in HostProcs /\ (LocalRefused(p) \/ MapLocal(p))

LEMMA WorksOn ==
  ASSUME PathTypes, Lists, NEW p \in Procs, Works(p)
  PROVE  Proceeds(p)
<1> DEFINE Keeps(c, d) == d.req = c.req /\ d.mode = c.mode /\ (c.strayed => d.strayed)
<1>0. call[p].pc # "idle" /\ sit' = sit /\ fixed' = fixed
  BY DEF Works, HostStep, RequestFails, MakeRequest, TakeDesc, Build, BuildAperture, RunAway,
         Done, CarryOut, CarryFails, Unmap, GuestStep, PinRefused, PinLost, PinPages, Delegate,
         TooSmall, TakeEscape, EscapeFails, Denied, MapRemote, MapRemoteFails, Leave,
         LocalRefused, MapLocal, At
<1> SUFFICES Alone(p) /\ Keeps(call[p], call'[p])
  BY <1>0 DEF Proceeds
<1>1. CASE RequestFails(p) \/ Done(p) \/ EscapeFails(p) \/ Denied(p) \/ MapRemoteFails(p)
  <2>1. PICK pc, ret, way : SetsEnd(call[p], call'[p], pc, ret, way)
    BY <1>1, RequestFailsStep, DoneStep, EscapeFailsStep, DeniedStep, MapRemoteFailsStep, Zenon
  <2>2. Alone(p)
    BY <1>1, RequestFailsStep, DoneStep, EscapeFailsStep, DeniedStep, MapRemoteFailsStep, Zenon
  <2> QED BY <2>1, <2>2 DEF SetsEnd, SameBuffer, SameHistory
<1>2. CASE MakeRequest(p)
  <2>1. PICK s, d : SetsRequest(call[p], call'[p], "queue", s, d)
    BY <1>2, MakeRequestStep, Zenon
  <2>2. Alone(p)
    BY <1>2, MakeRequestStep
  <2> QED BY <2>1, <2>2 DEF SetsRequest, SameBuffer, SameHistory
<1>3. CASE TakeDesc(p) \/ RunAway(p) \/ TakeEscape(p)
  <2>1. PICK pc : SetsPc(call[p], call'[p], pc)
    BY <1>3, TakeDescStep, RunAwayStep, TakeEscapeStep, Zenon
  <2>2. Alone(p)
    BY <1>3, TakeDescStep, RunAwayStep, TakeEscapeStep
  <2> QED BY <2>1, <2>2 DEF SetsPc, SameBuffer, SameHistory
<1>4. CASE Build(p)
  <2>1. PICK n, sub : BuildsFrom(p, n, sub)
    BY <1>4, BuildStep
  <2>2. Alone(p)
    BY <1>4, BuildStep
  <2>3. SameBuffer(call[p], call'[p]) /\ SameHistory(call[p], call'[p])
    BY <2>1, Zenon DEF BuildsFrom, SetsPlain
  <2> QED BY <2>2, <2>3 DEF SameBuffer, SameHistory
<1>5. CASE BuildAperture(p)
  <2>1. PICK s, start : PassesTo(p, s, start)
    BY <1>5, BuildApertureStep
  <2>2. Alone(p)
    BY <1>5, BuildApertureStep
  <2>3. /\ SameBuffer(call[p], call'[p]) /\ call'[p].mode = call[p].mode
        /\ call'[p].strayed = (call[p].strayed \/ Strays(call[p], start))
    BY <2>1, Zenon DEF PassesTo, SetsPass
  <2> QED BY <2>2, <2>3, Zenon DEF SameBuffer
<1>6. CASE CarryOut(p)
  <2>1. Alone(p)
    BY <1>6, CarryOutStep
  <2>2. SameBuffer(call[p], call'[p]) /\ SameHistory(call[p], call'[p])
    BY <1>6, CarryOutStep, Zenon DEF SetsMoved
  <2> QED BY <2>1, <2>2 DEF SameBuffer, SameHistory
<1>7. CASE CarryFails(p)
  <2>1. Alone(p)
    BY <1>7, CarryFailsStep
  <2>2. SameBuffer(call[p], call'[p]) /\ SameHistory(call[p], call'[p])
    BY <1>7, CarryFailsStep, Zenon DEF SetsFailed
  <2> QED BY <2>1, <2>2 DEF SameBuffer, SameHistory
<1>8. CASE Unmap(p)
  BY <1>8, UnmapStep DEF SetsFrames, EndsAs, SetsEnded, SameHistory
<1>9. CASE PinRefused(p) \/ PinLost(p) \/ TooSmall(p) \/ Leave(p) \/ LocalRefused(p)
  <2>1. PICK ret, way : EndsAs(call[p], call'[p], ret, way)
    BY <1>9, PinRefusedStep, PinLostStep, TooSmallStep, LeaveStep, LocalRefusedStep, Zenon
  <2>2. Alone(p)
    BY <1>9, PinRefusedStep, PinLostStep, TooSmallStep, LeaveStep, LocalRefusedStep, Zenon
  <2> QED BY <2>1, <2>2 DEF EndsAs, SetsEnded, SameHistory
<1>10. CASE PinPages(p)
  BY <1>10, PinPagesStep DEF SetsChunks, SameHistory
<1>11. CASE Delegate(p)
  <2>1. PICK b : SetsBlind(call[p], call'[p], "delegated", b)
    BY <1>11, DelegateStep, Zenon
  <2>2. Alone(p)
    BY <1>11, DelegateStep
  <2> QED BY <2>1, <2>2 DEF SetsBlind, SameBuffer
<1>12. CASE p \in GuestProcs /\ MapRemote(p)
  BY <1>12, MapRemoteStep DEF SetsFrames, SameHistory
<1>13. CASE p \in HostProcs /\ MapLocal(p)
  <2>1. p \notin GuestProcs
    BY <1>13, DmaConstants
  <2> QED BY <1>13, <2>1, MapLocalStep DEF SetsFrames, SameHistory
<1> QED BY <1>1, <1>2, <1>3, <1>4, <1>5, <1>6, <1>7, <1>8, <1>9, <1>10, <1>11, <1>12, <1>13
       DEF Works, HostStep, GuestStep

LEMMA ModesInit == PathInit => Modes
<1> SUFFICES ASSUME PathInit PROVE Modes
  OBVIOUS
<1>1. \A p \in Procs : call[p].pc = "idle"
  BY DEF PathInit, NewCall
<1> QED BY <1>1 DEF Modes, ModeInv, Framed

LEMMA ModesOne ==
  ASSUME Modes, NEW p \in Procs, Alone(p), fixed' = fixed, ModeInv(p, call'[p], fixed)
  PROVE  Modes'
<1>1. ASSUME NEW q \in Procs PROVE ModeInv(q, call'[q], fixed)
  <2>1. CASE q = p
    BY <2>1
  <2>2. CASE q # p
    <3>1. call'[q] = call[q]
      BY <2>2 DEF Alone
    <3> QED BY <3>1 DEF Modes
  <2> QED BY <2>1, <2>2
<1> QED BY <1>1 DEF Modes

LEMMA ModesNext ==
  ASSUME PathTypes, Lists, Modes, [PathNext]_pathVars
  PROVE  Modes'
<1>1. ASSUME NEW p \in Procs, Call(p) PROVE Modes'
  <2>1. PICK r : Begun(call'[p], IF p \in GuestProcs THEN "pin" ELSE "local", r, fixed)
    BY <1>1, CallStep, Zenon
  <2>2. call'[p].pc \in {"pin", "local"} /\ call'[p].mode = fixed
    BY <2>1 DEF Begun
  <2>3. ModeInv(p, call'[p], fixed)
    BY <2>2 DEF ModeInv, Framed
  <2>4. Alone(p) /\ fixed' = fixed
    BY <1>1, CallStep DEF Call
  <2> QED BY <2>3, <2>4, ModesOne
<1>2. ASSUME NEW p \in Procs, Works(p) PROVE Modes'
  <2> DEFINE c == call[p]
             d == call'[p]
  <2>1. /\ Alone(p) /\ c.pc # "idle" /\ fixed' = fixed /\ d.req = c.req /\ d.mode = c.mode
        /\ c.strayed => d.strayed
    BY <1>2, WorksOn DEF Proceeds
  <2>2. ModeInv(p, c, fixed)
    BY DEF Modes
  <2>3. \/ MapRemote(p) \/ MapLocal(p)
        \/ d.pc \in Framed => c.pc \in Framed
    <3>1. CASE c.pc \in {"mapped", "queue", "build", "run", "unmap"}
      BY <3>1 DEF Framed
    <3>2. CASE PinRefused(p) \/ PinLost(p) \/ TooSmall(p) \/ Leave(p) \/ LocalRefused(p)
      <4>1. PICK ret, way : EndsAs(call[p], call'[p], ret, way)
        BY <3>2, PinRefusedStep, PinLostStep, TooSmallStep, LeaveStep, LocalRefusedStep, Zenon
      <4> QED BY <4>1 DEF EndsAs, SetsEnded, Framed
    <3>3. CASE PinPages(p)
      BY <3>3, PinPagesStep DEF SetsChunks, Framed
    <3>4. CASE Delegate(p)
      <4>1. PICK b : SetsBlind(call[p], call'[p], "delegated", b)
        BY <3>4, DelegateStep, Zenon
      <4> QED BY <4>1 DEF SetsBlind, Framed
    <3>5. CASE TakeEscape(p)
      BY <3>5, TakeEscapeStep DEF SetsPc, Framed
    <3>6. CASE EscapeFails(p) \/ Denied(p) \/ MapRemoteFails(p)
      <4>1. PICK way : SetsEnd(call[p], call'[p], "leave", -1, way)
        BY <3>6, EscapeFailsStep, DeniedStep, MapRemoteFailsStep, Zenon
      <4> QED BY <4>1 DEF SetsEnd, Framed
    <3>7. HostStep(p) => c.pc \in {"mapped", "queue", "build", "run", "unmap"}
      BY DEF HostStep, RequestFails, MakeRequest, TakeDesc, Build, BuildAperture, RunAway,
             Done, CarryOut, CarryFails, Unmap, At
    <3> QED BY <1>2, <3>1, <3>2, <3>3, <3>4, <3>5, <3>6, <3>7 DEF Works, GuestStep
  <2>4. CASE d.pc \in Framed => c.pc \in Framed
    <3>1. ModeInv(p, d, fixed)
      BY <2>1, <2>2, <2>4 DEF ModeInv
    <3> QED BY <2>1, <3>1, ModesOne
  <2>5. CASE MapRemote(p) \/ MapLocal(p)
    <3>1. Aligned(c.req)
      BY <2>5 DEF MapRemote, MapLocal, Suits
    <3>2. ~fixed => c.req.buf % AddrAlign = c.req.ep % AddrAlign
      BY <3>1 DEF Aligned
    <3>3. ModeInv(p, d, fixed)
      BY <2>1, <2>2, <3>2, Zenon DEF ModeInv
    <3> QED BY <2>1, <3>3, ModesOne
  <2> QED BY <2>3, <2>4, <2>5
<1>3. ASSUME AddrmodeSet PROVE Modes'
  <2>1. ASSUME NEW p \in Procs PROVE ModeInv(p, call'[p], fixed')
    <3>1. /\ call'[p].pc = call[p].pc
          /\ call'[p].strayed = (call[p].strayed \/ call[p].pc # "idle")
      BY <1>3, AddrmodeSetStep, Zenon DEF SetsStrayed
    <3> QED BY <3>1 DEF ModeInv, Framed
  <2> QED BY <2>1 DEF Modes
<1>4. ASSUME Sweeps PROVE Modes'
  <2>1. ASSUME NEW p \in Procs PROVE ModeInv(p, call'[p], fixed')
    <3>1. /\ call'[p].pc = call[p].pc /\ call'[p].strayed = call[p].strayed
          /\ call'[p].mode = call[p].mode /\ call'[p].req = call[p].req /\ fixed' = fixed
      BY <1>4, SweepStep, Zenon DEF Unswept, SameBuffer
    <3>2. ModeInv(p, call[p], fixed)
      BY DEF Modes
    <3> QED BY <3>1, <3>2, Zenon DEF ModeInv
  <2> QED BY <2>1 DEF Modes
<1>5. ASSUME UNCHANGED pathVars PROVE Modes'
  BY <1>5 DEF pathVars, Modes
<1>6. ASSUME NEW p \in Procs, HostStep(p) PROVE Modes'
  BY <1>2, <1>6 DEF Works
<1>7. ASSUME NEW p \in GuestProcs, GuestStep(p) PROVE Modes'
  BY <1>2, <1>7 DEF Works, Procs
<1>8. ASSUME NEW p \in HostProcs, LocalRefused(p) \/ MapLocal(p) PROVE Modes'
  BY <1>2, <1>8 DEF Works, Procs
<1> QED BY <1>1, <1>3, <1>4, <1>5, <1>6, <1>7, <1>8 DEF PathNext, Sweeps
=============================================================================
