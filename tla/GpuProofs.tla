------------------------------- MODULE GpuProofs -------------------------------
(***************************************************************************)
(* Machine-checked properties of the GPU manager (gpu_comm.c) and of the   *)
(* fix-up module (fh_fixup_mod.c).                                         *)
(***************************************************************************)
EXTENDS GpuManager, FhFixup, TLAPS

-----------------------------------------------------------------------------
(* The table of handles.                                                   *)

GpuTypeOK ==
  /\ handles \in [0..HandlesMax -> Nat \cup {NoHandle}]
  /\ handleI \in Nat
  /\ opened \in Nat
  /\ live \in SUBSET Nat
  /\ files \in SUBSET [fd: 0..HandlesMax, h: Nat]
  /\ torn \in [handles: SUBSET Nat, table: BOOLEAN]

(* As long as the table has not been overrun: no handle stands in it twice *)
(* or behind its end, gopen never returns one that is still known, and the *)
(* descriptors of the guest lead to the handles of their opens.            *)
TableInv ==
  /\ handleI <= HandlesMax
  /\ \A i \in 0..HandlesMax :
       handles[i] # NoHandle => i < handleI /\ handles[i] <= opened
  /\ \A i, j \in 0..HandlesMax :
       handles[i] = handles[j] /\ handles[i] # NoHandle => i = j
  /\ \A h \in live :
       /\ h <= opened
       /\ h \in torn.handles \/ \E i \in 0..HandlesMax : handles[i] = h
  /\ \A f \in files :
       f.fd < handleI /\ handles[f.fd] = f.h /\ f.h \in live

GpuInv == GpuTypeOK /\ (~torn.table => TableInv)

LEMMA GpuStart == GpuInit => GpuInv
BY GpuConstants DEF GpuInit, GpuInv, GpuTypeOK, TableInv

(* A step that leaves the table, the files and gdev's handles alone.       *)
LEMMA SameTable ==
  ASSUME GpuInv, UNCHANGED <<handles, handleI, opened, live, files, torn>>
  PROVE  GpuInv'
BY DEF GpuInv, GpuTypeOK, TableInv

LEMMA SetupTable ==
  ASSUME GpuInv, Setup \/ Teardown PROVE GpuInv'
<1> USE GpuConstants
<1>1. /\ handles' = [i \in 0..HandlesMax |-> IF i \in Table THEN NoHandle ELSE handles[i]]
      /\ handleI' = 0 /\ files' = {} /\ files = {}
      /\ UNCHANGED opened
  BY DEF Setup, Teardown
<1>2. /\ live' \subseteq live
      /\ torn'.table = torn.table
      /\ torn' \in [handles: SUBSET Nat, table: BOOLEAN]
      /\ \A h \in live' : h \in torn.handles => h \in torn'.handles
      /\ \A h \in live' : (\E i \in Table : handles[i] = h) => h \in torn'.handles
  <2>1. CASE Setup
    <3>1. torn' = [torn EXCEPT !.handles = @ \cup ({handles[i] : i \in Table} \ {NoHandle})]
      BY <2>1 DEF Setup
    <3>2. ({handles[i] : i \in Table} \ {NoHandle}) \subseteq Nat
      BY DEF GpuInv, GpuTypeOK, Table
    <3>3. /\ torn'.table = torn.table
          /\ torn'.handles = torn.handles \cup ({handles[i] : i \in Table} \ {NoHandle})
          /\ torn' \in [handles: SUBSET Nat, table: BOOLEAN]
      BY <3>1, <3>2 DEF GpuInv, GpuTypeOK
    <3>4. live' = live /\ live \subseteq Nat
      BY <2>1 DEF Setup, GpuInv, GpuTypeOK
    <3> QED BY <3>3, <3>4
  <2>2. CASE Teardown
    <3> DEFINE held == {handles[i] : i \in Table} \ {NoHandle}
    <3>1. PICK failed \in SUBSET held :
            /\ live' = live \ (held \ failed)
            /\ torn' = [torn EXCEPT !.handles = @ \cup failed]
      BY <2>2 DEF Teardown
    <3>2. held \subseteq Nat
      BY DEF GpuInv, GpuTypeOK, Table
    <3>3. live \subseteq Nat /\ torn \in [handles: SUBSET Nat, table: BOOLEAN]
      BY DEF GpuInv, GpuTypeOK
    <3>4. \A h \in live : (\E i \in Table : handles[i] = h) => h \in held
      BY <3>3
    <3> HIDE DEF held
    <3>5. /\ torn'.table = torn.table /\ torn'.handles = torn.handles \cup failed
          /\ torn' \in [handles: SUBSET Nat, table: BOOLEAN]
      BY <3>1, <3>2, <3>3
    <3> QED BY <3>1, <3>4, <3>5
  <2> QED BY <2>1, <2>2
<1>3. GpuTypeOK'
  BY <1>1, <1>2 DEF GpuInv, GpuTypeOK
<1>4. ASSUME ~torn.table PROVE TableInv'
  <2>1. TableInv
    BY <1>4 DEF GpuInv
  <2>2. \A i \in 0..HandlesMax : handles[i] # NoHandle => i \in Table
    BY <2>1 DEF TableInv, GpuInv, GpuTypeOK, Table
  <2>3. \A i \in 0..HandlesMax : handles'[i] = NoHandle
    BY <1>1, <2>2
  <2>4. ASSUME NEW h \in live' PROVE h <= opened' /\ h \in torn'.handles
    <3>1. h \in live /\ h # NoHandle
      BY <1>2, <2>4 DEF GpuInv, GpuTypeOK
    <3> QED BY <1>1, <1>2, <2>1, <2>2, <2>4, <3>1 DEF TableInv
  <2> QED BY <1>1, <2>3, <2>4 DEF TableInv
<1> QED BY <1>2, <1>3, <1>4 DEF GpuInv

LEMMA OpenTable ==
  ASSUME GpuInv, OpenDev PROVE GpuInv'
<1> USE GpuConstants
<1> DEFINE h == opened + 1
<1>1. /\ handleI <= HandlesMax /\ handleI' = handleI + 1
      /\ opened' = h /\ live' = live \cup {h}
      /\ handles' = [handles EXCEPT ![handleI] = h]
      /\ files' = files \cup {[fd |-> handleI, h |-> h]}
      /\ torn' = [torn EXCEPT !.table = @ \/ handleI >= HandlesMax]
  BY DEF OpenDev
<1>2. /\ h \in Nat /\ h > opened /\ handleI \in 0..HandlesMax
      /\ handles'[handleI] = h
      /\ \A i \in 0..HandlesMax : i # handleI => handles'[i] = handles[i]
      /\ torn'.handles = torn.handles
      /\ ~torn'.table => ~torn.table /\ handleI < HandlesMax
      /\ torn' \in [handles: SUBSET Nat, table: BOOLEAN]
  <2>1. /\ h \in Nat /\ h > opened /\ handleI \in 0..HandlesMax
        /\ handles'[handleI] = h
        /\ \A i \in 0..HandlesMax : i # handleI => handles'[i] = handles[i]
    BY <1>1 DEF GpuInv, GpuTypeOK
  <2>2. torn \in [handles: SUBSET Nat, table: BOOLEAN] /\ handleI \in Nat
    BY DEF GpuInv, GpuTypeOK
  <2>3. CASE handleI >= HandlesMax
    <3>1. torn' = [torn EXCEPT !.table = TRUE]
      BY <1>1, <2>3
    <3> QED BY <2>1, <2>2, <2>3, <3>1
  <2>4. CASE ~(handleI >= HandlesMax)
    <3>1. torn' = [torn EXCEPT !.table = torn.table]
      BY <1>1, <2>2, <2>4
    <3>2. torn' = torn
      BY <2>2, <3>1
    <3> QED BY <2>1, <2>2, <2>4, <3>2
  <2> QED BY <2>3, <2>4
<1>3. GpuTypeOK'
  BY <1>1, <1>2 DEF GpuInv, GpuTypeOK
<1>4. ASSUME ~torn'.table PROVE TableInv'
  <2>1. TableInv /\ handleI < HandlesMax
    BY <1>2, <1>4 DEF GpuInv
  <2>2. /\ opened \in Nat /\ handleI \in Nat
        /\ handles \in [0..HandlesMax -> Nat \cup {NoHandle}]
        /\ files \in SUBSET [fd: 0..HandlesMax, h: Nat] /\ live \in SUBSET Nat
    BY DEF GpuInv, GpuTypeOK
  <2>3. handleI' <= HandlesMax
    BY <1>1, <2>1, <2>2
  <2>4. ASSUME NEW i \in 0..HandlesMax, handles'[i] # NoHandle
        PROVE  i < handleI' /\ handles'[i] <= opened'
    BY <1>1, <1>2, <2>1, <2>2, <2>4 DEF TableInv
  <2>5. ASSUME NEW i \in 0..HandlesMax, NEW j \in 0..HandlesMax,
               handles'[i] = handles'[j], handles'[i] # NoHandle
        PROVE  i = j
    <3>1. \A k \in 0..HandlesMax : handles[k] # h
      BY <1>2, <2>1, <2>2 DEF TableInv
    <3> QED BY <1>2, <2>1, <2>5, <3>1 DEF TableInv
  <2>6. ASSUME NEW g \in live'
        PROVE  /\ g <= opened'
               /\ g \in torn'.handles \/ \E i \in 0..HandlesMax : handles'[i] = g
    <3>1. CASE g = h
      BY <1>1, <1>2, <3>1
    <3>2. CASE g \in live
      <4>1. g <= opened' /\ handles[handleI] = NoHandle /\ g # NoHandle
        BY <1>1, <1>2, <2>1, <2>2, <3>2 DEF TableInv
      <4> QED BY <1>2, <2>1, <3>2, <4>1 DEF TableInv
    <3> QED BY <1>1, <2>6, <3>1, <3>2
  <2>7. ASSUME NEW f \in files'
        PROVE  f.fd < handleI' /\ handles'[f.fd] = f.h /\ f.h \in live'
    <3>1. CASE f = [fd |-> handleI, h |-> h]
      BY <1>1, <1>2, <2>2, <3>1
    <3>2. CASE f \in files
      <4>1. f.fd < handleI /\ handles[f.fd] = f.h /\ f.h \in live /\ f.fd \in Nat
        BY <2>1, <2>2, <3>2 DEF TableInv
      <4>2. f.fd \in 0..HandlesMax /\ f.fd # handleI
        BY <2>1, <2>2, <4>1
      <4> QED BY <1>1, <1>2, <2>2, <4>1, <4>2
    <3> QED BY <1>1, <2>7, <3>1, <3>2
  <2> QED BY <2>3, <2>4, <2>5, <2>6, <2>7 DEF TableInv
<1> QED BY <1>3, <1>4 DEF GpuInv

LEMMA CloseTable ==
  ASSUME GpuInv, NEW f \in files, CloseDev(f) PROVE GpuInv'
<1> USE GpuConstants
<1> DEFINE h == Get(f.fd)
<1>1. /\ h # NoHandle
      /\ files' = files \ {f}
      /\ handles' = [handles EXCEPT ![f.fd] = NoHandle]
      /\ UNCHANGED <<handleI, opened>>
      /\ \/ live' = live \ {h} /\ UNCHANGED torn
         \/ torn' = [torn EXCEPT !.handles = @ \cup {h}] /\ UNCHANGED live
  BY DEF CloseDev
<1>2. f.fd \in 0..handleI - 1 /\ h = handles[f.fd]
  BY <1>1 DEF Get
<1> HIDE DEF h
<1>3. f.fd \in 0..HandlesMax => h \in Nat
  BY <1>1, <1>2 DEF GpuInv, GpuTypeOK
<1>4. f.fd \in 0..HandlesMax
  BY DEF GpuInv, GpuTypeOK
<1>5. /\ torn'.table = torn.table
      /\ torn.handles \subseteq torn'.handles
      /\ torn' \in [handles: SUBSET Nat, table: BOOLEAN]
      /\ live' \subseteq live
      /\ h \in live' => h \in torn'.handles
  BY <1>1, <1>3, <1>4 DEF GpuInv, GpuTypeOK
<1>6. GpuTypeOK'
  BY <1>1, <1>5 DEF GpuInv, GpuTypeOK
<1>7. ASSUME ~torn.table PROVE TableInv'
  <2>1. TableInv
    BY <1>7 DEF GpuInv
  <2>2. /\ handles'[f.fd] = NoHandle
        /\ \A i \in 0..HandlesMax : i # f.fd => handles'[i] = handles[i]
    BY <1>1, <1>4 DEF GpuInv, GpuTypeOK
  <2>3. ASSUME NEW g \in live'
        PROVE  /\ g <= opened
               /\ g \in torn'.handles \/ \E i \in 0..HandlesMax : handles'[i] = g
    BY <1>2, <1>5, <2>1, <2>2, <2>3 DEF TableInv
  <2>4. ASSUME NEW e \in files'
        PROVE  e.fd < handleI /\ handles'[e.fd] = e.h /\ e.h \in live'
    <3>1. /\ e \in files /\ e # f
          /\ e.fd < handleI /\ handles[e.fd] = e.h /\ e.h \in live
          /\ handles[f.fd] = f.h
          /\ e \in [fd: 0..HandlesMax, h: Nat] /\ f \in [fd: 0..HandlesMax, h: Nat]
      BY <1>1, <2>1, <2>4 DEF TableInv, GpuInv, GpuTypeOK
    <3>2. e.fd # f.fd
      BY <3>1
    <3>3. e.fd \in 0..HandlesMax /\ e.h # NoHandle
      BY <2>1, <3>1 DEF TableInv, GpuInv, GpuTypeOK
    <3>4. e.h # h
      BY <1>2, <1>4, <2>1, <3>1, <3>2, <3>3 DEF TableInv
    <3> QED BY <1>1, <2>2, <3>1, <3>2, <3>3, <3>4
  <2>5. /\ \A i \in 0..HandlesMax :
             handles'[i] # NoHandle => i < handleI /\ handles'[i] <= opened
        /\ \A i, j \in 0..HandlesMax :
             handles'[i] = handles'[j] /\ handles'[i] # NoHandle => i = j
    BY <2>1, <2>2 DEF TableInv
  <2> QED BY <1>1, <2>1, <2>3, <2>4, <2>5 DEF TableInv
<1> QED BY <1>5, <1>6, <1>7 DEF GpuInv

LEMMA GpuStep == GpuInv /\ [GpuNext]_gpuVars => GpuInv'
<1> SUFFICES ASSUME GpuInv, [GpuNext]_gpuVars PROVE GpuInv'
  OBVIOUS
<1>1. CASE Reboot
  BY <1>1 DEF Reboot, GpuInv, GpuTypeOK, TableInv
<1>2. ASSUME NEW f \in files, NEW c \in GpuCopies,
             Gmalloc(f) \/ Gfree(f) \/ Launch(f) \/ Asks(f) \/ MemcpyToDev(f, c)
             \/ MemcpyFromDev(f, c)
      PROVE  GpuInv'
  BY <1>2, SameTable DEF Gmalloc, Gfree, Launch, Asks, MemcpyToDev, MemcpyFromDev,
                         gpuVars
<1>3. ASSUME NEW f \in files, Gmalloc(f) \/ Gfree(f) \/ Launch(f) \/ Asks(f)
      PROVE  GpuInv'
  BY <1>3, SameTable DEF Gmalloc, Gfree, Launch, Asks, gpuVars
<1>4. ASSUME NEW p \in GpuPages, GuestWrites(p) PROVE GpuInv'
  BY <1>4, SameTable DEF GuestWrites
<1>5. CASE UNCHANGED gpuVars
  BY <1>5, SameTable DEF gpuVars
<1> QED BY <1>1, <1>2, <1>3, <1>4, <1>5, SetupTable, OpenTable, CloseTable DEF GpuNext

LEMMA GpuInvariant == GpuSpec => []GpuInv
BY GpuStart, GpuStep, PTL DEF GpuSpec

(* Every file of the guest leads to the open handle of its own gopen, and  *)
(* every other handle that gdev holds for the manager was left behind by a *)
(* guest without teardown or a gclose that failed, for any sizes and any   *)
(* number of opens, unless an open has run over the table                  *)
(* (util__get_gdev_handle, fault__open_device, fault__close_device).       *)
THEOREM HandlesAreOwn == GpuSpec => []HandleOwn
<1>1. GpuInv => HandleOwn
  <2> SUFFICES ASSUME GpuInv, ~torn.table PROVE HandleOwn
    BY DEF HandleOwn
  <2>1. /\ TableInv
        /\ handles \in [0..HandlesMax -> Nat \cup {NoHandle}]
        /\ handleI \in Nat /\ live \in SUBSET Nat
        /\ files \in SUBSET [fd: 0..HandlesMax, h: Nat]
        /\ NoHandle \notin Nat /\ HandlesMax \in Nat
    BY GpuConstants DEF GpuInv, GpuTypeOK
  <2>2. ASSUME NEW f \in files PROVE Get(f.fd) = f.h /\ f.h \in live
    <3>1. f.fd \in 0..handleI - 1
      BY <2>1 DEF TableInv
    <3> QED BY <2>1, <3>1 DEF TableInv, Get
  <2>3. ASSUME NEW h \in live, h \notin torn.handles
        PROVE  \E i \in 0..handleI - 1 : handles[i] = h
    <3>1. PICK i \in 0..HandlesMax : handles[i] = h
      BY <2>1, <2>3 DEF TableInv
    <3>2. i \in 0..handleI - 1
      BY <2>1, <2>3, <3>1 DEF TableInv
    <3> QED BY <3>1, <3>2
  <2> QED BY <2>2, <2>3 DEF HandleOwn
<1> QED BY <1>1, GpuInvariant, PTL

-----------------------------------------------------------------------------
(* Where the bytes of a copy lie.                                          *)

LEMMA DivisionUnique ==
  ASSUME NEW P \in Nat \ {0}, NEW a \in Nat, NEW b \in Nat,
         NEW r \in 0..P - 1, NEW s \in 0..P - 1, P * a + r = P * b + s
  PROVE  a = b /\ r = s
<1>1. ASSUME NEW m \in Int, NEW n \in Int, m < n PROVE (m + 1) * P <= n * P
  BY <1>1
<1>2. /\ (a + 1) * P = P * a + P /\ (b + 1) * P = P * b + P
      /\ a * P = P * a /\ b * P = P * b
  OBVIOUS
<1> QED BY <1>1, <1>2

(* Byte k lies in the page i of the list that covers it, and in no other.  *)
LEMMA PageOfByte ==
  ASSUME NEW k \in Nat \ {0}, NEW i \in Nat \ {0}
  PROVE  /\ InPage(k) \in 1..PageBytes
         /\ (k - 1) \div PageBytes + 1 \in Nat \ {0}
         /\ (i - 1) * PageBytes < k /\ k <= i * PageBytes
              <=> i = (k - 1) \div PageBytes + 1
         /\ (i - 1) * PageBytes < k /\ k <= i * PageBytes
              => k = (i - 1) * PageBytes + InPage(k)
<1> DEFINE P == PageBytes
           q == (k - 1) \div P
           r == (k - 1) % P
<1>0. P \in Nat \ {0} /\ k - 1 \in Nat
  BY GpuConstants
<1>1. q \in Nat /\ r \in 0..P - 1 /\ k - 1 = P * q + r
  <2> DEFINE n == k - 1
  <2>1. n \in Nat /\ q = n \div P /\ r = n % P
    BY <1>0
  <2> HIDE DEF n, P, q, r
  <2>2. q \in Nat /\ r \in 0..P - 1
    BY <1>0, <2>1
  <2>3. n = P * q + r
    BY <1>0, <2>1, <2>2
  <2> QED BY <2>2, <2>3 DEF n
<1>2. InPage(k) = r + 1
  BY DEF InPage
<1> HIDE DEF P, q, r
<1>3. ASSUME (i - 1) * P < k, k <= i * P
      PROVE  i - 1 = q /\ k = (i - 1) * P + (r + 1)
  <2> DEFINE s == k - 1 - P * (i - 1)
  <2>1. P * (i - 1) \in Int /\ (i - 1) * P = P * (i - 1) /\ i * P = P * (i - 1) + P
    BY <1>0
  <2>2. s \in 0..P - 1 /\ k - 1 = P * (i - 1) + s
    BY <1>0, <1>3, <2>1
  <2> HIDE DEF s
  <2> DEFINE m == i - 1
  <2>3. m \in Nat /\ P * q + r = P * m + s
    BY <1>1, <2>2
  <2>4. q = m /\ r = s
    <3> HIDE DEF m
    <3> QED BY <1>0, <1>1, <2>2, <2>3, DivisionUnique
  <2>5. q = i - 1 /\ r = s
    BY <2>4
  <2> QED BY <1>0, <1>1, <2>1, <2>2, <2>5
<1>4. ASSUME i = q + 1 PROVE (i - 1) * P < k /\ k <= i * P
  <2>1. (i - 1) * P = P * q /\ i * P = P * q + P /\ P * q \in Int
    BY <1>0, <1>1, <1>4
  <2> QED BY <1>0, <1>1, <2>1
<1>5. r + 1 \in 1..P /\ q + 1 \in Nat \ {0} /\ (i = q + 1 <=> i - 1 = q)
  BY <1>0, <1>1
<1> QED BY <1>2, <1>3, <1>4, <1>5 DEF P, q, r

LEMMA CopyShape ==
  ASSUME NEW c \in GpuCopies
  PROVE  /\ c.pages \in Seq(GpuPages) /\ IsInjective(c.pages)
         /\ c.size \in Nat /\ c.size <= Len(c.pages) * PageBytes
         /\ Len(c.pages) \in Nat /\ DOMAIN c.pages = 1..Len(c.pages)
         /\ PageBytes \in Nat \ {0}
<1>1. /\ c.pages \in Seq(GpuPages) /\ IsInjective(c.pages)
      /\ c.size \in 1..Len(c.pages) * PageBytes
      /\ PageBytes \in Nat \ {0}
  BY GpuConstants
<1>2. Len(c.pages) \in Nat /\ DOMAIN c.pages = 1..Len(c.pages)
  BY <1>1
<1> QED BY <1>1, <1>2

(* util__copy_from_target reads the guest's buffer.                        *)
LEMMA BufferRead ==
  ASSUME NEW c \in GpuCopies PROVE FromTarget(c) = GuestBuffer(memory, c)
<1> DEFINE at(k) == (k - 1) \div PageBytes + 1
           found(k) == CHOOSE j \in DOMAIN c.pages : k \in Part(c, j)
<1>0. /\ c.size \in Nat /\ c.size <= Len(c.pages) * PageBytes
      /\ Len(c.pages) \in Nat /\ DOMAIN c.pages = 1..Len(c.pages)
      /\ PageBytes \in Nat \ {0}
  BY CopyShape
<1>1. ASSUME NEW k \in 1..c.size PROVE found(k) = at(k)
  <2>0. k \in Nat \ {0}
    BY <1>0
  <2>1. at(k) \in Nat \ {0}
    BY <2>0, PageOfByte
  <2>2. ASSUME NEW j \in DOMAIN c.pages PROVE k \in Part(c, j) <=> j = at(k)
    <3>1. j \in Nat \ {0}
      BY <1>0
    <3> QED BY <2>0, <3>1, PageOfByte DEF Part
  <2>3. at(k) \in DOMAIN c.pages
    <3> HIDE DEF at
    <3>1. (at(k) - 1) * PageBytes < k
      BY <2>0, <2>1, PageOfByte DEF at
    <3>2. (at(k) - 1) * PageBytes < Len(c.pages) * PageBytes
      BY <1>0, <2>1, <3>1
    <3>3. ASSUME NEW m \in Int, NEW n \in Int, m * PageBytes < n * PageBytes PROVE m < n
      BY <1>0, <3>3
    <3>4. at(k) - 1 < Len(c.pages)
      BY <1>0, <2>1, <3>2, <3>3
    <3> QED BY <1>0, <2>1, <3>4
  <2> HIDE DEF at
  <2> QED BY <2>2, <2>3
<1>2. FromTarget(c) = [k \in 1..c.size |-> memory[c.pages[found(k)]][InPage(k)]]
  BY DEF FromTarget
<1>3. GuestBuffer(memory, c) = [k \in 1..c.size |-> memory[c.pages[at(k)]][InPage(k)]]
  BY DEF GuestBuffer
<1> HIDE DEF at, found
<1> QED BY <1>1, <1>2, <1>3, Zenon

(* util__copy_to_target, when it copies all pages, assigns to it.          *)
LEMMA BufferWrite ==
  ASSUME NEW c \in GpuCopies, NEW buf
  PROVE  ToTarget(c, buf, Len(c.pages)) = Assigned(memory, c, buf)
<1> DEFINE N == Len(c.pages)
           at(p, b) == {k \in 1..c.size : InPage(k) = b
                          /\ \E i \in 1..N : c.pages[i] = p /\ k \in Part(c, i)}
           new(p, b) == IF at(p, b) = {} THEN memory[p][b] ELSE buf[Max(at(p, b))]
           inside(p, b) == \E i \in DOMAIN c.pages :
                             c.pages[i] = p /\ (i - 1) * PageBytes + b <= c.size
           place(p) == CHOOSE i \in DOMAIN c.pages : c.pages[i] = p
           want(p, b) == IF inside(p, b) THEN buf[(place(p) - 1) * PageBytes + b]
                         ELSE memory[p][b]
<1>0. /\ c.size \in Nat /\ N \in Nat /\ DOMAIN c.pages = 1..N
      /\ PageBytes \in Nat \ {0} /\ IsInjective(c.pages)
  BY CopyShape
<1>1. ASSUME NEW i \in 1..N, NEW b \in 1..PageBytes,
             (i - 1) * PageBytes + b <= c.size
      PROVE  (i - 1) * PageBytes + b \in at(c.pages[i], b)
  <2> DEFINE k == (i - 1) * PageBytes + b
  <2>1. /\ k \in Nat \ {0} /\ i \in Nat \ {0}
        /\ (i - 1) * PageBytes < k /\ k <= i * PageBytes
    <3>1. (i - 1) * PageBytes \in Nat /\ i * PageBytes = (i - 1) * PageBytes + PageBytes
      BY <1>0
    <3> QED BY <1>0, <3>1
  <2>2. k = (i - 1) * PageBytes + InPage(k) /\ InPage(k) \in 1..PageBytes
    <3> HIDE DEF k
    <3> QED BY <2>1, PageOfByte
  <2>3. InPage(k) = b
    <3>1. (i - 1) * PageBytes \in Int
      BY <1>0
    <3> QED BY <1>0, <2>2, <3>1
  <2> HIDE DEF k
  <2>4. k \in 1..c.size
    BY <1>0, <1>1, <2>1 DEF k
  <2>5. k \in Part(c, i)
    BY <2>1, <2>4 DEF Part
  <2> QED BY <2>3, <2>4, <2>5 DEF k
<1>2. ASSUME NEW p, NEW b \in 1..PageBytes, NEW k \in at(p, b)
      PROVE  \E i \in 1..N : c.pages[i] = p /\ k = (i - 1) * PageBytes + b
  <2>1. PICK i \in 1..N : c.pages[i] = p /\ k \in Part(c, i)
    OBVIOUS
  <2>2. k \in Nat \ {0} /\ i \in Nat \ {0}
    BY <1>0, <2>1
  <2>3. (i - 1) * PageBytes < k /\ k <= i * PageBytes
    BY <2>1 DEF Part
  <2>4. k = (i - 1) * PageBytes + InPage(k)
    BY <2>2, <2>3, PageOfByte
  <2> QED BY <1>2, <2>1, <2>4
<1>3. ASSUME NEW p, NEW i \in 1..N, c.pages[i] = p
      PROVE  place(p) = i /\ \A j \in 1..N : c.pages[j] = p => j = i
  <2>1. \A j \in 1..N : c.pages[j] = p => j = i
    BY <1>0, <1>3 DEF IsInjective
  <2> QED BY <1>0, <1>3, <2>1
<1> HIDE DEF N, at, place
<1>4. ASSUME NEW p \in GpuPages, NEW b \in 1..PageBytes PROVE new(p, b) = want(p, b)
  <2>1. CASE inside(p, b)
    <3>1. PICK i \in 1..N : c.pages[i] = p /\ (i - 1) * PageBytes + b <= c.size
      BY <1>0, <2>1
    <3> DEFINE k == (i - 1) * PageBytes + b
    <3>2. k \in at(p, b)
      BY <1>1, <1>4, <3>1
    <3>3. \A m \in at(p, b) : m = k
      BY <1>2, <1>3, <1>4, <3>1
    <3>4. k \in Int
      BY <1>0, <1>4
    <3> HIDE DEF k
    <3>5. at(p, b) = {k}
      BY <3>2, <3>3
    <3>6. Max(at(p, b)) = k
      BY <3>4, <3>5 DEF Max
    <3>7. place(p) = i
      BY <1>3, <3>1
    <3> QED BY <2>1, <3>2, <3>6, <3>7 DEF k
  <2>2. CASE ~inside(p, b)
    <3>1. ASSUME NEW k \in at(p, b) PROVE FALSE
      <4>1. PICK i \in 1..N : c.pages[i] = p /\ k = (i - 1) * PageBytes + b
        BY <1>2, <1>4, <3>1
      <4>2. k <= c.size
        BY <1>0, <3>1 DEF at
      <4> QED BY <1>0, <2>2, <4>1, <4>2
    <3> QED BY <2>2, <3>1
  <2> QED BY <2>1, <2>2
<1>5. ToTarget(c, buf, N) = [p \in GpuPages |-> [b \in 1..PageBytes |-> new(p, b)]]
  BY DEF ToTarget, at, N
<1>6. Assigned(memory, c, buf) = [p \in GpuPages |-> [b \in 1..PageBytes |-> want(p, b)]]
  BY DEF Assigned, place
<1> HIDE DEF new, want
<1>7. \A p \in GpuPages : [b \in 1..PageBytes |-> new(p, b)] = [b \in 1..PageBytes |-> want(p, b)]
  BY <1>4, Zenon
<1>8. ToTarget(c, buf, N) = Assigned(memory, c, buf)
  BY <1>5, <1>6, <1>7, Zenon
<1> QED BY <1>8 DEF N

-----------------------------------------------------------------------------
(* What copies and kernels leave in guest and device memory.               *)

CopyInv ==
  /\ DOMAIN memory = GpuPages
  /\ ~torn.table => meant = [memory |-> memory, device |-> device]

LEMMA CopyStart == GpuInit => CopyInv
BY DEF GpuInit, CopyInv

(* A request that touches no memory.                                       *)
LEMMA SameMemory ==
  ASSUME CopyInv, UNCHANGED <<memory, device, meant>>, ~torn'.table => ~torn.table
  PROVE  CopyInv'
BY DEF CopyInv

(* A change of device memory that means the same.                          *)
LEMMA SameDevice ==
  ASSUME CopyInv, UNCHANGED <<memory, torn>>, NEW h, NEW g, NEW x, NEW y,
         device' = [device EXCEPT ![h] = x], meant' = [meant EXCEPT !.device[g] = y],
         ~torn.table => h = g /\ x = y
  PROVE  CopyInv'
<1> SUFFICES ASSUME ~torn.table PROVE meant' = [memory |-> memory, device |-> device']
  BY DEF CopyInv
<1>1. meant = [memory |-> memory, device |-> device]
  BY DEF CopyInv
<1>2. meant' = [meant EXCEPT !.device = [meant.device EXCEPT ![g] = y]]
  OBVIOUS
<1> QED BY <1>1, <1>2

LEMMA CopyStep == GpuInv /\ HandleOwn /\ CopyInv /\ [GpuNext]_gpuVars => CopyInv'
<1> SUFFICES ASSUME GpuInv, HandleOwn, CopyInv, [GpuNext]_gpuVars PROVE CopyInv'
  OBVIOUS
<1>0. torn \in [handles: SUBSET Nat, table: BOOLEAN]
  BY DEF GpuInv, GpuTypeOK
<1>1. CASE Setup \/ Teardown \/ Reboot \/ OpenDev
  <2>1. UNCHANGED <<memory, device, meant>>
    BY <1>1 DEF Setup, Teardown, Reboot, OpenDev
  <2>2. ~torn'.table => ~torn.table
    <3>1. CASE OpenDev
      <4>1. torn' = [torn EXCEPT !.table = torn.table \/ handleI >= HandlesMax]
        BY <3>1 DEF OpenDev
      <4>2. torn'.table = (torn.table \/ handleI >= HandlesMax)
        BY <1>0, <4>1
      <4> QED BY <4>2
    <3>2. CASE Setup
      BY <1>0, <3>2 DEF Setup
    <3>3. CASE Teardown
      <4>1. PICK failed : torn' = [torn EXCEPT !.handles = @ \cup failed]
        BY <3>3 DEF Teardown
      <4> QED BY <1>0, <4>1
    <3> QED BY <1>1, <3>1, <3>2, <3>3 DEF Reboot
  <2> QED BY <2>1, <2>2, SameMemory
<1>2. ASSUME NEW f \in files, CloseDev(f) PROVE CopyInv'
  <2>1. UNCHANGED <<memory, device, meant>> /\ torn'.table = torn.table
    BY <1>0, <1>2 DEF CloseDev
  <2> QED BY <2>1, SameMemory
<1>3. ASSUME NEW f \in files, Gmalloc(f) \/ Gfree(f) \/ Asks(f) PROVE CopyInv'
  BY <1>3, SameMemory DEF Gmalloc, Gfree, Asks, gpuVars
<1>4. ASSUME NEW f \in files, ~torn.table PROVE Get(f.fd) = f.h
  BY <1>4 DEF HandleOwn
<1>5. ~torn.table => meant.memory = memory /\ meant.device = device
  BY DEF CopyInv
<1>6. ASSUME NEW f \in files, Launch(f) PROVE CopyInv'
  <2> DEFINE step(m) == [b \in 1..DevSize |-> (m[b] + 1) % 3]
  <2>1. /\ device' = [device EXCEPT ![Get(f.fd)] = step(device[Get(f.fd)])]
        /\ meant' = [meant EXCEPT !.device[f.h] = step(meant.device[f.h])]
        /\ UNCHANGED <<memory, torn>>
    BY <1>6 DEF Launch
  <2>2. ~torn.table => step(device[Get(f.fd)]) = step(meant.device[f.h])
    BY <1>4, <1>5
  <2> HIDE DEF step
  <2> QED BY <1>4, <2>1, <2>2, SameDevice
<1>7. ASSUME NEW f \in files, NEW c \in GpuCopies, MemcpyToDev(f, c) PROVE CopyInv'
  <2> DEFINE h == Get(f.fd)
  <2>1. UNCHANGED <<memory, torn>>
    BY <1>7 DEF MemcpyToDev
  <2>2. CASE UNCHANGED <<device, meant>>
    BY <2>1, <2>2, SameMemory
  <2>3. CASE /\ device' = [device EXCEPT ![h] = ReplaceRange(device[h], c, FromTarget(c))]
             /\ meant' = [meant EXCEPT !.device[f.h] =
                   ReplaceRange(meant.device[f.h], c, GuestBuffer(meant.memory, c))]
    <3>1. ~torn.table => ReplaceRange(device[h], c, FromTarget(c))
                = ReplaceRange(meant.device[f.h], c, GuestBuffer(meant.memory, c))
      BY <1>4, <1>5, <1>7, BufferRead
    <3> QED BY <1>4, <2>1, <2>3, <3>1, SameDevice
  <2> QED BY <1>7, <2>2, <2>3 DEF MemcpyToDev
<1>8. ASSUME NEW f \in files, NEW c \in GpuCopies, MemcpyFromDev(f, c) PROVE CopyInv'
  <2> DEFINE h == Get(f.fd)
  <2>1. PICK n \in Copied(c) :
          /\ memory' = ToTarget(c, DeviceRange(device[h], c), n)
          /\ meant' = [meant EXCEPT !.memory =
               IF n < Len(c.pages) THEN memory'
               ELSE Assigned(meant.memory, c, DeviceRange(meant.device[f.h], c))]
    BY <1>8 DEF MemcpyFromDev
  <2>2. UNCHANGED <<device, torn>>
    BY <1>8 DEF MemcpyFromDev
  <2>3. DOMAIN memory' = GpuPages
    BY <2>1 DEF ToTarget
  <2>4. ~(n < Len(c.pages)) => n = Len(c.pages)
    BY <1>8, CopyShape DEF Copied
  <2>5. ASSUME ~torn.table PROVE meant' = [meant EXCEPT !.memory = memory']
    <3>1. CASE n < Len(c.pages)
      BY <2>1, <3>1
    <3>2. CASE ~(n < Len(c.pages))
      <4>1. h = f.h /\ meant.memory = memory /\ meant.device = device
        BY <1>4, <1>5, <2>5
      <4>2. memory' = Assigned(memory, c, DeviceRange(device[h], c))
        BY <1>8, <2>1, <2>4, <3>2, BufferWrite
      <4> QED BY <2>1, <3>2, <4>1, <4>2
    <3> QED BY <3>1, <3>2
  <2> QED BY <2>2, <2>3, <2>5 DEF CopyInv
<1>9. ASSUME NEW p \in GpuPages, GuestWrites(p) PROVE CopyInv'
  <2>1. /\ memory' = [memory EXCEPT ![p] = [b \in 1..PageBytes |-> b % 3]]
        /\ meant' = [meant EXCEPT !.memory[p] = memory'[p]]
        /\ UNCHANGED <<device, torn>>
    BY <1>9 DEF GuestWrites
  <2>2. DOMAIN memory' = GpuPages /\ memory'[p] = [b \in 1..PageBytes |-> b % 3]
    BY <1>9, <2>1 DEF CopyInv
  <2>3. ASSUME ~torn.table PROVE meant' = [memory |-> memory', device |-> device]
    <3>1. meant = [memory |-> memory, device |-> device]
      BY <2>3 DEF CopyInv
    <3>2. meant' = [meant EXCEPT !.memory = [meant.memory EXCEPT ![p] = memory'[p]]]
      BY <2>1
    <3>3. memory' = [memory EXCEPT ![p] = memory'[p]]
      BY <2>1, <2>2
    <3> QED BY <3>1, <3>2, <3>3
  <2> QED BY <2>1, <2>2, <2>3 DEF CopyInv
<1>10. CASE UNCHANGED gpuVars
  BY <1>10, SameMemory DEF gpuVars
<1> QED BY <1>1, <1>2, <1>3, <1>6, <1>7, <1>8, <1>9, <1>10 DEF GpuNext

(* In every order of opens, copies, kernels, failures and reboots the      *)
(* guest's pages and the device memory of every handle hold what the calls *)
(* of the guest mean: util__copy_from_target and util__copy_to_target move *)
(* every byte of a buffer to its place and no other, for any size of pages,*)
(* buffers and device memory, unless an open has run over the table.       *)
THEOREM CopiesAreExact == GpuSpec => []CopyExact
<1>1. CopyInv => CopyExact
  BY DEF CopyInv, CopyExact
<1> QED BY <1>1, CopyStart, CopyStep, GpuInvariant, HandlesAreOwn, PTL DEF GpuSpec
-----------------------------------------------------------------------------
(* The fix-up module.                                                      *)

Frames == (Callers \cup {"own", "none"}) \X Nat

InMap == {"lookup", "protect", "again", "resolve", "source", "save", "clear", "remap"}

CallerRecord ==
  [pc: InMap \cup {"closed", "idle", "unmap", "oops"}, list: Seq(TargetPages), i: Nat,
   split: BOOLEAN, entries: Seq(Frames), kept: Frames, stale: BOOLEAN]

FixTypeOK ==
  /\ tvma \in SUBSET TargetPages
  /\ pte \in [TargetPages -> Frames]
  /\ users \in Int
  /\ fix \in [Callers -> CallerRecord]
  /\ wild \in BOOLEAN

(* MAP holds one entry for every page before the one at hand, and entries  *)
(* always belong to a list that the caller has asked for.                  *)
EntriesInv ==
  \A c \in Callers :
    /\ fix[c].pc \in InMap =>
         /\ fix[c].list \in Requests[c]
         /\ fix[c].i = Len(fix[c].entries) /\ fix[c].i < Len(fix[c].list)
    /\ fix[c].entries # <<>> => fix[c].list \in Requests[c]
    /\ Len(fix[c].entries) <= Len(fix[c].list)

(* What MAP has kept of the page at hand could stand in its entry.         *)
KeptOK(f) == f.kept \in Possible(f.list[f.i + 1]) \ {NoTable}

KeptInv ==
  users > 0 /\ ~wild => \A c \in Callers : fix[c].pc \in {"clear", "remap"} => KeptOK(fix[c])

FixInv == FixTypeOK /\ EntriesInv /\ KeptInv /\ FixupExact

NoEntries(f) == f.entries = <<>>

(* Two records of a caller that differ in no more than their vma's age.    *)
Agree(f, g) ==
  f.pc = g.pc /\ f.list = g.list /\ f.i = g.i /\ f.entries = g.entries /\ f.kept = g.kept

LEMMA FrameFacts ==
  /\ \A p \in TargetPages : Own(p) \in Frames
  /\ Cleared \in Frames /\ NoTable \in Frames
  /\ \A c \in Callers, i \in Nat :
       Source(c, i) \in Frames /\ Source(c, i) \notin {Cleared, NoTable}
BY FixConstants DEF Frames, Own, Source, Cleared, NoTable

LEMMA ListFacts ==
  ASSUME NEW c \in Callers, NEW list \in Requests[c]
  PROVE  /\ list \in Seq(TargetPages) /\ Len(list) \in Nat \ {0}
         /\ DOMAIN list = 1..Len(list)
         /\ \A i, j \in DOMAIN list : list[i] = list[j] => i = j
         /\ \A i \in DOMAIN list :
              list[i] \in TargetPages /\ Source(c, i) \in Possible(list[i])
         /\ \A d \in Callers, i \in DOMAIN list : d # c => Contested(d, list[i])
<1>1. list \in Seq(TargetPages) /\ list # <<>> /\ IsInjective(list)
  BY FixConstants
<1>2. Len(list) \in Nat \ {0} /\ DOMAIN list = 1..Len(list)
  BY <1>1
<1>3. \A i, j \in DOMAIN list : list[i] = list[j] => i = j
  BY <1>1 DEF IsInjective
<1>4. ASSUME NEW i \in DOMAIN list
      PROVE  list[i] \in TargetPages /\ Source(c, i) \in Possible(list[i])
  <2>1. list[i] \in TargetPages
    BY <1>1
  <2>2. Source(c, i) \in {Source(c, k) : k \in {j \in DOMAIN list : list[j] = list[i]}}
    OBVIOUS
  <2>3. Source(c, i) \in UNION {{Source(c, k) : k \in {j \in DOMAIN l : l[j] = list[i]}} :
                                l \in Requests[c]}
    BY <2>2
  <2> QED BY <2>1, <2>3 DEF Possible
<1>5. \A d \in Callers, i \in DOMAIN list : d # c => Contested(d, list[i])
  BY DEF Contested, Range
<1> QED BY <1>1, <1>2, <1>3, <1>4, <1>5

(* What a caller's MAP or UNMAP finds when it looks at the page at hand.   *)
LEMMA PageFacts ==
  ASSUME FixInv, NEW c \in Callers, fix[c].pc \in InMap
  PROVE  /\ fix[c].list \in Requests[c] /\ fix[c].i + 1 \in DOMAIN fix[c].list
         /\ fix[c].i = Len(fix[c].entries)
         /\ Page(c) \in TargetPages
         /\ Page(c) = fix[c].list[fix[c].i + 1]
<1>1. /\ fix[c].list \in Requests[c] /\ fix[c].i = Len(fix[c].entries)
      /\ fix[c].i < Len(fix[c].list) /\ fix[c].i \in Nat
  BY DEF FixInv, FixTypeOK, EntriesInv
<1>2. fix[c].i + 1 \in DOMAIN fix[c].list
  BY <1>1, ListFacts
<1> QED BY <1>1, <1>2, ListFacts DEF Page

LEMMA FixedType ==
  Fixed \in CallerRecord
<1> DEFINE empty == <<>>
<1>1. empty \in Seq(TargetPages) /\ empty \in Seq(Frames)
  OBVIOUS
<1>2. Fixed = [pc |-> "closed", list |-> empty, i |-> 0, split |-> FALSE, entries |-> empty,
               kept |-> Cleared, stale |-> FALSE]
  BY DEF Fixed
<1> HIDE DEF empty
<1> QED BY <1>1, <1>2, FrameFacts DEF CallerRecord

LEMMA FixStart == FixInit => FixInv
<1> SUFFICES ASSUME FixInit PROVE FixInv
  OBVIOUS
<1>1. /\ tvma = TargetPages /\ users = Threads
      /\ pte = [p \in TargetPages |-> IF p \in Untouched THEN NoTable ELSE Own(p)]
      /\ fix = [c \in Callers |-> Fixed] /\ wild = FALSE
  BY DEF FixInit
<1>2. Fixed \in CallerRecord
  BY FixedType
<1>3. FixTypeOK
  <2>1. wild \in BOOLEAN
    BY <1>1, Zenon
  <2>2. /\ tvma \in SUBSET TargetPages /\ users \in Int
        /\ pte \in [TargetPages -> Frames] /\ fix \in [Callers -> CallerRecord]
    BY <1>1, <1>2, FrameFacts, FixConstants
  <2> QED BY <2>1, <2>2 DEF FixTypeOK
<1>4. \A c \in Callers :
        /\ fix[c].pc \notin InMap /\ fix[c].entries = <<>> /\ fix[c].list = <<>>
  BY <1>1 DEF Fixed, InMap
<1>5. EntriesInv
  BY <1>4 DEF EntriesInv
<1>6. \A p \in TargetPages : pte[p] \in Possible(p)
  BY <1>1 DEF Possible
<1>7. \A c \in Callers : DOMAIN fix[c].entries = {}
  BY <1>4
<1>8. FixupExact
  BY <1>6, <1>7 DEF FixupExact
<1>9. KeptInv
  BY <1>4 DEF KeptInv, InMap
<1> QED BY <1>3, <1>5, <1>8, <1>9 DEF FixInv

(* A step that keeps the entries of a caller or drops them all, and        *)
(* changes only pages that are not the caller's alone.                     *)
LEMMA ShownKept ==
  ASSUME FixInv, users' > 0 /\ ~wild' => users > 0 /\ ~wild,
         tvma' \subseteq tvma,
         users' > 0 /\ ~wild' => \A p \in TargetPages : pte'[p] \in Possible(p),
         NEW S \in SUBSET Callers,
         \A c \in S : Len(fix'[c].entries) = 0,
         FixTypeOK',
         \A c \in Callers \ S :
           fix'[c].entries = fix[c].entries /\ fix'[c].list = fix[c].list,
         \A c \in Callers \ S : \A i \in DOMAIN fix[c].entries :
           LET p == fix[c].list[i]
           IN  users' > 0 /\ ~wild' /\ p \in tvma' /\ ~Contested(c, p) => pte'[p] = pte[p]
  PROVE  FixupExact'
<1> SUFFICES ASSUME users' > 0, ~wild',
                    NEW c \in Callers, NEW i \in DOMAIN fix'[c].entries
             PROVE  LET p == fix'[c].list[i]
                    IN /\ fix'[c].entries[i] \in Possible(p) \ {NoTable}
                       /\ p \in tvma' /\ ~Contested(c, p) => pte'[p] = Source(c, i)
  BY DEF FixupExact
<1>1. c \notin S
  BY DEF FixTypeOK, CallerRecord
<1>2. /\ i \in DOMAIN fix[c].entries
      /\ fix'[c].entries = fix[c].entries /\ fix'[c].list = fix[c].list
  BY <1>1
<1> QED BY <1>1, <1>2 DEF FixInv, FixupExact

(* The entries and what is kept of the page at hand, over a step of one    *)
(* caller that may make the vmas of others stale.                          *)
LEMMA EntriesStep ==
  ASSUME FixInv, NEW c \in Callers,
         \A d \in Callers \ {c} : Agree(fix'[d], fix[d]),
         fix'[c].pc \in InMap =>
           /\ fix'[c].list \in Requests[c]
           /\ fix'[c].i = Len(fix'[c].entries) /\ fix'[c].i < Len(fix'[c].list),
         fix'[c].entries # <<>> => fix'[c].list \in Requests[c],
         Len(fix'[c].entries) <= Len(fix'[c].list)
  PROVE  EntriesInv'
<1> SUFFICES ASSUME NEW d \in Callers
             PROVE  /\ fix'[d].pc \in InMap =>
                         /\ fix'[d].list \in Requests[d]
                         /\ fix'[d].i = Len(fix'[d].entries) /\ fix'[d].i < Len(fix'[d].list)
                    /\ fix'[d].entries # <<>> => fix'[d].list \in Requests[d]
                    /\ Len(fix'[d].entries) <= Len(fix'[d].list)
  BY DEF EntriesInv
<1>1. CASE d = c
  BY <1>1
<1>2. CASE d # c
  <2>1. Agree(fix'[d], fix[d])
    BY <1>2
  <2> QED BY <2>1 DEF Agree, FixInv, EntriesInv
<1> QED BY <1>1, <1>2

LEMMA KeptStep ==
  ASSUME FixInv, NEW c \in Callers,
         \A d \in Callers \ {c} : Agree(fix'[d], fix[d]),
         users' > 0 /\ ~wild' => users > 0 /\ ~wild,
         users' > 0 /\ ~wild' /\ fix'[c].pc \in {"clear", "remap"} => KeptOK(fix'[c])
  PROVE  KeptInv'
<1> SUFFICES ASSUME users' > 0, ~wild', NEW d \in Callers, fix'[d].pc \in {"clear", "remap"}
             PROVE  KeptOK(fix'[d])
  BY DEF KeptInv
<1>1. CASE d = c
  BY <1>1
<1>2. CASE d # c
  <2>1. Agree(fix'[d], fix[d])
    BY <1>2
  <2>2. KeptOK(fix[d])
    BY <2>1 DEF Agree, FixInv, KeptInv
  <2> QED BY <2>1, <2>2 DEF Agree, KeptOK
<1> QED BY <1>1, <1>2

(* A step of a caller that maps no frame: the page table stays or the page *)
(* at hand is cleared, the entries stay or are all dropped.                *)
LEMMA CallerStep ==
  ASSUME FixInv, NEW c \in Callers,
         fix' \in [Callers -> CallerRecord],
         \A d \in Callers \ {c} : Agree(fix'[d], fix[d]),
         \/ NoEntries(fix'[c])
         \/ fix'[c].entries = fix[c].entries /\ fix'[c].list = fix[c].list,
         fix'[c].pc \in InMap =>
           /\ fix'[c].list \in Requests[c]
           /\ fix'[c].i = Len(fix'[c].entries) /\ fix'[c].i < Len(fix'[c].list),
         users' > 0 /\ ~wild' /\ fix'[c].pc \in {"clear", "remap"} => KeptOK(fix'[c]),
         UNCHANGED tvma, users' \in Int, users' <= users,
         wild' \in BOOLEAN, wild => wild',
         \/ UNCHANGED pte
         \/ fix[c].pc \in InMap /\ pte' = [pte EXCEPT ![Page(c)] = Cleared]
  PROVE  FixInv'
<1>0. /\ users \in Int /\ pte \in [TargetPages -> Frames] /\ tvma \subseteq TargetPages
  BY DEF FixInv, FixTypeOK
<1>a. users' > 0 /\ ~wild' => users > 0 /\ ~wild
  BY <1>0
<1>1. FixTypeOK'
  BY <1>0, FrameFacts DEF FixTypeOK
<1>2. KeptInv'
  BY <1>a, KeptStep
<1>3. EntriesInv'
  <2>1. /\ Len(fix'[c].list) \in Nat
        /\ NoEntries(fix'[c]) => fix'[c].entries = <<>> /\ Len(fix'[c].entries) = 0
    BY DEF CallerRecord, NoEntries
  <2>2. /\ fix'[c].entries # <<>> => fix'[c].list \in Requests[c]
        /\ Len(fix'[c].entries) <= Len(fix'[c].list)
    BY <2>1 DEF FixInv, EntriesInv
  <2> QED BY <2>2, EntriesStep
<1>4. FixupExact'
  <2>1. users' > 0 /\ ~wild' => \A p \in TargetPages : pte'[p] \in Possible(p)
    BY <1>0, <1>a DEF FixInv, FixupExact, Possible
  <2>2. \A d \in Callers \ {c} : fix'[d].entries = fix[d].entries /\ fix'[d].list = fix[d].list
    BY DEF Agree
  <2>3. ASSUME NEW d \in Callers, NEW i \in DOMAIN fix[d].entries,
               d = c => fix'[c].entries = fix[c].entries /\ ~NoEntries(fix[c])
        PROVE  LET p == fix[d].list[i]
               IN  users' > 0 /\ ~wild' /\ p \in tvma' /\ ~Contested(d, p) => pte'[p] = pte[p]
    <3>1. CASE UNCHANGED pte
      BY <3>1
    <3>2. CASE fix[c].pc \in InMap /\ pte' = [pte EXCEPT ![Page(c)] = Cleared]
      <4>1. /\ Page(c) \in TargetPages /\ fix[c].list \in Requests[c]
            /\ fix[c].i + 1 \in DOMAIN fix[c].list /\ fix[c].i = Len(fix[c].entries)
            /\ Page(c) = fix[c].list[fix[c].i + 1]
        BY <3>2, PageFacts
      <4>2. \A q \in TargetPages : q # Page(c) => pte'[q] = pte[q]
        BY <1>0, <3>2
      <4>3. CASE d # c
        <5>1. Contested(d, Page(c))
          BY <4>1, <4>3, ListFacts
        <5> QED BY <1>0, <4>2, <5>1
      <4>4. CASE d = c
        <5>1. fix[c].entries \in Seq(Frames) /\ i \in 1..Len(fix[c].entries)
          BY <4>4 DEF FixInv, FixTypeOK, CallerRecord
        <5>2. i \in DOMAIN fix[c].list /\ i # fix[c].i + 1
          BY <4>1, <5>1, ListFacts
        <5>3. fix[c].list[i] # Page(c)
          BY <4>1, <5>2, ListFacts
        <5> QED BY <1>0, <4>2, <4>4, <5>3
      <4> QED BY <4>3, <4>4
    <3> QED BY <3>1, <3>2
  <2>4. CASE NoEntries(fix'[c])
    <3> DEFINE S == {c}
    <3>1. /\ S \in SUBSET Callers /\ \A d \in S : Len(fix'[d].entries) = 0
          /\ \A d \in Callers \ S :
               fix'[d].entries = fix[d].entries /\ fix'[d].list = fix[d].list
      BY <2>2, <2>4 DEF NoEntries
    <3>2. \A d \in Callers \ S : \A i \in DOMAIN fix[d].entries :
            LET p == fix[d].list[i]
            IN  users' > 0 /\ ~wild' /\ p \in tvma' /\ ~Contested(d, p) => pte'[p] = pte[p]
      BY <2>3
    <3> HIDE DEF S
    <3> QED BY <1>1, <1>a, <2>1, <3>1, <3>2, ShownKept
  <2>5. CASE ~NoEntries(fix'[c])
    <3>1. /\ \A d \in Callers : fix'[d].entries = fix[d].entries /\ fix'[d].list = fix[d].list
          /\ ~NoEntries(fix[c])
      BY <2>2, <2>5 DEF NoEntries
    <3> DEFINE S == {}
    <3>2. S \in SUBSET Callers /\ \A d \in S : Len(fix'[d].entries) = 0
      OBVIOUS
    <3>3. \A d \in Callers \ S : \A i \in DOMAIN fix[d].entries :
            LET p == fix[d].list[i]
            IN  users' > 0 /\ ~wild' /\ p \in tvma' /\ ~Contested(d, p) => pte'[p] = pte[p]
      BY <2>3, <3>1
    <3> HIDE DEF S
    <3> QED BY <1>1, <1>a, <2>1, <3>1, <3>2, <3>3, ShownKept
  <2> QED BY <2>4, <2>5
<1> QED BY <1>1, <1>2, <1>3, <1>4 DEF FixInv

(* Writing the record of one caller.                                       *)
LEMMA Written ==
  ASSUME FixInv, NEW c \in Callers, NEW f \in CallerRecord, fix' = [fix EXCEPT ![c] = f]
  PROVE  /\ fix' \in [Callers -> CallerRecord] /\ fix'[c] = f
         /\ \A d \in Callers \ {c} : fix'[d] = fix[d] /\ Agree(fix'[d], fix[d])
BY DEF FixInv, FixTypeOK, Agree

(* A vma that becomes stale changes nothing else of the callers.           *)
LEMMA WithoutAgrees ==
  ASSUME NEW f \in [Callers -> CallerRecord], NEW gone
  PROVE  /\ Without(f, gone) \in [Callers -> CallerRecord]
         /\ \A d \in Callers : Agree(Without(f, gone)[d], f[d])
<1>1. ASSUME NEW d \in Callers
      PROVE  /\ Without(f, gone)[d] \in CallerRecord
             /\ Agree(Without(f, gone)[d], f[d])
  <2> DEFINE g == [f[d] EXCEPT !.stale = TRUE]
  <2>1. f[d] \in CallerRecord
    OBVIOUS
  <2>2. g \in CallerRecord /\ Agree(g, f[d])
    BY <2>1 DEF CallerRecord, Agree
  <2>3. Without(f, gone)[d] \in {g, f[d]}
    BY DEF Without
  <2> QED BY <2>1, <2>2, <2>3 DEF Agree
<1> QED BY <1>1 DEF Without

(* A step that leaves the state of the target and the callers alone.       *)
LEMMA SameFix ==
  ASSUME FixInv, UNCHANGED <<tvma, pte, users, fix, wild>> PROVE FixInv'
BY DEF FixInv, FixTypeOK, EntriesInv, KeptInv, FixupExact

(* fops_open, fops_release and the beginning of UNMAP.                     *)
LEMMA FixFiles ==
  ASSUME FixInv, NEW c \in Callers, FixOpen(c) \/ FixRelease(c) \/ UnmapBegin(c)
  PROVE  FixInv'
<1>0. fix[c] \in CallerRecord
  BY DEF FixInv, FixTypeOK
<1>1. /\ UNCHANGED tvma /\ UNCHANGED pte /\ users' \in Int /\ users' <= users
      /\ wild' \in BOOLEAN /\ (wild => wild')
  BY DEF FixInv, FixTypeOK, FixOpen, FixRelease, UnmapBegin
<1>2. CASE FixOpen(c)
  <2> DEFINE f == [fix[c] EXCEPT !.pc = "idle"]
  <2>1. fix' = [fix EXCEPT ![c] = f]
    BY <1>2 DEF FixOpen
  <2>2. /\ f \in CallerRecord /\ f.pc \notin InMap /\ f.pc \notin {"clear", "remap"}
        /\ f.entries = fix[c].entries /\ f.list = fix[c].list
    BY <1>0 DEF CallerRecord, InMap
  <2> HIDE DEF f
  <2> QED BY <1>1, <2>1, <2>2, Written, CallerStep
<1>3. CASE FixRelease(c)
  <2>1. fix' = [fix EXCEPT ![c] = Fixed]
    BY <1>3 DEF FixRelease
  <2>2. /\ Fixed \in CallerRecord /\ Fixed.pc \notin InMap /\ NoEntries(Fixed)
        /\ Fixed.pc \notin {"clear", "remap"}
    BY FixedType DEF Fixed, InMap, NoEntries
  <2> QED BY <1>1, <2>1, <2>2, Written, CallerStep
<1>4. CASE UnmapBegin(c)
  <2> DEFINE f == [fix[c] EXCEPT !.pc = "unmap", !.i = 0]
  <2>1. fix' = [fix EXCEPT ![c] = f]
    BY <1>4 DEF UnmapBegin
  <2>2. /\ f \in CallerRecord /\ f.pc \notin InMap /\ f.pc \notin {"clear", "remap"}
        /\ f.entries = fix[c].entries /\ f.list = fix[c].list
    BY <1>0 DEF CallerRecord, InMap
  <2> HIDE DEF f
  <2> QED BY <1>1, <2>1, <2>2, Written, CallerStep
<1> QED BY <1>2, <1>3, <1>4

LEMMA FixMapBegin ==
  ASSUME FixInv, NEW c \in Callers, NEW list \in Requests[c], MapBegin(c, list)
  PROVE  FixInv'
<1>1. /\ UNCHANGED tvma /\ UNCHANGED pte /\ users' \in Int /\ users' <= users
      /\ wild' \in BOOLEAN /\ (wild => wild')
  BY DEF FixInv, FixTypeOK, MapBegin
<1>2. CASE UNCHANGED fix
  BY <1>2, SameFix DEF MapBegin
<1>3. CASE ~UNCHANGED fix
  <2> DEFINE f == [Fixed EXCEPT !.pc = "lookup", !.list = list]
  <2>1. fix' = [fix EXCEPT ![c] = f]
    BY <1>3 DEF MapBegin
  <2>2. list \in Seq(TargetPages) /\ Len(list) \in Nat \ {0}
    BY ListFacts
  <2>3. /\ f \in CallerRecord /\ NoEntries(f) /\ f.pc \notin {"clear", "remap"}
        /\ f.list = list /\ f.i = 0 /\ Len(f.entries) = 0
    BY <2>2, FixedType DEF Fixed, CallerRecord, InMap, NoEntries
  <2> HIDE DEF f
  <2>4. f.i = Len(f.entries) /\ f.i < Len(f.list) /\ f.list \in Requests[c]
    BY <2>2, <2>3
  <2> QED BY <1>1, <2>1, <2>3, <2>4, Written, CallerStep
<1> QED BY <1>2, <1>3

LEMMA ForgottenFacts ==
  ASSUME FixInv, NEW c \in Callers
  PROVE  /\ Forgotten(c) \in CallerRecord /\ NoEntries(Forgotten(c))
         /\ Forgotten(c).pc \notin InMap /\ Forgotten(c).pc \notin {"clear", "remap"}
         /\ Forgotten(c).entries = <<>> /\ Forgotten(c).list = fix[c].list
<1> DEFINE empty == <<>>
           f == [fix[c] EXCEPT !.pc = "idle", !.entries = empty, !.kept = Cleared, !.stale = FALSE]
<1>1. fix[c] \in CallerRecord /\ empty \in Seq(Frames)
  BY DEF FixInv, FixTypeOK
<1>2. Forgotten(c) = f
  BY DEF Forgotten
<1>3. empty = <<>>
  OBVIOUS
<1> HIDE DEF empty
<1> QED BY <1>1, <1>2, <1>3, FrameFacts DEF CallerRecord, InMap, NoEntries

(* A call that fails keeps no entry, whatever became of the pages.         *)
LEMMA FailedStep ==
  ASSUME FixInv, NEW c \in Callers, Failed(c), UNCHANGED <<tvma, users, pte>>,
         wild' \in BOOLEAN, wild => wild'
  PROVE  FixInv'
<1>1. /\ fix' = [fix EXCEPT ![c] = Forgotten(c)] /\ users \in Int
  BY DEF Failed, FixInv, FixTypeOK
<1>2. users' \in Int /\ users' <= users
  BY <1>1
<1> QED BY <1>1, <1>2, ForgottenFacts, Written, CallerStep

(* A caller goes on to the next step of MAP, or dies in it.                *)
LEMMA PcStep ==
  ASSUME FixInv, NEW c \in Callers, NEW to \in InMap \cup {"oops"},
         fix' = [fix EXCEPT ![c].pc = to],
         to = "oops" \/ fix[c].pc \in InMap,
         to \in {"clear", "remap"} => fix[c].pc \in {"clear", "remap"},
         UNCHANGED <<tvma, users>>, wild' \in BOOLEAN, wild => wild',
         \/ UNCHANGED pte
         \/ fix[c].pc \in InMap /\ pte' = [pte EXCEPT ![Page(c)] = Cleared]
  PROVE  FixInv'
<1> DEFINE f == [fix[c] EXCEPT !.pc = to]
<1>0. fix[c] \in CallerRecord /\ users \in Int
  BY DEF FixInv, FixTypeOK
<1>1. fix' = [fix EXCEPT ![c] = f]
  OBVIOUS
<1>2. /\ f \in CallerRecord /\ f.i = fix[c].i /\ f.pc = to /\ f.kept = fix[c].kept
      /\ f.entries = fix[c].entries /\ f.list = fix[c].list
  BY <1>0 DEF CallerRecord
<1> HIDE DEF f
<1>3. f.pc \in InMap => f.list \in Requests[c] /\ f.i = Len(f.entries) /\ f.i < Len(f.list)
  BY <1>2 DEF InMap, FixInv, EntriesInv
<1>4. users' \in Int /\ users' <= users
  BY <1>0
<1>5. users' > 0 /\ ~wild' /\ f.pc \in {"clear", "remap"} => KeptOK(f)
  BY <1>0, <1>2 DEF FixInv, KeptInv, KeptOK
<1>6. /\ fix' \in [Callers -> CallerRecord] /\ fix'[c] = f
      /\ \A d \in Callers \ {c} : Agree(fix'[d], fix[d])
  BY <1>1, <1>2, Written
<1>7. UNCHANGED tvma
  OBVIOUS
<1> QED BY <1>2, <1>3, <1>4, <1>5, <1>6, <1>7, CallerStep

(* The two vma lookups and the two lookups of an entry.                    *)
LEMMA FixLookup ==
  ASSUME FixInv, NEW c \in Callers,
         Lookup(c) \/ LookupAgain(c) \/ ResolveTarget(c) \/ ResolveSource(c)
  PROVE  FixInv'
<1>1. /\ UNCHANGED <<tvma, users, pte>> /\ wild' \in BOOLEAN /\ (wild => wild')
      /\ fix[c].pc \in InMap
  BY DEF FixInv, FixTypeOK, Lookup, LookupAgain, ResolveTarget, ResolveSource, InMap
<1>2. \/ Failed(c)
      \/ \E to \in {"again", "protect", "resolve", "source", "save"} :
           fix' = [fix EXCEPT ![c].pc = to]
  <2>1. CASE Lookup(c)
    BY <2>1, Zenon DEF Lookup
  <2>2. CASE LookupAgain(c)
    BY <2>2, Zenon DEF LookupAgain
  <2>3. CASE ResolveTarget(c)
    BY <2>3, Zenon DEF ResolveTarget
  <2>4. CASE ResolveSource(c)
    BY <2>4, Zenon DEF ResolveSource
  <2> QED BY <2>1, <2>2, <2>3, <2>4
<1>3. CASE Failed(c)
  BY <1>1, <1>3, FailedStep
<1>4. CASE \E to \in {"again", "protect", "resolve", "source", "save"} :
             fix' = [fix EXCEPT ![c].pc = to]
  <2>1. PICK to \in {"again", "protect", "resolve", "source", "save"} :
               fix' = [fix EXCEPT ![c].pc = to]
    BY <1>4
  <2>2. to \in InMap \cup {"oops"} /\ to \notin {"clear", "remap"}
    BY DEF InMap
  <2> QED BY <1>1, <2>1, <2>2, PcStep
<1> QED BY <1>2, <1>3, <1>4

(* The entry is kept.                                                      *)
LEMMA FixSave ==
  ASSUME FixInv, NEW c \in Callers, SaveEntry(c) PROVE FixInv'
<1> DEFINE f == [fix[c] EXCEPT !.pc = "clear", !.kept = pte[Page(c)]]
<1>0. /\ fix[c] \in CallerRecord /\ users \in Int /\ pte \in [TargetPages -> Frames]
      /\ wild \in BOOLEAN
  BY DEF FixInv, FixTypeOK
<1>1. /\ UNCHANGED <<tvma, users, pte>> /\ wild' = (wild \/ ~Resolves(Page(c)))
      /\ fix[c].pc \in InMap /\ fix' = [fix EXCEPT ![c] = f]
  BY DEF SaveEntry, InMap
<1>2. /\ Page(c) \in TargetPages /\ Page(c) = fix[c].list[fix[c].i + 1]
  BY <1>1, PageFacts
<1>3. /\ f \in CallerRecord /\ f.i = fix[c].i /\ f.kept = pte[Page(c)]
      /\ f.entries = fix[c].entries /\ f.list = fix[c].list
  BY <1>0, <1>2 DEF CallerRecord, InMap
<1> HIDE DEF f
<1>4. f.list \in Requests[c] /\ f.i = Len(f.entries) /\ f.i < Len(f.list)
  BY <1>1, <1>3 DEF FixInv, EntriesInv
<1>5. users' \in Int /\ users' <= users /\ wild' \in BOOLEAN /\ (wild => wild')
  BY <1>0, <1>1
<1>6. users' > 0 /\ ~wild' => KeptOK(f)
  BY <1>1, <1>2, <1>3 DEF FixInv, FixupExact, KeptOK, Resolves
<1> QED BY <1>1, <1>3, <1>4, <1>5, <1>6, Written, CallerStep

(* The entry is cleared.                                                   *)
LEMMA FixClear ==
  ASSUME FixInv, NEW c \in Callers, ClearEntry(c) PROVE FixInv'
<1>1. /\ UNCHANGED <<tvma, users>> /\ wild' \in BOOLEAN /\ (wild => wild')
      /\ fix[c].pc \in InMap /\ fix[c].pc \in {"clear", "remap"}
      /\ fix' = [fix EXCEPT ![c].pc = "remap"]
      /\ UNCHANGED pte \/ pte' = [pte EXCEPT ![Page(c)] = Cleared]
  BY DEF FixInv, FixTypeOK, ClearEntry, InMap
<1>2. "remap" \in InMap \cup {"oops"}
  BY DEF InMap
<1> QED BY <1>1, <1>2, PcStep

(* UNMAP never writes a kept entry back: it forgets them at the end.       *)
LEMMA FixUnmap ==
  ASSUME FixInv, NEW c \in Callers, UnmapPage(c) PROVE FixInv'
<1>0. fix[c] \in CallerRecord
  BY DEF FixInv, FixTypeOK
<1>1. /\ UNCHANGED tvma /\ UNCHANGED pte /\ users' \in Int /\ users' <= users
      /\ wild' \in BOOLEAN /\ (wild => wild') /\ UNCHANGED users
  BY DEF FixInv, FixTypeOK, UnmapPage
<1>2. CASE ~Resolves(Page(c))
  <2>1. fix' = [fix EXCEPT ![c].pc = "oops"]
    BY <1>2 DEF UnmapPage, Oops
  <2>2. "oops" \in InMap \cup {"oops"} /\ "oops" \notin {"clear", "remap"}
    BY DEF InMap
  <2> QED BY <1>1, <2>1, <2>2, PcStep
<1>3. CASE Resolves(Page(c)) /\ fix[c].i + 1 = Len(fix[c].list)
  <2> DEFINE f == [Fixed EXCEPT !.pc = "idle"]
  <2>1. fix' = [fix EXCEPT ![c] = f]
    BY <1>3 DEF UnmapPage
  <2>2. f \in CallerRecord /\ f.pc \notin InMap /\ f.pc \notin {"clear", "remap"} /\ NoEntries(f)
    BY FixedType DEF CallerRecord, Fixed, InMap, NoEntries
  <2> HIDE DEF f
  <2> QED BY <1>1, <2>1, <2>2, Written, CallerStep
<1>4. CASE Resolves(Page(c)) /\ fix[c].i + 1 # Len(fix[c].list)
  <2> DEFINE f == [fix[c] EXCEPT !.i = @ + 1]
  <2>1. fix' = [fix EXCEPT ![c] = f] /\ fix[c].pc = "unmap"
    <3>1. fix[c].pc = "unmap"
      BY DEF UnmapPage
    <3>2. fix' = [fix EXCEPT ![c] = f]
      BY <1>4 DEF UnmapPage
    <3> QED BY <3>1, <3>2
  <2>2. /\ f \in CallerRecord /\ f.pc = fix[c].pc
        /\ f.entries = fix[c].entries /\ f.list = fix[c].list
    BY <1>0 DEF CallerRecord
  <2>3. f.pc \notin InMap /\ f.pc \notin {"clear", "remap"}
    BY <2>1, <2>2 DEF InMap
  <2> HIDE DEF f
  <2> QED BY <1>1, <2>1, <2>2, <2>3, Written, CallerStep
<1> QED BY <1>2, <1>3, <1>4

(* protect_pid: either the address space lives on unchanged or the         *)
(* property no longer speaks of it.                                        *)
LEMMA FixProtect ==
  ASSUME FixInv, NEW c \in Callers, Protect(c) PROVE FixInv'
<1>0. /\ fix[c] \in CallerRecord /\ users \in Int /\ fix[c].pc \in InMap
      /\ fix \in [Callers -> CallerRecord] /\ wild \in BOOLEAN /\ wild' = wild
  BY DEF FixInv, FixTypeOK, Protect, InMap
<1>1. users' \in Int /\ users' <= users
  BY <1>0 DEF Protect
<1> DEFINE f == [fix[c] EXCEPT !.pc = "again", !.split = TRUE]
<1>2. PICK mine \in {f, Forgotten(c)} :
        \E gone \in SUBSET Holders : fix' = Without([fix EXCEPT ![c] = mine], gone)
  BY Zenon DEF Protect
<1>3. /\ mine \in CallerRecord /\ mine.pc \notin {"clear", "remap"}
      /\ NoEntries(mine) \/ (mine.entries = fix[c].entries /\ mine.list = fix[c].list)
      /\ mine.pc \in InMap =>
           mine.list \in Requests[c] /\ mine.i = Len(mine.entries) /\ mine.i < Len(mine.list)
  <2>1. CASE mine = Forgotten(c)
    BY <2>1, ForgottenFacts
  <2>2. CASE mine = f
    <3>1. /\ f \in CallerRecord /\ f.i = fix[c].i /\ f.pc = "again"
          /\ f.entries = fix[c].entries /\ f.list = fix[c].list
      BY <1>0 DEF CallerRecord, InMap
    <3> HIDE DEF f
    <3>2. f.list \in Requests[c] /\ f.i = Len(f.entries) /\ f.i < Len(f.list)
      BY <1>0, <3>1 DEF FixInv, EntriesInv
    <3> QED BY <2>2, <3>1, <3>2
  <2> QED BY <2>1, <2>2
<1> HIDE DEF f
<1>4. /\ fix' \in [Callers -> CallerRecord] /\ Agree(fix'[c], mine)
      /\ \A d \in Callers \ {c} : Agree(fix'[d], fix[d])
  <2> DEFINE g == [fix EXCEPT ![c] = mine]
  <2>1. g \in [Callers -> CallerRecord] /\ g[c] = mine /\ \A d \in Callers \ {c} : g[d] = fix[d]
    BY <1>0, <1>3
  <2>2. \E gone \in SUBSET Holders : fix' = Without(g, gone)
    BY <1>2
  <2> HIDE DEF g
  <2>3. fix' \in [Callers -> CallerRecord] /\ \A d \in Callers : Agree(fix'[d], g[d])
    BY <2>1, <2>2, WithoutAgrees
  <2> QED BY <2>1, <2>3
<1>5. /\ NoEntries(fix'[c]) \/ (fix'[c].entries = fix[c].entries /\ fix'[c].list = fix[c].list)
      /\ fix'[c].pc \in InMap =>
           /\ fix'[c].list \in Requests[c]
           /\ fix'[c].i = Len(fix'[c].entries) /\ fix'[c].i < Len(fix'[c].list)
      /\ fix'[c].pc \notin {"clear", "remap"}
  BY <1>3, <1>4 DEF Agree, NoEntries
<1>6. \/ UNCHANGED <<tvma, pte>>
      \/ users' = 0 /\ tvma' = {} /\ pte' = [p \in TargetPages |-> NoTable]
  BY DEF Protect
<1>7. CASE UNCHANGED <<tvma, pte>>
  BY <1>0, <1>1, <1>4, <1>5, <1>7, CallerStep
<1>8. CASE users' = 0 /\ tvma' = {} /\ pte' = [p \in TargetPages |-> NoTable]
  <2>1. FixTypeOK'
    BY <1>0, <1>4, <1>8, FrameFacts DEF FixTypeOK
  <2>2. EntriesInv'
    <3>1. /\ Len(fix'[c].list) \in Nat
          /\ NoEntries(fix'[c]) => fix'[c].entries = <<>> /\ Len(fix'[c].entries) = 0
      BY <1>4 DEF CallerRecord, NoEntries
    <3>2. /\ fix'[c].entries # <<>> => fix'[c].list \in Requests[c]
          /\ Len(fix'[c].entries) <= Len(fix'[c].list)
      BY <1>5, <3>1 DEF FixInv, EntriesInv
    <3> QED BY <1>4, <1>5, <3>2, EntriesStep
  <2>3. FixupExact' /\ KeptInv'
    BY <1>8 DEF FixupExact, KeptInv
  <2> QED BY <2>1, <2>2, <2>3 DEF FixInv
<1> QED BY <1>6, <1>7, <1>8

(* The target unmaps a page or touches one.                                *)
LEMMA FixTarget ==
  ASSUME FixInv, NEW p \in TargetPages, TargetUnmaps(p) \/ TargetTouches(p)
  PROVE  FixInv'
<1>0. fix \in [Callers -> CallerRecord] /\ pte \in [TargetPages -> Frames] /\ wild \in BOOLEAN
  BY DEF FixInv, FixTypeOK
<1>a. /\ fix' \in [Callers -> CallerRecord]
      /\ \A d \in Callers : Agree(fix'[d], fix[d])
  <2>1. CASE TargetUnmaps(p)
    <3>1. \E gone : fix' = Without(fix, gone)
      BY <2>1 DEF TargetUnmaps
    <3> QED BY <1>0, <3>1, WithoutAgrees
  <2>2. CASE TargetTouches(p)
    BY <1>0, <2>2 DEF TargetTouches, Agree
  <2> QED BY <2>1, <2>2
<1>1. /\ users' = users /\ users > 0 /\ wild' = wild
      /\ tvma' \subseteq tvma
      /\ pte' \in [TargetPages -> Frames]
      /\ \A q \in TargetPages : q # p => pte'[q] = pte[q]
      /\ pte'[p] \in {Own(p), Cleared, NoTable}
      /\ p \in tvma' => pte[p] \in {Cleared, NoTable}
  BY <1>0, FrameFacts DEF TargetUnmaps, TargetTouches
<1>2. FixTypeOK'
  BY <1>0, <1>a, <1>1 DEF FixInv, FixTypeOK
<1>3. EntriesInv'
  BY <1>a DEF FixInv, EntriesInv, Agree
<1>k. KeptInv'
  BY <1>a, <1>1 DEF FixInv, KeptInv, KeptOK, Agree
<1>4. ~wild' => \A q \in TargetPages : pte'[q] \in Possible(q)
  BY <1>1 DEF FixInv, FixupExact, Possible
<1> DEFINE S == {}
<1>5. /\ S \in SUBSET Callers /\ \A d \in S : Len(fix'[d].entries) = 0
      /\ \A d \in Callers \ S :
           fix'[d].entries = fix[d].entries /\ fix'[d].list = fix[d].list
  BY <1>a DEF Agree
<1>6. ASSUME NEW d \in Callers \ S, NEW i \in DOMAIN fix[d].entries
      PROVE  LET q == fix[d].list[i]
             IN  users' > 0 /\ ~wild' /\ q \in tvma' /\ ~Contested(d, q) => pte'[q] = pte[q]
  <2>1. i \in Nat
    BY DEF FixInv, FixTypeOK, CallerRecord
  <2>2. Source(d, i) \notin {Cleared, NoTable}
    BY <2>1, FrameFacts
  <2>3. LET q == fix[d].list[i]
        IN  ~wild' /\ q \in tvma /\ ~Contested(d, q) => pte[q] = Source(d, i)
    BY <1>1 DEF FixInv, FixupExact
  <2>4. tvma \subseteq TargetPages
    BY DEF FixInv, FixTypeOK
  <2> QED BY <1>1, <2>2, <2>3, <2>4
<1> HIDE DEF S
<1>7. FixupExact'
  BY <1>1, <1>2, <1>4, <1>5, <1>6, ShownKept
<1> QED BY <1>2, <1>3, <1>k, <1>7 DEF FixInv

(* The page at hand is done: what MAP has kept becomes the last entry.     *)
LEMMA DoneFacts ==
  ASSUME FixInv, NEW c \in Callers, fix[c].pc \in InMap, PageDone(c)
  PROVE  /\ fix' \in [Callers -> CallerRecord]
         /\ \A d \in Callers \ {c} : fix'[d] = fix[d] /\ Agree(fix'[d], fix[d])
         /\ EntriesInv'
         /\ fix'[c].pc \notin {"clear", "remap"}
         /\ fix'[c].list = fix[c].list /\ DOMAIN fix'[c].entries = 1..fix[c].i + 1
         /\ fix'[c].entries[fix[c].i + 1] = fix[c].kept
         /\ \A i \in 1..fix[c].i + 1 : i # fix[c].i + 1 =>
              i \in DOMAIN fix[c].entries /\ fix'[c].entries[i] = fix[c].entries[i]
<1> DEFINE n == fix[c].i + 1
           list == fix[c].list
           all == Append(fix[c].entries, fix[c].kept)
           to == IF n = Len(list) THEN "idle" ELSE "lookup"
           f == [fix[c] EXCEPT !.entries = all, !.i = n, !.pc = to, !.kept = Cleared, !.stale = FALSE]
<1>1. fix[c] \in CallerRecord
  BY DEF FixInv, FixTypeOK
<1>2. /\ list \in Requests[c] /\ n \in DOMAIN list
      /\ fix[c].i = Len(fix[c].entries) /\ fix[c].entries \in Seq(Frames)
      /\ fix[c].kept \in Frames
      /\ list \in Seq(TargetPages) /\ DOMAIN list = 1..Len(list) /\ Len(list) \in Nat
      /\ n \in Nat /\ n <= Len(list)
  BY <1>1, PageFacts, ListFacts DEF CallerRecord
<1>3. /\ all \in Seq(Frames) /\ Len(all) = n /\ DOMAIN all = 1..n
      /\ all[n] = fix[c].kept /\ all # <<>>
      /\ \A i \in 1..n : i # n => i \in DOMAIN fix[c].entries /\ all[i] = fix[c].entries[i]
  BY <1>2
<1>4. fix' = [fix EXCEPT ![c] = f]
  BY DEF PageDone
<1>5. /\ to \in {"idle", "lookup"} /\ (to = "lookup" => n < Len(list))
  BY <1>2
<1> HIDE DEF all, to
<1>6. f \in CallerRecord /\ f.entries = all /\ f.list = list /\ f.i = n /\ f.pc = to
  BY <1>1, <1>2, <1>3, <1>5, FrameFacts DEF CallerRecord, InMap
<1> HIDE DEF f
<1>7. /\ fix' \in [Callers -> CallerRecord] /\ fix'[c] = f
      /\ \A d \in Callers \ {c} : fix'[d] = fix[d] /\ Agree(fix'[d], fix[d])
  BY <1>4, <1>6, Written
<1>8. /\ fix'[c].pc \in InMap =>
           /\ fix'[c].list \in Requests[c]
           /\ fix'[c].i = Len(fix'[c].entries) /\ fix'[c].i < Len(fix'[c].list)
      /\ fix'[c].list \in Requests[c]
      /\ Len(fix'[c].entries) <= Len(fix'[c].list)
  BY <1>2, <1>3, <1>5, <1>6, <1>7 DEF InMap
<1>9. EntriesInv'
  BY <1>7, <1>8, EntriesStep
<1>10. fix'[c].pc \notin {"clear", "remap"}
  BY <1>5, <1>6, <1>7
<1> QED BY <1>3, <1>6, <1>7, <1>9, <1>10

(* The page at hand shows the source page of the same position.  The pages *)
(* before it in the list are others, and a page that another caller has    *)
(* replaced is contested.                                                  *)
LEMMA FixReplaced ==
  ASSUME FixInv, NEW c \in Callers, fix[c].pc = "remap", PageDone(c),
         UNCHANGED <<tvma, users>>, UNCHANGED wild,
         pte' = [pte EXCEPT ![Page(c)] = SourcePage(c)]
  PROVE  FixInv'
<1> DEFINE n == fix[c].i + 1
           list == fix[c].list
           p == Page(c)
<1>0. fix[c].pc \in InMap
  BY DEF InMap
<1>1. /\ fix[c] \in CallerRecord /\ pte \in [TargetPages -> Frames]
      /\ tvma \subseteq TargetPages /\ users \in Int /\ wild \in BOOLEAN
  BY DEF FixInv, FixTypeOK
<1>2. /\ list \in Requests[c] /\ n \in DOMAIN list /\ p = list[n] /\ p \in TargetPages
      /\ DOMAIN list = 1..Len(list) /\ Len(list) \in Nat /\ n \in Nat
  BY <1>0, <1>1, PageFacts, ListFacts DEF CallerRecord
<1>3. /\ fix' \in [Callers -> CallerRecord]
      /\ \A d \in Callers \ {c} : fix'[d] = fix[d] /\ Agree(fix'[d], fix[d])
      /\ EntriesInv'
      /\ fix'[c].pc \notin {"clear", "remap"}
      /\ fix'[c].list = list /\ DOMAIN fix'[c].entries = 1..n
      /\ fix'[c].entries[n] = fix[c].kept
      /\ \A i \in 1..n : i # n =>
           i \in DOMAIN fix[c].entries /\ fix'[c].entries[i] = fix[c].entries[i]
  BY <1>0, DoneFacts
<1>4. list = fix[c].list /\ n = fix[c].i + 1 /\ p = Page(c)
  OBVIOUS
<1> HIDE DEF n, list, p
<1>7. SourcePage(c) = Source(c, n) /\ Source(c, n) \in Frames
  BY <1>4, <1>2, FrameFacts DEF SourcePage
<1>8. /\ pte'[p] = Source(c, n) /\ pte' \in [TargetPages -> Frames]
      /\ \A q \in TargetPages : q # p => pte'[q] = pte[q]
  BY <1>4, <1>1, <1>2, <1>7
<1>9. FixTypeOK'
  BY <1>1, <1>3, <1>8 DEF FixTypeOK
<1>10. KeptInv'
  BY <1>3, KeptStep
<1>11. FixupExact'
  <2> SUFFICES ASSUME users' > 0, ~wild' PROVE FixupExact'
    BY DEF FixupExact
  <2>0. FixupExact /\ users > 0 /\ ~wild
    BY DEF FixInv
  <2>1. ASSUME NEW q \in TargetPages PROVE pte'[q] \in Possible(q)
    BY <1>2, <1>8, <2>0, ListFacts DEF FixupExact
  <2>2. ASSUME NEW d \in Callers, NEW i \in DOMAIN fix'[d].entries
        PROVE  LET q == fix'[d].list[i]
               IN /\ fix'[d].entries[i] \in Possible(q) \ {NoTable}
                  /\ q \in tvma' /\ ~Contested(d, q) => pte'[q] = Source(d, i)
    <3>1. CASE d # c
      <4>1. fix'[d] = fix[d] /\ Contested(d, p)
        BY <1>2, <1>3, <3>1, ListFacts
      <4>2. LET q == fix[d].list[i]
            IN /\ fix[d].entries[i] \in Possible(q) \ {NoTable}
               /\ q \in tvma /\ ~Contested(d, q) => pte[q] = Source(d, i)
        BY <2>0, <4>1 DEF FixupExact
      <4>3. fix[d].list[i] \in tvma /\ ~Contested(d, fix[d].list[i])
              => pte'[fix[d].list[i]] = pte[fix[d].list[i]]
        BY <1>1, <1>8, <4>1
      <4>4. tvma' = tvma
        OBVIOUS
      <4> DEFINE q == fix[d].list[i]
      <4>5. /\ fix'[d].entries[i] \in Possible(q) \ {NoTable}
            /\ q \in tvma' /\ ~Contested(d, q) => pte'[q] = Source(d, i)
        BY <4>1, <4>2, <4>3, <4>4
      <4> QED BY <4>1, <4>5
    <3>2. CASE d = c /\ i = n
      <4>1. fix[c].kept \in Possible(p) \ {NoTable}
        BY <1>2, <1>4, <2>0 DEF FixInv, KeptInv, KeptOK
      <4>2. fix'[d].list[i] = p /\ fix'[d].entries[i] = fix[c].kept
        BY <1>2, <1>3, <3>2
      <4> QED BY <1>8, <3>2, <4>1, <4>2
    <3>3. CASE d = c /\ i # n
      <4>1. /\ i \in DOMAIN fix[c].entries /\ fix'[c].entries[i] = fix[c].entries[i]
            /\ i \in DOMAIN list
        <5>1. i \in 1..n
          BY <1>3, <3>3
        <5> QED BY <1>2, <1>3, <3>3, <5>1
      <4>2. list[i] # p
        BY <1>2, <3>3, <4>1, ListFacts
      <4>3. /\ fix'[d].list[i] = fix[c].list[i] /\ fix[c].list[i] # p
            /\ fix'[d].entries[i] = fix[c].entries[i]
        BY <1>4, <1>3, <3>3, <4>1, <4>2
      <4>4. LET q == fix[c].list[i]
            IN /\ fix[c].entries[i] \in Possible(q) \ {NoTable}
               /\ q \in tvma /\ ~Contested(c, q) => pte[q] = Source(c, i)
        BY <2>0, <4>1 DEF FixupExact
      <4> QED BY <1>1, <1>8, <3>3, <4>3, <4>4
    <3> QED BY <3>1, <3>2, <3>3
  <2> QED BY <2>1, <2>2 DEF FixupExact
<1> QED BY <1>3, <1>9, <1>10, <1>11 DEF FixInv

(* With a stale vma the property no longer speaks of the target.           *)
LEMMA WildStep ==
  ASSUME FixInv, NEW c \in Callers, fix[c].pc \in InMap,
         PageDone(c) \/ Failed(c) \/ Oops(c),
         UNCHANGED <<tvma, users>>, wild' = TRUE,
         pte' \in [TargetPages -> Frames]
  PROVE  FixInv'
<1>1. fix[c] \in CallerRecord
  BY DEF FixInv, FixTypeOK
<1>2. fix' \in [Callers -> CallerRecord] /\ EntriesInv'
  <2>1. CASE PageDone(c)
    BY <2>1, DoneFacts
  <2>2. CASE Failed(c)
    <3>1. /\ fix' \in [Callers -> CallerRecord] /\ fix'[c] = Forgotten(c)
          /\ \A d \in Callers \ {c} : Agree(fix'[d], fix[d])
      BY <2>2, ForgottenFacts, Written DEF Failed
    <3>2. /\ fix'[c].pc \notin InMap /\ fix'[c].entries = <<>>
          /\ Len(fix'[c].entries) = 0 /\ Len(fix'[c].list) \in Nat
      BY <3>1, ForgottenFacts DEF CallerRecord
    <3> QED BY <3>1, <3>2, EntriesStep
  <2>3. CASE Oops(c)
    <3> DEFINE f == [fix[c] EXCEPT !.pc = "oops"]
    <3>1. fix' = [fix EXCEPT ![c] = f]
      BY <2>3 DEF Oops
    <3>2. /\ f \in CallerRecord /\ f.pc \notin InMap
          /\ f.entries = fix[c].entries /\ f.list = fix[c].list
      BY <1>1 DEF CallerRecord, InMap
    <3> HIDE DEF f
    <3>3. /\ fix' \in [Callers -> CallerRecord] /\ fix'[c] = f
          /\ \A d \in Callers \ {c} : Agree(fix'[d], fix[d])
      BY <3>1, <3>2, Written
    <3>4. /\ f.entries # <<>> => f.list \in Requests[c]
          /\ Len(f.entries) <= Len(f.list)
      BY <3>2 DEF FixInv, EntriesInv
    <3> QED BY <3>2, <3>3, <3>4, EntriesStep
  <2> QED BY <2>1, <2>2, <2>3
<1>3. FixTypeOK'
  BY <1>2 DEF FixInv, FixTypeOK
<1>4. KeptInv' /\ FixupExact'
  BY DEF KeptInv, FixupExact
<1> QED BY <1>2, <1>3, <1>4 DEF FixInv

(* remap_pfn_range.                                                        *)
LEMMA FixRemap ==
  ASSUME FixInv, NEW c \in Callers, Remap(c) PROVE FixInv'
<1>0. /\ pte \in [TargetPages -> Frames] /\ wild \in BOOLEAN /\ fix[c] \in CallerRecord
      /\ fix[c].stale \in BOOLEAN
  BY DEF FixInv, FixTypeOK, CallerRecord
<1>1. /\ fix[c].pc = "remap" /\ UNCHANGED <<tvma, users>> /\ wild' = (wild \/ fix[c].stale)
  BY DEF Remap
<1>2. fix[c].pc \in InMap /\ Page(c) \in TargetPages
  <2>1. fix[c].pc \in InMap
    BY <1>1 DEF InMap
  <2> QED BY <2>1, PageFacts
<1>3. [pte EXCEPT ![Page(c)] = SourcePage(c)] \in [TargetPages -> Frames]
  <2>1. fix[c].i + 1 \in Nat
    BY <1>0 DEF CallerRecord
  <2> QED BY <1>0, <2>1, FrameFacts DEF SourcePage
<1>4. CASE fix[c].stale
  <2>1. /\ wild' = TRUE /\ pte' \in [TargetPages -> Frames]
        /\ PageDone(c) \/ Failed(c) \/ Oops(c)
    BY <1>0, <1>1, <1>3, <1>4 DEF Remap
  <2> QED BY <1>1, <1>2, <2>1, WildStep
<1>5. CASE ~fix[c].stale
  <2>1. wild' = wild /\ wild' \in BOOLEAN /\ (wild => wild')
    BY <1>0, <1>1, <1>5
  <2>2. \/ PageDone(c) /\ pte' = [pte EXCEPT ![Page(c)] = SourcePage(c)]
        \/ Failed(c) /\ UNCHANGED pte
        \/ Oops(c) /\ UNCHANGED pte
    BY <1>5 DEF Remap
  <2>3. CASE PageDone(c) /\ pte' = [pte EXCEPT ![Page(c)] = SourcePage(c)]
    BY <1>1, <2>1, <2>3, FixReplaced
  <2>4. CASE Failed(c) /\ UNCHANGED pte
    BY <1>1, <2>1, <2>4, FailedStep
  <2>5. CASE Oops(c) /\ UNCHANGED pte
    <3>1. "oops" \in InMap \cup {"oops"} /\ "oops" \notin {"clear", "remap"}
      OBVIOUS
    <3>2. fix' = [fix EXCEPT ![c].pc = "oops"]
      BY <2>5 DEF Oops
    <3> QED BY <1>1, <2>1, <2>5, <3>1, <3>2, PcStep
  <2> QED BY <2>2, <2>3, <2>4, <2>5
<1> QED BY <1>0, <1>4, <1>5

LEMMA FixStep == FixInv /\ [FixNext]_fixVars => FixInv'
<1> SUFFICES ASSUME FixInv, [FixNext]_fixVars PROVE FixInv'
  OBVIOUS
<1>1. CASE FixLoad \/ FixExit \/ UNCHANGED fixVars
  BY <1>1, SameFix DEF FixLoad, FixExit, fixVars
<1>2. ASSUME NEW c \in Callers, FixOpen(c) \/ FixRelease(c) \/ UnmapBegin(c)
      PROVE  FixInv'
  BY <1>2, FixFiles
<1>3. ASSUME NEW c \in Callers, NEW list \in Requests[c], MapBegin(c, list)
      PROVE  FixInv'
  BY <1>3, FixMapBegin
<1>4. ASSUME NEW c \in Callers, Works(c) PROVE FixInv'
  BY <1>4, FixLookup, FixProtect, FixSave, FixClear, FixRemap, FixUnmap DEF Works
<1>5. ASSUME NEW p \in TargetPages, TargetUnmaps(p) \/ TargetTouches(p) PROVE FixInv'
  BY <1>5, FixTarget
<1> QED BY <1>1, <1>2, <1>3, <1>4, <1>5 DEF FixNext

(* Whatever the interleaving of the single steps of the callers' MAP and   *)
(* UNMAP with the faults and unmaps of the target, every page of the       *)
(* target shows its own frame or the source page that stands at its        *)
(* position in somebody's list, MAP keeps only such entries, and a page    *)
(* that MAP has replaced shows its caller's source page unless the target  *)
(* unmaps it or another caller may ask for it (fops_ioctl_do_map and       *)
(* fops_ioctl of fh_fixup_mod.c).  Two cases are left out: an address      *)
(* space whose last reference protect_pid has given back (402), and        *)
(* everything after a MAP has used a vma or a page table that was given    *)
(* back between its lookup and its use (574-666).                          *)
THEOREM FixupsAreExact == FixSpec => []FixupExact
<1>1. FixInv => FixupExact
  BY DEF FixInv
<1> QED BY <1>1, FixStart, FixStep, PTL DEF FixSpec

================================================================================
